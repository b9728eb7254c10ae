------------------------- MODULE Withdrawal_proofs -------------------------
(***************************************************************************)
(* What holds of Withdrawal for any number of hosts, requests, handlers in *)
(* flight, crashes, outages and lost webhooks.                             *)
(***************************************************************************)
EXTENDS Withdrawal, Sums, TLAPS

-----------------------------------------------------------------------------
(* Invariants that hold whoever decides on what *)

\* A handler past its first step, or one a webhook waits for, works on a request.
Bound(t) ==
    task[t].at \notin {"idle", "insert"} \/ task[t].hook => task[t].on \in Requests

\* One that is about to mark a payout paid has seen Cashfree say so.
PaidSeen(t) ==
    CashfreeConfigured /\ At(t, "markPaid") => transfer[task[t].on] \in {"paid", "reversed"}

\* A request is inserted as approved or pending, for a host and an amount.
GoodDraft(row) ==
    row.status \in {"approved", "pending"} /\ row.host \in Hosts /\ row.beans \in Amounts
Drafted(t) == At(t, "insert") => GoodDraft(task[t].row)

HandlersOK == \A t \in Tasks : Bound(t) /\ PaidSeen(t) /\ Drafted(t)

IInv == TypeOK /\ HandlersOK /\ PaidWasTransferred

\* What has been paid is paid or reversed from then on.
LEMMA PaidStays ==
    ASSUME TypeOK, Next, NEW w \in Requests, transfer[w] \in {"paid", "reversed"}
    PROVE  transfer'[w] \in {"paid", "reversed"}
  <1> USE DEF TypeOK, rows, gateway
  <1>1. CASE \E t \in Tasks : Arrives(t) \/ LookupFails(t)
    BY <1>1 DEF Arrives, RequestCount, DecideRead, DevResolvePayout, LookupFails
  <1>2. CASE \E t \in Tasks : Continue(t)
    BY <1>2 DEF Continue, RequestInsert, Initiate, Lookup, Record, RejectWrite,
                ApproveWrite, Sync, MarkPaid, MarkFailed
  <1>3. CASE \E t \in Tasks, x \in Requests : Poll(t, x) \/ WebhookArrives(t, x)
    BY <1>3 DEF Poll, WebhookArrives
  <1>4. CASE \E x \in Requests : LeaveWindow(x) \/ WebhookLost(x)
    BY <1>4 DEF LeaveWindow, WebhookLost
  <1>5. CASE \E x \in Requests : TransferSettles(x) \/ TransferReversed(x)
    BY <1>5 DEF TransferSettles, TransferReversed, TransferMoves
  <1>6. CASE \E S \in SUBSET Tasks : Crash(S)
    BY <1>6 DEF Crash
  <1> QED BY <1>1, <1>2, <1>3, <1>4, <1>5, <1>6 DEF Next

-----------------------------------------------------------------------------
(* Types of rows and tasks that steps build *)

LEMMA IdleTyped == Idle \in Task /\ NoRequest \in RequestRow
  BY DEF Idle, Handler, Task, NoRequest, RequestRow, Steps, Statuses

LEMMA HandlerTyped ==
    ASSUME NEW step \in Steps, NEW w \in Requests \cup {Nobody},
           NEW row \in RequestRow, NEW hook \in BOOLEAN
    PROVE  /\ Handler(step, w, row, hook) \in Task
           /\ Handler(step, w, row, hook).at = step
           /\ Handler(step, w, row, hook).on = w
           /\ Handler(step, w, row, hook).row = row
           /\ Handler(step, w, row, hook).from = {}
           /\ Handler(step, w, row, hook).hook = hook
  BY DEF Handler, Task

LEMMA AmountsNat ==
    ASSUME NEW b \in Amounts \cup {0}
    PROVE  b \in Nat
  <1>1. Amounts \subseteq Nat
    BY WithdrawalConstants
  <1>2. b \in Amounts \/ b = 0
    OBVIOUS
  <1>3. 0 \in Nat
    OBVIOUS
  <1> QED BY <1>1, <1>2, <1>3

LEMMA BeansNat ==
    ASSUME NEW row \in RequestRow
    PROVE  row.beans \in Nat
  <1>1. row.beans \in Amounts \cup {0}
    BY DEF RequestRow
  <1> QED BY <1>1, AmountsNat

\* A balance may be set to any natural number, and only that of a host.
LEMMA BalanceTyped ==
    ASSUME NEW b \in [Hosts -> Nat], NEW h, NEW n, h \in Hosts => n \in Nat
    PROVE  [b EXCEPT ![h] = n] \in [Hosts -> Nat]
  <1>1. CASE h \in Hosts
    BY <1>1
  <1>2. CASE h \notin Hosts
    BY <1>2
  <1> QED BY <1>1, <1>2

LEMMA RowTyped ==
    ASSUME TypeOK, NEW w \in Requests
    PROVE  /\ request[w] \in RequestRow
           /\ request[w].beans \in Nat
           /\ \A s \in Statuses :
                [request EXCEPT ![w].status = s] \in [Requests -> RequestRow]
  <1>1. request[w] \in RequestRow
    BY DEF TypeOK
  <1>2. \A s \in Statuses : [request[w] EXCEPT !.status = s] \in RequestRow
    BY <1>1 DEF RequestRow
  <1> QED BY <1>1, <1>2, BeansNat DEF TypeOK

LEMMA SetStatusTyped ==
    ASSUME TypeOK, NEW w \in Requests, NEW s \in Statuses
    PROVE  SetStatus(w, s) => request' \in [Requests -> RequestRow]
  BY RowTyped DEF SetStatus

LEMMA StatusAndKindNames ==
    /\ {"approved", "processing", "paid", "failed", "rejected"} \subseteq Statuses
    /\ {"rejectReversal", "failureReversal"} \subseteq Kinds
  BY DEF Statuses, Kinds

LEMMA CreditTyped ==
    ASSUME TypeOK, NEW w \in Requests, NEW kind \in Kinds, CreditHostBeans(w, kind)
    PROVE  beans' \in [Hosts -> Nat] /\ ledger' \subseteq Requests \X Kinds
  <1> DEFINE h == request[w].host
             n == request[w].beans
  <1>1. n \in Nat
    BY RowTyped
  <1>2. beans' = [beans EXCEPT ![h] = beans[h] + n]
    BY DEF CreditHostBeans
  <1>3. h \in Hosts => beans[h] + n \in Nat
    BY <1>1 DEF TypeOK
  <1>4. ledger' \subseteq Requests \X Kinds
    BY DEF CreditHostBeans, TypeOK
  <1> HIDE DEF h, n
  <1> QED BY <1>2, <1>3, <1>4, BalanceTyped DEF TypeOK

\* The types of a task that has moved on.
LEMMA TaskTyped ==
    ASSUME TypeOK, NEW t \in Tasks
    PROVE  /\ task[t] \in Task
           /\ \A r \in Task : Become(t, r) => task' \in [Tasks -> Task]
           /\ \A step \in Steps : Goto(t, step) => task' \in [Tasks -> Task]
           /\ \A S \in SUBSET Statuses : FailFrom(t, S) => task' \in [Tasks -> Task]
           /\ Finish(t) => task' \in [Tasks -> Task]
  <1>1. task[t] \in Task
    BY DEF TypeOK
  <1>2. \A step \in Steps : [task[t] EXCEPT !.at = step] \in Task
    BY <1>1 DEF Task
  <1>3. \A S \in SUBSET Statuses :
            [[task[t] EXCEPT !.at = "markFailed"] EXCEPT !.from = S] \in Task
    BY <1>1 DEF Task, Steps
  <1>4. \A r \in Task : Become(t, r) => task' \in [Tasks -> Task]
    BY DEF Become, TypeOK
  <1>5. \A step \in Steps : Goto(t, step) => task' \in [Tasks -> Task]
    BY <1>2 DEF Goto, TypeOK
  <1>6. \A S \in SUBSET Statuses : FailFrom(t, S) => task' \in [Tasks -> Task]
    BY <1>3 DEF FailFrom, TypeOK
  <1>7. Finish(t) => task' \in [Tasks -> Task]
    BY <1>4, IdleTyped DEF Finish
  <1> QED BY <1>1, <1>4, <1>5, <1>6, <1>7

LEMMA AskAgainTyped ==
    ASSUME TypeOK, NEW t \in Tasks, Bound(t), ~At(t, "idle"), ~At(t, "insert"), AskAgain(t)
    PROVE  webhook' \subseteq Requests
  BY DEF AskAgain, TypeOK, Bound, At

\* Every step of a handler keeps the types.
LEMMA HandlerTypes ==
    ASSUME IInv, NEW t \in Tasks, Continue(t) \/ LookupFails(t)
    PROVE  TypeOK'
  <1> DEFINE w == task[t].on
  <1>0. TypeOK /\ Bound(t) /\ task[t] \in Task
    BY TaskTyped DEF IInv, HandlersOK
  <1>1. CASE RequestInsert(t)
    <2> DEFINE draft == task[t].row
    <2>1. draft \in RequestRow /\ draft.beans \in Nat
      BY <1>0, BeansNat DEF Task
    <2>2. CASE CanAfford(draft.host, draft.beans)
      <3>1. PICK x \in Unused :
              /\ request' = [request EXCEPT ![x] = draft]
              /\ recent' = recent \cup {x}
              /\ DebitHostBeans(x, draft.host, draft.beans)
              /\ IF draft.status = "approved"
                 THEN Become(t, Handler("initiate", x, NoRequest, FALSE))
                 ELSE Finish(t)
        BY <1>1, <2>2 DEF RequestInsert
      <3>2. x \in Requests
        BY DEF Unused
      <3>3. beans' \in [Hosts -> Nat]
        <4> DEFINE h == draft.host
                   n == draft.beans
        <4>1. beans' = [beans EXCEPT ![h] = beans[h] - n]
          BY <3>1 DEF DebitHostBeans
        <4>2. n \in Nat /\ beans[h] >= n
          BY <2>1, <2>2 DEF CanAfford
        <4>3. h \in Hosts => beans[h] \in Nat
          BY <1>0 DEF TypeOK
        <4> HIDE DEF h, n
        <4>4. h \in Hosts => beans[h] - n \in Nat
          BY <4>2, <4>3
        <4> QED BY <1>0, <4>1, <4>4, BalanceTyped DEF TypeOK
      <3>4. ledger' \subseteq Requests \X Kinds
        BY <1>0, <3>1, <3>2 DEF DebitHostBeans, TypeOK, Kinds
      <3>5. task' \in [Tasks -> Task]
        BY <1>0, <3>1, <3>2, TaskTyped, HandlerTyped, IdleTyped DEF Steps
      <3>6. request' \in [Requests -> RequestRow] /\ recent' \subseteq Requests
        BY <1>0, <2>1, <3>1, <3>2 DEF TypeOK
      <3> QED BY <1>0, <1>1, <3>3, <3>4, <3>5, <3>6 DEF RequestInsert, TypeOK, gateway
    <2>3. CASE ~CanAfford(draft.host, draft.beans)
      BY <1>0, <1>1, <2>3, TaskTyped DEF RequestInsert, TypeOK, rows, gateway
    <2> QED BY <2>2, <2>3
  <1>2. CASE Initiate(t)
    <2>1. task' \in [Tasks -> Task]
      BY <1>0, <1>2, TaskTyped DEF Initiate, Steps
    <2> QED BY <1>0, <1>2, <2>1 DEF Initiate, TypeOK, rows
  <1>3. CASE Lookup(t) \/ Sync(t)
    <2>1. task' \in [Tasks -> Task]
      BY <1>0, <1>3, TaskTyped DEF Lookup, Sync, Steps, Statuses
    <2> QED BY <1>0, <1>3, <2>1 DEF Lookup, Sync, TypeOK, rows, gateway
  <1>4. CASE Record(t)
    <2>1. request' \in [Requests -> RequestRow]
      BY <1>0, <1>4 DEF Record, At, Bound, TypeOK, RequestRow, Statuses
    <2> QED BY <1>0, <1>4, <2>1, TaskTyped DEF Record, TypeOK, gateway
  <1>5. CASE RejectWrite(t)
    <2>1. w \in Requests
      BY <1>0, <1>5 DEF RejectWrite, At, Bound
    <2>2. /\ request' \in [Requests -> RequestRow]
          /\ beans' \in [Hosts -> Nat]
          /\ ledger' \subseteq Requests \X Kinds
      <3>1. CASE CreditHostBeans(w, "rejectReversal") /\ SetStatus(w, "rejected")
        BY <1>0, <2>1, <3>1, SetStatusTyped, CreditTyped, StatusAndKindNames
      <3>2. CASE UNCHANGED <<request, beans, ledger>>
        BY <1>0, <3>2 DEF TypeOK
      <3> QED BY <1>5, <3>1, <3>2 DEF RejectWrite
    <2> QED BY <1>0, <1>5, <2>2, TaskTyped DEF RejectWrite, TypeOK, gateway
  <1>6. CASE ApproveWrite(t)
    <2>1. request' \in [Requests -> RequestRow]
      BY <1>0, <1>6, SetStatusTyped, StatusAndKindNames DEF ApproveWrite, At, Bound
    <2>2. task' \in [Tasks -> Task]
      BY <1>0, <1>6, TaskTyped DEF ApproveWrite, Steps
    <2> QED BY <1>0, <1>6, <2>1, <2>2 DEF ApproveWrite, TypeOK, gateway
  <1>7. CASE MarkPaid(t)
    <2>1. w \in Requests
      BY <1>0, <1>7 DEF MarkPaid, At, Bound
    <2>2. request' \in [Requests -> RequestRow]
      <3>1. CASE SetStatus(w, "paid")
        BY <1>0, <2>1, <3>1, SetStatusTyped, StatusAndKindNames
      <3>2. CASE UNCHANGED request
        BY <1>0, <3>2 DEF TypeOK
      <3> QED BY <1>7, <3>1, <3>2 DEF MarkPaid
    <2> QED BY <1>0, <1>7, <2>2, TaskTyped DEF MarkPaid, TypeOK, gateway
  <1>8. CASE MarkFailed(t)
    <2>1. w \in Requests /\ ~At(t, "idle") /\ ~At(t, "insert")
      BY <1>0, <1>8 DEF MarkFailed, At, Bound
    <2>2. /\ request' \in [Requests -> RequestRow]
          /\ beans' \in [Hosts -> Nat]
          /\ ledger' \subseteq Requests \X Kinds
      <3>1. CASE CreditHostBeans(w, "failureReversal") /\ SetStatus(w, "failed")
        BY <1>0, <2>1, <3>1, SetStatusTyped, CreditTyped, StatusAndKindNames
      <3>2. CASE UNCHANGED <<request, beans, ledger>>
        BY <1>0, <3>2 DEF TypeOK
      <3> QED BY <1>8, <3>1, <3>2 DEF MarkFailed
    <2>3. webhook' \subseteq Requests
      BY <1>0, <1>8, <2>1, AskAgainTyped DEF MarkFailed, TypeOK
    <2> QED BY <1>0, <1>8, <2>2, <2>3, TaskTyped DEF MarkFailed, TypeOK
  <1>9. CASE LookupFails(t)
    <2>1. webhook' \subseteq Requests
      BY <1>0, <1>9, AskAgainTyped DEF LookupFails, At
    <2>2. faults' \in [crash: Nat, outage: Nat, lost: Nat]
      BY <1>0, <1>9 DEF LookupFails, TypeOK
    <2> QED BY <1>0, <1>9, <2>1, <2>2, TaskTyped DEF LookupFails, TypeOK, rows
  <1> QED BY <1>1, <1>2, <1>3, <1>4, <1>5, <1>6, <1>7, <1>8, <1>9 DEF Continue

\* So does every arrival, every answer of Cashfree and every fault.
LEMMA ArrivalTypes ==
    ASSUME TypeOK, NEW t \in Tasks,
           Arrives(t) \/ \E w \in Requests : Poll(t, w) \/ WebhookArrives(t, w)
    PROVE  TypeOK'
  <1>1. CASE \E h \in Hosts, b \in Amounts : RequestCount(t, h, b)
    <2>1. PICK h \in Hosts, b \in Amounts : RequestCount(t, h, b)
      BY <1>1
    <2> DEFINE row == [status |-> IF b \in AutoApproved THEN "approved" ELSE "pending",
                       host |-> h, beans |-> b, sent |-> FALSE]
    <2>2. row \in RequestRow
      BY DEF RequestRow, Statuses
    <2>3. Handler("insert", Nobody, row, FALSE) \in Task
      BY <2>2, HandlerTyped DEF Steps
    <2>4. Become(t, Handler("insert", Nobody, row, FALSE))
      BY <2>1 DEF RequestCount
    <2>5. task' \in [Tasks -> Task]
      BY <2>3, <2>4, TaskTyped
    <2> QED BY <2>1, <2>5 DEF RequestCount, TypeOK, rows, gateway
  <1>2. CASE \E w \in Requests : DecideRead(t, w)
    <2>1. PICK w \in Requests, step \in {"reject", "approve"} :
            Become(t, Handler(step, w, NoRequest, FALSE))
      BY <1>2 DEF DecideRead
    <2>2. task' \in [Tasks -> Task]
      BY <2>1, TaskTyped, HandlerTyped, IdleTyped DEF Steps
    <2> QED BY <1>2, <2>2 DEF DecideRead, TypeOK, rows, gateway
  <1>3. CASE \E w \in Requests : DevResolvePayout(t, w)
    <2>1. PICK w \in Requests : DevResolvePayout(t, w)
      BY <1>3
    <2>2. Handler("markPaid", w, NoRequest, FALSE) \in Task
      BY HandlerTyped, IdleTyped DEF Steps
    <2>3. [Handler("markFailed", w, NoRequest, FALSE)
             EXCEPT !.from = {"processing"}] \in Task
      BY IdleTyped DEF Handler, Task, Steps, Statuses
    <2>4. task' \in [Tasks -> Task]
      BY <2>1, <2>2, <2>3, TaskTyped DEF DevResolvePayout
    <2> QED BY <2>1, <2>4 DEF DevResolvePayout, TypeOK, rows, gateway
  <1>4. CASE \E w \in Requests : Poll(t, w) \/ WebhookArrives(t, w)
    <2>1. PICK w \in Requests : Poll(t, w) \/ WebhookArrives(t, w)
      BY <1>4
    <2>2. \A hook \in BOOLEAN : Handler("sync", w, request[w], hook) \in Task
      BY RowTyped, HandlerTyped DEF Steps
    <2>3. task' \in [Tasks -> Task]
      BY <2>1, <2>2, TaskTyped DEF Poll, WebhookArrives, TypeOK
    <2> QED BY <2>1, <2>3 DEF Poll, WebhookArrives, TypeOK, rows, gateway
  <1> QED BY <1>1, <1>2, <1>3, <1>4 DEF Arrives

LEMMA EnvironmentTypes ==
    ASSUME IInv,
           \/ \E w \in Requests : \/ LeaveWindow(w) \/ TransferSettles(w)
                                  \/ TransferReversed(w) \/ WebhookLost(w)
           \/ \E S \in SUBSET Tasks : Crash(S)
    PROVE  TypeOK'
  <1> USE DEF IInv
  <1>1. CASE \E w \in Requests : LeaveWindow(w)
    BY <1>1 DEF LeaveWindow, TypeOK, gateway
  <1>2. CASE \E w \in Requests : TransferSettles(w) \/ TransferReversed(w)
    BY <1>2 DEF TransferSettles, TransferReversed, TransferMoves, TypeOK, rows
  <1>3. CASE \E w \in Requests : WebhookLost(w)
    BY <1>3 DEF WebhookLost, TypeOK, rows
  <1>4. CASE \E S \in SUBSET Tasks : Crash(S)
    <2>1. PICK S \in SUBSET Tasks : Crash(S)
      BY <1>4
    <2>2. task' \in [Tasks -> Task]
      BY <2>1, IdleTyped DEF Crash, TypeOK
    <2>3. \A t \in Tasks : task[t].hook => task[t].on \in Requests
      BY DEF HandlersOK, Bound
    <2> QED BY <2>1, <2>2, <2>3 DEF Crash, TypeOK, rows
  <1> QED BY <1>1, <1>2, <1>3, <1>4

\* A handler that did not move, or was reset by a crash, still knows its place.
LEMMA HandlerKept ==
    ASSUME TypeOK, Next, NEW t \in Tasks, Bound(t), PaidSeen(t), Drafted(t),
           task'[t] = task[t] \/ task'[t] = Idle
    PROVE  Bound(t)' /\ PaidSeen(t)' /\ Drafted(t)'
  <1>1. CASE task'[t] = Idle
    BY <1>1 DEF Bound, PaidSeen, Drafted, At, Idle, Handler
  <1>2. CASE task'[t] = task[t]
    <2>1. Bound(t)'
      BY <1>2 DEF Bound
    <2>2. PaidSeen(t)'
      BY <1>2, PaidStays DEF Bound, PaidSeen, At
    <2>3. Drafted(t)'
      BY <1>2 DEF Drafted, At
    <2> QED BY <2>1, <2>2, <2>3
  <1> QED BY <1>1, <1>2

LEMMA HandlersStep ==
    ASSUME IInv, Next
    PROVE  HandlersOK'
  <1>0. TypeOK /\ HandlersOK
    BY DEF IInv
  <1>1. CASE \A t \in Tasks : task'[t] = task[t] \/ task'[t] = Idle
    BY <1>0, <1>1, HandlerKept DEF HandlersOK
  <1>2. ASSUME NEW t \in Tasks, \A s \in Tasks \ {t} : task'[s] = task[s],
               Bound(t)' /\ PaidSeen(t)' /\ Drafted(t)'
        PROVE  HandlersOK'
    BY <1>0, <1>2, HandlerKept DEF HandlersOK
  <1>3. ASSUME NEW t \in Tasks, NEW r, Become(t, r)
        PROVE  task'[t] = r /\ \A s \in Tasks \ {t} : task'[s] = task[s]
    BY <1>0, <1>3 DEF Become, TypeOK
  <1>4. ASSUME NEW t \in Tasks, NEW r, Become(t, r),
               r.at \notin {"idle", "insert"} \/ r.hook => r.on \in Requests,
               r.at # "markPaid" \/ ~CashfreeConfigured,
               r.at = "insert" => GoodDraft(r.row)
        PROVE  HandlersOK'
    BY <1>2, <1>3, <1>4 DEF Bound, PaidSeen, Drafted, At
  <1>5. ASSUME NEW t \in Tasks, Arrives(t)
        PROVE  HandlersOK'
    <2>1. CASE \E h \in Hosts, b \in Amounts : RequestCount(t, h, b)
      BY <1>4, <2>1 DEF RequestCount, Handler, GoodDraft
    <2>2. CASE \E w \in Requests : DecideRead(t, w)
      BY <1>4, <2>2 DEF DecideRead, Handler
    <2>3. CASE \E w \in Requests : DevResolvePayout(t, w)
      BY <1>4, <2>3 DEF DevResolvePayout, Handler
    <2> QED BY <1>5, <2>1, <2>2, <2>3 DEF Arrives
  <1>6. ASSUME NEW t \in Tasks, NEW w \in Requests, Poll(t, w) \/ WebhookArrives(t, w)
        PROVE  HandlersOK'
    BY <1>1, <1>4, <1>6 DEF Poll, WebhookArrives, Handler
  <1>7. ASSUME NEW t \in Tasks, Continue(t) \/ LookupFails(t)
        PROVE  HandlersOK'
    <2>1. task[t] \in Task /\ Bound(t)
      BY <1>0 DEF TypeOK, HandlersOK
    <2>2. ~At(t, "idle") /\ (At(t, "insert") \/ task[t].on \in Requests)
      BY <1>7, <2>1 DEF Continue, RequestInsert, Initiate, Lookup, Record,
            RejectWrite, ApproveWrite, Sync, MarkPaid, MarkFailed, LookupFails,
            At, Bound
    <2>3. ASSUME Finish(t) PROVE HandlersOK'
      BY <1>4, <2>3 DEF Finish, Idle, Handler
    <2>4. ASSUME ~At(t, "insert"), NEW S, FailFrom(t, S) PROVE HandlersOK'
      <3>1. /\ task'[t].at = "markFailed" /\ task'[t].on = task[t].on
            /\ \A s \in Tasks \ {t} : task'[s] = task[s]
        BY <1>0, <2>1, <2>4 DEF FailFrom, TypeOK, Task
      <3> QED BY <1>2, <2>2, <2>4, <3>1 DEF Bound, PaidSeen, Drafted, At
    <2>5. ASSUME ~At(t, "insert"), NEW step, Goto(t, step), step # "insert",
                 step # "markPaid" \/ transfer'[task[t].on] \in {"paid", "reversed"}
          PROVE HandlersOK'
      <3>1. /\ task'[t].at = step /\ task'[t].on = task[t].on
            /\ \A s \in Tasks \ {t} : task'[s] = task[s]
        BY <1>0, <2>1, <2>5 DEF Goto, TypeOK, Task
      <3> QED BY <1>2, <2>2, <2>5, <3>1 DEF Bound, PaidSeen, Drafted, At
    <2>6. CASE RequestInsert(t)
      <3>1. ASSUME NEW w \in Requests, Become(t, Handler("initiate", w, NoRequest, FALSE))
            PROVE  HandlersOK'
        BY <1>4, <3>1 DEF Handler
      <3> QED BY <2>3, <2>6, <3>1 DEF RequestInsert, Unused
    <2>7. CASE Initiate(t)
      BY <2>5, <2>7 DEF Initiate, At
    <2>8. CASE Lookup(t)
      BY <2>4, <2>5, <2>8 DEF Lookup, At
    <2>9. CASE ApproveWrite(t)
      BY <2>5, <2>9 DEF ApproveWrite, At
    <2>10. CASE Sync(t)
      BY <2>3, <2>4, <2>5, <2>10 DEF Sync, At, CountsAsPaid, gateway
    <2>11. CASE Record(t) \/ RejectWrite(t) \/ MarkPaid(t) \/ MarkFailed(t) \/ LookupFails(t)
      BY <2>3, <2>11 DEF Record, RejectWrite, MarkPaid, MarkFailed, LookupFails
    <2> QED BY <1>7, <2>6, <2>7, <2>8, <2>9, <2>10, <2>11 DEF Continue
  <1>8. CASE \E w \in Requests :
            LeaveWindow(w) \/ TransferSettles(w) \/ TransferReversed(w) \/ WebhookLost(w)
    BY <1>1, <1>8 DEF LeaveWindow, TransferSettles, TransferReversed, TransferMoves,
                      WebhookLost
  <1>9. CASE \E S \in SUBSET Tasks : Crash(S)
    BY <1>1, <1>9 DEF Crash
  <1> QED BY <1>5, <1>6, <1>7, <1>8, <1>9 DEF Next

\* Only markPayoutPaid makes a request paid.
LEMMA PaidStep ==
    ASSUME IInv, Next
    PROVE  PaidWasTransferred'
  <1>0. TypeOK /\ HandlersOK /\ PaidWasTransferred
    BY DEF IInv
  <1>1. ASSUME \A w \in Requests : Status(w)' = "paid" => Status(w) = "paid"
        PROVE  PaidWasTransferred'
    BY <1>0, <1>1, PaidStays DEF PaidWasTransferred
  <1>2. CASE UNCHANGED request
    BY <1>1, <1>2 DEF Status
  <1>3. ASSUME NEW w \in Requests, NEW s, SetStatus(w, s), s # "paid"
        PROVE  PaidWasTransferred'
    BY <1>0, <1>1, <1>3 DEF SetStatus, Status, TypeOK, RequestRow
  <1>4. ASSUME NEW t \in Tasks, Continue(t)
        PROVE  PaidWasTransferred'
    <2>1. task[t] \in Task /\ Bound(t) /\ PaidSeen(t)
      BY <1>0 DEF TypeOK, HandlersOK
    <2>2. CASE RequestInsert(t)
      <3>1. CASE UNCHANGED request
        BY <1>2, <3>1
      <3>2. CASE \E w \in Unused : request' = [request EXCEPT ![w] = task[t].row]
        <4>1. task[t].row.status # "paid"
          BY <1>0, <2>2 DEF HandlersOK, Drafted, GoodDraft, RequestInsert
        <4>2. \A w \in Requests : Status(w)' = "paid" => Status(w) = "paid"
          BY <1>0, <3>2, <4>1 DEF Status, TypeOK
        <4> QED BY <1>1, <4>2
      <3> QED BY <2>2, <3>1, <3>2 DEF RequestInsert, rows
    <2>3. CASE Initiate(t) \/ Lookup(t) \/ Sync(t)
      BY <1>2, <2>3 DEF Initiate, Lookup, Sync, rows
    <2>4. CASE Record(t)
      <3>1. \A w \in Requests : Status(w)' = "paid" => Status(w) = "paid"
        BY <1>0, <2>4 DEF Record, Status, TypeOK, RequestRow
      <3> QED BY <1>1, <3>1
    <2>5. CASE RejectWrite(t)
      BY <1>2, <1>3, <2>1, <2>5 DEF RejectWrite, At, Bound
    <2>6. CASE ApproveWrite(t)
      BY <1>3, <2>1, <2>6 DEF ApproveWrite, At, Bound
    <2>7. CASE MarkFailed(t)
      BY <1>2, <1>3, <2>1, <2>7 DEF MarkFailed, At, Bound
    <2>8. CASE MarkPaid(t)
      <3>1. At(t, "markPaid") /\ transfer' = transfer /\ task[t].on \in Requests
        BY <2>1, <2>8 DEF MarkPaid, At, Bound, gateway
      <3>2. \A w \in Requests : Status(w)' = "paid" => Status(w) = "paid" \/ w = task[t].on
        BY <1>0, <2>8 DEF MarkPaid, SetStatus, Status, TypeOK, RequestRow
      <3> QED BY <1>0, <2>1, <3>1, <3>2 DEF PaidWasTransferred, PaidSeen
    <2> QED BY <1>4, <2>2, <2>3, <2>4, <2>5, <2>6, <2>7, <2>8 DEF Continue
  <1>5. CASE \E t \in Tasks : Arrives(t) \/ LookupFails(t)
                \/ \E w \in Requests : Poll(t, w) \/ WebhookArrives(t, w)
    BY <1>2, <1>5 DEF Arrives, RequestCount, DecideRead, DevResolvePayout,
                      LookupFails, Poll, WebhookArrives, rows
  <1>6. CASE \E w \in Requests :
            LeaveWindow(w) \/ TransferSettles(w) \/ TransferReversed(w) \/ WebhookLost(w)
    BY <1>2, <1>6 DEF LeaveWindow, TransferSettles, TransferReversed, TransferMoves,
                      WebhookLost, rows
  <1>7. CASE \E S \in SUBSET Tasks : Crash(S)
    BY <1>2, <1>7 DEF Crash, rows
  <1> QED BY <1>4, <1>5, <1>6, <1>7 DEF Next

-----------------------------------------------------------------------------
(* The invariant is inductive *)

LEMMA InitOK ==
    ASSUME Init
    PROVE  IInv
  <1>1. InitialBeans \in Nat
    BY WithdrawalConstants
  <1>2. TypeOK
    BY <1>1, IdleTyped DEF Init, TypeOK
  <1>3. HandlersOK
    BY DEF Init, HandlersOK, Bound, PaidSeen, Drafted, At, Idle, Handler
  <1>4. PaidWasTransferred
    BY DEF Init, PaidWasTransferred, Status, NoRequest
  <1> QED BY <1>2, <1>3, <1>4 DEF IInv

LEMMA StepOK ==
    ASSUME IInv, [Next]_vars
    PROVE  IInv'
  <1>1. CASE Next
    <2>1. TypeOK'
      <3>1. TypeOK
        BY DEF IInv
      <3> QED BY <1>1, <3>1, HandlerTypes, ArrivalTypes, EnvironmentTypes DEF Next
    <2> QED BY <1>1, <2>1, HandlersStep, PaidStep DEF IInv
  <1>2. CASE UNCHANGED vars
    BY <1>2 DEF vars, IInv, TypeOK, HandlersOK, Bound, PaidSeen, Drafted, At,
                PaidWasTransferred, Status
  <1> QED BY <1>1, <1>2

THEOREM Invariance == Spec => []IInv
  BY InitOK, StepOK, PTL DEF Spec

\* Every variable keeps its type; no balance ever goes below zero, however many
\* requests pass their checks at once (requestWithdrawal, debitHostBeans).
THEOREM TypeCorrect == Spec => []TypeOK
  <1>1. IInv => TypeOK
    BY DEF IInv
  <1> QED BY Invariance, <1>1, PTL

\* A request is shown as paid only if Cashfree has paid its transfer, however
\* polls, webhooks and reversals interleave (syncPayoutWithGateway).
THEOREM PaidIsTransferred == Spec => []PaidWasTransferred
  <1>1. IInv => PaidWasTransferred
    BY DEF IInv
  <1> QED BY Invariance, <1>1, PTL

-----------------------------------------------------------------------------
(* One decision at a time: a request has a single handler that takes it     *)
(* from `pending` to Cashfree, and those that settle it come after          *)

\* The handlers that take a request forward: the host's own, or an admin's.
Driving(t) ==
    \/ task[t].at \in {"initiate", "lookup", "record", "reject", "approve"}
    \/ At(t, "markFailed") /\ "approved" \in task[t].from

\* A request Cashfree has been asked to pay.
Sent(w) == Status(w) \in {"processing", "paid", "failed"}

\* What a handler past its first step relies on.
Relies(t) ==
    LET w == task[t].on IN
    /\ task[t].at \in {"reject", "approve"} => Status(w) = "pending"
    /\ task[t].at \in {"initiate", "lookup", "record"} => Status(w) = "approved"
    /\ task[t].at \in {"sync", "markPaid"} => Sent(w)
    /\ At(t, "markFailed") =>
        \/ /\ task[t].from = {"approved"}
           /\ Status(w) = "approved"
           /\ transfer[w] = "none"
        \/ /\ task[t].from \subseteq {"processing", "paid"}
           /\ Sent(w)
           /\ transfer[w] = "none" => ~CashfreeConfigured
           /\ transfer[w] \notin {"pending", "paid"}

\* No two handlers take one request forward.
OneDriver ==
    \A s, t \in Tasks : Driving(s) /\ Driving(t) /\ task[s].on = task[t].on => s = t

\* Where the beans and the money of a request are.
Accounted(w) ==
    /\ Status(w) \in {"none", "pending", "rejected"} => transfer[w] = "none"
    /\ Status(w) = "failed" => transfer[w] \notin {"pending", "paid"}
    /\ ~CashfreeConfigured => transfer[w] = "none"
    /\ <<w, "rejectReversal">> \in ledger => Status(w) = "rejected"
    /\ <<w, "failureReversal">> \in ledger => Status(w) = "failed"

OInv ==
    /\ IInv
    /\ \A t \in Tasks : Relies(t)
    /\ OneDriver
    /\ \A w \in Requests : Accounted(w)

\* What others may do to a request without misleading its handlers.
Stable(w) ==
    /\ Status(w)' = Status(w) \/ (Sent(w) /\ Sent(w)')
    /\ \/ transfer'[w] = transfer[w]
       \/ transfer[w] \in {"pending", "paid"} /\ transfer'[w] \in {"paid", "failed", "reversed"}

LEMMA StillRelies ==
    ASSUME NEW t \in Tasks, Relies(t), task'[t] = task[t] \/ task'[t] = Idle,
           task[t].at \notin {"idle", "insert"} => Stable(task[t].on)
    PROVE  Relies(t)'
  <1>1. CASE task'[t] = Idle
    BY <1>1 DEF Relies, At, Idle, Handler
  <1>2. CASE task'[t] = task[t]
    BY <1>2 DEF Relies, At, Stable, Sent
  <1> QED BY <1>1, <1>2

\* While a handler takes a request forward, no other works on it.
LEMMA DriverAlone ==
    ASSUME OInv, NEW s \in Tasks, NEW t \in Tasks, s # t, Driving(t),
           task[s].at \notin {"idle", "insert"}
    PROVE  task[s].on # task[t].on
  <1>1. Status(task[t].on) \in {"pending", "approved"}
    BY DEF OInv, Relies, Driving, At, Sent
  <1>2. CASE Driving(s)
    BY <1>2 DEF OInv, OneDriver
  <1>3. CASE ~Driving(s)
    <2>1. task[s] \in Task
      BY DEF OInv, IInv, TypeOK
    <2>2. Sent(task[s].on)
      BY <1>3, <2>1 DEF OInv, Relies, Driving, At, Task, Steps
    <2> QED BY <1>1, <2>2 DEF Sent
  <1> QED BY <1>2, <1>3

\* Nobody is deciding on a request another admin may start to decide on.
LEMMA NobodyDeciding ==
    ASSUME IsFiniteSet(Tasks), MaxDeciding <= 1, NEW w \in Requests,
           Cardinality(Deciding(w)) < MaxDeciding
    PROVE  Deciding(w) = {}
  <1>1. IsFiniteSet(Deciding(w))
    BY FS_Subset DEF Deciding
  <1>2. Cardinality(Deciding(w)) \in Nat
    BY <1>1, FS_CardinalityType
  <1>3. MaxDeciding \in Nat
    BY WithdrawalConstants
  <1>4. Cardinality(Deciding(w)) = 0
    BY <1>2, <1>3
  <1> QED BY <1>1, <1>4, FS_EmptySet

\* One handler moves; what it hands on is right, and it drives what nobody
\* else does.
LEMMA OneMoves ==
    ASSUME OInv, NEW t \in Tasks,
           \A s \in Tasks \ {t} : task'[s] = task[s],
           \A s \in Tasks \ {t} :
                task[s].at \notin {"idle", "insert"} => Stable(task[s].on),
           Relies(t)',
           Driving(t)' => \A s \in Tasks \ {t} : Driving(s) => task[s].on # task'[t].on
    PROVE  (\A s \in Tasks : Relies(s)') /\ OneDriver'
  <1>1. \A s \in Tasks \ {t} : Relies(s)'
    BY StillRelies DEF OInv
  <1>2. \A s \in Tasks \ {t} : Driving(s)' <=> Driving(s)
    BY DEF Driving, At
  <1>3. OneDriver'
    BY <1>2 DEF OInv, OneDriver
  <1> QED BY <1>1, <1>3

\* A handler that does not touch its request's row or transfer.
LEMMA QuietMove ==
    ASSUME OInv, NEW t \in Tasks, UNCHANGED <<request, transfer>>,
           \A s \in Tasks \ {t} : task'[s] = task[s],
           Relies(t)',
           Driving(t)' => \A s \in Tasks \ {t} : Driving(s) => task[s].on # task'[t].on
    PROVE  (\A s \in Tasks : Relies(s)') /\ OneDriver'
  <1>1. \A w : Stable(w)
    BY DEF Stable, Status
  <1> QED BY <1>1, OneMoves

\* One that takes its request forward changes only that row and transfer.
LEMMA DriverMove ==
    ASSUME OInv, NEW t \in Tasks, Driving(t),
           \A w \in Requests : w # task[t].on =>
                request'[w] = request[w] /\ transfer'[w] = transfer[w],
           \A s \in Tasks \ {t} : task'[s] = task[s],
           Relies(t)', Driving(t)' => task'[t].on = task[t].on
    PROVE  (\A s \in Tasks : Relies(s)') /\ OneDriver'
  <1>1. \A s \in Tasks \ {t} : task[s].at \notin {"idle", "insert"} =>
            task[s].on # task[t].on /\ task[s].on \in Requests
    BY DriverAlone DEF OInv, IInv, HandlersOK, Bound
  <1>2. \A s \in Tasks \ {t} :
            task[s].at \notin {"idle", "insert"} => Stable(task[s].on)
    BY <1>1 DEF Stable, Status
  <1>3. \A s \in Tasks \ {t} : Driving(s) => task[s].on # task[t].on
    BY <1>1 DEF Driving, At
  <1> QED BY <1>2, <1>3, OneMoves

\* A status written to one request leaves every other row as it was.
LEMMA SetStatusKeeps ==
    ASSUME TypeOK, NEW w \in Requests, NEW v, SetStatus(w, v)
    PROVE  /\ Status(w)' = v
           /\ \A x \in Requests \ {w} : request'[x] = request[x] /\ Status(x)' = Status(x)
  BY DEF SetStatus, Status, TypeOK, RequestRow

LEMMA IdleRelies ==
    ASSUME TypeOK, NEW t \in Tasks, Finish(t)
    PROVE  /\ Relies(t)' /\ ~Driving(t)'
           /\ \A s \in Tasks \ {t} : task'[s] = task[s]
  BY DEF Finish, Become, TypeOK, Relies, Driving, At, Idle, Handler

\* The steps of a handler that takes a request forward.
LEMMA DriverSteps ==
    ASSUME OInv, NEW t \in Tasks,
           \/ Initiate(t) \/ Lookup(t) \/ Record(t) \/ RejectWrite(t) \/ ApproveWrite(t)
    PROVE  (\A s \in Tasks : Relies(s)') /\ OneDriver'
  <1> PICK w : w = task[t].on
    OBVIOUS
  <1>0. TypeOK /\ task[t] \in Task /\ Driving(t) /\ w \in Requests /\ Relies(t)
    BY DEF OInv, IInv, TypeOK, HandlersOK, Bound, Driving, At,
           Initiate, Lookup, Record, RejectWrite, ApproveWrite
  <1>1. \A x \in Requests : x # w =>
            request'[x] = request[x] /\ transfer'[x] = transfer[x]
    BY <1>0 DEF Initiate, Lookup, Record, RejectWrite, ApproveWrite, SetStatus,
                TypeOK, rows, gateway
  <1>2. ASSUME NEW step, Goto(t, step)
        PROVE  /\ task'[t].at = step /\ task'[t].on = w
               /\ \A s \in Tasks \ {t} : task'[s] = task[s]
    BY <1>0, <1>2 DEF Goto, TypeOK, Task
  <1>3. ASSUME FailFrom(t, {"approved"})
        PROVE  /\ task'[t].at = "markFailed" /\ task'[t].on = w
               /\ task'[t].from = {"approved"}
               /\ \A s \in Tasks \ {t} : task'[s] = task[s]
    BY <1>0, <1>3 DEF FailFrom, TypeOK, Task
  <1>4. CASE Initiate(t)
    <2>1. Status(w)' = "approved"
      BY <1>0, <1>4 DEF Initiate, Relies, At, Status, rows
    <2>2. Relies(t)' /\ task'[t].on = w /\ \A s \in Tasks \ {t} : task'[s] = task[s]
      BY <1>2, <1>4, <2>1 DEF Initiate, Relies, At
    <2> QED BY <1>0, <1>1, <2>2, DriverMove
  <1>5. CASE Lookup(t)
    <2>1. Status(w)' = "approved" /\ transfer' = transfer
      BY <1>0, <1>5 DEF Lookup, Relies, At, Status, rows, gateway
    <2>2. Relies(t)' /\ task'[t].on = w /\ \A s \in Tasks \ {t} : task'[s] = task[s]
      BY <1>2, <1>3, <1>5, <2>1 DEF Lookup, Relies, At
    <2> QED BY <1>0, <1>1, <2>2, DriverMove
  <1>6. CASE Record(t) \/ RejectWrite(t)
    <2>1. Finish(t)
      BY <1>6 DEF Record, RejectWrite
    <2> QED BY <1>0, <1>1, <2>1, IdleRelies, DriverMove
  <1>7. CASE ApproveWrite(t)
    <2>1. Status(w)' = "approved"
      BY <1>0, <1>7 DEF ApproveWrite, SetStatus, Status, TypeOK, RequestRow
    <2>2. Relies(t)' /\ task'[t].on = w /\ \A s \in Tasks \ {t} : task'[s] = task[s]
      BY <1>2, <1>7, <2>1 DEF ApproveWrite, Relies, At
    <2> QED BY <1>0, <1>1, <2>2, DriverMove
  <1> QED BY <1>4, <1>5, <1>6, <1>7

\* The steps that settle a request.
LEMMA SettlingSteps ==
    ASSUME OInv, NEW t \in Tasks, Sync(t) \/ LookupFails(t) \/ MarkPaid(t) \/ MarkFailed(t)
    PROVE  (\A s \in Tasks : Relies(s)') /\ OneDriver'
  <1> PICK w : w = task[t].on
    OBVIOUS
  <1>0. TypeOK /\ task[t] \in Task /\ w \in Requests /\ Relies(t) /\ Accounted(w)
    BY DEF OInv, IInv, TypeOK, HandlersOK, Bound, At, Sync, LookupFails, MarkPaid, MarkFailed
  <1>1. CASE Sync(t)
    <2>1. Sent(w) /\ Sent(w)' /\ UNCHANGED <<request, transfer>>
      BY <1>0, <1>1 DEF Sync, Relies, At, Sent, Status, rows, gateway
    <2>2. CASE Finish(t)
      BY <1>0, <2>1, <2>2, IdleRelies, QuietMove
    <2>3. CASE Goto(t, "markPaid")
      <3>1. /\ task'[t].at = "markPaid" /\ task'[t].on = w
            /\ \A s \in Tasks \ {t} : task'[s] = task[s]
        BY <1>0, <2>3 DEF Goto, TypeOK, Task
      <3>2. Relies(t)' /\ ~Driving(t)'
        BY <2>1, <3>1 DEF Relies, Driving, At
      <3> QED BY <2>1, <3>1, <3>2, QuietMove
    <2>4. CASE CountsAsFailed(w) /\ FailFrom(t, {"processing", "paid"})
      <3>1. /\ task'[t].at = "markFailed" /\ task'[t].on = w
            /\ task'[t].from = {"processing", "paid"}
            /\ \A s \in Tasks \ {t} : task'[s] = task[s]
        BY <1>0, <2>4 DEF FailFrom, TypeOK, Task
      <3>2. Relies(t)' /\ ~Driving(t)'
        BY <2>1, <2>4, <3>1 DEF Relies, Driving, At, CountsAsFailed
      <3> QED BY <2>1, <3>1, <3>2, QuietMove
    <2> QED BY <1>1, <2>2, <2>3, <2>4 DEF Sync
  <1>2. CASE LookupFails(t)
    BY <1>0, <1>2, IdleRelies, QuietMove DEF LookupFails, rows
  <1>3. CASE MarkPaid(t)
    <2>0. transfer' = transfer
      BY <1>3 DEF MarkPaid, gateway
    <2>1. \A x \in Requests : Stable(x)
      <3>1. CASE UNCHANGED request
        BY <2>0, <3>1 DEF Stable, Status
      <3>2. CASE Status(w) = "processing" /\ SetStatus(w, "paid")
        BY <1>0, <2>0, <3>2, SetStatusKeeps DEF Stable, Sent
      <3> QED BY <1>3, <3>1, <3>2 DEF MarkPaid, PaidFrom
    <2>2. \A s \in Tasks \ {t} :
              task[s].at \notin {"idle", "insert"} => Stable(task[s].on)
      BY <2>1 DEF OInv, IInv, HandlersOK, Bound
    <2> QED BY <1>0, <1>3, <2>2, IdleRelies, OneMoves DEF MarkPaid
  <1>4. CASE MarkFailed(t) /\ "approved" \in task[t].from
    <2>1. Driving(t)
      BY <1>4 DEF Driving, MarkFailed
    <2>2. \A x \in Requests : x # w =>
            request'[x] = request[x] /\ transfer'[x] = transfer[x]
      BY <1>0, <1>4, SetStatusKeeps DEF MarkFailed
    <2> QED BY <1>0, <1>4, <2>1, <2>2, IdleRelies, DriverMove DEF MarkFailed
  <1>5. CASE MarkFailed(t) /\ "approved" \notin task[t].from
    <2>1. Sent(w) /\ transfer' = transfer
      BY <1>0, <1>5 DEF MarkFailed, Relies, At
    <2>2. \A x \in Requests : Stable(x)
      <3>1. CASE UNCHANGED request
        BY <2>1, <3>1 DEF Stable, Status
      <3>2. CASE SetStatus(w, "failed")
        BY <1>0, <2>1, <3>2, SetStatusKeeps DEF Stable, Sent
      <3> QED BY <1>5, <3>1, <3>2 DEF MarkFailed
    <2>3. \A s \in Tasks \ {t} :
              task[s].at \notin {"idle", "insert"} => Stable(task[s].on)
      BY <2>2 DEF OInv, IInv, HandlersOK, Bound
    <2> QED BY <1>0, <1>5, <2>3, IdleRelies, OneMoves DEF MarkFailed
  <1> QED BY <1>1, <1>2, <1>3, <1>4, <1>5

\* A task that starts as r, and drives nothing that is driven already.
LEMMA Starts ==
    ASSUME TypeOK, NEW t \in Tasks, NEW r, Become(t, r)
    PROVE  task'[t] = r /\ \A s \in Tasks \ {t} : task'[s] = task[s]
  BY DEF Become, TypeOK

\* The arrivals: requests, decisions, polls, webhooks and the dev stub.
LEMMA ArrivalSteps ==
    ASSUME IsFiniteSet(Tasks), MaxDeciding <= 1, OInv, NEW t \in Tasks,
           Arrives(t) \/ \E w \in Requests : Poll(t, w) \/ WebhookArrives(t, w)
    PROVE  (\A s \in Tasks : Relies(s)') /\ OneDriver'
  <1>0. TypeOK /\ \A w \in Requests : Accounted(w)
    BY DEF OInv, IInv
  <1>1. CASE \E h \in Hosts, b \in Amounts : RequestCount(t, h, b)
    <2>1. PICK r : Become(t, r) /\ r.at = "insert"
      BY <1>1 DEF RequestCount, Handler
    <2>2. Relies(t)' /\ ~Driving(t)' /\ \A s \in Tasks \ {t} : task'[s] = task[s]
      BY <1>0, <2>1, Starts DEF Relies, Driving, At
    <2> QED BY <1>1, <2>2, QuietMove DEF RequestCount, rows, gateway
  <1>2. ASSUME NEW w \in Requests, DecideRead(t, w)
        PROVE  (\A s \in Tasks : Relies(s)') /\ OneDriver'
    <2>1. PICK step \in {"reject", "approve"} :
            Become(t, Handler(step, w, NoRequest, FALSE))
      BY <1>2 DEF DecideRead
    <2>2. /\ task'[t].at = step /\ task'[t].on = w
          /\ \A s \in Tasks \ {t} : task'[s] = task[s]
      BY <1>0, <2>1, Starts DEF Handler
    <2>3. Status(w) = "pending" /\ UNCHANGED <<request, transfer>>
      BY <1>2 DEF DecideRead, rows, gateway
    <2>4. Relies(t)'
      BY <2>2, <2>3 DEF Relies, At, Status
    <2>5. ASSUME NEW s \in Tasks, Driving(s)
          PROVE  task[s].on # w
      <3>1. Deciding(w) = {}
        BY <1>2, NobodyDeciding DEF DecideRead
      <3>2. task[s].on = w => task[s].at \notin {"reject", "approve"}
        BY <3>1 DEF Deciding
      <3> QED BY <2>3, <2>5, <3>2 DEF OInv, Relies, Driving, At
    <2> QED BY <2>2, <2>3, <2>4, <2>5, QuietMove
  <1>3. ASSUME NEW w \in Requests, DevResolvePayout(t, w)
        PROVE  (\A s \in Tasks : Relies(s)') /\ OneDriver'
    <2>1. Status(w) = "processing" /\ UNCHANGED <<request, transfer>>
      BY <1>3 DEF DevResolvePayout, rows, gateway
    <2>2. transfer[w] = "none" /\ ~CashfreeConfigured
      BY <1>0, <1>3 DEF Accounted, DevResolvePayout
    <2>3. PICK r : /\ Become(t, r) /\ r.on = w
                   /\ \/ r.at = "markPaid"
                      \/ r.at = "markFailed" /\ r.from = {"processing"}
      BY <1>3 DEF DevResolvePayout, Handler
    <2>4. Relies(t)' /\ ~Driving(t)' /\ \A s \in Tasks \ {t} : task'[s] = task[s]
      BY <1>0, <2>1, <2>2, <2>3, Starts DEF Relies, Driving, At, Sent, Status
    <2> QED BY <2>1, <2>4, QuietMove
  <1>4. ASSUME NEW w \in Requests, Poll(t, w) \/ WebhookArrives(t, w)
        PROVE  (\A s \in Tasks : Relies(s)') /\ OneDriver'
    <2>1. UNCHANGED <<request, transfer>>
      BY <1>4 DEF Poll, WebhookArrives, rows, gateway
    <2>2. CASE UNCHANGED task
      BY <2>1, <2>2, QuietMove DEF OInv, OneDriver, Relies, Driving, At, Sent, Status
    <2>3. CASE \E hook \in BOOLEAN :
                    Sent(w) /\ Become(t, Handler("sync", w, request[w], hook))
      <3>1. /\ task'[t].at = "sync" /\ task'[t].on = w /\ Sent(w)'
            /\ \A s \in Tasks \ {t} : task'[s] = task[s]
        BY <1>0, <2>1, <2>3, Starts DEF Handler, Sent, Status
      <3>2. Relies(t)' /\ ~Driving(t)'
        BY <3>1 DEF Relies, Driving, At
      <3> QED BY <2>1, <3>1, <3>2, QuietMove
    <2> QED BY <1>4, <2>2, <2>3 DEF Poll, WebhookArrives, Sent
  <1> QED BY <1>1, <1>2, <1>3, <1>4 DEF Arrives

\* A new request's handler is the only one that works on it.
LEMMA InsertSteps ==
    ASSUME OInv, NEW t \in Tasks, RequestInsert(t)
    PROVE  (\A s \in Tasks : Relies(s)') /\ OneDriver'
  <1> DEFINE draft == task[t].row
  <1>0. /\ TypeOK
        /\ \A s \in Tasks : Relies(s) /\ Bound(s)
        /\ \A w \in Requests : Accounted(w)
    BY DEF OInv, IInv, HandlersOK
  <1>1. CASE Finish(t) /\ UNCHANGED rows
    BY <1>0, <1>1, IdleRelies, QuietMove DEF RequestInsert, rows, gateway
  <1>2. ASSUME NEW w \in Unused, request' = [request EXCEPT ![w] = draft],
               IF draft.status = "approved"
               THEN Become(t, Handler("initiate", w, NoRequest, FALSE)) ELSE Finish(t)
        PROVE  (\A s \in Tasks : Relies(s)') /\ OneDriver'
    <2>1. w \in Requests /\ Status(w) = "none" /\ transfer' = transfer
      BY DEF Unused, RequestInsert, gateway
    <2>2. \A s \in Tasks : task[s].at \notin {"idle", "insert"} => task[s].on # w
      <3> SUFFICES ASSUME NEW s \in Tasks, task[s].at \notin {"idle", "insert"},
                          task[s].on = w
                   PROVE  FALSE
        OBVIOUS
      <3>1. task[s] \in Task
        BY <1>0 DEF TypeOK
      <3>2. task[s].at \in {"initiate", "lookup", "record", "markFailed", "reject",
                          "approve", "sync", "markPaid"}
        BY <3>1 DEF Task, Steps
      <3>3. Status(task[s].on) # "none"
        <4>1. Relies(s)
          BY <1>0
        <4> QED BY <3>2, <4>1 DEF Relies, At, Sent
      <3> QED BY <2>1, <3>3
    <2>7. \A s \in Tasks \ {t} : task'[s] = task[s]
      BY <1>0, <1>2, Starts DEF Finish
    <2>3. \A s \in Tasks \ {t} :
              task[s].at \notin {"idle", "insert"} => Stable(task[s].on)
      BY <1>0, <1>2, <2>1, <2>2, <2>7 DEF Stable, Status, Bound, TypeOK
    <2>4. \A s \in Tasks : Driving(s) => task[s].on # w
      BY <2>2 DEF Driving, At
    <2>5. CASE draft.status = "approved"
      <3>1. /\ task'[t].at = "initiate" /\ task'[t].on = w
            /\ \A s \in Tasks \ {t} : task'[s] = task[s]
        BY <1>0, <1>2, <2>5, Starts DEF Handler
      <3>2. Status(w)' = "approved"
        BY <1>0, <1>2, <2>1, <2>5 DEF Status, TypeOK
      <3>3. Relies(t)'
        BY <3>1, <3>2 DEF Relies, At
      <3> QED BY <2>3, <2>4, <3>1, <3>3, OneMoves
    <2>6. CASE draft.status # "approved"
      BY <1>0, <1>2, <2>3, <2>6, IdleRelies, OneMoves
    <2> QED BY <2>5, <2>6
  <1> QED BY <1>1, <1>2 DEF RequestInsert

\* Cashfree moves, days pass, webhooks get lost and processes die.
LEMMA EnvironmentSteps ==
    ASSUME OInv,
           \/ \E w \in Requests : \/ LeaveWindow(w) \/ TransferSettles(w)
                                  \/ TransferReversed(w) \/ WebhookLost(w)
           \/ \E S \in SUBSET Tasks : Crash(S)
    PROVE  (\A s \in Tasks : Relies(s)') /\ OneDriver'
  <1>0. TypeOK /\ \A s \in Tasks : Relies(s) /\ Bound(s)
    BY DEF OInv, IInv, HandlersOK
  <1>1. \A s \in Tasks : task'[s] = task[s] \/ task'[s] = Idle
    BY <1>0 DEF LeaveWindow, TransferSettles, TransferReversed, TransferMoves,
                WebhookLost, Crash
  <1>2. \A x \in Requests :
            \/ transfer'[x] = transfer[x]
            \/ transfer[x] \in {"pending", "paid"} /\ transfer'[x] \in {"paid", "failed", "reversed"}
    BY <1>0 DEF LeaveWindow, TransferSettles, TransferReversed, TransferMoves,
                WebhookLost, Crash, rows, gateway, TypeOK
  <1>3. request' = request
    BY DEF LeaveWindow, TransferSettles, TransferReversed, TransferMoves,
           WebhookLost, Crash, rows
  <1>4. ASSUME NEW s \in Tasks
        PROVE  Relies(s)' /\ (Driving(s)' => Driving(s) /\ task'[s] = task[s])
    <2>1. CASE task'[s] = Idle
      BY <2>1 DEF Relies, Driving, At, Idle, Handler
    <2>2. CASE task'[s] = task[s]
      <3>1. task[s].at \notin {"idle", "insert"} => Stable(task[s].on)
        BY <1>0, <1>2, <1>3, <2>2 DEF Stable, Status, Bound
      <3>2. Relies(s)'
        BY <1>0, <2>2, <3>1, StillRelies
      <3> QED BY <2>2, <3>2 DEF Driving, At
    <2> QED BY <1>1, <2>1, <2>2
  <1>5. OneDriver'
    BY <1>4 DEF OInv, OneDriver
  <1> QED BY <1>4, <1>5

\* Cashfree's moves keep the accounts of every request.
LEMMA GatewayAccounts ==
    ASSUME OInv, UNCHANGED <<request, ledger>>,
           \E x \in Requests : TransferSettles(x) \/ TransferReversed(x)
    PROVE  \A w \in Requests : Accounted(w)'
  <1>1. PICK x \in Requests : TransferSettles(x) \/ TransferReversed(x)
    OBVIOUS
  <1>2. \A w \in Requests : transfer'[w] = transfer[w]
            \/ transfer[w] \in {"pending", "paid"}
    BY <1>1 DEF TransferSettles, TransferReversed, TransferMoves, OInv, IInv, TypeOK
  <1> QED BY <1>2 DEF OInv, Accounted, Status

\* So do a handler's steps.
LEMMA HandlerAccounts ==
    ASSUME OInv, NEW t \in Tasks, Continue(t)
    PROVE  \A w \in Requests : Accounted(w)'
  <1>0. /\ TypeOK /\ task[t] \in Task /\ Relies(t) /\ Bound(t) /\ Drafted(t)
        /\ \A w \in Requests : Accounted(w)
    BY DEF OInv, IInv, TypeOK, HandlersOK
  <1> PICK x : x = task[t].on
    OBVIOUS
  <1>1. CASE UNCHANGED <<request, ledger, transfer>>
    BY <1>0, <1>1 DEF Accounted, Status
  <1>2. ASSUME x \in Requests, NEW v, SetStatus(x, v),
               UNCHANGED <<ledger, transfer>>,
               Accounted(x)'
        PROVE  \A w \in Requests : Accounted(w)'
    BY <1>0, <1>2, SetStatusKeeps DEF Accounted
  <1>3. CASE RequestInsert(t)
    <2>1. CASE UNCHANGED rows
      BY <1>1, <1>3, <2>1 DEF RequestInsert, rows, gateway
    <2>2. ASSUME NEW w \in Unused, request' = [request EXCEPT ![w] = task[t].row],
                 ledger' = ledger \cup {<<w, "debit">>}
          PROVE  \A y \in Requests : Accounted(y)'
      <3>1. transfer' = transfer
        BY <1>3 DEF RequestInsert, gateway
      <3>2. Status(w)' \in {"approved", "pending"} /\ Status(w) = "none" /\ w \in Requests
        BY <1>0, <1>3, <2>2 DEF RequestInsert, Drafted, GoodDraft, Status, Unused, TypeOK
      <3>3. \A y \in Requests \ {w} : Status(y)' = Status(y)
        BY <1>0, <2>2 DEF Status, TypeOK
      <3>4. \A y, k : k # "debit" => (<<y, k>> \in ledger' <=> <<y, k>> \in ledger)
        BY <2>2
      <3> QED BY <1>0, <3>1, <3>2, <3>3, <3>4 DEF Accounted
    <2> QED BY <1>3, <2>1, <2>2 DEF RequestInsert, DebitHostBeans
  <1>4. CASE Initiate(t)
    <2>1. x \in Requests /\ Status(x) = "approved" /\ UNCHANGED <<request, ledger>>
      BY <1>0, <1>4 DEF Initiate, Relies, Bound, At, rows
    <2>2. \A w \in Requests : transfer'[w] = transfer[w] \/ (w = x /\ CashfreeConfigured)
      BY <1>0, <1>4 DEF Initiate, TypeOK
    <2> QED BY <1>0, <2>1, <2>2 DEF Accounted, Status
  <1>5. CASE Lookup(t) \/ Sync(t)
    BY <1>1, <1>5 DEF Lookup, Sync, rows, gateway
  <1>6. CASE Record(t)
    <2>1. x \in Requests /\ Status(x) = "approved" /\ UNCHANGED <<ledger, transfer>>
      BY <1>0, <1>6 DEF Record, Relies, Bound, At, gateway
    <2>2. \A w \in Requests : Status(w)' = IF w = x THEN "processing" ELSE Status(w)
      BY <1>0, <1>6 DEF Record, Status, TypeOK, RequestRow
    <2> QED BY <1>0, <2>1, <2>2 DEF Accounted
  <1>7. CASE RejectWrite(t)
    <2>1. x \in Requests /\ Status(x) = "pending" /\ transfer' = transfer
      BY <1>0, <1>7 DEF RejectWrite, Relies, Bound, At, gateway
    <2>2. CASE UNCHANGED <<request, beans, ledger>>
      BY <1>1, <2>1, <2>2
    <2>3. CASE SetStatus(x, "rejected") /\ ledger' = ledger \cup {<<x, "rejectReversal">>}
      BY <1>0, <2>1, <2>3, SetStatusKeeps DEF Accounted
    <2> QED BY <1>7, <2>2, <2>3 DEF RejectWrite, CreditHostBeans
  <1>8. CASE ApproveWrite(t)
    <2>1. x \in Requests /\ Status(x) = "pending" /\ UNCHANGED <<ledger, transfer>>
      BY <1>0, <1>8 DEF ApproveWrite, Relies, Bound, At, gateway
    <2>2. SetStatus(x, "approved")
      BY <1>8 DEF ApproveWrite
    <2>3. /\ Status(x)' = "approved"
          /\ \A w \in Requests \ {x} : Status(w)' = Status(w)
      BY <1>0, <2>1, <2>2, SetStatusKeeps
    <2> QED BY <1>0, <2>1, <2>3 DEF Accounted
  <1>9. CASE MarkPaid(t)
    <2>1. x \in Requests /\ UNCHANGED <<ledger, transfer>>
      BY <1>0, <1>9 DEF MarkPaid, Bound, At, gateway
    <2>2. CASE UNCHANGED request
      BY <1>1, <2>1, <2>2
    <2>3. CASE Status(x) = "processing" /\ SetStatus(x, "paid")
      <3>1. \A w \in Requests : Status(w)' = IF w = x THEN "paid" ELSE Status(w)
        BY <1>0, <2>1, <2>3, SetStatusKeeps
      <3> QED BY <1>0, <2>1, <2>3, <3>1 DEF Accounted
    <2> QED BY <1>9, <2>2, <2>3 DEF MarkPaid, PaidFrom
  <1>10. CASE MarkFailed(t)
    <2>1. x \in Requests /\ transfer[x] \notin {"pending", "paid"} /\ transfer' = transfer
      BY <1>0, <1>10 DEF MarkFailed, Relies, Bound, At
    <2>2. CASE UNCHANGED <<request, beans, ledger>>
      BY <1>1, <2>1, <2>2
    <2>3. CASE /\ Status(x) \in task[t].from /\ SetStatus(x, "failed")
               /\ ledger' = ledger \cup {<<x, "failureReversal">>}
      <3>1. Status(x) \in {"approved", "processing", "paid"}
        BY <1>0, <1>10, <2>3 DEF MarkFailed, Relies, At
      <3>2. \A w \in Requests : Status(w)' = IF w = x THEN "failed" ELSE Status(w)
        BY <1>0, <2>1, <2>3, SetStatusKeeps
      <3>3. \A w \in Requests :
              /\ <<w, "rejectReversal">> \in ledger' => <<w, "rejectReversal">> \in ledger
              /\ <<w, "failureReversal">> \in ledger' =>
                    w = x \/ <<w, "failureReversal">> \in ledger
        BY <2>3
      <3> QED BY <1>0, <2>1, <3>1, <3>2, <3>3 DEF Accounted
    <2> QED BY <1>10, <2>2, <2>3 DEF MarkFailed, CreditHostBeans
  <1> QED BY <1>3, <1>4, <1>5, <1>6, <1>7, <1>8, <1>9, <1>10 DEF Continue

LEMMA AccountsStep ==
    ASSUME OInv, Next
    PROVE  \A w \in Requests : Accounted(w)'
  <1>1. CASE UNCHANGED <<request, ledger, transfer>>
    BY <1>1 DEF OInv, Accounted, Status
  <1>2. CASE \E t \in Tasks : Arrives(t) \/ LookupFails(t)
                \/ \E w \in Requests : Poll(t, w) \/ WebhookArrives(t, w)
    BY <1>1, <1>2 DEF Arrives, RequestCount, DecideRead, DevResolvePayout,
                      LookupFails, Poll, WebhookArrives, rows, gateway
  <1>3. CASE \E w \in Requests : LeaveWindow(w) \/ WebhookLost(w)
    BY <1>1, <1>3 DEF LeaveWindow, WebhookLost, rows, gateway
  <1>4. CASE \E w \in Requests : TransferSettles(w) \/ TransferReversed(w)
    BY <1>4, GatewayAccounts DEF TransferSettles, TransferReversed, TransferMoves, rows
  <1>5. CASE \E S \in SUBSET Tasks : Crash(S)
    BY <1>1, <1>5 DEF Crash, rows
  <1> QED BY <1>2, <1>3, <1>4, <1>5, HandlerAccounts DEF Next

LEMMA OneAdminInit ==
    ASSUME Init
    PROVE  OInv
  <1>1. IInv
    BY InitOK
  <1>2. \A t \in Tasks : Relies(t) /\ ~Driving(t)
    BY DEF Init, Relies, Driving, At, Idle, Handler
  <1>3. \A w \in Requests : Accounted(w)
    BY DEF Init, Accounted, Status, NoRequest
  <1> QED BY <1>1, <1>2, <1>3 DEF OInv, OneDriver

LEMMA OneAdminStep ==
    ASSUME IsFiniteSet(Tasks), MaxDeciding <= 1, OInv, [Next]_vars
    PROVE  OInv'
  <1>1. IInv'
    BY StepOK DEF OInv
  <1>2. CASE Next
    <2>1. (\A t \in Tasks : Relies(t)') /\ OneDriver'
      <3>1. ASSUME NEW t \in Tasks, Continue(t) \/ LookupFails(t)
            PROVE  (\A s \in Tasks : Relies(s)') /\ OneDriver'
        BY <3>1, DriverSteps, SettlingSteps, InsertSteps DEF Continue
      <3> QED BY <1>2, <3>1, ArrivalSteps, EnvironmentSteps DEF Next
    <2>2. \A w \in Requests : Accounted(w)'
      BY <1>2, AccountsStep
    <2> QED BY <1>1, <2>1, <2>2 DEF OInv
  <1>3. CASE UNCHANGED vars
    <2>1. \A t \in Tasks : Relies(t)' /\ (Driving(t)' <=> Driving(t))
      BY <1>3 DEF vars, OInv, Relies, Driving, At, Sent, Status
    <2>2. OneDriver'
      BY <1>3, <2>1 DEF vars, OInv, OneDriver
    <2>3. \A w \in Requests : Accounted(w)'
      BY <1>3 DEF vars, OInv, Accounted, Status
    <2> QED BY <1>1, <2>1, <2>2, <2>3 DEF OInv
  <1> QED BY <1>2, <1>3

-----------------------------------------------------------------------------
(* What one decision at a time gives                                        *)

\* With at most one decision on a request in flight, no host ever has both the
\* money and the beans, whatever Cashfree loses, refuses or times out
\* (initiatePayoutForRequest, markPayoutFailed).
THEOREM NeverBoth ==
    ASSUME IsFiniteSet(Tasks), MaxDeciding <= 1
    PROVE  Spec => []NeverPaidAndReturned
  <1>1. OInv => NeverPaidAndReturned
    BY DEF OInv, Accounted, NeverPaidAndReturned, Returned
  <1> QED BY <1>1, OneAdminInit, OneAdminStep, PTL DEF Spec

\* And the beans are returned at most once (the two reversal keys).
THEOREM ReturnedAtMostOnce ==
    ASSUME IsFiniteSet(Tasks), MaxDeciding <= 1
    PROVE  Spec => []ReturnedOnce
  <1>1. ASSUME OInv, NEW w \in Requests
        PROVE  Cardinality(Returned(w)) <= 1
    <2>1. ~(<<w, "rejectReversal">> \in ledger /\ <<w, "failureReversal">> \in ledger)
      BY <1>1 DEF OInv, Accounted
    <2>2. Returned(w) = {} \/ \E kind : Returned(w) = {kind}
      BY <2>1 DEF Returned
    <2> QED BY <2>2, FS_EmptySet, FS_Singleton
  <1>2. OInv => ReturnedOnce
    BY <1>1 DEF ReturnedOnce
  <1> QED BY <1>2, OneAdminInit, OneAdminStep, PTL DEF Spec

-----------------------------------------------------------------------------
(* Withdrawal implements PayoutContract *)

\* What the contract sees of a request and of the balances.
DealsSeen == [w \in Requests |-> Deal(Status(w))]
OwnersSeen == [w \in Requests |-> request[w].host]
SizesSeen == [w \in Requests |-> request[w].beans]
Seen == <<DealsSeen, OwnersSeen, SizesSeen, beans>>

LEMMA DealValues ==
    /\ Deal("none") = "none"
    /\ \A s \in {"pending", "approved", "processing"} : Deal(s) = "held"
    /\ Deal("paid") = "paidOut"
    /\ Deal("failed") = "returned" /\ Deal("rejected") = "returned"
  BY DEF Deal

\* A status that means the same deal is a step the contract does not see.
LEMMA Unseen ==
    ASSUME TypeOK, NEW w \in Requests, NEW s, SetStatus(w, s),
           Deal(s) = Deal(Status(w)), beans' = beans
    PROVE  UNCHANGED Seen
  <1>1. \A x \in Requests : Deal(Status(x))' = Deal(Status(x))
    BY SetStatusKeeps
  <1>2. \A x \in Requests : request'[x].host = request[x].host
                            /\ request'[x].beans = request[x].beans
    BY DEF SetStatus, TypeOK, RequestRow
  <1> QED BY <1>1, <1>2 DEF Seen, DealsSeen, OwnersSeen, SizesSeen

\* The rows of the other requests stay as they are, and so do host and beans of
\* the one that changes.
LEMMA SeenAfterSetStatus ==
    ASSUME TypeOK, NEW w \in Requests, NEW s, SetStatus(w, s)
    PROVE  /\ DealsSeen' = [DealsSeen EXCEPT ![w] = Deal(s)]
           /\ OwnersSeen' = OwnersSeen /\ SizesSeen' = SizesSeen
  <1>1. \A x \in Requests : Deal(Status(x))' = IF x = w THEN Deal(s) ELSE Deal(Status(x))
    BY SetStatusKeeps
  <1>2. \A x \in Requests : request'[x].host = request[x].host
                            /\ request'[x].beans = request[x].beans
    BY DEF SetStatus, TypeOK, RequestRow
  <1> QED BY <1>1, <1>2 DEF DealsSeen, OwnersSeen, SizesSeen

LEMMA PaysOut ==
    ASSUME TypeOK, NEW w \in Requests, Status(w) = "processing",
           SetStatus(w, "paid"), beans' = beans
    PROVE  Contract!Next
  <1>1. DealsSeen[w] = "held"
    BY DealValues DEF DealsSeen
  <1>2. Contract!PayOut(w)
    BY <1>1, SeenAfterSetStatus, DealValues
       DEF Contract!PayOut, DealsSeen, OwnersSeen, SizesSeen
  <1> QED BY <1>2 DEF Contract!Next

LEMMA GivesBack ==
    ASSUME TypeOK, NEW w \in Requests, NEW s \in {"failed", "rejected"},
           Status(w) \in {"pending", "approved", "processing", "paid"},
           SetStatus(w, s), NEW kind, CreditHostBeans(w, kind)
    PROVE  Contract!Next
  <1>1. DealsSeen[w] \in {"held", "paidOut"}
    BY DealValues DEF DealsSeen
  <1>2. beans' = [beans EXCEPT ![OwnersSeen[w]] = @ + SizesSeen[w]]
    BY DEF CreditHostBeans, OwnersSeen, SizesSeen
  <1>3. Contract!GiveBack(w)
    BY <1>1, <1>2, SeenAfterSetStatus, DealValues
       DEF Contract!GiveBack, DealsSeen, OwnersSeen, SizesSeen
  <1> QED BY <1>3 DEF Contract!Next

LEMMA Holds ==
    ASSUME OInv, NEW t \in Tasks, NEW w \in Unused,
           At(t, "insert"), CanAfford(task[t].row.host, task[t].row.beans),
           request' = [request EXCEPT ![w] = task[t].row],
           DebitHostBeans(w, task[t].row.host, task[t].row.beans)
    PROVE  Contract!Next
  <1> PICK draft : draft = task[t].row
    OBVIOUS
  <1>1. w \in Requests /\ DealsSeen[w] = "none"
    BY DealValues DEF Unused, DealsSeen
  <1>2. draft.status \in {"approved", "pending"}
    BY DEF OInv, IInv, HandlersOK, Drafted, GoodDraft
  <1>3. draft.host \in Hosts /\ draft.beans \in Amounts
    BY DEF OInv, IInv, HandlersOK, Drafted, GoodDraft
  <1>4. DealsSeen' = [DealsSeen EXCEPT ![w] = "held"]
    BY <1>1, <1>2, DealValues DEF OInv, IInv, TypeOK, DealsSeen, Status
  <1>5. /\ OwnersSeen' = [OwnersSeen EXCEPT ![w] = draft.host]
        /\ SizesSeen' = [SizesSeen EXCEPT ![w] = draft.beans]
    BY <1>1 DEF OInv, IInv, TypeOK, OwnersSeen, SizesSeen
  <1>6. /\ beans[draft.host] >= draft.beans
        /\ beans' = [beans EXCEPT ![draft.host] = @ - draft.beans]
    BY DEF CanAfford, DebitHostBeans
  <1>7. Contract!Hold(w, draft.host, draft.beans)
    BY <1>1, <1>4, <1>5, <1>6 DEF Contract!Hold, DealsSeen, OwnersSeen, SizesSeen
  <1> QED BY <1>1, <1>3, <1>7 DEF Contract!Next

\* Every step is one of the contract's, or one it does not see.
LEMMA StepKeepsContract ==
    ASSUME OInv, Next
    PROVE  Contract!Next \/ UNCHANGED Seen
  <1>0. TypeOK
    BY DEF OInv, IInv
  <1>1. CASE UNCHANGED <<request, beans>>
    BY <1>1 DEF Seen, DealsSeen, OwnersSeen, SizesSeen, Status
  <1>2. ASSUME NEW t \in Tasks, Continue(t)
        PROVE  Contract!Next \/ UNCHANGED Seen
    <2>0. Bound(t) /\ Relies(t)
      BY DEF OInv, IInv, HandlersOK
    <2> PICK w : w = task[t].on
      OBVIOUS
    <2>1. CASE RequestInsert(t)
      <3>1. CASE UNCHANGED rows
        BY <1>1, <3>1 DEF rows
      <3> QED BY <2>1, <3>1, Holds DEF RequestInsert
    <2>2. CASE Initiate(t) \/ Lookup(t) \/ Sync(t)
      BY <1>1, <2>2 DEF Initiate, Lookup, Sync, rows
    <2>3. CASE Record(t)
      <3>1. Status(w) = "approved"
        BY <2>0, <2>3 DEF Record, Relies, At
      <3>2. \A x \in Requests : Deal(Status(x))' = Deal(Status(x))
        BY <1>0, <2>3, <3>1, DealValues DEF Record, Status, TypeOK, RequestRow
      <3>3. \A x \in Requests : request'[x].host = request[x].host
                                /\ request'[x].beans = request[x].beans
        BY <1>0, <2>3 DEF Record, TypeOK, RequestRow
      <3> QED BY <2>3, <3>2, <3>3 DEF Record, Seen, DealsSeen, OwnersSeen, SizesSeen
    <2>4. CASE RejectWrite(t)
      <3>1. w \in Requests /\ Status(w) = "pending"
        BY <2>0, <2>4 DEF RejectWrite, Relies, Bound, At
      <3>2. CASE CreditHostBeans(w, "rejectReversal") /\ SetStatus(w, "rejected")
        BY <1>0, <3>1, <3>2, GivesBack
      <3> QED BY <1>1, <2>4, <3>2 DEF RejectWrite
    <2>5. CASE ApproveWrite(t)
      <3>1. w \in Requests /\ Status(w) = "pending"
        BY <2>0, <2>5 DEF ApproveWrite, Relies, Bound, At
      <3>2. SetStatus(w, "approved") /\ beans' = beans
        BY <2>5 DEF ApproveWrite
      <3> QED BY <1>0, <3>1, <3>2, DealValues, Unseen
    <2>6. CASE MarkPaid(t)
      <3>1. w \in Requests /\ beans' = beans
        BY <2>0, <2>6 DEF MarkPaid, Bound, At
      <3>2. CASE Status(w) = "processing" /\ SetStatus(w, "paid")
        BY <1>0, <3>1, <3>2, PaysOut
      <3> QED BY <1>1, <2>6, <3>1, <3>2 DEF MarkPaid, PaidFrom
    <2>7. CASE MarkFailed(t)
      <3>1. w \in Requests
        BY <2>0, <2>7 DEF MarkFailed, Bound, At
      <3>2. CASE /\ Status(w) \in task[t].from
                 /\ SetStatus(w, "failed") /\ CreditHostBeans(w, "failureReversal")
        <4>1. Status(w) \in {"approved", "processing", "paid"}
          BY <2>0, <2>7, <3>2 DEF MarkFailed, Relies, At
        <4> QED BY <1>0, <3>1, <3>2, <4>1, GivesBack
      <3> QED BY <1>1, <2>7, <3>2 DEF MarkFailed
    <2> QED BY <1>2, <2>1, <2>2, <2>3, <2>4, <2>5, <2>6, <2>7 DEF Continue
  <1>3. CASE \E t \in Tasks : Arrives(t) \/ LookupFails(t)
                \/ \E w \in Requests : Poll(t, w) \/ WebhookArrives(t, w)
    BY <1>1, <1>3 DEF Arrives, RequestCount, DecideRead, DevResolvePayout,
                      LookupFails, Poll, WebhookArrives, rows
  <1>4. CASE \E w \in Requests :
            LeaveWindow(w) \/ TransferSettles(w) \/ TransferReversed(w) \/ WebhookLost(w)
    BY <1>1, <1>4 DEF LeaveWindow, TransferSettles, TransferReversed, TransferMoves,
                      WebhookLost, rows
  <1>5. CASE \E S \in SUBSET Tasks : Crash(S)
    BY <1>1, <1>5 DEF Crash, rows
  <1> QED BY <1>2, <1>3, <1>4, <1>5 DEF Next

\* Beans leave the wallet once per request and come back at most once, in full,
\* exactly when it fails or is rejected: with one decision at a time,
\* withdrawal.service.ts keeps the contract of PayoutContract.
THEOREM Implements ==
    ASSUME IsFiniteSet(Tasks), MaxDeciding <= 1
    PROVE  Spec => KeepsContract
  <1>1. Init => Contract!Init
    BY DealValues DEF Init, Contract!Init, Status, NoRequest
  <1>2. OInv /\ [Next]_vars => [Contract!Next]_Seen
    <2>1. UNCHANGED vars => UNCHANGED Seen
      BY DEF vars, Seen, DealsSeen, OwnersSeen, SizesSeen, Status
    <2> QED BY <2>1, StepKeepsContract
  <1> QED BY <1>1, <1>2, OneAdminInit, OneAdminStep, PTL
      DEF Spec, KeepsContract, Contract!Spec, Seen, DealsSeen, OwnersSeen, SizesSeen

-----------------------------------------------------------------------------
(* Balances and the ledger, with any number of admins deciding at once *)

\* A handler past its first step, or the count of a request being made, is about
\* a request that exists.
Exists(w) == Status(w) # "none"
AboutExisting(t) == task[t].at \notin {"idle", "insert"} => Exists(task[t].on)

\* Requests belong to hosts, and entries to requests.
Owned(w) == Exists(w) => request[w].host \in Hosts

LInv ==
    /\ \A t \in Tasks : AboutExisting(t)
    /\ \A w \in Requests : Owned(w)
    /\ \A e \in ledger : Exists(e[1])
    /\ IsFiniteSet(ledger)
    /\ LedgerAddsUp

\* A request that was made stays, with its host and its amount.
RowsKept ==
    \A w \in Requests : Exists(w) =>
        /\ Exists(w)'
        /\ request'[w].host = request[w].host
        /\ request'[w].beans = request[w].beans

\* One new entry, and the balance of its host with it.
NewEntry(w, kind) ==
    /\ <<w, kind>> \notin ledger
    /\ ledger' = ledger \cup {<<w, kind>>}
    /\ Exists(w)'
    /\ request'[w].host \in Hosts
    /\ beans' = [beans EXCEPT ![request'[w].host] = @ + Signed'[<<w, kind>>]]

SomeEntry == \E w \in Requests, kind \in Kinds : NewEntry(w, kind)
SameMoney == UNCHANGED <<beans, ledger>>

LEMMA StatusRows ==
    ASSUME TypeOK, NEW w \in Requests, Exists(w), NEW s \in Statuses \ {"none"},
           SetStatus(w, s), \A x \in Requests : Owned(x)
    PROVE  RowsKept /\ \A x \in Requests : Owned(x)'
  <1>1. /\ Status(w)' = s
        /\ \A x \in Requests \ {w} : request'[x] = request[x] /\ Status(x)' = Status(x)
    BY SetStatusKeeps
  <1>2. /\ request'[w].host = request[w].host
        /\ request'[w].beans = request[w].beans
    BY DEF SetStatus, TypeOK, RequestRow
  <1>3. RowsKept
    BY <1>1, <1>2 DEF RowsKept, Exists
  <1> QED BY <1>1, <1>2, <1>3 DEF Owned, Exists

LEMMA SameRows ==
    ASSUME UNCHANGED request, \A x \in Requests : Owned(x)
    PROVE  RowsKept /\ \A x \in Requests : Owned(x)'
  BY DEF RowsKept, Owned, Exists, Status

\* A credit that finds its key free is one new entry.
LEMMA CreditEntry ==
    ASSUME LInv, RowsKept, NEW w \in Requests, Exists(w),
           NEW kind \in {"rejectReversal", "failureReversal"},
           KeyIsFree(w, kind), CreditHostBeans(w, kind)
    PROVE  SomeEntry
  <1>1. /\ Exists(w)'
        /\ request'[w].host = request[w].host
        /\ request'[w].beans = request[w].beans
        /\ request[w].host \in Hosts
    BY DEF RowsKept, LInv, Owned
  <1>2. kind \in Kinds /\ kind # "debit"
    BY DEF Kinds
  <1>3. Signed'[<<w, kind>>] = request[w].beans
    BY <1>1, <1>2 DEF Signed
  <1>4. NewEntry(w, kind)
    BY <1>1, <1>3 DEF NewEntry, CreditHostBeans, KeyIsFree
  <1> QED BY <1>2, <1>4 DEF SomeEntry

\* The debit of a request that is made.
LEMMA InsertEntry ==
    ASSUME IInv, LInv, NEW t \in Tasks, RequestInsert(t)
    PROVE  /\ RowsKept
           /\ \A x \in Requests : Owned(x)'
           /\ SomeEntry \/ SameMoney
  <1> PICK draft : draft = task[t].row
    OBVIOUS
  <1>0. TypeOK
    BY DEF IInv
  <1>1. GoodDraft(draft)
    BY DEF IInv, HandlersOK, Drafted, RequestInsert
  <1>2. CASE UNCHANGED rows
    BY <1>2, SameRows DEF rows, LInv, SameMoney
  <1>3. CASE \E w \in Unused : /\ request' = [request EXCEPT ![w] = draft]
                               /\ DebitHostBeans(w, draft.host, draft.beans)
    <2>1. PICK w \in Unused : /\ request' = [request EXCEPT ![w] = draft]
                              /\ DebitHostBeans(w, draft.host, draft.beans)
      BY <1>3
    <2>2. w \in Requests /\ ~Exists(w)
      BY DEF Unused, Exists
    <2>3. /\ request'[w] = draft
          /\ \A x \in Requests \ {w} : request'[x] = request[x]
      BY <1>0, <2>1, <2>2 DEF TypeOK
    <2>4. RowsKept
      BY <2>2, <2>3 DEF RowsKept, Exists, Status
    <2>5. Exists(w)' /\ draft.host \in Hosts /\ draft.beans \in Nat
      BY <1>1, <2>3, AmountsNat DEF GoodDraft, Exists, Status
    <2>6. \A x \in Requests : Owned(x)'
      BY <2>3, <2>5 DEF LInv, Owned, Exists, Status
    <2>7. <<w, "debit">> \notin ledger
      BY <2>2 DEF LInv
    <2>8. "debit" \in Kinds
      BY DEF Kinds
    <2>9. Signed'[<<w, "debit">>] = -draft.beans
      BY <2>2, <2>3, <2>8 DEF Signed
    <2>10. beans' = [beans EXCEPT ![draft.host] = @ + Signed'[<<w, "debit">>]]
      <3>1. beans' = [beans EXCEPT ![draft.host] = @ - draft.beans]
        BY <2>1 DEF DebitHostBeans
      <3>2. beans[draft.host] - draft.beans = beans[draft.host] + Signed'[<<w, "debit">>]
        BY <1>0, <2>5, <2>9 DEF TypeOK
      <3> QED BY <3>1, <3>2
    <2>11. NewEntry(w, "debit")
      BY <2>1, <2>3, <2>5, <2>7, <2>10 DEF NewEntry, DebitHostBeans
    <2> QED BY <2>2, <2>4, <2>6, <2>8, <2>11 DEF SomeEntry
  <1> QED BY <1>2, <1>3 DEF RequestInsert

\* Every step keeps the requests that were made, and moves beans only with an
\* entry of its own in the ledger.
LEMMA EntrySteps ==
    ASSUME IInv, LInv, Next
    PROVE  /\ RowsKept
           /\ \A x \in Requests : Owned(x)'
           /\ SomeEntry \/ SameMoney
  <1> DEFINE Goal == /\ RowsKept
                     /\ \A x \in Requests : Owned(x)'
                     /\ SomeEntry \/ SameMoney
  <1>0. TypeOK /\ \A x \in Requests : Owned(x)
    BY DEF IInv, LInv
  <1>1. ASSUME UNCHANGED <<request, beans, ledger>> PROVE Goal
    BY <1>0, <1>1, SameRows DEF SameMoney
  <1>2. ASSUME NEW w \in Requests, Exists(w), NEW s \in Statuses \ {"none"},
               SetStatus(w, s), UNCHANGED <<beans, ledger>>
        PROVE  Goal
    BY <1>0, <1>2, StatusRows DEF SameMoney
  <1>3. ASSUME NEW w \in Requests, Exists(w), NEW s \in Statuses \ {"none"},
               SetStatus(w, s), NEW kind \in {"rejectReversal", "failureReversal"},
               KeyIsFree(w, kind), CreditHostBeans(w, kind)
        PROVE  Goal
    BY <1>0, <1>3, StatusRows, CreditEntry
  <1>4. {"approved", "processing", "paid", "failed", "rejected"} \subseteq Statuses \ {"none"}
    BY DEF Statuses
  <1>5. ASSUME NEW t \in Tasks, Continue(t) PROVE Goal
    <2> PICK w : w = task[t].on
      OBVIOUS
    <2>0. ~At(t, "idle") /\ ~At(t, "insert") => w \in Requests /\ Exists(w)
      BY DEF IInv, HandlersOK, Bound, LInv, AboutExisting, At
    <2>1. CASE RequestInsert(t)
      BY <2>1, InsertEntry
    <2>2. CASE Initiate(t) \/ Lookup(t) \/ Sync(t)
      BY <1>1, <2>2 DEF Initiate, Lookup, Sync, rows
    <2>3. CASE Record(t)
      <3>1. w \in Requests /\ Exists(w) /\ UNCHANGED <<beans, ledger>>
        BY <2>0, <2>3 DEF Record, At
      <3>2. /\ request'[w].status = "processing"
            /\ request'[w].host = request[w].host
            /\ request'[w].beans = request[w].beans
            /\ \A x \in Requests \ {w} : request'[x] = request[x]
        BY <1>0, <2>3, <3>1 DEF Record, TypeOK, RequestRow
      <3>3. RowsKept
        BY <3>2 DEF RowsKept, Exists, Status
      <3>4. \A x \in Requests : Owned(x)'
        BY <1>0, <3>1, <3>2 DEF Owned, Exists, Status
      <3> QED BY <3>1, <3>3, <3>4 DEF SameMoney
    <2>4. CASE RejectWrite(t)
      <3>1. w \in Requests /\ Exists(w)
        BY <2>0, <2>4 DEF RejectWrite, At
      <3>2. CASE /\ KeyIsFree(w, "rejectReversal")
                 /\ CreditHostBeans(w, "rejectReversal")
                 /\ SetStatus(w, "rejected")
        BY <1>3, <1>4, <3>1, <3>2
      <3> QED BY <1>1, <2>4, <3>2 DEF RejectWrite
    <2>5. CASE ApproveWrite(t)
      <3>1. w \in Requests /\ Exists(w)
        BY <2>0, <2>5 DEF ApproveWrite, At
      <3>2. SetStatus(w, "approved") /\ UNCHANGED <<beans, ledger>>
        BY <2>5 DEF ApproveWrite
      <3> QED BY <1>2, <1>4, <3>1, <3>2
    <2>6. CASE MarkPaid(t)
      <3>1. w \in Requests /\ Exists(w) /\ UNCHANGED <<beans, ledger>>
        BY <2>0, <2>6 DEF MarkPaid, At
      <3>2. CASE SetStatus(w, "paid")
        BY <1>2, <1>4, <3>1, <3>2
      <3> QED BY <1>1, <2>6, <3>1, <3>2 DEF MarkPaid
    <2>7. CASE MarkFailed(t)
      <3>1. w \in Requests /\ Exists(w)
        BY <2>0, <2>7 DEF MarkFailed, At
      <3>2. CASE /\ KeyIsFree(w, "failureReversal")
                 /\ SetStatus(w, "failed")
                 /\ CreditHostBeans(w, "failureReversal")
        BY <1>3, <1>4, <3>1, <3>2
      <3> QED BY <1>1, <2>7, <3>2 DEF MarkFailed
    <2> HIDE DEF Goal
    <2> QED BY <1>5, <2>1, <2>2, <2>3, <2>4, <2>5, <2>6, <2>7 DEF Continue
  <1>6. ASSUME NEW t \in Tasks,
               \/ Arrives(t) \/ LookupFails(t)
               \/ \E w \in Requests : Poll(t, w) \/ WebhookArrives(t, w)
        PROVE  Goal
    BY <1>1, <1>6 DEF Arrives, RequestCount, DecideRead, DevResolvePayout,
                      LookupFails, Poll, WebhookArrives, rows
  <1>7. ASSUME NEW w \in Requests,
               \/ LeaveWindow(w) \/ TransferSettles(w)
               \/ TransferReversed(w) \/ WebhookLost(w)
        PROVE  Goal
    BY <1>1, <1>7 DEF LeaveWindow, TransferSettles, TransferReversed, TransferMoves,
                      WebhookLost, rows
  <1>8. ASSUME NEW S \in SUBSET Tasks, Crash(S) PROVE Goal
    BY <1>1, <1>8 DEF Crash, rows
  <1> HIDE DEF Goal
  <1>9. Goal
    BY <1>5, <1>6, <1>7, <1>8 DEF Next
  <1> QED BY <1>9 DEF Goal

\* Handlers stay with requests that exist.
LEMMA ExistingSteps ==
    ASSUME IInv, LInv, Next, RowsKept
    PROVE  \A t \in Tasks : AboutExisting(t)'
  <1>0. TypeOK
    BY DEF IInv
  <1>1. ASSUME NEW s \in Tasks, task'[s] = task[s] \/ task'[s] = Idle
        PROVE  AboutExisting(s)'
    <2>1. CASE task'[s] = Idle
      BY <2>1 DEF AboutExisting, Idle, Handler
    <2>2. CASE task'[s] = task[s]
      BY <2>2 DEF IInv, HandlersOK, Bound, LInv, AboutExisting, RowsKept
    <2> QED BY <1>1, <2>1, <2>2
  <1>2. ASSUME NEW t \in Tasks, NEW r, Become(t, r),
               r.at \notin {"idle", "insert"} => r.on \in Requests /\ Exists(r.on)'
        PROVE  \A s \in Tasks : AboutExisting(s)'
    <2>1. task'[t] = r /\ \A s \in Tasks \ {t} : task'[s] = task[s]
      BY <1>0, <1>2 DEF Become, TypeOK
    <2>2. AboutExisting(t)'
      BY <1>2, <2>1 DEF AboutExisting
    <2> QED BY <1>1, <2>1, <2>2
  <1>3. ASSUME NEW w \in Requests, Exists(w) PROVE Exists(w)'
    BY <1>3 DEF RowsKept
  <1>4. ASSUME NEW t \in Tasks, NEW w \in Requests, Poll(t, w) \/ WebhookArrives(t, w)
        PROVE  \A s \in Tasks : AboutExisting(s)'
    <2>1. CASE UNCHANGED task
      BY <1>1, <2>1
    <2>2. CASE Status(w) \in {"processing", "paid"}
               /\ \E hook \in BOOLEAN : Become(t, Handler("sync", w, request[w], hook))
      BY <1>2, <1>3, <2>2 DEF Handler, Exists
    <2> QED BY <1>4, <2>1, <2>2 DEF Poll, WebhookArrives
  <1>5. ASSUME NEW t \in Tasks, Arrives(t)
        PROVE  \A s \in Tasks : AboutExisting(s)'
    <2>1. CASE \E h \in Hosts, b \in Amounts : RequestCount(t, h, b)
      BY <1>2, <2>1 DEF RequestCount, Handler
    <2>2. CASE \E w \in Requests : DecideRead(t, w)
      BY <1>2, <1>3, <2>2 DEF DecideRead, Handler, Exists
    <2>3. CASE \E w \in Requests : DevResolvePayout(t, w)
      BY <1>2, <1>3, <2>3 DEF DevResolvePayout, Handler, Exists
    <2> QED BY <1>5, <2>1, <2>2, <2>3 DEF Arrives
  <1>6. ASSUME NEW t \in Tasks, Continue(t) \/ LookupFails(t)
        PROVE  \A s \in Tasks : AboutExisting(s)'
    <2>1. task[t] \in Task
      BY <1>0 DEF TypeOK
    <2>2. ASSUME Finish(t) PROVE \A s \in Tasks : AboutExisting(s)'
      BY <1>2, <2>2 DEF Finish, Idle, Handler
    <2>3. ASSUME task[t].at \notin {"idle", "insert"},
                 (\E step : Goto(t, step)) \/ (\E S : FailFrom(t, S))
          PROVE  \A s \in Tasks : AboutExisting(s)'
      <3>1. /\ task'[t].on = task[t].on
            /\ \A s \in Tasks \ {t} : task'[s] = task[s]
        BY <1>0, <2>1, <2>3 DEF Goto, FailFrom, TypeOK, Task
      <3>2. task[t].on \in Requests /\ Exists(task[t].on)
        BY <2>3 DEF IInv, HandlersOK, Bound, LInv, AboutExisting
      <3>3. AboutExisting(t)'
        BY <1>3, <3>1, <3>2 DEF AboutExisting
      <3> QED BY <1>1, <3>1, <3>3
    <2>4. CASE RequestInsert(t)
      <3>1. ASSUME NEW w \in Unused, request' = [request EXCEPT ![w] = task[t].row],
                   Become(t, Handler("initiate", w, NoRequest, FALSE))
            PROVE  \A s \in Tasks : AboutExisting(s)'
        <4>1. w \in Requests /\ request'[w] = task[t].row
          BY <1>0, <3>1 DEF Unused, TypeOK
        <4>2. GoodDraft(task[t].row)
          BY <2>4 DEF IInv, HandlersOK, Drafted, RequestInsert
        <4>3. Exists(w)'
          BY <4>1, <4>2 DEF Exists, Status, GoodDraft
        <4> QED BY <1>2, <3>1, <4>1, <4>3 DEF Handler
      <3> QED BY <2>2, <2>4, <3>1 DEF RequestInsert
    <2>5. CASE Initiate(t) \/ Lookup(t) \/ ApproveWrite(t) \/ Sync(t)
      BY <2>2, <2>3, <2>5 DEF Initiate, Lookup, ApproveWrite, Sync, At
    <2>6. CASE Record(t) \/ RejectWrite(t) \/ MarkPaid(t) \/ MarkFailed(t) \/ LookupFails(t)
      BY <2>2, <2>6 DEF Record, RejectWrite, MarkPaid, MarkFailed, LookupFails
    <2> QED BY <1>6, <2>4, <2>5, <2>6 DEF Continue
  <1>7. CASE \E w \in Requests :
            LeaveWindow(w) \/ TransferSettles(w) \/ TransferReversed(w) \/ WebhookLost(w)
    BY <1>1, <1>7 DEF LeaveWindow, TransferSettles, TransferReversed, TransferMoves,
                      WebhookLost
  <1>8. CASE \E S \in SUBSET Tasks : Crash(S)
    BY <1>1, <1>8 DEF Crash
  <1> QED BY <1>4, <1>5, <1>6, <1>7, <1>8 DEF Next

\* The entries of a host, and what they add up to.
EntriesOf(h) == {e \in ledger : request[e[1]].host = h}

LEMMA EntriesTyped ==
    ASSUME TypeOK, IsFiniteSet(ledger), NEW h
    PROVE  /\ IsFiniteSet(EntriesOf(h))
           /\ \A e \in ledger : Signed[e] \in Int
           /\ LedgerSum(h) = SumFunctionOnSet(Signed, EntriesOf(h))
           /\ LedgerSum(h) \in Int
  <1>1. IsFiniteSet(EntriesOf(h))
    BY FS_Subset DEF EntriesOf
  <1>2. ASSUME NEW e \in ledger PROVE Signed[e] \in Int
    <2>1. e \in Requests \X Kinds /\ e[1] \in Requests
      BY DEF TypeOK
    <2>2. request[e[1]].beans \in Nat
      BY <2>1, RowTyped
    <2> QED BY <2>1, <2>2 DEF Signed
  <1>3. LedgerSum(h) = SumFunctionOnSet(Signed, EntriesOf(h))
    BY DEF LedgerSum, EntriesOf
  <1> QED BY <1>1, <1>2, <1>3, SumIsInteger DEF EntriesOf

\* Old entries mean what they meant.
LEMMA OldEntries ==
    ASSUME TypeOK, LInv, RowsKept, NEW e \in ledger
    PROVE  /\ Exists(e[1])'
           /\ request'[e[1]].host = request[e[1]].host
           /\ Signed'[e] = Signed[e]
  <1>1. e \in Requests \X Kinds /\ e[1] \in Requests /\ Exists(e[1])
    BY DEF TypeOK, LInv
  <1> QED BY <1>1 DEF RowsKept, Signed

LEMMA BalanceStep ==
    ASSUME IInv, IInv', LInv, RowsKept, SomeEntry \/ SameMoney
    PROVE  /\ \A e \in ledger' : Exists(e[1])'
           /\ IsFiniteSet(ledger')
           /\ LedgerAddsUp'
  <1>0. TypeOK /\ TypeOK' /\ IsFiniteSet(ledger)
    BY DEF IInv, LInv
  <1>1. ASSUME NEW h
        PROVE  SumFunctionOnSet(Signed', EntriesOf(h)) = LedgerSum(h)
    <2>1. \A e \in EntriesOf(h) : Signed'[e] = Signed[e]
      BY <1>0, OldEntries DEF EntriesOf
    <2>2. IsFiniteSet(EntriesOf(h)) /\ LedgerSum(h) = SumFunctionOnSet(Signed, EntriesOf(h))
      BY <1>0, EntriesTyped
    <2> QED BY <2>1, <2>2, SameSum
  <1>2. CASE SameMoney
    <2>1. \A h : EntriesOf(h)' = EntriesOf(h)
      BY <1>0, <1>2, OldEntries DEF EntriesOf, SameMoney
    <2>2. \A h : LedgerSum(h)' = SumFunctionOnSet(Signed', EntriesOf(h)')
      BY DEF LedgerSum, EntriesOf
    <2>3. \A h : LedgerSum(h)' = LedgerSum(h)
      BY <1>1, <2>1, <2>2
    <2> QED BY <1>0, <1>2, <2>3, OldEntries DEF SameMoney, LInv, LedgerAddsUp
  <1>3. CASE SomeEntry
    <2>1. PICK w \in Requests, kind \in Kinds : NewEntry(w, kind)
      BY <1>3 DEF SomeEntry
    <2> DEFINE e == <<w, kind>>
               g == request'[w].host
    <2>2. /\ e \notin ledger /\ ledger' = ledger \cup {e}
          /\ e[1] = w /\ Exists(w)'
          /\ g \in Hosts
          /\ beans' = [beans EXCEPT ![g] = @ + Signed'[e]]
      BY <2>1 DEF NewEntry
    <2>3. IsFiniteSet(ledger')
      BY <1>0, <2>2, FS_AddElement
    <2>4. \A x \in ledger' : Exists(x[1])'
      BY <1>0, <2>2, OldEntries
    <2>5. ASSUME NEW x \in ledger' PROVE Signed'[x] \in Int
      <3>1. x \in Requests \X Kinds /\ x[1] \in Requests
        BY <1>0 DEF TypeOK
      <3>2. request'[x[1]].beans \in Nat
        BY <1>0, <3>1, BeansNat DEF TypeOK
      <3> QED BY <3>1, <3>2 DEF Signed
    <2> HIDE DEF e, g
    <2>6. ASSUME NEW h \in Hosts
          PROVE  beans'[h] = InitialBeans + LedgerSum(h)'
      <3>1. LedgerSum(h)' = SumFunctionOnSet(Signed', EntriesOf(h)')
        BY DEF LedgerSum, EntriesOf
      <3>2. beans[h] = InitialBeans + LedgerSum(h)
        BY DEF LInv, LedgerAddsUp
      <3>3. /\ IsFiniteSet(EntriesOf(h)) /\ LedgerSum(h) \in Int
            /\ \A y \in EntriesOf(h) : Signed'[y] \in Int
            /\ e \notin EntriesOf(h)
            /\ beans[h] \in Nat /\ InitialBeans \in Nat
        BY <1>0, <2>2, <2>5, EntriesTyped, WithdrawalConstants DEF EntriesOf, TypeOK
      <3>4. CASE h = g
        <4>1. EntriesOf(h)' = EntriesOf(h) \cup {e}
          BY <1>0, <2>2, <3>4, OldEntries DEF EntriesOf, g
        <4>2. SumFunctionOnSet(Signed', EntriesOf(h)') = LedgerSum(h) + Signed'[e]
          BY <1>1, <2>2, <2>5, <3>3, <4>1, SumWith
        <4>3. beans'[h] = beans[h] + Signed'[e]
          BY <1>0, <2>2, <3>4 DEF TypeOK
        <4>4. Signed'[e] \in Int
          BY <2>2, <2>5
        <4> QED BY <3>1, <3>2, <3>3, <4>2, <4>3, <4>4
      <3>5. CASE h # g
        <4>1. EntriesOf(h)' = EntriesOf(h)
          BY <1>0, <2>2, <3>5, OldEntries DEF EntriesOf, g
        <4>2. beans'[h] = beans[h]
          BY <1>0, <2>2, <3>5 DEF TypeOK
        <4> QED BY <1>1, <3>1, <3>2, <4>1, <4>2
      <3> QED BY <3>4, <3>5
    <2> QED BY <2>3, <2>4, <2>6 DEF LedgerAddsUp
  <1> QED BY <1>2, <1>3

LEMMA LedgerInit == Init => LInv
  <1> SUFFICES ASSUME Init PROVE LInv
    OBVIOUS
  <1>1. ledger = {} /\ IsFiniteSet(ledger)
    BY FS_EmptySet DEF Init
  <1>2. \A h : EntriesOf(h) = {}
    BY <1>1 DEF EntriesOf
  <1>3. \A h : LedgerSum(h) = 0
    BY <1>2, SumOfNone DEF LedgerSum, EntriesOf
  <1>4. LedgerAddsUp
    BY <1>3, WithdrawalConstants DEF Init, LedgerAddsUp
  <1>5. \A t \in Tasks : AboutExisting(t)
    BY DEF Init, AboutExisting, Idle, Handler
  <1>6. \A w \in Requests : Owned(w)
    BY DEF Init, Owned, Exists, Status, NoRequest
  <1> QED BY <1>1, <1>4, <1>5, <1>6 DEF LInv

LEMMA LedgerStep ==
    ASSUME IInv, IInv', LInv, [Next]_vars
    PROVE  LInv'
  <1>1. CASE Next
    <2>1. /\ RowsKept
          /\ \A x \in Requests : Owned(x)'
          /\ SomeEntry \/ SameMoney
      BY <1>1, EntrySteps
    <2> QED BY <1>1, <2>1, ExistingSteps, BalanceStep DEF LInv
  <1>2. CASE UNCHANGED vars
    BY <1>2 DEF vars, LInv, AboutExisting, Owned, Exists, Status, LedgerAddsUp,
                LedgerSum, Signed
  <1> QED BY <1>1, <1>2

\* Every balance is the sum of its ledger, however many admins decide on one
\* request at once and however their transactions, polls and webhooks collide:
\* debitHostBeans and creditHostBeans move beans only with an entry whose key is
\* new, in one transaction.
THEOREM BalancesAreLedgers == Spec => []BalanceIsLedger
  <1>1. IInv /\ LInv => BalanceIsLedger
    BY DEF IInv, LInv, BalanceIsLedger
  <1> QED BY <1>1, LedgerInit, LedgerStep, Invariance, PTL DEF Spec

=============================================================================
