--------------------------- MODULE Payment_proofs ---------------------------
(***************************************************************************)
(* What holds of Payment for any number of orders, users, handlers and     *)
(* faults, in every deployment.                                            *)
(***************************************************************************)
EXTENDS Payment, Sums, TLAPS

-----------------------------------------------------------------------------
(* The inductive invariant *)

Placed == {o \in Orders : Status(o) # "none"}

\* A row is absent, with nothing yet under its id, or was inserted whole; its
\* key is in the ledger exactly when it is a recharge that succeeded.
OrderOK(o) ==
    /\ IF Status(o) = "none"
       THEN order[o] = NoOrder /\ gateway[o] = "none"
       ELSE /\ order[o].kind \in {"recharge", "vip"}
            /\ order[o].user \in Users
            /\ order[o].size \in Sizes
    /\ o \in ledger <=> order[o].kind = "recharge" /\ Status(o) = "success"
    /\ (deployment = "production" /\ Status(o) = "success") => gateway[o] = "paid"

\* The handlers that initiate an order, the ones that settle it, and those of
\* them that would settle it as paid.
Initiating(t) == task[t].at \in {"create", "record", "giveUp"}
Settling(t) == task[t].at \in {"lookup", "claim", "activate", "markFailed"}
Believing(t) == task[t].at \in {"claim", "activate"}

\* An order being initiated is fresh, and only the app that initiated it knows
\* its id; what is settled was recorded, or needed no record.
TaskOK(t) ==
    /\ At(t, "idle") <=> task[t].on = Nobody
    /\ At(t, "idle") => ~task[t].hook
    /\ Initiating(t) =>
        /\ CashfreeConfigured
        /\ Status(task[t].on) = "created"
        /\ ~order[task[t].on].recorded
        /\ At(t, "create") => gateway[task[t].on] = "none"
    /\ Settling(t) =>
        /\ Status(task[t].on) # "none"
        /\ order[task[t].on].recorded \/ ~CashfreeConfigured
    /\ (Believing(t) /\ deployment = "production") => gateway[task[t].on] = "paid"
    /\ At(t, "activate") =>
        /\ Status(task[t].on) = "created"
        /\ order[task[t].on].kind = "vip"

\* No two handlers initiate one order or hold one purchase row.
TasksApart ==
    \A s, t \in Tasks : s # t =>
        /\ (Initiating(s) /\ Initiating(t)) => task[s].on # task[t].on
        /\ (At(s, "activate") /\ At(t, "activate")) => task[s].on # task[t].on

\* Each user has the one subscription he started with, and a handler about to
\* extend it has locked it and knows its expiry.
VipOK ==
    /\ \A o \in Orders : days[o] = 0
    /\ \A u \in Users : days[u] = InitialDays + Delivered(u, "vip")
    /\ \A t \in Tasks : At(t, "activate") =>
        /\ task[t].existing = order[task[t].on].user
        /\ task[t].base = days[task[t].existing]
    /\ \A s, t \in Tasks :
        (s # t /\ At(s, "activate") /\ At(t, "activate"))
            => task[s].existing # task[t].existing

IInv ==
    /\ TypeOK
    /\ IsFiniteSet(Placed)
    /\ \A o \in Orders : OrderOK(o)
    /\ \A t \in Tasks : TaskOK(t)
    /\ TasksApart

-----------------------------------------------------------------------------
(* Rows and tasks *)

LEMMA HandlerTyped ==
    /\ Idle \in Task
    /\ \A o \in Orders, hook \in BOOLEAN, step \in {"create", "lookup", "claim", "markFailed"} :
          Handler(step, o, hook) \in Task
  BY DEF Idle, Handler, Task, Subscriptions

\* What the writes of a handler's state leave behind.
LEMMA BecomeEffect ==
    ASSUME TypeOK, NEW t \in Tasks, NEW r \in Task, Become(t, r)
    PROVE  /\ task' \in [Tasks -> Task]
           /\ task'[t] = r
           /\ \A q \in Tasks \ {t} : task'[q] = task[q]
  BY DEF TypeOK, Become

LEMMA GotoEffect ==
    ASSUME TypeOK, NEW t \in Tasks, NEW step \in {"record", "giveUp", "claim", "activate", "markFailed"},
           Goto(t, step)
    PROVE  /\ task' \in [Tasks -> Task]
           /\ task'[t] = [task[t] EXCEPT !.at = step]
           /\ \A q \in Tasks \ {t} : task'[q] = task[q]
  BY DEF TypeOK, Goto, Task

LEMMA FinishEffect ==
    ASSUME TypeOK, NEW t \in Tasks, Finish(t)
    PROVE  /\ task' \in [Tasks -> Task]
           /\ task'[t] = Idle
           /\ \A q \in Tasks \ {t} : task'[q] = task[q]
  BY HandlerTyped, BecomeEffect DEF Finish

\* A handler at work is at work on some order.
LEMMA AtWork ==
    ASSUME IInv, NEW t \in Tasks, ~At(t, "idle")
    PROVE  task[t].on \in Orders
  BY DEF IInv, TypeOK, TaskOK, Task

LEMMA SetStatusEffect ==
    ASSUME TypeOK, NEW o \in Orders, NEW s \in {"success", "failed"}, SetStatus(o, s)
    PROVE  /\ order' \in [Orders -> OrderRow]
           /\ order'[o] = [order[o] EXCEPT !.status = s]
           /\ order'[o].user = order[o].user
           /\ order'[o].status = s
           /\ \A r \in Orders \ {o} : order'[r] = order[r]
  BY DEF TypeOK, SetStatus, OrderRow

\* Where no row appears, finitely many exist as before.
LEMMA PlacedKept ==
    ASSUME IInv, \A o \in Orders : Status(o)' = "none" <=> Status(o) = "none"
    PROVE  IsFiniteSet(Placed')
  <1>1. Placed' = Placed
    BY DEF Placed
  <1> QED BY <1>1 DEF IInv

-----------------------------------------------------------------------------
(* Every action keeps the invariant *)

LEMMA InitiateInsertKeeps ==
    ASSUME IInv, NEW t \in Tasks, NEW o \in Orders, NEW u \in Users,
           NEW kind \in {"recharge", "vip"}, NEW n \in Sizes, InitiateInsert(t, o, u, kind, n)
    PROVE  IInv'
  <1>1. /\ order'[o] = [status |-> "created", kind |-> kind, user |-> u,
                        size |-> n, recorded |-> FALSE]
        /\ \A r \in Orders \ {o} : order'[r] = order[r]
    BY DEF IInv, TypeOK, InitiateInsert
  <1>2. TypeOK'
    <2>1. order' \in [Orders -> OrderRow]
      BY PaymentConstants DEF IInv, TypeOK, OrderRow, InitiateInsert
    <2>2. task' \in [Tasks -> Task]
      BY HandlerTyped, BecomeEffect DEF IInv, TypeOK, InitiateInsert
    <2> QED BY <2>1, <2>2 DEF IInv, TypeOK, InitiateInsert, wallet, vip,
               cashfree
  <1>3. IsFiniteSet(Placed')
    <2>1. Placed' = Placed \cup {o}
      BY DEF IInv, TypeOK, OrderRow, Placed, InitiateInsert, Status
    <2> QED BY <2>1, FS_AddElement DEF IInv
  <1>4. ASSUME NEW r \in Orders
        PROVE  OrderOK(r)'
    <2>1. CASE r = o
      <3>1. o \notin ledger /\ order[o].kind = "none"
        BY DEF IInv, OrderOK, InitiateInsert, NoOrder, Status
      <3> QED BY <1>1, <2>1, <3>1 DEF OrderOK, InitiateInsert, Status, wallet
    <2>2. CASE r # o
      BY <1>4, <1>1, <2>2 DEF IInv, OrderOK, InitiateInsert, Status, wallet,
         cashfree
    <2> QED BY <2>1, <2>2
  <1>5. ASSUME NEW q \in Tasks
        PROVE  TaskOK(q)'
    BY PaymentConstants, <1>5 DEF IInv, TypeOK, OrderOK, TaskOK, TasksApart,
       Initiating, Settling, Believing, CashfreeConfigured, At, Status, Task,
       OrderRow, Handler, Idle, InitiateInsert, Become, Goto, Finish, SetStatus,
       AskAgain, Subscriptions, wallet, vip, cashfree
  <1>6. TasksApart'
    <2>1. \A q \in Tasks : Initiating(q) => task[q].on # o
      BY DEF IInv, TaskOK, Initiating, InitiateInsert
    <2>2. /\ task'[t] \in {task[t], Handler("create", o, FALSE)}
          /\ \A q \in Tasks \ {t} : task'[q] = task[q]
      BY HandlerTyped, BecomeEffect DEF IInv, InitiateInsert
    <2> QED BY <2>1, <2>2 DEF IInv, TasksApart, Initiating, At, Handler
  <1> QED BY <1>2, <1>3, <1>4, <1>5, <1>6 DEF IInv

LEMMA CreateCashfreeOrderKeeps ==
    ASSUME IInv, NEW t \in Tasks, CreateCashfreeOrder(t)
    PROVE  IInv'
  <1>1. TypeOK'
    BY PaymentConstants DEF IInv, TypeOK, CreateCashfreeOrder, Become, Goto,
       Finish, SetStatus, AskAgain, Subscriptions, Task, Handler, Idle, wallet,
       vip, cashfree
  <1>2. IsFiniteSet(Placed')
    BY DEF IInv, Placed, CreateCashfreeOrder, Status
  <1>3. ASSUME NEW r \in Orders
        PROVE  OrderOK(r)'
    BY <1>3 DEF IInv, TypeOK, OrderOK, TaskOK, TasksApart, Initiating, Settling,
       Believing, CashfreeConfigured, At, Status, Task, OrderRow, Handler, Idle,
       CreateCashfreeOrder, Become, Goto, Finish, SetStatus, AskAgain,
       Subscriptions, wallet, vip, cashfree
  <1>4. ASSUME NEW q \in Tasks
        PROVE  TaskOK(q)'
    BY PaymentConstants, <1>4 DEF IInv, TypeOK, OrderOK, TaskOK, TasksApart,
       Initiating, Settling, Believing, CashfreeConfigured, At, Status, Task,
       OrderRow, Handler, Idle, CreateCashfreeOrder, Become, Goto, Finish,
       SetStatus, AskAgain, Subscriptions, wallet, vip, cashfree
  <1>5. TasksApart'
    BY PaymentConstants DEF IInv, TypeOK, OrderOK, TaskOK, TasksApart,
       Initiating, Settling, Believing, CashfreeConfigured, At, Status, Task,
       OrderRow, Handler, Idle, CreateCashfreeOrder, Become, Goto, Finish,
       SetStatus, AskAgain, Subscriptions, wallet, vip, cashfree
  <1> QED BY <1>1, <1>2, <1>3, <1>4, <1>5 DEF IInv

LEMMA InitiateRecordKeeps ==
    ASSUME IInv, NEW t \in Tasks, InitiateRecord(t)
    PROVE  IInv'
  <1> DEFINE o == task[t].on
  <1>1. o \in Orders
    BY AtWork DEF InitiateRecord, At
  <1>2. /\ order' \in [Orders -> OrderRow]
        /\ order'[o] = [order[o] EXCEPT !.recorded = TRUE]
        /\ \A r \in Orders \ {o} : order'[r] = order[r]
    <2>1. order \in [Orders -> OrderRow] /\ order' = [order EXCEPT ![o].recorded = TRUE]
      BY DEF IInv, TypeOK, InitiateRecord
    <2>2. \A r \in OrderRow : [r EXCEPT !.recorded = TRUE] \in OrderRow
      BY DEF OrderRow
    <2> HIDE DEF o
    <2> QED BY <1>1, <2>1, <2>2
  <1>3. task' \in [Tasks -> Task] /\ task'[t] = Idle /\ \A q \in Tasks \ {t} : task'[q] = task[q]
    BY FinishEffect DEF IInv, InitiateRecord
  <1>4. /\ Status(o) = "created" /\ order'[o].status = "created"
        /\ \A r \in Orders : order'[r].status = order[r].status
    <2>1. Status(o) = "created"
      BY DEF IInv, TaskOK, Initiating, InitiateRecord, At
    <2>2. order'[o].status = order[o].status
      BY <1>1, <1>2 DEF IInv, TypeOK, OrderRow
    <2> QED BY <1>2, <2>1, <2>2 DEF Status
  <1>5. TypeOK'
    BY <1>2, <1>3 DEF IInv, TypeOK, InitiateRecord, wallet, vip, cashfree
  <1>6. IsFiniteSet(Placed')
    BY <1>4, PlacedKept DEF Status
  <1>7. ASSUME NEW r \in Orders
        PROVE  OrderOK(r)'
    BY <1>7, <1>1, <1>2, <1>4 DEF IInv, TypeOK, OrderRow, OrderOK,
       InitiateRecord, wallet, cashfree, Status
  <1>8. ASSUME NEW q \in Tasks
        PROVE  TaskOK(q)'
    <2>1. CASE q = t
      BY <1>3, <2>1 DEF TaskOK, At, Initiating, Settling, Believing, Idle, Handler
    <2>2. CASE q # t
      <3>1. task'[q] = task[q] /\ TaskOK(q) /\ UNCHANGED <<gateway, deployment>>
        BY <1>3, <2>2 DEF IInv, InitiateRecord, cashfree
      <3>2. Initiating(q) => task[q].on # o
        BY <2>2 DEF IInv, TasksApart, InitiateRecord, At, Initiating
      <3>3. ASSUME NEW r \in Orders
            PROVE  /\ order'[r].status = order[r].status /\ order'[r].kind = order[r].kind
                   /\ order[r].recorded => order'[r].recorded
                   /\ r # o => order'[r].recorded = order[r].recorded
        BY <1>2 DEF IInv, TypeOK, OrderRow
      <3>4. task[q].at # "idle" => task[q].on \in Orders
        BY AtWork DEF At
      <3> HIDE DEF o
      <3> QED BY <3>1, <3>2, <3>3, <3>4
          DEF TaskOK, At, Initiating, Settling, Believing, Status, CashfreeConfigured
    <2> QED BY <2>1, <2>2
  <1>9. TasksApart'
    BY <1>3 DEF IInv, TasksApart, Initiating, At, Idle, Handler
  <1> QED BY <1>5, <1>6, <1>7, <1>8, <1>9 DEF IInv

LEMMA InitiateGiveUpKeeps ==
    ASSUME IInv, NEW t \in Tasks, InitiateGiveUp(t)
    PROVE  IInv'
  <1> DEFINE o == task[t].on
  <1>1. o \in Orders
    BY AtWork DEF InitiateGiveUp, At
  <1>2. task' \in [Tasks -> Task] /\ task'[t] = Idle /\ \A q \in Tasks \ {t} : task'[q] = task[q]
    BY FinishEffect DEF IInv, InitiateGiveUp
  <1>3. /\ order' \in [Orders -> OrderRow]
        /\ order'[o] = [order[o] EXCEPT !.status = "failed"]
        /\ \A r \in Orders \ {o} : order'[r] = order[r]
    BY <1>1, SetStatusEffect DEF IInv, InitiateGiveUp
  <1>4. Status(o) = "created" /\ CashfreeConfigured /\ ~order[o].recorded
    BY DEF IInv, TaskOK, Initiating, InitiateGiveUp, At
  <1>5. TypeOK'
    BY <1>3, <1>2 DEF IInv, TypeOK, InitiateGiveUp, wallet, vip, cashfree
  <1>6. IsFiniteSet(Placed')
    BY <1>1, <1>3, <1>4, PlacedKept DEF Status, OrderRow, IInv, TypeOK
  <1>7. ASSUME NEW r \in Orders
        PROVE  OrderOK(r)'
    BY <1>7, <1>1, <1>3, <1>4 DEF IInv, TypeOK, OrderRow, OrderOK,
       InitiateGiveUp, wallet, cashfree, Status
  <1>8. ASSUME NEW q \in Tasks
        PROVE  TaskOK(q)'
    <2>1. CASE q = t
      BY <1>2, <2>1 DEF TaskOK, At, Initiating, Settling, Believing, Idle,
         Handler
    <2>2. CASE q # t
      <3>1. (Initiating(q) \/ Settling(q)) => task[q].on # o
        BY <1>1, <1>4, <2>2 DEF IInv, TaskOK, TasksApart, Initiating, Settling,
           InitiateGiveUp, At
      <3> QED BY <1>8, <1>1, <1>3, <1>2, <2>2, <3>1 DEF IInv, TypeOK, TaskOK,
                 InitiateGiveUp, cashfree, Status, At, Initiating, Settling,
                 Believing, CashfreeConfigured, Task
    <2> QED BY <2>1, <2>2
  <1>9. TasksApart'
    BY <1>2 DEF IInv, TasksApart, Initiating, At, Idle, Handler
  <1> QED BY <1>5, <1>6, <1>7, <1>8, <1>9 DEF IInv

LEMMA LookupKeeps ==
    ASSUME IInv, NEW t \in Tasks, Lookup(t)
    PROVE  IInv'
  <1>1. task' \in [Tasks -> Task] /\ \A q \in Tasks \ {t} : task'[q] = task[q]
    BY FinishEffect, GotoEffect DEF IInv, Lookup
  <1>2. task[t].on \in Orders
    BY AtWork DEF Lookup, At
  <1>3. TypeOK'
    BY <1>1, <1>2 DEF IInv, TypeOK, Lookup, AskAgain, wallet, vip
  <1>4. IsFiniteSet(Placed')
    BY DEF IInv, Placed, Lookup, CountsAsPaid, Status
  <1>5. ASSUME NEW r \in Orders
        PROVE  OrderOK(r)'
    BY <1>5 DEF IInv, TypeOK, OrderOK, TaskOK, TasksApart, Initiating, Settling,
       Believing, CashfreeConfigured, At, Status, Task, OrderRow, Handler, Idle,
       Lookup, CountsAsPaid, Become, Goto, Finish, SetStatus, AskAgain,
       Subscriptions, wallet, vip, cashfree
  <1>6. ASSUME NEW q \in Tasks
        PROVE  TaskOK(q)'
    <2>1. CASE q # t
      BY <1>6, <1>1, <2>1 DEF IInv, TaskOK, Lookup, wallet, Status, At,
         Initiating, Settling, Believing, CashfreeConfigured
    <2>2. CASE q = t
      <3>1. TaskOK(t) /\ At(t, "lookup") /\ task[t] \in Task
        BY DEF IInv, TypeOK, Lookup
      <3>2. \/ task'[t] = Idle
            \/ task'[t] = [task[t] EXCEPT !.at = "markFailed"]
            \/ task'[t] = [task[t] EXCEPT !.at = "claim"] /\ gateway[task[t].on] = "paid"
        BY FinishEffect, GotoEffect DEF IInv, Lookup, CountsAsPaid
      <3> QED BY <1>2, <2>2, <3>1, <3>2, PaymentConstants DEF Task, TaskOK,
                 Lookup, wallet, Status, At, Initiating, Settling, Believing,
                 CashfreeConfigured, Idle, Handler
    <2> QED BY <2>1, <2>2
  <1>7. TasksApart'
    BY PaymentConstants DEF IInv, TypeOK, OrderOK, TaskOK, TasksApart,
       Initiating, Settling, Believing, CashfreeConfigured, At, Status, Task,
       OrderRow, Handler, Idle, Lookup, CountsAsPaid, Become, Goto, Finish,
       SetStatus, AskAgain, Subscriptions, wallet, vip, cashfree
  <1> QED BY <1>3, <1>4, <1>5, <1>6, <1>7 DEF IInv

LEMMA LookupFailsKeeps ==
    ASSUME IInv, NEW t \in Tasks, LookupFails(t)
    PROVE  IInv'
  <1> DEFINE o == task[t].on
  <1>1. o \in Orders
    BY AtWork DEF LookupFails, At
  <1>2. task' \in [Tasks -> Task] /\ task'[t] = Idle /\ \A q \in Tasks \ {t} : task'[q] = task[q]
    BY FinishEffect DEF IInv, LookupFails
  <1>3. TypeOK'
    BY <1>1, <1>2 DEF IInv, TypeOK, LookupFails, AskAgain, wallet, vip
  <1>4. IsFiniteSet(Placed')
    BY DEF IInv, Placed, LookupFails, Status
  <1>5. ASSUME NEW r \in Orders
        PROVE  OrderOK(r)'
    BY <1>5 DEF IInv, TypeOK, OrderOK, TaskOK, TasksApart, Initiating, Settling,
       Believing, CashfreeConfigured, At, Status, Task, OrderRow, Handler, Idle,
       LookupFails, Become, Goto, Finish, SetStatus, AskAgain, Subscriptions,
       wallet, vip, cashfree
  <1>6. ASSUME NEW q \in Tasks
        PROVE  TaskOK(q)'
    BY PaymentConstants, <1>6 DEF IInv, TypeOK, OrderOK, TaskOK, TasksApart,
       Initiating, Settling, Believing, CashfreeConfigured, At, Status, Task,
       OrderRow, Handler, Idle, LookupFails, Become, Goto, Finish, SetStatus,
       AskAgain, Subscriptions, wallet, vip, cashfree
  <1>7. TasksApart'
    BY PaymentConstants DEF IInv, TypeOK, OrderOK, TaskOK, TasksApart,
       Initiating, Settling, Believing, CashfreeConfigured, At, Status, Task,
       OrderRow, Handler, Idle, LookupFails, Become, Goto, Finish, SetStatus,
       AskAgain, Subscriptions, wallet, vip, cashfree
  <1> QED BY <1>3, <1>4, <1>5, <1>6, <1>7 DEF IInv

LEMMA RechargeSuccessKeeps ==
    ASSUME IInv, NEW t \in Tasks, RechargeSuccess(t)
    PROVE  IInv'
  <1> DEFINE o == task[t].on
  <1>1. o \in Orders
    BY AtWork DEF RechargeSuccess, At
  <1>2. task' \in [Tasks -> Task] /\ task'[t] = Idle /\ \A q \in Tasks \ {t} : task'[q] = task[q]
    BY FinishEffect DEF IInv, RechargeSuccess
  <1>3. \/ /\ UNCHANGED <<order, wallet>>
        \/ /\ order' \in [Orders -> OrderRow]
           /\ order'[o] = [order[o] EXCEPT !.status = "success"]
           /\ \A r \in Orders \ {o} : order'[r] = order[r]
           /\ Status(o) = "created" /\ CreditUserWallet(o)
    BY <1>1, SetStatusEffect DEF IInv, RechargeSuccess
  <1>4. /\ order[o].kind = "recharge" /\ Status(o) # "none" /\ order[o] \in OrderRow
        /\ order[o].user \in Users /\ order[o].size \in Nat
        /\ order[o].recorded \/ ~CashfreeConfigured
        /\ deployment = "production" => gateway[o] = "paid"
    BY <1>1, PaymentConstants DEF IInv, TypeOK, OrderOK, TaskOK, Settling,
       Believing, RechargeSuccess, At
  <1>5. TypeOK'
    <2>1. balance' \in [Users -> Nat] /\ ledger' \subseteq Orders
      BY <1>1, <1>3, <1>4 DEF IInv, TypeOK, CreditUserWallet, wallet
    <2> QED BY <1>3, <1>2, <2>1 DEF IInv, TypeOK, RechargeSuccess, vip, cashfree
  <1>6. IsFiniteSet(Placed')
    BY <1>1, <1>3, <1>4, PlacedKept DEF Status, OrderRow, IInv, TypeOK
  <1>7. ASSUME NEW r \in Orders
        PROVE  OrderOK(r)'
    <2>1. CASE r = o
      BY <1>7, <1>3, <1>4, <2>1 DEF IInv, OrderOK, OrderRow, RechargeSuccess,
         CreditUserWallet, wallet, cashfree, Status
    <2>2. CASE r # o
      BY <1>7, <1>3, <2>2 DEF IInv, OrderOK, RechargeSuccess, CreditUserWallet,
         wallet, cashfree, Status
    <2> QED BY <2>1, <2>2
  <1>8. ASSUME NEW q \in Tasks
        PROVE  TaskOK(q)'
    <2>1. CASE q = t
      BY <1>2, <2>1 DEF TaskOK, At, Initiating, Settling, Believing, Idle,
         Handler
    <2>2. CASE q # t
      <3>1. Initiating(q) => task[q].on # o
        BY <1>8, <1>4 DEF IInv, TaskOK
      <3>2. At(q, "activate") => task[q].on # o
        BY <1>8, <1>4 DEF IInv, TaskOK
      <3>3. \A r \in Orders : /\ order'[r].recorded = order[r].recorded
                              /\ order'[r].kind = order[r].kind
                              /\ r # o => order'[r] = order[r]
                              /\ order'[r].status # order[r].status => order'[r].status = "success"
        BY <1>1, <1>3, <1>4 DEF OrderRow
      <3> QED BY <1>8, <1>1, <1>2, <1>4, <2>2, <3>1, <3>2, <3>3 DEF IInv,
                 TypeOK, TaskOK, RechargeSuccess, cashfree, wallet, Status, At,
                 Initiating, Settling, Believing, CashfreeConfigured, Task
    <2> QED BY <2>1, <2>2
  <1>9. TasksApart'
    BY <1>2 DEF IInv, TasksApart, Initiating, At, Idle, Handler
  <1> QED BY <1>5, <1>6, <1>7, <1>8, <1>9 DEF IInv

LEMMA VipClaimKeeps ==
    ASSUME IInv, NEW t \in Tasks, VipClaim(t)
    PROVE  IInv'
  <1> DEFINE o == task[t].on
  <1>1. o \in Orders
    BY AtWork DEF VipClaim, At
  <1>2. /\ task' \in [Tasks -> Task]
        /\ \A q \in Tasks \ {t} : task'[q] = task[q]
        /\ \/ task'[t] = Idle
           \/ /\ Status(o) = "created" /\ order[o].kind = "vip" /\ ~Claimed(o)
              /\ task'[t].at = "activate" /\ task'[t].on = o
    <2>1. order[o].kind = "vip" /\ ~Claimed(o) /\ task[t] \in Task
      BY DEF IInv, TypeOK, VipClaim
    <2>2. CASE Goto(t, "activate") /\ Status(o) = "created"
      BY <2>1, <2>2, GotoEffect DEF IInv, Task
    <2>3. ASSUME NEW s \in Existing(order[o].user), Status(o) = "created",
                 task' = [task EXCEPT ![t].at = "activate", ![t].existing = s, ![t].base = days[s]]
          PROVE  <1>2
      <3>1. s \in Subscriptions /\ days[s] \in Nat
        BY <2>3 DEF IInv, TypeOK, Existing
      <3> DEFINE r == [task[t] EXCEPT !.at = "activate", !.existing = s, !.base = days[s]]
      <3>2. r \in Task /\ r.at = "activate" /\ r.on = o
        BY <2>1, <3>1 DEF Task
      <3>3. task' = [task EXCEPT ![t] = r]
        BY <2>3 DEF IInv, TypeOK
      <3> HIDE DEF r
      <3> QED BY <2>1, <2>3, <3>2, <3>3, BecomeEffect DEF IInv, Become
    <2>4. CASE Finish(t)
      BY <2>4, FinishEffect DEF IInv
    <2> QED BY <2>2, <2>3, <2>4 DEF VipClaim
  <1>3. TypeOK'
    BY <1>2 DEF IInv, TypeOK, VipClaim, wallet, vip, cashfree
  <1>4. IsFiniteSet(Placed')
    BY PlacedKept DEF VipClaim, Status
  <1>5. ASSUME NEW r \in Orders
        PROVE  OrderOK(r)'
    BY <1>5 DEF IInv, OrderOK, VipClaim, wallet, cashfree, Status
  <1>6. ASSUME NEW q \in Tasks
        PROVE  TaskOK(q)'
    <2>1. CASE q # t
      <3>1. TaskOK(q) /\ task'[q] = task[q]
        BY <1>6, <1>2, <2>1 DEF IInv
      <3>2. UNCHANGED <<order, gateway, deployment>>
        BY DEF VipClaim, cashfree
      <3> QED BY <3>1, <3>2 DEF TaskOK, wallet, cashfree, Status, At,
                 Initiating, Settling, Believing, CashfreeConfigured
    <2>2. CASE q = t /\ task'[t] = Idle
      BY <2>2 DEF TaskOK, At, Initiating, Settling, Believing, Idle, Handler
    <2>3. CASE q = t /\ task'[t] # Idle
      <3>1. TaskOK(t) /\ At(t, "claim")
        BY DEF IInv, VipClaim
      <3> QED BY <1>1, <1>2, <2>3, <3>1, PaymentConstants DEF TaskOK, VipClaim,
                 wallet, cashfree, Status, At, Initiating, Settling, Believing,
                 CashfreeConfigured
    <2> QED BY <2>1, <2>2, <2>3
  <1>7. TasksApart'
    BY <1>2 DEF IInv, TasksApart, Initiating, At, Claimed, Idle, Handler
  <1> QED BY <1>3, <1>4, <1>5, <1>6, <1>7 DEF IInv

LEMMA VipActivateKeeps ==
    ASSUME IInv, NEW t \in Tasks, VipActivate(t)
    PROVE  IInv'
  <1> DEFINE o == task[t].on
  <1>1. o \in Orders
    BY AtWork DEF VipActivate, At
  <1>2. task' \in [Tasks -> Task] /\ task'[t] = Idle /\ \A q \in Tasks \ {t} : task'[q] = task[q]
    BY FinishEffect DEF IInv, VipActivate
  <1>3. /\ order' \in [Orders -> OrderRow]
        /\ order'[o] = [order[o] EXCEPT !.status = "success"]
        /\ \A r \in Orders \ {o} : order'[r] = order[r]
    BY <1>1, SetStatusEffect DEF IInv, VipActivate
  <1>4. /\ order[o].kind = "vip" /\ Status(o) = "created" /\ order[o] \in OrderRow
        /\ order[o].size \in Nat
        /\ order[o].recorded \/ ~CashfreeConfigured
        /\ deployment = "production" => gateway[o] = "paid"
    BY <1>1, PaymentConstants DEF IInv, TypeOK, OrderOK, TaskOK, Settling,
       Believing, VipActivate, At, OrderRow
  <1>5. \A q \in Tasks \ {t} : At(q, "activate") => task[q].on # o
    BY DEF IInv, TasksApart, VipActivate
  <1>6. TypeOK'
    <2>1. days' \in [Subscriptions -> Nat]
      <3>1. task[t].base + order[o].size \in Nat
        BY <1>4 DEF IInv, TypeOK, Task
      <3> QED BY <3>1 DEF IInv, TypeOK, VipActivate
    <2> QED BY <1>3, <1>2, <2>1 DEF IInv, TypeOK, VipActivate, wallet, cashfree
  <1>7. IsFiniteSet(Placed')
    BY <1>1, <1>3, <1>4, PlacedKept DEF Status, OrderRow, IInv, TypeOK
  <1>8. ASSUME NEW r \in Orders
        PROVE  OrderOK(r)'
    <2>1. CASE r = o
      BY <1>8, <1>3, <1>4, <2>1 DEF IInv, OrderOK, OrderRow, VipActivate,
         wallet, cashfree, Status
    <2>2. CASE r # o
      BY <1>8, <1>3, <2>2 DEF IInv, OrderOK, VipActivate, wallet, cashfree,
         Status
    <2> QED BY <2>1, <2>2
  <1>9. ASSUME NEW q \in Tasks
        PROVE  TaskOK(q)'
    <2>1. CASE q = t
      BY <1>2, <2>1 DEF TaskOK, At, Initiating, Settling, Believing, Idle,
         Handler
    <2>2. CASE q # t
      <3>1. Initiating(q) => task[q].on # o
        BY <1>9, <1>4 DEF IInv, TaskOK
      <3>2. \A r \in Orders : /\ order'[r].recorded = order[r].recorded
                              /\ order'[r].kind = order[r].kind
                              /\ r # o => order'[r] = order[r]
                              /\ order'[r].status # order[r].status => order'[r].status = "success"
        BY <1>1, <1>3, <1>4 DEF OrderRow
      <3> QED BY <1>9, <1>1, <1>2, <1>4, <1>5, <2>2, <3>1, <3>2 DEF IInv,
                 TypeOK, TaskOK, VipActivate, cashfree, wallet, Status, At,
                 Initiating, Settling, Believing, CashfreeConfigured, Task
    <2> QED BY <2>1, <2>2
  <1>10. TasksApart'
    BY <1>2 DEF IInv, TasksApart, Initiating, At, Idle, Handler
  <1> QED BY <1>6, <1>7, <1>8, <1>9, <1>10 DEF IInv

LEMMA MarkFailedKeeps ==
    ASSUME IInv, NEW t \in Tasks, MarkFailed(t)
    PROVE  IInv'
  <1> DEFINE o == task[t].on
  <1>1. o \in Orders
    BY AtWork DEF MarkFailed, At
  <1>2. task' \in [Tasks -> Task] /\ task'[t] = Idle /\ \A q \in Tasks \ {t} : task'[q] = task[q]
    BY FinishEffect DEF IInv, MarkFailed
  <1>3. \/ UNCHANGED order
        \/ /\ order' \in [Orders -> OrderRow]
           /\ order'[o] = [order[o] EXCEPT !.status = "failed"]
           /\ \A r \in Orders \ {o} : order'[r] = order[r]
           /\ Status(o) = "created"
    BY <1>1, SetStatusEffect DEF IInv, MarkFailed
  <1>4. /\ Status(o) # "none" /\ order[o] \in OrderRow
        /\ order[o].recorded \/ ~CashfreeConfigured
    BY <1>1 DEF IInv, TypeOK, TaskOK, Settling, MarkFailed, At
  <1>5. TypeOK'
    BY <1>3, <1>2 DEF IInv, TypeOK, MarkFailed, wallet, vip, cashfree
  <1>6. IsFiniteSet(Placed')
    BY <1>1, <1>3, <1>4, PlacedKept DEF Status, OrderRow, IInv, TypeOK
  <1>7. ASSUME NEW r \in Orders
        PROVE  OrderOK(r)'
    <2>1. CASE r = o
      BY <1>7, <1>3, <1>4, <2>1 DEF IInv, OrderOK, OrderRow, MarkFailed, wallet,
         cashfree, Status
    <2>2. CASE r # o
      BY <1>7, <1>3, <2>2 DEF IInv, OrderOK, MarkFailed, wallet, cashfree,
         Status
    <2> QED BY <2>1, <2>2
  <1>8. ASSUME NEW q \in Tasks
        PROVE  TaskOK(q)'
    <2>1. CASE q = t
      BY <1>2, <2>1 DEF TaskOK, At, Initiating, Settling, Believing, Idle,
         Handler
    <2>2. CASE q # t
      <3>1. Initiating(q) => task[q].on # o
        BY <1>8, <1>4 DEF IInv, TaskOK
      <3>2. At(q, "activate") => task[q].on # o
        BY <1>8, <1>1 DEF IInv, TypeOK, TaskOK, Claimed, MarkFailed
      <3>3. \A r \in Orders : /\ order'[r].recorded = order[r].recorded
                              /\ order'[r].kind = order[r].kind
                              /\ r # o => order'[r] = order[r]
                              /\ order'[r].status # order[r].status => order'[r].status = "failed"
        BY <1>1, <1>3, <1>4 DEF OrderRow
      <3> QED BY <1>8, <1>1, <1>2, <1>4, <2>2, <3>1, <3>2, <3>3 DEF IInv,
                 TypeOK, TaskOK, MarkFailed, cashfree, wallet, Status, At,
                 Initiating, Settling, Believing, CashfreeConfigured, Task
    <2> QED BY <2>1, <2>2
  <1>9. TasksApart'
    BY <1>2 DEF IInv, TasksApart, Initiating, At, Idle, Handler
  <1> QED BY <1>5, <1>6, <1>7, <1>8, <1>9 DEF IInv

LEMMA PollKeeps ==
    ASSUME IInv, NEW t \in Tasks, NEW o \in Orders, Poll(t, o)
    PROVE  IInv'
  <1>1. TypeOK'
    BY HandlerTyped, BecomeEffect DEF IInv, TypeOK, Poll, wallet, vip, cashfree
  <1>2. IsFiniteSet(Placed')
    BY DEF IInv, Placed, Poll, Syncable, Status
  <1>3. ASSUME NEW r \in Orders
        PROVE  OrderOK(r)'
    BY <1>3 DEF IInv, TypeOK, OrderOK, TaskOK, TasksApart, Initiating, Settling,
       Believing, CashfreeConfigured, At, Status, Task, OrderRow, Handler, Idle,
       Poll, Syncable, Become, Goto, Finish, SetStatus, AskAgain, Subscriptions,
       wallet, vip, cashfree
  <1>4. ASSUME NEW q \in Tasks
        PROVE  TaskOK(q)'
    BY PaymentConstants, <1>4 DEF IInv, TypeOK, OrderOK, TaskOK, TasksApart,
       Initiating, Settling, Believing, CashfreeConfigured, At, Status, Task,
       OrderRow, Handler, Idle, Poll, Syncable, Become, Goto, Finish, SetStatus,
       AskAgain, Subscriptions, wallet, vip, cashfree
  <1>5. TasksApart'
    BY PaymentConstants DEF IInv, TypeOK, OrderOK, TaskOK, TasksApart,
       Initiating, Settling, Believing, CashfreeConfigured, At, Status, Task,
       OrderRow, Handler, Idle, Poll, Syncable, Become, Goto, Finish, SetStatus,
       AskAgain, Subscriptions, wallet, vip, cashfree
  <1> QED BY <1>1, <1>2, <1>3, <1>4, <1>5 DEF IInv

LEMMA DevResolveKeeps ==
    ASSUME IInv, NEW t \in Tasks, NEW o \in Orders, DevResolve(t, o)
    PROVE  IInv'
  <1>1. TypeOK'
    BY HandlerTyped, BecomeEffect DEF IInv, TypeOK, DevResolve, wallet, vip,
       cashfree
  <1>2. IsFiniteSet(Placed')
    BY DEF IInv, Placed, DevResolve, Status
  <1>3. ASSUME NEW r \in Orders
        PROVE  OrderOK(r)'
    BY <1>3 DEF IInv, TypeOK, OrderOK, TaskOK, TasksApart, Initiating, Settling,
       Believing, CashfreeConfigured, At, Status, Task, OrderRow, Handler, Idle,
       DevResolve, Become, Goto, Finish, SetStatus, AskAgain, Subscriptions,
       wallet, vip, cashfree
  <1>4. ASSUME NEW q \in Tasks
        PROVE  TaskOK(q)'
    BY PaymentConstants, <1>4 DEF IInv, TypeOK, OrderOK, TaskOK, TasksApart,
       Initiating, Settling, Believing, CashfreeConfigured, At, Status, Task,
       OrderRow, Handler, Idle, DevResolve, Become, Goto, Finish, SetStatus,
       AskAgain, Subscriptions, wallet, vip, cashfree
  <1>5. TasksApart'
    BY PaymentConstants DEF IInv, TypeOK, OrderOK, TaskOK, TasksApart,
       Initiating, Settling, Believing, CashfreeConfigured, At, Status, Task,
       OrderRow, Handler, Idle, DevResolve, Become, Goto, Finish, SetStatus,
       AskAgain, Subscriptions, wallet, vip, cashfree
  <1> QED BY <1>1, <1>2, <1>3, <1>4, <1>5 DEF IInv

LEMMA WebhookArrivesKeeps ==
    ASSUME IInv, NEW t \in Tasks, NEW o \in Orders, WebhookArrives(t, o)
    PROVE  IInv'
  <1>1. TypeOK'
    BY HandlerTyped, BecomeEffect DEF IInv, TypeOK, WebhookArrives, wallet, vip
  <1>2. IsFiniteSet(Placed')
    BY DEF IInv, Placed, WebhookArrives, Syncable, Status
  <1>3. ASSUME NEW r \in Orders
        PROVE  OrderOK(r)'
    BY <1>3 DEF IInv, TypeOK, OrderOK, TaskOK, TasksApart, Initiating, Settling,
       Believing, CashfreeConfigured, At, Status, Task, OrderRow, Handler, Idle,
       WebhookArrives, Syncable, Become, Goto, Finish, SetStatus, AskAgain,
       Subscriptions, wallet, vip, cashfree
  <1>4. ASSUME NEW q \in Tasks
        PROVE  TaskOK(q)'
    BY PaymentConstants, <1>4 DEF IInv, TypeOK, OrderOK, TaskOK, TasksApart,
       Initiating, Settling, Believing, CashfreeConfigured, At, Status, Task,
       OrderRow, Handler, Idle, WebhookArrives, Syncable, Become, Goto, Finish,
       SetStatus, AskAgain, Subscriptions, wallet, vip, cashfree
  <1>5. TasksApart'
    <2>1. /\ task'[t] \in {task[t], Handler("lookup", o, TRUE)}
          /\ \A q \in Tasks \ {t} : task'[q] = task[q]
      BY HandlerTyped, BecomeEffect DEF IInv, WebhookArrives
    <2> QED BY <2>1 DEF IInv, TasksApart, Initiating, At, Handler
  <1> QED BY <1>1, <1>2, <1>3, <1>4, <1>5 DEF IInv

LEMMA PaymentFailsKeeps ==
    ASSUME IInv, NEW o \in Orders, PaymentFails(o)
    PROVE  IInv'
  <1>1. TypeOK'
    BY PaymentConstants DEF IInv, TypeOK, PaymentFails, Become, Goto, Finish,
       SetStatus, AskAgain, Subscriptions, Task, Handler, Idle, wallet, vip,
       cashfree
  <1>2. IsFiniteSet(Placed')
    BY DEF IInv, Placed, PaymentFails, Status
  <1>3. ASSUME NEW r \in Orders
        PROVE  OrderOK(r)'
    BY <1>3 DEF IInv, TypeOK, OrderOK, TaskOK, TasksApart, Initiating, Settling,
       Believing, CashfreeConfigured, At, Status, Task, OrderRow, Handler, Idle,
       PaymentFails, Become, Goto, Finish, SetStatus, AskAgain, Subscriptions,
       wallet, vip, cashfree
  <1>4. ASSUME NEW q \in Tasks
        PROVE  TaskOK(q)'
    BY PaymentConstants, <1>4 DEF IInv, TypeOK, OrderOK, TaskOK, TasksApart,
       Initiating, Settling, Believing, CashfreeConfigured, At, Status, Task,
       OrderRow, Handler, Idle, PaymentFails, Become, Goto, Finish, SetStatus,
       AskAgain, Subscriptions, wallet, vip, cashfree
  <1>5. TasksApart'
    BY PaymentConstants DEF IInv, TypeOK, OrderOK, TaskOK, TasksApart,
       Initiating, Settling, Believing, CashfreeConfigured, At, Status, Task,
       OrderRow, Handler, Idle, PaymentFails, Become, Goto, Finish, SetStatus,
       AskAgain, Subscriptions, wallet, vip, cashfree
  <1> QED BY <1>1, <1>2, <1>3, <1>4, <1>5 DEF IInv

LEMMA OrderExpiresKeeps ==
    ASSUME IInv, NEW o \in Orders, OrderExpires(o)
    PROVE  IInv'
  <1>1. TypeOK'
    BY PaymentConstants DEF IInv, TypeOK, OrderExpires, Become, Goto, Finish,
       SetStatus, AskAgain, Subscriptions, Task, Handler, Idle, wallet, vip,
       cashfree
  <1>2. IsFiniteSet(Placed')
    BY DEF IInv, Placed, OrderExpires, Status
  <1>3. ASSUME NEW r \in Orders
        PROVE  OrderOK(r)'
    BY <1>3 DEF IInv, TypeOK, OrderOK, TaskOK, TasksApart, Initiating, Settling,
       Believing, CashfreeConfigured, At, Status, Task, OrderRow, Handler, Idle,
       OrderExpires, Become, Goto, Finish, SetStatus, AskAgain, Subscriptions,
       wallet, vip, cashfree
  <1>4. ASSUME NEW q \in Tasks
        PROVE  TaskOK(q)'
    BY PaymentConstants, <1>4 DEF IInv, TypeOK, OrderOK, TaskOK, TasksApart,
       Initiating, Settling, Believing, CashfreeConfigured, At, Status, Task,
       OrderRow, Handler, Idle, OrderExpires, Become, Goto, Finish, SetStatus,
       AskAgain, Subscriptions, wallet, vip, cashfree
  <1>5. TasksApart'
    BY PaymentConstants DEF IInv, TypeOK, OrderOK, TaskOK, TasksApart,
       Initiating, Settling, Believing, CashfreeConfigured, At, Status, Task,
       OrderRow, Handler, Idle, OrderExpires, Become, Goto, Finish, SetStatus,
       AskAgain, Subscriptions, wallet, vip, cashfree
  <1> QED BY <1>1, <1>2, <1>3, <1>4, <1>5 DEF IInv

LEMMA WebhookLostKeeps ==
    ASSUME IInv, NEW o \in Orders, WebhookLost(o)
    PROVE  IInv'
  <1>1. TypeOK'
    BY PaymentConstants DEF IInv, TypeOK, WebhookLost, Become, Goto, Finish,
       SetStatus, AskAgain, Subscriptions, Task, Handler, Idle, wallet, vip,
       cashfree
  <1>2. IsFiniteSet(Placed')
    BY DEF IInv, Placed, WebhookLost, Status
  <1>3. ASSUME NEW r \in Orders
        PROVE  OrderOK(r)'
    BY <1>3 DEF IInv, TypeOK, OrderOK, TaskOK, TasksApart, Initiating, Settling,
       Believing, CashfreeConfigured, At, Status, Task, OrderRow, Handler, Idle,
       WebhookLost, Become, Goto, Finish, SetStatus, AskAgain, Subscriptions,
       wallet, vip, cashfree
  <1>4. ASSUME NEW q \in Tasks
        PROVE  TaskOK(q)'
    BY PaymentConstants, <1>4 DEF IInv, TypeOK, OrderOK, TaskOK, TasksApart,
       Initiating, Settling, Believing, CashfreeConfigured, At, Status, Task,
       OrderRow, Handler, Idle, WebhookLost, Become, Goto, Finish, SetStatus,
       AskAgain, Subscriptions, wallet, vip, cashfree
  <1>5. TasksApart'
    BY PaymentConstants DEF IInv, TypeOK, OrderOK, TaskOK, TasksApart,
       Initiating, Settling, Believing, CashfreeConfigured, At, Status, Task,
       OrderRow, Handler, Idle, WebhookLost, Become, Goto, Finish, SetStatus,
       AskAgain, Subscriptions, wallet, vip, cashfree
  <1> QED BY <1>1, <1>2, <1>3, <1>4, <1>5 DEF IInv

LEMMA PayKeeps ==
    ASSUME IInv, NEW o \in Orders, NEW how \in {"paid", "paidOther"}, Pay(o, how)
    PROVE  IInv'
  <1>1. TypeOK'
    BY PaymentConstants DEF IInv, TypeOK, Pay, Become, Goto, Finish, SetStatus,
       AskAgain, Subscriptions, Task, Handler, Idle, wallet, vip, cashfree
  <1>2. IsFiniteSet(Placed')
    BY DEF IInv, Placed, Pay, Status
  <1>3. ASSUME NEW r \in Orders
        PROVE  OrderOK(r)'
    BY <1>3 DEF IInv, TypeOK, OrderOK, TaskOK, TasksApart, Initiating, Settling,
       Believing, CashfreeConfigured, At, Status, Task, OrderRow, Handler, Idle,
       Pay, Become, Goto, Finish, SetStatus, AskAgain, Subscriptions, wallet,
       vip, cashfree
  <1>4. ASSUME NEW q \in Tasks
        PROVE  TaskOK(q)'
    BY PaymentConstants, <1>4 DEF IInv, TypeOK, OrderOK, TaskOK, TasksApart,
       Initiating, Settling, Believing, CashfreeConfigured, At, Status, Task,
       OrderRow, Handler, Idle, Pay, Become, Goto, Finish, SetStatus, AskAgain,
       Subscriptions, wallet, vip, cashfree
  <1>5. TasksApart'
    BY PaymentConstants DEF IInv, TypeOK, OrderOK, TaskOK, TasksApart,
       Initiating, Settling, Believing, CashfreeConfigured, At, Status, Task,
       OrderRow, Handler, Idle, Pay, Become, Goto, Finish, SetStatus, AskAgain,
       Subscriptions, wallet, vip, cashfree
  <1> QED BY <1>1, <1>2, <1>3, <1>4, <1>5 DEF IInv

LEMMA CancelKeeps ==
    ASSUME IInv, NEW s \in Subscriptions, CancelVipSubscription(s)
    PROVE  IInv'
  <1>1. TypeOK'
    BY PaymentConstants DEF IInv, TypeOK, CancelVipSubscription, Become, Goto,
       Finish, SetStatus, AskAgain, Subscriptions, Task, Handler, Idle, wallet,
       vip, cashfree
  <1>2. IsFiniteSet(Placed')
    BY DEF IInv, Placed, CancelVipSubscription, Status
  <1>3. ASSUME NEW r \in Orders
        PROVE  OrderOK(r)'
    BY <1>3 DEF IInv, TypeOK, OrderOK, TaskOK, TasksApart, Initiating, Settling,
       Believing, CashfreeConfigured, At, Status, Task, OrderRow, Handler, Idle,
       CancelVipSubscription, Become, Goto, Finish, SetStatus, AskAgain,
       Subscriptions, wallet, vip, cashfree
  <1>4. ASSUME NEW q \in Tasks
        PROVE  TaskOK(q)'
    BY PaymentConstants, <1>4 DEF IInv, TypeOK, OrderOK, TaskOK, TasksApart,
       Initiating, Settling, Believing, CashfreeConfigured, At, Status, Task,
       OrderRow, Handler, Idle, CancelVipSubscription, Become, Goto, Finish,
       SetStatus, AskAgain, Subscriptions, wallet, vip, cashfree
  <1>5. TasksApart'
    BY PaymentConstants DEF IInv, TypeOK, OrderOK, TaskOK, TasksApart,
       Initiating, Settling, Believing, CashfreeConfigured, At, Status, Task,
       OrderRow, Handler, Idle, CancelVipSubscription, Become, Goto, Finish,
       SetStatus, AskAgain, Subscriptions, wallet, vip, cashfree
  <1> QED BY <1>1, <1>2, <1>3, <1>4, <1>5 DEF IInv

LEMMA CrashKeeps ==
    ASSUME IInv, NEW S \in SUBSET Tasks, Crash(S)
    PROVE  IInv'
  <1>1. TypeOK'
    <2>1. task' \in [Tasks -> Task]
      BY HandlerTyped DEF IInv, TypeOK, Crash
    <2>2. \A t \in S : task[t].hook => task[t].on \in Orders
      BY DEF IInv, TypeOK, TaskOK, Task
    <2> QED BY <2>1, <2>2 DEF IInv, TypeOK, Crash, wallet, vip
  <1>2. IsFiniteSet(Placed')
    BY DEF IInv, Placed, Crash, Status
  <1>3. ASSUME NEW r \in Orders
        PROVE  OrderOK(r)'
    BY <1>3 DEF IInv, TypeOK, OrderOK, TaskOK, TasksApart, Initiating, Settling,
       Believing, CashfreeConfigured, At, Status, Task, OrderRow, Handler, Idle,
       Crash, Become, Goto, Finish, SetStatus, AskAgain, Subscriptions, wallet,
       vip, cashfree
  <1>4. ASSUME NEW q \in Tasks
        PROVE  TaskOK(q)'
    BY PaymentConstants, <1>4 DEF IInv, TypeOK, OrderOK, TaskOK, TasksApart,
       Initiating, Settling, Believing, CashfreeConfigured, At, Status, Task,
       OrderRow, Handler, Idle, Crash, Become, Goto, Finish, SetStatus,
       AskAgain, Subscriptions, wallet, vip, cashfree
  <1>5. TasksApart'
    BY PaymentConstants DEF IInv, TypeOK, OrderOK, TaskOK, TasksApart,
       Initiating, Settling, Believing, CashfreeConfigured, At, Status, Task,
       OrderRow, Handler, Idle, Crash, Become, Goto, Finish, SetStatus,
       AskAgain, Subscriptions, wallet, vip, cashfree
  <1> QED BY <1>1, <1>2, <1>3, <1>4, <1>5 DEF IInv

LEMMA StepKeeps == IInv /\ [Next]_vars => IInv'
  <1> SUFFICES ASSUME IInv, [Next]_vars
               PROVE  IInv'
    OBVIOUS
  <1>1. ASSUME NEW t \in Tasks, Initiates(t)
        PROVE  IInv'
    BY <1>1, InitiateInsertKeeps DEF Initiates
  <1>2. ASSUME NEW t \in Tasks, Continue(t)
        PROVE  IInv'
    BY <1>2, CreateCashfreeOrderKeeps, InitiateRecordKeeps, InitiateGiveUpKeeps,
       LookupKeeps, RechargeSuccessKeeps, MarkFailedKeeps, VipClaimKeeps,
       VipActivateKeeps
    DEF Continue
  <1>3. ASSUME NEW t \in Tasks, LookupFails(t)
        PROVE  IInv'
    BY <1>3, LookupFailsKeeps
  <1>4. ASSUME NEW t \in Tasks, NEW o \in Orders,
               Poll(t, o) \/ WebhookArrives(t, o) \/ DevResolve(t, o)
        PROVE  IInv'
    BY <1>4, PollKeeps, WebhookArrivesKeeps, DevResolveKeeps
  <1>5. ASSUME NEW s \in Subscriptions, CancelVipSubscription(s)
        PROVE  IInv'
    BY <1>5, CancelKeeps
  <1>6. ASSUME NEW o \in Orders,
               \/ Pay(o, "paid") \/ Pay(o, "paidOther")
               \/ PaymentFails(o) \/ OrderExpires(o) \/ WebhookLost(o)
        PROVE  IInv'
    BY <1>6, PayKeeps, PaymentFailsKeeps, OrderExpiresKeeps, WebhookLostKeeps
  <1>7. ASSUME NEW S \in SUBSET Tasks, Crash(S)
        PROVE  IInv'
    BY <1>7, CrashKeeps
  <1>8. CASE UNCHANGED vars
    BY <1>8 DEF vars, IInv, TypeOK, Placed, OrderOK, TaskOK, TasksApart,
       Initiating,
                Settling, Believing, At, Status, CashfreeConfigured
  <1> QED BY <1>1, <1>2, <1>3, <1>4, <1>5, <1>6, <1>7, <1>8 DEF Next

LEMMA InitOK == Init => IInv
  <1> SUFFICES ASSUME Init
               PROVE  IInv
    OBVIOUS
  <1>1. TypeOK
    BY PaymentConstants, HandlerTyped DEF Init, TypeOK, OrderRow, NoOrder
  <1>2. Placed = {}
    BY DEF Init, Placed, Status, NoOrder
  <1>3. IsFiniteSet(Placed)
    BY <1>2, FS_EmptySet
  <1>4. \A o \in Orders : OrderOK(o)
    BY DEF Init, OrderOK, Status, NoOrder
  <1>5. \A t \in Tasks : TaskOK(t)
    BY DEF Init, TaskOK, At, Initiating, Settling, Believing, Idle, Handler
  <1>6. TasksApart
    BY DEF Init, TasksApart, Initiating, At, Idle, Handler
  <1> QED BY <1>1, <1>3, <1>4, <1>5, <1>6 DEF IInv

THEOREM Invariance == Spec => []IInv
  BY InitOK, StepKeeps, PTL DEF Spec

\* Every row, handler and subscription stays well-formed; no balance and no
\* expiry goes below zero.
THEOREM TypeCorrect == Spec => []TypeOK
  <1>1. IInv => TypeOK
    BY DEF IInv
  <1> QED BY <1>1, Invariance, PTL

\* In production every order that succeeds has been paid in full at Cashfree,
\* whatever webhooks claim and however lookups and crashes fall (SucceededWasPaid).
THEOREM SuccessIsPaid == Spec => []SucceededWasPaid
  <1>1. IInv => SucceededWasPaid
    BY DEF IInv, OrderOK, SucceededWasPaid
  <1> QED BY <1>1, Invariance, PTL

-----------------------------------------------------------------------------
(* What a step may do to settled orders, balances and subscriptions *)

Succeeds(o) ==
    /\ Status(o) = "created"
    /\ SetStatus(o, "success")

Untouched ==
    /\ \A o \in Orders : Status(o)' = "success" => order'[o] = order[o]
    /\ UNCHANGED <<balance, days>>

\* Rows change before they are settled, and only a claim makes one a success.
LEMMA StepEffect ==
    ASSUME IInv, [Next]_vars
    PROVE  /\ \A o \in Orders :
                /\ Status(o) \in {"success", "failed"} => order'[o] = order[o]
                /\ Status(o) # "none" => order'[o].user = order[o].user
           /\ \/ Untouched
              \/ \E t \in Tasks : RechargeSuccess(t) /\ Succeeds(task[t].on)
                                  /\ CreditUserWallet(task[t].on)
              \/ \E t \in Tasks : VipActivate(t) /\ Succeeds(task[t].on)
  <1> DEFINE Kept == \A o \in Orders :
                        /\ Status(o) \in {"success", "failed"} => order'[o] = order[o]
                        /\ Status(o) # "none" => order'[o].user = order[o].user
  <1> USE DEF wallet, vip, Untouched
  <1>1. ASSUME NEW t \in Tasks, Initiates(t)
        PROVE  Kept /\ Untouched
    BY <1>1 DEF IInv, TypeOK, Initiates, InitiateInsert, Status
  <1>2. ASSUME NEW t \in Tasks, InitiateRecord(t)
        PROVE  Kept /\ Untouched
    <2>1. Status(task[t].on) = "created" /\ task[t].on \in Orders
      BY <1>2, AtWork DEF IInv, TaskOK, Initiating, InitiateRecord, At
    <2> QED BY <1>2, <2>1 DEF IInv, TypeOK, OrderRow, InitiateRecord, Status
  <1>3. ASSUME NEW t \in Tasks, InitiateGiveUp(t)
        PROVE  Kept /\ Untouched
    <2>1. Status(task[t].on) = "created" /\ task[t].on \in Orders
      BY <1>3, AtWork DEF IInv, TaskOK, Initiating, InitiateGiveUp, At
    <2>2. /\ order'[task[t].on].user = order[task[t].on].user
          /\ order'[task[t].on].status = "failed"
          /\ \A r \in Orders \ {task[t].on} : order'[r] = order[r]
      BY <1>3, <2>1, SetStatusEffect DEF IInv, InitiateGiveUp
    <2> QED BY <1>3, <2>1, <2>2 DEF InitiateGiveUp, Status
  <1>4. ASSUME NEW t \in Tasks, MarkFailed(t)
        PROVE  Kept /\ Untouched
    <2>1. task[t].on \in Orders
      BY <1>4, AtWork DEF MarkFailed, At
    <2>2. CASE UNCHANGED order
      BY <1>4, <2>2 DEF MarkFailed
    <2>3. CASE Status(task[t].on) = "created" /\ SetStatus(task[t].on, "failed")
      <3>1. /\ order'[task[t].on].user = order[task[t].on].user
            /\ order'[task[t].on].status = "failed"
            /\ \A r \in Orders \ {task[t].on} : order'[r] = order[r]
        BY <2>1, <2>3, SetStatusEffect DEF IInv
      <3> QED BY <1>4, <2>1, <2>3, <3>1 DEF MarkFailed, Status
    <2> QED BY <1>4, <2>2, <2>3 DEF MarkFailed
  <1>5. ASSUME NEW t \in Tasks, RechargeSuccess(t)
        PROVE  /\ Kept
               /\ Untouched \/ (Succeeds(task[t].on) /\ CreditUserWallet(task[t].on))
    <2>1. task[t].on \in Orders
      BY <1>5, AtWork DEF RechargeSuccess, At
    <2>2. CASE UNCHANGED <<order, wallet>>
      <3>1. UNCHANGED days
        BY <1>5 DEF RechargeSuccess
      <3> QED BY <2>2, <3>1
    <2>3. CASE Status(task[t].on) = "created" /\ SetStatus(task[t].on, "success")
               /\ CreditUserWallet(task[t].on)
      <3>1. /\ order'[task[t].on].user = order[task[t].on].user
            /\ \A r \in Orders \ {task[t].on} : order'[r] = order[r]
        BY <2>1, <2>3, SetStatusEffect DEF IInv
      <3> QED BY <2>1, <2>3, <3>1 DEF Succeeds, Status
    <2> QED BY <1>5, <2>2, <2>3 DEF RechargeSuccess
  <1>6. ASSUME NEW t \in Tasks, VipActivate(t)
        PROVE  Kept /\ Succeeds(task[t].on)
    <2>1. Status(task[t].on) = "created" /\ task[t].on \in Orders
      BY <1>6, AtWork DEF IInv, TaskOK, VipActivate, At
    <2>2. /\ order'[task[t].on].user = order[task[t].on].user
          /\ \A r \in Orders \ {task[t].on} : order'[r] = order[r]
      BY <1>6, <2>1, SetStatusEffect DEF IInv, VipActivate
    <2> QED BY <1>6, <2>1, <2>2 DEF VipActivate, Succeeds, Status
  <1>7. ASSUME UNCHANGED <<order, balance, days>>
        PROVE  Kept /\ Untouched
    BY <1>7
  <1>8. ASSUME NEW t \in Tasks, Lookup(t) \/ LookupFails(t) \/ CreateCashfreeOrder(t) \/ VipClaim(t)
        PROVE  UNCHANGED <<order, balance, days>>
    BY <1>8 DEF Lookup, LookupFails, CreateCashfreeOrder, VipClaim
  <1>9. ASSUME NEW t \in Tasks, NEW o \in Orders,
               Poll(t, o) \/ WebhookArrives(t, o) \/ DevResolve(t, o)
        PROVE  UNCHANGED <<order, balance, days>>
    BY <1>9 DEF Poll, WebhookArrives, DevResolve
  <1>10. ASSUME NEW s \in Subscriptions, CancelVipSubscription(s)
        PROVE  UNCHANGED <<order, balance, days>>
    BY <1>10 DEF CancelVipSubscription
  <1>11. ASSUME NEW o \in Orders,
               \/ Pay(o, "paid") \/ Pay(o, "paidOther")
               \/ PaymentFails(o) \/ OrderExpires(o) \/ WebhookLost(o)
        PROVE  UNCHANGED <<order, balance, days>>
    BY <1>11 DEF Pay, PaymentFails, OrderExpires, WebhookLost
  <1>12. ASSUME NEW S \in SUBSET Tasks, Crash(S)
        PROVE  UNCHANGED <<order, balance, days>>
    BY <1>12 DEF Crash
  <1>13. UNCHANGED vars => UNCHANGED <<order, balance, days>>
    BY DEF vars
  <1> HIDE DEF Kept, Untouched
  <1> QED BY <1>1, <1>2, <1>3, <1>4, <1>5, <1>6, <1>7, <1>8, <1>9, <1>10, <1>11,
             <1>12, <1>13 DEF Next, Continue, Kept

\* Nothing rewrites a settled order, though the status is written by id alone
\* in two places (SettledForGood).
THEOREM SettledStaysSettled == Spec => SettledForGood
  <1>1. IInv /\ [Next]_vars =>
            [\A o \in Orders :
                Status(o) \in {"success", "failed"} => Status(o)' = Status(o)]_vars
    BY StepEffect DEF Status
  <1> QED BY <1>1, Invariance, PTL DEF Spec, SettledForGood

-----------------------------------------------------------------------------
(* Sums over the orders that succeeded *)

LEMMA SucceededFinite ==
    ASSUME IInv, NEW u \in Users, NEW kind \in {"recharge", "vip"}
    PROVE  /\ IsFiniteSet(Succeeded(u, kind))
           /\ \A o \in Succeeded(u, kind) : [r \in Orders |-> order[r].size][o] \in Nat
  <1>1. Succeeded(u, kind) \in SUBSET Placed
    BY DEF Succeeded, Placed
  <1>2. IsFiniteSet(Succeeded(u, kind))
    BY <1>1, FS_Subset DEF IInv
  <1>3. ASSUME NEW o \in Orders
        PROVE  order[o].size \in Nat
    <2>1. order[o] \in OrderRow
      BY <1>3 DEF IInv, TypeOK
    <2>2. Sizes \cup {0} \subseteq Nat
      BY PaymentConstants
    <2> QED BY <2>1, <2>2 DEF OrderRow
  <1> QED BY <1>2, <1>3 DEF Succeeded

LEMMA DeliveredNat ==
    ASSUME IInv, NEW u \in Users, NEW kind \in {"recharge", "vip"}
    PROVE  Delivered(u, kind) \in Nat
  BY SucceededFinite, SumIsNatural DEF Delivered

LEMMA DeliveredKept ==
    ASSUME IInv, IInv', NEW u \in Users, NEW kind \in {"recharge", "vip"},
           \A o \in Orders : Status(o) = "success" => order'[o] = order[o],
           \A o \in Orders : Status(o)' = "success" => order'[o] = order[o]
    PROVE  Delivered(u, kind)' = Delivered(u, kind)
  <1> DEFINE size == [r \in Orders |-> order[r].size]
             sizeAfter == [r \in Orders |-> order'[r].size]
             S == Succeeded(u, kind)
  <1>1. Succeeded(u, kind)' = S
    BY DEF Succeeded, Status
  <1>2. \A o \in S : size[o] = sizeAfter[o]
    BY DEF Succeeded
  <1>3. IsFiniteSet(S)
    BY SucceededFinite
  <1>4. Delivered(u, kind) = SumFunctionOnSet(size, S)
    BY DEF Delivered
  <1>5. Delivered(u, kind)' = SumFunctionOnSet(sizeAfter, S)
    BY <1>1 DEF Delivered
  <1> HIDE DEF size, sizeAfter, S
  <1> QED BY <1>2, <1>3, <1>4, <1>5, SameSum

LEMMA DeliveredMore ==
    ASSUME IInv, IInv', NEW u \in Users, NEW kind \in {"recharge", "vip"},
           NEW o \in Orders, Succeeds(o)
    PROVE  Delivered(u, kind)' =
              Delivered(u, kind) + IF order[o].user = u /\ order[o].kind = kind
                                   THEN order[o].size ELSE 0
  <1> DEFINE size == [r \in Orders |-> order[r].size]
             sizeAfter == [r \in Orders |-> order'[r].size]
             S == Succeeded(u, kind)
             T == IF order[o].user = u /\ order[o].kind = kind THEN S \cup {o} ELSE S
  <1>1. /\ order'[o] = [order[o] EXCEPT !.status = "success"]
        /\ \A r \in Orders \ {o} : order'[r] = order[r]
        /\ Status(o) = "created"
        /\ order[o] \in OrderRow
    BY SetStatusEffect DEF IInv, TypeOK, Succeeds
  <1>2. Succeeded(u, kind)' = T
    BY <1>1 DEF Succeeded, Status, OrderRow
  <1>3. sizeAfter = size
    BY <1>1 DEF OrderRow
  <1>4. o \notin S
    BY <1>1 DEF Succeeded
  <1>5. IsFiniteSet(S) /\ \A r \in S : size[r] \in Nat
    BY SucceededFinite
  <1>6. size[o] = order[o].size /\ size[o] \in Nat
    BY <1>1, PaymentConstants DEF OrderRow
  <1>7. Delivered(u, kind) = SumFunctionOnSet(size, S)
    BY DEF Delivered
  <1>8. Delivered(u, kind)' = SumFunctionOnSet(sizeAfter, T)
    BY <1>2 DEF Delivered
  <1>9. SumFunctionOnSet(size, S) \in Nat
    BY <1>5, SumIsNatural
  <1> HIDE DEF size, sizeAfter, S
  <1>10. SumFunctionOnSet(size, S \cup {o}) = SumFunctionOnSet(size, S) + size[o]
    BY <1>4, <1>5, <1>6, SumWith
  <1> QED BY <1>3, <1>6, <1>7, <1>8, <1>9, <1>10

-----------------------------------------------------------------------------
(* Recharges *)

Credited ==
    \A u \in Users : balance[u] = Delivered(u, "recharge")

LEMMA CreditedStep ==
    ASSUME IInv, IInv', [Next]_vars, Credited
    PROVE  Credited'
  <1> SUFFICES ASSUME NEW u \in Users
               PROVE  balance'[u] = Delivered(u, "recharge")'
    BY DEF Credited
  <1>1. balance[u] = Delivered(u, "recharge") /\ balance[u] \in Nat
    BY DEF Credited, IInv, TypeOK
  <1>2. CASE Untouched
    <2>1. \A o \in Orders : Status(o) = "success" => order'[o] = order[o]
      BY StepEffect
    <2>2. Delivered(u, "recharge")' = Delivered(u, "recharge")
      BY <1>2, <2>1, DeliveredKept DEF Untouched
    <2> QED BY <1>1, <1>2, <2>2 DEF Untouched
  <1>3. ASSUME NEW t \in Tasks, RechargeSuccess(t), Succeeds(task[t].on),
               CreditUserWallet(task[t].on)
        PROVE  balance'[u] = Delivered(u, "recharge")'
    <2> DEFINE o == task[t].on
    <2>1. o \in Orders /\ order[o].kind = "recharge" /\ order[o].user \in Users
      BY <1>3, AtWork DEF IInv, OrderOK, RechargeSuccess, At, Succeeds
    <2>2. Delivered(u, "recharge")' = Delivered(u, "recharge")
                + IF order[o].user = u THEN order[o].size ELSE 0
      BY <1>3, <2>1, DeliveredMore
    <2>3. balance'[u] = IF order[o].user = u THEN balance[u] + order[o].size ELSE balance[u]
      BY <1>3, <2>1 DEF IInv, TypeOK, CreditUserWallet
    <2> QED BY <1>1, <2>2, <2>3
  <1>4. ASSUME NEW t \in Tasks, VipActivate(t), Succeeds(task[t].on)
        PROVE  balance'[u] = Delivered(u, "recharge")'
    <2> DEFINE o == task[t].on
    <2>1. o \in Orders /\ order[o].kind = "vip"
      BY <1>4, AtWork DEF IInv, TaskOK, VipActivate, At
    <2>2. Delivered(u, "recharge")' = Delivered(u, "recharge")
                + IF order[o].user = u /\ order[o].kind = "recharge" THEN order[o].size ELSE 0
      BY <1>4, <2>1, DeliveredMore
    <2> QED BY <1>1, <1>4, <2>1, <2>2 DEF VipActivate, wallet
  <1> QED BY <1>2, <1>3, <1>4, StepEffect

LEMMA NothingDelivered ==
    ASSUME Init, NEW u, NEW kind \in {"recharge", "vip"}
    PROVE  Delivered(u, kind) = 0
  <1>1. Succeeded(u, kind) = {}
    BY DEF Init, Succeeded, Status, NoOrder
  <1> QED BY <1>1, SumOfNone DEF Delivered

\* A wallet holds exactly the recharges that succeeded, each once, whatever
\* webhooks, polls, retries and crashes do (RechargedOnce).
THEOREM RechargesAreExact == Spec => []RechargedOnce
  <1>1. Init => Credited
    BY NothingDelivered DEF Init, Credited
  <1>2. IInv /\ IInv' /\ [Next]_vars /\ Credited => Credited'
    BY CreditedStep
  <1>3. IInv /\ Credited => RechargedOnce
    BY DEF IInv, Credited, RechargedOnce
  <1> QED BY <1>1, <1>2, <1>3, Invariance, PTL DEF Spec

-----------------------------------------------------------------------------
(* VIP days, for users who start with a subscription *)

LEMMA OwnSubscription ==
    ASSUME IInv, VipOK, InitialDays # 0, NEW u \in Users
    PROVE  Existing(u) = {u}
  <1>1. days[u] \in Nat /\ days[u] > 0
    BY DeliveredNat, PaymentConstants DEF VipOK
  <1>2. \A s \in Subscriptions : Owner(s) = u /\ days[s] > 0 <=> s = u
    BY <1>1, PaymentConstants DEF VipOK, Subscriptions, Owner
  <1> QED BY <1>1, <1>2 DEF Existing, Subscriptions

LEMMA VipActivateStep ==
    ASSUME IInv, IInv', VipOK, InitialDays # 0, NEW t \in Tasks, VipActivate(t),
           Succeeds(task[t].on)
    PROVE  VipOK'
  <1> DEFINE o == task[t].on
             u == order[o].user
  <1>1. o \in Orders /\ order[o].kind = "vip" /\ u \in Users
    BY AtWork DEF IInv, OrderOK, TaskOK, VipActivate, At
  <1>2. task[t].existing = u /\ task[t].base = days[u] /\ u # Nobody /\ u \notin Orders
    BY <1>1, PaymentConstants DEF VipOK, VipActivate
  <1>3. days' = [days EXCEPT ![u] = days[u] + order[o].size]
    BY <1>2 DEF VipActivate
  <1>4. \A r \in Orders : order'[r].user = order[r].user
    BY <1>1, SetStatusEffect DEF IInv, TypeOK, OrderRow, Succeeds
  <1>5. task'[t] = Idle /\ \A q \in Tasks \ {t} : task'[q] = task[q]
    BY FinishEffect DEF IInv, VipActivate
  <1>6. \A r \in Orders : days'[r] = 0
    BY <1>2, <1>3 DEF VipOK, IInv, TypeOK, Subscriptions
  <1>7. ASSUME NEW v \in Users
        PROVE  days'[v] = InitialDays + Delivered(v, "vip")'
    <2>1. Delivered(v, "vip")' = Delivered(v, "vip") + IF u = v THEN order[o].size ELSE 0
      BY <1>1, <1>7, DeliveredMore
    <2>2. days[v] = InitialDays + Delivered(v, "vip")
      BY <1>7 DEF VipOK
    <2>3. days'[v] = IF u = v THEN days[v] + order[o].size ELSE days[v]
      BY <1>3, <1>7, <1>1 DEF IInv, TypeOK, Subscriptions
    <2>4. Delivered(v, "vip") \in Nat /\ order[o].size \in Nat /\ InitialDays \in Nat
      BY <1>1, <1>7, DeliveredNat, PaymentConstants DEF IInv, OrderOK, Succeeds
    <2> QED BY <2>1, <2>2, <2>3, <2>4
  <1>8. ASSUME NEW q \in Tasks, At(q, "activate")'
        PROVE  /\ q # t /\ At(q, "activate")
               /\ task'[q].existing = order'[task'[q].on].user
               /\ task'[q].base = days'[task'[q].existing]
    <2>1. q # t /\ task'[q] = task[q] /\ At(q, "activate")
      BY <1>5, <1>8 DEF At, Idle, Handler
    <2>2. task[q].on \in Orders
      BY <2>1, AtWork DEF At
    <2>3. /\ task[q].existing = order[task[q].on].user
          /\ task[q].base = days[task[q].existing]
          /\ task[q].existing # u
      BY <1>2, <2>1 DEF VipOK, VipActivate
    <2>4. days'[task[q].existing] = days[task[q].existing]
      <3>1. task[q].existing \in Users
        BY <2>1, <2>2, <2>3 DEF IInv, OrderOK, TaskOK, Status
      <3> QED BY <1>3, <2>3, <3>1 DEF IInv, TypeOK, Subscriptions
    <2> QED BY <1>4, <2>1, <2>2, <2>3, <2>4
  <1>9. ASSUME NEW p \in Tasks, NEW q \in Tasks, p # q, At(p, "activate")', At(q, "activate")'
        PROVE  task'[p].existing # task'[q].existing
    BY <1>5, <1>8, <1>9 DEF VipOK
  <1> QED BY <1>6, <1>7, <1>8, <1>9 DEF VipOK

LEMMA VipClaimStep ==
    ASSUME IInv, IInv', VipOK, InitialDays # 0, NEW t \in Tasks, VipClaim(t)
    PROVE  VipOK'
  <1> DEFINE o == task[t].on
             u == order[o].user
  <1>1. o \in Orders /\ task[t] \in Task
    BY AtWork DEF IInv, TypeOK, VipClaim, At
  <1>2. UNCHANGED <<order, days>>
    BY DEF VipClaim, vip
  <1>3. \A v \in Users : Delivered(v, "vip")' = Delivered(v, "vip")
    BY <1>2, DeliveredKept
  <1>4. \A q \in Tasks \ {t} : task'[q] = task[q]
    BY DEF IInv, TypeOK, VipClaim, Goto, Finish, Become
  <1>5. CASE Finish(t)
    <2>1. ~At(t, "activate")'
      BY <1>5, FinishEffect DEF IInv, At, Idle, Handler
    <2> QED BY <1>2, <1>3, <1>4, <2>1 DEF VipOK, At
  <1>6. CASE Status(o) = "created" /\ ~Finish(t)
    <2>1. u \in Users /\ Existing(u) = {u}
      BY <1>1, <1>6, OwnSubscription DEF IInv, OrderOK
    <2>2. ~Locked(u)
      BY <1>6, <2>1 DEF VipClaim
    <2>3. /\ task'[t] = [task[t] EXCEPT !.at = "activate", !.existing = u, !.base = days[u]]
          /\ task'[t].existing = u /\ task'[t].base = days[u] /\ task'[t].on = o
      <3>1. task' = [task EXCEPT ![t].at = "activate", ![t].existing = u, ![t].base = days[u]]
        BY <1>6, <2>1 DEF VipClaim
      <3> QED BY <1>1, <3>1 DEF IInv, TypeOK, Task
    <2>4. \A q \in Tasks \ {t} : At(q, "activate") => task[q].existing # u
      BY <2>2 DEF Locked
    <2>5. ASSUME NEW q \in Tasks, At(q, "activate")'
          PROVE  /\ task'[q].existing = order[task'[q].on].user
                 /\ task'[q].base = days[task'[q].existing]
                 /\ q # t => At(q, "activate") /\ task'[q] = task[q]
      BY <1>4, <2>3, <2>5 DEF VipOK, At
    <2>6. ASSUME NEW p \in Tasks, NEW q \in Tasks, p # q,
                 At(p, "activate")', At(q, "activate")'
          PROVE  task'[p].existing # task'[q].existing
      <3>1. CASE p # t /\ q # t
        BY <2>5, <2>6, <3>1 DEF VipOK
      <3>2. CASE p = t
        BY <2>3, <2>4, <2>5, <2>6, <3>2
      <3>3. CASE q = t
        BY <2>3, <2>4, <2>5, <2>6, <3>3
      <3> QED BY <3>1, <3>2, <3>3
    <2> QED BY <1>2, <1>3, <2>5, <2>6 DEF VipOK
  <1> QED BY <1>5, <1>6 DEF VipClaim

\* The other steps neither succeed nor take a lock.
LEMMA QuietStep ==
    ASSUME IInv, IInv', VipOK, UNCHANGED days,
           \A v \in Users : Delivered(v, "vip")' = Delivered(v, "vip"),
           \A o \in Orders : Status(o) # "none" => order'[o].user = order[o].user,
           \A t \in Tasks : At(t, "activate")' => task'[t] = task[t]
    PROVE  VipOK'
  <1>1. ASSUME NEW t \in Tasks, At(t, "activate")'
        PROVE  /\ At(t, "activate")
               /\ task'[t].existing = order'[task'[t].on].user
               /\ task'[t].base = days'[task'[t].existing]
    <2>1. task'[t] = task[t] /\ At(t, "activate")
      BY <1>1 DEF At
    <2>2. task[t].on \in Orders /\ Status(task[t].on) # "none"
      BY <2>1, AtWork DEF IInv, TaskOK, At
    <2> QED BY <2>1, <2>2 DEF VipOK
  <1> QED BY <1>1 DEF VipOK

\* Only a claim takes a lock.
LEMMA NoOtherLock ==
    ASSUME IInv, [Next]_vars, NEW q \in Tasks, At(q, "activate")',
           \A t \in Tasks : ~VipClaim(t)
    PROVE  task'[q] = task[q]
  <1> USE DEF At
  <1>1. ASSUME NEW t \in Tasks, task' = task \/ Finish(t)
        PROVE  task'[q] = task[q]
    BY <1>1, FinishEffect DEF IInv, Idle, Handler
  <1>2. ASSUME NEW t \in Tasks, NEW step \in {"record", "giveUp", "claim", "markFailed"}, Goto(t, step)
        PROVE  task'[q] = task[q]
    <2>1. task \in [Tasks -> Task] /\ task'[t] = [task[t] EXCEPT !.at = step]
          /\ \A p \in Tasks \ {t} : task'[p] = task[p]
      BY <1>2, GotoEffect DEF IInv, TypeOK
    <2>2. task'[t].at = step
      BY <2>1 DEF Task
    <2> QED BY <2>1, <2>2
  <1>3. ASSUME NEW t \in Tasks, NEW step \in {"create", "lookup", "claim", "markFailed"},
               NEW o \in Orders, NEW hook \in BOOLEAN, Become(t, Handler(step, o, hook))
        PROVE  task'[q] = task[q]
    <2>1. Handler(step, o, hook) \in Task /\ Handler(step, o, hook).at # "activate"
      BY <1>3, HandlerTyped DEF Handler
    <2> QED BY <1>3, <2>1, BecomeEffect DEF IInv
  <1>4. ASSUME NEW t \in Tasks, Initiates(t)
        PROVE  task'[q] = task[q]
    BY <1>1, <1>3, <1>4 DEF Initiates, InitiateInsert
  <1>5. ASSUME NEW t \in Tasks, Continue(t)
        PROVE  task'[q] = task[q]
    BY <1>1, <1>2, <1>5 DEF Continue, CreateCashfreeOrder, InitiateRecord,
       InitiateGiveUp,
       Lookup, RechargeSuccess, MarkFailed, VipActivate
  <1>6. ASSUME NEW t \in Tasks, LookupFails(t)
        PROVE  task'[q] = task[q]
    BY <1>1, <1>6 DEF LookupFails
  <1>7. ASSUME NEW t \in Tasks, NEW o \in Orders,
               Poll(t, o) \/ WebhookArrives(t, o) \/ DevResolve(t, o)
        PROVE  task'[q] = task[q]
    BY <1>1, <1>3, <1>7 DEF Poll, WebhookArrives, DevResolve
  <1>8. ASSUME NEW S \in SUBSET Tasks, Crash(S)
        PROVE  task'[q] = task[q]
    BY <1>8 DEF Crash, Idle, Handler
  <1>9. ASSUME \/ UNCHANGED vars
               \/ \E s \in Subscriptions : CancelVipSubscription(s)
               \/ \E o \in Orders : \/ Pay(o, "paid") \/ Pay(o, "paidOther")
                                     \/ PaymentFails(o) \/ OrderExpires(o) \/ WebhookLost(o)
        PROVE  task'[q] = task[q]
    BY <1>9 DEF vars, CancelVipSubscription, Pay, PaymentFails, OrderExpires,
       WebhookLost
  <1> QED BY <1>4, <1>5, <1>6, <1>7, <1>8, <1>9 DEF Next

LEMMA VipStep ==
    ASSUME IInv, IInv', [Next]_vars, VipOK, InitialDays # 0
    PROVE  VipOK'
  <1> DEFINE Same == \A v \in Users : Delivered(v, "vip")' = Delivered(v, "vip")
  <1>1. \A o \in Orders : Status(o) # "none" => order'[o].user = order[o].user
    BY StepEffect
  <1>2. CASE \E t \in Tasks : VipClaim(t)
    BY <1>2, VipClaimStep
  <1>3. CASE Untouched /\ ~\E t \in Tasks : VipClaim(t)
    <2>1. \A o \in Orders : Status(o) = "success" => order'[o] = order[o]
      BY StepEffect
    <2>2. Same
      BY <1>3, <2>1, DeliveredKept DEF Untouched
    <2>3. \A q \in Tasks : At(q, "activate")' => task'[q] = task[q]
      BY <1>3, NoOtherLock
    <2> QED BY <1>1, <1>3, <2>2, <2>3, QuietStep DEF Untouched
  <1>4. ASSUME NEW t \in Tasks, RechargeSuccess(t), Succeeds(task[t].on),
               ~\E q \in Tasks : VipClaim(q)
        PROVE  VipOK'
    <2>1. task[t].on \in Orders /\ order[task[t].on].kind = "recharge"
      BY <1>4, AtWork DEF RechargeSuccess, At
    <2>2. Same
      <3> SUFFICES ASSUME NEW v \in Users
                   PROVE  Delivered(v, "vip")' = Delivered(v, "vip")
        OBVIOUS
      <3>1. Delivered(v, "vip")' = Delivered(v, "vip") + 0
        BY <1>4, <2>1, DeliveredMore
      <3> QED BY <3>1, DeliveredNat
    <2>3. \A q \in Tasks : At(q, "activate")' => task'[q] = task[q]
      BY <1>4, NoOtherLock
    <2> QED BY <1>1, <1>4, <2>2, <2>3, QuietStep DEF RechargeSuccess, vip
  <1>5. ASSUME NEW t \in Tasks, VipActivate(t), Succeeds(task[t].on)
        PROVE  VipOK'
    BY <1>5, VipActivateStep
  <1> QED BY <1>2, <1>3, <1>4, <1>5, StepEffect

LEMMA VipDelivered ==
    ASSUME IInv, VipOK
    PROVE  VipDaysDelivered
  <1> SUFFICES ASSUME NEW u \in Users
               PROVE  Max({days[s] : s \in {r \in Subscriptions : Owner(r) = u}})
                         = InitialDays + Delivered(u, "vip")
    BY DEF VipDaysDelivered
  <1> DEFINE D == {days[s] : s \in {r \in Subscriptions : Owner(r) = u}}
  <1>1. days[u] \in Nat /\ days[u] \in D
    BY DEF IInv, TypeOK, Subscriptions, Owner
  <1>2. \A d \in D : d = days[u] \/ d = 0
    BY DEF VipOK, Subscriptions, Owner
  <1> HIDE DEF D
  <1>3. Max(D) \in D /\ \A d \in D : Max(D) >= d
    <2>1. \E x \in D : \A d \in D : x >= d
      BY <1>1, <1>2
    <2> QED BY <2>1 DEF Max
  <1>4. Max(D) = days[u]
    BY <1>1, <1>2, <1>3
  <1> QED BY <1>4 DEF VipOK, D

\* A user who has a subscription when the behaviour starts is a VIP for every
\* day paid for, however purchases overlap: the row is there to be locked.
\* Without one, payments_first_vip shows days lost (VipDaysDelivered).
THEOREM VipDaysAddUp == (InitialDays # 0) => (Spec => []VipDaysDelivered)
  <1> SUFFICES ASSUME InitialDays # 0
               PROVE  Spec => []VipDaysDelivered
    OBVIOUS
  <1>1. Init => VipOK
    <2> SUFFICES ASSUME Init
                 PROVE  VipOK
      OBVIOUS
    <2>1. \A u \in Users : Delivered(u, "vip") = 0
      BY NothingDelivered
    <2> QED BY <2>1, PaymentConstants DEF Init, VipOK, Subscriptions, At, Idle,
               Handler
  <1>2. IInv /\ IInv' /\ [Next]_vars /\ VipOK => VipOK'
    BY VipStep
  <1>3. IInv /\ VipOK => VipDaysDelivered
    BY VipDelivered
  <1> QED BY <1>1, <1>2, <1>3, Invariance, PTL DEF Spec

=============================================================================
