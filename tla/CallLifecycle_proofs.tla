------------------------ MODULE CallLifecycle_proofs ------------------------
(***************************************************************************)
(* What holds of CallLifecycle for any number of calls, parties, handlers  *)
(* in flight and crashes, with and without Redis.                          *)
(***************************************************************************)
EXTENDS CallLifecycle, Sums, TLAPS

-----------------------------------------------------------------------------
(* The price of a tick *)

\* A tick costs at least one paisa (Math.max(1, ...)).
LEMMA TickCostPositive ==
    ASSUME NEW rate \in Nat
    PROVE  TickCost(rate) \in Nat \ {0}
  <1> DEFINE r == (rate * TickSeconds + 30) \div 60
  <1>1. r \in Int
    BY DEF TickSeconds
  <1>2. TickCost(rate) = IF r < 1 THEN 1 ELSE r
    BY DEF TickCost
  <1> HIDE DEF r
  <1> QED BY <1>1, <1>2

\* The commission never exceeds what it is taken from.
LEMMA CommissionBounded ==
    ASSUME NEW cost \in Nat
    PROVE  CommissionOn(cost) \in 0..cost
  <1>1. Commission \in 0..10000
    BY CallConstants
  <1>2. cost * Commission \in 0..(cost * 10000)
    BY <1>1
  <1> DEFINE p == cost * Commission
  <1>3. p \in Nat /\ p <= cost * 10000
    BY <1>2
  <1> HIDE DEF p
  <1>4. p \div 10000 \in 0..cost
    BY <1>3
  <1> QED BY <1>4 DEF CommissionOn, p

\* So a host never earns a negative number of beans from a tick.
LEMMA TickBeansNat ==
    ASSUME NEW rate \in Nat
    PROVE  TickBeans(rate) \in Nat
  <1> DEFINE net == TickCost(rate) - CommissionOn(TickCost(rate))
  <1>1. net \in Nat
    BY TickCostPositive, CommissionBounded
  <1>2. PaisePerBean \in Nat \ {0}
    BY CallConstants
  <1> HIDE DEF net
  <1>3. net \div PaisePerBean \in Nat
    BY <1>1, <1>2
  <1> QED BY <1>3 DEF TickBeans, net

\* One more tick at price k, on top of n of them.
LEMMA OneMoreTick ==
    ASSUME NEW n \in Nat, NEW k \in Nat
    PROVE  n * k \in Nat /\ (n + 1) * k = n * k + k
  OBVIOUS

-----------------------------------------------------------------------------
(* The inductive invariant *)

Placed(c) == call[c].status # "none"

\* A row is untouched, or was inserted whole by initiateCall.
RowOK(c) ==
    \/ call[c] = NoRow
    \/ /\ Placed(c)
       /\ call[c].user \in Users
       /\ call[c].host \in Hosts
       /\ call[c].rate \in Rates

\* A call's totals follow from its tick count, and its ledger keys are 1..ticks.
TotalsOK(c) ==
    /\ call[c].paise = call[c].ticks * TickCost(call[c].rate)
    /\ call[c].beans = call[c].ticks * TickBeans(call[c].rate)
    /\ \A n \in Nat : <<c, n>> \in ledger <=> n \in 1..call[c].ticks

\* Handlers between calls, and the reaper between two updates, name no call.
Unbound == {"idle", "reapRinging", "reapOngoing"}

\* A handler past its first step works on a call that exists; one that places a
\* call has the id to itself.
TaskOK(t) ==
    /\ IF task[t].at \in Unbound THEN task[t].call = Nobody ELSE task[t].call \in Calls
    /\ \A c \in task[t].todo : Placed(c)
    /\ task[t].at \notin Unbound \cup InitiateSteps => Placed(task[t].call)
    /\ task[t].at \in InitiateSteps =>
        /\ call[task[t].call] = NoRow
        /\ \A s \in Tasks : task[s].call = task[t].call => s = t
        /\ \E u \in Users, h \in Hosts, r \in Rates :
            task[t].row = Draft(u, h, r)

\* What a tick remembers of its call is an earlier version of the row: the
\* parties and the price never change, and the totals were right for the count.
TickOK(t) ==
    task[t].at = "tick" =>
        LET row == task[t].row
            now == call[task[t].call]
        IN  /\ row.user = now.user
            /\ row.host = now.host
            /\ row.rate = now.rate
            /\ row.ticks <= now.ticks
            /\ row.paise = row.ticks * TickCost(row.rate)
            /\ row.beans = row.ticks * TickBeans(row.rate)

RowsOK == \A c \in Calls : RowOK(c) /\ TotalsOK(c)
TimersOK == \A c \in Calls : billing[c] > 0 => Placed(c)
TasksOK == \A t \in Tasks : TaskOK(t) /\ TickOK(t)

IInv == TypeOK /\ RowsOK /\ TimersOK /\ TasksOK

-----------------------------------------------------------------------------
(* How a step may change rows and tasks *)

\* A placed call stays placed, with its parties and price, and its count never
\* falls; the other rows are left alone.
RowsKeep ==
    \A c \in Calls :
        IF Placed(c)
        THEN /\ call'[c].status # "none"
             /\ call'[c].user = call[c].user
             /\ call'[c].host = call[c].host
             /\ call'[c].rate = call[c].rate
             /\ call'[c].ticks \in Nat
             /\ call[c].ticks <= call'[c].ticks
        ELSE call'[c] = call[c]

\* What a handler may remember when it is not placing a call.
GoodTask(r) ==
    /\ r \in Task
    /\ r.at \notin InitiateSteps
    /\ IF r.at \in Unbound THEN r.call = Nobody ELSE r.call \in Calls /\ Placed(r.call)
    /\ \A c \in r.todo : Placed(c)
    /\ r.at = "tick" =>
        /\ r.row.user = call[r.call].user
        /\ r.row.host = call[r.call].host
        /\ r.row.rate = call[r.call].rate
        /\ r.row.ticks <= call[r.call].ticks
        /\ r.row.paise = r.row.ticks * TickCost(r.row.rate)
        /\ r.row.beans = r.row.ticks * TickBeans(r.row.rate)

LEMMA NoRowType == NoRow \in CallRow
  BY DEF NoRow, CallRow, Statuses, Reasons

LEMMA PendingType ==
    ASSUME NEW step \in Steps, NEW c \in Calls \cup {Nobody}
    PROVE  Pending(step, c) \in Task
  BY NoRowType DEF Pending, Task, Reasons

LEMMA IdleType == Idle \in Task
  BY PendingType DEF Idle, Steps

LEMMA GoodIdle == GoodTask(Idle)
  BY IdleType DEF GoodTask, Idle, Pending, InitiateSteps, Unbound

LEMMA GoodPending ==
    ASSUME NEW step \in Steps \ ({"tick"} \cup Unbound \cup InitiateSteps),
           NEW c \in Calls, Placed(c)
    PROVE  GoodTask(Pending(step, c))
  BY PendingType DEF GoodTask, Pending

\* A handler in flight that is neither placing a call nor ticking may go on to
\* any later step of the same kind.
LEMMA GoodOld ==
    ASSUME IInv, NEW t \in Tasks, task[t].at \notin InitiateSteps
    PROVE  GoodTask(task[t])
  BY DEF IInv, TypeOK, TasksOK, TaskOK, TickOK, GoodTask

\* One handler moves on; whatever the others remember stays true.
LEMMA OneTaskMoves ==
    ASSUME IInv, NEW t \in Tasks, NEW r, GoodTask(r), RowsKeep,
           task' = [task EXCEPT ![t] = r]
    PROVE  TasksOK' /\ task' \in [Tasks -> Task]
  <1>1. task' \in [Tasks -> Task]
    BY DEF IInv, TypeOK, GoodTask
  <1>2. ASSUME NEW s \in Tasks PROVE (TaskOK(s) /\ TickOK(s))'
    <2>0. task[s] \in Task /\ call \in [Calls -> CallRow] /\ NoRow.status = "none"
      BY DEF IInv, TypeOK, NoRow
    <2>1. CASE s = t
      <3>1. task'[s] = r
        BY <2>1 DEF IInv, TypeOK
      <3>2. r.at \notin Unbound => r.call \in Calls /\ Placed(r.call) /\ Placed(r.call)'
        BY DEF GoodTask, RowsKeep, Placed
      <3>3. \A c \in r.todo : Placed(c)'
        BY DEF GoodTask, RowsKeep, Placed, Task
      <3>4. TaskOK(s)'
        BY <3>1, <3>2, <3>3 DEF TaskOK, GoodTask
      <3>5. ASSUME r.at = "tick" PROVE TickOK(s)'
        <4>1. r.call \in Calls /\ Placed(r.call)
          BY <3>5 DEF GoodTask, Unbound
        <4>2. /\ call'[r.call].user = call[r.call].user
              /\ call'[r.call].host = call[r.call].host
              /\ call'[r.call].rate = call[r.call].rate
              /\ call'[r.call].ticks \in Nat
              /\ call[r.call].ticks <= call'[r.call].ticks
          BY <4>1 DEF RowsKeep
        <4>3. r.row.ticks \in Nat /\ call[r.call].ticks \in Nat
          BY <4>1, <2>0 DEF GoodTask, Task, CallRow
        <4> QED BY <3>1, <3>5, <4>1, <4>2, <4>3 DEF TickOK, GoodTask
      <3>6. r.at # "tick" => TickOK(s)'
        BY <3>1 DEF TickOK
      <3> QED BY <3>4, <3>5, <3>6
    <2>2. CASE s # t
      <3>1. task'[s] = task[s]
        BY <2>2 DEF IInv, TypeOK
      <3>2. TaskOK(s) /\ TickOK(s)
        BY DEF IInv, TasksOK
      <3>3. \A c \in task[s].todo : Placed(c)'
        BY <2>0, <3>2 DEF TaskOK, RowsKeep, Placed, Task
      <3>4. task[s].at \notin Unbound => task[s].call \in Calls
        BY <3>2 DEF TaskOK
      <3>5. ASSUME task[s].at \notin Unbound \cup InitiateSteps
            PROVE  call'[task[s].call].status # "none"
        <4>1. task[s].call \in Calls /\ Placed(task[s].call)
          BY <3>2, <3>4, <3>5 DEF TaskOK
        <4> QED BY <4>1 DEF RowsKeep
      <3>6. ASSUME task[s].at \in InitiateSteps
            PROVE  /\ call'[task[s].call] = NoRow
                   /\ \A q \in Tasks : task'[q].call = task[s].call => q = s
        <4>1. call[task[s].call] = NoRow /\ task[s].call \in Calls
          BY <3>2, <3>4, <3>6 DEF TaskOK, Unbound, InitiateSteps
        <4>2. ~Placed(task[s].call)
          BY <4>1, <2>0 DEF Placed
        <4>3. call'[task[s].call] = NoRow
          BY <4>1, <4>2 DEF RowsKeep
        <4>4. r.call # task[s].call
          BY <4>1, <4>2, CallConstants DEF GoodTask
        <4>5. \A q \in Tasks : task'[q].call = task[s].call => q = s
          BY <4>4, <3>2, <3>6 DEF TaskOK, IInv, TypeOK
        <4> QED BY <4>3, <4>5
      <3>7. TaskOK(s)'
        BY <3>1, <3>2, <3>3, <3>4, <3>5, <3>6 DEF TaskOK, Placed
      <3>8. ASSUME task[s].at = "tick" PROVE TickOK(s)'
        <4>1. task[s].call \in Calls /\ Placed(task[s].call)
          BY <3>2, <3>8 DEF TaskOK, Unbound, InitiateSteps
        <4>2. /\ call'[task[s].call].user = call[task[s].call].user
              /\ call'[task[s].call].host = call[task[s].call].host
              /\ call'[task[s].call].rate = call[task[s].call].rate
              /\ call'[task[s].call].ticks \in Nat
              /\ call[task[s].call].ticks <= call'[task[s].call].ticks
          BY <4>1 DEF RowsKeep
        <4>3. task[s].row.ticks \in Nat /\ call[task[s].call].ticks \in Nat
          BY <4>1, <2>0 DEF Task, CallRow
        <4> QED BY <3>1, <3>2, <3>8, <4>1, <4>2, <4>3 DEF TickOK
      <3>9. task[s].at # "tick" => TickOK(s)'
        BY <3>1 DEF TickOK
      <3> QED BY <3>7, <3>8, <3>9
    <2> QED BY <2>1, <2>2
  <1> QED BY <1>1, <1>2 DEF TasksOK

-----------------------------------------------------------------------------
(* Kinds of steps *)

\* No row and no ledger entry changes.
LEMMA SameRows ==
    ASSUME IInv, UNCHANGED <<call, ledger>>
    PROVE  RowsKeep /\ RowsOK' /\ call' \in [Calls -> CallRow]
  <1>1. call \in [Calls -> CallRow] /\ call' = call /\ ledger' = ledger
    BY DEF IInv, TypeOK
  <1>2. RowsKeep
    BY <1>1 DEF RowsKeep, Placed, CallRow
  <1>3. RowsOK'
    BY <1>1 DEF IInv, RowsOK, RowOK, TotalsOK, Placed
  <1> QED BY <1>1, <1>2, <1>3

\* One placed call gets a new status and reason, by an UPDATE that sets no other
\* column.
LEMMA StatusRows ==
    ASSUME IInv, NEW c \in Calls, Placed(c),
           NEW status \in Statuses \ {"none"}, NEW reason \in Reasons,
           call' = [call EXCEPT ![c].status = status, ![c].reason = reason],
           UNCHANGED ledger
    PROVE  RowsKeep /\ RowsOK' /\ call' \in [Calls -> CallRow]
  <1>1. call \in [Calls -> CallRow]
    BY DEF IInv, TypeOK
  <1>2. call' \in [Calls -> CallRow]
    <2>1. \A r \in CallRow : [r EXCEPT !.status = status, !.reason = reason] \in CallRow
      BY DEF CallRow
    <2>2. PICK row : row = [call[c] EXCEPT !.status = status, !.reason = reason]
      OBVIOUS
    <2>3. row \in CallRow
      BY <1>1, <2>1, <2>2
    <2>4. call' = [call EXCEPT ![c] = row]
      BY <1>1, <2>2
    <2> QED BY <1>1, <2>3, <2>4
  <1>3. /\ \A d \in Calls \ {c} : call'[d] = call[d]
        /\ call'[c].status = status
        /\ call'[c].user = call[c].user
        /\ call'[c].host = call[c].host
        /\ call'[c].rate = call[c].rate
        /\ call'[c].ticks = call[c].ticks
        /\ call'[c].paise = call[c].paise
        /\ call'[c].beans = call[c].beans
    BY <1>1 DEF CallRow
  <1>4. RowsKeep
    <2>1. call[c].ticks \in Nat
      BY <1>1 DEF CallRow
    <2>2. \A d \in Calls : call[d].ticks \in Nat
      BY <1>1 DEF CallRow
    <2>3. status # "none"
      OBVIOUS
    <2> SUFFICES ASSUME NEW d \in Calls
                 PROVE  IF Placed(d)
                        THEN /\ call'[d].status # "none"
                             /\ call'[d].user = call[d].user
                             /\ call'[d].host = call[d].host
                             /\ call'[d].rate = call[d].rate
                             /\ call'[d].ticks \in Nat
                             /\ call[d].ticks <= call'[d].ticks
                        ELSE call'[d] = call[d]
      BY DEF RowsKeep
    <2>4. CASE d = c
      BY <1>3, <2>1, <2>3, <2>4
    <2>5. CASE d # c
      <3>1. call'[d] = call[d]
        BY <1>3, <2>5
      <3>2. call[d].ticks \in Nat /\ call[d].ticks <= call[d].ticks
        BY <2>2
      <3> QED BY <3>1, <3>2 DEF Placed
    <2> QED BY <2>4, <2>5
  <1>5. ASSUME NEW d \in Calls PROVE (RowOK(d) /\ TotalsOK(d))'
    <2>1. RowOK(d) /\ TotalsOK(d)
      BY DEF IInv, RowsOK
    <2>2. CASE d # c
      BY <1>3, <2>1, <2>2 DEF RowOK, TotalsOK, Placed
    <2>3. CASE d = c
      <3>1. call[c] # NoRow
        BY DEF Placed, NoRow
      <3> QED BY <1>3, <2>1, <2>3, <3>1 DEF RowOK, TotalsOK, Placed
    <2> QED BY <2>2, <2>3
  <1> QED BY <1>2, <1>4, <1>5 DEF RowsOK

\* What a step leaves to show about the variables no invariant ties together.
SideTypes ==
    /\ bill' \in [Calls -> Nat]
    /\ busy' \in [Hosts -> BOOLEAN]
    /\ billing' \in [Calls -> Nat]
    /\ \A c \in Calls : billing'[c] > 0 => Placed(c)
    /\ ringTimer' \subseteq Calls
    /\ ticking' \subseteq Calls
    /\ stale' \subseteq Calls
    /\ crashes' \in Nat

LEMMA SidesUnchanged ==
    ASSUME IInv, UNCHANGED <<bill, busy, billing, ringTimer, ticking, stale, crashes>>
    PROVE  SideTypes
  BY DEF IInv, TypeOK, TimersOK, SideTypes

\* Put the parts together.
LEMMA Assemble ==
    ASSUME IInv, RowsKeep, RowsOK', call' \in [Calls -> CallRow], SideTypes,
           wallet' \in [Users -> Nat], hostBeans' \in [Hosts -> Nat],
           ledger' \subseteq Calls \X Nat,
           TasksOK', task' \in [Tasks -> Task]
    PROVE  IInv'
  <1>1. TypeOK'
    BY DEF TypeOK, SideTypes
  <1>2. TimersOK'
    BY DEF TimersOK, SideTypes, RowsKeep, Placed
  <1> QED BY <1>1, <1>2 DEF IInv

\* A handler moves on and no row changes.
LEMMA QuietStep ==
    ASSUME IInv, NEW t \in Tasks, NEW r, GoodTask(r), Become(t, r),
           UNCHANGED <<call, money>>, SideTypes
    PROVE  IInv'
  <1>1. RowsKeep /\ RowsOK' /\ call' \in [Calls -> CallRow]
    BY SameRows DEF money
  <1>2. TasksOK' /\ task' \in [Tasks -> Task]
    BY <1>1, OneTaskMoves DEF Become
  <1> QED BY <1>1, <1>2, Assemble DEF IInv, TypeOK, money

\* A handler moves on and writes the status of one call.
LEMMA StatusStep ==
    ASSUME IInv, NEW t \in Tasks, NEW r, GoodTask(r), Become(t, r),
           NEW c \in Calls, Placed(c),
           NEW status \in Statuses \ {"none"}, NEW reason \in Reasons,
           call' = [call EXCEPT ![c].status = status, ![c].reason = reason],
           UNCHANGED money, SideTypes
    PROVE  IInv'
  <1>1. RowsKeep /\ RowsOK' /\ call' \in [Calls -> CallRow]
    BY StatusRows DEF money
  <1>2. TasksOK' /\ task' \in [Tasks -> Task]
    BY <1>1, OneTaskMoves DEF Become
  <1> QED BY <1>1, <1>2, Assemble DEF IInv, TypeOK, money

-----------------------------------------------------------------------------
(* What handlers remember *)

\* A handler past its first step, other than one placing a call, is about a call.
LEMMA InFlight ==
    ASSUME IInv, NEW t \in Tasks, task[t].at \notin Unbound \cup InitiateSteps
    PROVE  /\ task[t].call \in Calls
           /\ Placed(task[t].call)
  BY DEF IInv, TasksOK, TaskOK

LEMMA TaskType ==
    ASSUME IInv, NEW t \in Tasks
    PROVE  /\ task[t] \in Task
           /\ task[t].row \in CallRow
           /\ task[t].reason \in Reasons
           /\ task[t].todo \subseteq Calls
           /\ \A c \in task[t].todo : Placed(c)
  BY DEF IInv, TypeOK, Task, TasksOK, TaskOK

LEMMA GoodGoto ==
    ASSUME IInv, NEW t \in Tasks, task[t].at \notin Unbound \cup InitiateSteps,
           NEW step \in Steps \ ({"tick"} \cup Unbound \cup InitiateSteps),
           Goto(t, step)
    PROVE  \E r : GoodTask(r) /\ Become(t, r)
  <1> DEFINE r == [task[t] EXCEPT !.at = step]
  <1>1. /\ r \in Task
        /\ r.at = step
        /\ r.call = task[t].call
        /\ r.todo = task[t].todo
    BY TaskType DEF Task
  <1>2. Become(t, r)
    BY DEF Become, Goto, IInv, TypeOK
  <1> HIDE DEF r
  <1>3. GoodTask(r)
    BY <1>1, InFlight, TaskType DEF GoodTask
  <1> QED BY <1>2, <1>3

LEMMA GoodAfterTick ==
    ASSUME IInv, NEW t \in Tasks, task[t].at \notin Unbound \cup InitiateSteps,
           AfterTick(t)
    PROVE  \E r : GoodTask(r) /\ Become(t, r)
  <1>1. "chain" \in Steps \ ({"tick"} \cup Unbound \cup InitiateSteps)
    BY DEF Steps, TickSteps, Unbound, InitiateSteps
  <1>2. GoodTask(Pending("chain", task[t].call))
    BY <1>1, InFlight, GoodPending
  <1> QED BY <1>2, GoodIdle DEF AfterTick, Finish

LEMMA GoodReaping ==
    ASSUME NEW step \in {"reapRinging", "reapOngoing", "reapBusyOff"},
           NEW c \in Calls \cup {Nobody},
           IF step = "reapBusyOff" THEN c \in Calls /\ Placed(c) ELSE c = Nobody,
           NEW selected \in SUBSET Calls, \A d \in selected : Placed(d)
    PROVE  GoodTask(Reaping(step, c, selected))
  <1>1. step \in Steps
    BY DEF Steps
  <1>2. Pending(step, c) \in Task
    BY <1>1, PendingType
  <1>3. /\ Reaping(step, c, selected) \in Task
        /\ Reaping(step, c, selected).at = step
        /\ Reaping(step, c, selected).call = c
        /\ Reaping(step, c, selected).todo = selected
    BY <1>2 DEF Reaping, Pending, Task
  <1> QED BY <1>3 DEF GoodTask, Unbound, InitiateSteps

\* A stopped or consumed timer leaves no timer on a call that was never placed.
LEMMA StopBillingOK ==
    ASSUME IInv, NEW c \in Calls, StopBilling(c)
    PROVE  /\ billing' \in [Calls -> Nat]
           /\ \A d \in Calls : billing'[d] > 0 => Placed(d)
  BY DEF IInv, TypeOK, TimersOK, StopBilling

LEMMA TakeTickOK ==
    ASSUME IInv, NEW c \in Calls, billing[c] > 0, TakeTick(c)
    PROVE  /\ billing' \in [Calls -> Nat]
           /\ \A d \in Calls : billing'[d] > 0 => Placed(d)
  <1>1. billing \in [Calls -> Nat] /\ Placed(c)
    BY DEF IInv, TypeOK, TimersOK
  <1>2. billing[c] - 1 \in Nat
    BY <1>1
  <1> QED BY <1>1, <1>2 DEF TakeTick, IInv, TimersOK

\* One more timer on a placed call.
LEMMA MoreBillingOK ==
    ASSUME IInv, NEW c \in Calls, Placed(c), NEW n \in Nat,
           billing' = [billing EXCEPT ![c] = n]
    PROVE  /\ billing' \in [Calls -> Nat]
           /\ \A d \in Calls : billing'[d] > 0 => Placed(d)
  BY DEF IInv, TypeOK, TimersOK

-----------------------------------------------------------------------------
(* Every action preserves the invariant: a handler's first step *)

LEMMA ReadsPreserve ==
    ASSUME IInv, NEW t \in Tasks, NEW c \in Calls,
           \/ AcceptRead(t, c) \/ RejectRead(t, c) \/ HangUpRead(t, c)
           \/ AdminRead(t, c) \/ LostRead(t, c)
    PROVE  IInv'
  <1>1. Placed(c)
    BY DEF OnlyTaskMoves, AcceptRead, RejectRead, HangUpRead, AdminRead, LostRead, Placed
  <1>2. SideTypes
    BY SidesUnchanged DEF OnlyTaskMoves, AcceptRead, RejectRead, HangUpRead, AdminRead, LostRead
  <1>3. UNCHANGED <<call, money>>
    BY DEF OnlyTaskMoves, AcceptRead, RejectRead, HangUpRead, AdminRead, LostRead
  <1>4. \A step \in {"accept", "reject", "cancel", "hangUp", "adminCancel",
                     "adminEnd", "lost"} :
            step \in Steps \ ({"tick"} \cup Unbound \cup InitiateSteps)
    BY DEF Steps, Unbound, InitiateSteps
  <1>5. \A step \in {"accept", "reject", "cancel", "hangUp", "adminCancel",
                     "adminEnd", "lost"} : GoodTask(Pending(step, c))
    BY <1>1, <1>4, GoodPending
  <1>6. ASSUME NEW by \in {"ended_by_user", "ended_by_host"}
        PROVE  GoodTask([Pending("hangUp", c) EXCEPT !.reason = by])
    <2> DEFINE r == [Pending("hangUp", c) EXCEPT !.reason = by]
    <2>1. GoodTask(Pending("hangUp", c)) /\ by \in Reasons
      BY <1>5 DEF Reasons
    <2>2. /\ r \in Task
          /\ r.at = "hangUp"
          /\ r.call = c
          /\ r.todo = {}
      BY <2>1 DEF GoodTask, Task, Pending
    <2> HIDE DEF r
    <2>3. GoodTask(r)
      BY <1>1, <2>2 DEF GoodTask, Unbound, InitiateSteps
    <2> QED BY <2>3 DEF r
  <1>7. \E r : GoodTask(r) /\ Become(t, r)
    BY <1>5, <1>6 DEF OnlyTaskMoves, AcceptRead, RejectRead, HangUpRead, AdminRead, LostRead
  <1> QED BY <1>2, <1>3, <1>7, QuietStep

LEMMA TimersPreserve ==
    ASSUME IInv, NEW t \in Tasks, NEW c \in Calls, TimerFires(t, c)
    PROVE  IInv'
  <1>0. task[t].at = "idle"
    BY DEF TimerFires, RingFires, TickFires, TickSkipped, At
  <1>1. CASE TickFires(t, c)
    <2> DEFINE r == [Pending("tick", c) EXCEPT !.row = call[c]]
    <2>1. billing[c] > 0 /\ Placed(c) /\ Become(t, r)
      BY <1>1 DEF TickFires, IInv, TimersOK
    <2>2. call[c] \in CallRow /\ "tick" \in Steps
      BY DEF IInv, TypeOK, Steps, TickSteps
    <2>3. Pending("tick", c) \in Task
      BY <2>2, PendingType
    <2>4. /\ r \in Task
          /\ r.at = "tick"
          /\ r.call = c
          /\ r.row = call[c]
          /\ r.todo = {}
      BY <2>2, <2>3 DEF Task, Pending
    <2>5. TotalsOK(c) /\ call[c].ticks \in Nat
      BY <2>2 DEF IInv, RowsOK, CallRow
    <2> HIDE DEF r
    <2>6. GoodTask(r)
      BY <2>1, <2>4, <2>5 DEF GoodTask, TotalsOK, Unbound, InitiateSteps
    <2>7. SideTypes
      <3>1. /\ billing' \in [Calls -> Nat]
            /\ \A d \in Calls : billing'[d] > 0 => Placed(d)
        BY <1>1, <2>1, TakeTickOK DEF TickFires
      <3> QED BY <1>1, <3>1 DEF TickFires, SideTypes, IInv, TypeOK
    <2> QED BY <1>1, <2>1, <2>6, <2>7, QuietStep DEF TickFires
  <1>2. CASE TickSkipped(t, c)
    <2>1. Placed(c) /\ billing[c] > 0
      BY <1>2 DEF TickSkipped, IInv, TimersOK
    <2>2. "chain" \in Steps \ ({"tick"} \cup Unbound \cup InitiateSteps)
      BY DEF Steps, TickSteps, Unbound, InitiateSteps
    <2>3. GoodTask(Pending("chain", c))
      BY <2>1, <2>2, GoodPending
    <2>4. SideTypes
      <3>1. /\ billing' \in [Calls -> Nat]
            /\ \A d \in Calls : billing'[d] > 0 => Placed(d)
        BY <1>2, <2>1, TakeTickOK DEF TickSkipped
      <3> QED BY <1>2, <3>1 DEF TickSkipped, SideTypes, IInv, TypeOK
    <2> QED BY <1>2, <2>3, <2>4, QuietStep DEF TickSkipped
  <1>3. CASE RingFires(t, c)
    <2>1. SideTypes
      BY <1>3 DEF RingFires, SideTypes, IInv, TypeOK, TimersOK
    <2>2. CASE call[c].status = "ringing"
      <3>1. Placed(c)
        BY <2>2 DEF Placed
      <3>2. "expire" \in Steps \ ({"tick"} \cup Unbound \cup InitiateSteps)
        BY DEF Steps, Unbound, InitiateSteps
      <3>3. GoodTask(Pending("expire", c))
        BY <3>1, <3>2, GoodPending
      <3> QED BY <1>3, <2>1, <2>2, <3>3, QuietStep DEF RingFires
    <2>3. CASE call[c].status # "ringing"
      <3>1. GoodTask(task[t])
        BY <1>0, GoodOld DEF InitiateSteps
      <3>2. Become(t, task[t])
        BY <1>3, <2>3 DEF RingFires, Become, IInv, TypeOK
      <3> QED BY <1>3, <2>1, <3>1, <3>2, QuietStep DEF RingFires
    <2> QED BY <2>2, <2>3
  <1> QED BY <1>1, <1>2, <1>3 DEF TimerFires

-----------------------------------------------------------------------------
(* The writes that end or accept a call *)

\* WriteEnd and whatever it stops is typed, for a call that was placed.
LEMMA WriteEndOK ==
    ASSUME IInv, NEW c \in Calls, NEW status, NEW reason, NEW shown \in Nat,
           WriteEnd(c, status, reason, shown)
    PROVE  bill' \in [Calls -> Nat] /\ stale' \subseteq Calls
  BY DEF IInv, TypeOK, WriteEnd

LEMMA PaiseNat ==
    ASSUME IInv, NEW c \in Calls
    PROVE  call[c].paise \in Nat
  BY DEF IInv, TypeOK, CallRow

\* A call put into "missed" or "rejected"; the busy flag and timers stay.
LEMMA MissedPreserves ==
    ASSUME IInv, NEW t \in Tasks, NEW r, GoodTask(r), Become(t, r),
           NEW c \in Calls, Placed(c), NEW status \in Ended,
           NEW reason \in Reasons, NEW shown \in Nat,
           WriteEnd(c, status, reason, shown),
           ringTimer' \in SUBSET ringTimer,
           UNCHANGED <<money, busy, billing, ticking, crashes>>
    PROVE  IInv'
  <1>1. SideTypes
    BY WriteEndOK DEF SideTypes, IInv, TypeOK, TimersOK
  <1>2. status \in Statuses \ {"none"}
    BY DEF Statuses, Ended
  <1>3. call' = [call EXCEPT ![c].status = status, ![c].reason = reason]
    BY Zenon DEF WriteEnd
  <1> QED BY <1>1, <1>2, <1>3, StatusStep

LEMMA CompletedPreserves ==
    ASSUME IInv, NEW t \in Tasks, NEW r, GoodTask(r), Become(t, r),
           NEW c \in Calls, Placed(c), NEW reason \in Reasons,
           WriteCompleted(c, reason),
           UNCHANGED <<money, busy, ringTimer, ticking, crashes>>
    PROVE  IInv'
  <1>1. /\ StopBilling(c)
        /\ WriteEnd(c, "completed", reason, call[c].paise)
    BY DEF WriteCompleted
  <1>2. bill' \in [Calls -> Nat] /\ stale' \subseteq Calls
    BY <1>1, WriteEndOK, PaiseNat
  <1>3. SideTypes
    BY <1>1, <1>2, StopBillingOK DEF SideTypes, IInv, TypeOK
  <1>4. "completed" \in Statuses \ {"none"}
    BY DEF Statuses, Ended
  <1>5. call' = [call EXCEPT ![c].status = "completed", ![c].reason = reason]
    BY <1>1, Zenon DEF WriteEnd
  <1> QED BY <1>3, <1>4, <1>5, StatusStep

\* A guarded write that finds the call over only stops a timer.
LEMMA GuardedPreserves ==
    ASSUME IInv, NEW t \in Tasks, NEW c \in Calls, StopBilling(c), Finish(t),
           UNCHANGED <<call, bill, stale>>,
           UNCHANGED <<money, busy, ringTimer, ticking, crashes>>
    PROVE  IInv'
  <1>1. SideTypes
    BY StopBillingOK DEF SideTypes, IInv, TypeOK
  <1> QED BY <1>1, GoodIdle, QuietStep DEF Finish


\* The reasons and later steps that the handlers below use.
LEMMA Names ==
    /\ {"rejected_by_host", "cancelled_by_caller", "ended_by_admin", "no_answer",
        "insufficient_balance", "connection_lost", "reaped_stale_ringing",
        "reaped_stale_ongoing"} \subseteq Reasons
    /\ {"missed", "rejected", "completed"} \subseteq Ended
    /\ {"accepted", "busyOff", "arm", "poor", "poorBusyOff", "chain"}
            \subseteq Steps \ ({"tick"} \cup Unbound \cup InitiateSteps)
  BY DEF Reasons, Ended, Steps, TickSteps, Unbound, InitiateSteps

LEMMA AcceptPreserves ==
    ASSUME IInv, NEW t \in Tasks, AcceptWrite(t) \/ AcceptStartBilling(t)
    PROVE  IInv'
  <1> DEFINE c == task[t].call
  <1>1. task[t].at \notin Unbound \cup InitiateSteps
    BY DEF AcceptWrite, AcceptStartBilling, At, Unbound, InitiateSteps
  <1>2. c \in Calls /\ Placed(c)
    BY <1>1, InFlight
  <1>3. CASE AcceptWrite(t)
    <2>1. \E r : GoodTask(r) /\ Become(t, r)
      BY <1>1, <1>3, Names, GoodGoto DEF AcceptWrite
    <2>2. SideTypes
      BY <1>3 DEF AcceptWrite, ClearRingingTimeout, SideTypes, IInv, TypeOK, TimersOK
    <2>3. call[c].reason \in Reasons /\ "ongoing" \in Statuses \ {"none"}
      BY <1>2 DEF IInv, TypeOK, CallRow, Statuses, Active
    <2>4. call \in [Calls -> CallRow]
      BY DEF IInv, TypeOK
    <2>5. call' = [call EXCEPT ![c].status = "ongoing"]
      BY <1>3 DEF AcceptWrite
    <2>6. call' = [call EXCEPT ![c].status = "ongoing", ![c].reason = call[c].reason]
      <3> HIDE DEF c
      <3>1. call[c].reason = call[c].reason
        OBVIOUS
      <3> QED BY <1>2, <2>4, <2>5 DEF CallRow
    <2>7. UNCHANGED money
      BY <1>3 DEF AcceptWrite
    <2> HIDE DEF c
    <2> QED BY <1>2, <2>1, <2>2, <2>3, <2>6, <2>7, StatusStep
  <1>4. CASE AcceptStartBilling(t)
    <2>1. (IF RedisEnabled THEN billing[c] + 1 ELSE 1) \in Nat
      BY <1>2 DEF IInv, TypeOK
    <2>2. billing' = [billing EXCEPT ![c] = IF RedisEnabled THEN billing[c] + 1 ELSE 1]
      BY <1>4 DEF AcceptStartBilling, StartBilling
    <2>3. /\ billing' \in [Calls -> Nat]
          /\ \A d \in Calls : billing'[d] > 0 => Placed(d)
      BY <1>2, <2>1, <2>2, MoreBillingOK
    <2>4. SideTypes
      BY <1>4, <2>3 DEF AcceptStartBilling, SideTypes, IInv, TypeOK
    <2> QED BY <1>4, <2>4, GoodIdle, QuietStep DEF AcceptStartBilling, Finish
  <1> QED BY <1>3, <1>4

LEMMA EndsPreserve ==
    ASSUME IInv, NEW t \in Tasks,
           \/ RejectWrite(t) \/ CancelWrite(t) \/ HangUpWrite(t)
           \/ AdminCancelWrite(t) \/ AdminEndWrite(t)
           \/ ExpireWrite(t) \/ LostWrite(t)
    PROVE  IInv'
  <1> DEFINE c == task[t].call
  <1>1. task[t].at \notin Unbound \cup InitiateSteps
    BY DEF RejectWrite, CancelWrite, HangUpWrite, AdminCancelWrite,
           AdminEndWrite, ExpireWrite, LostWrite, At, Unbound, InitiateSteps
  <1>2. /\ c \in Calls
        /\ Placed(c)
        /\ task[t].reason \in Reasons
        /\ call[c].paise \in Nat
    BY <1>1, InFlight, TaskType, PaiseNat
  <1>3. GoodTask(Idle) /\ GoodTask(Pending("busyOff", c))
    BY <1>2, Names, GoodIdle, GoodPending
  <1>4. CASE RejectWrite(t)
    <2>1. WriteEnd(c, "rejected", "rejected_by_host", 0) /\ Become(t, Idle)
      BY <1>4 DEF RejectWrite, Finish
    <2>2. ringTimer' \in SUBSET ringTimer
      BY <1>4 DEF RejectWrite, ClearRingingTimeout
    <2>3. UNCHANGED <<money, busy, billing, ticking, crashes>>
      BY <1>4 DEF RejectWrite
    <2> QED BY <1>2, <1>3, <2>1, <2>2, <2>3, Names, MissedPreserves
  <1>5. CASE CancelWrite(t)
    <2>1. WriteEnd(c, "missed", "cancelled_by_caller", call[c].paise) /\ Become(t, Idle)
      BY <1>5 DEF CancelWrite, WriteMissed, Finish
    <2>2. ringTimer' \in SUBSET ringTimer
      BY <1>5 DEF CancelWrite, WriteMissed, ClearRingingTimeout
    <2>3. UNCHANGED <<money, busy, billing, ticking, crashes>>
      BY <1>5 DEF CancelWrite
    <2> QED BY <1>2, <1>3, <2>1, <2>2, <2>3, Names, MissedPreserves
  <1>6. CASE HangUpWrite(t)
    BY <1>2, <1>3, <1>6, CompletedPreserves DEF HangUpWrite
  <1>7. CASE AdminCancelWrite(t)
    <2>1. /\ Become(t, Idle)
          /\ UNCHANGED <<money, busy, billing, ticking, crashes>>
          /\ ringTimer' \in SUBSET ringTimer
      BY <1>7 DEF AdminCancelWrite, WriteMissed, ClearRingingTimeout, Finish
    <2>2. CASE WriteEnd(c, "missed", "ended_by_admin", call[c].paise)
      BY <1>2, <1>3, <2>1, <2>2, Names, MissedPreserves
    <2>3. CASE UNCHANGED <<call, bill, stale>>
      <3>1. SideTypes
        BY <2>1, <2>3 DEF SideTypes, IInv, TypeOK, TimersOK
      <3> QED BY <1>3, <2>1, <2>3, <3>1, QuietStep
    <2> QED BY <1>7, <2>2, <2>3 DEF AdminCancelWrite, WriteMissed
  <1>8. CASE AdminEndWrite(t)
    <2>1. UNCHANGED <<money, busy, ringTimer, ticking, crashes>>
      BY <1>8 DEF AdminEndWrite
    <2>2. CASE WriteCompleted(c, "ended_by_admin") /\ Become(t, Pending("busyOff", c))
      BY <1>2, <1>3, <2>1, <2>2, Names, CompletedPreserves
    <2>3. CASE StopBilling(c) /\ Finish(t) /\ UNCHANGED <<call, bill, stale>>
      BY <1>2, <2>1, <2>3, GuardedPreserves
    <2> QED BY <1>8, <2>2, <2>3 DEF AdminEndWrite
  <1>9. CASE ExpireWrite(t)
    <2>1. WriteEnd(c, "missed", "no_answer", 0) /\ Become(t, Idle)
      BY <1>9 DEF ExpireWrite, Finish
    <2>2. ringTimer' \in SUBSET ringTimer
          /\ UNCHANGED <<money, busy, billing, ticking, crashes>>
      BY <1>9 DEF ExpireWrite
    <2> QED BY <1>2, <1>3, <2>1, <2>2, Names, MissedPreserves
  <1>10. CASE LostWrite(t)
    <2>1. UNCHANGED <<money, busy, ringTimer, ticking, crashes>>
      BY <1>10 DEF LostWrite
    <2>2. CASE WriteCompleted(c, "connection_lost") /\ Become(t, Pending("busyOff", c))
      BY <1>2, <1>3, <2>1, <2>2, Names, CompletedPreserves
    <2>3. CASE StopBilling(c) /\ Finish(t) /\ UNCHANGED <<call, bill, stale>>
      BY <1>2, <2>1, <2>3, GuardedPreserves
    <2> QED BY <1>10, <2>2, <2>3 DEF LostWrite
  <1> QED BY <1>4, <1>5, <1>6, <1>7, <1>8, <1>9, <1>10


\* broadcastBusy touches the flag and nothing else.
LEMMA BusyPreserves ==
    ASSUME IInv, NEW t \in Tasks, BusyOff(t)
    PROVE  IInv'
  <1>1. SideTypes
    BY DEF BusyOff, ShowFree, SideTypes, IInv, TypeOK, TimersOK
  <1> QED BY <1>1, GoodIdle, QuietStep DEF BusyOff, Finish

-----------------------------------------------------------------------------
(* Billing ticks *)

LEMMA RatesNat == Rates \subseteq Nat
  BY CallConstants

\* The row a tick read still names the call's parties and price.
LEMMA TickRow ==
    ASSUME IInv, NEW t \in Tasks, task[t].at = "tick", NEW c, c = task[t].call,
           NEW row, row = task[t].row
    PROVE  /\ c \in Calls /\ Placed(c)
           /\ call[c] \in CallRow /\ row \in CallRow
           /\ row.user = call[c].user /\ row.user \in Users
           /\ row.host = call[c].host /\ row.host \in Hosts
           /\ row.rate = call[c].rate /\ row.rate \in Nat
           /\ row.ticks \in Nat /\ call[c].ticks \in Nat
           /\ row.ticks <= call[c].ticks
           /\ row.paise = row.ticks * TickCost(row.rate)
           /\ row.beans = row.ticks * TickBeans(row.rate)
  <1>1. c \in Calls /\ Placed(c)
    BY InFlight DEF Unbound, InitiateSteps
  <1>2. call[c] \in CallRow /\ row \in CallRow
    BY <1>1, TaskType DEF IInv, TypeOK
  <1>3. TickOK(t)
    BY DEF IInv, TasksOK
  <1>4. /\ call[c].user \in Users
        /\ call[c].host \in Hosts
        /\ call[c].rate \in Rates
    BY <1>1 DEF IInv, RowsOK, RowOK, Placed, NoRow
  <1>5. call[c].rate \in Nat
    BY <1>4, RatesNat
  <1> QED BY <1>1, <1>2, <1>3, <1>4, <1>5 DEF TickOK, CallRow

\* A tick that commits was the next one: its number is free only when the count
\* it read is still the count of the row.
LEMMA FreeKeyIsNext ==
    ASSUME IInv, NEW t \in Tasks, task[t].at = "tick", KeyIsFree(t)
    PROVE  task[t].row.ticks = call[task[t].call].ticks
  <1> DEFINE c == task[t].call
             n == task[t].row.ticks
  <1>1. /\ c \in Calls
        /\ n \in Nat /\ call[c].ticks \in Nat
        /\ n <= call[c].ticks
    BY TickRow
  <1>2. <<c, n + 1>> \notin ledger
    BY DEF KeyIsFree, TickKey
  <1>3. \A k \in Nat : <<c, k>> \in ledger <=> k \in 1..call[c].ticks
    BY <1>1 DEF IInv, RowsOK, TotalsOK
  <1> HIDE DEF c, n
  <1>4. n + 1 \notin 1..call[c].ticks
    BY <1>1, <1>2, <1>3
  <1>5. n = call[c].ticks
    BY <1>1, <1>4
  <1> QED BY <1>5 DEF c, n

\* What a tick writes to its call: the totals it read plus one tick, and nothing
\* else.
LEMMA ChargedType ==
    ASSUME NEW now \in CallRow, NEW seen \in CallRow,
           TickCost(seen.rate) \in Nat, TickBeans(seen.rate) \in Nat
    PROVE  /\ Charged(now, seen) \in CallRow
           /\ Charged(now, seen).status = now.status
           /\ Charged(now, seen).user = now.user
           /\ Charged(now, seen).host = now.host
           /\ Charged(now, seen).rate = now.rate
           /\ Charged(now, seen).ticks = seen.ticks + 1
           /\ Charged(now, seen).paise = seen.paise + TickCost(seen.rate)
           /\ Charged(now, seen).beans = seen.beans + TickBeans(seen.rate)
  <1>1. /\ seen.ticks \in Nat /\ seen.paise \in Nat /\ seen.beans \in Nat
    BY DEF CallRow
  <1>2. /\ seen.ticks + 1 \in Nat
        /\ seen.paise + TickCost(seen.rate) \in Nat
        /\ seen.beans + TickBeans(seen.rate) \in Nat
    BY <1>1
  <1> QED BY <1>2 DEF Charged, CallRow

LEMMA ChargePreserves ==
    ASSUME IInv, NEW t \in Tasks, TickCharges(t)
    PROVE  IInv'
  <1> DEFINE c == task[t].call
             row == task[t].row
             cost == TickCost(row.rate)
             beans == TickBeans(row.rate)
             n == row.ticks
  <1>1. task[t].at = "tick"
    BY DEF TickCharges, At
  <1>2. /\ c \in Calls /\ Placed(c)
        /\ call[c] \in CallRow
        /\ row.user = call[c].user /\ row.user \in Users
        /\ row.host = call[c].host /\ row.host \in Hosts
        /\ row.rate = call[c].rate /\ row.rate \in Nat
        /\ n \in Nat
        /\ row.paise = n * cost
        /\ row.beans = n * beans
    BY <1>1, TickRow
  <1>3. call[c].ticks = n
    BY <1>1, FreeKeyIsNext DEF TickCharges
  <1>4. cost \in Nat /\ beans \in Nat
    BY <1>2, TickCostPositive, TickBeansNat
  <1>5. /\ row.paise + cost = (n + 1) * cost
        /\ row.beans + beans = (n + 1) * beans
        /\ row.paise + cost \in Nat
        /\ row.beans + beans \in Nat
    <2> HIDE DEF c, row, cost, beans, n
    <2>1. n * cost \in Nat /\ (n + 1) * cost = n * cost + cost
      BY <1>2, <1>4, OneMoreTick
    <2>2. n * beans \in Nat /\ (n + 1) * beans = n * beans + beans
      BY <1>2, <1>4, OneMoreTick
    <2> QED BY <1>2, <1>4, <2>1, <2>2
  <1>6. /\ wallet[row.user] >= cost
        /\ wallet' = [wallet EXCEPT ![row.user] = @ - cost]
        /\ hostBeans' = [hostBeans EXCEPT ![row.host] = @ + beans]
        /\ ledger' = ledger \cup {<<c, n + 1>>}
        /\ stale' = stale \ {c}
        /\ ticking' = ticking \ {c}
        /\ UNCHANGED <<bill, busy, billing, ringTimer, crashes>>
    BY DEF TickCharges, CanPay, TransferUserToHost, TickKey, Unlock
  <1>7. call' = [call EXCEPT ![c] = Charged(call[c], row)]
    BY DEF TickCharges
  <1>8. \E r : GoodTask(r) /\ Become(t, r)
    BY <1>1, GoodAfterTick DEF TickCharges, Unbound, InitiateSteps
  <1> HIDE DEF c, row, cost, beans, n
  <1>9. call \in [Calls -> CallRow] /\ ledger \subseteq Calls \X Nat
    BY DEF IInv, TypeOK
  <1>10. /\ call' \in [Calls -> CallRow]
         /\ \A d \in Calls \ {c} : call'[d] = call[d]
         /\ call'[c].status = call[c].status
         /\ call'[c].user = call[c].user
         /\ call'[c].host = call[c].host
         /\ call'[c].rate = call[c].rate
         /\ call'[c].ticks = n + 1
         /\ call'[c].paise = row.paise + cost
         /\ call'[c].beans = row.beans + beans
    <2>1. row \in CallRow
      BY TaskType DEF row
    <2> QED BY <1>2, <1>4, <1>7, <1>9, <2>1, ChargedType DEF cost, beans, n
  <1>11. RowsKeep
    <2> SUFFICES ASSUME NEW d \in Calls
                 PROVE  IF Placed(d)
                        THEN /\ call'[d].status # "none"
                             /\ call'[d].user = call[d].user
                             /\ call'[d].host = call[d].host
                             /\ call'[d].rate = call[d].rate
                             /\ call'[d].ticks \in Nat
                             /\ call[d].ticks <= call'[d].ticks
                        ELSE call'[d] = call[d]
      BY DEF RowsKeep
    <2>1. CASE d = c
      BY <1>2, <1>3, <1>10, <2>1 DEF Placed
    <2>2. CASE d # c
      <3>1. call'[d] = call[d]
        BY <1>10, <2>2
      <3>2. call[d].ticks \in Nat /\ call[d].ticks <= call[d].ticks
        BY <1>9 DEF CallRow
      <3> QED BY <3>1, <3>2 DEF Placed
    <2> QED BY <2>1, <2>2
  <1>12. ASSUME NEW d \in Calls PROVE (RowOK(d) /\ TotalsOK(d))'
    <2>1. RowOK(d) /\ TotalsOK(d)
      BY DEF IInv, RowsOK
    <2>2. CASE d # c
      <3>1. call'[d] = call[d]
        BY <1>10, <2>2
      <3>2. \A k \in Nat : <<d, k>> \in ledger' <=> <<d, k>> \in ledger
        BY <1>6, <2>2
      <3> QED BY <2>1, <3>1, <3>2 DEF RowOK, TotalsOK, Placed
    <2>3. CASE d = c
      <3>1. RowOK(d)'
        <4>1. call[c] # NoRow
          BY <1>2 DEF Placed, NoRow
        <4> QED BY <1>10, <2>1, <2>3, <4>1 DEF RowOK, Placed
      <3>2. /\ call'[c].paise = call'[c].ticks * TickCost(call'[c].rate)
            /\ call'[c].beans = call'[c].ticks * TickBeans(call'[c].rate)
        BY <1>2, <1>5, <1>10 DEF cost, beans
      <3>3. \A k \in Nat : <<c, k>> \in ledger' <=> k \in 1..(n + 1)
        <4>1. \A k \in Nat : <<c, k>> \in ledger <=> k \in 1..n
          BY <1>3, <2>1, <2>3 DEF TotalsOK
        <4>2. \A k \in Nat : <<c, k>> \in ledger' <=> k \in 1..n \/ k = n + 1
          BY <1>6, <4>1
        <4>3. \A k \in Nat : k \in 1..(n + 1) <=> k \in 1..n \/ k = n + 1
          BY <1>2
        <4> QED BY <4>2, <4>3
      <3>4. TotalsOK(d)'
        BY <1>10, <2>3, <3>2, <3>3 DEF TotalsOK
      <3> QED BY <3>1, <3>4
    <2> QED BY <2>2, <2>3
  <1>13. SideTypes
    BY <1>6 DEF SideTypes, IInv, TypeOK, TimersOK
  <1>14. /\ wallet' \in [Users -> Nat]
         /\ hostBeans' \in [Hosts -> Nat]
         /\ ledger' \subseteq Calls \X Nat
    <2>1. wallet \in [Users -> Nat] /\ hostBeans \in [Hosts -> Nat]
      BY DEF IInv, TypeOK
    <2>2. wallet[row.user] - cost \in Nat /\ hostBeans[row.host] + beans \in Nat
      BY <1>2, <1>4, <1>6, <2>1
    <2> QED BY <1>2, <1>6, <1>9, <2>1, <2>2
  <1>15. TasksOK' /\ task' \in [Tasks -> Task]
    BY <1>8, <1>11, OneTaskMoves DEF Become
  <1> QED BY <1>10, <1>11, <1>12, <1>13, <1>14, <1>15, Assemble DEF RowsOK


\* A tick that ends without charging, and what the worker does after it.
LEMMA OtherTicksPreserve ==
    ASSUME IInv, NEW t \in Tasks,
           \/ TickNotOngoing(t) \/ TickDuplicate(t) \/ TickCannotPay(t)
           \/ PoorWrite(t) \/ PoorBusyOff(t) \/ ChainNextTick(t)
    PROVE  IInv'
  <1> DEFINE c == task[t].call
  <1>1. task[t].at \notin Unbound \cup InitiateSteps
    BY DEF TickNotOngoing, TickDuplicate, TickCannotPay, PoorWrite,
           PoorBusyOff, ChainNextTick, At, Unbound, InitiateSteps
  <1>2. c \in Calls /\ Placed(c)
    BY <1>1, InFlight
  <1>3. CASE TickNotOngoing(t)
    <2>1. SideTypes
      BY <1>2, <1>3, StopBillingOK
      DEF TickNotOngoing, Unlock, SideTypes, IInv, TypeOK
    <2> QED BY <1>1, <1>3, <2>1, GoodAfterTick, QuietStep DEF TickNotOngoing
  <1>4. CASE TickDuplicate(t)
    <2>1. SideTypes
      BY <1>4 DEF TickDuplicate, Unlock, SideTypes, IInv, TypeOK, TimersOK
    <2> QED BY <1>1, <1>4, <2>1, GoodAfterTick, QuietStep DEF TickDuplicate
  <1>5. CASE TickCannotPay(t)
    <2>1. SideTypes
      BY <1>5, SidesUnchanged DEF OnlyTaskMoves, TickCannotPay
    <2>2. \E r : GoodTask(r) /\ Become(t, r)
      BY <1>1, <1>5, Names, GoodGoto DEF OnlyTaskMoves, TickCannotPay
    <2> QED BY <1>5, <2>1, <2>2, QuietStep DEF OnlyTaskMoves, TickCannotPay
  <1>6. CASE PoorWrite(t)
    <2>1. \E r : GoodTask(r) /\ Become(t, r)
      BY <1>1, <1>6, Names, GoodGoto DEF PoorWrite
    <2> QED BY <1>2, <1>6, <2>1, Names, CompletedPreserves DEF PoorWrite
  <1>7. CASE PoorBusyOff(t)
    <2>1. SideTypes
      BY <1>7 DEF PoorBusyOff, ShowFree, Unlock, SideTypes, IInv, TypeOK, TimersOK
    <2> QED BY <1>1, <1>7, <2>1, GoodAfterTick, QuietStep DEF PoorBusyOff
  <1>8. CASE ChainNextTick(t)
    <2>1. /\ billing' \in [Calls -> Nat]
          /\ \A d \in Calls : billing'[d] > 0 => Placed(d)
      <3>1. CASE call[c].status = "ongoing"
        <4>1. billing[c] + 1 \in Nat
          BY <1>2 DEF IInv, TypeOK
        <4>2. billing' = [billing EXCEPT ![c] = billing[c] + 1]
          BY <1>8, <3>1 DEF ChainNextTick
        <4> QED BY <1>2, <4>1, <4>2, MoreBillingOK
      <3>2. CASE call[c].status # "ongoing"
        BY <1>8, <3>2 DEF ChainNextTick, IInv, TypeOK, TimersOK
      <3> QED BY <3>1, <3>2
    <2>2. SideTypes
      BY <1>8, <2>1 DEF ChainNextTick, SideTypes, IInv, TypeOK
    <2> QED BY <1>8, <2>2, GoodIdle, QuietStep DEF ChainNextTick, Finish
  <1> QED BY <1>3, <1>4, <1>5, <1>6, <1>7, <1>8

-----------------------------------------------------------------------------
(* The reaper, the clock and crashes *)

LEMMA ReaperPreserves ==
    ASSUME IInv, NEW t \in Tasks,
           \/ ReapStart(t) \/ ReapRinging(t) \/ ReapSelectOngoing(t)
           \/ ReapOngoing(t) \/ ReapBusyOff(t) \/ ReapDone(t)
    PROVE  IInv'
  <1> DEFINE todo == task[t].todo
  <1>1. todo \in SUBSET Calls /\ \A d \in todo : Placed(d)
    BY TaskType
  <1>2. ASSUME NEW status \in Active
        PROVE  StaleIn(status) \in SUBSET Calls /\ \A d \in StaleIn(status) : Placed(d)
    BY <1>2 DEF StaleIn, Placed, Active, IInv, TypeOK
  <1>3. CASE ReapStart(t) \/ ReapSelectOngoing(t)
    <2>1. SideTypes
      BY <1>3, SidesUnchanged DEF OnlyTaskMoves, ReapStart, ReapSelectOngoing
    <2>2. /\ GoodTask(Reaping("reapRinging", Nobody, StaleIn("ringing")))
          /\ GoodTask(Reaping("reapOngoing", Nobody, StaleIn("ongoing")))
      BY <1>2, GoodReaping DEF Active
    <2> QED BY <1>3, <2>1, <2>2, QuietStep DEF OnlyTaskMoves, ReapStart, ReapSelectOngoing
  <1>4. CASE ReapRinging(t)
    <2>1. PICK c \in todo :
            /\ WriteMissed(c, "reaped_stale_ringing", 0)
            /\ Become(t, Reaping("reapRinging", Nobody, todo \ {c}))
      BY <1>4 DEF ReapRinging
    <2>2. c \in Calls /\ Placed(c) /\ todo \ {c} \in SUBSET Calls
          /\ \A d \in todo \ {c} : Placed(d)
      BY <1>1
    <2>3. GoodTask(Reaping("reapRinging", Nobody, todo \ {c}))
      BY <2>2, GoodReaping
    <2>4. UNCHANGED <<money, busy, billing, ticking, crashes>>
      BY <1>4 DEF ReapRinging
    <2>5. /\ WriteEnd(c, "missed", "reaped_stale_ringing", 0)
          /\ ringTimer' \in SUBSET ringTimer
      BY <2>1 DEF WriteMissed, ClearRingingTimeout
    <2> QED BY <2>1, <2>2, <2>3, <2>4, <2>5, Names, MissedPreserves
  <1>5. CASE ReapOngoing(t)
    <2>1. PICK c \in todo :
            /\ WriteCompleted(c, "reaped_stale_ongoing")
            /\ Become(t, Reaping("reapBusyOff", c, todo \ {c}))
      BY <1>5 DEF ReapOngoing
    <2>2. c \in Calls /\ Placed(c) /\ todo \ {c} \in SUBSET Calls
          /\ \A d \in todo \ {c} : Placed(d)
      BY <1>1
    <2>3. GoodTask(Reaping("reapBusyOff", c, todo \ {c}))
      BY <2>2, GoodReaping
    <2>4. UNCHANGED <<money, busy, ringTimer, ticking, crashes>>
      BY <1>5 DEF ReapOngoing
    <2> QED BY <2>1, <2>2, <2>3, <2>4, Names, CompletedPreserves
  <1>6. CASE ReapBusyOff(t)
    <2>1. SideTypes
      BY <1>6 DEF ReapBusyOff, ShowFree, SideTypes, IInv, TypeOK, TimersOK
    <2>2. GoodTask(Reaping("reapOngoing", Nobody, todo))
      BY <1>1, GoodReaping
    <2> QED BY <1>6, <2>1, <2>2, QuietStep DEF ReapBusyOff
  <1>7. CASE ReapDone(t)
    <2>1. SideTypes
      BY <1>7, SidesUnchanged DEF OnlyTaskMoves, ReapDone
    <2> QED BY <1>7, <2>1, GoodIdle, QuietStep DEF OnlyTaskMoves, ReapDone, Finish
  <1> QED BY <1>3, <1>4, <1>5, <1>6, <1>7

\* Every handler stays as it is.
LEMMA ClockPreserves ==
    ASSUME IInv, NEW c \in Calls, GrowStale(c) \/ LockExpires(c)
    PROVE  IInv'
  <1>1. UNCHANGED <<call, money, task>>
    BY DEF GrowStale, LockExpires
  <1>2. SideTypes
    BY DEF GrowStale, LockExpires, SideTypes, IInv, TypeOK, TimersOK
  <1>3. RowsKeep /\ RowsOK' /\ call' \in [Calls -> CallRow]
    BY <1>1, SameRows DEF money
  <1>4. TasksOK' /\ task' \in [Tasks -> Task]
    BY <1>1 DEF IInv, TypeOK, TasksOK, TaskOK, TickOK, Placed
  <1> QED BY <1>1, <1>2, <1>3, <1>4, Assemble DEF IInv, TypeOK, money


\* A crash that takes any of the handlers leaves the others as they were.
LEMMA SomeTasksDie ==
    ASSUME IInv, UNCHANGED call, NEW S \in SUBSET Tasks,
           task' = [t \in Tasks |-> IF t \in S THEN Idle ELSE task[t]]
    PROVE  TasksOK' /\ task' \in [Tasks -> Task]
  <1>1. task' \in [Tasks -> Task]
    BY IdleType DEF IInv, TypeOK
  <1>2. /\ Idle.at = "idle"
        /\ Idle.call = Nobody
        /\ Idle.todo = {}
    BY DEF Idle, Pending
  <1>3. ASSUME NEW t \in Tasks PROVE (TaskOK(t) /\ TickOK(t))'
    <2>1. TaskOK(t) /\ TickOK(t)
      BY DEF IInv, TasksOK
    <2>2. CASE t \in S
      BY <1>2, <2>2 DEF TaskOK, TickOK, Unbound, InitiateSteps
    <2>3. CASE t \notin S
      <3>1. task'[t] = task[t]
        BY <2>3
      <3>2. ASSUME task[t].at \in InitiateSteps, NEW s \in Tasks,
                   task'[s].call = task[t].call
            PROVE  s = t
        <4>1. task[t].call \in Calls
          BY <2>1, <3>2 DEF TaskOK, Unbound, InitiateSteps
        <4>2. s \notin S
          BY <1>2, <3>2, <4>1, CallConstants
        <4> QED BY <2>1, <3>2, <4>2 DEF TaskOK
      <3>3. TaskOK(t)'
        BY <2>1, <3>1, <3>2 DEF TaskOK, Placed
      <3> QED BY <2>1, <3>1, <3>3 DEF TickOK
    <2> QED BY <2>2, <2>3
  <1> QED BY <1>1, <1>3 DEF TasksOK

LEMMA CrashPreserves ==
    ASSUME IInv, Crash
    PROVE  IInv'
  <1>1. UNCHANGED <<call, money>>
    BY DEF Crash, ProcessCrash, InstanceCrash
  <1>2. RowsKeep /\ RowsOK' /\ call' \in [Calls -> CallRow]
    BY <1>1, SameRows DEF money
  <1>3. CASE ProcessCrash
    <2>1. SideTypes
      BY <1>3 DEF ProcessCrash, SideTypes, IInv, TypeOK
    <2>2. task' = [t \in Tasks |-> IF t \in Tasks THEN Idle ELSE task[t]]
      BY <1>3 DEF ProcessCrash
    <2>3. TasksOK' /\ task' \in [Tasks -> Task]
      BY <1>1, <2>2, SomeTasksDie
    <2> QED BY <1>1, <1>2, <2>1, <2>3, Assemble DEF IInv, TypeOK, money
  <1>4. ASSUME NEW S \in SUBSET Tasks, NEW requeue \in BOOLEAN,
               InstanceCrash(S, requeue)
        PROVE  IInv'
    <2>1. TasksOK' /\ task' \in [Tasks -> Task]
      BY <1>1, <1>4, SomeTasksDie DEF InstanceCrash
    <2>2. ASSUME NEW c \in Calls
          PROVE  /\ Cardinality(TickJobsOf(S, c)) \in Nat
                 /\ Cardinality(TickJobsOf(S, c)) > 0 => Placed(c)
      <3>1. IsFiniteSet(TickJobsOf(S, c))
        <4>1. TickJobsOf(S, c) \subseteq Tasks
          BY DEF TickJobsOf
        <4> QED BY <4>1, FS_Subset, CallConstants
      <3>2. Cardinality(TickJobsOf(S, c)) \in Nat
        BY <3>1, FS_CardinalityType
      <3>3. TickJobsOf(S, c) = {} => Cardinality(TickJobsOf(S, c)) = 0
        BY FS_EmptySet
      <3>4. ASSUME NEW t \in TickJobsOf(S, c) PROVE Placed(c)
        <4>1. t \in Tasks /\ task[t].call = c /\ task[t].at \in TickSteps
          BY DEF TickJobsOf
        <4>2. task[t].at \notin Unbound \cup InitiateSteps
          BY <4>1 DEF TickSteps, Unbound, InitiateSteps
        <4> QED BY <4>1, <4>2, InFlight
      <3> QED BY <3>2, <3>3, <3>4
    <2>3. /\ billing' \in [Calls -> Nat]
          /\ \A c \in Calls : billing'[c] > 0 => Placed(c)
      <3>1. billing' = [c \in Calls |->
               billing[c] + IF requeue THEN Cardinality(TickJobsOf(S, c)) ELSE 0]
        BY <1>4 DEF InstanceCrash
      <3>2. ASSUME NEW c \in Calls
            PROVE  /\ billing'[c] \in Nat
                   /\ billing'[c] > 0 => Placed(c)
        <4>1. billing[c] \in Nat /\ (billing[c] > 0 => Placed(c))
          BY DEF IInv, TypeOK, TimersOK
        <4> QED BY <2>2, <3>1, <4>1
      <3> QED BY <3>1, <3>2
    <2>4. ringTimer' \subseteq Calls
      <3>1. RingJobsOf(S) \subseteq Calls
        BY InFlight DEF RingJobsOf, At, Unbound, InitiateSteps
      <3> QED BY <1>4, <3>1 DEF InstanceCrash, IInv, TypeOK
    <2>5. SideTypes
      BY <1>4, <2>3, <2>4 DEF InstanceCrash, SideTypes, IInv, TypeOK
    <2> QED BY <1>1, <1>2, <2>1, <2>5, Assemble DEF IInv, TypeOK, money
  <1> QED BY <1>3, <1>4 DEF Crash

-----------------------------------------------------------------------------
(* Placing a call *)

LEMMA DraftType ==
    ASSUME NEW u \in Users, NEW h \in Hosts, NEW r \in Rates
    PROVE  Draft(u, h, r) \in CallRow
  BY RatesNat DEF Draft, CallRow, Statuses, Active, Reasons

\* An untouched row is the one with status "none".
LEMMA UntouchedRow ==
    ASSUME IInv, NEW c \in Calls
    PROVE  Placed(c) <=> call[c] # NoRow
  BY DEF IInv, RowsOK, RowOK, Placed, NoRow

\* While a call is being placed no row changes; the other handlers stay.
LEMMA PlacingStep ==
    ASSUME IInv, NEW t \in Tasks, NEW r \in Task, Become(t, r),
           r.at \in InitiateSteps, r.call \in Calls,
           \A c \in r.todo : Placed(c),
           call[r.call] = NoRow,
           \A s \in Tasks \ {t} : task[s].call # r.call,
           \E u \in Users, h \in Hosts, p \in Rates : r.row = Draft(u, h, p),
           UNCHANGED <<call, money, bill, busy, billing, ringTimer, ticking,
                       stale, crashes>>
    PROVE  IInv'
  <1>1. RowsKeep /\ RowsOK' /\ call' \in [Calls -> CallRow]
    BY SameRows DEF money
  <1>2. SideTypes
    BY SidesUnchanged
  <1>3. task' = [task EXCEPT ![t] = r] /\ task \in [Tasks -> Task] /\ call' = call
    BY DEF Become, IInv, TypeOK
  <1>4. task' \in [Tasks -> Task]
    BY <1>3
  <1>5. ASSUME NEW s \in Tasks PROVE (TaskOK(s) /\ TickOK(s))'
    <2>1. TaskOK(s) /\ TickOK(s)
      BY DEF IInv, TasksOK
    <2>2. CASE s = t
      <3>1. task'[s] = r
        BY <1>3, <2>2
      <3>2. r.at \notin Unbound /\ r.at # "tick"
        BY DEF Unbound, InitiateSteps
      <3>3. \A q \in Tasks : task'[q].call = r.call => q = s
        BY <1>3, <2>2
      <3> QED BY <1>3, <3>1, <3>2, <3>3 DEF TaskOK, TickOK, Placed
    <2>3. CASE s # t
      <3>1. task'[s] = task[s]
        BY <1>3, <2>3
      <3>2. \A q \in Tasks : task[s].at \in InitiateSteps
                /\ task'[q].call = task[s].call => q = s
        BY <1>3, <2>1, <2>3 DEF TaskOK
      <3>3. TaskOK(s)'
        BY <1>3, <2>1, <3>1, <3>2 DEF TaskOK, Placed
      <3> QED BY <1>3, <2>1, <3>1, <3>3 DEF TickOK
    <2> QED BY <2>2, <2>3
  <1> QED BY <1>1, <1>2, <1>4, <1>5, Assemble DEF IInv, TypeOK, TasksOK, money


LEMMA PlacingPreserves ==
    ASSUME IInv, NEW t \in Tasks,
           \/ \E u \in Users, h \in Hosts, r \in Rates : InitiateStart(t, u, h, r)
           \/ InitiateCheckUser(t) \/ InitiateCheckBalance(t)
    PROVE  IInv'
  <1>1. UNCHANGED <<call, money, bill, busy, billing, ringTimer, ticking,
                    stale, crashes>>
    BY DEF OnlyTaskMoves, InitiateStart, InitiateCheckUser, InitiateCheckBalance
  <1>2. CASE \E u \in Users, h \in Hosts, r \in Rates : InitiateStart(t, u, h, r)
    <2>1. PICK u \in Users, h \in Hosts, r \in Rates, c \in Calls :
            /\ call[c].status = "none"
            /\ \A s \in Tasks : task[s].call # c
            /\ Become(t, [Pending("checkUser", c) EXCEPT !.row = Draft(u, h, r)])
      BY <1>2 DEF OnlyTaskMoves, InitiateStart
    <2> DEFINE new == [Pending("checkUser", c) EXCEPT !.row = Draft(u, h, r)]
    <2>2. Pending("checkUser", c) \in Task
      BY PendingType DEF Steps, InitiateSteps
    <2>3. /\ new \in Task
          /\ new.at = "checkUser"
          /\ new.call = c
          /\ new.todo = {}
          /\ new.row = Draft(u, h, r)
      BY <2>2, DraftType DEF Pending, Task
    <2>4. call[c] = NoRow
      BY <2>1, UntouchedRow DEF Placed
    <2> HIDE DEF new
    <2>5. Become(t, new)
      BY <2>1 DEF new
    <2>6. new.at \in InitiateSteps /\ new.call \in Calls /\ call[new.call] = NoRow
      BY <2>3, <2>4 DEF InitiateSteps
    <2>7. \A s \in Tasks \ {t} : task[s].call # new.call
      BY <2>1, <2>3
    <2>8. \E v \in Users, g \in Hosts, p \in Rates : new.row = Draft(v, g, p)
      BY <2>3
    <2> QED BY <1>1, <2>3, <2>5, <2>6, <2>7, <2>8, PlacingStep
  <1>3. ASSUME NEW step \in {"checkBalance", "insert"}, Goto(t, step),
               task[t].at \in InitiateSteps
        PROVE  IInv'
    <2> DEFINE new == [task[t] EXCEPT !.at = step]
    <2>1. TaskOK(t) /\ task[t] \in Task
      BY TaskType DEF IInv, TasksOK
    <2>2. \A c \in task[t].todo : Placed(c)
      BY TaskType
    <2>3. step \in Steps /\ step \in InitiateSteps
      BY DEF Steps, InitiateSteps
    <2>4. /\ new \in Task
          /\ new.at = step
          /\ new.call = task[t].call
          /\ \A c \in new.todo : Placed(c)
          /\ new.row = task[t].row
      BY <2>1, <2>2, <2>3 DEF Task
    <2>5. Become(t, new)
      BY <1>3 DEF Goto, Become, IInv, TypeOK
    <2> HIDE DEF new
    <2>6. new.call \in Calls /\ call[new.call] = NoRow
      BY <1>3, <2>1, <2>4 DEF TaskOK, Unbound, InitiateSteps
    <2>7. \A s \in Tasks \ {t} : task[s].call # new.call
      BY <1>3, <2>1, <2>4 DEF TaskOK
    <2>8. \E v \in Users, g \in Hosts, p \in Rates : new.row = Draft(v, g, p)
      BY <1>3, <2>1, <2>4 DEF TaskOK
    <2> QED BY <1>1, <2>3, <2>4, <2>5, <2>6, <2>7, <2>8, PlacingStep
  <1>4. ASSUME Finish(t) PROVE IInv'
    <2>1. SideTypes
      BY <1>1, SidesUnchanged
    <2> QED BY <1>1, <1>4, <2>1, GoodIdle, QuietStep DEF Finish
  <1>5. CASE InitiateCheckUser(t)
    BY <1>3, <1>4, <1>5 DEF OnlyTaskMoves, InitiateCheckUser, At, InitiateSteps
  <1>6. CASE InitiateCheckBalance(t)
    BY <1>3, <1>4, <1>6 DEF InitiateCheckBalance, At, InitiateSteps
  <1> QED BY <1>2, <1>5, <1>6


\* The insert gives the reserved id its row; no other handler is about it.
LEMMA InsertPreserves ==
    ASSUME IInv, NEW t \in Tasks, InitiateInsert(t)
    PROVE  IInv'
  <1>0. PICK c \in Calls : c = task[t].call
    BY DEF InitiateInsert, At, IInv, TasksOK, TaskOK, Unbound, InitiateSteps
  <1>1. /\ task[t].at = "insert"
        /\ call' = [call EXCEPT ![c] = task[t].row]
        /\ task' = [task EXCEPT ![t] = Pending("arm", c)]
        /\ UNCHANGED <<money, bill, busy, billing, ringTimer, ticking, stale, crashes>>
    BY <1>0 DEF InitiateInsert, At, Become
  <1>2. TaskOK(t) /\ "insert" \in InitiateSteps
    BY DEF IInv, TasksOK, InitiateSteps
  <1>3. /\ call[c] = NoRow
        /\ \A s \in Tasks : task[s].call = c => s = t
        /\ \E u \in Users, h \in Hosts, r \in Rates : task[t].row = Draft(u, h, r)
    BY <1>0, <1>1, <1>2 DEF TaskOK
  <1>4. PICK u \in Users, h \in Hosts, p \in Rates : task[t].row = Draft(u, h, p)
    BY <1>3
  <1>5. /\ call \in [Calls -> CallRow]
        /\ task \in [Tasks -> Task]
        /\ Draft(u, h, p) \in CallRow
    BY DraftType DEF IInv, TypeOK
  <1>6. /\ call' \in [Calls -> CallRow]
        /\ call'[c] = Draft(u, h, p)
        /\ \A d \in Calls \ {c} : call'[d] = call[d]
    BY <1>1, <1>4, <1>5
  <1>7. ~Placed(c) /\ Placed(c)'
    BY <1>3, <1>6 DEF Placed, NoRow, Draft
  <1>8. ASSUME NEW d \in Calls PROVE (RowOK(d) /\ TotalsOK(d))'
    <2>1. RowOK(d) /\ TotalsOK(d) /\ ledger' = ledger
      BY <1>1 DEF IInv, RowsOK, money
    <2>2. CASE d # c
      <3>1. call'[d] = call[d]
        BY <1>6, <2>2
      <3> QED BY <2>1, <3>1 DEF RowOK, TotalsOK, Placed
    <2>3. CASE d = c
      <3>1. RowOK(d)'
        BY <1>6, <2>3 DEF RowOK, Placed, Draft
      <3>2. /\ call'[d].ticks = 0 /\ call'[d].rate = p
            /\ call'[d].paise = 0 /\ call'[d].beans = 0
        BY <1>6, <2>3 DEF Draft
      <3>3. \A n \in Nat : <<d, n>> \in ledger <=> n \in 1..0
        BY <1>3, <2>1, <2>3 DEF TotalsOK, NoRow
      <3>4. 0 * TickCost(p) = 0 /\ 0 * TickBeans(p) = 0
        <4>1. TickCost(p) \in Nat /\ TickBeans(p) \in Nat
          BY RatesNat, TickCostPositive, TickBeansNat
        <4> QED BY <4>1
      <3>5. TotalsOK(d)'
        BY <2>1, <3>2, <3>3, <3>4 DEF TotalsOK
      <3> QED BY <3>1, <3>5
    <2> QED BY <2>2, <2>3
  <1>9. Pending("arm", c) \in Task
    BY PendingType DEF Steps
  <1>10. task' \in [Tasks -> Task]
    BY <1>1, <1>5, <1>9
  <1>11. ASSUME NEW s \in Tasks PROVE (TaskOK(s) /\ TickOK(s))'
    <2>1. \A d \in Calls : Placed(d) => Placed(d)'
      BY <1>6, <1>7 DEF Placed
    <2>2. CASE s = t
      <3>1. task'[s] = Pending("arm", c)
        BY <1>1, <1>5, <2>2
      <3> QED BY <1>7, <3>1 DEF TaskOK, TickOK, Pending, Unbound, InitiateSteps
    <2>3. CASE s # t
      <3>1. /\ task'[s] = task[s]
            /\ task[s].call # c
            /\ task[s].todo \subseteq Calls
            /\ TaskOK(s) /\ TickOK(s)
        BY <1>1, <1>3, <1>5, <2>3, TaskType DEF IInv, TasksOK
      <3>2. task[s].at \notin Unbound =>
                task[s].call \in Calls /\ call'[task[s].call] = call[task[s].call]
        BY <1>6, <3>1 DEF TaskOK
      <3>3. ASSUME task[s].at \in InitiateSteps, NEW q \in Tasks,
                   task'[q].call = task[s].call
            PROVE  q = s
        <4>1. q # t
          <5>1. task'[t].call = c
            BY <1>1, <1>5 DEF Pending
          <5> QED BY <3>1, <3>3, <5>1
        <4>2. task'[q] = task[q]
          BY <1>1, <1>5, <4>1
        <4> QED BY <3>1, <3>3, <4>2 DEF TaskOK
      <3>4. \A d \in task[s].todo : Placed(d)'
        BY <2>1, <3>1 DEF TaskOK
      <3>5. TaskOK(s)'
        <4>1. task[s].at \in InitiateSteps => task[s].at \notin Unbound
          BY DEF Unbound, InitiateSteps
        <4> QED BY <3>1, <3>2, <3>3, <3>4, <4>1 DEF TaskOK, Placed
      <3>6. TickOK(s)'
        BY <3>1, <3>2 DEF TickOK, Unbound
      <3> QED BY <3>5, <3>6
    <2> QED BY <2>2, <2>3
  <1>12. TypeOK'
    BY <1>1, <1>6, <1>10 DEF IInv, TypeOK, money
  <1>13. TimersOK'
    BY <1>1, <1>6, <1>7 DEF IInv, TimersOK, Placed
  <1> QED BY <1>8, <1>11, <1>12, <1>13 DEF IInv, RowsOK, TasksOK


\* scheduleRingingTimeout arms a timer for a call that is there.
LEMMA ArmPreserves ==
    ASSUME IInv, NEW t \in Tasks, InitiateArm(t)
    PROVE  IInv'
  <1>1. task[t].call \in Calls
    BY InFlight DEF InitiateArm, At, Unbound, InitiateSteps
  <1>2. SideTypes
    BY <1>1 DEF InitiateArm, SideTypes, IInv, TypeOK, TimersOK
  <1> QED BY <1>2, GoodIdle, QuietStep DEF InitiateArm, Finish

-----------------------------------------------------------------------------
(* The invariant, and what follows from it *)

LEMMA InitIInv == Init => IInv
  <1> SUFFICES ASSUME Init PROVE IInv
    OBVIOUS
  <1>1. TypeOK
    BY NoRowType, IdleType, CallConstants DEF Init, TypeOK
  <1>2. RowsOK
    <2> SUFFICES ASSUME NEW c \in Calls PROVE RowOK(c) /\ TotalsOK(c)
      BY DEF RowsOK
    <2>1. call[c] = NoRow /\ ledger = {}
      BY DEF Init
    <2>2. 0 * TickCost(0) = 0 /\ 0 * TickBeans(0) = 0
      <3>1. TickCost(0) \in Nat /\ TickBeans(0) \in Nat
        BY TickCostPositive, TickBeansNat
      <3> QED BY <3>1
    <2> QED BY <2>1, <2>2 DEF RowOK, TotalsOK, NoRow
  <1>3. TimersOK
    BY DEF Init, TimersOK
  <1>4. TasksOK
    BY DEF Init, TasksOK, TaskOK, TickOK, Idle, Pending, Unbound, InitiateSteps
  <1> QED BY <1>1, <1>2, <1>3, <1>4 DEF IInv

LEMMA ContinuePreserves ==
    ASSUME IInv, NEW t \in Tasks, Continue(t)
    PROVE  IInv'
  BY PlacingPreserves, InsertPreserves, ArmPreserves, AcceptPreserves,
     EndsPreserve, BusyPreserves, ChargePreserves, OtherTicksPreserve,
     ReaperPreserves
  DEF Continue

LEMMA NextIInv == IInv /\ [Next]_vars => IInv'
  <1> SUFFICES ASSUME IInv, [Next]_vars PROVE IInv'
    OBVIOUS
  <1>1. ASSUME NEW t \in Tasks, Request(t) PROVE IInv'
    BY <1>1, PlacingPreserves, ReadsPreserve DEF Request
  <1>2. ASSUME NEW t \in Tasks, Continue(t) PROVE IInv'
    BY <1>2, ContinuePreserves
  <1>3. ASSUME NEW t \in Tasks, ReapStart(t) PROVE IInv'
    BY <1>3, ReaperPreserves
  <1>4. ASSUME NEW t \in Tasks, NEW c \in Calls, TimerFires(t, c) PROVE IInv'
    BY <1>4, TimersPreserve
  <1>5. ASSUME NEW c \in Calls, GrowStale(c) \/ LockExpires(c) PROVE IInv'
    BY <1>5, ClockPreserves
  <1>6. CASE Crash
    BY <1>6, CrashPreserves
  <1>7. CASE UNCHANGED vars
    <2>1. RowsKeep /\ RowsOK' /\ call' \in [Calls -> CallRow]
      BY <1>7, SameRows DEF vars, money
    <2>2. SideTypes
      BY <1>7, SidesUnchanged DEF vars
    <2>3. TasksOK' /\ task' \in [Tasks -> Task]
      BY <1>7 DEF vars, IInv, TypeOK, TasksOK, TaskOK, TickOK, Placed
    <2> QED BY <1>7, <2>1, <2>2, <2>3, Assemble DEF vars, money, IInv, TypeOK
  <1> QED BY <1>1, <1>2, <1>3, <1>4, <1>5, <1>6, <1>7 DEF Next

\* No handler, timer or crash takes the system out of the invariant.
THEOREM Invariant == Spec => []IInv
  <1> QED BY InitIInv, NextIInv, PTL DEF Spec

\* Every variable keeps its type; in particular no wallet is ever overdrawn by
\* billing ticks, however many handlers and timers overlap.
THEOREM TypeCorrect == Spec => []TypeOK
  <1>1. IInv => TypeOK
    BY DEF IInv
  <1> QED BY <1>1, Invariant, PTL

\* The ledger of a call and the totals on its row always agree: ticks 1..n, each
\* charged once at the price fixed when the call was placed, in either timer mode
\* and across crashes, although ticks write totals from a row read earlier.
THEOREM LedgerIsExact == Spec => []LedgerMatchesTotals
  <1>1. IInv => LedgerMatchesTotals
    <2> SUFFICES ASSUME IInv PROVE LedgerMatchesTotals
      OBVIOUS
    <2>1. \A c \in Calls : TotalsOK(c) /\ call[c].ticks \in Nat
      BY DEF IInv, RowsOK, TypeOK, CallRow
    <2>2. ledger \subseteq Calls \X Nat
      BY DEF IInv, TypeOK
    <2> DEFINE charged == UNION {{c} \X (1..call[c].ticks) : c \in Calls}
    <2>3. ASSUME NEW k \in ledger PROVE k \in charged
      <3>1. PICK c \in Calls, n \in Nat : k = <<c, n>>
        BY <2>2
      <3>2. n \in 1..call[c].ticks
        BY <2>1, <3>1 DEF TotalsOK
      <3> QED BY <3>1, <3>2
    <2>4. ASSUME NEW k \in charged PROVE k \in ledger
      <3>1. PICK c \in Calls : k \in {c} \X (1..call[c].ticks)
        BY <2>4
      <3>2. PICK n \in 1..call[c].ticks : k = <<c, n>>
        BY <3>1
      <3>3. n \in Nat
        BY <2>1, <3>2
      <3> QED BY <2>1, <3>2, <3>3 DEF TotalsOK
    <2>5. ledger = charged
      BY <2>3, <2>4
    <2> QED BY <2>1, <2>5 DEF LedgerMatchesTotals, TotalsOK
  <1> QED BY <1>1, Invariant, PTL


-----------------------------------------------------------------------------
(* Ticks, one by one *)

\* An UPDATE of status and reason leaves every count alone.
LEMMA WriteEndTicks ==
    ASSUME IInv, NEW c \in Calls, NEW status, NEW reason, NEW shown,
           WriteEnd(c, status, reason, shown), NEW d \in Calls
    PROVE  call'[d].ticks = call[d].ticks
  <1>1. call' = [call EXCEPT ![c].status = status, ![c].reason = reason]
    BY Zenon DEF WriteEnd
  <1>2. call \in [Calls -> CallRow]
    BY DEF IInv, TypeOK
  <1> QED BY <1>1, <1>2 DEF CallRow

LEMMA NextTicks ==
    ASSUME IInv, Next, NEW d \in Calls
    PROVE  call'[d].ticks \in {call[d].ticks, call[d].ticks + 1}
  <1> DEFINE OK == call'[d].ticks \in {call[d].ticks, call[d].ticks + 1}
  <1>0. call \in [Calls -> CallRow]
    BY DEF IInv, TypeOK
  <1>1. ASSUME UNCHANGED call PROVE OK
    BY <1>1
  <1>2. ASSUME NEW c \in Calls, NEW status, NEW reason, NEW shown,
               WriteEnd(c, status, reason, shown)
        PROVE  OK
    BY <1>2, WriteEndTicks
  <1>3. ASSUME NEW t \in Tasks, Request(t) PROVE UNCHANGED call
    BY <1>3 DEF OnlyTaskMoves, Request, InitiateStart, AcceptRead, RejectRead, HangUpRead,
                AdminRead, LostRead
  <1>4. ASSUME NEW t \in Tasks, NEW c \in Calls, TimerFires(t, c) PROVE UNCHANGED call
    BY <1>4 DEF TimerFires, RingFires, TickFires, TickSkipped
  <1>5. ASSUME NEW t \in Tasks, InitiateInsert(t) PROVE OK
    <2>1. TaskOK(t) /\ task[t].at = "insert"
      BY <1>5 DEF IInv, TasksOK, InitiateInsert, At
    <2>2. /\ call[task[t].call] = NoRow
          /\ task[t].call \in Calls
          /\ task[t].row.ticks = 0
      <3>1. "insert" \in InitiateSteps /\ "insert" \notin Unbound
        BY DEF Unbound, InitiateSteps
      <3>2. PICK u \in Users, h \in Hosts, r \in Rates : task[t].row = Draft(u, h, r)
        BY <2>1, <3>1 DEF TaskOK
      <3>3. task[t].row.ticks = 0
        BY <3>2 DEF Draft
      <3> QED BY <2>1, <3>1, <3>3 DEF TaskOK
    <2>3. call' = [call EXCEPT ![task[t].call] = task[t].row]
      BY <1>5 DEF InitiateInsert
    <2> QED BY <1>0, <2>2, <2>3 DEF NoRow
  <1>6. ASSUME NEW t \in Tasks, AcceptWrite(t) PROVE OK
    BY <1>0, <1>6 DEF AcceptWrite, CallRow
  <1>7. ASSUME NEW t \in Tasks, TickCharges(t) PROVE OK
    <2> DEFINE c == task[t].call
    <2>1. task[t].at = "tick" /\ KeyIsFree(t)
      BY <1>7 DEF TickCharges, At
    <2>2. call[c].ticks = task[t].row.ticks
      BY <2>1, FreeKeyIsNext
    <2>3. /\ c \in Calls
          /\ call[c] \in CallRow /\ task[t].row \in CallRow
          /\ task[t].row.rate \in Nat
      BY <2>1, TickRow
    <2>4. Charged(call[c], task[t].row).ticks = call[c].ticks + 1
      BY <2>2, <2>3, TickCostPositive, TickBeansNat, ChargedType
    <2>5. call' = [call EXCEPT ![c] = Charged(call[c], task[t].row)]
      BY <1>7 DEF TickCharges
    <2> QED BY <1>0, <2>3, <2>4, <2>5
  <1>8. ASSUME NEW t \in Tasks, Continue(t) PROVE OK
    <2>1. task[t].at \notin Unbound \cup InitiateSteps => task[t].call \in Calls
      BY InFlight
    <2>2. \A c \in task[t].todo : c \in Calls
      BY TaskType
    <2>3. CASE \/ InitiateCheckUser(t) \/ InitiateCheckBalance(t) \/ InitiateArm(t)
               \/ AcceptStartBilling(t) \/ BusyOff(t)
               \/ TickNotOngoing(t) \/ TickDuplicate(t) \/ TickCannotPay(t)
               \/ PoorBusyOff(t) \/ ChainNextTick(t) \/ ReapSelectOngoing(t)
               \/ ReapBusyOff(t) \/ ReapDone(t)
      BY <1>1, <2>3
      DEF OnlyTaskMoves, InitiateCheckUser, InitiateCheckBalance, InitiateArm,
          AcceptStartBilling, BusyOff, TickNotOngoing, TickDuplicate,
          TickCannotPay, PoorBusyOff, ChainNextTick, ReapSelectOngoing,
          ReapBusyOff, ReapDone
    <2>4. CASE \/ RejectWrite(t) \/ CancelWrite(t) \/ HangUpWrite(t)
               \/ AdminCancelWrite(t) \/ AdminEndWrite(t)
               \/ ExpireWrite(t) \/ LostWrite(t) \/ PoorWrite(t)
      <3>1. task[t].call \in Calls
        BY <2>1, <2>4
        DEF RejectWrite, CancelWrite, HangUpWrite, AdminCancelWrite,
            AdminEndWrite, ExpireWrite, LostWrite, PoorWrite, At, Unbound,
            InitiateSteps
      <3>2. \/ UNCHANGED call
            \/ \E status, reason, shown : WriteEnd(task[t].call, status, reason, shown)
        BY <2>4
        DEF RejectWrite, CancelWrite, HangUpWrite, AdminCancelWrite,
            AdminEndWrite, ExpireWrite, LostWrite, PoorWrite, WriteMissed,
            WriteCompleted
      <3> QED BY <1>1, <1>2, <3>1, <3>2
    <2>5. CASE ReapRinging(t) \/ ReapOngoing(t)
      <3>1. \E c \in Calls : \E status, reason, shown : WriteEnd(c, status, reason, shown)
        BY <2>2, <2>5 DEF ReapRinging, ReapOngoing, WriteMissed, WriteCompleted
      <3> QED BY <1>2, <3>1
    <2> QED BY <1>5, <1>6, <1>7, <1>8, <2>3, <2>4, <2>5 DEF Continue
  <1>9. ASSUME NEW t \in Tasks, ReapStart(t) PROVE UNCHANGED call
    BY <1>9 DEF OnlyTaskMoves, ReapStart
  <1>10. ASSUME NEW c \in Calls, GrowStale(c) \/ LockExpires(c) PROVE UNCHANGED call
    BY <1>10 DEF GrowStale, LockExpires
  <1>11. ASSUME Crash PROVE UNCHANGED call
    BY <1>11 DEF Crash, ProcessCrash, InstanceCrash
  <1> QED BY <1>1, <1>3, <1>4, <1>8, <1>9, <1>10, <1>11 DEF Next

\* A call's count moves one tick at a time and never back, although ticks write
\* it from a row read earlier and, with Redis, several chains may be running.
THEOREM TicksMoveOneByOne == Spec => TicksOneByOne
  <1> DEFINE Step == \A c \in Calls : call'[c].ticks \in {call[c].ticks, call[c].ticks + 1}
  <1>1. IInv /\ [Next]_vars => [Step]_vars
    BY NextTicks
  <1>2. []IInv /\ [][Next]_vars => [][Step]_vars
    BY <1>1, PTL
  <1> QED BY <1>2, Invariant, PTL DEF Spec, TicksOneByOne

-----------------------------------------------------------------------------
(* The kinds of steps, by what they write to the calls table *)

\* The reasons whose writes look at the status again, and those of a hang-up.
GuardedReasons == {"ended_by_admin", "connection_lost"}
PartyReasons == {"ended_by_user", "ended_by_host"}

\* A call is ended: a completed call is billed its total so far, and a guarded
\* write found the call active.
Ends(c) ==
    /\ Placed(c)
    /\ \E status \in Ended, reason \in Reasons, shown \in Nat :
        /\ WriteEnd(c, status, reason, shown)
        /\ status = "completed" => shown = call[c].paise
        /\ reason \in GuardedReasons => IsActive(c)

\* A hang-up gives the party that asked for it as its reason.
HangUpsOK == \A t \in Tasks : At(t, "hangUp") => task[t].reason \in PartyReasons

LEMMA EndsMissed ==
    ASSUME NEW c \in Calls, Placed(c), NEW status \in {"missed", "rejected"},
           NEW reason \in Reasons, NEW shown \in Nat,
           reason \in GuardedReasons => IsActive(c),
           WriteEnd(c, status, reason, shown)
    PROVE  Ends(c)
  <1>1. status \in Ended /\ status # "completed"
    BY DEF Ended
  <1> QED BY <1>1 DEF Ends

LEMMA EndsCompleted ==
    ASSUME IInv, NEW c \in Calls, Placed(c), NEW reason \in Reasons,
           reason \in GuardedReasons => IsActive(c),
           WriteCompleted(c, reason)
    PROVE  Ends(c)
  <1>1. "completed" \in Ended /\ call[c].paise \in Nat
    BY PaiseNat DEF Ended
  <1>2. WriteEnd(c, "completed", reason, call[c].paise)
    BY DEF WriteCompleted
  <1> QED BY <1>1, <1>2 DEF Ends

\* The handlers that end a call.
LEMMA EndKinds ==
    ASSUME IInv, HangUpsOK, NEW t \in Tasks,
           \/ RejectWrite(t) \/ CancelWrite(t) \/ HangUpWrite(t)
           \/ AdminCancelWrite(t) \/ AdminEndWrite(t)
           \/ ExpireWrite(t) \/ LostWrite(t) \/ PoorWrite(t)
    PROVE  \/ UNCHANGED <<call, bill, money>>
           \/ \E c \in Calls : Ends(c) /\ UNCHANGED money
  <1> DEFINE c == task[t].call
  <1>1. task[t].at \notin Unbound \cup InitiateSteps
    BY DEF RejectWrite, CancelWrite, HangUpWrite, AdminCancelWrite,
           AdminEndWrite, ExpireWrite, LostWrite, PoorWrite, At, Unbound,
           InitiateSteps
  <1>2. c \in Calls /\ Placed(c) /\ call[c].paise \in Nat
    BY <1>1, InFlight, PaiseNat
  <1>3. /\ "ended_by_admin" \in Reasons /\ "connection_lost" \in Reasons
        /\ {"rejected_by_host", "cancelled_by_caller", "no_answer",
            "insufficient_balance"} \subseteq Reasons \ GuardedReasons
        /\ PartyReasons \subseteq Reasons \ GuardedReasons
    BY DEF Reasons, GuardedReasons, PartyReasons
  <1>4. \A s \in {"ringing", "ongoing"} : call[c].status = s => IsActive(c)
    BY DEF IsActive, Active
  <1> HIDE DEF c
  <1>5. CASE RejectWrite(t)
    <2>1. WriteEnd(c, "rejected", "rejected_by_host", 0) /\ UNCHANGED money
      BY <1>5 DEF RejectWrite, c
    <2> QED BY <1>2, <1>3, <2>1, EndsMissed
  <1>6. CASE CancelWrite(t)
    <2>1. WriteEnd(c, "missed", "cancelled_by_caller", call[c].paise) /\ UNCHANGED money
      BY <1>6 DEF CancelWrite, WriteMissed, c
    <2> QED BY <1>2, <1>3, <2>1, EndsMissed
  <1>7. CASE HangUpWrite(t)
    <2>1. /\ WriteCompleted(c, task[t].reason) /\ UNCHANGED money
          /\ task[t].reason \in PartyReasons
      BY <1>7 DEF HangUpWrite, HangUpsOK, c
    <2> QED BY <1>2, <1>3, <2>1, EndsCompleted
  <1>8. CASE AdminCancelWrite(t)
    <2>1. UNCHANGED money
      BY <1>8 DEF AdminCancelWrite
    <2>2. \/ UNCHANGED <<call, bill>>
          \/ /\ call[c].status = "ringing"
             /\ WriteEnd(c, "missed", "ended_by_admin", call[c].paise)
      BY <1>8 DEF AdminCancelWrite, WriteMissed, c
    <2> QED BY <1>2, <1>3, <1>4, <2>1, <2>2, EndsMissed
  <1>9. CASE AdminEndWrite(t)
    <2>1. UNCHANGED money
      BY <1>9 DEF AdminEndWrite
    <2>2. \/ UNCHANGED <<call, bill>>
          \/ call[c].status = "ongoing" /\ WriteCompleted(c, "ended_by_admin")
      BY <1>9 DEF AdminEndWrite, c
    <2> QED BY <1>2, <1>3, <1>4, <2>1, <2>2, EndsCompleted
  <1>10. CASE ExpireWrite(t)
    <2>1. WriteEnd(c, "missed", "no_answer", 0) /\ UNCHANGED money
      BY <1>10 DEF ExpireWrite, c
    <2> QED BY <1>2, <1>3, <2>1, EndsMissed
  <1>11. CASE LostWrite(t)
    <2>1. UNCHANGED money
      BY <1>11 DEF LostWrite
    <2>2. \/ UNCHANGED <<call, bill>>
          \/ call[c].status = "ongoing" /\ WriteCompleted(c, "connection_lost")
      BY <1>11 DEF LostWrite, c
    <2> QED BY <1>2, <1>3, <1>4, <2>1, <2>2, EndsCompleted
  <1>12. CASE PoorWrite(t)
    <2>1. WriteCompleted(c, "insufficient_balance") /\ UNCHANGED money
      BY <1>12 DEF PoorWrite, c
    <2> QED BY <1>2, <1>3, <2>1, EndsCompleted
  <1> QED BY <1>5, <1>6, <1>7, <1>8, <1>9, <1>10, <1>11, <1>12

\* Every other step of a handler in flight that leaves the table alone.
LEMMA QuietKinds ==
    ASSUME NEW t \in Tasks,
           \/ InitiateCheckUser(t) \/ InitiateCheckBalance(t) \/ InitiateArm(t)
           \/ AcceptStartBilling(t) \/ BusyOff(t)
           \/ TickNotOngoing(t) \/ TickDuplicate(t) \/ TickCannotPay(t)
           \/ PoorBusyOff(t) \/ ChainNextTick(t) \/ ReapSelectOngoing(t)
           \/ ReapBusyOff(t) \/ ReapDone(t)
    PROVE  UNCHANGED <<call, bill, money>>
  BY DEF OnlyTaskMoves, InitiateCheckUser, InitiateCheckBalance, InitiateArm,
         AcceptStartBilling, BusyOff, TickNotOngoing, TickDuplicate,
         TickCannotPay, PoorBusyOff, ChainNextTick, ReapSelectOngoing,
         ReapBusyOff, ReapDone

\* Whatever a step does, it leaves rows, bills and money alone, ends one call,
\* answers one, places one, or charges one tick.
LEMMA StepKinds ==
    ASSUME IInv, HangUpsOK, Next
    PROVE  \/ UNCHANGED <<call, bill, money>>
           \/ \E c \in Calls : Ends(c) /\ UNCHANGED money
           \/ \E t \in Tasks : AcceptWrite(t) \/ InitiateInsert(t) \/ TickCharges(t)
  <1> DEFINE Kinds ==
           \/ UNCHANGED <<call, bill, money>>
           \/ \E c \in Calls : Ends(c) /\ UNCHANGED money
           \/ \E t \in Tasks : AcceptWrite(t) \/ InitiateInsert(t) \/ TickCharges(t)
  <1>1. ASSUME NEW t \in Tasks, Request(t) \/ ReapStart(t) PROVE Kinds
    BY <1>1 DEF OnlyTaskMoves, Request, InitiateStart, AcceptRead, RejectRead, HangUpRead,
                AdminRead, LostRead, ReapStart
  <1>2. ASSUME NEW t \in Tasks, NEW c \in Calls, TimerFires(t, c) PROVE Kinds
    BY <1>2 DEF TimerFires, RingFires, TickFires, TickSkipped
  <1>3. ASSUME NEW c \in Calls, GrowStale(c) \/ LockExpires(c) PROVE Kinds
    BY <1>3 DEF GrowStale, LockExpires
  <1>4. ASSUME Crash PROVE Kinds
    BY <1>4 DEF Crash, ProcessCrash, InstanceCrash
  <1>5. ASSUME NEW t \in Tasks, ReapRinging(t) \/ ReapOngoing(t) PROVE Kinds
    <2>1. /\ {"reaped_stale_ringing", "reaped_stale_ongoing"} \subseteq Reasons \ GuardedReasons
          /\ UNCHANGED money
      BY <1>5 DEF Reasons, GuardedReasons, ReapRinging, ReapOngoing
    <2>2. PICK c \in task[t].todo :
            \/ WriteEnd(c, "missed", "reaped_stale_ringing", 0)
            \/ WriteCompleted(c, "reaped_stale_ongoing")
      BY <1>5 DEF ReapRinging, ReapOngoing, WriteMissed
    <2>3. c \in Calls /\ Placed(c)
      BY TaskType
    <2>4. Ends(c)
      BY <2>1, <2>2, <2>3, EndsMissed, EndsCompleted
    <2> QED BY <2>1, <2>3, <2>4
  <1>6. ASSUME NEW t \in Tasks, Continue(t) PROVE Kinds
    <2>1. CASE \/ RejectWrite(t) \/ CancelWrite(t) \/ HangUpWrite(t)
               \/ AdminCancelWrite(t) \/ AdminEndWrite(t)
               \/ ExpireWrite(t) \/ LostWrite(t) \/ PoorWrite(t)
      BY <2>1, EndKinds
    <2>2. CASE \/ InitiateCheckUser(t) \/ InitiateCheckBalance(t) \/ InitiateArm(t)
               \/ AcceptStartBilling(t) \/ BusyOff(t)
               \/ TickNotOngoing(t) \/ TickDuplicate(t) \/ TickCannotPay(t)
               \/ PoorBusyOff(t) \/ ChainNextTick(t) \/ ReapSelectOngoing(t)
               \/ ReapBusyOff(t) \/ ReapDone(t)
      BY <2>2, QuietKinds
    <2>3. CASE AcceptWrite(t) \/ InitiateInsert(t) \/ TickCharges(t)
      BY <2>3
    <2> HIDE DEF Kinds
    <2> QED BY <1>5, <1>6, <2>1, <2>2, <2>3 DEF Continue
  <1> HIDE DEF Kinds
  <1>7. Kinds
    BY <1>1, <1>2, <1>3, <1>4, <1>6 DEF Next
  <1> QED BY <1>7 DEF Kinds

-----------------------------------------------------------------------------
(* What a handler knows when it starts to tick or to hang up *)

\* A tick starts from the row as it is; a hang-up has a party's reason.
Fresh(r) ==
    /\ r.at = "tick" => r.row = call[r.call]
    /\ r.at = "hangUp" => r.reason \in PartyReasons

Later(step) == step \notin {"tick", "hangUp"}

LEMMA FreshPending ==
    ASSUME NEW step, Later(step), NEW c
    PROVE  Fresh(Pending(step, c))
  BY DEF Fresh, Later, Pending

LEMMA FreshReaping ==
    ASSUME NEW step, Later(step), NEW c, NEW selected
    PROVE  Fresh(Reaping(step, c, selected))
  BY DEF Fresh, Later, Reaping, Pending

LEMMA BecomeFresh ==
    ASSUME IInv, NEW t \in Tasks, NEW r, Fresh(r), Become(t, r),
           NEW s \in Tasks, task'[s] # task[s]
    PROVE  Fresh(task'[s])
  <1>1. task'[s] = r
    BY DEF Become, IInv, TypeOK
  <1> QED BY <1>1

LEMMA GotoFresh ==
    ASSUME IInv, NEW t \in Tasks, NEW step, Later(step), Goto(t, step),
           NEW s \in Tasks, task'[s] # task[s]
    PROVE  Fresh(task'[s])
  <1>1. task'[s] = [task[t] EXCEPT !.at = step]
    BY DEF Goto, IInv, TypeOK
  <1>2. task[t] \in Task
    BY TaskType
  <1>3. task'[s].at = step
    BY <1>1, <1>2 DEF Task
  <1> QED BY <1>3 DEF Fresh, Later

LEMMA AfterTickFresh ==
    ASSUME IInv, NEW t \in Tasks, AfterTick(t), NEW s \in Tasks, task'[s] # task[s]
    PROVE  Fresh(task'[s])
  <1>1. Later("chain") /\ Later("idle")
    BY DEF Later
  <1>2. Fresh(Pending("chain", task[t].call)) /\ Fresh(Idle)
    BY <1>1, FreshPending DEF Idle
  <1> QED BY <1>2, BecomeFresh DEF AfterTick, Finish

LEMMA TaskKinds ==
    ASSUME IInv, Next, NEW s \in Tasks, task'[s] # task[s]
    PROVE  Fresh(task'[s])
  <1>1. /\ Later("idle") /\ Later("checkUser") /\ Later("checkBalance") /\ Later("insert")
        /\ Later("arm") /\ Later("accept") /\ Later("accepted") /\ Later("reject")
        /\ Later("cancel") /\ Later("adminCancel") /\ Later("adminEnd")
        /\ Later("expire") /\ Later("lost") /\ Later("busyOff") /\ Later("poor")
        /\ Later("poorBusyOff") /\ Later("chain") /\ Later("reapRinging")
        /\ Later("reapOngoing") /\ Later("reapBusyOff")
    BY DEF Later
  <1>2. \A c : /\ Fresh(Pending("arm", c)) /\ Fresh(Pending("accept", c))
               /\ Fresh(Pending("reject", c)) /\ Fresh(Pending("cancel", c))
               /\ Fresh(Pending("adminCancel", c)) /\ Fresh(Pending("adminEnd", c))
               /\ Fresh(Pending("expire", c)) /\ Fresh(Pending("lost", c))
               /\ Fresh(Pending("busyOff", c)) /\ Fresh(Pending("chain", c))
    BY <1>1, FreshPending
  <1>3. Fresh(Idle)
    BY <1>1, FreshPending DEF Idle
  <1>4. ASSUME NEW t \in Tasks, Finish(t) PROVE Fresh(task'[s])
    BY <1>3, <1>4, BecomeFresh DEF Finish
  <1>5. ASSUME NEW t \in Tasks, NEW c, NEW S,
               \/ Become(t, Reaping("reapRinging", c, S))
               \/ Become(t, Reaping("reapOngoing", c, S))
               \/ Become(t, Reaping("reapBusyOff", c, S))
        PROVE  Fresh(task'[s])
    BY <1>1, <1>5, FreshReaping, BecomeFresh
  <1>6. ASSUME NEW t \in Tasks, Request(t) PROVE Fresh(task'[s])
    <2>1. ASSUME NEW c \in Calls,
                 \/ AcceptRead(t, c) \/ RejectRead(t, c) \/ AdminRead(t, c) \/ LostRead(t, c)
          PROVE  Fresh(task'[s])
      BY <1>2, <2>1, BecomeFresh DEF AcceptRead, RejectRead, AdminRead, LostRead
    <2>2. ASSUME NEW c \in Calls, HangUpRead(t, c) PROVE Fresh(task'[s])
      <3>1. \A by \in PartyReasons : Fresh([Pending("hangUp", c) EXCEPT !.reason = by])
        BY DEF Fresh, Pending
      <3> QED BY <1>2, <2>2, <3>1, BecomeFresh DEF HangUpRead, PartyReasons
    <2>3. ASSUME NEW u \in Users, NEW h \in Hosts, NEW r \in Rates, InitiateStart(t, u, h, r)
          PROVE  Fresh(task'[s])
      <3>1. \A c : Fresh([Pending("checkUser", c) EXCEPT !.row = Draft(u, h, r)])
        BY DEF Fresh, Pending
      <3> QED BY <2>3, <3>1, BecomeFresh DEF InitiateStart
    <2> QED BY <1>6, <2>1, <2>2, <2>3 DEF Request
  <1>7. ASSUME NEW t \in Tasks, NEW c \in Calls, TimerFires(t, c) PROVE Fresh(task'[s])
    <2>1. CASE TickFires(t, c)
      <3>1. Fresh([Pending("tick", c) EXCEPT !.row = call[c]])
        BY DEF Fresh, Pending
      <3> QED BY <2>1, <3>1, BecomeFresh DEF TickFires
    <2>2. CASE RingFires(t, c) \/ TickSkipped(t, c)
      BY <1>2, <2>2, BecomeFresh DEF RingFires, TickSkipped
    <2> QED BY <1>7, <2>1, <2>2 DEF TimerFires
  <1>8. ASSUME NEW t \in Tasks, Continue(t) PROVE Fresh(task'[s])
    <2>1. CASE \/ InitiateCheckUser(t) \/ InitiateCheckBalance(t) \/ AcceptWrite(t)
               \/ TickCannotPay(t) \/ PoorWrite(t)
      BY <1>1, <1>4, <2>1, GotoFresh
      DEF InitiateCheckUser, InitiateCheckBalance, AcceptWrite, TickCannotPay, PoorWrite
    <2>2. CASE \/ InitiateInsert(t) \/ InitiateArm(t) \/ AcceptStartBilling(t)
               \/ RejectWrite(t) \/ CancelWrite(t) \/ HangUpWrite(t) \/ BusyOff(t)
               \/ AdminCancelWrite(t) \/ AdminEndWrite(t) \/ ExpireWrite(t)
               \/ LostWrite(t) \/ ChainNextTick(t) \/ ReapDone(t)
      BY <1>2, <1>4, <2>2, BecomeFresh
      DEF InitiateInsert, InitiateArm, AcceptStartBilling, RejectWrite,
          CancelWrite, HangUpWrite, BusyOff, AdminCancelWrite, AdminEndWrite,
          ExpireWrite, LostWrite, ChainNextTick, ReapDone
    <2>3. CASE TickNotOngoing(t) \/ TickCharges(t) \/ TickDuplicate(t) \/ PoorBusyOff(t)
      BY <2>3, AfterTickFresh DEF TickNotOngoing, TickCharges, TickDuplicate, PoorBusyOff
    <2>4. CASE \/ ReapRinging(t) \/ ReapSelectOngoing(t) \/ ReapOngoing(t) \/ ReapBusyOff(t)
      BY <1>5, <2>4 DEF ReapRinging, ReapSelectOngoing, ReapOngoing, ReapBusyOff
    <2> QED BY <1>8, <2>1, <2>2, <2>3, <2>4 DEF Continue
  <1>9. ASSUME NEW t \in Tasks, ReapStart(t) PROVE Fresh(task'[s])
    BY <1>5, <1>9 DEF ReapStart
  <1>10. ASSUME NEW c \in Calls, GrowStale(c) \/ LockExpires(c) PROVE FALSE
    BY <1>10 DEF GrowStale, LockExpires
  <1>11. ASSUME Crash PROVE Fresh(task'[s])
    <2>1. task'[s] = Idle
      BY <1>11 DEF Crash, ProcessCrash, InstanceCrash
    <2> QED BY <1>3, <2>1
  <1> QED BY <1>6, <1>7, <1>8, <1>9, <1>10, <1>11 DEF Next

-----------------------------------------------------------------------------
(* What those steps do to rows, bills and money *)

LEMMA EndsEffect ==
    ASSUME IInv, NEW c \in Calls, Ends(c)
    PROVE  /\ \A d \in Calls \ {c} : call'[d] = call[d] /\ bill'[d] = bill[d]
           /\ call'[c].status = "completed" => bill'[c] = call[c].paise
           /\ call'[c].reason \in GuardedReasons => IsActive(c)
           /\ call'[c].status \in Ended
           /\ Placed(c)
           /\ call'[c].user = call[c].user
           /\ call'[c].host = call[c].host
           /\ call'[c].rate = call[c].rate
           /\ call'[c].ticks = call[c].ticks
           /\ call'[c].paise = call[c].paise
           /\ call'[c].beans = call[c].beans
  <1>1. PICK status \in Ended, reason \in Reasons, shown \in Nat :
            /\ WriteEnd(c, status, reason, shown)
            /\ status = "completed" => shown = call[c].paise
            /\ reason \in GuardedReasons => IsActive(c)
    BY DEF Ends
  <1>2. call \in [Calls -> CallRow] /\ bill \in [Calls -> Nat]
    BY DEF IInv, TypeOK
  <1>3. call' = [call EXCEPT ![c].status = status, ![c].reason = reason]
    BY <1>1, Zenon DEF WriteEnd
  <1>4. bill' = [bill EXCEPT ![c] = shown]
    BY <1>1 DEF WriteEnd
  <1>5. /\ \A d \in Calls \ {c} : call'[d] = call[d] /\ bill'[d] = bill[d]
        /\ bill'[c] = shown
    BY <1>2, <1>3, <1>4
  <1>6. /\ call'[c].status = status
        /\ call'[c].reason = reason
        /\ call'[c].user = call[c].user
        /\ call'[c].host = call[c].host
        /\ call'[c].rate = call[c].rate
        /\ call'[c].ticks = call[c].ticks
        /\ call'[c].paise = call[c].paise
        /\ call'[c].beans = call[c].beans
    BY <1>2, <1>3 DEF CallRow
  <1> QED BY <1>1, <1>5, <1>6 DEF Ends

LEMMA AcceptEffect ==
    ASSUME IInv, NEW t \in Tasks, AcceptWrite(t)
    PROVE  \E c \in Calls :
            /\ \A d \in Calls \ {c} : call'[d] = call[d]
            /\ Placed(c)
            /\ call'[c].status = "ongoing"
            /\ call'[c].reason = call[c].reason
            /\ call'[c].user = call[c].user
            /\ call'[c].host = call[c].host
            /\ call'[c].rate = call[c].rate
            /\ call'[c].ticks = call[c].ticks
            /\ call'[c].paise = call[c].paise
            /\ call'[c].beans = call[c].beans
            /\ UNCHANGED <<bill, money>>
  <1> DEFINE c == task[t].call
  <1>1. c \in Calls /\ Placed(c)
    BY InFlight DEF AcceptWrite, At, Unbound, InitiateSteps
  <1>2. call' = [call EXCEPT ![c].status = "ongoing"] /\ UNCHANGED <<bill, money>>
    BY DEF AcceptWrite
  <1>3. call \in [Calls -> CallRow]
    BY DEF IInv, TypeOK
  <1> HIDE DEF c
  <1> QED BY <1>1, <1>2, <1>3 DEF CallRow

LEMMA InsertEffect ==
    ASSUME IInv, NEW t \in Tasks, InitiateInsert(t)
    PROVE  \E c \in Calls, u \in Users, h \in Hosts, r \in Rates :
            /\ \A d \in Calls \ {c} : call'[d] = call[d]
            /\ call[c] = NoRow
            /\ call'[c] = Draft(u, h, r)
            /\ UNCHANGED <<bill, money>>
  <1> DEFINE c == task[t].call
  <1>1. TaskOK(t) /\ task[t].at = "insert"
    BY DEF IInv, TasksOK, InitiateInsert, At
  <1>2. "insert" \in InitiateSteps /\ "insert" \notin Unbound
    BY DEF Unbound, InitiateSteps
  <1>3. /\ c \in Calls
        /\ call[c] = NoRow
        /\ \E u \in Users, h \in Hosts, r \in Rates : task[t].row = Draft(u, h, r)
    BY <1>1, <1>2 DEF TaskOK
  <1>4. call' = [call EXCEPT ![c] = task[t].row] /\ UNCHANGED <<bill, money>>
    BY DEF InitiateInsert
  <1>5. call \in [Calls -> CallRow]
    BY DEF IInv, TypeOK
  <1>6. /\ call'[c] = task[t].row
        /\ \A d \in Calls \ {c} : call'[d] = call[d]
    BY <1>3, <1>4, <1>5
  <1> HIDE DEF c
  <1> QED BY <1>3, <1>4, <1>6

\* A tick that charges adds one to its row, whatever version of it was read.
LEMMA ChargeEffect ==
    ASSUME IInv, NEW t \in Tasks, TickCharges(t), NEW c, c = task[t].call
    PROVE  /\ At(t, "tick") /\ SeenOngoing(t)
           /\ c \in Calls
           /\ call[c].user \in Users /\ call[c].host \in Hosts
           /\ call[c].rate \in Nat
           /\ task[t].row.ticks = call[c].ticks
           /\ \A d \in Calls \ {c} : call'[d] = call[d]
           /\ call'[c].status = call[c].status
           /\ call'[c].reason = call[c].reason
           /\ call'[c].user = call[c].user
           /\ call'[c].host = call[c].host
           /\ call'[c].rate = call[c].rate
           /\ call'[c].ticks = call[c].ticks + 1
           /\ call'[c].paise = call[c].paise + TickCost(call[c].rate)
           /\ call'[c].beans = call[c].beans + TickBeans(call[c].rate)
           /\ wallet' = [wallet EXCEPT ![call[c].user] = @ - TickCost(call[c].rate)]
           /\ hostBeans' = [hostBeans EXCEPT ![call[c].host] = @ + TickBeans(call[c].rate)]
           /\ UNCHANGED bill
  <1> DEFINE row == task[t].row
  <1>1. /\ task[t].at = "tick" /\ At(t, "tick") /\ SeenOngoing(t) /\ KeyIsFree(t)
        /\ TransferUserToHost(row.user, row.host, TickCost(row.rate),
                              TickBeans(row.rate), TickKey(t))
        /\ call' = [call EXCEPT ![c] = Charged(call[c], row)]
        /\ UNCHANGED bill
    BY DEF TickCharges, At
  <1>2. row.ticks = call[c].ticks
    BY <1>1, FreeKeyIsNext
  <1>3. /\ c \in Calls
        /\ call[c] \in CallRow /\ row \in CallRow
        /\ row.user = call[c].user /\ row.user \in Users
        /\ row.host = call[c].host /\ row.host \in Hosts
        /\ row.rate = call[c].rate /\ row.rate \in Nat
        /\ row.paise = row.ticks * TickCost(row.rate)
        /\ row.beans = row.ticks * TickBeans(row.rate)
    BY <1>1, TickRow
  <1>4. row.paise = call[c].paise /\ row.beans = call[c].beans
    BY <1>2, <1>3 DEF IInv, RowsOK, TotalsOK
  <1>5. call \in [Calls -> CallRow]
    BY DEF IInv, TypeOK
  <1>6. TickCost(row.rate) \in Nat /\ TickBeans(row.rate) \in Nat
    BY <1>3, TickCostPositive, TickBeansNat
  <1>7. Charged(call[c], row).reason = call[c].reason
    BY <1>3 DEF Charged, CallRow
  <1> HIDE DEF row
  <1>8. /\ call'[c] = Charged(call[c], row)
        /\ \A d \in Calls \ {c} : call'[d] = call[d]
    BY <1>1, <1>3, <1>5
  <1>9. /\ wallet' = [wallet EXCEPT ![call[c].user] = @ - TickCost(call[c].rate)]
        /\ hostBeans' = [hostBeans EXCEPT ![call[c].host] = @ + TickBeans(call[c].rate)]
    BY <1>1, <1>3 DEF TransferUserToHost
  <1>10. /\ call'[c].status = call[c].status
         /\ call'[c].user = call[c].user
         /\ call'[c].host = call[c].host
         /\ call'[c].rate = call[c].rate
         /\ call'[c].ticks = row.ticks + 1
         /\ call'[c].paise = row.paise + TickCost(row.rate)
         /\ call'[c].beans = row.beans + TickBeans(row.rate)
    BY <1>3, <1>6, <1>8, ChargedType
  <1>11. task[t].row.ticks = row.ticks
    BY DEF row
  <1> QED
    BY <1>1, <1>2, <1>3, <1>4, <1>7, <1>8, <1>9, <1>10, <1>11

-----------------------------------------------------------------------------
(* Forced ends *)

LEMMA InitHangUps == Init => HangUpsOK
  BY DEF Init, HangUpsOK, At, Idle, Pending

LEMMA HangUpsPreserved == IInv /\ HangUpsOK /\ [Next]_vars => HangUpsOK'
  <1> SUFFICES ASSUME IInv, HangUpsOK, [Next]_vars, NEW s \in Tasks, At(s, "hangUp")'
               PROVE  task'[s].reason \in PartyReasons
    BY DEF HangUpsOK
  <1>1. CASE task'[s] = task[s]
    BY <1>1 DEF HangUpsOK, At
  <1>2. CASE task'[s] # task[s]
    <2>1. Next
      BY <1>2 DEF vars
    <2>2. Fresh(task'[s])
      BY <1>2, <2>1, TaskKinds
    <2> QED BY <2>2 DEF Fresh, At
  <1> QED BY <1>1, <1>2

\* The admin's forced end and the connection watchdog look at the status again
\* when they write, so neither reason ever replaces how a call had ended,
\* whichever handlers ran in between.
THEOREM ForcedEndsYield == Spec => GuardedEndsYield
  <1> DEFINE Yields == \A c \in Calls :
        (/\ call'[c].reason \in {"ended_by_admin", "connection_lost"}
         /\ call'[c].reason # call[c].reason) => IsActive(c)
  <1>1. IInv /\ HangUpsOK /\ [Next]_vars => [Yields]_vars
    <2> SUFFICES ASSUME IInv, HangUpsOK, Next, NEW d \in Calls,
                        call'[d].reason \in GuardedReasons,
                        call'[d].reason # call[d].reason
                 PROVE  IsActive(d)
      BY DEF GuardedReasons
    <2>1. ASSUME NEW c \in Calls, Ends(c) PROVE IsActive(d)
      <3>1. \A e \in Calls \ {c} : call'[e] = call[e]
        BY <2>1, EndsEffect
      <3>2. call'[c].reason \in GuardedReasons => IsActive(c)
        BY <2>1, EndsEffect
      <3> QED BY <3>1, <3>2
    <2>2. ASSUME NEW t \in Tasks, AcceptWrite(t) PROVE FALSE
      BY <2>2, AcceptEffect
    <2>3. ASSUME NEW t \in Tasks, InitiateInsert(t) PROVE FALSE
      <3>1. PICK c \in Calls, u \in Users, h \in Hosts, r \in Rates :
                /\ \A e \in Calls \ {c} : call'[e] = call[e]
                /\ call'[c] = Draft(u, h, r)
        BY <2>3, InsertEffect
      <3>2. Draft(u, h, r).reason = "none"
        BY DEF Draft
      <3> QED BY <3>1, <3>2 DEF GuardedReasons
    <2>4. ASSUME NEW t \in Tasks, TickCharges(t) PROVE FALSE
      <3>1. /\ task[t].call \in Calls
            /\ \A e \in Calls \ {task[t].call} : call'[e] = call[e]
            /\ call'[task[t].call].reason = call[task[t].call].reason
        BY <2>4, ChargeEffect
      <3> QED BY <3>1
    <2>5. ~UNCHANGED call
      OBVIOUS
    <2> QED BY <2>1, <2>2, <2>3, <2>4, <2>5, StepKinds
  <1>2. Spec => []HangUpsOK
    BY InitHangUps, HangUpsPreserved, Invariant, PTL DEF Spec
  <1>3. []IInv /\ []HangUpsOK /\ [][Next]_vars => [][Yields]_vars
    BY <1>1, PTL
  <1> QED BY <1>2, <1>3, Invariant, PTL DEF Spec, GuardedEndsYield

-----------------------------------------------------------------------------
(* The bill *)

\* A completed call was billed its total; or one tick that was under way has
\* charged since, and every other one under way has lost its number.
BillOK(c) ==
    call[c].status = "completed" =>
        \/ call[c].paise = bill[c]
        \/ /\ call[c].paise = bill[c] + TickCost(call[c].rate)
           /\ \A t \in Tasks :
                At(t, "tick") /\ task[t].call = c /\ SeenOngoing(t) =>
                    task[t].row.ticks < call[c].ticks

BillsOK == \A c \in Calls : BillOK(c)

LEMMA InitBills == Init => BillsOK
  BY DEF Init, BillsOK, BillOK, NoRow

\* A row that keeps its total and its status keeps its bill right: the ticks that
\* start now have read the status.
LEMMA BillKept ==
    ASSUME IInv, Next, NEW c \in Calls, BillOK(c), call'[c] = call[c],
           bill'[c] = bill[c]
    PROVE  BillOK(c)'
  <1> SUFFICES ASSUME call[c].status = "completed",
                      call[c].paise = bill[c] + TickCost(call[c].rate),
                      call[c].paise # bill[c],
                      NEW t \in Tasks,
                      task'[t].at = "tick", task'[t].call = c,
                      task'[t].row.status = "ongoing"
               PROVE  task'[t].row.ticks < call[c].ticks
    BY DEF BillOK, At, SeenOngoing
  <1>1. CASE task'[t] = task[t]
    BY <1>1 DEF BillOK, At, SeenOngoing
  <1>2. CASE task'[t] # task[t]
    BY <1>2, TaskKinds DEF Fresh
  <1> QED BY <1>1, <1>2

LEMMA BillsPreserved == IInv /\ HangUpsOK /\ BillsOK /\ [Next]_vars => BillsOK'
  <1>1. ASSUME BillsOK, UNCHANGED vars PROVE BillsOK'
    BY <1>1 DEF BillsOK, BillOK, At, SeenOngoing, vars
  <1> SUFFICES ASSUME IInv, HangUpsOK, BillsOK, Next, NEW d \in Calls PROVE BillOK(d)'
    BY <1>1 DEF BillsOK
  <1>2. BillOK(d)
    BY DEF BillsOK
  <1>3. ASSUME call'[d] = call[d], bill'[d] = bill[d] PROVE BillOK(d)'
    BY <1>2, <1>3, BillKept
  <1>4. ASSUME call'[d].status # "completed" PROVE BillOK(d)'
    BY <1>4 DEF BillOK
  <1>5. ASSUME NEW c \in Calls, Ends(c) PROVE BillOK(d)'
    <2>1. CASE d = c
      <3>1. call'[c].status = "completed" => call'[c].paise = bill'[c]
        BY <1>5, EndsEffect
      <3> QED BY <2>1, <3>1 DEF BillOK
    <2>2. CASE d # c
      BY <1>3, <1>5, <2>2, EndsEffect
    <2> QED BY <2>1, <2>2
  <1>6. ASSUME NEW t \in Tasks, AcceptWrite(t) PROVE BillOK(d)'
    <2>1. PICK c \in Calls : /\ \A e \in Calls \ {c} : call'[e] = call[e]
                             /\ call'[c].status = "ongoing"
                             /\ UNCHANGED bill
      BY <1>6, AcceptEffect
    <2> QED BY <1>3, <1>4, <2>1
  <1>7. ASSUME NEW t \in Tasks, InitiateInsert(t) PROVE BillOK(d)'
    <2>1. PICK c \in Calls, u \in Users, h \in Hosts, r \in Rates :
                /\ \A e \in Calls \ {c} : call'[e] = call[e]
                /\ call'[c] = Draft(u, h, r)
                /\ UNCHANGED bill
      BY <1>7, InsertEffect
    <2>2. Draft(u, h, r).status = "ringing"
      BY DEF Draft
    <2> QED BY <1>3, <1>4, <2>1, <2>2
  <1>8. ASSUME NEW t \in Tasks, TickCharges(t) PROVE BillOK(d)'
    <2> DEFINE c == task[t].call
    <2>1. /\ At(t, "tick") /\ SeenOngoing(t)
          /\ c \in Calls /\ call[c].rate \in Nat
          /\ task[t].row.ticks = call[c].ticks
          /\ \A e \in Calls \ {c} : call'[e] = call[e]
          /\ call'[c].status = call[c].status
          /\ call'[c].rate = call[c].rate
          /\ call'[c].ticks = call[c].ticks + 1
          /\ call'[c].paise = call[c].paise + TickCost(call[c].rate)
          /\ UNCHANGED bill
      BY <1>8, ChargeEffect
    <2>2. call[c].ticks \in Nat
      BY <2>1 DEF IInv, TypeOK, CallRow
    <2> HIDE DEF c
    <2>3. CASE d # c
      BY <1>3, <2>1, <2>3
    <2>4. CASE d = c /\ call[c].status = "completed"
      <3>1. ~(task[t].row.ticks < call[c].ticks)
        BY <2>1, <2>2
      <3>2. call[c].paise = bill[c]
        BY <1>2, <2>1, <2>4, <3>1 DEF BillOK, c
      <3>3. ASSUME NEW s \in Tasks, task'[s].at = "tick", task'[s].call = c,
                   task'[s].row.status = "ongoing"
            PROVE  task'[s].row.ticks < call'[c].ticks
        <4>1. task'[s] = task[s]
          BY <2>4, <3>3, TaskKinds DEF Fresh
        <4>2. task[s].row.ticks \in Nat /\ task[s].row.ticks <= call[c].ticks
          BY <3>3, <4>1, TickRow
        <4> QED BY <2>1, <2>2, <4>1, <4>2
      <3>4. call'[c].paise = bill'[c] + TickCost(call'[c].rate)
        BY <2>1, <3>2
      <3> QED BY <2>4, <3>3, <3>4 DEF BillOK, At, SeenOngoing
    <2>5. CASE d = c /\ call[c].status # "completed"
      BY <1>4, <2>1, <2>5
    <2> QED BY <2>3, <2>4, <2>5
  <1> QED BY <1>3, <1>5, <1>6, <1>7, <1>8, StepKinds

\* What call:ended announced for a completed call differs from its final charge
\* by one tick at most, the one that was under way, in both timer modes: with
\* Redis several ticks may be, and all but one lose their number.
THEOREM BillIsNearlyRight == Spec => []BillShortByOneTickAtMost
  <1>1. Init => HangUpsOK /\ BillsOK
    BY InitHangUps, InitBills
  <1>2. IInv /\ (HangUpsOK /\ BillsOK) /\ [Next]_vars => (HangUpsOK /\ BillsOK)'
    BY HangUpsPreserved, BillsPreserved
  <1>3. IInv /\ HangUpsOK /\ BillsOK => BillShortByOneTickAtMost
    <2> SUFFICES ASSUME IInv, BillsOK, NEW c \in Calls, call[c].status = "completed"
                 PROVE  call[c].paise - bill[c] \in {0, TickCost(call[c].rate)}
      BY DEF BillShortByOneTickAtMost
    <2>1. /\ call[c].paise \in Nat /\ bill[c] \in Nat
          /\ call[c].rate \in Nat
      <3>1. call[c] \in CallRow /\ bill[c] \in Nat
        BY DEF IInv, TypeOK
      <3>2. call[c].paise \in Nat
        BY <3>1 DEF CallRow
      <3>3. call[c].rate \in Nat
        <4>1. CASE call[c] = NoRow
          BY <4>1 DEF NoRow
        <4>2. CASE call[c].rate \in Rates
          BY <4>2, RatesNat
        <4> QED BY <4>1, <4>2 DEF IInv, RowsOK, RowOK
      <3> QED BY <3>1, <3>2, <3>3
    <2>2. TickCost(call[c].rate) \in Nat
      BY <2>1, TickCostPositive
    <2>3. \/ call[c].paise = bill[c]
          \/ call[c].paise = bill[c] + TickCost(call[c].rate)
      BY DEF BillsOK, BillOK
    <2> QED BY <2>1, <2>2, <2>3
  <1> QED BY <1>1, <1>2, <1>3, Invariant, PTL DEF Spec

-----------------------------------------------------------------------------
(* Money *)

PlacedCalls == {c \in Calls : Placed(c)}
CallsOfUser(u) == {c \in Calls : call[c].user = u}
CallsOfHost(h) == {c \in Calls : call[c].host = h}
PaiseOf == [c \in Calls |-> call[c].paise]
BeansOf == [c \in Calls |-> call[c].beans]

\* So far only finitely many calls were placed, however many may be, and their
\* totals add up to what moved between the wallets.
MoneyInv == IsFiniteSet(PlacedCalls) /\ MoneyConserved

\* The calls of a party were placed, so they are finitely many.
LEMMA PartyCalls ==
    ASSUME IInv, IsFiniteSet(PlacedCalls)
    PROVE  /\ \A u \in Users : IsFiniteSet(CallsOfUser(u))
           /\ \A h \in Hosts : IsFiniteSet(CallsOfHost(h))
  <1>1. ASSUME NEW c \in Calls, ~Placed(c)
        PROVE  call[c].user = Nobody /\ call[c].host = Nobody
    BY <1>1 DEF IInv, RowsOK, RowOK, NoRow
  <1>2. Nobody \notin Users /\ Nobody \notin Hosts
    BY CallConstants
  <1>3. ASSUME NEW u \in Users PROVE CallsOfUser(u) \subseteq PlacedCalls
    BY <1>1, <1>2 DEF CallsOfUser, PlacedCalls
  <1>4. ASSUME NEW h \in Hosts PROVE CallsOfHost(h) \subseteq PlacedCalls
    BY <1>1, <1>2 DEF CallsOfHost, PlacedCalls
  <1> QED BY <1>3, <1>4, FS_Subset

LEMMA TotalsNat ==
    ASSUME IInv, NEW c \in Calls
    PROVE  PaiseOf[c] \in Nat /\ BeansOf[c] \in Nat
  BY DEF IInv, TypeOK, CallRow, PaiseOf, BeansOf

LEMMA InitMoney == Init => MoneyInv
  <1> SUFFICES ASSUME Init PROVE MoneyInv
    OBVIOUS
  <1>1. \A c \in Calls : call[c] = NoRow
    BY DEF Init
  <1>2. NoRow.status = "none" /\ NoRow.user = Nobody /\ NoRow.host = Nobody
    BY DEF NoRow
  <1>3. PlacedCalls = {}
    BY <1>1, <1>2 DEF PlacedCalls, Placed
  <1>4. Nobody \notin Users /\ Nobody \notin Hosts /\ InitialBalance \in Nat
    BY CallConstants
  <1>5. \A u \in Users : CallsOfUser(u) = {}
    BY <1>1, <1>2, <1>4 DEF CallsOfUser
  <1>6. \A h \in Hosts : CallsOfHost(h) = {}
    BY <1>1, <1>2, <1>4 DEF CallsOfHost
  <1>7. ASSUME NEW u \in Users PROVE wallet[u] + PaidBy(u) = InitialBalance
    <2>1. PaidBy(u) = 0
      BY <1>5, SumOfNone DEF PaidBy, CallsOfUser
    <2>2. wallet[u] = InitialBalance
      BY DEF Init
    <2> QED BY <1>4, <2>1, <2>2
  <1>8. ASSUME NEW h \in Hosts PROVE hostBeans[h] = EarnedBy(h)
    <2>1. EarnedBy(h) = 0
      BY <1>6, SumOfNone DEF EarnedBy, CallsOfHost
    <2> QED BY <2>1 DEF Init
  <1>9. IsFiniteSet(PlacedCalls)
    BY <1>3, FS_EmptySet
  <1> QED BY <1>7, <1>8, <1>9 DEF MoneyInv, MoneyConserved

\* A step that moves no money and changes no party, total or placement.
LEMMA TermsKept ==
    ASSUME IInv, MoneyInv, UNCHANGED money,
           \A c \in Calls : /\ call'[c].user = call[c].user
                            /\ call'[c].host = call[c].host
                            /\ call'[c].paise = call[c].paise
                            /\ call'[c].beans = call[c].beans
                            /\ ~Placed(c) => call'[c] = call[c]
    PROVE  MoneyInv'
  <1>1. \A x : CallsOfUser(x)' = CallsOfUser(x) /\ CallsOfHost(x)' = CallsOfHost(x)
    BY DEF CallsOfUser, CallsOfHost
  <1>2. PaiseOf' = PaiseOf /\ BeansOf' = BeansOf
    BY DEF PaiseOf, BeansOf
  <1>3. PlacedCalls' \subseteq PlacedCalls
    BY DEF PlacedCalls, Placed
  <1>4. \A x : PaidBy(x)' = PaidBy(x) /\ EarnedBy(x)' = EarnedBy(x)
    BY <1>1, <1>2 DEF PaidBy, EarnedBy, PaiseOf, BeansOf, CallsOfUser, CallsOfHost
  <1>5. IsFiniteSet(PlacedCalls')
    BY <1>3, FS_Subset DEF MoneyInv
  <1> QED BY <1>4, <1>5 DEF MoneyInv, MoneyConserved, money

\* A call is placed with nothing charged yet.
LEMMA InsertMoney ==
    ASSUME IInv, MoneyInv, NEW t \in Tasks, InitiateInsert(t)
    PROVE  MoneyInv'
  <1>1. PICK c \in Calls, u \in Users, h \in Hosts, r \in Rates :
            /\ \A d \in Calls \ {c} : call'[d] = call[d]
            /\ call[c] = NoRow
            /\ call'[c] = Draft(u, h, r)
            /\ UNCHANGED money
    BY InsertEffect
  <1>2. /\ call[c].user = Nobody /\ call[c].host = Nobody
        /\ call[c].paise = 0 /\ call[c].beans = 0
        /\ call'[c].user = u /\ call'[c].host = h
        /\ call'[c].paise = 0 /\ call'[c].beans = 0
    BY <1>1 DEF NoRow, Draft
  <1>3. Nobody \notin Users /\ Nobody \notin Hosts
    BY CallConstants
  <1>4. PaiseOf' = PaiseOf /\ BeansOf' = BeansOf
    BY <1>1, <1>2 DEF PaiseOf, BeansOf
  <1>5. PaiseOf[c] = 0 /\ BeansOf[c] = 0
    BY <1>2 DEF PaiseOf, BeansOf
  <1>6. IsFiniteSet(PlacedCalls')
    <2>1. PlacedCalls' \subseteq PlacedCalls \cup {c}
      BY <1>1 DEF PlacedCalls, Placed
    <2> QED BY <2>1, FS_Subset, FS_AddElement DEF MoneyInv
  <1>7. ASSUME NEW v \in Users PROVE PaidBy(v)' = PaidBy(v)
    <2>1. PaidBy(v)' = SumFunctionOnSet(PaiseOf, CallsOfUser(v)')
      BY <1>4 DEF PaidBy, PaiseOf, CallsOfUser
    <2>2. CASE v # u
      <3>1. CallsOfUser(v)' = CallsOfUser(v)
        BY <1>1, <1>2, <1>3, <2>2 DEF CallsOfUser
      <3> QED BY <2>1, <3>1 DEF PaidBy, PaiseOf, CallsOfUser
    <2>3. CASE v = u
      <3>1. CallsOfUser(v)' = CallsOfUser(v) \cup {c} /\ c \notin CallsOfUser(v)
        BY <1>1, <1>2, <1>3, <2>3 DEF CallsOfUser
      <3>2. /\ IsFiniteSet(CallsOfUser(v))
            /\ \A d \in CallsOfUser(v) : PaiseOf[d] \in Int
        BY PartyCalls, TotalsNat DEF MoneyInv, CallsOfUser
      <3>3. SumFunctionOnSet(PaiseOf, CallsOfUser(v)') = SumFunctionOnSet(PaiseOf, CallsOfUser(v)) + 0
        BY <1>5, <3>1, <3>2, SumWith
      <3>4. SumFunctionOnSet(PaiseOf, CallsOfUser(v)) \in Int
        BY <3>2, SumIsInteger
      <3> QED BY <2>1, <3>3, <3>4 DEF PaidBy, PaiseOf, CallsOfUser
    <2> QED BY <2>2, <2>3
  <1>8. ASSUME NEW v \in Hosts PROVE EarnedBy(v)' = EarnedBy(v)
    <2>1. EarnedBy(v)' = SumFunctionOnSet(BeansOf, CallsOfHost(v)')
      BY <1>4 DEF EarnedBy, BeansOf, CallsOfHost
    <2>2. CASE v # h
      <3>1. CallsOfHost(v)' = CallsOfHost(v)
        BY <1>1, <1>2, <1>3, <2>2 DEF CallsOfHost
      <3> QED BY <2>1, <3>1 DEF EarnedBy, BeansOf, CallsOfHost
    <2>3. CASE v = h
      <3>1. CallsOfHost(v)' = CallsOfHost(v) \cup {c} /\ c \notin CallsOfHost(v)
        BY <1>1, <1>2, <1>3, <2>3 DEF CallsOfHost
      <3>2. /\ IsFiniteSet(CallsOfHost(v))
            /\ \A d \in CallsOfHost(v) : BeansOf[d] \in Int
        BY PartyCalls, TotalsNat DEF MoneyInv, CallsOfHost
      <3>3. SumFunctionOnSet(BeansOf, CallsOfHost(v)') = SumFunctionOnSet(BeansOf, CallsOfHost(v)) + 0
        BY <1>5, <3>1, <3>2, SumWith
      <3>4. SumFunctionOnSet(BeansOf, CallsOfHost(v)) \in Int
        BY <3>2, SumIsInteger
      <3> QED BY <2>1, <3>3, <3>4 DEF EarnedBy, BeansOf, CallsOfHost
    <2> QED BY <2>2, <2>3
  <1> QED BY <1>1, <1>6, <1>7, <1>8 DEF MoneyInv, MoneyConserved, money

\* One tick moves its cost out of the caller's wallet and onto the call's total,
\* and its beans onto the host's wallet and the call's.
LEMMA ChargeMoney ==
    ASSUME IInv, MoneyInv, NEW t \in Tasks, TickCharges(t)
    PROVE  MoneyInv'
  <1> DEFINE c == task[t].call
             u == call[c].user
             h == call[c].host
             cost == TickCost(call[c].rate)
             beans == TickBeans(call[c].rate)
  <1>1. /\ c \in Calls
        /\ u \in Users /\ h \in Hosts
        /\ call[c].rate \in Nat
        /\ \A d \in Calls \ {c} : call'[d] = call[d]
        /\ call'[c].status = call[c].status
        /\ call'[c].user = u
        /\ call'[c].host = h
        /\ call'[c].paise = call[c].paise + cost
        /\ call'[c].beans = call[c].beans + beans
        /\ wallet' = [wallet EXCEPT ![u] = @ - cost]
        /\ hostBeans' = [hostBeans EXCEPT ![h] = @ + beans]
    BY ChargeEffect
  <1>2. /\ cost \in Nat /\ beans \in Nat
        /\ wallet \in [Users -> Nat] /\ hostBeans \in [Hosts -> Nat]
    BY <1>1, TickCostPositive, TickBeansNat DEF IInv, TypeOK
  <1>3. Placed(c)
    BY InFlight DEF TickCharges, At, Unbound, InitiateSteps
  <1> HIDE DEF c, cost, beans
  <1>4. \A d \in Calls : call'[d].user = call[d].user /\ call'[d].host = call[d].host
    BY <1>1
  <1>5. \A x : CallsOfUser(x)' = CallsOfUser(x) /\ CallsOfHost(x)' = CallsOfHost(x)
    BY <1>4 DEF CallsOfUser, CallsOfHost
  <1>6. /\ \A d \in Calls : PaiseOf[d] \in Nat /\ BeansOf[d] \in Nat
        /\ \A d \in Calls \ {c} : PaiseOf'[d] = PaiseOf[d] /\ BeansOf'[d] = BeansOf[d]
        /\ PaiseOf'[c] = PaiseOf[c] + cost /\ BeansOf'[c] = BeansOf[c] + beans
    BY <1>1, TotalsNat DEF PaiseOf, BeansOf
  <1>7. ASSUME NEW v \in Users PROVE wallet'[v] + PaidBy(v)' = InitialBalance
    <2> DEFINE S == CallsOfUser(v)
    <2>1. /\ IsFiniteSet(S)
          /\ S \subseteq Calls
          /\ wallet[v] + SumFunctionOnSet(PaiseOf, S) = InitialBalance
      BY PartyCalls DEF MoneyInv, MoneyConserved, PaidBy, PaiseOf, CallsOfUser
    <2>2. PaidBy(v)' = SumFunctionOnSet(PaiseOf', S)
      BY <1>5 DEF PaidBy, PaiseOf, CallsOfUser
    <2>3. SumFunctionOnSet(PaiseOf, S) \in Int
      BY <1>6, <2>1, SumIsInteger
    <2>4. c \in S <=> v = u
      BY <1>1 DEF CallsOfUser
    <2> HIDE DEF S
    <2>5. CASE v = u
      <3>1. SumFunctionOnSet(PaiseOf', S) = SumFunctionOnSet(PaiseOf, S) - PaiseOf[c] + PaiseOf'[c]
        <4>1. /\ \A y \in S : PaiseOf[y] \in Int
              /\ PaiseOf'[c] \in Int
              /\ \A y \in S \ {c} : PaiseOf'[y] = PaiseOf[y]
              /\ c \in S
          BY <1>1, <1>2, <1>6, <2>1, <2>4, <2>5
        <4> QED BY <2>1, <4>1, SumUpdated
      <3>2. wallet'[v] = wallet[v] - cost
        BY <1>1, <1>2, <2>5
      <3> QED BY <1>1, <1>2, <1>6, <2>1, <2>2, <2>3, <3>1, <3>2
    <2>6. CASE v # u
      <3>1. \A y \in S : PaiseOf[y] = PaiseOf'[y]
        BY <1>6, <2>1, <2>4, <2>6
      <3>2. SumFunctionOnSet(PaiseOf, S) = SumFunctionOnSet(PaiseOf', S)
        BY <2>1, <3>1, SameSum
      <3>3. wallet'[v] = wallet[v]
        BY <1>1, <1>2, <2>6
      <3> QED BY <2>1, <2>2, <3>2, <3>3
    <2> QED BY <2>5, <2>6
  <1>8. ASSUME NEW v \in Hosts PROVE hostBeans'[v] = EarnedBy(v)'
    <2> DEFINE S == CallsOfHost(v)
    <2>1. /\ IsFiniteSet(S)
          /\ S \subseteq Calls
          /\ hostBeans[v] = SumFunctionOnSet(BeansOf, S)
      BY PartyCalls DEF MoneyInv, MoneyConserved, EarnedBy, BeansOf, CallsOfHost
    <2>2. EarnedBy(v)' = SumFunctionOnSet(BeansOf', S)
      BY <1>5 DEF EarnedBy, BeansOf, CallsOfHost
    <2>3. SumFunctionOnSet(BeansOf, S) \in Int
      BY <1>6, <2>1, SumIsInteger
    <2>4. c \in S <=> v = h
      BY <1>1 DEF CallsOfHost
    <2> HIDE DEF S
    <2>5. CASE v = h
      <3>1. SumFunctionOnSet(BeansOf', S) = SumFunctionOnSet(BeansOf, S) - BeansOf[c] + BeansOf'[c]
        <4>1. /\ \A y \in S : BeansOf[y] \in Int
              /\ BeansOf'[c] \in Int
              /\ \A y \in S \ {c} : BeansOf'[y] = BeansOf[y]
              /\ c \in S
          BY <1>1, <1>2, <1>6, <2>1, <2>4, <2>5
        <4> QED BY <2>1, <4>1, SumUpdated
      <3>2. hostBeans'[v] = hostBeans[v] + beans
        BY <1>1, <1>2, <2>5
      <3> QED BY <1>1, <1>2, <1>6, <2>1, <2>2, <2>3, <3>1, <3>2
    <2>6. CASE v # h
      <3>1. \A y \in S : BeansOf[y] = BeansOf'[y]
        BY <1>6, <2>1, <2>4, <2>6
      <3>2. SumFunctionOnSet(BeansOf, S) = SumFunctionOnSet(BeansOf', S)
        BY <2>1, <3>1, SameSum
      <3>3. hostBeans'[v] = hostBeans[v]
        BY <1>1, <1>2, <2>6
      <3> QED BY <2>1, <2>2, <3>2, <3>3
    <2> QED BY <2>5, <2>6
  <1>9. IsFiniteSet(PlacedCalls')
    <2>1. PlacedCalls' \subseteq PlacedCalls
      BY <1>1, <1>3 DEF PlacedCalls, Placed
    <2> QED BY <2>1, FS_Subset DEF MoneyInv
  <1> QED BY <1>7, <1>8, <1>9 DEF MoneyInv, MoneyConserved

LEMMA MoneyPreserved == IInv /\ HangUpsOK /\ MoneyInv /\ [Next]_vars => MoneyInv'
  <1>1. ASSUME MoneyInv, UNCHANGED <<call, money>> PROVE MoneyInv'
    BY <1>1 DEF MoneyInv, MoneyConserved, PlacedCalls, Placed, PaidBy, EarnedBy, money
  <1> SUFFICES ASSUME IInv, HangUpsOK, MoneyInv, Next PROVE MoneyInv'
    BY <1>1 DEF vars, money
  <1>2. ASSUME NEW c \in Calls, Ends(c), UNCHANGED money PROVE MoneyInv'
    BY <1>2, EndsEffect, TermsKept
  <1>3. ASSUME NEW t \in Tasks, AcceptWrite(t) PROVE MoneyInv'
    BY <1>3, AcceptEffect, TermsKept
  <1> QED BY <1>1, <1>2, <1>3, InsertMoney, ChargeMoney, StepKinds

\* Every paisa that left a caller's wallet is on one of the caller's calls, and
\* every bean of a host came from one: billing loses nothing and charges nothing
\* twice, whatever overlaps, expires, is retried or crashes.
THEOREM MoneyIsConserved == Spec => []MoneyConserved
  <1>1. Init => HangUpsOK /\ MoneyInv
    BY InitHangUps, InitMoney
  <1>2. IInv /\ (HangUpsOK /\ MoneyInv) /\ [Next]_vars => (HangUpsOK /\ MoneyInv)'
    BY HangUpsPreserved, MoneyPreserved
  <1>3. MoneyInv => MoneyConserved
    BY DEF MoneyInv
  <1> QED BY <1>1, <1>2, <1>3, Invariant, PTL DEF Spec

=============================================================================
