--------------------------- MODULE CallLifecycle ---------------------------
(***************************************************************************)
(* The life of a 1:1 call and its billing: calls.service.ts, callTimers.ts *)
(* and callReaper.ts, with the wallet transfer a billing tick makes        *)
(* (wallet.service.ts) and the connection watchdog (realtime/socket.ts).   *)
(*                                                                         *)
(* Every handler is an async function on a connection pool.  It reads the  *)
(* call row, awaits, and later writes it: here a handler in flight is a    *)
(* task, and each step of a task ends at the next database statement.      *)
(* What a handler remembers of its read is kept in the task, so other      *)
(* handlers may change the row in between, as they may in the code.        *)
(* In-process timer maps change in the same run of code as the statement   *)
(* they precede or follow, so they change in its step.                     *)
(***************************************************************************)
EXTENDS Integers, FiniteSets, Functions

CONSTANTS
    Calls,          \* call ids: the calls that may ever be placed
    Users,          \* paying callers
    Hosts,          \* hosts, who earn beans
    Nobody,         \* absent user, host or call
    Tasks,          \* slots for handlers in flight (bound on concurrency)
    Rates,          \* per-minute prices (paise) a call may be placed at
    Commission,     \* commission in basis points, snapshotted per call
    PaisePerBean,   \* conversion rate, snapshotted per call
    InitialBalance, \* paise in every user's wallet at the start
    RedisEnabled,   \* FALSE: in-process timers; TRUE: BullMQ jobs, shared lock
    MaxCrashes      \* bound on process crashes

ASSUME CallConstants ==
    /\ Nobody \notin Calls \cup Users \cup Hosts
    /\ IsFiniteSet(Tasks)
    /\ Rates \subseteq Nat
    /\ Commission \in 0..10000
    /\ PaisePerBean \in Nat \ {0}
    /\ InitialBalance \in Nat
    /\ RedisEnabled \in BOOLEAN
    /\ MaxCrashes \in Nat

VARIABLES
    call,       \* the calls table
    wallet,     \* wallets.balancePaise
    hostBeans,  \* hostWallets.beanBalance (lifetimeEarnedBeans moves with it)
    ledger,     \* idempotency keys of the call_billing ledger entries
    bill,       \* totalAmountPaise in the last call:ended event of a call
    busy,       \* isBusy in the last host:busy event of a host
    billing,    \* live billing timers (or queued tick jobs) of a call
    ringTimer,  \* calls with a pending ringing timeout
    ticking,    \* calls whose tick lock is held
    stale,      \* active calls whose row timestamp is past the reaper's limit
    task,       \* handlers in flight
    crashes     \* crashes so far

vars == <<call, wallet, hostBeans, ledger, bill, busy, billing, ringTimer,
          ticking, stale, task, crashes>>

money == <<wallet, hostBeans, ledger>>

-----------------------------------------------------------------------------
(* Rows and tasks *)

Active == {"ringing", "ongoing"}
Ended == {"completed", "missed", "rejected"}
Statuses == {"none"} \cup Active \cup Ended

Reasons == {"none", "rejected_by_host", "cancelled_by_caller", "ended_by_user",
            "ended_by_host", "ended_by_admin", "no_answer",
            "insufficient_balance", "connection_lost",
            "reaped_stale_ringing", "reaped_stale_ongoing"}

CallRow == [status: Statuses, reason: Reasons,
            user: Users \cup {Nobody}, host: Hosts \cup {Nobody},
            rate: Rates \cup {0},
            ticks: Nat, paise: Nat, beans: Nat]

NoRow == [status |-> "none", reason |-> "none", user |-> Nobody,
          host |-> Nobody, rate |-> 0, ticks |-> 0, paise |-> 0, beans |-> 0]

\* Where a handler stands: the step it takes next.
TickSteps == {"tick", "poor", "poorBusyOff", "chain"}
InitiateSteps == {"checkUser", "checkBalance", "insert"}
Steps == {"idle", "arm", "accept", "accepted", "reject", "cancel", "hangUp",
          "adminCancel", "adminEnd", "expire", "lost", "busyOff",
          "reapRinging", "reapOngoing", "reapBusyOff"}
         \cup TickSteps \cup InitiateSteps

Task == [at: Steps, call: Calls \cup {Nobody}, row: CallRow,
         reason: Reasons, todo: SUBSET Calls]

\* A handler that has read the row of c and will write it in its next step.
Pending(step, c) == [at |-> step, call |-> c, row |-> NoRow,
                     reason |-> "none", todo |-> {}]

Idle == Pending("idle", Nobody)

At(t, step) == task[t].at = step
Become(t, r) == task' = [task EXCEPT ![t] = r]
Goto(t, step) == task' = [task EXCEPT ![t].at = step]
Finish(t) == Become(t, Idle)

OnlyTaskMoves == UNCHANGED <<call, money, bill, busy, billing, ringTimer,
                             ticking, stale, crashes>>

\* The row a caller's request will insert.
Draft(u, h, r) == [status |-> "ringing", reason |-> "none", user |-> u,
                   host |-> h, rate |-> r, ticks |-> 0, paise |-> 0, beans |-> 0]

\* The reaper, with the calls it has selected and not yet updated.
Reaping(step, c, selected) == [Pending(step, c) EXCEPT !.todo = selected]

IsActive(c) == call[c].status \in Active
IsEnded(c) == call[c].status \in Ended

-----------------------------------------------------------------------------
(* The price of a tick *)

TickSeconds == 10
MinBufferMinutes == 1

\* Math.max(1, Math.round(rate * 10 / 60)): a tick is never free.
TickCost(rate) ==
    LET rounded == (rate * TickSeconds + 30) \div 60
    IN  IF rounded < 1 THEN 1 ELSE rounded

CommissionOn(cost) == (cost * Commission) \div 10000

TickBeans(rate) ==
    (TickCost(rate) - CommissionOn(TickCost(rate))) \div PaisePerBean

-----------------------------------------------------------------------------
(* Timers (callTimers.ts), in process memory or as BullMQ jobs *)

\* setInterval replaces the call's interval; a job queue just gains a job.
StartBilling(c) ==
    billing' = [billing EXCEPT ![c] = IF RedisEnabled THEN @ + 1 ELSE 1]

\* With Redis there is nothing to cancel.
StopBilling(c) ==
    billing' = IF RedisEnabled THEN billing ELSE [billing EXCEPT ![c] = 0]

\* A job is consumed when a worker takes it; an interval keeps firing.
TakeTick(c) ==
    billing' = IF RedisEnabled THEN [billing EXCEPT ![c] = @ - 1] ELSE billing

ClearRingingTimeout(c) == ringTimer' = ringTimer \ {c}

\* The worker schedules the next job after its tick; setInterval needs nothing.
AfterTick(t) ==
    IF RedisEnabled
    THEN Become(t, Pending("chain", task[t].call))
    ELSE Finish(t)

-----------------------------------------------------------------------------
Init ==
    /\ call = [c \in Calls |-> NoRow]
    /\ wallet = [u \in Users |-> InitialBalance]
    /\ hostBeans = [h \in Hosts |-> 0]
    /\ ledger = {}
    /\ bill = [c \in Calls |-> 0]
    /\ busy = [h \in Hosts |-> FALSE]
    /\ billing = [c \in Calls |-> 0]
    /\ ringTimer = {}
    /\ ticking = {}
    /\ stale = {}
    /\ task = [t \in Tasks |-> Idle]
    /\ crashes = 0

-----------------------------------------------------------------------------
(* initiateCall: three separate reads, then an insert nothing constrains *)

HasActiveCall(party) ==
    \E c \in Calls : IsActive(c) /\ party \in {call[c].user, call[c].host}

\* The account, block, price and presence checks hold no state of this
\* component; they pass here.  A refused request changes nothing.
InitiateStart(t, u, h, r) ==
    /\ At(t, "idle")
    /\ ~HasActiveCall(h)
    /\ \E c \in Calls :
        /\ call[c].status = "none"
        /\ \A s \in Tasks : task[s].call # c
        /\ Become(t, [Pending("checkUser", c) EXCEPT !.row = Draft(u, h, r)])
    /\ OnlyTaskMoves

InitiateCheckUser(t) ==
    /\ At(t, "checkUser")
    /\ IF HasActiveCall(task[t].row.user)
       THEN Finish(t)
       ELSE Goto(t, "checkBalance")
    /\ OnlyTaskMoves

InitiateCheckBalance(t) ==
    /\ At(t, "checkBalance")
    /\ IF wallet[task[t].row.user] < task[t].row.rate * MinBufferMinutes
       THEN Finish(t)
       ELSE Goto(t, "insert")
    /\ OnlyTaskMoves

InitiateInsert(t) ==
    /\ At(t, "insert")
    /\ call' = [call EXCEPT ![task[t].call] = task[t].row]
    /\ Become(t, Pending("arm", task[t].call))
    /\ UNCHANGED <<money, bill, busy, billing, ringTimer, ticking, stale,
                   crashes>>

\* scheduleRingingTimeout, after the insert has committed.
InitiateArm(t) ==
    /\ At(t, "arm")
    /\ ringTimer' = ringTimer \cup {task[t].call}
    /\ Finish(t)
    /\ UNCHANGED <<call, money, bill, busy, billing, ticking, stale, crashes>>

-----------------------------------------------------------------------------
(* Writing the end of a call.  The UPDATEs of hang-ups, rejections, timers *)
(* and the reaper are by id alone; two are guarded on the status read.     *)

\* Mutant: the handler saves a whole row whose counters it never loaded.
WriteEndSavingRow(c, status, reason, shown) ==
    /\ call' = [call EXCEPT ![c] = [@ EXCEPT !.status = status,
                                             !.reason = reason, !.ticks = 0]]
    /\ stale' = stale \ {c}
    /\ bill' = [bill EXCEPT ![c] = shown]

\* SET status, endReason; the row it returns, or a constant, is announced.
WriteEnd(c, status, reason, shown) ==
    /\ call' = [call EXCEPT ![c].status = status, ![c].reason = reason]
    /\ stale' = stale \ {c}
    /\ bill' = [bill EXCEPT ![c] = shown]

WriteMissed(c, reason, shown) ==
    /\ ClearRingingTimeout(c)
    /\ WriteEnd(c, "missed", reason, shown)

WriteCompleted(c, reason) ==
    /\ StopBilling(c)
    /\ WriteEnd(c, "completed", reason, call[c].paise)

-----------------------------------------------------------------------------
(* acceptCall and rejectCall, by the host *)

AcceptRead(t, c) ==
    /\ At(t, "idle")
    /\ call[c].status = "ringing"
    /\ Become(t, Pending("accept", c))
    /\ OnlyTaskMoves

\* By id alone: a call that ended since the read becomes ongoing again, and
\* keeps the endReason it had.
AcceptWrite(t) ==
    LET c == task[t].call IN
    /\ At(t, "accept")
    /\ ClearRingingTimeout(c)
    /\ call' = [call EXCEPT ![c].status = "ongoing"]
    /\ stale' = stale \ {c}
    /\ Goto(t, "accepted")
    /\ UNCHANGED <<money, bill, busy, billing, ticking, crashes>>

AcceptStartBilling(t) ==
    LET c == task[t].call IN
    /\ At(t, "accepted")
    /\ StartBilling(c)
    /\ busy' = [busy EXCEPT ![call[c].host] = TRUE]
    /\ Finish(t)
    /\ UNCHANGED <<call, money, bill, ringTimer, ticking, stale, crashes>>

RejectRead(t, c) ==
    /\ At(t, "idle")
    /\ call[c].status = "ringing"
    /\ Become(t, Pending("reject", c))
    /\ OnlyTaskMoves

RejectWrite(t) ==
    LET c == task[t].call IN
    /\ At(t, "reject")
    /\ ClearRingingTimeout(c)
    /\ WriteEnd(c, "rejected", "rejected_by_host", 0)
    /\ Finish(t)
    /\ UNCHANGED <<money, busy, billing, ticking, crashes>>

-----------------------------------------------------------------------------
(* endCall, by either party *)

HangUpRead(t, c) ==
    /\ At(t, "idle")
    /\ \/ /\ call[c].status = "ringing"
          /\ Become(t, Pending("cancel", c))
       \/ /\ call[c].status = "ongoing"
          /\ \E by \in {"ended_by_user", "ended_by_host"} :
                Become(t, [Pending("hangUp", c) EXCEPT !.reason = by])
    /\ OnlyTaskMoves

CancelWrite(t) ==
    LET c == task[t].call IN
    /\ At(t, "cancel")
    /\ WriteMissed(c, "cancelled_by_caller", call[c].paise)
    /\ Finish(t)
    /\ UNCHANGED <<money, busy, billing, ticking, crashes>>

HangUpWrite(t) ==
    LET c == task[t].call IN
    /\ At(t, "hangUp")
    /\ WriteCompleted(c, task[t].reason)
    /\ Become(t, Pending("busyOff", c))
    /\ UNCHANGED <<money, busy, ringTimer, ticking, crashes>>

\* broadcastBusy(host, false), once the UPDATE that completed the call is back.
ShowFree(t) == busy' = [busy EXCEPT ![call[task[t].call].host] = FALSE]

BusyOff(t) ==
    /\ At(t, "busyOff")
    /\ ShowFree(t)
    /\ Finish(t)
    /\ UNCHANGED <<call, money, bill, billing, ringTimer, ticking, stale,
                   crashes>>

-----------------------------------------------------------------------------
(* endCallAsAdmin: the same transitions, guarded on the status that was read *)

AdminRead(t, c) ==
    /\ At(t, "idle")
    /\ \/ /\ call[c].status = "ringing"
          /\ Become(t, Pending("adminCancel", c))
       \/ /\ call[c].status = "ongoing"
          /\ Become(t, Pending("adminEnd", c))
    /\ OnlyTaskMoves

AdminCancelWrite(t) ==
    LET c == task[t].call IN
    /\ At(t, "adminCancel")
    /\ \/ /\ call[c].status = "ringing"
          /\ WriteMissed(c, "ended_by_admin", call[c].paise)
       \/ /\ call[c].status # "ringing"   \* 409 Call already ended
          /\ ClearRingingTimeout(c)
          /\ UNCHANGED <<call, bill, stale>>
    /\ Finish(t)
    /\ UNCHANGED <<money, busy, billing, ticking, crashes>>

\* Mutant: the forced end goes by id alone, like a hang-up.
AdminEndUnguarded(t) ==
    LET c == task[t].call IN
    /\ At(t, "adminEnd")
    /\ WriteCompleted(c, "ended_by_admin")
    /\ Become(t, Pending("busyOff", c))
    /\ UNCHANGED <<money, busy, ringTimer, ticking, crashes>>

AdminEndWrite(t) ==
    LET c == task[t].call IN
    /\ At(t, "adminEnd")
    /\ \/ /\ call[c].status = "ongoing"
          /\ WriteCompleted(c, "ended_by_admin")
          /\ Become(t, Pending("busyOff", c))
       \/ /\ call[c].status # "ongoing"   \* 409 Call already ended
          /\ StopBilling(c)
          /\ Finish(t)
          /\ UNCHANGED <<call, bill, stale>>
    /\ UNCHANGED <<money, busy, ringTimer, ticking, crashes>>

-----------------------------------------------------------------------------
(* expireRinging, when the ringing timeout fires *)

RingFires(t, c) ==
    /\ At(t, "idle")
    /\ c \in ringTimer
    /\ ringTimer' = ringTimer \ {c}
    /\ IF call[c].status = "ringing"
       THEN Become(t, Pending("expire", c))
       ELSE UNCHANGED task
    /\ UNCHANGED <<call, money, bill, busy, billing, ticking, stale, crashes>>

ExpireWrite(t) ==
    /\ At(t, "expire")
    /\ WriteEnd(task[t].call, "missed", "no_answer", 0)
    /\ Finish(t)
    /\ UNCHANGED <<money, busy, billing, ringTimer, ticking, crashes>>

-----------------------------------------------------------------------------
(* endCallForLostConnection: a party dropped and its grace period is over. *)
(* Connections are not tracked, so any ongoing call may lose one.          *)

LostRead(t, c) ==
    /\ At(t, "idle")
    /\ call[c].status = "ongoing"
    /\ Become(t, Pending("lost", c))
    /\ OnlyTaskMoves

LostWrite(t) ==
    LET c == task[t].call IN
    /\ At(t, "lost")
    /\ \/ /\ call[c].status = "ongoing"
          /\ WriteCompleted(c, "connection_lost")
          /\ Become(t, Pending("busyOff", c))
       \/ /\ call[c].status # "ongoing"
          /\ StopBilling(c)
          /\ Finish(t)
          /\ UNCHANGED <<call, bill, stale>>
    /\ UNCHANGED <<money, busy, ringTimer, ticking, crashes>>

-----------------------------------------------------------------------------
(* runBillingTick *)

\* tryStartTick took the lock, then the row was read.
TickFires(t, c) ==
    /\ At(t, "idle")
    /\ billing[c] > 0
    /\ c \notin ticking
    /\ ticking' = ticking \cup {c}
    /\ TakeTick(c)
    /\ Become(t, [Pending("tick", c) EXCEPT !.row = call[c]])
    /\ UNCHANGED <<call, money, bill, busy, ringTimer, stale, crashes>>

\* A tick is in progress: skip this cycle.  Without Redis nothing changes, the
\* interval fires again; with Redis the job is spent and the next one chained.
TickSkipped(t, c) ==
    /\ RedisEnabled
    /\ At(t, "idle")
    /\ billing[c] > 0
    /\ c \in ticking
    /\ TakeTick(c)
    /\ Become(t, Pending("chain", c))
    /\ UNCHANGED <<call, money, bill, busy, ringTimer, ticking, stale, crashes>>

\* Mutant: the tick never looks at the status.
SeenAnyStatus(t) == TRUE

\* The status in the row the tick read, which is all it goes by.
SeenOngoing(t) == task[t].row.status = "ongoing"

\* The delete in `finally` does not ask whose lock it is.
Unlock(t) == ticking' = ticking \ {task[t].call}

TickNotOngoing(t) ==
    /\ At(t, "tick")
    /\ ~SeenOngoing(t)
    /\ StopBilling(task[t].call)
    /\ Unlock(t)
    /\ AfterTick(t)
    /\ UNCHANGED <<call, money, bill, busy, ringTimer, stale, crashes>>

\* `${callId}:tick:${n}`; the credit entry's key differs only by a suffix.
TickKey(t) == <<task[t].call, task[t].row.ticks + 1>>

\* Mutant: one paisa of credit.
CanPayAlmost(t) == wallet[task[t].row.user] >= TickCost(task[t].row.rate) - 1

\* The balance read under FOR UPDATE, inside the transaction.
CanPay(t) == wallet[task[t].row.user] >= TickCost(task[t].row.rate)

\* transferUserToHost inside the tick's transaction.
TransferUserToHost(user, host, paise, beans, key) ==
    /\ wallet' = [wallet EXCEPT ![user] = @ - paise]
    /\ hostBeans' = [hostBeans EXCEPT ![host] = @ + beans]
    /\ ledger' = ledger \cup {key}

\* Mutant: no unique index on the idempotency key.
KeyIsAlwaysFree(t) == TRUE

\* The unique idempotency key decides whether the transaction can commit.
KeyIsFree(t) == TickKey(t) \notin ledger

\* The totals of the row read earlier plus one tick; no other column is set.
Charged(now, seen) ==
    [now EXCEPT !.ticks = seen.ticks + 1,
                !.paise = seen.paise + TickCost(seen.rate),
                !.beans = seen.beans + TickBeans(seen.rate)]

\* Debit, credit, ledger and the call's totals in one transaction.  The status
\* is not looked at again.
TickCharges(t) ==
    LET c == task[t].call
        row == task[t].row
    IN
    /\ At(t, "tick")
    /\ SeenOngoing(t)
    /\ CanPay(t)
    /\ KeyIsFree(t)
    /\ TransferUserToHost(row.user, row.host, TickCost(row.rate),
                          TickBeans(row.rate), TickKey(t))
    /\ call' = [call EXCEPT ![c] = Charged(@, row)]
    /\ stale' = stale \ {c}
    /\ Unlock(t)
    /\ AfterTick(t)
    /\ UNCHANGED <<bill, busy, billing, ringTimer, crashes>>

\* Another tick took this number: the insert fails, all is rolled back.
TickDuplicate(t) ==
    /\ At(t, "tick")
    /\ SeenOngoing(t)
    /\ CanPay(t)
    /\ ~KeyIsFree(t)
    /\ Unlock(t)
    /\ AfterTick(t)
    /\ UNCHANGED <<call, money, bill, busy, billing, ringTimer, stale, crashes>>

\* 402 from the wallet rolls the tick back; the call is ended next.
TickCannotPay(t) ==
    /\ At(t, "tick")
    /\ SeenOngoing(t)
    /\ ~CanPay(t)
    /\ Goto(t, "poor")
    /\ OnlyTaskMoves

\* endCallForInsufficientBalance, by id alone.
PoorWrite(t) ==
    /\ At(t, "poor")
    /\ WriteCompleted(task[t].call, "insufficient_balance")
    /\ Goto(t, "poorBusyOff")
    /\ UNCHANGED <<money, busy, ringTimer, ticking, crashes>>

PoorBusyOff(t) ==
    /\ At(t, "poorBusyOff")
    /\ ShowFree(t)
    /\ Unlock(t)
    /\ AfterTick(t)
    /\ UNCHANGED <<call, money, bill, billing, ringTimer, stale, crashes>>

\* Mutant: the worker chains the next job without asking.
ChainAlways(t) ==
    /\ At(t, "chain")
    /\ billing' = [billing EXCEPT ![task[t].call] = @ + 1]
    /\ Finish(t)
    /\ UNCHANGED <<call, money, bill, busy, ringTimer, ticking, stale, crashes>>

\* The worker's `finally`: the next job, only while the call is ongoing.
ChainNextTick(t) ==
    LET c == task[t].call IN
    /\ At(t, "chain")
    /\ billing' = IF call[c].status = "ongoing"
                  THEN [billing EXCEPT ![c] = @ + 1]
                  ELSE billing
    /\ Finish(t)
    /\ UNCHANGED <<call, money, bill, busy, ringTimer, ticking, stale, crashes>>

\* TICK_LOCK_MS has passed: the lock goes, whoever holds it.
LockExpires(c) ==
    /\ RedisEnabled
    /\ c \in ticking
    /\ ticking' = ticking \ {c}
    /\ UNCHANGED <<call, money, bill, busy, billing, ringTimer, stale, task,
                   crashes>>

-----------------------------------------------------------------------------
(* reapStaleCalls: two selects, each followed by a loop of updates by id *)

\* createdAt (ringing) or updatedAt (ongoing) falls behind the threshold.
GrowStale(c) ==
    /\ IsActive(c)
    /\ c \notin stale
    /\ stale' = stale \cup {c}
    /\ UNCHANGED <<call, money, bill, busy, billing, ringTimer, ticking, task,
                   crashes>>

\* Mutant: the sweep knows stale ringing calls only.
StaleRingingOnly(status) == {c \in stale : call[c].status = "ringing" /\ status = "ringing"}

StaleIn(status) == {c \in stale : call[c].status = status}

ReapStart(t) ==
    /\ At(t, "idle")
    /\ stale # {}
    /\ Become(t, Reaping("reapRinging", Nobody, StaleIn("ringing")))
    /\ OnlyTaskMoves

ReapRinging(t) ==
    /\ At(t, "reapRinging")
    /\ \E c \in task[t].todo :
        /\ WriteMissed(c, "reaped_stale_ringing", 0)
        /\ Become(t, Reaping("reapRinging", Nobody, task[t].todo \ {c}))
    /\ UNCHANGED <<money, busy, billing, ticking, crashes>>

ReapSelectOngoing(t) ==
    /\ At(t, "reapRinging")
    /\ task[t].todo = {}
    /\ Become(t, Reaping("reapOngoing", Nobody, StaleIn("ongoing")))
    /\ OnlyTaskMoves

ReapOngoing(t) ==
    /\ At(t, "reapOngoing")
    /\ \E c \in task[t].todo :
        /\ WriteCompleted(c, "reaped_stale_ongoing")
        /\ Become(t, Reaping("reapBusyOff", c, task[t].todo \ {c}))
    /\ UNCHANGED <<money, busy, ringTimer, ticking, crashes>>

ReapBusyOff(t) ==
    /\ At(t, "reapBusyOff")
    /\ ShowFree(t)
    /\ Become(t, Reaping("reapOngoing", Nobody, task[t].todo))
    /\ UNCHANGED <<call, money, bill, billing, ringTimer, ticking, stale,
                   crashes>>

ReapDone(t) ==
    /\ At(t, "reapOngoing")
    /\ task[t].todo = {}
    /\ Finish(t)
    /\ OnlyTaskMoves

-----------------------------------------------------------------------------
(* Crashes.  Every commit so far stands; handlers in flight are gone. *)

\* Without Redis there is one process, and its timers go with it.
ProcessCrash ==
    /\ ~RedisEnabled
    /\ crashes < MaxCrashes
    /\ crashes' = crashes + 1
    /\ task' = [t \in Tasks |-> Idle]
    /\ billing' = [c \in Calls |-> 0]
    /\ ringTimer' = {}
    /\ ticking' = {}
    /\ UNCHANGED <<call, money, bill, busy, stale>>

\* With Redis one of several instances dies with some of the handlers.  Jobs
\* and locks live in Redis; a job a dead worker held is stalled, and the queue
\* hands it to another worker or, when it stalled before, gives it up.
TickJobsOf(S, c) == {t \in S : task[t].call = c /\ task[t].at \in TickSteps}
RingJobsOf(S) == {task[t].call : t \in {s \in S : At(s, "expire")}}

InstanceCrash(S, requeue) ==
    /\ RedisEnabled
    /\ crashes < MaxCrashes
    /\ crashes' = crashes + 1
    /\ \E t \in S : ~At(t, "idle")
    /\ task' = [t \in Tasks |-> IF t \in S THEN Idle ELSE task[t]]
    /\ billing' = [c \in Calls |->
            billing[c] + IF requeue THEN Cardinality(TickJobsOf(S, c)) ELSE 0]
    /\ ringTimer' = ringTimer \cup IF requeue THEN RingJobsOf(S) ELSE {}
    /\ UNCHANGED <<call, money, bill, busy, ticking, stale>>

-----------------------------------------------------------------------------
Request(t) ==
    \/ \E u \in Users, h \in Hosts, r \in Rates : InitiateStart(t, u, h, r)
    \/ \E c \in Calls :
        \/ AcceptRead(t, c) \/ RejectRead(t, c) \/ HangUpRead(t, c)
        \/ AdminRead(t, c) \/ LostRead(t, c)

Continue(t) ==
    \/ InitiateCheckUser(t) \/ InitiateCheckBalance(t)
    \/ InitiateInsert(t) \/ InitiateArm(t)
    \/ AcceptWrite(t) \/ AcceptStartBilling(t) \/ RejectWrite(t)
    \/ CancelWrite(t) \/ HangUpWrite(t) \/ BusyOff(t)
    \/ AdminCancelWrite(t) \/ AdminEndWrite(t)
    \/ ExpireWrite(t) \/ LostWrite(t)
    \/ TickNotOngoing(t) \/ TickCharges(t) \/ TickDuplicate(t)
    \/ TickCannotPay(t) \/ PoorWrite(t) \/ PoorBusyOff(t) \/ ChainNextTick(t)
    \/ ReapRinging(t) \/ ReapSelectOngoing(t) \/ ReapOngoing(t)
    \/ ReapBusyOff(t) \/ ReapDone(t)

TimerFires(t, c) == RingFires(t, c) \/ TickFires(t, c) \/ TickSkipped(t, c)

Crash ==
    \/ ProcessCrash
    \/ \E S \in SUBSET Tasks, requeue \in BOOLEAN : InstanceCrash(S, requeue)

Next ==
    \/ \E t \in Tasks :
        \/ Request(t) \/ Continue(t) \/ ReapStart(t)
        \/ \E c \in Calls : TimerFires(t, c)
    \/ \E c \in Calls : GrowStale(c) \/ LockExpires(c)
    \/ Crash

Spec == Init /\ [][Next]_vars

\* Handlers run on, armed timers fire, the reaper's interval comes round, an
\* untouched row ages and a lock's TTL passes.  The timer and reaper steps are
\* strongly fair because they need a free task slot, which is a bound of the
\* model and not of the event loop.  Requests and crashes are never promised.
Fairness ==
    /\ \A t \in Tasks : WF_vars(Continue(t))
    /\ \A c \in Calls : /\ SF_vars(\E t \in Tasks : RingFires(t, c))
                        /\ SF_vars(\E t \in Tasks : TickFires(t, c))
                        /\ WF_vars(GrowStale(c))
                        /\ WF_vars(LockExpires(c))
    /\ SF_vars(\E t \in Tasks : ReapStart(t))

FairSpec == Spec /\ Fairness

-----------------------------------------------------------------------------
(* Properties *)

\* Every variable keeps its type; no wallet is ever overdrawn, because a tick
\* looks at the locked balance (transferUserToHost), not at the gate's read.
TypeOK ==
    /\ call \in [Calls -> CallRow]
    /\ wallet \in [Users -> Nat]
    /\ hostBeans \in [Hosts -> Nat]
    /\ ledger \subseteq Calls \X Nat
    /\ bill \in [Calls -> Nat]
    /\ busy \in [Hosts -> BOOLEAN]
    /\ billing \in [Calls -> Nat]
    /\ ringTimer \subseteq Calls
    /\ ticking \subseteq Calls
    /\ stale \subseteq Calls
    /\ task \in [Tasks -> Task]
    /\ crashes \in Nat

\* A call's running totals are exactly its ledger: ticks 1..tickCount, each
\* charged once at the snapshotted price (runBillingTickInner's stale totals
\* against the unique idempotency key).
LedgerMatchesTotals ==
    /\ ledger = UNION {{c} \X (1..call[c].ticks) : c \in Calls}
    /\ \A c \in Calls :
        /\ call[c].paise = call[c].ticks * TickCost(call[c].rate)
        /\ call[c].beans = call[c].ticks * TickBeans(call[c].rate)

\* What left a user's wallet, and what reached a host's, is the sum of their
\* calls' totals: no tick is lost or applied twice, whatever handlers overlap.
PaidBy(u) ==
    SumFunctionOnSet([c \in Calls |-> call[c].paise], {c \in Calls : call[c].user = u})
EarnedBy(h) ==
    SumFunctionOnSet([c \in Calls |-> call[c].beans], {c \in Calls : call[c].host = h})

MoneyConserved ==
    /\ \A u \in Users : wallet[u] + PaidBy(u) = InitialBalance
    /\ \A h \in Hosts : hostBeans[h] = EarnedBy(h)

\* The total announced when a call completes is short of what it is finally
\* charged by one tick at most: one that had read the call before it ended.
BillShortByOneTickAtMost ==
    \A c \in Calls : call[c].status = "completed" =>
        call[c].paise - bill[c] \in {0, TickCost(call[c].rate)}

\* A call's ticks are charged one by one and never taken back, whatever row a
\* slow tick or a second timer chain writes from.
TicksOneByOne ==
    [][\A c \in Calls : call'[c].ticks \in {call[c].ticks, call[c].ticks + 1}]_vars

\* A forced end, or a lost connection, never overrides how a call had already
\* ended (the status guards of endCallAsAdmin, endCallForLostConnection).
GuardedEndsYield ==
    [][\A c \in Calls :
        (/\ call'[c].reason \in {"ended_by_admin", "connection_lost"}
         /\ call'[c].reason # call[c].reason) => IsActive(c)]_vars

\* A placed call always ends: by its parties, its timers, its caller's wallet
\* or, when a crash took the timers, the reaper.
CallsEnd == \A c \in Calls : IsActive(c) ~> IsEnded(c)

\* No billing timer outlives its call for good, even one that startBillingInterval
\* armed after the call had ended (callTimers.ts:64-65).
TimersStop == \A c \in Calls : IsEnded(c) ~> billing[c] = 0

=============================================================================
