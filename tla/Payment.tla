------------------------------ MODULE Payment ------------------------------
(***************************************************************************)
(* Money in: wallet recharges (recharge.service.ts) and VIP purchases      *)
(* (vip.service.ts), paid through a Cashfree order and settled by its      *)
(* webhook (cashfreeWebhook.routes.ts) or by the app's status polls.       *)
(*                                                                         *)
(* Both live the same way: created, then claimed once as success or        *)
(* failed; the claim carries the wallet credit or the VIP days.  Bound: no *)
(* VIP subscription runs out within the behaviour.                         *)
(***************************************************************************)
EXTENDS Integers, FiniteSets, FiniteSetsExt

CONSTANTS
    Orders,             \* ids of recharges and purchases that may be made
    Users,
    Nobody,             \* absent user, order or subscription
    Tasks,              \* slots for handlers in flight (bound on concurrency)
    Sizes,              \* paise of a recharge package, days of a VIP plan
    InitialDays,        \* VIP days every user has left at the start
    Deployments,        \* how the service may be configured, see Init
    MaxFaults           \* bound on crashes, order lookups that fail and
                        \* webhooks Cashfree gives up on, together

ASSUME PaymentConstants ==
    /\ Orders \cap Users = {}
    /\ Nobody \notin Orders \cup Users
    /\ Sizes \subseteq Nat \ {0}
    /\ {InitialDays, MaxFaults} \subseteq Nat
    /\ Deployments \subseteq {"production", "sandbox", "stub"}

VARIABLES
    order,      \* the recharge_txns and vip_purchases tables
    balance,    \* wallets.balancePaise
    ledger,     \* orders whose credit has its key in ledger_entries
    days,       \* vip_subscriptions: days until expiresAt; 0, no row
    cancelled,  \* subscriptions with cancelAtPeriodEnd
    gateway,    \* what Cashfree knows of an order
    webhook,    \* orders with a webhook under way
    task,       \* handlers in flight
    deployment, \* the configuration, fixed at the start
    faults      \* how many of them so far

vars == <<order, balance, ledger, days, cancelled, gateway, webhook, task,
          deployment, faults>>
wallet == <<balance, ledger>>
vip == <<days, cancelled>>
cashfree == <<gateway, webhook>>

-----------------------------------------------------------------------------
(* Rows and tasks *)

\* `recorded`: gateway, gatewayOrderId and paymentSessionId have been written.
OrderRow == [status: {"none", "created", "success", "failed"},
             kind: {"none", "recharge", "vip"}, user: Users \cup {Nobody},
             size: Sizes \cup {0}, recorded: BOOLEAN]
NoOrder == [status |-> "none", kind |-> "none", user |-> Nobody, size |-> 0,
            recorded |-> FALSE]

\* A subscription goes by the order that created it, or by the user who had it
\* from the start.
Subscriptions == Orders \cup Users
Owner(s) == IF s \in Users THEN s ELSE order[s].user

\* A handler: its next step, its order, whether a webhook awaits its answer;
\* inside activateVipInTx the locked subscription and its expiry as read.
Task == [at: {"idle", "create", "record", "giveUp", "lookup", "claim",
              "activate", "markFailed"},
         on: Orders \cup {Nobody}, hook: BOOLEAN,
         existing: Subscriptions \cup {Nobody}, base: Nat]

Handler(step, o, hook) == [at |-> step, on |-> o, hook |-> hook,
                           existing |-> Nobody, base |-> 0]
Idle == Handler("idle", Nobody, FALSE)

At(t, step) == task[t].at = step
Become(t, r) == task' = [task EXCEPT ![t] = r]
Goto(t, step) == task' = [task EXCEPT ![t].at = step]
Finish(t) == Become(t, Idle)

Status(o) == order[o].status
SetStatus(o, s) == order' = [order EXCEPT ![o].status = s]

\* Answered 500 or never: Cashfree delivers the webhook again.
AskAgain(t) ==
    webhook' = webhook \cup (IF task[t].hook THEN {task[t].on} ELSE {})

Init ==
    /\ order = [o \in Orders |-> NoOrder]
    /\ balance = [u \in Users |-> 0]
    /\ ledger = {}
    /\ days = [s \in Subscriptions |-> IF s \in Users THEN InitialDays ELSE 0]
    /\ cancelled = {}
    /\ gateway = [o \in Orders |-> "none"]
    /\ webhook = {}
    /\ task = [t \in Tasks |-> Idle]
    /\ deployment \in Deployments
    /\ faults = 0

-----------------------------------------------------------------------------
(* initiateRecharge, initiateVipPurchase *)

\* "sandbox" is NODE_ENV = development with Cashfree's test keys, "stub" has no
\* keys; production refuses to run without them.
CashfreeConfigured == deployment # "stub"

\* The package or plan exists and is active.  Without Cashfree the row waits
\* for dev-resolve.
InitiateInsert(t, o, u, kind, n) ==
    /\ At(t, "idle")
    /\ Status(o) = "none"
    /\ order' = [order EXCEPT ![o] = [status |-> "created", kind |-> kind,
                    user |-> u, size |-> n, recorded |-> FALSE]]
    /\ IF CashfreeConfigured THEN Become(t, Handler("create", o, FALSE))
                             ELSE UNCHANGED task
    /\ UNCHANGED <<wallet, vip, cashfree, faults, deployment>>

\* POST /orders: Cashfree may make the order and the answer still be lost.
CreateCashfreeOrder(t) ==
    /\ At(t, "create")
    /\ \/ /\ gateway' = [gateway EXCEPT ![task[t].on] = "active"]
          /\ Goto(t, "record") \/ Goto(t, "giveUp")
       \/ /\ Goto(t, "giveUp")
          /\ UNCHANGED gateway
    /\ UNCHANGED <<order, wallet, vip, webhook, faults, deployment>>

\* A transaction under way in activateVipInTx holds the purchase row.
Claimed(o) == \E t \in Tasks : At(t, "activate") /\ task[t].on = o

\* The two UPDATEs are by id alone.
InitiateRecord(t) ==
    /\ At(t, "record")
    /\ ~Claimed(task[t].on)
    /\ order' = [order EXCEPT ![task[t].on].recorded = TRUE]
    /\ Finish(t)
    /\ UNCHANGED <<wallet, vip, cashfree, faults, deployment>>

InitiateGiveUp(t) ==
    /\ At(t, "giveUp")
    /\ ~Claimed(task[t].on)
    /\ SetStatus(task[t].on, "failed")
    /\ Finish(t)
    /\ UNCHANGED <<wallet, vip, cashfree, faults, deployment>>

-----------------------------------------------------------------------------
(* syncRechargeWithGateway, syncVipPurchaseWithGateway *)

Syncable(o) == Status(o) = "created" /\ order[o].recorded

\* Mutant: the status endpoint answers with the row and does not sync it.
PollOnlyReads(t, o) == At(t, "idle") /\ Syncable(o) /\ UNCHANGED vars

\* GET /wallet/recharge/:id, GET /vip/purchases/:id.
Poll(t, o) ==
    /\ At(t, "idle")
    /\ Syncable(o)
    /\ Become(t, Handler("lookup", o, FALSE))
    /\ UNCHANGED <<order, wallet, vip, cashfree, faults, deployment>>

\* The payload only names the order.  An order nobody recorded is answered 200.
WebhookArrives(t, o) ==
    /\ At(t, "idle")
    /\ o \in webhook
    /\ webhook' = webhook \ {o}
    /\ IF Syncable(o) THEN Become(t, Handler("lookup", o, TRUE))
                      ELSE UNCHANGED task
    /\ UNCHANGED <<order, wallet, vip, gateway, faults, deployment>>

\* Mutant: a paid order is taken as paid, whatever the amount.
CountsAsPaidWhateverAmount(o) == gateway[o] \in {"paid", "paidOther"}

CountsAsPaid(o) == gateway[o] = "paid"

\* An order paid with another amount or currency throws; a failed payment
\* leaves the order active, for the user to try again.
Lookup(t) ==
    LET o == task[t].on IN
    /\ At(t, "lookup")
    /\ \/ /\ CountsAsPaid(o)
          /\ Goto(t, "claim")
          /\ UNCHANGED webhook
       \/ /\ gateway[o] = "paidOther" /\ ~CountsAsPaid(o)
          /\ AskAgain(t)
          /\ Finish(t)
       \/ /\ gateway[o] = "expired"
          /\ Goto(t, "markFailed")
          /\ UNCHANGED webhook
       \/ /\ gateway[o] = "active"
          /\ Finish(t)
          /\ UNCHANGED webhook
    /\ UNCHANGED <<order, wallet, vip, gateway, faults, deployment>>

LookupFails(t) ==
    /\ At(t, "lookup")
    /\ faults < MaxFaults
    /\ faults' = faults + 1
    /\ AskAgain(t)
    /\ Finish(t)
    /\ UNCHANGED <<order, wallet, vip, gateway, deployment>>

-----------------------------------------------------------------------------
(* Settling: markRechargeSuccess, markVipPurchaseSuccess, mark...Failed *)

CreditUserWallet(o) ==
    /\ balance' = [balance EXCEPT ![order[o].user] = @ + order[o].size]
    /\ ledger' = ledger \cup {o}

\* Mutant: the claim and the credit are two transactions.
RechargeSuccessInTwo(t) ==
    LET o == task[t].on IN
    /\ At(t, "claim")
    /\ order[o].kind = "recharge"
    /\ IF Status(o) = "created"
       THEN SetStatus(o, "success") /\ UNCHANGED <<wallet, task>>
       ELSE /\ Finish(t)
            /\ IF o \in ledger THEN UNCHANGED wallet ELSE CreditUserWallet(o)
            /\ UNCHANGED order
    /\ UNCHANGED <<vip, cashfree, faults, deployment>>

\* Claim and credit in one transaction; a row already settled, or a key already
\* used, credits nothing.
RechargeSuccess(t) ==
    LET o == task[t].on IN
    /\ At(t, "claim")
    /\ order[o].kind = "recharge"
    /\ IF Status(o) = "created" /\ o \notin ledger
       THEN SetStatus(o, "success") /\ CreditUserWallet(o)
       ELSE UNCHANGED <<order, wallet>>
    /\ Finish(t)
    /\ UNCHANGED <<vip, cashfree, faults, deployment>>

\* Mutant: the subscription is read without FOR UPDATE.
NotLocked(s) == FALSE

Locked(s) == \E t \in Tasks : At(t, "activate") /\ task[t].existing = s

\* The user's active subscription that lasts longest.
Existing(u) ==
    LET mine == {s \in Subscriptions : Owner(s) = u /\ days[s] > 0}
    IN  {s \in mine : \A r \in mine : days[r] <= days[s]}

\* Claim the purchase row, then read the subscription FOR UPDATE: wait for
\* whoever holds it; where there is no row there is nothing to wait for.
VipClaim(t) ==
    LET o == task[t].on IN
    /\ At(t, "claim")
    /\ order[o].kind = "vip"
    /\ ~Claimed(o)
    /\ \/ /\ Status(o) = "created"
          /\ Existing(order[o].user) = {}
          /\ Goto(t, "activate")
       \/ /\ Status(o) = "created"
          /\ \E s \in Existing(order[o].user) :
                /\ ~Locked(s)
                /\ task' = [task EXCEPT ![t].at = "activate",
                                        ![t].existing = s, ![t].base = days[s]]
       \/ /\ Status(o) # "created"
          /\ Finish(t)
    /\ UNCHANGED <<order, wallet, vip, cashfree, faults, deployment>>

\* Extend the subscription from its expiry, or insert one, and commit.
VipActivate(t) ==
    LET o == task[t].on
        s == IF task[t].existing = Nobody THEN o ELSE task[t].existing IN
    /\ At(t, "activate")
    /\ SetStatus(o, "success")
    /\ days' = [days EXCEPT ![s] = task[t].base + order[o].size]
    /\ cancelled' = cancelled \ {s}
    /\ Finish(t)
    /\ UNCHANGED <<wallet, cashfree, faults, deployment>>

\* Mutant: the UPDATE to `failed` without WHERE status = 'created'.
MarkFailedById(t) ==
    /\ At(t, "markFailed")
    /\ ~Claimed(task[t].on)
    /\ SetStatus(task[t].on, "failed")
    /\ Finish(t)
    /\ UNCHANGED <<wallet, vip, cashfree, faults, deployment>>

MarkFailed(t) ==
    /\ At(t, "markFailed")
    /\ ~Claimed(task[t].on)
    /\ IF Status(task[t].on) = "created" THEN SetStatus(task[t].on, "failed")
                                         ELSE UNCHANGED order
    /\ Finish(t)
    /\ UNCHANGED <<wallet, vip, cashfree, faults, deployment>>

\* The outcome faked outside production.  The app knows an order's id only once
\* the order's initiation has answered.
DevResolve(t, o) ==
    /\ At(t, "idle")
    /\ deployment # "production"
    /\ Status(o) = "created"
    /\ order[o].recorded \/ ~CashfreeConfigured
    /\ \E step \in {"claim", "markFailed"} : Become(t, Handler(step, o, FALSE))
    /\ UNCHANGED <<order, wallet, vip, cashfree, faults, deployment>>

\* cancelVipSubscription; the flag is set by id, whatever was read before.
CancelVipSubscription(s) ==
    /\ days[s] > 0
    /\ s \notin cancelled
    /\ ~Locked(s)
    /\ cancelled' = cancelled \cup {s}
    /\ UNCHANGED <<order, wallet, days, cashfree, task, faults, deployment>>

-----------------------------------------------------------------------------
(* The environment *)

\* The user pays, in a checkout that needs the recorded session.
Pay(o, how) ==
    /\ gateway[o] = "active"
    /\ order[o].recorded
    /\ gateway' = [gateway EXCEPT ![o] = how]
    /\ webhook' = webhook \cup {o}
    /\ UNCHANGED <<order, wallet, vip, task, faults, deployment>>

\* A payment attempt fails: a webhook, and the order is still active.
PaymentFails(o) ==
    /\ gateway[o] = "active"
    /\ order[o].recorded
    /\ o \notin webhook
    /\ webhook' = webhook \cup {o}
    /\ UNCHANGED <<order, wallet, vip, gateway, task, faults, deployment>>

\* EXPIRED or TERMINATED.
OrderExpires(o) ==
    /\ gateway[o] = "active"
    /\ gateway' = [gateway EXCEPT ![o] = "expired"]
    /\ UNCHANGED <<order, wallet, vip, webhook, task, faults, deployment>>

WebhookLost(o) ==
    /\ o \in webhook
    /\ faults < MaxFaults
    /\ faults' = faults + 1
    /\ webhook' = webhook \ {o}
    /\ UNCHANGED <<order, wallet, vip, gateway, task, deployment>>

\* A process dies with its handlers and their open transactions.
Crash(S) ==
    /\ faults < MaxFaults
    /\ \E t \in S : ~At(t, "idle")
    /\ faults' = faults + 1
    /\ task' = [t \in Tasks |-> IF t \in S THEN Idle ELSE task[t]]
    /\ webhook' = webhook \cup {task[t].on : t \in {s \in S : task[s].hook}}
    /\ UNCHANGED <<order, wallet, vip, gateway, deployment>>

-----------------------------------------------------------------------------
Initiates(t) ==
    \E o \in Orders, u \in Users, kind \in {"recharge", "vip"}, n \in Sizes :
        InitiateInsert(t, o, u, kind, n)

Continue(t) ==
    \/ CreateCashfreeOrder(t) \/ InitiateRecord(t) \/ InitiateGiveUp(t)
    \/ Lookup(t) \/ RechargeSuccess(t) \/ MarkFailed(t)
    \/ VipClaim(t) \/ VipActivate(t)

Next ==
    \/ \E t \in Tasks :
        \/ Initiates(t) \/ Continue(t) \/ LookupFails(t)
        \/ \E o \in Orders : Poll(t, o) \/ WebhookArrives(t, o) \/ DevResolve(t, o)
    \/ \E s \in Subscriptions : CancelVipSubscription(s)
    \/ \E o \in Orders :
        \/ Pay(o, "paid") \/ Pay(o, "paidOther")
        \/ PaymentFails(o) \/ OrderExpires(o) \/ WebhookLost(o)
    \/ \E S \in SUBSET Tasks : Crash(S)

Spec == Init /\ [][Next]_vars

\* Handlers run on, and the app polls an order that is not settled again and
\* again after checkout; strong, since a poll needs a free slot.
Fairness ==
    /\ \A t \in Tasks : WF_vars(Continue(t))
    /\ \A o \in Orders : SF_vars(\E t \in Tasks : Poll(t, o))

FairSpec == Spec /\ Fairness

-----------------------------------------------------------------------------
(* Properties *)

TypeOK ==
    /\ order \in [Orders -> OrderRow]
    /\ balance \in [Users -> Nat]
    /\ ledger \subseteq Orders
    /\ days \in [Subscriptions -> Nat]
    /\ cancelled \subseteq Subscriptions
    /\ gateway \in [Orders -> {"none", "active", "paid", "paidOther", "expired"}]
    /\ webhook \subseteq Orders
    /\ task \in [Tasks -> Task]
    /\ deployment \in Deployments
    /\ faults \in Nat

Succeeded(u, kind) ==
    {o \in Orders : /\ order[o].user = u
                    /\ order[o].kind = kind
                    /\ Status(o) = "success"}

\* Paise or days a user's successful orders come to.
Delivered(u, kind) ==
    SumFunctionOnSet([o \in Orders |-> order[o].size], Succeeded(u, kind))

\* A wallet holds exactly its successful recharges, each once, whatever
\* webhooks, polls and crashes do (markRechargeSuccess); with the types above.
RechargedOnce ==
    /\ TypeOK
    /\ \A u \in Users :
        balance[u] = Delivered(u, "recharge")

\* In production nothing succeeds but what Cashfree says was paid, in full
\* (the webhook's payload is never believed).
SucceededWasPaid ==
    deployment = "production" =>
        \A o \in Orders : Status(o) = "success" => gateway[o] = "paid"

\* What is settled stays as it was settled, though two of the four UPDATEs of
\* the status look only at the id.
SettledForGood ==
    [][\A o \in Orders :
        Status(o) \in {"success", "failed"} => Status(o)' = Status(o)]_vars

\* A user is a VIP for every day paid for: a purchase on top of an active
\* subscription never shortens what was already paid for (activateVipInTx).
VipDaysDelivered ==
    \A u \in Users :
        Max({days[s] : s \in {r \in Subscriptions : Owner(r) = u}})
            = InitialDays + Delivered(u, "vip")

\* A late or lost webhook never leaves a paid user uncredited.
PaidIsCredited ==
    \A o \in Orders : (deployment = "production" /\ gateway[o] = "paid")
                        ~> Status(o) = "success"

=============================================================================
