----------------------------- MODULE Withdrawal -----------------------------
(***************************************************************************)
(* A host's withdrawal: withdrawal.service.ts, the Cashfree Payouts client *)
(* (lib/payout.ts) and its webhook (cashfreeWebhook.routes.ts), and the    *)
(* bean debits and credits of wallet.service.ts.                           *)
(*                                                                         *)
(* A handler in flight is a task; a step of it ends at the next database   *)
(* statement or gateway call, and it keeps what it read.  Cashfree's own   *)
(* view of a transfer, and its webhooks, are the environment.              *)
(***************************************************************************)
EXTENDS Integers, FiniteSets, Functions

CONSTANTS
    Requests,           \* ids of withdrawal requests that may ever be made
    Hosts,
    Nobody,             \* absent host or request
    Tasks,              \* slots for handlers in flight (bound on concurrency)
    Amounts,            \* beans a host may ask for, all above the minimum
    AutoApproved,       \* amounts at or below the auto-approve threshold
    InitialBeans,       \* every host's bean balance at the start
    MaxPerWindow,       \* policy.maxRequestsPerWindow
    CashfreeConfigured, \* FALSE: the dev stub stands in for the gateway
    MaxDeciding,        \* bound on admin decisions in flight on one request
    MaxCrashes,         \* bound on crashes
    MaxOutages,         \* bound on gateway lookups that fail
    MaxLostWebhooks     \* bound on webhooks Cashfree gives up on

ASSUME WithdrawalConstants ==
    /\ Nobody \notin Requests \cup Hosts
    /\ Amounts \subseteq Nat
    /\ AutoApproved \subseteq Amounts
    /\ {InitialBeans, MaxPerWindow, MaxDeciding, MaxCrashes, MaxOutages,
        MaxLostWebhooks} \subseteq Nat
    /\ CashfreeConfigured \in BOOLEAN

VARIABLES
    request,    \* the withdrawal_requests table
    beans,      \* hostWallets.beanBalance
    ledger,     \* <<request, kind>>: idempotency keys of its ledger entries
    recent,     \* requests created within the policy's window
    transfer,   \* what Cashfree knows of the transfer of a request
    webhook,    \* requests whose transfer has a webhook under way
    task,       \* handlers in flight
    faults      \* crashes, outages and lost webhooks so far

vars == <<request, beans, ledger, recent, transfer, webhook, task, faults>>
gateway == <<transfer, webhook>>
rows == <<request, beans, ledger, recent>>

-----------------------------------------------------------------------------
(* Rows and tasks *)

Statuses == {"none", "pending", "approved", "processing", "paid", "failed",
             "rejected"}
Kinds == {"debit", "rejectReversal", "failureReversal"}

\* `sent` is payoutTxnId: the transfer id has been recorded.
RequestRow == [status: Statuses, host: Hosts \cup {Nobody},
               beans: Amounts \cup {0}, sent: BOOLEAN]
NoRequest == [status |-> "none", host |-> Nobody, beans |-> 0, sent |-> FALSE]

Steps == {"idle", "insert", "initiate", "lookup", "record", "markFailed",
          "reject", "approve", "sync", "markPaid"}

\* A handler: its next step, its request, the row or draft it holds, the
\* statuses it may fail the request from, and whether a webhook awaits its
\* answer.
Task == [at: Steps, on: Requests \cup {Nobody}, row: RequestRow,
         from: SUBSET Statuses, hook: BOOLEAN]

Handler(step, w, row, hook) ==
    [at |-> step, on |-> w, row |-> row, from |-> {}, hook |-> hook]
Idle == Handler("idle", Nobody, NoRequest, FALSE)

At(t, step) == task[t].at = step
Become(t, r) == task' = [task EXCEPT ![t] = r]
Goto(t, step) == task' = [task EXCEPT ![t].at = step]
FailFrom(t, statuses) ==
    task' = [task EXCEPT ![t].at = "markFailed", ![t].from = statuses]
Finish(t) == Become(t, Idle)

Status(w) == request[w].status
SetStatus(w, s) == request' = [request EXCEPT ![w].status = s]

\* Answered 500 or never: Cashfree delivers the webhook again.
AskAgain(t) ==
    webhook' = webhook \cup (IF task[t].hook THEN {task[t].on} ELSE {})

Init ==
    /\ request = [w \in Requests |-> NoRequest]
    /\ beans = [h \in Hosts |-> InitialBeans]
    /\ ledger = {}
    /\ recent = {}
    /\ transfer = [w \in Requests |-> "none"]
    /\ webhook = {}
    /\ task = [t \in Tasks |-> Idle]
    /\ faults = [crash |-> 0, outage |-> 0, lost |-> 0]

-----------------------------------------------------------------------------
(* Bean movements, each inside its caller's transaction (wallet.service.ts) *)

KeyIsFree(w, kind) == <<w, kind>> \notin ledger

DebitHostBeans(w, h, b) ==
    /\ beans' = [beans EXCEPT ![h] = @ - b]
    /\ ledger' = ledger \cup {<<w, "debit">>}

CreditHostBeans(w, kind) ==
    /\ beans' = [beans EXCEPT ![request[w].host] = @ + request[w].beans]
    /\ ledger' = ledger \cup {<<w, kind>>}

-----------------------------------------------------------------------------
(* requestWithdrawal *)

\* Bound: every request being made finds an id of its own.
Unused == {w \in Requests : Status(w) = "none"}
Inserting == {t \in Tasks : At(t, "insert")}

\* The KYC, payout-method, minimum and fee checks hold no state of this
\* component; they pass here.  The frequency cap is a count read beforehand.
RequestCount(t, h, b) ==
    /\ At(t, "idle")
    /\ Cardinality(Inserting) < Cardinality(Unused)
    /\ Cardinality({w \in recent : request[w].host = h}) < MaxPerWindow
    /\ Become(t, Handler("insert", Nobody,
            [status |-> IF b \in AutoApproved THEN "approved" ELSE "pending",
             host |-> h, beans |-> b, sent |-> FALSE], FALSE))
    /\ UNCHANGED <<rows, gateway, faults>>

\* Mutant: the balance is not read under FOR UPDATE but taken on trust.
CanAffordOnTrust(h, b) == TRUE

CanAfford(h, b) == beans[h] >= b

\* Insert the row and debit the beans in one transaction, or neither.
RequestInsert(t) ==
    LET draft == task[t].row IN
    /\ At(t, "insert")
    /\ \/ /\ CanAfford(draft.host, draft.beans)
          /\ \E w \in Unused :
              /\ request' = [request EXCEPT ![w] = draft]
              /\ recent' = recent \cup {w}
              /\ DebitHostBeans(w, draft.host, draft.beans)
              /\ IF draft.status = "approved"
                 THEN Become(t, Handler("initiate", w, NoRequest, FALSE))
                 ELSE Finish(t)
       \/ /\ ~CanAfford(draft.host, draft.beans)    \* 402
          /\ Finish(t)
          /\ UNCHANGED rows
    /\ UNCHANGED <<gateway, faults>>

\* Days pass, and a request leaves the window of the frequency policy.
LeaveWindow(w) ==
    /\ w \in recent
    /\ recent' = recent \ {w}
    /\ UNCHANGED <<request, beans, ledger, gateway, task, faults>>

-----------------------------------------------------------------------------
(* initiatePayoutForRequest *)

\* POST /transfers.  Cashfree may accept the transfer and the answer may still
\* be lost; it refuses some transfers, and always a duplicate id.
Initiate(t) ==
    LET w == task[t].on IN
    /\ At(t, "initiate")
    /\ \/ /\ ~CashfreeConfigured
          /\ Goto(t, "record")
          /\ UNCHANGED transfer
       \/ /\ CashfreeConfigured
          /\ transfer[w] = "none"
          /\ transfer' = [transfer EXCEPT ![w] = "pending"]
          /\ \/ Goto(t, "record")
             \/ Goto(t, "lookup")
       \/ /\ CashfreeConfigured
          /\ Goto(t, "lookup")
          /\ UNCHANGED transfer
    /\ UNCHANGED <<rows, webhook, faults>>

\* Mutant: an error of the POST is taken to mean there is no transfer.
LookupGuesses(t) ==
    /\ At(t, "lookup")
    /\ FailFrom(t, {"approved"})
    /\ UNCHANGED <<rows, gateway, faults>>

\* Mutant: a transfer that does exist is left for someone else to record.
LookupLeavesFound(t) ==
    /\ At(t, "lookup")
    /\ \/ /\ transfer[task[t].on] = "none"
          /\ FailFrom(t, {"approved"})
       \/ /\ transfer[task[t].on] # "none"
          /\ Finish(t)
    /\ UNCHANGED <<rows, gateway, faults>>

\* After an error, ask Cashfree whether the transfer exists.
Lookup(t) ==
    /\ At(t, "lookup")
    /\ \/ /\ transfer[task[t].on] = "none"
          /\ FailFrom(t, {"approved"})
       \/ /\ transfer[task[t].on] # "none"
          /\ Goto(t, "record")
    /\ UNCHANGED <<rows, gateway, faults>>

\* The UPDATE to `processing` is by id alone.
Record(t) ==
    /\ At(t, "record")
    /\ request' = [request EXCEPT ![task[t].on].status = "processing",
                                  ![task[t].on].sent = TRUE]
    /\ Finish(t)
    /\ UNCHANGED <<beans, ledger, recent, gateway, faults>>

-----------------------------------------------------------------------------
(* decideWithdrawal: the row is read, then written by id alone *)

Deciding(w) == {t \in Tasks : task[t].at \in {"reject", "approve"}
                              /\ task[t].on = w}

\* Mutant: the check that the request is still pending is missing.
DecideReadAnyStatus(t, w) ==
    /\ At(t, "idle")
    /\ Status(w) # "none"
    /\ Cardinality(Deciding(w)) < MaxDeciding
    /\ \E step \in {"reject", "approve"} :
        Become(t, Handler(step, w, NoRequest, FALSE))
    /\ UNCHANGED <<rows, gateway, faults>>

DecideRead(t, w) ==
    /\ At(t, "idle")
    /\ Status(w) = "pending"
    /\ Cardinality(Deciding(w)) < MaxDeciding
    /\ \E step \in {"reject", "approve"} :
        Become(t, Handler(step, w, NoRequest, FALSE))
    /\ UNCHANGED <<rows, gateway, faults>>

\* Credit and status in one transaction; a second rejection's credit violates
\* the unique key and rolls back.
RejectWrite(t) ==
    LET w == task[t].on IN
    /\ At(t, "reject")
    /\ \/ /\ KeyIsFree(w, "rejectReversal")
          /\ CreditHostBeans(w, "rejectReversal")
          /\ SetStatus(w, "rejected")
       \/ /\ ~KeyIsFree(w, "rejectReversal")
          /\ UNCHANGED <<request, beans, ledger>>
    /\ Finish(t)
    /\ UNCHANGED <<recent, gateway, faults>>

ApproveWrite(t) ==
    /\ At(t, "approve")
    /\ SetStatus(task[t].on, "approved")
    /\ Goto(t, "initiate")
    /\ UNCHANGED <<beans, ledger, recent, gateway, faults>>

-----------------------------------------------------------------------------
(* syncPayoutWithGateway and the two ways a payout ends *)

\* GET /withdrawals, GET /withdrawals/:id and the admin's detail screen sync
\* requests that are processing.  The dev stub's are left alone.
Poll(t, w) ==
    /\ At(t, "idle")
    /\ CashfreeConfigured
    /\ Status(w) = "processing"
    /\ Become(t, Handler("sync", w, request[w], FALSE))
    /\ UNCHANGED <<rows, gateway, faults>>

\* The webhook finds the request by its recorded transfer id.  A webhook for a
\* transfer nobody has recorded yet is answered 200, and so never sent again.
WebhookArrives(t, w) ==
    /\ At(t, "idle")
    /\ w \in webhook
    /\ webhook' = webhook \ {w}
    /\ IF request[w].sent /\ Status(w) \in {"processing", "paid"}
       THEN Become(t, Handler("sync", w, request[w], TRUE))
       ELSE UNCHANGED task
    /\ UNCHANGED <<rows, transfer, faults>>

\* Mutant: any transfer Cashfree knows of that has not failed counts as paid.
CountsAsPaidEarly(w) == transfer[w] \in {"pending", "paid"}

\* Mutant: REVERSED is not in the list of failures.
CountsAsFailedUnlessReversed(w) == transfer[w] = "failed"

CountsAsPaid(w) == transfer[w] = "paid"
CountsAsFailed(w) == transfer[w] \in {"failed", "reversed"}

\* Cashfree's own status decides, together with the row as it was read.
Sync(t) ==
    LET w == task[t].on IN
    /\ At(t, "sync")
    /\ \/ /\ CountsAsPaid(w)
          /\ task[t].row.status = "processing"
          /\ Goto(t, "markPaid")
       \/ /\ CountsAsFailed(w)
          /\ FailFrom(t, {"processing", "paid"})
       \/ /\ ~CountsAsFailed(w)
          /\ CountsAsPaid(w) => task[t].row.status # "processing"
          /\ Finish(t)
    /\ UNCHANGED <<rows, gateway, faults>>

\* The lookup itself fails.  A payout being started stays `approved`; a sync
\* changes nothing and its webhook is retried.
LookupFails(t) ==
    /\ task[t].at \in {"lookup", "sync"}
    /\ faults.outage < MaxOutages
    /\ faults' = [faults EXCEPT !.outage = @ + 1]
    /\ AskAgain(t)
    /\ Finish(t)
    /\ UNCHANGED <<rows, transfer>>

\* Mutant: markPayoutPaid without its WHERE status = 'processing'.
PaidFromAnywhere == Statuses

PaidFrom == {"processing"}

MarkPaid(t) ==
    /\ At(t, "markPaid")
    /\ IF Status(task[t].on) \in PaidFrom
       THEN SetStatus(task[t].on, "paid")
       ELSE UNCHANGED request
    /\ Finish(t)
    /\ UNCHANGED <<beans, ledger, recent, gateway, faults>>

\* Claim the row from an allowed status and return the beans, in one
\* transaction; nothing is claimed twice, and the key is used once.
MarkFailed(t) ==
    LET w == task[t].on IN
    /\ At(t, "markFailed")
    /\ \/ /\ Status(w) \in task[t].from
          /\ KeyIsFree(w, "failureReversal")
          /\ SetStatus(w, "failed")
          /\ CreditHostBeans(w, "failureReversal")
          /\ UNCHANGED webhook
       \/ /\ Status(w) \in task[t].from
          /\ ~KeyIsFree(w, "failureReversal")
          /\ AskAgain(t)
          /\ UNCHANGED <<request, beans, ledger>>
       \/ /\ Status(w) \notin task[t].from
          /\ UNCHANGED <<request, beans, ledger, webhook>>
    /\ Finish(t)
    /\ UNCHANGED <<recent, transfer, faults>>

\* The stub's outcome, from the dev-only route.
DevResolvePayout(t, w) ==
    /\ At(t, "idle")
    /\ ~CashfreeConfigured
    /\ Status(w) = "processing"
    /\ \/ Become(t, Handler("markPaid", w, NoRequest, FALSE))
       \/ Become(t, [Handler("markFailed", w, NoRequest, FALSE)
                        EXCEPT !.from = {"processing"}])
    /\ UNCHANGED <<rows, gateway, faults>>

-----------------------------------------------------------------------------
(* The environment *)

\* Cashfree settles a transfer, or the bank sends the money back; each change
\* is announced by a webhook.
TransferMoves(w, old, new) ==
    /\ transfer[w] = old
    /\ transfer' = [transfer EXCEPT ![w] = new]
    /\ webhook' = webhook \cup {w}
    /\ UNCHANGED <<rows, task, faults>>

TransferSettles(w) ==
    TransferMoves(w, "pending", "paid") \/ TransferMoves(w, "pending", "failed")
TransferReversed(w) == TransferMoves(w, "paid", "reversed")

WebhookLost(w) ==
    /\ w \in webhook
    /\ faults.lost < MaxLostWebhooks
    /\ faults' = [faults EXCEPT !.lost = @ + 1]
    /\ webhook' = webhook \ {w}
    /\ UNCHANGED <<rows, transfer, task>>

\* A process dies with its handlers; a webhook it had not answered is retried.
Crash(S) ==
    /\ faults.crash < MaxCrashes
    /\ \E t \in S : ~At(t, "idle")
    /\ faults' = [faults EXCEPT !.crash = @ + 1]
    /\ task' = [t \in Tasks |-> IF t \in S THEN Idle ELSE task[t]]
    /\ webhook' = webhook \cup {task[t].on : t \in {s \in S : task[s].hook}}
    /\ UNCHANGED <<rows, transfer>>

-----------------------------------------------------------------------------
Arrives(t) ==
    \/ \E h \in Hosts, b \in Amounts : RequestCount(t, h, b)
    \/ \E w \in Requests : DecideRead(t, w) \/ DevResolvePayout(t, w)

Continue(t) ==
    \/ RequestInsert(t)
    \/ Initiate(t) \/ Lookup(t) \/ Record(t)
    \/ RejectWrite(t) \/ ApproveWrite(t)
    \/ Sync(t) \/ MarkPaid(t) \/ MarkFailed(t)

Next ==
    \/ \E t \in Tasks :
        \/ Arrives(t) \/ Continue(t) \/ LookupFails(t)
        \/ \E w \in Requests : Poll(t, w) \/ WebhookArrives(t, w)
    \/ \E w \in Requests :
        \/ LeaveWindow(w)
        \/ TransferSettles(w) \/ TransferReversed(w) \/ WebhookLost(w)
    \/ \E S \in SUBSET Tasks : Crash(S)

Spec == Init /\ [][Next]_vars

\* Handlers run on, Cashfree settles what it accepted and delivers a webhook
\* it has not given up on, and the host or an admin looks at a request that is
\* still processing again and again.  Strong where a free slot is needed.
Fairness ==
    /\ \A t \in Tasks : WF_vars(Continue(t))
    /\ \A w \in Requests :
        /\ WF_vars(TransferSettles(w))
        /\ SF_vars(\E t \in Tasks : Poll(t, w))
        /\ SF_vars(\E t \in Tasks : WebhookArrives(t, w))

FairSpec == Spec /\ Fairness

-----------------------------------------------------------------------------
(* Properties *)

\* Every variable keeps its type; no host is overdrawn, however many requests
\* pass their checks at once (debitHostBeans).
TypeOK ==
    /\ request \in [Requests -> RequestRow]
    /\ beans \in [Hosts -> Nat]
    /\ ledger \subseteq Requests \X Kinds
    /\ recent \subseteq Requests
    /\ transfer \in [Requests -> {"none", "pending", "paid", "failed", "reversed"}]
    /\ webhook \subseteq Requests
    /\ task \in [Tasks -> Task]
    /\ faults \in [crash: Nat, outage: Nat, lost: Nat]

Deal(status) ==
    CASE status = "none" -> "none"
      [] status \in {"pending", "approved", "processing"} -> "held"
      [] status = "paid" -> "paidOut"
      [] status \in {"failed", "rejected"} -> "returned"

\* The service keeps the contract: beans leave the wallet once per request and
\* come back at most once, exactly when the request fails or is rejected.
Contract == INSTANCE PayoutContract WITH
    deal <- [w \in Requests |-> Deal(Status(w))],
    owner <- [w \in Requests |-> request[w].host],
    amount <- [w \in Requests |-> request[w].beans],
    balance <- beans

KeepsContract == Contract!Spec

\* A request is shown as paid only if Cashfree has paid its transfer
\* (syncPayoutWithGateway against the claims of markPayoutPaid).
PaidWasTransferred ==
    CashfreeConfigured => \A w \in Requests :
        Status(w) = "paid" => transfer[w] \in {"paid", "reversed"}

Returned(w) == {"rejectReversal", "failureReversal"} \cap
               {kind \in Kinds : <<w, kind>> \in ledger}

\* No host ever has both the money and the beans: beans are not returned while
\* their transfer is pending or paid, whatever was lost or timed out
\* (initiatePayoutForRequest asks before it fails a request).
NeverPaidAndReturned ==
    \A w \in Requests : transfer[w] \in {"pending", "paid"} => Returned(w) = {}

\* What an entry adds to the balance of its request's host.
Signed == [e \in Requests \X Kinds |->
    IF e[2] = "debit" THEN -request[e[1]].beans ELSE request[e[1]].beans]

LedgerSum(h) == SumFunctionOnSet(Signed, {e \in ledger : request[e[1]].host = h})

LedgerAddsUp == \A h \in Hosts : beans[h] = InitialBeans + LedgerSum(h)

\* Each balance is what its ledger says and never negative, even if requests
\* that all saw the beans are debited at once, or their payouts fail and collide.
BalanceIsLedger == TypeOK /\ LedgerAddsUp

\* An approved payout ends, paid or with the beans returned (BR-EARN-06).
PayoutsSettle ==
    \A w \in Requests : Status(w) \in {"approved", "processing"}
                            ~> Status(w) \in {"paid", "failed"}

\* When the bank sends a payout back, the host gets the beans back, unless a
\* webhook was lost: once a request is paid nothing else asks Cashfree again.
ReversalsReturn ==
    \A w \in Requests :
        transfer[w] = "reversed" ~> (Status(w) = "failed" \/ faults.lost > 0)

\* The comment over markPayoutPaid: the ledger's idempotency key makes a second
\* reversal impossible regardless.
ReturnedOnce == \A w \in Requests : Cardinality(Returned(w)) <= 1

=============================================================================
