----------------------------- MODULE MCReports -----------------------------
(* Reports and Figures for TLC, see reports.cfg.  Each behaviour is about one  *)
(* part, chosen at the start: sales and the terms they are made on, the other  *)
(* movements of money, rewards, or figures of rows (no step).  A rejected call *)
(* counts as a missed one does.  No symmetry is declared: host ids are         *)
(* ordered, and the run checks liveness.                                       *)
EXTENDS Reports, Figures

CONSTANTS
    Buyer, Star,        \* the user and the host of "sales" and "money"
    LastInstant         \* bound on the clock in those parts, and
                        \* on that of sales in "rewards"
VARIABLE part

vars == <<ledgerVars, rewardVars, figureVars, task, part>>

MCCommissions == <<3000, 5000>>
MCTables == {[enabled |-> TRUE, min |-> 2, tiers |-> <<2, 1>>]}

Init ==
    /\ LedgerInit /\ RewardsInit /\ NoTasks
    /\ \/ part \in {"sales", "money", "rewards"} /\ NoFigures
       \/ part = "online" /\ OnlineInputs /\ slabs = <<>> /\ minAmount = 1
       \/ part = "slabs" /\ SlabInputs /\ activities = <<>> /\ asOf = 0

\* Free slots are alike: a handler takes any one of them.
Slot == LET free == {t \in Tasks : task[t] = Idle} IN
    IF free = {} THEN {} ELSE {CHOOSE t \in free : TRUE}

Sales(t) ==
    \/ \E c \in DOMAIN calls : runBillingTick(t, c)
    \/ \E context \in {"live", "none"} : sendGift(t, Buyer, Star, context)
    \/ sendPaidUserMessage(t, Buyer, Star)
    \/ \E level \in 0..1 : setHostPriceLevel(t, Star, level)

SalesRequest ==
    \/ \E t \in Slot : Sales(t)
    \/ \E type \in {"video"} : initiateCall(Buyer, Star, type)
    \/ \E c \in DOMAIN calls : acceptCall(c) \/ \E status \in {"missed", "completed"} : endCall(c, status)
    \/ Quiet /\ createCommissionConfig(Star, Last(Commissions))

MoneyRequest ==
    \/ creditUserWallet(Buyer, "dev_credit")
    \/ \E amount \in {-10, 2}, kind \in {"adjustment", "refund"} : adjustUserWallet(Buyer, amount, kind)
    \/ debitHostBeans(Star) \/ ReturnBeans(Star)
    \/ initiateCall(Buyer, Star, "voice")
    \/ \E t \in Slot : sendGift(t, Buyer, Star, "chat")

RewardRequest ==
    \/ now <= LastInstant /\ Quiet /\ \E period \in Periods, table \in Tables : setRewardConfig(period, table)
    \/ Busy({"settle"}) # {} /\ crashes = 0 /\ Suspend(Star)

\* A sweep finds nothing to settle until the grace after the first day is over.
SweepStarts == part = "rewards" /\ now >= DayLength + Grace /\ \E t \in Slot : StartSweep(t)

Next ==
    /\ UNCHANGED <<part, figureVars>>
    /\ \/ part = "sales" /\ SalesRequest /\ UNCHANGED rewardVars
       \/ part = "money" /\ MoneyRequest /\ UNCHANGED rewardVars
       \/ part = "rewards" /\ RewardRequest
       \/ SweepStarts \/ \E t \in Tasks : settleClosedRewardPeriods(t)
       \/ /\ part \in {"sales", "money", "rewards"}
          /\ UNCHANGED rewardVars
          /\ \/ (part = "rewards" \/ now < LastInstant) /\ Clock
             \/ (part = "money" \/ (Busy({"settle"}) # {} /\ active = Hosts)) /\ LedgerRestart
             \/ \E t \in Tasks : SaleStep(t)
             \/ /\ part = "rewards" /\ now <= LastInstant /\ Busy({"transfer", "announce"}) = {}
                /\ \E t \in Slot, h \in Hosts : sendGift(t, Buyer, h, "live")

\* A server with work to do does some of it: which transaction ends or which
\* sweep goes on is left open, and sweeps start as long as nothing else is left.
Working ==
    /\ UNCHANGED <<part, figureVars>>
    /\ \/ SweepStarts \/ \E t \in Tasks : settleClosedRewardPeriods(t)
       \/ UNCHANGED rewardVars /\ \E t \in Tasks : SaleStep(t)

FairSpec == Init /\ [][Next]_vars /\ WF_vars(Working)

=============================================================================
