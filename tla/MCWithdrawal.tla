---------------------------- MODULE MCWithdrawal ----------------------------
(* Withdrawal for TLC: with the gateway or, as chosen at the start, with the   *)
(* dev stub in its place (withdrawals.cfg), or with the gateway and fairness   *)
(* (withdrawals_settle.cfg).                                                   *)
EXTENDS Withdrawal, TLC

VARIABLE stub

Stub == INSTANCE Withdrawal WITH CashfreeConfigured <- FALSE

MCInit == Init /\ stub \in BOOLEAN
MCNext ==
    /\ UNCHANGED stub
    /\ \/ stub /\ Stub!Next
       \/ ~stub /\ Next

MCSpec == MCInit /\ [][MCNext]_<<vars, stub>>

SettleInit == Init /\ stub = FALSE
SettleSpec == SettleInit /\ [][MCNext]_<<vars, stub>> /\ Fairness

\* Handlers are interchangeable slots, and requests only ids.
Symmetry == Permutations(Tasks) \cup Permutations(Requests)
=============================================================================
