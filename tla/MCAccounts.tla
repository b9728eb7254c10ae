----------------------------- MODULE MCAccounts -----------------------------
(* Accounts and PayoutMethods for TLC, see accounts.cfg: one part of the       *)
(* service at a time, chosen at the start, since requests of different parts   *)
(* share little state.  `Main` is the account most requests are about; the     *)
(* others share its device.  No symmetry is declared: the run checks liveness. *)
EXTENDS Accounts, PayoutMethods

CONSTANT Main
VARIABLE part

vars == <<accountVars, payoutVars, task, part>>

Init ==
    /\ part \in {"sessions", "kyc", "devices", "captures", "payouts"}
    /\ AccountInit(IF part \in {"kyc", "captures"} THEN {Main} ELSE {})
    /\ PayoutInit /\ NoTasks

Next ==
    /\ UNCHANGED part
    /\ \/ /\ UNCHANGED payoutVars
          /\ \/ \E t \in Tasks : AccountStep(t)
             \/ part = "devices" /\ \E u \in Accounts : LogIn(u)
             \/ /\ part = "sessions"
                /\ \/ LogIn(Main) \/ StatusRequest(Main)
                   \/ \E k \in Keys : Refresh(k) \/ revokeRefreshToken(k)
             \/ part = "kyc" /\ KycRequest(Main)
             \/ part = "captures" /\ ModerationRequest(Main)
             \/ part # "payouts" /\ Crash
       \/ /\ part = "payouts"
          /\ UNCHANGED accountVars
          /\ \/ PayoutRequest \/ PayoutRestart
             \/ \E t \in Tasks : PayoutStep(t)

\* Handlers go on, and the app of whoever holds a token refreshes it, as access
\* tokens last minutes.  Strong fairness: requests compete for slots here only.
Fairness ==
    /\ \A t \in Tasks : WF_vars(AccountStep(t) /\ UNCHANGED <<payoutVars, part>>)
    /\ \A k \in Keys : SF_vars(Refresh(k) /\ UNCHANGED <<payoutVars, part>>)

FairSpec == Init /\ [][Next]_vars /\ Fairness

=============================================================================
