-------------------------- MODULE MCConversations --------------------------
(* Chat and Support for TLC, see conversations.cfg: one part of either at a    *)
(* time, chosen at the start, as the two share no state.  Of Chat, nobody      *)
(* blocks ("gifts"), or one gift at most is asked for and no photo fails       *)
(* ("blocks"); of Support, the bot stays on or off ("faults"), or no lock      *)
(* expires and nothing restarts ("switch").  No symmetry is declared: the run  *)
(* checks liveness.                                                            *)
EXTENDS Chat, Support

VARIABLE part

vars == <<chatVars, supportVars, task, part>>

ChatParts == {"gifts", "blocks"}
SupportParts == {"faults", "switch"}

Init ==
    /\ ChatInit /\ SupportInit /\ NoTasks
    /\ part \in ChatParts \cup SupportParts
    /\ part \in ChatParts => botOn

Next ==
    /\ UNCHANGED part
    /\ \/ /\ part \in ChatParts
          /\ UNCHANGED supportVars
          /\ ChatNext
          /\ part = "gifts" => blocked' = {}
          /\ part = "blocks" => flagged' = 0 /\ \A p \in Pairs : Len(request'[p]) <= 1
       \/ /\ part \in SupportParts
          /\ UNCHANGED chatVars
          /\ SupportNext
          /\ part = "faults" => botOn' = botOn
          /\ part = "switch" => expiries' = 0 /\ restarts' = 0

\* A run of the bot goes on: its calls have timeouts.
FairSpec ==
    /\ Init /\ [][Next]_vars
    /\ \A t \in Tasks :
        WF_vars(part \in SupportParts /\ UNCHANGED <<chatVars, part>> /\ BotStep(t))

=============================================================================
