------------------------------ MODULE MCCalls ------------------------------
(* CallLifecycle for TLC, see calls.cfg: with Redis or without, as chosen at   *)
(* the start.  No symmetry is declared: the run checks liveness.               *)
EXTENDS CallLifecycle

VARIABLE redis

Redis == INSTANCE CallLifecycle WITH RedisEnabled <- TRUE

MCInit == Init /\ redis \in BOOLEAN
MCNext ==
    /\ UNCHANGED redis
    /\ \/ redis /\ Redis!Next
       \/ ~redis /\ Next

mcvars == <<vars, redis>>

\* Fairness as in CallLifecycle, of the deployment that was chosen.
Goes(t) == UNCHANGED redis /\ IF redis THEN Redis!Continue(t) ELSE Continue(t)
Rings(c) == UNCHANGED redis /\ \E t \in Tasks :
    IF redis THEN Redis!RingFires(t, c) ELSE RingFires(t, c)
Ticks(c) == UNCHANGED redis /\ \E t \in Tasks :
    IF redis THEN Redis!TickFires(t, c) ELSE TickFires(t, c)
MCFairness ==
    /\ \A t \in Tasks : WF_mcvars(Goes(t))
    /\ \A c \in Calls : /\ SF_mcvars(Rings(c)) /\ SF_mcvars(Ticks(c))
                        /\ WF_mcvars(GrowStale(c) /\ UNCHANGED redis)
                        /\ WF_mcvars(redis /\ Redis!LockExpires(c) /\ UNCHANGED redis)
    /\ SF_mcvars(UNCHANGED redis /\ \E t \in Tasks : ReapStart(t))

MCSpec == MCInit /\ [][MCNext]_mcvars /\ MCFairness

=============================================================================
