------------------------------ MODULE Presence ------------------------------
(***************************************************************************)
(* Which hosts are online: the flag calls consult (presence.store.ts), the *)
(* host_online_sessions rows behind the daily report, the sockets, the     *)
(* disconnect handler (realtime/socket.ts) and the sweep that mends the    *)
(* rest (onlineSessionSweep.ts).  Live extends this module: a host's       *)
(* disconnect also arms the grace timer of the broadcast.                  *)
(*                                                                         *)
(* Handlers run one database, Redis or socket call per step, interleaved.  *)
(* Time is abstract: an open session's lastSeenAt is "fresh" or "stale".   *)
(***************************************************************************)
EXTENDS Handlers

CONSTANTS
    Hosts,
    Tabs,           \* the sockets a host may hold at a time
    Redis,          \* whether the flag survives a restart
    Limits          \* bounds, one of which is chosen at the start: how many
                    \* online sessions and pending grace timers of a host,
                    \* crashes, broadcasts, viewer rows and SFU sessions

Limit == [sessions : Nat, timers : Nat, crashes : Nat,
          broadcasts : Nat, views : Nat, sfu : Nat]
ASSUME PresenceConstants ==
    /\ Redis \in BOOLEAN
    /\ Limits \subseteq Limit

VARIABLES
    conn,       \* connected sockets, <<host, tab>>
    online,     \* the presence flag: presence:online-hosts
    session,    \* host_online_sessions: the rows of each host
    armed,      \* grace timers pending for a host (process memory)
    crashes,
    limit       \* the bounds in force

-----------------------------------------------------------------------------
(* Rows, reads and tasks *)

SessionRow == {"fresh", "stale", "closed"}
Open(h) == {i \in DOMAIN session[h] : session[h][i] # "closed"}

isUserConnected(h) == \E k \in Tabs : <<h, k>> \in conn
isOnline(h) == h \in online

\* Rows a sweep has read and not dealt with yet.
Seen == [host : Hosts, id : Nat, stale : BOOLEAN]
\* What follows once a host's sessions are closed: the reply of the toggle, the
\* timers of the disconnect handler, or the next row of the sweep.
After == {"reply", "arm", "sweep"}
PresenceTask ==
    {Idle}
    \cup [at : {"readOpen", "insertSession", "flag", "sockets"}, host : Hosts]
    \cup [at : {"setOffline", "closeRows"}, host : Hosts, after : After,
          rest : SUBSET Seen]
    \cup [at : {"sweep"}, rest : SUBSET Seen]
    \cup [at : {"sweepSockets", "touch"}, row : Seen, rest : SUBSET Seen]

PresenceInit ==
    /\ conn = {}
    /\ online = {}
    /\ session = [h \in Hosts |-> <<>>]
    /\ armed = [h \in Hosts |-> 0]
    /\ NoTasks
    /\ crashes = 0
    /\ limit \in Limits

-----------------------------------------------------------------------------
(* PATCH /me/presence.  Nothing keeps two requests of a host apart. *)

Inserting(h) == {t \in Busy({"readOpen", "insertSession"}) : task[t].host = h}

markHostOnline(t, h) ==
    /\ Len(session[h]) + Cardinality(Inserting(h)) < limit.sessions
    /\ Start(t, [at |-> "readOpen", host |-> h])
    /\ online' = online \cup {h}
    /\ UNCHANGED <<conn, session, armed, crashes, limit>>

ReadOpen(t) ==
    /\ At(t, "readOpen")
    /\ Goto(t, IF Open(task[t].host) = {}
               THEN [task[t] EXCEPT !.at = "insertSession"] ELSE Idle)
    /\ UNCHANGED <<conn, online, session, armed, crashes, limit>>

InsertSession(t) ==
    /\ At(t, "insertSession")
    /\ session' = [session EXCEPT ![task[t].host] = Append(@, "fresh")]
    /\ Done(t)
    /\ UNCHANGED <<conn, online, armed, crashes, limit>>

Closing(h, after, rest) ==
    [at |-> "closeRows", host |-> h, after |-> after, rest |-> rest]

markHostOffline(t, h) ==
    /\ Start(t, Closing(h, "reply", {}))
    /\ online' = online \ {h}
    /\ UNCHANGED <<conn, session, armed, crashes, limit>>

closeOpenSessions(h) ==
    session' = [session EXCEPT ![h] = [i \in DOMAIN @ |-> "closed"]]

\* Every handler that closes a host's sessions goes on with what is left to do.
CloseRows(t) ==
    /\ At(t, "closeRows")
    /\ closeOpenSessions(task[t].host)
    /\ Goto(t, IF task[t].after = "sweep"
               THEN [at |-> "sweep", rest |-> task[t].rest] ELSE Idle)
    /\ armed' = IF task[t].after = "arm"
                THEN [armed EXCEPT ![task[t].host] = @ + 1] ELSE armed
    /\ UNCHANGED <<conn, online, crashes, limit>>

SetOffline(t) ==
    /\ At(t, "setOffline")
    /\ online' = online \ {task[t].host}
    /\ Step(t, "closeRows")
    /\ UNCHANGED <<conn, session, armed, crashes, limit>>

-----------------------------------------------------------------------------
(* Sockets and the disconnect handler *)

Connect(h, k) ==
    /\ <<h, k>> \notin conn
    /\ conn' = conn \cup {<<h, k>>}
    /\ UNCHANGED <<online, session, armed, task, crashes, limit>>

Leaving(h) == {t \in Tasks :
    /\ task[t].at \in {"flag", "sockets", "setOffline", "closeRows"}
    /\ task[t].host = h}

Disconnect(t, h, k) ==
    /\ <<h, k>> \in conn
    /\ armed[h] + Cardinality(Leaving(h)) < limit.timers
    /\ Start(t, [at |-> "flag", host |-> h])
    /\ conn' = conn \ {<<h, k>>}
    /\ UNCHANGED <<online, session, armed, crashes, limit>>

ArmGraceTimers(t) ==
    /\ Done(t)
    /\ armed' = [armed EXCEPT ![task[t].host] = @ + 1]

\* Mutant: the handler returns before the timers when the host is not online.
CheckFlagThenReturn(t) ==
    /\ At(t, "flag")
    /\ Goto(t, IF isOnline(task[t].host)
               THEN [task[t] EXCEPT !.at = "sockets"] ELSE Idle)
    /\ UNCHANGED <<conn, online, session, armed, crashes, limit>>

CheckFlag(t) ==
    /\ At(t, "flag")
    /\ IF isOnline(task[t].host)
       THEN Step(t, "sockets") /\ UNCHANGED armed
       ELSE ArmGraceTimers(t)
    /\ UNCHANGED <<conn, online, session, crashes, limit>>

CheckSockets(t) ==
    /\ At(t, "sockets")
    /\ IF isUserConnected(task[t].host)
       THEN ArmGraceTimers(t)
       ELSE /\ Goto(t, [at |-> "setOffline", host |-> task[t].host,
                        after |-> "arm", rest |-> {}])
            /\ UNCHANGED armed
    /\ UNCHANGED <<conn, online, session, crashes, limit>>

-----------------------------------------------------------------------------
(* sweepOnlineSessions: at boot, then every 30 s; one at a time *)

SweepStart(t) ==
    /\ Busy({"sweep", "sweepSockets", "touch"}) = {}
    /\ \A u \in Tasks : task[u].at \in {"setOffline", "closeRows"}
                            => task[u].after # "sweep"
    /\ \E h \in Hosts : Open(h) # {}
    /\ Start(t, [at |-> "sweep", rest |->
           UNION {{[host |-> h, id |-> i, stale |-> session[h][i] = "stale"]
                      : i \in Open(h)} : h \in Hosts}])
    /\ UNCHANGED <<conn, online, session, armed, crashes, limit>>

\* A host whose flag is off is closed, whichever of its sessions are open now.
SweepRow(t) ==
    /\ At(t, "sweep")
    /\ \E r \in task[t].rest : LET rest == task[t].rest \ {r} IN
           Goto(t, IF isOnline(r.host)
                   THEN [at |-> "sweepSockets", row |-> r, rest |-> rest]
                   ELSE Closing(r.host, "sweep", rest))
    /\ UNCHANGED <<conn, online, session, armed, crashes, limit>>

\* Mutant: the sweep leaves unreachable hosts to the disconnect handler.
SweepSocketsOnlyTouches(t) ==
    /\ At(t, "sweepSockets")
    /\ Goto(t, IF isUserConnected(task[t].row.host)
               THEN [task[t] EXCEPT !.at = "touch"]
               ELSE [at |-> "sweep", rest |-> task[t].rest])
    /\ UNCHANGED <<conn, online, session, armed, crashes, limit>>

SweepSockets(t) ==
    /\ At(t, "sweepSockets")
    /\ Goto(t, CASE isUserConnected(task[t].row.host) ->
                      [task[t] EXCEPT !.at = "touch"]
                 [] ~isUserConnected(task[t].row.host) /\ task[t].row.stale ->
                      [at |-> "setOffline", host |-> task[t].row.host,
                       after |-> "sweep", rest |-> task[t].rest]
                 [] OTHER -> [at |-> "sweep", rest |-> task[t].rest])
    /\ UNCHANGED <<conn, online, session, armed, crashes, limit>>

\* lastSeenAt = now, on the row that was read, if it is still open.
SweepTouch(t) ==
    /\ At(t, "touch")
    /\ LET r == task[t].row IN
           session' = IF r.id \in Open(r.host)
                      THEN [session EXCEPT ![r.host][r.id] = "fresh"] ELSE session
    /\ Goto(t, [at |-> "sweep", rest |-> task[t].rest])
    /\ UNCHANGED <<conn, online, armed, crashes, limit>>

SweepEnd(t) ==
    /\ At(t, "sweep") /\ task[t].rest = {}
    /\ Done(t)
    /\ UNCHANGED <<conn, online, session, armed, crashes, limit>>

\* UNREACHABLE_GRACE_MS pass since lastSeenAt.
SessionAges(h) ==
    /\ \E i \in Open(h) : session' = [session EXCEPT ![h][i] = "stale"]
    /\ session' # session
    /\ UNCHANGED <<conn, online, armed, task, crashes, limit>>

-----------------------------------------------------------------------------
\* A restart: sockets, handlers and timers are gone, and without Redis the flags.
Crash ==
    /\ crashes < limit.crashes
    /\ crashes' = crashes + 1
    /\ conn' = {}
    /\ online' = IF Redis THEN online ELSE {}
    /\ armed' = [h \in Hosts |-> 0]
    /\ TasksLost
    /\ UNCHANGED <<session, limit>>

\* A step of a handler in flight.
PresenceStep(t) ==
    \/ ReadOpen(t) \/ InsertSession(t) \/ CloseRows(t) \/ SetOffline(t)
    \/ CheckFlag(t) \/ CheckSockets(t)
    \/ SweepRow(t) \/ SweepSockets(t) \/ SweepTouch(t) \/ SweepEnd(t)

PresenceNext ==
    \/ \E h \in Hosts :
           \/ SessionAges(h)
           \/ \E k \in Tabs : Connect(h, k)
    \/ \E t \in Tasks :
           \/ \E h \in Hosts : markHostOnline(t, h) \/ markHostOffline(t, h)
           \/ \E h \in Hosts, k \in Tabs : Disconnect(t, h, k)
           \/ SweepStart(t)
           \/ PresenceStep(t)
    \/ Crash

PresenceTypeOK ==
    /\ conn \subseteq Hosts \X Tabs
    /\ online \subseteq Hosts
    /\ \A h \in Hosts : /\ session[h] \in Seq(SessionRow)
                        /\ armed[h] \in 0..limit.timers
    /\ crashes \in 0..limit.crashes
    /\ limit \in Limits

=============================================================================
