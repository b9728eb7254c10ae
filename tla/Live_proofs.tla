----------------------------- MODULE Live_proofs -----------------------------
(***************************************************************************)
(* What holds of broadcasts and presence whatever the hosts, viewers,      *)
(* slots and bounds: rows keep their types and bounds, only starts that    *)
(* crossed leave a host with two broadcasts, viewers go with theirs, and   *)
(* nobody pulls from an empty SFU session.                                 *)
(***************************************************************************)
EXTENDS Live, FiniteSetTheorems, TLAPS

AnyTask == PresenceTask \cup LiveTask

\* The types of the variables, every task included.
Types ==
    /\ task \in [Tasks -> AnyTask]
    /\ conn \subseteq Hosts \X Tabs
    /\ online \subseteq Hosts
    /\ session \in [Hosts -> Seq(SessionRow)]
    /\ armed \in [Hosts -> Nat]
    /\ crashes \in 0..limit.crashes
    /\ limit \in Limits
    /\ broadcast \in Seq(BroadcastRow)
    /\ view \in Seq(ViewRow)
    /\ sfu \in Seq({"empty", "tracks"})

\* The steps of a toggle that may insert a session.
AddSteps == {"readOpen", "insertSession"}

\* The disconnect handlers that will still arm a timer count against the bound.
ArmSteps == {"flag", "sockets", "setOffline", "closeRows"}
Arming(x, h) ==
    /\ x.at \in ArmSteps
    /\ x.at \in {"setOffline", "closeRows"} => x.after = "arm"
    /\ x.host = h
ArmingOf(h) == {t \in Tasks : Arming(task[t], h)}
Timers == \A h \in Hosts :
    /\ IsFiniteSet(Leaving(h))
    /\ armed[h] + Cardinality(ArmingOf(h)) <= limit.timers

\* Of the broadcasts there were when a start looked, none of the host's is live,
\* then or later: an ended one stays ended.
LookedFirst(h) == \A a, b \in ActiveBroadcasts(h) : a < b => broadcast[b].after < a
Looked(x) == x.at = "startInsert" =>
    /\ x.after <= Len(broadcast)
    /\ \A a \in ActiveBroadcasts(x.host) : x.after < a
Starts ==
    /\ \A h \in Hosts : LookedFirst(h)
    /\ \A t \in Tasks : Looked(task[t])

\* The SFU sessions that rows name have the host's tracks.
HasTracks(s) == s \in DOMAIN sfu /\ sfu[s] = "tracks"
BroadcastRows == \A b \in DOMAIN broadcast :
    broadcast[b].media # 0 => HasTracks(broadcast[b].media)
ViewRows == \A v \in DOMAIN view :
    /\ view[v].of \in DOMAIN broadcast
    /\ view[v].media # 0 => HasTracks(view[v].media)
Rows == BroadcastRows /\ ViewRows

\* So do those that handlers hold; and the rows they hold exist.
BroadcastSteps == {"endRow", "endViews", "createSfu", "joinRead", "joinInsert",
                   "joinCount", "joinPeak", "pushTracks", "saveMedia", "viewRow"}
Holds(x) ==
    /\ x.at \in BroadcastSteps => x.b \in DOMAIN broadcast
    /\ x.at \in {"leave", "pull"} => x.v \in DOMAIN view
    /\ x.at = "pushTracks" => x.s \in DOMAIN sfu
    /\ x.at \in {"saveMedia", "viewRow", "pull"} => HasTracks(x.s)
Refs == \A t \in Tasks : Holds(task[t])

IInv == Types /\ Timers /\ Starts /\ Rows /\ Refs
            /\ GoneWithTheBroadcast

-----------------------------------------------------------------------------
(* What a task is, from the step it is at *)

LEMMA TaskKinds ==
    ASSUME NEW x \in AnyTask
    PROVE  /\ x.at \in AddSteps \cup {"flag", "sockets"}
                  => x \in [at : {"readOpen", "insertSession", "flag", "sockets"},
                            host : Hosts]
           /\ x.at \in {"setOffline", "closeRows"}
                  => x \in [at : {"setOffline", "closeRows"}, host : Hosts,
                            after : After, rest : SUBSET Seen]
           /\ x.at = "sweep" => x \in [at : {"sweep"}, rest : SUBSET Seen]
           /\ x.at \in {"sweepSockets", "touch"}
                  => x \in [at : {"sweepSockets", "touch"}, row : Seen,
                            rest : SUBSET Seen]
           /\ x.at = "startInsert"
                  => x \in [at : {"startInsert"}, host : Hosts, after : Nat]
           /\ x.at \in {"graceSockets", "graceRead"}
                  => x \in [at : {"graceSockets", "graceRead"}, host : Hosts]
           /\ x.at \in {"endRow", "endViews", "createSfu"}
                  => x \in [at : {"endRow", "endViews", "createSfu"}, b : Nat]
           /\ x.at \in {"joinRead", "joinInsert", "joinCount", "joinPeak"}
                  => x \in [at : {"joinRead", "joinInsert", "joinCount", "joinPeak"},
                            b : Nat, user : Viewers, n : Nat]
           /\ x.at = "leave" => x \in [at : {"leave"}, v : Nat]
           /\ x.at \in {"pushTracks", "saveMedia"}
                  => x \in [at : {"pushTracks", "saveMedia"}, b : Nat, s : Nat]
           /\ x.at = "viewRow"
                  => x \in [at : {"viewRow"}, b : Nat, user : Viewers, s : Nat]
           /\ x.at = "pull" => x \in [at : {"pull"}, v : Nat, s : Nat]
  BY DEF AnyTask, PresenceTask, LiveTask, Idle, AddSteps

LEMMA IdleTask == Idle \in AnyTask /\ Idle.at = "idle"
  BY DEF AnyTask, PresenceTask, Idle

-----------------------------------------------------------------------------
(* What a step of one handler leaves alone *)

\* The handlers on their way out stay finitely many.
LEMMA LeavingFinite ==
    ASSUME Types, Timers, NEW t \in Tasks, NEW new, Goto(t, new),
           NEW h \in Hosts
    PROVE  IsFiniteSet(Leaving(h)')
  <1>1. Leaving(h)' \subseteq Leaving(h) \cup {t}
    BY DEF Leaving, Goto, Types
  <1>2. IsFiniteSet(Leaving(h) \cup {t})
    BY FS_AddElement DEF Timers
  <1> QED BY <1>1, <1>2, FS_Subset

LEMMA ArmingFinite ==
    ASSUME Timers, NEW h \in Hosts
    PROVE  /\ ArmingOf(h) \subseteq Leaving(h)
           /\ IsFiniteSet(ArmingOf(h))
           /\ Cardinality(ArmingOf(h)) \in Nat
           /\ Cardinality(ArmingOf(h)) <= Cardinality(Leaving(h))
           /\ Cardinality(Leaving(h)) \in Nat
  <1>1. ArmingOf(h) \subseteq Leaving(h)
    BY DEF ArmingOf, Arming, ArmSteps, Leaving
  <1>2. IsFiniteSet(Leaving(h))
    BY DEF Timers
  <1> QED BY <1>1, <1>2, FS_Subset, FS_CardinalityType

\* The timers, when no more are armed and no disconnect begins.
LEMMA TimersKept ==
    ASSUME PresenceConstants, Types, Timers, NEW t \in Tasks, NEW new, Goto(t, new),
           limit' = limit, armed' \in [Hosts -> Nat],
           \A h \in Hosts : armed'[h] <= armed[h],
           new.at \in ArmSteps /\ Arming(new, new.host) => Arming(task[t], new.host)
    PROVE  Timers'
  <1> SUFFICES ASSUME NEW h \in Hosts
               PROVE  /\ IsFiniteSet(Leaving(h)')
                      /\ armed'[h] + Cardinality(ArmingOf(h)') <= limit.timers
    BY DEF Timers
  <1>1. IsFiniteSet(Leaving(h)')
    BY LeavingFinite
  <1>2. ArmingOf(h)' \subseteq ArmingOf(h)
    BY DEF ArmingOf, Arming, Goto, Types
  <1>3. /\ IsFiniteSet(ArmingOf(h)) /\ Cardinality(ArmingOf(h)) \in Nat
    BY ArmingFinite
  <1>4. /\ Cardinality(ArmingOf(h)') <= Cardinality(ArmingOf(h))
        /\ Cardinality(ArmingOf(h)') \in Nat
    BY <1>2, <1>3, FS_Subset, FS_CardinalityType
  <1>5. limit.timers \in Nat
    BY DEF PresenceConstants, Limit, Types
  <1>6. /\ armed[h] \in Nat /\ armed'[h] \in Nat /\ armed'[h] <= armed[h]
        /\ armed[h] + Cardinality(ArmingOf(h)) <= limit.timers
    BY DEF Types, Timers
  <1> QED BY <1>1, <1>3, <1>4, <1>5, <1>6

\* In particular when no timer is touched at all.
LEMMA TimersUntouched ==
    ASSUME PresenceConstants, IInv, NEW t \in Tasks, NEW new, Goto(t, new),
           UNCHANGED <<armed, limit>>,
           new.at \in ArmSteps /\ Arming(new, new.host) => Arming(task[t], new.host)
    PROVE  Timers'
  <1>1. armed' \in [Hosts -> Nat] /\ \A h \in Hosts : armed'[h] <= armed[h]
    BY DEF IInv, Types
  <1> QED BY <1>1, TimersKept DEF IInv

\* A handler that is through arms a timer in its own place.
LEMMA TimersArmed ==
    ASSUME PresenceConstants, Types, Timers, NEW t \in Tasks, NEW new, Goto(t, new),
           limit' = limit, NEW g \in Hosts, Arming(task[t], g),
           new.at \notin ArmSteps, armed' = [armed EXCEPT ![g] = @ + 1]
    PROVE  Timers' /\ armed' \in [Hosts -> Nat]
  <1>0. armed' \in [Hosts -> Nat]
    BY DEF Types
  <1> SUFFICES ASSUME NEW h \in Hosts
               PROVE  /\ IsFiniteSet(Leaving(h)')
                      /\ armed'[h] + Cardinality(ArmingOf(h)') <= limit.timers
    BY <1>0 DEF Timers
  <1>1. IsFiniteSet(Leaving(h)')
    BY LeavingFinite
  <1>2. ArmingOf(h)' = IF h = g THEN ArmingOf(h) \ {t} ELSE ArmingOf(h)
    BY DEF ArmingOf, Arming, Goto, Types
  <1>3. /\ IsFiniteSet(ArmingOf(h)) /\ Cardinality(ArmingOf(h)) \in Nat
    BY ArmingFinite
  <1>4. /\ armed[h] \in Nat
        /\ armed'[h] = IF h = g THEN armed[h] + 1 ELSE armed[h]
        /\ armed[h] + Cardinality(ArmingOf(h)) <= limit.timers
    BY DEF Types, Timers
  <1>5. CASE h = g
    <2>1. t \in ArmingOf(h)
      BY <1>5 DEF ArmingOf
    <2>2. Cardinality(ArmingOf(h)') = Cardinality(ArmingOf(h)) - 1
      BY <1>2, <1>3, <1>5, <2>1, FS_RemoveElement
    <2>3. limit.timers \in Nat
      BY DEF PresenceConstants, Limit, Types
    <2> QED BY <1>1, <1>3, <1>4, <1>5, <2>2, <2>3
  <1>6. CASE h # g
    BY <1>1, <1>2, <1>3, <1>4, <1>6
  <1> QED BY <1>5, <1>6

\* Starts, when no broadcast becomes active and no start begins.
LEMMA StartsKept ==
    ASSUME Types, Starts, NEW t \in Tasks, NEW new, Goto(t, new),
           new.at # "startInsert", Len(broadcast') = Len(broadcast),
           \A b \in DOMAIN broadcast : broadcast'[b].after = broadcast[b].after,
           \A h \in Hosts : ActiveBroadcasts(h)' \subseteq ActiveBroadcasts(h)
    PROVE  Starts'
  <1>1. ASSUME NEW u \in Tasks
        PROVE  Looked(task[u])'
    <2>1. CASE u = t
      BY <2>1 DEF Types, Goto, Looked
    <2>2. CASE u # t /\ task[u].at = "startInsert"
      <3>1. task'[u] = task[u] /\ task[u].host \in Hosts
        BY <2>2, TaskKinds DEF Types, Goto
      <3>2. Looked(task[u])
        BY DEF Starts
      <3> QED BY <2>2, <3>1, <3>2 DEF Looked
    <2>3. CASE u # t /\ task[u].at # "startInsert"
      BY <2>3 DEF Types, Goto, Looked
    <2> QED BY <2>1, <2>2, <2>3
  <1>2. ASSUME NEW h \in Hosts
        PROVE  LookedFirst(h)'
    <2>1. LookedFirst(h) /\ ActiveBroadcasts(h) \subseteq DOMAIN broadcast
      BY DEF Starts, ActiveBroadcasts
    <2> QED BY <2>1 DEF LookedFirst
  <1> QED BY <1>1, <1>2 DEF Starts

\* Rows and sessions only ever come to be.
Grew == /\ DOMAIN broadcast \subseteq DOMAIN broadcast'
        /\ DOMAIN view \subseteq DOMAIN view'
        /\ DOMAIN sfu \subseteq DOMAIN sfu'
        /\ \A s \in DOMAIN sfu : sfu[s] = "tracks" => sfu'[s] = "tracks"

\* What handlers hold stays there.
LEMMA RefsKept ==
    ASSUME Types, Refs, Grew, NEW t \in Tasks, NEW new, Goto(t, new), Holds(new)'
    PROVE  Refs'
  <1> SUFFICES ASSUME NEW u \in Tasks PROVE Holds(task[u])'
    BY DEF Refs
  <1>1. CASE u = t
    <2>1. task'[u] = new
      BY <1>1 DEF Goto, Types
    <2> QED BY <2>1
  <1>2. CASE u # t
    <2>1. task'[u] = task[u]
      BY <1>2 DEF Goto, Types
    <2>2. Holds(task[u])
      BY DEF Refs
    <2>3. \A x : Holds(x) => Holds(x)'
      BY DEF Holds, HasTracks, Grew
    <2> QED BY <2>1, <2>2, <2>3
  <1> QED BY <1>1, <1>2

\* Viewers of an ended broadcast, when none appear and nobody stops closing them.
LEMMA GoneKept ==
    ASSUME Types, GoneWithTheBroadcast, NEW t \in Tasks, NEW new, Goto(t, new),
           task[t].at # "endViews", crashes' = crashes,
           \A v \in DOMAIN view' : view'[v].open /\ ~IsLive(view[v].of)' =>
               \/ view'[v].late
               \/ new.at = "endViews" /\ new.b = view'[v].of
               \/ /\ v \in DOMAIN view /\ view[v].open /\ ~IsLive(view[v].of)
                  /\ view'[v].of = view[v].of /\ view'[v].late = view[v].late
    PROVE  GoneWithTheBroadcast'
  <1> SUFFICES ASSUME NEW v \in DOMAIN view', view'[v].open, ~IsLive(view[v].of)',
                      ~view'[v].late, ~ crashes' > 0
               PROVE  \E u \in Tasks : task'[u].at = "endViews" /\ task'[u].b = view'[v].of
    BY DEF GoneWithTheBroadcast, Busy
  <1>1. task'[t] = new
    BY DEF Goto, Types
  <1>2. CASE new.at = "endViews" /\ new.b = view'[v].of
    BY <1>1, <1>2
  <1>3. CASE /\ v \in DOMAIN view /\ view[v].open /\ ~IsLive(view[v].of)
             /\ view'[v].of = view[v].of /\ view'[v].late = view[v].late
    <2>1. PICK u \in Tasks : task[u].at = "endViews" /\ task[u].b = view[v].of
      BY <1>3 DEF GoneWithTheBroadcast, Busy
    <2>2. task'[u] = task[u]
      BY <2>1 DEF Goto, Types
    <2> QED BY <1>3, <2>1, <2>2
  <1> QED BY <1>2, <1>3

\* A step that touches no row of broadcasts.
LEMMA LiveKept ==
    ASSUME IInv, NEW t \in Tasks, NEW new \in AnyTask, Goto(t, new), UNCHANGED liveVars,
           crashes' = crashes, task[t].at # "endViews", new.at # "startInsert", Holds(new)
    PROVE  /\ task' \in [Tasks -> AnyTask]
           /\ broadcast' \in Seq(BroadcastRow) /\ view' \in Seq(ViewRow)
           /\ sfu' \in Seq({"empty", "tracks"})
           /\ Starts' /\ Rows' /\ Refs' /\ GoneWithTheBroadcast'
  <1> USE DEF liveVars
  <1>1. /\ task' \in [Tasks -> AnyTask]
        /\ broadcast' \in Seq(BroadcastRow) /\ view' \in Seq(ViewRow)
        /\ sfu' \in Seq({"empty", "tracks"})
    BY DEF IInv, Types, Goto
  <1>2. \A h \in Hosts : ActiveBroadcasts(h)' = ActiveBroadcasts(h)
    BY DEF ActiveBroadcasts, IsLive
  <1>3. Starts'
    BY <1>2, StartsKept DEF IInv
  <1>4. Rows'
    BY DEF IInv, Rows, BroadcastRows, ViewRows, HasTracks
  <1>5. Grew /\ Holds(new)'
    BY DEF Grew, Holds, HasTracks
  <1>6. Refs'
    BY <1>5, RefsKept DEF IInv
  <1>7. GoneWithTheBroadcast'
    BY GoneKept DEF IInv, IsLive
  <1> QED BY <1>1, <1>3, <1>4, <1>6, <1>7

\* A step that touches nothing of presence.
LEMMA PresenceKept ==
    ASSUME PresenceConstants, IInv, NEW t \in Tasks, NEW new, Goto(t, new),
           UNCHANGED presenceVars, new.at \notin AddSteps \cup ArmSteps
    PROVE  /\ conn' \subseteq Hosts \X Tabs /\ online' \subseteq Hosts
           /\ session' \in [Hosts -> Seq(SessionRow)]
           /\ armed' \in [Hosts -> Nat]
           /\ crashes' \in 0..limit'.crashes /\ limit' \in Limits
           /\ Timers'
  <1>1. Timers'
    BY TimersUntouched DEF presenceVars
  <1> QED BY <1>1 DEF IInv, Types, presenceVars

-----------------------------------------------------------------------------
(* The steps of presence, each with the rows of broadcasts unchanged *)

PresenceTypes ==
    /\ conn \subseteq Hosts \X Tabs
    /\ online \subseteq Hosts
    /\ session \in [Hosts -> Seq(SessionRow)]
    /\ armed \in [Hosts -> Nat]
    /\ crashes \in 0..limit.crashes
    /\ limit \in Limits

\* What a step of presence has to show for itself.
LEMMA PresenceStepKeeps ==
    ASSUME IInv, NEW t \in Tasks, NEW new \in AnyTask, Goto(t, new), UNCHANGED liveVars,
           crashes' = crashes, task[t].at # "endViews",
           new.at \in {"idle", "readOpen", "insertSession", "flag", "sockets",
                       "setOffline", "closeRows", "sweep", "sweepSockets", "touch"},
           PresenceTypes', Timers'
    PROVE  IInv'
  <1>1. new.at # "startInsert" /\ Holds(new)
    BY DEF Holds, BroadcastSteps
  <1>2. /\ task' \in [Tasks -> AnyTask]
        /\ broadcast' \in Seq(BroadcastRow) /\ view' \in Seq(ViewRow)
        /\ sfu' \in Seq({"empty", "tracks"})
        /\ Starts' /\ Rows' /\ Refs' /\ GoneWithTheBroadcast'
    BY <1>1, LiveKept
  <1> QED BY <1>2 DEF IInv, Types, PresenceTypes

\* A step that only reads: it changes nothing but its task, and the flag.
LEMMA PresenceReads ==
    ASSUME PresenceConstants, IInv, NEW t \in Tasks, NEW new \in AnyTask, Goto(t, new),
           UNCHANGED liveVars, UNCHANGED <<conn, session, armed, crashes, limit>>,
           online' \subseteq Hosts, task[t].at # "endViews",
           new.at \in {"idle", "readOpen", "insertSession", "flag", "sockets",
                       "setOffline", "closeRows", "sweep", "sweepSockets", "touch"},
           new.at \in ArmSteps /\ Arming(new, new.host) => Arming(task[t], new.host)
    PROVE  IInv'
  <1>1. PresenceTypes'
    BY DEF IInv, Types, PresenceTypes
  <1>2. Timers'
    BY TimersUntouched
  <1> QED BY <1>1, <1>2, PresenceStepKeeps

\* The host a task is about is one.
LEMMA HostsOfTasks ==
    ASSUME Types, NEW t \in Tasks
    PROVE  /\ task[t] \in AnyTask
           /\ task[t].at \in AddSteps \cup ArmSteps => task[t].host \in Hosts
  BY TaskKinds DEF Types, AddSteps, ArmSteps

LEMMA MarkHostOnlineKeeps ==
    ASSUME PresenceConstants, IInv, NEW t \in Tasks, NEW h \in Hosts,
           markHostOnline(t, h), UNCHANGED liveVars
    PROVE  IInv'
  <1> DEFINE new == [at |-> "readOpen", host |-> h]
  <1>1. /\ Goto(t, new) /\ task[t] = Idle
        /\ UNCHANGED <<conn, session, armed, crashes, limit>>
    BY DEF markHostOnline, Start, Goto
  <1>2. new \in AnyTask /\ new.at = "readOpen" /\ new.host = h
    BY DEF AnyTask, PresenceTask
  <1> HIDE DEF new
  <1>3. PresenceTypes'
    BY <1>1 DEF IInv, Types, PresenceTypes, markHostOnline
  <1>4. Timers'
    BY <1>1, <1>2, TimersUntouched DEF ArmSteps
  <1>5. task[t].at # "endViews"
    BY <1>1, IdleTask
  <1> QED BY <1>1, <1>2, <1>3, <1>4, <1>5, PresenceStepKeeps

LEMMA ReadOpenKeeps ==
    ASSUME PresenceConstants, IInv, NEW t \in Tasks, ReadOpen(t), UNCHANGED liveVars
    PROVE  IInv'
  <1> USE DEF ReadOpen, At
  <1>1. task[t] \in [at : {"readOpen", "insertSession", "flag", "sockets"}, host : Hosts]
    BY HostsOfTasks, TaskKinds DEF IInv, AddSteps
  <1>2. PICK new \in {[task[t] EXCEPT !.at = "insertSession"], Idle} : Goto(t, new)
    OBVIOUS
  <1>3. /\ new \in AnyTask /\ new.at \in {"idle", "insertSession"}
        /\ new.at = "insertSession" => new.host = task[t].host
    BY <1>1, <1>2, IdleTask DEF AnyTask, PresenceTask, Idle
  <1>4. new.at \notin ArmSteps
    BY <1>3 DEF ArmSteps
  <1>5. online' \subseteq Hosts
    BY DEF IInv, Types
  <1> QED BY <1>2, <1>3, <1>4, <1>5, PresenceReads

LEMMA InsertSessionKeeps ==
    ASSUME PresenceConstants, IInv, NEW t \in Tasks, InsertSession(t), UNCHANGED liveVars
    PROVE  IInv'
  <1>1. /\ Goto(t, Idle) /\ task[t].at = "insertSession"
        /\ session' = [session EXCEPT ![task[t].host] = Append(@, "fresh")]
        /\ UNCHANGED <<conn, online, armed, crashes, limit>>
    BY DEF InsertSession, Done, At
  <1>2. PICK h \in Hosts : h = task[t].host
    BY <1>1, HostsOfTasks DEF IInv, AddSteps
  <1>3. /\ \A g \in Hosts : session[g] \in Seq(SessionRow)
        /\ "fresh" \in SessionRow
    BY DEF IInv, Types, SessionRow
  <1>4. /\ session' \in [Hosts -> Seq(SessionRow)]
        /\ \A g \in Hosts : session'[g] = IF g = h THEN Append(session[h], "fresh")
                                          ELSE session[g]
    BY <1>1, <1>2, <1>3 DEF IInv, Types
  <1>5. PresenceTypes'
    BY <1>1, <1>4 DEF IInv, Types, PresenceTypes
  <1>6. Timers'
    BY <1>1, IdleTask, TimersUntouched DEF ArmSteps
  <1> QED BY <1>1, <1>5, <1>6, IdleTask, PresenceStepKeeps

LEMMA MarkHostOfflineKeeps ==
    ASSUME PresenceConstants, IInv, NEW t \in Tasks, NEW h \in Hosts,
           markHostOffline(t, h), UNCHANGED liveVars
    PROVE  IInv'
  <1> DEFINE new == Closing(h, "reply", {})
  <1>1. /\ Goto(t, new) /\ task[t] = Idle
        /\ UNCHANGED <<conn, session, armed, crashes, limit>>
    BY DEF markHostOffline, Start, Goto
  <1>2. new \in AnyTask /\ new.at = "closeRows" /\ ~Arming(new, new.host)
    BY DEF AnyTask, PresenceTask, Closing, After, Arming
  <1>3. online' \subseteq Hosts
    BY DEF markHostOffline, IInv, Types
  <1> HIDE DEF new
  <1> QED BY <1>1, <1>2, <1>3, IdleTask, PresenceReads DEF AddSteps

LEMMA SetOfflineKeeps ==
    ASSUME PresenceConstants, IInv, NEW t \in Tasks, SetOffline(t), UNCHANGED liveVars
    PROVE  IInv'
  <1>1. /\ task[t].at = "setOffline"
        /\ task[t] \in [at : {"setOffline", "closeRows"}, host : Hosts,
                        after : After, rest : SUBSET Seen]
    BY HostsOfTasks, TaskKinds DEF IInv, SetOffline, At
  <1> DEFINE new == [task[t] EXCEPT !.at = "closeRows"]
  <1>2. Goto(t, new)
    BY DEF SetOffline, Step, Goto, IInv, Types
  <1>3. /\ new \in AnyTask /\ new.at = "closeRows"
        /\ new.host = task[t].host /\ new.after = task[t].after
    BY <1>1 DEF AnyTask, PresenceTask
  <1>4. online' \subseteq Hosts /\ UNCHANGED <<conn, session, armed, crashes, limit>>
    BY DEF SetOffline, IInv, Types
  <1> HIDE DEF new
  <1>5. Arming(new, new.host) => Arming(task[t], new.host)
    BY <1>1, <1>3 DEF Arming, ArmSteps
  <1> QED BY <1>1, <1>2, <1>3, <1>4, <1>5, PresenceReads DEF AddSteps

LEMMA CloseRowsKeeps ==
    ASSUME PresenceConstants, IInv, NEW t \in Tasks, CloseRows(t), UNCHANGED liveVars
    PROVE  IInv'
  <1>1. /\ task[t].at = "closeRows"
        /\ task[t] \in [at : {"setOffline", "closeRows"}, host : Hosts,
                        after : After, rest : SUBSET Seen]
        /\ UNCHANGED <<conn, online, crashes, limit>>
    BY HostsOfTasks, TaskKinds DEF IInv, CloseRows, At
  <1>2. PICK new \in {[at |-> "sweep", rest |-> task[t].rest], Idle} : Goto(t, new)
    BY DEF CloseRows
  <1>3. new \in AnyTask /\ new.at \in {"idle", "sweep"}
    BY <1>1, <1>2, IdleTask DEF AnyTask, PresenceTask
  <1>4. /\ session' \in [Hosts -> Seq(SessionRow)]
        /\ \A h \in Hosts : Len(session'[h]) = Len(session[h])
    <2>1. PICK g \in Hosts : g = task[t].host
      BY <1>1
    <2> DEFINE rows == [i \in DOMAIN session[g] |-> "closed"]
    <2>2. session' = [session EXCEPT ![g] = rows]
      BY <2>1 DEF CloseRows, closeOpenSessions, IInv, Types
    <2>3. session[g] \in Seq(SessionRow)
      BY DEF IInv, Types
    <2>4. rows \in Seq(SessionRow) /\ Len(rows) = Len(session[g])
      BY <2>3 DEF SessionRow
    <2> HIDE DEF rows
    <2> QED BY <2>2, <2>4 DEF IInv, Types
  <1>5. Timers' /\ armed' \in [Hosts -> Nat]
    <2>1. CASE task[t].after = "arm"
      <3>1. PICK g \in Hosts : g = task[t].host
        BY <1>1
      <3>2. armed' = [armed EXCEPT ![g] = @ + 1]
        BY <2>1, <3>1 DEF CloseRows
      <3>3. Arming(task[t], g)
        BY <1>1, <2>1, <3>1 DEF Arming, ArmSteps
      <3>4. new.at \notin ArmSteps
        BY <1>3 DEF ArmSteps
      <3> QED BY <1>1, <1>2, <3>2, <3>3, <3>4, TimersArmed DEF IInv
    <2>2. CASE task[t].after # "arm"
      <3>1. armed' = armed
        BY <2>2 DEF CloseRows
      <3>2. Timers'
        BY <1>1, <1>2, <1>3, <3>1, TimersUntouched DEF ArmSteps
      <3> QED BY <3>1, <3>2 DEF IInv, Types
    <2> QED BY <2>1, <2>2
  <1>6. PresenceTypes'
    BY <1>1, <1>4, <1>5 DEF IInv, Types, PresenceTypes
  <1> QED BY <1>1, <1>2, <1>3, <1>5, <1>6, PresenceStepKeeps

LEMMA DisconnectKeeps ==
    ASSUME PresenceConstants, IInv, NEW t \in Tasks, NEW h \in Hosts, NEW k \in Tabs,
           Disconnect(t, h, k), UNCHANGED liveVars
    PROVE  IInv'
  <1> DEFINE new == [at |-> "flag", host |-> h]
  <1>1. /\ Goto(t, new) /\ task[t] = Idle
        /\ armed[h] + Cardinality(Leaving(h)) < limit.timers
        /\ UNCHANGED <<online, session, armed, crashes, limit>>
    BY DEF Disconnect, Start, Goto
  <1>2. new \in AnyTask /\ new.at = "flag" /\ new.host = h
    BY DEF AnyTask, PresenceTask
  <1> HIDE DEF new
  <1>3. PresenceTypes'
    BY <1>1 DEF IInv, Types, PresenceTypes, Disconnect
  <1>4. Timers'
    <2> SUFFICES ASSUME NEW g \in Hosts
                 PROVE  /\ IsFiniteSet(Leaving(g)')
                        /\ armed[g] + Cardinality(ArmingOf(g)') <= limit.timers
      BY <1>1 DEF Timers
    <2>1. IsFiniteSet(Leaving(g)')
      BY <1>1, LeavingFinite DEF IInv
    <2>2. /\ IsFiniteSet(ArmingOf(g)) /\ Cardinality(ArmingOf(g)) \in Nat
          /\ Cardinality(ArmingOf(g)) <= Cardinality(Leaving(g))
          /\ Cardinality(Leaving(g)) \in Nat
      BY ArmingFinite DEF IInv
    <2>3. /\ armed[g] \in Nat /\ limit.timers \in Nat
          /\ armed[g] + Cardinality(ArmingOf(g)) <= limit.timers
      BY DEF IInv, Types, Timers, PresenceConstants, Limit
    <2>4. ArmingOf(g)' \subseteq IF g = h THEN ArmingOf(g) \cup {t} ELSE ArmingOf(g)
      BY <1>1, <1>2 DEF ArmingOf, Arming, Goto, IInv, Types
    <2>5. CASE g = h
      <3>1. /\ IsFiniteSet(ArmingOf(g) \cup {t})
            /\ Cardinality(ArmingOf(g) \cup {t}) <= Cardinality(ArmingOf(g)) + 1
            /\ Cardinality(ArmingOf(g) \cup {t}) \in Nat
        <4>1. /\ IsFiniteSet(ArmingOf(g) \cup {t})
              /\ \/ Cardinality(ArmingOf(g) \cup {t}) = Cardinality(ArmingOf(g))
                 \/ Cardinality(ArmingOf(g) \cup {t}) = Cardinality(ArmingOf(g)) + 1
          BY <2>2, FS_AddElement
        <4> QED BY <2>2, <4>1
      <3>2. ArmingOf(g)' \subseteq ArmingOf(g) \cup {t}
        BY <2>4, <2>5
      <3>3. /\ Cardinality(ArmingOf(g)') <= Cardinality(ArmingOf(g) \cup {t})
            /\ Cardinality(ArmingOf(g)') \in Nat
        BY <3>1, <3>2, FS_Subset, FS_CardinalityType
      <3>4. armed[g] + Cardinality(Leaving(g)) < limit.timers
        BY <1>1, <2>5
      <3> QED BY <2>1, <2>2, <2>3, <3>1, <3>3, <3>4
    <2>6. CASE g # h
      <3>1. ArmingOf(g)' \subseteq ArmingOf(g)
        BY <2>4, <2>6
      <3>2. /\ Cardinality(ArmingOf(g)') <= Cardinality(ArmingOf(g))
            /\ Cardinality(ArmingOf(g)') \in Nat
        BY <2>2, <3>1, FS_Subset, FS_CardinalityType
      <3> QED BY <2>1, <2>2, <2>3, <3>2
    <2> QED BY <2>5, <2>6
  <1> QED BY <1>1, <1>2, <1>3, <1>4, IdleTask, PresenceStepKeeps

\* The handler is through: it arms a timer and is gone.
LEMMA ArmGraceTimersKeeps ==
    ASSUME PresenceConstants, IInv, NEW t \in Tasks, task[t].at \in {"flag", "sockets"},
           ArmGraceTimers(t), UNCHANGED <<conn, online, session, crashes, limit>>,
           UNCHANGED liveVars
    PROVE  IInv'
  <1>1. PICK g \in Hosts : g = task[t].host
    BY HostsOfTasks DEF IInv, ArmSteps
  <1>2. Goto(t, Idle) /\ armed' = [armed EXCEPT ![g] = @ + 1]
    BY <1>1 DEF ArmGraceTimers, Done
  <1>3. Arming(task[t], g)
    BY <1>1 DEF Arming, ArmSteps
  <1>4. Timers' /\ armed' \in [Hosts -> Nat]
    BY <1>2, <1>3, IdleTask, TimersArmed DEF IInv, ArmSteps
  <1>5. PresenceTypes'
    BY <1>4 DEF IInv, Types, PresenceTypes
  <1> QED BY <1>2, <1>4, <1>5, IdleTask, PresenceStepKeeps

LEMMA CheckFlagKeeps ==
    ASSUME PresenceConstants, IInv, NEW t \in Tasks, CheckFlag(t), UNCHANGED liveVars
    PROVE  IInv'
  <1>1. /\ task[t].at = "flag" /\ UNCHANGED <<conn, online, session, crashes, limit>>
        /\ task[t] \in [at : {"readOpen", "insertSession", "flag", "sockets"},
                        host : Hosts]
    BY HostsOfTasks, TaskKinds DEF IInv, CheckFlag, At, AddSteps
  <1>2. CASE Step(t, "sockets") /\ UNCHANGED armed
    <2> DEFINE new == [task[t] EXCEPT !.at = "sockets"]
    <2>1. Goto(t, new)
      BY <1>2 DEF Step, Goto, IInv, Types
    <2>2. /\ new \in AnyTask /\ new.at = "sockets" /\ new.host = task[t].host
      BY <1>1 DEF AnyTask, PresenceTask
    <2> HIDE DEF new
    <2>3. Arming(task[t], new.host)
      BY <1>1, <2>2 DEF Arming, ArmSteps
    <2>4. online' \subseteq Hosts
      BY <1>1 DEF IInv, Types
    <2> QED BY <1>1, <1>2, <2>1, <2>2, <2>3, <2>4, PresenceReads DEF AddSteps
  <1>3. CASE ArmGraceTimers(t)
    BY <1>1, <1>3, ArmGraceTimersKeeps
  <1> QED BY <1>2, <1>3 DEF CheckFlag

LEMMA CheckSocketsKeeps ==
    ASSUME PresenceConstants, IInv, NEW t \in Tasks, CheckSockets(t), UNCHANGED liveVars
    PROVE  IInv'
  <1>1. /\ task[t].at = "sockets" /\ UNCHANGED <<conn, online, session, crashes, limit>>
        /\ task[t] \in [at : {"readOpen", "insertSession", "flag", "sockets"},
                        host : Hosts]
    BY HostsOfTasks, TaskKinds DEF IInv, CheckSockets, At, AddSteps
  <1> DEFINE new == [at |-> "setOffline", host |-> task[t].host,
                     after |-> "arm", rest |-> {}]
  <1>2. CASE Goto(t, new) /\ UNCHANGED armed
    <2>2. new \in AnyTask /\ new.at = "setOffline" /\ new.host = task[t].host
      BY <1>1 DEF AnyTask, PresenceTask, After
    <2> HIDE DEF new
    <2>3. Arming(task[t], new.host)
      BY <1>1, <2>2 DEF Arming, ArmSteps
    <2>4. online' \subseteq Hosts
      BY <1>1 DEF IInv, Types
    <2> QED BY <1>1, <1>2, <2>2, <2>3, <2>4, PresenceReads DEF AddSteps
  <1>3. CASE ArmGraceTimers(t)
    BY <1>1, <1>3, ArmGraceTimersKeeps
  <1> QED BY <1>2, <1>3 DEF CheckSockets

LEMMA SweepStartKeeps ==
    ASSUME PresenceConstants, IInv, NEW t \in Tasks, SweepStart(t), UNCHANGED liveVars
    PROVE  IInv'
  <1> DEFINE rest == UNION {{[host |-> h, id |-> i, stale |-> session[h][i] = "stale"]
                                 : i \in Open(h)} : h \in Hosts}
             new == [at |-> "sweep", rest |-> rest]
  <1>1. /\ Goto(t, new) /\ task[t] = Idle
        /\ UNCHANGED <<conn, online, session, armed, crashes, limit>>
    BY DEF SweepStart, Start, Goto
  <1>2. rest \subseteq Seen
    <2>1. \A h \in Hosts : Open(h) \subseteq Nat
      BY DEF Open, IInv, Types
    <2>2. \A h \in Hosts : \A i \in Open(h) :
              [host |-> h, id |-> i, stale |-> session[h][i] = "stale"] \in Seen
      BY <2>1 DEF Seen
    <2> QED BY <2>2
  <1> HIDE DEF rest
  <1>3. new \in AnyTask /\ new.at = "sweep"
    BY <1>2 DEF AnyTask, PresenceTask
  <1>4. online' \subseteq Hosts
    BY <1>1 DEF IInv, Types
  <1> HIDE DEF new
  <1> QED BY <1>1, <1>3, <1>4, IdleTask, PresenceReads DEF AddSteps, ArmSteps

LEMMA SweepRowKeeps ==
    ASSUME PresenceConstants, IInv, NEW t \in Tasks, SweepRow(t), UNCHANGED liveVars
    PROVE  IInv'
  <1>1. /\ task[t].at = "sweep" /\ task[t] \in [at : {"sweep"}, rest : SUBSET Seen]
        /\ UNCHANGED <<conn, online, session, armed, crashes, limit>>
    BY HostsOfTasks, TaskKinds DEF IInv, SweepRow, At
  <1>2. PICK r \in task[t].rest : Goto(t, IF isOnline(r.host)
              THEN [at |-> "sweepSockets", row |-> r, rest |-> task[t].rest \ {r}]
              ELSE Closing(r.host, "sweep", task[t].rest \ {r}))
    BY DEF SweepRow
  <1>3. r \in Seen /\ r.host \in Hosts /\ task[t].rest \ {r} \in SUBSET Seen
    BY <1>1 DEF Seen
  <1>4. PICK new \in AnyTask : /\ Goto(t, new)
                               /\ new.at \in {"sweepSockets", "closeRows"}
                               /\ ~Arming(new, new.host)
    <2>1. CASE isOnline(r.host)
      <3> DEFINE new == [at |-> "sweepSockets", row |-> r, rest |-> task[t].rest \ {r}]
      <3>1. new \in AnyTask /\ new.at = "sweepSockets" /\ ~Arming(new, new.host)
        BY <1>3 DEF AnyTask, PresenceTask, Arming, ArmSteps
      <3> QED BY <1>2, <2>1, <3>1
    <2>2. CASE ~isOnline(r.host)
      <3> DEFINE new == Closing(r.host, "sweep", task[t].rest \ {r})
      <3>1. new \in AnyTask /\ new.at = "closeRows" /\ ~Arming(new, new.host)
        BY <1>3 DEF AnyTask, PresenceTask, Arming, ArmSteps, Closing, After
      <3> QED BY <1>2, <2>2, <3>1
    <2> QED BY <2>1, <2>2
  <1>5. online' \subseteq Hosts
    BY <1>1 DEF IInv, Types
  <1> QED BY <1>1, <1>4, <1>5, PresenceReads DEF AddSteps

LEMMA SweepSocketsKeeps ==
    ASSUME PresenceConstants, IInv, NEW t \in Tasks, SweepSockets(t), UNCHANGED liveVars
    PROVE  IInv'
  <1>1. /\ task[t].at = "sweepSockets"
        /\ task[t] \in [at : {"sweepSockets", "touch"}, row : Seen, rest : SUBSET Seen]
        /\ UNCHANGED <<conn, online, session, armed, crashes, limit>>
    BY HostsOfTasks, TaskKinds DEF IInv, SweepSockets, At
  <1>2. task[t].row.host \in Hosts
    BY <1>1 DEF Seen
  <1>3. PICK new \in {[task[t] EXCEPT !.at = "touch"],
                      [at |-> "setOffline", host |-> task[t].row.host,
                       after |-> "sweep", rest |-> task[t].rest],
                      [at |-> "sweep", rest |-> task[t].rest]} : Goto(t, new)
    BY DEF SweepSockets
  <1>4. /\ new \in AnyTask /\ new.at \in {"touch", "setOffline", "sweep"}
        /\ ~Arming(new, new.host)
    <2>1. CASE new = [task[t] EXCEPT !.at = "touch"]
      BY <1>1, <2>1 DEF AnyTask, PresenceTask, Arming, ArmSteps
    <2>2. CASE new = [at |-> "setOffline", host |-> task[t].row.host,
                      after |-> "sweep", rest |-> task[t].rest]
      BY <1>1, <1>2, <2>2 DEF AnyTask, PresenceTask, Arming, ArmSteps, After
    <2>3. CASE new = [at |-> "sweep", rest |-> task[t].rest]
      BY <1>1, <2>3 DEF AnyTask, PresenceTask, Arming, ArmSteps
    <2> QED BY <1>3, <2>1, <2>2, <2>3
  <1>5. online' \subseteq Hosts
    BY <1>1 DEF IInv, Types
  <1> QED BY <1>1, <1>3, <1>4, <1>5, PresenceReads DEF AddSteps

LEMMA SweepTouchKeeps ==
    ASSUME PresenceConstants, IInv, NEW t \in Tasks, SweepTouch(t), UNCHANGED liveVars
    PROVE  IInv'
  <1> DEFINE new == [at |-> "sweep", rest |-> task[t].rest]
             r == task[t].row
  <1>1. /\ task[t].at = "touch" /\ Goto(t, new)
        /\ task[t] \in [at : {"sweepSockets", "touch"}, row : Seen, rest : SUBSET Seen]
        /\ UNCHANGED <<conn, online, armed, crashes, limit>>
    BY HostsOfTasks, TaskKinds DEF IInv, SweepTouch, At
  <1>2. new \in AnyTask /\ new.at = "sweep"
    BY <1>1 DEF AnyTask, PresenceTask
  <1> HIDE DEF new
  <1>3. /\ session' \in [Hosts -> Seq(SessionRow)]
        /\ \A h \in Hosts : Len(session'[h]) = Len(session[h])
    <2>1. CASE r.id \in Open(r.host)
      <3>1. r.host \in Hosts
        BY <1>1 DEF Seen
      <3>2. PICK g \in Hosts, i \in {r.id} :
                session' = [session EXCEPT ![g] = [session[g] EXCEPT ![i] = "fresh"]]
        BY <2>1, <3>1 DEF SweepTouch
      <3>3. PICK rows : rows = [session[g] EXCEPT ![i] = "fresh"]
        OBVIOUS
      <3>4. session[g] \in Seq(SessionRow) /\ "fresh" \in SessionRow
        BY DEF IInv, Types, SessionRow
      <3>5. rows \in Seq(SessionRow) /\ Len(rows) = Len(session[g])
        <4>1. rows = [j \in DOMAIN session[g] |-> rows[j]]
          BY <3>3, <3>4
        <4>2. \A j \in DOMAIN session[g] : rows[j] = session[g][j] \/ rows[j] = "fresh"
          BY <3>3, <3>4
        <4>3. /\ Len(session[g]) \in Nat /\ DOMAIN session[g] = 1..Len(session[g])
              /\ \A j \in 1..Len(session[g]) : session[g][j] \in SessionRow
          BY <3>4
        <4>4. rows \in [1..Len(session[g]) -> SessionRow]
          BY <3>4, <4>1, <4>2, <4>3
        <4> QED BY <4>3, <4>4
      <3>6. session' = [session EXCEPT ![g] = rows]
        BY <3>2, <3>3
      <3> QED BY <3>5, <3>6 DEF IInv, Types
    <2>2. CASE r.id \notin Open(r.host)
      BY <2>2 DEF SweepTouch, IInv, Types
    <2> QED BY <2>1, <2>2
  <1>4. Timers'
    BY <1>1, <1>2, TimersUntouched DEF ArmSteps
  <1>5. PresenceTypes'
    BY <1>1, <1>3 DEF IInv, Types, PresenceTypes
  <1> QED BY <1>1, <1>2, <1>4, <1>5, PresenceStepKeeps

LEMMA SweepEndKeeps ==
    ASSUME PresenceConstants, IInv, NEW t \in Tasks, SweepEnd(t), UNCHANGED liveVars
    PROVE  IInv'
  <1>1. /\ task[t].at = "sweep" /\ Goto(t, Idle)
        /\ UNCHANGED <<conn, online, session, armed, crashes, limit>>
    BY DEF SweepEnd, At, Done
  <1>2. online' \subseteq Hosts
    BY <1>1 DEF IInv, Types
  <1> QED BY <1>1, <1>2, IdleTask, PresenceReads DEF AddSteps, ArmSteps

-----------------------------------------------------------------------------
(* The steps of broadcasts *)

LiveTypes ==
    /\ broadcast \in Seq(BroadcastRow)
    /\ view \in Seq(ViewRow)
    /\ sfu \in Seq({"empty", "tracks"})

\* What a step of broadcasts has to show for itself.
LEMMA LiveStepKeeps ==
    ASSUME PresenceConstants, IInv, NEW t \in Tasks, NEW new \in AnyTask, Goto(t, new),
           UNCHANGED presenceVars, new.at \notin AddSteps \cup ArmSteps,
           LiveTypes', Grew, Holds(new)', Starts', Rows', GoneWithTheBroadcast'
    PROVE  IInv'
  <1>1. /\ conn' \subseteq Hosts \X Tabs /\ online' \subseteq Hosts
        /\ session' \in [Hosts -> Seq(SessionRow)]
        /\ armed' \in [Hosts -> Nat]
        /\ crashes' \in 0..limit'.crashes /\ limit' \in Limits
        /\ Timers'
    BY PresenceKept
  <1>2. Refs'
    BY RefsKept DEF IInv
  <1>3. task' \in [Tasks -> AnyTask]
    BY DEF IInv, Types, Goto
  <1> QED BY <1>1, <1>2, <1>3 DEF IInv, Types, LiveTypes

\* A step that only reads.
LEMMA LiveReads ==
    ASSUME PresenceConstants, IInv, NEW t \in Tasks, NEW new \in AnyTask, Goto(t, new),
           UNCHANGED presenceVars, UNCHANGED liveVars, task[t].at # "endViews",
           new.at \notin AddSteps \cup ArmSteps \cup {"startInsert"}, Holds(new)
    PROVE  IInv'
  <1>1. /\ conn' \subseteq Hosts \X Tabs /\ online' \subseteq Hosts
        /\ session' \in [Hosts -> Seq(SessionRow)]
        /\ armed' \in [Hosts -> Nat]
        /\ crashes' \in 0..limit'.crashes /\ limit' \in Limits
        /\ Timers'
    BY PresenceKept
  <1>2. /\ task' \in [Tasks -> AnyTask]
        /\ broadcast' \in Seq(BroadcastRow) /\ view' \in Seq(ViewRow)
        /\ sfu' \in Seq({"empty", "tracks"})
        /\ Starts' /\ Rows' /\ Refs' /\ GoneWithTheBroadcast'
    BY LiveKept DEF presenceVars
  <1> QED BY <1>1, <1>2 DEF IInv, Types

\* One row of broadcasts written: it may end, if its viewers are closed next,
\* and name a session with tracks.
LEMMA BroadcastWritten ==
    ASSUME PresenceConstants, IInv, NEW t \in Tasks, NEW new \in AnyTask, Goto(t, new),
           UNCHANGED presenceVars, UNCHANGED <<view, sfu>>, task[t].at # "endViews",
           new.at \notin AddSteps \cup ArmSteps \cup {"startInsert"}, Holds(new),
           NEW b \in DOMAIN broadcast, NEW row \in BroadcastRow,
           broadcast' = [broadcast EXCEPT ![b] = row],
           row.host = broadcast[b].host, row.after = broadcast[b].after,
           row.status = "live" => IsLive(b),
           row.status = "ended" => ~IsLive(b) \/ (new.at = "endViews" /\ new.b = b),
           row.media # 0 => row.media = broadcast[b].media \/ HasTracks(row.media)
    PROVE  IInv'
  <1>1. /\ DOMAIN broadcast' = DOMAIN broadcast
        /\ \A c \in DOMAIN broadcast :
               broadcast'[c] = IF c = b THEN row ELSE broadcast[c]
    BY DEF IInv, Types
  <1>2. LiveTypes'
    <2>1. /\ Len(broadcast) \in Nat /\ DOMAIN broadcast = 1..Len(broadcast)
          /\ \A c \in 1..Len(broadcast) : broadcast[c] \in BroadcastRow
      BY DEF IInv, Types
    <2>2. broadcast' \in [1..Len(broadcast) -> BroadcastRow]
      BY <1>1, <2>1
    <2>3. broadcast' \in Seq(BroadcastRow)
      BY <2>1, <2>2
    <2> QED BY <2>3 DEF LiveTypes, IInv, Types
  <1>3. Grew /\ Holds(new)'
    BY <1>1 DEF Grew, Holds, HasTracks
  <1>4. \A h \in Hosts : ActiveBroadcasts(h)' \subseteq ActiveBroadcasts(h)
    BY <1>1 DEF ActiveBroadcasts, IsLive
  <1>5. Starts'
    <2>1. Len(broadcast') = Len(broadcast)
      BY DEF IInv, Types
    <2>2. \A c \in DOMAIN broadcast : broadcast'[c].after = broadcast[c].after
      BY <1>1
    <2> QED BY <1>4, <2>1, <2>2, StartsKept DEF IInv
  <1>6. Rows'
    <2>1. BroadcastRows'
      BY <1>1 DEF IInv, Rows, BroadcastRows, HasTracks
    <2>2. ViewRows'
      BY <1>1 DEF IInv, Rows, ViewRows, HasTracks
    <2> QED BY <2>1, <2>2 DEF Rows
  <1>7. GoneWithTheBroadcast'
    <2>1. ASSUME NEW v \in DOMAIN view', view'[v].open, ~IsLive(view[v].of)'
          PROVE  \/ new.at = "endViews" /\ new.b = view'[v].of
                 \/ ~IsLive(view[v].of)
      <3>1. view[v].of \in DOMAIN broadcast
        BY DEF IInv, Rows, ViewRows
      <3>2. CASE view[v].of = b
        <4>1. row.status = "ended"
          BY <1>1, <2>1, <3>2 DEF IsLive, BroadcastRow
        <4> QED BY <3>2, <4>1
      <3>3. CASE view[v].of # b
        BY <1>1, <2>1, <3>1, <3>3 DEF IsLive
      <3> QED BY <3>2, <3>3
    <2> QED BY <2>1, GoneKept DEF IInv, presenceVars
  <1>8. new.at \notin AddSteps \cup ArmSteps
    OBVIOUS
  <1> QED BY <1>2, <1>3, <1>5, <1>6, <1>7, <1>8, LiveStepKeeps

\* Rows of viewers written: they may be closed, and name a session with tracks.
LEMMA ViewsWritten ==
    ASSUME PresenceConstants, IInv, NEW t \in Tasks, NEW new \in AnyTask, Goto(t, new),
           UNCHANGED presenceVars, UNCHANGED <<broadcast, sfu>>,
           new.at \notin AddSteps \cup ArmSteps \cup {"startInsert"}, Holds(new),
           view' = [v \in DOMAIN view |-> view'[v]],
           \A v \in DOMAIN view :
               /\ view'[v] \in ViewRow
               /\ view'[v].of = view[v].of /\ view'[v].late = view[v].late
               /\ view'[v].open => view[v].open
               /\ view'[v].media # 0
                      => view'[v].media = view[v].media \/ HasTracks(view'[v].media),
           task[t].at = "endViews"
               => \A v \in DOMAIN view : view[v].of = task[t].b => ~view'[v].open
    PROVE  IInv'
  <1>1. DOMAIN view' = DOMAIN view
    OBVIOUS
  <1>2. LiveTypes'
    <2>1. Len(view) \in Nat /\ DOMAIN view = 1..Len(view)
      BY DEF IInv, Types
    <2>2. view' \in [1..Len(view) -> ViewRow]
      BY <1>1, <2>1
    <2>3. view' \in Seq(ViewRow)
      BY <2>1, <2>2
    <2> QED BY <2>3 DEF LiveTypes, IInv, Types
  <1>3. Grew /\ Holds(new)'
    BY <1>1 DEF Grew, Holds, HasTracks
  <1>4. Starts'
    <2>1. \A h \in Hosts : ActiveBroadcasts(h)' \subseteq ActiveBroadcasts(h)
      BY DEF ActiveBroadcasts, IsLive
    <2>2. new.at # "startInsert"
      OBVIOUS
    <2> QED BY <2>1, <2>2, StartsKept DEF IInv
  <1>5. Rows'
    <2>1. BroadcastRows'
      BY DEF IInv, Rows, BroadcastRows, HasTracks
    <2>2. ViewRows'
      BY <1>1 DEF IInv, Rows, ViewRows, HasTracks
    <2> QED BY <2>1, <2>2 DEF Rows
  <1>6. GoneWithTheBroadcast'
    <2> SUFFICES ASSUME NEW v \in DOMAIN view, view'[v].open, ~IsLive(view[v].of)',
                        ~view'[v].late, ~ crashes' > 0
                 PROVE  \E u \in Tasks : task'[u].at = "endViews"
                                             /\ task'[u].b = view'[v].of
      BY <1>1 DEF GoneWithTheBroadcast, Busy
    <2>1. view[v].open /\ view'[v].of = view[v].of /\ ~view[v].late
      OBVIOUS
    <2>2. ~IsLive(view[v].of) /\ ~ crashes > 0
      BY <2>1 DEF IsLive, presenceVars
    <2>3. PICK u \in Tasks : task[u].at = "endViews" /\ task[u].b = view[v].of
      BY <2>1, <2>2 DEF IInv, GoneWithTheBroadcast, Busy
    <2>4. u # t
      BY <2>3
    <2>5. task'[u] = task[u]
      BY <2>4 DEF Goto, IInv, Types
    <2> QED BY <2>1, <2>3, <2>5
  <1>7. new.at \notin AddSteps \cup ArmSteps
    OBVIOUS
  <1> QED BY <1>2, <1>3, <1>4, <1>5, <1>6, <1>7, LiveStepKeeps

\* A session created, or given its tracks.
LEMMA SfuWritten ==
    ASSUME PresenceConstants, IInv, NEW t \in Tasks, NEW new \in AnyTask, Goto(t, new),
           UNCHANGED presenceVars, UNCHANGED <<broadcast, view>>, task[t].at # "endViews",
           new.at \notin AddSteps \cup ArmSteps \cup {"startInsert"}, Holds(new)',
           sfu' \in Seq({"empty", "tracks"}), DOMAIN sfu \subseteq DOMAIN sfu',
           \A s \in DOMAIN sfu : sfu[s] = "tracks" => sfu'[s] = "tracks"
    PROVE  IInv'
  <1>1. LiveTypes'
    BY DEF LiveTypes, IInv, Types
  <1>2. Grew
    BY DEF Grew
  <1>3. Starts'
    <2>1. \A h \in Hosts : ActiveBroadcasts(h)' \subseteq ActiveBroadcasts(h)
      BY DEF ActiveBroadcasts, IsLive
    <2>2. new.at # "startInsert"
      OBVIOUS
    <2> QED BY <2>1, <2>2, StartsKept DEF IInv
  <1>4. Rows'
    <2>1. BroadcastRows'
      BY DEF IInv, Rows, BroadcastRows, HasTracks
    <2>2. ViewRows'
      BY DEF IInv, Rows, ViewRows, HasTracks
    <2> QED BY <2>1, <2>2 DEF Rows
  <1>5. GoneWithTheBroadcast'
    BY GoneKept DEF IInv, IsLive, presenceVars
  <1>6. new.at \notin AddSteps \cup ArmSteps
    OBVIOUS
  <1> QED BY <1>1, <1>2, <1>3, <1>4, <1>5, <1>6, LiveStepKeeps

-----------------------------------------------------------------------------
(* One lemma per action *)

\* The sets of steps, to tell a step that is in none of them.
Elsewhere == AddSteps \cup ArmSteps \cup {"startInsert"}

LEMMA ElsewhereIs ==
    Elsewhere = {"readOpen", "insertSession", "flag", "sockets", "setOffline",
                 "closeRows", "startInsert"}
  BY DEF Elsewhere, AddSteps, ArmSteps

\* What a task at a broadcast's step holds.
LEMMA Held ==
    ASSUME IInv, NEW t \in Tasks
    PROVE  task[t] \in AnyTask /\ Holds(task[t])
  BY DEF IInv, Types, Refs

LEMMA StartBroadcastKeeps ==
    ASSUME PresenceConstants, IInv, NEW t \in Tasks, NEW h \in Hosts,
           startBroadcast(t, h)
    PROVE  IInv'
  <1>0. PICK new : new = [at |-> "startInsert", host |-> h, after |-> Len(broadcast)]
    OBVIOUS
  <1>1. /\ Goto(t, new) /\ task[t] = Idle /\ ActiveBroadcasts(h) = {}
        /\ UNCHANGED presenceVars /\ UNCHANGED liveVars
    BY <1>0 DEF startBroadcast, NewStart, Start, Goto
  <1>2. /\ new \in AnyTask /\ new.at = "startInsert" /\ new.host = h
        /\ new.after = Len(broadcast) /\ new.after \in Nat
        /\ new.at \notin AddSteps \cup ArmSteps
    BY <1>0 DEF AnyTask, LiveTask, AddSteps, ArmSteps, IInv, Types
  <1>3. LiveTypes' /\ Rows'
    BY <1>1 DEF IInv, Types, LiveTypes, liveVars, Rows, BroadcastRows, ViewRows, HasTracks
  <1>4. Grew /\ Holds(new)'
    BY <1>1, <1>2 DEF Grew, liveVars, Holds, BroadcastSteps
  <1>5. Starts'
    <2>1. \A g \in Hosts : ActiveBroadcasts(g)' = ActiveBroadcasts(g)
      BY <1>1 DEF ActiveBroadcasts, IsLive, liveVars
    <2>2. broadcast' = broadcast
      BY <1>1 DEF liveVars
    <2>3. \A g \in Hosts : LookedFirst(g)'
      BY <2>1, <2>2 DEF IInv, Starts, LookedFirst
    <2>4. ASSUME NEW u \in Tasks
          PROVE  Looked(task[u])'
      <3>1. task'[u] = IF u = t THEN new ELSE task[u]
        BY <1>1 DEF IInv, Types, Goto
      <3>2. CASE u = t
        BY <1>1, <1>2, <2>1, <2>2, <3>1, <3>2 DEF Looked
      <3>3. CASE u # t
        <4>1. task[u].at = "startInsert" => task[u].host \in Hosts
          BY TaskKinds DEF IInv, Types
        <4>2. Looked(task[u])
          BY DEF IInv, Starts
        <4> QED BY <2>1, <2>2, <3>1, <3>3, <4>1, <4>2 DEF Looked
      <3> QED BY <3>2, <3>3
    <2> QED BY <2>3, <2>4 DEF Starts
  <1>6. GoneWithTheBroadcast'
    <2>1. task[t].at # "endViews" /\ crashes' = crashes
      BY <1>1, IdleTask DEF presenceVars
    <2> QED BY <1>1, <2>1, GoneKept DEF IInv, liveVars, IsLive
  <1> QED BY <1>1, <1>2, <1>3, <1>4, <1>5, <1>6, LiveStepKeeps

LEMMA StartInsertKeeps ==
    ASSUME PresenceConstants, IInv, NEW t \in Tasks, StartInsert(t)
    PROVE  IInv'
  <1>1. /\ task[t].at = "startInsert" /\ Goto(t, Idle)
        /\ UNCHANGED presenceVars /\ UNCHANGED <<view, sfu>>
    BY DEF StartInsert, At, Done
  <1>2. /\ task[t].host \in Hosts /\ task[t].after \in Nat /\ Looked(task[t])
    BY <1>1, Held, TaskKinds DEF IInv, Starts
  <1> DEFINE h == task[t].host
             n == task[t].after
  <1>3. PICK row \in BroadcastRow : /\ broadcast' = Append(broadcast, row)
                                    /\ row.host = h /\ row.status = "live"
                                    /\ row.media = 0 /\ row.after = n
    <2>1. PICK cloudflare \in BOOLEAN : broadcast' = Append(broadcast,
              [host |-> h, status |-> "live", cloudflare |-> cloudflare,
               media |-> 0, peak |-> 0, after |-> n])
      BY <1>2 DEF StartInsert
    <2>2. [host |-> h, status |-> "live", cloudflare |-> cloudflare,
           media |-> 0, peak |-> 0, after |-> n] \in BroadcastRow
      BY <1>2 DEF BroadcastRow
    <2> QED BY <2>1, <2>2
  <1>4. /\ Len(broadcast) \in Nat /\ DOMAIN broadcast = 1..Len(broadcast)
        /\ DOMAIN broadcast' = 1..(Len(broadcast) + 1)
        /\ broadcast' \in Seq(BroadcastRow)
        /\ \A b \in DOMAIN broadcast : broadcast'[b] = broadcast[b]
        /\ broadcast'[Len(broadcast) + 1] = row
    BY <1>3 DEF IInv, Types
  <1> DEFINE last == Len(broadcast) + 1
  <1>5. /\ DOMAIN broadcast \subseteq DOMAIN broadcast'
        /\ last \in DOMAIN broadcast' /\ last \notin DOMAIN broadcast
        /\ \A b \in DOMAIN broadcast' : b \in DOMAIN broadcast \/ b = last
        /\ broadcast'[last] = row
    BY <1>4
  <1> HIDE DEF last
  <1>6. LiveTypes'
    BY <1>1, <1>4 DEF LiveTypes, IInv, Types
  <1>7. Grew /\ Holds(Idle)'
    BY <1>1, <1>5, IdleTask DEF Grew, Holds, BroadcastSteps
  <1>8. Rows'
    <2>1. BroadcastRows'
      BY <1>1, <1>3, <1>4, <1>5 DEF IInv, Rows, BroadcastRows, HasTracks
    <2>2. ViewRows'
      BY <1>1, <1>5 DEF IInv, Rows, ViewRows, HasTracks
    <2> QED BY <2>1, <2>2 DEF Rows
  <1>9. Starts'
    <2>1. \A g \in Hosts : ActiveBroadcasts(g)' \subseteq ActiveBroadcasts(g) \cup {last}
      BY <1>5, <1>4 DEF ActiveBroadcasts, IsLive
    <2>2. \A g \in Hosts : last \in ActiveBroadcasts(g)' => g = h
      BY <1>3, <1>5 DEF ActiveBroadcasts
    <2>3. /\ last \in Nat /\ last = Len(broadcast) + 1 /\ Len(broadcast') = last
          /\ \A b \in DOMAIN broadcast : b \in Nat /\ b < last
      BY <1>3, <1>4 DEF last
    <2>4. ASSUME NEW g \in Hosts
          PROVE  LookedFirst(g)'
      <3> SUFFICES ASSUME NEW a \in ActiveBroadcasts(g)', NEW b \in ActiveBroadcasts(g)',
                          a < b
                   PROVE  broadcast'[b].after < a
        BY DEF LookedFirst
      <3>1. ActiveBroadcasts(g) \subseteq DOMAIN broadcast
        BY DEF ActiveBroadcasts
      <3>2. a # last
        BY <2>1, <2>3, <3>1
      <3>3. a \in ActiveBroadcasts(g)
        BY <2>1, <3>2
      <3>4. CASE b = last
        BY <1>2, <1>3, <1>5, <2>2, <3>3, <3>4, <1>1 DEF Looked
      <3>5. CASE b # last
        <4>1. b \in ActiveBroadcasts(g) /\ b \in DOMAIN broadcast
          BY <2>1, <3>1, <3>5
        <4> QED BY <1>4, <3>3, <4>1 DEF IInv, Starts, LookedFirst
      <3> QED BY <3>4, <3>5
    <2>5. ASSUME NEW u \in Tasks
          PROVE  Looked(task[u])'
      <3>1. CASE u = t
        BY <1>1, <3>1, IdleTask DEF IInv, Types, Goto, Looked
      <3>2. CASE u # t
        <4>1. task'[u] = task[u]
          BY <1>1, <3>2 DEF IInv, Types, Goto
        <4>2. task[u].at = "startInsert" => task[u].host \in Hosts /\ task[u].after \in Nat
          BY TaskKinds DEF IInv, Types
        <4>3. Looked(task[u])
          BY DEF IInv, Starts
        <4>4. Len(broadcast) \in Nat
          BY <1>4
        <4> QED BY <2>1, <2>3, <4>1, <4>2, <4>3, <4>4 DEF Looked
      <3> QED BY <3>1, <3>2
    <2> QED BY <2>4, <2>5 DEF Starts
  <1>10. GoneWithTheBroadcast'
    <2>1. \A v \in DOMAIN view : view[v].of \in DOMAIN broadcast
      BY DEF IInv, Rows, ViewRows
    <2>2. \A v \in DOMAIN view : IsLive(view[v].of)' <=> IsLive(view[v].of)
      BY <1>1, <1>4, <2>1 DEF IsLive
    <2>3. task[t].at # "endViews" /\ crashes' = crashes
      BY <1>1 DEF presenceVars
    <2> QED BY <1>1, <2>2, <2>3, GoneKept DEF IInv
  <1>11. Idle.at \notin AddSteps \cup ArmSteps
    BY IdleTask DEF AddSteps, ArmSteps
  <1> QED BY <1>1, <1>6, <1>7, <1>8, <1>9, <1>10, <1>11, IdleTask, LiveStepKeeps

LEMMA EndBroadcastKeeps ==
    ASSUME PresenceConstants, IInv, NEW t \in Tasks, NEW b \in DOMAIN broadcast,
           endBroadcast(t, b)
    PROVE  IInv'
  <1> DEFINE new == [at |-> "endRow", b |-> b]
  <1>1. /\ Goto(t, new) /\ task[t] = Idle
        /\ UNCHANGED presenceVars /\ UNCHANGED liveVars
    BY DEF endBroadcast, Start, Goto
  <1>2. new \in AnyTask /\ new.at \notin Elsewhere /\ Holds(new)
    BY ElsewhereIs DEF AnyTask, LiveTask, Holds, IInv, Types
  <1> HIDE DEF new
  <1> QED BY <1>1, <1>2, IdleTask, LiveReads DEF Elsewhere

LEMMA EndRowKeeps ==
    ASSUME PresenceConstants, IInv, NEW t \in Tasks, EndRow(t)
    PROVE  IInv'
  <1> DEFINE new == [task[t] EXCEPT !.at = "endViews"]
  <1>1. /\ task[t].at = "endRow" /\ Goto(t, new)
        /\ task[t] \in [at : {"endRow", "endViews", "createSfu"}, b : Nat]
        /\ UNCHANGED presenceVars /\ UNCHANGED <<view, sfu>>
    BY Held, TaskKinds DEF EndRow, At, Step, Goto, IInv, Types
  <1>2. PICK b \in DOMAIN broadcast : b = task[t].b
    BY <1>1, Held DEF Holds, BroadcastSteps
  <1>3. /\ new \in AnyTask /\ new.at = "endViews" /\ new.b = b
        /\ new.at \notin Elsewhere /\ Holds(new)
    BY <1>1, <1>2, ElsewhereIs DEF AnyTask, LiveTask, Holds
  <1> HIDE DEF new
  <1> DEFINE row == [broadcast[b] EXCEPT !.status = "ended"]
  <1>4. broadcast[b] \in BroadcastRow
    BY DEF IInv, Types
  <1>5. /\ row \in BroadcastRow /\ row.host = broadcast[b].host /\ row.status = "ended"
        /\ row.after = broadcast[b].after
        /\ row.media = broadcast[b].media
    BY <1>4 DEF BroadcastRow
  <1>6. broadcast' = [broadcast EXCEPT ![b] = row]
    BY <1>2 DEF EndRow
  <1> HIDE DEF row
  <1> QED BY <1>1, <1>3, <1>5, <1>6, BroadcastWritten DEF Elsewhere

LEMMA EndViewsKeeps ==
    ASSUME PresenceConstants, IInv, NEW t \in Tasks, EndViews(t)
    PROVE  IInv'
  <1>1. /\ task[t].at = "endViews" /\ Goto(t, Idle)
        /\ UNCHANGED presenceVars /\ UNCHANGED <<broadcast, sfu>>
    BY DEF EndViews, At, Done
  <1>2. Idle \in AnyTask /\ Idle.at \notin Elsewhere /\ Holds(Idle)
    BY IdleTask, ElsewhereIs DEF Holds, BroadcastSteps
  <1>3. /\ view' = [v \in DOMAIN view |-> view'[v]]
        /\ \A v \in DOMAIN view : view'[v] = IF view[v].of = task[t].b /\ view[v].open
                                             THEN [view[v] EXCEPT !.open = FALSE]
                                             ELSE view[v]
    BY DEF EndViews, ActiveViews
  <1>4. \A v \in DOMAIN view : view[v] \in ViewRow
    BY DEF IInv, Types
  <1>5. \A v \in DOMAIN view :
           /\ view'[v] \in ViewRow
           /\ view'[v].of = view[v].of /\ view'[v].late = view[v].late
           /\ view'[v].open => view[v].open
           /\ view'[v].media = view[v].media
           /\ view[v].of = task[t].b => ~view'[v].open
    BY <1>3, <1>4 DEF ViewRow
  <1> QED BY <1>1, <1>2, <1>3, <1>5, ViewsWritten DEF Elsewhere

LEMMA GraceFiresKeeps ==
    ASSUME PresenceConstants, IInv, NEW t \in Tasks, NEW h \in Hosts, GraceFires(t, h)
    PROVE  IInv'
  <1> DEFINE new == [at |-> "graceSockets", host |-> h]
  <1>1. /\ Goto(t, new) /\ task[t] = Idle
        /\ armed[h] > 0 /\ armed' = [armed EXCEPT ![h] = @ - 1]
        /\ UNCHANGED <<conn, online, session, crashes, limit>> /\ UNCHANGED liveVars
    BY DEF GraceFires, Start, Goto
  <1>2. /\ new \in AnyTask /\ new.at = "graceSockets" /\ new.at \notin Elsewhere
        /\ Holds(new)
    BY ElsewhereIs DEF AnyTask, LiveTask, Holds, BroadcastSteps
  <1> HIDE DEF new
  <1>3. /\ task' \in [Tasks -> AnyTask]
        /\ broadcast' \in Seq(BroadcastRow) /\ view' \in Seq(ViewRow)
        /\ sfu' \in Seq({"empty", "tracks"})
        /\ Starts' /\ Rows' /\ Refs' /\ GoneWithTheBroadcast'
    <2>1. task[t].at # "endViews" /\ new.at # "startInsert"
      BY <1>1, <1>2, IdleTask
    <2> QED BY <1>1, <1>2, <2>1, LiveKept
  <1>4. armed' \in [Hosts -> Nat] /\ \A g \in Hosts : armed'[g] <= armed[g]
    BY <1>1 DEF IInv, Types
  <1>5. Timers'
    BY <1>1, <1>2, <1>4, TimersKept DEF IInv, ArmSteps
  <1> QED BY <1>1, <1>3, <1>4, <1>5 DEF IInv, Types

LEMMA GraceSocketsKeeps ==
    ASSUME PresenceConstants, IInv, NEW t \in Tasks, GraceSockets(t)
    PROVE  IInv'
  <1>1. /\ task[t].at = "graceSockets" /\ UNCHANGED presenceVars /\ UNCHANGED liveVars
        /\ task[t] \in [at : {"graceSockets", "graceRead"}, host : Hosts]
    BY Held, TaskKinds DEF GraceSockets, At
  <1>2. PICK new \in {Idle, [task[t] EXCEPT !.at = "graceRead"]} : Goto(t, new)
    BY DEF GraceSockets
  <1>3. new \in AnyTask /\ new.at \in {"idle", "graceRead"}
    BY <1>1, <1>2, IdleTask DEF AnyTask, LiveTask
  <1>4. new.at \notin Elsewhere /\ Holds(new)
    BY <1>3, ElsewhereIs DEF Holds, BroadcastSteps
  <1> QED BY <1>1, <1>2, <1>3, <1>4, LiveReads DEF Elsewhere

LEMMA EndActiveKeeps ==
    ASSUME PresenceConstants, IInv, NEW t \in Tasks, endActiveBroadcastForHostIfAny(t)
    PROVE  IInv'
  <1>1. /\ task[t].at = "graceRead" /\ UNCHANGED presenceVars /\ UNCHANGED liveVars
    BY DEF endActiveBroadcastForHostIfAny, At
  <1>2. CASE \E b \in ActiveBroadcasts(task[t].host) : Goto(t, [at |-> "endRow", b |-> b])
    <2>1. PICK b \in DOMAIN broadcast : Goto(t, [at |-> "endRow", b |-> b])
      BY <1>2 DEF ActiveBroadcasts
    <2> DEFINE new == [at |-> "endRow", b |-> b]
    <2>2. new \in AnyTask /\ new.at \notin Elsewhere /\ Holds(new)
      BY ElsewhereIs DEF AnyTask, LiveTask, Holds, IInv, Types
    <2>3. Goto(t, new)
      BY <2>1
    <2> HIDE DEF new
    <2> QED BY <1>1, <2>2, <2>3, LiveReads DEF Elsewhere
  <1>3. CASE Goto(t, Idle)
    <2>1. Idle.at \notin Elsewhere /\ Holds(Idle)
      BY IdleTask, ElsewhereIs DEF Holds, BroadcastSteps
    <2> QED BY <1>1, <1>3, <2>1, IdleTask, LiveReads DEF Elsewhere
  <1> QED BY <1>2, <1>3 DEF endActiveBroadcastForHostIfAny, Done

\* The rows there are.
LEMMA RowTypes ==
    ASSUME IInv
    PROVE  /\ \A b \in DOMAIN broadcast :
                  /\ b \in Nat /\ broadcast[b] \in BroadcastRow
                  /\ broadcast[b].peak \in Nat /\ broadcast[b].media \in Nat
           /\ \A v \in DOMAIN view : v \in Nat /\ view[v] \in ViewRow
  <1>1. \A b \in DOMAIN broadcast : b \in Nat /\ broadcast[b] \in BroadcastRow
    BY DEF IInv, Types
  <1>2. \A row \in BroadcastRow : row.peak \in Nat /\ row.media \in Nat
    BY DEF BroadcastRow
  <1>3. \A v \in DOMAIN view : v \in Nat /\ view[v] \in ViewRow
    BY DEF IInv, Types
  <1> QED BY <1>1, <1>2, <1>3

LEMMA JoinBroadcastKeeps ==
    ASSUME PresenceConstants, IInv, NEW t \in Tasks, NEW b \in DOMAIN broadcast,
           NEW u \in Viewers, joinBroadcast(t, b, u)
    PROVE  IInv'
  <1> DEFINE new == [at |-> "joinRead", b |-> b, user |-> u, n |-> broadcast[b].peak]
  <1>1. /\ Goto(t, new) /\ task[t] = Idle
        /\ UNCHANGED presenceVars /\ UNCHANGED liveVars
    BY DEF joinBroadcast, Start, Goto
  <1>2. b \in Nat /\ broadcast[b].peak \in Nat
    BY RowTypes
  <1>3. new \in AnyTask /\ new.at \notin Elsewhere /\ Holds(new)
    BY <1>2, ElsewhereIs DEF AnyTask, LiveTask, Holds
  <1> HIDE DEF new
  <1> QED BY <1>1, <1>3, IdleTask, LiveReads DEF Elsewhere

\* A handler joining knows its broadcast.
LEMMA Joining ==
    ASSUME IInv, NEW t \in Tasks,
           task[t].at \in {"joinRead", "joinInsert", "joinCount", "joinPeak"}
    PROVE  /\ task[t].b \in DOMAIN broadcast /\ task[t].n \in Nat
           /\ task[t].user \in Viewers
           /\ \A step \in {"joinInsert", "joinCount"} :
                  LET new == [task[t] EXCEPT !.at = step] IN
                      /\ new \in AnyTask /\ new.at = step /\ new.b = task[t].b
                      /\ new.at \notin Elsewhere /\ Holds(new)
           /\ \A n \in Nat :
                  LET new == [task[t] EXCEPT !.at = "joinPeak", !.n = n] IN
                      new \in AnyTask /\ new.at \notin Elsewhere /\ Holds(new)
  <1>1. task[t] \in [at : {"joinRead", "joinInsert", "joinCount", "joinPeak"},
                     b : Nat, user : Viewers, n : Nat]
    BY Held, TaskKinds
  <1>2. task[t].b \in DOMAIN broadcast
    BY Held DEF Holds, BroadcastSteps
  <1>3. ASSUME NEW step \in {"joinInsert", "joinCount"},
               NEW new, new = [task[t] EXCEPT !.at = step]
        PROVE  /\ new \in AnyTask /\ new.at = step /\ new.b = task[t].b
               /\ new.at \notin Elsewhere /\ Holds(new)
    BY <1>1, <1>2, <1>3, ElsewhereIs DEF AnyTask, LiveTask, Holds
  <1>4. ASSUME NEW n \in Nat,
               NEW new, new = [task[t] EXCEPT !.at = "joinPeak", !.n = n]
        PROVE  new \in AnyTask /\ new.at \notin Elsewhere /\ Holds(new)
    BY <1>1, <1>2, <1>4, ElsewhereIs DEF AnyTask, LiveTask, Holds
  <1> QED BY <1>1, <1>2, <1>3, <1>4

LEMMA JoinReadKeeps ==
    ASSUME PresenceConstants, IInv, NEW t \in Tasks, JoinRead(t)
    PROVE  IInv'
  <1>1. /\ task[t].at = "joinRead" /\ UNCHANGED presenceVars /\ UNCHANGED liveVars
    BY DEF JoinRead, At
  <1>2. PICK step \in {"joinInsert", "joinCount"} :
            Goto(t, [task[t] EXCEPT !.at = step])
    BY DEF JoinRead
  <1>3. PICK new \in AnyTask : Goto(t, new) /\ new.at \notin Elsewhere /\ Holds(new)
    BY <1>1, <1>2, Joining
  <1> QED BY <1>1, <1>3, LiveReads DEF Elsewhere

LEMMA JoinInsertKeeps ==
    ASSUME PresenceConstants, IInv, NEW t \in Tasks, JoinInsert(t)
    PROVE  IInv'
  <1>1. /\ task[t].at = "joinInsert"
        /\ UNCHANGED presenceVars /\ UNCHANGED <<broadcast, sfu>>
        /\ Goto(t, [task[t] EXCEPT !.at = "joinCount"])
    BY DEF JoinInsert, At, Step, Goto, IInv, Types
  <1>2. PICK new \in AnyTask : Goto(t, new) /\ new.at \notin Elsewhere /\ Holds(new)
                                   /\ new.at = "joinCount"
    BY <1>1, Joining
  <1> DEFINE row == [of |-> task[t].b, user |-> task[t].user, open |-> TRUE,
                     media |-> 0, late |-> ~IsLive(task[t].b)]
  <1>3. /\ row \in ViewRow /\ row.of \in DOMAIN broadcast /\ row.media = 0
        /\ row.late <=> ~IsLive(row.of)
    <2>1. task[t].b \in Nat
      BY <1>1, Joining, RowTypes
    <2> QED BY <1>1, <2>1, Joining DEF ViewRow, IsLive
  <1>4. view' = Append(view, row)
    BY DEF JoinInsert
  <1> HIDE DEF row
  <1>5. /\ Len(view) \in Nat /\ DOMAIN view = 1..Len(view)
        /\ DOMAIN view' = 1..(Len(view) + 1)
        /\ view' \in Seq(ViewRow)
        /\ \A v \in DOMAIN view : view'[v] = view[v]
        /\ view'[Len(view) + 1] = row
    BY <1>3, <1>4 DEF IInv, Types
  <1> DEFINE last == Len(view) + 1
  <1>6. /\ DOMAIN view \subseteq DOMAIN view' /\ last \in DOMAIN view'
        /\ \A v \in DOMAIN view' : v \in DOMAIN view \/ v = last
        /\ view'[last] = row
    BY <1>5
  <1> HIDE DEF last
  <1>7. LiveTypes'
    BY <1>1, <1>5 DEF LiveTypes, IInv, Types
  <1>8. Grew /\ Holds(new)'
    BY <1>1, <1>2, <1>6 DEF Grew, Holds, HasTracks
  <1>9. Starts'
    <2>1. \A h \in Hosts : ActiveBroadcasts(h)' \subseteq ActiveBroadcasts(h)
      BY <1>1 DEF ActiveBroadcasts, IsLive
    <2> QED BY <1>1, <1>2, <2>1, StartsKept DEF IInv
  <1>10. Rows'
    <2>1. BroadcastRows'
      BY <1>1 DEF IInv, Rows, BroadcastRows, HasTracks
    <2>2. ViewRows'
      BY <1>1, <1>3, <1>5, <1>6 DEF IInv, Rows, ViewRows, HasTracks
    <2> QED BY <2>1, <2>2 DEF Rows
  <1>11. GoneWithTheBroadcast'
    <2>1. ASSUME NEW v \in DOMAIN view', view'[v].open, ~IsLive(view[v].of)'
          PROVE  \/ view'[v].late
                 \/ /\ v \in DOMAIN view /\ view[v].open /\ ~IsLive(view[v].of)
                    /\ view'[v].of = view[v].of /\ view'[v].late = view[v].late
      <3>1. CASE v = last
        BY <1>1, <1>3, <1>6, <2>1, <3>1 DEF IsLive
      <3>2. CASE v \in DOMAIN view
        BY <1>1, <1>5, <2>1, <3>2 DEF IsLive
      <3> QED BY <1>6, <3>1, <3>2
    <2>2. task[t].at # "endViews" /\ crashes' = crashes
      BY <1>1 DEF presenceVars
    <2> QED BY <1>2, <2>1, <2>2, GoneKept DEF IInv
  <1>12. new.at \notin AddSteps \cup ArmSteps
    BY <1>2 DEF Elsewhere
  <1> QED BY <1>1, <1>2, <1>7, <1>8, <1>9, <1>10, <1>11, <1>12, LiveStepKeeps

LEMMA JoinCountKeeps ==
    ASSUME PresenceConstants, IInv, NEW t \in Tasks, JoinCount(t)
    PROVE  IInv'
  <1> DEFINE n == getConcurrentViewerCount(task[t].b)
  <1>1. /\ task[t].at = "joinCount" /\ UNCHANGED presenceVars /\ UNCHANGED liveVars
        /\ Goto(t, IF n > task[t].n
                   THEN [task[t] EXCEPT !.at = "joinPeak", !.n = n] ELSE Idle)
    BY DEF JoinCount, At
  <1>2. n \in Nat
    <2>1. DOMAIN view = 1..Len(view) /\ Len(view) \in Nat
      BY DEF IInv, Types
    <2>2. IsFiniteSet(DOMAIN view)
      BY <2>1, FS_Interval
    <2>3. ActiveViews(task[t].b) \subseteq DOMAIN view
      BY DEF ActiveViews
    <2> QED BY <2>2, <2>3, FS_Subset, FS_CardinalityType DEF getConcurrentViewerCount
  <1> HIDE DEF n
  <1>3. PICK new \in AnyTask : Goto(t, new) /\ new.at \notin Elsewhere /\ Holds(new)
    <2>1. CASE n > task[t].n
      BY <1>1, <1>2, <2>1, Joining
    <2>2. CASE ~ n > task[t].n
      <3>1. Idle.at \notin Elsewhere /\ Holds(Idle)
        BY IdleTask, ElsewhereIs DEF Holds, BroadcastSteps
      <3> QED BY <1>1, <2>2, <3>1, IdleTask
    <2> QED BY <2>1, <2>2
  <1> QED BY <1>1, <1>3, LiveReads DEF Elsewhere

LEMMA IdleHolds == Idle \in AnyTask /\ Idle.at \notin Elsewhere /\ Holds(Idle)
  BY IdleTask, ElsewhereIs DEF Holds, BroadcastSteps

LEMMA JoinPeakKeeps ==
    ASSUME PresenceConstants, IInv, NEW t \in Tasks, JoinPeak(t)
    PROVE  IInv'
  <1>1. /\ task[t].at = "joinPeak" /\ Goto(t, Idle)
        /\ UNCHANGED presenceVars /\ UNCHANGED <<view, sfu>>
    BY DEF JoinPeak, At, Done
  <1>2. PICK b \in DOMAIN broadcast : b = task[t].b
    BY <1>1, Joining
  <1> DEFINE row == [broadcast[b] EXCEPT !.peak = task[t].n]
  <1>3. broadcast[b] \in BroadcastRow /\ task[t].n \in Nat
    BY <1>1, Joining, RowTypes
  <1>4. /\ row \in BroadcastRow /\ row.host = broadcast[b].host
        /\ row.after = broadcast[b].after
        /\ row.status = broadcast[b].status /\ row.media = broadcast[b].media
    BY <1>3 DEF BroadcastRow
  <1>5. broadcast' = [broadcast EXCEPT ![b] = row]
    BY <1>2 DEF JoinPeak
  <1> HIDE DEF row
  <1>6. /\ row.status = "live" => IsLive(b)
        /\ row.status = "ended" => ~IsLive(b)
    BY <1>4 DEF IsLive
  <1> QED BY <1>1, <1>4, <1>5, <1>6, IdleHolds, BroadcastWritten DEF Elsewhere

LEMMA LeaveBroadcastKeeps ==
    ASSUME PresenceConstants, IInv, NEW t \in Tasks, NEW b \in DOMAIN broadcast,
           NEW u \in Viewers, leaveBroadcast(t, b, u)
    PROVE  IInv'
  <1>1. PICK v \in DOMAIN view : Start(t, [at |-> "leave", v |-> v])
    BY DEF leaveBroadcast, ActiveViewsOf, ActiveViews
  <1> DEFINE new == [at |-> "leave", v |-> v]
  <1>2. /\ Goto(t, new) /\ task[t] = Idle
        /\ UNCHANGED presenceVars /\ UNCHANGED liveVars
    BY <1>1 DEF leaveBroadcast, Start, Goto
  <1>3. new \in AnyTask /\ new.at \notin Elsewhere /\ Holds(new)
    BY ElsewhereIs DEF AnyTask, LiveTask, Holds, BroadcastSteps, IInv, Types
  <1> HIDE DEF new
  <1> QED BY <1>2, <1>3, IdleTask, LiveReads DEF Elsewhere

LEMMA LeaveWriteKeeps ==
    ASSUME PresenceConstants, IInv, NEW t \in Tasks, LeaveWrite(t)
    PROVE  IInv'
  <1>1. /\ task[t].at = "leave" /\ Goto(t, Idle)
        /\ UNCHANGED presenceVars /\ UNCHANGED <<broadcast, sfu>>
        /\ view' = [view EXCEPT ![task[t].v].open = FALSE]
    BY DEF LeaveWrite, At, Done
  <1>2. \A v \in DOMAIN view : view[v] \in ViewRow
    BY DEF IInv, Types
  <1>3. /\ view' = [v \in DOMAIN view |-> view'[v]]
        /\ \A v \in DOMAIN view : view'[v] = IF v = task[t].v
                                             THEN [view[v] EXCEPT !.open = FALSE]
                                             ELSE view[v]
    BY <1>1
  <1>4. \A v \in DOMAIN view :
           /\ view'[v] \in ViewRow
           /\ view'[v].of = view[v].of /\ view'[v].late = view[v].late
           /\ view'[v].open => view[v].open
           /\ view'[v].media = view[v].media
    BY <1>2, <1>3 DEF ViewRow
  <1>5. view' = [v \in DOMAIN view |-> view'[v]] /\ task[t].at # "endViews"
    BY <1>1, <1>3
  <1> QED BY <1>1, <1>4, <1>5, IdleHolds, ViewsWritten DEF Elsewhere

LEMMA PublishKeeps ==
    ASSUME PresenceConstants, IInv, NEW t \in Tasks, NEW b \in DOMAIN broadcast,
           publishBroadcastTracks(t, b)
    PROVE  IInv'
  <1> DEFINE new == [at |-> "createSfu", b |-> b]
  <1>1. /\ Goto(t, new) /\ task[t] = Idle
        /\ UNCHANGED presenceVars /\ UNCHANGED liveVars
    BY DEF publishBroadcastTracks, Start, Goto
  <1>2. new \in AnyTask /\ new.at \notin Elsewhere /\ Holds(new)
    BY ElsewhereIs DEF AnyTask, LiveTask, Holds, IInv, Types
  <1> HIDE DEF new
  <1> QED BY <1>1, <1>2, IdleTask, LiveReads DEF Elsewhere

LEMMA CreateSfuSessionKeeps ==
    ASSUME PresenceConstants, IInv, NEW t \in Tasks, CreateSfuSession(t)
    PROVE  IInv'
  <1> DEFINE last == Len(sfu')
             new == [at |-> "pushTracks", b |-> task[t].b, s |-> last]
  <1>1. /\ task[t].at = "createSfu" /\ Goto(t, new)
        /\ UNCHANGED presenceVars /\ UNCHANGED <<broadcast, view>>
        /\ sfu' = Append(sfu, "empty")
    BY DEF CreateSfuSession, At
  <1>2. /\ sfu' \in Seq({"empty", "tracks"}) /\ DOMAIN sfu \subseteq DOMAIN sfu'
        /\ \A s \in DOMAIN sfu : sfu'[s] = sfu[s]
        /\ last \in DOMAIN sfu' /\ last \in Nat
    BY <1>1 DEF IInv, Types
  <1>3. task[t].b \in DOMAIN broadcast /\ task[t].b \in Nat
    BY <1>1, Held DEF Holds, BroadcastSteps, IInv, Types
  <1> HIDE DEF last
  <1>4. new \in AnyTask /\ new.at = "pushTracks" /\ new.b = task[t].b /\ new.s = last
    BY <1>2, <1>3 DEF AnyTask, LiveTask
  <1>5. PICK x \in AnyTask : /\ Goto(t, x) /\ x.at = "pushTracks"
                             /\ x.b \in DOMAIN broadcast /\ x.s \in DOMAIN sfu'
    BY <1>1, <1>2, <1>3, <1>4
  <1>6. x.at \notin Elsewhere /\ Holds(x)'
    BY <1>1, <1>5, ElsewhereIs DEF Holds
  <1> QED BY <1>1, <1>2, <1>5, <1>6, SfuWritten DEF Elsewhere

LEMMA PushTracksKeeps ==
    ASSUME PresenceConstants, IInv, NEW t \in Tasks, PushTracks(t)
    PROVE  IInv'
  <1> DEFINE new == [task[t] EXCEPT !.at = "saveMedia"]
  <1>1. /\ task[t].at = "pushTracks" /\ Goto(t, new)
        /\ task[t] \in [at : {"pushTracks", "saveMedia"}, b : Nat, s : Nat]
        /\ UNCHANGED presenceVars /\ UNCHANGED <<broadcast, view>>
    BY Held, TaskKinds DEF PushTracks, At, Step, Goto, IInv, Types
  <1>2. PICK s \in DOMAIN sfu : s = task[t].s /\ task[t].b \in DOMAIN broadcast
    BY <1>1, Held DEF Holds, BroadcastSteps
  <1>3. /\ new \in AnyTask /\ new.at = "saveMedia" /\ new.b = task[t].b /\ new.s = s
    BY <1>1, <1>2 DEF AnyTask, LiveTask
  <1> HIDE DEF new
  <1>4. /\ DOMAIN sfu' = DOMAIN sfu
        /\ \A i \in DOMAIN sfu : sfu'[i] = IF i = s THEN "tracks" ELSE sfu[i]
    BY <1>2 DEF PushTracks, IInv, Types
  <1>5. sfu' \in Seq({"empty", "tracks"})
    <2>1. Len(sfu) \in Nat /\ DOMAIN sfu = 1..Len(sfu)
          /\ \A i \in 1..Len(sfu) : sfu[i] \in {"empty", "tracks"}
      BY DEF IInv, Types
    <2>2. sfu' = [i \in DOMAIN sfu |-> IF i = s THEN "tracks" ELSE sfu[i]]
      BY <1>2 DEF PushTracks
    <2>3. sfu' \in [1..Len(sfu) -> {"empty", "tracks"}]
      BY <2>1, <2>2
    <2> QED BY <2>1, <2>3
  <1>6. PICK x \in AnyTask : /\ Goto(t, x) /\ x.at = "saveMedia"
                             /\ x.b \in DOMAIN broadcast /\ x.s = s
    BY <1>1, <1>2, <1>3
  <1>7. x.at \notin Elsewhere /\ Holds(x)'
    BY <1>1, <1>4, <1>6, ElsewhereIs DEF Holds, HasTracks
  <1> QED BY <1>1, <1>4, <1>5, <1>6, <1>7, SfuWritten DEF Elsewhere

LEMMA SaveMediaKeeps ==
    ASSUME PresenceConstants, IInv, NEW t \in Tasks, SaveMedia(t)
    PROVE  IInv'
  <1>1. /\ task[t].at = "saveMedia" /\ Goto(t, Idle)
        /\ task[t] \in [at : {"pushTracks", "saveMedia"}, b : Nat, s : Nat]
        /\ UNCHANGED presenceVars /\ UNCHANGED <<view, sfu>>
    BY Held, TaskKinds DEF SaveMedia, At, Done
  <1>2. PICK b \in DOMAIN broadcast : b = task[t].b /\ HasTracks(task[t].s)
    BY <1>1, Held DEF Holds, BroadcastSteps
  <1> DEFINE row == [broadcast[b] EXCEPT !.media = task[t].s]
  <1>3. broadcast[b] \in BroadcastRow
    BY DEF IInv, Types
  <1>4. /\ row \in BroadcastRow /\ row.host = broadcast[b].host
        /\ row.after = broadcast[b].after
        /\ row.status = broadcast[b].status /\ row.media = task[t].s
    BY <1>1, <1>3 DEF BroadcastRow
  <1>5. broadcast' = [broadcast EXCEPT ![b] = row]
    BY <1>2 DEF SaveMedia
  <1> HIDE DEF row
  <1>6. /\ row.status = "live" => IsLive(b)
        /\ row.status = "ended" => ~IsLive(b)
        /\ HasTracks(row.media)
    BY <1>2, <1>4 DEF IsLive
  <1> QED BY <1>1, <1>4, <1>5, <1>6, IdleHolds, BroadcastWritten DEF Elsewhere

LEMMA SubscribeViewerKeeps ==
    ASSUME PresenceConstants, IInv, NEW t \in Tasks, NEW b \in DOMAIN broadcast,
           NEW u \in Viewers, subscribeViewer(t, b, u)
    PROVE  IInv'
  <1> DEFINE new == [at |-> "viewRow", b |-> b, user |-> u, s |-> broadcast[b].media]
  <1>1. /\ Goto(t, new) /\ task[t] = Idle /\ broadcast[b].media # 0
        /\ UNCHANGED presenceVars /\ UNCHANGED liveVars
    BY DEF subscribeViewer, Start, Goto
  <1>2. HasTracks(broadcast[b].media)
    BY <1>1 DEF IInv, Rows, BroadcastRows
  <1>3. b \in Nat /\ broadcast[b].media \in Nat
    BY RowTypes
  <1>4. new \in AnyTask /\ new.at \notin Elsewhere /\ Holds(new)
    BY <1>2, <1>3, ElsewhereIs DEF AnyTask, LiveTask, Holds
  <1> HIDE DEF new
  <1> QED BY <1>1, <1>4, IdleTask, LiveReads DEF Elsewhere

LEMMA SubscribeViewRowKeeps ==
    ASSUME PresenceConstants, IInv, NEW t \in Tasks, SubscribeViewRow(t)
    PROVE  IInv'
  <1>1. /\ task[t].at = "viewRow" /\ UNCHANGED presenceVars /\ UNCHANGED liveVars
        /\ task[t] \in [at : {"viewRow"}, b : Nat, user : Viewers, s : Nat]
    BY Held, TaskKinds DEF SubscribeViewRow, At
  <1>2. HasTracks(task[t].s)
    BY <1>1, Held DEF Holds
  <1>3. CASE \E v \in ActiveViewsOf(task[t].b, task[t].user) :
                 Goto(t, [at |-> "pull", v |-> v, s |-> task[t].s])
    <2>1. PICK v \in DOMAIN view : Goto(t, [at |-> "pull", v |-> v, s |-> task[t].s])
      BY <1>3 DEF ActiveViewsOf, ActiveViews
    <2> DEFINE new == [at |-> "pull", v |-> v, s |-> task[t].s]
    <2>2. v \in Nat
      BY DEF IInv, Types
    <2>3. new \in AnyTask /\ new.at \notin Elsewhere /\ Holds(new)
      BY <1>1, <1>2, <2>2, ElsewhereIs DEF AnyTask, LiveTask, Holds, BroadcastSteps
    <2>4. Goto(t, new)
      BY <2>1
    <2> HIDE DEF new
    <2> QED BY <1>1, <2>3, <2>4, LiveReads DEF Elsewhere
  <1>4. CASE Goto(t, Idle)
    BY <1>1, <1>4, IdleHolds, LiveReads DEF Elsewhere
  <1> QED BY <1>3, <1>4 DEF SubscribeViewRow, Done

LEMMA PullTracksKeeps ==
    ASSUME PresenceConstants, IInv, NEW t \in Tasks, PullTracks(t)
    PROVE  IInv'
  <1>1. /\ task[t].at = "pull" /\ Goto(t, Idle)
        /\ task[t] \in [at : {"pull"}, v : Nat, s : Nat]
        /\ UNCHANGED presenceVars /\ UNCHANGED <<broadcast, sfu>>
        /\ view' = [view EXCEPT ![task[t].v].media = task[t].s]
    BY Held, TaskKinds DEF PullTracks, At, Done
  <1>2. HasTracks(task[t].s) /\ \A v \in DOMAIN view : view[v] \in ViewRow
    BY <1>1, Held, RowTypes DEF Holds
  <1>3. /\ view' = [v \in DOMAIN view |-> view'[v]]
        /\ \A v \in DOMAIN view : view'[v] = IF v = task[t].v
                                             THEN [view[v] EXCEPT !.media = task[t].s]
                                             ELSE view[v]
    BY <1>1
  <1>4. \A v \in DOMAIN view :
           /\ view'[v] \in ViewRow
           /\ view'[v].of = view[v].of /\ view'[v].late = view[v].late
           /\ view'[v].open => view[v].open
           /\ view'[v].media = view[v].media \/ HasTracks(view'[v].media)
    BY <1>1, <1>2, <1>3 DEF ViewRow
  <1>5. view' = [v \in DOMAIN view |-> view'[v]] /\ task[t].at # "endViews"
    BY <1>1, <1>3
  <1> QED BY <1>1, <1>4, <1>5, IdleHolds, ViewsWritten DEF Elsewhere

-----------------------------------------------------------------------------
(* The steps of no handler *)

\* Rows, tasks and bounds stay, whatever becomes of a socket or a session's age.
LEMMA OutsideKeeps ==
    ASSUME IInv, UNCHANGED liveVars, UNCHANGED <<online, armed, task, crashes, limit>>,
           conn' \subseteq Hosts \X Tabs, session' \in [Hosts -> Seq(SessionRow)],
           \A h \in Hosts : Len(session'[h]) = Len(session[h])
    PROVE  IInv'
  <1>1. Types'
    BY DEF IInv, Types, liveVars
  <1>2. Timers'
    BY DEF IInv, Timers, Leaving, ArmingOf, Arming
  <1>3. Starts'
    BY DEF IInv, Starts, Looked, LookedFirst, ActiveBroadcasts, IsLive, liveVars
  <1>4. Rows'
    BY DEF IInv, Rows, BroadcastRows, ViewRows, HasTracks, liveVars
  <1>5. Refs'
    BY DEF IInv, Refs, Holds, HasTracks, liveVars
  <1>6. GoneWithTheBroadcast'
    BY DEF IInv, GoneWithTheBroadcast, Busy, IsLive, liveVars
  <1> QED BY <1>1, <1>2, <1>3, <1>4, <1>5, <1>6 DEF IInv

LEMMA ConnectKeeps ==
    ASSUME IInv, NEW h \in Hosts, NEW k \in Tabs, Connect(h, k), UNCHANGED liveVars
    PROVE  IInv'
  <1>1. conn' \subseteq Hosts \X Tabs /\ session' \in [Hosts -> Seq(SessionRow)]
    BY DEF Connect, IInv, Types
  <1> QED BY <1>1, OutsideKeeps DEF Connect

LEMMA SessionAgesKeeps ==
    ASSUME IInv, NEW h \in Hosts, SessionAges(h), UNCHANGED liveVars
    PROVE  IInv'
  <1>1. PICK i \in DOMAIN session[h] :
            session' = [session EXCEPT ![h] = [session[h] EXCEPT ![i] = "stale"]]
    BY DEF SessionAges, Open
  <1>2. PICK rows : rows = [session[h] EXCEPT ![i] = "stale"]
    OBVIOUS
  <1>3. rows \in Seq(SessionRow) /\ Len(rows) = Len(session[h])
    <2>1. session[h] \in Seq(SessionRow)
      BY DEF IInv, Types
    <2>2. /\ Len(session[h]) \in Nat /\ DOMAIN session[h] = 1..Len(session[h])
          /\ \A j \in 1..Len(session[h]) : session[h][j] \in SessionRow
      BY <2>1
    <2>3. rows \in [1..Len(session[h]) -> SessionRow]
      BY <1>2, <2>2 DEF SessionRow
    <2> QED BY <2>2, <2>3
  <1>4. session' = [session EXCEPT ![h] = rows]
    BY <1>1, <1>2
  <1>5. /\ session' \in [Hosts -> Seq(SessionRow)]
        /\ \A g \in Hosts : Len(session'[g]) = Len(session[g])
    BY <1>3, <1>4 DEF IInv, Types
  <1>6. conn' \subseteq Hosts \X Tabs
    BY DEF SessionAges, IInv, Types
  <1> QED BY <1>5, <1>6, OutsideKeeps DEF SessionAges

LEMMA CrashKeeps ==
    ASSUME PresenceConstants, IInv, Crash, UNCHANGED liveVars
    PROVE  IInv'
  <1>1. /\ task' = [t \in Tasks |-> Idle] /\ armed' = [h \in Hosts |-> 0]
        /\ conn' = {} /\ online' \subseteq Hosts
        /\ crashes' = crashes + 1 /\ crashes < limit.crashes
        /\ UNCHANGED <<session, limit>>
    BY DEF Crash, TasksLost, IInv, Types
  <1>2. limit \in Limits /\ limit.crashes \in Nat /\ limit.timers \in Nat
    BY DEF PresenceConstants, Limit, IInv, Types
  <1>3. crashes \in 0..limit.crashes
    BY DEF IInv, Types
  <1>4. Types'
    BY <1>1, <1>2, <1>3, IdleTask DEF IInv, Types, liveVars
  <1>5. Timers'
    <2> SUFFICES ASSUME NEW h \in Hosts
                 PROVE  /\ IsFiniteSet(Leaving(h)')
                        /\ armed'[h] + Cardinality(ArmingOf(h)') <= limit.timers
      BY <1>1 DEF Timers
    <2>1. Leaving(h)' = {} /\ ArmingOf(h)' = {} /\ armed'[h] = 0
      BY <1>1, IdleTask DEF Leaving, ArmingOf, Arming, ArmSteps
    <2>2. IsFiniteSet({}) /\ Cardinality({}) = 0
      BY FS_EmptySet
    <2> QED BY <1>2, <2>1, <2>2
  <1>6. Starts'
    BY <1>1, IdleTask DEF IInv, Starts, Looked, LookedFirst, ActiveBroadcasts, IsLive,
                          liveVars
  <1>7. Rows'
    BY DEF IInv, Rows, BroadcastRows, ViewRows, HasTracks, liveVars
  <1>8. Refs'
    BY <1>1, IdleTask DEF Refs, Holds, BroadcastSteps
  <1>9. GoneWithTheBroadcast'
    BY <1>1, <1>2, <1>3 DEF GoneWithTheBroadcast
  <1> QED BY <1>4, <1>5, <1>6, <1>7, <1>8, <1>9 DEF IInv

LEMMA StutterKeeps ==
    ASSUME IInv, UNCHANGED vars
    PROVE  IInv'
  <1>1. session' \in [Hosts -> Seq(SessionRow)] /\ conn' \subseteq Hosts \X Tabs
    BY DEF vars, presenceVars, IInv, Types
  <1> QED BY <1>1, OutsideKeeps DEF vars, presenceVars

-----------------------------------------------------------------------------
(* The invariant *)

LEMMA InitHolds ==
    ASSUME PresenceConstants, Init
    PROVE  IInv
  <1> USE DEF Init, PresenceInit, NoTasks
  <1>1. limit \in Limits /\ limit.crashes \in Nat /\ limit.timers \in Nat
    BY DEF PresenceConstants, Limit
  <1>2. Types
    BY <1>1, IdleTask DEF Types
  <1>3. Timers
    <2> SUFFICES ASSUME NEW h \in Hosts
                 PROVE  /\ IsFiniteSet(Leaving(h))
                        /\ armed[h] + Cardinality(ArmingOf(h)) <= limit.timers
      BY DEF Timers
    <2>1. Leaving(h) = {} /\ ArmingOf(h) = {} /\ armed[h] = 0
      BY IdleTask DEF Leaving, ArmingOf, Arming, ArmSteps
    <2>2. IsFiniteSet({}) /\ Cardinality({}) = 0
      BY FS_EmptySet
    <2> QED BY <1>1, <2>1, <2>2
  <1>4. Starts
    BY IdleTask DEF Starts, Looked, LookedFirst, ActiveBroadcasts
  <1>5. Rows
    BY DEF Rows, BroadcastRows, ViewRows
  <1>6. Refs
    BY IdleTask DEF Refs, Holds, BroadcastSteps
  <1>7. GoneWithTheBroadcast
    BY DEF GoneWithTheBroadcast
  <1> QED BY <1>2, <1>3, <1>4, <1>5, <1>6, <1>7 DEF IInv

LEMMA PresenceStepsKeep ==
    ASSUME PresenceConstants, IInv, NEW t \in Tasks, PresenceStep(t), UNCHANGED liveVars
    PROVE  IInv'
  BY ReadOpenKeeps, InsertSessionKeeps, CloseRowsKeeps, SetOfflineKeeps, CheckFlagKeeps,
     CheckSocketsKeeps, SweepRowKeeps, SweepSocketsKeeps, SweepTouchKeeps, SweepEndKeeps
  DEF PresenceStep

LEMMA PresenceNextKeeps ==
    ASSUME PresenceConstants, IInv, PresenceNext, UNCHANGED liveVars
    PROVE  IInv'
  BY SessionAgesKeeps, ConnectKeeps, MarkHostOnlineKeeps, MarkHostOfflineKeeps,
     DisconnectKeeps, SweepStartKeeps, PresenceStepsKeep, CrashKeeps
  DEF PresenceNext

LEMMA LiveStepsKeep ==
    ASSUME PresenceConstants, IInv, NEW t \in Tasks, LiveStep(t)
    PROVE  IInv'
  BY StartInsertKeeps, EndRowKeeps, EndViewsKeeps, GraceSocketsKeeps, EndActiveKeeps,
     JoinReadKeeps, JoinInsertKeeps, JoinCountKeeps, JoinPeakKeeps, LeaveWriteKeeps,
     CreateSfuSessionKeeps, PushTracksKeeps, SaveMediaKeeps, SubscribeViewRowKeeps,
     PullTracksKeeps
  DEF LiveStep

LEMMA LiveRequestsKeep ==
    ASSUME PresenceConstants, IInv, NEW t \in Tasks, LiveRequest(t)
    PROVE  IInv'
  BY StartBroadcastKeeps, EndBroadcastKeeps, PublishKeeps, JoinBroadcastKeeps,
     LeaveBroadcastKeeps, SubscribeViewerKeeps
  DEF LiveRequest

\* The invariant the theorems below rest on holds in every state.
THEOREM Invariance == Spec => []IInv
  <1>1. Init => IInv
    BY PresenceConstants, InitHolds
  <1>2. IInv /\ [Next]_vars => IInv'
    BY PresenceConstants, PresenceNextKeeps, LiveStepsKeep, LiveRequestsKeep,
       GraceFiresKeeps, StutterKeeps DEF Next
  <1> QED BY <1>1, <1>2, PTL DEF Spec

-----------------------------------------------------------------------------
(* What follows from it *)

\* Rows keep their types, a host has no more pending grace timers than
\* the bound allows, and every task is one of a known handler.
THEOREM TypeCorrect == Spec => []TypeOK
  <1>1. IInv => TypeOK
    <2> SUFFICES ASSUME IInv PROVE TypeOK
      OBVIOUS
    <2>1. /\ conn \subseteq Hosts \X Tabs /\ online \subseteq Hosts
          /\ crashes \in 0..limit.crashes /\ limit \in Limits
      BY DEF IInv, Types
    <2>2. ASSUME NEW h \in Hosts
          PROVE  /\ session[h] \in Seq(SessionRow)
                 /\ armed[h] \in 0..limit.timers
      <3>1. /\ armed[h] + Cardinality(ArmingOf(h)) <= limit.timers
            /\ Cardinality(ArmingOf(h)) \in Nat
        BY ArmingFinite DEF IInv, Timers
      <3>2. /\ session[h] \in Seq(SessionRow) /\ armed[h] \in Nat
        BY DEF IInv, Types
      <3>3. limit.timers \in Nat
        BY PresenceConstants DEF PresenceConstants, Limit, IInv, Types
      <3>4. armed[h] <= limit.timers
        BY <3>1, <3>2, <3>3
      <3> QED BY <3>2, <3>3, <3>4
    <2>3. PresenceTypeOK
      BY <2>1, <2>2 DEF PresenceTypeOK
    <2>4. \A t \in Tasks : task[t] \in PresenceTask \/ task[t] \in LiveTask
      BY DEF IInv, Types, AnyTask
    <2>5. /\ \A b \in DOMAIN broadcast : broadcast[b] \in BroadcastRow
          /\ \A v \in DOMAIN view : view[v] \in ViewRow
      BY RowTypes
    <2>6. \A s \in DOMAIN sfu : sfu[s] \in {"empty", "tracks"}
      BY DEF IInv, Types
    <2> QED BY <2>3, <2>4, <2>5, <2>6 DEF TypeOK
  <1> QED BY <1>1, Invariance, PTL

\* However starts, ends, grace checks and restarts interleave, a host has two
\* live broadcasts only if the later start had looked before the earlier row was
\* there.
THEOREM OnlyCrossingStarts == Spec => []SecondStartsRefused
  <1>1. IInv => \A h \in Hosts : LookedFirst(h)
    BY DEF IInv, Starts
  <1>2. TypeOK /\ (\A h \in Hosts : LookedFirst(h)) => SecondStartsRefused
    BY DEF SecondStartsRefused, LookedFirst
  <1> QED BY <1>1, <1>2, Invariance, TypeCorrect, PTL

\* Nobody is left watching an ended broadcast whose viewers have been closed,
\* but one who had read it as live.
THEOREM ViewersGo == Spec => []GoneWithTheBroadcast
  <1>1. IInv => GoneWithTheBroadcast
    BY DEF IInv
  <1> QED BY <1>1, Invariance, PTL

\* Nobody pulls from an SFU session without the host's tracks.
THEOREM PullsFindTracks == Spec => []PulledTracksExist
  <1>1. IInv => PulledTracksExist
    BY DEF IInv, Rows, ViewRows, HasTracks, PulledTracksExist
  <1> QED BY <1>1, Invariance, PTL

=============================================================================
