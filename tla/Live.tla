-------------------------------- MODULE Live --------------------------------
(***************************************************************************)
(* Live broadcasts: live.service.ts (start, end, join, leave), the SFU     *)
(* sessions of liveMedia.service.ts, and checkAbandonedBroadcast of        *)
(* realtime/socket.ts, which ends the broadcast of a host who does not     *)
(* come back.  The host's sockets and the grace timers are Presence's.     *)
(***************************************************************************)
EXTENDS Presence, FiniteSetsExt

CONSTANT Viewers

VARIABLES
    broadcast,  \* live_broadcasts, by id
    view,       \* live_viewers, by id
    sfu         \* Cloudflare: the sessions of hosts, with their tracks or empty

liveVars == <<broadcast, view, sfu>>
presenceVars == <<conn, online, session, armed, crashes, limit>>
vars == <<presenceVars, liveVars, task>>

-----------------------------------------------------------------------------
(* Rows, reads and tasks *)

\* media: the host's SFU session, 0 before the first publish.  after: how many
\* broadcasts there were when its start looked for a live one (history, not in
\* the code).
BroadcastRow == [host : Hosts, status : {"live", "ended"}, cloudflare : BOOLEAN,
                 media : Nat, peak : Nat, after : Nat]
\* media: the host's session this viewer pulls, 0 for none.  The row of a join
\* that was overtaken by the end is marked `late` (history, not in the code).
ViewRow == [of : Nat, user : Viewers, open : BOOLEAN,
            media : Nat, late : BOOLEAN]

IsLive(b) == broadcast[b].status = "live"
ActiveBroadcasts(h) ==
    {b \in DOMAIN broadcast : broadcast[b].host = h /\ IsLive(b)}
ActiveViews(b) == {v \in DOMAIN view : view[v].of = b /\ view[v].open}
ActiveViewsOf(b, u) == {v \in ActiveViews(b) : view[v].user = u}
getConcurrentViewerCount(b) == Cardinality(ActiveViews(b))

LiveTask ==
    [at : {"startInsert"}, host : Hosts, after : Nat]
    \cup [at : {"graceSockets", "graceRead"}, host : Hosts]
    \cup [at : {"endRow", "endViews", "createSfu"}, b : Nat]
    \cup [at : {"joinRead", "joinInsert", "joinCount", "joinPeak"},
          b : Nat, user : Viewers, n : Nat]
    \cup [at : {"leave"}, v : Nat]
    \cup [at : {"pushTracks", "saveMedia"}, b : Nat, s : Nat]
    \cup [at : {"viewRow"}, b : Nat, user : Viewers, s : Nat]
    \cup [at : {"pull"}, v : Nat, s : Nat]

Init == PresenceInit /\ broadcast = <<>> /\ view = <<>> /\ sfu = <<>>

-----------------------------------------------------------------------------
(* Starting and ending *)

NewStart(h) == [at |-> "startInsert", host |-> h, after |-> Len(broadcast)]

\* Mutant: a running broadcast is not looked for.
startBroadcastUnchecked(t, h) ==
    /\ Len(broadcast) + Cardinality(Busy({"startInsert"})) < limit.broadcasts
    /\ Start(t, NewStart(h))
    /\ UNCHANGED <<presenceVars, liveVars>>

\* Nothing keeps a second start out until the first has inserted its row.
startBroadcast(t, h) ==
    /\ Len(broadcast) + Cardinality(Busy({"startInsert"})) < limit.broadcasts
    /\ ActiveBroadcasts(h) = {}
    /\ Start(t, NewStart(h))
    /\ UNCHANGED <<presenceVars, liveVars>>

\* The provider is whichever the admin's switch says at that moment.
StartInsert(t) ==
    /\ At(t, "startInsert")
    /\ \E cloudflare \in BOOLEAN : broadcast' = Append(broadcast,
           [host |-> task[t].host, status |-> "live", cloudflare |-> cloudflare,
            media |-> 0, peak |-> 0, after |-> task[t].after])
    /\ Done(t)
    /\ UNCHANGED <<presenceVars, view, sfu>>

\* By the host or an admin: both read the row first.
endBroadcast(t, b) ==
    /\ IsLive(b)
    /\ Start(t, [at |-> "endRow", b |-> b])
    /\ UNCHANGED <<presenceVars, liveVars>>

\* Mutant: viewers are left to leave on their own.
EndRowOnly(t) ==
    /\ At(t, "endRow")
    /\ broadcast' = [broadcast EXCEPT ![task[t].b].status = "ended"]
    /\ Done(t)
    /\ UNCHANGED <<presenceVars, view, sfu>>

EndRow(t) ==
    /\ At(t, "endRow")
    /\ broadcast' = [broadcast EXCEPT ![task[t].b].status = "ended"]
    /\ Step(t, "endViews")
    /\ UNCHANGED <<presenceVars, view, sfu>>

EndViews(t) ==
    /\ At(t, "endViews")
    /\ view' = [v \in DOMAIN view |-> IF v \in ActiveViews(task[t].b)
                    THEN [view[v] EXCEPT !.open = FALSE] ELSE view[v]]
    /\ Done(t)
    /\ UNCHANGED <<presenceVars, broadcast, sfu>>

\* The grace timer of a disconnect fires: checkAbandonedBroadcast.
GraceFires(t, h) ==
    /\ armed[h] > 0
    /\ Start(t, [at |-> "graceSockets", host |-> h])
    /\ armed' = [armed EXCEPT ![h] = @ - 1]
    /\ UNCHANGED <<conn, online, session, crashes, limit, liveVars>>

GraceSockets(t) ==
    /\ At(t, "graceSockets")
    /\ Goto(t, IF isUserConnected(task[t].host) THEN Idle
               ELSE [task[t] EXCEPT !.at = "graceRead"])
    /\ UNCHANGED <<presenceVars, liveVars>>

\* One of the host's live broadcasts, should there be two.
endActiveBroadcastForHostIfAny(t) ==
    /\ At(t, "graceRead")
    /\ \/ \E b \in ActiveBroadcasts(task[t].host) :
              Goto(t, [at |-> "endRow", b |-> b])
       \/ ActiveBroadcasts(task[t].host) = {} /\ Done(t)
    /\ UNCHANGED <<presenceVars, liveVars>>

-----------------------------------------------------------------------------
(* Joining and leaving *)

\* n: the peak as read now, later the count.
joinBroadcast(t, b, u) ==
    /\ IsLive(b)
    /\ Len(view) + Cardinality(Busy({"joinRead", "joinInsert"})) < limit.views
    /\ Start(t, [at |-> "joinRead", b |-> b, user |-> u, n |-> broadcast[b].peak])
    /\ UNCHANGED <<presenceVars, liveVars>>

JoinRead(t) ==
    /\ At(t, "joinRead")
    /\ Goto(t, [task[t] EXCEPT !.at =
           IF ActiveViewsOf(task[t].b, task[t].user) = {} THEN "joinInsert"
           ELSE "joinCount"])
    /\ UNCHANGED <<presenceVars, liveVars>>

JoinInsert(t) ==
    /\ At(t, "joinInsert")
    /\ view' = Append(view, [of |-> task[t].b, user |-> task[t].user,
                   open |-> TRUE, media |-> 0, late |-> ~IsLive(task[t].b)])
    /\ Step(t, "joinCount")
    /\ UNCHANGED <<presenceVars, broadcast, sfu>>

JoinCount(t) ==
    /\ At(t, "joinCount")
    /\ LET n == getConcurrentViewerCount(task[t].b) IN
           Goto(t, IF n > task[t].n
                   THEN [task[t] EXCEPT !.at = "joinPeak", !.n = n] ELSE Idle)
    /\ UNCHANGED <<presenceVars, liveVars>>

JoinPeak(t) ==
    /\ At(t, "joinPeak")
    /\ broadcast' = [broadcast EXCEPT ![task[t].b].peak = task[t].n]
    /\ Done(t)
    /\ UNCHANGED <<presenceVars, view, sfu>>

leaveBroadcast(t, b, u) ==
    /\ \E v \in ActiveViewsOf(b, u) : Start(t, [at |-> "leave", v |-> v])
    /\ UNCHANGED <<presenceVars, liveVars>>

LeaveWrite(t) ==
    /\ At(t, "leave")
    /\ view' = [view EXCEPT ![task[t].v].open = FALSE]
    /\ Done(t)
    /\ UNCHANGED <<presenceVars, broadcast, sfu>>

-----------------------------------------------------------------------------
(* Video over Cloudflare.  Answering a subscription changes no row and is left *)
(* out; the viewer's own SFU session is not told apart from the row.           *)

getLiveCloudflareBroadcast(b) == IsLive(b) /\ broadcast[b].cloudflare

publishBroadcastTracks(t, b) ==
    /\ getLiveCloudflareBroadcast(b)
    /\ Len(sfu) + Cardinality(Busy({"createSfu"})) < limit.sfu
    /\ Start(t, [at |-> "createSfu", b |-> b])
    /\ UNCHANGED <<presenceVars, liveVars>>

\* Mutant: the broadcast's row has the session before the tracks are pushed.
CreateSfuSessionAndSave(t) ==
    /\ At(t, "createSfu")
    /\ sfu' = Append(sfu, "empty")
    /\ broadcast' = [broadcast EXCEPT ![task[t].b].media = Len(sfu')]
    /\ Goto(t, [at |-> "pushTracks", b |-> task[t].b, s |-> Len(sfu')])
    /\ UNCHANGED <<presenceVars, view>>

CreateSfuSession(t) ==
    /\ At(t, "createSfu")
    /\ sfu' = Append(sfu, "empty")
    /\ Goto(t, [at |-> "pushTracks", b |-> task[t].b, s |-> Len(sfu')])
    /\ UNCHANGED <<presenceVars, broadcast, view>>

PushTracks(t) ==
    /\ At(t, "pushTracks")
    /\ sfu' = [sfu EXCEPT ![task[t].s] = "tracks"]
    /\ Step(t, "saveMedia")
    /\ UNCHANGED <<presenceVars, broadcast, view>>

SaveMedia(t) ==
    /\ At(t, "saveMedia")
    /\ broadcast' = [broadcast EXCEPT ![task[t].b].media = task[t].s]
    /\ Done(t)
    /\ UNCHANGED <<presenceVars, view, sfu>>

subscribeViewer(t, b, u) ==
    /\ getLiveCloudflareBroadcast(b)
    /\ broadcast[b].media # 0
    /\ Start(t, [at |-> "viewRow", b |-> b, user |-> u, s |-> broadcast[b].media])
    /\ UNCHANGED <<presenceVars, liveVars>>

SubscribeViewRow(t) ==
    /\ At(t, "viewRow")
    /\ LET rows == ActiveViewsOf(task[t].b, task[t].user) IN
           \/ \E v \in rows : Goto(t, [at |-> "pull", v |-> v, s |-> task[t].s])
           \/ rows = {} /\ Done(t)
    /\ UNCHANGED <<presenceVars, liveVars>>

PullTracks(t) ==
    /\ At(t, "pull")
    /\ view' = [view EXCEPT ![task[t].v].media = task[t].s]
    /\ Done(t)
    /\ UNCHANGED <<presenceVars, broadcast, sfu>>

-----------------------------------------------------------------------------
(* Specification *)

LiveStep(t) ==
    \/ StartInsert(t) \/ EndRow(t) \/ EndViews(t)
    \/ GraceSockets(t) \/ endActiveBroadcastForHostIfAny(t)
    \/ JoinRead(t) \/ JoinInsert(t) \/ JoinCount(t) \/ JoinPeak(t) \/ LeaveWrite(t)
    \/ CreateSfuSession(t) \/ PushTracks(t) \/ SaveMedia(t)
    \/ SubscribeViewRow(t) \/ PullTracks(t)

LiveRequest(t) ==
    \/ \E h \in Hosts : startBroadcast(t, h)
    \/ \E b \in DOMAIN broadcast :
           \/ endBroadcast(t, b) \/ publishBroadcastTracks(t, b)
           \/ \E u \in Viewers : \/ joinBroadcast(t, b, u)
                                 \/ leaveBroadcast(t, b, u)
                                 \/ subscribeViewer(t, b, u)

Next ==
    \/ PresenceNext /\ UNCHANGED liveVars
    \/ \E t \in Tasks : \/ LiveRequest(t) \/ LiveStep(t)
                        \/ \E h \in Hosts : GraceFires(t, h)

Spec == Init /\ [][Next]_vars

\* Handlers in flight go on.  The sweep's interval and the grace timers run for
\* as long as the process does; they compete for a slot here, hence strong
\* fairness, while the server has no such limit.
Fairness ==
    /\ \A t \in Tasks : WF_vars(\/ PresenceStep(t) /\ UNCHANGED liveVars
                                \/ LiveStep(t))
    /\ SF_vars(\E t \in Tasks : SweepStart(t) /\ UNCHANGED liveVars)
    /\ \A h \in Hosts : /\ SF_vars(\E t \in Tasks : GraceFires(t, h))
                        /\ WF_vars(SessionAges(h) /\ UNCHANGED liveVars)

FairSpec == Spec /\ Fairness

-----------------------------------------------------------------------------
(* Properties *)

TypeOK ==
    /\ PresenceTypeOK
    /\ \A t \in Tasks : task[t] \in PresenceTask \/ task[t] \in LiveTask
    /\ \A b \in DOMAIN broadcast : broadcast[b] \in BroadcastRow
    /\ \A v \in DOMAIN view : view[v] \in ViewRow
    /\ \A s \in DOMAIN sfu : sfu[s] \in {"empty", "tracks"}

\* What startBroadcast's check is worth: a host has two live broadcasts only from
\* two starts that crossed, the later one having looked before the earlier row
\* was there.  A start that looks once a broadcast is running never gets through,
\* in whatever order starts, ends, grace checks and restarts come (and all rows
\* keep their types).
SecondStartsRefused ==
    /\ TypeOK
    /\ \A h \in Hosts : \A a, b \in ActiveBroadcasts(h) :
           a < b => broadcast[b].after < a

\* "startBroadcast's one-at-a-time check" (live.service.ts), which refuses a start
\* with "You already have a live broadcast running": a host never has two.  It
\* does not hold: the check and the insert are two calls.
OneAtATime == \A h \in Hosts : Cardinality(ActiveBroadcasts(h)) <= 1

\* endBroadcastById closes the rows of everyone watching: once it is through,
\* only a join that had read the broadcast as live before it ended can be left
\* watching.  A restart between the two updates is the exception.
GoneWithTheBroadcast ==
    \A v \in DOMAIN view :
        view[v].open /\ ~IsLive(view[v].of)
            => \/ view[v].late \/ crashes > 0
               \/ \E t \in Busy({"endViews"}) : task[t].b = view[v].of

\* publishBroadcastTracks tells viewers of a session only when the host's tracks
\* are in it: nobody pulls from an empty one, whatever publishes again meanwhile.
PulledTracksExist ==
    \A v \in DOMAIN view : view[v].media # 0 => sfu[view[v].media] = "tracks"

\* Why the sweep exists: a session left open by a host who is offline or gone,
\* whatever handler or restart left it so, does not stay open for good.
SessionsEndWithPresence ==
    \A h \in Hosts :
        Open(h) # {} /\ ~(isOnline(h) /\ isUserConnected(h))
            ~> Open(h) = {} \/ (isOnline(h) /\ isUserConnected(h))

\* Why checkAbandonedBroadcast exists: a broadcast live while a socket of its
\* host drops does not outlive the grace period, unless the host is back, a
\* restart loses the timer, or starts that crossed left the host with two, of
\* which a check ends one.
Ids == 1..Max({m.broadcasts : m \in Limits})
Dropped(h) == armed[h] > 0 \/ \E t \in Busy({"flag", "sockets"}) : task[t].host = h
Crossed(h) == \E a, b \in DOMAIN broadcast :
    a < b /\ broadcast[a].host = h /\ broadcast[b].host = h /\ broadcast[b].after < a
AbandonedEnds ==
    \A h \in Hosts : \A b \in Ids :
        (b \in ActiveBroadcasts(h) /\ Dropped(h))
            ~> (b \notin ActiveBroadcasts(h) \/ isUserConnected(h)
                    \/ crashes > 0 \/ Crossed(h))

=============================================================================
