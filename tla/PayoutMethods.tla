--------------------------- MODULE PayoutMethods ---------------------------
(***************************************************************************)
(* A host's payout methods (payoutMethods.service.ts): one of them is      *)
(* primary, the one withdrawals are paid to.  Each request is several      *)
(* database calls, and nothing keeps two requests of a host apart.         *)
(***************************************************************************)
EXTENDS Handlers, SequencesExt

CONSTANTS Methods,          \* ids of methods the host may add
          MaxRestarts       \* bound on restarts

ASSUME PayoutConstants == MaxRestarts \in Nat

VARIABLES method,           \* the host's rows, oldest first
          restarts,
          disturbed,        \* history: since the rows were last right with no
                            \* request in flight, requests crossed or a restart
                            \* cut one short
          deleted           \* history: the host has asked for a deletion

told == <<disturbed, deleted>>
payoutVars == <<method, restarts, told>>

MethodRow == [id : Methods, primary : BOOLEAN]
Ids == {method[i].id : i \in DOMAIN method}
Primaries == {i \in DOMAIN method : method[i].primary}
Primary(id) == [i \in DOMAIN method |->
                   IF method[i].id = id THEN [method[i] EXCEPT !.primary = TRUE]
                   ELSE method[i]]
PayoutInit == method = <<>> /\ restarts = 0 /\ disturbed = FALSE /\ deleted = FALSE

-----------------------------------------------------------------------------
NamesMethod == {"addMethod", "deleteMethod", "promote", "setPrimary"}
Underway == Busy(NamesMethod \cup {"listLeft"})
Right == method = <<>> \/ \E i \in DOMAIN method : Primaries = {i}

\* A request begins, perhaps beside others.
Request(t, to) ==
    /\ Start(t, to)
    /\ disturbed' = (Underway # {} \/ (disturbed /\ ~Right))
    /\ UNCHANGED <<method, restarts>>

\* Ids are new (UUIDs): no row has it, and no request names it.
addPayoutMethod(t, id) ==
    /\ id \notin Ids
    /\ \A u \in Busy(NamesMethod) : task[u].id # id
    /\ Request(t, [at |-> "addMethod", id |-> id, first |-> method = <<>>])
    /\ UNCHANGED deleted

InsertMethod(t) ==
    /\ At(t, "addMethod")
    /\ method' = Append(method, [id |-> task[t].id, primary |-> task[t].first])
    /\ Done(t)
    /\ UNCHANGED <<restarts, told>>

deletePayoutMethod(t, id) ==
    /\ \E i \in DOMAIN method :
           /\ method[i].id = id
           /\ Request(t, [at |-> "deleteMethod", id |-> id, primary |-> method[i].primary])
    /\ deleted' = TRUE

\* The row may be gone; whether another is promoted was settled by the read.
DeleteMethod(t) ==
    /\ At(t, "deleteMethod")
    /\ \/ \E i \in DOMAIN method :
              method[i].id = task[t].id /\ method' = RemoveAt(method, i)
       \/ task[t].id \notin Ids /\ UNCHANGED method
    /\ IF task[t].primary THEN Goto(t, [at |-> "listLeft"]) ELSE Done(t)
    /\ UNCHANGED <<restarts, told>>

\* Mutant: the newest method left is promoted, were there a newer one.
ListLeftSkipsOldest(t) ==
    /\ At(t, "listLeft")
    /\ IF Len(method) < 2 THEN Done(t)
       ELSE Goto(t, [at |-> "promote", id |-> method[2].id])
    /\ UNCHANGED payoutVars

\* The oldest method left is to be promoted.
ListLeft(t) ==
    /\ At(t, "listLeft")
    /\ IF method = <<>> THEN Done(t)
       ELSE Goto(t, [at |-> "promote", id |-> Head(method).id])
    /\ UNCHANGED payoutVars

Promote(t) ==
    /\ At(t, "promote")
    /\ method' = Primary(task[t].id)
    /\ Done(t)
    /\ UNCHANGED <<restarts, told>>

setPrimaryPayoutMethod(t, id) ==
    /\ id \in Ids
    /\ Request(t, [at |-> "setPrimary", id |-> id])
    /\ UNCHANGED deleted

\* One transaction: no method is primary, then this one is, if it still exists.
SetPrimary(t) ==
    /\ At(t, "setPrimary")
    /\ method' = [i \in DOMAIN method |->
                     [method[i] EXCEPT !.primary = method[i].id = task[t].id]]
    /\ Done(t)
    /\ UNCHANGED <<restarts, told>>

PayoutRestart ==
    /\ restarts < MaxRestarts
    /\ restarts' = restarts + 1
    /\ TasksLost
    /\ disturbed' = (disturbed \/ Underway # {})
    /\ UNCHANGED <<method, deleted>>

PayoutRequest == \E t \in Tasks, id \in Methods :
    \/ addPayoutMethod(t, id) \/ deletePayoutMethod(t, id)
    \/ setPrimaryPayoutMethod(t, id)
PayoutStep(t) ==
    \/ InsertMethod(t) \/ DeleteMethod(t) \/ ListLeft(t) \/ Promote(t) \/ SetPrimary(t)
PayoutNext == PayoutRequest \/ PayoutRestart \/ \E t \in Tasks : PayoutStep(t)

PayoutSpec == PayoutInit /\ NoTasks /\ [][PayoutNext]_<<payoutVars, task>>

-----------------------------------------------------------------------------
PayoutTypeOK ==
    /\ \A i \in DOMAIN method : method[i] \in MethodRow
    /\ restarts \in 0..MaxRestarts
    /\ told \in BOOLEAN \X BOOLEAN

\* A withdrawal is paid to the primary method.  Requests that come one after the
\* other never leave a host two primary methods, nor none, except while a deletion
\* promotes the next; and whatever requests cross and restarts cut short, a host
\* who has never deleted a method has a primary one.  (All along, rows keep their
\* types.)
OnePrimary ==
    /\ PayoutTypeOK
    /\ ~disturbed =>
           /\ Cardinality(Primaries) <= 1
           /\ Primaries = {} /\ method # <<>> => Busy({"listLeft", "promote"}) # {}
    /\ ~deleted /\ method # <<>> => Primaries # {}

\* "A host always has exactly one primary method as long as they have at least
\* one method at all" (payoutMethods.service.ts), once requests have been answered
\* and no restart cut one short.  It does not hold: two that cross may leave two,
\* or none.
AlwaysOnePrimary ==
    Quiet /\ restarts = 0 /\ method # <<>> => Cardinality(Primaries) = 1

=============================================================================
