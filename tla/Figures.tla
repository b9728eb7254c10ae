------------------------------ MODULE Figures ------------------------------
(***************************************************************************)
(* Figures computed from rows in application code, over inputs chosen at   *)
(* the start: online time of a day (dailyStats.service.ts) and the         *)
(* smallest withdrawal the apps announce (withdrawal.service.ts).          *)
(***************************************************************************)
EXTENDS Integers, Sequences, FiniteSets, FiniteSetsExt, SequencesExt

CONSTANTS
    DaySpan,                    \* instants of the day reported on
    Bounds, SlabRates, Minima,  \* of withdrawal slabs and policies
    MaxActivities, MaxSlabs

ASSUME FigureConstants ==
    /\ DaySpan \in Nat \ {0}
    /\ Bounds \cup SlabRates \cup Minima \subseteq Nat \ {0}
    /\ {MaxActivities, MaxSlabs} \subseteq Nat

VARIABLES
    activities,     \* sessions, calls and broadcasts of a host, as fetched; an
                    \* end of Open is null
    asOf,           \* now while the day lasts, then its end
    slabs,          \* withdrawal_slabs, newest first
    minAmount       \* minAmountPaise of the policy

figureVars == <<activities, asOf, slabs, minAmount>>

Open == -1
NoMax == 0

-----------------------------------------------------------------------------
(* Online time: the day starts at instant 0 *)

Clipped(a) ==
    [start |-> Max({a.start, 0}), end |-> IF a.end = Open THEN asOf ELSE Min({a.end, asOf}),
     open |-> a.end = Open]

\* Mutant: an interval inside the last one cuts it short.
JoinLast(merged, i) == LET last == Len(merged) IN
    IF merged # <<>> /\ i.start <= merged[last].end THEN [merged EXCEPT ![last].end = i.end]
    ELSE Append(merged, i)

Join(merged, i) == LET last == Len(merged) IN
    IF merged = <<>> \/ i.start > merged[last].end THEN Append(merged, i)
    ELSE IF i.end > merged[last].end THEN [merged EXCEPT ![last].end = i.end, ![last].open = i.open]
    ELSE IF i.end = merged[last].end THEN [merged EXCEPT ![last].open = @ \/ i.open]
    ELSE merged

onlineIntervals ==
    LET raw == SelectSeq([k \in DOMAIN activities |-> Clipped(activities[k])],
                         LAMBDA i : i.end > i.start)
        before(a, b) == a.start < b.start
    IN  FoldLeft(Join, <<>>, SortSeq(raw, before))

totalOnline == MapThenSumSet(LAMBDA k : onlineIntervals[k].end - onlineIntervals[k].start,
                             DOMAIN onlineIntervals)

\* asOf === now: the code takes now only if it is before the day's end.
isToday == asOf < DaySpan

\* A session is shown as running if it is open and reaches now; of a day gone by,
\* one still open is shown to end with the day.
Running(i) == i.open /\ isToday /\ i.end = asOf

-----------------------------------------------------------------------------
(* The smallest withdrawal *)

Covers(slab, beans) == slab.min <= beans /\ (slab.max = NoMax \/ beans <= slab.max)
Covering(beans) == {i \in DOMAIN slabs : Covers(slabs[i], beans)}
\* getActiveSlabForBeans: the newest that covers the amount.
slabFor(beans) == slabs[Min(Covering(beans))]

\* What requestWithdrawal accepts of an amount.
Accepts(beans) == Covering(beans) # {} /\ beans * slabFor(beans).rate >= minAmount

Ceiling(a, b) == (a + b - 1) \div b
Candidate(i) == Max({1, slabs[i].min, Ceiling(minAmount, slabs[i].rate)})

\* Mutant: what the newest slab covering them pays is not looked at.
CandidatesOfTheirOwn == {Candidate(i) : i \in {j \in DOMAIN slabs : Covers(slabs[j], Candidate(j))}}

Candidates == {Candidate(i) : i \in
    {j \in DOMAIN slabs : Covers(slabs[j], Candidate(j)) /\ Accepts(Candidate(j))}}

\* None stands for null.
None == 0
getMinimumWithdrawalBeans == IF Candidates = {} THEN None ELSE Min(Candidates)

-----------------------------------------------------------------------------
(* Inputs: rows that overlap the day, in any order and overlapping one another; *)
(* slabs as admins may save them.                                               *)

Activities == [start : -1..(DaySpan - 1), end : {Open} \cup 1..(DaySpan + 1)]
Slabs == [min : Bounds, max : Bounds \cup {NoMax}, rate : SlabRates]

OnlineInputs ==
    /\ activities \in UNION {[1..n -> {a \in Activities : a.end = Open \/ a.start < a.end}] :
                             n \in 0..MaxActivities}
    /\ asOf \in 1..DaySpan
SlabInputs == slabs \in UNION {[1..n -> Slabs] : n \in 0..MaxSlabs} /\ minAmount \in Minima

NoFigures == activities = <<>> /\ asOf = 0 /\ slabs = <<>> /\ minAmount = 1

-----------------------------------------------------------------------------
(* Properties *)

\* Online time is the union of sessions, calls and broadcasts, "merged so nothing
\* is counted twice", in separate stretches; one of today's is shown to go on if
\* and only if a session, call or broadcast does, and it is the last; a day gone
\* by shows none, whatever was left open.
OnlineTimeIsUnion ==
    LET online == {at \in 0..(asOf - 1) : \E k \in DOMAIN activities :
                       Clipped(activities[k]).start <= at /\ at < Clipped(activities[k]).end}
        shown == onlineIntervals
    IN  /\ totalOnline = Cardinality(online)
        /\ \A k \in 1..(Len(shown) - 1) : shown[k].end < shown[k + 1].start
        /\ {k \in DOMAIN shown : Running(shown[k])} =
               IF isToday /\ \E k \in DOMAIN activities :
                                activities[k].end = Open /\ activities[k].start < asOf
               THEN {Len(shown)} ELSE {}

\* The minimum the apps announce is an amount a request would accept, and the
\* least there is, as long as no slabs overlap or the newest of them, saved as one
\* set, cover every amount and hide the older ones.
Amounts == 1..Max(Bounds \cup Minima)
Applying(n, beans) == Cardinality({i \in 1..n : Covers(slabs[i], beans)})
MinimumIsLeast ==
    LET least == getMinimumWithdrawalBeans
        apart == \A beans \in Amounts : Applying(Len(slabs), beans) <= 1
        whole == \E n \in DOMAIN slabs : \A beans \in Amounts : Applying(n, beans) = 1
    IN  /\ least # None => Accepts(least)
        /\ apart \/ whole =>
               \A beans \in Amounts : Accepts(beans) => least # None /\ least <= beans

=============================================================================
