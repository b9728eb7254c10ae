------------------------------ MODULE Rewards ------------------------------
(***************************************************************************)
(* Daily and weekly host rewards (rewards.service.ts): each closed period  *)
(* is ranked by beans earned and paid once, by sweeps that run on every    *)
(* instance, after a grace for transactions that began before the period   *)
(* ended.  Times and rows are HostLedger's.                                *)
(***************************************************************************)
EXTENDS HostLedger

CONSTANTS
    DaysPerWeek,
    Grace,                          \* SETTLE_GRACE_MS, in instants
    DailyLookback, WeeklyLookback,
    Tables,                         \* reward configurations an admin may save
    MaxConfigs                      \* bound on them

\* A transaction ends within the grace: what settling relies on.
ASSUME RewardConstants ==
    /\ {DaysPerWeek, DailyLookback, WeeklyLookback, Grace} \subseteq Nat \ {0}
    /\ MaxConfigs \in Nat
    /\ MaxTransaction <= Grace
    /\ Tables \subseteq [enabled : BOOLEAN, min : Nat, tiers : Seq(Nat)]

VARIABLES
    config,         \* host_reward_configs, oldest first
    settlement,     \* host_reward_settlements with their payouts, and
                    \* which hosts were active then (specification only)
    active          \* hosts whose account is active

rewardVars == <<config, settlement, active>>

Periods == {"daily", "weekly"}
PeriodLength(period) == IF period = "daily" THEN DayLength ELSE DayLength * DaysPerWeek
Lookback(period) == IF period = "daily" THEN DailyLookback ELSE WeeklyLookback
\* The start of the period an instant is in; weeks start on day 0.
periodContaining(period, at) == (at \div PeriodLength(period)) * PeriodLength(period)
End(period, start) == start + PeriodLength(period)

RewardsInit == config = <<>> /\ settlement = {} /\ active = Hosts

-----------------------------------------------------------------------------
(* Configuration and ranking *)

NoRewards == [enabled |-> FALSE, min |-> 0, tiers |-> <<>>]

\* The newest row in force at an instant; none means no rewards.
getRewardConfig(period, at) ==
    LET rows == {i \in DOMAIN config : config[i].period = period /\ config[i].from <= at}
    IN  IF rows = {} THEN NoRewards ELSE config[Max(rows)].table

setRewardConfig(period, table) ==
    /\ Len(config) < MaxConfigs
    /\ config' = Append(config, [period |-> period, table |-> table, from |-> now])
    /\ UNCHANGED <<ledgerVars, settlement, active, task>>

Within(rows, from, to) == {i \in rows : from <= ledger[i].at /\ ledger[i].at < to}
hostBeansInPeriod(h, from, to) == Amount(Within(HostRows(h, EarningKinds), from, to))

\* Qualifying hosts of a set with their ranks: best first, equals by id.
rankHosts(hosts, from, to, min) ==
    LET beans(h) == hostBeansInPeriod(h, from, to)
        better(a, b) == beans(a) > beans(b) \/ (beans(a) = beans(b) /\ a < b)
        qualifying == {h \in hosts : beans(h) >= Max({1, min})}
    IN  {[host |-> h, beans |-> beans(h),
          rank |-> 1 + Cardinality({o \in qualifying : better(o, h)})] : h \in qualifying}

\* Who is paid what for a period: one reward per tier that has a host.
Winners(period, start, hosts) ==
    LET table == getRewardConfig(period, End(period, start))
        ranked == rankHosts(hosts, start, End(period, start), table.min)
        paid == {r \in ranked : table.enabled /\ r.rank <= Len(table.tiers)}
    IN  {[host |-> r.host, rank |-> r.rank, beans |-> r.beans,
          reward |-> table.tiers[r.rank]] : r \in paid}
RewardOf(h, winners) == Sum(LAMBDA w : w.reward, {w \in winners : w.host = h})

-----------------------------------------------------------------------------
(* Settling *)

\* Nothing was earned before the books begin, at instant 0.
Settled(period, start) ==
    start < 0 \/ \E s \in settlement : s.period = period /\ s.start = start

\* creditHostBeans for every winner: balance and ledger, never lifetime beans.
PayWinners(winners) ==
    /\ hostWallet' = [h \in Hosts |-> [hostWallet[h] EXCEPT !.beans = @ + RewardOf(h, winners)]]
    /\ ledger' = ledger \o SetToSeq({Entry("host", w.host, w.reward, "host_reward", 0, now) : w \in winners})

\* The settlement row is unique per period: the second of two instances, which
\* waits for the first to commit, inserts nothing.
settleRewardPeriod(period, start) ==
    IF Settled(period, start) THEN UNCHANGED <<wallets, settlement>>
    ELSE \E winners \in {Winners(period, start, active)} :
         /\ settlement' = settlement \cup
                {[period |-> period, start |-> start, winners |-> winners, active |-> active]}
         /\ PayWinners(winners)
         /\ UNCHANGED balance

\* Mutant: a sweep that begins as soon as the period is over.
SweepWithoutGrace(t) ==
    /\ Start(t, [at |-> "settle", cutoff |-> now, period |-> "daily",
                 start |-> periodContaining("daily", now), left |-> DailyLookback])
    /\ UNCHANGED <<ledgerVars, rewardVars>>

StartSweep(t) ==
    /\ Start(t, [at |-> "settle", cutoff |-> now - Grace, period |-> "daily",
                 start |-> periodContaining("daily", now - Grace), left |-> DailyLookback])
    /\ UNCHANGED <<ledgerVars, rewardVars>>

\* Mutant: a sweep ends at the first period that is settled already.
SettleUntilSettled(t) == LET period == task[t].period
                             previous == periodContaining(period, task[t].start - 1) IN
    /\ At(t, "settle")
    /\ settleRewardPeriod(period, previous)
    /\ IF Settled(period, previous) THEN Done(t)
       ELSE IF task[t].left > 1
       THEN Goto(t, [task[t] EXCEPT !.start = previous, !.left = @ - 1])
       ELSE IF period = "weekly" THEN Done(t)
       ELSE Goto(t, [task[t] EXCEPT !.period = "weekly", !.left = WeeklyLookback,
                                    !.start = periodContaining("weekly", task[t].cutoff)])
    /\ UNCHANGED <<now, terms, sales, crashes, config, active>>

\* Newest period first, days before weeks.
settleClosedRewardPeriods(t) == LET period == task[t].period
                                    previous == periodContaining(period, task[t].start - 1) IN
    /\ At(t, "settle")
    /\ settleRewardPeriod(period, previous)
    /\ IF task[t].left > 1
       THEN Goto(t, [task[t] EXCEPT !.start = previous, !.left = @ - 1])
       ELSE IF period = "weekly" THEN Done(t)
       ELSE Goto(t, [task[t] EXCEPT !.period = "weekly", !.left = WeeklyLookback,
                                    !.start = periodContaining("weekly", task[t].cutoff)])
    /\ UNCHANGED <<now, terms, sales, crashes, config, active>>

\* A host's account is suspended (Accounts); it stays so here.
Suspend(h) ==
    /\ h \in active
    /\ active' = active \ {h}
    /\ UNCHANGED <<ledgerVars, config, settlement, task>>

RewardsNext ==
    \/ UNCHANGED rewardVars /\ LedgerNext
    \/ \E period \in Periods, table \in Tables : setRewardConfig(period, table)
    \/ \E t \in Tasks : StartSweep(t) \/ settleClosedRewardPeriods(t)
    \/ \E h \in Hosts : Suspend(h)
RewardsSpec ==
    LedgerInit /\ RewardsInit /\ NoTasks /\ [][RewardsNext]_<<ledgerVars, rewardVars, task>>

-----------------------------------------------------------------------------
(* What the apps and the admin see of it: listRewardSettlementsForAdmin and  *)
(* listHostRewardPayouts read `settlement`; standings are rankHosts now.     *)

\* getHostRewards: the beans the host would win if the period ended now.
myRewardBeans(h, period) ==
    LET start == periodContaining(period, now)
        table == getRewardConfig(period, now)
        ranked == rankHosts(active, start, End(period, start), table.min)
    IN  Sum(LAMBDA r : table.tiers[r.rank],
            {r \in ranked : table.enabled /\ r.host = h /\ r.rank <= Len(table.tiers)})

-----------------------------------------------------------------------------
(* Properties *)

\* "Settles one closed period exactly once", and "no such row is missed": what a
\* period was ranked by and paid for is what its rows and its configuration say
\* ever after, although transactions that began in it commit after it ended,
\* several instances sweep, and sweeps die halfway; and a host has the rewards of
\* its wins and no others.
RanksAreFinal ==
    /\ \A s \in settlement : s.winners = Winners(s.period, s.start, s.active)
    /\ \A s, z \in settlement : s.period = z.period /\ s.start = z.start => s = z
    /\ \A h \in Hosts : Amount(HostRows(h, {"host_reward"})) =
           Sum(LAMBDA s : RewardOf(h, s.winners), settlement)

\* A closed period is settled, also after a restart in the middle of a sweep,
\* unless the server was down until it fell out of the lookback.
Due(period, start) ==
    /\ start = periodContaining(period, start)
    /\ End(period, start) <= now - Grace
    /\ now - Grace < End(period, start) + Lookback(period) * PeriodLength(period)
\* Of the periods the bounded clock reaches.
CanBeDue == {due \in Periods \X (0..MaxNow) :
    /\ due[2] = periodContaining(due[1], due[2])
    /\ End(due[1], due[2]) <= MaxNow - Grace}
RewardsSettle == \A due \in CanBeDue : LET period == due[1] start == due[2] IN
    Due(period, start) ~> (Settled(period, start) \/ ~Due(period, start))

=============================================================================
