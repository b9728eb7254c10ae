------------------------------ MODULE Reports ------------------------------
(***************************************************************************)
(* What hosts and admins are shown of the books: the host's dashboard,     *)
(* daily report, earnings by source, breakdown, history, level and rewards *)
(* screens (earnings.service.ts, dailyStats.service.ts, levels.ts), the    *)
(* admin dashboard and its insights, and reconciliation.  They read        *)
(* different tables (ledger, ticks, calls, gifts, messages) and change     *)
(* none; this module says where their figures must be the same.  Beans     *)
(* stand for the paise shown, which are beans at the current rate.         *)
(***************************************************************************)
EXTENDS Rewards

CONSTANTS
    MaxSummaryDays,             \* days a report may span
    HistoryLimit                \* rows of a kind the history shows

ASSUME ReportConstants == HistoryLimit \in Nat

\* Days are named by their first instant.
Days == {day \in 0..now : day % DayLength = 0}
DayEnd(day) == day + DayLength

\* Date ranges a report may be asked for: both days included, none to come.
Ranges == {range \in Days \X Days :
    range[1] <= range[2] /\ range[2] < range[1] + MaxSummaryDays * DayLength}

\* Plain dates become instants, the last one up to the end of its day.
resolveRange(range) == [from |-> range[1], to |-> DayEnd(range[2])]

In(at, from, to) == from <= at /\ at < to

-----------------------------------------------------------------------------
(* Of the ledger *)

HOST_EARNING_REFERENCE_TYPES == EarningKinds \cup {"adjustment", "host_reward"}

hostCreditsBetween(h, kinds, from, to) ==
    {i \in Within(HostRows(h, kinds), from, to) : ledger[i].amount >= 0}

sumHostLedgerCredits(h, from, to) ==
    Amount(hostCreditsBetween(h, HOST_EARNING_REFERENCE_TYPES, from, to))

\* The home screen's beans of today: no upper bound.
Today == (now \div DayLength) * DayLength
getHostDashboard(h) == sumHostLedgerCredits(h, Today, now + 1)

sumHostLedgerCreditsByReference(h, kind, from, to) == Amount(hostCreditsBetween(h, {kind}, from, to))

-----------------------------------------------------------------------------
(* The daily report: credits joined to the call or gift they are for *)

CallCredits(h, type, from, to) ==
    Amount({i \in hostCreditsBetween(h, {"call_billing"}, from, to) : calls[ledger[i].ref].type = type})

GiftCredits(h, live, from, to) ==
    Amount({i \in hostCreditsBetween(h, {"gift"}, from, to) : (gift[ledger[i].ref].context = "live") = live})

summarizeDay(h, day) == LET to == DayEnd(day) IN
    [videoCalls |-> CallCredits(h, "video", day, to),
     voiceCalls |-> CallCredits(h, "voice", day, to),
     gifts |-> GiftCredits(h, FALSE, day, to),
     liveStreams |-> GiftCredits(h, TRUE, day, to),
     other |-> Sum(LAMBDA kind : sumHostLedgerCreditsByReference(h, kind, day, to),
                   {"chat_message", "adjustment", "host_reward"})]

totalBeans(report) ==
    report.videoCalls + report.voiceCalls + report.gifts + report.liveStreams + report.other

getHostDailySummary(h, range) ==
    [day \in {d \in Days : In(d, range[1], DayEnd(range[2]))} |-> totalBeans(summarizeDay(h, day))]

\* The same days, added up.
getHostRangeSummary(daily) == Sum(LAMBDA day : daily[day], DOMAIN daily)

-----------------------------------------------------------------------------
(* By source: gifts from their own table *)

\* Mutant: SQL's IN, which is never true of NULL.
GiftContextIn(contexts) == {i \in DOMAIN gift : gift[i].context \in contexts}

\* A gift outside any call, chat or broadcast is with those of calls and chats.
giftContextFilter(contexts) ==
    {i \in DOMAIN gift : \/ gift[i].context \in contexts
                         \/ contexts \cap {"call", "chat"} # {} /\ gift[i].context = "none"}

GiftsTo(h, contexts, from, to) ==
    {i \in giftContextFilter(contexts) : gift[i].host = h /\ In(gift[i].at, from, to)}

sumGiftBeansBySource(h, contexts, from, to) ==
    Sum(LAMBDA i : gift[i].beans, GiftsTo(h, contexts, from, to))

\* The last days of a range by the day; its beans by source.
getHostEarningsSummary(h, from, to) ==
    [days |-> [day \in {d \in Days : In(d, from, to)} |-> sumHostLedgerCredits(h, day, DayEnd(day))],
     calls |-> sumHostLedgerCreditsByReference(h, "call_billing", from, to),
     gifts |-> sumGiftBeansBySource(h, {"call", "chat"}, from, to),
     live |-> sumGiftBeansBySource(h, {"live"}, from, to)]

\* Calls and gifts of the history, over all time: the newest of each, of the same
\* instant the last.  Each gift of a broadcast is in the broadcast's item.
LaterGift(i, j) == gift[i].at > gift[j].at \/ (gift[i].at = gift[j].at /\ i > j)
NewestCalls(rows) == {c \in rows : Cardinality({d \in rows : d > c}) < HistoryLimit}
NewestGifts(rows) == {i \in rows : Cardinality({j \in rows : LaterGift(j, i)}) < HistoryLimit}

CallsOf(h) == {c \in DOMAIN calls : calls[c].host = h}
getHostHistory(h) ==
    {[type |-> "call", id |-> c, beans |-> calls[c].beans] : c \in NewestCalls(CallsOf(h))}
    \cup {[type |-> "gift", id |-> i, beans |-> gift[i].beans] :
           i \in NewestGifts(GiftsTo(h, {"call", "chat"}, 0, now + 1))}

\* The breakdown, in paise, from ticks and gifts with their own commission.
TicksOf(h, type, from, to) ==
    {i \in DOMAIN tick : /\ calls[tick[i].call].host = h /\ calls[tick[i].call].type = type
                         /\ In(tick[i].at, from, to)}

sumCallGrossAndCommission(h, type, from, to) == LET rows == TicksOf(h, type, from, to) IN
    [gross |-> Sum(LAMBDA i : tick[i].amount, rows),
     commission |-> Sum(LAMBDA i : CommissionOn(tick[i].amount, calls[tick[i].call].points), rows)]

sumGiftGrossAndCommission(h, contexts, from, to) == LET rows == GiftsTo(h, contexts, from, to) IN
    [gross |-> Sum(LAMBDA i : gift[i].price, rows),
     commission |-> Sum(LAMBDA i : CommissionOn(gift[i].price, gift[i].points), rows)]

\* Gross less commission; TDS is an estimate for display.
getHostEarningsBreakdown(h, from, to) ==
    LET parts == <<sumCallGrossAndCommission(h, "video", from, to),
                   sumCallGrossAndCommission(h, "voice", from, to),
                   sumGiftGrossAndCommission(h, {"call", "chat"}, from, to),
                   sumGiftGrossAndCommission(h, {"live"}, from, to)>>
    IN  Sum(LAMBDA i : parts[i].gross - parts[i].commission, DOMAIN parts)

-----------------------------------------------------------------------------
(* For admins: revenue of completed calls, gifts and messages, by the day a *)
(* call last moved money                                                    *)

CompletedIn(from, to) ==
    {c \in DOMAIN calls : calls[c].status = "completed" /\ In(calls[c].updated, from, to)}
GiftsIn(from, to) == {i \in DOMAIN gift : In(gift[i].at, from, to)}
PaidMessagesIn(from, to) ==
    {i \in DOMAIN message : message[i].charged > 0 /\ In(message[i].at, from, to)}

RevenueOf(hosts, from, to) ==
    Sum(LAMBDA c : calls[c].total, {c \in CompletedIn(from, to) : calls[c].host \in hosts})
    + Sum(LAMBDA i : gift[i].price, {i \in GiftsIn(from, to) : gift[i].host \in hosts})
    + Sum(LAMBDA i : message[i].charged, {i \in PaidMessagesIn(from, to) : message[i].host \in hosts})

BeansOf(from, to) ==
    Sum(LAMBDA c : calls[c].beans, CompletedIn(from, to))
    + Sum(LAMBDA i : gift[i].beans, GiftsIn(from, to))
    + Sum(LAMBDA i : message[i].beans, PaidMessagesIn(from, to))

\* Here the upper bound is part of the period.
getDashboardStats(from, to) == LET revenue == RevenueOf(Hosts, from, to + 1) IN
    [revenue |-> revenue,
     commission |-> revenue - PaisePerBean * BeansOf(from, to + 1),
     earners |-> [h \in Hosts |-> RevenueOf({h}, from, to + 1)]]

getDashboardInsights(range) ==
    [day \in {d \in Days : In(d, range[1], DayEnd(range[2]))} |-> RevenueOf(Hosts, day, DayEnd(day))]

reconcileUserWallets == {u \in Users :
    balance[u] # Amount({i \in DOMAIN ledger : ledger[i].wallet = "user" /\ ledger[i].owner = u})}
reconcileHostWallets == {h \in Hosts :
    hostWallet[h].beans # Amount({i \in DOMAIN ledger : ledger[i].wallet = "host" /\ ledger[i].owner = h})}

-----------------------------------------------------------------------------
(* The level screen *)

NoMore == 0     \* null
getHostLevelSummary(h) == LET level == Level(h) IN
    [level |-> level,
     toNext |-> IF level = MaxHostLevel THEN NoMore
                ELSE level * BeansPerLevel - hostWallet[h].lifetime,
     unlocked |-> {l \in 1..MaxHostLevel : l <= level},
     required |-> [l \in 1..MaxHostLevel |-> (l - 1) * BeansPerLevel],
     selected |-> pricedLevel(priceLevel[h], level)]

-----------------------------------------------------------------------------
(* Properties *)

UserRows(kinds) == {i \in DOMAIN ledger : ledger[i].wallet = "user" /\ ledger[i].kind \in kinds}
Announcing(h) == {t \in Busy({"announce"}) : task[t].host = h}

\* Reconciliation never finds a drift, whichever sales, corrections, withdrawals
\* and rewards interleave and wherever the process stops; lifetime beans are what
\* was earned and never what was given or returned; and each level reached is told
\* to the host's app once, unless a restart loses the message.
WalletsReconcile ==
    /\ LedgerTypeOK
    /\ reconcileUserWallets = {} /\ reconcileHostWallets = {}
    /\ \A u \in Users : balance[u] >= 0
    /\ \A h \in Hosts :
        LET told == announced[h] + Sum(LAMBDA t : task[t].after - task[t].before, Announcing(h))
        IN  /\ hostWallet[h].beans >= 0
            /\ hostWallet[h].lifetime = Amount(HostRows(h, EarningKinds))
            /\ told <= Level(h) - 1
            /\ crashes = 0 => told = Level(h) - 1

\* No older row of a kind is left out of the history.
HistoryFits(h) == /\ Cardinality(CallsOf(h)) <= HistoryLimit
                  /\ Cardinality(GiftsTo(h, {"call", "chat"}, 0, now + 1)) <= HistoryLimit

\* The host's daily report, home screen, last days and sources show the same beans,
\* though one joins the ledger to calls and gifts and another sums the gifts
\* themselves, and the history, while it has room for all of them, accounts for
\* every call, however it ended, and every gift.
HostReportsAgree == \A h \in Hosts :
    /\ getHostDashboard(h) = totalBeans(summarizeDay(h, Today))
    /\ \A range \in Ranges :
        LET span == resolveRange(range)
            summary == getHostEarningsSummary(h, span.from, span.to)
            daily == getHostDailySummary(h, range)
        IN  /\ daily = summary.days
            /\ getHostRangeSummary(daily) = sumHostLedgerCredits(h, span.from, span.to)
            /\ summary.calls + summary.gifts + summary.live =
                   Amount(hostCreditsBetween(h, {"call_billing", "gift"}, span.from, span.to))
    /\ HistoryFits(h) => Sum(LAMBDA item : item.beans, getHostHistory(h)) =
           Amount(HostRows(h, {"call_billing", "gift"})) - sumGiftBeansBySource(h, {"live"}, 0, now + 1)

\* The level screen says how far the next level is: with the beans it names the
\* host reaches it, with one fewer it does not; what it shows unlocked is what the
\* beans required say, and nobody charges more than that.
LevelScreenAgrees == \A h \in Hosts :
    LET screen == getHostLevelSummary(h) lifetime == hostWallet[h].lifetime IN
    /\ screen.unlocked = {l \in 1..MaxHostLevel : screen.required[l] <= lifetime}
    /\ screen.selected \in screen.unlocked
    /\ getHostEffectivePrices(h) <= pricesForLevel(screen.level)
    /\ screen.toNext # NoMore =>
        /\ levelForLifetimeBeans(lifetime + screen.toNext) = screen.level + 1
        /\ levelForLifetimeBeans(lifetime + screen.toNext - 1) = screen.level

\* "What this host would win if the period ended now" is what settling would pay.
RewardsScreenAgrees == \A period \in Periods, h \in Hosts :
    myRewardBeans(h, period) = RewardOf(h, Winners(period, periodContaining(period, now), active))

\* The breakdown "can never drift from what was actually charged": it is what the
\* same sales credited, up to the fraction of a bean each of them lost.
BreakdownIsPaid == \A h \in Hosts : \A range \in Ranges :
    LET span == resolveRange(range)
        credits == hostCreditsBetween(h, {"call_billing", "gift"}, span.from, span.to)
    IN  getHostEarningsBreakdown(h, span.from, span.to) - PaisePerBean * Amount(credits)
            \in 0..((PaisePerBean - 1) * Cardinality(credits))

\* The admin dashboard's revenue falls short of what users were debited by what
\* calls were billed that are not completed, going on still or marked missed or
\* rejected after they were billed, and by nothing else; the platform's part of it
\* is never negative, and the insights spread the same revenue over the days, "the
\* same rule the dashboard uses", although a billing tick may commit after its
\* call was completed, or a day later.
RevenueIsDebits ==
    LET stats == getDashboardStats(0, MaxNow)
        uncounted == {c \in DOMAIN calls : calls[c].status # "completed"}
    IN  /\ stats.revenue + Sum(LAMBDA c : calls[c].total, uncounted) = -Amount(UserRows(EarningKinds))
        /\ stats.commission >= 0
        /\ stats.revenue = Sum(LAMBDA h : stats.earners[h], Hosts)
        /\ \A range \in Ranges : LET series == getDashboardInsights(range) IN
            Sum(LAMBDA day : series[day], DOMAIN series) =
                getDashboardStats(range[1], DayEnd(range[2]) - 1).revenue

\* No two screens contradict one another, or what was charged.
ReportsAgree ==
    HostReportsAgree /\ BreakdownIsPaid /\ RevenueIsDebits /\ LevelScreenAgrees /\ RewardsScreenAgrees

=============================================================================
