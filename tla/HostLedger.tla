----------------------------- MODULE HostLedger -----------------------------
(***************************************************************************)
(* The books: user and host wallets, the ledger, and the rows every sale   *)
(* writes beside it (billing ticks, gifts, paid messages), as             *)
(* wallet.service.ts keeps them for calls, gifts and chat.  Rows carry the *)
(* time their transaction began, not when it committed.  Levels and prices *)
(* of hosts (levels.ts) follow from lifetime beans.  Time is counted in    *)
(* instants, DayLength of them to an Indian day.                           *)
(***************************************************************************)
EXTENDS Handlers, FiniteSetsExt, Functions, SequencesExt

CONSTANTS
    Users, Hosts,
    InitialBalance,             \* of each user, recharged at instant 0
    TickCost, GiftPrice,        \* in paise
    Commissions,                \* basis points an admin may set, at first the first
    PaisePerBean,
    BeansPerLevel, MaxHostLevel, MessagePrice, LevelStep,   \* levels.ts
    DayLength,
    MaxTransaction,             \* instants a database transaction takes at most
    MaxNow, MaxRows, MaxCalls,  \* bounds: the clock, ledger rows, calls,
    MaxCrashes                  \* restarts

BasisPoints == 0..10000     \* a commission an admin may set
ASSUME LedgerConstants ==
    /\ {InitialBalance, TickCost, GiftPrice, MessagePrice, LevelStep, MaxTransaction,
        MaxNow, MaxRows, MaxCalls, MaxCrashes} \subseteq Nat
    /\ {PaisePerBean, BeansPerLevel, MaxHostLevel, DayLength} \subseteq Nat \ {0}
    /\ Commissions \in Seq(BasisPoints) /\ Commissions # <<>>
    /\ Hosts \subseteq Nat \ {0}     \* ids are ordered

VARIABLES
    now,
    commission,     \* newest commission_configs row of each host and, under 0, of all
    balance,        \* wallets
    hostWallet,     \* host_wallets: beans and lifetime earned beans
    priceLevel,     \* host_profiles.price_level, 0 for null
    announced,      \* levels told to the host's app
    ledger,         \* ledger_entries in the order they committed, amounts signed
    calls, tick, gift, message,     \* the tables of the same names
    crashes

wallets == <<balance, hostWallet, ledger>>
sales == <<calls, tick, gift, message>>
terms == <<commission, priceLevel, announced>>
ledgerVars == <<now, terms, wallets, sales, crashes>>

Sum(op(_), S) == SumFunctionOnSet([x \in S |-> op(x)], S)

-----------------------------------------------------------------------------
(* Rows and levels *)

EarningKinds == {"call_billing", "gift", "chat_message"}
Entry(wallet, owner, amount, kind, ref, at) ==
    [wallet |-> wallet, owner |-> owner, amount |-> amount, kind |-> kind, ref |-> ref, at |-> at]

CommissionOn(price, points) == (price * points) \div 10000
BeansFor(price, points) == (price - CommissionOn(price, points)) \div PaisePerBean

levelForLifetimeBeans(beans) == Min({MaxHostLevel, 1 + beans \div BeansPerLevel})
pricesForLevel(level) == MessagePrice + (level - 1) * LevelStep
pricedLevel(setting, unlocked) == IF setting = 0 THEN unlocked ELSE Min({setting, unlocked})
Level(h) == levelForLifetimeBeans(hostWallet[h].lifetime)
getHostEffectivePrices(h) == pricesForLevel(pricedLevel(priceLevel[h], Level(h)))

NoRate == -1
\* A rate agreed with one host wins over the general one.
getCurrentCommissionBasisPoints(h) ==
    IF commission[h] # NoRate THEN commission[h] ELSE commission[0]

LedgerInit ==
    /\ now = 0
    /\ commission = [h \in Hosts \cup {0} |-> IF h = 0 THEN Head(Commissions) ELSE NoRate]
    /\ balance = [u \in Users |-> InitialBalance]
    /\ hostWallet = [h \in Hosts |-> [beans |-> 0, lifetime |-> 0]]
    /\ priceLevel = [h \in Hosts |-> 0]
    /\ announced = [h \in Hosts |-> 0]
    /\ ledger = SetToSeq({Entry("user", u, InitialBalance, "recharge", 0, 0) : u \in Users})
    /\ calls = <<>> /\ tick = <<>> /\ gift = <<>> /\ message = <<>>
    /\ crashes = 0

\* What is being written counts against the bound, too.
Room == Len(ledger) + 2 * Cardinality(Busy({"transfer"})) < MaxRows

-----------------------------------------------------------------------------
(* Sales: the price is read, a transaction begins, and it commits later *)

Selling(t, kind, u, h, what, price, points) ==
    /\ Room
    /\ Start(t, [at |-> "transfer", kind |-> kind, user |-> u, host |-> h, what |-> what,
                 price |-> price, points |-> points, began |-> now])
    /\ UNCHANGED ledgerVars

\* The rows of calls, for what their status means to the books; CallLifecycle has
\* the rest.
initiateCall(u, h, type) ==
    /\ Len(calls) < MaxCalls
    /\ calls' = Append(calls, [user |-> u, host |-> h, type |-> type, status |-> "ringing",
                               answered |-> FALSE, points |-> getCurrentCommissionBasisPoints(h),
                               total |-> 0, beans |-> 0, updated |-> now])
    /\ UNCHANGED <<now, terms, wallets, tick, gift, message, crashes, task>>

\* Whoever answers or ends a call updates it by id, after a status read before:
\* the call was ringing once, and being billed since does not stop the write.
acceptCall(c) ==
    /\ calls' = [calls EXCEPT ![c].status = "ongoing", ![c].answered = TRUE, ![c].updated = now]
    /\ UNCHANGED <<now, terms, wallets, tick, gift, message, crashes, task>>

\* "missed" of a cancel or an expiry, "rejected", "completed" of an answered call.
EndStatuses == {"missed", "rejected", "completed"}
endCall(c, status) ==
    /\ status = "completed" => calls[c].answered
    /\ calls' = [calls EXCEPT ![c].status = status, ![c].updated = now]
    /\ UNCHANGED <<now, terms, wallets, tick, gift, message, crashes, task>>

\* One tick of a call at a time, see CallLifecycle.
TickInProgress(c) == \E t \in Busy({"transfer"}) : task[t].kind = "call_billing" /\ task[t].what = c

runBillingTick(t, c) ==
    /\ calls[c].status = "ongoing"
    /\ ~TickInProgress(c)
    /\ Selling(t, "call_billing", calls[c].user, calls[c].host, c, TickCost, calls[c].points)

Contexts == {"call", "chat", "live", "none"}
sendGift(t, u, h, context) ==
    Selling(t, "gift", u, h, context, GiftPrice, getCurrentCommissionBasisPoints(h))
sendPaidUserMessage(t, u, h) ==
    Selling(t, "chat_message", u, h, "none", getHostEffectivePrices(h),
            getCurrentCommissionBasisPoints(h))

\* Mutant: the host's credit is not entered.
TransferWithoutCredit(s, beans, ref) ==
    /\ balance' = [balance EXCEPT ![s.user] = @ - s.price]
    /\ hostWallet' = [hostWallet EXCEPT ![s.host].beans = @ + beans, ![s.host].lifetime = @ + beans]
    /\ ledger' = Append(ledger, Entry("user", s.user, -s.price, s.kind, ref, s.began))

transferUserToHost(s, beans, ref) ==
    /\ balance' = [balance EXCEPT ![s.user] = @ - s.price]
    /\ hostWallet' = [hostWallet EXCEPT ![s.host].beans = @ + beans, ![s.host].lifetime = @ + beans]
    /\ ledger' = ledger \o <<Entry("user", s.user, -s.price, s.kind, ref, s.began),
                             Entry("host", s.host, beans, s.kind, ref, s.began)>>

\* The rows of each kind of sale, written in the transfer's transaction.
RecordTick(s, beans) ==
    /\ s.kind = "call_billing"
    /\ tick' = Append(tick, [call |-> s.what, amount |-> s.price, at |-> s.began])
    /\ calls' = [calls EXCEPT ![s.what].total = @ + s.price, ![s.what].beans = @ + beans,
                              ![s.what].updated = now]
    /\ transferUserToHost(s, beans, s.what)
    /\ UNCHANGED <<gift, message>>

RecordGift(s, beans) ==
    /\ s.kind = "gift"
    /\ gift' = Append(gift, [host |-> s.host, context |-> s.what, price |-> s.price,
                             points |-> s.points, beans |-> beans, at |-> s.began])
    /\ transferUserToHost(s, beans, Len(gift) + 1)
    /\ UNCHANGED <<calls, tick, message>>

RecordMessage(s, beans) ==
    /\ s.kind = "chat_message"
    /\ message' = Append(message, [host |-> s.host, charged |-> s.price, beans |-> beans,
                                   at |-> s.began])
    /\ transferUserToHost(s, beans, Len(message) + 1)
    /\ UNCHANGED <<calls, tick, gift>>

SaleCommits(t) == LET s == task[t] beans == BeansFor(s.price, s.points) IN
    /\ At(t, "transfer")
    /\ IF balance[s.user] >= s.price
       THEN /\ RecordTick(s, beans) \/ RecordGift(s, beans) \/ RecordMessage(s, beans)
            /\ LET after == levelForLifetimeBeans(hostWallet[s.host].lifetime + beans) IN
               IF after <= Level(s.host) THEN Done(t)
               ELSE Goto(t, [at |-> "announce", host |-> s.host, before |-> Level(s.host),
                             after |-> after])
       ELSE Done(t) /\ UNCHANGED <<wallets, sales>>
    /\ UNCHANGED <<now, terms, crashes>>

notifyIfLevelledUp(t) ==
    /\ At(t, "announce")
    /\ announced' = [announced EXCEPT ![task[t].host] = @ + task[t].after - task[t].before]
    /\ Done(t)
    /\ UNCHANGED <<now, commission, priceLevel, wallets, sales, crashes>>

-----------------------------------------------------------------------------
(* Terms: commission, and the level whose prices a host charges *)

createCommissionConfig(h, points) ==
    /\ commission[h] # points
    /\ commission' = [commission EXCEPT ![h] = points]
    /\ UNCHANGED <<now, priceLevel, announced, wallets, sales, crashes, task>>

\* null is saved as it is; a level is compared with the one unlocked first.
setHostPriceLevel(t, h, level) ==
    /\ level <= Level(h)
    /\ Start(t, [at |-> "savePriceLevel", host |-> h, level |-> level])
    /\ UNCHANGED ledgerVars

SavePriceLevel(t) ==
    /\ At(t, "savePriceLevel")
    /\ priceLevel' = [priceLevel EXCEPT ![task[t].host] = task[t].level]
    /\ Done(t)
    /\ UNCHANGED <<now, commission, announced, wallets, sales, crashes>>

-----------------------------------------------------------------------------
(* Money in, money out, and corrections *)

creditUserWallet(u, kind) ==
    /\ Room
    /\ balance' = [balance EXCEPT ![u] = @ + 1]
    /\ ledger' = Append(ledger, Entry("user", u, 1, kind, 0, now))
    /\ UNCHANGED <<now, terms, hostWallet, sales, crashes, task>>

\* A refund is a positive adjustment that names a call.
adjustUserWallet(u, amount, kind) ==
    /\ Room
    /\ kind = "refund" => amount > 0 /\ \E c \in DOMAIN calls : calls[c].user = u
    /\ balance[u] + amount >= 0
    /\ balance' = [balance EXCEPT ![u] = @ + amount]
    /\ ledger' = Append(ledger, Entry("user", u, amount, kind, 0, now))
    /\ UNCHANGED <<now, terms, hostWallet, sales, crashes, task>>

\* The two halves of Withdrawal: beans leave with a request, and return.
HostRows(h, kinds) ==
    {i \in DOMAIN ledger : ledger[i].wallet = "host" /\ ledger[i].owner = h /\ ledger[i].kind \in kinds}
Amount(rows) == Sum(LAMBDA i : ledger[i].amount, rows)

debitHostBeans(h) ==
    /\ Room
    /\ hostWallet[h].beans >= 1
    /\ hostWallet' = [hostWallet EXCEPT ![h].beans = @ - 1]
    /\ ledger' = Append(ledger, Entry("host", h, -1, "withdrawal", 0, now))
    /\ UNCHANGED <<now, terms, balance, sales, crashes, task>>

CreditHostBeans(h, beans, kind) ==
    /\ hostWallet' = [hostWallet EXCEPT ![h].beans = @ + beans]
    /\ ledger' = Append(ledger, Entry("host", h, beans, kind, 0, now))

ReturnBeans(h) ==
    /\ Room
    /\ Amount(HostRows(h, {"withdrawal"})) < 0
    /\ CreditHostBeans(h, 1, "withdrawal")
    /\ UNCHANGED <<now, terms, balance, sales, crashes, task>>

-----------------------------------------------------------------------------
(* A database transaction takes MaxTransaction instants at most. *)
Clock ==
    /\ now < MaxNow
    /\ \A t \in Tasks : At(t, "transfer") => now - task[t].began < MaxTransaction
    /\ now' = now + 1
    /\ UNCHANGED <<terms, wallets, sales, crashes, task>>

LedgerRestart ==
    /\ crashes < MaxCrashes
    /\ crashes' = crashes + 1
    /\ TasksLost
    /\ UNCHANGED <<now, terms, wallets, sales>>

LedgerTypeOK ==
    /\ now \in 0..MaxNow /\ crashes \in 0..MaxCrashes
    /\ commission \in [Hosts \cup {0} -> BasisPoints \cup {NoRate}] /\ commission[0] # NoRate
    /\ balance \in [Users -> Int] /\ hostWallet \in [Hosts -> [beans : Int, lifetime : Nat]]
    /\ priceLevel \in [Hosts -> 0..MaxHostLevel]
    /\ announced \in [Hosts -> 0..MaxHostLevel]
    /\ \A i \in DOMAIN ledger : ledger[i].at \in 0..now
    /\ \A i \in DOMAIN tick : tick[i].call \in DOMAIN calls
    /\ \A i \in DOMAIN gift : gift[i].context \in Contexts /\ gift[i].host \in Hosts

SaleStep(t) == SaleCommits(t) \/ notifyIfLevelledUp(t) \/ SavePriceLevel(t)

\* All that moves the books, together; MCReports takes them part by part.
CallTypes == {"voice", "video"}
SaleRequest(t) ==
    \/ \E c \in DOMAIN calls : runBillingTick(t, c)
    \/ \E u \in Users, h \in Hosts : \/ \E context \in Contexts : sendGift(t, u, h, context)
                                    \/ sendPaidUserMessage(t, u, h)
    \/ \E h \in Hosts, level \in 0..MaxHostLevel : setHostPriceLevel(t, h, level)

LedgerRequest ==
    \/ \E t \in Tasks : SaleRequest(t)
    \/ \E u \in Users, h \in Hosts, type \in CallTypes : initiateCall(u, h, type)
    \/ \E c \in DOMAIN calls : acceptCall(c) \/ \E status \in EndStatuses : endCall(c, status)
    \/ \E h \in Hosts \cup {0}, points \in Range(Commissions) : createCommissionConfig(h, points)
    \/ \E u \in Users :
           \/ creditUserWallet(u, "recharge") \/ creditUserWallet(u, "dev_credit")
           \/ \E amount \in Int, kind \in {"adjustment", "refund"} :
                  adjustUserWallet(u, amount, kind)
    \/ \E h \in Hosts : debitHostBeans(h) \/ ReturnBeans(h)

LedgerNext == LedgerRequest \/ (\E t \in Tasks : SaleStep(t)) \/ Clock \/ LedgerRestart

=============================================================================
