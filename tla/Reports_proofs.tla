--------------------------- MODULE Reports_proofs ---------------------------
(***************************************************************************)
(* What holds of the books for any finite number of users and hosts, any   *)
(* prices and commissions and any number of sales and sweeps in flight: no *)
(* wallet drifts from its ledger, every level reached is told once, a      *)
(* settled period stays as it was ranked and paid, and the screens that    *)
(* read the ledger and those that read calls, ticks, gifts and messages    *)
(* show the same figures.  And for any withdrawal slabs, the smallest      *)
(* amount announced is the smallest accepted.                              *)
(***************************************************************************)
EXTENDS Reports, Figures, Sums

-----------------------------------------------------------------------------
(* Entries of a ledger                                                       *)

\* The rows of an owner's wallet, of some kinds, and what they add up to, in any
\* sequence of entries.
RowsIn(book, wallet, owner, kinds) ==
    {i \in DOMAIN book : /\ book[i].wallet = wallet /\ book[i].owner = owner
                         /\ book[i].kind \in kinds}
HeldIn(book, wallet, owner, kinds) ==
    SumFunctionOnSet([i \in DOMAIN book |-> book[i].amount], RowsIn(book, wallet, owner, kinds))

Matches(e, wallet, owner, kinds) == e.wallet = wallet /\ e.owner = owner /\ e.kind \in kinds

EntryKinds == EarningKinds \cup {"recharge", "dev_credit", "adjustment", "refund",
                                 "withdrawal", "host_reward"}
Entries == [wallet : {"user", "host"}, owner : Users \cup Hosts, amount : Int,
            kind : EntryKinds, ref : Nat, at : Nat]

\* A book is another one with more entries behind; of these none is of an owner's
\* wallet and of some kinds, or the k-th is and no other.
Joins(all, book, more) == book \in Seq(Entries) /\ more \in Seq(Entries) /\ all = book \o more
Omits(more, wallet, owner, kinds) ==
    \A k \in DOMAIN more : ~Matches(more[k], wallet, owner, kinds)
OnlyAt(k, more, wallet, owner, kinds) ==
    /\ k \in DOMAIN more
    /\ \A j \in DOMAIN more : Matches(more[j], wallet, owner, kinds) <=> j = k

LEMMA RowsFinite ==
    ASSUME NEW book \in Seq(Entries), NEW wallet, NEW owner, NEW kinds
    PROVE  /\ IsFiniteSet(RowsIn(book, wallet, owner, kinds))
           /\ HeldIn(book, wallet, owner, kinds) \in Int
           /\ \A i \in DOMAIN book : book[i] \in Entries /\ book[i].amount \in Int
           /\ DOMAIN book = 1..Len(book) /\ Len(book) \in Nat
  <1>1. DOMAIN book = 1..Len(book) /\ Len(book) \in Nat
    OBVIOUS
  <1>2. \A i \in DOMAIN book : book[i] \in Entries /\ book[i].amount \in Int
    <2>1. \A i \in DOMAIN book : book[i] \in Entries
      OBVIOUS
    <2> QED BY <2>1 DEF Entries
  <1>3. PICK rows, f : /\ rows = RowsIn(book, wallet, owner, kinds)
                       /\ f = [i \in DOMAIN book |-> book[i].amount]
    OBVIOUS
  <1>4. rows \subseteq 1..Len(book) /\ IsFiniteSet(1..Len(book))
    BY <1>1, <1>3, FS_Interval DEF RowsIn
  <1>5. IsFiniteSet(rows)
    BY <1>4, FS_Subset
  <1>6. \A i \in rows : f[i] \in Int
    BY <1>1, <1>2, <1>3, <1>4
  <1>7. SumFunctionOnSet(f, rows) \in Int
    BY <1>5, <1>6, SumIsInteger
  <1> QED BY <1>1, <1>2, <1>3, <1>5, <1>7 DEF HeldIn

\* Entries put behind others count for the owners they name: none of them, or one.
LEMMA OthersAdded ==
    ASSUME NEW book, NEW more, NEW all, Joins(all, book, more),
           NEW wallet, NEW owner, NEW kinds, Omits(more, wallet, owner, kinds)
    PROVE  HeldIn(all, wallet, owner, kinds) = HeldIn(book, wallet, owner, kinds)
  <1>0. book \in Seq(Entries) /\ more \in Seq(Entries) /\ all = book \o more
    BY DEF Joins
  <1>2. /\ all \in Seq(Entries) /\ Len(book) \in Nat /\ Len(more) \in Nat
        /\ DOMAIN all = 1..(Len(book) + Len(more)) /\ DOMAIN book = 1..Len(book)
        /\ DOMAIN more = 1..Len(more)
        /\ \A i \in 1..Len(book) : all[i] = book[i]
        /\ \A i \in (Len(book) + 1)..(Len(book) + Len(more)) : all[i] = more[i - Len(book)]
    BY <1>0
  <1>3. \A i \in DOMAIN all : i \in DOMAIN book \/ (i - Len(book)) \in DOMAIN more
    BY <1>2
  <1>4. RowsIn(all, wallet, owner, kinds) = RowsIn(book, wallet, owner, kinds)
    BY <1>2, <1>3 DEF RowsIn, Matches, Omits
  <1>5. PICK rows, f, g : /\ rows = RowsIn(book, wallet, owner, kinds)
                          /\ f = [i \in DOMAIN book |-> book[i].amount]
                          /\ g = [i \in DOMAIN all |-> all[i].amount]
    OBVIOUS
  <1>6. IsFiniteSet(rows) /\ \A i \in rows : f[i] = g[i]
    <2>1. IsFiniteSet(rows)
      BY <1>0, <1>5, RowsFinite
    <2>2. rows \subseteq 1..Len(book)
      BY <1>2, <1>5 DEF RowsIn
    <2>3. \A i \in 1..Len(book) : f[i] = book[i].amount /\ g[i] = all[i].amount
      <3>1. \A i \in 1..Len(book) : i \in DOMAIN book /\ i \in DOMAIN all
        BY <1>2
      <3> QED BY <1>5, <3>1
    <2> QED BY <1>2, <2>1, <2>2, <2>3
  <1>7. SumFunctionOnSet(f, rows) = SumFunctionOnSet(g, rows)
    BY <1>6, SameSum
  <1> QED BY <1>4, <1>5, <1>7 DEF HeldIn

LEMMA OneAdded ==
    ASSUME NEW book, NEW more, NEW all, Joins(all, book, more),
           NEW wallet, NEW owner, NEW kinds, NEW k, OnlyAt(k, more, wallet, owner, kinds)
    PROVE  HeldIn(all, wallet, owner, kinds)
               = HeldIn(book, wallet, owner, kinds) + more[k].amount
  <1>0. /\ book \in Seq(Entries) /\ more \in Seq(Entries) /\ all = book \o more
        /\ k \in DOMAIN more
        /\ \A j \in DOMAIN more : Matches(more[j], wallet, owner, kinds) <=> j = k
    BY DEF Joins, OnlyAt
  <1>1. PICK new : new = Len(book) + k
    OBVIOUS
  <1>2. /\ all \in Seq(Entries) /\ Len(book) \in Nat /\ Len(more) \in Nat
        /\ DOMAIN all = 1..(Len(book) + Len(more)) /\ DOMAIN book = 1..Len(book)
        /\ DOMAIN more = 1..Len(more)
        /\ \A i \in 1..Len(book) : all[i] = book[i]
        /\ \A i \in (Len(book) + 1)..(Len(book) + Len(more)) : all[i] = more[i - Len(book)]
    BY <1>0
  <1>3. \A i \in DOMAIN all : i \in DOMAIN book \/ (i - Len(book)) \in DOMAIN more
    BY <1>2
  <1>4. new \in DOMAIN all /\ new \notin DOMAIN book /\ all[new] = more[k]
    BY <1>0, <1>1, <1>2
  <1>5. RowsIn(all, wallet, owner, kinds) = RowsIn(book, wallet, owner, kinds) \cup {new}
    <2>1. ASSUME NEW i \in RowsIn(all, wallet, owner, kinds)
          PROVE  i \in RowsIn(book, wallet, owner, kinds) \cup {new}
      <3>1. i \in DOMAIN all /\ Matches(all[i], wallet, owner, kinds)
        BY DEF RowsIn, Matches
      <3>2. CASE i \in DOMAIN book
        BY <1>2, <3>1, <3>2 DEF RowsIn, Matches
      <3>3. CASE i \notin DOMAIN book
        <4>1. i - Len(book) \in DOMAIN more /\ all[i] = more[i - Len(book)]
          BY <1>2, <1>3, <3>1, <3>3
        <4>2. i - Len(book) = k
          BY <1>0, <3>1, <4>1
        <4> QED BY <1>1, <1>2, <3>1, <4>2
      <3> QED BY <3>2, <3>3
    <2>2. ASSUME NEW i \in RowsIn(book, wallet, owner, kinds)
          PROVE  i \in RowsIn(all, wallet, owner, kinds)
      BY <1>2 DEF RowsIn
    <2>3. new \in RowsIn(all, wallet, owner, kinds)
      BY <1>0, <1>4 DEF RowsIn, Matches
    <2> QED BY <2>1, <2>2, <2>3
  <1>6. PICK rows, f, g : /\ rows = RowsIn(book, wallet, owner, kinds)
                          /\ f = [i \in DOMAIN book |-> book[i].amount]
                          /\ g = [i \in DOMAIN all |-> all[i].amount]
    OBVIOUS
  <1>7. rows \subseteq DOMAIN book
    BY <1>6 DEF RowsIn
  <1>8. /\ IsFiniteSet(rows) /\ \A i \in rows : f[i] = g[i] /\ g[i] \in Int
        /\ new \notin rows /\ g[new] = more[k].amount /\ g[new] \in Int
    <2>1. IsFiniteSet(rows) /\ new \notin rows
      BY <1>0, <1>4, <1>6, <1>7, RowsFinite
    <2>2. \A i \in 1..Len(book) : f[i] = book[i].amount /\ g[i] = all[i].amount
      <3>1. \A i \in 1..Len(book) : i \in DOMAIN book /\ i \in DOMAIN all
        BY <1>2
      <3> QED BY <1>6, <3>1
    <2>3. \A i \in DOMAIN all : all[i] \in Entries /\ all[i].amount \in Int
      <3>1. \A i \in DOMAIN all : all[i] \in Entries
        BY <1>2
      <3> QED BY <3>1 DEF Entries
    <2>4. g[new] = more[k].amount /\ g[new] \in Int
      BY <1>4, <1>6, <2>3
    <2>5. ASSUME NEW i \in rows PROVE f[i] = g[i] /\ g[i] \in Int
      <3>1. i \in 1..Len(book) /\ i \in DOMAIN all
        BY <1>2, <1>7
      <3>2. g[i] = all[i].amount /\ all[i].amount \in Int
        BY <1>6, <2>3, <3>1
      <3> QED BY <1>2, <2>2, <3>1, <3>2
    <2> QED BY <2>1, <2>4, <2>5
  <1>9. SumFunctionOnSet(f, rows) = SumFunctionOnSet(g, rows)
    BY <1>8, SameSum
  <1>10. SumFunctionOnSet(g, rows \cup {new}) = SumFunctionOnSet(g, rows) + g[new]
    BY <1>8, SumWith
  <1> QED BY <1>1, <1>5, <1>6, <1>8, <1>9, <1>10 DEF HeldIn

\* What SetToSeq makes of a finite set lists each of its members once.
Lists(s, S) ==
    /\ s \in Seq(S) /\ \A j \in DOMAIN s : s[j] \in S
    /\ \A x \in S : \E k \in DOMAIN s : \A j \in DOMAIN s : s[j] = x <=> j = k

LEMMA Listed ==
    ASSUME NEW S, IsFiniteSet(S)
    PROVE  Lists(SetToSeq(S), S)
  <1> DEFINE n == Cardinality(S)
             f == SetToSeq(S)
  <1>1. n \in Nat /\ ExistsBijection(1..n, S)
    BY FS_CardinalityType
  <1>2. \E g \in [1..n -> S] : IsInjective(g)
    BY <1>1 DEF ExistsBijection, Bijection, Injection
  <1>3. f \in [1..n -> S] /\ IsInjective(f)
    BY <1>2 DEF SetToSeq
  <1> HIDE DEF f
  <1>4. /\ IsFiniteSet(1..n) /\ Cardinality(1..n) = n
    <2>1. n >= 0 /\ 1 \in Int /\ n \in Int
      BY <1>1
    <2> QED BY <1>1, <2>1, FS_Interval
  <1>5. f \in Injection(1..n, S)
    BY <1>3 DEF Injection
  <1>6. f \in Surjection(1..n, S)
    BY <1>4, <1>5, FS_Injection
  <1>7. DOMAIN f = 1..n /\ f \in Seq(S)
    BY <1>1, <1>3
  <1>8. \A x \in S : \E k \in DOMAIN f : f[k] = x
    BY <1>6, <1>7 DEF Surjection
  <1>9. \A j, k \in DOMAIN f : f[j] = f[k] => j = k
    BY <1>3 DEF IsInjective
  <1>10. \A j \in DOMAIN f : f[j] \in S
    BY <1>3, <1>7
  <1>11. \A x \in S : \E k \in DOMAIN f : \A j \in DOMAIN f : f[j] = x <=> j = k
    BY <1>8, <1>9
  <1> QED BY <1>7, <1>10, <1>11 DEF f, Lists

-----------------------------------------------------------------------------
(* Types                                                                     *)

CallRow == [user : Users, host : Hosts, type : CallTypes,
            status : {"ringing", "ongoing"} \cup EndStatuses, answered : BOOLEAN,
            points : BasisPoints, total : Nat, beans : Nat, updated : Nat]
TickRow == [call : Nat, amount : Nat, at : Nat]
GiftRow == [host : Hosts, context : Contexts, price : Nat, points : BasisPoints, beans : Nat, at : Nat]
MessageRow == [host : Hosts, charged : Nat, beans : Nat, at : Nat]
ConfigRow == [period : Periods, table : Tables, from : Nat]

TermsTyped ==
    /\ commission \in [Hosts \cup {0} -> BasisPoints \cup {NoRate}] /\ commission[0] # NoRate
    /\ priceLevel \in [Hosts -> 0..MaxHostLevel] /\ announced \in [Hosts -> Nat]
WalletsTyped ==
    /\ balance \in [Users -> Nat] /\ hostWallet \in [Hosts -> [beans : Nat, lifetime : Nat]]
    /\ ledger \in Seq(Entries) /\ \A i \in DOMAIN ledger : ledger[i].at <= now
SalesTyped ==
    /\ calls \in Seq(CallRow) /\ gift \in Seq(GiftRow) /\ message \in Seq(MessageRow)
    /\ tick \in Seq(TickRow) /\ \A i \in DOMAIN tick : tick[i].call \in DOMAIN calls
RewardsTyped == config \in Seq(ConfigRow) /\ active \subseteq Hosts
TablesTyped ==
    /\ now \in 0..MaxNow /\ crashes \in 0..MaxCrashes
    /\ TermsTyped /\ WalletsTyped /\ SalesTyped /\ RewardsTyped

SaleTask == [at : {"transfer"}, kind : EarningKinds, user : Users, host : Hosts,
             what : Nat \cup Contexts, price : Nat, points : BasisPoints, began : Nat]
BooksTask ==
    {Idle} \cup SaleTask
    \cup [at : {"announce"}, host : Hosts, before : 1..MaxHostLevel, after : 1..MaxHostLevel]
    \cup [at : {"savePriceLevel"}, host : Hosts, level : 0..MaxHostLevel]
    \cup [at : {"settle"}, cutoff : Int, period : Periods, start : Int, left : Int]

\* What a task knows: its sale began in the past, its call exists; a level reached
\* is above the one before.
Grounded(x) ==
    /\ x.at = "transfer" =>
        /\ x.began <= now
        /\ x.kind = "call_billing" => x.what \in DOMAIN calls
        /\ x.kind = "gift" => x.what \in Contexts
    /\ x.at = "announce" => x.before < x.after

BooksTyped == /\ TablesTyped
              /\ task \in [Tasks -> BooksTask] /\ \A t \in Tasks : Grounded(task[t])

LEMMA BooksTaskKinds ==
    ASSUME NEW x \in BooksTask
    PROVE  /\ x.at = "transfer" => x \in SaleTask
           /\ x.at = "announce"
                => x \in [at : {"announce"}, host : Hosts, before : 1..MaxHostLevel,
                          after : 1..MaxHostLevel]
           /\ x.at = "savePriceLevel"
                => x \in [at : {"savePriceLevel"}, host : Hosts, level : 0..MaxHostLevel]
           /\ x.at = "settle"
                => x \in [at : {"settle"}, cutoff : Int, period : Periods, start : Int, left : Int]
           /\ x.at = "idle" => x = Idle
           /\ x.at \in {"idle", "transfer", "announce", "savePriceLevel", "settle"}
  BY DEF BooksTask, SaleTask, Idle

\* One task moves on, the calls there were stay, and time does not run back.
LEMMA TaskMoves ==
    ASSUME BooksTyped, TablesTyped', NEW t \in Tasks, NEW x \in BooksTask,
           task' = [task EXCEPT ![t] = x], Grounded(x)',
           DOMAIN calls \subseteq DOMAIN calls', now <= now'
    PROVE  BooksTyped'
  <1>1. task' \in [Tasks -> BooksTask]
    BY DEF BooksTyped
  <1>2. ASSUME NEW s \in Tasks PROVE Grounded(task[s])'
    <2>1. CASE s = t
      <3>1. task'[s] = x
        BY <2>1 DEF BooksTyped
      <3> QED BY <3>1 DEF Grounded
    <2>2. CASE s # t
      <3>1. task'[s] = task[s] /\ task[s] \in BooksTask /\ Grounded(task[s])
        BY <2>2 DEF BooksTyped
      <3>2. task[s].at = "transfer" => task[s].began \in Nat
        BY <3>1, BooksTaskKinds DEF SaleTask
      <3>3. now \in Int /\ now' \in Int
        BY LedgerConstants DEF BooksTyped, TablesTyped
      <3> QED BY <3>1, <3>2, <3>3 DEF Grounded
    <2> QED BY <2>1, <2>2
  <1> QED BY <1>1, <1>2 DEF BooksTyped

LEMMA TasksStay ==
    ASSUME BooksTyped, TablesTyped', UNCHANGED task,
           DOMAIN calls \subseteq DOMAIN calls', now <= now'
    PROVE  BooksTyped'
  <1>1. ASSUME NEW s \in Tasks PROVE Grounded(task[s])'
    <2>1. task'[s] = task[s] /\ task[s] \in BooksTask /\ Grounded(task[s])
      BY DEF BooksTyped
    <2>2. task[s].at = "transfer" => task[s].began \in Nat
      BY <2>1, BooksTaskKinds DEF SaleTask
    <2>3. now \in Int /\ now' \in Int
      BY LedgerConstants DEF BooksTyped, TablesTyped
    <2> QED BY <2>1, <2>2, <2>3 DEF Grounded
  <1> QED BY <1>1 DEF BooksTyped

\* Facts of arithmetic behind prices, shares and levels.
LEMMA ConstantTypes ==
    /\ InitialBalance \in Nat /\ TickCost \in Nat /\ GiftPrice \in Nat /\ MessagePrice \in Nat
    /\ LevelStep \in Nat /\ MaxTransaction \in Nat /\ MaxNow \in Nat /\ MaxRows \in Nat
    /\ MaxCalls \in Nat /\ MaxCrashes \in Nat
    /\ PaisePerBean \in Nat \ {0} /\ BeansPerLevel \in Nat \ {0}
    /\ MaxHostLevel \in Nat \ {0} /\ DayLength \in Nat \ {0}
    /\ DaysPerWeek \in Nat \ {0} /\ DailyLookback \in Nat \ {0} /\ WeeklyLookback \in Nat \ {0}
    /\ Grace \in Nat \ {0} /\ MaxTransaction <= Grace
  BY LedgerConstants, RewardConstants

LEMMA ProductNatural ==
    ASSUME NEW a \in Nat, NEW b \in Nat
    PROVE  a * b \in Nat
  OBVIOUS

LEMMA ProductMonotone ==
    ASSUME NEW a \in Nat, NEW b \in Nat, NEW c \in Nat, b <= c
    PROVE  a * b <= a * c
  <1>1. PICK d \in Nat : c = b + d
    <2>1. c - b \in Nat /\ c = b + (c - b)
      OBVIOUS
    <2> QED BY <2>1
  <1>2. a * c = a * b + a * d
    BY <1>1
  <1> QED BY <1>2, ProductNatural

LEMMA QuotientNatural ==
    ASSUME NEW a \in Nat, NEW b \in Nat \ {0}
    PROVE  a \div b \in Nat
  OBVIOUS

Priced(price, points) == price \in Nat /\ points \in BasisPoints

LEMMA BeansNatural ==
    ASSUME NEW price, NEW points, Priced(price, points)
    PROVE  BeansFor(price, points) \in Nat
  <1>0. price \in Nat /\ points \in 0..10000
    BY DEF Priced, BasisPoints
  <1>1. price * points \in Nat /\ price * points <= price * 10000
    <2>1. points \in Nat /\ points <= 10000 /\ 10000 \in Nat
      BY <1>0
    <2> QED BY <1>0, <2>1, ProductNatural, ProductMonotone
  <1>2. CommissionOn(price, points) \in Nat /\ CommissionOn(price, points) <= price
    <2>1. PICK x : x = price * points
      OBVIOUS
    <2>2. x \in Nat /\ x <= price * 10000
      BY <1>1, <2>1
    <2>3. x \div 10000 \in Nat /\ x \div 10000 <= price
      BY <1>0, <2>2
    <2> QED BY <2>1, <2>3 DEF CommissionOn
  <1>3. price - CommissionOn(price, points) \in Nat
    BY <1>0, <1>2
  <1> QED BY <1>3, QuotientNatural, ConstantTypes DEF BeansFor

LEMMA LeastOfTwo ==
    ASSUME NEW a \in Int, NEW b \in Int
    PROVE  Min({a, b}) = IF a <= b THEN a ELSE b
  BY DEF Min

LEMMA LevelsGrow ==
    ASSUME NEW beans \in Nat, NEW more \in Nat
    PROVE  /\ levelForLifetimeBeans(beans) \in 1..MaxHostLevel
           /\ levelForLifetimeBeans(beans) <= levelForLifetimeBeans(beans + more)
  <1>1. PICK a, b : a = beans \div BeansPerLevel /\ b = (beans + more) \div BeansPerLevel
    OBVIOUS
  <1>2. a \in Nat /\ b \in Nat /\ a <= b
    BY <1>1, ConstantTypes
  <1>3. /\ levelForLifetimeBeans(beans) = Min({MaxHostLevel, 1 + a})
        /\ levelForLifetimeBeans(beans + more) = Min({MaxHostLevel, 1 + b})
    BY <1>1 DEF levelForLifetimeBeans
  <1>4. Min({MaxHostLevel, 1 + a}) = (IF MaxHostLevel <= 1 + a THEN MaxHostLevel ELSE 1 + a)
    BY <1>2, LeastOfTwo, ConstantTypes
  <1>5. Min({MaxHostLevel, 1 + b}) = (IF MaxHostLevel <= 1 + b THEN MaxHostLevel ELSE 1 + b)
    BY <1>2, LeastOfTwo, ConstantTypes
  <1> QED BY <1>2, <1>3, <1>4, <1>5, ConstantTypes

LEMMA LevelsTyped ==
    ASSUME TablesTyped, NEW h \in Hosts
    PROVE  Level(h) \in 1..MaxHostLevel /\ getHostEffectivePrices(h) \in Nat
  <1>1. hostWallet[h].lifetime \in Nat /\ priceLevel[h] \in 0..MaxHostLevel
    BY DEF TablesTyped, TermsTyped, WalletsTyped
  <1>2. Level(h) \in 1..MaxHostLevel
    BY <1>1, LevelsGrow DEF Level
  <1>3. PICK level : level = pricedLevel(priceLevel[h], Level(h))
    OBVIOUS
  <1>4. level \in Nat \ {0}
    <2>1. Min({priceLevel[h], Level(h)})
              = (IF priceLevel[h] <= Level(h) THEN priceLevel[h] ELSE Level(h))
      BY <1>1, <1>2, LeastOfTwo, ConstantTypes
    <2> QED BY <1>1, <1>2, <1>3, <2>1, ConstantTypes DEF pricedLevel
  <1>5. (level - 1) * LevelStep \in Nat
    <2>1. level - 1 \in Nat /\ LevelStep \in Nat
      BY <1>4, ConstantTypes
    <2> QED BY <2>1, ProductNatural
  <1>6. MessagePrice + (level - 1) * LevelStep \in Nat
    BY <1>5, ConstantTypes
  <1> QED BY <1>2, <1>3, <1>6 DEF getHostEffectivePrices, pricesForLevel

LEMMA RateTyped ==
    ASSUME TablesTyped, NEW h \in Hosts
    PROVE  getCurrentCommissionBasisPoints(h) \in BasisPoints
  BY DEF TablesTyped, TermsTyped, getCurrentCommissionBasisPoints

-----------------------------------------------------------------------------
(* Rewards: who wins, and what                                               *)

\* The values a function has on a finite set are finitely many.
LEMMA ImageFinite ==
    ASSUME NEW S, IsFiniteSet(S), NEW f
    PROVE  IsFiniteSet({f[x] : x \in S})
  <1> DEFINE T == {f[x] : x \in S}
             g == [x \in S |-> f[x]]
  <1>1. g \in Surjection(S, T)
    BY DEF Surjection
  <1> HIDE DEF g, T
  <1> QED BY <1>1, FS_Surjection DEF T

\* A set of positions in a sequence has a last one.
LEMMA LastIsIn ==
    ASSUME NEW n \in Nat, NEW rows \in SUBSET (1..n), rows # {}
    PROVE  Max(rows) \in rows
  <1> DEFINE From(i) == {j \in 1..n : j >= i}
             B == {From(i) : i \in rows}
  <1>1. PICK T \in B : \A U \in B : U \subseteq T => U = T
    <2>1. B \in SUBSET SUBSET (1..n) /\ B # {}
      OBVIOUS
    <2>2. IsFiniteSet(1..n)
      BY FS_Interval
    <2> HIDE DEF B
    <2>3. PICK S : S = 1..n
      OBVIOUS
    <2>4. IsFiniteSet(S) /\ B \in SUBSET SUBSET S /\ B # {}
      BY <2>1, <2>2, <2>3
    <2>5. \E T \in B : \A U \in B : U \subseteq T => U = T
      BY <2>4, FiniteSubsetsWellFounded
    <2> QED BY <2>5
  <1>2. PICK m \in rows : T = From(m)
    BY <1>1
  <1>3. ASSUME NEW i \in rows PROVE m >= i
    <2> SUFFICES ASSUME i > m PROVE FALSE
      OBVIOUS
    <2>1. From(i) \subseteq From(m) /\ m \in From(m) /\ m \notin From(i) /\ From(i) \in B
      OBVIOUS
    <2> QED BY <1>1, <1>2, <2>1
  <1> QED BY <1>3 DEF Max

TableType == [enabled : BOOLEAN, min : Nat, tiers : Seq(Nat)]

LEMMA ConfigTyped ==
    ASSUME TablesTyped, NEW period, NEW at
    PROVE  getRewardConfig(period, at) \in TableType
  <1> DEFINE rows == {i \in DOMAIN config : config[i].period = period /\ config[i].from <= at}
  <1>1. NoRewards \in TableType
    BY DEF NoRewards, TableType
  <1>2. ASSUME rows # {} PROVE config[Max(rows)].table \in TableType
    <2>1. Len(config) \in Nat /\ DOMAIN config = 1..Len(config)
      BY DEF TablesTyped, RewardsTyped
    <2>2. rows \subseteq 1..Len(config)
      BY <2>1
    <2>3. Max(rows) \in DOMAIN config
      <3> HIDE DEF rows
      <3> QED BY <1>2, <2>1, <2>2, LastIsIn
    <2>4. config[Max(rows)] \in ConfigRow
      BY <2>3 DEF TablesTyped, RewardsTyped
    <2>5. config[Max(rows)].table \in Tables
      <3> HIDE DEF rows
      <3> QED BY <2>4 DEF ConfigRow
    <2> QED BY <2>5, RewardConstants DEF TableType
  <1>3. getRewardConfig(period, at) = IF rows = {} THEN NoRewards ELSE config[Max(rows)].table
    BY DEF getRewardConfig
  <1> HIDE DEF rows
  <1> QED BY <1>1, <1>2, <1>3

\* Every host has one place at most in a ranking.
LEMMA RankingTyped ==
    ASSUME IsFiniteSet(Hosts), NEW hosts \in SUBSET Hosts, NEW from, NEW to, NEW min
    PROVE  /\ IsFiniteSet(rankHosts(hosts, from, to, min))
           /\ \A r \in rankHosts(hosts, from, to, min) : r.host \in hosts /\ r.rank \in Nat \ {0}
           /\ \A r, s \in rankHosts(hosts, from, to, min) : r.host = s.host => r = s
  <1> DEFINE beans(h) == hostBeansInPeriod(h, from, to)
             better(a, b) == beans(a) > beans(b) \/ (beans(a) = beans(b) /\ a < b)
             qualifying == {h \in hosts : beans(h) >= Max({1, min})}
             row(h) == [host |-> h, beans |-> beans(h),
                        rank |-> 1 + Cardinality({o \in qualifying : better(o, h)})]
  <1>1. rankHosts(hosts, from, to, min) = {row(h) : h \in qualifying}
    BY DEF rankHosts
  <1>2. qualifying \subseteq hosts /\ IsFiniteSet(qualifying)
    <2>1. qualifying \subseteq hosts /\ qualifying \subseteq Hosts
      OBVIOUS
    <2> HIDE DEF qualifying
    <2> QED BY <2>1, FS_Subset
  <1>3. IsFiniteSet({row(h) : h \in qualifying})
    <2> HIDE DEF qualifying
    <2>1. PICK f : f = [h \in qualifying |-> row(h)]
      OBVIOUS
    <2>2. {f[h] : h \in qualifying} = {row(h) : h \in qualifying}
      <3> HIDE DEF row
      <3> QED BY <2>1
    <2>3. IsFiniteSet({f[h] : h \in qualifying})
      BY <1>2, ImageFinite
    <2> QED BY <2>2, <2>3
  <1>4. ASSUME NEW h \in qualifying
        PROVE  row(h).host = h /\ row(h).rank \in Nat \ {0}
    <2>1. PICK A : A = {o \in qualifying : better(o, h)}
      OBVIOUS
    <2>2. A \subseteq qualifying
      BY <2>1
    <2>3. Cardinality(A) \in Nat
      <3> HIDE DEF qualifying
      <3> QED BY <1>2, <2>2, FS_Subset, FS_CardinalityType
    <2>4. row(h).rank = 1 + Cardinality(A) /\ row(h).host = h
      BY <2>1
    <2> QED BY <2>3, <2>4
  <1>5. ASSUME NEW r \in {row(h) : h \in qualifying}
        PROVE  r.host \in hosts /\ r.rank \in Nat \ {0} /\ r = row(r.host)
    <2>1. PICK h \in qualifying : r = row(h)
      OBVIOUS
    <2>2. r.host = h /\ r.rank \in Nat \ {0} /\ h \in hosts
      BY <1>2, <1>4, <2>1
    <2> QED BY <2>1, <2>2
  <1> HIDE DEF row, qualifying
  <1> QED BY <1>1, <1>3, <1>5

\* Nobody wins twice, and a reward is a tier of the table.
LEMMA WinnersTyped ==
    ASSUME TablesTyped, IsFiniteSet(Hosts), NEW hosts \in SUBSET Hosts, NEW period, NEW start
    PROVE  /\ IsFiniteSet(Winners(period, start, hosts))
           /\ \A w \in Winners(period, start, hosts) : w.host \in hosts /\ w.reward \in Nat
           /\ \A w, v \in Winners(period, start, hosts) : w.host = v.host => w = v
  <1> DEFINE table == getRewardConfig(period, End(period, start))
             ranked == rankHosts(hosts, start, End(period, start), table.min)
             paid == {r \in ranked : table.enabled /\ r.rank <= Len(table.tiers)}
             win(r) == [host |-> r.host, rank |-> r.rank, beans |-> r.beans,
                        reward |-> table.tiers[r.rank]]
  <1>1. Winners(period, start, hosts) = {win(r) : r \in paid}
    BY DEF Winners
  <1>2. table.tiers \in Seq(Nat)
    BY ConfigTyped DEF TableType
  <1>3. /\ IsFiniteSet(ranked) /\ paid \subseteq ranked
        /\ \A r \in ranked : r.host \in hosts /\ r.rank \in Nat \ {0}
        /\ \A r, s \in ranked : r.host = s.host => r = s
    BY RankingTyped
  <1>4. \A r \in paid : r.rank <= Len(table.tiers) /\ r \in ranked
    OBVIOUS
  <1> HIDE DEF table, ranked, paid
  <1>5. IsFiniteSet(paid)
    BY <1>3, FS_Subset
  <1>6. ASSUME NEW r \in paid
        PROVE  win(r).host = r.host /\ win(r).reward \in Nat /\ r.host \in hosts
    <2>1. r.rank \in 1..Len(table.tiers)
      BY <1>2, <1>3, <1>4
    <2>2. table.tiers[r.rank] \in Nat
      BY <1>2, <2>1
    <2> QED BY <1>3, <1>4, <2>2
  <1>7. IsFiniteSet({win(r) : r \in paid})
    <2> HIDE DEF win
    <2>1. PICK f : f = [r \in paid |-> win(r)]
      OBVIOUS
    <2>2. {f[r] : r \in paid} = {win(r) : r \in paid}
      BY <2>1
    <2>3. IsFiniteSet({f[r] : r \in paid})
      BY <1>5, ImageFinite
    <2> QED BY <2>2, <2>3
  <1> HIDE DEF win
  <1> QED BY <1>1, <1>3, <1>4, <1>6, <1>7

-----------------------------------------------------------------------------
(* Balances                                                                  *)

BalancesOK ==
    /\ \A u \in Users : balance[u] = HeldIn(ledger, "user", u, EntryKinds)
    /\ \A h \in Hosts : /\ hostWallet[h].beans = HeldIn(ledger, "host", h, EntryKinds)
                        /\ hostWallet[h].lifetime = HeldIn(ledger, "host", h, EarningKinds)

LEMMA EntryTyped ==
    ASSUME NEW wallet \in {"user", "host"}, NEW owner \in Users \cup Hosts, NEW amount \in Int,
           NEW kind \in EntryKinds, NEW ref \in Nat, NEW at \in Nat
    PROVE  Entry(wallet, owner, amount, kind, ref, at) \in Entries
  BY DEF Entry, Entries

\* Entries of now or before are put behind the others.
LEMMA BookGrows ==
    ASSUME WalletsTyped, now \in Nat, NEW more \in Seq(Entries),
           \A k \in DOMAIN more : more[k].at <= now, NEW book, book = ledger \o more
    PROVE  book \in Seq(Entries) /\ \A i \in DOMAIN book : book[i].at <= now
  <1>1. /\ book \in Seq(Entries) /\ Len(ledger) \in Nat /\ Len(more) \in Nat
        /\ DOMAIN book = 1..(Len(ledger) + Len(more)) /\ DOMAIN ledger = 1..Len(ledger)
        /\ DOMAIN more = 1..Len(more)
        /\ \A i \in 1..Len(ledger) : book[i] = ledger[i]
        /\ \A i \in (Len(ledger) + 1)..(Len(ledger) + Len(more)) : book[i] = more[i - Len(ledger)]
    BY DEF WalletsTyped
  <1>2. ASSUME NEW i \in DOMAIN book PROVE book[i].at <= now
    <2>1. CASE i \in DOMAIN ledger
      BY <1>1, <2>1 DEF WalletsTyped
    <2>2. CASE i \notin DOMAIN ledger
      <3>1. i - Len(ledger) \in DOMAIN more /\ book[i] = more[i - Len(ledger)]
        BY <1>1, <2>2
      <3> QED BY <3>1
    <2> QED BY <2>1, <2>2
  <1> QED BY <1>1, <1>2

LEMMA AppendedOne ==
    ASSUME NEW S, NEW s \in Seq(S), NEW e \in S
    PROVE  Append(s, e) = s \o <<e>> /\ <<e>> \in Seq(S) /\ DOMAIN <<e>> = {1} /\ <<e>>[1] = e
  OBVIOUS

\* One entry of a user's wallet, with its amount in the balance.
LEMMA UserEntryKeeps ==
    ASSUME WalletsTyped, BalancesOK, now \in Nat, NEW u \in Users, NEW amount \in Int,
           NEW kind \in EntryKinds, balance[u] + amount >= 0,
           balance' = [balance EXCEPT ![u] = @ + amount],
           ledger' = Append(ledger, Entry("user", u, amount, kind, 0, now)),
           UNCHANGED <<hostWallet, now>>
    PROVE  WalletsTyped' /\ BalancesOK'
  <1>1. PICK e, more : e = Entry("user", u, amount, kind, 0, now) /\ more = <<e>>
    OBVIOUS
  <1>2. /\ e \in Entries /\ e.amount = amount /\ e.at = now
        /\ e.wallet = "user" /\ e.owner = u /\ e.kind = kind
    BY <1>1, EntryTyped DEF Entry
  <1>3. /\ ledger' = ledger \o more /\ more \in Seq(Entries) /\ ledger \in Seq(Entries)
        /\ DOMAIN more = {1} /\ more[1] = e
    BY <1>1, <1>2, AppendedOne DEF WalletsTyped
  <1>j. Joins(ledger', ledger, more)
    BY <1>3 DEF Joins
  <1>4. ledger' \in Seq(Entries) /\ \A i \in DOMAIN ledger' : ledger'[i].at <= now
    <2>1. \A k \in DOMAIN more : more[k].at <= now
      BY <1>2, <1>3
    <2> QED BY <1>3, <2>1, BookGrows
  <1>5. balance' \in [Users -> Nat] /\ balance'[u] = balance[u] + amount
        /\ \A v \in Users \ {u} : balance'[v] = balance[v]
    BY DEF WalletsTyped
  <1>6. WalletsTyped'
    BY <1>4, <1>5 DEF WalletsTyped
  <1>7. ASSUME NEW v \in Users PROVE balance'[v] = HeldIn(ledger', "user", v, EntryKinds)
    <2>1. CASE v = u
      <3>1. OnlyAt(1, more, "user", u, EntryKinds)
        BY <1>2, <1>3 DEF Matches, Omits, OnlyAt
      <3>2. HeldIn(ledger', "user", u, EntryKinds) = HeldIn(ledger, "user", u, EntryKinds) + more[1].amount
        BY <1>j, <3>1, OneAdded
      <3> QED BY <1>2, <1>3, <1>5, <2>1, <3>2 DEF BalancesOK
    <2>2. CASE v # u
      <3>1. Omits(more, "user", v, EntryKinds)
        BY <1>2, <1>3, <2>2 DEF Matches, Omits, OnlyAt
      <3>2. HeldIn(ledger', "user", v, EntryKinds) = HeldIn(ledger, "user", v, EntryKinds)
        BY <1>j, <3>1, OthersAdded
      <3> QED BY <1>5, <2>2, <3>2 DEF BalancesOK
    <2> QED BY <2>1, <2>2
  <1>8. ASSUME NEW h \in Hosts, NEW kinds
        PROVE  HeldIn(ledger', "host", h, kinds) = HeldIn(ledger, "host", h, kinds)
    <2>1. Omits(more, "host", h, kinds)
      BY <1>2, <1>3 DEF Matches, Omits, OnlyAt
    <2> QED BY <1>j, <2>1, OthersAdded
  <1> QED BY <1>6, <1>7, <1>8 DEF BalancesOK

\* One entry of a host's wallet that is none of his earnings.
LEMMA HostEntryKeeps ==
    ASSUME WalletsTyped, BalancesOK, now \in Nat, NEW h \in Hosts, NEW amount \in Int,
           NEW kind \in EntryKinds \ EarningKinds, hostWallet[h].beans + amount >= 0,
           hostWallet' = [hostWallet EXCEPT ![h].beans = @ + amount],
           ledger' = Append(ledger, Entry("host", h, amount, kind, 0, now)),
           UNCHANGED <<balance, now>>
    PROVE  /\ WalletsTyped' /\ BalancesOK'
           /\ \A g \in Hosts : hostWallet'[g].lifetime = hostWallet[g].lifetime
  <1>1. PICK e, more : e = Entry("host", h, amount, kind, 0, now) /\ more = <<e>>
    OBVIOUS
  <1>2. /\ e \in Entries /\ e.amount = amount /\ e.at = now
        /\ e.wallet = "host" /\ e.owner = h /\ e.kind = kind
    BY <1>1, EntryTyped DEF Entry
  <1>3. /\ ledger' = ledger \o more /\ more \in Seq(Entries) /\ ledger \in Seq(Entries)
        /\ DOMAIN more = {1} /\ more[1] = e
    BY <1>1, <1>2, AppendedOne DEF WalletsTyped
  <1>j. Joins(ledger', ledger, more)
    BY <1>3 DEF Joins
  <1>4. ledger' \in Seq(Entries) /\ \A i \in DOMAIN ledger' : ledger'[i].at <= now
    <2>1. \A k \in DOMAIN more : more[k].at <= now
      BY <1>2, <1>3
    <2> QED BY <1>3, <2>1, BookGrows
  <1>5. /\ hostWallet' \in [Hosts -> [beans : Nat, lifetime : Nat]]
        /\ hostWallet'[h].beans = hostWallet[h].beans + amount
        /\ \A g \in Hosts : hostWallet'[g].lifetime = hostWallet[g].lifetime
        /\ \A g \in Hosts \ {h} : hostWallet'[g].beans = hostWallet[g].beans
    BY DEF WalletsTyped
  <1>6. WalletsTyped'
    BY <1>4, <1>5 DEF WalletsTyped
  <1>7. ASSUME NEW g \in Hosts PROVE hostWallet'[g].beans = HeldIn(ledger', "host", g, EntryKinds)
    <2>1. CASE g = h
      <3>1. OnlyAt(1, more, "host", h, EntryKinds)
        BY <1>2, <1>3 DEF Matches, Omits, OnlyAt
      <3>2. HeldIn(ledger', "host", h, EntryKinds) = HeldIn(ledger, "host", h, EntryKinds) + more[1].amount
        BY <1>j, <3>1, OneAdded
      <3> QED BY <1>2, <1>3, <1>5, <2>1, <3>2 DEF BalancesOK
    <2>2. CASE g # h
      <3>1. Omits(more, "host", g, EntryKinds)
        BY <1>2, <1>3, <2>2 DEF Matches, Omits, OnlyAt
      <3>2. HeldIn(ledger', "host", g, EntryKinds) = HeldIn(ledger, "host", g, EntryKinds)
        BY <1>j, <3>1, OthersAdded
      <3> QED BY <1>5, <2>2, <3>2 DEF BalancesOK
    <2> QED BY <2>1, <2>2
  <1>8. ASSUME NEW g \in Hosts
        PROVE  HeldIn(ledger', "host", g, EarningKinds) = HeldIn(ledger, "host", g, EarningKinds)
    <2>1. Omits(more, "host", g, EarningKinds)
      BY <1>2, <1>3 DEF Matches, Omits, OnlyAt
    <2> QED BY <1>j, <2>1, OthersAdded
  <1>9. ASSUME NEW u \in Users
        PROVE  HeldIn(ledger', "user", u, EntryKinds) = HeldIn(ledger, "user", u, EntryKinds)
    <2>1. Omits(more, "user", u, EntryKinds)
      BY <1>2, <1>3 DEF Matches, Omits, OnlyAt
    <2> QED BY <1>j, <2>1, OthersAdded
  <1> QED BY <1>5, <1>6, <1>7, <1>8, <1>9 DEF BalancesOK

\* A sale: the price leaves the user's wallet, the beans enter the host's, and
\* two entries say so.
LEMMA TransferKeeps ==
    ASSUME WalletsTyped, BalancesOK, now \in Nat, NEW s \in SaleTask, s.began <= now,
           NEW beans \in Nat, NEW ref \in Nat, balance[s.user] >= s.price,
           transferUserToHost(s, beans, ref), UNCHANGED now
    PROVE  /\ WalletsTyped' /\ BalancesOK'
           /\ hostWallet'[s.host].lifetime = hostWallet[s.host].lifetime + beans
           /\ \A h \in Hosts \ {s.host} : hostWallet'[h].lifetime = hostWallet[h].lifetime
  <1>1. PICK d, c, more : /\ d = Entry("user", s.user, -s.price, s.kind, ref, s.began)
                          /\ c = Entry("host", s.host, beans, s.kind, ref, s.began)
                          /\ more = <<d, c>>
    OBVIOUS
  <1>s. s.user \in Users /\ s.host \in Hosts /\ s.kind \in EarningKinds /\ s.price \in Nat
        /\ s.began \in Nat
    BY DEF SaleTask
  <1>2. EarningKinds \subseteq EntryKinds
    BY DEF EntryKinds
  <1>3. /\ d \in Entries /\ d.amount = -s.price /\ d.at = s.began
        /\ d.wallet = "user" /\ d.owner = s.user /\ d.kind = s.kind
    <2>1. -s.price \in Int
      BY <1>s
    <2> QED BY <1>s, <1>1, <1>2, <2>1, EntryTyped DEF Entry
  <1>4. /\ c \in Entries /\ c.amount = beans /\ c.at = s.began
        /\ c.wallet = "host" /\ c.owner = s.host /\ c.kind = s.kind
    BY <1>s, <1>1, <1>2, EntryTyped DEF Entry
  <1>5. /\ ledger' = ledger \o more /\ more \in Seq(Entries) /\ ledger \in Seq(Entries)
        /\ DOMAIN more = {1, 2} /\ more[1] = d /\ more[2] = c
    BY <1>s, <1>1, <1>3, <1>4 DEF transferUserToHost, WalletsTyped
  <1>j. Joins(ledger', ledger, more)
    BY <1>5 DEF Joins
  <1>6. ledger' \in Seq(Entries) /\ \A i \in DOMAIN ledger' : ledger'[i].at <= now
    <2>1. \A k \in DOMAIN more : more[k].at <= now
      BY <1>3, <1>4, <1>5
    <2> QED BY <1>5, <2>1, BookGrows
  <1>7. /\ balance' \in [Users -> Nat] /\ balance'[s.user] = balance[s.user] - s.price
        /\ \A v \in Users \ {s.user} : balance'[v] = balance[v]
    <2>1. balance \in [Users -> Nat] /\ balance' = [balance EXCEPT ![s.user] = @ - s.price]
      BY DEF WalletsTyped, transferUserToHost
    <2>2. balance[s.user] - s.price \in Nat
      BY <1>s, <2>1
    <2> QED BY <1>s, <2>1, <2>2
  <1>8. /\ hostWallet' \in [Hosts -> [beans : Nat, lifetime : Nat]]
        /\ hostWallet'[s.host].beans = hostWallet[s.host].beans + beans
        /\ hostWallet'[s.host].lifetime = hostWallet[s.host].lifetime + beans
        /\ \A g \in Hosts \ {s.host} : hostWallet'[g] = hostWallet[g]
    <2>1. hostWallet \in [Hosts -> [beans : Nat, lifetime : Nat]]
      BY DEF WalletsTyped
    <2>2. hostWallet' = [hostWallet EXCEPT ![s.host].beans = @ + beans,
                                           ![s.host].lifetime = @ + beans]
      BY DEF transferUserToHost
    <2>3. PICK new : new = [beans |-> hostWallet[s.host].beans + beans,
                            lifetime |-> hostWallet[s.host].lifetime + beans]
      OBVIOUS
    <2>4. new \in [beans : Nat, lifetime : Nat]
      BY <1>s, <2>1, <2>3
    <2>5. /\ DOMAIN hostWallet' = Hosts
          /\ \A g \in Hosts \ {s.host} : hostWallet'[g] = hostWallet[g]
          /\ hostWallet'[s.host]
                 = [[hostWallet[s.host] EXCEPT !.beans = @ + beans] EXCEPT !.lifetime = @ + beans]
      BY <1>s, <2>1, <2>2
    <2>r. hostWallet[s.host] \in [beans : Nat, lifetime : Nat]
      BY <1>s, <2>1
    <2>s. hostWallet'[s.host] = new
      BY <1>s, <2>3, <2>5, <2>r
    <2>6. hostWallet' \in [Hosts -> [beans : Nat, lifetime : Nat]]
      <3>1. hostWallet' = [g \in Hosts |-> hostWallet'[g]]
        BY <2>1, <2>2
      <3>2. \A g \in Hosts : hostWallet'[g] \in [beans : Nat, lifetime : Nat]
        BY <2>1, <2>4, <2>5, <2>s
      <3> QED BY <3>1, <3>2
    <2> QED BY <2>3, <2>5, <2>6, <2>s
  <1>9. WalletsTyped'
    BY <1>6, <1>7, <1>8 DEF WalletsTyped
  <1>10. ASSUME NEW v \in Users PROVE balance'[v] = HeldIn(ledger', "user", v, EntryKinds)
    <2>1. CASE v = s.user
      <3>1. OnlyAt(1, more, "user", v, EntryKinds)
        BY <1>s, <1>2, <1>3, <1>4, <1>5, <2>1 DEF Matches, Omits, OnlyAt
      <3>2. HeldIn(ledger', "user", v, EntryKinds)
                = HeldIn(ledger, "user", v, EntryKinds) + more[1].amount
        BY <1>s, <1>j, <3>1, OneAdded
      <3>3. balance[v] = HeldIn(ledger, "user", v, EntryKinds)
        BY DEF BalancesOK
      <3>4. balance[v] \in Nat /\ more[1].amount = -s.price
        BY <1>3, <1>5 DEF WalletsTyped
      <3> QED BY <1>7, <2>1, <3>2, <3>3, <3>4
    <2>2. CASE v # s.user
      <3>1. Omits(more, "user", v, EntryKinds)
        BY <1>3, <1>4, <1>5, <2>2 DEF Matches, Omits, OnlyAt
      <3>2. HeldIn(ledger', "user", v, EntryKinds) = HeldIn(ledger, "user", v, EntryKinds)
        BY <1>j, <3>1, OthersAdded
      <3> QED BY <1>7, <2>2, <3>2 DEF BalancesOK
    <2> QED BY <2>1, <2>2
  <1>11. ASSUME NEW g \in Hosts, NEW kinds, EarningKinds \subseteq kinds
         PROVE  HeldIn(ledger', "host", g, kinds)
                    = HeldIn(ledger, "host", g, kinds) + IF g = s.host THEN beans ELSE 0
    <2>0. HeldIn(ledger, "host", g, kinds) \in Int
      BY <1>5, RowsFinite
    <2>1. CASE g = s.host
      <3>1. OnlyAt(2, more, "host", g, kinds)
        BY <1>s, <1>11, <1>3, <1>4, <1>5, <2>1 DEF Matches, Omits, OnlyAt
      <3>2. HeldIn(ledger', "host", g, kinds) = HeldIn(ledger, "host", g, kinds) + more[2].amount
        BY <1>s, <1>j, <3>1, OneAdded
      <3> QED BY <1>s, <1>4, <1>5, <2>1, <3>2
    <2>2. CASE g # s.host
      <3>1. Omits(more, "host", g, kinds)
        BY <1>3, <1>4, <1>5, <2>2 DEF Matches, Omits, OnlyAt
      <3>2. HeldIn(ledger', "host", g, kinds) = HeldIn(ledger, "host", g, kinds)
        BY <1>j, <3>1, OthersAdded
      <3> QED BY <2>0, <2>2, <3>2
    <2> QED BY <2>1, <2>2
  <1>12. ASSUME NEW g \in Hosts
         PROVE  /\ hostWallet'[g].beans = HeldIn(ledger', "host", g, EntryKinds)
                /\ hostWallet'[g].lifetime = HeldIn(ledger', "host", g, EarningKinds)
    <2>1. /\ hostWallet[g].beans = HeldIn(ledger, "host", g, EntryKinds)
          /\ hostWallet[g].lifetime = HeldIn(ledger, "host", g, EarningKinds)
      BY DEF BalancesOK
    <2>2. /\ HeldIn(ledger', "host", g, EntryKinds)
                = HeldIn(ledger, "host", g, EntryKinds) + IF g = s.host THEN beans ELSE 0
          /\ HeldIn(ledger', "host", g, EarningKinds)
                = HeldIn(ledger, "host", g, EarningKinds) + IF g = s.host THEN beans ELSE 0
      BY <1>2, <1>11
    <2>3. hostWallet[g].beans \in Nat /\ hostWallet[g].lifetime \in Nat
      BY DEF WalletsTyped
    <2>4. CASE g = s.host
      BY <1>8, <2>1, <2>2, <2>4
    <2>5. CASE g # s.host
      BY <1>8, <2>1, <2>2, <2>3, <2>5
    <2> QED BY <2>4, <2>5
  <1> QED BY <1>8, <1>9, <1>10, <1>12 DEF BalancesOK

\* What a host has of a set of winners is the reward of his one win, or nothing.
LEMMA RewardOfHost ==
    ASSUME NEW winners, \A w, v \in winners : w.host = v.host => w = v,
           \A w \in winners : w.reward \in Nat, NEW h
    PROVE  /\ (\A w \in winners : w.host # h) => RewardOf(h, winners) = 0
           /\ \A w \in winners : w.host = h => RewardOf(h, winners) = w.reward
  <1>1. PICK won, f : /\ won = {w \in winners : w.host = h}
                      /\ f = [w \in won |-> w.reward]
    OBVIOUS
  <1>2. RewardOf(h, winners) = SumFunctionOnSet(f, won)
    BY <1>1 DEF RewardOf, Sum
  <1>3. ASSUME \A w \in winners : w.host # h PROVE RewardOf(h, winners) = 0
    <2>1. won = {}
      BY <1>1, <1>3
    <2> QED BY <1>2, <2>1, SumOfNone
  <1>4. ASSUME NEW w \in winners, w.host = h PROVE RewardOf(h, winners) = w.reward
    <2>1. won = {} \cup {w} /\ f[w] = w.reward /\ f[w] \in Nat
      BY <1>1, <1>4
    <2>2. SumFunctionOnSet(f, {} \cup {w}) = SumFunctionOnSet(f, {}) + f[w]
      BY <2>1, FS_EmptySet, SumWith
    <2> QED BY <1>2, <2>1, <2>2, SumOfNone
  <1> QED BY <1>3, <1>4

RightWinners(winners) ==
    /\ IsFiniteSet(winners)
    /\ \A w \in winners : w.host \in Hosts /\ w.reward \in Nat
    /\ \A w, v \in winners : w.host = v.host => w = v

\* The entries of the winners, in whatever order they are written.
RewardEntry(w, at) == Entry("host", w.host, w.reward, "host_reward", 0, at)

RewardsBooked(more, winners, at) ==
    /\ more \in Seq(Entries)
    /\ \A k \in DOMAIN more : more[k].at = at /\ more[k].wallet = "host"
                              /\ more[k].kind = "host_reward"
    /\ \A k \in DOMAIN more : \E w \in winners : more[k] = RewardEntry(w, at)
    /\ \A w \in winners : \E k \in DOMAIN more :
           \A j \in DOMAIN more : more[j].owner = w.host <=> j = k
    /\ \A w \in winners : \A k \in DOMAIN more :
           more[k].owner = w.host => more[k].amount = w.reward

LEMMA RewardEntries ==
    ASSUME NEW winners, RightWinners(winners), NEW at \in Nat, NEW more,
           more = SetToSeq({Entry("host", w.host, w.reward, "host_reward", 0, at) : w \in winners})
    PROVE  RewardsBooked(more, winners, at)
  <1>1. PICK f, E : /\ f = [w \in winners |-> RewardEntry(w, at)]
                    /\ E = {f[w] : w \in winners}
    OBVIOUS
  <1>2. E = {Entry("host", w.host, w.reward, "host_reward", 0, at) : w \in winners}
    BY <1>1 DEF RewardEntry
  <1>3. IsFiniteSet(E)
    BY <1>1, ImageFinite DEF RightWinners
  <1>4. ASSUME NEW w \in winners
        PROVE  /\ RewardEntry(w, at) \in Entries /\ RewardEntry(w, at) \in E
               /\ RewardEntry(w, at).owner = w.host /\ RewardEntry(w, at).amount = w.reward
               /\ RewardEntry(w, at).at = at /\ RewardEntry(w, at).wallet = "host"
               /\ RewardEntry(w, at).kind = "host_reward"
    <2>1. w.host \in Users \cup Hosts /\ w.reward \in Int /\ "host_reward" \in EntryKinds
      BY DEF RightWinners, EntryKinds
    <2>2. RewardEntry(w, at) \in Entries
      BY <2>1, EntryTyped DEF RewardEntry
    <2> QED BY <1>1, <2>2 DEF RewardEntry, Entry
  <1>5. more = SetToSeq(E)
    BY <1>2
  <1>6. /\ more \in Seq(E)
        /\ \A x \in E : \E k \in DOMAIN more : \A j \in DOMAIN more : more[j] = x <=> j = k
        /\ \A j \in DOMAIN more : more[j] \in E
    <2>1. Lists(more, E)
      BY <1>3, <1>5, Listed
    <2> QED BY <2>1 DEF Lists
  <1>7. ASSUME NEW k \in DOMAIN more
        PROVE  \E w \in winners : more[k] = RewardEntry(w, at)
    <2>1. more[k] \in E
      BY <1>6
    <2>2. PICK w \in winners : more[k] = f[w]
      BY <1>1, <2>1
    <2> QED BY <1>1, <2>2
  <1>8. E \subseteq Entries
    BY <1>1, <1>4
  <1>9. more \in Seq(Entries)
    BY <1>6, <1>8
  <1>10. ASSUME NEW w \in winners
         PROVE  \E k \in DOMAIN more : \A j \in DOMAIN more : more[j].owner = w.host <=> j = k
    <2>1. PICK k \in DOMAIN more : \A j \in DOMAIN more : more[j] = RewardEntry(w, at) <=> j = k
      BY <1>4, <1>6
    <2>2. ASSUME NEW j \in DOMAIN more, more[j].owner = w.host PROVE more[j] = RewardEntry(w, at)
      <3>1. PICK v \in winners : more[j] = RewardEntry(v, at)
        BY <1>7
      <3>2. v.host = w.host
        BY <1>4, <2>2, <3>1
      <3> QED BY <3>1, <3>2 DEF RightWinners
    <2>3. ASSUME NEW j \in DOMAIN more, more[j] = RewardEntry(w, at) PROVE more[j].owner = w.host
      BY <1>4, <2>3
    <2> QED BY <2>1, <2>2, <2>3
  <1>11. ASSUME NEW w \in winners, NEW k \in DOMAIN more, more[k].owner = w.host
         PROVE  more[k].amount = w.reward
    <2>1. PICK v \in winners : more[k] = RewardEntry(v, at)
      BY <1>7
    <2>2. v.host = w.host
      BY <1>4, <1>11, <2>1
    <2>3. v = w
      BY <2>2 DEF RightWinners
    <2> QED BY <1>4, <2>1, <2>3
  <1>12. \A k \in DOMAIN more : /\ more[k].at = at /\ more[k].wallet = "host"
                                /\ more[k].kind = "host_reward"
    BY <1>4, <1>7
  <1> QED BY <1>7, <1>9, <1>10, <1>11, <1>12 DEF RewardsBooked

LEMMA RewardsJoin ==
    ASSUME ledger \in Seq(Entries), now \in Nat, NEW winners, RightWinners(winners),
           PayWinners(winners)
    PROVE  \E more : Joins(ledger', ledger, more) /\ RewardsBooked(more, winners, now)
  <1>1. PICK more : more = SetToSeq({Entry("host", w.host, w.reward, "host_reward", 0, now) :
                                     w \in winners})
    OBVIOUS
  <1>2. RewardsBooked(more, winners, now)
    BY <1>1, RewardEntries
  <1>3. ledger' = ledger \o more
    BY <1>1 DEF PayWinners
  <1>4. more \in Seq(Entries)
    BY <1>2 DEF RewardsBooked
  <1>5. Joins(ledger', ledger, more)
    BY <1>3, <1>4 DEF Joins
  <1> QED BY <1>2, <1>5

\* A host's rewards are in the ledger, whichever kinds are asked for with them.
LEMMA RewardsHeld ==
    ASSUME ledger \in Seq(Entries), NEW winners, RightWinners(winners), NEW more, NEW at,
           Joins(ledger', ledger, more), RewardsBooked(more, winners, at),
           NEW h, NEW kinds, "host_reward" \in kinds
    PROVE  /\ RewardOf(h, winners) \in Nat
           /\ HeldIn(ledger', "host", h, kinds)
                  = HeldIn(ledger, "host", h, kinds) + RewardOf(h, winners)
  <1>1. /\ \A k \in DOMAIN more : more[k].wallet = "host" /\ more[k].kind = "host_reward"
        /\ \A k \in DOMAIN more : \E w \in winners : more[k] = RewardEntry(w, at)
        /\ \A w \in winners : \E k \in DOMAIN more :
               \A j \in DOMAIN more : more[j].owner = w.host <=> j = k
        /\ \A w \in winners : \A k \in DOMAIN more :
               more[k].owner = w.host => more[k].amount = w.reward
    BY DEF RewardsBooked
  <1>2. /\ (\A w \in winners : w.host # h) => RewardOf(h, winners) = 0
        /\ \A w \in winners : w.host = h => RewardOf(h, winners) = w.reward
    BY RewardOfHost DEF RightWinners
  <1>3. HeldIn(ledger, "host", h, kinds) \in Int
    BY RowsFinite
  <1>4. CASE \A w \in winners : w.host # h
    <2>1. \A k \in DOMAIN more : more[k].owner # h
      BY <1>1, <1>4 DEF RewardEntry, Entry
    <2>2. Omits(more, "host", h, kinds)
      BY <2>1 DEF Omits, Matches
    <2>3. HeldIn(ledger', "host", h, kinds) = HeldIn(ledger, "host", h, kinds)
      BY <2>2, OthersAdded
    <2> QED BY <1>2, <1>3, <1>4, <2>3
  <1>5. CASE \E w \in winners : w.host = h
    <2>1. PICK w \in winners : w.host = h
      BY <1>5
    <2>2. PICK k \in DOMAIN more : \A j \in DOMAIN more : more[j].owner = h <=> j = k
      BY <1>1, <2>1
    <2>3. OnlyAt(k, more, "host", h, kinds)
      BY <1>1, <2>2 DEF OnlyAt, Matches
    <2>4. HeldIn(ledger', "host", h, kinds) = HeldIn(ledger, "host", h, kinds) + more[k].amount
      BY <2>3, OneAdded
    <2>5. more[k].amount = w.reward /\ w.reward \in Nat /\ RewardOf(h, winners) = w.reward
      BY <1>1, <1>2, <2>1, <2>2 DEF RightWinners
    <2> QED BY <2>4, <2>5
  <1> QED BY <1>4, <1>5

LEMMA PayWinnersKeeps ==
    ASSUME WalletsTyped, BalancesOK, now \in Nat, NEW winners, RightWinners(winners),
           PayWinners(winners), UNCHANGED <<balance, now>>
    PROVE  /\ WalletsTyped' /\ BalancesOK'
           /\ \A h \in Hosts : hostWallet'[h].lifetime = hostWallet[h].lifetime
  <1>1. PICK more : Joins(ledger', ledger, more) /\ RewardsBooked(more, winners, now)
    BY RewardsJoin DEF WalletsTyped
  <1>2. more \in Seq(Entries) /\ ledger' = ledger \o more /\ ledger \in Seq(Entries)
        /\ \A k \in DOMAIN more : more[k].at = now /\ more[k].wallet = "host"
                                  /\ more[k].kind = "host_reward"
    BY <1>1 DEF Joins, RewardsBooked
  <1>m. "host_reward" \in EntryKinds
    BY DEF EntryKinds
  <1>5. ledger' \in Seq(Entries) /\ \A i \in DOMAIN ledger' : ledger'[i].at <= now
    <2>1. \A k \in DOMAIN more : more[k].at <= now
      BY <1>2
    <2> QED BY <1>2, <2>1, BookGrows
  <1>6. ASSUME NEW h \in Hosts
        PROVE  /\ hostWallet'[h] = [hostWallet[h] EXCEPT !.beans = @ + RewardOf(h, winners)]
               /\ hostWallet'[h].lifetime = hostWallet[h].lifetime
               /\ hostWallet'[h].beans = hostWallet[h].beans + RewardOf(h, winners)
               /\ RewardOf(h, winners) \in Nat
               /\ HeldIn(ledger', "host", h, EntryKinds)
                    = HeldIn(ledger, "host", h, EntryKinds) + RewardOf(h, winners)
    <2>1. hostWallet[h] \in [beans : Nat, lifetime : Nat]
      BY DEF WalletsTyped
    <2>2. hostWallet'[h] = [hostWallet[h] EXCEPT !.beans = @ + RewardOf(h, winners)]
      BY DEF PayWinners
    <2>3. RewardOf(h, winners) \in Nat
      BY <1>1, <1>m, RewardsHeld DEF WalletsTyped
    <2>4. HeldIn(ledger', "host", h, EntryKinds)
              = HeldIn(ledger, "host", h, EntryKinds) + RewardOf(h, winners)
      BY <1>1, <1>2, <1>m, RewardsHeld
    <2> QED BY <2>1, <2>2, <2>3, <2>4
  <1>7. hostWallet' \in [Hosts -> [beans : Nat, lifetime : Nat]]
    <2>1. \A h \in Hosts : hostWallet[h] \in [beans : Nat, lifetime : Nat]
      BY DEF WalletsTyped
    <2>2. \A h \in Hosts : [hostWallet[h] EXCEPT !.beans = @ + RewardOf(h, winners)]
                                \in [beans : Nat, lifetime : Nat]
      BY <1>6, <2>1
    <2> QED BY <2>2 DEF PayWinners
  <1>8. ASSUME NEW u \in Users
        PROVE  HeldIn(ledger', "user", u, EntryKinds) = HeldIn(ledger, "user", u, EntryKinds)
    <2>1. Omits(more, "user", u, EntryKinds)
      BY <1>2 DEF Omits, Matches
    <2> QED BY <1>1, <2>1, OthersAdded
  <1>9. ASSUME NEW h \in Hosts
        PROVE  HeldIn(ledger', "host", h, EarningKinds) = HeldIn(ledger, "host", h, EarningKinds)
    <2>1. Omits(more, "host", h, EarningKinds)
      BY <1>2 DEF Omits, Matches, EarningKinds
    <2> QED BY <1>1, <2>1, OthersAdded
  <1>10. WalletsTyped'
    BY <1>5, <1>7 DEF WalletsTyped
  <1> QED BY <1>6, <1>8, <1>9, <1>10 DEF BalancesOK

\* At first the ledger has each user's first recharge and no more.
LEMMA InitBalances ==
    ASSUME IsFiniteSet(Users), LedgerInit
    PROVE  /\ WalletsTyped /\ BalancesOK
           /\ \A h \in Hosts : HeldIn(ledger, "host", h, {"host_reward"}) = 0
           /\ \A i \in DOMAIN ledger : ledger[i].wallet = "user" /\ ledger[i].kind = "recharge"
  <1>1. PICK f, E : /\ f = [u \in Users |-> Entry("user", u, InitialBalance, "recharge", 0, 0)]
                    /\ E = {f[u] : u \in Users}
    OBVIOUS
  <1>2. IsFiniteSet(E) /\ ledger = SetToSeq(E)
    <2>1. E = {Entry("user", u, InitialBalance, "recharge", 0, 0) : u \in Users}
      BY <1>1
    <2>2. IsFiniteSet(E)
      BY <1>1, ImageFinite
    <2> QED BY <2>1, <2>2 DEF LedgerInit
  <1>3. ASSUME NEW u \in Users
        PROVE  /\ f[u] \in Entries /\ f[u] \in E /\ f[u].wallet = "user" /\ f[u].owner = u
               /\ f[u].amount = InitialBalance /\ f[u].kind = "recharge" /\ f[u].at = 0
    <2>1. "recharge" \in EntryKinds /\ InitialBalance \in Int
      BY ConstantTypes DEF EntryKinds
    <2>2. Entry("user", u, InitialBalance, "recharge", 0, 0) \in Entries
      BY <2>1, EntryTyped
    <2> QED BY <1>1, <2>2 DEF Entry
  <1>4. /\ ledger \in Seq(E)
        /\ \A x \in E : \E k \in DOMAIN ledger : \A j \in DOMAIN ledger : ledger[j] = x <=> j = k
        /\ \A j \in DOMAIN ledger : ledger[j] \in E
    <2>1. Lists(ledger, E)
      BY <1>2, Listed
    <2> QED BY <2>1 DEF Lists
  <1>5. ledger \in Seq(Entries)
    <2>1. E \subseteq Entries
      BY <1>1, <1>3
    <2> QED BY <1>4, <2>1
  <1>6. Joins(ledger, <<>>, ledger)
    <2>1. <<>> \in Seq(Entries) /\ <<>> \o ledger = ledger
      BY <1>5
    <2> QED BY <1>5, <2>1 DEF Joins
  <1>7. ASSUME NEW wallet, NEW owner, NEW kinds
        PROVE  HeldIn(<<>>, wallet, owner, kinds) = 0
    <2>1. RowsIn(<<>>, wallet, owner, kinds) = {}
      BY DEF RowsIn
    <2> QED BY <2>1, SumOfNone DEF HeldIn
  <1>8. \A j \in DOMAIN ledger : \E u \in Users : ledger[j] = f[u]
    BY <1>1, <1>4
  <1>9. ASSUME NEW u \in Users PROVE balance[u] = HeldIn(ledger, "user", u, EntryKinds)
    <2>1. PICK k \in DOMAIN ledger : \A j \in DOMAIN ledger : ledger[j] = f[u] <=> j = k
      BY <1>3, <1>4
    <2>2. \A j \in DOMAIN ledger : ledger[j].owner = u <=> ledger[j] = f[u]
      BY <1>3, <1>8
    <2>3. OnlyAt(k, ledger, "user", u, EntryKinds)
      BY <1>3, <1>8, <2>1, <2>2 DEF OnlyAt, Matches, EntryKinds
    <2>4. HeldIn(ledger, "user", u, EntryKinds)
              = HeldIn(<<>>, "user", u, EntryKinds) + ledger[k].amount
      BY <1>6, <2>3, OneAdded
    <2>5. ledger[k].amount = InitialBalance /\ HeldIn(<<>>, "user", u, EntryKinds) = 0
      BY <1>3, <1>7, <2>1
    <2> QED BY <2>4, <2>5, ConstantTypes DEF LedgerInit
  <1>10. ASSUME NEW h \in Hosts, NEW kinds PROVE HeldIn(ledger, "host", h, kinds) = 0
    <2>1. Omits(ledger, "host", h, kinds)
      BY <1>3, <1>8 DEF Omits, Matches
    <2> QED BY <1>6, <1>7, <2>1, OthersAdded
  <1>11. hostWallet = [h \in Hosts |-> [beans |-> 0, lifetime |-> 0]] /\ now = 0
         /\ balance = [u \in Users |-> InitialBalance]
    BY DEF LedgerInit
  <1>12. WalletsTyped
    <2>1. \A i \in DOMAIN ledger : ledger[i].at <= now
      BY <1>3, <1>8, <1>11
    <2> QED BY <1>5, <1>11, <2>1, ConstantTypes DEF WalletsTyped
  <1>13. \A i \in DOMAIN ledger : ledger[i].wallet = "user" /\ ledger[i].kind = "recharge"
    BY <1>3, <1>8
  <1> QED BY <1>9, <1>10, <1>11, <1>12, <1>13 DEF BalancesOK

-----------------------------------------------------------------------------
(* Levels told                                                               *)

\* What a task will add to the levels told to a host, and what all will.
GainOf(x, h) == IF x.at = "announce" /\ x.host = h THEN x.after - x.before ELSE 0
Pending(h) == SumFunctionOnSet([t \in Tasks |-> GainOf(task[t], h)], Announcing(h))

LevelsTold == \A h \in Hosts :
    /\ IsFiniteSet(Announcing(h))
    /\ announced[h] + Pending(h) <= Level(h) - 1
    /\ crashes = 0 => announced[h] + Pending(h) = Level(h) - 1

LEMMA GainTyped ==
    ASSUME NEW x \in BooksTask, NEW h
    PROVE  GainOf(x, h) \in Int
  <1>1. x.at = "announce" => x.after \in Int /\ x.before \in Int
    BY BooksTaskKinds, ConstantTypes
  <1> QED BY <1>1 DEF GainOf

\* One task moves on: its part in what is pending goes, and the new one comes.
LEMMA PendingMoves ==
    ASSUME task \in [Tasks -> BooksTask], NEW t \in Tasks, NEW x \in BooksTask,
           task' = [task EXCEPT ![t] = x], NEW h, IsFiniteSet(Announcing(h))
    PROVE  /\ IsFiniteSet(Announcing(h)')
           /\ Pending(h) \in Int
           /\ Pending(h)' = Pending(h) - GainOf(task[t], h) + GainOf(x, h)
  <1>1. PICK A, B, rest, f, g : /\ A = Announcing(h) /\ B = Announcing(h)' /\ rest = A \ {t}
                                /\ f = [s \in Tasks |-> GainOf(task[s], h)]
                                /\ g = [s \in Tasks |-> GainOf(task'[s], h)]
    OBVIOUS
  <1>2. task'[t] = x /\ \A s \in Tasks \ {t} : task'[s] = task[s]
    OBVIOUS
  <1>3. /\ A = {s \in Tasks : task[s].at = "announce" /\ task[s].host = h}
        /\ B = {s \in Tasks : task'[s].at = "announce" /\ task'[s].host = h}
    BY <1>1 DEF Announcing, Busy
  <1>4. B \ {t} = rest /\ rest \subseteq Tasks /\ t \notin rest
    BY <1>1, <1>2, <1>3
  <1>5. IsFiniteSet(rest) /\ IsFiniteSet(A)
    BY <1>1, FS_Subset
  <1>6. \A s \in Tasks : f[s] \in Int /\ g[s] \in Int
    <2>1. \A s \in Tasks : task[s] \in BooksTask /\ task'[s] \in BooksTask
      OBVIOUS
    <2> QED BY <1>1, <2>1, GainTyped
  <1>7. \A s \in rest : f[s] = g[s] /\ f[s] \in Int
    BY <1>1, <1>2, <1>4, <1>6
  <1>8. PICK n : n = SumFunctionOnSet(f, rest)
    OBVIOUS
  <1>9. n \in Int /\ SumFunctionOnSet(g, rest) = n
    BY <1>5, <1>7, <1>8, SumIsInteger, SameSum
  <1>10. SumFunctionOnSet(f, A) = n + GainOf(task[t], h) /\ GainOf(task[t], h) \in Int
    <2>1. f[t] = GainOf(task[t], h) /\ f[t] \in Int
      BY <1>1, <1>6
    <2>2. CASE t \in A
      <3>1. rest \cup {t} = A
        BY <1>1, <2>2
      <3>2. SumFunctionOnSet(f, rest \cup {t}) = SumFunctionOnSet(f, rest) + f[t]
        BY <1>4, <1>5, <1>7, <2>1, SumWith
      <3> QED BY <1>8, <2>1, <3>1, <3>2
    <2>3. CASE t \notin A
      <3>1. rest = A /\ GainOf(task[t], h) = 0
        BY <1>1, <1>3, <2>3 DEF GainOf
      <3> QED BY <1>8, <1>9, <3>1
    <2> QED BY <2>2, <2>3
  <1>11. SumFunctionOnSet(g, B) = n + GainOf(x, h) /\ IsFiniteSet(B) /\ GainOf(x, h) \in Int
    <2>1. g[t] = GainOf(x, h) /\ g[t] \in Int
      BY <1>1, <1>2, <1>6
    <2>2. CASE t \in B
      <3>1. rest \cup {t} = B
        BY <1>4, <2>2
      <3>2. \A s \in rest : g[s] \in Int
        BY <1>4, <1>6
      <3>3. SumFunctionOnSet(g, rest \cup {t}) = SumFunctionOnSet(g, rest) + g[t]
        BY <1>4, <1>5, <2>1, <3>2, SumWith
      <3>4. IsFiniteSet(rest \cup {t})
        BY <1>5, FS_AddElement
      <3> QED BY <1>9, <2>1, <3>1, <3>3, <3>4
    <2>3. CASE t \notin B
      <3>1. rest = B
        BY <1>4, <2>3
      <3>2. GainOf(x, h) = 0
        BY <1>2, <1>3, <2>3 DEF GainOf
      <3> QED BY <1>5, <1>9, <3>1, <3>2
    <2> QED BY <2>2, <2>3
  <1>12. Pending(h) = SumFunctionOnSet(f, A) /\ Pending(h)' = SumFunctionOnSet(g, B)
    BY <1>1 DEF Pending
  <1> QED BY <1>1, <1>9, <1>10, <1>11, <1>12

\* Lifetimes and announcements as before, and a task that announces nothing.
LifetimesKept == \A h \in Hosts : hostWallet'[h].lifetime = hostWallet[h].lifetime

LEMMA LevelsStay ==
    ASSUME BooksTyped, LevelsTold, LifetimesKept, UNCHANGED <<announced, crashes>>,
           \/ UNCHANGED task
           \/ \E t \in Tasks, x \in BooksTask :
                  /\ task' = [task EXCEPT ![t] = x]
                  /\ task[t].at # "announce" /\ x.at # "announce"
    PROVE  LevelsTold'
  <1> SUFFICES ASSUME NEW h \in Hosts
               PROVE  /\ IsFiniteSet(Announcing(h)')
                      /\ Pending(h)' = Pending(h) /\ Level(h)' = Level(h)
                      /\ announced'[h] = announced[h] /\ crashes' = crashes
    BY DEF LevelsTold
  <1>1. Level(h)' = Level(h)
    BY DEF Level, LifetimesKept
  <1>2. IsFiniteSet(Announcing(h))
    BY DEF LevelsTold
  <1>3. IsFiniteSet(Announcing(h)') /\ Pending(h)' = Pending(h)
    <2>1. CASE UNCHANGED task
      <3>1. Announcing(h)' = Announcing(h)
        BY <2>1 DEF Announcing, Busy
      <3>2. Pending(h)' = Pending(h)
        BY <2>1, <3>1 DEF Pending
      <3> QED BY <1>2, <3>1, <3>2
    <2>2. CASE ~UNCHANGED task
      <3>1. PICK t \in Tasks, x \in BooksTask :
                  /\ task' = [task EXCEPT ![t] = x]
                  /\ task[t].at # "announce" /\ x.at # "announce"
        BY <2>2
      <3>2. GainOf(task[t], h) = 0 /\ GainOf(x, h) = 0
        BY <3>1 DEF GainOf
      <3>3. /\ IsFiniteSet(Announcing(h)')
            /\ Pending(h) \in Int
            /\ Pending(h)' = Pending(h) - GainOf(task[t], h) + GainOf(x, h)
        BY <1>2, <3>1, PendingMoves DEF BooksTyped
      <3> QED BY <3>2, <3>3
    <2> QED BY <2>1, <2>2
  <1> QED BY <1>1, <1>3

-----------------------------------------------------------------------------
(* The invariant, and the steps that leave the wallets alone                 *)

BooksInv == BooksTyped /\ BalancesOK /\ LevelsTold

LEMMA WalletsOfTables ==
    ASSUME TablesTyped
    PROVE  WalletsTyped /\ now \in Nat
  BY ConstantTypes DEF TablesTyped

LEMMA MemberTyped ==
    ASSUME NEW S, NEW s \in Seq(S), NEW i \in DOMAIN s
    PROVE  s[i] \in S
  OBVIOUS

LEMMA TermsStay ==
    ASSUME TermsTyped, UNCHANGED terms
    PROVE  TermsTyped'
  BY DEF TermsTyped, terms

LEMMA WalletsStay ==
    ASSUME WalletsTyped, UNCHANGED <<wallets, now>>
    PROVE  WalletsTyped'
  BY DEF WalletsTyped, wallets

LEMMA SalesStay ==
    ASSUME SalesTyped, UNCHANGED sales
    PROVE  SalesTyped'
  BY DEF SalesTyped, sales

LEMMA RewardsStay ==
    ASSUME RewardsTyped, UNCHANGED <<config, active>>
    PROVE  RewardsTyped'
  BY DEF RewardsTyped

LEMMA TablesAround ==
    ASSUME TablesTyped, WalletsTyped',
           UNCHANGED <<now, crashes, terms, sales, config, active>>
    PROVE  TablesTyped'
  BY TermsStay, SalesStay, RewardsStay DEF TablesTyped

LEMMA TablesStay ==
    ASSUME TablesTyped, UNCHANGED <<ledgerVars, config, active>>
    PROVE  TablesTyped'
  BY TermsStay, WalletsStay, SalesStay, RewardsStay DEF TablesTyped, ledgerVars

LEMMA RewardTablesMove ==
    ASSUME TablesTyped, RewardsTyped', UNCHANGED ledgerVars
    PROVE  TablesTyped'
  BY TermsStay, WalletsStay, SalesStay DEF TablesTyped, ledgerVars

LEMMA QuietKeeps ==
    ASSUME BooksInv, BooksTyped', UNCHANGED <<wallets, announced, crashes>>,
           \/ UNCHANGED task
           \/ \E t \in Tasks, x \in BooksTask :
                  /\ task' = [task EXCEPT ![t] = x]
                  /\ task[t].at # "announce" /\ x.at # "announce"
    PROVE  BooksInv'
  <1>1. BalancesOK'
    BY DEF BooksInv, BalancesOK, wallets
  <1>2. LifetimesKept
    BY DEF LifetimesKept, wallets
  <1>3. LevelsTold'
    BY <1>2, LevelsStay DEF BooksInv
  <1> QED BY <1>1, <1>3 DEF BooksInv

\* A request that begins with a check and waits.
LEMMA StartKeeps ==
    ASSUME BooksInv, UNCHANGED <<ledgerVars, config, active>>, NEW t \in Tasks,
           NEW x \in BooksTask, x.at # "announce", Grounded(x), Start(t, x)
    PROVE  BooksInv'
  <1>1. /\ task' = [task EXCEPT ![t] = x] /\ task[t].at # "announce"
        /\ UNCHANGED <<wallets, announced, crashes>>
    BY DEF Start, Idle, ledgerVars, terms
  <1>2. TablesTyped'
    BY TablesStay DEF BooksInv, BooksTyped
  <1>3. now' = now /\ calls' = calls /\ now \in Int
    BY WalletsOfTables DEF ledgerVars, sales, BooksInv, BooksTyped
  <1>4. Grounded(x)'
    BY <1>3 DEF Grounded
  <1>5. DOMAIN calls \subseteq DOMAIN calls' /\ now <= now'
    BY <1>3
  <1>6. BooksTyped'
    BY <1>1, <1>2, <1>4, <1>5, TaskMoves DEF BooksInv
  <1> QED BY <1>1, <1>6, QuietKeeps

Sold(kind, what) == /\ kind \in EarningKinds /\ what \in Nat \cup Contexts
                    /\ kind = "call_billing" => what \in DOMAIN calls
                    /\ kind = "gift" => what \in Contexts

LEMMA SellingKeeps ==
    ASSUME BooksInv, UNCHANGED <<config, active>>, NEW t \in Tasks, NEW kind,
           NEW u \in Users, NEW h \in Hosts, NEW what, Sold(kind, what),
           NEW price, NEW points, Priced(price, points),
           Selling(t, kind, u, h, what, price, points)
    PROVE  BooksInv'
  <1> DEFINE x == [at |-> "transfer", kind |-> kind, user |-> u, host |-> h, what |-> what,
                   price |-> price, points |-> points, began |-> now]
  <1>2. now \in Nat
    BY WalletsOfTables DEF BooksInv, BooksTyped
  <1>3. x \in BooksTask /\ x.at # "announce"
    <2>1. x \in SaleTask
      BY <1>2 DEF Sold, Priced, SaleTask
    <2>2. x.at # "announce"
      OBVIOUS
    <2> HIDE DEF x
    <2> QED BY <2>1, <2>2 DEF BooksTask
  <1>4. Grounded(x)
    BY <1>2 DEF Grounded, Sold
  <1>5. Start(t, x) /\ UNCHANGED ledgerVars
    BY DEF Selling
  <1> HIDE DEF x
  <1> QED BY <1>3, <1>4, <1>5, StartKeeps

LEMMA SaleRequestKeeps ==
    ASSUME BooksInv, UNCHANGED <<config, active>>, NEW t \in Tasks, SaleRequest(t)
    PROVE  BooksInv'
  <1>1. CASE \E c \in DOMAIN calls : runBillingTick(t, c)
    <2>1. PICK c \in DOMAIN calls : runBillingTick(t, c)
      BY <1>1
    <2>2. calls[c] \in CallRow /\ c \in Nat
      BY DEF BooksInv, BooksTyped, TablesTyped, SalesTyped
    <2>3. calls[c].user \in Users /\ calls[c].host \in Hosts /\ calls[c].points \in BasisPoints
      BY <2>2 DEF CallRow
    <2>4. Selling(t, "call_billing", calls[c].user, calls[c].host, c, TickCost, calls[c].points)
      BY <2>1 DEF runBillingTick
    <2>5. Sold("call_billing", c)
      BY <2>2 DEF Sold, EarningKinds
    <2>6. Priced(TickCost, calls[c].points)
      BY <2>3, ConstantTypes DEF Priced
    <2> QED BY <2>3, <2>4, <2>5, <2>6, SellingKeeps
  <1>2. CASE \E u \in Users, h \in Hosts : \E context \in Contexts : sendGift(t, u, h, context)
    <2>1. PICK u \in Users, h \in Hosts, context \in Contexts : sendGift(t, u, h, context)
      BY <1>2
    <2>2. getCurrentCommissionBasisPoints(h) \in BasisPoints
      BY RateTyped DEF BooksInv, BooksTyped
    <2>3. Selling(t, "gift", u, h, context, GiftPrice, getCurrentCommissionBasisPoints(h))
      BY <2>1 DEF sendGift
    <2>4. Sold("gift", context)
      BY DEF Sold, EarningKinds
    <2>5. Priced(GiftPrice, getCurrentCommissionBasisPoints(h))
      BY <2>2, ConstantTypes DEF Priced
    <2> QED BY <2>3, <2>4, <2>5, SellingKeeps
  <1>3. CASE \E u \in Users, h \in Hosts : sendPaidUserMessage(t, u, h)
    <2>1. PICK u \in Users, h \in Hosts : sendPaidUserMessage(t, u, h)
      BY <1>3
    <2>2. getCurrentCommissionBasisPoints(h) \in BasisPoints /\ getHostEffectivePrices(h) \in Nat
      BY RateTyped, LevelsTyped DEF BooksInv, BooksTyped
    <2>3. Selling(t, "chat_message", u, h, "none", getHostEffectivePrices(h),
                  getCurrentCommissionBasisPoints(h))
      BY <2>1 DEF sendPaidUserMessage
    <2>4. Sold("chat_message", "none")
      BY DEF Contexts, Sold, EarningKinds
    <2>5. Priced(getHostEffectivePrices(h), getCurrentCommissionBasisPoints(h))
      BY <2>2 DEF Priced
    <2> QED BY <2>3, <2>4, <2>5, SellingKeeps
  <1>4. CASE \E h \in Hosts, level \in 0..MaxHostLevel : setHostPriceLevel(t, h, level)
    <2>1. PICK h \in Hosts, level \in 0..MaxHostLevel : setHostPriceLevel(t, h, level)
      BY <1>4
    <2>2. PICK x : x = [at |-> "savePriceLevel", host |-> h, level |-> level]
      OBVIOUS
    <2>3. x \in BooksTask /\ x.at # "announce" /\ Grounded(x)
      BY <2>2 DEF BooksTask, Grounded
    <2>4. Start(t, x) /\ UNCHANGED ledgerVars
      BY <2>1, <2>2 DEF setHostPriceLevel
    <2> QED BY <2>3, <2>4, StartKeeps
  <1> QED BY <1>1, <1>2, <1>3, <1>4 DEF SaleRequest

\* Calls, terms, reward tables, accounts and the clock.
LEMMA CallsMove ==
    ASSUME BooksInv, UNCHANGED <<now, terms, wallets, tick, gift, message, crashes, task,
                                 config, active>>,
           calls' \in Seq(CallRow), DOMAIN calls \subseteq DOMAIN calls'
    PROVE  BooksInv'
  <1>1. TablesTyped'
    <2>1. SalesTyped'
      BY DEF BooksInv, BooksTyped, TablesTyped, SalesTyped
    <2> QED BY <2>1, TermsStay, WalletsStay, RewardsStay DEF BooksInv, BooksTyped, TablesTyped
  <1>2. now \in Int
    BY WalletsOfTables DEF BooksInv, BooksTyped
  <1>3. BooksTyped'
    BY <1>1, <1>2, TasksStay DEF BooksInv
  <1> QED BY <1>3, QuietKeeps DEF terms

LEMMA InitiateCallKeeps ==
    ASSUME BooksInv, UNCHANGED <<config, active>>,
           NEW u \in Users, NEW h \in Hosts, NEW type \in CallTypes, initiateCall(u, h, type)
    PROVE  BooksInv'
  <1>1. PICK c : c = [user |-> u, host |-> h, type |-> type, status |-> "ringing",
                      answered |-> FALSE, points |-> getCurrentCommissionBasisPoints(h),
                      total |-> 0, beans |-> 0, updated |-> now]
    OBVIOUS
  <1>2. c \in CallRow
    BY <1>1, RateTyped, WalletsOfTables DEF BooksInv, BooksTyped, CallRow
  <1>3. calls \in Seq(CallRow) /\ calls' = Append(calls, c)
    BY <1>1 DEF BooksInv, BooksTyped, TablesTyped, SalesTyped, initiateCall
  <1>4. calls' \in Seq(CallRow) /\ DOMAIN calls \subseteq DOMAIN calls'
    BY <1>2, <1>3
  <1> QED BY <1>4, CallsMove DEF initiateCall

\* What answering and ending a call do to its row.
SameSale(row, old) ==
    /\ row.user = old.user /\ row.host = old.host /\ row.type = old.type
    /\ row.points = old.points /\ row.total = old.total /\ row.beans = old.beans
StatusWritten(c, row) ==
    /\ row \in CallRow /\ row.updated = now /\ SameSale(row, calls[c])
    /\ calls' = [calls EXCEPT ![c] = row]
    /\ UNCHANGED <<now, terms, wallets, tick, gift, message, crashes, task>>
WritesStatus(c) == acceptCall(c) \/ \E status \in EndStatuses : endCall(c, status)

LEMMA StatusWrites ==
    ASSUME SalesTyped, now \in Nat, NEW c \in DOMAIN calls, WritesStatus(c)
    PROVE  \E row : StatusWritten(c, row)
  <1>1. PICK old : old = calls[c]
    OBVIOUS
  <1>2. old \in CallRow
    BY <1>1 DEF SalesTyped
  <1>3. ASSUME NEW status \in {"ongoing"} \cup EndStatuses, NEW answered \in BOOLEAN,
               NEW row, row = [user |-> old.user, host |-> old.host, type |-> old.type,
                               status |-> status, answered |-> answered, points |-> old.points,
                               total |-> old.total, beans |-> old.beans, updated |-> now]
        PROVE  row \in CallRow /\ row.updated = now /\ SameSale(row, calls[c])
    <2>1. /\ old.user \in Users /\ old.host \in Hosts /\ old.type \in CallTypes
          /\ old.points \in BasisPoints /\ old.total \in Nat /\ old.beans \in Nat
      BY <1>2 DEF CallRow
    <2>2. row \in CallRow
      BY <1>3, <2>1 DEF CallRow
    <2> QED BY <1>1, <1>3, <2>2 DEF SameSale
  <1>4. old = [user |-> old.user, host |-> old.host, type |-> old.type, status |-> old.status,
               answered |-> old.answered, points |-> old.points, total |-> old.total,
               beans |-> old.beans, updated |-> old.updated]
    BY <1>2 DEF CallRow
  <1>5. CASE acceptCall(c)
    <2>1. PICK row : row = [old EXCEPT !.status = "ongoing", !.answered = TRUE, !.updated = now]
      OBVIOUS
    <2>2. row = [user |-> old.user, host |-> old.host, type |-> old.type, status |-> "ongoing",
                 answered |-> TRUE, points |-> old.points, total |-> old.total,
                 beans |-> old.beans, updated |-> now]
      BY <1>4, <2>1
    <2>3. calls' = [calls EXCEPT ![c] = row]
      BY <1>1, <1>5, <2>1 DEF acceptCall
    <2>4. row \in CallRow /\ row.updated = now /\ SameSale(row, calls[c])
      BY <1>3, <2>2
    <2> QED BY <1>5, <2>3, <2>4 DEF acceptCall, StatusWritten
  <1>6. ASSUME NEW status \in EndStatuses, endCall(c, status)
        PROVE  \E row : StatusWritten(c, row)
    <2>1. PICK row : row = [old EXCEPT !.status = status, !.updated = now]
      OBVIOUS
    <2>2. row = [user |-> old.user, host |-> old.host, type |-> old.type, status |-> status,
                 answered |-> old.answered, points |-> old.points, total |-> old.total,
                 beans |-> old.beans, updated |-> now]
      BY <1>4, <2>1
    <2>3. calls' = [calls EXCEPT ![c] = row]
      BY <1>1, <1>6, <2>1 DEF endCall
    <2>4. old.answered \in BOOLEAN
      BY <1>2 DEF CallRow
    <2>5. row \in CallRow /\ row.updated = now /\ SameSale(row, calls[c])
      BY <1>3, <2>2, <2>4
    <2> QED BY <1>6, <2>3, <2>5 DEF endCall, StatusWritten
  <1> QED BY <1>5, <1>6 DEF WritesStatus

LEMMA StatusKeeps ==
    ASSUME BooksInv, UNCHANGED <<config, active>>, NEW c \in DOMAIN calls, WritesStatus(c)
    PROVE  BooksInv'
  <1>1. SalesTyped /\ now \in Nat
    BY WalletsOfTables DEF BooksInv, BooksTyped, TablesTyped
  <1>2. PICK row : StatusWritten(c, row)
    BY <1>1, StatusWrites
  <1>3. calls \in Seq(CallRow) /\ row \in CallRow /\ calls' = [calls EXCEPT ![c] = row]
    BY <1>1, <1>2 DEF SalesTyped, StatusWritten
  <1>4. calls' \in Seq(CallRow) /\ DOMAIN calls \subseteq DOMAIN calls'
    BY <1>3
  <1> QED BY <1>2, <1>4, CallsMove DEF StatusWritten

\* A table of which no task and no wallet knows.
LEMMA TablesMove ==
    ASSUME BooksInv, TablesTyped', UNCHANGED <<wallets, announced, calls, crashes, task>>,
           now <= now'
    PROVE  BooksInv'
  <1>1. BooksTyped'
    BY TasksStay DEF BooksInv
  <1> QED BY <1>1, QuietKeeps

LEMMA RatesAreShares ==
    ASSUME NEW points \in Range(Commissions)
    PROVE  points \in BasisPoints /\ points # NoRate
  <1>1. Commissions \in Seq(BasisPoints)
    BY LedgerConstants
  <1>2. PICK i \in DOMAIN Commissions : points = Commissions[i]
    BY DEF Range
  <1>3. points \in BasisPoints
    BY <1>1, <1>2, MemberTyped
  <1> QED BY <1>3 DEF NoRate, BasisPoints

LEMMA CommissionKeeps ==
    ASSUME BooksInv, UNCHANGED <<config, active>>,
           NEW h \in Hosts \cup {0}, NEW points \in Range(Commissions),
           createCommissionConfig(h, points)
    PROVE  BooksInv'
  <1>1. points \in BasisPoints /\ points # NoRate
    BY RatesAreShares
  <1>2. /\ commission \in [Hosts \cup {0} -> BasisPoints \cup {NoRate}] /\ commission[0] # NoRate
        /\ commission' = [commission EXCEPT ![h] = points]
        /\ TermsTyped /\ TablesTyped
    <2>1. TermsTyped /\ TablesTyped
      BY DEF BooksInv, BooksTyped, TablesTyped
    <2>2. commission' = [commission EXCEPT ![h] = points]
      BY DEF createCommissionConfig
    <2> QED BY <2>1, <2>2 DEF TermsTyped
  <1>3. commission' \in [Hosts \cup {0} -> BasisPoints \cup {NoRate}] /\ commission'[0] # NoRate
    BY <1>1, <1>2
  <1>t. TablesTyped'
    <2>1. UNCHANGED <<priceLevel, announced>> /\ UNCHANGED <<wallets, sales, now, crashes>>
      BY DEF createCommissionConfig
    <2>2. TermsTyped'
      <3>1. priceLevel' \in [Hosts -> 0..MaxHostLevel] /\ announced' \in [Hosts -> Nat]
        BY <1>2, <2>1 DEF TermsTyped
      <3> QED BY <1>3, <3>1 DEF TermsTyped
    <2> QED BY <1>2, <2>1, <2>2, WalletsStay, SalesStay, RewardsStay DEF TablesTyped
  <1>4. now \in Int
    BY WalletsOfTables DEF BooksInv, BooksTyped
  <1> QED BY <1>t, <1>4, TablesMove DEF createCommissionConfig, sales

LEMMA ConfigKeeps ==
    ASSUME BooksInv, NEW period \in Periods, NEW table \in Tables, setRewardConfig(period, table)
    PROVE  BooksInv'
  <1>1. PICK row : row = [period |-> period, table |-> table, from |-> now]
    OBVIOUS
  <1>2. config \in Seq(ConfigRow) /\ row \in ConfigRow /\ config' = Append(config, row)
        /\ now \in Int
    BY <1>1, WalletsOfTables
    DEF BooksInv, BooksTyped, TablesTyped, RewardsTyped, setRewardConfig, ConfigRow
  <1>3. config' \in Seq(ConfigRow)
    BY <1>2
  <1>4. TablesTyped'
    <2>1. RewardsTyped'
      BY <1>3 DEF BooksInv, BooksTyped, TablesTyped, RewardsTyped, setRewardConfig
    <2> QED BY <2>1, RewardTablesMove DEF BooksInv, BooksTyped, setRewardConfig
  <1> QED BY <1>2, <1>4, TablesMove DEF setRewardConfig, ledgerVars, terms, sales

LEMMA SuspendKeeps ==
    ASSUME BooksInv, NEW h \in Hosts, Suspend(h)
    PROVE  BooksInv'
  <1>1. active' \subseteq Hosts
    BY DEF BooksInv, BooksTyped, TablesTyped, RewardsTyped, Suspend
  <1>2. TablesTyped'
    <2>1. RewardsTyped'
      BY <1>1 DEF BooksInv, BooksTyped, TablesTyped, RewardsTyped, Suspend
    <2> QED BY <2>1, RewardTablesMove DEF BooksInv, BooksTyped, Suspend
  <1>3. now \in Int
    BY WalletsOfTables DEF BooksInv, BooksTyped
  <1> QED BY <1>2, <1>3, TablesMove DEF Suspend, ledgerVars, terms, sales

LEMMA ClockKeeps ==
    ASSUME BooksInv, UNCHANGED <<config, active>>, Clock
    PROVE  BooksInv'
  <1>1. now' \in 0..MaxNow /\ now <= now' /\ now \in Nat /\ now' \in Nat
    BY ConstantTypes DEF BooksInv, BooksTyped, TablesTyped, Clock
  <1>2. \A i \in DOMAIN ledger : ledger[i].at <= now'
    <2>1. \A i \in DOMAIN ledger : ledger[i].at \in Nat /\ ledger[i].at <= now
      <3>1. \A i \in DOMAIN ledger : ledger[i] \in Entries
        BY DEF BooksInv, BooksTyped, TablesTyped, WalletsTyped
      <3> QED BY <3>1 DEF Entries, BooksInv, BooksTyped, TablesTyped, WalletsTyped
    <2> QED BY <1>1, <2>1
  <1>3. TablesTyped'
    <2>1. UNCHANGED <<terms, wallets, sales, crashes>>
      BY DEF Clock
    <2>2. WalletsTyped'
      BY <1>2, <2>1 DEF BooksInv, BooksTyped, TablesTyped, WalletsTyped, wallets
    <2> QED BY <1>1, <2>1, <2>2, TermsStay, SalesStay, RewardsStay
            DEF BooksInv, BooksTyped, TablesTyped
  <1> QED BY <1>1, <1>3, TablesMove DEF Clock, terms, sales

LEMMA StutterKeeps ==
    ASSUME BooksInv, UNCHANGED <<ledgerVars, rewardVars, task>>
    PROVE  BooksInv'
  <1>1. TablesTyped'
    BY TablesStay DEF BooksInv, BooksTyped, rewardVars
  <1>2. now \in Int
    BY WalletsOfTables DEF BooksInv, BooksTyped
  <1> QED BY <1>1, <1>2, TablesMove DEF ledgerVars, terms, sales

-----------------------------------------------------------------------------
(* The steps that move money                                                 *)

\* A movement outside a handler's steps: no earning, no level.
LEMMA MovementKeeps ==
    ASSUME BooksInv, WalletsTyped', BalancesOK', LifetimesKept,
           UNCHANGED <<now, terms, sales, crashes, task, config, active>>
    PROVE  BooksInv'
  <1>1. TablesTyped'
    BY TablesAround DEF BooksInv, BooksTyped
  <1>2. now <= now' /\ DOMAIN calls \subseteq DOMAIN calls'
    BY WalletsOfTables DEF BooksInv, BooksTyped, sales
  <1>3. BooksTyped'
    BY <1>1, <1>2, TasksStay DEF BooksInv
  <1>4. LevelsTold'
    BY LevelsStay DEF BooksInv, terms
  <1> QED BY <1>3, <1>4 DEF BooksInv

UserMovement(u, amount, kind) ==
    /\ u \in Users /\ amount \in Int /\ kind \in EntryKinds /\ balance[u] + amount >= 0
    /\ balance' = [balance EXCEPT ![u] = @ + amount]
    /\ ledger' = Append(ledger, Entry("user", u, amount, kind, 0, now))
    /\ UNCHANGED <<now, terms, hostWallet, sales, crashes, task>>

LEMMA UserMovementKeeps ==
    ASSUME BooksInv, UNCHANGED <<config, active>>, NEW u, NEW amount, NEW kind,
           UserMovement(u, amount, kind)
    PROVE  BooksInv'
  <1>1. WalletsTyped /\ BalancesOK /\ now \in Nat
    BY WalletsOfTables DEF BooksInv, BooksTyped, TablesTyped
  <1>2. WalletsTyped' /\ BalancesOK'
    BY <1>1, UserEntryKeeps DEF UserMovement
  <1>3. LifetimesKept
    BY DEF LifetimesKept, UserMovement
  <1> QED BY <1>2, <1>3, MovementKeeps DEF UserMovement

HostMovement(h, amount, kind) ==
    /\ h \in Hosts /\ amount \in Int /\ kind \in EntryKinds \ EarningKinds
    /\ hostWallet[h].beans + amount >= 0
    /\ hostWallet' = [hostWallet EXCEPT ![h].beans = @ + amount]
    /\ ledger' = Append(ledger, Entry("host", h, amount, kind, 0, now))
    /\ UNCHANGED <<now, terms, balance, sales, crashes, task>>

LEMMA HostMovementKeeps ==
    ASSUME BooksInv, UNCHANGED <<config, active>>, NEW h, NEW amount, NEW kind,
           HostMovement(h, amount, kind)
    PROVE  BooksInv'
  <1>1. WalletsTyped /\ BalancesOK /\ now \in Nat
    BY WalletsOfTables DEF BooksInv, BooksTyped, TablesTyped
  <1>2. WalletsTyped' /\ BalancesOK' /\ LifetimesKept
    BY <1>1, HostEntryKeeps DEF LifetimesKept, HostMovement
  <1> QED BY <1>2, MovementKeeps DEF HostMovement

LEMMA MoneyKeeps ==
    ASSUME BooksInv, UNCHANGED <<config, active>>,
           \/ \E u \in Users :
                 \/ creditUserWallet(u, "recharge") \/ creditUserWallet(u, "dev_credit")
                 \/ \E amount \in Int, kind \in {"adjustment", "refund"} :
                        adjustUserWallet(u, amount, kind)
           \/ \E h \in Hosts : debitHostBeans(h) \/ ReturnBeans(h)
    PROVE  BooksInv'
  <1>1. WalletsTyped
    BY DEF BooksInv, BooksTyped, TablesTyped
  <1>2. ASSUME NEW u \in Users, NEW kind \in {"recharge", "dev_credit"}, creditUserWallet(u, kind)
        PROVE  BooksInv'
    <2>1. kind \in EntryKinds /\ balance[u] + 1 >= 0
      BY <1>1, <1>2 DEF EntryKinds, WalletsTyped
    <2>2. UserMovement(u, 1, kind)
      BY <1>2, <2>1 DEF creditUserWallet, UserMovement
    <2> QED BY <2>2, UserMovementKeeps
  <1>3. ASSUME NEW u \in Users, NEW amount \in Int, NEW kind \in {"adjustment", "refund"},
               adjustUserWallet(u, amount, kind)
        PROVE  BooksInv'
    <2>1. kind \in EntryKinds
      BY <1>3 DEF EntryKinds
    <2>2. UserMovement(u, amount, kind)
      BY <1>3, <2>1 DEF adjustUserWallet, UserMovement
    <2> QED BY <2>2, UserMovementKeeps
  <1>4. "withdrawal" \in EntryKinds \ EarningKinds
    BY DEF EntryKinds, EarningKinds
  <1>5. ASSUME NEW h \in Hosts, debitHostBeans(h)
        PROVE  BooksInv'
    <2>1. hostWallet[h] \in [beans : Nat, lifetime : Nat]
      BY <1>1 DEF WalletsTyped
    <2>2. /\ hostWallet[h].beans >= 1
          /\ hostWallet' = [hostWallet EXCEPT ![h].beans = @ - 1]
      BY <1>5 DEF debitHostBeans
    <2>3. hostWallet[h].beans - 1 = hostWallet[h].beans + (-1) /\ hostWallet[h].beans + (-1) >= 0
      BY <2>1, <2>2
    <2>4. hostWallet' = [hostWallet EXCEPT ![h].beans = @ + (-1)]
      BY <2>2, <2>3
    <2>5. /\ -1 \in Int
          /\ ledger' = Append(ledger, Entry("host", h, -1, "withdrawal", 0, now))
          /\ UNCHANGED <<now, terms, balance, sales, crashes, task>>
      BY <1>5 DEF debitHostBeans
    <2>6. HostMovement(h, -1, "withdrawal")
      BY <1>4, <2>3, <2>4, <2>5 DEF HostMovement
    <2> QED BY <2>6, HostMovementKeeps
  <1>6. ASSUME NEW h \in Hosts, ReturnBeans(h)
        PROVE  BooksInv'
    <2>1. hostWallet[h].beans + 1 >= 0
      BY <1>1 DEF WalletsTyped
    <2>2. HostMovement(h, 1, "withdrawal")
      BY <1>4, <1>6, <2>1 DEF ReturnBeans, CreditHostBeans, HostMovement
    <2> QED BY <2>2, HostMovementKeeps
  <1> QED BY <1>2, <1>3, <1>5, <1>6

LEMMA CallBilled ==
    ASSUME NEW old \in CallRow, NEW price \in Nat, NEW beans \in Nat, NEW at \in Nat
    PROVE  [[[old EXCEPT !.total = @ + price] EXCEPT !.beans = @ + beans] EXCEPT !.updated = at]
               \in CallRow
  <1>1. \A r \in CallRow : [r EXCEPT !.total = @ + price] \in CallRow
    BY DEF CallRow
  <1>2. \A r \in CallRow : [r EXCEPT !.beans = @ + beans] \in CallRow
    BY DEF CallRow
  <1>3. \A r \in CallRow : [r EXCEPT !.updated = at] \in CallRow
    BY DEF CallRow
  <1> HIDE DEF CallRow
  <1> QED BY <1>1, <1>2, <1>3

LEMMA SeqOfFunction ==
    ASSUME NEW S, NEW n \in Nat, NEW f \in [1..n -> S]
    PROVE  f \in Seq(S)
  OBVIOUS

Billed(after, rows, c, price, beans, at) ==
    after = [rows EXCEPT ![c].total = @ + price, ![c].beans = @ + beans, ![c].updated = at]

LEMMA CallsBilled ==
    ASSUME NEW rows \in Seq(CallRow), NEW c \in DOMAIN rows, NEW price \in Nat,
           NEW beans \in Nat, NEW at \in Nat, NEW after, Billed(after, rows, c, price, beans, at)
    PROVE  after \in Seq(CallRow) /\ DOMAIN after = DOMAIN rows
  <1>1. PICK old : old = rows[c]
    OBVIOUS
  <1>2. old \in CallRow
    BY <1>1, MemberTyped
  <1>3. PICK new : new = [[[old EXCEPT !.total = @ + price] EXCEPT !.beans = @ + beans]
                              EXCEPT !.updated = at]
    OBVIOUS
  <1>4. new \in CallRow
    BY <1>2, <1>3, CallBilled
  <1>5. DOMAIN after = DOMAIN rows /\ after[c] = new
        /\ \A d \in DOMAIN rows \ {c} : after[d] = rows[d]
    BY <1>1, <1>3 DEF Billed
  <1>6. Len(rows) \in Nat /\ DOMAIN rows = 1..Len(rows)
        /\ \A d \in DOMAIN rows : rows[d] \in CallRow
    OBVIOUS
  <1>7. after = [d \in DOMAIN rows |-> after[d]]
    BY DEF Billed
  <1>8. \A d \in DOMAIN rows : after[d] \in CallRow
    BY <1>4, <1>5, <1>6
  <1>9. after \in [1..Len(rows) -> CallRow]
    BY <1>6, <1>7, <1>8
  <1>10. PICK n : n = Len(rows)
    OBVIOUS
  <1>11. after \in Seq(CallRow)
    BY <1>6, <1>9, <1>10, SeqOfFunction
  <1> QED BY <1>5, <1>11

\* The rows of a sale: they say what the entries say, and calls there were stay.
LEMMA SaleRowsTyped ==
    ASSUME SalesTyped, now \in Nat, NEW beans \in Nat, NEW s \in SaleTask, Grounded(s),
           RecordTick(s, beans) \/ RecordGift(s, beans) \/ RecordMessage(s, beans)
    PROVE  /\ SalesTyped' /\ DOMAIN calls \subseteq DOMAIN calls'
           /\ \E ref \in Nat : transferUserToHost(s, beans, ref)
  <1>0. /\ s.kind = "call_billing" => s.what \in DOMAIN calls
        /\ s.kind = "gift" => s.what \in Contexts
        /\ s.host \in Hosts /\ s.price \in Nat /\ s.began \in Nat /\ s.points \in BasisPoints
    BY DEF SaleTask, Grounded
  <1>1. CASE RecordTick(s, beans)
    <2>1. s.what \in DOMAIN calls /\ calls \in Seq(CallRow) /\ tick \in Seq(TickRow)
      BY <1>0, <1>1 DEF RecordTick, SalesTyped
    <2> DEFINE row == [call |-> s.what, amount |-> s.price, at |-> s.began]
    <2>3. row \in TickRow /\ tick' = Append(tick, row) /\ s.what \in Nat
          /\ row.call \in DOMAIN calls
      BY <1>0, <1>1, <2>1 DEF RecordTick, TickRow
    <2> HIDE DEF row
    <2>4. tick' \in Seq(TickRow)
      BY <2>1, <2>3
    <2>9. calls' \in Seq(CallRow) /\ DOMAIN calls' = DOMAIN calls
      <3>1. calls' = [calls EXCEPT ![s.what].total = @ + s.price, ![s.what].beans = @ + beans,
                                   ![s.what].updated = now]
        BY <1>1 DEF RecordTick
      <3>2. Billed(calls', calls, s.what, s.price, beans, now)
        BY <3>1 DEF Billed
      <3> QED BY <1>0, <2>1, <3>2, CallsBilled
    <2>11. \A i \in DOMAIN tick' : tick'[i].call \in DOMAIN calls
      <3>1. Len(tick) \in Nat /\ DOMAIN tick = 1..Len(tick) /\ DOMAIN tick' = 1..(Len(tick) + 1)
            /\ tick'[Len(tick) + 1] = row /\ \A i \in 1..Len(tick) : tick'[i] = tick[i]
        BY <2>1, <2>3
      <3>3. \A i \in 1..Len(tick) : tick'[i].call \in DOMAIN calls
        BY <3>1 DEF SalesTyped
      <3> QED BY <2>3, <3>1, <3>3
    <2>12. UNCHANGED <<gift, message>> /\ transferUserToHost(s, beans, s.what)
      BY <1>1 DEF RecordTick
    <2>13. SalesTyped'
      BY <2>4, <2>9, <2>11, <2>12 DEF SalesTyped
    <2> QED BY <2>3, <2>9, <2>12, <2>13
  <1>2. CASE RecordGift(s, beans)
    <2> DEFINE row == [host |-> s.host, context |-> s.what, price |-> s.price,
                       points |-> s.points, beans |-> beans, at |-> s.began]
    <2>1. s.what \in Contexts /\ gift' = Append(gift, row)
      BY <1>0, <1>2 DEF RecordGift
    <2>2. row \in GiftRow /\ gift \in Seq(GiftRow)
      BY <1>0, <2>1 DEF GiftRow, SalesTyped
    <2> HIDE DEF row
    <2>3. gift' \in Seq(GiftRow) /\ Len(gift) + 1 \in Nat
      BY <2>1, <2>2
    <2>4. UNCHANGED <<calls, tick, message>> /\ transferUserToHost(s, beans, Len(gift) + 1)
      BY <1>2 DEF RecordGift
    <2>5. SalesTyped'
      BY <2>3, <2>4 DEF SalesTyped
    <2> QED BY <2>3, <2>4, <2>5
  <1>3. CASE RecordMessage(s, beans)
    <2> DEFINE row == [host |-> s.host, charged |-> s.price, beans |-> beans,
                       at |-> s.began]
    <2>2. row \in MessageRow /\ message' = Append(message, row) /\ message \in Seq(MessageRow)
      BY <1>0, <1>3 DEF RecordMessage, MessageRow, SalesTyped
    <2> HIDE DEF row
    <2>3. message' \in Seq(MessageRow) /\ Len(message) + 1 \in Nat
      BY <2>2
    <2>4. UNCHANGED <<calls, tick, gift>> /\ transferUserToHost(s, beans, Len(message) + 1)
      BY <1>3 DEF RecordMessage
    <2>5. SalesTyped'
      BY <2>3, <2>4 DEF SalesTyped
    <2> QED BY <2>3, <2>4, <2>5
  <1> QED BY <1>1, <1>2, <1>3

-----------------------------------------------------------------------------
(* The handlers' later steps                                                 *)

LEMMA TaskTyped ==
    ASSUME BooksInv, NEW t \in Tasks
    PROVE  task[t] \in BooksTask /\ Grounded(task[t])
  BY DEF BooksInv, BooksTyped

LEMMA IdleIsFine ==
    Idle \in BooksTask /\ Idle.at # "announce" /\ Grounded(Idle) /\ Grounded(Idle)'
  BY DEF BooksTask, Idle, Grounded

LEMMA SavePriceLevelKeeps ==
    ASSUME BooksInv, UNCHANGED <<config, active>>, NEW t \in Tasks, SavePriceLevel(t)
    PROVE  BooksInv'
  <1>1. task[t].at = "savePriceLevel" /\ task' = [task EXCEPT ![t] = Idle]
        /\ UNCHANGED <<now, commission, announced, wallets, sales, crashes>>
        /\ priceLevel' = [priceLevel EXCEPT ![task[t].host] = task[t].level]
    BY DEF SavePriceLevel, At, Done, Goto
  <1>2. task[t].level \in 0..MaxHostLevel
    BY <1>1, TaskTyped, BooksTaskKinds
  <1>3. TermsTyped'
    <2>1. TermsTyped
      BY DEF BooksInv, BooksTyped, TablesTyped
    <2>2. priceLevel' \in [Hosts -> 0..MaxHostLevel]
      <3> DEFINE Levels == 0..MaxHostLevel
      <3>1. priceLevel \in [Hosts -> Levels] /\ task[t].level \in Levels
        BY <1>2, <2>1 DEF TermsTyped
      <3> HIDE DEF Levels
      <3>2. priceLevel' \in [Hosts -> Levels]
        BY <1>1, <3>1
      <3> QED BY <3>2 DEF Levels
    <2> QED BY <1>1, <2>1, <2>2 DEF TermsTyped
  <1>4. TablesTyped'
    BY <1>1, <1>3, WalletsStay, SalesStay, RewardsStay DEF BooksInv, BooksTyped, TablesTyped
  <1>5. now <= now' /\ DOMAIN calls \subseteq DOMAIN calls'
    BY <1>1, WalletsOfTables DEF BooksInv, BooksTyped, sales
  <1>6. BooksTyped'
    BY <1>1, <1>4, <1>5, IdleIsFine, TaskMoves DEF BooksInv
  <1> QED BY <1>1, <1>6, IdleIsFine, QuietKeeps

\* A sale is made: the levels it reaches are told by the task that goes on.
LEMMA SoldKeeps ==
    ASSUME BooksInv, TablesTyped', BalancesOK', NEW t \in Tasks, task[t].at = "transfer",
           NEW h \in Hosts, NEW beans \in Nat,
           hostWallet'[h].lifetime = hostWallet[h].lifetime + beans,
           \A g \in Hosts \ {h} : hostWallet'[g].lifetime = hostWallet[g].lifetime,
           NEW after, after = levelForLifetimeBeans(hostWallet[h].lifetime + beans),
           IF after <= Level(h) THEN Done(t)
           ELSE Goto(t, [at |-> "announce", host |-> h, before |-> Level(h), after |-> after]),
           UNCHANGED <<now, announced, crashes>>, DOMAIN calls \subseteq DOMAIN calls'
    PROVE  BooksInv'
  <1>1. hostWallet[h].lifetime \in Nat /\ now <= now'
    BY WalletsOfTables DEF BooksInv, BooksTyped, TablesTyped, WalletsTyped
  <1>2. Level(h)' = after /\ \A g \in Hosts \ {h} : Level(g)' = Level(g)
    BY DEF Level
  <1>3. /\ Level(h) \in 1..MaxHostLevel /\ after \in 1..MaxHostLevel /\ Level(h) <= after
    <2>1. hostWallet[h].lifetime + beans \in Nat
      BY <1>1
    <2> QED BY <1>1, <2>1, LevelsGrow DEF Level
  <1>4. PICK x \in BooksTask : /\ task' = [task EXCEPT ![t] = x] /\ Grounded(x)'
                               /\ GainOf(x, h) = after - Level(h)
                               /\ \A g \in Hosts \ {h} : GainOf(x, g) = 0
    <2>1. CASE after <= Level(h)
      <3>1. task' = [task EXCEPT ![t] = Idle] /\ after - Level(h) = 0
        BY <1>3, <2>1, ConstantTypes DEF Done, Goto
      <3>2. \A g : GainOf(Idle, g) = 0
        BY DEF GainOf, Idle
      <3> QED BY <3>1, <3>2, IdleIsFine
    <2>2. CASE ~(after <= Level(h))
      <3> DEFINE x == [at |-> "announce", host |-> h, before |-> Level(h), after |-> after]
      <3>1. x \in [at : {"announce"}, host : Hosts, before : 1..MaxHostLevel,
                   after : 1..MaxHostLevel]
        BY <1>3
      <3>2. x \in BooksTask
        <4> HIDE DEF x
        <4> QED BY <3>1 DEF BooksTask
      <3>3. task' = [task EXCEPT ![t] = x]
        BY <2>2 DEF Goto
      <3>4. \A y : (y.at = "announce" /\ y.before = Level(h) /\ y.after = after) => Grounded(y)'
        BY <1>3, <2>2, ConstantTypes DEF Grounded
      <3>5. GainOf(x, h) = after - Level(h) /\ \A g \in Hosts \ {h} : GainOf(x, g) = 0
        BY DEF GainOf
      <3> QED BY <3>2, <3>3, <3>4, <3>5
    <2> QED BY <2>1, <2>2
  <1>5. BooksTyped'
    BY <1>1, <1>4, TaskMoves DEF BooksInv
  <1>6. ASSUME NEW g \in Hosts
        PROVE  /\ IsFiniteSet(Announcing(g)')
               /\ announced'[g] + Pending(g)' <= Level(g)' - 1
               /\ crashes' = 0 => announced'[g] + Pending(g)' = Level(g)' - 1
    <2>1. /\ IsFiniteSet(Announcing(g)) /\ announced[g] + Pending(g) <= Level(g) - 1
          /\ crashes = 0 => announced[g] + Pending(g) = Level(g) - 1
      BY DEF BooksInv, LevelsTold
    <2>2. GainOf(task[t], g) = 0
      BY DEF GainOf
    <2>3. /\ IsFiniteSet(Announcing(g)') /\ Pending(g) \in Int
          /\ Pending(g)' = Pending(g) - GainOf(task[t], g) + GainOf(x, g)
      BY <1>4, <2>1, PendingMoves DEF BooksInv, BooksTyped
    <2>4. announced[g] \in Int /\ Level(g) \in Int
      BY LevelsTyped, ConstantTypes DEF BooksInv, BooksTyped, TablesTyped, TermsTyped
    <2>5. Level(g)' - Level(g) = GainOf(x, g) /\ GainOf(x, g) \in Int /\ Level(g)' \in Int
      <3>1. CASE g = h
        BY <1>2, <1>3, <1>4, <3>1, ConstantTypes
      <3>2. CASE g # h
        BY <1>2, <1>4, <2>4, <3>2
      <3> QED BY <3>1, <3>2
    <2> QED BY <2>1, <2>2, <2>3, <2>4, <2>5
  <1>7. LevelsTold'
    BY <1>6 DEF LevelsTold
  <1> QED BY <1>5, <1>7 DEF BooksInv

LEMMA SaleCommitsKeeps ==
    ASSUME BooksInv, UNCHANGED <<config, active>>, NEW t \in Tasks, SaleCommits(t)
    PROVE  BooksInv'
  <1>1. PICK s : s = task[t]
    OBVIOUS
  <1>2. s.at = "transfer" /\ UNCHANGED <<now, terms, crashes>>
    BY <1>1 DEF SaleCommits, At
  <1>3. s \in SaleTask /\ Grounded(s)
    BY <1>1, <1>2, TaskTyped, BooksTaskKinds
  <1>4. s.began <= now /\ s.host \in Hosts /\ s.price \in Nat /\ s.points \in BasisPoints
    BY <1>2, <1>3 DEF Grounded, SaleTask
  <1>5. PICK beans : beans = BeansFor(s.price, s.points)
    OBVIOUS
  <1>6. beans \in Nat
    BY <1>4, <1>5, BeansNatural DEF Priced
  <1>7. /\ now \in Nat /\ WalletsTyped /\ BalancesOK /\ SalesTyped /\ TermsTyped /\ RewardsTyped
        /\ TablesTyped /\ BooksTyped
    BY WalletsOfTables DEF BooksInv, BooksTyped, TablesTyped
  <1>8. CASE balance[s.user] >= s.price
    <2>1. /\ RecordTick(s, beans) \/ RecordGift(s, beans) \/ RecordMessage(s, beans)
          /\ IF levelForLifetimeBeans(hostWallet[s.host].lifetime + beans) <= Level(s.host)
             THEN Done(t)
             ELSE Goto(t, [at |-> "announce", host |-> s.host, before |-> Level(s.host),
                           after |-> levelForLifetimeBeans(hostWallet[s.host].lifetime + beans)])
      BY <1>1, <1>5, <1>8 DEF SaleCommits
    <2>2. /\ SalesTyped' /\ DOMAIN calls \subseteq DOMAIN calls'
          /\ \E ref \in Nat : transferUserToHost(s, beans, ref)
      BY <1>3, <1>6, <1>7, <2>1, SaleRowsTyped
    <2>3. PICK ref \in Nat : transferUserToHost(s, beans, ref)
      BY <2>2
    <2>5. /\ WalletsTyped' /\ BalancesOK'
          /\ hostWallet'[s.host].lifetime = hostWallet[s.host].lifetime + beans
          /\ \A g \in Hosts \ {s.host} : hostWallet'[g].lifetime = hostWallet[g].lifetime
      BY <1>2, <1>3, <1>4, <1>6, <1>7, <1>8, <2>3, TransferKeeps
    <2>6. TablesTyped'
      BY <1>2, <1>7, <2>2, <2>5, TermsStay, RewardsStay DEF TablesTyped
    <2>7. PICK after : after = levelForLifetimeBeans(hostWallet[s.host].lifetime + beans)
      OBVIOUS
    <2>8. IF after <= Level(s.host) THEN Done(t)
          ELSE Goto(t, [at |-> "announce", host |-> s.host, before |-> Level(s.host),
                        after |-> after])
      BY <2>1, <2>7
    <2>9. UNCHANGED <<now, announced, crashes>> /\ task[t].at = "transfer"
      BY <1>1, <1>2 DEF terms
    <2> QED BY <1>4, <1>6, <2>2, <2>5, <2>6, <2>7, <2>8, <2>9, SoldKeeps
  <1>9. CASE ~(balance[s.user] >= s.price)
    <2>1. task' = [task EXCEPT ![t] = Idle] /\ UNCHANGED <<wallets, sales>>
      BY <1>1, <1>9 DEF SaleCommits, Done, Goto
    <2>2. TablesTyped'
      BY <1>2, <1>7, <2>1, TermsStay, WalletsStay, SalesStay, RewardsStay DEF TablesTyped
    <2>3. now <= now' /\ DOMAIN calls \subseteq DOMAIN calls'
      BY <1>2, <1>7, <2>1 DEF sales
    <2>4. BooksTyped'
      BY <1>7, <2>1, <2>2, <2>3, IdleIsFine, TaskMoves
    <2>5. task[t].at # "announce" /\ UNCHANGED <<wallets, announced, crashes>>
      BY <1>1, <1>2, <2>1 DEF terms
    <2> QED BY <2>1, <2>4, <2>5, IdleIsFine, QuietKeeps
  <1> QED BY <1>8, <1>9

LEMMA NotifyKeeps ==
    ASSUME BooksInv, UNCHANGED <<config, active>>, NEW t \in Tasks, notifyIfLevelledUp(t)
    PROVE  BooksInv'
  <1>1. PICK s : s = task[t]
    OBVIOUS
  <1>2. /\ s.at = "announce" /\ task' = [task EXCEPT ![t] = Idle]
        /\ announced' = [announced EXCEPT ![s.host] = @ + s.after - s.before]
        /\ UNCHANGED <<now, commission, priceLevel, wallets, sales, crashes>>
    BY <1>1 DEF notifyIfLevelledUp, At, Done, Goto
  <1>3. /\ s.host \in Hosts /\ s.before \in Int /\ s.after \in Int /\ s.before < s.after
    <2>1. s \in BooksTask /\ Grounded(s)
      BY <1>1, TaskTyped
    <2>2. s.host \in Hosts /\ s.before \in 1..MaxHostLevel /\ s.after \in 1..MaxHostLevel
      BY <1>2, <2>1, BooksTaskKinds
    <2> QED BY <1>2, <2>1, <2>2, ConstantTypes DEF Grounded
  <1>4. TermsTyped /\ announced \in [Hosts -> Nat]
    BY DEF BooksInv, BooksTyped, TablesTyped, TermsTyped
  <1>5. /\ announced' \in [Hosts -> Nat]
        /\ announced'[s.host] = announced[s.host] + (s.after - s.before)
        /\ \A h \in Hosts \ {s.host} : announced'[h] = announced[h]
    <2>1. announced[s.host] \in Nat
      BY <1>3, <1>4
    <2>2. announced[s.host] + s.after - s.before \in Nat
          /\ announced[s.host] + s.after - s.before = announced[s.host] + (s.after - s.before)
      BY <1>3, <2>1
    <2> QED BY <1>2, <1>3, <1>4, <2>2
  <1>6. TermsTyped'
    BY <1>2, <1>4, <1>5 DEF TermsTyped
  <1>7. TablesTyped'
    BY <1>2, <1>6, WalletsStay, SalesStay, RewardsStay DEF BooksInv, BooksTyped, TablesTyped
  <1>8. now <= now' /\ DOMAIN calls \subseteq DOMAIN calls'
    BY <1>2, WalletsOfTables DEF BooksInv, BooksTyped, sales
  <1>9. BooksTyped'
    BY <1>2, <1>7, <1>8, IdleIsFine, TaskMoves DEF BooksInv
  <1>10. BalancesOK'
    BY <1>2 DEF BooksInv, BalancesOK, wallets
  <1>11. ASSUME NEW h \in Hosts
         PROVE  /\ IsFiniteSet(Announcing(h)')
                /\ announced'[h] + Pending(h)' <= Level(h)' - 1
                /\ crashes' = 0 => announced'[h] + Pending(h)' = Level(h)' - 1
    <2>1. /\ IsFiniteSet(Announcing(h)) /\ announced[h] + Pending(h) <= Level(h) - 1
          /\ crashes = 0 => announced[h] + Pending(h) = Level(h) - 1
      BY DEF BooksInv, LevelsTold
    <2>2. GainOf(Idle, h) = 0
      BY DEF GainOf, Idle
    <2>3. /\ IsFiniteSet(Announcing(h)') /\ Pending(h) \in Int
          /\ Pending(h)' = Pending(h) - GainOf(task[t], h) + GainOf(Idle, h)
      BY <1>2, <2>1, IdleIsFine, PendingMoves DEF BooksInv, BooksTyped
    <2>4. announced[h] \in Int /\ Level(h) \in Int
      BY LevelsTyped, ConstantTypes DEF BooksInv, BooksTyped, TablesTyped, TermsTyped
    <2>5. Level(h)' = Level(h)
      BY <1>2 DEF Level, wallets
    <2>6. announced'[h] - announced[h] = GainOf(task[t], h) /\ GainOf(task[t], h) \in Int
      <3>1. CASE h = s.host
        BY <1>1, <1>2, <1>3, <1>5, <2>4, <3>1 DEF GainOf
      <3>2. CASE h # s.host
        BY <1>1, <1>2, <1>5, <2>4, <3>2 DEF GainOf
      <3> QED BY <3>1, <3>2
    <2>7. announced'[h] \in Int /\ crashes' = crashes
      BY <1>2, <1>5
    <2> QED BY <2>1, <2>2, <2>3, <2>4, <2>5, <2>6, <2>7
  <1>12. LevelsTold'
    BY <1>11 DEF LevelsTold
  <1> QED BY <1>9, <1>10, <1>12 DEF BooksInv

LEMMA PendingNatural ==
    ASSUME BooksInv, NEW h \in Hosts
    PROVE  Pending(h) \in Nat
  <1>1. PICK f : f = [t \in Tasks |-> GainOf(task[t], h)]
    OBVIOUS
  <1>2. IsFiniteSet(Announcing(h)) /\ Announcing(h) \subseteq Tasks
    BY DEF BooksInv, LevelsTold, Announcing, Busy
  <1>3. ASSUME NEW t \in Announcing(h) PROVE f[t] \in Nat
    <2>1. t \in Tasks /\ task[t].at = "announce" /\ task[t].host = h
      BY DEF Announcing, Busy
    <2>2. task[t].before \in 1..MaxHostLevel /\ task[t].after \in 1..MaxHostLevel
      BY <2>1, TaskTyped, BooksTaskKinds
    <2>3. task[t].before < task[t].after
      BY <2>1, TaskTyped DEF Grounded
    <2>4. task[t].after - task[t].before \in Nat
      BY <2>2, <2>3, ConstantTypes
    <2> QED BY <1>1, <2>1, <2>4 DEF GainOf
  <1>4. SumFunctionOnSet(f, Announcing(h)) \in Nat
    BY <1>2, <1>3, SumIsNatural
  <1> QED BY <1>1, <1>4 DEF Pending

\* A restart forgets the announcements in flight.
LEMMA RestartKeeps ==
    ASSUME BooksInv, UNCHANGED <<config, active>>, LedgerRestart
    PROVE  BooksInv'
  <1>1. /\ task' = [t \in Tasks |-> Idle] /\ crashes < MaxCrashes /\ crashes' = crashes + 1
        /\ UNCHANGED <<now, terms, wallets, sales>>
    BY DEF LedgerRestart, TasksLost
  <1>2. crashes \in Nat /\ crashes' \in 0..MaxCrashes /\ crashes' # 0
    BY <1>1, ConstantTypes DEF BooksInv, BooksTyped, TablesTyped
  <1>3. TablesTyped'
    BY <1>1, <1>2, TermsStay, WalletsStay, SalesStay, RewardsStay
    DEF BooksInv, BooksTyped, TablesTyped
  <1>4. BooksTyped'
    BY <1>1, <1>3, IdleIsFine DEF BooksTyped
  <1>5. BalancesOK'
    BY <1>1 DEF BooksInv, BalancesOK, wallets
  <1>6. ASSUME NEW h \in Hosts
        PROVE  /\ IsFiniteSet(Announcing(h)')
               /\ announced'[h] + Pending(h)' <= Level(h)' - 1
    <2>1. Announcing(h)' = {}
      BY <1>1 DEF Announcing, Busy, Idle
    <2>2. Pending(h)' = 0
      BY <2>1, SumOfNone DEF Pending
    <2>3. announced[h] + Pending(h) <= Level(h) - 1 /\ Pending(h) \in Nat
      BY PendingNatural DEF BooksInv, LevelsTold
    <2>4. announced[h] \in Int /\ Level(h) \in Int
      BY LevelsTyped, ConstantTypes DEF BooksInv, BooksTyped, TablesTyped, TermsTyped
    <2>5. Level(h)' = Level(h) /\ announced' = announced
      BY <1>1 DEF Level, wallets, terms
    <2> QED BY <2>1, <2>2, <2>3, <2>4, <2>5, FS_EmptySet
  <1>7. LevelsTold'
    BY <1>2, <1>6 DEF LevelsTold
  <1> QED BY <1>4, <1>5, <1>7 DEF BooksInv

-----------------------------------------------------------------------------
(* Sweeps                                                                    *)

LEMMA PeriodTyped ==
    ASSUME NEW period, NEW at \in Int
    PROVE  periodContaining(period, at) \in Int /\ PeriodLength(period) \in Nat \ {0}
  <1>1. DayLength * DaysPerWeek \in Nat \ {0}
    <2>1. \A a, b \in Nat \ {0} : a * b \in Nat \ {0}
      OBVIOUS
    <2> QED BY <2>1, ConstantTypes
  <1>2. PICK length \in Nat \ {0} : length = PeriodLength(period)
    BY <1>1, ConstantTypes DEF PeriodLength
  <1>3. (at \div length) * length \in Int
    <2>1. at \div length \in Int
      OBVIOUS
    <2> QED BY <2>1
  <1> QED BY <1>2, <1>3 DEF periodContaining

SettleTask == [at : {"settle"}, cutoff : Int, period : Periods, start : Int, left : Int]

LEMMA SweepGoesOn ==
    ASSUME NEW x \in SettleTask, NEW start \in Int, NEW left \in Int
    PROVE  /\ [x EXCEPT !.start = start, !.left = @ - 1] \in SettleTask
           /\ [x EXCEPT !.period = "weekly", !.left = left, !.start = start] \in SettleTask
  <1>1. \A y \in SettleTask : [y EXCEPT !.start = start] \in SettleTask
    BY DEF SettleTask
  <1>2. \A y \in SettleTask : [y EXCEPT !.left = @ - 1] \in SettleTask
    BY DEF SettleTask
  <1>3. \A y \in SettleTask : [y EXCEPT !.left = left] \in SettleTask
    BY DEF SettleTask
  <1>4. \A y \in SettleTask : [y EXCEPT !.period = "weekly"] \in SettleTask
    BY DEF SettleTask, Periods
  <1>5. [[x EXCEPT !.start = start] EXCEPT !.left = @ - 1] \in SettleTask
    BY <1>1, <1>2
  <1>6. [[[x EXCEPT !.period = "weekly"] EXCEPT !.left = left] EXCEPT !.start = start]
            \in SettleTask
    BY <1>1, <1>3, <1>4
  <1> QED BY <1>5, <1>6

LEMMA StartSweepKeeps ==
    ASSUME BooksInv, NEW t \in Tasks, StartSweep(t)
    PROVE  BooksInv'
  <1> DEFINE x == [at |-> "settle", cutoff |-> now - Grace, period |-> "daily",
                   start |-> periodContaining("daily", now - Grace), left |-> DailyLookback]
  <1>1. now - Grace \in Int
    BY WalletsOfTables, ConstantTypes DEF BooksInv, BooksTyped
  <1>2. periodContaining("daily", now - Grace) \in Int
    BY <1>1, PeriodTyped
  <1>3. x \in SettleTask
    BY <1>1, <1>2, ConstantTypes DEF SettleTask, Periods
  <1>4. x.at = "settle" /\ Start(t, x) /\ UNCHANGED <<ledgerVars, config, active>>
    BY DEF StartSweep, rewardVars
  <1> HIDE DEF x
  <1>5. x \in BooksTask /\ x.at # "announce" /\ Grounded(x)
    BY <1>3, <1>4 DEF BooksTask, SettleTask, Grounded
  <1> QED BY <1>4, <1>5, StartKeeps

LEMMA SweepKeeps ==
    ASSUME BooksInv, IsFiniteSet(Hosts), NEW t \in Tasks, settleClosedRewardPeriods(t)
    PROVE  BooksInv'
  <1> DEFINE period == task[t].period
             previous == periodContaining(period, task[t].start - 1)
  <1>1. /\ task[t].at = "settle" /\ settleRewardPeriod(period, previous)
        /\ UNCHANGED <<now, terms, sales, crashes, config, active>>
    BY DEF settleClosedRewardPeriods, At
  <1>2. task[t] \in SettleTask
    BY <1>1, TaskTyped, BooksTaskKinds DEF SettleTask
  <1>3. previous \in Int
    <2>1. task[t].start - 1 \in Int
      BY <1>2 DEF SettleTask
    <2> QED BY <2>1, PeriodTyped
  <1>4. PICK x \in BooksTask : task' = [task EXCEPT ![t] = x] /\ x.at \in {"idle", "settle"}
    <2>1. CASE task[t].left > 1
      <3>1. PICK x : x = [task[t] EXCEPT !.start = previous, !.left = @ - 1]
        OBVIOUS
      <3>2. task' = [task EXCEPT ![t] = x]
        BY <2>1, <3>1 DEF settleClosedRewardPeriods, Goto
      <3>3. x \in SettleTask
        BY <1>2, <1>3, <3>1, SweepGoesOn, ConstantTypes
      <3> QED BY <3>2, <3>3 DEF BooksTask, SettleTask
    <2>2. CASE ~(task[t].left > 1) /\ period = "weekly"
      <3>1. task' = [task EXCEPT ![t] = Idle]
        BY <2>2 DEF settleClosedRewardPeriods, Goto, Done
      <3> QED BY <3>1, IdleIsFine DEF Idle
    <2>3. CASE ~(task[t].left > 1) /\ period # "weekly"
      <3>1. PICK start : start = periodContaining("weekly", task[t].cutoff)
        OBVIOUS
      <3>2. PICK x : x = [task[t] EXCEPT !.period = "weekly", !.left = WeeklyLookback,
                                         !.start = start]
        OBVIOUS
      <3>3. task' = [task EXCEPT ![t] = x]
        BY <2>3, <3>1, <3>2 DEF settleClosedRewardPeriods, Goto
      <3>4. task[t].cutoff \in Int
        BY <1>2 DEF SettleTask
      <3>5. start \in Int
        BY <3>1, <3>4, PeriodTyped
      <3>6. x \in SettleTask
        <4>1. WeeklyLookback \in Int
          BY ConstantTypes
        <4> QED BY <1>2, <3>2, <3>5, <4>1, SweepGoesOn
      <3> QED BY <3>3, <3>6 DEF BooksTask, SettleTask
    <2> QED BY <2>1, <2>2, <2>3
  <1>5. /\ WalletsTyped /\ BalancesOK /\ now \in Nat /\ TablesTyped /\ BooksTyped
    BY WalletsOfTables DEF BooksInv, BooksTyped, TablesTyped
  <1>6. WalletsTyped' /\ BalancesOK' /\ LifetimesKept
    <2>1. CASE Settled(period, previous)
      <3>1. UNCHANGED wallets
        BY <1>1, <2>1 DEF settleRewardPeriod
      <3>2. WalletsTyped'
        BY <1>1, <1>5, <3>1, WalletsStay
      <3> QED BY <1>5, <3>1, <3>2 DEF BalancesOK, LifetimesKept, wallets
    <2>2. CASE ~Settled(period, previous)
      <3>1. PICK winners \in {Winners(period, previous, active)} :
                PayWinners(winners) /\ UNCHANGED balance
        BY <1>1, <2>2 DEF settleRewardPeriod
      <3>2. active \in SUBSET Hosts
        BY <1>5 DEF TablesTyped, RewardsTyped
      <3>3. RightWinners(winners)
        BY <1>5, <3>1, <3>2, WinnersTyped DEF RightWinners
      <3>4. UNCHANGED <<balance, now>>
        BY <1>1, <3>1
      <3> QED BY <1>5, <3>1, <3>3, <3>4, PayWinnersKeeps DEF LifetimesKept
    <2> QED BY <2>1, <2>2
  <1>7. TablesTyped'
    BY <1>1, <1>5, <1>6, TablesAround
  <1>8. now <= now' /\ DOMAIN calls \subseteq DOMAIN calls' /\ UNCHANGED <<announced, crashes>>
    BY <1>1, <1>5 DEF sales, terms
  <1>9. Grounded(x)'
    BY <1>4 DEF Grounded
  <1>10. BooksTyped'
    BY <1>4, <1>5, <1>7, <1>8, <1>9, TaskMoves
  <1>11. task[t].at # "announce" /\ x.at # "announce"
    BY <1>1, <1>4
  <1>12. LevelsTold'
    BY <1>4, <1>6, <1>8, <1>11, LevelsStay DEF BooksInv
  <1> QED BY <1>6, <1>10, <1>12 DEF BooksInv

-----------------------------------------------------------------------------
(* The first state, every step, and what the invariant says of the report    *)

LEMMA BooksInit ==
    ASSUME IsFiniteSet(Users), LedgerInit, RewardsInit, NoTasks
    PROVE  BooksInv
  <1>1. WalletsTyped /\ BalancesOK
    BY InitBalances
  <1>2. /\ now = 0 /\ crashes = 0 /\ calls = <<>> /\ tick = <<>> /\ gift = <<>> /\ message = <<>>
        /\ priceLevel = [h \in Hosts |-> 0] /\ announced = [h \in Hosts |-> 0]
        /\ hostWallet = [h \in Hosts |-> [beans |-> 0, lifetime |-> 0]]
        /\ commission = [h \in Hosts \cup {0} |-> IF h = 0 THEN Head(Commissions) ELSE NoRate]
        /\ config = <<>> /\ active = Hosts
    BY DEF LedgerInit, RewardsInit
  <1>3. TermsTyped
    <2>1. Head(Commissions) \in Range(Commissions)
      <3>1. Commissions \in Seq(BasisPoints) /\ Commissions # <<>>
        BY LedgerConstants
      <3>2. 1 \in DOMAIN Commissions /\ Head(Commissions) = Commissions[1]
        BY <3>1
      <3> QED BY <3>2 DEF Range
    <2>2. Head(Commissions) \in BasisPoints /\ Head(Commissions) # NoRate
      BY <2>1, RatesAreShares
    <2>3. commission \in [Hosts \cup {0} -> BasisPoints \cup {NoRate}] /\ commission[0] # NoRate
      BY <1>2, <2>2
    <2>4. priceLevel \in [Hosts -> 0..MaxHostLevel] /\ announced \in [Hosts -> Nat]
      BY <1>2, ConstantTypes
    <2> QED BY <2>3, <2>4 DEF TermsTyped
  <1>4. SalesTyped /\ RewardsTyped
    BY <1>2 DEF SalesTyped, RewardsTyped
  <1>5. TablesTyped
    BY <1>1, <1>2, <1>3, <1>4, ConstantTypes DEF TablesTyped
  <1>6. BooksTyped
    BY <1>5, IdleIsFine DEF BooksTyped, NoTasks
  <1>7. ASSUME NEW h \in Hosts
        PROVE  IsFiniteSet(Announcing(h)) /\ announced[h] + Pending(h) = Level(h) - 1
               /\ Level(h) \in Int
    <2>1. Announcing(h) = {}
      BY DEF NoTasks, Announcing, Busy, Idle
    <2>2. Pending(h) = 0
      BY <2>1, SumOfNone DEF Pending
    <2>3. Level(h) = 1
      <3>1. Level(h) = levelForLifetimeBeans(0)
        BY <1>2 DEF Level
      <3>2. 0 \div BeansPerLevel = 0
        BY ConstantTypes
      <3>3. Min({MaxHostLevel, 1}) = 1
        BY LeastOfTwo, ConstantTypes
      <3> QED BY <3>1, <3>2, <3>3 DEF levelForLifetimeBeans
    <2> QED BY <1>2, <2>1, <2>2, <2>3, FS_EmptySet
  <1>8. LevelsTold
    BY <1>7 DEF LevelsTold
  <1> QED BY <1>1, <1>6, <1>8 DEF BooksInv

LEMMA LedgerStep ==
    ASSUME BooksInv, UNCHANGED rewardVars, LedgerNext
    PROVE  BooksInv'
  <1>1. UNCHANGED <<config, active>>
    BY DEF rewardVars
  <1>2. CASE LedgerRequest
    BY <1>1, <1>2, SaleRequestKeeps, InitiateCallKeeps, StatusKeeps, CommissionKeeps, MoneyKeeps
    DEF LedgerRequest, WritesStatus
  <1>3. CASE \E t \in Tasks : SaleStep(t)
    BY <1>1, <1>3, SaleCommitsKeeps, NotifyKeeps, SavePriceLevelKeeps DEF SaleStep
  <1>4. CASE Clock
    BY <1>1, <1>4, ClockKeeps
  <1>5. CASE LedgerRestart
    BY <1>1, <1>5, RestartKeeps
  <1> QED BY <1>2, <1>3, <1>4, <1>5 DEF LedgerNext

LEMMA BooksStep ==
    ASSUME IsFiniteSet(Hosts), BooksInv, [RewardsNext]_<<ledgerVars, rewardVars, task>>
    PROVE  BooksInv'
  <1>1. CASE UNCHANGED rewardVars /\ LedgerNext
    BY <1>1, LedgerStep
  <1>2. CASE \E period \in Periods, table \in Tables : setRewardConfig(period, table)
    BY <1>2, ConfigKeeps
  <1>3. CASE \E t \in Tasks : StartSweep(t) \/ settleClosedRewardPeriods(t)
    BY <1>3, StartSweepKeeps, SweepKeeps
  <1>4. CASE \E h \in Hosts : Suspend(h)
    BY <1>4, SuspendKeeps
  <1>5. CASE UNCHANGED <<ledgerVars, rewardVars, task>>
    BY <1>5, StutterKeeps
  <1> QED BY <1>1, <1>2, <1>3, <1>4, <1>5 DEF RewardsNext

\* A sum of the ledger's amounts over an owner's rows is what the owner holds.
LEMMA AmountHeld ==
    ASSUME ledger \in Seq(Entries), NEW wallet, NEW owner, NEW kinds, NEW rows,
           rows = RowsIn(ledger, wallet, owner, kinds)
    PROVE  Amount(rows) = HeldIn(ledger, wallet, owner, kinds)
  <1>1. PICK f, g : /\ f = [i \in rows |-> ledger[i].amount]
                    /\ g = [i \in DOMAIN ledger |-> ledger[i].amount]
    OBVIOUS
  <1>2. IsFiniteSet(rows) /\ rows \subseteq DOMAIN ledger
    <2>1. IsFiniteSet(rows)
      BY RowsFinite
    <2> QED BY <2>1 DEF RowsIn
  <1>3. \A i \in rows : f[i] = g[i]
    BY <1>1, <1>2
  <1>4. SumFunctionOnSet(f, rows) = SumFunctionOnSet(g, rows)
    BY <1>2, <1>3, SameSum
  <1> QED BY <1>1, <1>4 DEF Amount, Sum, HeldIn

LEMMA BooksReconcile ==
    ASSUME BooksInv
    PROVE  WalletsReconcile
  <1>1. /\ TablesTyped /\ TermsTyped /\ WalletsTyped /\ SalesTyped /\ BalancesOK /\ now \in Nat
    BY WalletsOfTables DEF BooksInv, BooksTyped, TablesTyped
  <1>2. \A i \in DOMAIN ledger : ledger[i] \in Entries /\ ledger[i].kind \in EntryKinds
                                 /\ ledger[i].at \in Nat
    <2>1. \A i \in DOMAIN ledger : ledger[i] \in Entries
      BY <1>1 DEF WalletsTyped
    <2> QED BY <2>1 DEF Entries
  <1>3. ASSUME NEW wallet, NEW owner
        PROVE  {i \in DOMAIN ledger : ledger[i].wallet = wallet /\ ledger[i].owner = owner}
                   = RowsIn(ledger, wallet, owner, EntryKinds)
    BY <1>2 DEF RowsIn
  <1>4. reconcileUserWallets = {}
    <2>1. ASSUME NEW u \in Users
          PROVE  balance[u] = Amount({i \in DOMAIN ledger : ledger[i].wallet = "user"
                                                            /\ ledger[i].owner = u})
      <3>1. PICK rows : rows = RowsIn(ledger, "user", u, EntryKinds)
        OBVIOUS
      <3>2. Amount(rows) = HeldIn(ledger, "user", u, EntryKinds)
        BY <1>1, <3>1, AmountHeld DEF WalletsTyped
      <3> QED BY <1>1, <1>3, <3>1, <3>2 DEF BalancesOK
    <2> QED BY <2>1 DEF reconcileUserWallets
  <1>5. reconcileHostWallets = {}
    <2>1. ASSUME NEW h \in Hosts
          PROVE  hostWallet[h].beans = Amount({i \in DOMAIN ledger : ledger[i].wallet = "host"
                                                                     /\ ledger[i].owner = h})
      <3>1. PICK rows : rows = RowsIn(ledger, "host", h, EntryKinds)
        OBVIOUS
      <3>2. Amount(rows) = HeldIn(ledger, "host", h, EntryKinds)
        BY <1>1, <3>1, AmountHeld DEF WalletsTyped
      <3> QED BY <1>1, <1>3, <3>1, <3>2 DEF BalancesOK
    <2> QED BY <2>1 DEF reconcileHostWallets
  <1>6. ASSUME NEW h \in Hosts
        PROVE  hostWallet[h].beans >= 0 /\ hostWallet[h].lifetime = Amount(HostRows(h, EarningKinds))
    <2>1. HostRows(h, EarningKinds) = RowsIn(ledger, "host", h, EarningKinds)
      BY DEF HostRows, RowsIn
    <2>2. hostWallet[h].lifetime = Amount(HostRows(h, EarningKinds))
      BY <1>1, <2>1, AmountHeld DEF BalancesOK, WalletsTyped
    <2>3. hostWallet[h].beans >= 0
      BY <1>1 DEF WalletsTyped
    <2> QED BY <2>2, <2>3
  <1>7. ASSUME NEW h \in Hosts
        PROVE  Sum(LAMBDA t : task[t].after - task[t].before, Announcing(h)) = Pending(h)
    <2>1. PICK f, g : /\ f = [t \in Announcing(h) |-> task[t].after - task[t].before]
                      /\ g = [t \in Tasks |-> GainOf(task[t], h)]
      OBVIOUS
    <2>2. IsFiniteSet(Announcing(h))
      BY DEF BooksInv, LevelsTold
    <2>3. \A t \in Announcing(h) : t \in Tasks /\ task[t].at = "announce" /\ task[t].host = h
      BY DEF Announcing, Busy
    <2>4. \A t \in Announcing(h) : f[t] = g[t]
      BY <2>1, <2>3 DEF GainOf
    <2>5. SumFunctionOnSet(f, Announcing(h)) = SumFunctionOnSet(g, Announcing(h))
      BY <2>2, <2>4, SameSum
    <2> QED BY <2>1, <2>5 DEF Sum, Pending
  <1>8. ASSUME NEW h \in Hosts PROVE announced[h] \in 0..MaxHostLevel
    <2>1. announced[h] + Pending(h) <= Level(h) - 1 /\ Pending(h) \in Nat
      BY PendingNatural DEF BooksInv, LevelsTold
    <2>2. Level(h) \in 1..MaxHostLevel /\ announced[h] \in Nat
      BY <1>1, LevelsTyped DEF TermsTyped
    <2> QED BY <2>1, <2>2, ConstantTypes
  <1>9. LedgerTypeOK
    <2>1. announced \in [Hosts -> 0..MaxHostLevel]
      <3>1. announced \in [Hosts -> Nat]
        BY <1>1 DEF TermsTyped
      <3> QED BY <1>8, <3>1
    <2>2. \A i \in DOMAIN gift : gift[i].context \in Contexts /\ gift[i].host \in Hosts
      <3>1. \A i \in DOMAIN gift : gift[i] \in GiftRow
        BY <1>1 DEF SalesTyped
      <3> QED BY <3>1 DEF GiftRow
    <2>3. \A i \in DOMAIN ledger : ledger[i].at \in 0..now
      BY <1>1, <1>2 DEF WalletsTyped
    <2>4. balance \in [Users -> Int] /\ hostWallet \in [Hosts -> [beans : Int, lifetime : Nat]]
      BY <1>1 DEF WalletsTyped
    <2>5. \A i \in DOMAIN tick : tick[i].call \in DOMAIN calls
      BY <1>1 DEF SalesTyped
    <2>6. /\ commission \in [Hosts \cup {0} -> BasisPoints \cup {NoRate}] /\ commission[0] # NoRate
          /\ priceLevel \in [Hosts -> 0..MaxHostLevel]
          /\ now \in 0..MaxNow /\ crashes \in 0..MaxCrashes
      BY <1>1 DEF TablesTyped, TermsTyped
    <2> QED BY <2>1, <2>2, <2>3, <2>4, <2>5, <2>6 DEF LedgerTypeOK
  <1>10. \A u \in Users : balance[u] >= 0
    BY <1>1 DEF WalletsTyped
  <1>11. \A h \in Hosts : /\ announced[h] + Pending(h) <= Level(h) - 1
                          /\ crashes = 0 => announced[h] + Pending(h) = Level(h) - 1
    BY DEF BooksInv, LevelsTold
  <1> QED BY <1>4, <1>5, <1>6, <1>7, <1>9, <1>10, <1>11 DEF WalletsReconcile

-----------------------------------------------------------------------------

\* The WalletsReconcile of HostLedger's users and hosts (wallet.service.ts, levels.ts):
\* whatever sales, gifts, corrections, withdrawals, rewards and restarts interleave,
\* the reconciliation jobs find no wallet that differs from its ledger, no balance is
\* negative, lifetime beans are what was earned, and every level is told once, or
\* lost with a restart.
THEOREM WalletsAlwaysReconcile ==
    ASSUME IsFiniteSet(Users), IsFiniteSet(Hosts)
    PROVE  RewardsSpec => []WalletsReconcile
  <1>1. LedgerInit /\ RewardsInit /\ NoTasks => BooksInv
    BY BooksInit
  <1>2. BooksInv /\ [RewardsNext]_<<ledgerVars, rewardVars, task>> => BooksInv'
    BY BooksStep
  <1>3. BooksInv => WalletsReconcile
    BY BooksReconcile
  <1> QED BY <1>1, <1>2, <1>3, PTL DEF RewardsSpec

-----------------------------------------------------------------------------
(* What later rows leave alone: the ranking of a period that is over         *)

\* Rows are only added; of earnings, only those of transactions under way or new.
LaterRows ==
    /\ ledger \in Seq(Entries) /\ ledger' \in Seq(Entries) /\ Len(ledger) <= Len(ledger')
    /\ \A i \in DOMAIN ledger : ledger'[i] = ledger[i]
    /\ \A i \in DOMAIN ledger' \ DOMAIN ledger :
           ledger'[i].kind \in EarningKinds => now - MaxTransaction <= ledger'[i].at
NoRewardRows == \A i \in DOMAIN ledger' \ DOMAIN ledger : ledger'[i].kind # "host_reward"
LaterConfig == \/ config' = config
               \/ \E row \in ConfigRow : row.from = now /\ config' = Append(config, row)

LEMMA BeansFixed ==
    ASSUME LaterRows, now \in Nat, NEW h, NEW from \in Int, NEW to \in Int, to <= now - Grace
    PROVE  hostBeansInPeriod(h, from, to)' = hostBeansInPeriod(h, from, to)
  <1>1. PICK rows : rows = Within(HostRows(h, EarningKinds), from, to)
    OBVIOUS
  <1>2. DOMAIN ledger \subseteq DOMAIN ledger' /\ \A i \in DOMAIN ledger : ledger'[i] = ledger[i]
    BY DEF LaterRows
  <1>3. \A i \in DOMAIN ledger' \ DOMAIN ledger :
            ledger'[i].kind \in EarningKinds => to <= ledger'[i].at /\ ledger'[i].at \in Int
    <2>1. \A i \in DOMAIN ledger' : ledger'[i].at \in Int
      <3>1. ledger' \in Seq(Entries)
        BY DEF LaterRows
      <3>2. \A i \in DOMAIN ledger' : ledger'[i] \in Entries
        BY <3>1, MemberTyped
      <3> QED BY <3>2 DEF Entries
    <2> QED BY <2>1, ConstantTypes DEF LaterRows
  <1>4. Within(HostRows(h, EarningKinds), from, to)' = rows
    BY <1>1, <1>2, <1>3 DEF Within, HostRows
  <1>5. rows \subseteq DOMAIN ledger
    BY <1>1 DEF Within, HostRows
  <1>6. [i \in rows |-> ledger'[i].amount] = [i \in rows |-> ledger[i].amount]
    BY <1>2, <1>5
  <1>7. hostBeansInPeriod(h, from, to) = SumFunctionOnSet([i \in rows |-> ledger[i].amount], rows)
    BY <1>1 DEF hostBeansInPeriod, Amount, Sum
  <1>8. hostBeansInPeriod(h, from, to)'
            = SumFunctionOnSet([i \in rows |-> ledger'[i].amount], rows)
    BY <1>4 DEF hostBeansInPeriod, Amount, Sum
  <1> QED BY <1>6, <1>7, <1>8

LEMMA ConfigFixed ==
    ASSUME config \in Seq(ConfigRow), LaterConfig, now \in Nat, NEW period, NEW at \in Int,
           at <= now - Grace
    PROVE  getRewardConfig(period, at)' = getRewardConfig(period, at)
  <1>1. CASE config' = config
    BY <1>1 DEF getRewardConfig
  <1>2. ASSUME NEW row \in ConfigRow, row.from = now, config' = Append(config, row)
        PROVE  getRewardConfig(period, at)' = getRewardConfig(period, at)
    <2>1. PICK rows : rows = {i \in DOMAIN config : config[i].period = period /\ config[i].from <= at}
      OBVIOUS
    <2>2. PICK later : later = {i \in DOMAIN config' : /\ config'[i].period = period
                                                       /\ config'[i].from <= at}
      OBVIOUS
    <2>3. ~(row.from <= at)
      BY <1>2, ConstantTypes
    <2>4. /\ DOMAIN config' = DOMAIN config \cup {Len(config) + 1}
          /\ config'[Len(config) + 1] = row
          /\ \A i \in DOMAIN config : config'[i] = config[i]
      BY <1>2
    <2>5. later = rows
      BY <2>1, <2>2, <2>3, <2>4
    <2>6. getRewardConfig(period, at) = IF rows = {} THEN NoRewards ELSE config[Max(rows)].table
      BY <2>1 DEF getRewardConfig
    <2>7. getRewardConfig(period, at)'
              = IF rows = {} THEN NoRewards ELSE config'[Max(rows)].table
      BY <2>2, <2>5 DEF getRewardConfig
    <2>8. rows # {} => Max(rows) \in DOMAIN config
      <3>1. Len(config) \in Nat /\ DOMAIN config = 1..Len(config)
        OBVIOUS
      <3>2. rows \subseteq 1..Len(config)
        BY <2>1, <3>1
      <3>3. rows # {} => Max(rows) \in rows
        BY <3>1, <3>2, LastIsIn
      <3> QED BY <3>1, <3>2, <3>3
    <2> QED BY <2>4, <2>6, <2>7, <2>8
  <1> QED BY <1>1, <1>2 DEF LaterConfig

LEMMA RankingFixed ==
    ASSUME NEW hosts, NEW from, NEW to, NEW min,
           \A h \in hosts : hostBeansInPeriod(h, from, to)' = hostBeansInPeriod(h, from, to)
    PROVE  rankHosts(hosts, from, to, min)' = rankHosts(hosts, from, to, min)
  <1>1. PICK b : b = [h \in hosts |-> hostBeansInPeriod(h, from, to)]
    OBVIOUS
  <1> DEFINE qualified == {h \in hosts : b[h] >= Max({1, min})}
             ahead(h) == {o \in qualified : b[o] > b[h] \/ (b[o] = b[h] /\ o < h)}
             row(h) == [host |-> h, beans |-> b[h], rank |-> 1 + Cardinality(ahead(h))]
             ranking == {row(h) : h \in qualified}
  <1>2. \A h \in hosts : hostBeansInPeriod(h, from, to) = b[h]
    BY <1>1
  <1>3. \A h \in hosts : hostBeansInPeriod(h, from, to)' = b[h]
    BY <1>2
  <1>4. rankHosts(hosts, from, to, min) = ranking
    <2> DEFINE beans(h) == hostBeansInPeriod(h, from, to)
               qualifying == {h \in hosts : beans(h) >= Max({1, min})}
               before(h) == {o \in qualifying : beans(o) > beans(h) \/ (beans(o) = beans(h) /\ o < h)}
               place(h) == [host |-> h, beans |-> beans(h), rank |-> 1 + Cardinality(before(h))]
    <2>1. rankHosts(hosts, from, to, min) = {place(h) : h \in qualifying}
      BY DEF rankHosts
    <2>2. qualifying = qualified /\ qualifying \subseteq hosts
      BY <1>2
    <2>3. \A h \in qualifying : before(h) = ahead(h)
      BY <1>2, <2>2
    <2>4. \A h \in qualifying : place(h) = row(h)
      <3> HIDE DEF before, ahead, qualifying, qualified
      <3> QED BY <1>2, <2>2, <2>3
    <2> HIDE DEF place, row, qualifying, qualified
    <2> QED BY <2>1, <2>2, <2>4
  <1>5. rankHosts(hosts, from, to, min)' = ranking
    <2> DEFINE beans(h) == hostBeansInPeriod(h, from, to)'
               qualifying == {h \in hosts : beans(h) >= Max({1, min})}
               before(h) == {o \in qualifying : beans(o) > beans(h) \/ (beans(o) = beans(h) /\ o < h)}
               place(h) == [host |-> h, beans |-> beans(h), rank |-> 1 + Cardinality(before(h))]
    <2>1. rankHosts(hosts, from, to, min)' = {place(h) : h \in qualifying}
      BY DEF rankHosts
    <2>2. qualifying = qualified /\ qualifying \subseteq hosts
      BY <1>3
    <2>3. \A h \in qualifying : before(h) = ahead(h)
      BY <1>3, <2>2
    <2>4. \A h \in qualifying : place(h) = row(h)
      <3> HIDE DEF before, ahead, qualifying, qualified
      <3> QED BY <1>3, <2>2, <2>3
    <2> HIDE DEF place, row, qualifying, qualified
    <2> QED BY <2>1, <2>2, <2>4
  <1> QED BY <1>4, <1>5

\* The winners of a ranking under a table.
WinnersOf(table, ranked) ==
    {[host |-> r.host, rank |-> r.rank, beans |-> r.beans, reward |-> table.tiers[r.rank]] :
         r \in {p \in ranked : table.enabled /\ p.rank <= Len(table.tiers)}}

LEMMA WinnersFixed ==
    ASSUME config \in Seq(ConfigRow), LaterConfig, LaterRows, now \in Nat,
           NEW period, NEW start \in Int, NEW hosts, End(period, start) <= now - Grace
    PROVE  Winners(period, start, hosts)' = Winners(period, start, hosts)
  <1>1. PICK end, table : end = End(period, start) /\ table = getRewardConfig(period, end)
    OBVIOUS
  <1>2. end \in Int /\ end <= now - Grace
    BY <1>1, PeriodTyped DEF End
  <1>3. getRewardConfig(period, end)' = table
    BY <1>1, <1>2, ConfigFixed
  <1>4. \A h \in hosts : hostBeansInPeriod(h, start, end)' = hostBeansInPeriod(h, start, end)
    BY <1>2, BeansFixed
  <1>5. PICK ranked : ranked = rankHosts(hosts, start, end, table.min)
    OBVIOUS
  <1>6. rankHosts(hosts, start, end, table.min)' = ranked
    BY <1>4, <1>5, RankingFixed
  <1>7. Winners(period, start, hosts) = WinnersOf(table, ranked)
    BY <1>1, <1>5 DEF Winners, WinnersOf
  <1>8. Winners(period, start, hosts)' = WinnersOf(table, ranked)
    <2>1. end = End(period, start)'
      BY <1>1 DEF End, PeriodLength
    <2> QED BY <1>3, <1>6, <2>1 DEF Winners, WinnersOf
  <1> QED BY <1>7, <1>8

-----------------------------------------------------------------------------
(* The invariant of settled periods                                          *)

\* The k-th period of a kind, and the one an instant is in.
LEMMA PeriodsAround ==
    ASSUME NEW period, NEW at \in Int
    PROVE  \E k \in Int : /\ periodContaining(period, at) = k * PeriodLength(period)
                          /\ k * PeriodLength(period) <= at
                          /\ at < k * PeriodLength(period) + PeriodLength(period)
  <1>1. PICK length \in Nat \ {0} : length = PeriodLength(period)
    BY PeriodTyped
  <1>2. PICK k \in Int : k = at \div length
    <2>1. at \div length \in Int
      OBVIOUS
    <2> QED BY <2>1
  <1>3. PICK m \in Int : m = k * length
    OBVIOUS
  <1>4. m <= at /\ at < m + length
    BY <1>2, <1>3
  <1> QED BY <1>1, <1>2, <1>3, <1>4 DEF periodContaining

LEMMA PreviousPeriod ==
    ASSUME NEW period, NEW k \in Int, NEW start, start = k * PeriodLength(period)
    PROVE  End(period, periodContaining(period, start - 1)) <= start
  <1>1. PICK length \in Nat \ {0} : length = PeriodLength(period)
    BY PeriodTyped
  <1>2. start \in Int
    BY <1>1
  <1>3. PICK j \in Int : /\ periodContaining(period, start - 1) = j * length
                         /\ j * length <= start - 1
    BY <1>1, <1>2, PeriodsAround
  <1>4. j < k
    <2> SUFFICES ASSUME j >= k PROVE FALSE
      OBVIOUS
    <2>1. PICK d \in Nat : j = k + d
      <3>1. j - k \in Nat /\ j = k + (j - k)
        OBVIOUS
      <3> QED BY <3>1
    <2>2. j * length = k * length + d * length /\ d * length \in Nat
      BY <2>1
    <2> QED BY <1>1, <1>3, <2>2
  <1>5. PICK d \in Nat : k = j + 1 + d
    <2>1. k - j - 1 \in Nat /\ k = j + 1 + (k - j - 1)
      BY <1>4
    <2> QED BY <2>1
  <1>6. k * length = j * length + length + d * length /\ d * length \in Nat
    BY <1>5
  <1> QED BY <1>1, <1>3, <1>6 DEF End

\* No transaction outlives its time, and a sweep is at a period that ended before
\* the last one it could miss began.
InTime(x) ==
    /\ x.at = "transfer" => now - x.began <= MaxTransaction
    /\ x.at = "settle" => /\ x.start <= x.cutoff /\ x.cutoff <= now - Grace
                          /\ \E k \in Int : x.start = k * PeriodLength(x.period)
TasksInTime == \A t \in Tasks : InTime(task[t])

SettledRight(s) ==
    /\ s.start \in Int /\ s.active \in SUBSET Hosts
    /\ End(s.period, s.start) <= now - Grace
    /\ RightWinners(s.winners) /\ s.winners = Winners(s.period, s.start, s.active)

Rewarded(h, settled) == SumFunctionOnSet([s \in settled |-> RewardOf(h, s.winners)], settled)

RanksInv ==
    /\ TasksInTime
    /\ IsFiniteSet(settlement) /\ \A s \in settlement : SettledRight(s)
    /\ \A s, z \in settlement : s.period = z.period /\ s.start = z.start => s = z
    /\ \A h \in Hosts : HeldIn(ledger, "host", h, {"host_reward"}) = Rewarded(h, settlement)

\* What ended a grace ago has still done so later.
LEMMA StillBefore ==
    ASSUME NEW end \in Int, NEW grace \in Int, NEW before \in Int, NEW after \in Int,
           end <= before - grace, before <= after
    PROVE  end <= after - grace
  OBVIOUS

LEMMA RightStays ==
    ASSUME config \in Seq(ConfigRow), LaterConfig, LaterRows, now \in Nat, now' \in Nat,
           now <= now', NEW s, SettledRight(s)
    PROVE  SettledRight(s)'
  <1>1. /\ s.start \in Int /\ End(s.period, s.start) <= now - Grace
        /\ s.winners = Winners(s.period, s.start, s.active)
        /\ RightWinners(s.winners) /\ s.active \in SUBSET Hosts
    BY DEF SettledRight
  <1>2. Winners(s.period, s.start, s.active)' = Winners(s.period, s.start, s.active)
    BY <1>1, WinnersFixed
  <1>3. End(s.period, s.start) <= now' - Grace
    <2>1. PICK end : end = End(s.period, s.start)
      OBVIOUS
    <2>2. PeriodLength(s.period) \in Nat
      BY PeriodTyped, ConstantTypes
    <2>3. end \in Int
      BY <1>1, <2>1, <2>2 DEF End
    <2>4. PICK grace, before, after :
              grace = Grace /\ before = now /\ after = now' /\ grace \in Int
      BY ConstantTypes
    <2>5. /\ before \in Int /\ after \in Int /\ before <= after
          /\ end <= before - grace
      BY <1>1, <2>1, <2>4
    <2>6. end <= after - grace
      BY <2>3, <2>4, <2>5, StillBefore
    <2> QED BY <2>1, <2>4, <2>6
  <1> QED BY <1>1, <1>2, <1>3 DEF SettledRight, RightWinners, End, PeriodLength

\* Rows of no reward leave the rewards alone.
LEMMA RewardsUnmoved ==
    ASSUME LaterRows, NoRewardRows, NEW h
    PROVE  HeldIn(ledger, "host", h, {"host_reward"})' = HeldIn(ledger, "host", h, {"host_reward"})
  <1>1. PICK rows, f, g : /\ rows = RowsIn(ledger, "host", h, {"host_reward"})
                          /\ f = [i \in DOMAIN ledger |-> ledger[i].amount]
                          /\ g = [i \in DOMAIN ledger' |-> ledger'[i].amount]
    OBVIOUS
  <1>2. /\ DOMAIN ledger \subseteq DOMAIN ledger'
        /\ \A i \in DOMAIN ledger : ledger'[i] = ledger[i]
        /\ \A i \in DOMAIN ledger' \ DOMAIN ledger : ledger'[i].kind # "host_reward"
    BY DEF LaterRows, NoRewardRows
  <1>3. RowsIn(ledger', "host", h, {"host_reward"}) = rows
    BY <1>1, <1>2 DEF RowsIn
  <1>4. IsFiniteSet(rows) /\ rows \subseteq DOMAIN ledger
    <2>1. IsFiniteSet(rows)
      BY <1>1, RowsFinite DEF LaterRows
    <2> QED BY <1>1, <2>1 DEF RowsIn
  <1>5. \A i \in rows : f[i] = g[i]
    BY <1>1, <1>2, <1>4
  <1>6. SumFunctionOnSet(f, rows) = SumFunctionOnSet(g, rows)
    BY <1>4, <1>5, SameSum
  <1> QED BY <1>1, <1>3, <1>6 DEF HeldIn

\* What every step but the settling of a period does to it.
LEMMA RanksStay ==
    ASSUME RanksInv, UNCHANGED settlement, config \in Seq(ConfigRow), LaterConfig, LaterRows,
           NoRewardRows, now \in Nat, now' \in Nat, now <= now', TasksInTime'
    PROVE  RanksInv'
  <1>1. \A s \in settlement : SettledRight(s)'
    BY RightStays DEF RanksInv
  <1>2. \A h \in Hosts : HeldIn(ledger, "host", h, {"host_reward"})'
                             = HeldIn(ledger, "host", h, {"host_reward"})
    BY RewardsUnmoved
  <1>3. /\ IsFiniteSet(settlement') /\ \A s \in settlement' : SettledRight(s)'
        /\ \A s, z \in settlement' : s.period = z.period /\ s.start = z.start => s = z
    BY <1>1 DEF RanksInv
  <1>4. \A h \in Hosts : HeldIn(ledger, "host", h, {"host_reward"})' = Rewarded(h, settlement')
    BY <1>2 DEF RanksInv
  <1> QED BY <1>3, <1>4 DEF RanksInv, Rewarded

-----------------------------------------------------------------------------
(* Steps that settle nothing                                                 *)

\* A step that adds no row, or rows of no reward, and turns no row of the
\* configuration.
LEMMA RowsStay ==
    ASSUME WalletsTyped, UNCHANGED ledger
    PROVE  LaterRows /\ NoRewardRows
  BY DEF WalletsTyped, LaterRows, NoRewardRows

LEMMA InTimeStays ==
    ASSUME NEW x, InTime(x), UNCHANGED now
    PROVE  InTime(x)'
  BY DEF InTime, PeriodLength

LEMMA TasksInTimeStay ==
    ASSUME BooksInv, TasksInTime, UNCHANGED now,
           \/ UNCHANGED task
           \/ \E t \in Tasks : \E x : task' = [task EXCEPT ![t] = x] /\ InTime(x)
           \/ TasksLost
    PROVE  TasksInTime'
  <1>1. DOMAIN task = Tasks
    BY DEF BooksInv, BooksTyped
  <1>2. CASE UNCHANGED task
    BY <1>2, InTimeStays DEF TasksInTime
  <1>3. CASE TasksLost
    BY <1>3 DEF TasksInTime, TasksLost, Idle, InTime
  <1>4. ASSUME NEW t \in Tasks, NEW x, task' = [task EXCEPT ![t] = x], InTime(x)
        PROVE  TasksInTime'
    <2>1. ASSUME NEW s \in Tasks PROVE InTime(task'[s])
      <3>1. task'[s] = x \/ task'[s] = task[s]
        BY <1>1, <1>4
      <3> QED BY <1>4, <3>1 DEF TasksInTime
    <2>2. ASSUME NEW s \in Tasks PROVE InTime(task[s])'
      <3>1. PICK y : y = task'[s]
        OBVIOUS
      <3>2. InTime(y)'
        BY <2>1, <3>1, InTimeStays
      <3> QED BY <3>1, <3>2 DEF InTime
    <2> QED BY <2>2 DEF TasksInTime
  <1> QED BY <1>2, <1>3, <1>4

\* What every such step is.
RanksUntouched ==
    /\ UNCHANGED settlement /\ LaterConfig /\ LaterRows /\ NoRewardRows
    /\ now <= now' /\ TasksInTime'

LEMMA UntouchedKeeps ==
    ASSUME BooksInv, BooksInv', RanksInv, RanksUntouched
    PROVE  RanksInv'
  <1>1. config \in Seq(ConfigRow) /\ now \in Nat /\ now' \in Nat
    BY WalletsOfTables, ConstantTypes DEF BooksInv, BooksTyped, TablesTyped, RewardsTyped
  <1> QED BY <1>1, RanksStay DEF RanksUntouched

\* A step that changes neither books nor clock.
LEMMA QuietRanks ==
    ASSUME BooksInv, TasksInTime, UNCHANGED <<now, ledger, config, settlement>>,
           \/ UNCHANGED task
           \/ \E t \in Tasks : \E x : task' = [task EXCEPT ![t] = x] /\ InTime(x)
           \/ TasksLost
    PROVE  RanksUntouched
  <1>1. WalletsTyped /\ now \in Nat
    BY WalletsOfTables DEF BooksInv, BooksTyped, TablesTyped
  <1>2. LaterRows /\ NoRewardRows
    BY <1>1, RowsStay
  <1>3. TasksInTime'
    BY TasksInTimeStay
  <1> QED BY <1>1, <1>2, <1>3 DEF RanksUntouched, LaterConfig

LEMMA SellingRanks ==
    ASSUME BooksInv, TasksInTime, UNCHANGED rewardVars, NEW t \in Tasks, NEW kind, NEW u, NEW h,
           NEW what, NEW price, NEW points, Selling(t, kind, u, h, what, price, points)
    PROVE  RanksUntouched
  <1>1. PICK x : x = [at |-> "transfer", kind |-> kind, user |-> u, host |-> h, what |-> what,
                      price |-> price, points |-> points, began |-> now]
    OBVIOUS
  <1>2. task' = [task EXCEPT ![t] = x]
    BY <1>1 DEF Selling, Start
  <1>3. InTime(x)
    <2>1. now \in Nat
      BY WalletsOfTables DEF BooksInv, BooksTyped
    <2> QED BY <1>1, <2>1, ConstantTypes DEF InTime
  <1>4. UNCHANGED <<now, ledger, config, settlement>>
    BY DEF Selling, ledgerVars, wallets, rewardVars
  <1> QED BY <1>2, <1>3, <1>4, QuietRanks

LEMMA SaleRequestRanks ==
    ASSUME BooksInv, TasksInTime, UNCHANGED rewardVars, NEW t \in Tasks, SaleRequest(t)
    PROVE  RanksUntouched
  <1>1. ASSUME NEW c \in DOMAIN calls, runBillingTick(t, c) PROVE RanksUntouched
    BY <1>1, SellingRanks DEF runBillingTick
  <1>2. ASSUME NEW u \in Users, NEW h \in Hosts, NEW context, sendGift(t, u, h, context)
        PROVE  RanksUntouched
    BY <1>2, SellingRanks DEF sendGift
  <1>3. ASSUME NEW u \in Users, NEW h \in Hosts, sendPaidUserMessage(t, u, h)
        PROVE  RanksUntouched
    BY <1>3, SellingRanks DEF sendPaidUserMessage
  <1>4. ASSUME NEW h \in Hosts, NEW level, setHostPriceLevel(t, h, level)
        PROVE  RanksUntouched
    <2>1. PICK x : x = [at |-> "savePriceLevel", host |-> h, level |-> level]
      OBVIOUS
    <2>2. task' = [task EXCEPT ![t] = x] /\ InTime(x)
      BY <1>4, <2>1 DEF setHostPriceLevel, Start, InTime
    <2>3. UNCHANGED <<now, ledger, config, settlement>>
      BY <1>4 DEF setHostPriceLevel, ledgerVars, wallets, rewardVars
    <2> QED BY <2>2, <2>3, QuietRanks
  <1> QED BY <1>1, <1>2, <1>3, <1>4 DEF SaleRequest

\* One row of no earning and no reward.
LEMMA MovementRanks ==
    ASSUME BooksInv, BooksInv', TasksInTime, UNCHANGED <<now, config, settlement, task>>,
           NEW wallet, NEW owner, NEW amount, NEW kind,
           kind \in {"recharge", "dev_credit", "adjustment", "refund", "withdrawal"},
           ledger' = Append(ledger, Entry(wallet, owner, amount, kind, 0, now))
    PROVE  RanksUntouched
  <1>1. /\ ledger \in Seq(Entries) /\ ledger' \in Seq(Entries) /\ now \in Nat
        /\ kind \notin EarningKinds /\ kind # "host_reward"
    <2>1. WalletsTyped /\ WalletsTyped' /\ now \in Nat
      BY WalletsOfTables DEF BooksInv, BooksTyped, TablesTyped
    <2> QED BY <2>1 DEF WalletsTyped, EarningKinds
  <1>2. PICK e : e = Entry(wallet, owner, amount, kind, 0, now) /\ e.kind = kind
    BY DEF Entry
  <1>3. /\ Len(ledger) <= Len(ledger') /\ \A i \in DOMAIN ledger : ledger'[i] = ledger[i]
        /\ \A i \in DOMAIN ledger' \ DOMAIN ledger : ledger'[i] = e
    BY <1>1, <1>2
  <1>4. LaterRows /\ NoRewardRows
    BY <1>1, <1>2, <1>3 DEF LaterRows, NoRewardRows
  <1>5. TasksInTime'
    BY TasksInTimeStay
  <1> QED BY <1>1, <1>4, <1>5 DEF RanksUntouched, LaterConfig

LEMMA RequestRanks ==
    ASSUME BooksInv, BooksInv', TasksInTime, UNCHANGED rewardVars, LedgerRequest
    PROVE  RanksUntouched
  <1>0. UNCHANGED <<config, settlement>>
    BY DEF rewardVars
  <1>1. ASSUME NEW u \in Users, NEW h \in Hosts, NEW type, initiateCall(u, h, type)
        PROVE  RanksUntouched
    <2>1. UNCHANGED <<now, ledger, task>>
      BY <1>1 DEF initiateCall, wallets
    <2> QED BY <1>0, <2>1, QuietRanks
  <1>2. ASSUME NEW c \in DOMAIN calls, WritesStatus(c) PROVE RanksUntouched
    <2>1. UNCHANGED <<now, ledger, task>>
      BY <1>2 DEF WritesStatus, acceptCall, endCall, wallets
    <2> QED BY <1>0, <2>1, QuietRanks
  <1>3. ASSUME NEW h, NEW points, createCommissionConfig(h, points) PROVE RanksUntouched
    <2>1. UNCHANGED <<now, ledger, task>>
      BY <1>3 DEF createCommissionConfig, wallets
    <2> QED BY <1>0, <2>1, QuietRanks
  <1>4. ASSUME NEW u \in Users, NEW kind \in {"recharge", "dev_credit"}, creditUserWallet(u, kind)
        PROVE  RanksUntouched
    <2>1. UNCHANGED <<now, task>> /\ ledger' = Append(ledger, Entry("user", u, 1, kind, 0, now))
      BY <1>4 DEF creditUserWallet
    <2> QED BY <1>0, <2>1, MovementRanks
  <1>5. ASSUME NEW u \in Users, NEW amount \in Int, NEW kind \in {"adjustment", "refund"},
               adjustUserWallet(u, amount, kind)
        PROVE  RanksUntouched
    <2>1. /\ UNCHANGED <<now, task>>
          /\ ledger' = Append(ledger, Entry("user", u, amount, kind, 0, now))
      BY <1>5 DEF adjustUserWallet
    <2> QED BY <1>0, <2>1, MovementRanks
  <1>6. ASSUME NEW h \in Hosts, debitHostBeans(h) PROVE RanksUntouched
    <2>1. /\ UNCHANGED <<now, task>>
          /\ ledger' = Append(ledger, Entry("host", h, -1, "withdrawal", 0, now))
      BY <1>6 DEF debitHostBeans
    <2> QED BY <1>0, <2>1, MovementRanks
  <1>7. ASSUME NEW h \in Hosts, ReturnBeans(h) PROVE RanksUntouched
    <2>1. /\ UNCHANGED <<now, task>>
          /\ ledger' = Append(ledger, Entry("host", h, 1, "withdrawal", 0, now))
      BY <1>7 DEF ReturnBeans, CreditHostBeans
    <2> QED BY <1>0, <2>1, MovementRanks
  <1> QED BY <1>1, <1>2, <1>3, <1>4, <1>5, <1>6, <1>7, SaleRequestRanks
          DEF LedgerRequest, WritesStatus

\* A sale's rows bear the time its transaction began, which is not long ago.
LEMMA CommitRanks ==
    ASSUME BooksInv, BooksInv', TasksInTime, UNCHANGED rewardVars, NEW t \in Tasks, SaleCommits(t)
    PROVE  RanksUntouched
  <1> DEFINE s == task[t]
             beans == BeansFor(s.price, s.points)
  <1>1. /\ s.at = "transfer" /\ s.kind \in EarningKinds
        /\ now \in Nat /\ s.began \in Nat /\ now - MaxTransaction <= s.began
    <2>1. s.at = "transfer" /\ now \in Nat
      BY WalletsOfTables DEF SaleCommits, At, BooksInv, BooksTyped
    <2>2. s \in SaleTask
      BY <2>1, TaskTyped, BooksTaskKinds
    <2>3. s.kind \in EarningKinds /\ s.began \in Nat
      BY <2>2 DEF SaleTask
    <2>4. now - s.began <= MaxTransaction
      BY <2>1 DEF TasksInTime, InTime
    <2> QED BY <2>1, <2>3, <2>4, ConstantTypes
  <1>2. UNCHANGED <<now, config, settlement>>
    BY DEF SaleCommits, rewardVars
  <1>3. /\ ledger \in Seq(Entries) /\ ledger' \in Seq(Entries) /\ WalletsTyped
    <2>1. WalletsTyped /\ WalletsTyped'
      BY WalletsOfTables DEF BooksInv, BooksTyped, TablesTyped
    <2> QED BY <2>1 DEF WalletsTyped
  <1>4. LaterRows /\ NoRewardRows
    <2>1. CASE UNCHANGED wallets
      BY <1>3, <2>1, RowsStay DEF wallets
    <2>2. ASSUME NEW ref, transferUserToHost(s, beans, ref) PROVE LaterRows /\ NoRewardRows
      <3>1. PICK a, b : /\ a = Entry("user", s.user, -s.price, s.kind, ref, s.began)
                        /\ b = Entry("host", s.host, beans, s.kind, ref, s.began)
        OBVIOUS
      <3>2. ledger' = ledger \o <<a, b>>
        BY <2>2, <3>1 DEF transferUserToHost
      <3>3. /\ Len(ledger) <= Len(ledger') /\ \A i \in DOMAIN ledger : ledger'[i] = ledger[i]
            /\ \A i \in DOMAIN ledger' \ DOMAIN ledger : ledger'[i] \in {a, b}
        BY <1>3, <3>2
      <3>4. \A e \in {a, b} : e.at = s.began /\ e.kind = s.kind
        BY <3>1 DEF Entry
      <3>5. \A i \in DOMAIN ledger' \ DOMAIN ledger :
                ledger'[i].at = s.began /\ ledger'[i].kind = s.kind
        BY <3>3, <3>4
      <3>6. s.kind # "host_reward"
        BY <1>1 DEF EarningKinds
      <3> HIDE DEF s
      <3> QED BY <1>1, <1>3, <3>3, <3>5, <3>6 DEF LaterRows, NoRewardRows
    <2>3. UNCHANGED wallets \/ RecordTick(s, beans) \/ RecordGift(s, beans)
          \/ RecordMessage(s, beans)
      BY DEF SaleCommits
    <2> HIDE DEF s, beans
    <2> QED BY <2>1, <2>2, <2>3 DEF RecordTick, RecordGift, RecordMessage
  <1>5. \E x : task' = [task EXCEPT ![t] = x] /\ InTime(x)
    <2>1. \A h, l, m : InTime([at |-> "announce", host |-> h, before |-> l, after |-> m])
      BY DEF InTime
    <2>2. InTime(Idle)
      BY DEF InTime, Idle
    <2> QED BY <2>1, <2>2 DEF SaleCommits, Goto, Done
  <1>6. TasksInTime'
    BY <1>2, <1>5, TasksInTimeStay
  <1> QED BY <1>1, <1>2, <1>4, <1>6 DEF RanksUntouched, LaterConfig

LEMMA OtherSaleStepRanks ==
    ASSUME BooksInv, TasksInTime, UNCHANGED rewardVars, NEW t \in Tasks,
           notifyIfLevelledUp(t) \/ SavePriceLevel(t)
    PROVE  RanksUntouched
  <1>1. UNCHANGED <<now, ledger, config, settlement>>
    BY DEF notifyIfLevelledUp, SavePriceLevel, wallets, rewardVars
  <1>2. task' = [task EXCEPT ![t] = Idle] /\ InTime(Idle)
    BY DEF notifyIfLevelledUp, SavePriceLevel, Done, Goto, InTime, Idle
  <1> QED BY <1>1, <1>2, QuietRanks

\* Time goes on while no transaction has had all of its time.
LEMMA ClockRanks ==
    ASSUME BooksInv, TasksInTime, UNCHANGED rewardVars, Clock
    PROVE  RanksUntouched
  <1>1. /\ now \in Nat /\ now' = now + 1 /\ task' = task /\ UNCHANGED <<ledger, config, settlement>>
        /\ \A t \in Tasks : task[t].at = "transfer" => now - task[t].began < MaxTransaction
    BY WalletsOfTables DEF Clock, BooksInv, BooksTyped, wallets, rewardVars, At
  <1>2. ASSUME NEW t \in Tasks PROVE InTime(task[t])'
    <2>1. PICK x : x = task[t]
      OBVIOUS
    <2>2. /\ x.at = "transfer" => x.began \in Nat
          /\ x.at = "settle" => x.cutoff \in Int
      <3>1. x \in BooksTask
        BY <2>1, TaskTyped
      <3> QED BY <3>1, BooksTaskKinds DEF SaleTask
    <2>3. x.at = "transfer" => now' - x.began <= MaxTransaction
      BY <1>1, <2>1, <2>2, ConstantTypes
    <2>4. x.at = "settle" => /\ x.start <= x.cutoff /\ x.cutoff <= now' - Grace
                             /\ \E k \in Int : x.start = k * PeriodLength(x.period)
      <3>1. InTime(x)
        BY <2>1 DEF TasksInTime
      <3>2. ASSUME x.at = "settle" PROVE x.cutoff <= now' - Grace
        BY <1>1, <2>2, <3>1, <3>2, ConstantTypes DEF InTime
      <3> QED BY <3>1, <3>2 DEF InTime
    <2>5. InTime(x)'
      BY <2>3, <2>4 DEF InTime, PeriodLength
    <2> QED BY <1>1, <2>1, <2>5 DEF InTime
  <1>3. WalletsTyped
    BY WalletsOfTables DEF BooksInv, BooksTyped, TablesTyped
  <1>4. LaterRows /\ NoRewardRows
    BY <1>1, <1>3, RowsStay
  <1> QED BY <1>1, <1>2, <1>4 DEF RanksUntouched, LaterConfig, TasksInTime

LEMMA LedgerRanks ==
    ASSUME BooksInv, BooksInv', TasksInTime, UNCHANGED rewardVars, LedgerNext
    PROVE  RanksUntouched
  <1>1. CASE LedgerRequest
    BY <1>1, RequestRanks
  <1>2. CASE \E t \in Tasks : SaleStep(t)
    BY <1>2, CommitRanks, OtherSaleStepRanks DEF SaleStep
  <1>3. CASE Clock
    BY <1>3, ClockRanks
  <1>4. CASE LedgerRestart
    <2>1. UNCHANGED <<now, ledger, config, settlement>> /\ TasksLost
      BY <1>4 DEF LedgerRestart, wallets, rewardVars
    <2> QED BY <2>1, QuietRanks
  <1> QED BY <1>1, <1>2, <1>3, <1>4 DEF LedgerNext

LEMMA ConfigRanks ==
    ASSUME BooksInv, TasksInTime, NEW period \in Periods, NEW table \in Tables,
           setRewardConfig(period, table)
    PROVE  RanksUntouched
  <1>1. PICK row : row = [period |-> period, table |-> table, from |-> now]
    OBVIOUS
  <1>2. config' = Append(config, row) /\ UNCHANGED <<now, ledger, settlement, task>>
    BY <1>1 DEF setRewardConfig, ledgerVars, wallets
  <1>3. WalletsTyped /\ now \in Nat
    BY WalletsOfTables DEF BooksInv, BooksTyped, TablesTyped
  <1>4. LaterRows /\ NoRewardRows
    BY <1>2, <1>3, RowsStay
  <1>5. LaterConfig
    BY <1>1, <1>2, <1>3 DEF LaterConfig, ConfigRow
  <1>6. TasksInTime'
    BY <1>2, TasksInTimeStay
  <1> QED BY <1>2, <1>3, <1>4, <1>5, <1>6 DEF RanksUntouched

LEMMA SuspendRanks ==
    ASSUME BooksInv, TasksInTime, NEW h \in Hosts, Suspend(h)
    PROVE  RanksUntouched
  <1>1. UNCHANGED <<now, ledger, config, settlement, task>>
    BY DEF Suspend, ledgerVars, wallets
  <1> QED BY <1>1, QuietRanks

LEMMA StartSweepRanks ==
    ASSUME BooksInv, TasksInTime, NEW t \in Tasks, StartSweep(t)
    PROVE  RanksUntouched
  <1>1. PICK cutoff, start : cutoff = now - Grace /\ start = periodContaining("daily", cutoff)
    OBVIOUS
  <1>2. PICK x : x = [at |-> "settle", cutoff |-> cutoff, period |-> "daily", start |-> start,
                      left |-> DailyLookback]
    OBVIOUS
  <1>3. task' = [task EXCEPT ![t] = x] /\ UNCHANGED <<now, ledger, config, settlement>>
    BY <1>1, <1>2 DEF StartSweep, Start, ledgerVars, wallets, rewardVars
  <1>4. InTime(x)
    <2>1. now \in Nat /\ cutoff \in Int
      BY <1>1, WalletsOfTables, ConstantTypes DEF BooksInv, BooksTyped
    <2>2. PICK k \in Int : start = k * PeriodLength("daily") /\ start <= cutoff
      BY <1>1, <2>1, PeriodsAround
    <2>3. cutoff <= now - Grace
      BY <1>1, <2>1, ConstantTypes
    <2> QED BY <1>2, <2>2, <2>3 DEF InTime
  <1> QED BY <1>3, <1>4, QuietRanks

-----------------------------------------------------------------------------
(* The step that settles a period                                            *)

\* The period a sweep is about to settle is over for good, and so is the next.
LEMMA SweepInTime ==
    ASSUME NEW x \in SettleTask, InTime(x), now \in Nat,
           NEW previous, previous = periodContaining(x.period, x.start - 1)
    PROVE  /\ previous \in Int /\ End(x.period, previous) <= now - Grace
           /\ InTime([x EXCEPT !.start = previous, !.left = @ - 1])
           /\ InTime([x EXCEPT !.period = "weekly", !.left = WeeklyLookback,
                               !.start = periodContaining("weekly", x.cutoff)])
  <1>1. /\ x.at = "settle" /\ x.cutoff \in Int /\ x.start \in Int
        /\ x.start <= x.cutoff /\ x.cutoff <= now - Grace
    BY DEF SettleTask, InTime
  <1>2. PICK k \in Int : x.start = k * PeriodLength(x.period)
    BY <1>1 DEF InTime
  <1>3. PICK j \in Int : previous = j * PeriodLength(x.period) /\ previous <= x.start - 1
    <2>1. x.start - 1 \in Int
      BY <1>1
    <2> QED BY <2>1, PeriodsAround
  <1>4. previous \in Int /\ End(x.period, previous) \in Int
    <2>1. x.start - 1 \in Int
      BY <1>1
    <2>2. previous \in Int /\ PeriodLength(x.period) \in Nat \ {0}
      BY <2>1, PeriodTyped
    <2> QED BY <2>2 DEF End
  <1>5. End(x.period, previous) <= x.start
    BY <1>2, PreviousPeriod
  <1>6. PICK start : start = periodContaining("weekly", x.cutoff)
    OBVIOUS
  <1>7. PICK i \in Int : start = i * PeriodLength("weekly") /\ start <= x.cutoff
    BY <1>1, <1>6, PeriodsAround
  <1>8. PICK y : y = [x EXCEPT !.start = previous, !.left = @ - 1]
    OBVIOUS
  <1>9. y.at = "settle" /\ y.start = previous /\ y.period = x.period /\ y.cutoff = x.cutoff
    BY <1>8 DEF SettleTask
  <1>10. PICK w : w = [x EXCEPT !.period = "weekly", !.left = WeeklyLookback, !.start = start]
    OBVIOUS
  <1>11. w.at = "settle" /\ w.start = start /\ w.period = "weekly" /\ w.cutoff = x.cutoff
    BY <1>10 DEF SettleTask
  <1>12. InTime(y)
    BY <1>1, <1>3, <1>4, <1>9 DEF InTime
  <1>13. InTime(w)
    BY <1>1, <1>7, <1>11 DEF InTime
  <1>14. End(x.period, previous) <= now - Grace
    BY <1>1, <1>4, <1>5, ConstantTypes
  <1> QED BY <1>4, <1>6, <1>8, <1>10, <1>12, <1>13, <1>14

LEMMA SweepTasks ==
    ASSUME BooksInv, TasksInTime, NEW t \in Tasks, settleClosedRewardPeriods(t)
    PROVE  TasksInTime'
  <1>1. PICK previous : previous = periodContaining(task[t].period, task[t].start - 1)
    OBVIOUS
  <1>2. task[t] \in SettleTask /\ InTime(task[t]) /\ now \in Nat /\ UNCHANGED now
    BY TaskTyped, BooksTaskKinds, WalletsOfTables
    DEF settleClosedRewardPeriods, At, SettleTask, TasksInTime, BooksInv, BooksTyped
  <1>3. InTime(Idle)
    BY DEF InTime, Idle
  <1>4. PICK a, b : /\ a = [task[t] EXCEPT !.start = previous, !.left = @ - 1]
                    /\ b = [task[t] EXCEPT !.period = "weekly", !.left = WeeklyLookback,
                                           !.start = periodContaining("weekly", task[t].cutoff)]
    OBVIOUS
  <1>5. InTime(a) /\ InTime(b)
    BY <1>1, <1>2, <1>4, SweepInTime
  <1>6. \/ task' = [task EXCEPT ![t] = a] \/ task' = [task EXCEPT ![t] = b]
        \/ task' = [task EXCEPT ![t] = Idle]
    BY <1>1, <1>4 DEF settleClosedRewardPeriods, Goto, Done
  <1> QED BY <1>2, <1>3, <1>5, <1>6, TasksInTimeStay

\* Rewards of one more settled period.
LEMMA OneMoreSettled ==
    ASSUME NEW settled, IsFiniteSet(settled), NEW z, z \notin settled, NEW h,
           \A s \in settled : RightWinners(s.winners), RightWinners(z.winners)
    PROVE  Rewarded(h, settled \cup {z}) = Rewarded(h, settled) + RewardOf(h, z.winners)
  <1>1. PICK f, g : /\ f = [s \in settled |-> RewardOf(h, s.winners)]
                    /\ g = [s \in settled \cup {z} |-> RewardOf(h, s.winners)]
    OBVIOUS
  <1>2. \A s \in settled \cup {z} : RewardOf(h, s.winners) \in Int
    <2>1. ASSUME NEW winners, RightWinners(winners) PROVE RewardOf(h, winners) \in Int
      BY <2>1, RewardOfHost DEF RightWinners
    <2> QED BY <2>1
  <1>3. SumFunctionOnSet(g, settled \cup {z}) = SumFunctionOnSet(g, settled) + g[z]
    BY <1>1, <1>2, SumWith
  <1>4. SumFunctionOnSet(g, settled) = SumFunctionOnSet(f, settled)
    BY <1>1, SameSum
  <1> QED BY <1>1, <1>3, <1>4 DEF Rewarded

LEMMA SettleRanks ==
    ASSUME BooksInv, BooksInv', RanksInv, IsFiniteSet(Hosts), NEW t \in Tasks,
           settleClosedRewardPeriods(t)
    PROVE  RanksInv'
  <1>1. PICK period, previous : /\ period = task[t].period
                                /\ previous = periodContaining(period, task[t].start - 1)
    OBVIOUS
  <1>2. settleRewardPeriod(period, previous) /\ UNCHANGED <<now, config, active>>
    BY <1>1 DEF settleClosedRewardPeriods
  <1>3. TasksInTime /\ TasksInTime'
    BY SweepTasks DEF RanksInv
  <1>4. previous \in Int /\ End(period, previous) <= now - Grace
    <2>1. task[t] \in SettleTask /\ InTime(task[t]) /\ now \in Nat
      BY <1>3, TaskTyped, BooksTaskKinds, WalletsOfTables
      DEF settleClosedRewardPeriods, At, SettleTask, TasksInTime, BooksInv, BooksTyped
    <2> QED BY <1>1, <2>1, SweepInTime
  <1>5. /\ WalletsTyped /\ now \in Nat /\ now' = now /\ config \in Seq(ConfigRow)
        /\ active \in SUBSET Hosts /\ LaterConfig /\ TablesTyped
    BY <1>2, WalletsOfTables DEF BooksInv, BooksTyped, TablesTyped, RewardsTyped, LaterConfig
  <1>6. CASE Settled(period, previous)
    <2>1. UNCHANGED <<ledger, settlement>>
      BY <1>2, <1>6 DEF settleRewardPeriod, wallets
    <2>2. LaterRows /\ NoRewardRows
      BY <1>5, <2>1, RowsStay
    <2>3. RanksUntouched
      BY <1>3, <1>5, <2>1, <2>2 DEF RanksUntouched
    <2> QED BY <2>3, UntouchedKeeps
  <1>7. CASE ~Settled(period, previous)
    <2>1. PICK winners, z : /\ winners = Winners(period, previous, active)
                            /\ z = [period |-> period, start |-> previous, winners |-> winners,
                                    active |-> active]
      OBVIOUS
    <2>2. PayWinners(winners) /\ settlement' = settlement \cup {z}
      BY <1>2, <1>7, <2>1 DEF settleRewardPeriod
    <2>3. RightWinners(winners)
      BY <1>5, <2>1, WinnersTyped DEF RightWinners
    <2>4. PICK more : Joins(ledger', ledger, more) /\ RewardsBooked(more, winners, now)
      BY <1>5, <2>2, <2>3, RewardsJoin DEF WalletsTyped
    <2>5. LaterRows
      <3>1. /\ ledger \in Seq(Entries) /\ more \in Seq(Entries) /\ ledger' = ledger \o more
            /\ \A k \in DOMAIN more : more[k].kind = "host_reward"
        BY <2>4 DEF Joins, RewardsBooked
      <3>2. /\ ledger' \in Seq(Entries) /\ Len(ledger) <= Len(ledger')
            /\ \A i \in DOMAIN ledger : ledger'[i] = ledger[i]
            /\ \A i \in DOMAIN ledger' \ DOMAIN ledger :
                   \E k \in DOMAIN more : ledger'[i] = more[k]
        <4>1. \A i \in DOMAIN ledger' \ DOMAIN ledger :
                  i - Len(ledger) \in DOMAIN more /\ ledger'[i] = more[i - Len(ledger)]
          BY <3>1
        <4> QED BY <3>1, <4>1
      <3>3. "host_reward" \notin EarningKinds
        BY DEF EarningKinds
      <3> QED BY <3>1, <3>2, <3>3 DEF LaterRows
    <2>6. SettledRight(z)
      BY <1>4, <1>5, <2>1, <2>3 DEF SettledRight
    <2>7. ASSUME NEW s \in settlement' PROVE SettledRight(s)'
      <3>1. SettledRight(s) /\ now <= now'
        BY <1>5, <2>2, <2>6 DEF RanksInv
      <3> QED BY <1>5, <2>5, <3>1, RightStays
    <2>8. \A s \in settlement : ~(s.period = z.period /\ s.start = z.start)
      BY <1>7, <2>1 DEF Settled
    <2>9. /\ IsFiniteSet(settlement) /\ z \notin settlement
          /\ \A s \in settlement : RightWinners(s.winners)
      BY <2>8 DEF RanksInv, SettledRight
    <2>10. ASSUME NEW h \in Hosts
           PROVE  HeldIn(ledger, "host", h, {"host_reward"})' = Rewarded(h, settlement)'
      <3>1. HeldIn(ledger', "host", h, {"host_reward"})
                = HeldIn(ledger, "host", h, {"host_reward"}) + RewardOf(h, winners)
        BY <1>5, <2>3, <2>4, RewardsHeld DEF WalletsTyped
      <3>2. Rewarded(h, settlement \cup {z}) = Rewarded(h, settlement) + RewardOf(h, winners)
        BY <2>1, <2>3, <2>9, OneMoreSettled
      <3>3. HeldIn(ledger, "host", h, {"host_reward"}) = Rewarded(h, settlement)
        BY DEF RanksInv
      <3>4. HeldIn(ledger', "host", h, {"host_reward"}) = Rewarded(h, settlement')
        BY <2>2, <3>1, <3>2, <3>3
      <3> QED BY <3>4 DEF HeldIn, RowsIn, Rewarded
    <2>11. IsFiniteSet(settlement')
      BY <2>2, <2>9, FS_AddElement
    <2>12. \A s, y \in settlement' : s.period = y.period /\ s.start = y.start => s = y
      BY <2>2, <2>8 DEF RanksInv
    <2> QED BY <1>3, <2>7, <2>10, <2>11, <2>12 DEF RanksInv
  <1> QED BY <1>6, <1>7

-----------------------------------------------------------------------------

LEMMA RanksInit ==
    ASSUME IsFiniteSet(Users), LedgerInit, RewardsInit, NoTasks
    PROVE  RanksInv
  <1>1. settlement = {} /\ TasksInTime
    BY DEF RewardsInit, NoTasks, TasksInTime, InTime, Idle
  <1>2. ASSUME NEW h \in Hosts
        PROVE  HeldIn(ledger, "host", h, {"host_reward"}) = Rewarded(h, settlement)
    <2>1. HeldIn(ledger, "host", h, {"host_reward"}) = 0
      BY InitBalances
    <2> QED BY <1>1, <2>1, SumOfNone DEF Rewarded
  <1> QED BY <1>1, <1>2, FS_EmptySet DEF RanksInv

LEMMA RanksStep ==
    ASSUME IsFiniteSet(Hosts), BooksInv, BooksInv', RanksInv,
           [RewardsNext]_<<ledgerVars, rewardVars, task>>
    PROVE  RanksInv'
  <1>0. TasksInTime
    BY DEF RanksInv
  <1>1. CASE UNCHANGED rewardVars /\ LedgerNext
    BY <1>0, <1>1, LedgerRanks, UntouchedKeeps
  <1>2. CASE \E period \in Periods, table \in Tables : setRewardConfig(period, table)
    BY <1>0, <1>2, ConfigRanks, UntouchedKeeps
  <1>3. CASE \E t \in Tasks : StartSweep(t) \/ settleClosedRewardPeriods(t)
    BY <1>0, <1>3, StartSweepRanks, SettleRanks, UntouchedKeeps
  <1>4. CASE \E h \in Hosts : Suspend(h)
    BY <1>0, <1>4, SuspendRanks, UntouchedKeeps
  <1>5. CASE UNCHANGED <<ledgerVars, rewardVars, task>>
    <2>1. UNCHANGED <<now, ledger, config, settlement, task>>
      BY <1>5 DEF ledgerVars, wallets, rewardVars
    <2> QED BY <1>0, <2>1, QuietRanks, UntouchedKeeps
  <1> QED BY <1>1, <1>2, <1>3, <1>4, <1>5 DEF RewardsNext

LEMMA RanksAreRight ==
    ASSUME BooksInv, RanksInv
    PROVE  RanksAreFinal
  <1>1. ASSUME NEW h \in Hosts
        PROVE  Amount(HostRows(h, {"host_reward"}))
                   = Sum(LAMBDA s : RewardOf(h, s.winners), settlement)
    <2>1. ledger \in Seq(Entries)
      BY WalletsOfTables DEF BooksInv, BooksTyped, WalletsTyped
    <2>2. HostRows(h, {"host_reward"}) = RowsIn(ledger, "host", h, {"host_reward"})
      BY DEF HostRows, RowsIn
    <2>3. Amount(HostRows(h, {"host_reward"})) = HeldIn(ledger, "host", h, {"host_reward"})
      BY <2>1, <2>2, AmountHeld
    <2>4. HeldIn(ledger, "host", h, {"host_reward"}) = Rewarded(h, settlement)
      BY DEF RanksInv
    <2> QED BY <2>3, <2>4 DEF Rewarded, Sum
  <1>2. \A s \in settlement : s.winners = Winners(s.period, s.start, s.active)
    BY DEF RanksInv, SettledRight
  <1> QED BY <1>1, <1>2 DEF RanksAreFinal, RanksInv

\* The RanksAreFinal of Rewards (rewards.service.ts): a period is settled once, and
\* nothing that commits later changes what it was ranked by, because no transaction
\* outlives the grace; a host's rewards in the ledger are those of its wins.
THEOREM RanksStayFinal ==
    ASSUME IsFiniteSet(Users), IsFiniteSet(Hosts)
    PROVE  RewardsSpec => []RanksAreFinal
  <1>1. LedgerInit /\ RewardsInit /\ NoTasks => BooksInv /\ RanksInv
    BY BooksInit, RanksInit
  <1>2. BooksInv /\ RanksInv /\ [RewardsNext]_<<ledgerVars, rewardVars, task>>
            => (BooksInv /\ RanksInv)'
    BY BooksStep, RanksStep
  <1>3. BooksInv /\ RanksInv => RanksAreFinal
    BY RanksAreRight
  <1> QED BY <1>1, <1>2, <1>3, PTL DEF RewardsSpec
-----------------------------------------------------------------------------
(* Sales: their rows beside the ledger's                                     *)

HostEntries(book, kind) == {i \in DOMAIN book : book[i].wallet = "host" /\ book[i].kind = kind}

\* The entries the rows of ticks and gifts stand for.
TickEntry(k) ==
    Entry("host", calls[tick[k].call].host, BeansFor(tick[k].amount, calls[tick[k].call].points),
          "call_billing", tick[k].call, tick[k].at)
GiftEntry(k) == Entry("host", gift[k].host, gift[k].beans, "gift", k, gift[k].at)
TickEntries == [k \in DOMAIN tick |-> TickEntry(k)]
GiftEntries == [k \in DOMAIN gift |-> GiftEntry(k)]

\* The credits of a kind are the ones expected, each entered once.
Entered(book, kind, expected) ==
    \E m \in [DOMAIN expected -> HostEntries(book, kind)] :
        /\ OneToOne(m, DOMAIN expected, HostEntries(book, kind))
        /\ \A k \in DOMAIN expected : book[m[k]] = expected[k]

\* Beans of a host's calls; what users paid for sales, by the rows and by the ledger.
CallBeans(h) == SumFunctionOnSet([c \in DOMAIN calls |-> calls[c].beans], CallsOf(h))
CallTotals == SumFunctionOnSet([c \in DOMAIN calls |-> calls[c].total], DOMAIN calls)
GiftPrices == SumFunctionOnSet([k \in DOMAIN gift |-> gift[k].price], DOMAIN gift)
MessageCharges == SumFunctionOnSet([k \in DOMAIN message |-> message[k].charged], DOMAIN message)
PaidBy(u) == HeldIn(ledger, "user", u, EarningKinds)
PaidByAll == SumFunctionOnSet([u \in Users |-> PaidBy(u)], Users)

\* Who paid for a sale is a user.
PayersRight == \A i \in DOMAIN ledger :
    ledger[i].wallet = "user" /\ ledger[i].kind \in EarningKinds => ledger[i].owner \in Users

SalesBooked ==
    /\ PayersRight
    /\ Entered(ledger, "call_billing", TickEntries) /\ Entered(ledger, "gift", GiftEntries)
    /\ \A h \in Hosts : CallBeans(h) = HeldIn(ledger, "host", h, {"call_billing"})
    /\ CallTotals + GiftPrices + MessageCharges + PaidByAll = 0

\* No row gives more beans than were paid for, or is of the time to come; a tick is
\* charged on its call's terms.
CallRight(c) == PaisePerBean * c.beans <= c.total /\ c.updated <= now
GiftRight(g) == g.beans = BeansFor(g.price, g.points) /\ g.at <= now
MessageRight(m) == PaisePerBean * m.beans <= m.charged /\ m.at <= now
TickTaskRight(x) == x.at = "transfer" /\ x.kind = "call_billing" =>
    calls[x.what].host = x.host /\ calls[x.what].points = x.points
RowsRight ==
    /\ \A c \in DOMAIN calls : CallRight(calls[c])
    /\ \A k \in DOMAIN gift : GiftRight(gift[k])
    /\ \A k \in DOMAIN message : MessageRight(message[k])
    /\ \A i \in DOMAIN config : config[i].from <= now
    /\ \A t \in Tasks : TickTaskRight(task[t])

SalesInv == SalesBooked /\ RowsRight

\* A book has grown; what is not of a kind's credits changes nothing about them.
Grown(book, all) == \A i \in DOMAIN book : i \in DOMAIN all /\ all[i] = book[i]

LEMMA EnteredOthers ==
    ASSUME NEW book, NEW all, Grown(book, all), NEW kind, NEW expected,
           \A i \in DOMAIN all \ DOMAIN book : ~(all[i].wallet = "host" /\ all[i].kind = kind),
           Entered(book, kind, expected)
    PROVE  Entered(all, kind, expected)
  <1>1. HostEntries(all, kind) = HostEntries(book, kind)
    BY DEF HostEntries, Grown
  <1>2. PICK m \in [DOMAIN expected -> HostEntries(book, kind)] :
            /\ OneToOne(m, DOMAIN expected, HostEntries(book, kind))
            /\ \A k \in DOMAIN expected : book[m[k]] = expected[k]
    BY DEF Entered
  <1>3. \A k \in DOMAIN expected : all[m[k]] = expected[k]
    <2>1. \A k \in DOMAIN expected : m[k] \in DOMAIN book
      BY <1>2 DEF HostEntries
    <2> QED BY <1>2, <2>1 DEF Grown
  <1> QED BY <1>1, <1>2, <1>3 DEF Entered

\* The credit of one more row.
LEMMA EnteredOne ==
    ASSUME NEW book, NEW all, Grown(book, all), NEW kind, NEW expected, NEW after,
           NEW i \in DOMAIN all \ DOMAIN book,
           all[i].wallet = "host" /\ all[i].kind = kind,
           \A j \in DOMAIN all \ DOMAIN book :
               all[j].wallet = "host" /\ all[j].kind = kind => j = i,
           NEW n, n \notin DOMAIN expected, DOMAIN after = DOMAIN expected \cup {n},
           \A k \in DOMAIN expected : after[k] = expected[k], after[n] = all[i],
           Entered(book, kind, expected)
    PROVE  Entered(all, kind, after)
  <1>1. HostEntries(all, kind) = HostEntries(book, kind) \cup {i}
    BY DEF HostEntries, Grown
  <1>2. PICK m \in [DOMAIN expected -> HostEntries(book, kind)] :
            /\ OneToOne(m, DOMAIN expected, HostEntries(book, kind))
            /\ \A k \in DOMAIN expected : book[m[k]] = expected[k]
    BY DEF Entered
  <1>3. \A k \in DOMAIN expected : m[k] \in DOMAIN book /\ all[m[k]] = expected[k]
    <2>1. \A k \in DOMAIN expected : m[k] \in DOMAIN book
      BY <1>2 DEF HostEntries
    <2> QED BY <1>2, <2>1 DEF Grown
  <1>4. PICK p : p = [k \in DOMAIN after |-> IF k = n THEN i ELSE m[k]]
    OBVIOUS
  <1>5. /\ p[n] = i /\ \A k \in DOMAIN expected : p[k] = m[k]
        /\ p \in [DOMAIN after -> HostEntries(all, kind)]
    BY <1>1, <1>2, <1>4
  <1>6. OneToOne(p, DOMAIN after, HostEntries(all, kind))
    <2>1. \A x \in DOMAIN expected : m[x] # i
      BY <1>3
    <2>2. ASSUME NEW x \in DOMAIN after, NEW y \in DOMAIN after, p[x] = p[y] PROVE x = y
      BY <1>2, <1>5, <2>1, <2>2 DEF OneToOne
    <2>3. ASSUME NEW z \in HostEntries(all, kind) PROVE \E x \in DOMAIN after : p[x] = z
      BY <1>1, <1>2, <1>5 DEF OneToOne
    <2> QED BY <1>5, <2>2, <2>3 DEF OneToOne
  <1>7. \A k \in DOMAIN after : all[p[k]] = after[k]
    BY <1>3, <1>5
  <1> QED BY <1>5, <1>6, <1>7 DEF Entered

\* What an owner holds is not changed by entries of other kinds.
LEMMA HeldOthers ==
    ASSUME NEW book \in Seq(Entries), NEW all, Grown(book, all), NEW wallet, NEW owner, NEW kinds,
           \A i \in DOMAIN all \ DOMAIN book : all[i].kind \notin kinds
    PROVE  HeldIn(all, wallet, owner, kinds) = HeldIn(book, wallet, owner, kinds)
  <1>1. PICK rows, f, g : /\ rows = RowsIn(book, wallet, owner, kinds)
                          /\ f = [i \in DOMAIN book |-> book[i].amount]
                          /\ g = [i \in DOMAIN all |-> all[i].amount]
    OBVIOUS
  <1>2. RowsIn(all, wallet, owner, kinds) = rows
    BY <1>1 DEF RowsIn, Grown
  <1>3. IsFiniteSet(rows) /\ rows \subseteq DOMAIN book
    <2>1. IsFiniteSet(rows)
      BY <1>1, RowsFinite
    <2> QED BY <1>1, <2>1 DEF RowsIn
  <1>4. \A i \in rows : f[i] = g[i]
    BY <1>1, <1>3 DEF Grown
  <1>5. SumFunctionOnSet(f, rows) = SumFunctionOnSet(g, rows)
    BY <1>3, <1>4, SameSum
  <1> QED BY <1>1, <1>2, <1>5 DEF HeldIn

\* Sums of a column of a table: the table is finite, a row more adds its own.
LEMMA TableFinite ==
    ASSUME NEW S, NEW s \in Seq(S), NEW T \in SUBSET DOMAIN s
    PROVE  IsFiniteSet(T) /\ DOMAIN s = 1..Len(s) /\ Len(s) \in Nat
  <1>1. DOMAIN s = 1..Len(s) /\ Len(s) \in Nat
    OBVIOUS
  <1>2. IsFiniteSet(1..Len(s))
    BY <1>1, FS_Interval
  <1> QED BY <1>1, <1>2, FS_Subset

LEMMA TableGrows ==
    ASSUME NEW S, NEW s \in Seq(S), NEW e \in S, NEW r, r = Append(s, e)
    PROVE  /\ r \in Seq(S) /\ DOMAIN r = DOMAIN s \cup {Len(s) + 1} /\ r[Len(s) + 1] = e
           /\ Len(s) + 1 \notin DOMAIN s /\ \A i \in DOMAIN s : r[i] = s[i]
           /\ DOMAIN s \subseteq DOMAIN r /\ Len(s) + 1 \in DOMAIN r /\ Len(s) + 1 \in Nat
  OBVIOUS

\* The sum of a column f of a table s after a row more.
LEMMA ColumnGrows ==
    ASSUME NEW S, NEW s \in Seq(S), NEW f, NEW g, NEW n, n \notin DOMAIN s,
           \A i \in DOMAIN s : f[i] \in Int /\ g[i] = f[i], g[n] \in Int
    PROVE  SumFunctionOnSet(g, DOMAIN s \cup {n}) = SumFunctionOnSet(f, DOMAIN s) + g[n]
  <1>1. IsFiniteSet(DOMAIN s)
    BY TableFinite
  <1>2. SumFunctionOnSet(g, DOMAIN s \cup {n}) = SumFunctionOnSet(g, DOMAIN s) + g[n]
    BY <1>1, SumWith
  <1>3. SumFunctionOnSet(f, DOMAIN s) = SumFunctionOnSet(g, DOMAIN s)
    BY <1>1, SameSum
  <1> QED BY <1>2, <1>3

-----------------------------------------------------------------------------
(* Steps that sell nothing                                                   *)

OtherRows ==
    /\ ledger \in Seq(Entries) /\ Grown(ledger, ledger')
    /\ \A i \in DOMAIN ledger' \ DOMAIN ledger : ledger'[i].kind \notin EarningKinds

\* Calls keep their terms and what they have come to; a new one has come to nothing.
SameTerms == \A c \in DOMAIN calls :
    c \in DOMAIN calls' /\ calls'[c].host = calls[c].host /\ calls'[c].points = calls[c].points
CallsKept ==
    /\ SameTerms
    /\ \A c \in DOMAIN calls : calls'[c].total = calls[c].total /\ calls'[c].beans = calls[c].beans
    /\ \A c \in DOMAIN calls' \ DOMAIN calls : calls'[c].total = 0 /\ calls'[c].beans = 0

LEMMA RowTyped ==
    ASSUME SalesTyped
    PROVE  /\ \A c \in DOMAIN calls : calls[c] \in CallRow
           /\ \A k \in DOMAIN tick : tick[k] \in TickRow /\ tick[k].call \in DOMAIN calls
           /\ \A k \in DOMAIN gift : gift[k] \in GiftRow
           /\ \A k \in DOMAIN message : message[k] \in MessageRow
  <1>1. \A c \in DOMAIN calls : calls[c] \in CallRow
    BY MemberTyped DEF SalesTyped
  <1>2. \A k \in DOMAIN tick : tick[k] \in TickRow /\ tick[k].call \in DOMAIN calls
    BY MemberTyped DEF SalesTyped
  <1>3. \A k \in DOMAIN gift : gift[k] \in GiftRow
    BY MemberTyped DEF SalesTyped
  <1>4. \A k \in DOMAIN message : message[k] \in MessageRow
    BY MemberTyped DEF SalesTyped
  <1> QED BY <1>1, <1>2, <1>3, <1>4

LEMMA TickEntriesStay ==
    ASSUME SalesTyped, SameTerms, UNCHANGED tick
    PROVE  TickEntries' = TickEntries
  <1>1. \A k \in DOMAIN tick : TickEntry(k)' = TickEntry(k)
    BY RowTyped DEF SameTerms, TickEntry, Entry, BeansFor, CommissionOn
  <1> QED BY <1>1 DEF TickEntries

LEMMA CallSumsStay ==
    ASSUME SalesTyped, SalesTyped', CallsKept
    PROVE  CallTotals' = CallTotals /\ \A h \in Hosts : CallBeans(h)' = CallBeans(h)
  <1>1. PICK f, g, p, q : /\ f = [c \in DOMAIN calls |-> calls[c].beans]
                          /\ g = [c \in DOMAIN calls' |-> calls'[c].beans]
                          /\ p = [c \in DOMAIN calls |-> calls[c].total]
                          /\ q = [c \in DOMAIN calls' |-> calls'[c].total]
    OBVIOUS
  <1>2. IsFiniteSet(DOMAIN calls') /\ DOMAIN calls \subseteq DOMAIN calls'
    BY TableFinite DEF SalesTyped, CallsKept, SameTerms
  <1>3. /\ \A c \in DOMAIN calls : f[c] \in Int /\ g[c] = f[c] /\ p[c] \in Int /\ q[c] = p[c]
        /\ \A c \in DOMAIN calls' \ DOMAIN calls : g[c] = 0 /\ q[c] = 0
    <2>1. \A c \in DOMAIN calls : calls[c].beans \in Int /\ calls[c].total \in Int
      BY RowTyped DEF CallRow
    <2> QED BY <1>1, <1>2, <2>1 DEF CallsKept
  <1>4. CallTotals' = CallTotals
    <2>1. SumFunctionOnSet(q, DOMAIN calls') = SumFunctionOnSet(p, DOMAIN calls)
      BY <1>2, <1>3, SumWithZeros
    <2> QED BY <1>1, <2>1 DEF CallTotals
  <1>5. ASSUME NEW h \in Hosts PROVE CallBeans(h)' = CallBeans(h)
    <2>1. PICK S, R : S = CallsOf(h) /\ R = {c \in DOMAIN calls' : calls'[c].host = h}
      OBVIOUS
    <2>2. /\ IsFiniteSet(R) /\ S \subseteq R /\ S \subseteq DOMAIN calls /\ R \subseteq DOMAIN calls'
          /\ R \ S \subseteq DOMAIN calls' \ DOMAIN calls
      <3>1. R \subseteq DOMAIN calls' /\ S \subseteq DOMAIN calls
        BY <2>1 DEF CallsOf
      <3>2. IsFiniteSet(R)
        BY <1>2, <3>1, FS_Subset
      <3> QED BY <2>1, <3>1, <3>2 DEF CallsOf, CallsKept, SameTerms
    <2>3. SumFunctionOnSet(g, R) = SumFunctionOnSet(f, S)
      BY <1>3, <2>2, SumWithZeros
    <2> QED BY <1>1, <2>1, <2>3 DEF CallBeans, CallsOf
  <1> QED BY <1>4, <1>5

LEMMA UserSumStays ==
    ASSUME OtherRows
    PROVE  /\ PaidByAll' = PaidByAll
           /\ \A h \in Hosts : HeldIn(ledger, "host", h, {"call_billing"})'
                                   = HeldIn(ledger, "host", h, {"call_billing"})
  <1>1. \A u \in Users : HeldIn(ledger', "user", u, EarningKinds) = PaidBy(u)
    BY HeldOthers DEF OtherRows, PaidBy
  <1>2. \A i \in DOMAIN ledger' \ DOMAIN ledger : ledger'[i].kind \notin {"call_billing"}
    BY DEF OtherRows, EarningKinds
  <1>3. \A h \in Hosts : HeldIn(ledger', "host", h, {"call_billing"})
                             = HeldIn(ledger, "host", h, {"call_billing"})
    BY <1>2, HeldOthers DEF OtherRows
  <1>4. \A u \in Users : PaidBy(u)' = PaidBy(u)
    BY <1>1 DEF PaidBy, HeldIn, RowsIn
  <1>5. [u \in Users |-> PaidBy(u)]' = [u \in Users |-> PaidBy(u)]
    BY <1>4
  <1> QED BY <1>3, <1>5 DEF PaidByAll, HeldIn, RowsIn

LEMMA PayersStay ==
    ASSUME PayersRight, Grown(ledger, ledger'),
           \A i \in DOMAIN ledger' \ DOMAIN ledger :
               ledger'[i].wallet = "user" /\ ledger'[i].kind \in EarningKinds
                   => ledger'[i].owner \in Users
    PROVE  PayersRight'
  BY DEF PayersRight, Grown

LEMMA BookedStays ==
    ASSUME SalesTyped, SalesTyped', SalesBooked, OtherRows, CallsKept,
           UNCHANGED <<tick, gift, message>>
    PROVE  SalesBooked'
  <1>1. TickEntries' = TickEntries /\ GiftEntries' = GiftEntries
    <2>1. TickEntries' = TickEntries
      BY TickEntriesStay DEF CallsKept
    <2> QED BY <2>1 DEF GiftEntries, GiftEntry, Entry
  <1>2. Entered(ledger', "call_billing", TickEntries) /\ Entered(ledger', "gift", GiftEntries)
    <2>1. \A i \in DOMAIN ledger' \ DOMAIN ledger :
              ledger'[i].kind # "call_billing" /\ ledger'[i].kind # "gift"
      BY DEF OtherRows, EarningKinds
    <2> QED BY <2>1, EnteredOthers DEF OtherRows, SalesBooked
  <1>3. Entered(ledger, "call_billing", TickEntries)' /\ Entered(ledger, "gift", GiftEntries)'
    BY <1>1, <1>2 DEF Entered, HostEntries
  <1>4. \A h \in Hosts : CallBeans(h)' = HeldIn(ledger, "host", h, {"call_billing"})'
    BY CallSumsStay, UserSumStays DEF SalesBooked
  <1>5. (CallTotals + GiftPrices + MessageCharges + PaidByAll = 0)'
    <2>1. GiftPrices' = GiftPrices /\ MessageCharges' = MessageCharges
      BY DEF GiftPrices, MessageCharges
    <2> QED BY <2>1, CallSumsStay, UserSumStays DEF SalesBooked
  <1>6. PayersRight'
    BY PayersStay DEF SalesBooked, OtherRows
  <1> QED BY <1>3, <1>4, <1>5, <1>6 DEF SalesBooked

\* What every step but a sale is.
SalesUntouched ==
    /\ OtherRows /\ CallsKept /\ UNCHANGED <<tick, gift, message>> /\ LaterConfig /\ now <= now'
    /\ (\A c \in DOMAIN calls : CallRight(calls[c]))'
    /\ \A t \in Tasks : TickTaskRight(task[t])'

LEMMA ConfigsStay ==
    ASSUME config \in Seq(ConfigRow), LaterConfig, now \in Nat, now' \in Nat, now <= now',
           \A i \in DOMAIN config : config[i].from <= now
    PROVE  \A i \in DOMAIN config' : config'[i].from <= now'
  <1>1. \A i \in DOMAIN config : config[i].from \in Nat
    <2>1. \A i \in DOMAIN config : config[i] \in ConfigRow
      BY MemberTyped
    <2> QED BY <2>1 DEF ConfigRow
  <1>2. CASE config' = config
    BY <1>1, <1>2
  <1>3. ASSUME NEW row \in ConfigRow, row.from = now, config' = Append(config, row)
        PROVE  \A i \in DOMAIN config' : config'[i].from <= now'
    BY <1>1, <1>3, TableGrows
  <1> QED BY <1>2, <1>3 DEF LaterConfig

LEMMA RowsStayRight ==
    ASSUME SalesTyped, now \in Nat, now' \in Nat, now <= now', UNCHANGED <<gift, message>>,
           \A k \in DOMAIN gift : GiftRight(gift[k]),
           \A k \in DOMAIN message : MessageRight(message[k])
    PROVE  /\ (\A k \in DOMAIN gift : GiftRight(gift[k]))'
           /\ (\A k \in DOMAIN message : MessageRight(message[k]))'
  <1>1. ASSUME NEW k \in DOMAIN gift PROVE GiftRight(gift[k])'
    <2>1. gift[k].at \in Nat /\ GiftRight(gift[k])
      BY RowTyped DEF GiftRow
    <2> QED BY <2>1 DEF GiftRight, BeansFor, CommissionOn
  <1>2. ASSUME NEW k \in DOMAIN message PROVE MessageRight(message[k])'
    <2>1. message[k].at \in Nat /\ MessageRight(message[k])
      BY RowTyped DEF MessageRow
    <2> QED BY <2>1 DEF MessageRight
  <1> QED BY <1>1, <1>2

LEMMA SalesUntouchedKeep ==
    ASSUME BooksInv, BooksInv', SalesInv, SalesUntouched
    PROVE  SalesInv'
  <1>1. /\ SalesTyped /\ SalesTyped' /\ config \in Seq(ConfigRow) /\ now \in Nat /\ now' \in Nat
    BY WalletsOfTables, ConstantTypes DEF BooksInv, BooksTyped, TablesTyped, RewardsTyped
  <1>2. SalesBooked'
    BY <1>1, BookedStays DEF SalesInv, SalesUntouched
  <1>3. RowsRight'
    BY <1>1, ConfigsStay, RowsStayRight DEF SalesInv, RowsRight, SalesUntouched
  <1> QED BY <1>2, <1>3 DEF SalesInv

\* The terms a tick is charged on are those of its call as long as calls keep them.
LEMMA TickTaskStays ==
    ASSUME NEW x, Grounded(x), TickTaskRight(x), SameTerms
    PROVE  TickTaskRight(x)'
  BY DEF Grounded, TickTaskRight, SameTerms

LEMMA TickTasksStay ==
    ASSUME BooksInv, RowsRight, SameTerms,
           \/ UNCHANGED task
           \/ \E t \in Tasks : \E x : task' = [task EXCEPT ![t] = x] /\ TickTaskRight(x)'
           \/ TasksLost
    PROVE  \A t \in Tasks : TickTaskRight(task[t])'
  <1>1. DOMAIN task = Tasks /\ \A t \in Tasks : Grounded(task[t]) /\ TickTaskRight(task[t])
    BY DEF BooksInv, BooksTyped, RowsRight
  <1>2. \A t \in Tasks : \A x : x = task[t] => TickTaskRight(x)'
    BY <1>1, TickTaskStays
  <1>3. CASE UNCHANGED task
    BY <1>2, <1>3 DEF TickTaskRight
  <1>4. CASE TasksLost
    BY <1>4 DEF TasksLost, Idle, TickTaskRight
  <1>5. ASSUME NEW t \in Tasks, NEW x, task' = [task EXCEPT ![t] = x], TickTaskRight(x)'
        PROVE  \A s \in Tasks : TickTaskRight(task[s])'
    <2> SUFFICES ASSUME NEW s \in Tasks PROVE TickTaskRight(task[s])'
      OBVIOUS
    <2>1. PICK y : y = task'[s]
      OBVIOUS
    <2>2. y = x \/ y = task[s]
      BY <1>1, <1>5, <2>1
    <2>3. TickTaskRight(y)'
      BY <1>2, <1>5, <2>2
    <2> QED BY <2>1, <2>3 DEF TickTaskRight
  <1> QED BY <1>3, <1>4, <1>5

LEMMA SalesKept ==
    ASSUME BooksInv, UNCHANGED calls
    PROVE  CallsKept /\ SameTerms
  BY DEF CallsKept, SameTerms

\* A step that leaves the tables of sales as they are.
LEMMA QuietSales ==
    ASSUME BooksInv, BooksInv', SalesInv, UNCHANGED sales, OtherRows, LaterConfig, now <= now',
           \/ UNCHANGED task
           \/ \E t \in Tasks : \E x : task' = [task EXCEPT ![t] = x] /\ TickTaskRight(x)'
           \/ TasksLost
    PROVE  SalesInv'
  <1>1. UNCHANGED calls /\ UNCHANGED <<tick, gift, message>> /\ RowsRight
    BY DEF sales, SalesInv
  <1>2. CallsKept /\ SameTerms
    BY <1>1, SalesKept
  <1>3. \A t \in Tasks : TickTaskRight(task[t])'
    BY <1>1, <1>2, TickTasksStay
  <1>4. (\A c \in DOMAIN calls : CallRight(calls[c]))'
    <2> SUFFICES ASSUME NEW c \in DOMAIN calls PROVE CallRight(calls[c])'
      BY <1>1
    <2>1. CallRight(calls[c]) /\ calls[c].updated \in Nat
      BY <1>1, RowTyped DEF RowsRight, CallRow, BooksInv, BooksTyped, TablesTyped
    <2>2. now \in Nat /\ now' \in Nat
      BY WalletsOfTables, ConstantTypes DEF BooksInv, BooksTyped, TablesTyped
    <2> QED BY <1>1, <2>1, <2>2 DEF CallRight
  <1>5. SalesUntouched
    BY <1>1, <1>2, <1>3, <1>4 DEF SalesUntouched
  <1> QED BY <1>5, SalesUntouchedKeep

LEMMA NoRows ==
    ASSUME BooksInv, UNCHANGED ledger
    PROVE  OtherRows
  <1>1. WalletsTyped
    BY WalletsOfTables DEF BooksInv, BooksTyped
  <1> QED BY <1>1 DEF WalletsTyped, OtherRows, Grown

LEMMA OneOtherRow ==
    ASSUME BooksInv, BooksInv', NEW wallet, NEW owner, NEW amount, NEW kind, kind \notin EarningKinds,
           ledger' = Append(ledger, Entry(wallet, owner, amount, kind, 0, now))
    PROVE  OtherRows
  <1>1. WalletsTyped
    BY WalletsOfTables DEF BooksInv, BooksTyped
  <1>2. PICK e : e = Entry(wallet, owner, amount, kind, 0, now) /\ e.kind = kind
    BY DEF Entry
  <1>3. /\ ledger \in Seq(Entries) /\ ledger' = Append(ledger, e)
    BY <1>1, <1>2 DEF WalletsTyped
  <1>4. /\ \A i \in DOMAIN ledger : i \in DOMAIN ledger' /\ ledger'[i] = ledger[i]
        /\ \A i \in DOMAIN ledger' \ DOMAIN ledger : ledger'[i] = e
    BY <1>3
  <1> QED BY <1>2, <1>3, <1>4 DEF OtherRows, Grown

LEMMA SellingSales ==
    ASSUME BooksInv, BooksInv', SalesInv, UNCHANGED config, NEW t \in Tasks, NEW kind, NEW u,
           NEW h, NEW what, NEW price, NEW points, Selling(t, kind, u, h, what, price, points),
           kind = "call_billing" => calls[what].host = h /\ calls[what].points = points
    PROVE  SalesInv'
  <1>1. PICK x : x = [at |-> "transfer", kind |-> kind, user |-> u, host |-> h, what |-> what,
                      price |-> price, points |-> points, began |-> now]
    OBVIOUS
  <1>2. task' = [task EXCEPT ![t] = x] /\ UNCHANGED <<now, sales, ledger>>
    BY <1>1 DEF Selling, Start, ledgerVars, wallets
  <1>3. TickTaskRight(x)'
    BY <1>1, <1>2 DEF TickTaskRight, sales
  <1>4. OtherRows /\ LaterConfig /\ now <= now'
    <2>1. now \in Nat
      BY WalletsOfTables DEF BooksInv, BooksTyped
    <2> QED BY <1>2, <2>1, NoRows DEF LaterConfig
  <1> QED BY <1>2, <1>3, <1>4, QuietSales

LEMMA SaleRequestSales ==
    ASSUME BooksInv, BooksInv', SalesInv, UNCHANGED config, NEW t \in Tasks, SaleRequest(t)
    PROVE  SalesInv'
  <1>1. ASSUME NEW c \in DOMAIN calls, runBillingTick(t, c) PROVE SalesInv'
    <2>1. Selling(t, "call_billing", calls[c].user, calls[c].host, c, TickCost, calls[c].points)
      BY <1>1 DEF runBillingTick
    <2> QED BY <2>1, SellingSales
  <1>2. ASSUME NEW u, NEW h, NEW context, sendGift(t, u, h, context) PROVE SalesInv'
    <2>1. Selling(t, "gift", u, h, context, GiftPrice, getCurrentCommissionBasisPoints(h))
      BY <1>2 DEF sendGift
    <2> QED BY <2>1, SellingSales
  <1>3. ASSUME NEW u, NEW h, sendPaidUserMessage(t, u, h) PROVE SalesInv'
    <2>1. Selling(t, "chat_message", u, h, "none", getHostEffectivePrices(h),
                  getCurrentCommissionBasisPoints(h))
      BY <1>3 DEF sendPaidUserMessage
    <2> QED BY <2>1, SellingSales
  <1>4. ASSUME NEW h, NEW level, setHostPriceLevel(t, h, level) PROVE SalesInv'
    <2>1. PICK x : x = [at |-> "savePriceLevel", host |-> h, level |-> level]
      OBVIOUS
    <2>2. task' = [task EXCEPT ![t] = x] /\ UNCHANGED <<now, sales, ledger>>
      BY <1>4, <2>1 DEF setHostPriceLevel, Start, ledgerVars, wallets
    <2>3. TickTaskRight(x)' /\ OtherRows /\ LaterConfig /\ now <= now'
      <3>1. now \in Nat
        BY WalletsOfTables DEF BooksInv, BooksTyped
      <3> QED BY <2>1, <2>2, <3>1, NoRows DEF LaterConfig, TickTaskRight
    <2> QED BY <2>2, <2>3, QuietSales
  <1> QED BY <1>1, <1>2, <1>3, <1>4 DEF SaleRequest

LEMMA InitiateSales ==
    ASSUME BooksInv, BooksInv', SalesInv, UNCHANGED config, NEW u \in Users, NEW h \in Hosts,
           NEW type \in CallTypes, initiateCall(u, h, type)
    PROVE  SalesInv'
  <1>1. PICK row : row = [user |-> u, host |-> h, type |-> type, status |-> "ringing",
                          answered |-> FALSE, points |-> getCurrentCommissionBasisPoints(h),
                          total |-> 0, beans |-> 0, updated |-> now]
    OBVIOUS
  <1>2. /\ calls' = Append(calls, row) /\ UNCHANGED <<now, ledger, tick, gift, message, task>>
        /\ row.total = 0 /\ row.beans = 0 /\ row.updated = now
    BY <1>1 DEF initiateCall, wallets
  <1>3. /\ SalesTyped /\ SalesTyped' /\ now \in Nat /\ RowsRight /\ TablesTyped
    BY WalletsOfTables DEF BooksInv, BooksTyped, TablesTyped, SalesInv
  <1>4. row \in CallRow
    BY <1>1, <1>3, RateTyped DEF CallRow
  <1>5. /\ DOMAIN calls' = DOMAIN calls \cup {Len(calls) + 1} /\ calls'[Len(calls) + 1] = row
        /\ \A c \in DOMAIN calls : calls'[c] = calls[c] /\ CallRight(calls[c])
    BY <1>2, <1>3, <1>4, TableGrows DEF SalesTyped, RowsRight
  <1>6. CallsKept /\ SameTerms
    BY <1>2, <1>5 DEF CallsKept, SameTerms
  <1>7. (\A c \in DOMAIN calls : CallRight(calls[c]))'
    <2>1. CallRight(row)
      BY <1>2, <1>3, ConstantTypes DEF CallRight
    <2>2. \A c \in DOMAIN calls' : CallRight(calls'[c])
      BY <1>5, <2>1
    <2> QED BY <1>2, <2>2 DEF CallRight
  <1>8. \A t \in Tasks : TickTaskRight(task[t])'
    BY <1>2, <1>3, <1>6, TickTasksStay
  <1>9. OtherRows /\ LaterConfig /\ now <= now'
    BY <1>2, <1>3, NoRows DEF LaterConfig
  <1>10. SalesUntouched
    BY <1>2, <1>6, <1>7, <1>8, <1>9 DEF SalesUntouched
  <1> QED BY <1>10, SalesUntouchedKeep

LEMMA StatusSales ==
    ASSUME BooksInv, BooksInv', SalesInv, UNCHANGED config, NEW n \in DOMAIN calls, WritesStatus(n)
    PROVE  SalesInv'
  <1>1. SalesTyped /\ SalesTyped' /\ now \in Nat /\ RowsRight
    BY WalletsOfTables DEF BooksInv, BooksTyped, TablesTyped, SalesInv
  <1>2. PICK row : StatusWritten(n, row)
    BY <1>1, StatusWrites
  <1>3. /\ DOMAIN calls' = DOMAIN calls
        /\ \A c \in DOMAIN calls \ {n} : calls'[c] = calls[c]
        /\ calls'[n] = row /\ UNCHANGED <<now, ledger, tick, gift, message, task>>
    BY <1>1, <1>2 DEF SalesTyped, StatusWritten, wallets
  <1>4. /\ calls'[n].host = calls[n].host /\ calls'[n].points = calls[n].points
        /\ calls'[n].total = calls[n].total /\ calls'[n].beans = calls[n].beans
        /\ calls'[n].updated = now
    BY <1>2, <1>3 DEF StatusWritten, SameSale
  <1>5. CallsKept /\ SameTerms
    BY <1>3, <1>4 DEF CallsKept, SameTerms
  <1>6. \A c \in DOMAIN calls : CallRight(calls[c])
    BY <1>1 DEF RowsRight
  <1>7. (\A c \in DOMAIN calls : CallRight(calls[c]))'
    <2>1. CallRight(calls'[n])
      BY <1>1, <1>4, <1>6 DEF CallRight
    <2>2. \A c \in DOMAIN calls' : CallRight(calls'[c])
      BY <1>3, <1>6, <2>1
    <2> QED BY <1>3, <2>2 DEF CallRight
  <1>8. \A t \in Tasks : TickTaskRight(task[t])'
    BY <1>1, <1>3, <1>5, TickTasksStay
  <1>9. OtherRows /\ LaterConfig /\ now <= now'
    BY <1>1, <1>3, NoRows DEF LaterConfig
  <1>10. SalesUntouched
    BY <1>3, <1>5, <1>7, <1>8, <1>9 DEF SalesUntouched
  <1> QED BY <1>10, SalesUntouchedKeep

\* A movement of money that is no sale.
LEMMA MovementSales ==
    ASSUME BooksInv, BooksInv', SalesInv, UNCHANGED <<now, sales, task, config>>,
           NEW wallet, NEW owner, NEW amount, NEW kind,
           kind \in {"recharge", "dev_credit", "adjustment", "refund", "withdrawal"},
           ledger' = Append(ledger, Entry(wallet, owner, amount, kind, 0, now))
    PROVE  SalesInv'
  <1>1. kind \notin EarningKinds
    BY DEF EarningKinds
  <1>2. OtherRows
    BY <1>1, OneOtherRow
  <1>3. now <= now' /\ LaterConfig
    BY WalletsOfTables DEF BooksInv, BooksTyped, LaterConfig
  <1> QED BY <1>2, <1>3, QuietSales

LEMMA RequestSales ==
    ASSUME BooksInv, BooksInv', SalesInv, UNCHANGED rewardVars, LedgerRequest
    PROVE  SalesInv'
  <1>0. UNCHANGED config
    BY DEF rewardVars
  <1>1. ASSUME NEW h, NEW points, createCommissionConfig(h, points) PROVE SalesInv'
    <2>1. UNCHANGED <<now, sales, ledger, task>>
      BY <1>1 DEF createCommissionConfig, wallets
    <2>2. OtherRows /\ LaterConfig /\ now <= now'
      BY <1>0, <2>1, NoRows, WalletsOfTables DEF LaterConfig, BooksInv, BooksTyped
    <2> QED BY <2>1, <2>2, QuietSales
  <1>2. ASSUME NEW u \in Users, NEW kind \in {"recharge", "dev_credit"}, creditUserWallet(u, kind)
        PROVE  SalesInv'
    <2>1. /\ UNCHANGED <<now, sales, task>>
          /\ ledger' = Append(ledger, Entry("user", u, 1, kind, 0, now))
      BY <1>2 DEF creditUserWallet
    <2> QED BY <1>0, <2>1, MovementSales
  <1>3. ASSUME NEW u \in Users, NEW amount \in Int, NEW kind \in {"adjustment", "refund"},
               adjustUserWallet(u, amount, kind)
        PROVE  SalesInv'
    <2>1. /\ UNCHANGED <<now, sales, task>>
          /\ ledger' = Append(ledger, Entry("user", u, amount, kind, 0, now))
      BY <1>3 DEF adjustUserWallet
    <2> QED BY <1>0, <2>1, MovementSales
  <1>4. ASSUME NEW h \in Hosts, debitHostBeans(h) PROVE SalesInv'
    <2>1. /\ UNCHANGED <<now, sales, task>>
          /\ ledger' = Append(ledger, Entry("host", h, -1, "withdrawal", 0, now))
      BY <1>4 DEF debitHostBeans
    <2> QED BY <1>0, <2>1, MovementSales
  <1>5. ASSUME NEW h \in Hosts, ReturnBeans(h) PROVE SalesInv'
    <2>1. /\ UNCHANGED <<now, sales, task>>
          /\ ledger' = Append(ledger, Entry("host", h, 1, "withdrawal", 0, now))
      BY <1>5 DEF ReturnBeans, CreditHostBeans
    <2> QED BY <1>0, <2>1, MovementSales
  <1> QED BY <1>0, <1>1, <1>2, <1>3, <1>4, <1>5, SaleRequestSales, InitiateSales, StatusSales
          DEF LedgerRequest, WritesStatus

-----------------------------------------------------------------------------
(* A sale commits                                                            *)

\* Its two entries are the ledger's only new ones.
SaleEntered(s, beans, ref) == \E n \in DOMAIN ledger' \ DOMAIN ledger :
    /\ ledger'[n] = Entry("host", s.host, beans, s.kind, ref, s.began)
    /\ \A i \in DOMAIN ledger' \ DOMAIN ledger :
           /\ ledger'[i].kind = s.kind /\ (ledger'[i].wallet = "host" => i = n)
           /\ ledger'[i].wallet = "user" => ledger'[i].owner \in Users

LEMMA SaleEntries ==
    ASSUME WalletsTyped, IsFiniteSet(Users), NEW s \in SaleTask, NEW beans \in Nat, NEW ref \in Nat,
           transferUserToHost(s, beans, ref)
    PROVE  /\ ledger \in Seq(Entries) /\ Grown(ledger, ledger') /\ SaleEntered(s, beans, ref)
           /\ \A h \in Hosts : HeldIn(ledger, "host", h, {"call_billing"})'
                  = HeldIn(ledger, "host", h, {"call_billing"})
                    + IF h = s.host /\ s.kind = "call_billing" THEN beans ELSE 0
           /\ PaidByAll' = PaidByAll - s.price
  <1>1. PICK d, c, more : /\ d = Entry("user", s.user, -s.price, s.kind, ref, s.began)
                          /\ c = Entry("host", s.host, beans, s.kind, ref, s.began)
                          /\ more = <<d, c>>
    OBVIOUS
  <1>2. s.user \in Users /\ s.host \in Hosts /\ s.kind \in EarningKinds /\ s.price \in Nat
        /\ s.began \in Nat /\ EarningKinds \subseteq EntryKinds
    BY DEF SaleTask, EntryKinds
  <1>3. /\ d \in Entries /\ d.amount = -s.price /\ d.wallet = "user" /\ d.owner = s.user
        /\ d.kind = s.kind
    <2>1. -s.price \in Int
      BY <1>2
    <2> QED BY <1>1, <1>2, <2>1, EntryTyped DEF Entry
  <1>4. /\ c \in Entries /\ c.amount = beans /\ c.wallet = "host" /\ c.owner = s.host
        /\ c.kind = s.kind
    BY <1>1, <1>2, EntryTyped DEF Entry
  <1>5. /\ ledger' = ledger \o more /\ more \in Seq(Entries) /\ ledger \in Seq(Entries)
        /\ DOMAIN more = {1, 2} /\ more[1] = d /\ more[2] = c
    BY <1>1, <1>3, <1>4 DEF transferUserToHost, WalletsTyped
  <1>6. Joins(ledger', ledger, more)
    BY <1>5 DEF Joins
  <1>7. PICK n : n = Len(ledger) + 2
    OBVIOUS
  <1>8. /\ \A i \in DOMAIN ledger : i \in DOMAIN ledger' /\ ledger'[i] = ledger[i]
        /\ n \in DOMAIN ledger' \ DOMAIN ledger /\ ledger'[n] = c
        /\ \A i \in DOMAIN ledger' \ DOMAIN ledger : i = n \/ ledger'[i] = d
    BY <1>5, <1>7, <1>1
  <1>9. Grown(ledger, ledger') /\ SaleEntered(s, beans, ref)
    <2>1. \A i \in DOMAIN ledger' \ DOMAIN ledger :
              /\ ledger'[i].kind = s.kind /\ (ledger'[i].wallet = "host" => i = n)
              /\ ledger'[i].wallet = "user" => ledger'[i].owner \in Users
      BY <1>2, <1>3, <1>4, <1>8
    <2> QED BY <1>1, <1>8, <2>1 DEF Grown, SaleEntered
  <1>10. ASSUME NEW h \in Hosts
         PROVE  HeldIn(ledger', "host", h, {"call_billing"})
                    = HeldIn(ledger, "host", h, {"call_billing"})
                      + IF h = s.host /\ s.kind = "call_billing" THEN beans ELSE 0
    <2>0. HeldIn(ledger, "host", h, {"call_billing"}) \in Int
      BY <1>5, RowsFinite
    <2>1. CASE h = s.host /\ s.kind = "call_billing"
      <3>1. OnlyAt(2, more, "host", h, {"call_billing"})
        BY <1>3, <1>4, <1>5, <2>1 DEF Matches, OnlyAt
      <3>2. HeldIn(ledger', "host", h, {"call_billing"})
                = HeldIn(ledger, "host", h, {"call_billing"}) + more[2].amount
        BY <1>6, <3>1, OneAdded
      <3> QED BY <1>4, <1>5, <2>1, <3>2
    <2>2. CASE ~(h = s.host /\ s.kind = "call_billing")
      <3>1. Omits(more, "host", h, {"call_billing"})
        BY <1>3, <1>4, <1>5, <2>2 DEF Matches, Omits
      <3>2. HeldIn(ledger', "host", h, {"call_billing"}) = HeldIn(ledger, "host", h, {"call_billing"})
        BY <1>6, <3>1, OthersAdded
      <3> QED BY <2>0, <2>2, <3>2
    <2> QED BY <2>1, <2>2
  <1>11. PICK f, g : /\ f = [u \in Users |-> HeldIn(ledger, "user", u, EarningKinds)]
                     /\ g = [u \in Users |-> HeldIn(ledger', "user", u, EarningKinds)]
    OBVIOUS
  <1>12. g[s.user] = f[s.user] - s.price
    <2>1. OnlyAt(1, more, "user", s.user, EarningKinds)
      BY <1>2, <1>3, <1>4, <1>5 DEF Matches, OnlyAt
    <2>2. HeldIn(ledger', "user", s.user, EarningKinds)
              = HeldIn(ledger, "user", s.user, EarningKinds) + more[1].amount
      BY <1>6, <2>1, OneAdded
    <2>3. HeldIn(ledger, "user", s.user, EarningKinds) \in Int
      BY <1>5, RowsFinite
    <2> QED BY <1>2, <1>3, <1>5, <1>11, <2>2, <2>3
  <1>13. \A u \in Users \ {s.user} : g[u] = f[u]
    <2> SUFFICES ASSUME NEW u \in Users \ {s.user} PROVE g[u] = f[u]
      OBVIOUS
    <2>1. Omits(more, "user", u, EarningKinds)
      BY <1>3, <1>4, <1>5 DEF Matches, Omits
    <2>2. HeldIn(ledger', "user", u, EarningKinds) = HeldIn(ledger, "user", u, EarningKinds)
      BY <1>6, <2>1, OthersAdded
    <2> QED BY <1>11, <2>2
  <1>14. \A u \in Users : f[u] \in Int
    BY <1>5, <1>11, RowsFinite
  <1>15. SumFunctionOnSet(g, Users) = SumFunctionOnSet(f, Users) - s.price
    <2>1. SumFunctionOnSet(f, Users) \in Int
      BY <1>14, SumIsInteger
    <2>2. g[s.user] \in Int
      BY <1>2, <1>12, <1>14
    <2>3. SumFunctionOnSet(g, Users) = SumFunctionOnSet(f, Users) - f[s.user] + g[s.user]
      BY <1>2, <1>13, <1>14, <2>2, SumUpdated
    <2> QED BY <1>2, <1>12, <1>14, <2>1, <2>3
  <1>16. PaidByAll' = PaidByAll - s.price
    <2>1. f = [u \in Users |-> PaidBy(u)] /\ g = [u \in Users |-> PaidBy(u)]'
      <3>1. f = [u \in Users |-> PaidBy(u)]
        BY <1>11 DEF PaidBy
      <3>2. \A u \in Users : HeldIn(ledger', "user", u, EarningKinds) = PaidBy(u)'
        BY DEF PaidBy, HeldIn, RowsIn
      <3>3. g = [u \in Users |-> PaidBy(u)]'
        BY <1>11, <3>2
      <3> QED BY <3>1, <3>3
    <2> QED BY <1>15, <2>1 DEF PaidByAll
  <1>17. \A h \in Hosts : HeldIn(ledger, "host", h, {"call_billing"})'
                              = HeldIn(ledger', "host", h, {"call_billing"})
    BY DEF HeldIn, RowsIn
  <1> QED BY <1>5, <1>9, <1>10, <1>16, <1>17

\* A share is not more than the whole.
LEMMA BeansArePaid ==
    ASSUME NEW price, NEW points, Priced(price, points)
    PROVE  /\ CommissionOn(price, points) \in Nat /\ CommissionOn(price, points) <= price
           /\ price - CommissionOn(price, points) - PaisePerBean * BeansFor(price, points)
                  \in 0..(PaisePerBean - 1)
           /\ PaisePerBean * BeansFor(price, points) <= price
  <1>0. price \in Nat /\ points \in 0..10000
    BY DEF Priced, BasisPoints
  <1>1. price * points \in Nat /\ price * points <= price * 10000
    <2>1. points \in Nat /\ points <= 10000 /\ 10000 \in Nat
      BY <1>0
    <2> QED BY <1>0, <2>1, ProductNatural, ProductMonotone
  <1>2. CommissionOn(price, points) \in Nat /\ CommissionOn(price, points) <= price
    <2>1. PICK x : x = price * points
      OBVIOUS
    <2>2. x \in Nat /\ x <= price * 10000
      BY <1>1, <2>1
    <2>3. x \div 10000 \in Nat /\ x \div 10000 <= price
      BY <1>0, <2>2
    <2> QED BY <2>1, <2>3 DEF CommissionOn
  <1>3. PICK y, q, c : /\ c = CommissionOn(price, points) /\ y = price - c
                       /\ q = y \div PaisePerBean
    OBVIOUS
  <1>4. y \in Nat /\ c \in Nat /\ q = BeansFor(price, points)
    BY <1>0, <1>2, <1>3 DEF BeansFor
  <1>5. PICK p \in Nat \ {0} : p = PaisePerBean
    BY ConstantTypes
  <1>6. q \in Int
    BY <1>3, <1>4, <1>5
  <1>7. PICK m \in Int : m = q * p
    BY <1>6
  <1>8. m <= y /\ y < m + p
    BY <1>3, <1>4, <1>5, <1>7
  <1>9. m = PaisePerBean * q
    BY <1>5, <1>6, <1>7
  <1>10. y - m \in 0..(p - 1) /\ m <= price
    BY <1>0, <1>2, <1>3, <1>4, <1>8
  <1> QED BY <1>2, <1>3, <1>4, <1>5, <1>9, <1>10

\* A call that is billed keeps its terms; its totals and its host's move with it.
LEMMA BilledCall ==
    ASSUME SalesTyped, NEW n \in DOMAIN calls, NEW price \in Nat, NEW beans \in Nat, now \in Nat,
           Billed(calls', calls, n, price, beans, now)
    PROVE  /\ DOMAIN calls' = DOMAIN calls /\ SameTerms
           /\ \A c \in DOMAIN calls \ {n} : calls'[c] = calls[c]
           /\ calls'[n].total = calls[n].total + price /\ calls'[n].beans = calls[n].beans + beans
           /\ calls'[n].updated = now /\ calls'[n].host = calls[n].host
           /\ calls'[n].points = calls[n].points
  <1>1. PICK old, new : /\ old = calls[n]
                        /\ new = [[[old EXCEPT !.total = @ + price] EXCEPT !.beans = @ + beans]
                                     EXCEPT !.updated = now]
    OBVIOUS
  <1>2. old \in CallRow
    BY <1>1, RowTyped
  <1>3. /\ DOMAIN calls' = DOMAIN calls /\ calls'[n] = new
        /\ \A c \in DOMAIN calls \ {n} : calls'[c] = calls[c]
    BY <1>1 DEF Billed
  <1>4. /\ new.total = old.total + price /\ new.beans = old.beans + beans /\ new.updated = now
        /\ new.host = old.host /\ new.points = old.points
    BY <1>1, <1>2 DEF CallRow
  <1>5. SameTerms
    BY <1>1, <1>3, <1>4 DEF SameTerms
  <1> QED BY <1>1, <1>3, <1>4, <1>5

LEMMA CallSumsMove ==
    ASSUME SalesTyped, NEW n \in DOMAIN calls, NEW price \in Nat, NEW beans \in Nat, now \in Nat,
           Billed(calls', calls, n, price, beans, now)
    PROVE  /\ CallTotals' = CallTotals + price
           /\ \A h \in Hosts : CallBeans(h)'
                  = CallBeans(h) + IF h = calls[n].host THEN beans ELSE 0
  <1>1. PICK f, g, p, q : /\ f = [c \in DOMAIN calls |-> calls[c].beans]
                          /\ g = [c \in DOMAIN calls' |-> calls'[c].beans]
                          /\ p = [c \in DOMAIN calls |-> calls[c].total]
                          /\ q = [c \in DOMAIN calls' |-> calls'[c].total]
    OBVIOUS
  <1>2. /\ DOMAIN calls' = DOMAIN calls /\ SameTerms
        /\ \A c \in DOMAIN calls \ {n} : calls'[c] = calls[c]
        /\ calls'[n].total = calls[n].total + price /\ calls'[n].beans = calls[n].beans + beans
    BY BilledCall
  <1>3. \A c \in DOMAIN calls : calls[c].beans \in Nat /\ calls[c].total \in Nat
    BY RowTyped DEF CallRow
  <1>4. /\ \A c \in DOMAIN calls : f[c] \in Int /\ p[c] \in Int
        /\ \A c \in DOMAIN calls \ {n} : g[c] = f[c] /\ q[c] = p[c]
        /\ g[n] = f[n] + beans /\ q[n] = p[n] + price /\ g[n] \in Int /\ q[n] \in Int
    BY <1>1, <1>2, <1>3
  <1>5. CallTotals' = CallTotals + price
    <2>1. IsFiniteSet(DOMAIN calls)
      BY TableFinite DEF SalesTyped
    <2>2. SumFunctionOnSet(q, DOMAIN calls) = SumFunctionOnSet(p, DOMAIN calls) - p[n] + q[n]
      BY <1>4, <2>1, SumUpdated
    <2>3. SumFunctionOnSet(p, DOMAIN calls) \in Int
      BY <1>4, <2>1, SumIsInteger
    <2>4. SumFunctionOnSet(q, DOMAIN calls) = SumFunctionOnSet(p, DOMAIN calls) + price
      BY <1>4, <2>2, <2>3
    <2> QED BY <1>1, <1>2, <2>4 DEF CallTotals
  <1>6. ASSUME NEW h \in Hosts
        PROVE  CallBeans(h)' = CallBeans(h) + IF h = calls[n].host THEN beans ELSE 0
    <2>1. PICK S : S = CallsOf(h)
      OBVIOUS
    <2>2. S \subseteq DOMAIN calls /\ IsFiniteSet(S)
      <3>1. S \subseteq DOMAIN calls
        BY <2>1 DEF CallsOf
      <3> QED BY <3>1, TableFinite DEF SalesTyped
    <2>3. S = {c \in DOMAIN calls' : calls'[c].host = h}
      BY <1>2, <2>1 DEF CallsOf, SameTerms
    <2>4. SumFunctionOnSet(f, S) \in Int
      BY <1>4, <2>2, SumIsInteger
    <2>5. SumFunctionOnSet(g, S) = SumFunctionOnSet(f, S) + IF h = calls[n].host THEN beans ELSE 0
      <3>1. CASE h = calls[n].host
        <4>1. n \in S
          BY <2>1, <3>1 DEF CallsOf
        <4>2. SumFunctionOnSet(g, S) = SumFunctionOnSet(f, S) - f[n] + g[n]
          BY <1>4, <2>2, <4>1, SumUpdated
        <4> QED BY <1>4, <2>4, <3>1, <4>2
      <3>2. CASE h # calls[n].host
        <4>1. n \notin S
          BY <2>1, <3>2 DEF CallsOf
        <4>2. \A c \in S : f[c] = g[c]
          BY <1>4, <2>2, <4>1
        <4>3. SumFunctionOnSet(f, S) = SumFunctionOnSet(g, S)
          BY <2>2, <4>2, SameSum
        <4> QED BY <2>4, <3>2, <4>3
      <3> QED BY <3>1, <3>2
    <2> QED BY <1>1, <2>1, <2>3, <2>5 DEF CallBeans, CallsOf
  <1> QED BY <1>5, <1>6

\* The entries of another kind's rows are what they were.
LEMMA OtherEntriesStay ==
    ASSUME NEW kind, NEW expected, NEW s, s.kind # kind, NEW beans, NEW ref,
           Grown(ledger, ledger'), SaleEntered(s, beans, ref), Entered(ledger, kind, expected)
    PROVE  Entered(ledger', kind, expected)
  <1>1. \A i \in DOMAIN ledger' \ DOMAIN ledger : ledger'[i].kind = s.kind
    BY DEF SaleEntered
  <1> QED BY <1>1, EnteredOthers

\* The credit is the one the new row stands for.
LEMMA SaleEntryMatches ==
    ASSUME NEW kind, NEW expected, NEW after, NEW s, s.kind = kind, NEW beans, NEW ref,
           Grown(ledger, ledger'), SaleEntered(s, beans, ref), Entered(ledger, kind, expected),
           NEW n, n \notin DOMAIN expected, DOMAIN after = DOMAIN expected \cup {n},
           \A k \in DOMAIN expected : after[k] = expected[k],
           after[n] = Entry("host", s.host, beans, kind, ref, s.began)
    PROVE  Entered(ledger', kind, after)
  <1>1. PICK i \in DOMAIN ledger' \ DOMAIN ledger :
            /\ ledger'[i] = Entry("host", s.host, beans, s.kind, ref, s.began)
            /\ \A j \in DOMAIN ledger' \ DOMAIN ledger :
                   ledger'[j].kind = s.kind /\ (ledger'[j].wallet = "host" => j = i)
    BY DEF SaleEntered
  <1>2. ledger'[i].wallet = "host" /\ ledger'[i].kind = kind /\ ledger'[i] = after[n]
    BY <1>1 DEF Entry
  <1>3. \A j \in DOMAIN ledger' \ DOMAIN ledger :
            ledger'[j].wallet = "host" /\ ledger'[j].kind = kind => j = i
    BY <1>1
  <1> HIDE DEF Grown, Entered
  <1> QED BY <1>2, <1>3, EnteredOne

LEMMA SaleTaskTyped ==
    ASSUME NEW s \in SaleTask
    PROVE  /\ s.at = "transfer" /\ s.kind \in EarningKinds /\ s.user \in Users /\ s.host \in Hosts
           /\ s.price \in Nat /\ s.points \in BasisPoints /\ s.began \in Nat
           /\ BeansFor(s.price, s.points) \in Nat
           /\ PaisePerBean * BeansFor(s.price, s.points) <= s.price
  <1>1. /\ s.at = "transfer" /\ s.kind \in EarningKinds /\ s.user \in Users /\ s.host \in Hosts
        /\ s.price \in Nat /\ s.points \in BasisPoints /\ s.began \in Nat
    BY DEF SaleTask
  <1>2. Priced(s.price, s.points)
    BY <1>1 DEF Priced
  <1> QED BY <1>1, <1>2, BeansNatural, BeansArePaid

LEMMA SumsTyped ==
    ASSUME SalesTyped
    PROVE  /\ CallTotals \in Int /\ GiftPrices \in Int /\ MessageCharges \in Int
           /\ \A h \in Hosts : CallBeans(h) \in Int
  <1>1. PICK p, f, g, m : /\ p = [c \in DOMAIN calls |-> calls[c].total]
                          /\ f = [c \in DOMAIN calls |-> calls[c].beans]
                          /\ g = [k \in DOMAIN gift |-> gift[k].price]
                          /\ m = [k \in DOMAIN message |-> message[k].charged]
    OBVIOUS
  <1>2. \A c \in DOMAIN calls : p[c] \in Int /\ f[c] \in Int
    <2>1. \A c \in DOMAIN calls : calls[c].total \in Int /\ calls[c].beans \in Int
      BY RowTyped DEF CallRow
    <2> QED BY <1>1, <2>1
  <1>3. \A k \in DOMAIN gift : g[k] \in Int
    <2>1. \A k \in DOMAIN gift : gift[k].price \in Int
      BY RowTyped DEF GiftRow
    <2> QED BY <1>1, <2>1
  <1>4. \A k \in DOMAIN message : m[k] \in Int
    <2>1. \A k \in DOMAIN message : message[k].charged \in Int
      BY RowTyped DEF MessageRow
    <2> QED BY <1>1, <2>1
  <1>5. IsFiniteSet(DOMAIN calls) /\ IsFiniteSet(DOMAIN gift) /\ IsFiniteSet(DOMAIN message)
    BY TableFinite DEF SalesTyped
  <1>6. CallTotals \in Int
    <2>1. SumFunctionOnSet(p, DOMAIN calls) \in Int
      BY <1>2, <1>5, SumIsInteger
    <2> QED BY <1>1, <2>1 DEF CallTotals
  <1>7. GiftPrices \in Int
    <2>1. SumFunctionOnSet(g, DOMAIN gift) \in Int
      BY <1>3, <1>5, SumIsInteger
    <2> QED BY <1>1, <2>1 DEF GiftPrices
  <1>8. MessageCharges \in Int
    <2>1. SumFunctionOnSet(m, DOMAIN message) \in Int
      BY <1>4, <1>5, SumIsInteger
    <2> QED BY <1>1, <2>1 DEF MessageCharges
  <1>9. ASSUME NEW h \in Hosts PROVE CallBeans(h) \in Int
    <2>1. PICK S : S = CallsOf(h)
      OBVIOUS
    <2>2. S \subseteq DOMAIN calls /\ IsFiniteSet(S)
      <3>1. S \subseteq DOMAIN calls
        BY <2>1 DEF CallsOf
      <3> QED BY <1>5, <3>1, FS_Subset
    <2>3. SumFunctionOnSet(f, S) \in Int
      BY <1>2, <2>2, SumIsInteger
    <2> QED BY <1>1, <2>1, <2>3 DEF CallBeans
  <1> QED BY <1>6, <1>7, <1>8, <1>9

LEMMA PaidTyped ==
    ASSUME WalletsTyped, IsFiniteSet(Users)
    PROVE  PaidByAll \in Int
  <1>1. PICK f : f = [u \in Users |-> PaidBy(u)]
    OBVIOUS
  <1>2. \A u \in Users : f[u] \in Int
    <2>1. \A u \in Users : PaidBy(u) \in Int
      BY RowsFinite DEF PaidBy, WalletsTyped
    <2> QED BY <1>1, <2>1
  <1>3. SumFunctionOnSet(f, Users) \in Int
    BY <1>2, SumIsInteger
  <1> QED BY <1>1, <1>3 DEF PaidByAll

\* A sale is under way as what it knows says, and commits.
Committing(s) ==
    /\ s \in SaleTask /\ Grounded(s) /\ TickTaskRight(s) /\ IsFiniteSet(Users)
    /\ BooksInv /\ SalesInv /\ UNCHANGED now

LEMMA TickBooked ==
    ASSUME NEW s, Committing(s), NEW beans, beans = BeansFor(s.price, s.points),
           RecordTick(s, beans)
    PROVE  SalesBooked' /\ SameTerms
           /\ (\A c \in DOMAIN calls : CallRight(calls[c]))'
  <1>0. /\ s \in SaleTask /\ Grounded(s) /\ TickTaskRight(s) /\ IsFiniteSet(Users)
        /\ SalesBooked /\ RowsRight /\ now' = now /\ now \in Nat /\ WalletsTyped /\ SalesTyped
    BY WalletsOfTables DEF Committing, SalesInv, BooksInv, BooksTyped, TablesTyped
  <1>1. /\ s.at = "transfer" /\ s.host \in Hosts /\ s.price \in Nat /\ s.began \in Nat
        /\ beans \in Nat /\ PaisePerBean * beans <= s.price
    BY <1>0, SaleTaskTyped
  <1>2. /\ s.kind = "call_billing" /\ UNCHANGED <<gift, message>>
        /\ transferUserToHost(s, beans, s.what)
        /\ Billed(calls', calls, s.what, s.price, beans, now)
    BY DEF RecordTick, Billed
  <1>3. PICK row, n : /\ row = [call |-> s.what, amount |-> s.price, at |-> s.began]
                      /\ n = Len(tick) + 1
    OBVIOUS
  <1>4. s.what \in DOMAIN calls /\ calls[s.what].host = s.host /\ calls[s.what].points = s.points
    BY <1>0, <1>1, <1>2 DEF Grounded, TickTaskRight
  <1>5. s.what \in Nat
    BY <1>0, <1>4, TableFinite DEF SalesTyped
  <1>6. /\ ledger \in Seq(Entries) /\ Grown(ledger, ledger') /\ SaleEntered(s, beans, s.what)
        /\ \A h \in Hosts : HeldIn(ledger, "host", h, {"call_billing"})'
               = HeldIn(ledger, "host", h, {"call_billing"}) + IF h = s.host THEN beans ELSE 0
        /\ PaidByAll' = PaidByAll - s.price
    BY <1>0, <1>1, <1>2, <1>5, SaleEntries
  <1>7. /\ DOMAIN calls' = DOMAIN calls /\ SameTerms
        /\ \A c \in DOMAIN calls \ {s.what} : calls'[c] = calls[c]
        /\ calls'[s.what].total = calls[s.what].total + s.price
        /\ calls'[s.what].beans = calls[s.what].beans + beans
        /\ calls'[s.what].updated = now
        /\ calls'[s.what].host = calls[s.what].host /\ calls'[s.what].points = calls[s.what].points
    BY <1>0, <1>1, <1>2, <1>4, BilledCall
  <1>8. /\ CallTotals' = CallTotals + s.price
        /\ \A h \in Hosts : CallBeans(h)' = CallBeans(h) + IF h = s.host THEN beans ELSE 0
    BY <1>0, <1>1, <1>2, <1>4, CallSumsMove
  <1>9. Entered(ledger', "call_billing", TickEntries')
    <2>1. /\ tick' = Append(tick, row) /\ tick \in Seq(TickRow) /\ row \in TickRow
          /\ row.call = s.what /\ row.amount = s.price /\ row.at = s.began
      BY <1>0, <1>1, <1>3, <1>5 DEF RecordTick, SalesTyped, TickRow
    <2>2. /\ DOMAIN tick' = DOMAIN tick \cup {n} /\ tick'[n] = row /\ n \notin DOMAIN tick
          /\ \A k \in DOMAIN tick : tick'[k] = tick[k]
      BY <1>3, <2>1, TableGrows
    <2>3. PICK old, new : old = TickEntries /\ new = TickEntries'
      OBVIOUS
    <2>4. DOMAIN old = DOMAIN tick /\ DOMAIN new = DOMAIN old \cup {n} /\ n \notin DOMAIN old
      BY <2>2, <2>3 DEF TickEntries
    <2>5. ASSUME NEW k \in DOMAIN tick PROVE new[k] = old[k]
      <3>1. tick[k].call \in DOMAIN calls
        BY <1>0, RowTyped
      <3>2. TickEntry(k)' = TickEntry(k)
        BY <1>7, <2>2, <3>1 DEF SameTerms, TickEntry, Entry, BeansFor, CommissionOn
      <3>3. new[k] = TickEntry(k)' /\ old[k] = TickEntry(k)
        BY <2>2, <2>3 DEF TickEntries
      <3> QED BY <3>2, <3>3
    <2>6. new[n] = Entry("host", s.host, beans, "call_billing", s.what, s.began)
      <3>1. new[n] = Entry("host", calls'[tick'[n].call].host,
                           BeansFor(tick'[n].amount, calls'[tick'[n].call].points),
                           "call_billing", tick'[n].call, tick'[n].at)
        BY <2>2, <2>3 DEF TickEntries, TickEntry
      <3> QED BY <1>4, <1>7, <2>1, <2>2, <3>1
    <2>7. Entered(ledger, "call_billing", old)
      BY <1>0, <2>3 DEF SalesBooked
    <2>8. Entered(ledger', "call_billing", new)
      BY <1>2, <1>6, <2>4, <2>5, <2>6, <2>7, SaleEntryMatches
    <2> QED BY <2>3, <2>8
  <1>10. Entered(ledger', "gift", GiftEntries')
    <2>1. GiftEntries' = GiftEntries
      BY <1>2 DEF GiftEntries, GiftEntry, Entry
    <2>2. Entered(ledger', "gift", GiftEntries)
      BY <1>0, <1>2, <1>6, OtherEntriesStay DEF SalesBooked
    <2> QED BY <2>1, <2>2
  <1>11. \A h \in Hosts : CallBeans(h)' = HeldIn(ledger, "host", h, {"call_billing"})'
    BY <1>0, <1>6, <1>8 DEF SalesBooked
  <1>12. (CallTotals + GiftPrices + MessageCharges + PaidByAll = 0)'
    <2>1. GiftPrices' = GiftPrices /\ MessageCharges' = MessageCharges
      BY <1>2 DEF GiftPrices, MessageCharges
    <2>2. CallTotals \in Int /\ GiftPrices \in Int /\ MessageCharges \in Int /\ PaidByAll \in Int
      BY <1>0, SumsTyped, PaidTyped
    <2>3. CallTotals + GiftPrices + MessageCharges + PaidByAll = 0
      BY <1>0 DEF SalesBooked
    <2>4. PICK c, g, m, p, d : /\ c = CallTotals /\ g = GiftPrices /\ m = MessageCharges
                               /\ p = PaidByAll /\ d = s.price
      OBVIOUS
    <2>5. /\ c \in Int /\ g \in Int /\ m \in Int /\ p \in Int /\ d \in Int
          /\ c + g + m + p = 0
      BY <1>1, <2>2, <2>3, <2>4
    <2>6. (c + d) + g + m + (p - d) = 0
      BY <2>5
    <2> QED BY <1>6, <1>8, <2>1, <2>4, <2>6
  <1>13. SalesBooked'
    <2>1. Entered(ledger, "call_billing", TickEntries)' /\ Entered(ledger, "gift", GiftEntries)'
      BY <1>9, <1>10 DEF Entered, HostEntries
    <2>2. PayersRight'
      BY <1>0, <1>6, PayersStay DEF SalesBooked, SaleEntered
    <2> QED BY <1>11, <1>12, <2>1, <2>2 DEF SalesBooked
  <1>14. (\A c \in DOMAIN calls : CallRight(calls[c]))'
    <2>1. \A c \in DOMAIN calls : CallRight(calls[c])
      BY <1>0 DEF RowsRight
    <2>2. CallRight(calls'[s.what])
      <3>1. PICK a, b : a = calls[s.what].total /\ b = calls[s.what].beans
        OBVIOUS
      <3>2. a \in Nat /\ b \in Nat /\ PaisePerBean * b <= a /\ PaisePerBean \in Nat
        BY <1>0, <1>4, <2>1, <3>1, RowTyped, ConstantTypes DEF CallRight, CallRow
      <3>3. PaisePerBean * (b + beans) = PaisePerBean * b + PaisePerBean * beans
        BY <1>1, <3>2
      <3>4. PaisePerBean * b \in Nat /\ PaisePerBean * beans \in Nat
        BY <1>1, <3>2, ProductNatural
      <3>5. PaisePerBean * (b + beans) <= a + s.price
        BY <1>1, <3>2, <3>3, <3>4
      <3> QED BY <1>0, <1>7, <3>1, <3>5 DEF CallRight
    <2>3. \A c \in DOMAIN calls' : CallRight(calls'[c])
      BY <1>7, <2>1, <2>2
    <2> QED BY <1>0, <2>3 DEF CallRight
  <1> QED BY <1>7, <1>13, <1>14

LEMMA CallsUnchanged ==
    ASSUME UNCHANGED calls
    PROVE  CallTotals' = CallTotals /\ \A h \in Hosts : CallBeans(h)' = CallBeans(h)
  BY DEF CallTotals, CallBeans, CallsOf

LEMMA GiftBooked ==
    ASSUME NEW s, Committing(s), NEW beans, beans = BeansFor(s.price, s.points),
           RecordGift(s, beans)
    PROVE  SalesBooked' /\ (\A k \in DOMAIN gift : GiftRight(gift[k]))'
  <1>0. /\ s \in SaleTask /\ Grounded(s) /\ IsFiniteSet(Users)
        /\ SalesBooked /\ RowsRight /\ now' = now /\ now \in Nat /\ WalletsTyped /\ SalesTyped
    BY WalletsOfTables DEF Committing, SalesInv, BooksInv, BooksTyped, TablesTyped
  <1>1. /\ s.at = "transfer" /\ s.host \in Hosts /\ s.price \in Nat /\ s.began \in Nat
        /\ s.points \in BasisPoints /\ beans \in Nat
    BY <1>0, SaleTaskTyped
  <1>2. PICK row, n : /\ row = [host |-> s.host, context |-> s.what, price |-> s.price,
                                points |-> s.points, beans |-> beans, at |-> s.began]
                      /\ n = Len(gift) + 1
    OBVIOUS
  <1>3. /\ s.kind = "gift" /\ UNCHANGED <<calls, tick, message>>
        /\ transferUserToHost(s, beans, n) /\ gift' = Append(gift, row)
    BY <1>2 DEF RecordGift
  <1>4. /\ row.host = s.host /\ row.price = s.price /\ row.points = s.points
        /\ row.beans = beans /\ row.at = s.began
    BY <1>2
  <1>5. row \in GiftRow /\ gift \in Seq(GiftRow)
    <2>1. s.what \in Contexts
      BY <1>0, <1>1, <1>3 DEF Grounded
    <2> QED BY <1>0, <1>1, <1>2, <2>1 DEF SalesTyped, GiftRow
  <1>6. /\ DOMAIN gift' = DOMAIN gift \cup {n} /\ gift'[n] = row /\ n \notin DOMAIN gift
        /\ \A k \in DOMAIN gift : gift'[k] = gift[k]
        /\ n \in Nat
    BY <1>2, <1>3, <1>5, TableGrows
  <1>7. /\ ledger \in Seq(Entries) /\ Grown(ledger, ledger') /\ SaleEntered(s, beans, n)
        /\ \A h \in Hosts : HeldIn(ledger, "host", h, {"call_billing"})'
               = HeldIn(ledger, "host", h, {"call_billing"}) + 0
        /\ PaidByAll' = PaidByAll - s.price
    BY <1>0, <1>1, <1>3, <1>6, SaleEntries
  <1>8. Entered(ledger', "gift", GiftEntries')
    <2>1. PICK old, new : old = GiftEntries /\ new = GiftEntries'
      OBVIOUS
    <2>2. DOMAIN old = DOMAIN gift /\ DOMAIN new = DOMAIN old \cup {n} /\ n \notin DOMAIN old
      BY <1>6, <2>1 DEF GiftEntries
    <2>3. \A k \in DOMAIN gift : new[k] = old[k]
      BY <1>6, <2>1 DEF GiftEntries, GiftEntry
    <2>4. new[n] = Entry("host", s.host, beans, "gift", n, s.began)
      BY <1>4, <1>6, <2>1 DEF GiftEntries, GiftEntry
    <2>5. Entered(ledger, "gift", old)
      BY <1>0, <2>1 DEF SalesBooked
    <2>6. Entered(ledger', "gift", new)
      BY <1>3, <1>7, <2>2, <2>3, <2>4, <2>5, SaleEntryMatches
    <2> QED BY <2>1, <2>6
  <1>9. Entered(ledger', "call_billing", TickEntries')
    <2>1. TickEntries' = TickEntries
      BY <1>3 DEF TickEntries, TickEntry, Entry, BeansFor, CommissionOn
    <2>2. Entered(ledger', "call_billing", TickEntries)
      BY <1>0, <1>3, <1>7, OtherEntriesStay DEF SalesBooked
    <2> QED BY <2>1, <2>2
  <1>10. GiftPrices' = GiftPrices + s.price
    <2>1. PICK f, g : /\ f = [k \in DOMAIN gift |-> gift[k].price]
                      /\ g = [k \in DOMAIN gift' |-> gift'[k].price]
      OBVIOUS
    <2>2. \A k \in DOMAIN gift : f[k] \in Int /\ g[k] = f[k]
      <3>1. \A k \in DOMAIN gift : gift[k].price \in Int
        BY <1>0, RowTyped DEF GiftRow
      <3> QED BY <1>6, <2>1, <3>1
    <2>3. g[n] = s.price /\ g[n] \in Int
      BY <1>1, <1>4, <1>6, <2>1
    <2>4. SumFunctionOnSet(g, DOMAIN gift \cup {n}) = SumFunctionOnSet(f, DOMAIN gift) + g[n]
      BY <1>5, <1>6, <2>2, <2>3, ColumnGrows
    <2> QED BY <1>6, <2>1, <2>3, <2>4 DEF GiftPrices
  <1>11. \A h \in Hosts : CallBeans(h)' = HeldIn(ledger, "host", h, {"call_billing"})'
    <2>1. \A h \in Hosts : HeldIn(ledger, "host", h, {"call_billing"}) \in Int
      BY <1>7, RowsFinite
    <2> QED BY <1>0, <1>3, <1>7, <2>1, CallsUnchanged DEF SalesBooked
  <1>12. (CallTotals + GiftPrices + MessageCharges + PaidByAll = 0)'
    <2>1. CallTotals' = CallTotals /\ MessageCharges' = MessageCharges
      BY <1>3, CallsUnchanged DEF MessageCharges
    <2>2. CallTotals \in Int /\ GiftPrices \in Int /\ MessageCharges \in Int /\ PaidByAll \in Int
      BY <1>0, SumsTyped, PaidTyped
    <2>3. CallTotals + GiftPrices + MessageCharges + PaidByAll = 0
      BY <1>0 DEF SalesBooked
    <2>4. PICK c, g, m, p, d : /\ c = CallTotals /\ g = GiftPrices /\ m = MessageCharges
                               /\ p = PaidByAll /\ d = s.price
      OBVIOUS
    <2>5. /\ c \in Int /\ g \in Int /\ m \in Int /\ p \in Int /\ d \in Int
          /\ c + g + m + p = 0
      BY <1>1, <2>2, <2>3, <2>4
    <2>6. c + (g + d) + m + (p - d) = 0
      BY <2>5
    <2> QED BY <1>7, <1>10, <2>1, <2>4, <2>6
  <1>13. SalesBooked'
    <2>1. Entered(ledger, "call_billing", TickEntries)' /\ Entered(ledger, "gift", GiftEntries)'
      BY <1>8, <1>9 DEF Entered, HostEntries
    <2>2. PayersRight'
      BY <1>0, <1>7, PayersStay DEF SalesBooked, SaleEntered
    <2> QED BY <1>11, <1>12, <2>1, <2>2 DEF SalesBooked
  <1>14. (\A k \in DOMAIN gift : GiftRight(gift[k]))'
    <2>1. \A k \in DOMAIN gift : GiftRight(gift[k])
      BY <1>0 DEF RowsRight
    <2>2. GiftRight(row)
      <3>1. s.began <= now
        BY <1>0, <1>1 DEF Grounded
      <3> QED BY <1>4, <3>1 DEF GiftRight
    <2>3. \A k \in DOMAIN gift' : GiftRight(gift'[k])
      BY <1>6, <2>1, <2>2
    <2> QED BY <1>0, <2>3 DEF GiftRight, BeansFor, CommissionOn
  <1> QED BY <1>13, <1>14

LEMMA MessageBooked ==
    ASSUME NEW s, Committing(s), NEW beans, beans = BeansFor(s.price, s.points),
           RecordMessage(s, beans)
    PROVE  SalesBooked' /\ (\A k \in DOMAIN message : MessageRight(message[k]))'
  <1>0. /\ s \in SaleTask /\ Grounded(s) /\ IsFiniteSet(Users)
        /\ SalesBooked /\ RowsRight /\ now' = now /\ now \in Nat /\ WalletsTyped /\ SalesTyped
    BY WalletsOfTables DEF Committing, SalesInv, BooksInv, BooksTyped, TablesTyped
  <1>1. /\ s.at = "transfer" /\ s.host \in Hosts /\ s.price \in Nat /\ s.began \in Nat
        /\ beans \in Nat /\ PaisePerBean * beans <= s.price
    BY <1>0, SaleTaskTyped
  <1>2. PICK row, n : /\ row = [host |-> s.host, charged |-> s.price, beans |-> beans,
                                at |-> s.began]
                      /\ n = Len(message) + 1
    OBVIOUS
  <1>3. /\ s.kind = "chat_message" /\ UNCHANGED <<calls, tick, gift>>
        /\ transferUserToHost(s, beans, n) /\ message' = Append(message, row)
    BY <1>2 DEF RecordMessage
  <1>4. row.host = s.host /\ row.charged = s.price /\ row.beans = beans /\ row.at = s.began
    BY <1>2
  <1>5. row \in MessageRow /\ message \in Seq(MessageRow)
    BY <1>0, <1>1, <1>2 DEF SalesTyped, MessageRow
  <1>6. /\ DOMAIN message' = DOMAIN message \cup {n} /\ message'[n] = row
        /\ n \notin DOMAIN message /\ n \in Nat
        /\ \A k \in DOMAIN message : message'[k] = message[k]
    BY <1>2, <1>3, <1>5, TableGrows
  <1>7. /\ ledger \in Seq(Entries) /\ Grown(ledger, ledger') /\ SaleEntered(s, beans, n)
        /\ \A h \in Hosts : HeldIn(ledger, "host", h, {"call_billing"})'
               = HeldIn(ledger, "host", h, {"call_billing"}) + 0
        /\ PaidByAll' = PaidByAll - s.price
    BY <1>0, <1>1, <1>3, <1>6, SaleEntries
  <1>8. Entered(ledger', "gift", GiftEntries') /\ Entered(ledger', "call_billing", TickEntries')
    <2>1. GiftEntries' = GiftEntries /\ TickEntries' = TickEntries
      BY <1>3 DEF GiftEntries, GiftEntry, TickEntries, TickEntry, Entry, BeansFor, CommissionOn
    <2>2. Entered(ledger', "gift", GiftEntries) /\ Entered(ledger', "call_billing", TickEntries)
      BY <1>0, <1>3, <1>7, OtherEntriesStay DEF SalesBooked
    <2> QED BY <2>1, <2>2
  <1>9. MessageCharges' = MessageCharges + s.price
    <2>1. PICK f, g : /\ f = [k \in DOMAIN message |-> message[k].charged]
                      /\ g = [k \in DOMAIN message' |-> message'[k].charged]
      OBVIOUS
    <2>2. \A k \in DOMAIN message : f[k] \in Int /\ g[k] = f[k]
      <3>1. \A k \in DOMAIN message : message[k].charged \in Int
        BY <1>0, RowTyped DEF MessageRow
      <3> QED BY <1>6, <2>1, <3>1
    <2>3. g[n] = s.price /\ g[n] \in Int
      BY <1>1, <1>4, <1>6, <2>1
    <2>4. SumFunctionOnSet(g, DOMAIN message \cup {n}) = SumFunctionOnSet(f, DOMAIN message) + g[n]
      BY <1>5, <1>6, <2>2, <2>3, ColumnGrows
    <2> QED BY <1>6, <2>1, <2>3, <2>4 DEF MessageCharges
  <1>10. \A h \in Hosts : CallBeans(h)' = HeldIn(ledger, "host", h, {"call_billing"})'
    <2>1. \A h \in Hosts : HeldIn(ledger, "host", h, {"call_billing"}) \in Int
      BY <1>7, RowsFinite
    <2> QED BY <1>0, <1>3, <1>7, <2>1, CallsUnchanged DEF SalesBooked
  <1>11. (CallTotals + GiftPrices + MessageCharges + PaidByAll = 0)'
    <2>1. CallTotals' = CallTotals /\ GiftPrices' = GiftPrices
      BY <1>3, CallsUnchanged DEF GiftPrices
    <2>2. CallTotals \in Int /\ GiftPrices \in Int /\ MessageCharges \in Int /\ PaidByAll \in Int
      BY <1>0, SumsTyped, PaidTyped
    <2>3. CallTotals + GiftPrices + MessageCharges + PaidByAll = 0
      BY <1>0 DEF SalesBooked
    <2> QED BY <1>1, <1>7, <1>9, <2>1, <2>2, <2>3
  <1>12. SalesBooked'
    <2>1. Entered(ledger, "call_billing", TickEntries)' /\ Entered(ledger, "gift", GiftEntries)'
      BY <1>8 DEF Entered, HostEntries
    <2>2. PayersRight'
      BY <1>0, <1>7, PayersStay DEF SalesBooked, SaleEntered
    <2> QED BY <1>10, <1>11, <2>1, <2>2 DEF SalesBooked
  <1>13. (\A k \in DOMAIN message : MessageRight(message[k]))'
    <2>1. \A k \in DOMAIN message : MessageRight(message[k])
      BY <1>0 DEF RowsRight
    <2>2. MessageRight(row)
      <3>1. s.began <= now
        BY <1>0, <1>1 DEF Grounded
      <3> QED BY <1>1, <1>4, <3>1 DEF MessageRight
    <2>3. \A k \in DOMAIN message' : MessageRight(message'[k])
      BY <1>6, <2>1, <2>2
    <2> QED BY <1>0, <2>3 DEF MessageRight
  <1> QED BY <1>12, <1>13

LEMMA CallsStayRight ==
    ASSUME now' = now, UNCHANGED calls, RowsRight
    PROVE  (\A c \in DOMAIN calls : CallRight(calls[c]))'
  <1>1. \A c \in DOMAIN calls : CallRight(calls[c])
    BY DEF RowsRight
  <1> QED BY <1>1 DEF CallRight

LEMMA CommitSales ==
    ASSUME BooksInv, BooksInv', SalesInv, IsFiniteSet(Users), UNCHANGED config,
           NEW t \in Tasks, SaleCommits(t)
    PROVE  SalesInv'
  <1>1. PICK s, beans : s = task[t] /\ beans = BeansFor(s.price, s.points)
    OBVIOUS
  <1>2. s.at = "transfer" /\ now' = now
    BY <1>1 DEF SaleCommits, At
  <1>3. s \in SaleTask /\ Grounded(s)
    BY <1>1, <1>2, TaskTyped, BooksTaskKinds
  <1>4. TickTaskRight(s) /\ RowsRight
    BY <1>1 DEF SalesInv, RowsRight
  <1>5. Committing(s)
    BY <1>2, <1>3, <1>4 DEF Committing
  <1>6. \E x : task' = [task EXCEPT ![t] = x] /\ TickTaskRight(x)'
    <2>1. \A h, l, m : TickTaskRight([at |-> "announce", host |-> h, before |-> l, after |-> m])'
      BY DEF TickTaskRight
    <2>2. TickTaskRight(Idle)'
      BY DEF TickTaskRight, Idle
    <2> QED BY <2>1, <2>2 DEF SaleCommits, Goto, Done
  <1>7. now \in Nat /\ SalesTyped /\ config \in Seq(ConfigRow)
    BY WalletsOfTables DEF BooksInv, BooksTyped, TablesTyped, RewardsTyped
  <1>8. CASE UNCHANGED <<wallets, sales>>
    <2>1. UNCHANGED sales /\ OtherRows /\ LaterConfig /\ now <= now'
      <3>1. UNCHANGED ledger
        BY <1>8 DEF wallets
      <3> QED BY <1>2, <1>7, <1>8, <3>1, NoRows DEF LaterConfig
    <2> QED BY <1>6, <2>1, QuietSales
  <1>9. CASE RecordTick(s, beans) \/ RecordGift(s, beans) \/ RecordMessage(s, beans)
    <2>1. /\ SalesBooked' /\ SameTerms
          /\ (\A c \in DOMAIN calls : CallRight(calls[c]))'
          /\ (\A k \in DOMAIN gift : GiftRight(gift[k]))'
          /\ (\A k \in DOMAIN message : MessageRight(message[k]))'
      <3>0. /\ \A k \in DOMAIN gift : GiftRight(gift[k])
            /\ \A k \in DOMAIN message : MessageRight(message[k])
        BY <1>4 DEF RowsRight
      <3>1. CASE RecordTick(s, beans)
        <4>1. UNCHANGED <<gift, message>>
          BY <3>1 DEF RecordTick
        <4>2. /\ (\A k \in DOMAIN gift : GiftRight(gift[k]))'
              /\ (\A k \in DOMAIN message : MessageRight(message[k]))'
          BY <1>2, <3>0, <4>1 DEF GiftRight, MessageRight, BeansFor, CommissionOn
        <4> QED BY <1>1, <1>5, <3>1, <4>2, TickBooked
      <3>2. CASE RecordGift(s, beans)
        <4>1. UNCHANGED <<calls, message>>
          BY <3>2 DEF RecordGift
        <4>2. /\ (\A c \in DOMAIN calls : CallRight(calls[c]))' /\ SameTerms
              /\ (\A k \in DOMAIN message : MessageRight(message[k]))'
          BY <1>2, <1>4, <3>0, <4>1, CallsStayRight, SalesKept DEF MessageRight
        <4> QED BY <1>1, <1>5, <3>2, <4>2, GiftBooked
      <3>3. CASE RecordMessage(s, beans)
        <4>1. UNCHANGED <<calls, gift>>
          BY <3>3 DEF RecordMessage
        <4>2. /\ (\A c \in DOMAIN calls : CallRight(calls[c]))' /\ SameTerms
              /\ (\A k \in DOMAIN gift : GiftRight(gift[k]))'
          BY <1>2, <1>4, <3>0, <4>1, CallsStayRight, SalesKept DEF GiftRight, BeansFor, CommissionOn
        <4> QED BY <1>1, <1>5, <3>3, <4>2, MessageBooked
      <3> QED BY <1>9, <3>1, <3>2, <3>3
    <2>2. \A r \in Tasks : TickTaskRight(task[r])'
      BY <1>4, <1>6, <2>1, TickTasksStay
    <2>3. (\A i \in DOMAIN config : config[i].from <= now)'
      BY <1>2, <1>4 DEF RowsRight
    <2> QED BY <2>1, <2>2, <2>3 DEF SalesInv, RowsRight
  <1>10. UNCHANGED <<wallets, sales>> \/ RecordTick(s, beans) \/ RecordGift(s, beans)
         \/ RecordMessage(s, beans)
    BY <1>1 DEF SaleCommits
  <1> QED BY <1>8, <1>9, <1>10

\* The other steps sell nothing.
LEMMA OtherSaleStepSales ==
    ASSUME BooksInv, BooksInv', SalesInv, UNCHANGED config, NEW t \in Tasks,
           notifyIfLevelledUp(t) \/ SavePriceLevel(t)
    PROVE  SalesInv'
  <1>1. UNCHANGED <<now, ledger, sales>>
    BY DEF notifyIfLevelledUp, SavePriceLevel, wallets
  <1>2. task' = [task EXCEPT ![t] = Idle] /\ TickTaskRight(Idle)'
    BY DEF notifyIfLevelledUp, SavePriceLevel, Done, Goto, TickTaskRight, Idle
  <1>3. OtherRows /\ LaterConfig /\ now <= now'
    BY <1>1, NoRows, WalletsOfTables DEF LaterConfig, BooksInv, BooksTyped
  <1> QED BY <1>1, <1>2, <1>3, QuietSales

LEMMA LedgerSales ==
    ASSUME BooksInv, BooksInv', SalesInv, IsFiniteSet(Users), UNCHANGED rewardVars, LedgerNext
    PROVE  SalesInv'
  <1>0. UNCHANGED config /\ now \in Nat
    BY WalletsOfTables DEF rewardVars, BooksInv, BooksTyped
  <1>1. CASE LedgerRequest
    BY <1>1, RequestSales
  <1>2. CASE \E t \in Tasks : SaleStep(t)
    BY <1>0, <1>2, CommitSales, OtherSaleStepSales DEF SaleStep
  <1>3. CASE Clock
    <2>1. UNCHANGED <<ledger, sales, task>> /\ now' = now + 1
      BY <1>3 DEF Clock, wallets
    <2>2. OtherRows /\ LaterConfig /\ now <= now'
      BY <1>0, <2>1, NoRows DEF LaterConfig
    <2> QED BY <2>1, <2>2, QuietSales
  <1>4. CASE LedgerRestart
    <2>1. UNCHANGED <<now, ledger, sales>> /\ TasksLost
      BY <1>4 DEF LedgerRestart, wallets
    <2>2. OtherRows /\ LaterConfig /\ now <= now'
      BY <1>0, <2>1, NoRows DEF LaterConfig
    <2> QED BY <2>1, <2>2, QuietSales
  <1> QED BY <1>1, <1>2, <1>3, <1>4 DEF LedgerNext

LEMMA SettleSales ==
    ASSUME BooksInv, BooksInv', SalesInv, IsFiniteSet(Hosts), NEW t \in Tasks,
           settleClosedRewardPeriods(t)
    PROVE  SalesInv'
  <1>1. PICK period, previous : /\ period = task[t].period
                                /\ previous = periodContaining(period, task[t].start - 1)
    OBVIOUS
  <1>2. settleRewardPeriod(period, previous) /\ UNCHANGED <<now, sales, config>>
    BY <1>1 DEF settleClosedRewardPeriods
  <1>3. /\ WalletsTyped /\ now \in Nat /\ config \in Seq(ConfigRow) /\ active \in SUBSET Hosts
        /\ task[t].at = "settle" /\ TablesTyped
    BY WalletsOfTables
    DEF BooksInv, BooksTyped, TablesTyped, RewardsTyped, settleClosedRewardPeriods, At
  <1>4. OtherRows
    <2>1. CASE Settled(period, previous)
      <3>1. UNCHANGED ledger
        BY <1>2, <2>1 DEF settleRewardPeriod, wallets
      <3> QED BY <3>1, NoRows
    <2>2. CASE ~Settled(period, previous)
      <3>1. PICK winners : winners = Winners(period, previous, active) /\ PayWinners(winners)
        BY <1>2, <2>2 DEF settleRewardPeriod
      <3>2. RightWinners(winners)
        BY <1>3, <3>1, WinnersTyped DEF RightWinners
      <3>3. PICK more : Joins(ledger', ledger, more) /\ RewardsBooked(more, winners, now)
        BY <1>3, <3>1, <3>2, RewardsJoin DEF WalletsTyped
      <3>4. /\ ledger \in Seq(Entries) /\ more \in Seq(Entries) /\ ledger' = ledger \o more
            /\ \A k \in DOMAIN more : more[k].kind = "host_reward"
        BY <3>3 DEF Joins, RewardsBooked
      <3>5. /\ \A i \in DOMAIN ledger : i \in DOMAIN ledger' /\ ledger'[i] = ledger[i]
            /\ \A i \in DOMAIN ledger' \ DOMAIN ledger :
                   \E k \in DOMAIN more : ledger'[i] = more[k]
        <4>1. \A i \in DOMAIN ledger' \ DOMAIN ledger :
                  i - Len(ledger) \in DOMAIN more /\ ledger'[i] = more[i - Len(ledger)]
          BY <3>4
        <4> QED BY <3>4, <4>1
      <3>6. "host_reward" \notin EarningKinds
        BY DEF EarningKinds
      <3> QED BY <3>4, <3>5, <3>6 DEF OtherRows, Grown
    <2> QED BY <2>1, <2>2
  <1>5. \E x : task' = [task EXCEPT ![t] = x] /\ TickTaskRight(x)'
    <2>1. TickTaskRight(Idle)'
      BY DEF TickTaskRight, Idle
    <2>2. task[t] \in SettleTask
      BY <1>3, TaskTyped, BooksTaskKinds DEF SettleTask
    <2>3. PICK a, b : /\ a = [task[t] EXCEPT !.start = previous, !.left = @ - 1]
                      /\ b = [task[t] EXCEPT !.period = "weekly", !.left = WeeklyLookback,
                                             !.start = periodContaining("weekly", task[t].cutoff)]
      OBVIOUS
    <2>4. a.at = "settle" /\ b.at = "settle"
      BY <2>2, <2>3 DEF SettleTask
    <2>5. TickTaskRight(a)' /\ TickTaskRight(b)'
      BY <2>4 DEF TickTaskRight
    <2>6. \/ task' = [task EXCEPT ![t] = a] \/ task' = [task EXCEPT ![t] = b]
          \/ task' = [task EXCEPT ![t] = Idle]
      BY <1>1, <2>3 DEF settleClosedRewardPeriods, Goto, Done
    <2> QED BY <2>1, <2>5, <2>6
  <1>6. LaterConfig /\ now <= now'
    BY <1>2, <1>3 DEF LaterConfig
  <1> QED BY <1>2, <1>4, <1>5, <1>6, QuietSales

LEMMA RewardSales ==
    ASSUME BooksInv, BooksInv', SalesInv,
           \/ \E period \in Periods, table \in Tables : setRewardConfig(period, table)
           \/ \E t \in Tasks : StartSweep(t)
           \/ \E h \in Hosts : Suspend(h)
           \/ UNCHANGED <<ledgerVars, rewardVars, task>>
    PROVE  SalesInv'
  <1>0. now \in Nat
    BY WalletsOfTables DEF BooksInv, BooksTyped
  <1>1. UNCHANGED <<now, sales, ledger>>
    BY DEF setRewardConfig, StartSweep, Suspend, ledgerVars, wallets
  <1>2. LaterConfig
    <2>1. ASSUME NEW period \in Periods, NEW table \in Tables, setRewardConfig(period, table)
          PROVE  LaterConfig
      <3>1. PICK row : row = [period |-> period, table |-> table, from |-> now]
        OBVIOUS
      <3>2. row \in ConfigRow /\ row.from = now /\ config' = Append(config, row)
        BY <1>0, <2>1, <3>1 DEF setRewardConfig, ConfigRow
      <3> QED BY <3>2 DEF LaterConfig
    <2>2. CASE ~ \E period \in Periods, table \in Tables : setRewardConfig(period, table)
      BY <2>2 DEF StartSweep, Suspend, rewardVars, LaterConfig
    <2> QED BY <2>1, <2>2
  <1>3. UNCHANGED task \/ \E t \in Tasks : \E x : task' = [task EXCEPT ![t] = x] /\ TickTaskRight(x)'
    <2>1. ASSUME NEW t \in Tasks, StartSweep(t)
          PROVE  \E x : task' = [task EXCEPT ![t] = x] /\ TickTaskRight(x)'
      <3>1. PICK x : x = [at |-> "settle", cutoff |-> now - Grace, period |-> "daily",
                          start |-> periodContaining("daily", now - Grace), left |-> DailyLookback]
        OBVIOUS
      <3>2. task' = [task EXCEPT ![t] = x] /\ TickTaskRight(x)'
        BY <2>1, <3>1 DEF StartSweep, Start, TickTaskRight
      <3> QED BY <3>2
    <2>2. CASE ~ \E t \in Tasks : StartSweep(t)
      BY <2>2 DEF setRewardConfig, Suspend
    <2> QED BY <2>1, <2>2
  <1>4. OtherRows /\ now <= now'
    BY <1>0, <1>1, NoRows
  <1> QED BY <1>1, <1>2, <1>3, <1>4, QuietSales

LEMMA SalesStep ==
    ASSUME IsFiniteSet(Users), IsFiniteSet(Hosts), BooksInv, BooksInv', SalesInv,
           [RewardsNext]_<<ledgerVars, rewardVars, task>>
    PROVE  SalesInv'
  <1>1. CASE UNCHANGED rewardVars /\ LedgerNext
    BY <1>1, LedgerSales
  <1>2. CASE \E t \in Tasks : settleClosedRewardPeriods(t)
    BY <1>2, SettleSales
  <1>3. CASE \/ \E period \in Periods, table \in Tables : setRewardConfig(period, table)
             \/ \E t \in Tasks : StartSweep(t)
             \/ \E h \in Hosts : Suspend(h)
             \/ UNCHANGED <<ledgerVars, rewardVars, task>>
    BY <1>3, RewardSales
  <1> QED BY <1>1, <1>2, <1>3 DEF RewardsNext

LEMMA SalesInit ==
    ASSUME IsFiniteSet(Users), LedgerInit, RewardsInit, NoTasks
    PROVE  SalesInv
  <1>1. \A i \in DOMAIN ledger : ledger[i].wallet = "user" /\ ledger[i].kind = "recharge"
    BY InitBalances
  <1>2. calls = <<>> /\ tick = <<>> /\ gift = <<>> /\ message = <<>> /\ config = <<>>
    BY DEF LedgerInit, RewardsInit
  <1>3. ASSUME NEW wallet, NEW owner, NEW kinds, "recharge" \notin kinds
        PROVE  HeldIn(ledger, wallet, owner, kinds) = 0
    <2>1. RowsIn(ledger, wallet, owner, kinds) = {}
      BY <1>1, <1>3 DEF RowsIn
    <2> QED BY <2>1, SumOfNone DEF HeldIn
  <1>4. ASSUME NEW kind, NEW expected, DOMAIN expected = {} PROVE Entered(ledger, kind, expected)
    <2>1. HostEntries(ledger, kind) = {}
      BY <1>1 DEF HostEntries
    <2>2. PICK m : m = [x \in {} |-> x]
      OBVIOUS
    <2>3. m \in [DOMAIN expected -> HostEntries(ledger, kind)]
      BY <1>4, <2>2
    <2>4. OneToOne(m, DOMAIN expected, HostEntries(ledger, kind))
      BY <1>4, <2>1 DEF OneToOne
    <2> QED BY <1>4, <2>3, <2>4 DEF Entered
  <1>5. Entered(ledger, "call_billing", TickEntries) /\ Entered(ledger, "gift", GiftEntries)
    <2>1. DOMAIN TickEntries = {} /\ DOMAIN GiftEntries = {}
      BY <1>2 DEF TickEntries, GiftEntries
    <2> QED BY <1>4, <2>1
  <1>6. \A h \in Hosts : CallBeans(h) = HeldIn(ledger, "host", h, {"call_billing"})
    <2> SUFFICES ASSUME NEW h \in Hosts
                 PROVE  CallBeans(h) = HeldIn(ledger, "host", h, {"call_billing"})
      OBVIOUS
    <2>1. CallsOf(h) = {}
      BY <1>2 DEF CallsOf
    <2>2. CallBeans(h) = 0
      BY <2>1, SumOfNone DEF CallBeans
    <2> QED BY <1>3, <2>2
  <1>7. CallTotals + GiftPrices + MessageCharges + PaidByAll = 0
    <2>1. DOMAIN calls = {} /\ DOMAIN gift = {} /\ DOMAIN message = {}
      BY <1>2
    <2>2. CallTotals = 0 /\ GiftPrices = 0 /\ MessageCharges = 0
      BY <2>1, SumOfNone DEF CallTotals, GiftPrices, MessageCharges
    <2>3. PaidByAll = 0
      <3>1. PICK f : f = [u \in Users |-> PaidBy(u)]
        OBVIOUS
      <3>2. \A u \in Users : f[u] = 0
        BY <1>3, <3>1 DEF PaidBy, EarningKinds
      <3>3. SumFunctionOnSet(f, Users) = 0
        BY <3>2, SumOfZeros
      <3> QED BY <3>1, <3>3 DEF PaidByAll
    <2> QED BY <2>2, <2>3
  <1>8. RowsRight
    <2>1. \A t \in Tasks : TickTaskRight(task[t])
      BY DEF NoTasks, TickTaskRight, Idle
    <2> QED BY <1>2, <2>1 DEF RowsRight
  <1>9. PayersRight
    BY <1>1 DEF PayersRight, EarningKinds
  <1> QED BY <1>5, <1>6, <1>7, <1>8, <1>9 DEF SalesInv, SalesBooked
-----------------------------------------------------------------------------
(* The level screen                                                          *)

LEMMA QuotientAtLeast ==
    ASSUME NEW x \in Nat, NEW n \in Nat, NEW b \in Nat \ {0}
    PROVE  x \div b \in Nat /\ (n <= x \div b <=> n * b <= x)
  <1>1. PICK q : q = x \div b
    OBVIOUS
  <1>2. q \in Nat
    BY <1>1, QuotientNatural
  <1>3. PICK m \in Int : m = q * b
    BY <1>2
  <1>4. m <= x /\ x < m + b
    BY <1>1, <1>2, <1>3
  <1>5. CASE n <= q
    <2>1. b * n <= b * q
      BY <1>2, <1>5, ProductMonotone
    <2>2. n * b = b * n /\ m = b * q /\ b * n \in Nat
      BY <1>2, <1>3, ProductNatural
    <2>3. n * b <= x
      BY <1>4, <2>1, <2>2
    <2> QED BY <1>1, <1>2, <1>5, <2>3
  <1>6. CASE ~(n <= q)
    <2>1. q + 1 \in Nat /\ q + 1 <= n
      BY <1>2, <1>6
    <2>2. b * (q + 1) <= b * n
      BY <2>1, ProductMonotone
    <2>3. b * (q + 1) = m + b /\ n * b = b * n /\ b * n \in Nat
      BY <1>2, <1>3, ProductNatural
    <2>4. ~(n * b <= x)
      BY <1>4, <2>2, <2>3
    <2> QED BY <1>1, <1>2, <1>6, <2>4
  <1> QED BY <1>5, <1>6

\* A level's beans reach it, and fewer do not.
LEMMA LevelReached ==
    ASSUME NEW beans \in Nat, NEW l \in 1..MaxHostLevel
    PROVE  /\ levelForLifetimeBeans(beans) \in 1..MaxHostLevel
           /\ l <= levelForLifetimeBeans(beans) <=> (l - 1) * BeansPerLevel <= beans
  <1>1. PICK q : q = beans \div BeansPerLevel
    OBVIOUS
  <1>2. l \in Int /\ l >= 1 /\ l <= MaxHostLevel /\ MaxHostLevel \in Int /\ l - 1 \in Nat
    BY ConstantTypes
  <1>3. q \in Nat /\ (l - 1 <= q <=> (l - 1) * BeansPerLevel <= beans)
    BY <1>1, <1>2, QuotientAtLeast, ConstantTypes
  <1>4. levelForLifetimeBeans(beans) = IF MaxHostLevel <= 1 + q THEN MaxHostLevel ELSE 1 + q
    BY <1>1, <1>2, <1>3, LeastOfTwo DEF levelForLifetimeBeans
  <1>5. l <= levelForLifetimeBeans(beans) <=> l - 1 <= q
    BY <1>2, <1>3, <1>4
  <1>6. levelForLifetimeBeans(beans) \in 1..MaxHostLevel
    BY <1>2, <1>3, <1>4
  <1> QED BY <1>3, <1>5, <1>6

LEMMA LevelsAgree ==
    ASSUME TablesTyped
    PROVE  LevelScreenAgrees
  <1> SUFFICES ASSUME NEW h \in Hosts
               PROVE  LET screen == getHostLevelSummary(h)
                          lifetime == hostWallet[h].lifetime
                      IN  /\ screen.unlocked = {l \in 1..MaxHostLevel : screen.required[l] <= lifetime}
                          /\ screen.selected \in screen.unlocked
                          /\ getHostEffectivePrices(h) <= pricesForLevel(screen.level)
                          /\ screen.toNext # NoMore =>
                              /\ levelForLifetimeBeans(lifetime + screen.toNext) = screen.level + 1
                              /\ levelForLifetimeBeans(lifetime + screen.toNext - 1) = screen.level
    BY DEF LevelScreenAgrees
  <1>1. PICK lifetime, level, screen, setting, selected :
            /\ lifetime = hostWallet[h].lifetime /\ level = Level(h)
            /\ screen = getHostLevelSummary(h) /\ setting = priceLevel[h]
            /\ selected = pricedLevel(setting, level)
    OBVIOUS
  <1>2. lifetime \in Nat /\ setting \in 0..MaxHostLevel
    BY <1>1 DEF TablesTyped, WalletsTyped, TermsTyped
  <1>3. /\ screen.level = level /\ screen.selected = selected
        /\ screen.toNext = (IF level = MaxHostLevel THEN NoMore
                            ELSE level * BeansPerLevel - lifetime)
        /\ screen.unlocked = {l \in 1..MaxHostLevel : l <= level}
        /\ screen.required = [l \in 1..MaxHostLevel |-> (l - 1) * BeansPerLevel]
    BY <1>1 DEF getHostLevelSummary
  <1>4. /\ level = levelForLifetimeBeans(lifetime) /\ level \in 1..MaxHostLevel
        /\ MaxHostLevel \in Int /\ level \in Int
    BY <1>1, LevelsTyped, ConstantTypes DEF Level
  <1>5. \A l \in 1..MaxHostLevel : l <= level <=> screen.required[l] <= lifetime
    BY <1>2, <1>3, <1>4, LevelReached
  <1>6. selected \in 1..level /\ selected \in 1..MaxHostLevel
    <2>1. Min({setting, level}) = (IF setting <= level THEN setting ELSE level)
      BY <1>2, <1>4, LeastOfTwo
    <2> QED BY <1>1, <1>2, <1>4, <2>1 DEF pricedLevel
  <1>7. getHostEffectivePrices(h) <= pricesForLevel(level)
    <2>1. selected - 1 \in Nat /\ level - 1 \in Nat /\ selected - 1 <= level - 1
      BY <1>4, <1>6
    <2>2. LevelStep * (selected - 1) <= LevelStep * (level - 1)
      BY <2>1, ProductMonotone, ConstantTypes
    <2>3. PICK a, b : a = LevelStep * (selected - 1) /\ b = LevelStep * (level - 1)
      OBVIOUS
    <2>4. /\ a \in Nat /\ b \in Nat /\ a <= b
          /\ (selected - 1) * LevelStep = a /\ (level - 1) * LevelStep = b
      BY <2>1, <2>2, <2>3, ProductNatural, ConstantTypes
    <2>5. MessagePrice + a <= MessagePrice + b
      BY <2>4, ConstantTypes
    <2> QED BY <1>1, <2>4, <2>5 DEF getHostEffectivePrices, pricesForLevel
  <1>8. ASSUME screen.toNext # NoMore
        PROVE  /\ levelForLifetimeBeans(lifetime + screen.toNext) = level + 1
               /\ levelForLifetimeBeans(lifetime + screen.toNext - 1) = level
    <2>1. PICK need : need = level * BeansPerLevel
      OBVIOUS
    <2>2. level # MaxHostLevel /\ screen.toNext = need - lifetime
      BY <1>3, <1>8, <2>1 DEF NoMore
    <2>3. level + 1 \in 1..MaxHostLevel /\ level \in Nat
      BY <1>4, <2>2
    <2>4. need \in Nat
      BY <2>1, <2>3, ProductNatural, ConstantTypes
    <2>5. ~(need <= lifetime)
      <3>1. ~(level + 1 <= level) /\ level + 1 - 1 = level
        BY <2>3
      <3> QED BY <1>2, <1>4, <2>1, <2>3, <3>1, LevelReached
    <2>6. lifetime + screen.toNext = need /\ lifetime + screen.toNext - 1 = need - 1 /\ need - 1 \in Nat
      BY <1>2, <2>2, <2>4, <2>5
    <2>7. levelForLifetimeBeans(need) = level + 1
      <3>1. level + 1 <= levelForLifetimeBeans(need)
        BY <2>1, <2>3, <2>4, LevelReached
      <3>2. ASSUME level + 2 <= MaxHostLevel PROVE ~(level + 2 <= levelForLifetimeBeans(need))
        <4>1. level + 2 \in 1..MaxHostLevel /\ level + 2 - 1 = level + 1
          BY <2>3, <3>2
        <4>2. (level + 1) * BeansPerLevel = need + BeansPerLevel
          BY <2>1, <2>3, ConstantTypes
        <4>3. ~((level + 1) * BeansPerLevel <= need)
          BY <2>4, <4>2, ConstantTypes
        <4>4. PICK l : l = level + 2
          OBVIOUS
        <4>5. l \in 1..MaxHostLevel /\ l - 1 = level + 1
          BY <2>3, <4>1, <4>4
        <4>6. ~((l - 1) * BeansPerLevel <= need)
          BY <4>3, <4>5
        <4>7. ~(l <= levelForLifetimeBeans(need))
          BY <2>4, <4>5, <4>6, LevelReached
        <4> QED BY <4>4, <4>7
      <3>3. levelForLifetimeBeans(need) \in 1..MaxHostLevel
        BY <2>3, <2>4, LevelReached
      <3> QED BY <1>4, <2>3, <3>1, <3>2, <3>3
    <2>8. levelForLifetimeBeans(need - 1) = level
      <3>1. ~(level + 1 <= levelForLifetimeBeans(need - 1))
        <4>1. ~(need <= need - 1) /\ level + 1 - 1 = level
          BY <2>3, <2>4
        <4> QED BY <2>1, <2>3, <2>6, <4>1, LevelReached
      <3>2. level <= levelForLifetimeBeans(need - 1)
        <4>1. level <= levelForLifetimeBeans(lifetime)
          BY <1>4
        <4>2. (level - 1) * BeansPerLevel <= lifetime
          BY <1>2, <1>4, <4>1, LevelReached
        <4>3. (level - 1) * BeansPerLevel \in Int
          BY <1>4, ConstantTypes
        <4>4. (level - 1) * BeansPerLevel <= need - 1
          BY <1>2, <2>4, <2>5, <4>2, <4>3
        <4> QED BY <1>4, <2>6, <4>4, LevelReached
      <3>3. levelForLifetimeBeans(need - 1) \in 1..MaxHostLevel
        BY <2>3, <2>6, LevelReached
      <3> QED BY <1>4, <3>1, <3>2, <3>3
    <2> QED BY <2>6, <2>7, <2>8
  <1>9. /\ screen.unlocked = {l \in 1..MaxHostLevel : screen.required[l] <= lifetime}
        /\ screen.selected \in screen.unlocked
    BY <1>3, <1>4, <1>5, <1>6
  <1> QED BY <1>1, <1>3, <1>7, <1>8, <1>9
-----------------------------------------------------------------------------
(* The rewards screen                                                        *)

\* No configuration is of the time to come: the one in force at the end of the
\* period is the one in force now.
LEMMA ConfigInForce ==
    ASSUME BooksInv, RowsRight, NEW period, NEW at \in Int, now <= at
    PROVE  getRewardConfig(period, at) = getRewardConfig(period, now)
  <1>1. now \in Nat /\ config \in Seq(ConfigRow) /\ \A i \in DOMAIN config : config[i].from <= now
    BY WalletsOfTables DEF BooksInv, BooksTyped, TablesTyped, RewardsTyped, RowsRight
  <1>2. \A i \in DOMAIN config : config[i].from <= at
    <2>1. \A i \in DOMAIN config : config[i].from \in Nat
      <3>1. \A i \in DOMAIN config : config[i] \in ConfigRow
        BY <1>1, MemberTyped
      <3> QED BY <3>1 DEF ConfigRow
    <2> QED BY <1>1, <2>1
  <1>3. {i \in DOMAIN config : config[i].period = period /\ config[i].from <= at}
            = {i \in DOMAIN config : config[i].period = period /\ config[i].from <= now}
    BY <1>1, <1>2
  <1> QED BY <1>3 DEF getRewardConfig

LEMMA RewardsAgree ==
    ASSUME BooksInv, RowsRight, IsFiniteSet(Hosts)
    PROVE  RewardsScreenAgrees
  <1> SUFFICES ASSUME NEW period \in Periods, NEW h \in Hosts
               PROVE  myRewardBeans(h, period)
                          = RewardOf(h, Winners(period, periodContaining(period, now), active))
    BY DEF RewardsScreenAgrees
  <1>1. PICK start, end, table : /\ start = periodContaining(period, now) /\ end = End(period, start)
                                 /\ table = getRewardConfig(period, now)
    OBVIOUS
  <1>2. /\ TablesTyped /\ now \in Nat /\ active \in SUBSET Hosts
    BY WalletsOfTables DEF BooksInv, BooksTyped, TablesTyped, RewardsTyped
  <1>3. getRewardConfig(period, end) = table
    <2>1. PICK k \in Int : /\ start = k * PeriodLength(period)
                           /\ now < k * PeriodLength(period) + PeriodLength(period)
      BY <1>1, <1>2, PeriodsAround
    <2>2. PeriodLength(period) \in Int /\ start \in Int
      BY <2>1, PeriodTyped
    <2>3. end = start + PeriodLength(period)
      BY <1>1 DEF End
    <2>4. end \in Int /\ now <= end
      BY <1>2, <2>1, <2>2, <2>3
    <2> QED BY <1>1, <2>4, ConfigInForce
  <1>4. PICK ranked, paid, winners, won, mine :
            /\ ranked = rankHosts(active, start, end, table.min)
            /\ paid = {r \in ranked : table.enabled /\ r.rank <= Len(table.tiers)}
            /\ winners = Winners(period, start, active)
            /\ mine = {r \in ranked : table.enabled /\ r.host = h /\ r.rank <= Len(table.tiers)}
            /\ won = [r \in mine |-> table.tiers[r.rank]]
    OBVIOUS
  <1>5. table.tiers \in Seq(Nat)
    BY <1>1, <1>2, ConfigTyped DEF TableType
  <1>6. /\ \A r \in ranked : r.rank \in Nat \ {0}
        /\ \A r, s \in ranked : r.host = s.host => r = s
    BY <1>2, <1>4, RankingTyped
  <1>7. winners = {[host |-> r.host, rank |-> r.rank, beans |-> r.beans,
                    reward |-> table.tiers[r.rank]] : r \in paid}
    BY <1>1, <1>3, <1>4 DEF Winners
  <1>8. /\ \A w \in winners : w.reward \in Nat
        /\ \A w, v \in winners : w.host = v.host => w = v
    BY <1>2, <1>4, WinnersTyped
  <1>9. myRewardBeans(h, period) = SumFunctionOnSet(won, mine)
    BY <1>1, <1>4 DEF myRewardBeans, Sum
  <1>10. CASE mine = {}
    <2>1. \A w \in winners : w.host # h
      BY <1>4, <1>7, <1>10
    <2>2. RewardOf(h, winners) = 0
      BY <1>8, <2>1, RewardOfHost
    <2> QED BY <1>1, <1>4, <1>9, <1>10, <2>2, SumOfNone
  <1>11. ASSUME NEW r \in mine PROVE SumFunctionOnSet(won, mine) = RewardOf(h, winners)
    <2>1. r \in paid /\ r \in ranked /\ r.host = h
      BY <1>4
    <2>2. mine = {} \cup {r}
      BY <1>4, <1>6
    <2>3. won[r] = table.tiers[r.rank] /\ won[r] \in Nat
      <3>1. r.rank \in 1..Len(table.tiers)
        BY <1>4, <1>5, <1>6, <2>1
      <3> QED BY <1>4, <1>5, <3>1
    <2>4. SumFunctionOnSet(won, {} \cup {r}) = SumFunctionOnSet(won, {}) + won[r]
      BY <2>3, FS_EmptySet, SumWith
    <2>5. PICK w : w = [host |-> r.host, rank |-> r.rank, beans |-> r.beans,
                        reward |-> table.tiers[r.rank]]
      OBVIOUS
    <2>6. w \in winners /\ w.host = h /\ w.reward = won[r]
      BY <1>7, <2>1, <2>3, <2>5
    <2>7. RewardOf(h, winners) = won[r]
      BY <1>8, <2>6, RewardOfHost
    <2> QED BY <2>2, <2>3, <2>4, <2>7, SumOfNone
  <1> QED BY <1>1, <1>4, <1>9, <1>10, <1>11
-----------------------------------------------------------------------------
(* Sums of credits, and days                                                 *)

AmountsOf == [i \in DOMAIN ledger |-> ledger[i].amount]

LEMMA AmountIs ==
    ASSUME ledger \in Seq(Entries), NEW rows \in SUBSET DOMAIN ledger
    PROVE  /\ IsFiniteSet(rows) /\ Amount(rows) = SumFunctionOnSet(AmountsOf, rows)
           /\ Amount(rows) \in Int /\ \A i \in rows : AmountsOf[i] \in Int
  <1>1. PICK f : f = [i \in rows |-> ledger[i].amount]
    OBVIOUS
  <1>2. IsFiniteSet(rows)
    BY TableFinite
  <1>3. \A i \in rows : AmountsOf[i] \in Int
    <2>1. \A i \in DOMAIN ledger : ledger[i].amount \in Int
      BY RowsFinite
    <2> QED BY <2>1 DEF AmountsOf
  <1>4. SumFunctionOnSet(f, rows) = SumFunctionOnSet(AmountsOf, rows)
    <2>1. \A i \in rows : f[i] = AmountsOf[i]
      BY <1>1 DEF AmountsOf
    <2> QED BY <1>2, <2>1, SameSum
  <1>5. SumFunctionOnSet(AmountsOf, rows) \in Int
    BY <1>2, <1>3, SumIsInteger
  <1> QED BY <1>1, <1>2, <1>3, <1>4, <1>5 DEF Amount, Sum

LEMMA AmountsApart ==
    ASSUME ledger \in Seq(Entries), NEW rows \in SUBSET DOMAIN ledger,
           NEW more \in SUBSET DOMAIN ledger, rows \cap more = {}
    PROVE  Amount(rows \cup more) = Amount(rows) + Amount(more)
  <1>1. PICK all : all = rows \cup more /\ all \in SUBSET DOMAIN ledger
    OBVIOUS
  <1>2. SumFunctionOnSet(AmountsOf, all) = SumFunctionOnSet(AmountsOf, rows) + SumFunctionOnSet(AmountsOf, more)
    BY <1>1, AmountIs, SumOfUnion
  <1> QED BY <1>1, <1>2, AmountIs

\* The day an instant is in.
DayOf(at) == (at \div DayLength) * DayLength

LEMMA DayAround ==
    ASSUME NEW at \in Nat
    PROVE  /\ DayOf(at) \in Nat /\ DayOf(at) % DayLength = 0
           /\ DayOf(at) <= at /\ at < DayOf(at) + DayLength
  <1>1. PICK length \in Nat \ {0} : length = DayLength
    BY ConstantTypes
  <1>2. PICK k : k = at \div length
    OBVIOUS
  <1>3. k \in Nat
    BY <1>2, QuotientNatural
  <1>4. PICK m \in Nat : m = k * length
    BY <1>3, ProductNatural
  <1>5. m <= at /\ at < m + length
    BY <1>2, <1>3, <1>4
  <1>6. m % length = 0
    BY <1>3, <1>4
  <1> QED BY <1>1, <1>2, <1>4, <1>5, <1>6 DEF DayOf

LEMMA DaysApart ==
    ASSUME NEW a \in Nat, NEW b \in Nat, a % DayLength = 0, b % DayLength = 0, a < b
    PROVE  a + DayLength <= b
  <1>1. PICK length \in Nat \ {0} : length = DayLength
    BY ConstantTypes
  <1>2. PICK j, k : j = a \div length /\ k = b \div length
    OBVIOUS
  <1>3. j \in Nat /\ k \in Nat
    BY <1>2, QuotientNatural
  <1>4. PICK m, n : m = length * j /\ n = length * k
    OBVIOUS
  <1>5. m = a /\ n = b
    BY <1>1, <1>2, <1>3, <1>4
  <1>6. j < k
    <2>1. ASSUME k <= j PROVE FALSE
      <3>1. n <= m
        BY <1>3, <1>4, <2>1, ProductMonotone
      <3> QED BY <1>5, <3>1
    <2> QED BY <1>3, <2>1
  <1>7. length * (j + 1) <= n
    <2>1. j + 1 \in Nat /\ j + 1 <= k
      BY <1>3, <1>6
    <2> QED BY <1>3, <1>4, <2>1, ProductMonotone
  <1>8. length * (j + 1) = m + length
    BY <1>3, <1>4
  <1> QED BY <1>1, <1>5, <1>7, <1>8

LEMMA DayUnique ==
    ASSUME NEW at \in Nat, NEW day \in Nat, day % DayLength = 0
    PROVE  DayOf(at) = day <=> day <= at /\ at < day + DayLength
  <1>1. PICK d : d = DayOf(at)
    OBVIOUS
  <1>2. d \in Nat /\ d % DayLength = 0 /\ d <= at /\ at < d + DayLength
    BY <1>1, DayAround
  <1>3. CASE d < day
    <2>1. d + DayLength <= day
      BY <1>2, <1>3, DaysApart
    <2> QED BY <1>1, <1>2, <1>3, <2>1, ConstantTypes
  <1>4. CASE day < d
    <2>1. day + DayLength <= d
      BY <1>2, <1>4, DaysApart
    <2> QED BY <1>1, <1>2, <1>4, <2>1, ConstantTypes
  <1>5. CASE d = day
    BY <1>1, <1>2, <1>5
  <1> QED BY <1>2, <1>3, <1>4, <1>5

\* Of a range of whole days, the day of each of its instants.
LEMMA DayInRange ==
    ASSUME NEW from \in Nat, NEW last \in Nat, from % DayLength = 0, last % DayLength = 0,
           NEW at \in Nat
    PROVE  In(at, from, last + DayLength) <=> In(DayOf(at), from, last + DayLength)
  <1>1. PICK d : d = DayOf(at)
    OBVIOUS
  <1>2. d \in Nat /\ d % DayLength = 0 /\ d <= at /\ at < d + DayLength
    BY <1>1, DayAround
  <1>3. DayLength \in Nat
    BY ConstantTypes
  <1>4. ASSUME from <= at PROVE from <= d
    <2>1. ASSUME d < from PROVE FALSE
      <3>1. d + DayLength <= from
        BY <1>2, <2>1, DaysApart
      <3> QED BY <1>2, <1>3, <1>4, <3>1
    <2> QED BY <1>2, <2>1
  <1>5. ASSUME d < last + DayLength PROVE at < last + DayLength
    <2>1. ASSUME last < d PROVE FALSE
      <3>1. last + DayLength <= d
        BY <1>2, <2>1, DaysApart
      <3> QED BY <1>2, <1>3, <1>5, <3>1
    <2> QED BY <1>2, <1>3, <2>1
  <1> QED BY <1>1, <1>2, <1>3, <1>4, <1>5 DEF In
-----------------------------------------------------------------------------
(* Credits of calls and gifts, and the rows they are for                     *)

TicksFor(h, from, to) ==
    {k \in DOMAIN tick : calls[tick[k].call].host = h /\ In(tick[k].at, from, to)}
GiftsFor(h, from, to) == {k \in DOMAIN gift : gift[k].host = h /\ In(gift[k].at, from, to)}

\* Of some rows, the ones of a host and a time.
OfTime(t, rows, h, from, to) == {k \in rows : t[k].owner = h /\ In(t[k].at, from, to)}

\* Of the credits of a kind, the ones of a host and a time are paired as all are.
LEMMA EnteredPart ==
    ASSUME NEW book, NEW kind, NEW expected, Entered(book, kind, expected),
           NEW h, NEW from, NEW to
    PROVE  \E m : /\ OneToOne(m, OfTime(expected, DOMAIN expected, h, from, to),
                              OfTime(book, HostEntries(book, kind), h, from, to))
                  /\ \A k \in OfTime(expected, DOMAIN expected, h, from, to) :
                         book[m[k]] = expected[k]
  <1>1. PICK m \in [DOMAIN expected -> HostEntries(book, kind)] :
            /\ OneToOne(m, DOMAIN expected, HostEntries(book, kind))
            /\ \A k \in DOMAIN expected : book[m[k]] = expected[k]
    BY DEF Entered
  <1>2. PICK S, R : /\ S = OfTime(expected, DOMAIN expected, h, from, to)
                    /\ R = OfTime(book, HostEntries(book, kind), h, from, to)
    OBVIOUS
  <1>3. \A k \in S : k \in DOMAIN expected /\ m[k] \in R
    BY <1>1, <1>2 DEF OneToOne, OfTime
  <1>4. \A x, y \in S : m[x] = m[y] => x = y
    BY <1>1, <1>3 DEF OneToOne
  <1>5. ASSUME NEW z \in R PROVE \E x \in S : m[x] = z
    <2>1. z \in HostEntries(book, kind) /\ book[z].owner = h /\ In(book[z].at, from, to)
      BY <1>2 DEF OfTime
    <2>2. PICK x \in DOMAIN expected : m[x] = z
      BY <1>1, <2>1 DEF OneToOne
    <2>3. x \in S
      BY <1>1, <1>2, <2>1, <2>2 DEF OfTime
    <2> QED BY <2>2, <2>3
  <1>6. OneToOne(m, S, R)
    BY <1>3, <1>4, <1>5 DEF OneToOne
  <1> QED BY <1>1, <1>2, <1>3, <1>6

\* What the rows say of the entries they stand for.
LEMMA SoldTyped ==
    ASSUME SalesTyped, RowsRight
    PROVE  /\ \A k \in DOMAIN TickEntries :
                  /\ k \in DOMAIN tick /\ tick[k].call \in DOMAIN calls
                  /\ tick[k].amount \in Nat /\ calls[tick[k].call].points \in BasisPoints
                  /\ TickEntries[k].amount
                         = BeansFor(tick[k].amount, calls[tick[k].call].points)
                  /\ TickEntries[k].amount \in Nat /\ TickEntries[k].ref = tick[k].call
                  /\ TickEntries[k].owner = calls[tick[k].call].host
                  /\ TickEntries[k].at = tick[k].at
           /\ \A k \in DOMAIN GiftEntries :
                  /\ k \in DOMAIN gift /\ gift[k].price \in Nat /\ gift[k].points \in BasisPoints
                  /\ GiftEntries[k].amount = gift[k].beans
                  /\ gift[k].beans = BeansFor(gift[k].price, gift[k].points)
                  /\ GiftEntries[k].amount \in Nat /\ GiftEntries[k].ref = k
                  /\ GiftEntries[k].owner = gift[k].host /\ GiftEntries[k].at = gift[k].at
           /\ DOMAIN TickEntries = DOMAIN tick /\ DOMAIN GiftEntries = DOMAIN gift
  <1>1. ASSUME NEW k \in DOMAIN tick
        PROVE  /\ tick[k].call \in DOMAIN calls
               /\ tick[k].amount \in Nat /\ calls[tick[k].call].points \in BasisPoints
               /\ TickEntries[k].amount = BeansFor(tick[k].amount, calls[tick[k].call].points)
               /\ TickEntries[k].amount \in Nat /\ TickEntries[k].ref = tick[k].call
               /\ TickEntries[k].owner = calls[tick[k].call].host
               /\ TickEntries[k].at = tick[k].at
    <2>1. tick[k].call \in DOMAIN calls /\ tick[k].amount \in Nat
      BY RowTyped DEF TickRow
    <2>2. calls[tick[k].call].points \in BasisPoints
      BY <2>1, RowTyped DEF CallRow
    <2>3. BeansFor(tick[k].amount, calls[tick[k].call].points) \in Nat
      BY <2>1, <2>2, BeansNatural DEF Priced
    <2>4. TickEntries[k] = TickEntry(k)
      BY DEF TickEntries
    <2> QED BY <2>1, <2>2, <2>3, <2>4 DEF TickEntry, Entry
  <1>2. ASSUME NEW k \in DOMAIN gift
        PROVE  /\ gift[k].price \in Nat /\ gift[k].points \in BasisPoints
               /\ GiftEntries[k].amount = gift[k].beans
               /\ gift[k].beans = BeansFor(gift[k].price, gift[k].points)
               /\ GiftEntries[k].amount \in Nat /\ GiftEntries[k].ref = k
               /\ GiftEntries[k].owner = gift[k].host /\ GiftEntries[k].at = gift[k].at
    <2>1. gift[k].price \in Nat /\ gift[k].points \in BasisPoints /\ gift[k].beans \in Nat
      BY RowTyped DEF GiftRow
    <2>2. gift[k].beans = BeansFor(gift[k].price, gift[k].points)
      BY DEF RowsRight, GiftRight
    <2>3. GiftEntries[k] = GiftEntry(k)
      BY DEF GiftEntries
    <2> QED BY <2>1, <2>2, <2>3 DEF GiftEntry, Entry
  <1>3. DOMAIN TickEntries = DOMAIN tick /\ DOMAIN GiftEntries = DOMAIN gift
    BY DEF TickEntries, GiftEntries
  <1> QED BY <1>1, <1>2, <1>3

\* Every credit of a call or gift is of a call or a gift there is.
LEMMA CreditsTyped ==
    ASSUME SalesTyped, RowsRight, SalesBooked, NEW i \in DOMAIN ledger, ledger[i].wallet = "host"
    PROVE  /\ ledger[i].kind = "call_billing" => /\ ledger[i].amount \in Nat
                                                 /\ ledger[i].ref \in DOMAIN calls
           /\ ledger[i].kind = "gift" => ledger[i].amount \in Nat /\ ledger[i].ref \in DOMAIN gift
  <1>1. ASSUME ledger[i].kind = "call_billing"
        PROVE  ledger[i].amount \in Nat /\ ledger[i].ref \in DOMAIN calls
    <2>1. i \in HostEntries(ledger, "call_billing")
      BY <1>1 DEF HostEntries
    <2>2. PICK k \in DOMAIN TickEntries : ledger[i] = TickEntries[k]
      BY <2>1 DEF SalesBooked, Entered, OneToOne
    <2> QED BY <2>2, SoldTyped
  <1>2. ASSUME ledger[i].kind = "gift"
        PROVE  ledger[i].amount \in Nat /\ ledger[i].ref \in DOMAIN gift
    <2>1. i \in HostEntries(ledger, "gift")
      BY <1>2 DEF HostEntries
    <2>2. PICK k \in DOMAIN GiftEntries : ledger[i] = GiftEntries[k]
      BY <2>1 DEF SalesBooked, Entered, OneToOne
    <2> QED BY <2>2, SoldTyped
  <1> QED BY <1>1, <1>2

LEMMA TicksPaired ==
    ASSUME SalesTyped, RowsRight, SalesBooked, NEW h, NEW from, NEW to
    PROVE  \E m : /\ OneToOne(m, TicksFor(h, from, to),
                              hostCreditsBetween(h, {"call_billing"}, from, to))
                  /\ \A k \in TicksFor(h, from, to) : ledger[m[k]] = TickEntries[k]
  <1>1. OfTime(TickEntries, DOMAIN TickEntries, h, from, to) = TicksFor(h, from, to)
    BY SoldTyped DEF TicksFor, OfTime
  <1>2. OfTime(ledger, HostEntries(ledger, "call_billing"), h, from, to)
            = hostCreditsBetween(h, {"call_billing"}, from, to)
    <2>1. \A i \in HostEntries(ledger, "call_billing") : ledger[i].amount >= 0
      BY CreditsTyped DEF HostEntries
    <2> QED BY <2>1 DEF hostCreditsBetween, Within, HostRows, HostEntries, In, OfTime
  <1>3. Entered(ledger, "call_billing", TickEntries)
    BY DEF SalesBooked
  <1> QED BY <1>1, <1>2, <1>3, EnteredPart

LEMMA GiftsPaired ==
    ASSUME SalesTyped, RowsRight, SalesBooked, NEW h, NEW from, NEW to
    PROVE  \E m : /\ OneToOne(m, GiftsFor(h, from, to),
                              hostCreditsBetween(h, {"gift"}, from, to))
                  /\ \A k \in GiftsFor(h, from, to) : ledger[m[k]] = GiftEntries[k]
  <1>1. OfTime(GiftEntries, DOMAIN GiftEntries, h, from, to) = GiftsFor(h, from, to)
    BY SoldTyped DEF GiftsFor, OfTime
  <1>2. OfTime(ledger, HostEntries(ledger, "gift"), h, from, to)
            = hostCreditsBetween(h, {"gift"}, from, to)
    <2>1. \A i \in HostEntries(ledger, "gift") : ledger[i].amount >= 0
      BY CreditsTyped DEF HostEntries
    <2> QED BY <2>1 DEF hostCreditsBetween, Within, HostRows, HostEntries, In, OfTime
  <1>3. Entered(ledger, "gift", GiftEntries)
    BY DEF SalesBooked
  <1> QED BY <1>1, <1>2, <1>3, EnteredPart

\* The beans of a host's gifts are the beans credited for them.
LEMMA GiftBeansCredited ==
    ASSUME SalesTyped, RowsRight, SalesBooked, ledger \in Seq(Entries), NEW h, NEW from, NEW to,
           NEW f, \A k \in DOMAIN gift : f[k] = gift[k].beans
    PROVE  SumFunctionOnSet(f, GiftsFor(h, from, to))
               = Amount(hostCreditsBetween(h, {"gift"}, from, to))
  <1>1. PICK S, R : /\ S = GiftsFor(h, from, to)
                    /\ R = hostCreditsBetween(h, {"gift"}, from, to)
    OBVIOUS
  <1>2. S \subseteq DOMAIN gift /\ R \subseteq DOMAIN ledger /\ IsFiniteSet(S)
    <2>1. S \subseteq DOMAIN gift /\ R \subseteq DOMAIN ledger
      BY <1>1 DEF GiftsFor, hostCreditsBetween, Within, HostRows
    <2> QED BY <2>1, TableFinite DEF SalesTyped
  <1>3. PICK m : OneToOne(m, S, R) /\ \A k \in S : ledger[m[k]] = GiftEntries[k]
    BY <1>1, GiftsPaired
  <1>a. PICK g : g = AmountsOf
    OBVIOUS
  <1>4. \A k \in S : f[k] \in Int /\ g[m[k]] = f[k]
    <2> SUFFICES ASSUME NEW k \in S PROVE f[k] \in Int /\ g[m[k]] = f[k]
      OBVIOUS
    <2>1. m[k] \in R /\ m[k] \in DOMAIN ledger
      BY <1>2, <1>3 DEF OneToOne
    <2>2. GiftEntries[k].amount = f[k] /\ f[k] \in Nat
      BY <1>2, SoldTyped
    <2> QED BY <1>3, <1>a, <2>1, <2>2 DEF AmountsOf
  <1>5. IsFiniteSet(R) /\ Amount(R) = SumFunctionOnSet(g, R)
    BY <1>2, <1>a, AmountIs
  <1>6. SumFunctionOnSet(f, S) = SumFunctionOnSet(g, R)
    <2>1. OneToOne(m, S, R) /\ IsFiniteSet(S) /\ IsFiniteSet(R)
      BY <1>2, <1>3, <1>5
    <2> QED BY <1>4, <2>1, SumPaired
  <1> QED BY <1>1, <1>5, <1>6
-----------------------------------------------------------------------------
(* The host's reports                                                        *)

LEMMA CreditRows ==
    ASSUME NEW h, NEW kinds, NEW from, NEW to
    PROVE  /\ hostCreditsBetween(h, kinds, from, to) \subseteq DOMAIN ledger
           /\ \A i : i \in hostCreditsBetween(h, kinds, from, to) <=>
                  /\ i \in DOMAIN ledger /\ ledger[i].wallet = "host" /\ ledger[i].owner = h
                  /\ ledger[i].kind \in kinds /\ In(ledger[i].at, from, to)
                  /\ ledger[i].amount >= 0
  BY DEF hostCreditsBetween, Within, HostRows, In

\* Credits of different kinds add up.
LEMMA KindsApart ==
    ASSUME ledger \in Seq(Entries), NEW h, NEW kinds, NEW more, kinds \cap more = {},
           NEW from, NEW to
    PROVE  Amount(hostCreditsBetween(h, kinds \cup more, from, to))
               = Amount(hostCreditsBetween(h, kinds, from, to))
                 + Amount(hostCreditsBetween(h, more, from, to))
  <1>1. PICK Q, R : /\ Q = hostCreditsBetween(h, kinds, from, to)
                    /\ R = hostCreditsBetween(h, more, from, to)
    OBVIOUS
  <1>2. Q \in SUBSET DOMAIN ledger /\ R \in SUBSET DOMAIN ledger /\ Q \cap R = {}
    BY <1>1, CreditRows
  <1>3. hostCreditsBetween(h, kinds \cup more, from, to) = Q \cup R
    BY <1>1, CreditRows
  <1>4. Amount(Q \cup R) = Amount(Q) + Amount(R)
    BY <1>2, AmountsApart
  <1> QED BY <1>1, <1>3, <1>4

\* The credits of calls, by the call's type; of gifts, by where they were sent.
LEMMA CallsByType ==
    ASSUME SalesTyped, RowsRight, SalesBooked, ledger \in Seq(Entries), NEW h, NEW from, NEW to
    PROVE  Amount(hostCreditsBetween(h, {"call_billing"}, from, to))
               = CallCredits(h, "video", from, to) + CallCredits(h, "voice", from, to)
  <1>1. PICK Q, V, W : /\ Q = hostCreditsBetween(h, {"call_billing"}, from, to)
                       /\ V = {i \in Q : calls[ledger[i].ref].type = "video"}
                       /\ W = {i \in Q : calls[ledger[i].ref].type = "voice"}
    OBVIOUS
  <1>2. V \in SUBSET DOMAIN ledger /\ W \in SUBSET DOMAIN ledger /\ V \cap W = {}
    BY <1>1, CreditRows
  <1>3. \A i \in Q : calls[ledger[i].ref].type \in {"voice", "video"}
    <2> SUFFICES ASSUME NEW i \in Q PROVE calls[ledger[i].ref].type \in {"voice", "video"}
      OBVIOUS
    <2>1. i \in DOMAIN ledger /\ ledger[i].wallet = "host" /\ ledger[i].kind = "call_billing"
      BY <1>1, CreditRows
    <2>2. calls[ledger[i].ref] \in CallRow
      BY <2>1, CreditsTyped, RowTyped
    <2> QED BY <2>2 DEF CallRow, CallTypes
  <1>4. Q = V \cup W
    BY <1>1, <1>3
  <1>5. Amount(V \cup W) = Amount(V) + Amount(W)
    BY <1>2, AmountsApart
  <1> QED BY <1>1, <1>4, <1>5 DEF CallCredits

LEMMA GiftsByContext ==
    ASSUME ledger \in Seq(Entries), NEW h, NEW from, NEW to
    PROVE  Amount(hostCreditsBetween(h, {"gift"}, from, to))
               = GiftCredits(h, FALSE, from, to) + GiftCredits(h, TRUE, from, to)
  <1>1. PICK Q, V, W : /\ Q = hostCreditsBetween(h, {"gift"}, from, to)
                       /\ V = {i \in Q : (gift[ledger[i].ref].context = "live") = FALSE}
                       /\ W = {i \in Q : (gift[ledger[i].ref].context = "live") = TRUE}
    OBVIOUS
  <1>2. V \in SUBSET DOMAIN ledger /\ W \in SUBSET DOMAIN ledger /\ V \cap W = {}
    BY <1>1, CreditRows
  <1>4. Q = V \cup W
    BY <1>1
  <1>5. Amount(V \cup W) = Amount(V) + Amount(W)
    BY <1>2, AmountsApart
  <1> QED BY <1>1, <1>4, <1>5 DEF GiftCredits

\* The beans of a day, by source and all together.
LEMMA DayReportAgrees ==
    ASSUME SalesTyped, RowsRight, SalesBooked, ledger \in Seq(Entries), NEW h, NEW day
    PROVE  /\ totalBeans(summarizeDay(h, day)) = sumHostLedgerCredits(h, day, DayEnd(day))
           /\ sumHostLedgerCredits(h, day, DayEnd(day)) \in Int
  <1>1. PICK to : to = DayEnd(day)
    OBVIOUS
  <1> DEFINE by(kinds) == Amount(hostCreditsBetween(h, kinds, day, to))
  <1>2. \A kinds : by(kinds) \in Int
    <2>1. \A kinds : hostCreditsBetween(h, kinds, day, to) \in SUBSET DOMAIN ledger
      BY CreditRows
    <2> QED BY <2>1, AmountIs
  <1>3. PICK f : f = [kind \in {"chat_message", "adjustment", "host_reward"} |-> by({kind})]
    OBVIOUS
  <1>4. SumFunctionOnSet(f, {"chat_message", "adjustment", "host_reward"})
            = by({"chat_message"}) + by({"adjustment"}) + by({"host_reward"})
    <2>1. PICK a, b, c, T : /\ a = "chat_message" /\ b = "adjustment" /\ c = "host_reward"
                            /\ T = {"chat_message", "adjustment", "host_reward"}
      OBVIOUS
    <2>2. f[a] = by({"chat_message"}) /\ f[b] = by({"adjustment"}) /\ f[c] = by({"host_reward"})
      BY <1>3, <2>1
    <2> HIDE DEF by
    <2>3. f[a] \in Int /\ f[b] \in Int /\ f[c] \in Int
      BY <1>2, <2>2
    <2>4. Three(f, T, a, b, c)
      BY <2>1, <2>3 DEF Three
    <2>5. SumFunctionOnSet(f, T) = f[a] + f[b] + f[c]
      BY <2>4, SumOfThree
    <2> QED BY <2>1, <2>2, <2>5
  <1>5. by({"call_billing"}) = CallCredits(h, "video", day, to) + CallCredits(h, "voice", day, to)
    BY CallsByType
  <1>6. by({"gift"}) = GiftCredits(h, FALSE, day, to) + GiftCredits(h, TRUE, day, to)
    BY GiftsByContext
  <1>7. by({"adjustment"} \cup {"host_reward"}) = by({"adjustment"}) + by({"host_reward"})
    BY KindsApart
  <1>8. by({"chat_message"} \cup {"adjustment", "host_reward"})
            = by({"chat_message"}) + by({"adjustment", "host_reward"})
    BY KindsApart
  <1>9. by({"gift"} \cup {"chat_message", "adjustment", "host_reward"})
            = by({"gift"}) + by({"chat_message", "adjustment", "host_reward"})
    BY KindsApart
  <1>10. by({"call_billing"} \cup {"gift", "chat_message", "adjustment", "host_reward"})
            = by({"call_billing"}) + by({"gift", "chat_message", "adjustment", "host_reward"})
    BY KindsApart
  <1>11. /\ {"adjustment"} \cup {"host_reward"} = {"adjustment", "host_reward"}
         /\ {"chat_message"} \cup {"adjustment", "host_reward"}
                = {"chat_message", "adjustment", "host_reward"}
         /\ {"gift"} \cup {"chat_message", "adjustment", "host_reward"}
                = {"gift", "chat_message", "adjustment", "host_reward"}
         /\ {"call_billing"} \cup {"gift", "chat_message", "adjustment", "host_reward"}
                = HOST_EARNING_REFERENCE_TYPES
    BY DEF HOST_EARNING_REFERENCE_TYPES, EarningKinds
  <1>12. PICK other : other = SumFunctionOnSet(f, {"chat_message", "adjustment", "host_reward"})
    OBVIOUS
  <1>13. totalBeans(summarizeDay(h, day))
             = CallCredits(h, "video", day, to) + CallCredits(h, "voice", day, to)
               + GiftCredits(h, FALSE, day, to) + GiftCredits(h, TRUE, day, to) + other
    BY <1>1, <1>3, <1>12 DEF totalBeans, summarizeDay, sumHostLedgerCreditsByReference, Sum
  <1>14. sumHostLedgerCredits(h, day, DayEnd(day)) = by(HOST_EARNING_REFERENCE_TYPES)
    BY <1>1 DEF sumHostLedgerCredits
  <1>15. /\ CallCredits(h, "video", day, to) \in Int /\ CallCredits(h, "voice", day, to) \in Int
         /\ GiftCredits(h, FALSE, day, to) \in Int /\ GiftCredits(h, TRUE, day, to) \in Int
    <2>1. \A kinds : hostCreditsBetween(h, kinds, day, to) \subseteq DOMAIN ledger
      BY CreditRows
    <2>2. PICK A, B, C, D :
              /\ A = {i \in hostCreditsBetween(h, {"call_billing"}, day, to) :
                          calls[ledger[i].ref].type = "video"}
              /\ B = {i \in hostCreditsBetween(h, {"call_billing"}, day, to) :
                          calls[ledger[i].ref].type = "voice"}
              /\ C = {i \in hostCreditsBetween(h, {"gift"}, day, to) :
                          (gift[ledger[i].ref].context = "live") = FALSE}
              /\ D = {i \in hostCreditsBetween(h, {"gift"}, day, to) :
                          (gift[ledger[i].ref].context = "live") = TRUE}
      OBVIOUS
    <2>3. /\ A \in SUBSET DOMAIN ledger /\ B \in SUBSET DOMAIN ledger
          /\ C \in SUBSET DOMAIN ledger /\ D \in SUBSET DOMAIN ledger
      BY <2>1, <2>2
    <2>4. Amount(A) \in Int /\ Amount(B) \in Int /\ Amount(C) \in Int /\ Amount(D) \in Int
      BY <2>3, AmountIs
    <2> QED BY <2>2, <2>4 DEF CallCredits, GiftCredits
  <1> HIDE DEF by
  <1>16. PICK calling, gifted, chatted, adjusted, rewarded :
             /\ calling = by({"call_billing"}) /\ gifted = by({"gift"})
             /\ chatted = by({"chat_message"}) /\ adjusted = by({"adjustment"})
             /\ rewarded = by({"host_reward"})
    OBVIOUS
  <1>17. by({"adjustment", "host_reward"}) = adjusted + rewarded
    BY <1>7, <1>11, <1>16
  <1>18. by({"chat_message", "adjustment", "host_reward"}) = chatted + (adjusted + rewarded)
    BY <1>8, <1>11, <1>16, <1>17
  <1>19. by({"gift", "chat_message", "adjustment", "host_reward"})
             = gifted + (chatted + (adjusted + rewarded))
    BY <1>9, <1>11, <1>16, <1>18
  <1>20. by(HOST_EARNING_REFERENCE_TYPES) = calling + (gifted + (chatted + (adjusted + rewarded)))
    BY <1>10, <1>11, <1>16, <1>19
  <1>21. /\ calling \in Int /\ gifted \in Int /\ chatted \in Int
         /\ adjusted \in Int /\ rewarded \in Int
    BY <1>2, <1>16
  <1>22. other = chatted + adjusted + rewarded
    BY <1>4, <1>12, <1>16
  <1>23. by(HOST_EARNING_REFERENCE_TYPES) = totalBeans(summarizeDay(h, day))
    <2>1. PICK video, voice, sent, live, total :
              /\ video = CallCredits(h, "video", day, to) /\ voice = CallCredits(h, "voice", day, to)
              /\ sent = GiftCredits(h, FALSE, day, to) /\ live = GiftCredits(h, TRUE, day, to)
              /\ total = totalBeans(summarizeDay(h, day))
      OBVIOUS
    <2>2. video \in Int /\ voice \in Int /\ sent \in Int /\ live \in Int
      BY <1>15, <2>1
    <2>3. calling = video + voice
      BY <1>5, <1>16, <2>1
    <2>4. gifted = sent + live
      BY <1>6, <1>16, <2>1
    <2>5. total = video + voice + sent + live + other
      BY <1>13, <2>1
    <2>6. total = calling + (gifted + (chatted + (adjusted + rewarded)))
      BY <1>21, <1>22, <2>2, <2>3, <2>4, <2>5
    <2> QED BY <1>20, <2>1, <2>6
  <1>24. by(HOST_EARNING_REFERENCE_TYPES) \in Int
    BY <1>20, <1>21
  <1> QED BY <1>14, <1>23, <1>24

\* The home screen, which leaves the end of the day open.
LEMMA DashboardAgrees ==
    ASSUME SalesTyped, RowsRight, SalesBooked, WalletsTyped, now \in Nat, NEW h
    PROVE  getHostDashboard(h) = totalBeans(summarizeDay(h, Today))
  <1>1. PICK day : day = Today
    OBVIOUS
  <1>2. day \in Nat /\ now < day + DayLength /\ DayLength \in Nat
    BY <1>1, DayAround, ConstantTypes DEF Today, DayOf
  <1>3. ledger \in Seq(Entries) /\ \A i \in DOMAIN ledger : ledger[i].at <= now
    BY DEF WalletsTyped
  <1>4. \A i \in DOMAIN ledger : ledger[i].at \in Nat
    BY <1>3, RowsFinite DEF Entries
  <1>5. \A i \in DOMAIN ledger : In(ledger[i].at, day, now + 1) <=> In(ledger[i].at, day, DayEnd(day))
    BY <1>2, <1>3, <1>4 DEF In, DayEnd
  <1>6. hostCreditsBetween(h, HOST_EARNING_REFERENCE_TYPES, day, now + 1)
            = hostCreditsBetween(h, HOST_EARNING_REFERENCE_TYPES, day, DayEnd(day))
    <2>1. PICK Q, R : /\ Q = hostCreditsBetween(h, HOST_EARNING_REFERENCE_TYPES, day, now + 1)
                      /\ R = hostCreditsBetween(h, HOST_EARNING_REFERENCE_TYPES, day, DayEnd(day))
      OBVIOUS
    <2>2. \A i : i \in Q <=> i \in R
      BY <1>5, <2>1, CreditRows
    <2> QED BY <2>1, <2>2
  <1>7. getHostDashboard(h) = sumHostLedgerCredits(h, day, DayEnd(day))
    BY <1>1, <1>6 DEF getHostDashboard, sumHostLedgerCredits
  <1> QED BY <1>1, <1>3, <1>7, DayReportAgrees
-----------------------------------------------------------------------------
(* Sums over the days of a range                                             *)

DaysIn(range) == {d \in Days : In(d, range[1], DayEnd(range[2]))}
DayParts(S, when, range) == [d \in DaysIn(range) |-> {x \in S : In(when[x], d, DayEnd(d))}]

LEMMA RangeTyped ==
    ASSUME now \in Nat, NEW range \in Ranges
    PROVE  /\ range[1] \in Nat /\ range[2] \in Nat /\ range[1] % DayLength = 0
           /\ range[2] % DayLength = 0 /\ DayLength \in Nat \ {0}
           /\ range[2] <= now /\ range[1] <= range[2]
           /\ IsFiniteSet(DaysIn(range))
           /\ \A d : d \in DaysIn(range) <=> /\ d \in 0..now /\ d % DayLength = 0
                                            /\ In(d, range[1], DayEnd(range[2]))
  <1>1. range \in Days \X Days /\ range[1] <= range[2]
    BY DEF Ranges
  <1>2. \A d : d \in Days <=> d \in 0..now /\ d % DayLength = 0
    BY DEF Days
  <1>3. range[1] \in Days /\ range[2] \in Days
    BY <1>1
  <1>4. IsFiniteSet(0..now)
    BY FS_Interval
  <1>5. DaysIn(range) \subseteq 0..now
    BY <1>2 DEF DaysIn
  <1>6. IsFiniteSet(DaysIn(range))
    BY <1>4, <1>5, FS_Subset
  <1>7. \A d : d \in DaysIn(range) <=> d \in Days /\ In(d, range[1], DayEnd(range[2]))
    BY DEF DaysIn
  <1> QED BY <1>1, <1>2, <1>3, <1>6, <1>7, ConstantTypes

LEMMA DaysPartition ==
    ASSUME now \in Nat, NEW range \in Ranges, NEW S, NEW when,
           \A x \in S : when[x] \in 0..now /\ In(when[x], range[1], DayEnd(range[2]))
    PROVE  Partition(DayParts(S, when, range), DaysIn(range), S)
  <1>1. PICK parts, D : parts = DayParts(S, when, range) /\ D = DaysIn(range)
    OBVIOUS
  <1>2. \A d \in D : \A x : x \in parts[d] <=> x \in S /\ In(when[x], d, DayEnd(d))
    BY <1>1 DEF DayParts
  <1>3. \A d \in D : d \in Nat /\ d % DayLength = 0
    BY <1>1, RangeTyped
  <1>4. ASSUME NEW d \in D, NEW x \in S, x \in parts[d]
        PROVE  d = DayOf(when[x])
    BY <1>2, <1>3, <1>4, DayUnique DEF In, DayEnd
  <1>5. ASSUME NEW x \in S PROVE DayOf(when[x]) \in D /\ x \in parts[DayOf(when[x])]
    <2>1. PICK at, d : at = when[x] /\ d = DayOf(when[x])
      OBVIOUS
    <2>2. at \in 0..now /\ In(at, range[1], DayEnd(range[2]))
      BY <2>1
    <2>3. /\ d \in Nat /\ d % DayLength = 0 /\ d <= at /\ at < d + DayLength
      BY <2>1, <2>2, DayAround
    <2>4. In(d, range[1], DayEnd(range[2]))
      BY <2>1, <2>2, RangeTyped, DayInRange DEF DayEnd
    <2>5. d \in D
      BY <1>1, <2>2, <2>3, <2>4, RangeTyped
    <2>6. In(at, d, DayEnd(d))
      BY <2>2, <2>3 DEF In, DayEnd
    <2> QED BY <1>2, <2>1, <2>5, <2>6
  <1>6. Partition(parts, D, S)
    BY <1>2, <1>4, <1>5 DEF Partition
  <1> QED BY <1>1, <1>6

LEMMA RangeAgrees ==
    ASSUME SalesTyped, RowsRight, SalesBooked, WalletsTyped, now \in Nat,
           NEW h, NEW range \in Ranges
    PROVE  LET span == resolveRange(range)
               daily == getHostDailySummary(h, range)
           IN  /\ daily = getHostEarningsSummary(h, span.from, span.to).days
               /\ getHostRangeSummary(daily) = sumHostLedgerCredits(h, span.from, span.to)
  <1>1. PICK from, to : from = range[1] /\ to = DayEnd(range[2])
    OBVIOUS
  <1>2. resolveRange(range).from = from /\ resolveRange(range).to = to
    BY <1>1 DEF resolveRange
  <1>3. PICK daily, D : daily = getHostDailySummary(h, range) /\ D = DaysIn(range)
    OBVIOUS
  <1>4. ledger \in Seq(Entries) /\ \A i \in DOMAIN ledger : ledger[i].at <= now
    BY DEF WalletsTyped
  <1>5. \A d : /\ totalBeans(summarizeDay(h, d)) = sumHostLedgerCredits(h, d, DayEnd(d))
              /\ sumHostLedgerCredits(h, d, DayEnd(d)) \in Int
    BY <1>4, DayReportAgrees
  <1>6. daily = [d \in D |-> sumHostLedgerCredits(h, d, DayEnd(d))]
    BY <1>3, <1>5 DEF getHostDailySummary, DaysIn
  <1>7. getHostEarningsSummary(h, from, to).days = daily
    BY <1>1, <1>3, <1>6 DEF getHostEarningsSummary, DaysIn
  <1>8. getHostRangeSummary(daily) = SumFunctionOnSet(daily, D)
    <2>1. PICK g : g = [d \in D |-> daily[d]]
      OBVIOUS
    <2>2. g = daily /\ DOMAIN daily = D
      BY <1>6, <2>1
    <2> QED BY <2>1, <2>2 DEF getHostRangeSummary, Sum
  <1>9. PICK S, when, f : /\ S = hostCreditsBetween(h, HOST_EARNING_REFERENCE_TYPES, from, to)
                          /\ when = [i \in DOMAIN ledger |-> ledger[i].at]
                          /\ f = AmountsOf
    OBVIOUS
  <1>10. S \in SUBSET DOMAIN ledger
    BY <1>9, CreditRows
  <1>11. \A i \in S : when[i] \in 0..now /\ In(when[i], from, to)
    <2> SUFFICES ASSUME NEW i \in S PROVE when[i] \in 0..now /\ In(when[i], from, to)
      OBVIOUS
    <2>1. i \in DOMAIN ledger /\ In(ledger[i].at, from, to)
      BY <1>9, CreditRows
    <2>2. ledger[i].at \in Nat /\ ledger[i].at <= now
      BY <1>4, <2>1, RowsFinite DEF Entries
    <2> QED BY <1>9, <2>1, <2>2
  <1>12. PICK parts : parts = DayParts(S, when, range)
    OBVIOUS
  <1>13. Partition(parts, D, S)
    BY <1>1, <1>3, <1>11, <1>12, DaysPartition
  <1>14. ASSUME NEW d \in D
         PROVE  parts[d] = hostCreditsBetween(h, HOST_EARNING_REFERENCE_TYPES, d, DayEnd(d))
    <2>1. PICK R : R = hostCreditsBetween(h, HOST_EARNING_REFERENCE_TYPES, d, DayEnd(d))
      OBVIOUS
    <2>2. parts[d] = {x \in S : In(when[x], d, DayEnd(d))}
      BY <1>3, <1>12 DEF DayParts
    <2>3. ASSUME NEW i, i \in R PROVE i \in S
      <3>1. /\ i \in DOMAIN ledger /\ ledger[i].wallet = "host" /\ ledger[i].owner = h
            /\ ledger[i].kind \in HOST_EARNING_REFERENCE_TYPES /\ In(ledger[i].at, d, DayEnd(d))
            /\ ledger[i].amount >= 0
        BY <2>1, <2>3, CreditRows
      <3>2. ledger[i].at \in Nat
        BY <1>4, <3>1, RowsFinite DEF Entries
      <3>3. DayOf(ledger[i].at) = d
        BY <1>3, <3>1, <3>2, RangeTyped, DayUnique DEF In, DayEnd
      <3>4. In(ledger[i].at, from, to)
        BY <1>1, <1>3, <3>2, <3>3, RangeTyped, DayInRange DEF DayEnd
      <3> QED BY <1>9, <3>1, <3>4, CreditRows
    <2>4. \A i \in R : i \in DOMAIN ledger /\ In(when[i], d, DayEnd(d))
      BY <1>9, <2>1, CreditRows
    <2>5. \A i \in S : In(when[i], d, DayEnd(d)) => i \in R
      BY <1>9, <2>1, CreditRows
    <2> QED BY <2>1, <2>2, <2>3, <2>4, <2>5
  <1>15. \A d \in D : daily[d] = SumFunctionOnSet(f, parts[d])
    <2> SUFFICES ASSUME NEW d \in D PROVE daily[d] = SumFunctionOnSet(f, parts[d])
      OBVIOUS
    <2>1. daily[d] = sumHostLedgerCredits(h, d, DayEnd(d))
      BY <1>6
    <2>2. sumHostLedgerCredits(h, d, DayEnd(d)) = Amount(parts[d])
      BY <1>14 DEF sumHostLedgerCredits
    <2>3. parts[d] \in SUBSET DOMAIN ledger
      BY <1>14, CreditRows
    <2> QED BY <1>4, <1>9, <2>1, <2>2, <2>3, AmountIs
  <1>16. IsFiniteSet(S) /\ Amount(S) = SumFunctionOnSet(f, S) /\ \A i \in S : f[i] \in Int
    BY <1>4, <1>9, <1>10, AmountIs
  <1>17. IsFiniteSet(D)
    BY <1>3, RangeTyped
  <1>18. SumFunctionOnSet(daily, D) = SumFunctionOnSet(f, S)
    BY <1>13, <1>15, <1>16, <1>17, SumOfParts
  <1>19. getHostRangeSummary(daily) = sumHostLedgerCredits(h, from, to)
    BY <1>8, <1>9, <1>16, <1>18 DEF sumHostLedgerCredits
  <1> QED BY <1>2, <1>3, <1>7, <1>19
-----------------------------------------------------------------------------
(* Beans by source, and the history                                          *)

\* The gifts of calls and chats and those of broadcasts are a host's gifts.
LEMMA GiftsBySource ==
    ASSUME SalesTyped, RowsRight, SalesBooked, ledger \in Seq(Entries), NEW h, NEW from, NEW to
    PROVE  /\ sumGiftBeansBySource(h, {"call", "chat"}, from, to)
                  + sumGiftBeansBySource(h, {"live"}, from, to)
                  = Amount(hostCreditsBetween(h, {"gift"}, from, to))
           /\ sumGiftBeansBySource(h, {"call", "chat"}, from, to) \in Int
           /\ sumGiftBeansBySource(h, {"live"}, from, to) \in Int
  <1>1. PICK A, B, f : /\ A = GiftsTo(h, {"call", "chat"}, from, to)
                       /\ B = GiftsTo(h, {"live"}, from, to)
                       /\ f = [k \in DOMAIN gift |-> gift[k].beans]
    OBVIOUS
  <1>2. \A k \in DOMAIN gift : gift[k].context \in {"call", "chat", "live", "none"} /\ gift[k].beans \in Nat
    BY RowTyped DEF GiftRow, Contexts
  <1>3. /\ A \subseteq DOMAIN gift /\ B \subseteq DOMAIN gift /\ A \cap B = {}
        /\ A \cup B = GiftsFor(h, from, to)
    <2>1. \A k : k \in A <=> /\ k \in DOMAIN gift /\ gift[k].context \in {"call", "chat", "none"}
                             /\ gift[k].host = h /\ In(gift[k].at, from, to)
      BY <1>1 DEF GiftsTo, giftContextFilter
    <2>2. \A k : k \in B <=> /\ k \in DOMAIN gift /\ gift[k].context = "live"
                             /\ gift[k].host = h /\ In(gift[k].at, from, to)
      BY <1>1 DEF GiftsTo, giftContextFilter
    <2> QED BY <1>2, <2>1, <2>2 DEF GiftsFor
  <1>4. IsFiniteSet(A) /\ IsFiniteSet(B)
    BY <1>3, TableFinite DEF SalesTyped
  <1>5. \A k \in DOMAIN gift : f[k] = gift[k].beans /\ f[k] \in Int
    BY <1>1, <1>2
  <1>6. SumFunctionOnSet(f, A \cup B) = SumFunctionOnSet(f, A) + SumFunctionOnSet(f, B)
    <2>1. \A k \in A \cup B : f[k] \in Int
      BY <1>3, <1>5
    <2> QED BY <1>3, <1>4, <2>1, SumOfUnion
  <1>7. sumGiftBeansBySource(h, {"call", "chat"}, from, to) = SumFunctionOnSet(f, A)
    <2>1. PICK a : a = [k \in A |-> gift[k].beans]
      OBVIOUS
    <2>2. \A k \in A : a[k] = f[k]
      BY <1>3, <1>5, <2>1
    <2>3. SumFunctionOnSet(a, A) = SumFunctionOnSet(f, A)
      BY <1>4, <2>2, SameSum
    <2> QED BY <1>1, <2>1, <2>3 DEF sumGiftBeansBySource, Sum
  <1>8. sumGiftBeansBySource(h, {"live"}, from, to) = SumFunctionOnSet(f, B)
    <2>1. PICK b : b = [k \in B |-> gift[k].beans]
      OBVIOUS
    <2>2. \A k \in B : b[k] = f[k]
      BY <1>3, <1>5, <2>1
    <2>3. SumFunctionOnSet(b, B) = SumFunctionOnSet(f, B)
      BY <1>4, <2>2, SameSum
    <2> QED BY <1>1, <2>1, <2>3 DEF sumGiftBeansBySource, Sum
  <1>9. SumFunctionOnSet(f, GiftsFor(h, from, to)) = Amount(hostCreditsBetween(h, {"gift"}, from, to))
    BY <1>5, GiftBeansCredited
  <1>10. SumFunctionOnSet(f, A) \in Int /\ SumFunctionOnSet(f, B) \in Int
    <2>1. (\A k \in A : f[k] \in Int) /\ (\A k \in B : f[k] \in Int)
      BY <1>3, <1>5
    <2> QED BY <1>4, <2>1, SumIsInteger
  <1> QED BY <1>3, <1>6, <1>7, <1>8, <1>9, <1>10

LEMMA SourcesAgree ==
    ASSUME SalesTyped, RowsRight, SalesBooked, ledger \in Seq(Entries), NEW h, NEW from, NEW to
    PROVE  LET summary == getHostEarningsSummary(h, from, to)
           IN  summary.calls + summary.gifts + summary.live
                   = Amount(hostCreditsBetween(h, {"call_billing", "gift"}, from, to))
  <1>1. PICK called, gifted, talked, streamed :
            /\ called = Amount(hostCreditsBetween(h, {"call_billing"}, from, to))
            /\ gifted = Amount(hostCreditsBetween(h, {"gift"}, from, to))
            /\ talked = sumGiftBeansBySource(h, {"call", "chat"}, from, to)
            /\ streamed = sumGiftBeansBySource(h, {"live"}, from, to)
    OBVIOUS
  <1>2. talked + streamed = gifted /\ talked \in Int /\ streamed \in Int
    BY <1>1, GiftsBySource
  <1>3. called \in Int
    <2>1. hostCreditsBetween(h, {"call_billing"}, from, to) \in SUBSET DOMAIN ledger
      BY CreditRows
    <2> QED BY <1>1, <2>1, AmountIs
  <1>4. Amount(hostCreditsBetween(h, {"call_billing", "gift"}, from, to)) = called + gifted
    <2>1. {"call_billing"} \cup {"gift"} = {"call_billing", "gift"} /\ {"call_billing"} \cap {"gift"} = {}
      OBVIOUS
    <2>2. Amount(hostCreditsBetween(h, {"call_billing"} \cup {"gift"}, from, to)) = called + gifted
      BY <1>1, <2>1, KindsApart
    <2> QED BY <2>1, <2>2
  <1>5. PICK summary : summary = getHostEarningsSummary(h, from, to)
    OBVIOUS
  <1>6. summary.calls = called /\ summary.gifts = talked /\ summary.live = streamed
    BY <1>1, <1>5 DEF getHostEarningsSummary, sumHostLedgerCreditsByReference
  <1> QED BY <1>2, <1>3, <1>4, <1>5, <1>6

\* All a host was credited for calls and gifts.
LEMMA SalesOfHost ==
    ASSUME SalesTyped, RowsRight, SalesBooked, WalletsTyped, now \in Nat, NEW h \in Hosts
    PROVE  /\ Amount(HostRows(h, {"call_billing", "gift"}))
                  = CallBeans(h) + Amount(hostCreditsBetween(h, {"gift"}, 0, now + 1))
           /\ Amount(hostCreditsBetween(h, {"gift"}, 0, now + 1)) \in Int
  <1>1. PICK A, B : A = HostRows(h, {"call_billing"}) /\ B = HostRows(h, {"gift"})
    OBVIOUS
  <1>2. ledger \in Seq(Entries) /\ \A i \in DOMAIN ledger : ledger[i].at <= now
    BY DEF WalletsTyped
  <1>3. A \in SUBSET DOMAIN ledger /\ B \in SUBSET DOMAIN ledger /\ A \cap B = {}
    BY <1>1 DEF HostRows
  <1>4. HostRows(h, {"call_billing", "gift"}) = A \cup B
    BY <1>1 DEF HostRows
  <1>5. Amount(A \cup B) = Amount(A) + Amount(B) /\ Amount(B) \in Int
    BY <1>2, <1>3, AmountsApart, AmountIs
  <1>6. Amount(A) = CallBeans(h)
    <2>1. A = RowsIn(ledger, "host", h, {"call_billing"})
      BY <1>1 DEF HostRows, RowsIn
    <2>2. Amount(A) = HeldIn(ledger, "host", h, {"call_billing"})
      BY <1>2, <2>1, AmountHeld
    <2> QED BY <2>2 DEF SalesBooked
  <1>7. B = hostCreditsBetween(h, {"gift"}, 0, now + 1)
    <2>1. PICK R : R = hostCreditsBetween(h, {"gift"}, 0, now + 1)
      OBVIOUS
    <2>2. \A i \in DOMAIN ledger : In(ledger[i].at, 0, now + 1)
      <3>1. \A i \in DOMAIN ledger : ledger[i].at \in Nat
        BY <1>2, RowsFinite DEF Entries
      <3> QED BY <1>2, <3>1 DEF In
    <2>3. ASSUME NEW i \in B PROVE i \in DOMAIN ledger /\ ledger[i].amount >= 0
      <3>1. i \in DOMAIN ledger /\ ledger[i].wallet = "host" /\ ledger[i].kind = "gift"
        BY <1>1 DEF HostRows
      <3> QED BY <3>1, CreditsTyped
    <2>4. \A i : i \in B <=> /\ i \in DOMAIN ledger /\ ledger[i].wallet = "host"
                             /\ ledger[i].owner = h /\ ledger[i].kind \in {"gift"}
      BY <1>1 DEF HostRows
    <2>5. \A i : i \in B <=> i \in R
      BY <2>1, <2>2, <2>3, <2>4, CreditRows
    <2> QED BY <2>1, <2>5
  <1> QED BY <1>4, <1>5, <1>6, <1>7

LEMMA FewerThanAll ==
    ASSUME NEW S, IsFiniteSet(S), NEW x \in S, NEW L, L \subseteq S \ {x},
           NEW n \in Nat, Cardinality(S) <= n
    PROVE  Cardinality(L) < n
  <1>1. /\ IsFiniteSet(S \ {x}) /\ Cardinality(S \ {x}) = Cardinality(S) - 1
        /\ Cardinality(S) \in Nat
    BY FS_RemoveElement, FS_CardinalityType
  <1>2. Cardinality(L) <= Cardinality(S \ {x}) /\ Cardinality(L) \in Nat
    BY <1>1, FS_Subset, FS_CardinalityType
  <1> QED BY <1>1, <1>2

\* A history that fits leaves nothing out.
LEMMA AllCallsShown ==
    ASSUME NEW S, IsFiniteSet(S), S \subseteq Nat, Cardinality(S) <= HistoryLimit
    PROVE  NewestCalls(S) = S
  <1>1. ASSUME NEW c \in S PROVE Cardinality({d \in S : d > c}) < HistoryLimit
    <2>1. PICK L : L = {d \in S : d > c}
      OBVIOUS
    <2>2. L \subseteq S \ {c}
      BY <2>1
    <2> QED BY <2>1, <2>2, FewerThanAll, ReportConstants
  <1> QED BY <1>1 DEF NewestCalls

LEMMA AllGiftsShown ==
    ASSUME NEW S, IsFiniteSet(S), S \subseteq Nat, \A i \in S : gift[i].at \in Nat,
           Cardinality(S) <= HistoryLimit
    PROVE  NewestGifts(S) = S
  <1>1. ASSUME NEW i \in S PROVE Cardinality({j \in S : LaterGift(j, i)}) < HistoryLimit
    <2>1. PICK L : L = {j \in S : LaterGift(j, i)}
      OBVIOUS
    <2>2. ~LaterGift(i, i)
      BY DEF LaterGift
    <2>3. L \subseteq S \ {i}
      BY <2>1, <2>2
    <2> QED BY <2>1, <2>3, FewerThanAll, ReportConstants
  <1> QED BY <1>1 DEF NewestGifts

LEMMA HistoryAgrees ==
    ASSUME SalesTyped, RowsRight, SalesBooked, WalletsTyped, now \in Nat, NEW h \in Hosts,
           HistoryFits(h)
    PROVE  Sum(LAMBDA item : item.beans, getHostHistory(h)) =
               Amount(HostRows(h, {"call_billing", "gift"}))
                   - sumGiftBeansBySource(h, {"live"}, 0, now + 1)
  <1>1. PICK C, K, f, b, m, n :
            /\ C = CallsOf(h) /\ K = GiftsTo(h, {"call", "chat"}, 0, now + 1)
            /\ f = [c \in DOMAIN calls |-> calls[c].beans] /\ b = [k \in K |-> gift[k].beans]
            /\ m = [c \in C |-> [type |-> "call", id |-> c, beans |-> calls[c].beans]]
            /\ n = [k \in K |-> [type |-> "gift", id |-> k, beans |-> gift[k].beans]]
    OBVIOUS
  <1>2. C \subseteq DOMAIN calls /\ K \subseteq DOMAIN gift
    BY <1>1 DEF CallsOf, GiftsTo, giftContextFilter
  <1>3. IsFiniteSet(C) /\ IsFiniteSet(K)
    BY <1>2, TableFinite DEF SalesTyped
  <1>4. PICK A, B, g : /\ A = Taken(m, C) /\ B = Taken(n, K)
                       /\ g = [item \in A \cup B |-> item.beans]
    OBVIOUS
  <1>5. getHostHistory(h) = A \cup B
    <2>1. A = {[type |-> "call", id |-> c, beans |-> calls[c].beans] : c \in C}
      BY <1>1, <1>4 DEF Taken
    <2>2. B = {[type |-> "gift", id |-> k, beans |-> gift[k].beans] : k \in K}
      BY <1>1, <1>4 DEF Taken
    <2>3. Cardinality(C) <= HistoryLimit /\ Cardinality(K) <= HistoryLimit
      BY <1>1 DEF HistoryFits
    <2>4. NewestCalls(C) = C
      <3>1. C \subseteq Nat
        BY <1>2 DEF SalesTyped
      <3> QED BY <1>3, <2>3, <3>1, AllCallsShown
    <2>5. NewestGifts(K) = K
      <3>1. K \subseteq Nat /\ \A i \in K : gift[i].at \in Nat
        <4>1. \A i \in DOMAIN gift : gift[i] \in GiftRow /\ i \in Nat
          BY DEF SalesTyped
        <4> QED BY <1>2, <4>1 DEF GiftRow
      <3> QED BY <1>3, <2>3, <3>1, AllGiftsShown
    <2>6. getHostHistory(h) =
              {[type |-> "call", id |-> c, beans |-> calls[c].beans] : c \in NewestCalls(C)}
              \cup {[type |-> "gift", id |-> k, beans |-> gift[k].beans] : k \in NewestGifts(K)}
      BY <1>1 DEF getHostHistory
    <2> QED BY <2>1, <2>2, <2>4, <2>5, <2>6
  <1>6. A \cap B = {}
    <2>1. (\A x \in A : x.type = "call") /\ (\A x \in B : x.type = "gift")
      BY <1>1, <1>4 DEF Taken
    <2> QED BY <2>1
  <1>7. /\ \A x, y \in C : m[x] = m[y] => x = y
        /\ \A x, y \in K : n[x] = n[y] => x = y
    <2>1. (\A x \in C : m[x].id = x) /\ (\A x \in K : n[x].id = x)
      BY <1>1
    <2> QED BY <2>1
  <1>8. /\ \A x \in C : f[x] \in Int /\ g[m[x]] = f[x]
        /\ \A x \in K : b[x] \in Int /\ g[n[x]] = b[x]
    <2>1. (\A x \in C : calls[x].beans \in Int) /\ (\A x \in K : gift[x].beans \in Int)
      BY <1>2, RowTyped DEF CallRow, GiftRow
    <2>2. (\A x \in C : m[x] \in A \cup B) /\ (\A x \in K : n[x] \in A \cup B)
      BY <1>4 DEF Taken
    <2>3. \A x \in A \cup B : g[x] = x.beans
      BY <1>4
    <2>4. \A x \in C : m[x].beans = calls[x].beans /\ f[x] = calls[x].beans
      BY <1>1, <1>2
    <2>5. \A x \in K : n[x].beans = gift[x].beans /\ b[x] = gift[x].beans
      BY <1>1
    <2> QED BY <2>1, <2>2, <2>3, <2>4, <2>5
  <1>9. IsFiniteSet(A) /\ SumFunctionOnSet(g, A) = SumFunctionOnSet(f, C)
    <2>1. \A x, y \in C : m[x] = m[y] => x = y
      BY <1>7
    <2>2. \A x \in C : f[x] \in Int
      BY <1>8
    <2>3. \A x \in C : g[m[x]] = f[x]
      BY <1>8
    <2>4. /\ IsFiniteSet(Taken(m, C))
          /\ SumFunctionOnSet(g, Taken(m, C)) = SumFunctionOnSet(f, C)
      BY <1>3, <2>1, <2>2, <2>3, SumOfImage
    <2> QED BY <1>4, <2>4
  <1>10. IsFiniteSet(B) /\ SumFunctionOnSet(g, B) = SumFunctionOnSet(b, K)
    <2>1. \A x, y \in K : n[x] = n[y] => x = y
      BY <1>7
    <2>2. \A x \in K : b[x] \in Int
      BY <1>8
    <2>3. \A x \in K : g[n[x]] = b[x]
      BY <1>8
    <2>4. /\ IsFiniteSet(Taken(n, K))
          /\ SumFunctionOnSet(g, Taken(n, K)) = SumFunctionOnSet(b, K)
      BY <1>3, <2>1, <2>2, <2>3, SumOfImage
    <2> QED BY <1>4, <2>4
  <1>11. \A x \in A \cup B : g[x] \in Int
    <2>1. \A x \in A : \E c \in C : x = m[c]
      BY <1>4 DEF Taken
    <2>2. \A x \in B : \E k \in K : x = n[k]
      BY <1>4 DEF Taken
    <2> QED BY <1>8, <2>1, <2>2
  <1>12. SumFunctionOnSet(g, A \cup B) = SumFunctionOnSet(g, A) + SumFunctionOnSet(g, B)
    BY <1>6, <1>9, <1>10, <1>11, SumOfUnion
  <1>13. Sum(LAMBDA item : item.beans, getHostHistory(h)) = SumFunctionOnSet(g, A \cup B)
    BY <1>4, <1>5 DEF Sum
  <1>14. SumFunctionOnSet(f, C) = CallBeans(h)
    BY <1>1 DEF CallBeans
  <1>15. SumFunctionOnSet(b, K) = sumGiftBeansBySource(h, {"call", "chat"}, 0, now + 1)
    BY <1>1 DEF sumGiftBeansBySource, Sum
  <1>16. PICK all, called, gifted, talked, streamed :
             /\ all = Amount(HostRows(h, {"call_billing", "gift"}))
             /\ called = CallBeans(h)
             /\ gifted = Amount(hostCreditsBetween(h, {"gift"}, 0, now + 1))
             /\ talked = sumGiftBeansBySource(h, {"call", "chat"}, 0, now + 1)
             /\ streamed = sumGiftBeansBySource(h, {"live"}, 0, now + 1)
    OBVIOUS
  <1>17. talked + streamed = gifted /\ talked \in Int /\ streamed \in Int
    <2>1. ledger \in Seq(Entries)
      BY DEF WalletsTyped
    <2> QED BY <1>16, <2>1, GiftsBySource
  <1>18. all = called + gifted
    BY <1>16, SalesOfHost
  <1>19. called \in Int
    BY <1>16, SumsTyped
  <1>20. all - streamed = called + talked
    BY <1>17, <1>18, <1>19
  <1>21. SumFunctionOnSet(g, A \cup B) = called + talked
    BY <1>9, <1>10, <1>12, <1>14, <1>15, <1>16
  <1>22. SumFunctionOnSet(g, A \cup B) = Amount(HostRows(h, {"call_billing", "gift"}))
             - sumGiftBeansBySource(h, {"live"}, 0, now + 1)
    BY <1>16, <1>20, <1>21
  <1> QED BY <1>13, <1>22

\* The host's screens, together.
LEMMA HostsAgree ==
    ASSUME BooksInv, SalesInv
    PROVE  HostReportsAgree
  <1>1. SalesTyped /\ RowsRight /\ SalesBooked /\ WalletsTyped /\ now \in Nat
    BY WalletsOfTables DEF BooksInv, BooksTyped, TablesTyped, SalesInv
  <1>2. ledger \in Seq(Entries)
    BY <1>1 DEF WalletsTyped
  <1>3. ASSUME NEW h \in Hosts
        PROVE  getHostDashboard(h) = totalBeans(summarizeDay(h, Today))
    BY <1>1, DashboardAgrees
  <1>4. ASSUME NEW h \in Hosts, NEW range \in Ranges
        PROVE  LET span == resolveRange(range)
                   summary == getHostEarningsSummary(h, span.from, span.to)
                   daily == getHostDailySummary(h, range)
               IN  /\ daily = summary.days
                   /\ getHostRangeSummary(daily) = sumHostLedgerCredits(h, span.from, span.to)
                   /\ summary.calls + summary.gifts + summary.live =
                          Amount(hostCreditsBetween(h, {"call_billing", "gift"}, span.from, span.to))
    BY <1>1, <1>2, RangeAgrees, SourcesAgree
  <1>5. ASSUME NEW h \in Hosts, HistoryFits(h)
        PROVE  Sum(LAMBDA item : item.beans, getHostHistory(h)) =
                   Amount(HostRows(h, {"call_billing", "gift"}))
                       - sumGiftBeansBySource(h, {"live"}, 0, now + 1)
    BY <1>1, <1>5, HistoryAgrees
  <1> QED BY <1>3, <1>4, <1>5 DEF HostReportsAgree
-----------------------------------------------------------------------------
(* The breakdown                                                             *)

TickNet == [k \in DOMAIN tick |->
    tick[k].amount - CommissionOn(tick[k].amount, calls[tick[k].call].points)]
GiftNet == [k \in DOMAIN gift |-> gift[k].price - CommissionOn(gift[k].price, gift[k].points)]

LEMMA NetIs ==
    ASSUME SalesTyped, RowsRight
    PROVE  /\ \A k \in DOMAIN tick :
                  /\ tick[k].amount \in Int
                  /\ CommissionOn(tick[k].amount, calls[tick[k].call].points) \in Int
                  /\ TickNet[k] \in Int
                  /\ TickNet[k] = tick[k].amount
                                      - CommissionOn(tick[k].amount, calls[tick[k].call].points)
                  /\ TickNet[k] - PaisePerBean * TickEntries[k].amount \in 0..(PaisePerBean - 1)
                  /\ TickEntries[k].amount \in Nat
           /\ \A k \in DOMAIN gift :
                  /\ gift[k].price \in Int
                  /\ CommissionOn(gift[k].price, gift[k].points) \in Int
                  /\ GiftNet[k] \in Int
                  /\ GiftNet[k] = gift[k].price - CommissionOn(gift[k].price, gift[k].points)
                  /\ GiftNet[k] - PaisePerBean * GiftEntries[k].amount \in 0..(PaisePerBean - 1)
                  /\ GiftEntries[k].amount \in Nat
  <1>1. ASSUME NEW k \in DOMAIN tick
        PROVE  /\ tick[k].amount \in Int
               /\ CommissionOn(tick[k].amount, calls[tick[k].call].points) \in Int
               /\ TickNet[k] \in Int
               /\ TickNet[k] = tick[k].amount
                                   - CommissionOn(tick[k].amount, calls[tick[k].call].points)
               /\ TickNet[k] - PaisePerBean * TickEntries[k].amount \in 0..(PaisePerBean - 1)
               /\ TickEntries[k].amount \in Nat
    <2>1. PICK price, points : price = tick[k].amount /\ points = calls[tick[k].call].points
      OBVIOUS
    <2>2. /\ Priced(price, points) /\ TickEntries[k].amount = BeansFor(price, points)
          /\ TickEntries[k].amount \in Nat /\ price \in Int
      BY <2>1, SoldTyped DEF Priced
    <2>3. TickNet[k] = price - CommissionOn(price, points)
      BY <2>1 DEF TickNet
    <2>4. /\ CommissionOn(price, points) \in Nat
          /\ price - CommissionOn(price, points) - PaisePerBean * BeansFor(price, points)
                 \in 0..(PaisePerBean - 1)
      BY <2>2, BeansArePaid
    <2>5. TickNet[k] \in Int
      BY <2>2, <2>3, <2>4
    <2> QED BY <2>1, <2>2, <2>3, <2>4, <2>5
  <1>2. ASSUME NEW k \in DOMAIN gift
        PROVE  /\ gift[k].price \in Int
               /\ CommissionOn(gift[k].price, gift[k].points) \in Int
               /\ GiftNet[k] \in Int
               /\ GiftNet[k] = gift[k].price - CommissionOn(gift[k].price, gift[k].points)
               /\ GiftNet[k] - PaisePerBean * GiftEntries[k].amount \in 0..(PaisePerBean - 1)
               /\ GiftEntries[k].amount \in Nat
    <2>1. PICK price, points : price = gift[k].price /\ points = gift[k].points
      OBVIOUS
    <2>2. /\ Priced(price, points) /\ GiftEntries[k].amount = BeansFor(price, points)
          /\ GiftEntries[k].amount \in Nat /\ price \in Int
      BY <2>1, SoldTyped DEF Priced
    <2>3. GiftNet[k] = price - CommissionOn(price, points)
      BY <2>1 DEF GiftNet
    <2>4. /\ CommissionOn(price, points) \in Nat
          /\ price - CommissionOn(price, points) - PaisePerBean * BeansFor(price, points)
                 \in 0..(PaisePerBean - 1)
      BY <2>2, BeansArePaid
    <2>5. GiftNet[k] \in Int
      BY <2>2, <2>3, <2>4
    <2> QED BY <2>1, <2>2, <2>3, <2>4, <2>5
  <1> QED BY <1>1, <1>2

\* What the rows of a host and a time are worth, less what was credited for them.
LEMMA TicksPay ==
    ASSUME SalesTyped, RowsRight, SalesBooked, ledger \in Seq(Entries), NEW h, NEW from, NEW to,
           NEW R, R = hostCreditsBetween(h, {"call_billing"}, from, to)
    PROVE  /\ SumFunctionOnSet(TickNet, TicksFor(h, from, to)) - PaisePerBean * Amount(R)
                  \in 0..((PaisePerBean - 1) * Cardinality(R))
           /\ SumFunctionOnSet(TickNet, TicksFor(h, from, to)) \in Int
           /\ Amount(R) \in Int /\ IsFiniteSet(R)
  <1>1. PICK S, f, g, x, p : /\ S = TicksFor(h, from, to) /\ x = TickNet /\ g = AmountsOf
                             /\ f = [k \in DOMAIN tick |-> TickEntries[k].amount]
                             /\ p = PaisePerBean
    OBVIOUS
  <1>2. S \subseteq DOMAIN tick /\ R \in SUBSET DOMAIN ledger /\ IsFiniteSet(S)
    <2>1. S \subseteq DOMAIN tick /\ R \in SUBSET DOMAIN ledger
      BY <1>1, CreditRows DEF TicksFor
    <2> QED BY <2>1, TableFinite DEF SalesTyped
  <1>3. PICK m : OneToOne(m, S, R) /\ \A k \in S : ledger[m[k]] = TickEntries[k]
    BY <1>1, TicksPaired
  <1>4. \A k \in S : f[k] = TickEntries[k].amount /\ f[k] \in Int
    BY <1>1, <1>2, NetIs
  <1>5. \A k \in S : g[m[k]] = f[k]
    <2> SUFFICES ASSUME NEW k \in S PROVE g[m[k]] = f[k]
      OBVIOUS
    <2>1. m[k] \in R /\ m[k] \in DOMAIN ledger
      BY <1>2, <1>3 DEF OneToOne
    <2> QED BY <1>1, <1>3, <1>4, <2>1 DEF AmountsOf
  <1>6. IsFiniteSet(R) /\ Amount(R) = SumFunctionOnSet(g, R) /\ Amount(R) \in Int
    BY <1>1, <1>2, AmountIs
  <1>7. SumFunctionOnSet(f, S) = SumFunctionOnSet(g, R)
    <2>1. \A k \in S : f[k] \in Int /\ g[m[k]] = f[k]
      BY <1>4, <1>5
    <2>2. OneToOne(m, S, R)
      BY <1>3
    <2> QED BY <1>2, <1>6, <2>1, <2>2, SumPaired
  <1>8. Cardinality(S) = Cardinality(R)
    BY <1>2, <1>3, PairedAreAsMany
  <1>9. p \in Nat \ {0}
    BY <1>1, ConstantTypes
  <1>10. \A k \in S : x[k] \in Int /\ f[k] \in Int /\ x[k] - p * f[k] \in 0..(p - 1)
    BY <1>1, <1>2, <1>4, NetIs
  <1>11. SumFunctionOnSet(x, S) - p * SumFunctionOnSet(f, S) \in 0..((p - 1) * Cardinality(S))
    BY <1>2, <1>9, <1>10, SumOfRemainders
  <1>12. SumFunctionOnSet(x, S) \in Int
    BY <1>2, <1>10, SumIsInteger
  <1> QED BY <1>1, <1>6, <1>7, <1>8, <1>11, <1>12

LEMMA GiftsPay ==
    ASSUME SalesTyped, RowsRight, SalesBooked, ledger \in Seq(Entries), NEW h, NEW from, NEW to,
           NEW R, R = hostCreditsBetween(h, {"gift"}, from, to)
    PROVE  /\ SumFunctionOnSet(GiftNet, GiftsFor(h, from, to)) - PaisePerBean * Amount(R)
                  \in 0..((PaisePerBean - 1) * Cardinality(R))
           /\ SumFunctionOnSet(GiftNet, GiftsFor(h, from, to)) \in Int
           /\ Amount(R) \in Int /\ IsFiniteSet(R)
  <1>1. PICK S, f, g, x, p : /\ S = GiftsFor(h, from, to) /\ x = GiftNet /\ g = AmountsOf
                             /\ f = [k \in DOMAIN gift |-> GiftEntries[k].amount]
                             /\ p = PaisePerBean
    OBVIOUS
  <1>2. S \subseteq DOMAIN gift /\ R \in SUBSET DOMAIN ledger /\ IsFiniteSet(S)
    <2>1. S \subseteq DOMAIN gift /\ R \in SUBSET DOMAIN ledger
      BY <1>1, CreditRows DEF GiftsFor
    <2> QED BY <2>1, TableFinite DEF SalesTyped
  <1>3. PICK m : OneToOne(m, S, R) /\ \A k \in S : ledger[m[k]] = GiftEntries[k]
    BY <1>1, GiftsPaired
  <1>4. \A k \in S : f[k] = GiftEntries[k].amount /\ f[k] \in Int
    BY <1>1, <1>2, NetIs
  <1>5. \A k \in S : g[m[k]] = f[k]
    <2> SUFFICES ASSUME NEW k \in S PROVE g[m[k]] = f[k]
      OBVIOUS
    <2>1. m[k] \in R /\ m[k] \in DOMAIN ledger
      BY <1>2, <1>3 DEF OneToOne
    <2> QED BY <1>1, <1>3, <1>4, <2>1 DEF AmountsOf
  <1>6. IsFiniteSet(R) /\ Amount(R) = SumFunctionOnSet(g, R) /\ Amount(R) \in Int
    BY <1>1, <1>2, AmountIs
  <1>7. SumFunctionOnSet(f, S) = SumFunctionOnSet(g, R)
    <2>1. \A k \in S : f[k] \in Int /\ g[m[k]] = f[k]
      BY <1>4, <1>5
    <2>2. OneToOne(m, S, R)
      BY <1>3
    <2> QED BY <1>2, <1>6, <2>1, <2>2, SumPaired
  <1>8. Cardinality(S) = Cardinality(R)
    BY <1>2, <1>3, PairedAreAsMany
  <1>9. p \in Nat \ {0}
    BY <1>1, ConstantTypes
  <1>10. \A k \in S : x[k] \in Int /\ f[k] \in Int /\ x[k] - p * f[k] \in 0..(p - 1)
    BY <1>1, <1>2, <1>4, NetIs
  <1>11. SumFunctionOnSet(x, S) - p * SumFunctionOnSet(f, S) \in 0..((p - 1) * Cardinality(S))
    BY <1>2, <1>9, <1>10, SumOfRemainders
  <1>12. SumFunctionOnSet(x, S) \in Int
    BY <1>2, <1>10, SumIsInteger
  <1> QED BY <1>1, <1>6, <1>7, <1>8, <1>11, <1>12

\* Gross less commission, of a part of the breakdown.
LEMMA CallPart ==
    ASSUME SalesTyped, RowsRight, NEW h, NEW type, NEW from, NEW to
    PROVE  LET part == sumCallGrossAndCommission(h, type, from, to)
               rows == TicksOf(h, type, from, to)
           IN  /\ part.gross - part.commission = SumFunctionOnSet(TickNet, rows)
               /\ part.gross - part.commission \in Int
               /\ rows \subseteq DOMAIN tick /\ IsFiniteSet(rows)
  <1>1. PICK S, f, g, x, part :
            /\ S = TicksOf(h, type, from, to) /\ x = TickNet
            /\ f = [i \in S |-> tick[i].amount] /\ g = [i \in S |-> CommissionOn(tick[i].amount, calls[tick[i].call].points)]
            /\ part = sumCallGrossAndCommission(h, type, from, to)
    OBVIOUS
  <1>2. S \subseteq DOMAIN tick
    BY <1>1 DEF TicksOf
  <1>3. IsFiniteSet(S)
    BY <1>2, TableFinite DEF SalesTyped
  <1>4. part.gross = SumFunctionOnSet(f, S) /\ part.commission = SumFunctionOnSet(g, S)
    BY <1>1 DEF sumCallGrossAndCommission, Sum
  <1>5. \A i \in S : f[i] \in Int /\ g[i] \in Int /\ x[i] = f[i] - g[i]
    BY <1>1, <1>2, NetIs
  <1>6. SumFunctionOnSet(x, S) = SumFunctionOnSet(f, S) - SumFunctionOnSet(g, S)
    BY <1>3, <1>5, SumOfDifferences
  <1>7. SumFunctionOnSet(x, S) \in Int
    <2>1. \A i \in S : x[i] \in Int
      BY <1>1, <1>2, NetIs
    <2> QED BY <1>3, <2>1, SumIsInteger
  <1>8. /\ part.gross - part.commission = SumFunctionOnSet(x, S)
        /\ part.gross - part.commission \in Int
    BY <1>4, <1>6, <1>7
  <1> QED BY <1>1, <1>2, <1>3, <1>8

LEMMA GiftPart ==
    ASSUME SalesTyped, RowsRight, NEW h, NEW contexts, NEW from, NEW to
    PROVE  LET part == sumGiftGrossAndCommission(h, contexts, from, to)
               rows == GiftsTo(h, contexts, from, to)
           IN  /\ part.gross - part.commission = SumFunctionOnSet(GiftNet, rows)
               /\ part.gross - part.commission \in Int
               /\ rows \subseteq DOMAIN gift /\ IsFiniteSet(rows)
  <1>1. PICK S, f, g, x, part :
            /\ S = GiftsTo(h, contexts, from, to) /\ x = GiftNet
            /\ f = [i \in S |-> gift[i].price] /\ g = [i \in S |-> CommissionOn(gift[i].price, gift[i].points)]
            /\ part = sumGiftGrossAndCommission(h, contexts, from, to)
    OBVIOUS
  <1>2. S \subseteq DOMAIN gift
    BY <1>1 DEF GiftsTo, giftContextFilter
  <1>3. IsFiniteSet(S)
    BY <1>2, TableFinite DEF SalesTyped
  <1>4. part.gross = SumFunctionOnSet(f, S) /\ part.commission = SumFunctionOnSet(g, S)
    BY <1>1 DEF sumGiftGrossAndCommission, Sum
  <1>5. \A i \in S : f[i] \in Int /\ g[i] \in Int /\ x[i] = f[i] - g[i]
    BY <1>1, <1>2, NetIs
  <1>6. SumFunctionOnSet(x, S) = SumFunctionOnSet(f, S) - SumFunctionOnSet(g, S)
    BY <1>3, <1>5, SumOfDifferences
  <1>7. SumFunctionOnSet(x, S) \in Int
    <2>1. \A i \in S : x[i] \in Int
      BY <1>1, <1>2, NetIs
    <2> QED BY <1>3, <2>1, SumIsInteger
  <1>8. /\ part.gross - part.commission = SumFunctionOnSet(x, S)
        /\ part.gross - part.commission \in Int
    BY <1>4, <1>6, <1>7
  <1> QED BY <1>1, <1>2, <1>3, <1>8

\* The four parts are the host's ticks and gifts.
LEMMA BreakdownIs ==
    ASSUME SalesTyped, RowsRight, NEW h, NEW from, NEW to
    PROVE  getHostEarningsBreakdown(h, from, to)
               = SumFunctionOnSet(TickNet, TicksFor(h, from, to))
                 + SumFunctionOnSet(GiftNet, GiftsFor(h, from, to))
  <1>1. PICK video, voice, sent, live, f :
            /\ video = sumCallGrossAndCommission(h, "video", from, to)
            /\ voice = sumCallGrossAndCommission(h, "voice", from, to)
            /\ sent = sumGiftGrossAndCommission(h, {"call", "chat"}, from, to)
            /\ live = sumGiftGrossAndCommission(h, {"live"}, from, to)
            /\ f = [i \in DOMAIN <<video, voice, sent, live>> |->
                       <<video, voice, sent, live>>[i].gross
                           - <<video, voice, sent, live>>[i].commission]
    OBVIOUS
  <1>2. DOMAIN <<video, voice, sent, live>> = {1, 2, 3, 4}
    OBVIOUS
  <1>3. /\ f[1] = video.gross - video.commission /\ f[2] = voice.gross - voice.commission
        /\ f[3] = sent.gross - sent.commission /\ f[4] = live.gross - live.commission
    BY <1>1
  <1>4. getHostEarningsBreakdown(h, from, to) = SumFunctionOnSet(f, {1, 2, 3, 4})
    BY <1>1, <1>2 DEF getHostEarningsBreakdown, Sum
  <1>5. PICK A, B, C, D, x, y : /\ A = TicksOf(h, "video", from, to)
                                /\ B = TicksOf(h, "voice", from, to)
                                /\ C = GiftsTo(h, {"call", "chat"}, from, to)
                                /\ D = GiftsTo(h, {"live"}, from, to)
                                /\ x = TickNet /\ y = GiftNet
    OBVIOUS
  <1>6. /\ f[1] = SumFunctionOnSet(x, A) /\ f[1] \in Int
        /\ A \subseteq DOMAIN tick /\ IsFiniteSet(A)
    BY <1>1, <1>3, <1>5, CallPart
  <1>7. /\ f[2] = SumFunctionOnSet(x, B) /\ f[2] \in Int
        /\ B \subseteq DOMAIN tick /\ IsFiniteSet(B)
    BY <1>1, <1>3, <1>5, CallPart
  <1>8. /\ f[3] = SumFunctionOnSet(y, C) /\ f[3] \in Int
        /\ C \subseteq DOMAIN gift /\ IsFiniteSet(C)
    BY <1>1, <1>3, <1>5, GiftPart
  <1>9. /\ f[4] = SumFunctionOnSet(y, D) /\ f[4] \in Int
        /\ D \subseteq DOMAIN gift /\ IsFiniteSet(D)
    BY <1>1, <1>3, <1>5, GiftPart
  <1>10. A \cup B = TicksFor(h, from, to) /\ A \cap B = {}
    <2>1. \A k : k \in A <=> /\ k \in DOMAIN tick /\ calls[tick[k].call].host = h
                             /\ calls[tick[k].call].type = "video" /\ In(tick[k].at, from, to)
      BY <1>5 DEF TicksOf
    <2>2. \A k : k \in B <=> /\ k \in DOMAIN tick /\ calls[tick[k].call].host = h
                             /\ calls[tick[k].call].type = "voice" /\ In(tick[k].at, from, to)
      BY <1>5 DEF TicksOf
    <2>3. \A k \in DOMAIN tick : calls[tick[k].call].type \in {"voice", "video"}
      <3>1. \A k \in DOMAIN tick : calls[tick[k].call] \in CallRow
        BY RowTyped
      <3> QED BY <3>1 DEF CallRow, CallTypes
    <2> QED BY <2>1, <2>2, <2>3 DEF TicksFor
  <1>11. C \cup D = GiftsFor(h, from, to) /\ C \cap D = {}
    <2>1. \A k : k \in C <=> /\ k \in DOMAIN gift /\ gift[k].context \in {"call", "chat", "none"}
                             /\ gift[k].host = h /\ In(gift[k].at, from, to)
      BY <1>5 DEF GiftsTo, giftContextFilter
    <2>2. \A k : k \in D <=> /\ k \in DOMAIN gift /\ gift[k].context = "live"
                             /\ gift[k].host = h /\ In(gift[k].at, from, to)
      BY <1>5 DEF GiftsTo, giftContextFilter
    <2>3. \A k \in DOMAIN gift : gift[k].context \in {"call", "chat", "live", "none"}
      BY RowTyped DEF GiftRow, Contexts
    <2> QED BY <2>1, <2>2, <2>3 DEF GiftsFor
  <1>12. SumFunctionOnSet(x, A \cup B) = f[1] + f[2]
    <2>1. \A k \in A \cup B : x[k] \in Int
      BY <1>5, <1>6, <1>7, NetIs
    <2>2. SumFunctionOnSet(x, A \cup B) = SumFunctionOnSet(x, A) + SumFunctionOnSet(x, B)
      BY <1>6, <1>7, <1>10, <2>1, SumOfUnion
    <2> QED BY <1>6, <1>7, <2>2
  <1>13. SumFunctionOnSet(y, C \cup D) = f[3] + f[4]
    <2>1. \A k \in C \cup D : y[k] \in Int
      BY <1>5, <1>8, <1>9, NetIs
    <2>2. SumFunctionOnSet(y, C \cup D) = SumFunctionOnSet(y, C) + SumFunctionOnSet(y, D)
      BY <1>8, <1>9, <1>11, <2>1, SumOfUnion
    <2> QED BY <1>8, <1>9, <2>2
  <1>14. SumFunctionOnSet(f, {1, 2, 3, 4}) = f[1] + f[2] + f[3] + f[4]
    BY <1>6, <1>7, <1>8, <1>9, SumOfFour
  <1>15. SumFunctionOnSet(f, {1, 2, 3, 4}) = (f[1] + f[2]) + (f[3] + f[4])
    BY <1>6, <1>7, <1>8, <1>9, <1>14
  <1> QED BY <1>4, <1>5, <1>10, <1>11, <1>12, <1>13, <1>15

LEMMA BreakdownsPaid ==
    ASSUME BooksInv, SalesInv
    PROVE  BreakdownIsPaid
  <1> SUFFICES ASSUME NEW h \in Hosts, NEW range \in Ranges
               PROVE  LET span == resolveRange(range)
                          credits == hostCreditsBetween(h, {"call_billing", "gift"}, span.from, span.to)
                      IN  getHostEarningsBreakdown(h, span.from, span.to)
                              - PaisePerBean * Amount(credits)
                              \in 0..((PaisePerBean - 1) * Cardinality(credits))
    BY DEF BreakdownIsPaid
  <1>1. SalesTyped /\ RowsRight /\ SalesBooked /\ ledger \in Seq(Entries)
    BY WalletsOfTables DEF BooksInv, BooksTyped, TablesTyped, WalletsTyped, SalesInv
  <1>2. PICK from, to : from = resolveRange(range).from /\ to = resolveRange(range).to
    OBVIOUS
  <1>3. PICK Q, R, all : /\ Q = hostCreditsBetween(h, {"call_billing"}, from, to)
                         /\ R = hostCreditsBetween(h, {"gift"}, from, to)
                         /\ all = hostCreditsBetween(h, {"call_billing", "gift"}, from, to)
    OBVIOUS
  <1>4. PICK x, y, p, a, b, m, n :
            /\ x = SumFunctionOnSet(TickNet, TicksFor(h, from, to))
            /\ y = SumFunctionOnSet(GiftNet, GiftsFor(h, from, to))
            /\ p = PaisePerBean /\ a = Amount(Q) /\ b = Amount(R)
            /\ m = Cardinality(Q) /\ n = Cardinality(R)
    OBVIOUS
  <1>5. x - p * a \in 0..((p - 1) * m) /\ x \in Int /\ a \in Int /\ IsFiniteSet(Q)
    BY <1>1, <1>3, <1>4, TicksPay
  <1>6. y - p * b \in 0..((p - 1) * n) /\ y \in Int /\ b \in Int /\ IsFiniteSet(R)
    BY <1>1, <1>3, <1>4, GiftsPay
  <1>7. /\ Q \in SUBSET DOMAIN ledger /\ R \in SUBSET DOMAIN ledger /\ Q \cap R = {}
        /\ all = Q \cup R
    BY <1>3, CreditRows
  <1>8. Amount(all) = a + b
    BY <1>1, <1>4, <1>7, AmountsApart
  <1>9. Cardinality(all) = m + n /\ m \in Nat /\ n \in Nat
    <2>1. m \in Nat /\ n \in Nat
      BY <1>4, <1>5, <1>6, FS_CardinalityType
    <2>2. Cardinality(Q \cup R) = Cardinality(Q) + Cardinality(R) - Cardinality(Q \cap R)
      BY <1>5, <1>6, FS_Union
    <2>3. Cardinality(Q \cap R) = 0
      BY <1>7, FS_EmptySet
    <2> QED BY <1>4, <1>7, <2>1, <2>2, <2>3
  <1>10. getHostEarningsBreakdown(h, from, to) = x + y
    BY <1>1, <1>4, BreakdownIs
  <1>11. p \in Nat \ {0}
    BY <1>4, ConstantTypes
  <1>12. PICK z, c, k : z = x + y /\ c = a + b /\ k = m + n
    OBVIOUS
  <1>13. z - p * c \in 0..((p - 1) * k)
    <2>1. PICK u, v, r, s : u = p * a /\ v = p * b /\ r = (p - 1) * m /\ s = (p - 1) * n
      OBVIOUS
    <2>2. u \in Int /\ v \in Int /\ r \in Int /\ s \in Int
      BY <1>5, <1>6, <1>9, <1>11, <2>1
    <2>3. p * c = u + v
      BY <1>5, <1>6, <1>11, <1>12, <2>1
    <2>4. (p - 1) * k = r + s
      BY <1>9, <1>11, <1>12, <2>1
    <2>5. x - u \in 0..r /\ y - v \in 0..s
      BY <1>5, <1>6, <2>1
    <2>6. z - (u + v) \in 0..(r + s)
      BY <1>5, <1>6, <1>12, <2>2, <2>5
    <2> QED BY <2>3, <2>4, <2>6
  <1>14. getHostEarningsBreakdown(h, from, to) = z /\ Amount(all) = c /\ Cardinality(all) = k
    BY <1>8, <1>9, <1>10, <1>12
  <1>15. getHostEarningsBreakdown(h, from, to) - PaisePerBean * Amount(all)
             \in 0..((PaisePerBean - 1) * Cardinality(all))
    BY <1>4, <1>13, <1>14
  <1> QED BY <1>2, <1>3, <1>15
-----------------------------------------------------------------------------
(* The admin's dashboard                                                     *)

\* Columns of the tables of sales, and the rows that count as revenue.
Totals == [c \in DOMAIN calls |-> calls[c].total]
Prices == [k \in DOMAIN gift |-> gift[k].price]
Charges == [k \in DOMAIN message |-> message[k].charged]
CompletedOf(hosts, from, to) == {c \in CompletedIn(from, to) : calls[c].host \in hosts}
GiftsOf(hosts, from, to) == {i \in GiftsIn(from, to) : gift[i].host \in hosts}
MessagesOf(hosts, from, to) == {i \in PaidMessagesIn(from, to) : message[i].host \in hosts}
Worth(C, G, M) ==
    SumFunctionOnSet(Totals, C) + SumFunctionOnSet(Prices, G) + SumFunctionOnSet(Charges, M)

LEMMA ColumnsAre ==
    ASSUME SalesTyped
    PROVE  /\ \A c \in DOMAIN calls : /\ Totals[c] = calls[c].total /\ Totals[c] \in Nat
                                      /\ calls[c].host \in Hosts /\ calls[c].updated \in Nat
                                      /\ calls[c].beans \in Nat
           /\ \A k \in DOMAIN gift : /\ Prices[k] = gift[k].price /\ Prices[k] \in Nat
                                     /\ gift[k].host \in Hosts /\ gift[k].at \in Nat
                                     /\ gift[k].beans \in Nat
           /\ \A k \in DOMAIN message : /\ Charges[k] = message[k].charged /\ Charges[k] \in Nat
                                        /\ message[k].host \in Hosts /\ message[k].at \in Nat
                                        /\ message[k].beans \in Nat
  <1>1. ASSUME NEW c \in DOMAIN calls
        PROVE  /\ Totals[c] = calls[c].total /\ Totals[c] \in Nat
               /\ calls[c].host \in Hosts /\ calls[c].updated \in Nat
               /\ calls[c].beans \in Nat
    <2>1. calls[c] \in CallRow /\ Totals[c] = calls[c].total
      BY RowTyped DEF Totals
    <2> QED BY <2>1 DEF CallRow
  <1>2. ASSUME NEW k \in DOMAIN gift
        PROVE  /\ Prices[k] = gift[k].price /\ Prices[k] \in Nat
               /\ gift[k].host \in Hosts /\ gift[k].at \in Nat /\ gift[k].beans \in Nat
    <2>1. gift[k] \in GiftRow /\ Prices[k] = gift[k].price
      BY RowTyped DEF Prices
    <2> QED BY <2>1 DEF GiftRow
  <1>3. ASSUME NEW k \in DOMAIN message
        PROVE  /\ Charges[k] = message[k].charged /\ Charges[k] \in Nat
               /\ message[k].host \in Hosts /\ message[k].at \in Nat /\ message[k].beans \in Nat
    <2>1. message[k] \in MessageRow /\ Charges[k] = message[k].charged
      BY RowTyped DEF Charges
    <2> QED BY <2>1 DEF MessageRow
  <1> QED BY <1>1, <1>2, <1>3

LEMMA WorthTyped ==
    ASSUME SalesTyped, NEW C \in SUBSET DOMAIN calls, NEW G \in SUBSET DOMAIN gift,
           NEW M \in SUBSET DOMAIN message
    PROVE  /\ IsFiniteSet(C) /\ IsFiniteSet(G) /\ IsFiniteSet(M)
           /\ \A x \in C : Totals[x] \in Int
           /\ \A x \in G : Prices[x] \in Int
           /\ \A x \in M : Charges[x] \in Int
           /\ SumFunctionOnSet(Totals, C) \in Int /\ SumFunctionOnSet(Prices, G) \in Int
           /\ SumFunctionOnSet(Charges, M) \in Int
  <1>1. IsFiniteSet(C) /\ IsFiniteSet(G) /\ IsFiniteSet(M)
    BY TableFinite DEF SalesTyped
  <1>2. \A x \in C : Totals[x] \in Int
    BY ColumnsAre
  <1>3. \A x \in G : Prices[x] \in Int
    BY ColumnsAre
  <1>4. \A x \in M : Charges[x] \in Int
    BY ColumnsAre
  <1>5. SumFunctionOnSet(Totals, C) \in Int
    BY <1>1, <1>2, SumIsInteger
  <1>6. SumFunctionOnSet(Prices, G) \in Int
    BY <1>1, <1>3, SumIsInteger
  <1>7. SumFunctionOnSet(Charges, M) \in Int
    BY <1>1, <1>4, SumIsInteger
  <1> QED BY <1>1, <1>2, <1>3, <1>4, <1>5, <1>6, <1>7

LEMMA RevenueRows ==
    ASSUME NEW hosts, NEW from, NEW to
    PROVE  /\ CompletedOf(hosts, from, to) \in SUBSET DOMAIN calls
           /\ GiftsOf(hosts, from, to) \in SUBSET DOMAIN gift
           /\ MessagesOf(hosts, from, to) \in SUBSET DOMAIN message
           /\ \A c : c \in CompletedOf(hosts, from, to) <=>
                  /\ c \in DOMAIN calls /\ calls[c].status = "completed"
                  /\ In(calls[c].updated, from, to) /\ calls[c].host \in hosts
           /\ \A k : k \in GiftsOf(hosts, from, to) <=>
                  k \in DOMAIN gift /\ In(gift[k].at, from, to) /\ gift[k].host \in hosts
           /\ \A k : k \in MessagesOf(hosts, from, to) <=>
                  /\ k \in DOMAIN message /\ message[k].charged > 0
                  /\ In(message[k].at, from, to) /\ message[k].host \in hosts
  BY DEF CompletedOf, GiftsOf, MessagesOf, CompletedIn, GiftsIn, PaidMessagesIn

\* Revenue is what the rows are worth.
LEMMA RevenueIs ==
    ASSUME SalesTyped, NEW hosts, NEW from, NEW to
    PROVE  /\ RevenueOf(hosts, from, to)
                  = Worth(CompletedOf(hosts, from, to), GiftsOf(hosts, from, to),
                          MessagesOf(hosts, from, to))
           /\ RevenueOf(hosts, from, to) \in Int
  <1>1. PICK C, G, M, f, g, e : /\ C = CompletedOf(hosts, from, to)
                                /\ G = GiftsOf(hosts, from, to) /\ M = MessagesOf(hosts, from, to)
                                /\ f = [c \in C |-> calls[c].total]
                                /\ g = [i \in G |-> gift[i].price]
                                /\ e = [i \in M |-> message[i].charged]
    OBVIOUS
  <1>2. C \in SUBSET DOMAIN calls /\ G \in SUBSET DOMAIN gift /\ M \in SUBSET DOMAIN message
    BY <1>1, RevenueRows
  <1>3. /\ IsFiniteSet(C) /\ IsFiniteSet(G) /\ IsFiniteSet(M)
        /\ SumFunctionOnSet(Totals, C) \in Int /\ SumFunctionOnSet(Prices, G) \in Int
        /\ SumFunctionOnSet(Charges, M) \in Int
    BY <1>2, WorthTyped
  <1>4. RevenueOf(hosts, from, to)
            = SumFunctionOnSet(f, C) + SumFunctionOnSet(g, G) + SumFunctionOnSet(e, M)
    BY <1>1 DEF RevenueOf, Sum, CompletedOf, GiftsOf, MessagesOf
  <1>5. SumFunctionOnSet(f, C) = SumFunctionOnSet(Totals, C)
    <2>1. \A x \in C : f[x] = Totals[x]
      BY <1>1, <1>2 DEF Totals
    <2> QED BY <1>3, <2>1, SameSum
  <1>6. SumFunctionOnSet(g, G) = SumFunctionOnSet(Prices, G)
    <2>1. \A x \in G : g[x] = Prices[x]
      BY <1>1, <1>2 DEF Prices
    <2> QED BY <1>3, <2>1, SameSum
  <1>7. SumFunctionOnSet(e, M) = SumFunctionOnSet(Charges, M)
    <2>1. \A x \in M : e[x] = Charges[x]
      BY <1>1, <1>2 DEF Charges
    <2> QED BY <1>3, <2>1, SameSum
  <1>8. RevenueOf(hosts, from, to) = Worth(C, G, M) /\ RevenueOf(hosts, from, to) \in Int
    BY <1>3, <1>4, <1>5, <1>6, <1>7 DEF Worth
  <1> QED BY <1>1, <1>8

\* What parts of the rows are worth adds up to what they are worth together.
LEMMA WorthOfParts ==
    ASSUME SalesTyped, NEW C \in SUBSET DOMAIN calls, NEW G \in SUBSET DOMAIN gift,
           NEW M \in SUBSET DOMAIN message, NEW D, IsFiniteSet(D),
           NEW p, Partition(p, D, C), NEW q, Partition(q, D, G), NEW r, Partition(r, D, M),
           NEW s, \A d \in D : s[d] = Worth(p[d], q[d], r[d])
    PROVE  SumFunctionOnSet(s, D) = Worth(C, G, M)
  <1>1. PICK f, g, e, t : /\ f = [d \in D |-> SumFunctionOnSet(Totals, p[d])]
                          /\ g = [d \in D |-> SumFunctionOnSet(Prices, q[d])]
                          /\ e = [d \in D |-> SumFunctionOnSet(Charges, r[d])]
                          /\ t = [d \in D |-> f[d] + g[d]]
    OBVIOUS
  <1>2. /\ IsFiniteSet(C) /\ IsFiniteSet(G) /\ IsFiniteSet(M)
        /\ \A x \in C : Totals[x] \in Int
        /\ \A x \in G : Prices[x] \in Int
        /\ \A x \in M : Charges[x] \in Int
    BY WorthTyped
  <1>3. ASSUME NEW d \in D
        PROVE  /\ f[d] \in Int /\ g[d] \in Int /\ e[d] \in Int
               /\ t[d] = f[d] + g[d] /\ s[d] = t[d] + e[d]
               /\ f[d] = SumFunctionOnSet(Totals, p[d]) /\ g[d] = SumFunctionOnSet(Prices, q[d])
               /\ e[d] = SumFunctionOnSet(Charges, r[d])
    <2>1. p[d] \in SUBSET DOMAIN calls /\ q[d] \in SUBSET DOMAIN gift /\ r[d] \in SUBSET DOMAIN message
      BY DEF Partition
    <2>2. /\ SumFunctionOnSet(Totals, p[d]) \in Int /\ SumFunctionOnSet(Prices, q[d]) \in Int
          /\ SumFunctionOnSet(Charges, r[d]) \in Int
      BY <2>1, WorthTyped
    <2>3. s[d] = SumFunctionOnSet(Totals, p[d]) + SumFunctionOnSet(Prices, q[d])
                     + SumFunctionOnSet(Charges, r[d])
      BY DEF Worth
    <2> QED BY <1>1, <2>2, <2>3
  <1>4. SumFunctionOnSet(f, D) = SumFunctionOnSet(Totals, C)
    <2>1. \A d \in D : f[d] = SumFunctionOnSet(Totals, p[d])
      BY <1>3
    <2> QED BY <1>2, <2>1, SumOfParts
  <1>5. SumFunctionOnSet(g, D) = SumFunctionOnSet(Prices, G)
    <2>1. \A d \in D : g[d] = SumFunctionOnSet(Prices, q[d])
      BY <1>3
    <2> QED BY <1>2, <2>1, SumOfParts
  <1>6. SumFunctionOnSet(e, D) = SumFunctionOnSet(Charges, M)
    <2>1. \A d \in D : e[d] = SumFunctionOnSet(Charges, r[d])
      BY <1>3
    <2> QED BY <1>2, <2>1, SumOfParts
  <1>7. SumFunctionOnSet(t, D) = SumFunctionOnSet(f, D) + SumFunctionOnSet(g, D)
    <2>1. \A d \in D : f[d] \in Int /\ g[d] \in Int /\ t[d] = f[d] + g[d]
      BY <1>3
    <2> QED BY <2>1, SumOfSums
  <1>8. SumFunctionOnSet(s, D) = SumFunctionOnSet(t, D) + SumFunctionOnSet(e, D)
    <2>1. \A d \in D : t[d] \in Int /\ e[d] \in Int /\ s[d] = t[d] + e[d]
      BY <1>3
    <2> QED BY <2>1, SumOfSums
  <1> QED BY <1>4, <1>5, <1>6, <1>7, <1>8 DEF Worth

\* By the host.
LEMMA RevenueByHost ==
    ASSUME SalesTyped, IsFiniteSet(Hosts), NEW from, NEW to, NEW s,
           \A h \in Hosts : s[h] = RevenueOf({h}, from, to)
    PROVE  SumFunctionOnSet(s, Hosts) = RevenueOf(Hosts, from, to)
  <1>1. PICK C, G, M, p, q, r :
            /\ C = CompletedOf(Hosts, from, to) /\ G = GiftsOf(Hosts, from, to)
            /\ M = MessagesOf(Hosts, from, to)
            /\ p = [h \in Hosts |-> CompletedOf({h}, from, to)]
            /\ q = [h \in Hosts |-> GiftsOf({h}, from, to)]
            /\ r = [h \in Hosts |-> MessagesOf({h}, from, to)]
    OBVIOUS
  <1>2. C \in SUBSET DOMAIN calls /\ G \in SUBSET DOMAIN gift /\ M \in SUBSET DOMAIN message
    BY <1>1, RevenueRows
  <1>3. Partition(p, Hosts, C)
    <2>1. \A h \in Hosts : \A x : x \in p[h] <=> x \in C /\ calls[x].host = h
      BY <1>1, RevenueRows
    <2>2. \A x \in C : calls[x].host \in Hosts
      BY <1>1, RevenueRows
    <2> QED BY <2>1, <2>2 DEF Partition
  <1>4. Partition(q, Hosts, G)
    <2>1. \A h \in Hosts : \A x : x \in q[h] <=> x \in G /\ gift[x].host = h
      BY <1>1, RevenueRows
    <2>2. \A x \in G : gift[x].host \in Hosts
      BY <1>1, RevenueRows
    <2> QED BY <2>1, <2>2 DEF Partition
  <1>5. Partition(r, Hosts, M)
    <2>1. \A h \in Hosts : \A x : x \in r[h] <=> x \in M /\ message[x].host = h
      BY <1>1, RevenueRows
    <2>2. \A x \in M : message[x].host \in Hosts
      BY <1>1, RevenueRows
    <2> QED BY <2>1, <2>2 DEF Partition
  <1>6. \A h \in Hosts : s[h] = Worth(p[h], q[h], r[h])
    <2>1. \A h \in Hosts : s[h] = Worth(CompletedOf({h}, from, to), GiftsOf({h}, from, to),
                                        MessagesOf({h}, from, to))
      BY RevenueIs
    <2> QED BY <1>1, <2>1
  <1>7. SumFunctionOnSet(s, Hosts) = Worth(C, G, M)
    BY <1>2, <1>3, <1>4, <1>5, <1>6, WorthOfParts
  <1> QED BY <1>1, <1>7, RevenueIs

\* By the day.
LEMMA DayWithin ==
    ASSUME now \in Nat, NEW range \in Ranges, NEW d \in DaysIn(range), NEW at \in Nat,
           In(at, d, DayEnd(d))
    PROVE  In(at, range[1], DayEnd(range[2]))
  <1>1. d \in Nat /\ d % DayLength = 0 /\ In(d, range[1], DayEnd(range[2]))
    BY RangeTyped
  <1>2. DayOf(at) = d
    BY <1>1, DayUnique DEF In, DayEnd
  <1> QED BY <1>1, <1>2, RangeTyped, DayInRange DEF DayEnd

LEMMA RevenueByDay ==
    ASSUME SalesTyped, RowsRight, now \in Nat, NEW range \in Ranges, NEW s,
           \A d \in DaysIn(range) : s[d] = RevenueOf(Hosts, d, DayEnd(d))
    PROVE  SumFunctionOnSet(s, DaysIn(range)) = RevenueOf(Hosts, range[1], DayEnd(range[2]))
  <1>0. /\ \A c \in DOMAIN calls : CallRight(calls[c])
        /\ \A k \in DOMAIN gift : GiftRight(gift[k])
        /\ \A k \in DOMAIN message : MessageRight(message[k])
    BY DEF RowsRight
  <1>1. PICK D, C, G, M, p, q, r :
            /\ D = DaysIn(range)
            /\ C = CompletedOf(Hosts, range[1], DayEnd(range[2]))
            /\ G = GiftsOf(Hosts, range[1], DayEnd(range[2]))
            /\ M = MessagesOf(Hosts, range[1], DayEnd(range[2]))
            /\ p = [d \in D |-> {x \in C : In(calls[x].updated, d, DayEnd(d))}]
            /\ q = [d \in D |-> {x \in G : In(gift[x].at, d, DayEnd(d))}]
            /\ r = [d \in D |-> {x \in M : In(message[x].at, d, DayEnd(d))}]
    OBVIOUS
  <1>2. C \in SUBSET DOMAIN calls /\ G \in SUBSET DOMAIN gift /\ M \in SUBSET DOMAIN message
    BY <1>1, RevenueRows
  <1>3. /\ Partition(p, D, C)
        /\ \A d \in D : p[d] = CompletedOf(Hosts, d, DayEnd(d))
    <2>1. PICK when : when = [x \in DOMAIN calls |-> calls[x].updated]
      OBVIOUS
    <2>2. \A x \in DOMAIN calls : when[x] = calls[x].updated /\ when[x] \in 0..now
      BY <1>0, <2>1, ColumnsAre DEF CallRight
    <2>3. p = DayParts(C, when, range)
      <3>1. \A d \in D : {x \in C : In(calls[x].updated, d, DayEnd(d))}
                             = {x \in C : In(when[x], d, DayEnd(d))}
        BY <1>2, <2>2
      <3> QED BY <1>1, <3>1 DEF DayParts
    <2>4. \A x \in C : when[x] \in 0..now /\ In(when[x], range[1], DayEnd(range[2]))
      BY <1>1, <1>2, <2>2, RevenueRows
    <2>5. Partition(p, D, C)
      <3>1. D = DaysIn(range)
        BY <1>1
      <3>2. Partition(DayParts(C, when, range), DaysIn(range), C)
        BY <2>4, DaysPartition
      <3> QED BY <2>3, <3>1, <3>2
    <2>6. ASSUME NEW d \in D PROVE p[d] = CompletedOf(Hosts, d, DayEnd(d))
      <3>1. p[d] = {x \in C : In(calls[x].updated, d, DayEnd(d))}
        BY <1>1
      <3>2. PICK Q : Q = CompletedOf(Hosts, d, DayEnd(d))
        OBVIOUS
      <3>3. ASSUME NEW x \in Q PROVE x \in C /\ In(calls[x].updated, d, DayEnd(d))
        <4>1. x \in DOMAIN calls /\ In(calls[x].updated, d, DayEnd(d))
          BY <3>2, RevenueRows
        <4>2. calls[x].updated \in Nat
          BY <2>2, <4>1
        <4>3. In(calls[x].updated, range[1], DayEnd(range[2]))
          BY <1>1, <4>1, <4>2, DayWithin
        <4> QED BY <1>1, <3>2, <4>1, <4>3, RevenueRows
      <3>4. ASSUME NEW x \in C, In(calls[x].updated, d, DayEnd(d)) PROVE x \in Q
        BY <1>1, <3>2, <3>4, RevenueRows
      <3> QED BY <3>1, <3>2, <3>3, <3>4
    <2> QED BY <2>5, <2>6
  <1>4. /\ Partition(q, D, G)
        /\ \A d \in D : q[d] = GiftsOf(Hosts, d, DayEnd(d))
    <2>1. PICK when : when = [x \in DOMAIN gift |-> gift[x].at]
      OBVIOUS
    <2>2. \A x \in DOMAIN gift : when[x] = gift[x].at /\ when[x] \in 0..now
      BY <1>0, <2>1, ColumnsAre DEF GiftRight
    <2>3. q = DayParts(G, when, range)
      <3>1. \A d \in D : {x \in G : In(gift[x].at, d, DayEnd(d))}
                             = {x \in G : In(when[x], d, DayEnd(d))}
        BY <1>2, <2>2
      <3> QED BY <1>1, <3>1 DEF DayParts
    <2>4. \A x \in G : when[x] \in 0..now /\ In(when[x], range[1], DayEnd(range[2]))
      BY <1>1, <1>2, <2>2, RevenueRows
    <2>5. Partition(q, D, G)
      <3>1. D = DaysIn(range)
        BY <1>1
      <3>2. Partition(DayParts(G, when, range), DaysIn(range), G)
        BY <2>4, DaysPartition
      <3> QED BY <2>3, <3>1, <3>2
    <2>6. ASSUME NEW d \in D PROVE q[d] = GiftsOf(Hosts, d, DayEnd(d))
      <3>1. q[d] = {x \in G : In(gift[x].at, d, DayEnd(d))}
        BY <1>1
      <3>2. PICK Q : Q = GiftsOf(Hosts, d, DayEnd(d))
        OBVIOUS
      <3>3. ASSUME NEW x \in Q PROVE x \in G /\ In(gift[x].at, d, DayEnd(d))
        <4>1. x \in DOMAIN gift /\ In(gift[x].at, d, DayEnd(d))
          BY <3>2, RevenueRows
        <4>2. gift[x].at \in Nat
          BY <2>2, <4>1
        <4>3. In(gift[x].at, range[1], DayEnd(range[2]))
          BY <1>1, <4>1, <4>2, DayWithin
        <4> QED BY <1>1, <3>2, <4>1, <4>3, RevenueRows
      <3>4. ASSUME NEW x \in G, In(gift[x].at, d, DayEnd(d)) PROVE x \in Q
        BY <1>1, <3>2, <3>4, RevenueRows
      <3> QED BY <3>1, <3>2, <3>3, <3>4
    <2> QED BY <2>5, <2>6
  <1>5. /\ Partition(r, D, M)
        /\ \A d \in D : r[d] = MessagesOf(Hosts, d, DayEnd(d))
    <2>1. PICK when : when = [x \in DOMAIN message |-> message[x].at]
      OBVIOUS
    <2>2. \A x \in DOMAIN message : when[x] = message[x].at /\ when[x] \in 0..now
      BY <1>0, <2>1, ColumnsAre DEF MessageRight
    <2>3. r = DayParts(M, when, range)
      <3>1. \A d \in D : {x \in M : In(message[x].at, d, DayEnd(d))}
                             = {x \in M : In(when[x], d, DayEnd(d))}
        BY <1>2, <2>2
      <3> QED BY <1>1, <3>1 DEF DayParts
    <2>4. \A x \in M : when[x] \in 0..now /\ In(when[x], range[1], DayEnd(range[2]))
      BY <1>1, <1>2, <2>2, RevenueRows
    <2>5. Partition(r, D, M)
      <3>1. D = DaysIn(range)
        BY <1>1
      <3>2. Partition(DayParts(M, when, range), DaysIn(range), M)
        BY <2>4, DaysPartition
      <3> QED BY <2>3, <3>1, <3>2
    <2>6. ASSUME NEW d \in D PROVE r[d] = MessagesOf(Hosts, d, DayEnd(d))
      <3>1. r[d] = {x \in M : In(message[x].at, d, DayEnd(d))}
        BY <1>1
      <3>2. PICK Q : Q = MessagesOf(Hosts, d, DayEnd(d))
        OBVIOUS
      <3>3. ASSUME NEW x \in Q PROVE x \in M /\ In(message[x].at, d, DayEnd(d))
        <4>1. x \in DOMAIN message /\ In(message[x].at, d, DayEnd(d))
          BY <3>2, RevenueRows
        <4>2. message[x].at \in Nat
          BY <2>2, <4>1
        <4>3. In(message[x].at, range[1], DayEnd(range[2]))
          BY <1>1, <4>1, <4>2, DayWithin
        <4> QED BY <1>1, <3>2, <4>1, <4>3, RevenueRows
      <3>4. ASSUME NEW x \in M, In(message[x].at, d, DayEnd(d)) PROVE x \in Q
        BY <1>1, <3>2, <3>4, RevenueRows
      <3> QED BY <3>1, <3>2, <3>3, <3>4
    <2> QED BY <2>5, <2>6
  <1>6. \A d \in D : s[d] = Worth(p[d], q[d], r[d])
    <2>1. \A d \in D : s[d] = Worth(CompletedOf(Hosts, d, DayEnd(d)), GiftsOf(Hosts, d, DayEnd(d)),
                                    MessagesOf(Hosts, d, DayEnd(d)))
      BY <1>1, RevenueIs
    <2> QED BY <1>3, <1>4, <1>5, <2>1
  <1>7. IsFiniteSet(D)
    BY <1>1, RangeTyped
  <1>8. SumFunctionOnSet(s, D) = Worth(C, G, M)
    BY <1>2, <1>3, <1>4, <1>5, <1>6, <1>7, WorthOfParts
  <1> QED BY <1>1, <1>8, RevenueIs
\* All that was ever completed is before the end of time.
LEMMA AllInTime ==
    ASSUME SalesTyped, RowsRight, now \in 0..MaxNow, NEW to, to = MaxNow + 1
    PROVE  /\ \A c : c \in CompletedOf(Hosts, 0, to) <=>
                         c \in DOMAIN calls /\ calls[c].status = "completed"
           /\ GiftsOf(Hosts, 0, to) = DOMAIN gift
           /\ \A k : k \in MessagesOf(Hosts, 0, to) <=> k \in DOMAIN message /\ message[k].charged > 0
  <1>1. /\ \A c \in DOMAIN calls : CallRight(calls[c])
        /\ \A k \in DOMAIN gift : GiftRight(gift[k])
        /\ \A k \in DOMAIN message : MessageRight(message[k])
    BY DEF RowsRight
  <1>2. MaxNow \in Nat
    BY ConstantTypes
  <1>3. \A c \in DOMAIN calls : In(calls[c].updated, 0, to) /\ calls[c].host \in Hosts
    BY <1>1, <1>2, ColumnsAre DEF CallRight, In
  <1>4. \A k \in DOMAIN gift : In(gift[k].at, 0, to) /\ gift[k].host \in Hosts
    BY <1>1, <1>2, ColumnsAre DEF GiftRight, In
  <1>5. \A k \in DOMAIN message : In(message[k].at, 0, to) /\ message[k].host \in Hosts
    BY <1>1, <1>2, ColumnsAre DEF MessageRight, In
  <1>6. \A c : c \in CompletedOf(Hosts, 0, to) <=>
                   c \in DOMAIN calls /\ calls[c].status = "completed"
    BY <1>3, RevenueRows
  <1>7. \A k : k \in GiftsOf(Hosts, 0, to) <=> k \in DOMAIN gift
    BY <1>4, RevenueRows
  <1>8. \A k : k \in MessagesOf(Hosts, 0, to) <=> k \in DOMAIN message /\ message[k].charged > 0
    BY <1>5, RevenueRows
  <1>9. GiftsOf(Hosts, 0, to) = DOMAIN gift
    BY <1>7
  <1> QED BY <1>6, <1>8, <1>9

\* What users were debited for sales.
LEMMA UsersPaid ==
    ASSUME PayersRight, ledger \in Seq(Entries), IsFiniteSet(Users)
    PROVE  Amount(UserRows(EarningKinds)) = PaidByAll
  <1>1. PICK S, parts, s, f : /\ S = UserRows(EarningKinds) /\ f = AmountsOf
                              /\ parts = [u \in Users |-> RowsIn(ledger, "user", u, EarningKinds)]
                              /\ s = [u \in Users |-> PaidBy(u)]
    OBVIOUS
  <1>2. S \in SUBSET DOMAIN ledger
    BY <1>1 DEF UserRows
  <1>3. Partition(parts, Users, S)
    <2>1. \A u \in Users : \A i : i \in parts[u] <=> i \in S /\ ledger[i].owner = u
      BY <1>1 DEF UserRows, RowsIn
    <2>2. \A i \in S : ledger[i].owner \in Users
      BY <1>1 DEF UserRows, PayersRight
    <2> QED BY <2>1, <2>2 DEF Partition
  <1>4. \A u \in Users : s[u] = SumFunctionOnSet(f, parts[u])
    BY <1>1 DEF PaidBy, HeldIn, AmountsOf
  <1>5. IsFiniteSet(S) /\ Amount(S) = SumFunctionOnSet(f, S) /\ \A i \in S : f[i] \in Int
    BY <1>1, <1>2, AmountIs
  <1>6. SumFunctionOnSet(s, Users) = SumFunctionOnSet(f, S)
    BY <1>3, <1>4, <1>5, SumOfParts
  <1> QED BY <1>1, <1>5, <1>6 DEF PaidByAll

LEMMA RevenueAndRest ==
    ASSUME SalesTyped, RowsRight, SalesBooked, now \in 0..MaxNow, ledger \in Seq(Entries),
           IsFiniteSet(Users), WalletsTyped, NEW to, to = MaxNow + 1
    PROVE  RevenueOf(Hosts, 0, to)
               + Sum(LAMBDA c : calls[c].total, {c \in DOMAIN calls : calls[c].status # "completed"})
               = -Amount(UserRows(EarningKinds))
  <1>1. PICK C, E, G, M, f : /\ C = CompletedOf(Hosts, 0, to) /\ G = GiftsOf(Hosts, 0, to)
                             /\ M = MessagesOf(Hosts, 0, to)
                             /\ E = {c \in DOMAIN calls : calls[c].status # "completed"}
                             /\ f = [c \in E |-> calls[c].total]
    OBVIOUS
  <1>2. /\ C \in SUBSET DOMAIN calls /\ E \in SUBSET DOMAIN calls /\ G \in SUBSET DOMAIN gift
        /\ M \in SUBSET DOMAIN message
    BY <1>1, RevenueRows
  <1>3. C \cap E = {} /\ C \cup E = DOMAIN calls
    <2>1. \A c : c \in C <=> c \in DOMAIN calls /\ calls[c].status = "completed"
      BY <1>1, AllInTime
    <2>2. \A c : c \in E <=> c \in DOMAIN calls /\ calls[c].status # "completed"
      BY <1>1
    <2> QED BY <2>1, <2>2
  <1>4. /\ IsFiniteSet(C) /\ IsFiniteSet(E) /\ IsFiniteSet(G) /\ IsFiniteSet(M)
        /\ SumFunctionOnSet(Totals, C) \in Int /\ SumFunctionOnSet(Totals, E) \in Int
        /\ SumFunctionOnSet(Prices, G) \in Int /\ SumFunctionOnSet(Charges, M) \in Int
    BY <1>2, WorthTyped
  <1>5. SumFunctionOnSet(Totals, C \cup E) = SumFunctionOnSet(Totals, C) + SumFunctionOnSet(Totals, E)
    <2>1. \A c \in C \cup E : Totals[c] \in Int
      BY <1>3, ColumnsAre
    <2> QED BY <1>3, <1>4, <2>1, SumOfUnion
  <1>6. CallTotals = SumFunctionOnSet(Totals, C) + SumFunctionOnSet(Totals, E)
    BY <1>3, <1>5 DEF CallTotals, Totals
  <1>7. GiftPrices = SumFunctionOnSet(Prices, G)
    BY <1>1, AllInTime DEF GiftPrices, Prices
  <1>8. MessageCharges = SumFunctionOnSet(Charges, M)
    <2>1. PICK R : R = DOMAIN message
      OBVIOUS
    <2>2. M \subseteq R /\ IsFiniteSet(R)
      BY <1>2, <2>1, TableFinite DEF SalesTyped
    <2>3. \A x \in M : Charges[x] \in Int /\ Charges[x] = Charges[x]
      BY <1>2, ColumnsAre
    <2>4. \A x \in R \ M : Charges[x] = 0
      BY <1>1, <2>1, AllInTime, ColumnsAre
    <2>5. SumFunctionOnSet(Charges, R) = SumFunctionOnSet(Charges, M)
      BY <2>2, <2>3, <2>4, SumWithZeros
    <2> QED BY <2>1, <2>5 DEF MessageCharges, Charges
  <1>9. RevenueOf(Hosts, 0, to)
            = SumFunctionOnSet(Totals, C) + SumFunctionOnSet(Prices, G) + SumFunctionOnSet(Charges, M)
    BY <1>1, RevenueIs DEF Worth
  <1>10. SumFunctionOnSet(f, E) = SumFunctionOnSet(Totals, E)
    <2>1. \A c \in E : f[c] = Totals[c]
      BY <1>1, <1>2 DEF Totals
    <2> QED BY <1>4, <2>1, SameSum
  <1>11. Sum(LAMBDA c : calls[c].total, {c \in DOMAIN calls : calls[c].status # "completed"})
             = SumFunctionOnSet(f, E)
    BY <1>1 DEF Sum
  <1>12. PICK done, rest, gifted, messaged, paid :
             /\ done = SumFunctionOnSet(Totals, C) /\ rest = SumFunctionOnSet(Totals, E)
             /\ gifted = SumFunctionOnSet(Prices, G) /\ messaged = SumFunctionOnSet(Charges, M)
             /\ paid = PaidByAll
    OBVIOUS
  <1>13. done + rest + gifted + messaged + paid = 0
    BY <1>6, <1>7, <1>8, <1>12 DEF SalesBooked
  <1>14. done \in Int /\ rest \in Int /\ gifted \in Int /\ messaged \in Int /\ paid \in Int
    BY <1>4, <1>12, PaidTyped
  <1>15. done + gifted + messaged + rest = -paid
    BY <1>13, <1>14
  <1>16. Amount(UserRows(EarningKinds)) = paid
    BY <1>12, UsersPaid DEF SalesBooked
  <1>17. RevenueOf(Hosts, 0, to) = done + gifted + messaged
    BY <1>9, <1>12
  <1>18. RevenueOf(Hosts, 0, to) + SumFunctionOnSet(f, E) = -Amount(UserRows(EarningKinds))
    BY <1>10, <1>12, <1>15, <1>16, <1>17
  <1> QED BY <1>11, <1>18

\* The beans of what was paid are worth no more than that.
LEMMA CommissionIsNatural ==
    ASSUME SalesTyped, RowsRight, NEW from, NEW to
    PROVE  RevenueOf(Hosts, from, to) - PaisePerBean * BeansOf(from, to) >= 0
  <1>1. PICK C, G, M, f, g, e, p :
            /\ C = CompletedOf(Hosts, from, to) /\ G = GiftsOf(Hosts, from, to)
            /\ M = MessagesOf(Hosts, from, to)
            /\ f = [c \in C |-> calls[c].beans] /\ g = [k \in G |-> gift[k].beans]
            /\ e = [k \in M |-> message[k].beans] /\ p = PaisePerBean
    OBVIOUS
  <1>2. C \in SUBSET DOMAIN calls /\ G \in SUBSET DOMAIN gift /\ M \in SUBSET DOMAIN message
    BY <1>1, RevenueRows
  <1>3. /\ IsFiniteSet(C) /\ IsFiniteSet(G) /\ IsFiniteSet(M)
        /\ SumFunctionOnSet(Totals, C) \in Int /\ SumFunctionOnSet(Prices, G) \in Int
        /\ SumFunctionOnSet(Charges, M) \in Int
    BY <1>2, WorthTyped
  <1>4. C = CompletedIn(from, to) /\ G = GiftsIn(from, to) /\ M = PaidMessagesIn(from, to)
    BY <1>1, ColumnsAre
    DEF CompletedOf, GiftsOf, MessagesOf, CompletedIn, GiftsIn, PaidMessagesIn
  <1>5. BeansOf(from, to)
            = SumFunctionOnSet(f, C) + SumFunctionOnSet(g, G) + SumFunctionOnSet(e, M)
    BY <1>1, <1>4 DEF BeansOf, Sum
  <1>6. p \in Nat \ {0}
    BY <1>1, ConstantTypes
  <1>7. \A c \in C : Totals[c] \in Int /\ f[c] \in Int /\ p * f[c] <= Totals[c]
    <2> SUFFICES ASSUME NEW c \in C
                 PROVE  Totals[c] \in Int /\ f[c] \in Int /\ p * f[c] <= Totals[c]
      OBVIOUS
    <2>1. CallRight(calls[c])
      BY <1>2 DEF RowsRight
    <2>2. f[c] = calls[c].beans /\ calls[c].beans \in Nat /\ Totals[c] = calls[c].total
          /\ Totals[c] \in Nat
      BY <1>1, <1>2, ColumnsAre
    <2> QED BY <1>1, <2>1, <2>2 DEF CallRight
  <1>8. \A k \in G : Prices[k] \in Int /\ g[k] \in Int /\ p * g[k] <= Prices[k]
    <2> SUFFICES ASSUME NEW k \in G
                 PROVE  Prices[k] \in Int /\ g[k] \in Int /\ p * g[k] <= Prices[k]
      OBVIOUS
    <2>1. PICK price, points : price = gift[k].price /\ points = gift[k].points
      OBVIOUS
    <2>2. Priced(price, points) /\ gift[k].beans = BeansFor(price, points)
      BY <1>2, <2>1, SoldTyped DEF Priced
    <2>3. PaisePerBean * BeansFor(price, points) <= price
      BY <2>2, BeansArePaid
    <2>4. g[k] = gift[k].beans /\ gift[k].beans \in Nat /\ Prices[k] = price /\ Prices[k] \in Nat
      BY <1>1, <1>2, <2>1, ColumnsAre
    <2> QED BY <1>1, <2>2, <2>3, <2>4
  <1>9. \A k \in M : Charges[k] \in Int /\ e[k] \in Int /\ p * e[k] <= Charges[k]
    <2> SUFFICES ASSUME NEW k \in M
                 PROVE  Charges[k] \in Int /\ e[k] \in Int /\ p * e[k] <= Charges[k]
      OBVIOUS
    <2>1. MessageRight(message[k])
      BY <1>2 DEF RowsRight
    <2>2. e[k] = message[k].beans /\ message[k].beans \in Nat /\ Charges[k] = message[k].charged
          /\ Charges[k] \in Nat
      BY <1>1, <1>2, ColumnsAre
    <2> QED BY <1>1, <2>1, <2>2 DEF MessageRight
  <1>10. p * SumFunctionOnSet(f, C) <= SumFunctionOnSet(Totals, C) /\ SumFunctionOnSet(f, C) \in Int
    BY <1>3, <1>6, <1>7, SumOfLarger, SumIsInteger
  <1>11. p * SumFunctionOnSet(g, G) <= SumFunctionOnSet(Prices, G) /\ SumFunctionOnSet(g, G) \in Int
    BY <1>3, <1>6, <1>8, SumOfLarger, SumIsInteger
  <1>12. p * SumFunctionOnSet(e, M) <= SumFunctionOnSet(Charges, M) /\ SumFunctionOnSet(e, M) \in Int
    BY <1>3, <1>6, <1>9, SumOfLarger, SumIsInteger
  <1>13. RevenueOf(Hosts, from, to)
             = SumFunctionOnSet(Totals, C) + SumFunctionOnSet(Prices, G) + SumFunctionOnSet(Charges, M)
    BY <1>1, RevenueIs DEF Worth
  <1>14. PICK a, b, c, x, y, z, beans :
             /\ a = SumFunctionOnSet(f, C) /\ b = SumFunctionOnSet(g, G) /\ c = SumFunctionOnSet(e, M)
             /\ x = SumFunctionOnSet(Totals, C) /\ y = SumFunctionOnSet(Prices, G)
             /\ z = SumFunctionOnSet(Charges, M) /\ beans = BeansOf(from, to)
    OBVIOUS
  <1>15. PICK u, v, w : u = p * a /\ v = p * b /\ w = p * c
    OBVIOUS
  <1>16. /\ a \in Int /\ b \in Int /\ c \in Int /\ x \in Int /\ y \in Int /\ z \in Int
         /\ u \in Int /\ v \in Int /\ w \in Int /\ u <= x /\ v <= y /\ w <= z
    BY <1>3, <1>6, <1>10, <1>11, <1>12, <1>14, <1>15
  <1>17. p * beans = u + v + w
    <2>1. beans = a + b + c
      BY <1>5, <1>14
    <2> QED BY <1>6, <1>15, <1>16, <2>1
  <1>18. PICK worth : worth = PaisePerBean * BeansOf(from, to)
    OBVIOUS
  <1>19. worth = u + v + w
    BY <1>1, <1>14, <1>17, <1>18
  <1>20. x + y + z - worth >= 0
    BY <1>16, <1>19
  <1>21. RevenueOf(Hosts, from, to) = x + y + z
    BY <1>13, <1>14
  <1>22. PICK revenue : revenue = RevenueOf(Hosts, from, to)
    OBVIOUS
  <1>23. revenue - worth >= 0
    BY <1>16, <1>19, <1>20, <1>21, <1>22
  <1> QED BY <1>18, <1>22, <1>23

LEMMA RevenuesAgree ==
    ASSUME BooksInv, SalesInv, IsFiniteSet(Users), IsFiniteSet(Hosts)
    PROVE  RevenueIsDebits
  <1>1. /\ SalesTyped /\ RowsRight /\ SalesBooked /\ WalletsTyped /\ now \in Nat
        /\ now \in 0..MaxNow /\ ledger \in Seq(Entries) /\ MaxNow \in Nat
    BY WalletsOfTables, ConstantTypes
    DEF BooksInv, BooksTyped, TablesTyped, SalesInv, WalletsTyped
  <1> DEFINE stats == getDashboardStats(0, MaxNow)
  <1>2. PICK to, s : to = MaxNow + 1 /\ s = [h \in Hosts |-> RevenueOf({h}, 0, to)]
    OBVIOUS
  <1>3. /\ stats.revenue = RevenueOf(Hosts, 0, to)
        /\ stats.commission = RevenueOf(Hosts, 0, to) - PaisePerBean * BeansOf(0, to)
        /\ stats.earners = s
    BY <1>2 DEF getDashboardStats
  <1>4. stats.revenue
            + Sum(LAMBDA c : calls[c].total, {c \in DOMAIN calls : calls[c].status # "completed"})
            = -Amount(UserRows(EarningKinds))
    BY <1>1, <1>2, <1>3, RevenueAndRest
  <1>5. stats.commission >= 0
    BY <1>1, <1>3, CommissionIsNatural
  <1>6. stats.revenue = Sum(LAMBDA h : stats.earners[h], Hosts)
    <2>1. \A h \in Hosts : s[h] = RevenueOf({h}, 0, to)
      BY <1>2
    <2>2. SumFunctionOnSet(s, Hosts) = RevenueOf(Hosts, 0, to)
      BY <1>1, <2>1, RevenueByHost
    <2>3. s = [h \in Hosts |-> stats.earners[h]]
      BY <1>2, <1>3
    <2> QED BY <1>3, <2>2, <2>3 DEF Sum
  <1>7. ASSUME NEW range \in Ranges
        PROVE  LET series == getDashboardInsights(range)
               IN  Sum(LAMBDA day : series[day], DOMAIN series) =
                       getDashboardStats(range[1], DayEnd(range[2]) - 1).revenue
    <2>1. PICK D, g : D = DaysIn(range) /\ g = getDashboardInsights(range)
      OBVIOUS
    <2>2. g = [day \in D |-> RevenueOf(Hosts, day, DayEnd(day))]
      BY <2>1 DEF getDashboardInsights, DaysIn
    <2>3. SumFunctionOnSet(g, D) = RevenueOf(Hosts, range[1], DayEnd(range[2]))
      <3>1. \A d \in D : g[d] = RevenueOf(Hosts, d, DayEnd(d))
        BY <2>2
      <3> QED BY <1>1, <2>1, <3>1, RevenueByDay
    <2>4. getDashboardStats(range[1], DayEnd(range[2]) - 1).revenue
              = RevenueOf(Hosts, range[1], DayEnd(range[2]))
      <3>1. DayEnd(range[2]) \in Int
        BY <1>1, RangeTyped DEF DayEnd
      <3>2. DayEnd(range[2]) - 1 + 1 = DayEnd(range[2])
        BY <3>1
      <3> QED BY <3>2 DEF getDashboardStats
    <2>5. DOMAIN g = D /\ g = [day \in D |-> g[day]]
      BY <2>2
    <2>6. Sum(LAMBDA day : g[day], DOMAIN g) = SumFunctionOnSet(g, D)
      BY <2>5 DEF Sum
    <2> QED BY <2>1, <2>3, <2>4, <2>6
  <1> QED BY <1>4, <1>5, <1>6, <1>7 DEF RevenueIsDebits

\* The ReportsAgree of Reports (earnings.service.ts, dailyStats.service.ts,
\* levels.ts, admin.service.ts, rewards.service.ts): however sales, corrections,
\* withdrawals and rewards interleave, the screens that read the ledger and those
\* that read calls, ticks, gifts and messages show the same figures.
THEOREM ReportsAlwaysAgree ==
    ASSUME IsFiniteSet(Users), IsFiniteSet(Hosts)
    PROVE  RewardsSpec => []ReportsAgree
  <1>1. LedgerInit /\ RewardsInit /\ NoTasks => BooksInv /\ SalesInv
    BY BooksInit, SalesInit
  <1>2. BooksInv /\ SalesInv /\ [RewardsNext]_<<ledgerVars, rewardVars, task>>
            => (BooksInv /\ SalesInv)'
    BY BooksStep, SalesStep
  <1>3. BooksInv /\ SalesInv => ReportsAgree
    <2> SUFFICES ASSUME BooksInv, SalesInv PROVE ReportsAgree
      OBVIOUS
    <2>1. TablesTyped /\ RowsRight
      BY DEF BooksInv, BooksTyped, SalesInv
    <2> QED BY <2>1, HostsAgree, BreakdownsPaid, RevenuesAgree, LevelsAgree, RewardsAgree
            DEF ReportsAgree
  <1> QED BY <1>1, <1>2, <1>3, PTL DEF RewardsSpec

-----------------------------------------------------------------------------
(* The smallest withdrawal the apps announce                                 *)

\* A set of natural numbers has a smallest.
LEMMA SmallestExists ==
    ASSUME NEW S, S \subseteq Nat, S # {}
    PROVE  Min(S) \in S /\ \A y \in S : Min(S) <= y
  <1>1. PICK x \in S : \A y \in S : <<y, x>> \notin OpToRel(<, Nat)
    BY NatLessThanWellFounded, WFMin
  <1>2. \A y \in S : ~(y < x)
    BY <1>1 DEF OpToRel
  <1>3. \A y \in S : x <= y
    BY <1>2
  <1> QED BY <1>3 DEF Min

\* Rounding up: the least number of beans of a rate that are worth an amount.
LEMMA CeilingIs ==
    ASSUME NEW m \in Nat, NEW r \in Nat \ {0}
    PROVE  /\ Ceiling(m, r) \in Nat /\ Ceiling(m, r) * r >= m
           /\ \A b \in Nat : b * r >= m => Ceiling(m, r) <= b
  <1>1. PICK q : q = Ceiling(m, r)
    OBVIOUS
  <1>2. q \in Nat /\ r * q <= m + r - 1 /\ m + r - 1 < r * (q + 1)
    BY <1>1 DEF Ceiling
  <1>3. r * (q + 1) = r * q + r /\ q * r = r * q
    BY <1>2
  <1>4. PICK p : p = r * q /\ p \in Int
    BY <1>2
  <1>5. q * r >= m
    BY <1>2, <1>3, <1>4
  <1>6. ASSUME NEW b \in Nat, b * r >= m PROVE q <= b
    <2> SUFFICES ASSUME b + 1 <= q PROVE FALSE
      BY <1>2
    <2>1. PICK d \in Nat : q = b + 1 + d
      <3>1. q - (b + 1) \in Nat /\ q = b + 1 + (q - (b + 1))
        BY <1>2
      <3> QED BY <3>1
    <2>2. r * q = b * r + r + d * r
      BY <2>1
    <2>3. PICK x, y : x = b * r /\ y = d * r /\ x \in Int /\ y \in Nat
      OBVIOUS
    <2> QED BY <1>2, <1>4, <1>6, <2>2, <2>3
  <1> QED BY <1>1, <1>2, <1>5, <1>6

SlabsTyped == slabs \in Seq(Slabs) /\ minAmount \in Minima

LEMMA SlabTyped ==
    ASSUME SlabsTyped, NEW i \in DOMAIN slabs
    PROVE  /\ slabs[i].min \in Nat \ {0} /\ slabs[i].max \in Nat
           /\ slabs[i].rate \in Nat \ {0} /\ minAmount \in Nat \ {0}
  <1>1. slabs[i] \in Slabs
    BY DEF SlabsTyped
  <1> QED BY <1>1, FigureConstants DEF SlabsTyped, Slabs, NoMax

\* A slab's candidate: of the amounts from its least one on that are worth the
\* policy's minimum at its rate, the least.
LEMMA CandidateIs ==
    ASSUME SlabsTyped, NEW i \in DOMAIN slabs
    PROVE  /\ Candidate(i) \in Nat \ {0} /\ slabs[i].min <= Candidate(i)
           /\ Candidate(i) * slabs[i].rate >= minAmount
           /\ \A b \in Nat \ {0} : slabs[i].min <= b /\ b * slabs[i].rate >= minAmount
                                       => Candidate(i) <= b
  <1>1. PICK n, r, c, m : /\ n = slabs[i].min /\ r = slabs[i].rate /\ m = minAmount
                          /\ c = Ceiling(m, r)
    OBVIOUS
  <1>2. n \in Nat \ {0} /\ r \in Nat \ {0} /\ m \in Nat
    BY <1>1, SlabTyped
  <1>3. c \in Nat /\ c * r >= m /\ \A b \in Nat : b * r >= m => c <= b
    BY <1>1, <1>2, CeilingIs
  <1>4. PICK S, k : S = {1, n, c} /\ k = Max(S)
    OBVIOUS
  <1>5. k \in S /\ \A y \in S : k >= y
    <2>1. IsFiniteSet(S) /\ S \subseteq Int /\ S # {}
      <3>1. IsFiniteSet({1})
        BY FS_Singleton
      <3>2. IsFiniteSet({1} \cup {n})
        BY <3>1, FS_AddElement
      <3>3. IsFiniteSet(({1} \cup {n}) \cup {c})
        BY <3>2, FS_AddElement
      <3>4. S = ({1} \cup {n}) \cup {c}
        BY <1>4
      <3> QED BY <1>2, <1>3, <1>4, <3>3, <3>4
    <2> QED BY <1>4, <2>1, LargestExists
  <1>6. k \in Nat \ {0} /\ n <= k /\ c <= k
    BY <1>2, <1>3, <1>4, <1>5
  <1>7. k * r >= m
    <2>1. PICK d \in Nat : k = c + d
      <3>1. k - c \in Nat /\ k = c + (k - c)
        BY <1>3, <1>6
      <3> QED BY <3>1
    <2>2. k * r = c * r + d * r
      BY <1>2, <1>3, <2>1
    <2>3. PICK x, y : x = c * r /\ y = d * r /\ x \in Nat /\ y \in Nat
      BY <1>2, <1>3
    <2> QED BY <1>2, <1>3, <2>2, <2>3
  <1>8. ASSUME NEW b \in Nat \ {0}, n <= b, b * r >= m PROVE k <= b
    BY <1>3, <1>4, <1>5, <1>8
  <1>9. Candidate(i) = k
    BY <1>1, <1>4 DEF Candidate
  <1> QED BY <1>1, <1>6, <1>7, <1>8, <1>9

\* The newest slab that covers an amount.
LEMMA SlabForIs ==
    ASSUME SlabsTyped, NEW beans, Covering(beans) # {}
    PROVE  /\ Min(Covering(beans)) \in Covering(beans)
           /\ \A j \in Covering(beans) : Min(Covering(beans)) <= j
  <1>1. Covering(beans) \subseteq Nat
    BY DEF Covering, SlabsTyped
  <1> QED BY <1>1, SmallestExists

\* Where no two slabs of some cover an amount, one that does is the only one.
LEMMA OnlyOne ==
    ASSUME SlabsTyped, NEW n \in Nat, NEW beans, Applying(n, beans) <= 1,
           NEW i \in 1..n, NEW j \in 1..n, Covers(slabs[i], beans), Covers(slabs[j], beans)
    PROVE  i = j
  <1>1. PICK S : S = {k \in 1..n : Covers(slabs[k], beans)}
    OBVIOUS
  <1>2. IsFiniteSet(S) /\ Cardinality(S) <= 1
    <2>1. IsFiniteSet(1..n) /\ S \subseteq 1..n
      BY <1>1, FS_Interval
    <2> QED BY <1>1, <2>1, FS_Subset DEF Applying
  <1>3. i \in S /\ j \in S
    BY <1>1
  <1> SUFFICES ASSUME i # j PROVE FALSE
    OBVIOUS
  <1>4. IsFiniteSet({i, j}) /\ Cardinality({i, j}) = 2
    <2>1. IsFiniteSet({i}) /\ Cardinality({i}) = 1
      BY FS_Singleton
    <2>2. IsFiniteSet({i} \cup {j}) /\ Cardinality({i} \cup {j}) = Cardinality({i}) + 1
      BY <2>1, FS_AddElement
    <2>3. {i} \cup {j} = {i, j}
      OBVIOUS
    <2> QED BY <2>1, <2>2, <2>3
  <1>5. {i, j} \subseteq S
    BY <1>3
  <1>6. Cardinality({i, j}) <= Cardinality(S) /\ Cardinality(S) \in Nat
    BY <1>2, <1>5, FS_Subset, FS_CardinalityType
  <1> QED BY <1>2, <1>4, <1>6

\* A slab that pays an accepted amount pays its own candidate too, if among the
\* first slabs, of which it is one, no two cover one amount.
LEMMA CandidateAccepted ==
    ASSUME SlabsTyped, IsFiniteSet(Bounds \cup Minima), NEW n \in 0..Len(slabs),
           \A beans \in Amounts : Applying(n, beans) <= 1,
           NEW b \in Amounts, Accepts(b), Min(Covering(b)) \in 1..n
    PROVE  \E c \in Candidates : c <= b
  <1>1. PICK i : i = Min(Covering(b))
    OBVIOUS
  <1>2. i \in Covering(b) /\ i \in 1..n /\ b * slabs[i].rate >= minAmount
    BY <1>1, SlabForIs DEF Accepts, slabFor
  <1>3. i \in DOMAIN slabs /\ Covers(slabs[i], b)
    BY <1>2 DEF Covering
  <1>4. PICK M : M = Max(Bounds \cup Minima) /\ M \in Nat
    <2>1. Bounds \cup Minima \subseteq Nat /\ Bounds \cup Minima # {}
      BY FigureConstants DEF SlabsTyped
    <2>2. PICK S : S = Bounds \cup Minima
      OBVIOUS
    <2>3. Max(S) \in S
      BY <2>1, <2>2, LargestExists
    <2> QED BY <2>1, <2>2, <2>3
  <1>5. b \in Nat \ {0} /\ b <= M
    BY <1>4 DEF Amounts
  <1>6. PICK c : c = Candidate(i)
    OBVIOUS
  <1>7. /\ slabs[i].min \in Nat /\ slabs[i].max \in Nat /\ slabs[i].min <= b
        /\ slabs[i].max = NoMax \/ b <= slabs[i].max
    BY <1>3, SlabTyped DEF Covers
  <1>8. /\ c \in Nat \ {0} /\ slabs[i].min <= c /\ c * slabs[i].rate >= minAmount
        /\ c <= b
    BY <1>2, <1>3, <1>5, <1>6, <1>7, CandidateIs
  <1>9. Covers(slabs[i], c)
    BY <1>5, <1>7, <1>8 DEF Covers
  <1>10. c \in Amounts
    BY <1>4, <1>5, <1>8 DEF Amounts
  <1>11. Min(Covering(c)) = i
    <2>1. i \in Covering(c)
      BY <1>3, <1>9 DEF Covering
    <2>2. PICK j : j = Min(Covering(c))
      OBVIOUS
    <2>3. j \in Covering(c) /\ j <= i
      BY <2>1, <2>2, SlabForIs
    <2>4. j \in DOMAIN slabs /\ Covers(slabs[j], c)
      BY <2>3 DEF Covering
    <2>5. j \in 1..n
      BY <1>2, <2>3, <2>4 DEF SlabsTyped
    <2> QED BY <1>2, <1>9, <1>10, <2>2, <2>4, <2>5, OnlyOne
  <1>12. Accepts(c)
    BY <1>3, <1>8, <1>9, <1>11 DEF Accepts, Covering, slabFor
  <1>13. c \in Candidates
    BY <1>3, <1>6, <1>9, <1>12 DEF Candidates
  <1> QED BY <1>8, <1>13

\* The MinimumIsLeast of Figures (getMinimumWithdrawalBeans of
\* withdrawal.service.ts), for any slabs and policy: what the apps announce is an
\* amount that requestWithdrawal accepts and, unless overlapping slabs hide one
\* another, the least such amount.
THEOREM MinimumAnnounced ==
    ASSUME IsFiniteSet(Bounds \cup Minima), slabs \in Seq(Slabs), minAmount \in Minima
    PROVE  MinimumIsLeast
  <1> SlabsTyped
    BY DEF SlabsTyped
  <1>1. PICK least : least = getMinimumWithdrawalBeans
    OBVIOUS
  <1>2. Candidates \subseteq Nat \ {0}
    BY CandidateIs DEF Candidates
  <1>3. ASSUME Candidates # {}
        PROVE  least \in Candidates /\ \A c \in Candidates : least <= c
    <2>1. least = Min(Candidates) /\ Candidates \subseteq Nat
      BY <1>1, <1>2, <1>3 DEF getMinimumWithdrawalBeans
    <2> QED BY <1>3, <2>1, SmallestExists
  <1>4. least # None => Accepts(least)
    <2> SUFFICES ASSUME least # None PROVE Accepts(least)
      OBVIOUS
    <2>1. Candidates # {}
      BY <1>1 DEF getMinimumWithdrawalBeans
    <2> QED BY <1>3, <2>1 DEF Candidates
  <1>5. ASSUME NEW b \in Amounts, Accepts(b), NEW c \in Candidates, c <= b
        PROVE  least # None /\ least <= b
    <2>1. least \in Candidates /\ least <= c
      BY <1>3, <1>5
    <2>2. b \in Int
      BY DEF Amounts
    <2> QED BY <1>2, <1>5, <2>1, <2>2 DEF None
  <1>6. ASSUME \A beans \in Amounts : Applying(Len(slabs), beans) <= 1,
               NEW b \in Amounts, Accepts(b)
        PROVE  \E c \in Candidates : c <= b
    <2>1. Min(Covering(b)) \in DOMAIN slabs
      BY <1>6, SlabForIs DEF Accepts, Covering
    <2>2. Min(Covering(b)) \in 1..Len(slabs) /\ Len(slabs) \in 0..Len(slabs)
      BY <2>1 DEF SlabsTyped
    <2> QED BY <1>6, <2>2, CandidateAccepted
  <1>7. ASSUME NEW n \in DOMAIN slabs, \A beans \in Amounts : Applying(n, beans) = 1,
               NEW b \in Amounts, Accepts(b)
        PROVE  \E c \in Candidates : c <= b
    <2>1. n \in 0..Len(slabs) /\ n \in Nat /\ DOMAIN slabs = 1..Len(slabs) /\ Len(slabs) \in Nat
      BY DEF SlabsTyped
    <2>2. PICK i \in 1..n : Covers(slabs[i], b)
      <3>1. PICK S : S = {i \in 1..n : Covers(slabs[i], b)}
        OBVIOUS
      <3>2. Cardinality(S) = 1
        BY <1>7, <3>1 DEF Applying
      <3>3. S # {}
        <4>1. Cardinality({}) = 0
          BY FS_EmptySet
        <4>2. S = {} => Cardinality(S) = Cardinality({})
          OBVIOUS
        <4> QED BY <3>2, <4>1, <4>2
      <3> QED BY <3>1, <3>3
    <2>3. i \in Covering(b)
      BY <2>1, <2>2 DEF Covering
    <2>4. Min(Covering(b)) \in DOMAIN slabs /\ Min(Covering(b)) <= i
      BY <2>3, SlabForIs DEF Covering
    <2>5. Min(Covering(b)) \in 1..n
      BY <2>1, <2>2, <2>4
    <2>6. \A beans \in Amounts : Applying(n, beans) <= 1
      BY <1>7
    <2> QED BY <1>7, <2>1, <2>5, <2>6, CandidateAccepted
  <1> QED BY <1>1, <1>4, <1>5, <1>6, <1>7 DEF MinimumIsLeast
=============================================================================
