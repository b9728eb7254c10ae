------------------------ MODULE Conversations_proofs ------------------------
(***************************************************************************)
(* What holds of chat for any finite number of users and hosts, and of the *)
(* support bot for any tickets, limits and bounds: what is stored is paid  *)
(* for, accepted requests were gifts, and the bot keeps its place.         *)
(***************************************************************************)
EXTENDS Chat, Support, Sums

-----------------------------------------------------------------------------
(* Chat: what a handler in flight is *)

ChatTask ==
    {Idle}
    \cup [at : {"findConversation", "insertConversation", "verify", "report", "paid",
                "free", "gift"},
          pair : Pairs, what : {"paid", "free", "gift", "upload"}, photo : BOOLEAN]
    \cup [at : {"gift"}, pair : Pairs, chat : BOOLEAN]
    \cup [at : {"latestRequest"}, pair : Pairs, answer : {"accepted", "declined"}]
    \cup [at : {"respond"}, pair : Pairs, row : Nat, answer : {"accepted", "declined"}]

\* What it knows of what it handles.
ChatSound(x) ==
    /\ x.at = "verify" => x.what # "upload"
    /\ x.at = "respond" => x.row \in DOMAIN request[x.pair]

ChatRows ==
    /\ conversation \subseteq Pairs /\ blocked \subseteq Pairs \X Sides
    /\ message \in [Pairs -> [MessageKinds -> Nat]]
    /\ gift \in [Pairs -> Nat]
    /\ request \in [Pairs -> Seq({"pending", "accepted", "declined"})]
    /\ balance \in [Users -> Nat] /\ beans \in [Hosts -> Nat]

\* The gifts that are still to answer a request of the pair.
Accepts(x, p) == x.at \in {"latestRequest", "respond"} /\ x.pair = p /\ x.answer = "accepted"
Accepting(p) == {t \in Tasks : Accepts(task[t], p)}
Accepted(p) == {i \in DOMAIN request[p] : request[p][i] = "accepted"}
GiftsAnswer(p) ==
    /\ IsFiniteSet(Accepting(p))
    /\ Cardinality(Accepted(p)) + Cardinality(Accepting(p)) <= gift[p]

\* Both sides of every pair's account.
Spent(u) == [h \in Hosts |-> Worth(<<u, h>>)]
Income(h) == [u \in Users |-> Earned(<<u, h>>)]
Books ==
    /\ \A u \in Users : balance[u] + SumFunctionOnSet(Spent(u), Hosts) = InitialBalance
    /\ \A h \in Hosts : beans[h] = SumFunctionOnSet(Income(h), Users)

ChatInv ==
    /\ task \in [Tasks -> ChatTask] /\ ChatRows
    /\ \A t \in Tasks : ChatSound(task[t])
    /\ \A p \in Pairs : GiftsAnswer(p)

LEMMA ChatTaskKinds ==
    ASSUME NEW x \in ChatTask
    PROVE  /\ x.at # "idle" => x.pair \in Pairs
           /\ x.at = "idle" => x = Idle
           /\ x.at \in {"findConversation", "insertConversation", "verify", "report",
                        "paid", "free"}
                  => x \in [at : {"findConversation", "insertConversation", "verify",
                                  "report", "paid", "free", "gift"}, pair : Pairs,
                            what : {"paid", "free", "gift", "upload"}, photo : BOOLEAN]
           /\ x.at = "latestRequest"
                  => x \in [at : {"latestRequest"}, pair : Pairs,
                            answer : {"accepted", "declined"}]
           /\ x.at = "respond"
                  => x \in [at : {"respond"}, pair : Pairs, row : Nat,
                            answer : {"accepted", "declined"}]
  BY DEF ChatTask, Idle

LEMMA ChatIdle == Idle \in ChatTask /\ Idle.at = "idle" /\ ChatSound(Idle)
  BY DEF ChatTask, Idle, ChatSound

\* Commission and rounding never make a price negative.
LEMMA BeansForIsNatural ==
    ASSUME NEW price \in Nat
    PROVE  BeansFor(price) \in Nat
  <1> DEFINE cut == (price * CommissionBasisPoints) \div 10000
             net == price - cut
  <1>1. CommissionBasisPoints \in 0..10000 /\ PaisePerBean \in Nat \ {0}
    BY ChatConstants
  <1>2. /\ price * CommissionBasisPoints \in Nat
        /\ price * CommissionBasisPoints <= price * 10000
    BY <1>1
  <1>3. cut \in Nat /\ cut <= price
    <2> DEFINE m == price * CommissionBasisPoints
    <2>1. m \in Nat /\ m <= price * 10000
      BY <1>2
    <2> HIDE DEF m
    <2>2. m \div 10000 \in Nat /\ m \div 10000 <= price
      BY <2>1
    <2> QED BY <2>2 DEF m
  <1> HIDE DEF cut
  <1>4. net \in Nat
    BY <1>3
  <1> HIDE DEF net
  <1>5. net \div PaisePerBean \in Nat
    BY <1>1, <1>4
  <1> QED BY <1>5 DEF BeansFor, net, cut

-----------------------------------------------------------------------------
(* Chat: handlers move on *)

LEMMA ChatMoves ==
    ASSUME ChatInv, NEW t \in Tasks, NEW x \in ChatTask, task' = [task EXCEPT ![t] = x],
           ChatSound(x)',
           \A p \in Pairs : DOMAIN request[p] \subseteq DOMAIN request'[p]
    PROVE  /\ task' \in [Tasks -> ChatTask] /\ \A s \in Tasks : ChatSound(task[s])'
           /\ \A p \in Pairs : Accepting(p)' = IF Accepts(x, p) THEN Accepting(p) \cup {t}
                                              ELSE Accepting(p) \ {t}
  <1>1. task' \in [Tasks -> ChatTask] /\ task'[t] = x
    BY DEF ChatInv
  <1>2. \A s \in Tasks : s # t => task'[s] = task[s]
    BY DEF ChatInv
  <1>3. ASSUME NEW s \in Tasks, s # t PROVE ChatSound(task[s])'
    <2>1. task'[s] = task[s] /\ task[s] \in ChatTask /\ ChatSound(task[s])
      BY <1>2, <1>3 DEF ChatInv
    <2>2. task[s].at = "respond" => task[s].pair \in Pairs
      BY <2>1, ChatTaskKinds
    <2> QED BY <2>1, <2>2 DEF ChatSound
  <1>4. ChatSound(task[t])'
    BY <1>1 DEF ChatSound
  <1>5. ASSUME NEW p \in Pairs
        PROVE  Accepting(p)' = IF Accepts(x, p) THEN Accepting(p) \cup {t}
                               ELSE Accepting(p) \ {t}
    BY <1>1, <1>2 DEF Accepting, Accepts
  <1> QED BY <1>1, <1>3, <1>4, <1>5

LEMMA AcceptedFinite ==
    ASSUME ChatRows, NEW p \in Pairs
    PROVE  IsFiniteSet(Accepted(p)) /\ Cardinality(Accepted(p)) \in Nat
  <1>1. Len(request[p]) \in Nat /\ DOMAIN request[p] = 1..Len(request[p])
    BY DEF ChatRows
  <1>2. IsFiniteSet(1..Len(request[p]))
    BY <1>1, FS_Interval
  <1>3. Accepted(p) \subseteq 1..Len(request[p])
    BY <1>1 DEF Accepted
  <1> QED BY <1>2, <1>3, FS_Subset, FS_CardinalityType

\* Nothing to answer is added, and no answer.
LEMMA StillAnswered ==
    ASSUME ChatRows, NEW p \in Pairs, GiftsAnswer(p), gift'[p] \in Nat,
           gift'[p] >= gift[p], Accepting(p)' \subseteq Accepting(p),
           Accepted(p)' \subseteq Accepted(p)
    PROVE  GiftsAnswer(p)'
  <1>1. /\ IsFiniteSet(Accepting(p)') /\ Cardinality(Accepting(p)') \in Nat
        /\ Cardinality(Accepting(p)) \in Nat
        /\ Cardinality(Accepting(p)') <= Cardinality(Accepting(p))
    BY FS_Subset, FS_CardinalityType DEF GiftsAnswer
  <1>2. /\ Cardinality(Accepted(p)') \in Nat /\ Cardinality(Accepted(p)) \in Nat
        /\ Cardinality(Accepted(p)') <= Cardinality(Accepted(p))
    BY AcceptedFinite, FS_Subset, FS_CardinalityType
  <1>3. gift[p] \in Nat
    BY DEF ChatRows
  <1> QED BY <1>1, <1>2, <1>3 DEF GiftsAnswer

\* A handler reads, and goes on with no gift to answer.
LEMMA ChatReads ==
    ASSUME ChatInv, NEW t \in Tasks, NEW x \in ChatTask, task' = [task EXCEPT ![t] = x],
           ChatSound(x), UNCHANGED <<request, gift>>, ChatRows',
           \A p \in Pairs : Accepts(x, p) => Accepts(task[t], p)
    PROVE  ChatInv'
  <1>1. ChatSound(x)'
    BY DEF ChatSound
  <1>2. /\ task' \in [Tasks -> ChatTask] /\ \A s \in Tasks : ChatSound(task[s])'
        /\ \A p \in Pairs : Accepting(p)' = IF Accepts(x, p) THEN Accepting(p) \cup {t}
                                           ELSE Accepting(p) \ {t}
    BY <1>1, ChatMoves
  <1>3. ASSUME NEW p \in Pairs PROVE GiftsAnswer(p)'
    <2>1. Accepting(p)' \subseteq Accepting(p)
      BY <1>2 DEF Accepting
    <2>2. Accepted(p)' = Accepted(p)
      BY DEF Accepted
    <2>3. gift'[p] \in Nat /\ gift'[p] >= gift[p]
      BY DEF ChatInv, ChatRows
    <2> QED BY <2>1, <2>2, <2>3, StillAnswered DEF ChatInv
  <1> QED BY <1>2, <1>3 DEF ChatInv

\* Such a handler may also have stored or paid for something.
LEMMA ChatStops ==
    ASSUME ChatInv, NEW t \in Tasks, Done(t), UNCHANGED <<request, gift>>, ChatRows'
    PROVE  ChatInv'
  <1>1. \A p \in Pairs : ~Accepts(Idle, p)
    BY ChatIdle DEF Accepts
  <1> QED BY <1>1, ChatIdle, ChatReads DEF Done, Goto

LEMMA SameRows ==
    ASSUME ChatRows, UNCHANGED chatVars
    PROVE  ChatRows' /\ UNCHANGED <<request, gift>>
  BY DEF ChatRows, chatVars, talk, money

LEMMA FindOrCreateKeeps ==
    ASSUME ChatInv, NEW t \in Tasks, NEW p \in Pairs,
           NEW what \in {"paid", "free", "gift", "upload"}, NEW photo \in BOOLEAN,
           findOrCreateConversation(t, p, what, photo)
    PROVE  ChatInv'
  <1>1. PICK x : x = [at |-> "findConversation", pair |-> p, what |-> what, photo |-> photo]
    OBVIOUS
  <1>2. x \in ChatTask /\ x.at = "findConversation"
    BY <1>1 DEF ChatTask
  <1>3. ChatSound(x) /\ \A q \in Pairs : ~Accepts(x, q)
    BY <1>2 DEF ChatSound, Accepts
  <1>4. task' = [task EXCEPT ![t] = x]
    BY <1>1 DEF findOrCreateConversation, Start
  <1>5. ChatRows' /\ UNCHANGED <<request, gift>>
    BY SameRows DEF findOrCreateConversation, ChatInv
  <1> QED BY <1>2, <1>3, <1>4, <1>5, ChatReads

LEMMA SendGiftKeeps ==
    ASSUME ChatInv, NEW t \in Tasks, NEW p \in Pairs, NEW chat \in BOOLEAN,
           sendGift(t, p, chat)
    PROVE  ChatInv'
  <1>1. CASE chat
    BY <1>1, FindOrCreateKeeps DEF sendGift
  <1>2. CASE ~chat
    <2>1. PICK x : x = [at |-> "gift", pair |-> p, chat |-> FALSE]
      OBVIOUS
    <2>2. x \in ChatTask /\ x.at = "gift"
      BY <2>1 DEF ChatTask
    <2>3. ChatSound(x) /\ \A q \in Pairs : ~Accepts(x, q)
      BY <2>2 DEF ChatSound, Accepts
    <2>4. task' = [task EXCEPT ![t] = x]
      BY <1>2, <2>1 DEF sendGift, Start
    <2>5. ChatRows' /\ UNCHANGED <<request, gift>>
      BY <1>2, SameRows DEF sendGift, ChatInv
    <2> QED BY <2>2, <2>3, <2>4, <2>5, ChatReads
  <1> QED BY <1>1, <1>2

LEMMA DeclineKeeps ==
    ASSUME ChatInv, NEW t \in Tasks, NEW p \in Pairs, markGiftRequestDeclined(t, p)
    PROVE  ChatInv'
  <1>1. PICK x : x = [at |-> "latestRequest", pair |-> p, answer |-> "declined"]
    OBVIOUS
  <1>2. x \in ChatTask /\ x.at = "latestRequest" /\ x.answer = "declined"
    BY <1>1 DEF ChatTask
  <1>3. ChatSound(x) /\ \A q \in Pairs : ~Accepts(x, q)
    BY <1>2 DEF ChatSound, Accepts
  <1>4. task' = [task EXCEPT ![t] = x]
    BY <1>1 DEF markGiftRequestDeclined, Start
  <1>5. ChatRows' /\ UNCHANGED <<request, gift>>
    BY SameRows DEF markGiftRequestDeclined, ChatInv
  <1> QED BY <1>2, <1>3, <1>4, <1>5, ChatReads

\* The handlers that send something, and what the next step makes of one.
Sending(x) == x.at \in {"findConversation", "insertConversation", "verify", "report",
                        "paid", "free"}

LEMMA SendingSteps ==
    ASSUME ChatInv, NEW t \in Tasks, Sending(task[t]),
           NEW step \in {"insertConversation", "verify", "report", "paid", "free", "gift"},
           step = "verify" => task[t].what # "upload",
           Step(t, step), UNCHANGED <<request, gift>>, ChatRows'
    PROVE  ChatInv'
  <1>1. PICK x : x = [task[t] EXCEPT !.at = step]
    OBVIOUS
  <1>2. task[t] \in [at : {"findConversation", "insertConversation", "verify", "report",
                           "paid", "free", "gift"}, pair : Pairs,
                     what : {"paid", "free", "gift", "upload"}, photo : BOOLEAN]
    BY ChatTaskKinds DEF ChatInv, Sending
  <1>3. /\ x.at = step /\ x.what = task[t].what
        /\ x \in [at : {"findConversation", "insertConversation", "verify", "report",
                        "paid", "free", "gift"}, pair : Pairs,
                  what : {"paid", "free", "gift", "upload"}, photo : BOOLEAN]
    BY <1>1, <1>2
  <1>4. x \in ChatTask
    BY <1>3, Zenon DEF ChatTask
  <1>5. ChatSound(x) /\ \A q \in Pairs : ~Accepts(x, q)
    BY <1>3 DEF ChatSound, Accepts
  <1>6. task' = [task EXCEPT ![t] = x]
    BY <1>1 DEF Step
  <1> QED BY <1>4, <1>5, <1>6, ChatReads

LEMMA InConversationKeeps ==
    ASSUME ChatInv, NEW t \in Tasks, Sending(task[t]), InConversation(t),
           UNCHANGED <<request, gift>>, ChatRows'
    PROVE  ChatInv'
  <1>1. task[t].what \in {"paid", "free", "gift", "upload"}
    BY ChatTaskKinds DEF ChatInv, Sending
  <1>2. CASE task[t].what = "upload"
    BY <1>2, ChatStops DEF InConversation
  <1>3. CASE task[t].what # "upload"
    BY <1>1, <1>3, SendingSteps DEF InConversation
  <1> QED BY <1>2, <1>3

LEMMA FindConversationKeeps ==
    ASSUME ChatInv, NEW t \in Tasks, FindConversation(t)
    PROVE  ChatInv'
  <1>1. Sending(task[t])
    BY DEF FindConversation, At, Sending
  <1>2. ChatRows' /\ UNCHANGED <<request, gift>>
    BY SameRows DEF FindConversation, ChatInv
  <1> QED BY <1>1, <1>2, InConversationKeeps, SendingSteps DEF FindConversation

LEMMA InsertConversationKeeps ==
    ASSUME ChatInv, NEW t \in Tasks, InsertConversation(t)
    PROVE  ChatInv'
  <1>1. Sending(task[t]) /\ task[t].pair \in Pairs
    BY ChatTaskKinds DEF InsertConversation, At, Sending, ChatInv
  <1>2. ChatRows' /\ UNCHANGED <<request, gift>>
    BY <1>1 DEF InsertConversation, ChatInv, ChatRows, money
  <1> QED BY <1>1, <1>2, InConversationKeeps, ChatStops DEF InsertConversation

LEMMA VerifyKeeps ==
    ASSUME ChatInv, NEW t \in Tasks, verifyChatImage(t)
    PROVE  ChatInv'
  <1>1. Sending(task[t]) /\ task[t].what \in {"paid", "free", "gift"}
    <2>1. Sending(task[t]) /\ task[t].what # "upload"
      BY DEF verifyChatImage, At, Sending, ChatInv, ChatSound
    <2>2. task[t].what \in {"paid", "free", "gift", "upload"}
      BY <2>1, ChatTaskKinds DEF ChatInv, Sending
    <2> QED BY <2>1, <2>2
  <1>2. ChatRows' /\ UNCHANGED <<request, gift>>
    BY SameRows DEF verifyChatImage, ChatInv
  <1> QED BY <1>1, <1>2, SendingSteps, ChatStops DEF verifyChatImage

LEMMA ReportPhotoKeeps ==
    ASSUME ChatInv, NEW t \in Tasks, ReportPhoto(t)
    PROVE  ChatInv'
  <1>1. ChatRows' /\ UNCHANGED <<request, gift>>
    BY DEF ReportPhoto, ChatInv, ChatRows, talk, money
  <1> QED BY <1>1, ChatStops DEF ReportPhoto

\* What a transfer of an affordable price does to the wallets.
LEMMA TransferTyped ==
    ASSUME ChatRows, NEW p \in Pairs, NEW price \in Nat,
           balance[p[1]] >= price, transferUserToHost(p, price)
    PROVE  balance' \in [Users -> Nat] /\ beans' \in [Hosts -> Nat]
  <1>1. p[1] \in Users /\ p[2] \in Hosts
    BY DEF Pairs
  <1>2. BeansFor(price) \in Nat
    BY BeansForIsNatural
  <1>3. balance[p[1]] - price \in Nat
    BY <1>1 DEF ChatRows
  <1> QED BY <1>1, <1>2, <1>3 DEF ChatRows, transferUserToHost

LEMMA StoreTyped ==
    ASSUME ChatRows, NEW p \in Pairs, NEW kind \in MessageKinds, Store(p, kind)
    PROVE  /\ message' \in [Pairs -> [MessageKinds -> Nat]]
           /\ \A q \in Pairs : message'[q]["paid"] =
                 IF q = p /\ kind = "paid" THEN message[q]["paid"] + 1
                 ELSE message[q]["paid"]
  <1>1. message[p][kind] + 1 \in Nat
    BY DEF ChatRows
  <1>2. PICK row : row = [message[p] EXCEPT ![kind] = message[p][kind] + 1]
    OBVIOUS
  <1>3. /\ row \in [MessageKinds -> Nat]
        /\ row["paid"] = IF kind = "paid" THEN message[p]["paid"] + 1
                         ELSE message[p]["paid"]
    BY <1>1, <1>2 DEF ChatRows, MessageKinds
  <1>4. message' = [message EXCEPT ![p] = row]
    BY <1>2 DEF Store
  <1> QED BY <1>3, <1>4 DEF ChatRows

LEMMA SendPaidKeeps ==
    ASSUME ChatInv, NEW t \in Tasks, sendPaidUserMessage(t)
    PROVE  ChatInv'
  <1>1. task[t].pair \in Pairs /\ "paid" \in MessageKinds /\ MessageRate \in Nat
    BY ChatTaskKinds, ChatConstants DEF sendPaidUserMessage, At, ChatInv, MessageKinds
  <1>2. UNCHANGED <<conversation, gift, blocked, request>> /\ ChatRows
    BY DEF sendPaidUserMessage, ChatInv
  <1>3. ChatRows'
    <2>1. CASE balance[task[t].pair[1]] >= MessageRate
      <3>1. /\ Store(task[t].pair, "paid")
            /\ transferUserToHost(task[t].pair, MessageRate)
        BY <2>1 DEF sendPaidUserMessage
      <3>2. message' \in [Pairs -> [MessageKinds -> Nat]]
        BY <1>1, <1>2, <3>1, StoreTyped
      <3>3. balance' \in [Users -> Nat] /\ beans' \in [Hosts -> Nat]
        BY <1>1, <1>2, <2>1, <3>1, TransferTyped
      <3> QED BY <1>2, <3>2, <3>3 DEF ChatRows
    <2>2. CASE ~(balance[task[t].pair[1]] >= MessageRate)
      BY <1>2, <2>2 DEF sendPaidUserMessage, ChatRows
    <2> QED BY <2>1, <2>2
  <1> QED BY <1>2, <1>3, ChatStops DEF sendPaidUserMessage

LEMMA SendMessageKeeps ==
    ASSUME ChatInv, NEW t \in Tasks, sendMessage(t)
    PROVE  ChatInv'
  <1>1. task[t].pair \in Pairs /\ "free" \in MessageKinds
    BY ChatTaskKinds DEF sendMessage, At, ChatInv, MessageKinds
  <1>2. message' \in [Pairs -> [MessageKinds -> Nat]]
    BY <1>1, StoreTyped DEF sendMessage, ChatInv
  <1>3. ChatRows' /\ UNCHANGED <<request, gift>>
    BY <1>2 DEF sendMessage, ChatInv, ChatRows, money
  <1> QED BY <1>3, ChatStops DEF sendMessage

\* The gift that is paid for is one more than those that answered, and goes on to
\* answer a request.
LEMMA GiftKeeps ==
    ASSUME ChatInv, NEW t \in Tasks, GiftTransaction(t)
    PROVE  ChatInv'
  <1>1. /\ task[t].pair \in Pairs /\ "gift" \in MessageKinds /\ GiftPrice \in Nat
        /\ task[t].at = "gift"
    BY ChatTaskKinds, ChatConstants DEF GiftTransaction, At, ChatInv, MessageKinds
  <1>2. UNCHANGED <<conversation, blocked, request>> /\ ChatRows
    BY DEF GiftTransaction, ChatInv
  <1>3. CASE ~(balance[task[t].pair[1]] >= GiftPrice)
    <2>1. ChatRows' /\ UNCHANGED <<request, gift>> /\ Done(t)
      BY <1>2, <1>3 DEF GiftTransaction, money, ChatRows
    <2> QED BY <2>1, ChatStops
  <1>4. CASE balance[task[t].pair[1]] >= GiftPrice
    <2>1. PICK x : x = [at |-> "latestRequest", pair |-> task[t].pair,
                        answer |-> "accepted"]
      OBVIOUS
    <2>0. PICK p \in Pairs : p = task[t].pair
      BY <1>1
    <2>2. /\ x \in ChatTask /\ x.at = "latestRequest" /\ x.pair = p
          /\ x.answer = "accepted"
      BY <2>0, <2>1 DEF ChatTask
    <2>3. task' = [task EXCEPT ![t] = x]
      BY <1>4, <2>0, <2>1 DEF GiftTransaction, Answering, Goto
    <2>4. ChatSound(x)' /\ ~Accepts(task[t], p)
      BY <1>1, <2>2 DEF ChatSound, Accepts
    <2>5. /\ gift' = [gift EXCEPT ![p] = @ + 1]
          /\ transferUserToHost(p, GiftPrice)
          /\ Store(p, "gift") \/ UNCHANGED message
      BY <1>4, <2>0 DEF GiftTransaction
    <2>6. ChatRows'
      <3>1. message' \in [Pairs -> [MessageKinds -> Nat]]
        BY <1>1, <1>2, <2>5, StoreTyped DEF ChatRows
      <3>2. balance' \in [Users -> Nat] /\ beans' \in [Hosts -> Nat]
        BY <1>1, <1>2, <1>4, <2>0, <2>5, TransferTyped
      <3>3. gift' \in [Pairs -> Nat]
        BY <1>2, <2>5 DEF ChatRows
      <3> QED BY <1>2, <3>1, <3>2, <3>3 DEF ChatRows
    <2>7. /\ task' \in [Tasks -> ChatTask] /\ \A s \in Tasks : ChatSound(task[s])'
          /\ \A q \in Pairs : Accepting(q)' = IF Accepts(x, q) THEN Accepting(q) \cup {t}
                                             ELSE Accepting(q) \ {t}
      <3>1. \A q \in Pairs : DOMAIN request[q] \subseteq DOMAIN request'[q]
        BY <1>2
      <3> QED BY <2>2, <2>3, <2>4, <3>1, ChatMoves
    <2>8. ASSUME NEW q \in Pairs, q # p PROVE GiftsAnswer(q)'
      <3>1. Accepting(q)' \subseteq Accepting(q)
        BY <2>2, <2>7, <2>8 DEF Accepts
      <3>2. Accepted(q)' = Accepted(q)
        BY <1>2 DEF Accepted
      <3>3. gift'[q] \in Nat /\ gift'[q] >= gift[q]
        BY <1>2, <2>5, <2>8 DEF ChatRows
      <3> QED BY <1>2, <3>1, <3>2, <3>3, StillAnswered DEF ChatInv
    <2>9. GiftsAnswer(p)'
      <3>1. Accepting(p)' = Accepting(p) \cup {t} /\ t \notin Accepting(p)
        BY <2>2, <2>4, <2>7 DEF Accepts, Accepting
      <3>2. IsFiniteSet(Accepting(p)) /\ Cardinality(Accepting(p)) \in Nat
        BY FS_CardinalityType DEF ChatInv, GiftsAnswer
      <3>3. /\ IsFiniteSet(Accepting(p)')
            /\ Cardinality(Accepting(p)') = Cardinality(Accepting(p)) + 1
        BY <3>1, <3>2, FS_AddElement
      <3>4. Accepted(p)' = Accepted(p) /\ Cardinality(Accepted(p)) \in Nat
        BY <1>2, AcceptedFinite DEF Accepted
      <3>5. gift'[p] = gift[p] + 1 /\ gift[p] \in Nat
        BY <1>2, <2>5 DEF ChatRows
      <3>6. Cardinality(Accepted(p)) + Cardinality(Accepting(p)) <= gift[p]
        BY DEF ChatInv, GiftsAnswer
      <3> QED BY <3>2, <3>3, <3>4, <3>5, <3>6 DEF GiftsAnswer
    <2> QED BY <2>6, <2>7, <2>8, <2>9 DEF ChatInv
  <1> QED BY <1>3, <1>4

LEMMA LatestRequestKeeps ==
    ASSUME ChatInv, NEW t \in Tasks, LatestGiftRequest(t)
    PROVE  ChatInv'
  <1>1. /\ task[t] \in [at : {"latestRequest"}, pair : Pairs,
                        answer : {"accepted", "declined"}]
        /\ ChatRows
    BY ChatTaskKinds DEF LatestGiftRequest, At, ChatInv
  <1>2. ChatRows' /\ UNCHANGED <<request, gift>>
    BY <1>1, SameRows DEF LatestGiftRequest
  <1>3. CASE PendingRequests(task[t].pair) = {}
    BY <1>2, <1>3, ChatStops DEF LatestGiftRequest
  <1>4. CASE PendingRequests(task[t].pair) # {}
    <2> DEFINE latest == Max(PendingRequests(task[t].pair))
    <2>1. latest \in PendingRequests(task[t].pair)
      <3>1. /\ Len(request[task[t].pair]) \in Nat
            /\ DOMAIN request[task[t].pair] = 1..Len(request[task[t].pair])
        BY <1>1 DEF ChatRows
      <3>2. IsFiniteSet(1..Len(request[task[t].pair]))
        BY <3>1, FS_Interval
      <3>3. /\ IsFiniteSet(PendingRequests(task[t].pair))
            /\ PendingRequests(task[t].pair) \subseteq Int
        BY <3>1, <3>2, FS_Subset DEF PendingRequests
      <3> QED BY <1>4, <3>3, LargestExists DEF Max
    <2> HIDE DEF latest
    <2>2. PICK x : x = [at |-> "respond", pair |-> task[t].pair, row |-> latest,
                        answer |-> task[t].answer]
      OBVIOUS
    <2>3. latest \in DOMAIN request[task[t].pair] /\ latest \in Nat
      BY <1>1, <2>1 DEF PendingRequests, ChatRows
    <2>4. /\ x \in ChatTask /\ x.at = "respond" /\ x.pair = task[t].pair
          /\ x.row = latest /\ x.answer = task[t].answer
      BY <1>1, <2>2, <2>3 DEF ChatTask
    <2>5. ChatSound(x)
      BY <2>3, <2>4 DEF ChatSound
    <2>6. task' = [task EXCEPT ![t] = x]
      BY <1>4, <2>2 DEF LatestGiftRequest, Goto, latest
    <2>7. \A p \in Pairs : Accepts(x, p) => Accepts(task[t], p)
      BY <1>1, <2>4 DEF Accepts
    <2> QED BY <1>2, <2>4, <2>5, <2>6, <2>7, ChatReads
  <1> QED BY <1>3, <1>4

\* An answer is given to one request; a gift that gives it has nothing more to answer.
LEMMA RespondKeeps ==
    ASSUME ChatInv, NEW t \in Tasks, RespondToGiftRequest(t)
    PROVE  ChatInv'
  <1>1. /\ task[t] \in [at : {"respond"}, pair : Pairs, row : Nat,
                        answer : {"accepted", "declined"}]
        /\ ChatRows /\ task[t].row \in DOMAIN request[task[t].pair]
    BY ChatTaskKinds DEF RespondToGiftRequest, At, ChatInv, ChatSound
  <1>2. PICK p \in Pairs, i \in Nat, answer \in {"accepted", "declined"} :
            p = task[t].pair /\ i = task[t].row /\ answer = task[t].answer
    BY <1>1
  <1>3. /\ request' = [request EXCEPT ![p][i] = answer]
        /\ UNCHANGED <<conversation, message, gift, balance, beans, blocked>>
        /\ i \in DOMAIN request[p]
    BY <1>1, <1>2 DEF RespondToGiftRequest, talk, money
  <1>4. request \in [Pairs -> Seq({"pending", "accepted", "declined"})]
    BY <1>1 DEF ChatRows
  <1>5. PICK rows : rows = [request[p] EXCEPT ![i] = answer]
    OBVIOUS
  <1>6. /\ rows \in Seq({"pending", "accepted", "declined"})
        /\ DOMAIN rows = DOMAIN request[p]
        /\ \A j \in DOMAIN rows : rows[j] = IF j = i THEN answer ELSE request[p][j]
    BY <1>3, <1>4, <1>5
  <1>7. request' = [request EXCEPT ![p] = rows]
    BY <1>3, <1>5
  <1>8. /\ request' \in [Pairs -> Seq({"pending", "accepted", "declined"})]
        /\ request'[p] = rows /\ \A q \in Pairs : q # p => request'[q] = request[q]
    BY <1>4, <1>6, <1>7
  <1>9. ChatRows'
    BY <1>1, <1>3, <1>8 DEF ChatRows
  <1>10. /\ task' \in [Tasks -> ChatTask] /\ \A s \in Tasks : ChatSound(task[s])'
         /\ \A q \in Pairs : Accepting(q)' = Accepting(q) \ {t}
    <2>1. task' = [task EXCEPT ![t] = Idle] /\ ChatSound(Idle)'
      BY ChatIdle DEF RespondToGiftRequest, Done, Goto, ChatSound
    <2>2. \A q \in Pairs : DOMAIN request[q] \subseteq DOMAIN request'[q]
      BY <1>6, <1>8
    <2>3. \A q \in Pairs : ~Accepts(Idle, q)
      BY ChatIdle DEF Accepts
    <2> QED BY <2>1, <2>2, <2>3, ChatIdle, ChatMoves
  <1>11. \A q \in Pairs : gift'[q] = gift[q] /\ gift[q] \in Nat
    BY <1>1, <1>3 DEF ChatRows
  <1>12. ASSUME NEW q \in Pairs, q # p \/ answer = "declined" PROVE GiftsAnswer(q)'
    <2>1. Accepted(q)' \subseteq Accepted(q)
      BY <1>6, <1>8, <1>12 DEF Accepted
    <2> QED BY <1>1, <1>10, <1>11, <2>1, StillAnswered DEF ChatInv
  <1>13. CASE answer = "accepted"
    <2>1. t \in Accepting(p)
      BY <1>1, <1>2, <1>13 DEF Accepting, Accepts
    <2>2. IsFiniteSet(Accepting(p)) /\ Cardinality(Accepting(p)) \in Nat
      BY FS_CardinalityType DEF ChatInv, GiftsAnswer
    <2>3. /\ IsFiniteSet(Accepting(p)')
          /\ Cardinality(Accepting(p)') = Cardinality(Accepting(p)) - 1
      BY <1>10, <2>1, <2>2, FS_RemoveElement
    <2>4. Accepted(p)' = Accepted(p) \cup {i}
      BY <1>3, <1>6, <1>8, <1>13 DEF Accepted
    <2>5. /\ Cardinality(Accepted(p)) \in Nat /\ Cardinality(Accepted(p)') \in Nat
          /\ Cardinality(Accepted(p)') <= Cardinality(Accepted(p)) + 1
      <3>1. IsFiniteSet(Accepted(p)) /\ Cardinality(Accepted(p)) \in Nat
        BY <1>1, AcceptedFinite
      <3>2. Cardinality(Accepted(p) \cup {i}) =
                IF i \in Accepted(p) THEN Cardinality(Accepted(p))
                ELSE Cardinality(Accepted(p)) + 1
        BY <3>1, FS_AddElement
      <3> QED BY <2>4, <3>1, <3>2
    <2>6. Cardinality(Accepted(p)) + Cardinality(Accepting(p)) <= gift[p]
      BY DEF ChatInv, GiftsAnswer
    <2>7. GiftsAnswer(p)'
      BY <1>11, <2>2, <2>3, <2>5, <2>6 DEF GiftsAnswer
    <2> QED BY <1>9, <1>10, <1>12, <2>7 DEF ChatInv
  <1>14. CASE answer = "declined"
    BY <1>9, <1>10, <1>12, <1>14 DEF ChatInv
  <1> QED BY <1>13, <1>14

LEMMA RecordRequestKeeps ==
    ASSUME ChatInv, NEW p \in Pairs, recordGiftRequest(p)
    PROVE  ChatInv'
  <1>1. /\ request' = [request EXCEPT ![p] = Append(@, "pending")] /\ ChatRows
        /\ UNCHANGED <<conversation, message, gift, balance, beans, blocked, task>>
    BY DEF recordGiftRequest, talk, money, ChatInv
  <1>2. request \in [Pairs -> Seq({"pending", "accepted", "declined"})]
    BY <1>1 DEF ChatRows
  <1>3. PICK rows : rows = Append(request[p], "pending")
    OBVIOUS
  <1>4. /\ rows \in Seq({"pending", "accepted", "declined"})
        /\ DOMAIN request[p] \subseteq DOMAIN rows
        /\ \A j \in DOMAIN rows : rows[j] = "accepted" => j \in DOMAIN request[p]
        /\ \A j \in DOMAIN request[p] : rows[j] = request[p][j]
    BY <1>2, <1>3
  <1>5. /\ request' \in [Pairs -> Seq({"pending", "accepted", "declined"})]
        /\ request'[p] = rows /\ \A q \in Pairs : q # p => request'[q] = request[q]
    BY <1>1, <1>2, <1>3, <1>4
  <1>6. ChatRows'
    BY <1>1, <1>5 DEF ChatRows
  <1>7. \A q \in Pairs : DOMAIN request[q] \subseteq DOMAIN request'[q]
    BY <1>4, <1>5
  <1>8. ASSUME NEW s \in Tasks PROVE ChatSound(task[s])'
    <2>1. task'[s] = task[s] /\ task[s] \in ChatTask /\ ChatSound(task[s])
      BY <1>1 DEF ChatInv
    <2>2. task[s].at = "respond" => task[s].pair \in Pairs
      BY <2>1, ChatTaskKinds
    <2> QED BY <1>7, <2>1, <2>2 DEF ChatSound
  <1>9. ASSUME NEW q \in Pairs PROVE GiftsAnswer(q)'
    <2>1. Accepted(q)' = Accepted(q)
      BY <1>4, <1>5 DEF Accepted
    <2>2. Accepting(q)' = Accepting(q) /\ gift' = gift
      BY <1>1 DEF Accepting, Accepts
    <2> QED BY <2>1, <2>2 DEF ChatInv, GiftsAnswer
  <1> QED BY <1>1, <1>6, <1>8, <1>9 DEF ChatInv

LEMMA ChatUnchanged ==
    ASSUME ChatInv, UNCHANGED <<request, gift, task>>, ChatRows'
    PROVE  ChatInv'
  <1>1. \A s \in Tasks : ChatSound(task[s])'
    BY DEF ChatInv, ChatSound
  <1>2. \A q \in Pairs : GiftsAnswer(q)'
    BY DEF ChatInv, GiftsAnswer, Accepted, Accepting, Accepts
  <1> QED BY <1>1, <1>2 DEF ChatInv

LEMMA BlocksKeep ==
    ASSUME ChatInv, NEW p \in Pairs, NEW side \in Sides,
           blockUser(p, side) \/ unblockUser(p, side)
    PROVE  ChatInv'
  <1>1. ChatRows' /\ UNCHANGED <<request, gift, task>>
    BY DEF blockUser, unblockUser, ChatInv, ChatRows, talk, money
  <1> QED BY <1>1, ChatUnchanged

LEMMA ChatInvariance == ChatSpec => []ChatInv
  <1>1. ChatInit /\ NoTasks => ChatInv
    <2> SUFFICES ASSUME ChatInit, NoTasks PROVE ChatInv
      OBVIOUS
    <2>1. ChatRows
      <3>1. InitialBalance \in Nat
        BY ChatConstants
      <3> QED BY <3>1 DEF ChatInit, ChatRows
    <2>2. \A s \in Tasks : task[s] = Idle
      BY DEF NoTasks
    <2>3. task \in [Tasks -> ChatTask] /\ \A s \in Tasks : ChatSound(task[s])
      BY <2>2, ChatIdle DEF NoTasks
    <2>4. ASSUME NEW p \in Pairs PROVE GiftsAnswer(p)
      <3>1. Accepting(p) = {} /\ Accepted(p) = {}
        BY <2>2, ChatIdle DEF Accepting, Accepts, Accepted, ChatInit
      <3>2. gift[p] = 0
        BY DEF ChatInit
      <3> QED BY <3>1, <3>2, FS_EmptySet DEF GiftsAnswer
    <2> QED BY <2>1, <2>3, <2>4 DEF ChatInv
  <1>2. ASSUME ChatInv, [ChatNext]_<<chatVars, task>>
        PROVE  ChatInv'
    <2>1. CASE UNCHANGED <<chatVars, task>>
      BY <1>2, <2>1, SameRows, ChatUnchanged DEF ChatInv
    <2>2. CASE ChatRequest
      BY <1>2, <2>2, RecordRequestKeeps, BlocksKeep, FindOrCreateKeeps, SendGiftKeeps,
         DeclineKeeps DEF ChatRequest
    <2>3. CASE \E t \in Tasks : ChatStep(t)
      BY <1>2, <2>3, FindConversationKeeps, InsertConversationKeeps, VerifyKeeps,
         ReportPhotoKeeps, SendPaidKeeps, SendMessageKeeps, GiftKeeps,
         LatestRequestKeeps, RespondKeeps DEF ChatStep
    <2> QED BY <1>2, <2>1, <2>2, <2>3 DEF ChatNext
  <1> QED BY <1>1, <1>2, PTL DEF ChatSpec

\* A request that shows as accepted was answered by a gift of its own, however
\* many gifts, refusals and requests of a pair cross each other.
THEOREM GiftsWereGiven == ChatSpec => []AcceptedWereGifts
  <1>1. ASSUME ChatInv PROVE AcceptedWereGifts
    <2> SUFFICES ASSUME NEW p \in Pairs
                 PROVE  Cardinality(Accepted(p)) <= gift[p]
      BY DEF AcceptedWereGifts, Accepted
    <2>1. Cardinality(Accepted(p)) \in Nat /\ gift[p] \in Nat
      BY <1>1, AcceptedFinite DEF ChatInv, ChatRows
    <2>2. Cardinality(Accepting(p)) \in Nat
      BY <1>1, FS_CardinalityType DEF ChatInv, GiftsAnswer
    <2>3. Cardinality(Accepted(p)) + Cardinality(Accepting(p)) <= gift[p]
      BY <1>1 DEF ChatInv, GiftsAnswer
    <2> QED BY <2>1, <2>2, <2>3
  <1> QED BY <1>1, ChatInvariance, PTL

-----------------------------------------------------------------------------
(* Chat: both sides of the money *)

Typed == ChatRows /\ IsFiniteSet(Users) /\ IsFiniteSet(Hosts)

LEMMA WorthNatural ==
    ASSUME ChatRows, NEW p \in Pairs
    PROVE  Worth(p) \in Nat /\ Earned(p) \in Nat
  <1>1. /\ MessageRate \in Nat /\ GiftPrice \in Nat
        /\ BeansFor(MessageRate) \in Nat /\ BeansFor(GiftPrice) \in Nat
    BY ChatConstants, BeansForIsNatural
  <1>2. message[p]["paid"] \in Nat /\ gift[p] \in Nat
    BY DEF ChatRows, MessageKinds
  <1>3. Stored(p).paid \in Nat /\ Stored(p).gifts \in Nat
    BY <1>2 DEF Stored
  <1> QED BY <1>1, <1>3 DEF Worth, Earned

\* One term of a sum grows.
LEMMA OneGrows ==
    ASSUME NEW S, IsFiniteSet(S), NEW x \in S, NEW f \in [S -> Int], NEW g \in [S -> Int],
           NEW d \in Int, \A y \in S : g[y] = IF y = x THEN f[y] + d ELSE f[y]
    PROVE  /\ SumFunctionOnSet(f, S) \in Int
           /\ SumFunctionOnSet(g, S) = SumFunctionOnSet(f, S) + d
  <1>1. SumFunctionOnSet(f, S) \in Int
    BY SumIsInteger
  <1>2. SumFunctionOnSet(g, S) = SumFunctionOnSet(f, S) - f[x] + g[x]
    BY SumUpdated
  <1>3. g[x] = f[x] + d /\ f[x] \in Int
    OBVIOUS
  <1> QED BY <1>1, <1>2, <1>3

\* A sale moves its price from the user's wallet into what is stored, and the
\* host's share of it into what the host has earned.
LEMMA SaleKeepsBooks ==
    ASSUME Typed, ChatRows', Books, NEW p \in Pairs, NEW price \in Nat,
           transferUserToHost(p, price),
           \A q \in Pairs : Worth(q)' = IF q = p THEN Worth(q) + price ELSE Worth(q),
           \A q \in Pairs : Earned(q)' = IF q = p THEN Earned(q) + BeansFor(price)
                                         ELSE Earned(q)
    PROVE  Books'
  <1>1. PICK user \in Users, host \in Hosts : p = <<user, host>>
    BY DEF Pairs
  <1>2. /\ \A u \in Users : balance'[u] = IF u = user THEN balance[u] - price ELSE balance[u]
        /\ \A h \in Hosts : beans'[h] = IF h = host THEN beans[h] + BeansFor(price)
                                        ELSE beans[h]
    BY <1>1 DEF transferUserToHost, Typed, ChatRows
  <1>3. \A q \in Pairs : /\ Worth(q) \in Int /\ Earned(q) \in Int
                         /\ Worth(q)' \in Int /\ Earned(q)' \in Int
    <2>1. BeansFor(price) \in Nat
      BY BeansForIsNatural
    <2> QED BY <2>1, WorthNatural DEF Typed
  <1>4. \A u \in Users, h \in Hosts : <<u, h>> \in Pairs
    BY DEF Pairs
  <1>5. /\ \A u \in Users : balance[u] \in Int /\ balance'[u] \in Int
        /\ \A h \in Hosts : beans[h] \in Int /\ beans'[h] \in Int
    BY DEF Typed, ChatRows
  <1>6. ASSUME NEW u \in Users
        PROVE  (balance[u] + SumFunctionOnSet(Spent(u), Hosts) = InitialBalance)'
    <2>0. PICK now : now = Spent(u)'
      OBVIOUS
    <2>1. Spent(u) \in [Hosts -> Int] /\ now \in [Hosts -> Int]
      BY <1>3, <1>4, <2>0 DEF Spent
    <2>2. balance[u] + SumFunctionOnSet(Spent(u), Hosts) = InitialBalance
      BY DEF Books
    <2>3. CASE u = user
      <3>1. \A h \in Hosts : now[h] = IF h = host THEN Spent(u)[h] + price ELSE Spent(u)[h]
        BY <1>1, <1>4, <2>0, <2>3 DEF Spent
      <3>2. /\ SumFunctionOnSet(Spent(u), Hosts) \in Int
            /\ SumFunctionOnSet(now, Hosts) = SumFunctionOnSet(Spent(u), Hosts) + price
        <4>1. price \in Int /\ IsFiniteSet(Hosts)
          BY DEF Typed
        <4>2. PICK before : before = Spent(u)
          OBVIOUS
        <4>3. /\ host \in Hosts /\ before \in [Hosts -> Int] /\ now \in [Hosts -> Int]
              /\ \A h \in Hosts : now[h] = IF h = host THEN before[h] + price ELSE before[h]
          BY <1>1, <2>1, <3>1, <4>2
        <4>4. /\ SumFunctionOnSet(before, Hosts) \in Int
              /\ SumFunctionOnSet(now, Hosts) = SumFunctionOnSet(before, Hosts) + price
          BY <4>1, <4>3, OneGrows
        <4> QED BY <4>2, <4>4
      <3> QED BY <1>2, <1>5, <2>0, <2>2, <2>3, <3>2
    <2>4. CASE u # user
      <3>1. now = Spent(u)
        BY <1>1, <1>4, <2>0, <2>4 DEF Spent
      <3> QED BY <1>2, <2>0, <2>2, <2>4, <3>1
    <2> QED BY <2>3, <2>4
  <1>7. ASSUME NEW h \in Hosts
        PROVE  (beans[h] = SumFunctionOnSet(Income(h), Users))'
    <2>0. PICK now : now = Income(h)'
      OBVIOUS
    <2>1. Income(h) \in [Users -> Int] /\ now \in [Users -> Int]
      BY <1>3, <1>4, <2>0 DEF Income
    <2>2. beans[h] = SumFunctionOnSet(Income(h), Users)
      BY DEF Books
    <2>3. CASE h = host
      <3>1. \A u \in Users : now[u] = IF u = user THEN Income(h)[u] + BeansFor(price)
                                      ELSE Income(h)[u]
        BY <1>1, <1>4, <2>0, <2>3 DEF Income
      <3>2. BeansFor(price) \in Int /\ IsFiniteSet(Users)
        BY BeansForIsNatural DEF Typed
      <3>3. SumFunctionOnSet(now, Users)
                = SumFunctionOnSet(Income(h), Users) + BeansFor(price)
        <4>1. PICK before, gain : before = Income(h) /\ gain = BeansFor(price)
          OBVIOUS
        <4>2. /\ user \in Users /\ before \in [Users -> Int] /\ now \in [Users -> Int]
              /\ gain \in Int
              /\ \A u \in Users : now[u] = IF u = user THEN before[u] + gain ELSE before[u]
          BY <1>1, <2>1, <3>1, <3>2, <4>1
        <4>3. SumFunctionOnSet(now, Users) = SumFunctionOnSet(before, Users) + gain
          BY <3>2, <4>2, OneGrows
        <4> QED BY <4>1, <4>3
      <3> QED BY <1>2, <2>0, <2>2, <2>3, <3>3
    <2>4. CASE h # host
      <3>1. now = Income(h)
        BY <1>1, <1>4, <2>0, <2>4 DEF Income
      <3> QED BY <1>2, <2>0, <2>2, <2>4, <3>1
    <2> QED BY <2>3, <2>4
  <1> QED BY <1>6, <1>7 DEF Books

\* Whatever leaves the wallets, the gifts and the paid messages alone.
LEMMA BooksUnchanged ==
    ASSUME Books, UNCHANGED <<balance, beans, gift>>,
           \A q \in Pairs : message'[q]["paid"] = message[q]["paid"]
    PROVE  Books'
  <1>1. \A q \in Pairs : Stored(q)' = Stored(q)
    BY DEF Stored
  <1>2. \A q \in Pairs : Worth(q)' = Worth(q) /\ Earned(q)' = Earned(q)
    BY <1>1 DEF Worth, Earned
  <1>3. \A u \in Users, h \in Hosts : <<u, h>> \in Pairs
    BY DEF Pairs
  <1>4. /\ \A u \in Users : Spent(u)' = Spent(u)
        /\ \A h \in Hosts : Income(h)' = Income(h)
    BY <1>2, <1>3 DEF Spent, Income
  <1> QED BY <1>4 DEF Books

LEMMA OneMore ==
    ASSUME NEW n \in Nat, NEW k \in Nat
    PROVE  n * k \in Nat /\ (n + 1) * k = n * k + k
  OBVIOUS

LEMMA PricesNatural ==
    /\ MessageRate \in Nat /\ GiftPrice \in Nat
    /\ BeansFor(MessageRate) \in Nat /\ BeansFor(GiftPrice) \in Nat
  BY ChatConstants, BeansForIsNatural

LEMMA SendPaidKeepsBooks ==
    ASSUME Typed, ChatInv, ChatRows', Books, NEW t \in Tasks, sendPaidUserMessage(t)
    PROVE  Books'
  <1>1. task[t].pair \in Pairs /\ "paid" \in MessageKinds
    BY ChatTaskKinds DEF sendPaidUserMessage, At, ChatInv, MessageKinds
  <1>2. CASE ~(balance[task[t].pair[1]] >= MessageRate)
    BY <1>2, BooksUnchanged DEF sendPaidUserMessage
  <1>3. CASE balance[task[t].pair[1]] >= MessageRate
    <2>1. PICK p \in Pairs : p = task[t].pair
      BY <1>1
    <2>2. /\ \A q \in Pairs : message'[q]["paid"] =
                 IF q = p THEN message[q]["paid"] + 1 ELSE message[q]["paid"]
          /\ UNCHANGED gift /\ transferUserToHost(p, MessageRate)
      BY <1>1, <1>3, <2>1, StoreTyped DEF sendPaidUserMessage, Typed
    <2>3. ASSUME NEW q \in Pairs
          PROVE  /\ Worth(q)' = IF q = p THEN Worth(q) + MessageRate ELSE Worth(q)
                 /\ Earned(q)' = IF q = p THEN Earned(q) + BeansFor(MessageRate)
                                 ELSE Earned(q)
      <3>1. PICK n, g : n = message[q]["paid"] /\ g = gift[q]
        OBVIOUS
      <3>2. n \in Nat /\ g \in Nat
        BY <3>1 DEF Typed, ChatRows, MessageKinds
      <3>3. /\ Stored(q).paid = n /\ Stored(q).gifts = g
            /\ Stored(q)'.paid = IF q = p THEN n + 1 ELSE n
            /\ Stored(q)'.gifts = g
        BY <2>2, <3>1 DEF Stored
      <3>4. /\ (n + 1) * MessageRate = n * MessageRate + MessageRate
            /\ n * MessageRate \in Nat /\ g * GiftPrice \in Nat
            /\ (n + 1) * BeansFor(MessageRate)
                  = n * BeansFor(MessageRate) + BeansFor(MessageRate)
            /\ n * BeansFor(MessageRate) \in Nat /\ g * BeansFor(GiftPrice) \in Nat
        BY <3>2, PricesNatural, OneMore
      <3>5. /\ Worth(q) = n * MessageRate + g * GiftPrice
            /\ Worth(q)' = (IF q = p THEN n + 1 ELSE n) * MessageRate + g * GiftPrice
        BY <3>3 DEF Worth
      <3>6. /\ Earned(q) = n * BeansFor(MessageRate) + g * BeansFor(GiftPrice)
            /\ Earned(q)' = (IF q = p THEN n + 1 ELSE n) * BeansFor(MessageRate)
                               + g * BeansFor(GiftPrice)
        BY <3>3 DEF Earned
      <3> QED BY <3>4, <3>5, <3>6, PricesNatural
    <2> QED BY <2>2, <2>3, PricesNatural, SaleKeepsBooks
  <1> QED BY <1>2, <1>3

LEMMA GiftKeepsBooks ==
    ASSUME Typed, ChatInv, ChatRows', Books, NEW t \in Tasks, GiftTransaction(t)
    PROVE  Books'
  <1>1. task[t].pair \in Pairs /\ "gift" \in MessageKinds
    BY ChatTaskKinds DEF GiftTransaction, At, ChatInv, MessageKinds
  <1>2. CASE ~(balance[task[t].pair[1]] >= GiftPrice)
    BY <1>2, BooksUnchanged DEF GiftTransaction, money
  <1>3. CASE balance[task[t].pair[1]] >= GiftPrice
    <2>1. PICK p \in Pairs : p = task[t].pair
      BY <1>1
    <2>2. /\ gift' = [gift EXCEPT ![p] = @ + 1]
          /\ transferUserToHost(p, GiftPrice)
          /\ Store(p, "gift") \/ UNCHANGED message
      BY <1>3, <2>1 DEF GiftTransaction
    <2>3. /\ \A q \in Pairs : message'[q]["paid"] = message[q]["paid"]
          /\ \A q \in Pairs : gift'[q] = IF q = p THEN gift[q] + 1 ELSE gift[q]
      BY <1>1, <2>2, StoreTyped DEF Typed, ChatRows
    <2>4. ASSUME NEW q \in Pairs
          PROVE  /\ Worth(q)' = IF q = p THEN Worth(q) + GiftPrice ELSE Worth(q)
                 /\ Earned(q)' = IF q = p THEN Earned(q) + BeansFor(GiftPrice)
                                 ELSE Earned(q)
      <3>1. PICK n, g : n = message[q]["paid"] /\ g = gift[q]
        OBVIOUS
      <3>2. n \in Nat /\ g \in Nat
        BY <3>1 DEF Typed, ChatRows, MessageKinds
      <3>3. /\ Stored(q).paid = n /\ Stored(q).gifts = g
            /\ Stored(q)'.paid = n
            /\ Stored(q)'.gifts = IF q = p THEN g + 1 ELSE g
        BY <2>3, <3>1 DEF Stored
      <3>4. /\ (g + 1) * GiftPrice = g * GiftPrice + GiftPrice
            /\ n * MessageRate \in Nat /\ g * GiftPrice \in Nat
            /\ (g + 1) * BeansFor(GiftPrice)
                  = g * BeansFor(GiftPrice) + BeansFor(GiftPrice)
            /\ n * BeansFor(MessageRate) \in Nat /\ g * BeansFor(GiftPrice) \in Nat
        BY <3>2, PricesNatural, OneMore
      <3>5. /\ Worth(q) = n * MessageRate + g * GiftPrice
            /\ Worth(q)' = n * MessageRate + (IF q = p THEN g + 1 ELSE g) * GiftPrice
        BY <3>3 DEF Worth
      <3>6. /\ Earned(q) = n * BeansFor(MessageRate) + g * BeansFor(GiftPrice)
            /\ Earned(q)' = n * BeansFor(MessageRate)
                               + (IF q = p THEN g + 1 ELSE g) * BeansFor(GiftPrice)
        BY <3>3 DEF Earned
      <3> QED BY <3>4, <3>5, <3>6, PricesNatural
    <2> QED BY <2>2, <2>4, PricesNatural, SaleKeepsBooks
  <1> QED BY <1>2, <1>3

LEMMA SendMessageKeepsBooks ==
    ASSUME Typed, ChatInv, Books, NEW t \in Tasks, sendMessage(t)
    PROVE  Books'
  <1>1. task[t].pair \in Pairs /\ "free" \in MessageKinds
    BY ChatTaskKinds DEF sendMessage, At, ChatInv, MessageKinds
  <1>2. \A q \in Pairs : message'[q]["paid"] = message[q]["paid"]
    BY <1>1, StoreTyped DEF sendMessage, Typed
  <1> QED BY <1>2, BooksUnchanged DEF sendMessage, money

\* What is stored in conversations and gift transactions is exactly what users have
\* paid and hosts have earned, commission taken and rounded down twice (PaidForExactly).
\* A sum over the user base is one over a finite set.
THEOREM StoredIsPaid ==
    IsFiniteSet(Users) /\ IsFiniteSet(Hosts) => (ChatSpec => []PaidForExactly)
  <1> SUFFICES ASSUME IsFiniteSet(Users), IsFiniteSet(Hosts)
               PROVE  ChatSpec => []PaidForExactly
    OBVIOUS
  <1>1. ChatInit => Books
    <2> SUFFICES ASSUME ChatInit PROVE Books
      OBVIOUS
    <2>1. ASSUME NEW p \in Pairs PROVE Worth(p) = 0 /\ Earned(p) = 0
      <3>1. Stored(p).paid = 0 /\ Stored(p).gifts = 0
        BY DEF ChatInit, Stored, MessageKinds
      <3> QED BY <3>1, PricesNatural DEF Worth, Earned
    <2>2. \A u \in Users, h \in Hosts : <<u, h>> \in Pairs
      BY DEF Pairs
    <2>3. /\ \A u \in Users : \A h \in Hosts : Spent(u)[h] = 0
          /\ \A h \in Hosts : \A u \in Users : Income(h)[u] = 0
      BY <2>1, <2>2 DEF Spent, Income
    <2>4. /\ \A u \in Users : SumFunctionOnSet(Spent(u), Hosts) = 0
          /\ \A h \in Hosts : SumFunctionOnSet(Income(h), Users) = 0
      BY <2>3, SumOfZeros
    <2>5. InitialBalance \in Nat
      BY ChatConstants
    <2> QED BY <2>4, <2>5 DEF Books, ChatInit
  <1>2. ASSUME ChatInv, ChatInv', Books, [ChatNext]_<<chatVars, task>>
        PROVE  Books'
    <2>1. Typed /\ ChatRows'
      BY <1>2 DEF Typed, ChatInv
    <2>2. CASE UNCHANGED <<chatVars, task>>
      BY <1>2, <2>2, BooksUnchanged DEF chatVars, talk, money
    <2>3. CASE ChatRequest
      BY <1>2, <2>3, BooksUnchanged
      DEF ChatRequest, recordGiftRequest, blockUser, unblockUser, sendGift,
          findOrCreateConversation, markGiftRequestDeclined, chatVars, talk, money
    <2>4. ASSUME NEW t \in Tasks, ChatStep(t) PROVE Books'
      <3>1. CASE FindConversation(t) \/ InsertConversation(t) \/ verifyChatImage(t)
                     \/ ReportPhoto(t) \/ LatestGiftRequest(t) \/ RespondToGiftRequest(t)
        BY <1>2, <3>1, BooksUnchanged
        DEF FindConversation, InsertConversation, verifyChatImage, ReportPhoto,
            LatestGiftRequest, RespondToGiftRequest, chatVars, talk, money
      <3> QED BY <1>2, <2>1, <2>4, <3>1, SendPaidKeepsBooks, GiftKeepsBooks,
                 SendMessageKeepsBooks DEF ChatStep
    <2> QED BY <1>2, <2>2, <2>3, <2>4 DEF ChatNext
  <1>3. ASSUME ChatInv, Books PROVE PaidForExactly
    <2>1. ChatTypeOK
      <3>1. \A p \in Pairs : \A i \in DOMAIN request[p] :
               request[p][i] \in {"pending", "accepted", "declined"}
        BY <1>3 DEF ChatInv, ChatRows
      <3> QED BY <1>3, <3>1 DEF ChatInv, ChatRows, ChatTypeOK
    <2> QED BY <1>3, <2>1 DEF Books, Spent, Income, PaidForExactly
  <1> QED BY <1>1, <1>2, <1>3, ChatInvariance, PTL DEF ChatSpec

-----------------------------------------------------------------------------
(* The support bot: what a handler in flight is *)

SupportTask ==
    {Idle}
    \cup [at : {"schedule", "readConfig", "readTicket", "readHistory", "finish", "failed"},
          ticket : Tickets]
    \cup [at : {"ownerWrites"}, ticket : Tickets, reopens : BOOLEAN]
    \cup [at : {"mark", "markLimit", "reply"}, ticket : Tickets, seen : Nat]
    \cup [at : {"ask", "runTools", "recheck"}, ticket : Tickets, seen : Nat, call : Nat,
          handoff : BOOLEAN]

SupportRows ==
    /\ ticket \in [Tickets -> TicketRow \cup {NoTicket}]
    /\ history \in [Tickets -> Seq(Senders)]
    /\ running \subseteq Tickets /\ rerun \subseteq Tickets
    /\ expiries \in Nat

\* The steps of a run; of those that still write; of those among them that have
\* found the limit not reached, or a person told.
RunSteps == {"readConfig", "readTicket", "readHistory", "ask", "runTools", "recheck",
             "mark", "markLimit", "reply", "failed", "finish"}
AnswerSteps == {"ask", "runTools", "recheck", "mark", "reply"}
WriteSteps == AnswerSteps \cup {"markLimit"}

In(x, steps, k) == x.at \in steps /\ x.ticket = k
Handling(steps, k) == {t \in Tasks : In(task[t], steps, k)}
Count(steps, k) == Cardinality(Handling(steps, k))

Replies(k) == Cardinality(From(k, "bot"))
After(k) == {i \in From(k, "bot") : \E j \in From(k, "agent") : j < i}

\* A person is asked for, or has answered: from then on the limit lets nobody in
\* who has not passed it, or read the ticket before.
Out(k) == ticket[k].needsAgent \/ From(k, "agent") # {}
PendingSteps(k) == WriteSteps \cup (IF From(k, "agent") = {} THEN {"readHistory"} ELSE {})

TicketInv(k) ==
    /\ IsFiniteSet(Handling(RunSteps, k))
    /\ Count(RunSteps, k) <= (IF k \in running THEN 1 ELSE 0) + expiries
    /\ Cardinality(After(k)) + Count(WriteSteps, k) <= 1 + expiries
    /\ ~Out(k) => Replies(k) + Count(AnswerSteps, k) <= MaxReplies + expiries
    /\ Out(k) => Replies(k) + Count(PendingSteps(k), k) <= MaxReplies + 1 + 2 * expiries

SupportInv ==
    /\ task \in [Tasks -> SupportTask] /\ SupportRows
    /\ \A t \in Tasks : task[t] # Idle => Opened(task[t].ticket)
    /\ \A k \in Tickets : TicketInv(k)

LEMMA SupportTaskKinds ==
    ASSUME NEW x \in SupportTask
    PROVE  /\ x.at # "idle" => x.ticket \in Tickets /\ x # Idle
           /\ x.at = "idle" => x = Idle
           /\ x.at = "ownerWrites"
                  => x \in [at : {"ownerWrites"}, ticket : Tickets, reopens : BOOLEAN]
           /\ x.at \in {"schedule", "readConfig", "readTicket", "readHistory", "finish",
                        "failed"}
                  => x \in [at : {"schedule", "readConfig", "readTicket", "readHistory",
                                  "finish", "failed"}, ticket : Tickets]
           /\ x.at \in {"mark", "markLimit", "reply"}
                  => x \in [at : {"mark", "markLimit", "reply"}, ticket : Tickets,
                            seen : Nat]
           /\ x.at \in {"ask", "runTools", "recheck"}
                  => x \in [at : {"ask", "runTools", "recheck"}, ticket : Tickets,
                            seen : Nat, call : Nat, handoff : BOOLEAN]
  BY DEF SupportTask, Idle

LEMMA SupportIdle == Idle \in SupportTask /\ Idle.at = "idle"
  BY DEF SupportTask, Idle

LEMMA OnTyped ==
    ASSUME NEW k \in Tickets,
           NEW step \in {"schedule", "readConfig", "readTicket", "readHistory", "finish",
                         "failed"}
    PROVE  On(step, k) \in SupportTask /\ On(step, k).at = step /\ On(step, k).ticket = k
  BY DEF On, SupportTask

-----------------------------------------------------------------------------
(* The support bot: counting *)

LEMMA StepSets ==
    /\ AnswerSteps \in SUBSET RunSteps /\ WriteSteps \in SUBSET RunSteps
    /\ \A k \in Tickets : PendingSteps(k) \in SUBSET RunSteps
  BY DEF AnswerSteps, WriteSteps, PendingSteps, RunSteps

LEMMA CountsTyped ==
    ASSUME NEW k, IsFiniteSet(Handling(RunSteps, k)), NEW steps \in SUBSET RunSteps
    PROVE  /\ IsFiniteSet(Handling(steps, k)) /\ Count(steps, k) \in Nat
           /\ Count(RunSteps, k) \in Nat /\ Count(steps, k) <= Count(RunSteps, k)
  <1>1. Handling(steps, k) \subseteq Handling(RunSteps, k)
    BY DEF Handling, In
  <1> QED BY <1>1, FS_Subset, FS_CardinalityType DEF Count

\* A handler that goes on leaves the steps it was at and enters the steps it is at.
LEMMA MovesCount ==
    ASSUME NEW k, IsFiniteSet(Handling(RunSteps, k)), task \in [Tasks -> SupportTask],
           NEW t \in Tasks, NEW y, task' = [task EXCEPT ![t] = y]
    PROVE  /\ IsFiniteSet(Handling(RunSteps, k)')
           /\ \A steps \in SUBSET RunSteps :
                 Count(steps, k)' = Count(steps, k) - (IF In(task[t], steps, k) THEN 1 ELSE 0)
                                                    + (IF In(y, steps, k) THEN 1 ELSE 0)
  <1>1. ASSUME NEW steps \in SUBSET RunSteps
        PROVE  /\ IsFiniteSet(Handling(steps, k)')
               /\ Count(steps, k)' = Count(steps, k)
                     - (IF In(task[t], steps, k) THEN 1 ELSE 0)
                     + (IF In(y, steps, k) THEN 1 ELSE 0)
    <2>1. PICK S, T : S = Handling(steps, k) /\ T = S \ {t}
      OBVIOUS
    <2>2. IsFiniteSet(S) /\ Cardinality(S) \in Nat
      BY <2>1, CountsTyped DEF Count
    <2>3. Handling(steps, k)' = IF In(y, steps, k) THEN T \cup {t} ELSE T
      BY <2>1 DEF Handling, In
    <2>4. t \in S <=> In(task[t], steps, k)
      BY <2>1 DEF Handling
    <2>5. /\ IsFiniteSet(T) /\ Cardinality(T) \in Nat
          /\ Cardinality(T) = Cardinality(S) - (IF In(task[t], steps, k) THEN 1 ELSE 0)
      <3>1. CASE t \in S
        BY <2>1, <2>2, <2>4, <3>1, FS_RemoveElement, FS_CardinalityType
      <3>2. CASE t \notin S
        <4>1. T = S
          BY <2>1, <3>2
        <4> QED BY <2>2, <2>4, <3>2, <4>1
      <3> QED BY <3>1, <3>2
    <2>6. /\ IsFiniteSet(T \cup {t})
          /\ Cardinality(T \cup {t}) = Cardinality(T) + 1
      BY <2>1, <2>5, FS_AddElement
    <2> QED BY <2>1, <2>2, <2>3, <2>5, <2>6 DEF Count
  <1> QED BY <1>1

LEMMA MessagesTyped ==
    ASSUME SupportRows, NEW k \in Tickets
    PROVE  /\ IsFiniteSet(From(k, "bot")) /\ IsFiniteSet(After(k))
           /\ Replies(k) \in Nat /\ Cardinality(After(k)) \in Nat
           /\ From(k, "agent") = {} => After(k) = {} /\ Cardinality(After(k)) = 0
  <1>1. Len(history[k]) \in Nat /\ DOMAIN history[k] = 1..Len(history[k])
    BY DEF SupportRows
  <1>2. IsFiniteSet(1..Len(history[k]))
    BY <1>1, FS_Interval
  <1>3. From(k, "bot") \subseteq 1..Len(history[k]) /\ After(k) \subseteq From(k, "bot")
    BY <1>1 DEF From, After
  <1>4. IsFiniteSet(From(k, "bot")) /\ IsFiniteSet(After(k))
    BY <1>2, <1>3, FS_Subset
  <1>5. Replies(k) \in Nat /\ Cardinality(After(k)) \in Nat
    BY <1>4, FS_CardinalityType DEF Replies
  <1>6. From(k, "agent") = {} => After(k) = {}
    BY DEF After
  <1> QED BY <1>4, <1>5, <1>6, FS_EmptySet

\* What a message adds.
LEMMA MessageAdded ==
    ASSUME SupportRows, NEW k \in Tickets, NEW who \in Senders, addMessage(k, who)
    PROVE  /\ history' \in [Tickets -> Seq(Senders)]
           /\ \A j \in Tickets : j # k => history'[j] = history[j]
           /\ \A other \in Senders : other # who => From(k, other)' = From(k, other)
           /\ From(k, who)' = From(k, who) \cup {Len(history[k]) + 1}
           /\ \A i \in From(k, "bot") \cup From(k, "agent") : i \in 1..Len(history[k])
           /\ Len(history[k]) \in Nat
  <1>1. history'[k] = Append(history[k], who) /\ history[k] \in Seq(Senders)
    BY DEF addMessage, SupportRows
  <1>2. /\ DOMAIN history'[k] = 1..Len(history[k]) + 1 /\ Len(history[k]) \in Nat
        /\ DOMAIN history[k] = 1..Len(history[k])
        /\ history'[k][Len(history[k]) + 1] = who
        /\ \A i \in DOMAIN history[k] : history'[k][i] = history[k][i]
    BY <1>1
  <1>3. /\ history' \in [Tickets -> Seq(Senders)]
        /\ \A j \in Tickets : j # k => history'[j] = history[j]
    BY DEF addMessage, SupportRows
  <1>4. ASSUME NEW other \in Senders
        PROVE  From(k, other)' = IF other = who
                                 THEN From(k, other) \cup {Len(history[k]) + 1}
                                 ELSE From(k, other)
    BY <1>2 DEF From
  <1> QED BY <1>2, <1>3, <1>4 DEF From


-----------------------------------------------------------------------------
(* The support bot: tickets *)

LEMMA DisjointCount ==
    ASSUME NEW A, NEW B, IsFiniteSet(A), IsFiniteSet(B), A \cap B = {}
    PROVE  IsFiniteSet(A \cup B) /\ Cardinality(A \cup B) = Cardinality(A) + Cardinality(B)
  <1>1. Cardinality(A) \in Nat /\ Cardinality(B) \in Nat
    BY FS_CardinalityType
  <1>2. Cardinality({}) = 0
    BY FS_EmptySet
  <1>3. /\ IsFiniteSet(A \cup B)
        /\ Cardinality(A \cup B) = Cardinality(A) + Cardinality(B) - Cardinality({})
    BY FS_Union
  <1> QED BY <1>1, <1>2, <1>3

\* Until a person is asked for, what a run that has not passed the limit may add
\* is within the bound that holds from then on.
LEMMA PendingBound ==
    ASSUME SupportInv, NEW k \in Tickets, ~Out(k)
    PROVE  Replies(k) + Count(PendingSteps(k), k) <= MaxReplies + 1 + 2 * expiries
  <1> DEFINE Late == {"markLimit", "readHistory"}
  <1>1. TicketInv(k) /\ SupportRows
    BY DEF SupportInv
  <1>2. IsFiniteSet(Handling(RunSteps, k)) /\ Late \in SUBSET RunSteps
    BY <1>1 DEF TicketInv, RunSteps
  <1>3. /\ Count(Late, k) <= Count(RunSteps, k) /\ Count(AnswerSteps, k) \in Nat
        /\ Count(RunSteps, k) \in Nat /\ Count(Late, k) \in Nat
        /\ Count(PendingSteps(k), k) \in Nat
        /\ IsFiniteSet(Handling(Late, k)) /\ IsFiniteSet(Handling(AnswerSteps, k))
    BY <1>2, CountsTyped, StepSets
  <1>4. Handling(PendingSteps(k), k) \subseteq Handling(AnswerSteps, k) \cup Handling(Late, k)
    BY DEF Handling, In, PendingSteps, WriteSteps
  <1>5. Handling(AnswerSteps, k) \cap Handling(Late, k) = {}
    BY DEF Handling, In, AnswerSteps
  <1>6. /\ IsFiniteSet(Handling(AnswerSteps, k) \cup Handling(Late, k))
        /\ Cardinality(Handling(AnswerSteps, k) \cup Handling(Late, k))
              = Count(AnswerSteps, k) + Count(Late, k)
    <2>1. PICK A, L : A = Handling(AnswerSteps, k) /\ L = Handling(Late, k)
      OBVIOUS
    <2>2. /\ IsFiniteSet(A) /\ IsFiniteSet(L) /\ A \cap L = {}
          /\ Cardinality(A) \in Nat /\ Cardinality(L) \in Nat
      BY <1>3, <1>5, <2>1 DEF Count
    <2>3. IsFiniteSet(A \cup L) /\ Cardinality(A \cup L) = Cardinality(A) + Cardinality(L)
      BY <2>2, DisjointCount
    <2> QED BY <2>1, <2>3 DEF Count
  <1>7. Count(PendingSteps(k), k) <= Count(AnswerSteps, k) + Count(Late, k)
    BY <1>4, <1>6, FS_Subset DEF Count
  <1>8. /\ Count(RunSteps, k) <= 1 + expiries /\ expiries \in Nat
        /\ Replies(k) + Count(AnswerSteps, k) <= MaxReplies + expiries
    BY <1>1, <1>3 DEF TicketInv, SupportRows
  <1>9. Replies(k) \in Nat /\ MaxReplies \in Nat
    BY <1>1, MessagesTyped, SupportConstants
  <1> HIDE DEF Late
  <1> QED BY <1>3, <1>7, <1>8, <1>9

\* A step that writes nothing as bot or agent, and takes no run nearer to writing.
LEMMA QuietTicket ==
    ASSUME SupportInv, SupportRows', NEW k \in Tickets,
           From(k, "bot")' = From(k, "bot"), From(k, "agent")' = From(k, "agent"),
           Out(k) => Out(k)', expiries <= expiries',
           IsFiniteSet(Handling(RunSteps, k)'),
           Count(RunSteps, k)' <= (IF k \in running' THEN 1 ELSE 0) + expiries',
           Count(WriteSteps, k)' <= Count(WriteSteps, k),
           ~Out(k)' => Count(AnswerSteps, k)' <= Count(AnswerSteps, k),
           Out(k)' => Count(PendingSteps(k), k)' <= Count(PendingSteps(k), k)
    PROVE  TicketInv(k)'
  <1>1. TicketInv(k) /\ SupportRows /\ IsFiniteSet(Handling(RunSteps, k))
    BY DEF SupportInv, TicketInv
  <1>2. \A steps \in SUBSET RunSteps : Count(steps, k) \in Nat
    BY <1>1, CountsTyped
  <1>3. \A steps \in SUBSET RunSteps : Count(steps, k)' \in Nat
    <2>1. \A steps \in SUBSET RunSteps : Handling(steps, k)' \subseteq Handling(RunSteps, k)'
      BY DEF Handling, In
    <2> QED BY <2>1, FS_Subset, FS_CardinalityType DEF Count
  <1>4. PendingSteps(k)' = PendingSteps(k)
    BY DEF PendingSteps
  <1>5. /\ Count(WriteSteps, k) \in Nat /\ Count(AnswerSteps, k) \in Nat
        /\ Count(PendingSteps(k), k) \in Nat
        /\ Count(WriteSteps, k)' \in Nat /\ Count(AnswerSteps, k)' \in Nat
        /\ Count(PendingSteps(k), k)' \in Nat
    BY <1>2, <1>3, <1>4, StepSets
  <1>6. /\ Replies(k)' = Replies(k) /\ After(k)' = After(k)
        /\ Cardinality(After(k))' = Cardinality(After(k))
    BY DEF Replies, After
  <1>7. Replies(k) \in Nat /\ Cardinality(After(k)) \in Nat /\ MaxReplies \in Nat
    BY <1>1, MessagesTyped, SupportConstants
  <1>8. expiries \in Nat /\ expiries' \in Nat
    BY <1>1 DEF SupportRows
  <1>9. Cardinality(After(k))' + Count(WriteSteps, k)' <= 1 + expiries'
    BY <1>1, <1>5, <1>6, <1>7, <1>8 DEF TicketInv
  <1>10. ~Out(k)' => Replies(k)' + Count(AnswerSteps, k)' <= MaxReplies + expiries'
    BY <1>1, <1>5, <1>6, <1>7, <1>8 DEF TicketInv
  <1>11. Out(k)' => Replies(k)' + Count(PendingSteps(k), k)' <= MaxReplies + 1 + 2 * expiries'
    <2>1. Replies(k) + Count(PendingSteps(k), k) <= MaxReplies + 1 + 2 * expiries
      BY <1>1, PendingBound DEF TicketInv
    <2> QED BY <1>5, <1>6, <1>7, <1>8, <2>1
  <1> QED BY <1>9, <1>10, <1>11 DEF TicketInv

\* A handler's step concerns one ticket.
LEMMA OneTicket ==
    ASSUME SupportInv, NEW t \in Tasks, NEW y \in SupportTask, NEW k \in Tickets,
           task' = [task EXCEPT ![t] = y],
           task[t] = Idle \/ task[t].ticket = k,
           y # Idle => y.ticket = k /\ Opened(k)',
           \A j \in Tickets : Opened(j) => Opened(j)',
           SupportRows',
           \A j \in Tickets \ {k} : /\ ticket'[j] = ticket[j] /\ history'[j] = history[j]
                                    /\ j \in running' <=> j \in running,
           expiries' = expiries,
           TicketInv(k)'
    PROVE  SupportInv'
  <1>1. task \in [Tasks -> SupportTask] /\ SupportRows
    BY DEF SupportInv
  <1>2. task' \in [Tasks -> SupportTask]
    BY <1>1
  <1>3. ASSUME NEW s \in Tasks, task'[s] # Idle
        PROVE  Opened(task[s].ticket)'
    <2>1. CASE s = t
      BY <1>1, <1>3, <2>1 DEF Opened
    <2>2. CASE s # t
      <3>1. task'[s] = task[s] /\ task[s] \in SupportTask
        BY <1>1, <2>2
      <3>2. Opened(task[s].ticket) /\ task[s].ticket \in Tickets
        BY <1>3, <3>1, SupportTaskKinds DEF SupportInv
      <3> QED BY <3>1, <3>2 DEF Opened
    <2> QED BY <2>1, <2>2
  <1>4. ASSUME NEW j \in Tickets, j # k
        PROVE  TicketInv(j)'
    <2>1. TicketInv(j) /\ IsFiniteSet(Handling(RunSteps, j))
      BY DEF SupportInv, TicketInv
    <2>2. \A steps \in SUBSET RunSteps : ~In(task[t], steps, j) /\ ~In(y, steps, j)
      BY <1>4, SupportIdle DEF In, Idle, RunSteps
    <2>3. /\ IsFiniteSet(Handling(RunSteps, j)')
          /\ \A steps \in SUBSET RunSteps : Count(steps, j)' = Count(steps, j) - 0 + 0
      BY <1>1, <2>1, <2>2, MovesCount
    <2>4. \A steps \in SUBSET RunSteps : Count(steps, j)' = Count(steps, j)
      BY <2>1, <2>3, CountsTyped
    <2>5. /\ From(j, "bot")' = From(j, "bot") /\ From(j, "agent")' = From(j, "agent")
          /\ Out(j)' = Out(j) /\ PendingSteps(j)' = PendingSteps(j)
      BY <1>4 DEF From, Out, PendingSteps
    <2>6. /\ Count(RunSteps, j)' = Count(RunSteps, j)
          /\ Count(WriteSteps, j)' = Count(WriteSteps, j)
          /\ Count(AnswerSteps, j)' = Count(AnswerSteps, j)
          /\ Count(PendingSteps(j), j)' = Count(PendingSteps(j), j)
      BY <2>4, <2>5, StepSets
    <2>7. /\ Count(WriteSteps, j) \in Nat /\ Count(AnswerSteps, j) \in Nat
          /\ Count(PendingSteps(j), j) \in Nat /\ expiries \in Nat
      BY <1>1, <2>1, CountsTyped, StepSets DEF SupportRows
    <2>8. Count(RunSteps, j)' <= (IF j \in running' THEN 1 ELSE 0) + expiries'
      BY <1>4, <2>1, <2>6 DEF TicketInv
    <2> QED BY <2>3, <2>5, <2>6, <2>7, <2>8, QuietTicket
  <1> QED BY <1>2, <1>3, <1>4 DEF SupportInv

\* A handler that goes on without writing as the bot.
LEMMA QuietMove ==
    ASSUME SupportInv, NEW t \in Tasks, NEW y \in SupportTask, NEW k \in Tickets,
           task' = [task EXCEPT ![t] = y],
           task[t] = Idle \/ task[t].ticket = k,
           y # Idle => y.ticket = k /\ Opened(k)',
           \A j \in Tickets : Opened(j) => Opened(j)',
           SupportRows',
           \A j \in Tickets \ {k} : /\ ticket'[j] = ticket[j] /\ history'[j] = history[j]
                                    /\ j \in running' <=> j \in running,
           expiries' = expiries,
           From(k, "bot")' = From(k, "bot"), From(k, "agent")' = From(k, "agent"),
           Out(k) => Out(k)',
           \/ /\ k \in running' <=> k \in running
              /\ In(y, RunSteps, k) => In(task[t], RunSteps, k)
           \/ k \notin running /\ k \in running'
           \/ In(task[t], RunSteps, k) /\ ~In(y, RunSteps, k),
           In(y, WriteSteps, k) => In(task[t], WriteSteps, k),
           ~Out(k)' => (In(y, AnswerSteps, k) => In(task[t], AnswerSteps, k)),
           Out(k)' => (In(y, PendingSteps(k), k) => In(task[t], PendingSteps(k), k))
    PROVE  SupportInv'
  <1>1. /\ task \in [Tasks -> SupportTask] /\ SupportRows
        /\ TicketInv(k) /\ IsFiniteSet(Handling(RunSteps, k))
    BY DEF SupportInv, TicketInv
  <1>2. /\ IsFiniteSet(Handling(RunSteps, k)')
        /\ \A steps \in SUBSET RunSteps :
              Count(steps, k)' = Count(steps, k) - (IF In(task[t], steps, k) THEN 1 ELSE 0)
                                                 + (IF In(y, steps, k) THEN 1 ELSE 0)
    BY <1>1, MovesCount
  <1>3. \A steps \in SUBSET RunSteps : Count(steps, k) \in Nat
    BY <1>1, CountsTyped
  <1>4. Count(WriteSteps, k)' <= Count(WriteSteps, k)
    BY <1>2, <1>3, StepSets
  <1>5. ~Out(k)' => Count(AnswerSteps, k)' <= Count(AnswerSteps, k)
    BY <1>2, <1>3, StepSets
  <1>6. Out(k)' => Count(PendingSteps(k), k)' <= Count(PendingSteps(k), k)
    <2>1. PendingSteps(k)' = PendingSteps(k)
      BY DEF PendingSteps
    <2>2. PICK steps : steps = PendingSteps(k)
      OBVIOUS
    <2>3. Out(k)' => Count(steps, k)' <= Count(steps, k)
      BY <1>2, <1>3, <2>2, StepSets
    <2> QED BY <2>1, <2>2, <2>3
  <1>7. Count(RunSteps, k)' <= (IF k \in running' THEN 1 ELSE 0) + expiries'
    <2>1. /\ Count(RunSteps, k) \in Nat /\ expiries \in Nat
          /\ Count(RunSteps, k)' = Count(RunSteps, k)
                - (IF In(task[t], RunSteps, k) THEN 1 ELSE 0)
                + (IF In(y, RunSteps, k) THEN 1 ELSE 0)
      BY <1>1, <1>2, <1>3 DEF SupportRows
    <2>2. Count(RunSteps, k) <= (IF k \in running THEN 1 ELSE 0) + expiries
      BY <1>1 DEF TicketInv
    <2> QED BY <2>1, <2>2
  <1>8. expiries \in Nat /\ expiries <= expiries'
    BY <1>1 DEF SupportRows
  <1>9. TicketInv(k)'
    BY <1>2, <1>4, <1>5, <1>6, <1>7, <1>8, QuietTicket
  <1> QED BY <1>9, OneTicket

\* A run that only looks or asks.
LEMMA RunGoesOn ==
    ASSUME SupportInv, NEW t \in Tasks, NEW y \in SupportTask,
           task' = [task EXCEPT ![t] = y], task[t].at \in RunSteps,
           y.at \in RunSteps, y.ticket = task[t].ticket,
           UNCHANGED <<ticket, history, running, rerun, expiries>>,
           y.at \in WriteSteps => task[t].at \in WriteSteps,
           y.at \in AnswerSteps => task[t].at \in AnswerSteps,
           y.at = "readHistory" => ~ticket[task[t].ticket].needsAgent
    PROVE  SupportInv'
  <1>1. /\ task \in [Tasks -> SupportTask] /\ SupportRows /\ task[t] \in SupportTask
        /\ task[t].at # "idle"
    BY DEF SupportInv, RunSteps
  <1>2. PICK k \in Tickets : k = task[t].ticket /\ Opened(k)
    BY <1>1, SupportTaskKinds DEF SupportInv
  <1>3. /\ UNCHANGED <<ticket, history, running, rerun, expiries>>
        /\ Out(k)' = Out(k) /\ PendingSteps(k)' = PendingSteps(k)
        /\ SupportRows'
    BY <1>1 DEF SupportRows, Out, PendingSteps, From
  <1>4. /\ From(k, "bot")' = From(k, "bot") /\ From(k, "agent")' = From(k, "agent")
        /\ \A j \in Tickets : Opened(j)' = Opened(j)
    BY <1>3 DEF From, Opened
  <1>5. Out(k)' => (In(y, PendingSteps(k), k) => In(task[t], PendingSteps(k), k))
    BY <1>2, <1>3 DEF In, PendingSteps, Out
  <1>6. /\ In(y, WriteSteps, k) => In(task[t], WriteSteps, k)
        /\ In(y, AnswerSteps, k) => In(task[t], AnswerSteps, k)
        /\ In(task[t], RunSteps, k)
    BY <1>2 DEF In
  <1> QED BY <1>2, <1>3, <1>4, <1>5, <1>6, QuietMove

-----------------------------------------------------------------------------
(* The support bot: its steps *)

LEMMA StepTyped ==
    ASSUME task \in [Tasks -> SupportTask], NEW t \in Tasks, NEW step, Step(t, step),
           NEW steps \in {{"ask", "runTools", "recheck"}, {"mark", "markLimit", "reply"},
                          {"schedule", "readConfig", "readTicket", "readHistory",
                           "finish", "failed"}},
           task[t].at \in steps, step \in steps
    PROVE  \E y \in SupportTask : /\ y.at = step /\ y.ticket = task[t].ticket /\ y # Idle
                                  /\ task' = [task EXCEPT ![t] = y]
  <1>1. PICK y : y = [task[t] EXCEPT !.at = step]
    OBVIOUS
  <1>2. task[t] \in SupportTask
    OBVIOUS
  <1>3. y \in SupportTask /\ y.at = step /\ y.ticket = task[t].ticket /\ y # Idle
    <2>1. CASE steps = {"ask", "runTools", "recheck"}
      <3>1. task[t] \in [at : {"ask", "runTools", "recheck"}, ticket : Tickets,
                         seen : Nat, call : Nat, handoff : BOOLEAN]
        BY <1>2, <2>1, SupportTaskKinds
      <3> QED BY <1>1, <2>1, <3>1 DEF SupportTask, Idle
    <2>2. CASE steps = {"mark", "markLimit", "reply"}
      <3>1. task[t] \in [at : {"mark", "markLimit", "reply"}, ticket : Tickets, seen : Nat]
        BY <1>2, <2>2, SupportTaskKinds
      <3> QED BY <1>1, <2>2, <3>1 DEF SupportTask, Idle
    <2>3. CASE steps = {"schedule", "readConfig", "readTicket", "readHistory", "finish",
                        "failed"}
      <3>1. task[t] \in [at : {"schedule", "readConfig", "readTicket", "readHistory",
                               "finish", "failed"}, ticket : Tickets]
        BY <1>2, <2>3, SupportTaskKinds
      <3> QED BY <1>1, <2>3, <3>1 DEF SupportTask, Idle
    <2> QED BY <2>1, <2>2, <2>3
  <1>4. task' = [task EXCEPT ![t] = y]
    BY <1>1 DEF Step
  <1> QED BY <1>3, <1>4

\* The database or the model fails a run.
LEMMA FailsKeep ==
    ASSUME SupportInv, NEW t \in Tasks, ReplyFails(t)
    PROVE  SupportInv'
  <1>1. /\ task[t] \in SupportTask
        /\ task[t].at \in {"readConfig", "readTicket", "readHistory", "ask", "runTools",
                           "recheck", "mark", "markLimit", "reply"}
    BY DEF SupportInv, ReplyFails, Writing
  <1>2. task[t].ticket \in Tickets /\ task[t].at \in RunSteps
    BY <1>1, SupportTaskKinds DEF RunSteps
  <1>3. PICK y \in SupportTask : /\ task' = [task EXCEPT ![t] = y]
                                 /\ y.at = "failed" /\ y.ticket = task[t].ticket
    BY <1>2, OnTyped DEF ReplyFails, Goto
  <1>4. UNCHANGED <<ticket, history, running, rerun, expiries>>
    BY DEF ReplyFails, supportVars, desk, marks
  <1>5. /\ y.at \in RunSteps /\ y.at \notin WriteSteps /\ y.at \notin AnswerSteps
        /\ y.at # "readHistory"
    BY <1>3 DEF RunSteps, WriteSteps, AnswerSteps
  <1> QED BY <1>2, <1>3, <1>4, <1>5, RunGoesOn

LEMMA LooksKeep ==
    ASSUME SupportInv, NEW t \in Tasks, getCurrentBotConfig(t) \/ ReadTicket(t)
    PROVE  SupportInv'
  <1>1. task \in [Tasks -> SupportTask] /\ task[t] \in SupportTask
    BY DEF SupportInv
  <1>2. CASE getCurrentBotConfig(t)
    <2>1. PICK step \in {"readTicket", "finish"} : Step(t, step)
      BY <1>2 DEF getCurrentBotConfig
    <2>2. /\ task[t].at = "readConfig"
          /\ UNCHANGED <<ticket, history, running, rerun, expiries>>
      BY <1>2 DEF getCurrentBotConfig, At, supportVars, desk, marks
    <2>3. PICK y \in SupportTask : /\ y.at = step /\ y.ticket = task[t].ticket
                                   /\ task' = [task EXCEPT ![t] = y]
      BY <1>1, <2>1, <2>2, StepTyped
    <2>4. /\ task[t].at \in RunSteps /\ y.at \in RunSteps
          /\ y.at \notin WriteSteps /\ y.at \notin AnswerSteps /\ y.at # "readHistory"
      BY <2>1, <2>2, <2>3 DEF RunSteps, WriteSteps, AnswerSteps
    <2> QED BY <2>2, <2>3, <2>4, RunGoesOn
  <1>3. CASE ReadTicket(t)
    <2>1. PICK step \in {"readHistory", "finish"} :
              /\ Step(t, step)
              /\ step = "readHistory" => ~ticket[task[t].ticket].needsAgent
      BY <1>3 DEF ReadTicket
    <2>2. /\ task[t].at = "readTicket"
          /\ UNCHANGED <<ticket, history, running, rerun, expiries>>
      BY <1>3 DEF ReadTicket, At, supportVars, desk, marks
    <2>3. PICK y \in SupportTask : /\ y.at = step /\ y.ticket = task[t].ticket
                                   /\ task' = [task EXCEPT ![t] = y]
      BY <1>1, <2>1, <2>2, StepTyped
    <2>4. /\ task[t].at \in RunSteps /\ y.at \in RunSteps
          /\ y.at \notin WriteSteps /\ y.at \notin AnswerSteps
      BY <2>1, <2>2, <2>3 DEF RunSteps, WriteSteps, AnswerSteps
    <2> QED BY <2>1, <2>2, <2>3, <2>4, RunGoesOn
  <1> QED BY <1>2, <1>3

LEMMA AsksKeep ==
    ASSUME SupportInv, NEW t \in Tasks, AskModel(t) \/ RunTools(t) \/ Recheck(t)
    PROVE  SupportInv'
  <1> DEFINE Kind == [at : {"ask", "runTools", "recheck"}, ticket : Tickets,
                      seen : Nat, call : Nat, handoff : BOOLEAN]
             k == task[t].ticket
  <1>1. task[t] \in SupportTask /\ task[t].at \in {"ask", "runTools", "recheck"}
    BY DEF SupportInv, AskModel, RunTools, Recheck, At
  <1>2. task[t] \in Kind /\ k \in Tickets
    BY <1>1, SupportTaskKinds
  <1>3. UNCHANGED <<ticket, history, running, rerun, expiries>>
    BY DEF AskModel, RunTools, Recheck, supportVars, desk, marks
  <1>4. \A step \in {"ask", "runTools", "recheck"}, h \in BOOLEAN, n \in Nat :
            /\ [task[t] EXCEPT !.at = step] \in Kind
            /\ [task[t] EXCEPT !.at = step, !.handoff = h] \in Kind
            /\ [task[t] EXCEPT !.at = step, !.call = n, !.handoff = h] \in Kind
    BY <1>2
  <1>5. Kind \subseteq SupportTask
    BY DEF SupportTask
  <1>6. PICK y \in SupportTask :
            /\ task' = [task EXCEPT ![t] = y] /\ y.ticket = k
            /\ y.at \in {"ask", "runTools", "recheck", "finish", "mark", "reply"}
    <2>1. CASE AskModel(t)
      <3>1. \/ task' = [task EXCEPT ![t] = [task[t] EXCEPT !.at = "recheck"]]
            \/ task' = [task EXCEPT ![t] = [task[t] EXCEPT !.at = "recheck",
                                                            !.handoff = TRUE]]
            \/ task' = [task EXCEPT ![t] = [task[t] EXCEPT !.at = "runTools"]]
        BY <2>1 DEF AskModel, Step, Goto
      <3> HIDE DEF Kind
      <3>3. \A step \in {"ask", "runTools", "recheck"}, h \in BOOLEAN :
                /\ [task[t] EXCEPT !.at = step] \in SupportTask
                /\ [task[t] EXCEPT !.at = step, !.handoff = h] \in SupportTask
        BY <1>4, <1>5
      <3>4. \A step \in {"ask", "runTools", "recheck"}, h \in BOOLEAN :
                /\ [task[t] EXCEPT !.at = step].at = step
                /\ [task[t] EXCEPT !.at = step].ticket = k
                /\ [task[t] EXCEPT !.at = step, !.handoff = h].at = step
                /\ [task[t] EXCEPT !.at = step, !.handoff = h].ticket = k
        BY <1>2 DEF Kind
      <3> QED BY <3>1, <3>3, <3>4
    <2>2. CASE RunTools(t)
      <3>1. PICK h \in BOOLEAN :
                \/ task' = [task EXCEPT ![t] = [task[t] EXCEPT !.at = "ask",
                                          !.call = task[t].call + 1, !.handoff = h]]
                \/ task' = [task EXCEPT ![t] = [task[t] EXCEPT !.at = "recheck",
                                                                !.handoff = TRUE]]
        BY <1>2, <2>2 DEF RunTools, Goto
      <3>3. task[t].call + 1 \in Nat
        BY <1>2
      <3> HIDE DEF Kind
      <3>4. /\ [task[t] EXCEPT !.at = "ask", !.call = task[t].call + 1, !.handoff = h]
                    \in SupportTask
            /\ [task[t] EXCEPT !.at = "recheck", !.handoff = TRUE] \in SupportTask
        BY <1>4, <1>5, <3>3
      <3>5. /\ [task[t] EXCEPT !.at = "ask", !.call = task[t].call + 1, !.handoff = h].at = "ask"
            /\ [task[t] EXCEPT !.at = "ask", !.call = task[t].call + 1, !.handoff = h].ticket = k
            /\ [task[t] EXCEPT !.at = "recheck", !.handoff = TRUE].at = "recheck"
            /\ [task[t] EXCEPT !.at = "recheck", !.handoff = TRUE].ticket = k
        BY <1>2 DEF Kind
      <3> QED BY <3>1, <3>4, <3>5
    <2>3. CASE Recheck(t)
      <3>1. \/ task' = [task EXCEPT ![t] = On("finish", k)]
            \/ \E step \in {"mark", "reply"} :
                  task' = [task EXCEPT ![t] = [at |-> step, ticket |-> k,
                                               seen |-> task[t].seen]]
        BY <2>3 DEF Recheck, Goto
      <3>2. /\ On("finish", k) \in SupportTask /\ On("finish", k).at = "finish"
            /\ On("finish", k).ticket = k
        BY <1>2, OnTyped
      <3>3. ASSUME NEW step \in {"mark", "reply"}
            PROVE  [at |-> step, ticket |-> k, seen |-> task[t].seen] \in SupportTask
        BY <1>2 DEF SupportTask
      <3> HIDE DEF Kind
      <3> QED BY <3>1, <3>2, <3>3
    <2> QED BY <2>1, <2>2, <2>3
  <1>7. /\ task[t].at \in RunSteps /\ task[t].at \in WriteSteps /\ task[t].at \in AnswerSteps
        /\ y.at \in RunSteps /\ y.at # "readHistory"
    BY <1>1, <1>6 DEF RunSteps, WriteSteps, AnswerSteps
  <1> QED BY <1>3, <1>6, <1>7, RunGoesOn

LEMMA MarksKeep ==
    ASSUME SupportInv, NEW t \in Tasks, MarkNeedsAgent(t) \/ replyAsBotSafely(t),
           ticket' = [ticket EXCEPT ![task[t].ticket].needsAgent = TRUE]
    PROVE  SupportInv'
  <1>1. /\ task \in [Tasks -> SupportTask] /\ SupportRows /\ task[t] \in SupportTask
        /\ task[t].at \in {"mark", "markLimit", "failed"}
    BY DEF SupportInv, MarkNeedsAgent, replyAsBotSafely, At
  <1>2. PICK k \in Tickets : k = task[t].ticket /\ Opened(k) /\ task[t] # Idle
    BY <1>1, SupportTaskKinds DEF SupportInv
  <1>3. /\ ticket' = [ticket EXCEPT ![k].needsAgent = TRUE]
        /\ UNCHANGED <<history, running, rerun, expiries>>
    BY <1>2 DEF MarkNeedsAgent, replyAsBotSafely, marks
  <1>4. PICK y \in SupportTask : /\ task' = [task EXCEPT ![t] = y]
                                 /\ y.ticket = k /\ y.at \in {"reply", "finish"}
                                 /\ y.at = "reply" => task[t].at \in {"mark", "markLimit"}
    <2>1. CASE MarkNeedsAgent(t)
      BY <1>1, <1>2, <2>1, StepTyped DEF MarkNeedsAgent
    <2>2. CASE replyAsBotSafely(t)
      BY <1>1, <1>2, <2>2, StepTyped DEF replyAsBotSafely, At
    <2> QED BY <2>1, <2>2
  <1>5. ticket[k] \in TicketRow
    BY <1>1, <1>2 DEF SupportRows, Opened
  <1>6. /\ ticket' \in [Tickets -> TicketRow \cup {NoTicket}]
        /\ ticket'[k] \in TicketRow /\ ticket'[k].needsAgent
        /\ \A j \in Tickets \ {k} : ticket'[j] = ticket[j]
    <2>1. PICK row : row = [ticket[k] EXCEPT !.needsAgent = TRUE]
      OBVIOUS
    <2>2. row \in TicketRow /\ row.needsAgent
      BY <1>5, <2>1 DEF TicketRow
    <2>3. ticket' = [ticket EXCEPT ![k] = row] /\ ticket \in [Tickets -> TicketRow \cup {NoTicket}]
      BY <1>1, <1>3, <2>1 DEF SupportRows
    <2> QED BY <2>2, <2>3
  <1>7. ticket'[k] # NoTicket
    BY <1>6 DEF TicketRow, NoTicket, TicketStatuses
  <1>8. /\ SupportRows' /\ Opened(k)' /\ \A j \in Tickets : Opened(j) => Opened(j)'
    BY <1>1, <1>3, <1>6, <1>7 DEF SupportRows, Opened
  <1>9. /\ From(k, "bot")' = From(k, "bot") /\ From(k, "agent")' = From(k, "agent")
        /\ Out(k)' /\ PendingSteps(k)' = PendingSteps(k)
    BY <1>3, <1>6 DEF From, Out, PendingSteps
  <1>10. /\ In(task[t], RunSteps, k)
         /\ In(y, WriteSteps, k) => In(task[t], WriteSteps, k)
         /\ In(y, PendingSteps(k), k) => In(task[t], PendingSteps(k), k)
    BY <1>1, <1>2, <1>4 DEF In, RunSteps, WriteSteps, AnswerSteps, PendingSteps
  <1> QED BY <1>2, <1>3, <1>4, <1>6, <1>8, <1>9, <1>10, QuietMove

\* When that fails, only the run ends.
LEMMA UnmarkedKeeps ==
    ASSUME SupportInv, NEW t \in Tasks, replyAsBotSafely(t), UNCHANGED ticket
    PROVE  SupportInv'
  <1>1. /\ task \in [Tasks -> SupportTask] /\ task[t].at = "failed" /\ Step(t, "finish")
        /\ UNCHANGED <<ticket, history, running, rerun, expiries>>
    BY DEF SupportInv, replyAsBotSafely, At, marks
  <1>2. PICK y \in SupportTask : /\ task' = [task EXCEPT ![t] = y]
                                 /\ y.at = "finish" /\ y.ticket = task[t].ticket
    BY <1>1, StepTyped
  <1>3. /\ task[t].at \in RunSteps /\ y.at \in RunSteps
        /\ y.at \notin WriteSteps /\ y.at \notin AnswerSteps /\ y.at # "readHistory"
    BY <1>1, <1>2 DEF RunSteps, WriteSteps, AnswerSteps
  <1> QED BY <1>1, <1>2, <1>3, RunGoesOn

\* A run that has read the messages: it answers below the limit, or says at the
\* limit that a person takes over, when no agent has written.
LEMMA ReadHistoryKeeps ==
    ASSUME SupportInv, NEW t \in Tasks, ReadHistory(t)
    PROVE  SupportInv'
  <1>1. /\ task \in [Tasks -> SupportTask] /\ SupportRows /\ task[t] \in SupportTask
        /\ task[t].at = "readHistory" /\ UNCHANGED supportVars
    BY DEF SupportInv, ReadHistory, At
  <1>2. PICK k \in Tickets : k = task[t].ticket /\ Opened(k) /\ task[t] # Idle
    BY <1>1, SupportTaskKinds DEF SupportInv
  <1>3. CASE task' = [task EXCEPT ![t] = On("finish", k)]
    <2>1. On("finish", k) \in SupportTask /\ On("finish", k).at = "finish"
          /\ On("finish", k).ticket = k
      BY OnTyped
    <2>2. /\ "readHistory" \in RunSteps /\ "finish" \in RunSteps
          /\ "finish" \notin WriteSteps /\ "finish" \notin AnswerSteps
      BY DEF RunSteps, WriteSteps, AnswerSteps
    <2>3. UNCHANGED <<ticket, history, running, rerun, expiries>>
      BY <1>1 DEF supportVars, desk, marks
    <2> QED BY <1>1, <1>2, <1>3, <2>1, <2>2, <2>3, RunGoesOn
  <1>4. CASE /\ From(k, "agent") = {}
             /\ \E y \in SupportTask :
                    /\ task' = [task EXCEPT ![t] = y] /\ y.ticket = k
                    /\ y.at \in {"ask", "markLimit"}
                    /\ y.at = "ask" => Replies(k) < MaxReplies
    <2>1. PICK y \in SupportTask : /\ task' = [task EXCEPT ![t] = y] /\ y.ticket = k
                                   /\ y.at \in {"ask", "markLimit"}
                                   /\ y.at = "ask" => Replies(k) < MaxReplies
      BY <1>4
    <2>2. /\ UNCHANGED <<ticket, history, running, rerun, expiries>> /\ SupportRows'
          /\ \A j \in Tickets : Opened(j)' = Opened(j)
      BY <1>1 DEF supportVars, desk, marks, SupportRows, Opened
    <2>3. /\ From(k, "bot")' = From(k, "bot") /\ From(k, "agent")' = {}
          /\ Out(k)' = Out(k) /\ After(k)' = After(k)
          /\ Replies(k)' = Replies(k)
          /\ Cardinality(After(k))' = Cardinality(After(k))
          /\ PendingSteps(k)' = PendingSteps(k)
      BY <1>4, <2>2 DEF From, Out, After, Replies, PendingSteps
    <2>4. TicketInv(k) /\ IsFiniteSet(Handling(RunSteps, k))
      BY DEF SupportInv, TicketInv
    <2>5. /\ In(task[t], RunSteps, k) /\ In(y, RunSteps, k)
          /\ ~In(task[t], WriteSteps, k) /\ ~In(task[t], AnswerSteps, k)
          /\ In(task[t], PendingSteps(k), k) /\ In(y, PendingSteps(k), k)
          /\ In(y, AnswerSteps, k) => y.at = "ask"
      BY <1>1, <1>2, <1>4, <2>1 DEF In, RunSteps, WriteSteps, AnswerSteps, PendingSteps
    <2>6. /\ IsFiniteSet(Handling(RunSteps, k)')
          /\ \A steps \in SUBSET RunSteps :
                Count(steps, k)' = Count(steps, k) - (IF In(task[t], steps, k) THEN 1 ELSE 0)
                                                   + (IF In(y, steps, k) THEN 1 ELSE 0)
      BY <1>1, <2>1, <2>4, MovesCount
    <2>7. \A steps \in SUBSET RunSteps :
              /\ Count(steps, k) \in Nat /\ Count(steps, k) <= Count(RunSteps, k)
              /\ Count(steps, k)' \in Nat /\ Count(steps, k)' <= Count(RunSteps, k)'
      <3>1. ASSUME NEW steps \in SUBSET RunSteps
            PROVE  /\ IsFiniteSet(Handling(steps, k)')
                   /\ Handling(steps, k)' \subseteq Handling(RunSteps, k)'
        <4>1. Handling(steps, k)' \subseteq Handling(RunSteps, k)'
          BY DEF Handling, In
        <4> QED BY <2>6, <4>1, FS_Subset
      <3> QED BY <2>4, <2>6, <3>1, CountsTyped, FS_Subset, FS_CardinalityType DEF Count
    <2>8. RunSteps \in SUBSET RunSteps
      OBVIOUS
    <2>9. /\ Count(RunSteps, k)' = Count(RunSteps, k) /\ Count(RunSteps, k) \in Nat
          /\ Count(WriteSteps, k)' <= Count(RunSteps, k) /\ Count(WriteSteps, k)' \in Nat
          /\ Count(AnswerSteps, k)' <= Count(RunSteps, k) /\ Count(AnswerSteps, k)' \in Nat
          /\ Count(AnswerSteps, k) \in Nat
          /\ y.at # "ask" => Count(AnswerSteps, k)' = Count(AnswerSteps, k)
      BY <2>5, <2>6, <2>7, <2>8, StepSets
    <2>10. Count(PendingSteps(k), k)' = Count(PendingSteps(k), k)
      <3>1. PICK steps : steps = PendingSteps(k)
        OBVIOUS
      <3>2. steps \in SUBSET RunSteps
        BY <3>1, StepSets
      <3>3. Count(steps, k)' = Count(steps, k)
        BY <2>5, <2>6, <2>7, <3>1, <3>2
      <3> QED BY <2>3, <3>1, <3>3
    <2>11. /\ Count(RunSteps, k) <= (IF k \in running THEN 1 ELSE 0) + expiries
           /\ expiries \in Nat /\ MaxReplies \in Nat /\ Replies(k) \in Nat
           /\ Cardinality(After(k)) = 0
      BY <1>1, <1>4, <2>4, MessagesTyped, SupportConstants DEF TicketInv, SupportRows
    <2>12. Count(RunSteps, k)' <= (IF k \in running' THEN 1 ELSE 0) + expiries'
      BY <2>2, <2>9, <2>11
    <2>13. Cardinality(After(k))' + Count(WriteSteps, k)' <= 1 + expiries'
      BY <2>2, <2>3, <2>9, <2>11
    <2>14. ~Out(k)' => Replies(k)' + Count(AnswerSteps, k)' <= MaxReplies + expiries'
      <3>1. CASE y.at = "ask"
        BY <2>1, <2>2, <2>3, <2>9, <2>11, <3>1
      <3>2. CASE y.at # "ask"
        BY <2>2, <2>3, <2>4, <2>9, <3>2 DEF TicketInv
      <3> QED BY <3>1, <3>2
    <2>15. Out(k)' => Replies(k)' + Count(PendingSteps(k), k)'
                          <= MaxReplies + 1 + 2 * expiries'
      BY <2>2, <2>3, <2>4, <2>10 DEF TicketInv
    <2>16. TicketInv(k)'
      BY <2>6, <2>12, <2>13, <2>14, <2>15 DEF TicketInv
    <2> QED BY <1>2, <2>1, <2>2, <2>16, OneTicket
  <1>5. \/ task' = [task EXCEPT ![t] = On("finish", k)]
        \/ /\ From(k, "agent") = {}
           /\ \/ task' = [task EXCEPT ![t] = Reading("markLimit", k)]
              \/ /\ ~(Cardinality(From(k, "bot")) >= MaxReplies)
                 /\ task' = [task EXCEPT ![t] = Asking(k)]
    BY <1>2 DEF ReadHistory, Goto
  <1>6. Len(history[k]) \in Nat
    BY <1>1 DEF SupportRows
  <1>7. /\ Reading("markLimit", k) \in SupportTask
        /\ Reading("markLimit", k).at = "markLimit" /\ Reading("markLimit", k).ticket = k
    BY <1>6 DEF Reading, SupportTask
  <1>8. Asking(k) \in SupportTask /\ Asking(k).at = "ask" /\ Asking(k).ticket = k
    BY <1>6 DEF Asking, SupportTask
  <1>9. ~(Cardinality(From(k, "bot")) >= MaxReplies) => Replies(k) < MaxReplies
    BY <1>1, MessagesTyped, SupportConstants DEF Replies
  <1> QED BY <1>3, <1>4, <1>5, <1>6, <1>7, <1>8, <1>9

\* The bot writes: one step less that writes, one message more.
LEMMA BotWrites ==
    ASSUME SupportInv, NEW t \in Tasks, addBotMessage(t)
    PROVE  SupportInv'
  <1>1. /\ task \in [Tasks -> SupportTask] /\ SupportRows /\ task[t] \in SupportTask
        /\ task[t].at = "reply"
    BY DEF SupportInv, addBotMessage, At
  <1>2. PICK k \in Tickets : k = task[t].ticket /\ Opened(k) /\ task[t] # Idle
    BY <1>1, SupportTaskKinds DEF SupportInv
  <1>3. /\ addMessage(k, "bot") /\ \E step \in {"finish", "failed"} : Goto(t, On(step, k))
        /\ UNCHANGED <<ticket, running, rerun, expiries>>
    BY <1>2 DEF addBotMessage, marks
  <1>4. PICK y \in SupportTask : /\ task' = [task EXCEPT ![t] = y]
                                 /\ y.ticket = k /\ y.at \in {"finish", "failed"}
    <2>1. PICK step \in {"finish", "failed"} : Goto(t, On(step, k))
      BY <1>3
    <2>2. On(step, k) \in SupportTask /\ On(step, k).at = step /\ On(step, k).ticket = k
      BY OnTyped
    <2> QED BY <2>1, <2>2 DEF Goto
  <1>5. "bot" \in Senders /\ "agent" \in Senders /\ "bot" # "agent"
    BY DEF Senders
  <1>6. PICK n : n = Len(history[k]) + 1
    OBVIOUS
  <1>7. /\ history' \in [Tickets -> Seq(Senders)]
        /\ \A j \in Tickets : j # k => history'[j] = history[j]
        /\ From(k, "agent")' = From(k, "agent")
        /\ From(k, "bot")' = From(k, "bot") \cup {n}
        /\ n \notin From(k, "bot") \cup From(k, "agent")
    BY <1>1, <1>3, <1>5, <1>6, MessageAdded
  <1>8. /\ SupportRows' /\ \A j \in Tickets : Opened(j)' = Opened(j)
    BY <1>1, <1>3, <1>7 DEF SupportRows, Opened
  <1>9. /\ Out(k)' = Out(k) /\ PendingSteps(k)' = PendingSteps(k)
    BY <1>3, <1>7 DEF Out, PendingSteps
  <1>10. /\ IsFiniteSet(From(k, "bot")) /\ IsFiniteSet(After(k))
         /\ Replies(k) \in Nat /\ Cardinality(After(k)) \in Nat
    BY <1>1, MessagesTyped
  <1>11. Replies(k)' = Replies(k) + 1
    BY <1>7, <1>10, FS_AddElement DEF Replies
  <1>12. /\ Cardinality(After(k))' <= Cardinality(After(k)) + 1
         /\ Cardinality(After(k))' \in Nat
    <2>1. PICK A : A = After(k)
      OBVIOUS
    <2>2. After(k)' = A \/ After(k)' = A \cup {n}
      BY <1>7, <2>1 DEF After
    <2>3. n \notin A
      BY <1>7, <2>1 DEF After
    <2>4. /\ Cardinality(A) \in Nat
          /\ Cardinality(A \cup {n}) = Cardinality(A) + 1
      BY <1>10, <2>1, <2>3, FS_AddElement
    <2>5. \/ Cardinality(After(k))' = Cardinality(A)
          \/ Cardinality(After(k))' = Cardinality(A \cup {n})
      BY <2>2
    <2> QED BY <2>1, <2>4, <2>5
  <1>13. TicketInv(k) /\ IsFiniteSet(Handling(RunSteps, k))
    BY DEF SupportInv, TicketInv
  <1>14. /\ In(task[t], RunSteps, k) /\ In(y, RunSteps, k)
         /\ In(task[t], WriteSteps, k) /\ ~In(y, WriteSteps, k)
         /\ In(task[t], AnswerSteps, k) /\ ~In(y, AnswerSteps, k)
         /\ In(task[t], PendingSteps(k), k) /\ ~In(y, PendingSteps(k), k)
    BY <1>1, <1>2, <1>4 DEF In, RunSteps, WriteSteps, AnswerSteps, PendingSteps
  <1>15. /\ IsFiniteSet(Handling(RunSteps, k)')
         /\ \A steps \in SUBSET RunSteps :
               Count(steps, k)' = Count(steps, k) - (IF In(task[t], steps, k) THEN 1 ELSE 0)
                                                  + (IF In(y, steps, k) THEN 1 ELSE 0)
    BY <1>1, <1>4, <1>13, MovesCount
  <1>16. \A steps \in SUBSET RunSteps : Count(steps, k) \in Nat
    BY <1>13, CountsTyped
  <1>17. RunSteps \in SUBSET RunSteps
    OBVIOUS
  <1>18. /\ Count(RunSteps, k)' = Count(RunSteps, k)
         /\ Count(WriteSteps, k)' = Count(WriteSteps, k) - 1 /\ Count(WriteSteps, k) \in Nat
         /\ Count(AnswerSteps, k)' = Count(AnswerSteps, k) - 1 /\ Count(AnswerSteps, k) \in Nat
    BY <1>14, <1>15, <1>16, <1>17, StepSets
  <1>19. /\ Count(PendingSteps(k), k)' = Count(PendingSteps(k), k) - 1
         /\ Count(PendingSteps(k), k) \in Nat
    <2>1. PICK steps : steps = PendingSteps(k)
      OBVIOUS
    <2>2. Count(steps, k)' = Count(steps, k) - 1 /\ Count(steps, k) \in Nat
      BY <1>14, <1>15, <1>16, <2>1, StepSets
    <2> QED BY <1>9, <2>1, <2>2
  <1>20. expiries \in Nat /\ MaxReplies \in Nat
    BY <1>1, SupportConstants DEF SupportRows
  <1>21. Count(RunSteps, k)' <= (IF k \in running' THEN 1 ELSE 0) + expiries'
    BY <1>3, <1>13, <1>18 DEF TicketInv
  <1>22. Cardinality(After(k))' + Count(WriteSteps, k)' <= 1 + expiries'
    BY <1>3, <1>10, <1>12, <1>13, <1>18, <1>20 DEF TicketInv
  <1>23. ~Out(k)' => Replies(k)' + Count(AnswerSteps, k)' <= MaxReplies + expiries'
    BY <1>3, <1>9, <1>10, <1>11, <1>13, <1>18, <1>20 DEF TicketInv
  <1>24. Out(k)' => Replies(k)' + Count(PendingSteps(k), k)' <= MaxReplies + 1 + 2 * expiries'
    BY <1>3, <1>9, <1>10, <1>11, <1>13, <1>19, <1>20 DEF TicketInv
  <1>25. TicketInv(k)'
    BY <1>15, <1>21, <1>22, <1>23, <1>24 DEF TicketInv
  <1> QED BY <1>2, <1>3, <1>4, <1>7, <1>8, <1>25, OneTicket

\* An agent writes: what the bot wrote before stays before, and no run that has
\* yet to read the messages will write.
LEMMA AgentWrites ==
    ASSUME SupportInv, NEW k \in Tickets, addAgentMessage(k)
    PROVE  SupportInv'
  <1>1. /\ task \in [Tasks -> SupportTask] /\ SupportRows /\ task' = task
        /\ addMessage(k, "agent") /\ Opened(k)
        /\ ticket' = [ticket EXCEPT ![k].needsAgent = FALSE]
        /\ UNCHANGED <<running, rerun, expiries>>
    BY DEF SupportInv, addAgentMessage, marks
  <1>2. ticket[k] \in TicketRow
    BY <1>1 DEF SupportRows, Opened
  <1>3. /\ ticket' \in [Tickets -> TicketRow \cup {NoTicket}] /\ ticket'[k] \in TicketRow
        /\ \A j \in Tickets \ {k} : ticket'[j] = ticket[j]
    BY <1>1, <1>2 DEF SupportRows, TicketRow
  <1>4. ticket'[k] # NoTicket
    BY <1>3 DEF TicketRow, NoTicket, TicketStatuses
  <1>5. "bot" \in Senders /\ "agent" \in Senders /\ "bot" # "agent"
    BY DEF Senders
  <1>6. PICK n : n = Len(history[k]) + 1
    OBVIOUS
  <1>7. /\ history' \in [Tickets -> Seq(Senders)]
        /\ \A j \in Tickets : j # k => history'[j] = history[j]
        /\ From(k, "bot")' = From(k, "bot")
        /\ From(k, "agent")' = From(k, "agent") \cup {n}
        /\ \A i \in From(k, "bot") : i \in 1..(n - 1)
        /\ n \in Nat
    BY <1>1, <1>5, <1>6, MessageAdded
  <1>8. /\ SupportRows' /\ \A j \in Tickets : Opened(j) => Opened(j)'
    BY <1>1, <1>3, <1>4, <1>7 DEF SupportRows, Opened
  <1>9. After(k)' = After(k)
    <2>1. \A i \in From(k, "bot") : i \in Int /\ ~(n < i)
      BY <1>7
    <2> QED BY <1>7, <2>1 DEF After
  <1>10. /\ Cardinality(After(k))' = Cardinality(After(k)) /\ Replies(k)' = Replies(k)
         /\ Out(k)' /\ PendingSteps(k)' = WriteSteps
    BY <1>7, <1>9 DEF Replies, Out, PendingSteps
  <1>11. \A j, steps : Handling(steps, j)' = Handling(steps, j)
    BY <1>1 DEF Handling, In
  <1>12. \A j, steps : Count(steps, j)' = Count(steps, j)
    BY <1>11 DEF Count
  <1>13. TicketInv(k) /\ IsFiniteSet(Handling(RunSteps, k))
    BY DEF SupportInv, TicketInv
  <1>14. /\ Count(PendingSteps(k), k)' = Count(WriteSteps, k)
         /\ Count(WriteSteps, k) <= Count(PendingSteps(k), k)
         /\ Count(WriteSteps, k) \in Nat /\ Count(PendingSteps(k), k) \in Nat
    <2>1. Count(PendingSteps(k), k)' = Count(WriteSteps, k)
      BY <1>10, <1>12
    <2>2. IsFiniteSet(Handling(PendingSteps(k), k)) /\ Count(PendingSteps(k), k) \in Nat
      BY <1>13, CountsTyped, StepSets
    <2>3. Handling(WriteSteps, k) \subseteq Handling(PendingSteps(k), k)
      BY DEF Handling, In, PendingSteps
    <2> QED BY <1>13, <2>1, <2>2, <2>3, CountsTyped, StepSets, FS_Subset DEF Count
  <1>15. Replies(k) + Count(PendingSteps(k), k) <= MaxReplies + 1 + 2 * expiries
    BY <1>13, PendingBound DEF TicketInv
  <1>16. Replies(k) \in Nat /\ expiries \in Nat /\ MaxReplies \in Nat
    BY <1>1, MessagesTyped, SupportConstants DEF SupportRows
  <1>17. Out(k)' => Replies(k)' + Count(PendingSteps(k), k)' <= MaxReplies + 1 + 2 * expiries'
    BY <1>1, <1>10, <1>14, <1>15, <1>16
  <1>18. TicketInv(k)'
    BY <1>1, <1>10, <1>11, <1>12, <1>13, <1>17 DEF TicketInv
  <1>19. ASSUME NEW j \in Tickets, j # k
         PROVE  TicketInv(j)'
    <2>1. TicketInv(j)
      BY DEF SupportInv
    <2>2. /\ From(j, "bot")' = From(j, "bot") /\ From(j, "agent")' = From(j, "agent")
          /\ Out(j)' = Out(j)
      BY <1>3, <1>7, <1>19 DEF From, Out
    <2>3. Replies(j)' = Replies(j) /\ After(j)' = After(j)
          /\ PendingSteps(j)' = PendingSteps(j)
      BY <2>2 DEF Replies, After, PendingSteps
    <2> QED BY <1>1, <1>11, <1>12, <2>1, <2>2, <2>3 DEF TicketInv
  <1>20. \A t \in Tasks : task'[t] # Idle => Opened(task[t].ticket)'
    <2>1. \A t \in Tasks : task[t] # Idle => task[t].ticket \in Tickets
      BY <1>1, SupportTaskKinds
    <2> QED BY <1>1, <1>8, <2>1 DEF SupportInv
  <1> QED BY <1>1, <1>8, <1>18, <1>19, <1>20 DEF SupportInv

\* A run begins when none is marked, and ends when none is asked for meanwhile.
LEMMA SchedulesKeep ==
    ASSUME SupportInv, NEW t \in Tasks, scheduleBotReply(t) \/ FinishRun(t) \/ RunLost(t)
    PROVE  SupportInv'
  <1>1. /\ task \in [Tasks -> SupportTask] /\ SupportRows /\ task[t] \in SupportTask
        /\ task[t].at \in {"schedule", "finish"}
    BY DEF SupportInv, scheduleBotReply, FinishRun, RunLost, At
  <1>2. PICK k \in Tickets : k = task[t].ticket /\ Opened(k) /\ task[t] # Idle
    BY <1>1, SupportTaskKinds DEF SupportInv
  <1>3. UNCHANGED <<ticket, history, expiries>>
    BY DEF scheduleBotReply, FinishRun, RunLost, desk
  <1>4. /\ running' \in SUBSET Tickets /\ rerun' \in SUBSET Tickets
        /\ \A j \in Tickets \ {k} : j \in running' <=> j \in running
    BY <1>1, <1>2 DEF scheduleBotReply, FinishRun, RunLost, marks, SupportRows
  <1>5. /\ SupportRows' /\ \A j \in Tickets : Opened(j)' = Opened(j)
    BY <1>1, <1>3, <1>4 DEF SupportRows, Opened
  <1>6. /\ From(k, "bot")' = From(k, "bot") /\ From(k, "agent")' = From(k, "agent")
        /\ Out(k)' = Out(k)
    BY <1>3 DEF From, Out
  <1>7. PICK y \in SupportTask :
            /\ task' = [task EXCEPT ![t] = y]
            /\ y # Idle => y.ticket = k
            /\ y.at \in {"idle", "readConfig"}
            /\ \/ /\ k \in running' <=> k \in running
                  /\ In(y, RunSteps, k) => In(task[t], RunSteps, k)
               \/ k \notin running /\ k \in running'
               \/ In(task[t], RunSteps, k) /\ ~In(y, RunSteps, k)
    <2>1. /\ ~In(Idle, RunSteps, k) /\ "finish" \in RunSteps
      BY DEF In, Idle, RunSteps
    <2>2. CASE scheduleBotReply(t)
      <3>1. CASE k \in running
        BY <1>2, <2>1, <2>2, <3>1, SupportIdle DEF scheduleBotReply, Done, Goto
      <3>2. CASE k \notin running
        <4>1. Step(t, "readConfig") /\ k \in running'
          BY <1>2, <2>2, <3>2 DEF scheduleBotReply
        <4> QED BY <1>1, <1>2, <3>2, <4>1, StepTyped
      <3> QED BY <3>1, <3>2
    <2>3. CASE FinishRun(t)
      <3>1. In(task[t], RunSteps, k)
        BY <1>2, <2>1, <2>3 DEF FinishRun, At, In
      <3>2. CASE k \in rerun
        <4>1. Step(t, "readConfig") /\ running' = running
          BY <1>2, <2>3, <3>2 DEF FinishRun
        <4> QED BY <1>1, <1>2, <3>1, <4>1, StepTyped
      <3>3. CASE k \notin rerun
        BY <1>2, <2>1, <2>3, <3>1, <3>3, SupportIdle DEF FinishRun, Done, Goto
      <3> QED BY <3>2, <3>3
    <2>4. CASE RunLost(t)
      BY <2>1, <2>4, SupportIdle DEF RunLost, Done, Goto, marks
    <2> QED BY <2>2, <2>3, <2>4
  <1>8. /\ ~In(y, WriteSteps, k) /\ ~In(y, AnswerSteps, k) /\ ~In(y, PendingSteps(k), k)
    BY <1>7 DEF In, WriteSteps, AnswerSteps, PendingSteps
  <1> QED BY <1>2, <1>3, <1>4, <1>5, <1>6, <1>7, <1>8, QuietMove

\* The owner writes, on a new ticket or on one that is there.
LEMMA OwnerKeeps ==
    ASSUME SupportInv, NEW t \in Tasks, NEW j \in Tickets,
           createTicket(t, j) \/ addOwnerMessage(t, j) \/ OwnerWrites(t)
    PROVE  SupportInv'
  <1>1. /\ task \in [Tasks -> SupportTask] /\ SupportRows /\ task[t] \in SupportTask
        /\ UNCHANGED <<running, rerun, expiries>>
    BY DEF SupportInv, createTicket, addOwnerMessage, OwnerWrites, supportVars, marks
  <1>2. "bot" \in Senders /\ "agent" \in Senders /\ "owner" \in Senders
        /\ "owner" # "bot" /\ "owner" # "agent"
    BY DEF Senders
  <1>3. PICK k \in Tickets, y \in SupportTask :
            /\ task' = [task EXCEPT ![t] = y] /\ y.ticket = k
            /\ y.at \in {"schedule", "ownerWrites"}
            /\ task[t] = Idle \/ task[t].ticket = k
            /\ (addMessage(k, "owner") \/ history' = history)
            /\ ticket'[k] \in TicketRow
            /\ ticket'[k].needsAgent = ticket[k].needsAgent
            /\ ticket' \in [Tickets -> TicketRow \cup {NoTicket}]
            /\ \A i \in Tickets \ {k} : ticket'[i] = ticket[i]
    <2>1. CASE createTicket(t, j)
      <3>1. PICK row : row = [status |-> "open", needsAgent |-> FALSE]
        OBVIOUS
      <3>2. row \in TicketRow /\ ~row.needsAgent
        BY <3>1 DEF TicketRow, TicketStatuses
      <3>3. ticket' = [ticket EXCEPT ![j] = row] /\ ~ticket[j].needsAgent
        BY <2>1, <3>1 DEF createTicket, Opened, NoTicket
      <3>4. /\ ticket'[j] = row /\ ticket' \in [Tickets -> TicketRow \cup {NoTicket}]
            /\ \A i \in Tickets \ {j} : ticket'[i] = ticket[i]
        BY <1>1, <3>2, <3>3 DEF SupportRows
      <3>5. ticket'[j].needsAgent = ticket[j].needsAgent
        <4>1. row.needsAgent = FALSE /\ ticket[j].needsAgent = FALSE
          BY <2>1, <3>1 DEF createTicket, Opened, NoTicket
        <4> QED BY <3>4, <4>1
      <3>6. /\ task' = [task EXCEPT ![t] = On("schedule", j)] /\ task[t] = Idle
            /\ addMessage(j, "owner")
        BY <2>1 DEF createTicket, ownerMessage, Start
      <3>7. On("schedule", j) \in SupportTask /\ On("schedule", j).at = "schedule"
            /\ On("schedule", j).ticket = j
        BY OnTyped
      <3> QED BY <3>2, <3>4, <3>5, <3>6, <3>7
    <2>2. CASE addOwnerMessage(t, j)
      <3>1. PICK y : y = [at |-> "ownerWrites", ticket |-> j, reopens |-> Reopens(j)]
        OBVIOUS
      <3>2. y \in SupportTask /\ y.at = "ownerWrites" /\ y.ticket = j
        BY <3>1 DEF SupportTask, Reopens
      <3>3. /\ task' = [task EXCEPT ![t] = y] /\ task[t] = Idle
            /\ history' = history /\ ticket' = ticket
        BY <2>2, <3>1 DEF addOwnerMessage, Start, supportVars, desk
      <3>4. ticket[j] \in TicketRow
        BY <1>1, <2>2 DEF addOwnerMessage, Opened, SupportRows
      <3>5. ticket \in [Tickets -> TicketRow \cup {NoTicket}]
        BY <1>1 DEF SupportRows
      <3> QED BY <3>2, <3>3, <3>4, <3>5
    <2>3. CASE OwnerWrites(t)
      <3>1. task[t].at = "ownerWrites" /\ task[t].at # "idle"
        BY <2>3 DEF OwnerWrites, At
      <3>2. PICK i \in Tickets : i = task[t].ticket /\ Opened(i)
        BY <1>1, <3>1, SupportTaskKinds DEF SupportInv
      <3>3. PICK status : /\ ticket' = [ticket EXCEPT ![i].status = status]
                          /\ status \in {"open", ticket[i].status}
        BY <2>3, <3>2 DEF OwnerWrites
      <3>4. ticket[i] \in TicketRow
        BY <1>1, <3>2 DEF Opened, SupportRows
      <3>5. /\ ticket'[i] \in TicketRow /\ ticket'[i].needsAgent = ticket[i].needsAgent
            /\ ticket' \in [Tickets -> TicketRow \cup {NoTicket}]
            /\ \A l \in Tickets \ {i} : ticket'[l] = ticket[l]
        BY <1>1, <3>3, <3>4 DEF SupportRows, TicketRow, TicketStatuses
      <3>6. /\ task' = [task EXCEPT ![t] = On("schedule", i)] /\ addMessage(i, "owner")
        BY <2>3, <3>2 DEF OwnerWrites, ownerMessage, Goto
      <3>7. On("schedule", i) \in SupportTask /\ On("schedule", i).at = "schedule"
            /\ On("schedule", i).ticket = i
        BY OnTyped
      <3> QED BY <3>2, <3>5, <3>6, <3>7
    <2> QED BY <2>1, <2>2, <2>3
  <1>4. /\ history' \in [Tickets -> Seq(Senders)]
        /\ \A i \in Tickets : i # k => history'[i] = history[i]
        /\ From(k, "bot")' = From(k, "bot") /\ From(k, "agent")' = From(k, "agent")
    <2>1. CASE addMessage(k, "owner")
      BY <1>1, <1>2, <2>1, MessageAdded
    <2>2. CASE history' = history
      BY <1>1, <2>2 DEF SupportRows, From
    <2> QED BY <1>3, <2>1, <2>2
  <1>5. ticket'[k] # NoTicket
    BY <1>3 DEF TicketRow, NoTicket, TicketStatuses
  <1>6. /\ SupportRows' /\ Opened(k)' /\ \A i \in Tickets : Opened(i) => Opened(i)'
        /\ Out(k)' = Out(k)
    BY <1>1, <1>3, <1>4, <1>5 DEF SupportRows, Opened, Out
  <1>7. /\ ~In(y, RunSteps, k) /\ ~In(y, WriteSteps, k)
        /\ ~In(y, AnswerSteps, k) /\ ~In(y, PendingSteps(k), k)
    BY <1>3 DEF In, RunSteps, WriteSteps, AnswerSteps, PendingSteps
  <1>8. \A i \in Tickets \ {k} : i \in running' <=> i \in running
    BY <1>1
  <1> QED BY <1>1, <1>3, <1>4, <1>6, <1>7, <1>8, QuietMove

\* Nobody moves: an admin, the switch, a lock that expires.
LEMMA OthersKeep ==
    ASSUME SupportInv,
           \/ \E k \in Tickets, to \in TicketStatuses : updateTicketAsAdmin(k, to)
           \/ \E k \in Tickets : LockExpires(k)
           \/ setBotConfig
           \/ UNCHANGED <<supportVars, task>>
    PROVE  SupportInv'
  <1>1. /\ task \in [Tasks -> SupportTask] /\ SupportRows
        /\ task' = task /\ history' = history
    BY DEF SupportInv, updateTicketAsAdmin, setBotConfig, LockExpires, supportVars, desk
  <1>2. /\ ticket' \in [Tickets -> TicketRow \cup {NoTicket}]
        /\ \A j \in Tickets : /\ ticket'[j].needsAgent = ticket[j].needsAgent
                              /\ Opened(j) => Opened(j)'
    <2>1. CASE ticket' = ticket
      BY <1>1, <2>1 DEF SupportRows, Opened
    <2>2. CASE \E k \in Tickets, to \in TicketStatuses : updateTicketAsAdmin(k, to)
      <3>1. PICK k \in Tickets, to \in TicketStatuses :
                Opened(k) /\ ticket' = [ticket EXCEPT ![k].status = to]
        BY <2>2 DEF updateTicketAsAdmin
      <3>2. ticket[k] \in TicketRow
        BY <1>1, <3>1 DEF SupportRows, Opened
      <3>3. /\ ticket'[k] \in TicketRow /\ ticket'[k].needsAgent = ticket[k].needsAgent
            /\ ticket' \in [Tickets -> TicketRow \cup {NoTicket}]
            /\ \A j \in Tickets \ {k} : ticket'[j] = ticket[j]
        BY <1>1, <3>1, <3>2 DEF SupportRows, TicketRow
      <3>4. ticket'[k] # NoTicket
        BY <3>3 DEF TicketRow, NoTicket, TicketStatuses
      <3> QED BY <3>3, <3>4 DEF Opened
    <2> QED BY <2>1, <2>2 DEF setBotConfig, LockExpires, supportVars, desk
  <1>3. /\ running' \in SUBSET Tickets /\ rerun' \in SUBSET Tickets
        /\ expiries \in Nat /\ expiries' \in Nat /\ expiries <= expiries'
        /\ \A j \in running : j \in running' \/ expiries' = expiries + 1
    <2>1. CASE UNCHANGED <<running, rerun, expiries>>
      BY <1>1, <2>1 DEF SupportRows
    <2>2. CASE \E k \in Tickets : LockExpires(k)
      BY <1>1, <2>2 DEF LockExpires, SupportRows
    <2> QED BY <2>1, <2>2 DEF updateTicketAsAdmin, setBotConfig, supportVars, marks
  <1>4. SupportRows'
    BY <1>1, <1>2, <1>3 DEF SupportRows
  <1>5. \A j, steps : Handling(steps, j)' = Handling(steps, j)
    BY <1>1 DEF Handling, In
  <1>6. \A j, steps : Count(steps, j)' = Count(steps, j)
    BY <1>5 DEF Count
  <1>7. ASSUME NEW j \in Tickets
        PROVE  TicketInv(j)'
    <2>1. /\ TicketInv(j) /\ IsFiniteSet(Handling(RunSteps, j))
          /\ Count(RunSteps, j) <= (IF j \in running THEN 1 ELSE 0) + expiries
      BY DEF SupportInv, TicketInv
    <2>2. /\ From(j, "bot")' = From(j, "bot") /\ From(j, "agent")' = From(j, "agent")
          /\ Out(j)' = Out(j) /\ PendingSteps(j)' = PendingSteps(j)
      BY <1>1, <1>2 DEF From, Out, PendingSteps
    <2>3. /\ Count(RunSteps, j) \in Nat /\ Count(WriteSteps, j) \in Nat
          /\ Count(AnswerSteps, j) \in Nat /\ Count(PendingSteps(j), j) \in Nat
      BY <2>1, CountsTyped, StepSets
    <2>4. Count(RunSteps, j)' <= (IF j \in running' THEN 1 ELSE 0) + expiries'
      <3>1. Count(RunSteps, j)' = Count(RunSteps, j)
        BY <1>6
      <3> QED BY <1>3, <2>1, <2>3, <3>1
    <2>5. /\ Count(WriteSteps, j)' = Count(WriteSteps, j)
          /\ Count(AnswerSteps, j)' = Count(AnswerSteps, j)
          /\ Count(PendingSteps(j), j)' = Count(PendingSteps(j), j)
          /\ IsFiniteSet(Handling(RunSteps, j)')
      BY <1>5, <1>6, <2>1, <2>2
    <2> QED BY <1>3, <1>4, <2>2, <2>3, <2>4, <2>5, QuietTicket
  <1>8. \A t \in Tasks : task'[t] # Idle => Opened(task[t].ticket)'
    <2>1. \A t \in Tasks : task[t] # Idle => task[t].ticket \in Tickets
      BY <1>1, SupportTaskKinds
    <2> QED BY <1>1, <1>2, <2>1 DEF SupportInv
  <1> QED BY <1>1, <1>4, <1>7, <1>8 DEF SupportInv

\* A restart loses the runs, and never what they wrote.
LEMMA RestartKeeps ==
    ASSUME SupportInv, SupportRestart
    PROVE  SupportInv'
  <1>1. /\ task \in [Tasks -> SupportTask] /\ SupportRows
        /\ task' = [t \in Tasks |-> Idle]
        /\ UNCHANGED <<ticket, history, expiries>>
        /\ running' \in SUBSET Tickets /\ rerun' \in SUBSET Tickets
    BY DEF SupportInv, SupportRestart, TasksLost, desk, marks, SupportRows
  <1>2. SupportRows' /\ task' \in [Tasks -> SupportTask] /\ expiries \in Nat
    BY <1>1, SupportIdle DEF SupportRows
  <1>3. ASSUME NEW j \in Tickets
        PROVE  TicketInv(j)'
    <2>1. TicketInv(j) /\ IsFiniteSet(Handling(RunSteps, j))
      BY DEF SupportInv, TicketInv
    <2>2. /\ From(j, "bot")' = From(j, "bot") /\ From(j, "agent")' = From(j, "agent")
          /\ Out(j)' = Out(j) /\ PendingSteps(j)' = PendingSteps(j)
      BY <1>1 DEF From, Out, PendingSteps
    <2>3. \A steps \in SUBSET RunSteps : Handling(steps, j)' = {}
      BY <1>1 DEF Handling, In, Idle, RunSteps
    <2>4. /\ IsFiniteSet(Handling(RunSteps, j)')
          /\ \A steps \in SUBSET RunSteps : Count(steps, j)' = 0
      BY <2>3, FS_EmptySet DEF Count
    <2>5. /\ Count(WriteSteps, j) \in Nat /\ Count(AnswerSteps, j) \in Nat
          /\ Count(PendingSteps(j), j) \in Nat
      BY <2>1, CountsTyped, StepSets
    <2>6. /\ Count(RunSteps, j)' = 0 /\ Count(WriteSteps, j)' = 0
          /\ Count(AnswerSteps, j)' = 0 /\ Count(PendingSteps(j), j)' = 0
      BY <2>2, <2>4, StepSets
    <2> QED BY <1>1, <1>2, <2>2, <2>4, <2>5, <2>6, QuietTicket
  <1> QED BY <1>1, <1>2, <1>3 DEF SupportInv

-----------------------------------------------------------------------------
(* The support bot: the theorem *)

LEMMA SupportStarts ==
    ASSUME SupportInit, NoTasks
    PROVE  SupportInv
  <1>1. task \in [Tasks -> SupportTask] /\ \A t \in Tasks : task[t] = Idle
    BY SupportIdle DEF NoTasks
  <1>2. SupportRows /\ \A k \in Tickets : history[k] = <<>>
    BY DEF SupportInit, SupportRows
  <1>3. ASSUME NEW k \in Tickets
        PROVE  TicketInv(k)
    <2>1. \A steps \in SUBSET RunSteps : Handling(steps, k) = {}
      BY <1>1 DEF Handling, In, Idle, RunSteps
    <2>2. /\ IsFiniteSet(Handling(RunSteps, k))
          /\ \A steps \in SUBSET RunSteps : Count(steps, k) = 0
      BY <2>1, FS_EmptySet DEF Count
    <2>3. \A who : From(k, who) = {}
      BY <1>2 DEF From
    <2>4. After(k) = {} /\ Replies(k) = 0 /\ Cardinality(After(k)) = 0
      BY <2>3, FS_EmptySet DEF After, Replies
    <2>5. /\ Count(RunSteps, k) = 0 /\ Count(WriteSteps, k) = 0
          /\ Count(AnswerSteps, k) = 0 /\ Count(PendingSteps(k), k) = 0
      BY <2>2, StepSets
    <2>6. expiries = 0 /\ MaxReplies \in Nat
      BY SupportConstants DEF SupportInit
    <2> QED BY <2>2, <2>4, <2>5, <2>6 DEF TicketInv
  <1> QED BY <1>1, <1>2, <1>3 DEF SupportInv

LEMMA SupportSteps ==
    ASSUME SupportInv, [SupportNext]_<<supportVars, task>>
    PROVE  SupportInv'
  <1>1. ASSUME NEW t \in Tasks, NEW k \in Tickets, createTicket(t, k) \/ addOwnerMessage(t, k)
        PROVE  SupportInv'
    BY <1>1, OwnerKeeps
  <1>2. ASSUME NEW k \in Tickets, addAgentMessage(k)
        PROVE  SupportInv'
    BY <1>2, AgentWrites
  <1>3. CASE \/ \E k \in Tickets, to \in TicketStatuses : updateTicketAsAdmin(k, to)
             \/ \E k \in Tickets : LockExpires(k)
             \/ setBotConfig
             \/ UNCHANGED <<supportVars, task>>
    BY <1>3, OthersKeep
  <1>4. ASSUME NEW t \in Tasks, OwnerWrites(t)
        PROVE  SupportInv'
    <2>1. PICK k \in Tickets : TRUE
      BY <1>4, SupportTaskKinds DEF OwnerWrites, At, SupportInv
    <2> QED BY <1>4, <2>1, OwnerKeeps
  <1>5. ASSUME NEW t \in Tasks, BotStep(t), ~OwnerWrites(t)
        PROVE  SupportInv'
    <2>1. replyAsBotSafely(t) \/ MarkNeedsAgent(t) => SupportInv'
      BY MarksKeep, UnmarkedKeeps DEF replyAsBotSafely, MarkNeedsAgent
    <2> QED BY <1>5, <2>1, SchedulesKeep, LooksKeep, ReadHistoryKeeps, AsksKeep, FailsKeep,
               BotWrites DEF BotStep
  <1>6. CASE SupportRestart
    BY <1>6, RestartKeeps
  <1> QED BY <1>1, <1>2, <1>3, <1>4, <1>5, <1>6 DEF SupportNext, OwnerRequest, AdminRequest

LEMMA SupportInvariance == SupportSpec => []SupportInv
  <1>1. SupportInit /\ NoTasks => SupportInv
    BY SupportStarts
  <1>2. SupportInv /\ [SupportNext]_<<supportVars, task>> => SupportInv'
    BY SupportSteps
  <1> QED BY <1>1, <1>2, PTL DEF SupportSpec

LEMMA BoundsFollow ==
    ASSUME SupportInv
    PROVE  BotKeepsItsPlace
  <1>1. SupportTypeOK
    <2>1. \A k \in Tickets : \A i \in DOMAIN history[k] : history[k][i] \in Senders
      BY DEF SupportInv, SupportRows
    <2> QED BY <2>1 DEF SupportInv, SupportRows, SupportTypeOK
  <1>2. ASSUME NEW k \in Tickets
        PROVE  BotStaysOut(k) /\ RepliesCapped(k)
    <2>1. /\ TicketInv(k) /\ IsFiniteSet(Handling(RunSteps, k))
          /\ SupportRows /\ expiries \in Nat
      BY DEF SupportInv, TicketInv, SupportRows
    <2>2. /\ Count(WriteSteps, k) \in Nat /\ Count(AnswerSteps, k) \in Nat
          /\ Count(PendingSteps(k), k) \in Nat
      BY <2>1, CountsTyped, StepSets
    <2>3. Replies(k) \in Nat /\ Cardinality(After(k)) \in Nat /\ MaxReplies \in Nat
      BY <2>1, MessagesTyped, SupportConstants
    <2>4. Cardinality(After(k)) <= 1 + expiries
      BY <2>1, <2>2, <2>3 DEF TicketInv
    <2>5. Replies(k) <= MaxReplies + 1 + 2 * expiries
      BY <2>1, <2>2, <2>3 DEF TicketInv
    <2> QED BY <2>4, <2>5 DEF BotStaysOut, After, RepliesCapped, Replies
  <1> QED BY <1>1, <1>2 DEF BotKeepsItsPlace

\* "A person has taken over this ticket -- the bot stays out of it from then on", and
\* maxRepliesPerTicket (supportBot.service.ts): however runs, reruns, agents, failing
\* model calls, expired locks and restarts fall together, the bot writes after an
\* agent, and above its limit, no more than what was under way allows.
THEOREM BotKeepsPlace == SupportSpec => []BotKeepsItsPlace
  BY SupportInvariance, BoundsFollow, PTL

=============================================================================
