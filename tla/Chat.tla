-------------------------------- MODULE Chat --------------------------------
(***************************************************************************)
(* Paid chat, photos, gifts and gift requests between users and hosts      *)
(* (chat.service.ts, gifts.service.ts) and blocking (blocks.service.ts).   *)
(* A pair is <<user, host>>, whoever of the two writes.  All accounts are  *)
(* active, and prices, commission and bean value do not change meanwhile.  *)
(***************************************************************************)
EXTENDS Handlers, FiniteSetsExt, Functions

CONSTANTS
    Users, Hosts,
    InitialBalance,         \* a user's wallet at the start, in paise
    MessageRate, GiftPrice, \* in paise
    CommissionBasisPoints, PaisePerBean,
    MaxFree,                \* bounds: messages of a host to a user, gift
    MaxGiftRequests,        \* requests of a pair, changes of mind of a blocker,
    MaxBlocks, MaxFlagged   \* photos that fail moderation

ASSUME ChatConstants ==
    /\ {InitialBalance, MessageRate, GiftPrice, MaxFree, MaxGiftRequests, MaxBlocks, MaxFlagged}
           \subseteq Nat
    /\ CommissionBasisPoints \in 0..10000
    /\ PaisePerBean \in Nat \ {0}

VARIABLES
    conversation,   \* chat_conversations: pairs, unique
    blocked,        \* user_blocks: <<pair, who of it blocked>>
    blocks,
    message,        \* chat_messages of each pair, counted by kind
    gift,           \* gift_transactions of each pair
    request,        \* gift_requests of each pair, oldest first
    balance,        \* wallets of users
    beans,          \* wallets of hosts
    flagged         \* moderation reports about photos

talk == <<conversation, message>>
money == <<gift, balance, beans>>
chatVars == <<talk, money, blocked, blocks, request, flagged>>

Pairs == Users \X Hosts
MessageKinds == {"paid", "free", "gift"}
Sides == {"user", "host"}
areBlocked(p) == \E side \in Sides : <<p, side>> \in blocked
\* commissionAmount, netToHost and beans, rounded down twice.
BeansFor(price) ==
    (price - (price * CommissionBasisPoints) \div 10000) \div PaisePerBean

ChatInit ==
    /\ conversation = {} /\ blocked = {} /\ blocks = 0
    /\ message = [p \in Pairs |-> [k \in MessageKinds |-> 0]]
    /\ gift = [p \in Pairs |-> 0]
    /\ request = [p \in Pairs |-> <<>>]
    /\ balance = [u \in Users |-> InitialBalance]
    /\ beans = [h \in Hosts |-> 0]
    /\ flagged = 0

-----------------------------------------------------------------------------
(* The conversation a message, a photo or a chat gift belongs to *)

\* resolveParticipants, then what is to be sent in the conversation: "paid" and
\* "free" messages, a "gift", or a "photo" to be uploaded.
findOrCreateConversation(t, p, what, photo) ==
    /\ ~areBlocked(p)
    /\ Start(t, [at |-> "findConversation", pair |-> p, what |-> what, photo |-> photo])
    /\ UNCHANGED chatVars

InConversation(t) ==
    IF task[t].what = "upload" THEN Done(t)
    ELSE Step(t, IF task[t].photo THEN "verify" ELSE task[t].what)

FindConversation(t) ==
    /\ At(t, "findConversation")
    /\ IF task[t].pair \in conversation THEN InConversation(t)
       ELSE Step(t, "insertConversation")
    /\ UNCHANGED chatVars

\* The pair is unique: the second of two inserts fails, and its message with it.
InsertConversation(t) ==
    /\ At(t, "insertConversation")
    /\ IF task[t].pair \in conversation THEN Done(t) ELSE InConversation(t)
    /\ conversation' = conversation \cup {task[t].pair}
    /\ UNCHANGED <<message, money, blocked, blocks, request, flagged>>

\* verifyChatImage: missing or unfit uploads and a failing check end the
\* request, a photo that does not pass is reported.
verifyChatImage(t) ==
    /\ At(t, "verify")
    /\ \/ Done(t)
       \/ flagged < MaxFlagged /\ Step(t, "report")
       \/ Step(t, task[t].what)
    /\ UNCHANGED chatVars

ReportPhoto(t) ==
    /\ At(t, "report")
    /\ flagged' = flagged + 1
    /\ Done(t)
    /\ UNCHANGED <<talk, money, blocked, blocks, request>>

-----------------------------------------------------------------------------
(* Storing it, and paying for it in the same transaction *)

Store(p, kind) == message' = [message EXCEPT ![p][kind] = @ + 1]

\* transferUserToHost under the wallets' row locks
transferUserToHost(p, price) ==
    /\ balance' = [balance EXCEPT ![p[1]] = @ - price]
    /\ beans' = [beans EXCEPT ![p[2]] = @ + BeansFor(price)]

\* Mutant: the message is stored before the transfer, outside its transaction.
SendPaidStoredFirst(t) == LET p == task[t].pair IN
    /\ At(t, "paid")
    /\ Done(t)
    /\ Store(p, "paid")
    /\ IF balance[p[1]] >= MessageRate THEN transferUserToHost(p, MessageRate)
       ELSE UNCHANGED <<balance, beans>>
    /\ UNCHANGED <<conversation, gift, blocked, blocks, request, flagged>>

sendPaidUserMessage(t) == LET p == task[t].pair IN
    /\ At(t, "paid")
    /\ Done(t)
    /\ IF balance[p[1]] >= MessageRate
       THEN Store(p, "paid") /\ transferUserToHost(p, MessageRate)
       ELSE UNCHANGED <<message, balance, beans>>
    /\ UNCHANGED <<conversation, gift, blocked, blocks, request, flagged>>

sendMessage(t) ==
    /\ At(t, "free")
    /\ Done(t)
    /\ Store(task[t].pair, "free")
    /\ UNCHANGED <<conversation, money, blocked, blocks, request, flagged>>

\* Outside chat a gift needs no conversation and ignores blocks.
sendGift(t, p, chat) ==
    IF chat THEN findOrCreateConversation(t, p, "gift", FALSE)
    ELSE Start(t, [at |-> "gift", pair |-> p, chat |-> FALSE]) /\ UNCHANGED chatVars

InChat(t) == "what" \in DOMAIN task[t] \/ ("chat" \in DOMAIN task[t] /\ task[t].chat)
Answering(t, p, answer) == Goto(t, [at |-> "latestRequest", pair |-> p, answer |-> answer])

\* Mutant: the request is answered whether or not the gift could be paid.
GiftTransactionAnswered(t) == LET p == task[t].pair IN
    /\ At(t, "gift")
    /\ Answering(t, p, "accepted")
    /\ IF balance[p[1]] >= GiftPrice
       THEN /\ gift' = [gift EXCEPT ![p] = @ + 1]
            /\ transferUserToHost(p, GiftPrice)
            /\ IF InChat(t) THEN Store(p, "gift") ELSE UNCHANGED message
       ELSE UNCHANGED <<money, message>>
    /\ UNCHANGED <<conversation, blocked, blocks, request, flagged>>

GiftTransaction(t) == LET p == task[t].pair IN
    /\ At(t, "gift")
    /\ IF balance[p[1]] >= GiftPrice
       THEN /\ gift' = [gift EXCEPT ![p] = @ + 1]
            /\ transferUserToHost(p, GiftPrice)
            /\ IF InChat(t) THEN Store(p, "gift") ELSE UNCHANGED message
            /\ Answering(t, p, "accepted")
       ELSE Done(t) /\ UNCHANGED <<money, message>>
    /\ UNCHANGED <<conversation, blocked, blocks, request, flagged>>

-----------------------------------------------------------------------------
(* A host asks for a gift; a gift or a refusal answers the latest request *)

recordGiftRequest(p) ==
    /\ Len(request[p]) < MaxGiftRequests
    /\ request' = [request EXCEPT ![p] = Append(@, "pending")]
    /\ UNCHANGED <<talk, money, blocked, blocks, flagged, task>>

markGiftRequestDeclined(t, p) ==
    /\ Start(t, [at |-> "latestRequest", pair |-> p, answer |-> "declined"])
    /\ UNCHANGED chatVars

PendingRequests(p) == {i \in DOMAIN request[p] : request[p][i] = "pending"}

LatestGiftRequest(t) == LET pending == PendingRequests(task[t].pair) IN
    /\ At(t, "latestRequest")
    /\ IF pending = {} THEN Done(t)
       ELSE Goto(t, [at |-> "respond", pair |-> task[t].pair, row |-> Max(pending),
                     answer |-> task[t].answer])
    /\ UNCHANGED chatVars

RespondToGiftRequest(t) ==
    /\ At(t, "respond")
    /\ request' = [request EXCEPT ![task[t].pair][task[t].row] = task[t].answer]
    /\ Done(t)
    /\ UNCHANGED <<talk, money, blocked, blocks, flagged>>

-----------------------------------------------------------------------------
(* Blocks.  Who was already writing gets through; no one else does. *)

blockUser(p, side) ==
    /\ <<p, side>> \notin blocked /\ blocks < MaxBlocks
    /\ blocked' = blocked \cup {<<p, side>>}
    /\ blocks' = blocks + 1
    /\ UNCHANGED <<conversation, message, money, request, flagged, task>>

unblockUser(p, side) ==
    /\ <<p, side>> \in blocked
    /\ blocked' = blocked \ {<<p, side>>}
    /\ UNCHANGED <<talk, money, blocks, request, flagged, task>>

ChatRequest == \E p \in Pairs :
    \/ recordGiftRequest(p)
    \/ \E side \in Sides : blockUser(p, side) \/ unblockUser(p, side)
    \/ \E t \in Tasks :
          \/ \E photo \in BOOLEAN :
                \/ findOrCreateConversation(t, p, "paid", photo)
                \/ message[p]["free"] + Cardinality(Busy({"free"})) < MaxFree
                   /\ findOrCreateConversation(t, p, "free", photo)
          \/ findOrCreateConversation(t, p, "upload", FALSE)
          \/ \E chat \in BOOLEAN : sendGift(t, p, chat)
          \/ markGiftRequestDeclined(t, p)

ChatStep(t) ==
    \/ FindConversation(t) \/ InsertConversation(t)
    \/ verifyChatImage(t) \/ ReportPhoto(t)
    \/ sendPaidUserMessage(t) \/ sendMessage(t) \/ GiftTransaction(t)
    \/ LatestGiftRequest(t) \/ RespondToGiftRequest(t)

ChatNext == ChatRequest \/ \E t \in Tasks : ChatStep(t)
ChatSpec == ChatInit /\ NoTasks /\ [][ChatNext]_<<chatVars, task>>

-----------------------------------------------------------------------------
(* Properties *)

ChatTypeOK ==
    /\ conversation \subseteq Pairs /\ blocked \subseteq Pairs \X Sides
    /\ message \in [Pairs -> [MessageKinds -> Nat]]
    /\ gift \in [Pairs -> Nat]
    /\ \A p \in Pairs : \A i \in DOMAIN request[p] :
           request[p][i] \in {"pending", "accepted", "declined"}
    /\ balance \in [Users -> Nat] /\ beans \in [Hosts -> Nat]

\* What a user has paid and what a host has earned is exactly what is stored in
\* their conversations and gift transactions: nothing is delivered unpaid, and
\* nothing charged for a message that was not kept, nor any wallet overdrawn.
Stored(p) == [paid |-> message[p]["paid"], gifts |-> gift[p]]
Worth(p) == Stored(p).paid * MessageRate + Stored(p).gifts * GiftPrice
Earned(p) == Stored(p).paid * BeansFor(MessageRate) + Stored(p).gifts * BeansFor(GiftPrice)
PaidForExactly ==
    /\ ChatTypeOK
    /\ \A u \in Users :
           balance[u] + SumFunctionOnSet([h \in Hosts |-> Worth(<<u, h>>)], Hosts)
               = InitialBalance
    /\ \A h \in Hosts :
           beans[h] = SumFunctionOnSet([u \in Users |-> Earned(<<u, h>>)], Users)

\* A request an admin sees as accepted was answered by a gift of its own, with
\* gifts, refusals and new requests of a pair crossing each other.
AcceptedWereGifts == \A p \in Pairs :
    Cardinality({i \in DOMAIN request[p] : request[p][i] = "accepted"}) <= gift[p]

=============================================================================
