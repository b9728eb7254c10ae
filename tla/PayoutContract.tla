--------------------------- MODULE PayoutContract ---------------------------
(***************************************************************************)
(* What a host is promised about a withdrawal (BRD.md, BR-EARN-04..06):    *)
(* the beans leave the balance once, when the request is made; from then   *)
(* on the request holds them, until they are paid out or returned, in      *)
(* full and once.  Only a payout the bank sent back is returned later.     *)
(***************************************************************************)
EXTENDS Integers

CONSTANTS
    Requests,       \* ids of withdrawal requests
    Hosts,
    Nobody,         \* the host of a request not yet made
    Amounts,        \* beans a request may be for
    InitialBeans    \* every host's balance at the start

VARIABLES
    deal,       \* what became of a request's beans
    owner,      \* the host who made the request
    amount,     \* the beans it is for
    balance     \* the hosts' balances

Init ==
    /\ deal = [w \in Requests |-> "none"]
    /\ owner = [w \in Requests |-> Nobody]
    /\ amount = [w \in Requests |-> 0]
    /\ balance = [h \in Hosts |-> InitialBeans]

\* A host asks for b of the beans they have.
Hold(w, h, b) ==
    /\ deal[w] = "none"
    /\ balance[h] >= b
    /\ deal' = [deal EXCEPT ![w] = "held"]
    /\ owner' = [owner EXCEPT ![w] = h]
    /\ amount' = [amount EXCEPT ![w] = b]
    /\ balance' = [balance EXCEPT ![h] = @ - b]

PayOut(w) ==
    /\ deal[w] = "held"
    /\ deal' = [deal EXCEPT ![w] = "paidOut"]
    /\ UNCHANGED <<owner, amount, balance>>

\* The beans go back, all of them, to the host they came from.
GiveBack(w) ==
    /\ deal[w] \in {"held", "paidOut"}
    /\ deal' = [deal EXCEPT ![w] = "returned"]
    /\ balance' = [balance EXCEPT ![owner[w]] = @ + amount[w]]
    /\ UNCHANGED <<owner, amount>>

Next ==
    \E w \in Requests :
        \/ \E h \in Hosts, b \in Amounts : Hold(w, h, b)
        \/ PayOut(w)
        \/ GiveBack(w)

Spec == Init /\ [][Next]_<<deal, owner, amount, balance>>

=============================================================================
