------------------------------- MODULE Mailbox -------------------------------
(***************************************************************************)
(* What a one-way channel of a worker promises: the messages posted to a    *)
(* receiver are taken in the order they were posted, each once and none     *)
(* skipped, and none after the receiver has been shut.                      *)
(***************************************************************************)
EXTENDS Naturals

CONSTANT Key

VARIABLES
    state,    \* of the receiver: "new", "open" or "shut"
    posted,   \* messages posted so far
    taken     \* the last one the receiver took

vars == <<state, posted, taken>>

Init ==
    /\ state = [k \in Key |-> "new"]
    /\ posted = [k \in Key |-> 0] /\ taken = [k \in Key |-> 0]

(* A receiver may be born with a first message on its way.                  *)
Open(k) ==
    /\ state[k] = "new" /\ state' = [state EXCEPT ![k] = "open"]
    /\ \E first \in {0, 1} : posted' = [posted EXCEPT ![k] = @ + first]
    /\ UNCHANGED taken

Post(k) ==
    /\ posted' = [posted EXCEPT ![k] = @ + 1]
    /\ UNCHANGED <<state, taken>>

Take(k) ==
    /\ state[k] = "open" /\ taken[k] < posted[k]
    /\ taken' = [taken EXCEPT ![k] = @ + 1]
    /\ UNCHANGED <<state, posted>>

(* Several receivers go at once with the document that held them.           *)
Shut(K) ==
    /\ \A k \in K : state[k] = "open"
    /\ state' = [k \in Key |-> IF k \in K THEN "shut" ELSE state[k]]
    /\ UNCHANGED <<posted, taken>>

Next == (\E k \in Key : Open(k) \/ Post(k) \/ Take(k)) \/ \E K \in SUBSET Key : Shut(K)

Spec == Init /\ [][Next]_vars

FairSpec == Spec /\ \A k \in Key : WF_vars(Take(k))
=============================================================================
