----------------------------- MODULE OrderedMap -----------------------------
(* What Map and Set promise: pairs kept in the order their keys were first  *)
(* set, each with the value last set, and iterators that stand their ground *)
(* between the pairs while these change.                                    *)
EXTENDS Naturals, Sequences

CONSTANTS
    Key, Value,     \* model values
    Iterator,       \* the iterators made on the one map
    Skips           \* an iterator may pass over pairs when the map is written

VARIABLES
    pairs,          \* <<key, value>>, in insertion order
    place           \* for each iterator, the number of pairs it has passed

vars == <<pairs, place>>

Holds(k) == \E i \in DOMAIN pairs : pairs[i][1] = k
At(k) == CHOOSE i \in DOMAIN pairs : pairs[i][1] = k

Init ==
    /\ pairs = <<>>
    /\ place = [it \in Iterator |-> 0]

(* Iterators stand at the given places after a write, or beyond them.      *)
Stand(at) ==
    IF Skips
    THEN /\ place' \in [Iterator -> 0 .. Len(pairs')]
         /\ \A it \in Iterator : place'[it] >= at[it]
    ELSE place' = at

(* A key keeps its place when it is set again.                             *)
Set(k, v) ==
    /\ pairs' = IF Holds(k) THEN [pairs EXCEPT ![At(k)][2] = v]
                            ELSE Append(pairs, <<k, v>>)
    /\ Stand(place)

Delete(k) ==
    /\ Holds(k)
    /\ pairs' = [i \in 1 .. Len(pairs) - 1 |->
                    IF i < At(k) THEN pairs[i] ELSE pairs[i + 1]]
    /\ Stand([it \in Iterator |->
                 IF At(k) <= place[it] THEN place[it] - 1 ELSE place[it]])

Clear ==
    /\ pairs' = <<>>
    /\ place' = [it \in Iterator |-> 0]

Start(it) ==
    /\ place' = [place EXCEPT ![it] = 0]
    /\ UNCHANGED pairs

(* An iterator answers pairs[place[it] + 1] and passes it.                  *)
Step(it) ==
    /\ place[it] < Len(pairs)
    /\ place' = [place EXCEPT ![it] = @ + 1]
    /\ UNCHANGED pairs

Next ==
    \/ \E k \in Key, v \in Value : Set(k, v)
    \/ \E k \in Key : Delete(k)
    \/ Clear
    \/ \E it \in Iterator : Start(it)
    \/ \E it \in Iterator : Step(it)

Spec == Init /\ [][Next]_vars
=============================================================================
