------------------------------ MODULE EventJoin ------------------------------
(***************************************************************************)
(* What merging promises: the rows of one table, in their order, each with *)
(* the entry of another table that carries the same event id; or no result *)
(* at all when some row has no partner or an id does not name one entry.   *)
(***************************************************************************)
EXTENDS Integers, Sequences

VARIABLES
    left,       \* ids of the rows to be joined, in order
    right,      \* ids of the entries to join them with
    outcome     \* "none" until decided, then "failed" or the joined pairs

vars == <<left, right, outcome>>

\* The entries of the right table that carry an id.
Partners(id) == {k \in DOMAIN right : right[k] = id}

Joinable ==
    /\ \A j, k \in DOMAIN right : right[j] = right[k] => j = k
    /\ \A i \in DOMAIN left : Partners(left[i]) # {}

TheJoin == [i \in DOMAIN left |->
                [row |-> i, entry |-> CHOOSE k \in Partners(left[i]) : TRUE]]

Init == outcome = <<"none">>

Succeed == /\ outcome = <<"none">>
           /\ Joinable
           /\ outcome' = <<"joined", TheJoin>>
           /\ UNCHANGED <<left, right>>

\* An implementation may also fail for reasons of its own.
Fail == /\ outcome = <<"none">>
        /\ outcome' = <<"failed">>
        /\ UNCHANGED <<left, right>>

Next == Succeed \/ Fail

Spec == Init /\ [][Next]_vars
==============================================================================
