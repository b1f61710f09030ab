--------------------------- MODULE OwnedResource ---------------------------
(***************************************************************************)
(* What a node instance promises to the tenant it works in: it owns at     *)
(* most one resource, acquires one only when it owns none, and takes no    *)
(* resource of anybody else.                                               *)
(***************************************************************************)
CONSTANT Ids
VARIABLES owned,   \* the resource the node instance created
          foreign  \* the resources of others that it has left alone

Init == owned = {} /\ foreign \subseteq Ids

Acquire == /\ owned = {}
           /\ \E i \in Ids \ foreign : owned' = {i}
           /\ UNCHANGED foreign

\* By the node's delete, or because somebody else removed it.
Release == owned' = {} /\ UNCHANGED foreign

OthersCreate == /\ \E i \in Ids \ (owned \union foreign) :
                     foreign' = foreign \union {i}
                /\ UNCHANGED owned

Next == Acquire \/ Release \/ OthersCreate

Spec == Init /\ [][Next]_<<owned, foreign>>
=============================================================================
