----------------------------- MODULE ObjectForest -----------------------------
(***************************************************************************)
(* What the tables promise while objects are only added: a growing forest. *)
(* A stored value is attached once, below a stored value of the class that *)
(* owns its class (or below nothing, when that one was never stored), and  *)
(* from then on it stays where it is.                                      *)
(***************************************************************************)
EXTENDS Integers

CONSTANTS
    Classes,   \* the classes of the tree
    OwnerOf    \* OwnerOf[e]: the class whose values own values of e, e itself if none does

VARIABLES
    nodes,     \* the stored values, each with its class and its owner, if any
    count      \* how many values have been stored

fvars == <<nodes, count>>

Owners(e) ==
    IF OwnerOf[e] = e THEN {{}}
    ELSE {{}} \cup {{n.tok} : n \in {m \in nodes : m.e = OwnerOf[e]}}

FInit == nodes = {} /\ count = 0

Attach(e) ==
    \E owner \in Owners(e) :
        /\ nodes' = nodes \cup {[tok |-> count + 1, e |-> e, owner |-> owner]}
        /\ count' = count + 1

FNext == \E e \in Classes : Attach(e)

FSpec == FInit /\ [][FNext]_fvars

=============================================================================
