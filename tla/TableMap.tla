------------------------------- MODULE TableMap -------------------------------
(***************************************************************************)
(* What a Lua table promises its program: it is a function from keys to    *)
(* values, and `next' visits its fields, each at most once and all before  *)
(* it ends, as long as the program only changes fields that exist.         *)
(***************************************************************************)
EXTENDS FiniteSets

CONSTANTS Keys, Values, Nil

VARIABLES
  map,      \* the value of each key
  walking,  \* whether a traversal is under way whose order is still defined
  visited   \* the keys it has returned

mapVars == <<map, walking, visited>>
Fields  == {k \in Keys : map[k] # Nil}

MapInit == map = [k \in Keys |-> Nil] /\ walking = FALSE /\ visited = {}

\* An assignment to a field that does not exist leaves the traversal undefined.
Assign(k, v) ==
  /\ map' = [map EXCEPT ![k] = v]
  /\ walking' = (walking /\ k \in Fields)
  /\ visited' = IF walking' THEN visited ELSE {}
Begin == walking' = TRUE /\ visited' = {} /\ UNCHANGED map
Visit(k) ==
  /\ walking /\ k \in Fields \ visited
  /\ visited' = visited \cup {k}
  /\ UNCHANGED <<map, walking>>
Finish ==
  /\ walking /\ Fields \subseteq visited
  /\ walking' = FALSE /\ visited' = {}
  /\ UNCHANGED map

MapNext ==
  \/ \E k \in Keys, v \in Values \cup {Nil} : Assign(k, v)
  \/ Begin \/ Finish \/ \E k \in Keys : Visit(k)
MapSpec == MapInit /\ [][MapNext]_mapVars
=============================================================================
