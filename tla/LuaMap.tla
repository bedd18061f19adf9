------------------------------- MODULE LuaMap -------------------------------
(***************************************************************************)
(* What a Lua table promises to a script: it maps keys to values, a field  *)
(* keeps its value until it is assigned again, and a traversal with next   *)
(* meets every field once, though fields are changed or cleared on the way.*)
(***************************************************************************)
EXTENDS FiniteSets, Naturals

CONSTANTS MapKeys, Nil

VARIABLES
    contents,   \* the value of each key, Nil when there is none
    visited     \* the keys met by the traversal in progress; {Nil} when there is none

mapvars == <<contents, visited>>

Present == {k \in MapKeys : contents[k] # Nil}

MapInit == contents = [k \in MapKeys |-> Nil] /\ visited = {Nil}

\* One field gets a value or none. While a table is traversed, absent fields stay absent.
Assign ==
    /\ UNCHANGED visited
    /\ LET assigned == {k \in MapKeys : contents'[k] # contents[k]}
       IN  /\ Cardinality(assigned) = 1
           /\ visited = {Nil} \/ assigned \subseteq Present

Begin == visited = {Nil} /\ visited' = {} /\ UNCHANGED contents

\* A step of the traversal meets a field that it has not met.
Meet(k) ==
    /\ k \in visited' \ visited /\ visited' = visited \cup {k}
    /\ contents[k] # Nil /\ UNCHANGED contents

\* It ends when it has met every field.
Finish == visited' = {Nil} /\ Present \subseteq visited /\ UNCHANGED contents

MapNext == Assign \/ Begin \/ Finish \/ \E k \in MapKeys : Meet(k)

MapSpec == MapInit /\ [][MapNext]_mapvars
=============================================================================
