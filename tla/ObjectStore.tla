----------------------------- MODULE ObjectStore ----------------------------
(***************************************************************************)
(* What the server's directory of files is meant to be: a store of         *)
(* immutable objects.  An object is stored once, under a name never drawn  *)
(* before, and from then on it can be removed, or moved to a name that was *)
(* drawn for it, and nothing else: its content never changes and no other  *)
(* object is lost by it.                                                   *)
(***************************************************************************)
CONSTANTS ObjectNames, Objects

VARIABLES
  objects,  \* a map from names to objects
  drawn     \* the names that were given out

vars == <<objects, drawn>>

Init == objects = [n \in {} |-> n] /\ drawn = {}

Draw(n) ==
  /\ n \notin drawn
  /\ drawn' = drawn \cup {n}
  /\ UNCHANGED objects

Store(n) ==
  /\ n \notin drawn
  /\ drawn' = drawn \cup {n}
  /\ objects' \in [DOMAIN objects \cup {n} -> Objects]
  /\ \A x \in DOMAIN objects \ {n} : objects'[x] = objects[x]

Move(old, new) ==
  /\ old \in DOMAIN objects
  /\ new \in drawn \ DOMAIN objects
  /\ objects' = [x \in (DOMAIN objects \ {old}) \cup {new} |->
                   IF x = new THEN objects[old] ELSE objects[x]]
  /\ UNCHANGED drawn

Remove(n) ==
  /\ objects' = [x \in DOMAIN objects \ {n} |-> objects[x]]
  /\ UNCHANGED drawn

Next ==
  \/ \E n \in ObjectNames : Draw(n) \/ Store(n) \/ Remove(n)
  \/ \E old, new \in ObjectNames : Move(old, new)

Spec == Init /\ [][Next]_vars
=============================================================================
