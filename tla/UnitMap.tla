------------------------------ MODULE UnitMap ------------------------------
(***************************************************************************)
(* What a table promises to a script: it maps keys to values, and a loop   *)
(*    for k, v in t:                                                       *)
(* visits each of its keys once, as long as the body only assigns to keys  *)
(* that are there and does not delete the one it is at.  (To set a key     *)
(* that is not there to null is no such assignment: it may rearrange the   *)
(* table.)                                                                 *)
(***************************************************************************)
CONSTANTS Keys, Values,
          Null,  \* the value of a key that is not there
          NoKey  \* where no loop is

VARIABLES
    map,
    at,      \* the key that the loop over the table is at
    strict,  \* whether the body has kept to the rules
    seen     \* the keys the loop has visited, while it has

vars == <<map, at, strict, seen>>

Present == {k \in Keys : map[k] # Null}

Init ==
    /\ map = [k \in Keys |-> Null]
    /\ at = NoKey /\ strict = TRUE /\ seen = {}

Set(k, v) ==
    /\ map' = [map EXCEPT ![k] = v]
    /\ strict' = (strict /\ (at # NoKey => k \in Present /\ (v = Null => k # at)))
    /\ seen' = IF strict' THEN seen ELSE {}
    /\ UNCHANGED at

(* A loop starts, or goes on, at a key; it ends when none is left.         *)
Visit(k) ==
    /\ k \in Present
    /\ k \notin seen
    /\ at' = k
    /\ seen' = IF strict THEN seen \cup {k} ELSE {}
    /\ UNCHANGED <<map, strict>>
Stop ==
    /\ at # NoKey
    /\ strict => Present \subseteq seen
    /\ at' = NoKey /\ strict' = TRUE /\ seen' = {}
    /\ UNCHANGED map

Next ==
    \/ \E k \in Keys, v \in Values \cup {Null} : Set(k, v)
    \/ \E k \in Keys : Visit(k)
    \/ Stop

Spec == Init /\ [][Next]_vars
=============================================================================
