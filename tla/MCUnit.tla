------------------------------- MODULE MCUnit -------------------------------
EXTENDS LosuUnit

(* Three keys share a node as long as there are four, two of them of eight *)
(* as well.                                                                *)
Hashes == <<0, 8, 4, 1, 3, 7, 11, 8>>

(* The keys above Free come in the order of their numbers, while no loop   *)
(* runs and few keys have a value: enough for a vector of eight to fill    *)
(* with dead keys and shrink, as often as there are keys.                  *)
Free == 5
MaxValues == 2
Few(k, v) ==
    /\ at = NoKey
    /\ NodeOf(unit, k) = Nil => \A j \in 1..k-1 : NodeOf(unit, j) # Nil
    /\ Cardinality({j \in Keys \ {k} : Get(unit, j) # Null})
         + (IF v = Null THEN 0 ELSE 1) <= MaxValues

Bounded ==
    \/ \E k \in Keys, v \in Values \cup {Null} :
          /\ {k} \cup {j \in Keys : NodeOf(unit, j) # Nil} \subseteq 1..Free \/ Few(k, v)
          /\ Set(k, v)
    \/ ForInPrep
    \/ ForInNext
BoundedSpec == Init /\ [][Bounded]_vars
=============================================================================
