------------------------------- MODULE MCHeap -------------------------------
EXTENDS LosuHeap

CONSTANTS
    Nested,     \* the objects of a function nested in another
    MaxDecoded  \* bound: the codes made by the decoder

(* Nested functions and closures over values are made while there are no   *)
(* tables but the globals and no strings, finalizers while there are no    *)
(* nested functions: neither needs the other.  Byte code is loaded with    *)
(* as little else, since its codes differ in how they are counted only.    *)
Apart ==
    /\ live' \cap Nested = {} \/ live' \cap (Units \cup Strs) = {Global}
    /\ decoded' > 0 => live' \cap (Units \cup Strs) \subseteq {Global}
    /\ decoded' <= MaxDecoded

HeapSpec ==
    /\ Init /\ [][Next /\ Apart]_vars
    /\ WF_vars(CollectorRuns) /\ WF_vars(DelReturn)
=============================================================================
