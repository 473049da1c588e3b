---------------------------- MODULE MCCoroutine ----------------------------
EXTENDS LosuCoroutine, TLC

(* An address is as good as another.                                       *)
AnyContext == Permutations(Contexts)

(* Where symmetry is of no use, for liveness, what is new gets the first   *)
(* of the addresses that are free.                                         *)
Addresses == SetToSeq(Coros) \o SetToSeq(Contexts)
Rank == [a \in ToSet(Addresses) |-> CHOOSE i \in DOMAIN Addresses : Addresses[i] = a]
FirstOf(S, free) == \A a \in S \cap free, b \in free : Rank[a] <= Rank[b]
FirstFree ==
    /\ FirstOf({c \in Coros : sta'[c] # "none"}, {c \in Coros : sta[c] = "none"})
    /\ FirstOf(Held' \cup (called' \ called), Contexts \ Held)
(* Functions that call none, and keep no operands while they wait.         *)
Shallow == Len(act') <= 1 /\ \A c \in Coros : sta'[c] # "RUN" => top'[c] <= 1

LoopSpec ==
    /\ Init /\ [][Next /\ Shallow /\ FirstFree]_vars
    /\ WF_vars(Loop) /\ WF_vars(Suspend)
=============================================================================
