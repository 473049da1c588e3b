----------------------------- MODULE Coroutines -----------------------------
(***************************************************************************)
(* What coroutines promise to a script: each has calls of its own, one at  *)
(* most runs, a yield puts the calls of the one that runs aside as they    *)
(* are, and a resume takes them up again where they were, each still       *)
(* waiting for the number of results it asked for.                         *)
(***************************************************************************)
EXTENDS Integers, Sequences, SequencesExt

CONSTANTS
    Coros,    \* the coroutines
    NoCoro,   \* none of them
    MaxVals   \* the number of values a coroutine has room for

Vals == 0..MaxVals

(* A number of results a call can ask for: all there are when it is -1.    *)
Results == {-1} \cup Vals

VARIABLES
    sta,    \* "none", "READY", "RUN", "YIELD" or "END"
    calls,  \* calls[c]: its calls, the innermost last
    cur     \* the coroutine that runs

vars == <<sta, calls, cur>>

(* A call: the results its caller waits for, the number of its arguments,  *)
(* locals and temporaries, and whether native code waits for it, which     *)
(* cannot be put aside.                                                    *)
Frame(nres, vals, native) == [nres |-> nres, vals |-> vals, native |-> native]

Inner == Last(calls[cur])
WithInner(f) == Front(calls[cur]) \o <<f>>

Init ==
    /\ sta = [c \in Coros |-> "none"] /\ calls = [c \in Coros |-> <<>>]
    /\ cur = NoCoro

(* The function of a coroutine and its narg arguments leave the caller, if *)
(* it is a coroutine that creates it.                                      *)
Create(c, narg) ==
    /\ sta[c] = "none"
    /\ sta' = [sta EXCEPT ![c] = "READY"]
    /\ IF cur = NoCoro
       THEN UNCHANGED calls
       ELSE /\ Inner.vals > narg
            /\ calls' = [calls EXCEPT ![cur] = WithInner([Inner EXCEPT !.vals = @ - narg - 1])]
    /\ UNCHANGED cur

(* What it was created from cannot be called.                              *)
Reject(c) ==
    /\ cur = NoCoro /\ sta[c] = "READY"
    /\ sta' = [sta EXCEPT ![c] = "END"]
    /\ UNCHANGED <<calls, cur>>

(* A coroutine starts with its first call, or goes on with those it has.   *)
Start(c) ==
    /\ cur = NoCoro /\ sta[c] = "READY"
    /\ sta' = [sta EXCEPT ![c] = "RUN"]
    /\ \E v \in Vals : calls' = [calls EXCEPT ![c] = <<Frame(0, v, FALSE)>>]
    /\ cur' = c
Resume(c) ==
    /\ cur = NoCoro /\ sta[c] = "YIELD"
    /\ sta' = [sta EXCEPT ![c] = "RUN"]
    /\ cur' = c
    /\ UNCHANGED calls

Compute ==
    /\ cur # NoCoro
    /\ \E v \in Vals : calls' = [calls EXCEPT ![cur] = WithInner([Inner EXCEPT !.vals = v])]
    /\ UNCHANGED <<sta, cur>>

(* The function and its narg arguments leave the caller.                   *)
Call(narg, nres, v, native) ==
    /\ cur # NoCoro /\ Inner.vals > narg
    /\ calls' = [calls EXCEPT ![cur] =
                    WithInner([Inner EXCEPT !.vals = @ - narg - 1])
                    \o <<Frame(nres, v, native \/ Inner.native)>>]
    /\ UNCHANGED <<sta, cur>>

(* Native code pushes the function and the arguments itself.               *)
NativeCall(nres, v) ==
    /\ cur # NoCoro
    /\ calls' = [calls EXCEPT ![cur] = @ \o <<Frame(nres, v, TRUE)>>]
    /\ UNCHANGED <<sta, cur>>

(* The caller gets the results it waits for, whatever number k there are.  *)
Return(k) ==
    /\ cur # NoCoro /\ k <= Inner.vals /\ Len(calls[cur]) > 1
    /\ LET n == IF Inner.nres = -1 THEN k ELSE Inner.nres
           outer == Front(calls[cur])
       IN  calls' = [calls EXCEPT ![cur] =
                        Front(outer) \o <<[Last(outer) EXCEPT !.vals = @ + n]>>]
    /\ UNCHANGED <<sta, cur>>

(* The first call returns, or an error ends the coroutine.                 *)
End ==
    /\ cur # NoCoro
    /\ sta' = [sta EXCEPT ![cur] = "END"]
    /\ calls' = [calls EXCEPT ![cur] = <<>>]
    /\ cur' = NoCoro

Yield ==
    /\ cur # NoCoro /\ ~Inner.native
    /\ sta' = [sta EXCEPT ![cur] = "YIELD"]
    /\ cur' = NoCoro
    /\ UNCHANGED calls

(* Coroutines that have ended are forgotten.                               *)
Forget ==
    /\ sta' = [c \in Coros |-> IF sta[c] = "END" THEN "none" ELSE sta[c]]
    /\ UNCHANGED <<calls, cur>>

Next ==
    \/ \E c \in Coros : Reject(c) \/ Start(c) \/ Resume(c)
    \/ \E c \in Coros, narg \in Vals : Create(c, narg)
    \/ Compute \/ End \/ Yield \/ Forget
    \/ \E narg \in Vals, nres \in Results, v \in Vals, native \in BOOLEAN :
          Call(narg, nres, v, native)
    \/ \E nres \in Results, v \in Vals : NativeCall(nres, v)
    \/ \E k \in Vals : Return(k)

Spec == Init /\ [][Next]_vars
=============================================================================
