--------------------------- MODULE LosuHeapProofs ---------------------------
(***************************************************************************)
(* The heap is type-correct, and nothing in it dangles, for every set of   *)
(* objects and every bound.  A collection marks exactly what can be        *)
(* reached, finalizes before it frees, counts what it frees, and does so   *)
(* in vm_close as well, unless a finalizer has raised before.              *)
(***************************************************************************)
EXTENDS LosuHeap, FiniteSetTheorems, TLAPS

LEMMA ObjFinite == ASSUME NEW S \in SUBSET Obj
                   PROVE  IsFiniteSet(S) /\ Cardinality(S) \in Nat
BY FiniteHeap, FS_Subset, FS_CardinalityType

LEMMA CorosFinite == ASSUME NEW S \in SUBSET Coros
                     PROVE  IsFiniteSet(S) /\ Cardinality(S) \in Nat
BY FiniteHeap, FS_Subset, FS_CardinalityType

(* The threshold check at the end of an instruction keeps the types.       *)
LEMMA NewTaskType ==
    ASSUME TypeOK, cur' \in Stacks, live' \in SUBSET Obj,
           stack' \in [Stacks -> SUBSET Obj], NewTask
    PROVE  /\ marked' \subseteq Obj /\ grey' \subseteq Obj
           /\ gc' \in BOOLEAN /\ phase' \in Phases /\ mtop' \subseteq Obj
<1>1. CASE UNCHANGED <<markVars, mtop>>
  BY <1>1 DEF TypeOK, markVars
<1>2. CASE /\ gc' = TRUE /\ phase' = "mark"
           /\ mtop' = IF cur = Main THEN stack'[Main] ELSE mtop
           /\ marked' = marked \cup Roots'
           /\ grey' = (Roots' \ marked) \ Strs
  <2>1. mtop' \subseteq Obj
    BY <1>2 DEF TypeOK, Stacks
  <2>2. Roots' \subseteq Obj
    BY <2>1, Kinds DEF Roots, Stacks, Obj
  <2> QED  BY <1>2, <2>1, <2>2 DEF TypeOK, Phases
<1> QED  BY <1>1, <1>2 DEF NewTask
(* Type correctness is preserved by every step.                            *)
LEMMA TypeStep == ASSUME TypeOK, [Next]_vars PROVE TypeOK'
<1>1. ASSUME NEW o \in Obj, Push(o) PROVE TypeOK'
    BY <1>1 DEF TypeOK, Push, Frame, Returns, heapVars, markVars, countVars,
       hostVars, Stacks, Obj
<1>2. ASSUME NEW o \in Obj, Pop(o) PROVE TypeOK'
    BY <1>2 DEF TypeOK, Pop, Frame, Returns, heapVars, markVars, countVars,
       hostVars, Stacks, Obj
<1>3. ASSUME Call PROVE TypeOK'
    BY <1>3, NewTaskType DEF TypeOK, Call, heapVars, delVars, countVars,
       hostVars, Stacks
<1>4. ASSUME NEW u \in Units, NewUnit(u) PROVE TypeOK'
    BY <1>4 DEF TypeOK, NewUnit, Returns, Frame, markVars, countVars,
       hostVars, Stacks, Obj
<1>5. ASSUME NEW s \in Strs, Concat(s) PROVE TypeOK'
    BY <1>5, NewTaskType DEF TypeOK, Concat, Returns, Frame, countVars,
       hostVars, Stacks, Obj
<1>6. ASSUME NEW src \in Sources, NEW k \in Codes, NEW nest \in SUBSET Codes,
             NEW ss \in SUBSET Strs, NEW f \in Funcs, Load(src, k, nest, ss, f)
      PROVE  TypeOK'
  <2>1. \A S \in SUBSET Obj : Cardinality(S) \in Nat
    BY ObjFinite
  <2>2. nblocks' \in Int /\ decoded' \in Nat
    BY <1>6, <2>1 DEF TypeOK, Load, Uncounted, Obj
  <2> QED  BY <1>6, <2>2 DEF TypeOK, Load, Returns, Frame, markVars,
              hostVars, Stacks, Obj
<1>7. ASSUME NEW f \in Funcs, NEW k \in Codes, NEW clo \in SUBSET Frame, Closure(f, k, clo) PROVE TypeOK'
    BY <1>7, NewTaskType DEF TypeOK, Closure, Frame, Returns, countVars,
       hostVars, Stacks, Obj
<1>8. ASSUME NEW u \in Units, NEW o \in Obj, SetField(u, o) PROVE TypeOK'
    BY <1>8 DEF TypeOK, SetField, Frame, stackVars, markVars, delVars,
       countVars, hostVars, Stacks, Obj
<1>9. ASSUME NEW u \in Units, NEW o \in Obj, ClearField(u, o) PROVE TypeOK'
    BY <1>9 DEF TypeOK, ClearField, Frame, stackVars, markVars, delVars,
       countVars, hostVars, Stacks, Obj
<1>10. ASSUME NEW u \in Units, NEW f \in Funcs \cup {NoObj}, SetDel(u, f) PROVE TypeOK'
    BY <1>10 DEF TypeOK, SetDel, Frame, stackVars, markVars, delVars,
       countVars, hostVars, Stacks, Obj
<1>11. ASSUME NEW c \in Coros, NEW args \in SUBSET Frame, Async(c, args) PROVE TypeOK'
    BY <1>11 DEF TypeOK, Async, Frame, heapVars, markVars, delVars,
       countVars, hostVars, CoroStates, Stacks, Obj
<1>12. ASSUME NEW c \in Coros, Await(c) PROVE TypeOK'
    BY <1>12 DEF TypeOK, Await, heapVars, markVars, delVars, countVars,
       hostVars, CoroStates, Stacks
<1>13. ASSUME Yield PROVE TypeOK'
    BY <1>13 DEF TypeOK, Yield, heapVars, markVars, delVars, countVars,
       hostVars, CoroStates, Stacks
<1>14. ASSUME Finish PROVE TypeOK'
    BY <1>14 DEF TypeOK, Finish, heapVars, markVars, delVars, countVars,
       hostVars, CoroStates, Stacks
<1>15. ASSUME ExecReturn PROVE TypeOK'
    BY <1>15 DEF TypeOK, ExecReturn, heapVars, markVars, delVars, countVars,
       Hosts, Stacks
<1>16. ASSUME LastCollect PROVE TypeOK'
    BY <1>16, NewTaskType DEF TypeOK, LastCollect, heapVars, delVars, Hosts,
       Stacks
<1>17. ASSUME NEW o \in Obj, Mark(o) PROVE TypeOK'
  <2>1. Kids(o) \subseteq Obj
    BY DEF TypeOK, Kids, Obj
  <2> QED  BY <1>17, <2>1 DEF TypeOK, Mark, heapVars, stackVars, delVars,
          countVars, hostVars, Phases
<1>18. ASSUME MarkEnd PROVE TypeOK'
    BY <1>18 DEF TypeOK, MarkEnd, heapVars, stackVars, delVars, countVars,
       hostVars, Phases, SweepPhases, Stacks
<1>19. ASSUME NEW u \in Units, Finalize(u) PROVE TypeOK'
    BY <1>19 DEF TypeOK, Finalize, heapVars, stackVars, countVars, hostVars,
       Phases, SweepPhases, Stacks, Doomed, Obj
<1>20. ASSUME DelReturn PROVE TypeOK'
    BY <1>20 DEF TypeOK, DelReturn, stackVars, countVars, hostVars, Phases,
       SweepPhases, Stacks
<1>21. ASSUME DelRaise PROVE TypeOK'
    BY <1>21 DEF TypeOK, DelRaise, stackVars, heapVars, countVars, Phases,
       SweepPhases, Hosts, CoroStates, Stacks
<1>22. ASSUME DeinitEnd PROVE TypeOK'
    BY <1>22 DEF TypeOK, DeinitEnd, heapVars, stackVars, delVars, countVars,
       hostVars, Phases, SweepPhases, Stacks
<1>23. ASSUME SweepUnit PROVE TypeOK'
    BY <1>23, ObjFinite DEF TypeOK, SweepUnit, Sweep, Free, stackVars,
       delVars, countVars, hostVars, Phases, SweepPhases, Stacks, Obj
<1>24. ASSUME SweepStr PROVE TypeOK'
    BY <1>24, ObjFinite DEF TypeOK, SweepStr, Sweep, Free, stackVars,
       delVars, countVars, hostVars, Phases, SweepPhases, Stacks, Obj
<1>25. ASSUME SweepCode PROVE TypeOK'
    BY <1>25, ObjFinite DEF TypeOK, SweepCode, Sweep, Free, stackVars,
       delVars, countVars, hostVars, Phases, SweepPhases, Stacks, Obj
<1>26. ASSUME SweepFunc PROVE TypeOK'
    BY <1>26, ObjFinite DEF TypeOK, SweepFunc, Sweep, Free, stackVars,
       delVars, countVars, hostVars, Phases, SweepPhases, Stacks, Obj
<1>27. ASSUME SweepCoro PROVE TypeOK'
  <2>1. Cardinality({c \in Coros : sta[c] = "END"}) \in Int
    BY CorosFinite
  <2>2. sta' \in [Coros -> CoroStates] /\ nblocks' \in Int /\ gcDymax' \in Nat
    BY <1>27, <2>1 DEF SweepCoro, TypeOK, CoroStates
  <2> QED  BY <1>27, <2>2 DEF SweepCoro, TypeOK, heapVars, delVars, hostVars,
          Phases
<1>28. ASSUME CloseStart PROVE TypeOK'
    BY <1>28 DEF TypeOK, CloseStart, heapVars, stackVars, markVars, delVars,
       countVars, Hosts, Stacks
<1>29. ASSUME NEW u \in Units, CloseFinalize(u) PROVE TypeOK'
    BY <1>29 DEF TypeOK, CloseFinalize, heapVars, markVars, delVars,
       countVars, Stacks, Doomed, Obj
<1>30. ASSUME CloseDelReturn PROVE TypeOK'
    BY <1>30 DEF TypeOK, CloseDelReturn, markVars, delVars, countVars,
       Stacks
<1>31. ASSUME CloseDelRaise PROVE TypeOK'
    BY <1>31 DEF TypeOK, CloseDelRaise, heapVars, stackVars, markVars,
       delVars, countVars, Hosts, Stacks
<1>32. ASSUME CloseSweep PROVE TypeOK'
    BY <1>32, ObjFinite, CorosFinite DEF TypeOK, CloseSweep, Free, delVars,
       countVars, Hosts, CoroStates, Stacks, Obj
<1>33. ASSUME Over PROVE TypeOK'
    BY <1>33 DEF TypeOK, Over, vars, Stacks
<1>34. ASSUME UNCHANGED vars PROVE TypeOK'
  BY <1>34 DEF TypeOK, vars
<1> QED  BY <1>1, <1>2, <1>3, <1>4, <1>5, <1>6, <1>7, <1>8, <1>9, <1>10,
          <1>11, <1>12, <1>13, <1>14, <1>15, <1>16, <1>17, <1>18, <1>19,
          <1>20, <1>21, <1>22, <1>23, <1>24, <1>25, <1>26, <1>27, <1>28,
          <1>29, <1>30, <1>31, <1>32, <1>33, <1>34 DEF Next, Mutate, Drive,
          Collect, Close
(* Every reachable state of the heap, the stacks and the collector is      *)
(* type-correct.                                                           *)
THEOREM TypeCorrect == Spec => []TypeOK
<1>1. Init => TypeOK
  <2> SUFFICES ASSUME Init PROVE TypeOK
    OBVIOUS
  <2>1. live \subseteq Obj /\ del \in [Units -> Funcs \cup {NoObj}]
    BY Kinds DEF Init, Obj
  <2>2. nblocks \in Int /\ gcDymax \in Nat /\ gcMax \in Nat /\ decoded \in Nat
    BY Bounds DEF Init
  <2>3. cur \in Stacks /\ stack \in [Stacks -> SUBSET Obj]
    BY DEF Init, Stacks
  <2>4. sta \in [Coros -> CoroStates] /\ phase \in Phases /\ host \in Hosts
    BY DEF Init, CoroStates, Phases, Hosts
  <2> QED  BY <2>1, <2>2, <2>3, <2>4 DEF Init, TypeOK
<1>2. TypeOK /\ [Next]_vars => TypeOK'
  BY TypeStep
<1> QED  BY <1>1, <1>2, PTL DEF Spec

-----------------------------------------------------------------------------
(* The roots are in a set when the slots they are read from are.           *)
LEMMA RootsIn ==
    ASSUME NEW S
    PROVE  Roots \subseteq S <=>
               /\ Global \in S
               /\ cur # Main => mtop \subseteq S
               /\ stack[cur] \subseteq S
               /\ \A c \in Coros : Alive(c) /\ c # cur => stack[c] \subseteq S
BY DEF Roots

LEMMA RootsInPrime ==
    ASSUME NEW S
    PROVE  Roots' \subseteq S <=>
               /\ Global \in S
               /\ cur' # Main => mtop' \subseteq S
               /\ stack'[cur'] \subseteq S
               /\ \A c \in Coros : Alive(c)' /\ c # cur' => stack'[c] \subseteq S
BY DEF Roots

(* The running code only has live objects in its hands.                    *)
LEMMA FrameLive ==
    ASSUME TypeOK, HeapInv, Running
    PROVE  /\ Open /\ phase \in {"run", "del"} /\ Swept = {}
           /\ Global \in live /\ Frame \subseteq live /\ Closed(live)
<1>1. Open /\ phase \in {"run", "del"} /\ Swept = {}
  BY DEF Running, HeapInv, ControlInv, Open, Swept
<1> QED  BY <1>1, RootsIn DEF HeapInv, NoDangling, SweepPhases, Frame, Closed

(* The sweep of one pool leaves what it has to leave: what is kept neither *)
(* shrinks nor loses a reference.                                          *)
LEMMA SweepStep ==
    ASSUME TypeOK, HeapInv, NEW pool, NEW from, NEW to, Sweep(pool, from, to),
           <<pool, from, to>> \in
               {<<Units, "sweepUnit", "sweepStr">>, <<Strs, "sweepStr", "sweepCode">>,
                <<Codes, "sweepCode", "sweepFunc">>, <<Funcs, "sweepFunc", "sweepCoro">>}
    PROVE  HeapInv'
<1> DEFINE dead == (live \cap pool) \ marked
<1>1. /\ phase = from /\ phase' = to
      /\ from \in SweepPhases /\ to \in SweepPhases
      /\ {from, to} \cap {"run", "mark", "del"} = {}
  BY DEF Sweep, SweepPhases
<1>2. /\ live' = live \ dead /\ marked' = marked \ pool
      /\ \A o \in Obj : Kids(o)' = IF o \in dead THEN {} ELSE Kids(o)
  BY Kinds DEF Sweep, Free, Kids, Obj, TypeOK
<1>3. UNCHANGED <<stack, mtop, sta, cur, gc, tmp, host, closeSelf>>
  BY DEF Sweep, stackVars, delVars, hostVars
<1>4. Roots' = Roots
  BY <1>3 DEF Roots, Alive
<1>5. Swept' = Swept \cup pool /\ pool \cap Swept = {}
  BY <1>1, Kinds DEF Swept, Obj
<1>6. marked \subseteq live /\ marked \cap Swept = {}
  BY DEF HeapInv, MarkedInv
<1>7. Kept' = Kept /\ Kept \cap dead = {}
  BY <1>1, <1>2, <1>5, <1>6 DEF Kept
<1>8. ControlInv'
  BY <1>1, <1>3 DEF HeapInv, ControlInv, Open
<1>9. FreshInv'
  BY <1>2 DEF HeapInv, FreshInv
<1>10. MarkedInv'
  BY <1>2, <1>3, <1>5, <1>6 DEF HeapInv, MarkedInv
<1>11. GreyInv' /\ NoDangling'
  BY <1>1 DEF GreyInv, NoDangling
<1>12. KeptInv'
  <2>1. \A o \in Kept : Kids(o)' = Kids(o)
    BY <1>2, <1>6, <1>7 DEF Kept, TypeOK
  <2> QED  BY <1>1, <1>3, <1>4, <1>7, <2>1 DEF HeapInv, KeptInv, Open, Closed
<1> QED  BY <1>8, <1>9, <1>10, <1>11, <1>12 DEF HeapInv

(* Every step preserves the invariant, if no finalizer stores garbage in a *)
(* surviving object or lets go of its own object.  The roots after a step  *)
(* are compared with the objects kept slot by slot.                        *)
LEMMA HeapStep ==
    ASSUME TypeOK, TypeOK', HeapInv, [Next]_vars,
           "store" \notin DelMay, "drop" \notin DelMay
    PROVE  HeapInv'
<1> USE RootsIn, RootsInPrime, Kinds
    DEF HeapInv, ControlInv, FreshInv, MarkedInv, GreyInv, KeptInv, NoDangling,
        Kept, Swept, Closed, Open, Alive, Kids, SweepPhases, TypeOK, Obj, Stacks
<1>1. ASSUME NEW o \in Obj, Push(o) PROVE HeapInv'
  BY <1>1, FrameLive DEF Push, Running, Frame, Returns, heapVars, markVars,
     countVars, hostVars, Readable
<1>2. ASSUME NEW o \in Obj, Pop(o) PROVE HeapInv'
  BY <1>2, FrameLive DEF Pop, Running, Frame, Returns, heapVars, markVars,
     countVars, hostVars
<1>3. ASSUME Call PROVE HeapInv'
  <2>1. CASE ~ (Full' /\ ~gc)
    BY <1>3, FrameLive, <2>1 DEF Call, Running, heapVars, delVars, countVars,
       hostVars, NewTask, markVars
  <2>2. CASE Full' /\ ~gc
    BY <1>3, FrameLive, <2>2 DEF Call, Running, heapVars, delVars, countVars,
       hostVars, NewTask, markVars
  <2> QED  BY <2>1, <2>2
<1>4. ASSUME NEW u \in Units, NewUnit(u) PROVE HeapInv'
  BY <1>4, FrameLive DEF NewUnit, Running, Returns, Frame, markVars,
     countVars, hostVars
<1>5. ASSUME NEW s \in Strs, Concat(s) PROVE HeapInv'
  <2>1. CASE ~ (Full' /\ ~gc)
    BY <1>5, FrameLive, <2>1 DEF Concat, Running, Returns, Frame, countVars,
       hostVars, NewTask, markVars
  <2>2. CASE Full' /\ ~gc
    BY <1>5, FrameLive, <2>2 DEF Concat, Running, Returns, Frame, countVars,
       hostVars, NewTask, markVars
  <2> QED  BY <2>1, <2>2
<1>6. ASSUME NEW src \in Sources, NEW k \in Codes, NEW nest \in SUBSET Codes,
          NEW ss \in SUBSET Strs, NEW f \in Funcs, Load(src, k, nest, ss, f)
      PROVE  HeapInv'
  <2>1. ControlInv'
    BY <1>6, FrameLive DEF Load, Running, Returns, Frame, markVars, hostVars
  <2>2. FreshInv'
    BY <1>6, FrameLive DEF Load, Running, Returns, Frame, markVars, hostVars
  <2>3. MarkedInv'
    BY <1>6, FrameLive DEF Load, Running, Returns, Frame, markVars, hostVars
  <2>4. GreyInv'
    BY <1>6, FrameLive DEF Load, Running, Returns, Frame, markVars, hostVars
  <2>5. KeptInv'
    BY <1>6, FrameLive DEF Load, Running, Returns, Frame, markVars, hostVars
  <2>6. NoDangling'
    BY <1>6, FrameLive DEF Load, Running, Returns, Frame, markVars, hostVars
  <2> QED  BY <2>1, <2>2, <2>3, <2>4, <2>5, <2>6
<1>7. ASSUME NEW f \in Funcs, NEW k \in Codes, NEW clo \in SUBSET Frame,
          Closure(f, k, clo) PROVE HeapInv'
  <2>1. CASE ~ (Full' /\ ~gc)
    BY <1>7, FrameLive, <2>1 DEF Closure, Running, Frame, Returns, countVars,
       hostVars, NewTask, markVars
  <2>2. CASE Full' /\ ~gc
    BY <1>7, FrameLive, <2>2 DEF Closure, Running, Frame, Returns, countVars,
       hostVars, NewTask, markVars
  <2> QED  BY <2>1, <2>2
<1>8. ASSUME NEW u \in Units, NEW o \in Obj, SetField(u, o) PROVE HeapInv'
  BY <1>8, FrameLive DEF SetField, Running, Frame, MayKeep, stackVars,
     markVars, delVars, countVars, hostVars
<1>9. ASSUME NEW u \in Units, NEW o \in Obj, ClearField(u, o) PROVE HeapInv'
  BY <1>9, FrameLive DEF ClearField, Running, Frame, stackVars, markVars,
     delVars, countVars, hostVars
<1>10. ASSUME NEW u \in Units, NEW f \in Funcs \cup {NoObj}, SetDel(u, f)
          PROVE HeapInv'
  BY <1>10, FrameLive DEF SetDel, Running, Frame, MayKeep, stackVars,
     markVars, delVars, countVars, hostVars
<1>11. ASSUME NEW c \in Coros, NEW args \in SUBSET Frame, Async(c, args) PROVE
          HeapInv'
  BY <1>11, FrameLive DEF Async, Running, Frame, MayKeep, heapVars, markVars,
     delVars, countVars, hostVars
<1>12. ASSUME NEW c \in Coros, Await(c) PROVE HeapInv'
  BY <1>12 DEF Await, heapVars, markVars, delVars, countVars, hostVars
<1>13. ASSUME Yield PROVE HeapInv'
  BY <1>13 DEF Yield, heapVars, markVars, delVars, countVars, hostVars
<1>14. ASSUME Finish PROVE HeapInv'
  BY <1>14 DEF Finish, heapVars, markVars, delVars, countVars, hostVars
<1>15. ASSUME ExecReturn PROVE HeapInv'
  BY <1>15 DEF ExecReturn, heapVars, markVars, delVars, countVars
<1>16. ASSUME LastCollect PROVE HeapInv'
  <2>1. CASE ~ (Full' /\ ~gc)
    BY <1>16, <2>1 DEF LastCollect, heapVars, delVars, NewTask, markVars
  <2>2. CASE Full' /\ ~gc
    BY <1>16, <2>2 DEF LastCollect, heapVars, delVars, NewTask, markVars
  <2> QED  BY <2>1, <2>2
<1>17. ASSUME NEW o \in Obj, Mark(o) PROVE HeapInv'
  BY <1>17 DEF Mark, heapVars, stackVars, delVars, countVars, hostVars
<1>18. ASSUME MarkEnd PROVE HeapInv'
  BY <1>18 DEF MarkEnd, heapVars, stackVars, delVars, countVars, hostVars
<1>19. ASSUME NEW u \in Units, Finalize(u) PROVE HeapInv'
  BY <1>19 DEF Finalize, Doomed, heapVars, stackVars, countVars, hostVars
<1>20. ASSUME DelReturn PROVE HeapInv'
  BY <1>20 DEF DelReturn, stackVars, countVars, hostVars
<1>21. ASSUME DelRaise PROVE HeapInv'
  BY <1>21 DEF DelRaise, stackVars, heapVars, countVars
<1>22. ASSUME DeinitEnd PROVE HeapInv'
  BY <1>22 DEF DeinitEnd, Doomed, heapVars, stackVars, delVars, countVars,
     hostVars
<1>23. ASSUME SweepUnit PROVE HeapInv'
  BY <1>23, SweepStep DEF SweepUnit
<1>24. ASSUME SweepStr PROVE HeapInv'
  BY <1>24, SweepStep DEF SweepStr
<1>25. ASSUME SweepCode PROVE HeapInv'
  BY <1>25, SweepStep DEF SweepCode
<1>26. ASSUME SweepFunc PROVE HeapInv'
  BY <1>26, SweepStep DEF SweepFunc
<1>27. ASSUME SweepCoro PROVE HeapInv'
  BY <1>27 DEF SweepCoro, heapVars, delVars, hostVars
<1>28. ASSUME CloseStart PROVE HeapInv'
  BY <1>28 DEF CloseStart, heapVars, stackVars, markVars, delVars, countVars
<1>29. ASSUME NEW u \in Units, CloseFinalize(u) PROVE HeapInv'
  BY <1>29 DEF CloseFinalize, Doomed, heapVars, markVars, delVars, countVars
<1>30. ASSUME CloseDelReturn PROVE HeapInv'
  BY <1>30 DEF CloseDelReturn, markVars, delVars, countVars
<1>31. ASSUME CloseDelRaise PROVE HeapInv'
  BY <1>31 DEF CloseDelRaise, heapVars, stackVars, markVars, delVars,
     countVars
<1>32. ASSUME CloseSweep PROVE HeapInv'
  BY <1>32 DEF CloseSweep, Doomed, Free, delVars, countVars
<1>33. ASSUME Over PROVE HeapInv'
  BY <1>33 DEF Over, vars
<1>34. ASSUME UNCHANGED vars PROVE HeapInv'
  BY <1>34 DEF vars
<1> HIDE RootsIn, RootsInPrime, Kinds
    DEF HeapInv, TypeOK, Obj
<1> QED  BY <1>1, <1>2, <1>3, <1>4, <1>5, <1>6, <1>7, <1>8, <1>9, <1>10,
          <1>11, <1>12, <1>13, <1>14, <1>15, <1>16, <1>17, <1>18, <1>19,
          <1>20, <1>21, <1>22, <1>23, <1>24, <1>25, <1>26, <1>27, <1>28,
          <1>29, <1>30, <1>31, <1>32, <1>33, <1>34 DEF Next, Mutate, Drive,
          Collect, Close

LEMMA HeapInit == Init => HeapInv
<1> SUFFICES ASSUME Init PROVE HeapInv
  OBVIOUS
<1>1. Roots = {Global}
  BY DEF Init, Roots, Alive, Stacks
<1>2. \A o \in Obj : Kids(o) = {}
  BY DEF Init, Kids
<1> QED  BY <1>1, <1>2, Kinds DEF Init, HeapInv, ControlInv, FreshInv, MarkedInv,
        GreyInv, KeptInv, NoDangling, Kept, Swept, Closed, Open, Obj, Stacks

(* Between any two instructions and at every step of a collection the heap *)
(* is one from which nothing can come to dangle, as long as no finalizer   *)
(* stores garbage in a surviving object, nor lets go of its own object; it *)
(* may allocate, raise and give methods to other objects.                  *)
THEOREM HeapSound ==
    ASSUME "store" \notin DelMay, "drop" \notin DelMay
    PROVE  Spec => []HeapInv
<1>1. Init => HeapInv
  BY HeapInit
<1>2. TypeOK /\ TypeOK' /\ HeapInv /\ [Next]_vars => HeapInv'
  BY HeapStep
<1> QED  BY <1>1, <1>2, TypeCorrect, PTL DEF Spec

(* In every reachable state no slot, no live object and no finalizer's     *)
(* frame refers to memory that the collector has freed, with finalizers of *)
(* that kind.                                                              *)
THEOREM NothingDangles ==
    ASSUME "store" \notin DelMay, "drop" \notin DelMay
    PROVE  Spec => []NoDangling
<1>1. HeapInv => NoDangling
  BY DEF HeapInv
<1> QED  BY <1>1, HeapSound, PTL

-----------------------------------------------------------------------------
(* The coroutines in coropool.                                             *)
Used == {c \in Coros : sta[c] # "none"}

LEMMA Grown ==
    ASSUME NEW A, IsFiniteSet(A), NEW B, IsFiniteSet(B), A \cap B = {}
    PROVE  Cardinality(A \cup B) = Cardinality(A) + Cardinality(B)
<1>1. Cardinality(A) \in Nat /\ Cardinality(B) \in Nat
  BY FS_CardinalityType
<1>2. Cardinality(A \cap B) = 0
  BY FS_EmptySet
<1>3. Cardinality(A \cup B) = Cardinality(A) + Cardinality(B) - Cardinality(A \cap B)
  BY FS_Union
<1> QED  BY <1>1, <1>2, <1>3

LEMMA Shrunk ==
    ASSUME NEW A, IsFiniteSet(A), NEW B \in SUBSET A
    PROVE  Cardinality(A \ B) = Cardinality(A) - Cardinality(B)
<1>1. IsFiniteSet(B) /\ IsFiniteSet(A \ B)
  BY FS_Subset
<1>2. Cardinality(B) \in Nat /\ Cardinality(A \ B) \in Nat
  BY <1>1, FS_CardinalityType
<1>3. (A \ B) \cap B = {} /\ (A \ B) \cup B = A
  OBVIOUS
<1>4. Cardinality((A \ B) \cup B) = Cardinality(A \ B) + Cardinality(B)
  BY <1>1, <1>3, Grown
<1>5. Cardinality(A) = Cardinality(A \ B) + Cardinality(B)
  BY <1>3, <1>4
<1> QED  BY <1>2, <1>5

(* What loading a program leaves alone.                                    *)
LEMMA LoadKeeps ==
    ASSUME \E src \in Sources, k \in Codes, nest \in SUBSET Codes,
           ss \in SUBSET Strs, f \in Funcs : Load(src, k, nest, ss, f)
    PROVE  /\ Running /\ live \subseteq live'
           /\ UNCHANGED <<del, mtop, sta, cur, markVars, self, hostVars>>
           /\ phase # "del" => tmp' = tmp
BY DEF Load, Returns

(* A coroutine runs only in the loop of the host.                          *)
CurInv == cur # Main => host = "loop" /\ sta[cur] = "RUN"

LEMMA CurStep == ASSUME TypeOK, CurInv, [Next]_vars PROVE CurInv'
<1> USE DEF CurInv, TypeOK, Stacks
<1>1. CASE Mutate
  BY <1>1, Kinds, LoadKeeps DEF Mutate, Push, Pop, Call, NewUnit, Concat, Closure, SetField,
     ClearField, SetDel, Async, stackVars, hostVars
<1>2. CASE Drive
  BY <1>2 DEF Drive, Await, Yield, Finish, ExecReturn, LastCollect, hostVars
<1>3. CASE Collect
  BY <1>3 DEF Collect, Mark, MarkEnd, Finalize, DelReturn, DelRaise, DeinitEnd,
     SweepUnit, SweepStr, SweepCode, SweepFunc, Sweep, SweepCoro, stackVars, hostVars
<1>4. CASE Close
  BY <1>4 DEF Close, CloseStart, CloseDelReturn, CloseDelRaise, CloseSweep,
     CloseFinalize, stackVars
<1>5. CASE Over \/ UNCHANGED vars
  BY <1>5 DEF Over, vars
<1> QED  BY <1>1, <1>2, <1>3, <1>4, <1>5 DEF Next

-----------------------------------------------------------------------------
(* The count of blocks.                                                    *)

LEMMA CountUsed ==
    /\ Accounting
          <=> nblocks + decoded = VmBlocks + Cardinality(live) + Cardinality(Used)
    /\ Accounting'
          <=> nblocks' + decoded' = VmBlocks + Cardinality(live') + Cardinality(Used')
BY DEF Accounting, Used

LEMMA CountKept ==
    ASSUME Accounting, UNCHANGED <<live, nblocks, decoded>>, Used' = Used
    PROVE  Accounting'
BY DEF Accounting, Used

LEMMA CountGrown ==
    ASSUME TypeOK, Accounting, NEW new \in SUBSET Obj, new \cap live = {},
           live' = live \cup new, Used' = Used,
           nblocks' + decoded' = nblocks + decoded + Cardinality(new)
    PROVE  Accounting'
<1>1. Cardinality(live \cup new) = Cardinality(live) + Cardinality(new)
  BY ObjFinite, Grown DEF TypeOK
<1>2. /\ Cardinality(live) \in Nat /\ Cardinality(new) \in Nat
      /\ Cardinality(Used) \in Nat
  BY ObjFinite, CorosFinite DEF TypeOK, Used
<1>3. Cardinality(live') = Cardinality(live) + Cardinality(new)
  BY <1>1
<1>4. Cardinality(Used') = Cardinality(Used)
  OBVIOUS
<1>5. nblocks + decoded = VmBlocks + Cardinality(live) + Cardinality(Used)
  BY CountUsed
<1>6. nblocks' + decoded' = VmBlocks + Cardinality(live') + Cardinality(Used')
  BY <1>2, <1>3, <1>4, <1>5, Bounds DEF TypeOK
<1> QED  BY <1>6, CountUsed

LEMMA CountShrunk ==
    ASSUME TypeOK, Accounting, NEW dead \in SUBSET live, NEW over \in SUBSET Used,
           live' = live \ dead, Used' = Used \ over,
           nblocks' = nblocks - Cardinality(dead) - Cardinality(over),
           decoded' = decoded
    PROVE  Accounting'
<1>1. live \in SUBSET Obj /\ dead \in SUBSET Obj /\ Used \in SUBSET Coros /\ over \in SUBSET Coros
  BY DEF TypeOK, Used
<1>2. /\ Cardinality(live \ dead) = Cardinality(live) - Cardinality(dead)
      /\ Cardinality(Used \ over) = Cardinality(Used) - Cardinality(over)
  BY <1>1, ObjFinite, CorosFinite, Shrunk
<1>3. /\ Cardinality(live) \in Nat /\ Cardinality(dead) \in Nat
      /\ Cardinality(Used) \in Nat /\ Cardinality(over) \in Nat
  BY <1>1, ObjFinite, CorosFinite
<1>4. nblocks + decoded = VmBlocks + Cardinality(live) + Cardinality(Used)
  BY CountUsed
<1>5. nblocks' + decoded' = VmBlocks + Cardinality(live') + Cardinality(Used')
  BY <1>2, <1>3, <1>4, Bounds DEF TypeOK
<1> QED  BY <1>5, CountUsed

LEMMA CountSwept ==
    ASSUME TypeOK, Accounting, NEW pool, NEW from, NEW to, Sweep(pool, from, to)
    PROVE  Accounting'
<1> DEFINE dead == (live \cap pool) \ marked
<1>1. /\ live' = live \ dead /\ nblocks' = nblocks - Cardinality(dead)
      /\ Used' = Used \ {} /\ decoded' = decoded
  BY DEF Sweep, Free, stackVars, countVars, Used
<1>2. Cardinality({}) = 0 /\ Cardinality(dead) \in Nat /\ nblocks \in Int
  BY FS_EmptySet, ObjFinite DEF TypeOK
<1>3. nblocks' = nblocks - Cardinality(dead) - Cardinality({})
  BY <1>1, <1>2
<1>4. dead \in SUBSET live /\ {} \in SUBSET Used
  OBVIOUS
<1> HIDE DEF dead
<1> QED  BY <1>1, <1>3, <1>4, CountShrunk

LEMMA CountMutate == ASSUME TypeOK, Accounting, Mutate PROVE Accounting'
<1>1. ASSUME NEW o \in Obj, Push(o) \/ Pop(o) PROVE Accounting'
  BY <1>1, CountKept DEF Push, Pop, heapVars, countVars, Used
<1>2. ASSUME Call PROVE Accounting'
  BY <1>2, CountKept DEF Call, heapVars, countVars, Used
<1>3. ASSUME NEW u \in Units, NewUnit(u) PROVE Accounting'
  <2>1. Cardinality({u}) = 1
    BY FS_Singleton
  <2> QED  BY <1>3, <2>1, CountGrown DEF NewUnit, TypeOK, countVars, Used, Obj
<1>4. ASSUME NEW s \in Strs, Concat(s) PROVE Accounting'
  <2> DEFINE new == {s} \ live
  <2>1. Cardinality(new) = IF s \in live THEN 0 ELSE 1
    <3>1. CASE s \in live
      <4>1. new = {}  BY <3>1
      <4> QED  BY <4>1, <3>1, FS_EmptySet
    <3>2. CASE s \notin live
      <4>1. new = {s}  BY <3>2
      <4> QED  BY <4>1, <3>2, FS_Singleton
    <3> QED  BY <3>1, <3>2
  <2>2. live' = live \cup new /\ Used' = Used /\ new \in SUBSET Obj /\ new \cap live = {}
    BY <1>4 DEF Concat, Used, Obj
  <2>3. nblocks' + decoded' = nblocks + decoded + Cardinality(new)
    BY <1>4, <2>1 DEF Concat, TypeOK, countVars
  <2> QED  BY <2>2, <2>3, CountGrown
<1>5. ASSUME NEW src \in Sources, NEW k \in Codes, NEW nest \in SUBSET Codes,
             NEW ss \in SUBSET Strs, NEW f \in Funcs, Load(src, k, nest, ss, f)
      PROVE  Accounting'
  <2> DEFINE codes == {k} \cup nest
             new == (codes \cup {f} \cup ss) \ live
  <2>1. /\ live' = live \cup new /\ Used' = Used
        /\ nblocks' = nblocks + Cardinality(new) - Uncounted(src, codes)
        /\ decoded' = decoded + Uncounted(src, codes)
    BY <1>5 DEF Load, Used
  <2>2. new \in SUBSET Obj /\ new \cap live = {} /\ codes \in SUBSET Obj
    BY DEF Obj
  <2>3. Cardinality(new) \in Nat /\ Uncounted(src, codes) \in Nat
    BY <2>2, ObjFinite DEF Uncounted
  <2> HIDE DEF new, codes
  <2>4. nblocks' + decoded' = nblocks + decoded + Cardinality(new)
    BY <2>1, <2>3 DEF TypeOK
  <2> QED  BY <2>1, <2>2, <2>4, CountGrown
<1>6. ASSUME NEW f \in Funcs, NEW k \in Codes, NEW clo \in SUBSET Frame, Closure(f, k, clo)
      PROVE  Accounting'
  <2>1. Cardinality({f}) = 1
    BY FS_Singleton
  <2> QED  BY <1>6, <2>1, CountGrown DEF Closure, TypeOK, countVars, Used, Obj
<1>7. ASSUME NEW u \in Units, NEW o \in Obj, SetField(u, o) \/ ClearField(u, o)
      PROVE  Accounting'
  BY <1>7, CountKept DEF SetField, ClearField, stackVars, countVars, Used
<1>8. ASSUME NEW u \in Units, NEW f \in Funcs \cup {NoObj}, SetDel(u, f) PROVE Accounting'
  BY <1>8, CountKept DEF SetDel, stackVars, countVars, Used
<1>9. ASSUME NEW c \in Coros, NEW args \in SUBSET Frame, Async(c, args) PROVE Accounting'
  <2>1. Used' = Used \cup {c} /\ c \notin Used /\ Used \in SUBSET Coros
    BY <1>9 DEF Async, Used, TypeOK
  <2>2. Cardinality({c}) = 1 /\ IsFiniteSet({c})
    BY FS_Singleton
  <2>3. Cardinality(Used') = Cardinality(Used) + 1
    BY <2>1, <2>2, CorosFinite, Grown
  <2>4. live' = live /\ nblocks' = nblocks + 1 /\ decoded' = decoded
    BY <1>9 DEF Async, heapVars, countVars
  <2>5. Cardinality(live) \in Nat /\ Cardinality(Used) \in Nat
    BY <2>1, ObjFinite, CorosFinite DEF TypeOK
  <2>6. nblocks \in Int /\ decoded \in Int /\ VmBlocks \in Int
    BY Bounds DEF TypeOK
  <2> QED  BY <2>3, <2>4, <2>5, <2>6, CountUsed
<1> QED  BY <1>1, <1>2, <1>3, <1>4, <1>5, <1>6, <1>7, <1>8, <1>9 DEF Mutate

LEMMA CountStep ==
    ASSUME TypeOK, CurInv, Accounting, [Next]_vars PROVE Accounting'
<1>1. CASE Mutate
  BY <1>1, CountMutate
<1>2. CASE Drive
  <2>1. UNCHANGED <<live, nblocks, decoded>>
    BY <1>2 DEF Drive, Await, Yield, Finish, ExecReturn, LastCollect, heapVars,
       countVars
  <2>2. Used' = Used
    BY <1>2 DEF Drive, Await, Yield, Finish, ExecReturn, LastCollect, Used, CurInv,
       TypeOK, Stacks
  <2> QED  BY <2>1, <2>2, CountKept
<1>3. CASE Collect
  <2>1. CASE \/ \E o \in Obj : Mark(o)
             \/ \E u \in Units : Finalize(u)
             \/ MarkEnd \/ DelReturn \/ DeinitEnd
    BY <2>1, CountKept DEF Mark, Finalize, MarkEnd, DelReturn, DeinitEnd, heapVars,
       stackVars, countVars, Used
  <2>2. CASE DelRaise
    <3>1. Used' = Used
      BY <2>2 DEF DelRaise, stackVars, Used, CurInv, TypeOK, Stacks
    <3> QED  BY <2>2, <3>1, CountKept DEF DelRaise, heapVars, countVars
  <2>3. CASE SweepUnit \/ SweepStr \/ SweepCode \/ SweepFunc
    BY <2>3, CountSwept DEF SweepUnit, SweepStr, SweepCode, SweepFunc
  <2>4. CASE SweepCoro
    <3> DEFINE over == {c \in Coros : sta[c] = "END"}
    <3>1. /\ live' = live \ {} /\ Used' = Used \ over /\ over \in SUBSET Used
          /\ nblocks' = nblocks - Cardinality(over) /\ decoded' = decoded
      BY <2>4 DEF SweepCoro, heapVars, Used
    <3>2. Cardinality({}) = 0 /\ Cardinality(over) \in Nat /\ nblocks \in Int
      BY FS_EmptySet, CorosFinite DEF TypeOK
    <3> QED  BY <3>1, <3>2, CountShrunk
  <2> QED  BY <1>3, <2>1, <2>2, <2>3, <2>4 DEF Collect
<1>4. CASE Close
  <2>1. CASE CloseStart \/ CloseDelReturn \/ CloseDelRaise \/ \E u \in Units : CloseFinalize(u)
    BY <2>1, CountKept DEF CloseStart, CloseDelReturn, CloseDelRaise, CloseFinalize,
       heapVars, stackVars, countVars, Used
  <2>2. CASE CloseSweep
    <3> DEFINE dead == (live \cap Strs) \cup (live \ marked)
    <3>1. /\ live' = live \ dead /\ Used' = Used \ Used
          /\ nblocks' = nblocks - Cardinality(dead) - Cardinality(Used)
          /\ decoded' = decoded
      BY <2>2 DEF CloseSweep, Free, countVars, Used
    <3> QED  BY <3>1, CountShrunk
  <2> QED  BY <1>4, <2>1, <2>2 DEF Close
<1>5. CASE Over \/ UNCHANGED vars
  BY <1>5, CountKept DEF Over, vars, Used
<1> QED  BY <1>1, <1>2, <1>3, <1>4, <1>5 DEF Next

LEMMA CountInit == Init => CurInv /\ Accounting
<1> SUFFICES ASSUME Init PROVE CurInv /\ Accounting
  OBVIOUS
<1>1. Used = {}
  BY DEF Init, Used
<1>2. Cardinality({Global}) = 1 /\ Cardinality({}) = 0
  BY FS_Singleton, FS_EmptySet
<1>3. live = {Global} /\ nblocks = VmBlocks + 1 /\ decoded = 0
  BY DEF Init
<1> QED  BY <1>1, <1>2, <1>3, Bounds DEF Init, CurInv, Accounting, Used

(* vm->nblocks counts exactly what is allocated, by whichever modelled     *)
(* path of the mutator, of the collector and of vm_close it is allocated   *)
(* or freed, less the codes that were ever loaded as byte code.            *)
THEOREM BlocksCounted == Spec => []Accounting
<1>1. Init => CurInv /\ Accounting
  BY CountInit
<1>2. TypeOK /\ CurInv /\ Accounting /\ [Next]_vars => CurInv' /\ Accounting'
  BY CurStep, CountStep
<1> QED  BY <1>1, <1>2, TypeCorrect, PTL DEF Spec

-----------------------------------------------------------------------------
(* The marks.                                                              *)

(* A finalizer that returned or raised leaves the marks of its collection  *)
(* alone; only the end of a collection resets vm->gc, with no mark left.   *)
MarkInv ==
    /\ phase # "run" => gc /\ Open
    /\ ~gc => marked = {}
    /\ marked \cap Swept = {}
    /\ phase = "mark" =>
          /\ Roots \subseteq marked /\ grey \subseteq marked /\ marked \subseteq Reach
          /\ \A o \in marked \ grey : Kids(o) \subseteq marked

LEMMA ReachIn == ASSUME TypeOK PROVE Roots \subseteq Reach /\ Closed(Reach)
<1>1. Roots \subseteq Obj
  BY Kinds DEF TypeOK, Roots, Stacks, Obj
<1>2. \A o \in Obj : Kids(o) \subseteq Obj
  BY DEF TypeOK, Kids, Obj
<1> QED  BY <1>1, <1>2 DEF Reach, Closed

LEMMA ReachLeast ==
    ASSUME NEW S \in SUBSET Obj, Roots \subseteq S, Closed(S)
    PROVE  Reach \subseteq S
BY DEF Reach

LEMMA ReachInPrime == ASSUME TypeOK' PROVE Roots' \subseteq Reach'
<1>1. Roots' \subseteq Obj
  BY Kinds DEF TypeOK, Roots, Stacks, Obj
<1> QED  BY <1>1 DEF Reach

(* A string refers to nothing.                                             *)
StrInv == \A s \in Strs : refs[s] = {}

LEMMA StrStep == ASSUME TypeOK, StrInv, [Next]_vars PROVE StrInv'
<1> USE Kinds DEF StrInv, TypeOK, Obj
<1>1. CASE Mutate
  <2>1. CASE \E src \in Sources, k \in Codes, nest \in SUBSET Codes,
             ss \in SUBSET Strs, f \in Funcs : Load(src, k, nest, ss, f)
    BY <2>1 DEF Load
  <2>2. CASE \E f \in Funcs, k \in Codes, clo \in SUBSET Frame : Closure(f, k, clo)
    BY <2>2 DEF Closure
  <2>3. CASE \E u \in Units, o \in Obj : SetField(u, o) \/ ClearField(u, o)
    BY <2>3 DEF SetField, ClearField
  <2>4. CASE \/ Call
             \/ \E o \in Obj : Push(o) \/ Pop(o)
             \/ \E u \in Units : NewUnit(u)
             \/ \E s \in Strs : Concat(s)
             \/ \E u \in Units, f \in Funcs \cup {NoObj} : SetDel(u, f)
             \/ \E c \in Coros, args \in SUBSET Frame : Async(c, args)
    BY <2>4 DEF Push, Pop, Call, NewUnit, Concat, SetDel, Async, heapVars
  <2> QED  BY <1>1, <2>1, <2>2, <2>3, <2>4 DEF Mutate
<1>2. CASE Drive
  BY <1>2 DEF Drive, Await, Yield, Finish, ExecReturn, LastCollect, heapVars
<1>3. CASE Collect
  BY <1>3 DEF Collect, Mark, MarkEnd, Finalize, DelReturn, DelRaise, DeinitEnd,
     SweepUnit, SweepStr, SweepCode, SweepFunc, Sweep, SweepCoro, Free, heapVars
<1>4. CASE Close
  BY <1>4 DEF Close, CloseStart, CloseDelReturn, CloseDelRaise, CloseSweep,
     CloseFinalize, Free, heapVars
<1>5. CASE Over \/ UNCHANGED vars
  BY <1>5 DEF Over, vars
<1> QED  BY <1>1, <1>2, <1>3, <1>4, <1>5 DEF Next

(* A step that starts no collection and touches neither marks nor phase.   *)
LEMMA MarkKept ==
    ASSUME MarkInv, phase \in {"run", "del"}, UNCHANGED markVars,
           phase = "run" \/ host' = host
    PROVE  MarkInv'
BY DEF MarkInv, markVars, Swept, Open

LEMMA MarkStart ==
    ASSUME TypeOK', StrInv', MarkInv, phase \in {"run", "del"}, Open', NewTask
    PROVE  MarkInv'
<1>1. CASE UNCHANGED markVars
  BY <1>1 DEF MarkInv, markVars, Swept
<1>2. CASE /\ ~gc /\ gc' = TRUE /\ phase' = "mark"
           /\ marked' = marked \cup Roots'
           /\ grey' = (Roots' \ marked) \ Strs
  <2>1. marked' = Roots' /\ grey' = Roots' \ Strs
    BY <1>2 DEF MarkInv
  <2>2. Roots' \subseteq Reach'
    BY ReachInPrime
  <2>3. \A o \in marked' \ grey' : Kids(o)' = {}
    BY <2>1, Kinds DEF StrInv, Kids
  <2>4. marked' \cap Swept' = {}
    BY <1>2 DEF Swept
  <2> QED  BY <1>2, <2>1, <2>2, <2>3, <2>4 DEF MarkInv
<1> QED  BY <1>1, <1>2 DEF NewTask, markVars

LEMMA MarkSwept ==
    ASSUME TypeOK, MarkInv, NEW pool, NEW from, NEW to, Sweep(pool, from, to),
           <<pool, from, to>> \in
               {<<Units, "sweepUnit", "sweepStr">>, <<Strs, "sweepStr", "sweepCode">>,
                <<Codes, "sweepCode", "sweepFunc">>, <<Funcs, "sweepFunc", "sweepCoro">>}
    PROVE  MarkInv'
<1>1. /\ phase = from /\ phase' = to /\ phase # "run" /\ phase' # "mark"
      /\ marked' = marked \ pool /\ gc' = gc /\ host' = host
  BY DEF Sweep, hostVars
<1>2. Swept' = Swept \cup pool
  BY <1>1 DEF Swept, Obj
<1> QED  BY <1>1, <1>2 DEF MarkInv, Open

LEMMA MarkStep ==
    ASSUME TypeOK, TypeOK', StrInv', CurInv, MarkInv, [Next]_vars PROVE MarkInv'
<1>1. CASE Mutate
  <2>1. Running /\ phase \in {"run", "del"} /\ UNCHANGED host
    BY <1>1, LoadKeeps DEF Mutate, Push, Pop, Call, NewUnit, Concat, Closure, SetField,
       ClearField, SetDel, Async, Running, hostVars
  <2>2. Open'
    BY <2>1 DEF Running, Open, MarkInv
  <2>3. NewTask \/ UNCHANGED markVars
    BY <1>1, LoadKeeps DEF Mutate, Push, Pop, Call, NewUnit, Concat, Closure, SetField,
       ClearField, SetDel, Async
  <2> QED  BY <2>1, <2>2, <2>3, MarkKept, MarkStart
<1>2. CASE Drive
  <2>1. CASE LastCollect
    BY <2>1, MarkStart DEF LastCollect, Open
  <2>2. CASE Yield \/ Finish \/ ExecReturn \/ \E c \in Coros : Await(c)
    BY <2>2, MarkKept DEF Await, Yield, Finish, ExecReturn
  <2> QED  BY <1>2, <2>1, <2>2 DEF Drive
<1>3. CASE Collect
  <2>1. ASSUME NEW o \in Obj, Mark(o) PROVE MarkInv'
    <3>1. Reach' = Reach /\ Roots' = Roots /\ \A x \in Obj : Kids(x)' = Kids(x)
      BY <2>1 DEF Mark, heapVars, stackVars, Reach, Roots, Closed, Kids, Alive
    <3>2. o \in Reach /\ Kids(o) \subseteq Reach
      BY <2>1, ReachIn DEF Mark, MarkInv, Closed
    <3>3. Swept' = {} /\ phase' = phase /\ gc' = gc /\ Open'
      BY <2>1 DEF Mark, Swept, MarkInv, Open, hostVars
    <3>4. \A x \in marked : x \in Obj
      BY DEF TypeOK
    <3>5. marked' \subseteq Obj
      BY DEF TypeOK
    <3>6. \A x \in marked' \ grey' : Kids(x) \subseteq marked'
      <4> SUFFICES ASSUME NEW x \in marked' \ grey' PROVE Kids(x) \subseteq marked'
        OBVIOUS
      <4>1. CASE x = o
        BY <2>1, <4>1 DEF Mark
      <4>2. CASE x # o /\ x \in marked
        BY <2>1, <4>2 DEF Mark, MarkInv
      <4>3. CASE x \notin marked
        <5>1. x \in Strs /\ Kids(x)' = {}
          BY <2>1, <4>3, Kinds DEF Mark, StrInv, Kids
        <5> QED  BY <5>1, <3>1, <3>5
      <4> QED  BY <4>1, <4>2, <4>3
    <3>7. \A x \in marked' \ grey' : Kids(x)' \subseteq marked'
      BY <3>1, <3>5, <3>6
    <3>8. Roots' \subseteq marked' /\ grey' \subseteq marked' /\ marked' \subseteq Reach'
      BY <2>1, <3>1, <3>2 DEF Mark, MarkInv
    <3> QED  BY <2>1, <3>3, <3>7, <3>8 DEF MarkInv, Mark
  <2>2. CASE MarkEnd \/ DeinitEnd \/ DelReturn \/ \E u \in Units : Finalize(u)
    BY <2>2 DEF MarkEnd, DeinitEnd, DelReturn, Finalize, MarkInv, Swept, Open, hostVars
  <2>3. CASE DelRaise
    BY <2>3 DEF DelRaise, MarkInv, Swept
  <2>4. CASE SweepUnit \/ SweepStr \/ SweepCode \/ SweepFunc
    BY <2>4, MarkSwept DEF SweepUnit, SweepStr, SweepCode, SweepFunc
  <2>5. CASE SweepCoro
    BY <2>5 DEF SweepCoro, MarkInv, Swept, TypeOK
  <2> QED  BY <1>3, <2>1, <2>2, <2>3, <2>4, <2>5 DEF Collect
<1>4. CASE Close
  <2>1. CASE CloseSweep
    BY <2>1 DEF CloseSweep, MarkInv, Swept
  <2>2. CASE CloseStart \/ CloseDelReturn \/ CloseDelRaise \/ \E u \in Units : CloseFinalize(u)
    BY <2>2, MarkKept DEF CloseStart, CloseDelReturn, CloseDelRaise, CloseFinalize
  <2> QED  BY <1>4, <2>1, <2>2 DEF Close
<1>5. CASE Over \/ UNCHANGED vars
  BY <1>5 DEF Over, vars, MarkInv, Swept, Open, Reach, Roots, Closed, Kids, Alive
<1> QED  BY <1>1, <1>2, <1>3, <1>4, <1>5 DEF Next

LEMMA MarkInit == Init => StrInv /\ MarkInv
BY Kinds DEF Init, StrInv, MarkInv, Swept, Open, Obj

LEMMA MarkSound == Spec => [](StrInv /\ MarkInv)
<1>1. Init => StrInv /\ MarkInv
  BY MarkInit
<1>2. Init => CurInv
  BY CountInit
<1>3. TypeOK /\ TypeOK' /\ CurInv /\ StrInv /\ MarkInv /\ [Next]_vars
          => CurInv' /\ StrInv' /\ MarkInv'
  BY CurStep, StrStep, MarkStep
<1> QED  BY <1>1, <1>2, <1>3, TypeCorrect, PTL DEF Spec

(* When marking ends the marks are on the reachable objects and on nothing *)
(* else, whatever the finalizers of earlier collections did, one that      *)
(* raised included.                                                        *)
THEOREM MarksReachable == Spec => []MarkExact
<1>1. TypeOK /\ MarkInv => MarkExact
  <2> SUFFICES ASSUME TypeOK, MarkInv, phase = "mark", grey = {} PROVE marked = Reach
    BY DEF MarkExact
  <2>1. marked \in SUBSET Obj /\ Closed(marked) /\ Roots \subseteq marked
    BY DEF TypeOK, MarkInv, Closed
  <2> QED  BY <2>1, ReachLeast DEF MarkInv
<1> QED  BY <1>1, MarkSound, TypeCorrect, PTL

-----------------------------------------------------------------------------
(* The finalizers and the end.                                             *)

(* When the sweep of the units begins no finalizer is left to be called;   *)
(* when the vm is closed without a collection cut short, nothing is left.  *)
EndInv ==
    /\ phase = "sweepUnit" => Doomed = {}
    /\ host = "closed" /\ ~gc => live = {} /\ Used = {}

LEMMA EndStep ==
    ASSUME TypeOK, CurInv, MarkInv, EndInv, [Next]_vars PROVE EndInv'
<1>1. CASE Mutate
  BY <1>1, LoadKeeps DEF EndInv, MarkInv, Mutate, Push, Pop, Call, NewUnit, Concat, Closure,
     SetField, ClearField, SetDel, Async, Running, NewTask, markVars, hostVars
<1>2. CASE Drive
  BY <1>2 DEF EndInv, CurInv, Drive, Await, Yield, Finish, ExecReturn, LastCollect,
     NewTask, markVars, hostVars
<1>3. CASE Collect
  <2>1. host' # "closed" \/ phase' = "run"
    BY <1>3 DEF MarkInv, Open, Collect, Mark, MarkEnd, Finalize, DelReturn, DelRaise,
       DeinitEnd, SweepUnit, SweepStr, SweepCode, SweepFunc, Sweep, SweepCoro, hostVars
  <2>2. phase # "run" /\ host # "closed"
    BY <1>3 DEF MarkInv, Open, Collect, Mark, MarkEnd, Finalize, DelReturn, DelRaise,
       DeinitEnd, SweepUnit, SweepStr, SweepCode, SweepFunc, Sweep, SweepCoro
  <2>3. host' # "closed"
    BY <1>3, <2>2 DEF Collect, Mark, MarkEnd, Finalize, DelReturn, DelRaise,
       DeinitEnd, SweepUnit, SweepStr, SweepCode, SweepFunc, Sweep, SweepCoro, hostVars
  <2>4. phase' = "sweepUnit" => DeinitEnd
    BY <1>3 DEF Collect, Mark, MarkEnd, Finalize, DelReturn, DelRaise,
       DeinitEnd, SweepUnit, SweepStr, SweepCode, SweepFunc, Sweep, SweepCoro
  <2>5. DeinitEnd => Doomed' = {}
    BY DEF DeinitEnd, Doomed, heapVars
  <2> QED  BY <2>3, <2>4, <2>5 DEF EndInv
<1>4. CASE Close
  <2>1. CASE CloseSweep
    <3>1. phase' = "run"
      BY <2>1 DEF CloseSweep
    <3>2. Used' = {}
      BY <2>1 DEF CloseSweep, Used
    <3>3. ~gc' => live' = {}
      BY <2>1 DEF CloseSweep, Free, MarkInv
    <3> QED  BY <3>1, <3>2, <3>3 DEF EndInv
  <2>2. CASE CloseStart \/ CloseDelReturn \/ CloseDelRaise \/ \E u \in Units : CloseFinalize(u)
    BY <2>2 DEF CloseStart, CloseDelReturn, CloseDelRaise, CloseFinalize, EndInv, markVars
  <2> QED  BY <1>4, <2>1, <2>2 DEF Close
<1>5. CASE Over \/ UNCHANGED vars
  BY <1>5 DEF Over, vars, EndInv, Doomed, Used
<1> QED  BY <1>1, <1>2, <1>3, <1>4, <1>5 DEF Next

LEMMA EndSound == Spec => []EndInv
<1>1. Init => EndInv /\ CurInv
  BY CountInit DEF Init, EndInv
<1>2. TypeOK /\ CurInv /\ MarkInv /\ EndInv /\ [Next]_vars => EndInv' /\ CurInv'
  BY EndStep, CurStep
<1> QED  BY <1>1, <1>2, MarkSound, TypeCorrect, PTL DEF Spec

(* vm_close frees everything, unless a finalizer has raised before and the *)
(* marks of its collection were left; the count is then that of the vm,    *)
(* less the codes the decoder left out.                                    *)
THEOREM CloseFreesAll == Spec => []ClosedEmptyOrWedged
<1>1. EndInv /\ Accounting => ClosedEmptyOrWedged
  <2> SUFFICES ASSUME EndInv, Accounting, host = "closed", ~gc
               PROVE  live = {} /\ nblocks + decoded = VmBlocks
    BY DEF ClosedEmptyOrWedged
  <2>1. live = {} /\ Used = {}
    BY DEF EndInv
  <2>2. nblocks + decoded = VmBlocks + Cardinality({}) + Cardinality({})
    BY <2>1, CountUsed
  <2>3. Cardinality({}) = 0
    BY FS_EmptySet
  <2> QED  BY <2>1, <2>2, <2>3, Bounds
<1> QED  BY <1>1, EndSound, BlocksCounted, PTL

(* No object is freed with its "__del__" still to be called, by a sweep or *)
(* by vm_close, even when finalizers give methods to objects that were     *)
(* passed already.                                                         *)
THEOREM FinalizedFirst == Spec => FinalizedBeforeFreed
<1>1. EndInv /\ [Next]_vars => [\A u \in Units \cap (live \ live') : del[u] = NoObj]_vars
  <2> SUFFICES ASSUME EndInv, Next, NEW u \in Units \cap (live \ live')
               PROVE  del[u] = NoObj
    BY DEF vars
  <2>1. CASE Mutate
    BY <2>1, LoadKeeps DEF Mutate, Push, Pop, Call, NewUnit, Concat, Closure, SetField,
       ClearField, SetDel, Async, heapVars
  <2>2. CASE Drive
    BY <2>2 DEF Drive, Await, Yield, Finish, ExecReturn, LastCollect, heapVars
  <2>3. CASE Collect
    <3>1. CASE SweepUnit
      BY <3>1 DEF SweepUnit, Sweep, Free, EndInv, Doomed
    <3>2. CASE SweepStr \/ SweepCode \/ SweepFunc
      BY <3>2, Kinds DEF SweepStr, SweepCode, SweepFunc, Sweep, Free
    <3>3. CASE ~ (SweepUnit \/ SweepStr \/ SweepCode \/ SweepFunc)
      BY <2>3, <3>3 DEF Collect, Mark, MarkEnd, Finalize, DelReturn, DelRaise,
         DeinitEnd, SweepCoro, heapVars
    <3> QED  BY <3>1, <3>2, <3>3
  <2>4. CASE Close
    <3>1. CASE CloseSweep
      BY <3>1, Kinds DEF CloseSweep, Free, Doomed
    <3>2. CASE ~ CloseSweep
      BY <2>4, <3>2 DEF Close, CloseStart, CloseDelReturn, CloseDelRaise,
         CloseFinalize, heapVars
    <3> QED  BY <3>1, <3>2
  <2>5. CASE Over
    BY <2>5 DEF Over, vars
  <2> QED  BY <2>1, <2>2, <2>3, <2>4, <2>5 DEF Next
<1> QED  BY <1>1, EndSound, PTL DEF Spec, FinalizedBeforeFreed

(* After a finalizer has raised no collection starts again: nothing is     *)
(* freed before vm_close.                                                  *)
THEOREM RaiseWedges == Spec => Wedged
<1>1. [Next]_vars => [gc /\ phase = "run" => phase' = "run" /\ gc'
                         /\ (live \subseteq live' \/ host' = "closed")]_vars
  <2> SUFFICES ASSUME Next, gc, phase = "run"
               PROVE  phase' = "run" /\ gc' /\ (live \subseteq live' \/ host' = "closed")
    BY DEF vars
  <2>1. CASE Mutate
    <3>1. UNCHANGED markVars
      BY <2>1, LoadKeeps DEF Mutate, Push, Pop, Call, NewUnit, Concat, Closure, SetField,
         ClearField, SetDel, Async, NewTask
    <3>2. live \subseteq live'
      BY <2>1, LoadKeeps DEF Mutate, Push, Pop, Call, NewUnit, Concat, Closure, SetField,
         ClearField, SetDel, Async, heapVars
    <3> QED  BY <3>1, <3>2 DEF markVars
  <2>2. CASE Drive
    BY <2>2 DEF Drive, Await, Yield, Finish, ExecReturn, LastCollect, NewTask,
       heapVars, markVars
  <2>3. CASE Collect
    BY <2>3 DEF Collect, Mark, MarkEnd, Finalize, DelReturn, DelRaise, DeinitEnd,
       SweepUnit, SweepStr, SweepCode, SweepFunc, Sweep, SweepCoro
  <2>4. CASE Close
    BY <2>4 DEF Close, CloseStart, CloseDelReturn, CloseDelRaise, CloseSweep,
       CloseFinalize, heapVars, markVars
  <2>5. CASE Over
    BY <2>5 DEF Over, vars
  <2> QED  BY <2>1, <2>2, <2>3, <2>4, <2>5 DEF Next
<1> QED  BY <1>1, PTL DEF Spec, Wedged

(* A collection calls __del__ on no object that the program can still      *)
(* reach, as long as no finalizer stores garbage in a surviving object,    *)
(* nor lets go of its own object.                                          *)
THEOREM FinalizesGarbage ==
    ASSUME "store" \notin DelMay, "drop" \notin DelMay
    PROVE  Spec => OnlyGarbageFinalized
<1>1. TypeOK /\ HeapInv /\ [Next]_vars
          => [self' # NoObj /\ self = NoObj => self' \notin Reach]_vars
  <2> SUFFICES ASSUME TypeOK, HeapInv, Next, self' # NoObj, self = NoObj
               PROVE  self' \notin Reach
    BY DEF vars
  <2>1. PICK u \in Units : Finalize(u)
    <3>1. CASE Mutate
      BY <3>1, LoadKeeps DEF Mutate, Push, Pop, Call, NewUnit, Concat, Closure, SetField,
         ClearField, SetDel, Async, delVars
    <3>2. CASE Drive
      BY <3>2 DEF Drive, Await, Yield, Finish, ExecReturn, LastCollect, delVars
    <3>3. CASE Collect
      BY <3>3 DEF Collect, Mark, MarkEnd, DelReturn, DelRaise, DeinitEnd,
         SweepUnit, SweepStr, SweepCode, SweepFunc, Sweep, SweepCoro, delVars
    <3>4. CASE Close
      BY <3>4 DEF Close, CloseStart, CloseDelReturn, CloseDelRaise, CloseSweep,
         CloseFinalize, delVars
    <3>5. CASE Over
      BY <3>5 DEF Over, vars
    <3> QED  BY <3>1, <3>2, <3>3, <3>4, <3>5 DEF Next
  <2>2. phase = "deinit" /\ u \notin marked /\ self' = u
    BY <2>1 DEF Finalize, Doomed
  <2>3. Open /\ Kept = marked
    BY <2>2 DEF HeapInv, ControlInv, Kept, Swept
  <2>4. marked \in SUBSET Obj /\ Roots \subseteq marked /\ Closed(marked)
    BY <2>2, <2>3 DEF HeapInv, KeptInv, TypeOK
  <2> QED  BY <2>2, <2>4, ReachLeast
<1> QED  BY <1>1, HeapSound, TypeCorrect, PTL DEF Spec, OnlyGarbageFinalized

=============================================================================
