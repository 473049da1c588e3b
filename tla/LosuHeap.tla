------------------------------ MODULE LosuHeap ------------------------------
(***************************************************************************)
(* The heap of the Losu virtual machine: the object pools, the stacks that *)
(* are the roots, the mutator (the byte-code loop and the native calls it  *)
(* makes), the mark-and-sweep collector with its "__del__" finalizers, and *)
(* the life of a vm in the hosts of this repository:                       *)
(*                                                                         *)
(*    vm_create; vm_dostring; await every coroutine until none is left;    *)
(*    gc_setthreshold(0); gc_collect; vm_close                             *)
(*                                                                         *)
(* An object is its address.  A stack is the set of the objects its slots  *)
(* hold, an object's contents the set of the objects it refers to: the     *)
(* collector asks nothing else of them.  Every object and every coroutine  *)
(* counts one block, save the code that is loaded as byte code: the        *)
(* decoder leaves it out of vm->nblocks, and freeing it subtracts it.      *)
(***************************************************************************)
EXTENDS Integers, FiniteSets

CONSTANTS
    Units,      \* hash tables: losu_object_hash
    Funcs,      \* closures: losu_object_function
    Codes,      \* compiled functions: losu_object_scode
    Strs,       \* interned strings: losu_object_string
    Coros,      \* coroutines: losu_object_coroutine
    Global,     \* vm->global, one of the units
    Main,       \* the main stack, vm->mstack
    NoObj,      \* NULL, or a null value
    MaxRefs,    \* bound: the references a unit holds
    GcLimit,    \* the initial vm->gcMax, SIZE_MAX in the code
    VmBlocks,   \* the blocks of the vm itself: struct, main stack, tables
    Sources,    \* what programs are loaded from: "text", "bytes"
    DelMay      \* what a finalizer may do beyond reading and allocating

Obj == Units \cup Funcs \cup Codes \cup Strs
Stacks == Coros \cup {Main}

ASSUME Kinds ==
    /\ Global \in Units
    /\ Units \cap Funcs = {} /\ Units \cap Codes = {} /\ Units \cap Strs = {}
    /\ Funcs \cap Codes = {} /\ Funcs \cap Strs = {} /\ Codes \cap Strs = {}
    /\ NoObj \notin Obj /\ Main \notin Coros
ASSUME Bounds == MaxRefs \in Nat /\ GcLimit \in Nat \ {0} /\ VmBlocks \in Nat
ASSUME Loads == Sources \subseteq {"text", "bytes"}
ASSUME FiniteHeap == IsFiniteSet(Obj) /\ IsFiniteSet(Coros)
ASSUME Finalizers == DelMay \subseteq {"store", "raise", "drop", "rearm"}

VARIABLES
    live,       \* the objects in hashpool, funcpool, inspool and strpool
    refs,       \* refs[o]: keys and values of a unit, closure of a function...
    del,        \* del[u]: the "__del__" function of a unit of type object
    stack,      \* stack[s]: the values in the slots of s below its top
    mtop,       \* the values below vm->mtop, as last recorded
    sta,        \* coro->sta, "none" when it is not in coropool
    cur,        \* the stack vm->stack points to
    marked,     \* the objects whose mark is set
    grey,       \* the objects on gc.unit, gc.func or being scanned
    gc,         \* vm->gc
    phase,      \* where the collector is; "run" when it is not active
    self, tmp,  \* the unit __del__ runs on in a collection, and its frame
    nblocks, gcDymax, gcMax,
    decoded,    \* history: how many codes the decoder has left uncounted
    host,       \* how far the host has driven the vm
    closeSelf   \* the unit __del__ runs on in vm_close

heapVars == <<live, refs, del>>
stackVars == <<stack, mtop, sta, cur>>
markVars == <<marked, grey, gc, phase>>
delVars == <<self, tmp>>
countVars == <<gcDymax, gcMax, decoded>>
hostVars == <<host, closeSelf>>
vars == <<live, refs, del, stack, mtop, sta, cur, marked, grey, gc, phase,
          self, tmp, nblocks, gcDymax, gcMax, decoded, host, closeSelf>>

CoroStates == {"none", "READY", "RUN", "YIELD", "END"}
SweepPhases == {"sweepUnit", "sweepStr", "sweepCode", "sweepFunc", "sweepCoro"}
Phases == {"run", "mark", "deinit", "del"} \cup SweepPhases
Hosts == {"exec", "loop", "done", "failed", "closing", "closed", "exited"}

(* The values each variable takes.                                         *)
TypeOK ==
    /\ live \subseteq Obj
    /\ refs \in [Obj -> SUBSET Obj]
    /\ del \in [Units -> Funcs \cup {NoObj}]
    /\ stack \in [Stacks -> SUBSET Obj]
    /\ mtop \subseteq Obj
    /\ sta \in [Coros -> CoroStates]
    /\ cur \in Stacks
    /\ marked \subseteq Obj /\ grey \subseteq Obj
    /\ gc \in BOOLEAN /\ phase \in Phases
    /\ self \in Units \cup {NoObj} /\ tmp \subseteq Obj
    /\ nblocks \in Int /\ gcDymax \in Nat /\ gcMax \in Nat /\ decoded \in Nat
    /\ host \in Hosts /\ closeSelf \in Units \cup {NoObj}

-----------------------------------------------------------------------------
(* What an object refers to.  For a unit that is its nodes, with the value *)
(* of the key "__del__" kept apart.                                        *)
Kids(o) == refs[o] \cup (IF o \in Units THEN {del[o]} \ {NoObj} ELSE {})

(* A coroutine whose stack is scanned and may still run.                   *)
Alive(c) == sta[c] \in {"READY", "RUN", "YIELD"}

(* The slots __losu_gc_markstack scans, and vm->global.                    *)
Roots == {Global} \cup (IF cur = Main THEN {} ELSE mtop) \cup stack[cur]
         \cup UNION {stack[c] : c \in {d \in Coros : Alive(d) /\ d # cur}}

(* The frame of the code that is running: a finalizer runs on top of the   *)
(* stack it interrupts, in a frame of its own.                             *)
Frame == IF phase = "del" THEN tmp ELSE stack[cur]

Returns(F) == IF phase = "del"
              THEN tmp' = F /\ UNCHANGED stack
              ELSE stack' = [stack EXCEPT ![cur] = F] /\ UNCHANGED tmp

(* Some script code is running, and may execute an instruction.            *)
Running ==
    \/ phase = "del"
    \/ /\ phase = "run"
       /\ \/ host = "exec"
          \/ host = "loop" /\ cur # Main
          \/ host = "closing" /\ closeSelf # NoObj

(* Whether the running code may put the values in vs where a surviving     *)
(* object or stack keeps them: a finalizer is running that only does so    *)
(* with values that survive as well, or it may do anything.                *)
MayKeep(vs) == phase = "del" /\ ~ (vs \subseteq marked) => "store" \in DelMay

(* The values an instruction can push: fields, globals, string constants   *)
(* of the functions on the frame, captured values.                         *)
Readable(v) ==
    IF v \in Funcs
    THEN (refs[v] \ Codes) \cup UNION {refs[k] \cap Strs : k \in refs[v] \cap Codes}
    ELSE Kids(v) \ Codes

Closed(S) == \A o \in S : Kids(o) \subseteq S

(* What can be reached from the roots: the least closed set around them.   *)
Reach ==
    LET around == {S \in SUBSET Obj : Roots \subseteq S /\ Closed(S)}
    IN  {o \in Obj : \A S \in around : o \in S}

-----------------------------------------------------------------------------
Init ==
    /\ live = {Global}
    /\ refs = [o \in Obj |-> {}]
    /\ del = [u \in Units |-> NoObj]
    /\ stack = [s \in Stacks |-> {}]
    /\ mtop = {}
    /\ sta = [c \in Coros |-> "none"]
    /\ cur = Main
    /\ marked = {} /\ grey = {} /\ gc = FALSE /\ phase = "run"
    /\ self = NoObj /\ tmp = {}
    /\ nblocks = VmBlocks + 1 /\ gcDymax = 1 /\ gcMax = GcLimit /\ decoded = 0
    /\ host = "exec" /\ closeSelf = NoObj

(* nblocks is unsigned: below zero it is larger than any threshold.        *)
Full == nblocks >= gcDymax \/ nblocks < 0

(* Mutated NewTask: only the globals and the stack that runs are roots.    *)
NewTaskNoCoros ==
    LET roots == {Global} \cup stack'[cur] IN
    IF Full' /\ ~gc
    THEN /\ gc' = TRUE /\ phase' = "mark" /\ mtop' = mtop
         /\ marked' = marked \cup roots
         /\ grey' = roots \ (marked \cup Strs)
    ELSE UNCHANGED <<markVars, mtop>>

(* Mutated NewTask: without the test of vm->gc.                            *)
NewTaskNested ==
    IF Full'
    THEN /\ gc' = TRUE /\ phase' = "mark"
         /\ mtop' = IF cur = Main THEN stack'[Main] ELSE mtop
         /\ marked' = marked \cup Roots'
         /\ grey' = (Roots' \ marked) \ Strs
    ELSE UNCHANGED <<markVars, mtop>>

(* losu_gc_newtask, at the end of the instruction that calls it: when the  *)
(* heap has reached the threshold and no collection is under way, mark the *)
(* roots and start the collector.                                          *)
NewTask ==
    IF Full' /\ ~gc
    THEN /\ gc' = TRUE /\ phase' = "mark"
         /\ mtop' = IF cur = Main THEN stack'[Main] ELSE mtop
         /\ marked' = marked \cup Roots'
         /\ grey' = (Roots' \ marked) \ Strs
    ELSE UNCHANGED <<markVars, mtop>>

-----------------------------------------------------------------------------
(* The mutator.                                                            *)

(* PUSHSTRING, PUSHUPVALUE, GETLOCAL, GETGLOBAL, GETUNIT, PUSHSELF.        *)
Push(o) ==
    /\ Running
    /\ o \in Kids(Global) \cup UNION {Readable(v) : v \in Frame}
    /\ o \notin Codes
    /\ Returns(Frame \cup {o})
    /\ UNCHANGED <<heapVars, mtop, sta, cur, markVars, self, nblocks,
                   countVars, hostVars>>

(* POP, SETLOCAL, a return: the last slot that held o is gone.  The slot   *)
(* that holds a finalizer's own object is a local like the others.         *)
Pop(o) ==
    /\ Running
    /\ o \in Frame
    /\ o \in {self, closeSelf} => "drop" \in DelMay
    /\ Returns(Frame \ {o})
    /\ UNCHANGED <<heapVars, mtop, sta, cur, markVars, self, nblocks,
                   countVars, hostVars>>

(* CALL and PIPE end with losu_gc_newtask; so does gc_collect.             *)
Call ==
    /\ Running
    /\ UNCHANGED <<heapVars, stack, sta, cur, delVars, nblocks, countVars,
                   hostVars>>
    /\ NewTask

(* losu_objunit_new: CREATEUNIT after its own losu_gc_newtask, a vararg    *)
(* array, obj_newunit.                                                     *)
NewUnit(u) ==
    /\ Running
    /\ u \in Units \ live
    /\ live' = live \cup {u}
    /\ nblocks' = nblocks + 1
    /\ Returns(Frame \cup {u})
    /\ UNCHANGED <<refs, del, mtop, sta, cur, markVars, self, countVars,
                   hostVars>>

(* CONCAT: the result is interned, so a string that is in the pool, even   *)
(* one nothing refers to any more, is returned as it is.                   *)
Concat(s) ==
    /\ Running
    /\ s \in Strs
    /\ live' = live \cup {s}
    /\ nblocks' = nblocks + (IF s \in live THEN 0 ELSE 1)
    /\ Returns(Frame \cup {s})
    /\ UNCHANGED <<refs, del, sta, cur, self, countVars, hostVars>>
    /\ NewTask

(* Of the codes made, those losu_syntax_decode leaves out of vm->nblocks.  *)
Uncounted(src, codes) == IF src = "bytes" THEN Cardinality(codes) ELSE 0

(* vm_loadbyte: the compiler, or for a program whose first byte is 0 the   *)
(* decoder, creates the code of a chunk, of the functions nested in it,    *)
(* their string constants, and pushes the chunk's function.                *)
Load(src, k, nest, ss, f) ==
    LET codes == {k} \cup nest
        new == (codes \cup {f} \cup ss) \ live IN
    /\ Running
    /\ k \in Codes \ live /\ nest \subseteq (Codes \ live) \ {k}
    /\ f \in Funcs \ live /\ ss \subseteq Strs
    /\ live' = live \cup new
    /\ refs' = [refs EXCEPT ![k] = nest \cup ss, ![f] = {k}]
    /\ nblocks' = nblocks + Cardinality(new) - Uncounted(src, codes)
    /\ decoded' = decoded + Uncounted(src, codes)
    /\ Returns(Frame \cup {f})
    /\ UNCHANGED <<del, mtop, sta, cur, markVars, self, gcDymax, gcMax,
                   hostVars>>

(* PUSHFUNCTION: a closure over the values clo, of a function nested in    *)
(* one that is running.                                                    *)
Closure(f, k, clo) ==
    /\ Running
    /\ f \in Funcs \ live
    /\ \E g \in Frame \cap Funcs : \E m \in refs[g] \cap Codes : k \in refs[m] \cap Codes
    /\ clo \subseteq Frame
    /\ live' = live \cup {f}
    /\ refs' = [refs EXCEPT ![f] = clo \cup {k}]
    /\ nblocks' = nblocks + 1
    /\ Returns(Frame \cup {f})
    /\ UNCHANGED <<del, sta, cur, self, countVars, hostVars>>
    /\ NewTask

(* SETUNIT, SETGLOBAL, SETLIST, SETMAP.                                    *)
SetField(u, o) ==
    /\ Running
    /\ u \in (Frame \cap Units) \cup {Global}
    /\ o \in Frame \ refs[u]
    /\ Cardinality(refs[u]) < MaxRefs
    /\ u \in marked => MayKeep({o})
    /\ refs' = [refs EXCEPT ![u] = @ \cup {o}]
    /\ UNCHANGED <<live, del, stackVars, markVars, delVars, nblocks,
                   countVars, hostVars>>

(* The same, where the value overwritten was the last reference to o.      *)
ClearField(u, o) ==
    /\ Running
    /\ u \in (Frame \cap Units) \cup {Global}
    /\ o \in refs[u]
    /\ refs' = [refs EXCEPT ![u] = @ \ {o}]
    /\ UNCHANGED <<live, del, stackVars, markVars, delVars, nblocks,
                   countVars, hostVars>>

(* losu_vm_alu_call makes an object of a class that defines "__del__", or  *)
(* the field is set on the object, to a method or to null.                 *)
SetDel(u, f) ==
    /\ Running
    /\ u \in (Frame \cap Units) \ {Global}
    /\ f \in (Frame \cap Funcs) \cup {NoObj} /\ f # del[u]
    /\ f # NoObj /\ (phase = "del" \/ host = "closing") => "rearm" \in DelMay
    /\ u \in marked => MayKeep({f} \ {NoObj})
    /\ del' = [del EXCEPT ![u] = f]
    /\ UNCHANGED <<live, refs, stackVars, markVars, delVars, nblocks,
                   countVars, hostVars>>

(* ASYNC: a coroutine with the function and its arguments on its stack.    *)
Async(c, args) ==
    /\ Running
    /\ sta[c] = "none"
    /\ args \subseteq Frame /\ args \cap Funcs # {}
    /\ MayKeep(args)
    /\ sta' = [sta EXCEPT ![c] = "READY"]
    /\ stack' = [stack EXCEPT ![c] = args]
    /\ nblocks' = nblocks + 1
    /\ UNCHANGED <<heapVars, mtop, cur, markVars, delVars, countVars, hostVars>>

-----------------------------------------------------------------------------
(* Coroutines and the host.                                                *)

(* vm_await switches to the coroutine's stack; awaiting an END one does    *)
(* nothing and returns -1.                                                 *)
Await(c) ==
    /\ phase = "run" /\ host = "loop" /\ cur = Main
    /\ sta[c] \in {"READY", "YIELD"}
    /\ sta' = [sta EXCEPT ![c] = "RUN"]
    /\ cur' = c
    /\ UNCHANGED <<heapVars, stack, mtop, markVars, delVars, nblocks,
                   countVars, hostVars>>

(* YIELD: losu_sigmsg_throw back into vm_await.                            *)
Yield ==
    /\ phase = "run" /\ cur # Main
    /\ sta' = [sta EXCEPT ![cur] = "YIELD"]
    /\ cur' = Main
    /\ UNCHANGED <<heapVars, stack, mtop, markVars, delVars, nblocks,
                   countVars, hostVars>>

(* The coroutine returns or fails.  The stack of an END coroutine is never *)
(* scanned and never runs again.                                           *)
Finish ==
    /\ phase = "run" /\ cur # Main
    /\ sta' = [sta EXCEPT ![cur] = "END"]
    /\ stack' = [stack EXCEPT ![cur] = {}]
    /\ cur' = Main
    /\ UNCHANGED <<heapVars, mtop, markVars, delVars, nblocks, countVars,
                   hostVars>>

(* vm_execute returns, with or without an error: it drops the main stack   *)
(* and records its top.                                                    *)
ExecReturn ==
    /\ phase = "run" /\ host = "exec" /\ cur = Main
    /\ stack' = [stack EXCEPT ![Main] = {}]
    /\ mtop' = {}
    /\ host' \in {"loop", "failed"}
    /\ UNCHANGED <<heapVars, sta, cur, markVars, delVars, nblocks, countVars,
                   closeSelf>>

(* No coroutine is left to await: gc_setthreshold(vm, 0), gc_collect(vm).  *)
LastCollect ==
    /\ phase = "run" /\ host = "loop" /\ cur = Main
    /\ \A c \in Coros : ~Alive(c)
    /\ gcMax' = 0 /\ gcDymax' = 0
    /\ host' = "done"
    /\ UNCHANGED <<heapVars, stack, sta, cur, delVars, nblocks, decoded,
                   closeSelf>>
    /\ NewTask

-----------------------------------------------------------------------------
(* The collector.                                                          *)

(* Mutated Mark: the captured values of a closure are not followed.        *)
MarkSkipsClosure(o) ==
    LET next == IF o \in Funcs THEN Kids(o) \cap Codes ELSE Kids(o) IN
    /\ phase = "mark" /\ o \in grey
    /\ marked' = marked \cup next
    /\ grey' = (grey \ {o}) \cup ((next \ marked) \ Strs)
    /\ UNCHANGED <<heapVars, stackVars, gc, phase, delVars, nblocks,
                   countVars, hostVars>>

(* One turn of __losu_gc_markwork: code is scanned as soon as it is marked *)
(* (__losu_gc_markscode recurses), then functions, then units.             *)
Mark(o) ==
    /\ phase = "mark"
    /\ o \in grey
    /\ o \notin Codes => grey \cap Codes = {}
    /\ o \in Units => grey \cap Funcs = {}
    /\ marked' = marked \cup Kids(o)
    /\ grey' = (grey \ {o}) \cup ((Kids(o) \ marked) \ Strs)
    /\ UNCHANGED <<heapVars, stackVars, gc, phase, delVars, nblocks,
                   countVars, hostVars>>

MarkEnd ==
    /\ phase = "mark" /\ grey = {}
    /\ phase' = "deinit"
    /\ UNCHANGED <<heapVars, stackVars, marked, grey, gc, delVars, nblocks,
                   countVars, hostVars>>

(* Mutated Doomed: without the test for a function, or for the mark.       *)
DoomedUntyped == (live \cap Units) \ marked
DoomedMarked == {u \in live \cap Units : del[u] # NoObj}

(* The units __losu_gc_cltunitdeinit has still to finalize.                *)
Doomed == {u \in (live \cap Units) \ marked : del[u] # NoObj}

(* Call __del__ on one of them.                                            *)
Finalize(u) ==
    /\ phase = "deinit" /\ u \in Doomed
    /\ phase' = "del" /\ self' = u /\ tmp' = {u, del[u]}
    /\ UNCHANGED <<heapVars, stackVars, marked, grey, gc, nblocks, countVars,
                   hostVars>>

(* Mutated DelReturn: the method stays on the object.                      *)
DelReturnKeepsDel ==
    /\ phase = "del"
    /\ phase' = "deinit" /\ self' = NoObj /\ tmp' = {}
    /\ UNCHANGED <<heapVars, stackVars, marked, grey, gc, nblocks, countVars,
                   hostVars>>

(* It returns: the method is set to null and the scan of the pool starts   *)
(* again.                                                                  *)
DelReturn ==
    /\ phase = "del"
    /\ del' = [del EXCEPT ![self] = NoObj]
    /\ phase' = "deinit" /\ self' = NoObj /\ tmp' = {}
    /\ UNCHANGED <<live, refs, stackVars, marked, grey, gc, nblocks,
                   countVars, hostVars>>

(* It raises: vm_error jumps out of the collection to the vm_execute or    *)
(* vm_await below, or, with neither, ends the process.                     *)
DelRaise ==
    /\ phase = "del" /\ "raise" \in DelMay
    /\ phase' = "run" /\ self' = NoObj /\ tmp' = {}
    /\ CASE cur # Main ->
              /\ sta' = [sta EXCEPT ![cur] = "END"]
              /\ stack' = [stack EXCEPT ![cur] = {}]
              /\ cur' = Main
              /\ UNCHANGED <<mtop, host>>
         [] cur = Main /\ host = "exec" ->
              /\ stack' = [stack EXCEPT ![Main] = {}]
              /\ mtop' = {}
              /\ host' = "failed"
              /\ UNCHANGED <<sta, cur>>
         [] OTHER -> host' = "exited" /\ UNCHANGED stackVars
    /\ UNCHANGED <<heapVars, marked, grey, gc, nblocks, countVars, closeSelf>>

(* Mutated DeinitEnd: the scan ends with units still to finalize.          *)
DeinitEndEarly ==
    /\ phase = "deinit"
    /\ phase' = "sweepUnit"
    /\ UNCHANGED <<heapVars, stackVars, marked, grey, gc, delVars, nblocks,
                   countVars, hostVars>>

(* The scan reaches the end of the pool.                                   *)
DeinitEnd ==
    /\ phase = "deinit" /\ Doomed = {}
    /\ phase' = "sweepUnit"
    /\ UNCHANGED <<heapVars, stackVars, marked, grey, gc, delVars, nblocks,
                   countVars, hostVars>>

(* Free the objects in dead.                                               *)
Free(dead) ==
    /\ live' = live \ dead
    /\ refs' = [o \in Obj |-> IF o \in dead THEN {} ELSE refs[o]]
    /\ del' = [u \in Units |-> IF u \in dead THEN NoObj ELSE del[u]]

(* Mutated Sweep: what survives keeps its mark.                            *)
SweepKeepsMarks(pool, from, to) ==
    LET dead == (live \cap pool) \ marked IN
    /\ phase = from
    /\ Free(dead)
    /\ nblocks' = nblocks - Cardinality(dead)
    /\ phase' = to
    /\ UNCHANGED <<stackVars, marked, grey, gc, delVars, countVars, hostVars>>

(* Sweep one pool: free what is not marked, unmark the rest.               *)
Sweep(pool, from, to) ==
    LET dead == (live \cap pool) \ marked IN
    /\ phase = from
    /\ Free(dead)
    /\ nblocks' = nblocks - Cardinality(dead)
    /\ marked' = marked \ pool
    /\ phase' = to
    /\ UNCHANGED <<stackVars, grey, gc, delVars, countVars, hostVars>>

SweepUnit == Sweep(Units, "sweepUnit", "sweepStr")
SweepStr == Sweep(Strs, "sweepStr", "sweepCode")
SweepCode == Sweep(Codes, "sweepCode", "sweepFunc")
SweepFunc == Sweep(Funcs, "sweepFunc", "sweepCoro")

(* Mutated SweepCoro: the blocks of the coroutines stay counted.           *)
SweepCoroUncounted ==
    /\ phase = "sweepCoro"
    /\ sta' = [c \in Coros |-> IF sta[c] = "END" THEN "none" ELSE sta[c]]
    /\ gcDymax' = IF 2 * gcDymax > gcMax THEN gcMax ELSE 2 * gcDymax
    /\ gc' = FALSE /\ phase' = "run"
    /\ UNCHANGED <<heapVars, stack, mtop, cur, marked, grey, delVars, nblocks,
                   gcMax, decoded, hostVars>>

(* Free the END coroutines; the collection is over.                        *)
SweepCoro ==
    LET over == {c \in Coros : sta[c] = "END"} IN
    /\ phase = "sweepCoro"
    /\ sta' = [c \in Coros |-> IF c \in over THEN "none" ELSE sta[c]]
    /\ nblocks' = nblocks - Cardinality(over)
    /\ gcDymax' = IF 2 * gcDymax > gcMax THEN gcMax ELSE 2 * gcDymax
    /\ gc' = FALSE /\ phase' = "run"
    /\ UNCHANGED <<heapVars, stack, mtop, cur, marked, grey, delVars, gcMax,
                   decoded, hostVars>>

-----------------------------------------------------------------------------
(* vm_close: losu_gc_clean(vm, 1) without a mark phase.  vm->gc is not     *)
(* set, so a finalizer that runs here may start a collection of its own.   *)

CloseStart ==
    /\ phase = "run" /\ host \in {"done", "failed"}
    /\ host' = "closing"
    /\ UNCHANGED <<heapVars, stackVars, markVars, delVars, nblocks, countVars,
                   closeSelf>>

CloseFinalize(u) ==
    /\ phase = "run" /\ host = "closing" /\ closeSelf = NoObj
    /\ u \in Doomed
    /\ closeSelf' = u
    /\ stack' = [stack EXCEPT ![Main] = {u, del[u]}]
    /\ UNCHANGED <<heapVars, mtop, sta, cur, markVars, delVars, nblocks,
                   countVars, host>>

CloseDelReturn ==
    /\ phase = "run" /\ host = "closing" /\ closeSelf # NoObj
    /\ closeSelf' = NoObj
    /\ del' = [del EXCEPT ![closeSelf] = NoObj]
    /\ stack' = [stack EXCEPT ![Main] = {}]
    /\ UNCHANGED <<live, refs, mtop, sta, cur, markVars, delVars, nblocks,
                   countVars, host>>

(* vm_create leaves vm->errjmp NULL: an error here ends the process.       *)
CloseDelRaise ==
    /\ phase = "run" /\ host = "closing" /\ closeSelf # NoObj
    /\ "raise" \in DelMay
    /\ host' = "exited" /\ closeSelf' = NoObj
    /\ UNCHANGED <<heapVars, stackVars, markVars, delVars, nblocks, countVars>>

(* Sweep every pool; strings and coroutines go whatever their mark.        *)
CloseSweep ==
    LET dead == (live \cap Strs) \cup (live \ marked)
        over == {c \in Coros : sta[c] # "none"} IN
    /\ phase = "run" /\ host = "closing" /\ closeSelf = NoObj /\ Doomed = {}
    /\ Free(dead)
    /\ nblocks' = nblocks - Cardinality(dead) - Cardinality(over)
    /\ sta' = [c \in Coros |-> "none"]
    /\ marked' = {}
    /\ host' = "closed"
    /\ UNCHANGED <<stack, mtop, cur, grey, gc, phase, delVars, countVars,
                   closeSelf>>

-----------------------------------------------------------------------------
Mutate ==
    \/ \E o \in Obj : Push(o) \/ Pop(o)
    \/ Call
    \/ \E u \in Units : NewUnit(u)
    \/ \E s \in Strs : Concat(s)
    \/ \E src \in Sources, k \in Codes, nest \in SUBSET Codes,
          ss \in SUBSET Strs, f \in Funcs : Load(src, k, nest, ss, f)
    \/ \E f \in Funcs, k \in Codes, clo \in SUBSET Frame : Closure(f, k, clo)
    \/ \E u \in Units, o \in Obj : SetField(u, o) \/ ClearField(u, o)
    \/ \E u \in Units, f \in Funcs \cup {NoObj} : SetDel(u, f)
    \/ \E c \in Coros, args \in SUBSET Frame : Async(c, args)

Drive ==
    \/ \E c \in Coros : Await(c)
    \/ Yield \/ Finish \/ ExecReturn \/ LastCollect

Collect ==
    \/ \E o \in Obj : Mark(o)
    \/ MarkEnd
    \/ \E u \in Units : Finalize(u)
    \/ DelReturn \/ DelRaise \/ DeinitEnd
    \/ SweepUnit \/ SweepStr \/ SweepCode \/ SweepFunc \/ SweepCoro

Close ==
    \/ CloseStart \/ CloseDelReturn \/ CloseDelRaise \/ CloseSweep
    \/ \E u \in Units : CloseFinalize(u)

(* The vm is gone; any other state without a step would be a deadlock.     *)
Over == host \in {"closed", "exited"} /\ UNCHANGED vars

Next == Mutate \/ Drive \/ Collect \/ Close \/ Over

Spec == Init /\ [][Next]_vars

(* A collection runs to its end inside the call that starts it, unless a   *)
(* finalizer does not return; a finalizer that returns is assumed to.      *)
CollectorRuns ==
    \/ \E o \in Obj : Mark(o)
    \/ \E u \in Units : Finalize(u)
    \/ MarkEnd \/ DeinitEnd
    \/ SweepUnit \/ SweepStr \/ SweepCode \/ SweepFunc \/ SweepCoro

FairSpec == Spec /\ WF_vars(CollectorRuns) /\ WF_vars(DelReturn)

-----------------------------------------------------------------------------
Open == host \notin {"closed", "exited"}

(* Between the steps of a sweep, and while it frees nothing, no slot, no   *)
(* live object and no finalizer's frame refers to freed memory.            *)
NoDangling ==
    Open /\ phase \notin SweepPhases =>
        /\ Roots \cup tmp \cup ({closeSelf} \ {NoObj}) \subseteq live
        /\ \A o \in live : Kids(o) \subseteq live

(* vm->nblocks, which decides when to collect, counts what is allocated,   *)
(* by whichever modelled path it is allocated or freed: exactly, as long   *)
(* as all programs are loaded from text, and short by every code the       *)
(* decoder of byte code has ever made, also when it is long freed.         *)
Accounting ==
    nblocks + decoded = VmBlocks + Cardinality(live)
                        + Cardinality({c \in Coros : sta[c] # "none"})

(* When marking ends, exactly the reachable objects are marked: nothing    *)
(* reachable will be swept, and no garbage outlives the collection.        *)
MarkExact == phase = "mark" /\ grey = {} => marked = Reach

(* In a collection that losu_gc_newtask starts, a finalizer runs only on   *)
(* an object that no stack and no global leads to.  (vm_close finalizes    *)
(* without a mark phase: there it runs on every object that has one, as    *)
(* FinalizedBeforeFreed asks.)                                             *)
OnlyGarbageFinalized ==
    [][self' # NoObj /\ self = NoObj => self' \notin Reach]_vars

(* No object is freed with its "__del__" still to be called, whichever of  *)
(* the two sweeps frees it and whatever the finalizers before it did.      *)
FinalizedBeforeFreed == [][\A u \in Units \cap (live \ live') : del[u] = NoObj]_vars

(* losu_gc_clean(vm, 1) in vm_close cleans ALL: nothing stays allocated,   *)
(* and what is counted is the vm, less the codes never counted.            *)
ClosedEmpty == host = "closed" => live = {} /\ nblocks + decoded = VmBlocks

(* It does, unless a finalizer that raised has left vm->gc set.            *)
ClosedEmptyOrWedged ==
    host = "closed" /\ ~gc => live = {} /\ nblocks + decoded = VmBlocks

(* An object that a global refers to is not collected.                     *)
GlobalsKept == Open => refs[Global] \subseteq live

(* Once a finalizer has raised, vm->gc stays set and no collection ever    *)
(* starts again: nothing is freed before vm_close.                         *)
Wedged == [][gc /\ phase = "run" => phase' = "run" /\ gc'
                                    /\ (live \subseteq live' \/ host' = "closed")]_vars

(* A collection that starts ends, if its finalizers return and do not give *)
(* "__del__" methods to objects again.                                     *)
CollectionEnds == phase = "mark" ~> phase = "run"
-----------------------------------------------------------------------------
(* Why nothing dangles: an invariant that each step preserves, provided no *)
(* finalizer stores garbage in a surviving object or drops its own object. *)

(* The pools the collection under way has swept.                           *)
Swept ==
    CASE phase = "sweepStr" -> Units
      [] phase = "sweepCode" -> Units \cup Strs
      [] phase = "sweepFunc" -> Units \cup Strs \cup Codes
      [] phase = "sweepCoro" -> Obj
      [] OTHER -> {}

(* What the collection leaves: the rest of the pools swept, and of the     *)
(* others what is marked.                                                  *)
Kept == IF phase = "run" THEN live ELSE (live \cap Swept) \cup marked

(* Where control is.                                                       *)
ControlInv ==
    /\ cur # Main => host = "loop" /\ sta[cur] = "RUN"
    /\ host = "loop" => stack[Main] = {} /\ mtop = {}
    /\ Open /\ closeSelf # NoObj => host = "closing" /\ closeSelf \in stack[Main]
    /\ phase # "run" => gc /\ Open
    /\ phase # "del" => tmp = {}

(* Memory that is not allocated refers to nothing, nor does a string.      *)
FreshInv == \A o \in Obj : o \notin live \/ o \in Strs => Kids(o) = {}

(* Marks are on live objects of the pools not swept yet, and on none       *)
(* between collections.                                                    *)
MarkedInv ==
    /\ marked \subseteq live
    /\ marked \cap Swept = {}
    /\ ~gc => marked = {}

(* The marked objects whose references are still to be followed are grey.  *)
GreyInv == phase = "mark" =>
    /\ Roots \subseteq marked /\ grey \subseteq marked
    /\ \A o \in marked \ grey : Kids(o) \subseteq marked

KeptInv == Open /\ phase # "mark" => Roots \subseteq Kept /\ Closed(Kept)

(* The parts together: between any two instructions, and at every step of  *)
(* a collection, the heap is one from which nothing can come to dangle.    *)
HeapInv == ControlInv /\ FreshInv /\ MarkedInv /\ GreyInv /\ KeptInv /\ NoDangling
=============================================================================
