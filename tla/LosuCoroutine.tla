--------------------------- MODULE LosuCoroutine ---------------------------
(***************************************************************************)
(* Coroutines of the Losu virtual machine and the loop in which every host *)
(* of this repository awaits them.                                         *)
(*                                                                         *)
(* A coroutine runs on the C stack of vm_await: each of its calls is an    *)
(* activation of __losu_vmheap_procall, or, below native code, of          *)
(* __losu_vmheap_rawcall.  A call leaves a context in the stack slot its   *)
(* function was in.  YIELD jumps out of all activations; the next vm_await *)
(* looks for the contexts in the slots, links them and enters one nested   *)
(* activation of __losu_vmcore_exec for each.                              *)
(***************************************************************************)
EXTENDS Integers, Sequences, FiniteSets, SequencesExt, FiniteSetsExt

CONSTANTS
    Coros,       \* the coroutines, by address
    NoCoro,      \* NULL
    Contexts,    \* the contexts of procall: a bound on those that are in use,
                 \* one that no call has any more is a new address as well
    NStack,      \* the slots of a coroutine's stack, 256 in the code
    MaxStack,    \* the stack a function declares, at least 1
    NParams      \* the parameters a function declares

ASSUME Sizes ==
    /\ NStack \in Nat \ {0} /\ MaxStack \in Nat \ {0} /\ NParams \in 0..MaxStack
    /\ MaxStack + 2 < NStack /\ NoCoro \notin Coros
    /\ {"raw", "value"} \cap Contexts = {}

(* What a slot holds: a context of procall, one that rawcall keeps in a C  *)
(* local, or any other value.                                              *)
Raw == "raw"
Value == "value"

Slots == 1..NStack
NResults == {-1} \cup 0..MaxStack

VARIABLES
    pool,    \* vm->coropool, from its head
    sta,     \* coro->sta, "none" when it is not in the pool
    slot,    \* slot[c]: what the slots of its stack hold
    top,     \* the number of slots in use, as last saved in coro->top or vm->top
    ctx,     \* the contexts: base, results, link, and what pc_t points to
    called,  \* the contexts in vm->callpool
    cur,     \* the coroutine that runs, NoCoro on the main stack
    act,     \* its activations on the C stack, the innermost last
    yield,   \* vm->yield
    host,    \* "exec" in vm_dostring; "loop"; "done" after it
    cursor,  \* coro, the variable of the host's loop
    again,   \* b, whether the loop makes another pass
    since    \* history: the coroutines awaited since c last ran

vmVars == <<slot, top, ctx, called>>
runVars == <<cur, act, yield>>
hostVars == <<host, cursor, again>>
vars == <<pool, sta, slot, top, ctx, called, cur, act, yield, host, cursor, again, since>>

(* The numbers of a set, in order.                                         *)
InOrder(S) ==
    CHOOSE q \in [1..Cardinality(S) -> S] : \A i, j \in DOMAIN q : i < j => q[i] < q[j]

CoroStates == {"none", "READY", "RUN", "YIELD", "END"}

(* An activation: its context, the slot of its function, the results its   *)
(* caller waits for, the value of vm->yield it restores, and "call" or     *)
(* "recall", whether procall or rawcall waits for it or recalled exec.     *)
Activation(x, f, nres, y, kind) ==
    [ctx |-> x, func |-> f, nres |-> nres, yield |-> y, kind |-> kind]

Inner == Last(act)
Suspended(c) == sta[c] \in {"READY", "YIELD"}

Init ==
    /\ pool = <<>> /\ sta = [c \in Coros |-> "none"]
    /\ slot = [c \in Coros |-> [i \in Slots |-> Value]]
    /\ top = [c \in Coros |-> 0]
    /\ ctx = [x \in Contexts |-> [base |-> 1, nres |-> 0, next |-> 0, pct |-> "null"]]
    /\ called = {}
    /\ cur = NoCoro /\ act = <<>> /\ yield = FALSE
    /\ host = "exec" /\ cursor = NoCoro /\ again = FALSE
    /\ since = [c \in Coros |-> {}]

-----------------------------------------------------------------------------
(* Instructions of the coroutine that runs.                                *)

Running == host = "loop" /\ cur # NoCoro

(* Room for what the frame of the innermost call may still push.           *)
InFrame(n) == n <= Inner.func + MaxStack

(* Whatever raises the top writes the slots it adds.                       *)
Push ==
    /\ Running /\ InFrame(top[cur] + 1)
    /\ slot' = [slot EXCEPT ![cur][top[cur] + 1] = Value]
    /\ top' = [top EXCEPT ![cur] = @ + 1]
    /\ UNCHANGED <<pool, sta, ctx, called, runVars, hostVars, since>>
Pop ==
    /\ Running /\ top[cur] > Inner.func
    /\ top' = [top EXCEPT ![cur] = @ - 1]
    /\ UNCHANGED <<pool, sta, slot, ctx, called, runVars, hostVars, since>>

(* Mutated Overflows: without the check.                                   *)
OverflowsNever(n) == FALSE

(* __losu_vmheap_check(vm, fcode->maxstacksize) at the call of a function. *)
Overflows(n) == NStack - 1 - n <= MaxStack

(* The slots after the function in slot f becomes the context x and        *)
(* __losu_vmheap_adjtop makes the arguments above it NParams values.       *)
Entered(s, f, x, n) ==
    [i \in Slots |-> IF i = f THEN x
                     ELSE IF i > n /\ i <= f + NParams THEN Value ELSE s[i]]

(* The contexts of calls that are active or suspended.                     *)
Held == {act[i].ctx : i \in DOMAIN act}
        \cup UNION {{slot[c][i] : i \in 1..top[c]} : c \in {d \in Coros : sta[d] = "YIELD"}}

(* procall with a new context, or rawcall, of the function in slot f.      *)
Enter(c, s, f, n, nres, x, y, outer) ==
    /\ slot' = [slot EXCEPT ![c] = Entered(s, f, x, n)]
    /\ top' = [top EXCEPT ![c] = f + NParams]
    /\ act' = Append(outer, Activation(x, f, nres, y, "call"))
    /\ IF x = Raw
       THEN UNCHANGED <<ctx, called>>
       ELSE /\ x \notin Held
            /\ called' = called \cup {x}
            /\ ctx' = [ctx EXCEPT ![x] = [base |-> f + 1, nres |-> nres, next |-> 0,
                                          pct |-> "live"]]

(* CALL, PIPE: cinfo->inlinecall, which is the way the caller was called.  *)
Call(narg, nres, x) ==
    LET f == top[cur] - narg IN
    /\ Running /\ f > Inner.func /\ ~Overflows(top[cur])
    /\ x = Raw <=> Inner.ctx = Raw
    /\ Enter(cur, slot[cur], f, top[cur], nres, x, yield, act)
    /\ UNCHANGED <<pool, sta, cur, yield, hostVars, since>>

(* An overloaded operator, "__init__": losu_vm_alu_*, __obj_new push the   *)
(* method and its arguments; stack_rawcall.                                *)
NativeCall(narg, nres) ==
    LET f == top[cur] + 1
        pushed == [i \in Slots |-> IF i \in f..f+narg THEN Value ELSE slot[cur][i]]
    IN  /\ Running /\ f + narg < NStack /\ ~Overflows(f + narg)
        /\ Enter(cur, pushed, f, f + narg, nres, Raw, yield, act)
        /\ yield' = FALSE
        /\ UNCHANGED <<pool, sta, cur, hostVars, since>>

(* k results, moved down to the slot of the function, and null for those   *)
(* that are missing; the slots above keep what they held.                  *)
Moved(s, f, n, k, nres) ==
    LET want == IF nres = -1 THEN k ELSE nres IN
    [i \in Slots |-> IF i \in f..f+want-1
                     THEN IF i < f + k THEN s[n - k + 1 + i - f] ELSE Value
                     ELSE s[i]]

(* Mutated Return: stack_rawcall leaves vm->yield as it set it.            *)
ReturnKeepsYield(k) ==
    LET f == Inner.func
        n == IF Inner.nres = -1 THEN k ELSE Inner.nres
    IN  /\ Running /\ Len(act) > 1 /\ k <= top[cur] - f
        /\ slot' = [slot EXCEPT ![cur] = Moved(@, f, top[cur], k, Inner.nres)]
        /\ top' = [top EXCEPT ![cur] = f + n - 1]
        /\ act' = Front(act)
        /\ called' = IF Inner.kind = "call" THEN called \ {Inner.ctx} ELSE called
        /\ UNCHANGED <<pool, sta, ctx, cur, yield, hostVars, since>>

(* RETURN, END: the results go where the function was.  A context is freed *)
(* by the procall that made it; where the call was recalled there is none  *)
(* to do so, and it is left to the next collection; and the caller,        *)
(* recalled as well, only now sets its pc_t.                               *)
Return(k) ==
    LET f == Inner.func
        n == IF Inner.nres = -1 THEN k ELSE Inner.nres
        caller == Last(Front(act))
    IN  /\ Running /\ Len(act) > 1 /\ k <= top[cur] - f
        /\ slot' = [slot EXCEPT ![cur] = Moved(@, f, top[cur], k, Inner.nres)]
        /\ top' = [top EXCEPT ![cur] = f + n - 1]
        /\ act' = Front(act)
        /\ called' = IF Inner.kind = "call" THEN called \ {Inner.ctx} ELSE called
        /\ ctx' = IF Inner.kind = "recall"
                  THEN [ctx EXCEPT ![caller.ctx].pct = "live"] ELSE ctx
        /\ yield' = Inner.yield
        /\ UNCHANGED <<pool, sta, cur, hostVars, since>>

(* The coroutines in over leave the pool, the others keep their order.     *)
Freed(over) ==
    LET kept == InOrder({i \in DOMAIN pool : pool[i] \notin over})
    IN  /\ pool' = [k \in DOMAIN kept |-> pool[kept[k]]]
        /\ sta' = [c \in Coros |-> IF c \in over THEN "none" ELSE sta[c]]

(* The slots of the coroutines in C.                                       *)
SlotsOf(C) == UNION {{slot[c][i] : i \in 1..top[c]} : c \in C}

(* Mutated Collect: every coroutine that does not run is freed, whether or *)
(* not it has ended, or all of them are.                                   *)
CollectSuspended ==
    /\ Running
    /\ Freed({c \in Coros : sta[c] \in {"YIELD", "END"}})
    /\ called' = called \cap SlotsOf({c \in Coros : sta[c] \notin {"none", "END"}})
    /\ UNCHANGED <<slot, top, ctx, runVars, hostVars, since>>
CollectAll ==
    /\ Running
    /\ pool' = <<>> /\ sta' = [c \in Coros |-> "none"]
    /\ called' = called \cap SlotsOf({c \in Coros : sta[c] \notin {"none", "END"}})
    /\ UNCHANGED <<slot, top, ctx, runVars, hostVars, since>>

(* Mutated Collect: __losu_gc_markstack scans only the stack that runs, or *)
(* only the others.                                                        *)
CollectOneStack ==
    /\ Running
    /\ Freed({c \in Coros : sta[c] = "END"})
    /\ called' = called \cap SlotsOf({cur})
    /\ UNCHANGED <<slot, top, ctx, runVars, hostVars, since>>
CollectOtherStacks ==
    /\ Running
    /\ Freed({c \in Coros : sta[c] = "END"})
    /\ called' = called \cap SlotsOf({c \in Coros : Suspended(c)})
    /\ UNCHANGED <<slot, top, ctx, runVars, hostVars, since>>

(* An instruction that ends with losu_gc_newtask and starts a collection:  *)
(* __losu_gc_cltcontext frees the contexts that no slot scanned holds, and *)
(* __losu_gc_cltcoro the coroutines that have ended.  A context left by a  *)
(* call that was recalled, or that failed, goes with the next collection.  *)
Collect ==
    /\ Running
    /\ Freed({c \in Coros : sta[c] = "END"})
    /\ called' = called \cap SlotsOf({c \in Coros : sta[c] \notin {"none", "END"}})
    /\ UNCHANGED <<slot, top, ctx, runVars, hostVars, since>>

(* ASYNC, by the main script or by a coroutine, which gives up the slots   *)
(* of the function and its arguments: a new coroutine, the first of the    *)
(* pool, with a copy of them on its stack.                                 *)
Async(c, narg) ==
    /\ sta[c] = "none"
    /\ sta' = [sta EXCEPT ![c] = "READY"]
    /\ pool' = <<c>> \o pool
    /\ slot' = [slot EXCEPT ![c] = [i \in Slots |-> Value]]
    /\ since' = [d \in Coros |-> IF d = c THEN {} ELSE since[d] \ {c}]
    /\ \/ /\ host = "exec"
          /\ top' = [top EXCEPT ![c] = narg + 1]
       \/ /\ Running /\ top[cur] - narg > Inner.func
          /\ top' = [top EXCEPT ![c] = narg + 1, ![cur] = @ - narg - 1]
    /\ UNCHANGED <<ctx, called, runVars, hostVars>>

-----------------------------------------------------------------------------
(* vm_await, and the loop around it:                                       *)
(*    while (b) { b = 0; for (coro = vm->coropool; coro; coro = coro->next) *)
(*                         if (vm_await(vm, coro) != -1) b = 1; }          *)

After(c) == LET i == CHOOSE j \in DOMAIN pool : pool[j] = c
            IN  IF i = Len(pool) THEN NoCoro ELSE pool[i + 1]

(* vm_execute returns and the loop begins.                                 *)
ExecReturn ==
    /\ host = "exec"
    /\ host' = "loop" /\ again' = FALSE
    /\ cursor' = IF pool = <<>> THEN NoCoro ELSE Head(pool)
    /\ UNCHANGED <<pool, sta, vmVars, runVars, since>>

(* Mutated Pass: one pass and no more.                                     *)
PassOnce ==
    /\ host = "loop" /\ cur = NoCoro /\ cursor = NoCoro
    /\ host' = "done"
    /\ UNCHANGED <<pool, sta, vmVars, runVars, cursor, again, since>>

(* The end of a pass, or of the loop.                                      *)
Pass ==
    /\ host = "loop" /\ cur = NoCoro /\ cursor = NoCoro
    /\ IF again
       THEN /\ again' = FALSE
            /\ cursor' = IF pool = <<>> THEN NoCoro ELSE Head(pool)
            /\ UNCHANGED host
       ELSE host' = "done" /\ UNCHANGED <<cursor, again>>
    /\ UNCHANGED <<pool, sta, vmVars, runVars, since>>

Awaits(c) == host = "loop" /\ cur = NoCoro /\ cursor = c

Awaited(c) ==
    [d \in Coros |-> IF d # c /\ Suspended(d) THEN since[d] \cup {c} ELSE {}]

RunsNow(c) ==
    /\ cur' = c /\ yield' = TRUE
    /\ sta' = [sta EXCEPT ![c] = "RUN"]
    /\ since' = Awaited(c)
    /\ UNCHANGED <<pool, hostVars>>

(* A READY coroutine: procall of the function in its first slot.           *)
AwaitReady(c, x) ==
    /\ Awaits(c) /\ sta[c] = "READY" /\ x \in Contexts
    /\ ~Overflows(top[c])
    /\ Enter(c, slot[c], 1, top[c], 0, x, TRUE, <<>>)
    /\ RunsNow(c)

(* The context slots of a stack below its top, in order.                   *)
ContextSlots(c) == InOrder({i \in 1..top[c] : slot[c][i] # Value})

(* Mutated Linked: the last context keeps the link of an earlier recall.   *)
LinkedKeepsLast(c) ==
    LET q == ContextSlots(c) IN
    [x \in Contexts |->
        LET at == {j \in 1..Len(q)-1 : slot[c][q[j]] = x}
        IN  IF at = {} THEN ctx[x]
            ELSE [ctx[x] EXCEPT !.next = q[(CHOOSE j \in at : TRUE) + 1]]]

(* The contexts after vm_await has linked those it finds.                  *)
Linked(c) ==
    LET q == ContextSlots(c) IN
    [x \in Contexts |->
        LET at == {j \in DOMAIN q : slot[c][q[j]] = x}
            j == CHOOSE i \in at : TRUE
        IN  IF at = {} THEN ctx[x]
            ELSE [ctx[x] EXCEPT !.next = IF j = Len(q) THEN 0 ELSE q[j + 1]]]

(* The activations of exec from slot i on: one for each link.              *)
Recalled(c, X, i) ==
    LET at[n \in Nat] == IF n = 0 THEN i
                         ELSE LET j == at[n-1]
                              IN  IF j = 0 \/ slot[c][j] \notin Contexts THEN 0
                                  ELSE X[slot[c][j]].next
        links == Cardinality({n \in 0..NStack : at[n] # 0})
    IN  [n \in 1..links |->
            LET x == slot[c][at[n-1]]
            IN  Activation(x, IF x \in Contexts THEN X[x].base - 1 ELSE at[n-1],
                           IF x \in Contexts THEN X[x].nres ELSE 0, TRUE, "recall")]

(* A YIELD one: each context found is recalled inside the one before it,   *)
(* which sets its own pc_t only when that returns.                         *)
AwaitYield(c) ==
    /\ Awaits(c) /\ sta[c] = "YIELD"
    /\ LET X == Linked(c)
           a == Recalled(c, X, ContextSlots(c)[1])
       IN  /\ act' = a
           /\ ctx' = [x \in Contexts |-> IF x = Last(a).ctx
                                         THEN [X[x] EXCEPT !.pct = "live"] ELSE X[x]]
    /\ RunsNow(c)
    /\ UNCHANGED <<slot, top, called>>

(* An END one: -1, and the loop goes on.                                   *)
AwaitEnd(c) ==
    /\ Awaits(c) /\ sta[c] = "END"
    /\ cursor' = After(c)
    /\ UNCHANGED <<pool, sta, vmVars, runVars, host, again, since>>

(* vm_await returns: the jump leaves no activation, and pc_t of those that *)
(* were there points into the C stack that is gone.                        *)
Leave(to) ==
    /\ sta' = [sta EXCEPT ![cur] = to]
    /\ ctx' = [x \in Contexts |-> IF \E i \in DOMAIN act : act[i].ctx = x
                                  THEN [ctx[x] EXCEPT !.pct = "dead"] ELSE ctx[x]]
    /\ cur' = NoCoro /\ act' = <<>> /\ yield' = FALSE
    /\ again' = TRUE /\ cursor' = After(cur)
    /\ UNCHANGED <<pool, slot, top, host, since>>

(* Mutated Yield: without the test of vm->yield, or the host's loop starts *)
(* from the head of the pool again.                                        *)
YieldAnywhere == Running /\ Leave("YIELD") /\ UNCHANGED called
YieldRestartsPass ==
    /\ Running /\ yield
    /\ sta' = [sta EXCEPT ![cur] = "YIELD"]
    /\ cur' = NoCoro /\ act' = <<>> /\ yield' = FALSE
    /\ again' = TRUE /\ cursor' = Head(pool)
    /\ UNCHANGED <<pool, vmVars, host, since>>

(* YIELD, which does nothing below native code.                            *)
Yield == Running /\ yield /\ Leave("YIELD") /\ UNCHANGED called

(* The first function returns: procall, if it made the call, frees its     *)
(* context.                                                                *)
Finish ==
    /\ Running /\ Len(act) = 1
    /\ Leave("END")
    /\ called' = IF Inner.kind = "call" THEN called \ {Inner.ctx} ELSE called

(* vm_error, by any instruction.  If it is a call that fails, of a value   *)
(* that is no function or of one there is no room for, procall has already *)
(* made a context, which no slot holds.                                    *)
Fail(x) ==
    /\ Running
    /\ x = Raw \/ (x \notin Held /\ Inner.ctx # Raw)
    /\ Leave("END")
    /\ called' = called \cup ({x} \ {Raw})

(* The same for the first call of a coroutine.                             *)
AwaitFails(c, x) ==
    /\ Awaits(c) /\ sta[c] = "READY" /\ x \in Contexts \ Held
    /\ called' = called \cup {x}
    /\ sta' = [sta EXCEPT ![c] = "END"]
    /\ again' = TRUE /\ cursor' = After(c)
    /\ since' = Awaited(c)
    /\ UNCHANGED <<pool, slot, top, ctx, runVars, host>>

Instruction ==
    \/ Push \/ Pop \/ Collect
    \/ \E narg \in 0..MaxStack, nres \in NResults, x \in Contexts \cup {Raw} :
          Call(narg, nres, x)
    \/ \E narg \in 1..2, nres \in {0, 1} : NativeCall(narg, nres)
    \/ \E k \in 0..MaxStack : Return(k)

Suspend == Yield \/ Finish \/ \E x \in Contexts \cup {Raw} : Fail(x)

Loop ==
    \/ ExecReturn \/ Pass
    \/ \E c \in Coros : AwaitYield(c) \/ AwaitEnd(c)
    \/ \E c \in Coros, x \in Contexts : AwaitReady(c, x) \/ AwaitFails(c, x)

(* The host closes the vm and is done.                                     *)
Closed == host = "done" /\ UNCHANGED vars

Next ==
    \/ Instruction \/ Suspend \/ Loop \/ Closed
    \/ \E c \in Coros, narg \in 0..MaxStack : Async(c, narg)

Spec == Init /\ [][Next]_vars

(* The loop goes on when vm_await returns; a slice of a coroutine is       *)
(* assumed to end.                                                         *)
FairSpec == Spec /\ WF_vars(Loop) /\ WF_vars(Suspend)

-----------------------------------------------------------------------------
(* The top stays below the last slot, the pool is a list without cycles.   *)
TypeOK ==
    /\ sta \in [Coros -> CoroStates]
    /\ IsInjective(pool) /\ ToSet(pool) = {c \in Coros : sta[c] # "none"}
    /\ slot \in [Coros -> [Slots -> Contexts \cup {Raw, Value}]]
    /\ top \in [Coros -> 0..NStack-1]
    /\ ctx \in [Contexts -> [base : Slots, nres : NResults, next : {0} \cup Slots,
                             pct : {"null", "live", "dead"}]]
    /\ called \subseteq Contexts
    /\ cur \in Coros \cup {NoCoro} /\ yield \in BOOLEAN
    /\ \A i \in DOMAIN act : act[i].ctx \in Contexts \cup {Raw} /\ act[i].func \in Slots
    /\ host \in {"exec", "loop", "done"} /\ cursor \in Coros \cup {NoCoro}
    /\ again \in BOOLEAN /\ since \in [Coros -> SUBSET Coros]

(* The calls of a coroutine: those of the one that runs are on the C       *)
(* stack, those of one that is suspended can only be found in its slots.   *)
FramesOf(c) ==
    LET q == IF c = cur THEN [i \in DOMAIN act |-> act[i].func]
             ELSE IF sta[c] = "YIELD" THEN ContextSlots(c) ELSE <<>>
        ended(i) == IF i = Len(q) THEN top[c] ELSE q[i + 1] - 1
    IN  [i \in DOMAIN q |->
            LET x == slot[c][q[i]]
            IN  [nres |-> IF c = cur THEN act[i].nres
                          ELSE IF x \in Contexts THEN ctx[x].nres ELSE 0,
                 vals |-> ended(i) - q[i],
                 native |-> IF c = cur THEN act[i].ctx = Raw ELSE x = Raw]]

Promise == INSTANCE Coroutines WITH calls <- [c \in Coros |-> FramesOf(c)],
                                    MaxVals <- NStack

(* A coroutine goes on from a yield with the very calls it had, each still *)
(* waiting for its results, and nothing it does disturbs another.          *)
Implements == Promise!Spec

(* The contexts a suspended coroutine will be recalled from, and those of  *)
(* the one that runs, are allocated, each in one slot, whatever returns,   *)
(* errors and collections have freed; none is in the C stack of a native   *)
(* call that is gone.                                                      *)
ContextsHeld ==
    /\ \A c \in Coros : sta[c] = "YIELD" =>
          LET q == ContextSlots(c) IN
          /\ q # <<>> /\ q[1] = 1
          /\ \A i \in DOMAIN q : slot[c][q[i]] \in called
          /\ \A i, j \in DOMAIN q : slot[c][q[i]] = slot[c][q[j]] => i = j
    /\ \A i \in DOMAIN act : act[i].ctx \in called \cup {Raw}

(* A coroutine may yield exactly when no native code waits for it, however *)
(* the calls before it ended.                                              *)
YieldAllowed == yield = (cur # NoCoro /\ \A i \in DOMAIN act : act[i].ctx # Raw)

(* The host's loop never holds a coroutine that a collection has freed.    *)
CursorInPool ==
    /\ cursor # NoCoro => cursor \in ToSet(pool)
    /\ cur # NoCoro => cursor = cur

(* The loop ends when every coroutine has ended, those included that were  *)
(* created during its last pass.                                           *)
NoneForgotten == host = "done" => \A c \in Coros : ~Suspended(c)

(* No coroutine gets a second turn while another waits for its first: the  *)
(* passes are fair although the pool changes while they walk it.           *)
OneTurnEach ==
    [][\A c, d \in Coros : c # d /\ Suspended(d) /\ Awaits(c) /\ cur' = c
                             => c \notin since[d]]_vars

(* Every coroutine that waits is awaited, if those before it yield or end. *)
EveryOneRuns == \A c \in Coros : Suspended(c) /\ host = "loop" ~> ~Suspended(c)

(* When an error is reported, __vm_stacktrace follows pc_t of each call:   *)
(* the position saved with it must be that of an activation that exists.   *)
TraceAccurate == \A i \in DOMAIN act :
    act[i].ctx # Raw => ctx[act[i].ctx].pct = "live"
=============================================================================
