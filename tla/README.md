# Verification of the Losu live-code platform

This directory models the Losu virtual machine (`src/losu/losu`), the hosts
that embed it in the web page (`src/losu/*/main.c`), two of the demonstrations
those hosts run, and the file system in memory that their WebAssembly programs
are linked with, in TLA+. TLC checks the models on small instances; TLAPS proves
the properties of the collector, of the coroutines, of the hash tables, of the
scheduler, of the file system and of the file demonstration for every instance.

    tlc -workers 2 -config Heap.cfg MCHeap
    tlapm LosuHeapProofs.tla
    tlapm LosuCoroutineLoop.tla
    tlapm LosuCoroutineCalls.tla
    tlapm LosuUnitProofs.tla
    tlapm ThreadSchedulerProofs.tla
    tlapm MemoryFSProofs.tla
    tlapm FileTreeProofs.tla
    tlapm FilesystemPageProofs.tla

## 1. The system

A web page (`src/www`) loads one WebAssembly program per demonstration. Each
program is a *host*: it creates a vm, compiles and executes the text the user
typed, awaits the coroutines that made, collects garbage and closes the vm
(function `run` of each `main.c`). Everything runs on one thread; the
concurrency is between coroutines, which switch only at `yield`, and between a
script and the collector and finalizers that its own instructions start.

| component | state it keeps | operations | talks to |
|---|---|---|---|
| garbage collector (`gc/`) | marks, work lists, `vm->gc`, thresholds | `losu_gc_newtask`, mark, finalize, sweep, `losu_gc_clean` | reads every stack and pool; calls `__del__` scripts |
| object pools (`object/`, `mem/`) | `hashpool`, `funcpool`, `inspool`, `strpool`, `coropool`, `nblocks` | new, free, intern, hash-table get/set/rehash | all of the vm |
| contexts and stacks (`objcontext.c`, `vm/heap.c`, `stackapi.c`) | slots, top, `callpool` | `procall`, `rawcall`, moving results | interpreter, native libraries |
| interpreter (`vm/core.c`, `vm/alu.c`) | program counter, `pc_t`, `vm->yield` | one per instruction; recalled after a yield | heap, collector, contexts |
| signals and vm api (`signal.c`, `vmapi.c`) | `errjmp`, coroutine status | `vm_execute`, `vm_await`, `vm_error`, `vm_close` | hosts, interpreter |
| hosts (`*/main.c`) | loop variables `coro`, `b` | `run` | vm api |
| thread scheduling demonstration (`thread/main.c`) | one global scheduler | parse, four algorithms, simulate, statistics | its host's buttons |
| filesystem demonstration (`filesystem/main.c`, `filesystem.js`) | files in memory, `fs_initialized`; the page: `filesystemModule` | read, write, delete, rename, ... ; loading the program | the page's buttons |
| file system in memory (FS and MEMFS in `www/assets/wasm/filesystem.m.js`, and in each of its sister files) | nodes, directories, the name table, arrays of bytes, streams | `open`, `read`, `write`, `llseek`, `mkdir`, `rename`, `unlink`, `rmdir`, ... | the C library's system calls |
| memory, lexer, parser, sema, codegen demonstrations | small global tables or text | text reports | their hosts' buttons |
| compiler (`syntax/`) | lexer's indentation stack, jump lists, stack level | text to byte code | `vm_loadbyte` |
| dump/decode (`dump/`, `decode.c`) | a buffer | byte code to and from a file | `vm_loadbyte` |
| libraries (`lib/`, `ext/`) | `vm->path` during an import | wrappers over the C library | native calls |
| front end (`www/assets/js`) | which module is loaded | buttons | the wasm programs |

### What is hard, and the properties it asks for

* **Collection while code runs.** Any call or allocation may collect. Roots are
  the running stack, the main stack up to the *recorded* `vm->mtop`, and every
  coroutine that may still run. Nothing reachable may be freed (`NoDangling`,
  `MarkExact`), and the block count that decides when to collect must agree
  with the pools on every path, or differ by what is known not to be counted
  (`Accounting`).
* **Finalizers.** `__del__` runs *between* mark and sweep, inside the collector.
  It may allocate, store, make coroutines, raise. In a collection that `losu_gc_newtask`
  starts it must run on garbage only (`OnlyGarbageFinalized`; `vm_close` finalizes
  whatever there is), always before the object is freed (`FinalizedBeforeFreed`), and the collection must come to an end
  (`CollectionEnds`). What goes wrong when it raises or stores its object is
  stated by `Wedged`, `ClosedEmpty` and `GlobalsKept`.
* **Suspending a C stack.** `yield` is a `longjmp`. The calls that were active
  survive only as context objects in stack slots, and `vm_await` rebuilds
  nested activations by scanning for them; a collection frees every context that
  no slot it scans holds. The abstract `Coroutines` module
  says what a script may rely on; `Implements` says the machine gives it.
  `YieldAllowed` and `ContextsHeld` say why.
* **A list walked while it changes.** The host's loop holds `coro` while the
  coroutine it awaits adds coroutines at the head of the pool and frees ended
  ones: `CursorInPool`, `NoneForgotten`, `OneTurnEach`, `EveryOneRuns`.
* **A hash table that is rebuilt while in use.** Nodes move when keys collide
  and when the vector is replaced, deleted keys fill it, a loop keeps its place
  by key: `ChainsSound`, `RehashFits`, `SetExact`, and `Implements` of LosuUnit.
* **Linked queues with stale pointers, clocks off by one, quanta that end with
  their thread** in the scheduler: `Placement`, `TimesExact`,
  `RoundRobinBalanced`, `ShortestFirstOptimal`, `StatisticsExact`.
* **A page that loads what it calls.** Clicks come while the program is being
  loaded (`ModuleKept`), and the tree of files they work on is any
  tree that earlier clicks have made, at whatever path the user types
  (`NoResurrection`, `FailureLeavesNothing`).
* **Two records of one tree.** A directory lists its entries, and a table hashes
  the parent and name of each node; `rename` changes both names and both records
  in two functions, one of which may throw when the node is out of the table
  (`TableSound`, `LookupExact`). Nothing may be moved into itself (`Rooted`).
* **Files that outlive their names, arrays longer than their files, streams that
  append to the same file**: what a program sees of these is the abstract file
  system (`Implements` of MemoryFS).

`PROJECT.json` lists each hazard at its line, with the properties that cover it
or the reason that none does.

## 2. The modules

### LosuHeap, LosuHeapProofs, MCHeap

An object is its address, a stack the set of the objects in its slots, an
object's contents the set `Kids` of the objects it refers to (with the value of
the key `"__del__"` kept apart in `del`). That is all the collector looks at.
The state is the pools (`live`), the stacks, the marks and work lists
(`marked`, `grey`), where the collector is (`phase`), the finalizer it runs
(`self`, its frame `tmp`), the counts (`nblocks`, `gcDymax`, `gcMax`) and how
far the host has come (`host`).

* *Mutator*: one action for each group of instructions with the same effect on
  the heap (`Push`, `Pop`, `Call`, `NewUnit`, `Concat`, `Load`, `Closure`,
  `SetField`, `ClearField`, `SetDel`, `Async`). Where the code calls
  `losu_gc_newtask` the action ends with `NewTask`, which may start a
  collection in the same step. `Load` is `vm_loadbyte` with either kind of
  source: the parser counts the codes it makes in `nblocks`, the decoder of byte
  code does not (`Uncounted`), and the sweep subtracts both; `decoded` is the
  history of the difference. `nblocks` below zero is the unsigned count wrapped,
  which is above every threshold (`Full`).
* *Host and coroutines*: `Await`, `Yield`, `Finish`, `ExecReturn`,
  `LastCollect`, and `CloseStart` to `CloseSweep` for `vm_close`.
* *Collector*: `Mark` (one turn of `markwork`, with the code's priority of
  code over functions over units), `MarkEnd`, `Finalize`, `DelReturn`,
  `DelRaise`, `DeinitEnd`, and one sweep per pool in the code's order.

A finalizer may run any instruction. `DelMay` says which of four harmful
things it does: `"store"` puts values that are about to be swept into something
that survives, `"raise"` ends with an error, `"drop"` overwrites its own
parameter, `"rearm"` gives an object a `__del__` again. The passing runs and
the proof exclude `"store"` and `"drop"`, which the code does not survive;
`heap_store` shows the first. `MCHeap` keeps two families of behaviour apart,
nested functions and tables with finalizers, which do not need each other.

### Coroutines, LosuCoroutine, MCCoroutine, and their proofs

`Coroutines` is the promise: each coroutine has a stack of calls, one runs at
most, a yield puts its calls aside unchanged and a resume takes them up again,
each still waiting for the results it asked for. `LosuCoroutine` is the
machine: slots that hold contexts or values, a top, contexts with `base`,
result count and link, the activations on the C stack (`act`), `vm->yield`, the
pool as a list, and the loop of the host. The refinement mapping `FramesOf`
reads the calls of the running coroutine off the C stack and those of a
suspended one off its slots. `Implements` is then the abstract specification
as a property.

Choices: a context that has leaked (see section 6) gives its model value back
for another address, so `Contexts` bounds those in use. `Collect` is an
instruction whose `losu_gc_newtask` starts a collection; when that happens is
LosuHeap's business, here it may be any time. It frees the coroutines that have
ended and each context that no slot of the others, the running one included,
refers to, as `__losu_gc_markstack` scans them. The main stack needs no slots
here: the main script makes coroutines in one step and is over before any runs. The main script is one step
(`host = "exec"`) in which it makes coroutines, since it cannot yield. `pct`
records whether `pc_t` of a context points to a local of an activation that
exists. `LosuCoroutineLoop` has the lemmas about numbers in order and the
theorems about the pool and the host, `LosuCoroutineCalls` those about the calls
and the refinement.

### UnitMap, LosuUnit, LosuUnitProofs, MCUnit

`UnitMap` is the promise: a table maps keys to values, and a `for` loop visits
each key once if its body assigns only to keys that have a value and does not
delete the one the loop is at. `LosuUnit` is `objunit.c`: a vector of nodes
with chains inside it, the free pointer, `losu_objunit_set` with its rehash
(`Place`, `Lowered`, `Rehash`, `SetSlot`, one operator per part of the
function; `Moved` is a rehash that has got so far), lookup along the chain
(`NodeOf`), and `losu_objunit_getnext`. Nodes are numbered from 1; `NoKey` and `Null` are both the null of the code. A deleted
key keeps its node until the next rehash, and the value of a key that is moved
stays behind in its old node until the new key is assigned to. `Set` is what
every instruction that stores in a table does: look up or insert, then assign
through the pointer at once. A loop ends early when its body deletes the key it
is at, and it may skip or repeat keys when a key that is not there is set, even
to null. Leaving a loop by `break` is not modelled: nothing remains of it.

### ThreadScheduler, ThreadSchedulerProofs, MCScheduler

The demonstration as it is: the tasks its parser knows, in the order it looks
for them, its default tasks, the four demo functions, the ready and terminated
queues as lists with `next` pointers inside the threads, `select_next_thread`,
one action per turn of the simulation loop, the statistics. The scheduler is a
global that outlives a simulation, so simulations follow one another. The
parser finds the word *priority* inside the names of tasks with a priority
before it looks for *round robin*, so round robin never runs with those
(`Parsed`). `TimesExact` gives the times of a thread as sums over the tasks. What
is printed is left out. In the code the times are at most 35 in all, so the width
of `int` does not matter. Sums and walks along lists are recursive functions
(`Total`, `Chain`): the walk makes at most `MaxThreads` steps, which every list
without a cycle ends within.

### FileTree, FilesystemDemo, FilesystemPage, MCFilesystem, and their proofs

`FileTree` is what a file system promises of its tree: a function from the paths
that exist to what is there, when a directory can be made, a file written,
something moved or removed, and the tree afterwards. It is the tree that the
promise of MemoryFS speaks of.

`FilesystemDemo` has one operator per operation of `filesystem/main.c`, from an
instance of the program (its tree of files and `fs_initialized`) to the
instance after it and whether the operation says it succeeded. What `mkdir`,
`fopen`, `rename` and `rmdir` do to a tree is `FileTree`, which
`MemoryFS!Implements` shows the file system of the page to implement. File
contents are `Default` or `Text`. A user types a path into a dialog that checks
nothing, so a path may end in a slash or in `/.` (`Endings`): looked up whole it
leads to the directory before the ending (`Looked`), while the calls that look up
what is above an entry take a final slash off and a final dot for a name
(`Entry`). `Dotted` are the names that begin with a dot, which the test of
`FS.rename` takes for `..` (`Leads`): such a move into itself takes the directory
out of the tree. Paths with `..`, or with `.` before their end, are not modelled
(`Entered`). `FilesystemPage` is
`filesystem.js`: the page's own load, clicks that find the module or load one,
loads that end in any order or fail. A call into the program is one step, since
JavaScript does not interrupt it; so is what follows the end of a load, since
the promise's continuations run before the next event. `had` is a history
variable. Without the bound `MaxDepth`, renaming a directory into another makes
ever deeper trees.

`FileTreeProofs` has the lemmas about paths and trees, `FilesystemPageProofs` the
theorems about the page.

### FileStorage, Files, MemoryFS, MCMemoryFS, MemoryFSProofs

Each wasm program of the page comes with a JavaScript file that Emscripten
generated; the part of it that keeps files, `FS` and `MEMFS`, is modelled from
`filesystem.m.js`. `FileStorage` is the array of a file's bytes: how it grows,
what a write and a read do to it. `MemoryFS` has the nodes (`kind`, `parent`,
`name`, `entries`), the name table with its chains, the arrays and the streams,
and one action per call. A call is one step since JavaScript does not interrupt
it, but it has the parts of the code in it: `Rename` takes the node out of the
table, finds in `MEMFS.rename` whether it may overwrite, and puts it back under
the old name (`Stay`) or the new one (`Move`); `Open` makes or empties the file
before it asks for a descriptor; `Write` of two pieces is two writes, each at
what is then the end of the file in append mode. The listing of a directory, from
`opendir` to `closedir`, is one call, as in the programs of the page, and needs a
free descriptor for its time; a directory that is kept open is not modelled.

`Files` is the promise: a tree (`FileTree`), bytes, open files, and the result of
each call. The refinement mapping reads the tree off the nodes that directories
list (`GetPath` is `FS.getPath`) and the bytes off the arrays; `call` and `result`
are the same in both, so `Implements` says that a program can tell no difference.

## 3. The runs

| run | instance | what it shows |
|---|---|---|
| `heap` | the global table and one more, two closures with their codes, one nested, a string, a coroutine; finalizers may raise; up to 2 references in a table; the threshold starts at 1 and doubles to its limit 2; code from text, or up to two codes from byte code | types, the block count, exact marking, the inductive invariant, clean closing unless wedged, finalizers on garbage only and before freeing, what an error in a finalizer leaves, no reference to freed memory, termination of a collection |
| `heap_raise_close` | finalizers may raise | *violated*: `vm_close` leaves objects (finding 1) |
| `heap_store` | finalizers may store | *violated*: a global refers to freed memory (finding 2) |
| `coroutine_calls` | one coroutine, 7 slots, 3 contexts in use, functions with one parameter and a stack of 2 | calls, native calls, yields, results, resumes, overflow and errors implement the abstract coroutine |
| `coroutine_loop` | three coroutines with shallow stacks, with fairness | the host's walk over a changing pool never holds a freed coroutine, forgets none, gives each its turn in order and each one a turn; a collection in one leaves the contexts of the others |
| `coroutine_trace` | as `coroutine_calls` | *violated*: stale `pc_t` after a resume (finding 3) |
| `scheduler` | up to 4 of the known tasks, all algorithms, time cap 12 | exact times and counts of switches, optimality, balance, no thread lost or in two places; statistics when the cap cuts a simulation short |
| `unit` | five keys in any order with collisions and loops, three more in order while at most two keys have a value; vectors of 4 and 8 to begin with | the table is a map, lookups are right after every move and rehash, loops are complete; dead keys fill a vector of 8, which is halved |
| `filesystem` | three clicks, any operation on nine paths as typed | trees are sound, deleted files stay deleted, failures leave nothing, but for a write to a path with an ending |
| `filesystem_cache` | two clicks | *violated*: a click during loading replaces the module and its files (finding 4) |
| `memory_fs` | names `a` and `b`, three nodes besides the root, four paths up to three names long, a table of two chains, two descriptors; writes of two pieces, reads, seeks, all four modes | the name table agrees with the directories; every call returns and leaves what the abstract file system does |
| `memory_fs_into_itself` | the same without streams, `b` beginning with a dot | *violated*: a directory is moved into itself (finding 5) |

Bounds. *Heap*: one table besides the globals is enough for finalizable
garbage, for a table that refers to itself and for one reached only through a
closure or a suspended coroutine; the count of blocks passes through
every relation of count to threshold, at the limit included, and below zero once
decoded codes have been freed; byte code is loaded apart from tables and strings,
which its codes do not differ in. *Coroutines*:
seven slots hold three nested calls, of which any may be native, and make the
overflow check fail at each depth; three coroutines give a cursor with a
coroutine before it, one after it and one made or freed meanwhile. Symmetry is
used only in runs without liveness, over addresses that the model compares for
equality and nothing else. *Scheduler*: `MaxThreads` is 9 in the code (all its
known tasks) and 4 here; four threads are enough for a removal from the middle
of a queue, ties and several rounds. `TimeCap` is 1000 in the code, where the
tasks that can be asked for never reach it; 12 lets half of the simulations
finish and cuts the others, so that both exits of the loop are checked.

*Unit*: five keys overflow a vector of 4 and collide at both sizes; a vector of 8
is full only with eight keys, and shrinks only if at most two of them have a
value, hence `Bounded`. One value is enough, since
`SetExact` and `Implements` compare every key, with its value or without.

*Filesystem*: three clicks are enough to load a second instance, move `/demo`
away and work on what is left, or to delete a default file and write another;
the invariants look one call further. Of the nine paths three are there at first
(the directory `/demo`, one below it, a default file); the others are `/a`,
`/a/.b` and `/a/.b/c`, the first two also with an ending, so that a directory can
be made by a write that fails, entered under the name `.`, and moved into itself.

*File system*: three nodes are enough for a directory with an entry that is
renamed over another, empty or not, and for a node that moves between chains;
with two chains nodes of different parents and names share one. Bytes and streams
multiply the states, so `Small` bounds them by the number of nodes ever made: with
one besides the root, files of up to 4 bytes on one stream and of up to 2 on two;
with two, both streams and files of one byte, enough for a file that is renamed
over an open one, for a new file beside the old bytes of its name, and for a file
made when no descriptor is left; with three, one stream and no bytes. An array
grows from 4 bytes on, by doubling below 2 and by an eighth above, so a file of
one byte, a seek beyond its end and a write leave a gap inside an array that is
not full. `VIEW` leaves the last result
out of a state, which no later call looks at; `Implements` compares the results
of every step all the same.

Deadlock is checked in every run: a vm that is closed, an exited process and a
finished host stutter explicitly (`Over`, `Closed`).

Each property of a passing run has a mutant in `PROJECT.json`: a plausible bug
in one mapped definition (defined just before it, under a "Mutated" comment)
that makes TLC find the property violated.

## 4. Fairness

* `HeapSpec` of MCHeap: the collector runs inside the call that starts it, with
  nothing to wait for, hence `WF_vars(CollectorRuns)`. A finalizer is a script
  and may loop; that it returns (`WF_vars(DelReturn)`) is an assumption. With
  `"rearm"` in `DelMay` two objects can keep a collection going for ever; the
  runs exclude it.
* `LoopSpec` of MCCoroutine: the host's loop is a plain loop, hence
  `WF_vars(Loop)`. That the slice of a coroutine ends, by a yield, a return or
  an error, is an assumption about the script: `WF_vars(Suspend)`.
* The others need none: their properties are about what has been reached.

## 5. What is proved

All theorems hold for every value of the constants that the named assumptions of
the modules allow; TLC evaluates those assumptions in each run.

### The heap

`LosuHeapProofs`: `TypeCorrect` (`TypeOK`), and, if `"store"` and `"drop"` are not
in `DelMay`, `HeapSound` (`HeapInv`) and `NothingDangles` (`NoDangling`).
`NoDangling` is not inductive: that a sweep frees nothing in use depends on what
the marks meant when marking ended, and on what finalizers did since. The
strengthening is `HeapInv`, checked by the run `heap`:

* `ControlInv` – where control can be: a coroutine runs only in the loop, the
  main stack is empty there, a collection implies `vm->gc`;
* `FreshInv` – unallocated memory and strings refer to nothing;
* `MarkedInv` – marks are on live objects of pools not yet swept, and there are
  none between collections (unless an error left `vm->gc` set);
* `GreyInv` – while marking: roots are marked, marked objects that are not grey
  have their references marked;
* `KeptInv` – after marking: what the collection will leave (`Kept`) contains
  the roots and is closed under reference.

The second half is about collections. `BlocksCounted` (`Accounting`) follows
the counter through every allocation and sweep by the cardinalities of what is
added and removed, less what the decoder has left out (`decoded`), and needs that a coroutine runs only in the loop (`CurInv`).
`MarksReachable` (`MarkExact`): `Reach` is the least set that contains the roots
and is closed under reference, so one inclusion is that marking stays inside
every such set (`MarkInv`) and the other that at its end the marks are such a
set; that strings keep no references (`StrInv`) lets marking skip them.
`CloseFreesAll` (`ClosedEmptyOrWedged`) and `FinalizedFirst`
(`FinalizedBeforeFreed`) rest on `EndInv`: no finalizer is left when the sweep of
the tables begins. `RaiseWedges` (`Wedged`) says what an error in a finalizer
costs; `FinalizesGarbage` (`OnlyGarbageFinalized`) combines `HeapInv` with the
minimality of `Reach`; it is about the collections of `losu_gc_newtask`, since
`vm_close` finalizes without marking.

### The coroutines

`LosuCoroutineLoop`: `CursorStays` (`CursorInPool`), `LoopForgetsNone`
(`NoneForgotten`) and `PassesAreFair` (`OneTurnEach`), from `LoopInv`: the pool
lists once each coroutine there is (`Pooled`); the one that runs is the one the
host is at (`AtCursor`); a pass that has found nothing to run has left nothing
behind it that could run (`PassOver`); and what was awaited since a coroutine last
ran lies between it and the place of the host, in the order of the pool taken as a
ring (`Turns`). The collector keeps the order of the
coroutines it leaves: `InOrder` picks the numbers of a set in order, which
exist and are unique (`OrderExists`, `OrderUnique`).

`LosuCoroutineCalls`: `TypesHold` (`TypeOK`), `YieldIsRight` (`YieldAllowed`) and
`ContextsStayHeld` (`ContextsHeld`). `CallInv` ties the two records of the calls
of a coroutine: the slots of its stack that hold a context (`Marks`) are the
slots of the functions of its activations, in order, with room for each frame
(`CallsMarked`); a context is in one slot of one coroutine, is allocated and says
which slot it is in (`MarksSound`), which a collection keeps since it spares what
is in a slot of a coroutine that has not ended; and `vm->yield` and the values that the
activations restore say whether native code is below them (`YieldSound`).
`RecalledIs` is the heart of it: following the links of a suspended
coroutine from its first slot ends, and gives an activation for each mark.

The same module has `CallsKeptAcrossYields` (`Implements`). Under the two
invariants the mapping `FramesOf` is a sequence of calls known element by element:
one for each activation while the coroutine runs (`RunFrames`), one for each slot
with a context while it is suspended (`HeldFrames`), none otherwise (`OtherCalls`).
`OneMoves` says that a step that leaves the stacks of the others, and the result
counts of their contexts, alone changes one coroutine's calls at most. One lemma
for each action then maps it (`MapsCall`, `MapsReturn`, `MapsYield`, …). The
interesting one is `MapsResume`: what the recall makes of the links in the
contexts are the calls that the yield put aside.

### The hash table of a unit

`LosuUnitProofs`: `FreePointerHolds` (`TypeOK`), `ChainsHold` (`ChainsSound`),
`RehashFitsHolds` (`RehashFits`), `SetExactHolds` (`SetExact`) and `TableIsMap`
(`Implements`), for every set of keys, every way they collide and every size. None
of the properties is inductive, since they speak of chains that are walked from a
hash and of loops that end when the table is rehashed. The invariant `UnitInv`
speaks of the nodes alone:

* `Chained` – links go between used nodes whose keys have the same home, and never
  to the home (`Links`); a node has one node before it at most (`OneBefore`), and
  one if it is not at home (`SomeBefore`); the home of a key that is there holds a
  key that belongs there (`Headed`); the keys differ (`Distinct`); and there is a
  rank that rises along the links (`Ranked`), so that nothing is circular;
* `FreeLeft` – every node above the free pointer is used, a used node below it is
  at home, and a pointer that has run out means that every node is used.

`ChainIs` shows from the first that the walk of the code ends and visits the nodes
that hash there, each once. Placing a key is one of three changes of the links, to
an empty home (`PutMain`), after the one at home (`PutAfter`), or instead of one
that does not belong there and moves to the free node (`PutInstead`); each keeps
`Chained`. The second part says that a node that is moved aside is above the new
pointer, and it is what makes the test for room at the pointer, and not at the home
node, safe. A rehash is a placement for each key, from the last (`Stages`). That
none of them finds the table full again, which would be a rehash inside a rehash, is
counting (`HeldCount`, `Room`): the new size is more than the number of the keys
that have a value. `RehashFits` is what the run shows of it.
The refinement then needs that a loop is at a node that holds its key, and that
the keys it has visited are those in the nodes behind it (`LoopInv`).

Recursive functions are used at the numbers up to a bound; the proofs show first
that the function exists (`WalkExists`, `DoublesExists`), and use the least element
of a set of numbers (`LeastOne`, `UpTo`) in place of induction over a formula.

### The scheduler

`ThreadSchedulerProofs`: `Types` (`TypeOK`), `PlacementHolds` (`Placement`),
`TimesAreExact` (`TimesExact`), `RoundRobinIsBalanced` (`RoundRobinBalanced`),
`StatisticsAreExact` (`StatisticsExact`) and `ShortestFirstIsOptimal`
(`ShortestFirstOptimal`), for any number of threads, any quantum and any cap; the
values of the code are one instance. None of the properties is inductive. The
invariant `Inv` says that there are two sequences, of the ready (R) and of the
ended (D), for which `Sound` holds:

* `Queued` – each list is its sequence (`Listed`: the next pointers go from each of
  its threads to the one after it, and end), the sequences name nobody twice, and
  the state of a thread says where it is;
* `Timed` – the clock is the work done by all threads, and the times of each
  follow from its start and its completion;
* `InTurn`, without preemption – the queue is in the order of the threads, who has
  started comes before who has not, and who has started did so when all that come
  before it had run;
* `Round` and `Fair`, under round robin – the first `b` threads have had one quantum
  more than the rest, or their whole time; the queue is the order of the
  threads, cut after `b` and put together the other way round; a thread that runs is
  the next one; and what has been recorded of starts and completions is what such
  rounds give.

`EnqueueIs`, `RemoveIs`, `SelectIs` say what the list operations do to
the sequence. `ExecuteIs` splits a tick into one that ends a thread, one that ends
a quantum and one that only runs, and each part of `Sound` is kept by each. Fewer
than `MaxThreads + 1` pointers are followed because a sequence without
repetitions is no longer than the number of threads (`QueueIs`).

`ShortestFirstOptimal` needs no exchange of neighbours. The waiting time of all
threads is a sum over pairs of threads: in every order one of the two waits for the
other, and under shortest job first the longer waits for the shorter
(`PairIs`, `ShortestIsLeast`). Sums over all pairs may be taken by rows or by columns
(`GrandSwap`), and in any order (`TotalReordered`).

### The file system in memory

`MemoryFSProofs`: `TypeCorrect` (`TypeOK`), `TableCorrect` (`TableSound`) and
`LookupsCorrect` (`LookupExact`), from the inductive invariant that is the
conjunction of the first two. Chains are sequences; the proofs first show them
equal to sets (`Tabled`: a node is in the chain of a hash once if it is listed
and hashes there, and not otherwise), which each call keeps. `WriteExact`,
`WriteVExact`, `ReadExact` and `ReadVExact` say that the arrays hold what `Files`
promises, for all sizes: a gathered write is one write, a scattered read one
read, a gap reads as zeros.

### The tree of files and the page

`FileTreeProofs`: `MoveExact` and `MoveTree`, what a move leaves where, and that it
leaves a tree. That the ancestors of a path are directories is shown with a
shortest counterexample (`Ancestors`), since nothing says it of a path at once.
`FilesystemPageProofs`: each operation is `Proper` (it makes no files but those it
is asked for, and leaves a tree with no file at `/demo`: `Makes`; and leaves
nothing when it fails, except the directory of a write with an ending,
`WriteFileMakes`), and so is a call of the page (`CallProper`). A directory that
is moved into itself is the removal of a branch (`WithoutBranch`, `LostGood`); `PageInv` adds that an instance
without its default files has had no file at all. Hence `PageTypes` (`TypeOK`),
`NothingComesBack` (`NoResurrection`) and `FailureIsClean`
(`FailureLeavesNothing`), for any paths, clicks and order of loads.

### Model-checked only

Liveness (`CollectionEnds`, `EveryOneRuns`), for which the prover has no rules, and
`Implements` of MemoryFS, whose mapping follows parents to the root and needs an
induction over paths.

## 6. Findings, and behaviour worth knowing

1. An error in `__del__` jumps out of the collector past the code that clears
   `vm->gc` and the marks: no collection ever starts again (`Wedged`), and
   `vm_close` keeps every marked object (`heap_raise_close`).
2. `__del__` runs after marking; an object that it stores in a global is swept
   with the global referring to it (`heap_store`).
3. After a resume inside nested calls the outer contexts' `pc_t` points into
   the C frames the yield ended, until each call returns to its own; a stack
   trace taken meanwhile follows it (`coroutine_trace`).
4. A click while the page still loads the program makes a second instance; the
   one ready last replaces the other with its files (`filesystem_cache`).
5. `FS.rename` refuses a path inside the directory itself by looking whether the
   relative path begins with a dot, as `..` does; a name that begins with a dot
   passes, and the directory becomes its own descendant, which nothing reaches
   any more (`memory_fs_into_itself`, `filesystem.m.js:2562`). The theorems about
   the name table hold all the same.

Other places where a text and the code differ, seen in the models but not given
a run: the dialog of `filesystem.js:252` says a directory is deleted with all
its contents, while `demo_fs_rmdir` refuses; a comment in `demo_fs_write` says
that directories are made recursively, and it makes one level; another that the
default files are made by the first operation of any kind, and only a write, a
mkdir or the demonstration makes them; `losu_objsocde_new` leaves the count of a
code to the compiler ("syntax will do", `objfunc.c`), and `decode.c` does not count
it, while `losu_objscode_free` subtracts it: `nblocks` runs behind by what was ever
decoded and freed, and wraps when there is less than that.

What the page does with unusual paths (`filesystem.js` passes on what is typed): a
write to `/newdir/` or `/a/.` makes the directory before the ending, fails to open
the path, and leaves the directory; a rename to `/a/.` makes an entry that is
called `.`, past which every path that is looked up whole leads; a rename of `/a` to `/a/.b/c` loses `/a` with
all below it (finding 5, from the buttons of the page); reading a directory
succeeds and shows nothing.

Not findings, but modelled as they are: the context of a call that was
recalled, or that an error jumped over, is freed by no return, but by the next
collection that finds it in no slot;
`vm->nblocks` of LosuHeap counts objects and coroutines, not contexts. A
finalizer that raises in `vm_close` ends the process. `yield` is a no-op in the
main script and below native code.

## 7. Not modelled

*Left out for good*: wording and layout of reports, arithmetic of the byte code,
the vendored libraries (layui, CodeMirror). They and six nearly identical copies
of the generated JavaScript are most of the lines of JavaScript of the
repository, so the mapped lines are a small share of them; the C code, which most
of the modules model, is not JavaScript at all.

*Of the virtual machine*: vararg frames, handlers of nested `stack_call`, the
`kill` signal of `vm_panic`, the temporary buffer that a collection shrinks, and
the hash table of the string pool. Strings that the parser makes have a constant
mark, which keeps them through every sweep until a collection finds them in use
and replaces it; `Strs` are strings without. Two hazards have no property: while
`__init__` runs, the object under construction is in C locals and on the stack
only as a parameter (`alu.c:60`), which needs stacks with slots in LosuHeap; an
error in a package leaves `vm->path` (`libvm.c:100`).

*Of the file system*: symbolic links, mounts and devices, `chdir` and the names
`.` and `..` (FilesystemDemo has `.` at the end of a path), directories kept open, `dup`, `mmap`, truncation of an open file, lazily loaded files,
permissions, and streams for both reading and writing, none of which the programs
of the page use.

*Parts without a module*: the compiler (lexer, parser, binder, code generator),
dump and decode of byte code, the libraries, the demonstrations that only report,
and the buttons of the other pages. What would be worth a module next: the
indentation stack of the lexer, and the jump lists and stack level of the code
generator, on which `InFrame` of LosuCoroutine relies; then calls on the main
stack, the construction of objects and the import of packages.
