-------------------------- MODULE ThreadScheduler --------------------------
(***************************************************************************)
(* The thread-scheduling demonstration: a simulated machine with one       *)
(* processor, a ready queue and a terminated queue kept as linked lists,   *)
(* and four ways to choose the next thread.  The scheduler is one global   *)
(* variable that outlives a simulation: the next one starts from it.       *)
(***************************************************************************)
EXTENDS Integers, Sequences, FiniteSets, SequencesExt, FiniteSetsExt

CONSTANTS
    Algorithms, \* the algorithms asked for
    Quantum,    \* the time quantum of round robin, 2 in the code
    MaxThreads, \* bound: threads in one simulation, at least 3, 9 in the code
    TimeCap     \* the loop gives up after this many slices, 1000 in the code

ASSUME Parameters ==
    /\ Algorithms \subseteq {"FCFS", "SJF", "RR", "PRIORITY"}
    /\ Quantum \in Nat \ {0} /\ TimeCap \in Nat /\ MaxThreads \in Nat /\ MaxThreads >= 3

Nil == 0
Threads == 1..MaxThreads

Task(priority, burst) == [priority |-> priority, burst |-> burst]

(* What parse_code_for_scheduling makes of the words of a program: the     *)
(* tasks it knows, and those it falls back on.                             *)
KnownTasks ==
    <<Task(1, 4), Task(2, 3), Task(1, 2),  \* task_a, task_b, task_c
      Task(5, 2), Task(3, 4), Task(1, 6),  \* high_, medium_, low_priority
      Task(0, 2), Task(0, 8), Task(0, 4)>> \* short_, long_, medium_task
DefaultTasks == <<Task(1, 3), Task(2, 4), Task(1, 2)>>
Named(K) ==
    LET found[n \in 0..Len(KnownTasks)] ==
            IF n = 0 THEN <<>>
            ELSE IF n \in K THEN Append(found[n-1], KnownTasks[n]) ELSE found[n-1]
    IN  found[Len(KnownTasks)]

(* The name of a task with a priority contains the word that asks for      *)
(* priority scheduling, which the parser looks for before round robin.     *)
Parsed ==
    LET known == {K \in SUBSET DOMAIN KnownTasks :
                    K # {} /\ Cardinality(K) <= MaxThreads}
        unranked == {K \in known : K \cap 4..6 = {}}
    IN  ((Algorithms \ {"RR"}) \X {Named(K) : K \in known})
        \cup ((Algorithms \cap {"RR"}) \X {Named(K) : K \in unranked})
        \cup (Algorithms \X {DefaultTasks})

(* The demonstrations that parse nothing.                                  *)
Demos ==
    {<<"FCFS", <<Task(0, 4), Task(0, 3), Task(0, 2)>> >>,
     <<"SJF", <<Task(0, 2), Task(0, 8), Task(0, 4)>> >>,
     <<"PRIORITY", <<Task(1, 6), Task(5, 2), Task(3, 4)>> >>,
     <<"RR", <<Task(0, 5), Task(0, 3), Task(0, 4)>> >>}

VARIABLES
    pc,     \* "idle"; "run" in run_scheduling_simulation; "done" after it
    sched,  \* g_scheduler
    thr,    \* the threads of this simulation
    stats   \* the totals calculate_statistics takes its averages of

vars == <<pc, sched, thr, stats>>

-----------------------------------------------------------------------------
(* Queues: the first thread of a list, and a next pointer in each.         *)

(* The list that starts at head; a cycle shows as one thread too many.     *)
Chain(T, head) ==
    LET at[n \in 0..MaxThreads] ==
            IF n = 0 THEN head ELSE IF at[n-1] = Nil THEN Nil ELSE T[at[n-1]].next
        length == Cardinality({n \in 0..MaxThreads : at[n] # Nil})
    IN  [i \in 1..length |-> at[i-1]]

(* Mutated Enqueue: the thread keeps the next pointer it came with.        *)
EnqueueKeepsNext(T, head, t) ==
    IF head = Nil
    THEN [head |-> t, thr |-> T]
    ELSE [head |-> head, thr |-> [T EXCEPT ![Last(Chain(T, head))].next = t]]

Enqueue(T, head, t) ==
    IF head = Nil
    THEN [head |-> t, thr |-> [T EXCEPT ![t].next = Nil]]
    ELSE [head |-> head,
          thr |-> [T EXCEPT ![Last(Chain(T, head))].next = t, ![t].next = Nil]]

Dequeue(T, head) ==
    IF head = Nil
    THEN [t |-> Nil, head |-> Nil, thr |-> T]
    ELSE [t |-> head, head |-> T[head].next, thr |-> [T EXCEPT ![head].next = Nil]]

(* remove_thread_from_queue: the thread removed keeps its next pointer.    *)
RemoveThread(T, head, t) ==
    IF head = t
    THEN [t |-> t, head |-> T[t].next, thr |-> T]
    ELSE LET before == CHOOSE u \in Range(Chain(T, head)) : T[u].next = t
         IN  [t |-> t, head |-> head, thr |-> [T EXCEPT ![before].next = T[t].next]]

-----------------------------------------------------------------------------
(* Choosing the next thread.                                               *)

(* The first thread of a queue that is at least as good as every other.    *)
FirstBest(q, Better(_, _)) ==
    q[CHOOSE i \in DOMAIN q :
        /\ \A j \in DOMAIN q : ~Better(q[j], q[i])
        /\ \A j \in 1..i-1 : Better(q[i], q[j])]

(* Mutated Shorter: the scan looks for the longest.                        *)
ShorterSwapped(T, t, u) == T[t].remaining > T[u].remaining

Shorter(T, t, u) == T[t].remaining < T[u].remaining
Higher(T, t, u) == T[t].priority > T[u].priority

SelectNext(alg, T, head) ==
    CASE head = Nil -> Dequeue(T, head)
      [] alg = "SJF" /\ head # Nil ->
            RemoveThread(T, head, FirstBest(Chain(T, head), LAMBDA t, u : Shorter(T, t, u)))
      [] alg = "PRIORITY" /\ head # Nil ->
            RemoveThread(T, head, FirstBest(Chain(T, head), LAMBDA t, u : Higher(T, t, u)))
      [] OTHER -> Dequeue(T, head)

-----------------------------------------------------------------------------
(* A scheduler after init_scheduler, and a thread after create_thread.     *)

Fresh(alg) ==
    [algorithm |-> alg, ready |-> Nil, terminated |-> Nil,
     running |-> Nil, now |-> 0, slice |-> 0, switches |-> 0]

Created(task, time) ==
    [state |-> "NEW", priority |-> task.priority, burst |-> task.burst,
     remaining |-> task.burst, arrival |-> time, start |-> -1, completion |-> -1,
     waiting |-> 0, turnaround |-> 0, response |-> -1, next |-> Nil]

NoStats == [count |-> 0, turnaround |-> 0, waiting |-> 0, response |-> 0, cpu |-> 0]

(* add_thread_to_scheduler, for each thread in turn.                       *)
Enrolled(s, T) ==
    LET Add(e, t) == Enqueue([e.thr EXCEPT ![t].state = "READY"], e.head, t)
        added[n \in 0..Len(T)] ==
            IF n = 0 THEN [head |-> s.ready, thr |-> T] ELSE Add(added[n-1], n)
    IN  added[Len(T)]

Start(s, T) ==
    LET e == Enrolled(s, T) IN
    /\ pc' = "run"
    /\ sched' = [s EXCEPT !.ready = e.head]
    /\ thr' = e.thr
    /\ stats' = NoStats

Init ==
    /\ pc = "idle" /\ sched = Fresh("FCFS") /\ thr = <<>> /\ stats = NoStats

(* demo_fcfs, demo_sjf, demo_priority, demo_round_robin: the scheduler is  *)
(* reset, then the threads are created.                                    *)
Demo(alg, tasks) ==
    /\ pc # "run"
    /\ Start(Fresh(alg), [i \in DOMAIN tasks |-> Created(tasks[i], 0)])

(* Mutated ThreadDemo: the threads keep the arrival time they were given   *)
(* before the scheduler was reset.                                         *)
ThreadDemoKeepsArrival(alg, tasks) ==
    /\ pc # "run"
    /\ Start(Fresh(alg), [i \in DOMAIN tasks |-> Created(tasks[i], sched.now)])

(* thread_demo: the threads are created, on the clock the last simulation  *)
(* left, then the scheduler is reset and their arrival set to 0.           *)
ThreadDemo(alg, tasks) ==
    LET created == [i \in DOMAIN tasks |-> Created(tasks[i], sched.now)]
    IN  /\ pc # "run"
        /\ Start(Fresh(alg),
                 [i \in DOMAIN tasks |-> [created[i] EXCEPT !.arrival = 0]])

-----------------------------------------------------------------------------
(* execute_time_slice, in its two halves.                                  *)

AtLeast0(x) == IF x < 0 THEN 0 ELSE x

Dispatch(s, T) ==
    LET next == SelectNext(s.algorithm, T, s.ready)
        t == next.t
        first == T[t].start = -1
    IN  IF s.running # Nil \/ t = Nil
        THEN [sched |-> s, thr |-> T]
        ELSE [sched |-> [s EXCEPT !.ready = next.head, !.running = t, !.slice = 0,
                                  !.switches = @ + 1],
              thr |-> [next.thr EXCEPT ![t].state = "RUNNING",
                         ![t].start = IF first THEN s.now ELSE @,
                         ![t].response = IF first
                                         THEN AtLeast0(s.now - T[t].arrival) ELSE @]]

(* The running thread has used up its time.                                *)
Complete(s, T) ==
    LET t == s.running
        turnaround == s.now + 1 - T[t].arrival
        e == Enqueue([T EXCEPT ![t].state = "TERMINATED",
                               ![t].completion = s.now + 1,
                               ![t].turnaround = turnaround,
                               ![t].waiting = AtLeast0(turnaround - T[t].burst)],
                     s.terminated, t)
    IN  [sched |-> [s EXCEPT !.terminated = e.head, !.running = Nil], thr |-> e.thr]

(* Mutated UseQuantum: the quantum is over one slice late.                 *)
UseQuantumLate(s, T) ==
    LET t == s.running
        e == Enqueue([T EXCEPT ![t].state = "READY"], s.ready, t)
    IN  IF s.slice + 1 > Quantum
        THEN [sched |-> [s EXCEPT !.ready = e.head, !.running = Nil, !.slice = 0],
              thr |-> e.thr]
        ELSE [sched |-> [s EXCEPT !.slice = @ + 1], thr |-> T]

(* Round robin: the running thread has used one more slice of its quantum. *)
UseQuantum(s, T) ==
    LET t == s.running
        e == Enqueue([T EXCEPT ![t].state = "READY"], s.ready, t)
    IN  IF s.slice + 1 >= Quantum
        THEN [sched |-> [s EXCEPT !.ready = e.head, !.running = Nil, !.slice = 0],
              thr |-> e.thr]
        ELSE [sched |-> [s EXCEPT !.slice = @ + 1], thr |-> T]

(* Mutated Execute: the thread ends one slice late, with < for <=.         *)
ExecuteLate(s, T) ==
    LET t == s.running
        U == [T EXCEPT ![t].remaining = @ - 1]
    IN  CASE t = Nil -> [sched |-> s, thr |-> T]
          [] t # Nil /\ U[t].remaining < 0 -> Complete(s, U)
          [] t # Nil /\ U[t].remaining >= 0 /\ s.algorithm = "RR" -> UseQuantum(s, U)
          [] OTHER -> [sched |-> s, thr |-> U]

Execute(s, T) ==
    LET t == s.running
        U == [T EXCEPT ![t].remaining = @ - 1]
    IN  CASE t = Nil -> [sched |-> s, thr |-> T]
          [] t # Nil /\ U[t].remaining <= 0 -> Complete(s, U)
          [] t # Nil /\ U[t].remaining > 0 /\ s.algorithm = "RR" -> UseQuantum(s, U)
          [] OTHER -> [sched |-> s, thr |-> U]

(* Mutated Tick: the clock stands still when a thread ends.                *)
TickSkipsEnd(s, t) == IF s.running = Nil THEN s ELSE [s EXCEPT !.now = @ + 1]

Tick(s, t) == [s EXCEPT !.now = @ + 1]

(* What the numbers of a sequence add up to.                               *)
Total(numbers) ==
    LET sum[n \in 0..Len(numbers)] == IF n = 0 THEN 0 ELSE sum[n-1] + numbers[n]
    IN  sum[Len(numbers)]

(* calculate_statistics, over the terminated queue.                        *)
Totals(s, T) ==
    LET over == Chain(T, s.terminated)
    IN  [count |-> Len(over),
         turnaround |-> Total([i \in DOMAIN over |-> T[over[i]].turnaround]),
         waiting |-> Total([i \in DOMAIN over |-> T[over[i]].waiting]),
         response |-> Total([i \in DOMAIN over |-> T[over[i]].response]),
         cpu |-> Total([i \in DOMAIN over |-> T[over[i]].burst])]

(* The loop's condition and its guard against going on for ever.           *)
Over(s) == s.now > TimeCap \/ (s.ready = Nil /\ s.running = Nil)

(* execute_time_slice.                                                     *)
ExecuteTimeSlice(s, T) ==
    LET d == Dispatch(s, T)
        e == Execute(d.sched, d.thr)
    IN  [sched |-> Tick(e.sched, d.sched.running), thr |-> e.thr]

(* One turn of the loop of run_scheduling_simulation.                      *)
Slice ==
    /\ pc = "run"
    /\ \E r \in {ExecuteTimeSlice(sched, thr)} :
          /\ sched' = r.sched
          /\ thr' = r.thr
          /\ pc' = IF Over(r.sched) THEN "done" ELSE "run"
          /\ stats' = IF Over(r.sched) THEN Totals(r.sched, r.thr) ELSE stats

Next ==
    \/ \E asked \in {d \in Demos : d[1] \in Algorithms} : Demo(asked[1], asked[2])
    \/ \E asked \in Parsed : ThreadDemo(asked[1], asked[2])
    \/ Slice

Spec == Init /\ [][Next]_vars

-----------------------------------------------------------------------------
(* The values each variable takes; no time is negative, no thread is left  *)
(* with less than nothing to do.                                           *)
TypeOK ==
    /\ pc \in {"idle", "run", "done"}
    /\ sched \in [algorithm : Algorithms \cup {"FCFS"},
                  ready : Threads \cup {Nil}, terminated : Threads \cup {Nil},
                  running : Threads \cup {Nil}, now : Nat, slice : Nat, switches : Nat]
    /\ \A t \in DOMAIN thr :
          /\ thr[t].state \in {"READY", "RUNNING", "TERMINATED"}
          /\ thr[t].remaining \in Nat /\ thr[t].next \in Threads \cup {Nil}
          /\ thr[t].response \in Nat \cup {-1}
    /\ \A k \in DOMAIN stats : stats[k] \in Nat

Ids == DOMAIN thr
ReadyQ == Chain(thr, sched.ready)
TerminatedQ == Chain(thr, sched.terminated)
Done(t) == thr[t].burst - thr[t].remaining
Ended == pc = "done" /\ Len(TerminatedQ) = Len(thr)

(* No next pointer, stale or not, loses or duplicates a thread: each is in *)
(* one place, the one its state names.                                     *)
Placement ==
    LET places == ReadyQ \o TerminatedQ
                  \o (IF sched.running = Nil THEN <<>> ELSE <<sched.running>>)
    IN  /\ Len(places) = Len(thr) /\ Range(places) = Ids
        /\ \A t \in Ids : CASE thr[t].state = "READY" -> t \in Range(ReadyQ)
                            [] thr[t].state = "RUNNING" -> t = sched.running
                            [] OTHER -> t \in Range(TerminatedQ)

(* Under round robin the clock hands out quanta fairly: two threads that   *)
(* are not finished never differ by more than one quantum of work.         *)
RoundRobinBalanced ==
    sched.algorithm = "RR" =>
        \A t, u \in {v \in Ids : thr[v].remaining > 0} :
            Done(t) - Done(u) <= Quantum

(* A thread that starts has waited for one quantum at most of each thread  *)
(* before it in the queue; the others run their full time before it.       *)
Ahead(t) ==
    {u \in Ids : CASE sched.algorithm = "SJF" ->
                        \/ thr[u].burst < thr[t].burst
                        \/ thr[u].burst = thr[t].burst /\ u < t
                   [] sched.algorithm = "PRIORITY" ->
                        \/ thr[u].priority > thr[t].priority
                        \/ thr[u].priority = thr[t].priority /\ u < t
                   [] OTHER -> u < t}
Share(u) == IF sched.algorithm = "RR" THEN Min({Quantum, thr[u].burst})
            ELSE thr[u].burst
SumOver(S, f) == Total([t \in Ids |-> IF t \in S THEN f[t] ELSE 0])

(* What another thread runs before t completes under round robin: as many  *)
(* quanta as t needs, or one less if it comes after t.                     *)
RoundsOf(t) == (thr[t].burst + Quantum - 1) \div Quantum
RunsBefore(t, u) ==
    Min({thr[u].burst, Quantum * (IF u < t THEN RoundsOf(t) ELSE RoundsOf(t) - 1)})

(* The response time of a thread is what the threads that the algorithm    *)
(* puts before it use: all their time, or under round robin one quantum.   *)
(* Its waiting time is the time the others ran before it completed: no     *)
(* negative value is ever cut to 0, and nothing is counted twice.  (Under  *)
(* round robin the last thread waits for all the others.)                  *)
TimesExact == \A t \in Ids :
    /\ thr[t].start # -1 =>
          thr[t].response = SumOver(Ahead(t), [u \in Ids |-> Share(u)])
    /\ thr[t].state = "TERMINATED" =>
          /\ thr[t].waiting = thr[t].completion - thr[t].burst
          /\ sched.algorithm # "RR" =>
                thr[t].waiting = SumOver(Ahead(t), [u \in Ids |-> Share(u)])
          /\ sched.algorithm = "RR" =>
                thr[t].waiting = SumOver(Ids \ {t}, [u \in Ids |-> RunsBefore(t, u)])

(* No order of the same threads, run one after the other, has a smaller    *)
(* total waiting time than shortest job first.                             *)
ShortestFirstOptimal ==
    Ended /\ sched.algorithm = "SJF" =>
        \A order \in [Ids -> Ids] :
            IsInjective(order) =>
                stats.waiting <= Total([i \in Ids |-> (Len(thr) - i) * thr[order[i]].burst])

(* The statistics are of the threads that completed, all of them unless    *)
(* the time cap cut the simulation short, and their processor time is no   *)
(* more than the time that has passed.                                     *)
StatisticsExact == pc = "done" =>
    /\ stats.count = Cardinality({t \in Ids : thr[t].remaining = 0})
    /\ stats.turnaround = stats.waiting + stats.cpu
    /\ stats.cpu <= sched.now
    /\ sched.now <= TimeCap => stats.cpu = sched.now /\ stats.count = Len(thr)
=============================================================================
