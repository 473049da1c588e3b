------------------------------ MODULE LosuUnit ------------------------------
(***************************************************************************)
(* The hash table of a unit: a vector of nodes, colliding keys chained     *)
(* through the nodes themselves, a pointer below which the free nodes are. *)
(* A key is never removed: its value becomes null, and the node is reused  *)
(* when the vector is full and all keys are inserted again in a new one.   *)
(***************************************************************************)
EXTENDS Integers, Sequences, FiniteSets, SequencesExt, FiniteSetsExt

CONSTANTS
    Keys,     \* numbers, strings, functions, units: what may be a key
    Hash,     \* the number a key is hashed to
    Values,
    Null,     \* the value of a key that is not there
    NoKey,    \* the key of a free node, null as well
    MinSize   \* the smallest vector, 4 in the code

ASSUME Sizes == MinSize = 4 /\ Hash \in [Keys -> Nat] /\ NoKey \notin Keys
ASSUME Nulls == Null \notin Values

Nil == 0

VARIABLES
    unit,    \* the table: size, node, free
    at,      \* the key that a loop over it is at, kept on the stack
    strict,  \* history: the body has set no key but those that have a value,
             \* and has not deleted the one it is at
    seen     \* history: the keys the loop has visited, while it has

vars == <<unit, at, strict, seen>>

FreeNode == [key |-> NoKey, val |-> Null, next |-> Nil]

(* __losu_objunit_setvector                                                *)
Vector(size) == [size |-> size, free |-> size, node |-> [i \in 1..size |-> FreeNode]]

MainKey(T, k) == 1 + (Hash[k] % T.size)

(* The nodes of the chain that starts at node i.                           *)
Chain(T, i) ==
    LET within[n \in 0..T.size] ==
            IF n = 0 THEN {i}
            ELSE (UNION {{j, T.node[j].next} : j \in within[n-1]}) \ {Nil}
    IN  within[T.size]

(* The node of a key, which is where losu_objunit_get* and _set look first.*)
NodeOf(T, k) ==
    LET here == {i \in Chain(T, MainKey(T, k)) : T.node[i].key = k}
    IN  IF here = {} THEN Nil ELSE CHOOSE i \in here : TRUE

Get(T, k) == LET i == NodeOf(T, k) IN IF i = Nil THEN Null ELSE T.node[i].val

-----------------------------------------------------------------------------
(* Mutated Place: the chain of the key that moves is not led to its new    *)
(* node.                                                                   *)
PlaceUnlinked(T, k) ==
    LET mp == MainKey(T, k)
        n == T.free
    IN  CASE T.node[mp].key = NoKey ->
                [at |-> mp, node |-> [T.node EXCEPT ![mp].key = k]]
          [] T.node[mp].key # NoKey /\ mp > n /\ MainKey(T, T.node[mp].key) # mp ->
                [at |-> mp, node |-> [T.node EXCEPT ![n] = T.node[mp],
                                                    ![mp].next = Nil, ![mp].key = k]]
          [] OTHER ->
                [at |-> n, node |-> [T.node EXCEPT ![n].next = T.node[mp].next,
                                                   ![mp].next = n, ![n].key = k]]

(* Put a new key in a node.  If its main node is taken by a key that       *)
(* belongs elsewhere, that one moves to the free node, and its value stays *)
(* behind as well; if not, the new key goes to the free node.              *)
Place(T, k) ==
    LET mp == MainKey(T, k)
        n == T.free
        other == MainKey(T, T.node[mp].key)
        before == CHOOSE i \in Chain(T, other) : T.node[i].next = mp
    IN  CASE T.node[mp].key = NoKey ->
                [at |-> mp, node |-> [T.node EXCEPT ![mp].key = k]]
          [] T.node[mp].key # NoKey /\ mp > n /\ other # mp ->
                [at |-> mp, node |-> [T.node EXCEPT ![before].next = n, ![n] = T.node[mp],
                                                    ![mp].next = Nil, ![mp].key = k]]
          [] OTHER ->
                [at |-> n, node |-> [T.node EXCEPT ![n].next = T.node[mp].next,
                                                   ![mp].next = n, ![n].key = k]]

(* Mutated Lowered: past a node that is still free.                        *)
LoweredAlways(T) ==
    LET below == {i \in 1..T.free-1 : T.node[i].key = NoKey}
    IN  [T EXCEPT !.free = IF below = {} THEN 1 ELSE Max(below)]

(* The free pointer moves down to a free node; there may be none.          *)
Lowered(T) ==
    LET below == {i \in 1..T.free : T.node[i].key = NoKey}
    IN  [T EXCEPT !.free = IF below = {} THEN 1 ELSE Max(below)]

Full(T) == T.node[T.free].key # NoKey

(* losu_objunit_set up to the point where the table is full: the table and *)
(* the node that is the key's.                                             *)
Slot(T, k) ==
    LET p == Place(T, k)
    IN  IF NodeOf(T, k) # Nil THEN [at |-> NodeOf(T, k), unit |-> T]
        ELSE [at |-> p.at, unit |-> Lowered([T EXCEPT !.node = p.node])]

Assigned(s, v) == [s.unit EXCEPT !.node[s.at].val = v]

(* Mutated NewSize: it doubles too late.                                   *)
NewSizeLate(T) ==
    LET used == Cardinality({i \in 1..T.size : T.node[i].val # Null})
    IN  IF used > T.size - T.size \div 4 THEN 2 * T.size
        ELSE IF used <= T.size \div 4 /\ T.size > MinSize THEN T.size \div 2
        ELSE T.size

(* What has a value, stale ones included, takes less than three quarters   *)
(* of the new vector.                                                      *)
NewSize(T) ==
    LET used == Cardinality({i \in 1..T.size : T.node[i].val # Null})
    IN  IF used >= T.size - T.size \div 4 THEN 2 * T.size
        ELSE IF used <= T.size \div 4 /\ T.size > MinSize THEN T.size \div 2
        ELSE T.size

(* __losu_objunit_rehash: the new vector after the first n nodes of the    *)
(* old one; what has a value is inserted, in their order.  (RehashFits: it *)
(* is never full meanwhile.)                                               *)
Moved(T) ==
    LET moved[n \in 0..T.size] ==
            IF n = 0 THEN Vector(NewSize(T))
            ELSE IF T.node[n].val = Null THEN moved[n-1]
            ELSE Assigned(Slot(moved[n-1], T.node[n].key), T.node[n].val)
    IN  moved

Rehash(T) == Moved(T)[T.size]

(* Mutated SetSlot: after a rehash, the node the key had before.           *)
SetSlotStale(T, k) ==
    LET s == Slot(T, k)
    IN  IF Full(s.unit) /\ NodeOf(T, k) = Nil
        THEN [at |-> s.at, unit |-> Rehash(s.unit)] ELSE s

(* losu_objunit_set: the table after it, and the node it returns the value *)
(* of, in the new vector if there is one.                                  *)
SetSlot(T, k) ==
    LET s == Slot(T, k)
    IN  IF Full(s.unit) /\ NodeOf(T, k) = Nil THEN Slot(Rehash(s.unit), k) ELSE s

(* losu_objunit_getnext: the first node from i on whose value is not null. *)
NextFrom(T, i) ==
    LET rest == {j \in i..T.size : T.node[j].val # Null}
    IN  IF rest = {} THEN Nil ELSE Min(rest)

(* Mutated Following: one node too far.                                    *)
FollowingSkips(T, k) == IF Get(T, k) = Null THEN Nil ELSE NextFrom(T, NodeOf(T, k) + 2)

(* The node after that of k; none if the value of k is null by now.        *)
Following(T, k) == IF Get(T, k) = Null THEN Nil ELSE NextFrom(T, NodeOf(T, k) + 1)

-----------------------------------------------------------------------------
(* losu_objunit_new asks for a power of 2 above the size it is given.      *)
Init ==
    /\ unit \in {Vector(MinSize), Vector(2 * MinSize)}
    /\ at = NoKey /\ strict = TRUE /\ seen = {}

(* SETUNIT, SETLIST, SETMAP, SETGLOBAL, obj_unitset: store v at once where *)
(* losu_objunit_set says.  A null key, or a boolean, is an error.          *)
Set(k, v) ==
    /\ unit' = Assigned(SetSlot(unit, k), v)
    /\ strict' = (strict /\ (at # NoKey => Get(unit, k) # Null /\ (v = Null => k # at)))
    /\ seen' = IF strict' THEN seen ELSE {}
    /\ UNCHANGED at

Arrive(i) ==
    /\ at' = unit.node[i].key
    /\ seen' = IF strict THEN seen \cup {at'} ELSE {}
    /\ UNCHANGED <<unit, strict>>

(* FORINPREP: from the first node, or past the loop if there is none.      *)
ForInPrep ==
    /\ at = NoKey
    /\ NextFrom(unit, 1) # Nil
    /\ Arrive(NextFrom(unit, 1))

(* FORINNEXT, with the key that the last one left on the stack.  (The body *)
(* does not assign to the loop's variables.)                               *)
ForInNext ==
    /\ at # NoKey
    /\ LET i == Following(unit, at)
       IN  IF i # Nil THEN Arrive(i)
           ELSE at' = NoKey /\ strict' = TRUE /\ seen' = {} /\ UNCHANGED unit

Next ==
    \/ \E k \in Keys, v \in Values \cup {Null} : Set(k, v)
    \/ ForInPrep \/ ForInNext

Spec == Init /\ [][Next]_vars

-----------------------------------------------------------------------------
Contents(T) == [k \in Keys |-> Get(T, k)]
Used(T) == {i \in DOMAIN T.node : T.node[i].key # NoKey}

(* Vectors double and halve: their sizes are those that MinSize doubles to *)
(* (and a hash is cut to them with a mask, in the code).                   *)
Doubled[n \in Nat] == IF n = 0 THEN MinSize ELSE 2 * Doubled[n-1]
IsSize(m) == \E n \in 0..m : m = Doubled[n]

(* The values each variable takes; the free pointer is at a free node, and *)
(* there is none above it.                                                 *)
TypeOK ==
    /\ IsSize(unit.size)
    /\ unit.node \in [1..unit.size -> [key : Keys \cup {NoKey}, val : Values \cup {Null},
                                       next : 0..unit.size]]
    /\ unit.free \in 1..unit.size
    /\ unit.free \notin Used(unit) /\ unit.free+1..unit.size \subseteq Used(unit)
    /\ at \in Keys \cup {NoKey} /\ seen \subseteq Keys /\ strict \in BOOLEAN

(* Every key is in the chain of its own main node, once in the table, and  *)
(* no chain has a cycle: whatever has been moved, a lookup ends, and finds *)
(* the key if it is there.                                                 *)
ChainsSound ==
    /\ \A i \in Used(unit) : NodeOf(unit, unit.node[i].key) = i
    /\ \A i \in DOMAIN unit.node : LET next == unit.node[i].next
                                 IN  next # Nil => i \notin Chain(unit, next)
    /\ \A i \in DOMAIN unit.node \ Used(unit) : unit.node[i] = FreeNode

(* A rehash leaves room for what it inserts and for the key that was being *)
(* set: losu_objunit_set calls itself once at most, and no rehash starts   *)
(* within a rehash.                                                        *)
RehashFits == \A k \in Keys :
    LET s == Slot(unit, k)
    IN  NodeOf(unit, k) = Nil /\ Full(s.unit) =>
            \A n \in 0..s.unit.size :
                LET T == Moved(s.unit)[n]
                IN  ~Full(T) /\ ~Full(Slot(T, k).unit)

(* A table maps keys to values, and a loop over it visits each key once,   *)
(* wherever the nodes are and whenever the vector was replaced.            *)
Map == INSTANCE UnitMap WITH map <- Contents(unit)
Implements == Map!Spec

(* Assigning to one key changes the value of no other, not even when the   *)
(* node of another key moves or the vector is replaced by a smaller one.   *)
SetExact ==
    [][\A k \in Keys, v \in Values \cup {Null} :
          Set(k, v) => Contents(unit') = [Contents(unit) EXCEPT ![k] = v]]_vars
=============================================================================
