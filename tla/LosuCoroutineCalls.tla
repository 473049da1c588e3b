------------------------- MODULE LosuCoroutineCalls -------------------------
(***************************************************************************)
(* The calls of a coroutine can be found in its slots and its slots in its *)
(* calls, for any number of coroutines, slots and contexts.                *)
(***************************************************************************)
EXTENDS LosuCoroutineLoop

CtxType == [base : Slots, nres : NResults, next : {0} \cup Slots, pct : {"null", "live", "dead"}]
ActType == [ctx : Contexts \cup {Raw}, func : Slots, nres : NResults, yield : BOOLEAN,
            kind : {"call", "recall"}]

CallTypes ==
    /\ slot \in [Coros -> [Slots -> Contexts \cup {Raw, Value}]]
    /\ top \in [Coros -> 0..NStack-1]
    /\ ctx \in [Contexts -> CtxType] /\ called \subseteq Contexts
    /\ act \in Seq(ActType)

(* The slots of a stack that hold the context of a call.                   *)
Marks(c) == {i \in 1..top[c] : slot[c][i] # Value}

Live(c) == sta[c] \in {"RUN", "YIELD"}

(* The calls of the coroutine that runs are those its stack is marked with.*)
CallsMarked ==
    /\ act = <<>> <=> cur = NoCoro
    /\ cur # NoCoro =>
          /\ act[1].func = 1 /\ act[Len(act)].func <= top[cur]
          /\ \A i, j \in 1..Len(act) : i < j => act[i].func < act[j].func
          /\ \A i \in 1..Len(act) :
                /\ act[i].func + MaxStack < NStack
                /\ slot[cur][act[i].func] = act[i].ctx
                /\ act[i].ctx \in Contexts => ctx[act[i].ctx].nres = act[i].nres
          /\ \A s \in Marks(cur) : \E i \in 1..Len(act) : act[i].func = s

(* Each context is in one slot, and says which.                            *)
MarksSound ==
    /\ \A c \in Coros : sta[c] = "READY" => top[c] >= 1 /\ Marks(c) = {}
    /\ \A c \in Coros : sta[c] = "YIELD" =>
          1 \in Marks(c) /\ \A i \in Marks(c) : slot[c][i] # Raw /\ i + MaxStack < NStack
    /\ \A c \in Coros : Live(c) => \A i \in Marks(c) : slot[c][i] \in Contexts =>
          /\ slot[c][i] \in called /\ ctx[slot[c][i]].base = i + 1
          /\ \A d \in Coros : Live(d) => \A j \in Marks(d) :
                slot[d][j] = slot[c][i] => d = c /\ j = i

YieldSound ==
    /\ yield \in BOOLEAN
    /\ yield <=> cur # NoCoro /\ \A i \in 1..Len(act) : act[i].ctx # Raw
    /\ \A i \in 1..Len(act) : act[i].yield <=> \A j \in 1..Len(act) : j < i => act[j].ctx # Raw

CallInv == CallTypes /\ CallsMarked /\ MarksSound /\ YieldSound

LEMMA CallInit == Init => CallInv
<1> SUFFICES ASSUME Init PROVE CallInv
  OBVIOUS
<1>1. CallTypes
  <2>1. \A x \in Contexts : ctx[x] \in CtxType
    BY Sizes DEF Init, CtxType, Slots, NResults
  <2>2. 0 \in 0..NStack-1 /\ <<>> \in Seq(ActType)
    BY Sizes
  <2> QED  BY <2>1, <2>2 DEF Init, CallTypes
<1>2. 1..Len(act) = {}
  BY DEF Init
<1>3. CallsMarked /\ YieldSound
  BY <1>2 DEF Init, CallsMarked, YieldSound
<1>4. MarksSound
  BY DEF Init, MarksSound, Live
<1> QED  BY <1>1, <1>3, <1>4 DEF CallInv

LEMMA ActIs ==
    ASSUME LoopInv, CallInv, cur # NoCoro
    PROVE  /\ Len(act) \in Nat \ {0} /\ Inner = act[Len(act)] /\ Inner \in ActType
           /\ \A i \in 1..Len(act) : act[i] \in ActType /\ act[i].func \in 1..Inner.func
           /\ cur \in Coros /\ sta[cur] = "RUN" /\ Inner.func \in Slots /\ Inner.func <= top[cur]
           /\ \A s \in Marks(cur) : s <= Inner.func
<1>1. act \in Seq(ActType) /\ act # <<>>
  BY DEF CallInv, CallTypes, CallsMarked
<1>2. Len(act) \in Nat \ {0} /\ \A i \in 1..Len(act) : act[i] \in ActType
  BY <1>1, EmptySeq, LenProperties, ElementOfSeq
<1>3. Len(act) \in 1..Len(act) /\ Inner = act[Len(act)]
  BY <1>2 DEF Inner, Last
<1>4. \A i \in 1..Len(act) : act[i].func \in Slots
  BY <1>2 DEF ActType
<1>5. ASSUME NEW i \in 1..Len(act) PROVE act[i].func \in 1..Inner.func
  <2>1. i = Len(act) \/ i < Len(act)
    BY <1>2
  <2>2. act[i].func = Inner.func \/ act[i].func < Inner.func
    BY <1>3, <2>1 DEF CallInv, CallsMarked
  <2>3. act[i].func \in Slots /\ Inner.func \in Slots
    BY <1>3, <1>4
  <2> QED  BY <2>2, <2>3, Sizes DEF Slots
<1>6. \A s \in Marks(cur) : s <= Inner.func
  <2> SUFFICES ASSUME NEW s \in Marks(cur) PROVE s <= Inner.func
    OBVIOUS
  <2>1. PICK i \in 1..Len(act) : act[i].func = s
    BY DEF CallInv, CallsMarked
  <2>2. s \in 1..Inner.func /\ Inner.func \in Slots
    BY <1>3, <1>4, <1>5, <2>1
  <2> QED  BY <2>2 DEF Slots
<1>7. cur \in Coros /\ sta[cur] = "RUN"
  BY DEF LoopInv, LoopTypes, AtCursor
<1>8. Inner.func \in Slots /\ Inner.func <= top[cur]
  BY <1>3, <1>4 DEF CallInv, CallsMarked
<1> QED  BY <1>2, <1>3, <1>5, <1>6, <1>7, <1>8

-----------------------------------------------------------------------------
(* A context found in the slots of a suspended coroutine is recalled into  *)
(* the activation it was.                                                  *)
LEMMA SlotsFound ==
    ASSUME CallInv, NEW c \in Coros, sta[c] = "YIELD", NEW q, q = ContextSlots(c)
    PROVE  /\ Ordered(q, Marks(c)) /\ Len(q) \in 1..NStack-1 /\ q[1] = 1
           /\ \A n \in 1..Len(q) : /\ q[n] \in Slots /\ q[n] + MaxStack < NStack
                                   /\ slot[c][q[n]] \in Contexts \cap called
                                   /\ ctx[slot[c][q[n]]].base = q[n] + 1
           /\ \A n, m \in 1..Len(q) : slot[c][q[n]] = slot[c][q[m]] => n = m
<1>1. Marks(c) \in SUBSET (1..top[c]) /\ top[c] \in Nat /\ top[c] <= NStack - 1
  BY Sizes DEF Marks, CallInv, CallTypes
<1>2. q = InOrder(Marks(c))
  BY DEF ContextSlots, Marks
<1>3. Ordered(q, Marks(c))
  BY <1>1, <1>2, InOrderIs
<1>4. /\ Len(q) \in Nat /\ q \in Seq(Marks(c)) /\ \A n \in 1..Len(q) : q[n] \in Marks(c)
      /\ \A n, m \in 1..Len(q) : n < m => q[n] < q[m]
  <2>1. q \in Seq(Marks(c))
    BY <1>3 DEF Ordered
  <2> QED  BY <1>3, <2>1, ElementOfSeq, LenProperties DEF Ordered
<1>5. Len(q) <= top[c]
  <2>1. Len(q) = Cardinality(Marks(c)) /\ IsFiniteSet(Marks(c))
    BY <1>1, <1>3, OrderLength
  <2>2. IsFiniteSet(1..top[c]) /\ Cardinality(1..top[c]) = top[c]
    BY <1>1, FS_Interval
  <2> QED  BY <1>1, <2>1, <2>2, FS_Subset
<1>6. \A n \in 1..Len(q) : q[n] \in 1..top[c] /\ q[n] \in Int
  BY <1>1, <1>4
<1>7. PICK k \in 1..Len(q) : q[k] = 1
  BY <1>3 DEF Ordered, CallInv, MarksSound
<1>8. Len(q) \in 1..NStack-1 /\ 1 \in 1..Len(q)
  BY <1>1, <1>4, <1>5, <1>7, Sizes
<1>9. q[1] = 1
  <2>1. k = 1 \/ 1 < k
    BY <1>7
  <2>2. q[1] >= 1 /\ q[1] \in Int
    BY <1>6, <1>8
  <2>3. 1 < k => q[1] < 1
    BY <1>4, <1>7, <1>8
  <2> QED  BY <1>7, <2>1, <2>2, <2>3
<1>10. ASSUME NEW n \in 1..Len(q)
       PROVE  /\ q[n] \in Slots /\ q[n] + MaxStack < NStack
              /\ slot[c][q[n]] \in Contexts \cap called
              /\ ctx[slot[c][q[n]]].base = q[n] + 1
  <2>1. q[n] \in Slots
    BY <1>1, <1>6, Sizes DEF Slots
  <2>2. slot[c][q[n]] \in Contexts \cup {Raw, Value} /\ slot[c][q[n]] # Value
    BY <1>4, <2>1 DEF CallInv, CallTypes, Marks
  <2>3. slot[c][q[n]] # Raw /\ q[n] + MaxStack < NStack
    BY <1>4 DEF CallInv, MarksSound
  <2>4. slot[c][q[n]] \in Contexts /\ Live(c)
    BY <2>2, <2>3 DEF Live
  <2>5. slot[c][q[n]] \in called /\ ctx[slot[c][q[n]]].base = q[n] + 1
    BY <1>4, <2>4 DEF CallInv, MarksSound
  <2> QED  BY <2>1, <2>3, <2>4, <2>5
<1>11. ASSUME NEW n \in 1..Len(q), NEW m \in 1..Len(q), slot[c][q[n]] = slot[c][q[m]]
       PROVE  n = m
  <2>1. q[n] \in Marks(c) /\ q[m] \in Marks(c) /\ Live(c) /\ slot[c][q[n]] \in Contexts
    BY <1>4, <1>10 DEF Live
  <2>2. q[m] = q[n]
    BY <1>11, <2>1 DEF CallInv, MarksSound
  <2>3. ~(q[n] < q[m]) /\ ~(q[m] < q[n])
    <3>1. q[n] \in Int
      BY <1>6
    <3>2. ~(q[n] < q[n])
      BY <3>1
    <3> QED  BY <2>2, <3>2
  <2>4. n \in Int /\ m \in Int
    OBVIOUS
  <2> QED  BY <1>4, <2>3, <2>4
<1> QED  BY <1>3, <1>8, <1>9, <1>10, <1>11

(* The activation a is that of the context in slot i.                      *)
IsRecall(a, c, i) ==
    a.ctx = slot[c][i] /\ a.func = i /\ a.nres = ctx[slot[c][i]].nres /\ a.yield = TRUE

LEMMA RecalledIs ==
    ASSUME CallInv, NEW c \in Coros, sta[c] = "YIELD",
           NEW q, q = ContextSlots(c), NEW X, X = Linked(c)
    PROVE  /\ X \in [Contexts -> CtxType]
           /\ \A x \in Contexts : X[x].base = ctx[x].base /\ X[x].nres = ctx[x].nres
           /\ Recalled(c, X, q[1]) \in Seq(ActType) /\ Len(Recalled(c, X, q[1])) = Len(q)
           /\ \A n \in 1..Len(q) : IsRecall(Recalled(c, X, q[1])[n], c, q[n])
<1>1. /\ Len(q) \in 1..NStack-1 /\ q[1] = 1 /\ Ordered(q, Marks(c))
      /\ \A n \in 1..Len(q) : /\ q[n] \in Slots
                              /\ slot[c][q[n]] \in Contexts
                              /\ ctx[slot[c][q[n]]].base = q[n] + 1
      /\ \A n, m \in 1..Len(q) : slot[c][q[n]] = slot[c][q[m]] => n = m
  BY SlotsFound
<1>2. DOMAIN q = 1..Len(q)
  BY <1>1, LenProperties DEF Ordered
<1> DEFINE at(x) == {j \in DOMAIN q : slot[c][q[j]] = x}
           j(x) == CHOOSE i \in at(x) : TRUE
<1>3. X = [x \in Contexts |->
              IF at(x) = {} THEN ctx[x]
              ELSE [ctx[x] EXCEPT !.next = IF j(x) = Len(q) THEN 0 ELSE q[j(x) + 1]]]
  BY DEF Linked
<1>4. ASSUME NEW x \in Contexts, at(x) # {} PROVE j(x) \in 1..Len(q) /\ slot[c][q[j(x)]] = x
  BY <1>2, <1>4
<1>5. ASSUME NEW n \in 1..Len(q)
      PROVE  at(slot[c][q[n]]) # {} /\ j(slot[c][q[n]]) = n
  <2>1. n \in at(slot[c][q[n]])
    BY <1>2
  <2>2. slot[c][q[n]] \in Contexts
    BY <1>1
  <2> HIDE DEF at, j
  <2>3. at(slot[c][q[n]]) # {}
    BY <2>1
  <2>4. j(slot[c][q[n]]) \in 1..Len(q) /\ slot[c][q[j(slot[c][q[n]])]] = slot[c][q[n]]
    BY <1>4, <2>2, <2>3
  <2> QED  BY <1>1, <2>3, <2>4
<1> HIDE DEF at, j
<1>6. \A x \in Contexts : ctx[x] \in CtxType
  BY DEF CallInv, CallTypes
<1>7. ASSUME NEW x \in Contexts
      PROVE  X[x] \in CtxType /\ X[x].base = ctx[x].base /\ X[x].nres = ctx[x].nres
  <2>1. CASE at(x) = {}
    BY <1>3, <1>6, <2>1
  <2>2. CASE at(x) # {}
    <3> DEFINE nx == IF j(x) = Len(q) THEN 0 ELSE q[j(x) + 1]
    <3>1. nx \in {0} \cup Slots
      <4>1. j(x) \in 1..Len(q)
        BY <1>4, <2>2
      <4>2. j(x) # Len(q) => j(x) + 1 \in 1..Len(q)
        BY <1>1, <4>1
      <4> QED  BY <1>1, <4>2
    <3>2. X[x] = [ctx[x] EXCEPT !.next = nx]
      BY <1>3, <2>2
    <3> HIDE DEF nx
    <3> QED  BY <1>6, <3>1, <3>2 DEF CtxType
  <2> QED  BY <2>1, <2>2
<1>8. ASSUME NEW n \in 1..Len(q)
      PROVE  X[slot[c][q[n]]].next = IF n = Len(q) THEN 0 ELSE q[n + 1]
  <2>1. slot[c][q[n]] \in Contexts /\ at(slot[c][q[n]]) # {} /\ j(slot[c][q[n]]) = n
    BY <1>1, <1>5
  <2>2. X[slot[c][q[n]]] = [ctx[slot[c][q[n]]] EXCEPT !.next = IF n = Len(q) THEN 0 ELSE q[n + 1]]
    BY <1>3, <2>1
  <2>3. ctx[slot[c][q[n]]] \in CtxType
    BY <1>6, <2>1
  <2> QED  BY <2>2, <2>3 DEF CtxType
<1>9. X \in [Contexts -> CtxType]
  <2>1. DOMAIN X = Contexts /\ X = [x \in Contexts |-> X[x]]
    BY <1>3
  <2> QED  BY <1>7, <2>1
<1> DEFINE to[n \in Nat] == IF n = 0 THEN q[1]
                            ELSE LET i == to[n-1]
                                 IN  IF i = 0 \/ slot[c][i] \notin Contexts THEN 0
                                     ELSE X[slot[c][i]].next
           expect == [n \in Nat |-> IF n < Len(q) THEN q[n + 1] ELSE 0]
           links == Cardinality({n \in 0..NStack : to[n] # 0})
<1>10. Recalled(c, X, q[1]) =
          [n \in 1..links |->
            Activation(slot[c][to[n-1]],
                       IF slot[c][to[n-1]] \in Contexts THEN X[slot[c][to[n-1]]].base - 1 ELSE to[n-1],
                       IF slot[c][to[n-1]] \in Contexts THEN X[slot[c][to[n-1]]].nres ELSE 0,
                       TRUE, "recall")]
  BY DEF Recalled
<1> DEFINE Goes(g) == g = [n \in Nat |-> IF n = 0 THEN q[1]
                            ELSE LET i == g[n-1]
                                 IN  IF i = 0 \/ slot[c][i] \notin Contexts THEN 0
                                     ELSE X[slot[c][i]].next]
<1>11. to = CHOOSE g : Goes(g)
  OBVIOUS
<1>12. Len(q) \in Nat \ {0} /\ Len(q) <= NStack - 1
  BY <1>1, Sizes
<1>13. Goes(expect)
  <2> SUFFICES ASSUME NEW n \in Nat
               PROVE  expect[n] = IF n = 0 THEN q[1]
                                  ELSE LET i == expect[n-1]
                                       IN  IF i = 0 \/ slot[c][i] \notin Contexts THEN 0
                                           ELSE X[slot[c][i]].next
    OBVIOUS
  <2>1. CASE n = 0
    BY <1>12, <2>1
  <2>2. CASE n # 0 /\ n - 1 < Len(q)
    <3>1. n \in 1..Len(q) /\ n - 1 \in Nat /\ (n - 1) + 1 = n
      BY <1>12, <2>2
    <3>2. expect[n-1] = q[n]
      BY <2>2, <3>1
    <3>3. q[n] # 0 /\ slot[c][q[n]] \in Contexts
      BY <1>1, <3>1 DEF Slots
    <3>4. expect[n] = IF n = Len(q) THEN 0 ELSE q[n + 1]
      BY <1>12, <3>1
    <3> HIDE DEF expect
    <3> QED  BY <1>8, <2>2, <3>1, <3>2, <3>3, <3>4
  <2>3. CASE n # 0 /\ ~(n - 1 < Len(q))
    <3>1. n - 1 \in Nat /\ ~(n < Len(q))
      BY <1>12, <2>3
    <3>2. expect[n-1] = 0 /\ expect[n] = 0
      BY <2>3, <3>1
    <3> QED  BY <2>3, <3>2
  <2> QED  BY <2>1, <2>2, <2>3
<1>14. Goes(to)
  <2> HIDE DEF expect, to, Goes
  <2> QED  BY <1>11, <1>13
<1> HIDE DEF to, expect
<1>15. \A n \in Nat : to[n] = expect[n]
  <2> DEFINE Bad == {n \in Nat : to[n] # expect[n]}
  <2> SUFFICES ASSUME Bad # {} PROVE FALSE
    OBVIOUS
  <2>1. PICK n \in Bad : \A m \in Bad : n <= m
    <3>1. Bad \in SUBSET Nat
      OBVIOUS
    <3> HIDE DEF Bad
    <3> QED  BY <3>1, LeastOne
  <2>2. n \in Nat /\ to[n] # expect[n]
    BY <2>1
  <2>3. n # 0
    BY <1>13, <1>14, <2>2
  <2>4. n - 1 \in Nat /\ n - 1 \notin Bad
    <3> HIDE DEF Bad
    <3> QED  BY <2>1, <2>2, <2>3
  <2>5. to[n-1] = expect[n-1]
    BY <2>4
  <2> DEFINE Link(i) == IF i = 0 \/ slot[c][i] \notin Contexts THEN 0 ELSE X[slot[c][i]].next
  <2>6. to[n] = Link(to[n-1])
    BY <1>14, <2>2, <2>3
  <2>7. expect[n] = Link(expect[n-1])
    BY <1>13, <2>2, <2>3
  <2> HIDE DEF Link
  <2> QED  BY <2>2, <2>5, <2>6, <2>7
<1>16. \A n \in Nat : to[n] = IF n < Len(q) THEN q[n + 1] ELSE 0
  BY <1>15 DEF expect
<1> HIDE DEF Goes
<1>17. {n \in 0..NStack : to[n] # 0} = 0..(Len(q) - 1)
  <2> SUFFICES ASSUME NEW n PROVE n \in 0..NStack /\ to[n] # 0 <=> n \in 0..(Len(q) - 1)
    OBVIOUS
  <2>1. CASE n \in 0..(Len(q) - 1)
    <3>1. n \in Nat /\ n < Len(q) /\ n \in 0..NStack /\ n + 1 \in 1..Len(q)
      BY <1>12, <2>1, Sizes
    <3>2. q[n + 1] # 0
      BY <1>1, <3>1 DEF Slots
    <3> QED  BY <1>16, <2>1, <3>1, <3>2
  <2>2. CASE n \in 0..NStack /\ n \notin 0..(Len(q) - 1)
    <3>1. n \in Nat /\ ~(n < Len(q))
      BY <1>12, <2>2, Sizes
    <3> QED  BY <1>16, <2>2, <3>1
  <2> QED  BY <2>1, <2>2
<1>18. links = Len(q)
  <2>1. Cardinality(0..(Len(q) - 1)) = Len(q)
    <3>1. 0 \in Int /\ Len(q) - 1 \in Int /\ ~(0 > Len(q) - 1) /\ (Len(q) - 1) - 0 + 1 = Len(q)
      BY <1>12
    <3> QED  BY <3>1, FS_Interval
  <2> QED  BY <1>17, <2>1
<1> HIDE DEF links
<1>19. ASSUME NEW n \in 1..Len(q)
       PROVE  /\ to[n-1] = q[n] /\ slot[c][q[n]] \in Contexts
              /\ X[slot[c][q[n]]].base - 1 = q[n] /\ X[slot[c][q[n]]].nres = ctx[slot[c][q[n]]].nres
  <2>1. n - 1 \in Nat /\ n - 1 < Len(q) /\ (n - 1) + 1 = n
    BY <1>12
  <2>2. to[n-1] = q[n]
    BY <1>16, <2>1
  <2>3. slot[c][q[n]] \in Contexts /\ q[n] \in Int /\ ctx[slot[c][q[n]]].base = q[n] + 1
    BY <1>1 DEF Slots
  <2> QED  BY <1>7, <2>2, <2>3
<1>20. Recalled(c, X, q[1]) =
          [n \in 1..Len(q) |-> Activation(slot[c][q[n]], q[n], ctx[slot[c][q[n]]].nres,
                                          TRUE, "recall")]
  <2> DEFINE Made(n) ==
            Activation(slot[c][to[n-1]],
                       IF slot[c][to[n-1]] \in Contexts THEN X[slot[c][to[n-1]]].base - 1 ELSE to[n-1],
                       IF slot[c][to[n-1]] \in Contexts THEN X[slot[c][to[n-1]]].nres ELSE 0,
                       TRUE, "recall")
  <2>1. ASSUME NEW n \in 1..Len(q)
        PROVE  Made(n) = Activation(slot[c][q[n]], q[n], ctx[slot[c][q[n]]].nres, TRUE, "recall")
    <3>1. /\ to[n-1] = q[n] /\ slot[c][q[n]] \in Contexts
          /\ X[slot[c][q[n]]].base - 1 = q[n] /\ X[slot[c][q[n]]].nres = ctx[slot[c][q[n]]].nres
      BY <1>19
    <3> QED  BY <3>1
  <2>2. Recalled(c, X, q[1]) = [n \in 1..Len(q) |-> Made(n)]
    BY <1>10, <1>18
  <2> HIDE DEF Made
  <2> QED  BY <2>1, <2>2
<1>21. ASSUME NEW n \in 1..Len(q)
       PROVE  Activation(slot[c][q[n]], q[n], ctx[slot[c][q[n]]].nres, TRUE, "recall") \in ActType
  BY <1>1, <1>6 DEF Activation, ActType, CtxType
<1>22. Recalled(c, X, q[1]) \in [1..Len(q) -> ActType]
  BY <1>20, <1>21
<1>23. Recalled(c, X, q[1]) \in Seq(ActType) /\ Len(Recalled(c, X, q[1])) = Len(q)
  BY <1>12, <1>22
<1>24. ASSUME NEW n \in 1..Len(q) PROVE IsRecall(Recalled(c, X, q[1])[n], c, q[n])
  <2>1. Recalled(c, X, q[1])[n] = Activation(slot[c][q[n]], q[n], ctx[slot[c][q[n]]].nres,
                                             TRUE, "recall")
    BY <1>20
  <2> QED  BY <2>1 DEF Activation, IsRecall
<1> QED  BY <1>7, <1>9, <1>23, <1>24

-----------------------------------------------------------------------------
(* Steps that leave the calls alone.                                       *)

LEMMA Kinds == /\ Raw \notin Contexts /\ Value \notin Contexts /\ Raw # Value
               /\ NStack \in Nat /\ MaxStack \in Nat \ {0} /\ NParams \in 0..MaxStack
               /\ MaxStack + 2 < NStack /\ NoCoro \notin Coros
  BY Sizes DEF Raw, Value

(* The calls of the coroutine that runs have a mark each.                  *)
LEMMA FuncsMarked ==
    ASSUME LoopInv, CallInv, cur # NoCoro, NEW i \in 1..Len(act)
    PROVE  act[i].func \in Marks(cur) /\ slot[cur][act[i].func] = act[i].ctx
<1>1. act[i] \in ActType /\ act[i].func \in 1..Inner.func /\ Inner.func \in Slots
      /\ Inner.func <= top[cur] /\ cur \in Coros
  BY ActIs
<1>2. act[i].func \in 1..top[cur]
  <2>1. top[cur] \in Int
    BY <1>1, Kinds DEF CallInv, CallTypes
  <2> QED  BY <1>1, <2>1 DEF Slots
<1>3. slot[cur][act[i].func] = act[i].ctx /\ act[i].ctx # Value
  BY <1>1, Kinds DEF CallInv, CallsMarked, ActType
<1> QED  BY <1>2, <1>3 DEF Marks

LEMMA CallsKept ==
    ASSUME LoopInv, CallInv, CallTypes', act' = act, cur' = cur, yield' = yield, ctx' = ctx,
           \A c \in Coros : Live(c) => \A i \in Marks(c) :
              slot[c][i] \in called => slot[c][i] \in called',
           \A c \in Coros : Live(c)' =>
              /\ Live(c) /\ sta'[c] = sta[c] /\ Marks(c)' = Marks(c)
              /\ \A i \in Marks(c) : slot'[c][i] = slot[c][i],
           \A c \in Coros : sta'[c] = "READY" => top'[c] >= 1 /\ Marks(c)' = {},
           cur # NoCoro => Live(cur)' /\ Inner.func <= top'[cur]
    PROVE  CallInv'
<1>1. YieldSound'
  BY DEF CallInv, YieldSound
<1>2. MarksSound'
  <2>1. ASSUME NEW c \in Coros, sta'[c] = "YIELD"
        PROVE  1 \in Marks(c)' /\ \A i \in Marks(c)' : slot'[c][i] # Raw /\ i + MaxStack < NStack
    <3>1. Live(c)'
      BY <2>1 DEF Live
    <3>2. sta[c] = "YIELD" /\ Marks(c)' = Marks(c) /\ \A i \in Marks(c) : slot'[c][i] = slot[c][i]
      BY <2>1, <3>1
    <3> QED  BY <3>2 DEF CallInv, MarksSound
  <2>2. ASSUME NEW c \in Coros, Live(c)', NEW i \in Marks(c)', slot'[c][i] \in Contexts
        PROVE  /\ slot'[c][i] \in called' /\ ctx'[slot'[c][i]].base = i + 1
               /\ \A d \in Coros : Live(d)' => \A j \in Marks(d)' :
                     slot'[d][j] = slot'[c][i] => d = c /\ j = i
    <3>1. Live(c) /\ i \in Marks(c) /\ slot'[c][i] = slot[c][i]
      BY <2>2
    <3>2. /\ slot[c][i] \in called /\ ctx[slot[c][i]].base = i + 1
          /\ \A d \in Coros : Live(d) => \A j \in Marks(d) :
                slot[d][j] = slot[c][i] => d = c /\ j = i
      BY <2>2, <3>1 DEF CallInv, MarksSound
    <3>3. ASSUME NEW d \in Coros, Live(d)', NEW j \in Marks(d)', slot'[d][j] = slot'[c][i]
          PROVE  d = c /\ j = i
      <4>1. Live(d) /\ j \in Marks(d) /\ slot'[d][j] = slot[d][j]
        BY <3>3
      <4> QED  BY <3>1, <3>2, <3>3, <4>1
    <3> QED  BY <3>1, <3>2, <3>3
  <2> QED  BY <2>1, <2>2 DEF MarksSound
<1>3. CallsMarked'
  <2>1. CASE cur = NoCoro
    BY <2>1 DEF CallInv, CallsMarked
  <2>2. CASE cur # NoCoro
    <3>1. cur \in Coros /\ Inner = act[Len(act)]
      BY <2>2, ActIs
    <3>2. Marks(cur)' = Marks(cur) /\ \A i \in Marks(cur) : slot'[cur][i] = slot[cur][i]
      BY <2>2, <3>1
    <3>3. \A i \in 1..Len(act) : slot'[cur][act[i].func] = slot[cur][act[i].func]
      BY <2>2, <3>2, FuncsMarked
    <3> QED  BY <2>2, <3>1, <3>2, <3>3 DEF CallInv, CallsMarked
  <2> QED  BY <2>1, <2>2
<1> QED  BY <1>1, <1>2, <1>3 DEF CallInv

(* The same where the slots do not change either.                          *)
LEMMA CallsUntouched ==
    ASSUME LoopInv, CallInv, UNCHANGED <<slot, top, ctx, act, cur, yield>>,
           \A c \in Coros : Live(c) => \A i \in Marks(c) :
              slot[c][i] \in called => slot[c][i] \in called',
           called' \subseteq Contexts,
           \A c \in Coros : sta'[c] = sta[c] \/ (sta'[c] \in {"none", "END"} /\ sta[c] # "RUN")
    PROVE  CallInv'
<1>1. CallTypes'
  BY DEF CallInv, CallTypes
<1>2. \A c \in Coros : Marks(c)' = Marks(c)
  BY DEF Marks
<1>3. \A c \in Coros : Live(c)' => Live(c) /\ sta'[c] = sta[c]
  BY DEF Live
<1>4. \A c \in Coros : sta'[c] = "READY" => top'[c] >= 1 /\ Marks(c)' = {}
  BY <1>2 DEF CallInv, MarksSound
<1>5. cur # NoCoro => Live(cur)' /\ Inner.func <= top'[cur]
  <2> SUFFICES ASSUME cur # NoCoro PROVE Live(cur)' /\ Inner.func <= top'[cur]
    OBVIOUS
  <2>1. cur \in Coros /\ sta[cur] = "RUN" /\ Inner.func <= top[cur]
    BY ActIs
  <2> QED  BY <2>1 DEF Live
<1> QED  BY <1>1, <1>2, <1>3, <1>4, <1>5, CallsKept

LEMMA CallsPush == LoopInv /\ CallInv /\ Push => CallInv'
<1> SUFFICES ASSUME LoopInv, CallInv, Push PROVE CallInv'
  OBVIOUS
<1>1. /\ cur # NoCoro /\ top[cur] + 1 <= Inner.func + MaxStack
      /\ slot' = [slot EXCEPT ![cur][top[cur] + 1] = Value]
      /\ top' = [top EXCEPT ![cur] = @ + 1]
      /\ UNCHANGED <<sta, ctx, called, act, cur, yield>>
  BY DEF Push, Running, InFrame, runVars
<1>2. cur \in Coros /\ sta[cur] = "RUN" /\ Inner.func \in Slots /\ Inner.func <= top[cur]
      /\ Inner.func + MaxStack < NStack
  <2>1. Len(act) \in 1..Len(act) /\ Inner = act[Len(act)]
    BY <1>1, ActIs
  <2> QED  BY <1>1, <2>1, ActIs DEF CallInv, CallsMarked
<1>3. top[cur] \in 0..NStack-1 /\ top[cur] + 1 \in 1..NStack-1 /\ top[cur] + 1 \in Slots
  <2>1. top[cur] \in 0..NStack-1
    BY <1>2 DEF CallInv, CallTypes
  <2> QED  BY <1>1, <1>2, <2>1, Kinds DEF Slots
<1>4. /\ slot' \in [Coros -> [Slots -> Contexts \cup {Raw, Value}]] /\ top' \in [Coros -> 0..NStack-1]
      /\ top'[cur] = top[cur] + 1 /\ \A c \in Coros : c # cur => top'[c] = top[c] /\ slot'[c] = slot[c]
      /\ slot'[cur][top[cur] + 1] = Value
      /\ \A i \in Slots : i # top[cur] + 1 => slot'[cur][i] = slot[cur][i]
  BY <1>1, <1>2, <1>3 DEF CallInv, CallTypes
<1>5. CallTypes'
  BY <1>1, <1>4 DEF CallInv, CallTypes
<1>6. Marks(cur)' = Marks(cur) /\ \A i \in Marks(cur) : slot'[cur][i] = slot[cur][i]
  <2>1. \A i \in 1..top[cur] : i \in Slots /\ i # top[cur] + 1
    BY <1>3, Kinds DEF Slots
  <2>2. 1..top'[cur] = 1..top[cur] \cup {top[cur] + 1}
    <3>1. \A n \in Nat : 1..n+1 = 1..n \cup {n + 1}
      OBVIOUS
    <3>2. top[cur] \in Nat /\ top'[cur] = top[cur] + 1
      BY <1>3, <1>4
    <3> QED  BY <3>1, <3>2
  <2>3. \A i \in 1..top[cur] : slot'[cur][i] = slot[cur][i]
    BY <1>4, <2>1
  <2>4. Marks(cur)' = {i \in 1..top[cur] \cup {top[cur] + 1} : slot'[cur][i] # Value}
    BY <1>1, <2>2 DEF Marks
  <2>5. Marks(cur)' = {i \in 1..top[cur] : slot'[cur][i] # Value}
    BY <1>4, <2>4
  <2> QED  BY <2>3, <2>5 DEF Marks
<1>7. \A c \in Coros : Marks(c)' = Marks(c) /\ \A i \in Marks(c) : slot'[c][i] = slot[c][i]
  <2> SUFFICES ASSUME NEW c \in Coros
               PROVE  Marks(c)' = Marks(c) /\ \A i \in Marks(c) : slot'[c][i] = slot[c][i]
    OBVIOUS
  <2>1. CASE c = cur
    BY <1>1, <1>6, <2>1 DEF Marks
  <2>2. CASE c # cur
    <3>1. top'[c] = top[c] /\ slot'[c] = slot[c]
      BY <1>4, <2>2
    <3> QED  BY <3>1 DEF Marks
  <2> QED  BY <2>1, <2>2
<1>8. \A c \in Coros : sta'[c] = "READY" => top'[c] >= 1 /\ Marks(c)' = {}
  BY <1>1, <1>2, <1>4, <1>7 DEF CallInv, MarksSound
<1>9. Live(cur)' /\ Inner.func <= top'[cur]
  BY <1>1, <1>2, <1>3, <1>4 DEF Live, Slots
<1> QED  BY <1>1, <1>5, <1>7, <1>8, <1>9, CallsKept DEF Live

(* The stack of the coroutine that runs gives up what is above its calls.  *)
LEMMA TopFalls ==
    ASSUME LoopInv, CallInv, cur # NoCoro, NEW n \in Int, Inner.func <= n, n <= top[cur]
    PROVE  {i \in 1..n : slot[cur][i] # Value} = Marks(cur) /\ n \in 0..NStack-1
<1>1. cur \in Coros /\ Inner.func \in Slots /\ \A s \in Marks(cur) : s <= Inner.func
  BY ActIs
<1>2. top[cur] \in 0..NStack-1
  BY <1>1 DEF CallInv, CallTypes
<1>3. \A s \in Marks(cur) : s \in 1..n
  BY <1>1, <1>2 DEF Slots, Marks
<1>4. 1..n \subseteq 1..top[cur]
  BY <1>2
<1>5. n \in 0..NStack-1
  BY <1>1, <1>2, Kinds DEF Slots
<1> QED  BY <1>3, <1>4, <1>5 DEF Marks

LEMMA CallsPop == LoopInv /\ CallInv /\ Pop => CallInv'
<1> SUFFICES ASSUME LoopInv, CallInv, Pop PROVE CallInv'
  OBVIOUS
<1>1. /\ cur # NoCoro /\ top[cur] > Inner.func /\ top' = [top EXCEPT ![cur] = @ - 1]
      /\ UNCHANGED <<sta, slot, ctx, called, act, cur, yield>>
  BY DEF Pop, Running, runVars
<1>2. cur \in Coros /\ sta[cur] = "RUN" /\ Inner.func \in Slots
  BY <1>1, ActIs
<1>3. top[cur] \in 0..NStack-1 /\ top \in [Coros -> 0..NStack-1]
  BY <1>2 DEF CallInv, CallTypes
<1>4. top[cur] - 1 \in Int /\ Inner.func <= top[cur] - 1 /\ top[cur] - 1 <= top[cur]
  BY <1>1, <1>2, <1>3, Kinds DEF Slots
<1>5. {i \in 1..(top[cur] - 1) : slot[cur][i] # Value} = Marks(cur) /\ top[cur] - 1 \in 0..NStack-1
  BY <1>1, <1>4, TopFalls
<1>6. /\ top' \in [Coros -> 0..NStack-1] /\ top'[cur] = top[cur] - 1
      /\ \A c \in Coros : c # cur => top'[c] = top[c]
  BY <1>1, <1>2, <1>3, <1>5
<1>7. CallTypes'
  BY <1>1, <1>6 DEF CallInv, CallTypes
<1>8. \A c \in Coros : Marks(c)' = Marks(c)
  BY <1>1, <1>5, <1>6 DEF Marks
<1>9. \A c \in Coros : sta'[c] = "READY" => top'[c] >= 1 /\ Marks(c)' = {}
  BY <1>1, <1>2, <1>6, <1>8 DEF CallInv, MarksSound
<1>10. Live(cur)' /\ Inner.func <= top'[cur]
  BY <1>1, <1>2, <1>4, <1>6 DEF Live
<1> QED  BY <1>1, <1>7, <1>8, <1>9, <1>10, CallsKept DEF Live

LEMMA CallsAsync ==
    ASSUME LoopInv, CallInv, NEW c \in Coros, NEW narg \in 0..MaxStack, Async(c, narg)
    PROVE  CallInv'
<1>1. /\ sta[c] = "none" /\ sta' = [sta EXCEPT ![c] = "READY"]
      /\ slot' = [slot EXCEPT ![c] = [i \in Slots |-> Value]]
      /\ \/ host = "exec" /\ top' = [top EXCEPT ![c] = narg + 1]
         \/ /\ Running /\ top[cur] - narg > Inner.func
            /\ top' = [top EXCEPT ![c] = narg + 1, ![cur] = @ - narg - 1]
      /\ UNCHANGED <<ctx, called, act, cur, yield>>
  BY DEF Async, runVars
<1>2. sta \in [Coros -> CoroStates] /\ top \in [Coros -> 0..NStack-1]
      /\ slot \in [Coros -> [Slots -> Contexts \cup {Raw, Value}]]
  BY DEF LoopInv, Pooled, CallInv, CallTypes
<1>3. narg + 1 \in 0..NStack-1 /\ narg + 1 >= 1
  BY Kinds
<1>4. /\ sta'[c] = "READY" /\ \A i \in Slots : slot'[c][i] = Value
      /\ slot' \in [Coros -> [Slots -> Contexts \cup {Raw, Value}]]
      /\ \A d \in Coros : d # c => sta'[d] = sta[d] /\ slot'[d] = slot[d]
  BY <1>1, <1>2
<1>5. ASSUME host = "exec" PROVE cur = NoCoro
  BY <1>5 DEF LoopInv, AtCursor
<1>6. ASSUME cur # NoCoro
      PROVE  /\ cur \in Coros /\ cur # c /\ sta[cur] = "RUN" /\ Inner.func \in Slots
             /\ top[cur] \in 0..NStack-1 /\ Inner.func <= top[cur] - narg - 1
             /\ top[cur] - narg - 1 \in Int /\ top[cur] - narg - 1 <= top[cur]
             /\ top' = [top EXCEPT ![c] = narg + 1, ![cur] = @ - narg - 1]
  <2>1. cur \in Coros /\ sta[cur] = "RUN" /\ Inner.func \in Slots
    BY <1>6, ActIs
  <2>2. top[cur] \in 0..NStack-1
    BY <1>2, <2>1
  <2>3. top[cur] - narg > Inner.func /\ top' = [top EXCEPT ![c] = narg + 1, ![cur] = @ - narg - 1]
    BY <1>1, <1>5, <1>6
  <2>4. /\ Inner.func <= top[cur] - narg - 1 /\ top[cur] - narg - 1 \in Int
        /\ top[cur] - narg - 1 <= top[cur]
    BY <2>1, <2>2, <2>3, Kinds DEF Slots
  <2>5. cur # c
    BY <1>1, <2>1
  <2> QED  BY <2>1, <2>2, <2>3, <2>4, <2>5
<1>7. ASSUME cur # NoCoro
      PROVE  /\ {i \in 1..(top[cur] - narg - 1) : slot[cur][i] # Value} = Marks(cur)
             /\ top[cur] - narg - 1 \in 0..NStack-1
  <2> DEFINE n == top[cur] - narg - 1
  <2>1. n \in Int /\ Inner.func <= n /\ n <= top[cur]
    BY <1>6, <1>7
  <2> HIDE DEF n
  <2>2. {i \in 1..n : slot[cur][i] # Value} = Marks(cur) /\ n \in 0..NStack-1
    BY <1>7, <2>1, TopFalls
  <2> QED  BY <2>2 DEF n
<1>8. /\ top' \in [Coros -> 0..NStack-1] /\ top'[c] = narg + 1
      /\ \A d \in Coros : d # c /\ d # cur => top'[d] = top[d]
      /\ cur # NoCoro => top'[cur] = top[cur] - narg - 1
  <2>1. CASE cur = NoCoro
    <3>1. top' = [top EXCEPT ![c] = narg + 1]
      BY <1>1, <2>1 DEF Running
    <3> QED  BY <1>2, <1>3, <2>1, <3>1
  <2>2. CASE cur # NoCoro
    BY <1>2, <1>3, <1>6, <1>7, <2>2
  <2> QED  BY <2>1, <2>2
<1>9. CallTypes'
  BY <1>1, <1>4, <1>8 DEF CallInv, CallTypes
<1>10. Marks(c)' = {}
  <2>1. \A i \in 1..top'[c] : i \in Slots
    BY <1>3, <1>8, Kinds DEF Slots
  <2> QED  BY <1>4, <2>1 DEF Marks
<1>11. \A d \in Coros : d # c => Marks(d)' = Marks(d)
  <2> SUFFICES ASSUME NEW d \in Coros, d # c PROVE Marks(d)' = Marks(d)
    OBVIOUS
  <2>1. CASE d = cur
    BY <1>4, <1>7, <1>8, <2>1, Kinds DEF Marks
  <2>2. CASE d # cur
    BY <1>4, <1>8, <2>2 DEF Marks
  <2> QED  BY <2>1, <2>2
<1>12. \A d \in Coros : sta'[d] = "READY" => top'[d] >= 1 /\ Marks(d)' = {}
  <2> SUFFICES ASSUME NEW d \in Coros, sta'[d] = "READY" PROVE top'[d] >= 1 /\ Marks(d)' = {}
    OBVIOUS
  <2>1. CASE d = c
    BY <1>3, <1>8, <1>10, <2>1
  <2>2. CASE d # c
    <3>1. sta[d] = "READY" /\ d # cur
      BY <1>4, <1>6, <2>2, Kinds
    <3> QED  BY <1>8, <1>11, <2>2, <3>1 DEF CallInv, MarksSound
  <2> QED  BY <2>1, <2>2
<1>13. \A d \in Coros : Live(d)' =>
          /\ Live(d) /\ sta'[d] = sta[d] /\ Marks(d)' = Marks(d)
          /\ \A i \in Marks(d) : slot'[d][i] = slot[d][i]
  BY <1>4, <1>11 DEF Live
<1>14. cur # NoCoro => Live(cur)' /\ Inner.func <= top'[cur]
  <2> SUFFICES ASSUME cur # NoCoro PROVE Live(cur)' /\ Inner.func <= top'[cur]
    OBVIOUS
  <2>1. sta'[cur] = "RUN" /\ cur' = cur
    BY <1>1, <1>4, <1>6
  <2>2. Inner.func <= top'[cur]
    BY <1>6, <1>8
  <2> QED  BY <2>1, <2>2 DEF Live
<1> QED  BY <1>1, <1>9, <1>12, <1>13, <1>14, CallsKept

-----------------------------------------------------------------------------
(* A call: the slot of its function becomes a mark, the highest.           *)

(* A context that is not held is in no slot of a coroutine that has calls. *)
LEMMA HeldMarks ==
    ASSUME LoopInv, CallInv, NEW x, x \notin Held, NEW c \in Coros, Live(c), NEW i \in Marks(c)
    PROVE  slot[c][i] # x
<1>1. CASE sta[c] = "YIELD"
  BY <1>1 DEF Held, Marks
<1>2. CASE sta[c] = "RUN"
  <2>1. cur = c /\ cur # NoCoro
    BY <1>2, Kinds DEF LoopInv, AtCursor
  <2>2. PICK k \in 1..Len(act) : act[k].func = i
    BY <2>1 DEF CallInv, CallsMarked
  <2>3. slot[c][i] = act[k].ctx
    BY <2>1, <2>2, FuncsMarked
  <2>4. DOMAIN act = 1..Len(act)
    BY LenProperties DEF CallInv, CallTypes
  <2>5. act[k].ctx \in Held
    BY <2>4 DEF Held
  <2> QED  BY <2>3, <2>5
<1> QED  BY <1>1, <1>2 DEF Live

(* The coroutine c makes the call a from its stack s with n slots in use.   *)
Enters(c, s, n, a) ==
    /\ slot' = [slot EXCEPT ![c] = Entered(s, a.func, a.ctx, n)]
    /\ top' = [top EXCEPT ![c] = a.func + NParams]
    /\ act' = Append(act, a)
    /\ IF a.ctx = Raw
       THEN UNCHANGED <<ctx, called>>
       ELSE /\ a.ctx \notin Held
            /\ called' = called \cup {a.ctx}
            /\ ctx' = [ctx EXCEPT ![a.ctx] = [base |-> a.func + 1, nres |-> a.nres, next |-> 0,
                                             pct |-> "live"]]

LEMMA CallsEntered ==
    ASSUME LoopInv, CallInv, NEW c \in Coros, NEW s \in [Slots -> Contexts \cup {Raw, Value}],
           NEW n \in Nat, NEW a, a.ctx \in Contexts \cup {Raw}, a.func \in Nat \ {0},
           a.nres \in NResults, Enters(c, s, n, a), a.func + MaxStack + 1 < NStack => a \in ActType,
           a.func <= n, ~Overflows(n), a.func - 1 <= top[c],
           \/ cur = c /\ a.func > Inner.func /\ a.yield = yield
           \/ cur = NoCoro /\ a.func = 1 /\ sta[c] = "READY" /\ a.yield = TRUE,
           \A i \in 1..a.func-1 : s[i] = slot[c][i], \A i \in a.func+1..n : s[i] = Value,
           cur' = c, sta'[c] = "RUN", \A d \in Coros : d # c => sta'[d] = sta[d],
           yield' = (a.yield /\ a.ctx # Raw)
    PROVE  CallInv'
<1> DEFINE f == a.func
           x == a.ctx
           nres == a.nres
           y == a.yield
<1>1. /\ f + MaxStack < NStack /\ f + NParams \in 0..NStack-1 /\ f \in Slots /\ f + 1 \in Slots
      /\ f <= f + NParams /\ top \in [Coros -> 0..NStack-1] /\ top[c] \in 0..NStack-1
      /\ slot \in [Coros -> [Slots -> Contexts \cup {Raw, Value}]] /\ a \in ActType
  <2>1. n + MaxStack < NStack - 1
    BY Kinds DEF Overflows
  <2>2. f \in Nat \ {0} /\ f + MaxStack + 1 < NStack
    BY <2>1, Kinds
  <2>3. /\ top \in [Coros -> 0..NStack-1] /\ top[c] \in 0..NStack-1 /\ a \in ActType
        /\ slot \in [Coros -> [Slots -> Contexts \cup {Raw, Value}]]
    BY <2>2 DEF CallInv, CallTypes
  <2> HIDE DEF f
  <2>4. /\ f + MaxStack < NStack /\ f + NParams \in 0..NStack-1 /\ f \in Slots /\ f + 1 \in Slots
        /\ f <= f + NParams
    <3>1. f \in Nat \ {0} /\ NParams \in Nat /\ NParams <= MaxStack /\ MaxStack \in Nat /\ NStack \in Nat
      BY <2>2, Kinds
    <3>2. f + MaxStack + 1 < NStack
      BY <2>2
    <3>3. f + NParams <= f + MaxStack /\ f <= f + NParams /\ f + NParams \in Nat
      BY <3>1
    <3>4. f + MaxStack < NStack /\ f + NParams \in 0..NStack-1
      BY <3>1, <3>2, <3>3
    <3>5. f \in 1..NStack /\ f + 1 \in 1..NStack
      BY <3>1, <3>2
    <3> QED  BY <3>3, <3>4, <3>5 DEF Slots
  <2> QED  BY <2>3, <2>4
<1>2. c # NoCoro
  BY Kinds
<1>3. cur = c => /\ sta[c] = "RUN" /\ f > Inner.func /\ y = yield /\ act # <<>>
                 /\ \A i \in Marks(c) : i < f
                 /\ \A i \in 1..Len(act) : act[i].func < f
  <2> SUFFICES ASSUME cur = c
               PROVE  /\ sta[c] = "RUN" /\ f > Inner.func /\ y = yield /\ act # <<>>
                      /\ \A i \in Marks(c) : i < f
                      /\ \A i \in 1..Len(act) : act[i].func < f
    OBVIOUS
  <2>1. f > Inner.func /\ y = yield /\ act # <<>>
    BY <1>2 DEF CallInv, CallsMarked
  <2>2. sta[c] = "RUN" /\ Inner.func \in Slots /\ \A i \in Marks(c) : i <= Inner.func
    BY <1>2, ActIs
  <2>3. \A i \in 1..Len(act) : act[i].func \in 1..Inner.func
    BY <1>2, ActIs
  <2>4. \A i \in Marks(c) : i \in Int
    BY <1>1 DEF Marks
  <2>5. \A i \in Marks(c) : i < f
    BY <2>1, <2>2, <2>4 DEF Slots
  <2>6. \A i \in 1..Len(act) : act[i].func < f
    BY <2>1, <2>2, <2>3 DEF Slots
  <2> QED  BY <2>1, <2>2, <2>5, <2>6
<1>4. cur # c => /\ cur = NoCoro /\ act = <<>> /\ f = 1 /\ sta[c] = "READY"
                 /\ y = TRUE /\ Marks(c) = {} /\ 1..Len(act) = {}
  <2> SUFFICES ASSUME cur # c
               PROVE  /\ cur = NoCoro /\ act = <<>> /\ f = 1 /\ sta[c] = "READY"
                      /\ y = TRUE /\ Marks(c) = {} /\ 1..Len(act) = {}
    OBVIOUS
  <2>1. cur = NoCoro /\ act = <<>> /\ f = 1 /\ sta[c] = "READY" /\ y = TRUE
    BY DEF CallInv, CallsMarked
  <2>2. Marks(c) = {}
    BY <2>1 DEF CallInv, MarksSound
  <2> QED  BY <2>1, <2>2
<1>5. \A i \in Marks(c) : i < f
  BY <1>3, <1>4
<1>6. act \in Seq(ActType) /\ Len(act) \in Nat /\ act' = Append(act, a)
  <2>1. act \in Seq(ActType)
    BY DEF CallInv, CallTypes
  <2> QED  BY <2>1, LenProperties DEF Enters
<1>7. /\ act' \in Seq(ActType) /\ Len(act') = Len(act) + 1 /\ act'[Len(act) + 1] = a
      /\ \A i \in 1..Len(act) : act'[i] = act[i]
  BY <1>1, <1>6, AppendProperties
<1>8. /\ slot' = [slot EXCEPT ![c] = Entered(s, f, x, n)]
      /\ top' = [top EXCEPT ![c] = f + NParams]
  BY DEF Enters
<1>9. /\ Entered(s, f, x, n) \in [Slots -> Contexts \cup {Raw, Value}]
      /\ Entered(s, f, x, n)[f] = x
  BY <1>1 DEF Entered
<1>10. /\ slot' \in [Coros -> [Slots -> Contexts \cup {Raw, Value}]] /\ top' \in [Coros -> 0..NStack-1]
       /\ slot'[c] = Entered(s, f, x, n) /\ top'[c] = f + NParams
       /\ \A d \in Coros : d # c => slot'[d] = slot[d] /\ top'[d] = top[d]
  BY <1>1, <1>8, <1>9
<1>11. ASSUME NEW i \in 1..(f + NParams), i # f
       PROVE  slot'[c][i] = IF i < f THEN slot[c][i] ELSE Value
  <2>1. i \in Slots /\ i \in Int
    <3>1. f + NParams \in Int /\ f + NParams <= NStack - 1 /\ NStack \in Nat
      BY <1>1, Kinds
    <3> QED  BY <3>1 DEF Slots
  <2>2. slot'[c][i] = IF i > n /\ i <= f + NParams THEN Value ELSE s[i]
    BY <1>10, <1>11, <2>1 DEF Entered
  <2>3. CASE i < f
    <3>1. i \in 1..f-1 /\ ~(i > n)
      BY <2>1, <2>3
    <3> QED  BY <2>2, <2>3, <3>1
  <2>4. CASE i > f /\ i <= n
    <3>1. i \in f+1..n /\ ~(i < f) /\ ~(i > n)
      BY <2>1, <2>4
    <3> QED  BY <2>2, <3>1
  <2>5. CASE i > n
    <3>1. i <= f + NParams /\ ~(i < f)
      BY <1>1, <2>1, <2>5
    <3> QED  BY <2>2, <2>5, <3>1
  <2> QED  BY <1>11, <2>1, <2>3, <2>4, <2>5
<1>12. x # Value /\ slot'[c][f] = x
  BY <1>9, <1>10, Kinds
<1>13. Marks(c)' = Marks(c) \cup {f}
  <2>1. Marks(c)' = {i \in 1..(f + NParams) : slot'[c][i] # Value}
    BY <1>10 DEF Marks
  <2>2. ASSUME NEW i \in Marks(c) PROVE i \in 1..(f + NParams) /\ slot'[c][i] # Value
    <3>1. i < f /\ i \in Int /\ i >= 1 /\ slot[c][i] # Value
      BY <1>1, <1>5 DEF Marks
    <3>2. i \in 1..(f + NParams) /\ i # f
      BY <1>1, <3>1
    <3> QED  BY <1>11, <3>1, <3>2
  <2>3. ASSUME NEW i \in 1..(f + NParams), slot'[c][i] # Value, i # f PROVE i \in Marks(c)
    <3>1. i < f /\ slot[c][i] # Value
      BY <1>11, <2>3
    <3>2. i \in 1..top[c]
      BY <1>1, <3>1
    <3> QED  BY <3>1, <3>2 DEF Marks
  <2>4. f \in 1..(f + NParams)
    BY <1>1
  <2> QED  BY <1>12, <2>1, <2>2, <2>3, <2>4
<1>14. \A i \in Marks(c) : slot'[c][i] = slot[c][i]
  <2> SUFFICES ASSUME NEW i \in Marks(c) PROVE slot'[c][i] = slot[c][i]
    OBVIOUS
  <2>1. i < f /\ i \in Int /\ i >= 1
    BY <1>1, <1>5 DEF Marks
  <2>2. i \in 1..(f + NParams) /\ i # f
    BY <1>1, <2>1
  <2> QED  BY <1>11, <2>1, <2>2
<1>15. \A d \in Coros : d # c => Marks(d)' = Marks(d)
  BY <1>10 DEF Marks
<1>16. \A d \in Coros : d # c => (Live(d)' <=> Live(d))
  BY DEF Live
(* What was marked before is as it was.                                    *)
<1>17. ASSUME NEW d \in Coros, Live(d)', NEW i \in Marks(d)', ~(d = c /\ i = f)
       PROVE  Live(d) /\ i \in Marks(d) /\ slot'[d][i] = slot[d][i]
  <2>1. CASE d = c
    <3>1. i \in Marks(c)
      BY <1>13, <1>17, <2>1
    <3>2. sta[c] = "RUN"
      BY <1>3, <1>4, <3>1
    <3> QED  BY <1>14, <2>1, <3>1, <3>2 DEF Live
  <2>2. CASE d # c
    BY <1>10, <1>15, <1>16, <1>17, <2>2
  <2> QED  BY <2>1, <2>2
<1>18. /\ x = Raw => ctx' = ctx /\ called' = called
       /\ x # Raw => /\ x \in Contexts /\ x \notin Held /\ called' = called \cup {x}
                     /\ ctx' = [ctx EXCEPT ![x] = [base |-> f + 1, nres |-> nres, next |-> 0,
                                                   pct |-> "live"]]
  BY DEF Enters
<1>19. /\ ctx' \in [Contexts -> CtxType] /\ called' \subseteq Contexts /\ called \subseteq called'
       /\ \A z \in Contexts : z # x => ctx'[z] = ctx[z]
       /\ x # Raw => x \in called' /\ ctx'[x].base = f + 1 /\ ctx'[x].nres = nres
  <2>1. ctx \in [Contexts -> CtxType] /\ called \subseteq Contexts
    BY DEF CallInv, CallTypes
  <2>2. [base |-> f + 1, nres |-> nres, next |-> 0, pct |-> "live"] \in CtxType
    BY <1>1 DEF CtxType
  <2> QED  BY <1>18, <2>1, <2>2
<1>20. CallTypes'
  BY <1>7, <1>10, <1>19 DEF CallTypes
<1>21. ASSUME NEW d \in Coros, Live(d), NEW i \in Marks(d), slot[d][i] \in Contexts
       PROVE  slot[d][i] # x
  <2>1. x \in Contexts => x \notin Held
    BY <1>18, Kinds
  <2> QED  BY <1>21, <2>1, HeldMarks
<1>22. MarksSound'
  <2>1. ASSUME NEW d \in Coros, sta'[d] = "READY" PROVE top'[d] >= 1 /\ Marks(d)' = {}
    <3>1. d # c /\ sta[d] = "READY"
      BY <2>1
    <3> QED  BY <1>10, <1>15, <3>1 DEF CallInv, MarksSound
  <2>2. ASSUME NEW d \in Coros, sta'[d] = "YIELD"
        PROVE  1 \in Marks(d)' /\ \A i \in Marks(d)' : slot'[d][i] # Raw /\ i + MaxStack < NStack
    <3>1. d # c /\ sta[d] = "YIELD"
      BY <2>2
    <3>2. Marks(d)' = Marks(d) /\ slot'[d] = slot[d]
      BY <1>10, <1>15, <3>1
    <3> QED  BY <3>1, <3>2 DEF CallInv, MarksSound
  <2>3. ASSUME NEW d \in Coros, Live(d)', NEW i \in Marks(d)', slot'[d][i] \in Contexts
        PROVE  /\ slot'[d][i] \in called' /\ ctx'[slot'[d][i]].base = i + 1
               /\ \A e \in Coros : Live(e)' => \A j \in Marks(e)' :
                     slot'[e][j] = slot'[d][i] => e = d /\ j = i
    <3>1. CASE d = c /\ i = f
      <4>1. slot'[d][i] = x /\ x # Raw
        BY <1>12, <2>3, <3>1, Kinds
      <4>2. ASSUME NEW e \in Coros, Live(e)', NEW j \in Marks(e)', slot'[e][j] = x
            PROVE  e = c /\ j = f
        <5> SUFFICES ASSUME ~(e = c /\ j = f) PROVE FALSE
          OBVIOUS
        <5>1. Live(e) /\ j \in Marks(e) /\ slot[e][j] = x
          BY <1>17, <4>2
        <5> QED  BY <1>21, <2>3, <4>1, <5>1
      <4> QED  BY <1>19, <3>1, <4>1, <4>2
    <3>2. CASE ~(d = c /\ i = f)
      <4>1. Live(d) /\ i \in Marks(d) /\ slot'[d][i] = slot[d][i]
        BY <1>17, <2>3, <3>2
      <4>2. /\ slot[d][i] \in called /\ ctx[slot[d][i]].base = i + 1 /\ slot[d][i] # x
            /\ \A e \in Coros : Live(e) => \A j \in Marks(e) :
                  slot[e][j] = slot[d][i] => e = d /\ j = i
        BY <1>21, <2>3, <4>1 DEF CallInv, MarksSound
      <4>3. slot'[d][i] \in called' /\ ctx'[slot'[d][i]].base = i + 1
        BY <1>19, <2>3, <4>1, <4>2
      <4>4. ASSUME NEW e \in Coros, Live(e)', NEW j \in Marks(e)', slot'[e][j] = slot'[d][i]
            PROVE  e = d /\ j = i
        <5>1. ~(e = c /\ j = f)
          BY <1>12, <4>1, <4>2, <4>4
        <5>2. Live(e) /\ j \in Marks(e) /\ slot'[e][j] = slot[e][j]
          BY <1>17, <4>4, <5>1
        <5> QED  BY <4>1, <4>2, <4>4, <5>2
      <4> QED  BY <4>3, <4>4
    <3> QED  BY <3>1, <3>2
  <2> QED  BY <2>1, <2>2, <2>3 DEF MarksSound
<1>23. \A i \in 1..Len(act') : i = Len(act) + 1 \/ i \in 1..Len(act)
  BY <1>6, <1>7
<1>24. CallsMarked'
  <2>1. act' # <<>> /\ cur' # NoCoro
    BY <1>2, <1>6, <1>7
  <2>2. act'[1].func = 1
    <3>1. CASE cur = c
      <4>1. 1 \in 1..Len(act) /\ act[1].func = 1
        BY <1>2, <1>3, <3>1, ActIs DEF CallInv, CallsMarked
      <4> QED  BY <1>7, <4>1
    <3>2. CASE cur # c
      <4>1. Len(act) = 0
        BY <1>4, <3>2
      <4> QED  BY <1>4, <1>6, <1>7, <3>2, <4>1
    <3> QED  BY <3>1, <3>2
  <2>3. act'[Len(act')].func <= top'[cur']
    BY <1>1, <1>6, <1>7, <1>10
  <2>4. ASSUME NEW i \in 1..Len(act'), NEW j \in 1..Len(act'), i < j
        PROVE  act'[i].func < act'[j].func
    <3>1. i \in 1..Len(act)
      BY <1>6, <1>7, <2>4
    <3>2. cur = c
      BY <1>4, <3>1
    <3>3. CASE j = Len(act) + 1
      BY <1>3, <1>6, <1>7, <3>1, <3>2, <3>3
    <3>4. CASE j \in 1..Len(act)
      BY <1>2, <1>7, <2>4, <3>1, <3>2, <3>4 DEF CallInv, CallsMarked
    <3> QED  BY <1>23, <3>3, <3>4
  <2>5. ASSUME NEW i \in 1..Len(act')
        PROVE  /\ act'[i].func + MaxStack < NStack
               /\ slot'[c][act'[i].func] = act'[i].ctx
               /\ act'[i].ctx \in Contexts => ctx'[act'[i].ctx].nres = act'[i].nres
    <3>1. CASE i = Len(act) + 1
      <4>1. act'[i] = a
        BY <1>7, <3>1
      <4>2. f + MaxStack < NStack /\ slot'[c][f] = x
        BY <1>1, <1>12
      <4>3. x \in Contexts => ctx'[x].nres = nres
        BY <1>1, <1>12, <1>19, Kinds
      <4> QED  BY <4>1, <4>2, <4>3
    <3>2. CASE i \in 1..Len(act)
      <4>1. cur = c /\ cur # NoCoro /\ Live(c)
        BY <1>2, <1>3, <1>4, <3>2 DEF Live
      <4>2. act[i].func \in Marks(c) /\ slot[c][act[i].func] = act[i].ctx
        BY <3>2, <4>1, FuncsMarked
      <4>3. /\ act[i].func + MaxStack < NStack
            /\ act[i].ctx \in Contexts => ctx[act[i].ctx].nres = act[i].nres
        BY <3>2, <4>1 DEF CallInv, CallsMarked
      <4>4. act[i].ctx \in Contexts => act[i].ctx # x
        BY <1>21, <4>1, <4>2
      <4> QED  BY <1>7, <1>14, <1>19, <3>2, <4>2, <4>3, <4>4
    <3> QED  BY <1>23, <3>1, <3>2
  <2>6. ASSUME NEW m \in Marks(c)' PROVE \E i \in 1..Len(act') : act'[i].func = m
    <3>1. CASE m = f
      <4>1. Len(act) + 1 \in 1..Len(act')
        BY <1>6, <1>7
      <4> QED  BY <1>6, <1>7, <3>1, <4>1
    <3>2. CASE m # f
      <4>1. m \in Marks(c) /\ cur = c
        BY <1>4, <1>13, <2>6, <3>2
      <4>2. PICK i \in 1..Len(act) : act[i].func = m
        BY <1>2, <4>1 DEF CallInv, CallsMarked
      <4>3. i \in 1..Len(act')
        BY <1>6, <1>7
      <4> QED  BY <1>7, <4>2, <4>3
    <3> QED  BY <3>1, <3>2
  <2> QED  BY <2>1, <2>2, <2>3, <2>4, <2>5, <2>6 DEF CallsMarked
<1>25. YieldSound'
  <2>1. y \in BOOLEAN /\ (y <=> \A i \in 1..Len(act) : act[i].ctx # Raw)
    BY <1>1, <1>2, <1>3, <1>4 DEF CallInv, YieldSound, ActType
  <2>2. yield' \in BOOLEAN /\ (yield' <=> \A i \in 1..Len(act') : act'[i].ctx # Raw)
    <3>1. Len(act) + 1 \in 1..Len(act') /\ \A i \in 1..Len(act) : i \in 1..Len(act')
      BY <1>6, <1>7
    <3>2. /\ \A i \in 1..Len(act') : i = Len(act) + 1 \/ i \in 1..Len(act)
          /\ act'[Len(act) + 1] = a /\ \A i \in 1..Len(act) : act'[i] = act[i]
      BY <1>7, <1>23
    <3>3. (\A i \in 1..Len(act') : act'[i].ctx # Raw)
             <=> x # Raw /\ \A i \in 1..Len(act) : act[i].ctx # Raw
      BY <3>1, <3>2
    <3> QED  BY <2>1, <3>3
  <2>3. ASSUME NEW i \in 1..Len(act')
        PROVE  act'[i].yield <=> \A j \in 1..Len(act') : j < i => act'[j].ctx # Raw
    <3>1. \A j \in 1..Len(act') : j < i => j \in 1..Len(act)
      BY <1>6, <1>7
    <3>2. \A j \in 1..Len(act) : j \in 1..Len(act')
      BY <1>6, <1>7
    <3>3. CASE i = Len(act) + 1
      <4>1. \A j \in 1..Len(act) : j < i
        BY <1>6, <3>3
      <4> QED  BY <1>6, <1>7, <2>1, <3>1, <3>2, <3>3, <4>1
    <3>4. CASE i \in 1..Len(act)
      <4>1. act[i].yield <=> \A j \in 1..Len(act) : j < i => act[j].ctx # Raw
        BY <3>4 DEF CallInv, YieldSound
      <4> QED  BY <1>7, <3>1, <3>2, <3>4, <4>1
    <3> QED  BY <1>23, <3>3, <3>4
  <2> QED  BY <1>2, <2>2, <2>3 DEF YieldSound
<1> QED  BY <1>20, <1>22, <1>24, <1>25 DEF CallInv

LEMMA CallsCall ==
    ASSUME LoopInv, CallInv, NEW narg \in 0..MaxStack, NEW nres \in NResults,
           NEW x \in Contexts \cup {Raw}, Call(narg, nres, x)
    PROVE  CallInv'
<1> DEFINE f == top[cur] - narg
<1>1. /\ cur # NoCoro /\ f > Inner.func /\ ~Overflows(top[cur])
      /\ x = Raw <=> Inner.ctx = Raw
      /\ Enter(cur, slot[cur], f, top[cur], nres, x, yield, act)
      /\ UNCHANGED <<sta, cur, yield>>
  BY DEF Call, Running
<1>2. /\ cur \in Coros /\ sta[cur] = "RUN" /\ Inner.func \in Slots /\ Len(act) \in 1..Len(act)
      /\ Inner = act[Len(act)] /\ \A i \in Marks(cur) : i <= Inner.func
  <2>1. /\ cur \in Coros /\ sta[cur] = "RUN" /\ Inner.func \in Slots /\ Len(act) \in Nat \ {0}
        /\ Inner = act[Len(act)] /\ \A i \in Marks(cur) : i <= Inner.func
    BY <1>1, ActIs
  <2> QED  BY <2>1
<1>3. top[cur] \in 0..NStack-1 /\ slot[cur] \in [Slots -> Contexts \cup {Raw, Value}]
  BY <1>2 DEF CallInv, CallTypes
<1>4. f \in Nat \ {0} /\ top[cur] \in Nat /\ f <= top[cur] /\ f - 1 <= top[cur]
  BY <1>1, <1>2, <1>3, Kinds DEF Slots
<1>5. \A i \in f+1..top[cur] : slot[cur][i] = Value
  <2> SUFFICES ASSUME NEW i \in f+1..top[cur] PROVE slot[cur][i] = Value
    OBVIOUS
  <2>1. i \in 1..top[cur] /\ ~(i <= Inner.func)
    <3>1. f \in Int /\ f > Inner.func /\ Inner.func \in Int /\ top[cur] \in Int /\ f >= 1 /\ i \in Int
      BY <1>1, <1>2, <1>4 DEF Slots
    <3> HIDE DEF f
    <3> QED  BY <3>1
  <2>2. i \notin Marks(cur)
    BY <1>2, <2>1
  <2> QED  BY <2>1, <2>2 DEF Marks
<1>6. yield \in BOOLEAN /\ yield' \in BOOLEAN /\ yield' = (yield /\ x # Raw)
  <2>1. yield => Inner.ctx # Raw
    BY <1>2 DEF CallInv, YieldSound
  <2> QED  BY <1>1, <2>1 DEF CallInv, YieldSound
<1> DEFINE a == Activation(x, f, nres, yield, "call")
<1>7. a.ctx = x /\ a.func = f /\ a.nres = nres /\ a.yield = yield
  BY DEF Activation
<1>8. f + MaxStack + 1 < NStack => a \in ActType
  BY <1>4, <1>6, Kinds DEF Activation, ActType, Slots
<1>9. Enters(cur, slot[cur], top[cur], a)
  BY <1>1, <1>7 DEF Enter, Enters
<1> HIDE DEF a, f
<1>10. cur' = cur /\ sta'[cur] = "RUN" /\ \A d \in Coros : d # cur => sta'[d] = sta[d]
  BY <1>1, <1>2
<1>11. /\ a.ctx \in Contexts \cup {Raw} /\ a.func \in Nat \ {0} /\ a.nres \in NResults
       /\ a.func <= top[cur] /\ a.func - 1 <= top[cur] /\ a.func > Inner.func /\ a.yield = yield
       /\ a.func + MaxStack + 1 < NStack => a \in ActType
       /\ \A i \in a.func+1..top[cur] : slot[cur][i] = Value
       /\ yield' = (a.yield /\ a.ctx # Raw)
  BY <1>1, <1>4, <1>5, <1>6, <1>7, <1>8
<1> QED  BY <1>1, <1>2, <1>3, <1>4, <1>9, <1>10, <1>11, CallsEntered

LEMMA CallsNative ==
    ASSUME LoopInv, CallInv, NEW narg \in 1..2, NEW nres \in {0, 1}, NativeCall(narg, nres)
    PROVE  CallInv'
<1> DEFINE f == top[cur] + 1
           n == f + narg
           s == [i \in Slots |-> IF i \in f..f+narg THEN Value ELSE slot[cur][i]]
<1>1. /\ cur # NoCoro /\ n < NStack /\ ~Overflows(n)
      /\ Enter(cur, s, f, n, nres, Raw, yield, act)
      /\ yield' = FALSE /\ UNCHANGED <<sta, cur>>
  BY DEF NativeCall, Running
<1>2. cur \in Coros /\ sta[cur] = "RUN" /\ Inner.func \in Slots /\ Inner.func <= top[cur]
  BY <1>1, ActIs
<1>3. top[cur] \in 0..NStack-1 /\ slot[cur] \in [Slots -> Contexts \cup {Raw, Value}]
  BY <1>2 DEF CallInv, CallTypes
<1>4. f \in Nat \ {0} /\ n \in Nat /\ f <= n /\ f - 1 <= top[cur] /\ f > Inner.func
  BY <1>2, <1>3, Kinds DEF Slots
<1>5. s \in [Slots -> Contexts \cup {Raw, Value}]
  BY <1>3
<1>6. \A i \in 1..f-1 : s[i] = slot[cur][i]
  <2> SUFFICES ASSUME NEW i \in 1..f-1 PROVE s[i] = slot[cur][i]
    OBVIOUS
  <2>1. i \in Slots /\ i \notin f..f+narg
    BY <1>3, Kinds DEF Slots
  <2> QED  BY <2>1
<1>7. \A i \in f+1..n : s[i] = Value
  <2> SUFFICES ASSUME NEW i \in f+1..n PROVE s[i] = Value
    OBVIOUS
  <2>1. i \in Slots /\ i \in f..f+narg
    BY <1>1, <1>3, Kinds DEF Slots
  <2> QED  BY <2>1
<1>8. yield \in BOOLEAN /\ yield' = (yield /\ Raw # Raw) /\ nres \in NResults
  <2>1. yield \in BOOLEAN /\ nres \in NResults
    BY Kinds DEF CallInv, YieldSound, NResults
  <2>2. yield' = FALSE /\ (yield /\ Raw # Raw) = FALSE
    BY <1>1
  <2> QED  BY <2>1, <2>2
<1> DEFINE a == Activation(Raw, f, nres, yield, "call")
<1>9. a.ctx = Raw /\ a.func = f /\ a.nres = nres /\ a.yield = yield
  BY DEF Activation
<1>10. f + MaxStack + 1 < NStack => a \in ActType
  BY <1>4, <1>8, Kinds DEF Activation, ActType, Slots
<1>11. Enters(cur, s, n, a)
  BY <1>1, <1>9 DEF Enter, Enters
<1> HIDE DEF a, f, n, s
<1>12. cur' = cur /\ sta'[cur] = "RUN" /\ \A d \in Coros : d # cur => sta'[d] = sta[d]
  BY <1>1, <1>2
<1>13. /\ a.ctx \in Contexts \cup {Raw} /\ a.func \in Nat \ {0} /\ a.nres \in NResults
       /\ a.func <= n /\ a.func - 1 <= top[cur] /\ a.func > Inner.func /\ a.yield = yield
       /\ a.func + MaxStack + 1 < NStack => a \in ActType
       /\ \A i \in 1..a.func-1 : s[i] = slot[cur][i]
       /\ \A i \in a.func+1..n : s[i] = Value
       /\ yield' = (a.yield /\ a.ctx # Raw)
  BY <1>4, <1>6, <1>7, <1>8, <1>9, <1>10
<1> QED  BY <1>1, <1>2, <1>4, <1>5, <1>11, <1>12, <1>13, CallsEntered

LEMMA CallsReady ==
    ASSUME LoopInv, CallInv, NEW c \in Coros, NEW x \in Contexts, AwaitReady(c, x)
    PROVE  CallInv'
<1>1. /\ cur = NoCoro /\ sta[c] = "READY" /\ ~Overflows(top[c])
      /\ Enter(c, slot[c], 1, top[c], 0, x, TRUE, <<>>)
      /\ cur' = c /\ yield' = TRUE /\ sta' = [sta EXCEPT ![c] = "RUN"]
  BY DEF AwaitReady, Awaits, RunsNow
<1>2. top[c] \in 0..NStack-1 /\ slot[c] \in [Slots -> Contexts \cup {Raw, Value}]
      /\ sta \in [Coros -> CoroStates]
  BY DEF CallInv, CallTypes, LoopInv, Pooled
<1>3. top[c] >= 1 /\ Marks(c) = {}
  BY <1>1 DEF CallInv, MarksSound
<1>4. top[c] \in Nat /\ 1 \in Nat \ {0} /\ 1 <= top[c] /\ 1 - 1 <= top[c]
  BY <1>2, <1>3, Kinds
<1>5. \A i \in 1+1..top[c] : slot[c][i] = Value
  <2> SUFFICES ASSUME NEW i \in 1+1..top[c] PROVE slot[c][i] = Value
    OBVIOUS
  <2>1. i \in 1..top[c]
    BY <1>4
  <2> QED  BY <1>3, <2>1 DEF Marks
<1> DEFINE a == Activation(x, 1, 0, TRUE, "call")
<1>6. a.ctx = x /\ a.func = 1 /\ a.nres = 0 /\ a.yield = TRUE
  BY DEF Activation
<1>7. a \in ActType
  BY Kinds DEF Activation, ActType, Slots, NResults
<1>8. Enters(c, slot[c], top[c], a)
  <2>1. act = <<>>
    BY <1>1 DEF CallInv, CallsMarked
  <2> QED  BY <1>1, <1>6, <2>1 DEF Enter, Enters
<1> HIDE DEF a
<1>9. sta'[c] = "RUN" /\ \A d \in Coros : d # c => sta'[d] = sta[d]
  BY <1>1, <1>2
<1>10. /\ a.ctx \in Contexts \cup {Raw} /\ a.func \in Nat \ {0} /\ a.nres \in NResults
       /\ a.func <= top[c] /\ a.func - 1 <= top[c]
       /\ \A i \in 1..a.func-1 : slot[c][i] = slot[c][i]
       /\ \A i \in a.func+1..top[c] : slot[c][i] = Value
       /\ yield' = (a.yield /\ a.ctx # Raw)
  <2>1. yield' = TRUE /\ a.yield = TRUE /\ a.ctx # Raw /\ 0 \in NResults
    BY <1>1, <1>6, Kinds DEF NResults
  <2>2. yield' = (a.yield /\ a.ctx # Raw)
    BY <2>1
  <2>3. \A i \in a.func+1..top[c] : slot[c][i] = Value
    BY <1>5, <1>6
  <2> QED  BY <1>4, <1>6, <2>1, <2>2, <2>3
<1> QED  BY <1>1, <1>2, <1>4, <1>6, <1>7, <1>8, <1>9, <1>10, CallsEntered

-----------------------------------------------------------------------------
(* The innermost call returns to the one that made it.                     *)

LEMMA CallsReturned ==
    ASSUME LoopInv, CallInv, NEW k \in 0..MaxStack, Return(k)
    PROVE  CallInv'
<1> DEFINE f == Inner.func
           m == Len(act) - 1
           n == IF Inner.nres = -1 THEN k ELSE Inner.nres
<1>1. /\ cur # NoCoro /\ Len(act) > 1 /\ k <= top[cur] - f
      /\ slot' = [slot EXCEPT ![cur] = Moved(@, f, top[cur], k, Inner.nres)]
      /\ top' = [top EXCEPT ![cur] = f + n - 1]
      /\ act' = Front(act)
      /\ called' = IF Inner.kind = "call" THEN called \ {Inner.ctx} ELSE called
      /\ ctx' = IF Inner.kind = "recall" THEN [ctx EXCEPT ![Last(Front(act)).ctx].pct = "live"]
                ELSE ctx
      /\ yield' = Inner.yield /\ UNCHANGED <<sta, cur>>
  BY DEF Return, Running
<1>2. /\ cur \in Coros /\ sta[cur] = "RUN" /\ Inner \in ActType /\ Len(act) \in Nat
      /\ Inner = act[Len(act)] /\ \A i \in Marks(cur) : i <= f
      /\ \A i \in 1..Len(act) : act[i] \in ActType
  BY <1>1, ActIs
<1>3. /\ f \in Slots /\ Inner.nres \in NResults /\ f + MaxStack < NStack
      /\ top[cur] \in 0..NStack-1 /\ f <= top[cur] /\ f \in Marks(cur)
      /\ slot[cur][f] = Inner.ctx
  <2>1. Len(act) \in 1..Len(act)
    BY <1>1, <1>2
  <2> QED  BY <1>1, <1>2, <2>1, ActIs, FuncsMarked DEF ActType, CallInv, CallsMarked, CallTypes
<1>4. n \in 0..MaxStack
  BY <1>3 DEF NResults
<1> HIDE DEF n
<1>5. f + n - 1 \in 0..NStack-1 /\ f \in Int /\ f >= 1
  BY <1>3, <1>4, Kinds DEF Slots
<1>6. /\ act \in Seq(ActType) /\ m \in Nat /\ m >= 1 /\ Len(act) = m + 1
      /\ act' \in Seq(ActType) /\ Len(act') = m /\ \A i \in 1..m : act'[i] = act[i]
  <2>1. act \in Seq(ActType)
    BY DEF CallInv, CallTypes
  <2>2. act' = SubSeq(act, 1, Len(act) - 1)
    BY <1>1 DEF Front
  <2>3. 1..m \subseteq 1..Len(act)
    BY <1>1, <1>2
  <2> QED  BY <1>1, <1>2, <2>1, <2>2, <2>3, SubSeqProperties
<1> HIDE DEF m
<1>7. \A i \in 1..m : i \in 1..Len(act) /\ act[i].func < f /\ act[i].func \in Slots
  <2> SUFFICES ASSUME NEW i \in 1..m PROVE i \in 1..Len(act) /\ act[i].func < f /\ act[i].func \in Slots
    OBVIOUS
  <2>1. i \in 1..Len(act) /\ Len(act) \in 1..Len(act) /\ i < Len(act)
    BY <1>6
  <2>2. act[i].func < f
    BY <1>1, <1>2, <2>1 DEF CallInv, CallsMarked
  <2> QED  BY <1>2, <2>1, <2>2 DEF ActType
<1>8. \A i \in f+1..top[cur] : slot[cur][i] = Value
  <2> SUFFICES ASSUME NEW i \in f+1..top[cur] PROVE slot[cur][i] = Value
    OBVIOUS
  <2>1. i \in 1..top[cur] /\ ~(i <= f)
    BY <1>3, <1>5
  <2>2. i \notin Marks(cur)
    BY <1>2, <2>1
  <2> QED  BY <2>1, <2>2 DEF Marks
<1> DEFINE M == Moved(slot[cur], f, top[cur], k, Inner.nres)
<1>9. /\ \A i \in Slots : M[i] = IF i \in f..f+n-1
                                THEN IF i < f + k THEN slot[cur][top[cur] - k + 1 + i - f] ELSE Value
                                ELSE slot[cur][i]
      /\ M = [i \in Slots |-> M[i]]
  BY DEF Moved, n
<1> HIDE DEF M
<1>10. ASSUME NEW i \in f..f+n-1 PROVE M[i] = Value
  <2>1. i \in Slots
    BY <1>3, <1>4, <1>5, Kinds DEF Slots
  <2>2. CASE i < f + k
    <3> DEFINE l == top[cur] - k + 1 + i - f
    <3>1. l \in f+1..top[cur]
      <4>1. top[cur] \in Int /\ k \in Int /\ k <= top[cur] - f /\ i \in Int /\ i >= f
        BY <1>1, <1>3, <1>4, <1>5, Kinds
      <4> HIDE DEF f
      <4> QED  BY <1>5, <2>2, <4>1
    <3>2. M[i] = slot[cur][l]
      BY <1>9, <2>1, <2>2
    <3> HIDE DEF l
    <3> QED  BY <1>8, <3>1, <3>2
  <2>3. CASE ~(i < f + k)
    BY <1>9, <2>1, <2>3
  <2> QED  BY <2>2, <2>3
<1>11. /\ slot \in [Coros -> [Slots -> Contexts \cup {Raw, Value}]] /\ top \in [Coros -> 0..NStack-1]
       /\ ctx \in [Contexts -> CtxType] /\ called \subseteq Contexts
  BY DEF CallInv, CallTypes
<1>12. M \in [Slots -> Contexts \cup {Raw, Value}]
  <2>1. ASSUME NEW i \in Slots PROVE M[i] \in Contexts \cup {Raw, Value}
    <3>1. CASE i \in f..f+n-1
      BY <1>10, <3>1
    <3>2. CASE i \notin f..f+n-1
      BY <1>2, <1>9, <1>11, <3>2
    <3> QED  BY <3>1, <3>2
  <2> QED  BY <1>9, <2>1
<1>13. /\ slot' \in [Coros -> [Slots -> Contexts \cup {Raw, Value}]] /\ top' \in [Coros -> 0..NStack-1]
       /\ slot'[cur] = M /\ top'[cur] = f + n - 1
       /\ \A d \in Coros : d # cur => slot'[d] = slot[d] /\ top'[d] = top[d]
  <2>1. slot' = [slot EXCEPT ![cur] = M]
    BY <1>1, <1>2, <1>11 DEF M
  <2> QED  BY <1>1, <1>2, <1>5, <1>11, <1>12, <2>1
<1>14. \A i \in 1..(f - 1) : i \in Slots /\ M[i] = slot[cur][i]
  <2> SUFFICES ASSUME NEW i \in 1..(f - 1) PROVE i \in Slots /\ M[i] = slot[cur][i]
    OBVIOUS
  <2>1. i \in Slots /\ i \notin f..f+n-1
    BY <1>3, <1>5, Kinds DEF Slots
  <2> QED  BY <1>9, <2>1
<1>15. {i \in 1..(f + n - 1) : M[i] # Value} = Marks(cur) \ {f}
  <2>1. ASSUME NEW i \in 1..(f + n - 1), M[i] # Value PROVE i \in Marks(cur) \ {f}
    <3>1. i \notin f..f+n-1
      BY <1>10, <2>1
    <3>2. i \in 1..(f - 1) /\ i # f
      BY <1>4, <1>5, <3>1
    <3>3. i \in 1..top[cur]
      BY <1>3, <1>5, <3>2
    <3> QED  BY <1>14, <2>1, <3>2, <3>3 DEF Marks
  <2>2. ASSUME NEW i \in Marks(cur), i # f PROVE i \in 1..(f + n - 1) /\ M[i] # Value
    <3>1. i \in Int /\ i >= 1 /\ i <= f /\ slot[cur][i] # Value
      BY <1>2, <1>3 DEF Marks
    <3>2. i \in 1..(f - 1) /\ i \in 1..(f + n - 1)
      BY <1>4, <1>5, <2>2, <3>1
    <3> QED  BY <1>14, <3>1, <3>2
  <2> QED  BY <2>1, <2>2
<1>16. cur' = cur
  BY <1>1
<1>17. \A d \in Coros : Marks(d)' = IF d = cur THEN Marks(d) \ {f} ELSE Marks(d)
  <2> SUFFICES ASSUME NEW d \in Coros PROVE Marks(d)' = IF d = cur THEN Marks(d) \ {f} ELSE Marks(d)
    OBVIOUS
  <2>1. CASE d = cur
    <3>1. Marks(d)' = {i \in 1..(f + n - 1) : M[i] # Value}
      BY <1>13, <2>1 DEF Marks
    <3> QED  BY <1>15, <2>1, <3>1
  <2>2. CASE d # cur
    BY <1>13, <2>2 DEF Marks
  <2> QED  BY <2>1, <2>2
<1>18. ASSUME NEW d \in Coros, NEW i \in Marks(d)'
       PROVE  i \in Marks(d) /\ slot'[d][i] = slot[d][i] /\ ~(d = cur /\ i = f)
  <2>1. i \in Marks(d) /\ ~(d = cur /\ i = f)
    BY <1>17, <1>18
  <2>2. CASE d = cur
    <3>1. i \in Int /\ i >= 1 /\ i <= f /\ i # f
      BY <1>2, <1>3, <2>1, <2>2 DEF Marks
    <3>2. i \in 1..(f - 1)
      BY <1>5, <3>1
    <3> QED  BY <1>13, <1>14, <2>1, <2>2, <3>2
  <2>3. CASE d # cur
    BY <1>13, <2>1, <2>3
  <2> QED  BY <2>1, <2>2, <2>3
<1>19. ctx' \in [Contexts -> CtxType]
       /\ \A x \in Contexts : ctx'[x].base = ctx[x].base /\ ctx'[x].nres = ctx[x].nres
  <2>1. CASE Inner.kind = "recall"
    <3> DEFINE z == Last(Front(act)).ctx
    <3>1. ctx' = [ctx EXCEPT ![z].pct = "live"]
      BY <1>1, <2>1
    <3> HIDE DEF z
    <3>2. \A x \in Contexts : ctx'[x] \in CtxType /\ ctx'[x].base = ctx[x].base /\ ctx'[x].nres = ctx[x].nres
      BY <1>11, <3>1 DEF CtxType
    <3>3. ctx' = [x \in Contexts |-> ctx'[x]]
      BY <1>11, <3>1
    <3> QED  BY <3>2, <3>3
  <2>2. CASE Inner.kind # "recall"
    BY <1>1, <1>11, <2>2
  <2> QED  BY <2>1, <2>2
<1>20. called' \subseteq Contexts /\ called \ {Inner.ctx} \subseteq called'
  BY <1>1, <1>11
<1>21. CallTypes'
  BY <1>6, <1>13, <1>19, <1>20 DEF CallTypes
<1>22. \A d \in Coros : Live(d)' <=> Live(d)
  BY <1>1 DEF Live
<1>23. MarksSound'
  <2>1. ASSUME NEW d \in Coros, sta'[d] = "READY" PROVE top'[d] >= 1 /\ Marks(d)' = {}
    BY <1>1, <1>2, <1>13, <1>17, <2>1 DEF CallInv, MarksSound
  <2>2. ASSUME NEW d \in Coros, sta'[d] = "YIELD"
        PROVE  1 \in Marks(d)' /\ \A i \in Marks(d)' : slot'[d][i] # Raw /\ i + MaxStack < NStack
    <3>1. d # cur /\ sta[d] = "YIELD"
      BY <1>1, <1>2, <2>2
    <3>2. Marks(d)' = Marks(d) /\ slot'[d] = slot[d]
      BY <1>13, <1>17, <3>1
    <3> QED  BY <3>1, <3>2 DEF CallInv, MarksSound
  <2>3. ASSUME NEW d \in Coros, Live(d)', NEW i \in Marks(d)', slot'[d][i] \in Contexts
        PROVE  /\ slot'[d][i] \in called' /\ ctx'[slot'[d][i]].base = i + 1
               /\ \A e \in Coros : Live(e)' => \A j \in Marks(e)' :
                     slot'[e][j] = slot'[d][i] => e = d /\ j = i
    <3>1. Live(d) /\ i \in Marks(d) /\ slot'[d][i] = slot[d][i] /\ ~(d = cur /\ i = f)
      BY <1>18, <1>22, <2>3
    <3>2. /\ slot[d][i] \in called /\ ctx[slot[d][i]].base = i + 1
          /\ \A e \in Coros : Live(e) => \A j \in Marks(e) :
                slot[e][j] = slot[d][i] => e = d /\ j = i
      BY <2>3, <3>1 DEF CallInv, MarksSound
    <3>3. slot[d][i] # Inner.ctx
      <4>1. Live(cur) /\ f \in Marks(cur) /\ slot[cur][f] = Inner.ctx
        BY <1>2, <1>3 DEF Live
      <4> QED  BY <1>2, <3>1, <3>2, <4>1
    <3>4. slot'[d][i] \in called' /\ ctx'[slot'[d][i]].base = i + 1
      BY <1>19, <1>20, <2>3, <3>1, <3>2, <3>3
    <3>5. ASSUME NEW e \in Coros, Live(e)', NEW j \in Marks(e)', slot'[e][j] = slot'[d][i]
          PROVE  e = d /\ j = i
      <4>1. Live(e) /\ j \in Marks(e) /\ slot'[e][j] = slot[e][j]
        BY <1>18, <1>22, <3>5
      <4> QED  BY <3>1, <3>2, <3>5, <4>1
    <3> QED  BY <3>4, <3>5
  <2> QED  BY <2>1, <2>2, <2>3 DEF MarksSound
<1>24. CallsMarked'
  <2>1. act' # <<>> /\ cur' # NoCoro
    BY <1>1, <1>6
  <2>2. act'[1].func = 1
    <3>1. 1 \in 1..m
      BY <1>6
    <3> QED  BY <1>1, <1>6, <3>1 DEF CallInv, CallsMarked
  <2>3. act'[Len(act')].func <= top'[cur]
    <3>1. m \in 1..m
      BY <1>6
    <3>2. act[m].func < f /\ act[m].func \in Slots
      BY <1>7, <3>1
    <3>3. act[m].func <= f + n - 1
      BY <1>4, <1>5, <3>2 DEF Slots
    <3> QED  BY <1>6, <1>13, <3>1, <3>3
  <2>4. ASSUME NEW i \in 1..m, NEW j \in 1..m, i < j PROVE act'[i].func < act'[j].func
    BY <1>1, <1>6, <1>7, <2>4 DEF CallInv, CallsMarked
  <2>5. ASSUME NEW i \in 1..m
        PROVE  /\ act'[i].func + MaxStack < NStack
               /\ slot'[cur][act'[i].func] = act'[i].ctx
               /\ act'[i].ctx \in Contexts => ctx'[act'[i].ctx].nres = act'[i].nres
    <3>1. act'[i] = act[i] /\ i \in 1..Len(act) /\ act[i].func < f /\ act[i].func \in Slots
      BY <1>6, <1>7
    <3>2. act[i].func \in 1..(f - 1)
      BY <1>5, <3>1 DEF Slots
    <3>3. slot'[cur][act[i].func] = slot[cur][act[i].func]
      BY <1>13, <1>14, <3>2
    <3> QED  BY <1>1, <1>19, <3>1, <3>3 DEF CallInv, CallsMarked
  <2>6. ASSUME NEW l \in Marks(cur)' PROVE \E i \in 1..m : act'[i].func = l
    <3>1. l \in Marks(cur) /\ l # f
      BY <1>2, <1>16, <1>17, <2>6
    <3>2. PICK i \in 1..Len(act) : act[i].func = l
      BY <1>1, <3>1 DEF CallInv, CallsMarked
    <3>3. i # Len(act)
      BY <1>2, <3>1, <3>2
    <3>4. i \in 1..m
      BY <1>6, <3>3
    <3> QED  BY <1>6, <3>2, <3>4
  <2> QED  BY <1>6, <1>16, <2>1, <2>2, <2>3, <2>4, <2>5, <2>6 DEF CallsMarked
<1>25. YieldSound'
  <2>1. Inner.yield \in BOOLEAN
    BY <1>2 DEF ActType
  <2>2. \A j \in 1..Len(act) : j < Len(act) <=> j \in 1..m
    BY <1>6
  <2>3. Inner.yield <=> \A j \in 1..m : act[j].ctx # Raw
    <3>1. Len(act) \in 1..Len(act)
      BY <1>6
    <3>2. Inner.yield <=> \A j \in 1..Len(act) : j < Len(act) => act[j].ctx # Raw
      BY <1>2, <3>1 DEF CallInv, YieldSound
    <3> QED  BY <1>7, <2>2, <3>2
  <2>4. ASSUME NEW i \in 1..m
        PROVE  act'[i].yield <=> \A j \in 1..m : j < i => act'[j].ctx # Raw
    <3>1. act[i].yield <=> \A j \in 1..Len(act) : j < i => act[j].ctx # Raw
      BY <1>7 DEF CallInv, YieldSound
    <3>2. \A j \in 1..Len(act) : j < i => j \in 1..m
      BY <1>6
    <3> QED  BY <1>6, <1>7, <3>1, <3>2
  <2>5. yield' <=> \A j \in 1..m : act'[j].ctx # Raw
    BY <1>1, <1>6, <2>3
  <2> QED  BY <1>1, <1>6, <2>1, <2>4, <2>5 DEF YieldSound
<1> QED  BY <1>21, <1>23, <1>24, <1>25 DEF CallInv

-----------------------------------------------------------------------------
(* The jump out of all calls, and the way back.                            *)

LEMMA CallsLeft ==
    ASSUME LoopInv, CallInv, Running, NEW to \in {"YIELD", "END"}, Leave(to),
           called' \subseteq Contexts, called \ {Inner.ctx} \subseteq called',
           to = "YIELD" => yield /\ called' = called
    PROVE  CallInv'
<1>1. /\ sta' = [sta EXCEPT ![cur] = to] /\ cur' = NoCoro /\ act' = <<>> /\ yield' = FALSE
      /\ UNCHANGED <<slot, top>>
      /\ ctx' = [x \in Contexts |-> IF \E i \in DOMAIN act : act[i].ctx = x
                                    THEN [ctx[x] EXCEPT !.pct = "dead"] ELSE ctx[x]]
  BY DEF Leave
<1>2. /\ cur # NoCoro /\ cur \in Coros /\ sta[cur] = "RUN" /\ Inner = act[Len(act)]
      /\ Len(act) \in Nat \ {0} /\ \A i \in 1..Len(act) : act[i] \in ActType
  <2>1. cur # NoCoro
    BY DEF Running
  <2> QED  BY <2>1, ActIs
<1>3. /\ sta \in [Coros -> CoroStates] /\ sta'[cur] = to
      /\ \A d \in Coros : d # cur => sta'[d] = sta[d] /\ sta[d] # "RUN"
  BY <1>1, <1>2 DEF LoopInv, Pooled, AtCursor
<1>4. \A d \in Coros : Marks(d)' = Marks(d)
  BY <1>1 DEF Marks
<1>5. /\ ctx' \in [Contexts -> CtxType]
      /\ \A x \in Contexts : ctx'[x].base = ctx[x].base
  <2>1. \A x \in Contexts : ctx[x] \in CtxType
    BY DEF CallInv, CallTypes
  <2>2. \A x \in Contexts : ctx'[x] \in CtxType /\ ctx'[x].base = ctx[x].base
    BY <1>1, <2>1 DEF CtxType
  <2>3. ctx' = [x \in Contexts |-> ctx'[x]]
    BY <1>1
  <2> QED  BY <2>2, <2>3
<1>6. CallTypes'
  <2>1. <<>> \in Seq(ActType)
    OBVIOUS
  <2> QED  BY <1>1, <1>5, <2>1 DEF CallInv, CallTypes
<1>7. CallsMarked' /\ YieldSound'
  <2>1. Len(act') = 0 /\ 1..Len(act') = {}
    BY <1>1
  <2> QED  BY <1>1, <2>1 DEF CallsMarked, YieldSound
<1>8. ASSUME to = "YIELD"
      PROVE  1 \in Marks(cur) /\ \A i \in Marks(cur) : slot[cur][i] # Raw /\ i + MaxStack < NStack
  <2>1. 1 \in Marks(cur)
    <3>1. 1 \in 1..Len(act) /\ act[1].func = 1
      BY <1>2 DEF CallInv, CallsMarked
    <3> QED  BY <1>2, <3>1, FuncsMarked
  <2>2. ASSUME NEW i \in Marks(cur) PROVE slot[cur][i] # Raw /\ i + MaxStack < NStack
    <3>1. PICK k \in 1..Len(act) : act[k].func = i
      BY <1>2 DEF CallInv, CallsMarked
    <3>2. slot[cur][i] = act[k].ctx /\ i + MaxStack < NStack
      BY <1>2, <3>1 DEF CallInv, CallsMarked
    <3>3. act[k].ctx # Raw
      BY <1>8 DEF CallInv, YieldSound
    <3> QED  BY <3>2, <3>3
  <2> QED  BY <2>1, <2>2
<1>9. ASSUME NEW d \in Coros, Live(d)' PROVE Live(d) /\ (d = cur => to = "YIELD")
  BY <1>2, <1>3, <1>9 DEF Live
<1>10. MarksSound'
  <2>1. ASSUME NEW d \in Coros, sta'[d] = "READY" PROVE top'[d] >= 1 /\ Marks(d)' = {}
    <3>1. sta[d] = "READY"
      BY <1>3, <2>1
    <3> QED  BY <1>1, <1>4, <3>1 DEF CallInv, MarksSound
  <2>2. ASSUME NEW d \in Coros, sta'[d] = "YIELD"
        PROVE  1 \in Marks(d)' /\ \A i \in Marks(d)' : slot'[d][i] # Raw /\ i + MaxStack < NStack
    <3>1. CASE d = cur
      <4>1. 1 \in Marks(d) /\ \A i \in Marks(d) : slot[d][i] # Raw /\ i + MaxStack < NStack
        BY <1>3, <1>8, <2>2, <3>1
      <4> QED  BY <1>1, <1>4, <4>1
    <3>2. CASE d # cur
      <4>1. sta[d] = "YIELD"
        BY <1>3, <2>2, <3>2
      <4> QED  BY <1>1, <1>4, <4>1 DEF CallInv, MarksSound
    <3> QED  BY <3>1, <3>2
  <2>3. ASSUME NEW d \in Coros, Live(d)', NEW i \in Marks(d)', slot'[d][i] \in Contexts
        PROVE  /\ slot'[d][i] \in called' /\ ctx'[slot'[d][i]].base = i + 1
               /\ \A e \in Coros : Live(e)' => \A j \in Marks(e)' :
                     slot'[e][j] = slot'[d][i] => e = d /\ j = i
    <3>1. Live(d) /\ i \in Marks(d) /\ slot'[d][i] = slot[d][i]
      BY <1>1, <1>4, <1>9, <2>3
    <3>2. /\ slot[d][i] \in called /\ ctx[slot[d][i]].base = i + 1
          /\ \A e \in Coros : Live(e) => \A j \in Marks(e) :
                slot[e][j] = slot[d][i] => e = d /\ j = i
      BY <2>3, <3>1 DEF CallInv, MarksSound
    <3>3. slot[d][i] \in called'
      <4>1. CASE to = "YIELD"
        BY <3>2, <4>1
      <4>2. CASE to # "YIELD"
        <5>1. d # cur /\ Len(act) \in 1..Len(act)
          BY <1>2, <1>9, <2>3, <4>2
        <5>2. Inner.func \in Marks(cur) /\ slot[cur][Inner.func] = Inner.ctx /\ Live(cur)
          BY <1>2, <5>1, FuncsMarked DEF Live
        <5>3. slot[d][i] # Inner.ctx
          BY <1>2, <3>2, <5>1, <5>2
        <5> QED  BY <3>2, <5>3
      <4> QED  BY <4>1, <4>2
    <3>4. ASSUME NEW e \in Coros, Live(e)', NEW j \in Marks(e)', slot'[e][j] = slot'[d][i]
          PROVE  e = d /\ j = i
      <4>1. Live(e) /\ j \in Marks(e) /\ slot'[e][j] = slot[e][j]
        BY <1>1, <1>4, <1>9, <3>4
      <4> QED  BY <3>1, <3>2, <3>4, <4>1
    <3> QED  BY <1>5, <2>3, <3>1, <3>2, <3>3, <3>4
  <2> QED  BY <2>1, <2>2, <2>3 DEF MarksSound
<1> QED  BY <1>6, <1>7, <1>10 DEF CallInv

(* The activations vm_await makes for a suspended coroutine.               *)
LEMMA Recall ==
    ASSUME LoopInv, CallInv, NEW c \in Coros, AwaitYield(c), NEW q, q = ContextSlots(c)
    PROVE  /\ act' \in Seq(ActType) /\ Len(act') = Len(q)
           /\ \A n \in 1..Len(q) : IsRecall(act'[n], c, q[n])
           /\ ctx' \in [Contexts -> CtxType]
           /\ \A x \in Contexts : ctx'[x].base = ctx[x].base /\ ctx'[x].nres = ctx[x].nres
<1> DEFINE X == Linked(c)
           a == Recalled(c, X, q[1])
<1>1. /\ sta[c] = "YIELD" /\ act' = a
      /\ ctx' = [x \in Contexts |-> IF x = Last(a).ctx THEN [X[x] EXCEPT !.pct = "live"] ELSE X[x]]
  BY DEF AwaitYield
<1>2. /\ X \in [Contexts -> CtxType]
      /\ \A x \in Contexts : X[x].base = ctx[x].base /\ X[x].nres = ctx[x].nres
      /\ a \in Seq(ActType) /\ Len(a) = Len(q)
      /\ \A n \in 1..Len(q) : IsRecall(a[n], c, q[n])
  <2>1. X = Linked(c)
    OBVIOUS
  <2>2. sta[c] = "YIELD" /\ q = ContextSlots(c)
    BY <1>1
  <2> HIDE DEF X
  <2> QED  BY <2>1, <2>2, RecalledIs
<1> HIDE DEF X, a
<1>5. act' \in Seq(ActType) /\ Len(act') = Len(q)
  BY <1>1, <1>2
<1>6. ASSUME NEW x \in Contexts
      PROVE  ctx'[x] \in CtxType /\ ctx'[x].base = ctx[x].base /\ ctx'[x].nres = ctx[x].nres
  <2>1. X[x] \in CtxType /\ (ctx'[x] = X[x] \/ ctx'[x] = [X[x] EXCEPT !.pct = "live"])
    BY <1>1, <1>2
  <2> QED  BY <1>2, <2>1 DEF CtxType
<1>7. ctx' \in [Contexts -> CtxType]
  <2>1. ctx' = [x \in Contexts |-> ctx'[x]]
    BY <1>1
  <2> QED  BY <1>6, <2>1
<1> QED  BY <1>1, <1>2, <1>5, <1>6, <1>7

LEMMA CallsRecalled ==
    ASSUME LoopInv, CallInv, NEW c \in Coros, AwaitYield(c)
    PROVE  CallInv'
<1> DEFINE q == ContextSlots(c)
<1>1. /\ cur = NoCoro /\ sta[c] = "YIELD" /\ cur' = c /\ yield' = TRUE
      /\ sta' = [sta EXCEPT ![c] = "RUN"] /\ UNCHANGED <<slot, top, called>>
      /\ sta \in [Coros -> CoroStates] /\ c # NoCoro
  BY Kinds DEF AwaitYield, Awaits, RunsNow, LoopInv, Pooled
<1>2. /\ act' \in Seq(ActType) /\ Len(act') = Len(q)
      /\ \A n \in 1..Len(q) : IsRecall(act'[n], c, q[n])
      /\ ctx' \in [Contexts -> CtxType]
      /\ \A x \in Contexts : ctx'[x].base = ctx[x].base /\ ctx'[x].nres = ctx[x].nres
  BY Recall
<1>3. /\ Ordered(q, Marks(c)) /\ Len(q) \in 1..NStack-1 /\ q[1] = 1
      /\ \A n \in 1..Len(q) : /\ q[n] \in Slots /\ q[n] + MaxStack < NStack
                              /\ slot[c][q[n]] \in Contexts \cap called
  BY <1>1, SlotsFound
<1> HIDE DEF q
<1>4. /\ Len(q) \in Nat \ {0} /\ 1 \in 1..Len(q) /\ Len(q) \in 1..Len(q)
      /\ \A n, m \in 1..Len(q) : n < m => q[n] < q[m]
      /\ \A n \in 1..Len(q) : q[n] \in Marks(c)
      /\ \A i \in Marks(c) : \E n \in 1..Len(q) : q[n] = i
  <2>1. q \in Seq(Marks(c))
    BY <1>3 DEF Ordered
  <2>2. \A n \in 1..Len(q) : q[n] \in Marks(c)
    BY <2>1, ElementOfSeq
  <2>3. Len(q) \in Nat \ {0} /\ 1 \in 1..Len(q) /\ Len(q) \in 1..Len(q)
    BY <1>3, Kinds
  <2> QED  BY <1>3, <2>2, <2>3 DEF Ordered
<1>5. \A n \in 1..Len(q) : /\ act'[n].func = q[n] /\ act'[n].ctx = slot[c][q[n]]
                          /\ act'[n].nres = ctx[slot[c][q[n]]].nres /\ act'[n].yield = TRUE
  BY <1>2 DEF IsRecall
<1>6. CallTypes'
  BY <1>1, <1>2 DEF CallInv, CallTypes
<1>7. \A d \in Coros : Marks(d)' = Marks(d)
  BY <1>1 DEF Marks
<1>8. CallsMarked'
  <2>1. act' # <<>> /\ act'[1].func = 1
    BY <1>2, <1>3, <1>4, <1>5
  <2>2. act'[Len(act')].func <= top'[c]
    <3>1. q[Len(q)] \in 1..top[c] /\ top[c] \in 0..NStack-1
      BY <1>4 DEF Marks, CallInv, CallTypes
    <3> QED  BY <1>1, <1>2, <1>4, <1>5, <3>1
  <2>3. \A i, j \in 1..Len(act') : i < j => act'[i].func < act'[j].func
    BY <1>2, <1>4, <1>5
  <2>4. \A i \in 1..Len(act') :
           /\ act'[i].func + MaxStack < NStack
           /\ slot'[c][act'[i].func] = act'[i].ctx
           /\ act'[i].ctx \in Contexts => ctx'[act'[i].ctx].nres = act'[i].nres
    BY <1>1, <1>2, <1>3, <1>5
  <2>5. \A s \in Marks(c)' : \E i \in 1..Len(act') : act'[i].func = s
    BY <1>2, <1>4, <1>5, <1>7
  <2> QED  BY <1>1, <2>1, <2>2, <2>3, <2>4, <2>5 DEF CallsMarked
<1>9. YieldSound'
  <2>1. ASSUME NEW i \in 1..Len(act') PROVE act'[i].ctx # Raw /\ act'[i].yield = TRUE
    <3>1. i \in 1..Len(q)
      BY <1>2
    <3>2. slot[c][q[i]] \in Contexts
      BY <1>3, <3>1
    <3>3. act'[i].ctx = slot[c][q[i]] /\ act'[i].yield = TRUE
      BY <1>5, <3>1
    <3> QED  BY <3>2, <3>3, Kinds
  <2> QED  BY <1>1, <2>1 DEF YieldSound
<1>10. \A d \in Coros : d # c => sta'[d] = sta[d]
  BY <1>1
<1>11. sta'[c] = "RUN" /\ Live(c)
  BY <1>1 DEF Live
<1>12. MarksSound'
  <2>1. \A d \in Coros : Live(d)' <=> Live(d)
    BY <1>10, <1>11 DEF Live
  <2>2. ASSUME NEW d \in Coros
        PROVE  /\ sta'[d] = "READY" => top'[d] >= 1 /\ Marks(d)' = {}
               /\ sta'[d] = "YIELD" =>
                     1 \in Marks(d)' /\ \A i \in Marks(d)' : slot'[d][i] # Raw /\ i + MaxStack < NStack
    BY <1>1, <1>7, <1>10, <1>11 DEF CallInv, MarksSound
  <2>3. ASSUME NEW d \in Coros, Live(d)', NEW i \in Marks(d)', slot'[d][i] \in Contexts
        PROVE  /\ slot'[d][i] \in called' /\ ctx'[slot'[d][i]].base = i + 1
               /\ \A e \in Coros : Live(e)' => \A j \in Marks(e)' :
                     slot'[e][j] = slot'[d][i] => e = d /\ j = i
    BY <1>1, <1>2, <1>7, <2>1, <2>3 DEF CallInv, MarksSound
  <2> QED  BY <2>2, <2>3 DEF MarksSound
<1> QED  BY <1>6, <1>8, <1>9, <1>12 DEF CallInv

LEMMA CallStep == LoopInv /\ CallInv /\ [Next]_vars => CallInv'
<1> SUFFICES ASSUME LoopInv, CallInv, [Next]_vars PROVE CallInv'
  OBVIOUS
<1>1. called \subseteq Contexts
  BY DEF CallInv, CallTypes
<1>2. CASE Closed \/ UNCHANGED vars
  <2>1. UNCHANGED <<sta, slot, top, ctx, called, act, cur, yield>>
    BY <1>2 DEF Closed, vars
  <2> QED  BY <1>1, <2>1, CallsUntouched
<1>3. CASE Collect
  <2> DEFINE scanned == {c \in Coros : sta[c] \notin {"none", "END"}}
  <2>1. /\ UNCHANGED <<slot, top, ctx, act, cur, yield>>
        /\ sta' = [c \in Coros |-> IF c \in {d \in Coros : sta[d] = "END"} THEN "none" ELSE sta[c]]
        /\ called' = called \cap SlotsOf(scanned)
    BY <1>3 DEF Collect, Freed, runVars
  <2>2. ASSUME NEW c \in Coros, Live(c), NEW i \in Marks(c), slot[c][i] \in called
        PROVE  slot[c][i] \in called'
    <3>1. c \in scanned
      BY <2>2 DEF Live
    <3>2. slot[c][i] \in {slot[c][j] : j \in 1..top[c]}
      BY <2>2 DEF Marks
    <3>3. slot[c][i] \in SlotsOf(scanned)
      BY <3>1, <3>2 DEF SlotsOf
    <3> QED  BY <2>1, <2>2, <3>3
  <2>3. called' \subseteq Contexts
    BY <1>1, <2>1
  <2> HIDE DEF scanned
  <2> QED  BY <2>1, <2>2, <2>3, CallsUntouched
<1>4. CASE ExecReturn \/ Pass \/ \E c \in Coros : AwaitEnd(c)
  <2>1. UNCHANGED <<sta, slot, top, ctx, called, act, cur, yield>>
    BY <1>4 DEF ExecReturn, Pass, AwaitEnd, vmVars, runVars
  <2> QED  BY <1>1, <2>1, CallsUntouched
<1>5. ASSUME NEW c \in Coros, NEW x \in Contexts, AwaitFails(c, x) PROVE CallInv'
  <2>1. /\ UNCHANGED <<slot, top, ctx, act, cur, yield>> /\ called' = called \cup {x}
        /\ sta[c] = "READY" /\ sta' = [sta EXCEPT ![c] = "END"] /\ sta \in [Coros -> CoroStates]
    BY <1>5 DEF AwaitFails, runVars, LoopInv, Pooled
  <2>2. \A d \in Coros : sta'[d] = sta[d] \/ (sta'[d] \in {"none", "END"} /\ sta[d] # "RUN")
    BY <2>1
  <2> QED  BY <1>1, <2>1, <2>2, CallsUntouched
<1>6. CASE Yield
  BY <1>1, <1>6, CallsLeft DEF Yield
<1>7. CASE Finish
  <2>1. called' \subseteq Contexts /\ called \ {Inner.ctx} \subseteq called'
    BY <1>1, <1>7 DEF Finish
  <2>2. Running /\ Leave("END")
    BY <1>7 DEF Finish
  <2> QED  BY <2>1, <2>2, CallsLeft
<1>8. ASSUME NEW x \in Contexts \cup {Raw}, Fail(x) PROVE CallInv'
  <2>1. called' \subseteq Contexts /\ called \ {Inner.ctx} \subseteq called'
    BY <1>1, <1>8 DEF Fail
  <2>2. Running /\ Leave("END")
    BY <1>8 DEF Fail
  <2> QED  BY <2>1, <2>2, CallsLeft
<1> QED
  BY <1>2, <1>3, <1>4, <1>5, <1>6, <1>7, <1>8, CallsPush, CallsPop, CallsCall, CallsNative,
     CallsReturned, CallsReady, CallsRecalled, CallsAsync
  DEF Next, Instruction, Suspend, Loop

-----------------------------------------------------------------------------
(* Types; the top of a stack stays below its last slot, the pool is a list *)
(* without cycles that holds the coroutines there are.                     *)
THEOREM TypesHold == Spec => []TypeOK
<1>1. LoopInv /\ CallInv => TypeOK
  <2> SUFFICES ASSUME LoopInv, CallInv PROVE TypeOK
    OBVIOUS
  <2>1. DOMAIN pool = 1..Len(pool) /\ DOMAIN act = 1..Len(act)
    BY LenProperties DEF LoopInv, Pooled, CallInv, CallTypes
  <2>2. IsInjective(pool) /\ ToSet(pool) = {c \in Coros : sta[c] # "none"}
    <3>1. \A i \in 1..Len(pool) : pool[i] \in Coros
      BY ElementOfSeq DEF LoopInv, Pooled
    <3> QED  BY <2>1, <3>1 DEF LoopInv, Pooled, IsInjective, ToSet
  <2>3. \A i \in DOMAIN act : act[i].ctx \in Contexts \cup {Raw} /\ act[i].func \in Slots
    <3>1. \A i \in 1..Len(act) : act[i] \in ActType
      BY ElementOfSeq DEF CallInv, CallTypes
    <3> QED  BY <2>1, <3>1 DEF ActType
  <2> QED
    BY <2>2, <2>3 DEF TypeOK, LoopInv, Pooled, LoopTypes, CallInv, CallTypes, YieldSound, CtxType
<1> QED  BY <1>1, LoopInit, LoopStep, CallInit, CallStep, PTL DEF Spec

(* A coroutine may yield exactly when no native code waits for it.         *)
THEOREM YieldIsRight == Spec => []YieldAllowed
<1>1. LoopInv /\ CallInv => YieldAllowed
  <2> SUFFICES ASSUME LoopInv, CallInv PROVE YieldAllowed
    OBVIOUS
  <2>1. DOMAIN act = 1..Len(act)
    BY LenProperties DEF CallInv, CallTypes
  <2> QED  BY <2>1 DEF CallInv, YieldSound, YieldAllowed
<1> QED  BY <1>1, LoopInit, LoopStep, CallInit, CallStep, PTL DEF Spec

(* The contexts from which a suspended coroutine will be recalled, and     *)
(* those of the one that runs, are allocated, each in one slot.            *)
THEOREM ContextsStayHeld == Spec => []ContextsHeld
<1>1. LoopInv /\ CallInv => ContextsHeld
  <2> SUFFICES ASSUME LoopInv, CallInv PROVE ContextsHeld
    OBVIOUS
  <2>1. ASSUME NEW c \in Coros, sta[c] = "YIELD", NEW q, q = ContextSlots(c)
        PROVE  /\ q # <<>> /\ q[1] = 1
               /\ \A i \in DOMAIN q : slot[c][q[i]] \in called
               /\ \A i, j \in DOMAIN q : slot[c][q[i]] = slot[c][q[j]] => i = j
    <3>1. /\ Ordered(q, Marks(c)) /\ Len(q) \in 1..NStack-1 /\ q[1] = 1
          /\ \A n \in 1..Len(q) : slot[c][q[n]] \in Contexts \cap called
          /\ \A n, m \in 1..Len(q) : slot[c][q[n]] = slot[c][q[m]] => n = m
      BY <2>1, SlotsFound
    <3>2. DOMAIN q = 1..Len(q)
      BY <3>1, LenProperties DEF Ordered
    <3>3. q # <<>>
      BY <3>1
    <3> QED  BY <3>1, <3>2, <3>3
  <2>2. ASSUME NEW i \in DOMAIN act PROVE act[i].ctx \in called \cup {Raw}
    <3>1. i \in 1..Len(act) /\ act[i] \in ActType /\ act # <<>>
      BY LenProperties, ElementOfSeq DEF CallInv, CallTypes
    <3>2. cur # NoCoro
      BY <3>1 DEF CallInv, CallsMarked
    <3>3. cur \in Coros /\ Live(cur) /\ act[i].func \in Marks(cur) /\ slot[cur][act[i].func] = act[i].ctx
      BY <3>1, <3>2, ActIs, FuncsMarked DEF Live
    <3> QED  BY <3>1, <3>3 DEF CallInv, MarksSound, ActType
  <2> QED  BY <2>1, <2>2 DEF ContextsHeld
<1> QED  BY <1>1, LoopInit, LoopStep, CallInit, CallStep, PTL DEF Spec

-----------------------------------------------------------------------------
(***************************************************************************)
(* The slots, contexts and activations of the virtual machine keep the     *)
(* promise of module Coroutines: each of its steps is one of theirs, for   *)
(* any number of coroutines, slots and contexts.                           *)
(***************************************************************************)
(* A call that waits for n results, holds v values and has the context x.  *)
Call3(n, v, x) == [nres |-> n, vals |-> v, native |-> x = Raw]
FrameType == [nres : NResults, vals : 0..NStack, native : BOOLEAN]

(* A call described by its parts has them, and may get other values.     *)
LEMMA CallIs ==
    ASSUME NEW n \in NResults, NEW v \in 0..NStack, NEW x
    PROVE  /\ Call3(n, v, x) \in FrameType
           /\ Call3(n, v, x).nres = n /\ Call3(n, v, x).vals = v
           /\ Call3(n, v, x).native = (x = Raw)
           /\ \A w : [Call3(n, v, x) EXCEPT !.vals = w] = Call3(n, w, x)
  BY DEF Call3, FrameType

(* The values of a call end below the next one, or at the top.             *)
ValsOf(i) == (IF i = Len(act) THEN top[cur] ELSE act[i + 1].func - 1) - act[i].func

(* What a running call has on the stack is a number of slots.            *)
LEMMA ValsIs ==
    ASSUME LoopInv, CallInv, cur # NoCoro, NEW i \in 1..Len(act)
    PROVE  ValsOf(i) \in 0..NStack
<1>1. /\ Len(act) \in Nat \ {0} /\ \A j \in 1..Len(act) : act[j] \in ActType
      /\ Inner = act[Len(act)] /\ Inner.func <= top[cur] /\ cur \in Coros
  BY ActIs
<1>2. top[cur] \in 0..NStack-1 /\ act[i].func \in Slots
  BY <1>1 DEF CallInv, CallTypes, ActType
<1>3. CASE i = Len(act)
  BY <1>1, <1>2, <1>3, Kinds DEF ValsOf, Slots
<1>4. CASE i # Len(act)
  <2>1. i + 1 \in 1..Len(act) /\ i < i + 1
    BY <1>1, <1>4
  <2>2. act[i].func < act[i + 1].func /\ act[i + 1].func \in Slots
    BY <1>1, <2>1 DEF CallInv, CallsMarked, ActType
  <2>3. ValsOf(i) = act[i + 1].func - 1 - act[i].func
    BY <1>4 DEF ValsOf
  <2>4. NStack \in Nat
    BY Kinds
  <2> QED  BY <1>2, <2>2, <2>3, <2>4 DEF Slots
<1> QED  BY <1>3, <1>4

(* What FramesOf is, of the coroutine that runs ...                        *)
RunFrames ==
    \A c \in Coros : cur = c =>
        /\ FramesOf(c) \in Seq(FrameType) /\ Len(FramesOf(c)) = Len(act)
        /\ \A i \in 1..Len(act) : FramesOf(c)[i] = Call3(act[i].nres, ValsOf(i), act[i].ctx)

(* The calls of the coroutine that runs are its activations.             *)
LEMMA RunFramesAre == LoopInv /\ CallInv => RunFrames
<1> SUFFICES ASSUME LoopInv, CallInv, NEW c \in Coros, cur = c
             PROVE  /\ FramesOf(c) \in Seq(FrameType) /\ Len(FramesOf(c)) = Len(act)
                    /\ \A i \in 1..Len(act) :
                          FramesOf(c)[i] = Call3(act[i].nres, ValsOf(i), act[i].ctx)
  BY DEF RunFrames
<1>1. cur # NoCoro
  BY Kinds
<1>2. /\ Len(act) \in Nat \ {0} /\ \A i \in 1..Len(act) : act[i] \in ActType
      /\ DOMAIN act = 1..Len(act)
  BY <1>1, ActIs, LenProperties DEF CallInv, CallTypes
<1> DEFINE q == [i \in DOMAIN act |-> act[i].func]
<1>3. Len(q) = Len(act) /\ DOMAIN q = 1..Len(act) /\ \A i \in 1..Len(act) : q[i] = act[i].func
  <2>1. DOMAIN q = 1..Len(act) /\ \A i \in 1..Len(act) : q[i] = act[i].func
    BY <1>2
  <2>2. \A i \in 1..Len(act) : act[i].func \in Slots
    BY <1>2 DEF ActType
  <2>3. q \in [1..Len(act) -> Slots]
    BY <1>2, <2>2
  <2> HIDE DEF q
  <2>4. Len(q) = Len(act)
    BY <1>2, <2>3
  <2> QED  BY <2>1, <2>4
<1> DEFINE e(i) == [nres |-> act[i].nres,
                    vals |-> (IF i = Len(q) THEN top[c] ELSE q[i + 1] - 1) - q[i],
                    native |-> act[i].ctx = Raw]
<1>4. FramesOf(c) = [i \in DOMAIN q |-> e(i)]
  BY DEF FramesOf
<1>5. ASSUME NEW i \in 1..Len(act) PROVE e(i) = Call3(act[i].nres, ValsOf(i), act[i].ctx)
  <2>1. (IF i = Len(q) THEN top[c] ELSE q[i + 1] - 1) - q[i] = ValsOf(i)
    <3>1. i # Len(act) => i + 1 \in 1..Len(act)
      <4>1. Len(act) \in Nat
        BY <1>2
      <4> HIDE DEF q
      <4> QED  BY <4>1
    <3>2. Len(q) = Len(act) /\ q[i] = act[i].func /\ (i # Len(act) => q[i + 1] = act[i + 1].func)
      <4> HIDE DEF q
      <4> QED  BY <1>3, <3>1
    <3> HIDE DEF q
    <3> QED  BY <3>2 DEF ValsOf
  <2> QED  BY <2>1 DEF Call3
<1> HIDE DEF q, e
<1>6. ASSUME NEW i \in 1..Len(act) PROVE e(i) \in FrameType
  <2>1. act[i].nres \in NResults /\ ValsOf(i) \in 0..NStack
    BY <1>1, <1>2, ValsIs DEF ActType
  <2> QED  BY <1>5, <2>1, CallIs
<1>7. FramesOf(c) \in [1..Len(act) -> FrameType]
  BY <1>3, <1>4, <1>6
<1> QED  BY <1>2, <1>3, <1>4, <1>5, <1>7

(* ... of one that is suspended ...                                        *)
LEMMA YieldFrames ==
    ASSUME LoopInv, CallInv, NEW c \in Coros, c # cur, sta[c] = "YIELD",
           NEW q, q = ContextSlots(c)
    PROVE  /\ FramesOf(c) \in Seq(FrameType) /\ Len(FramesOf(c)) = Len(q)
           /\ \A i \in 1..Len(q) :
                 FramesOf(c)[i] = Call3(ctx[slot[c][q[i]]].nres,
                                        (IF i = Len(q) THEN top[c] ELSE q[i + 1] - 1) - q[i],
                                        slot[c][q[i]])
<1>1. /\ Ordered(q, Marks(c)) /\ Len(q) \in 1..NStack-1
      /\ \A i \in 1..Len(q) : q[i] \in Slots /\ slot[c][q[i]] \in Contexts
  BY SlotsFound
<1>2. /\ DOMAIN q = 1..Len(q) /\ \A i \in 1..Len(q) : q[i] \in Marks(c)
      /\ \A i, j \in 1..Len(q) : i < j => q[i] < q[j]
  BY <1>1, LenProperties, ElementOfSeq DEF Ordered
<1> DEFINE v(i) == (IF i = Len(q) THEN top[c] ELSE q[i + 1] - 1) - q[i]
           e(i) == [nres |-> IF slot[c][q[i]] \in Contexts THEN ctx[slot[c][q[i]]].nres ELSE 0,
                    vals |-> v(i), native |-> slot[c][q[i]] = Raw]
<1>3. FramesOf(c) = [i \in DOMAIN q |-> e(i)]
  BY DEF FramesOf
<1>4. ASSUME NEW i \in 1..Len(q) PROVE e(i) = Call3(ctx[slot[c][q[i]]].nres, v(i), slot[c][q[i]])
  BY <1>1 DEF Call3
<1>5. ASSUME NEW i \in 1..Len(q) PROVE v(i) \in 0..NStack
  <2>1. q[i] \in 1..top[c] /\ top[c] \in 0..NStack-1
    BY <1>2 DEF Marks, CallInv, CallTypes
  <2>2. CASE i = Len(q)
    BY <2>1, <2>2, Kinds
  <2>3. CASE i # Len(q)
    <3>1. i + 1 \in 1..Len(q) /\ i < i + 1
      BY <1>1, <2>3, Kinds
    <3>2. q[i] < q[i + 1] /\ q[i + 1] \in 1..top[c]
      BY <1>2, <3>1 DEF Marks
    <3> QED  BY <2>1, <2>3, <3>2, Kinds
  <2> QED  BY <2>2, <2>3
<1> HIDE DEF v, e
<1>6. ASSUME NEW i \in 1..Len(q) PROVE e(i) \in FrameType
  <2>1. ctx[slot[c][q[i]]].nres \in NResults
    BY <1>1 DEF CallInv, CallTypes, CtxType
  <2> QED  BY <1>4, <1>5, <2>1, CallIs
<1>7. FramesOf(c) \in [1..Len(q) -> FrameType] /\ Len(q) \in Nat
  BY <1>1, <1>2, <1>3, <1>6, Kinds
<1>8. FramesOf(c) \in Seq(FrameType) /\ Len(FramesOf(c)) = Len(q)
  BY <1>7
<1>9. ASSUME NEW i \in 1..Len(q)
      PROVE  FramesOf(c)[i] = Call3(ctx[slot[c][q[i]]].nres, v(i), slot[c][q[i]])
  BY <1>2, <1>3, <1>4
<1> QED  BY <1>8, <1>9 DEF v

(* ... and of any other.                                                   *)
LEMMA NoFrames ==
    ASSUME NEW c \in Coros, c # cur, sta[c] # "YIELD"
    PROVE  FramesOf(c) = <<>>
<1> DEFINE q == <<>>
           e(i) == [nres |-> IF slot[c][q[i]] \in Contexts THEN ctx[slot[c][q[i]]].nres ELSE 0,
                    vals |-> (IF i = Len(q) THEN top[c] ELSE q[i + 1] - 1) - q[i],
                    native |-> slot[c][q[i]] = Raw]
<1>1. FramesOf(c) = [i \in DOMAIN q |-> e(i)]
  BY DEF FramesOf
<1>2. DOMAIN q = {}
  OBVIOUS
<1> HIDE DEF e, q
<1>3. FramesOf(c) = [i \in {} |-> e(i)]
  BY <1>1, <1>2
<1> QED  BY <1>3

(* The calls of a coroutine that does not run stay as they are.            *)
LEMMA OtherFrames ==
    ASSUME LoopInv, CallInv, NEW c \in Coros, c # cur, c # cur',
           sta'[c] = "YIELD" <=> sta[c] = "YIELD",
           sta[c] = "YIELD" =>
              /\ slot'[c] = slot[c] /\ top'[c] = top[c]
              /\ \A i \in Marks(c) : slot[c][i] \in Contexts =>
                    ctx'[slot[c][i]].nres = ctx[slot[c][i]].nres
    PROVE  FramesOf(c)' = FramesOf(c)
<1> DEFINE q == IF sta[c] = "YIELD" THEN ContextSlots(c) ELSE <<>>
           e(i) == [nres |-> IF slot[c][q[i]] \in Contexts THEN ctx[slot[c][q[i]]].nres ELSE 0,
                    vals |-> (IF i = Len(q) THEN top[c] ELSE q[i + 1] - 1) - q[i],
                    native |-> slot[c][q[i]] = Raw]
           f(i) == [nres |-> IF slot'[c][q[i]] \in Contexts THEN ctx'[slot'[c][q[i]]].nres ELSE 0,
                    vals |-> (IF i = Len(q) THEN top'[c] ELSE q[i + 1] - 1) - q[i],
                    native |-> slot'[c][q[i]] = Raw]
<1>1. FramesOf(c) = [i \in DOMAIN q |-> e(i)]
  BY DEF FramesOf
<1>2. sta[c] = "YIELD" => ContextSlots(c)' = ContextSlots(c)
  BY DEF ContextSlots
<1>3. FramesOf(c)' = [i \in DOMAIN q |-> f(i)]
  BY <1>2 DEF FramesOf
<1>4. ASSUME NEW i \in DOMAIN q PROVE e(i) = f(i)
  <2>1. sta[c] = "YIELD" /\ q = ContextSlots(c)
    BY <1>4
  <2>2. Ordered(q, Marks(c))
    BY <2>1, SlotsFound
  <2>3. q[i] \in Marks(c)
    BY <1>4, <2>2, LenProperties, ElementOfSeq DEF Ordered
  <2> HIDE DEF q
  <2> QED  BY <2>1, <2>3
<1> HIDE DEF q, e, f
<1> QED  BY <1>1, <1>3, <1>4

-----------------------------------------------------------------------------
(* All that the steps need to know of the calls, before and after.         *)
HeldFrames ==
    \A c \in Coros : c # cur /\ sta[c] = "YIELD" =>
        /\ FramesOf(c) \in Seq(FrameType) /\ Len(FramesOf(c)) = Len(ContextSlots(c))
        /\ \A i \in 1..Len(ContextSlots(c)) :
              FramesOf(c)[i] =
                 Call3(ctx[slot[c][ContextSlots(c)[i]]].nres,
                       (IF i = Len(ContextSlots(c)) THEN top[c] ELSE ContextSlots(c)[i + 1] - 1)
                          - ContextSlots(c)[i],
                       slot[c][ContextSlots(c)[i]])
OtherCalls == \A c \in Coros : c # cur /\ sta[c] # "YIELD" => FramesOf(c) = <<>>

Sound == LoopInv /\ CallInv /\ RunFrames /\ HeldFrames /\ OtherCalls

(* The calls read off the state are sequences of calls, in every state
   that the invariants allow.                                            *)
LEMMA SoundIs == LoopInv /\ CallInv => Sound
<1> SUFFICES ASSUME LoopInv, CallInv PROVE Sound
  OBVIOUS
<1>1. RunFrames
  BY RunFramesAre
<1>2. HeldFrames
  BY YieldFrames DEF HeldFrames
<1>3. OtherCalls
  BY NoFrames DEF OtherCalls
<1> QED  BY <1>1, <1>2, <1>3 DEF Sound

(* The calls of the abstract coroutines.                                   *)
Mapped == [c \in Coros |-> FramesOf(c)]

(* If only the calls of c change, the map of all calls changes there only.*)
LEMMA OneChanges ==
    ASSUME NEW c \in Coros, \A d \in Coros : d # c => FramesOf(d)' = FramesOf(d)
    PROVE  Mapped' = [Mapped EXCEPT ![c] = FramesOf(c)']
  BY DEF Mapped

(* Two sequences with the same elements are the same.                      *)
LEMMA SameSeq ==
    ASSUME NEW S, NEW s \in Seq(S), NEW t \in Seq(S), Len(s) = Len(t),
           \A i \in 1..Len(s) : s[i] = t[i]
    PROVE  s = t
<1>1. s = [i \in 1..Len(s) |-> s[i]] /\ t = [i \in 1..Len(t) |-> t[i]]
  BY LenProperties
<1> QED  BY <1>1

(* The innermost call is another.                                          *)
LEMMA LastIs ==
    ASSUME NEW S, NEW s \in Seq(S), NEW n, n = Len(s), n # 0, NEW x \in S
    PROVE  /\ n \in Nat \ {0} /\ Last(s) = s[n] /\ s[n] \in S
           /\ Front(s) \o <<x>> \in Seq(S) /\ Len(Front(s) \o <<x>>) = n
           /\ \A i \in 1..n-1 : (Front(s) \o <<x>>)[i] = s[i]
           /\ (Front(s) \o <<x>>)[n] = x
<1>1. n \in Nat \ {0} /\ s \in [1..n -> S]
  BY LenProperties
<1>2. Last(s) = s[n] /\ s[n] \in S
  BY <1>1 DEF Last
<1>3. Front(s) = [i \in 1..n-1 |-> s[i]]
  BY <1>1 DEF Front
<1> DEFINE f == Front(s)
<1>4. f \in Seq(S) /\ Len(f) = n - 1 /\ \A i \in 1..n-1 : f[i] = s[i]
  BY <1>1, <1>3
<1> HIDE DEF f
<1>5. /\ f \o <<x>> \in Seq(S) /\ Len(f \o <<x>>) = n
      /\ \A i \in 1..n-1 : (f \o <<x>>)[i] = f[i]
      /\ (f \o <<x>>)[n] = x
  BY <1>1, <1>4
<1> QED  BY <1>1, <1>2, <1>4, <1>5 DEF f

(* The calls of the coroutine that runs, with what is known of them.       *)
LEMMA Running1 ==
    ASSUME Sound, NEW c \in Coros, cur = c
    PROVE  /\ FramesOf(c) \in Seq(FrameType) /\ Len(FramesOf(c)) = Len(act)
           /\ Len(act) \in Nat \ {0} /\ Inner = act[Len(act)] /\ Inner \in ActType
           /\ \A i \in 1..Len(act) :
                 /\ act[i] \in ActType /\ ValsOf(i) \in 0..NStack
                 /\ FramesOf(c)[i] = Call3(act[i].nres, ValsOf(i), act[i].ctx)
           /\ Last(FramesOf(c)) = Call3(Inner.nres, top[c] - Inner.func, Inner.ctx)
           /\ top[c] - Inner.func \in 0..NStack
           /\ FramesOf(c) = Mapped[c]
<1>1. cur # NoCoro
  BY Kinds
<1>2. /\ Len(act) \in Nat \ {0} /\ Inner = act[Len(act)] /\ Inner \in ActType
      /\ \A i \in 1..Len(act) : act[i] \in ActType
  BY <1>1, ActIs DEF Sound
<1>3. /\ FramesOf(c) \in Seq(FrameType) /\ Len(FramesOf(c)) = Len(act)
      /\ \A i \in 1..Len(act) : FramesOf(c)[i] = Call3(act[i].nres, ValsOf(i), act[i].ctx)
  BY DEF Sound, RunFrames
<1>4. \A i \in 1..Len(act) : ValsOf(i) \in 0..NStack
  BY <1>1, ValsIs DEF Sound
<1>5. Len(act) \in 1..Len(act) /\ ValsOf(Len(act)) = top[c] - Inner.func
  BY <1>2 DEF ValsOf
<1>6. Last(FramesOf(c)) = FramesOf(c)[Len(act)]
  BY <1>3 DEF Last
<1>7. top[c] - Inner.func \in 0..NStack
  BY <1>4, <1>5
<1>8. Last(FramesOf(c)) = Call3(Inner.nres, top[c] - Inner.func, Inner.ctx)
  BY <1>2, <1>3, <1>5, <1>6
<1>9. FramesOf(c) = Mapped[c]
  BY DEF Mapped
<1> QED  BY <1>2, <1>3, <1>4, <1>7, <1>8, <1>9

(* The top of the coroutine that runs moves, and nothing else.             *)
LEMMA TopMoves ==
    ASSUME Sound, Sound', NEW c \in Coros, cur = c, cur' = c, act' = act
    PROVE  /\ top'[c] - Inner.func \in 0..NStack
           /\ FramesOf(c)' = Front(FramesOf(c))
                                \o <<[Last(FramesOf(c)) EXCEPT !.vals = top'[c] - Inner.func]>>
<1> DEFINE F == FramesOf(c)
           n == Len(act)
           v == top'[c] - Inner.func
           x == [Last(F) EXCEPT !.vals = v]
<1>1. /\ F \in Seq(FrameType) /\ Len(F) = n /\ n \in Nat \ {0}
      /\ Inner = act[n] /\ Inner.nres \in NResults
      /\ \A i \in 1..n : F[i] = Call3(act[i].nres, ValsOf(i), act[i].ctx)
      /\ Last(F) = Call3(Inner.nres, top[c] - Inner.func, Inner.ctx)
      /\ top[c] - Inner.func \in 0..NStack
  BY Running1 DEF ActType
<1>2. /\ FramesOf(c)' \in Seq(FrameType) /\ Len(FramesOf(c)') = n
      /\ \A i \in 1..n : FramesOf(c)'[i] = Call3(act[i].nres, ValsOf(i)', act[i].ctx)
  BY DEF Sound, RunFrames
<1>3. n \in 1..n /\ ValsOf(n)' = v /\ \A i \in 1..n : i # n => ValsOf(i)' = ValsOf(i)
  BY <1>1 DEF ValsOf
<1>4. v \in 0..NStack
  <2>1. cur' # NoCoro
    BY Kinds
  <2>2. Inner.func <= top'[c] /\ top'[c] \in 0..NStack-1 /\ Inner.func \in Slots
    BY <1>1, <2>1, ActIs DEF Sound, CallInv, CallsMarked, CallTypes, ActType
  <2> QED  BY <2>2, Kinds DEF Slots
<1>5. x = Call3(Inner.nres, v, Inner.ctx) /\ x \in FrameType
  <2> HIDE DEF F, v
  <2>1. x = Call3(Inner.nres, v, Inner.ctx)
    BY <1>1 DEF Call3
  <2> HIDE DEF x
  <2> QED  BY <1>1, <1>4, <2>1, CallIs
<1> HIDE DEF F, x, v, n
<1>6. /\ Front(F) \o <<x>> \in Seq(FrameType) /\ Len(Front(F) \o <<x>>) = n
      /\ \A i \in 1..n-1 : (Front(F) \o <<x>>)[i] = F[i]
      /\ (Front(F) \o <<x>>)[n] = x
  BY <1>1, <1>5, LastIs
<1>7. ASSUME NEW i \in 1..n PROVE FramesOf(c)'[i] = (Front(F) \o <<x>>)[i]
  <2>1. i = n \/ i \in 1..n-1
    BY <1>1
  <2>2. CASE i = n
    BY <1>1, <1>2, <1>3, <1>5, <1>6, <2>2 DEF n
  <2>3. CASE i # n
    BY <1>1, <1>2, <1>3, <1>6, <2>1, <2>3
  <2> QED  BY <2>2, <2>3
<1>8. FramesOf(c)' = Front(F) \o <<x>>
  BY <1>2, <1>6, <1>7, SameSeq
<1> QED  BY <1>4, <1>8 DEF F, x, v

(* The other coroutines, when the contexts of their calls keep their counts*)
(* of results.                                                             *)
OthersKept(c) ==
    \A d \in Coros : d # c =>
        /\ d # cur /\ d # cur' /\ (sta'[d] = "YIELD" <=> sta[d] = "YIELD")
        /\ sta[d] = "YIELD" =>
              /\ slot'[d] = slot[d] /\ top'[d] = top[d]
              /\ \A i \in Marks(d) : slot[d][i] \in Contexts =>
                    ctx'[slot[d][i]].nres = ctx[slot[d][i]].nres

(* A step that keeps the stacks of the others keeps their calls.         *)
LEMMA OneMoves ==
    ASSUME Sound, NEW c \in Coros, OthersKept(c)
    PROVE  Mapped' = [Mapped EXCEPT ![c] = FramesOf(c)']
<1>1. ASSUME NEW d \in Coros, d # c PROVE FramesOf(d)' = FramesOf(d)
  BY <1>1, OtherFrames DEF OthersKept, Sound
<1> QED  BY <1>1, OneChanges

(* The operators of the promise, with those of this module.                *)
LEMMA InnerIs ==
    ASSUME NEW c \in Coros, cur = c
    PROVE  /\ Promise!Inner = Last(Mapped[c])
           /\ \A f : Promise!WithInner(f) = Front(Mapped[c]) \o <<f>>
           /\ \A s : Promise!Last(s) = Last(s) /\ Promise!Front(s) = Front(s)
<1>1. \A s : Promise!Last(s) = Last(s) /\ Promise!Front(s) = Front(s)
  BY DEF Promise!Last, Promise!Front, Last, Front
<1> QED  BY <1>1 DEF Promise!Inner, Promise!WithInner, Mapped

(* lvm_exec, between calls: a move of the top is a computation.          *)
LEMMA MapsCompute ==
    ASSUME Sound, Sound', NEW c \in Coros, cur = c, Push \/ Pop
    PROVE  Promise!Compute
<1>1. /\ cur' = c /\ act' = act /\ sta' = sta /\ ctx' = ctx /\ c # NoCoro
      /\ \A d \in Coros : d # c => slot'[d] = slot[d] /\ top'[d] = top[d]
  BY Kinds DEF Push, Pop, runVars, Sound, CallInv, CallTypes
<1>2. OthersKept(c)
  BY <1>1 DEF OthersKept
<1>3. Mapped' = [Mapped EXCEPT ![c] = FramesOf(c)']
  BY <1>2, OneMoves
<1>4. /\ top'[c] - Inner.func \in 0..NStack
      /\ FramesOf(c)' = Front(FramesOf(c))
                           \o <<[Last(FramesOf(c)) EXCEPT !.vals = top'[c] - Inner.func]>>
  BY <1>1, TopMoves
<1>5. Mapped[c] = FramesOf(c)
  BY DEF Mapped
<1>6. \E v \in 0..NStack : Mapped' = [Mapped EXCEPT ![c] = Front(Mapped[c])
                                          \o <<[Last(Mapped[c]) EXCEPT !.vals = v]>>]
  BY <1>3, <1>4, <1>5
<1>7. PICK v \in 0..NStack : Mapped' = [Mapped EXCEPT ![c] = Front(Mapped[c])
                                          \o <<[Last(Mapped[c]) EXCEPT !.vals = v]>>]
  BY <1>6
<1>8. Mapped' = [Mapped EXCEPT ![cur] = Promise!WithInner([Promise!Inner EXCEPT !.vals = v])]
  BY <1>7, InnerIs
<1> QED
  BY <1>1, <1>8 DEF Promise!Compute, Promise!Vals, Mapped

(* A step that keeps the stacks of all coroutines keeps all calls.       *)
LEMMA NoneMoves ==
    ASSUME Sound, \A d \in Coros : d # cur /\ d # cur', OthersKept(NoCoro)
    PROVE  Mapped' = Mapped
<1>1. ASSUME NEW d \in Coros PROVE FramesOf(d)' = FramesOf(d)
  <2>1. d # NoCoro
    BY Kinds
  <2> QED  BY <2>1, OtherFrames DEF OthersKept, Sound
<1> QED  BY <1>1 DEF Mapped

(* What changes neither stacks nor calls.                                  *)
LEMMA MapsSame ==
    ASSUME Sound, UNCHANGED <<slot, top, ctx, act, cur>>,
           \A d \in Coros : \/ sta'[d] = sta[d]
                            \/ sta[d] # "YIELD" /\ sta'[d] # "YIELD"
    PROVE  Mapped' = Mapped
<1>1. ASSUME NEW d \in Coros PROVE FramesOf(d)' = FramesOf(d)
  <2>1. ContextSlots(d)' = ContextSlots(d) /\ (sta'[d] = "YIELD" <=> sta[d] = "YIELD")
    BY DEF ContextSlots
  <2> HIDE DEF ContextSlots
  <2> QED  BY <2>1 DEF FramesOf
<1> QED  BY <1>1 DEF Mapped

(* A collection frees coroutines that ended: no call is lost.            *)
LEMMA MapsCollect ==
    ASSUME Sound, Collect
    PROVE  Promise!Forget
<1>1. /\ UNCHANGED <<slot, top, ctx, act, cur>>
      /\ sta' = [c \in Coros |-> IF sta[c] = "END" THEN "none" ELSE sta[c]]
  BY DEF Collect, Freed, runVars
<1>2. Mapped' = Mapped
  BY <1>1, MapsSame
<1> QED  BY <1>1, <1>2 DEF Promise!Forget, Mapped

(* An await that does not start a coroutine changes no call.             *)
LEMMA MapsReject ==
    ASSUME Sound, NEW c \in Coros, NEW x \in Contexts, AwaitFails(c, x)
    PROVE  Promise!Reject(c)
<1>1. /\ UNCHANGED <<slot, top, ctx, act, cur>> /\ cur = NoCoro /\ sta[c] = "READY"
      /\ sta' = [sta EXCEPT ![c] = "END"] /\ sta \in [Coros -> CoroStates]
  BY DEF AwaitFails, Awaits, runVars, Sound, LoopInv, Pooled
<1>2. Mapped' = Mapped
  BY <1>1, MapsSame
<1> QED  BY <1>1, <1>2 DEF Promise!Reject, Mapped

(* A coroutine that is made has no call yet.                             *)
LEMMA MapsAsync ==
    ASSUME Sound, Sound', NEW c \in Coros, NEW narg \in 0..MaxStack, Async(c, narg)
    PROVE  Promise!Create(c, narg)
<1>1. /\ sta[c] = "none" /\ sta' = [sta EXCEPT ![c] = "READY"] /\ sta \in [Coros -> CoroStates]
      /\ UNCHANGED <<ctx, act, cur>>
      /\ slot' = [slot EXCEPT ![c] = [i \in Slots |-> Value]]
      /\ slot \in [Coros -> [Slots -> Contexts \cup {Raw, Value}]]
      /\ top \in [Coros -> 0..NStack-1]
  BY DEF Async, runVars, Sound, LoopInv, Pooled, CallInv, CallTypes
<1>2. CASE host = "exec"
  <2>1. cur = NoCoro
    BY <1>2 DEF Sound, LoopInv, AtCursor, LoopTypes
  <2>2. \A d \in Coros : d # c => top'[d] = top[d] /\ slot'[d] = slot[d]
    BY <1>1, <1>2 DEF Async, Running
  <2>3. OthersKept(NoCoro)
    BY <1>1, <2>1, <2>2, Kinds DEF OthersKept
  <2>4. Mapped' = Mapped
    BY <1>1, <2>1, <2>3, Kinds, NoneMoves
  <2> QED  BY <1>1, <2>1, <2>4 DEF Promise!Create, Mapped
<1>3. CASE host # "exec"
  <2>1. /\ Running /\ top[cur] - narg > Inner.func
        /\ top' = [top EXCEPT ![c] = narg + 1, ![cur] = @ - narg - 1]
    BY <1>3 DEF Async
  <2>2. cur # NoCoro /\ cur \in Coros /\ sta[cur] = "RUN" /\ c # cur
    BY <1>1, <2>1 DEF Running, Sound, LoopInv, LoopTypes, AtCursor
  <2> SUFFICES ASSUME NEW r \in Coros, cur = r PROVE Promise!Create(c, narg)
    BY <2>2
  <2>3. /\ top'[r] = top[r] - narg - 1 /\ cur' = r
        /\ \A d \in Coros : d # r /\ d # c => top'[d] = top[d] /\ slot'[d] = slot[d]
    BY <1>1, <2>1, <2>2
  <2>4. OthersKept(r)
    BY <1>1, <2>2, <2>3, Kinds DEF OthersKept
  <2>5. Mapped' = [Mapped EXCEPT ![r] = FramesOf(r)']
    BY <2>4, OneMoves
  <2>6. FramesOf(r)' = Front(FramesOf(r))
                         \o <<[Last(FramesOf(r)) EXCEPT !.vals = top'[r] - Inner.func]>>
    BY <1>1, <2>3, TopMoves
  <2>7. /\ Last(FramesOf(r)) = Call3(Inner.nres, top[r] - Inner.func, Inner.ctx)
        /\ top[r] - Inner.func \in 0..NStack /\ FramesOf(r) = Mapped[r]
        /\ Inner.nres \in NResults /\ Inner.func \in Slots
    BY Running1 DEF ActType
  <2>8. Last(FramesOf(r)).vals = top[r] - Inner.func
    BY <2>7, CallIs
  <2>9. /\ top'[r] - Inner.func = Last(FramesOf(r)).vals - narg - 1
        /\ Last(FramesOf(r)).vals > narg
    BY <1>1, <2>1, <2>2, <2>3, <2>7, <2>8, Kinds DEF Slots
  <2>10. /\ Last(Mapped[r]).vals > narg
         /\ Mapped' = [Mapped EXCEPT ![r] = Front(Mapped[r])
                        \o <<[Last(Mapped[r]) EXCEPT !.vals = Last(Mapped[r]).vals - narg - 1]>>]
    BY <2>5, <2>6, <2>7, <2>9
  <2>11. /\ Promise!Inner.vals > narg
         /\ Mapped' = [Mapped EXCEPT ![cur] =
                          Promise!WithInner([Promise!Inner EXCEPT !.vals = @ - narg - 1])]
    BY <2>10, InnerIs
  <2> QED  BY <1>1, <2>2, <2>11 DEF Promise!Create, Mapped
<1> QED  BY <1>2, <1>3

(* A call is entered: what the frames are afterwards.                      *)
LEMMA FramesGrow ==
    ASSUME Sound, Sound', NEW c \in Coros, cur = c, cur' = c, NEW a, act' = Append(act, a),
           NEW w, w = a.func - 1 - Inner.func, top'[c] = a.func + NParams, a.func \in Nat
    PROVE  /\ a \in ActType /\ w \in 0..NStack
           /\ FramesOf(c)' \in Seq(FrameType) /\ Len(FramesOf(c)') = Len(act) + 1
           /\ \A i \in 1..Len(act) : i # Len(act) => FramesOf(c)'[i] = FramesOf(c)[i]
           /\ FramesOf(c)'[Len(act)] = Call3(Inner.nres, w, Inner.ctx)
           /\ FramesOf(c)'[Len(act) + 1] = Call3(a.nres, NParams, a.ctx)
<1> SUFFICES ASSUME NEW n, n = Len(act)
             PROVE  /\ a \in ActType /\ w \in 0..NStack
                    /\ FramesOf(c)' \in Seq(FrameType) /\ Len(FramesOf(c)') = n + 1
                    /\ \A i \in 1..n : i # n => FramesOf(c)'[i] = FramesOf(c)[i]
                    /\ FramesOf(c)'[n] = Call3(Inner.nres, w, Inner.ctx)
                    /\ FramesOf(c)'[n + 1] = Call3(a.nres, NParams, a.ctx)
  OBVIOUS
<1>1. /\ n \in Nat \ {0} /\ Inner = act[n] /\ Inner.func \in Slots /\ act \in Seq(ActType)
      /\ \A i \in 1..n : FramesOf(c)[i] = Call3(act[i].nres, ValsOf(i), act[i].ctx)
  BY Running1 DEF ActType, Sound, CallInv, CallTypes
<1>2. act' \in Seq(ActType) /\ cur' # NoCoro
  BY Kinds DEF Sound, CallInv, CallTypes
<1>3. /\ Len(act') = n + 1 /\ act'[n + 1] = a /\ n + 1 \in 1..n+1
      /\ \A i \in 1..n : i \in 1..n+1 /\ act'[i] = act[i]
  <2>1. DOMAIN act = 1..n
    BY <1>1, LenProperties
  <2> QED  BY <1>1, <2>1
<1>4. a \in ActType
  <2>1. act'[n + 1] \in ActType
    BY <1>2, <1>3, ElementOfSeq
  <2> QED  BY <1>3, <2>1
<1>5. /\ FramesOf(c)' \in Seq(FrameType) /\ Len(FramesOf(c)') = n + 1
      /\ \A i \in 1..n+1 : FramesOf(c)'[i] = Call3(act'[i].nres, ValsOf(i)', act'[i].ctx)
  BY <1>3 DEF Sound, RunFrames
<1>6. \A i \in 1..n : i # n => i + 1 \in 1..n /\ i # n + 1
  BY <1>1
<1>7. \A i \in 1..n : i # n => ValsOf(i)' = ValsOf(i)
  BY <1>3, <1>6 DEF ValsOf
<1>8. n \in 1..n /\ n # n + 1 /\ ValsOf(n)' = w
  <2>1. n \in 1..n /\ n # n + 1
    BY <1>1
  <2>2. ValsOf(n)' = (IF n = Len(act') THEN top'[cur'] ELSE act'[n + 1].func - 1) - act'[n].func
    BY DEF ValsOf
  <2>3. Len(act') # n /\ act'[n + 1] = a /\ act'[n] = Inner
    BY <1>1, <1>3, <2>1
  <2> QED  BY <2>1, <2>2, <2>3
<1>9. ValsOf(n + 1)' = NParams
  <2>1. ValsOf(n + 1)' = (IF n + 1 = Len(act') THEN top'[cur'] ELSE act'[n + 1 + 1].func - 1)
                            - act'[n + 1].func
    BY DEF ValsOf
  <2>2. n + 1 = Len(act') /\ top'[cur'] = a.func + NParams /\ act'[n + 1].func = a.func
    BY <1>3
  <2>3. ValsOf(n + 1)' = top'[cur'] - act'[n + 1].func
    BY <2>1, <2>2
  <2>4. ValsOf(n + 1)' = (a.func + NParams) - a.func
    BY <2>2, <2>3
  <2> QED  BY <2>4, Kinds
<1>10. w \in 0..NStack
  <2>1. act'[n].func < act'[n + 1].func
    <3>1. n \in 1..n+1 /\ n < n + 1
      BY <1>1
    <3> QED  BY <1>2, <1>3, <3>1 DEF Sound, CallInv, CallsMarked
  <2>2. Inner.func < a.func /\ a.func \in Slots /\ NStack \in Nat
    BY <1>1, <1>3, <1>4, <1>8, <2>1, Kinds DEF ActType
  <2> QED  BY <1>1, <2>2 DEF Slots
<1>11. \A i \in 1..n : i # n => FramesOf(c)'[i] = FramesOf(c)[i]
  BY <1>1, <1>3, <1>5, <1>7
<1>12. FramesOf(c)'[n] = Call3(Inner.nres, w, Inner.ctx)
  <2>1. FramesOf(c)'[n] = Call3(act'[n].nres, ValsOf(n)', act'[n].ctx)
    BY <1>3, <1>5, <1>8
  <2>2. act'[n] = Inner
    BY <1>1, <1>3, <1>8
  <2> QED  BY <1>8, <2>1, <2>2
<1>13. FramesOf(c)'[n + 1] = Call3(a.nres, NParams, a.ctx)
  <2>1. FramesOf(c)'[n + 1] = Call3(act'[n + 1].nres, ValsOf(n + 1)', act'[n + 1].ctx)
    BY <1>3, <1>5
  <2> QED  BY <1>3, <1>9, <2>1
<1> QED  BY <1>4, <1>5, <1>10, <1>11, <1>12, <1>13

(* The contexts of other coroutines are not the one a call is given.       *)
LEMMA OthersEntered ==
    ASSUME Sound, NEW c \in Coros, c = cur \/ cur = NoCoro, NEW x \in Contexts \cup {Raw},
           NEW s, NEW f, NEW n, NEW nres, NEW y, NEW outer,
           Enter(c, s, f, n, nres, x, y, outer), cur' = c, \A d \in Coros : d # c => sta'[d] = sta[d]
    PROVE  OthersKept(c)
<1>1. /\ slot' = [slot EXCEPT ![c] = Entered(s, f, x, n)]
      /\ top' = [top EXCEPT ![c] = f + NParams]
      /\ x # Raw => x \notin Held
      /\ IF x = Raw THEN ctx' = ctx
         ELSE ctx' = [ctx EXCEPT ![x] = [base |-> f + 1, nres |-> nres, next |-> 0, pct |-> "live"]]
  BY DEF Enter
<1> SUFFICES ASSUME NEW d \in Coros, d # c, sta[d] = "YIELD", NEW i \in Marks(d),
                    slot[d][i] \in Contexts
             PROVE  ctx'[slot[d][i]] = ctx[slot[d][i]]
  BY <1>1, Kinds DEF OthersKept, Sound, CallInv, CallTypes
<1>2. x # Raw => slot[d][i] # x
  BY <1>1, HeldMarks DEF Sound, Live
<1>3. CASE x = Raw
  BY <1>1, <1>3
<1>4. CASE x # Raw
  <2>1. ctx' = [ctx EXCEPT ![x] = [base |-> f + 1, nres |-> nres, next |-> 0, pct |-> "live"]]
    BY <1>1, <1>4
  <2>2. slot[d][i] # x /\ ctx \in [Contexts -> CtxType]
    BY <1>2, <1>4 DEF Sound, CallInv, CallTypes
  <2> QED  BY <2>1, <2>2
<1> QED  BY <1>3, <1>4

(* A call is added: the outer calls stay as they are.                    *)
LEMMA OneMore ==
    ASSUME NEW S, NEW s \in Seq(S), NEW n, n = Len(s), NEW x \in S
    PROVE  /\ s \o <<x>> \in Seq(S) /\ Len(s \o <<x>>) = n + 1
           /\ \A i \in 1..n : (s \o <<x>>)[i] = s[i]
           /\ (s \o <<x>>)[n + 1] = x
<1>1. n \in Nat
  BY LenProperties
<1> QED  BY <1>1

(* The promise and the mapping describe a call alike.                    *)
LEMMA FrameIs == \A n, v, x : Promise!Frame(n, v, x = Raw) = Call3(n, v, x)
  BY DEF Promise!Frame, Call3

(* A call by script: the arguments go from the caller to the new call.   *)
LEMMA MapsCall ==
    ASSUME Sound, Sound', NEW c \in Coros, cur = c, NEW narg \in 0..MaxStack, NEW nres \in NResults,
           NEW x \in Contexts \cup {Raw}, Call(narg, nres, x)
    PROVE  Promise!Call(narg, nres, NParams, FALSE)
<1> SUFFICES ASSUME NEW n, n = Len(act), NEW F, F = FramesOf(c), NEW G, G = FramesOf(c)',
                    NEW w, w = top[c] - narg - 1 - Inner.func,
                    NEW o, o = Inner
             PROVE  Promise!Call(narg, nres, NParams, FALSE)
  OBVIOUS
<1>1. /\ cur' = c /\ sta' = sta /\ c # NoCoro /\ top[c] - narg > o.func
      /\ (x = Raw <=> o.ctx = Raw)
      /\ Enter(c, slot[c], top[c] - narg, top[c], nres, x, yield, act)
  BY Kinds DEF Call
<1>2. /\ F \in Seq(FrameType) /\ Len(F) = n /\ n \in Nat \ {0} /\ o = act[n] /\ o \in ActType
      /\ Last(F) = Call3(o.nres, top[c] - o.func, o.ctx) /\ F = Mapped[c]
      /\ top[c] - o.func \in 0..NStack /\ top[c] \in 0..NStack-1
      /\ o.func \in Slots /\ o.nres \in NResults
  BY Running1 DEF Sound, CallInv, CallTypes, ActType
<1>3. OthersKept(c)
  BY <1>1, OthersEntered
<1>4. Mapped' = [Mapped EXCEPT ![c] = G]
  BY <1>3, OneMoves
<1> DEFINE a == Activation(x, top[c] - narg, nres, yield, "call")
<1>5. /\ act' = Append(act, a) /\ top'[c] = a.func + NParams
      /\ a.func = top[c] - narg /\ a.nres = nres /\ a.ctx = x
  BY <1>1, <1>2 DEF Enter, Activation, Sound, CallInv, CallTypes
<1> HIDE DEF a
<1>6. top[c] - narg \in Nat /\ w = a.func - 1 - o.func /\ o.func \in Nat
  <2>1. o.func \in Nat /\ top[c] \in Nat /\ narg \in Nat
    BY <1>2, Kinds DEF Slots
  <2>2. top[c] - narg \in Nat
    BY <1>1, <2>1
  <2> QED  BY <1>5, <2>1, <2>2
<1>7. /\ w \in 0..NStack /\ G \in Seq(FrameType) /\ Len(G) = n + 1
      /\ \A i \in 1..n : i # n => G[i] = F[i]
      /\ G[n] = Call3(o.nres, w, o.ctx) /\ G[n + 1] = Call3(nres, NParams, x)
  BY <1>1, <1>5, <1>6, FramesGrow
<1> DEFINE l == [Last(F) EXCEPT !.vals = w]
           H == Front(F) \o <<l>>
           y == Call3(nres, NParams, x)
<1>8. l = Call3(o.nres, w, o.ctx) /\ l \in FrameType
  <2>1. l = Call3(o.nres, w, o.ctx)
    BY <1>2 DEF Call3
  <2> HIDE DEF l
  <2> QED  BY <1>2, <1>7, <2>1, CallIs
<1> HIDE DEF l
<1>9. y \in FrameType
  <2>1. NParams \in 0..NStack
    BY Kinds
  <2> QED  BY <2>1, CallIs
<1> HIDE DEF y
<1>10. H \in Seq(FrameType) /\ Len(H) = n /\ H[n] = l /\ \A i \in 1..n-1 : H[i] = F[i]
  <2>1. F \in Seq(FrameType) /\ n = Len(F) /\ n # 0 /\ l \in FrameType
    BY <1>2, <1>8
  <2> QED  BY <2>1, LastIs
<1> HIDE DEF H
<1>11. /\ H \o <<y>> \in Seq(FrameType) /\ Len(H \o <<y>>) = n + 1
       /\ \A i \in 1..n : (H \o <<y>>)[i] = H[i]
       /\ (H \o <<y>>)[n + 1] = y
  BY <1>9, <1>10, OneMore
<1>12. ASSUME NEW i \in 1..n+1 PROVE G[i] = (H \o <<y>>)[i]
  <2>1. \/ i \in 1..n-1 /\ i # n /\ i \in 1..n
        \/ i = n /\ n \in 1..n
        \/ i = n + 1
    BY <1>2
  <2> QED  BY <1>7, <1>8, <1>10, <1>11, <2>1 DEF y
<1>13. G = H \o <<y>>
  BY <1>7, <1>11, <1>12, SameSeq
<1>14. Promise!Inner = Last(F) /\ Promise!WithInner(l) = H
  BY <1>2, InnerIs DEF H
<1>15. /\ Promise!Inner.vals = top[c] - o.func
       /\ Promise!Inner.native = (o.ctx = Raw)
  BY <1>2, <1>14, CallIs
<1>16. Promise!Inner.vals > narg /\ w = Promise!Inner.vals - narg - 1
  <2>1. o.func \in Int /\ top[c] \in Int /\ narg \in Int
    BY <1>2, Kinds DEF Slots
  <2> QED  BY <1>1, <1>15, <2>1
<1>17. l = [Promise!Inner EXCEPT !.vals = @ - narg - 1]
  BY <1>14, <1>16 DEF l
<1>18. y = Promise!Frame(nres, NParams, FALSE \/ Promise!Inner.native)
  <2>1. (FALSE \/ Promise!Inner.native) = (x = Raw)
    BY <1>1, <1>15
  <2>2. Promise!Frame(nres, NParams, x = Raw) = y
    BY FrameIs DEF y
  <2> QED  BY <2>1, <2>2
<1>19. Mapped' = [Mapped EXCEPT ![cur] =
                    Promise!WithInner([Promise!Inner EXCEPT !.vals = @ - narg - 1])
                    \o <<Promise!Frame(nres, NParams, FALSE \/ Promise!Inner.native)>>]
  BY <1>4, <1>13, <1>14, <1>17, <1>18
<1> QED  BY <1>1, <1>16, <1>19 DEF Promise!Call, Mapped

(* A call by native code, which the coroutine cannot yield through.      *)
LEMMA MapsNative ==
    ASSUME Sound, Sound', NEW c \in Coros, cur = c, NEW narg \in 1..2, NEW nres \in {0, 1},
           NativeCall(narg, nres)
    PROVE  Promise!NativeCall(nres, NParams)
<1> SUFFICES ASSUME NEW n, n = Len(act), NEW F, F = FramesOf(c), NEW G, G = FramesOf(c)',
                    NEW w, w = top[c] - Inner.func, NEW o, o = Inner
             PROVE  Promise!NativeCall(nres, NParams)
  OBVIOUS
<1> DEFINE f == top[c] + 1
           p == [i \in Slots |-> IF i \in f..f+narg THEN Value ELSE slot[c][i]]
           a == Activation(Raw, f, nres, yield, "call")
<1>1. /\ cur' = c /\ sta' = sta /\ c # NoCoro
      /\ Enter(c, p, f, f + narg, nres, Raw, yield, act)
  BY Kinds DEF NativeCall
<1> HIDE DEF p
<1>2. /\ F \in Seq(FrameType) /\ Len(F) = n /\ n \in Nat \ {0}
      /\ Last(F) = Call3(o.nres, w, o.ctx) /\ F = Mapped[c]
      /\ o.func \in Slots /\ top[c] \in 0..NStack-1
  BY Running1 DEF Sound, CallInv, CallTypes, ActType
<1>3. OthersKept(c)
  BY <1>1, OthersEntered
<1>4. Mapped' = [Mapped EXCEPT ![c] = G]
  BY <1>3, OneMoves
<1>5. /\ act' = Append(act, a) /\ top'[c] = a.func + NParams
      /\ a.func = top[c] + 1 /\ a.nres = nres /\ a.ctx = Raw
  BY <1>1, <1>2 DEF Enter, Activation, Sound, CallInv, CallTypes
<1> HIDE DEF a
<1>6. a.func \in Nat /\ w = a.func - 1 - o.func
  <2>1. NStack \in Nat
    BY Kinds
  <2>2. o.func \in Int /\ top[c] \in Nat
    BY <1>2, <2>1 DEF Slots
  <2>3. w = top[c] - o.func
    OBVIOUS
  <2>4. a.func = top[c] + 1
    BY <1>5
  <2> QED  BY <2>2, <2>3, <2>4
<1>7. /\ G \in Seq(FrameType) /\ Len(G) = n + 1
      /\ \A i \in 1..n : i # n => G[i] = F[i]
      /\ G[n] = Call3(o.nres, w, o.ctx) /\ G[n + 1] = Call3(nres, NParams, Raw)
  BY <1>1, <1>5, <1>6, FramesGrow
<1> DEFINE y == Call3(nres, NParams, Raw)
<1>8. y \in FrameType
  <2>1. NParams \in 0..NStack /\ nres \in NResults
    BY Kinds DEF NResults
  <2> QED  BY <2>1, CallIs
<1> HIDE DEF y
<1>9. /\ F \o <<y>> \in Seq(FrameType) /\ Len(F \o <<y>>) = n + 1
      /\ \A i \in 1..n : (F \o <<y>>)[i] = F[i]
      /\ (F \o <<y>>)[n + 1] = y
  <2>1. F \in Seq(FrameType) /\ n = Len(F) /\ y \in FrameType
    BY <1>2, <1>8
  <2> QED  BY <2>1, OneMore
<1>10. F[n] = G[n] /\ n \in 1..n
  BY <1>2, <1>7 DEF Last
<1>11. ASSUME NEW i \in 1..n+1 PROVE G[i] = (F \o <<y>>)[i]
  <2>1. (i \in 1..n /\ i # n) \/ i = n \/ i = n + 1
    BY <1>2
  <2> QED  BY <1>7, <1>9, <1>10, <2>1 DEF y
<1>12. G = F \o <<y>>
  BY <1>7, <1>9, <1>11, SameSeq
<1>13. y = Promise!Frame(nres, NParams, TRUE)
  BY DEF y, Call3, Promise!Frame
<1>14. Mapped' = [Mapped EXCEPT ![c] = Mapped[c] \o <<Promise!Frame(nres, NParams, TRUE)>>]
  BY <1>2, <1>4, <1>12, <1>13
<1>15. Mapped' = [Mapped EXCEPT ![cur] = @ \o <<Promise!Frame(nres, NParams, TRUE)>>]
  BY <1>14 DEF Mapped
<1> QED  BY <1>1, <1>15 DEF Promise!NativeCall, Mapped

(* The first resume of a coroutine starts its first call.                *)
LEMMA MapsStart ==
    ASSUME Sound, Sound', NEW c \in Coros, NEW x \in Contexts, AwaitReady(c, x)
    PROVE  Promise!Start(c)
<1>1. /\ cur = NoCoro /\ cur' = c /\ sta[c] = "READY" /\ sta' = [sta EXCEPT ![c] = "RUN"]
      /\ Enter(c, slot[c], 1, top[c], 0, x, TRUE, <<>>) /\ sta \in [Coros -> CoroStates]
  BY DEF AwaitReady, Awaits, RunsNow, Sound, LoopInv, Pooled
<1>2. OthersKept(c)
  <2>1. \A d \in Coros : d # c => sta'[d] = sta[d]
    BY <1>1
  <2> QED  BY <1>1, <2>1, OthersEntered
<1>3. Mapped' = [Mapped EXCEPT ![c] = FramesOf(c)']
  BY <1>2, OneMoves
<1> DEFINE a == Activation(x, 1, 0, TRUE, "call")
<1>4. act' = <<a>> /\ top'[c] = 1 + NParams /\ a.func = 1 /\ a.nres = 0 /\ a.ctx = x
  BY <1>1 DEF Enter, Activation, Sound, CallInv, CallTypes
<1> HIDE DEF a
<1>5. Len(act') = 1 /\ act'[1] = a
  BY <1>4
<1>6. /\ FramesOf(c)' \in Seq(FrameType) /\ Len(FramesOf(c)') = 1
      /\ FramesOf(c)'[1] = Call3(0, ValsOf(1)', x)
  <2>1. 1 \in 1..1
    OBVIOUS
  <2> QED  BY <1>1, <1>4, <1>5, <2>1 DEF Sound, RunFrames
<1>7. ValsOf(1)' = NParams
  <2>1. ValsOf(1)' = (IF 1 = Len(act') THEN top'[cur'] ELSE act'[1 + 1].func - 1) - act'[1].func
    BY DEF ValsOf
  <2>2. ValsOf(1)' = (1 + NParams) - 1
    BY <1>1, <1>4, <1>5, <2>1
  <2> QED  BY <2>2, Kinds
<1>8. FramesOf(c)' = <<Call3(0, NParams, x)>>
  <2> DEFINE y == Call3(0, NParams, x)
  <2>1. FramesOf(c)'[1] = y /\ y \in FrameType
    <3>1. 0 \in NResults /\ NParams \in 0..NStack
      BY Kinds DEF NResults
    <3> QED  BY <1>6, <1>7, <3>1, CallIs
  <2> HIDE DEF y
  <2>2. <<y>> \in Seq(FrameType) /\ Len(<<y>>) = 1 /\ <<y>>[1] = y
    BY <2>1
  <2>3. \A i \in 1..1 : FramesOf(c)'[i] = <<y>>[i]
    BY <2>1, <2>2
  <2>4. FramesOf(c)' = <<y>>
    BY <1>6, <2>2, <2>3, SameSeq
  <2> QED  BY <2>4 DEF y
<1>9. Call3(0, NParams, x) = Promise!Frame(0, NParams, FALSE)
  <2>1. (x = Raw) = FALSE
    BY Kinds
  <2> QED  BY <2>1 DEF Call3, Promise!Frame
<1>10. NParams \in 0..NStack
  BY Kinds
<1> QED  BY <1>1, <1>3, <1>8, <1>9, <1>10 DEF Promise!Start, Promise!Vals, Mapped

(* The calls but the innermost.                                            *)
LEMMA OuterIs ==
    ASSUME NEW S, NEW s \in Seq(S), NEW m, m \in Nat \ {0}, Len(s) = m + 1
    PROVE  /\ Front(s) \in Seq(S) /\ Len(Front(s)) = m /\ Last(Front(s)) = s[m]
           /\ \A i \in 1..m : Front(s)[i] = s[i]
<1> DEFINE f == Front(s)
<1>1. s \in [1..m+1 -> S] /\ (m + 1) - 1 = m
  BY LenProperties
<1>2. f = SubSeq(s, 1, m)
  BY <1>1 DEF Front
<1>3. f = [i \in 1..m |-> s[i]]
  BY <1>1, <1>2
<1> HIDE DEF f
<1>4. f \in Seq(S) /\ Len(f) = m /\ \A i \in 1..m : f[i] = s[i]
  BY <1>1, <1>3
<1>5. Last(f) = s[m]
  <2>1. m \in 1..m
    OBVIOUS
  <2> QED  BY <1>4, <2>1 DEF Last
<1> QED  BY <1>4, <1>5 DEF f

(* The calls but the innermost are the same calls.                       *)
LEMMA OuterAt ==
    ASSUME NEW S, NEW s \in Seq(S), NEW i \in 1..Len(s)-1
    PROVE  Front(s)[i] = s[i]
<1> SUFFICES ASSUME NEW m, m = Len(s) PROVE Front(s)[i] = s[i]
  OBVIOUS
<1>1. m \in Nat /\ s \in [1..m -> S] /\ i \in 1..m-1
  BY LenProperties
<1>2. Front(s) = [j \in 1..m-1 |-> s[j]]
  BY <1>1 DEF Front
<1> QED  BY <1>1, <1>2

(* The innermost call is replaced by another, or the two innermost are.    *)
Instead(s, x) == Front(s) \o <<x>>
Merged(s, x) == Instead(Front(s), x)

(* Another call takes the place of the innermost.                        *)
LEMMA InsteadIs ==
    ASSUME NEW S, NEW s \in Seq(S), Len(s) # 0, NEW x \in S
    PROVE  /\ Instead(s, x) \in Seq(S) /\ Len(Instead(s, x)) = Len(s)
           /\ Instead(s, x)[Len(s)] = x
<1> SUFFICES ASSUME NEW m, m = Len(s)
             PROVE  Instead(s, x) \in Seq(S) /\ Len(Instead(s, x)) = m /\ Instead(s, x)[m] = x
  OBVIOUS
<1>1. m \in Nat \ {0} /\ s \in [1..m -> S]
  BY LenProperties
<1> DEFINE f == Front(s)
<1>2. f = [i \in 1..m-1 |-> s[i]]
  BY <1>1 DEF Front
<1> HIDE DEF f
<1>3. f \in Seq(S) /\ Len(f) = m - 1
  BY <1>1, <1>2
<1>4. Instead(s, x) = f \o <<x>>
  BY DEF Instead, f
<1> QED  BY <1>1, <1>3, <1>4

(* ... and the outer calls are not touched.                              *)
LEMMA InsteadAt ==
    ASSUME NEW S, NEW s \in Seq(S), NEW x \in S, NEW i \in 1..Len(s), i # Len(s)
    PROVE  Instead(s, x)[i] = s[i]
<1> SUFFICES ASSUME NEW m, m = Len(s) PROVE Instead(s, x)[i] = s[i]
  OBVIOUS
<1>1. m \in Nat \ {0} /\ s \in [1..m -> S] /\ i \in 1..m-1
  BY LenProperties
<1> DEFINE f == Front(s)
<1>2. f = [j \in 1..m-1 |-> s[j]]
  BY <1>1 DEF Front
<1> HIDE DEF f
<1>3. f \in Seq(S) /\ Len(f) = m - 1 /\ f[i] = s[i]
  BY <1>1, <1>2
<1>4. Instead(s, x) = f \o <<x>>
  BY DEF Instead, f
<1> QED  BY <1>1, <1>3, <1>4

(* The calls that remain when the two innermost of s become one, x.        *)
LEMMA MergedIs ==
    ASSUME NEW S, NEW s \in Seq(S), NEW f, f = Front(s), f \in Seq(S), Len(f) # 0, NEW x \in S
    PROVE  /\ Merged(s, x) \in Seq(S) /\ Len(Merged(s, x)) = Len(f)
           /\ Merged(s, x)[Len(f)] = x
<1>1. Merged(s, x) = Instead(f, x)
  BY DEF Merged
<1>2. /\ Instead(f, x) \in Seq(S) /\ Len(Instead(f, x)) = Len(f)
      /\ Instead(f, x)[Len(f)] = x
  BY InsteadIs
<1> QED  BY <1>1, <1>2

(* The outer calls stay when the two innermost become one.               *)
LEMMA MergedAt ==
    ASSUME NEW S, NEW s \in Seq(S), NEW f, f = Front(s), f \in Seq(S), NEW x \in S,
           NEW i \in 1..Len(f), i # Len(f)
    PROVE  Merged(s, x)[i] = f[i]
<1>1. Merged(s, x) = Instead(f, x)
  BY DEF Merged
<1>2. Instead(f, x)[i] = f[i]
  BY InsteadAt
<1> QED  BY <1>1, <1>2

(* A return adds its results to what the outer call has on the stack.      *)
LEMMA Grown ==
    ASSUME NEW a \in Int, NEW b \in Int, NEW d \in Int, NEW w, w = (a + d - 1) - b
    PROVE  w = (a - 1 - b) + d
OBVIOUS

(* A return gives the caller the results it waits for.                   *)
LEMMA MapsReturn ==
    ASSUME Sound, Sound', NEW c \in Coros, cur = c, NEW k \in 0..MaxStack, Return(k)
    PROVE  Promise!Return(k)
<1> SUFFICES ASSUME NEW n, n = Len(act), NEW F, F = FramesOf(c), NEW G, G = FramesOf(c)',
                    NEW o, o = Inner, NEW r, r = IF o.nres = -1 THEN k ELSE o.nres,
                    NEW v, v = ValsOf(n - 1), NEW z, z = act[n - 1]
             PROVE  Promise!Return(k)
  OBVIOUS
<1>1. /\ cur' = c /\ sta' = sta /\ c # NoCoro /\ n > 1 /\ k <= top[c] - o.func
      /\ top' = [top EXCEPT ![cur] = o.func + r - 1] /\ act' = Front(act)
      /\ slot' = [slot EXCEPT ![cur] = Moved(@, o.func, top[cur], k, o.nres)]
      /\ ctx' = IF o.kind = "recall" THEN [ctx EXCEPT ![Last(Front(act)).ctx].pct = "live"] ELSE ctx
  BY Kinds DEF Return
<1>2. /\ F \in Seq(FrameType) /\ Len(F) = n /\ n \in Nat \ {0} /\ o = act[n]
      /\ \A i \in 1..n : /\ act[i] \in ActType
                         /\ F[i] = Call3(act[i].nres, ValsOf(i), act[i].ctx)
      /\ Last(F) = Call3(o.nres, top[c] - o.func, o.ctx) /\ F = Mapped[c]
      /\ top[c] - o.func \in 0..NStack /\ o.nres \in NResults /\ o.func \in Slots
  BY Running1 DEF ActType
<1>3. n - 1 \in 1..n /\ n - 1 # n /\ (n - 1) + 1 = n /\ n - 1 \in Nat \ {0}
  BY <1>1, <1>2
<1>4. /\ top'[c] = o.func + r - 1 /\ ctx \in [Contexts -> CtxType] /\ act \in Seq(ActType)
      /\ \A d \in Coros : d # c => slot'[d] = slot[d] /\ top'[d] = top[d]
  BY <1>1 DEF Sound, CallInv, CallTypes
<1>5. \A x \in Contexts : ctx'[x].nres = ctx[x].nres
  <2>1. \A x \in Contexts : ctx[x] \in CtxType
    BY <1>4
  <2> QED  BY <1>1, <1>4, <2>1 DEF CtxType
<1>6. OthersKept(c)
  BY <1>1, <1>4, <1>5, Kinds DEF OthersKept
<1>7. Mapped' = [Mapped EXCEPT ![c] = G]
  BY <1>6, OneMoves
<1>8. /\ Len(act') = n - 1 /\ \A i \in 1..n-1 : act'[i] = act[i] /\ i \in 1..n
  <2>1. act' = SubSeq(act, 1, n - 1)
    BY <1>1 DEF Front
  <2>2. \A i \in 1..n-1 : i \in 1..n
    BY <1>2
  <2>3. 1..(n - 1) \subseteq 1..n
    BY <2>2
  <2> QED  BY <1>2, <1>3, <1>4, <2>1, <2>2, <2>3, SubSeqProperties
<1>9. /\ G \in Seq(FrameType) /\ Len(G) = n - 1
      /\ \A i \in 1..n-1 : G[i] = Call3(act[i].nres, ValsOf(i)', act[i].ctx)
  BY <1>1, <1>8 DEF Sound, RunFrames
<1>10. v = o.func - 1 - z.func /\ z \in ActType /\ F[n - 1] = Call3(z.nres, v, z.ctx)
  <2>1. v = (IF n - 1 = Len(act) THEN top[cur] ELSE act[(n - 1) + 1].func - 1) - act[n - 1].func
    BY DEF ValsOf
  <2> QED  BY <1>2, <1>3, <2>1
<1>11. ValsOf(n - 1)' = v + r
  <2>1. ValsOf(n - 1)' = (IF n - 1 = Len(act') THEN top'[cur'] ELSE act'[(n - 1) + 1].func - 1)
                            - act'[n - 1].func
    BY DEF ValsOf
  <2>2. n - 1 \in 1..n-1
    BY <1>3
  <2>3. ValsOf(n - 1)' = (o.func + r - 1) - z.func
    BY <1>1, <1>4, <1>8, <2>1, <2>2
  <2>4. o.func \in Int /\ z.func \in Int
    BY <1>2, <1>10 DEF Slots, ActType
  <2>5. r \in Int
    BY <1>2 DEF NResults
  <2>7. ValsOf(n - 1)' = (o.func - 1 - z.func) + r
    <3> DEFINE a == o.func
                b == z.func
                w == ValsOf(n - 1)'
    <3>1. a \in Int /\ b \in Int /\ w = (a + r - 1) - b
      BY <2>3, <2>4
    <3> HIDE DEF a, b, w
    <3>2. w = (a - 1 - b) + r
      BY <2>5, <3>1, Grown
    <3> QED  BY <3>2 DEF a, b, w
  <2> QED  BY <1>10, <2>7
<1>12. \A i \in 1..n-1 : i # n - 1 => ValsOf(i)' = ValsOf(i)
  <2> SUFFICES ASSUME NEW i \in 1..n-1, i # n - 1 PROVE ValsOf(i)' = ValsOf(i)
    OBVIOUS
  <2>1. i # n /\ i + 1 \in 1..n-1 /\ i # Len(act') /\ i # Len(act)
    BY <1>3, <1>8
  <2>2. act'[i] = act[i] /\ act'[i + 1] = act[i + 1]
    BY <1>8, <2>1
  <2> QED  BY <2>1, <2>2 DEF ValsOf
<1> DEFINE O == Front(F)
           l == [Last(O) EXCEPT !.vals = @ + r]
<1>13. F \in Seq(FrameType) /\ n - 1 \in Nat \ {0} /\ Len(F) = (n - 1) + 1
  BY <1>2, <1>3
<1>14. Last(O) = Call3(z.nres, v, z.ctx)
  <2>1. Last(Front(F)) = F[n - 1]
    BY <1>13, OuterIs
  <2> QED  BY <1>10, <2>1
<1> HIDE DEF O
<1>15. l = Call3(z.nres, v + r, z.ctx) /\ l = G[n - 1] /\ l \in FrameType
  <2>1. l = Call3(z.nres, v + r, z.ctx)
    BY <1>14 DEF Call3
  <2>2. n - 1 \in 1..n-1
    BY <1>3
  <2> HIDE DEF l
  <2>3. l = G[n - 1]
    BY <1>9, <1>11, <2>1, <2>2
  <2>4. G[n - 1] \in FrameType
    BY <1>9, <2>2, ElementOfSeq
  <2> QED  BY <2>1, <2>3, <2>4
<1> HIDE DEF l
<1> DEFINE H == Front(O) \o <<l>>
<1>16. /\ H \in Seq(FrameType) /\ Len(H) = n - 1 /\ H[n - 1] = l
       /\ \A i \in 1..n-1 : i # n - 1 => H[i] = F[i]
  <2>1. /\ O = Front(F) /\ O \in Seq(FrameType) /\ Len(O) = n - 1
        /\ \A i \in 1..n-1 : O[i] = F[i]
    <3>1. /\ Front(F) \in Seq(FrameType) /\ Len(Front(F)) = n - 1
      BY <1>13, OuterIs
    <3>2. ASSUME NEW i \in 1..n-1 PROVE Front(F)[i] = F[i]
      <4>1. F \in Seq(FrameType) /\ i \in 1..Len(F)-1
        BY <1>2, <1>13
      <4> QED  BY <4>1, OuterAt
    <3> QED  BY <3>1, <3>2 DEF O
  <2>2. H = Merged(F, l)
    BY DEF O, Merged, Instead
  <2>3. l \in FrameType
    BY <1>15
  <2> HIDE DEF H, l
  <2>4. Len(O) # 0 /\ F \in Seq(FrameType) /\ O \in Seq(FrameType) /\ O = Front(F)
    BY <1>13, <2>1
  <2>5. /\ Merged(F, l) \in Seq(FrameType) /\ Len(Merged(F, l)) = Len(O)
        /\ Merged(F, l)[Len(O)] = l
    BY <2>3, <2>4, MergedIs
  <2>6. ASSUME NEW i \in 1..Len(O), i # Len(O) PROVE Merged(F, l)[i] = O[i]
    BY <2>3, <2>4, <2>6, MergedAt
  <2> QED  BY <2>1, <2>2, <2>5, <2>6
<1> HIDE DEF H
<1>17. ASSUME NEW i \in 1..n-1 PROVE G[i] = H[i]
  <2>1. CASE i = n - 1
    BY <1>15, <1>16, <2>1
  <2>2. CASE i # n - 1
    <3>1. H[i] = F[i] /\ i \in 1..n
      BY <1>8, <1>16, <2>2
    <3>2. G[i] = Call3(act[i].nres, ValsOf(i), act[i].ctx)
      BY <1>9, <1>12, <2>2
    <3> QED  BY <1>2, <3>1, <3>2
  <2> QED  BY <2>1, <2>2
<1>18. G = H
  BY <1>9, <1>16, <1>17, SameSeq
<1>19. /\ Promise!Inner = Last(F) /\ Promise!Inner.vals = top[c] - o.func
       /\ Promise!Inner.nres = o.nres
       /\ \A s : Promise!Last(s) = Last(s) /\ Promise!Front(s) = Front(s)
  <2>1. Promise!Inner = Last(F)
    BY <1>2, InnerIs
  <2> QED  BY <1>2, <2>1, InnerIs, CallIs
<1>20. Mapped' = [Mapped EXCEPT ![cur] =
                    Promise!Front(Promise!Front(Mapped[cur]))
                    \o <<[Promise!Last(Promise!Front(Mapped[cur])) EXCEPT !.vals = @ + r]>>]
  <2>1. Mapped[cur] = F
    BY <1>2
  <2> QED  BY <1>7, <1>18, <1>19, <2>1 DEF H, l, O
<1>21. Len(Mapped[cur]) > 1 /\ k <= Promise!Inner.vals
       /\ r = IF Promise!Inner.nres = -1 THEN k ELSE Promise!Inner.nres
  BY <1>1, <1>2, <1>19
<1> QED  BY <1>1, <1>20, <1>21 DEF Promise!Return, Mapped

(* What a jump out of vm_await leaves of the other coroutines.             *)
LEMMA OthersLeft ==
    ASSUME Sound, NEW c \in Coros, cur = c, NEW to \in {"YIELD", "END"}, Leave(to)
    PROVE  /\ OthersKept(c) /\ cur' = NoCoro /\ sta' = [sta EXCEPT ![c] = to]
           /\ sta'[c] = to /\ slot' = slot /\ top' = top
           /\ \A x \in Contexts : ctx'[x].nres = ctx[x].nres
<1>1. /\ sta' = [sta EXCEPT ![c] = to] /\ cur' = NoCoro /\ slot' = slot /\ top' = top
      /\ ctx' = [x \in Contexts |-> IF \E i \in DOMAIN act : act[i].ctx = x
                                    THEN [ctx[x] EXCEPT !.pct = "dead"] ELSE ctx[x]]
      /\ sta \in [Coros -> CoroStates] /\ ctx \in [Contexts -> CtxType]
  BY DEF Leave, Sound, LoopInv, Pooled, CallInv, CallTypes
<1>2. \A x \in Contexts : ctx'[x].nres = ctx[x].nres
  BY <1>1 DEF CtxType
<1>3. OthersKept(c)
  BY <1>1, <1>2, Kinds DEF OthersKept
<1> QED  BY <1>1, <1>2, <1>3

(* The return of the first call ends the coroutine.                      *)
LEMMA MapsEnd ==
    ASSUME Sound, Sound', NEW c \in Coros, cur = c, Leave("END")
    PROVE  Promise!End
<1>1. /\ OthersKept(c) /\ cur' = NoCoro /\ sta' = [sta EXCEPT ![c] = "END"] /\ sta'[c] = "END"
      /\ c # NoCoro
  BY OthersLeft, Kinds
<1>2. Mapped' = [Mapped EXCEPT ![c] = FramesOf(c)']
  BY <1>1, OneMoves
<1>3. FramesOf(c)' = <<>>
  BY <1>1 DEF Sound, OtherCalls
<1> QED  BY <1>1, <1>2, <1>3 DEF Promise!End, Mapped

(* A yield keeps every call in the contexts that the stack holds.        *)
LEMMA MapsYield ==
    ASSUME Sound, Sound', NEW c \in Coros, cur = c, Yield
    PROVE  Promise!Yield
<1> SUFFICES ASSUME NEW n, n = Len(act), NEW F, F = FramesOf(c), NEW G, G = FramesOf(c)',
                    NEW q, q = ContextSlots(c)
             PROVE  Promise!Yield
  OBVIOUS
<1>1. /\ OthersKept(c) /\ cur' = NoCoro /\ sta' = [sta EXCEPT ![c] = "YIELD"]
      /\ sta'[c] = "YIELD" /\ slot' = slot /\ top' = top /\ c # NoCoro
      /\ \A x \in Contexts : ctx'[x].nres = ctx[x].nres
  BY OthersLeft, Kinds DEF Yield
<1>2. Mapped' = [Mapped EXCEPT ![c] = G]
  BY <1>1, OneMoves
<1>3. /\ F \in Seq(FrameType) /\ Len(F) = n /\ n \in Nat \ {0} /\ Inner = act[n]
      /\ \A i \in 1..n : /\ act[i] \in ActType
                         /\ F[i] = Call3(act[i].nres, ValsOf(i), act[i].ctx)
      /\ Last(F) = Call3(Inner.nres, top[c] - Inner.func, Inner.ctx) /\ F = Mapped[c]
      /\ top[c] - Inner.func \in 0..NStack /\ Inner.nres \in NResults
  BY Running1 DEF ActType
<1>4. /\ \A i \in 1..n : act[i].ctx # Raw
      /\ \A i, j \in 1..n : i < j => act[i].func < act[j].func
      /\ \A i \in 1..n : act[i].ctx \in Contexts => ctx[act[i].ctx].nres = act[i].nres
      /\ \A s \in Marks(c) : \E i \in 1..n : act[i].func = s
  BY <1>1 DEF Yield, Sound, CallInv, CallsMarked, YieldSound
<1>5. \A i \in 1..n : act[i].func \in Marks(c) /\ slot[c][act[i].func] = act[i].ctx
  BY <1>1, FuncsMarked DEF Sound
<1>6. Marks(c) \in SUBSET (1..top[c]) /\ top[c] \in Nat
  BY Kinds DEF Marks, Sound, CallInv, CallTypes
<1> DEFINE g == [i \in 1..n |-> act[i].func]
<1>7. q = g
  <2>1. g \in [1..n -> Marks(c)]
    BY <1>5
  <2>2. /\ DOMAIN g = 1..n /\ \A i \in 1..n : g[i] = act[i].func
    OBVIOUS
  <2> HIDE DEF g
  <2>3. g \in Seq(Marks(c)) /\ Len(g) = n
    BY <1>3, <2>1
  <2>4. \A i, j \in 1..n : i < j => g[i] < g[j]
    BY <1>4, <2>2
  <2>5. \A s \in Marks(c) : \E i \in 1..n : g[i] = s
    BY <1>4, <2>2
  <2>6. Ordered(g, Marks(c))
    BY <2>3, <2>4, <2>5 DEF Ordered
  <2>7. q = InOrder(Marks(c))
    BY DEF ContextSlots, Marks
  <2> QED  BY <1>6, <2>6, <2>7, InOrderIs
<1>8. Len(q) = n /\ \A i \in 1..n : q[i] = act[i].func
  <2>1. \A i \in 1..n : g[i] = act[i].func
    OBVIOUS
  <2>2. Len(g) = n
    BY <1>3
  <2> HIDE DEF g
  <2> QED  BY <1>7, <2>1, <2>2
<1> HIDE DEF g
<1>9. q = ContextSlots(c)'
  BY <1>1 DEF ContextSlots
<1>10. /\ G \in Seq(FrameType) /\ Len(G) = n
       /\ \A i \in 1..n : G[i] = Call3(ctx'[slot[c][q[i]]].nres,
                                       (IF i = n THEN top[c] ELSE q[i + 1] - 1) - q[i],
                                       slot[c][q[i]])
  <2>1. /\ G \in Seq(FrameType) /\ Len(G) = Len(q)
        /\ \A i \in 1..Len(q) :
              G[i] = Call3(ctx'[slot'[c][q[i]]].nres,
                           (IF i = Len(q) THEN top'[c] ELSE q[i + 1] - 1) - q[i],
                           slot'[c][q[i]])
    BY <1>1, <1>9 DEF Sound, HeldFrames
  <2> QED  BY <1>1, <1>8, <2>1
<1>11. ASSUME NEW i \in 1..n PROVE G[i] = F[i]
  <2>1. act[i].ctx \in Contexts
    BY <1>3, <1>4 DEF ActType
  <2>2. /\ slot[c][q[i]] = act[i].ctx /\ ctx'[slot[c][q[i]]].nres = act[i].nres
    BY <1>1, <1>4, <1>5, <1>8, <2>1
  <2>3. (IF i = n THEN top[c] ELSE q[i + 1] - 1) - q[i] = ValsOf(i)
    <3>1. i # n => i + 1 \in 1..n
      BY <1>3
    <3>2. q[i] = act[i].func /\ (i # n => q[i + 1] = act[i + 1].func)
      BY <1>8, <3>1
    <3> QED  BY <3>2 DEF ValsOf
  <2> QED  BY <1>3, <1>10, <2>2, <2>3
<1>12. G = F
  <2>1. /\ G \in Seq(FrameType) /\ F \in Seq(FrameType) /\ Len(G) = Len(F)
        /\ \A i \in 1..Len(G) : G[i] = F[i]
    BY <1>3, <1>10, <1>11
  <2> QED  BY <2>1, SameSeq
<1>13. Mapped' = Mapped
  BY <1>2, <1>3, <1>12 DEF Mapped
<1>14. ~Promise!Inner.native
  <2>1. Promise!Inner = Last(F)
    BY <1>3, InnerIs
  <2>2. Last(F).native = (Inner.ctx = Raw)
    BY <1>3, CallIs
  <2>3. n \in 1..n
    BY <1>3
  <2> QED  BY <1>3, <1>4, <2>1, <2>2, <2>3
<1> QED  BY <1>1, <1>13, <1>14 DEF Promise!Yield, Mapped

(* A resume finds in the contexts the very calls of the yield.           *)
LEMMA MapsResume ==
    ASSUME Sound, Sound', NEW c \in Coros, AwaitYield(c)
    PROVE  Promise!Resume(c)
<1> SUFFICES ASSUME NEW q, q = ContextSlots(c), NEW n, n = Len(q), NEW F, F = FramesOf(c),
                    NEW G, G = FramesOf(c)'
             PROVE  Promise!Resume(c)
  OBVIOUS
<1>1. /\ cur = NoCoro /\ cur' = c /\ sta[c] = "YIELD" /\ sta' = [sta EXCEPT ![c] = "RUN"]
      /\ slot' = slot /\ top' = top /\ c # NoCoro
  BY Kinds DEF AwaitYield, Awaits, RunsNow
<1>2. /\ Len(act') = n /\ \A i \in 1..n : IsRecall(act'[i], c, q[i])
      /\ \A x \in Contexts : ctx'[x].nres = ctx[x].nres
  BY Recall DEF Sound
<1>3. OthersKept(c)
  <2>1. \A d \in Coros : d # c => sta'[d] = sta[d]
    BY <1>1
  <2> QED  BY <1>1, <1>2, <2>1, Kinds DEF OthersKept
<1>4. Mapped' = [Mapped EXCEPT ![c] = G]
  BY <1>3, OneMoves
<1>5. /\ F \in Seq(FrameType) /\ Len(F) = n
      /\ \A i \in 1..n : F[i] = Call3(ctx[slot[c][q[i]]].nres,
                                      (IF i = n THEN top[c] ELSE q[i + 1] - 1) - q[i],
                                      slot[c][q[i]])
  BY <1>1 DEF Sound, HeldFrames
<1>6. /\ G \in Seq(FrameType) /\ Len(G) = n
      /\ \A i \in 1..n : G[i] = Call3(act'[i].nres, ValsOf(i)', act'[i].ctx)
  BY <1>1, <1>2 DEF Sound, RunFrames
<1>7. n \in Nat
  BY <1>5, LenProperties
<1>8. ASSUME NEW i \in 1..n PROVE G[i] = F[i]
  <2>1. /\ act'[i].func = q[i] /\ act'[i].ctx = slot[c][q[i]]
        /\ act'[i].nres = ctx[slot[c][q[i]]].nres
    BY <1>2 DEF IsRecall
  <2>2. ValsOf(i)' = (IF i = n THEN top[c] ELSE q[i + 1] - 1) - q[i]
    <3>1. i # n => i + 1 \in 1..n
      BY <1>7
    <3>2. i # n => act'[i + 1].func = q[i + 1]
      BY <1>2, <3>1 DEF IsRecall
    <3>3. ValsOf(i)' = (IF i = Len(act') THEN top'[cur'] ELSE act'[i + 1].func - 1) - act'[i].func
      BY DEF ValsOf
    <3> QED  BY <1>1, <1>2, <2>1, <3>2, <3>3
  <2> QED  BY <1>5, <1>6, <2>1, <2>2
<1>9. G = F
  BY <1>5, <1>6, <1>8, SameSeq
<1>10. Mapped' = Mapped
  BY <1>4, <1>9 DEF Mapped
<1> QED  BY <1>1, <1>10 DEF Promise!Resume, Mapped

(* At the start no coroutine has a call.                                 *)
LEMMA MapsInit == Init => Promise!Init
<1> SUFFICES ASSUME Init PROVE Promise!Init
  OBVIOUS
<1>1. cur = NoCoro /\ sta = [c \in Coros |-> "none"]
  BY DEF Init
<1>2. Mapped = [c \in Coros |-> <<>>]
  <2>1. \A c \in Coros : c # cur /\ sta[c] # "YIELD"
    BY <1>1, Kinds
  <2> QED  BY <2>1, NoFrames DEF Mapped
<1> QED  BY <1>1, <1>2 DEF Promise!Init, Mapped

(* Every step of the virtual machine is one of the promise, or none.     *)
LEMMA MapsStep == Sound /\ Sound' /\ [Next]_vars => [Promise!Next]_Promise!vars
<1> SUFFICES ASSUME Sound, Sound', [Next]_vars PROVE [Promise!Next]_Promise!vars
  OBVIOUS
<1>1. /\ 0..MaxStack \in SUBSET Promise!Vals /\ NResults \in SUBSET Promise!Results
      /\ NParams \in Promise!Vals /\ {0, 1} \in SUBSET NResults
  <2>1. MaxStack \in Nat /\ 1 <= MaxStack /\ MaxStack <= NStack /\ NStack \in Nat
        /\ NParams \in 0..MaxStack
    BY Kinds
  <2> QED  BY <2>1 DEF Promise!Vals, Promise!Results, NResults
<1>2. CASE Closed \/ UNCHANGED vars \/ ExecReturn \/ Pass \/ \E c \in Coros : AwaitEnd(c)
  <2>1. UNCHANGED <<sta, slot, top, ctx, act, cur>>
    BY <1>2 DEF Closed, vars, ExecReturn, Pass, AwaitEnd, vmVars, runVars
  <2>2. Mapped' = Mapped
    BY <2>1, MapsSame
  <2> QED  BY <2>1, <2>2 DEF Promise!vars, Mapped
<1>3. ASSUME Collect PROVE Promise!Next
  BY <1>3, MapsCollect DEF Promise!Next
<1>4. ASSUME NEW c \in Coros, NEW x \in Contexts, AwaitReady(c, x) \/ AwaitFails(c, x)
      PROVE  Promise!Next
  BY <1>4, MapsStart, MapsReject DEF Promise!Next
<1>5. ASSUME NEW c \in Coros, AwaitYield(c) PROVE Promise!Next
  BY <1>5, MapsResume DEF Promise!Next
<1>6. ASSUME NEW c \in Coros, NEW narg \in 0..MaxStack, Async(c, narg) PROVE Promise!Next
  <2>1. Promise!Create(c, narg)
    BY <1>6, MapsAsync
  <2> QED  BY <1>1, <2>1 DEF Promise!Next
<1>7. ASSUME Running, NEW c \in Coros, cur = c PROVE Instruction \/ Suspend => Promise!Next
  <2>1. CASE Push \/ Pop
    BY <1>7, <2>1, MapsCompute DEF Promise!Next
  <2>2. ASSUME NEW narg \in 0..MaxStack, NEW nres \in NResults, NEW x \in Contexts \cup {Raw},
               Call(narg, nres, x)
        PROVE  Promise!Next
    <3>1. Promise!Call(narg, nres, NParams, FALSE)
      BY <1>7, <2>2, MapsCall
    <3>2. narg \in Promise!Vals /\ nres \in Promise!Results /\ FALSE \in BOOLEAN
      BY <1>1
    <3> QED  BY <1>1, <3>1, <3>2 DEF Promise!Next
  <2>3. ASSUME NEW narg \in 1..2, NEW nres \in {0, 1}, NativeCall(narg, nres)
        PROVE  Promise!Next
    <3>1. Promise!NativeCall(nres, NParams)
      BY <1>7, <2>3, MapsNative
    <3>2. nres \in Promise!Results
      BY <1>1
    <3> QED  BY <1>1, <3>1, <3>2 DEF Promise!Next
  <2>4. ASSUME NEW k \in 0..MaxStack, Return(k) PROVE Promise!Next
    <3>1. Promise!Return(k)
      BY <1>7, <2>4, MapsReturn
    <3>2. k \in Promise!Vals
      BY <1>1
    <3> QED  BY <3>1, <3>2 DEF Promise!Next
  <2>5. CASE Yield
    BY <1>7, <2>5, MapsYield DEF Promise!Next
  <2>6. CASE Finish \/ \E x \in Contexts \cup {Raw} : Fail(x)
    <3>1. Leave("END")
      BY <2>6 DEF Finish, Fail
    <3> QED  BY <1>7, <3>1, MapsEnd DEF Promise!Next
  <2>7. CASE Instruction
    <3>1. CASE \E narg \in 0..MaxStack, nres \in NResults, x \in Contexts \cup {Raw} :
                  Call(narg, nres, x)
      BY <2>2, <3>1
    <3>2. CASE \E narg \in 1..2, nres \in {0, 1} : NativeCall(narg, nres)
      <4>1. PICK narg \in 1..2, nres \in {0, 1} : NativeCall(narg, nres)
        BY <3>2
      <4> QED  BY <2>3, <4>1
    <3>3. CASE \E k \in 0..MaxStack : Return(k)
      BY <2>4, <3>3
    <3> QED  BY <1>3, <2>1, <2>7, <3>1, <3>2, <3>3 DEF Instruction
  <2>8. CASE Suspend
    BY <2>5, <2>6, <2>8 DEF Suspend
  <2> QED  BY <2>7, <2>8
<1>8. Instruction \/ Suspend => Promise!Next
  <2> SUFFICES ASSUME Instruction \/ Suspend PROVE Promise!Next
    OBVIOUS
  <2>1. Running
    BY DEF Instruction, Suspend, Push, Pop, Collect, Call, NativeCall, Return, Yield, Finish, Fail
  <2>2. cur \in Coros
    BY <2>1 DEF Running, Sound, LoopInv, LoopTypes
  <2> QED  BY <1>7, <2>1, <2>2
<1> QED
  BY <1>2, <1>4, <1>5, <1>6, <1>8 DEF Next, Loop

-----------------------------------------------------------------------------
(* The virtual machine keeps the promise: a coroutine goes on from a yield *)
(* with the very calls it had, each still waiting for its results, and     *)
(* nothing that it does disturbs another.                                  *)
THEOREM CallsKeptAcrossYields == Spec => Implements
<1>1. LoopInv /\ CallInv /\ LoopInv' /\ CallInv' /\ [Next]_vars
         => Sound /\ Sound'
  BY SoundIs, PTL
<1>2. LoopInv /\ CallInv /\ LoopInv' /\ CallInv' /\ [Next]_vars
         => [Promise!Next]_Promise!vars
  BY <1>1, MapsStep
<1> QED
  BY <1>2, MapsInit, LoopInit, LoopStep, CallInit, CallStep, PTL
  DEF Spec, Implements, Promise!Spec

=============================================================================
