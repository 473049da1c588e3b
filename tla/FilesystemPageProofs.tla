------------------------ MODULE FilesystemPageProofs ------------------------
(***************************************************************************)
(* The files of the demonstration stay a tree, what has been deleted stays *)
(* deleted and what fails leaves no more than it may, for all paths a user *)
(* may enter and any number of clicks, in any order with the loads of the  *)
(* program.                                                                *)
(***************************************************************************)
EXTENDS FilesystemPage, FileTreeProofs

(* The names there can be.  That those of the demonstration are strings is *)
(* nothing the provers know of.                                            *)
Words == STRING \cup {"demo", "hello.txt", "data.txt", "numbers.txt", "subdir",
                      "nested.txt", "new_file.txt", "renamed_numbers.txt", "new_directory"}

(* The trees a program can have.                                           *)
Good(t) ==
    /\ IsTree(Words, t)
    /\ \A p \in DOMAIN t : t[p] \in {Dir, Default, Text}
    /\ ~IsFile(t, Demo)

LEMMA DemoPaths ==
    /\ {Demo, Subdir, NewFile, Renamed, NewDir, Numbers} \cup Defaults \subseteq Seq(Words)
    /\ Demo # <<>> /\ Front(Demo) = <<>> /\ Len(Demo) = 1
<1>1. ASSUME NEW w \in Words PROVE <<w>> \in Seq(Words) /\ <<w>> # <<>> /\ Len(<<w>>) = 1
  OBVIOUS
<1>2. ASSUME NEW w \in Words, NEW p \in Seq(Words) PROVE p \o <<w>> \in Seq(Words)
  BY <1>1, ConcatProperties
<1>3. Demo \in Seq(Words) /\ Demo # <<>> /\ Len(Demo) = 1
  BY <1>1 DEF Demo, Words
<1>4. Front(Demo) = <<>>
  BY <1>3, SubSeqEmpty DEF Front
<1>5. Hello \in Seq(Words) /\ Data \in Seq(Words) /\ Numbers \in Seq(Words)
  BY <1>2, <1>3 DEF Hello, Data, Numbers, Words
<1>6. Subdir \in Seq(Words) /\ NewFile \in Seq(Words)
  BY <1>2, <1>3 DEF Subdir, NewFile, Words
<1>7. Renamed \in Seq(Words) /\ NewDir \in Seq(Words)
  BY <1>2, <1>3 DEF Renamed, NewDir, Words
<1>8. Nested \in Seq(Words)
  BY <1>2, <1>6 DEF Nested, Words
<1> QED  BY <1>3, <1>4, <1>5, <1>6, <1>7, <1>8 DEF Defaults

(* What is typed without an ending is what it says.                        *)
LEMMA Named ==
    ASSUME NEW p \in Seq(Words), NEW w \in Words \ Endings
    PROVE  LET q == p \o <<w>>
           IN  q \in Seq(Words) /\ q # <<>> /\ Looked(q) = q /\ Entry(q) = q
<1> DEFINE q == p \o <<w>>
<1>1. <<w>> \in Seq(Words) /\ Len(<<w>>) = 1 /\ <<w>>[1] = w
  OBVIOUS
<1>2. /\ q \in Seq(Words) /\ Len(q) = Len(p) + 1
      /\ \A i \in 1..(Len(p) + 1) : q[i] = IF i <= Len(p) THEN p[i] ELSE <<w>>[i - Len(p)]
  BY <1>1, ConcatProperties
<1> HIDE DEF q
<1>3. Len(p) \in Nat
  OBVIOUS
<1>4. q[Len(q)] = w
  <2>1. Len(p) + 1 \in 1..(Len(p) + 1) /\ ~(Len(p) + 1 <= Len(p)) /\ Len(p) + 1 - Len(p) = 1
    BY <1>3
  <2> QED  BY <1>1, <1>2, <2>1
<1>5. q # <<>>
  BY <1>2, <1>3, EmptySeq
<1>6. Last(q) \notin Endings /\ Last(q) # ""
  BY <1>4 DEF Last, Endings
<1> QED  BY <1>2, <1>5, <1>6 DEF q, Looked, Entry

LEMMA DemoNamed ==
    /\ Looked(NewFile) = NewFile /\ Entry(NewFile) = NewFile /\ NewFile # <<>>
    /\ Looked(Numbers) = Numbers /\ Entry(Numbers) = Numbers /\ Numbers # <<>>
    /\ Looked(Renamed) = Renamed /\ Entry(Renamed) = Renamed /\ Renamed # <<>>
    /\ Looked(NewDir) = NewDir /\ Entry(NewDir) = NewDir /\ NewDir # <<>>
<1>1. Demo \in Seq(Words)
  BY DemoPaths
<1>2. {"new_file.txt", "numbers.txt", "renamed_numbers.txt", "new_directory"}
          \subseteq Words \ Endings
  BY DEF Words, Endings
<1>3. \A w \in Words \ Endings : LET q == Demo \o <<w>>
                                  IN  q # <<>> /\ Looked(q) = q /\ Entry(q) = q
  BY <1>1, Named
<1> QED  BY <1>2, <1>3 DEF NewFile, Numbers, Renamed, NewDir

LEMMA Typed ==
    ASSUME NEW p \in Seq(Words), p # <<>>
    PROVE  Looked(p) \in Seq(Words) /\ Entry(p) \in Seq(Words) /\ Front(p) \in Seq(Words)
BY FrontProperties DEF Looked, Entry

LEMMA MkdirGood ==
    ASSUME NEW t, Good(t), NEW p \in Seq(Words)
    PROVE  /\ Good(Mkdir(t, p)) /\ Files(Mkdir(t, p)) = Files(t)
           /\ \A x : IsDir(t, x) => IsDir(Mkdir(t, p), x)
           /\ p = Demo => IsDir(Mkdir(t, p), Demo)
<1>1. CASE ~CanMkdir(t, p)
  <2>1. Mkdir(t, p) = t
    BY <1>1 DEF Mkdir
  <2>2. p = Demo => IsDir(t, Demo)
    BY <1>1, DemoPaths DEF CanMkdir, Exists, IsDir, Good, IsFile
  <2> QED  BY <2>1, <2>2
<1>2. CASE CanMkdir(t, p)
  <2> DEFINE u == With(t, p, Dir)
  <2>1. Mkdir(t, p) = u
    BY <1>2 DEF Mkdir
  <2>2. p # <<>> /\ p \notin DOMAIN t /\ IsDir(t, Front(p))
    BY <1>2 DEF CanMkdir, Exists
  <2>3. IsTree(Words, u)
    BY <2>2, WithTree DEF Good
  <2>4. DOMAIN u = DOMAIN t \cup {p} /\ u[p] = Dir /\ \A x \in DOMAIN t : u[x] = t[x]
    BY <2>2 DEF With
  <2> HIDE DEF u
  <2>5. Good(u)
    BY <2>3, <2>4 DEF Good, IsFile
  <2>6. Files(u) = Files(t)
    BY <2>2, <2>4 DEF Files, IsFile
  <2>7. \A x : IsDir(t, x) => IsDir(u, x)
    BY <2>4 DEF IsDir
  <2>8. p = Demo => IsDir(u, Demo)
    BY <2>4 DEF IsDir
  <2> QED  BY <2>1, <2>5, <2>6, <2>7, <2>8
<1> QED  BY <1>1, <1>2

LEMMA PutGood ==
    ASSUME NEW t, Good(t), IsDir(t, Demo), NEW p \in Seq(Words), NEW c \in {Default, Text}
    PROVE  /\ Good(Put(t, p, c)) /\ Files(Put(t, p, c)) \subseteq Files(t) \cup {p}
           /\ \A x : IsDir(t, x) => IsDir(Put(t, p, c), x)
<1>1. CASE ~CanPut(t, p)
  BY <1>1 DEF Put
<1>2. CASE CanPut(t, p)
  <2> DEFINE u == With(t, p, c)
  <2>1. Put(t, p, c) = u
    BY <1>2 DEF Put
  <2>2. p # <<>> /\ ~IsDir(t, p) /\ IsDir(t, Front(p))
    BY <1>2 DEF CanPut, IsDir
  <2>3. IsTree(Words, u)
    BY <2>2, WithTree DEF Good
  <2>4. DOMAIN u = DOMAIN t \cup {p} /\ u[p] = c /\ \A x \in DOMAIN t \ {p} : u[x] = t[x]
    BY DEF With
  <2> HIDE DEF u
  <2>5. p # Demo
    BY <2>2
  <2>6. Good(u)
    BY <2>3, <2>4, <2>5 DEF Good, IsFile
  <2>7. Files(u) \subseteq Files(t) \cup {p}
    BY <2>4 DEF Files, IsFile
  <2>8. \A x : IsDir(t, x) => IsDir(u, x)
    BY <2>2, <2>4 DEF IsDir
  <2> QED  BY <2>1, <2>6, <2>7, <2>8
<1> QED  BY <1>1, <1>2

LEMMA WithoutGood ==
    ASSUME NEW t, Good(t), NEW p, IsFile(t, p) \/ CanRmdir(t, p)
    PROVE  Good(Without(t, {p})) /\ Files(Without(t, {p})) \subseteq Files(t)
<1>1. p \in DOMAIN t /\ (t[p] # Dir \/ Below(t, p) = {})
  BY DEF IsFile, CanRmdir, IsDir
<1>2. IsTree(Words, Without(t, {p}))
  BY <1>1, WithoutTree DEF Good
<1>3. DOMAIN Without(t, {p}) = DOMAIN t \ {p}
      /\ \A x \in DOMAIN t \ {p} : Without(t, {p})[x] = t[x]
  BY DEF Without
<1> QED  BY <1>2, <1>3 DEF Good, IsFile, Files

LEMMA MoveGood ==
    ASSUME NEW t, Good(t), IsDir(t, Demo), NEW p \in Seq(Words), NEW q \in Seq(Words),
           CanMove(t, p, q)
    PROVE  /\ Good(Move(t, p, q))
           /\ \A r \in Files(Move(t, p, q)) : r \in Files(t) \/ IsPrefix(q, r)
           /\ Files(t) = {} => Files(Move(t, p, q)) = {}
<1> DEFINE N == Move(t, p, q)
<1>1. IsTree(Words, t)
  BY DEF Good
<1>2. \A r : r \in DOMAIN N <=>
             \/ r \in DOMAIN t /\ ~IsPrefix(p, r) /\ r # q
             \/ \E z \in Seq(Words) : r = q \o z /\ p \o z \in DOMAIN t
  BY <1>1, MoveExact
<1>3. \A z \in Seq(Words) : p \o z \in DOMAIN t => N[q \o z] = t[p \o z]
  BY <1>1, MoveExact
<1>4. \A r \in DOMAIN t : ~IsPrefix(p, r) /\ r # q => N[r] = t[r]
  BY <1>1, MoveExact
<1>5. IsTree(Words, N)
  BY <1>1, MoveTree
<1> HIDE DEF N
(* What is at a path after the move was at one before.                     *)
<1>6. ASSUME NEW r \in DOMAIN N
      PROVE  \/ r \in DOMAIN t /\ N[r] = t[r]
             \/ IsPrefix(q, r) /\ \E m \in DOMAIN t : N[r] = t[m]
  <2>1. CASE r \in DOMAIN t /\ ~IsPrefix(p, r) /\ r # q
    BY <1>4, <2>1
  <2>2. CASE \E z \in Seq(Words) : r = q \o z /\ p \o z \in DOMAIN t
    <3>1. PICK z \in Seq(Words) : r = q \o z /\ p \o z \in DOMAIN t
      BY <2>2
    <3>2. IsPrefix(q, r)
      BY <3>1, Joined
    <3> QED  BY <1>3, <3>1, <3>2
  <2> QED  BY <1>2, <2>1, <2>2
<1>7. \A r \in DOMAIN N : N[r] \in {Dir, Default, Text}
  BY <1>6 DEF Good
<1>8. ~IsFile(N, Demo)
  <2> SUFFICES ASSUME Demo \in DOMAIN N PROVE N[Demo] = Dir
    BY DEF IsFile
  <2>1. t[Demo] = Dir /\ Demo \in DOMAIN t
    BY DemoPaths DEF IsDir
  <2>2. CASE ~IsPrefix(p, Demo) /\ Demo # q
    BY <1>4, <2>1, <2>2
  <2>3. CASE \E z \in Seq(Words) : Demo = q \o z /\ p \o z \in DOMAIN t
    <3>1. PICK z \in Seq(Words) : Demo = q \o z /\ p \o z \in DOMAIN t
      BY <2>3
    <3>2. q # <<>>
      BY DEF CanMove, Fits
    <3>3. z = <<>>
      <4>1. Len(q) + Len(z) = 1
        BY <3>1, DemoPaths, ConcatProperties
      <4>2. Len(q) \in Nat /\ Len(z) \in Nat /\ Len(q) # 0
        BY <3>2, EmptySeq
      <4>3. Len(z) = 0
        BY <4>1, <4>2
      <4> QED  BY <4>3, EmptySeq
    <3>4. q = Demo /\ p \o z = p
      BY <3>1, <3>3, ConcatEmptySeq
    <3>5. N[Demo] = t[p]
      BY <1>3, <3>1, <3>4
    <3>6. t[p] = Dir
      BY <2>1, <3>1, <3>4, DemoPaths DEF CanMove, Fits, Exists, IsDir, IsFile
    <3> QED  BY <3>5, <3>6
  <2> QED  BY <1>2, <2>2, <2>3
<1>9. \A r \in Files(N) : r \in Files(t) \/ IsPrefix(q, r)
  BY <1>6 DEF Files, IsFile
<1>10. Files(t) = {} => Files(N) = {}
  BY <1>6 DEF Files, IsFile
<1> QED  BY <1>5, <1>7, <1>8, <1>9, <1>10 DEF Good, N

(* What is moved into itself is lost.                                      *)
LEMMA LostGood ==
    ASSUME NEW t, Good(t), NEW p \in Seq(Words)
    PROVE  LET u == Without(t, {p} \cup Below(t, p)) IN Good(u) /\ Files(u) \subseteq Files(t)
<1> DEFINE gone == {p} \cup Below(t, p)
<1>1. IsTree(Words, Without(t, gone))
  BY WithoutBranch DEF Good
<1>2. DOMAIN Without(t, gone) = DOMAIN t \ gone
      /\ \A x \in DOMAIN t \ gone : Without(t, gone)[x] = t[x]
  BY DEF Without
<1> QED  BY <1>1, <1>2 DEF Good, IsFile, Files

-----------------------------------------------------------------------------
(* The operations.                                                         *)

(* An instance of the program.                                             *)
IsInstance(F) ==
    /\ F = [tree |-> F.tree, initialized |-> F.initialized]
    /\ F.initialized \in BOOLEAN /\ Good(F.tree)

(* What an operation on F may do that is asked to make the files in made:  *)
(* one that does not make the default files makes none without a file.     *)
Makes(F, R, made) ==
    /\ IsInstance(R.fs)
    /\ F.initialized => R.fs.initialized
    /\ F.initialized => Files(R.fs.tree) \subseteq Files(F.tree) \cup made
    /\ ~R.fs.initialized /\ Files(F.tree) = {} => Files(R.fs.tree) = {}

(* And of one that leaves nothing when it fails.                           *)
Proper(F, R, made) ==
    /\ Makes(F, R, made)
    /\ ~R.ok => R.fs.tree \in {EnsureOnly(F).tree, Ensure(F).tree}

LEMMA TreeSet ==
    ASSUME NEW F, IsInstance(F), NEW t, Good(t)
    PROVE  LET G == [F EXCEPT !.tree = t]
           IN  G.tree = t /\ G.initialized = F.initialized /\ IsInstance(G)
BY DEF IsInstance

LEMMA EnsureOnlyGood ==
    ASSUME NEW F, IsInstance(F)
    PROVE  LET G == EnsureOnly(F)
           IN  /\ IsInstance(G) /\ G.initialized = F.initialized
               /\ Files(G.tree) = Files(F.tree) /\ IsDir(G.tree, Demo)
<1>1. EnsureOnly(F) = [F EXCEPT !.tree = Mkdir(F.tree, Demo)]
  BY DEF EnsureOnly
<1>2. Good(F.tree)
  BY DEF IsInstance
<1>3. /\ Good(Mkdir(F.tree, Demo)) /\ Files(Mkdir(F.tree, Demo)) = Files(F.tree)
      /\ IsDir(Mkdir(F.tree, Demo), Demo)
  BY <1>2, DemoPaths, MkdirGood
<1> QED  BY <1>1, <1>3, TreeSet

LEMMA PutDefaultsGood ==
    ASSUME NEW t, Good(t), IsDir(t, Demo)
    PROVE  /\ Good(PutDefaults(t)) /\ Files(PutDefaults(t)) \subseteq Files(t) \cup Defaults
           /\ IsDir(PutDefaults(t), Demo)
<1> DEFINE a == Put(t, Hello, Default)
           b == Put(a, Data, Default)
           c == Put(b, Numbers, Default)
           d == Put(c, Nested, Default)
<1>1. PutDefaults(t) = d
  BY DEF PutDefaults
<1>2. {Hello, Data, Numbers, Nested} \subseteq Seq(Words)
  BY DemoPaths DEF Defaults
<1>3. Good(a) /\ Files(a) \subseteq Files(t) \cup {Hello} /\ IsDir(a, Demo)
  BY <1>2, PutGood
<1> HIDE DEF a
<1>4. Good(b) /\ Files(b) \subseteq Files(a) \cup {Data} /\ IsDir(b, Demo)
  BY <1>2, <1>3, PutGood
<1> HIDE DEF b
<1>5. Good(c) /\ Files(c) \subseteq Files(b) \cup {Numbers} /\ IsDir(c, Demo)
  BY <1>2, <1>4, PutGood
<1> HIDE DEF c
<1>6. Good(d) /\ Files(d) \subseteq Files(c) \cup {Nested} /\ IsDir(d, Demo)
  BY <1>2, <1>5, PutGood
<1> HIDE DEF d
<1> QED  BY <1>1, <1>3, <1>4, <1>5, <1>6 DEF Defaults

(* /demo, its directory and its files, as Ensure and RunDemo make them.    *)
LEMMA DemoMade ==
    ASSUME NEW t, Good(t)
    PROVE  LET u == PutDefaults(Mkdir(Mkdir(t, Demo), Subdir))
           IN  Good(u) /\ Files(u) \subseteq Files(t) \cup Defaults /\ IsDir(u, Demo)
<1> DEFINE a == Mkdir(t, Demo)
           b == Mkdir(a, Subdir)
<1>1. Good(a) /\ Files(a) = Files(t) /\ IsDir(a, Demo)
  BY DemoPaths, MkdirGood
<1> HIDE DEF a
<1>2. Good(b) /\ Files(b) = Files(a) /\ IsDir(b, Demo)
  BY <1>1, DemoPaths, MkdirGood
<1> HIDE DEF b
<1>3. /\ Good(PutDefaults(b)) /\ Files(PutDefaults(b)) \subseteq Files(b) \cup Defaults
      /\ IsDir(PutDefaults(b), Demo)
  BY <1>2, PutDefaultsGood
<1> QED  BY <1>1, <1>2, <1>3 DEF a, b

LEMMA EnsureGood ==
    ASSUME NEW F, IsInstance(F)
    PROVE  LET G == Ensure(F)
           IN  /\ IsInstance(G) /\ G.initialized = TRUE /\ IsDir(G.tree, Demo)
               /\ Files(G.tree) \subseteq Files(F.tree) \cup Defaults
               /\ F.initialized => Files(G.tree) = Files(F.tree)
<1>1. CASE F.initialized
  <2>1. Ensure(F) = EnsureOnly(F) /\ F.initialized = TRUE
    BY <1>1 DEF Ensure, IsInstance
  <2> QED  BY <2>1, EnsureOnlyGood
<1>2. CASE ~F.initialized
  <2> DEFINE u == PutDefaults(Mkdir(Mkdir(F.tree, Demo), Subdir))
  <2>1. Ensure(F) = [tree |-> u, initialized |-> TRUE]
    BY <1>2 DEF Ensure
  <2>2. Good(u) /\ Files(u) \subseteq Files(F.tree) \cup Defaults /\ IsDir(u, Demo)
    BY DemoMade DEF IsInstance
  <2> HIDE DEF u
  <2> QED  BY <1>2, <2>1, <2>2 DEF IsInstance
<1> QED  BY <1>1, <1>2

(* What an operation does that makes /demo first and then the tree t.      *)
LEMMA DoneAfterOnly ==
    ASSUME NEW F, IsInstance(F), NEW t, Good(t), NEW made,
           Files(t) \subseteq Files(F.tree) \cup made,
           Files(F.tree) = {} => Files(t) = {}
    PROVE  Proper(F, Done(EnsureOnly(F), t), made)
<1> DEFINE G == EnsureOnly(F)
<1>1. IsInstance(G) /\ G.initialized = F.initialized
  BY EnsureOnlyGood
<1> HIDE DEF G
<1>2. Done(G, t).ok = TRUE /\ Done(G, t).fs = [G EXCEPT !.tree = t]
  BY DEF Done
<1>3. Done(G, t).fs.tree = t /\ Done(G, t).fs.initialized = F.initialized
      /\ IsInstance(Done(G, t).fs)
  BY <1>1, <1>2, TreeSet
<1> QED  BY <1>2, <1>3 DEF Proper, Makes, G

LEMMA FailedAfterOnly ==
    ASSUME NEW F, IsInstance(F), NEW made PROVE Proper(F, Failed(EnsureOnly(F)), made)
<1>1. Failed(EnsureOnly(F)).fs = EnsureOnly(F)
  BY DEF Failed
<1> QED  BY <1>1, EnsureOnlyGood DEF Proper, Makes

(* The same with the default files.                                        *)
LEMMA DoneAfter ==
    ASSUME NEW F, IsInstance(F), NEW t, Good(t), NEW made,
           Files(t) \subseteq Files(Ensure(F).tree) \cup made
    PROVE  Proper(F, Done(Ensure(F), t), made) /\ Done(Ensure(F), t).fs.initialized
<1> DEFINE G == Ensure(F)
<1>1. IsInstance(G) /\ G.initialized = TRUE /\ (F.initialized => Files(G.tree) = Files(F.tree))
  BY EnsureGood
<1>2. Files(t) \subseteq Files(G.tree) \cup made
  OBVIOUS
<1> HIDE DEF G
<1>3. Done(G, t).ok = TRUE /\ Done(G, t).fs = [G EXCEPT !.tree = t]
  BY DEF Done
<1>4. Done(G, t).fs.tree = t /\ Done(G, t).fs.initialized = TRUE
      /\ IsInstance(Done(G, t).fs)
  BY <1>1, <1>3, TreeSet
<1> QED  BY <1>1, <1>2, <1>3, <1>4 DEF Proper, Makes, G

LEMMA FailedAfter ==
    ASSUME NEW F, IsInstance(F), NEW made
    PROVE  Proper(F, Failed(Ensure(F)), made) /\ Failed(Ensure(F)).fs.initialized
<1>1. Failed(Ensure(F)).fs = Ensure(F)
  BY DEF Failed
<1> QED  BY <1>1, EnsureGood DEF Proper, Makes

-----------------------------------------------------------------------------
LEMMA LookingProper ==
    ASSUME NEW F, IsInstance(F), NEW p
    PROVE  Proper(F, ReadFile(F, p), {}) /\ Proper(F, ReadDir(F, p), {})
           /\ Proper(F, Stat(F, p), {})
<1> DEFINE G == EnsureOnly(F)
<1>1. Good(G.tree) /\ Files(G.tree) = Files(F.tree)
  BY EnsureOnlyGood DEF IsInstance
<1>2. Proper(F, Done(G, G.tree), {})
  BY <1>1, DoneAfterOnly
<1>3. Proper(F, Failed(G), {})
  BY FailedAfterOnly
<1>4. ReadFile(F, p) \in {Done(G, G.tree), Failed(G)}
  BY DEF ReadFile
<1>5. ReadDir(F, p) \in {Done(G, G.tree), Failed(G)}
  BY DEF ReadDir
<1>6. Stat(F, p) \in {Done(G, G.tree), Failed(G)}
  BY DEF Stat
<1> HIDE DEF G
<1> QED  BY <1>2, <1>3, <1>4, <1>5, <1>6

LEMMA UnlinkProper ==
    ASSUME NEW F, IsInstance(F), NEW p PROVE Proper(F, Unlink(F, p), {})
<1> DEFINE G == EnsureOnly(F)
           t == Without(G.tree, {Entry(p)})
<1>1. Good(G.tree) /\ Files(G.tree) = Files(F.tree)
  BY EnsureOnlyGood DEF IsInstance
<1>2. CASE Exists(G.tree, Looked(p)) /\ IsFile(G.tree, Entry(p))
  <2>1. Good(t) /\ Files(t) \subseteq Files(F.tree)
    BY <1>1, <1>2, WithoutGood
  <2>2. Unlink(F, p) = Done(G, t)
    BY <1>2 DEF Unlink
  <2> HIDE DEF t
  <2>3. Proper(F, Done(EnsureOnly(F), t), {})
    BY <2>1, DoneAfterOnly
  <2> QED  BY <2>2, <2>3
<1>3. CASE ~(Exists(G.tree, Looked(p)) /\ IsFile(G.tree, Entry(p)))
  <2>1. Unlink(F, p) = Failed(G)
    BY <1>3 DEF Unlink
  <2> QED  BY <2>1, FailedAfterOnly
<1> QED  BY <1>2, <1>3

LEMMA RmdirProper ==
    ASSUME NEW F, IsInstance(F), NEW p PROVE Proper(F, Rmdir(F, p), {})
<1> DEFINE G == EnsureOnly(F)
           t == Without(G.tree, {Entry(p)})
<1>1. Good(G.tree) /\ Files(G.tree) = Files(F.tree)
  BY EnsureOnlyGood DEF IsInstance
<1>2. CASE IsDir(G.tree, Looked(p)) /\ CanRmdir(G.tree, Entry(p))
  <2>1. Good(t) /\ Files(t) \subseteq Files(F.tree)
    BY <1>1, <1>2, WithoutGood
  <2>2. Rmdir(F, p) = Done(G, t)
    BY <1>2 DEF Rmdir
  <2> HIDE DEF t
  <2>3. Proper(F, Done(EnsureOnly(F), t), {})
    BY <2>1, DoneAfterOnly
  <2> QED  BY <2>2, <2>3
<1>3. CASE ~(IsDir(G.tree, Looked(p)) /\ CanRmdir(G.tree, Entry(p)))
  <2>1. Rmdir(F, p) = Failed(G)
    BY <1>3 DEF Rmdir
  <2> QED  BY <2>1, FailedAfterOnly
<1> QED  BY <1>2, <1>3

LEMMA RenameProper ==
    ASSUME NEW F, IsInstance(F), NEW p \in Seq(Words), p # <<>>, NEW q \in Seq(Words), q # <<>>
    PROVE  LET R == Rename(F, p, q)
           IN  Proper(F, R, {r \in Files(R.fs.tree) : IsPrefix(Entry(q), r)})
<1> DEFINE G == EnsureOnly(F)
           from == Entry(p)
           to == Entry(q)
           lost == Without(G.tree, {from} \cup Below(G.tree, from))
           t == IF IsStrictPrefix(from, to) THEN lost ELSE Move(G.tree, from, to)
           may == /\ Exists(G.tree, Looked(p)) /\ Fits(G.tree, from, to)
                  /\ ~Leads(Looked(p), Front(to)) /\ ~Leads(Looked(q), Front(from))
<1>1. Good(G.tree) /\ Files(G.tree) = Files(F.tree) /\ IsDir(G.tree, Demo) /\ IsInstance(G)
  BY EnsureOnlyGood DEF IsInstance
<1>2. from \in Seq(Words) /\ to \in Seq(Words)
  BY Typed
<1>3. Rename(F, p, q) = IF may THEN Done(G, t) ELSE Failed(G)
  BY DEF Rename
<1>4. CASE may
  <2>1. /\ Good(t)
        /\ \A r \in Files(t) : r \in Files(G.tree) \/ IsPrefix(to, r)
        /\ Files(G.tree) = {} => Files(t) = {}
    <3>1. CASE IsStrictPrefix(from, to)
      <4>1. t = lost
        BY <3>1
      <4> HIDE DEF from, G
      <4>2. Good(lost) /\ Files(lost) \subseteq Files(G.tree)
        BY <1>1, <1>2, LostGood
      <4> QED  BY <4>1, <4>2
    <3>2. CASE ~IsStrictPrefix(from, to)
      <4>1. t = Move(G.tree, from, to) /\ CanMove(G.tree, from, to)
        BY <1>4, <3>2 DEF CanMove
      <4> HIDE DEF from, to, G
      <4>2. /\ Good(Move(G.tree, from, to))
            /\ \A r \in Files(Move(G.tree, from, to)) : r \in Files(G.tree) \/ IsPrefix(to, r)
            /\ Files(G.tree) = {} => Files(Move(G.tree, from, to)) = {}
        BY <1>1, <1>2, <4>1, MoveGood
      <4> QED  BY <4>1, <4>2
    <3> QED  BY <3>1, <3>2
  <2>2. Rename(F, p, q) = Done(G, t)
    BY <1>3, <1>4
  <2> HIDE DEF t, may
  <2>3. Rename(F, p, q).fs.tree = t
    <3> HIDE DEF G
    <3>1. Done(G, t).fs = [G EXCEPT !.tree = t]
      BY DEF Done
    <3>2. Done(G, t).fs.tree = t
      BY <1>1, <2>1, <3>1, TreeSet
    <3> QED  BY <2>2, <3>2
  <2> DEFINE made == {r \in Files(t) : IsPrefix(to, r)}
  <2>4. Files(t) \subseteq Files(F.tree) \cup made /\ (Files(F.tree) = {} => Files(t) = {})
    BY <1>1, <2>1
  <2> HIDE DEF made
  <2>5. Proper(F, Done(EnsureOnly(F), t), made)
    BY <2>1, <2>4, DoneAfterOnly
  <2> QED  BY <2>2, <2>3, <2>5 DEF made
<1>5. CASE ~may
  <2>1. Rename(F, p, q) = Failed(G)
    BY <1>3, <1>5
  <2> QED  BY <2>1, FailedAfterOnly
<1> QED  BY <1>4, <1>5

LEMMA MakeDirProper ==
    ASSUME NEW F, IsInstance(F), NEW p \in Seq(Words), p # <<>>
    PROVE  Proper(F, MakeDir(F, p), {}) /\ MakeDir(F, p).fs.initialized
<1> DEFINE G == Ensure(F)
           t == Mkdir(G.tree, Entry(p))
<1>1. Good(G.tree) /\ Entry(p) \in Seq(Words)
  BY EnsureGood, Typed DEF IsInstance
<1>2. Good(t) /\ Files(t) = Files(G.tree)
  BY <1>1, MkdirGood
<1>3. MakeDir(F, p) \in {Done(G, t), Failed(G)}
  BY DEF MakeDir
<1> HIDE DEF t
<1>4. Proper(F, Done(Ensure(F), t), {}) /\ Done(Ensure(F), t).fs.initialized
  BY <1>2, DoneAfter
<1>5. Proper(F, Failed(Ensure(F)), {}) /\ Failed(Ensure(F)).fs.initialized
  BY FailedAfter
<1> QED  BY <1>3, <1>4, <1>5

(* A write leaves a directory only if what it is asked to open is that     *)
(* directory, typed with an ending.                                        *)
LEMMA WriteFileMakes ==
    ASSUME NEW F, IsInstance(F), NEW p \in Seq(Words), p # <<>>
    PROVE  LET R == WriteFile(F, p)
           IN  /\ Makes(F, R, {Looked(p)}) /\ R.fs.initialized
               /\ ~R.ok => \/ R.fs.tree = Ensure(F).tree
                           \/ /\ Last(p) \in Endings
                              /\ R.fs.tree = Mkdir(Ensure(F).tree, Front(p))
<1> DEFINE G == Ensure(F)
           R == WriteFile(F, p)
           up == IF Len(p) > 1 THEN Mkdir(G.tree, Front(p)) ELSE G.tree
<1>1. Good(G.tree) /\ IsDir(G.tree, Demo) /\ IsInstance(G) /\ G.initialized = TRUE
      /\ (F.initialized => Files(G.tree) = Files(F.tree))
  BY EnsureGood DEF IsInstance
<1>2. Front(p) \in Seq(Words) /\ Looked(p) \in Seq(Words) /\ Front(p) # p
  BY Typed, FrontProperties
<1>3. Good(up) /\ Files(up) = Files(G.tree) /\ IsDir(up, Demo)
  <2>1. CASE Len(p) > 1
    BY <1>1, <1>2, <2>1, MkdirGood
  <2>2. CASE ~(Len(p) > 1)
    BY <1>1, <2>2
  <2> QED  BY <2>1, <2>2
<1>4. R = IF CanPut(up, Looked(p)) THEN Done(G, Put(up, Looked(p), Text))
          ELSE Failed([G EXCEPT !.tree = up])
  BY DEF WriteFile
<1>5. CASE CanPut(up, Looked(p))
  <2> DEFINE t == Put(up, Looked(p), Text)
  <2>1. Good(t) /\ Files(t) \subseteq Files(up) \cup {Looked(p)}
    BY <1>2, <1>3, PutGood
  <2>2. R = Done(G, t)
    BY <1>4, <1>5
  <2>3. Files(t) \subseteq Files(G.tree) \cup {Looked(p)}
    BY <1>3, <2>1
  <2> HIDE DEF t, R
  <2>4. Proper(F, Done(Ensure(F), t), {Looked(p)}) /\ Done(Ensure(F), t).fs.initialized
    BY <2>1, <2>3, DoneAfter
  <2>5. Done(G, t).ok = TRUE
    BY DEF Done
  <2> QED  BY <2>2, <2>4, <2>5 DEF Proper, R
<1>6. CASE ~CanPut(up, Looked(p))
  <2> DEFINE left == [G EXCEPT !.tree = up]
  <2>1. R.fs = left /\ R.ok = FALSE
    BY <1>4, <1>6 DEF Failed
  <2>2. up = G.tree \/ (Last(p) \in Endings /\ up = Mkdir(G.tree, Front(p)))
(* Without an ending, a directory made for a file that cannot be opened    *)
(* would have had nothing in it.                                           *)
    <3> SUFFICES ASSUME up # G.tree, Last(p) \notin Endings PROVE FALSE
      OBVIOUS
    <3>1. CanMkdir(G.tree, Front(p)) /\ up = With(G.tree, Front(p), Dir)
      BY DEF Mkdir
    <3>2. DOMAIN up = DOMAIN G.tree \cup {Front(p)} /\ up[Front(p)] = Dir
      BY <3>1 DEF With
    <3>3. IsDir(up, Front(p)) /\ Looked(p) = p
      BY <3>2 DEF IsDir, Looked
    <3>4. p \in DOMAIN G.tree
      BY <1>2, <1>6, <3>2, <3>3 DEF CanPut, IsDir
    <3>5. IsDir(G.tree, Front(p))
      BY <1>1, <3>4 DEF Good, IsTree
    <3> QED  BY <3>1, <3>5 DEF CanMkdir, Exists, IsDir
  <2> HIDE DEF up, R, G
  <2>3. IsInstance(left) /\ left.tree = up /\ left.initialized = TRUE
    BY <1>1, <1>3, TreeSet
  <2> HIDE DEF left
  <2>4. Makes(F, R, {Looked(p)})
    BY <1>1, <1>3, <2>1, <2>3 DEF Makes
  <2> QED  BY <2>1, <2>2, <2>3, <2>4 DEF R, G
<1> QED  BY <1>5, <1>6

LEMMA RunDemoProper ==
    ASSUME NEW F, IsInstance(F)
    PROVE  LET R == RunDemo(F)
           IN  /\ Proper(F, R, Defaults \cup {NewFile}
                                   \cup {r \in Files(R.fs.tree) : IsPrefix(Renamed, r)})
               /\ R.fs.initialized
<1> DEFINE g == PutDefaults(Mkdir(Mkdir(F.tree, Demo), Subdir))
           G == [F EXCEPT !.tree = g]
           R1 == WriteFile(G, NewFile)
           R2 == Rename(R1.fs, Numbers, Renamed)
           R3 == MakeDir(R2.fs, NewDir)
           R4 == Unlink(R3.fs, NewFile)
<1>1. RunDemo(F) = [fs |-> R4.fs, ok |-> TRUE]
  BY DEF RunDemo
<1>2. Good(g) /\ Files(g) \subseteq Files(F.tree) \cup Defaults
  BY DemoMade DEF IsInstance
<1> HIDE DEF g
<1>3. G.tree = g /\ G.initialized = F.initialized /\ IsInstance(G)
  BY <1>2, TreeSet
<1> HIDE DEF G
<1>4. NewFile \in Seq(Words) /\ Numbers \in Seq(Words) /\ Renamed \in Seq(Words)
      /\ NewDir \in Seq(Words)
  BY DemoPaths
<1>5. Makes(G, R1, {NewFile}) /\ R1.fs.initialized
  BY <1>3, <1>4, DemoNamed, WriteFileMakes
<1> HIDE DEF R1
<1>6. IsInstance(R1.fs)
  BY <1>5 DEF Makes
<1>7. Proper(R1.fs, R2, {r \in Files(R2.fs.tree) : IsPrefix(Renamed, r)})
  BY <1>4, <1>6, DemoNamed, RenameProper
<1> HIDE DEF R2
<1>8. IsInstance(R2.fs) /\ R2.fs.initialized
  BY <1>5, <1>7 DEF Proper, Makes
<1>9. Proper(R2.fs, R3, {}) /\ R3.fs.initialized
  BY <1>4, <1>8, DemoNamed, MakeDirProper
<1> HIDE DEF R3
<1>10. IsInstance(R3.fs)
  BY <1>9 DEF Proper, Makes
<1>11. Proper(R3.fs, R4, {})
  BY <1>10, UnlinkProper
<1> HIDE DEF R4
<1>12. IsInstance(R4.fs) /\ R4.fs.initialized
  BY <1>9, <1>11 DEF Proper, Makes
<1>13. F.initialized => Files(R1.fs.tree) \subseteq Files(F.tree) \cup Defaults \cup {NewFile}
  BY <1>2, <1>3, <1>5 DEF Proper, Makes
<1>14. \A r \in Files(R2.fs.tree) : r \in Files(R1.fs.tree) \/ IsPrefix(Renamed, r)
  BY <1>5, <1>7 DEF Proper, Makes
<1>15. Files(R4.fs.tree) \subseteq Files(R2.fs.tree)
  BY <1>8, <1>9, <1>11 DEF Proper, Makes
<1>16. F.initialized => Files(R4.fs.tree) \subseteq Files(F.tree) \cup
            (Defaults \cup {NewFile} \cup {r \in Files(R4.fs.tree) : IsPrefix(Renamed, r)})
  BY <1>13, <1>14, <1>15
<1>17. RunDemo(F).fs = R4.fs /\ RunDemo(F).ok = TRUE
  BY <1>1
<1> QED  BY <1>12, <1>16, <1>17 DEF Proper, Makes

(* The calls of the page.                                                  *)
LEMMA CallProper ==
    ASSUME NEW F, IsInstance(F), NEW c \in Calls \cup {<<"init">>}
    PROVE  LET R == Result(F, c)
           IN  /\ IsInstance(R.fs)
               /\ F.initialized => R.fs.initialized
               /\ F.initialized => Files(R.fs.tree) \ Files(F.tree) \subseteq
                                   Asked(c, Files(R.fs.tree) \ Files(F.tree))
               /\ ~R.fs.initialized /\ Files(F.tree) = {} => Files(R.fs.tree) = {}
               /\ ~R.ok => \/ R.fs.tree \in {EnsureOnly(F).tree, Ensure(F).tree}
                           \/ /\ c[1] = "write" /\ Last(c[2]) \in Endings
                              /\ R.fs.tree = Mkdir(Ensure(F).tree, Front(c[2]))
<1> DEFINE R == Result(F, c)
           new == Files(R.fs.tree) \ Files(F.tree)
           left == ~R.ok => \/ R.fs.tree \in {EnsureOnly(F).tree, Ensure(F).tree}
                            \/ /\ c[1] = "write" /\ Last(c[2]) \in Endings
                               /\ R.fs.tree = Mkdir(Ensure(F).tree, Front(c[2]))
           made(m) == Makes(F, R, m) /\ left /\ (m \cap new \subseteq Asked(c, new))
<1>1. SUFFICES \E m : made(m)
  <2>1. PICK m : made(m)
    BY <1>1
  <2>2. Makes(F, R, m) /\ left
    BY <2>1
  <2>3. m \cap new \subseteq Asked(c, new)
    BY <2>1
  <2>4. F.initialized => new \subseteq Asked(c, new)
    <3> SUFFICES ASSUME F.initialized PROVE new \subseteq m
      BY <2>3
    <3> HIDE DEF R
    <3> QED  BY <2>2 DEF Proper, Makes
  <2> HIDE DEF new
  <2> QED  BY <2>2, <2>4 DEF Proper, Makes, new
<1>2. \A x \in Seq(STRING) : x \in Seq(Words)
  BY SeqMonotonic DEF Words
<1>3. \A x \in UserPaths : x \in Seq(Words) /\ x # <<>>
  BY <1>2, Entered
<1>4. CASE c = <<"init">>
  <2>1. R = [fs |-> Ensure(F), ok |-> TRUE] /\ Asked(c, new) = {}
    BY <1>4 DEF Result, Asked
  <2> HIDE DEF R
  <2>2. made({})
    BY <2>1, EnsureGood DEF Proper, Makes
  <2> QED  BY <2>2
<1>5. CASE \E p \in UserPaths : c = <<"read", p>> \/ c = <<"list", p>> \/ c = <<"stat", p>>
  <2>1. PICK p \in UserPaths : c = <<"read", p>> \/ c = <<"list", p>> \/ c = <<"stat", p>>
    BY <1>5
  <2>2. R = ReadFile(F, p) \/ R = ReadDir(F, p) \/ R = Stat(F, p)
    <3>1. CASE c = <<"read", p>>
      BY <3>1 DEF Result
    <3>2. CASE c = <<"list", p>>
      BY <3>2 DEF Result
    <3>3. CASE c = <<"stat", p>>
      BY <3>3 DEF Result
    <3> QED  BY <2>1, <3>1, <3>2, <3>3
  <2> HIDE DEF R
  <2>3. made({})
    BY <2>2, LookingProper DEF Proper
  <2> QED  BY <2>3
<1>6. CASE \E p \in UserPaths : c = <<"write", p>>
  <2>1. PICK p \in UserPaths : c = <<"write", p>>
    BY <1>6
  <2>2. R = WriteFile(F, p) /\ Asked(c, new) = {Looked(p)} /\ c[1] = "write" /\ c[2] = p
    BY <2>1 DEF Result, Asked
  <2> HIDE DEF R
  <2>3. made({Looked(p)})
    BY <1>3, <2>2, WriteFileMakes
  <2> QED  BY <2>3
<1>7. CASE \E p \in UserPaths : c = <<"mkdir", p>>
  <2>1. PICK p \in UserPaths : c = <<"mkdir", p>>
    BY <1>7
  <2>2. R = MakeDir(F, p)
    BY <2>1 DEF Result
  <2> HIDE DEF R
  <2>3. made({})
    BY <1>3, <2>2, MakeDirProper DEF Proper
  <2> QED  BY <2>3
<1>8. CASE \E p \in UserPaths : c = <<"unlink", p>>
  <2>1. PICK p \in UserPaths : c = <<"unlink", p>>
    BY <1>8
  <2>2. R = Unlink(F, p)
    BY <2>1 DEF Result
  <2> HIDE DEF R
  <2>3. made({})
    BY <1>3, <2>2, UnlinkProper DEF Proper
  <2> QED  BY <2>3
<1>9. CASE \E p \in UserPaths : c = <<"rmdir", p>>
  <2>1. PICK p \in UserPaths : c = <<"rmdir", p>>
    BY <1>9
  <2>2. R = Rmdir(F, p)
    BY <2>1 DEF Result
  <2> HIDE DEF R
  <2>3. made({})
    BY <1>3, <2>2, RmdirProper DEF Proper
  <2> QED  BY <2>3
<1>10. CASE \E p, q \in UserPaths : c = <<"rename", p, q>>
  <2>1. PICK p \in UserPaths, q \in UserPaths : c = <<"rename", p, q>>
    BY <1>10
  <2>2. R = Rename(F, p, q) /\ Asked(c, new) = {r \in new : IsPrefix(Entry(q), r)}
    BY <2>1 DEF Result, Asked
  <2> HIDE DEF R
  <2>3. made({r \in Files(R.fs.tree) : IsPrefix(Entry(q), r)})
    BY <1>3, <2>2, RenameProper DEF Proper
  <2> QED  BY <2>3
<1>11. CASE c = <<"demo">>
  <2>1. R = RunDemo(F) /\ Asked(c, new) = Defaults \cup {NewFile}
                                            \cup {r \in new : IsPrefix(Renamed, r)}
    BY <1>11 DEF Result, Asked
  <2> HIDE DEF R
  <2>2. made(Defaults \cup {NewFile} \cup {r \in Files(R.fs.tree) : IsPrefix(Renamed, r)})
    BY <2>1, RunDemoProper DEF Proper
  <2> QED  BY <2>2
<1> HIDE DEF made
<1>12. \/ \E p \in UserPaths : \/ c = <<"read", p>> \/ c = <<"list", p>> \/ c = <<"stat", p>>
                               \/ c = <<"write", p>> \/ c = <<"mkdir", p>>
                               \/ c = <<"unlink", p>> \/ c = <<"rmdir", p>>
       \/ \E p, q \in UserPaths : c = <<"rename", p, q>>
       \/ c = <<"demo">> \/ c = <<"init">>
  BY DEF Calls
<1> QED  BY <1>4, <1>5, <1>6, <1>7, <1>8, <1>9, <1>10, <1>11, <1>12

-----------------------------------------------------------------------------
(* The page.                                                               *)

(* What is always so: an instance that has not made its default files has  *)
(* had no file at all, and one that is not loaded yet is untouched.        *)
PageInv ==
    /\ DOMAIN fs = Instances /\ DOMAIN had = Instances
    /\ \A i \in Instances :
          /\ IsInstance(fs[i]) /\ Files(fs[i].tree) \subseteq had[i]
          /\ ~fs[i].initialized => had[i] = {}
          /\ i > clicks \/ i \in pending => fs[i] = Fresh /\ had[i] = {}
    /\ module \in Instances \cup {None} /\ module \notin pending
    /\ module # None => module <= clicks
    /\ clicks \in 0..MaxClicks /\ pending \subseteq 0..clicks

LEMMA FreshInstance == IsInstance(Fresh) /\ Files(Fresh.tree) = {}
BY DEF Fresh, IsInstance, Good, IsTree, IsFile, Files

LEMMA PageInit == Init => PageInv
<1> SUFFICES ASSUME Init PROVE PageInv
  OBVIOUS
<1>1. MaxClicks \in Nat /\ None \notin 0..MaxClicks
  BY Bounds
<1>2. \A i \in Instances : fs[i] = Fresh /\ had[i] = {}
  BY DEF Init
<1> QED  BY <1>1, <1>2, FreshInstance DEF Init, PageInv, Instances

(* A call keeps it.                                                        *)
LEMMA RunKeeps ==
    ASSUME PageInv, NEW i \in Instances, NEW c \in Calls \cup {<<"init">>}, Run(i, c)
    PROVE  /\ DOMAIN fs' = Instances /\ DOMAIN had' = Instances
           /\ \A j \in Instances : j # i => fs'[j] = fs[j] /\ had'[j] = had[j]
           /\ IsInstance(fs'[i]) /\ Files(fs'[i].tree) \subseteq had'[i]
           /\ ~fs'[i].initialized => had'[i] = {}
<1> DEFINE R == Result(fs[i], c)
<1>1. /\ fs' = [fs EXCEPT ![i] = R.fs]
      /\ had' = [had EXCEPT ![i] = @ \cup Files(R.fs.tree)]
  BY DEF Run
<1>2. /\ IsInstance(fs[i]) /\ Files(fs[i].tree) \subseteq had[i]
      /\ ~fs[i].initialized => had[i] = {}
  BY DEF PageInv
<1>3. /\ IsInstance(R.fs)
      /\ fs[i].initialized => R.fs.initialized
      /\ ~R.fs.initialized /\ Files(fs[i].tree) = {} => Files(R.fs.tree) = {}
  BY <1>2, CallProper
<1> HIDE DEF R
<1>4. DOMAIN fs = Instances /\ DOMAIN had = Instances
  BY DEF PageInv
<1>5. fs'[i] = R.fs /\ had'[i] = had[i] \cup Files(R.fs.tree)
  BY <1>1, <1>4
<1> QED  BY <1>1, <1>2, <1>3, <1>4, <1>5

LEMMA PageNext == PageInv /\ [Next]_vars => PageInv'
<1> SUFFICES ASSUME PageInv, [Next]_vars PROVE PageInv'
  OBVIOUS
<1>1. MaxClicks \in Nat /\ None \notin 0..MaxClicks
  BY Bounds
<1>2. ASSUME NEW c \in Calls, Click(c) PROVE PageInv'
  <2>1. module \in Instances /\ module <= clicks /\ module \notin pending
    BY <1>2 DEF Click, Cached, PageInv
  <2>2. clicks' = clicks + 1 /\ clicks' \in 0..MaxClicks /\ module' = module
        /\ pending' = pending /\ Run(module, c)
    BY <1>1, <1>2 DEF Click, PageInv
  <2>3. /\ DOMAIN fs' = Instances /\ DOMAIN had' = Instances
        /\ \A j \in Instances : j # module => fs'[j] = fs[j] /\ had'[j] = had[j]
        /\ IsInstance(fs'[module]) /\ Files(fs'[module].tree) \subseteq had'[module]
        /\ ~fs'[module].initialized => had'[module] = {}
    BY <2>1, <2>2, RunKeeps
  <2>4. \A j \in Instances :
           /\ IsInstance(fs'[j]) /\ Files(fs'[j].tree) \subseteq had'[j]
           /\ ~fs'[j].initialized => had'[j] = {}
    BY <2>3 DEF PageInv
  <2>5. \A j \in Instances : j > clicks' \/ j \in pending' => fs'[j] = Fresh /\ had'[j] = {}
    <3>1. \A j \in Instances : j > clicks' => j > clicks /\ j # module
      BY <1>1, <2>1, <2>2 DEF PageInv, Instances
    <3> QED  BY <2>1, <2>2, <2>3, <3>1 DEF PageInv
  <2>6. pending' \subseteq 0..clicks' /\ module' <= clicks'
    BY <1>1, <2>1, <2>2 DEF PageInv, Instances
  <2> QED  BY <2>1, <2>2, <2>3, <2>4, <2>5, <2>6 DEF PageInv
<1>3. CASE ClickLoads
  <2>1. clicks' = clicks + 1 /\ clicks' \in 0..MaxClicks /\ module = None /\ module' = None
        /\ pending' = pending \cup {clicks'} /\ fs' = fs /\ had' = had
    BY <1>1, <1>3 DEF ClickLoads, Cached, PageInv
  <2>2. \A j \in Instances : j > clicks' \/ j \in pending' => j > clicks \/ j \in pending
    <3>1. clicks \in Nat /\ \A j \in Instances : j \in Nat
      BY <1>1 DEF PageInv, Instances
    <3> QED  BY <2>1, <3>1
  <2>3. pending' \subseteq 0..clicks' /\ None \notin pending'
    <3>1. clicks \in Nat /\ pending \subseteq 0..clicks
      BY <1>1 DEF PageInv
    <3>2. 0..clicks' \subseteq 0..MaxClicks
      BY <1>1, <2>1
    <3>3. pending' \subseteq 0..clicks'
      BY <2>1, <3>1
    <3> QED  BY <1>1, <3>2, <3>3
  <2> QED  BY <2>1, <2>2, <2>3 DEF PageInv
<1>4. ASSUME NEW i \in pending, NEW c \in Calls \cup {<<"init">>}, Loaded(i, c) PROVE PageInv'
  <2>1. module' = i /\ pending' = pending \ {i} /\ Run(i, c) /\ clicks' = clicks
    BY <1>4 DEF Loaded
  <2>2. i \in Instances /\ i <= clicks
    BY <1>1 DEF PageInv, Instances
  <2>3. /\ DOMAIN fs' = Instances /\ DOMAIN had' = Instances
        /\ \A j \in Instances : j # i => fs'[j] = fs[j] /\ had'[j] = had[j]
        /\ IsInstance(fs'[i]) /\ Files(fs'[i].tree) \subseteq had'[i]
        /\ ~fs'[i].initialized => had'[i] = {}
    BY <2>1, <2>2, RunKeeps
  <2>4. \A j \in Instances :
           /\ IsInstance(fs'[j]) /\ Files(fs'[j].tree) \subseteq had'[j]
           /\ ~fs'[j].initialized => had'[j] = {}
    BY <2>3 DEF PageInv
  <2>5. \A j \in Instances : j > clicks' \/ j \in pending' => fs'[j] = Fresh /\ had'[j] = {}
    <3>1. \A j \in Instances : j > clicks' \/ j \in pending' =>
              j # i /\ (j > clicks \/ j \in pending)
      BY <1>1, <2>1, <2>2 DEF PageInv, Instances
    <3> QED  BY <2>3, <3>1 DEF PageInv
  <2>6. pending' \subseteq 0..clicks' /\ clicks' \in 0..MaxClicks
    BY <2>1 DEF PageInv
  <2> QED  BY <2>1, <2>2, <2>3, <2>4, <2>5, <2>6 DEF PageInv
<1>5. ASSUME NEW i \in pending, LoadFails(i) PROVE PageInv'
  BY <1>5 DEF LoadFails, PageInv
<1>6. CASE UNCHANGED vars
  BY <1>6 DEF vars, PageInv
<1> QED  BY <1>2, <1>3, <1>4, <1>5, <1>6 DEF Next, Over

(* What holds of every reachable state.                                    *)
LEMMA PageSound == Spec => []PageInv
BY PageInit, PageNext, PTL DEF Spec

-----------------------------------------------------------------------------
(* In every instance the files stay a tree with no file in the place of    *)
(* /demo, and a load that is under way has an instance nobody has used.    *)
THEOREM PageTypes == Spec => []TypeOK
<1>1. ASSUME PageInv PROVE TypeOK
  <2>1. ASSUME NEW i \in Instances
        PROVE  LET t == fs[i].tree
               IN  /\ \A p \in DOMAIN t : t[p] \in {Dir, Default, Text} /\ IsDir(t, Front(p))
                   /\ ~IsFile(t, Demo)
                   /\ Files(t) \subseteq had[i]
    <3>1. Good(fs[i].tree) /\ Files(fs[i].tree) \subseteq had[i]
      BY <1>1 DEF PageInv, IsInstance
    <3> QED  BY <3>1 DEF Good, IsTree
  <2>2. /\ module \in Instances \cup {None} /\ module \notin pending
        /\ clicks \in 0..MaxClicks /\ pending \subseteq 0..clicks
    BY <1>1 DEF PageInv
  <2>3. \A i \in pending : fs[i] = Fresh
    BY <1>1, Bounds DEF PageInv, Instances
  <2> QED  BY <2>1, <2>2, <2>3 DEF TypeOK
<1> QED  BY <1>1, PageSound, PTL

(* No operation makes a file again that was deleted or renamed, unless it  *)
(* is asked to make that file.                                             *)
THEOREM NothingComesBack == Spec => []NoResurrection
<1>1. ASSUME PageInv PROVE NoResurrection
  <2> SUFFICES ASSUME NEW i \in Callable, NEW c \in Calls
               PROVE  LET made == Files(Result(fs[i], c).fs.tree) \ Files(fs[i].tree)
                      IN  made \cap had[i] \subseteq Asked(c, made)
    BY DEF NoResurrection
  <2>1. i \in Instances /\ IsInstance(fs[i]) /\ (~fs[i].initialized => had[i] = {})
    BY <1>1 DEF PageInv, Callable
  <2>2. LET R == Result(fs[i], c)
        IN  fs[i].initialized => Files(R.fs.tree) \ Files(fs[i].tree) \subseteq
                                 Asked(c, Files(R.fs.tree) \ Files(fs[i].tree))
    BY <2>1, CallProper
  <2> QED  BY <2>1, <2>2
<1> QED  BY <1>1, PageSound, PTL

(* No operation that fails leaves more behind than the files of the        *)
(* demonstration, except a write to a path with an ending: that leaves the *)
(* directory before the ending, and no more.                               *)
THEOREM FailureIsClean == Spec => []FailureLeavesNothing
<1>1. ASSUME PageInv PROVE FailureLeavesNothing
  <2> SUFFICES ASSUME NEW i \in Callable, NEW c \in Calls, ~Result(fs[i], c).ok
               PROVE  \/ Result(fs[i], c).fs.tree \in {EnsureOnly(fs[i]).tree, Ensure(fs[i]).tree}
                      \/ /\ c[1] = "write" /\ Last(c[2]) \in Endings
                         /\ Result(fs[i], c).fs.tree = Mkdir(Ensure(fs[i]).tree, Front(c[2]))
    BY DEF FailureLeavesNothing
  <2>1. IsInstance(fs[i])
    BY <1>1 DEF PageInv, Callable
  <2> QED  BY <2>1, CallProper
<1> QED  BY <1>1, PageSound, PTL
=============================================================================
