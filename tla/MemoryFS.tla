------------------------------ MODULE MemoryFS ------------------------------
(***************************************************************************)
(* The file system in memory that the programs of the page run on: nodes   *)
(* with their directories, the table that finds a node by its parent and   *)
(* name, the array of a file's bytes, and the table of streams.  One call  *)
(* is one step, for nothing interrupts it.                                 *)
(***************************************************************************)
EXTENDS Integers, FiniteSets, SequencesExt, FileStorage

CONSTANTS
    Names,      \* what a node may be called
    Dotted,     \* those of the names that begin with a dot
    NameHash,   \* the hash of each
    TableSize,  \* of nameTable
    MaxInode,   \* bound on nextInode
    Paths,      \* those that a program uses
    Fds,        \* the descriptors but for those of the terminal
    NoStream, NoName,
    Dir,        \* what a program sees at the path of a directory
    Bufs, Counts, Seeks  \* the arguments of write, read and seek

ASSUME Tables ==
    /\ TableSize \in Nat \ {0} /\ NameHash \in [Names -> Nat] /\ NoName \notin Names
    /\ Dotted \subseteq Names /\ MaxInode \in Nat \ {0}
    /\ Paths \subseteq Seq(Names) \ {<<>>}
    /\ Fds \subseteq Nat
ASSUME Arguments ==
    /\ \A b \in Bufs : b \in Seq(Nat) \X Seq(Nat)
    /\ Counts \subseteq Nat \X Nat
    /\ Seeks \subseteq Int \X {"start", "here", "end"}

NoNode == 0
Root == 1
Nodes == 0..MaxInode
Modes == {"read", "directory", "write", "append"}

VARIABLES
    nextInode,
    kind,       \* of each node: "none" before it is made
    parent, name,
    entries,    \* the contents of a directory: name -> node
    file,       \* the contents of a file
    nameTable,  \* hash -> the chain of nodes, by name_next
    streams,
    call,       \* the last call
    result      \* what it returned

nodes == <<nextInode, kind, parent, name, entries, nameTable>>
vars == <<nextInode, kind, parent, name, entries, nameTable, file, streams, call, result>>

Done == <<"done">>
Failed == <<"failed">>
Returns(c, r) == call' = c /\ result' = r

-----------------------------------------------------------------------------
(* The name table.                                                         *)

HashName(id, n) == (id + (IF n = NoName THEN 0 ELSE NameHash[n])) % TableSize
HashAddNode(table, m, d, n) == [table EXCEPT ![HashName(d, n)] = <<m>> \o @]
HashRemoveNode(table, m) == [table EXCEPT ![HashName(parent[m], name[m])] = RemoveFirst(@, m)]

Directories == {m \in Nodes : kind[m] = "dir"}

LookupNode(d, n) ==
    LET chain == nameTable[HashName(d, n)]
        i == SelectInSeq(chain, LAMBDA m : parent[m] = d /\ name[m] = n)
    IN  IF d \in Directories /\ i # 0 THEN chain[i] ELSE NoNode

(* FS.lookupPath of a path without dots or links.                          *)
LookupPath(p) ==
    LET at[i \in 0..Len(p)] == IF i = 0 THEN Root ELSE LookupNode(at[i - 1], p[i])
    IN  at[Len(p)]
ParentOf(p) == LookupPath(Front(p))
NodeAt(p) == LookupNode(ParentOf(p), Last(p))

MayCreate(d, n) == d \in Directories /\ LookupNode(d, n) = NoNode
IsEmpty(d) == \A n \in Names : entries[d][n] = NoNode

-----------------------------------------------------------------------------
(* The root is in the table as well, under a name of its own.              *)
Init ==
    /\ nextInode = Root + 1
    /\ kind = [m \in Nodes |-> IF m = Root THEN "dir" ELSE "none"]
    /\ parent = [m \in Nodes |-> IF m = Root THEN Root ELSE NoNode]
    /\ name = [m \in Nodes |-> NoName]
    /\ entries = [m \in Nodes |-> [n \in Names |-> NoNode]]
    /\ file = [m \in Nodes |-> NoBytes]
    /\ nameTable = [h \in 0..(TableSize - 1) |->
                       IF h = HashName(Root, NoName) THEN <<Root>> ELSE <<>>]
    /\ streams = [fd \in Fds |-> NoStream]
    /\ call = <<>> /\ result = Done

(* FS.mknod and MEMFS.createNode, where it may be created.                 *)
CreateNode(d, n, k) ==
    /\ nextInode <= MaxInode
    /\ nextInode' = nextInode + 1
    /\ kind' = [kind EXCEPT ![nextInode] = k]
    /\ parent' = [parent EXCEPT ![nextInode] = d]
    /\ name' = [name EXCEPT ![nextInode] = n]
    /\ nameTable' = HashAddNode(nameTable, nextInode, d, n)
    /\ entries' = [entries EXCEPT ![d][n] = nextInode]

MkDir(p) ==
    LET d == ParentOf(p)
        may == MayCreate(d, Last(p))
    IN  /\ Returns(<<"mkdir", p>>, IF may THEN Done ELSE Failed)
        /\ IF may THEN CreateNode(d, Last(p), "dir") ELSE UNCHANGED nodes
        /\ UNCHANGED <<file, streams>>

(* A node loses its name; a stream may still refer to it.                  *)
(* Mutated: the table still finds it.                                      *)
DetachFound(m) ==
    /\ entries' = [entries EXCEPT ![parent[m]][name[m]] = NoNode]
    /\ UNCHANGED <<nextInode, kind, parent, name, nameTable>>
Detach(m) ==
    /\ entries' = [entries EXCEPT ![parent[m]][name[m]] = NoNode]
    /\ nameTable' = HashRemoveNode(nameTable, m)
    /\ UNCHANGED <<nextInode, kind, parent, name>>

Rmdir(p) ==
    LET m == NodeAt(p)
        may == m # NoNode /\ kind[m] = "dir" /\ IsEmpty(m)
    IN  /\ Returns(<<"rmdir", p>>, IF may THEN Done ELSE Failed)
        /\ IF may THEN Detach(m) ELSE UNCHANGED nodes
        /\ UNCHANGED <<file, streams>>

Unlink(p) ==
    LET m == NodeAt(p)
        may == m # NoNode /\ kind[m] # "dir"
    IN  /\ Returns(<<"unlink", p>>, IF may THEN Done ELSE Failed)
        /\ IF may THEN Detach(m) ELSE UNCHANGED nodes
        /\ UNCHANGED <<file, streams>>

(* PATH_FS.relative(from, to) begins with a dot.                           *)
Outside(from, to) ==
    ~IsPrefix(from, to) \/ (Len(to) > Len(from) /\ to[Len(from) + 1] \in Dotted)

(* What FS.rename asks for before it takes the node out of the table.      *)
MayRename(p, q) ==
    LET old == NodeAt(p)
        new == NodeAt(q)
    IN  /\ old # NoNode
        /\ Outside(p, Front(q)) /\ Outside(q, Front(p))
        /\ \/ old = new
           \/ new # NoNode /\ kind[new] = kind[old]
           \/ new = NoNode /\ MayCreate(ParentOf(q), Last(q))

(* MEMFS.rename finds that it would overwrite a directory with entries,    *)
(* when the node is out of the table: it is put back.                      *)
Overwrites(old, new) == new # NoNode /\ kind[old] = "dir" /\ ~IsEmpty(new)
(* Mutated: the node is not put back.                                      *)
StayOut(old) ==
    /\ nameTable' = HashRemoveNode(nameTable, old)
    /\ UNCHANGED <<nextInode, kind, parent, name, entries>>
Stay(old) ==
    /\ nameTable' = HashAddNode(HashRemoveNode(nameTable, old), old, parent[old], name[old])
    /\ UNCHANGED <<nextInode, kind, parent, name, entries>>

Move(old, new, d, n) ==
    /\ entries' = [entries EXCEPT ![parent[old]][name[old]] = NoNode, ![d][n] = old]
    /\ LET rest == HashRemoveNode(nameTable, old)
       IN  nameTable' = HashAddNode(IF new = NoNode THEN rest ELSE HashRemoveNode(rest, new),
                                    old, d, n)
    /\ parent' = [parent EXCEPT ![old] = d]
    /\ name' = [name EXCEPT ![old] = n]
    /\ UNCHANGED <<nextInode, kind>>

Rename(p, q) ==
    LET old == NodeAt(p)
        new == NodeAt(q)
        may == MayRename(p, q)
    IN  /\ Returns(<<"rename", p, q>>,
                   IF may /\ (old = new \/ ~Overwrites(old, new)) THEN Done ELSE Failed)
        /\ \/ (~may \/ old = new) /\ UNCHANGED nodes
           \/ may /\ old # new /\ Overwrites(old, new) /\ Stay(old)
           \/ may /\ old # new /\ ~Overwrites(old, new) /\ Move(old, new, ParentOf(q), Last(q))
        /\ UNCHANGED <<file, streams>>

IsOpen(fd) == streams[fd] # NoStream
Free == {fd \in Fds : ~IsOpen(fd)}

(* stat of a file; and the listing of a directory, from opendir to         *)
(* closedir: for a while it takes a descriptor, and each of the entries is *)
(* looked up.                                                              *)
CanList(m) ==
    /\ kind[m] = "dir" /\ Free # {}
    /\ \A n \in Names : entries[m][n] # NoNode => LookupNode(m, n) # NoNode
Shown(m) ==
    CASE kind[m] = "file" -> <<"size", file[m].usedBytes>>
      [] CanList(m)       -> <<"names", {n \in Names : entries[m][n] # NoNode}>>
      [] OTHER            -> Failed
Look(p) ==
    /\ Returns(<<"look", p>>, Shown(NodeAt(p)))
    /\ UNCHANGED <<nodes, file, streams>>

-----------------------------------------------------------------------------
(* Streams.                                                                *)

(* FS.createStream: the first free descriptor, or an error when the file   *)
(* has been made or emptied already.                                       *)
CreateStream(c, m, mode) ==
    \/ \E fd \in Free :
          /\ \A x \in Free : fd <= x
          /\ Returns(c, <<"fd", fd>>)
          /\ streams' = [streams EXCEPT ![fd] = [node |-> m, mode |-> mode, position |-> 0]]
    \/ Free = {} /\ Returns(c, Failed) /\ UNCHANGED streams

MayOpen(m, mode) ==
    CASE mode = "read"      -> kind[m] # "none"
      [] mode = "directory" -> kind[m] = "dir"
      [] OTHER              -> kind[m] = "file"

Open(p, mode) ==
    LET m == NodeAt(p)
        c == <<"open", p, mode>>
        creates == m = NoNode /\ mode \in {"write", "append"} /\ MayCreate(ParentOf(p), Last(p))
    IN  \/ /\ MayOpen(m, mode)
           /\ file' = IF mode = "write" THEN [file EXCEPT ![m] = NoBytes] ELSE file
           /\ CreateStream(c, m, mode)
           /\ UNCHANGED nodes
        \/ /\ creates
           /\ CreateNode(ParentOf(p), Last(p), "file")
           /\ CreateStream(c, nextInode, mode)
           /\ UNCHANGED file
        \/ /\ ~MayOpen(m, mode) /\ ~creates
           /\ Returns(c, Failed)
           /\ UNCHANGED <<nodes, file, streams>>

Close(fd) ==
    /\ Returns(<<"close", fd>>, IF IsOpen(fd) THEN Done ELSE Failed)
    /\ streams' = [streams EXCEPT ![fd] = NoStream]
    /\ UNCHANGED <<nodes, file>>

(* A call on a stream fails if it may not be made there.                   *)
Refused(c, may) ==
    /\ ~may
    /\ Returns(c, Failed)
    /\ UNCHANGED <<nodes, file, streams>>

(* doReadv: the second piece is read when the first has been filled.       *)
CanRead(fd) == IsOpen(fd) /\ streams[fd].mode = "read" /\ kind[streams[fd].node] = "file"
ReadV(f, pos, n) ==
    LET first == Found(f, pos, n[1])
    IN  IF Len(first) < n[1] THEN first ELSE first \o Found(f, pos + n[1], n[2])
Read(fd, n) ==
    \/ /\ CanRead(fd)
       /\ LET got == ReadV(file[streams[fd].node], streams[fd].position, n)
          IN  /\ Returns(<<"read", fd, n>>, <<"bytes", got>>)
              /\ streams' = [streams EXCEPT ![fd].position = @ + Len(got)]
       /\ UNCHANGED <<nodes, file>>
    \/ Refused(<<"read", fd, n>>, CanRead(fd))

(* doWritev: each piece goes to the position, or in append mode to what is *)
(* then the end of the file.                                               *)
CanWrite(fd) ==
    IsOpen(fd) /\ streams[fd].mode \in {"write", "append"} /\ kind[streams[fd].node] = "file"
(* Mutated: an append goes to the position, too.                           *)
AtPosition(mode, f, pos) == pos
At(mode, f, pos) == IF mode = "append" THEN f.usedBytes ELSE pos
Write(fd, b) ==
    \/ /\ CanWrite(fd)
       /\ LET s == streams[fd]
              f == file[s.node]
              pos == At(s.mode, f, s.position)
              g == Written(f, pos, b[1])
              next == At(s.mode, g, pos + Len(b[1]))
          IN  /\ Returns(<<"write", fd, b>>, <<"count", Len(b[1]) + Len(b[2])>>)
              /\ file' = [file EXCEPT ![s.node] = Written(g, next, b[2])]
              /\ streams' = [streams EXCEPT ![fd].position = next + Len(b[2])]
       /\ UNCHANGED nodes
    \/ Refused(<<"write", fd, b>>, CanWrite(fd))

(* FS.llseek.                                                              *)
Target(fd, s) ==
    s[1] + (CASE s[2] = "start" -> 0
              [] s[2] = "here"  -> streams[fd].position
              [] s[2] = "end"   -> file[streams[fd].node].usedBytes)
CanSeek(fd, s) == IsOpen(fd) /\ Target(fd, s) >= 0
Seek(fd, s) ==
    \/ /\ CanSeek(fd, s)
       /\ Returns(<<"seek", fd, s>>, <<"position", Target(fd, s)>>)
       /\ streams' = [streams EXCEPT ![fd].position = Target(fd, s)]
       /\ UNCHANGED <<nodes, file>>
    \/ Refused(<<"seek", fd, s>>, CanSeek(fd, s))

Next ==
    \/ \E p \in Paths : MkDir(p) \/ Rmdir(p) \/ Unlink(p) \/ Look(p)
    \/ \E p, q \in Paths : Rename(p, q)
    \/ \E p \in Paths, mode \in Modes : Open(p, mode)
    \/ \E fd \in Fds :
          \/ Close(fd)
          \/ \E n \in Counts : Read(fd, n)
          \/ \E b \in Bufs : Write(fd, b)
          \/ \E s \in Seeks : Seek(fd, s)

Spec == Init /\ [][Next]_vars

-----------------------------------------------------------------------------
StreamType == [node : Nodes \ {NoNode}, mode : Modes, position : Nat]
NodeType ==
    /\ nextInode \in 2..(MaxInode + 1)
    /\ kind \in [Nodes -> {"none", "dir", "file"}] /\ kind[Root] = "dir"
    /\ parent \in [Nodes -> Nodes] /\ name \in [Nodes -> Names \cup {NoName}]
    /\ entries \in [Nodes -> [Names -> Nodes]]
    /\ nameTable \in [0..(TableSize - 1) -> Seq(Nodes \ {NoNode})]
    /\ \A m \in Nodes : kind[m] = "none" <=> m \notin Root..(nextInode - 1)
    /\ \A m \in Nodes \ {Root} : kind[m] # "none" => name[m] \in Names
    /\ parent[Root] = Root /\ name[Root] = NoName
TypeOK ==
    /\ NodeType
    /\ file \in [Nodes -> [contents : Seq(Nat), usedBytes : Nat]]
    /\ \A m \in Nodes : Sound(file[m]) /\ (kind[m] # "file" => file[m] = NoBytes)
    /\ streams \in [Fds -> StreamType \cup {NoStream}]
    /\ \A fd \in Fds : IsOpen(fd) => kind[streams[fd].node] # "none"

Linked(m) == m # Root /\ kind[m] # "none" /\ entries[parent[m]][name[m]] = m

(* The table holds each node that a directory lists, once, in the chain of *)
(* its parent and name, and besides these the root.                        *)
TableSound ==
    /\ \A h \in DOMAIN nameTable : \A i, j \in DOMAIN nameTable[h] :
          LET m == nameTable[h][i]
          IN  /\ m = Root \/ Linked(m)
              /\ HashName(parent[m], name[m]) = h
              /\ nameTable[h][j] = m => i = j
    /\ \A d \in Nodes, n \in Names :
          LET m == entries[d][n]
          IN  m # NoNode => /\ kind[d] = "dir" /\ parent[m] = d /\ name[m] = n
                            /\ \E i \in DOMAIN nameTable[HashName(d, n)] :
                                  nameTable[HashName(d, n)][i] = m

(* What a directory lists is what a lookup finds, and nothing else.        *)
LookupExact ==
    \A d \in Nodes, n \in Names :
        LookupNode(d, n) = IF kind[d] = "dir" THEN entries[d][n] ELSE NoNode

(* rename: "old path should not be an ancestor of the new path".  Every    *)
(* node that a directory lists is below the root.                          *)
Rooted ==
    \A m \in Nodes : Linked(m) =>
        LET up[i \in 0..MaxInode] == IF i = 0 THEN m ELSE parent[up[i - 1]]
        IN  up[MaxInode] = Root

-----------------------------------------------------------------------------
(* The promise: the tree that lookups find, the bytes that count.          *)
GetPath[m \in Nodes] == IF m = Root THEN <<>> ELSE Append(GetPath[parent[m]], name[m])
Listed == {m \in Nodes : Linked(m)}
Seen(m) == IF kind[m] = "dir" THEN Dir ELSE m
Tree ==
    LET at == [m \in Listed |-> GetPath[m]]
    IN  [p \in Range(at) |-> Seen(CHOOSE m \in DOMAIN at : at[m] = p)]
Opened(s) == [file |-> Seen(s.node), mode |-> s.mode, pos |-> s.position]
OpenFiles == [fd \in Fds |-> IF IsOpen(fd) THEN Opened(streams[fd]) ELSE NoStream]
Alive == {m \in Listed \cup {streams[fd].node : fd \in Fds \ Free} : kind[m] = "file"}
Data == [m \in Alive |-> Stored(file[m])]

Promise == INSTANCE Files WITH
    File <- Nodes, Closed <- NoStream,
    tree <- Tree, data <- Data, open <- OpenFiles

(* To the program it is a file system.                                     *)
Implements == Promise!Spec
=============================================================================
