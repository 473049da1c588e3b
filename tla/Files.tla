------------------------------- MODULE Files -------------------------------
(***************************************************************************)
(* What the system calls on files promise a program: a tree of names, the  *)
(* bytes of each file, and open files with a position.  A file lives while *)
(* it has a name or is open.  A call that fails changes nothing, but for   *)
(* an open that finds every descriptor taken when the file has been made.  *)
(***************************************************************************)
EXTENDS FileTree, Integers

CONSTANTS
    Paths,   \* the paths a program may name
    File,    \* the files there can be
    Fds,     \* the descriptors
    Closed,  \* an entry of the table of descriptors that is free
    Bufs,    \* what a program writes with one call, a pair of pieces
    Counts,  \* how much it reads with one call, in two pieces
    Seeks    \* where it moves to: an offset and what it is counted from

Modes == {"read", "directory", "write", "append"}
Calls ==
    ({"mkdir", "rmdir", "unlink", "look"} \X Paths) \cup ({"rename"} \X Paths \X Paths)
    \cup ({"open"} \X Paths \X Modes) \cup ({"close"} \X Fds)
    \cup ({"read"} \X Fds \X Counts) \cup ({"write"} \X Fds \X Bufs)
    \cup ({"seek"} \X Fds \X Seeks)

VARIABLES
    tree,    \* path -> file, or Dir
    data,    \* file -> its bytes
    open,    \* descriptor -> [file, mode, pos]
    call,    \* the last call
    result   \* what it returned

vars == <<tree, data, open, call, result>>

Done == <<"done">>
Failed == <<"failed">>

NoFiles == [f \in {} |-> <<>>]

Init ==
    /\ tree = [p \in {} |-> Dir]
    /\ data = NoFiles
    /\ open = [fd \in Fds |-> Closed]
    /\ call = <<>> /\ result = Done

IsOpen(fd) == open[fd] # Closed
(* The files with a name, or that are open.                                *)
Living(t, o) == ({t[p] : p \in DOMAIN t} \cup {o[fd].file : fd \in {x \in Fds : o[x] # Closed}}) \ {Dir}
Remain(t, o) == data' = [f \in Living(t, o) \cap DOMAIN data |-> data[f]]

(* A call that fails, or only looks.                                       *)
Only(r) == result' = r /\ UNCHANGED <<tree, data, open>>

-----------------------------------------------------------------------------
MkDir(p) ==
    /\ result' = IF CanMkdir(tree, p) THEN Done ELSE Failed
    /\ tree' = Mkdir(tree, p)
    /\ UNCHANGED <<data, open>>

Rmdir(p) ==
    /\ result' = IF CanRmdir(tree, p) THEN Done ELSE Failed
    /\ tree' = IF CanRmdir(tree, p) THEN Without(tree, {p}) ELSE tree
    /\ UNCHANGED <<data, open>>

Unlink(p) ==
    /\ result' = IF IsFile(tree, p) THEN Done ELSE Failed
    /\ tree' = IF IsFile(tree, p) THEN Without(tree, {p}) ELSE tree
    /\ Remain(tree', open)
    /\ UNCHANGED open

Rename(p, q) ==
    /\ result' = IF CanMove(tree, p, q) THEN Done ELSE Failed
    /\ tree' = IF CanMove(tree, p, q) THEN Move(tree, p, q) ELSE tree
    /\ Remain(tree', open)
    /\ UNCHANGED open

(* What is at a path: a file with its size, a directory with its names.    *)
(* To list them a descriptor has to be free.                               *)
CanList(p) == IsDir(tree, p) /\ \E fd \in Fds : ~IsOpen(fd)
Shown(p) ==
    CASE IsFile(tree, p) -> <<"size", Len(data[tree[p]])>>
      [] CanList(p)      -> <<"names", {q[Len(p) + 1] : q \in Below(tree, p)}>>
      [] OTHER           -> Failed
Look(p) == Only(Shown(p))

(* An open makes the file f, or empties it, as its mode asks for.          *)
CanOpen(p, mode) ==
    CASE mode = "read"      -> Exists(tree, p)
      [] mode = "directory" -> IsDir(tree, p)
      [] OTHER              -> CanPut(tree, p)
Opens(p, mode, f) ==
    /\ IF Exists(tree, p) THEN f = tree[p] ELSE f \in File \ Living(tree, open)
    /\ tree' = IF Exists(tree, p) THEN tree ELSE With(tree, p, f)
    /\ data' = IF ~Exists(tree, p) \/ mode = "write" THEN With(data, f, <<>>) ELSE data
    /\ \/ \E fd \in Fds :
             /\ ~IsOpen(fd)
             /\ result' = <<"fd", fd>>
             /\ open' = [open EXCEPT ![fd] = [file |-> f, mode |-> mode, pos |-> 0]]
       \/ /\ \A fd \in Fds : IsOpen(fd)
          /\ result' = Failed
          /\ UNCHANGED open
Open(p, mode) ==
    \/ ~CanOpen(p, mode) /\ Only(Failed)
    \/ CanOpen(p, mode) /\ \E f \in File \cup {Dir} : Opens(p, mode, f)

Close(fd) ==
    /\ result' = IF IsOpen(fd) THEN Done ELSE Failed
    /\ open' = [open EXCEPT ![fd] = Closed]
    /\ Remain(tree, open')
    /\ UNCHANGED tree

(* The bytes from pos on, n at most.                                       *)
Bytes(d, pos, n) == SubSeq(d, pos + 1, IF pos + n < Len(d) THEN pos + n ELSE Len(d))
CanRead(fd) == IsOpen(fd) /\ open[fd].mode = "read" /\ open[fd].file # Dir
Read(fd, n) ==
    \/ /\ CanRead(fd)
       /\ LET got == Bytes(data[open[fd].file], open[fd].pos, n[1] + n[2])
          IN  /\ result' = <<"bytes", got>>
              /\ open' = [open EXCEPT ![fd].pos = @ + Len(got)]
       /\ UNCHANGED <<tree, data>>
    \/ ~CanRead(fd) /\ Only(Failed)

(* The bytes d with b over them from pos on; a gap reads as zeros.         *)
Overwritten(d, pos, b) ==
    IF b = <<>> THEN d
    ELSE [i \in 1..(IF Len(d) < pos + Len(b) THEN pos + Len(b) ELSE Len(d)) |->
            IF i > pos /\ i <= pos + Len(b) THEN b[i - pos]
            ELSE IF i <= Len(d) THEN d[i] ELSE 0]

CanWrite(fd) == IsOpen(fd) /\ open[fd].mode \in {"write", "append"}
Write(fd, b) ==
    \/ /\ CanWrite(fd)
       /\ LET f == open[fd].file
              pos == IF open[fd].mode = "append" THEN Len(data[f]) ELSE open[fd].pos
              all == b[1] \o b[2]
          IN  /\ result' = <<"count", Len(all)>>
              /\ data' = [data EXCEPT ![f] = Overwritten(@, pos, all)]
              /\ open' = [open EXCEPT ![fd].pos = pos + Len(all)]
       /\ UNCHANGED tree
    \/ ~CanWrite(fd) /\ Only(Failed)

(* The end of a directory counts as its start.                             *)
Target(fd, s) ==
    s[1] + (CASE s[2] = "start" -> 0
              [] s[2] = "here"  -> open[fd].pos
              [] s[2] = "end"   -> IF open[fd].file = Dir THEN 0 ELSE Len(data[open[fd].file]))
CanSeek(fd, s) == IsOpen(fd) /\ Target(fd, s) >= 0
Seek(fd, s) ==
    \/ /\ CanSeek(fd, s)
       /\ result' = <<"position", Target(fd, s)>>
       /\ open' = [open EXCEPT ![fd].pos = Target(fd, s)]
       /\ UNCHANGED <<tree, data>>
    \/ ~CanSeek(fd, s) /\ Only(Failed)

Do(c) ==
    CASE c[1] = "mkdir"  -> MkDir(c[2])
      [] c[1] = "rmdir"  -> Rmdir(c[2])
      [] c[1] = "unlink" -> Unlink(c[2])
      [] c[1] = "rename" -> Rename(c[2], c[3])
      [] c[1] = "look"   -> Look(c[2])
      [] c[1] = "open"   -> Open(c[2], c[3])
      [] c[1] = "close"  -> Close(c[2])
      [] c[1] = "read"   -> Read(c[2], c[3])
      [] c[1] = "write"  -> Write(c[2], c[3])
      [] c[1] = "seek"   -> Seek(c[2], c[3])

Next == call' \in Calls /\ Do(call')

Spec == Init /\ [][Next]_vars
=============================================================================
