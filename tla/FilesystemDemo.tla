--------------------------- MODULE FilesystemDemo ---------------------------
(***************************************************************************)
(* The operations of the filesystem demonstration, on the files that the   *)
(* C library keeps in memory for one instance of the program.              *)
(***************************************************************************)
EXTENDS FileTree

CONSTANTS
    Default,  \* the contents of the files made for the demonstration
    Text,     \* what a user writes
    Dotted    \* the names that begin with a dot

ASSUME Contents == Dir # Default /\ Dir # Text

Demo    == <<"demo">>
Hello   == Demo \o <<"hello.txt">>
Data    == Demo \o <<"data.txt">>
Numbers == Demo \o <<"numbers.txt">>
Subdir  == Demo \o <<"subdir">>
Nested  == Subdir \o <<"nested.txt">>
NewFile == Demo \o <<"new_file.txt">>
Renamed == Demo \o <<"renamed_numbers.txt">>
NewDir  == Demo \o <<"new_directory">>
Defaults == {Hello, Data, Numbers, Subdir, Nested}

-----------------------------------------------------------------------------
(* A path as it is typed: its names and, if it ends in "/" or in "/.", what *)
(* comes after the last slash.                                             *)
Endings == {"", "."}

(* What a typed path leads to when it is looked up whole (stat, open).     *)
Looked(p) == IF Last(p) \in Endings THEN Front(p) ELSE p

(* The entry it names when what is above it is looked up (mkdir, unlink,   *)
(* rmdir, rename): a slash is taken off, a dot is a name like any other.   *)
Entry(p) == IF Last(p) = "" THEN Front(p) ELSE p

-----------------------------------------------------------------------------
(* One instance of the program: its files, and fs_initialized.             *)
Fresh == [tree |-> [p \in {} |-> Dir], initialized |-> FALSE]

(* ensure_demo_directory_only                                              *)
EnsureOnly(F) == [F EXCEPT !.tree = Mkdir(@, Demo)]

(* Each of the default files that can be made.                             *)
PutDefaults(t) ==
    LET put(u, p) == Put(u, p, Default)
    IN  put(put(put(put(t, Hello), Data), Numbers), Nested)

(* Mutated Ensure: fs_initialized is not set.                              *)
EnsureAgain(F) ==
    IF F.initialized THEN EnsureOnly(F)
    ELSE [F EXCEPT !.tree = PutDefaults(Mkdir(Mkdir(@, Demo), Subdir))]

(* ensure_demo_directory                                                   *)
Ensure(F) ==
    IF F.initialized THEN EnsureOnly(F)
    ELSE [tree |-> PutDefaults(Mkdir(Mkdir(F.tree, Demo), Subdir)), initialized |-> TRUE]

(* What an operation returns: the instance after it, and whether it says   *)
(* that it succeeded.                                                      *)
Done(F, t) == [fs |-> [F EXCEPT !.tree = t], ok |-> TRUE]
Failed(F) == [fs |-> F, ok |-> FALSE]

(* A directory can be opened for reading, and is empty when read.          *)
ReadFile(F, p) == LET G == EnsureOnly(F) IN
    IF Exists(G.tree, Looked(p)) THEN Done(G, G.tree) ELSE Failed(G)
ReadDir(F, p) == LET G == EnsureOnly(F) IN
    IF IsDir(G.tree, Looked(p)) THEN Done(G, G.tree) ELSE Failed(G)
Stat(F, p) == LET G == EnsureOnly(F) IN
    IF Exists(G.tree, Looked(p)) THEN Done(G, G.tree) ELSE Failed(G)

(* Mutated WriteFile: directories are made as far up as it takes, as a     *)
(* comment there says; or /demo is not made first.                         *)
WriteFileDeep(F, p) ==
    LET G == Ensure(F)
        ups == {SubSeq(p, 1, n) : n \in 1..(Len(p) - 1)}
        up == IF \E u \in ups : IsFile(G.tree, u) THEN G.tree
              ELSE [q \in DOMAIN G.tree \cup ups |->
                       IF q \in DOMAIN G.tree THEN G.tree[q] ELSE Dir]
    IN  IF CanPut(up, Looked(p)) THEN Done(G, Put(up, Looked(p), Text))
        ELSE Failed([G EXCEPT !.tree = up])
WriteFileBare(F, p) ==
    IF CanPut(F.tree, Looked(p)) THEN Done(F, Put(F.tree, Looked(p), Text)) ELSE Failed(F)

(* demo_fs_write makes a directory of all that is before the last slash,   *)
(* if its parent is there, and then opens the path.                        *)
WriteFile(F, p) ==
    LET G == Ensure(F)
        up == IF Len(p) > 1 THEN Mkdir(G.tree, Front(p)) ELSE G.tree
    IN  IF CanPut(up, Looked(p)) THEN Done(G, Put(up, Looked(p), Text))
        ELSE Failed([G EXCEPT !.tree = up])

MakeDir(F, p) == LET G == Ensure(F) IN
    IF Last(p) # "." /\ CanMkdir(G.tree, Entry(p)) THEN Done(G, Mkdir(G.tree, Entry(p)))
    ELSE Failed(G)
Unlink(F, p) == LET G == EnsureOnly(F) IN
    IF Exists(G.tree, Looked(p)) /\ IsFile(G.tree, Entry(p))
    THEN Done(G, Without(G.tree, {Entry(p)})) ELSE Failed(G)
Rmdir(F, p) == LET G == EnsureOnly(F) IN
    IF IsDir(G.tree, Looked(p)) /\ CanRmdir(G.tree, Entry(p))
    THEN Done(G, Without(G.tree, {Entry(p)})) ELSE Failed(G)

(* How FS.rename finds that d is p or below it: the way from p to d does   *)
(* not begin with a dot.                                                   *)
Leads(p, d) == IsPrefix(p, d) /\ (Len(p) < Len(d) => d[Len(p) + 1] \notin Dotted)

(* A directory that is moved into itself all the same is lost, with all    *)
(* that is in it.                                                          *)
Rename(F, p, q) ==
    LET G == EnsureOnly(F)
        from == Entry(p)
        to == Entry(q)
        moved == IF IsStrictPrefix(from, to) THEN Without(G.tree, {from} \cup Below(G.tree, from))
                 ELSE Move(G.tree, from, to)
    IN  IF /\ Exists(G.tree, Looked(p)) /\ Fits(G.tree, from, to)
           /\ ~Leads(Looked(p), Front(to)) /\ ~Leads(Looked(q), Front(from))
        THEN Done(G, moved) ELSE Failed(G)

(* filesystem_demo makes the default files once more, then writes a file,  *)
(* renames one, makes a directory and deletes the file again.              *)
RunDemo(F) ==
    LET t == Mkdir(F.tree, Demo)
        G == [F EXCEPT !.tree = PutDefaults(Mkdir(t, Subdir))]
        steps == MakeDir(Rename(WriteFile(G, NewFile).fs, Numbers, Renamed).fs, NewDir).fs
    IN  [fs |-> Unlink(steps, NewFile).fs, ok |-> TRUE]
=============================================================================
