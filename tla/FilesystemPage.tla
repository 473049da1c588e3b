--------------------------- MODULE FilesystemPage ---------------------------
(***************************************************************************)
(* The page of the filesystem demonstration: it loads the program once and *)
(* keeps it; a button asks for paths, waits for the program and calls it.  *)
(* While the program is being loaded, buttons can be clicked.              *)
(***************************************************************************)
EXTENDS FilesystemDemo, FiniteSets

CONSTANTS
    UserPaths,  \* the paths a user enters, absolute and without ".."
    MaxClicks,  \* bound on the clicks
    MaxDepth,   \* bound on the depth of a tree, for names are shorter than PATH_MAX
    None

ASSUME Bounds == MaxClicks \in Nat /\ MaxDepth \in Nat /\ None \notin 0..MaxClicks
ASSUME Entered ==
    \A p \in UserPaths :
        /\ p \in Seq(STRING) \ {<<>>}
        /\ \A i \in 1..Len(p) : p[i] \in Endings => 1 < i /\ i = Len(p)

(* Each load makes an instance of its own: the page's, and those of clicks *)
Instances == 0..MaxClicks

VARIABLES
    fs,       \* the instances
    module,   \* filesystemModule: the one that is cached
    pending,  \* those being loaded, for the page or for a click
    clicks,
    had       \* history: the files that each instance has had

vars == <<fs, module, pending, clicks, had>>

Calls == {<<op, p>> : op \in {"read", "list", "stat", "write", "mkdir", "unlink", "rmdir"},
                      p \in UserPaths}
         \cup {<<"rename", p, q>> : p, q \in UserPaths}
         \cup {<<"demo">>}

Result(F, c) ==
    CASE c[1] = "init"   -> [fs |-> Ensure(F), ok |-> TRUE]
      [] c[1] = "read"   -> ReadFile(F, c[2])
      [] c[1] = "list"   -> ReadDir(F, c[2])
      [] c[1] = "stat"   -> Stat(F, c[2])
      [] c[1] = "write"  -> WriteFile(F, c[2])
      [] c[1] = "mkdir"  -> MakeDir(F, c[2])
      [] c[1] = "unlink" -> Unlink(F, c[2])
      [] c[1] = "rmdir"  -> Rmdir(F, c[2])
      [] c[1] = "rename" -> Rename(F, c[2], c[3])
      [] c[1] = "demo"   -> RunDemo(F)

Files(t) == {p \in DOMAIN t : IsFile(t, p)}

Init ==
    /\ fs = [i \in Instances |-> Fresh]
    /\ module = None
    /\ pending = {0}
    /\ clicks = 0
    /\ had = [i \in Instances |-> {}]

(* The call of a function of the program, which nothing interrupts.        *)
Run(i, c) ==
    LET F == Result(fs[i], c).fs
    IN  /\ \A p \in DOMAIN F.tree : Len(p) <= MaxDepth
        /\ fs' = [fs EXCEPT ![i] = F]
        /\ had' = [had EXCEPT ![i] = @ \cup Files(F.tree)]

Cached == module # None

(* callModuleFunction, with the program there.                             *)
Click(c) ==
    /\ Cached
    /\ clicks < MaxClicks
    /\ clicks' = clicks + 1
    /\ Run(module, c)
    /\ UNCHANGED <<module, pending>>

(* callModuleFunction, when it has to load the program first.              *)
ClickLoads ==
    /\ ~Cached
    /\ clicks < MaxClicks
    /\ clicks' = clicks + 1
    /\ pending' = pending \cup {clicks'}
    /\ UNCHANGED <<fs, module, had>>

(* A load ends, in any order: the instance is cached and called at once,   *)
(* for the page with filesystem_init, for a click with what it asked for.  *)
Loaded(i, c) ==
    /\ i \in pending
    /\ c \in IF i = 0 THEN {<<"init">>} ELSE Calls
    /\ module' = i
    /\ pending' = pending \ {i}
    /\ Run(i, c)
    /\ UNCHANGED clicks

(* Or it fails, with a message.                                            *)
LoadFails(i) ==
    /\ i \in pending
    /\ pending' = pending \ {i}
    /\ UNCHANGED <<fs, module, clicks, had>>

(* The user has gone.                                                      *)
Over == clicks = MaxClicks /\ pending = {} /\ UNCHANGED vars

Next ==
    \/ \E c \in Calls : Click(c)
    \/ ClickLoads
    \/ \E i \in pending :
          \/ \E c \in Calls \cup {<<"init">>} : Loaded(i, c)
          \/ LoadFails(i)
    \/ Over

Spec == Init /\ [][Next]_vars

-----------------------------------------------------------------------------
(* The values each variable takes.  Nothing is in a directory that is not  *)
(* there; and /demo, which every operation counts on, is no file, whatever *)
(* is renamed or written.                                                  *)
TypeOK ==
    /\ \A i \in Instances :
          LET t == fs[i].tree
          IN  /\ \A p \in DOMAIN t : t[p] \in {Dir, Default, Text} /\ IsDir(t, Front(p))
              /\ ~IsFile(t, Demo)
              /\ Files(t) \subseteq had[i]
    /\ module \in Instances \cup {None} /\ module \notin pending
    /\ clicks \in 0..MaxClicks /\ pending \subseteq 0..clicks
    /\ \A i \in pending : fs[i] = Fresh

(* The instances a call may be made on next.                               *)
Callable == {i \in Instances : i = module \/ i \in pending}

(* The files that a call itself is to make.                                *)
Asked(c, made) ==
    CASE c[1] = "write" -> {Looked(c[2])}
      [] c[1] = "rename" -> {q \in made : IsPrefix(Entry(c[3]), q)}
      [] c[1] = "demo" -> Defaults \cup {NewFile} \cup {q \in made : IsPrefix(Renamed, q)}
      [] OTHER -> {}

(* A file that has been deleted or renamed is not made again by a later    *)
(* operation on another one: the default files come once, before there is  *)
(* anything to delete.  (ensure_demo_directory_only: "do not create again  *)
(* files that were deleted".)                                              *)
NoResurrection ==
    \A i \in Callable, c \in Calls :
        LET made == Files(Result(fs[i], c).fs.tree) \ Files(fs[i].tree)
        IN  made \cap had[i] \subseteq Asked(c, made)

(* An operation that fails leaves nothing behind, but /demo and, the first *)
(* time, the default files: no directory for a file that was not written.  *)
(* Except for a write to a path that ends in "/" or "/.": the directory    *)
(* before that ending has been made when the path cannot be opened.        *)
FailureLeavesNothing ==
    \A i \in Callable, c \in Calls :
        LET r == Result(fs[i], c)
        IN  ~r.ok => \/ r.fs.tree \in {EnsureOnly(fs[i]).tree, Ensure(fs[i]).tree}
                     \/ /\ c[1] = "write" /\ Last(c[2]) \in Endings
                        /\ r.fs.tree = Mkdir(Ensure(fs[i]).tree, Front(c[2]))

(* What the comment on filesystemModule promises (the module is cached):   *)
(* once it is there, it stays, and so do the files.                        *)
ModuleKept == [][module # None => module' = module]_vars
=============================================================================
