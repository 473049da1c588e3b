------------------------------ MODULE FileTree ------------------------------
(***************************************************************************)
(* What a file system promises of its tree: what can be made, moved and    *)
(* removed, and what is there afterwards.  A path is the sequence of its   *)
(* names; the root is there without being listed.                          *)
(***************************************************************************)
EXTENDS Naturals, Sequences, SequencesExt

CONSTANT Dir  \* what is at the path of a directory

(* A tree maps the paths that exist to what is there.                      *)

IsDir(t, p) == p = <<>> \/ (p \in DOMAIN t /\ t[p] = Dir)
IsFile(t, p) == p \in DOMAIN t /\ t[p] # Dir
Exists(t, p) == p = <<>> \/ p \in DOMAIN t
Below(t, p) == {q \in DOMAIN t : IsStrictPrefix(p, q)}
Without(t, ps) == [q \in DOMAIN t \ ps |-> t[q]]
With(t, p, c) == [q \in DOMAIN t \cup {p} |-> IF q = p THEN c ELSE t[q]]

CanMkdir(t, p) == ~Exists(t, p) /\ IsDir(t, Front(p))
Mkdir(t, p) == IF CanMkdir(t, p) THEN With(t, p, Dir) ELSE t

(* Open for writing, write, close.                                         *)
CanPut(t, p) == ~IsDir(t, p) /\ IsDir(t, Front(p))
Put(t, p, c) == IF CanPut(t, p) THEN With(t, p, c) ELSE t

CanRmdir(t, p) == p # <<>> /\ IsDir(t, p) /\ Below(t, p) = {}

(* There is something at p, and room for it at q: a directory replaces an  *)
(* empty directory at most, a file a file.                                 *)
Fits(t, p, q) ==
    /\ p # <<>> /\ Exists(t, p) /\ q # <<>> /\ IsDir(t, Front(q))
    /\ (q # p /\ Exists(t, q)) => IF IsDir(t, p) THEN CanRmdir(t, q) ELSE IsFile(t, q)

(* Nothing is moved into itself.                                           *)
CanMove(t, p, q) == Fits(t, p, q) /\ ~IsStrictPrefix(p, q)
Move(t, p, q) ==
    LET moved == {p} \cup Below(t, p)
        to(r) == q \o SubSeq(r, Len(p) + 1, Len(r))
        rest == Without(t, moved \cup {q})
    IN  [r \in DOMAIN rest \cup {to(m) : m \in moved} |->
            IF IsPrefix(q, r) THEN t[p \o SubSeq(r, Len(q) + 1, Len(r))] ELSE rest[r]]
=============================================================================
