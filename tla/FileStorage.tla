---------------------------- MODULE FileStorage ----------------------------
(***************************************************************************)
(* The bytes of a file of MEMFS: an array, contents, of which the first    *)
(* usedBytes count.  The array grows by more than is asked for.  A file    *)
(* without bytes has no array, which is <<>> here.                         *)
(***************************************************************************)
EXTENDS Naturals, Sequences

CONSTANTS
    MinCapacity,  \* 256: what an array that grows has at least
    DoublingMax   \* 1 MB: from here on it grows by an eighth

ASSUME Capacities == MinCapacity \in Nat /\ DoublingMax \in Nat

Larger(a, b) == IF a < b THEN b ELSE a
Smaller(a, b) == IF a < b THEN a ELSE b

NoBytes == [contents |-> <<>>, usedBytes |-> 0]

(* The bytes that count.                                                   *)
Stored(f) == [i \in 1..f.usedBytes |-> f.contents[i]]

CapacityFrom(prev) == IF prev < DoublingMax THEN 2 * prev ELSE (9 * prev) \div 8
Capacity(prev, needed) ==
    Larger(Larger(needed, CapacityFrom(prev)), IF prev # 0 THEN MinCapacity ELSE 0)

(* Mutated: an array that is one short is not replaced.                    *)
ExpandFileStorageLate(f, needed) ==
    LET prev == Len(f.contents)
    IN  IF prev + 1 >= needed THEN f
        ELSE [f EXCEPT !.contents = [i \in 1..Capacity(prev, needed) |->
                                        IF i <= f.usedBytes THEN f.contents[i] ELSE 0]]
ExpandFileStorage(f, needed) ==
    LET prev == Len(f.contents)
    IN  IF prev >= needed THEN f
        ELSE [f EXCEPT !.contents = [i \in 1..Capacity(prev, needed) |->
                                        IF i <= f.usedBytes THEN f.contents[i] ELSE 0]]

(* What buf leaves of the array when it is copied to pos.                  *)
Set(contents, pos, buf) ==
    [i \in DOMAIN contents |->
        IF i > pos /\ i <= pos + Len(buf) THEN buf[i - pos] ELSE contents[i]]

Written(f, pos, buf) ==
    LET end == pos + Len(buf)
        g == ExpandFileStorage(f, end)
    IN  IF buf = <<>> THEN f
        ELSE IF f.usedBytes = 0 /\ pos = 0 THEN [contents |-> buf, usedBytes |-> Len(buf)]
        ELSE IF end <= f.usedBytes THEN [f EXCEPT !.contents = Set(@, pos, buf)]
        ELSE [contents |-> Set(g.contents, pos, buf), usedBytes |-> Larger(f.usedBytes, end)]

(* The bytes a read at pos of at most n returns.                           *)
Found(f, pos, n) ==
    IF pos >= f.usedBytes THEN <<>>
    ELSE [i \in 1..Smaller(f.usedBytes - pos, n) |-> f.contents[pos + i]]

(* Between the bytes that count and the end of the array there are zeros,  *)
(* which a write past the end turns into bytes of the file.                *)
Sound(f) ==
    /\ f.usedBytes <= Len(f.contents)
    /\ \A i \in DOMAIN f.contents : i > f.usedBytes => f.contents[i] = 0
    /\ f.usedBytes = 0 => f.contents = <<>>
=============================================================================
