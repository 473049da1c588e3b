----------------------------- MODULE MCMemoryFS -----------------------------
EXTENDS MemoryFS

CONSTANTS a, b, MaxBytes

TwoNames == {a, b}
(* With a table of two chains, nodes of different parents share a chain.   *)
Hashes == [n \in TwoNames |-> IF n = a THEN 0 ELSE 1]
SomePaths == {<<a>>, <<b>>, <<a, b>>, <<a, b, a>>}
Pieces == {<<<<1>>, <<2>>>>, <<<<>>, <<1>>>>}
Sizes == {<<1, 2>>}
Moves == {<<1, "end">>, <<-1, "here">>, <<0, "start">>}

(* MaxBytes with one node besides the root and one stream, fewer with two  *)
(* streams; one byte with two nodes; none, on one stream, with three.      *)
Within(n) ==
    /\ \A m \in Nodes : file'[m].usedBytes <= n
    /\ \A fd \in Fds : streams'[fd] # NoStream => streams'[fd].position <= n
OneStream == \A x, y \in Fds : streams'[x] # NoStream /\ streams'[y] # NoStream => x = y
Small ==
    LET most == CASE nextInode' <= 3 -> IF OneStream THEN MaxBytes ELSE MaxBytes - 2
                  [] nextInode' = 4 -> 1
                  [] OTHER -> 0
    IN  Within(most) /\ (nextInode' > 4 => OneStream)
SmallSpec == Init /\ [][Next /\ Small]_vars

(* What a call returns does not bear on the next one.                      *)
WithoutResult == <<nodes, file, streams>>
=============================================================================
