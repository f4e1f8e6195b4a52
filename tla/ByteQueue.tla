----------------------------- MODULE ByteQueue -----------------------------
(***************************************************************************)
(* What the receive buffer of a connection promises: the bytes come out in *)
(* the order they went in, none lost, none doubled, at most Length at a    *)
(* time.                                                                   *)
(***************************************************************************)
EXTENDS Naturals, Sequences

CONSTANTS Length, Byte

VARIABLES
  queue,
  taken   \* what the last Take took

vars == <<queue, taken>>

Init == queue = <<>> /\ taken = <<>>

Put == \E n \in 1..(Length - Len(queue)) : \E data \in [1..n -> Byte] :
         queue' = queue \o data /\ taken' = taken

Take == \E k \in 0..Len(queue) : /\ taken' = SubSeq(queue, 1, k)
                                 /\ queue' = SubSeq(queue, k + 1, Len(queue))

Next == Put \/ Take

Spec == Init /\ [][Next]_vars

=============================================================================
