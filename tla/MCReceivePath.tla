---------------------------- MODULE MCReceivePath ----------------------------
(***************************************************************************)
(* ReceivePath for TLC: bytes of two bits, bodies of at most one byte    *)
(* decoded, and among the junk a false header whose device id goes on      *)
(* behind it.                                                              *)
(***************************************************************************)
EXTENDS ReceivePath, Bitwise, TLC

MCByte   == 0..3
MCTable  == [v \in MCByte |-> (2 * v + (v \div 2)) % 4]
MCXor(a, b) == a ^^ b
MCBodies == {<<>>, <<1>>, <<2>>, <<1, 2>>}
MCJunk   == {<<1>>, <<2, 1>>, <<1, 0>>, <<1, 2, 0, 0, 3>>}

PathSymmetry == Permutations(Writers)

=============================================================================
