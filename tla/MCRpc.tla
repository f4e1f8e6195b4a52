-------------------------------- MODULE MCRpc --------------------------------
(***************************************************************************)
(* Rpc for TLC: two loops of one name, and a name nobody has registered;   *)
(* one of the calls expects another type than the second loop returns.     *)
(***************************************************************************)
EXTENDS Rpc

CONSTANTS add, sub, c1, c2, h1, h2

MCServes == [h \in Handlers |-> add]
MCHash   == [n \in Names |-> IF n = add THEN 1 ELSE 2]
MCSeq    == [c \in Calls |-> IF c = c1 THEN 1 ELSE 2]
MCParses == [c \in Calls |-> IF c = c1 THEN {h1, h2, Null} ELSE {h1}]

=============================================================================
