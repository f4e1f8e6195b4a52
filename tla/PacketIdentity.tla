--------------------------- MODULE PacketIdentity ---------------------------
(***************************************************************************)
(* asyncmsg/tcp::packet: the process-wide seq_generator that threads draw  *)
(* sequence numbers from (packet.hpp:72-78), and packet_id                 *)
(* (packet.hpp:88-92), which names a request by cmd << 31 | seq.           *)
(*                                                                         *)
(* Half is 2^31: sequence numbers are below 2 * Half, and shifting by 31   *)
(* bits is multiplying by Half.                                            *)
(***************************************************************************)
EXTENDS Naturals, Sequences

CONSTANTS
  Threads, \* threads that build packets
  Cmds,    \* commands
  Half,    \* 2^31
  MaxLaps  \* bound: times the numbers start again

ASSUME IdentityAssumption ==
  /\ Half \in Nat \ {0}
  /\ Cmds \subseteq Nat
  /\ MaxLaps \in Nat

UINT_MAX == 2 * Half - 1

VARIABLES
  seq_generator, \* the atomic counter
  pc,            \* each thread in next_seq: "idle", "reset" before the store of
                 \* 0, "increment" before the ++
  lap,           \* history: how often the numbers have started again
  met,           \* history: threads in next_seq while another one stepped there
  drawn          \* history: the last Half - 1 packets drawn, latest first

vars == <<seq_generator, pc, lap, met, drawn>>

\* Bit 31 of seq falls on bit 0 of cmd, and | does not carry.
Overlap(cmd, seq) == IF seq >= Half /\ cmd % 2 = 1 THEN Half ELSE 0

\* A shift too short for the sequence numbers.
packet_id_narrow(cmd, seq) == cmd + seq

packet_id(cmd, seq) == cmd * Half + seq - Overlap(cmd, seq)

Packet == [cmd : Cmds, seq : 0..UINT_MAX, raced : BOOLEAN]

TypeOK ==
  /\ seq_generator \in 0..UINT_MAX
  /\ pc \in [Threads -> {"idle", "reset", "increment"}]
  /\ lap \in Nat
  /\ met \subseteq Threads
  /\ drawn \in Seq(Packet) /\ Len(drawn) < Half

Init ==
  /\ seq_generator = 0
  /\ pc = [t \in Threads |-> "idle"]
  /\ lap = 0
  /\ met = {}
  /\ drawn = <<>>

\* A step of t in next_seq is seen by every other thread inside.
Inside(t) == {u \in Threads \ {t} : pc[u] # "idle"}

\* No look at the end of the range.
NeverAtEnd == FALSE

AtEnd == seq_generator = UINT_MAX

\* The constructor of a packet without a number calls next_seq, which loads the
\* counter.
Test(t) ==
  /\ pc[t] = "idle" /\ lap < MaxLaps
  /\ pc' = [pc EXCEPT ![t] = IF AtEnd THEN "reset" ELSE "increment"]
  /\ met' = met \ {t}
  /\ UNCHANGED <<seq_generator, lap, drawn>>

Reset(t) ==
  /\ pc[t] = "reset"
  /\ pc' = [pc EXCEPT ![t] = "increment"]
  /\ seq_generator' = 0
  /\ lap' = lap + 1
  /\ met' = met \cup Inside(t)
  /\ UNCHANGED drawn

\* A counter of more than 32 bits.
NextUnwrapped == seq_generator + 1

\* ++ wraps at the width.
NextNumber == IF seq_generator = UINT_MAX THEN 0 ELSE seq_generator + 1

Latest(packets) == SubSeq(packets, 1, IF Len(packets) < Half THEN Len(packets) ELSE Half - 1)

\* ++, in one step; the packet may be for any command.
Increment(t, cmd) ==
  /\ pc[t] = "increment"
  /\ pc' = [pc EXCEPT ![t] = "idle"]
  /\ seq_generator' = NextNumber
  /\ lap' = IF seq_generator = UINT_MAX THEN lap + 1 ELSE lap
  /\ met' = met \cup Inside(t)
  /\ LET packet == [cmd   |-> cmd, seq |-> NextNumber,
                    raced |-> t \in met \/ Inside(t) # {}]
     IN  drawn' = Latest(<<packet>> \o drawn)

Next == \E t \in Threads : Test(t) \/ Reset(t) \/ \E cmd \in Cmds : Increment(t, cmd)

Spec == Init /\ [][Next]_vars

-----------------------------------------------------------------------------
(* Properties.                                                             *)

\* A number of 0, which build_rsp_packet would replace in the response
\* (packet.hpp:41), is drawn only by threads that meet in next_seq.
ZeroNeedsRace == \A i \in DOMAIN drawn : drawn[i].seq = 0 => drawn[i].raced

\* Of the last 2^31 - 1 packets no two have the same id, across commands, across
\* the end of the range and though the bits of cmd and seq overlap, unless
\* threads met in next_seq (packet.hpp:73-77) meanwhile.
RecentIdsDiffer ==
  (\A i \in DOMAIN drawn : ~drawn[i].raced) =>
    \A i, j \in DOMAIN drawn :
      packet_id(drawn[i].cmd, drawn[i].seq) = packet_id(drawn[j].cmd, drawn[j].seq)
        => i = j

=============================================================================
