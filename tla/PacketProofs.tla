---------------------------- MODULE PacketProofs ----------------------------
(***************************************************************************)
(* Proofs about packets.  PacketIdentity, for every set of threads and     *)
(* commands and every width.  IoBuffer, for every buffer length, packet    *)
(* size and set of bytes.  Framing and ReceivePath, for every width of a   *)
(* byte, flag, table, largest body, number of writers and set of bodies    *)
(* and junk: what decode_packet makes of any bytes, and that the decoder   *)
(* behind the buffer makes the same of them in parts.                      *)
(***************************************************************************)
EXTENDS PacketIdentity, ReceivePath, SequenceTheorems, WellFoundedInduction, TLAPS

-----------------------------------------------------------------------------
(* PacketIdentity: the inductive invariant.                                *)

\* The number d draws after s, when the numbers go round once at most.
Advance(s, d) == IF s + d <= UINT_MAX THEN s + d ELSE s + d - UINT_MAX

\* Who is about to increment has seen the counter below its end, unless it was
\* met.
IncrementIsBelow ==
  \A t \in Threads : pc[t] = "increment" /\ t \notin met => seq_generator < UINT_MAX

\* With nobody in next_seq the counter is the number drawn last; alone in there,
\* and not met, a thread will draw the number after it.
CounterFollows ==
  drawn # <<>> =>
    /\ (\A t \in Threads : pc[t] = "idle") => seq_generator = drawn[1].seq
    /\ \A t \in Threads :
         t \notin met /\ Inside(t) = {} =>
           /\ pc[t] = "reset" => seq_generator = UINT_MAX /\ drawn[1].seq = UINT_MAX
           /\ pc[t] = "increment" => NextNumber = Advance(drawn[1].seq, 1)

\* Packets drawn without a race are numbered in turn.
InTurn ==
  \A i, j \in DOMAIN drawn :
    i <= j /\ (\A k \in DOMAIN drawn : k < j => ~drawn[k].raced) =>
      drawn[i].seq = Advance(drawn[j].seq, j - i)

IInv == /\ TypeOK /\ ZeroNeedsRace
        /\ IncrementIsBelow /\ CounterFollows /\ InTurn

-----------------------------------------------------------------------------
(* PacketIdentity: numbers and windows.                                    *)

\* The largest number is odd and at least 1.
LEMMA UintMax == UINT_MAX \in Nat /\ UINT_MAX = 2 * Half - 1 /\ UINT_MAX >= 1
  BY IdentityAssumption DEF UINT_MAX

\* Latest keeps the new packet in front of the most recent of the others.
LEMMA WindowFacts ==
  ASSUME NEW S, NEW p \in S, NEW s \in Seq(S)
  PROVE  LET q == Latest(<<p>> \o s)
         IN  /\ q \in Seq(S) /\ Len(q) < Half /\ Len(q) <= Len(s) + 1
             /\ \A i \in 1..Len(q) : q[i] = IF i = 1 THEN p ELSE s[i - 1]
<1> DEFINE all == <<p>> \o s
           n   == IF Len(all) < Half THEN Len(all) ELSE Half - 1
<1>1. all \in Seq(S) /\ Len(all) = Len(s) + 1
  OBVIOUS
<1>2. \A i \in 1..Len(all) : all[i] = IF i = 1 THEN p ELSE s[i - 1]
  OBVIOUS
<1>3. n \in 0..Len(all) /\ n < Half
  BY <1>1, IdentityAssumption
<1> HIDE DEF all, n
<1>4. SubSeq(all, 1, n) \in Seq(S) /\ Len(SubSeq(all, 1, n)) = n
  BY <1>1, <1>3
<1>5. \A i \in 1..n : SubSeq(all, 1, n)[i] = all[i]
  BY <1>1, <1>3
<1>6. Latest(<<p>> \o s) = SubSeq(all, 1, n)
  BY DEF Latest, all, n
<1>7. \A i \in 1..n : SubSeq(all, 1, n)[i] = IF i = 1 THEN p ELSE s[i - 1]
  <2> TAKE i \in 1..n
  <2>1. i \in 1..Len(all) /\ SubSeq(all, 1, n)[i] = all[i]
    BY <1>1, <1>3, <1>5
  <2> QED
    BY <1>2, <2>1
<1>8. n <= Len(s) + 1
  BY <1>1, <1>3
<1> QED
  BY <1>3, <1>4, <1>6, <1>7, <1>8

\* A number is determined by what is left of it below the command's bits.
LEMMA LowBits ==
  ASSUME NEW m \in Int, NEW n \in Int, NEW u \in 0..Half - 1, NEW v \in 0..Half - 1,
         m * Half + u = n * Half + v
  PROVE  u = v
<1> USE IdentityAssumption
<1>1. CASE m > n
  <2>1. m * Half >= n * Half + Half
    <3>1. (m - n - 1) * Half >= 0
      BY <1>1
    <3>2. (m - n - 1) * Half = m * Half - n * Half - Half
      OBVIOUS
    <3> QED
      BY <3>1, <3>2
  <2> QED
    BY <2>1
<1>2. CASE n > m
  <2>1. n * Half >= m * Half + Half
    <3>1. (n - m - 1) * Half >= 0
      BY <1>2
    <3>2. (n - m - 1) * Half = n * Half - m * Half - Half
      OBVIOUS
    <3> QED
      BY <3>1, <3>2
  <2> QED
    BY <2>1
<1>3. CASE m = n
  BY <1>3
<1> QED
  BY <1>1, <1>2, <1>3

\* Packets with one id have numbers that are equal or 2^31 apart.
LEMMA SameId ==
  ASSUME NEW a \in Nat, NEW b \in Nat, NEW x \in 0..UINT_MAX, NEW y \in 0..UINT_MAX,
         packet_id(a, x) = packet_id(b, y)
  PROVE  x = y \/ x = y + Half \/ y = x + Half
<1> DEFINE low(z)     == IF z >= Half THEN z - Half ELSE z
           high(c, z) == IF z >= Half /\ c % 2 # 1 THEN c + 1 ELSE c
<1>1. \A c \in Nat, z \in 0..UINT_MAX :
        /\ low(z) \in 0..Half - 1 /\ high(c, z) \in Int
        /\ packet_id(c, z) = high(c, z) * Half + low(z)
  <2> TAKE c \in Nat, z \in 0..UINT_MAX
  <2>1. low(z) \in 0..Half - 1 /\ high(c, z) \in Int
    BY UintMax, IdentityAssumption
  <2>2. (c + 1) * Half = c * Half + Half /\ c * Half \in Int
    BY IdentityAssumption
  <2>3. packet_id(c, z) = high(c, z) * Half + low(z)
    <3>1. CASE z < Half
      BY <3>1, <2>2, IdentityAssumption, UintMax DEF packet_id, Overlap
    <3>2. CASE z >= Half /\ c % 2 = 1
      BY <3>2, <2>2, IdentityAssumption, UintMax DEF packet_id, Overlap
    <3>3. CASE z >= Half /\ c % 2 # 1
      BY <3>3, <2>2, IdentityAssumption, UintMax DEF packet_id, Overlap
    <3> QED
      BY <3>1, <3>2, <3>3, UintMax, IdentityAssumption
  <2> QED
    BY <2>1, <2>3
<1>2. low(x) = low(y)
  <2> HIDE DEF low, high
  <2> QED
    BY <1>1, LowBits
<1> QED
  BY <1>2, IdentityAssumption, UintMax

-----------------------------------------------------------------------------
(* PacketIdentity: the invariant is inductive.                             *)

\* Nobody is in next_seq and nothing is drawn.
LEMMA InitHolds == Init => IInv
  BY UintMax, IdentityAssumption
     DEF Init, IInv, TypeOK, ZeroNeedsRace, IncrementIsBelow, CounterFollows, InTurn

\* The counter and the packets stay as they are: a step into next_seq.
LEMMA TestKeeps ==
  ASSUME IInv, NEW t \in Threads, Test(t)
  PROVE  IInv'
<1> USE UintMax, IdentityAssumption DEF IInv
<1>1. TypeOK'
  BY DEF TypeOK, Test, AtEnd
<1>2. ZeroNeedsRace' /\ InTurn'
  BY DEF ZeroNeedsRace, InTurn, Advance, Test
<1>3. IncrementIsBelow'
  BY DEF IncrementIsBelow, Test, AtEnd, TypeOK
<1>4. CounterFollows'
  <2> SUFFICES ASSUME drawn # <<>>
               PROVE  /\ (\A u \in Threads : pc'[u] = "idle") => seq_generator = drawn[1].seq
                      /\ \A u \in Threads :
                           u \notin met' /\ Inside(u)' = {} =>
                             /\ pc'[u] = "reset" =>
                                  seq_generator = UINT_MAX /\ drawn[1].seq = UINT_MAX
                             /\ pc'[u] = "increment" =>
                                  NextNumber = Advance(drawn[1].seq, 1)
    BY DEF CounterFollows, Test, NextNumber, Advance
  <2>1. pc'[t] # "idle"
    BY DEF Test, TypeOK
  <2>2. ASSUME NEW u \in Threads, u # t
        PROVE  Inside(u)' # {} /\ t \in Inside(u)'
    BY <2>1, <2>2 DEF Inside
  <2>3. ASSUME Inside(t)' = {}
        PROVE  /\ pc'[t] = "reset" => seq_generator = UINT_MAX /\ drawn[1].seq = UINT_MAX
               /\ pc'[t] = "increment" => NextNumber = Advance(drawn[1].seq, 1)
    <3>1. \A u \in Threads : pc[u] = "idle"
      BY <2>3 DEF Inside, Test, TypeOK
    <3>2. seq_generator = drawn[1].seq
      BY <3>1 DEF CounterFollows
    <3> QED
      BY <3>2, SMTT(30) DEF Test, AtEnd, TypeOK, NextNumber, Advance
  <2> QED
    BY <2>1, <2>2, <2>3
<1> QED
  BY <1>1, <1>2, <1>3, <1>4

\* A thread that stores 0 meets all others inside.
LEMMA ResetKeeps ==
  ASSUME IInv, NEW t \in Threads, Reset(t)
  PROVE  IInv'
<1> USE UintMax, IdentityAssumption DEF IInv
<1>1. TypeOK'
  BY DEF TypeOK, Reset, Inside
<1>2. ZeroNeedsRace' /\ InTurn'
  BY DEF ZeroNeedsRace, InTurn, Advance, Reset
<1>3. \A u \in Threads \ {t} : u \in met' \/ pc'[u] = "idle"
  BY DEF Reset, Inside, TypeOK
<1>4. IncrementIsBelow'
  BY DEF IncrementIsBelow, Reset
<1>5. CounterFollows'
  <2> SUFFICES ASSUME drawn # <<>>, t \notin met, Inside(t) = {}
               PROVE  NextNumber' = Advance(drawn[1].seq, 1)
    BY <1>3 DEF CounterFollows, Reset, TypeOK, Inside, Advance
  <2>1. drawn[1].seq = UINT_MAX
    BY DEF CounterFollows, Reset
  <2>2. seq_generator' = 0
    BY DEF Reset
  <2> QED
    BY <2>1, <2>2 DEF NextNumber, Advance
<1> QED
  BY <1>1, <1>2, <1>4, <1>5

\* A draw puts one packet in front of the window; its number follows the last
\* one's unless somebody else was inside.
LEMMA IncrementKeeps ==
  ASSUME IInv, NEW t \in Threads, NEW cmd \in Cmds, Increment(t, cmd)
  PROVE  IInv'
<1> USE UintMax, IdentityAssumption DEF IInv
<1> DEFINE raced  == t \in met \/ Inside(t) # {}
           packet == [cmd |-> cmd, seq |-> NextNumber, raced |-> raced]
<1>1. NextNumber \in 0..UINT_MAX
  BY DEF NextNumber, TypeOK
<1>2. packet \in Packet /\ drawn \in Seq(Packet)
  BY <1>1 DEF Packet, TypeOK
<1>3. drawn' = Latest(<<packet>> \o drawn)
  BY DEF Increment
<1>4. /\ drawn' \in Seq(Packet) /\ Len(drawn') < Half /\ Len(drawn') <= Len(drawn) + 1
      /\ \A i \in 1..Len(drawn') : drawn'[i] = IF i = 1 THEN packet ELSE drawn[i - 1]
  <2> HIDE DEF packet
  <2> QED
    BY <1>2, <1>3, WindowFacts
<1>5. DOMAIN drawn = 1..Len(drawn) /\ DOMAIN drawn' = 1..Len(drawn')
  BY <1>2, <1>4
<1>6. \A u \in Threads \ {t} : u \in met' \/ pc'[u] = "idle"
  BY DEF Increment, Inside, TypeOK
<1>7. pc'[t] = "idle" /\ seq_generator' = NextNumber
  BY DEF Increment, TypeOK
<1>8. TypeOK'
  BY <1>1, <1>4, <1>7 DEF TypeOK, Increment, Inside
<1>9. packet.seq = NextNumber /\ packet.raced = raced
  OBVIOUS
<1> HIDE DEF packet
<1>10. ZeroNeedsRace'
  <2>1. NextNumber = 0 => raced
    BY DEF NextNumber, IncrementIsBelow, Increment, TypeOK
  <2>2. ASSUME NEW i \in DOMAIN drawn', drawn'[i].seq = 0
        PROVE  drawn'[i].raced
    <3>1. CASE i = 1
      BY <3>1, <2>1, <2>2, <1>4, <1>5, <1>9
    <3>2. CASE i # 1
      <4>1. i - 1 \in DOMAIN drawn /\ drawn'[i] = drawn[i - 1]
        BY <3>2, <1>4, <1>5, <1>2
      <4> QED
        BY <4>1, <2>2 DEF ZeroNeedsRace
    <3> QED
      BY <3>1, <3>2
  <2> QED
    BY <2>2 DEF ZeroNeedsRace
<1>11. IncrementIsBelow'
  BY <1>6, <1>7 DEF IncrementIsBelow
<1>12. CounterFollows'
  <2>1. drawn' # <<>> => drawn'[1] = packet
    BY <1>4
  <2> QED
    BY <2>1, <1>6, <1>7, <1>9 DEF CounterFollows
<1>13. InTurn'
  <2> SUFFICES ASSUME NEW i \in DOMAIN drawn', NEW j \in DOMAIN drawn', i <= j,
                      \A k \in DOMAIN drawn' : k < j => ~drawn'[k].raced
               PROVE  drawn'[i].seq = Advance(drawn'[j].seq, j - i)
    BY DEF InTurn, Advance
  <2>1. drawn'[j].seq \in 0..UINT_MAX
    <3>1. drawn'[j] \in Packet
      BY <1>4, <1>5
    <3> QED
      BY <3>1 DEF Packet
  <2>2. CASE i = j
    <3>1. j - i = 0
      BY <2>2, <1>4, <1>5
    <3> QED
      BY <2>1, <2>2, <3>1 DEF Advance
  <2>3. CASE i < j
    <3>1. /\ j - 1 \in DOMAIN drawn /\ drawn'[j] = drawn[j - 1]
          /\ \A k \in DOMAIN drawn : k < j - 1 => ~drawn[k].raced
      <4>1. j - 1 \in DOMAIN drawn /\ drawn'[j] = drawn[j - 1]
        BY <2>3, <1>4, <1>5, <1>2
      <4>2. ASSUME NEW k \in DOMAIN drawn, k < j - 1
            PROVE  ~drawn[k].raced
        <5>1. k + 1 \in DOMAIN drawn' /\ k + 1 < j /\ drawn'[k + 1] = drawn[k]
          BY <4>2, <1>4, <1>5, <1>2
        <5> QED
          BY <5>1
      <4> QED
        BY <4>1, <4>2
    <3>2. CASE i > 1
      <4>1. i - 1 \in DOMAIN drawn /\ drawn'[i] = drawn[i - 1]
        BY <3>2, <2>3, <1>4, <1>5, <1>2
      <4>2. i - 1 <= j - 1 /\ (j - 1) - (i - 1) = j - i
        BY <2>3, <1>5
      <4> QED
        BY <4>1, <4>2, <3>1 DEF InTurn
    <3>3. CASE i = 1
      <4>1. drawn # <<>> /\ 1 \in DOMAIN drawn /\ 1 <= j - 1
        BY <3>1, <2>3, <3>3, <1>5, <1>2
      <4>2. drawn[1].seq = Advance(drawn[j - 1].seq, (j - 1) - 1)
        BY <3>1, <4>1 DEF InTurn
      <4>3. ~raced /\ drawn'[1].seq = NextNumber
        BY <2>3, <3>3, <1>4, <1>5, <1>9
      <4>4. NextNumber = Advance(drawn[1].seq, 1)
        BY <4>1, <4>3 DEF CounterFollows, Increment
      <4>5. j - 1 <= Half - 1 /\ j - 1 >= 1 /\ j \in Nat
        BY <1>4, <1>5, <2>3, <3>3
      <4> QED
        BY <4>2, <4>3, <4>4, <4>5, <3>1, <3>3, <2>1 DEF Advance
    <3> QED
      BY <3>2, <3>3, <1>5
  <2> QED
    BY <2>2, <2>3, <1>5
<1> QED
  BY <1>8, <1>10, <1>11, <1>12, <1>13

\* Each of the three atomic operations keeps the invariant.
LEMMA StepKeeps == IInv /\ [Next]_vars => IInv'
<1> SUFFICES ASSUME IInv, [Next]_vars
             PROVE  IInv'
  OBVIOUS
<1>1. ASSUME NEW t \in Threads, Test(t)
      PROVE  IInv'
  BY <1>1, TestKeeps
<1>2. ASSUME NEW t \in Threads, Reset(t)
      PROVE  IInv'
  BY <1>2, ResetKeeps
<1>3. ASSUME NEW t \in Threads, NEW cmd \in Cmds, Increment(t, cmd)
      PROVE  IInv'
  BY <1>3, IncrementKeeps
<1>4. CASE UNCHANGED vars
  BY <1>4 DEF vars, IInv, TypeOK, ZeroNeedsRace, IncrementIsBelow, CounterFollows,
              InTurn, Inside, NextNumber, Advance
<1> QED
  BY <1>1, <1>2, <1>3, <1>4 DEF Next

\* next_seq keeps the inductive invariant, for every set of threads.
THEOREM NumbersInvariance == Spec => []IInv
<1> QED
  BY InitHolds, StepKeeps, PTL DEF Spec

-----------------------------------------------------------------------------
(* PacketIdentity: the theorems.                                           *)

\* The counter stays within its width, and the window below 2^31.
THEOREM NumbersTypeCorrect == Spec => []TypeOK
<1>1. IInv => TypeOK
  BY DEF IInv
<1> QED
  BY <1>1, NumbersInvariance, PTL

\* Nobody draws 0 without a race, however many threads there are.
THEOREM ZeroSafe == Spec => []ZeroNeedsRace
<1>1. IInv => ZeroNeedsRace
  BY DEF IInv
<1> QED
  BY <1>1, NumbersInvariance, PTL

\* Numbers in turn over less than 2^31 packets make ids that differ.
LEMMA TurnsDiffer == IInv => RecentIdsDiffer
<1> USE UintMax, IdentityAssumption
<1> SUFFICES ASSUME IInv, \A i \in DOMAIN drawn : ~drawn[i].raced
             PROVE  \A i, j \in DOMAIN drawn :
                      packet_id(drawn[i].cmd, drawn[i].seq)
                        = packet_id(drawn[j].cmd, drawn[j].seq) => i = j
  BY DEF RecentIdsDiffer
<1>1. \A i \in DOMAIN drawn :
        /\ i \in 1..Half - 1
        /\ drawn[i].cmd \in Nat /\ drawn[i].seq \in 1..UINT_MAX
  <2> TAKE i \in DOMAIN drawn
  <2>1. drawn \in Seq(Packet) /\ Len(drawn) < Half
    BY DEF IInv, TypeOK
  <2>2. i \in 1..Len(drawn) /\ drawn[i] \in Packet
    BY <2>1
  <2>3. drawn[i].seq # 0
    BY DEF IInv, ZeroNeedsRace
  <2>4. drawn[i].cmd \in Nat /\ drawn[i].seq \in 0..UINT_MAX
    BY <2>2 DEF Packet
  <2> QED
    BY <2>1, <2>2, <2>3, <2>4
<1>2. ASSUME NEW i \in DOMAIN drawn, NEW j \in DOMAIN drawn, i < j
      PROVE  packet_id(drawn[i].cmd, drawn[i].seq) # packet_id(drawn[j].cmd, drawn[j].seq)
  <2>1. drawn[i].seq = Advance(drawn[j].seq, j - i)
    BY <1>1, <1>2 DEF IInv, InTurn
  <2>2. j - i \in 1..Half - 2
    BY <1>1, <1>2
  <2>3. /\ drawn[i].seq # drawn[j].seq
        /\ drawn[i].seq # drawn[j].seq + Half
        /\ drawn[j].seq # drawn[i].seq + Half
    BY <2>1, <2>2, <1>1 DEF Advance
  <2> QED
    BY <2>3, <1>1, SameId
<1>3. \A i, j \in DOMAIN drawn : i < j \/ j < i \/ i = j
  BY <1>1
<1> QED
  BY <1>2, <1>3

\* Of the last 2^31 - 1 packets, drawn without a race, no two have one id,
\* whatever their commands.
THEOREM IdsDiffer == Spec => []RecentIdsDiffer
  BY NumbersInvariance, TurnsDiffer, PTL

-----------------------------------------------------------------------------
(* IoBuffer.                                                               *)

\* The decoder hands the loop back with less than a packet left.
LeftIncomplete == loop = "top" => size < MaxPacket

BufferInv == BufferTypeOK /\ SlabIsFree /\ LeftIncomplete /\ NeverFull

\* The invariant holds of an empty buffer.
LEMMA BufferInitInv == BufferInit => BufferInv
  BY BufferAssumption
     DEF BufferInit, BufferInv, BufferTypeOK, SlabIsFree, LeftIncomplete, NeverFull, size

\* Every step of the receive loop keeps the invariant: what prepare grants ends
\* inside the buffer, and asks for a move only when that frees something.
LEMMA BufferNextInv == BufferInv /\ [BufferNext]_bufferVars => BufferInv'
<1> SUFFICES ASSUME BufferInv, [BufferNext]_bufferVars PROVE BufferInv'
  OBVIOUS
<1> USE BufferAssumption DEF BufferInv, BufferTypeOK, SlabIsFree, LeftIncomplete, NeverFull,
        size, capacity, free_size
<1>1. CASE Prepare
  <2>1. CASE SizeToRead > free_size
    BY <1>1, <2>1 DEF Prepare, prepare, Moved, Granted, SizeToRead
  <2>2. CASE ~(SizeToRead > free_size)
    BY <1>1, <2>2 DEF Prepare, prepare, Moved, Granted, SizeToRead
  <2> QED BY <2>1, <2>2
<1>3. CASE Read
  <2> DEFINE filled(n, data) == [i \in 0..(Length - 1) |->
                                   IF i \in slab.data..(slab.data + n - 1)
                                   THEN data[i - slab.data + 1] ELSE buffer_[i]]
  <2>1. PICK n \in 1..slab.size :
          tail_' = tail_ + n /\ \E data \in [1..n -> Byte] : buffer_' = filled(n, data)
    BY <1>3 DEF Read
  <2>2. ASSUME NEW data \in [1..n -> Byte] PROVE filled(n, data) \in [0..(Length - 1) -> Byte]
    <3>1. ASSUME NEW i \in 0..(Length - 1), i \in slab.data..(slab.data + n - 1)
          PROVE  data[i - slab.data + 1] \in Byte
      BY <3>1
    <3> QED BY <3>1
  <2>3. buffer_' \in [0..(Length - 1) -> Byte]
    BY <2>1, <2>2
  <2> HIDE DEF filled
  <2> QED BY <1>3, <2>1, <2>3 DEF Read
<1>4. CASE ReadFails
  BY <1>4 DEF ReadFails
<1>5. CASE Decode
  <2>1. PICK k \in 0..size : /\ taken' = [i \in 1..k |-> buffer_[head_ + i - 1]]
                             /\ consume(k)
                             /\ \/ k > 0 /\ loop' = "decoding"
                                \/ Incomplete(size - k) /\ loop' = "top"
    BY <1>5 DEF Decode
  <2>2. \A i \in 1..k : buffer_[head_ + i - 1] \in Byte
    BY <2>1
  <2>3. taken' \in Seq(Byte)
    <3> HIDE DEF size
    <3>1. k \in Nat
      BY <2>1 DEF size
    <3> QED BY <2>1, <2>2, <3>1
  <2> QED BY <1>5, <2>1, <2>3, SMTT(30) DEF Decode, consume, Incomplete
<1>6. CASE DecodeFails
  BY <1>6 DEF DecodeFails
<1>7. CASE UNCHANGED bufferVars
  BY <1>7 DEF bufferVars
<1> QED BY <1>1, <1>3, <1>4, <1>5, <1>6, <1>7 DEF BufferNext

\* The inductive invariant of the buffer.
THEOREM BufferInvariance == BufferSpec => []BufferInv
  BY BufferInitInv, BufferNextInv, PTL DEF BufferSpec

\* head_ and tail_ stay in order and inside the buffer, for any length.
THEOREM BufferTypeCorrect == BufferSpec => []BufferTypeOK
<1>1. BufferInv => BufferTypeOK
  BY DEF BufferInv
<1> QED BY <1>1, BufferInvariance, PTL

\* No read is ever started on a slab that is empty or reaches past the end of
\* the buffer (connection.hpp:162-164).
THEOREM SlabSafe == BufferSpec => []SlabIsFree
<1>1. BufferInv => SlabIsFree
  BY DEF BufferInv
<1> QED BY <1>1, BufferInvariance, PTL

\* A buffer that holds the largest packet always has room to read the rest of
\* the one it holds (connection.hpp:157).
THEOREM NeverFullSafe == BufferSpec => []NeverFull
<1>1. BufferInv => NeverFull
  BY DEF BufferInv
<1> QED BY <1>1, BufferInvariance, PTL

-----------------------------------------------------------------------------
(* The buffer implements the queue of bytes.                               *)

\* The bytes between head and tail, as a sequence.
ShowsWindow ==
  /\ Contents \in Seq(Byte)
  /\ Len(Contents) = size
  /\ \A i \in 1..size : Contents[i] = buffer_[head_ + i - 1]

\* What the queue holds in a state that satisfies the invariant.
LEMMA ContentsType == BufferTypeOK => ShowsWindow
<1> SUFFICES ASSUME BufferTypeOK PROVE ShowsWindow
  OBVIOUS
<1>1. size \in Nat
  BY BufferAssumption DEF BufferTypeOK, size
<1>2. \A i \in 1..size : head_ + i - 1 \in 0..(Length - 1)
  BY BufferAssumption DEF BufferTypeOK, size
<1>3. Contents \in [1..size -> Byte]
  BY <1>2 DEF BufferTypeOK, Contents
<1> QED BY <1>1, <1>3 DEF Contents, ShowsWindow

\* Two states with the same bytes between head and tail show the same queue.
LEMMA SameContents ==
  ASSUME BufferTypeOK, BufferTypeOK', size' = size,
         \A i \in 1..size : buffer_'[head_' + i - 1] = buffer_[head_ + i - 1]
  PROVE  Contents' = Contents
  BY DEF Contents

\* The same in the next state.
LEMMA ContentsNext == BufferInv' => ShowsWindow'
<1>1. BufferTypeOK' => ShowsWindow'
  BY ContentsType, PTL
<1> QED BY <1>1 DEF BufferInv

\* A read appends what came to the queue: it overwrites nothing of it.
LEMMA ReadAppends ==
  ASSUME BufferInv, BufferInv', loop = "reading", head_' = head_,
         NEW n \in 1..slab.size, NEW data \in Seq(Byte), Len(data) >= n, tail_' = tail_ + n,
         buffer_' = [i \in 0..(Length - 1) |->
                       IF i \in slab.data..(slab.data + n - 1)
                       THEN data[i - slab.data + 1] ELSE buffer_[i]]
  PROVE  /\ Contents' = Contents \o SubSeq(data, 1, n)
         /\ n \in 1..(Length - Len(Contents))
<1> DEFINE came == SubSeq(data, 1, n)
<1>1. /\ slab.data = tail_ /\ tail_ + slab.size <= Length
      /\ n \in Nat /\ n >= 1 /\ n <= slab.size
      /\ Length \in Nat /\ head_ \in Nat /\ tail_ \in Nat /\ head_ <= tail_
      /\ slab.size \in Nat
  BY BufferAssumption DEF BufferInv, SlabIsFree, BufferTypeOK
<1>2. /\ Contents \in Seq(Byte) /\ Len(Contents) = size
      /\ \A i \in 1..size : Contents[i] = buffer_[head_ + i - 1]
  BY ContentsType DEF BufferInv, ShowsWindow
<1>3. /\ Contents' \in Seq(Byte) /\ Len(Contents') = size'
      /\ \A i \in 1..size' : Contents'[i] = buffer_'[head_' + i - 1]
  BY ContentsNext DEF ShowsWindow
<1>4. came \in Seq(Byte) /\ Len(came) = n /\ \A i \in 1..n : came[i] = data[i]
  <2>1. \A i \in 1..n : data[i] \in Byte /\ 1 + i - 1 = i
    BY <1>1
  <2>2. /\ came \in Seq(Byte) /\ Len(came) = IF 1 <= n THEN n - 1 + 1 ELSE 0
        /\ \A i \in 1..(n - 1 + 1) : came[i] = data[1 + i - 1]
    BY <1>1, <2>1, SubSeqProperties
  <2> HIDE DEF came
  <2> QED BY <1>1, <2>1, <2>2
<1> HIDE DEF came
<1>5. size \in Nat /\ size' = size + n /\ n \in 1..(Length - size)
  <2>1. tail_' = tail_ + n /\ head_' = head_
    OBVIOUS
  <2>2. tail_' - head_' = tail_ - head_ + n /\ tail_ - head_ \in Nat
    BY <1>1, <2>1
  <2>3. n <= Length - (tail_ - head_)
    BY <1>1
  <2> QED BY <1>1, <2>2, <2>3 DEF size
<1>6. /\ Contents \o came \in Seq(Byte) /\ Len(Contents \o came) = size + n
      /\ \A i \in 1..(size + n) :
           (Contents \o came)[i] = IF i <= size THEN Contents[i] ELSE came[i - size]
  <2>1. /\ Contents \o came \in Seq(Byte)
        /\ Len(Contents \o came) = Len(Contents) + Len(came)
        /\ \A i \in 1..Len(Contents) + Len(came) :
             (Contents \o came)[i] = IF i <= Len(Contents) THEN Contents[i]
                                     ELSE came[i - Len(Contents)]
    BY <1>2, <1>4, ConcatProperties
  <2> QED BY <1>2, <1>4, <2>1
<1>7. ASSUME NEW i \in 1..(size + n)
      PROVE  Contents'[i] = (Contents \o came)[i]
  <2>1. Contents'[i] = buffer_'[head_ + i - 1]
    BY <1>3, <1>5
  <2>2. head_ + i - 1 \in 0..(Length - 1)
    BY <1>1, <1>5 DEF size
  <2>3. CASE i <= size
    <3>1. buffer_'[head_ + i - 1] = buffer_[head_ + i - 1]
      BY <1>1, <2>2, <2>3 DEF size
    <3> QED BY <1>2, <1>5, <1>6, <2>1, <2>3, <3>1
  <2>4. CASE ~(i <= size)
    <3> DEFINE j == head_ + i - 1
    <3>1. Contents'[i] = buffer_'[j] /\ j \in 0..(Length - 1)
      BY <2>1, <2>2
    <3>2. j \in slab.data..(slab.data + n - 1) /\ i - size \in 1..n
      BY <1>1, <1>5, <2>4 DEF size
    <3>3. j - slab.data + 1 = i - size
      BY <1>1, <1>5, <2>4 DEF size
    <3> HIDE DEF j
    <3>4. buffer_'[j] = data[j - slab.data + 1]
      BY <3>1, <3>2
    <3>5. Contents'[i] = data[i - size]
      BY <3>1, <3>3, <3>4
    <3>6. (Contents \o came)[i] = came[i - size]
      BY <1>6, <2>4
    <3> QED BY <1>4, <3>2, <3>5, <3>6
  <2> QED BY <2>3, <2>4
<1>8. Contents' = Contents \o came
  BY <1>3, <1>5, <1>6, <1>7, SeqEqual
<1> QED BY <1>2, <1>5, <1>8 DEF came

\* A read of the loop is a Put.
LEMMA ReadPuts == BufferInv /\ BufferInv' /\ Read => Queue!Put
<1> SUFFICES ASSUME BufferInv, BufferInv', Read PROVE Queue!Put
  OBVIOUS
<1>1. PICK n \in 1..slab.size :
        \E data \in [1..n -> Byte] :
          /\ buffer_' = [i \in 0..(Length - 1) |->
                           IF i \in slab.data..(slab.data + n - 1)
                           THEN data[i - slab.data + 1] ELSE buffer_[i]]
          /\ tail_' = tail_ + n
  BY DEF Read
<1>2. PICK data \in [1..n -> Byte] :
        /\ buffer_' = [i \in 0..(Length - 1) |->
                         IF i \in slab.data..(slab.data + n - 1)
                         THEN data[i - slab.data + 1] ELSE buffer_[i]]
        /\ tail_' = tail_ + n
  BY <1>1
<1>3. n \in Nat /\ data \in Seq(Byte) /\ Len(data) = n
  <2>1. n \in Nat
    BY DEF BufferInv, BufferTypeOK
  <2> QED BY <2>1
<1>4. loop = "reading" /\ head_' = head_ /\ taken' = taken
  BY DEF Read
<1>5. Contents' = Contents \o SubSeq(data, 1, n) /\ n \in 1..(Length - Len(Contents))
  BY <1>2, <1>3, <1>4, ReadAppends
<1>6. SubSeq(data, 1, n) = data
  BY <1>3, SubSeqFull
<1> QED BY <1>4, <1>5, <1>6 DEF Queue!Put

\* A consume takes from the front of the queue, and from there only.
LEMMA ConsumeTakes ==
  ASSUME BufferInv, BufferInv', NEW k \in 0..size, consume(k), buffer_' = buffer_
  PROVE  /\ Contents' = SubSeq(Contents, k + 1, Len(Contents))
         /\ [i \in 1..k |-> buffer_[head_ + i - 1]] = SubSeq(Contents, 1, k)
<1> DEFINE front == [i \in 1..k |-> buffer_[head_ + i - 1]]
<1>1. /\ Length \in Nat /\ head_ \in Nat /\ tail_ \in Nat /\ head_ <= tail_
      /\ tail_ <= Length /\ size \in Nat /\ k \in Nat /\ k <= size
  BY BufferAssumption DEF BufferInv, BufferTypeOK, size
<1>2. /\ Contents \in Seq(Byte) /\ Len(Contents) = size
      /\ \A i \in 1..size : Contents[i] = buffer_[head_ + i - 1]
  BY ContentsType DEF BufferInv, ShowsWindow
<1>3. /\ Contents' \in Seq(Byte) /\ Len(Contents') = size'
      /\ \A i \in 1..size' : Contents'[i] = buffer_'[head_' + i - 1]
  BY ContentsNext DEF ShowsWindow
<1>4. \A i \in (k + 1)..size : Contents[i] \in Byte
  BY <1>1, <1>2
<1>5. /\ SubSeq(Contents, k + 1, size) \in Seq(Byte)
      /\ Len(SubSeq(Contents, k + 1, size)) = IF k + 1 <= size THEN size - (k + 1) + 1 ELSE 0
      /\ \A i \in 1..(size - (k + 1) + 1) :
           SubSeq(Contents, k + 1, size)[i] = Contents[(k + 1) + i - 1]
  BY <1>1, <1>4, SubSeqProperties
<1>6. size' = size - k
  BY <1>1 DEF consume, size
<1>7. ASSUME NEW i \in 1..(size - k)
      PROVE  Contents'[i] = SubSeq(Contents, k + 1, size)[i]
  <2>1. head_' = head_ + k
    BY <1>1 DEF consume, size
  <2>2. Contents'[i] = buffer_[head_ + k + i - 1]
    BY <1>1, <1>3, <1>6, <2>1
  <2>3. SubSeq(Contents, k + 1, size)[i] = Contents[k + i]
    BY <1>1, <1>5
  <2>4. Contents[k + i] = buffer_[head_ + (k + i) - 1]
    BY <1>1, <1>2
  <2> QED BY <1>1, <2>2, <2>3, <2>4
<1>8. Contents' = SubSeq(Contents, k + 1, size)
  <2>1. Len(Contents') = Len(SubSeq(Contents, k + 1, size))
    BY <1>1, <1>3, <1>5, <1>6
  <2> QED BY <1>1, <1>3, <1>5, <1>6, <1>7, <2>1, SeqEqual
<1>9. front = SubSeq(Contents, 1, k)
  <2>1. front \in [1..k -> Byte]
    BY <1>1 DEF BufferInv, BufferTypeOK, size
  <2>2. front \in Seq(Byte) /\ Len(front) = k /\ \A i \in 1..k : front[i] = Contents[i]
    <3>1. \A i \in 1..k : front[i] = Contents[i]
      BY <1>1, <1>2
    <3> HIDE DEF front
    <3>2. front \in Seq(Byte) /\ Len(front) = k
      BY <1>1, <2>1
    <3> QED BY <3>1, <3>2
  <2>3. \A i \in 1..k : Contents[i] \in Byte
    BY <1>1, <1>2
  <2>4. /\ SubSeq(Contents, 1, k) \in Seq(Byte)
        /\ Len(SubSeq(Contents, 1, k)) = IF 1 <= k THEN k - 1 + 1 ELSE 0
        /\ \A i \in 1..(k - 1 + 1) : SubSeq(Contents, 1, k)[i] = Contents[1 + i - 1]
    BY <1>1, <2>3, SubSeqProperties
  <2>5. /\ Len(SubSeq(Contents, 1, k)) = k
        /\ \A i \in 1..k : SubSeq(Contents, 1, k)[i] = Contents[i]
    BY <1>1, <2>4
  <2> HIDE DEF front
  <2> QED BY <2>2, <2>4, <2>5, SeqEqual
<1> QED BY <1>2, <1>8, <1>9

\* A decode of the loop is a Take.
LEMMA DecodeTakes == BufferInv /\ BufferInv' /\ Decode => Queue!Take
<1> SUFFICES ASSUME BufferInv, BufferInv', Decode PROVE Queue!Take
  OBVIOUS
<1>1. PICK k \in 0..size : /\ taken' = [i \in 1..k |-> buffer_[head_ + i - 1]]
                           /\ consume(k)
  BY DEF Decode
<1>2. /\ Contents' = SubSeq(Contents, k + 1, Len(Contents))
      /\ taken' = SubSeq(Contents, 1, k)
  BY <1>1, ConsumeTakes DEF Decode
<1>3. Len(Contents) = size
  BY ContentsType DEF BufferInv, ShowsWindow
<1> QED BY <1>2, <1>3 DEF Queue!Take

\* prepare moves the bytes and leaves the queue as it was.
LEMMA PrepareStutters == BufferInv /\ BufferInv' /\ Prepare => UNCHANGED Contents
<1> SUFFICES ASSUME BufferInv, BufferInv', Prepare PROVE Contents' = Contents
  OBVIOUS
<1>1. /\ Length \in Nat /\ head_ \in Nat /\ tail_ \in Nat /\ head_ <= tail_
      /\ tail_ <= Length
  BY BufferAssumption DEF BufferInv, BufferTypeOK
<1>2. CASE SizeToRead > free_size
  <2>1. /\ buffer_' = [i \in 0..(Length - 1) |->
                         IF i < size THEN buffer_[head_ + i] ELSE buffer_[i]]
        /\ tail_' = size /\ head_' = 0
    <3>1. SizeToRead > 0
      BY <1>1, <1>2 DEF SizeToRead, free_size, capacity, size
    <3> QED
      BY <1>2, <3>1 DEF Prepare, prepare, Moved
  <2>2. size' = size
    BY <1>1, <2>1 DEF size
  <2>3. ASSUME NEW i \in 1..size
        PROVE  buffer_'[head_' + i - 1] = buffer_[head_ + i - 1]
    <3>1. head_' + i - 1 = i - 1 /\ i - 1 \in 0..(Length - 1) /\ i - 1 < size
      BY <1>1, <2>1 DEF size
    <3>2. buffer_'[i - 1] = buffer_[head_ + (i - 1)]
      BY <2>1, <3>1
    <3> QED BY <1>1, <3>1, <3>2
  <2> QED BY <2>2, <2>3, SameContents DEF BufferInv
<1>3. CASE ~(SizeToRead > free_size)
  BY <1>3 DEF Prepare, prepare, Moved, Contents, size
<1> QED BY <1>2, <1>3

\* The buffer is a queue of bytes: no move, reset or partial read loses, repeats
\* or reorders one, whatever the length of the buffer.
THEOREM QueueImplemented == BufferSpec => ImplementsQueue
<1>1. BufferInit => Queue!Init
  <2> SUFFICES ASSUME BufferInit PROVE Contents = <<>>
    BY DEF Queue!Init, BufferInit
  <2>1. BufferTypeOK /\ size = 0
    BY BufferInitInv DEF BufferInv, BufferInit, size
  <2> QED BY <2>1, ContentsType, EmptySeq DEF ShowsWindow
<1>2. BufferInv /\ BufferInv' /\ [BufferNext]_bufferVars => [Queue!Next]_(Queue!vars)
  <2> SUFFICES ASSUME BufferInv, BufferInv', [BufferNext]_bufferVars PROVE [Queue!Next]_(Queue!vars)
    OBVIOUS
  <2>1. CASE Prepare
    BY <2>1, PrepareStutters DEF Prepare, Queue!vars
  <2>2. CASE Read
    BY <2>2, ReadPuts DEF Queue!Next
  <2>3. CASE Decode
    BY <2>3, DecodeTakes DEF Queue!Next
  <2>4. CASE ReadFails \/ DecodeFails \/ UNCHANGED bufferVars
    BY <2>4 DEF ReadFails, DecodeFails, bufferVars, Contents, size, Queue!vars
  <2> QED BY <2>1, <2>2, <2>3, <2>4 DEF BufferNext
<1> QED BY <1>1, <1>2, BufferInvariance, PTL DEF BufferSpec, ImplementsQueue, Queue!Spec

-----------------------------------------------------------------------------
(* Induction, on sets of numbers.                                          *)

\* Every set of natural numbers that is not empty has a least element.
LEMMA Least ==
  ASSUME NEW S \in SUBSET Nat, S # {}
  PROVE  \E n \in S : \A m \in S : n <= m
<1>1. PICK n \in S : \A m \in S : ~(<<m, n>> \in OpToRel(<, Nat))
  BY NatLessThanWellFounded, WFMin
<1>2. \A m \in S : ~(m < n)
  BY <1>1 DEF OpToRel
<1> QED BY <1>2

\* What holds of a number if it holds of all greater ones up to a bound holds of
\* all up to the bound: the decoder goes forward, and what it finds from an offset
\* on depends on what it finds from later ones.
LEMMA Backward ==
  ASSUME NEW bound \in Nat, NEW good,
         \A k \in 0..bound : (\A j \in (k + 1)..bound : j \in good) => k \in good
  PROVE  \A k \in 0..bound : k \in good
<1> DEFINE bad == {n \in Nat : n <= bound /\ bound - n \notin good}
<1>1. SUFFICES ASSUME bad # {} PROVE FALSE
  <2>1. ASSUME bad = {}, NEW k \in 0..bound PROVE k \in good
    <3>1. bound - k \in Nat /\ bound - k <= bound /\ bound - (bound - k) = k
      OBVIOUS
    <3> QED BY <2>1, <3>1
  <2> QED BY <2>1
<1>2. PICK n \in bad : \A m \in bad : n <= m
  BY <1>1, Least
<1>3. ASSUME NEW j \in (bound - n + 1)..bound PROVE j \in good
  <2>1. bound - j \in Nat /\ bound - j < n /\ bound - (bound - j) = j
    BY <1>2
  <2> QED BY <1>2, <2>1
<1> QED BY <1>2, <1>3

-----------------------------------------------------------------------------
(* decode_packet.                                                          *)

\* The flag at which the search from offset k on stops.
IsFlagFrom(buf, k, s) ==
  /\ s \in k..Len(buf)
  /\ s = Len(buf) \/ buf[s + 1] = Flag
  /\ \A i \in (k + 1)..s : buf[i] # Flag

\* There is one, and only one.
LEMMA FlagFound ==
  ASSUME NEW buf \in Seq(Byte), NEW k \in 0..Len(buf), NEW s
  PROVE  IsFlagFrom(buf, k, s) <=> s = ToFlag(buf, k)
<1> DEFINE flags == {i \in (k + 1)..Len(buf) : buf[i] = Flag}
<1>1. ToFlag(buf, k) = IF flags = {} THEN Len(buf)
                       ELSE (CHOOSE i \in flags : \A j \in flags : i <= j) - 1
  BY DEF ToFlag
<1>2. CASE flags = {}
  BY <1>1, <1>2 DEF IsFlagFrom
<1>3. CASE flags # {}
  <2>1. \E i \in flags : \A j \in flags : i <= j
    <3>1. flags \in SUBSET Nat
      OBVIOUS
    <3> HIDE DEF flags
    <3> QED BY <1>3, <3>1, Least
  <2> DEFINE first == CHOOSE i \in flags : \A j \in flags : i <= j
  <2>2. first \in flags /\ \A j \in flags : first <= j
    BY <2>1
  <2>3. ToFlag(buf, k) = first - 1
    BY <1>1, <1>3
  <2> HIDE DEF first
  <2> QED BY <2>2, <2>3 DEF IsFlagFrom
<1> QED BY <1>2, <1>3

\* The header at a flag: what it says of the body's length.
BodyLen(buf, s) == network_to_host_32(SubSeq(buf, s + 3, s + 4))

\* What the decoder does at the flag it has found: it stops for want of bytes, ...
Stops(buf, s) ==
  \/ Len(buf) - s < header_length
  \/ /\ Len(buf) - s >= header_length
     /\ CrcMatches(buf, s) /\ ~TooLong(BodyLen(buf, s))
     /\ Len(buf) - s < header_length + BodyLen(buf, s)

\* ... has a packet, ...
Finds(buf, s) ==
  /\ Len(buf) - s >= header_length
  /\ CrcMatches(buf, s) /\ ~TooLong(BodyLen(buf, s))
  /\ ~(Len(buf) - s < header_length + BodyLen(buf, s))

\* ... or goes on behind.
After(buf, s) == IF CrcMatches(buf, s) THEN s + header_length ELSE SkipFlag(s)

NeedsMore(s) == [consume_len |-> s, pack |-> Null]
Found(buf, s) ==
  [consume_len |-> s + header_length + BodyLen(buf, s),
   pack |-> PacketAt(buf, s, BodyLen(buf, s))]

\* What a packet decoded may be.
Given == Seq(Byte) \cup {Garbled}

\* It is never taken for none.
LEMMA GivenIs == Null \notin Given /\ Garbled \in Given /\ Seq(Byte) \subseteq Given
BY PathAssumption DEF Given

\* The decoder's step in these terms.
LEMMA DecodeStep ==
  ASSUME NEW buf \in Seq(Byte), NEW from, NEW k \in 0..Len(buf)
  PROVE  LET s == ToFlag(buf, k)
         IN  /\ s \in k..Len(buf)
             /\ DecodeFrom(buf, from, k) =
                  IF Stops(buf, s) THEN NeedsMore(s)
                  ELSE IF Finds(buf, s) THEN Found(buf, s) ELSE from[After(buf, s)]
             /\ ~Stops(buf, s) => Len(buf) - s >= header_length
<1> DEFINE s == ToFlag(buf, k)
<1>1. s \in k..Len(buf)
  BY FlagFound DEF IsFlagFrom
<1> HIDE DEF s
<1>2. Len(buf) - s \in Nat /\ header_length \in Nat
  BY <1>1 DEF header_length
<1> DEFINE len == BodyLen(buf, s)
           left == Len(buf) - s
<1>3. DecodeFrom(buf, from, k) =
        CASE left < header_length ->
               [consume_len |-> s, pack |-> Null]
          [] left >= header_length /\ ~CrcMatches(buf, s) ->
               from[SkipFlag(s)]
          [] left >= header_length /\ CrcMatches(buf, s) /\ TooLong(len) ->
               from[s + header_length]
          [] left >= header_length /\ CrcMatches(buf, s) /\ ~TooLong(len) ->
               IF left < header_length + len
               THEN [consume_len |-> s, pack |-> Null]
               ELSE [consume_len |-> s + header_length + len,
                     pack |-> PacketAt(buf, s, len)]
  BY DEF DecodeFrom, BodyLen, s
<1> HIDE DEF len, left
<1>4. left \in Nat /\ (left < header_length <=> ~(left >= header_length))
  BY <1>2 DEF left
<1>5. CASE left < header_length
  BY <1>1, <1>3, <1>4, <1>5 DEF Stops, NeedsMore, s, left
<1>6. CASE ~(left < header_length)
  <2>1. Stops(buf, s) <=> CrcMatches(buf, s) /\ ~TooLong(len) /\ left < header_length + len
    BY <1>4, <1>6 DEF Stops, left, len
  <2>2. Finds(buf, s) <=> CrcMatches(buf, s) /\ ~TooLong(len) /\ ~(left < header_length + len)
    BY <1>4, <1>6 DEF Finds, left, len
  <2>3. left >= header_length
    BY <1>4, <1>6
  <2>4. DecodeFrom(buf, from, k) =
          IF Stops(buf, s) THEN NeedsMore(s)
          ELSE IF Finds(buf, s) THEN Found(buf, s) ELSE from[After(buf, s)]
    <3>1. CASE ~CrcMatches(buf, s)
      BY <1>3, <1>6, <2>1, <2>2, <2>3, <3>1 DEF After
    <3>2. CASE CrcMatches(buf, s) /\ TooLong(len)
      BY <1>3, <1>6, <2>1, <2>2, <2>3, <3>2 DEF After
    <3>3. CASE CrcMatches(buf, s) /\ ~TooLong(len)
      BY <1>3, <1>6, <2>1, <2>2, <2>3, <3>3 DEF NeedsMore, Found, len
    <3> QED BY <3>1, <3>2, <3>3
  <2> QED BY <1>1, <2>3, <2>4 DEF s, left
<1> QED BY <1>5, <1>6

\* From an offset on, the decoder goes only forward.
LEMMA DecodeForward ==
  ASSUME NEW buf \in Seq(Byte), NEW k \in 0..Len(buf),
         ~Stops(buf, ToFlag(buf, k)), ~Finds(buf, ToFlag(buf, k))
  PROVE  After(buf, ToFlag(buf, k)) \in (k + 1)..Len(buf)
<1> DEFINE s == ToFlag(buf, k)
<1>1. s \in k..Len(buf) /\ Len(buf) - s >= 5
  BY DecodeStep DEF header_length
<1> QED BY <1>1 DEF After, SkipFlag, header_length

\* f is what the decoder finds from each offset on.
IsDecoder(buf, f) == f = [k \in 0..Len(buf) |-> DecodeFrom(buf, f, k)]

\* The recursion of decode_packet ends.
LEMMA DecoderExists ==
  ASSUME NEW buf \in Seq(Byte)
  PROVE  \E f : IsDecoder(buf, f) /\ decode_packet(buf) = f[0]
<1> DEFINE L == Len(buf)
           IsFrom(n, g) == g = [k \in n..L |-> DecodeFrom(buf, g, k)]
           S == {n \in 0..(L + 1) : \E g : IsFrom(n, g)}
<1>1. L \in Nat
  OBVIOUS
<1>2. L + 1 \in S
  <2> DEFINE g == [k \in (L + 1)..L |-> DecodeFrom(buf, <<>>, k)]
  <2>1. (L + 1)..L = {}
    BY <1>1
  <2>2. g = [k \in (L + 1)..L |-> DecodeFrom(buf, g, k)]
    BY <2>1
  <2> HIDE DEF g
  <2> QED BY <1>1, <2>2
<1>3. S \in SUBSET Nat
  BY <1>1
<1>4. PICK n \in S : \A m \in S : n <= m
  <2> HIDE DEF S
  <2> QED BY <1>2, <1>3, Least
<1>5. n = 0
  <2> SUFFICES ASSUME n # 0 PROVE FALSE
    OBVIOUS
  <2>1. PICK g : IsFrom(n, g)
    BY <1>4
  <2> DEFINE p == n - 1
             f == [k \in p..L |-> IF k = p THEN DecodeFrom(buf, g, p) ELSE g[k]]
  <2>2. p \in 0..L /\ n = p + 1 /\ p < n
    BY <1>1, <1>4
  <2>3. ASSUME NEW k \in p..L PROVE DecodeFrom(buf, f, k) = DecodeFrom(buf, g, k)
    <3> DEFINE s == ToFlag(buf, k)
    <3>1. k \in 0..L
      BY <2>2
    <3>2. \A h : DecodeFrom(buf, h, k) =
                   IF Stops(buf, s) THEN NeedsMore(s)
                   ELSE IF Finds(buf, s) THEN Found(buf, s) ELSE h[After(buf, s)]
      BY <3>1, DecodeStep
    <3>3. ASSUME ~Stops(buf, s), ~Finds(buf, s) PROVE f[After(buf, s)] = g[After(buf, s)]
      <4>1. After(buf, s) \in (k + 1)..L
        BY <3>1, <3>3, DecodeForward
      <4>2. After(buf, s) \in p..L /\ After(buf, s) # p
        BY <2>2, <4>1
      <4> QED BY <4>2
    <3> HIDE DEF f, s
    <3> QED BY <3>2, <3>3
  <2>4. ASSUME NEW k \in p..L PROVE f[k] = DecodeFrom(buf, f, k)
    <3>1. CASE k = p
      BY <2>3, <3>1
    <3>2. CASE k # p
      <4>1. k \in n..L
        BY <2>2, <3>2
      <4>2. g[k] = DecodeFrom(buf, g, k)
        BY <2>1, <4>1
      <4> QED BY <2>3, <3>2, <4>2
    <3> QED BY <3>1, <3>2
  <2>5. f = [k \in p..L |-> DecodeFrom(buf, f, k)]
    <3>1. f = [k \in p..L |-> f[k]]
      OBVIOUS
    <3> HIDE DEF f
    <3> QED BY <2>4, <3>1
  <2> HIDE DEF f
  <2>6. p \in S
    BY <1>1, <2>2, <2>5
  <2> QED BY <1>4, <2>2, <2>6
<1>6. \E f : IsDecoder(buf, f)
  BY <1>4, <1>5 DEF IsDecoder
<1> DEFINE f == CHOOSE f : IsDecoder(buf, f)
<1>7. IsDecoder(buf, f)
  BY <1>6
<1>8. decode_packet(buf) = f[0]
  BY Zenon DEF decode_packet, IsDecoder
<1> QED BY <1>7, <1>8

\* Part of a string of bytes.
LEMMA PartOf ==
  ASSUME NEW S, NEW q \in Seq(S), NEW a \in Nat, NEW b \in Nat, a >= 1, b <= Len(q)
  PROVE  /\ SubSeq(q, a, b) \in Seq(S)
         /\ Len(SubSeq(q, a, b)) = IF a <= b THEN b - a + 1 ELSE 0
         /\ \A i \in 1..(b - a + 1) : SubSeq(q, a, b)[i] = q[a + i - 1]
<1>1. \A i \in a..b : q[i] \in S
  OBVIOUS
<1> QED BY <1>1, SubSeqProperties

\* How bytes are put together makes no difference.
LEMMA Regroup == \A a, b, c \in Seq(Byte) : (a \o b) \o c = a \o (b \o c)
  OBVIOUS

\* Nor how packets are.
LEMMA RegroupPackets == \A a, b, c \in Seq(Given) : (a \o b) \o c = a \o (b \o c)
  OBVIOUS

\* The product of two natural numbers is one.
LEMMA Product == ASSUME NEW a \in Nat, NEW b \in Nat PROVE a * b \in Nat
OBVIOUS

\* The length in a whole header is a number.
LEMMA BodyLenType ==
  ASSUME NEW buf \in Seq(Byte), NEW s \in 0..Len(buf), Len(buf) - s >= header_length
  PROVE  BodyLen(buf, s) \in Nat
<1> DEFINE word == SubSeq(buf, s + 3, s + 4)
<1>1. word[1] = buf[s + 3] /\ word[2] = buf[s + 4]
  <2>1. s + 3 \in Nat /\ s + 4 \in Nat /\ s + 3 >= 1 /\ s + 4 <= Len(buf)
    BY DEF header_length
  <2>2. \A i \in 1..(s + 4 - (s + 3) + 1) : word[i] = buf[s + 3 + i - 1]
    BY <2>1, PartOf
  <2>3. 1 \in 1..(s + 4 - (s + 3) + 1) /\ 2 \in 1..(s + 4 - (s + 3) + 1)
    OBVIOUS
  <2>4. s + 3 + 1 - 1 = s + 3 /\ s + 3 + 2 - 1 = s + 4
    OBVIOUS
  <2> HIDE DEF word
  <2> QED BY <2>2, <2>3, <2>4
<1>2. buf[s + 3] \in Nat /\ buf[s + 4] \in Nat /\ Base \in Nat
  <2>1. s + 3 \in 1..Len(buf) /\ s + 4 \in 1..Len(buf)
    BY DEF header_length
  <2>2. buf[s + 3] \in Byte /\ buf[s + 4] \in Byte
    BY <2>1
  <2> QED BY <2>2, PathAssumption
<1> HIDE DEF word
<1>3. BodyLen(buf, s) = buf[s + 3] * Base + buf[s + 4]
  BY <1>1 DEF BodyLen, network_to_host_32, word
<1>4. buf[s + 3] * Base \in Nat
  BY <1>2, Product
<1> QED BY <1>2, <1>3, <1>4

\* Where the decoder stops there is no room for a packet of the largest size.
LEMMA StopsShort ==
  ASSUME NEW buf \in Seq(Byte), NEW s \in 0..Len(buf), Stops(buf, s)
  PROVE  Len(buf) - s < header_length + MaxBody
<1>1. CASE Len(buf) - s < header_length
  BY <1>1, PathAssumption DEF header_length
<1>2. CASE ~(Len(buf) - s < header_length)
  <2>1. /\ Len(buf) - s >= header_length /\ ~TooLong(BodyLen(buf, s))
        /\ Len(buf) - s < header_length + BodyLen(buf, s)
    BY <1>2 DEF Stops
  <2>2. BodyLen(buf, s) \in Nat
    BY <2>1, BodyLenType
  <2> QED BY <2>1, <2>2, PathAssumption DEF TooLong, header_length
<1> QED BY <1>1, <1>2

\* What it finds is in the bytes it is given, and is not nothing.
LEMMA FindsWhole ==
  ASSUME NEW buf \in Seq(Byte), NEW s \in 0..Len(buf), Finds(buf, s)
  PROVE  /\ Found(buf, s).consume_len \in (s + header_length)..Len(buf)
         /\ Found(buf, s).pack \in Given /\ Found(buf, s).pack # Null
<1>1. /\ Len(buf) - s >= header_length /\ header_length = 5
      /\ ~(Len(buf) - s < header_length + BodyLen(buf, s))
  BY DEF Finds, header_length
<1>2. BodyLen(buf, s) \in Nat
  BY <1>1, BodyLenType
<1>3. s + header_length + BodyLen(buf, s) \in (s + header_length)..Len(buf)
  BY <1>1, <1>2
<1>4. SubSeq(buf, s + header_length + 1, s + header_length + BodyLen(buf, s)) \in Seq(Byte)
  <2>1. /\ s + header_length + 1 \in Nat /\ s + header_length + 1 >= 1
        /\ s + header_length + BodyLen(buf, s) \in Nat
        /\ s + header_length + BodyLen(buf, s) <= Len(buf)
    BY <1>1, <1>3
  <2> QED BY <2>1, PartOf
<1>5. Found(buf, s).pack \in Given
  BY <1>4, GivenIs DEF Found, PacketAt
<1> QED BY <1>3, <1>5, GivenIs DEF Found

\* What the decoder comes to from offset k on.
Result(buf, k, d) ==
  \E s \in k..Len(buf) :
    /\ s = Len(buf) \/ buf[s + 1] = Flag
    /\ \/ Stops(buf, s) /\ d = NeedsMore(s)
       \/ Finds(buf, s) /\ d = Found(buf, s)

\* Every offset has a result.
LEMMA DecoderResult ==
  ASSUME NEW buf \in Seq(Byte), NEW f, IsDecoder(buf, f)
  PROVE  \A k \in 0..Len(buf) : Result(buf, k, f[k])
<1> DEFINE L == Len(buf)
           good == {k \in 0..L : Result(buf, k, f[k])}
<1>1. L \in Nat
  OBVIOUS
<1>2. ASSUME NEW k \in 0..L, \A j \in (k + 1)..L : j \in good PROVE k \in good
  <2> DEFINE s == ToFlag(buf, k)
  <2>1. /\ s \in k..L
        /\ DecodeFrom(buf, f, k) = IF Stops(buf, s) THEN NeedsMore(s)
                                   ELSE IF Finds(buf, s) THEN Found(buf, s)
                                   ELSE f[After(buf, s)]
        /\ f[k] = DecodeFrom(buf, f, k)
    BY DecodeStep DEF IsDecoder
  <2>2. s = L \/ buf[s + 1] = Flag
    BY FlagFound DEF IsFlagFrom
  <2>3. ~Stops(buf, s) /\ ~Finds(buf, s) => After(buf, s) \in (k + 1)..L
    BY DecodeForward
  <2> HIDE DEF s
  <2>4. CASE Stops(buf, s) \/ Finds(buf, s)
    BY <2>1, <2>2, <2>4 DEF Result
  <2>5. CASE ~Stops(buf, s) /\ ~Finds(buf, s)
    <3> DEFINE n == After(buf, s)
    <3>1. n \in (k + 1)..L /\ f[k] = f[n]
      BY <2>1, <2>3, <2>5
    <3> HIDE DEF n
    <3>2. Result(buf, n, f[n])
      BY <1>2, <3>1
    <3>3. n..L \subseteq k..L
      BY <1>1, <3>1
    <3> QED BY <3>1, <3>2, <3>3 DEF Result
  <2> QED BY <2>4, <2>5
<1> HIDE DEF good
<1>3. \A k \in 0..L : k \in good
  BY <1>1, <1>2, Backward
<1> QED BY <1>3 DEF good

\* What decode_packet promises of any bytes: what it leaves, if it has no packet, is
\* empty or begins with a flag and is shorter than the largest packet.
LEMMA DecodeResult ==
  ASSUME NEW buf \in Seq(Byte)
  PROVE  LET d == decode_packet(buf)
         IN  /\ d.consume_len \in 0..Len(buf)
             /\ d.pack # Null => d.pack \in Given /\ d.consume_len > 0
             /\ d.pack = Null /\ d.consume_len # Len(buf) =>
                  /\ buf[d.consume_len + 1] = Flag
                  /\ Len(buf) - d.consume_len < header_length + MaxBody
<1>1. PICK f : IsDecoder(buf, f) /\ decode_packet(buf) = f[0]
  BY DecoderExists
<1> DEFINE d == decode_packet(buf)
<1>2. Result(buf, 0, d)
  BY <1>1, DecoderResult
<1> HIDE DEF d
<1>3. PICK s \in 0..Len(buf) : /\ s = Len(buf) \/ buf[s + 1] = Flag
                               /\ \/ Stops(buf, s) /\ d = NeedsMore(s)
                                  \/ Finds(buf, s) /\ d = Found(buf, s)
  BY <1>2 DEF Result
<1>4. CASE Stops(buf, s) /\ d = NeedsMore(s)
  <2>1. d.consume_len = s /\ d.pack = Null
    BY <1>4 DEF NeedsMore
  <2> QED BY <1>3, <1>4, <2>1, StopsShort DEF d
<1>5. CASE Finds(buf, s) /\ d = Found(buf, s)
  <2>1. /\ d.consume_len \in (s + header_length)..Len(buf)
        /\ d.pack \in Given /\ d.pack # Null
    BY <1>5, FindsWhole
  <2>2. d.consume_len \in 0..Len(buf) /\ d.consume_len > 0
    BY <2>1 DEF header_length
  <2> QED BY <2>1, <2>2 DEF d
<1> QED BY <1>3, <1>4, <1>5

\* p is a part of q, behind the first n bytes.
Window(p, q, n) == n + Len(p) <= Len(q) /\ \A i \in 1..Len(p) : q[n + i] = p[i]

\* The place c is the n-th behind a.
Behind(c, n, a) == c = n + a

\* The same as SubSeq, for the provers, which would expand that.
Cut(s, a, b) == SubSeq(s, a, b)

\* A part of a part.
LEMMA SamePart ==
  ASSUME NEW p \in Seq(Byte), NEW q \in Seq(Byte), NEW n \in Nat, Window(p, q, n),
         NEW a \in Nat, NEW b \in Nat, a >= 1, b <= Len(p),
         NEW c, Behind(c, n, a), NEW d, Behind(d, n, b)
  PROVE  Cut(q, c, d) = Cut(p, a, b)
<1> DEFINE u == SubSeq(q, n + a, n + b)
           v == SubSeq(p, a, b)
<1>1. n + a \in Nat /\ n + b \in Nat /\ n + a >= 1 /\ n + b <= Len(q)
  BY DEF Window
<1>2. /\ u \in Seq(Byte) /\ Len(u) = IF n + a <= n + b THEN n + b - (n + a) + 1 ELSE 0
      /\ \A i \in 1..(n + b - (n + a) + 1) : u[i] = q[n + a + i - 1]
  BY <1>1, PartOf
<1>3. /\ v \in Seq(Byte) /\ Len(v) = IF a <= b THEN b - a + 1 ELSE 0
      /\ \A i \in 1..(b - a + 1) : v[i] = p[a + i - 1]
  BY PartOf
<1> HIDE DEF u, v
<1>4. Len(u) = Len(v) /\ n + b - (n + a) + 1 = b - a + 1
  BY <1>2, <1>3
<1>5. ASSUME NEW i \in 1..Len(u) PROVE u[i] = v[i]
  <2>1. i \in 1..(b - a + 1) /\ a + i - 1 \in 1..Len(p) /\ n + a + i - 1 = n + (a + i - 1)
    BY <1>3, <1>4
  <2>2. u[i] = q[n + (a + i - 1)] /\ v[i] = p[a + i - 1]
    BY <1>2, <1>3, <1>4, <2>1
  <2> QED BY <2>1, <2>2 DEF Window
<1>6. u = v
  BY <1>2, <1>3, <1>4, <1>5, SeqEqual
<1> QED BY <1>6 DEF Behind, Cut, u, v

\* A header that is whole in the part is the same in the whole.
LEMMA SameHeader ==
  ASSUME NEW p \in Seq(Byte), NEW q \in Seq(Byte), NEW n \in Nat, Window(p, q, n),
         NEW s \in 0..Len(p), Len(p) - s >= header_length
  PROVE  /\ CrcMatches(q, n + s) <=> CrcMatches(p, s)
         /\ BodyLen(q, n + s) = BodyLen(p, s)
         /\ \A len : Overruns(q, n + s, len) <=> Overruns(p, s, len)
<1>1. /\ s + 1 \in Nat /\ s + 2 \in 1..Len(p) /\ s + 3 \in Nat /\ s + 4 \in Nat
      /\ s + 5 \in 1..Len(p) /\ s + 1 >= 1 /\ s + 3 >= 1 /\ s + 4 <= Len(p)
  BY DEF header_length
<1>2. /\ n + s + 1 = n + (s + 1) /\ n + s + 2 = n + (s + 2) /\ n + s + 3 = n + (s + 3)
      /\ n + s + 4 = n + (s + 4) /\ n + s + 5 = n + (s + 5)
  OBVIOUS
<1> DEFINE a == s + 1
           b == s + 3
           e == s + 4
           x == n + s + 1
           y == n + s + 3
           z == n + s + 4
<1>3. /\ a \in Nat /\ b \in Nat /\ e \in Nat /\ a >= 1 /\ b >= 1 /\ e <= Len(p)
      /\ Behind(x, n, a) /\ Behind(y, n, b) /\ Behind(z, n, e)
  BY <1>1, <1>2 DEF Behind
<1> HIDE DEF a, b, e, x, y, z
<1>4a. Cut(q, x, z) = Cut(p, a, e)
  BY <1>3, SamePart
<1>4b. Cut(q, y, z) = Cut(p, b, e)
  BY <1>3, SamePart
<1>4. /\ SubSeq(q, n + s + 1, n + s + 4) = SubSeq(p, s + 1, s + 4)
      /\ SubSeq(q, n + s + 3, n + s + 4) = SubSeq(p, s + 3, s + 4)
  BY <1>4a, <1>4b DEF Cut, a, b, e, x, y, z
<1>5. q[n + s + 5] = p[s + 5] /\ q[n + s + 2] = p[s + 2]
  <2>1. \A i \in 1..Len(p) : q[n + i] = p[i]
    BY DEF Window
  <2>2. q[n + (s + 5)] = p[s + 5] /\ q[n + (s + 2)] = p[s + 2]
    BY <1>1, <2>1
  <2> QED BY <1>2, <2>2
<1>6. (CrcMatches(q, n + s) <=> CrcMatches(p, s)) /\ BodyLen(q, n + s) = BodyLen(p, s)
  BY <1>4, <1>5 DEF CrcMatches, BodyLen
<1>7. ASSUME NEW len PROVE Overruns(q, n + s, len) <=> Overruns(p, s, len)
  BY <1>5 DEF Overruns
<1> QED BY <1>6, <1>7

\* A flag found in the part is found in the whole; if there is none in the part, the
\* search goes on behind it.
LEMMA SameFlag ==
  ASSUME NEW p \in Seq(Byte), NEW q \in Seq(Byte), NEW n \in Nat, Window(p, q, n),
         NEW k \in 0..Len(p)
  PROVE  LET s == ToFlag(p, k)
         IN  /\ ToFlag(q, n + k) = ToFlag(q, n + s)
             /\ s # Len(p) \/ n + Len(p) = Len(q) => ToFlag(q, n + s) = n + s
<1> DEFINE s == ToFlag(p, k)
           t == ToFlag(q, n + s)
<1>1. s \in k..Len(p) /\ (s = Len(p) \/ p[s + 1] = Flag) /\ \A i \in (k + 1)..s : p[i] # Flag
  BY FlagFound DEF IsFlagFrom
<1>2. n + k \in 0..Len(q) /\ n + s \in 0..Len(q) /\ n + k <= n + s
  BY <1>1 DEF Window
<1>3. t \in (n + s)..Len(q) /\ (t = Len(q) \/ q[t + 1] = Flag)
      /\ \A i \in (n + s + 1)..t : q[i] # Flag
  BY <1>2, FlagFound DEF IsFlagFrom
<1> HIDE DEF s, t
<1>4. ASSUME NEW i \in (n + k + 1)..t PROVE q[i] # Flag
  <2>1. CASE i >= n + s + 1
    <3>1. i \in (n + s + 1)..t
      BY <1>1, <1>2, <1>3, <2>1
    <3> QED BY <1>3, <3>1
  <2>2. CASE ~(i >= n + s + 1)
    <3>1. i - n \in (k + 1)..s /\ i - n \in 1..Len(p) /\ n + (i - n) = i
      BY <1>1, <1>2, <1>3, <2>2
    <3>2. q[n + (i - n)] = p[i - n]
      BY <3>1 DEF Window
    <3> QED BY <1>1, <3>1, <3>2
  <2> QED BY <2>1, <2>2
<1>5. IsFlagFrom(q, n + k, t)
  BY <1>1, <1>2, <1>3, <1>4 DEF IsFlagFrom
<1>6. t = ToFlag(q, n + k)
  BY <1>2, <1>5, FlagFound
<1>7. ASSUME s # Len(p) \/ n + Len(p) = Len(q) PROVE t = n + s
  <2>1. n + s = Len(q) \/ q[n + s + 1] = Flag
    <3>1. CASE s = Len(p)
      BY <1>7, <3>1
    <3>2. CASE s # Len(p)
      <4>1. s + 1 \in 1..Len(p) /\ n + (s + 1) = n + s + 1
        BY <1>1, <3>2
      <4> QED BY <1>1, <3>2, <4>1 DEF Window
    <3> QED BY <3>1, <3>2
  <2>2. IsFlagFrom(q, n + s, n + s)
    BY <1>2, <2>1 DEF IsFlagFrom
  <2> QED BY <1>2, <2>2, FlagFound DEF t
<1> QED BY <1>6, <1>7 DEF s, t

\* What is found in the part is found in the whole.
LEMMA SameFound ==
  ASSUME NEW p \in Seq(Byte), NEW q \in Seq(Byte), NEW n \in Nat, Window(p, q, n),
         NEW s \in 0..Len(p), Finds(p, s)
  PROVE  /\ Finds(q, n + s)
         /\ Found(q, n + s) = [consume_len |-> n + Found(p, s).consume_len,
                               pack |-> Found(p, s).pack]
<1>1. /\ Len(p) - s >= header_length /\ header_length = 5
      /\ ~(Len(p) - s < header_length + BodyLen(p, s))
      /\ CrcMatches(p, s) /\ ~TooLong(BodyLen(p, s))
  BY DEF Finds, header_length
<1>2. /\ CrcMatches(q, n + s) /\ BodyLen(q, n + s) = BodyLen(p, s)
      /\ Overruns(q, n + s, BodyLen(p, s)) <=> Overruns(p, s, BodyLen(p, s))
  BY <1>1, SameHeader
<1>3. BodyLen(p, s) \in Nat
  BY <1>1, BodyLenType
<1> DEFINE b == BodyLen(p, s)
<1>4. b \in Nat /\ n + Len(p) <= Len(q)
  BY <1>3 DEF Window
<1>5. Len(q) - (n + s) >= header_length /\ ~(Len(q) - (n + s) < header_length + b)
  <2> HIDE DEF b
  <2>1. Len(p) - s <= Len(q) - (n + s)
    BY <1>4
  <2>2. ~(Len(p) - s < header_length + b)
    BY <1>1 DEF b
  <2> QED BY <1>1, <1>4, <2>1, <2>2
<1>6. /\ s + header_length + 1 \in Nat /\ s + header_length + 1 >= 1
      /\ s + header_length + b \in Nat /\ s + header_length + b <= Len(p)
      /\ n + s + header_length + 1 = n + (s + header_length + 1)
      /\ n + s + header_length + b = n + (s + header_length + b)
  <2> HIDE DEF b
  <2>1. ~(Len(p) - s < header_length + b)
    BY <1>1 DEF b
  <2> QED BY <1>1, <1>4, <2>1
<1> DEFINE u == s + header_length + 1
           v == s + header_length + b
           x == n + s + header_length + 1
           y == n + s + header_length + b
<1>7. Cut(q, x, y) = Cut(p, u, v)
  <2>1. /\ u \in Nat /\ v \in Nat /\ u >= 1 /\ v <= Len(p)
        /\ Behind(x, n, u) /\ Behind(y, n, v)
    BY <1>6 DEF Behind
  <2> HIDE DEF u, v, x, y
  <2> QED BY <2>1, SamePart
<1>8. PacketAt(q, n + s, b) = PacketAt(p, s, b)
  BY <1>2, <1>7 DEF Cut, PacketAt
<1> HIDE DEF b
<1>9. n + s + header_length + b = n + (s + header_length + b)
  BY <1>6
<1> QED BY <1>1, <1>2, <1>5, <1>8, <1>9 DEF Finds, Found, b

\* What the decoder finds in the part it finds in the whole; if it finds no packet in
\* the part, then in the whole it goes on where it stopped in the part.
LEMMA DecoderInWindow ==
  ASSUME NEW p \in Seq(Byte), NEW q \in Seq(Byte), NEW n \in Nat, Window(p, q, n),
         NEW f, IsDecoder(p, f), NEW g, IsDecoder(q, g)
  PROVE  \A k \in 0..Len(p) :
           IF f[k].pack = Null THEN g[n + k] = g[n + f[k].consume_len]
           ELSE g[n + k] = [consume_len |-> n + f[k].consume_len, pack |-> f[k].pack]
<1> DEFINE L == Len(p)
           Same(k) == IF f[k].pack = Null THEN g[n + k] = g[n + f[k].consume_len]
                      ELSE g[n + k] = [consume_len |-> n + f[k].consume_len, pack |-> f[k].pack]
           good == {k \in 0..L : Same(k)}
<1>1. L \in Nat /\ n + L <= Len(q)
  BY DEF Window
<1>2. ASSUME NEW k \in 0..L, \A j \in (k + 1)..L : j \in good PROVE k \in good
  <2> DEFINE s == ToFlag(p, k)
             t == ToFlag(q, n + k)
  <2>1. s \in k..L /\ f[k] = IF Stops(p, s) THEN NeedsMore(s)
                             ELSE IF Finds(p, s) THEN Found(p, s) ELSE f[After(p, s)]
    BY DecodeStep DEF IsDecoder
  <2>2. /\ n + k \in 0..Len(q)
        /\ t \in (n + k)..Len(q)
        /\ g[n + k] = IF Stops(q, t) THEN NeedsMore(t)
                      ELSE IF Finds(q, t) THEN Found(q, t) ELSE g[After(q, t)]
    <3>1. n + k \in 0..Len(q)
      BY <1>1
    <3> QED BY <3>1, DecodeStep DEF IsDecoder
  <2>3. /\ t = ToFlag(q, n + s)
        /\ s # L => t = n + s
    BY SameFlag
  <2>4. ~Stops(p, s) /\ ~Finds(p, s) => After(p, s) \in (k + 1)..L
    BY DecodeForward
  <2>5. ~Stops(p, s) => L - s >= header_length
    BY DecodeStep
  <2> HIDE DEF s
  <2>6. ~Stops(p, s) => s # L
    BY <1>1, <2>1, <2>5 DEF header_length
  <2>7. CASE Stops(p, s)
    <3>1. f[k].pack = Null /\ f[k].consume_len = s
      BY <2>1, <2>7 DEF NeedsMore
    <3> DEFINE j == n + s
    <3>2. j \in 0..Len(q)
      BY <1>1, <2>1
    <3>3. t = ToFlag(q, j)
      BY <2>3
    <3> HIDE DEF j, t
    <3>4. g[j] = IF Stops(q, t) THEN NeedsMore(t)
                 ELSE IF Finds(q, t) THEN Found(q, t) ELSE g[After(q, t)]
      BY <3>2, <3>3, DecodeStep DEF IsDecoder
    <3>5. g[n + k] = g[j]
      BY <2>2, <3>4
    <3> QED BY <3>1, <3>5 DEF j
  <2>8. CASE ~Stops(p, s) /\ Finds(p, s)
    <3>1. f[k] = Found(p, s) /\ s \in 0..L /\ t = n + s
      BY <2>1, <2>3, <2>6, <2>8
    <3>2. f[k].pack # Null
      BY <2>8, <3>1, FindsWhole
    <3>3. /\ Finds(q, t)
          /\ Found(q, t) = [consume_len |-> n + f[k].consume_len, pack |-> f[k].pack]
      BY <2>8, <3>1, SameFound
    <3>4. ~Stops(q, t)
      <4>1. ~(Len(q) - t < header_length)
        BY <2>2, <3>3 DEF Finds, header_length
      <4> QED BY <3>3, <4>1 DEF Stops, Finds
    <3> QED BY <2>2, <3>2, <3>3, <3>4
  <2>9. CASE ~Stops(p, s) /\ ~Finds(p, s)
    <3> DEFINE m == After(p, s)
    <3>1. f[k] = f[m] /\ m \in (k + 1)..L /\ t = n + s /\ s \in 0..L /\ L - s >= header_length
      BY <2>1, <2>3, <2>4, <2>5, <2>6, <2>9
    <3>2. (CrcMatches(q, t) <=> CrcMatches(p, s)) /\ BodyLen(q, t) = BodyLen(p, s)
      BY <3>1, SameHeader
    <3>3. Len(q) - t >= header_length
      BY <1>1, <2>2, <3>1 DEF header_length
    <3>4. ~(CrcMatches(p, s) /\ ~TooLong(BodyLen(p, s)))
      <4>1. Len(p) - s < header_length \/ Len(p) - s >= header_length
        BY <1>1, <2>1 DEF header_length
      <4> QED BY <2>9, <3>1, <4>1 DEF Stops, Finds
    <3>5. Len(q) - t \in Nat /\ ~(Len(q) - t < header_length)
      BY <2>2, <3>3 DEF header_length
    <3>6. ~Stops(q, t) /\ ~Finds(q, t)
      BY <3>2, <3>4, <3>5 DEF Stops, Finds
    <3>7. After(q, t) = n + m
      BY <1>1, <3>1, <3>2 DEF After, SkipFlag, header_length
    <3> HIDE DEF m
    <3>8. g[n + k] = g[n + m]
      BY <2>2, <3>6, <3>7
    <3>9. Same(m)
      BY <1>2, <3>1
    <3> QED BY <3>1, <3>8, <3>9
  <2> QED BY <2>7, <2>8, <2>9
<1> HIDE DEF good
<1>3. \A k \in 0..L : k \in good
  BY <1>1, <1>2, Backward
<1> QED BY <1>3 DEF good

\* The same for a part from the start on.
LEMMA DecoderOnPrefix ==
  ASSUME NEW p \in Seq(Byte), NEW q \in Seq(Byte), Window(p, q, 0),
         NEW g, IsDecoder(q, g), NEW d, d = decode_packet(p)
  PROVE  /\ d.pack = Null => g[0] = g[d.consume_len]
         /\ d.pack # Null => g[0] = [consume_len |-> d.consume_len, pack |-> d.pack]
<1>1. PICK n \in Nat : n = 0
  OBVIOUS
<1>2. PICK f : IsDecoder(p, f) /\ decode_packet(p) = f[0]
  BY DecoderExists
<1>3. Window(p, q, n) /\ n \in 0..Len(p) /\ n + n = n
  BY <1>1
<1>4. IF f[n].pack = Null THEN g[n + n] = g[n + f[n].consume_len]
      ELSE g[n + n] = [consume_len |-> n + f[n].consume_len, pack |-> f[n].pack]
  BY <1>2, <1>3, DecoderInWindow
<1>5. d.consume_len \in Nat /\ d = f[n]
  BY <1>1, <1>2, DecodeResult
<1>6. n + d.consume_len = d.consume_len
  BY <1>1, <1>5
<1>7. /\ d.pack = Null => g[n] = g[d.consume_len]
      /\ d.pack # Null => g[n] = [consume_len |-> d.consume_len, pack |-> d.pack]
  BY <1>3, <1>4, <1>5, <1>6
<1> QED BY <1>1, <1>7

\* What arrives later does not change a packet found.
LEMMA FoundStays ==
  ASSUME NEW c \in Seq(Byte), NEW more \in Seq(Byte), decode_packet(c).pack # Null
  PROVE  decode_packet(c \o more) = [consume_len |-> decode_packet(c).consume_len,
                                     pack |-> decode_packet(c).pack]
<1> DEFINE q == c \o more
           d == decode_packet(c)
<1>1. q \in Seq(Byte) /\ Window(c, q, 0)
  BY ConcatProperties DEF Window
<1>2. d.pack # Null
  OBVIOUS
<1> HIDE DEF q, d
<1>3. PICK g : IsDecoder(q, g) /\ decode_packet(q) = g[0]
  BY <1>1, DecoderExists
<1>4. g[0] = [consume_len |-> d.consume_len, pack |-> d.pack]
  <2>1. d = decode_packet(c)
    BY DEF d
  <2> QED BY <1>1, <1>2, <1>3, <2>1, DecoderOnPrefix
<1> QED BY <1>3, <1>4 DEF q, d

-----------------------------------------------------------------------------
(* The rest of a string of bytes.                                          *)

\* Its length and its bytes.
LEMMA RestIs ==
  ASSUME NEW q \in Seq(Byte), NEW n \in 0..Len(q)
  PROVE  /\ Rest(q, n) \in Seq(Byte) /\ Len(Rest(q, n)) = Len(q) - n
         /\ \A i \in 1..Len(Rest(q, n)) : Rest(q, n)[i] = q[n + i]
<1> DEFINE p == SubSeq(q, n + 1, Len(q))
<1>1. /\ p \in Seq(Byte)
      /\ Len(p) = IF n + 1 <= Len(q) THEN Len(q) - (n + 1) + 1 ELSE 0
      /\ \A i \in 1..(Len(q) - (n + 1) + 1) : p[i] = q[n + 1 + i - 1]
  BY PartOf
<1> HIDE DEF p
<1>2. Len(p) = Len(q) - n /\ Len(q) - (n + 1) + 1 = Len(p)
  BY <1>1
<1>3. ASSUME NEW i \in 1..Len(p) PROVE p[i] = q[n + i]
  <2>1. n + 1 + i - 1 = n + i
    BY <1>1
  <2> QED BY <1>1, <1>2, <2>1
<1> QED BY <1>1, <1>2, <1>3 DEF Rest, p

\* Behind nothing all is left.
LEMMA RestOfAll == ASSUME NEW q \in Seq(Byte) PROVE Rest(q, 0) = q
<1>1. 0 \in 0..Len(q) /\ \A i \in 1..Len(q) : 0 + i = i
  OBVIOUS
<1>2. Rest(q, 0) \in Seq(Byte) /\ Len(Rest(q, 0)) = Len(q)
      /\ \A i \in 1..Len(q) : Rest(q, 0)[i] = q[i]
  BY <1>1, RestIs
<1> QED BY <1>2, SeqEqual

\* The rest of the rest.
LEMMA RestOfRest ==
  ASSUME NEW q \in Seq(Byte), NEW n \in 0..Len(q), NEW m \in 0..(Len(q) - n)
  PROVE  Rest(Rest(q, n), m) = Rest(q, n + m)
<1> DEFINE p == Rest(q, n)
           u == Rest(p, m)
           v == Rest(q, n + m)
<1>1. p \in Seq(Byte) /\ Len(p) = Len(q) - n /\ \A i \in 1..Len(p) : p[i] = q[n + i]
  BY RestIs
<1> HIDE DEF p
<1>2. m \in 0..Len(p) /\ n + m \in 0..Len(q)
  BY <1>1
<1>3. u \in Seq(Byte) /\ Len(u) = Len(p) - m /\ \A i \in 1..Len(u) : u[i] = p[m + i]
  BY <1>1, <1>2, RestIs
<1>4. v \in Seq(Byte) /\ Len(v) = Len(q) - (n + m)
      /\ \A i \in 1..Len(v) : v[i] = q[n + m + i]
  BY <1>2, RestIs
<1> HIDE DEF u, v
<1>5. Len(u) = Len(v)
  BY <1>1, <1>3, <1>4
<1>6. ASSUME NEW i \in 1..Len(u) PROVE u[i] = v[i]
  <2>1. m + i \in 1..Len(p) /\ n + (m + i) = n + m + i
    BY <1>1, <1>2, <1>3
  <2>2. u[i] = p[m + i] /\ p[m + i] = q[n + (m + i)]
    BY <1>1, <1>3, <2>1
  <2>3. v[i] = q[n + m + i]
    BY <1>4, <1>5
  <2> QED BY <2>1, <2>2, <2>3
<1> QED BY <1>3, <1>4, <1>5, <1>6, SeqEqual DEF p, u, v

\* The rest of two strings one behind the other.
LEMMA RestOfBoth ==
  ASSUME NEW c \in Seq(Byte), NEW s \in Seq(Byte), NEW n \in 0..Len(c)
  PROVE  Rest(c \o s, n) = Rest(c, n) \o s
<1> DEFINE q == c \o s
           r == Rest(c, n)
           u == Rest(q, n)
           v == r \o s
<1>1. q \in Seq(Byte) /\ Len(q) = Len(c) + Len(s)
      /\ \A i \in 1..Len(c) + Len(s) : q[i] = IF i <= Len(c) THEN c[i] ELSE s[i - Len(c)]
  BY ConcatProperties
<1>2. r \in Seq(Byte) /\ Len(r) = Len(c) - n /\ \A i \in 1..Len(r) : r[i] = c[n + i]
  BY RestIs
<1> HIDE DEF q, r
<1>3. v \in Seq(Byte) /\ Len(v) = Len(r) + Len(s)
      /\ \A i \in 1..Len(r) + Len(s) : v[i] = IF i <= Len(r) THEN r[i] ELSE s[i - Len(r)]
  BY <1>2, ConcatProperties
<1>4. n \in 0..Len(q)
  BY <1>1
<1>5. u \in Seq(Byte) /\ Len(u) = Len(q) - n /\ \A i \in 1..Len(u) : u[i] = q[n + i]
  BY <1>1, <1>4, RestIs
<1> HIDE DEF u, v
<1>6. Len(u) = Len(v) /\ Len(c) \in Nat /\ Len(s) \in Nat
  BY <1>1, <1>2, <1>3, <1>5
<1>7. ASSUME NEW i \in 1..Len(u) PROVE u[i] = v[i]
  <2>1. n + i \in 1..Len(c) + Len(s) /\ i \in 1..Len(r) + Len(s) /\ i \in Nat
    BY <1>1, <1>3, <1>5, <1>6
  <2>2. CASE i <= Len(r)
    <3>1. n + i <= Len(c) /\ i \in 1..Len(r)
      BY <1>2, <1>6, <2>1, <2>2
    <3>2. u[i] = q[n + i] /\ q[n + i] = c[n + i]
      BY <1>1, <1>5, <2>1, <3>1
    <3>3. v[i] = r[i] /\ r[i] = c[n + i]
      BY <1>2, <1>3, <2>1, <2>2, <3>1
    <3> QED BY <3>2, <3>3
  <2>3. CASE ~(i <= Len(r))
    <3>1. ~(n + i <= Len(c)) /\ n + i - Len(c) = i - Len(r)
      BY <1>2, <1>6, <2>1, <2>3
    <3>2. u[i] = s[n + i - Len(c)]
      BY <1>1, <1>5, <2>1, <3>1
    <3>3. v[i] = s[i - Len(r)]
      BY <1>3, <2>1, <2>3
    <3> QED BY <3>1, <3>2, <3>3
  <2> QED BY <2>2, <2>3
<1> QED BY <1>3, <1>5, <1>6, <1>7, SeqEqual DEF q, r, u, v

-----------------------------------------------------------------------------
(* The decoder, from an offset on and when more has arrived.               *)

\* What the decoder finds in the rest of a string of bytes.
LEMMA DecodeRest ==
  ASSUME NEW q \in Seq(Byte), NEW n \in 0..Len(q), NEW g, IsDecoder(q, g)
  PROVE  LET d == decode_packet(Rest(q, n))
         IN  g[n] = [consume_len |-> n + d.consume_len, pack |-> d.pack]
<1> DEFINE p == Rest(q, n)
<1>1. p \in Seq(Byte) /\ Len(p) = Len(q) - n /\ Window(p, q, n)
  BY RestIs DEF Window
<1> HIDE DEF p
<1>2. PICK f : IsDecoder(p, f) /\ decode_packet(p) = f[0]
  BY <1>1, DecoderExists
<1>3. /\ n + 0 = n /\ 0 \in 0..Len(p) /\ n \in Nat
  BY <1>1
<1>4. IF f[0].pack = Null THEN g[n + 0] = g[n + f[0].consume_len]
      ELSE g[n + 0] = [consume_len |-> n + f[0].consume_len, pack |-> f[0].pack]
  BY <1>1, <1>2, <1>3, DecoderInWindow
<1>5. CASE f[0].pack # Null
  BY <1>2, <1>3, <1>4, <1>5 DEF p
<1>6. CASE f[0].pack = Null
  <2>1. Result(p, 0, f[0])
    BY <1>1, <1>2, <1>3, DecoderResult
  <2>2. PICK s \in 0..Len(p) : /\ s = Len(p) \/ p[s + 1] = Flag
                               /\ \/ Stops(p, s) /\ f[0] = NeedsMore(s)
                                  \/ Finds(p, s) /\ f[0] = Found(p, s)
    BY <2>1 DEF Result
  <2>3. Stops(p, s) /\ f[0] = NeedsMore(s)
    BY <1>1, <1>6, <2>2, FindsWhole
  <2>4. IsFlagFrom(p, s, s)
    BY <1>1, <2>2 DEF IsFlagFrom
  <2>5. s = ToFlag(p, s)
    BY <1>1, <2>2, <2>4, FlagFound
  <2>6. ToFlag(q, n + s) = n + s
    <3>1. n + Len(p) = Len(q)
      BY <1>1
    <3> QED BY <1>1, <1>3, <2>2, <2>5, <3>1, SameFlag
  <2>7. Stops(q, n + s)
    <3>1. Len(q) - (n + s) = Len(p) - s
      BY <1>1, <2>2
    <3>2. Len(p) - s >= header_length =>
            /\ CrcMatches(q, n + s) <=> CrcMatches(p, s)
            /\ BodyLen(q, n + s) = BodyLen(p, s)
      BY <1>1, <1>3, <2>2, SameHeader
    <3> QED BY <2>3, <3>1, <3>2 DEF Stops
  <2>8. g[n + s] = NeedsMore(n + s)
    <3>1. n + s \in 0..Len(q)
      BY <1>1, <2>2
    <3>2. g[n + s] = DecodeFrom(q, g, n + s)
      BY <3>1 DEF IsDecoder
    <3> QED BY <2>6, <2>7, <3>1, <3>2, DecodeStep
  <2>9. f[0].consume_len = s
    BY <2>3 DEF NeedsMore
  <2>10. g[n] = NeedsMore(n + s)
    BY <1>3, <1>4, <1>6, <2>8, <2>9
  <2> QED BY <1>2, <1>6, <2>9, <2>10 DEF NeedsMore, p
<1> QED BY <1>5, <1>6

\* Where there is no packet yet, what arrives later lets the decoder go on where it
\* stopped.
LEMMA StoppedGoesOn ==
  ASSUME NEW c \in Seq(Byte), NEW more \in Seq(Byte), decode_packet(c).pack = Null
  PROVE  LET n == decode_packet(c).consume_len
             q == c \o more
             d == decode_packet(Rest(q, n))
         IN  decode_packet(q) = [consume_len |-> n + d.consume_len, pack |-> d.pack]
<1> DEFINE q == c \o more
           d == decode_packet(c)
           n == d.consume_len
<1>1. q \in Seq(Byte) /\ Window(c, q, 0) /\ Len(c) <= Len(q)
  BY ConcatProperties DEF Window
<1>2. n \in 0..Len(c) /\ d.pack = Null
  BY DecodeResult
<1> HIDE DEF q, d
<1>3. PICK g : IsDecoder(q, g) /\ decode_packet(q) = g[0]
  BY <1>1, DecoderExists
<1>4. g[0] = g[n]
  <2>1. d = decode_packet(c) /\ q \in Seq(Byte) /\ Window(c, q, 0)
    BY <1>1 DEF d
  <2>2. /\ d.pack = Null => g[0] = g[d.consume_len]
        /\ d.pack # Null => g[0] = [consume_len |-> d.consume_len, pack |-> d.pack]
    BY <1>3, <2>1, DecoderOnPrefix
  <2> QED BY <1>2, <2>2
<1>5. n \in 0..Len(q)
  BY <1>1, <1>2
<1> HIDE DEF n
<1>6. LET e == decode_packet(Rest(q, n))
      IN  g[n] = [consume_len |-> n + e.consume_len, pack |-> e.pack]
  BY <1>1, <1>3, <1>5, DecodeRest
<1> QED BY <1>3, <1>4, <1>6 DEF q, d, n

-----------------------------------------------------------------------------
(* The packets in a string of bytes.                                       *)

\* f is what there is from each offset on.
IsParse(buf, f) == f = [k \in 0..Len(buf) |-> PacketsFrom(buf, f, k)]

\* The step at an offset goes forward.
LEMMA ParseStep ==
  ASSUME NEW buf \in Seq(Byte), NEW k \in 0..Len(buf)
  PROVE  LET d == decode_packet(Rest(buf, k))
         IN  /\ d.pack # Null => /\ k + d.consume_len \in (k + 1)..Len(buf)
                                 /\ d.pack \in Given
             /\ d.consume_len \in 0..(Len(buf) - k)
<1> DEFINE r == Rest(buf, k)
           d == decode_packet(r)
<1>1. r \in Seq(Byte) /\ Len(r) = Len(buf) - k
  BY RestIs
<1>2. d.consume_len \in 0..Len(r) /\ (d.pack # Null => d.pack \in Given /\ d.consume_len > 0)
  <2> HIDE DEF r
  <2> QED BY <1>1, DecodeResult
<1> HIDE DEF d, r
<1> QED BY <1>1, <1>2 DEF d, r

\* The recursion of Packets ends.
LEMMA ParseExists ==
  ASSUME NEW buf \in Seq(Byte)
  PROVE  \E f : IsParse(buf, f) /\ Packets(buf) = f[0]
<1> DEFINE L == Len(buf)
           IsFrom(n, g) == g = [k \in n..L |-> PacketsFrom(buf, g, k)]
           S == {n \in 0..(L + 1) : \E g : IsFrom(n, g)}
<1>1. L \in Nat
  OBVIOUS
<1>2. L + 1 \in S
  <2> DEFINE g == [k \in (L + 1)..L |-> PacketsFrom(buf, <<>>, k)]
  <2>1. (L + 1)..L = {}
    BY <1>1
  <2>2. g = [k \in (L + 1)..L |-> PacketsFrom(buf, g, k)]
    BY <2>1
  <2> HIDE DEF g
  <2> QED BY <1>1, <2>2
<1>3. S \in SUBSET Nat
  BY <1>1
<1>4. PICK n \in S : \A m \in S : n <= m
  <2> HIDE DEF S
  <2> QED BY <1>2, <1>3, Least
<1>5. n = 0
  <2> SUFFICES ASSUME n # 0 PROVE FALSE
    OBVIOUS
  <2>1. PICK g : IsFrom(n, g)
    BY <1>4
  <2> DEFINE p == n - 1
             f == [k \in p..L |-> IF k = p THEN PacketsFrom(buf, g, p) ELSE g[k]]
  <2>2. p \in 0..L /\ n = p + 1 /\ p < n
    BY <1>1, <1>4
  <2>3. ASSUME NEW k \in p..L PROVE PacketsFrom(buf, f, k) = PacketsFrom(buf, g, k)
    <3> DEFINE d == decode_packet(Rest(buf, k))
               j == k + d.consume_len
    <3>1. k \in 0..L
      BY <2>2
    <3>2. \A h : PacketsFrom(buf, h, k) = IF d.pack = Null THEN <<>> ELSE <<d.pack>> \o h[j]
      BY DEF PacketsFrom
    <3>3. ASSUME d.pack # Null PROVE f[j] = g[j]
      <4>1. j \in (k + 1)..L
        BY <3>1, <3>3, ParseStep
      <4> HIDE DEF j
      <4>2. j \in p..L /\ j # p
        BY <2>2, <4>1
      <4> QED BY <4>2
    <3> HIDE DEF f, d, j
    <3> QED BY <3>2, <3>3
  <2>4. ASSUME NEW k \in p..L PROVE f[k] = PacketsFrom(buf, f, k)
    <3>1. CASE k = p
      BY <2>3, <3>1
    <3>2. CASE k # p
      <4>1. k \in n..L
        BY <2>2, <3>2
      <4>2. g[k] = PacketsFrom(buf, g, k)
        BY <2>1, <4>1
      <4> QED BY <2>3, <3>2, <4>2
    <3> QED BY <3>1, <3>2
  <2>5. f = [k \in p..L |-> PacketsFrom(buf, f, k)]
    <3>1. f = [k \in p..L |-> f[k]]
      OBVIOUS
    <3> HIDE DEF f
    <3> QED BY <2>4, <3>1
  <2> HIDE DEF f
  <2>6. p \in S
    BY <1>1, <2>2, <2>5
  <2> QED BY <1>4, <2>2, <2>6
<1>6. \E f : IsParse(buf, f)
  BY <1>4, <1>5 DEF IsParse
<1> DEFINE f == CHOOSE f : IsParse(buf, f)
<1>7. IsParse(buf, f)
  BY <1>6
<1>8. Packets(buf) = f[0]
  BY Zenon DEF Packets, IsParse
<1> QED BY <1>7, <1>8

\* What there is from an offset on, in terms of the step.
LEMMA ParsedFrom ==
  ASSUME NEW buf \in Seq(Byte), NEW f, IsParse(buf, f), NEW k \in 0..Len(buf),
         NEW d, d = decode_packet(Rest(buf, k))
  PROVE  /\ d.pack = Null => f[k] = <<>>
         /\ d.pack # Null => f[k] = <<d.pack>> \o f[k + d.consume_len]
<1>1. f[k] = PacketsFrom(buf, f, k)
  BY DEF IsParse
<1> QED BY <1>1 DEF PacketsFrom

\* Packets are strings of bytes.
LEMMA ParsedType ==
  ASSUME NEW buf \in Seq(Byte), NEW f, IsParse(buf, f)
  PROVE  \A k \in 0..Len(buf) : f[k] \in Seq(Given)
<1> DEFINE L == Len(buf)
           good == {k \in 0..L : f[k] \in Seq(Given)}
<1>1. L \in Nat
  OBVIOUS
<1>2. ASSUME NEW k \in 0..L, \A j \in (k + 1)..L : j \in good PROVE k \in good
  <2> DEFINE d == decode_packet(Rest(buf, k))
             j == k + d.consume_len
  <2>1. /\ d.pack = Null => f[k] = <<>>
        /\ d.pack # Null => f[k] = <<d.pack>> \o f[j]
    BY ParsedFrom
  <2>2. d.pack # Null => j \in (k + 1)..L /\ d.pack \in Given
    BY ParseStep
  <2> HIDE DEF d, j
  <2>3. CASE d.pack = Null
    <3>1. <<>> \in Seq(Given)
      BY EmptySeq
    <3> QED BY <2>1, <2>3, <3>1
  <2>4. CASE d.pack # Null
    <3>1. f[j] \in Seq(Given) /\ <<d.pack>> \in Seq(Given)
      BY <1>2, <2>2, <2>4
    <3>2. <<d.pack>> \o f[j] \in Seq(Given)
      BY <3>1, ConcatProperties
    <3> QED BY <2>1, <2>4, <3>2
  <2> QED BY <2>3, <2>4
<1> HIDE DEF good
<1>3. \A k \in 0..L : k \in good
  BY <1>1, <1>2, Backward
<1> QED BY <1>3 DEF good

\* The packets of a rest are what there is from its offset on.
LEMMA ParsedRest ==
  ASSUME NEW q \in Seq(Byte), NEW n \in 0..Len(q), NEW g, IsParse(q, g)
  PROVE  Packets(Rest(q, n)) = g[n]
<1> DEFINE p == Rest(q, n)
           L == Len(p)
<1>1. p \in Seq(Byte) /\ L = Len(q) - n /\ L \in Nat
  BY RestIs
<1>2. PICK f : IsParse(p, f) /\ Packets(p) = f[0]
  BY <1>1, ParseExists
<1>3. \A k \in 0..L : Rest(p, k) = Rest(q, n + k)
  BY <1>1, RestOfRest
<1> DEFINE good == {k \in 0..L : f[k] = g[n + k]}
<1>4. ASSUME NEW k \in 0..L, \A j \in (k + 1)..L : j \in good PROVE k \in good
  <2> DEFINE d == decode_packet(Rest(q, n + k))
             i == n + k
             j == k + d.consume_len
  <2> HIDE DEF L, p
  <2>1. i \in 0..Len(q) /\ d = decode_packet(Rest(p, k))
    BY <1>1, <1>3
  <2>2. k \in 0..Len(p)
    BY DEF L
  <2> HIDE DEF d
  <2>3. /\ d.pack = Null => f[k] = <<>>
        /\ d.pack # Null => f[k] = <<d.pack>> \o f[j]
    BY <1>1, <1>2, <2>1, <2>2, ParsedFrom
  <2>4. d = decode_packet(Rest(q, i))
    BY DEF d
  <2>5. d.pack # Null => j \in (k + 1)..L
    BY <1>1, <2>1, <2>2, ParseStep DEF L
  <2>6. d.consume_len \in Nat
    <3>1. d.consume_len \in 0..(Len(p) - k)
      BY <1>1, <2>1, <2>2, ParseStep
    <3> QED BY <3>1
  <2>7. i + d.consume_len = n + j
    BY <2>6
  <2> HIDE DEF i, j
  <2>8. /\ d.pack = Null => g[i] = <<>>
        /\ d.pack # Null => g[i] = <<d.pack>> \o g[i + d.consume_len]
    BY <2>1, <2>4, ParsedFrom
  <2>9. d.pack # Null => f[j] = g[n + j]
    BY <1>4, <2>5
  <2>10. f[k] = g[i]
    BY <2>3, <2>7, <2>8, <2>9
  <2> QED BY <2>10 DEF i
<1> HIDE DEF good
<1>5. \A k \in 0..L : k \in good
  <2> HIDE DEF L
  <2> QED BY <1>1, <1>4, Backward
<1>6. f[0] = g[n + 0] /\ n + 0 = n
  BY <1>1, <1>5 DEF good
<1> QED BY <1>2, <1>6

\* The packets of a string of bytes: the first, and those of what is behind it.
LEMMA PacketsAre ==
  ASSUME NEW q \in Seq(Byte), NEW d, d = decode_packet(q)
  PROVE  /\ Packets(q) \in Seq(Given)
         /\ d.pack = Null => Packets(q) = <<>>
         /\ d.pack # Null => Packets(q) = <<d.pack>> \o Packets(Rest(q, d.consume_len))
<1>1. PICK g : IsParse(q, g) /\ Packets(q) = g[0]
  BY ParseExists
<1>2. 0 \in 0..Len(q) /\ Rest(q, 0) = q
  BY RestOfAll
<1>3. d = decode_packet(Rest(q, 0))
  BY <1>2
<1>4. g[0] \in Seq(Given)
  BY <1>1, <1>2, ParsedType
<1>5. /\ d.pack = Null => g[0] = <<>>
      /\ d.pack # Null => g[0] = <<d.pack>> \o g[0 + d.consume_len]
  BY <1>1, <1>2, <1>3, ParsedFrom
<1>6. d.consume_len \in 0..Len(q) /\ 0 + d.consume_len = d.consume_len
  BY DecodeResult
<1>7. g[d.consume_len] = Packets(Rest(q, d.consume_len))
  <2> DEFINE n == d.consume_len
  <2>1. n \in 0..Len(q)
    BY <1>6
  <2> HIDE DEF n
  <2>2. Packets(Rest(q, n)) = g[n]
    BY <1>1, <2>1, ParsedRest
  <2> QED BY <2>2 DEF n
<1> QED BY <1>1, <1>4, <1>5, <1>6, <1>7

\* Decoding some of what is there, with or without what comes later, makes no
\* difference to the packets.
LEMMA DecodedSoFar ==
  ASSUME NEW c \in Seq(Byte), NEW more \in Seq(Byte), NEW d, d = decode_packet(c)
  PROVE  LET later == Packets(Rest(c, d.consume_len) \o more)
         IN  Packets(c \o more) = IF d.pack = Null THEN later ELSE <<d.pack>> \o later
<1> DEFINE q == c \o more
           n == d.consume_len
           e == decode_packet(q)
<1>1. q \in Seq(Byte) /\ Len(q) = Len(c) + Len(more)
  BY ConcatProperties
<1>2. n \in 0..Len(c) /\ n \in 0..Len(q)
  BY <1>1, DecodeResult
<1>3. Rest(q, n) = Rest(c, n) \o more
  <2> HIDE DEF n
  <2> QED BY <1>2, RestOfBoth
<1>4. /\ e.pack = Null => Packets(q) = <<>>
      /\ e.pack # Null => Packets(q) = <<e.pack>> \o Packets(Rest(q, e.consume_len))
  <2> HIDE DEF q
  <2> QED BY <1>1, PacketsAre
<1>5. CASE d.pack # Null
  <2>1. e = [consume_len |-> n, pack |-> d.pack]
    BY <1>5, FoundStays
  <2>2. e.pack = d.pack /\ e.consume_len = n
    <3> HIDE DEF e, n
    <3> QED BY <2>1
  <2>3. Packets(q) = <<d.pack>> \o Packets(Rest(q, n))
    <3> HIDE DEF e, q, n
    <3> QED BY <1>4, <1>5, <2>2
  <2> QED BY <1>3, <1>5, <2>3
<1>6. CASE d.pack = Null
  <2> DEFINE r == Rest(q, n)
             x == decode_packet(r)
             m == x.consume_len
  <2>1. e = [consume_len |-> n + m, pack |-> x.pack]
    BY <1>6, StoppedGoesOn
  <2>2. r \in Seq(Byte) /\ Len(r) = Len(q) - n
    <3> HIDE DEF q, n
    <3> QED BY <1>1, <1>2, RestIs
  <2>3. /\ x.pack = Null => Packets(r) = <<>>
        /\ x.pack # Null => Packets(r) = <<x.pack>> \o Packets(Rest(r, m))
    <3> HIDE DEF r
    <3> QED BY <2>2, PacketsAre
  <2>4. m \in 0..(Len(q) - n)
    <3> HIDE DEF r
    <3> QED BY <2>2, DecodeResult
  <2>5. Rest(r, m) = Rest(q, n + m)
    <3> HIDE DEF m, n, q
    <3> QED BY <1>1, <1>2, <2>4, RestOfRest
  <2>6. Packets(q) = Packets(r)
    <3>1. e.pack = x.pack /\ e.consume_len = n + m
      <4> HIDE DEF e, x, m, n
      <4> QED BY <2>1
    <3> HIDE DEF q, n, r, x, e, m
    <3>2. CASE x.pack = Null
      BY <1>4, <2>3, <3>1, <3>2
    <3>3. CASE x.pack # Null
      BY <1>4, <2>3, <2>5, <3>1, <3>3
    <3> QED BY <3>2, <3>3
  <2> QED BY <1>3, <1>6, <2>6
<1> QED BY <1>5, <1>6

-----------------------------------------------------------------------------
(* Frames.                                                                 *)

\* The value after i bytes of the check sum.
CrcStep(data, f, i) ==
  IF i = 0 THEN 119 % Base ELSE crc8_table[xor(f[i - 1], data[i])]
IsCrc(data, n, f) == f = [i \in 0..n |-> CrcStep(data, f, i)]

\* The check sum of bytes is a byte.
LEMMA CrcType ==
  ASSUME NEW data \in Seq(Byte)
  PROVE  calc_crc8(data) \in Byte
<1> DEFINE L == Len(data)
           bad == {n \in 0..L : ~\E f : IsCrc(data, n, f)}
<1>1. L \in Nat
  OBVIOUS
<1>2. ASSUME bad # {} PROVE FALSE
  <2>1. PICK n \in bad : \A m \in bad : n <= m
    <3>1. bad \in SUBSET Nat
      BY <1>1
    <3> HIDE DEF bad
    <3> QED BY <1>2, <3>1, Least
  <2>2. n # 0
    <3> DEFINE g == [i \in 0..0 |-> 119 % Base]
    <3>1. \A h : \A i \in 0..0 : CrcStep(data, h, i) = 119 % Base
      BY DEF CrcStep
    <3>2. IsCrc(data, 0, g)
      BY <3>1 DEF IsCrc
    <3> QED BY <2>1, <3>2
  <2> DEFINE p == n - 1
  <2>3. p \in 0..L /\ n \in 0..L /\ n = p + 1 /\ p < n
    BY <1>1, <2>1, <2>2
  <2>4. PICK g : IsCrc(data, p, g)
    BY <2>1, <2>3
  <2> DEFINE f == [i \in 0..n |-> IF i = n THEN CrcStep(data, g, n) ELSE g[i]]
  <2>5. ASSUME NEW i \in 0..n PROVE CrcStep(data, f, i) = CrcStep(data, g, i)
    <3>1. i # 0 => f[i - 1] = g[i - 1]
      BY <2>3
    <3> HIDE DEF f
    <3> QED BY <3>1 DEF CrcStep
  <2>6. ASSUME NEW i \in 0..n PROVE f[i] = CrcStep(data, f, i)
    <3>1. CASE i = n
      BY <2>5, <3>1
    <3>2. CASE i # n
      <4>1. i \in 0..p
        BY <2>3, <3>2
      <4>2. g[i] = CrcStep(data, g, i)
        BY <2>4, <4>1 DEF IsCrc
      <4> QED BY <2>5, <3>2, <4>2
    <3> QED BY <3>1, <3>2
  <2>7. IsCrc(data, n, f)
    <3>1. f = [i \in 0..n |-> f[i]]
      OBVIOUS
    <3> HIDE DEF f
    <3> QED BY <2>6, <3>1 DEF IsCrc
  <2> HIDE DEF f
  <2> QED BY <2>1, <2>7
<1>3. \E f : IsCrc(data, L, f)
  BY <1>1, <1>2
<1> DEFINE f == CHOOSE f : IsCrc(data, L, f)
<1>4. IsCrc(data, L, f)
  BY <1>3
<1>5. calc_crc8(data) = f[L]
  BY Zenon DEF calc_crc8, IsCrc, CrcStep
<1> HIDE DEF f
<1> DEFINE off == {i \in 0..L : f[i] \notin Byte}
<1>6. ASSUME off # {} PROVE FALSE
  <2>1. PICK n \in off : \A m \in off : n <= m
    <3>1. off \in SUBSET Nat
      BY <1>1
    <3> HIDE DEF off
    <3> QED BY <1>6, <3>1, Least
  <2>2. f[n] = CrcStep(data, f, n)
    BY <1>4, <2>1 DEF IsCrc
  <2>3. 119 % Base \in Byte
    <3>1. PICK b \in Nat \ {0} : b = Base
      BY PathAssumption
    <3>2. 119 % b \in 0..(b - 1)
      OBVIOUS
    <3> QED BY <3>1, <3>2, PathAssumption
  <2>4. n # 0
    BY <2>1, <2>2, <2>3 DEF CrcStep
  <2>5. n - 1 \in 0..L /\ ~(n <= n - 1) /\ n \in 1..L
    BY <1>1, <2>1, <2>4
  <2>6. f[n - 1] \in Byte /\ data[n] \in Byte
    BY <2>1, <2>5
  <2>7. crc8_table[xor(f[n - 1], data[n])] \in Byte
    BY <2>6, PathAssumption
  <2> QED BY <2>1, <2>2, <2>4, <2>7 DEF CrcStep
<1> QED BY <1>1, <1>5, <1>6

\* A number that fits the field of the length, as two bytes and back.
LEMMA TwoBytes ==
  ASSUME NEW x \in Nat, x < Base * Base
  PROVE  /\ x \div Base \in Byte /\ x % Base \in Byte
         /\ (x \div Base) * Base + (x % Base) = x
<1> DEFINE q == x \div Base
           r == x % Base
<1>1. PICK b \in Nat \ {0} : b = Base
  BY PathAssumption
<1>2. q \in Nat /\ r \in 0..(b - 1) /\ x = b * q + r
  <2>1. x \div b \in Nat /\ x % b \in 0..(b - 1) /\ x = b * (x \div b) + (x % b)
    OBVIOUS
  <2> QED BY <1>1, <2>1
<1> HIDE DEF q, r
<1>3. q < b
  <2> SUFFICES ASSUME ~(q < b) PROVE FALSE
    OBVIOUS
  <2>1. b * q >= b * b
    BY <1>2
  <2>2. x < b * b
    BY <1>1
  <2> QED BY <1>2, <2>1, <2>2
<1>4. q * b = b * q
  BY <1>2
<1> QED BY <1>1, <1>2, <1>3, <1>4, PathAssumption DEF q, r

\* A tuple of bytes, and one behind it.
LEMMA Joined == \A a, b, c, d, e \in Byte : <<a, b, c, d>> \o <<e>> = <<a, b, c, d, e>>
<1> SUFFICES ASSUME NEW a \in Byte, NEW b \in Byte, NEW c \in Byte, NEW d \in Byte,
                    NEW e \in Byte
             PROVE  <<a, b, c, d>> \o <<e>> = <<a, b, c, d, e>>
  OBVIOUS
<1> DEFINE u == <<a, b, c, d>>
           v == <<e>>
           w == <<a, b, c, d, e>>
<1>1. u \in Seq(Byte) /\ v \in Seq(Byte) /\ w \in Seq(Byte)
  OBVIOUS
<1>2. Len(u) = 4 /\ Len(v) = 1 /\ Len(w) = 5
  OBVIOUS
<1>3. /\ u[1] = a /\ u[2] = b /\ u[3] = c /\ u[4] = d
      /\ v[1] = e /\ w[1] = a /\ w[2] = b /\ w[3] = c /\ w[4] = d /\ w[5] = e
  OBVIOUS
<1> HIDE DEF u, v, w
<1>4. /\ u \o v \in Seq(Byte) /\ Len(u \o v) = 5
      /\ \A i \in 1..5 : (u \o v)[i] = IF i <= 4 THEN u[i] ELSE v[i - 4]
  <2>1. /\ u \o v \in Seq(Byte) /\ Len(u \o v) = Len(u) + Len(v)
        /\ \A i \in 1..Len(u) + Len(v) :
             (u \o v)[i] = IF i <= Len(u) THEN u[i] ELSE v[i - Len(u)]
    BY <1>1, ConcatProperties
  <2> QED BY <1>2, <2>1
<1>5. \A i \in 1..5 : (u \o v)[i] = w[i]
  BY <1>3, <1>4, SMTT(30)
<1>6. u \o v = w
  BY <1>1, <1>2, <1>4, <1>5, SeqEqual
<1> QED BY <1>6 DEF u, v, w

\* Two bytes, and two behind them.
LEMMA JoinedTwo == \A a, b, c, d \in Byte : <<a, b>> \o <<c, d>> = <<a, b, c, d>>
<1> SUFFICES ASSUME NEW a \in Byte, NEW b \in Byte, NEW c \in Byte, NEW d \in Byte
             PROVE  <<a, b>> \o <<c, d>> = <<a, b, c, d>>
  OBVIOUS
<1> DEFINE u == <<a, b>>
           v == <<c, d>>
           w == <<a, b, c, d>>
<1>1. u \in Seq(Byte) /\ v \in Seq(Byte) /\ w \in Seq(Byte)
  OBVIOUS
<1>2. Len(u) = 2 /\ Len(v) = 2 /\ Len(w) = 4
  OBVIOUS
<1>3. /\ u[1] = a /\ u[2] = b /\ v[1] = c /\ v[2] = d
      /\ w[1] = a /\ w[2] = b /\ w[3] = c /\ w[4] = d
  OBVIOUS
<1> HIDE DEF u, v, w
<1>4. /\ u \o v \in Seq(Byte) /\ Len(u \o v) = 4
      /\ \A i \in 1..4 : (u \o v)[i] = IF i <= 2 THEN u[i] ELSE v[i - 2]
  <2>1. /\ u \o v \in Seq(Byte) /\ Len(u \o v) = Len(u) + Len(v)
        /\ \A i \in 1..Len(u) + Len(v) :
             (u \o v)[i] = IF i <= Len(u) THEN u[i] ELSE v[i - Len(u)]
    BY <1>1, ConcatProperties
  <2> QED BY <1>2, <2>1
<1>5. \A i \in 1..4 : (u \o v)[i] = w[i]
  BY <1>3, <1>4, SMTT(30)
<1>6. u \o v = w
  BY <1>1, <1>2, <1>4, <1>5, SeqEqual
<1> QED BY <1>6 DEF u, v, w

\* The two bytes of a length, and the header they stand in.
HeadOf(body) == <<Flag, 0>> \o host_to_network_32(Len(body))

\* A frame: its flag, its length, the check sum of these, and the body.
LEMMA FrameIs ==
  ASSUME NEW body \in Seq(Byte), Len(body) < Base * Base
  PROVE  LET f == encode_packet(body)
         IN  /\ f \in Seq(Byte) /\ Len(f) = header_length + Len(body)
             /\ f[1] = Flag /\ f[2] = 0
             /\ SubSeq(f, 1, 4) = HeadOf(body) /\ f[5] = calc_crc8(HeadOf(body))
             /\ network_to_host_32(SubSeq(f, 3, 4)) = Len(body)
             /\ SubSeq(f, header_length + 1, header_length + Len(body)) = body
<1> DEFINE n == Len(body)
           x == n \div Base
           y == n % Base
           crc == calc_crc8(HeadOf(body))
           h == <<Flag, 0, x, y>>
           g == <<Flag, 0, x, y, crc>>
           f == encode_packet(body)
<1>1. n \in Nat /\ x \in Byte /\ y \in Byte /\ x * Base + y = n /\ Flag \in Byte /\ 0 \in Byte
  <2>1. n \in Nat /\ n < Base * Base
    OBVIOUS
  <2>2. 0 \in Byte
    BY PathAssumption
  <2> HIDE DEF n
  <2> QED BY <2>1, <2>2, TwoBytes, PathAssumption
<1>2. HeadOf(body) = <<Flag, 0>> \o <<x, y>>
  BY DEF HeadOf, host_to_network_32
<1> HIDE DEF x, y
<1>2a. HeadOf(body) = h
  BY <1>1, <1>2, JoinedTwo, ZenonT(30)
<1>3. h \in Seq(Byte)
  BY <1>1
<1>4. crc \in Byte
  BY <1>2a, <1>3, CrcType
<1> HIDE DEF crc
<1>5. HeadOf(body) \o <<crc>> = g
  <2>1. <<Flag, 0, x, y>> \o <<crc>> = <<Flag, 0, x, y, crc>>
    <3>1. PICK zero \in Byte : zero = 0
      BY <1>1
    <3>2. \A b, c, d, e \in Byte : <<Flag, b, c, d>> \o <<e>> = <<Flag, b, c, d, e>>
      BY ONLY <1>1, Joined, ZenonT(30)
    <3>3. \A c, d, e \in Byte : <<Flag, zero, c, d>> \o <<e>> = <<Flag, zero, c, d, e>>
      BY ONLY <3>1, <3>2, ZenonT(30)
    <3>4. \A d, e \in Byte : <<Flag, zero, x, d>> \o <<e>> = <<Flag, zero, x, d, e>>
      BY ONLY <1>1, <3>3, ZenonT(30)
    <3>5. <<Flag, zero, x, y>> \o <<crc>> = <<Flag, zero, x, y, crc>>
      BY ONLY <1>1, <1>4, <3>4, ZenonT(30)
    <3> QED BY <3>1, <3>5
  <2> QED BY <1>2a, <2>1
<1>6. f = g \o body
  <2>1. f = HeadOf(body) \o <<crc>> \o body
    BY Zenon DEF encode_packet, HeadOf, crc
  <2> QED BY <1>5, <2>1
<1>7. /\ g \in Seq(Byte) /\ Len(g) = 5
      /\ g[1] = Flag /\ g[2] = 0 /\ g[3] = x /\ g[4] = y /\ g[5] = crc
  BY <1>1, <1>4
<1> HIDE DEF f, g, h
<1>8. /\ f \in Seq(Byte) /\ Len(f) = 5 + n
      /\ \A i \in 1..(5 + n) : f[i] = IF i <= 5 THEN g[i] ELSE body[i - 5]
  <2>1. /\ f \in Seq(Byte) /\ Len(f) = Len(g) + Len(body)
        /\ \A i \in 1..Len(g) + Len(body) : f[i] = IF i <= Len(g) THEN g[i] ELSE body[i - Len(g)]
    BY <1>6, <1>7, ConcatProperties
  <2> QED BY <1>7, <2>1
<1> HIDE DEF n
<1>9. f[1] = Flag /\ f[2] = 0 /\ f[3] = x /\ f[4] = y /\ f[5] = crc
  <2>1. /\ 1 \in 1..(5 + n) /\ 2 \in 1..(5 + n) /\ 3 \in 1..(5 + n)
        /\ 4 \in 1..(5 + n) /\ 5 \in 1..(5 + n)
    BY <1>1
  <2> QED BY <1>7, <1>8, <2>1
<1>10. SubSeq(f, 1, 4) = HeadOf(body)
  <2> DEFINE u == SubSeq(f, 1, 4)
  <2>1. 1 \in Nat /\ 4 \in Nat /\ 1 >= 1 /\ 4 <= Len(f)
    BY <1>1, <1>8
  <2>2. u \in Seq(Byte) /\ Len(u) = 4 /\ \A i \in 1..4 : u[i] = f[i]
    BY <1>8, <2>1, PartOf
  <2>3. Len(h) = 4 /\ h[1] = Flag /\ h[2] = 0 /\ h[3] = x /\ h[4] = y
    BY DEF h
  <2> HIDE DEF u
  <2>4. \A i \in 1..4 : u[i] = h[i]
    BY <1>9, <2>2, <2>3
  <2>5. u = h
    BY <1>3, <2>2, <2>3, <2>4, SeqEqual
  <2> QED BY <1>2a, <2>5 DEF u
<1>11. network_to_host_32(SubSeq(f, 3, 4)) = n
  <2> DEFINE u == SubSeq(f, 3, 4)
  <2>1. 3 \in Nat /\ 4 \in Nat /\ 3 >= 1 /\ 4 <= Len(f)
    BY <1>1, <1>8
  <2>2. \A i \in 1..(4 - 3 + 1) : u[i] = f[3 + i - 1]
    BY <1>8, <2>1, PartOf
  <2>3. 1 \in 1..(4 - 3 + 1) /\ 2 \in 1..(4 - 3 + 1) /\ 3 + 1 - 1 = 3 /\ 3 + 2 - 1 = 4
    OBVIOUS
  <2> HIDE DEF u
  <2>4. u[1] = x /\ u[2] = y
    BY <1>9, <2>2, <2>3
  <2> QED BY <1>1, <2>4 DEF u, network_to_host_32
<1>12. SubSeq(f, 5 + 1, 5 + n) = body
  <2> DEFINE u == SubSeq(f, 5 + 1, 5 + n)
  <2>1. 5 + 1 \in Nat /\ 5 + n \in Nat /\ 5 + 1 >= 1 /\ 5 + n <= Len(f)
    BY <1>1, <1>8
  <2> DEFINE a == 5 + 1
             b == 5 + n
  <2> HIDE DEF a, b
  <2>2. /\ SubSeq(f, a, b) \in Seq(Byte)
        /\ Len(SubSeq(f, a, b)) = IF a <= b THEN b - a + 1 ELSE 0
        /\ \A i \in 1..(b - a + 1) : SubSeq(f, a, b)[i] = f[a + i - 1]
    BY <1>8, <2>1, PartOf DEF a, b
  <2>3. b - a + 1 = n /\ u \in Seq(Byte) /\ Len(u) = n
    BY <1>1, <2>2 DEF a, b
  <2>4. ASSUME NEW i \in 1..n PROVE u[i] = body[i]
    <3>1. a + i - 1 = 5 + i /\ 5 + i \in 1..(5 + n) /\ ~(5 + i <= 5) /\ 5 + i - 5 = i
      BY <1>1 DEF a
    <3>2. u[i] = f[5 + i]
      BY <2>2, <2>3, <3>1 DEF a, b
    <3> QED BY <1>8, <3>1, <3>2
  <2> HIDE DEF u
  <2> QED BY <2>2, <2>3, <2>4, SeqEqual DEF u, n
<1> QED BY <1>8, <1>9, <1>10, <1>11, <1>12 DEF n, f, crc, header_length

\* decode_packet returns what encode_packet made, whatever comes behind it.
THEOREM RoundTrip ==
  ASSUME NEW body \in Seq(Byte), Len(body) < Base * Base, ~TooLong(Len(body)),
         NEW more \in Seq(Byte)
  PROVE  decode_packet(encode_packet(body) \o more)
           = [consume_len |-> header_length + Len(body), pack |-> body]
<1> DEFINE f == encode_packet(body)
           n == Len(body)
<1>1. /\ f \in Seq(Byte) /\ Len(f) = header_length + n /\ f[1] = Flag /\ f[2] = 0
      /\ SubSeq(f, 1, 4) = HeadOf(body) /\ f[5] = calc_crc8(HeadOf(body))
      /\ network_to_host_32(SubSeq(f, 3, 4)) = n
      /\ SubSeq(f, header_length + 1, header_length + n) = body
  BY FrameIs
<1>2. n \in Nat
  OBVIOUS
<1> HIDE DEF f
<1>3. PICK g : IsDecoder(f, g) /\ decode_packet(f) = g[0]
  BY <1>1, DecoderExists
<1>4. 0 \in 0..Len(f) /\ IsFlagFrom(f, 0, 0)
  BY <1>1 DEF IsFlagFrom
<1>5. ToFlag(f, 0) = 0
  BY <1>1, <1>4, FlagFound
<1>6. CrcMatches(f, 0) /\ BodyLen(f, 0) = n
  <2>1. 0 + 1 = 1 /\ 0 + 3 = 3 /\ 0 + 4 = 4 /\ 0 + 5 = 5
    OBVIOUS
  <2> QED BY <1>1, <2>1 DEF CrcMatches, BodyLen
<1>7. Finds(f, 0) /\ ~Stops(f, 0)
  <2> HIDE DEF n
  <2>1. Len(f) - 0 >= header_length /\ ~(Len(f) - 0 < header_length)
        /\ ~(Len(f) - 0 < header_length + n) /\ ~TooLong(n)
    BY <1>1, <1>2 DEF n, header_length
  <2> QED BY <1>6, <2>1 DEF Finds, Stops
<1>8. g[0] = Found(f, 0)
  BY <1>1, <1>3, <1>4, <1>5, <1>7, DecodeStep DEF IsDecoder
<1>9. Found(f, 0) = [consume_len |-> header_length + n, pack |-> body]
  <2>1. 0 + header_length = header_length
    BY DEF header_length
  <2>2. ~Overruns(f, 0, n)
    <3>1. 0 + 2 = 2
      OBVIOUS
    <3> QED BY <1>1, <1>2, <3>1 DEF Overruns
  <2>3. PacketAt(f, 0, n) = body
    BY <1>1, <2>1, <2>2 DEF PacketAt
  <2> HIDE DEF n
  <2> QED BY <1>6, <2>1, <2>3 DEF Found
<1>10. decode_packet(f) = [consume_len |-> header_length + n, pack |-> body]
  BY <1>3, <1>8, <1>9
<1>11. decode_packet(f).pack # Null
  BY <1>10, PathAssumption
<1> QED BY <1>1, <1>10, <1>11, FoundStays DEF f

-----------------------------------------------------------------------------
(* The receive path.                                                       *)

Typed ==
  /\ unsent \in [Writers -> Seq(Byte)]
  /\ wire \in Seq(Byte) /\ stream \in Seq(Byte)
  /\ out \in Seq(Given)

\* Whatever arrives next, the packets that have come out and those that will are
\* the ones of all that was written.
NothingLost ==
  \A x \in Seq(Byte) : out \o Packets(Contents \o (stream \o x)) = Packets(wire \o x)

PathInv == BufferInv /\ Typed /\ LeftIsIncomplete /\ NothingLost

\* What is sent are bytes.
LEMMA PieceType == ASSUME NEW p \in Piece PROVE p.bytes \in Seq(Byte)
<1>1. ASSUME NEW b \in Bodies PROVE encode_packet(b) \in Seq(Byte)
  BY PathAssumption, FrameIs
<1>2. ASSUME NEW j \in Junk PROVE j \in Seq(Byte)
  BY PathAssumption
<1> QED BY <1>1, <1>2 DEF Piece, Frame, NoFrame

\* The two parts of a string of bytes.
LEMMA Parted ==
  ASSUME NEW q \in Seq(Byte), NEW n \in 0..Len(q)
  PROVE  SubSeq(q, 1, n) \in Seq(Byte) /\ SubSeq(q, 1, n) \o Rest(q, n) = q
<1> DEFINE u == SubSeq(q, 1, n)
           r == Rest(q, n)
<1>1. u \in Seq(Byte) /\ Len(u) = n /\ \A i \in 1..n : u[i] = q[i]
  <2>1. 1 \in Nat /\ n \in Nat /\ 1 >= 1 /\ n <= Len(q)
    OBVIOUS
  <2>2. /\ u \in Seq(Byte) /\ Len(u) = IF 1 <= n THEN n - 1 + 1 ELSE 0
        /\ \A i \in 1..(n - 1 + 1) : u[i] = q[1 + i - 1]
    BY <2>1, PartOf
  <2> HIDE DEF u
  <2>3. \A i \in 1..n : 1 + i - 1 = i
    OBVIOUS
  <2> QED BY <2>1, <2>2, <2>3
<1>2. r \in Seq(Byte) /\ Len(r) = Len(q) - n /\ \A i \in 1..Len(r) : r[i] = q[n + i]
  BY RestIs
<1> HIDE DEF u, r
<1>3. /\ u \o r \in Seq(Byte) /\ Len(u \o r) = Len(u) + Len(r)
      /\ \A i \in 1..Len(u) + Len(r) : (u \o r)[i] = IF i <= Len(u) THEN u[i] ELSE r[i - Len(u)]
  BY <1>1, <1>2, ConcatProperties
<1>4. Len(u \o r) = Len(q) /\ Len(u) + Len(r) = Len(q)
  BY <1>1, <1>2, <1>3
<1>5. ASSUME NEW i \in 1..Len(u \o r) PROVE (u \o r)[i] = q[i]
  <2>1. CASE i <= n
    BY <1>1, <1>3, <1>4, <2>1
  <2>2. CASE ~(i <= n)
    <3>1. i - n \in 1..Len(r) /\ n + (i - n) = i
      <4>1. i \in 1..Len(q)
        BY <1>4
      <4> QED BY <1>2, <2>2, <4>1
    <3>2. r[i - n] = q[i]
      BY <1>2, <3>1
    <3> QED BY <1>1, <1>3, <1>4, <2>2, <3>2
  <2> QED BY <2>1, <2>2
<1> QED BY <1>1, <1>3, <1>4, <1>5, SeqEqual DEF u, r

\* A write changes nothing at the receiver but what is on its way.
LEMMA PutKeeps ==
  ASSUME PathInv, UNCHANGED bufferVars, UNCHANGED out,
         NEW w \in Writers, NEW left \in Seq(Byte), NEW n \in 1..Len(left), NEW calls,
         Put(w, left, n, calls)
  PROVE  PathInv'
<1> DEFINE u == SubSeq(left, 1, n)
<1>1. u \in Seq(Byte) /\ Rest(left, n) \in Seq(Byte)
  <2>1. n \in 0..Len(left)
    OBVIOUS
  <2> QED BY <2>1, Parted, RestIs
<1>2. stream' = stream \o u /\ wire' = wire \o u
      /\ unsent' = [unsent EXCEPT ![w] = Rest(left, n)]
  BY DEF Put
<1> HIDE DEF u
<1>3. Typed'
  <2>1. stream' \in Seq(Byte) /\ wire' \in Seq(Byte)
    BY <1>1, <1>2, ConcatProperties DEF PathInv, Typed
  <2> QED BY <1>1, <1>2, <2>1 DEF PathInv, Typed
<1>4. Contents' = Contents /\ size' = size
  BY DEF Contents, size, bufferVars
<1>5. NothingLost'
  <2> SUFFICES ASSUME NEW x \in Seq(Byte)
               PROVE  out' \o Packets(Contents' \o (stream' \o x)) = Packets(wire' \o x)
    BY DEF NothingLost
  <2>1. u \o x \in Seq(Byte)
    BY <1>1, ConcatProperties
  <2>2. stream' \o x = stream \o (u \o x) /\ wire' \o x = wire \o (u \o x)
    <3>1. stream \in Seq(Byte) /\ wire \in Seq(Byte)
      BY DEF PathInv, Typed
    <3>1a. u \in Seq(Byte)
      BY <1>1
    <3>2. (stream \o u) \o x = stream \o (u \o x)
      BY <3>1, <3>1a, SMTT(30)
    <3>3. (wire \o u) \o x = wire \o (u \o x)
      BY <3>1, <3>1a, SMTT(30)
    <3> QED BY <1>2, <3>2, <3>3
  <2> QED BY <1>4, <2>1, <2>2 DEF PathInv, NothingLost
<1>6. LeftIsIncomplete'
  BY <1>4 DEF PathInv, LeftIsIncomplete, bufferVars
<1>7. BufferInv'
  BY <1>4 DEF PathInv, BufferInv, BufferTypeOK, SlabIsFree, LeftIncomplete, NeverFull, bufferVars
<1> QED BY <1>3, <1>5, <1>6, <1>7 DEF PathInv

\* A read does as IoBuffer says.
LEMMA ReadSomeReads ==
  ASSUME PathInv, ReadSome
  PROVE  /\ Read
         /\ \E n \in 1..slab.size :
              /\ n \in 0..Len(stream) /\ tail_' = tail_ + n /\ stream' = Rest(stream, n)
              /\ buffer_' = [i \in 0..(Length - 1) |->
                               IF i \in slab.data..(slab.data + n - 1)
                               THEN stream[i - slab.data + 1] ELSE buffer_[i]]
<1>1. slab.size \in Nat /\ slab.data \in Nat /\ stream \in Seq(Byte) /\ Len(stream) \in Nat
  BY DEF PathInv, BufferInv, BufferTypeOK, Typed
<1>2. /\ Min({slab.size, Len(stream)}) <= slab.size
      /\ Min({slab.size, Len(stream)}) <= Len(stream)
      /\ Min({slab.size, Len(stream)}) \in Nat
  <2> DEFINE S == {slab.size, Len(stream)}
  <2>1. S \in SUBSET Nat /\ S # {}
    BY <1>1
  <2> HIDE DEF S
  <2>2. Min(S) \in S /\ \A m \in S : Min(S) <= m
    BY <2>1, Least DEF Min
  <2> QED BY <1>1, <2>2 DEF S
<1>3. PICK n \in 1..Min({slab.size, Len(stream)}) :
        /\ buffer_' = [i \in 0..(Length - 1) |->
                         IF i \in slab.data..(slab.data + n - 1)
                         THEN stream[i - slab.data + 1] ELSE buffer_[i]]
        /\ tail_' = tail_ + n
        /\ stream' = Rest(stream, n)
  BY DEF ReadSome
<1>4. n \in 1..slab.size /\ n \in 0..Len(stream) /\ n \in Nat
  BY <1>1, <1>2
<1> DEFINE data == [i \in 1..n |-> stream[i]]
<1>5. data \in [1..n -> Byte]
  BY <1>1, <1>4
<1>6. buffer_' = [i \in 0..(Length - 1) |->
                    IF i \in slab.data..(slab.data + n - 1)
                    THEN data[i - slab.data + 1] ELSE buffer_[i]]
  <2>1. ASSUME NEW i \in 0..(Length - 1), i \in slab.data..(slab.data + n - 1)
        PROVE  data[i - slab.data + 1] = stream[i - slab.data + 1]
    <3>1. i - slab.data + 1 \in 1..n
      BY <1>1, <1>4, <2>1
    <3> QED BY <3>1
  <2> HIDE DEF data
  <2> QED BY <1>3, <2>1
<1>7. Read
  <2> HIDE DEF data
  <2> QED BY <1>3, <1>4, <1>5, <1>6 DEF ReadSome, Read
<1> QED BY <1>3, <1>4, <1>7

\* So does a decode: what it leaves is less than a packet.
LEMMA DecodeOneDecodes ==
  ASSUME PathInv, DecodeOne
  PROVE  LET d == decode_packet(Contents)
         IN  Decode /\ d.consume_len \in 0..size /\ consume(d.consume_len)
<1> DEFINE d == decode_packet(Contents)
           k == d.consume_len
<1>1. Contents \in Seq(Byte) /\ Len(Contents) = size /\ size \in Nat
      /\ \A i \in 1..size : Contents[i] = buffer_[head_ + i - 1]
  <2>1. ShowsWindow
    BY ContentsType DEF PathInv, BufferInv
  <2>2. Len(Contents) \in Nat
    BY <2>1 DEF ShowsWindow
  <2> QED BY <2>1, <2>2 DEF ShowsWindow
<1>2. /\ k \in 0..size
      /\ d.pack # Null => k > 0
      /\ d.pack = Null /\ k # size => size - k < header_length + MaxBody
  <2>1. /\ k \in 0..Len(Contents)
        /\ d.pack # Null => k > 0
        /\ d.pack = Null /\ k # Len(Contents) => Len(Contents) - k < header_length + MaxBody
    BY <1>1, DecodeResult
  <2> HIDE DEF d, k
  <2> QED BY <1>1, <2>1
<1>3. /\ taken' = SubSeq(Contents, 1, k) /\ consume(k)
      /\ loop' = IF d.pack = Null THEN "top" ELSE "decoding"
  BY DEF DecodeOne, Consumed
<1> HIDE DEF d, k
<1>4. Incomplete(size - k) \/ d.pack # Null
  <2>1. CASE k = size
    BY <1>1, <2>1, BufferAssumption DEF Incomplete
  <2>2. CASE k # size
    BY <1>2, <2>2, PathAssumption DEF Incomplete
  <2> QED BY <2>1, <2>2
<1>5. taken' = [i \in 1..k |-> buffer_[head_ + i - 1]]
  <2>1. [i \in 1..k |-> buffer_[head_ + i - 1]] = [i \in 1..k |-> Contents[i]]
    BY <1>1, <1>2
  <2>2. SubSeq(Contents, 1, k) = [i \in 1..k |-> Contents[i]]
    <3> DEFINE u == SubSeq(Contents, 1, k)
    <3>1. 1 \in Nat /\ k \in Nat /\ 1 >= 1 /\ k <= Len(Contents)
      BY <1>1, <1>2
    <3>2. /\ u \in Seq(Byte) /\ Len(u) = IF 1 <= k THEN k - 1 + 1 ELSE 0
          /\ \A i \in 1..(k - 1 + 1) : u[i] = Contents[1 + i - 1]
      BY <1>1, <3>1, PartOf
    <3> HIDE DEF u
    <3>3. Len(u) = k /\ \A i \in 1..k : u[i] = Contents[i]
      BY <3>1, <3>2
    <3>4. u = [i \in 1..k |-> u[i]]
      BY <3>2, <3>3
    <3> QED BY <3>3, <3>4 DEF u
  <2> QED BY <1>3, <2>1, <2>2
<1>6. Decode
  BY <1>2, <1>3, <1>4, <1>5 DEF Decode, DecodeOne
<1> QED BY <1>2, <1>3, <1>6 DEF d, k

\* Every step is one of the buffer's loop or none.
LEMMA StepIsBuffers ==
  ASSUME PathInv, [PathNext]_pathVars
  PROVE  [BufferNext]_bufferVars
<1>1. ASSUME NEW w \in Writers, Send(w) \/ WriteSome(w) PROVE UNCHANGED bufferVars
  BY <1>1 DEF Send, WriteSome
<1>2. MakeRoom => Prepare
  BY DEF MakeRoom
<1>3. ReadSome => Read
  BY ReadSomeReads
<1>4. ReceiveFails => ReadFails
  BY DEF ReceiveFails
<1>5. DecodeOne => Decode
  BY DecodeOneDecodes
<1>6. DecodeThrows => DecodeFails
  BY DEF DecodeThrows
<1>7. UNCHANGED pathVars => UNCHANGED bufferVars
  BY DEF pathVars
<1> QED BY <1>1, <1>2, <1>3, <1>4, <1>5, <1>6, <1>7 DEF PathNext, BufferNext

\* A read moves bytes from the stream to the buffer.
LEMMA ReadSomeKeeps ==
  ASSUME PathInv, BufferInv', ReadSome
  PROVE  Typed' /\ LeftIsIncomplete' /\ NothingLost'
<1>1. PICK n \in 1..slab.size :
        /\ n \in 0..Len(stream) /\ tail_' = tail_ + n /\ stream' = Rest(stream, n)
        /\ buffer_' = [i \in 0..(Length - 1) |->
                         IF i \in slab.data..(slab.data + n - 1)
                         THEN stream[i - slab.data + 1] ELSE buffer_[i]]
  BY ReadSomeReads
<1>2. /\ loop = "reading" /\ loop' = "decoding" /\ head_' = head_
      /\ unsent' = unsent /\ wire' = wire /\ out' = out
  BY DEF ReadSome, sendVars
<1> DEFINE u == SubSeq(stream, 1, n)
           r == Rest(stream, n)
<1>3. stream \in Seq(Byte) /\ Contents \in Seq(Byte)
  BY ContentsType DEF PathInv, Typed, BufferInv, ShowsWindow
<1>4. u \in Seq(Byte) /\ r \in Seq(Byte) /\ u \o r = stream
  BY <1>1, <1>3, Parted, RestIs
<1>5. Contents' = Contents \o u
  <2>1. Len(stream) >= n
    BY <1>1, <1>3
  <2> QED BY <1>1, <1>2, <1>3, <2>1, ReadAppends DEF PathInv
<1> HIDE DEF u
<1>6. Typed'
  BY <1>1, <1>2, <1>4 DEF PathInv, Typed
<1>7. LeftIsIncomplete'
  BY <1>2 DEF LeftIsIncomplete
<1>8. NothingLost'
  <2> SUFFICES ASSUME NEW x \in Seq(Byte)
               PROVE  out' \o Packets(Contents' \o (stream' \o x)) = Packets(wire' \o x)
    BY DEF NothingLost
  <2>1. stream' = r
    BY <1>1
  <2> HIDE DEF r
  <2>2. (Contents \o u) \o (r \o x) = Contents \o ((u \o r) \o x)
    <3>1. Contents \in Seq(Byte) /\ u \in Seq(Byte) /\ r \in Seq(Byte)
      BY <1>3, <1>4
    <3> QED BY <3>1
  <2>3. Contents' \o (stream' \o x) = Contents \o (stream \o x)
    BY <1>4, <1>5, <2>1, <2>2
  <2> QED BY <1>2, <2>3 DEF PathInv, NothingLost
<1> QED BY <1>6, <1>7, <1>8

\* A decode moves a packet from the buffer to what has come out.
LEMMA DecodeOneKeeps ==
  ASSUME PathInv, BufferInv', DecodeOne
  PROVE  Typed' /\ LeftIsIncomplete' /\ NothingLost'
<1> DEFINE c == Contents
           d == decode_packet(c)
           k == d.consume_len
<1>1. c \in Seq(Byte) /\ Len(c) = size /\ stream \in Seq(Byte) /\ out \in Seq(Given)
  BY ContentsType DEF PathInv, Typed, BufferInv, ShowsWindow
<1>2. k \in 0..size /\ consume(k)
  BY DecodeOneDecodes
<1>3. /\ out' = IF d.pack = Null THEN out ELSE Append(out, d.pack)
      /\ loop' = IF d.pack = Null THEN "top" ELSE "decoding"
      /\ buffer_' = buffer_ /\ unsent' = unsent /\ wire' = wire /\ stream' = stream
  BY DEF DecodeOne, sendVars
<1>4. Contents' = Rest(c, k)
  <2> HIDE DEF d
  <2> QED BY <1>2, <1>3, ConsumeTakes DEF PathInv, Rest
<1>5. /\ d.pack # Null => d.pack \in Given
      /\ d.pack = Null /\ k # Len(c) =>
           c[k + 1] = Flag /\ Len(c) - k < header_length + MaxBody
  <2> HIDE DEF c
  <2> QED BY <1>1, DecodeResult
<1> HIDE DEF c
<1>6. k \in 0..Len(c)
  BY <1>1, <1>2
<1>7. Rest(c, k) \in Seq(Byte) /\ Len(Rest(c, k)) = Len(c) - k
      /\ \A i \in 1..Len(Rest(c, k)) : Rest(c, k)[i] = c[k + i]
  <2> HIDE DEF d, k
  <2> QED BY <1>1, <1>6, RestIs
<1>8. NothingLost'
  <2> SUFFICES ASSUME NEW x \in Seq(Byte)
               PROVE  out' \o Packets(Contents' \o (stream' \o x)) = Packets(wire' \o x)
    BY DEF NothingLost
  <2> DEFINE more == stream \o x
             later == Packets(Rest(c, k) \o more)
  <2>1. more \in Seq(Byte)
    BY <1>1, ConcatProperties
  <2> HIDE DEF more
  <2>2. Packets(c \o more) = IF d.pack = Null THEN later ELSE <<d.pack>> \o later
    BY <1>1, <2>1, DecodedSoFar
  <2>3. later \in Seq(Given)
    <3> HIDE DEF k
    <3>1. Rest(c, k) \o more \in Seq(Byte)
      BY <1>7, <2>1, ConcatProperties
    <3> QED BY <3>1, PacketsAre
  <2>4. out \o Packets(c \o more) = Packets(wire \o x)
    BY DEF PathInv, NothingLost, c, more
  <2>5. Contents' \o (stream' \o x) = Rest(c, k) \o more
    BY <1>3, <1>4 DEF more
  <2> HIDE DEF d, k, later
  <2>6. out' \o later = out \o Packets(c \o more)
    <3>1. CASE d.pack = Null
      BY <1>3, <2>2, <3>1
    <3>2. CASE d.pack # Null
      <4>1. out' = out \o <<d.pack>> /\ <<d.pack>> \in Seq(Given)
        <5>1. <<d.pack>> \in Seq(Given)
          BY <1>5, <3>2
        <5>2. out' = Append(out, d.pack)
          BY <1>3, <3>2
        <5>3. d.pack \in Given
          BY <1>5, <3>2
        <5>4. Append(out, d.pack) = out \o <<d.pack>>
          BY <1>1, <5>3, AppendIsConcat
        <5> QED BY <5>1, <5>2, <5>4
      <4>2. (out \o <<d.pack>>) \o later = out \o (<<d.pack>> \o later)
        BY <1>1, <2>3, <4>1, RegroupPackets, Zenon
      <4> QED BY <2>2, <3>2, <4>1, <4>2
    <3> QED BY <3>1, <3>2
  <2> QED BY <1>3, <2>4, <2>5, <2>6 DEF later
<1> HIDE DEF d, k
<1>9. Typed'
  <2>1. out' \in Seq(Given)
    BY <1>1, <1>3, <1>5
  <2> QED BY <1>3, <2>1 DEF PathInv, Typed
<1>10. LeftIsIncomplete'
  <2>1. Len(Contents') = size'
    BY ContentsNext DEF ShowsWindow
  <2>2. size' = Len(c) - k /\ Len(c) \in Nat
    BY <1>1, <1>4, <1>7, <2>1
  <2>3. CASE d.pack = Null
    <3>1. k # Len(c) => Contents'[1] = Flag /\ size' < header_length + MaxBody
      <4> SUFFICES ASSUME k # Len(c) PROVE Contents'[1] = Flag /\ size' < header_length + MaxBody
        OBVIOUS
      <4>1. 1 \in 1..Len(Rest(c, k))
        BY <1>6, <1>7, <2>2
      <4>2. Contents'[1] = c[k + 1]
        BY <1>4, <1>7, <4>1
      <4> QED BY <1>5, <2>2, <2>3, <4>2
    <3>2. k = Len(c) => size' = 0
      BY <1>6, <2>2
    <3> QED BY <1>3, <2>3, <3>1, <3>2 DEF LeftIsIncomplete
  <2>4. CASE d.pack # Null
    BY <1>3, <2>4 DEF LeftIsIncomplete
  <2> QED BY <2>3, <2>4
<1> QED BY <1>8, <1>9, <1>10

\* The invariant holds of empty buffers.
LEMMA PathStarts == PathInit => PathInv
<1> SUFFICES ASSUME PathInit
             PROVE  PathInv
  OBVIOUS
<1>1. BufferInv
  BY BufferInitInv DEF PathInit
<1>2. Typed
  BY EmptySeq DEF PathInit, Typed
<1>3. size = 0 /\ loop = "top"
  BY DEF PathInit, BufferInit, size
<1>4. Contents = <<>>
  BY <1>1, <1>3, ContentsType DEF BufferInv, ShowsWindow
<1>5. NothingLost
  <2> SUFFICES ASSUME NEW x \in Seq(Byte)
               PROVE  out \o Packets(Contents \o (stream \o x)) = Packets(wire \o x)
    BY DEF NothingLost
  <2>1. Packets(x) \in Seq(Given)
    BY PacketsAre
  <2>2. <<>> \o x = x /\ <<>> \o Packets(x) = Packets(x)
    BY <2>1, ConcatEmptySeq
  <2> QED BY <1>4, <2>2 DEF PathInit
<1>6. LeftIsIncomplete
  BY <1>3 DEF LeftIsIncomplete
<1> QED BY <1>1, <1>2, <1>5, <1>6 DEF PathInv

\* Every step keeps it.
LEMMA PathSteps == PathInv /\ [PathNext]_pathVars => PathInv'
<1> SUFFICES ASSUME PathInv, [PathNext]_pathVars
             PROVE  PathInv'
  OBVIOUS
<1>1. BufferInv'
  BY StepIsBuffers, BufferNextInv DEF PathInv
<1>2. loop' # "full"
  BY <1>1, PathAssumption DEF BufferInv, NeverFull
<1>3. ASSUME NEW w \in Writers, Send(w) PROVE PathInv'
  <2>1. PICK p \in Piece : \E n \in 1..Len(p.bytes) : Put(w, p.bytes, n, 1)
    BY <1>3 DEF Send
  <2>2. p.bytes \in Seq(Byte) /\ UNCHANGED <<bufferVars, out>>
    BY <1>3, PieceType DEF Send
  <2> QED BY <2>1, <2>2, PutKeeps
<1>4. ASSUME NEW w \in Writers, WriteSome(w) PROVE PathInv'
  <2>1. PICK n \in 1..Len(unsent[w]) : Put(w, unsent[w], n, chunks[w] + 1)
    BY <1>4 DEF WriteSome
  <2>2. unsent[w] \in Seq(Byte) /\ UNCHANGED <<bufferVars, out>>
    BY <1>4 DEF WriteSome, PathInv, Typed
  <2> QED BY <2>1, <2>2, PutKeeps
<1>5. CASE MakeRoom
  <2>1. /\ Prepare /\ unsent' = unsent /\ wire' = wire /\ stream' = stream /\ out' = out
    BY <1>5 DEF MakeRoom, sendVars
  <2>2. Contents' = Contents
    BY <1>1, <2>1, PrepareStutters DEF PathInv
  <2>3. size' = size
    <3>1. Len(Contents) = size /\ Len(Contents') = size'
      BY <1>1, ContentsType, ContentsNext DEF PathInv, BufferInv, ShowsWindow
    <3> QED BY <2>2, <3>1
  <2>4. loop = "top"
    BY <2>1 DEF Prepare
  <2>5. Typed' /\ NothingLost'
    BY <2>1, <2>2 DEF PathInv, Typed, NothingLost
  <2>6. LeftIsIncomplete'
    BY <1>2, <2>2, <2>3, <2>4 DEF PathInv, LeftIsIncomplete
  <2> QED BY <1>1, <2>5, <2>6 DEF PathInv
<1>6. CASE ReadSome
  BY <1>1, <1>6, ReadSomeKeeps DEF PathInv
<1>7. CASE ReceiveFails \/ DecodeThrows
  <2>1. /\ ReadFails \/ DecodeFails
        /\ unsent' = unsent /\ wire' = wire /\ stream' = stream /\ out' = out
    BY <1>7 DEF ReceiveFails, DecodeThrows, sendVars
  <2>2. Contents' = Contents /\ loop' = "ended"
    BY <2>1 DEF ReadFails, DecodeFails, Contents, size
  <2> QED BY <1>1, <2>1, <2>2 DEF PathInv, Typed, NothingLost, LeftIsIncomplete
<1>8. CASE DecodeOne
  BY <1>1, <1>8, DecodeOneKeeps DEF PathInv
<1>9. CASE UNCHANGED pathVars
  <2>1. UNCHANGED <<bufferVars, unsent, wire, stream, out>>
    BY <1>9 DEF pathVars, sendVars
  <2>2. Contents' = Contents /\ size' = size /\ loop' = loop
    BY <2>1 DEF bufferVars, Contents, size
  <2> QED BY <1>1, <2>1, <2>2 DEF PathInv, Typed, NothingLost, LeftIsIncomplete
<1> QED BY <1>3, <1>4, <1>5, <1>6, <1>7, <1>8, <1>9 DEF PathNext

\* The inductive invariant holds throughout.
THEOREM PathInvariance == PathSpec => []PathInv
<1> QED BY PathStarts, PathSteps, PTL DEF PathSpec

\* Whatever is sent and however it arrives, the decoder leaves nothing in the buffer
\* but the beginning of a packet it accepts (connection.hpp:148-160).
THEOREM NoJunkStays == PathSpec => []LeftIsIncomplete
<1>1. PathInv => LeftIsIncomplete
  BY DEF PathInv
<1> QED BY <1>1, PathInvariance, PTL

\* It is the invariant with nothing to come.
LEMMA CutsFollow == PathInv => CutsDoNotMatter
<1> SUFFICES ASSUME PathInv
             PROVE  CutsDoNotMatter
  OBVIOUS
<1>1. <<>> \in Seq(Byte) /\ stream \o <<>> = stream /\ wire \o <<>> = wire
  BY EmptySeq, ConcatEmptySeq DEF PathInv, Typed
<1>2. out \o Packets(Contents \o (stream \o <<>>)) = Packets(wire \o <<>>)
  BY <1>1 DEF PathInv, NothingLost
<1> QED BY <1>1, <1>2 DEF CutsDoNotMatter

\* Whatever is sent, by any number of coroutines into each other, and however it is
\* cut into reads, the packets decoded are where they are in the bytes as a whole and,
\* but for those whose device id reaches behind them (packet.hpp:170-172), what they
\* are there (connection.hpp:175-193).
THEOREM PacketsDespiteCuts == PathSpec => []CutsDoNotMatter
<1> QED BY CutsFollow, PathInvariance, PTL

\* The receive loop with the real decoder is the loop of IoBuffer, so that the
\* theorems about that hold of it.
THEOREM LoopIsBuffers == PathSpec => ImplementsBuffer
<1>1. PathInit => BufferInit
  BY DEF PathInit
<1> QED BY <1>1, StepIsBuffers, PathInvariance, PTL DEF PathSpec, ImplementsBuffer, BufferSpec

-----------------------------------------------------------------------------
(* What the decoder makes of bytes that are no packet.                     *)

\* Bytes at which the decoder finds a header.
IsHeader(q, k) == q[k + 1] = Flag /\ CrcMatches(q, k)

\* If the decoder finds the same from two offsets on, or nothing, the packets from
\* there on are the same.
LEMMA SameOutcome ==
  ASSUME NEW q \in Seq(Byte), NEW g, IsDecoder(q, g),
         NEW a \in 0..Len(q), NEW b \in 0..Len(q),
         g[a] = g[b] \/ (g[a].pack = Null /\ g[b].pack = Null)
  PROVE  Packets(Rest(q, a)) = Packets(Rest(q, b))
<1>1. PICK f : IsParse(q, f)
  BY ParseExists
<1> DEFINE d == decode_packet(Rest(q, a))
           e == decode_packet(Rest(q, b))
<1>2. /\ g[a] = [consume_len |-> a + d.consume_len, pack |-> d.pack]
      /\ g[b] = [consume_len |-> b + e.consume_len, pack |-> e.pack]
  BY DecodeRest
<1>3. /\ d.pack = Null => f[a] = <<>>
      /\ d.pack # Null => f[a] = <<d.pack>> \o f[a + d.consume_len]
      /\ e.pack = Null => f[b] = <<>>
      /\ e.pack # Null => f[b] = <<e.pack>> \o f[b + e.consume_len]
  <2> HIDE DEF d, e
  <2>1. d = decode_packet(Rest(q, a)) /\ e = decode_packet(Rest(q, b))
    BY DEF d, e
  <2>2. /\ d.pack = Null => f[a] = <<>>
        /\ d.pack # Null => f[a] = <<d.pack>> \o f[a + d.consume_len]
    BY <1>1, <2>1, ParsedFrom, SMTT(30)
  <2>3. /\ e.pack = Null => f[b] = <<>>
        /\ e.pack # Null => f[b] = <<e.pack>> \o f[b + e.consume_len]
    BY <1>1, <2>1, ParsedFrom, SMTT(30)
  <2> QED BY <2>2, <2>3
<1> HIDE DEF d, e
<1>4. f[a] = f[b]
  <2>1. CASE g[a] = g[b]
    <3>1. d.pack = e.pack /\ a + d.consume_len = b + e.consume_len
      BY <1>2, <2>1
    <3> QED BY <1>3, <3>1
  <2>2. CASE g[a].pack = Null /\ g[b].pack = Null
    <3>1. d.pack = Null /\ e.pack = Null
      BY <1>2, <2>2
    <3> QED BY <1>3, <3>1
  <2> QED BY <2>1, <2>2
<1>5. Packets(Rest(q, a)) = f[a] /\ Packets(Rest(q, b)) = f[b]
  BY <1>1, ParsedRest
<1> QED BY <1>4, <1>5

\* The decoder passes over a stretch without headers.
LEMMA PassedOver ==
  ASSUME NEW q \in Seq(Byte), NEW a \in 0..Len(q), NEW b \in a..Len(q),
         \A k \in a..(b - 1) : k + header_length <= Len(q) => ~IsHeader(q, k)
  PROVE  Packets(Rest(q, a)) = Packets(Rest(q, b))
<1>1. PICK g : IsDecoder(q, g)
  BY DecoderExists
<1>2. a \in Nat /\ b \in Nat /\ Len(q) \in Nat /\ b <= Len(q) /\ a <= b
  OBVIOUS
<1> DEFINE Same(k) == g[k] = g[b] \/ (g[k].pack = Null /\ g[b].pack = Null)
           good == {k \in 0..b : k >= a => Same(k)}
           t == ToFlag(q, b)
<1>3. /\ t \in b..Len(q) /\ IsFlagFrom(q, b, t)
      /\ DecodeFrom(q, g, b) = IF Stops(q, t) THEN NeedsMore(t)
                               ELSE IF Finds(q, t) THEN Found(q, t) ELSE g[After(q, t)]
      /\ g[b] = DecodeFrom(q, g, b)
  <2>1. b \in 0..Len(q)
    BY <1>2
  <2>2. g[b] = DecodeFrom(q, g, b)
    BY <1>1, <2>1 DEF IsDecoder
  <2>3. t \in b..Len(q) /\ IsFlagFrom(q, b, t)
    BY <2>1, DecodeStep, FlagFound
  <2> QED BY <2>1, <2>2, <2>3, DecodeStep
<1>4. ASSUME NEW k \in 0..b, \A j \in (k + 1)..b : j \in good PROVE k \in good
  <2> SUFFICES ASSUME k >= a, k # b PROVE Same(k)
    OBVIOUS
  <2> DEFINE s == ToFlag(q, k)
  <2>1. k \in 0..Len(q) /\ k < b /\ k \in Nat
    BY <1>2
  <2>2. /\ s \in k..Len(q) /\ IsFlagFrom(q, k, s)
        /\ DecodeFrom(q, g, k) = IF Stops(q, s) THEN NeedsMore(s)
                                 ELSE IF Finds(q, s) THEN Found(q, s) ELSE g[After(q, s)]
        /\ g[k] = DecodeFrom(q, g, k)
    BY <1>1, <2>1, DecodeStep, FlagFound DEF IsDecoder
  <2> HIDE DEF s
  <2>3. CASE s >= b
    <3>1. IsFlagFrom(q, b, s)
      BY <1>2, <2>1, <2>2, <2>3 DEF IsFlagFrom
    <3>2. s = t
      BY <1>2, <3>1, FlagFound
    <3> HIDE DEF t
    <3> QED BY <1>3, <2>2, <3>2
  <2>4. CASE s < b /\ Len(q) - s < header_length
    <3> HIDE DEF t
    <3>1. Stops(q, s) /\ Stops(q, t)
      <4>1. Len(q) - t < header_length
        BY <1>2, <1>3, <2>2, <2>4 DEF header_length
      <4> QED BY <2>4, <4>1 DEF Stops
    <3>2. g[k] = NeedsMore(s) /\ g[b] = NeedsMore(t)
      BY <1>3, <2>2, <3>1
    <3> QED BY <3>2 DEF NeedsMore
  <2>5. CASE s < b /\ ~(Len(q) - s < header_length)
    <3>1. s \in a..(b - 1) /\ s + header_length <= Len(q)
      BY <1>2, <2>1, <2>2, <2>5 DEF header_length
    <3>2. q[s + 1] = Flag
      BY <1>2, <2>2, <3>1 DEF IsFlagFrom
    <3>3. ~CrcMatches(q, s)
      BY <3>1, <3>2 DEF IsHeader
    <3>4. ~Stops(q, s) /\ ~Finds(q, s) /\ After(q, s) = s + 1
      BY <2>5, <3>3 DEF Stops, Finds, After, SkipFlag
    <3>5. g[k] = g[s + 1]
      BY <2>2, <3>4
    <3>6. s + 1 \in (k + 1)..b /\ s + 1 >= a
      BY <1>2, <2>1, <2>2, <3>1
    <3>7. Same(s + 1)
      BY <1>4, <3>6
    <3> QED BY <3>5, <3>7
  <2> QED BY <1>2, <2>2, <2>3, <2>4, <2>5
<1> HIDE DEF good
<1>5. \A k \in 0..b : k \in good
  BY <1>2, <1>4, Backward
<1>6. Same(a)
  BY <1>2, <1>5 DEF good
<1> QED BY <1>1, <1>2, <1>6, SameOutcome

\* There are no packets in nothing.
LEMMA NoPackets == Packets(<<>>) = <<>>
<1> DEFINE q == <<>>
           d == decode_packet(q)
<1>1. q \in Seq(Byte) /\ Len(q) = 0
  BY EmptySeq
<1> HIDE DEF q
<1>2. d.consume_len \in 0..0 /\ (d.pack # Null => d.consume_len > 0)
  BY <1>1, DecodeResult
<1> HIDE DEF d
<1>3. d.pack = Null
  BY <1>2
<1>4. d = decode_packet(q)
  BY DEF d
<1> QED BY <1>1, <1>3, <1>4, PacketsAre DEF q

\* Behind everything there is nothing.
LEMMA NothingBehind ==
  ASSUME NEW q \in Seq(Byte) PROVE Rest(q, Len(q)) = <<>>
<1>1. Len(q) \in 0..Len(q)
  OBVIOUS
<1>2. Rest(q, Len(q)) \in Seq(Byte) /\ Len(Rest(q, Len(q))) = 0
  BY <1>1, RestIs
<1> QED BY <1>2, EmptySeq

\* Behind the first of two strings there is the second.
LEMMA RestIsSecond ==
  ASSUME NEW p \in Seq(Byte), NEW x \in Seq(Byte)
  PROVE  Rest(p \o x, Len(p)) = x
<1>1. Len(p) \in 0..Len(p)
  OBVIOUS
<1>2. Rest(p \o x, Len(p)) = Rest(p, Len(p)) \o x
  BY <1>1, RestOfBoth
<1> QED BY <1>2, NothingBehind, ConcatEmptySeq

\* A header has the same bytes in a part and in the whole.
LEMMA HeaderMoves ==
  ASSUME NEW p \in Seq(Byte), NEW q \in Seq(Byte), NEW n \in Nat, Window(p, q, n),
         NEW k \in Nat, k + header_length <= Len(p)
  PROVE  IsHeader(q, n + k) <=> IsHeader(p, k)
<1>1. /\ k \in 0..Len(p) /\ Len(p) - k >= header_length
      /\ k + 1 \in 1..Len(p) /\ n + (k + 1) = n + k + 1
  BY DEF header_length
<1>2. q[n + k + 1] = p[k + 1]
  <2>1. \A i \in 1..Len(p) : q[n + i] = p[i]
    BY DEF Window
  <2>2. q[n + (k + 1)] = p[k + 1]
    BY <1>1, <2>1
  <2> QED BY <1>1, <2>2
<1>3. CrcMatches(q, n + k) <=> CrcMatches(p, k)
  BY <1>1, SameHeader
<1> QED BY <1>2, <1>3 DEF IsHeader

\* The windows of the two strings of which one is put together.
LEMMA BothWindows ==
  ASSUME NEW p \in Seq(Byte), NEW x \in Seq(Byte)
  PROVE  /\ p \o x \in Seq(Byte) /\ Len(p \o x) = Len(p) + Len(x)
         /\ Window(p, p \o x, 0) /\ Window(x, p \o x, Len(p))
<1>1. /\ p \o x \in Seq(Byte) /\ Len(p \o x) = Len(p) + Len(x)
      /\ \A i \in 1..Len(p) + Len(x) :
           (p \o x)[i] = IF i <= Len(p) THEN p[i] ELSE x[i - Len(p)]
  BY ConcatProperties
<1> DEFINE q == p \o x
<1> HIDE DEF q
<1>2. Len(p) \in Nat /\ Len(x) \in Nat
  OBVIOUS
<1>3. ASSUME NEW i \in 1..Len(p) PROVE q[0 + i] = p[i]
  BY <1>1, <1>2 DEF q
<1>4. ASSUME NEW i \in 1..Len(x) PROVE q[Len(p) + i] = x[i]
  <2>1. Len(p) + i \in 1..Len(p) + Len(x) /\ ~(Len(p) + i <= Len(p)) /\ Len(p) + i - Len(p) = i
    BY <1>2
  <2> QED BY <1>1, <2>1 DEF q
<1>5. Window(p, q, 0)
  BY <1>1, <1>2, <1>3 DEF Window, q
<1>6. Window(x, q, Len(p))
  BY <1>1, <1>2, <1>4 DEF Window, q
<1> QED BY <1>1, <1>5, <1>6 DEF q

-----------------------------------------------------------------------------
(* What the decoder makes of the pieces that are sent.                     *)

\* What a piece is: a frame the decoder accepts, one that is too long, or junk.
IsAccepted(p, b) ==
  /\ ~TooLong(Len(b)) /\ p.bytes = encode_packet(b)
  /\ Accepted(p) = <<b>> /\ Passed(p) = Len(p.bytes)
IsRefused(p, b) ==
  /\ TooLong(Len(b)) /\ p.bytes = encode_packet(b)
  /\ Accepted(p) = <<>> /\ Passed(p) = header_length
IsJunk(p) == Accepted(p) = <<>> /\ Passed(p) = 0

LEMMA PieceIs ==
  ASSUME NEW p \in Piece
  PROVE  \/ \E b \in Bodies : IsAccepted(p, b) \/ IsRefused(p, b)
         \/ IsJunk(p)
<1>1. ASSUME NEW b \in Bodies, p = Frame(b) PROVE IsAccepted(p, b) \/ IsRefused(p, b)
  <2>1. p.frame = TRUE /\ p.body = b /\ p.bytes = encode_packet(b)
    BY <1>1 DEF Frame
  <2>2. CASE TooLong(Len(b))
    <3>1. Accepted(p) = <<>>
      BY <2>1, <2>2 DEF Accepted
    <3>2. Passed(p) = header_length
      BY <2>1, <3>1 DEF Passed
    <3> QED BY <2>1, <2>2, <3>1, <3>2 DEF IsRefused
  <2>3. CASE ~TooLong(Len(b))
    <3>1. Accepted(p) = <<b>>
      BY <2>1, <2>3 DEF Accepted
    <3>2. Passed(p) = Len(p.bytes)
      BY <3>1 DEF Passed
    <3> QED BY <2>1, <2>3, <3>1, <3>2 DEF IsAccepted
  <2> QED BY <2>2, <2>3
<1>2. ASSUME NEW j \in Junk, p = NoFrame(j) PROVE IsJunk(p)
  <2>1. p.frame = FALSE
    BY <1>2 DEF NoFrame
  <2>2. Accepted(p) = <<>>
    BY <2>1 DEF Accepted
  <2> QED BY <2>1, <2>2 DEF Passed, IsJunk
<1> QED BY <1>1, <1>2 DEF Piece

\* The types of what the decoder should make of a piece.
LEMMA AcceptedType ==
  ASSUME NEW p \in Piece
  PROVE  Accepted(p) \in Seq(Given) /\ Passed(p) \in 0..Len(p.bytes)
<1>1. p.bytes \in Seq(Byte) /\ Len(p.bytes) \in Nat
  BY PieceType
<1>2. ASSUME NEW b \in Bodies, IsAccepted(p, b)
      PROVE  Accepted(p) \in Seq(Given) /\ Passed(p) \in 0..Len(p.bytes)
  <2>1. b \in Seq(Byte)
    BY PathAssumption
  <2>2. <<b>> \in Seq(Given)
    <3>1. b \in Given
      BY <2>1, GivenIs
    <3> QED BY <3>1
  <2> QED BY <1>1, <1>2, <2>2 DEF IsAccepted
<1>3. ASSUME NEW b \in Bodies, IsRefused(p, b)
      PROVE  Accepted(p) \in Seq(Given) /\ Passed(p) \in 0..Len(p.bytes)
  <2>1. b \in Seq(Byte) /\ Len(b) < Base * Base
    BY PathAssumption
  <2>2. Len(p.bytes) = header_length + Len(b)
    BY <1>3, <2>1, FrameIs DEF IsRefused
  <2>3. Passed(p) \in 0..Len(p.bytes)
    BY <1>3, <2>1, <2>2 DEF IsRefused, header_length
  <2> QED BY <1>3, <2>3, EmptySeq DEF IsRefused
<1>4. ASSUME IsJunk(p)
      PROVE  Accepted(p) \in Seq(Given) /\ Passed(p) \in 0..Len(p.bytes)
  BY <1>1, <1>4, EmptySeq DEF IsJunk
<1> QED BY <1>2, <1>3, <1>4, PieceIs

\* The header of a frame, and of what begins like one.
LEMMA FrameBegins ==
  ASSUME NEW body \in Seq(Byte), Len(body) < Base * Base,
         NEW f, f = encode_packet(body),
         NEW q \in Seq(Byte), Len(q) >= header_length, Window(f, q, 0) \/ Window(q, f, 0)
  PROVE  ToFlag(q, 0) = 0 /\ CrcMatches(q, 0) /\ BodyLen(q, 0) = Len(body)
<1>1. /\ f \in Seq(Byte) /\ Len(f) = header_length + Len(body) /\ f[1] = Flag
      /\ SubSeq(f, 1, 4) = HeadOf(body) /\ f[5] = calc_crc8(HeadOf(body))
      /\ network_to_host_32(SubSeq(f, 3, 4)) = Len(body)
  BY FrameIs
<1>2. CrcMatches(f, 0) /\ BodyLen(f, 0) = Len(body)
  <2>1. 0 + 1 = 1 /\ 0 + 3 = 3 /\ 0 + 4 = 4 /\ 0 + 5 = 5
    OBVIOUS
  <2> QED BY <1>1, <2>1 DEF CrcMatches, BodyLen
<1>3. /\ Len(body) \in Nat /\ 0 \in 0..Len(f) /\ 0 \in 0..Len(q) /\ 0 \in Nat /\ 0 + 0 = 0
      /\ Len(f) - 0 >= header_length /\ Len(q) - 0 >= header_length
      /\ 1 \in 1..Len(f) /\ 1 \in 1..Len(q) /\ 0 + 1 = 1
  BY <1>1 DEF header_length
<1>4. CASE Window(f, q, 0)
  <2>1. CrcMatches(q, 0 + 0) /\ BodyLen(q, 0 + 0) = Len(body)
    BY <1>1, <1>2, <1>3, <1>4, SameHeader
  <2>2. q[0 + 1] = f[1]
    BY <1>3, <1>4 DEF Window
  <2>3. IsFlagFrom(q, 0, 0)
    BY <1>1, <1>3, <2>2 DEF IsFlagFrom
  <2> QED BY <1>3, <2>1, <2>3, FlagFound
<1>5. CASE Window(q, f, 0)
  <2>1. CrcMatches(q, 0) /\ BodyLen(q, 0) = Len(body)
    <3>1. /\ CrcMatches(f, 0 + 0) <=> CrcMatches(q, 0)
          /\ BodyLen(f, 0 + 0) = BodyLen(q, 0)
      BY <1>1, <1>3, <1>5, SameHeader
    <3> QED BY <1>2, <1>3, <3>1
  <2>2. f[0 + 1] = q[1]
    BY <1>3, <1>5 DEF Window
  <2>3. IsFlagFrom(q, 0, 0)
    BY <1>1, <1>3, <2>2 DEF IsFlagFrom
  <2> QED BY <1>3, <2>1, <2>3, FlagFound
<1> QED BY <1>4, <1>5

\* The header of a frame that is too long is skipped.
LEMMA RefusedSkipped ==
  ASSUME NEW body \in Seq(Byte), Len(body) < Base * Base, TooLong(Len(body)),
         NEW f, f = encode_packet(body),
         NEW q \in Seq(Byte), Len(q) >= header_length, Window(f, q, 0) \/ Window(q, f, 0)
  PROVE  Packets(q) = Packets(Rest(q, header_length))
<1>1. PICK g : IsDecoder(q, g)
  BY DecoderExists
<1>2. ToFlag(q, 0) = 0 /\ CrcMatches(q, 0) /\ TooLong(BodyLen(q, 0))
  BY FrameBegins
<1>3. /\ 0 \in 0..Len(q) /\ header_length \in 0..Len(q) /\ 0 + header_length = header_length
      /\ ~(Len(q) - 0 < header_length)
  BY DEF header_length
<1>4. ~Stops(q, 0) /\ ~Finds(q, 0) /\ After(q, 0) = header_length
  BY <1>2, <1>3 DEF Stops, Finds, After
<1>5. g[0] = g[header_length]
  <2>1. g[0] = DecodeFrom(q, g, 0)
    BY <1>1, <1>3 DEF IsDecoder
  <2> QED BY <1>2, <1>3, <1>4, <2>1, DecodeStep
<1>6. Packets(Rest(q, 0)) = Packets(Rest(q, header_length))
  BY <1>1, <1>3, <1>5, SameOutcome
<1> QED BY <1>6, RestOfAll

\* A frame that is not there as a whole is no packet yet.
LEMMA BeginningWaits ==
  ASSUME NEW body \in Seq(Byte), Len(body) < Base * Base,
         NEW f, f = encode_packet(body),
         NEW q \in Seq(Byte), Window(q, f, 0), Len(q) < Len(f), q # <<>>,
         Len(q) >= header_length => ~TooLong(Len(body))
  PROVE  Packets(q) = <<>>
<1>1. PICK g : IsDecoder(q, g) /\ decode_packet(q) = g[0]
  BY DecoderExists
<1>2. Len(f) = header_length + Len(body) /\ f[1] = Flag
  BY FrameIs
<1>3. Len(q) \in Nat /\ Len(q) # 0 /\ Len(body) \in Nat
  BY EmptySeq
<1>4. 0 \in 0..Len(q) /\ 1 \in 1..Len(q) /\ 0 + 1 = 1
  BY <1>3
<1>5. q[1] = Flag
  <2>1. \A i \in 1..Len(q) : f[0 + i] = q[i]
    BY DEF Window
  <2>2. f[0 + 1] = q[1]
    BY <1>4, <2>1
  <2> QED BY <1>2, <1>4, <2>2
<1>6. ToFlag(q, 0) = 0
  <2>1. IsFlagFrom(q, 0, 0)
    BY <1>4, <1>5 DEF IsFlagFrom
  <2> QED BY <1>4, <2>1, FlagFound
<1>7. Stops(q, 0)
  <2>1. CASE Len(q) < header_length
    <3>1. Len(q) - 0 < header_length
      BY <1>3, <2>1
    <3> QED BY <3>1 DEF Stops
  <2>2. CASE ~(Len(q) < header_length)
    <3>1. Len(q) >= header_length /\ Len(q) - 0 >= header_length
          /\ Len(q) - 0 < header_length + Len(body)
      BY <1>2, <1>3, <2>2 DEF header_length
    <3>2. CrcMatches(q, 0) /\ BodyLen(q, 0) = Len(body)
      BY <3>1, FrameBegins
    <3> QED BY <3>1, <3>2 DEF Stops
  <2> QED BY <2>1, <2>2
<1>8. g[0] = NeedsMore(0)
  <2>1. g[0] = DecodeFrom(q, g, 0)
    BY <1>1, <1>4 DEF IsDecoder
  <2> QED BY <1>4, <1>6, <1>7, <2>1, DecodeStep
<1>9. decode_packet(q).pack = Null
  BY <1>1, <1>8 DEF NeedsMore
<1> QED BY <1>9, PacketsAre

\* Of the headers in the first n places all are in F.
Outside(q, n, F) ==
  \A k \in 0..(n - 1) : k + header_length <= Len(q) /\ IsHeader(q, k) => k \in F

\* A piece makes the packets it should, with whatever comes behind it.
LEMMA PieceDecoded ==
  ASSUME NEW p \in Piece, NEW x \in Seq(Byte), NEW q, q = p.bytes \o x,
         Outside(q, Len(p.bytes), 0..(Passed(p) - 1))
  PROVE  Packets(q) = Accepted(p) \o Packets(x)
<1> DEFINE f == p.bytes
           n == Len(f)
<1>1. f \in Seq(Byte)
  BY PieceType
<1>2. q = f \o x
  OBVIOUS
<1>3. Passed(p) \in 0..n
  BY AcceptedType
<1>4. Outside(q, n, 0..(Passed(p) - 1))
  OBVIOUS
<1> HIDE DEF f
<1>5. /\ q \in Seq(Byte) /\ Len(q) = n + Len(x) /\ n \in Nat /\ n \in 0..Len(q)
      /\ Window(f, q, 0) /\ Rest(q, n) = x
  <2>1. q \in Seq(Byte) /\ Len(q) = n + Len(x) /\ Window(f, q, 0) /\ n \in Nat
    BY <1>1, <1>2, BothWindows
  <2>2. Len(x) \in Nat
    OBVIOUS
  <2> QED BY <1>1, <1>2, <2>1, <2>2, RestIsSecond
<1>6. Packets(x) \in Seq(Given)
  BY PacketsAre
<1>7. Packets(Rest(q, Passed(p))) = Packets(x)
  <2>1. \A k \in Passed(p)..(n - 1) : k + header_length <= Len(q) => ~IsHeader(q, k)
    BY <1>3, <1>4, <1>5 DEF Outside
  <2>2. Passed(p) \in 0..Len(q) /\ n \in Passed(p)..Len(q)
    BY <1>3, <1>5
  <2> DEFINE m == Passed(p)
  <2> HIDE DEF m, n
  <2>3. \A k \in m..(n - 1) : k + header_length <= Len(q) => ~IsHeader(q, k)
    BY <2>1 DEF m
  <2>4. Packets(Rest(q, m)) = Packets(Rest(q, n))
    BY <1>5, <2>2, <2>3, PassedOver DEF m
  <2> QED BY <1>5, <2>4 DEF m
<1>8. ASSUME NEW b \in Bodies, IsAccepted(p, b) PROVE Packets(q) = Accepted(p) \o Packets(x)
  <2>1. b \in Seq(Byte) /\ Len(b) < Base * Base /\ ~TooLong(Len(b))
    BY <1>8, PathAssumption DEF IsAccepted
  <2>2. f = encode_packet(b) /\ Accepted(p) = <<b>>
    BY <1>8 DEF IsAccepted, f
  <2>3. decode_packet(q) = [consume_len |-> header_length + Len(b), pack |-> b]
    BY <1>2, <2>1, <2>2, RoundTrip
  <2>4. b # Null
    BY <2>1, PathAssumption
  <2>5. header_length + Len(b) = n
    BY <2>1, <2>2, FrameIs
  <2>6. decode_packet(q).pack = b /\ decode_packet(q).consume_len = n
    BY <2>3, <2>5
  <2>7. Packets(q) = <<b>> \o Packets(Rest(q, n))
    BY <1>5, <2>4, <2>6, PacketsAre
  <2> QED BY <1>5, <2>2, <2>7
<1>9. ASSUME NEW b \in Bodies, IsRefused(p, b) PROVE Packets(q) = Accepted(p) \o Packets(x)
  <2>1. b \in Seq(Byte) /\ Len(b) < Base * Base /\ TooLong(Len(b))
    BY <1>9, PathAssumption DEF IsRefused
  <2>2. f = encode_packet(b) /\ Accepted(p) = <<>> /\ Passed(p) = header_length
    BY <1>9 DEF IsRefused, f
  <2>3. Len(q) >= header_length
    BY <1>3, <1>5, <2>2 DEF header_length
  <2>4. Packets(q) = Packets(Rest(q, header_length))
    BY <1>5, <2>1, <2>2, <2>3, RefusedSkipped
  <2> QED BY <1>6, <1>7, <2>2, <2>4, ConcatEmptySeq
<1>10. ASSUME IsJunk(p) PROVE Packets(q) = Accepted(p) \o Packets(x)
  <2>1. Accepted(p) = <<>> /\ Passed(p) = 0
    BY <1>10 DEF IsJunk
  <2>2. Rest(q, 0) = q
    BY <1>5, RestOfAll
  <2> QED BY <1>6, <1>7, <2>1, <2>2, ConcatEmptySeq
<1> QED BY <1>8, <1>9, <1>10, PieceIs

\* Part of a piece makes none.
LEMMA PartDecoded ==
  ASSUME NEW p \in Piece, NEW part \in Seq(Byte), part # <<>>,
         NEW left \in Seq(Byte), left # <<>>, part \o left = p.bytes,
         Outside(part, Len(part), 0..(Passed(p) - 1))
  PROVE  Packets(part) = <<>>
<1> DEFINE f == p.bytes
           n == Len(part)
<1>1. f = part \o left /\ Passed(p) \in 0..Len(f)
  BY AcceptedType
<1>2. f \in Seq(Byte) /\ Len(f) = n + Len(left) /\ Window(part, f, 0)
  <2> HIDE DEF f
  <2> QED BY <1>1, BothWindows
<1> HIDE DEF f
<1>3. n \in Nat /\ n # 0 /\ n < Len(f) /\ n \in 0..n
  <2>1. n \in Nat /\ n # 0 /\ Len(left) \in Nat /\ Len(left) # 0
    BY EmptySeq
  <2> QED BY <1>2, <2>1
<1>4. ASSUME NEW m \in 0..n, m = Passed(p) PROVE Packets(Rest(part, m)) = <<>>
  <2>1. \A k \in m..(n - 1) : k + header_length <= Len(part) => ~IsHeader(part, k)
    BY <1>4 DEF Outside
  <2>2. m \in 0..Len(part) /\ n \in m..Len(part)
    BY <1>3, <1>4
  <2>3. Packets(Rest(part, m)) = Packets(Rest(part, n))
    <3> HIDE DEF n
    <3> QED BY <2>1, <2>2, PassedOver
  <2>4. Rest(part, n) = <<>>
    BY NothingBehind
  <2> QED BY <2>3, <2>4, NoPackets
<1>5. ASSUME NEW b \in Bodies, IsAccepted(p, b) PROVE Packets(part) = <<>>
  <2>1. b \in Seq(Byte) /\ Len(b) < Base * Base /\ ~TooLong(Len(b)) /\ f = encode_packet(b)
    BY <1>5, PathAssumption DEF IsAccepted, f
  <2> QED BY <1>2, <1>3, <2>1, BeginningWaits
<1>6. ASSUME NEW b \in Bodies, IsRefused(p, b) PROVE Packets(part) = <<>>
  <2>1. b \in Seq(Byte) /\ Len(b) < Base * Base /\ TooLong(Len(b)) /\ f = encode_packet(b)
        /\ Passed(p) = header_length
    BY <1>6, PathAssumption DEF IsRefused, f
  <2>2. CASE n < header_length
    <3>1. ~(Len(part) >= header_length)
      BY <1>3, <2>2 DEF header_length
    <3> QED BY <1>2, <1>3, <2>1, <3>1, BeginningWaits
  <2>3. CASE ~(n < header_length)
    <3>1. header_length \in 0..n /\ Len(part) >= header_length
      BY <1>3, <2>3 DEF header_length
    <3>2. Packets(part) = Packets(Rest(part, header_length))
      BY <1>2, <2>1, <3>1, RefusedSkipped
    <3> QED BY <1>4, <2>1, <3>1, <3>2
  <2> QED BY <2>2, <2>3
<1>7. ASSUME IsJunk(p) PROVE Packets(part) = <<>>
  <2>1. Passed(p) = 0 /\ 0 \in 0..n
    BY <1>3, <1>7 DEF IsJunk
  <2> QED BY <1>4, <2>1, RestOfAll
<1> QED BY <1>5, <1>6, <1>7, PieceIs

-----------------------------------------------------------------------------
(* Whole frames arrive.                                                    *)

\* Whatever comes behind base, if its only headers are in F, the packets in it are ps.
Delivers(base, F, ps) ==
  \A x \in Seq(Byte) :
    Outside(base \o x, Len(base), F) => Packets(base \o x) = ps \o Packets(x)

\* Where the frame of p is, or its header if it is refused, behind base.
FramedBy(base, p) == {Len(base) + i : i \in 0..(Passed(p) - 1)}

\* Headers outside F and the piece are outside F, and outside the piece.
LEMMA OutsideBoth ==
  ASSUME NEW base \in Seq(Byte), NEW F \in SUBSET (0..(Len(base) - 1)), NEW p \in Piece,
         NEW y \in Seq(Byte), NEW n \in 0..Len(y), NEW q, q = base \o y,
         Outside(q, Len(base) + n, F \cup FramedBy(base, p))
  PROVE  Outside(q, Len(base), F) /\ Outside(y, n, 0..(Passed(p) - 1))
<1> DEFINE b == Len(base)
           G == F \cup FramedBy(base, p)
<1>1. q \in Seq(Byte) /\ Len(q) = b + Len(y) /\ Window(y, q, b)
  BY BothWindows
<1>2. b \in Nat /\ n \in Nat /\ Len(y) \in Nat /\ n <= Len(y) /\ Passed(p) \in Nat
  BY AcceptedType
<1>3. Outside(q, b, F)
  <2> SUFFICES ASSUME NEW k \in 0..(b - 1), k + header_length <= Len(q), IsHeader(q, k)
               PROVE  k \in F
    BY DEF Outside
  <2>1. k \in 0..(b + n - 1)
    BY <1>2
  <2>2. k \in G
    BY <2>1 DEF Outside
  <2>3. k \notin FramedBy(base, p)
    BY <1>2 DEF FramedBy
  <2> QED BY <2>2, <2>3
<1>4. Outside(y, n, 0..(Passed(p) - 1))
  <2> SUFFICES ASSUME NEW k \in 0..(n - 1), k + header_length <= Len(y), IsHeader(y, k)
               PROVE  k \in 0..(Passed(p) - 1)
    BY DEF Outside
  <2>1. b + k \in 0..(b + n - 1) /\ b + k + header_length <= Len(q) /\ k \in Nat
    BY <1>1, <1>2 DEF header_length
  <2>2. IsHeader(q, b + k)
    BY <1>1, <1>2, <2>1, HeaderMoves
  <2>3. b + k \in G
    BY <2>1, <2>2 DEF Outside
  <2>4. b + k \notin F
    BY <1>2
  <2>5. PICK i \in 0..(Passed(p) - 1) : b + k = b + i
    BY <2>3, <2>4 DEF FramedBy
  <2>6. k = i
    BY <1>2, <2>1, <2>5
  <2> QED BY <2>6
<1> QED BY <1>3, <1>4

\* One more piece.
LEMMA DeliversMore ==
  ASSUME NEW base \in Seq(Byte), NEW F \in SUBSET (0..(Len(base) - 1)),
         NEW ps \in Seq(Given), Delivers(base, F, ps), NEW p \in Piece,
         NEW longer, longer = base \o p.bytes
  PROVE  /\ longer \in Seq(Byte) /\ ps \o Accepted(p) \in Seq(Given)
         /\ F \cup FramedBy(base, p) \in SUBSET (0..(Len(longer) - 1))
         /\ Delivers(longer, F \cup FramedBy(base, p), ps \o Accepted(p))
<1> DEFINE f == p.bytes
           n == Len(f)
           b == Len(base)
           G == F \cup FramedBy(base, p)
<1>1. f \in Seq(Byte) /\ longer = base \o f
  BY PieceType
<1>2. Accepted(p) \in Seq(Given) /\ Passed(p) \in 0..n
  BY AcceptedType
<1> HIDE DEF f
<1>3. longer \in Seq(Byte) /\ Len(longer) = b + n /\ b \in Nat /\ n \in Nat
  BY <1>1, BothWindows
<1>4. ps \o Accepted(p) \in Seq(Given)
  BY <1>2, ConcatProperties
<1>5. G \in SUBSET (0..(Len(longer) - 1))
  <2> HIDE DEF n, b
  <2>1. ASSUME NEW i \in 0..(Passed(p) - 1) PROVE b + i \in 0..(Len(longer) - 1)
    BY <1>2, <1>3
  <2>2. ASSUME NEW i \in F PROVE i \in 0..(Len(longer) - 1)
    <3>1. i \in 0..(b - 1)
      BY DEF b
    <3> QED BY <1>3, <3>1
  <2> QED BY <2>1, <2>2 DEF FramedBy, b
<1>6. ASSUME NEW x \in Seq(Byte), Outside(longer \o x, Len(longer), G)
      PROVE  Packets(longer \o x) = (ps \o Accepted(p)) \o Packets(x)
  <2> DEFINE y == f \o x
             q == base \o y
  <2>1. y \in Seq(Byte) /\ Len(y) = n + Len(x) /\ Len(x) \in Nat
    BY <1>1, BothWindows
  <2>2. longer \o x = q
    <3>1. (base \o f) \o x = base \o (f \o x)
      BY <1>1, Regroup, ZenonT(30)
    <3> QED BY <1>1, <3>1
  <2> HIDE DEF y
  <2>3. n \in 0..Len(y) /\ Outside(q, b + n, G)
    BY <1>3, <1>6, <2>1, <2>2
  <2>4. Outside(q, b, F) /\ Outside(y, n, 0..(Passed(p) - 1))
    <3> DEFINE m == n
    <3>1. m \in 0..Len(y) /\ Outside(q, Len(base) + m, F \cup FramedBy(base, p)) /\ q = base \o y
      BY <2>3
    <3> HIDE DEF m, q
    <3>2. Outside(q, Len(base), F) /\ Outside(y, m, 0..(Passed(p) - 1))
      BY <2>1, <3>1, OutsideBoth
    <3> QED BY <3>2 DEF m
  <2>5. Packets(q) = ps \o Packets(y)
    BY <2>1, <2>4 DEF Delivers
  <2>6. Packets(y) = Accepted(p) \o Packets(x)
    <3>1. y = p.bytes \o x /\ Outside(y, Len(p.bytes), 0..(Passed(p) - 1))
      BY <2>4 DEF y, f
    <3> QED BY <3>1, PieceDecoded
  <2>7. Packets(x) \in Seq(Given)
    BY PacketsAre
  <2>8. (ps \o Accepted(p)) \o Packets(x) = ps \o (Accepted(p) \o Packets(x))
    BY <1>2, <2>7, RegroupPackets, Zenon
  <2> QED BY <2>2, <2>5, <2>6, <2>8
<1>7. Delivers(longer, G, ps \o Accepted(p))
  BY <1>6 DEF Delivers
<1> QED BY <1>3, <1>4, <1>5, <1>7

\* Where no coroutine is in the middle of a write.
Idle(base, F, ps) ==
  /\ \A w \in Writers : unsent[w] = <<>>
  /\ wire = base /\ sent = ps /\ framed = F

\* Where w is, and has written part of p.
Writing(base, F, ps, w, p, part) ==
  /\ \A v \in Writers \ {w} : unsent[v] = <<>>
  /\ unsent[w] # <<>> /\ part # <<>> /\ part \o unsent[w] = p.bytes
  /\ wire = base \o part
  /\ sent = ps \o Accepted(p) /\ framed = F \cup FramedBy(base, p)

\* Writes that have not run into each other have left whole pieces behind, the last
\* of them perhaps not yet complete.
InPieces ==
  ~torn => \E base \in Seq(Byte), ps \in Seq(Given) :
             \E F \in SUBSET (0..(Len(base) - 1)) :
               /\ Delivers(base, F, ps)
               /\ \/ Idle(base, F, ps)
                  \/ \E w \in Writers, p \in Piece, part \in Seq(Byte) :
                       Writing(base, F, ps, w, p, part)

\* The loop has taken out what it could before it reads again.
NothingReady == loop \in {"top", "reading"} => Packets(Contents) = <<>>

\* A write of the piece p, of which part has been written and left is still to be.
LEMMA PutInPieces ==
  ASSUME PathInv, NEW base \in Seq(Byte), NEW ps \in Seq(Given),
         NEW F \in SUBSET (0..(Len(base) - 1)), Delivers(base, F, ps),
         NEW w \in Writers, NEW p \in Piece, NEW part \in Seq(Byte), NEW left \in Seq(Byte),
         part \o left = p.bytes, wire = base \o part,
         \A v \in Writers \ {w} : unsent[v] = <<>>,
         NEW n \in 1..Len(left), NEW calls, Put(w, left, n, calls),
         sent' = ps \o Accepted(p), framed' = F \cup FramedBy(base, p)
  PROVE  InPieces'
<1> DEFINE u == SubSeq(left, 1, n)
           r == Rest(left, n)
           more == part \o u
<1>1. n \in 0..Len(left) /\ Len(left) \in Nat /\ n # 0
  OBVIOUS
<1>2. u \in Seq(Byte) /\ u \o r = left /\ r \in Seq(Byte) /\ Len(r) = Len(left) - n
  BY <1>1, Parted, RestIs
<1>3. /\ unsent' = [unsent EXCEPT ![w] = r] /\ wire' = wire \o u
      /\ unsent \in [Writers -> Seq(Byte)]
  BY DEF Put, PathInv, Typed
<1> HIDE DEF u, r
<1>4. more \in Seq(Byte) /\ more # <<>>
  <2>1. more \in Seq(Byte) /\ Len(more) = Len(part) + Len(u) /\ Len(u) \in Nat /\ Len(part) \in Nat
    BY <1>2, BothWindows
  <2>2. u # <<>>
    <3> SUFFICES ASSUME u = <<>> PROVE FALSE
      OBVIOUS
    <3>1. r = left
      BY <1>2, ConcatEmptySeq
    <3> QED BY <1>1, <1>2, <3>1
  <2>3. Len(u) # 0
    BY <1>2, <2>2, EmptySeq
  <2>4. Len(more) # 0
    BY <2>1, <2>3
  <2> QED BY <2>1, <2>4, EmptySeq
<1>5. more \o r = p.bytes /\ wire' = base \o more
  <2>1. (part \o u) \o r = part \o (u \o r)
    BY <1>2, Regroup, ZenonT(30)
  <2>2. (base \o part) \o u = base \o (part \o u)
    BY <1>2, Regroup, ZenonT(30)
  <2> QED BY <1>2, <1>3, <2>1, <2>2
<1>6. unsent'[w] = r /\ \A v \in Writers \ {w} : unsent'[v] = <<>>
  BY <1>3
<1> HIDE DEF more
<1>7. CASE r = <<>>
  <2> DEFINE G == F \cup FramedBy(base, p)
  <2>1. more = p.bytes
    BY <1>4, <1>5, <1>7, ConcatEmptySeq
  <2>2. PICK longer : longer = base \o p.bytes
    OBVIOUS
  <2>3. /\ longer \in Seq(Byte) /\ ps \o Accepted(p) \in Seq(Given)
        /\ G \in SUBSET (0..(Len(longer) - 1)) /\ Delivers(longer, G, ps \o Accepted(p))
    <3>1. /\ base \in Seq(Byte) /\ F \in SUBSET (0..(Len(base) - 1))
          /\ ps \in Seq(Given) /\ Delivers(base, F, ps) /\ p \in Piece
      OBVIOUS
    <3> QED BY ONLY <2>2, <3>1, DeliversMore
  <2>4. \A v \in Writers : unsent'[v] = <<>>
    BY <1>6, <1>7
  <2>5. wire' = longer
    BY <1>5, <2>1, <2>2
  <2>6. Idle(longer, G, ps \o Accepted(p))'
    BY <2>4, <2>5 DEF Idle
  <2> HIDE DEF G
  <2> QED BY <2>3, <2>6 DEF InPieces
<1>8. CASE r # <<>>
  <2>1. Writing(base, F, ps, w, p, more)'
    BY <1>4, <1>5, <1>6, <1>8 DEF Writing
  <2> QED BY <1>4, <2>1 DEF InPieces
<1> QED BY <1>7, <1>8

\* A step of a sender, or of none.
LEMMA InPiecesSteps ==
  ASSUME PathInv, InPieces, [PathNext]_pathVars
  PROVE  InPieces'
<1>1. ASSUME UNCHANGED sendVars PROVE InPieces'
  <2>1. unsent' = unsent /\ sent' = sent /\ framed' = framed /\ torn' = torn /\ wire' = wire
    BY <1>1 DEF sendVars
  <2>2. \A base, F, ps : Idle(base, F, ps) => Idle(base, F, ps)'
    BY <2>1 DEF Idle
  <2>3. \A base, F, ps, w, p, part :
          Writing(base, F, ps, w, p, part) => Writing(base, F, ps, w, p, part)'
    BY <2>1 DEF Writing
  <2> QED BY <2>1, <2>2, <2>3 DEF InPieces
<1>2. ASSUME NEW w \in Writers, Send(w), ~torn' PROVE InPieces'
  <2>0. PICK p \in Piece : \E n \in 1..Len(p.bytes) :
          /\ sent' = sent \o Accepted(p)
          /\ framed' = framed \cup {Len(wire) + i : i \in 0..(Passed(p) - 1)}
          /\ Put(w, p.bytes, n, 1)
    BY <1>2 DEF Send
  <2>1. PICK n \in 1..Len(p.bytes) :
          /\ sent' = sent \o Accepted(p)
          /\ framed' = framed \cup {Len(wire) + i : i \in 0..(Passed(p) - 1)}
          /\ Put(w, p.bytes, n, 1)
    BY <2>0
  <2>2. ~torn /\ unsent[w] = <<>> /\ \A v \in Writers \ {w} : unsent[v] = <<>>
    BY <1>2, <2>1 DEF Send, Put
  <2>3. PICK base \in Seq(Byte), ps \in Seq(Given) :
          \E F \in SUBSET (0..(Len(base) - 1)) :
            /\ Delivers(base, F, ps)
            /\ \/ Idle(base, F, ps)
               \/ \E v \in Writers, o \in Piece, part \in Seq(Byte) :
                    Writing(base, F, ps, v, o, part)
    BY <2>2 DEF InPieces
  <2>4. PICK F \in SUBSET (0..(Len(base) - 1)) : Delivers(base, F, ps) /\ Idle(base, F, ps)
    BY <2>2, <2>3 DEF Writing
  <2>5. wire = base /\ sent = ps /\ framed = F
    BY <2>4 DEF Idle
  <2>6. sent' = ps \o Accepted(p) /\ framed' = F \cup FramedBy(base, p)
    BY <2>1, <2>5 DEF FramedBy
  <2> DEFINE part == <<>>
             left == p.bytes
  <2>7. /\ part \in Seq(Byte) /\ left \in Seq(Byte)
        /\ part \o left = p.bytes /\ wire = base \o part
    BY <2>5, PieceType, EmptySeq, ConcatEmptySeq
  <2>8. n \in 1..Len(left) /\ Put(w, left, n, 1)
    BY <2>1
  <2> HIDE DEF part, left
  <2> QED BY <2>2, <2>4, <2>6, <2>7, <2>8, PutInPieces
<1>3. ASSUME NEW w \in Writers, WriteSome(w), ~torn' PROVE InPieces'
  <2>1. PICK n \in 1..Len(unsent[w]) : Put(w, unsent[w], n, chunks[w] + 1)
    BY <1>3 DEF WriteSome
  <2>2. /\ ~torn /\ unsent[w] # <<>> /\ sent' = sent /\ framed' = framed
        /\ \A v \in Writers \ {w} : unsent[v] = <<>>
    BY <1>3, <2>1 DEF WriteSome, Put
  <2>3. PICK base \in Seq(Byte), ps \in Seq(Given) :
          \E F \in SUBSET (0..(Len(base) - 1)) :
            /\ Delivers(base, F, ps)
            /\ \/ Idle(base, F, ps)
               \/ \E v \in Writers, o \in Piece, part \in Seq(Byte) :
                    Writing(base, F, ps, v, o, part)
    BY <2>2 DEF InPieces
  <2>4. PICK F \in SUBSET (0..(Len(base) - 1)) :
          /\ Delivers(base, F, ps)
          /\ \E v \in Writers, o \in Piece, part \in Seq(Byte) :
               Writing(base, F, ps, v, o, part)
    BY <2>2, <2>3 DEF Idle
  <2>5. PICK v \in Writers, p \in Piece, part \in Seq(Byte) : Writing(base, F, ps, v, p, part)
    BY <2>4
  <2>6. v = w
    BY <2>2, <2>5 DEF Writing
  <2>7. /\ part \o unsent[w] = p.bytes /\ wire = base \o part
        /\ sent' = ps \o Accepted(p) /\ framed' = F \cup FramedBy(base, p)
    BY <2>2, <2>5, <2>6 DEF Writing
  <2>8. unsent[w] \in Seq(Byte)
    BY DEF PathInv, Typed
  <2>9. PICK left : left = unsent[w]
    OBVIOUS
  <2>10. PICK calls : calls = chunks[w] + 1
    OBVIOUS
  <2>11. /\ left \in Seq(Byte) /\ part \o left = p.bytes
         /\ n \in 1..Len(left) /\ Put(w, left, n, calls)
    BY <2>1, <2>7, <2>8, <2>9, <2>10
  <2> QED BY <2>2, <2>4, <2>7, <2>11, PutInPieces
<1>4. torn' => InPieces'
  BY DEF InPieces
<1>5. MakeRoom \/ ReadSome \/ ReceiveFails \/ DecodeOne \/ DecodeThrows \/ UNCHANGED pathVars
        => UNCHANGED sendVars
  BY DEF MakeRoom, ReadSome, ReceiveFails, DecodeOne, DecodeThrows, pathVars
<1> QED BY <1>1, <1>2, <1>3, <1>4, <1>5 DEF PathNext

\* A decode that finds no packet leaves none.
LEMMA NothingReadySteps ==
  ASSUME PathInv, PathInv', NothingReady, [PathNext]_pathVars
  PROVE  NothingReady'
<1>1. ASSUME UNCHANGED bufferVars PROVE NothingReady'
  <2>1. Contents' = Contents /\ loop' = loop
    BY <1>1 DEF bufferVars, Contents, size
  <2> QED BY <2>1 DEF NothingReady
<1>2. CASE MakeRoom
  <2>1. Prepare /\ loop = "top"
    BY <1>2 DEF MakeRoom, Prepare
  <2>2. Contents' = Contents
    BY <2>1, PrepareStutters DEF PathInv
  <2> QED BY <2>1, <2>2 DEF NothingReady
<1>3. CASE ReadSome \/ ReceiveFails \/ DecodeThrows
  BY <1>3 DEF ReadSome, ReceiveFails, ReadFails, DecodeThrows, DecodeFails, NothingReady
<1>4. CASE DecodeOne
  <2> DEFINE c == Contents
             d == decode_packet(c)
             k == d.consume_len
  <2>1. c \in Seq(Byte)
    BY ContentsType DEF PathInv, BufferInv, ShowsWindow
  <2>2. k \in 0..size /\ consume(k) /\ Len(c) = size
    BY <1>4, DecodeOneDecodes, ContentsType DEF PathInv, BufferInv, ShowsWindow
  <2>3. /\ loop' = IF d.pack = Null THEN "top" ELSE "decoding"
        /\ buffer_' = buffer_
    BY <1>4 DEF DecodeOne
  <2>4. Contents' = Rest(c, k)
    <3> HIDE DEF d
    <3> QED BY <2>2, <2>3, ConsumeTakes DEF PathInv, Rest
  <2>5. CASE d.pack = Null
    <3> HIDE DEF c
    <3>1. PICK e : e = decode_packet(c)
      OBVIOUS
    <3>2. Packets(c) = <<>>
      BY <2>1, <2>5, <3>1, PacketsAre
    <3>3. Packets(c \o <<>>) = Packets(Rest(c, e.consume_len) \o <<>>)
      <4>1. <<>> \in Seq(Byte) /\ e.pack = Null
        BY <2>5, <3>1, EmptySeq
      <4> QED BY <2>1, <3>1, <4>1, DecodedSoFar
    <3>4. e.consume_len \in 0..Len(c)
      BY <2>2, <3>1
    <3>5. Rest(c, e.consume_len) \in Seq(Byte)
      <4>1. PICK m : m = e.consume_len
        OBVIOUS
      <4> QED BY <2>1, <3>4, <4>1, RestIs
    <3>6. Packets(Rest(c, e.consume_len)) = <<>>
      BY <2>1, <3>2, <3>3, <3>5, ConcatEmptySeq
    <3> QED BY <2>4, <3>1, <3>6 DEF NothingReady
  <2>6. CASE d.pack # Null
    BY <2>3, <2>6 DEF NothingReady
  <2> QED BY <2>5, <2>6
<1>5. ASSUME NEW w \in Writers, Send(w) \/ WriteSome(w) PROVE UNCHANGED bufferVars
  BY <1>5 DEF Send, WriteSome
<1>6. UNCHANGED pathVars => UNCHANGED bufferVars
  BY DEF pathVars
<1> QED BY <1>1, <1>2, <1>3, <1>4, <1>5, <1>6 DEF PathNext

\* At the start nothing has been written.
LEMMA PiecesStart == PathInit => InPieces /\ NothingReady
<1> SUFFICES ASSUME PathInit
             PROVE  InPieces /\ NothingReady
  OBVIOUS
<1> DEFINE base == <<>>
           ps == <<>>
           F == {}
<1>1. base \in Seq(Byte) /\ ps \in Seq(Given) /\ F \in SUBSET (0..(Len(base) - 1))
  BY EmptySeq
<1>2. Delivers(base, F, ps)
  <2>1. ASSUME NEW x \in Seq(Byte) PROVE Packets(base \o x) = ps \o Packets(x)
    <3>1. Packets(x) \in Seq(Given)
      BY PacketsAre
    <3>2. <<>> \o x = x /\ <<>> \o Packets(x) = Packets(x)
      BY <3>1, ConcatEmptySeq
    <3> QED BY <3>2
  <2> QED BY <2>1 DEF Delivers
<1>3. Idle(base, F, ps)
  BY DEF PathInit, Idle
<1> HIDE DEF base, ps, F
<1>4. InPieces
  BY <1>1, <1>2, <1>3 DEF InPieces
<1>5. Contents = <<>>
  <2>1. size = 0
    BY DEF PathInit, BufferInit, size
  <2> QED BY <2>1, BufferInitInv, ContentsType DEF PathInit, BufferInv, ShowsWindow
<1> QED BY <1>4, <1>5, NoPackets DEF NothingReady

\* What comes first is a prefix.
LEMMA FirstIsPrefix ==
  ASSUME NEW a \in Seq(Given), NEW b \in Seq(Given)
  PROVE  IsPrefix(a, a \o b)
<1> DEFINE c == a \o b
           n == Len(a)
           u == SubSeq(a, 1, n)
           v == SubSeq(c, 1, n)
<1>1. /\ c \in Seq(Given) /\ Len(c) = n + Len(b)
      /\ \A i \in 1..(n + Len(b)) : c[i] = IF i <= n THEN a[i] ELSE b[i - n]
  BY ConcatProperties
<1>2. n \in Nat /\ Len(b) \in Nat
  OBVIOUS
<1> HIDE DEF c
<1>3. n <= Len(c) /\ n <= Len(a)
  BY <1>1, <1>2
<1>4. \A s \in Seq(Given) : n <= Len(s) =>
        SubSeq(s, 1, n) \in Seq(Given) /\ Len(SubSeq(s, 1, n)) = n
        /\ \A i \in 1..n : SubSeq(s, 1, n)[i] = s[i]
  <2> HIDE DEF n
  <2> QED BY <1>2
<1>5. u \in Seq(Given) /\ Len(u) = n /\ \A i \in 1..n : u[i] = a[i]
  BY <1>3, <1>4
<1>6. v \in Seq(Given) /\ Len(v) = n /\ \A i \in 1..n : v[i] = c[i]
  BY <1>1, <1>3, <1>4
<1> HIDE DEF u, v
<1>7. \A i \in 1..n : u[i] = v[i]
  <2> HIDE DEF n
  <2>1. ASSUME NEW i \in 1..n PROVE u[i] = v[i]
    <3>1. i \in 1..(n + Len(b)) /\ i <= n
      BY <1>2
    <3> QED BY <1>1, <1>5, <1>6, <3>1
  <2> QED BY <2>1
<1>8. u = v
  BY <1>5, <1>6, <1>7, SeqEqual
<1> QED BY <1>3, <1>8 DEF IsPrefix, u, v, c, n

\* What the two invariants say of the packets.
LEMMA PiecesArrive == PathInv /\ InPieces /\ NothingReady => WholeFramesArrive
<1> SUFFICES ASSUME PathInv, InPieces, NothingReady, ~torn, FalseHeaders = {}
             PROVE  /\ IsPrefix(out, sent)
                    /\ loop \in {"top", "reading"} /\ stream = <<>>
                         /\ (\A w \in Writers : unsent[w] = <<>>) => out = sent
  BY DEF WholeFramesArrive
<1> DEFINE later == Packets(Contents \o stream)
<1>1. out \o later = Packets(wire)
  BY CutsFollow DEF CutsDoNotMatter
<1>2. /\ wire \in Seq(Byte) /\ stream \in Seq(Byte) /\ out \in Seq(Given)
      /\ Contents \in Seq(Byte)
  BY ContentsType DEF PathInv, Typed, BufferInv, ShowsWindow
<1>3. later \in Seq(Given)
  <2>1. Contents \o stream \in Seq(Byte)
    BY <1>2, ConcatProperties
  <2> QED BY <2>1, PacketsAre
<1>4. loop \in {"top", "reading"} /\ stream = <<>> => later = <<>>
  BY <1>2, ConcatEmptySeq DEF NothingReady
<1> HIDE DEF later
<1>5. Outside(wire, Len(wire), framed)
  <2> SUFFICES ASSUME NEW k \in 0..(Len(wire) - 1), k + header_length <= Len(wire),
                      IsHeader(wire, k)
               PROVE  k \in framed
    BY DEF Outside
  <2>1. k \in 0..(Len(wire) - header_length)
    BY <1>2 DEF header_length
  <2> QED BY <2>1 DEF FalseHeaders, IsHeader
<1>6. PICK base \in Seq(Byte), ps \in Seq(Given) :
        \E F \in SUBSET (0..(Len(base) - 1)) :
          /\ Delivers(base, F, ps)
          /\ \/ Idle(base, F, ps)
             \/ \E w \in Writers, p \in Piece, part \in Seq(Byte) :
                  Writing(base, F, ps, w, p, part)
  BY DEF InPieces
<1>7. PICK F \in SUBSET (0..(Len(base) - 1)) :
        /\ Delivers(base, F, ps)
        /\ \/ Idle(base, F, ps)
           \/ \E w \in Writers, p \in Piece, part \in Seq(Byte) :
                Writing(base, F, ps, w, p, part)
  BY <1>6
<1>8. PICK q : q = wire
  OBVIOUS
<1>9. CASE Idle(base, F, ps)
  <2>1. wire = base /\ sent = ps /\ framed = F
    BY <1>9 DEF Idle
  <2>2. base \o <<>> = base /\ ps \o <<>> = ps /\ <<>> \in Seq(Byte)
    BY ConcatEmptySeq, EmptySeq
  <2>3. Packets(base \o <<>>) = ps \o Packets(<<>>)
    BY <1>5, <1>7, <2>1, <2>2 DEF Delivers
  <2>4. Packets(wire) = sent
    BY <2>1, <2>2, <2>3, NoPackets
  <2>5. IsPrefix(out, sent)
    BY <1>1, <1>2, <1>3, <2>4, FirstIsPrefix
  <2>6. later = <<>> => out = sent
    BY <1>1, <1>2, <2>4, ConcatEmptySeq
  <2> QED BY <1>4, <2>5, <2>6
<1>10. ASSUME NEW w \in Writers, NEW p \in Piece, NEW part \in Seq(Byte),
              Writing(base, F, ps, w, p, part)
       PROVE  IsPrefix(out, sent) /\ unsent[w] # <<>>
  <2>1. /\ unsent[w] # <<>> /\ part # <<>> /\ part \o unsent[w] = p.bytes
        /\ q = base \o part /\ unsent[w] \in Seq(Byte)
        /\ sent = ps \o Accepted(p) /\ framed = F \cup FramedBy(base, p)
    BY <1>8, <1>10 DEF Writing, PathInv, Typed
  <2>2. Len(q) = Len(base) + Len(part)
    BY <2>1, BothWindows
  <2>3. PICK n : n = Len(part)
    OBVIOUS
  <2>4. n \in 0..Len(part) /\ Outside(q, Len(base) + n, F \cup FramedBy(base, p))
    BY <1>5, <1>8, <2>1, <2>2, <2>3
  <2>5. Outside(q, Len(base), F) /\ Outside(part, n, 0..(Passed(p) - 1))
    BY <2>1, <2>4, OutsideBoth
  <2>6. PICK left : left = unsent[w]
    OBVIOUS
  <2>7. left \in Seq(Byte) /\ left # <<>> /\ part \o left = p.bytes
        /\ Outside(part, Len(part), 0..(Passed(p) - 1))
    BY <2>1, <2>3, <2>5, <2>6
  <2>8. Packets(part) = <<>>
    BY <2>1, <2>7, PartDecoded
  <2>9. Packets(q) = ps \o Packets(part)
    BY <1>7, <2>1, <2>5 DEF Delivers
  <2>10. ps = out \o later
    BY <1>1, <1>8, <2>8, <2>9, ConcatEmptySeq
  <2>11. Accepted(p) \in Seq(Given)
    BY AcceptedType
  <2>12. (out \o later) \o Accepted(p) = out \o (later \o Accepted(p))
    BY <1>2, <1>3, <2>11, RegroupPackets, Zenon
  <2>13. later \o Accepted(p) \in Seq(Given)
    BY <1>3, <2>11, ConcatProperties
  <2>14. IsPrefix(out, out \o (later \o Accepted(p)))
    BY <1>2, <2>13, FirstIsPrefix
  <2> QED BY <2>1, <2>10, <2>12, <2>14
<1> QED BY <1>7, <1>9, <1>10

\* Senders whose writes do not run into each other get every frame across, in the
\* order of their calls and as it was encoded, and nothing else comes out, unless
\* junk passes for a header (connection.hpp:72, packet.hpp:149-159).
THEOREM FramesArriveWhole == PathSpec => []WholeFramesArrive
<1>1. PathInv /\ PathInv' /\ (InPieces /\ NothingReady) /\ [PathNext]_pathVars
        => (InPieces /\ NothingReady)'
  BY InPiecesSteps, NothingReadySteps
<1> QED BY <1>1, PiecesStart, PathInvariance, PiecesArrive, PTL DEF PathSpec

=============================================================================
