------------------------------ MODULE IoBuffer ------------------------------
(***************************************************************************)
(* asyncmsg/detail::io_buffer_view (io_buffer.hpp), driven as the receive  *)
(* loop of a connection drives it (connection.hpp:145-183): make room,     *)
(* read into the slab, commit what came, let the decoder consume.          *)
(*                                                                         *)
(* Offsets count from 0, as in the code.  Byte values matter only in that  *)
(* they must come out as they went in.  The decoder is reduced to how much *)
(* it may leave: it stops at an incomplete packet, so at less than         *)
(* MaxPacket, the length of a header and the largest body (packet.hpp:142, *)
(* 161).                                                                   *)
(***************************************************************************)
EXTENDS Integers, Sequences

CONSTANTS
  Length,    \* length_, recv_buf_size in the connection
  Byte,
  MaxPacket  \* header_length + max_body_length

ASSUME BufferAssumption ==
  /\ Length \in Nat \ {0}
  /\ Byte # {}
  /\ MaxPacket \in Nat \ {0}

VARIABLES
  buffer_, head_, tail_,
  taken,     \* the bytes the decoder has last read at read_head() and consumed
  slab,      \* what the last prepare returned: offset and size
  loop       \* the receive loop: "top", "reading", "decoding", "ended", or
             \* "full" when it gave up for want of room

bufferVars == <<buffer_, head_, tail_, taken, slab, loop>>

BufferTypeOK ==
  /\ buffer_ \in [0..(Length - 1) -> Byte]
  /\ head_ \in 0..Length /\ tail_ \in 0..Length /\ head_ <= tail_
  /\ taken \in Seq(Byte)
  /\ slab \in [data : 0..Length, size : 0..Length]
  /\ loop \in {"top", "reading", "decoding", "ended", "full"}

\* make_unique value-initialises: one byte throughout.
BufferInit ==
  /\ \E zero \in Byte : buffer_ = [i \in 0..(Length - 1) |-> zero]
  /\ head_ = 0 /\ tail_ = 0
  /\ taken = <<>>
  /\ slab = [data |-> 0, size |-> 0]
  /\ loop = "top"

size      == tail_ - head_
capacity  == Length - size
free_size == Length - tail_

-----------------------------------------------------------------------------
(* prepare.                                                                *)

\* head_ reset before the memmove.
ResetBeforeMove(n) ==
  IF n > free_size
  THEN UNCHANGED buffer_ /\ tail_' = size /\ head_' = 0
  ELSE UNCHANGED <<buffer_, head_, tail_>>

\* Make room for n: what is not consumed moves to the front.
Moved(n) ==
  IF n > free_size
  THEN /\ buffer_' = [i \in 0..(Length - 1) |->
                        IF i < size THEN buffer_[head_ + i] ELSE buffer_[i]]
       /\ tail_' = size /\ head_' = 0
  ELSE UNCHANGED <<buffer_, head_, tail_>>

\* The request cut to the room there is once all is at the front.
Granted(n) == IF n > capacity THEN capacity ELSE n

prepare(n) ==
  /\ Moved(n)
  /\ slab' = [data |-> tail_', size |-> Granted(n)]

-----------------------------------------------------------------------------
(* The receive loop.                                                       *)

\* What is free behind the data or, if that is nothing, what a move would free.
SizeToRead == IF free_size > 0 THEN free_size ELSE capacity

\* Without any room process_packet sees the bytes it has just left and consumes
\* nothing, and the loop ends.
Prepare ==
  /\ loop = "top"
  /\ IF SizeToRead > 0
     THEN prepare(SizeToRead) /\ loop' = "reading"
     ELSE loop' = "full" /\ UNCHANGED <<buffer_, head_, tail_, slab>>
  /\ UNCHANGED taken

\* async_read_some fills part of the slab or all of it; commit.
Read ==
  /\ loop = "reading"
  /\ \E n \in 1..slab.size :
       /\ tail_' = tail_ + n
       /\ \E data \in [1..n -> Byte] :
            buffer_' = [i \in 0..(Length - 1) |->
                          IF i \in slab.data..(slab.data + n - 1)
                          THEN data[i - slab.data + 1] ELSE buffer_[i]]
  /\ loop' = "decoding"
  /\ UNCHANGED <<head_, taken, slab>>

ReadFails ==
  /\ loop = "reading"
  /\ loop' = "ended"
  /\ UNCHANGED <<buffer_, head_, tail_, taken, slab>>

consume(k) ==
  IF head_ + k >= tail_ THEN head_' = 0 /\ tail_' = 0
                        ELSE head_' = head_ + k /\ tail_' = tail_

Incomplete(left) == left < MaxPacket

\* One decode_packet and the consume of what it names: a packet and what precedes
\* it, after which process_packet goes on, or only bytes that start none.
Decode ==
  /\ loop = "decoding"
  /\ \E k \in 0..size :
       /\ taken' = [i \in 1..k |-> buffer_[head_ + i - 1]]
       /\ consume(k)
       /\ \/ k > 0 /\ loop' = "decoding"
          \/ Incomplete(size - k) /\ loop' = "top"
  /\ UNCHANGED <<buffer_, slab>>

\* decode_packet throws, or ends the program, where it reads memory behind what it
\* is given (packet.hpp:171-172).
DecodeFails ==
  /\ loop = "decoding"
  /\ loop' = "ended"
  /\ UNCHANGED <<buffer_, head_, tail_, taken, slab>>

BufferNext == Prepare \/ Read \/ ReadFails \/ Decode \/ DecodeFails

BufferSpec == BufferInit /\ [][BufferNext]_bufferVars

-----------------------------------------------------------------------------
(* Properties.                                                             *)

\* While a read is under way its slab is free space of the buffer, right behind
\* the data, and at least one byte: async_read_some on an empty slab completes
\* at once with nothing, and the loop would spin (connection.hpp:148, 162).
SlabIsFree ==
  loop = "reading" => /\ slab.data = tail_
                      /\ slab.size > 0
                      /\ slab.data + slab.size <= Length

\* The loop never gives up for want of room (connection.hpp:157) if the buffer
\* can hold the largest packet.
NeverFull == MaxPacket <= Length => loop # "full"

\* The buffer is a queue of bytes: the decoder gets the bytes that were read, in
\* their order, each once, across moves, resets and partial reads
\* (io_buffer.hpp:131-137, 155-162).
Contents == [i \in 1..size |-> buffer_[head_ + i - 1]]
Queue == INSTANCE ByteQueue WITH queue <- Contents
ImplementsQueue == Queue!Spec

=============================================================================
