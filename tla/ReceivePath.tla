----------------------------- MODULE ReceivePath -----------------------------
(***************************************************************************)
(* From the coroutines that send on one socket to the packets the peer's   *)
(* connection takes out of its buffer: encode_packet and async_write       *)
(* (connection.hpp:67-75, 89), the byte stream between, and receive_packet *)
(* with process_packet's loop over decode_packet (connection.hpp:145-183). *)
(*                                                                         *)
(* The connection has no write queue.  async_write writes what the socket  *)
(* takes at the moment and the rest later, so that two coroutines that     *)
(* send at once may write into the middle of each other's frames.  Junk is *)
(* what a peer that is no asyncmsg program may write.                      *)
(***************************************************************************)
EXTENDS Framing, IoBuffer, SequencesExt, FiniteSetsExt

CONSTANTS
  Writers,    \* coroutines that send on the socket
  Bodies,     \* bodies they send, also some that are too long
  Junk,       \* byte strings that are not frames
  MaxPieces,  \* bound: frames and junk strings of a run
  MaxChunks   \* bound: write_some calls of one async_write

\* A body's length fits its field, and the buffer holds the largest packet.
ASSUME PathAssumption ==
  /\ Base \in Nat \ {0} /\ Byte = 0..(Base - 1) /\ Flag \in Byte
  /\ crc8_table \in [Byte -> Byte] /\ \A a, b \in Byte : xor(a, b) \in Byte
  /\ MaxBody \in Nat /\ MaxPacket = header_length + MaxBody /\ MaxPacket <= Length
  /\ Bodies \subseteq Seq(Byte) /\ \A b \in Bodies : Len(b) < Base * Base
  /\ Junk \subseteq Seq(Byte)
  /\ Null \notin Seq(Byte) /\ Garbled \notin Seq(Byte) /\ Null # Garbled
  /\ MaxPieces \in Nat /\ MaxChunks \in Nat \ {0}

VARIABLES
  unsent,  \* of each writer: the bytes async_write has not written yet
  chunks,  \* and the write_some calls it has made
  pieces,  \* how many frames and junk strings have been begun
  sent,    \* history: the bodies sent that the decoder accepts
  framed,  \* history: where their frames are, and the headers of the others
  torn,    \* history: a write went into the middle of another one
  wire,    \* history: all bytes written
  stream,  \* those that have not been read
  out      \* the packets decoded

sendVars   == <<unsent, chunks, pieces, sent, framed, torn, wire>>
pathVars   == <<bufferVars, sendVars, stream, out>>

\* make_unique has set the buffer to zeros.
PathInit ==
  /\ BufferInit /\ buffer_[0] = 0
  /\ unsent = [w \in Writers |-> <<>>]
  /\ chunks = [w \in Writers |-> 0]
  /\ pieces = 0 /\ sent = <<>> /\ framed = {} /\ torn = FALSE
  /\ wire = <<>> /\ stream = <<>> /\ out = <<>>

-----------------------------------------------------------------------------
(* The senders.                                                            *)

Frame(b) == [frame |-> TRUE, body |-> b, bytes |-> encode_packet(b)]
NoFrame(j) == [frame |-> FALSE, body |-> <<>>, bytes |-> j]
Piece == {Frame(b) : b \in Bodies} \cup {NoFrame(j) : j \in Junk}

\* What the decoder should make of a piece: the body of a frame it accepts, and how
\* many bytes it passes without a look for another flag.
Accepted(p) == IF p.frame /\ ~TooLong(Len(p.body)) THEN <<p.body>> ELSE <<>>
Passed(p) == IF Accepted(p) # <<>> THEN Len(p.bytes)
             ELSE IF p.frame THEN header_length ELSE 0

\* What comes behind the first n bytes.
Rest(bytes, n) == SubSeq(bytes, n + 1, Len(bytes))

\* One write_some of w: the socket takes n of the bytes it still has to write.
Put(w, left, n, calls) ==
  /\ calls = MaxChunks => n = Len(left)
  /\ unsent' = [unsent EXCEPT ![w] = Rest(left, n)]
  /\ chunks' = [chunks EXCEPT ![w] = IF n = Len(left) THEN 0 ELSE calls]
  /\ torn' = (torn \/ \E v \in Writers \ {w} : unsent[v] # <<>>)
  /\ wire' = wire \o SubSeq(left, 1, n)
  /\ stream' = stream \o SubSeq(left, 1, n)

\* send_packet, send_packet_detach or a call encodes its packet and writes.
Send(w) ==
  /\ unsent[w] = <<>> /\ pieces < MaxPieces
  /\ pieces' = pieces + 1
  /\ \E p \in Piece : \E n \in 1..Len(p.bytes) :
       /\ sent' = sent \o Accepted(p)
       /\ framed' = framed \cup {Len(wire) + i : i \in 0..(Passed(p) - 1)}
       /\ Put(w, p.bytes, n, 1)
  /\ UNCHANGED <<bufferVars, out>>

\* The rest, as far as the socket takes it.
WriteSome(w) ==
  /\ unsent[w] # <<>>
  /\ \E n \in 1..Len(unsent[w]) : Put(w, unsent[w], n, chunks[w] + 1)
  /\ UNCHANGED <<bufferVars, pieces, sent, framed, out>>

-----------------------------------------------------------------------------
(* The receiver.                                                           *)

MakeRoom == Prepare /\ UNCHANGED <<sendVars, stream, out>>

\* async_read_some fills as much of the slab as has arrived, or less.
ReadSome ==
  /\ loop = "reading"
  /\ \E n \in 1..Min({slab.size, Len(stream)}) :
       /\ buffer_' = [i \in 0..(Length - 1) |->
                        IF i \in slab.data..(slab.data + n - 1)
                        THEN stream[i - slab.data + 1] ELSE buffer_[i]]
       /\ tail_' = tail_ + n
       /\ stream' = Rest(stream, n)
  /\ loop' = "decoding"
  /\ UNCHANGED <<head_, taken, slab, sendVars, out>>

ReceiveFails == ReadFails /\ UNCHANGED <<sendVars, stream, out>>

\* Returning before the consume when there is no packet.
ConsumedWithPacket(d) == IF d.pack = Null THEN 0 ELSE d.consume_len

\* recv_buffer.consume(consume_len), also when there is no packet.
Consumed(d) == d.consume_len

DecodeOne ==
  /\ loop = "decoding"
  /\ LET d == decode_packet(Contents)
     IN  /\ taken' = SubSeq(Contents, 1, Consumed(d))
         /\ consume(Consumed(d))
         /\ out' = IF d.pack = Null THEN out ELSE Append(out, d.pack)
         /\ loop' = IF d.pack = Null THEN "top" ELSE "decoding"
  /\ UNCHANGED <<buffer_, slab, sendVars, stream>>

\* A packet whose device id reaches behind what has been read may not come out.
DecodeThrows ==
  /\ loop = "decoding" /\ decode_packet(Contents).pack = Garbled
  /\ DecodeFails
  /\ UNCHANGED <<sendVars, stream, out>>

PathNext == \/ \E w \in Writers : Send(w) \/ WriteSome(w)
            \/ MakeRoom \/ ReadSome \/ ReceiveFails \/ DecodeOne \/ DecodeThrows

PathSpec == PathInit /\ [][PathNext]_pathVars

-----------------------------------------------------------------------------
(* Properties.                                                             *)

\* What the decoder leaves in the buffer is empty or the beginning of one packet
\* of a size it accepts, from its flag on: the buffer does not fill up with junk,
\* with a packet too large to take or with the remains of torn frames, and the
\* loop never gives up for want of room (connection.hpp:148-160), which the
\* buffer's size allows if it holds the largest packet.
LeftIsIncomplete ==
  /\ loop # "full"
  /\ loop \in {"top", "reading"} /\ size > 0 =>
       Contents[1] = Flag /\ size < header_length + MaxBody

\* The packets in a string of bytes, one decode_packet after the other.
PacketsFrom(buf, from, k) ==
  LET d == decode_packet(Rest(buf, k))
  IN  IF d.pack = Null THEN <<>> ELSE <<d.pack>> \o from[k + d.consume_len]

Packets(buf) == LET from[k \in 0..Len(buf)] == PacketsFrom(buf, from, k) IN from[0]

\* How the stream is cut into writes and reads makes no difference to where its
\* packets are, nor to what is in each whose device id is in its frame
\* (connection.hpp:175-193): a header, a body or a stretch of junk that arrives in
\* parts is decoded as if it had come at once.  It does make one to a packet with
\* the device_id_len of a false header that reaches behind it (packet.hpp:170-172):
\* of that nothing is said but that it is there, and the loop may end at it.
CutsDoNotMatter == out \o Packets(Contents \o stream) = Packets(wire)

\* Bytes that pass for a header and are none.
FalseHeaders ==
  {k \in 0..(Len(wire) - header_length) :
     wire[k + 1] = Flag /\ CrcMatches(wire, k) /\ k \notin framed}

\* Senders whose writes did not run into each other (connection.hpp:72 has no
\* queue that would prevent it) get every frame across, in the order of their
\* calls and as it was encoded, and nothing else comes out: the decoder finds its
\* place again after junk and after packets too large to take
\* (packet.hpp:149-159), unless junk passes for a header.
WholeFramesArrive ==
  ~torn /\ FalseHeaders = {} =>
    /\ IsPrefix(out, sent)
    /\ loop \in {"top", "reading"} /\ stream = <<>> /\ (\A w \in Writers : unsent[w] = <<>>)
         => out = sent

\* The receiver with the real decoder behind it uses the buffer as module
\* IoBuffer says, so that what is proved there holds here.
ImplementsBuffer == BufferSpec

=============================================================================
