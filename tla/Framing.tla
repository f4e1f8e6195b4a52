------------------------------- MODULE Framing -------------------------------
(***************************************************************************)
(* The frame format: encode_packet and decode_packet (packet.hpp:102-177), *)
(* the byte order of its integers and its check sum.                       *)
(*                                                                         *)
(* The header is reduced to what the decoder acts on: the flag,            *)
(* device_id_len, body_len and the crc over what precedes it.  The other   *)
(* fields, device_id among them, travel with the body.  device_id_len is   *)
(* reduced to a byte that says how far the device id reaches behind the    *)
(* header: 0 unless it is longer than its field and the fields that follow *)
(* it.  body_len is two bytes long, and a byte has Bits bits.              *)
(***************************************************************************)
EXTENDS Naturals, Sequences

CONSTANTS
  Bits,       \* width of a byte
  Flag,       \* packet_begin_flag
  MaxBody,    \* max_body_length
  crc8_table,
  xor(_, _),  \* of two bytes, val ^ data[i]
  Null,       \* no packet: the decoder's nullptr
  Garbled     \* a packet whose device id is read from behind its frame

Base == 2 ^ Bits

\* The most significant byte first, whatever the host's order.
host_to_network_32(x) == <<x \div Base, x % Base>>

network_to_host_32(word) == word[1] * Base + word[2]

calc_crc8(data) ==
  LET val[i \in 0..Len(data)] ==
        IF i = 0 THEN 119 % Base ELSE crc8_table[xor(val[i - 1], data[i])]
  IN  val[Len(data)]

header_length == 5

\* The device id fits its field (packet.hpp:116).
encode_packet(body) ==
  LET fields == <<Flag, 0>> \o host_to_network_32(Len(body))
  IN  fields \o <<calc_crc8(fields)>> \o body

-----------------------------------------------------------------------------
(* decode_packet.                                                          *)

\* How many bytes from offset k on come before the next flag.
ToFlag(buf, k) ==
  LET flags == {i \in k + 1..Len(buf) : buf[i] = Flag}
  IN  IF flags = {} THEN Len(buf) ELSE (CHOOSE i \in flags : \A j \in flags : i <= j) - 1

CrcMatches(buf, k) == buf[k + 5] = calc_crc8(SubSeq(buf, k + 1, k + 4))

\* No bound on the length a header may name.
AnyLength(len) == FALSE

TooLong(len) == len > MaxBody

\* Giving up a header whose crc is wrong as a whole.
SkipHeader(k) == k + header_length

\* A flag with a wrong crc may be a byte of junk just before a frame.
SkipFlag(k) == k + 1

\* device_id_len is not checked: one of a false header may reach over the body to
\* bytes behind it.
Overruns(buf, k, len) == buf[k + 2] > len

\* The packet at a header, its device id in its frame, or bytes that came later,
\* are left of earlier ones or are none of the buffer's.
PacketAt(buf, k, len) ==
  IF Overruns(buf, k, len) THEN Garbled
  ELSE SubSeq(buf, k + header_length + 1, k + header_length + len)

\* What the loop of decode_packet comes to from offset k on, if from[j] is what it
\* comes to from a later offset j: how much to consume, and a packet unless what is
\* left is too short.
DecodeFrom(buf, from, k) ==
  LET start == ToFlag(buf, k)
      left  == Len(buf) - start
      len   == network_to_host_32(SubSeq(buf, start + 3, start + 4))
  IN  CASE left < header_length ->
             [consume_len |-> start, pack |-> Null]
        [] left >= header_length /\ ~CrcMatches(buf, start) ->
             from[SkipFlag(start)]
        [] left >= header_length /\ CrcMatches(buf, start) /\ TooLong(len) ->
             from[start + header_length]
        [] left >= header_length /\ CrcMatches(buf, start) /\ ~TooLong(len) ->
             IF left < header_length + len
             THEN [consume_len |-> start, pack |-> Null]
             ELSE [consume_len |-> start + header_length + len,
                   pack |-> PacketAt(buf, start, len)]

decode_packet(buf) ==
  LET from[k \in 0..Len(buf)] == DecodeFrom(buf, from, k) IN from[0]

=============================================================================
