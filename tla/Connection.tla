----------------------------- MODULE Connection -----------------------------
(***************************************************************************)
(* asyncmsg/tcp::detail::connection (connection.hpp): one connection       *)
(* object, the two coroutines it runs (receive_packet() || check()), the   *)
(* callers suspended inside send_packet_and_wait_rsp, and its lifetime.    *)
(*                                                                         *)
(* Everything runs on the one thread of the owner's io_context, so a step  *)
(* is what a handler or coroutine does between two co_awaits.  The object  *)
(* is reference counted: it is destroyed, socket and requests map with it, *)
(* when the last shared_ptr goes.  The owner (tcp_client::conn, or the     *)
(* server's list and map) holds one; on the server each caller holds       *)
(* another while its call runs (tcp_server.hpp:93), on the client none     *)
(* does (tcp_client.hpp:109).                                              *)
(*                                                                         *)
(* A caller stands for the packet_id of its request.  The peer and the     *)
(* owner are environment.                                                  *)
(***************************************************************************)
EXTENDS Naturals, Sequences, FiniteSets

CONSTANTS
  Callers,        \* the requests, one packet_id each
  Side,           \* "client" or "server": whose connection this is
  MaxTries,       \* bound: calls made with one packet
  MaxPeerPackets  \* bound: packets the peer sends that are not replies

ASSUME ConnectionAssumption ==
  /\ Side \in {"client", "server"}
  /\ MaxTries \in Nat \ {0}
  /\ MaxPeerPackets \in Nat

VARIABLES
  owned,      \* the owner still holds its shared_ptr
  rx,         \* receive_packet: "posted" until start()'s handler runs, then
              \* "reading"; "cancelled" when check ended first, "draining" if
              \* that read had data after all; "ended"
  ck,         \* check: "posted", "sleeping", "cancelled" (receive_packet ended
              \* first), "ended"
  device_id_, \* "none", empty, until a packet names the device
  pc,         \* where each caller is
  tries,      \* calls each caller has made
  requests,   \* the keys of the requests map
  unanswered, \* per request, copies the peer has received and not answered
  inp,        \* packets on their way from the peer
  peer,       \* the peer's end of the socket: "open", "stalled" when it reads
              \* no more, "closed"
  peerSent,   \* packets the peer sent on its own account
  reports,    \* calls of on_disconnected
  strayUse    \* history: handlers that used the object after its destruction

vars == <<owned, rx, ck, device_id_, pc, tries, requests, unanswered, inp,
          peer, peerSent, reports, strayUse>>
peerVars == <<unanswered, peer, peerSent>>

InCall   == {"writing", "written", "waiting", "replied"}
Returned == {"ok", "timeout_error", "invalid_state_error", "system_error"}
Packet   == [rsp : BOOLEAN, dev : {"none", "own", "other"}, id : Callers]

TypeOK ==
  /\ owned \in BOOLEAN
  /\ rx \in {"posted", "reading", "cancelled", "draining", "ended"}
  /\ ck \in {"posted", "sleeping", "cancelled", "ended"}
  /\ device_id_ \in {"none", "own", "other"}
  /\ pc \in [Callers -> {"idle"} \cup InCall \cup Returned]
  /\ tries \in [Callers -> 0..MaxTries]
  /\ requests \in SUBSET Callers
  /\ unanswered \in [Callers -> Nat]
  /\ inp \in Seq(Packet)
  /\ peer \in {"open", "stalled", "closed"}
  /\ peerSent \in 0..MaxPeerPackets
  /\ reports \in 0..2
  /\ strayUse \subseteq {"start", "send", "erase", "read", "check"}

\* The device a client passes to the constructor is not stored: device_id_ is
\* initialised from itself, which leaves it empty on both sides.
Init ==
  /\ owned = TRUE
  /\ rx = "posted" /\ ck = "posted"
  /\ device_id_ = "none"
  /\ pc = [c \in Callers |-> "idle"]
  /\ tries = [c \in Callers |-> 0]
  /\ requests = {}
  /\ unanswered = [c \in Callers |-> 0]
  /\ inp = <<>>
  /\ peer = "open" /\ peerSent = 0
  /\ reports = 0
  /\ strayUse = {}

-----------------------------------------------------------------------------
(* Lifetime.                                                               *)

\* Callers whose frame holds a shared_ptr to the connection.
Held(at) == Side = "server" /\ \E c \in Callers : at[c] \in InCall

\* A receive loop that keeps a shared_ptr of its own.
AliveWhileRead == owned \/ Held(pc) \/ rx = "reading"

Alive == owned \/ Held(pc)

\* The lock check after async_write forgotten.
UncheckedSender == TRUE

\* weak_this.lock() after each co_await: in the sender, before it erases its
\* entry, in the receive loop and in check.
SenderLocks == Alive
EraserLocks == Alive
ReaderLocks == Alive
CheckLocks  == Alive

Use(who) == strayUse' = IF Alive THEN strayUse ELSE strayUse \cup {who}

\* A step leaves owner reference own, caller positions at, requests req and
\* input q.  If the last reference goes with it the object is destroyed: the
\* channels in the map and the socket are closed, so every receive and every
\* write under way ends with an error.
Settle(own, at, req, q) ==
  LET dies == ~(own \/ Held(at))
  IN  /\ owned' = own
      /\ pc' = IF dies
               THEN [c \in Callers |-> IF at[c] \in {"writing", "waiting"}
                                       THEN "system_error" ELSE at[c]]
               ELSE at
      /\ requests' = IF dies THEN {} ELSE req
      /\ inp' = IF dies THEN <<>> ELSE q

\* An owner that is told and does nothing.
OnDisconnectedIgnored(q) ==
  /\ reports' = reports + 1
  /\ Settle(owned, pc, requests, q)

\* on_disconnected: both owners drop their reference.
OnDisconnected(q) ==
  /\ reports' = reports + 1
  /\ Settle(FALSE, pc, requests, q)

\* The owner lets go on its own account: stop(), or a newer connection of the
\* device takes this one's place.
OwnerReleases ==
  /\ owned
  /\ Settle(FALSE, pc, requests, inp)
  /\ UNCHANGED <<rx, ck, device_id_, tries, peerVars, reports, strayUse>>

\* start(): the posted handler spawns receive_packet() || check() through a raw
\* pointer.  On a destroyed object the group finds nothing to run on.
Start ==
  /\ rx = "posted"
  /\ Use("start")
  /\ rx' = IF Alive THEN "reading" ELSE "ended"
  /\ ck' = IF Alive THEN "sleeping" ELSE "ended"
  /\ UNCHANGED <<owned, device_id_, pc, tries, requests, inp, peerVars, reports>>

-----------------------------------------------------------------------------
(* send_packet_and_wait_rsp.                                               *)

\* Both owners call through the reference they hold; the server finds the
\* connection by its device id.
Call(c) ==
  /\ pc[c] \in {"idle"} \cup (Returned \ {"ok"})
  /\ tries[c] < MaxTries
  /\ owned
  /\ Side = "server" => device_id_ # "none"
  /\ pc' = [pc EXCEPT ![c] = "writing"]
  /\ tries' = [tries EXCEPT ![c] = @ + 1]
  /\ UNCHANGED <<owned, rx, ck, device_id_, requests, inp, peerVars, reports,
                 strayUse>>

\* async_write hands the packet to the socket; its completion is queued.  It has
\* no timeout: while the peer does not read it stays under way.
Write(c) ==
  /\ pc[c] = "writing" /\ peer # "stalled"
  /\ pc' = [pc EXCEPT ![c] = "written"]
  /\ unanswered' = [unanswered EXCEPT ![c] = IF peer = "open" THEN @ + 1 ELSE @]
  /\ UNCHANGED <<owned, rx, ck, device_id_, tries, requests, inp, peer, peerSent,
                 reports, strayUse>>

WriteFails(c) ==
  /\ pc[c] = "writing" /\ peer = "closed"
  /\ Settle(owned, [pc EXCEPT ![c] = "system_error"], requests, inp)
  /\ UNCHANGED <<rx, ck, device_id_, tries, peerVars, reports, strayUse>>

\* The sender resumes and only now enters its channel in requests, replacing
\* the one an earlier try left there, and starts the timer.
Registered(c) == requests \cup {c}

Register(c) ==
  /\ pc[c] = "written"
  /\ IF SenderLocks
     THEN /\ pc' = [pc EXCEPT ![c] = "waiting"]
          /\ requests' = Registered(c)
          /\ Use("send")
          /\ UNCHANGED <<owned, inp>>
     ELSE /\ Settle(owned, [pc EXCEPT ![c] = "invalid_state_error"], requests, inp)
          /\ UNCHANGED strayUse
  /\ UNCHANGED <<rx, ck, device_id_, tries, peerVars, reports>>

\* Clearing every entry on a timeout.
AfterTimeoutClears(c) == {}

\* The timer wins: the entry stays in requests.
AfterTimeout(c) == requests

\* A timer that counts only while the owner holds the connection.
TimerNeedsOwner(c) == pc[c] = "waiting" /\ owned

TimerRuns(c) == pc[c] = "waiting"

TimerFires(c) ==
  /\ TimerRuns(c)
  /\ Settle(owned, [pc EXCEPT ![c] = "timeout_error"], AfterTimeout(c), inp)
  /\ UNCHANGED <<rx, ck, device_id_, tries, peerVars, reports, strayUse>>

\* Forgetting the erase.
AfterReturnKeeps(c) == requests

AfterReturn(c) == requests \ {c}

\* The channel wins: the sender erases its entry if the object is still there.
Return(c) ==
  /\ pc[c] = "replied"
  /\ strayUse' = IF EraserLocks /\ ~Alive THEN strayUse \cup {"erase"} ELSE strayUse
  /\ Settle(owned, [pc EXCEPT ![c] = "ok"], AfterReturn(c), inp)
  /\ UNCHANGED <<rx, ck, device_id_, tries, peerVars, reports>>

-----------------------------------------------------------------------------
(* receive_packet and check.                                               *)

\* Matching on the id alone.
AnsweredAnyKind(p) ==
  IF p.id \in requests /\ pc[p.id] = "waiting"
  THEN [pc EXCEPT ![p.id] = "replied"] ELSE pc

\* process_packet on a response: a receiver waiting on the channel of its id
\* gets it; otherwise it is dropped or stays unread in a channel nobody reads.
Answered(p) ==
  IF p.rsp /\ p.id \in requests /\ pc[p.id] = "waiting"
  THEN [pc EXCEPT ![p.id] = "replied"] ELSE pc

\* One packet of a read.  A read that brings several runs this several times.
ReceivePacket ==
  /\ rx \in {"reading", "cancelled", "draining"}
  /\ inp # <<>>
  /\ LET p == Head(inp)
         accepts == p.dev # "none" /\ device_id_ \in {"none", p.dev}
     IN  /\ device_id_' = IF accepts THEN p.dev ELSE device_id_
         /\ IF p.dev # "none" /\ ~accepts
            THEN /\ OnDisconnected(Tail(inp))
                 /\ rx' = "ended"
                 /\ ck' = IF ck = "sleeping" THEN "cancelled" ELSE ck
            ELSE /\ Settle(owned, IF accepts THEN Answered(p) ELSE pc, requests, Tail(inp))
                 /\ rx' = IF rx = "cancelled" THEN "draining" ELSE rx
                 /\ UNCHANGED <<ck, reports>>
  /\ Use("read")
  /\ UNCHANGED <<tries, peerVars>>

ReadAborts == \/ rx = "reading" /\ (peer = "closed" \/ ~Alive)
              \/ rx = "cancelled"

\* The break after the error forgotten: the loop reads on.
ReadFailsAndGoesOn ==
  /\ ReadAborts
  /\ rx' = IF ReaderLocks THEN rx ELSE "ended"
  /\ ck' = IF ck = "sleeping" /\ ~ReaderLocks THEN "cancelled" ELSE ck
  /\ IF ReaderLocks
     THEN OnDisconnected(inp) /\ Use("read")
     ELSE UNCHANGED <<owned, pc, requests, inp, reports, strayUse>>
  /\ UNCHANGED <<device_id_, tries, peerVars>>

\* async_read_some ends with an error: end of stream or reset, the socket closed
\* by the destructor, or the cancellation that follows check's end.
ReadFails ==
  /\ ReadAborts
  /\ rx' = "ended"
  /\ ck' = IF ck = "sleeping" THEN "cancelled" ELSE ck
  /\ IF ReaderLocks
     THEN OnDisconnected(inp) /\ Use("read")
     ELSE UNCHANGED <<owned, pc, requests, inp, reports, strayUse>>
  /\ UNCHANGED <<device_id_, tries, peerVars>>

\* After draining, the cancelled coroutine throws at its next co_await.
DrainEnds ==
  /\ rx = "draining"
  /\ rx' = "ended"
  /\ UNCHANGED <<owned, ck, device_id_, pc, tries, requests, inp, peerVars, reports,
                 strayUse>>

\* check's timer expires after the silence it tolerates.  It may have expired
\* just before receive_packet's end cancelled it.
CheckExpires ==
  /\ ck \in {"sleeping", "cancelled"}
  /\ CheckLocks
  /\ ck' = "ended"
  /\ rx' = IF rx = "reading" THEN "cancelled" ELSE rx
  /\ OnDisconnected(inp)
  /\ Use("check")
  /\ UNCHANGED <<device_id_, tries, peerVars>>

\* check ends quietly: cancelled, or the object is gone when it wakes.
CheckStops ==
  /\ ck = "cancelled" \/ (ck = "sleeping" /\ ~CheckLocks)
  /\ ck' = "ended"
  /\ rx' = IF rx = "reading" THEN "cancelled" ELSE rx
  /\ UNCHANGED <<owned, device_id_, pc, tries, requests, inp, peerVars, reports,
                 strayUse>>

-----------------------------------------------------------------------------
(* The peer.                                                               *)

PeerReplies(c) ==
  /\ peer # "closed" /\ Alive
  /\ unanswered[c] > 0
  /\ unanswered' = [unanswered EXCEPT ![c] = @ - 1]
  /\ inp' = Append(inp, [rsp |-> TRUE, dev |-> "own", id |-> c])
  /\ UNCHANGED <<owned, rx, ck, device_id_, pc, tries, requests, peer, peerSent,
                 reports, strayUse>>

\* A request of the peer's own, whose id may equal one of ours.
PeerSends(c, d) ==
  /\ peer # "closed" /\ Alive
  /\ peerSent < MaxPeerPackets
  /\ peerSent' = peerSent + 1
  /\ inp' = Append(inp, [rsp |-> FALSE, dev |-> d, id |-> c])
  /\ UNCHANGED <<owned, rx, ck, device_id_, pc, tries, requests, unanswered, peer,
                 reports, strayUse>>

PeerStops(how) ==
  /\ peer = "open" \/ (peer = "stalled" /\ how = "closed")
  /\ peer' = how
  /\ UNCHANGED <<owned, rx, ck, device_id_, pc, tries, requests, unanswered, inp,
                 peerSent, reports, strayUse>>

-----------------------------------------------------------------------------

CallerStep(c) == \/ Call(c) \/ Write(c) \/ WriteFails(c)
                 \/ Register(c) \/ TimerFires(c) \/ Return(c)

PeerStep == \/ \E c \in Callers : PeerReplies(c)
            \/ \E c \in Callers, d \in {"none", "own", "other"} : PeerSends(c, d)
            \/ \E how \in {"stalled", "closed"} : PeerStops(how)

Next == \/ OwnerReleases \/ Start
        \/ \E c \in Callers : CallerStep(c)
        \/ ReceivePacket \/ ReadFails \/ DrainEnds
        \/ CheckExpires \/ CheckStops
        \/ PeerStep

\* The io thread runs every ready handler, timers expire, and unless the peer is
\* stalled the socket either takes a packet or reports an error.  Nothing is asked
\* of the peer, of the owner, or of check, which reports only after a silence.
Fairness ==
  /\ WF_vars(Start) /\ WF_vars(ReceivePacket) /\ WF_vars(ReadFails)
  /\ WF_vars(DrainEnds) /\ WF_vars(CheckStops)
  /\ \A c \in Callers : /\ WF_vars(Write(c) \/ WriteFails(c))
                        /\ WF_vars(Register(c))
                        /\ WF_vars(TimerFires(c))
                        /\ WF_vars(Return(c))

Spec == Init /\ [][Next]_vars
FairSpec == Spec /\ Fairness

-----------------------------------------------------------------------------
(* Properties.                                                             *)

\* A caller suspended on its channel can always be woken other than by its
\* timer: the object exists and its entry is in requests, so that a response
\* finds it (connection.hpp:215) and destruction closes it.  The entry is made
\* after the write, replaced by retries and dropped with the object.
WaiterCanBeWoken ==
  \A c \in Callers : pc[c] = "waiting" => Alive /\ c \in requests

\* Only start()'s handler can run on a destroyed object; every coroutine that
\* resumes after a co_await finds out before it touches a member
\* (connection.hpp:92, 108, 131, 165).
StrayUseOnlyAtStart == strayUse \subseteq {"start"}

\* start() posts "to make sure shared_ptr has been constructed"
\* (connection.hpp:117): its handler then runs on an object someone owns.
StartFindsOwner == "start" \notin strayUse

\* A client is told once that its connection is gone.  A server is told at most
\* twice, by receive_packet and by check, and only because a caller kept the
\* object alive between the two.
ReportBound == reports <= IF Side = "client" THEN 1 ELSE 2

\* On a client no request waits on a connection whose receive loop has ended: it
\* would wait for nothing but its timer.  (A server's can: the call itself keeps
\* the object alive.)
WaiterHasReader == \A c \in Callers : pc[c] = "waiting" => rx # "ended"

\* An entry of requests nobody reads was left by a timeout (connection.hpp:103
\* throws before the erase): calls that end any other way clean up.
LeftoverOnlyFromTimeout ==
  \A c \in requests : pc[c] \in {"waiting", "replied", "timeout_error"} \/ tries[c] > 1

\* The contract of the call, CallPromise, is implemented: each response the peer
\* sends completes at most one call, the one that asked for it.
StatusOf(p) == CASE p = "idle" -> "idle"
                 [] p = "writing" -> "open"
                 [] p \in {"written", "waiting"} -> "asked"
                 [] p \in {"replied", "ok"} -> "ok"
                 [] OTHER -> "failed"
RepliesTo(c) == {i \in DOMAIN inp : inp[i].rsp /\ inp[i].id = c}

Promise == INSTANCE CallPromise WITH
  status  <- [c \in Callers |-> StatusOf(pc[c])],
  asked   <- unanswered,
  replies <- [c \in Callers |-> Cardinality(RepliesTo(c))]
ImplementsPromise == Promise!Spec

\* Every call returns or throws, whatever the owner does and whether or not the
\* peer answers (connection.hpp:102).  The timeout does not cover the write: a
\* peer that stops reading can hold a server's call in async_write for ever.
EveryCallReturns ==
  \A c \in Callers :
    pc[c] \in InCall ~> \/ pc[c] \in Returned
                        \/ pc[c] = "writing" /\ peer = "stalled"

\* When the owner and the calls have let go the two coroutines end, so that a stopped io_context
\* runs out of work (tcp_client.hpp:58, 62).
LoopsFollowObject == ~owned /\ ~Held(pc) ~> (rx = "ended" /\ ck = "ended")

=============================================================================
