------------------------------ MODULE TcpServer ------------------------------
(***************************************************************************)
(* asyncmsg/tcp::tcp_server: which connections it owns and under which     *)
(* device id, the tasks that send to a device, and stop().                 *)
(*                                                                         *)
(* All state but the stopped flag belongs to the io thread; a step is one  *)
(* handler, or one coroutine from a co_await to the next.  A connection    *)
(* lives while the list, the map or a sending task holds a shared_ptr to   *)
(* it; its two coroutines are those of module Connection, here reduced to  *)
(* the callbacks they make.  What a send on a connection returns (module   *)
(* Connection) is left open: it succeeds or throws.                        *)
(***************************************************************************)
EXTENDS Naturals, Sequences

CONSTANTS
  Conns,    \* connection objects
  Devices,  \* device ids
  Tasks,    \* application tasks that send
  MaxTries, \* max_tries
  Null      \* an empty shared_ptr, an absent map entry, the empty device id

ASSUME ServerAssumption ==
  /\ Null \notin Conns /\ Null \notin Devices
  /\ MaxTries \in Nat

VARIABLES
  stopped,        \* the flag, set by whichever thread calls stop()
  stop,           \* the posted part of stop(): "none", "posted", "forced", "done"
  halted,         \* stop(true) called io_context.stop(): no handler runs any more
  ranOut,         \* io_context.run() returned for want of work: no more either
  accepting,      \* accept(): "waiting", "ready" (completion queued), "ended"
  connections,    \* the list, connections without a device id
  connection_map, \* device id -> connection
  device_id_,     \* of each connection
  loops,          \* receive_packet() || check() of each connection: "none",
                  \* "posted", "running", "readOut" or "checkOut" when that one
                  \* ended first, "draining" if the read check cancelled had
                  \* data, "ended"
  lateId,         \* history: connections identified after check gave them up
  kind,           \* of each task's call: "push", send_packet_and_wait_rsp, or
                  \* "send", send_packet
  pc,             \* where each task is
  target,         \* the device it sends to
  conn,           \* its local shared_ptr
  tries           \* its loop variable i

vars == <<stopped, stop, halted, ranOut, accepting, connections, connection_map,
          device_id_, loops, lateId, kind, pc, target, conn, tries>>
stopVars == <<stopped, stop, halted, ranOut>>
taskVars == <<kind, pc, target, conn, tries>>

\* "stuck": in async_write to a peer that reads no more.
Sending == {"sending", "stuck"}
Results == {"ok", "connection_error", "timeout_error", "invalid_state_error", "error"}

TypeOK ==
  /\ stopped \in BOOLEAN /\ halted \in BOOLEAN /\ ranOut \in BOOLEAN
  /\ stop \in {"none", "posted", "forced", "done"}
  /\ accepting \in {"waiting", "ready", "ended"}
  /\ connections \in Seq(Conns \cup {Null})
  /\ connection_map \in [Devices -> Conns \cup {Null}]
  /\ device_id_ \in [Conns -> Devices \cup {Null}]
  /\ loops \in [Conns -> {"none", "posted", "running", "readOut", "checkOut",
                        "draining", "ended"}]
  /\ lateId \in SUBSET Conns
  /\ kind \in [Tasks -> {"push", "send"}]
  /\ pc \in [Tasks -> {"idle", "called"} \cup Sending \cup Results]
  /\ target \in [Tasks -> Devices \cup {Null}]
  /\ conn \in [Tasks -> Conns \cup {Null}]
  /\ tries \in [Tasks -> 0..MaxTries]

Init ==
  /\ stopped = FALSE /\ stop = "none" /\ halted = FALSE /\ ranOut = FALSE
  /\ accepting = "waiting"
  /\ connections = <<>>
  /\ connection_map = [d \in Devices |-> Null]
  /\ device_id_ = [c \in Conns |-> Null]
  /\ loops = [c \in Conns |-> "none"]
  /\ lateId = {}
  /\ kind = [t \in Tasks |-> "send"]
  /\ pc = [t \in Tasks |-> "idle"]
  /\ target = [t \in Tasks |-> Null]
  /\ conn = [t \in Tasks |-> Null]
  /\ tries = [t \in Tasks |-> 0]

-----------------------------------------------------------------------------
(* The io thread.                                                          *)

\* It is inside io_context.run() and runs what is ready.
IoRuns == ~halted /\ ~ranOut

\* What keeps run() from returning: the work guard until the handler of stop()
\* resets it, that handler, accept(), the coroutines of a connection, and a
\* task that was spawned and has not ended, in a stuck write too.
HasWork ==
  \/ stop # "done" \/ accepting # "ended"
  \/ \E c \in Conns : loops[c] \notin {"none", "ended"}
  \/ \E t \in Tasks : pc[t] \in {"called"} \cup Sending

RunReturns ==
  /\ IoRuns /\ ~HasWork
  /\ ranOut' = TRUE
  /\ UNCHANGED <<stopped, stop, halted, accepting, connections, connection_map,
                 device_id_, loops, lateId, taskVars>>

-----------------------------------------------------------------------------
(* Ownership.                                                              *)

\* The slot of the list that holds c; no connection is in two.
Slot(l, c) == CHOOSE i \in DOMAIN l : l[i] = c

Holds(l, c) == \E i \in DOMAIN l : l[i] = c

Listed(c)     == Holds(connections, c)
Registered(c) == \E d \in Devices : connection_map[d] = c
Held(c)       == \E t \in Tasks : conn[t] = c
Alive(c)      == Listed(c) \/ Registered(c) \/ Held(c)

\* Erasing from the match to the end, as remove_if's result used alone suggests.
RemoveTail(l, c) == IF Holds(l, c) THEN SubSeq(l, 1, Slot(l, c) - 1) ELSE l

\* std::remove_if without the erase: the others move up, the size stays, and
\* the slot freed at the end holds c itself if it was there, else a moved-from
\* shared_ptr.
RemoveIf(l, c) ==
  IF Holds(l, c)
  THEN [i \in DOMAIN l |-> IF i < Slot(l, c) THEN l[i]
                           ELSE IF i < Len(l) THEN l[i + 1]
                           ELSE IF l[i] = c THEN c ELSE Null]
  ELSE l

\* A list that keeps the connection it has just moved to the map.
KeepSlot(l, c) == l

\* connections.erase of the slot that holds c.
EraseSlot(l, c) ==
  [i \in 1..(Len(l) - 1) |-> IF i < Slot(l, c) THEN l[i] ELSE l[i + 1]]

\* Forgetting to erase the entry.
UnregisterNobody(c) == connection_map

\* connection_map.clear().
UnregisterAll(c) == [d \in Devices |-> Null]

\* connection_map.erase(device_id): by the id alone, whoever is registered.
Unregister(c) ==
  [d \in Devices |-> IF d = device_id_[c] THEN Null ELSE connection_map[d]]

OnDisconnected(c) ==
  /\ connection_map' = Unregister(c)
  /\ connections' = RemoveIf(connections, c)

OnGotDeviceId(c, d) ==
  IF Listed(c)
  THEN /\ connection_map' = [connection_map EXCEPT ![d] = c]
       /\ connections' = EraseSlot(connections, c)
  ELSE UNCHANGED <<connection_map, connections>>

-----------------------------------------------------------------------------
(* accept().                                                               *)

\* A client connects; the completion of async_accept is queued.
Incoming ==
  /\ IoRuns /\ accepting = "waiting"
  /\ accepting' = "ready"
  /\ UNCHANGED <<stopVars, connections, connection_map, device_id_, loops, lateId,
                 taskVars>>

\* The loop does not look at stopped.
Accept(c) ==
  /\ IoRuns /\ accepting = "ready"
  /\ loops[c] = "none"
  /\ accepting' = "waiting"
  /\ connections' = Append(connections, c)
  /\ loops' = [loops EXCEPT ![c] = "posted"]
  /\ UNCHANGED <<stopVars, connection_map, device_id_, lateId, taskVars>>

\* async_accept throws out of the detached coroutine.
AcceptFails ==
  /\ IoRuns /\ accepting = "waiting"
  /\ accepting' = "ended"
  /\ UNCHANGED <<stopVars, connections, connection_map, device_id_, loops, lateId,
                 taskVars>>

-----------------------------------------------------------------------------
(* The coroutines of a connection and their callbacks.                     *)

Start(c) ==
  /\ IoRuns /\ loops[c] = "posted"
  /\ loops' = [loops EXCEPT ![c] = IF Alive(c) THEN "running" ELSE "ended"]
  /\ UNCHANGED <<stopVars, accepting, connections, connection_map, device_id_,
                 lateId, taskVars>>

\* A read that had data when check ended is still processed, and is the last.
LastRead(c) ==
  /\ loops' = [loops EXCEPT ![c] = IF @ = "checkOut" THEN "draining" ELSE @]
  /\ lateId' = IF loops[c] = "checkOut" THEN lateId \cup {c} ELSE lateId

\* A connection that takes the device of each packet as its own.
IdentifyAgain(c, d) ==
  /\ IoRuns /\ Alive(c)
  /\ loops[c] \in {"running", "checkOut"}
  /\ device_id_' = [device_id_ EXCEPT ![c] = d]
  /\ OnGotDeviceId(c, d)
  /\ LastRead(c)
  /\ UNCHANGED <<stopVars, accepting, taskVars>>

\* process_packet on the first packet that names a device.
Identify(c, d) ==
  /\ IoRuns /\ Alive(c)
  /\ loops[c] \in {"running", "checkOut"}
  /\ device_id_[c] = Null
  /\ device_id_' = [device_id_ EXCEPT ![c] = d]
  /\ OnGotDeviceId(c, d)
  /\ LastRead(c)
  /\ UNCHANGED <<stopVars, accepting, taskVars>>

\* receive_packet ends: a read error, or a packet that names another device.
ReadEnds(c) ==
  /\ IoRuns /\ Alive(c)
  /\ loops[c] \in {"running", "checkOut", "draining"}
  /\ loops' = [loops EXCEPT ![c] = IF @ = "running" THEN "readOut" ELSE "ended"]
  /\ OnDisconnected(c)
  /\ UNCHANGED <<stopVars, accepting, device_id_, lateId, taskVars>>

\* check ends: the connection was silent too long.
CheckEnds(c) ==
  /\ IoRuns /\ Alive(c)
  /\ loops[c] \in {"running", "readOut"}
  /\ loops' = [loops EXCEPT ![c] = IF @ = "running" THEN "checkOut" ELSE "ended"]
  /\ OnDisconnected(c)
  /\ UNCHANGED <<stopVars, accepting, device_id_, lateId, taskVars>>

\* No callback: cancelled, or weak_this found the object gone.
EndQuietly(c) ==
  /\ IoRuns
  /\ \/ loops[c] \in {"readOut", "checkOut", "draining"}
     \/ loops[c] = "running" /\ ~Alive(c)
  /\ loops' = [loops EXCEPT ![c] = "ended"]
  /\ UNCHANGED <<stopVars, accepting, connections, connection_map, device_id_,
                 lateId, taskVars>>

-----------------------------------------------------------------------------
(* send_packet and send_packet_and_wait_rsp.                               *)

\* The application calls; the work is spawned on the io_context, whether or not
\* there is a thread left that runs it.
CallSend(t, k, d) ==
  /\ pc[t] = "idle"
  /\ kind' = [kind EXCEPT ![t] = k]
  /\ pc' = [pc EXCEPT ![t] = "called"]
  /\ target' = [target EXCEPT ![t] = d]
  /\ UNCHANGED <<stopVars, accepting, connections, connection_map, device_id_,
                 loops, lateId, conn, tries>>

\* Waiting for an absent device without limit.
RoundWaits(t, i) ==
  LET c == connection_map[target[t]]
      result == CASE stopped -> "invalid_state_error"
                  [] ~stopped /\ c # Null -> "sending"
                  [] ~stopped /\ c = Null -> "called"
  IN  /\ pc' = [pc EXCEPT ![t] = result]
      /\ conn' = [conn EXCEPT ![t] = IF result = "sending" THEN c ELSE Null]
      /\ tries' = [tries EXCEPT ![t] = i]

\* Round i of the loop up to its co_await.  send_packet to an absent device
\* returns as if it had sent.
Round(t, i) ==
  LET c == connection_map[target[t]]
      result == CASE stopped -> "invalid_state_error"
                  [] ~stopped /\ c # Null -> "sending"
                  [] ~stopped /\ c = Null ->
                       IF kind[t] = "push" THEN "connection_error" ELSE "ok"
  IN  /\ pc' = [pc EXCEPT ![t] = result]
      /\ conn' = [conn EXCEPT ![t] = IF result = "sending" THEN c ELSE Null]
      /\ tries' = [tries EXCEPT ![t] = i]

ioVars == <<stopVars, accepting, connections, connection_map, device_id_, loops,
            lateId, kind, target>>

Begin(t) ==
  /\ IoRuns /\ pc[t] = "called"
  /\ Round(t, 0)
  /\ UNCHANGED ioVars

Finish(t, result) ==
  /\ pc' = [pc EXCEPT ![t] = result]
  /\ conn' = [conn EXCEPT ![t] = Null]
  /\ UNCHANGED tries

Succeed(t) ==
  /\ IoRuns /\ pc[t] = "sending"
  /\ Finish(t, "ok")
  /\ UNCHANGED ioVars

Stall(t) ==
  /\ pc[t] = "sending"
  /\ pc' = [pc EXCEPT ![t] = "stuck"]
  /\ UNCHANGED <<ioVars, conn, tries>>

MayRetry(t) == tries[t] < MaxTries

\* The connection's call throws.  A push goes round again while i <= max_tries.
Fail(t) ==
  /\ IoRuns /\ pc[t] \in Sending
  /\ CASE kind[t] = "send" -> Finish(t, "error")
       [] kind[t] = "push" /\ MayRetry(t) -> Round(t, tries[t] + 1)
       [] kind[t] = "push" /\ ~MayRetry(t) -> Finish(t, "timeout_error")
  /\ UNCHANGED ioVars

-----------------------------------------------------------------------------
(* stop(force).                                                            *)

Stop(force) ==
  /\ ~stopped
  /\ stopped' = TRUE
  /\ stop' = IF force THEN "forced" ELSE "posted"
  /\ UNCHANGED <<halted, ranOut, accepting, connections, connection_map, device_id_,
                 loops, lateId, taskVars>>

\* The list not cleared: only the identified connections go.
ListAfterStopKept == connections

ListAfterStop == <<>>

StopHandler ==
  /\ IoRuns /\ stop \in {"posted", "forced"}
  /\ stop' = "done"
  /\ halted' = (stop = "forced")
  /\ accepting' = IF accepting = "waiting" THEN "ended" ELSE accepting
  /\ connection_map' = [d \in Devices |-> Null]
  /\ connections' = ListAfterStop
  /\ UNCHANGED <<stopped, ranOut, device_id_, loops, lateId, taskVars>>

-----------------------------------------------------------------------------

ConnStep(c) == \/ Accept(c) \/ Start(c)
               \/ ReadEnds(c) \/ CheckEnds(c) \/ EndQuietly(c)
               \/ \E d \in Devices : Identify(c, d)

TaskStep(t) == \/ Begin(t) \/ Succeed(t) \/ Stall(t) \/ Fail(t)
               \/ \E k \in {"push", "send"}, d \in Devices : CallSend(t, k, d)

Next == \/ Incoming \/ AcceptFails
        \/ \E c \in Conns : ConnStep(c)
        \/ \E t \in Tasks : TaskStep(t)
        \/ \E force \in BOOLEAN : Stop(force)
        \/ StopHandler \/ RunReturns

SendEnds(t) == pc[t] = "sending" /\ (Succeed(t) \/ Fail(t))

\* The io thread runs what is ready while it is in run(), whose guard stop(false)
\* resets too; a send on a connection ends, by a response, an error or its
\* timeout, unless its write is stuck (Connection!EveryCallReturns).
Fairness ==
  /\ WF_vars(StopHandler) /\ WF_vars(RunReturns)
  /\ \A c \in Conns : WF_vars(Start(c)) /\ WF_vars(EndQuietly(c))
  /\ \A t \in Tasks : WF_vars(Begin(t)) /\ WF_vars(SendEnds(t))

Spec == Init /\ [][Next]_vars
FairSpec == Spec /\ Fairness

-----------------------------------------------------------------------------
(* Properties.                                                             *)

\* The list and the map agree: a registered connection carries the id it is
\* registered under and has left the list; the list holds nobody twice; and a
\* connection that is being read and has not named its device is in it, where
\* on_got_device_id looks for it: other connections' disconnects, which run
\* remove_if without erase (tcp_server.hpp:146), lose nobody.
RegistryConsistent ==
  /\ TypeOK
  /\ \A d \in Devices : connection_map[d] # Null =>
       device_id_[connection_map[d]] = d /\ ~Listed(connection_map[d])
  /\ \A i, j \in DOMAIN connections :
       i # j /\ connections[i] = connections[j] => connections[i] = Null
  /\ \A c \in Conns : loops[c] \in {"posted", "running"} /\ device_id_[c] = Null
                      => Listed(c) \/ stop = "done"

\* A registered connection is being read, so that it can answer pushes and be
\* found dead; but a connection that check gave up and that had a first packet
\* in its last read is registered with nobody reading it.
RegisteredHasReader ==
  \A d \in Devices : LET c == connection_map[d] IN
    c # Null => loops[c] = "running" \/ c \in lateId

\* A task sends on a connection of the device it names, also after retries,
\* reconnects and evictions.
SendsToItsDevice ==
  \A t \in Tasks : pc[t] \in Sending => conn[t] # Null /\ device_id_[conn[t]] = target[t]

\* A connection loses its registration when it ends itself, when a newer one of
\* the device takes its place, when the server stops, or - because
\* on_disconnected erases by id - when an older one of the device ends that a
\* sending task has kept alive.
EvictionHasCause ==
  [][\A d \in Devices :
       LET c == connection_map[d] IN
       c # Null /\ connection_map'[d] # c =>
         \/ stop' = "done"
         \/ connection_map'[d] # Null
         \/ loops'[c] # loops[c]
         \/ \E old \in Conns \ {c} : /\ device_id_[old] = d /\ Held(old)
                                     /\ loops'[old] # loops[old]]_vars

\* Every send begun while the io thread is in io_context.run() returns or throws,
\* unless stop(true) halted it or a peer that stopped reading holds its write:
\* retries end, and stop() ends them sooner (tcp_server.hpp:82-85).  run() cannot
\* return under a send, but it may before one: begun after stop(false) has reset
\* the guard (tcp_server.hpp:56) and the last work ended, a send does neither.
EveryTaskReturns ==
  \A t \in Tasks :
    pc[t] \in {"called", "sending"} /\ ~ranOut
      ~> pc[t] \in Results \cup {"stuck"} \/ halted

\* stop() ends every connection it finds, also those a sending task holds and
\* those that never named a device, so that io_context.run() can return and the
\* destructor's join (tcp_server.hpp:34) end; a stuck write keeps its own alive.
\* A connection accepted after the handler ran is not among them.
StopEndsConnections ==
  \A c \in Conns :
    stop \in {"posted", "forced"} /\ loops[c] # "none"
      ~> \/ loops[c] = "ended" \/ halted
         \/ \E t \in Tasks : pc[t] = "stuck" /\ conn[t] = c

=============================================================================
