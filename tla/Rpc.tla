--------------------------------- MODULE Rpc ---------------------------------
(***************************************************************************)
(* Remote calls end to end: rpc_client.hpp's call on one device, the       *)
(* server's request channels (tcp_server::wait_request and                 *)
(* on_receive_request), the handler loops of rpc_server.hpp, and the       *)
(* response, which send_packet sends to the device's connection of the     *)
(* moment.                                                                 *)
(*                                                                         *)
(* A handler loop runs on an executor of its own; the channels and the     *)
(* connection belong to the server's io thread.  A message is a model      *)
(* value that says which call's handling it is from.                       *)
(***************************************************************************)
EXTENDS Naturals, Sequences

CONSTANTS
  Calls,       \* calls of rpc::call
  Names,       \* rpc names
  Handlers,    \* handler loops
  Serves,      \* the name each of them is registered for
  hash,        \* (uint32_t) std::hash of each name
  seq,         \* what next_seq gives each call
  ChannelSize, \* received_packet_channel_size
  Codes,       \* error codes a handler returns
  parses,      \* the handlers whose messages each call's T parses, and Null if
               \* it parses an empty body
  Null         \* no channel, no request, no message

ASSUME RpcAssumption ==
  /\ Serves \in [Handlers -> Names]
  /\ ChannelSize \in Nat /\ Codes \subseteq Nat
  /\ parses \in [Calls -> SUBSET (Handlers \cup {Null})]
  \* the names in use do not meet in 32 bits, nor in heartbeat_cmd, 0
  /\ hash \in [Names -> Nat \ {0}]
  /\ \A a, b \in Names : hash[a] = hash[b] => a = b
  \* the calls are fewer than next_seq has numbers (module PacketIdentity)
  /\ seq \in [Calls -> Nat]
  /\ \A a, b \in Calls : seq[a] = seq[b] => a = b

VARIABLES
  stopped,  \* the server's flag
  stop,     \* the posted part of its stop(): "none", "posted", "forced", "done"
  halted,   \* stop(true) called its io_context.stop()
  ranOut,   \* its io_context.run() returned for want of work
  serverUp, \* the server's map has a connection for the device
  clientUp, \* the client has a connection
  toServer, \* requests on their way
  toClient, \* responses on their way
  channels, \* received_request_channels: absent, or the requests in the buffer
  at,       \* each handler loop: "asking" before wait_request's task has run,
            \* "waiting" in async_receive, "got" a request, "running" it,
            \* "sending" the response, "stuck" in a write the device does not
            \* read, "ended"
  holds,    \* the request a loop has
  answer,   \* the response it sends
  pc,       \* each call: "idle", "waiting", "done"
  result,   \* what it came back with
  name,     \* the name it called
  runs,     \* history: calls a handler has run for, with the handler
  again,    \* history: calls handlers have run for more than once
  returned  \* history: what the handlers returned, per call

stopVars    == <<stopped, stop, halted, ranOut>>
linkVars    == <<serverUp, clientUp>>
handlerVars == <<at, holds, answer>>
callVars    == <<pc, result, name>>
historyVars == <<runs, again, returned>>
vars == <<stopVars, linkVars, toServer, toClient, channels, handlerVars, callVars,
          historyVars>>

rpc_id(n) == hash[n]

Ids == {rpc_id(n) : n \in Names}

err_deserialize == 3

\* What parse_body yields: a message, by the call it answers, or an error code;
\* how a call that got no response ends; and what it has before.
Value(c) == [kind |-> "value", of |-> c, ec |-> 0]
Error(e) == [kind |-> "error", of |-> Null, ec |-> e]
Thrown   == [kind |-> "thrown", of |-> Null, ec |-> 0]
Nothing  == [kind |-> "none", of |-> Null, ec |-> 0]
Outcomes == {Value(c) : c \in Calls \cup {Null}}
            \cup {Error(e) : e \in Codes \cup {err_deserialize}} \cup {Thrown, Nothing}

\* A message's seq tells its call, which is in it for the histories only.
OfItsCall(messages) == {m \in messages : m.seq = seq[m.call]}

\* A request: its command and seq, and whether its body can be parsed.
Requests  == OfItsCall([call : Calls, cmd : Ids, seq : Nat, good : BOOLEAN])
\* A response: the request's cmd and seq, its ec, whose value the body is and
\* which handler's message; an error has no body.
Responses == OfItsCall([call : Calls, cmd : Ids, seq : Nat, ec : Nat,
                        body : Calls \cup {Null}, by : Handlers \cup {Null}])

\* Null is neither a request nor a channel.
ASSUME NullAssumption == Null \notin Requests /\ Null \notin Seq(Requests)

TypeOK ==
  /\ stopped \in BOOLEAN /\ halted \in BOOLEAN /\ ranOut \in BOOLEAN
  /\ stop \in {"none", "posted", "forced", "done"}
  /\ serverUp \in BOOLEAN /\ clientUp \in BOOLEAN
  /\ toServer \in Seq(Requests) /\ toClient \in Seq(Responses)
  /\ \A id \in Ids : channels[id] # Null =>
       channels[id] \in Seq(Requests) /\ Len(channels[id]) <= ChannelSize
  /\ at \in [Handlers -> {"asking", "waiting", "got", "running", "sending", "stuck",
                          "ended"}]
  /\ \A h \in Handlers :
       at[h] \in {"got", "running", "sending", "stuck"} <=> holds[h] # Null
  /\ holds \in [Handlers -> Requests \cup {Null}]
  /\ answer \in [Handlers -> Responses \cup {Null}]
  /\ pc \in [Calls -> {"idle", "waiting", "done"}]
  /\ result \in [Calls -> Outcomes]
  /\ name \in [Calls -> Names \cup {Null}]

Init ==
  /\ stopped = FALSE /\ stop = "none" /\ halted = FALSE /\ ranOut = FALSE
  /\ serverUp = FALSE /\ clientUp = FALSE
  /\ toServer = <<>> /\ toClient = <<>>
  /\ channels = [id \in Ids |-> Null]
  /\ at = [h \in Handlers |-> "asking"]
  /\ holds = [h \in Handlers |-> Null]
  /\ answer = [h \in Handlers |-> Null]
  /\ pc = [c \in Calls |-> "idle"]
  /\ result = [c \in Calls |-> Nothing]
  /\ name = [c \in Calls |-> Null]
  /\ runs = {} /\ again = {}
  /\ returned = [c \in Calls |-> {}]

\* The server's io thread is inside io_context.run() and runs what is ready.
IoRuns == ~halted /\ ~ranOut

-----------------------------------------------------------------------------
(* call, on the client.                                                    *)

EndsWith(c, outcome) ==
  /\ pc' = [pc EXCEPT ![c] = "done"]
  /\ result' = [result EXCEPT ![c] = outcome]

\* build_request_packet and send_packet_and_wait_rsp; without a connection the
\* call throws in the end.
Call(c, n, good) ==
  /\ pc[c] = "idle"
  /\ name' = [name EXCEPT ![c] = n]
  /\ IF clientUp
     THEN /\ pc' = [pc EXCEPT ![c] = "waiting"]
          /\ toServer' =
               IF serverUp
               THEN Append(toServer, [call |-> c, cmd |-> rpc_id(n), seq |-> seq[c],
                                      good |-> good])
               ELSE toServer
          /\ UNCHANGED result
     ELSE /\ EndsWith(c, Thrown)
          /\ UNCHANGED toServer
  /\ UNCHANGED <<stopVars, linkVars, toClient, channels, handlerVars, historyVars>>

\* The timeout: a client tries once.
CallTimesOut(c) ==
  /\ pc[c] = "waiting"
  /\ EndsWith(c, Thrown)
  /\ UNCHANGED <<stopVars, linkVars, toServer, toClient, channels, handlerVars, name,
                 historyVars>>

\* parse_body with the T of a call: an error code of 0 is none, no body is an empty
\* message, and a body that T does not parse is an error of parse_body's own.
Parsed(c, r) ==
  CASE r.ec # 0                         -> Error(r.ec)
    [] r.ec = 0 /\ r.by \in parses[c]    -> Value(r.body)
    [] r.ec = 0 /\ r.by \notin parses[c] -> Error(err_deserialize)

\* The calls that wait under the command alone.
WaitingForName(r) == {c \in Calls : pc[c] = "waiting" /\ rpc_id(name[c]) = r.cmd}

\* The calls that wait under the packet_id of a response.
WaitingUnder(r) ==
  {c \in Calls : pc[c] = "waiting" /\ rpc_id(name[c]) = r.cmd /\ seq[c] = r.seq}

\* process_packet and, when a call is waiting for it, call's return.
ResponseArrives ==
  /\ clientUp /\ toClient # <<>>
  /\ LET r == Head(toClient)
     IN  IF WaitingUnder(r) # {}
         THEN \E c \in WaitingUnder(r) : EndsWith(c, Parsed(c, r))
         ELSE UNCHANGED <<pc, result>>
  /\ toClient' = Tail(toClient)
  /\ UNCHANGED <<stopVars, linkVars, toServer, channels, handlerVars, name,
                 historyVars>>

-----------------------------------------------------------------------------
(* The connection.                                                         *)

Connect ==
  /\ IoRuns /\ ~clientUp
  /\ serverUp' = TRUE /\ clientUp' = TRUE
  /\ toServer' = <<>> /\ toClient' = <<>>
  /\ UNCHANGED <<stopVars, channels, handlerVars, callVars, historyVars>>

\* An end drops the connection; what it had sent may be lost from some point on.
\* On the client its calls throw.
ServerLeaves(n) ==
  /\ serverUp /\ n \in 0..Len(toClient)
  /\ serverUp' = FALSE
  /\ toServer' = <<>>
  /\ toClient' = SubSeq(toClient, 1, n)
  /\ UNCHANGED <<stopVars, clientUp, channels, handlerVars, callVars, historyVars>>

ClientLeaves(n) ==
  /\ clientUp /\ n \in 0..Len(toServer)
  /\ clientUp' = FALSE
  /\ toClient' = <<>>
  /\ toServer' = SubSeq(toServer, 1, n)
  /\ pc' = [c \in Calls |-> IF pc[c] = "waiting" THEN "done" ELSE pc[c]]
  /\ result' = [c \in Calls |-> IF pc[c] = "waiting" THEN Thrown ELSE result[c]]
  /\ UNCHANGED <<stopVars, serverUp, channels, handlerVars, name, historyVars>>

-----------------------------------------------------------------------------
(* The server's channels.                                                  *)

WaitingFor(id) == {h \in Handlers : at[h] = "waiting" /\ rpc_id(Serves[h]) = id}

Receives(h, r) ==
  /\ at' = [at EXCEPT ![h] = "got"]
  /\ holds' = [holds EXCEPT ![h] = r]

\* The bound of a channel's buffer.
HasRoom(q) == Len(q) < ChannelSize

\* on_receive_request: to a loop that waits, into the buffer, or, without a
\* channel or room, nowhere.
ReceiveRequest ==
  /\ IoRuns /\ toServer # <<>>
  /\ toServer' = Tail(toServer)
  /\ LET r == Head(toServer)
     IN  IF WaitingFor(r.cmd) # {}
         THEN (\E h \in WaitingFor(r.cmd) : Receives(h, r)) /\ UNCHANGED channels
         ELSE /\ channels' = IF channels[r.cmd] # Null /\ HasRoom(channels[r.cmd])
                             THEN [channels EXCEPT ![r.cmd] = Append(@, r)] ELSE channels
              /\ UNCHANGED <<at, holds>>
  /\ UNCHANGED <<stopVars, linkVars, toClient, answer, callVars, historyVars>>

\* A channel made anew for every wait_request.
FreshChannel(id) == <<>>

\* What the channel of a command has buffered; it is made at the first
\* wait_request.
Buffered(id) == IF channels[id] = Null THEN <<>> ELSE channels[id]

\* A receive that leaves the request in the buffer.
PeekedOnly(q) == q

Popped(q) == Tail(q)

\* wait_request's task; it throws out of the loop once the server is stopped.
AskRequest(h) ==
  /\ IoRuns /\ at[h] = "asking"
  /\ LET id == rpc_id(Serves[h])
         q  == Buffered(id)
     IN  CASE stopped ->
                /\ at' = [at EXCEPT ![h] = "ended"]
                /\ UNCHANGED <<holds, channels>>
           [] ~stopped /\ q = <<>> ->
                /\ at' = [at EXCEPT ![h] = "waiting"]
                /\ channels' = [channels EXCEPT ![id] = <<>>]
                /\ UNCHANGED holds
           [] ~stopped /\ q # <<>> ->
                /\ Receives(h, Head(q))
                /\ channels' = [channels EXCEPT ![id] = Popped(q)]
  /\ UNCHANGED <<stopVars, linkVars, toServer, toClient, answer, callVars, historyVars>>

-----------------------------------------------------------------------------
(* The handler loops.                                                      *)

GoesRound(h) ==
  /\ at' = [at EXCEPT ![h] = "asking"]
  /\ holds' = [holds EXCEPT ![h] = Null]
  /\ answer' = [answer EXCEPT ![h] = Null]

\* A loop that an exception ends.
Escapes(h) ==
  /\ at' = [at EXCEPT ![h] = "ended"]
  /\ holds' = [holds EXCEPT ![h] = Null]
  /\ answer' = [answer EXCEPT ![h] = Null]

\* The catch around the handler and the send.
Caught(h) == GoesRound(h)

handlerFrame == <<stopVars, linkVars, toServer, channels, callVars>>

\* A body that cannot be parsed is not answered.
ParseRequest(h) ==
  /\ at[h] = "got"
  /\ IF holds[h].good
     THEN /\ at' = [at EXCEPT ![h] = "running"]
          /\ runs' = runs \cup {<<holds[h].call, h>>}
          /\ again' = IF \E g \in Handlers : <<holds[h].call, g>> \in runs
                      THEN again \cup {holds[h].call} ELSE again
          /\ UNCHANGED <<holds, answer>>
     ELSE GoesRound(h) /\ UNCHANGED <<runs, again>>
  /\ UNCHANGED <<handlerFrame, toClient, returned>>

\* The handler returns a message or an error code, from which
\* build_response_packet makes the response.
HandlerReturns(h, outcome) ==
  /\ at[h] = "running"
  /\ LET r == holds[h]
     IN  /\ answer' = [answer EXCEPT ![h] =
                         [call |-> r.call, cmd |-> r.cmd, seq |-> r.seq,
                          ec |-> outcome.ec, body |-> outcome.of,
                          by |-> IF outcome.kind = "value" THEN h ELSE Null]]
         /\ returned' = [returned EXCEPT ![r.call] = @ \cup {outcome}]
  /\ at' = [at EXCEPT ![h] = "sending"]
  /\ UNCHANGED <<handlerFrame, toClient, holds, runs, again>>

\* A std::exception; the catch takes no other.
HandlerThrows(h) ==
  /\ at[h] = "running"
  /\ Caught(h)
  /\ UNCHANGED <<handlerFrame, toClient, historyVars>>

\* send_packet throws when the server is stopped and does nothing when the
\* device is not there.
SendResponse(h) ==
  /\ IoRuns /\ at[h] = "sending"
  /\ IF stopped THEN Caught(h) ELSE GoesRound(h)
  /\ toClient' = IF ~stopped /\ serverUp /\ clientUp
                 THEN Append(toClient, answer[h]) ELSE toClient
  /\ UNCHANGED <<handlerFrame, historyVars>>

\* The device reads no more: the write has no timeout, and the loop holds the
\* connection that stop() would otherwise close.
SendStalls(h) ==
  /\ IoRuns /\ at[h] = "sending" /\ ~stopped /\ serverUp
  /\ at' = [at EXCEPT ![h] = "stuck"]
  /\ UNCHANGED <<handlerFrame, toClient, holds, answer, historyVars>>

\* The write fails.
SendFails(h) ==
  /\ IoRuns
  /\ \/ at[h] = "sending" /\ ~stopped /\ serverUp
     \/ at[h] = "stuck"
  /\ Caught(h)
  /\ UNCHANGED <<handlerFrame, toClient, historyVars>>

-----------------------------------------------------------------------------
(* stop(force) of the server.                                              *)

Stop(force) ==
  /\ ~stopped
  /\ stopped' = TRUE
  /\ stop' = IF force THEN "forced" ELSE "posted"
  /\ UNCHANGED <<halted, ranOut, linkVars, toServer, toClient, channels, handlerVars, callVars,
                 historyVars>>

\* Channels left as they are.
ReceivesKept == at

\* channel->cancel(): wait_request throws out of the loops that wait.  What is
\* posted to them does not run any more when the io_context is stopped next.
ReceivesCancelled == [h \in Handlers |-> IF at[h] = "waiting" THEN "ended" ELSE at[h]]

StopHandler ==
  /\ IoRuns /\ stop \in {"posted", "forced"}
  /\ at' = IF stop = "forced" THEN at ELSE ReceivesCancelled
  /\ stop' = "done"
  /\ halted' = (stop = "forced")
  /\ serverUp' = FALSE
  /\ toServer' = <<>>
  /\ UNCHANGED <<stopped, ranOut, clientUp, toClient, channels, holds, answer, callVars,
                 historyVars>>

\* stop() has reset the work guard, and nothing is left on the io thread: no
\* connection, no write, no receive.  A loop on an executor of its own is not work
\* of the io_context until it asks or sends.
RunReturns ==
  /\ IoRuns /\ stop = "done" /\ ~serverUp
  /\ \A h \in Handlers : at[h] \notin {"waiting", "stuck"}
  /\ ranOut' = TRUE
  /\ UNCHANGED <<stopped, stop, halted, linkVars, toServer, toClient, channels,
                 handlerVars, callVars, historyVars>>

-----------------------------------------------------------------------------

Results(h) == {Value(holds[h].call)} \cup {Error(e) : e \in Codes}

Runs(h) == HandlerThrows(h) \/ \E outcome \in Results(h) : HandlerReturns(h, outcome)

HandlerStep(h) == \/ AskRequest(h) \/ ParseRequest(h)
                  \/ at[h] = "running" /\ Runs(h)
                  \/ SendResponse(h) \/ SendStalls(h) \/ SendFails(h)

CallStep(c) == CallTimesOut(c) \/ \E n \in Names, good \in BOOLEAN : Call(c, n, good)

LinkStep == \/ Connect
            \/ \E n \in 0..Len(toClient) : ServerLeaves(n)
            \/ \E n \in 0..Len(toServer) : ClientLeaves(n)

Next == \/ \E c \in Calls : CallStep(c)
        \/ ResponseArrives \/ LinkStep \/ ReceiveRequest
        \/ \E h \in Handlers : HandlerStep(h)
        \/ \E force \in BOOLEAN : Stop(force)
        \/ StopHandler \/ RunReturns

\* The io thread, while it is in run(), and the handlers' executor run what is
\* ready; handlers return.
Fairness ==
  /\ WF_vars(StopHandler)
  /\ \A h \in Handlers : /\ WF_vars(AskRequest(h)) /\ WF_vars(ParseRequest(h))
                         /\ WF_vars(at[h] = "running" /\ Runs(h))
                         /\ WF_vars(SendResponse(h))

Spec == Init /\ [][Next]_vars
FairSpec == Spec /\ Fairness

-----------------------------------------------------------------------------
(* Properties.                                                             *)

\* A request is run by at most one handler, once, and by one of the name called
\* (rpc_protocol.hpp:16-19), given that the names' hashes differ: the channel
\* hands it out once, also when it was buffered or several loops wait for the
\* same name.
RunOnce == /\ TypeOK
           /\ again = {}
           /\ \A r \in runs : Serves[r[2]] = name[r[1]]

\* A message was returned for the call that its T does not parse.
Unparsed(c) ==
  \/ Value(c) \in returned[c] /\ \E h \in Handlers \ parses[c] : <<c, h>> \in runs
  \/ Error(0) \in returned[c] /\ Null \notin parses[c]

\* What a call returns is what a handler returned for that very call, whatever
\* connection the response came back on and whichever calls of its name are
\* waiting by then; with two exceptions: an error code of 0 arrives as an empty
\* message (rpc_protocol.hpp:47-49), and a message the caller's T does not parse
\* arrives as err_deserialize (rpc_protocol.hpp:54-56), an error code that no
\* handler need have returned.
ReturnsWhatHandlerDid ==
  \A c \in Calls :
    result[c] \notin {Nothing, Thrown} =>
      \/ result[c] \in returned[c]
      \/ result[c] = Value(Null) /\ Error(0) \in returned[c]
      \/ result[c] = Error(err_deserialize) /\ Unparsed(c)

\* A handler loop ends only because the server stops: a malformed request, a
\* handler that throws a std::exception (rpc_server.hpp:25, 52) and a response that
\* cannot be sent leave it running.
LoopsEndOnlyByStop == \A h \in Handlers : at[h] = "ended" => stopped

\* stop() ends every handler loop, waiting or not, with three exceptions: stop(true)
\* has halted the io thread on which wait_request and send_packet would go on; the
\* loop is stuck in a write; or stop(false) let io_context.run() return
\* (tcp_server.hpp:56) while the loop's handler ran, and what the loop asks or
\* sends next is never taken up.
StopEndsLoops ==
  \A h \in Handlers :
    stopped ~> \/ at[h] \in {"ended", "stuck"} \/ halted
               \/ ranOut /\ at[h] \in {"asking", "sending"}

\* A request in a channel, which only a loop of its name makes, is taken by a
\* handler, unless the server stops or all the loops of its name are stuck in
\* writes.
QueuedIsTaken ==
  \A id \in {rpc_id(Serves[h]) : h \in Handlers}, c \in Calls :
    (channels[id] # Null /\ \E i \in DOMAIN channels[id] : channels[id][i].call = c)
      ~> \/ \E h \in Handlers : holds[h] # Null /\ holds[h].call = c
         \/ \A h \in Handlers : rpc_id(Serves[h]) = id => at[h] = "stuck"
         \/ stopped

=============================================================================
