-------------------------------- MODULE Push --------------------------------
(***************************************************************************)
(* The server's requests to one client, end to end: the retries of         *)
(* tcp_server::send_packet_and_wait_rsp, the client's on_receive_request,  *)
(* which acknowledges, de-duplicates and queues, and wait_request.         *)
(*                                                                         *)
(* The two ends of the connection break and find out independently; a new  *)
(* connection begins with nothing under way.  A request's identity is      *)
(* cmd and seq (module PacketIdentity says when packet_id keeps them       *)
(* apart); its life, the run of the server that made it, is known to no    *)
(* code.  Connections in detail are in Connection and TcpServer, the       *)
(* memory of received ids in Lru, here used through what it promises.      *)
(***************************************************************************)
EXTENDS Naturals, Sequences

CONSTANTS
  Pushes,      \* calls of send_packet_and_wait_rsp on the server
  Cmds,        \* commands
  ChannelSize, \* received_packet_channel_size
  Cap,         \* recently_received_request_cap
  MaxTries,    \* max_tries
  MaxLives,    \* bound: runs of the server
  Null         \* no request, no channel

ASSUME PushAssumption ==
  /\ ChannelSize \in Nat /\ Cap \in Nat /\ MaxTries \in Nat /\ MaxLives \in Nat \ {0}

VARIABLES
  life,     \* history: the run of the server
  seq,      \* its seq_generator, 0 again in each run
  pc,       \* each push: "idle", "waiting" for its response, a result, or "gone"
            \* with the server that made it
  request,  \* its packet
  tries,    \* its loop variable i
  serverUp, \* the server's map has a connection for the device
  clientUp, \* the client has a connection
  toClient, \* requests on their way
  toServer, \* acknowledgements on their way
  recent,   \* recently_received_request, most recent first
  channels, \* received_request_channels: absent, or the requests in the buffer
  receiver, \* per command, a task in wait_request: "idle", "waiting"
  crashed,  \* the client used a channel that is not there
  waited,   \* history: commands wait_request was ever called for
  received, \* history: requests that passed the de-duplication
  forgotten,\* history: received requests whose id was pushed out of recent
  given,    \* history: requests handed to wait_request
  repeated, \* history: requests handed to it more than once
  refused   \* history: requests taken for one received before

serverVars == <<life, seq, pc, request, tries>>
linkVars   == <<serverUp, clientUp>>
givenVars  == <<given, repeated>>
historyVars == <<waited, received, forgotten, givenVars, refused>>
clientVars == <<recent, channels, receiver, crashed, historyVars>>
vars == <<serverVars, linkVars, toClient, toServer, clientVars>>

Lives    == 1..MaxLives
Seqs     == Nat \ {0}
Requests == [cmd : Cmds, seq : Seqs, life : Lives]

\* Null is no channel.
ASSUME NullAssumption == Null \notin Seq(Requests)

\* packet_id.
Id(r) == <<r.cmd, r.seq>>

Memory == INSTANCE Recency WITH Ids <- Cmds \X Seqs

TypeOK ==
  /\ life \in 1..MaxLives /\ seq \in Nat
  /\ pc \in [Pushes -> {"idle", "waiting", "ok", "connection_error", "timeout_error", "gone"}]
  /\ request \in [Pushes -> Requests \cup {Null}]
  /\ tries \in [Pushes -> 0..MaxTries]
  /\ serverUp \in BOOLEAN /\ clientUp \in BOOLEAN /\ crashed \in BOOLEAN
  /\ toClient \in Seq(Requests) /\ toServer \in Seq(Requests)
  /\ recent \in Seq(Cmds \X Seqs) /\ Len(recent) <= Cap
  /\ \A c \in Cmds : channels[c] # Null =>
       channels[c] \in Seq(Requests) /\ Len(channels[c]) <= ChannelSize
  /\ receiver \in [Cmds -> {"idle", "waiting"}]

Init ==
  /\ life = 1 /\ seq = 0
  /\ pc = [p \in Pushes |-> "idle"]
  /\ request = [p \in Pushes |-> Null]
  /\ tries = [p \in Pushes |-> 0]
  /\ serverUp = FALSE /\ clientUp = FALSE
  /\ toClient = <<>> /\ toServer = <<>>
  /\ recent = <<>>
  /\ channels = [c \in Cmds |-> Null]
  /\ receiver = [c \in Cmds |-> "idle"]
  /\ crashed = FALSE
  /\ waited = {} /\ received = {} /\ forgotten = {} /\ refused = {}
  /\ given = {} /\ repeated = {}

-----------------------------------------------------------------------------
(* The server.                                                             *)

\* One try: a packet written to a connection the client has left is lost.
Send(r) == toClient' = IF clientUp THEN Append(toClient, r) ELSE toClient

\* The packet is built, which draws its seq, and sent if the device is there.
Push(p, c) ==
  /\ pc[p] = "idle"
  /\ seq' = seq + 1
  /\ LET r == [cmd |-> c, seq |-> seq + 1, life |-> life]
     IN  /\ request' = [request EXCEPT ![p] = r]
         /\ IF serverUp
            THEN pc' = [pc EXCEPT ![p] = "waiting"] /\ Send(r)
            ELSE pc' = [pc EXCEPT ![p] = "connection_error"] /\ UNCHANGED toClient
  /\ UNCHANGED <<life, tries, linkVars, toServer, clientVars>>

\* The timeout of one try, or its write failed: the loop goes round with the
\* same packet, looks the device up again, and throws if it is not there.
TryFails(p) ==
  /\ pc[p] = "waiting"
  /\ IF tries[p] < MaxTries /\ serverUp
     THEN /\ tries' = [tries EXCEPT ![p] = @ + 1]
          /\ Send(request[p])
          /\ UNCHANGED pc
     ELSE /\ pc' = [pc EXCEPT ![p] = IF tries[p] < MaxTries THEN "connection_error"
                                     ELSE "timeout_error"]
          /\ UNCHANGED <<tries, toClient>>
  /\ UNCHANGED <<life, seq, request, linkVars, toServer, clientVars>>

\* Acknowledgements taken in order, whichever request they answer.
AnswersFirst(r, p) == pc[p] = "waiting" /\ request[p].cmd = r.cmd

Answers(r, p) == pc[p] = "waiting" /\ Id(request[p]) = Id(r)

\* process_packet on a response.  It may come before the sender has entered its
\* channel (connection.hpp:98) and is dropped then.
AckArrives ==
  /\ toServer # <<>>
  /\ toServer' = Tail(toServer)
  /\ \/ pc' = [p \in Pushes |-> IF Answers(Head(toServer), p) THEN "ok" ELSE pc[p]]
     \/ UNCHANGED pc
  /\ UNCHANGED <<life, seq, request, tries, linkVars, toClient, clientVars>>

\* The server's process ends and starts again.
Restart ==
  /\ life < MaxLives
  /\ life' = life + 1 /\ seq' = 0
  /\ pc' = [p \in Pushes |-> IF pc[p] = "waiting" THEN "gone" ELSE pc[p]]
  /\ serverUp' = FALSE /\ toServer' = <<>>
  /\ UNCHANGED <<request, tries, clientUp, toClient, clientVars>>

-----------------------------------------------------------------------------
(* The connection.                                                         *)

\* The client connects and names its device; if the server still had the old
\* connection the new one takes its place.
Connect ==
  /\ ~crashed /\ ~clientUp
  /\ serverUp' = TRUE /\ clientUp' = TRUE
  /\ toClient' = <<>> /\ toServer' = <<>>
  /\ UNCHANGED <<serverVars, clientVars>>

\* An end drops the connection; what it had sent may be lost from some point on.
ServerLeaves(n) ==
  /\ serverUp /\ n \in 0..Len(toClient)
  /\ serverUp' = FALSE
  /\ toServer' = <<>>
  /\ toClient' = SubSeq(toClient, 1, n)
  /\ UNCHANGED <<serverVars, clientUp, clientVars>>

ClientLeaves(n) ==
  /\ clientUp /\ n \in 0..Len(toServer)
  /\ clientUp' = FALSE
  /\ toClient' = <<>>
  /\ toServer' = SubSeq(toServer, 1, n)
  /\ UNCHANGED <<serverVars, serverUp, clientVars>>

-----------------------------------------------------------------------------
(* The client.                                                             *)

\* No de-duplication.
NeverReceived(r) == FALSE

AlreadyReceived(r) == Memory!Remembers(Id(r))

HasRoom(c) == Len(channels[c]) < ChannelSize

\* A receive completes with r.
Give(r) ==
  /\ given' = given \cup {r}
  /\ repeated' = IF r \in given THEN repeated \cup {r} ELSE repeated

\* try_send: to the task waiting, else into the buffer if it has room, else
\* the request is dropped.  operator[] made an empty pointer of an absent
\* channel.
Deliver(r) ==
  /\ crashed' = (channels[r.cmd] = Null)
  /\ IF receiver[r.cmd] = "waiting"
     THEN /\ Give(r)
          /\ receiver' = [receiver EXCEPT ![r.cmd] = "idle"]
          /\ UNCHANGED channels
     ELSE /\ channels' = IF channels[r.cmd] # Null /\ HasRoom(r.cmd)
                         THEN [channels EXCEPT ![r.cmd] = Append(@, r)] ELSE channels
          /\ UNCHANGED <<receiver, givenVars>>

\* on_receive_request: acknowledge, then look whether it came before.
ReceiveRequest ==
  /\ ~crashed /\ clientUp /\ toClient # <<>>
  /\ LET r == Head(toClient)
     IN  /\ toClient' = Tail(toClient)
         /\ toServer' = IF serverUp THEN Append(toServer, r) ELSE toServer
         /\ IF AlreadyReceived(r)
            THEN /\ Memory!exist(Id(r))
                 /\ refused' = refused \cup {r}
                 /\ UNCHANGED <<channels, receiver, crashed, received, forgotten, givenVars>>
            ELSE /\ Memory!put(Id(r))
                 /\ received' = received \cup {r}
                 /\ forgotten' = forgotten \cup
                      {q \in received' : Id(q) \notin {recent'[i] : i \in DOMAIN recent'}}
                 /\ Deliver(r)
                 /\ UNCHANGED refused
  /\ UNCHANGED <<serverVars, linkVars, waited>>

\* A channel that goes when its last request is taken.
TakenAndClosed(c) == IF Len(channels[c]) = 1 THEN Null ELSE Tail(channels[c])

Taken(c) == Tail(channels[c])

\* wait_request makes the channel if there is none, and takes a request from the
\* buffer or waits.
WaitRequest(c) ==
  /\ ~crashed /\ receiver[c] = "idle"
  /\ waited' = waited \cup {c}
  /\ IF channels[c] \in {Null, <<>>}
     THEN /\ channels' = [channels EXCEPT ![c] = <<>>]
          /\ receiver' = [receiver EXCEPT ![c] = "waiting"]
          /\ UNCHANGED givenVars
     ELSE /\ Give(Head(channels[c]))
          /\ channels' = [channels EXCEPT ![c] = Taken(c)]
          /\ UNCHANGED receiver
  /\ UNCHANGED <<serverVars, linkVars, toClient, toServer, recent, crashed, received,
                 forgotten, refused>>

-----------------------------------------------------------------------------

PushStep(p) == TryFails(p) \/ \E c \in Cmds : Push(p, c)

Next == \/ \E p \in Pushes : PushStep(p)
        \/ AckArrives \/ Restart
        \/ Connect
        \/ \E n \in 0..Len(toClient) : ServerLeaves(n)
        \/ \E n \in 0..Len(toServer) : ClientLeaves(n)
        \/ ReceiveRequest
        \/ \E c \in Cmds : WaitRequest(c)

Spec == Init /\ [][Next]_vars

-----------------------------------------------------------------------------
(* Properties.                                                             *)

\* A request is handed to the application once, however often it is sent and
\* whatever breaks in between, unless recently_received_request has forgotten it
\* (tcp_client.hpp:145).
GivenOnce == TypeOK /\ repeated \subseteq forgotten

\* A push that succeeds was received by this client, or refused for one that was
\* and has its id, made in the same run of the server or an earlier one, which
\* numbered alike: no retry, reconnection or restart lets it end with another
\* request's acknowledgement.  (That anybody took it from the channel, which may
\* have been full, it does not say: the acknowledgement, tcp_client.hpp:143,
\* comes first.)
OkMeansReceived ==
  \A p \in Pushes : pc[p] = "ok" =>
    \/ request[p] \in received
    \/ /\ request[p] \in refused
       /\ \E r \in received : Id(r) = Id(request[p]) /\ r.life <= request[p].life

\* The client fails on the first request it has not received before whose command
\* nobody ever waited for, and on no other: the channel that the first wait made
\* (tcp_client.hpp:118-121) is there for every later request, whether or not it has
\* been emptied, the connection was replaced or the server restarted since, and for
\* the others operator[] makes an empty pointer (tcp_client.hpp:150).
FailsOnFirstUnwaited == crashed <=> \E r \in received : r.cmd \notin waited

=============================================================================
