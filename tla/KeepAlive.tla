----------------------------- MODULE KeepAlive -----------------------------
(***************************************************************************)
(* The clocks of one client and its server: the heartbeat                  *)
(* (tcp_client.hpp:182-194), the check of both ends of a connection        *)
(* (connection.hpp:125-143), and the time limits of a client's call        *)
(* (tcp_client.hpp:80-110) and of a server's call with its tries           *)
(* (tcp_server.hpp:80-104).                                                *)
(*                                                                         *)
(* Time passes in ticks.  Nothing keeps an absolute time: a timer is what  *)
(* is left of it, a time point the ticks since.  Timers fire and packets   *)
(* are handled in time, in any order within a tick; a packet is up to      *)
(* Delay ticks on its way, and a network that has failed carries nothing   *)
(* more and reports its failure late or never.  Heartbeats and answers are *)
(* written at once.  A call's packet is written in any time, for ever too: *)
(* nothing limits a write (connection.hpp:90), and none of it counts.      *)
(***************************************************************************)
EXTENDS Integers, Sequences

CONSTANTS
  Second,         \* ticks of a second
  Lifetime,       \* active_connection_lifetime_seconds
  CheckInterval,  \* active_connection_lifetime_check_interval_seconds, in ticks
  BeatInterval,   \* active_connection_heartbeat_interval_seconds, in ticks
  Poll,           \* the 100 ms between looks for a connection, in ticks
  Timeout,        \* timeout_millliseconds of the two calls, in ticks
  max_tries,
  Delay,          \* a packet's longest way, in ticks
  MaxConns        \* bound: connections the client makes

\* Two packets a heartbeat apart arrive within a lifetime: 20 s against 60.
ASSUME TimeAssumption ==
  /\ Second \in Nat \ {0} /\ Lifetime \in Nat /\ Delay \in Nat
  /\ CheckInterval \in Nat \ {0} /\ BeatInterval \in Nat \ {0}
  /\ Poll \in Nat \ {0} /\ Timeout \in Nat \ {0}
  /\ max_tries \in Nat /\ MaxConns \in Nat
  /\ BeatInterval + 2 * Delay < (Lifetime + 1) * Second

None  == 0
Conns == 1..MaxConns
Ends  == {"client", "server"} \X Conns
Peer(e) == <<IF e[1] = "client" THEN "server" ELSE "client", e[2]>>

VARIABLES
  made,        \* connections made so far
  conn,        \* the client's conn, or None
  registered,  \* the connection in the server's map, or None
  named,       \* connections whose server end knows the device id
  open,        \* ends whose loops run
  idle,        \* of each end: the ticks since last_recv_time
  check_timer, \* of each end
  wire,        \* of each end: the packets on their way to it
  cut,         \* connections the network has failed on
  beat_timer,  \* the heartbeat's
  call,        \* the client's call: the time it has used but for its write, what is
               \* left of a timer or to arm one with, and the connection it is on
  push,        \* the server's call, the same and its try
  timedOut     \* history: ends that check has given up

connVars == <<made, conn, registered, named, open, idle, check_timer, wire, cut, timedOut>>
vars == <<connVars, beat_timer, call, push>>

Init ==
  /\ made = 0 /\ conn = None /\ registered = None
  /\ named = {} /\ open = {} /\ cut = {} /\ timedOut = {}
  /\ idle = [e \in Ends |-> 0]
  /\ check_timer = [e \in Ends |-> 0]
  /\ wire = [e \in Ends |-> <<>>]
  /\ beat_timer = 0
  /\ call = [at |-> "none", time |-> 0, left |-> 0, on |-> None]
  /\ push = [at |-> "none", time |-> 0, left |-> 0, i |-> 0, on |-> None]

-----------------------------------------------------------------------------
(* Packets and ends.                                                       *)

\* A packet of a kind sent to each end of E.
Sent(w, E, kind) ==
  [e \in Ends |-> IF e \in E /\ e[2] \notin cut
                  THEN Append(w[e], [kind |-> kind, age |-> 0]) ELSE w[e]]

\* The ends of O run; those that do not have no clocks.
Run(O, idles, checks) ==
  /\ open' = O
  /\ idle' = [e \in Ends |-> IF e \in O THEN idles[e] ELSE 0]
  /\ check_timer' = [e \in Ends |-> IF e \in O THEN checks[e] ELSE 0]

\* A connection object is constructed, and start() has run.
Start(e) ==
  Run(open \cup {e}, [idle EXCEPT ![e] = 0], [check_timer EXCEPT ![e] = CheckInterval])

Stop(E) == Run(open \ E, idle, check_timer)

\* A call that has been given to a connection writes, then waits.
OnConn == {"write", "wait"}

\* The server's call has a reference to the connection it is on.
Held == IF push.at \in OnConn THEN {push.on} ELSE {}

\* tcp_client::on_disconnected; the connection is destroyed, its socket closed.
ClientDisconnected(e, w) ==
  /\ conn' = None
  /\ Stop({e})
  /\ wire' = Sent(w, {Peer(e)}, "fin")
  /\ UNCHANGED <<registered, named>>

\* tcp_server::on_disconnected: erases by the device id, if the connection has one,
\* whichever connection the map has for it.  Without one the connection may stay in
\* the list, its socket open (module TcpServer).
ServerDisconnected(e, w) ==
  LET erased == IF e[2] \in named THEN {registered} \ {None} ELSE {}
      gone   == {<<"server", c>> : c \in erased \ Held}
  IN  /\ registered' = IF e[2] \in named THEN None ELSE registered
      /\ Stop({e} \cup gone)
      /\ \E more \in SUBSET ({e} \ gone) :
           wire' = Sent(w, {Peer(g) : g \in gone \cup more}, "fin")
      /\ UNCHANGED <<conn, named>>

Disconnected(e, w) ==
  IF e[1] = "client" THEN ClientDisconnected(e, w) ELSE ServerDisconnected(e, w)

-----------------------------------------------------------------------------
(* Connections.                                                            *)

\* connect(), however long it takes: the client's end is made, the server's is
\* when the connection gets there.
Connect ==
  /\ conn = None /\ made < MaxConns
  /\ made' = made + 1 /\ conn' = made + 1
  /\ Start(<<"client", made + 1>>)
  /\ wire' = [wire EXCEPT ![<<"server", made + 1>>] = <<[kind |-> "syn", age |-> 0]>>]
  /\ UNCHANGED <<registered, named, cut, timedOut, beat_timer, call, push>>

\* heartbeat().
Beat ==
  /\ beat_timer = 0
  /\ wire' = IF conn = None THEN wire ELSE Sent(wire, {<<"server", conn>>}, "beat")
  /\ beat_timer' = BeatInterval
  /\ UNCHANGED <<made, conn, registered, named, open, idle, check_timer, cut, timedOut,
                 call, push>>

\* on_got_device_id: the new connection takes its predecessor's place in the map,
\* which was its last reference but for a call's.
Named(e, w) ==
  LET old  == {registered} \ {None}
      gone == {<<"server", c>> : c \in old \ Held}
  IN  /\ named' = named \cup {e[2]}
      /\ registered' = e[2]
      /\ Run(open \ gone, [idle EXCEPT ![e] = 0], check_timer)
      /\ wire' = Sent(Sent(w, {Peer(e)}, "answer"), {Peer(g) : g \in gone}, "fin")

\* A packet with the connection's device id has arrived.
Received(e) ==
  /\ Run(open, [idle EXCEPT ![e] = 0], check_timer)
  /\ UNCHANGED <<registered, named>>

Handle(e, kind, w) ==
  \/ kind = "beat" /\ e[2] \notin named /\ Named(e, w) /\ UNCHANGED conn
  \/ kind = "beat" /\ e[2] \in named /\ Received(e) /\ UNCHANGED conn
       /\ wire' = Sent(w, {Peer(e)}, "answer")
  \/ kind = "answer" /\ Received(e) /\ wire' = w /\ UNCHANGED conn
  \/ kind = "fin" /\ Disconnected(e, w)

Deliver(e) ==
  /\ wire[e] # <<>>
  /\ LET kind == Head(wire[e]).kind
         rest == [wire EXCEPT ![e] = Tail(@)]
     IN  \/ /\ kind = "syn"
            /\ Start(e) /\ wire' = rest
            /\ UNCHANGED <<conn, registered, named>>
         \/ kind # "syn" /\ e \in open /\ Handle(e, kind, rest)
         \/ /\ kind # "syn" /\ e \notin open
            /\ wire' = rest
            /\ UNCHANGED <<conn, registered, named, open, idle, check_timer>>
  /\ UNCHANGED <<made, cut, timedOut, beat_timer, call, push>>

\* Compared with a lifetime reached, not exceeded.
TooLongFrom(ticks) == ticks \div Second >= Lifetime

\* elapse > active_connection_lifetime_seconds, in whole seconds.
TooLong(ticks) == ticks \div Second > Lifetime

\* The heartbeat's interval in place of the check's.
RearmedAsBeat == BeatInterval

Rearmed == CheckInterval

\* check().
Check(e) ==
  /\ e \in open /\ check_timer[e] = 0
  /\ \/ /\ TooLong(idle[e])
        /\ timedOut' = timedOut \cup {e}
        /\ Disconnected(e, wire)
     \/ /\ ~TooLong(idle[e])
        /\ check_timer' = [check_timer EXCEPT ![e] = Rearmed]
        /\ UNCHANGED <<conn, registered, named, open, idle, wire, timedOut>>
  /\ UNCHANGED <<made, cut, beat_timer, call, push>>

\* A connection the server's host has already made.
Pending(w) == IF w # <<>> /\ Head(w).kind = "syn" THEN <<Head(w)>> ELSE <<>>

\* The network fails: what else is under way is lost.
Cut(c) ==
  /\ c \in 1..made /\ c \notin cut
  /\ cut' = cut \cup {c}
  /\ wire' = [e \in Ends |-> IF e[2] = c THEN Pending(wire[e]) ELSE wire[e]]
  /\ UNCHANGED <<made, conn, registered, named, open, idle, check_timer, timedOut,
                 beat_timer, call, push>>

\* An end of such a connection may notice: its read fails.
ReadFails(e) ==
  /\ e \in open /\ e[2] \in cut
  /\ Disconnected(e, wire)
  /\ UNCHANGED <<made, cut, timedOut, beat_timer, call, push>>

-----------------------------------------------------------------------------
(* Calls.                                                                  *)

\* A call that has ended, or one in its poll.
Alone(at, time, left) == [at |-> at, time |-> time, left |-> left, on |-> None]

\* The client's looks whether it has a connection, waits for one for up to half
\* of its time, and gives what is left now, before its packet is written, to the
\* connection.
Look(time) ==
  call' = CASE conn # None /\ time < Timeout ->
                 [at |-> "write", time |-> time, left |-> Timeout - time, on |-> conn]
            [] conn # None /\ time >= Timeout -> Alone("ended", time, 0)
            [] conn = None /\ time > Timeout \div 2 -> Alone("ended", time, 0)
            [] conn = None /\ time <= Timeout \div 2 -> Alone("poll", time, Poll)

\* Bound: one call in a run, of either side.
NoCallYet == call.at = "none" /\ push.at = "none"

Call == /\ NoCallYet /\ Look(0)
        /\ UNCHANGED <<connVars, beat_timer, push>>

LookAgain == /\ call.at = "poll" /\ call.left = 0 /\ Look(call.time)
             /\ UNCHANGED <<connVars, beat_timer, push>>

\* Its packet is written and its connection still there: the timer is made.
CallWritten == /\ call.at = "write" /\ call.on = conn
               /\ call' = [call EXCEPT !.at = "wait"]
               /\ UNCHANGED <<connVars, beat_timer, push>>

\* The write fails, or its connection has gone by then; or the wait ends, with a
\* response, with timeout_error, or because the connection goes.
CallEnds == /\ call.at \in OnConn
            /\ call' = Alone("ended", call.time, 0)
            /\ UNCHANGED <<connVars, beat_timer, push>>

\* One try more than max_tries allows.
OneTryMore(i) == i <= max_tries + 1

MayTry(i) == i <= max_tries

\* A try of the server's: on the connection the map has by then.  Its limit is not
\* counted before its packet is written.
Try(i, time) ==
  push' = IF MayTry(i) /\ registered # None
          THEN [at |-> "write", time |-> time, left |-> Timeout, i |-> i, on |-> registered]
          ELSE [at |-> "ended", time |-> time, left |-> 0, i |-> i, on |-> None]

Push == /\ NoCallYet /\ Try(0, 0)
        /\ UNCHANGED <<connVars, beat_timer, call>>

\* Its connection is there, for the call holds it.
TryWritten == /\ push.at = "write"
              /\ push' = [push EXCEPT !.at = "wait"]
              /\ UNCHANGED <<connVars, beat_timer, call>>

\* A try ends as a client's call does, and lets go of its connection, which may
\* have been superseded or disconnected.
TryEnds ==
  /\ push.at \in OnConn
  /\ \/ push' = [at |-> "ended", time |-> push.time, left |-> 0, i |-> push.i, on |-> None]
     \/ Try(push.i + 1, push.time)
  /\ LET gone == {<<"server", c>> : c \in {push.on} \ {registered}}
     IN  Stop(gone) /\ wire' = Sent(wire, {Peer(g) : g \in gone}, "fin")
  /\ UNCHANGED <<made, conn, registered, named, cut, timedOut, beat_timer, call>>

-----------------------------------------------------------------------------
(* Time.                                                                   *)

\* No timer and no packet is overdue.
MayPass ==
  /\ beat_timer > 0
  /\ \A e \in open : check_timer[e] > 0
  /\ \A e \in Ends : \A k \in DOMAIN wire[e] : wire[e][k].age < Delay
  /\ call.at \in {"poll", "wait"} => call.left > 0
  /\ push.at = "wait" => push.left > 0

CallLater ==
  call' = IF call.at \in {"poll", "wait"}
          THEN [call EXCEPT !.time = @ + 1, !.left = @ - 1] ELSE call

PushLater ==
  push' = IF push.at = "wait" THEN [push EXCEPT !.time = @ + 1, !.left = @ - 1] ELSE push

Tick ==
  /\ MayPass
  /\ beat_timer' = beat_timer - 1
  /\ idle' = [e \in Ends |-> IF e \in open THEN idle[e] + 1 ELSE idle[e]]
  /\ check_timer' = [e \in Ends |-> IF e \in open THEN check_timer[e] - 1 ELSE check_timer[e]]
  /\ wire' = [e \in Ends |-> [k \in DOMAIN wire[e] |->
                [kind |-> wire[e][k].kind, age |-> wire[e][k].age + 1]]]
  /\ CallLater /\ PushLater
  /\ UNCHANGED <<made, conn, registered, named, open, cut, timedOut>>

Next ==
  \/ Connect \/ Beat \/ Tick
  \/ Call \/ LookAgain \/ CallWritten \/ CallEnds
  \/ Push \/ TryWritten \/ TryEnds
  \/ \E e \in Ends : Deliver(e) \/ Check(e) \/ ReadFails(e)
  \/ \E c \in Conns : Cut(c)

Spec == Init /\ [][Next]_vars

-----------------------------------------------------------------------------
(* Properties.                                                             *)

\* A connection that carries its packets is never given up by the check of either
\* end, and its server knows whose it is within a heartbeat and a packet's way from
\* its acceptance: until then a push to the client fails (tcp_server.hpp:87-89).
LiveIsKept ==
  /\ \A e \in timedOut : e[2] \in cut
  /\ \A c \in Conns \ (named \cup cut) :
       <<"server", c>> \in open => idle[<<"server", c>>] <= BeatInterval + Delay

\* An end that hears nothing more is given up after a lifetime, the rest of the
\* second it is counted in and one interval of the check: no connection is used
\* for longer without a sign of its peer, whoever holds it.
SilentIsFound ==
  \A e \in open : idle[e] <= (Lifetime + 1) * Second - 1 + CheckInterval

\* But for its writes a call takes no longer than its time limit, a client's that
\* waits for a connection than half of it and a poll if that is more, and a server's
\* than a time limit for each of its max_tries + 1 tries, whatever connections come
\* and go meanwhile.  The limits bound nothing else: they are counted from the end
\* of a write (connection.hpp:90, 99), which a peer that does not read delays for
\* ever, and the client's remainder is computed before it (tcp_client.hpp:104-109).
CallsInTime ==
  /\ call.time <= Timeout \/ call.time <= Timeout \div 2 + Poll
  /\ push.time <= (max_tries + 1) * Timeout

=============================================================================
