------------------------------ MODULE TcpClient ------------------------------
(***************************************************************************)
(* asyncmsg/tcp::tcp_client: the group connect() || heartbeat() ||         *)
(* stop_signal that start() spawns, the connection they share with the     *)
(* calls, wait_request, and stop().                                        *)
(*                                                                         *)
(* config.hpp turns wait_for_one_success into wait_for_one while it        *)
(* includes the operators: a group ends with the first member that         *)
(* returns OR throws, and cancels the others.  conn is the only shared_ptr *)
(* to a connection, so the object dies when conn is dropped.  A step is    *)
(* one handler, or one coroutine from a co_await to the next; all but the  *)
(* stopped flag belongs to the io thread.  What a send on a connection     *)
(* returns (module Connection) is left open; so is time.                   *)
(***************************************************************************)
EXTENDS Naturals

CONSTANTS
  Conns,   \* connection objects
  Tasks,   \* tasks in send_packet_and_wait_rsp or send_packet
  Waiters, \* tasks in wait_request
  Null     \* an empty shared_ptr

ASSUME ClientAssumption == Null \notin Conns

VARIABLES
  stopped,    \* the flag, set by whichever thread calls stop()
  stop,       \* the posted part of stop(): "none", "posted", "forced", "done"
  halted,     \* stop(true) called io_context.stop(): no handler runs any more
  ranOut,     \* io_context.run() returned for want of work: no more either
  conn,       \* the shared_ptr
  connecting, \* connect(): "posted", "opening" (async_resolve, async_connect),
              \* "sleeping" (connect_timer), "ended"
  beating,    \* heartbeat(): "posted", "sending", "sleeping", "ended"
  beatOn,     \* the connection it is sending on
  signal,     \* stop_signal.async_wait: "posted", "waiting", "cancelled", "ended"
  beatThrew,  \* history: a heartbeat's send threw
  loops,      \* receive_packet() || check() of each connection, as in TcpServer
  pc,         \* where each sending task is
  on,         \* the connection it sends on
  wait        \* where each wait_request is

vars == <<stopped, stop, halted, ranOut, conn, connecting, beating, beatOn, signal,
          beatThrew, loops, pc, on, wait>>
stopVars  == <<stopped, stop, halted, ranOut>>
beatVars  == <<beating, beatOn, beatThrew>>
groupVars == <<connecting, beatVars, signal>>
taskVars  == <<pc, on>>

\* A send returns or throws.
Results == {"ok", "thrown"}

TypeOK ==
  /\ stopped \in BOOLEAN /\ halted \in BOOLEAN /\ ranOut \in BOOLEAN
  /\ stop \in {"none", "posted", "forced", "done"}
  /\ conn \in Conns \cup {Null}
  /\ connecting \in {"posted", "opening", "sleeping", "ended"}
  /\ beating \in {"posted", "sending", "sleeping", "ended"}
  /\ beatOn \in Conns \cup {Null}
  /\ signal \in {"posted", "waiting", "cancelled", "ended"}
  /\ beatThrew \in BOOLEAN
  /\ loops \in [Conns -> {"none", "posted", "running", "readOut", "checkOut", "ended"}]
  /\ beating = "sending" <=> beatOn # Null
  /\ pc \in [Tasks -> {"idle", "called", "polling", "sending", "stuck"} \cup Results]
  /\ on \in [Tasks -> Conns \cup {Null}]
  /\ \A t \in Tasks : pc[t] \in {"sending", "stuck"} <=> on[t] # Null
  /\ wait \in [Waiters -> {"idle", "waiting", "received", "aborted"}]

\* The constructor has spawned start().
Init ==
  /\ stopped = FALSE /\ stop = "none" /\ halted = FALSE /\ ranOut = FALSE
  /\ conn = Null
  /\ connecting = "posted" /\ beating = "posted" /\ signal = "posted"
  /\ beatOn = Null /\ beatThrew = FALSE
  /\ loops = [c \in Conns |-> "none"]
  /\ pc = [t \in Tasks |-> "idle"]
  /\ on = [t \in Tasks |-> Null]
  /\ wait = [w \in Waiters |-> "idle"]

Alive(c) == conn = c

-----------------------------------------------------------------------------
(* The io thread.                                                          *)

\* It is inside io_context.run() and runs what is ready.
IoRuns == ~halted /\ ~ranOut

\* What keeps run() from returning: the work guard until the handler of stop()
\* resets it, that handler, the group, the coroutines of a connection, and a
\* task or a wait_request that has not ended.
HasWork ==
  \/ stop # "done"
  \/ ~(connecting = "ended" /\ beating = "ended" /\ signal = "ended")
  \/ \E c \in Conns : loops[c] \notin {"none", "ended"}
  \/ \E t \in Tasks : pc[t] \notin {"idle"} \cup Results
  \/ \E w \in Waiters : wait[w] = "waiting"

RunReturns ==
  /\ IoRuns /\ ~HasWork
  /\ ranOut' = TRUE
  /\ UNCHANGED <<stopped, stop, halted, conn, groupVars, loops, taskVars, wait>>

-----------------------------------------------------------------------------
(* The group.  Its inner group, connect() || heartbeat(), ends when both   *)
(* have.                                                                   *)

ConnectCancelled == beating = "ended" \/ signal = "ended"
BeatCancelled    == connecting = "ended" \/ signal = "ended"
SignalCancelled  == signal = "cancelled" \/ (connecting = "ended" /\ beating = "ended")

\* The loop that asks for a connection without looking whether it has one.
ConnectTopAlways == IF stopped THEN "ended" ELSE "opening"

\* The loop that connects when it starts and never again.
ConnectTopFirst ==
  IF stopped THEN "ended"
  ELSE IF conn = Null /\ connecting = "posted" THEN "opening" ELSE "sleeping"

\* The top of connect()'s loop, up to its next co_await.
ConnectTop == IF stopped THEN "ended" ELSE IF conn = Null THEN "opening" ELSE "sleeping"

\* connect() starts, or its timer expires; cancelled, the wait throws.
ConnectGoesRound ==
  /\ IoRuns /\ connecting \in {"posted", "sleeping"}
  /\ connecting' = IF connecting = "sleeping" /\ ConnectCancelled THEN "ended"
                   ELSE ConnectTop
  /\ UNCHANGED <<stopVars, conn, beatVars, signal, loops, taskVars, wait>>

\* After an attempt the next co_await, the timer's, throws if the group has
\* ended.
AfterAttempt == IF ConnectCancelled THEN "ended" ELSE "sleeping"

\* async_connect succeeds; it may have been complete when it was cancelled.
Connected(c) ==
  /\ IoRuns /\ connecting = "opening"
  /\ loops[c] = "none"
  /\ conn' = c
  /\ loops' = [loops EXCEPT ![c] = "posted"]
  /\ connecting' = AfterAttempt
  /\ UNCHANGED <<stopVars, beatVars, signal, taskVars, wait>>

\* async_resolve or async_connect throws, which is caught.
ConnectFails ==
  /\ IoRuns /\ connecting = "opening"
  /\ connecting' = AfterAttempt
  /\ UNCHANGED <<stopVars, conn, beatVars, signal, loops, taskVars, wait>>

BeatTop == IF stopped THEN "ended" ELSE IF conn = Null THEN "sleeping" ELSE "sending"

BeatGoesRound ==
  /\ IoRuns /\ beating \in {"posted", "sleeping"}
  /\ beating' = IF beating = "sleeping" /\ BeatCancelled THEN "ended" ELSE BeatTop
  /\ beatOn' = IF beating' = "sending" THEN conn ELSE Null
  /\ UNCHANGED <<stopVars, conn, connecting, signal, beatThrew, loops, taskVars, wait>>

BeatSent ==
  /\ IoRuns /\ beating = "sending"
  /\ beating' = IF BeatCancelled THEN "ended" ELSE "sleeping"
  /\ beatOn' = Null
  /\ UNCHANGED <<stopVars, conn, connecting, signal, beatThrew, loops, taskVars, wait>>

\* async_write throws out of heartbeat(): the socket failed, was closed with its
\* connection, or the group cancels.
BeatFails ==
  /\ IoRuns /\ beating = "sending"
  /\ beating' = "ended" /\ beatThrew' = TRUE
  /\ beatOn' = Null
  /\ UNCHANGED <<stopVars, conn, connecting, signal, loops, taskVars, wait>>

\* A signal already cancelled when the wait begins is missed.
SignalStarts ==
  /\ IoRuns /\ signal = "posted"
  /\ signal' = "waiting"
  /\ UNCHANGED <<stopVars, conn, connecting, beatVars, loops, taskVars, wait>>

SignalEnds ==
  /\ IoRuns /\ signal \in {"waiting", "cancelled"} /\ SignalCancelled
  /\ signal' = "ended"
  /\ UNCHANGED <<stopVars, conn, connecting, beatVars, loops, taskVars, wait>>

-----------------------------------------------------------------------------
(* The connection's coroutines (module Connection, Side = "client").       *)

Start(c) ==
  /\ IoRuns /\ loops[c] = "posted"
  /\ loops' = [loops EXCEPT ![c] = IF Alive(c) THEN "running" ELSE "ended"]
  /\ UNCHANGED <<stopVars, conn, groupVars, taskVars, wait>>

\* A disconnection that leaves conn as it is.
ConnKept(c) == conn

\* on_disconnected: conn is dropped, whichever connection reports.
ConnDropped(c) == Null

\* One of the two reports the end and the group cancels the other, which reports
\* too if the object is still there.
ReportsEnd(c, first, other) ==
  /\ IoRuns /\ Alive(c)
  /\ loops[c] \in {"running", other}
  /\ loops' = [loops EXCEPT ![c] = IF @ = "running" THEN first ELSE "ended"]
  /\ conn' = ConnDropped(c)
  /\ UNCHANGED <<stopVars, groupVars, taskVars, wait>>

ReadEnds(c)  == ReportsEnd(c, "readOut", "checkOut")
CheckEnds(c) == ReportsEnd(c, "checkOut", "readOut")

EndQuietly(c) ==
  /\ IoRuns
  /\ \/ loops[c] \in {"readOut", "checkOut"}
     \/ loops[c] = "running" /\ ~Alive(c)
  /\ loops' = [loops EXCEPT ![c] = "ended"]
  /\ UNCHANGED <<stopVars, conn, groupVars, taskVars, wait>>

-----------------------------------------------------------------------------
(* send_packet, send_packet_and_wait_rsp and wait_request.                 *)

ioVars == <<stopVars, conn, groupVars, loops, wait>>

MoveTo(t, place) ==
  /\ pc' = [pc EXCEPT ![t] = place]
  /\ on' = [on EXCEPT ![t] = IF place = "sending" THEN conn ELSE Null]

\* The work is spawned on the io_context, whether or not a thread is left to run it.
CallSend(t) ==
  /\ pc[t] = "idle"
  /\ MoveTo(t, "called")
  /\ UNCHANGED ioVars

\* send_packet: without a connection, or for another device, it does nothing.
BeginSend(t) ==
  /\ IoRuns /\ pc[t] = "called"
  /\ \/ MoveTo(t, "ok")
     \/ conn # Null /\ MoveTo(t, "sending")
  /\ UNCHANGED ioVars

\* send_packet_and_wait_rsp: it throws when the client is stopped or the packet
\* is for another device.
BeginCall(t) ==
  /\ IoRuns /\ pc[t] = "called"
  /\ \/ MoveTo(t, "thrown")
     \/ ~stopped /\ MoveTo(t, IF conn = Null THEN "polling" ELSE "sending")
  /\ UNCHANGED ioVars

\* A call that polls until there is a connection.
PollOnlyConnects(t) ==
  /\ IoRuns /\ pc[t] = "polling" /\ conn # Null
  /\ MoveTo(t, "sending")
  /\ UNCHANGED ioVars

\* The wait for a connection is over: there is one, perhaps too late for the
\* timeout, or half of the timeout has passed.
PollEnds(t) ==
  /\ IoRuns /\ pc[t] = "polling"
  /\ \/ conn # Null /\ \E place \in {"sending", "thrown"} : MoveTo(t, place)
     \/ conn = Null /\ MoveTo(t, "thrown")
  /\ UNCHANGED ioVars

Succeed(t) ==
  /\ IoRuns /\ pc[t] = "sending"
  /\ MoveTo(t, "ok")
  /\ UNCHANGED ioVars

\* The connection's call throws; it does when the connection is destroyed.
Fail(t) ==
  /\ IoRuns
  /\ pc[t] = "sending" \/ (pc[t] = "stuck" /\ ~Alive(on[t]))
  /\ MoveTo(t, "thrown")
  /\ UNCHANGED ioVars

\* The write is to a peer that reads no more.
Stall(t) ==
  /\ pc[t] = "sending"
  /\ pc' = [pc EXCEPT ![t] = "stuck"]
  /\ UNCHANGED <<ioVars, on>>

\* wait_request, once on the io thread; it does not look at stopped.
BeginWait(w) ==
  /\ IoRuns /\ wait[w] = "idle"
  /\ wait' = [wait EXCEPT ![w] = "waiting"]
  /\ UNCHANGED <<stopVars, conn, groupVars, loops, taskVars>>

\* on_receive_request brings a request (module Push).
RequestComes(w) ==
  /\ IoRuns /\ wait[w] = "waiting"
  /\ conn # Null /\ loops[conn] = "running"
  /\ wait' = [wait EXCEPT ![w] = "received"]
  /\ UNCHANGED <<stopVars, conn, groupVars, loops, taskVars>>

-----------------------------------------------------------------------------
(* stop(force).                                                            *)

Stop(force) ==
  /\ ~stopped
  /\ stopped' = TRUE
  /\ stop' = IF force THEN "forced" ELSE "posted"
  /\ UNCHANGED <<halted, ranOut, conn, groupVars, loops, taskVars, wait>>

\* The channels forgotten.
WaitsKept == wait

\* channel->cancel(): every receive under way throws.
WaitsCancelled == [w \in Waiters |-> IF wait[w] = "waiting" THEN "aborted" ELSE wait[w]]

StopHandler ==
  /\ IoRuns /\ stop \in {"posted", "forced"}
  /\ signal' = IF signal = "waiting" THEN "cancelled" ELSE signal
  /\ conn' = Null
  /\ wait' = WaitsCancelled
  /\ stop' = "done"
  /\ halted' = (stop = "forced")
  /\ UNCHANGED <<stopped, ranOut, connecting, beatVars, loops, taskVars>>

-----------------------------------------------------------------------------

GroupStep == \/ ConnectGoesRound \/ ConnectFails \/ \E c \in Conns : Connected(c)
             \/ BeatGoesRound \/ BeatSent \/ BeatFails
             \/ SignalStarts \/ SignalEnds

ConnStep(c) == Start(c) \/ ReadEnds(c) \/ CheckEnds(c) \/ EndQuietly(c)

TaskStep(t) == \/ CallSend(t) \/ BeginSend(t) \/ BeginCall(t) \/ PollEnds(t)
               \/ Succeed(t) \/ Fail(t) \/ Stall(t)

WaitStep(w) == BeginWait(w) \/ RequestComes(w)

Next == \/ GroupStep
        \/ \E c \in Conns : ConnStep(c)
        \/ \E t \in Tasks : TaskStep(t)
        \/ \E w \in Waiters : WaitStep(w)
        \/ \E force \in BOOLEAN : Stop(force)
        \/ StopHandler \/ RunReturns

AttemptEnds == ConnectFails \/ \E c \in Conns : Connected(c)
SendEnds(t) == Succeed(t) \/ Fail(t)
Begin(t) == BeginSend(t) \/ BeginCall(t)

\* The io thread runs what is ready while it is in run(), whose guard stop(false)
\* resets too; timers expire, an attempt to connect ends
\* one way or the other, and a cancelled or closed write ends; a heartbeat's
\* write to a peer that reads no more need not.
Fairness ==
  /\ WF_vars(ConnectGoesRound) /\ WF_vars(AttemptEnds)
  /\ WF_vars(BeatGoesRound)
  /\ WF_vars(BeatFails /\ (BeatCancelled \/ ~Alive(beatOn)))
  /\ WF_vars(SignalStarts) /\ WF_vars(SignalEnds)
  /\ WF_vars(StopHandler) /\ WF_vars(RunReturns)
  /\ \A c \in Conns : WF_vars(Start(c)) /\ WF_vars(EndQuietly(c))
  /\ \A t \in Tasks : /\ WF_vars(Begin(t)) /\ WF_vars(PollEnds(t))
                      /\ WF_vars(SendEnds(t))

Spec == Init /\ [][Next]_vars
FairSpec == Spec /\ Fairness

-----------------------------------------------------------------------------
(* Properties.                                                             *)

\* The connection the client sends on is being read, or is about to be: it is
\* never left with one that has ended (tcp_client.hpp:135), which connect()
\* would not replace.
ConnIsLive == TypeOK /\ (conn # Null => loops[conn] \in {"posted", "running"})

\* A connection is never replaced while the client has it, and is lost only when
\* it ends itself or the client stops: though on_disconnected does not look at
\* who reports (tcp_client.hpp:136), an old connection cannot drop a newer one,
\* and two awaits after connect() found none (tcp_client.hpp:158) there still is
\* none.
ConnLostByItself ==
  [][conn # Null /\ conn' # conn =>
       /\ conn' = Null
       /\ stop' # stop \/ loops'[conn] # loops[conn]]_vars

\* Without a connection the client keeps trying to open one: neither a failed
\* attempt nor a lost connection ends the loop, only stop() or, for good, a
\* heartbeat that failed (tcp_client.hpp:131, 187).
KeepsTrying ==
  conn = Null ~> conn # Null \/ connecting = "opening" \/ stopped \/ beatThrew

\* Every send begun while the io thread is in io_context.run() returns or throws,
\* connected or not, unless stop(true) halted it; a write to a peer that reads no
\* more ends with its connection.  A send begun after stop(false) has reset the
\* guard (tcp_client.hpp:62) and the last work ended does neither.
EveryTaskReturns ==
  \A t \in Tasks :
    pc[t] \notin {"idle"} \cup Results /\ ~ranOut
      ~> \/ pc[t] \in Results \/ halted
         \/ pc[t] = "stuck" /\ Alive(on[t])

\* stop() ends what it finds (tcp_client.hpp:56-67): the group, whether or not
\* stop_signal was being waited for, every connection there is and every
\* wait_request under way, so that the destructor's join (tcp_client.hpp:45) can
\* return.  A connection that completes while stop() runs and a wait_request
\* begun later are not among them.
StopEndsWhatItFinds ==
  LET Stopping == stop \in {"posted", "forced"}
  IN  /\ Stopping ~> halted \/ (connecting = "ended" /\ beating = "ended" /\ signal = "ended")
      /\ \A c \in Conns : Stopping /\ loops[c] # "none" ~> halted \/ loops[c] = "ended"
      /\ \A w \in Waiters : Stopping /\ wait[w] = "waiting"
                               ~> halted \/ wait[w] # "waiting"

=============================================================================
