-------------------------- MODULE TcpClientProofs --------------------------
(***************************************************************************)
(* Proofs about TcpClient, for any connections, tasks and waiters.         *)
(***************************************************************************)
EXTENDS TcpClient, TLAPS

\* Only a client without a connection is opening one.
OpensWithoutConn == connecting = "opening" => conn = Null

IInv == ConnIsLive /\ OpensWithoutConn

-----------------------------------------------------------------------------
(* TypeOK by the variables that a step can change.                         *)

\* The tasks' places.
TasksOK ==
  /\ pc \in [Tasks -> {"idle", "called", "polling", "sending", "stuck"} \cup Results]
  /\ on \in [Tasks -> Conns \cup {Null}]
  /\ \A t \in Tasks : pc[t] \in {"sending", "stuck"} <=> on[t] # Null

\* The group's.
GroupOK ==
  /\ connecting \in {"posted", "opening", "sleeping", "ended"}
  /\ beating \in {"posted", "sending", "sleeping", "ended"}
  /\ beatOn \in Conns \cup {Null}
  /\ signal \in {"posted", "waiting", "cancelled", "ended"}
  /\ beatThrew \in BOOLEAN
  /\ beating = "sending" <=> beatOn # Null

\* What stop() works on.
StopOK ==
  /\ stopped \in BOOLEAN /\ halted \in BOOLEAN /\ ranOut \in BOOLEAN
  /\ stop \in {"none", "posted", "forced", "done"}

\* The connections'.
LoopsOK ==
  /\ conn \in Conns \cup {Null}
  /\ loops \in [Conns -> {"none", "posted", "running", "readOut", "checkOut", "ended"}]

\* The waiters'.
WaitsOK == wait \in [Waiters -> {"idle", "waiting", "received", "aborted"}]

\* The parts are the whole.
LEMMA Parts == TypeOK <=> TasksOK /\ GroupOK /\ StopOK /\ LoopsOK /\ WaitsOK
BY DEF TypeOK, TasksOK, GroupOK, StopOK, LoopsOK, WaitsOK

\* A task moved keeps its place and its connection together.
LEMMA MoveKeeps ==
  ASSUME TypeOK, NEW t \in Tasks,
         NEW place \in {"called", "polling", "sending"} \cup Results,
         place = "sending" => conn # Null,
         MoveTo(t, place)
  PROVE  TasksOK'
<1>1. TasksOK /\ conn \in Conns \cup {Null}
  BY Parts DEF LoopsOK
<1>2. pc' = [pc EXCEPT ![t] = place]
      /\ on' = [on EXCEPT ![t] = IF place = "sending" THEN conn ELSE Null]
  BY DEF MoveTo
<1>3. place # "stuck" /\ place # "idle"
  BY DEF Results
<1> QED BY <1>1, <1>2, <1>3 DEF TasksOK

\* A task's step concerns that task.
LEMMA TaskKeeps ==
  ASSUME IInv, NEW t \in Tasks, TaskStep(t)
  PROVE  IInv'
<1>1. TypeOK /\ TasksOK /\ GroupOK /\ StopOK /\ LoopsOK /\ WaitsOK
  BY Parts DEF IInv, ConnIsLive
<1>2. UNCHANGED ioVars
  BY DEF TaskStep, CallSend, BeginSend, BeginCall, PollEnds, Succeed, Fail, Stall
<1>3. TasksOK'
  <2>1. \A place \in {"called", "polling", "sending"} \cup Results :
          (place = "sending" => conn # Null) /\ MoveTo(t, place) => TasksOK'
    BY <1>1, MoveKeeps
  <2>2. /\ "ok" \in Results /\ "thrown" \in Results
        /\ "ok" # "sending" /\ "thrown" # "sending" /\ "called" # "sending" /\ "polling" # "sending"
    BY DEF Results
  <2>3. CASE CallSend(t)
    BY <2>1, <2>2, <2>3 DEF CallSend
  <2>4. CASE BeginSend(t)
    BY <2>1, <2>2, <2>4 DEF BeginSend
  <2>5. CASE BeginCall(t)
    BY <2>1, <2>2, <2>5 DEF BeginCall
  <2>6. CASE PollEnds(t)
    BY <2>1, <2>2, <2>6 DEF PollEnds
  <2>7. CASE Succeed(t)
    BY <2>1, <2>2, <2>7 DEF Succeed
  <2>8. CASE Fail(t)
    BY <2>1, <2>2, <2>8 DEF Fail
  <2>9. CASE Stall(t)
    BY <1>1, <2>9 DEF Stall, TasksOK
  <2> QED BY <2>3, <2>4, <2>5, <2>6, <2>7, <2>8, <2>9 DEF TaskStep
<1>4. GroupOK' /\ StopOK' /\ LoopsOK' /\ WaitsOK'
  BY <1>1, <1>2 DEF ioVars, stopVars, groupVars, beatVars, GroupOK, StopOK, LoopsOK, WaitsOK
<1>5. TypeOK'
  BY <1>3, <1>4, Parts, PTL
<1> QED BY <1>2, <1>5 DEF IInv, ConnIsLive, OpensWithoutConn, ioVars, groupVars

-----------------------------------------------------------------------------
(* The group, the connections, stop().                                     *)

\* An attempt to connect is begun without a connection and ends before there is one.
LEMMA GroupKeeps ==
  ASSUME IInv, GroupStep
  PROVE  IInv'
<1>1. /\ TasksOK /\ GroupOK /\ StopOK /\ LoopsOK /\ WaitsOK
      /\ (conn # Null => loops[conn] \in {"posted", "running"})
      /\ OpensWithoutConn
  BY Parts DEF IInv, ConnIsLive
<1>2. UNCHANGED <<stopVars, taskVars, wait>>
  BY DEF GroupStep, ConnectGoesRound, ConnectFails, Connected, BeatGoesRound, BeatSent,
         BeatFails, SignalStarts, SignalEnds
<1>3. TasksOK' /\ StopOK' /\ WaitsOK'
  BY <1>1, <1>2 DEF TasksOK, StopOK, WaitsOK, stopVars, taskVars
<1>4. SUFFICES /\ GroupOK' /\ LoopsOK'
               /\ (conn # Null => loops[conn] \in {"posted", "running"})'
               /\ OpensWithoutConn'
  <2>1. TypeOK' <=> TasksOK' /\ GroupOK' /\ StopOK' /\ LoopsOK' /\ WaitsOK'
    BY Parts, PTL
  <2> QED BY <1>3, <2>1 DEF IInv, ConnIsLive
<1>5. CASE ConnectGoesRound
  <2>1. UNCHANGED <<conn, beatVars, signal, loops>>
    BY <1>5 DEF ConnectGoesRound
  <2>2. connecting' \in {"opening", "sleeping", "ended"} /\ (connecting' = "opening" => conn = Null)
    BY <1>5 DEF ConnectGoesRound, ConnectTop
  <2> QED BY <1>1, <2>1, <2>2 DEF GroupOK, LoopsOK, OpensWithoutConn, beatVars
<1>6. CASE ConnectFails
  <2>1. UNCHANGED <<conn, beatVars, signal, loops>> /\ connecting' \in {"sleeping", "ended"}
    BY <1>6 DEF ConnectFails, AfterAttempt
  <2> QED BY <1>1, <2>1 DEF GroupOK, LoopsOK, OpensWithoutConn, beatVars
<1>7. ASSUME NEW c \in Conns, Connected(c)
      PROVE  /\ GroupOK' /\ LoopsOK'
             /\ (conn # Null => loops[conn] \in {"posted", "running"})'
             /\ OpensWithoutConn'
  <2>1. /\ UNCHANGED <<beatVars, signal>> /\ connecting' \in {"sleeping", "ended"}
        /\ conn' = c /\ loops' = [loops EXCEPT ![c] = "posted"]
    BY <1>7 DEF Connected, AfterAttempt
  <2>2. loops' \in [Conns -> {"none", "posted", "running", "readOut", "checkOut", "ended"}]
        /\ loops'[c] = "posted"
    BY <1>1, <2>1 DEF LoopsOK
  <2> QED BY <1>1, <2>1, <2>2 DEF GroupOK, LoopsOK, OpensWithoutConn, beatVars
<1>8. CASE BeatGoesRound
  <2>1. UNCHANGED <<conn, connecting, signal, beatThrew, loops>>
    BY <1>8 DEF BeatGoesRound
  <2>2. /\ beating' \in {"sending", "sleeping", "ended"} /\ (beating' = "sending" => conn # Null)
        /\ beatOn' = IF beating' = "sending" THEN conn ELSE Null
    BY <1>8 DEF BeatGoesRound, BeatTop
  <2>3. GroupOK'
    BY <1>1, <2>1, <2>2 DEF GroupOK, LoopsOK
  <2> QED BY <1>1, <2>1, <2>3 DEF LoopsOK, OpensWithoutConn
<1>9. CASE BeatSent \/ BeatFails
  <2>1. UNCHANGED <<conn, connecting, signal, loops>>
    BY <1>9 DEF BeatSent, BeatFails
  <2>2. beating' \in {"sleeping", "ended"} /\ beatOn' = Null /\ beatThrew' \in BOOLEAN
    BY <1>1, <1>9 DEF BeatSent, BeatFails, GroupOK
  <2>3. GroupOK'
    BY <1>1, <2>1, <2>2 DEF GroupOK
  <2> QED BY <1>1, <2>1, <2>3 DEF LoopsOK, OpensWithoutConn
<1>10. CASE SignalStarts \/ SignalEnds
  <2>1. UNCHANGED <<conn, connecting, beatVars, loops>> /\ signal' \in {"waiting", "ended"}
    BY <1>10 DEF SignalStarts, SignalEnds
  <2> QED BY <1>1, <2>1 DEF GroupOK, LoopsOK, OpensWithoutConn, beatVars
<1> QED BY <1>5, <1>6, <1>7, <1>8, <1>9, <1>10 DEF GroupStep

\* The connection that ends is the one dropped.
LEMMA ConnKeeps ==
  ASSUME IInv, NEW c \in Conns, ConnStep(c)
  PROVE  IInv'
<1>1. /\ TasksOK /\ GroupOK /\ StopOK /\ LoopsOK /\ WaitsOK
      /\ (conn # Null => loops[conn] \in {"posted", "running"})
      /\ OpensWithoutConn
  BY Parts DEF IInv, ConnIsLive
<1>2. UNCHANGED <<stopVars, groupVars, taskVars, wait>>
  BY DEF ConnStep, Start, ReadEnds, CheckEnds, ReportsEnd, EndQuietly
<1>3. TasksOK' /\ StopOK' /\ WaitsOK' /\ GroupOK'
  BY <1>1, <1>2 DEF TasksOK, StopOK, WaitsOK, GroupOK, stopVars, taskVars, groupVars, beatVars
<1>4. /\ \E next \in {"running", "readOut", "checkOut", "ended"} :
           loops' = [loops EXCEPT ![c] = next]
      /\ conn' = Null \/ (conn' = conn /\ (conn = c => loops'[c] = "running"))
  <2>1. CASE Start(c)
    BY <1>1, <2>1 DEF Start, Alive, LoopsOK
  <2>2. CASE ReadEnds(c) \/ CheckEnds(c)
    BY <1>1, <2>2 DEF ReadEnds, CheckEnds, ReportsEnd, ConnDropped
  <2>3. CASE EndQuietly(c)
    <3>1. conn # c
      <4>1. CASE loops[c] \in {"readOut", "checkOut"}
        BY <1>1, <4>1, ClientAssumption
      <4>2. CASE ~Alive(c)
        BY <4>2 DEF Alive
      <4> QED BY <2>3, <4>1, <4>2 DEF EndQuietly
    <3> QED BY <2>3, <3>1 DEF EndQuietly
  <2> QED BY <2>1, <2>2, <2>3 DEF ConnStep
<1>5. LoopsOK' /\ (conn # Null => loops[conn] \in {"posted", "running"})'
  <2>1. loops' \in [Conns -> {"none", "posted", "running", "readOut", "checkOut", "ended"}]
        /\ \A d \in Conns : d # c => loops'[d] = loops[d]
    BY <1>1, <1>4 DEF LoopsOK
  <2> QED BY <1>1, <1>4, <2>1 DEF LoopsOK
<1>6. OpensWithoutConn'
  BY <1>1, <1>2, <1>4 DEF OpensWithoutConn, groupVars
<1>7. TypeOK' <=> TasksOK' /\ GroupOK' /\ StopOK' /\ LoopsOK' /\ WaitsOK'
  BY Parts, PTL
<1> QED BY <1>3, <1>5, <1>6, <1>7 DEF IInv, ConnIsLive

\* The invariant is inductive.
LEMMA StepInv == IInv /\ [Next]_vars => IInv'
<1> SUFFICES ASSUME IInv, [Next]_vars
             PROVE  IInv'
  OBVIOUS
<1>1. /\ TasksOK /\ GroupOK /\ StopOK /\ LoopsOK /\ WaitsOK
      /\ (conn # Null => loops[conn] \in {"posted", "running"})
      /\ OpensWithoutConn
  BY Parts DEF IInv, ConnIsLive
<1>2. TypeOK' <=> TasksOK' /\ GroupOK' /\ StopOK' /\ LoopsOK' /\ WaitsOK'
  BY Parts, PTL
<1>3. CASE \E w \in Waiters : WaitStep(w)
  <2>1. UNCHANGED <<stopVars, conn, groupVars, loops, taskVars>>
    BY <1>3 DEF WaitStep, BeginWait, RequestComes
  <2>2. WaitsOK'
    BY <1>1, <1>3 DEF WaitStep, BeginWait, RequestComes, WaitsOK
  <2>3. TasksOK' /\ GroupOK' /\ StopOK' /\ LoopsOK'
    BY <1>1, <2>1 DEF TasksOK, GroupOK, StopOK, LoopsOK, stopVars, groupVars, beatVars, taskVars
  <2> QED BY <1>1, <1>2, <2>1, <2>2, <2>3 DEF IInv, ConnIsLive, OpensWithoutConn, groupVars
<1>4. CASE \E force \in BOOLEAN : Stop(force)
  <2>1. UNCHANGED <<halted, ranOut, conn, groupVars, loops, taskVars, wait>>
    BY <1>4 DEF Stop
  <2>2. StopOK'
    BY <1>1, <1>4 DEF Stop, StopOK
  <2>3. TasksOK' /\ GroupOK' /\ LoopsOK' /\ WaitsOK'
    BY <1>1, <2>1 DEF TasksOK, GroupOK, LoopsOK, WaitsOK, groupVars, beatVars, taskVars
  <2> QED BY <1>1, <1>2, <2>1, <2>2, <2>3 DEF IInv, ConnIsLive, OpensWithoutConn, groupVars
<1>5. CASE StopHandler
  <2>1. UNCHANGED <<stopped, ranOut, connecting, beatVars, loops, taskVars>> /\ conn' = Null
    BY <1>5 DEF StopHandler
  <2>2. StopOK' /\ WaitsOK'
    BY <1>1, <1>5 DEF StopHandler, StopOK, WaitsOK, WaitsCancelled
  <2>3. signal' \in {"posted", "waiting", "cancelled", "ended"}
    BY <1>1, <1>5 DEF StopHandler, GroupOK
  <2>4. TasksOK' /\ GroupOK' /\ LoopsOK'
    BY <1>1, <2>1, <2>3 DEF TasksOK, GroupOK, LoopsOK, beatVars, taskVars
  <2> QED BY <1>2, <2>1, <2>2, <2>4 DEF IInv, ConnIsLive, OpensWithoutConn
<1>6. CASE UNCHANGED vars
  <2>1. TasksOK' /\ GroupOK' /\ StopOK' /\ LoopsOK' /\ WaitsOK'
    BY <1>1, <1>6 DEF TasksOK, GroupOK, StopOK, LoopsOK, WaitsOK, vars
  <2> QED BY <1>1, <1>2, <1>6, <2>1 DEF IInv, ConnIsLive, OpensWithoutConn, vars
<1>7. CASE RunReturns
  <2>1. UNCHANGED <<stopped, stop, halted, conn, groupVars, loops, taskVars, wait>>
        /\ ranOut' = TRUE
    BY <1>7 DEF RunReturns
  <2>2. TasksOK' /\ GroupOK' /\ StopOK' /\ LoopsOK' /\ WaitsOK'
    BY <1>1, <2>1 DEF TasksOK, GroupOK, StopOK, LoopsOK, WaitsOK, groupVars, beatVars, taskVars
  <2> QED BY <1>1, <1>2, <2>1, <2>2 DEF IInv, ConnIsLive, OpensWithoutConn, groupVars
<1> QED BY <1>3, <1>4, <1>5, <1>6, <1>7, GroupKeeps, ConnKeeps, TaskKeeps DEF Next

\* The invariant holds initially.
LEMMA InitInv == Init => IInv
<1> SUFFICES ASSUME Init PROVE IInv
  OBVIOUS
<1>1. TasksOK /\ GroupOK /\ StopOK /\ LoopsOK /\ WaitsOK
  BY DEF Init, TasksOK, GroupOK, StopOK, LoopsOK, WaitsOK
<1> QED BY <1>1, Parts DEF Init, IInv, ConnIsLive, OpensWithoutConn

\* The inductive invariant of the client.
THEOREM Invariance == Spec => []IInv
<1> QED BY InitInv, StepInv, PTL DEF Spec

\* The client is never left with a connection that has ended (tcp_client.hpp:135).
THEOREM ConnStaysLive == Spec => []ConnIsLive
<1>1. IInv => ConnIsLive
  BY DEF IInv
<1> QED BY <1>1, Invariance, PTL

\* A connection is never replaced while the client has it, and lost only when it ends
\* itself or the client stops (tcp_client.hpp:136, 158).
THEOREM OnlyItselfIsLost == Spec => ConnLostByItself
<1> DEFINE Lost == conn # Null /\ conn' # conn =>
                     /\ conn' = Null
                     /\ stop' # stop \/ loops'[conn] # loops[conn]
<1>1. IInv /\ [Next]_vars => [Lost]_vars
  <2> SUFFICES ASSUME IInv, Next, conn # Null, conn' # conn
               PROVE  conn' = Null /\ (stop' # stop \/ loops'[conn] # loops[conn])
    BY DEF vars
  <2>1. CASE GroupStep
    <3>1. PICK c \in Conns : Connected(c)
      BY <2>1 DEF GroupStep, ConnectGoesRound, ConnectFails, BeatGoesRound, BeatSent,
                  BeatFails, SignalStarts, SignalEnds
    <3> QED BY <3>1 DEF Connected, IInv, OpensWithoutConn
  <2>2. ASSUME NEW c \in Conns, ConnStep(c)
        PROVE  conn' = Null /\ loops'[conn] # loops[conn]
    <3>1. PICK first \in {"readOut", "checkOut"}, other \in {"readOut", "checkOut"} :
            ReportsEnd(c, first, other)
      BY <2>2 DEF ConnStep, Start, ReadEnds, CheckEnds, EndQuietly
    <3>2. loops \in [Conns -> {"none", "posted", "running", "readOut", "checkOut", "ended"}]
      BY DEF IInv, ConnIsLive, TypeOK
    <3>3. /\ conn = c /\ conn' = Null /\ loops[c] \in {"running", other}
          /\ loops'[c] = IF loops[c] = "running" THEN first ELSE "ended"
      BY <3>1, <3>2 DEF ReportsEnd, Alive, ConnDropped
    <3> QED BY <3>3
  <2>3. CASE \E t \in Tasks : TaskStep(t)
    BY <2>3 DEF TaskStep, CallSend, BeginSend, BeginCall, PollEnds, Succeed, Fail, Stall, ioVars
  <2>4. CASE \E w \in Waiters : WaitStep(w)
    BY <2>4 DEF WaitStep, BeginWait, RequestComes
  <2>5. CASE \E force \in BOOLEAN : Stop(force)
    BY <2>5 DEF Stop
  <2>6. CASE StopHandler
    BY <2>6 DEF StopHandler
  <2>7. CASE RunReturns
    BY <2>7 DEF RunReturns
  <2> QED BY <2>1, <2>2, <2>3, <2>4, <2>5, <2>6, <2>7 DEF Next
<1> QED BY <1>1, Invariance, PTL DEF Spec, ConnLostByItself

=============================================================================
