-------------------------- MODULE KeepAliveProofs --------------------------
(***************************************************************************)
(* Proofs about KeepAlive, for any intervals, limits and delays, any       *)
(* number of connections and tries.                                        *)
(***************************************************************************)
EXTENDS KeepAlive, SequenceTheorems, TLAPS

\* The ticks after which the check gives an end up.
Limit == (Lifetime + 1) * Second

\* The ends that run have clocks in range, and the check of one that has been
\* silent for long is due before its limit is exceeded by an interval.
ClocksOK ==
  /\ open \subseteq Ends
  /\ idle \in [Ends -> Nat]
  /\ check_timer \in [Ends -> 0..CheckInterval]
  /\ \A e \in open : idle[e] + check_timer[e] <= Limit - 1 + CheckInterval

ConnOK == made \in 0..MaxConns /\ conn \in 0..MaxConns /\ registered \in 0..MaxConns

\* What a client's call has used of its time but for its write and what it may use yet.
CallOK ==
  /\ call \in [at : {"none", "poll", "write", "wait", "ended"}, time : Nat, left : Nat,
               on : 0..MaxConns]
  /\ call.at = "none" => call.time = 0
  /\ call.at = "poll" => call.time + call.left <= Timeout \div 2 + Poll
  /\ call.at \in OnConn => call.time + call.left <= Timeout
  /\ call.at = "ended" => call.time <= Timeout \/ call.time <= Timeout \div 2 + Poll

\* A server's, which has tried i times before.
PushOK ==
  /\ push \in [at : {"none", "write", "wait", "ended"}, time : Nat, left : Nat, i : Nat,
               on : 0..MaxConns]
  /\ push.at = "none" => push.time = 0
  /\ push.at \in OnConn =>
       push.i <= max_tries /\ push.time + push.left <= (push.i + 1) * Timeout
  /\ push.at = "ended" => push.time <= (max_tries + 1) * Timeout

IInv == ClocksOK /\ ConnOK /\ CallOK /\ PushOK

-----------------------------------------------------------------------------
(* Numbers.                                                                *)

\* The limit is a number of at least one tick.
LEMMA LimitPositive == Limit \in Nat /\ Limit >= 1
<1>1. Lifetime \in Nat /\ Second \in Nat /\ Second >= 1
  BY TimeAssumption
<1>2. ASSUME NEW a \in Nat, NEW b \in Nat, b >= 1
      PROVE  (a + 1) * b \in Nat /\ (a + 1) * b >= 1
  BY <1>2
<1> QED BY <1>1, <1>2 DEF Limit

\* A time whose whole seconds do not exceed the lifetime is below the limit.
LEMMA NotTooLong ==
  ASSUME NEW t \in Nat, ~TooLong(t)
  PROVE  t <= Limit - 1
<1>1. Lifetime \in Nat /\ Second \in Nat /\ Second >= 1
  BY TimeAssumption
<1> DEFINE q == t \div Second
<1>2. q \in Nat /\ t = Second * q + (t % Second) /\ t % Second \in 0..(Second - 1)
  BY <1>1
<1>3. q <= Lifetime
  BY <1>1, <1>2 DEF TooLong
<1> HIDE DEF q
<1>4. ASSUME NEW a \in Nat, NEW b \in Nat, NEW s \in Nat, a <= b
      PROVE  s * a + s <= (b + 1) * s
  BY <1>4
<1>5. Second * q + Second <= (Lifetime + 1) * Second
  BY <1>1, <1>2, <1>3, <1>4
<1>6. Second * q \in Nat /\ (Lifetime + 1) * Second \in Nat
  BY <1>1, <1>2
<1> QED BY <1>1, <1>2, <1>5, <1>6 DEF Limit

\* Half a time limit is a number.
LEMMA HalfIsNat == Timeout \in Nat /\ Timeout \div 2 \in Nat /\ Poll \in Nat
  BY TimeAssumption

\* The time limits of so many tries.
LEMMA TriesAddUp ==
  ASSUME NEW i \in Nat
  PROVE  /\ (i + 1) * Timeout \in Nat /\ (i + 1) * Timeout + Timeout = (i + 1 + 1) * Timeout
         /\ \A n \in Nat : i <= n => (i + 1) * Timeout <= (n + 1) * Timeout
<1>1. Timeout \in Nat
  BY TimeAssumption
<1>2. ASSUME NEW a \in Nat, NEW t \in Nat
      PROVE  (a + 1) * t \in Nat /\ (a + 1) * t + t = (a + 1 + 1) * t
  BY <1>2
<1>3. ASSUME NEW a \in Nat, NEW b \in Nat, NEW t \in Nat, a <= b
      PROVE  (a + 1) * t <= (b + 1) * t
  BY <1>3
<1> QED BY <1>1, <1>2, <1>3

-----------------------------------------------------------------------------
(* Clocks.                                                                 *)

\* Ends that go on running, with their clocks or with a packet just received.
LEMMA RunKeeps ==
  ASSUME ClocksOK, NEW O \in SUBSET open, NEW s, s = idle \/ \E e \in Ends : s = [idle EXCEPT ![e] = 0],
         Run(O, s, check_timer)
  PROVE  ClocksOK'
<1>1. s \in [Ends -> Nat] /\ \A e \in Ends : s[e] <= idle[e]
  BY DEF ClocksOK
<1>2. CheckInterval \in Nat /\ Limit \in Nat /\ Limit >= 1
  BY TimeAssumption, LimitPositive
<1>3. open' \subseteq Ends /\ idle' \in [Ends -> Nat] /\ check_timer' \in [Ends -> 0..CheckInterval]
  BY <1>1, <1>2 DEF ClocksOK, Run
<1>4. \A e \in open' : idle'[e] + check_timer'[e] <= Limit - 1 + CheckInterval
  <2> SUFFICES ASSUME NEW e \in open'
               PROVE  idle'[e] + check_timer'[e] <= Limit - 1 + CheckInterval
    OBVIOUS
  <2>1. e \in open /\ e \in Ends /\ idle'[e] = s[e] /\ check_timer'[e] = check_timer[e]
    BY DEF Run, ClocksOK
  <2>2. idle[e] + check_timer[e] <= Limit - 1 + CheckInterval
    BY <2>1 DEF ClocksOK
  <2>3. s[e] \in Nat /\ idle[e] \in Nat /\ check_timer[e] \in Nat /\ s[e] <= idle[e]
    BY <1>1, <2>1 DEF ClocksOK
  <2> QED BY <1>2, <2>1, <2>2, <2>3
<1> QED BY <1>3, <1>4 DEF ClocksOK, Limit

\* Ends stopped leave the others as they were.
LEMMA StopKeeps ==
  ASSUME ClocksOK, NEW E, Stop(E)
  PROVE  ClocksOK'
<1>1. open \ E \in SUBSET open /\ Run(open \ E, idle, check_timer)
  BY DEF Stop
<1> QED BY <1>1, RunKeeps

\* An end started has its interval before it.
LEMMA StartKeeps ==
  ASSUME ClocksOK, NEW e \in Ends, Start(e)
  PROVE  ClocksOK'
<1>1. CheckInterval \in Nat /\ Limit \in Nat /\ Limit >= 1
  BY TimeAssumption, LimitPositive
<1>2. open' = open \cup {e}
      /\ idle' = [x \in Ends |-> IF x \in open \cup {e} THEN [idle EXCEPT ![e] = 0][x] ELSE 0]
      /\ check_timer' = [x \in Ends |-> IF x \in open \cup {e}
                                        THEN [check_timer EXCEPT ![e] = CheckInterval][x] ELSE 0]
  BY DEF Start, Run
<1>3. open' \subseteq Ends /\ idle' \in [Ends -> Nat] /\ check_timer' \in [Ends -> 0..CheckInterval]
  BY <1>1, <1>2 DEF ClocksOK
<1>4. \A x \in open' : idle'[x] + check_timer'[x] <= Limit - 1 + CheckInterval
  <2> SUFFICES ASSUME NEW x \in open'
               PROVE  idle'[x] + check_timer'[x] <= Limit - 1 + CheckInterval
    OBVIOUS
  <2>1. CASE x = e
    <3>1. idle'[x] = 0 /\ check_timer'[x] = CheckInterval
      BY <1>2, <2>1 DEF ClocksOK
    <3> QED BY <1>1, <3>1
  <2>2. CASE x # e
    BY <1>2, <2>2 DEF ClocksOK
  <2> QED BY <2>1, <2>2
<1> QED BY <1>3, <1>4 DEF ClocksOK, Limit

\* Clocks untouched.
LEMMA ClocksUnchanged ==
  ASSUME ClocksOK, UNCHANGED <<open, idle, check_timer>>
  PROVE  ClocksOK'
  BY DEF ClocksOK, Limit

\* A disconnection stops ends, and a client's lets go of conn.
LEMMA DisconnectedKeeps ==
  ASSUME ClocksOK, ConnOK, NEW e, NEW w, Disconnected(e, w)
  PROVE  ClocksOK' /\ conn' \in 0..MaxConns /\ registered' \in 0..MaxConns
<1>1. \E E : Stop(E)
  BY DEF Disconnected, ClientDisconnected, ServerDisconnected
<1>2. conn' \in 0..MaxConns /\ registered' \in 0..MaxConns
  BY TimeAssumption DEF Disconnected, ClientDisconnected, ServerDisconnected, ConnOK, None
<1> QED BY <1>1, <1>2, StopKeeps

\* What a packet does to the clocks of the end it arrives at.
LEMMA HandleKeeps ==
  ASSUME ClocksOK, ConnOK, NEW e \in Ends, NEW kind, NEW w, e \in open, Handle(e, kind, w)
  PROVE  ClocksOK' /\ conn' \in 0..MaxConns /\ registered' \in 0..MaxConns
<1>1. CASE Named(e, w) /\ UNCHANGED conn
  <2>1. \E G : Run(open \ G, [idle EXCEPT ![e] = 0], check_timer)
    BY <1>1 DEF Named
  <2>2. registered' = e[2] /\ e[2] \in 1..MaxConns
    BY <1>1 DEF Named, Ends, Conns
  <2>3. registered' \in 0..MaxConns
    BY <2>2, TimeAssumption
  <2> QED BY <1>1, <2>1, <2>3, RunKeeps DEF ConnOK
<1>2. CASE Received(e) /\ UNCHANGED conn
  <2>1. Run(open, [idle EXCEPT ![e] = 0], check_timer)
    BY <1>2 DEF Received
  <2>2. open \in SUBSET open /\ UNCHANGED registered
    BY <1>2 DEF Received
  <2> QED BY <1>2, <2>1, <2>2, RunKeeps DEF ConnOK
<1>3. CASE Disconnected(e, w)
  BY <1>3, DisconnectedKeeps
<1> QED BY <1>1, <1>2, <1>3 DEF Handle

-----------------------------------------------------------------------------
(* The calls.                                                              *)

\* A look leaves a call with no more time than it has.
LEMMA LookKeeps ==
  ASSUME ConnOK, CallOK, NEW time \in Nat, time <= Timeout \div 2 + Poll, Look(time)
  PROVE  CallOK'
<1> USE HalfIsNat
<1>1. conn \in 0..MaxConns /\ None \in 0..MaxConns
  BY TimeAssumption DEF ConnOK, None
<1>2. CASE conn # None /\ time < Timeout
  <2>1. call' = [at |-> "write", time |-> time, left |-> Timeout - time, on |-> conn]
    BY <1>2 DEF Look
  <2>2. Timeout - time \in Nat /\ time + (Timeout - time) <= Timeout
    BY <1>2
  <2> QED BY <1>1, <2>1, <2>2 DEF CallOK
<1>3. CASE ~(conn # None /\ time < Timeout) /\ (conn # None \/ time > Timeout \div 2)
  <2>1. call' = Alone("ended", time, 0)
    BY <1>3 DEF Look
  <2> QED BY <1>1, <2>1 DEF CallOK, Alone, OnConn
<1>4. CASE conn = None /\ time <= Timeout \div 2
  <2>1. call' = Alone("poll", time, Poll)
    BY <1>4 DEF Look
  <2> QED BY <1>1, <1>4, <2>1 DEF CallOK, Alone, OnConn
<1> QED BY <1>2, <1>3, <1>4

\* Another try, or none, adds at most one time limit.
LEMMA TryKeeps ==
  ASSUME ConnOK, NEW i \in Nat, NEW time \in Nat, Try(i, time),
         time <= i * Timeout, i <= max_tries + 1
  PROVE  PushOK'
<1>1. max_tries \in Nat /\ Timeout \in Nat /\ i * Timeout \in Nat
      /\ registered \in 0..MaxConns /\ None \in 0..MaxConns
  BY TimeAssumption DEF ConnOK, None
<1>2. ASSUME NEW a \in Nat, NEW t \in Nat
      PROVE  a * t \in Nat /\ a * t + t = (a + 1) * t
  BY <1>2
<1>3. i * Timeout + Timeout = (i + 1) * Timeout
  BY <1>1, <1>2
<1>4. CASE MayTry(i) /\ registered # None
  <2>1. push' = [at |-> "write", time |-> time, left |-> Timeout, i |-> i, on |-> registered]
    BY <1>4 DEF Try
  <2>2. time + Timeout <= (i + 1) * Timeout
    BY <1>1, <1>3
  <2> QED BY <1>1, <1>4, <2>1, <2>2 DEF PushOK, MayTry
<1>5. CASE ~(MayTry(i) /\ registered # None)
  <2>1. push' = [at |-> "ended", time |-> time, left |-> 0, i |-> i, on |-> None]
    BY <1>5 DEF Try
  <2>2. ASSUME NEW a \in Nat, NEW b \in Nat, NEW t \in Nat, a <= b
        PROVE  a * t <= b * t
    BY <2>2
  <2>3. i * Timeout <= (max_tries + 1) * Timeout
    BY <1>1, <2>2
  <2>4. time <= (max_tries + 1) * Timeout
    <3>1. (max_tries + 1) * Timeout \in Nat
      BY <1>1, <1>2
    <3> QED BY <1>1, <2>3, <3>1
  <2> QED BY <1>1, <2>1, <2>4 DEF PushOK, OnConn
<1> QED BY <1>4, <1>5

-----------------------------------------------------------------------------
(* The invariant.                                                          *)

\* Nothing runs at first.
LEMMA InitInv == Init => IInv
<1> SUFFICES ASSUME Init PROVE IInv
  OBVIOUS
<1>1. ClocksOK
  BY TimeAssumption DEF Init, ClocksOK
<1>2. ConnOK
  BY TimeAssumption DEF Init, ConnOK, None
<1>3. CallOK
  BY TimeAssumption DEF Init, CallOK, None, OnConn
<1>4. PushOK
  BY TimeAssumption DEF Init, PushOK, None, OnConn
<1> QED BY <1>1, <1>2, <1>3, <1>4 DEF IInv

\* What does not touch a call leaves it as it was.
LEMMA CallsUnchanged ==
  ASSUME CallOK, PushOK, UNCHANGED <<call, push>>
  PROVE  CallOK' /\ PushOK'
  BY DEF CallOK, PushOK

\* A tick moves what is left of a timer to what has passed.
LEMMA TickKeeps ==
  ASSUME IInv, Tick
  PROVE  IInv'
<1>1. CheckInterval \in Nat /\ Limit \in Nat /\ Limit >= 1
  BY TimeAssumption, LimitPositive
<1>2. ClocksOK'
  <2>1. /\ open' = open
        /\ idle' = [e \in Ends |-> IF e \in open THEN idle[e] + 1 ELSE idle[e]]
        /\ check_timer' = [e \in Ends |-> IF e \in open THEN check_timer[e] - 1
                                                       ELSE check_timer[e]]
        /\ \A e \in open : check_timer[e] > 0
    BY DEF Tick, MayPass
  <2>2. open \subseteq Ends /\ idle \in [Ends -> Nat] /\ check_timer \in [Ends -> 0..CheckInterval]
    BY DEF IInv, ClocksOK
  <2>3. \A e \in Ends : idle'[e] \in Nat /\ check_timer'[e] \in 0..CheckInterval
    BY <1>1, <2>1, <2>2
  <2>4. idle' \in [Ends -> Nat] /\ check_timer' \in [Ends -> 0..CheckInterval]
    BY <2>1, <2>3
  <2>5. \A e \in open : idle'[e] + check_timer'[e] = idle[e] + check_timer[e]
    BY <1>1, <2>1, <2>2
  <2> QED BY <2>1, <2>2, <2>4, <2>5 DEF IInv, ClocksOK, Limit
<1>3. ConnOK'
  BY DEF Tick, IInv, ConnOK
<1>4. CallOK'
  <2>1. CASE call.at \in {"poll", "wait"}
    <3>1. call' = [call EXCEPT !.time = @ + 1, !.left = @ - 1]
      BY <2>1 DEF Tick, CallLater
    <3>2. call.time \in Nat /\ call.left \in Nat /\ call.left > 0
      BY <2>1 DEF IInv, CallOK, Tick, MayPass
    <3>3. call.time + 1 \in Nat /\ call.left - 1 \in Nat
          /\ (call.time + 1) + (call.left - 1) = call.time + call.left
      BY <3>2
    <3> QED BY <2>1, <3>1, <3>3 DEF IInv, CallOK, OnConn
  <2>2. CASE call.at \notin {"poll", "wait"}
    BY <2>2 DEF Tick, CallLater, IInv, CallOK
  <2> QED BY <2>1, <2>2
<1>5. PushOK'
  <2>1. CASE push.at = "wait"
    <3>1. push' = [push EXCEPT !.time = @ + 1, !.left = @ - 1]
      BY <2>1 DEF Tick, PushLater
    <3>2. push.time \in Nat /\ push.left \in Nat /\ push.left > 0
      BY <2>1 DEF IInv, PushOK, Tick, MayPass
    <3>3. push.time + 1 \in Nat /\ push.left - 1 \in Nat
          /\ (push.time + 1) + (push.left - 1) = push.time + push.left
      BY <3>2
    <3> QED BY <2>1, <3>1, <3>3 DEF IInv, PushOK, OnConn
  <2>2. CASE push.at # "wait"
    BY <2>2 DEF Tick, PushLater, IInv, PushOK
  <2> QED BY <2>1, <2>2
<1> QED BY <1>2, <1>3, <1>4, <1>5 DEF IInv

\* Every step keeps the invariant.
LEMMA StepInv == IInv /\ [Next]_vars => IInv'
<1> SUFFICES ASSUME IInv, [Next]_vars PROVE IInv'
  OBVIOUS
<1>1. ClocksOK /\ ConnOK /\ CallOK /\ PushOK
  BY DEF IInv
<1>2. CASE Connect
  <2>1. <<"client", made + 1>> \in Ends /\ made + 1 \in 0..MaxConns
    BY <1>1, <1>2, TimeAssumption DEF Connect, ConnOK, Ends, Conns
  <2>2. ClocksOK'
    BY <1>1, <1>2, <2>1, StartKeeps DEF Connect
  <2>3. ConnOK'
    BY <1>1, <1>2, <2>1 DEF Connect, ConnOK
  <2> QED BY <1>1, <1>2, <2>2, <2>3, CallsUnchanged DEF Connect, IInv
<1>3. CASE Beat
  <2>1. ClocksOK'
    BY <1>1, <1>3, ClocksUnchanged DEF Beat
  <2>2. ConnOK'
    BY <1>1, <1>3 DEF Beat, ConnOK
  <2> QED BY <1>1, <1>3, <2>1, <2>2, CallsUnchanged DEF Beat, IInv
<1>4. ASSUME UNCHANGED <<connVars, push>>, CallOK'
      PROVE  IInv'
  <2>1. ClocksOK' /\ ConnOK'
    BY <1>1, <1>4, ClocksUnchanged DEF connVars, ConnOK
  <2> QED BY <1>1, <1>4, <2>1 DEF IInv, PushOK
<1>5. CASE Call
  <2>1. 0 <= Timeout \div 2 + Poll /\ Look(0)
    BY <1>5, HalfIsNat DEF Call
  <2>2. CallOK'
    BY <1>1, <2>1, LookKeeps
  <2> QED BY <1>4, <1>5, <2>2 DEF Call
<1>6. CASE LookAgain
  <2>1. Look(call.time) /\ call.time \in Nat /\ call.time <= Timeout \div 2 + Poll
    BY <1>1, <1>6, HalfIsNat DEF LookAgain, CallOK
  <2>2. CallOK'
    BY <1>1, <2>1, LookKeeps
  <2> QED BY <1>4, <1>6, <2>2 DEF LookAgain
<1>7. CASE CallWritten \/ CallEnds
  <2>1. CallOK'
    <3>1. CASE CallWritten
      BY <1>1, <3>1 DEF CallWritten, CallOK, OnConn
    <3>2. CASE CallEnds
      <4>1. call.time <= Timeout /\ None \in 0..MaxConns
        BY <1>1, <3>2, HalfIsNat, TimeAssumption DEF CallEnds, CallOK, None
      <4>2. call' = Alone("ended", call.time, 0)
        BY <3>2 DEF CallEnds
      <4> QED BY <1>1, <4>1, <4>2 DEF CallOK, Alone, OnConn
    <3> QED BY <1>7, <3>1, <3>2
  <2> QED BY <1>4, <1>7, <2>1 DEF CallWritten, CallEnds
<1>8. CASE Push
  <2>1. PushOK'
    <3>1. 0 <= 0 * Timeout /\ 0 <= max_tries + 1 /\ Try(0, 0)
      BY <1>8, TimeAssumption DEF Push
    <3> QED BY <1>1, <3>1, TryKeeps
  <2>2. ClocksOK' /\ ConnOK'
    BY <1>1, <1>8, ClocksUnchanged DEF Push, connVars, ConnOK
  <2>3. CallOK'
    BY <1>1, <1>8 DEF Push, CallOK
  <2> QED BY <2>1, <2>2, <2>3 DEF IInv
<1>9. CASE TryEnds
  <2>1. push.at \in OnConn /\ push.i \in Nat /\ push.i <= max_tries /\ push.time \in Nat
        /\ push.left \in Nat /\ push.time + push.left <= (push.i + 1) * Timeout
    BY <1>1, <1>9 DEF TryEnds, PushOK
  <2>2. (push.i + 1) * Timeout \in Nat /\ push.time <= (push.i + 1) * Timeout
        /\ (push.i + 1) * Timeout <= (max_tries + 1) * Timeout
        /\ (max_tries + 1) * Timeout \in Nat /\ max_tries \in Nat
    <3>1. max_tries \in Nat
      BY TimeAssumption
    <3> QED BY <2>1, <3>1, TriesAddUp
  <2>3. PushOK'
    <3>1. CASE push' = [at |-> "ended", time |-> push.time, left |-> 0, i |-> push.i, on |-> None]
      <4>1. push.time <= (max_tries + 1) * Timeout /\ None \in 0..MaxConns
        BY <2>1, <2>2, TimeAssumption DEF None
      <4> QED BY <1>1, <3>1, <4>1 DEF PushOK, OnConn
    <3>2. CASE Try(push.i + 1, push.time)
      <4>1. push.i + 1 \in Nat /\ push.i + 1 <= max_tries + 1
        BY <2>1, <2>2
      <4> QED BY <1>1, <2>1, <2>2, <3>2, <4>1, TryKeeps
    <3> QED BY <1>9, <3>1, <3>2 DEF TryEnds
  <2>4. ClocksOK'
    <3>1. \E E : Stop(E)
      BY <1>9 DEF TryEnds
    <3> QED BY <1>1, <3>1, StopKeeps
  <2>5. ConnOK' /\ CallOK'
    BY <1>1, <1>9 DEF TryEnds, ConnOK, CallOK
  <2> QED BY <2>3, <2>4, <2>5 DEF IInv
<1>16. CASE TryWritten
  <2>1. PushOK'
    BY <1>1, <1>16 DEF TryWritten, PushOK, OnConn
  <2>2. ClocksOK' /\ ConnOK' /\ CallOK'
    BY <1>1, <1>16, ClocksUnchanged DEF TryWritten, connVars, ConnOK, CallOK
  <2> QED BY <2>1, <2>2 DEF IInv
<1>10. CASE Tick
  BY <1>10, TickKeeps
<1>11. ASSUME NEW e \in Ends, Deliver(e)
       PROVE  IInv'
  <2>1. ClocksOK' /\ conn' \in 0..MaxConns /\ registered' \in 0..MaxConns
    <3> DEFINE kind == Head(wire[e]).kind
               rest == [wire EXCEPT ![e] = Tail(@)]
    <3>1. CASE Start(e) /\ UNCHANGED <<conn, registered>>
      BY <1>1, <3>1, StartKeeps DEF ConnOK
    <3>2. CASE e \in open /\ Handle(e, kind, rest)
      BY <1>1, <3>2, HandleKeeps
    <3>3. CASE UNCHANGED <<conn, registered, open, idle, check_timer>>
      BY <1>1, <3>3, ClocksUnchanged DEF ConnOK
    <3> QED BY <1>11, <3>1, <3>2, <3>3 DEF Deliver
  <2>2. made' = made /\ UNCHANGED <<call, push>>
    BY <1>11 DEF Deliver
  <2> QED BY <1>1, <2>1, <2>2, CallsUnchanged DEF IInv, ConnOK
<1>12. ASSUME NEW e \in Ends, Check(e)
       PROVE  IInv'
  <2>1. ClocksOK' /\ conn' \in 0..MaxConns /\ registered' \in 0..MaxConns
    <3>1. CASE Disconnected(e, wire)
      BY <1>1, <3>1, DisconnectedKeeps
    <3>2. CASE /\ ~TooLong(idle[e])
               /\ check_timer' = [check_timer EXCEPT ![e] = Rearmed]
               /\ UNCHANGED <<conn, registered, open, idle>>
      <4>1. idle[e] \in Nat /\ idle[e] <= Limit - 1
        BY <1>1, <3>2, NotTooLong DEF ClocksOK
      <4>2. CheckInterval \in Nat /\ Limit \in Nat
        BY TimeAssumption, LimitPositive
      <4>3. check_timer' \in [Ends -> 0..CheckInterval]
        BY <1>1, <3>2, <4>2 DEF ClocksOK, Rearmed
      <4>4. \A x \in open : idle[x] + check_timer'[x] <= Limit - 1 + CheckInterval
        <5> SUFFICES ASSUME NEW x \in open
                     PROVE  idle[x] + check_timer'[x] <= Limit - 1 + CheckInterval
          OBVIOUS
        <5>1. CASE x = e
          <6>1. check_timer'[x] = CheckInterval
            BY <1>1, <3>2, <5>1 DEF ClocksOK, Rearmed
          <6> QED BY <4>1, <4>2, <5>1, <6>1
        <5>2. CASE x # e
          BY <1>1, <3>2, <5>2 DEF ClocksOK
        <5> QED BY <5>1, <5>2
      <4>5. UNCHANGED <<conn, registered, open, idle>>
        BY <3>2
      <4> QED BY <1>1, <4>3, <4>4, <4>5 DEF ClocksOK, ConnOK, Limit
    <3> QED BY <1>12, <3>1, <3>2 DEF Check
  <2>2. made' = made /\ UNCHANGED <<call, push>>
    BY <1>12 DEF Check
  <2> QED BY <1>1, <2>1, <2>2, CallsUnchanged DEF IInv, ConnOK
<1>13. ASSUME NEW e \in Ends, ReadFails(e)
       PROVE  IInv'
  <2>1. ClocksOK' /\ conn' \in 0..MaxConns /\ registered' \in 0..MaxConns
    BY <1>1, <1>13, DisconnectedKeeps DEF ReadFails
  <2>2. made' = made /\ UNCHANGED <<call, push>>
    BY <1>13 DEF ReadFails
  <2> QED BY <1>1, <2>1, <2>2, CallsUnchanged DEF IInv, ConnOK
<1>14. ASSUME NEW c \in Conns, Cut(c)
       PROVE  IInv'
  <2>1. ClocksOK' /\ ConnOK'
    BY <1>1, <1>14, ClocksUnchanged DEF Cut, ConnOK
  <2> QED BY <1>1, <1>14, <2>1, CallsUnchanged DEF Cut, IInv
<1>15. CASE UNCHANGED vars
  <2>1. ClocksOK' /\ ConnOK'
    BY <1>1, <1>15, ClocksUnchanged DEF vars, connVars, ConnOK
  <2> QED BY <1>1, <1>15, <2>1, CallsUnchanged DEF vars, IInv
<1> QED BY <1>2, <1>3, <1>5, <1>6, <1>7, <1>8, <1>9, <1>10, <1>11, <1>12, <1>13, <1>14, <1>15,
      <1>16 DEF Next

\* The invariant holds throughout.
THEOREM Invariance == Spec => []IInv
BY InitInv, StepInv, PTL DEF Spec

\* Whatever the intervals and delays, no end runs for longer without a packet than
\* the lifetime, the rest of its second and one interval of the check.
THEOREM SilenceIsBounded == Spec => []SilentIsFound
<1>1. IInv => SilentIsFound
  <2> SUFFICES ASSUME IInv, NEW e \in open
               PROVE  idle[e] <= (Lifetime + 1) * Second - 1 + CheckInterval
    BY DEF SilentIsFound
  <2>1. idle[e] \in Nat /\ check_timer[e] \in Nat
        /\ idle[e] + check_timer[e] <= Limit - 1 + CheckInterval
    BY DEF IInv, ClocksOK
  <2>2. CheckInterval \in Nat /\ Limit \in Nat
    BY TimeAssumption, LimitPositive
  <2>3. idle[e] <= Limit - 1 + CheckInterval
    BY <2>1, <2>2
  <2> QED BY <2>3 DEF Limit
<1> QED BY <1>1, Invariance, PTL

\* Whatever the time limit, the poll and the number of tries, and however long the
\* writes take, calls of both sides take no more time besides than their limits.
THEOREM CallsAreBounded == Spec => []CallsInTime
<1>1. IInv => CallsInTime
  <2> SUFFICES ASSUME IInv PROVE CallsInTime
    OBVIOUS
  <2>1. CallOK /\ PushOK
    BY DEF IInv
  <2>2. call.time <= Timeout \/ call.time <= Timeout \div 2 + Poll
    BY <2>1, HalfIsNat DEF CallOK, OnConn
  <2>3. push.time <= (max_tries + 1) * Timeout
    <3>1. push.time \in Nat /\ push.left \in Nat /\ push.i \in Nat /\ max_tries \in Nat
      BY <2>1, TimeAssumption DEF PushOK
    <3>2. (max_tries + 1) * Timeout \in Nat
      BY <3>1, TriesAddUp
    <3>3. CASE push.at \in OnConn
      <4>1. push.i <= max_tries /\ push.time + push.left <= (push.i + 1) * Timeout
        BY <2>1, <3>3 DEF PushOK
      <4>2. (push.i + 1) * Timeout \in Nat
            /\ (push.i + 1) * Timeout <= (max_tries + 1) * Timeout
        BY <3>1, <4>1, TriesAddUp
      <4> QED BY <3>1, <3>2, <4>1, <4>2
    <3>4. CASE push.at \notin OnConn
      BY <2>1, <3>1, <3>2, <3>4 DEF PushOK, OnConn
    <3> QED BY <3>3, <3>4
  <2> QED BY <2>2, <2>3 DEF CallsInTime
<1> QED BY <1>1, Invariance, PTL

-----------------------------------------------------------------------------
(* The heartbeat keeps a connection that carries its packets, whatever     *)
(* calls, successors and failures of others come between.  The invariant   *)
(* bounds the silence of an end by the age of a packet that will end it,   *)
(* or by what is left of the heartbeat that will send one.                 *)

\* The two ends of a connection.
server(c) == <<"server", c>>
client(c) == <<"client", c>>

Packet == [kind : {"syn", "beat", "answer", "fin"}, age : 0..Delay]

\* What is on its way to an end, and whether that includes a kind.
Under(w) == {w[i] : i \in DOMAIN w}
Carries(w, kind) == \E p \in Under(w) : p.kind = kind
SynFirst(w) == \A i \in DOMAIN w : w[i].kind = "syn" => i = 1

\* Packets go where they belong, a connection begins at its server with a syn, and
\* the only client's end that runs is that of conn.
WireAt(w, c) ==
  /\ Under(w[server(c)]) # {} \/ server(c) \in open \/ conn = c => c <= made
  /\ SynFirst(w[server(c)])
  /\ \A p \in Under(w[server(c)]) : p.kind # "answer"
  /\ \A p \in Under(w[client(c)]) : p.kind \in {"answer", "fin"}
  /\ client(c) \in open => conn = c

\* A client that has let go of a connection has told the server, and no other has.
\* The server is not silent for longer than its oldest packet or the heartbeat says.
ServerAt(w, c) ==
  /\ Carries(w[server(c)], "fin") => conn # c
  /\ (server(c) \in open \/ Carries(w[server(c)], "syn")) /\ conn # c
       => Carries(w[server(c)], "fin")
  /\ server(c) \in open =>
       \/ \E p \in Under(w[server(c)]) : idle[server(c)] <= BeatInterval + p.age
       \/ conn = c /\ idle[server(c)] + beat_timer <= BeatInterval

\* A server tells a client that still runs; and the client has an answer on its way,
\* or a beat to be answered, or a heartbeat to come.
ClientAt(w, c) ==
  client(c) \in open =>
    /\ \/ server(c) \in open
       \/ Carries(w[server(c)], "syn")
       \/ Carries(w[client(c)], "fin")
    /\ \/ \E p \in Under(w[client(c)]) : idle[client(c)] <= BeatInterval + Delay + p.age
       \/ \E p \in Under(w[server(c)]) : /\ p.kind = "beat"
                                         /\ idle[client(c)] <= BeatInterval + p.age
       \/ idle[client(c)] + beat_timer <= BeatInterval

LiveAt(w, c) == ServerAt(w, c) /\ ClientAt(w, c)

\* So it is with every connection, and those the network carries are alive.
AllLive == /\ wire \in [Ends -> Seq(Packet)]
           /\ \A c \in Conns : WireAt(wire, c)
           /\ \A c \in Conns \ cut : LiveAt(wire, c)

TimedOutCut == \A e \in timedOut : e[2] \in cut

LiveInv == AllLive /\ TimedOutCut /\ beat_timer \in 0..BeatInterval

\* The ends of the connections are different ends.
LEMMA EndFacts ==
  /\ \A c \in Conns : /\ server(c) \in Ends /\ client(c) \in Ends
                      /\ server(c)[2] = c /\ client(c)[2] = c
                      /\ Peer(server(c)) = client(c) /\ Peer(client(c)) = server(c)
                      /\ server(c)[1] = "server" /\ client(c)[1] = "client"
  /\ \A c, d : server(c) # client(d) /\ (server(c) = server(d) => c = d)
                                     /\ (client(c) = client(d) => c = d)
  /\ \A e \in Ends : \E c \in Conns : e = server(c) \/ e = client(c)
BY DEF Ends, server, client, Peer

\* Numbers of the packets.
LEMMA LiveNumbers ==
  /\ BeatInterval \in Nat /\ BeatInterval >= 1 /\ Delay \in Nat
  /\ \A p \in Packet : p.age \in 0..Delay
  /\ BeatInterval + 2 * Delay < Limit /\ Limit \in Nat
<1>1. Lifetime \in Nat /\ Second \in Nat
  BY TimeAssumption
<1> QED BY TimeAssumption, LimitPositive DEF Packet, Limit

\* A packet taken from the front.
LEMMA TailUnder ==
  ASSUME NEW w \in Seq(Packet), w # <<>>
  PROVE  /\ Tail(w) \in Seq(Packet) /\ Head(w) \in Packet
         /\ Under(w) = Under(Tail(w)) \cup {Head(w)}
         /\ SynFirst(w) => /\ SynFirst(Tail(w))
                           /\ \A p \in Under(Tail(w)) : p.kind # "syn"
<1>1. Len(w) \in Nat /\ Len(w) >= 1 /\ DOMAIN w = 1..Len(w) /\ Head(w) = w[1]
  BY EmptySeq, LenProperties
<1>2. Tail(w) \in Seq(Packet) /\ Len(Tail(w)) = Len(w) - 1 /\ DOMAIN Tail(w) = 1..(Len(w) - 1)
      /\ \A i \in 1..(Len(w) - 1) : Tail(w)[i] = w[i + 1]
  BY <1>1, HeadTailProperties
<1>3. Head(w) \in Packet
  BY <1>1, ElementOfSeq
<1>4. \A i \in DOMAIN w : i = 1 \/ (i - 1 \in DOMAIN Tail(w) /\ Tail(w)[i - 1] = w[i])
  <2> SUFFICES ASSUME NEW i \in 1..Len(w), i # 1
               PROVE  i - 1 \in 1..(Len(w) - 1) /\ Tail(w)[i - 1] = w[i]
    BY <1>1, <1>2
  <2>1. i - 1 \in 1..(Len(w) - 1) /\ (i - 1) + 1 = i
    BY <1>1
  <2> QED BY <1>2, <2>1
<1>5. \A i \in DOMAIN Tail(w) : i + 1 \in DOMAIN w /\ i + 1 # 1 /\ Tail(w)[i] = w[i + 1]
  BY <1>1, <1>2
<1>6. Under(w) = Under(Tail(w)) \cup {Head(w)}
  BY <1>1, <1>4, <1>5 DEF Under
<1>7. ASSUME SynFirst(w)
      PROVE  \A i \in DOMAIN Tail(w) : Tail(w)[i].kind # "syn"
  BY <1>5, <1>7 DEF SynFirst
<1>8. SynFirst(w) => SynFirst(Tail(w)) /\ \A p \in Under(Tail(w)) : p.kind # "syn"
  BY <1>7 DEF SynFirst, Under
<1> QED BY <1>2, <1>3, <1>6, <1>8

\* A packet added at the end.
LEMMA AppendUnder ==
  ASSUME NEW w \in Seq(Packet), NEW p \in Packet, p.kind # "syn"
  PROVE  /\ Append(w, p) \in Seq(Packet)
         /\ Under(Append(w, p)) = Under(w) \cup {p}
         /\ SynFirst(w) => SynFirst(Append(w, p))
<1>1. /\ Append(w, p) \in Seq(Packet)
      /\ DOMAIN Append(w, p) = 1..(Len(w) + 1) /\ DOMAIN w = 1..Len(w) /\ Len(w) \in Nat
      /\ \A i \in 1..Len(w) : Append(w, p)[i] = w[i]
      /\ Append(w, p)[Len(w) + 1] = p
  BY AppendProperties, LenProperties
<1> DEFINE n == Len(w)
           v == Append(w, p)
<1>2. n \in Nat /\ DOMAIN v = 1..(n + 1) /\ DOMAIN w = 1..n /\ v[n + 1] = p
      /\ \A i \in 1..n : v[i] = w[i]
  BY <1>1
<1> HIDE DEF n, v
<1>3. \A i \in DOMAIN v : i \in DOMAIN w \/ i = n + 1
  BY <1>2
<1>4. n + 1 \in DOMAIN v /\ DOMAIN w \subseteq DOMAIN v
  BY <1>2
<1>5. Under(v) = Under(w) \cup {p}
  BY <1>2, <1>3, <1>4 DEF Under
<1>6. SynFirst(w) => SynFirst(v)
  BY <1>2, <1>3 DEF SynFirst
<1> QED BY <1>1, <1>5, <1>6 DEF v

\* A packet that has just been sent.
Fresh(kind) == [kind |-> kind, age |-> 0]

\* Packets sent, at each end.
LEMMA SentUnder ==
  ASSUME NEW w \in [Ends -> Seq(Packet)], NEW E, NEW kind \in {"beat", "answer", "fin"}
  PROVE  /\ Sent(w, E, kind) \in [Ends -> Seq(Packet)]
         /\ \A e \in Ends :
              /\ e \in E /\ e[2] \notin cut => Under(Sent(w, E, kind)[e]) = Under(w[e]) \cup {Fresh(kind)}
              /\ e \notin E \/ e[2] \in cut => Sent(w, E, kind)[e] = w[e]
<1> DEFINE v == Sent(w, E, kind)
           p == Fresh(kind)
<1>1. p \in Packet /\ p.kind # "syn"
  BY LiveNumbers DEF Packet, Fresh
<1>2. v = [e \in Ends |-> IF e \in E /\ e[2] \notin cut THEN Append(w[e], p) ELSE w[e]]
  BY DEF Sent, Fresh
<1>3. \A e \in Ends : w[e] \in Seq(Packet)
  OBVIOUS
<1> HIDE DEF p, v
<1>4. \A e \in Ends : /\ Append(w[e], p) \in Seq(Packet)
                      /\ Under(Append(w[e], p)) = Under(w[e]) \cup {p}
  BY <1>1, <1>3, AppendUnder
<1>5. v \in [Ends -> Seq(Packet)]
  BY <1>2, <1>3, <1>4
<1>6. \A e \in Ends : /\ e \in E /\ e[2] \notin cut => Under(v[e]) = Under(w[e]) \cup {p}
                      /\ e \notin E \/ e[2] \in cut => v[e] = w[e]
  BY <1>2, <1>4
<1> QED BY <1>5, <1>6 DEF v, p

\* None of them is a syn.
LEMMA SentSyn ==
  ASSUME NEW w \in [Ends -> Seq(Packet)], NEW E, NEW kind \in {"beat", "answer", "fin"},
         NEW e \in Ends, SynFirst(w[e])
  PROVE  SynFirst(Sent(w, E, kind)[e])
<1>1. Fresh(kind) \in Packet /\ Fresh(kind).kind # "syn"
  BY LiveNumbers DEF Packet, Fresh
<1>2. Sent(w, E, kind)[e]
        = IF e \in E /\ e[2] \notin cut THEN Append(w[e], Fresh(kind)) ELSE w[e]
  BY DEF Sent, Fresh
<1>3. SynFirst(Append(w[e], Fresh(kind)))
  BY <1>1, AppendUnder
<1> QED BY <1>2, <1>3

-----------------------------------------------------------------------------
(* Connections that a step does not concern, and those whose end closes.   *)

\* What a step does to a connection it is not about: at most its server's end is
\* closed, and its client told.
Bystander(w, d) ==
  /\ wire'[server(d)] = w[server(d)]
  /\ conn' = conn \/ (conn' = None /\ conn # d)
  /\ client(d) \in open' <=> client(d) \in open
  /\ client(d) \in open => idle'[client(d)] = idle[client(d)]
  /\ \/ /\ wire'[client(d)] = w[client(d)]
        /\ server(d) \in open' <=> server(d) \in open
        /\ server(d) \in open => idle'[server(d)] = idle[server(d)]
     \/ /\ server(d) \notin open'
        /\ Under(wire'[client(d)]) = Under(w[client(d)]) \cup {Fresh("fin")}
     \/ d \in cut /\ server(d) \notin open' /\ wire'[client(d)] = w[client(d)]

\* Such a connection stays as it should be.
LEMMA BystanderKeeps ==
  ASSUME NEW w, NEW d \in Conns, UNCHANGED <<made, cut, beat_timer>>, Bystander(w, d)
  PROVE  /\ WireAt(w, d) => WireAt(wire, d)'
         /\ d \notin cut /\ LiveAt(w, d) => LiveAt(wire, d)'
<1> DEFINE S == Under(w[server(d)])
           K == Under(w[client(d)])
           Kn == Under(wire'[client(d)])
<1>1. None # d
  BY DEF Conns, None
<1>2. Under(wire'[server(d)]) = S /\ (SynFirst(w[server(d)]) => SynFirst(wire'[server(d)]))
  BY DEF Bystander
<1>3. K \subseteq Kn /\ Kn \subseteq K \cup {Fresh("fin")}
  BY DEF Bystander
<1>4. conn' = d <=> conn = d
  BY <1>1 DEF Bystander
<1>5. client(d) \in open' <=> client(d) \in open
  BY DEF Bystander
<1>6. client(d) \in open => idle'[client(d)] = idle[client(d)]
  BY DEF Bystander
<1>7. \/ /\ Kn = K
         /\ server(d) \in open' <=> server(d) \in open
         /\ server(d) \in open => idle'[server(d)] = idle[server(d)]
      \/ /\ server(d) \notin open'
         /\ Kn = K \cup {Fresh("fin")} \/ d \in cut
  BY DEF Bystander
<1>8. made' = made /\ cut' = cut /\ beat_timer' = beat_timer
  OBVIOUS
<1>9. Fresh("fin").kind = "fin"
  BY DEF Fresh
<1>10. ASSUME WireAt(w, d)
       PROVE  WireAt(wire, d)'
  <2>1. /\ S # {} \/ server(d) \in open \/ conn = d => d <= made
        /\ SynFirst(w[server(d)])
        /\ \A p \in S : p.kind # "answer"
        /\ \A p \in K : p.kind \in {"answer", "fin"}
        /\ client(d) \in open => conn = d
    BY <1>10 DEF WireAt
  <2>2. \A p \in Kn : p.kind \in {"answer", "fin"}
    BY <1>3, <1>9, <2>1
  <2>3. server(d) \in open' => server(d) \in open
    BY <1>7
  <2> HIDE DEF S, K, Kn
  <2>4. /\ S # {} \/ server(d) \in open' \/ conn' = d => d <= made'
        /\ SynFirst(wire'[server(d)])
        /\ client(d) \in open' => conn' = d
    BY <1>2, <1>4, <1>5, <1>8, <2>1, <2>3
  <2> QED BY <1>2, <2>1, <2>2, <2>4 DEF WireAt, Kn
<1>11. ASSUME d \notin cut, LiveAt(w, d)
       PROVE  LiveAt(wire, d)'
  <2>1. ServerAt(wire, d)'
    <3>1. /\ (\E p \in S : p.kind = "fin") => conn # d
          /\ (server(d) \in open \/ \E p \in S : p.kind = "syn") /\ conn # d
               => \E p \in S : p.kind = "fin"
          /\ server(d) \in open => \/ \E p \in S : idle[server(d)] <= BeatInterval + p.age
                                   \/ conn = d /\ idle[server(d)] + beat_timer <= BeatInterval
      BY <1>11 DEF LiveAt, ServerAt, Carries
    <3>2. server(d) \in open' => server(d) \in open /\ idle'[server(d)] = idle[server(d)]
      BY <1>7
    <3> HIDE DEF S, K, Kn
    <3> QED BY <1>2, <1>4, <1>8, <3>1, <3>2 DEF ServerAt, Carries
  <2>2. ClientAt(wire, d)'
    <3>1. client(d) \in open =>
            /\ server(d) \in open \/ (\E p \in S : p.kind = "syn") \/ (\E p \in K : p.kind = "fin")
            /\ \/ \E p \in K : idle[client(d)] <= BeatInterval + Delay + p.age
               \/ \E p \in S : p.kind = "beat" /\ idle[client(d)] <= BeatInterval + p.age
               \/ idle[client(d)] + beat_timer <= BeatInterval
      BY <1>11 DEF LiveAt, ClientAt, Carries
    <3>2. server(d) \in open => server(d) \in open' \/ \E p \in Kn : p.kind = "fin"
      BY <1>7, <1>9, <1>11
    <3> HIDE DEF S, K
    <3>3. client(d) \in open' =>
            /\ server(d) \in open' \/ (\E p \in S : p.kind = "syn") \/ (\E p \in Kn : p.kind = "fin")
            /\ \/ \E p \in Kn : idle'[client(d)] <= BeatInterval + Delay + p.age
               \/ \E p \in S : p.kind = "beat" /\ idle'[client(d)] <= BeatInterval + p.age
               \/ idle'[client(d)] + beat_timer' <= BeatInterval
      <4> HIDE DEF Kn
      <4> QED BY <1>3, <1>5, <1>6, <1>8, <3>1, <3>2
    <3> QED BY <1>2, <3>3 DEF ClientAt, Carries
  <2> QED BY <2>1, <2>2 DEF LiveAt
<1> QED BY <1>10, <1>11

\* What is left running and its clocks.
LEMMA StopAt ==
  ASSUME NEW E, Stop(E), NEW e \in Ends
  PROVE  /\ e \in open' <=> e \in open /\ e \notin E
         /\ e \in open /\ e \notin E => idle'[e] = idle[e]
<1>1. open' = open \ E /\ idle' = [x \in Ends |-> IF x \in open \ E THEN idle[x] ELSE 0]
  BY DEF Stop, Run
<1> QED BY <1>1

\* The clients' ends of some of the server's.
Peers(told) == {Peer(g) : g \in told}

\* They are told.
LEMMA ClientsTold ==
  ASSUME NEW w \in [Ends -> Seq(Packet)], NEW told, \A g \in told : \E x : g = server(x)
  PROVE  LET v == Sent(w, Peers(told), "fin")
         IN  /\ v \in [Ends -> Seq(Packet)]
             /\ \A d \in Conns : /\ v[server(d)] = w[server(d)]
                                 /\ server(d) \in told /\ d \notin cut
                                      => Under(v[client(d)]) = Under(w[client(d)]) \cup {Fresh("fin")}
                                 /\ server(d) \notin told \/ d \in cut => v[client(d)] = w[client(d)]
<1> DEFINE E == Peers(told)
           v == Sent(w, E, "fin")
<1>1. \A x : Peer(server(x)) = client(x)
  BY DEF Peer, server, client
<1>2. \A d \in Conns : /\ server(d) \notin E
                       /\ client(d) \in E <=> server(d) \in told
  BY <1>1, EndFacts DEF Peers
<1> HIDE DEF E
<1>3. "fin" \in {"beat", "answer", "fin"}
  OBVIOUS
<1>4. /\ v \in [Ends -> Seq(Packet)]
      /\ \A e \in Ends : /\ e \in E /\ e[2] \notin cut => Under(v[e]) = Under(w[e]) \cup {Fresh("fin")}
                         /\ e \notin E \/ e[2] \in cut => v[e] = w[e]
  BY <1>3, SentUnder
<1>5. \A d \in Conns : server(d) \in Ends /\ client(d) \in Ends /\ client(d)[2] = d
  BY <1>1, EndFacts
<1> HIDE DEF v
<1>6. \A d \in Conns : /\ v[server(d)] = w[server(d)]
                       /\ server(d) \in told /\ d \notin cut
                            => Under(v[client(d)]) = Under(w[client(d)]) \cup {Fresh("fin")}
                       /\ server(d) \notin told \/ d \in cut => v[client(d)] = w[client(d)]
  BY <1>2, <1>4, <1>5
<1> QED BY <1>4, <1>6 DEF v, E

\* Ends of the server close and clients are told.
LEMMA ServersGone ==
  ASSUME NEW w \in [Ends -> Seq(Packet)], NEW gone, NEW told,
         \A g \in gone \cup told : \E x : g = server(x),
         Stop(gone), conn' = conn, cut' = cut,
         wire' = Sent(w, {Peer(g) : g \in told}, "fin")
  PROVE  /\ wire' \in [Ends -> Seq(Packet)]
         /\ \A d \in Conns : /\ (server(d) \in gone <=> server(d) \in told) => Bystander(w, d)
                             /\ wire'[server(d)] = w[server(d)]
                             /\ \/ wire'[client(d)] = w[client(d)]
                                \/ Under(wire'[client(d)]) = Under(w[client(d)]) \cup {Fresh("fin")}
                             /\ client(d) \in open' <=> client(d) \in open
                             /\ server(d) \in gone => server(d) \notin open'
                             /\ server(d) \in open' => server(d) \in open
<1>4. \A d \in Conns : /\ server(d) \in Ends /\ client(d) \in Ends /\ client(d)[2] = d
                       /\ client(d) \notin gone
  BY EndFacts
<1>5. \A d \in Conns : /\ client(d) \in open' <=> client(d) \in open
                       /\ client(d) \in open => idle'[client(d)] = idle[client(d)]
                       /\ server(d) \in open' <=> server(d) \in open /\ server(d) \notin gone
                       /\ server(d) \in open /\ server(d) \notin gone
                            => idle'[server(d)] = idle[server(d)]
  BY <1>4, StopAt
<1>6. /\ wire' \in [Ends -> Seq(Packet)]
      /\ \A d \in Conns : /\ wire'[server(d)] = w[server(d)]
                          /\ server(d) \in told /\ d \notin cut
                               => Under(wire'[client(d)]) = Under(w[client(d)]) \cup {Fresh("fin")}
                          /\ server(d) \notin told \/ d \in cut => wire'[client(d)] = w[client(d)]
  <2>1. wire' = Sent(w, Peers(told), "fin")
    BY DEF Peers
  <2>2. \A g \in told : \E x : g = server(x)
    OBVIOUS
  <2> DEFINE v == Sent(w, Peers(told), "fin")
  <2>3. /\ v \in [Ends -> Seq(Packet)]
        /\ \A d \in Conns : /\ v[server(d)] = w[server(d)]
                            /\ server(d) \in told /\ d \notin cut
                                 => Under(v[client(d)]) = Under(w[client(d)]) \cup {Fresh("fin")}
                            /\ server(d) \notin told \/ d \in cut => v[client(d)] = w[client(d)]
    BY <2>2, ClientsTold
  <2>4. wire' = v
    BY <2>1
  <2> HIDE DEF v
  <2> QED BY <2>3, <2>4
<1>7. ASSUME NEW d \in Conns, server(d) \in gone <=> server(d) \in told
      PROVE  Bystander(w, d)
  <2>1. CASE server(d) \in gone
    <3>1. server(d) \notin open'
      BY <1>5, <2>1
    <3> QED BY <1>5, <1>6, <1>7, <2>1, <3>1 DEF Bystander
  <2>2. CASE server(d) \notin gone
    <3>1. /\ wire'[client(d)] = w[client(d)]
          /\ server(d) \in open' <=> server(d) \in open
          /\ server(d) \in open => idle'[server(d)] = idle[server(d)]
      BY <1>5, <1>6, <1>7, <2>2
    <3> QED BY <1>5, <1>6, <3>1 DEF Bystander
  <2> QED BY <2>1, <2>2
<1> QED BY <1>5, <1>6, <1>7

\* Everything but the connection whose end a step is about.
AllBut(w, c) == /\ \A d \in Conns : WireAt(w, d)
                /\ \A d \in Conns \ cut : d # c => LiveAt(w, d)

\* on_disconnected of the server's end of a connection that the network has failed on
\* or the client has let go of.
LEMMA ServerDisconnectedLive ==
  ASSUME NEW w \in [Ends -> Seq(Packet)], NEW c \in Conns,
         UNCHANGED <<made, cut, beat_timer>>,
         ServerDisconnected(server(c), w), AllBut(w, c),
         c \in cut \/ (conn # c /\ ~Carries(w[server(c)], "syn"))
  PROVE  AllLive'
<1> DEFINE erased == IF c \in named THEN {registered} \ {None} ELSE {}
           gone == {<<"server", x>> : x \in erased \ Held}
<1>1. server(c)[2] = c
  BY EndFacts
<1>2. PICK more \in SUBSET ({server(c)} \ gone) :
        wire' = Sent(w, {Peer(g) : g \in gone \cup more}, "fin")
  BY <1>1 DEF ServerDisconnected
<1>3. Stop({server(c)} \cup gone) /\ conn' = conn
  BY <1>1 DEF ServerDisconnected
<1>4. \A g \in gone : \E x : g = server(x)
  BY DEF server
<1> HIDE DEF gone, erased
<1>5. /\ wire' \in [Ends -> Seq(Packet)]
      /\ \A d \in Conns : /\ (server(d) \in {server(c)} \cup gone <=> server(d) \in gone \cup more)
                                 => Bystander(w, d)
                          /\ wire'[server(d)] = w[server(d)]
                          /\ \/ wire'[client(d)] = w[client(d)]
                             \/ Under(wire'[client(d)]) = Under(w[client(d)]) \cup {Fresh("fin")}
                          /\ client(d) \in open' <=> client(d) \in open
                          /\ server(d) \in {server(c)} \cup gone => server(d) \notin open'
                          /\ server(d) \in open' => server(d) \in open
  BY <1>2, <1>3, <1>4, ServersGone
<1>6. \A d \in Conns : d # c => Bystander(w, d)
  BY <1>2, <1>5, EndFacts
<1>7. \A d \in Conns : /\ WireAt(w, d)
                       /\ d \notin cut /\ d # c => LiveAt(w, d)
  BY DEF AllBut
<1>8. ASSUME NEW d \in Conns, d # c
      PROVE  WireAt(wire, d)' /\ (d \notin cut => LiveAt(wire, d)')
  BY <1>6, <1>7, <1>8, BystanderKeeps
<1>9. Fresh("fin").kind = "fin"
  BY DEF Fresh
<1>10. WireAt(wire, c)'
  BY <1>5, <1>7, <1>3, <1>9 DEF WireAt
<1>11. ASSUME c \notin cut
       PROVE  LiveAt(wire, c)'
  <2>1. conn # c /\ ~Carries(w[server(c)], "syn") /\ server(c) \notin open' /\ conn' # c
    BY <1>3, <1>5, <1>11
  <2>2. client(c) \notin open'
    BY <1>5, <1>7, <2>1 DEF WireAt
  <2> QED BY <1>5, <2>1, <2>2 DEF LiveAt, ServerAt, ClientAt
<1>12. cut' = cut
  OBVIOUS
<1> QED BY <1>5, <1>8, <1>10, <1>11, <1>12 DEF AllLive

\* on_disconnected of the client's end.
LEMMA ClientDisconnectedLive ==
  ASSUME NEW w \in [Ends -> Seq(Packet)], NEW c \in Conns,
         UNCHANGED <<made, cut, beat_timer>>, beat_timer \in 0..BeatInterval,
         idle \in [Ends -> Nat], client(c) \in open,
         ClientDisconnected(client(c), w), AllBut(w, c), c \in cut \/ ServerAt(w, c)
  PROVE  AllLive'
<1>1. /\ conn' = None /\ Stop({client(c)})
      /\ wire' = Sent(w, {server(c)}, "fin")
  BY EndFacts DEF ClientDisconnected
<1>2. /\ wire' \in [Ends -> Seq(Packet)]
      /\ \A e \in Ends : /\ e = server(c) /\ e[2] \notin cut => Under(wire'[e]) = Under(w[e]) \cup {Fresh("fin")}
                         /\ e # server(c) \/ e[2] \in cut => wire'[e] = w[e]
  <2> DEFINE E == {server(c)}
  <2>1. wire' = Sent(w, E, "fin") /\ \A e : e \in E <=> e = server(c)
    BY <1>1
  <2> HIDE DEF E
  <2>2. "fin" \in {"beat", "answer", "fin"}
    OBVIOUS
  <2>3. /\ Sent(w, E, "fin") \in [Ends -> Seq(Packet)]
        /\ \A e \in Ends :
              /\ e \in E /\ e[2] \notin cut => Under(Sent(w, E, "fin")[e]) = Under(w[e]) \cup {Fresh("fin")}
              /\ e \notin E \/ e[2] \in cut => Sent(w, E, "fin")[e] = w[e]
    BY <2>2, SentUnder
  <2> QED BY <2>1, <2>3
<1>3. \A e \in Ends : /\ e \in open' <=> e \in open /\ e # client(c)
                      /\ e \in open /\ e # client(c) => idle'[e] = idle[e]
  BY <1>1, StopAt
<1>4. \A d \in Conns : /\ WireAt(w, d)
                       /\ d \notin cut /\ d # c => LiveAt(w, d)
  BY DEF AllBut
<1>5. conn = c
  BY <1>4 DEF WireAt
<1>6. None \notin Conns
  BY DEF Conns, None
<1>7. \A d \in Conns : d # c => Bystander(w, d)
  <2> SUFFICES ASSUME NEW d \in Conns, d # c
               PROVE  Bystander(w, d)
    OBVIOUS
  <2>1. /\ server(d) \in Ends /\ client(d) \in Ends /\ server(d) # client(c) /\ client(d) # client(c)
        /\ server(d) # server(c) /\ client(d) # server(c)
    BY EndFacts
  <2> QED BY <1>1, <1>2, <1>3, <1>5, <2>1 DEF Bystander
<1>8. ASSUME NEW d \in Conns, d # c
      PROVE  WireAt(wire, d)' /\ (d \notin cut => LiveAt(wire, d)')
  BY <1>4, <1>7, <1>8, BystanderKeeps
<1>9. Fresh("fin").kind = "fin" /\ Fresh("fin").age = 0
  BY DEF Fresh
<1>10. /\ server(c) \in Ends /\ client(c) \in Ends /\ server(c) # client(c) /\ server(c)[2] = c
       /\ client(c) # server(c)
  BY EndFacts
<1>11. /\ client(c) \notin open' /\ conn' # c
       /\ server(c) \in open' <=> server(c) \in open
       /\ server(c) \in open => idle'[server(c)] = idle[server(c)]
       /\ wire'[client(c)] = w[client(c)]
       /\ c \notin cut => Under(wire'[server(c)]) = Under(w[server(c)]) \cup {Fresh("fin")}
       /\ c \in cut => wire'[server(c)] = w[server(c)]
  BY <1>1, <1>2, <1>3, <1>6, <1>10
<1>12. c <= made
  BY <1>4, <1>5 DEF WireAt
<1>13. WireAt(wire, c)'
  <2>1. SynFirst(wire'[server(c)])
    BY <1>1, <1>4, <1>10, SentSyn DEF WireAt
  <2> QED BY <1>4, <1>9, <1>11, <1>12, <2>1 DEF WireAt
<1>14. ASSUME c \notin cut
       PROVE  LiveAt(wire, c)'
  <2>1. Carries(wire'[server(c)], "fin")
    BY <1>9, <1>11, <1>14 DEF Carries
  <2>2. ASSUME server(c) \in open'
        PROVE  \E p \in Under(wire'[server(c)]) : idle'[server(c)] <= BeatInterval + p.age
    <3>1. \/ \E p \in Under(w[server(c)]) : idle[server(c)] <= BeatInterval + p.age
          \/ idle[server(c)] + beat_timer <= BeatInterval
      BY <1>11, <1>14, <2>2 DEF ServerAt
    <3>2. idle[server(c)] \in Nat /\ BeatInterval \in Nat
      BY <1>10, LiveNumbers
    <3>3. CASE idle[server(c)] + beat_timer <= BeatInterval
      <4>1. idle[server(c)] <= BeatInterval + Fresh("fin").age
        BY <1>9, <3>2, <3>3
      <4> QED BY <1>11, <1>14, <2>2, <4>1
    <3> QED BY <1>11, <1>14, <2>2, <3>1, <3>3
  <2> QED BY <1>11, <1>14, <2>1, <2>2 DEF LiveAt, ServerAt, ClientAt
<1>15. cut' = cut
  OBVIOUS
<1> QED BY <1>2, <1>8, <1>13, <1>14, <1>15 DEF AllLive

-----------------------------------------------------------------------------
(* Packets arrive.                                                         *)

\* A packet of an end's wire handled or dropped, before anything else happens.
LEMMA Popped ==
  ASSUME AllLive, NEW e \in Ends, wire[e] # <<>>,
         NEW rest, rest = [wire EXCEPT ![e] = Tail(@)],
         NEW c \in Conns, e \in {server(c), client(c)}
  PROVE  /\ rest \in [Ends -> Seq(Packet)] /\ AllBut(rest, c)
         /\ \A x \in Ends : x # e => rest[x] = wire[x]
         /\ Under(wire[e]) = Under(rest[e]) \cup {Head(wire[e])} /\ Head(wire[e]) \in Packet
         /\ e = server(c) => \A p \in Under(rest[e]) : p.kind # "syn"
<1>1. wire[e] \in Seq(Packet) /\ \A d \in Conns : WireAt(wire, d)
  BY DEF AllLive
<1>2. /\ rest \in [Ends -> Seq(Packet)] /\ rest[e] = Tail(wire[e])
      /\ \A x \in Ends : x # e => rest[x] = wire[x]
  BY <1>1, TailUnder DEF AllLive
<1>3. /\ Under(wire[e]) = Under(rest[e]) \cup {Head(wire[e])} /\ Head(wire[e]) \in Packet
      /\ SynFirst(wire[e]) => SynFirst(rest[e]) /\ \A p \in Under(rest[e]) : p.kind # "syn"
  BY <1>1, <1>2, TailUnder
<1>4. e = server(c) => SynFirst(wire[e])
  BY <1>1 DEF WireAt
<1>5. ASSUME NEW d \in Conns
      PROVE  WireAt(rest, d) /\ (d \notin cut /\ d # c => LiveAt(rest, d))
  <2>1. /\ server(d) \in Ends /\ client(d) \in Ends
        /\ d # c => server(d) # e /\ client(d) # e
    BY EndFacts
  <2>2. /\ WireAt(wire, d) /\ (d \notin cut => LiveAt(wire, d))
    BY DEF AllLive
  <2>3. CASE d # c
    <3>1. rest[server(d)] = wire[server(d)] /\ rest[client(d)] = wire[client(d)]
      BY <1>2, <2>1, <2>3
    <3>2. WireAt(rest, d)
      BY <2>2, <3>1 DEF WireAt
    <3>3. d \notin cut => LiveAt(rest, d)
      BY <2>2, <3>1 DEF LiveAt, ServerAt, ClientAt
    <3> QED BY <3>2, <3>3
  <2>4. CASE d = c
    <3>1. /\ Under(rest[server(d)]) \subseteq Under(wire[server(d)])
          /\ Under(rest[client(d)]) \subseteq Under(wire[client(d)])
      BY <1>2, <1>3, <2>1
    <3>2. SynFirst(rest[server(d)])
      BY <1>2, <1>3, <1>4, <2>1, <2>2, <2>4 DEF WireAt
    <3> QED BY <2>2, <2>4, <3>1, <3>2 DEF WireAt
  <2> QED BY <2>3, <2>4
<1> QED BY <1>2, <1>3, <1>4, <1>5 DEF AllBut

\* A step that concerns one connection only.
LEMMA OnlyOne ==
  ASSUME NEW w, NEW c \in Conns, AllBut(w, c), UNCHANGED <<made, cut, beat_timer>>,
         \A d \in Conns : d # c => Bystander(w, d),
         wire' \in [Ends -> Seq(Packet)],
         WireAt(wire, c)', c \in cut \/ LiveAt(wire, c)'
  PROVE  AllLive'
<1>1. \A d \in Conns : /\ WireAt(w, d)
                       /\ d \notin cut /\ d # c => LiveAt(w, d)
  BY DEF AllBut
<1>2. ASSUME NEW d \in Conns, d # c
      PROVE  WireAt(wire, d)' /\ (d \notin cut => LiveAt(wire, d)')
  BY <1>1, <1>2, BystanderKeeps
<1>3. cut' = cut
  OBVIOUS
<1> QED BY <1>2, <1>3 DEF AllLive

\* The server's host accepts the connection; its end starts.
LEMMA SynLive ==
  ASSUME AllLive, idle \in [Ends -> Nat], beat_timer \in 0..BeatInterval,
         NEW c \in Conns, wire[server(c)] # <<>>, Head(wire[server(c)]).kind = "syn",
         UNCHANGED <<made, cut, beat_timer, conn>>,
         Start(server(c)), wire' = [wire EXCEPT ![server(c)] = Tail(@)]
  PROVE  AllLive'
<1> DEFINE h == Head(wire[server(c)])
           S == Under(wire'[server(c)])
<1>1. server(c) \in Ends /\ client(c) \in Ends /\ client(c) # server(c)
  BY EndFacts
<1>2. /\ wire' \in [Ends -> Seq(Packet)] /\ AllBut(wire', c)
      /\ \A x \in Ends : x # server(c) => wire'[x] = wire[x]
      /\ Under(wire[server(c)]) = S \cup {h} /\ h \in Packet
      /\ \A p \in S : p.kind # "syn"
  BY <1>1, Popped
<1>3. /\ open' = open \cup {server(c)}
      /\ idle'[server(c)] = 0
      /\ \A x \in Ends : x # server(c) /\ x \in open => idle'[x] = idle[x]
  <2> DEFINE I == [idle EXCEPT ![server(c)] = 0]
  <2>1. I[server(c)] = 0 /\ \A x \in Ends : x # server(c) => I[x] = idle[x]
    BY <1>1
  <2>2. /\ open' = open \cup {server(c)}
        /\ idle' = [x \in Ends |-> IF x \in open \cup {server(c)} THEN I[x] ELSE 0]
    BY DEF Start, Run
  <2> HIDE DEF I
  <2> QED BY <1>1, <2>1, <2>2
<1>4. \A d \in Conns : d # c => Bystander(wire', d)
  <2> SUFFICES ASSUME NEW d \in Conns, d # c PROVE Bystander(wire', d)
    OBVIOUS
  <2>1. server(d) \in Ends /\ client(d) \in Ends /\ server(d) # server(c) /\ client(d) # server(c)
    BY EndFacts
  <2> QED BY <1>3, <2>1 DEF Bystander
<1>5. WireAt(wire, c) /\ (c \notin cut => ServerAt(wire, c) /\ ClientAt(wire, c))
  BY DEF AllLive, LiveAt
<1>6. WireAt(wire', c)
  BY <1>2 DEF AllBut
<1>7. h.kind = "syn" /\ wire'[client(c)] = wire[client(c)]
  BY <1>1, <1>2
<1>8. S # {} => c <= made
  BY <1>6 DEF WireAt
<1>9. c <= made
  BY <1>2, <1>5 DEF WireAt
<1>10. WireAt(wire, c)'
  BY <1>1, <1>3, <1>6, <1>9 DEF WireAt
<1> HIDE DEF h, S
<1>11. ASSUME c \notin cut
       PROVE  LiveAt(wire, c)'
  <2>1. (\E p \in S : p.kind = "fin") <=> Carries(wire[server(c)], "fin")
    BY <1>2, <1>7 DEF Carries
  <2>2. Carries(wire[server(c)], "syn")
    BY <1>2, <1>7 DEF Carries
  <2>3. (\E p \in S : p.kind = "fin") <=> conn # c
    BY <1>5, <1>11, <2>1, <2>2 DEF ServerAt
  <2>4. (\E p \in S : idle'[server(c)] <= BeatInterval + p.age) \/ conn = c
    <3>1. \A p \in S : p \in Packet
      BY <1>1, <1>2, <2>1 DEF S, Under
    <3> QED BY <1>3, <2>3, <3>1, LiveNumbers
  <2>5. idle'[server(c)] + beat_timer <= BeatInterval
    BY <1>3, LiveNumbers
  <2>6. conn' = conn /\ beat_timer' = beat_timer
    OBVIOUS
  <2>7. ServerAt(wire, c)'
    BY <2>3, <2>4, <2>5, <2>6, <1>3 DEF ServerAt, Carries, S
  <2>8. client(c) \in open' => client(c) \in open /\ idle'[client(c)] = idle[client(c)]
    BY <1>1, <1>3
  <2>9. ASSUME NEW p \in Under(wire[server(c)]), p.kind = "beat"
        PROVE  p \in S
    BY <1>2, <1>7, <2>9
  <2>10. ClientAt(wire, c)'
    BY <1>3, <1>5, <1>7, <1>11, <2>6, <2>8, <2>9 DEF ClientAt, S
  <2> QED BY <2>7, <2>10 DEF LiveAt
<1> QED BY <1>2, <1>4, <1>10, <1>11, OnlyOne

\* A beat has been answered by the server's end, which may have closed itself.
Answered(w, c) ==
  /\ wire'[server(c)] = w[server(c)]
  /\ Under(w[client(c)]) \subseteq Under(wire'[client(c)])
  /\ Under(wire'[client(c)]) \subseteq Under(w[client(c)]) \cup {Fresh("answer"), Fresh("fin")}
  /\ c \notin cut => /\ Fresh("answer") \in Under(wire'[client(c)])
                     /\ server(c) \in open' \/ Fresh("fin") \in Under(wire'[client(c)])
  /\ idle'[server(c)] = 0
  /\ client(c) \in open' <=> client(c) \in open
  /\ client(c) \in open => idle'[client(c)] = idle[client(c)]

\* Both ends have heard of each other then.
LEMMA AnsweredLive ==
  ASSUME AllLive, idle \in [Ends -> Nat], beat_timer \in 0..BeatInterval,
         NEW c \in Conns, wire[server(c)] # <<>>, Head(wire[server(c)]).kind = "beat",
         server(c) \in open, UNCHANGED <<made, cut, beat_timer, conn>>,
         NEW rest, rest = [wire EXCEPT ![server(c)] = Tail(@)],
         wire' \in [Ends -> Seq(Packet)], Answered(rest, c),
         \A d \in Conns : d # c => Bystander(rest, d)
  PROVE  AllLive'
<1> DEFINE h == Head(wire[server(c)])
           S == Under(rest[server(c)])
           K == Under(wire[client(c)])
           Kn == Under(wire'[client(c)])
<1>1. server(c) \in Ends /\ client(c) \in Ends /\ client(c) # server(c)
  BY EndFacts
<1>2. /\ rest \in [Ends -> Seq(Packet)] /\ AllBut(rest, c)
      /\ \A x \in Ends : x # server(c) => rest[x] = wire[x]
      /\ Under(wire[server(c)]) = S \cup {h} /\ h \in Packet
      /\ \A p \in S : p.kind # "syn"
  BY <1>1, Popped
<1>3. Under(rest[client(c)]) = K
  BY <1>1, <1>2
<1>4. WireAt(wire, c) /\ WireAt(rest, c) /\ (c \notin cut => ServerAt(wire, c) /\ ClientAt(wire, c))
  BY <1>2 DEF AllLive, LiveAt, AllBut
<1>5. /\ Fresh("answer").kind = "answer" /\ Fresh("answer").age = 0
      /\ Fresh("fin").kind = "fin"
  BY DEF Fresh
<1>6. made' = made /\ cut' = cut /\ conn' = conn /\ beat_timer' = beat_timer
  OBVIOUS
<1>7. c <= made
  BY <1>4 DEF WireAt
<1>8. wire'[server(c)] = rest[server(c)] /\ Kn \subseteq K \cup {Fresh("answer"), Fresh("fin")}
  BY <1>3 DEF Answered
<1>9. K \subseteq Kn
  BY <1>3 DEF Answered
<1>10. client(c) \in open' <=> client(c) \in open
  BY DEF Answered
<1>11. WireAt(wire, c)'
  <2>1. \A p \in Kn : p.kind \in {"answer", "fin"}
    BY <1>4, <1>5, <1>8 DEF WireAt
  <2> QED BY <1>4, <1>6, <1>7, <1>8, <1>10, <2>1 DEF WireAt
<1>12. h.kind = "beat" /\ h.age \in Nat /\ h.age <= Delay
  BY <1>2, LiveNumbers
<1>13. ASSUME c \notin cut
       PROVE  LiveAt(wire, c)'
  <2> HIDE DEF h, S, K, Kn
  <2>1. (\E p \in S : p.kind = "fin") <=> Carries(wire[server(c)], "fin")
    BY <1>2, <1>12 DEF Carries
  <2>2. (\E p \in S : p.kind = "fin") <=> conn # c
    BY <1>4, <1>13, <2>1 DEF ServerAt
  <2>3. idle'[server(c)] = 0
    BY DEF Answered
  <2>4. (\E p \in S : idle'[server(c)] <= BeatInterval + p.age) \/ conn = c
    <3>1. \A p \in S : p \in Packet
      BY <1>1, <1>2 DEF S, Under
    <3> QED BY <2>2, <2>3, <3>1, LiveNumbers
  <2>5. idle'[server(c)] + beat_timer <= BeatInterval
    BY <2>3, LiveNumbers
  <2>6. ServerAt(wire, c)'
    BY <1>6, <1>8, <2>2, <2>4, <2>5 DEF ServerAt, Carries, S
  <2>7. ASSUME client(c) \in open'
        PROVE  /\ server(c) \in open' \/ \E p \in Kn : p.kind = "fin"
               /\ \/ \E p \in Kn : idle'[client(c)] <= BeatInterval + Delay + p.age
                  \/ \E p \in S : p.kind = "beat" /\ idle'[client(c)] <= BeatInterval + p.age
                  \/ idle'[client(c)] + beat_timer' <= BeatInterval
    <3>1. client(c) \in open /\ idle'[client(c)] = idle[client(c)] /\ idle[client(c)] \in Nat
      BY <1>1, <2>7 DEF Answered
    <3>2. Fresh("answer") \in Kn /\ (server(c) \in open' \/ Fresh("fin") \in Kn)
      BY <1>13 DEF Answered, Kn
    <3>3. \/ \E p \in K : idle[client(c)] <= BeatInterval + Delay + p.age
          \/ \E p \in S \cup {h} : p.kind = "beat" /\ idle[client(c)] <= BeatInterval + p.age
          \/ idle[client(c)] + beat_timer <= BeatInterval
      BY <1>2, <1>4, <1>13, <3>1 DEF ClientAt, K
    <3>4. idle[client(c)] <= BeatInterval + h.age
            => idle[client(c)] <= BeatInterval + Delay + Fresh("answer").age
      BY <1>5, <1>12, <3>1, LiveNumbers
    <3> QED BY <1>5, <1>6, <1>9, <3>1, <3>2, <3>3, <3>4
  <2>8. ClientAt(wire, c)'
    BY <1>8, <2>7 DEF ClientAt, Carries, Kn, S
  <2> QED BY <2>6, <2>8 DEF LiveAt
<1> QED BY <1>2, <1>6, <1>11, <1>13, OnlyOne

\* The server's end has an answer sent to its client.
LEMMA AnswerSent ==
  ASSUME NEW w \in [Ends -> Seq(Packet)], NEW c \in Conns
  PROVE  LET v == Sent(w, {Peer(server(c))}, "answer")
         IN  /\ v \in [Ends -> Seq(Packet)]
             /\ \A x \in Ends : x # client(c) => v[x] = w[x]
             /\ c \notin cut => Under(v[client(c)]) = Under(w[client(c)]) \cup {Fresh("answer")}
             /\ c \in cut => v[client(c)] = w[client(c)]
<1> DEFINE E == {Peer(server(c))}
           v == Sent(w, E, "answer")
<1>1. client(c) \in Ends /\ client(c)[2] = c /\ \A e : e \in E <=> e = client(c)
  BY EndFacts
<1> HIDE DEF E
<1>2. "answer" \in {"beat", "answer", "fin"}
  OBVIOUS
<1>3. /\ v \in [Ends -> Seq(Packet)]
      /\ \A e \in Ends : /\ e \in E /\ e[2] \notin cut => Under(v[e]) = Under(w[e]) \cup {Fresh("answer")}
                         /\ e \notin E \/ e[2] \in cut => v[e] = w[e]
  BY <1>2, SentUnder
<1> HIDE DEF v
<1>4. /\ \A x \in Ends : x # client(c) => v[x] = w[x]
      /\ c \notin cut => Under(v[client(c)]) = Under(w[client(c)]) \cup {Fresh("answer")}
      /\ c \in cut => v[client(c)] = w[client(c)]
  BY <1>1, <1>3
<1> QED BY <1>3, <1>4 DEF v, E

\* What an end that has heard something, and others that are closed, do to the clocks.
LEMMA HeardAt ==
  ASSUME idle \in [Ends -> Nat], NEW gone, NEW e \in Ends,
         Run(open \ gone, [idle EXCEPT ![e] = 0], check_timer)
  PROVE  /\ open' = open \ gone /\ idle'[e] = 0
         /\ \A x \in Ends : x # e /\ x \in open /\ x \notin gone => idle'[x] = idle[x]
<1> DEFINE I == [idle EXCEPT ![e] = 0]
<1>1. I[e] = 0 /\ \A x \in Ends : x # e => I[x] = idle[x]
  OBVIOUS
<1>2. open' = open \ gone /\ idle' = [x \in Ends |-> IF x \in open \ gone THEN I[x] ELSE 0]
  BY DEF Run
<1> HIDE DEF I
<1> QED BY <1>1, <1>2

\* on_got_device_id.
LEMMA NamedAnswers ==
  ASSUME idle \in [Ends -> Nat], NEW w \in [Ends -> Seq(Packet)], NEW c \in Conns,
         server(c) \in open, Named(server(c), w), conn' = conn
  PROVE  /\ wire' \in [Ends -> Seq(Packet)] /\ Answered(w, c)
         /\ \A d \in Conns : d # c => Bystander(w, d)
<1> DEFINE old  == {registered} \ {None}
           gone == {<<"server", x>> : x \in old \ Held}
           a    == Sent(w, {Peer(server(c))}, "answer")
<1>1. Run(open \ gone, [idle EXCEPT ![server(c)] = 0], check_timer)
  BY DEF Named
<1>2. wire' = Sent(a, Peers(gone), "fin")
  BY DEF Named, Peers
<1>3. \A g \in gone : \E x : g = server(x)
  BY DEF server
<1>4. /\ a \in [Ends -> Seq(Packet)]
      /\ \A x \in Ends : x # client(c) => a[x] = w[x]
      /\ c \notin cut => Under(a[client(c)]) = Under(w[client(c)]) \cup {Fresh("answer")}
      /\ c \in cut => a[client(c)] = w[client(c)]
  BY AnswerSent
<1> HIDE DEF a, gone, old
<1>5. /\ wire' \in [Ends -> Seq(Packet)]
      /\ \A d \in Conns : /\ wire'[server(d)] = a[server(d)]
                          /\ server(d) \in gone /\ d \notin cut
                               => Under(wire'[client(d)]) = Under(a[client(d)]) \cup {Fresh("fin")}
                          /\ server(d) \notin gone \/ d \in cut => wire'[client(d)] = a[client(d)]
  <2> DEFINE v == Sent(a, Peers(gone), "fin")
  <2>1. /\ v \in [Ends -> Seq(Packet)]
        /\ \A d \in Conns : /\ v[server(d)] = a[server(d)]
                            /\ server(d) \in gone /\ d \notin cut
                                 => Under(v[client(d)]) = Under(a[client(d)]) \cup {Fresh("fin")}
                            /\ server(d) \notin gone \/ d \in cut => v[client(d)] = a[client(d)]
    BY <1>3, <1>4, ClientsTold
  <2>2. wire' = v
    BY <1>2
  <2> HIDE DEF v
  <2> QED BY <2>1, <2>2
<1>6. \A d \in Conns : server(d) \in Ends /\ client(d) \in Ends /\ client(d) \notin gone
  BY <1>3, EndFacts
<1>7. /\ open' = open \ gone /\ idle'[server(c)] = 0
      /\ \A x \in Ends : x # server(c) /\ x \in open /\ x \notin gone => idle'[x] = idle[x]
  BY <1>1, <1>6, HeardAt
<1>8. \A d \in Conns : client(d) # server(c) /\ server(d) # client(c)
  BY EndFacts
<1>9. Answered(w, c)
  <2>1. wire'[server(c)] = w[server(c)]
    BY <1>4, <1>5, <1>6, <1>8
  <2>2. client(c) \in open' <=> client(c) \in open
    BY <1>6, <1>7
  <2>3. client(c) \in open => idle'[client(c)] = idle[client(c)]
    BY <1>6, <1>7, <1>8
  <2>4. /\ Under(w[client(c)]) \subseteq Under(wire'[client(c)])
        /\ Under(wire'[client(c)])
             \subseteq Under(w[client(c)]) \cup {Fresh("answer"), Fresh("fin")}
        /\ c \notin cut => Fresh("answer") \in Under(wire'[client(c)])
        /\ c \notin cut /\ server(c) \in gone => Fresh("fin") \in Under(wire'[client(c)])
    BY <1>4, <1>5
  <2>5. server(c) \in open' \/ server(c) \in gone
    BY <1>7
  <2> QED BY <1>7, <2>1, <2>2, <2>3, <2>4, <2>5 DEF Answered
<1>10. ASSUME NEW d \in Conns, d # c
       PROVE  Bystander(w, d)
  <2>1. /\ wire'[server(d)] = w[server(d)] /\ a[client(d)] = w[client(d)]
        /\ server(d) # server(c)
    BY <1>4, <1>5, <1>6, <1>8, <1>10, EndFacts
  <2>2. /\ client(d) \in open' <=> client(d) \in open
        /\ client(d) \in open => idle'[client(d)] = idle[client(d)]
    BY <1>6, <1>7, <1>8
  <2>3. CASE server(d) \in gone
    BY <1>5, <1>7, <2>1, <2>2, <2>3 DEF Bystander
  <2>4. CASE server(d) \notin gone
    BY <1>5, <1>6, <1>7, <2>1, <2>2, <2>4 DEF Bystander
  <2> QED BY <2>3, <2>4
<1> QED BY <1>5, <1>9, <1>10

\* A packet heard by an end that knows its peer.
LEMMA ReceivedAt ==
  ASSUME idle \in [Ends -> Nat], NEW e \in Ends, Received(e)
  PROVE  /\ open' = open /\ idle'[e] = 0
         /\ \A x \in Ends : x # e /\ x \in open => idle'[x] = idle[x]
<1> DEFINE I == [idle EXCEPT ![e] = 0]
<1>1. I[e] = 0 /\ \A x \in Ends : x # e => I[x] = idle[x]
  OBVIOUS
<1>2. open' = open /\ idle' = [x \in Ends |-> IF x \in open THEN I[x] ELSE 0]
  BY DEF Received, Run
<1> HIDE DEF I
<1> QED BY <1>1, <1>2

\* A beat of a client the server knows.
LEMMA ReceivedAnswers ==
  ASSUME idle \in [Ends -> Nat], NEW w \in [Ends -> Seq(Packet)], NEW c \in Conns,
         server(c) \in open, Received(server(c)), conn' = conn,
         wire' = Sent(w, {Peer(server(c))}, "answer")
  PROVE  /\ wire' \in [Ends -> Seq(Packet)] /\ Answered(w, c)
         /\ \A d \in Conns : d # c => Bystander(w, d)
<1>1. /\ wire' \in [Ends -> Seq(Packet)]
      /\ \A x \in Ends : x # client(c) => wire'[x] = w[x]
      /\ c \notin cut => Under(wire'[client(c)]) = Under(w[client(c)]) \cup {Fresh("answer")}
      /\ c \in cut => wire'[client(c)] = w[client(c)]
  BY AnswerSent
<1>2. \A d \in Conns : /\ server(d) \in Ends /\ client(d) \in Ends
                       /\ client(d) # server(c) /\ server(d) # client(c)
                       /\ d # c => server(d) # server(c) /\ client(d) # client(c)
  BY EndFacts
<1>3. /\ open' = open /\ idle'[server(c)] = 0
      /\ \A x \in Ends : x # server(c) /\ x \in open => idle'[x] = idle[x]
  BY <1>2, ReceivedAt
<1>4. Answered(w, c)
  BY <1>1, <1>2, <1>3 DEF Answered
<1>5. ASSUME NEW d \in Conns, d # c
      PROVE  Bystander(w, d)
  BY <1>1, <1>2, <1>3, <1>5 DEF Bystander
<1> QED BY <1>1, <1>4, <1>5

\* The client has an answer.
LEMMA AnswerLive ==
  ASSUME AllLive, idle \in [Ends -> Nat], beat_timer \in 0..BeatInterval,
         NEW c \in Conns, wire[client(c)] # <<>>, Head(wire[client(c)]).kind = "answer",
         Received(client(c)), UNCHANGED <<made, cut, beat_timer, conn>>,
         wire' = [wire EXCEPT ![client(c)] = Tail(@)]
  PROVE  AllLive'
<1> DEFINE h == Head(wire[client(c)])
<1>1. \A d \in Conns : /\ server(d) \in Ends /\ client(d) \in Ends
                       /\ server(d) # client(c)
                       /\ d # c => client(d) # client(c)
  BY EndFacts
<1>2. /\ wire' \in [Ends -> Seq(Packet)] /\ AllBut(wire', c)
      /\ \A x \in Ends : x # client(c) => wire'[x] = wire[x]
      /\ Under(wire[client(c)]) = Under(wire'[client(c)]) \cup {h}
  BY <1>1, Popped
<1>3. /\ open' = open /\ idle'[client(c)] = 0
      /\ \A x \in Ends : x # client(c) /\ x \in open => idle'[x] = idle[x]
  BY <1>1, ReceivedAt
<1>4. \A d \in Conns : d # c => Bystander(wire', d)
  BY <1>1, <1>3 DEF Bystander
<1>5. WireAt(wire', c) /\ (c \notin cut => ServerAt(wire, c) /\ ClientAt(wire, c))
  BY <1>2 DEF AllLive, LiveAt, AllBut
<1>6. made' = made /\ cut' = cut /\ conn' = conn /\ beat_timer' = beat_timer
  OBVIOUS
<1>7. WireAt(wire, c)'
  BY <1>3, <1>5, <1>6 DEF WireAt
<1>8. ASSUME c \notin cut
      PROVE  LiveAt(wire, c)'
  <2>1. /\ wire'[server(c)] = wire[server(c)]
        /\ server(c) \in open => idle'[server(c)] = idle[server(c)]
    BY <1>1, <1>2, <1>3
  <2>2. ServerAt(wire, c)'
    BY <1>3, <1>5, <1>6, <1>8, <2>1 DEF ServerAt
  <2>3. Carries(wire[client(c)], "fin") => Carries(wire'[client(c)], "fin")
    BY <1>2 DEF Carries
  <2>4. idle'[client(c)] + beat_timer' <= BeatInterval
    BY <1>3, <1>6, LiveNumbers
  <2>5. ClientAt(wire, c)'
    BY <1>3, <1>5, <1>8, <2>1, <2>3, <2>4 DEF ClientAt
  <2> QED BY <2>2, <2>5 DEF LiveAt
<1> QED BY <1>2, <1>4, <1>7, <1>8, OnlyOne

\* A packet for an end of the server that has been closed.
LEMMA ServerDrops ==
  ASSUME AllLive, idle \in [Ends -> Nat], beat_timer \in 0..BeatInterval,
         NEW c \in Conns, wire[server(c)] # <<>>, Head(wire[server(c)]).kind # "syn",
         server(c) \notin open, UNCHANGED <<made, cut, beat_timer, conn, open, idle>>,
         wire' = [wire EXCEPT ![server(c)] = Tail(@)]
  PROVE  AllLive'
<1> DEFINE h == Head(wire[server(c)])
           S == Under(wire'[server(c)])
           K == Under(wire[client(c)])
<1>1. \A d \in Conns : /\ server(d) \in Ends /\ client(d) \in Ends
                       /\ client(d) # server(c)
                       /\ d # c => server(d) # server(c)
  BY EndFacts
<1>2. /\ wire' \in [Ends -> Seq(Packet)] /\ AllBut(wire', c)
      /\ \A x \in Ends : x # server(c) => wire'[x] = wire[x]
      /\ Under(wire[server(c)]) = S \cup {h} /\ h \in Packet
      /\ \A p \in S : p.kind # "syn"
  BY <1>1, Popped
<1>3. made' = made /\ cut' = cut /\ conn' = conn /\ beat_timer' = beat_timer
      /\ open' = open /\ idle' = idle
  OBVIOUS
<1>4. \A d \in Conns : d # c => Bystander(wire', d)
  BY <1>1, <1>3 DEF Bystander
<1>5. WireAt(wire', c) /\ (c \notin cut => ServerAt(wire, c) /\ ClientAt(wire, c))
  BY <1>2 DEF AllLive, LiveAt, AllBut
<1>6. WireAt(wire, c)'
  BY <1>3, <1>5 DEF WireAt
<1>7. ASSUME c \notin cut
      PROVE  LiveAt(wire, c)'
  <2>1. wire'[client(c)] = wire[client(c)]
    BY <1>1, <1>2
  <2> HIDE DEF h, S, K
  <2>2. ~Carries(wire[server(c)], "syn")
    BY <1>2 DEF Carries, h
  <2>3. (\E p \in S : p.kind = "fin") => conn # c
    BY <1>2, <1>5, <1>7 DEF ServerAt, Carries
  <2>4. \A p \in S : p.kind # "syn"
    BY <1>2
  <2>5. ServerAt(wire, c)'
    BY <1>3, <2>3, <2>4 DEF ServerAt, Carries, S
  <2>6. ASSUME client(c) \in open
        PROVE  /\ \E p \in K : p.kind = "fin" /\ p.age \in Nat
               /\ \/ \E p \in K : idle[client(c)] <= BeatInterval + Delay + p.age
                  \/ idle[client(c)] + beat_timer <= BeatInterval
    <3>1. \E p \in K : p.kind = "fin"
      BY <1>5, <1>7, <2>2, <2>6 DEF ClientAt, Carries, K
    <3>2. \A p \in K : p \in Packet
      BY <1>1 DEF AllLive, Under, K
    <3>3. PICK q \in K : q.kind = "fin" /\ q.age \in 0..Delay
      BY <3>1, <3>2, LiveNumbers
    <3>4. \A p \in S \cup {h} : p.age \in 0..Delay
      <4>1. \A p \in S : p \in Packet
        BY <1>1, <1>2 DEF S, Under
      <4> QED BY <1>2, <4>1, LiveNumbers
    <3>5. idle[client(c)] \in Nat
      BY <1>1
    <3>6. \/ \E p \in K : idle[client(c)] <= BeatInterval + Delay + p.age
          \/ \E p \in S \cup {h} : idle[client(c)] <= BeatInterval + p.age
          \/ idle[client(c)] + beat_timer <= BeatInterval
      BY <1>2, <1>5, <1>7, <2>6 DEF ClientAt, K
    <3>7. ASSUME NEW p \in S \cup {h}, idle[client(c)] <= BeatInterval + p.age
          PROVE  idle[client(c)] <= BeatInterval + Delay + q.age
      BY <3>3, <3>4, <3>5, <3>7, LiveNumbers
    <3> QED BY <3>3, <3>6, <3>7
  <2>7. ClientAt(wire, c)'
    BY <1>3, <2>1, <2>6 DEF ClientAt, Carries, K
  <2> QED BY <2>5, <2>7 DEF LiveAt
<1> QED BY <1>2, <1>4, <1>6, <1>7, OnlyOne

\* A packet for an end of the client that has been closed.
LEMMA ClientDrops ==
  ASSUME AllLive, NEW c \in Conns, wire[client(c)] # <<>>,
         client(c) \notin open, UNCHANGED <<made, cut, beat_timer, conn, open, idle>>,
         wire' = [wire EXCEPT ![client(c)] = Tail(@)]
  PROVE  AllLive'
<1>1. \A d \in Conns : /\ server(d) \in Ends /\ client(d) \in Ends
                       /\ server(d) # client(c)
                       /\ d # c => client(d) # client(c)
  BY EndFacts
<1>2. /\ wire' \in [Ends -> Seq(Packet)] /\ AllBut(wire', c)
      /\ \A x \in Ends : x # client(c) => wire'[x] = wire[x]
  BY <1>1, Popped
<1>3. made' = made /\ cut' = cut /\ conn' = conn /\ beat_timer' = beat_timer
      /\ open' = open /\ idle' = idle
  OBVIOUS
<1>4. \A d \in Conns : d # c => Bystander(wire', d)
  BY <1>1, <1>3 DEF Bystander
<1>5. WireAt(wire', c) /\ (c \notin cut => ServerAt(wire, c))
  BY <1>2 DEF AllLive, LiveAt, AllBut
<1>6. WireAt(wire, c)'
  BY <1>3, <1>5 DEF WireAt
<1>7. wire'[server(c)] = wire[server(c)]
  BY <1>1, <1>2
<1>8. c \notin cut => ServerAt(wire, c)'
  BY <1>3, <1>5, <1>7 DEF ServerAt
<1>9. ClientAt(wire, c)'
  BY <1>3 DEF ClientAt
<1> QED BY <1>2, <1>4, <1>6, <1>8, <1>9, OnlyOne DEF LiveAt

\* A packet arrives at an end.
LEMMA DeliverLive ==
  ASSUME LiveInv, idle \in [Ends -> Nat], NEW e \in Ends, Deliver(e)
  PROVE  AllLive'
<1> DEFINE kind == Head(wire[e]).kind
           rest == [wire EXCEPT ![e] = Tail(@)]
<1>1. /\ wire[e] # <<>>
      /\ UNCHANGED <<made, cut, beat_timer>>
      /\ AllLive /\ beat_timer \in 0..BeatInterval
  BY DEF Deliver, LiveInv
<1>2. \/ /\ kind = "syn"
         /\ Start(e) /\ wire' = rest /\ conn' = conn
      \/ kind # "syn" /\ e \in open /\ Handle(e, kind, rest)
      \/ /\ kind # "syn" /\ e \notin open
         /\ wire' = rest /\ UNCHANGED <<conn, open, idle>>
  BY DEF Deliver
<1>3. PICK c \in Conns : e = server(c) \/ e = client(c)
  BY EndFacts
<1>4. /\ rest \in [Ends -> Seq(Packet)] /\ AllBut(rest, c)
      /\ \A x \in Ends : x # e => rest[x] = wire[x]
      /\ Under(wire[e]) = Under(rest[e]) \cup {Head(wire[e])}
      /\ e = server(c) => \A p \in Under(rest[e]) : p.kind # "syn"
  <2>1. e \in {server(c), client(c)} /\ rest = [wire EXCEPT ![e] = Tail(@)]
    BY <1>3
  <2> HIDE DEF rest
  <2> QED BY <1>1, <2>1, Popped
<1>5. WireAt(wire, c) /\ (c \notin cut => ServerAt(wire, c))
  BY <1>1 DEF AllLive, LiveAt
<1>6. Head(wire[e]) \in Under(wire[e])
  BY <1>4
<1>7. server(c) # client(c) /\ server(c) \in Ends
  BY EndFacts
<1>8. CASE kind = "syn"
  <2>1. e = server(c)
    BY <1>3, <1>5, <1>6, <1>8 DEF WireAt
  <2> QED BY <1>1, <1>2, <1>8, <2>1, SynLive
<1>9. CASE kind # "syn" /\ e \notin open
  <2>1. CASE e = server(c)
    BY <1>1, <1>2, <1>9, <2>1, ServerDrops
  <2>2. CASE e = client(c)
    BY <1>1, <1>2, <1>9, <2>2, ClientDrops
  <2> QED BY <1>3, <2>1, <2>2
<1>10. CASE kind # "syn" /\ e \in open
  <2> HIDE DEF rest
  <2>1. CASE e = server(c)
    <3>1. kind # "answer"
      BY <1>5, <1>6, <2>1 DEF WireAt
    <3>2. CASE kind = "beat"
      <4>1. /\ conn' = conn
            /\ \/ Named(server(c), rest)
               \/ Received(server(c)) /\ wire' = Sent(rest, {Peer(server(c))}, "answer")
        BY <1>2, <1>10, <2>1, <3>2 DEF Handle
      <4>2. /\ wire' \in [Ends -> Seq(Packet)] /\ Answered(rest, c)
            /\ \A d \in Conns : d # c => Bystander(rest, d)
        BY <1>4, <1>10, <2>1, <4>1, NamedAnswers, ReceivedAnswers
      <4> QED BY <1>1, <1>10, <2>1, <3>2, <4>1, <4>2, AnsweredLive DEF rest
    <3>3. CASE kind # "beat"
      <4>1. kind = "fin" /\ ServerDisconnected(server(c), rest)
        BY <1>2, <1>10, <2>1, <3>1, <3>3, EndFacts DEF Handle, Disconnected
      <4>2. Carries(wire[server(c)], "fin")
        BY <1>6, <2>1, <4>1 DEF Carries
      <4>3. c \in cut \/ (conn # c /\ ~Carries(rest[server(c)], "syn"))
        BY <1>4, <1>5, <2>1, <4>2 DEF ServerAt, Carries
      <4> QED BY <1>1, <1>4, <4>1, <4>3, ServerDisconnectedLive
    <3> QED BY <3>2, <3>3
  <2>2. CASE e = client(c)
    <3>1. kind \in {"answer", "fin"}
      BY <1>5, <1>6, <2>2 DEF WireAt
    <3>2. CASE kind = "answer"
      <4>1. Received(client(c)) /\ wire' = rest /\ conn' = conn
        BY <1>2, <1>10, <2>2, <3>2 DEF Handle
      <4> QED BY <1>1, <2>2, <3>2, <4>1, AnswerLive DEF rest
    <3>3. CASE kind = "fin"
      <4>1. ClientDisconnected(client(c), rest)
        BY <1>2, <1>10, <2>2, <3>3, EndFacts DEF Handle, Disconnected
      <4>2. c \in cut \/ ServerAt(rest, c)
        BY <1>4, <1>5, <1>7, <2>2 DEF ServerAt
      <4> QED BY <1>1, <1>4, <1>10, <2>2, <4>1, <4>2, ClientDisconnectedLive
    <3> QED BY <3>1, <3>2, <3>3
  <2> QED BY <1>3, <2>1, <2>2
<1> QED BY <1>8, <1>9, <1>10

-----------------------------------------------------------------------------
(* Ends give up, the network fails, time passes.                           *)

\* A time whose whole seconds exceed the lifetime has reached the limit.
LEMMA TooLongIsLimit ==
  ASSUME NEW t \in Nat, TooLong(t)
  PROVE  t >= Limit
<1>1. Lifetime \in Nat /\ Second \in Nat /\ Second >= 1
  BY TimeAssumption
<1> DEFINE q == t \div Second
<1>2. q \in Nat /\ t = Second * q + (t % Second) /\ t % Second \in 0..(Second - 1)
  BY <1>1
<1>3. Lifetime + 1 <= q
  BY <1>1, <1>2 DEF TooLong
<1> HIDE DEF q
<1>4. ASSUME NEW a \in Nat, NEW b \in Nat, NEW s \in Nat, a <= b
      PROVE  a * s <= s * b /\ a * s \in Nat /\ s * b \in Nat
  BY <1>4
<1>5. (Lifetime + 1) * Second <= Second * q /\ (Lifetime + 1) * Second \in Nat /\ Second * q \in Nat
  BY <1>1, <1>2, <1>3, <1>4
<1> QED BY <1>1, <1>2, <1>5 DEF Limit

\* An end that has been silent for that long is one of a failed network.
LEMMA SilentIsCut ==
  ASSUME LiveInv, idle \in [Ends -> Nat], NEW e \in Ends, e \in open, TooLong(idle[e])
  PROVE  e[2] \in cut
<1>1. PICK c \in Conns : e = server(c) \/ e = client(c)
  BY EndFacts
<1>2. SUFFICES ASSUME c \notin cut PROVE FALSE
  BY <1>1, EndFacts
<1>3. ServerAt(wire, c) /\ ClientAt(wire, c)
  BY <1>2 DEF LiveInv, AllLive, LiveAt
<1>4. idle[e] \in Nat /\ idle[e] >= Limit
  BY TooLongIsLimit
<1>5. beat_timer \in Nat
  BY LiveNumbers DEF LiveInv
<1>6. server(c) \in Ends /\ client(c) \in Ends /\ wire \in [Ends -> Seq(Packet)]
  BY EndFacts DEF LiveInv, AllLive
<1>7. \A p \in Under(wire[server(c)]) \cup Under(wire[client(c)]) : p.age \in 0..Delay
  <2>1. \A p \in Under(wire[server(c)]) \cup Under(wire[client(c)]) : p \in Packet
    BY <1>6 DEF Under
  <2> QED BY <2>1, LiveNumbers
<1>8. CASE e = server(c)
  <2>1. \/ \E p \in Under(wire[e]) : idle[e] <= BeatInterval + p.age
        \/ idle[e] + beat_timer <= BeatInterval
    BY <1>3, <1>8 DEF ServerAt
  <2> QED BY <1>4, <1>5, <1>7, <1>8, <2>1, LiveNumbers
<1>9. CASE e = client(c)
  <2>1. \/ \E p \in Under(wire[e]) : idle[e] <= BeatInterval + Delay + p.age
        \/ \E p \in Under(wire[server(c)]) : idle[e] <= BeatInterval + p.age
        \/ idle[e] + beat_timer <= BeatInterval
    BY <1>3, <1>9 DEF ClientAt
  <2> QED BY <1>4, <1>5, <1>7, <1>9, <2>1, LiveNumbers
<1> QED BY <1>1, <1>8, <1>9

\* An end gives up a connection the network has failed on.
LEMMA GivenUpLive ==
  ASSUME LiveInv, idle \in [Ends -> Nat], NEW e \in Ends, e \in open, e[2] \in cut,
         Disconnected(e, wire), UNCHANGED <<made, cut, beat_timer>>
  PROVE  AllLive'
<1>1. PICK c \in Conns : e = server(c) \/ e = client(c)
  BY EndFacts
<1>2. c \in cut
  BY <1>1, EndFacts
<1>3. AllBut(wire, c) /\ wire \in [Ends -> Seq(Packet)] /\ beat_timer \in 0..BeatInterval
  BY DEF LiveInv, AllLive, AllBut
<1>4. CASE e = server(c)
  <2>1. ServerDisconnected(server(c), wire)
    BY <1>4, EndFacts DEF Disconnected
  <2> QED BY <1>2, <1>3, <2>1, ServerDisconnectedLive
<1>5. CASE e = client(c)
  <2>1. ClientDisconnected(client(c), wire)
    BY <1>5, EndFacts DEF Disconnected
  <2> QED BY <1>2, <1>3, <1>5, <2>1, ClientDisconnectedLive
<1> QED BY <1>1, <1>4, <1>5

\* Steps that leave connections, packets and silences alone.
LEMMA LiveUnchanged ==
  ASSUME AllLive, UNCHANGED <<made, cut, beat_timer, conn, open, idle, wire>>
  PROVE  AllLive'
BY DEF AllLive, WireAt, LiveAt, ServerAt, ClientAt

\* The check of an end.
LEMMA CheckLive ==
  ASSUME LiveInv, idle \in [Ends -> Nat], NEW e \in Ends, Check(e)
  PROVE  AllLive' /\ TimedOutCut'
<1>1. e \in open /\ UNCHANGED <<made, cut, beat_timer>> /\ AllLive /\ TimedOutCut
  BY DEF Check, LiveInv
<1>2. CASE TooLong(idle[e]) /\ timedOut' = timedOut \cup {e} /\ Disconnected(e, wire)
  <2>1. e[2] \in cut
    BY <1>1, <1>2, SilentIsCut
  <2>2. TimedOutCut'
    BY <1>1, <1>2, <2>1 DEF TimedOutCut
  <2> QED BY <1>1, <1>2, <2>1, <2>2, GivenUpLive
<1>3. CASE UNCHANGED <<conn, open, idle, wire, timedOut>>
  <2>1. TimedOutCut'
    BY <1>1, <1>3 DEF TimedOutCut
  <2> QED BY <1>1, <1>3, <2>1, LiveUnchanged
<1> QED BY <1>2, <1>3 DEF Check

\* A try of the server's lets go of its connection.
LEMMA TryEndsLive ==
  ASSUME LiveInv, TryEnds
  PROVE  AllLive'
<1> DEFINE gone == {<<"server", c>> : c \in {push.on} \ {registered}}
<1>1. /\ Stop(gone) /\ wire' = Sent(wire, {Peer(g) : g \in gone}, "fin")
      /\ UNCHANGED <<made, conn, cut, beat_timer>>
  BY DEF TryEnds
<1>2. \A g \in gone : \E x : g = server(x)
  BY DEF server
<1>3. AllLive /\ wire \in [Ends -> Seq(Packet)] /\ cut' = cut
  BY <1>1 DEF LiveInv, AllLive
<1> HIDE DEF gone
<1>4. wire' \in [Ends -> Seq(Packet)] /\ \A d \in Conns : Bystander(wire, d)
  BY <1>1, <1>2, <1>3, ServersGone
<1>5. ASSUME NEW d \in Conns
      PROVE  WireAt(wire, d)' /\ (d \notin cut => LiveAt(wire, d)')
  <2>1. WireAt(wire, d) /\ (d \notin cut => LiveAt(wire, d)) /\ Bystander(wire, d)
    BY <1>3, <1>4 DEF AllLive
  <2> QED BY <1>1, <2>1, BystanderKeeps
<1> QED BY <1>3, <1>4, <1>5 DEF AllLive

\* A connection made.
LEMMA ConnectLive ==
  ASSUME LiveInv, idle \in [Ends -> Nat], made \in 0..MaxConns, Connect
  PROVE  AllLive'
<1> DEFINE syn == [kind |-> "syn", age |-> 0]
<1>0. PICK n \in Nat : n = made + 1
  OBVIOUS
<1>1. /\ conn = None /\ made < MaxConns /\ made' = n /\ conn' = n
      /\ Start(client(n)) /\ UNCHANGED <<cut, beat_timer>>
      /\ wire' = [wire EXCEPT ![server(n)] = <<syn>>]
  BY <1>0 DEF Connect, server, client
<1>2. n \in Conns /\ n # None /\ \A d \in Conns : d # None
  BY <1>0, <1>1, TimeAssumption DEF Conns, None
<1>3. \A d \in Conns : /\ server(d) \in Ends /\ client(d) \in Ends
                       /\ server(d) # client(n) /\ client(d) # server(n)
                       /\ d # n => server(d) # server(n) /\ client(d) # client(n)
  BY <1>2, EndFacts
<1>4. wire \in [Ends -> Seq(Packet)] /\ beat_timer \in 0..BeatInterval
      /\ \A d \in Conns : WireAt(wire, d) /\ (d \notin cut => ServerAt(wire, d) /\ ClientAt(wire, d))
  BY DEF LiveInv, AllLive, LiveAt
<1>5. syn \in Packet
  BY LiveNumbers DEF Packet
<1>6. /\ wire' \in [Ends -> Seq(Packet)]
      /\ wire'[server(n)] = <<syn>>
      /\ \A x \in Ends : x # server(n) => wire'[x] = wire[x]
  BY <1>1, <1>2, <1>3, <1>4, <1>5
<1>7. /\ open' = open \cup {client(n)} /\ idle'[client(n)] = 0
      /\ \A x \in Ends : x # client(n) /\ x \in open => idle'[x] = idle[x]
  <2> DEFINE I == [idle EXCEPT ![client(n)] = 0]
  <2>1. I[client(n)] = 0 /\ \A x \in Ends : x # client(n) => I[x] = idle[x]
    BY <1>2, <1>3
  <2>2. /\ open' = open \cup {client(n)}
        /\ idle' = [x \in Ends |-> IF x \in open \cup {client(n)} THEN I[x] ELSE 0]
    BY <1>1 DEF Start, Run
  <2> HIDE DEF I
  <2> QED BY <1>2, <1>3, <2>1, <2>2
<1> HIDE DEF syn
<1>8. Under(<<syn>>) = {syn} /\ SynFirst(<<syn>>) /\ syn.kind = "syn"
  BY DEF Under, SynFirst, syn
<1>9. server(n) \notin open
  <2>1. ~(n <= made)
    BY <1>0
  <2> QED BY <1>2, <1>4, <2>1 DEF WireAt
<1>10. WireAt(wire, n)' /\ (n \notin cut' => LiveAt(wire, n)')
  <2>1. Under(wire'[server(n)]) = {syn} /\ server(n) \notin open' /\ n <= made'
    BY <1>1, <1>2, <1>3, <1>6, <1>7, <1>8, <1>9
  <2>2. wire'[client(n)] = wire[client(n)]
    BY <1>2, <1>3, <1>6
  <2>3. WireAt(wire, n)'
    BY <1>1, <1>2, <1>4, <1>6, <1>8, <2>1, <2>2 DEF WireAt
  <2>4. ServerAt(wire, n)'
    BY <1>1, <1>8, <2>1 DEF ServerAt, Carries
  <2>5. idle'[client(n)] + beat_timer' <= BeatInterval
    BY <1>1, <1>4, <1>7, LiveNumbers
  <2>6. ClientAt(wire, n)'
    BY <1>8, <2>1, <2>5 DEF ClientAt, Carries
  <2> QED BY <2>3, <2>4, <2>6 DEF LiveAt
<1>11. ASSUME NEW d \in Conns, d # n
       PROVE  WireAt(wire, d)' /\ (d \notin cut' => LiveAt(wire, d)')
  <2>1. /\ wire'[server(d)] = wire[server(d)] /\ wire'[client(d)] = wire[client(d)]
        /\ server(d) \in open' <=> server(d) \in open
        /\ server(d) \in open => idle'[server(d)] = idle[server(d)]
        /\ client(d) \in open' <=> client(d) \in open
    BY <1>2, <1>3, <1>6, <1>7, <1>11
  <2>2. conn # d /\ conn' # d /\ cut' = cut
    BY <1>1, <1>2, <1>11
  <2>3. WireAt(wire, d) /\ (d \notin cut => ServerAt(wire, d))
    BY <1>4
  <2>4. client(d) \notin open
    BY <2>2, <2>3 DEF WireAt
  <2>5. d <= made => d <= made'
    <3>1. d \in Nat /\ made \in Nat
      BY DEF Conns
    <3> QED BY <1>0, <1>1, <3>1
  <2>6. WireAt(wire, d)'
    BY <2>1, <2>2, <2>3, <2>4, <2>5 DEF WireAt
  <2>7. d \notin cut => ServerAt(wire, d)'
    BY <2>1, <2>2, <2>3 DEF ServerAt
  <2>8. ClientAt(wire, d)'
    BY <2>1, <2>4 DEF ClientAt
  <2> QED BY <2>2, <2>6, <2>7, <2>8 DEF LiveAt
<1>12. \A d \in Conns : WireAt(wire, d)' /\ (d \notin cut' => LiveAt(wire, d)')
  BY <1>10, <1>11
<1> QED BY <1>6, <1>12 DEF AllLive

\* The heartbeat.
LEMMA BeatLive ==
  ASSUME LiveInv, idle \in [Ends -> Nat], Beat
  PROVE  AllLive' /\ beat_timer' \in 0..BeatInterval
<1>1. /\ beat_timer = 0 /\ beat_timer' = BeatInterval
      /\ UNCHANGED <<made, conn, open, idle, cut>>
      /\ wire' = IF conn = None THEN wire ELSE Sent(wire, {server(conn)}, "beat")
  BY DEF Beat, server
<1>2. wire \in [Ends -> Seq(Packet)]
      /\ \A d \in Conns : WireAt(wire, d) /\ (d \notin cut => ServerAt(wire, d) /\ ClientAt(wire, d))
  BY DEF LiveInv, AllLive, LiveAt
<1>3. \A d \in Conns : /\ server(d) \in Ends /\ client(d) \in Ends /\ server(d)[2] = d
                       /\ d # None /\ client(d) # server(conn)
                       /\ server(d) = server(conn) <=> conn = d
  <2>1. \A d \in Conns : d # None
    BY DEF Conns, None
  <2> QED BY <2>1, EndFacts
<1>4. /\ wire' \in [Ends -> Seq(Packet)]
      /\ \A d \in Conns : /\ wire'[client(d)] = wire[client(d)]
                          /\ conn # d \/ d \in cut => wire'[server(d)] = wire[server(d)]
                          /\ conn = d /\ d \notin cut
                               => Under(wire'[server(d)]) = Under(wire[server(d)]) \cup {Fresh("beat")}
  <2>1. CASE conn = None
    BY <1>1, <1>2, <1>3, <2>1
  <2>2. CASE conn # None
    <3> DEFINE E == {server(conn)}
               v == Sent(wire, E, "beat")
    <3>1. wire' = v /\ \A e : e \in E <=> e = server(conn)
      BY <1>1, <2>2
    <3>2. "beat" \in {"beat", "answer", "fin"}
      OBVIOUS
    <3> HIDE DEF E
    <3>3. /\ v \in [Ends -> Seq(Packet)]
          /\ \A e \in Ends : /\ e \in E /\ e[2] \notin cut => Under(v[e]) = Under(wire[e]) \cup {Fresh("beat")}
                             /\ e \notin E \/ e[2] \in cut => v[e] = wire[e]
      BY <1>2, <3>2, SentUnder
    <3> HIDE DEF v
    <3> QED BY <1>3, <3>1, <3>3
  <2> QED BY <2>1, <2>2
<1>5. Fresh("beat").kind = "beat" /\ Fresh("beat").age = 0
  BY DEF Fresh
<1>6. ASSUME NEW d \in Conns
      PROVE  WireAt(wire, d)' /\ (d \notin cut' => LiveAt(wire, d)')
  <2>1. SynFirst(wire'[server(d)])
    <3>1. SynFirst(wire[server(d)])
      BY <1>2 DEF WireAt
    <3>2. "beat" \in {"beat", "answer", "fin"}
      OBVIOUS
    <3>3. SynFirst(Sent(wire, {server(conn)}, "beat")[server(d)])
      BY <1>2, <1>3, <3>1, <3>2, SentSyn
    <3> QED BY <1>1, <3>1, <3>3
  <2>2. wire'[client(d)] = wire[client(d)]
    BY <1>4
  <2>3. CASE conn # d \/ d \in cut
    <3>1. wire'[server(d)] = wire[server(d)]
      BY <1>4, <2>3
    <3>2. WireAt(wire, d) /\ (d \notin cut => ServerAt(wire, d))
      BY <1>2
    <3>3. WireAt(wire, d)'
      BY <1>1, <2>2, <3>1, <3>2 DEF WireAt
    <3>4. d \notin cut => ServerAt(wire, d)'
      BY <1>1, <2>3, <3>1, <3>2 DEF ServerAt
    <3>5. d \notin cut => ClientAt(wire, d)'
      BY <1>1, <2>3, <3>2 DEF WireAt, ClientAt
    <3> QED BY <1>1, <3>3, <3>4, <3>5 DEF LiveAt
  <2>4. CASE conn = d /\ d \notin cut
    <3>1. Under(wire'[server(d)]) = Under(wire[server(d)]) \cup {Fresh("beat")}
      BY <1>4, <2>4
    <3>2. WireAt(wire, d) /\ ServerAt(wire, d) /\ ClientAt(wire, d)
      BY <1>2, <2>4
    <3>3. WireAt(wire, d)'
      <4>1. d <= made
        BY <2>4, <3>2 DEF WireAt
      <4> QED BY <1>1, <1>5, <2>1, <2>2, <3>1, <3>2, <4>1 DEF WireAt
    <3>4. idle[server(d)] \in Nat /\ idle[client(d)] \in Nat
      BY <1>3
    <3>5. \A i \in Nat : i + beat_timer <= BeatInterval => i <= BeatInterval + Fresh("beat").age
      BY <1>1, <1>5, LiveNumbers
    <3>6. Carries(wire'[server(d)], "fin") <=> Carries(wire[server(d)], "fin")
      BY <1>5, <3>1 DEF Carries
    <3>7. Carries(wire[server(d)], "syn") => Carries(wire'[server(d)], "syn")
      BY <3>1 DEF Carries
    <3>8. ServerAt(wire, d)'
      <4>1. server(d) \in open => \E p \in Under(wire'[server(d)]) : idle[server(d)] <= BeatInterval + p.age
        BY <3>1, <3>2, <3>4, <3>5 DEF ServerAt
      <4> QED BY <1>1, <2>4, <3>2, <3>6, <4>1 DEF ServerAt
    <3>9. ClientAt(wire, d)'
      <4>1. client(d) \in open =>
              \/ \E p \in Under(wire[client(d)]) : idle[client(d)] <= BeatInterval + Delay + p.age
              \/ \E p \in Under(wire'[server(d)]) : /\ p.kind = "beat"
                                                    /\ idle[client(d)] <= BeatInterval + p.age
        BY <1>5, <3>1, <3>2, <3>4, <3>5 DEF ClientAt
      <4> QED BY <1>1, <2>2, <3>2, <3>7, <4>1 DEF ClientAt
    <3> QED BY <3>3, <3>8, <3>9 DEF LiveAt
  <2> QED BY <2>3, <2>4
<1>7. beat_timer' \in 0..BeatInterval
  BY <1>1, LiveNumbers
<1> QED BY <1>4, <1>6, <1>7 DEF AllLive

\* What the network has already brought to the server's host.
LEMMA PendingUnder ==
  ASSUME NEW w \in Seq(Packet)
  PROVE  /\ Pending(w) \in Seq(Packet) /\ SynFirst(Pending(w))
         /\ Under(Pending(w)) \subseteq Under(w)
<1>1. CASE w # <<>> /\ Head(w).kind = "syn"
  <2>1. Pending(w) = <<Head(w)>> /\ Head(w) \in Packet /\ Head(w) \in Under(w)
    BY <1>1, TailUnder DEF Pending
  <2>2. Under(<<Head(w)>>) = {Head(w)} /\ SynFirst(<<Head(w)>>)
    BY DEF Under, SynFirst
  <2>3. <<Head(w)>> \in Seq(Packet)
    BY <2>1
  <2> QED BY <2>1, <2>2, <2>3
<1>2. CASE ~(w # <<>> /\ Head(w).kind = "syn")
  <2>1. Pending(w) = <<>>
    BY <1>2 DEF Pending
  <2>2. Under(<<>>) = {} /\ SynFirst(<<>>)
    BY DEF Under, SynFirst
  <2> QED BY <2>1, <2>2
<1> QED BY <1>1, <1>2

\* The network fails.
LEMMA CutLive ==
  ASSUME LiveInv, NEW c \in Conns, Cut(c)
  PROVE  AllLive' /\ TimedOutCut'
<1>1. /\ cut' = cut \cup {c}
      /\ UNCHANGED <<made, conn, open, idle, beat_timer, timedOut>>
      /\ wire' = [e \in Ends |-> IF e[2] = c THEN Pending(wire[e]) ELSE wire[e]]
  BY DEF Cut
<1>2. wire \in [Ends -> Seq(Packet)]
      /\ \A d \in Conns : WireAt(wire, d) /\ (d \notin cut => LiveAt(wire, d))
  BY DEF LiveInv, AllLive
<1>3. \A e \in Ends : /\ Pending(wire[e]) \in Seq(Packet) /\ SynFirst(Pending(wire[e]))
                      /\ Under(Pending(wire[e])) \subseteq Under(wire[e])
  BY <1>2, PendingUnder
<1>4. wire' \in [Ends -> Seq(Packet)]
  BY <1>1, <1>2, <1>3
<1>5. \A d \in Conns : server(d) \in Ends /\ client(d) \in Ends
                       /\ server(d)[2] = d /\ client(d)[2] = d
  BY EndFacts
<1>6. ASSUME NEW d \in Conns
      PROVE  WireAt(wire, d)' /\ (d \notin cut' => LiveAt(wire, d)')
  <2>1. CASE d # c
    <3>1. wire'[server(d)] = wire[server(d)] /\ wire'[client(d)] = wire[client(d)]
      BY <1>1, <1>5, <2>1
    <3>2. WireAt(wire, d)'
      BY <1>1, <1>2, <3>1 DEF WireAt
    <3>3. d \notin cut' => LiveAt(wire, d)'
      BY <1>1, <1>2, <3>1 DEF LiveAt, ServerAt, ClientAt
    <3> QED BY <3>2, <3>3
  <2>2. CASE d = c
    <3>1. /\ Under(wire'[server(d)]) \subseteq Under(wire[server(d)])
          /\ Under(wire'[client(d)]) \subseteq Under(wire[client(d)])
      BY <1>1, <1>3, <1>5, <2>2
    <3>2. SynFirst(wire'[server(d)])
      <4>1. wire'[server(d)] = Pending(wire[server(d)])
        BY <1>1, <1>5, <2>2
      <4> QED BY <1>3, <1>5, <4>1
    <3>3. WireAt(wire, d)'
      BY <1>1, <1>2, <3>1, <3>2 DEF WireAt
    <3> QED BY <1>1, <2>2, <3>3
  <2> QED BY <2>1, <2>2
<1>7. TimedOutCut'
  BY <1>1 DEF LiveInv, TimedOutCut
<1> QED BY <1>4, <1>6, <1>7 DEF AllLive

\* Packets on their way, a tick later.
Older(w) == [k \in DOMAIN w |-> [kind |-> w[k].kind, age |-> w[k].age + 1]]

\* Each is a tick older, and none has changed.
LEMMA OlderUnder ==
  ASSUME NEW w \in Seq(Packet), \A k \in DOMAIN w : w[k].age < Delay
  PROVE  /\ Older(w) \in Seq(Packet)
         /\ \A p \in Under(w) : \E q \in Under(Older(w)) : q.kind = p.kind /\ q.age = p.age + 1
         /\ \A q \in Under(Older(w)) : \E p \in Under(w) : q.kind = p.kind
         /\ SynFirst(w) => SynFirst(Older(w))
<1>1. DOMAIN w = 1..Len(w) /\ Len(w) \in Nat /\ \A k \in DOMAIN w : w[k] \in Packet
  BY LenProperties, ElementOfSeq
<1>2. DOMAIN Older(w) = DOMAIN w
      /\ \A k \in DOMAIN w : /\ Older(w)[k].kind = w[k].kind
                             /\ Older(w)[k].age = w[k].age + 1
  BY DEF Older
<1>3. \A k \in 1..Len(w) : [kind |-> w[k].kind, age |-> w[k].age + 1] \in Packet
  BY <1>1, LiveNumbers DEF Packet
<1>4. Older(w) \in Seq(Packet)
  BY <1>1, <1>3 DEF Older
<1>5. \A p \in Under(w) : \E q \in Under(Older(w)) : q.kind = p.kind /\ q.age = p.age + 1
  BY <1>2 DEF Under
<1>6. \A q \in Under(Older(w)) : \E p \in Under(w) : q.kind = p.kind
  BY <1>2 DEF Under
<1>7. SynFirst(w) => SynFirst(Older(w))
  BY <1>2 DEF SynFirst
<1> QED BY <1>4, <1>5, <1>6, <1>7

\* Time passes.
LEMMA TickLive ==
  ASSUME LiveInv, idle \in [Ends -> Nat], Tick
  PROVE  AllLive' /\ beat_timer' \in 0..BeatInterval
<1>1. /\ beat_timer > 0 /\ beat_timer' = beat_timer - 1
      /\ \A e \in Ends : \A k \in DOMAIN wire[e] : wire[e][k].age < Delay
      /\ UNCHANGED <<made, conn, open, cut>>
      /\ wire' = [e \in Ends |-> Older(wire[e])]
  BY DEF Tick, MayPass, Older
<1>2. idle' = [e \in Ends |-> IF e \in open THEN idle[e] + 1 ELSE idle[e]]
  BY DEF Tick
<1>3. wire \in [Ends -> Seq(Packet)] /\ beat_timer \in 0..BeatInterval
      /\ \A d \in Conns : WireAt(wire, d) /\ (d \notin cut => ServerAt(wire, d) /\ ClientAt(wire, d))
  BY DEF LiveInv, AllLive, LiveAt
<1>4. \A e \in Ends :
        /\ Older(wire[e]) \in Seq(Packet)
        /\ \A p \in Under(wire[e]) : \E q \in Under(Older(wire[e])) : q.kind = p.kind /\ q.age = p.age + 1
        /\ \A q \in Under(Older(wire[e])) : \E p \in Under(wire[e]) : q.kind = p.kind
        /\ SynFirst(wire[e]) => SynFirst(Older(wire[e]))
  BY <1>1, <1>3, OlderUnder
<1>5. beat_timer' \in 0..BeatInterval
  BY <1>1, <1>3, LiveNumbers
<1>6. wire' \in [Ends -> Seq(Packet)] /\ \A e \in Ends : wire'[e] = Older(wire[e])
  BY <1>1, <1>4
<1>7. \A e \in Ends : \A p \in Under(wire[e]) : p.age \in Nat
  <2>1. \A e \in Ends : \A p \in Under(wire[e]) : p \in Packet
    BY <1>3 DEF Under
  <2> QED BY <2>1, LiveNumbers
<1>8. ASSUME NEW d \in Conns
      PROVE  WireAt(wire, d)' /\ (d \notin cut' => LiveAt(wire, d)')
  <2> DEFINE S == Under(wire[server(d)])
             K == Under(wire[client(d)])
             Sn == Under(wire'[server(d)])
             Kn == Under(wire'[client(d)])
  <2>1. server(d) \in Ends /\ client(d) \in Ends
    BY EndFacts
  <2>2. /\ \A p \in S : \E q \in Sn : q.kind = p.kind /\ q.age = p.age + 1
        /\ \A q \in Sn : \E p \in S : q.kind = p.kind
        /\ \A p \in K : \E q \in Kn : q.kind = p.kind /\ q.age = p.age + 1
        /\ \A q \in Kn : \E p \in K : q.kind = p.kind
    <3>1. /\ \A p \in S : \E q \in Under(Older(wire[server(d)])) : q.kind = p.kind /\ q.age = p.age + 1
          /\ \A q \in Under(Older(wire[server(d)])) : \E p \in S : q.kind = p.kind
      BY <1>4, <2>1
    <3>2. /\ \A p \in K : \E q \in Under(Older(wire[client(d)])) : q.kind = p.kind /\ q.age = p.age + 1
          /\ \A q \in Under(Older(wire[client(d)])) : \E p \in K : q.kind = p.kind
      BY <1>4, <2>1
    <3>3. Sn = Under(Older(wire[server(d)])) /\ Kn = Under(Older(wire[client(d)]))
      BY <1>6, <2>1
    <3> HIDE DEF S, K, Sn, Kn
    <3> QED BY <3>1, <3>2, <3>3
  <2>3. SynFirst(wire[server(d)]) => SynFirst(wire'[server(d)])
    BY <1>4, <1>6, <2>1
  <2>4. \A p \in S \cup K : p.age \in Nat
    BY <1>7, <2>1
  <2>5. /\ idle[server(d)] \in Nat /\ idle[client(d)] \in Nat
        /\ server(d) \in open => idle'[server(d)] = idle[server(d)] + 1
        /\ client(d) \in open => idle'[client(d)] = idle[client(d)] + 1
    BY <1>2, <2>1
  <2>6. WireAt(wire, d)'
    <3>1. /\ S # {} \/ server(d) \in open \/ conn = d => d <= made
          /\ SynFirst(wire[server(d)])
          /\ \A p \in S : p.kind # "answer"
          /\ \A p \in K : p.kind \in {"answer", "fin"}
          /\ client(d) \in open => conn = d
      BY <1>3 DEF WireAt
    <3> HIDE DEF S, K, Sn, Kn
    <3>2. /\ Sn # {} \/ server(d) \in open \/ conn = d => d <= made
          /\ \A p \in Sn : p.kind # "answer"
          /\ \A p \in Kn : p.kind \in {"answer", "fin"}
      BY <2>2, <3>1
    <3> QED BY <1>1, <2>3, <3>1, <3>2 DEF WireAt, Sn, Kn
  <2>7. ASSUME d \notin cut
        PROVE  ServerAt(wire, d)'
    <3>1. /\ (\E p \in S : p.kind = "fin") => conn # d
          /\ (server(d) \in open \/ \E p \in S : p.kind = "syn") /\ conn # d
               => \E p \in S : p.kind = "fin"
          /\ server(d) \in open => \/ \E p \in S : idle[server(d)] <= BeatInterval + p.age
                                   \/ conn = d /\ idle[server(d)] + beat_timer <= BeatInterval
      BY <1>3, <2>7 DEF ServerAt, Carries
    <3> HIDE DEF S, K, Sn, Kn
    <3>2. /\ (\E p \in Sn : p.kind = "fin") => conn # d
          /\ (server(d) \in open \/ \E p \in Sn : p.kind = "syn") /\ conn # d
               => \E p \in Sn : p.kind = "fin"
      BY <2>2, <3>1
    <3>3. ASSUME server(d) \in open
          PROVE  \/ \E p \in Sn : idle'[server(d)] <= BeatInterval + p.age
                 \/ conn = d /\ idle'[server(d)] + beat_timer' <= BeatInterval
      <4>1. CASE \E p \in S : idle[server(d)] <= BeatInterval + p.age
        <5>1. PICK p \in S : idle[server(d)] <= BeatInterval + p.age
          BY <4>1
        <5>2. PICK q \in Sn : q.age = p.age + 1
          BY <2>2
        <5>3. idle'[server(d)] <= BeatInterval + q.age
          BY <2>4, <2>5, <3>3, <5>1, <5>2, LiveNumbers
        <5> QED BY <5>3
      <4>2. CASE conn = d /\ idle[server(d)] + beat_timer <= BeatInterval
        BY <1>1, <1>3, <2>5, <3>3, <4>2, LiveNumbers
      <4> QED BY <3>1, <3>3, <4>1, <4>2
    <3> QED BY <1>1, <3>2, <3>3 DEF ServerAt, Carries, Sn
  <2>8. ASSUME d \notin cut
        PROVE  ClientAt(wire, d)'
    <3> SUFFICES ASSUME client(d) \in open
                 PROVE  /\ server(d) \in open \/ (\E p \in Sn : p.kind = "syn") \/ (\E p \in Kn : p.kind = "fin")
                        /\ \/ \E p \in Kn : idle'[client(d)] <= BeatInterval + Delay + p.age
                           \/ \E p \in Sn : p.kind = "beat" /\ idle'[client(d)] <= BeatInterval + p.age
                           \/ idle'[client(d)] + beat_timer' <= BeatInterval
      BY <1>1 DEF ClientAt, Carries
    <3>1. /\ server(d) \in open \/ (\E p \in S : p.kind = "syn") \/ (\E p \in K : p.kind = "fin")
          /\ \/ \E p \in K : idle[client(d)] <= BeatInterval + Delay + p.age
             \/ \E p \in S : p.kind = "beat" /\ idle[client(d)] <= BeatInterval + p.age
             \/ idle[client(d)] + beat_timer <= BeatInterval
      BY <1>3, <2>8 DEF ClientAt, Carries
    <3> HIDE DEF S, K, Sn, Kn
    <3>2. server(d) \in open \/ (\E p \in Sn : p.kind = "syn") \/ (\E p \in Kn : p.kind = "fin")
      BY <2>2, <3>1
    <3>3. CASE \E p \in K : idle[client(d)] <= BeatInterval + Delay + p.age
      <4>1. PICK p \in K : idle[client(d)] <= BeatInterval + Delay + p.age
        BY <3>3
      <4>2. PICK q \in Kn : q.age = p.age + 1
        BY <2>2
      <4>3. idle'[client(d)] <= BeatInterval + Delay + q.age
        BY <2>4, <2>5, <4>1, <4>2, LiveNumbers
      <4> QED BY <3>2, <4>3
    <3>4. CASE \E p \in S : p.kind = "beat" /\ idle[client(d)] <= BeatInterval + p.age
      <4>1. PICK p \in S : p.kind = "beat" /\ idle[client(d)] <= BeatInterval + p.age
        BY <3>4
      <4>2. PICK q \in Sn : q.kind = p.kind /\ q.age = p.age + 1
        BY <2>2
      <4>3. q.kind = "beat" /\ idle'[client(d)] <= BeatInterval + q.age
        BY <2>4, <2>5, <4>1, <4>2, LiveNumbers
      <4> QED BY <3>2, <4>3
    <3>5. CASE idle[client(d)] + beat_timer <= BeatInterval
      <4>1. idle'[client(d)] + beat_timer' <= BeatInterval
        BY <1>1, <1>3, <2>5, <3>5, LiveNumbers
      <4> QED BY <3>2, <4>1
    <3> QED BY <3>1, <3>3, <3>4, <3>5
  <2> QED BY <1>1, <2>6, <2>7, <2>8 DEF LiveAt
<1> QED BY <1>5, <1>6, <1>8 DEF AllLive

\* Nothing is wrong at first.
LEMMA InitLive == Init => LiveInv
<1> SUFFICES ASSUME Init PROVE LiveInv
  OBVIOUS
<1>1. /\ made = 0 /\ conn = None /\ open = {} /\ timedOut = {} /\ beat_timer = 0
      /\ wire = [e \in Ends |-> <<>>]
  BY DEF Init
<1>2. \A d \in Conns : server(d) \in Ends /\ client(d) \in Ends /\ d # None
  BY EndFacts DEF Conns, None
<1>3. wire \in [Ends -> Seq(Packet)]
  BY <1>1
<1>4. Under(<<>>) = {} /\ SynFirst(<<>>)
  BY DEF Under, SynFirst
<1>5. \A d \in Conns : wire[server(d)] = <<>> /\ wire[client(d)] = <<>>
  BY <1>1, <1>2
<1>6. \A d \in Conns : WireAt(wire, d)
  BY <1>1, <1>2, <1>4, <1>5 DEF WireAt
<1>7. \A d \in Conns : LiveAt(wire, d)
  BY <1>1, <1>4, <1>5 DEF LiveAt, ServerAt, ClientAt, Carries
<1> QED BY <1>1, <1>3, <1>6, <1>7, LiveNumbers DEF LiveInv, AllLive, TimedOutCut

\* Every step keeps the connections that carry their packets alive.
LEMMA StepLive == IInv /\ LiveInv /\ [Next]_vars => LiveInv'
<1> SUFFICES ASSUME IInv, LiveInv, [Next]_vars
             PROVE  LiveInv'
  OBVIOUS
<1>1. idle \in [Ends -> Nat] /\ made \in 0..MaxConns
  BY DEF IInv, ClocksOK, ConnOK
<1>2. AllLive /\ TimedOutCut /\ beat_timer \in 0..BeatInterval
  BY DEF LiveInv
<1>3. ASSUME UNCHANGED <<cut, timedOut>>
      PROVE  TimedOutCut'
  BY <1>2, <1>3 DEF TimedOutCut
<1>4. CASE Connect
  BY <1>1, <1>2, <1>3, <1>4, ConnectLive DEF Connect, LiveInv
<1>5. CASE Beat
  BY <1>1, <1>3, <1>5, BeatLive DEF Beat, LiveInv
<1>6. CASE Call \/ LookAgain \/ CallWritten \/ CallEnds \/ Push \/ TryWritten
             \/ UNCHANGED vars
  <2>1. UNCHANGED <<made, cut, beat_timer, conn, open, idle, wire, timedOut>>
    BY <1>6 DEF Call, LookAgain, CallWritten, CallEnds, Push, TryWritten, vars, connVars
  <2> QED BY <1>2, <1>3, <2>1, LiveUnchanged DEF LiveInv
<1>7. CASE TryEnds
  BY <1>2, <1>3, <1>7, TryEndsLive DEF TryEnds, LiveInv
<1>8. CASE Tick
  BY <1>1, <1>3, <1>8, TickLive DEF Tick, LiveInv
<1>9. ASSUME NEW e \in Ends, Deliver(e)
      PROVE  LiveInv'
  BY <1>1, <1>2, <1>3, <1>9, DeliverLive DEF Deliver, LiveInv
<1>10. ASSUME NEW e \in Ends, Check(e)
       PROVE  LiveInv'
  BY <1>1, <1>2, <1>10, CheckLive DEF Check, LiveInv
<1>11. ASSUME NEW e \in Ends, ReadFails(e)
       PROVE  LiveInv'
  BY <1>1, <1>2, <1>3, <1>11, GivenUpLive DEF ReadFails, LiveInv
<1>12. ASSUME NEW c \in Conns, Cut(c)
       PROVE  LiveInv'
  BY <1>2, <1>12, CutLive DEF Cut, LiveInv
<1> QED BY <1>4, <1>5, <1>6, <1>7, <1>8, <1>9, <1>10, <1>11, <1>12 DEF Next

\* A connection that carries its packets is never given up by the check of either end,
\* and its server knows whose it is within a heartbeat and a packet's way
\* (connection.hpp:125-143, tcp_client.hpp:182-194).
THEOREM LiveStaysKept == Spec => []LiveIsKept
<1>1. IInv /\ LiveInv => LiveIsKept
  <2> SUFFICES ASSUME IInv, LiveInv PROVE LiveIsKept
    OBVIOUS
  <2>1. \A e \in timedOut : e[2] \in cut
    BY DEF LiveInv, TimedOutCut
  <2>2. ASSUME NEW c \in Conns \ (named \cup cut), server(c) \in open
        PROVE  idle[server(c)] <= BeatInterval + Delay
    <3>1. /\ ServerAt(wire, c) /\ beat_timer \in 0..BeatInterval
          /\ wire \in [Ends -> Seq(Packet)]
      BY DEF LiveInv, AllLive, LiveAt
    <3>2. server(c) \in Ends /\ idle[server(c)] \in Nat
      BY EndFacts DEF IInv, ClocksOK
    <3>3. \A p \in Under(wire[server(c)]) : p.age \in 0..Delay
      <4>1. \A p \in Under(wire[server(c)]) : p \in Packet
        BY <3>1, <3>2 DEF Under
      <4> QED BY <4>1, LiveNumbers
    <3>4. \/ \E p \in Under(wire[server(c)]) : idle[server(c)] <= BeatInterval + p.age
          \/ idle[server(c)] + beat_timer <= BeatInterval
      BY <2>2, <3>1 DEF ServerAt
    <3> QED BY <3>1, <3>2, <3>3, <3>4, LiveNumbers
  <2> QED BY <2>1, <2>2 DEF LiveIsKept, server
<1>2. Init => LiveInv
  BY InitLive
<1>3. IInv /\ LiveInv /\ [Next]_vars => LiveInv'
  BY StepLive
<1>4. Spec => []IInv
  BY Invariance
<1> QED BY <1>1, <1>2, <1>3, <1>4, PTL DEF Spec

=============================================================================
