-------------------------- MODULE ConnectionProofs --------------------------
(***************************************************************************)
(* Proofs about Connection, for any number of callers, retries and packets *)
(* of the peer, on either side.                                            *)
(***************************************************************************)
EXTENDS Connection, SequenceTheorems, FunctionTheorems, FiniteSetTheorems, TLAPS

Places == {"idle"} \cup InCall \cup Returned

\* An object that is gone keeps no packet, no entry and nobody suspended in it.
DeadHoldsNothing ==
  ~Alive => /\ inp = <<>> /\ requests = {}
            /\ \A c \in Callers : pc[c] \notin {"writing", "waiting"}

CalledOnce == \A c \in Callers : pc[c] # "idle" => tries[c] >= 1

\* What the callers, their entries and the object's life have to do with each
\* other: what Settle re-establishes.
CallerInv ==
  /\ owned \in BOOLEAN
  /\ pc \in [Callers -> Places]
  /\ requests \in SUBSET Callers
  /\ inp \in Seq(Packet)
  /\ DeadHoldsNothing /\ WaiterCanBeWoken
  /\ LeftoverOnlyFromTimeout /\ CalledOnce

\* Each of the two loops reports at most once, and ends with its report.
ReportsLeft ==
  reports + (IF rx = "ended" THEN 0 ELSE 1) + (IF ck = "ended" THEN 0 ELSE 1) <= 2

\* The loops start together, and a cancelled check finds the receive loop ended.
LoopsPaired == /\ rx = "posted" <=> ck = "posted"
               /\ ck = "cancelled" => rx = "ended"

\* A client that was told, or whose receive loop winds down, has let go.
ClientTold ==
  Side = "client" => /\ reports <= 1
                     /\ reports = 1 => ~owned
                     /\ rx \in {"cancelled", "draining", "ended"} => ~owned

\* The two loops and what they have reported.
LoopInv ==
  /\ rx \in {"posted", "reading", "cancelled", "draining", "ended"}
  /\ ck \in {"posted", "sleeping", "cancelled", "ended"}
  /\ reports \in 0..2
  /\ ReportsLeft /\ LoopsPaired /\ ClientTold

\* The types of the rest.
OtherType ==
  /\ device_id_ \in {"none", "own", "other"}
  /\ tries \in [Callers -> 0..MaxTries]
  /\ unanswered \in [Callers -> Nat]
  /\ peer \in {"open", "stalled", "closed"}
  /\ peerSent \in 0..MaxPeerPackets

IInv == CallerInv /\ LoopInv /\ OtherType /\ StrayUseOnlyAtStart

\* Settle leaves the callers, the map and the object's life in order if its
\* arguments are.
LEMMA SettleKeeps ==
  ASSUME NEW own \in BOOLEAN, NEW at \in [Callers -> Places],
         NEW req \in SUBSET Callers, NEW q \in Seq(Packet),
         Settle(own, at, req, q), tries' = tries,
         \A c \in Callers : at[c] = "waiting" => c \in req,
         \A c \in req : at[c] \in {"waiting", "replied", "timeout_error"} \/ tries[c] > 1,
         \A c \in Callers : at[c] # "idle" => tries[c] >= 1
  PROVE  CallerInv' /\ owned' = own
<1>1. CASE own \/ Held(at)
  <2>1. owned' = own /\ pc' = at /\ requests' = req /\ inp' = q
    BY <1>1 DEF Settle
  <2>2. Alive'
    BY <1>1, <2>1 DEF Alive, Held
  <2> QED
    BY <2>1, <2>2 DEF CallerInv, DeadHoldsNothing, WaiterCanBeWoken,
                      LeftoverOnlyFromTimeout, CalledOnce
<1>2. CASE ~(own \/ Held(at))
  <2>1. /\ owned' = own /\ requests' = {} /\ inp' = <<>>
        /\ pc' = [c \in Callers |-> IF at[c] \in {"writing", "waiting"}
                                    THEN "system_error" ELSE at[c]]
    BY <1>2 DEF Settle
  <2>2. /\ pc' \in [Callers -> Places]
        /\ \A c \in Callers : pc'[c] \notin {"writing", "waiting"}
    BY <2>1 DEF Places, InCall, Returned
  <2>3. \A c \in Callers : pc'[c] # "idle" => tries'[c] >= 1
    BY <2>1
  <2>4. inp' \in Seq(Packet)
    BY <2>1
  <2> QED
    BY <2>1, <2>2, <2>3, <2>4 DEF CallerInv, DeadHoldsNothing, WaiterCanBeWoken,
                      LeftoverOnlyFromTimeout, CalledOnce
<1> QED BY <1>1, <1>2

\* The same for a step that touches nothing of it.
LEMMA UntouchedKeeps ==
  ASSUME CallerInv, UNCHANGED <<owned, pc, requests, inp, tries>>
  PROVE  CallerInv'
  BY DEF CallerInv, DeadHoldsNothing, WaiterCanBeWoken, LeftoverOnlyFromTimeout,
         CalledOnce, Alive, Held

\* Nobody but start's handler uses the object without knowing it is there.
LEMMA UseWhenAlive ==
  ASSUME NEW who, Alive, Use(who)
  PROVE  strayUse' = strayUse
  BY DEF Use

\* The loops stay in order when only the owner's reference goes.
LEMMA LoopsUntouched ==
  ASSUME LoopInv, UNCHANGED <<rx, ck, reports>>, owned' = owned \/ owned' = FALSE
  PROVE  LoopInv'
  BY DEF LoopInv, ReportsLeft, LoopsPaired, ClientTold

\* A client's connection lives as long as the client holds it.
LEMMA ClientAlive == Side = "client" => (Alive <=> owned)
  BY DEF Alive, Held

\* The invariant holds of a connection just constructed.
LEMMA InitInv == Init => IInv
<1> SUFFICES ASSUME Init PROVE IInv
  OBVIOUS
<1>1. Alive /\ inp \in Seq(Packet)
  BY DEF Init, Alive
<1>2. CallerInv
  BY <1>1 DEF Init, CallerInv, Places, DeadHoldsNothing, WaiterCanBeWoken,
              LeftoverOnlyFromTimeout, CalledOnce
<1>3. LoopInv
  BY DEF Init, LoopInv, ReportsLeft, LoopsPaired, ClientTold
<1>4. OtherType
  BY ConnectionAssumption DEF Init, OtherType
<1>5. StrayUseOnlyAtStart
  BY DEF Init, StrayUseOnlyAtStart
<1> QED BY <1>2, <1>3, <1>4, <1>5 DEF IInv

-----------------------------------------------------------------------------
(* The steps of the callers.                                               *)

LEMMA CallInv == ASSUME IInv, NEW c \in Callers, Call(c) PROVE IInv'
<1> USE DEF IInv
<1>1. Alive /\ Alive'
  BY DEF Call, Alive
<1>2. CallerInv'
  <2>1. /\ pc' \in [Callers -> Places] /\ pc'[c] = "writing"
        /\ \A d \in Callers \ {c} : pc'[d] = pc[d]
    BY DEF Call, CallerInv, Places, InCall
  <2>2. /\ tries'[c] = tries[c] + 1 /\ tries[c] \in Nat
        /\ \A d \in Callers \ {c} : tries'[d] = tries[d]
    BY ConnectionAssumption DEF Call, OtherType
  <2>3. CalledOnce'
    BY <2>1, <2>2 DEF CalledOnce, CallerInv
  <2>4. LeftoverOnlyFromTimeout'
    <3> SUFFICES ASSUME NEW d \in requests'
                 PROVE  \/ pc'[d] \in {"waiting", "replied", "timeout_error"}
                        \/ tries'[d] > 1
      BY DEF LeftoverOnlyFromTimeout
    <3>1. requests' = requests /\ d \in Callers
      BY DEF Call, CallerInv
    <3>2. CASE d # c
      BY <2>1, <2>2, <3>1, <3>2 DEF CallerInv, LeftoverOnlyFromTimeout
    <3>3. CASE d = c
      <4>1. pc[c] # "idle" => tries[c] >= 1
        BY DEF CallerInv, CalledOnce
      <4>2. pc[c] = "idle" => tries[c] > 1
        BY <3>1, <3>3 DEF CallerInv, LeftoverOnlyFromTimeout
      <4> QED BY <2>2, <3>3, <4>1, <4>2
    <3> QED BY <3>2, <3>3
  <2> QED
    BY <1>1, <2>1, <2>3, <2>4 DEF Call, CallerInv, DeadHoldsNothing, WaiterCanBeWoken
<1>3. LoopInv'
  BY LoopsUntouched DEF Call
<1>4. OtherType'
  BY ConnectionAssumption DEF Call, OtherType, peerVars
<1> QED BY <1>2, <1>3, <1>4 DEF Call, StrayUseOnlyAtStart

LEMMA WriteInv == ASSUME IInv, NEW c \in Callers, Write(c) PROVE IInv'
<1> USE DEF IInv
<1>1. /\ pc' \in [Callers -> Places] /\ pc[c] = "writing" /\ pc'[c] = "written"
      /\ \A d \in Callers \ {c} : pc'[d] = pc[d]
  BY DEF Write, CallerInv, Places, InCall
<1>2. Alive
  BY <1>1 DEF CallerInv, DeadHoldsNothing
<1>3. Alive'
  BY <1>1, <1>2 DEF Write, Alive, Held, InCall
<1>4. CallerInv'
  BY <1>1, <1>3 DEF Write, CallerInv, DeadHoldsNothing, WaiterCanBeWoken, CalledOnce,
                    LeftoverOnlyFromTimeout
<1>5. LoopInv'
  BY LoopsUntouched DEF Write
<1>6. OtherType'
  BY DEF Write, OtherType
<1> QED BY <1>4, <1>5, <1>6 DEF Write, StrayUseOnlyAtStart

\* A caller's step that only moves it, from a place in the call to a later one,
\* and settles.
LEMMA MoveKeeps ==
  ASSUME IInv, NEW c \in Callers, NEW p \in Places, NEW req \in SUBSET requests,
         pc[c] # "idle", p # "waiting", UNCHANGED tries,
         Settle(owned, [pc EXCEPT ![c] = p], req, inp),
         \A d \in Callers \ {c} : d \in requests => d \in req,
         c \in req => p = "timeout_error" \/ tries[c] > 1
  PROVE  CallerInv' /\ owned' = owned
<1> USE DEF IInv
<1> DEFINE at == [pc EXCEPT ![c] = p]
<1>1. /\ at \in [Callers -> Places] /\ at[c] = p
      /\ \A d \in Callers \ {c} : at[d] = pc[d]
  BY DEF CallerInv
<1>2. /\ owned \in BOOLEAN /\ req \in SUBSET Callers /\ inp \in Seq(Packet)
  BY DEF CallerInv
<1>3. \A d \in Callers : at[d] = "waiting" => d \in req
  BY <1>1 DEF CallerInv, WaiterCanBeWoken
<1>4. \A d \in req : at[d] \in {"waiting", "replied", "timeout_error"} \/ tries[d] > 1
  BY <1>1 DEF CallerInv, LeftoverOnlyFromTimeout
<1>5. \A d \in Callers : at[d] # "idle" => tries[d] >= 1
  BY <1>1 DEF CallerInv, CalledOnce
<1>6. Settle(owned, at, req, inp)
  OBVIOUS
<1> HIDE DEF at
<1> QED BY <1>1, <1>2, <1>3, <1>4, <1>5, <1>6, SettleKeeps

LEMMA WriteFailsInv == ASSUME IInv, NEW c \in Callers, WriteFails(c) PROVE IInv'
<1> USE DEF IInv
<1>1. "system_error" \in Places
  BY DEF Places, Returned
<1>2. c \in requests => tries[c] > 1
  BY DEF WriteFails, CallerInv, LeftoverOnlyFromTimeout
<1>3. CallerInv' /\ owned' = owned
  BY <1>1, <1>2, MoveKeeps DEF WriteFails
<1>4. LoopInv'
  BY <1>3, LoopsUntouched DEF WriteFails
<1> QED BY <1>3, <1>4 DEF WriteFails, OtherType, peerVars, StrayUseOnlyAtStart

LEMMA RegisterInv == ASSUME IInv, NEW c \in Callers, Register(c) PROVE IInv'
<1> USE DEF IInv
<1>1. CASE Alive
  <2>1. /\ pc' \in [Callers -> Places] /\ pc[c] = "written" /\ pc'[c] = "waiting"
        /\ \A d \in Callers \ {c} : pc'[d] = pc[d]
    BY <1>1 DEF Register, SenderLocks, CallerInv, Places, InCall
  <2>2. /\ requests' = requests \cup {c} /\ owned' = owned /\ inp' = inp
        /\ tries' = tries /\ strayUse' = strayUse
    BY <1>1 DEF Register, SenderLocks, Registered, Use
  <2>3. Alive'
    BY <1>1, <2>1, <2>2 DEF Alive, Held, InCall
  <2>4. CallerInv'
    BY <2>1, <2>2, <2>3 DEF CallerInv, DeadHoldsNothing, WaiterCanBeWoken, CalledOnce,
                            LeftoverOnlyFromTimeout
  <2>5. LoopInv'
    BY <2>2, LoopsUntouched DEF Register
  <2> QED BY <2>2, <2>4, <2>5 DEF Register, OtherType, peerVars, StrayUseOnlyAtStart
<1>2. CASE ~Alive
  <2>1. "invalid_state_error" \in Places
    BY DEF Places, Returned
  <2>2. /\ pc[c] = "written" /\ UNCHANGED tries
        /\ Settle(owned, [pc EXCEPT ![c] = "invalid_state_error"], requests, inp)
    BY <1>2 DEF Register, SenderLocks
  <2>3. c \in requests => tries[c] > 1
    BY <2>2 DEF CallerInv, LeftoverOnlyFromTimeout
  <2>4. CallerInv' /\ owned' = owned
    BY <2>1, <2>2, <2>3, MoveKeeps
  <2>5. LoopInv'
    BY <2>4, LoopsUntouched DEF Register
  <2> QED
    BY <1>2, <2>4, <2>5 DEF Register, SenderLocks, OtherType, peerVars, StrayUseOnlyAtStart
<1> QED BY <1>1, <1>2

LEMMA TimerInv == ASSUME IInv, NEW c \in Callers, TimerFires(c) PROVE IInv'
<1> USE DEF IInv
<1>1. "timeout_error" \in Places
  BY DEF Places, Returned
<1>2. CallerInv' /\ owned' = owned
  BY <1>1, MoveKeeps DEF TimerFires, TimerRuns, AfterTimeout
<1>3. LoopInv'
  BY <1>2, LoopsUntouched DEF TimerFires
<1> QED BY <1>2, <1>3 DEF TimerFires, OtherType, peerVars, StrayUseOnlyAtStart

LEMMA ReturnInv == ASSUME IInv, NEW c \in Callers, Return(c) PROVE IInv'
<1> USE DEF IInv
<1>1. "ok" \in Places
  BY DEF Places, Returned
<1>2. CallerInv' /\ owned' = owned
  BY <1>1, MoveKeeps DEF Return, AfterReturn
<1>3. LoopInv'
  BY <1>2, LoopsUntouched DEF Return
<1> QED
  BY <1>2, <1>3 DEF Return, EraserLocks, OtherType, peerVars, StrayUseOnlyAtStart

-----------------------------------------------------------------------------
(* The owner, the loops and the peer.                                      *)

\* The owner or a report lets go while callers and entries stay as they are.
LEMMA ReleaseKeeps ==
  ASSUME IInv, NEW own \in BOOLEAN, NEW q \in Seq(Packet), UNCHANGED tries,
         Settle(own, pc, requests, q)
  PROVE  CallerInv' /\ owned' = own
  BY SettleKeeps
     DEF IInv, CallerInv, WaiterCanBeWoken, LeftoverOnlyFromTimeout, CalledOnce

LEMMA OwnerReleasesInv == ASSUME IInv, OwnerReleases PROVE IInv'
<1> USE DEF IInv
<1>1. CallerInv' /\ owned' = FALSE
  BY ReleaseKeeps DEF OwnerReleases, CallerInv
<1>2. LoopInv'
  BY <1>1, LoopsUntouched DEF OwnerReleases
<1> QED BY <1>1, <1>2 DEF OwnerReleases, OtherType, peerVars, StrayUseOnlyAtStart

LEMMA StartInv == ASSUME IInv, Start PROVE IInv'
<1> USE DEF IInv
<1>1. CallerInv'
  BY UntouchedKeeps DEF Start
<1>2. LoopInv'
  BY ClientAlive DEF Start, LoopInv, ReportsLeft, LoopsPaired, ClientTold
<1> QED BY <1>1, <1>2 DEF Start, Use, OtherType, peerVars, StrayUseOnlyAtStart

\* A report of a loop that ends with it: told once more, and let go.
LEMMA ReportKeeps ==
  ASSUME IInv, NEW q \in Seq(Packet), OnDisconnected(q), UNCHANGED tries, Alive
  PROVE  /\ CallerInv' /\ owned' = FALSE /\ reports' = reports + 1
         /\ Side = "client" => reports = 0
<1>1. CallerInv' /\ owned' = FALSE
  BY ReleaseKeeps DEF OnDisconnected
<1>2. Side = "client" => reports = 0
  BY ClientAlive DEF IInv, LoopInv, ClientTold
<1> QED BY <1>1, <1>2 DEF OnDisconnected

LEMMA ReceivePacketInv == ASSUME IInv, ReceivePacket PROVE IInv'
<1> USE DEF IInv
<1> DEFINE p == Head(inp)
           accepts == p.dev # "none" /\ device_id_ \in {"none", p.dev}
<1>1. /\ inp \in Seq(Packet) /\ inp # <<>> /\ Tail(inp) \in Seq(Packet) /\ p \in Packet
  BY HeadTailProperties DEF ReceivePacket, CallerInv
<1>2. Alive
  BY <1>1 DEF CallerInv, DeadHoldsNothing
<1>3. UNCHANGED <<tries, unanswered, peer, peerSent, strayUse>>
  BY <1>2, UseWhenAlive DEF ReceivePacket, peerVars
<1>4. OtherType'
  BY <1>1, <1>3 DEF ReceivePacket, OtherType, Packet
<1>5. CASE p.dev # "none" /\ ~accepts
  <2>1. /\ OnDisconnected(Tail(inp)) /\ rx' = "ended"
        /\ rx \in {"reading", "cancelled", "draining"}
        /\ ck' = IF ck = "sleeping" THEN "cancelled" ELSE ck
    BY <1>5 DEF ReceivePacket
  <2>2. /\ CallerInv' /\ owned' = FALSE /\ reports' = reports + 1
        /\ Side = "client" => reports = 0
    BY <1>1, <1>2, <1>3, <2>1, ReportKeeps
  <2>3. LoopInv'
    BY <2>1, <2>2 DEF LoopInv, ReportsLeft, LoopsPaired, ClientTold
  <2> QED BY <1>3, <1>4, <2>2, <2>3 DEF StrayUseOnlyAtStart
<1>6. CASE ~(p.dev # "none" /\ ~accepts)
  <2> DEFINE at == IF accepts THEN Answered(p) ELSE pc
  <2>1. /\ Settle(owned, at, requests, Tail(inp)) /\ UNCHANGED <<ck, reports>>
        /\ rx \in {"reading", "cancelled", "draining"}
        /\ rx' = IF rx = "cancelled" THEN "draining" ELSE rx
    BY <1>6 DEF ReceivePacket
  <2>2. at \in [Callers -> Places]
    BY DEF Answered, CallerInv, Places, InCall
  <2>3. \A d \in Callers : \/ at[d] = pc[d]
                           \/ pc[d] = "waiting" /\ at[d] = "replied"
    BY DEF Answered, CallerInv
  <2>4. owned \in BOOLEAN /\ requests \in SUBSET Callers
    BY DEF CallerInv
  <2>5. \A d \in Callers : at[d] = "waiting" => d \in requests
    BY <2>3 DEF CallerInv, WaiterCanBeWoken
  <2>6. \A d \in requests :
          at[d] \in {"waiting", "replied", "timeout_error"} \/ tries[d] > 1
    BY <2>3, <2>4 DEF CallerInv, LeftoverOnlyFromTimeout
  <2>7. \A d \in Callers : at[d] # "idle" => tries[d] >= 1
    BY <2>3 DEF CallerInv, CalledOnce
  <2> HIDE DEF at
  <2>8. CallerInv' /\ owned' = owned
    BY <1>1, <1>3, <2>1, <2>2, <2>4, <2>5, <2>6, <2>7, SettleKeeps
  <2>9. LoopInv'
    BY <2>1, <2>8 DEF LoopInv, ReportsLeft, LoopsPaired, ClientTold
  <2> QED BY <1>3, <1>4, <2>8, <2>9 DEF StrayUseOnlyAtStart
<1> QED BY <1>5, <1>6

LEMMA ReadFailsInv == ASSUME IInv, ReadFails PROVE IInv'
<1> USE DEF IInv
<1>1. CASE Alive
  <2>1. /\ OnDisconnected(inp) /\ inp \in Seq(Packet) /\ strayUse' = strayUse
        /\ rx \in {"reading", "cancelled"} /\ rx' = "ended"
        /\ ck' = IF ck = "sleeping" THEN "cancelled" ELSE ck
    BY <1>1, UseWhenAlive DEF ReadFails, ReadAborts, ReaderLocks, CallerInv
  <2>2. /\ CallerInv' /\ owned' = FALSE /\ reports' = reports + 1
        /\ Side = "client" => reports = 0
    BY <1>1, <2>1, ReportKeeps DEF ReadFails
  <2>3. LoopInv'
    BY <2>1, <2>2 DEF LoopInv, ReportsLeft, LoopsPaired, ClientTold
  <2> QED
    BY <2>1, <2>2, <2>3 DEF ReadFails, OtherType, peerVars, StrayUseOnlyAtStart
<1>2. CASE ~Alive
  <2>1. /\ UNCHANGED <<owned, pc, requests, inp, reports, strayUse, tries>>
        /\ rx \in {"reading", "cancelled"} /\ rx' = "ended"
        /\ ck' = IF ck = "sleeping" THEN "cancelled" ELSE ck
    BY <1>2 DEF ReadFails, ReadAborts, ReaderLocks
  <2>2. CallerInv'
    BY <2>1, UntouchedKeeps
  <2>3. LoopInv'
    BY <1>2, <2>1, ClientAlive
       DEF LoopInv, ReportsLeft, LoopsPaired, ClientTold
  <2> QED
    BY <2>1, <2>2, <2>3 DEF ReadFails, OtherType, peerVars, StrayUseOnlyAtStart
<1> QED BY <1>1, <1>2

LEMMA DrainEndsInv == ASSUME IInv, DrainEnds PROVE IInv'
<1> USE DEF IInv
<1>1. CallerInv'
  BY UntouchedKeeps DEF DrainEnds
<1>2. LoopInv'
  BY DEF DrainEnds, LoopInv, ReportsLeft, LoopsPaired, ClientTold
<1> QED BY <1>1, <1>2 DEF DrainEnds, OtherType, peerVars, StrayUseOnlyAtStart

LEMMA CheckExpiresInv == ASSUME IInv, CheckExpires PROVE IInv'
<1> USE DEF IInv
<1>1. /\ Alive /\ OnDisconnected(inp) /\ inp \in Seq(Packet) /\ strayUse' = strayUse
      /\ ck \in {"sleeping", "cancelled"} /\ ck' = "ended"
      /\ rx' = IF rx = "reading" THEN "cancelled" ELSE rx
  BY UseWhenAlive DEF CheckExpires, CheckLocks, CallerInv
<1>2. /\ CallerInv' /\ owned' = FALSE /\ reports' = reports + 1
      /\ Side = "client" => reports = 0
  BY <1>1, ReportKeeps DEF CheckExpires
<1>3. LoopInv'
  BY <1>1, <1>2 DEF LoopInv, ReportsLeft, LoopsPaired, ClientTold
<1> QED
  BY <1>1, <1>2, <1>3 DEF CheckExpires, OtherType, peerVars, StrayUseOnlyAtStart

LEMMA CheckStopsInv == ASSUME IInv, CheckStops PROVE IInv'
<1> USE DEF IInv
<1>1. CallerInv'
  BY UntouchedKeeps DEF CheckStops
<1>2. LoopInv'
  BY ClientAlive DEF CheckStops, CheckLocks, LoopInv, ReportsLeft, LoopsPaired,
                     ClientTold
<1> QED BY <1>1, <1>2 DEF CheckStops, OtherType, peerVars, StrayUseOnlyAtStart

\* A packet on its way reaches only an object that is there.
LEMMA ArrivalKeeps ==
  ASSUME IInv, Alive, NEW p \in Packet, inp' = Append(inp, p),
         UNCHANGED <<owned, pc, requests, tries>>
  PROVE  CallerInv'
<1>1. inp' \in Seq(Packet)
  BY DEF IInv, CallerInv
<1>2. Alive'
  BY DEF Alive, Held
<1> QED
  BY <1>1, <1>2 DEF IInv, CallerInv, DeadHoldsNothing, WaiterCanBeWoken, CalledOnce,
                    LeftoverOnlyFromTimeout

LEMMA PeerStepInv == ASSUME IInv, PeerStep PROVE IInv'
<1> USE DEF IInv
<1>1. ASSUME NEW c \in Callers, PeerReplies(c) PROVE IInv'
  <2>1. [rsp |-> TRUE, dev |-> "own", id |-> c] \in Packet
    BY DEF Packet
  <2>2. CallerInv'
    BY <1>1, <2>1, ArrivalKeeps DEF PeerReplies
  <2>3. LoopInv'
    BY <1>1, LoopsUntouched DEF PeerReplies
  <2>4. OtherType'
    BY <1>1 DEF PeerReplies, OtherType
  <2> QED BY <1>1, <2>2, <2>3, <2>4 DEF PeerReplies, StrayUseOnlyAtStart
<1>2. ASSUME NEW c \in Callers, NEW d \in {"none", "own", "other"}, PeerSends(c, d)
      PROVE  IInv'
  <2>1. [rsp |-> FALSE, dev |-> d, id |-> c] \in Packet
    BY DEF Packet
  <2>2. CallerInv'
    BY <1>2, <2>1, ArrivalKeeps DEF PeerSends
  <2>3. LoopInv'
    BY <1>2, LoopsUntouched DEF PeerSends
  <2>4. OtherType'
    BY <1>2, ConnectionAssumption DEF PeerSends, OtherType
  <2> QED BY <1>2, <2>2, <2>3, <2>4 DEF PeerSends, StrayUseOnlyAtStart
<1>3. ASSUME NEW how \in {"stalled", "closed"}, PeerStops(how) PROVE IInv'
  <2>1. CallerInv'
    BY <1>3, UntouchedKeeps DEF PeerStops
  <2>2. LoopInv'
    BY <1>3, LoopsUntouched DEF PeerStops
  <2> QED BY <1>3, <2>1, <2>2 DEF PeerStops, OtherType, StrayUseOnlyAtStart
<1> QED BY <1>1, <1>2, <1>3 DEF PeerStep

-----------------------------------------------------------------------------
(* The theorems.                                                           *)

\* Every step keeps the invariant.
LEMMA NextInv == IInv /\ [Next]_vars => IInv'
<1> SUFFICES ASSUME IInv, [Next]_vars PROVE IInv'
  OBVIOUS
<1>1. ASSUME NEW c \in Callers, CallerStep(c) PROVE IInv'
  BY <1>1, CallInv, WriteInv, WriteFailsInv, RegisterInv, TimerInv, ReturnInv
     DEF CallerStep
<1>2. CASE UNCHANGED vars
  <2>1. CallerInv'
    BY <1>2, UntouchedKeeps DEF vars, IInv
  <2>2. LoopInv'
    BY <1>2, LoopsUntouched DEF vars, IInv
  <2> QED BY <1>2, <2>1, <2>2 DEF vars, IInv, OtherType, StrayUseOnlyAtStart
<1> QED
  BY <1>1, <1>2, OwnerReleasesInv, StartInv, ReceivePacketInv, ReadFailsInv,
     DrainEndsInv, CheckExpiresInv, CheckStopsInv, PeerStepInv DEF Next

\* The inductive invariant.
THEOREM Invariance == Spec => []IInv
  BY InitInv, NextInv, PTL DEF Spec

\* Every variable of a connection keeps its type.
THEOREM TypeCorrect == Spec => []TypeOK
<1>1. IInv => TypeOK
  BY DEF IInv, CallerInv, LoopInv, OtherType, StrayUseOnlyAtStart, Places, TypeOK
<1> QED BY <1>1, Invariance, PTL

\* A suspended caller has its channel in the map of a living object, whatever
\* timeouts, retries and disconnections went before (connection.hpp:98-102).
THEOREM WaiterSafe == Spec => []WaiterCanBeWoken
<1>1. IInv => WaiterCanBeWoken
  BY DEF IInv, CallerInv
<1> QED BY <1>1, Invariance, PTL

\* The lock checks after each co_await suffice: past start() no coroutine touches
\* an object that is gone (connection.hpp:92, 108, 131, 165).
THEOREM NoStrayUse == Spec => []StrayUseOnlyAtStart
<1>1. IInv => StrayUseOnlyAtStart
  BY DEF IInv
<1> QED BY <1>1, Invariance, PTL

\* on_disconnected is called once at most for a client, twice for a server.
THEOREM ReportsBounded == Spec => []ReportBound
<1>1. IInv => ReportBound
  BY DEF IInv, LoopInv, ClientTold, ReportBound
<1> QED BY <1>1, Invariance, PTL

\* Only a timeout leaves an entry behind in requests.
THEOREM OnlyTimeoutLeaves == Spec => []LeftoverOnlyFromTimeout
<1>1. IInv => LeftoverOnlyFromTimeout
  BY DEF IInv, CallerInv
<1> QED BY <1>1, Invariance, PTL

\* No request of a client waits on a connection nobody reads.
THEOREM ClientWaiterRead == ASSUME Side = "client" PROVE Spec => []WaiterHasReader
<1>1. IInv => WaiterHasReader
  <2> SUFFICES ASSUME IInv, NEW c \in Callers, pc[c] = "waiting" PROVE rx # "ended"
    BY DEF WaiterHasReader
  <2>1. Alive
    BY DEF IInv, CallerInv, WaiterCanBeWoken
  <2> QED BY <2>1, ClientAlive DEF IInv, LoopInv, ClientTold
<1> QED BY <1>1, Invariance, PTL

-----------------------------------------------------------------------------
(* The connection implements the promise.                                  *)

\* The replies to c among the packets of q.
In(q, c) == {i \in DOMAIN q : q[i].rsp /\ q[i].id = c}

\* What the mapping shows of a state.
Status == [c \in Callers |-> StatusOf(pc[c])]
Replies == [c \in Callers |-> Cardinality(RepliesTo(c))]

\* A finite number of packets, none on an empty wire.
LEMMA RepliesAreFinite ==
  ASSUME NEW q \in Seq(Packet), NEW c \in Callers
  PROVE  IsFiniteSet(In(q, c)) /\ Cardinality(In(q, c)) \in Nat
<1>1. IsFiniteSet(1..Len(q)) /\ In(q, c) \in SUBSET (1..Len(q))
  BY FS_Interval DEF In
<1> QED BY <1>1, FS_Subset, FS_CardinalityType

\* A packet that arrives is one reply more to whom it answers, and to nobody else.
LEMMA ArrivalCounts ==
  ASSUME NEW q \in Seq(Packet), NEW p \in Packet, NEW c \in Callers
  PROVE  Cardinality(In(Append(q, p), c)) =
           IF p.rsp /\ p.id = c THEN Cardinality(In(q, c)) + 1 ELSE Cardinality(In(q, c))
<1> DEFINE r == Append(q, p)
           n == Len(q) + 1
<1>1. /\ r \in Seq(Packet) /\ Len(r) = n /\ r[n] = p
      /\ \A i \in 1..Len(q) : r[i] = q[i]
  OBVIOUS
<1>2. DOMAIN q = 1..Len(q) /\ DOMAIN r = 1..n /\ n \notin 1..Len(q)
      /\ 1..n = 1..Len(q) \cup {n}
  BY <1>1
<1> HIDE DEF r, n
<1>3. In(r, c) = IF p.rsp /\ p.id = c THEN In(q, c) \cup {n} ELSE In(q, c)
  <2>1. \A i \in 1..Len(q) : i \in In(r, c) <=> i \in In(q, c)
    BY <1>1, <1>2 DEF In
  <2>2. n \in In(r, c) <=> p.rsp /\ p.id = c
    BY <1>1, <1>2 DEF In
  <2>3. In(r, c) \subseteq 1..n /\ In(q, c) \subseteq 1..Len(q)
    BY <1>2 DEF In
  <2>4. \A i : i \in In(r, c) <=> i \in In(q, c) \/ (i = n /\ p.rsp /\ p.id = c)
    BY <1>2, <2>1, <2>2, <2>3
  <2> HIDE DEF In
  <2> QED BY <2>4
<1>4. n \notin In(q, c)
  BY <1>2 DEF In
<1>5. Cardinality(In(q, c) \cup {n}) = Cardinality(In(q, c)) + 1
  BY <1>4, RepliesAreFinite, FS_AddElement
<1> QED BY <1>3, <1>5 DEF r

\* The packet read is one reply less to whom it answers, and to nobody else.
LEMMA ReadCounts ==
  ASSUME NEW q \in Seq(Packet), q # <<>>, NEW c \in Callers
  PROVE  LET p == Head(q)
         IN  Cardinality(In(q, c)) =
               IF p.rsp /\ p.id = c THEN Cardinality(In(Tail(q), c)) + 1
                                    ELSE Cardinality(In(Tail(q), c))
<1> DEFINE r == Tail(q)
           moved == {i + 1 : i \in In(r, c)}
           shift == [i \in In(r, c) |-> i + 1]
<1>1. /\ r \in Seq(Packet) /\ Len(r) = Len(q) - 1 /\ Len(q) \in Nat /\ Len(q) >= 1
      /\ \A i \in 1..Len(r) : r[i] = q[i + 1]
      /\ Head(q) = q[1] /\ DOMAIN q = 1..Len(q) /\ DOMAIN r = 1..Len(r)
  OBVIOUS
<1>2. In(r, c) \subseteq 1..Len(r)
  BY <1>1 DEF In
<1>3. shift \in Bijection(In(r, c), moved)
  BY <1>2 DEF Bijection, Injection, Surjection, IsInjective
<1>4. IsFiniteSet(moved) /\ Cardinality(moved) = Cardinality(In(r, c))
  <2>1. ExistsBijection(In(r, c), moved)
    BY <1>3 DEF ExistsBijection
  <2>2. IsFiniteSet(In(r, c))
    BY <1>1, RepliesAreFinite
  <2> HIDE DEF moved, r
  <2> QED BY <2>1, <2>2, FS_Bijection
<1>5. 1 \notin moved
  BY <1>2
<1>6. In(q, c) = IF Head(q).rsp /\ Head(q).id = c THEN moved \cup {1} ELSE moved
  <2>1. ASSUME NEW i \in In(q, c), i # 1 PROVE i \in moved
    <3>1. i - 1 \in 1..Len(r) /\ r[i - 1] = q[i] /\ i = (i - 1) + 1
      BY <1>1, <2>1 DEF In
    <3>2. i - 1 \in In(r, c)
      BY <1>1, <2>1, <3>1 DEF In
    <3> QED BY <3>1, <3>2
  <2>2. ASSUME NEW i \in In(r, c) PROVE i + 1 \in In(q, c)
    <3>1. i \in 1..Len(r) /\ r[i] = q[i + 1] /\ i + 1 \in 1..Len(q)
      BY <1>1, <2>2 DEF In
    <3> QED BY <1>1, <2>2, <3>1 DEF In
  <2>3. 1 \in In(q, c) <=> Head(q).rsp /\ Head(q).id = c
    BY <1>1 DEF In
  <2> QED BY <2>1, <2>2, <2>3
<1>7. Cardinality(moved) \in Nat
  BY <1>1, <1>4, RepliesAreFinite
<1> HIDE DEF moved, r
<1>8. Cardinality(moved \cup {1}) = Cardinality(moved) + 1
  BY <1>4, <1>5, FS_AddElement
<1> QED BY <1>4, <1>6, <1>8 DEF r

\* The mapping counts the packets on the wire.
LEMMA WireCounts ==
  ASSUME inp \in Seq(Packet)
  PROVE  /\ Replies \in [Callers -> Nat]
         /\ \A c \in Callers : RepliesTo(c) = In(inp, c)
<1>1. \A c \in Callers : RepliesTo(c) = In(inp, c)
  BY DEF RepliesTo, In
<1> QED BY <1>1, RepliesAreFinite DEF Replies

\* Calls fail or stay as they are, answers are lost or stay.
Loses ==
  /\ \A c \in Callers : \/ StatusOf(pc'[c]) = StatusOf(pc[c])
                        \/ StatusOf(pc[c]) \in {"open", "asked"} /\ StatusOf(pc'[c]) = "failed"
  /\ \A c \in Callers : Cardinality(In(inp', c)) <= Cardinality(In(inp, c))
  /\ UNCHANGED unanswered

\* That is what the promise calls Abandon.
LEMMA LosesIsAbandon == Loses => Promise!Abandon
<1>1. \A c \in Callers : RepliesTo(c) = In(inp, c) /\ RepliesTo(c)' = In(inp', c)
  BY DEF RepliesTo, In
<1> QED BY <1>1 DEF Loses, Promise!Abandon

\* A step that changes no status and no packet but for those the peer sends.
LEMMA NothingLoses ==
  ASSUME IInv, UNCHANGED unanswered,
         \A c \in Callers : StatusOf(pc'[c]) = StatusOf(pc[c]),
         \A c \in Callers : Cardinality(In(inp', c)) = Cardinality(In(inp, c))
  PROVE  Loses
<1>1. \A c \in Callers : Cardinality(In(inp, c)) \in Nat
  BY RepliesAreFinite DEF IInv, CallerInv
<1> QED BY <1>1 DEF Loses

\* An object destroyed at the end of a step fails who is suspended in it and loses
\* the packets on their way to it.
LEMMA SettleLoses ==
  ASSUME IInv, NEW own \in BOOLEAN, NEW at \in [Callers -> Places], NEW req,
         NEW q \in Seq(Packet), Settle(own, at, req, q), UNCHANGED unanswered,
         \A c \in Callers : Cardinality(In(q, c)) <= Cardinality(In(inp, c)),
         \A c \in Callers :
           \/ StatusOf(at[c]) = StatusOf(pc[c])
           \/ StatusOf(pc[c]) \in {"open", "asked"} /\ StatusOf(at[c]) = "failed"
  PROVE  Loses
<1>1. CASE own \/ Held(at)
  BY <1>1 DEF Settle, Loses
<1>2. CASE ~(own \/ Held(at))
  <2>1. /\ inp' = <<>>
        /\ pc' = [c \in Callers |-> IF at[c] \in {"writing", "waiting"}
                                    THEN "system_error" ELSE at[c]]
    BY <1>2 DEF Settle
  <2>2. ASSUME NEW c \in Callers
        PROVE  /\ Cardinality(In(inp', c)) <= Cardinality(In(inp, c))
               /\ \/ StatusOf(pc'[c]) = StatusOf(pc[c])
                  \/ StatusOf(pc[c]) \in {"open", "asked"} /\ StatusOf(pc'[c]) = "failed"
    <3>1. In(inp', c) = {} /\ Cardinality({}) = 0
      BY <2>1, FS_EmptySet DEF In
    <3>2. Cardinality(In(inp, c)) \in Nat
      BY RepliesAreFinite DEF IInv, CallerInv
    <3>3. pc'[c] = IF at[c] \in {"writing", "waiting"} THEN "system_error" ELSE at[c]
      BY <2>1
    <3> QED BY <3>1, <3>2, <3>3 DEF StatusOf
  <2> QED BY <2>2 DEF Loses
<1> QED BY <1>1, <1>2

\* The owner or a report lets go: at most calls fail and packets are lost.
LEMMA ReleaseLoses ==
  ASSUME IInv, NEW own \in BOOLEAN, NEW q \in Seq(Packet), UNCHANGED unanswered,
         Settle(own, pc, requests, q),
         \A c \in Callers : Cardinality(In(q, c)) <= Cardinality(In(inp, c))
  PROVE  Loses
  BY SettleLoses DEF IInv, CallerInv

\* The same when every packet was still on the wire.
LEMMA CountsAsItIs ==
  ASSUME IInv
  PROVE  inp \in Seq(Packet)
         /\ \A c \in Callers : Cardinality(In(inp, c)) <= Cardinality(In(inp, c))
<1>1. inp \in Seq(Packet)
  BY DEF IInv, CallerInv
<1>2. \A c \in Callers : Cardinality(In(inp, c)) \in Nat
  BY <1>1, RepliesAreFinite
<1> QED BY <1>1, <1>2

\* Writing a request is to ask, or to ask nobody who is there; a call that fails
\* does so with what it had; the other steps of a caller show nothing new.
LEMMA CallerStepImplements ==
  ASSUME IInv, NEW c \in Callers, CallerStep(c) PROVE Promise!Next
<1> USE DEF IInv, CallerInv
<1>0. pc \in [Callers -> Places] /\ unanswered \in [Callers -> Nat] /\ owned \in BOOLEAN
  BY DEF OtherType
<1>s. \A d \in Callers : inp' = inp => RepliesTo(d)' = RepliesTo(d)
  BY DEF RepliesTo
<1>m. ASSUME NEW p \in Places, NEW req, StatusOf(p) = "failed" \/ StatusOf(p) = StatusOf(pc[c]),
             StatusOf(pc[c]) \in {"open", "asked", "ok"},
             StatusOf(pc[c]) = "ok" => StatusOf(p) = "ok",
             Settle(owned, [pc EXCEPT ![c] = p], req, inp), UNCHANGED unanswered
      PROVE  Promise!Next
  <2> DEFINE at == [pc EXCEPT ![c] = p]
  <2>1. at \in [Callers -> Places] /\ \A d \in Callers \ {c} : at[d] = pc[d]
    BY <1>0
  <2>2. at[c] = p
    BY <1>0
  <2>3. Settle(owned, at, req, inp)
    BY <1>m
  <2> HIDE DEF at
  <2>4. \A d \in Callers :
          \/ StatusOf(at[d]) = StatusOf(pc[d])
          \/ StatusOf(pc[d]) \in {"open", "asked"} /\ StatusOf(at[d]) = "failed"
    BY <1>m, <2>1, <2>2
  <2>5. Loses
    BY <1>0, <1>m, <2>1, <2>3, <2>4, SettleLoses, CountsAsItIs
  <2> QED BY <2>5, LosesIsAbandon DEF Promise!Next
<1>1. CASE Call(c)
  <2>1. StatusOf(pc[c]) \in {"idle", "failed"} /\ StatusOf("writing") = "open"
    BY <1>1 DEF Call, StatusOf, Returned
  <2>2. pc' = [pc EXCEPT ![c] = "writing"] /\ inp' = inp /\ unanswered' = unanswered
    BY <1>1 DEF Call, peerVars
  <2>3. Promise!Invoke(c)
    BY <1>0, <1>s, <2>1, <2>2 DEF Promise!Invoke
  <2> QED BY <2>3 DEF Promise!Next
<1>2. CASE Write(c)
  <2>1. StatusOf(pc[c]) = "open" /\ StatusOf("written") = "asked"
    BY <1>2 DEF Write, StatusOf
  <2>2. /\ pc' = [pc EXCEPT ![c] = "written"] /\ inp' = inp
        /\ \/ unanswered' = [unanswered EXCEPT ![c] = @ + 1]
           \/ unanswered' = unanswered
    BY <1>0, <1>2 DEF Write
  <2>3. Promise!Ask(c)
    BY <1>0, <1>s, <2>1, <2>2 DEF Promise!Ask
  <2> QED BY <2>3 DEF Promise!Next
<1>3. CASE WriteFails(c)
  <2>1. "system_error" \in Places
    BY DEF Places, Returned
  <2>2. StatusOf("system_error") = "failed" /\ StatusOf(pc[c]) = "open"
    BY <1>3 DEF WriteFails, StatusOf
  <2> QED BY <1>3, <1>m, <2>1, <2>2 DEF WriteFails, peerVars
<1>4. CASE Register(c)
  <2>1. StatusOf(pc[c]) = "asked" /\ StatusOf("waiting") = "asked"
        /\ StatusOf("invalid_state_error") = "failed" /\ "invalid_state_error" \in Places
    BY <1>4 DEF Register, StatusOf, Places, Returned
  <2>2. CASE SenderLocks
    <3>1. /\ pc' = [pc EXCEPT ![c] = "waiting"] /\ inp' = inp /\ unanswered' = unanswered
      BY <1>4, <2>2 DEF Register, peerVars
    <3>2. \A d \in Callers : StatusOf(pc'[d]) = StatusOf(pc[d])
      BY <1>0, <2>1, <3>1
    <3> QED BY <3>1, <3>2, NothingLoses, LosesIsAbandon DEF Promise!Next
  <2>3. CASE ~SenderLocks
    BY <1>4, <1>m, <2>1, <2>3 DEF Register, peerVars
  <2> QED BY <2>2, <2>3
<1>5. CASE TimerFires(c)
  <2>1. "timeout_error" \in Places
    BY DEF Places, Returned
  <2>2. StatusOf("timeout_error") = "failed" /\ StatusOf(pc[c]) = "asked"
    BY <1>5 DEF TimerFires, TimerRuns, StatusOf
  <2> QED BY <1>5, <1>m, <2>1, <2>2 DEF TimerFires, peerVars
<1>6. CASE Return(c)
  <2>1. "ok" \in Places
    BY DEF Places, Returned
  <2>2. StatusOf("ok") = "ok" /\ StatusOf(pc[c]) = "ok"
    BY <1>6 DEF Return, StatusOf
  <2> QED BY <1>6, <1>m, <2>1, <2>2 DEF Return, peerVars
<1> QED BY <1>1, <1>2, <1>3, <1>4, <1>5, <1>6 DEF CallerStep

\* The packet read completes the call it answers, if that waits, or is lost.
LEMMA ReceivePacketImplements == ASSUME IInv, ReceivePacket PROVE Promise!Next
<1> USE DEF IInv, CallerInv
<1> DEFINE p == Head(inp)
           q == Tail(inp)
           accepts == p.dev # "none" /\ device_id_ \in {"none", p.dev}
           at == IF accepts THEN Answered(p) ELSE pc
<1>1. /\ inp \in Seq(Packet) /\ inp # <<>> /\ q \in Seq(Packet) /\ p \in Packet
      /\ unanswered' = unanswered /\ owned \in BOOLEAN /\ pc \in [Callers -> Places]
  BY HeadTailProperties DEF ReceivePacket, peerVars
<1>2. Alive
  BY <1>1 DEF DeadHoldsNothing
<1>3. \A c \in Callers :
        /\ Cardinality(In(inp, c)) \in Nat /\ Cardinality(In(q, c)) \in Nat
        /\ Cardinality(In(inp, c)) = IF p.rsp /\ p.id = c THEN Cardinality(In(q, c)) + 1
                                                          ELSE Cardinality(In(q, c))
  BY <1>1, ReadCounts, RepliesAreFinite
<1>4. \/ Settle(FALSE, pc, requests, q)
      \/ Settle(owned, at, requests, q)
  BY DEF ReceivePacket, OnDisconnected
<1> HIDE DEF p, q, accepts
<1>5. \A c \in Callers : Cardinality(In(q, c)) <= Cardinality(In(inp, c))
  BY <1>3
<1>6. CASE Settle(FALSE, pc, requests, q) \/ (Settle(owned, at, requests, q) /\ at = pc)
  <2>1. Loses
    BY <1>1, <1>5, <1>6, ReleaseLoses
  <2> QED BY <2>1, LosesIsAbandon DEF Promise!Next
<1>7. CASE Settle(owned, at, requests, q) /\ at # pc
  <2> DEFINE c == p.id
  <2>1. /\ p.rsp /\ c \in Callers /\ pc[c] = "waiting"
        /\ at = [pc EXCEPT ![c] = "replied"]
    BY <1>7 DEF Answered
  <2>2. /\ at \in [Callers -> Places] /\ at[c] = "replied"
        /\ \A d \in Callers \ {c} : at[d] = pc[d]
    BY <1>1, <2>1 DEF Places, InCall
  <2>3. owned \/ Held(at)
    BY <1>2, <2>1, <2>2 DEF Alive, Held, InCall
  <2>4. pc' = at /\ inp' = q
    BY <1>7, <2>3 DEF Settle
  <2> HIDE DEF c, at
  <2>5. \A d \in Callers : RepliesTo(d) = In(inp, d) /\ RepliesTo(d)' = In(q, d)
    BY <2>4 DEF RepliesTo, In
  <2>6. StatusOf(pc[c]) = "asked" /\ StatusOf("replied") = "ok"
    BY <2>1 DEF StatusOf
  <2>7. \A d \in Callers :
          /\ Cardinality(RepliesTo(d)') \in Nat
          /\ Cardinality(RepliesTo(d)) =
               IF d = c THEN Cardinality(RepliesTo(d)') + 1 ELSE Cardinality(RepliesTo(d)')
    <3> SUFFICES ASSUME NEW d \in Callers
                 PROVE  /\ Cardinality(RepliesTo(d)') \in Nat
                        /\ Cardinality(RepliesTo(d)) =
                             IF d = c THEN Cardinality(RepliesTo(d)') + 1
                                      ELSE Cardinality(RepliesTo(d)')
      OBVIOUS
    <3>1. /\ Cardinality(In(q, d)) \in Nat
          /\ Cardinality(In(inp, d)) = IF d = c THEN Cardinality(In(q, d)) + 1
                                                ELSE Cardinality(In(q, d))
      BY <1>3, <2>1 DEF c
    <3> QED BY <2>5, <3>1
  <2>8. Status' = [Status EXCEPT ![c] = "ok"]
    BY <2>1, <2>2, <2>4, <2>6 DEF Status
  <2>9. Replies' = [Replies EXCEPT ![c] = @ - 1]
    <3>1. \A d \in Callers :
            Cardinality(RepliesTo(d)') = IF d = c THEN Cardinality(RepliesTo(d)) - 1
                                                  ELSE Cardinality(RepliesTo(d))
      BY <2>7
    <3> QED BY <2>1, <3>1 DEF Replies
  <2>10. Promise!Complete(c)
    <3>1. Cardinality(RepliesTo(c)) > 0
      BY <2>1, <2>7
    <3> QED BY <1>1, <2>1, <2>6, <3>1, <2>8, <2>9 DEF Promise!Complete, Status, Replies
  <2> QED BY <2>1, <2>10 DEF Promise!Next
<1> QED BY <1>4, <1>6, <1>7

\* A reply the peer sends is an answer; what else it does shows nothing new.
LEMMA PeerStepImplements == ASSUME IInv, PeerStep PROVE Promise!Next
<1> USE DEF IInv, CallerInv
<1>1. ASSUME NEW c \in Callers, PeerReplies(c) PROVE Promise!Next
  <2> DEFINE p == [rsp |-> TRUE, dev |-> "own", id |-> c]
  <2>1. p \in Packet /\ p.rsp /\ p.id = c
    BY DEF Packet
  <2>2. inp' = Append(inp, p) /\ UNCHANGED pc
    BY <1>1 DEF PeerReplies
  <2> HIDE DEF p
  <2>3. \A d \in Callers : RepliesTo(d) = In(inp, d) /\ RepliesTo(d)' = In(Append(inp, p), d)
    BY <2>2 DEF RepliesTo, In
  <2>4. \A d \in Callers :
          Cardinality(RepliesTo(d)') =
            IF d = c THEN Cardinality(RepliesTo(d)) + 1 ELSE Cardinality(RepliesTo(d))
    BY <2>1, <2>3, ArrivalCounts
  <2>5. Replies' = [Replies EXCEPT ![c] = @ + 1]
    BY <2>4 DEF Replies
  <2>6. Promise!Answer(c)
    BY <1>1, <2>2, <2>5 DEF PeerReplies, Promise!Answer, Replies
  <2> QED BY <2>6 DEF Promise!Next
<1>2. ASSUME NEW c \in Callers, NEW d \in {"none", "own", "other"}, PeerSends(c, d)
      PROVE  Promise!Next
  <2> DEFINE p == [rsp |-> FALSE, dev |-> d, id |-> c]
  <2>1. p \in Packet /\ ~p.rsp
    BY DEF Packet
  <2>2. inp' = Append(inp, p) /\ UNCHANGED <<pc, unanswered>>
    BY <1>2 DEF PeerSends
  <2> HIDE DEF p
  <2>3. \A e \in Callers : Cardinality(In(inp', e)) = Cardinality(In(inp, e))
    BY <2>1, <2>2, ArrivalCounts
  <2> QED BY <2>2, <2>3, NothingLoses, LosesIsAbandon DEF Promise!Next
<1>3. ASSUME NEW how \in {"stalled", "closed"}, PeerStops(how) PROVE Promise!Next
  BY <1>3, NothingLoses, LosesIsAbandon DEF PeerStops, Promise!Next
<1> QED BY <1>1, <1>2, <1>3 DEF PeerStep

\* The owner and the two loops take nothing from the wire but by destruction.
LEMMA LoopStepImplements ==
  ASSUME IInv, OwnerReleases \/ Start \/ ReadFails \/ DrainEnds \/ CheckExpires \/ CheckStops
  PROVE  Promise!Next
<1>1. CASE UNCHANGED <<pc, inp, unanswered>>
  BY <1>1, NothingLoses, LosesIsAbandon DEF Promise!Next
<1>2. CASE Settle(FALSE, pc, requests, inp) /\ UNCHANGED unanswered
  BY <1>2, CountsAsItIs, ReleaseLoses, LosesIsAbandon DEF Promise!Next
<1> QED
  BY <1>1, <1>2 DEF OwnerReleases, Start, ReadFails, DrainEnds, CheckExpires, CheckStops,
                    OnDisconnected, peerVars

\* A connection just constructed has promised nothing yet.
LEMMA InitImplements == Init => Promise!Init
<1> SUFFICES ASSUME Init PROVE Promise!Init
  OBVIOUS
<1>1. \A c \in Callers : RepliesTo(c) = {} /\ StatusOf(pc[c]) = "idle"
  BY DEF Init, RepliesTo, StatusOf
<1>2. Cardinality({}) = 0
  BY FS_EmptySet
<1> QED BY <1>1, <1>2 DEF Init, Promise!Init

\* Every step is one of the promise's or a stutter.
LEMMA StepImplements == IInv /\ [Next]_vars => [Promise!Next]_Promise!vars
<1> SUFFICES ASSUME IInv, [Next]_vars PROVE [Promise!Next]_Promise!vars
  OBVIOUS
<1>1. CASE Next
  BY <1>1, CallerStepImplements, ReceivePacketImplements, PeerStepImplements,
     LoopStepImplements DEF Next
<1>2. CASE UNCHANGED vars
  BY <1>2 DEF vars, Promise!vars, RepliesTo
<1> QED BY <1>1, <1>2

\* A call asks once for each time it is made and ends well only by an answer to its
\* own request, used once, on either side and whatever replies are late, doubled or
\* lost with the connection (connection.hpp:85-112, 205-222).
THEOREM PromiseKept == Spec => ImplementsPromise
<1> QED
  BY InitImplements, StepImplements, Invariance, PTL DEF Spec, ImplementsPromise, Promise!Spec

=============================================================================
