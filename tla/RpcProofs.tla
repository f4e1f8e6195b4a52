------------------------------ MODULE RpcProofs ------------------------------
(***************************************************************************)
(* Proofs about Rpc, for any number of calls, names, handler loops and     *)
(* error codes, and any channel size.                                      *)
(*                                                                         *)
(* A request that has been sent is in one place at most: on the wire, in   *)
(* the channel of its command, in the hands of one loop of that command,   *)
(* or run; so it is run once.  A response on its way says what a handler   *)
(* returned for its call, whatever becomes of the handler, the connection  *)
(* or the call meanwhile.                                                  *)
(***************************************************************************)
EXTENDS Rpc, SequenceTheorems, TLAPS

\* What TypeOK leaves open: channels, and the histories.
Typed ==
  /\ TypeOK
  /\ channels \in [Ids -> Seq(Requests) \cup {Null}]
  /\ runs \subseteq Calls \X Handlers
  /\ returned \in [Calls -> SUBSET Outcomes]

\* The calls whose requests are in a sequence, and that each is there once.
CallsIn(s) == {s[i].call : i \in DOMAIN s}
NoneTwice(s) == \A i, j \in DOMAIN s : s[i].call = s[j].call => i = j

\* The request a loop has not begun to run yet.
Held(h) == IF at[h] = "got" THEN {holds[h].call} ELSE {}
Run == {r[1] : r \in runs}

\* Requests that have the command of their call's name.
Named(s) == \A i \in DOMAIN s : s[i].cmd = rpc_id(name[s[i].call])

\* A sent request is in one place at most.
OnePlace ==
  /\ NoneTwice(toServer)
  /\ \A id \in Ids : NoneTwice(Buffered(id))
  /\ \A id \in Ids : CallsIn(Buffered(id)) \cap CallsIn(toServer) = {}
  /\ \A a, b \in Ids : a # b => CallsIn(Buffered(a)) \cap CallsIn(Buffered(b)) = {}
  /\ \A h \in Handlers : Held(h) \cap CallsIn(toServer) = {}
  /\ \A h \in Handlers, id \in Ids : Held(h) \cap CallsIn(Buffered(id)) = {}
  /\ \A g, h \in Handlers : g # h => Held(g) \cap Held(h) = {}
  /\ Run \cap CallsIn(toServer) = {}
  /\ \A id \in Ids : Run \cap CallsIn(Buffered(id)) = {}
  /\ \A h \in Handlers : Held(h) \cap Run = {}

\* Nothing is anywhere of a call that has not been made.
OnlyCalled ==
  \A c \in Calls : pc[c] = "idle" =>
    /\ c \notin CallsIn(toServer) /\ c \notin Run
    /\ \A id \in Ids : c \notin CallsIn(Buffered(id))
    /\ \A h \in Handlers : c \notin Held(h)

\* A call that was made has its name, and the requests go by its hash.
ByName ==
  /\ \A c \in Calls : pc[c] # "idle" => name[c] \in Names
  /\ Named(toServer)
  /\ \A id \in Ids : \A i \in DOMAIN Buffered(id) :
       /\ Buffered(id)[i].cmd = id
       /\ rpc_id(name[Buffered(id)[i].call]) = id
  /\ \A h \in Handlers : at[h] = "got" =>
       rpc_id(name[holds[h].call]) = rpc_id(Serves[h])
  /\ \A r \in runs : Serves[r[2]] = name[r[1]]
  /\ again = {}

\* What an outcome of a call says the handlers in ran returned for it.
Says(x, c, ret, ran) ==
  \/ x \in ret[c]
  \/ x = Value(Null) /\ Error(0) \in ret[c]
  \/ /\ x = Error(err_deserialize)
     /\ \/ Value(c) \in ret[c] /\ \E h \in Handlers \ parses[c] : <<c, h>> \in ran
        \/ Error(0) \in ret[c] /\ Null \notin parses[c]

\* What a response says once its call has parsed it.
Answered(r, ret, ran) == Says(Parsed(r.call, r), r.call, ret, ran)

AnswersReturned ==
  /\ \A i \in DOMAIN toClient : Answered(toClient[i], returned, runs)
  /\ \A h \in Handlers : at[h] = "sending" =>
       answer[h] \in Responses /\ Answered(answer[h], returned, runs)
  /\ \A h \in Handlers : at[h] = "running" => <<holds[h].call, h>> \in runs
  /\ ReturnsWhatHandlerDid

Places == OnePlace /\ OnlyCalled /\ ByName

\* The flag is set before stop() goes to the io thread.
LoopsRun == LoopsEndOnlyByStop /\ (stop # "none" => stopped)

IInv == Typed /\ Places /\ AnswersReturned /\ LoopsRun

-----------------------------------------------------------------------------
(* Sequences of requests.                                                  *)

\* Nothing is in the empty sequence.
LEMMA Emptied ==
  /\ <<>> \in Seq(Requests) /\ CallsIn(<<>>) = {} /\ NoneTwice(<<>>)
BY DEF CallsIn, NoneTwice

\* A request in a sequence, and its call.
LEMMA OneIn ==
  ASSUME NEW s \in Seq(Requests), NEW i \in DOMAIN s
  PROVE  /\ s[i] \in Requests /\ s[i].call \in Calls /\ s[i].cmd \in Ids
         /\ s[i].call \in CallsIn(s)
<1>1. s[i] \in Requests
  OBVIOUS
<1> QED BY <1>1 DEF Requests, OfItsCall, CallsIn

\* Taking the first request out leaves the others, and it was there once.
LEMMA TakenOut ==
  ASSUME NEW s \in Seq(Requests), s # <<>>
  PROVE  /\ Head(s) \in Requests /\ Head(s) = s[1] /\ 1 \in DOMAIN s
         /\ Head(s).call \in CallsIn(s)
         /\ Tail(s) \in Seq(Requests) /\ CallsIn(Tail(s)) \subseteq CallsIn(s)
         /\ \A i \in DOMAIN Tail(s) : i + 1 \in DOMAIN s /\ Tail(s)[i] = s[i + 1]
         /\ NoneTwice(s) => NoneTwice(Tail(s)) /\ Head(s).call \notin CallsIn(Tail(s))
<1>1. Head(s) \in Requests /\ Head(s) = s[1] /\ 1 \in DOMAIN s
  OBVIOUS
<1>2. /\ Tail(s) \in Seq(Requests)
      /\ \A i \in DOMAIN Tail(s) : i + 1 \in DOMAIN s /\ Tail(s)[i] = s[i + 1]
  OBVIOUS
<1>3. ASSUME NEW i \in DOMAIN Tail(s)
      PROVE  i \in Nat \ {0} /\ i + 1 \in DOMAIN s /\ Tail(s)[i] = s[i + 1] /\ i + 1 # 1
  BY <1>2
<1>4. NoneTwice(s) => NoneTwice(Tail(s))
  <2> SUFFICES ASSUME NoneTwice(s), NEW i \in DOMAIN Tail(s), NEW j \in DOMAIN Tail(s),
                      Tail(s)[i].call = Tail(s)[j].call
               PROVE  i = j
    BY DEF NoneTwice
  <2> QED BY <1>3 DEF NoneTwice
<1>5. NoneTwice(s) => Head(s).call \notin CallsIn(Tail(s))
  BY <1>1, <1>3 DEF NoneTwice, CallsIn
<1>6. Head(s).call \in CallsIn(s) /\ CallsIn(Tail(s)) \subseteq CallsIn(s)
  BY <1>1, <1>3 DEF CallsIn
<1> QED BY <1>1, <1>2, <1>4, <1>5, <1>6

\* A request put at the end comes to those there.
LEMMA PutIn ==
  ASSUME NEW s \in Seq(Requests), NEW r \in Requests
  PROVE  /\ Append(s, r) \in Seq(Requests)
         /\ CallsIn(Append(s, r)) = CallsIn(s) \cup {r.call}
         /\ \A i \in DOMAIN Append(s, r) :
              (i \in DOMAIN s /\ Append(s, r)[i] = s[i]) \/ Append(s, r)[i] = r
         /\ NoneTwice(s) /\ r.call \notin CallsIn(s) => NoneTwice(Append(s, r))
<1> DEFINE t == Append(s, r)
           n == Len(s) + 1
<1>1. t \in Seq(Requests) /\ DOMAIN t = 1..n /\ n \in Nat \ {0} /\ DOMAIN s = 1..(n - 1)
  OBVIOUS
<1>2. t[n] = r /\ \A i \in DOMAIN s : t[i] = s[i]
  OBVIOUS
<1> HIDE DEF t, n
<1>3. \A i \in DOMAIN t : i \in DOMAIN s \/ i = n
  BY <1>1
<1>4. CallsIn(t) = CallsIn(s) \cup {r.call}
  <2>1. CallsIn(t) \subseteq CallsIn(s) \cup {r.call}
    BY <1>2, <1>3 DEF CallsIn
  <2>2. CallsIn(s) \subseteq CallsIn(t)
    <3>1. \A i \in DOMAIN s : i \in DOMAIN t BY <1>1
    <3> QED BY <3>1, <1>2 DEF CallsIn
  <2>3. r.call \in CallsIn(t)
    <3>1. n \in DOMAIN t BY <1>1
    <3> QED BY <3>1, <1>2 DEF CallsIn
  <2> QED BY <2>1, <2>2, <2>3
<1>5. NoneTwice(s) /\ r.call \notin CallsIn(s) => NoneTwice(t)
  <2> SUFFICES ASSUME NoneTwice(s), r.call \notin CallsIn(s),
                      NEW i \in DOMAIN t, NEW j \in DOMAIN t, t[i].call = t[j].call
               PROVE  i = j
    BY DEF NoneTwice
  <2> QED BY <1>2, <1>3 DEF NoneTwice, CallsIn
<1> QED BY <1>1, <1>2, <1>3, <1>4, <1>5 DEF t

\* What is lost at the end leaves what came before.
LEMMA CutOff ==
  ASSUME NEW s \in Seq(Requests), NEW n \in 0..Len(s)
  PROVE  /\ SubSeq(s, 1, n) \in Seq(Requests)
         /\ CallsIn(SubSeq(s, 1, n)) \subseteq CallsIn(s)
         /\ \A i \in DOMAIN SubSeq(s, 1, n) : i \in DOMAIN s /\ SubSeq(s, 1, n)[i] = s[i]
         /\ NoneTwice(s) => NoneTwice(SubSeq(s, 1, n))
<1> DEFINE t == SubSeq(s, 1, n)
<1>1. t \in Seq(Requests) /\ Len(t) = n /\ \A i \in 1..n : t[i] = s[i]
  BY SubSeqProperties
<1>2. \A i \in DOMAIN t : i \in DOMAIN s /\ t[i] = s[i]
  BY <1>1
<1> HIDE DEF t
<1>3. CallsIn(t) \subseteq CallsIn(s) /\ (NoneTwice(s) => NoneTwice(t))
  BY <1>2 DEF CallsIn, NoneTwice
<1> QED BY <1>1, <1>2, <1>3 DEF t

-----------------------------------------------------------------------------
(* The places of a request.                                                *)

\* What is in a channel, also before it is made.
LEMMA BufferedType ==
  ASSUME Typed, NEW id \in Ids
  PROVE  Buffered(id) \in Seq(Requests)
BY Emptied DEF Typed, Buffered

\* A step that sends nothing new, changes no channel, gives no loop a request and
\* runs none, keeps every request where it is or loses it.
LEMMA NothingMoves ==
  ASSUME Typed, Places,
         NoneTwice(toServer'), CallsIn(toServer') \subseteq CallsIn(toServer),
         \A i \in DOMAIN toServer' : \E j \in DOMAIN toServer : toServer'[i] = toServer[j],
         \A h \in Handlers : at'[h] = "got" => at[h] = "got" /\ holds'[h] = holds[h],
         \A c \in Calls : pc'[c] = "idle" <=> pc[c] = "idle",
         UNCHANGED <<channels, runs, again, name>>
  PROVE  Places'
<1>1. \A id \in Ids : Buffered(id)' = Buffered(id)
  BY DEF Buffered
<1>2. \A h \in Handlers : Held(h)' \subseteq Held(h)
  BY DEF Held
<1>3. Run' = Run
  BY DEF Run
<1>4. OnePlace'
  <2>1. \A g, h \in Handlers : g # h => (Held(g) \cap Held(h))' = {}
    BY <1>2 DEF Places, OnePlace
  <2>2. \A h \in Handlers : /\ (Held(h) \cap CallsIn(toServer))' = {}
                            /\ (Held(h) \cap Run)' = {}
    BY <1>2, <1>3 DEF Places, OnePlace
  <2>3. \A h \in Handlers, id \in Ids : (Held(h) \cap CallsIn(Buffered(id)))' = {}
    BY <1>1, <1>2 DEF Places, OnePlace
  <2>4. \A id \in Ids : /\ NoneTwice(Buffered(id))'
                        /\ (CallsIn(Buffered(id)) \cap CallsIn(toServer))' = {}
                        /\ (Run \cap CallsIn(Buffered(id)))' = {}
    BY <1>1, <1>3 DEF Places, OnePlace
  <2>5. \A a, b \in Ids : a # b => (CallsIn(Buffered(a)) \cap CallsIn(Buffered(b)))' = {}
    BY <1>1 DEF Places, OnePlace
  <2>6. (Run \cap CallsIn(toServer))' = {}
    BY <1>3 DEF Places, OnePlace
  <2> QED BY <2>1, <2>2, <2>3, <2>4, <2>5, <2>6 DEF OnePlace
<1>5. OnlyCalled'
  BY <1>1, <1>2, <1>3 DEF Places, OnlyCalled
<1>6. ByName'
  BY <1>1 DEF Places, ByName, Named
<1> QED BY <1>4, <1>5, <1>6 DEF Places

-----------------------------------------------------------------------------
(* Types.                                                                  *)

FlagsOK ==
  /\ stopped \in BOOLEAN /\ halted \in BOOLEAN /\ ranOut \in BOOLEAN
  /\ stop \in {"none", "posted", "forced", "done"}
  /\ serverUp \in BOOLEAN /\ clientUp \in BOOLEAN
WireOK  == toServer \in Seq(Requests) /\ toClient \in Seq(Responses)
ChannelsOK ==
  /\ channels \in [Ids -> Seq(Requests) \cup {Null}]
  /\ \A id \in Ids : channels[id] # Null =>
       channels[id] \in Seq(Requests) /\ Len(channels[id]) <= ChannelSize
LoopsOK ==
  /\ at \in [Handlers -> {"asking", "waiting", "got", "running", "sending", "stuck",
                          "ended"}]
  /\ holds \in [Handlers -> Requests \cup {Null}]
  /\ answer \in [Handlers -> Responses \cup {Null}]
  /\ \A h \in Handlers :
       at[h] \in {"got", "running", "sending", "stuck"} <=> holds[h] # Null
CallsOK ==
  /\ pc \in [Calls -> {"idle", "waiting", "done"}]
  /\ result \in [Calls -> Outcomes]
  /\ name \in [Calls -> Names \cup {Null}]
HistoryOK == runs \subseteq Calls \X Handlers /\ returned \in [Calls -> SUBSET Outcomes]

\* The types, by what changes together.
LEMMA Parts ==
  Typed <=> FlagsOK /\ WireOK /\ ChannelsOK /\ LoopsOK /\ CallsOK /\ HistoryOK
BY DEF Typed, TypeOK, FlagsOK, WireOK, ChannelsOK, LoopsOK, CallsOK, HistoryOK

\* And after a step.
LEMMA PartsNext ==
  Typed' <=> FlagsOK' /\ WireOK' /\ ChannelsOK' /\ LoopsOK' /\ CallsOK' /\ HistoryOK'
BY Parts, PTL

\* What a step leaves alone keeps its type.
LEMMA PartsKept ==
  ASSUME Typed
  PROVE  /\ UNCHANGED <<stopVars, linkVars>> => FlagsOK'
         /\ UNCHANGED <<toServer, toClient>> => WireOK'
         /\ UNCHANGED channels => ChannelsOK'
         /\ UNCHANGED handlerVars => LoopsOK'
         /\ UNCHANGED callVars => CallsOK'
         /\ UNCHANGED historyVars => HistoryOK'
BY Parts DEF FlagsOK, WireOK, ChannelsOK, LoopsOK, CallsOK, HistoryOK, stopVars, linkVars,
   handlerVars, callVars, historyVars

\* The outcomes of a call.
LEMMA OutcomesHold ==
  /\ Thrown \in Outcomes /\ Nothing \in Outcomes
  /\ \A c \in Calls \cup {Null} : Value(c) \in Outcomes
  /\ \A e \in Codes \cup {err_deserialize} : Error(e) \in Outcomes
BY DEF Outcomes

\* A call's own steps.
LEMMA CallTyped ==
  ASSUME Typed, NEW c \in Calls, CallStep(c)
  PROVE  Typed'
<1>1. CASE CallTimesOut(c)
  <2>1. CallsOK'
    BY <1>1, Parts, OutcomesHold DEF CallTimesOut, EndsWith, CallsOK
  <2> QED BY <1>1, <2>1, PartsNext, PartsKept DEF CallTimesOut
<1>2. ASSUME NEW n \in Names, NEW good \in BOOLEAN, Call(c, n, good)
      PROVE  Typed'
  <2>1. CallsOK'
    BY <1>2, Parts, OutcomesHold DEF Call, EndsWith, CallsOK
  <2>2. WireOK'
    <3>1. rpc_id(n) \in Ids BY DEF Ids
    <3>2. [call |-> c, cmd |-> rpc_id(n), seq |-> seq[c], good |-> good] \in Requests
      BY <3>1, RpcAssumption DEF Requests, OfItsCall
    <3> QED BY <1>2, <3>2, Parts, PutIn DEF Call, WireOK
  <2> QED BY <1>2, <2>1, <2>2, PartsNext, PartsKept DEF Call
<1> QED BY <1>1, <1>2 DEF CallStep

\* The seq of a response is its call's alone, so it ends no other call.
LEMMA ArrivesForItsCall ==
  ASSUME Typed, ResponseArrives
  PROVE  /\ UNCHANGED name
         /\ \/ UNCHANGED <<pc, result>>
            \/ /\ pc[Head(toClient).call] = "waiting"
               /\ EndsWith(Head(toClient).call, Parsed(Head(toClient).call, Head(toClient)))
<1> DEFINE r == Head(toClient)
<1>1. r \in Responses
  <2>1. toClient \in Seq(Responses) /\ toClient # <<>>
    BY Parts DEF ResponseArrives, WireOK
  <2> QED BY <2>1
<1>2. r.call \in Calls /\ r.seq = seq[r.call]
  BY <1>1 DEF Responses, OfItsCall
<1>3. UNCHANGED name /\ (WaitingUnder(r) = {} => UNCHANGED <<pc, result>>)
  BY DEF ResponseArrives
<1>4. ASSUME WaitingUnder(r) # {}
      PROVE  pc[r.call] = "waiting" /\ EndsWith(r.call, Parsed(r.call, r))
  <2>1. PICK c \in WaitingUnder(r) : EndsWith(c, Parsed(c, r))
    BY <1>4 DEF ResponseArrives
  <2>2. c = r.call /\ pc[c] = "waiting"
    BY <1>2, RpcAssumption DEF WaitingUnder
  <2> QED BY <2>1, <2>2
<1> QED BY <1>3, <1>4

\* Responses that arrive; connections made and lost.
LEMMA LinkTyped ==
  ASSUME Typed, AnswersReturned, ResponseArrives \/ LinkStep
  PROVE  Typed'
<1>1. CASE ResponseArrives
  <2>1. toClient \in Seq(Responses) /\ toClient # <<>>
    BY <1>1, Parts DEF ResponseArrives, WireOK
  <2>2. /\ Head(toClient) \in Responses /\ Answered(Head(toClient), returned, runs)
        /\ Tail(toClient) \in Seq(Responses) /\ Head(toClient).call \in Calls
    BY <2>1 DEF AnswersReturned, Responses, OfItsCall
  <2>3. Parsed(Head(toClient).call, Head(toClient)) \in Outcomes
    <3>1. returned[Head(toClient).call] \subseteq Outcomes
      BY <2>2, Parts DEF HistoryOK
    <3> QED BY <2>2, <3>1, OutcomesHold DEF Answered, Says
  <2>4. CallsOK'
    BY <1>1, <2>2, <2>3, ArrivesForItsCall, Parts DEF EndsWith, CallsOK
  <2>5. WireOK'
    BY <1>1, <2>2, Parts DEF ResponseArrives, WireOK
  <2> QED BY <1>1, <2>4, <2>5, PartsNext, PartsKept DEF ResponseArrives
<1>2. CASE Connect
  <2>1. FlagsOK' /\ WireOK'
    BY <1>2, Parts DEF Connect, FlagsOK, WireOK, stopVars
  <2> QED BY <1>2, <2>1, PartsNext, PartsKept DEF Connect
<1>3. ASSUME NEW n \in 0..Len(toClient), ServerLeaves(n)
      PROVE  Typed'
  <2>1. WireOK'
    <3>1. toClient \in Seq(Responses) BY Parts DEF WireOK
    <3>2. SubSeq(toClient, 1, n) \in Seq(Responses)
      BY <3>1, SubSeqProperties
    <3> QED BY <1>3, <3>2 DEF ServerLeaves, WireOK
  <2>2. FlagsOK'
    BY <1>3, Parts DEF ServerLeaves, FlagsOK, stopVars
  <2> QED BY <1>3, <2>1, <2>2, PartsNext, PartsKept DEF ServerLeaves
<1>4. ASSUME NEW n \in 0..Len(toServer), ClientLeaves(n)
      PROVE  Typed'
  <2>1. WireOK'
    BY <1>4, Parts, CutOff DEF ClientLeaves, WireOK
  <2>2. FlagsOK'
    BY <1>4, Parts DEF ClientLeaves, FlagsOK, stopVars
  <2>3. CallsOK'
    BY <1>4, Parts, OutcomesHold DEF ClientLeaves, CallsOK
  <2> QED BY <1>4, <2>1, <2>2, <2>3, PartsNext, PartsKept DEF ClientLeaves
<1> QED BY <1>1, <1>2, <1>3, <1>4 DEF LinkStep

\* A loop that receives a request holds one.
LEMMA ReceivesTyped ==
  ASSUME Typed, NEW h \in Handlers, NEW r \in Requests, Receives(h, r), UNCHANGED answer
  PROVE  LoopsOK'
BY Parts, NullAssumption DEF LoopsOK, Receives

\* The server takes a request off the wire.
LEMMA ReceiveTyped ==
  ASSUME Typed, ReceiveRequest
  PROVE  Typed'
<1> DEFINE r == Head(toServer)
<1>1. toServer \in Seq(Requests) /\ toServer # <<>>
  BY Parts DEF ReceiveRequest, WireOK
<1>2. r \in Requests /\ Tail(toServer) \in Seq(Requests)
  BY <1>1
<1>3. r.cmd \in Ids
  BY <1>2 DEF Requests, OfItsCall
<1>4. WireOK'
  BY <1>2, Parts DEF ReceiveRequest, WireOK
<1>5. CASE WaitingFor(r.cmd) # {}
  <2>1. PICK h \in Handlers : Receives(h, r)
    BY <1>5 DEF ReceiveRequest, WaitingFor
  <2>2. LoopsOK'
    BY <1>2, <2>1, ReceivesTyped DEF ReceiveRequest
  <2> QED BY <1>4, <1>5, <2>2, PartsNext, PartsKept DEF ReceiveRequest
<1>6. CASE WaitingFor(r.cmd) = {}
  <2>1. ChannelsOK'
    <3>1. CASE channels[r.cmd] # Null /\ HasRoom(channels[r.cmd])
      <4>1. channels[r.cmd] \in Seq(Requests) /\ Len(channels[r.cmd]) < ChannelSize
        BY <1>3, <3>1, Parts DEF ChannelsOK, HasRoom
      <4>2. /\ Append(channels[r.cmd], r) \in Seq(Requests)
            /\ Len(Append(channels[r.cmd], r)) <= ChannelSize
        BY <4>1, <1>2, RpcAssumption
      <4>3. channels' = [channels EXCEPT ![r.cmd] = Append(channels[r.cmd], r)]
        BY <1>6, <3>1 DEF ReceiveRequest
      <4> QED BY <4>2, <4>3, <1>3, Parts DEF ChannelsOK
    <3>2. CASE ~(channels[r.cmd] # Null /\ HasRoom(channels[r.cmd]))
      BY <1>6, <3>2, PartsKept DEF ReceiveRequest
    <3> QED BY <3>1, <3>2
  <2>2. LoopsOK'
    BY <1>6, PartsKept DEF ReceiveRequest, handlerVars
  <2> QED BY <1>4, <2>1, <2>2, PartsNext, PartsKept DEF ReceiveRequest
<1> QED BY <1>5, <1>6

\* A loop asks for a request.
LEMMA AskTyped ==
  ASSUME Typed, NEW h \in Handlers, AskRequest(h)
  PROVE  Typed'
<1> DEFINE id == rpc_id(Serves[h])
           q  == Buffered(id)
<1>1. id \in Ids
  BY RpcAssumption DEF Ids
<1>2. q \in Seq(Requests)
  BY <1>1, BufferedType
<1>3. CASE stopped
  <2>1. LoopsOK'
    BY <1>3, Parts DEF AskRequest, LoopsOK
  <2> QED BY <1>3, <2>1, PartsNext, PartsKept DEF AskRequest
<1>4. CASE ~stopped /\ q = <<>>
  <2>1. LoopsOK'
    BY <1>4, Parts DEF AskRequest, LoopsOK
  <2>2. ChannelsOK'
    <3>1. <<>> \in Seq(Requests) /\ Len(<<>>) <= ChannelSize
      BY RpcAssumption, Emptied
    <3>2. channels' = [channels EXCEPT ![id] = <<>>]
      BY <1>4 DEF AskRequest
    <3> QED BY <1>1, <3>1, <3>2, Parts DEF ChannelsOK
  <2> QED BY <1>4, <2>1, <2>2, PartsNext, PartsKept DEF AskRequest
<1>5. CASE ~stopped /\ q # <<>>
  <2>1. Head(q) \in Requests /\ Tail(q) \in Seq(Requests) /\ Len(Tail(q)) <= Len(q)
    BY <1>2, <1>5
  <2>2. LoopsOK'
    BY <1>5, <2>1, ReceivesTyped DEF AskRequest
  <2>3. ChannelsOK'
    <3>1. channels[id] # Null /\ q = channels[id]
      BY <1>5 DEF Buffered
    <3>2. Len(Tail(q)) <= ChannelSize
      BY <1>1, <1>2, <2>1, <3>1, Parts, RpcAssumption DEF ChannelsOK
    <3>3. channels' = [channels EXCEPT ![id] = Tail(q)]
      BY <1>5 DEF AskRequest, Popped
    <3> QED BY <1>1, <2>1, <3>2, <3>3, Parts DEF ChannelsOK
  <2> QED BY <1>5, <2>2, <2>3, PartsNext, PartsKept DEF AskRequest
<1> QED BY <1>3, <1>4, <1>5

\* A loop goes round.
LEMMA RoundTyped ==
  ASSUME Typed, NEW h \in Handlers, GoesRound(h) \/ Caught(h)
  PROVE  LoopsOK'
BY Parts DEF GoesRound, Caught, LoopsOK

\* A loop handles its request.
LEMMA RunTyped ==
  ASSUME Typed, NEW h \in Handlers, ParseRequest(h) \/ (at[h] = "running" /\ Runs(h))
  PROVE  Typed'
<1>1. /\ at[h] \in {"got", "running"} /\ holds[h] \in Requests
      /\ holds[h].call \in Calls /\ holds[h].cmd \in Ids
      /\ holds[h].seq \in Nat /\ holds[h].seq = seq[holds[h].call]
  <2>1. at[h] \in {"got", "running"} BY DEF ParseRequest
  <2> QED BY <2>1, Parts DEF LoopsOK, Requests, OfItsCall
<1>2. CASE ParseRequest(h)
  <2>1. LoopsOK'
    BY <1>2, Parts, RoundTyped DEF ParseRequest, LoopsOK
  <2>2. HistoryOK'
    BY <1>1, <1>2, Parts DEF ParseRequest, HistoryOK
  <2> QED BY <1>2, <2>1, <2>2, PartsNext, PartsKept DEF ParseRequest, handlerFrame
<1>3. CASE HandlerThrows(h)
  BY <1>3, PartsNext, RoundTyped, PartsKept DEF HandlerThrows, handlerFrame
<1>4. ASSUME NEW outcome \in Results(h), HandlerReturns(h, outcome)
      PROVE  Typed'
  <2> DEFINE c == holds[h].call
  <2>1. outcome \in Outcomes /\ outcome.ec \in Nat /\ outcome.of \in Calls \cup {Null}
    BY <1>1, OutcomesHold, RpcAssumption DEF Results, Value, Error
  <2>2. [call |-> c, cmd |-> holds[h].cmd, seq |-> holds[h].seq, ec |-> outcome.ec,
         body |-> outcome.of, by |-> IF outcome.kind = "value" THEN h ELSE Null] \in Responses
    BY <1>1, <2>1 DEF Responses, OfItsCall
  <2>3. LoopsOK'
    BY <1>1, <1>4, <2>2, Parts DEF HandlerReturns, LoopsOK
  <2>4. HistoryOK'
    BY <1>1, <1>4, <2>1, Parts DEF HandlerReturns, HistoryOK
  <2> QED BY <1>4, <2>3, <2>4, PartsNext, PartsKept DEF HandlerReturns, handlerFrame
<1> QED BY <1>2, <1>3, <1>4 DEF Runs

\* A loop sends its response, or tries to.
LEMMA SendTyped ==
  ASSUME Typed, AnswersReturned, NEW h \in Handlers,
         SendResponse(h) \/ SendStalls(h) \/ SendFails(h)
  PROVE  Typed'
<1>1. CASE SendResponse(h)
  <2>1. WireOK'
    <3>1. answer[h] \in Responses
      BY <1>1 DEF AnswersReturned, SendResponse
    <3>2. toClient \in Seq(Responses) /\ Append(toClient, answer[h]) \in Seq(Responses)
      BY <3>1, Parts DEF WireOK
    <3> QED BY <1>1, <3>2, Parts DEF SendResponse, WireOK, handlerFrame
  <2>2. LoopsOK'
    BY <1>1, RoundTyped DEF SendResponse
  <2> QED BY <1>1, <2>1, <2>2, PartsNext, PartsKept DEF SendResponse, handlerFrame
<1>2. CASE SendStalls(h)
  <2>1. LoopsOK'
    BY <1>2, Parts DEF SendStalls, LoopsOK
  <2> QED BY <1>2, <2>1, PartsNext, PartsKept DEF SendStalls, handlerFrame
<1>3. CASE SendFails(h)
  BY <1>3, PartsNext, RoundTyped, PartsKept DEF SendFails, handlerFrame
<1> QED BY <1>1, <1>2, <1>3

\* The server stops.
LEMMA StopTyped ==
  ASSUME Typed, StopHandler \/ RunReturns \/ \E force \in BOOLEAN : Stop(force)
  PROVE  Typed'
<1>1. ASSUME NEW force \in BOOLEAN, Stop(force)
      PROVE  Typed'
  <2>1. FlagsOK'
    BY <1>1, Parts DEF Stop, FlagsOK, linkVars
  <2> QED BY <1>1, <2>1, PartsNext, PartsKept DEF Stop
<1>2. CASE StopHandler
  <2>1. FlagsOK' /\ WireOK'
    <3>1. halted' \in BOOLEAN
      BY <1>2 DEF StopHandler
    <3>2. /\ UNCHANGED <<stopped, ranOut, clientUp, toClient>>
          /\ stop' = "done" /\ serverUp' = FALSE /\ toServer' = <<>>
      BY <1>2 DEF StopHandler
    <3> QED BY <3>1, <3>2, Parts, Emptied DEF FlagsOK, WireOK
  <2>2. LoopsOK'
    BY <1>2, Parts DEF StopHandler, ReceivesCancelled, LoopsOK
  <2> QED BY <1>2, <2>1, <2>2, PartsNext, PartsKept DEF StopHandler
<1>3. CASE RunReturns
  <2>1. FlagsOK'
    BY <1>3, Parts DEF RunReturns, FlagsOK, linkVars
  <2> QED BY <1>3, <2>1, PartsNext, PartsKept DEF RunReturns
<1> QED BY <1>1, <1>2, <1>3

\* Every step keeps the types.
LEMMA StepTyped ==
  ASSUME Typed, AnswersReturned, [Next]_vars
  PROVE  Typed'
<1>1. ASSUME NEW h \in Handlers, HandlerStep(h)
      PROVE  Typed'
  BY <1>1, AskTyped, RunTyped, SendTyped DEF HandlerStep
<1>2. CASE UNCHANGED vars
  BY <1>2, PartsNext, PartsKept DEF vars
<1> QED BY <1>1, <1>2, CallTyped, LinkTyped, ReceiveTyped, StopTyped DEF Next

-----------------------------------------------------------------------------
(* Where requests go.                                                      *)

\* A channel that is there has what is in it; one just made has nothing.
LEMMA BufferedNow ==
  ASSUME Typed, NEW id \in Ids, NEW q \in Seq(Requests), channels' = [channels EXCEPT ![id] = q]
  PROVE  /\ Buffered(id)' = q
         /\ \A a \in Ids \ {id} : Buffered(a)' = Buffered(a)
BY NullAssumption DEF Typed, Buffered

\* A request that is sent is its call's first and only one.
LEMMA CallPlaces ==
  ASSUME Typed, Places, NEW c \in Calls, CallStep(c)
  PROVE  Places'
<1>1. CASE CallTimesOut(c)
  <2>1. \A d \in Calls : pc'[d] = "idle" <=> pc[d] = "idle"
    BY <1>1, Parts DEF CallTimesOut, EndsWith, CallsOK
  <2>2. UNCHANGED <<toServer, channels, at, holds, runs, again, name>>
    BY <1>1 DEF CallTimesOut, handlerVars, historyVars
  <2>3. NoneTwice(toServer')
    BY <2>2 DEF Places, OnePlace
  <2> QED BY <2>1, <2>2, <2>3, NothingMoves
<1>2. ASSUME NEW n \in Names, NEW good \in BOOLEAN, Call(c, n, good)
      PROVE  Places'
  <2> DEFINE r == [call |-> c, cmd |-> rpc_id(n), seq |-> seq[c], good |-> good]
  <2>1. r \in Requests /\ r.call = c /\ r.cmd = rpc_id(n)
    BY RpcAssumption DEF Requests, OfItsCall, Ids
  <2>2. toServer \in Seq(Requests)
    BY Parts DEF WireOK
  <2>3. /\ c \notin CallsIn(toServer) /\ c \notin Run
        /\ \A id \in Ids : c \notin CallsIn(Buffered(id))
        /\ \A h \in Handlers : c \notin Held(h)
    BY <1>2 DEF Call, Places, OnlyCalled
  <2>4. /\ toServer' = toServer \/ toServer' = Append(toServer, r)
        /\ UNCHANGED <<channels, at, holds, runs, again>>
    BY <1>2 DEF Call, handlerVars, historyVars
  <2> HIDE DEF r
  <2>5. /\ toServer' \in Seq(Requests) /\ NoneTwice(toServer')
        /\ CallsIn(toServer') \subseteq CallsIn(toServer) \cup {c}
        /\ \A i \in DOMAIN toServer' :
             (i \in DOMAIN toServer /\ toServer'[i] = toServer[i]) \/ toServer'[i] = r
    <3>1. NoneTwice(toServer)
      BY DEF Places, OnePlace
    <3>2. CASE toServer' = toServer
      BY <2>2, <3>1, <3>2
    <3>3. CASE toServer' = Append(toServer, r)
      BY <2>1, <2>2, <2>3, <3>1, <3>3, PutIn
    <3> QED BY <2>4, <3>2, <3>3
  <2>6. /\ name'[c] = n /\ \A d \in Calls \ {c} : name'[d] = name[d] /\ pc'[d] = pc[d]
        /\ pc'[c] # "idle"
    BY <1>2, Parts DEF Call, EndsWith, CallsOK
  <2>7. /\ \A id \in Ids : Buffered(id)' = Buffered(id)
        /\ \A h \in Handlers : Held(h)' = Held(h)
        /\ Run' = Run
    BY <2>4 DEF Buffered, Held, Run
  <2>8. OnePlace'
    <3>1. (Run \cap CallsIn(toServer))' = {}
      BY <2>3, <2>5, <2>7 DEF Places, OnePlace
    <3>2. \A h \in Handlers : (Held(h) \cap CallsIn(toServer))' = {}
      BY <2>3, <2>5, <2>7 DEF Places, OnePlace
    <3>3. \A id \in Ids : (CallsIn(Buffered(id)) \cap CallsIn(toServer))' = {}
      BY <2>3, <2>5, <2>7 DEF Places, OnePlace
    <3>4. \A id \in Ids : /\ NoneTwice(Buffered(id))' /\ (Run \cap CallsIn(Buffered(id)))' = {}
      BY <2>7 DEF Places, OnePlace
    <3>5. \A a, b \in Ids : a # b => (CallsIn(Buffered(a)) \cap CallsIn(Buffered(b)))' = {}
      BY <2>7 DEF Places, OnePlace
    <3>6. \A h \in Handlers : /\ (Held(h) \cap Run)' = {}
                              /\ \A id \in Ids : (Held(h) \cap CallsIn(Buffered(id)))' = {}
                              /\ \A g \in Handlers : g # h => (Held(g) \cap Held(h))' = {}
      BY <2>7 DEF Places, OnePlace
    <3> QED BY <2>5, <3>1, <3>2, <3>3, <3>4, <3>5, <3>6 DEF OnePlace
  <2>9. OnlyCalled'
    <3> SUFFICES ASSUME NEW d \in Calls, pc'[d] = "idle"
                 PROVE  /\ d \notin CallsIn(toServer)' /\ d \notin Run'
                        /\ \A id \in Ids : d \notin CallsIn(Buffered(id))'
                        /\ \A h \in Handlers : d \notin Held(h)'
      BY DEF OnlyCalled
    <3>1. d # c /\ pc[d] = "idle"
      BY <2>6
    <3> QED BY <3>1, <2>5, <2>7 DEF Places, OnlyCalled
  <2>10. ByName'
    <3>1. \A i \in DOMAIN toServer : toServer[i].call # c /\ toServer[i].call \in Calls
      BY <2>2, <2>3, OneIn
    <3>2. Named(toServer)'
      <4> SUFFICES ASSUME NEW i \in DOMAIN toServer'
                   PROVE  toServer'[i].cmd = rpc_id(name'[toServer'[i].call])
        BY DEF Named
      <4>1. CASE toServer'[i] = r
        BY <4>1, <2>1, <2>6
      <4>2. CASE i \in DOMAIN toServer /\ toServer'[i] = toServer[i]
        BY <4>2, <3>1, <2>6 DEF Places, ByName, Named
      <4> QED BY <4>1, <4>2, <2>5
    <3>3. ASSUME NEW id \in Ids, NEW i \in DOMAIN Buffered(id)
          PROVE  /\ Buffered(id)[i].cmd = id
                 /\ rpc_id(name'[Buffered(id)[i].call]) = id
      <4>1. Buffered(id)[i].call \in Calls /\ Buffered(id)[i].call # c
        BY <2>3, BufferedType, OneIn
      <4> QED BY <4>1, <2>6 DEF Places, ByName
    <3>4. ASSUME NEW h \in Handlers, at'[h] = "got"
          PROVE  rpc_id(name'[holds'[h].call]) = rpc_id(Serves[h])
      <4>1. at[h] = "got" /\ holds'[h] = holds[h]
        BY <3>4, <2>4
      <4>2. holds[h].call \in Calls /\ holds[h].call # c
        BY <4>1, <2>3, Parts DEF Held, LoopsOK, Requests, OfItsCall
      <4> QED BY <4>1, <4>2, <2>6 DEF Places, ByName
    <3>5. ASSUME NEW x \in runs
          PROVE  Serves[x[2]] = name'[x[1]]
      <4>1. x[1] \in Calls /\ x[1] # c
        BY <2>3, Parts DEF Run, HistoryOK
      <4> QED BY <4>1, <2>6 DEF Places, ByName
    <3>6. \A d \in Calls : pc'[d] # "idle" => name'[d] \in Names
      BY <2>6 DEF Places, ByName
    <3> QED BY <3>2, <3>3, <3>4, <3>5, <3>6, <2>4, <2>7 DEF Places, ByName
  <2> QED BY <2>8, <2>9, <2>10 DEF Places
<1> QED BY <1>1, <1>2 DEF CallStep

\* The server's part: from the wire to a loop, into the channel, or nowhere.
LEMMA ReceivePlaces ==
  ASSUME Typed, Places, ReceiveRequest
  PROVE  Places'
<1> DEFINE r == Head(toServer)
           c == r.call
<1>1. toServer \in Seq(Requests) /\ toServer # <<>>
  BY Parts DEF ReceiveRequest, WireOK
<1>2. /\ r \in Requests /\ r = toServer[1] /\ 1 \in DOMAIN toServer
      /\ c \in CallsIn(toServer) /\ toServer' = Tail(toServer)
      /\ Tail(toServer) \in Seq(Requests) /\ CallsIn(Tail(toServer)) \subseteq CallsIn(toServer)
      /\ \A i \in DOMAIN Tail(toServer) :
           i + 1 \in DOMAIN toServer /\ Tail(toServer)[i] = toServer[i + 1]
      /\ NoneTwice(toServer) => NoneTwice(Tail(toServer)) /\ c \notin CallsIn(Tail(toServer))
  BY <1>1, TakenOut DEF ReceiveRequest
<1>3. r.cmd \in Ids /\ c \in Calls /\ r.cmd = rpc_id(name[c])
  BY <1>2 DEF Requests, OfItsCall, Places, ByName, Named
<1>4. NoneTwice(toServer') /\ c \notin CallsIn(toServer')
  BY <1>2 DEF Places, OnePlace
<1>5. /\ c \notin Run
      /\ \A id \in Ids : c \notin CallsIn(Buffered(id))
      /\ \A h \in Handlers : c \notin Held(h)
  BY <1>2 DEF Places, OnePlace
<1>6. UNCHANGED <<pc, name, runs, again>> /\ Run' = Run
  BY DEF ReceiveRequest, callVars, historyVars, Run
<1>7. \A i \in DOMAIN toServer' : \E j \in DOMAIN toServer : toServer'[i] = toServer[j]
  BY <1>2
<1>8. pc[c] # "idle"
  BY <1>2, <1>3 DEF Places, OnlyCalled
<1> HIDE DEF r, c
<1>9. CASE WaitingFor(r.cmd) # {}
  <2>1. UNCHANGED channels /\ \A id \in Ids : Buffered(id)' = Buffered(id)
    BY <1>9 DEF ReceiveRequest, Buffered, r
  <2>2. PICK h \in Handlers : at[h] = "waiting" /\ rpc_id(Serves[h]) = r.cmd /\ Receives(h, r)
    BY <1>9 DEF ReceiveRequest, WaitingFor, r
  <2>3. /\ at'[h] = "got" /\ holds'[h] = r /\ Held(h)' = {c}
        /\ \A g \in Handlers \ {h} : at'[g] = at[g] /\ holds'[g] = holds[g] /\ Held(g)' = Held(g)
    BY <2>2, Parts DEF Receives, LoopsOK, Held, c
  <2>4. OnePlace'
    <3>1. \A g \in Handlers : /\ (Held(g) \cap CallsIn(toServer))' = {}
                              /\ (Held(g) \cap Run)' = {}
      BY <2>3, <1>2, <1>4, <1>5, <1>6 DEF Places, OnePlace
    <3>2. \A g \in Handlers, id \in Ids : (Held(g) \cap CallsIn(Buffered(id)))' = {}
      BY <2>1, <2>3, <1>5 DEF Places, OnePlace
    <3>3. \A f, g \in Handlers : f # g => (Held(f) \cap Held(g))' = {}
      BY <2>3, <1>5 DEF Places, OnePlace
    <3>4. \A id \in Ids : /\ NoneTwice(Buffered(id))' /\ (Run \cap CallsIn(Buffered(id)))' = {}
                          /\ (CallsIn(Buffered(id)) \cap CallsIn(toServer))' = {}
      BY <2>1, <1>2, <1>6 DEF Places, OnePlace
    <3>5. \A a, b \in Ids : a # b => (CallsIn(Buffered(a)) \cap CallsIn(Buffered(b)))' = {}
      BY <2>1 DEF Places, OnePlace
    <3>6. (Run \cap CallsIn(toServer))' = {}
      BY <1>2, <1>6 DEF Places, OnePlace
    <3> QED BY <1>4, <3>1, <3>2, <3>3, <3>4, <3>5, <3>6 DEF OnePlace
  <2>5. OnlyCalled'
    BY <1>2, <1>6, <1>8, <2>1, <2>3 DEF Places, OnlyCalled
  <2>6. ByName'
    <3>1. \A g \in Handlers : at'[g] = "got" => rpc_id(name[holds'[g].call]) = rpc_id(Serves[g])
      BY <1>3, <2>2, <2>3 DEF Places, ByName, c
    <3>2. Named(toServer)'
      BY <1>6, <1>7 DEF Places, ByName, Named
    <3> QED BY <3>1, <3>2, <1>6, <2>1 DEF Places, ByName
  <2> QED BY <2>4, <2>5, <2>6 DEF Places
<1>10. CASE WaitingFor(r.cmd) = {} /\ channels[r.cmd] # Null /\ HasRoom(channels[r.cmd])
  <2>0. PICK d \in Ids : d = r.cmd
    BY <1>3
  <2> DEFINE q == Buffered(d)
  <2>1. q \in Seq(Requests) /\ q = channels[d]
    BY <2>0, <1>10, BufferedType DEF Buffered
  <2>2. channels' = [channels EXCEPT ![d] = Append(q, r)] /\ UNCHANGED <<at, holds>>
    BY <1>10, <2>0, <2>1 DEF ReceiveRequest, r
  <2>3. /\ Append(q, r) \in Seq(Requests) /\ CallsIn(Append(q, r)) = CallsIn(q) \cup {c}
        /\ NoneTwice(Append(q, r))
        /\ \A i \in DOMAIN Append(q, r) :
             (i \in DOMAIN q /\ Append(q, r)[i] = q[i]) \/ Append(q, r)[i] = r
    <3>1. NoneTwice(q) /\ c \notin CallsIn(q)
      BY <1>5 DEF Places, OnePlace
    <3> QED BY <1>2, <2>1, <3>1, PutIn DEF c
  <2>4. Buffered(d)' = Append(q, r) /\ \A a \in Ids \ {d} : Buffered(a)' = Buffered(a)
    BY <2>2, <2>3, BufferedNow
  <2>5. \A h \in Handlers : Held(h)' = Held(h)
    BY <2>2 DEF Held
  <2>6. \A id \in Ids :
          /\ CallsIn(Buffered(id)') \subseteq CallsIn(Buffered(id)) \cup {c}
          /\ id # d => CallsIn(Buffered(id)') = CallsIn(Buffered(id))
          /\ NoneTwice(Buffered(id)')
    <3>1. /\ CallsIn(Buffered(d)') = CallsIn(Buffered(d)) \cup {c}
          /\ NoneTwice(Buffered(d)')
      BY <2>3, <2>4
    <3>2. \A id \in Ids \ {d} : /\ CallsIn(Buffered(id)') = CallsIn(Buffered(id))
                                /\ NoneTwice(Buffered(id)')
      BY <2>4 DEF Places, OnePlace
    <3> QED BY <3>1, <3>2
  <2>7. OnePlace'
    <3>1. \A g \in Handlers : /\ (Held(g) \cap CallsIn(toServer))' = {}
                              /\ (Held(g) \cap Run)' = {}
      BY <2>5, <1>2, <1>6 DEF Places, OnePlace
    <3>2. \A g \in Handlers, id \in Ids : (Held(g) \cap CallsIn(Buffered(id)))' = {}
      BY <2>5, <2>6, <1>5 DEF Places, OnePlace
    <3>3. \A f, g \in Handlers : f # g => (Held(f) \cap Held(g))' = {}
      BY <2>5 DEF Places, OnePlace
    <3>4. \A id \in Ids : /\ NoneTwice(Buffered(id)') /\ (Run \cap CallsIn(Buffered(id)))' = {}
                          /\ (CallsIn(Buffered(id)) \cap CallsIn(toServer))' = {}
      BY <2>6, <1>2, <1>4, <1>5, <1>6 DEF Places, OnePlace
    <3>5. \A a, b \in Ids : a # b => (CallsIn(Buffered(a)) \cap CallsIn(Buffered(b)))' = {}
      BY <2>6, <1>5 DEF Places, OnePlace
    <3>6. (Run \cap CallsIn(toServer))' = {}
      BY <1>2, <1>6 DEF Places, OnePlace
    <3> QED BY <1>4, <3>1, <3>2, <3>3, <3>4, <3>5, <3>6 DEF OnePlace
  <2>8. OnlyCalled'
    BY <1>2, <1>6, <1>8, <2>5, <2>6 DEF Places, OnlyCalled
  <2>9. ByName'
    <3>1. ASSUME NEW id \in Ids, NEW i \in DOMAIN Buffered(id)'
          PROVE  Buffered(id)'[i].cmd = id /\ rpc_id(name[Buffered(id)'[i].call]) = id
      <4>1. CASE id # d
        BY <4>1, <2>4, <3>1 DEF Places, ByName
      <4>2. CASE id = d
        <5>1. CASE Append(q, r)[i] = r
          BY <4>2, <5>1, <2>4, <2>0, <1>3 DEF c
        <5>2. CASE i \in DOMAIN q /\ Append(q, r)[i] = q[i]
          BY <4>2, <5>2, <2>4 DEF Places, ByName
        <5> QED BY <4>2, <5>1, <5>2, <2>3, <2>4, <3>1
      <4> QED BY <4>1, <4>2
    <3>2. Named(toServer)'
      BY <1>6, <1>7 DEF Places, ByName, Named
    <3> QED BY <3>1, <3>2, <1>6, <2>2 DEF Places, ByName
  <2> QED BY <2>7, <2>8, <2>9 DEF Places
<1>11. CASE /\ WaitingFor(r.cmd) = {}
            /\ ~(channels[r.cmd] # Null /\ HasRoom(channels[r.cmd]))
  <2>1. UNCHANGED <<channels, at, holds>>
    BY <1>11 DEF ReceiveRequest, r
  <2> QED BY <1>2, <1>4, <1>6, <1>7, <2>1, NothingMoves
<1> QED BY <1>9, <1>10, <1>11

\* A loop takes a request out of the channel.
LEMMA AskPlaces ==
  ASSUME Typed, Places, NEW h \in Handlers, AskRequest(h)
  PROVE  Places'
<1> DEFINE id == rpc_id(Serves[h])
           q  == Buffered(id)
<1>1. id \in Ids /\ q \in Seq(Requests)
  BY RpcAssumption, BufferedType DEF Ids
<1>2. /\ UNCHANGED <<toServer, pc, name, runs, again>> /\ Run' = Run
      /\ at[h] = "asking" /\ Held(h) = {}
  BY DEF AskRequest, callVars, historyVars, Run, Held
<1>3. NoneTwice(toServer')
  BY <1>2 DEF Places, OnePlace
<1>4. CASE stopped
  <2>1. UNCHANGED <<channels, holds>> /\ at' = [at EXCEPT ![h] = "ended"]
    BY <1>4 DEF AskRequest
  <2>2. \A g \in Handlers : at'[g] = "got" => at[g] = "got" /\ holds'[g] = holds[g]
    BY <2>1, Parts DEF LoopsOK
  <2> QED BY <1>2, <1>3, <2>1, <2>2, NothingMoves
<1>5. CASE ~stopped /\ q = <<>>
  <2>1. /\ UNCHANGED holds /\ at' = [at EXCEPT ![h] = "waiting"]
        /\ channels' = [channels EXCEPT ![id] = <<>>]
    BY <1>5 DEF AskRequest
  <2>2. \A g \in Handlers : at'[g] = "got" <=> at[g] = "got"
    BY <1>2, <2>1, Parts DEF LoopsOK
  <2>3. \A g \in Handlers : Held(g)' = Held(g)
    BY <2>1, <2>2 DEF Held
  <2>4. \A a \in Ids : Buffered(a)' = Buffered(a)
    BY <1>1, <1>5, <2>1, BufferedNow, Emptied
  <2>5. OnePlace' /\ OnlyCalled'
    BY <1>2, <2>3, <2>4 DEF Places, OnePlace, OnlyCalled
  <2>6. ByName'
    BY <1>2, <2>1, <2>2, <2>4 DEF Places, ByName, Named
  <2> QED BY <2>5, <2>6 DEF Places
<1>6. CASE ~stopped /\ q # <<>>
  <2> DEFINE r == Head(q)
             c == r.call
             t == Tail(q)
  <2>1. Receives(h, r) /\ channels' = [channels EXCEPT ![id] = t]
    BY <1>6 DEF AskRequest, Popped
  <2>2. /\ r \in Requests /\ r = q[1] /\ 1 \in DOMAIN q /\ c \in CallsIn(q) /\ t \in Seq(Requests)
        /\ CallsIn(t) \subseteq CallsIn(q)
        /\ \A i \in DOMAIN t : i + 1 \in DOMAIN q /\ t[i] = q[i + 1]
        /\ NoneTwice(q) => NoneTwice(t) /\ c \notin CallsIn(t)
    BY <1>1, <1>6, TakenOut
  <2>3. Buffered(id)' = t /\ \A a \in Ids \ {id} : Buffered(a)' = Buffered(a)
    BY <1>1, <2>1, <2>2, BufferedNow
  <2>4. /\ NoneTwice(Buffered(id)') /\ c \notin CallsIn(Buffered(id)')
        /\ CallsIn(Buffered(id)') \subseteq CallsIn(Buffered(id))
    BY <1>1, <2>2, <2>3 DEF Places, OnePlace
  <2>5. /\ c \in CallsIn(Buffered(id)) /\ c \notin CallsIn(toServer) /\ c \notin Run
        /\ \A a \in Ids \ {id} : c \notin CallsIn(Buffered(a))
        /\ \A g \in Handlers : c \notin Held(g)
    BY <1>1, <2>2 DEF Places, OnePlace
  <2>6. rpc_id(name[c]) = id
    BY <1>1, <2>2 DEF Places, ByName
  <2> HIDE DEF q, t, c, r
  <2>7. /\ at'[h] = "got" /\ holds'[h] = r /\ Held(h)' = {c}
        /\ \A g \in Handlers \ {h} : at'[g] = at[g] /\ holds'[g] = holds[g] /\ Held(g)' = Held(g)
    BY <2>1, Parts DEF Receives, LoopsOK, Held, c
  <2>8. \A a \in Ids : CallsIn(Buffered(a)') \subseteq CallsIn(Buffered(a))
    BY <2>3, <2>4
  <2>9. OnePlace'
    <3>1. \A g \in Handlers : /\ (Held(g) \cap CallsIn(toServer))' = {}
                              /\ (Held(g) \cap Run)' = {}
      BY <1>2, <2>5, <2>7 DEF Places, OnePlace
    <3>2. \A g \in Handlers, a \in Ids : (Held(g) \cap CallsIn(Buffered(a)))' = {}
      <4>1. \A a \in Ids : c \notin CallsIn(Buffered(a)')
        BY <2>3, <2>4, <2>5
      <4> QED BY <4>1, <2>7, <2>8 DEF Places, OnePlace
    <3>3. \A f, g \in Handlers : f # g => (Held(f) \cap Held(g))' = {}
      BY <2>5, <2>7 DEF Places, OnePlace
    <3>4. \A a \in Ids : /\ NoneTwice(Buffered(a)') /\ (Run \cap CallsIn(Buffered(a)))' = {}
                         /\ (CallsIn(Buffered(a)) \cap CallsIn(toServer))' = {}
      BY <1>2, <2>3, <2>4, <2>8 DEF Places, OnePlace
    <3>5. \A a, b \in Ids : a # b => (CallsIn(Buffered(a)) \cap CallsIn(Buffered(b)))' = {}
      BY <2>8 DEF Places, OnePlace
    <3>6. (Run \cap CallsIn(toServer))' = {}
      BY <1>2 DEF Places, OnePlace
    <3> QED BY <1>3, <3>1, <3>2, <3>3, <3>4, <3>5, <3>6 DEF OnePlace
  <2>10. OnlyCalled'
    <3>1. c \in Calls => pc[c] # "idle"
      BY <1>1, <2>5 DEF Places, OnlyCalled
    <3> QED BY <1>2, <2>7, <2>8, <3>1 DEF Places, OnlyCalled
  <2>11. ByName'
    <3>1. ASSUME NEW a \in Ids, NEW i \in DOMAIN Buffered(a)'
          PROVE  Buffered(a)'[i].cmd = a /\ rpc_id(name[Buffered(a)'[i].call]) = a
      <4>1. CASE a # id
        BY <4>1, <2>3, <3>1 DEF Places, ByName
      <4>2. CASE a = id
        <5>1. i + 1 \in DOMAIN Buffered(id) /\ Buffered(id)'[i] = Buffered(id)[i + 1]
          BY <4>2, <2>2, <2>3, <3>1 DEF q
        <5> QED BY <1>1, <4>2, <5>1 DEF Places, ByName
      <4> QED BY <4>1, <4>2
    <3>2. \A g \in Handlers : at'[g] = "got" => rpc_id(name[holds'[g].call]) = rpc_id(Serves[g])
      BY <2>6, <2>7 DEF Places, ByName, c
    <3> QED BY <3>1, <3>2, <1>2 DEF Places, ByName, Named
  <2> QED BY <2>9, <2>10, <2>11 DEF Places
<1> QED BY <1>4, <1>5, <1>6

\* A loop runs what it has, which none has run before.
LEMMA ParsePlaces ==
  ASSUME Typed, Places, NEW h \in Handlers, ParseRequest(h)
  PROVE  Places'
<1> DEFINE c == holds[h].call
<1>1. at[h] = "got" /\ Held(h) = {c} /\ c \in Calls
  <2>1. at[h] = "got" BY DEF ParseRequest
  <2>2. holds[h] \in Requests BY <2>1, Parts DEF LoopsOK
  <2> QED BY <2>1, <2>2 DEF Held, Requests, OfItsCall
<1>2. UNCHANGED <<toServer, channels, pc, name>> /\ NoneTwice(toServer')
      /\ \A id \in Ids : Buffered(id)' = Buffered(id)
  BY DEF ParseRequest, handlerFrame, callVars, Buffered, Places, OnePlace
<1>3. /\ at'[h] # "got"
      /\ \A g \in Handlers \ {h} : at'[g] = at[g] /\ holds'[g] = holds[g]
  BY Parts DEF ParseRequest, GoesRound, LoopsOK
<1>4. CASE holds[h].good
  <2>1. runs' = runs \cup {<<c, h>>}
    BY <1>4 DEF ParseRequest
  <2>2. Run' = Run \cup {c}
    <3>1. \A x \in runs' : x \in runs \/ x[1] = c
      BY <2>1
    <3>2. \E x \in runs' : x[1] = c
      <4>1. <<c, h>> \in runs' /\ <<c, h>>[1] = c
        BY <2>1
      <4> QED BY <4>1
    <3> QED BY <2>1, <3>1, <3>2 DEF Run
  <2>3. Held(h)' = {} /\ \A g \in Handlers \ {h} : Held(g)' = Held(g)
    BY <1>3 DEF Held
  <2>4. /\ c \notin Run /\ c \notin CallsIn(toServer)
        /\ \A id \in Ids : c \notin CallsIn(Buffered(id))
        /\ \A g \in Handlers \ {h} : c \notin Held(g)
    BY <1>1 DEF Places, OnePlace
  <2>5. again' = {}
    <3>1. \A g \in Handlers : <<c, g>> \notin runs
      BY <2>4 DEF Run
    <3> QED BY <1>4, <3>1 DEF ParseRequest, Places, ByName
  <2>6. OnePlace'
    <3>1. \A g \in Handlers : /\ (Held(g) \cap CallsIn(toServer))' = {}
                              /\ (Held(g) \cap Run)' = {}
      BY <1>2, <2>2, <2>3, <2>4 DEF Places, OnePlace
    <3>2. \A g \in Handlers, a \in Ids : (Held(g) \cap CallsIn(Buffered(a)))' = {}
      BY <1>2, <2>3 DEF Places, OnePlace
    <3>3. \A f, g \in Handlers : f # g => (Held(f) \cap Held(g))' = {}
      BY <2>3 DEF Places, OnePlace
    <3>4. \A a \in Ids : /\ NoneTwice(Buffered(a)') /\ (Run \cap CallsIn(Buffered(a)))' = {}
                         /\ (CallsIn(Buffered(a)) \cap CallsIn(toServer))' = {}
      BY <1>2, <2>2, <2>4 DEF Places, OnePlace
    <3>5. \A a, b \in Ids : a # b => (CallsIn(Buffered(a)) \cap CallsIn(Buffered(b)))' = {}
      BY <1>2 DEF Places, OnePlace
    <3>6. (Run \cap CallsIn(toServer))' = {}
      BY <1>2, <2>2, <2>4 DEF Places, OnePlace
    <3> QED BY <1>2, <3>1, <3>2, <3>3, <3>4, <3>5, <3>6 DEF OnePlace
  <2>7. OnlyCalled'
    <3>1. pc[c] # "idle"
      BY <1>1 DEF Places, OnlyCalled
    <3> QED BY <1>2, <2>2, <2>3, <3>1 DEF Places, OnlyCalled
  <2>8. ByName'
    <3>1. Serves[h] = name[c]
      <4>1. rpc_id(name[c]) = rpc_id(Serves[h]) /\ name[c] \in Names /\ Serves[h] \in Names
        BY <1>1, RpcAssumption DEF Places, ByName, OnlyCalled
      <4> QED BY <4>1, RpcAssumption DEF rpc_id
    <3>2. \A x \in runs' : Serves[x[2]] = name[x[1]]
      BY <2>1, <3>1 DEF Places, ByName
    <3>3. \A g \in Handlers : at'[g] = "got" => rpc_id(name[holds'[g].call]) = rpc_id(Serves[g])
      BY <1>3 DEF Places, ByName
    <3> QED BY <1>2, <2>5, <3>2, <3>3 DEF Places, ByName, Named
  <2> QED BY <2>6, <2>7, <2>8 DEF Places
<1>5. CASE ~holds[h].good
  <2>1. UNCHANGED <<runs, again>>
    BY <1>5 DEF ParseRequest
  <2> QED BY <1>2, <1>3, <2>1, NothingMoves
<1> QED BY <1>4, <1>5

\* Connections come and go with what is on the wire, responses arrive.
LEMMA LinkPlaces ==
  ASSUME Typed, Places, ResponseArrives \/ LinkStep
  PROVE  Places'
<1>1. UNCHANGED <<channels, at, holds, runs, again, name>>
  BY DEF ResponseArrives, LinkStep, Connect, ServerLeaves, ClientLeaves, handlerVars, callVars,
         historyVars
<1>2. \A c \in Calls : pc'[c] = "idle" <=> pc[c] = "idle"
  BY Parts, ArrivesForItsCall DEF LinkStep, Connect, ServerLeaves, ClientLeaves, EndsWith,
               callVars, CallsOK
<1>3. /\ NoneTwice(toServer') /\ CallsIn(toServer') \subseteq CallsIn(toServer)
      /\ \A i \in DOMAIN toServer' : \E j \in DOMAIN toServer : toServer'[i] = toServer[j]
  <2>1. NoneTwice(toServer) /\ toServer \in Seq(Requests)
    BY Parts DEF Places, OnePlace, WireOK
  <2>2. CASE toServer' = toServer
    BY <2>1, <2>2
  <2>3. CASE toServer' = <<>>
    BY <2>3, Emptied
  <2>4. ASSUME NEW n \in 0..Len(toServer), toServer' = SubSeq(toServer, 1, n)
        PROVE  /\ NoneTwice(toServer') /\ CallsIn(toServer') \subseteq CallsIn(toServer)
               /\ \A i \in DOMAIN toServer' : \E j \in DOMAIN toServer : toServer'[i] = toServer[j]
    BY <2>1, <2>4, CutOff
  <2> QED BY <2>2, <2>3, <2>4 DEF ResponseArrives, LinkStep, Connect, ServerLeaves, ClientLeaves
<1> QED BY <1>1, <1>2, <1>3, NothingMoves

\* A loop that returns, sends or gives up, and the server that stops, start nothing.
LEMMA OtherPlaces ==
  ASSUME Typed, Places,
         \/ \E h \in Handlers : \/ at[h] = "running" /\ Runs(h)
                                \/ SendResponse(h) \/ SendStalls(h) \/ SendFails(h)
         \/ \E force \in BOOLEAN : Stop(force)
         \/ StopHandler \/ RunReturns
  PROVE  Places'
<1>1. UNCHANGED <<channels, runs, again, name, pc>>
  BY DEF Runs, HandlerReturns, HandlerThrows, SendResponse, SendStalls, SendFails, Stop,
         StopHandler, RunReturns, handlerFrame, callVars, historyVars
<1>2. \A h \in Handlers : at'[h] = "got" => at[h] = "got" /\ holds'[h] = holds[h]
  BY Parts DEF Runs, HandlerReturns, HandlerThrows, SendResponse, SendStalls, SendFails, Stop,
               StopHandler, RunReturns, ReceivesCancelled, GoesRound, Caught, handlerVars, LoopsOK
<1>3. toServer' = toServer \/ toServer' = <<>>
  BY DEF Runs, HandlerReturns, HandlerThrows, SendResponse, SendStalls, SendFails, Stop,
         StopHandler, RunReturns, handlerFrame
<1>4. /\ NoneTwice(toServer') /\ CallsIn(toServer') \subseteq CallsIn(toServer)
      /\ \A i \in DOMAIN toServer' : \E j \in DOMAIN toServer : toServer'[i] = toServer[j]
  BY <1>3, Emptied DEF Places, OnePlace
<1> QED BY <1>1, <1>2, <1>4, NothingMoves

\* Every step keeps a request in one place.
LEMMA StepPlaces ==
  ASSUME Typed, Places, [Next]_vars
  PROVE  Places'
<1>1. ASSUME NEW h \in Handlers, HandlerStep(h)
      PROVE  Places'
  BY <1>1, AskPlaces, ParsePlaces, OtherPlaces DEF HandlerStep
<1>2. CASE UNCHANGED vars
  <2>1. UNCHANGED <<toServer, channels, at, holds, runs, again, name, pc>>
    BY <1>2 DEF vars, handlerVars, callVars, historyVars
  <2>2. NoneTwice(toServer')
    BY <2>1 DEF Places, OnePlace
  <2> QED BY <2>1, <2>2, NothingMoves
<1> QED BY <1>1, <1>2, CallPlaces, LinkPlaces, ReceivePlaces, OtherPlaces DEF Next

-----------------------------------------------------------------------------
(* What responses say.                                                     *)

\* What handlers have returned stays returned, and they stay run.
LEMMA AnsweredStays ==
  ASSUME NEW r \in Responses, NEW old, NEW new, NEW ran, NEW all, Answered(r, old, ran),
         \A c \in Calls : old[c] \subseteq new[c], ran \subseteq all
  PROVE  Answered(r, new, all)
<1>1. r.call \in Calls
  BY DEF Responses, OfItsCall
<1>2. old[r.call] \subseteq new[r.call]
  BY <1>1
<1> QED BY <1>2 DEF Answered, Says

\* What a call came back with is said by what handlers have returned.
LEMMA ResultsSaid ==
  ReturnsWhatHandlerDid <=>
    \A c \in Calls :
      result[c] \notin {Nothing, Thrown} => Says(result[c], c, returned, runs)
BY DEF ReturnsWhatHandlerDid, Unparsed, Says

\* And after a step.
LEMMA ResultsSaidNext ==
  ReturnsWhatHandlerDid' <=>
    \A c \in Calls :
      result'[c] \notin {Nothing, Thrown} => Says(result'[c], c, returned', runs')
BY DEF ReturnsWhatHandlerDid, Unparsed, Says

\* A step that sends nothing new and lets no call return keeps what responses say.
LEMMA NothingSaid ==
  ASSUME Typed, AnswersReturned,
         \A i \in DOMAIN toClient' : \E j \in DOMAIN toClient : toClient'[i] = toClient[j],
         \A h \in Handlers : at'[h] = "sending" => at[h] = "sending" /\ answer'[h] = answer[h],
         \A h \in Handlers : at'[h] = "running" => at[h] = "running" /\ holds'[h] = holds[h],
         \A c \in Calls : result'[c] = result[c] \/ result'[c] = Thrown,
         UNCHANGED <<returned, runs>>
  PROVE  AnswersReturned'
<1>1. \A i \in DOMAIN toClient' : Answered(toClient'[i], returned', runs')
  BY DEF AnswersReturned
<1>2. \A h \in Handlers : at'[h] = "sending" =>
        answer'[h] \in Responses /\ Answered(answer'[h], returned', runs')
  BY DEF AnswersReturned
<1>3. ReturnsWhatHandlerDid'
  BY ResultsSaid, ResultsSaidNext DEF AnswersReturned
<1>4. \A h \in Handlers : at'[h] = "running" => <<holds'[h].call, h>> \in runs'
  BY DEF AnswersReturned
<1> QED BY <1>1, <1>2, <1>3, <1>4 DEF AnswersReturned

\* Neither does what a loop runs, or returns, when more is said than before.
LEMMA MoreSaid ==
  ASSUME Typed, AnswersReturned, UNCHANGED <<toClient, result>>,
         \A c \in Calls : returned[c] \subseteq returned'[c],
         runs \subseteq runs'
  PROVE  /\ \A i \in DOMAIN toClient' : Answered(toClient'[i], returned', runs')
         /\ \A h \in Handlers : at[h] = "sending" =>
              answer[h] \in Responses /\ Answered(answer[h], returned', runs')
         /\ ReturnsWhatHandlerDid'
<1> PICK all : all = returned'
  OBVIOUS
<1> PICK ran : ran = runs'
  OBVIOUS
<1> PICK old : old = returned
  OBVIOUS
<1> PICK did : did = runs
  OBVIOUS
<1>1. (\A c \in Calls : old[c] \subseteq all[c]) /\ did \subseteq ran
  OBVIOUS
<1>2. \A r \in Responses : Answered(r, old, did) => Answered(r, all, ran)
  BY <1>1, AnsweredStays
<1>3. \A i \in DOMAIN toClient : toClient[i] \in Responses
  BY Parts DEF WireOK
<1>4. \A i \in DOMAIN toClient' : Answered(toClient'[i], all, ran)
  BY <1>2, <1>3 DEF AnswersReturned
<1>5. \A h \in Handlers : at[h] = "sending" =>
        answer[h] \in Responses /\ Answered(answer[h], all, ran)
  BY <1>2 DEF AnswersReturned
<1>6. ReturnsWhatHandlerDid'
  <2>1. \A c \in Calls : Says(result[c], c, old, did) => Says(result[c], c, all, ran)
    BY <1>1 DEF Says
  <2> QED BY <2>1, ResultsSaid, ResultsSaidNext DEF AnswersReturned
<1> QED BY <1>4, <1>5, <1>6

\* A loop runs the request it has.
LEMMA ParseAnswers ==
  ASSUME Typed, AnswersReturned, NEW h \in Handlers, ParseRequest(h)
  PROVE  AnswersReturned'
<1>1. UNCHANGED <<toClient, result, returned>> /\ runs \subseteq runs'
  BY DEF ParseRequest, handlerFrame, callVars
<1>2. /\ \A g \in Handlers : at'[g] = "sending" => at[g] = "sending" /\ answer'[g] = answer[g]
      /\ \A g \in Handlers \ {h} : at'[g] = at[g] /\ holds'[g] = holds[g]
  BY Parts DEF ParseRequest, GoesRound, LoopsOK
<1>3. ASSUME NEW g \in Handlers, at'[g] = "running"
      PROVE  <<holds'[g].call, g>> \in runs'
  <2>1. CASE g = h
    <3>1. holds[h].good
      BY <1>3, <2>1, Parts DEF ParseRequest, GoesRound, LoopsOK
    <3> QED BY <2>1, <3>1 DEF ParseRequest
  <2>2. CASE g # h
    BY <1>1, <1>2, <1>3, <2>2 DEF AnswersReturned
  <2> QED BY <2>1, <2>2
<1> QED BY <1>1, <1>2, <1>3, MoreSaid DEF AnswersReturned

\* A call returns what it makes of its response.
LEMMA ArrivesAnswers ==
  ASSUME Typed, AnswersReturned, ResponseArrives
  PROVE  AnswersReturned'
<1> DEFINE r == Head(toClient)
<1>1. toClient \in Seq(Responses) /\ toClient # <<>>
  BY Parts DEF ResponseArrives, WireOK
<1>2. /\ r \in Responses /\ Answered(r, returned, runs) /\ r.call \in Calls
      /\ \A i \in DOMAIN Tail(toClient) :
           i + 1 \in DOMAIN toClient /\ Tail(toClient)[i] = toClient[i + 1]
  <2>1. /\ r \in Responses /\ r = toClient[1] /\ 1 \in DOMAIN toClient
        /\ \A i \in DOMAIN Tail(toClient) :
             i + 1 \in DOMAIN toClient /\ Tail(toClient)[i] = toClient[i + 1]
    BY <1>1
  <2> QED BY <2>1 DEF AnswersReturned, Responses, OfItsCall
<1>3. UNCHANGED <<returned, runs, at, holds, answer>> /\ toClient' = Tail(toClient)
  BY DEF ResponseArrives, handlerVars, historyVars
<1>4. \A i \in DOMAIN toClient' : Answered(toClient'[i], returned', runs')
  BY <1>2, <1>3 DEF AnswersReturned
<1>5. ReturnsWhatHandlerDid'
  <2>1. result' = result \/ result' = [result EXCEPT ![r.call] = Parsed(r.call, r)]
    BY ArrivesForItsCall DEF EndsWith
  <2>2. \A c \in Calls : \/ result'[c] = result[c]
                         \/ c = r.call /\ result'[c] = Parsed(r.call, r)
    BY <2>1, Parts DEF CallsOK
  <2> QED BY <1>2, <1>3, <2>2, ResultsSaid, ResultsSaidNext DEF AnswersReturned, Answered
<1> QED BY <1>3, <1>4, <1>5 DEF AnswersReturned

\* A handler's response says what it returned.
LEMMA ReturnsAnswers ==
  ASSUME Typed, AnswersReturned, NEW h \in Handlers, NEW outcome \in Results(h),
         HandlerReturns(h, outcome)
  PROVE  AnswersReturned'
<1> DEFINE c == holds[h].call
           a == [call |-> c, cmd |-> holds[h].cmd, seq |-> holds[h].seq,
                 ec |-> outcome.ec, body |-> outcome.of,
                 by |-> IF outcome.kind = "value" THEN h ELSE Null]
<1>1. /\ at[h] = "running" /\ holds[h] \in Requests
      /\ c \in Calls /\ holds[h].cmd \in Ids /\ holds[h].seq \in Nat /\ holds[h].seq = seq[c]
  <2>1. at[h] = "running" BY DEF HandlerReturns
  <2>2. holds[h] \in Requests BY <2>1, Parts DEF LoopsOK
  <2> QED BY <2>1, <2>2 DEF Requests, OfItsCall
<1>2. /\ at' = [at EXCEPT ![h] = "sending"] /\ answer' = [answer EXCEPT ![h] = a]
      /\ returned' = [returned EXCEPT ![c] = @ \cup {outcome}]
      /\ UNCHANGED <<toClient, result, runs, holds>>
  BY DEF HandlerReturns, handlerFrame, callVars
<1>3. /\ outcome \in returned'[c]
      /\ \A d \in Calls : returned[d] \subseteq returned'[d]
  BY <1>1, <1>2, Parts DEF HistoryOK
<1>4. <<c, h>> \in runs'
  BY <1>1, <1>2 DEF AnswersReturned
<1>5. a \in Responses /\ a.call = c
  <2>1. outcome.ec \in Nat /\ outcome.of \in Calls \cup {Null}
    <3>1. outcome = Value(c) \/ \E e \in Codes : outcome = Error(e)
      BY DEF Results
    <3>2. \A e \in Codes : e \in Nat
      BY RpcAssumption
    <3> QED BY <1>1, <3>1, <3>2 DEF Value, Error
  <2> QED BY <1>1, <2>1 DEF Responses, OfItsCall
<1>6. Says(Parsed(c, a), c, returned', runs')
  <2>1. CASE outcome = Value(c)
    <3>1. a.ec = 0 /\ a.body = c /\ a.by = h
      BY <2>1 DEF Value
    <3>2. CASE h \in parses[c]
      <4>1. Parsed(c, a) = Value(c) BY <3>1, <3>2 DEF Parsed
      <4> QED BY <4>1, <1>3, <2>1 DEF Says
    <3>3. CASE h \notin parses[c]
      <4>1. Parsed(c, a) = Error(err_deserialize) BY <3>1, <3>3 DEF Parsed
      <4> QED BY <4>1, <1>3, <1>4, <2>1, <3>3 DEF Says
    <3> QED BY <3>2, <3>3
  <2>2. ASSUME NEW e \in Codes, outcome = Error(e)
        PROVE  Says(Parsed(c, a), c, returned', runs')
    <3>1. a.ec = e /\ a.body = Null /\ a.by = Null
      BY <2>2 DEF Error
    <3>2. CASE e # 0
      <4>1. Parsed(c, a) = Error(e) BY <3>1, <3>2 DEF Parsed
      <4> QED BY <4>1, <1>3, <2>2 DEF Says
    <3>3. CASE e = 0 /\ Null \in parses[c]
      <4>1. Parsed(c, a) = Value(Null) BY <3>1, <3>3 DEF Parsed
      <4> QED BY <4>1, <1>3, <2>2, <3>3 DEF Says
    <3>4. CASE e = 0 /\ Null \notin parses[c]
      <4>1. Parsed(c, a) = Error(err_deserialize) BY <3>1, <3>4 DEF Parsed
      <4> QED BY <4>1, <1>3, <2>2, <3>4 DEF Says
    <3> QED BY <3>2, <3>3, <3>4
  <2> QED BY <2>1, <2>2 DEF Results
<1>7. Answered(a, returned', runs')
  BY <1>5, <1>6 DEF Answered
<1> HIDE DEF a, c
<1>8. /\ \A i \in DOMAIN toClient' : Answered(toClient'[i], returned', runs')
      /\ \A g \in Handlers : at[g] = "sending" =>
           answer[g] \in Responses /\ Answered(answer[g], returned', runs')
      /\ ReturnsWhatHandlerDid'
  BY <1>2, <1>3, MoreSaid
<1>9. ASSUME NEW g \in Handlers, at'[g] = "sending"
      PROVE  answer'[g] \in Responses /\ Answered(answer'[g], returned', runs')
  <2>1. CASE g = h
    <3>1. answer'[g] = a
      BY <1>2, <2>1, Parts DEF LoopsOK
    <3> QED BY <3>1, <1>5, <1>7
  <2>2. CASE g # h
    <3>1. at[g] = "sending" /\ answer'[g] = answer[g]
      BY <1>2, <1>9, <2>2, Parts DEF LoopsOK
    <3> QED BY <1>8, <3>1
  <2> QED BY <2>1, <2>2
<1>10. \A g \in Handlers : at'[g] = "running" => <<holds'[g].call, g>> \in runs'
  BY <1>2, Parts DEF AnswersReturned, LoopsOK
<1> QED BY <1>8, <1>9, <1>10 DEF AnswersReturned

\* A loop sends what it has, if anything.
LEMMA SendAnswers ==
  ASSUME Typed, AnswersReturned, NEW h \in Handlers, SendResponse(h)
  PROVE  AnswersReturned'
<1>1. /\ at[h] = "sending" /\ GoesRound(h) /\ UNCHANGED <<result, returned, runs>>
      /\ toClient' = toClient \/ toClient' = Append(toClient, answer[h])
  BY DEF SendResponse, Caught, handlerFrame, callVars, historyVars
<1>2. answer[h] \in Responses /\ Answered(answer[h], returned, runs) /\ toClient \in Seq(Responses)
  BY <1>1, Parts DEF AnswersReturned, WireOK
<1>3. \A i \in DOMAIN Append(toClient, answer[h]) :
        \/ Append(toClient, answer[h])[i] = answer[h]
        \/ i \in DOMAIN toClient /\ Append(toClient, answer[h])[i] = toClient[i]
  BY <1>2
<1>4. \A i \in DOMAIN toClient' : Answered(toClient'[i], returned', runs')
  BY <1>1, <1>2, <1>3 DEF AnswersReturned
<1>5. \A g \in Handlers : at'[g] = "sending" => at[g] = "sending" /\ answer'[g] = answer[g]
  BY <1>1, Parts DEF GoesRound, LoopsOK
<1>6. \A g \in Handlers : at'[g] = "running" => at[g] = "running" /\ holds'[g] = holds[g]
  BY <1>1, Parts DEF GoesRound, LoopsOK
<1>7. ReturnsWhatHandlerDid'
  BY <1>1, ResultsSaid, ResultsSaidNext DEF AnswersReturned
<1> QED BY <1>1, <1>4, <1>5, <1>6, <1>7 DEF AnswersReturned

\* Every step keeps what the responses say.
LEMMA StepAnswers ==
  ASSUME Typed, AnswersReturned, [Next]_vars
  PROVE  AnswersReturned'
<1>1. CASE ResponseArrives
  BY <1>1, ArrivesAnswers
<1>2. ASSUME NEW h \in Handlers, NEW outcome \in Results(h), HandlerReturns(h, outcome)
      PROVE  AnswersReturned'
  BY <1>2, ReturnsAnswers
<1>3. ASSUME NEW h \in Handlers, SendResponse(h)
      PROVE  AnswersReturned'
  BY <1>3, SendAnswers
<1>4. CASE LinkStep
  <2>1. UNCHANGED <<at, holds, answer, returned, runs>>
    BY <1>4 DEF LinkStep, Connect, ServerLeaves, ClientLeaves, handlerVars, historyVars
  <2>2. \A c \in Calls : result'[c] = result[c] \/ result'[c] = Thrown
    BY <1>4 DEF LinkStep, Connect, ServerLeaves, ClientLeaves, callVars
  <2>3. \A i \in DOMAIN toClient' : \E j \in DOMAIN toClient : toClient'[i] = toClient[j]
    <3>1. toClient \in Seq(Responses) BY Parts DEF WireOK
    <3>2. ASSUME NEW n \in 0..Len(toClient), toClient' = SubSeq(toClient, 1, n)
          PROVE  \A i \in DOMAIN toClient' : \E j \in DOMAIN toClient : toClient'[i] = toClient[j]
      <4>1. /\ toClient' \in Seq(Responses) /\ Len(toClient') = n
            /\ \A i \in 1..n : toClient'[i] = toClient[i]
        BY <3>1, <3>2, SubSeqProperties
      <4> QED BY <3>1, <4>1
    <3> QED BY <1>4, <3>2 DEF LinkStep, Connect, ServerLeaves, ClientLeaves
  <2> QED BY <2>1, <2>2, <2>3, NothingSaid
<1>5. ASSUME NEW c \in Calls, CallStep(c)
      PROVE  AnswersReturned'
  <2>1. /\ UNCHANGED <<toClient, at, holds, answer, returned, runs>>
        /\ result' = result \/ result' = [result EXCEPT ![c] = Thrown]
    BY <1>5 DEF CallStep, CallTimesOut, Call, EndsWith, handlerVars, historyVars
  <2>2. \A d \in Calls : result'[d] = result[d] \/ result'[d] = Thrown
    BY <2>1, Parts DEF CallsOK
  <2> QED BY <2>1, <2>2, NothingSaid
<1>6. ASSUME NEW h \in Handlers,
             AskRequest(h) \/ HandlerThrows(h) \/ SendStalls(h) \/ SendFails(h)
      PROVE  AnswersReturned'
  <2>1. UNCHANGED <<toClient, result, returned, runs>>
    BY <1>6 DEF AskRequest, HandlerThrows, SendStalls, SendFails, handlerFrame,
                callVars, historyVars
  <2>2. \A g \in Handlers :
          /\ at'[g] = "sending" => at[g] = "sending" /\ answer'[g] = answer[g]
          /\ at'[g] = "running" => at[g] = "running" /\ holds'[g] = holds[g]
    BY <1>6, Parts DEF AskRequest, HandlerThrows, SendStalls, SendFails, Receives,
                       GoesRound, Caught, LoopsOK
  <2> QED BY <2>1, <2>2, NothingSaid
<1>7. CASE ReceiveRequest \/ StopHandler \/ RunReturns \/ \E force \in BOOLEAN : Stop(force)
  <2>1. UNCHANGED <<toClient, result, returned, runs>>
    BY <1>7 DEF ReceiveRequest, StopHandler, RunReturns, Stop, callVars, historyVars
  <2>2. \A g \in Handlers :
          /\ at'[g] = "sending" => at[g] = "sending" /\ answer'[g] = answer[g]
          /\ at'[g] = "running" => at[g] = "running" /\ holds'[g] = holds[g]
    BY <1>7, Parts DEF ReceiveRequest, StopHandler, RunReturns, ReceivesCancelled, Stop,
                       Receives, WaitingFor, handlerVars, LoopsOK
  <2> QED BY <2>1, <2>2, NothingSaid
<1>8. ASSUME NEW h \in Handlers, ParseRequest(h)
      PROVE  AnswersReturned'
  BY <1>8, ParseAnswers
<1>9. CASE UNCHANGED vars
  BY <1>9, NothingSaid DEF vars, handlerVars, callVars, historyVars
<1> QED BY <1>1, <1>2, <1>3, <1>4, <1>5, <1>6, <1>7, <1>9, <1>8 DEF Next, HandlerStep, Runs

-----------------------------------------------------------------------------
(* Theorems.                                                               *)

\* A loop ends when it asks after the server was stopped, or when its receive is
\* cancelled by stop(), never by a request.
LEMMA StepLoops ==
  ASSUME Typed, LoopsRun, [Next]_vars
  PROVE  LoopsRun'
<1>1. CASE /\ UNCHANGED <<stopped, stop>>
           /\ \A h \in Handlers : at'[h] = "ended" => at[h] = "ended" \/ stopped
  BY <1>1 DEF LoopsRun, LoopsEndOnlyByStop
<1>2. ASSUME NEW c \in Calls, CallStep(c)
      PROVE  UNCHANGED <<stopped, stop, at>>
  BY <1>2 DEF CallStep, CallTimesOut, Call, stopVars, handlerVars
<1>3. CASE ResponseArrives \/ LinkStep
  <2>1. UNCHANGED <<stopped, stop, at>>
    BY <1>3 DEF ResponseArrives, LinkStep, Connect, ServerLeaves, ClientLeaves, stopVars,
                handlerVars
  <2> QED BY <2>1, <1>1
<1>4. CASE ReceiveRequest
  BY <1>1, <1>4, Parts DEF ReceiveRequest, Receives, stopVars, LoopsOK
<1>5. ASSUME NEW h \in Handlers, HandlerStep(h)
      PROVE  LoopsRun'
  <2>1. UNCHANGED <<stopped, stop>>
    BY <1>5 DEF HandlerStep, AskRequest, ParseRequest, Runs, HandlerReturns, HandlerThrows,
                SendResponse, SendStalls, SendFails, handlerFrame, stopVars
  <2>2. \A g \in Handlers : at'[g] = "ended" => at[g] = "ended" \/ stopped
    <3>1. CASE AskRequest(h)
      BY <3>1, Parts DEF AskRequest, Receives, LoopsOK
    <3>2. CASE ParseRequest(h) \/ (at[h] = "running" /\ Runs(h)) \/ SendResponse(h)
               \/ SendStalls(h) \/ SendFails(h)
      BY <3>2, Parts DEF ParseRequest, Runs, HandlerReturns, HandlerThrows, SendResponse,
                         SendStalls, SendFails, GoesRound, Caught, LoopsOK
    <3> QED BY <1>5, <3>1, <3>2 DEF HandlerStep
  <2> QED BY <1>1, <2>1, <2>2
<1>6. ASSUME NEW force \in BOOLEAN, Stop(force)
      PROVE  LoopsRun'
  BY <1>6 DEF Stop, LoopsRun, LoopsEndOnlyByStop
<1>7. CASE StopHandler
  BY <1>7 DEF StopHandler, LoopsRun, LoopsEndOnlyByStop
<1>8. CASE RunReturns
  BY <1>1, <1>8 DEF RunReturns, handlerVars
<1>9. CASE UNCHANGED vars
  BY <1>1, <1>9 DEF vars, stopVars, handlerVars
<1> QED BY <1>1, <1>2, <1>3, <1>4, <1>5, <1>6, <1>7, <1>8, <1>9 DEF Next

\* Nothing has been sent at first.
LEMMA Starts == Init => IInv
<1> SUFFICES ASSUME Init PROVE IInv
  OBVIOUS
<1>1. Typed
  <2>1. FlagsOK /\ WireOK /\ ChannelsOK
    <3>1. <<>> \in Seq(Responses)
      OBVIOUS
    <3>2. \A id \in Ids : channels[id] = Null
      BY DEF Init
    <3> QED BY <3>1, <3>2, Emptied DEF Init, FlagsOK, WireOK, ChannelsOK
  <2>2. LoopsOK
    BY DEF Init, LoopsOK
  <2>3. CallsOK /\ HistoryOK
    BY OutcomesHold DEF Init, CallsOK, HistoryOK
  <2> QED BY <2>1, <2>2, <2>3, Parts
<1>2. /\ \A id \in Ids : Buffered(id) = <<>>
      /\ \A h \in Handlers : Held(h) = {}
      /\ Run = {} /\ toServer = <<>>
  BY DEF Init, Buffered, Held, Run
<1>3. OnePlace /\ OnlyCalled
  BY <1>2, Emptied DEF OnePlace, OnlyCalled
<1>4. ByName
  BY <1>2 DEF Init, ByName, Named
<1>5. AnswersReturned /\ LoopsRun
  BY DEF Init, AnswersReturned, ReturnsWhatHandlerDid, LoopsRun, LoopsEndOnlyByStop
<1> QED BY <1>1, <1>3, <1>4, <1>5 DEF IInv, Places

\* The inductive invariant: a request is in one place, responses say what
\* handlers returned, and loops end by stop() only.
THEOREM Invariance == Spec => []IInv
<1>1. IInv /\ [Next]_vars => IInv'
  BY StepTyped, StepPlaces, StepAnswers, StepLoops DEF IInv
<1> QED BY Starts, <1>1, PTL DEF Spec

\* Each request is run once at most, by a handler of the name called
\* (rpc_protocol.hpp:16-19), for any number of loops and any channel size.
THEOREM RequestsRunOnce == Spec => []RunOnce
<1>1. IInv => RunOnce
  BY DEF IInv, Typed, Places, ByName, RunOnce
<1> QED BY Invariance, <1>1, PTL

\* A call returns what a handler returned for it (rpc_client.hpp's call), over any
\* number of connections, except for an error code of 0 and for a message that
\* does not parse (rpc_protocol.hpp:47-56).
THEOREM CallsReturnTheirs == Spec => []ReturnsWhatHandlerDid
<1>1. IInv => ReturnsWhatHandlerDid
  BY DEF IInv, AnswersReturned
<1> QED BY Invariance, <1>1, PTL

\* No request, however malformed, and no failed response ends a handler loop
\* (rpc_server.hpp's catch).
THEOREM OnlyStopEndsLoops == Spec => []LoopsEndOnlyByStop
<1>1. IInv => LoopsEndOnlyByStop
  BY DEF IInv, LoopsRun
<1> QED BY Invariance, <1>1, PTL

=============================================================================
