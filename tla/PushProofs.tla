----------------------------- MODULE PushProofs -----------------------------
(***************************************************************************)
(* Proofs about Push, for any pushes, commands, buffer sizes, memories,    *)
(* numbers of tries and runs of the server.                                *)
(*                                                                         *)
(* A request the memory still holds is in one place at most: in the buffer *)
(* of its command, or handed over; a repetition of it is told by its id.   *)
(* An acknowledgement is of the server's own run: it travels only while    *)
(* the connection has carried requests of this run alone.                  *)
(*                                                                         *)
(* Push uses the memory of received ids through what Recency promises;     *)
(* the last sections prove that Lru keeps the promise, for any capacity,   *)
(* values and list nodes: list and map agree, and what the list shows is   *)
(* what an exist or a put makes of the memory.                             *)
(***************************************************************************)
EXTENDS Push, Lru, SequencesExt, SequenceTheorems, FiniteSetTheorems, TLAPS

\* What TypeOK leaves open: the channels of commands, and a history.
Typed ==
  /\ TypeOK
  /\ channels \in [Cmds -> Seq(Requests) \cup {Null}]
  /\ received \subseteq Requests

\* The requests of a sequence, and that one is there once.
In(s) == {s[i] : i \in DOMAIN s}
OnceIn(s, r) == \A i, j \in DOMAIN s : s[i] = r /\ s[j] = r => i = j

\* What a channel holds, also before it is made.
Buffered(c) == IF channels[c] = Null THEN <<>> ELSE channels[c]

\* Requests that were received wait in the channel of their command or were
\* given; none but a forgotten one does so twice.
HandedOn ==
  /\ given \subseteq received
  /\ \A c \in Cmds : \A r \in In(Buffered(c)) : r \in received /\ r.cmd = c
  /\ \A r \in received \ forgotten, c \in Cmds :
       OnceIn(Buffered(c), r) /\ (r \in given => r \notin In(Buffered(c)))
  /\ repeated \subseteq forgotten

\* The memory holds ids of received requests, and of all that are not forgotten.
Remembered ==
  /\ \A r \in received \ forgotten : Id(r) \in In(recent)
  /\ \A v \in In(recent) : \E r \in received : Id(r) = v
  /\ \A r \in received : r.life <= life

\* Requests on their way may be of an earlier run only when the server has left
\* the connection; acknowledgements and waiting pushes are of this run.
SameRun ==
  /\ \A r \in In(toClient) : r.life <= life /\ (serverUp => r.life = life)
  /\ \A r \in In(toServer) : r.life = life
  /\ \A p \in Pushes : pc[p] = "waiting" => request[p] \in Requests /\ request[p].life = life

\* Received, or refused for one that was.
Known(r, rec, ref) ==
  r \in rec \/ (r \in ref /\ \E q \in rec : Id(q) = Id(r) /\ q.life <= r.life)

\* Acknowledged requests are known to the client.
AcksKnown ==
  /\ \A r \in In(toServer) : Known(r, received, refused)
  /\ \A p \in Pushes : pc[p] = "ok" => Known(request[p], received, refused)

\* What was waited for has a channel, and who waits has one.
Opened ==
  /\ FailsOnFirstUnwaited
  /\ \A c \in Cmds : c \in waited <=> channels[c] # Null
  /\ \A c \in Cmds : receiver[c] = "waiting" => channels[c] # Null

IInv == Typed /\ HandedOn /\ Remembered /\ SameRun /\ AcksKnown /\ Opened

-----------------------------------------------------------------------------
(* Sequences of requests.                                                  *)

\* Nothing is in the empty sequence.
LEMMA Emptied == <<>> \in Seq(Requests) /\ In(<<>>) = {} /\ Len(<<>>) = 0
BY DEF In

\* Taking the first request out leaves the others, and it was there once.
LEMMA TakenOut ==
  ASSUME NEW s \in Seq(Requests), s # <<>>
  PROVE  /\ Head(s) \in Requests /\ Head(s) \in In(s)
         /\ Tail(s) \in Seq(Requests) /\ Len(Tail(s)) <= Len(s)
         /\ In(Tail(s)) \subseteq In(s)
         /\ \A r : OnceIn(s, r) => OnceIn(Tail(s), r)
         /\ OnceIn(s, Head(s)) => Head(s) \notin In(Tail(s))
<1>1. Head(s) \in Requests /\ Head(s) = s[1] /\ 1 \in DOMAIN s
  OBVIOUS
<1>2. /\ Tail(s) \in Seq(Requests) /\ Len(Tail(s)) <= Len(s)
      /\ \A i \in DOMAIN Tail(s) : i + 1 \in DOMAIN s /\ Tail(s)[i] = s[i + 1]
  OBVIOUS
<1>3. ASSUME NEW i \in DOMAIN Tail(s)
      PROVE  i \in Nat \ {0} /\ i + 1 \in DOMAIN s /\ Tail(s)[i] = s[i + 1] /\ i + 1 # 1
  BY <1>2
<1>4. ASSUME NEW r, OnceIn(s, r)
      PROVE  OnceIn(Tail(s), r)
  <2> SUFFICES ASSUME NEW i \in DOMAIN Tail(s), NEW j \in DOMAIN Tail(s),
                      Tail(s)[i] = r, Tail(s)[j] = r
               PROVE  i = j
    BY DEF OnceIn
  <2> QED BY <1>3, <1>4 DEF OnceIn
<1>5. OnceIn(s, Head(s)) => Head(s) \notin In(Tail(s))
  BY <1>1, <1>3 DEF OnceIn, In
<1>6. Head(s) \in In(s) /\ In(Tail(s)) \subseteq In(s)
  BY <1>1, <1>3 DEF In
<1> QED BY <1>1, <1>2, <1>4, <1>5, <1>6

\* A request put at the end comes to those there.
LEMMA PutIn ==
  ASSUME NEW s \in Seq(Requests), NEW r \in Requests
  PROVE  /\ Append(s, r) \in Seq(Requests) /\ Len(Append(s, r)) = Len(s) + 1
         /\ In(Append(s, r)) = In(s) \cup {r}
         /\ \A q : q # r /\ OnceIn(s, q) => OnceIn(Append(s, r), q)
         /\ r \notin In(s) => OnceIn(Append(s, r), r)
<1> DEFINE t == Append(s, r)
           n == Len(s) + 1
<1>1. t \in Seq(Requests) /\ Len(t) = n /\ DOMAIN t = 1..n /\ n \in Nat \ {0}
      /\ DOMAIN s = 1..(n - 1)
  OBVIOUS
<1>2. t[n] = r /\ \A i \in DOMAIN s : t[i] = s[i]
  OBVIOUS
<1> HIDE DEF t
<1>3. \A i \in DOMAIN t : i \in DOMAIN s \/ i = n
  BY <1>1
<1>4. n \in DOMAIN t /\ \A i \in DOMAIN s : i \in DOMAIN t
  BY <1>1
<1>5. In(t) = In(s) \cup {r}
  BY <1>2, <1>3, <1>4 DEF In
<1>6. \A q : q # r /\ OnceIn(s, q) => OnceIn(t, q)
  BY <1>2, <1>3 DEF OnceIn
<1>7. r \notin In(s) => OnceIn(t, r)
  BY <1>2, <1>3 DEF OnceIn, In
<1> QED BY <1>1, <1>5, <1>6, <1>7 DEF t

\* What is lost at the end leaves what came before.
LEMMA CutOff ==
  ASSUME NEW s \in Seq(Requests), NEW n \in 0..Len(s)
  PROVE  SubSeq(s, 1, n) \in Seq(Requests) /\ In(SubSeq(s, 1, n)) \subseteq In(s)
<1> DEFINE t == SubSeq(s, 1, n)
<1>1. t \in Seq(Requests) /\ Len(t) = n /\ \A i \in 1..n : t[i] = s[i]
  BY SubSeqProperties
<1>2. \A i \in DOMAIN t : i \in DOMAIN s /\ t[i] = s[i]
  BY <1>1
<1> QED BY <1>1, <1>2 DEF In

-----------------------------------------------------------------------------
(* The memory.                                                             *)

\* A place less, and nothing else gone.
LEMMA PlaceRemoved ==
  ASSUME NEW S, NEW s \in Seq(S), NEW k \in DOMAIN s
  PROVE  /\ RemoveAt(s, k) \in Seq(S)
         /\ Len(RemoveAt(s, k)) = Len(s) - 1
         /\ \A i \in 1..(Len(s) - 1) :
              RemoveAt(s, k)[i] = IF i < k THEN s[i] ELSE s[i + 1]
<1> DEFINE a == SubSeq(s, 1, k - 1)
           b == SubSeq(s, k + 1, Len(s))
<1>1. k \in 1..Len(s) /\ Len(s) \in Nat /\ \A i \in 1..Len(s) : s[i] \in S
  OBVIOUS
<1>2. a \in Seq(S) /\ Len(a) = k - 1 /\ \A i \in 1..(k - 1) : a[i] = s[i]
  BY <1>1, SubSeqProperties
<1>3. /\ b \in Seq(S) /\ Len(b) = Len(s) - k
      /\ \A i \in 1..(Len(s) - k) : b[i] = s[k + i]
  BY <1>1, SubSeqProperties
<1> HIDE DEF a, b
<1>4. /\ a \o b \in Seq(S) /\ Len(a \o b) = Len(s) - 1
      /\ \A i \in 1..(Len(s) - 1) :
           (a \o b)[i] = IF i <= k - 1 THEN a[i] ELSE b[i - (k - 1)]
  <2>1. /\ a \o b \in Seq(S) /\ Len(a \o b) = Len(a) + Len(b)
        /\ \A i \in 1..(Len(a) + Len(b)) :
             (a \o b)[i] = IF i <= Len(a) THEN a[i] ELSE b[i - Len(a)]
    BY <1>2, <1>3, ConcatProperties
  <2>2. Len(a) + Len(b) = Len(s) - 1
    BY <1>1, <1>2, <1>3
  <2> QED BY <1>2, <2>1, <2>2
<1>5. ASSUME NEW i \in 1..(Len(s) - 1)
      PROVE  (a \o b)[i] = IF i < k THEN s[i] ELSE s[i + 1]
  <2>1. CASE i < k
    BY <1>1, <1>2, <1>4, <2>1
  <2>2. CASE ~(i < k)
    <3>1. i - (k - 1) \in 1..(Len(s) - k) /\ k + (i - (k - 1)) = i + 1
      BY <1>1, <2>2
    <3>2. b[i - (k - 1)] = s[i + 1]
      BY <1>3, <3>1
    <3>3. (a \o b)[i] = b[i - (k - 1)]
      BY <1>1, <1>4, <2>2
    <3> QED BY <2>2, <3>2, <3>3
  <2> QED BY <2>1, <2>2
<1> QED BY <1>4, <1>5 DEF RemoveAt, a, b

\* A value put before the others.
LEMMA PutBefore ==
  ASSUME NEW S, NEW s \in Seq(S), NEW v \in S
  PROVE  /\ <<v>> \o s \in Seq(S) /\ Len(<<v>> \o s) = 1 + Len(s)
         /\ (<<v>> \o s)[1] = v
         /\ \A i \in 1..Len(s) : (<<v>> \o s)[i + 1] = s[i]
<1> DEFINE one == <<v>>
<1>1. one \in Seq(S) /\ Len(one) = 1 /\ one[1] = v /\ Len(s) \in Nat
  OBVIOUS
<1> HIDE DEF one
<1>2. /\ one \o s \in Seq(S) /\ Len(one \o s) = Len(one) + Len(s)
      /\ \A i \in 1..(Len(one) + Len(s)) :
           (one \o s)[i] = IF i <= Len(one) THEN one[i] ELSE s[i - Len(one)]
  BY <1>1, ConcatProperties
<1>3. (one \o s)[1] = v
  BY <1>1, <1>2
<1>4. ASSUME NEW i \in 1..Len(s)
      PROVE  (one \o s)[i + 1] = s[i]
  BY <1>1, <1>2
<1> QED BY <1>1, <1>2, <1>3, <1>4 DEF one

\* What using an id makes of the memory: no id but that one comes, and none goes.
LEMMA UsedHolds ==
  ASSUME recent \in Seq(Cmds \X Seqs), NEW v \in Cmds \X Seqs
  PROVE  /\ Memory!Used(v) \in Seq(Cmds \X Seqs)
         /\ Memory!Used(v)[1] = v
         /\ Len(Memory!Used(v)) = IF Memory!Remembers(v) THEN Len(recent) ELSE Len(recent) + 1
         /\ Len(Memory!Used(v)) \in Nat \ {0}
         /\ \A i \in DOMAIN Memory!Used(v) :
              Memory!Used(v)[i] = v \/ Memory!Used(v)[i] \in In(recent)
         /\ In(recent) \subseteq In(Memory!Used(v))
<1> DEFINE rest == IF Memory!Remembers(v) THEN Memory!RemoveAt(recent, Memory!Place(v)) ELSE recent
<1>1. Len(recent) \in Nat /\ DOMAIN recent = 1..Len(recent)
  OBVIOUS
<1>3. /\ rest \in Seq(Cmds \X Seqs)
      /\ Len(rest) = IF Memory!Remembers(v) THEN Len(recent) - 1 ELSE Len(recent)
      /\ Len(rest) \in Nat
      /\ \A i \in 1..Len(rest) : \E j \in 1..Len(recent) : rest[i] = recent[j]
      /\ \A j \in 1..Len(recent) :
           recent[j] = v \/ \E i \in 1..Len(rest) : rest[i] = recent[j]
  <2>1. CASE ~Memory!Remembers(v)
    BY <1>1, <2>1
  <2>2. CASE Memory!Remembers(v)
    <3> DEFINE k == Memory!Place(v)
               n == Len(recent)
    <3>1. k \in 1..n /\ recent[k] = v
      BY <1>1, <2>2 DEF Memory!Place, Memory!Remembers
    <3>2. rest = RemoveAt(recent, k)
      BY <2>2 DEF RemoveAt, Memory!RemoveAt
    <3> HIDE DEF k, rest
    <3>3. /\ rest \in Seq(Cmds \X Seqs) /\ Len(rest) = n - 1
          /\ \A i \in 1..(n - 1) : rest[i] = IF i < k THEN recent[i] ELSE recent[i + 1]
      <4> DEFINE S == Cmds \X Seqs
      <4>1. recent \in Seq(S) /\ k \in DOMAIN recent
        BY <1>1, <3>1
      <4> HIDE DEF S
      <4>2. /\ RemoveAt(recent, k) \in Seq(S)
            /\ Len(RemoveAt(recent, k)) = n - 1
            /\ \A i \in 1..(n - 1) :
                 RemoveAt(recent, k)[i] = IF i < k THEN recent[i] ELSE recent[i + 1]
        BY <4>1, PlaceRemoved
      <4> QED BY <3>2, <4>2 DEF S
    <3>4. ASSUME NEW i \in 1..(n - 1)
          PROVE  \E j \in 1..n : rest[i] = recent[j]
      <4>1. i \in 1..n /\ i + 1 \in 1..n
        BY <1>1
      <4> QED BY <3>3, <4>1
    <3>5. ASSUME NEW j \in 1..n, recent[j] # v
          PROVE  \E i \in 1..(n - 1) : rest[i] = recent[j]
      <4>1. CASE j < k
        <5>1. j \in 1..(n - 1)
          BY <1>1, <3>1, <4>1
        <5> QED BY <3>3, <4>1, <5>1
      <4>2. CASE j > k
        <5>1. j - 1 \in 1..(n - 1) /\ ~(j - 1 < k) /\ (j - 1) + 1 = j
          BY <1>1, <3>1, <4>2
        <5> QED BY <3>3, <5>1
      <4> QED BY <1>1, <3>1, <3>5, <4>1, <4>2
    <3> QED BY <1>1, <2>2, <3>1, <3>3, <3>4, <3>5
  <2> QED BY <2>1, <2>2
<1> DEFINE u == Memory!Used(v)
<1>4. u = <<v>> \o rest
  BY DEF Memory!Used
<1> HIDE DEF rest, u
<1>5. /\ u \in Seq(Cmds \X Seqs) /\ Len(u) = 1 + Len(rest) /\ u[1] = v
      /\ \A i \in 1..Len(rest) : u[i + 1] = rest[i]
  <2> DEFINE S == Cmds \X Seqs
  <2>1. rest \in Seq(S) /\ v \in S
    BY <1>3
  <2> HIDE DEF S
  <2>2. /\ u \in Seq(S) /\ Len(u) = 1 + Len(rest) /\ u[1] = v
        /\ \A i \in 1..Len(rest) : u[i + 1] = rest[i]
    BY <1>4, <2>1, PutBefore
  <2> QED BY <2>2 DEF S
<1>6. DOMAIN u = 1..(1 + Len(rest)) /\ 1 \in DOMAIN u
  BY <1>3, <1>5
<1>7. ASSUME NEW i \in DOMAIN u, i # 1
      PROVE  u[i] \in In(recent)
  <2>1. i - 1 \in 1..Len(rest) /\ (i - 1) + 1 = i
    BY <1>3, <1>6, <1>7
  <2>2. PICK j \in 1..Len(recent) : rest[i - 1] = recent[j]
    BY <1>3, <2>1
  <2>3. u[i] = rest[i - 1]
    BY <1>5, <2>1
  <2> QED BY <1>1, <2>2, <2>3 DEF In
<1>8. ASSUME NEW x \in In(recent)
      PROVE  x \in In(u)
  <2>1. PICK j \in 1..Len(recent) : x = recent[j]
    BY <1>1 DEF In
  <2>2. CASE x = v
    BY <1>5, <1>6, <2>2 DEF In
  <2>3. CASE x # v
    <3>1. PICK i \in 1..Len(rest) : rest[i] = x
      BY <1>3, <2>1, <2>3
    <3>2. i + 1 \in DOMAIN u /\ u[i + 1] = x
      <4>1. i + 1 \in 1..(1 + Len(rest))
        BY <1>3
      <4> QED BY <1>5, <1>6, <3>1, <4>1
    <3> QED BY <3>2 DEF In
  <2> QED BY <2>2, <2>3
<1>9. /\ Len(u) = IF Memory!Remembers(v) THEN Len(recent) ELSE Len(recent) + 1
      /\ Len(u) \in Nat \ {0}
  <2>1. CASE Memory!Remembers(v)
    BY <1>1, <1>3, <1>5, <2>1
  <2>2. CASE ~Memory!Remembers(v)
    BY <1>1, <1>3, <1>5, <2>2
  <2> QED BY <2>1, <2>2
<1>10. /\ \A i \in DOMAIN u : u[i] = v \/ u[i] \in In(recent)
       /\ In(recent) \subseteq In(u)
  BY <1>5, <1>7, <1>8
<1> QED BY <1>5, <1>9, <1>10 DEF u

\* Looking an id up changes the order alone.
LEMMA ExistKeeps ==
  ASSUME Typed, NEW v \in Cmds \X Seqs, Memory!Remembers(v), Memory!exist(v)
  PROVE  /\ recent' \in Seq(Cmds \X Seqs) /\ Len(recent') <= Cap
         /\ In(recent') = In(recent)
<1>1. recent \in Seq(Cmds \X Seqs) /\ Len(recent) <= Cap
  BY DEF Typed, TypeOK
<1>2. recent' = Memory!Used(v)
  BY DEF Memory!exist
<1>3. v \in In(recent)
  BY DEF Memory!Remembers, In
<1>4. recent' \in Seq(Cmds \X Seqs) /\ Len(recent') <= Cap
  BY <1>1, <1>2, UsedHolds
<1>5. /\ \A i \in DOMAIN recent' : recent'[i] = v \/ recent'[i] \in In(recent)
      /\ In(recent) \subseteq In(recent')
  BY <1>1, <1>2, UsedHolds
<1> QED BY <1>3, <1>4, <1>5 DEF In

\* A new id may push another out, and brings none but itself.
LEMMA PutKeeps ==
  ASSUME Typed, NEW v \in Cmds \X Seqs, Memory!put(v)
  PROVE  /\ recent' \in Seq(Cmds \X Seqs) /\ Len(recent') <= Cap
         /\ In(recent') \subseteq In(recent) \cup {v}
<1> DEFINE u == Memory!Used(v)
<1>1. recent \in Seq(Cmds \X Seqs) /\ Cap \in Nat
  BY PushAssumption DEF Typed, TypeOK
<1>2. /\ u \in Seq(Cmds \X Seqs) /\ Len(u) \in Nat
      /\ \A i \in DOMAIN u : u[i] = v \/ u[i] \in In(recent)
  BY <1>1, UsedHolds
<1>3. recent' = IF Len(u) > Cap THEN SubSeq(u, 1, Cap) ELSE u
  BY DEF Memory!put
<1> HIDE DEF u
<1>4. CASE Len(u) > Cap
  <2> DEFINE S == Cmds \X Seqs
  <2>1. u \in Seq(S)
    BY <1>2
  <2> HIDE DEF S
  <2>2. \A i \in 1..Cap : u[i] \in S /\ i \in DOMAIN u
    BY <1>1, <1>2, <1>4, <2>1
  <2>3. /\ recent' \in Seq(S) /\ Len(recent') = Cap
        /\ \A i \in 1..Cap : recent'[i] = u[i]
    <3>1. recent' = SubSeq(u, 1, Cap)
      BY <1>3, <1>4
    <3>2. /\ SubSeq(u, 1, Cap) \in Seq(S)
          /\ Len(SubSeq(u, 1, Cap)) = IF 1 <= Cap THEN Cap - 1 + 1 ELSE 0
          /\ \A i \in 1..(Cap - 1 + 1) : SubSeq(u, 1, Cap)[i] = u[1 + i - 1]
      BY <1>1, <2>2, SubSeqProperties
    <3> QED BY <1>1, <3>1, <3>2
  <2>4. \A i \in DOMAIN recent' : i \in DOMAIN u /\ recent'[i] = u[i]
    BY <1>1, <2>2, <2>3
  <2>5. In(recent') \subseteq In(recent) \cup {v}
    BY <1>2, <2>4 DEF In
  <2> QED BY <1>1, <2>3, <2>5 DEF S
<1>5. CASE ~(Len(u) > Cap)
  BY <1>1, <1>2, <1>3, <1>5 DEF In
<1> QED BY <1>4, <1>5

-----------------------------------------------------------------------------
(* Types.                                                                  *)

ServerOK ==
  /\ life \in 1..MaxLives /\ seq \in Nat
  /\ pc \in [Pushes -> {"idle", "waiting", "ok", "connection_error", "timeout_error", "gone"}]
  /\ request \in [Pushes -> Requests \cup {Null}]
  /\ tries \in [Pushes -> 0..MaxTries]
LinkOK == /\ serverUp \in BOOLEAN /\ clientUp \in BOOLEAN
          /\ toClient \in Seq(Requests) /\ toServer \in Seq(Requests)
MemoryOK == /\ recent \in Seq(Cmds \X Seqs) /\ Len(recent) <= Cap
            /\ received \subseteq Requests
ChannelsOK ==
  /\ channels \in [Cmds -> Seq(Requests) \cup {Null}]
  /\ \A c \in Cmds : channels[c] # Null =>
       channels[c] \in Seq(Requests) /\ Len(channels[c]) <= ChannelSize
  /\ receiver \in [Cmds -> {"idle", "waiting"}]
  /\ crashed \in BOOLEAN

\* The parts are the whole.
LEMMA Parts == Typed <=> ServerOK /\ LinkOK /\ MemoryOK /\ ChannelsOK
BY DEF Typed, TypeOK, ServerOK, LinkOK, MemoryOK, ChannelsOK

\* The same of the next state.
LEMMA PartsNext == Typed' <=> ServerOK' /\ LinkOK' /\ MemoryOK' /\ ChannelsOK'
BY Parts, PTL

\* What a step leaves alone keeps its type.
LEMMA PartsKept ==
  ASSUME Typed
  PROVE  /\ UNCHANGED serverVars => ServerOK'
         /\ UNCHANGED <<linkVars, toClient, toServer>> => LinkOK'
         /\ UNCHANGED clientVars => MemoryOK' /\ ChannelsOK'
<1>1. ServerOK /\ LinkOK /\ MemoryOK /\ ChannelsOK
  BY Parts
<1>2. UNCHANGED serverVars => ServerOK'
  BY <1>1 DEF ServerOK, serverVars
<1>3. UNCHANGED <<linkVars, toClient, toServer>> => LinkOK'
  BY <1>1 DEF LinkOK, linkVars
<1>4. UNCHANGED clientVars => MemoryOK' /\ ChannelsOK'
  BY <1>1 DEF MemoryOK, ChannelsOK, clientVars, historyVars
<1> QED BY <1>2, <1>3, <1>4

\* What is sent is a request, or nothing.
LEMMA SendTyped ==
  ASSUME Typed, NEW r \in Requests, Send(r)
  PROVE  /\ toClient' \in Seq(Requests)
         /\ In(toClient') \subseteq In(toClient) \cup {r}
<1>1. toClient \in Seq(Requests)
  BY DEF Typed, TypeOK
<1> QED BY <1>1, PutIn DEF Send

\* A packet is built for this run.
LEMMA Built ==
  ASSUME Typed, NEW c \in Cmds
  PROVE  [cmd |-> c, seq |-> seq + 1, life |-> life] \in Requests
BY DEF Typed, TypeOK, Requests, Seqs, Lives

\* What a push does to its place, its packet and the wire.
LEMMA PushDoes ==
  ASSUME Typed, NEW p \in Pushes, NEW c \in Cmds, Push(p, c)
  PROVE  \E r \in Requests :
           /\ r.life = life
           /\ request' = [request EXCEPT ![p] = r]
           /\ \E to \in {"waiting", "connection_error"} : pc' = [pc EXCEPT ![p] = to]
           /\ toClient' = toClient \/ (serverUp /\ Send(r))
<1> DEFINE r == [cmd |-> c, seq |-> seq + 1, life |-> life]
<1>1. r \in Requests /\ r.life = life
  BY Built
<1>2. /\ request' = [request EXCEPT ![p] = r]
      /\ IF serverUp THEN pc' = [pc EXCEPT ![p] = "waiting"] /\ Send(r)
         ELSE pc' = [pc EXCEPT ![p] = "connection_error"] /\ UNCHANGED toClient
  BY DEF Push
<1> HIDE DEF r
<1> QED BY <1>1, <1>2

\* The same of one try.
LEMMA TryDoes ==
  ASSUME Typed, SameRun, NEW p \in Pushes, TryFails(p)
  PROVE  /\ request[p] \in Requests /\ request[p].life = life
         /\ \/ pc' = pc
            \/ \E to \in {"timeout_error", "connection_error"} : pc' = [pc EXCEPT ![p] = to]
         /\ toClient' = toClient \/ (serverUp /\ Send(request[p]))
<1>1. request[p] \in Requests /\ request[p].life = life
  BY DEF TryFails, SameRun
<1> QED BY <1>1 DEF TryFails

\* The types after a push's step.
LEMMA PushTyped ==
  ASSUME Typed, SameRun, NEW p \in Pushes, PushStep(p)
  PROVE  Typed'
<1>1. UNCHANGED <<linkVars, toServer, clientVars, life>>
  BY DEF PushStep, TryFails, Push
<1>2. ServerOK /\ LinkOK
  BY Parts
<1>3. MemoryOK' /\ ChannelsOK'
  BY <1>1, PartsKept
<1>4. ASSUME NEW c \in Cmds, Push(p, c)
      PROVE  ServerOK' /\ toClient' \in Seq(Requests)
  <2>1. PICK r \in Requests :
           /\ request' = [request EXCEPT ![p] = r]
           /\ \E to \in {"waiting", "connection_error"} : pc' = [pc EXCEPT ![p] = to]
           /\ toClient' = toClient \/ (serverUp /\ Send(r))
    BY <1>4, PushDoes
  <2>2. toClient' \in Seq(Requests)
    BY <1>2, <2>1, SendTyped DEF LinkOK
  <2>3. seq' = seq + 1 /\ tries' = tries
    BY <1>4 DEF Push
  <2> QED BY <1>1, <1>2, <2>1, <2>2, <2>3 DEF ServerOK
<1>5. ASSUME TryFails(p)
      PROVE  ServerOK' /\ toClient' \in Seq(Requests)
  <2>1. toClient' \in Seq(Requests)
    BY <1>2, <1>5, TryDoes, SendTyped DEF LinkOK
  <2>2. \/ pc' = pc
        \/ \E to \in {"timeout_error", "connection_error"} : pc' = [pc EXCEPT ![p] = to]
    BY <1>5, TryDoes
  <2>3. tries' \in [Pushes -> 0..MaxTries] /\ UNCHANGED <<seq, request>>
    BY <1>2, <1>5, PushAssumption DEF TryFails, ServerOK
  <2> QED BY <1>1, <1>2, <2>1, <2>2, <2>3 DEF ServerOK
<1>6. ServerOK' /\ toClient' \in Seq(Requests)
  BY <1>4, <1>5 DEF PushStep
<1>7. LinkOK'
  BY <1>1, <1>2, <1>6 DEF LinkOK, linkVars
<1> QED BY <1>3, <1>6, <1>7, PartsNext

\* The types after a step of the connection or the server's process.
LEMMA LinkTyped ==
  ASSUME Typed,
         \/ AckArrives \/ Restart \/ Connect
         \/ \E n \in 0..Len(toClient) : ServerLeaves(n)
         \/ \E n \in 0..Len(toServer) : ClientLeaves(n)
  PROVE  Typed' /\ UNCHANGED clientVars
<1>1. UNCHANGED clientVars
  BY DEF AckArrives, Restart, Connect, ServerLeaves, ClientLeaves
<1>2. ServerOK /\ LinkOK /\ MemoryOK' /\ ChannelsOK'
  BY <1>1, Parts, PartsKept
<1>3. CASE AckArrives
  <2>1. Tail(toServer) \in Seq(Requests)
    BY <1>2, <1>3, TakenOut DEF AckArrives, LinkOK
  <2>2. LinkOK'
    BY <1>2, <1>3, <2>1 DEF AckArrives, LinkOK, linkVars
  <2>3. pc' \in [Pushes -> {"idle", "waiting", "ok", "connection_error", "timeout_error",
                            "gone"}]
    BY <1>2, <1>3 DEF AckArrives, ServerOK
  <2>4. ServerOK'
    BY <1>2, <1>3, <2>3 DEF AckArrives, ServerOK
  <2> QED BY <1>2, <2>2, <2>4, PartsNext, <1>1
<1>4. CASE Restart
  <2>1. life' \in 1..MaxLives /\ seq' \in Nat
    BY <1>2, <1>4, PushAssumption DEF Restart, ServerOK
  <2>2. pc' \in [Pushes -> {"idle", "waiting", "ok", "connection_error", "timeout_error",
                            "gone"}]
    BY <1>2, <1>4 DEF Restart, ServerOK
  <2>3. ServerOK'
    BY <1>2, <1>4, <2>1, <2>2 DEF Restart, ServerOK
  <2>4. LinkOK'
    BY <1>2, <1>4, Emptied DEF Restart, LinkOK
  <2> QED BY <1>1, <1>2, <2>3, <2>4, PartsNext
<1>5. CASE Connect
  <2>1. ServerOK' /\ LinkOK'
    BY <1>2, <1>5, Emptied, PartsKept DEF Connect, LinkOK
  <2> QED BY <1>1, <1>2, <2>1, PartsNext
<1>6. ASSUME NEW n \in 0..Len(toClient), ServerLeaves(n)
      PROVE  Typed'
  <2>1. SubSeq(toClient, 1, n) \in Seq(Requests)
    BY <1>2, CutOff DEF LinkOK
  <2>2. ServerOK' /\ LinkOK'
    BY <1>2, <1>6, <2>1, Emptied, PartsKept DEF ServerLeaves, LinkOK
  <2> QED BY <1>2, <2>2, PartsNext
<1>7. ASSUME NEW n \in 0..Len(toServer), ClientLeaves(n)
      PROVE  Typed'
  <2>1. SubSeq(toServer, 1, n) \in Seq(Requests)
    BY <1>2, CutOff DEF LinkOK
  <2>2. ServerOK' /\ LinkOK'
    BY <1>2, <1>7, <2>1, Emptied, PartsKept DEF ClientLeaves, LinkOK
  <2> QED BY <1>2, <2>2, PartsNext
<1> QED BY <1>1, <1>3, <1>4, <1>5, <1>6, <1>7

-----------------------------------------------------------------------------
(* The client: what a step does.                                           *)

\* What a channel holds is requests.
LEMMA BufferedType ==
  ASSUME Typed, NEW c \in Cmds
  PROVE  Buffered(c) \in Seq(Requests)
BY Emptied DEF Typed, Buffered

\* A request is delivered to the task that waits, to the buffer, or nowhere.
LEMMA DeliverDoes ==
  ASSUME Typed, NEW r \in Requests, Deliver(r)
  PROVE  /\ ChannelsOK'
         /\ r.cmd \in Cmds
         /\ crashed' <=> channels[r.cmd] = Null
         /\ \/ receiver[r.cmd] = "waiting" /\ Give(r) /\ channels' = channels
               /\ receiver' = [receiver EXCEPT ![r.cmd] = "idle"]
            \/ channels[r.cmd] # Null /\ UNCHANGED <<receiver, givenVars>>
               /\ channels' = [channels EXCEPT ![r.cmd] = Append(channels[r.cmd], r)]
            \/ UNCHANGED <<channels, receiver, givenVars>>
<1>1. ChannelsOK /\ r.cmd \in Cmds
  BY Parts DEF Requests
<1>2. crashed' \in BOOLEAN /\ (crashed' <=> channels[r.cmd] = Null)
  BY DEF Deliver
<1>3. CASE receiver[r.cmd] = "waiting"
  <2>1. /\ Give(r) /\ channels' = channels
        /\ receiver' = [receiver EXCEPT ![r.cmd] = "idle"]
    BY <1>3 DEF Deliver
  <2>2. ChannelsOK'
    BY <1>1, <1>2, <2>1 DEF ChannelsOK
  <2> QED BY <1>1, <1>2, <1>3, <2>1, <2>2
<1>4. CASE receiver[r.cmd] # "waiting" /\ channels[r.cmd] # Null /\ HasRoom(r.cmd)
  <2>1. /\ channels' = [channels EXCEPT ![r.cmd] = Append(channels[r.cmd], r)]
        /\ UNCHANGED <<receiver, givenVars>>
    BY <1>4 DEF Deliver
  <2>2. channels[r.cmd] \in Seq(Requests) /\ Len(channels[r.cmd]) < ChannelSize
    BY <1>1, <1>4 DEF ChannelsOK, HasRoom
  <2>3. /\ Append(channels[r.cmd], r) \in Seq(Requests)
        /\ Len(Append(channels[r.cmd], r)) <= ChannelSize
    BY <2>2, PutIn, PushAssumption
  <2>4. ChannelsOK'
    BY <1>1, <1>2, <2>1, <2>3 DEF ChannelsOK
  <2> QED BY <1>1, <1>2, <1>4, <2>1, <2>4
<1>5. CASE receiver[r.cmd] # "waiting" /\ ~(channels[r.cmd] # Null /\ HasRoom(r.cmd))
  <2>1. UNCHANGED <<channels, receiver, givenVars>>
    BY <1>5 DEF Deliver
  <2> QED BY <1>1, <1>2, <2>1 DEF ChannelsOK
<1> QED BY <1>3, <1>4, <1>5

\* Taking a request out of a channel.
LEMMA WaitDoes ==
  ASSUME Typed, NEW c \in Cmds, WaitRequest(c)
  PROVE  /\ ChannelsOK'
         /\ \/ channels' = [channels EXCEPT ![c] = <<>>]
               /\ receiver' = [receiver EXCEPT ![c] = "waiting"]
               /\ Buffered(c) = <<>> /\ UNCHANGED givenVars
            \/ channels' = [channels EXCEPT ![c] = Tail(channels[c])]
               /\ Give(Head(channels[c])) /\ receiver' = receiver
               /\ channels[c] \in Seq(Requests) /\ channels[c] # <<>>
               /\ Buffered(c) = channels[c]
<1>1. ChannelsOK /\ UNCHANGED crashed
  BY Parts DEF WaitRequest
<1>2. CASE channels[c] \in {Null, <<>>}
  <2>1. /\ channels' = [channels EXCEPT ![c] = <<>>]
        /\ receiver' = [receiver EXCEPT ![c] = "waiting"]
        /\ UNCHANGED givenVars
    BY <1>2 DEF WaitRequest
  <2>2. Buffered(c) = <<>>
    BY <1>2 DEF Buffered
  <2>3. <<>> \in Seq(Requests) /\ Len(<<>>) <= ChannelSize
    BY Emptied, PushAssumption
  <2>4. ChannelsOK'
    BY <1>1, <2>1, <2>3 DEF ChannelsOK
  <2> QED BY <2>1, <2>2, <2>4
<1>3. CASE channels[c] \notin {Null, <<>>}
  <2>1. /\ channels' = [channels EXCEPT ![c] = Tail(channels[c])]
        /\ receiver' = receiver /\ Give(Head(channels[c]))
    BY <1>3 DEF WaitRequest, Taken
  <2>2. /\ channels[c] \in Seq(Requests) /\ channels[c] # <<>>
        /\ Len(channels[c]) <= ChannelSize /\ Buffered(c) = channels[c]
    BY <1>1, <1>3 DEF ChannelsOK, Buffered
  <2>3. /\ Tail(channels[c]) \in Seq(Requests)
        /\ Len(Tail(channels[c])) <= ChannelSize
    BY <2>2, PushAssumption
  <2>4. ChannelsOK'
    BY <1>1, <2>1, <2>3 DEF ChannelsOK
  <2> QED BY <2>1, <2>2, <2>4
<1> QED BY <1>2, <1>3

\* A request arrives: it is refused, or remembered and delivered; if the server
\* has not left the connection it is acknowledged.
LEMMA ReceiveDoes ==
  ASSUME Typed, ReceiveRequest
  PROVE  /\ UNCHANGED <<serverVars, linkVars, waited>>
         /\ toClient \in Seq(Requests) /\ toClient # <<>> /\ Head(toClient) \in Requests
         /\ Id(Head(toClient)) \in Cmds \X Seqs
         /\ toClient' = Tail(toClient)
         /\ toServer' = IF serverUp THEN Append(toServer, Head(toClient)) ELSE toServer
         /\ \/ /\ AlreadyReceived(Head(toClient)) /\ Memory!exist(Id(Head(toClient)))
               /\ refused' = refused \cup {Head(toClient)}
               /\ UNCHANGED <<channels, receiver, crashed, received, forgotten, givenVars>>
            \/ /\ ~AlreadyReceived(Head(toClient)) /\ Memory!put(Id(Head(toClient)))
               /\ received' = received \cup {Head(toClient)}
               /\ forgotten' = forgotten \cup
                    {q \in received' : Id(q) \notin {recent'[i] : i \in DOMAIN recent'}}
               /\ Deliver(Head(toClient)) /\ refused' = refused
<1>1. toClient \in Seq(Requests) /\ toClient # <<>>
  BY DEF Typed, TypeOK, ReceiveRequest
<1>2. Head(toClient) \in Requests
  BY <1>1, TakenOut
<1>3. Id(Head(toClient)) \in Cmds \X Seqs
  BY <1>2 DEF Id, Requests
<1>4. /\ UNCHANGED <<serverVars, linkVars, waited>>
      /\ toClient' = Tail(toClient)
      /\ toServer' = IF serverUp THEN Append(toServer, Head(toClient)) ELSE toServer
  BY DEF ReceiveRequest
<1>5. CASE AlreadyReceived(Head(toClient))
  BY <1>1, <1>2, <1>3, <1>4, <1>5 DEF ReceiveRequest
<1>6. CASE ~AlreadyReceived(Head(toClient))
  BY <1>1, <1>2, <1>3, <1>4, <1>6 DEF ReceiveRequest
<1> QED BY <1>5, <1>6

\* The types after a step of the client.
LEMMA ClientTyped ==
  ASSUME Typed, ReceiveRequest \/ \E c \in Cmds : WaitRequest(c)
  PROVE  Typed'
<1>1. LinkOK /\ MemoryOK /\ ChannelsOK /\ UNCHANGED <<serverVars, linkVars>>
  BY Parts DEF ReceiveRequest, WaitRequest
<1>2. ServerOK'
  BY <1>1, PartsKept
<1>3. CASE ReceiveRequest
  <2> DEFINE r == Head(toClient)
  <2>1. /\ toClient \in Seq(Requests) /\ toClient # <<>> /\ r \in Requests
        /\ Id(r) \in Cmds \X Seqs /\ toClient' = Tail(toClient)
        /\ toServer' = IF serverUp THEN Append(toServer, r) ELSE toServer
        /\ \/ /\ AlreadyReceived(r) /\ Memory!exist(Id(r))
              /\ UNCHANGED <<channels, receiver, crashed, received>>
           \/ /\ Memory!put(Id(r)) /\ received' = received \cup {r} /\ Deliver(r)
    BY <1>3, ReceiveDoes
  <2> HIDE DEF r
  <2>2. toClient' \in Seq(Requests) /\ toServer' \in Seq(Requests)
    BY <1>1, <2>1, TakenOut, PutIn DEF LinkOK
  <2>3. LinkOK'
    BY <1>1, <2>2 DEF LinkOK, linkVars
  <2>4. MemoryOK'
    BY <1>1, <2>1, ExistKeeps, PutKeeps DEF MemoryOK, AlreadyReceived
  <2>5. ChannelsOK'
    BY <1>1, <2>1, DeliverDoes DEF ChannelsOK
  <2> QED BY <1>2, <2>3, <2>4, <2>5, PartsNext
<1>4. ASSUME NEW c \in Cmds, WaitRequest(c)
      PROVE  Typed'
  <2>1. ChannelsOK'
    BY <1>4, WaitDoes
  <2>2. UNCHANGED <<toClient, toServer, recent, received>>
    BY <1>4 DEF WaitRequest
  <2> QED BY <1>1, <1>2, <2>1, <2>2, PartsNext, PartsKept DEF MemoryOK
<1> QED BY <1>3, <1>4

-----------------------------------------------------------------------------
(* The steps.                                                              *)

LinkStep ==
  \/ AckArrives \/ Restart \/ Connect
  \/ \E n \in 0..Len(toClient) : ServerLeaves(n)
  \/ \E n \in 0..Len(toServer) : ClientLeaves(n)
ClientStep == ReceiveRequest \/ \E c \in Cmds : WaitRequest(c)

\* A step is one push's, the connection's or the server's, the client's, or none.
LEMMA StepCases ==
  ASSUME [Next]_vars
  PROVE  (\E p \in Pushes : PushStep(p)) \/ LinkStep \/ ClientStep \/ UNCHANGED vars
BY DEF Next, LinkStep, ClientStep

\* Types are kept.
LEMMA StepTyped ==
  ASSUME Typed, SameRun, [Next]_vars
  PROVE  Typed'
<1>1. CASE UNCHANGED vars
  <2>1. UNCHANGED serverVars /\ UNCHANGED <<linkVars, toClient, toServer>> /\ UNCHANGED clientVars
    BY <1>1 DEF vars
  <2> QED BY <2>1, PartsKept, PartsNext
<1> QED BY <1>1, StepCases, PushTyped, LinkTyped, ClientTyped DEF LinkStep, ClientStep

\* What is on its way is of the runs it was: a restart empties the way back, a new
\* connection the way there.
LEMMA StepSameRun ==
  ASSUME Typed, SameRun, [Next]_vars
  PROVE  SameRun'
<1>1. /\ toClient \in Seq(Requests) /\ toServer \in Seq(Requests)
      /\ pc \in [Pushes -> {"idle", "waiting", "ok", "connection_error", "timeout_error",
                            "gone"}]
      /\ request \in [Pushes -> Requests \cup {Null}]
      /\ life \in 1..MaxLives
  BY DEF Typed, TypeOK
<1>2. ASSUME NEW p \in Pushes, PushStep(p)
      PROVE  SameRun'
  <2>1. UNCHANGED <<life, serverUp, toServer>>
    BY <1>2 DEF PushStep, Push, TryFails, linkVars
  <2>2. PICK r \in Requests :
           /\ r.life = life
           /\ toClient' = toClient \/ Send(r)
           /\ \A q \in Pushes : pc'[q] = "waiting" =>
                request'[q] \in Requests /\ request'[q].life = life
    <3>1. ASSUME NEW c \in Cmds, Push(p, c)
          PROVE  \E r \in Requests :
                   /\ r.life = life
                   /\ toClient' = toClient \/ Send(r)
                   /\ \A q \in Pushes : pc'[q] = "waiting" =>
                        request'[q] \in Requests /\ request'[q].life = life
      <4>1. PICK r \in Requests :
               /\ r.life = life /\ request' = [request EXCEPT ![p] = r]
               /\ \E to \in {"waiting", "connection_error"} : pc' = [pc EXCEPT ![p] = to]
               /\ toClient' = toClient \/ (serverUp /\ Send(r))
        BY <3>1, PushDoes
      <4>2. \A q \in Pushes : pc'[q] = "waiting" =>
              request'[q] \in Requests /\ request'[q].life = life
        BY <1>1, <4>1 DEF SameRun
      <4> QED BY <4>1, <4>2
    <3>2. CASE TryFails(p)
      <4>1. /\ request[p] \in Requests /\ request[p].life = life
            /\ pc' = pc \/ \E to \in {"timeout_error", "connection_error"} :
                             pc' = [pc EXCEPT ![p] = to]
            /\ toClient' = toClient \/ (serverUp /\ Send(request[p]))
        BY <3>2, TryDoes
      <4>2. request' = request
        BY <3>2 DEF TryFails
      <4>3. \A q \in Pushes : pc'[q] = "waiting" =>
              request'[q] \in Requests /\ request'[q].life = life
        BY <1>1, <4>1, <4>2 DEF SameRun
      <4> QED BY <4>1, <4>3
    <3> QED BY <1>2, <3>1, <3>2 DEF PushStep
  <2>3. In(toClient') \subseteq In(toClient) \cup {r}
    BY <2>2, SendTyped
  <2> QED BY <1>1, <2>1, <2>2, <2>3 DEF SameRun
<1>3. CASE AckArrives
  <2>1. /\ UNCHANGED <<life, serverUp, toClient, request>>
        /\ toServer # <<>> /\ toServer' = Tail(toServer)
    BY <1>3 DEF AckArrives, linkVars
  <2>2. \A q \in Pushes : pc'[q] = "waiting" => pc[q] = "waiting"
    BY <1>1, <1>3 DEF AckArrives
  <2>3. In(toServer') \subseteq In(toServer)
    BY <1>1, <2>1, TakenOut
  <2> QED BY <2>1, <2>2, <2>3 DEF SameRun
<1>4. CASE Restart
  <2>1. /\ life' = life + 1 /\ serverUp' = FALSE /\ toServer' = <<>> /\ toClient' = toClient
        /\ \A q \in Pushes : pc'[q] # "waiting"
    BY <1>4 DEF Restart
  <2>2. \A r \in In(toClient) : r.life \in Nat /\ r.life <= life
    <3>1. \A r \in In(toClient) : r \in Requests
      BY <1>1 DEF In
    <3> QED BY <3>1 DEF SameRun, Requests, Lives
  <2> QED BY <1>1, <2>1, <2>2, Emptied DEF SameRun
<1>5. CASE Connect
  <2>1. UNCHANGED <<life, pc, request>> /\ toClient' = <<>> /\ toServer' = <<>>
    BY <1>5 DEF Connect, serverVars
  <2> QED BY <2>1, Emptied DEF SameRun
<1>6. ASSUME NEW n \in 0..Len(toClient), ServerLeaves(n)
      PROVE  SameRun'
  <2>1. /\ UNCHANGED <<life, pc, request>> /\ serverUp' = FALSE /\ toServer' = <<>>
        /\ toClient' = SubSeq(toClient, 1, n)
    BY <1>6 DEF ServerLeaves, serverVars
  <2>2. In(toClient') \subseteq In(toClient)
    BY <1>1, <2>1, CutOff
  <2> QED BY <2>1, <2>2, Emptied DEF SameRun
<1>7. ASSUME NEW n \in 0..Len(toServer), ClientLeaves(n)
      PROVE  SameRun'
  <2>1. /\ UNCHANGED <<life, pc, request>> /\ toClient' = <<>>
        /\ toServer' = SubSeq(toServer, 1, n)
    BY <1>7 DEF ClientLeaves, serverVars
  <2>2. In(toServer') \subseteq In(toServer)
    BY <1>1, <2>1, CutOff
  <2> QED BY <2>1, <2>2, Emptied DEF SameRun
<1>8. CASE ReceiveRequest
  <2>1. /\ UNCHANGED <<serverVars, linkVars>>
        /\ toClient # <<>> /\ Head(toClient) \in Requests /\ toClient' = Tail(toClient)
        /\ toServer' = IF serverUp THEN Append(toServer, Head(toClient)) ELSE toServer
    BY <1>8, ReceiveDoes
  <2>2. In(toClient') \subseteq In(toClient) /\ Head(toClient) \in In(toClient)
    BY <1>1, <2>1, TakenOut
  <2>3. In(toServer') \subseteq IF serverUp THEN In(toServer) \cup {Head(toClient)}
                                ELSE In(toServer)
    BY <1>1, <2>1, PutIn
  <2>4. \A r \in In(toServer') : r.life = life
    BY <2>2, <2>3 DEF SameRun
  <2> QED BY <2>1, <2>2, <2>4 DEF SameRun, serverVars, linkVars
<1>9. CASE (\E c \in Cmds : WaitRequest(c)) \/ UNCHANGED vars
  <2>1. UNCHANGED <<serverVars, linkVars, toClient, toServer>>
    BY <1>9 DEF WaitRequest, vars
  <2> QED BY <2>1 DEF SameRun, serverVars, linkVars
<1> QED BY <1>2, <1>3, <1>4, <1>5, <1>6, <1>7, <1>8, <1>9, StepCases DEF LinkStep, ClientStep

\* What the memory holds follows what was received.
LEMMA StepRemembered ==
  ASSUME Typed, Remembered, SameRun, [Next]_vars
  PROVE  Remembered'
<1>1. life' >= life /\ life \in Nat /\ life' \in Nat
  <2>1. life \in Nat
    BY DEF Typed, TypeOK
  <2>2. CASE Restart
    BY <2>1, <2>2 DEF Restart
  <2>3. CASE UNCHANGED life
    BY <2>1, <2>3
  <2>4. (\E p \in Pushes : PushStep(p)) => UNCHANGED life
    BY DEF PushStep, Push, TryFails
  <2>5. LinkStep => Restart \/ UNCHANGED life
    BY DEF LinkStep, AckArrives, Connect, ServerLeaves, ClientLeaves, serverVars
  <2>6. ClientStep \/ UNCHANGED vars => UNCHANGED life
    BY DEF ClientStep, ReceiveRequest, WaitRequest, serverVars, vars
  <2> QED BY <2>2, <2>3, <2>4, <2>5, <2>6, StepCases
<1>2. \A r \in received : r.life \in Nat /\ r.life <= life'
  BY <1>1 DEF Typed, Requests, Lives, Remembered
<1>3. CASE UNCHANGED <<recent, received, forgotten>>
  BY <1>2, <1>3 DEF Remembered
<1>4. CASE ReceiveRequest
  <2> DEFINE r == Head(toClient)
  <2>1. /\ toClient \in Seq(Requests) /\ toClient # <<>> /\ r \in Requests
        /\ Id(r) \in Cmds \X Seqs /\ UNCHANGED serverVars
        /\ \/ /\ AlreadyReceived(r) /\ Memory!exist(Id(r))
              /\ UNCHANGED <<received, forgotten>>
           \/ /\ Memory!put(Id(r)) /\ received' = received \cup {r}
              /\ forgotten' = forgotten \cup
                   {q \in received' : Id(q) \notin {recent'[i] : i \in DOMAIN recent'}}
    BY <1>4, ReceiveDoes
  <2>2. r \in In(toClient)
    BY <2>1, TakenOut
  <2> HIDE DEF r
  <2>3. CASE AlreadyReceived(r) /\ Memory!exist(Id(r)) /\ UNCHANGED <<received, forgotten>>
    <3>1. In(recent') = In(recent)
      BY <2>1, <2>3, ExistKeeps DEF AlreadyReceived
    <3> QED BY <1>2, <2>3, <3>1 DEF Remembered
  <2>4. CASE /\ Memory!put(Id(r)) /\ received' = received \cup {r}
             /\ forgotten' = forgotten \cup
                  {q \in received' : Id(q) \notin {recent'[i] : i \in DOMAIN recent'}}
    <3>1. In(recent') \subseteq In(recent) \cup {Id(r)}
      BY <2>1, <2>4, PutKeeps
    <3>2. \A q \in received' \ forgotten' : Id(q) \in In(recent')
      BY <2>4 DEF In
    <3>3. r.life <= life'
      BY <2>1, <2>2 DEF SameRun, serverVars
    <3> QED BY <1>2, <2>4, <3>1, <3>2, <3>3 DEF Remembered
  <2> QED BY <2>1, <2>3, <2>4
<1> QED BY <1>3, <1>4, StepCases
        DEF LinkStep, ClientStep, PushStep, Push, TryFails, AckArrives, Restart, Connect,
            ServerLeaves, ClientLeaves, WaitRequest, clientVars, historyVars, vars

\* What a channel holds, put into or taken out of one.
LEMMA BufferedNow ==
  ASSUME Typed, NEW c \in Cmds, NEW s, s # Null, channels' = [channels EXCEPT ![c] = s]
  PROVE  Buffered(c)' = s /\ \A d \in Cmds \ {c} : Buffered(d)' = Buffered(d)
BY DEF Buffered, Typed

\* A request that is new to the memory is nowhere, or was forgotten.
LEMMA NewDelivered ==
  ASSUME Typed, HandedOn, Remembered, NEW r \in Requests, ~AlreadyReceived(r), Deliver(r),
         received' = received \cup {r}, forgotten \subseteq forgotten'
  PROVE  HandedOn'
<1>1. Id(r) \notin In(recent)
  BY DEF AlreadyReceived, Memory!Remembers, In
<1>2. r \notin received \/ r \in forgotten
  BY <1>1 DEF Remembered
<1>3. r.cmd \in Cmds
  BY DEF Requests
<1>4. /\ given \subseteq received
      /\ \A c \in Cmds : \A q \in In(Buffered(c)) : q \in received /\ q.cmd = c
      /\ repeated \subseteq forgotten
  BY DEF HandedOn
<1>5. \A q \in received' \ forgotten', c \in Cmds :
        /\ q # r => OnceIn(Buffered(c), q) /\ (q \in given => q \notin In(Buffered(c)))
        /\ q = r => q \notin given /\ q \notin In(Buffered(c)) /\ OnceIn(Buffered(c), q)
  <2> SUFFICES ASSUME NEW q \in received' \ forgotten', NEW c \in Cmds
               PROVE  /\ q # r => /\ OnceIn(Buffered(c), q)
                                  /\ q \in given => q \notin In(Buffered(c))
                      /\ q = r => /\ q \notin given /\ q \notin In(Buffered(c))
                                  /\ OnceIn(Buffered(c), q)
    OBVIOUS
  <2>1. CASE q # r
    <3>1. q \in received \ forgotten
      BY <2>1
    <3> QED BY <2>1, <3>1 DEF HandedOn
  <2>2. CASE q = r
    <3>1. q \notin received
      BY <1>2, <2>2
    <3>2. q \notin given /\ q \notin In(Buffered(c))
      BY <1>4, <3>1
    <3> QED BY <2>2, <3>2 DEF OnceIn, In
  <2> QED BY <2>1, <2>2
<1>6. CASE UNCHANGED <<channels, givenVars>>
  <2>1. \A c \in Cmds : Buffered(c)' = Buffered(c)
    BY <1>6 DEF Buffered
  <2> QED BY <1>4, <1>5, <1>6, <2>1 DEF HandedOn, givenVars
<1>7. CASE Give(r) /\ channels' = channels
  <2>1. \A c \in Cmds : Buffered(c)' = Buffered(c)
    BY <1>7 DEF Buffered
  <2>2. given' = given \cup {r} /\ repeated' \subseteq forgotten'
    BY <1>2, <1>4, <1>7 DEF Give
  <2>3. \A q \in received' \ forgotten', c \in Cmds :
          OnceIn(Buffered(c), q) /\ (q \in given' => q \notin In(Buffered(c)))
    BY <1>5, <2>2
  <2> QED BY <1>4, <2>1, <2>2, <2>3 DEF HandedOn
<1>8. CASE /\ channels[r.cmd] # Null /\ UNCHANGED givenVars
           /\ channels' = [channels EXCEPT ![r.cmd] = Append(channels[r.cmd], r)]
  <2> DEFINE t == Append(Buffered(r.cmd), r)
  <2>1. Buffered(r.cmd) = channels[r.cmd] /\ Buffered(r.cmd) \in Seq(Requests)
    BY <1>3, <1>8, BufferedType DEF Buffered
  <2>2. /\ In(t) = In(Buffered(r.cmd)) \cup {r} /\ t \in Seq(Requests)
        /\ \A q : q # r /\ OnceIn(Buffered(r.cmd), q) => OnceIn(t, q)
        /\ r \notin In(Buffered(r.cmd)) => OnceIn(t, r)
    BY <2>1, PutIn
  <2>3. t # Null
    BY <2>2, NullAssumption
  <2>4. channels' = [channels EXCEPT ![r.cmd] = t]
    BY <1>8, <2>1
  <2> HIDE DEF t
  <2>5. Buffered(r.cmd)' = t /\ \A d \in Cmds \ {r.cmd} : Buffered(d)' = Buffered(d)
    BY <1>3, <2>3, <2>4, BufferedNow
  <2>6. \A c \in Cmds : \A q \in In(Buffered(c)') : q \in received' /\ q.cmd = c
    BY <1>4, <2>2, <2>5
  <2>7. \A q \in received' \ forgotten', c \in Cmds :
          OnceIn(Buffered(c)', q) /\ (q \in given => q \notin In(Buffered(c)'))
    <3> SUFFICES ASSUME NEW q \in received' \ forgotten', NEW c \in Cmds
                 PROVE  OnceIn(Buffered(c)', q) /\ (q \in given => q \notin In(Buffered(c)'))
      OBVIOUS
    <3>1. CASE c = r.cmd
      BY <1>3, <1>5, <2>2, <2>5, <3>1
    <3>2. CASE c # r.cmd
      BY <1>5, <2>5, <3>2
    <3> QED BY <3>1, <3>2
  <2> QED BY <1>4, <1>8, <2>6, <2>7 DEF HandedOn, givenVars
<1> QED BY <1>6, <1>7, <1>8, DeliverDoes

\* A request taken from its channel leaves it.
LEMMA TakenOnce ==
  ASSUME Typed, HandedOn, NEW c \in Cmds, WaitRequest(c)
  PROVE  HandedOn'
<1>1. UNCHANGED <<received, forgotten>>
  BY DEF WaitRequest
<1>2. CASE /\ channels' = [channels EXCEPT ![c] = <<>>]
           /\ Buffered(c) = <<>> /\ UNCHANGED givenVars
  <2>1. <<>> # Null
    BY NullAssumption, Emptied
  <2>2. \A d \in Cmds : Buffered(d)' = Buffered(d)
    BY <1>2, <2>1, BufferedNow
  <2> QED BY <1>1, <1>2, <2>2 DEF HandedOn, givenVars
<1>3. CASE /\ channels' = [channels EXCEPT ![c] = Tail(channels[c])]
           /\ Give(Head(channels[c]))
           /\ channels[c] \in Seq(Requests) /\ channels[c] # <<>>
           /\ Buffered(c) = channels[c]
  <2> DEFINE s == Buffered(c)
             r == Head(s)
             t == Tail(s)
  <2>1. /\ r \in In(s) /\ t \in Seq(Requests) /\ In(t) \subseteq In(s)
        /\ \A q : OnceIn(s, q) => OnceIn(t, q)
        /\ OnceIn(s, r) => r \notin In(t)
    BY <1>3, TakenOut
  <2>2. t # Null
    BY <2>1, NullAssumption
  <2>3. channels' = [channels EXCEPT ![c] = t] /\ Give(r)
    BY <1>3
  <2> HIDE DEF r, t
  <2>4. Buffered(c)' = t /\ \A d \in Cmds \ {c} : Buffered(d)' = Buffered(d)
    BY <2>2, <2>3, BufferedNow
  <2>5. r \in received /\ r.cmd = c
    BY <2>1 DEF HandedOn
  <2>6. given' = given \cup {r} /\ repeated' \subseteq forgotten'
    <3>1. r \in given => r \in forgotten
      BY <2>1, <2>5 DEF HandedOn
    <3> QED BY <1>1, <2>3, <3>1 DEF Give, HandedOn
  <2>7. given' \subseteq received'
    BY <1>1, <2>5, <2>6 DEF HandedOn
  <2>8. \A d \in Cmds : \A q \in In(Buffered(d)') : q \in received' /\ q.cmd = d
    BY <1>1, <2>1, <2>4 DEF HandedOn
  <2>9. ASSUME NEW q \in received' \ forgotten', NEW d \in Cmds
        PROVE  OnceIn(Buffered(d)', q) /\ (q \in given' => q \notin In(Buffered(d)'))
    <3>1. OnceIn(Buffered(d), q) /\ OnceIn(s, q) /\ (q \in given => q \notin In(Buffered(d)))
      BY <1>1, <2>9 DEF HandedOn
    <3>2. CASE d = c
      BY <2>1, <2>4, <2>6, <3>1, <3>2
    <3>3. CASE d # c
      <4>1. r \notin In(Buffered(d))
        BY <2>5, <3>3 DEF HandedOn
      <4> QED BY <2>4, <2>6, <3>1, <3>3, <4>1
    <3> QED BY <3>2, <3>3
  <2> QED BY <2>6, <2>7, <2>8, <2>9 DEF HandedOn
<1> QED BY <1>2, <1>3, WaitDoes

\* No request is handed on twice but a forgotten one.
LEMMA StepHandedOn ==
  ASSUME Typed, HandedOn, Remembered, [Next]_vars
  PROVE  HandedOn'
<1>1. CASE UNCHANGED <<channels, received, forgotten, givenVars>>
  <2>1. \A c \in Cmds : Buffered(c)' = Buffered(c)
    BY <1>1 DEF Buffered
  <2> QED BY <1>1, <2>1 DEF HandedOn, givenVars
<1>2. CASE ReceiveRequest
  <2>1. \/ UNCHANGED <<channels, received, forgotten, givenVars>>
        \/ /\ ~AlreadyReceived(Head(toClient)) /\ Deliver(Head(toClient))
           /\ Head(toClient) \in Requests
           /\ received' = received \cup {Head(toClient)} /\ forgotten \subseteq forgotten'
    BY <1>2, ReceiveDoes
  <2> QED BY <1>1, <2>1, NewDelivered
<1> QED BY <1>1, <1>2, TakenOnce, StepCases
        DEF LinkStep, ClientStep, PushStep, Push, TryFails, AckArrives, Restart, Connect,
            ServerLeaves, ClientLeaves, clientVars, historyVars, givenVars, vars

\* What is known stays known.
LEMMA KnownStays ==
  ASSUME received \subseteq received', refused \subseteq refused'
  PROVE  \A r : Known(r, received, refused) => Known(r, received', refused')
BY DEF Known

\* The client's histories grow only.
LEMMA HistoriesGrow ==
  ASSUME Typed, [Next]_vars
  PROVE  received \subseteq received' /\ refused \subseteq refused'
<1>1. ReceiveRequest => received \subseteq received' /\ refused \subseteq refused'
  BY ReceiveDoes
<1> QED BY <1>1, StepCases
        DEF LinkStep, ClientStep, PushStep, Push, TryFails, AckArrives, Restart, Connect,
            ServerLeaves, ClientLeaves, WaitRequest, clientVars, historyVars, vars

\* An acknowledgement is of a request that is known, and a push ends well only with
\* one of its own: cmd and seq agree, and so do the runs.
LEMMA StepAcksKnown ==
  ASSUME Typed, Remembered, SameRun, AcksKnown, [Next]_vars
  PROVE  AcksKnown'
<1>1. /\ toClient \in Seq(Requests) /\ toServer \in Seq(Requests)
      /\ pc \in [Pushes -> {"idle", "waiting", "ok", "connection_error", "timeout_error",
                            "gone"}]
      /\ request \in [Pushes -> Requests \cup {Null}]
  BY DEF Typed, TypeOK
<1>2. \A r : Known(r, received, refused) => Known(r, received', refused')
  BY HistoriesGrow, KnownStays
<1>3. ASSUME NEW p \in Pushes, PushStep(p)
      PROVE  AcksKnown'
  <2>1. toServer' = toServer
    BY <1>3 DEF PushStep, Push, TryFails
  <2>2. \A q \in Pushes : pc'[q] = "ok" => pc[q] = "ok" /\ request'[q] = request[q]
    <3>1. ASSUME NEW c \in Cmds, Push(p, c)
          PROVE  \A q \in Pushes : pc'[q] = "ok" => pc[q] = "ok" /\ request'[q] = request[q]
      <4>1. PICK r \in Requests :
               /\ request' = [request EXCEPT ![p] = r]
               /\ \E to \in {"waiting", "connection_error"} : pc' = [pc EXCEPT ![p] = to]
        BY <3>1, PushDoes
      <4> QED BY <1>1, <4>1
    <3>2. TryFails(p) =>
            \A q \in Pushes : pc'[q] = "ok" => pc[q] = "ok" /\ request'[q] = request[q]
      BY <1>1, TryDoes DEF TryFails
    <3> QED BY <1>3, <3>1, <3>2 DEF PushStep
  <2> QED BY <1>2, <2>1, <2>2 DEF AcksKnown
<1>4. CASE AckArrives
  <2> DEFINE a == Head(toServer)
  <2>1. /\ toServer # <<>> /\ toServer' = Tail(toServer) /\ request' = request
        /\ (pc' = [p \in Pushes |-> IF Answers(a, p) THEN "ok" ELSE pc[p]]) \/ pc' = pc
    BY <1>4 DEF AckArrives
  <2>2. In(toServer') \subseteq In(toServer) /\ a \in In(toServer) /\ a \in Requests
    BY <1>1, <2>1, TakenOut
  <2> HIDE DEF a
  <2>3. ASSUME NEW p \in Pushes, Answers(a, p)
        PROVE  request[p] = a
    <3>1. request[p] \in Requests /\ request[p].life = a.life
      BY <2>2, <2>3 DEF Answers, SameRun
    <3>2. request[p].cmd = a.cmd /\ request[p].seq = a.seq
      BY <2>3 DEF Answers, Id
    <3> QED BY <2>2, <3>1, <3>2 DEF Requests
  <2>4. \A p \in Pushes : pc'[p] = "ok" => pc[p] = "ok" \/ request[p] = a
    BY <2>1, <2>3
  <2> QED BY <1>2, <2>1, <2>2, <2>4 DEF AcksKnown
<1>5. CASE Restart
  <2>1. \A p \in Pushes : pc'[p] = "ok" => pc[p] = "ok"
    BY <1>5 DEF Restart
  <2>2. toServer' = <<>> /\ request' = request
    BY <1>5 DEF Restart
  <2> QED BY <1>2, <2>1, <2>2, Emptied DEF AcksKnown
<1>6. ASSUME UNCHANGED serverVars, In(toServer') \subseteq In(toServer)
      PROVE  AcksKnown'
  BY <1>2, <1>6 DEF AcksKnown, serverVars
<1>7. CASE Connect \/ \E n \in 0..Len(toClient) : ServerLeaves(n)
  <2>1. UNCHANGED serverVars /\ toServer' = <<>>
    BY <1>7 DEF Connect, ServerLeaves
  <2> QED BY <1>6, <2>1, Emptied
<1>8. CASE \E n \in 0..Len(toServer) : ClientLeaves(n)
  <2>1. PICK n \in 0..Len(toServer) : ClientLeaves(n)
    BY <1>8
  <2>2. UNCHANGED serverVars /\ toServer' = SubSeq(toServer, 1, n)
    BY <2>1 DEF ClientLeaves
  <2> QED BY <1>1, <1>6, <2>2, CutOff
<1>9. CASE ReceiveRequest
  <2> DEFINE r == Head(toClient)
  <2>1. /\ UNCHANGED serverVars
        /\ toClient # <<>> /\ r \in Requests
        /\ toServer' = IF serverUp THEN Append(toServer, r) ELSE toServer
        /\ \/ AlreadyReceived(r) /\ refused' = refused \cup {r} /\ received' = received
           \/ received' = received \cup {r}
    BY <1>9, ReceiveDoes
  <2>2. r \in In(toClient)
    BY <1>1, <2>1, TakenOut
  <2> HIDE DEF r
  <2>3. CASE ~serverUp
    BY <1>6, <2>1, <2>3
  <2>4. CASE serverUp
    <3>1. In(toServer') = In(toServer) \cup {r}
      BY <1>1, <2>1, <2>4, PutIn
    <3>2. Known(r, received', refused')
      <4>1. CASE AlreadyReceived(r) /\ refused' = refused \cup {r} /\ received' = received
        <5>1. Id(r) \in In(recent)
          BY <4>1 DEF AlreadyReceived, Memory!Remembers, In
        <5>2. PICK q \in received : Id(q) = Id(r)
          BY <5>1 DEF Remembered
        <5>3. q.life <= r.life
          BY <2>2, <2>4 DEF Remembered, SameRun
        <5> QED BY <4>1, <5>2, <5>3 DEF Known
      <4>2. CASE received' = received \cup {r}
        BY <4>2 DEF Known
      <4> QED BY <2>1, <4>1, <4>2
    <3> QED BY <1>2, <2>1, <3>1, <3>2 DEF AcksKnown, serverVars
  <2> QED BY <2>3, <2>4
<1>10. CASE (\E c \in Cmds : WaitRequest(c)) \/ UNCHANGED vars
  <2>1. UNCHANGED serverVars /\ UNCHANGED toServer
    BY <1>10 DEF WaitRequest, vars
  <2> QED BY <1>6, <2>1
<1> QED BY <1>3, <1>4, <1>5, <1>7, <1>8, <1>9, <1>10, StepCases DEF LinkStep, ClientStep

\* A channel that was opened stays, and a request for one that was not fails.
LEMMA StepOpened ==
  ASSUME Typed, Opened, [Next]_vars
  PROVE  Opened'
<1>1. /\ channels \in [Cmds -> Seq(Requests) \cup {Null}]
      /\ receiver \in [Cmds -> {"idle", "waiting"}]
      /\ \A r \in received : r.cmd \in Cmds
  BY DEF Typed, TypeOK, Requests
<1>2. CASE UNCHANGED <<channels, receiver, crashed, waited, received>>
  BY <1>2 DEF Opened, FailsOnFirstUnwaited
<1>3. CASE ReceiveRequest
  <2> DEFINE r == Head(toClient)
  <2>1. /\ r \in Requests /\ waited' = waited /\ ~crashed
        /\ \/ UNCHANGED <<channels, receiver, crashed, received>>
           \/ Deliver(r) /\ received' = received \cup {r}
    BY <1>3, ReceiveDoes DEF ReceiveRequest
  <2> HIDE DEF r
  <2>2. CASE Deliver(r) /\ received' = received \cup {r}
    <3>1. /\ r.cmd \in Cmds /\ (crashed' <=> channels[r.cmd] = Null)
          /\ \A c \in Cmds : channels'[c] # Null <=> channels[c] # Null
          /\ \A c \in Cmds : receiver'[c] = "waiting" => receiver[c] = "waiting"
      <4>1. /\ r.cmd \in Cmds
            /\ crashed' <=> channels[r.cmd] = Null
            /\ \/ channels' = channels /\ receiver' = [receiver EXCEPT ![r.cmd] = "idle"]
               \/ /\ channels[r.cmd] # Null /\ receiver' = receiver
                  /\ channels' = [channels EXCEPT ![r.cmd] = Append(channels[r.cmd], r)]
               \/ UNCHANGED <<channels, receiver>>
        BY <2>1, <2>2, DeliverDoes
      <4>2. CASE UNCHANGED channels
        BY <1>1, <4>1, <4>2
      <4>3. CASE /\ channels[r.cmd] # Null /\ receiver' = receiver
                 /\ channels' = [channels EXCEPT ![r.cmd] = Append(channels[r.cmd], r)]
        <5>1. Append(channels[r.cmd], r) # Null
          <6>1. channels[r.cmd] \in Seq(Requests)
            BY <1>1, <4>1, <4>3
          <6>2. Append(channels[r.cmd], r) \in Seq(Requests)
            BY <2>1, <6>1, PutIn
          <6> QED BY <6>2, NullAssumption
        <5> QED BY <1>1, <4>1, <4>3, <5>1
      <4> QED BY <4>1, <4>2, <4>3
    <3>2. \A q \in received : q.cmd \in waited
      BY <2>1 DEF Opened, FailsOnFirstUnwaited
    <3>3. FailsOnFirstUnwaited'
      BY <2>1, <2>2, <3>1, <3>2 DEF Opened, FailsOnFirstUnwaited
    <3> QED BY <2>1, <3>1, <3>3 DEF Opened
  <2> QED BY <1>2, <2>1, <2>2
<1>4. ASSUME NEW c \in Cmds, WaitRequest(c)
      PROVE  Opened'
  <2>1. /\ ~crashed /\ ~crashed' /\ received' = received
        /\ waited' = waited \cup {c}
    BY <1>4 DEF WaitRequest
  <2>2. FailsOnFirstUnwaited'
    BY <2>1 DEF Opened, FailsOnFirstUnwaited
  <2>3. /\ channels'[c] # Null /\ \A d \in Cmds \ {c} : channels'[d] = channels[d]
        /\ \A d \in Cmds : receiver'[d] = "waiting" => receiver[d] = "waiting" \/ d = c
    <3>1. \/ /\ channels' = [channels EXCEPT ![c] = <<>>]
             /\ receiver' = [receiver EXCEPT ![c] = "waiting"]
          \/ /\ channels' = [channels EXCEPT ![c] = Tail(channels[c])]
             /\ receiver' = receiver
             /\ channels[c] \in Seq(Requests) /\ channels[c] # <<>>
      BY <1>4, WaitDoes
    <3>2. <<>> # Null
      BY Emptied, NullAssumption
    <3>3. channels[c] \in Seq(Requests) /\ channels[c] # <<>> => Tail(channels[c]) # Null
      BY TakenOut, NullAssumption
    <3> QED BY <1>1, <3>1, <3>2, <3>3
  <2> QED BY <2>1, <2>2, <2>3 DEF Opened
<1> QED BY <1>2, <1>3, <1>4, StepCases
        DEF LinkStep, ClientStep, PushStep, Push, TryFails, AckArrives, Restart, Connect,
            ServerLeaves, ClientLeaves, clientVars, historyVars, vars

-----------------------------------------------------------------------------
(* The theorems.                                                           *)

\* The invariant holds initially.
LEMMA InitInv == Init => IInv
<1> SUFFICES ASSUME Init
             PROVE  IInv
  OBVIOUS
<1>1. \A c \in Cmds : Buffered(c) = <<>>
  BY DEF Init, Buffered
<1>2. Typed
  <2>1. ServerOK
    BY PushAssumption DEF Init, ServerOK
  <2>2. LinkOK
    BY Emptied DEF Init, LinkOK
  <2>3. <<>> \in Seq(Cmds \X Seqs) /\ Len(<<>>) <= Cap
    BY PushAssumption
  <2>4. MemoryOK
    BY <2>3 DEF Init, MemoryOK
  <2>5. ChannelsOK
    BY DEF Init, ChannelsOK
  <2> QED BY <2>1, <2>2, <2>4, <2>5, Parts
<1>3. HandedOn
  BY <1>1, Emptied DEF Init, HandedOn
<1>4. Remembered
  BY Emptied DEF Init, Remembered
<1>5. SameRun
  BY Emptied DEF Init, SameRun
<1>6. AcksKnown
  BY Emptied DEF Init, AcksKnown
<1>7. Opened
  BY DEF Init, Opened, FailsOnFirstUnwaited
<1> QED BY <1>2, <1>3, <1>4, <1>5, <1>6, <1>7 DEF IInv

\* The invariant is kept by every step.
LEMMA StepInv == IInv /\ [Next]_vars => IInv'
BY StepTyped, StepHandedOn, StepRemembered, StepSameRun, StepAcksKnown, StepOpened DEF IInv

\* The inductive invariant holds throughout.
THEOREM Invariance == Spec => []IInv
<1> QED BY InitInv, StepInv, PTL DEF Spec

\* A request is handed to the application once, unless the memory of received ids
\* has forgotten it (tcp_client.hpp:145).
THEOREM RequestsGivenOnce == Spec => []GivenOnce
<1>1. IInv => GivenOnce
  BY DEF IInv, Typed, HandedOn, GivenOnce
<1> QED BY <1>1, Invariance, PTL

\* A push that succeeds was received, or refused for one with its id that was, of the
\* same run of the server or an earlier one (tcp_client.hpp:143).
THEOREM SuccessMeansReceived == Spec => []OkMeansReceived
<1>1. IInv => OkMeansReceived
  BY DEF IInv, AcksKnown, Known, OkMeansReceived
<1> QED BY <1>1, Invariance, PTL

\* The client fails on the first request for a command nobody ever waited for, and
\* on no other (tcp_client.hpp:118-121, 150).
THEOREM ChannelsStayOpen == Spec => []FailsOnFirstUnwaited
<1>1. IInv => FailsOnFirstUnwaited
  BY DEF IInv, Opened
<1> QED BY <1>1, Invariance, PTL

-----------------------------------------------------------------------------
(* Lru: what a list and a map of its nodes have in common.                 *)

\* A list of nodes, their values and a map from each value to its node agree.
Agree(nodes, values, keys) ==
  /\ nodes \in Seq(Nodes)
  /\ values \in [Nodes -> Ids]
  /\ keys \in [Ids -> Nodes \cup {NoNode}]
  /\ \A v \in Ids : keys[v] # NoNode =>
       (\E i \in 1..Len(nodes) : nodes[i] = keys[v]) /\ values[keys[v]] = v
  /\ \A i \in 1..Len(nodes) : keys[values[nodes[i]]] = nodes[i]
  /\ \A i, j \in 1..Len(nodes) : nodes[i] = nodes[j] => i = j

\* The values that have an entry.
Held(keys) == {v \in Ids : keys[v] # NoNode}

\* The invariant says that they agree, and that they are cap at most.
Fits == Agree(l, val, m) /\ Len(l) <= cap

\* ListAndMapAgree says just that.
LEMMA AgreeIsInv == ListAndMapAgree <=> Fits
<1>1. l \in Seq(Nodes) => DOMAIN l = 1..Len(l)
  OBVIOUS
<1> QED BY <1>1 DEF ListAndMapAgree, LruTypeOK, Agree, Listed, Fits

\* The same of the next state.
LEMMA AgreeIsInvNext == Agree(l', val', m') /\ Len(l') <= cap => ListAndMapAgree'
<1>1. ListAndMapAgree' <=> Fits'
  BY AgreeIsInv, PTL
<1> QED BY <1>1 DEF Fits

\* As many values have an entry as there are nodes in the list.
LEMMA Counted ==
  ASSUME NEW nodes, NEW values, NEW keys, Agree(nodes, values, keys)
  PROVE  Cardinality(Held(keys)) = Len(nodes)
<1> DEFINE f == [i \in 1..Len(nodes) |-> values[nodes[i]]]
<1>1. Len(nodes) \in Nat /\ \A i \in 1..Len(nodes) : nodes[i] \in Nodes
  BY DEF Agree
<1>2. \A i \in 1..Len(nodes) :
        values[nodes[i]] \in Ids /\ keys[values[nodes[i]]] = nodes[i]
  BY <1>1 DEF Agree
<1>3. f \in [1..Len(nodes) -> Held(keys)]
  BY <1>1, <1>2, LruAssumption DEF Held
<1>4. \A i, j \in 1..Len(nodes) : f[i] = f[j] => i = j
  BY <1>2 DEF Agree
<1>5. \A v \in Held(keys) : \E i \in 1..Len(nodes) : f[i] = v
  BY DEF Held, Agree
<1>6. f \in Bijection(1..Len(nodes), Held(keys))
  <2>1. f \in [1..Len(nodes) -> Held(keys)] /\ DOMAIN f = 1..Len(nodes)
    BY <1>3
  <2> HIDE DEF f
  <2> QED BY <1>4, <1>5, <2>1 DEF Bijection, Injection, Surjection, IsInjective
<1>7. IsFiniteSet(1..Len(nodes)) /\ Cardinality(1..Len(nodes)) = Len(nodes)
  BY <1>1, FS_Interval
<1> QED BY <1>6, <1>7, FS_Bijection DEF ExistsBijection

\* A new node may go to the front for a value without one.
LEMMA LinkedAgree ==
  ASSUME NEW nodes, NEW values, NEW keys, Agree(nodes, values, keys),
         NEW v \in Ids, keys[v] = NoNode,
         NEW n \in Nodes, \A i \in 1..Len(nodes) : nodes[i] # n
  PROVE  Agree(<<n>> \o nodes, [values EXCEPT ![n] = v], [keys EXCEPT ![v] = n])
<1> DEFINE s == <<n>> \o nodes
           vals == [values EXCEPT ![n] = v]
           ks == [keys EXCEPT ![v] = n]
<1>1. /\ nodes \in Seq(Nodes) /\ values \in [Nodes -> Ids]
      /\ keys \in [Ids -> Nodes \cup {NoNode}] /\ Len(nodes) \in Nat
      /\ \A i \in 1..Len(nodes) : nodes[i] \in Nodes /\ nodes[i] # n
      /\ \A i \in 1..Len(nodes) : keys[values[nodes[i]]] = nodes[i]
      /\ \A i, j \in 1..Len(nodes) : nodes[i] = nodes[j] => i = j
  BY DEF Agree
<1>2. /\ s \in Seq(Nodes) /\ Len(s) = 1 + Len(nodes) /\ s[1] = n
      /\ \A i \in 1..Len(nodes) : s[i + 1] = nodes[i]
  BY <1>1, PutBefore
<1>3. /\ vals \in [Nodes -> Ids] /\ vals[n] = v
      /\ \A x \in Nodes : x # n => vals[x] = values[x]
      /\ ks \in [Ids -> Nodes \cup {NoNode}] /\ ks[v] = n
      /\ \A w \in Ids : w # v => ks[w] = keys[w]
  BY <1>1
<1> HIDE DEF s, vals, ks
<1>4. ASSUME NEW i \in 1..Len(s)
      PROVE  i = 1 \/ \E j \in 1..Len(nodes) : i = j + 1 /\ s[i] = nodes[j]
  <2>1. i # 1 => i - 1 \in 1..Len(nodes) /\ i = (i - 1) + 1
    BY <1>1, <1>2
  <2> QED BY <1>2, <2>1
<1>5. ASSUME NEW j \in 1..Len(nodes)
      PROVE  j + 1 \in 1..Len(s) /\ s[j + 1] = nodes[j]
  BY <1>1, <1>2
<1>6. 1 \in 1..Len(s)
  BY <1>1, <1>2
<1>7. ASSUME NEW w \in Ids, ks[w] # NoNode
      PROVE  (\E i \in 1..Len(s) : s[i] = ks[w]) /\ vals[ks[w]] = w
  <2>1. CASE w = v
    BY <1>2, <1>3, <1>6, <2>1
  <2>2. CASE w # v
    <3>1. ks[w] = keys[w]
      BY <1>3, <2>2
    <3>2. (\E j \in 1..Len(nodes) : nodes[j] = keys[w]) /\ values[keys[w]] = w
      BY <1>7, <3>1 DEF Agree
    <3>3. PICK j \in 1..Len(nodes) : nodes[j] = ks[w]
      BY <3>1, <3>2
    <3>4. vals[ks[w]] = w
      BY <1>1, <1>3, <3>1, <3>2, <3>3
    <3> QED BY <1>5, <3>3, <3>4
  <2> QED BY <2>1, <2>2
<1>8. ASSUME NEW i \in 1..Len(s)
      PROVE  ks[vals[s[i]]] = s[i]
  <2>1. CASE i = 1
    BY <1>2, <1>3, <2>1
  <2>2. CASE i # 1
    <3>1. PICK j \in 1..Len(nodes) : s[i] = nodes[j]
      BY <1>4, <2>2
    <3>2. vals[s[i]] = values[nodes[j]] /\ values[nodes[j]] \in Ids
      BY <1>1, <1>3, <3>1
    <3>3. keys[values[nodes[j]]] = nodes[j] /\ nodes[j] # NoNode
      BY <1>1, LruAssumption
    <3> QED BY <1>3, <3>1, <3>2, <3>3
  <2> QED BY <2>1, <2>2
<1>9. ASSUME NEW i \in 1..Len(s), NEW j \in 1..Len(s), s[i] = s[j]
      PROVE  i = j
  <2>1. CASE i = 1 \/ j = 1
    <3>1. \A x \in 1..Len(s) : x # 1 => s[x] # n
      BY <1>1, <1>4
    <3> QED BY <1>2, <1>9, <2>1, <3>1
  <2>2. CASE i # 1 /\ j # 1
    <3>1. PICK a \in 1..Len(nodes) : i = a + 1 /\ s[i] = nodes[a]
      BY <1>4, <2>2
    <3>2. PICK b \in 1..Len(nodes) : j = b + 1 /\ s[j] = nodes[b]
      BY <1>4, <2>2
    <3> QED BY <1>1, <1>9, <3>1, <3>2
  <2> QED BY <2>1, <2>2
<1> QED BY <1>2, <1>3, <1>7, <1>8, <1>9 DEF Agree, s, vals, ks

\* Taking a node out of the list and its value out of the map.
LEMMA UnlinkedAgree ==
  ASSUME NEW nodes, NEW values, NEW keys, Agree(nodes, values, keys),
         NEW k \in 1..Len(nodes)
  PROVE  /\ Agree(RemoveAt(nodes, k), values, [keys EXCEPT ![values[nodes[k]]] = NoNode])
         /\ \A i \in 1..Len(RemoveAt(nodes, k)) : RemoveAt(nodes, k)[i] # nodes[k]
<1> DEFINE s == RemoveAt(nodes, k)
           v == values[nodes[k]]
           ks == [keys EXCEPT ![v] = NoNode]
           up(i) == IF i < k THEN i ELSE i + 1
<1>1. /\ nodes \in Seq(Nodes) /\ values \in [Nodes -> Ids]
      /\ keys \in [Ids -> Nodes \cup {NoNode}]
      /\ Len(nodes) \in Nat /\ DOMAIN nodes = 1..Len(nodes)
      /\ \A i \in 1..Len(nodes) : nodes[i] \in Nodes
      /\ \A i \in 1..Len(nodes) : keys[values[nodes[i]]] = nodes[i]
      /\ \A i, j \in 1..Len(nodes) : nodes[i] = nodes[j] => i = j
  BY DEF Agree
<1>2. /\ s \in Seq(Nodes) /\ Len(s) = Len(nodes) - 1
      /\ \A i \in 1..(Len(nodes) - 1) : s[i] = IF i < k THEN nodes[i] ELSE nodes[i + 1]
  <2>1. nodes \in Seq(Nodes) /\ k \in DOMAIN nodes
    BY <1>1
  <2>2. /\ RemoveAt(nodes, k) \in Seq(Nodes)
        /\ Len(RemoveAt(nodes, k)) = Len(nodes) - 1
        /\ \A i \in 1..(Len(nodes) - 1) :
             RemoveAt(nodes, k)[i] = IF i < k THEN nodes[i] ELSE nodes[i + 1]
    BY <2>1, PlaceRemoved
  <2> QED BY <2>2
<1>3. v \in Ids /\ keys[v] = nodes[k]
  BY <1>1
<1>4. /\ ks \in [Ids -> Nodes \cup {NoNode}] /\ ks[v] = NoNode
      /\ \A w \in Ids : w # v => ks[w] = keys[w]
  BY <1>1, <1>3
<1> HIDE DEF s, v, ks
<1>5. ASSUME NEW i \in 1..Len(s)
      PROVE  s[i] = nodes[up(i)] /\ up(i) \in 1..Len(nodes) /\ up(i) # k
  BY <1>1, <1>2
<1>6. \A i, j \in 1..Len(s) : up(i) = up(j) => i = j
  BY <1>1, <1>2
<1>7. ASSUME NEW j \in 1..Len(nodes), j # k
      PROVE  \E i \in 1..Len(s) : s[i] = nodes[j]
  <2>1. CASE j < k
    <3>1. j \in 1..Len(s) /\ up(j) = j
      BY <1>1, <1>2, <2>1
    <3> QED BY <1>5, <3>1
  <2>2. CASE j > k
    <3>1. j - 1 \in 1..Len(s) /\ up(j - 1) = j
      BY <1>1, <1>2, <2>2
    <3> QED BY <1>5, <3>1
  <2> QED BY <1>1, <1>7, <2>1, <2>2
<1> HIDE DEF up
<1>8. \A i \in 1..Len(s) : s[i] # nodes[k] /\ s[i] \in Nodes /\ keys[values[s[i]]] = s[i]
  BY <1>1, <1>5
<1>9. \A i \in 1..Len(s) : values[s[i]] \in Ids /\ values[s[i]] # v
  BY <1>1, <1>3, <1>8
<1>10. \A i \in 1..Len(s) : ks[values[s[i]]] = s[i]
  BY <1>4, <1>8, <1>9
<1>11. \A i, j \in 1..Len(s) : s[i] = s[j] => i = j
  BY <1>1, <1>5, <1>6
<1>12. ASSUME NEW w \in Ids, ks[w] # NoNode
       PROVE  (\E i \in 1..Len(s) : s[i] = ks[w]) /\ values[ks[w]] = w
  <2>1. w # v /\ ks[w] = keys[w]
    BY <1>4, <1>12
  <2>2. PICK j \in 1..Len(nodes) : nodes[j] = keys[w] /\ values[keys[w]] = w
    BY <1>12, <2>1 DEF Agree
  <2>3. j # k
    BY <2>1, <2>2 DEF v
  <2> QED BY <1>7, <2>1, <2>2, <2>3
<1> QED BY <1>1, <1>2, <1>4, <1>8, <1>10, <1>11, <1>12 DEF Agree, s, v, ks

\* The place of a value's node, which is the place of the value.
LEMMA PlaceFound ==
  ASSUME Agree(l, val, m), NEW v \in Ids, m[v] # NoNode
  PROVE  \E k \in 1..Len(l) :
           /\ l[k] = m[v] /\ val[l[k]] = v
           /\ Unlinked(m[v]) = RemoveAt(l, k)
           /\ \A i \in 1..Len(l) : val[l[i]] = v => i = k
<1> DEFINE k == CHOOSE i \in DOMAIN l : l[i] = m[v]
<1>1. l \in Seq(Nodes) /\ DOMAIN l = 1..Len(l)
  BY DEF Agree
<1>2. \E i \in 1..Len(l) : l[i] = m[v]
  BY DEF Agree
<1>3. k \in 1..Len(l) /\ l[k] = m[v]
  BY <1>1, <1>2
<1>4. val[l[k]] = v
  BY <1>3 DEF Agree
<1>5. Unlinked(m[v]) = RemoveAt(l, k)
  BY DEF Unlinked
<1> HIDE DEF k
<1>6. \A i \in 1..Len(l) : val[l[i]] = v => i = k
  BY <1>3 DEF Agree
<1> QED BY <1>3, <1>4, <1>5, <1>6

\* Without its old node a value has no entry; nobody else loses one.
LEMMA WithoutAgree ==
  ASSUME Agree(l, val, m), NEW v \in Ids
  PROVE  /\ Agree(WithoutOld(v), val, [m EXCEPT ![v] = NoNode])
         /\ \A i \in 1..Len(WithoutOld(v)) : WithoutOld(v)[i] # m[v]
         /\ Len(WithoutOld(v)) <= Len(l)
<1> DEFINE ks == [m EXCEPT ![v] = NoNode]
<1>1. l \in Seq(Nodes) /\ m \in [Ids -> Nodes \cup {NoNode}] /\ Len(l) \in Nat
  BY DEF Agree
<1>2. CASE m[v] = NoNode
  <2>1. WithoutOld(v) = l /\ ks = m
    BY <1>1, <1>2 DEF WithoutOld
  <2> HIDE DEF ks
  <2>2. \A i \in 1..Len(l) : l[i] \in Nodes
    BY <1>1
  <2>3. Agree(WithoutOld(v), val, ks)
    BY <2>1
  <2> QED BY <1>1, <1>2, <2>1, <2>2, <2>3, LruAssumption DEF ks
<1>3. CASE m[v] # NoNode
  <2>1. PICK k \in 1..Len(l) :
           l[k] = m[v] /\ val[l[k]] = v /\ Unlinked(m[v]) = RemoveAt(l, k)
    BY <1>3, PlaceFound
  <2>2. WithoutOld(v) = RemoveAt(l, k)
    BY <1>3, <2>1 DEF WithoutOld
  <2>3. k \in DOMAIN l
    BY <1>1
  <2>4. Len(RemoveAt(l, k)) = Len(l) - 1
    BY <1>1, <2>3, PlaceRemoved
  <2>5. /\ Agree(RemoveAt(l, k), val, [m EXCEPT ![val[l[k]]] = NoNode])
        /\ \A i \in 1..Len(RemoveAt(l, k)) : RemoveAt(l, k)[i] # l[k]
    BY UnlinkedAgree
  <2>6. ks = [m EXCEPT ![val[l[k]]] = NoNode]
    BY <2>1
  <2> HIDE DEF ks
  <2>7. Agree(RemoveAt(l, k), val, ks)
    BY <2>5, <2>6
  <2> QED BY <1>1, <2>1, <2>2, <2>4, <2>5, <2>7 DEF ks
<1> QED BY <1>2, <1>3

\* What put and exist build in front of the rest agrees.
LEMMA FrontAgree ==
  ASSUME Agree(l, val, m), NEW v \in Ids, NEW n \in Nodes,
         \A i \in 1..Len(WithoutOld(v)) : WithoutOld(v)[i] # n
  PROVE  /\ Agree(<<n>> \o WithoutOld(v), [val EXCEPT ![n] = v], [m EXCEPT ![v] = n])
         /\ Len(<<n>> \o WithoutOld(v)) \in 1..(Len(l) + 1)
<1> DEFINE w == WithoutOld(v)
           ks == [m EXCEPT ![v] = NoNode]
<1>1. Agree(w, val, ks) /\ Len(w) <= Len(l) /\ m \in [Ids -> Nodes \cup {NoNode}]
      /\ l \in Seq(Nodes)
  BY WithoutAgree DEF Agree
<1>2. ks[v] = NoNode /\ [ks EXCEPT ![v] = n] = [m EXCEPT ![v] = n]
  BY <1>1
<1> HIDE DEF w, ks
<1>3. Agree(<<n>> \o w, [val EXCEPT ![n] = v], [ks EXCEPT ![v] = n])
  BY <1>1, <1>2, LinkedAgree DEF w
<1>4. w \in Seq(Nodes) /\ Len(<<n>> \o w) = 1 + Len(w)
  BY <1>1, PutBefore DEF Agree
<1>5. Len(<<n>> \o w) \in 1..(Len(l) + 1)
  BY <1>1, <1>4
<1> QED BY <1>2, <1>3, <1>5 DEF w

\* An eviction takes out the last node and its value's entry.
LEMMA EvictedAgree ==
  ASSUME NEW nodes, NEW values, NEW keys, Agree(nodes, values, keys), nodes # <<>>
  PROVE  /\ Agree(SubSeq(nodes, 1, Len(nodes) - 1), values,
                  [keys EXCEPT ![Evicted(nodes, values)] = NoNode])
         /\ Len(SubSeq(nodes, 1, Len(nodes) - 1)) = Len(nodes) - 1
<1> DEFINE n == Len(nodes)
           s == SubSeq(nodes, 1, n - 1)
<1>1. nodes \in Seq(Nodes) /\ n \in 1..n /\ n \in Nat \ {0} /\ \A i \in 1..n : nodes[i] \in Nodes
  BY DEF Agree
<1>2. s \in Seq(Nodes) /\ Len(s) = n - 1
  <2>1. 1 \in Int /\ n - 1 \in Int /\ \A i \in 1..(n - 1) : nodes[i] \in Nodes
    BY <1>1
  <2> HIDE DEF n
  <2>2. /\ SubSeq(nodes, 1, n - 1) \in Seq(Nodes)
        /\ Len(SubSeq(nodes, 1, n - 1)) = IF 1 <= n - 1 THEN n - 1 - 1 + 1 ELSE 0
    BY <2>1, SubSeqProperties
  <2> QED BY <1>1, <2>2
<1>3. RemoveAt(nodes, n) = s
  <2>1. SubSeq(nodes, n + 1, n) = <<>>
    BY <1>1, SubSeqEmpty
  <2>2. RemoveAt(nodes, n) = s \o <<>>
    BY <2>1 DEF RemoveAt
  <2> QED BY <1>2, <2>2, ConcatEmptySeq
<1>4. Agree(RemoveAt(nodes, n), values, [keys EXCEPT ![values[nodes[n]]] = NoNode])
  BY <1>1, UnlinkedAgree
<1> QED BY <1>2, <1>3, <1>4 DEF Evicted

-----------------------------------------------------------------------------
(* The list and the map agree throughout.                                  *)

\* exist moves a node to the front.
LEMMA ExistAgree ==
  ASSUME ListAndMapAgree, NEW v \in Ids, exist(v)
  PROVE  ListAndMapAgree'
<1>1. Agree(l, val, m) /\ Len(l) <= cap
  BY AgreeIsInv DEF Fits
<1>2. Agree(l', val', m') /\ Len(l') <= cap
  <2>1. CASE m[v] = NoNode
    BY <1>1, <2>1 DEF exist
  <2>2. CASE m[v] # NoNode
    <3>1. /\ val \in [Nodes -> Ids] /\ m \in [Ids -> Nodes \cup {NoNode}]
          /\ m[v] \in Nodes /\ val[m[v]] = v
      BY <1>1, <2>2 DEF Agree
    <3>2. /\ l' = <<m[v]>> \o WithoutOld(v) /\ val' = val /\ m' = m
      BY <2>2 DEF exist, WithoutOld
    <3>3. [val EXCEPT ![m[v]] = v] = val /\ [m EXCEPT ![v] = m[v]] = m
      BY <3>1
    <3>4. Agree(l', val', m')
      <4>1. \A i \in 1..Len(WithoutOld(v)) : WithoutOld(v)[i] # m[v]
        BY <1>1, WithoutAgree
      <4>2. Agree(<<m[v]>> \o WithoutOld(v), [val EXCEPT ![m[v]] = v], [m EXCEPT ![v] = m[v]])
        BY <1>1, <3>1, <4>1, FrontAgree
      <4> QED BY <3>2, <3>3, <4>2
    <3>5. Len(l') = Len(l)
      BY <1>1, <3>2, <3>4, Counted
    <3> QED BY <1>1, <3>4, <3>5
  <2> QED BY <2>1, <2>2
<1> QED BY <1>2, AgreeIsInvNext

\* put links a new node and evicts the last one when there are too many.
LEMMA PutAgree ==
  ASSUME ListAndMapAgree, NEW v \in Ids, put(v)
  PROVE  ListAndMapAgree'
<1>1. Agree(l, val, m) /\ Len(l) <= cap /\ cap \in Nat /\ Len(l) \in Nat
  BY AgreeIsInv, LruAssumption DEF Fits, Agree
<1>2. PICK n \in Nodes \ {WithoutOld(v)[i] : i \in DOMAIN WithoutOld(v)} : PutAt(v, n)
  BY DEF put
<1> DEFINE nodes  == <<n>> \o WithoutOld(v)
           values == [val EXCEPT ![n] = v]
           keys   == [m EXCEPT ![v] = n]
<1>3. /\ val' = values
      /\ l' = IF Over(keys) THEN SubSeq(nodes, 1, Len(nodes) - 1) ELSE nodes
      /\ m' = IF Over(keys) THEN [keys EXCEPT ![Evicted(nodes, values)] = NoNode] ELSE keys
  BY <1>2 DEF PutAt
<1>4. Agree(nodes, values, keys) /\ Len(nodes) \in 1..(Len(l) + 1)
  <2>1. WithoutOld(v) \in Seq(Nodes)
    BY <1>1, WithoutAgree DEF Agree
  <2>2. \A i \in 1..Len(WithoutOld(v)) : WithoutOld(v)[i] # n
    BY <1>2, <2>1
  <2> QED BY <1>1, <1>2, <2>2, FrontAgree
<1> HIDE DEF nodes, values, keys
<1>5. Over(keys) <=> Len(nodes) > cap
  BY <1>4, Counted DEF Over, Held
<1>6. Agree(l', val', m') /\ Len(l') <= cap
  <2>1. CASE Over(keys)
    <3>1. nodes # <<>>
      BY <1>1, <1>4
    <3> DEFINE left == SubSeq(nodes, 1, Len(nodes) - 1)
               ks == [keys EXCEPT ![Evicted(nodes, values)] = NoNode]
    <3>2. Agree(left, values, ks) /\ Len(left) = Len(nodes) - 1
      BY <1>4, <3>1, EvictedAgree
    <3>3. l' = left /\ val' = values /\ m' = ks
      BY <1>3, <2>1
    <3> HIDE DEF left, ks
    <3> QED BY <1>1, <1>4, <3>2, <3>3
  <2>2. CASE ~Over(keys)
    BY <1>1, <1>3, <1>4, <1>5, <2>2
  <2> QED BY <2>1, <2>2
<1> QED BY <1>6, AgreeIsInvNext

\* No map entry dangles and no listed value is missing from the map (lru.hpp:37).
THEOREM ListFollowsMap == LruSpec => []ListAndMapAgree
<1>1. LruInit => ListAndMapAgree
  <2> SUFFICES ASSUME LruInit
               PROVE  ListAndMapAgree
    OBVIOUS
  <2>1. <<>> \in Seq(Nodes) /\ Len(<<>>) = 0 /\ DOMAIN <<>> = {}
    OBVIOUS
  <2> QED BY <2>1, LruAssumption DEF LruInit, ListAndMapAgree, LruTypeOK, Listed
<1>2. ListAndMapAgree /\ [LruNext]_lruVars => ListAndMapAgree'
  <2> SUFFICES ASSUME ListAndMapAgree, [LruNext]_lruVars
               PROVE  ListAndMapAgree'
    OBVIOUS
  <2>1. CASE UNCHANGED lruVars
    BY <2>1 DEF lruVars, ListAndMapAgree, LruTypeOK, Listed
  <2> QED BY <2>1, ExistAgree, PutAgree DEF LruNext
<1> QED BY <1>1, <1>2, PTL DEF LruSpec

-----------------------------------------------------------------------------
(* List and map implement Recency.                                         *)

\* The values of a list of nodes.
ValuesOf(nodes, values) == [i \in DOMAIN nodes |-> values[nodes[i]]]

\* A function on 1..n is a sequence of length n.
LEMMA BuiltSeq ==
  ASSUME NEW S, NEW n \in Nat, NEW f \in [1..n -> S]
  PROVE  f \in Seq(S) /\ Len(f) = n
<1>1. f \in Seq(S)
  BY SeqDef
<1> QED BY <1>1, LenProperties

\* They are a sequence of the same length.
LEMMA ValuesTyped ==
  ASSUME NEW nodes \in Seq(Nodes), NEW values \in [Nodes -> Ids]
  PROVE  /\ ValuesOf(nodes, values) \in Seq(Ids)
         /\ Len(ValuesOf(nodes, values)) = Len(nodes)
         /\ \A i \in 1..Len(nodes) : ValuesOf(nodes, values)[i] = values[nodes[i]]
<1> DEFINE f == ValuesOf(nodes, values)
<1>1. Len(nodes) \in Nat /\ DOMAIN nodes = 1..Len(nodes)
      /\ \A i \in 1..Len(nodes) : nodes[i] \in Nodes
  OBVIOUS
<1>2. f \in [1..Len(nodes) -> Ids] /\ \A i \in 1..Len(nodes) : f[i] = values[nodes[i]]
  BY <1>1 DEF ValuesOf
<1> HIDE DEF f
<1>3. f \in Seq(Ids) /\ Len(f) = Len(nodes)
  BY <1>1, <1>2, BuiltSeq
<1> QED BY <1>2, <1>3 DEF f

\* What the abstract memory becomes by a use of v is what the list shows with a
\* new node for v in front.
LEMMA UsedIsFront ==
  ASSUME Agree(l, val, m), NEW v \in Ids, NEW n \in Nodes,
         \A i \in 1..Len(WithoutOld(v)) : WithoutOld(v)[i] # n
  PROVE  /\ Promise!Used(v) = ValuesOf(<<n>> \o WithoutOld(v), [val EXCEPT ![n] = v])
         /\ Promise!Remembers(v) <=> m[v] # NoNode
<1> DEFINE w == WithoutOld(v)
           vals == [val EXCEPT ![n] = v]
           rest == IF Promise!Remembers(v) THEN Promise!RemoveAt(Values, Promise!Place(v))
                   ELSE Values
<1>1. /\ l \in Seq(Nodes) /\ Len(l) \in Nat /\ DOMAIN l = 1..Len(l)
      /\ val \in [Nodes -> Ids] /\ m \in [Ids -> Nodes \cup {NoNode}]
      /\ \A i \in 1..Len(l) : l[i] \in Nodes /\ m[val[l[i]]] = l[i]
  BY DEF Agree
<1>2. w \in Seq(Nodes)
  BY WithoutAgree DEF Agree
<1>3. Values = ValuesOf(l, val)
  BY DEF Values, ValuesOf
<1>4. /\ Values \in Seq(Ids) /\ Len(Values) = Len(l) /\ DOMAIN Values = 1..Len(l)
      /\ \A i \in 1..Len(l) : Values[i] = val[l[i]]
  <2>1. /\ Values \in Seq(Ids) /\ Len(Values) = Len(l)
        /\ \A i \in 1..Len(l) : Values[i] = val[l[i]]
    BY <1>1, <1>3, ValuesTyped
  <2> QED BY <2>1
<1>5. Promise!Remembers(v) <=> m[v] # NoNode
  <2>1. Promise!Remembers(v) <=> \E i \in 1..Len(l) : val[l[i]] = v
    BY <1>4 DEF Promise!Remembers
  <2>2. (\E i \in 1..Len(l) : val[l[i]] = v) => m[v] # NoNode
    BY <1>1, LruAssumption
  <2>3. m[v] # NoNode => \E i \in 1..Len(l) : val[l[i]] = v
    BY DEF Agree
  <2> QED BY <2>1, <2>2, <2>3
<1>6. /\ rest \in Seq(Ids) /\ Len(rest) = Len(w)
      /\ \A i \in 1..Len(w) : rest[i] = val[w[i]]
  <2>1. CASE m[v] = NoNode
    <3>1. rest = Values /\ w = l
      BY <1>5, <2>1 DEF WithoutOld
    <3> QED BY <1>4, <3>1
  <2>2. CASE m[v] # NoNode
    <3>1. PICK k \in 1..Len(l) :
             /\ l[k] = m[v] /\ val[l[k]] = v
             /\ Unlinked(m[v]) = RemoveAt(l, k)
             /\ \A i \in 1..Len(l) : val[l[i]] = v => i = k
      BY <2>2, PlaceFound
    <3>2. Promise!Place(v) = k
      BY <1>4, <3>1 DEF Promise!Place
    <3>3. rest = RemoveAt(Values, k) /\ w = RemoveAt(l, k)
      BY <1>5, <2>2, <3>1, <3>2 DEF WithoutOld, RemoveAt, Promise!RemoveAt
    <3> HIDE DEF rest, w
    <3>4. /\ RemoveAt(Values, k) \in Seq(Ids) /\ Len(RemoveAt(Values, k)) = Len(l) - 1
          /\ \A i \in 1..(Len(l) - 1) :
               RemoveAt(Values, k)[i] = IF i < k THEN Values[i] ELSE Values[i + 1]
      <4>1. Values \in Seq(Ids) /\ k \in DOMAIN Values
        BY <1>4
      <4>2. /\ RemoveAt(Values, k) \in Seq(Ids) /\ Len(RemoveAt(Values, k)) = Len(Values) - 1
            /\ \A i \in 1..(Len(Values) - 1) :
                 RemoveAt(Values, k)[i] = IF i < k THEN Values[i] ELSE Values[i + 1]
        BY <4>1, PlaceRemoved
      <4> QED BY <1>4, <4>2
    <3>5. /\ Len(RemoveAt(l, k)) = Len(l) - 1
          /\ \A i \in 1..(Len(l) - 1) :
               RemoveAt(l, k)[i] = IF i < k THEN l[i] ELSE l[i + 1]
      <4>1. l \in Seq(Nodes) /\ k \in DOMAIN l
        BY <1>1
      <4> QED BY <4>1, PlaceRemoved
    <3>6. ASSUME NEW i \in 1..(Len(l) - 1)
          PROVE  rest[i] = val[w[i]]
      <4>1. i \in 1..Len(l) /\ i + 1 \in 1..Len(l)
        BY <1>1
      <4>2. /\ rest[i] = IF i < k THEN Values[i] ELSE Values[i + 1]
            /\ w[i] = IF i < k THEN l[i] ELSE l[i + 1]
        BY <3>3, <3>4, <3>5
      <4> QED BY <1>4, <4>1, <4>2
    <3> QED BY <3>3, <3>4, <3>5, <3>6
  <2> QED BY <2>1, <2>2
<1>7. Promise!Used(v) = <<v>> \o rest
  BY DEF Promise!Used
<1> HIDE DEF rest, w, vals
<1> DEFINE s == <<n>> \o w
           u == <<v>> \o rest
<1>8. /\ s \in Seq(Nodes) /\ Len(s) = 1 + Len(w) /\ s[1] = n
      /\ \A i \in 1..Len(w) : s[i + 1] = w[i]
  BY <1>2, PutBefore
<1>9. /\ u \in Seq(Ids) /\ Len(u) = 1 + Len(w) /\ u[1] = v
      /\ \A i \in 1..Len(w) : u[i + 1] = val[w[i]]
  <2>1. /\ u \in Seq(Ids) /\ Len(u) = 1 + Len(rest) /\ u[1] = v
        /\ \A i \in 1..Len(rest) : u[i + 1] = rest[i]
    BY <1>6, PutBefore
  <2> QED BY <1>6, <2>1
<1>10. /\ vals \in [Nodes -> Ids] /\ vals[n] = v
       /\ \A x \in Nodes : x # n => vals[x] = val[x]
  BY <1>1 DEF vals
<1> HIDE DEF s, u
<1> DEFINE f == ValuesOf(s, vals)
<1>11. /\ f \in Seq(Ids) /\ Len(f) = Len(s) /\ \A i \in 1..Len(s) : f[i] = vals[s[i]]
  BY <1>8, <1>10, ValuesTyped
<1> HIDE DEF f
<1>12. ASSUME NEW i \in 1..Len(u)
       PROVE  u[i] = f[i]
  <2>1. i \in 1..Len(s) /\ Len(w) \in Nat
    BY <1>2, <1>8, <1>9
  <2>2. CASE i = 1
    BY <1>8, <1>9, <1>10, <1>11, <2>1, <2>2
  <2>3. CASE i # 1
    <3>1. i - 1 \in 1..Len(w) /\ (i - 1) + 1 = i
      BY <1>9, <2>1, <2>3
    <3>2. s[i] = w[i - 1] /\ u[i] = val[w[i - 1]]
      BY <1>8, <1>9, <3>1
    <3>3. w[i - 1] \in Nodes /\ w[i - 1] # n
      BY <1>2, <3>1 DEF w
    <3> QED BY <1>10, <1>11, <2>1, <3>2, <3>3
  <2> QED BY <2>2, <2>3
<1>13. u = f
  BY <1>8, <1>9, <1>11, <1>12, SeqEqual
<1> QED BY <1>5, <1>7, <1>13 DEF f, s, u, w, vals

\* exist is the abstract exist.
LEMMA ExistImplements ==
  ASSUME ListAndMapAgree, NEW v \in Ids, exist(v)
  PROVE  Promise!exist(v)
<1>1. Agree(l, val, m)
  BY AgreeIsInv DEF Fits
<1>2. Values' = ValuesOf(l', val')
  BY DEF Values, ValuesOf
<1>3. CASE m[v] = NoNode
  <2>1. l' = l /\ val' = val
    BY <1>3 DEF exist
  <2>2. Values' = Values
    BY <2>1 DEF Values
  <2>3. ~Promise!Remembers(v)
    <3>1. \A i \in 1..Len(l) : l[i] \in Nodes /\ m[val[l[i]]] = l[i]
      BY <1>1 DEF Agree
    <3>2. DOMAIN Values = 1..Len(l) /\ \A i \in 1..Len(l) : Values[i] = val[l[i]]
      BY <1>1 DEF Agree, Values
    <3> QED BY <1>3, <3>1, <3>2, LruAssumption DEF Promise!Remembers
  <2> QED BY <2>2, <2>3 DEF Promise!exist
<1>4. CASE m[v] # NoNode
  <2>1. /\ val \in [Nodes -> Ids] /\ m[v] \in Nodes /\ val[m[v]] = v
    BY <1>1, <1>4 DEF Agree
  <2>2. \A i \in 1..Len(WithoutOld(v)) : WithoutOld(v)[i] # m[v]
    BY <1>1, WithoutAgree
  <2>3. [val EXCEPT ![m[v]] = v] = val
    BY <2>1
  <2>4. l' = <<m[v]>> \o WithoutOld(v) /\ val' = val
    BY <1>4 DEF exist, WithoutOld
  <2>5. /\ Promise!Used(v) = ValuesOf(<<m[v]>> \o WithoutOld(v), [val EXCEPT ![m[v]] = v])
        /\ Promise!Remembers(v)
    BY <1>1, <1>4, <2>1, <2>2, UsedIsFront
  <2>6. Values' = Promise!Used(v)
    BY <1>2, <2>3, <2>4, <2>5
  <2> QED BY <2>5, <2>6 DEF Promise!exist
<1> QED BY <1>3, <1>4

\* put is the abstract put.
LEMMA PutImplements ==
  ASSUME ListAndMapAgree, NEW v \in Ids, put(v)
  PROVE  Promise!put(v)
<1>1. Agree(l, val, m) /\ Len(l) <= cap /\ cap \in Nat /\ Len(l) \in Nat
  BY AgreeIsInv, LruAssumption DEF Fits, Agree
<1>2. PICK n \in Nodes \ {WithoutOld(v)[i] : i \in DOMAIN WithoutOld(v)} : PutAt(v, n)
  BY DEF put
<1> DEFINE nodes  == <<n>> \o WithoutOld(v)
           values == [val EXCEPT ![n] = v]
           keys   == [m EXCEPT ![v] = n]
<1>3. val' = values /\ l' = IF Over(keys) THEN SubSeq(nodes, 1, Len(nodes) - 1) ELSE nodes
  BY <1>2 DEF PutAt
<1>4. /\ Agree(nodes, values, keys) /\ Len(nodes) \in 1..(Len(l) + 1)
      /\ Promise!Used(v) = ValuesOf(nodes, values)
  <2>1. WithoutOld(v) \in Seq(Nodes)
    BY <1>1, WithoutAgree DEF Agree
  <2>2. \A i \in 1..Len(WithoutOld(v)) : WithoutOld(v)[i] # n
    BY <1>2, <2>1
  <2> QED BY <1>1, <1>2, <2>2, FrontAgree, UsedIsFront
<1> DEFINE u == ValuesOf(nodes, values)
<1> HIDE DEF nodes, values, keys
<1>5. Over(keys) <=> Len(nodes) > cap
  BY <1>4, Counted DEF Over, Held
<1>6. nodes \in Seq(Nodes) /\ values \in [Nodes -> Ids]
  BY <1>4 DEF Agree
<1>7. u \in Seq(Ids) /\ Len(u) = Len(nodes) /\ \A i \in 1..Len(nodes) : u[i] = values[nodes[i]]
  BY <1>6, ValuesTyped
<1>8. Values' = ValuesOf(l', val')
  BY DEF Values, ValuesOf
<1> HIDE DEF u
<1>9. CASE Over(keys)
  <2> DEFINE left == SubSeq(nodes, 1, cap)
             f == ValuesOf(left, values)
             t == SubSeq(u, 1, cap)
  <2>1. Len(nodes) = cap + 1
    BY <1>1, <1>4, <1>5, <1>9
  <2>2. l' = left
    BY <1>1, <1>3, <1>9, <2>1
  <2>3. left \in Seq(Nodes) /\ Len(left) = cap /\ \A i \in 1..cap : left[i] = nodes[i]
    <3>1. /\ 1 \in Int /\ cap \in Int
          /\ \A i \in 1..cap : nodes[i] \in Nodes
      BY <1>1, <1>6, <2>1
    <3>2. /\ SubSeq(nodes, 1, cap) \in Seq(Nodes)
          /\ Len(SubSeq(nodes, 1, cap)) = IF 1 <= cap THEN cap - 1 + 1 ELSE 0
          /\ \A i \in 1..(cap - 1 + 1) : SubSeq(nodes, 1, cap)[i] = nodes[1 + i - 1]
      BY <3>1, SubSeqProperties
    <3> QED BY <1>1, <3>2
  <2>4. t \in Seq(Ids) /\ Len(t) = cap /\ \A i \in 1..cap : t[i] = u[i]
    <3>1. /\ 1 \in Int /\ cap \in Int
          /\ \A i \in 1..cap : u[i] \in Ids
      BY <1>1, <1>7, <2>1
    <3>2. /\ SubSeq(u, 1, cap) \in Seq(Ids)
          /\ Len(SubSeq(u, 1, cap)) = IF 1 <= cap THEN cap - 1 + 1 ELSE 0
          /\ \A i \in 1..(cap - 1 + 1) : SubSeq(u, 1, cap)[i] = u[1 + i - 1]
      BY <3>1, SubSeqProperties
    <3> QED BY <1>1, <3>2
  <2> HIDE DEF left, t
  <2>5. f \in Seq(Ids) /\ Len(f) = cap /\ \A i \in 1..cap : f[i] = values[left[i]]
    BY <1>6, <2>3, ValuesTyped
  <2> HIDE DEF f
  <2>6. \A i \in 1..cap : f[i] = t[i]
    BY <1>1, <1>7, <2>1, <2>3, <2>4, <2>5
  <2>7. f = t
    BY <2>4, <2>5, <2>6, SeqEqual
  <2>8. Values' = f
    BY <1>3, <1>8, <2>2 DEF f
  <2>9. Len(Promise!Used(v)) > cap /\ Promise!Used(v) = u
    BY <1>1, <1>4, <1>7, <2>1 DEF u
  <2> QED BY <2>7, <2>8, <2>9 DEF t, Promise!put
<1>10. CASE ~Over(keys)
  <2>1. Promise!Used(v) = u /\ ~(Len(u) > cap)
    BY <1>4, <1>5, <1>7, <1>10 DEF u
  <2>2. Values' = u
    BY <1>3, <1>8, <1>10 DEF u
  <2> QED BY <2>1, <2>2 DEF Promise!put
<1> QED BY <1>9, <1>10

\* The list and the map together are the memory of the ids used last (lru.hpp:17-40).
THEOREM LruIsRecency == LruSpec => ImplementsRecency
<1>1. LruInit => Promise!Init
  <2> SUFFICES ASSUME LruInit
               PROVE  Values = <<>>
    BY DEF Promise!Init
  <2>1. l = <<>> /\ l \in Seq(Nodes) /\ val \in [Nodes -> Ids]
    BY DEF LruInit
  <2>2. Values = ValuesOf(l, val)
    BY DEF Values, ValuesOf
  <2>3. Values \in Seq(Ids) /\ Len(Values) = 0
    BY <2>1, <2>2, ValuesTyped
  <2> QED BY <2>3, EmptySeq
<1>2. ListAndMapAgree /\ [LruNext]_lruVars => [Promise!Next]_Values
  <2> SUFFICES ASSUME ListAndMapAgree, [LruNext]_lruVars
               PROVE  [Promise!Next]_Values
    OBVIOUS
  <2>1. CASE UNCHANGED lruVars
    BY <2>1 DEF lruVars, Values
  <2>2. ASSUME NEW v \in Ids, exist(v)
        PROVE  Promise!Next
    BY <2>2, ExistImplements DEF Promise!Next
  <2>3. ASSUME NEW v \in Ids, put(v)
        PROVE  Promise!Next
    BY <2>3, PutImplements DEF Promise!Next
  <2> QED BY <2>1, <2>2, <2>3 DEF LruNext
<1> QED BY <1>1, <1>2, ListFollowsMap, PTL DEF LruSpec, ImplementsRecency, Promise!Spec

=============================================================================
