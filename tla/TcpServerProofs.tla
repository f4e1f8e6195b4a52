-------------------------- MODULE TcpServerProofs --------------------------
(***************************************************************************)
(* Proofs about TcpServer, for any number of connections, devices, tasks   *)
(* and retries.                                                            *)
(***************************************************************************)
EXTENDS TcpServer, SequenceTheorems, TLAPS

\* A list of connections that holds none of them twice.
Distinct(l) ==
  /\ l \in Seq(Conns \cup {Null})
  /\ \A i, j \in DOMAIN l : i # j /\ l[i] = l[j] => l[i] = Null

\* Where the search finds a connection of the list.
LEMMA SlotFound ==
  ASSUME NEW l \in Seq(Conns \cup {Null}), NEW c \in Conns, Holds(l, c)
  PROVE  Slot(l, c) \in 1..Len(l) /\ l[Slot(l, c)] = c
  BY LenProperties DEF Holds, Slot

\* A shorter or equal list built place by place is a list of connections.
LEMMA BuiltList ==
  ASSUME NEW n \in Nat, NEW f, f \in [1..n -> Conns \cup {Null}]
  PROVE  f \in Seq(Conns \cup {Null}) /\ Len(f) = n /\ DOMAIN f = 1..n
<1>1. f \in Seq(Conns \cup {Null})
  BY SeqDef
<1> QED BY <1>1, LenProperties

\* remove_if without the erase neither repeats a connection nor loses another
\* one than c.
LEMMA RemoveIfKeeps ==
  ASSUME NEW l, NEW c \in Conns, Distinct(l), Null \notin Conns
  PROVE  /\ Distinct(RemoveIf(l, c))
         /\ \A x \in Conns : Holds(RemoveIf(l, c), x) => Holds(l, x)
         /\ \A x \in Conns \ {c} : Holds(l, x) => Holds(RemoveIf(l, c), x)
<1>1. CASE ~Holds(l, c)
  BY <1>1 DEF RemoveIf
<1>2. CASE Holds(l, c)
  <2> DEFINE s == Slot(l, c)
             r == RemoveIf(l, c)
  <2>1. Len(l) \in Nat /\ l \in [1..Len(l) -> Conns \cup {Null}] /\ DOMAIN l = 1..Len(l)
    BY LenProperties DEF Distinct
  <2>2. s \in 1..Len(l) /\ l[s] = c
    BY <1>2, SlotFound DEF Distinct
  <2>3. r = [i \in 1..Len(l) |-> IF i < s THEN l[i]
                                 ELSE IF i < Len(l) THEN l[i + 1]
                                 ELSE IF l[i] = c THEN c ELSE Null]
    BY <1>2, <2>1 DEF RemoveIf
  <2> HIDE DEF s, r
  <2>4. r \in [1..Len(l) -> Conns \cup {Null}]
    BY <2>1, <2>2, <2>3
  <2>5. r \in Seq(Conns \cup {Null}) /\ Len(r) = Len(l) /\ DOMAIN r = 1..Len(l)
    BY <2>1, <2>4, BuiltList
  <2> DEFINE from(m) == IF m < s \/ Len(l) <= m THEN m ELSE m + 1
  <2>6. \A k \in 1..Len(l) : k < s => r[k] = l[k] /\ from(k) = k /\ k < Len(l)
    BY <2>1, <2>2, <2>3
  <2>7. \A k \in 1..Len(l) : ~(k < s) /\ k < Len(l) =>
           r[k] = l[k + 1] /\ from(k) = k + 1 /\ k + 1 \in 1..Len(l)
    BY <2>1, <2>2, <2>3
  <2>8. \A k \in 1..Len(l) : Len(l) <= k /\ r[k] # Null =>
           r[k] = l[k] /\ from(k) = k /\ s = k
    <3> SUFFICES ASSUME NEW k \in 1..Len(l), Len(l) <= k, r[k] # Null
                 PROVE  r[k] = l[k] /\ s = k
      OBVIOUS
    <3>1. r[k] = IF l[k] = c THEN c ELSE Null
      BY <2>1, <2>2, <2>3
    <3>2. l[k] = c
      BY <3>1
    <3> QED BY <3>1, <3>2, <2>1, <2>2 DEF Distinct
  <2>9. \A k \in 1..Len(l) : r[k] # Null => from(k) \in 1..Len(l) /\ r[k] = l[from(k)]
    BY <2>6, <2>7, <2>8
  <2>10. \A i, j \in 1..Len(l) : i # j /\ r[i] # Null /\ r[j] # Null => from(i) # from(j)
    BY <2>8, <2>1, <2>2
  <2> HIDE DEF from
  <2>11. \A i, j \in 1..Len(l) : i # j /\ r[i] = r[j] => r[i] = Null
    BY <2>9, <2>10, <2>1 DEF Distinct
  <2>12. \A i \in 1..Len(l) : r[i] # Null => \E j \in 1..Len(l) : l[j] = r[i]
    BY <2>1, <2>2, <2>3
  <2>13. \A j \in 1..Len(l) : l[j] # c => \E i \in 1..Len(l) : r[i] = l[j]
    <3> SUFFICES ASSUME NEW j \in 1..Len(l), l[j] # c
                 PROVE  \E i \in 1..Len(l) : r[i] = l[j]
      OBVIOUS
    <3>1. CASE j < s
      BY <3>1, <2>1, <2>3
    <3>2. CASE ~(j < s)
      <4>1. j - 1 \in 1..Len(l) /\ ~(j - 1 < s) /\ j - 1 < Len(l)
        BY <3>2, <2>1, <2>2
      <4>2. r[j - 1] = l[(j - 1) + 1]
        BY <4>1, <2>3
      <4> QED BY <4>1, <4>2
    <3> QED BY <3>1, <3>2
  <2>14. Distinct(r)
    BY <2>5, <2>11 DEF Distinct
  <2> QED BY <2>1, <2>5, <2>12, <2>13, <2>14 DEF Holds, r
<1> QED BY <1>1, <1>2

\* erase takes c, and nobody else, out of the list.
LEMMA EraseKeeps ==
  ASSUME NEW l, NEW c \in Conns, Distinct(l), Holds(l, c), Null \notin Conns
  PROVE  /\ Distinct(EraseSlot(l, c))
         /\ \A x \in Conns : Holds(EraseSlot(l, c), x) <=> x # c /\ Holds(l, x)
<1> DEFINE s == Slot(l, c)
           r == EraseSlot(l, c)
<1>1. Len(l) \in Nat /\ l \in [1..Len(l) -> Conns \cup {Null}] /\ DOMAIN l = 1..Len(l)
  BY LenProperties DEF Distinct
<1>2. s \in 1..Len(l) /\ l[s] = c
  BY SlotFound DEF Distinct
<1>3. r = [i \in 1..(Len(l) - 1) |-> IF i < s THEN l[i] ELSE l[i + 1]]
  BY DEF EraseSlot
<1> HIDE DEF s, r
<1>4. r \in [1..(Len(l) - 1) -> Conns \cup {Null}] /\ Len(l) - 1 \in Nat
  BY <1>1, <1>2, <1>3
<1>5. r \in Seq(Conns \cup {Null}) /\ DOMAIN r = 1..(Len(l) - 1)
  BY <1>4, BuiltList
<1> DEFINE from(m) == IF m < s THEN m ELSE m + 1
<1>6. \A k \in DOMAIN r : from(k) \in 1..Len(l) /\ from(k) # s /\ r[k] = l[from(k)]
  BY <1>1, <1>2, <1>3, <1>5
<1>7. \A i, j \in DOMAIN r : i # j => from(i) # from(j)
  BY <1>1, <1>2, <1>5
<1>8. \A i \in 1..Len(l) : i # s => \E k \in DOMAIN r : r[k] = l[i]
  <2> SUFFICES ASSUME NEW i \in 1..Len(l), i # s PROVE \E k \in DOMAIN r : r[k] = l[i]
    OBVIOUS
  <2>1. CASE i < s
    <3>1. i \in 1..(Len(l) - 1)
      BY <2>1, <1>1, <1>2
    <3> QED BY <2>1, <3>1, <1>3, <1>5
  <2>2. CASE ~(i < s)
    <3>1. i - 1 \in 1..(Len(l) - 1) /\ ~(i - 1 < s)
      BY <2>2, <1>1, <1>2
    <3>2. r[i - 1] = l[(i - 1) + 1]
      BY <3>1, <1>3
    <3> QED BY <3>1, <3>2, <1>5
  <2> QED BY <2>1, <2>2
<1> HIDE DEF from
<1>9. Distinct(r)
  BY <1>5, <1>6, <1>7, <1>1 DEF Distinct
<1>10. \A k \in DOMAIN r : r[k] # c
  BY <1>6, <1>1, <1>2 DEF Distinct
<1>11. \A x \in Conns : Holds(r, x) => x # c /\ Holds(l, x)
  BY <1>6, <1>10, <1>1 DEF Holds
<1>12. \A x \in Conns : x # c /\ Holds(l, x) => Holds(r, x)
  BY <1>8, <1>2, <1>1 DEF Holds
<1> QED BY <1>9, <1>11, <1>12 DEF r

-----------------------------------------------------------------------------
(* The invariant.                                                          *)

\* A connection is in the list only before it has named its device, and one
\* that is not accepted yet has named none.
ListedUnnamed ==
  \A c \in Conns : /\ Listed(c) => device_id_[c] = Null /\ loops[c] # "none"
                   /\ loops[c] = "none" => device_id_[c] = Null

CalledHasTarget == \A t \in Tasks : pc[t] # "idle" => target[t] \in Devices

\* The handler of stop() is posted by the call that sets the flag.
FlagBeforeHandler == ~stopped => stop = "none"

IInv == /\ RegistryConsistent /\ RegisteredHasReader /\ SendsToItsDevice
        /\ ListedUnnamed /\ CalledHasTarget /\ FlagBeforeHandler

\* No connection is accepted yet, and nothing is registered.
LEMMA InitInv == Init => IInv
<1> SUFFICES ASSUME Init PROVE IInv
  OBVIOUS
<1>1. connections \in Seq(Conns \cup {Null}) /\ DOMAIN connections = {}
  BY DEF Init
<1>2. tries \in [Tasks -> 0..MaxTries]
  BY ServerAssumption DEF Init
<1>3. /\ connection_map \in [Devices -> Conns \cup {Null}]
      /\ device_id_ \in [Conns -> Devices \cup {Null}]
      /\ target \in [Tasks -> Devices \cup {Null}]
      /\ conn \in [Tasks -> Conns \cup {Null}]
  BY DEF Init
<1>4. /\ stopped \in BOOLEAN /\ halted \in BOOLEAN /\ ranOut \in BOOLEAN
      /\ stop \in {"none", "posted", "forced", "done"}
      /\ accepting \in {"waiting", "ready", "ended"}
      /\ loops \in [Conns -> {"none", "posted", "running", "readOut", "checkOut",
                             "draining", "ended"}]
      /\ lateId \in SUBSET Conns
      /\ kind \in [Tasks -> {"push", "send"}]
      /\ pc \in [Tasks -> {"idle", "called"} \cup Sending \cup Results]
  BY DEF Init
<1>5. TypeOK
  BY <1>1, <1>2, <1>3, <1>4 DEF TypeOK
<1> QED BY <1>1, <1>5
     DEF Init, IInv, RegistryConsistent, RegisteredHasReader, SendsToItsDevice,
         ListedUnnamed, CalledHasTarget, FlagBeforeHandler, Listed, Holds, Sending

\* What a step of a connection's own loops may do to the list and the map:
\* nothing, or what on_disconnected does once the reader or check has ended.
Disconnects(c) ==
  /\ OnDisconnected(c)
  /\ loops[c] \in {"running", "readOut", "checkOut", "draining"}
  /\ \E s \in {"readOut", "checkOut", "ended"} : loops' = [loops EXCEPT ![c] = s]
  /\ UNCHANGED <<stopVars, accepting, device_id_, lateId, taskVars>>

\* Either loop of a connection ends and reports.
LEMMA EndsDisconnect ==
  ASSUME NEW c \in Conns, TypeOK, ReadEnds(c) \/ CheckEnds(c)
  PROVE  Disconnects(c)
  BY DEF ReadEnds, CheckEnds, Disconnects, TypeOK

\* The report of one connection leaves the list, the map and the others in order.
LEMMA DisconnectInv ==
  ASSUME NEW c \in Conns, IInv, Disconnects(c)
  PROVE  IInv'
<1> USE ServerAssumption DEF Listed
<1>1. Distinct(connections)
  BY DEF IInv, RegistryConsistent, TypeOK, Distinct
<1>2. /\ Distinct(connections')
      /\ \A x \in Conns : Holds(connections', x) => Holds(connections, x)
      /\ \A x \in Conns \ {c} : Holds(connections, x) => Holds(connections', x)
  BY <1>1, RemoveIfKeeps DEF Disconnects, OnDisconnected
<1>3. \A d \in Devices : connection_map'[d] # Null =>
        connection_map'[d] = connection_map[d] /\ connection_map[d] # c
  BY DEF Disconnects, OnDisconnected, Unregister, IInv, RegistryConsistent, TypeOK
<1>4. TypeOK'
  BY <1>2 DEF Disconnects, OnDisconnected, Unregister, IInv, RegistryConsistent,
              TypeOK, stopVars, taskVars, Distinct
<1>5. /\ device_id_' = device_id_ /\ stop' = stop /\ lateId' = lateId
      /\ loops'[c] \in {"readOut", "checkOut", "ended"}
      /\ \A x \in Conns \ {c} : loops'[x] = loops[x]
  BY DEF Disconnects, stopVars, IInv, RegistryConsistent, TypeOK
<1>6. RegistryConsistent'
  <2>1. \A d \in Devices : connection_map'[d] # Null =>
          device_id_'[connection_map'[d]] = d /\ ~Holds(connections', connection_map'[d])
    BY <1>2, <1>3, <1>5 DEF IInv, RegistryConsistent, TypeOK
  <2>2. \A x \in Conns : loops'[x] \in {"posted", "running"} /\ device_id_'[x] = Null
                         => Holds(connections', x) \/ stop' = "done"
    BY <1>2, <1>5 DEF IInv, RegistryConsistent
  <2> QED BY <1>2, <1>4, <2>1, <2>2 DEF RegistryConsistent, Distinct
<1>7. RegisteredHasReader'
  BY <1>3, <1>5 DEF IInv, RegisteredHasReader, RegistryConsistent, TypeOK
<1>8. SendsToItsDevice' /\ CalledHasTarget' /\ FlagBeforeHandler'
  BY DEF Disconnects, IInv, SendsToItsDevice, CalledHasTarget, FlagBeforeHandler, taskVars,
         stopVars
<1>9. ListedUnnamed'
  BY <1>2, <1>5 DEF IInv, ListedUnnamed, Disconnects
<1> QED BY <1>6, <1>7, <1>8, <1>9 DEF IInv

\* The first packet that names a device moves its connection from the list to
\* the map, or, off the list, leaves both alone.
LEMMA IdentifyInv ==
  ASSUME NEW c \in Conns, NEW d \in Devices, IInv, Identify(c, d)
  PROVE  IInv'
<1> USE ServerAssumption DEF Listed
<1>1. Distinct(connections) /\ TypeOK
  BY DEF IInv, RegistryConsistent, TypeOK, Distinct
<1>2. /\ Distinct(connections')
      /\ \A x \in Conns : Holds(connections', x) <=> x # c /\ Holds(connections, x)
  BY <1>1, EraseKeeps DEF Identify, OnGotDeviceId
<1>3. /\ connection_map' \in [Devices -> Conns \cup {Null}]
      /\ \A e \in Devices : (connection_map'[e] = connection_map[e]) \/ (e = d /\ connection_map'[e] = c)
  BY <1>1 DEF Identify, OnGotDeviceId, TypeOK
<1>4. /\ device_id_' \in [Conns -> Devices \cup {Null}]
      /\ device_id_[c] = Null /\ device_id_'[c] = d
      /\ \A x \in Conns \ {c} : device_id_'[x] = device_id_[x]
  BY <1>1 DEF Identify, TypeOK
<1>5. /\ loops' \in [Conns -> {"none", "posted", "running", "readOut", "checkOut",
                              "draining", "ended"}]
      /\ lateId' \in SUBSET Conns /\ lateId \subseteq lateId'
      /\ loops'[c] = "running" \/ c \in lateId'
      /\ loops'[c] # "none" /\ loops'[c] # "posted"
      /\ \A x \in Conns \ {c} : loops'[x] = loops[x]
  BY <1>1 DEF Identify, LastRead, TypeOK
<1>6. TypeOK'
  BY <1>1, <1>2, <1>3, <1>4, <1>5 DEF Identify, TypeOK, stopVars, taskVars, Distinct
<1>7. RegistryConsistent'
  <2>1. \A e \in Devices : connection_map'[e] # Null =>
          device_id_'[connection_map'[e]] = e /\ ~Holds(connections', connection_map'[e])
    <3> SUFFICES ASSUME NEW e \in Devices, connection_map'[e] # Null
                 PROVE  /\ device_id_'[connection_map'[e]] = e
                        /\ ~Holds(connections', connection_map'[e])
      OBVIOUS
    <3>1. CASE e = d /\ connection_map'[e] = c
      BY <3>1, <1>2, <1>4
    <3>2. CASE connection_map'[e] = connection_map[e]
      <4>1. connection_map[e] \in Conns /\ device_id_[connection_map[e]] = e
            /\ ~Holds(connections, connection_map[e])
        BY <3>2, <1>1 DEF IInv, RegistryConsistent, TypeOK
      <4>2. connection_map[e] # c
        BY <4>1, <1>4
      <4> QED BY <3>2, <4>1, <4>2, <1>2, <1>4
    <3> QED BY <3>1, <3>2, <1>3
  <2>2. \A x \in Conns : loops'[x] \in {"posted", "running"} /\ device_id_'[x] = Null
                         => Holds(connections', x) \/ stop' = "done"
    BY <1>2, <1>4, <1>5 DEF IInv, RegistryConsistent, Identify, stopVars
  <2> QED BY <1>2, <1>6, <2>1, <2>2 DEF RegistryConsistent, Distinct
<1>8. RegisteredHasReader'
  BY <1>1, <1>3, <1>4, <1>5 DEF IInv, RegisteredHasReader, RegistryConsistent, TypeOK
<1>9. SendsToItsDevice' /\ CalledHasTarget' /\ FlagBeforeHandler'
  BY <1>1, <1>4 DEF Identify, IInv, SendsToItsDevice, CalledHasTarget,
                    FlagBeforeHandler, taskVars, stopVars, TypeOK, Sending
<1>10. ListedUnnamed'
  BY <1>2, <1>4, <1>5 DEF IInv, ListedUnnamed
<1> QED BY <1>7, <1>8, <1>9, <1>10 DEF IInv

\* A new connection joins the list; no connection is accepted twice.
LEMMA AcceptInv ==
  ASSUME NEW c \in Conns, IInv, Accept(c)
  PROVE  IInv'
<1> USE ServerAssumption DEF Listed
<1>1. TypeOK /\ ~Holds(connections, c) /\ device_id_[c] = Null /\ loops[c] = "none"
  BY DEF IInv, RegistryConsistent, ListedUnnamed, Accept
<1>2. /\ Distinct(connections')
      /\ \A x \in Conns : Holds(connections', x) <=> x = c \/ Holds(connections, x)
  <2>1. /\ connections' = Append(connections, c)
        /\ connections \in Seq(Conns \cup {Null})
    BY <1>1 DEF Accept, TypeOK
  <2>2. /\ connections' \in Seq(Conns \cup {Null})
        /\ Len(connections') = Len(connections) + 1 /\ Len(connections) \in Nat
        /\ \A i \in 1..Len(connections) : connections'[i] = connections[i]
        /\ connections'[Len(connections) + 1] = c
        /\ DOMAIN connections = 1..Len(connections)
        /\ DOMAIN connections' = 1..(Len(connections) + 1)
    BY <2>1
  <2>3. \A i \in DOMAIN connections' : i \in DOMAIN connections \/ i = Len(connections) + 1
    BY <2>2
  <2>4. \A i \in DOMAIN connections : i \in DOMAIN connections' /\ connections[i] # c
    BY <1>1, <2>2 DEF Holds
  <2>5. \A x \in Conns : Holds(connections', x) <=> x = c \/ Holds(connections, x)
    BY <2>2, <2>3, <2>4 DEF Holds
  <2>6. \A i, j \in DOMAIN connections' : i # j /\ connections'[i] = connections'[j]
                                          => connections'[i] = Null
    BY <2>2, <2>3, <2>4 DEF IInv, RegistryConsistent
  <2> QED BY <2>2, <2>5, <2>6 DEF Distinct
<1>3. /\ \A x \in Conns \ {c} : loops'[x] = loops[x]
      /\ loops'[c] = "posted"
      /\ connection_map' = connection_map /\ device_id_' = device_id_
      /\ lateId' = lateId /\ stop' = stop
  BY <1>1 DEF Accept, TypeOK, stopVars
<1>4. TypeOK'
  BY <1>1, <1>2 DEF Accept, TypeOK, stopVars, taskVars, Distinct
<1>5. RegistryConsistent'
  <2>1. \A e \in Devices : connection_map'[e] # Null =>
          device_id_'[connection_map'[e]] = e /\ ~Holds(connections', connection_map'[e])
    BY <1>1, <1>2, <1>3 DEF IInv, RegistryConsistent, TypeOK
  <2> QED BY <1>2, <1>3, <1>4, <2>1 DEF IInv, RegistryConsistent, Distinct
<1>6. RegisteredHasReader'
  BY <1>1, <1>3 DEF IInv, RegisteredHasReader, RegistryConsistent, TypeOK
<1>7. SendsToItsDevice' /\ CalledHasTarget' /\ FlagBeforeHandler'
  BY DEF Accept, IInv, SendsToItsDevice, CalledHasTarget, FlagBeforeHandler, taskVars,
         stopVars
<1>8. ListedUnnamed'
  BY <1>1, <1>2, <1>3 DEF IInv, ListedUnnamed
<1> QED BY <1>5, <1>6, <1>7, <1>8 DEF IInv

\* A step that leaves the list, the map and the ids alone, and of the loops
\* only lets one that is nobody's reader go on or end.
Apart ==
  /\ UNCHANGED <<connections, connection_map, device_id_, lateId>>
  /\ stop = "done" => stop' = "done"
  /\ FlagBeforeHandler'
  /\ loops' = loops \/ \E c \in Conns : Start(c) \/ EndQuietly(c)

\* Such a step leaves the registry in order.
LEMMA ApartInv ==
  ASSUME IInv, Apart, TypeOK'
  PROVE  RegistryConsistent' /\ RegisteredHasReader' /\ ListedUnnamed'
<1> USE ServerAssumption
<1>1. TypeOK
  BY DEF IInv, RegistryConsistent
<1>2. ASSUME NEW c \in Conns
      PROVE  /\ loops'[c] = "none" <=> loops[c] = "none"
             /\ loops'[c] \in {"posted", "running"} => loops[c] \in {"posted", "running"}
             /\ Registered(c) => (loops[c] = "running" => loops'[c] = "running")
  BY <1>1 DEF Apart, Start, EndQuietly, TypeOK, Alive
<1>3. connections' = connections /\ connection_map' = connection_map
      /\ device_id_' = device_id_ /\ lateId' = lateId
  BY DEF Apart
<1>4. RegistryConsistent'
  BY <1>1, <1>2, <1>3 DEF IInv, RegistryConsistent, Listed, Apart
<1>5. RegisteredHasReader'
  <2> SUFFICES ASSUME NEW d \in Devices, connection_map[d] # Null
               PROVE  loops'[connection_map[d]] = "running" \/ connection_map[d] \in lateId
    BY <1>3 DEF RegisteredHasReader
  <2>1. connection_map[d] \in Conns /\ Registered(connection_map[d])
    BY <1>1 DEF TypeOK, Registered
  <2> QED BY <2>1, <1>2 DEF IInv, RegisteredHasReader
<1>6. ListedUnnamed'
  BY <1>2, <1>3 DEF IInv, ListedUnnamed, Listed
<1> QED BY <1>4, <1>5, <1>6

\* A round sends on the connection registered for the device, if it sends.
LEMMA RoundKeeps ==
  ASSUME TypeOK, RegistryConsistent, SendsToItsDevice, CalledHasTarget,
         NEW t \in Tasks, NEW i \in 0..MaxTries, pc[t] # "idle", Round(t, i),
         UNCHANGED <<device_id_, target>>
  PROVE  /\ pc' \in [Tasks -> {"idle", "called"} \cup Sending \cup Results]
         /\ conn' \in [Tasks -> Conns \cup {Null}]
         /\ tries' \in [Tasks -> 0..MaxTries]
         /\ SendsToItsDevice' /\ CalledHasTarget'
<1>1. target[t] \in Devices
  BY DEF CalledHasTarget
<1> DEFINE result == CASE stopped -> "invalid_state_error"
                       [] ~stopped /\ connection_map[target[t]] # Null -> "sending"
                       [] ~stopped /\ connection_map[target[t]] = Null ->
                            IF kind[t] = "push" THEN "connection_error" ELSE "ok"
<1>2. /\ result \in Results \cup {"sending"}
      /\ result = "sending" => connection_map[target[t]] # Null
      /\ pc' = [pc EXCEPT ![t] = result]
      /\ conn' = [conn EXCEPT ![t] = IF result = "sending"
                                    THEN connection_map[target[t]] ELSE Null]
  BY <1>1 DEF Round, Results, TypeOK
<1> HIDE DEF result
<1>3. connection_map[target[t]] \in Conns \cup {Null}
  BY <1>1 DEF TypeOK
<1>4. pc' \in [Tasks -> {"idle", "called"} \cup Sending \cup Results]
      /\ conn' \in [Tasks -> Conns \cup {Null}]
  BY <1>2, <1>3 DEF TypeOK, Sending
<1>5. tries' \in [Tasks -> 0..MaxTries]
  BY DEF Round, TypeOK
<1>6. SendsToItsDevice'
  BY <1>1, <1>2, <1>3, ServerAssumption
     DEF SendsToItsDevice, RegistryConsistent, TypeOK, Sending, Results
<1>7. CalledHasTarget'
  BY <1>1, <1>2 DEF CalledHasTarget, TypeOK
<1> QED BY <1>4, <1>5, <1>6, <1>7

\* The steps of the tasks, of stop() and of accept() that leave the list alone.
LEMMA OtherInv ==
  ASSUME IInv,
         \/ Incoming \/ AcceptFails \/ RunReturns
         \/ \E c \in Conns : Start(c) \/ EndQuietly(c)
         \/ \E t \in Tasks, k \in {"push", "send"}, d \in Devices : CallSend(t, k, d)
         \/ \E t \in Tasks : Begin(t) \/ Succeed(t) \/ Stall(t) \/ Fail(t)
         \/ \E force \in BOOLEAN : Stop(force)
         \/ UNCHANGED vars
  PROVE  IInv'
<1> USE ServerAssumption
<1>1. /\ TypeOK /\ RegistryConsistent /\ SendsToItsDevice /\ CalledHasTarget
      /\ FlagBeforeHandler
  BY DEF IInv, RegistryConsistent
<1>2. ASSUME SendsToItsDevice' /\ CalledHasTarget', TypeOK', Apart PROVE IInv'
  BY <1>2, ApartInv DEF IInv, Apart
<1>3. CASE Incoming \/ AcceptFails \/ RunReturns \/ (\E force \in BOOLEAN : Stop(force))
           \/ UNCHANGED vars
  <2>1. TypeOK' /\ Apart
    BY <1>1, <1>3 DEF Incoming, AcceptFails, RunReturns, Stop, vars, stopVars, taskVars, TypeOK,
                      Apart, FlagBeforeHandler
  <2>2. SendsToItsDevice' /\ CalledHasTarget'
    BY <1>1, <1>3 DEF Incoming, AcceptFails, RunReturns, Stop, vars, stopVars, taskVars,
                      SendsToItsDevice, CalledHasTarget
  <2> QED BY <2>1, <2>2, <1>2
<1>4. CASE \E c \in Conns : Start(c) \/ EndQuietly(c)
  <2>0. TypeOK'
    BY <1>1, <1>4 DEF Start, EndQuietly, stopVars, taskVars, TypeOK
  <2>3. UNCHANGED <<connections, connection_map, device_id_, lateId, stop, stopped>>
    BY <1>4 DEF Start, EndQuietly, stopVars
  <2>1. TypeOK' /\ Apart
    BY <1>1, <1>4, <2>0, <2>3 DEF Apart, FlagBeforeHandler
  <2>2. SendsToItsDevice' /\ CalledHasTarget'
    BY <1>1, <1>4 DEF Start, EndQuietly, taskVars, SendsToItsDevice, CalledHasTarget
  <2> QED BY <2>1, <2>2, <1>2
<1>5. ASSUME NEW t \in Tasks, NEW k \in {"push", "send"}, NEW d \in Devices,
             CallSend(t, k, d)
      PROVE  IInv'
  <2>1. TypeOK' /\ Apart
    BY <1>1, <1>5 DEF CallSend, stopVars, TypeOK, Apart, FlagBeforeHandler
  <2>2. SendsToItsDevice' /\ CalledHasTarget'
    BY <1>1, <1>5 DEF CallSend, SendsToItsDevice, CalledHasTarget, TypeOK, Sending
  <2> QED BY <2>1, <2>2, <1>2
<1>6. ASSUME NEW t \in Tasks, NEW i \in 0..MaxTries, pc[t] # "idle", Round(t, i),
             UNCHANGED ioVars
      PROVE  IInv'
  <2>1. /\ pc' \in [Tasks -> {"idle", "called"} \cup Sending \cup Results]
        /\ conn' \in [Tasks -> Conns \cup {Null}]
        /\ tries' \in [Tasks -> 0..MaxTries]
        /\ SendsToItsDevice' /\ CalledHasTarget'
    BY <1>1, <1>6, RoundKeeps DEF ioVars
  <2>2. TypeOK' /\ Apart
    BY <1>1, <1>6, <2>1 DEF ioVars, stopVars, TypeOK, Apart, FlagBeforeHandler
  <2> QED BY <2>1, <2>2, <1>2
<1>7. ASSUME NEW t \in Tasks, NEW r \in Results, pc[t] # "idle", Finish(t, r),
             UNCHANGED ioVars
      PROVE  IInv'
  <2>1. TypeOK' /\ Apart
    BY <1>1, <1>7 DEF Finish, ioVars, stopVars, TypeOK, Apart, FlagBeforeHandler
  <2>2. SendsToItsDevice' /\ CalledHasTarget'
    BY <1>1, <1>7 DEF Finish, ioVars, SendsToItsDevice, CalledHasTarget, TypeOK, Sending,
                      Results
  <2> QED BY <2>1, <2>2, <1>2
<1>8. ASSUME NEW t \in Tasks, Stall(t) PROVE IInv'
  <2>1. TypeOK' /\ Apart
    BY <1>1, <1>8 DEF Stall, ioVars, stopVars, TypeOK, Apart, FlagBeforeHandler, Sending
  <2>2. SendsToItsDevice' /\ CalledHasTarget'
    BY <1>1, <1>8 DEF Stall, ioVars, SendsToItsDevice, CalledHasTarget, TypeOK, Sending
  <2> QED BY <2>1, <2>2, <1>2
<1>9. ASSUME NEW t \in Tasks, Begin(t) \/ Succeed(t) \/ Fail(t) PROVE IInv'
  <2>0. 0 \in 0..MaxTries
    OBVIOUS
  <2>1. pc[t] # "idle"
    BY <1>9 DEF Begin, Succeed, Fail, Sending
  <2>2. CASE Begin(t)
    BY <2>0, <2>1, <2>2, <1>6 DEF Begin
  <2>3. CASE Succeed(t)
    <3>1. "ok" \in Results
      BY DEF Results
    <3> QED BY <2>1, <2>3, <3>1, <1>7 DEF Succeed
  <2>4. CASE Fail(t) /\ kind[t] = "push" /\ MayRetry(t)
    <3>1. tries[t] + 1 \in 0..MaxTries
      BY <1>1, <2>4 DEF MayRetry, TypeOK
    <3>2. Round(t, tries[t] + 1)
      BY <2>4 DEF Fail
    <3> QED BY <2>1, <2>4, <3>1, <3>2, <1>6 DEF Fail
  <2>5. CASE Fail(t) /\ ~(kind[t] = "push" /\ MayRetry(t))
    <3>1. "error" \in Results /\ "timeout_error" \in Results
      BY DEF Results
    <3>2. Finish(t, "error") \/ Finish(t, "timeout_error")
      BY <1>1, <2>5 DEF Fail, TypeOK
    <3> QED BY <2>1, <2>5, <3>1, <3>2, <1>7 DEF Fail
  <2> QED BY <1>9, <2>2, <2>3, <2>4, <2>5
<1> QED BY <1>3, <1>4, <1>5, <1>8, <1>9

\* stop()'s handler empties the list and the map.
LEMMA StopInv == IInv /\ StopHandler => IInv'
<1> SUFFICES ASSUME IInv, StopHandler PROVE IInv'
  OBVIOUS
<1>1. connections' \in Seq(Conns \cup {Null}) /\ DOMAIN connections' = {}
  BY DEF StopHandler, ListAfterStop
<1>2. connection_map' = [d \in Devices |-> Null] /\ stop' = "done" /\ stopped' = TRUE
      /\ UNCHANGED <<device_id_, loops, lateId, kind, pc, target, conn, tries>>
      /\ halted' \in BOOLEAN /\ ranOut' = ranOut /\ accepting' \in {"waiting", "ready", "ended"}
  BY DEF StopHandler, IInv, RegistryConsistent, TypeOK, taskVars, FlagBeforeHandler
<1>3. TypeOK'
  BY <1>1, <1>2 DEF IInv, RegistryConsistent, TypeOK
<1>4. RegistryConsistent' /\ RegisteredHasReader' /\ ListedUnnamed'
  BY <1>1, <1>2, <1>3 DEF IInv, RegistryConsistent, RegisteredHasReader, ListedUnnamed,
                          Listed, Holds
<1>5. SendsToItsDevice' /\ CalledHasTarget' /\ FlagBeforeHandler'
  BY <1>2 DEF IInv, SendsToItsDevice, CalledHasTarget, FlagBeforeHandler
<1> QED BY <1>4, <1>5 DEF IInv

\* Every step keeps the invariant.
LEMMA NextInv == IInv /\ [Next]_vars => IInv'
<1> SUFFICES ASSUME IInv, [Next]_vars PROVE IInv'
  OBVIOUS
<1>0. TypeOK
  BY DEF IInv, RegistryConsistent
<1>1. ASSUME NEW c \in Conns, ConnStep(c) PROVE IInv'
  BY <1>0, <1>1, AcceptInv, EndsDisconnect, DisconnectInv, IdentifyInv, OtherInv DEF ConnStep
<1>2. ASSUME NEW t \in Tasks, TaskStep(t) PROVE IInv'
  BY <1>2, OtherInv DEF TaskStep
<1> QED BY <1>1, <1>2, StopInv, OtherInv DEF Next

\* The list, the map and the tasks stay in order in every run of the server.
THEOREM Invariance == Spec => []IInv
  BY InitInv, NextInv, PTL DEF Spec

\* The list and the map agree, for any number of connections and devices:
\* remove_if without erase (tcp_server.hpp:146) loses nobody.
THEOREM RegistryStaysConsistent == Spec => []RegistryConsistent
<1>1. IInv => RegistryConsistent
  BY DEF IInv
<1> QED BY <1>1, Invariance, PTL

\* A registered connection is being read, or was given up by check before the
\* packet that registered it was processed (tcp_server.hpp:151-159).
THEOREM RegisteredStaysRead == Spec => []RegisteredHasReader
<1>1. IInv => RegisteredHasReader
  BY DEF IInv
<1> QED BY <1>1, Invariance, PTL

\* Whatever the retries and reconnects, a task sends on a connection of the
\* device it names (tcp_server.hpp:70, 87).
THEOREM SendsStayOnDevice == Spec => []SendsToItsDevice
<1>1. IInv => SendsToItsDevice
  BY DEF IInv
<1> QED BY <1>1, Invariance, PTL

-----------------------------------------------------------------------------
(* Evictions.                                                              *)

\* Why device d lost connection c in a step.
Cause(d, c) ==
  \/ stop' = "done"
  \/ connection_map'[d] # Null
  \/ loops'[c] # loops[c]
  \/ \E old \in Conns \ {c} : /\ device_id_[old] = d /\ Held(old)
                              /\ loops'[old] # loops[old]

\* on_disconnected takes the registration of the connection that ended, or, of
\* a newer one of its device, only while a task holds the older one.
LEMMA DisconnectCause ==
  ASSUME IInv, NEW k \in Conns, Disconnects(k), Alive(k), loops'[k] # loops[k],
         NEW d \in Devices, connection_map[d] # Null,
         connection_map'[d] # connection_map[d]
  PROVE  Cause(d, connection_map[d])
<1>1. TypeOK
  BY DEF IInv, RegistryConsistent
<1>2. device_id_[k] = d
  BY <1>1 DEF Disconnects, OnDisconnected, Unregister, TypeOK
<1>3. CASE connection_map[d] = k
  BY <1>3 DEF Cause
<1>4. CASE connection_map[d] # k
  <2>1. ~Registered(k)
    <3> SUFFICES ASSUME NEW e \in Devices, connection_map[e] = k PROVE FALSE
      BY DEF Registered
    <3>1. connection_map[e] # Null
      BY ServerAssumption
    <3>2. device_id_[k] = e
      BY <3>1 DEF IInv, RegistryConsistent
    <3> QED BY <3>2, <1>2, <1>4
  <2>2. ~Listed(k)
    BY <1>2, ServerAssumption DEF IInv, ListedUnnamed
  <2> QED BY <1>2, <1>4, <2>1, <2>2 DEF Alive, Cause
<1> QED BY <1>3, <1>4

\* Every lost registration has one of the four causes, in every run.
THEOREM EvictionsHaveCause == Spec => EvictionHasCause
<1>1. ASSUME IInv, [Next]_vars, NEW d \in Devices, connection_map[d] # Null,
             connection_map'[d] # connection_map[d]
      PROVE  Cause(d, connection_map[d])
  <2>1. CASE \E k \in Conns : ReadEnds(k) \/ CheckEnds(k)
    <3> PICK k \in Conns : ReadEnds(k) \/ CheckEnds(k)
      BY <2>1
    <3>1. Alive(k) /\ loops'[k] # loops[k]
      BY <1>1 DEF ReadEnds, CheckEnds, IInv, RegistryConsistent, TypeOK
    <3> QED BY <1>1, <3>1, EndsDisconnect, DisconnectCause DEF IInv, RegistryConsistent
  <2>2. CASE \E k \in Conns, e \in Devices : Identify(k, e)
    BY <1>1, <2>2, ServerAssumption
       DEF Identify, OnGotDeviceId, Cause, IInv, RegistryConsistent, TypeOK
  <2>3. CASE StopHandler
    BY <2>3 DEF StopHandler, Cause
  <2>4. CASE \E c \in Conns : Accept(c) \/ Start(c) \/ EndQuietly(c)
    BY <1>1, <2>4 DEF Accept, Start, EndQuietly
  <2>5. CASE (\E t \in Tasks : TaskStep(t)) \/ Incoming \/ AcceptFails \/ RunReturns
             \/ (\E force \in BOOLEAN : Stop(force)) \/ UNCHANGED vars
    BY <1>1, <2>5 DEF TaskStep, CallSend, Begin, Succeed, Stall, Fail, Incoming,
                      AcceptFails, RunReturns, Stop, ioVars, vars
  <2> QED BY <1>1, <2>1, <2>2, <2>3, <2>4, <2>5 DEF Next, ConnStep
<1>2. IInv /\ [Next]_vars =>
        [\A d \in Devices : LET c == connection_map[d] IN
           c # Null /\ connection_map'[d] # c =>
             \/ stop' = "done"
             \/ connection_map'[d] # Null
             \/ loops'[c] # loops[c]
             \/ \E old \in Conns \ {c} : /\ device_id_[old] = d /\ Held(old)
                                         /\ loops'[old] # loops[old]]_vars
  BY <1>1 DEF Cause
<1> QED BY <1>2, Invariance, PTL DEF Spec, EvictionHasCause

=============================================================================
