--------------------------------- MODULE Lru ---------------------------------
(***************************************************************************)
(* asyncmsg/detail::lru (lru.hpp): a list and a map from each value to its *)
(* node in the list.  A node is a memory cell: what an iterator points to  *)
(* and what the allocator may hand out again once it is erased.            *)
(***************************************************************************)
EXTENDS Naturals, SequencesExt, FiniteSets

CONSTANTS
  Ids,   \* the values
  cap,
  Nodes, \* the cells of the list
  NoNode \* no entry

ASSUME LruAssumption == cap \in Nat /\ NoNode \notin Nodes

VARIABLES
  l,   \* the list: its nodes from front to back
  val, \* the value in each node
  m    \* the map: value -> node

lruVars == <<l, val, m>>

Listed == {l[i] : i \in DOMAIN l}
\* erase and splice take out the node they are given.
Unlinked(n) == RemoveAt(l, CHOOSE i \in DOMAIN l : l[i] = n)

LruInit ==
  /\ l = <<>>
  /\ val \in [Nodes -> Ids]
  /\ m = [v \in Ids |-> NoNode]

\* Spliced to the wrong end.
existSplicesToEnd(v) ==
  /\ l' = IF m[v] = NoNode THEN l ELSE Append(Unlinked(m[v]), m[v])
  /\ UNCHANGED <<val, m>>

exist(v) ==
  /\ l' = IF m[v] = NoNode THEN l ELSE <<m[v]>> \o Unlinked(m[v])
  /\ UNCHANGED <<val, m>>

\* put without the erase of the value's old node.
LinkedStill(v) == l

\* put first unlinks the node the value had.
WithoutOld(v) == IF m[v] = NoNode THEN l ELSE Unlinked(m[v])

\* m.size() > cap.
Over(keys) == Cardinality({v \in Ids : keys[v] # NoNode}) > cap

\* l.back(), the value m.erase takes out.
Evicted(nodes, values) == values[nodes[Len(nodes)]]

\* put(v), with node n for the new element.
PutAt(v, n) ==
  LET nodes  == <<n>> \o WithoutOld(v)
      values == [val EXCEPT ![n] = v]
      keys   == [m EXCEPT ![v] = n]
  IN  /\ val' = values
      /\ l' = IF Over(keys) THEN SubSeq(nodes, 1, Len(nodes) - 1) ELSE nodes
      /\ m' = IF Over(keys) THEN [keys EXCEPT ![Evicted(nodes, values)] = NoNode] ELSE keys

put(v) == \E n \in Nodes \ {WithoutOld(v)[i] : i \in DOMAIN WithoutOld(v)} : PutAt(v, n)

LruNext == \E v \in Ids : exist(v) \/ put(v)

LruSpec == LruInit /\ [][LruNext]_lruVars

-----------------------------------------------------------------------------
(* Properties.                                                             *)

LruTypeOK ==
  /\ l \in Seq(Nodes) /\ Len(l) <= cap
  /\ val \in [Nodes -> Ids]
  /\ m \in [Ids -> Nodes \cup {NoNode}]

\* The iterators of the map (lru.hpp:37) point into the list, each to the node
\* of its own value, and every node has its entry: an eviction or a repeated put
\* leaves no dangling iterator and no value that is listed and not found.
ListAndMapAgree ==
  /\ LruTypeOK
  /\ \A v \in Ids : m[v] # NoNode => m[v] \in Listed /\ val[m[v]] = v
  /\ \A n \in Listed : m[val[n]] = n
  /\ \A i, j \in DOMAIN l : l[i] = l[j] => i = j

\* The two structures together implement Recency.
Values  == [i \in DOMAIN l |-> val[l[i]]]
Promise == INSTANCE Recency WITH recent <- Values, Cap <- cap
ImplementsRecency == Promise!Spec

=============================================================================
