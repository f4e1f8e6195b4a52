------------------------------- MODULE Recency -------------------------------
(***************************************************************************)
(* What a least-recently-used memory promises: the Cap ids used last, most *)
(* recent first.  exist(v) uses v if it is remembered; put(v) uses v and   *)
(* may push out the one that has gone unused longest.                      *)
(***************************************************************************)
EXTENDS Naturals, SequencesExt

CONSTANTS Ids, Cap

VARIABLE recent

Remembers(v) == \E i \in DOMAIN recent : recent[i] = v

Place(v) == CHOOSE i \in DOMAIN recent : recent[i] = v

\* The memory with v used last.
Used(v) == <<v>> \o (IF Remembers(v) THEN RemoveAt(recent, Place(v)) ELSE recent)

exist(v) == recent' = IF Remembers(v) THEN Used(v) ELSE recent

put(v) == recent' = IF Len(Used(v)) > Cap THEN SubSeq(Used(v), 1, Cap) ELSE Used(v)

Init == recent = <<>>
Next == \E v \in Ids : exist(v) \/ put(v)
Spec == Init /\ [][Next]_recent

=============================================================================
