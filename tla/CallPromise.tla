----------------------------- MODULE CallPromise -----------------------------
(***************************************************************************)
(* What send_packet_and_wait_rsp promises its callers, with no connection, *)
(* map or timer in sight.  A call is made, its request goes out at most    *)
(* once, the peer answers copies it received, and the call ends well by    *)
(* using up one answer to its own request or fails.  Answers can be lost.  *)
(***************************************************************************)
EXTENDS Naturals

CONSTANT Callers

VARIABLES
  status,   \* of each caller's current call
  asked,    \* copies of the request the peer has and has not answered
  replies   \* answers sent and neither used nor lost

vars == <<status, asked, replies>>

Init ==
  /\ status = [c \in Callers |-> "idle"]
  /\ asked = [c \in Callers |-> 0]
  /\ replies = [c \in Callers |-> 0]

\* A failed call may be repeated with the same packet.
Invoke(c) ==
  /\ status[c] \in {"idle", "failed"}
  /\ status' = [status EXCEPT ![c] = "open"]
  /\ UNCHANGED <<asked, replies>>

Ask(c) ==
  /\ status[c] = "open"
  /\ status' = [status EXCEPT ![c] = "asked"]
  /\ \/ asked' = [asked EXCEPT ![c] = @ + 1]
     \/ asked' = asked
  /\ UNCHANGED replies

Answer(c) ==
  /\ asked[c] > 0
  /\ asked' = [asked EXCEPT ![c] = @ - 1]
  /\ replies' = [replies EXCEPT ![c] = @ + 1]
  /\ UNCHANGED status

Complete(c) ==
  /\ status[c] = "asked"
  /\ replies[c] > 0
  /\ status' = [status EXCEPT ![c] = "ok"]
  /\ replies' = [replies EXCEPT ![c] = @ - 1]
  /\ UNCHANGED asked

\* Calls fail and answers get lost, several at once when a connection goes.
Abandon ==
  /\ \A c \in Callers : \/ status'[c] = status[c]
                        \/ status[c] \in {"open", "asked"} /\ status'[c] = "failed"
  /\ \A c \in Callers : replies'[c] <= replies[c]
  /\ UNCHANGED asked

Next == Abandon \/ \E c \in Callers : Invoke(c) \/ Ask(c) \/ Answer(c) \/ Complete(c)

Spec == Init /\ [][Next]_vars

=============================================================================
