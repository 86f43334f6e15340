------------------------------ MODULE FrameStream ------------------------------
(* What the receiving half of the TCP extension promises to the handlers    *)
(* bound to it: the packets of the peer, each once, whole and in order,     *)
(* until the stream is broken.                                              *)
EXTENDS Integers, Sequences

CONSTANTS
  Payloads,   \* the packets the peer may send
  MaxFrames   \* bound: packets sent

VARIABLES
  sent,       \* the packets the peer has sent
  received,   \* the packets given to the handlers
  broken      \* where the packets begin is lost

vars == <<sent, received, broken>>

Init == sent = <<>> /\ received = <<>> /\ broken = FALSE

Send(p) ==
  /\ Len(sent) < MaxFrames
  /\ sent' = Append(sent, p)
  /\ UNCHANGED <<received, broken>>

Deliver ==
  /\ ~ broken /\ Len(received) < Len(sent)
  /\ received' = Append(received, sent[Len(received) + 1])
  /\ UNCHANGED <<sent, broken>>

\* From then on a packet given to the handlers may be any.
Break   == broken' = TRUE /\ UNCHANGED <<sent, received>>
Garbage ==
  /\ broken /\ Len(received') = Len(received) + 1
  /\ \A i \in 1 .. Len(received) : received'[i] = received[i]
  /\ UNCHANGED <<sent, broken>>

Next == Deliver \/ Break \/ Garbage \/ \E p \in Payloads : Send(p)

Spec == Init /\ [][Next]_vars /\ WF_vars(Deliver)
=============================================================================
