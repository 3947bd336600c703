---------------------------- MODULE PhaseBarrier ----------------------------
(***************************************************************************)
(* What the marker.json / ack.json handshake of a lifecycle case promises:  *)
(* parent and worker walk through the phases in step.  The parent samples   *)
(* a phase, then the worker lists that phase as acknowledged, and neither   *)
(* goes on to the next phase before the other has caught up.  Once the      *)
(* worker has given a phase up (broken), its last acknowledgement may bear  *)
(* another name than the sample it stands for, never another number.        *)
(***************************************************************************)
EXTENDS Naturals, Sequences

CONSTANT Phase

VARIABLES sampled, listed, broken

vars == <<sampled, listed, broken>>

Init ==
  /\ sampled = <<>>
  /\ listed = <<>>
  /\ broken = FALSE

Sample(p) ==
  /\ Len(sampled) = Len(listed)
  /\ sampled' = Append(sampled, p)
  /\ UNCHANGED <<listed, broken>>

Acknowledge ==
  /\ Len(sampled) = Len(listed) + 1
  /\ listed' = Append(listed, sampled[Len(sampled)])
  /\ UNCHANGED <<sampled, broken>>

Break ==
  /\ broken' = TRUE
  /\ UNCHANGED <<sampled, listed>>

AcknowledgeLate(p) ==
  /\ broken
  /\ Len(sampled) = Len(listed) + 1
  /\ listed' = Append(listed, p)
  /\ UNCHANGED <<sampled, broken>>

Next ==
  \/ Acknowledge \/ Break
  \/ \E p \in Phase : Sample(p) \/ AcknowledgeLate(p)

Spec == Init /\ [][Next]_vars

\* The lists agree wherever both have an entry, until the worker gives up.
Agreement ==
  /\ Len(sampled) \in {Len(listed), Len(listed) + 1}
  /\ ~ broken => \A i \in 1 .. Len(listed) : sampled[i] = listed[i]
=============================================================================
