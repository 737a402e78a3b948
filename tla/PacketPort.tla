----------------------------- MODULE PacketPort -----------------------------
(***************************************************************************)
(* What send_packet() and receive_packet() of kernel/virtio.c promise,     *)
(* whatever the rings in memory look like: messages go out as they were    *)
(* given, and the frames the device accepted are shown once each, in the   *)
(* order they arrived.                                                     *)
(***************************************************************************)
EXTENDS Naturals, Sequences

CONSTANTS
  Messages,      \* what send_packet() is given
  Frames,        \* what arrives from the network
  Capacity       \* frames the receive queue ever takes

VARIABLES
  linked,        \* there is a network device
  posted,        \* messages handed to the device
  wire,          \* frames on the wire
  arrived,       \* frames the device has handed over
  shown          \* frames printed

vars == <<linked, posted, wire, arrived, shown>>

Init ==
  /\ linked \in BOOLEAN
  /\ posted = << >>
  /\ wire = << >>
  /\ arrived = << >>
  /\ shown = << >>

Post(m) ==
  /\ posted' = Append(posted, m)
  /\ UNCHANGED <<linked, wire, arrived, shown>>

Transmit ==
  /\ linked /\ Len(wire) < Len(posted)
  /\ wire' = Append(wire, posted[Len(wire) + 1])
  /\ UNCHANGED <<linked, posted, arrived, shown>>

Accept(f) ==
  /\ linked /\ Len(arrived) < Capacity
  /\ arrived' = Append(arrived, f)
  /\ UNCHANGED <<linked, posted, wire, shown>>

Show ==
  /\ Len(shown) < Len(arrived)
  /\ shown' = Append(shown, arrived[Len(shown) + 1])
  /\ UNCHANGED <<linked, posted, wire, arrived>>

Next ==
  \/ \E m \in Messages : Post(m)
  \/ Transmit
  \/ \E f \in Frames : Accept(f)
  \/ Show

\* A message handed over is sent, if there is a device.  Nothing promises that a frame is shown:
\* somebody has to call receive_packet().
Spec == Init /\ [][Next]_vars /\ WF_vars(Transmit)
=============================================================================
