---------------------------- MODULE MCVirtioNet -----------------------------
(***************************************************************************)
(* Instances of VirtioNet for TLC.                                         *)
(***************************************************************************)
EXTENDS VirtioNet

TwoMessages == {<<"message", 1>>, <<"message", 2>>}
TwoFrames  == {<<"frame", 1>>, <<"frame", 2>>}
TwoSlots   == {0, 1}

\* The calls of init_virtio(), then a caller that goes on: it sends more often
\* than the ring has entries, and receives until the rx buffers are used up.
ProgramCalls == <<"send", "receive">>
LaterCalls   == <<"send", "send", "receive", "send", "send", "receive", "receive">>
AllCalls     == ProgramCalls \o LaterCalls
=============================================================================
