----------------------------- MODULE BlockPipe -----------------------------
(***************************************************************************)
(* What the sidecar's audio data plane promises the host: a two-stage      *)
(* first-in first-out pipe that keeps every block and its order, and may   *)
(* lose a block in one way only, by dropping the oldest pending one while  *)
(* the finished side is full.                                              *)
(***************************************************************************)
EXTENDS Naturals, Sequences

CONSTANTS
  Block,      \* audio blocks
  Capacity    \* blocks a stage holds

VARIABLES
  pending,    \* blocks submitted, not yet handled
  ready       \* blocks handled, not yet collected

vars == <<pending, ready>>

Init == pending = <<>> /\ ready = <<>>

Submit ==
  /\ Len(pending) < Capacity
  /\ \E b \in Block : pending' = Append(pending, b)
  /\ UNCHANGED ready

Forward ==
  /\ pending # <<>>
  /\ Len(ready) < Capacity
  /\ ready' = Append(ready, Head(pending))
  /\ pending' = Tail(pending)

Drop ==
  /\ pending # <<>>
  /\ Len(ready) = Capacity
  /\ pending' = Tail(pending)
  /\ UNCHANGED ready

Collect ==
  /\ ready # <<>>
  /\ ready' = Tail(ready)
  /\ UNCHANGED pending

Next == Submit \/ Forward \/ Drop \/ Collect

Spec == Init /\ [][Next]_vars
============================================================================
