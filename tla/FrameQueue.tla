----------------------------- MODULE FrameQueue -----------------------------
(* What the frame handoff promises: the sender gets the frames that were   *)
(* accepted whole, once each and in order, and at most Slots wait.         *)
EXTENDS Naturals, Sequences

CONSTANTS Slots, Window   \* frames are numbered modulo Window

VARIABLES queue, seq

Init == queue = <<>> /\ seq = 0

Accept == /\ Len(queue) < Slots
          /\ queue' = Append(queue, seq)
          /\ seq' = (seq + 1) % Window

Release == /\ queue # <<>>
           /\ queue' = Tail(queue)
           /\ UNCHANGED seq

\* A new viewer does not get the frames of the one before.
Drain == queue' = <<>> /\ UNCHANGED seq

Spec == Init /\ [][Accept \/ Release \/ Drain]_<<queue, seq>>
=============================================================================
