---------------------------- MODULE MCQueueChat ----------------------------
(***************************************************************************)
(* Small instance of QueueChat for TLC: j asks the sequencer s, k asks j.  *)
(***************************************************************************)
EXTENDS QueueChat

CONSTANTS s, j, k

MCContact == [m \in Joiners |-> IF m = j THEN s ELSE j]
=============================================================================
