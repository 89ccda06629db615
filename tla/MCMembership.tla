---------------------------- MODULE MCMembership ----------------------------
(***************************************************************************)
(* Small instances of Membership for TLC: process 2 is the sequencer; 1    *)
(* asks it directly, 3 asks member 1 and is redirected.                    *)
(***************************************************************************)
EXTENDS Membership

MCContact == [j \in Joiners |-> IF j = 3 THEN 1 ELSE 2]
=============================================================================
