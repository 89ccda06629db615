--------------------------- MODULE MCSequencedChat ---------------------------
(***************************************************************************)
(* Small instances of SequencedChat for TLC: the sequencer s and the       *)
(* members a and b, in the order in which they joined.                     *)
(***************************************************************************)
EXTENDS SequencedChat

CONSTANTS s, a, b

MCProcs == {s, a, b}
MCSocketList == <<s, a, b>>
MCTwo == {s, a}
MCTwoList == <<s, a>>

(* Lines typed. *)
TwoByA == [p \in MCProcs |-> IF p = a THEN 2 ELSE IF p = s THEN 1 ELSE 0]
OneByA == [p \in MCProcs |-> IF p = b THEN 0 ELSE 1]
TwoA == [p \in MCTwo |-> IF p = a THEN 2 ELSE 0]
=============================================================================
