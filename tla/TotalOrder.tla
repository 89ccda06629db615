----------------------------- MODULE TotalOrder -----------------------------
(***************************************************************************)
(* What the chat promises its members, whatever the network does: the      *)
(* lines typed are put into one global order, and what a member shows is,  *)
(* at every moment, a prefix of that order.  The detailed specification    *)
(* SequencedChat (the sequencer and the threads of dchat.cpp) implements   *)
(* this one.                                                               *)
(***************************************************************************)
EXTENDS Naturals, Sequences

CONSTANTS Procs,    \* the processes of the chat
          Members   \* those that are not the sequencer

VARIABLES typed,    \* typed[p]: how many lines p's user has entered
          order,    \* the global order, a sequence of lines
          shown     \* shown[q]: the lines member q has handed to its screen

vars == <<typed, order, shown>>

(***************************************************************************)
(* A line is identified by its author and its position among the lines of  *)
(* that author; the text itself is irrelevant to the order.                *)
(***************************************************************************)
Lines == [from : Procs, n : Nat \ {0}]

Init == /\ typed = [p \in Procs |-> 0]
        /\ order = << >>
        /\ shown = [q \in Members |-> << >>]

Enter(p) == /\ typed' = [typed EXCEPT ![p] = @ + 1]
            /\ UNCHANGED <<order, shown>>

(* Only a line somebody entered can be ordered.  A line may be ordered     *)
(* twice: the sequencer does not recognise a retransmitted line.           *)
Order == /\ \E p \in Procs : \E n \in 1 .. typed[p] :
               order' = Append(order, [from |-> p, n |-> n])
         /\ UNCHANGED <<typed, shown>>

(* A member shows the next line of the order: no gap, no repetition.       *)
Show(q) == /\ Len(shown[q]) < Len(order)
           /\ shown' = [shown EXCEPT ![q] = Append(@, order[Len(@) + 1])]
           /\ UNCHANGED <<typed, order>>

Next == \/ \E p \in Procs : Enter(p)
        \/ Order
        \/ \E q \in Members : Show(q)

Spec == Init /\ [][Next]_vars
=============================================================================
