------------------------------ MODULE MCStation ------------------------------
(* A small instance of Station for TLC. *)
EXTENDS Station

\* A track of one block, cut to the next.
MCTrackFrames == {2}
MCTransitions == {[kind |-> "cut", frames |-> 0]}
MCAnnBlocks == {1}

=============================================================================
