----------------------------- MODULE MCPlayback -----------------------------
(* Small instances of Playback for TLC. *)
EXTENDS Playback

\* Lengths around the block and the transition: shorter than a block, a whole
\* number of blocks, and not.
MCTrackFrames == {1, 4, 5}

Cut == [kind |-> "cut", frames |-> 0]
Fade == [kind |-> "fade", frames |-> 3]
Crossfade == [kind |-> "crossfade", frames |-> 4]
MCTransitions == {Cut, Fade, Crossfade}

=============================================================================
