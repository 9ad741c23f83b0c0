--------------------------- MODULE MCAnnouncements ---------------------------
(* Small instances of Announcements for TLC. *)
EXTENDS Announcements

\* An announcement of one block, and one that ends in the middle of the run.
MCAnnBlocks == {1, 2}

==============================================================================
