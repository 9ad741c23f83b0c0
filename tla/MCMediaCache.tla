---------------------------- MODULE MCMediaCache ----------------------------
(* Small instances of MediaCache for TLC. *)
EXTENDS MediaCache

CONSTANTS small, large

\* Together the two objects do not fit.
MCSize == [k \in Key |-> IF k = large THEN 2 ELSE 1]

=============================================================================
