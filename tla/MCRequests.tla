----------------------------- MODULE MCRequests -----------------------------
(* A small instance of Requests for TLC. *)
EXTENDS Requests

\* Settings as the README's example sends them; none at all; and some beyond
\* every limit, the limiter above 0 dB and the low cut above the default high.
Given == [bitrate |-> 192, transition |-> DefaultTransition,
          profile |-> [music |-> -12, speech |-> 0, low |-> 0, mid |-> -18, high |-> -14,
                       attack |-> 18, release |-> 45, lowCut |-> 0, highCut |-> 0,
                       limiter |-> -1]]
Beyond == [bitrate |-> 1000, transition |-> [type |-> "unknown", duration |-> 999],
           profile |-> [music |-> 40, speech |-> -90, low |-> 0, mid |-> 0, high |-> 0,
                        attack |-> -1, release |-> 0, lowCut |-> 400, highCut |-> 10,
                        limiter |-> 3]]
MCSettings == {Given, Beyond}

=============================================================================
