---------------------------- MODULE MCMp3Stream ----------------------------
(* A small instance of Mp3Stream for TLC. *)
EXTENDS Mp3Stream

Header == <<"ff", "sync", "rate", "other">>

\* Frames whose inside looks like a header; a stray 0xff that hides a frame; a
\* frame cut off, and a tag.
Mimics  == Header \o <<"ff", "sync">> \o <<"ff", "sync", "rate", "ff", "sync", "rate">>
           \o Header \o <<"other", "ff">>
Stray   == <<"other", "ff">> \o Header \o <<"other", "ff">> \o Header \o <<"other", "other">>
CutOff  == Header \o <<"other">>
MCSources ==
  {[tag |-> 0, whole |-> TRUE, bytes |-> Mimics], [tag |-> 2, whole |-> TRUE, bytes |-> Stray],
   [tag |-> 0, whole |-> TRUE, bytes |-> CutOff], [tag |-> 1, whole |-> FALSE, bytes |-> <<>>]}

=============================================================================
