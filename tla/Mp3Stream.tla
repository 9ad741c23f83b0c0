----------------------------- MODULE Mp3Stream -----------------------------
(***************************************************************************)
(* The MP3 streamer: a session sends the frames of one track after the     *)
(* other, and silence between them, no faster than they are played but for *)
(* an initial lead.  readFrame finds the next frame in whatever bytes the  *)
(* source holds; a pacer shared by the tracks of the session waits between *)
(* frames; a skip or a done context ends a track.                          *)
(*                                                                         *)
(* Of a byte only what parseHeader tells apart is kept, and frames of two  *)
(* sizes stand for those of its tables.                                    *)
(***************************************************************************)
EXTENDS Integers, Sequences

CONSTANTS
  Sources,     \* the tracks: records of chunks of an ID3 tag, and bytes
  Duration,    \* of a frame, in ticks of the clock
  Lead,        \* InitialBuffer
  MaxTime,     \* bound: the clock
  MaxFrames,   \* bound: frames sent after a reset
  MaxTracks    \* bound: tracks streamed by the session

\* 0xff; a second byte of a header; a third one with a valid rate; any other.
Byte == {"ff", "sync", "rate", "other"}

ASSUME Mp3StreamAssumption ==
  /\ Sources \subseteq [tag : Nat, whole : BOOLEAN, bytes : Seq(Byte)]
  /\ Duration \in Nat \ {0} /\ Lead \in Nat
  /\ MaxTime \in Nat /\ MaxFrames \in Nat /\ MaxTracks \in Nat

\* The embedded silent frame, over and over.
Silence == [tag |-> 0, whole |-> TRUE, bytes |-> <<>>]

ASSUME SilenceIsNoTrack == Silence \notin Sources

VARIABLES
  now,           \* the clock
  start,         \* pacer.start
  elapsed,       \* pacer.elapsed
  at,            \* "idle", or where Stream or StreamSilence is
  source,        \* the track, or Silence
  position,      \* the next byte of the track
  tag,           \* chunks of the tag that are left
  skip,          \* a skip is waiting in commands
  cancelled,     \* the context is done
  result,        \* how the last track ended
  sent,          \* history: where the frames sent of this track begin
  written,       \* history: how many frames were sent since the last reset
  interrupted,   \* history: how many of their waits were interrupted
  tracks         \* how many tracks were streamed

pacerVars   == <<now, start, elapsed, written, interrupted>>
trackVars   == <<source, position, tag, sent, tracks>>
controlVars == <<skip, cancelled>>
vars        == <<pacerVars, trackVars, controlVars, at, result>>

Init ==
  /\ now = 0 /\ start = 0 /\ elapsed = 0
  /\ at = "idle" /\ source = Silence /\ position = 1 /\ tag = 0
  /\ skip = FALSE /\ cancelled = FALSE /\ result = "none"
  /\ sent = <<>> /\ written = 0 /\ interrupted = 0 /\ tracks = 0

-----------------------------------------------------------------------------
(* readFrame *)

\* A header whose second byte is 0xff is one of layer I.
FrameSize == [sync |-> 6, ff |-> 5]

\* Mutant: the search goes on behind the header.
BehindHeader(size) == 4

Behind(size) == size

Found(size)   == [outcome |-> "frame", bytes |-> Behind(size)]
Dropped(size) == [outcome |-> "dropped", bytes |-> size]
Ended(how)    == [outcome |-> how, bytes |-> 0]

\* One turn of readFrame at byte p: a frame; a false header, dropped with all
\* the bytes that were read of it; or the end.  A source that ends between two
\* reads is at its end; one that ends within a read is cut off.
Turn(bytes, p) ==
  LET length == Len(bytes)
      size   == FrameSize[bytes[p + 1]]
  IN  IF p >= length THEN Ended("eof")
      ELSE IF bytes[p] # "ff" THEN Dropped(1)
      ELSE IF bytes[p + 1] \notin DOMAIN FrameSize THEN Dropped(2)
      ELSE IF p + 2 > length THEN Ended("eof")
      ELSE IF p + 3 > length THEN Ended("cut")
      ELSE IF bytes[p + 2] # "rate" THEN Dropped(4)
      ELSE IF p + size - 1 <= length THEN Found(size)
      ELSE Ended(IF p + 4 > length THEN "eof" ELSE "cut")

-----------------------------------------------------------------------------
(* Stream and StreamSilence *)

\* Each track has a context of its own, or that of the one before.
Begin(s) ==
  /\ at = "idle" /\ tracks < MaxTracks
  /\ cancelled' \in {cancelled, FALSE}
  /\ tracks' = tracks + 1
  /\ source' = s /\ position' = 1 /\ sent' = <<>>
  /\ tag' = s.tag /\ at' = IF s.tag > 0 THEN "tag" ELSE "head"
  /\ UNCHANGED <<pacerVars, skip, result>>

End(how) == at' = "idle" /\ result' = how

\* The loops look at the context first, then for a skip.
EndCancelled ==
  /\ at \in {"tag", "head"} /\ cancelled
  /\ End("cancelled") /\ UNCHANGED <<pacerVars, trackVars, controlVars>>

EndSkipped ==
  /\ at \in {"tag", "head"} /\ ~cancelled /\ skip
  /\ skip' = FALSE /\ End("skipped")
  /\ UNCHANGED <<pacerVars, trackVars, cancelled>>

GoesOn(place) == at = place /\ ~cancelled /\ ~skip

\* consumeID3v2, a chunk at a time.
ReadTag ==
  /\ GoesOn("tag")
  /\ tag' = tag - 1
  /\ IF tag > 1 \/ source.whole
     THEN at' = (IF tag > 1 THEN "tag" ELSE "head") /\ UNCHANGED result
     ELSE End("failed")
  /\ UNCHANGED <<pacerVars, source, position, sent, tracks, controlVars>>

\* readFrame is called, and looks at no context and no command till it returns.
ReadFrame ==
  /\ GoesOn("head") /\ source # Silence
  /\ at' = "read"
  /\ UNCHANGED <<pacerVars, trackVars, controlVars, result>>

NextTurn == Turn(source.bytes, position)

DropHeader ==
  /\ at = "read" /\ NextTurn.outcome = "dropped"
  /\ position' = position + NextTurn.bytes
  /\ UNCHANGED <<pacerVars, source, tag, sent, tracks, controlVars, at, result>>

\* A frame is written, and the pacer asked to wait.
Written ==
  /\ written < MaxFrames
  /\ written' = written + 1 /\ at' = "pace"
  /\ UNCHANGED <<now, start, elapsed, interrupted, source, tag, tracks, controlVars, result>>

SendSilence ==
  /\ GoesOn("head") /\ source = Silence
  /\ Written /\ UNCHANGED <<position, sent>>

SendFrame ==
  /\ at = "read" /\ NextTurn.outcome = "frame"
  /\ position' = position + NextTurn.bytes
  /\ sent' = Append(sent, position)
  /\ Written

\* The source cannot be read, or the listener not be written to.
Fails ==
  /\ \/ GoesOn("tag")
     \/ GoesOn("head") /\ source = Silence
     \/ at = "read"
  /\ End("failed") /\ UNCHANGED <<pacerVars, trackVars, controlVars>>

\* The end of the source ends the track well; a frame that is cut off does not.
SourceEnds ==
  /\ at = "read"
  /\ \/ NextTurn.outcome = "eof" /\ End("played")
     \/ NextTurn.outcome = "cut" /\ End("failed")
  /\ UNCHANGED <<pacerVars, trackVars, controlVars>>

-----------------------------------------------------------------------------
(* The pacer *)

Deadline == start + elapsed + Duration - Lead

\* Mutant: elapsed stays behind when no wait was needed.
AdvanceNot == elapsed' = elapsed

Advance == elapsed' = elapsed + Duration

\* wait: at once when the deadline is over, without a look at the commands.
WaitOver ==
  /\ at = "pace" /\ now >= Deadline
  /\ Advance /\ at' = "head"
  /\ UNCHANGED <<now, start, written, interrupted, trackVars, controlVars, result>>

Sleep ==
  /\ at = "pace" /\ now < Deadline
  /\ at' = "sleep"
  /\ UNCHANGED <<pacerVars, trackVars, controlVars, result>>

TimerFires ==
  /\ at = "sleep" /\ now >= Deadline
  /\ Advance /\ at' = "head"
  /\ UNCHANGED <<now, start, written, interrupted, trackVars, controlVars, result>>

\* An interrupted wait does not advance, though its frame was sent.
WaitInterrupted ==
  /\ at = "sleep"
  /\ \/ cancelled /\ End("cancelled") /\ UNCHANGED skip
     \/ skip /\ skip' = FALSE /\ End("skipped")
  /\ interrupted' = interrupted + 1
  /\ UNCHANGED <<now, start, elapsed, written, trackVars, cancelled>>

-----------------------------------------------------------------------------
(* The owner of the session, and time *)

Command ==
  \/ ~skip /\ skip' = TRUE /\ UNCHANGED cancelled
  \/ ~cancelled /\ cancelled' = TRUE /\ UNCHANGED skip

Control == Command /\ UNCHANGED <<pacerVars, trackVars, at, result>>

\* ResetTiming, between two tracks.
Reset ==
  /\ at = "idle"
  /\ start' = now /\ elapsed' = 0 /\ written' = 0 /\ interrupted' = 0
  /\ UNCHANGED <<now, trackVars, controlVars, at, result>>

Tick ==
  /\ now < MaxTime /\ now' = now + 1
  /\ UNCHANGED <<start, elapsed, written, interrupted, trackVars, controlVars, at, result>>

Stream ==
  \/ EndCancelled \/ EndSkipped \/ ReadTag
  \/ ReadFrame \/ DropHeader \/ SendFrame \/ SendSilence \/ Fails \/ SourceEnds
  \/ WaitOver \/ Sleep \/ TimerFires \/ WaitInterrupted

Next == (\E s \in Sources \cup {Silence} : Begin(s)) \/ Stream \/ Control \/ Reset \/ Tick

Spec == Init /\ [][Next]_vars

-----------------------------------------------------------------------------
(* Properties *)

\* The listener is never more ahead than the lead, the frame in the making, and
\* one frame for each interrupted wait: through any number of tracks, skips,
\* late wake-ups and bursts that make up for them (wait, delayFor, advance).
AheadBounded ==
  Duration * written <= (now - start) + Lead + Duration * (1 + interrupted)

\* A track without anything between its frames.
Clean(bytes) ==
  /\ Len(bytes) % 6 = 0
  /\ \A k \in 0..Len(bytes) \div 6 - 1 :
       bytes[6 * k + 1] = "ff" /\ bytes[6 * k + 2] = "sync" /\ bytes[6 * k + 3] = "rate"

\* The frames sent of a clean track are its frames in order, whatever the bytes
\* inside of them look like, and all of them when it was played to the end.
CleanTrackInOrder ==
  Clean(source.bytes) /\ source # Silence =>
    /\ \A k \in 1..Len(sent) : sent[k] = 6 * (k - 1) + 1
    /\ at = "idle" /\ result = "played" => Len(sent) = Len(source.bytes) \div 6

=============================================================================
