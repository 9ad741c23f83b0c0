---------------------------- MODULE Output_proofs ----------------------------
(***************************************************************************)
(* Proofs about the two ways MP3 leaves the engine: the encoder of a       *)
(* connection, for pipes of every size, and the streamer's frames and      *)
(* pacer, for every set of sources, frame duration, lead and bound.        *)
(***************************************************************************)
EXTENDS Encoder, Mp3Stream, TLAPS

(* The encoder *)

\* The copying goroutine waits for the process; render closes the input first.
EncoderInv ==
  /\ EncoderTypeOK
  /\ copier = "done" => process = "exited"
  /\ render \in {"await", "returned"} => ~stdinOpen
  /\ NothingLeftBehind

LEMMA EncoderInitInv == EncoderInit => EncoderInv
<1>1. 0 \in 0..InCap /\ 0 \in 0..OutCap
  BY EncoderAssumption
<1> QED
  BY <1>1, Zenon DEF EncoderInit, EncoderInv, EncoderTypeOK, NothingLeftBehind

LEMMA EncoderNextInv == EncoderInv /\ [EncoderNext]_encoderVars => EncoderInv'
<1> SUFFICES ASSUME EncoderInv, [EncoderNext]_encoderVars PROVE EncoderInv'
  OBVIOUS
<1> USE EncoderAssumption DEF EncoderInv, EncoderTypeOK, NothingLeftBehind
<1>1. CASE TickWrites
  BY <1>1 DEF TickWrites
<1>2. CASE WriteOk
  BY <1>2 DEF WriteOk
<1>3. CASE WriteFails \/ RenderFails \/ SeesCancel
  BY <1>3 DEF WriteFails, RenderFails, SeesCancel
<1>4. CASE CloseStdin
  BY <1>4 DEF CloseStdin
<1>5. CASE CloseReturns
  BY <1>5 DEF CloseReturns
<1>6. CASE Encode
  BY <1>6 DEF Encode
<1>7. CASE EndOfInput \/ Killed \/ Dies
  BY <1>7 DEF EndOfInput, Killed, Dies
<1>8. CASE CopyReads
  BY <1>8 DEF CopyReads
<1>9. CASE CopyEnds \/ CopyWrites \/ CopyFails
  BY <1>9 DEF CopyEnds, CopyWrites, CopyFails
<1>10. CASE WaitReturns
  BY <1>10 DEF WaitReturns
<1>11. CASE ConnStalls \/ ConnResumes \/ ConnDrops
  BY <1>11 DEF ConnStalls, ConnResumes, ConnDrops
<1>12. CASE Cancel
  BY <1>12, Zenon DEF Cancel
<1>13. CASE UNCHANGED encoderVars
  BY <1>13 DEF encoderVars
<1> QED
  BY <1>1, <1>2, <1>3, <1>4, <1>5, <1>6, <1>7, <1>8, <1>9, <1>10, <1>11, <1>12, <1>13
     DEF EncoderNext, Render, FFmpeg, Copier, Environment

\* An encoder whose Close has returned leaves neither process nor goroutine
\* behind, whether render leaves for a failure of its own with FFmpeg alive, for
\* FFmpeg's death or for the cancelled station, however the connection behaves,
\* and however much the pipes hold (StartEncoder, Encoder.Close).
THEOREM NothingLeftBehindHolds == EncoderSpec => []NothingLeftBehind
<1>1. EncoderInv => NothingLeftBehind
  BY DEF EncoderInv
<1> QED
  BY <1>1, EncoderInitInv, EncoderNextInv, PTL DEF EncoderSpec

-----------------------------------------------------------------------------
(* The pacer *)

\* The places where Stream is; a frame that was sent waits in the last two.
Places == {"idle", "tag", "head", "read", "pace", "sleep"}

Waits == at \in {"pace", "sleep"}

PacerTypeOK ==
  /\ at \in Places
  /\ now \in Nat /\ start \in Nat /\ elapsed \in Nat
  /\ written \in Nat /\ interrupted \in Nat

\* Every frame sent has advanced the pacer, or waits, or had its wait interrupted.
Accounted ==
  Duration * written = elapsed + Duration * interrupted + (IF Waits THEN Duration ELSE 0)

\* The pacer advances past a frame only when the clock has come that far.
ClockKept == elapsed <= (now - start) + Lead

PacerInv == PacerTypeOK /\ Accounted /\ ClockKept

\* One frame more, in time.
LEMMA OneMore ==
  ASSUME NEW n \in Nat
  PROVE  Duration * (n + 1) = Duration * n + Duration /\ Duration * n \in Nat
BY Mp3StreamAssumption

LEMMA PacerInit == Init => PacerInv
BY Mp3StreamAssumption, SMT
   DEF Init, PacerInv, PacerTypeOK, Places, Accounted, ClockKept, Waits

\* Begin, the ends of a track, the tag and the owner leave the pacer alone, and
\* start from and lead to places where nothing waits.
LEMMA OtherSteps ==
  ASSUME PacerInv, UNCHANGED pacerVars, at' \in Places, Waits' <=> Waits
  PROVE  PacerInv'
BY SMT DEF PacerInv, PacerTypeOK, Accounted, ClockKept, Waits, pacerVars

LEMMA Advanced ==
  ASSUME PacerInv, Waits, now >= Deadline, Advance, at' = "head",
         UNCHANGED <<now, start, written, interrupted>>
  PROVE  PacerInv'
<1>1. PacerTypeOK'
  BY Mp3StreamAssumption DEF PacerInv, PacerTypeOK, Places, Advance
<1>2. Accounted'
  BY Mp3StreamAssumption, OneMore
     DEF PacerInv, PacerTypeOK, Accounted, Waits, Advance
<1>3. ClockKept'
  BY Mp3StreamAssumption DEF PacerInv, PacerTypeOK, ClockKept, Deadline, Advance
<1> QED
  BY <1>1, <1>2, <1>3 DEF PacerInv

LEMMA PacerNext == PacerInv /\ [Next]_vars => PacerInv'
<1> SUFFICES ASSUME PacerInv, [Next]_vars PROVE PacerInv'
  OBVIOUS
<1>1. CASE \E s \in Sources \cup {Silence} : Begin(s)
  <2> PICK s \in Sources \cup {Silence} : Begin(s)
    BY <1>1
  <2> QED
    BY OtherSteps DEF Begin, Waits, Places
<1>2. CASE EndCancelled \/ EndSkipped \/ Fails \/ SourceEnds
  BY <1>2, OtherSteps DEF EndCancelled, EndSkipped, Fails, SourceEnds, End, GoesOn, Waits, Places
<1>3. CASE ReadFrame \/ DropHeader
  BY <1>3, OtherSteps DEF ReadFrame, DropHeader, GoesOn, Waits, Places
<1>4. CASE ReadTag
  BY <1>4, OtherSteps DEF ReadTag, End, GoesOn, Waits, Places
<1>5. CASE SendFrame \/ SendSilence
  <2>1. at \in {"head", "read"} /\ at' = "pace" /\ written' = written + 1
        /\ UNCHANGED <<now, start, elapsed, interrupted>>
    BY <1>5 DEF SendFrame, SendSilence, Written, GoesOn
  <2> QED
    BY <2>1, OneMore, Mp3StreamAssumption
       DEF PacerInv, PacerTypeOK, Places, Accounted, ClockKept, Waits
<1>6. CASE WaitOver
  BY <1>6, Advanced DEF WaitOver, Waits
<1>7. CASE TimerFires
  BY <1>7, Advanced DEF TimerFires, Waits
<1>8. CASE Sleep
  BY <1>8, OtherSteps DEF Sleep, Waits, Places
<1>9. CASE WaitInterrupted
  <2>1. at = "sleep" /\ at' = "idle" /\ interrupted' = interrupted + 1
        /\ UNCHANGED <<now, start, elapsed, written>>
    BY <1>9 DEF WaitInterrupted, End
  <2> QED
    BY <2>1, OneMore, Mp3StreamAssumption
       DEF PacerInv, PacerTypeOK, Places, Accounted, ClockKept, Waits
<1>10. CASE Control
  BY <1>10, OtherSteps DEF Control, Waits, PacerInv, PacerTypeOK
<1>11. CASE Reset
  <2>1. at = "idle" /\ at' = at /\ start' = now /\ now' = now
        /\ elapsed' = 0 /\ written' = 0 /\ interrupted' = 0
    BY <1>11 DEF Reset
  <2> QED
    BY <2>1, Mp3StreamAssumption
       DEF PacerInv, PacerTypeOK, Places, Accounted, ClockKept, Waits
<1>12. CASE Tick
  BY <1>12, Mp3StreamAssumption
     DEF Tick, PacerInv, PacerTypeOK, Accounted, ClockKept, Waits
<1>13. CASE UNCHANGED vars
  BY <1>13, OtherSteps DEF vars, Waits, PacerInv, PacerTypeOK
<1> QED
  BY <1>1, <1>2, <1>3, <1>4, <1>5, <1>6, <1>7, <1>8, <1>9, <1>10, <1>11, <1>12, <1>13
     DEF Next, Stream

\* The listener is never further ahead than the lead, one frame, and one for
\* each interrupted wait, whatever is skipped and however late the timers are
\* (pacer.wait, delayFor, advance).
THEOREM AheadBoundedHolds == Spec => []AheadBounded
<1>1. PacerInv => AheadBounded
  BY Mp3StreamAssumption, OneMore
     DEF PacerInv, PacerTypeOK, Accounted, ClockKept, AheadBounded, Waits
<1> QED
  BY <1>1, PacerInit, PacerNext, PTL DEF Spec

-----------------------------------------------------------------------------
(* The frames *)

\* The frame that was sent from byte p.
SizeAt(p) == FrameSize[source.bytes[p + 1]]

\* The frames sent of a track are whole, lie behind each other and before the
\* next byte to be read: no byte is sent twice.
FramesApart ==
  source # Silence =>
    /\ position <= Len(source.bytes) + 1
    /\ \A k \in 1..Len(sent) :
         /\ source.bytes[sent[k]] = "ff" /\ source.bytes[sent[k] + 1] \in DOMAIN FrameSize
         /\ sent[k] + SizeAt(sent[k]) <= IF k = Len(sent) THEN position ELSE sent[k + 1]

\* Behind n frames of a clean track readFrame is where the next one begins.
OnBoundary ==
  Clean(source.bytes) /\ source # Silence => position = 6 * Len(sent) + 1

TrackTypeOK ==
  /\ source \in Sources \cup {Silence} /\ (at = "read" => source # Silence)
  /\ position \in Nat \ {0}
  /\ sent \in Seq(Nat)

TrackInv == TrackTypeOK /\ FramesApart /\ OnBoundary /\ CleanTrackInOrder

LEMMA SourceBytes == \A s \in Sources \cup {Silence} : s.bytes \in Seq(Byte)
<1>1. Silence.bytes = <<>> /\ <<>> \in Seq(Byte)
  BY DEF Silence
<1>2. \A s \in Sources : s.bytes \in Seq(Byte)
  BY Mp3StreamAssumption
<1> QED
  BY <1>1, <1>2

\* What a turn of readFrame takes lies in the source; a frame is a whole one.
LEMMA TurnFacts ==
  ASSUME NEW bytes \in Seq(Byte), NEW p \in Nat \ {0}
  PROVE  LET turn == Turn(bytes, p)
         IN  /\ turn.outcome = "dropped" => turn.bytes \in 1..4 /\ p + turn.bytes <= Len(bytes) + 1
             /\ turn.outcome = "frame" =>
                  /\ bytes[p] = "ff" /\ bytes[p + 1] \in DOMAIN FrameSize
                  /\ turn.bytes = FrameSize[bytes[p + 1]] /\ p + turn.bytes <= Len(bytes) + 1
<1>1. \A b \in DOMAIN FrameSize : FrameSize[b] \in 5..6
  BY DEF FrameSize
<1>2. Len(bytes) \in Nat
  OBVIOUS
<1> QED
  BY <1>1, <1>2 DEF Turn, Found, Dropped, Ended, Behind

LEMMA Sixths ==
  ASSUME NEW n \in Nat, n % 6 = 0
  PROVE  n \div 6 \in Nat /\ n = 6 * (n \div 6)
OBVIOUS

\* In a clean track a turn at a boundary takes the next frame, or is at the end.
LEMMA CleanTurn ==
  ASSUME NEW bytes \in Seq(Byte), Clean(bytes), NEW n \in Nat, 6 * n <= Len(bytes)
  PROVE  LET turn == Turn(bytes, 6 * n + 1)
         IN  \/ turn.outcome = "frame" /\ turn.bytes = 6 /\ 6 * (n + 1) <= Len(bytes)
             \/ turn.outcome = "eof" /\ n = Len(bytes) \div 6
<1> DEFINE m == Len(bytes) \div 6
           p == 6 * n + 1
<1>1. Len(bytes) \in Nat /\ Len(bytes) % 6 = 0
  BY DEF Clean
<1>2. m \in Nat /\ Len(bytes) = 6 * m
  BY <1>1, Sixths
<1>3. \A k \in 0..m - 1 :
        bytes[6 * k + 1] = "ff" /\ bytes[6 * k + 2] = "sync" /\ bytes[6 * k + 3] = "rate"
  BY DEF Clean
<1> HIDE DEF m
<1>4. CASE n = m
  <2>1. p >= Len(bytes)
    BY <1>2, <1>4
  <2> QED
    BY <1>4, <2>1 DEF Turn, Ended, m
<1>5. CASE n # m
  <2>1. n \in 0..m - 1 /\ 6 * (n + 1) <= Len(bytes)
    BY <1>2, <1>5
  <2>2. bytes[p] = "ff" /\ bytes[p + 1] = "sync" /\ bytes[p + 2] = "rate"
    <3>1. p + 1 = 6 * n + 2 /\ p + 2 = 6 * n + 3
      OBVIOUS
    <3> QED
      BY <1>3, <2>1, <3>1
  <2>3. ~(p >= Len(bytes)) /\ ~(p + 2 > Len(bytes)) /\ ~(p + 3 > Len(bytes)) /\ p + 6 - 1 <= Len(bytes)
    BY <1>1, <2>1
  <2>4. "sync" \in DOMAIN FrameSize /\ FrameSize["sync"] = 6
    BY DEF FrameSize
  <2> HIDE DEF p
  <2>5. Turn(bytes, p).outcome = "frame" /\ Turn(bytes, p).bytes = 6
    BY <2>2, <2>3, <2>4 DEF Turn, Found, Behind
  <2> QED
    BY <2>1, <2>5 DEF p
<1> QED
  BY <1>4, <1>5

\* Neither the source nor what was read and sent of it changes.
LEMMA SameTrack ==
  ASSUME TrackInv, UNCHANGED <<source, position, sent>>,
         at' = "read" => source # Silence,
         at' = "idle" /\ result' = "played" => at = "idle" /\ result = "played"
  PROVE  TrackInv'
BY DEF TrackInv, TrackTypeOK, FramesApart, OnBoundary, CleanTrackInOrder, SizeAt

LEMMA BeginTrack ==
  ASSUME TrackInv, NEW s \in Sources \cup {Silence}, Begin(s)
  PROVE  TrackInv'
<1>1. source' = s /\ position' = 1 /\ sent' = <<>> /\ at' \in {"tag", "head"}
  BY DEF Begin
<1>2. source'.bytes \in Seq(Byte)
  BY <1>1, SourceBytes
<1>3. Len(source'.bytes) \in Nat
  BY <1>2
<1>4. sent' \in Seq(Nat) /\ Len(sent') = 0 /\ 6 * 0 + 1 = 1
  BY <1>1
<1>5. TrackTypeOK'
  BY <1>1, <1>4 DEF TrackTypeOK
<1>6. FramesApart'
  BY <1>1, <1>3, <1>4 DEF FramesApart
<1>7. position' = 6 * Len(sent') + 1
  BY <1>1, <1>4
<1>8. OnBoundary'
  BY <1>7 DEF OnBoundary
<1>9. at' # "idle" /\ 1..Len(sent') = {}
  BY <1>1, <1>4
<1>10. CleanTrackInOrder'
  BY <1>9 DEF CleanTrackInOrder
<1> QED
  BY <1>5, <1>6, <1>8, <1>10 DEF TrackInv

LEMMA DropStep ==
  ASSUME TrackInv, DropHeader
  PROVE  TrackInv'
<1> DEFINE bytes == source.bytes
           turn == Turn(bytes, position)
<1>1. /\ at = "read" /\ source # Silence /\ bytes \in Seq(Byte)
      /\ position \in Nat \ {0} /\ sent \in Seq(Nat)
  BY SourceBytes DEF TrackInv, TrackTypeOK, DropHeader
<1>2. /\ turn.outcome = "dropped" /\ position' = position + turn.bytes
      /\ UNCHANGED <<source, sent, at, result>>
  BY DEF DropHeader, NextTurn
<1>3. turn.bytes \in 1..4 /\ position + turn.bytes <= Len(bytes) + 1
  BY <1>1, <1>2, TurnFacts
<1>4. position' \in Nat \ {0} /\ position <= position' /\ position' <= Len(bytes) + 1
  BY <1>1, <1>2, <1>3
<1>5. TrackTypeOK'
  BY <1>2, <1>4 DEF TrackInv, TrackTypeOK
<1>6. FramesApart'
  <2>1. ASSUME NEW k \in 1..Len(sent)
        PROVE  /\ bytes[sent[k]] = "ff" /\ bytes[sent[k] + 1] \in DOMAIN FrameSize
               /\ sent[k] + SizeAt(sent[k]) <= IF k = Len(sent) THEN position' ELSE sent[k + 1]
    <3>1. /\ bytes[sent[k]] = "ff" /\ bytes[sent[k] + 1] \in DOMAIN FrameSize
          /\ sent[k] + SizeAt(sent[k]) <= IF k = Len(sent) THEN position ELSE sent[k + 1]
      BY <1>1 DEF TrackInv, FramesApart
    <3>2. sent[k] \in Nat /\ SizeAt(sent[k]) \in Nat
      BY <1>1, <3>1 DEF SizeAt, FrameSize
    <3> QED
      BY <1>1, <1>4, <3>1, <3>2
  <2> QED
    BY <1>2, <1>4, <2>1 DEF FramesApart, SizeAt
<1>7. ~Clean(bytes)
  <2> SUFFICES ASSUME Clean(bytes) PROVE FALSE
    OBVIOUS
  <2>1. position = 6 * Len(sent) + 1 /\ position <= Len(bytes) + 1
    BY <1>1 DEF TrackInv, OnBoundary, FramesApart
  <2>2. Len(sent) \in Nat /\ 6 * Len(sent) <= Len(bytes)
    BY <1>1, <2>1
  <2> QED
    BY <1>1, <1>2, <2>1, <2>2, CleanTurn
<1> QED
  BY <1>2, <1>5, <1>6, <1>7 DEF TrackInv, OnBoundary, CleanTrackInOrder

LEMMA SendStep ==
  ASSUME TrackInv, SendFrame
  PROVE  TrackInv'
<1> DEFINE bytes == source.bytes
           turn == Turn(bytes, position)
           n == Len(sent)
<1>1. /\ at = "read" /\ source # Silence /\ bytes \in Seq(Byte)
      /\ position \in Nat \ {0} /\ sent \in Seq(Nat) /\ n \in Nat
  BY SourceBytes DEF TrackInv, TrackTypeOK, SendFrame
<1>2. /\ turn.outcome = "frame" /\ position' = position + turn.bytes
      /\ sent' = Append(sent, position) /\ source' = source /\ at' = "pace"
  BY DEF SendFrame, NextTurn, Written
<1>3. /\ bytes[position] = "ff" /\ bytes[position + 1] \in DOMAIN FrameSize
      /\ turn.bytes = FrameSize[bytes[position + 1]] /\ position + turn.bytes <= Len(bytes) + 1
  BY <1>1, <1>2, TurnFacts
<1>4. turn.bytes \in Nat
  BY <1>3 DEF FrameSize
<1>5. /\ sent' \in Seq(Nat) /\ Len(sent') = n + 1 /\ sent'[n + 1] = position
      /\ \A k \in 1..n : sent'[k] = sent[k]
  BY <1>1, <1>2
<1>6. TrackTypeOK'
  BY <1>1, <1>2, <1>4, <1>5 DEF TrackInv, TrackTypeOK
<1>7. FramesApart'
  <2>1. ASSUME NEW k \in 1..n + 1
        PROVE  /\ bytes[sent'[k]] = "ff" /\ bytes[sent'[k] + 1] \in DOMAIN FrameSize
               /\ sent'[k] + SizeAt(sent'[k]) <= IF k = n + 1 THEN position' ELSE sent'[k + 1]
    <3>1. CASE k = n + 1
      BY <1>2, <1>3, <1>4, <1>5, <3>1 DEF SizeAt
    <3>2. CASE k # n + 1
      <4>1. k \in 1..n
        BY <1>1, <2>1, <3>2
      <4>2. /\ bytes[sent[k]] = "ff" /\ bytes[sent[k] + 1] \in DOMAIN FrameSize
            /\ sent[k] + SizeAt(sent[k]) <= IF k = n THEN position ELSE sent[k + 1]
        BY <1>1, <4>1 DEF TrackInv, FramesApart
      <4>3. sent'[k] = sent[k]
        BY <1>5, <4>1
      <4>4. sent'[k + 1] = IF k = n THEN position ELSE sent[k + 1]
        <5>1. CASE k = n
          BY <1>5, <5>1
        <5>2. CASE k # n
          <6>1. k + 1 \in 1..n
            BY <1>1, <4>1, <5>2
          <6> QED
            BY <1>5, <5>2, <6>1
        <5> QED
          BY <5>1, <5>2
      <4> QED
        BY <3>2, <4>2, <4>3, <4>4
    <3> QED
      BY <3>1, <3>2
  <2>2. position' <= Len(bytes) + 1
    BY <1>2, <1>3
  <2> QED
    BY <1>2, <1>5, <2>1, <2>2 DEF FramesApart, SizeAt
<1>8. ASSUME Clean(bytes)
      PROVE  position' = 6 * (n + 1) + 1 /\ \A k \in 1..n + 1 : sent'[k] = 6 * (k - 1) + 1
  <2>1. position = 6 * n + 1 /\ position <= Len(bytes) + 1
    BY <1>1, <1>8 DEF TrackInv, OnBoundary, FramesApart
  <2>2. 6 * n <= Len(bytes)
    BY <1>1, <2>1
  <2>3. turn.bytes = 6
    BY <1>1, <1>2, <1>8, <2>1, <2>2, CleanTurn
  <2>4. \A k \in 1..n : sent[k] = 6 * (k - 1) + 1
    BY <1>1, <1>8 DEF TrackInv, CleanTrackInOrder
  <2>5. position' = 6 * (n + 1) + 1
    BY <1>1, <1>2, <2>1, <2>3
  <2>6. ASSUME NEW k \in 1..n + 1 PROVE sent'[k] = 6 * (k - 1) + 1
    <3>1. CASE k = n + 1
      BY <1>1, <1>5, <2>1, <3>1
    <3>2. CASE k # n + 1
      <4>1. k \in 1..n
        BY <1>1, <2>6, <3>2
      <4> QED
        BY <1>5, <2>4, <4>1
    <3> QED
      BY <3>1, <3>2
  <2> QED
    BY <2>5, <2>6
<1> QED
  BY <1>2, <1>5, <1>6, <1>7, <1>8 DEF TrackInv, OnBoundary, CleanTrackInOrder

LEMMA EndStep ==
  ASSUME TrackInv, SourceEnds
  PROVE  TrackInv'
<1> DEFINE bytes == source.bytes
           turn == Turn(bytes, position)
<1>1. /\ at = "read" /\ source # Silence /\ bytes \in Seq(Byte)
      /\ position \in Nat \ {0} /\ sent \in Seq(Nat)
  BY SourceBytes DEF TrackInv, TrackTypeOK, SourceEnds
<1>2. /\ at' = "idle" /\ UNCHANGED <<source, position, sent>>
      /\ result' = "played" => turn.outcome = "eof"
  BY DEF SourceEnds, NextTurn, End, trackVars
<1>3. ASSUME Clean(bytes), result' = "played" PROVE Len(sent) = Len(bytes) \div 6
  <2>1. position = 6 * Len(sent) + 1 /\ position <= Len(bytes) + 1
    BY <1>1, <1>3 DEF TrackInv, OnBoundary, FramesApart
  <2>2. Len(sent) \in Nat /\ 6 * Len(sent) <= Len(bytes)
    BY <1>1, <2>1
  <2> QED
    BY <1>1, <1>2, <1>3, <2>1, <2>2, CleanTurn
<1> QED
  BY <1>1, <1>2, <1>3 DEF TrackInv, TrackTypeOK, FramesApart, OnBoundary, CleanTrackInOrder, SizeAt

LEMMA TrackInit == Init => TrackInv
BY DEF Init, TrackInv, TrackTypeOK, FramesApart, OnBoundary, CleanTrackInOrder

LEMMA TrackNext == TrackInv /\ [Next]_vars => TrackInv'
<1> SUFFICES ASSUME TrackInv, [Next]_vars PROVE TrackInv'
  OBVIOUS
<1>1. at = "read" => source # Silence
  BY DEF TrackInv, TrackTypeOK
<1>2. CASE EndCancelled \/ EndSkipped \/ Fails
  BY <1>2, SameTrack DEF EndCancelled, EndSkipped, Fails, End, trackVars
<1>3. CASE ReadTag
  BY <1>3, SameTrack DEF ReadTag, End
<1>4. CASE ReadFrame \/ SendSilence
  BY <1>4, SameTrack DEF ReadFrame, SendSilence, Written, trackVars
<1>5. CASE WaitOver \/ Sleep \/ TimerFires \/ WaitInterrupted
  BY <1>5, SameTrack DEF WaitOver, Sleep, TimerFires, WaitInterrupted, End, trackVars
<1>6. CASE Control \/ Reset \/ Tick \/ UNCHANGED vars
  BY <1>1, <1>6, SameTrack DEF Control, Reset, Tick, vars, trackVars
<1> QED
  BY <1>2, <1>3, <1>4, <1>5, <1>6, BeginTrack, DropStep, SendStep, EndStep DEF Next, Stream

\* A track of frames with nothing between them is sent frame by frame, in order
\* and, when it is played to its end, completely: whatever its frames hold, no
\* skip, cancellation or wait makes readFrame lose its place.
THEOREM CleanTrackInOrderHolds == Spec => []CleanTrackInOrder
<1>1. TrackInv => CleanTrackInOrder
  BY DEF TrackInv
<1> QED
  BY <1>1, TrackInit, TrackNext, PTL DEF Spec

\* Of any track, with garbage, false headers and a cut-off end, only whole frames
\* are sent, each behind the one before: no byte is sent twice (readFrame).
THEOREM FramesApartHolds == Spec => []FramesApart
<1>1. TrackInv => FramesApart
  BY DEF TrackInv
<1> QED
  BY <1>1, TrackInit, TrackNext, PTL DEF Spec

=============================================================================
