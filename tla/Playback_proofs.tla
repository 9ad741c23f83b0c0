--------------------------- MODULE Playback_proofs ---------------------------
(***************************************************************************)
(* Proofs about Playback, for every queue limit, command capacity, block   *)
(* size, set of track lengths and set of transitions.                      *)
(***************************************************************************)
EXTENDS Playback, TLAPS

(* What render's local variables have in common: a result belongs to the   *)
(* running preparation, there is room for it, and nothing of a render      *)
(* survives it.                                                            *)
SlotsOK ==
  /\ ready # None => preparing # None
  /\ ready \in Prepared => ready.track = preparing
  /\ preparing # None => nxt = None
  /\ ~Rendering => cur = None /\ nxt = None /\ preparing = None /\ ready = None

\* The files of the slots exist: closing one never takes the count below zero.
FilesOwned == Owned <= pcm

Inv == TypeOK /\ SlotsOK /\ FilesOwned

\* A track, a prepared track and a result are told apart from nil.
LEMMA NotNone ==
  /\ \A t \in Track : t # None
  /\ \A p \in Prepared : p # None /\ p # Failed /\ p # Dropped
  /\ Failed # None /\ Dropped # None
BY MarksAreFresh DEF Results

LEMMA InitInv == Init => Inv
<1> SUFFICES ASSUME Init PROVE Inv
  OBVIOUS
<1>1. TypeOK
  <2>1. phase \in Phases /\ losses \in 0..MaxLosses
    BY MaxLossesIsNat DEF Init, RunInit, Phases
  <2>2. cancelled \in BOOLEAN /\ wakeup \in BOOLEAN
    BY DEF Init, RunInit
  <2>3. RunTypeOK
    BY <2>1, <2>2 DEF RunTypeOK
  <2> QED
    BY <2>3, PlaybackAssumption DEF TypeOK, MusicTypeOK, Init, MusicInit, Track
<1>2. SlotsOK
  BY NotNone DEF SlotsOK, Rendering, Init, RunInit, MusicInit
<1>3. FilesOwned
  BY NotNone DEF FilesOwned, Owned, Count, Init, MusicInit
<1> QED
  BY <1>1, <1>2, <1>3 DEF Inv

\* The flags of the run loop stay Boolean.
LEMMA FlagsStep ==
  ASSUME cancelled \in BOOLEAN, wakeup \in BOOLEAN, [Next]_vars
  PROVE  cancelled' \in BOOLEAN /\ wakeup' \in BOOLEAN
<1>1. CASE Api
  BY <1>1, Zenon DEF Api, ReplaceQueue, Send, Signal, runVars
<1>2. CASE Preparation
  BY <1>2, Zenon DEF Preparation, PrepareOk, PrepareFails, OrphanEnds, runVars
<1>3. CASE PromoteNext \/ Prefetch
  BY <1>3, Zenon DEF PromoteNext, Prefetch, Turn
<1>4. CASE Execute
  BY <1>4, Zenon DEF Execute, Play, Stop, Skip, CloseCurrent, Receive, Turn
<1>5. CASE Result \/ Tick \/ AnnouncementTurn
  BY <1>5, Zenon DEF Result, TrackFailed, TrackReady, Tick, TickSilence, TickMusic,
                     TickEndOfTrack, AnnouncementTurn, Turn
<1>6. CASE Elsewhere
  BY <1>6, Zenon DEF Elsewhere, Cancel, Reconnection, Woken, SignalElsewhere, Signal,
         RunsOn, PeerReacts, Dial, DialFails, Accepted, Refused, EncoderCloses,
         StartEncoder, EncoderFails, BackoffOver, RunEnds
<1>7. CASE Leave
  BY <1>7, Zenon DEF Leave, RenderFails, RenderCancelled
<1>8. CASE UNCHANGED vars
  BY <1>8, Zenon DEF vars, runVars
<1> QED
  BY <1>1, <1>2, <1>3, <1>4, <1>5, <1>6, <1>7, <1>8, Zenon DEF Next

\* The station goroutine stays in its phases, and the losses within their bound.
LEMMA PhaseStep ==
  ASSUME phase \in Phases, losses \in 0..MaxLosses, [Next]_vars
  PROVE  phase' \in Phases /\ losses' \in 0..MaxLosses
<1>1. CASE Api
  BY <1>1 DEF Api, ReplaceQueue, Send, runVars
<1>2. CASE Preparation
  BY <1>2 DEF Preparation, PrepareOk, PrepareFails, OrphanEnds, runVars
<1>3. CASE PromoteNext \/ Prefetch
  BY <1>3 DEF PromoteNext, Prefetch, Turn, Goto, Phases
<1>4. CASE Execute
  BY <1>4 DEF Execute, Play, Stop, Skip, CloseCurrent, Receive, Turn, Goto, Phases
<1>5. CASE Result \/ Tick \/ AnnouncementTurn
  BY <1>5 DEF Result, TrackFailed, TrackReady, Tick, TickSilence, TickMusic, TickEndOfTrack,
              AnnouncementTurn, Turn, Goto, Phases
<1>6. CASE Elsewhere
  BY <1>6 DEF Elsewhere, Cancel, Reconnection, Woken, SignalElsewhere,
         RunsOn, PeerReacts, Dial, DialFails, Accepted, Refused, EncoderCloses,
         StartEncoder, EncoderFails, BackoffOver, RunEnds, Goto, Phases
<1>7. CASE Leave
  BY <1>7, MaxLossesIsNat DEF Leave, RenderFails, RenderCancelled, Goto, Phases
<1>8. CASE UNCHANGED vars
  BY <1>8 DEF vars, runVars
<1> QED
  BY <1>1, <1>2, <1>3, <1>4, <1>5, <1>6, <1>7, <1>8 DEF Next

LEMMA RunTypeStep == RunTypeOK /\ [Next]_vars => RunTypeOK'
BY FlagsStep, PhaseStep, Zenon DEF RunTypeOK

-----------------------------------------------------------------------------

\* Reading a block of a prepared track changes what is left of it, and nothing else.
LEMMA BlockRead ==
  ASSUME NEW p \in Prepared
  PROVE  /\ AfterBlock(p.left) \in Nat
         /\ [p EXCEPT !.left = AfterBlock(@)] \in Prepared
         /\ [p EXCEPT !.left = AfterBlock(@)].track = p.track
         /\ [p EXCEPT !.left = AfterBlock(@)].trans = p.trans
         /\ [p EXCEPT !.left = AfterBlock(@)].left = AfterBlock(p.left)
BY PlaybackAssumption DEF Prepared, AfterBlock

\* The next track stays a prepared track, the same one, whatever is read of it.
LEMMA NextRead ==
  ASSUME nxt \in Prepared
  PROVE  /\ NextAfterBlock \in Prepared
         /\ NextAfterBlock.track = nxt.track
         /\ NextAfterBlock.trans = nxt.trans
BY BlockRead DEF NextAfterBlock

LEMMA NoNextRead ==
  ASSUME nxt = None
  PROVE  NextAfterBlock = None
BY DEF NextAfterBlock, InTransition

\* What a preparation made, or what a slot holds, starts as a track.
LEMMA PreparedTrack ==
  ASSUME NEW p \in Prepared
  PROVE  p.track \in Track /\ p.track.rev \in Nat /\ p.track.pos \in Nat
         /\ p.left \in Nat /\ p.trans.frames \in Nat
BY PlaybackAssumption DEF Prepared, Track

\* The rest of a bounded queue is a bounded queue.
LEMMA QueueRest ==
  ASSUME NEW S, NEW q \in Seq(S), q # <<>>
  PROVE  /\ Head(q) \in S
         /\ Tail(q) \in Seq(S)
         /\ Len(Tail(q)) = Len(q) - 1
         /\ \A i \in 1..Len(q) - 1 : Tail(q)[i] = q[i + 1]
OBVIOUS

LEMMA MusicTypeStep ==
  ASSUME Inv, [Next]_vars
  PROVE  MusicTypeOK'
<1> USE DEF MusicTypeOK
<1>0. MusicTypeOK /\ SlotsOK /\ FilesOwned
  BY DEF Inv, TypeOK
<1>1. CASE Api
  <2>1. ASSUME NEW rev \in 1..MaxRevision, NEW size \in 0..MaxQueueTracks + 1, ReplaceQueue(rev, size)
        PROVE  MusicTypeOK'
    <3>1. \A i \in 1..size : [rev |-> rev, pos |-> i] \in Track
      BY <2>1, PlaybackAssumption DEF Track
    <3>2. queue' \in Seq(Track) /\ Len(queue') <= MaxQueueTracks
      BY <2>1, <3>1, PlaybackAssumption DEF ReplaceQueue, Acceptable
    <3> QED
      BY <1>0, <2>1, <3>2 DEF ReplaceQueue, reportVars, prepVars, fadeVars
  <2>2. ASSUME NEW command \in Commands, Send(command)
        PROVE  MusicTypeOK'
    BY <1>0, <2>2, PlaybackAssumption DEF Send, reportVars, queueVars, prepVars, fadeVars
  <2> QED
    BY <1>1, <2>1, <2>2 DEF Api
<1>2. CASE Preparation
  <2>1. CASE PrepareOk
    <3>1. PICK left \in TrackFrames, trans \in Transitions :
            ready' = [track |-> preparing, left |-> left, trans |-> trans]
      BY <2>1 DEF PrepareOk
    <3>2. ready' \in Results
      BY <1>0, <2>1, <3>1, PlaybackAssumption DEF PrepareOk, PrepareRuns, Results, Prepared
    <3> QED
      BY <1>0, <2>1, <3>2 DEF PrepareOk, reportVars, queueVars, fadeVars
  <2>2. CASE PrepareFails
    BY <1>0, <2>2 DEF PrepareFails, reportVars, queueVars, fadeVars, Results
  <2>3. CASE OrphanEnds
    BY <1>0, <2>3 DEF OrphanEnds, reportVars, queueVars, fadeVars
  <2> QED
    BY <1>2, <2>1, <2>2, <2>3 DEF Preparation
<1>3. CASE PromoteNext
  BY <1>0, <1>3, NotNone, PreparedTrack DEF PromoteNext, Started, FadeReset, Count, reportVars,
     prepVars, fadeVars
<1>4. CASE Prefetch
  <2>1. queue' \in Seq(Track) /\ Len(queue') <= MaxQueueTracks
    <3>1. CASE CanPop /\ queue' = Tail(queue)
      BY <1>0, <3>1, QueueRest, PlaybackAssumption DEF CanPop
    <3>2. CASE queue' = queue
      BY <1>0, <3>2
    <3> QED
      BY <1>4, <3>1, <3>2 DEF Prefetch
  <2>2. preparing' \in Track \cup {None}
    BY <1>0, <1>4, QueueRest DEF Prefetch, CanPop
  <2>3. mode' \in {"idle", "playing", "stopped"}
    BY <1>0, <1>4 DEF Prefetch, ModeWhenEmpty
  <2> QED
    BY <1>0, <1>4, <2>1, <2>2, <2>3 DEF Prefetch, fadeVars
<1>5. CASE Execute
  <2>0. commands' \in Seq(Commands) /\ Len(commands') <= CommandCap
    <3>1. commands # <<>> /\ commands' = Tail(commands)
      BY <1>5 DEF Execute, Play, Stop, Skip, CloseCurrent, Receive
    <3> QED
      BY <1>0, <3>1, QueueRest, PlaybackAssumption
  <2>1. CASE Play
    BY <1>0, <2>0, <2>1 DEF Play, queueVars, prepVars, fadeVars
  <2>2. CASE Stop
    <3>1. pcm - Count(cur # None) \in Nat
      BY <1>0 DEF FilesOwned, Owned, Count
    <3> QED
      BY <1>0, <2>0, <2>2, <3>1 DEF Stop, CloseCurrent, Count, FadeReset, queueVars, prepVars
  <2>3. CASE Skip
    <3>1. cur # None => pcm - 1 \in Nat
      BY <1>0 DEF FilesOwned, Owned, Count
    <3> QED
      BY <1>0, <2>0, <2>3, <3>1 DEF Skip, CloseCurrent, Count, FadeReset, queueVars, prepVars, fadeVars
  <2> QED
    BY <1>5, <2>1, <2>2, <2>3 DEF Execute
<1>6. CASE Result
  <2>1. CASE TrackFailed
    BY <1>0, <2>1 DEF TrackFailed, reportVars, queueVars, fadeVars
  <2>2. CASE TrackReady
    <3>1. pcm - 1 \in Nat
      BY <1>0, <2>2 DEF TrackReady, FilesOwned, Owned, Count
    <3> QED
      BY <1>0, <2>2, <3>1, PreparedTrack DEF TrackReady, Started, NothingStarts, Count, reportVars,
         fadeVars
  <2> QED
    BY <1>6, <2>1, <2>2 DEF Result
<1>7. CASE Tick
  <2>1. CASE TickSilence
    BY <1>0, <2>1 DEF TickSilence, musicVars, reportVars, queueVars, prepVars, fadeVars
  <2>2. CASE TickMusic
    <3>1. cur \in Prepared /\ cur.left \in Nat /\ cur' \in Prepared
      BY <1>0, <2>2, BlockRead, PreparedTrack DEF TickMusic
    <3>2. nxt' \in Prepared \cup {None}
      BY <1>0, <2>2, NextRead, NoNextRead DEF TickMusic
    <3>3. total' \in Nat /\ consumed' \in Nat
      <4>1. TotalAfterBlock \in Nat
        BY <1>0, <3>1, NotNone, PreparedTrack DEF TotalAfterBlock, InTransition
      <4>2. total' \in Nat
        BY <2>2, <4>1 DEF TickMusic
      <4>3. consumed' \in Nat
        BY <1>0, <2>2, PlaybackAssumption DEF TickMusic
      <4> QED
        BY <4>2, <4>3
    <3> QED
      BY <1>0, <2>2, <3>1, <3>2, <3>3 DEF TickMusic, reportVars, queueVars, prepVars
  <2>3. CASE TickEndOfTrack
    <3>1. pcm - 1 \in Nat
      BY <1>0, <2>3 DEF TickEndOfTrack, FilesOwned, Owned, Count
    <3>2. nxt # None => NextAfterBlock \in Prepared /\ nxt.track \in Track
      BY <1>0, NextRead, PreparedTrack
    <3> QED
      BY <1>0, <2>3, <3>1, <3>2 DEF TickEndOfTrack, Started, NothingStarts, FadeReset, Count, prepVars
  <2> QED
    BY <1>7, <2>1, <2>2, <2>3 DEF Tick
<1>8. CASE AnnouncementTurn \/ Elsewhere \/ UNCHANGED vars
  <2>1. UNCHANGED musicVars
    BY <1>8 DEF AnnouncementTurn, Elsewhere, vars
  <2> QED
    BY <1>0, <2>1 DEF musicVars, reportVars, queueVars, prepVars, fadeVars
<1>9. CASE Leave
  <2>1. pcm - Count(cur # None) - Count(nxt # None) \in Nat
    BY <1>0 DEF FilesOwned, Owned, Count
  <2> QED
    BY <1>0, <1>9, <2>1 DEF Leave, Abandon, FadeReset, Count, reportVars, queueVars
<1> QED
  BY <1>1, <1>2, <1>3, <1>4, <1>5, <1>6, <1>7, <1>8, <1>9 DEF Next

-----------------------------------------------------------------------------

\* render's locals are empty outside render, and it is left only by Leave.
LEMMA SlotsStep ==
  ASSUME Inv, [Next]_vars
  PROVE  SlotsOK'
<1>0. MusicTypeOK /\ SlotsOK
  BY DEF Inv, TypeOK
<1> USE DEF SlotsOK, Rendering
<1>1. CASE Api
  BY <1>0, <1>1 DEF Api, ReplaceQueue, Send, runVars, prepVars
<1>2. CASE Preparation
  <2>1. CASE PrepareOk
    <3>1. PICK left \in TrackFrames, trans \in Transitions :
            ready' = [track |-> preparing, left |-> left, trans |-> trans]
      BY <2>1 DEF PrepareOk
    <3>2. ready'.track = preparing /\ preparing # None
      BY <2>1, <3>1 DEF PrepareOk, PrepareRuns
    <3> QED
      BY <1>0, <2>1, <3>2 DEF PrepareOk, runVars
  <2>2. CASE PrepareFails
    BY <1>0, <2>2, MarksAreFresh DEF PrepareFails, PrepareRuns, runVars
  <2>3. CASE OrphanEnds
    BY <1>0, <2>3 DEF OrphanEnds, runVars
  <2> QED
    BY <1>2, <2>1, <2>2, <2>3 DEF Preparation
<1>3. CASE PromoteNext
  BY <1>0, <1>3 DEF PromoteNext, Turn, Goto, prepVars
<1>4. CASE Prefetch
  BY <1>0, <1>4, NotNone DEF Prefetch, WantsTrack, Turn, Goto
<1>5. CASE Execute
  BY <1>0, <1>5 DEF Execute, Play, Stop, Skip, CloseCurrent, Receive, Turn, Goto, prepVars
<1>6. CASE Result
  <2>1. CASE TrackFailed
    BY <1>0, <2>1, NotNone DEF TrackFailed, Turn, Goto
  <2>2. CASE TrackReady
    BY <1>0, <2>2, NotNone DEF TrackReady, Turn, Goto
  <2> QED
    BY <1>6, <2>1, <2>2 DEF Result
<1>7. CASE Tick
  <2>1. CASE TickSilence
    BY <1>0, <2>1 DEF TickSilence, Turn, Goto, musicVars, prepVars
  <2>2. CASE TickMusic
    <3>1. nxt = None => nxt' = None
      BY <2>2, NoNextRead DEF TickMusic
    <3> QED
      BY <1>0, <2>2, <3>1 DEF TickMusic, Turn, Goto, prepVars
  <2>3. CASE TickEndOfTrack
    BY <1>0, <2>3 DEF TickEndOfTrack, Turn, Goto, prepVars
  <2> QED
    BY <1>7, <2>1, <2>2, <2>3 DEF Tick
<1>8. CASE AnnouncementTurn
  BY <1>0, <1>8 DEF AnnouncementTurn, Turn, Goto, musicVars, prepVars
<1>9. CASE Elsewhere
  BY <1>0, <1>9 DEF Elsewhere, Cancel, Reconnection, Woken, SignalElsewhere,
         RunsOn, PeerReacts, Dial, DialFails, Accepted, Refused, EncoderCloses,
         StartEncoder, EncoderFails, BackoffOver, RunEnds, Goto, musicVars, prepVars
<1>10. CASE Leave
  BY <1>10, NotNone DEF Leave, Abandon
<1>11. CASE UNCHANGED vars
  BY <1>0, <1>11 DEF vars, runVars, musicVars, prepVars
<1> QED
  BY <1>1, <1>2, <1>3, <1>4, <1>5, <1>6, <1>7, <1>8, <1>9, <1>10, <1>11 DEF Next

\* Each step opens and closes as many files as its slots gain and lose.
LEMMA FilesStep ==
  ASSUME Inv, [Next]_vars
  PROVE  FilesOwned'
<1>0. /\ MusicTypeOK /\ SlotsOK /\ Owned <= pcm
      /\ pcm \in Nat /\ orphans \in Nat
  BY DEF Inv, TypeOK, FilesOwned, MusicTypeOK
<1> SUFFICES Owned' <= pcm'
  BY DEF FilesOwned
<1> USE DEF Owned, Count
<1>1. CASE Api
  BY <1>0, <1>1 DEF Api, ReplaceQueue, Send, prepVars
<1>2. CASE Preparation
  <2>1. CASE PrepareOk
    BY <1>0, <2>1, NotNone DEF PrepareOk, PrepareRuns
  <2>2. CASE PrepareFails
    BY <1>0, <2>2, NotNone, MarksAreFresh DEF PrepareFails, PrepareRuns
  <2>3. CASE OrphanEnds
    BY <1>0, <2>3 DEF OrphanEnds
  <2> QED
    BY <1>2, <2>1, <2>2, <2>3 DEF Preparation
<1>3. CASE PromoteNext
  BY <1>0, <1>3, NotNone DEF PromoteNext, prepVars
<1>4. CASE Prefetch
  BY <1>0, <1>4 DEF Prefetch
<1>5. CASE Execute
  BY <1>0, <1>5 DEF Execute, Play, Stop, Skip, CloseCurrent, prepVars
<1>6. CASE Result
  <2>1. CASE TrackFailed
    BY <1>0, <2>1, NotNone DEF TrackFailed
  <2>2. CASE TrackReady
    BY <1>0, <2>2, NotNone DEF TrackReady
  <2> QED
    BY <1>6, <2>1, <2>2 DEF Result
<1>7. CASE Tick
  <2>1. CASE TickSilence
    BY <1>0, <2>1 DEF TickSilence, musicVars, prepVars
  <2>2. CASE TickMusic
    <3>1. nxt = None => nxt' = None
      BY <2>2, NoNextRead DEF TickMusic
    <3> QED
      BY <1>0, <2>2, <3>1 DEF TickMusic, prepVars
  <2>3. CASE TickEndOfTrack
    BY <1>0, <2>3 DEF TickEndOfTrack, prepVars
  <2> QED
    BY <1>7, <2>1, <2>2, <2>3 DEF Tick
<1>8. CASE AnnouncementTurn \/ Elsewhere \/ UNCHANGED vars
  BY <1>0, <1>8 DEF AnnouncementTurn, Elsewhere, vars, musicVars, prepVars
<1>9. CASE Leave
  BY <1>0, <1>9, NotNone DEF Leave, Abandon
<1> QED
  BY <1>1, <1>2, <1>3, <1>4, <1>5, <1>6, <1>7, <1>8, <1>9 DEF Next

\* The invariant is inductive.
LEMMA InvStep == Inv /\ [Next]_vars => Inv'
BY RunTypeStep, MusicTypeStep, SlotsStep, FilesStep, Zenon DEF Inv, TypeOK

\* The inductive invariant holds throughout.
THEOREM InvHolds == Spec => []Inv
BY InitInv, InvStep, PTL DEF Spec

\* Every variable of a station's music half keeps to its type; in particular the
\* queue never outgrows MaxQueueTracks, the command channel its capacity, and no
\* decoded file is closed twice (ReplaceQueue, Send, render's closes).
THEOREM TypeCorrect == Spec => []TypeOK
<1>1. Inv => TypeOK
  BY DEF Inv
<1> QED
  BY InvHolds, <1>1, PTL

-----------------------------------------------------------------------------

\* What State() reports follows the track that sounds, step by step.
LEMMA ReportStep ==
  ASSUME Inv, ReportedTrackSounds, [Next]_vars
  PROVE  ReportedTrackSounds'
<1>0. MusicTypeOK
  BY DEF Inv, TypeOK
<1>a. cur # None => cur.track # None
  BY <1>0, NotNone, PreparedTrack DEF MusicTypeOK
<1>b. nxt # None => nxt.track # None /\ NextAfterBlock.track = nxt.track
  BY <1>0, NotNone, PreparedTrack, NextRead DEF MusicTypeOK
<1> USE DEF ReportedTrackSounds
<1>1. CASE Api
  BY <1>1 DEF Api, ReplaceQueue, Send, reportVars
<1>2. CASE Preparation
  BY <1>2 DEF Preparation, PrepareOk, PrepareFails, OrphanEnds, reportVars
<1>3. CASE PromoteNext
  BY <1>3 DEF PromoteNext, Started, reportVars
<1>4. CASE Prefetch
  BY <1>4, <1>a DEF Prefetch, ModeWhenEmpty
<1>5. CASE Execute
  BY <1>5 DEF Execute, Play, Stop, Skip, CloseCurrent
<1>6. CASE Result
  BY <1>6 DEF Result, TrackFailed, TrackReady, CanPlayMusic, Started, NothingStarts, reportVars
<1>7. CASE Tick
  <2>1. CASE TickSilence
    BY <2>1 DEF TickSilence, musicVars, reportVars
  <2>2. CASE TickMusic
    <3>1. cur'.track = cur.track
      BY <1>0, <2>2, BlockRead DEF TickMusic, MusicTypeOK
    <3> QED
      BY <2>2, <3>1 DEF TickMusic, reportVars
  <2>3. CASE TickEndOfTrack
    BY <1>b, <2>3 DEF TickEndOfTrack, Started
  <2> QED
    BY <1>7, <2>1, <2>2, <2>3 DEF Tick
<1>8. CASE AnnouncementTurn \/ Elsewhere \/ UNCHANGED vars
  BY <1>8 DEF AnnouncementTurn, Elsewhere, vars, musicVars, reportVars
<1>9. CASE Leave
  BY <1>9 DEF Leave, Abandon, reportVars
<1> QED
  BY <1>1, <1>2, <1>3, <1>4, <1>5, <1>6, <1>7, <1>8, <1>9 DEF Next

\* While a track sounds, State() names that very track and says "playing", and
\* a stopped station plays nothing (render, trackStarted, the stop command).
THEOREM ReportedTrackSoundsHolds == Spec => []ReportedTrackSounds
<1>1. Init => ReportedTrackSounds
  BY DEF Init, MusicInit, ReportedTrackSounds
<1>2. Inv /\ ReportedTrackSounds /\ [Next]_vars => ReportedTrackSounds'
  BY ReportStep
<1> QED
  BY <1>1, <1>2, InvHolds, PTL DEF Spec

-----------------------------------------------------------------------------

(* What makes FadeEndsWithTrack inductive: before a fade nothing is        *)
(* consumed, and once it runs the current track is within it.              *)
FadeInv ==
  /\ FadeEndsWithTrack
  /\ total = 0 => consumed = 0
  /\ total > 0 => InTransition

\* A fade begins, advances and ends together with the current track.
LEMMA FadeTick ==
  ASSUME Inv, FadeInv, TickMusic
  PROVE  FadeInv'
<1>0. /\ cur \in Prepared /\ cur.left \in Nat
      /\ total \in Nat /\ consumed \in Nat /\ BlockFrames \in Nat \ {0}
  BY PlaybackAssumption, PreparedTrack DEF Inv, TypeOK, MusicTypeOK, TickMusic
<1>1. cur'.left = cur.left - BlockFrames /\ cur'.left > 0 /\ cur' # None
  BY <1>0, BlockRead, NotNone DEF TickMusic, AfterBlock
<1>2. CASE InTransition
  <2>1. nxt \in Prepared /\ nxt.trans.frames \in Nat
    BY <1>2, PreparedTrack DEF InTransition, Inv, TypeOK, MusicTypeOK
  <2>2. nxt' # None /\ nxt'.trans = nxt.trans
    BY <2>1, NextRead, NotNone DEF TickMusic
  <2>3. InTransition'
    BY <1>0, <1>1, <1>2, <2>1, <2>2 DEF InTransition
  <2>4. CASE total = 0
    <3>1. total' = cur.left /\ consumed' = BlockFrames
      BY <1>0, <1>2, <2>1, <2>4 DEF TickMusic, TotalAfterBlock, InTransition, FadeInv
    <3> QED
      BY <1>0, <1>1, <2>2, <2>3, <3>1 DEF FadeInv, FadeEndsWithTrack
  <2>5. CASE total > 0
    <3>1. total' = total /\ consumed' = consumed + BlockFrames /\ consumed + cur.left = total
      BY <1>0, <1>2, <2>5 DEF TickMusic, TotalAfterBlock, FadeInv, FadeEndsWithTrack
    <3> QED
      BY <1>0, <1>1, <2>2, <2>3, <2>5, <3>1 DEF FadeInv, FadeEndsWithTrack
  <2> QED
    BY <1>0, <2>4, <2>5
<1>3. CASE ~InTransition
  <2>1. total = 0 /\ consumed = 0
    BY <1>0, <1>3 DEF FadeInv
  <2> QED
    BY <1>3, <2>1 DEF TickMusic, TotalAfterBlock, FadeInv, FadeEndsWithTrack
<1> QED
  BY <1>2, <1>3

\* No other step touches a fade without ending it.
LEMMA FadeStep ==
  ASSUME Inv, FadeInv, [Next]_vars
  PROVE  FadeInv'
<1>0. SlotsOK /\ total \in Nat
  BY DEF Inv, TypeOK, MusicTypeOK
<1>a. ASSUME UNCHANGED <<cur, nxt, total, consumed>>
      PROVE  FadeInv'
  BY <1>a DEF FadeInv, FadeEndsWithTrack, InTransition
<1>b. ASSUME FadeReset
      PROVE  FadeInv'
  BY <1>b DEF FadeReset, FadeInv, FadeEndsWithTrack
<1>c. ASSUME cur = None \/ nxt = None
      PROVE  total = 0 /\ consumed = 0
  BY <1>0, <1>c DEF FadeInv, FadeEndsWithTrack
<1>1. CASE Api
  BY <1>1, <1>a DEF Api, ReplaceQueue, Send, fadeVars
<1>2. CASE Preparation
  BY <1>2, <1>a DEF Preparation, PrepareOk, PrepareFails, OrphanEnds, fadeVars
<1>3. CASE PromoteNext
  BY <1>3, <1>a, <1>b DEF PromoteNext, fadeVars
<1>4. CASE Prefetch
  BY <1>4, <1>a DEF Prefetch, fadeVars
<1>5. CASE Execute
  BY <1>5, <1>a, <1>b DEF Execute, Play, Stop, Skip, CloseCurrent, fadeVars
<1>6. CASE Result
  <2>1. CASE TrackFailed
    BY <2>1, <1>a DEF TrackFailed, fadeVars
  <2>2. CASE TrackReady
    <3>1. cur = None \/ nxt = None
      BY <1>0, <2>2, NotNone DEF TrackReady, SlotsOK
    <3>2. total' = 0 /\ consumed' = 0
      BY <1>c, <2>2, <3>1 DEF TrackReady, fadeVars
    <3> QED
      BY <1>b, <3>2 DEF FadeReset
  <2> QED
    BY <1>6, <2>1, <2>2 DEF Result
<1>7. CASE Tick
  BY <1>7, <1>a, <1>b, FadeTick DEF Tick, TickSilence, TickEndOfTrack, musicVars, fadeVars
<1>8. CASE AnnouncementTurn \/ Elsewhere \/ UNCHANGED vars
  BY <1>8, <1>a DEF AnnouncementTurn, Elsewhere, vars, musicVars, fadeVars
<1>9. CASE Leave
  BY <1>9, <1>b DEF Leave, Abandon
<1> QED
  BY <1>1, <1>2, <1>3, <1>4, <1>5, <1>6, <1>7, <1>8, <1>9 DEF Next

\* A fade ends exactly with the track it fades out, for every block size, track
\* length and transition (renderMusic's crossfadeTotal and crossfadeConsumed).
THEOREM FadeEndsWithTrackHolds == Spec => []FadeEndsWithTrack
<1>1. Init => FadeInv
  BY DEF Init, MusicInit, FadeInv, FadeEndsWithTrack
<1>2. Inv /\ FadeInv /\ [Next]_vars => FadeInv'
  BY FadeStep
<1>3. FadeInv => FadeEndsWithTrack
  BY DEF FadeInv
<1> QED
  BY <1>1, <1>2, <1>3, InvHolds, PTL DEF Spec

-----------------------------------------------------------------------------

\* Every decoded file has an owner, but for at most one per render that ended:
\* no handler of render leaks one (closePreparedTrack, the deferred closes).
THEOREM FilesAccountedHolds == Spec => []FilesAccounted
<1>1. Init => FilesAccounted
  BY NotNone DEF Init, RunInit, MusicInit, FilesAccounted, Owned, Exits, Count
<1>2. ASSUME Inv, FilesAccounted, [Next]_vars
      PROVE  FilesAccounted'
  <2>0. /\ MusicTypeOK /\ SlotsOK /\ pcm + orphans <= Owned + Exits
        /\ pcm \in Nat /\ orphans \in Nat /\ losses \in Nat
    BY <1>2 DEF Inv, TypeOK, MusicTypeOK, RunTypeOK, FilesAccounted
  <2>1. Owned' <= pcm'
    BY <1>2, FilesStep DEF FilesOwned
  <2> SUFFICES (pcm + orphans)' <= (Owned + Exits)'
    BY <2>1 DEF FilesAccounted
  <2> USE DEF Owned, Exits, Final, Count
  <2>2. CASE Api
    BY <2>0, <2>2 DEF Api, ReplaceQueue, Send, prepVars, runVars
  <2>3. CASE Preparation
    <3>1. CASE PrepareOk
      <4>1. PICK left \in TrackFrames, trans \in Transitions :
              ready' = [track |-> preparing, left |-> left, trans |-> trans]
        BY <3>1 DEF PrepareOk
      <4>2. ready' \in Prepared /\ ~(ready \in Prepared)
        BY <2>0, <3>1, <4>1, NotNone, PlaybackAssumption DEF PrepareOk, PrepareRuns, Prepared,
           MusicTypeOK
      <4> QED
        BY <2>0, <3>1, <4>2 DEF PrepareOk, runVars
    <3>2. CASE PrepareFails
      BY <2>0, <3>2, NotNone, MarksAreFresh DEF PrepareFails, PrepareRuns, runVars
    <3>3. CASE OrphanEnds
      <4>1. UNCHANGED <<cur, nxt, ready, phase, losses>>
        BY <3>3 DEF OrphanEnds, runVars
      <4>2. orphans' = orphans - 1 /\ (pcm' = pcm \/ pcm' = pcm + 1)
        BY <3>3 DEF OrphanEnds
      <4> QED
        BY <2>0, <4>1, <4>2
    <3> QED
      BY <2>3, <3>1, <3>2, <3>3 DEF Preparation
  <2>4. CASE PromoteNext
    BY <2>0, <2>4, NotNone DEF PromoteNext, Turn, Goto, prepVars
  <2>5. CASE Prefetch
    BY <2>0, <2>5 DEF Prefetch, Turn, Goto
  <2>6. CASE Execute
    <3>1. CASE Play
      BY <2>0, <3>1 DEF Play, Receive, Turn, Goto, prepVars
    <3>2. CASE Stop
      BY <2>0, <3>2 DEF Stop, CloseCurrent, Receive, Turn, Goto, prepVars
    <3>3. CASE Skip
      BY <2>0, <3>3 DEF Skip, CloseCurrent, Receive, Turn, Goto, prepVars
    <3> QED
      BY <2>6, <3>1, <3>2, <3>3 DEF Execute
  <2>7. CASE Result
    <3>1. CASE TrackFailed
      BY <2>0, <3>1, NotNone, MarksAreFresh DEF TrackFailed, Turn, Goto
    <3>2. CASE TrackReady
      BY <2>0, <3>2, NotNone DEF TrackReady, Turn, Goto
    <3> QED
      BY <2>7, <3>1, <3>2 DEF Result
  <2>8. CASE Tick
    <3>1. CASE TickSilence
      BY <2>0, <3>1 DEF TickSilence, Turn, Goto, musicVars, prepVars
    <3>2. CASE TickMusic
      <4>1. cur' # None /\ (nxt # None => nxt' # None)
        BY <2>0, <3>2, BlockRead, NextRead, NotNone DEF TickMusic, MusicTypeOK
      <4> QED
        BY <2>0, <3>2, <4>1 DEF TickMusic, Turn, Goto, prepVars
    <3>3. CASE TickEndOfTrack
      <4>1. nxt # None => NextAfterBlock # None
        BY <2>0, NextRead, NotNone DEF MusicTypeOK
      <4> QED
        BY <2>0, <3>3, <4>1 DEF TickEndOfTrack, Turn, Goto, prepVars
    <3> QED
      BY <2>8, <3>1, <3>2, <3>3 DEF Tick
  <2>9. CASE AnnouncementTurn
    BY <2>0, <2>9 DEF AnnouncementTurn, Turn, Goto, musicVars, prepVars
  <2>10. CASE Elsewhere
    BY <2>0, <2>10 DEF Elsewhere, Cancel, Reconnection, Woken, SignalElsewhere,
         RunsOn, PeerReacts, Dial, DialFails, Accepted, Refused, EncoderCloses,
         StartEncoder, EncoderFails, BackoffOver, RunEnds, Goto, musicVars, prepVars
  <2>11. CASE Leave
    BY <2>0, <2>11, NotNone DEF Leave, RenderFails, RenderCancelled, Goto, Abandon, PrepareRuns
  <2>12. CASE UNCHANGED vars
    BY <2>0, <2>12 DEF vars, runVars, musicVars, prepVars
  <2> QED
    BY <1>2, <2>2, <2>3, <2>4, <2>5, <2>6, <2>7, <2>8, <2>9, <2>10, <2>11, <2>12 DEF Next
<1> QED
  BY <1>1, <1>2, InvHolds, PTL DEF Spec

-----------------------------------------------------------------------------

(* The order in which tracks are still to start: the one that started      *)
(* last, the prefetched one, the queue.  All come from revisions received, *)
(* and the queue from the last of them.                                    *)
Prefetched == {t \in Track : (nxt # None /\ t = nxt.track) \/ t = preparing}

LineInv ==
  /\ lastStarted.track.rev <= revision
  /\ \A t \in Prefetched : t.rev <= revision /\ Before(lastStarted.track, t)
  /\ \A i \in 1..Len(queue) :
       /\ queue[i].rev = revision
       /\ \A j \in 1..Len(queue) : i < j => queue[i].pos < queue[j].pos
       /\ Before(lastStarted.track, queue[i])
       /\ \A t \in Prefetched : Before(t, queue[i])
  /\ overtaken <= 1
  /\ (\E t \in Prefetched : t.rev < revision) => overtaken = 0

\* A step that starts nothing and prefetches nothing keeps the line.
LEMMA LineKept ==
  ASSUME LineInv, UNCHANGED <<lastStarted, overtaken, queue, revision>>,
         Prefetched' \subseteq Prefetched
  PROVE  LineInv' /\ (lastStarted' # lastStarted => Before(lastStarted.track, lastStarted'.track))
BY DEF LineInv, Before

\* The prefetched track starts, and nothing is prefetched after it.
LEMMA LineStarts ==
  ASSUME Inv, LineInv, NEW p \in Prepared, p.track \in Prefetched, Started(p),
         Prefetched' = {}, UNCHANGED <<queue, revision>>
  PROVE  LineInv' /\ Before(lastStarted.track, lastStarted'.track)
<1>1. overtaken \in Nat /\ p.track.rev \in Nat /\ revision \in Nat
  BY PreparedTrack DEF Inv, TypeOK, MusicTypeOK
<1>2. lastStarted'.track = p.track /\ overtaken' = overtaken + Count(p.track.rev < revision)
  BY DEF Started
<1>3. overtaken' <= 1
  BY <1>1, <1>2 DEF LineInv, Count
<1> QED
  BY <1>2, <1>3 DEF LineInv

\* A newer queue stands behind whatever was prefetched from the old one.
LEMMA LineReplaced ==
  ASSUME Inv, LineInv, NEW rev \in 1..MaxRevision, NEW size \in 0..MaxQueueTracks + 1,
         ReplaceQueue(rev, size)
  PROVE  LineInv' /\ lastStarted' = lastStarted
<1>1. /\ lastStarted.track \in Track /\ revision \in Nat /\ rev \in Nat /\ rev > revision
      /\ lastStarted' = lastStarted /\ revision' = rev /\ overtaken' = 0
  BY PlaybackAssumption DEF Inv, TypeOK, MusicTypeOK, ReplaceQueue, Acceptable
<1>2. Prefetched' = Prefetched
  BY DEF ReplaceQueue, Prefetched, prepVars
<1>3. Len(queue') = size /\ \A i \in 1..size : queue'[i] = [rev |-> rev, pos |-> i]
  BY PlaybackAssumption DEF ReplaceQueue, Acceptable
<1>4. \A t \in Prefetched : t.rev \in Nat /\ t.rev <= revision
  BY DEF Prefetched, Track, LineInv
<1>5. \A i \in 1..Len(queue') :
        /\ queue'[i].rev = revision'
        /\ \A j \in 1..Len(queue') : i < j => queue'[i].pos < queue'[j].pos
        /\ Before(lastStarted'.track, queue'[i])
        /\ \A t \in Prefetched' : Before(t, queue'[i])
  BY <1>1, <1>2, <1>3, <1>4 DEF Before, Track, LineInv
<1>6. lastStarted'.track.rev <= revision'
  BY <1>1 DEF Track, LineInv
<1>7. \A t \in Prefetched' : t.rev <= revision' /\ Before(lastStarted'.track, t)
  BY <1>1, <1>2, <1>4 DEF LineInv
<1> QED
  BY <1>1, <1>5, <1>6, <1>7 DEF LineInv

\* The head of the queue is prefetched when nothing else is.
LEMMA LinePrefetched ==
  ASSUME Inv, LineInv, Prefetch
  PROVE  LineInv' /\ lastStarted' = lastStarted
<1>0. /\ queue \in Seq(Track) /\ UNCHANGED <<lastStarted, overtaken, revision, nxt>>
      /\ revision \in Nat
  BY DEF Prefetch, Inv, TypeOK, MusicTypeOK
<1>1. CASE WantsTrack /\ queue # <<>> /\ preparing' = Head(queue) /\ queue' = Tail(queue)
  <2>1. /\ Head(queue) \in Track /\ Head(queue) = queue[1] /\ Len(queue) \in Nat \ {0}
        /\ Len(queue') = Len(queue) - 1
        /\ \A i \in 1..Len(queue') : queue'[i] = queue[i + 1]
    BY <1>0, <1>1, QueueRest
  <2>2. Prefetched' = {queue[1]}
    BY <1>0, <1>1, <2>1 DEF Prefetched, WantsTrack
  <2>3. \A i \in 1..Len(queue') : i + 1 \in 1..Len(queue) /\ queue[i + 1] \in Track
    BY <1>0, <2>1
  <2>4. queue[1].rev = revision /\ Before(lastStarted.track, queue[1])
    BY <2>1 DEF LineInv
  <2>5. \A i \in 1..Len(queue') :
          /\ queue[i + 1].rev = revision
          /\ \A j \in 1..Len(queue') : i < j => queue[i + 1].pos < queue[j + 1].pos
          /\ Before(lastStarted.track, queue[i + 1])
          /\ queue[1].pos < queue[i + 1].pos
    BY <2>1, <2>3 DEF LineInv
  <2>6. \A i \in 1..Len(queue') : Before(queue[1], queue[i + 1])
    BY <2>4, <2>5 DEF Before
  <2>7. \A i \in 1..Len(queue') :
          /\ queue'[i].rev = revision
          /\ \A j \in 1..Len(queue') : i < j => queue'[i].pos < queue'[j].pos
          /\ Before(lastStarted.track, queue'[i])
          /\ Before(queue[1], queue'[i])
    BY <2>1, <2>5, <2>6
  <2>8. ~ \E t \in Prefetched' : t.rev < revision
    BY <1>0, <2>2, <2>4
  <2> QED
    BY <1>0, <2>2, <2>4, <2>7, <2>8 DEF LineInv
<1>2. CASE UNCHANGED <<preparing, queue>>
  BY <1>0, <1>2, LineKept DEF Prefetched
<1> QED
  BY <1>1, <1>2 DEF Prefetch, CanPop

\* The line moves on in order.
LEMMA LineStep ==
  ASSUME Inv, LineInv, [Next]_vars
  PROVE  LineInv' /\ (lastStarted' # lastStarted => Before(lastStarted.track, lastStarted'.track))
<1>0. MusicTypeOK /\ SlotsOK
  BY DEF Inv, TypeOK
<1>a. nxt # None => nxt \in Prepared /\ nxt.track \in Prefetched /\ preparing = None
  BY <1>0, PreparedTrack DEF MusicTypeOK, SlotsOK, Prefetched
<1>b. ready \in Prepared => ready.track \in Prefetched /\ nxt = None
  BY <1>0, NotNone, PreparedTrack DEF SlotsOK, Prefetched
<1>c. None \notin Track
  BY NotNone
<1>1. CASE Api
  <2>1. CASE \E rev \in 1..MaxRevision, size \in 0..MaxQueueTracks + 1 : ReplaceQueue(rev, size)
    BY <2>1, LineReplaced
  <2>2. CASE \E command \in Commands : Send(command)
    BY <2>2, LineKept DEF Send, queueVars, prepVars, Prefetched
  <2> QED
    BY <1>1, <2>1, <2>2 DEF Api
<1>2. CASE Preparation
  BY <1>2, LineKept DEF Preparation, PrepareOk, PrepareFails, OrphanEnds, queueVars, Prefetched
<1>3. CASE PromoteNext
  <2>1. CASE UNCHANGED <<nxt, lastStarted, overtaken>>
    BY <1>3, <2>1, LineKept DEF PromoteNext, prepVars, Prefetched
  <2>2. CASE nxt # None /\ Started(nxt) /\ nxt' = None
    <3>1. Prefetched' = {}
      BY <1>3, <1>a, <1>c, <2>2 DEF PromoteNext, prepVars, Prefetched
    <3> QED
      BY <1>3, <1>a, <2>2, <3>1, LineStarts DEF PromoteNext
  <2> QED
    BY <1>3, <2>1, <2>2 DEF PromoteNext
<1>4. CASE Prefetch
  BY <1>4, LinePrefetched
<1>5. CASE Execute
  BY <1>5, LineKept DEF Execute, Play, Stop, Skip, CloseCurrent, queueVars, prepVars, Prefetched
<1>6. CASE Result
  <2>1. CASE TrackFailed
    BY <1>c, <2>1, LineKept DEF TrackFailed, queueVars, Prefetched
  <2>2. CASE TrackReady /\ Started(ready) /\ nxt' = nxt
    <3>1. Prefetched' = {}
      BY <1>b, <1>c, <2>2 DEF TrackReady, Prefetched
    <3> QED
      BY <1>b, <2>2, <3>1, LineStarts DEF TrackReady
  <2>3. CASE TrackReady /\ NothingStarts
    <3>1. Prefetched' \subseteq Prefetched
      BY <1>b, <1>c, <2>3 DEF TrackReady, Prefetched
    <3> QED
      BY <2>3, <3>1, LineKept DEF TrackReady, NothingStarts
  <2> QED
    BY <1>6, <2>1, <2>2, <2>3 DEF Result, TrackReady
<1>7. CASE Tick
  <2>1. CASE TickSilence
    BY <2>1, LineKept DEF TickSilence, musicVars, queueVars, prepVars, Prefetched
  <2>2. CASE TickMusic
    <3>1. Prefetched' \subseteq Prefetched
      BY <1>0, <2>2, NextRead, NoNextRead DEF TickMusic, prepVars, Prefetched, MusicTypeOK
    <3> QED
      BY <2>2, <3>1, LineKept DEF TickMusic, queueVars
  <2>3. CASE TickEndOfTrack /\ nxt # None
    <3>1. Prefetched' = {} /\ Started(nxt)
      BY <1>a, <1>c, <2>3 DEF TickEndOfTrack, prepVars, Prefetched
    <3> QED
      BY <1>a, <2>3, <3>1, LineStarts DEF TickEndOfTrack
  <2>4. CASE TickEndOfTrack /\ nxt = None
    BY <2>4, LineKept DEF TickEndOfTrack, NothingStarts, prepVars, Prefetched
  <2> QED
    BY <1>7, <2>1, <2>2, <2>3, <2>4 DEF Tick
<1>8. CASE AnnouncementTurn \/ Elsewhere \/ UNCHANGED vars
  BY <1>8, LineKept DEF AnnouncementTurn, Elsewhere, vars, musicVars, queueVars, prepVars,
     Prefetched
<1>9. CASE Leave
  BY <1>9, <1>c, LineKept DEF Leave, Abandon, queueVars, Prefetched
<1> QED
  BY <1>1, <1>2, <1>3, <1>4, <1>5, <1>6, <1>7, <1>8, <1>9 DEF Next

LEMMA LineInit == Init => LineInv
BY NotNone DEF Init, MusicInit, LineInv, Prefetched

\* Tracks start in the order the backend queued them and none starts twice, in
\* any number of revisions, skips, stops and reconnections.
THEOREM StartsInOrderHolds == Spec => StartsInOrder
<1>1. Inv /\ LineInv /\ [Next]_vars
      => /\ LineInv'
         /\ [lastStarted' # lastStarted => Before(lastStarted.track, lastStarted'.track)]_vars
  BY LineStep
<1> QED
  BY <1>1, LineInit, InvHolds, PTL DEF Spec, StartsInOrder

\* At most one track of a replaced queue starts after its replacement, the one
\* that had been prefetched (ReplaceQueue leaves render's next alone).
THEOREM OvertakenAtMostOnceHolds == Spec => []OvertakenAtMostOnce
<1>1. Inv /\ LineInv /\ [Next]_vars => LineInv'
  BY LineStep
<1>2. LineInv => OvertakenAtMostOnce
  BY DEF LineInv, OvertakenAtMostOnce
<1> QED
  BY <1>1, <1>2, LineInit, InvHolds, PTL DEF Spec

-----------------------------------------------------------------------------

(* Until a connection is lost, State() names no track that does not sound. *)
ReportInv ==
  /\ IdleUntilLoss
  /\ losses = 0 /\ ~Final /\ cur = None => current = None

\* render waits in its select only after it looked for a track in vain.
LEMMA WaitStep ==
  ASSUME Inv, ReportInv, TrackWakeupPending, [Next]_vars
  PROVE  ReportInv' /\ TrackWakeupPending'
<1>0. /\ MusicTypeOK /\ SlotsOK /\ wakeup \in BOOLEAN /\ losses \in Nat
  BY DEF Inv, TypeOK, RunTypeOK
<1> USE DEF Final
<1>a. ASSUME phase' # "select", losses' = losses, Final => Final',
             UNCHANGED current, cur' = None => cur = None
      PROVE  ReportInv' /\ TrackWakeupPending'
  BY <1>a DEF ReportInv, IdleUntilLoss, TrackWakeupPending
<1>b. ASSUME phase' # "select", cur' = None => current' = None
      PROVE  ReportInv' /\ TrackWakeupPending'
  BY <1>b DEF ReportInv, IdleUntilLoss, TrackWakeupPending
<1>c. ASSUME UNCHANGED <<phase, losses, mode, current, cur, nxt, preparing>>,
             UNCHANGED <<queue, wakeup>> \/ wakeup'
      PROVE  ReportInv' /\ TrackWakeupPending'
  BY <1>c, Zenon DEF ReportInv, IdleUntilLoss, TrackWakeupPending, WantsTrack, CanPop, CanPlayMusic
<1>1. CASE Api
  BY <1>1, <1>c DEF Api, ReplaceQueue, Send, Signal, runVars, reportVars, queueVars, prepVars
<1>2. CASE Preparation
  BY <1>2, <1>c DEF Preparation, PrepareOk, PrepareFails, OrphanEnds, runVars, reportVars,
     queueVars
<1>3. CASE PromoteNext
  <2>1. phase' = "prefetch" /\ ~Final /\ UNCHANGED losses
    BY <1>3 DEF PromoteNext, Turn, Goto
  <2>2. cur' = None => UNCHANGED <<current, cur>>
    BY <1>3 DEF PromoteNext, reportVars
  <2> QED
    BY <2>1, <2>2 DEF ReportInv, IdleUntilLoss, TrackWakeupPending
<1>4. CASE Prefetch
  <2>1. UNCHANGED <<losses, current, cur, nxt>> /\ ~Final
    BY <1>4 DEF Prefetch, Turn, Goto
  <2>2. TrackWakeupPending'
    BY <1>0, <1>4, NotNone, QueueRest DEF Prefetch, TrackWakeupPending, WantsTrack, CanPop,
       CanPlayMusic, ModeWhenEmpty, MusicTypeOK
  <2>3. losses = 0 /\ cur = None => current = None
    BY <2>1 DEF ReportInv
  <2>4. (cur = None /\ nxt = None /\ preparing' = None /\ current = None) => mode' # "playing"
    BY <1>0, <1>4, NotNone, QueueRest DEF Prefetch, WantsTrack, CanPop, CanPlayMusic, ModeWhenEmpty, MusicTypeOK
  <2> QED
    BY <2>1, <2>2, <2>3, <2>4 DEF ReportInv, IdleUntilLoss
<1>5. CASE Execute
  BY <1>5, <1>a, <1>b DEF Execute, Play, Stop, Skip, CloseCurrent, Receive, Turn, Goto
<1>6. CASE Result
  <2>1. CASE TrackFailed
    BY <2>1, <1>a DEF TrackFailed, Turn, Goto, reportVars
  <2>2. CASE TrackReady
    BY <2>2, <1>a, NotNone DEF TrackReady, Turn, Goto, Started, NothingStarts, reportVars,
       ReportInv, IdleUntilLoss, TrackWakeupPending
  <2> QED
    BY <1>6, <2>1, <2>2 DEF Result
<1>7. CASE Tick
  <2>1. CASE TickSilence
    BY <2>1, <1>a DEF TickSilence, Turn, Goto, musicVars, reportVars
  <2>2. CASE TickMusic
    <3>1. cur' # None
      BY <1>0, <2>2, BlockRead, NotNone DEF TickMusic, MusicTypeOK
    <3> QED
      BY <2>2, <3>1, <1>a DEF TickMusic, Turn, Goto, reportVars
  <2>3. CASE TickEndOfTrack
    <3>1. nxt # None => NextAfterBlock # None
      BY <1>0, NextRead, NotNone DEF MusicTypeOK
    <3> QED
      BY <2>3, <3>1, <1>b DEF TickEndOfTrack, Turn, Goto
  <2> QED
    BY <1>7, <2>1, <2>2, <2>3 DEF Tick
<1>8. CASE AnnouncementTurn
  BY <1>8, <1>a DEF AnnouncementTurn, Turn, Goto, musicVars, reportVars
<1>9. CASE Elsewhere
  <2>1. UNCHANGED <<queue, mode, current, cur, nxt, preparing>>
    BY <1>9 DEF Elsewhere, musicVars, reportVars, queueVars, prepVars
  <2>2. CASE Cancel \/ SignalElsewhere
    BY <2>1, <2>2, <1>c DEF Cancel, SignalElsewhere, Signal
  <2>3. CASE Reconnection \/ Woken
    <3>1. phase' # "select" /\ losses' = losses /\ (Final => Final')
      BY <2>3 DEF Reconnection, Woken, RunsOn, PeerReacts, Dial, DialFails,
         Accepted, Refused, EncoderCloses, StartEncoder, EncoderFails, BackoffOver, RunEnds, Goto
    <3> QED
      BY <2>1, <3>1, <1>a
  <2> QED
    BY <1>9, <2>2, <2>3 DEF Elsewhere
<1>10. CASE Leave
  BY <1>0, <1>10 DEF Leave, RenderFails, RenderCancelled, Goto, ReportInv, IdleUntilLoss,
     TrackWakeupPending
<1>11. CASE UNCHANGED vars
  BY <1>11, <1>c DEF vars, runVars, musicVars, reportVars, queueVars, prepVars
<1> QED
  BY <1>1, <1>2, <1>3, <1>4, <1>5, <1>6, <1>7, <1>8, <1>9, <1>10, <1>11 DEF Next

LEMMA WaitInit == Init => ReportInv /\ TrackWakeupPending
BY DEF Init, RunInit, MusicInit, ReportInv, IdleUntilLoss, TrackWakeupPending

\* Until a connection is lost, a render that plays nothing says so (popQueue).
THEOREM IdleUntilLossHolds == Spec => []IdleUntilLoss
<1>1. Inv /\ ReportInv /\ TrackWakeupPending /\ [Next]_vars => ReportInv' /\ TrackWakeupPending'
  BY WaitStep
<1>2. ReportInv => IdleUntilLoss
  BY DEF ReportInv
<1> QED
  BY <1>1, <1>2, WaitInit, InvHolds, PTL DEF Spec

\* No wake-up is missed: a queue that arrives while render waits leaves a token
\* behind, whatever happened between the look at the queue and the select.
THEOREM TrackWakeupPendingHolds == Spec => []TrackWakeupPending
<1>1. Inv /\ ReportInv /\ TrackWakeupPending /\ [Next]_vars => ReportInv' /\ TrackWakeupPending'
  BY WaitStep
<1> QED
  BY <1>1, WaitInit, InvHolds, PTL DEF Spec

==============================================================================
