------------------------------ MODULE Playback ------------------------------
(***************************************************************************)
(* The music half of a station: the queue the backend replaces, the play,  *)
(* stop and skip commands, and the part of render that prefetches, starts, *)
(* fades and finishes tracks.                                              *)
(*                                                                         *)
(* A track is named by the revision of the queue that brought it and its   *)
(* position there; which object it plays is data.  A prepared track        *)
(* carries the frames its reader still has and its transitionIn.           *)
(***************************************************************************)
EXTENDS RunLoop, Sequences

CONSTANTS
  None,             \* "no track": nil
  Failed, Dropped,  \* a preparation that sent an error, or sent nothing at all
  MaxQueueTracks,   \* playlist.MaxQueueTracks
  CommandCap,       \* capacity of the command channel
  MaxRevision,      \* bound: the highest revision the backend sends
  BlockFrames,      \* audio.BlockFrames: frames rendered by one tick
  TrackFrames,      \* the lengths a decoded track may have
  Transitions       \* the normalised transitions a track may ask for

VARIABLES
  mode, current,    \* what State() reports: Station.mode and Station.current
  queue, revision,
  commands,         \* the buffered command channel
  cur, nxt,         \* render's current and next: prepared tracks, or None
  preparing,        \* the track popped for the running preparation, or None
  ready,            \* the slot of the trackReady channel, see Results
  total, consumed,  \* crossfadeTotal and crossfadeConsumed
  pcm,              \* decoded track files that exist on disk
  orphans,          \* running preparations whose render is gone
  lastStarted,      \* history: the track that started last, the count-th start
  overtaken         \* history: starts of replaced tracks since the last replacement

reportVars == <<mode, current>>
queueVars  == <<queue, revision, overtaken>>
prepVars   == <<preparing, ready, orphans>>
fadeVars   == <<total, consumed>>
musicVars  == <<reportVars, queueVars, commands, cur, nxt, prepVars, fadeVars, pcm, lastStarted>>
vars       == <<runVars, musicVars>>

-----------------------------------------------------------------------------

Track == [rev : Nat, pos : Nat]

Kinds == {"cut", "fade", "crossfade"}

ASSUME PlaybackAssumption ==
  /\ MaxQueueTracks \in Nat
  /\ CommandCap \in Nat
  /\ MaxRevision \in Nat
  /\ BlockFrames \in Nat \ {0}
  /\ TrackFrames \subseteq Nat \ {0}
  /\ Transitions \subseteq [kind : Kinds, frames : Nat]

Prepared == [track : Track, left : Nat, trans : Transitions]

\* A preparation sends an error or a prepared track; under a done context it
\* may close its result and send nothing.
Results == {Failed, Dropped} \cup Prepared

ASSUME MarksAreFresh ==
  /\ None \notin Track \cup Results
  /\ Failed \notin Prepared /\ Dropped \notin Prepared

Commands == {"play", "stop", "skip"}

Before(a, b) == a.rev < b.rev \/ (a.rev = b.rev /\ a.pos < b.pos)

MusicTypeOK ==
  /\ mode \in {"idle", "playing", "stopped"}
  /\ current \in Track \cup {None}
  /\ queue \in Seq(Track) /\ Len(queue) <= MaxQueueTracks
  /\ revision \in 0..MaxRevision
  /\ commands \in Seq(Commands) /\ Len(commands) <= CommandCap
  /\ cur \in Prepared \cup {None}
  /\ nxt \in Prepared \cup {None}
  /\ preparing \in Track \cup {None}
  /\ ready \in Results \cup {None}
  /\ total \in Nat /\ consumed \in Nat
  /\ pcm \in Nat /\ orphans \in Nat
  /\ lastStarted \in [track : Track, count : Nat]
  /\ overtaken \in Nat

TypeOK == RunTypeOK /\ MusicTypeOK

MusicInit ==
  /\ mode = "idle" /\ current = None
  /\ queue = <<>> /\ revision = 0 /\ overtaken = 0
  /\ commands = <<>>
  /\ cur = None /\ nxt = None
  /\ preparing = None /\ ready = None /\ orphans = 0
  /\ total = 0 /\ consumed = 0
  /\ pcm = 0
  /\ lastStarted = [track |-> [rev |-> 0, pos |-> 0], count |-> 0]

Init == RunInit /\ MusicInit

-----------------------------------------------------------------------------
(* Calls of the HTTP handlers, at any point of the render goroutine. *)

\* Mutant: the revision is not checked.
NotTooLong(rev, size) == size <= MaxQueueTracks

\* A queue that is too long or not newer is refused.
Acceptable(rev, size) == size <= MaxQueueTracks /\ rev > revision

\* Mutant: the new queue is put behind the old one.
AppendQueue(rev, size) ==
  /\ Acceptable(rev, size)
  /\ queue' = queue \o [i \in 1..size |-> [rev |-> rev, pos |-> i]]
  /\ revision' = rev
  /\ overtaken' = 0
  /\ Signal
  /\ UNCHANGED <<phase, cancelled, losses, reportVars, commands, cur, nxt, prepVars,
                 fadeVars, pcm, lastStarted>>

\* ReplaceQueue: a refused queue changes nothing, nor does one with an invalid
\* track.
ReplaceQueue(rev, size) ==
  /\ Acceptable(rev, size)
  /\ queue' = [i \in 1..size |-> [rev |-> rev, pos |-> i]]
  /\ revision' = rev
  /\ overtaken' = 0
  /\ Signal
  /\ UNCHANGED <<phase, cancelled, losses, reportVars, commands, cur, nxt, prepVars,
                 fadeVars, pcm, lastStarted>>

\* Send: a non-blocking send; a full channel refuses the command.
Send(command) ==
  /\ Len(commands) < CommandCap
  /\ commands' = Append(commands, command)
  /\ UNCHANGED <<runVars, reportVars, queueVars, cur, nxt, prepVars, fadeVars, pcm, lastStarted>>

-----------------------------------------------------------------------------
(* The top of render's loop. *)

CanPlayMusic == mode # "stopped"

\* Mutant: the mode is left as it was.
StartedQuietly(p) ==
  /\ current' = p.track /\ UNCHANGED mode
  /\ lastStarted' = [track |-> p.track, count |-> lastStarted.count + 1]
  /\ overtaken' = overtaken + Count(p.track.rev < revision)

\* trackStarted(p.track)
Started(p) ==
  /\ current' = p.track
  /\ mode' = "playing"
  /\ lastStarted' = [track |-> p.track, count |-> lastStarted.count + 1]
  /\ overtaken' = overtaken + Count(p.track.rev < revision)

NothingStarts == UNCHANGED <<lastStarted, overtaken>>

\* Mutant: the fade of a track that is gone is kept.
FadeKept == UNCHANGED fadeVars

FadeReset == total' = 0 /\ consumed' = 0

\* Mutant: the prefetched track stays the next one.
PromoteCopy ==
  /\ Turn("promote", "prefetch")
  /\ IF cur = None /\ nxt # None /\ CanPlayMusic
     THEN Started(nxt) /\ cur' = nxt /\ FadeReset
     ELSE UNCHANGED <<reportVars, overtaken, cur, fadeVars, lastStarted>>
  /\ UNCHANGED <<queue, revision, commands, nxt, prepVars, pcm>>

\* A prefetched track starts as soon as nothing plays and music may play.
PromoteNext ==
  /\ Turn("promote", "prefetch")
  /\ IF cur = None /\ nxt # None /\ CanPlayMusic
     THEN Started(nxt) /\ cur' = nxt /\ nxt' = None /\ FadeReset
     ELSE UNCHANGED <<reportVars, overtaken, cur, nxt, fadeVars, lastStarted>>
  /\ UNCHANGED <<queue, revision, commands, prepVars, pcm>>

\* startTrackPrepare's early returns.
WantsTrack ==
  /\ preparing = None /\ nxt = None
  /\ cur # None \/ CanPlayMusic

\* popQueue has a track to give.
CanPop == CanPlayMusic /\ queue # <<>>

\* Mutant: an empty queue is not noticed.
ModeKept == mode

\* popQueue without a track to give.
ModeWhenEmpty == IF CanPlayMusic /\ current = None THEN "idle" ELSE mode

Prefetch ==
  /\ Turn("prefetch", "select")
  /\ \/ /\ WantsTrack /\ CanPop
        /\ preparing' = Head(queue)
        /\ queue' = Tail(queue)
        /\ UNCHANGED mode
     \/ /\ WantsTrack /\ ~CanPop
        /\ mode' = ModeWhenEmpty
        /\ UNCHANGED <<preparing, queue>>
     \/ /\ ~WantsTrack
        /\ UNCHANGED <<preparing, queue, mode>>
  /\ UNCHANGED <<current, revision, overtaken, commands, cur, nxt, ready, orphans, fadeVars,
                 pcm, lastStarted>>

-----------------------------------------------------------------------------
(* The preparation goroutine: resolve the object, decode it, open the PCM. *)

PrepareRuns == preparing # None /\ ready = None

PrepareOk ==
  /\ PrepareRuns
  /\ \E left \in TrackFrames, trans \in Transitions :
       ready' = [track |-> preparing, left |-> left, trans |-> trans]
  /\ pcm' = pcm + 1
  /\ UNCHANGED <<runVars, reportVars, queueVars, commands, cur, nxt, preparing, orphans,
                 fadeVars, lastStarted>>

\* An error is sent; or the context is done and what was made is closed.
PrepareFails ==
  /\ PrepareRuns
  /\ ready' \in IF cancelled THEN {Failed, Dropped} ELSE {Failed}
  /\ UNCHANGED <<runVars, reportVars, queueVars, commands, cur, nxt, preparing, orphans,
                 fadeVars, pcm, lastStarted>>

\* A preparation that outlived its render sends into a channel nobody reads:
\* a decoded file stays, unless the preparation failed or saw the done context.
OrphanEnds ==
  /\ orphans > 0
  /\ orphans' = orphans - 1
  /\ pcm' \in {pcm, pcm + 1}
  /\ UNCHANGED <<runVars, reportVars, queueVars, commands, cur, nxt, preparing, ready,
                 fadeVars, lastStarted>>

-----------------------------------------------------------------------------
(* The cases of render's select. *)

\* The next command of the channel, of the given type.
Receive(command) ==
  /\ Turn("select", "promote")
  /\ commands # <<>> /\ Head(commands) = command
  /\ commands' = Tail(commands)

Play ==
  /\ Receive("play")
  /\ mode' = IF mode = "stopped" THEN "idle" ELSE mode
  /\ UNCHANGED <<current, queueVars, cur, nxt, prepVars, fadeVars, pcm, lastStarted>>

\* Mutant: the reader is dropped with its file open.
ForgetCurrent == cur' = None /\ UNCHANGED pcm

\* closePreparedTrack(current); current = nil
CloseCurrent == cur' = None /\ pcm' = pcm - Count(cur # None)

\* Stop closes the current track; a prefetched one is kept.
Stop ==
  /\ Receive("stop")
  /\ mode' = "stopped" /\ current' = None
  /\ CloseCurrent
  /\ FadeReset
  /\ UNCHANGED <<queueVars, nxt, prepVars, lastStarted>>

\* Skip leaves the mode alone, and does nothing when no track plays.
Skip ==
  /\ Receive("skip")
  /\ IF cur # None
     THEN current' = None /\ CloseCurrent /\ FadeReset
     ELSE UNCHANGED <<current, cur, pcm, fadeVars>>
  /\ UNCHANGED <<mode, queueVars, nxt, prepVars, lastStarted>>

\* Mutant: the track that failed is prepared again.
TrackRetried ==
  /\ Turn("select", "promote")
  /\ ready = Failed
  /\ ready' = None
  /\ UNCHANGED <<reportVars, queueVars, commands, cur, nxt, preparing, orphans, fadeVars, pcm,
                 lastStarted>>

TrackFailed ==
  /\ Turn("select", "promote")
  /\ ready = Failed
  /\ preparing' = None /\ ready' = None
  /\ UNCHANGED <<reportVars, queueVars, commands, cur, nxt, orphans, fadeVars, pcm, lastStarted>>

\* A prepared track starts, waits as the next one, or is discarded.
TrackReady ==
  /\ Turn("select", "promote")
  /\ ready \in Prepared
  /\ preparing' = None /\ ready' = None
  /\ IF cur = None /\ CanPlayMusic
     THEN cur' = ready /\ Started(ready) /\ UNCHANGED <<nxt, pcm>>
     ELSE /\ IF nxt = None
             THEN nxt' = ready /\ UNCHANGED pcm
             ELSE pcm' = pcm - 1 /\ UNCHANGED nxt
          /\ NothingStarts /\ UNCHANGED <<reportVars, cur>>
  /\ UNCHANGED <<queue, revision, commands, orphans, fadeVars>>

\* ReadFrames(BlockFrames): what the reader has left after one block.
AfterBlock(left) == IF left > BlockFrames THEN left - BlockFrames ELSE 0

\* renderMusic's inTransition.
InTransition ==
  /\ nxt # None
  /\ nxt.trans.kind # "cut"
  /\ nxt.trans.frames > 0
  /\ cur.left <= nxt.trans.frames

\* renderMusic reads a block of the current track and, in a crossfade, one of
\* the next, which starts when it takes over with what its reader has left.
NextAfterBlock ==
  IF InTransition /\ nxt.trans.kind = "crossfade"
  THEN [nxt EXCEPT !.left = AfterBlock(@)]
  ELSE nxt

\* The length of the transition is fixed by the tick that begins it.
TotalAfterBlock ==
  IF InTransition /\ total = 0
  THEN IF nxt.trans.frames <= cur.left THEN nxt.trans.frames ELSE cur.left
  ELSE total

TickSilence ==
  /\ Turn("select", "promote")
  /\ cur = None
  /\ UNCHANGED musicVars

TickMusic ==
  /\ Turn("select", "promote")
  /\ cur # None
  /\ AfterBlock(cur.left) > 0
  /\ cur' = [cur EXCEPT !.left = AfterBlock(@)]
  /\ nxt' = NextAfterBlock
  /\ total' = TotalAfterBlock
  /\ consumed' = consumed + (IF InTransition THEN BlockFrames ELSE 0)
  /\ UNCHANGED <<reportVars, queueVars, commands, prepVars, pcm, lastStarted>>

\* The block was the last one: the next track takes over, or silence.
TickEndOfTrack ==
  /\ Turn("select", "promote")
  /\ cur # None
  /\ AfterBlock(cur.left) = 0
  /\ pcm' = pcm - 1
  /\ \/ /\ nxt # None
        /\ cur' = NextAfterBlock /\ nxt' = None
        /\ Started(nxt)
     \/ /\ nxt = None
        /\ cur' = None /\ UNCHANGED nxt
        /\ current' = None
        /\ mode' = IF mode = "stopped" THEN mode ELSE "idle"
        /\ NothingStarts
  /\ FadeReset
  /\ UNCHANGED <<queue, revision, commands, prepVars>>

Tick == TickSilence \/ TickMusic \/ TickEndOfTrack

\* render's deferred closes; what the two channels and the preparation hold is
\* left behind, and so is what State() reports.
Abandon ==
  /\ cur' = None /\ nxt' = None
  /\ preparing' = None /\ ready' = None
  /\ orphans' = orphans + Count(PrepareRuns)
  /\ pcm' = pcm - Count(cur # None) - Count(nxt # None)
  /\ FadeReset
  /\ UNCHANGED <<reportVars, queueVars, commands, lastStarted>>

-----------------------------------------------------------------------------

Api ==
  \/ \E rev \in 1..MaxRevision, size \in 0..MaxQueueTracks + 1 : ReplaceQueue(rev, size)
  \/ \E command \in Commands : Send(command)

Preparation == PrepareOk \/ PrepareFails \/ OrphanEnds

Execute == Play \/ Stop \/ Skip

Result == TrackFailed \/ TrackReady

\* The select took a prepared announcement, or the failure of one.
AnnouncementTurn == Turn("select", "promote") /\ UNCHANGED musicVars

\* Steps of the run loop that leave the music alone.
Elsewhere == (Cancel \/ Reconnection \/ Woken \/ SignalElsewhere) /\ UNCHANGED musicVars

Leave == (RenderFails \/ RenderCancelled) /\ Abandon

Next ==
  \/ Api
  \/ Preparation
  \/ PromoteNext \/ Prefetch
  \/ Execute \/ Result \/ Tick \/ AnnouncementTurn
  \/ Elsewhere \/ Leave

Spec == Init /\ [][Next]_vars

-----------------------------------------------------------------------------
(* Properties *)

\* While a track sounds, State() says "playing" and names that very track; in
\* particular a stopped station plays nothing (render, trackStarted, Stop).
ReportedTrackSounds ==
  /\ cur # None => mode = "playing" /\ current = cur.track
  /\ mode = "stopped" => cur = None /\ current = None

\* Each start, which lastStarted counts, is that of a track the backend queued
\* after the one before, revision by revision, so that no track starts twice,
\* not even at once: not through a replacement, a skip, a stop and play, nor a
\* reconnection (popQueue, PromoteNext, TrackReady, the tick).
StartsInOrder ==
  [][lastStarted' # lastStarted => Before(lastStarted.track, lastStarted'.track)]_vars

\* README: replacing the queue does not touch the current track.  At most one
\* track of a replaced queue starts after the replacement: the prefetched one.
OvertakenAtMostOnce == overtaken <= 1

\* A fade ends exactly with the track it fades out: the frames it still has to
\* render are those of the current track, so that consumed / total, the gain's
\* progress, never passes 1 and no stop or skip leaves a stale count behind.
FadeEndsWithTrack ==
  total > 0 =>
    /\ cur # None /\ nxt # None
    /\ cur.left > 0
    /\ consumed + cur.left = total

\* render's failed or cancelled exits.
Exits == losses + Count(Final)

\* Decoded files that a slot of the current render answers for.
Owned == Count(cur # None) + Count(nxt # None) + Count(ready \in Prepared)

\* Every decoded file has an owner that will close it, but for at most one per
\* render that ended: its running preparation, or the result nobody received.
FilesAccounted ==
  /\ Owned <= pcm
  /\ pcm + orphans <= Owned + Exits

\* No wake-up is missed: when render waits in its select although the queue has
\* a track it could be preparing, a token is there to make it look again
\* (ReplaceQueue, signal, startTrackPrepare).
TrackWakeupPending ==
  (phase = "select" /\ WantsTrack /\ CanPop) => wakeup

\* Until a connection is lost, a render with nothing to play and nothing in
\* preparation has told so: after the last track ended, failed or was skipped,
\* the mode is "idle" or "stopped" (popQueue, setCurrent).
IdleUntilLoss ==
  (losses = 0 /\ phase = "select" /\ cur = None /\ nxt = None /\ preparing = None)
    => mode # "playing" /\ current = None

=============================================================================
