------------------------------ MODULE Station ------------------------------
(***************************************************************************)
(* One station: the music and the announcements halves of render, run by   *)
(* one goroutine that shares its phase, its context and its wake-up token. *)
(* The halves are composed by conjoining the parts of one turn; a case of  *)
(* the select that belongs to one half leaves the other alone.             *)
(***************************************************************************)
EXTENDS RunLoop, Sequences, FiniteSets

CONSTANTS None, Failed, Dropped,
          MaxQueueTracks, CommandCap, MaxRevision, BlockFrames, TrackFrames, Transitions,
          CommandId, AnnouncementCap, AnnBlocks

VARIABLES mode, current, queue, revision, commands, cur, nxt, preparing, ready,
          total, consumed, pcm, orphans, lastStarted, overtaken,
          announcements, seenCommands, currentAnn, ann, annPreparing, annReady,
          annPcm, annOrphans, finished

P == INSTANCE Playback
A == INSTANCE Announcements

ASSUME StationAssumption == None \notin P!Track \cup CommandId

musicVars == <<mode, current, queue, revision, commands, cur, nxt, preparing, ready,
               total, consumed, pcm, orphans, lastStarted, overtaken>>
annVars   == <<announcements, seenCommands, currentAnn, ann, annPreparing, annReady,
               annPcm, annOrphans, finished>>
vars      == <<runVars, musicVars, annVars>>

Init == RunInit /\ P!MusicInit /\ A!AnnInit

Unchanged == UNCHANGED <<musicVars, annVars>>

\* What only the music half does: handlers, preparations, cases of the select.
MusicOnly ==
  /\ P!Api \/ P!Preparation \/ P!Execute \/ P!Result
  /\ UNCHANGED annVars

AnnouncementsOnly ==
  /\ \/ \E id \in CommandId : A!AddAnnouncement(id)
     \/ A!AnnPreparation \/ A!AnnFailed \/ A!AnnStarts
  /\ UNCHANGED musicVars

\* Mutant: a stopped station starts no announcement.
LoopTopWhilePlaying ==
  \/ P!PromoteNext /\ A!AnnPromote
  \/ /\ P!Prefetch
     /\ IF P!CanPlayMusic THEN A!AnnPrefetch ELSE UNCHANGED annVars

\* Mutant: a turn that starts the preparation of a track starts no other.
LoopTopOneAtATime ==
  \/ P!PromoteNext /\ A!AnnPromote
  \/ /\ P!Prefetch
     /\ IF preparing' = preparing THEN A!AnnPrefetch ELSE UNCHANGED annVars

\* The loop promotes the prefetched track and starts both preparations.
LoopTop ==
  \/ P!PromoteNext /\ A!AnnPromote
  \/ P!Prefetch /\ A!AnnPrefetch

\* One tick renders a block of both halves into the encoder.
Tick == P!Tick /\ (A!AnnTick \/ A!AnnEnds)

\* render returns: both halves are abandoned.
Leave == (RenderFails \/ RenderCancelled) /\ P!Abandon /\ A!AnnAbandon

Elsewhere == (Cancel \/ Reconnection \/ Woken) /\ Unchanged

Next ==
  \/ MusicOnly \/ AnnouncementsOnly
  \/ LoopTop \/ Tick
  \/ Elsewhere \/ Leave

Spec == Init /\ [][Next]_vars

\* The fairness of Announcements, for both halves in one goroutine and one
\* select.  Commands need none: a station is played or skipped when someone asks.
FairSpec ==
  /\ Spec
  /\ WF_vars(LoopTop \/ ((RunsOn \/ Woken) /\ Unchanged))
  /\ AcceptedInTheEnd
  /\ SF_vars(StartEncoder /\ Unchanged)
  /\ SF_vars(Leave /\ phase' = "closing")
  /\ SF_vars(Tick)
  /\ WF_vars((P!PrepareOk \/ P!PrepareFails) /\ UNCHANGED annVars)
  /\ WF_vars((A!AnnPrepareOk \/ A!AnnPrepareFails) /\ UNCHANGED musicVars)
  /\ SF_vars(P!Result /\ UNCHANGED annVars)
  /\ SF_vars((A!AnnFailed \/ A!AnnStarts) /\ UNCHANGED musicVars)

-----------------------------------------------------------------------------
(* Properties *)

\* One token wakes both halves and one receive takes it, so a turn must look at
\* both: when render waits in its select although a track or an announcement could
\* be prepared, a token is there, whoever signalled and whatever was taken since
\* (signal, startTrackPrepare, startAnnouncementPrepare).
NoHalfSleeps ==
  phase = "select" /\ ((P!WantsTrack /\ P!CanPop) \/ A!WantsAnnouncement) => wakeup

\* README: stop halts the music queue but does not block announcements.  An
\* accepted announcement comes to its end in a station that is stopped for ever
\* as in one that plays, unless the station is cancelled or its peer holds it.
StopDoesNotBlock ==
  \A id \in CommandId :
    id \in A!Waiting \cup A!InHand
      ~> (id \notin A!Waiting \cup A!InHand \/ cancelled \/ HeldByPeer)

\* README "Rules of the queue": a track that cannot be prepared is passed over.
\* When the replacements have come to an end the queue is played down, whatever
\* fails and whatever is announced, until the station is stopped, done or held.
QueueMovesOn ==
  queue # <<>> ~> (queue = <<>> \/ mode = "stopped" \/ cancelled \/ HeldByPeer)

=============================================================================
