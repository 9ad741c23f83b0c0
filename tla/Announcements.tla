---------------------------- MODULE Announcements ----------------------------
(***************************************************************************)
(* The announcement half of a station: the FIFO the backend fills, its     *)
(* deduplication by commandId, and the part of render that prepares one    *)
(* announcement at a time, mixes it over the music and reports its end.    *)
(*                                                                         *)
(* An announcement is its commandId.  A prepared one carries the blocks    *)
(* its reader still has.                                                   *)
(***************************************************************************)
EXTENDS RunLoop, Sequences, FiniteSets

CONSTANTS
  None,             \* "no announcement": nil
  Failed, Dropped,  \* a preparation that sent an error, or sent nothing at all
  CommandId,        \* the commandIds the backend uses
  AnnouncementCap,  \* how many announcements may wait
  AnnBlocks         \* the lengths a decoded announcement may have, in blocks

VARIABLES
  announcements,    \* Station.announcements
  seenCommands,     \* Station.seenCommands
  currentAnn,       \* Station.currentAnn, what State() reports
  ann,              \* render's announcement: a prepared one, or None
  annPreparing,     \* the announcement popped for the running preparation, or None
  annReady,         \* the slot of the announcementReady channel, see AnnResults
  annPcm,           \* decoded announcement files that exist on disk
  annOrphans,       \* running preparations whose render is gone
  finished          \* history: announcements whose end was published

annQueueVars == <<announcements, seenCommands>>
annPrepVars  == <<annPreparing, annReady, annOrphans>>
annVars      == <<annQueueVars, currentAnn, ann, annPrepVars, annPcm, finished>>
vars         == <<runVars, annVars>>

PreparedAnn == [id : CommandId, left : Nat]

AnnResults == {Failed, Dropped} \cup PreparedAnn

ASSUME AnnouncementsAssumption ==
  /\ IsFiniteSet(CommandId)
  /\ AnnouncementCap \in Nat
  /\ AnnBlocks \subseteq Nat \ {0}
  /\ None \notin CommandId \cup AnnResults
  /\ Failed \notin PreparedAnn /\ Dropped \notin PreparedAnn

\* The commandIds that wait in the FIFO.
Waiting == {announcements[i] : i \in 1..Len(announcements)}

\* The announcement that left the FIFO and is being prepared, or played.
InHand == ({annPreparing} \ {None}) \cup (IF ann = None THEN {} ELSE {ann.id})

TypeOK ==
  /\ RunTypeOK
  /\ announcements \in Seq(CommandId) /\ Len(announcements) <= AnnouncementCap
  /\ seenCommands \subseteq CommandId
  /\ currentAnn \in CommandId \cup {None}
  /\ ann \in PreparedAnn \cup {None}
  /\ annPreparing \in CommandId \cup {None}
  /\ annReady \in AnnResults \cup {None}
  /\ annPcm \in Nat /\ annOrphans \in Nat
  /\ finished \subseteq CommandId

AnnInit ==
  /\ announcements = <<>> /\ seenCommands = {}
  /\ currentAnn = None /\ ann = None
  /\ annPreparing = None /\ annReady = None /\ annOrphans = 0
  /\ annPcm = 0
  /\ finished = {}

Init == RunInit /\ AnnInit

-----------------------------------------------------------------------------

\* Mutant: the commandId is not checked.
HasRoom(id) == Len(announcements) < AnnouncementCap

Acceptable(id) == id \notin seenCommands /\ Len(announcements) < AnnouncementCap

\* AddAnnouncement, called by an HTTP handler at any point of render.  A
\* commandId seen before and a full FIFO change nothing.
AddAnnouncement(id) ==
  /\ Acceptable(id)
  /\ seenCommands' = seenCommands \cup {id}
  /\ announcements' = Append(announcements, id)
  /\ Signal
  /\ UNCHANGED <<phase, cancelled, losses, currentAnn, ann, annPrepVars, annPcm, finished>>

\* The promotion of a track, before it, does not touch the announcements.
AnnPromote ==
  /\ Turn("promote", "prefetch")
  /\ UNCHANGED annVars

\* Mutant: one is prepared while another one plays.
WantsAnnouncementEarly == annPreparing = None /\ announcements # <<>>

\* startAnnouncementPrepare: one at a time, and none while one plays; whether
\* the music is stopped does not matter.
WantsAnnouncement == annPreparing = None /\ ann = None /\ announcements # <<>>

\* Mutant: the newest one is taken.
PopNewest ==
  /\ annPreparing' = announcements[Len(announcements)]
  /\ announcements' = SubSeq(announcements, 1, Len(announcements) - 1)

PopAnnouncement ==
  /\ annPreparing' = Head(announcements)
  /\ announcements' = Tail(announcements)

AnnPrefetch ==
  /\ Turn("prefetch", "select")
  /\ IF WantsAnnouncement
     THEN PopAnnouncement
     ELSE UNCHANGED <<annPreparing, announcements>>
  /\ UNCHANGED <<seenCommands, currentAnn, ann, annReady, annOrphans, annPcm, finished>>

-----------------------------------------------------------------------------

AnnPrepareRuns == annPreparing # None /\ annReady = None

AnnPrepareOk ==
  /\ AnnPrepareRuns
  /\ \E left \in AnnBlocks : annReady' = [id |-> annPreparing, left |-> left]
  /\ annPcm' = annPcm + 1
  /\ UNCHANGED <<runVars, annQueueVars, currentAnn, ann, annPreparing, annOrphans, finished>>

AnnPrepareFails ==
  /\ AnnPrepareRuns
  /\ annReady' \in IF cancelled THEN {Failed, Dropped} ELSE {Failed}
  /\ UNCHANGED <<runVars, annQueueVars, currentAnn, ann, annPreparing, annOrphans, annPcm,
                 finished>>

\* A preparation that outlived its render leaves a decoded file behind, unless
\* it failed or saw the done context.
AnnOrphanEnds ==
  /\ annOrphans > 0
  /\ annOrphans' = annOrphans - 1
  /\ annPcm' \in {annPcm, annPcm + 1}
  /\ UNCHANGED <<runVars, annQueueVars, currentAnn, ann, annPreparing, annReady, finished>>

-----------------------------------------------------------------------------

\* Mutant: the end is not published.
FinishQuietly(id) ==
  /\ currentAnn' = None
  /\ UNCHANGED finished

\* finishAnnouncement(id, result)
Finish(id) ==
  /\ currentAnn' = None
  /\ finished' = finished \cup {id}

\* Mutant: the announcement that failed is prepared again.
AnnRetried ==
  /\ Turn("select", "promote")
  /\ annReady = Failed
  /\ annReady' = None
  /\ UNCHANGED <<annQueueVars, currentAnn, ann, annPreparing, annOrphans, annPcm, finished>>

\* The failure is published and the announcement is over.
AnnFailed ==
  /\ Turn("select", "promote")
  /\ annReady = Failed
  /\ annPreparing' = None /\ annReady' = None
  /\ Finish(annPreparing)
  /\ UNCHANGED <<annQueueVars, ann, annOrphans, annPcm>>

\* A prepared announcement starts, or is discarded when one plays already.
AnnStarts ==
  /\ Turn("select", "promote")
  /\ annReady \in PreparedAnn
  /\ annPreparing' = None /\ annReady' = None
  /\ IF ann = None
     THEN ann' = annReady /\ currentAnn' = annReady.id /\ UNCHANGED annPcm
     ELSE annPcm' = annPcm - 1 /\ UNCHANGED <<ann, currentAnn>>
  /\ UNCHANGED <<annQueueVars, annOrphans, finished>>

\* A tick with no announcement, or in the middle of one.
AnnTick ==
  /\ Turn("select", "promote")
  /\ \/ ann = None /\ UNCHANGED ann
     \/ ann # None /\ ann.left > 1 /\ ann' = [ann EXCEPT !.left = @ - 1]
  /\ UNCHANGED <<annQueueVars, currentAnn, annPrepVars, annPcm, finished>>

\* closePreparedAnnouncement(announcement); announcement = nil
CloseAnn == ann' = None /\ annPcm' = annPcm - Count(ann # None)

\* The tick read the last block, or could not read the file.
AnnEnds ==
  /\ Turn("select", "promote")
  /\ ann # None
  /\ CloseAnn
  /\ Finish(ann.id)
  /\ UNCHANGED <<annQueueVars, annPrepVars>>

\* render's deferred close; the FIFO, seenCommands and currentAnn stay.
AnnAbandon ==
  /\ CloseAnn
  /\ annPreparing' = None /\ annReady' = None
  /\ annOrphans' = annOrphans + Count(AnnPrepareRuns)
  /\ UNCHANGED <<annQueueVars, currentAnn, finished>>

-----------------------------------------------------------------------------

AnnPreparation == AnnPrepareOk \/ AnnPrepareFails \/ AnnOrphanEnds

\* The select took a command or a prepared track.
MusicTurn == Turn("select", "promote") /\ UNCHANGED annVars

\* Steps of the run loop that leave the announcements alone.
AnnElsewhere == (Cancel \/ Reconnection \/ Woken \/ SignalElsewhere) /\ UNCHANGED annVars

AnnLeave == (RenderFails \/ RenderCancelled) /\ AnnAbandon

Next ==
  \/ \E id \in CommandId : AddAnnouncement(id)
  \/ AnnPromote \/ AnnPrefetch
  \/ AnnPreparation
  \/ AnnFailed \/ AnnStarts \/ AnnTick \/ AnnEnds \/ MusicTurn
  \/ AnnElsewhere \/ AnnLeave

Spec == Init /\ [][Next]_vars

\* Go's select takes a ready case at random, so a case that is ready again and
\* again is taken: strong fairness, for the done context too.  Run, but where it
\* waits for its peer, and the preparations never block for good: weak fairness.
\* Icecast is assumed to accept the source, and FFmpeg to start, sooner or later,
\* but not to answer.
AnnFairness ==
  /\ WF_vars(AnnPromote \/ AnnPrefetch \/ ((RunsOn \/ Woken) /\ UNCHANGED annVars))
  /\ AcceptedInTheEnd
  /\ SF_vars(StartEncoder /\ UNCHANGED annVars)
  /\ SF_vars(AnnLeave /\ phase' = "closing")
  /\ WF_vars(AnnPrepareOk \/ AnnPrepareFails)
  /\ SF_vars(AnnFailed \/ AnnStarts) /\ SF_vars(AnnTick \/ AnnEnds)

FairSpec == Spec /\ AnnFairness

-----------------------------------------------------------------------------
(* Properties *)

\* An accepted commandId is in one place only, whatever is retried and however
\* often the connection is lost: it waits once, or is in hand, or has ended, so
\* no announcement is played twice (AddAnnouncement, popAnnouncement, render).
PlayedAtMostOnce ==
  /\ \A i, j \in 1..Len(announcements) : announcements[i] = announcements[j] => i = j
  /\ Waiting \cap InHand = {}
  /\ finished \cap (Waiting \cup InHand) = {}
  /\ Waiting \cup InHand \cup finished \subseteq seenCommands

\* README: the current announcement is not interrupted by a new one.  None is
\* even prepared while one plays, so a prepared one always starts, and what
\* sounds is what State() reports; it reports one that does not sound only
\* after its render was lost (announcementStarted, finishAnnouncement).
OneAtATime ==
  /\ ann # None => annPreparing = None /\ annReady = None /\ currentAnn = ann.id
  /\ (losses = 0 /\ ~Final /\ currentAnn # None) => ann # None

\* Accepted announcements that neither wait, nor play, nor have ended: their
\* commandId is remembered, so a retry of it is answered as a duplicate.
Forgotten == seenCommands \ (Waiting \cup InHand \cup finished)

\* A render that ends loses no more than it had in hand: it forgets at most one
\* announcement, and leaves at most one decoded file, of a preparation or a
\* result that was pending, to nobody; every other file has an owner that will
\* remove it (closePreparedAnnouncement).
OneLostPerExit ==
  LET owned == Count(ann # None) + Count(annReady \in PreparedAnn)
      exits == losses + Count(Final)
  IN  /\ Cardinality(Forgotten) <= exits
      /\ owned <= annPcm /\ annPcm + annOrphans <= owned + exits

\* README: an announcement waits in a FIFO.  Each accepted one leaves it and
\* comes to an end - played, failed or forgotten - unless the station is
\* cancelled, or its peer never reacts; failing media never blocks those behind.
AnnouncementsEnd ==
  \A id \in CommandId :
    id \in Waiting \cup InHand
      ~> (id \notin Waiting \cup InHand \/ cancelled \/ HeldByPeer)

-----------------------------------------------------------------------------

\* What the FIFO promises the backend, see AnnouncementFifo.
Fifo == INSTANCE AnnouncementFifo WITH
  pending <- announcements,
  accepted <- seenCommands,
  active <- IF annPreparing # None THEN annPreparing
            ELSE IF ann # None THEN ann.id ELSE None,
  over <- finished

FifoSpec == Fifo!Spec

=============================================================================
