--------------------------- MODULE Station_proofs ---------------------------
(***************************************************************************)
(* Proofs about Station: render never sleeps on work of either half.  The  *)
(* one goroutine that carries both halves behaves, seen from either half,  *)
(* as that half alone, and one token is enough to wake both.               *)
(***************************************************************************)
EXTENDS Station, TLAPS

\* The tuples of the halves name the same variables.
LEMMA MusicVarsAre ==
  ASSUME UNCHANGED musicVars
  PROVE  UNCHANGED P!musicVars
BY DEF musicVars, P!musicVars, P!reportVars, P!queueVars, P!prepVars, P!fadeVars

LEMMA AnnVarsAre ==
  ASSUME UNCHANGED annVars
  PROVE  UNCHANGED A!annVars
BY DEF annVars, A!annVars, A!annQueueVars, A!annPrepVars

LEMMA RunVarsAre ==
  ASSUME UNCHANGED runVars
  PROVE  UNCHANGED P!runVars /\ UNCHANGED A!runVars
BY DEF runVars, P!runVars, A!runVars

\* The run loop's steps are the same in the station and in its halves.
LEMMA TurnIs ==
  ASSUME NEW from, NEW to
  PROVE  /\ P!Turn(from, to) <=> Turn(from, to)
         /\ A!Turn(from, to) <=> Turn(from, to)
BY DEF Turn, Goto, P!Turn, P!Goto, A!Turn, A!Goto

LEMMA ElsewhereIs ==
  ASSUME Cancel \/ Reconnection \/ Woken
  PROVE  /\ P!Cancel \/ P!Reconnection \/ P!Woken
         /\ A!Cancel \/ A!Reconnection \/ A!Woken
<1>1. P!Cancel \/ P!Reconnection \/ P!Woken
  BY DEF Cancel, Reconnection, Woken, RunsOn, PeerReacts, Dial, DialFails, Accepted, Refused,
         EncoderCloses, StartEncoder, EncoderFails, BackoffOver, RunEnds, Goto,
         P!Cancel, P!Reconnection, P!Woken, P!RunsOn, P!PeerReacts, P!Dial, P!DialFails,
         P!Accepted, P!Refused, P!EncoderCloses, P!StartEncoder, P!EncoderFails,
         P!BackoffOver, P!RunEnds, P!Goto
<1>2. A!Cancel \/ A!Reconnection \/ A!Woken
  BY DEF Cancel, Reconnection, Woken, RunsOn, PeerReacts, Dial, DialFails, Accepted, Refused,
         EncoderCloses, StartEncoder, EncoderFails, BackoffOver, RunEnds, Goto,
         A!Cancel, A!Reconnection, A!Woken, A!RunsOn, A!PeerReacts, A!Dial, A!DialFails,
         A!Accepted, A!Refused, A!EncoderCloses, A!StartEncoder, A!EncoderFails,
         A!BackoffOver, A!RunEnds, A!Goto
<1> QED
  BY <1>1, <1>2

LEMMA LeaveIs ==
  ASSUME RenderFails \/ RenderCancelled
  PROVE  (P!RenderFails \/ P!RenderCancelled) /\ (A!RenderFails \/ A!RenderCancelled)
BY DEF RenderFails, RenderCancelled, Goto, P!RenderFails, P!RenderCancelled, P!Goto,
       A!RenderFails, A!RenderCancelled, A!Goto

-----------------------------------------------------------------------------

\* A step of the station is one of the music half, or none.
LEMMA MusicStep == [Next]_vars => [P!Next]_(P!vars)
<1> SUFFICES ASSUME [Next]_vars PROVE [P!Next]_(P!vars)
  OBVIOUS
<1>1. CASE MusicOnly
  BY <1>1 DEF MusicOnly, P!Next
<1>2. CASE AnnouncementsOnly
  <2>1. UNCHANGED P!musicVars
    BY <1>2, MusicVarsAre DEF AnnouncementsOnly
  <2>2. CASE \E id \in CommandId : A!AddAnnouncement(id)
    <3>1. P!SignalElsewhere
      BY <2>2 DEF A!AddAnnouncement, A!Signal, P!SignalElsewhere, P!Signal
    <3> QED
      BY <2>1, <3>1 DEF P!Next, P!Elsewhere
  <2>3. CASE A!AnnPreparation
    <3>1. UNCHANGED P!runVars
      BY <2>3 DEF A!AnnPreparation, A!AnnPrepareOk, A!AnnPrepareFails, A!AnnOrphanEnds, A!runVars,
                  P!runVars
    <3> QED
      BY <2>1, <3>1 DEF P!vars
  <2>4. CASE A!AnnFailed \/ A!AnnStarts
    <3>1. P!Turn("select", "promote")
      BY <2>4, TurnIs DEF A!AnnFailed, A!AnnStarts
    <3> QED
      BY <2>1, <3>1 DEF P!Next, P!AnnouncementTurn
  <2> QED
    BY <1>2, <2>2, <2>3, <2>4 DEF AnnouncementsOnly
<1>3. CASE LoopTop
  BY <1>3 DEF LoopTop, P!Next
<1>4. CASE Tick
  BY <1>4 DEF Tick, P!Next
<1>5. CASE Elsewhere
  BY <1>5, ElsewhereIs, MusicVarsAre DEF Elsewhere, Unchanged, P!Next, P!Elsewhere
<1>6. CASE Leave
  BY <1>6, LeaveIs DEF Leave, P!Next, P!Leave
<1>7. CASE UNCHANGED vars
  BY <1>7, MusicVarsAre, RunVarsAre DEF vars, P!vars
<1> QED
  BY <1>1, <1>2, <1>3, <1>4, <1>5, <1>6, <1>7 DEF Next

\* And one of the announcements half, or none.
LEMMA AnnouncementStep == [Next]_vars => [A!Next]_(A!vars)
<1> SUFFICES ASSUME [Next]_vars PROVE [A!Next]_(A!vars)
  OBVIOUS
<1>1. CASE MusicOnly
  <2>1. UNCHANGED A!annVars
    BY <1>1, AnnVarsAre DEF MusicOnly
  <2>2. CASE P!Api
    <3>1. A!SignalElsewhere \/ UNCHANGED A!runVars
      BY <2>2 DEF P!Api, P!ReplaceQueue, P!Send, P!Signal, P!runVars, A!runVars, A!SignalElsewhere,
                  A!Signal
    <3> QED
      BY <2>1, <3>1 DEF A!Next, A!AnnElsewhere, A!vars
  <2>3. CASE P!Preparation
    <3>1. UNCHANGED A!runVars
      BY <2>3 DEF P!Preparation, P!PrepareOk, P!PrepareFails, P!OrphanEnds, P!runVars, A!runVars
    <3> QED
      BY <2>1, <3>1 DEF A!vars
  <2>4. CASE P!Execute \/ P!Result
    <3>1. A!Turn("select", "promote")
      BY <2>4, TurnIs DEF P!Execute, P!Play, P!Stop, P!Skip, P!Receive, P!Result, P!TrackFailed,
                          P!TrackReady
    <3> QED
      BY <2>1, <3>1 DEF A!Next, A!MusicTurn
  <2> QED
    BY <1>1, <2>2, <2>3, <2>4 DEF MusicOnly
<1>2. CASE AnnouncementsOnly
  BY <1>2 DEF AnnouncementsOnly, A!Next
<1>3. CASE LoopTop
  BY <1>3 DEF LoopTop, A!Next
<1>4. CASE Tick
  BY <1>4 DEF Tick, A!Next
<1>5. CASE Elsewhere
  BY <1>5, ElsewhereIs, AnnVarsAre DEF Elsewhere, Unchanged, A!Next, A!AnnElsewhere
<1>6. CASE Leave
  BY <1>6, LeaveIs DEF Leave, A!Next, A!AnnLeave
<1>7. CASE UNCHANGED vars
  BY <1>7, AnnVarsAre, RunVarsAre DEF vars, A!vars
<1> QED
  BY <1>1, <1>2, <1>3, <1>4, <1>5, <1>6, <1>7 DEF Next

\* The station implements both halves, by the way it composes them: their safety
\* properties carry over.
LEMMA HalvesImplemented == Spec => P!Spec /\ A!Spec
<1>1. Init => P!Init /\ A!Init
  BY DEF Init, RunInit, P!Init, P!RunInit, A!Init, A!RunInit
<1> QED
  BY <1>1, MusicStep, AnnouncementStep, PTL DEF Spec, P!Spec, A!Spec

-----------------------------------------------------------------------------

(* What waits are tracks and announcements, which are not nil.               *)
QueuesOK ==
  /\ wakeup \in BOOLEAN
  /\ queue \in Seq(P!Track)
  /\ announcements \in Seq(CommandId)

WaitInv == QueuesOK /\ NoHalfSleeps

LEMMA WaitInit == Init => WaitInv
<1> SUFFICES ASSUME Init PROVE WaitInv
  OBVIOUS
<1>1. wakeup = FALSE /\ phase = "connect"
  BY DEF Init, RunInit
<1>2. queue \in Seq(P!Track) /\ announcements \in Seq(CommandId)
  BY DEF Init, P!MusicInit, A!AnnInit
<1> QED
  BY <1>1, <1>2 DEF WaitInv, QueuesOK, NoHalfSleeps

\* The queues keep their types.
LEMMA QueuesStep ==
  ASSUME QueuesOK, [Next]_vars
  PROVE  QueuesOK'
<1>1. CASE MusicOnly
  <2>1. CASE P!Api
    <3>1. ASSUME NEW rev \in 1..MaxRevision, NEW size \in 0..MaxQueueTracks + 1,
                 P!ReplaceQueue(rev, size)
          PROVE  QueuesOK'
      <4>1. queue' \in Seq(P!Track)
        BY <3>1, StationAssumption DEF P!ReplaceQueue, P!Track
      <4>2. wakeup' = TRUE
        BY <3>1 DEF P!ReplaceQueue, P!Signal
      <4> QED
        BY <1>1, <4>1, <4>2 DEF MusicOnly, annVars, QueuesOK
    <3>2. ASSUME NEW command \in P!Commands, P!Send(command)
          PROVE  QueuesOK'
      BY <1>1, <3>2, Zenon DEF MusicOnly, annVars, P!Send, P!runVars, P!queueVars, QueuesOK
    <3> QED
      BY <2>1, <3>1, <3>2 DEF P!Api
  <2>2. CASE ~P!Api
    BY <1>1, <2>2, Zenon DEF MusicOnly, annVars, QueuesOK, P!Preparation, P!PrepareOk,
       P!PrepareFails, P!OrphanEnds, P!Execute, P!Play, P!Stop, P!Skip, P!Receive, P!Result,
       P!TrackFailed, P!TrackReady, P!Turn, P!runVars, P!queueVars
  <2> QED
    BY <2>1, <2>2
<1>2. CASE AnnouncementsOnly
  <2>1. CASE \E id \in CommandId : A!AddAnnouncement(id)
    <3>1. announcements' \in Seq(CommandId)
      BY <2>1 DEF A!AddAnnouncement, QueuesOK
    <3>2. wakeup' = TRUE
      BY <2>1 DEF A!AddAnnouncement, A!Signal
    <3> QED
      BY <1>2, <3>1, <3>2 DEF AnnouncementsOnly, musicVars, QueuesOK
  <2>2. CASE ~ \E id \in CommandId : A!AddAnnouncement(id)
    BY <1>2, <2>2, Zenon DEF AnnouncementsOnly, musicVars, QueuesOK, A!AnnPreparation,
       A!AnnPrepareOk, A!AnnPrepareFails, A!AnnOrphanEnds, A!AnnFailed, A!AnnStarts, A!Turn,
       A!runVars, A!annQueueVars
  <2> QED
    BY <2>1, <2>2
<1>3. CASE LoopTop
  <2>1. wakeup' = wakeup
    BY <1>3 DEF LoopTop, A!AnnPromote, A!AnnPrefetch, A!Turn
  <2>2. queue' \in Seq(P!Track)
    BY <1>3 DEF LoopTop, P!PromoteNext, P!Prefetch, P!CanPop, QueuesOK
  <2>3. announcements' \in Seq(CommandId)
    BY <1>3 DEF LoopTop, A!AnnPromote, A!AnnPrefetch, A!WantsAnnouncement, A!PopAnnouncement,
       A!annVars, A!annQueueVars, QueuesOK
  <2> QED
    BY <2>1, <2>2, <2>3 DEF QueuesOK
<1>4. CASE Tick \/ Leave
  <2>1. UNCHANGED <<wakeup, queue, announcements>>
    BY <1>4, Zenon DEF Tick, P!Tick, P!TickSilence, P!TickMusic, P!TickEndOfTrack, P!musicVars,
       P!queueVars, A!AnnTick, A!AnnEnds, A!annQueueVars, A!Turn, Leave, RenderFails,
       RenderCancelled, P!Abandon, A!AnnAbandon
  <2> QED
    BY <2>1 DEF QueuesOK
<1>5. CASE Elsewhere
  <2>1. UNCHANGED <<queue, announcements>>
    BY <1>5 DEF Elsewhere, Unchanged, musicVars, annVars
  <2>2. wakeup' \in {wakeup, FALSE}
    BY <1>5, Zenon DEF Elsewhere, Cancel, Reconnection, Woken, RunsOn, PeerReacts, Dial, DialFails,
       Accepted, Refused, EncoderCloses, StartEncoder, EncoderFails, BackoffOver, RunEnds
  <2> QED
    BY <2>1, <2>2 DEF QueuesOK
<1>6. CASE UNCHANGED vars
  BY <1>6 DEF vars, runVars, musicVars, annVars, QueuesOK
<1> QED
  BY <1>1, <1>2, <1>3, <1>4, <1>5, <1>6 DEF Next

\* The turn that ends in the select looked at both halves.
LEMMA BothLookedAt ==
  ASSUME QueuesOK, P!Prefetch, A!AnnPrefetch
  PROVE  ~(P!WantsTrack /\ P!CanPop)' /\ ~A!WantsAnnouncement'
<1>1. ~(P!WantsTrack /\ P!CanPop)'
  <2>1. CASE P!WantsTrack /\ P!CanPop /\ preparing' = Head(queue)
    <3>1. preparing' \in P!Track
      BY <2>1 DEF QueuesOK, P!CanPop
    <3> QED
      BY <3>1, StationAssumption DEF P!WantsTrack
  <2>2. CASE P!WantsTrack /\ ~P!CanPop /\ mode' = P!ModeWhenEmpty /\ queue' = queue
    BY <2>2 DEF P!CanPop, P!CanPlayMusic, P!ModeWhenEmpty
  <2>3. CASE ~P!WantsTrack /\ UNCHANGED <<preparing, queue, mode>>
    BY <2>3 DEF P!Prefetch, P!WantsTrack, P!CanPlayMusic
  <2> QED
    BY <2>1, <2>2, <2>3 DEF P!Prefetch
<1>2. ~A!WantsAnnouncement'
  <2>1. CASE A!WantsAnnouncement
    <3>1. annPreparing' \in CommandId
      BY <2>1 DEF QueuesOK, A!WantsAnnouncement, A!AnnPrefetch, A!PopAnnouncement
    <3> QED
      BY <3>1, StationAssumption DEF A!WantsAnnouncement
  <2>2. CASE ~A!WantsAnnouncement
    BY <2>2 DEF A!AnnPrefetch, A!WantsAnnouncement
  <2> QED
    BY <2>1, <2>2
<1> QED
  BY <1>1, <1>2

LEMMA WaitStep ==
  ASSUME WaitInv, [Next]_vars
  PROVE  WaitInv'
<1> SUFFICES NoHalfSleeps'
  BY QueuesStep DEF WaitInv
<1>a. ASSUME phase' # "select" \/ wakeup'
      PROVE  NoHalfSleeps'
  BY <1>a DEF NoHalfSleeps
<1>b. ASSUME UNCHANGED <<phase, wakeup, mode, queue, cur, nxt, preparing,
                         announcements, ann, annPreparing>>
      PROVE  NoHalfSleeps'
  BY <1>b, Zenon DEF WaitInv, NoHalfSleeps, P!WantsTrack, P!CanPop, P!CanPlayMusic, A!WantsAnnouncement
<1>1. CASE MusicOnly
  <2>0. UNCHANGED <<announcements, ann, annPreparing>>
    BY <1>1 DEF MusicOnly, annVars
  <2>1. CASE P!Api
    BY <1>a, <1>b, <2>0, <2>1 DEF P!Api, P!ReplaceQueue, P!Send, P!Signal, P!runVars, P!reportVars,
       P!queueVars, P!prepVars
  <2>2. CASE P!Preparation
    BY <1>b, <2>0, <2>2 DEF P!Preparation, P!PrepareOk, P!PrepareFails, P!OrphanEnds, P!runVars,
       P!reportVars, P!queueVars
  <2>3. CASE P!Execute \/ P!Result
    BY <1>a, <2>3 DEF P!Execute, P!Play, P!Stop, P!Skip, P!Receive, P!Result, P!TrackFailed,
       P!TrackReady, P!Turn, P!Goto
  <2> QED
    BY <1>1, <2>1, <2>2, <2>3 DEF MusicOnly
<1>2. CASE AnnouncementsOnly
  <2>0. UNCHANGED <<mode, queue, cur, nxt, preparing>>
    BY <1>2 DEF AnnouncementsOnly, musicVars
  <2>1. CASE \E id \in CommandId : A!AddAnnouncement(id)
    BY <1>a, <2>1 DEF A!AddAnnouncement, A!Signal
  <2>2. CASE A!AnnPreparation
    BY <1>b, <2>0, <2>2 DEF A!AnnPreparation, A!AnnPrepareOk, A!AnnPrepareFails, A!AnnOrphanEnds,
       A!runVars, A!annQueueVars
  <2>3. CASE A!AnnFailed \/ A!AnnStarts
    BY <1>a, <2>3 DEF A!AnnFailed, A!AnnStarts, A!Turn, A!Goto
  <2> QED
    BY <1>2, <2>1, <2>2, <2>3 DEF AnnouncementsOnly
<1>3. CASE LoopTop
  <2>1. CASE P!PromoteNext
    BY <1>a, <2>1 DEF P!PromoteNext, P!Turn, P!Goto
  <2>2. CASE P!Prefetch /\ A!AnnPrefetch
    BY <2>2, BothLookedAt DEF WaitInv, NoHalfSleeps
  <2> QED
    BY <1>3, <2>1, <2>2 DEF LoopTop
<1>4. CASE Tick \/ Leave
  BY <1>a, <1>4 DEF Tick, A!AnnTick, A!AnnEnds, A!Turn, A!Goto, Leave, RenderFails,
     RenderCancelled, Goto
<1>5. CASE Elsewhere
  <2>1. CASE Cancel
    BY <1>5, <1>b, <2>1 DEF Elsewhere, Unchanged, Cancel, musicVars, annVars
  <2>2. CASE Reconnection \/ Woken
    BY <1>a, <2>2 DEF Reconnection, Woken, RunsOn, PeerReacts, Dial, DialFails, Accepted, Refused,
       EncoderCloses, StartEncoder, EncoderFails, BackoffOver, RunEnds, Goto
  <2> QED
    BY <1>5, <2>1, <2>2 DEF Elsewhere
<1>6. CASE UNCHANGED vars
  BY <1>6, <1>b DEF vars, runVars, musicVars, annVars
<1> QED
  BY <1>1, <1>2, <1>3, <1>4, <1>5, <1>6 DEF Next

\* render never waits in its select for a track or an announcement it could be
\* preparing without a token that wakes it, though both halves share the one
\* token and its receiver (signal, render).
THEOREM NoHalfSleepsHolds == Spec => []NoHalfSleeps
<1>1. WaitInv /\ [Next]_vars => WaitInv'
  BY WaitStep
<1>2. WaitInv => NoHalfSleeps
  BY DEF WaitInv
<1> QED
  BY <1>1, <1>2, WaitInit, PTL DEF Spec

=============================================================================
