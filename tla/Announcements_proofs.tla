------------------------ MODULE Announcements_proofs ------------------------
(***************************************************************************)
(* Proofs about Announcements, for every set of commandIds, capacity of    *)
(* the FIFO, set of lengths and number of lost connections.                *)
(***************************************************************************)
EXTENDS Announcements, FiniteSetTheorems, TLAPS

(* The result in the channel is the one of the running preparation. *)
ResultFits ==
  /\ annReady # None => annPreparing # None
  /\ annReady \in PreparedAnn => annReady.id = annPreparing

(* The files of an announcement and of a result exist, and the others were  *)
(* left behind by renders that ended.                                       *)
Exits == losses + Count(Final)
OwnedAnn == Count(ann # None) + Count(annReady \in PreparedAnn)
FilesCounted == OwnedAnn <= annPcm /\ annPcm + annOrphans <= OwnedAnn + Exits

Inv == TypeOK /\ ResultFits /\ PlayedAtMostOnce /\ OneAtATime /\ FilesCounted

\* Ids, prepared announcements and marks are told apart from nil.
LEMMA NotNone ==
  /\ \A id \in CommandId : id # None
  /\ \A p \in PreparedAnn : p # None /\ p # Failed /\ p # Dropped /\ p.id \in CommandId
  /\ Failed # None /\ Dropped # None
BY AnnouncementsAssumption DEF AnnResults, PreparedAnn

\* What waits after an announcement was appended.
LEMMA WaitingAppend ==
  ASSUME announcements \in Seq(CommandId), NEW id \in CommandId,
         announcements' = Append(announcements, id)
  PROVE  /\ Waiting' = Waiting \cup {id}
         /\ (id \notin Waiting /\ (\A i, j \in 1..Len(announcements) :
               announcements[i] = announcements[j] => i = j)
             => \A i, j \in 1..Len(announcements)' :
                  announcements'[i] = announcements'[j] => i = j)
<1>1. Len(announcements') = Len(announcements) + 1 /\ Len(announcements) \in Nat
  OBVIOUS
<1>2. \A i \in 1..Len(announcements) : announcements'[i] = announcements[i]
  OBVIOUS
<1>3. announcements'[Len(announcements) + 1] = id
  OBVIOUS
<1>4. Waiting' \subseteq Waiting \cup {id}
  BY <1>1, <1>2, <1>3 DEF Waiting
<1>5. Waiting \cup {id} \subseteq Waiting'
  BY <1>1, <1>2, <1>3 DEF Waiting
<1>6. ASSUME id \notin Waiting,
             \A i, j \in 1..Len(announcements) : announcements[i] = announcements[j] => i = j,
             NEW i \in 1..Len(announcements'), NEW j \in 1..Len(announcements'),
             announcements'[i] = announcements'[j]
      PROVE  i = j
  <2>1. \A k \in 1..Len(announcements) : announcements[k] # id
    BY <1>6 DEF Waiting
  <2> QED
    BY <1>1, <1>2, <1>3, <1>6, <2>1
<1> QED
  BY <1>4, <1>5, <1>6

\* What waits after the oldest announcement was taken.
LEMMA WaitingTail ==
  ASSUME announcements \in Seq(CommandId), announcements # <<>>,
         \A i, j \in 1..Len(announcements) : announcements[i] = announcements[j] => i = j,
         announcements' = Tail(announcements)
  PROVE  /\ Waiting' = Waiting \ {Head(announcements)}
         /\ Head(announcements) \in Waiting /\ Head(announcements) \in CommandId
         /\ \A i, j \in 1..Len(announcements)' : announcements'[i] = announcements'[j] => i = j
         /\ announcements' \in Seq(CommandId) /\ Len(announcements') <= Len(announcements)
<1>1. /\ Len(announcements') = Len(announcements) - 1 /\ Len(announcements) \in Nat \ {0}
      /\ announcements' \in Seq(CommandId)
  OBVIOUS
<1>2. \A i \in 1..Len(announcements') : announcements'[i] = announcements[i + 1]
  OBVIOUS
<1>3. Head(announcements) = announcements[1] /\ announcements[1] \in CommandId
  OBVIOUS
<1>4. Waiting' \subseteq Waiting \ {announcements[1]}
  BY <1>1, <1>2 DEF Waiting
<1>5. ASSUME NEW x \in Waiting \ {announcements[1]} PROVE x \in Waiting'
  <2>1. PICK k \in 1..Len(announcements) : announcements[k] = x /\ k # 1
    BY <1>5 DEF Waiting
  <2>2. k - 1 \in 1..Len(announcements') /\ announcements'[k - 1] = x
    BY <1>1, <1>2, <2>1
  <2> QED
    BY <2>2 DEF Waiting
<1>6. announcements[1] \in Waiting
  BY <1>1 DEF Waiting
<1>7. ASSUME NEW i \in 1..Len(announcements'), NEW j \in 1..Len(announcements'),
             announcements'[i] = announcements'[j]
      PROVE  i = j
  BY <1>1, <1>2, <1>7
<1> QED
  BY <1>1, <1>3, <1>4, <1>5, <1>6, <1>7

\* More exits leave room for more files.
LEMMA FilesKept ==
  ASSUME FilesCounted, OwnedAnn \in Nat, Exits \in Nat, annPcm \in Nat, annOrphans \in Nat,
         OwnedAnn' = OwnedAnn, Exits' \in Nat, Exits <= Exits', annPcm' \in Nat,
         annOrphans' \in Nat, annPcm <= annPcm', annPcm' + annOrphans' <= annPcm + annOrphans
  PROVE  FilesCounted'
<1>1. OwnedAnn' <= annPcm'
  BY DEF FilesCounted
<1>2. annPcm + annOrphans <= OwnedAnn + Exits
  BY DEF FilesCounted
<1>3. \A o, e, f \in Nat : e <= f => o + e <= o + f
  OBVIOUS
<1>4. OwnedAnn + Exits <= OwnedAnn + Exits'
  BY <1>3
<1>5. \A a, b, c \in Nat : a <= b /\ b <= c => a <= c
  OBVIOUS
<1>6. /\ annPcm + annOrphans \in Nat /\ annPcm' + annOrphans' \in Nat
      /\ OwnedAnn + Exits \in Nat /\ OwnedAnn + Exits' \in Nat
  <2>1. \A a, b \in Nat : a + b \in Nat
    OBVIOUS
  <2> QED
    BY <2>1
<1>7. annPcm' + annOrphans' <= OwnedAnn + Exits
  BY <1>2, <1>5, <1>6
<1>8. annPcm' + annOrphans' <= OwnedAnn + Exits'
  BY <1>4, <1>5, <1>6, <1>7
<1> QED
  BY <1>1, <1>8 DEF FilesCounted

-----------------------------------------------------------------------------

LEMMA InitInv == Init => Inv
<1> SUFFICES ASSUME Init PROVE Inv
  OBVIOUS
<1> USE DEF Init, RunInit, AnnInit
<1>1. TypeOK
  <2>1. phase \in Phases /\ losses \in 0..MaxLosses
    BY MaxLossesIsNat DEF Phases
  <2>2. RunTypeOK
    BY <2>1 DEF RunTypeOK
  <2> QED
    BY <2>2, AnnouncementsAssumption DEF TypeOK
<1>2. ResultFits
  BY NotNone DEF ResultFits
<1>3. PlayedAtMostOnce
  BY DEF PlayedAtMostOnce, Waiting, InHand
<1>4. OneAtATime
  BY DEF OneAtATime, Final
<1>5. FilesCounted
  BY NotNone DEF FilesCounted, OwnedAnn, Exits, Final, Count
<1> QED
  BY <1>1, <1>2, <1>3, <1>4, <1>5 DEF Inv

\* Flags of the run loop stay Boolean, its phase and losses in their range.
LEMMA TurnTypes ==
  ASSUME RunTypeOK, NEW from, NEW to \in Phases, Turn(from, to)
  PROVE  RunTypeOK'
<1>1. phase' \in Phases /\ losses' \in 0..MaxLosses
  BY DEF RunTypeOK, Turn, Goto
<1>2. cancelled' \in BOOLEAN /\ wakeup' \in BOOLEAN
  BY Zenon DEF RunTypeOK, Turn
<1> QED
  BY <1>1, <1>2 DEF RunTypeOK

LEMMA ElsewhereTypes ==
  ASSUME RunTypeOK, Cancel \/ Reconnection \/ Woken \/ SignalElsewhere
  PROVE  RunTypeOK'
<1>1. phase' \in Phases /\ losses' \in 0..MaxLosses
  BY DEF RunTypeOK, Cancel, Reconnection, Woken, SignalElsewhere,
         RunsOn, PeerReacts, Dial, DialFails, Accepted, Refused, EncoderCloses,
         StartEncoder, EncoderFails, BackoffOver, RunEnds, Goto, Phases
<1>2. cancelled' \in BOOLEAN /\ wakeup' \in BOOLEAN
  BY Zenon DEF RunTypeOK, Cancel, Reconnection, Woken, SignalElsewhere, Signal,
         RunsOn, PeerReacts, Dial, DialFails, Accepted, Refused, EncoderCloses,
         StartEncoder, EncoderFails, BackoffOver, RunEnds
<1> QED
  BY <1>1, <1>2 DEF RunTypeOK

LEMMA LeaveTypes ==
  ASSUME RunTypeOK, RenderFails \/ RenderCancelled
  PROVE  /\ RunTypeOK' /\ Exits' = Exits + 1 /\ Exits \in Nat
         /\ (losses' # 0 \/ Final')
<1>1. phase' \in Phases /\ losses' \in 0..MaxLosses
  BY MaxLossesIsNat DEF RunTypeOK, RenderFails, RenderCancelled, Goto, Phases
<1>2. cancelled' \in BOOLEAN /\ wakeup' \in BOOLEAN
  BY Zenon DEF RunTypeOK, RenderFails, RenderCancelled
<1>3. Exits' = Exits + 1 /\ Exits \in Nat /\ (losses' # 0 \/ Final')
  BY MaxLossesIsNat DEF RunTypeOK, RenderFails, RenderCancelled, Goto, Exits, Final, Count
<1> QED
  BY <1>1, <1>2, <1>3 DEF RunTypeOK

\* A turn of the loop is not an exit of render.
LEMMA NoExit ==
  ASSUME RunTypeOK, Cancel \/ Reconnection \/ Woken \/ SignalElsewhere
                    \/ (\E from, to \in Phases \ {"closing", "ended"} : Turn(from, to))
  PROVE  /\ losses' = losses /\ Exits \in Nat /\ Exits' \in Nat /\ Exits <= Exits'
         /\ (~Final' => ~Final)
BY MaxLossesIsNat
   DEF RunTypeOK, Turn, Cancel, Reconnection, Woken, SignalElsewhere,
         RunsOn, PeerReacts, Dial, DialFails, Accepted, Refused, EncoderCloses,
         StartEncoder, EncoderFails, BackoffOver, RunEnds, Goto, Exits, Final, Count, Phases

-----------------------------------------------------------------------------

LEMMA AddStep == ASSUME NEW id \in CommandId, Inv, AddAnnouncement(id) PROVE Inv'
<1>1. /\ id \notin seenCommands /\ Len(announcements) < AnnouncementCap
      /\ seenCommands' = seenCommands \cup {id}
      /\ announcements' = Append(announcements, id)
      /\ UNCHANGED <<phase, cancelled, losses, currentAnn, ann, annPreparing, annReady, annOrphans,
                     annPcm, finished>>
  BY DEF AddAnnouncement, Acceptable, annPrepVars
<1>2. RunTypeOK'
  <2>1. wakeup' \in BOOLEAN
    BY DEF AddAnnouncement, Signal
  <2> QED
    BY <1>1, <2>1 DEF Inv, TypeOK, RunTypeOK
<1>3. announcements' \in Seq(CommandId) /\ Len(announcements') <= AnnouncementCap
  BY <1>1, AnnouncementsAssumption DEF Inv, TypeOK
<1>4. TypeOK'
  BY <1>1, <1>2, <1>3 DEF Inv, TypeOK
<1>5. ResultFits' /\ OneAtATime'
  BY <1>1 DEF Inv, ResultFits, OneAtATime, Final
<1>6. FilesCounted'
  BY <1>1 DEF Inv, FilesCounted, OwnedAnn, Exits, Final
<1>7. PlayedAtMostOnce'
  <2>1. Waiting' = Waiting \cup {id}
    BY <1>1, WaitingAppend DEF Inv, TypeOK
  <2>2. id \notin Waiting /\ id \notin InHand /\ id \notin finished
    BY <1>1 DEF Inv, PlayedAtMostOnce
  <2>3. \A i, j \in 1..Len(announcements)' : announcements'[i] = announcements'[j] => i = j
    BY <1>1, <2>2, WaitingAppend DEF Inv, TypeOK, PlayedAtMostOnce
  <2>4. InHand' = InHand
    BY <1>1 DEF InHand
  <2> QED
    BY <1>1, <2>1, <2>2, <2>3, <2>4 DEF Inv, PlayedAtMostOnce
<1> QED
  BY <1>4, <1>5, <1>6, <1>7 DEF Inv

\* Steps that leave the announcements alone.
LEMMA AsideStep ==
  ASSUME Inv, UNCHANGED annVars,
         Cancel \/ Reconnection \/ Woken \/ SignalElsewhere
         \/ Turn("promote", "prefetch") \/ Turn("select", "promote")
  PROVE  Inv'
<1>1. UNCHANGED <<announcements, seenCommands, currentAnn, ann, annPreparing, annReady, annOrphans,
                  annPcm, finished>>
  BY DEF annVars, annQueueVars, annPrepVars
<1>2. RunTypeOK /\ RunTypeOK'
  BY TurnTypes, ElsewhereTypes DEF Inv, TypeOK, Phases
<1>3. TypeOK' /\ ResultFits' /\ PlayedAtMostOnce'
  <2>1. TypeOK'
    BY <1>1, <1>2 DEF Inv, TypeOK
  <2>2. ResultFits'
    BY <1>1 DEF Inv, ResultFits
  <2>3. Waiting' = Waiting /\ InHand' = InHand
    BY <1>1 DEF Waiting, InHand
  <2>4. PlayedAtMostOnce'
    BY <1>1, <2>3 DEF Inv, PlayedAtMostOnce
  <2> QED
    BY <2>1, <2>2, <2>4
<1>4. /\ losses' = losses /\ Exits \in Nat /\ Exits' \in Nat /\ Exits <= Exits'
      /\ (~Final' => ~Final)
  BY <1>2, NoExit DEF Phases
<1>5. OneAtATime'
  BY <1>1, <1>4 DEF Inv, OneAtATime, Final
<1>6. FilesCounted'
  <2>1. OwnedAnn' = OwnedAnn /\ OwnedAnn \in Nat
    BY <1>1 DEF OwnedAnn, Count
  <2> QED
    <3>1. annPcm \in Nat /\ annOrphans \in Nat /\ FilesCounted
      BY DEF Inv, TypeOK
    <3> QED
      BY <1>1, <1>4, <2>1, <3>1, FilesKept
<1> QED
  BY <1>3, <1>5, <1>6 DEF Inv

\* The loop takes the oldest announcement, or none.
LEMMA PrefetchStep == Inv /\ AnnPrefetch => Inv'
<1> SUFFICES ASSUME Inv, AnnPrefetch PROVE Inv'
  OBVIOUS
<1>1. /\ Turn("prefetch", "select")
      /\ UNCHANGED <<seenCommands, currentAnn, ann, annReady, annOrphans, annPcm, finished>>
  BY DEF AnnPrefetch
<1>2. RunTypeOK /\ RunTypeOK'
  BY <1>1, TurnTypes DEF Inv, TypeOK, Phases
<1>3. /\ losses' = losses /\ Exits \in Nat /\ Exits' = Exits
      /\ (~Final' => ~Final)
  BY <1>1, <1>2, NoExit DEF Turn, Goto, Exits, Final, Count, Phases
<1>4. FilesCounted'
  BY <1>1, <1>3 DEF Inv, FilesCounted, OwnedAnn
<1>5. CASE WantsAnnouncement
  <2>1. /\ annPreparing = None /\ ann = None /\ announcements # <<>>
        /\ annPreparing' = Head(announcements) /\ announcements' = Tail(announcements)
    BY <1>5 DEF AnnPrefetch, WantsAnnouncement, PopAnnouncement
  <2>2. /\ Waiting' = Waiting \ {Head(announcements)}
        /\ Head(announcements) \in Waiting /\ Head(announcements) \in CommandId
        /\ \A i, j \in 1..Len(announcements)' : announcements'[i] = announcements'[j] => i = j
        /\ announcements' \in Seq(CommandId) /\ Len(announcements') <= Len(announcements)
    BY <2>1, WaitingTail DEF Inv, TypeOK, PlayedAtMostOnce
  <2>3. TypeOK'
    BY <1>1, <1>2, <2>1, <2>2, AnnouncementsAssumption DEF Inv, TypeOK
  <2>4. ResultFits' /\ OneAtATime'
    BY <1>1, <1>3, <2>1, NotNone DEF Inv, ResultFits, OneAtATime, Final
  <2>5. PlayedAtMostOnce'
    <3>1. InHand' = {Head(announcements)} /\ InHand = {}
      BY <1>1, <2>1, <2>2, NotNone DEF InHand
    <3> QED
      BY <1>1, <2>2, <3>1 DEF Inv, PlayedAtMostOnce
  <2> QED
    BY <1>4, <2>3, <2>4, <2>5 DEF Inv
<1>6. CASE ~WantsAnnouncement
  <2>1. UNCHANGED <<annPreparing, announcements>>
    BY <1>6 DEF AnnPrefetch
  <2> QED
    <3>1. TypeOK'
      BY <1>1, <1>2, <2>1 DEF Inv, TypeOK
    <3>2. PlayedAtMostOnce'
      BY <1>1, <2>1 DEF Inv, PlayedAtMostOnce, Waiting, InHand
    <3>3. ResultFits' /\ OneAtATime'
      BY <1>1, <1>3, <2>1 DEF Inv, ResultFits, OneAtATime, Final
    <3> QED
      BY <1>4, <3>1, <3>2, <3>3 DEF Inv
<1> QED
  BY <1>5, <1>6

-----------------------------------------------------------------------------

\* A preparation sends its result, or one that outlived its render ends.
LEMMA PreparationStep == Inv /\ AnnPreparation => Inv'
<1> SUFFICES ASSUME Inv, AnnPreparation PROVE Inv'
  OBVIOUS
<1>1. UNCHANGED <<phase, cancelled, wakeup, losses, announcements, seenCommands, currentAnn, ann,
                  annPreparing, finished>>
  BY DEF AnnPreparation, AnnPrepareOk, AnnPrepareFails, AnnOrphanEnds, runVars, annQueueVars
<1>2. RunTypeOK' /\ PlayedAtMostOnce' /\ Exits' = Exits /\ Exits \in Nat
  <2>1. RunTypeOK /\ RunTypeOK'
    BY <1>1 DEF Inv, TypeOK, RunTypeOK
  <2>2. Exits' = Exits /\ Exits \in Nat
    BY <1>1, <2>1, MaxLossesIsNat DEF RunTypeOK, Exits, Final, Count
  <2>3. PlayedAtMostOnce'
    BY <1>1 DEF Inv, PlayedAtMostOnce, Waiting, InHand
  <2> QED
    BY <2>1, <2>2, <2>3
<1>3. CASE AnnPrepareOk
  <2>1. PICK left \in AnnBlocks : annReady' = [id |-> annPreparing, left |-> left]
    BY <1>3 DEF AnnPrepareOk
  <2>2. /\ annPreparing # None /\ annReady = None /\ annPcm' = annPcm + 1
        /\ annOrphans' = annOrphans
    BY <1>3 DEF AnnPrepareOk, AnnPrepareRuns
  <2>3. annReady' \in PreparedAnn /\ annReady'.id = annPreparing
    BY <2>1, <2>2, AnnouncementsAssumption DEF Inv, TypeOK, PreparedAnn
  <2>4. TypeOK' /\ ResultFits' /\ OneAtATime'
    BY <1>1, <1>2, <2>2, <2>3 DEF Inv, TypeOK, ResultFits, OneAtATime, Final, AnnResults
  <2>5. FilesCounted'
    BY <1>1, <1>2, <2>2, <2>3, NotNone DEF Inv, TypeOK, FilesCounted, OwnedAnn, Count
  <2> QED
    BY <1>2, <2>4, <2>5 DEF Inv
<1>4. CASE AnnPrepareFails
  <2>1. /\ annPreparing # None /\ annReady = None /\ annPcm' = annPcm
        /\ annOrphans' = annOrphans /\ annReady' \in {Failed, Dropped}
    BY <1>4 DEF AnnPrepareFails, AnnPrepareRuns
  <2>2. annReady' \notin PreparedAnn
    BY <2>1, AnnouncementsAssumption
  <2>3. TypeOK' /\ ResultFits' /\ OneAtATime'
    BY <1>1, <1>2, <2>1, <2>2 DEF Inv, TypeOK, ResultFits, OneAtATime, Final, AnnResults
  <2>4. FilesCounted'
    BY <1>1, <1>2, <2>1, <2>2, NotNone DEF Inv, TypeOK, FilesCounted, OwnedAnn, Count
  <2> QED
    BY <1>2, <2>3, <2>4 DEF Inv
<1>5. CASE AnnOrphanEnds
  <2>1. /\ annOrphans > 0 /\ annOrphans' = annOrphans - 1 /\ annPcm' \in {annPcm, annPcm + 1}
        /\ annReady' = annReady
    BY <1>5 DEF AnnOrphanEnds
  <2>2. TypeOK' /\ ResultFits' /\ OneAtATime'
    BY <1>1, <1>2, <2>1 DEF Inv, TypeOK, ResultFits, OneAtATime, Final
  <2>3. FilesCounted'
    <3>1. annPcm \in Nat /\ annOrphans \in Nat /\ FilesCounted
      BY DEF Inv, TypeOK
    <3>2. OwnedAnn' = OwnedAnn /\ OwnedAnn \in Nat
      BY <1>1, <2>1 DEF OwnedAnn, Count
    <3>3. /\ annPcm' \in Nat /\ annOrphans' \in Nat /\ annPcm <= annPcm'
          /\ annPcm' + annOrphans' <= annPcm + annOrphans
      <4>1. CASE annPcm' = annPcm
        BY <2>1, <3>1, <4>1
      <4>2. CASE annPcm' = annPcm + 1
        BY <2>1, <3>1, <4>2
      <4> QED
        BY <2>1, <4>1, <4>2
    <3>4. Exits' \in Nat /\ Exits <= Exits'
      BY <1>2
    <3> QED
      BY <1>2, <3>1, <3>2, <3>3, <3>4, FilesKept
  <2> QED
    BY <1>2, <2>2, <2>3 DEF Inv
<1> QED
  BY <1>3, <1>4, <1>5 DEF AnnPreparation

\* The failure of a preparation is published.
LEMMA FailedStep == Inv /\ AnnFailed => Inv'
<1> SUFFICES ASSUME Inv, AnnFailed PROVE Inv'
  OBVIOUS
<1>1. /\ Turn("select", "promote") /\ annReady = Failed
      /\ annPreparing' = None /\ annReady' = None /\ currentAnn' = None
      /\ finished' = finished \cup {annPreparing}
      /\ UNCHANGED <<announcements, seenCommands, ann, annOrphans, annPcm>>
  BY DEF AnnFailed, Finish, annQueueVars
<1>2. RunTypeOK'
  BY <1>1, TurnTypes DEF Inv, TypeOK, Phases
<1>3. losses' = losses /\ Exits \in Nat /\ Exits' = Exits
  BY <1>1, MaxLossesIsNat DEF Inv, TypeOK, RunTypeOK, Turn, Goto, Exits, Final, Count
<1>4. annPreparing \in CommandId /\ annPreparing # None /\ ann = None
  BY <1>1, NotNone DEF Inv, TypeOK, ResultFits, OneAtATime, Final
<1>5. TypeOK' /\ ResultFits' /\ OneAtATime'
  BY <1>1, <1>2, <1>4, NotNone DEF Inv, TypeOK, ResultFits, OneAtATime, Final
<1>6. PlayedAtMostOnce'
  <2>1. InHand = {annPreparing} /\ InHand' = {} /\ Waiting' = Waiting
    BY <1>1, <1>4 DEF InHand, Waiting
  <2> QED
    BY <1>1, <2>1 DEF Inv, PlayedAtMostOnce
<1>7. FilesCounted'
  BY <1>1, <1>3, NotNone DEF Inv, FilesCounted, OwnedAnn
<1> QED
  BY <1>5, <1>6, <1>7 DEF Inv

\* A prepared announcement always starts: none is prepared while one plays.
LEMMA StartsStep == Inv /\ AnnStarts => Inv'
<1> SUFFICES ASSUME Inv, AnnStarts PROVE Inv'
  OBVIOUS
<1>1. /\ Turn("select", "promote") /\ annReady \in PreparedAnn
      /\ annPreparing' = None /\ annReady' = None
      /\ UNCHANGED <<announcements, seenCommands, annOrphans, finished>>
  BY DEF AnnStarts, annQueueVars
<1>2. RunTypeOK'
  BY <1>1, TurnTypes DEF Inv, TypeOK, Phases
<1>3. losses' = losses /\ Exits \in Nat /\ Exits' = Exits
  BY <1>1, MaxLossesIsNat DEF Inv, TypeOK, RunTypeOK, Turn, Goto, Exits, Final, Count
<1>4. annReady.id = annPreparing /\ annPreparing # None /\ ann = None
  BY <1>1, NotNone DEF Inv, ResultFits, OneAtATime, Final
<1>5. ann' = annReady /\ currentAnn' = annReady.id /\ annPcm' = annPcm
  BY <1>4 DEF AnnStarts
<1>6. ann' # None /\ annReady.id \in CommandId
  BY <1>1, <1>5, NotNone
<1>7. TypeOK' /\ ResultFits' /\ OneAtATime'
  BY <1>1, <1>2, <1>5, <1>6, NotNone DEF Inv, TypeOK, ResultFits, OneAtATime, Final
<1>8. PlayedAtMostOnce'
  <2>1. InHand' = InHand /\ Waiting' = Waiting
    BY <1>1, <1>4, <1>5, <1>6 DEF InHand, Waiting
  <2> QED
    BY <1>1, <2>1 DEF Inv, PlayedAtMostOnce
<1>9. FilesCounted'
  <2>1. OwnedAnn = 1 /\ OwnedAnn' = 1
    BY <1>1, <1>4, <1>5, <1>6, NotNone DEF OwnedAnn, Count
  <2> QED
    BY <1>1, <1>3, <1>5, <2>1 DEF Inv, FilesCounted
<1> QED
  BY <1>7, <1>8, <1>9 DEF Inv

\* A tick reads a block of the announcement, if there is one.
LEMMA TickStep == Inv /\ AnnTick => Inv'
<1> SUFFICES ASSUME Inv, AnnTick PROVE Inv'
  OBVIOUS
<1>1. /\ Turn("select", "promote")
      /\ UNCHANGED <<announcements, seenCommands, currentAnn, annPreparing, annReady, annOrphans,
                     annPcm, finished>>
  BY DEF AnnTick, annQueueVars, annPrepVars
<1>2. CASE ann' = ann
  BY <1>1, <1>2, AsideStep DEF annVars, annQueueVars, annPrepVars
<1>3. CASE ann # None /\ ann.left > 1 /\ ann' = [ann EXCEPT !.left = @ - 1]
  <2>1. ann' \in PreparedAnn /\ ann'.id = ann.id /\ ann' # None
    BY <1>3, NotNone DEF Inv, TypeOK, PreparedAnn
  <2>2. RunTypeOK'
    BY <1>1, TurnTypes DEF Inv, TypeOK, Phases
  <2>3. losses' = losses /\ Exits \in Nat /\ Exits' = Exits
    BY <1>1, MaxLossesIsNat DEF Inv, TypeOK, RunTypeOK, Turn, Goto, Exits, Final, Count
  <2>4. TypeOK' /\ ResultFits' /\ OneAtATime'
    BY <1>1, <1>3, <2>1, <2>2 DEF Inv, TypeOK, ResultFits, OneAtATime, Final
  <2>5. PlayedAtMostOnce'
    <3>1. Waiting' = Waiting
      BY <1>1 DEF Waiting
    <3>2. InHand' = InHand
      BY <1>1, <1>3, <2>1 DEF InHand
    <3> QED
      BY <1>1, <3>1, <3>2 DEF Inv, PlayedAtMostOnce
  <2>6. FilesCounted'
    BY <1>1, <1>3, <2>1, <2>3 DEF Inv, FilesCounted, OwnedAnn
  <2> QED
    BY <2>4, <2>5, <2>6 DEF Inv
<1> QED
  BY <1>2, <1>3 DEF AnnTick

\* The announcement ends: it was read to its end, or could not be read.
LEMMA EndsStep == Inv /\ AnnEnds => Inv'
<1> SUFFICES ASSUME Inv, AnnEnds PROVE Inv'
  OBVIOUS
<1>1. /\ Turn("select", "promote") /\ ann # None
      /\ ann' = None /\ annPcm' = annPcm - Count(ann # None) /\ currentAnn' = None
      /\ finished' = finished \cup {ann.id}
      /\ UNCHANGED <<announcements, seenCommands, annPreparing, annReady, annOrphans>>
  BY DEF AnnEnds, CloseAnn, Finish, annQueueVars, annPrepVars
<1>2. RunTypeOK'
  BY <1>1, TurnTypes DEF Inv, TypeOK, Phases
<1>3. losses' = losses /\ Exits \in Nat /\ Exits' = Exits
  BY <1>1, MaxLossesIsNat DEF Inv, TypeOK, RunTypeOK, Turn, Goto, Exits, Final, Count
<1>4. ann.id \in CommandId /\ annPreparing = None /\ annReady = None
  BY <1>1, NotNone DEF Inv, TypeOK, OneAtATime, Final
<1>5. annPcm' = annPcm - 1 /\ OwnedAnn = 1 /\ OwnedAnn' = 0
  BY <1>1, <1>4, NotNone DEF OwnedAnn, Count
<1>6. FilesCounted' /\ annPcm' \in Nat
  BY <1>1, <1>3, <1>5 DEF Inv, TypeOK, FilesCounted
<1>7. TypeOK' /\ ResultFits' /\ OneAtATime'
  BY <1>1, <1>2, <1>4, <1>6, NotNone DEF Inv, TypeOK, ResultFits, OneAtATime, Final
<1>8. PlayedAtMostOnce'
  <2>1. InHand = {ann.id} /\ InHand' = {} /\ Waiting' = Waiting
    BY <1>1, <1>4 DEF InHand, Waiting
  <2> QED
    BY <1>1, <2>1 DEF Inv, PlayedAtMostOnce
<1> QED
  BY <1>6, <1>7, <1>8 DEF Inv

\* The render that ends loses what it had in hand, and no more.
LEMMA LeaveStep == Inv /\ AnnLeave => Inv'
<1> SUFFICES ASSUME Inv, AnnLeave PROVE Inv'
  OBVIOUS
<1>1. /\ RenderFails \/ RenderCancelled
      /\ ann' = None /\ annPcm' = annPcm - Count(ann # None)
      /\ annPreparing' = None /\ annReady' = None
      /\ annOrphans' = annOrphans + Count(AnnPrepareRuns)
      /\ UNCHANGED <<announcements, seenCommands, currentAnn, finished>>
  BY DEF AnnLeave, AnnAbandon, CloseAnn, annQueueVars
<1>2. RunTypeOK' /\ Exits' = Exits + 1 /\ Exits \in Nat /\ (losses' # 0 \/ Final')
  BY <1>1, LeaveTypes DEF Inv, TypeOK
<1>3. annOrphans' \in Nat /\ annPcm' \in Nat /\ FilesCounted'
  BY <1>1, <1>2, NotNone DEF Inv, TypeOK, FilesCounted, OwnedAnn, Count, AnnPrepareRuns
<1>4. TypeOK' /\ ResultFits' /\ OneAtATime'
  BY <1>1, <1>2, <1>3, NotNone DEF Inv, TypeOK, ResultFits, OneAtATime, Final
<1>5. PlayedAtMostOnce'
  <2>1. InHand' = {} /\ Waiting' = Waiting
    BY <1>1 DEF InHand, Waiting
  <2> QED
    BY <1>1, <2>1 DEF Inv, PlayedAtMostOnce
<1> QED
  BY <1>3, <1>4, <1>5 DEF Inv

LEMMA NextInv == Inv /\ [Next]_vars => Inv'
<1> SUFFICES ASSUME Inv, [Next]_vars PROVE Inv'
  OBVIOUS
<1>1. CASE \E id \in CommandId : AddAnnouncement(id)
  BY <1>1, AddStep
<1>2. CASE AnnPromote \/ MusicTurn \/ AnnElsewhere
  BY <1>2, AsideStep DEF AnnPromote, MusicTurn, AnnElsewhere
<1>3. CASE AnnPrefetch
  BY <1>3, PrefetchStep
<1>4. CASE AnnPreparation
  BY <1>4, PreparationStep
<1>5. CASE AnnFailed \/ AnnStarts
  BY <1>5, FailedStep, StartsStep
<1>6. CASE AnnTick \/ AnnEnds
  BY <1>6, TickStep, EndsStep
<1>7. CASE AnnLeave
  BY <1>7, LeaveStep
<1>8. CASE UNCHANGED vars
  <2>1. UNCHANGED <<phase, cancelled, wakeup, losses, announcements, seenCommands, currentAnn, ann,
                    annPreparing, annReady, annOrphans, annPcm, finished>>
    BY <1>8 DEF vars, runVars, annVars, annQueueVars, annPrepVars
  <2>2. TypeOK' /\ ResultFits'
    BY <2>1 DEF Inv, TypeOK, RunTypeOK, ResultFits
  <2>3. PlayedAtMostOnce' /\ OneAtATime' /\ FilesCounted'
    BY <2>1 DEF Inv, PlayedAtMostOnce, Waiting, InHand, OneAtATime, Final, FilesCounted,
       OwnedAnn, Exits
  <2> QED
    BY <2>2, <2>3 DEF Inv
<1> QED
  BY <1>1, <1>2, <1>3, <1>4, <1>5, <1>6, <1>7, <1>8 DEF Next

THEOREM InvHolds == Spec => []Inv
BY InitInv, NextInv, PTL DEF Spec

\* The variables of the announcements keep their types (announcementReady's one
\* slot, the FIFO's limit).
THEOREM TypeCorrect == Spec => []TypeOK
<1>1. Inv => TypeOK
  BY DEF Inv
<1> QED
  BY <1>1, InvHolds, PTL

\* An accepted announcement is in one place only, whatever is retried and
\* however often the connection is lost (AddAnnouncement, popAnnouncement, render).
THEOREM PlayedAtMostOnceHolds == Spec => []PlayedAtMostOnce
<1>1. Inv => PlayedAtMostOnce
  BY DEF Inv
<1> QED
  BY <1>1, InvHolds, PTL

\* No announcement is prepared while one plays, and what sounds is what State()
\* reports (startAnnouncementPrepare, announcementStarted, finishAnnouncement).
THEOREM OneAtATimeHolds == Spec => []OneAtATime
<1>1. Inv => OneAtATime
  BY DEF Inv
<1> QED
  BY <1>1, InvHolds, PTL

-----------------------------------------------------------------------------
(* What the FIFO promises the backend. *)

(* What AnnouncementFifo calls active. *)
Active == IF annPreparing # None THEN annPreparing ELSE IF ann # None THEN ann.id ELSE None

LEMMA ActiveInHand == Inv => InHand = {Active} \ {None}
BY NotNone DEF Inv, TypeOK, OneAtATime, Final, InHand, Active

FifoStutter == UNCHANGED <<announcements, seenCommands, Active, finished>>

LEMMA StutterIsStutter == FifoStutter => UNCHANGED Fifo!fifoVars
BY DEF FifoStutter, Active, Fifo!fifoVars

\* What a step that is not the end of a render does to the FIFO.
FifoKept == (\E id \in CommandId : Fifo!Accept(id)) \/ Fifo!Take \/ Fifo!End \/ FifoStutter

LEMMA AddRefines ==
  ASSUME NEW id \in CommandId, AddAnnouncement(id)
  PROVE  Fifo!Accept(id)
BY DEF AddAnnouncement, Acceptable, annPrepVars, Fifo!Accept

LEMMA PrefetchRefines == Inv /\ AnnPrefetch => Fifo!Take \/ FifoStutter
<1> SUFFICES ASSUME Inv, AnnPrefetch PROVE Fifo!Take \/ FifoStutter
  OBVIOUS
<1>1. CASE WantsAnnouncement
  <2>1. /\ annPreparing = None /\ ann = None /\ announcements # <<>> /\ ann' = ann
        /\ annPreparing' = Head(announcements) /\ announcements' = Tail(announcements)
        /\ UNCHANGED <<seenCommands, finished>>
    BY <1>1 DEF AnnPrefetch, WantsAnnouncement, PopAnnouncement
  <2>2. Head(announcements) # None
    <3>1. Head(announcements) \in CommandId
      BY <2>1 DEF Inv, TypeOK
    <3> QED
      BY <3>1, NotNone
  <2> QED
    BY <2>1, <2>2 DEF Fifo!Take
<1>2. CASE ~WantsAnnouncement
  BY <1>2 DEF AnnPrefetch, FifoStutter, Active
<1> QED
  BY <1>1, <1>2

LEMMA FailedRefines == Inv /\ AnnFailed => Fifo!End
<1> SUFFICES ASSUME Inv, AnnFailed PROVE Fifo!End
  OBVIOUS
<1>1. /\ annReady = Failed /\ annPreparing' = None /\ ann' = ann
      /\ finished' = finished \cup {annPreparing}
      /\ UNCHANGED <<announcements, seenCommands>>
  BY DEF AnnFailed, Finish, annQueueVars
<1>2. annPreparing # None /\ ann = None
  BY <1>1, NotNone DEF Inv, ResultFits, OneAtATime, Final
<1> QED
  BY <1>1, <1>2 DEF Fifo!End

LEMMA StartsRefines == Inv /\ AnnStarts => FifoStutter
<1> SUFFICES ASSUME Inv, AnnStarts PROVE FifoStutter
  OBVIOUS
<1>1. /\ annReady \in PreparedAnn /\ annPreparing' = None
      /\ UNCHANGED <<announcements, seenCommands, finished>>
  BY DEF AnnStarts, annQueueVars
<1>2. annReady.id = annPreparing /\ annPreparing # None /\ ann = None
  BY <1>1, NotNone DEF Inv, ResultFits, OneAtATime, Final
<1>3. ann' = annReady /\ ann' # None
  BY <1>1, <1>2, NotNone DEF AnnStarts
<1> QED
  BY <1>1, <1>2, <1>3 DEF FifoStutter, Active

LEMMA TickRefines == Inv /\ AnnTick => FifoStutter
<1> SUFFICES ASSUME Inv, AnnTick PROVE FifoStutter
  OBVIOUS
<1>1. UNCHANGED <<announcements, seenCommands, annPreparing, finished>>
  BY DEF AnnTick, annQueueVars, annPrepVars
<1>2. CASE ann' = ann
  BY <1>1, <1>2 DEF FifoStutter, Active
<1>3. CASE ann # None /\ ann' = [ann EXCEPT !.left = @ - 1] /\ ann.left > 1
  <2>1. ann' \in PreparedAnn /\ ann'.id = ann.id
    BY <1>3 DEF Inv, TypeOK, PreparedAnn
  <2> QED
    BY <1>1, <1>3, <2>1, NotNone DEF FifoStutter, Active
<1> QED
  BY <1>2, <1>3 DEF AnnTick

LEMMA EndsRefines == Inv /\ AnnEnds => Fifo!End
<1> SUFFICES ASSUME Inv, AnnEnds PROVE Fifo!End
  OBVIOUS
<1>1. /\ ann # None /\ ann' = None /\ finished' = finished \cup {ann.id}
      /\ UNCHANGED <<announcements, seenCommands, annPreparing>>
  BY DEF AnnEnds, CloseAnn, Finish, annQueueVars, annPrepVars
<1>2. annPreparing = None /\ ann.id # None
  BY <1>1, NotNone DEF Inv, TypeOK, OneAtATime, Final
<1> QED
  BY <1>1, <1>2 DEF Fifo!End

LEMMA LeaveRefines == Inv /\ AnnLeave => Fifo!Lose \/ FifoStutter
<1> SUFFICES ASSUME Inv, AnnLeave PROVE Fifo!Lose \/ FifoStutter
  OBVIOUS
<1>1. ann' = None /\ annPreparing' = None /\ UNCHANGED <<announcements, seenCommands, finished>>
  BY DEF AnnLeave, AnnAbandon, CloseAnn, annQueueVars
<1>2. Active' = None
  BY <1>1 DEF Active
<1>3. CASE Active = None
  BY <1>1, <1>2, <1>3 DEF FifoStutter
<1>4. CASE Active # None
  BY <1>1, <1>2, <1>4 DEF Fifo!Lose, Active
<1> QED
  BY <1>3, <1>4

\* Every step is one of the FIFO, or none; only the end of a render loses one.
LEMMA StepRefines ==
  ASSUME Inv, [Next]_vars
  PROVE  FifoKept \/ (AnnLeave /\ (Fifo!Lose \/ FifoStutter))
<1>1. CASE \E id \in CommandId : AddAnnouncement(id)
  BY <1>1, AddRefines DEF FifoKept
<1>2. CASE AnnPromote \/ MusicTurn \/ AnnElsewhere \/ AnnPreparation \/ UNCHANGED vars
  BY <1>2 DEF AnnPromote, MusicTurn, AnnElsewhere, AnnPreparation, AnnPrepareOk, AnnPrepareFails,
              AnnOrphanEnds, vars, annVars, annQueueVars, annPrepVars, FifoKept, FifoStutter, Active
<1>3. CASE AnnPrefetch
  BY <1>3, PrefetchRefines DEF FifoKept
<1>4. CASE AnnFailed \/ AnnStarts
  BY <1>4, FailedRefines, StartsRefines DEF FifoKept
<1>5. CASE AnnTick \/ AnnEnds
  BY <1>5, TickRefines, EndsRefines DEF FifoKept
<1>6. CASE AnnLeave
  BY <1>6, LeaveRefines
<1> QED
  BY <1>1, <1>2, <1>3, <1>4, <1>5, <1>6 DEF Next

\* What render, the preparations and the lost connections make of the FIFO is
\* what the endpoint promises: accepted once, taken in order, one at a time.
THEOREM FifoRefinement == Spec => FifoSpec
<1>1. Init => Fifo!Init
  BY DEF Init, AnnInit, Fifo!Init
<1>2. Inv /\ [Next]_vars => [Fifo!Next]_(Fifo!fifoVars)
  BY StepRefines, StutterIsStutter DEF FifoKept, Fifo!Next
<1> QED
  BY <1>1, <1>2, InvHolds, PTL DEF Spec, FifoSpec, Fifo!Spec

-----------------------------------------------------------------------------

FewForgotten == Cardinality(Forgotten) <= Exits

\* A step that keeps the FIFO forgets nothing.
LEMMA KeptForgets ==
  ASSUME Inv, Inv', FifoKept
  PROVE  Forgotten' = Forgotten
<1>1. InHand = {Active} \ {None} /\ InHand' = {Active'} \ {None}
  BY NotNone DEF Inv, TypeOK, OneAtATime, Final, InHand, Active
<1>2. CASE FifoStutter
  BY <1>1, <1>2 DEF FifoStutter, Forgotten, Waiting
<1>3. ASSUME NEW id \in CommandId, Fifo!Accept(id) PROVE Forgotten' = Forgotten
  <2>1. /\ seenCommands' = seenCommands \cup {id} /\ announcements' = Append(announcements, id)
        /\ Active' = Active /\ finished' = finished
    BY <1>3 DEF Fifo!Accept, Active
  <2>2. Waiting' = Waiting \cup {id}
    BY <2>1, WaitingAppend DEF Inv, TypeOK
  <2>3. id \notin seenCommands
    BY <1>3 DEF Fifo!Accept
  <2> QED
    BY <1>1, <2>1, <2>2, <2>3 DEF Forgotten
<1>4. CASE Fifo!Take
  <2>1. /\ Active = None /\ announcements # <<>> /\ Active' = Head(announcements)
        /\ announcements' = Tail(announcements)
        /\ seenCommands' = seenCommands /\ finished' = finished
    BY <1>4 DEF Fifo!Take, Active
  <2>2. /\ Waiting' = Waiting \ {Head(announcements)} /\ Head(announcements) \in Waiting
        /\ Head(announcements) # None
    BY <2>1, WaitingTail, NotNone DEF Inv, TypeOK, PlayedAtMostOnce
  <2> QED
    BY <1>1, <2>1, <2>2 DEF Forgotten
<1>5. CASE Fifo!End
  <2>1. /\ Active # None /\ finished' = finished \cup {Active} /\ Active' = None
        /\ announcements' = announcements /\ seenCommands' = seenCommands
    BY <1>5 DEF Fifo!End, Active
  <2> QED
    BY <1>1, <2>1 DEF Forgotten, Waiting
<1> QED
  BY <1>2, <1>3, <1>4, <1>5 DEF FifoKept

\* Only the end of a render is an exit.
LEMMA ExitsGrow ==
  ASSUME Inv, [Next]_vars
  PROVE  Exits \in Nat /\ Exits' \in Nat /\ Exits <= Exits'
<1>1. CASE AnnLeave
  BY <1>1, LeaveTypes DEF AnnLeave, Inv, TypeOK
<1>2. CASE AnnPromote \/ MusicTurn \/ AnnElsewhere \/ AnnPrefetch \/ AnnFailed \/ AnnStarts
           \/ AnnTick \/ AnnEnds
  BY <1>2, NoExit DEF AnnPromote, MusicTurn, AnnElsewhere, AnnPrefetch, AnnFailed, AnnStarts,
                      AnnTick, AnnEnds, Inv, TypeOK, Phases
<1>3. CASE \/ \E id \in CommandId : AddAnnouncement(id)
           \/ AnnPreparation \/ UNCHANGED vars
  <2>1. phase' = phase /\ losses' = losses
    BY <1>3 DEF AddAnnouncement, AnnPreparation, AnnPrepareOk, AnnPrepareFails, AnnOrphanEnds,
                vars, runVars
  <2> QED
    BY <2>1, MaxLossesIsNat DEF Inv, TypeOK, RunTypeOK, Exits, Final, Count
<1> QED
  BY <1>1, <1>2, <1>3 DEF Next

LEMMA ForgottenStep ==
  ASSUME Inv, Inv', FewForgotten, [Next]_vars
  PROVE  FewForgotten'
<1>1. /\ IsFiniteSet(Forgotten) /\ Cardinality(Forgotten) \in Nat
      /\ IsFiniteSet(Forgotten') /\ Cardinality(Forgotten') \in Nat
  BY AnnouncementsAssumption, FS_Subset, FS_CardinalityType DEF Inv, TypeOK, Forgotten
<1>2. Exits \in Nat /\ Exits' \in Nat /\ Exits <= Exits'
  BY ExitsGrow
<1>3. CASE FifoKept
  BY <1>1, <1>2, <1>3, KeptForgets DEF FewForgotten
<1>4. CASE AnnLeave
  <2>1. Forgotten' \subseteq Forgotten \cup {Active}
    <3>1. InHand = {Active} \ {None}
      BY ActiveInHand
    <3>2. UNCHANGED <<announcements, seenCommands, finished>>
      BY <1>4 DEF AnnLeave, AnnAbandon, annQueueVars
    <3> QED
      BY <3>1, <3>2 DEF Forgotten, Waiting
  <2>2. /\ IsFiniteSet(Forgotten \cup {Active})
        /\ Cardinality(Forgotten \cup {Active}) \in Nat
        /\ Cardinality(Forgotten \cup {Active}) <= Cardinality(Forgotten) + 1
    BY <1>1, FS_AddElement, FS_CardinalityType
  <2>3. Cardinality(Forgotten') <= Cardinality(Forgotten \cup {Active})
    BY <2>1, <2>2, FS_Subset
  <2>4. Exits' = Exits + 1
    BY <1>4, LeaveTypes DEF AnnLeave, Inv, TypeOK
  <2> QED
    BY <1>1, <1>2, <2>2, <2>3, <2>4 DEF FewForgotten
<1> QED
  BY <1>3, <1>4, StepRefines

\* However a station is used, every render that ends forgets one accepted
\* announcement at most, and leaves one file at most to nobody (render's
\* deferred close, closePreparedAnnouncement).
THEOREM OneLostPerExitHolds == Spec => []OneLostPerExit
<1>1. Init => FewForgotten
  <2> SUFFICES ASSUME Init PROVE FewForgotten
    OBVIOUS
  <2>1. Forgotten = {}
    BY DEF Init, AnnInit, Forgotten
  <2>2. Exits = 0
    BY DEF Init, RunInit, Exits, Final, Count
  <2> QED
    BY <2>1, <2>2, FS_EmptySet DEF FewForgotten
<1>2. Inv /\ Inv' /\ FewForgotten /\ [Next]_vars => FewForgotten'
  BY ForgottenStep
<1>3. Inv /\ FewForgotten => OneLostPerExit
  BY DEF Inv, FewForgotten, FilesCounted, OwnedAnn, Exits, Final, OneLostPerExit
<1> QED
  BY <1>1, <1>2, <1>3, InvHolds, PTL DEF Spec

-----------------------------------------------------------------------------
(* No announcement waits for a render that sleeps: the safety half of       *)
(* AnnouncementsEnd.                                                        *)

AnnouncementWakeupPending == phase = "select" /\ WantsAnnouncement => wakeup

\* The wake-up of an accepted announcement is never missed: a render that could
\* prepare one and sits in its select has a token pending (AddAnnouncement,
\* signal, startAnnouncementPrepare).
THEOREM AnnouncementWakeupPendingHolds == Spec => []AnnouncementWakeupPending
<1>1. Init => AnnouncementWakeupPending
  BY DEF Init, RunInit, AnnouncementWakeupPending
<1>2. Inv /\ AnnouncementWakeupPending /\ [Next]_vars => AnnouncementWakeupPending'
  <2> SUFFICES ASSUME Inv, AnnouncementWakeupPending, [Next]_vars
               PROVE  AnnouncementWakeupPending'
    OBVIOUS
  <2>1. ASSUME NEW id \in CommandId, AddAnnouncement(id) PROVE AnnouncementWakeupPending'
    BY <2>1, Zenon DEF AddAnnouncement, Signal, AnnouncementWakeupPending
  <2>2. CASE AnnPrefetch
    <3>1. CASE WantsAnnouncement
      <4>1. announcements \in Seq(CommandId) /\ announcements # <<>>
        BY <3>1 DEF Inv, TypeOK, WantsAnnouncement
      <4>2. annPreparing' \in CommandId
        BY <2>2, <3>1, <4>1 DEF AnnPrefetch, PopAnnouncement
      <4> QED
        BY <4>2, NotNone DEF AnnouncementWakeupPending, WantsAnnouncement
    <3>2. CASE ~WantsAnnouncement
      BY <2>2, <3>2 DEF AnnPrefetch, AnnouncementWakeupPending, WantsAnnouncement
    <3> QED
      BY <3>1, <3>2
  <2>3. CASE AnnPreparation
    <3>1. UNCHANGED <<phase, wakeup, annPreparing, ann, announcements>>
      BY <2>3 DEF AnnPreparation, AnnPrepareOk, AnnPrepareFails, AnnOrphanEnds, runVars, annQueueVars
    <3> QED
      BY <3>1 DEF AnnouncementWakeupPending, WantsAnnouncement
  <2>4. CASE AnnPromote \/ AnnFailed \/ AnnStarts \/ AnnTick \/ AnnEnds \/ MusicTurn \/ AnnLeave
    <3>1. phase' # "select"
      BY <2>4 DEF AnnPromote, AnnFailed, AnnStarts, AnnTick, AnnEnds, MusicTurn, AnnLeave,
                  RenderFails, RenderCancelled, Turn, Goto
    <3> QED
      BY <3>1 DEF AnnouncementWakeupPending
  <2>5. CASE AnnElsewhere
    <3>1. UNCHANGED <<annPreparing, ann, announcements>>
      BY <2>5 DEF AnnElsewhere, annVars, annQueueVars, annPrepVars
    <3>2. CASE Cancel
      BY <3>1, <3>2 DEF Cancel, AnnouncementWakeupPending, WantsAnnouncement
    <3>3. CASE Reconnection \/ Woken
      <4>1. phase' # "select"
        BY <3>3 DEF Reconnection, RunsOn, PeerReacts, Dial, DialFails,
         Accepted, Refused, EncoderCloses, StartEncoder, EncoderFails, BackoffOver, RunEnds, Woken, Goto
      <4> QED
        BY <4>1 DEF AnnouncementWakeupPending
    <3>4. CASE SignalElsewhere
      BY <3>4, Zenon DEF SignalElsewhere, Signal, AnnouncementWakeupPending
    <3> QED
      BY <2>5, <3>2, <3>3, <3>4 DEF AnnElsewhere
  <2>6. CASE UNCHANGED vars
    BY <2>6 DEF vars, runVars, annVars, annQueueVars, annPrepVars, AnnouncementWakeupPending,
                WantsAnnouncement
  <2> QED
    BY <2>1, <2>2, <2>3, <2>4, <2>5, <2>6 DEF Next
<1> QED
  BY <1>1, <1>2, InvHolds, PTL DEF Spec

=============================================================================
