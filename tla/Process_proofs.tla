--------------------------- MODULE Process_proofs ---------------------------
(***************************************************************************)
(* Proofs about Manager and Process, for every number of handlers, station *)
(* ids, runners and requests, and every limit of the map.  The process     *)
(* goes through the manager's own steps, so what is proved of the manager  *)
(* holds in it; the rest is about events, shutdown and the server.         *)
(***************************************************************************)
EXTENDS Process, FiniteSetTheorems, SequenceTheorems, TLAPS

(* The places where a handler works on a runner it has to do with until it  *)
(* returns: the delete's, after the map was changed.                        *)
DeletePlaces == {"cancel", "await", "deleted"}

(* A runner in the map was created, is in it once, and belongs to nobody    *)
(* else; the map is empty once stopAll has begun.                           *)
MapOK ==
  /\ \A id \in Id : stations[id] # None =>
       run[stations[id]] # "none" /\ stations[id] \notin Deleting \cup awaited
  /\ \A i, j \in Id : stations[i] # None /\ stations[i] = stations[j] => i = j
  /\ main \in {"stopping", "closing", "over"} => \A id \in Id : stations[id] = None

(* What a handler knows of the runner it works on.                          *)
HandlersOK ==
  /\ \A h \in Handler : at[h] # "idle" => target[h] \in Runner /\ run[target[h]] # "none"
  /\ \A h \in Handler : at[h] = "launch" => run[target[h]] = "registered"
  /\ \A h \in Handler : at[h] = "deleted" => run[target[h]] = "ended"
  /\ \A g, h \in Handler :
       g # h /\ at[g] = "launch" /\ at[h] = "launch" => target[g] # target[h]

(* A runner that was removed from the map has one owner.                    *)
RemovedOnce ==
  /\ \A g, h \in Handler :
       g # h /\ at[g] \in DeletePlaces /\ at[h] \in DeletePlaces => target[g] # target[h]
  /\ awaited \cap Deleting = {}

AwaitedOK ==
  /\ main # "stopping" => awaited = {}
  /\ \A r \in awaited : run[r] # "none"

(* Every loop that is alive has an owner.                                   *)
Owned == Deleting \cup timedOut \cup awaited \cup {stations[id] : id \in Mapped}

LoopsOwned == Loops \subseteq Owned

ManagerInv == TypeOK /\ MapOK /\ HandlersOK /\ RemovedOnce /\ AwaitedOK /\ LoopsOwned

LEMMA NotNone == \A r \in Runner : r # None
BY ManagerAssumption

LEMMA ManagerInitInv == ManagerInit => ManagerInv
<1> SUFFICES ASSUME ManagerInit PROVE ManagerInv
  OBVIOUS
<1> USE DEF ManagerInit
<1>1. TypeOK
  BY DEF TypeOK, Lives, Places, Stages
<1>2. Deleting = {} /\ Mapped = {} /\ Loops = {}
  BY DEF Deleting, Mapped, Loops, Alive
<1>3. MapOK /\ HandlersOK
  BY DEF MapOK, HandlersOK
<1>4. RemovedOnce /\ AwaitedOK
  BY DEF RemovedOnce, AwaitedOK, DeletePlaces
<1>5. LoopsOwned
  BY <1>2 DEF LoopsOwned
<1> QED
  BY <1>1, <1>3, <1>4, <1>5 DEF ManagerInv

-----------------------------------------------------------------------------

\* Whose a removed runner is when handler h goes to a place.
LEMMA DeletingAfter ==
  ASSUME TypeOK, NEW h \in Handler, NEW there \in Places, NEW r, Goto(h, there, r)
  PROVE  /\ at'[h] = there /\ target'[h] = r
         /\ \A g \in Handler \ {h} : at'[g] = at[g] /\ target'[g] = target[g]
BY DEF TypeOK, Goto

\* A handler that is not about to delete, before and after its step, leaves the
\* removed runners alone.
LEMMA DeletingKept ==
  ASSUME TypeOK, NEW h \in Handler, NEW there \in Places, NEW r, Goto(h, there, r),
         at[h] \notin DeletePlaces, there \notin DeletePlaces
  PROVE  Deleting' = Deleting
<1>1. /\ at'[h] = there /\ target'[h] = r
      /\ \A g \in Handler \ {h} : at'[g] = at[g] /\ target'[g] = target[g]
  BY DeletingAfter
<1>2. \A x : x \in Deleting <=> \E g \in Handler : at[g] \in DeletePlaces /\ target[g] = x
  BY DEF Deleting, DeletePlaces
<1>3. \A x : x \in Deleting' <=> \E g \in Handler : at'[g] \in DeletePlaces /\ target'[g] = x
  BY DEF Deleting, DeletePlaces
<1> QED
  BY <1>1, <1>2, <1>3

\* A handler that moves on within its delete keeps its runner.
LEMMA DeletingMoved ==
  ASSUME TypeOK, NEW h \in Handler, NEW there \in DeletePlaces, Goto(h, there, target[h]),
         at[h] \in DeletePlaces
  PROVE  Deleting' = Deleting
<1>1. /\ at'[h] = there /\ target'[h] = target[h]
      /\ \A g \in Handler \ {h} : at'[g] = at[g] /\ target'[g] = target[g]
  BY DeletingAfter DEF Places, DeletePlaces
<1>2. \A x : x \in Deleting <=> \E g \in Handler : at[g] \in DeletePlaces /\ target[g] = x
  BY DEF Deleting, DeletePlaces
<1>3. \A x : x \in Deleting' <=> \E g \in Handler : at'[g] \in DeletePlaces /\ target'[g] = x
  BY DEF Deleting, DeletePlaces
<1> QED
  BY <1>1, <1>2, <1>3

\* Loops keep their owners when only handlers' business and configurations change.
LEMMA OwnersKept ==
  ASSUME LoopsOwned, Deleting \subseteq Deleting',
         UNCHANGED <<stations, run, awaited, timedOut>>
  PROVE  LoopsOwned'
<1>1. Loops' = Loops /\ Mapped' = Mapped
  BY DEF Loops, Alive, Mapped
<1>2. {stations[id] : id \in Mapped} = {stations[id] : id \in Mapped}'
  BY <1>1
<1> QED
  BY <1>1, <1>2 DEF LoopsOwned, Owned

-----------------------------------------------------------------------------
(* One lemma per step. *)

LEMMA RegisterStep ==
  ASSUME ManagerInv, NEW h \in Handler, NEW id \in Id, NEW r \in Runner, Register(h, id, r)
  PROVE  ManagerInv'
<1>1. /\ at[h] = "idle" /\ main = "serving" /\ stations[id] = None /\ run[r] = "none"
      /\ stations' = [stations EXCEPT ![id] = r]
      /\ owner' = [owner EXCEPT ![r] = id]
      /\ run' = [run EXCEPT ![r] = "registered"]
      /\ source' = [source EXCEPT ![r] = h] /\ config' = [config EXCEPT ![r] = h]
      /\ Goto(h, "launch", r)
      /\ UNCHANGED <<stopped, contended, main, awaited, timedOut>>
  BY DEF Register, MayRegister, Closed, mainVars
<1>2. /\ at'[h] = "launch" /\ target'[h] = r
      /\ \A g \in Handler \ {h} : at'[g] = at[g] /\ target'[g] = target[g]
  BY <1>1, DeletingAfter DEF ManagerInv, Places
<1>3. Deleting' = Deleting
  BY <1>1, DeletingKept DEF ManagerInv, Places, DeletePlaces
<1>4. TypeOK'
  BY <1>1 DEF ManagerInv, TypeOK, Goto, Lives, Places
<1>5. \A g \in Handler : at[g] # "idle" => target[g] \in Runner /\ target[g] # r
  BY <1>1 DEF ManagerInv, HandlersOK
<1>6. r \notin Deleting /\ r \notin awaited /\ \A i \in Id : stations[i] # r
  BY <1>1, <1>5, NotNone DEF ManagerInv, Deleting, MapOK, AwaitedOK
<1>7. /\ run'[r] = "registered" /\ \A q \in Runner \ {r} : run'[q] = run[q]
      /\ stations'[id] = r /\ \A i \in Id \ {id} : stations'[i] = stations[i]
  BY <1>1 DEF ManagerInv, TypeOK
<1>8. MapOK'
  <2>1. \A i \in Id : stations'[i] # None =>
          run'[stations'[i]] # "none" /\ stations'[i] \notin Deleting' \cup awaited'
    BY <1>1, <1>3, <1>6, <1>7 DEF ManagerInv, TypeOK, MapOK
  <2>2. \A i, j \in Id : stations'[i] # None /\ stations'[i] = stations'[j] => i = j
    BY <1>6, <1>7 DEF ManagerInv, MapOK
  <2> QED
    BY <1>1, <2>1, <2>2 DEF MapOK
<1>9. HandlersOK'
  BY <1>1, <1>2, <1>5, <1>7 DEF ManagerInv, HandlersOK
<1>10. RemovedOnce' /\ AwaitedOK'
  BY <1>1, <1>2, <1>3, <1>6, <1>7 DEF ManagerInv, TypeOK, RemovedOnce, AwaitedOK, DeletePlaces
<1>11. LoopsOwned'
  <2>1. Loops' \subseteq Loops \cup {r}
    BY <1>7 DEF Loops, Alive
  <2>2. r \in {stations[i] : i \in Mapped}'
    BY <1>7, NotNone DEF Mapped
  <2>3. {stations[i] : i \in Mapped} \subseteq {stations[i] : i \in Mapped}'
    BY <1>1, <1>7 DEF Mapped
  <2> QED
    BY <1>1, <1>3, <2>1, <2>2, <2>3 DEF ManagerInv, LoopsOwned, Owned
<1> QED
  BY <1>4, <1>8, <1>9, <1>10, <1>11 DEF ManagerInv

LEMMA LaunchStep ==
  ASSUME ManagerInv, NEW h \in Handler, Launch(h)
  PROVE  ManagerInv'
<1>1. /\ at[h] = "launch" /\ run' = [run EXCEPT ![target[h]] = "launched"]
      /\ Goto(h, "created", target[h])
      /\ UNCHANGED <<stations, owner, stopped, source, config, contended, main, awaited, timedOut>>
  BY DEF Launch, mainVars
<1>2. /\ at'[h] = "created" /\ target'[h] = target[h]
      /\ \A g \in Handler \ {h} : at'[g] = at[g] /\ target'[g] = target[g]
  BY <1>1, DeletingAfter DEF ManagerInv, Places
<1>3. Deleting' = Deleting
  BY <1>1, DeletingKept DEF ManagerInv, Places, DeletePlaces
<1>4. TypeOK'
  BY <1>1 DEF ManagerInv, TypeOK, Goto, Lives, Places
<1>5. target[h] \in Runner /\ run[target[h]] = "registered"
  BY <1>1 DEF ManagerInv, HandlersOK
<1>6. run'[target[h]] = "launched" /\ \A q \in Runner \ {target[h]} : run'[q] = run[q]
  BY <1>1, <1>5 DEF ManagerInv, TypeOK
<1>7. MapOK'
  BY <1>1, <1>3, <1>6 DEF ManagerInv, TypeOK, MapOK
<1>8. HandlersOK'
  BY <1>1, <1>2, <1>5, <1>6 DEF ManagerInv, HandlersOK
<1>9. RemovedOnce' /\ AwaitedOK'
  BY <1>1, <1>2, <1>3, <1>6 DEF ManagerInv, TypeOK, RemovedOnce, AwaitedOK, DeletePlaces
<1>10. LoopsOwned'
  <2>1. Loops' = Loops
    BY <1>5, <1>6 DEF Loops, Alive
  <2> QED
    BY <1>1, <1>3, <2>1 DEF ManagerInv, LoopsOwned, Owned, Mapped
<1> QED
  BY <1>4, <1>7, <1>8, <1>9, <1>10 DEF ManagerInv

\* The steps of an upsert that change nothing of the map nor of the goroutines.
LEMMA UpsertStep ==
  ASSUME ManagerInv, NEW h \in Handler,
         PublishCreated(h) \/ UpdateStation(h) \/ (\E id \in Id : UpdateSource(h, id))
  PROVE  ManagerInv'
<1>1. UNCHANGED <<stations, run, main, awaited, timedOut>>
  BY DEF PublishCreated, UpdateStation, UpdateSource, runnerVars, mainVars
<1>2. PICK there \in {"idle", "update"}, r \in Runner \cup {None} :
        /\ Goto(h, there, r) /\ at[h] \in {"idle", "created", "update"}
        /\ there = "update" => r \in Runner /\ run[r] # "none"
  <2>1. CASE PublishCreated(h)
    BY <2>1 DEF PublishCreated
  <2>2. CASE UpdateStation(h)
    BY <2>2 DEF UpdateStation
  <2>3. ASSUME NEW id \in Id, UpdateSource(h, id)
        PROVE  /\ Goto(h, "update", stations[id]) /\ at[h] = "idle"
               /\ stations[id] \in Runner /\ run[stations[id]] # "none"
    BY <2>3 DEF UpdateSource, ManagerInv, TypeOK, MapOK
  <2> QED
    BY <2>1, <2>2, <2>3
<1>3. /\ at'[h] = there /\ target'[h] = r
      /\ \A g \in Handler \ {h} : at'[g] = at[g] /\ target'[g] = target[g]
  BY <1>2, DeletingAfter DEF ManagerInv, Places
<1>4. Deleting' = Deleting
  BY <1>2, DeletingKept DEF ManagerInv, Places, DeletePlaces
<1>5. TypeOK'
  <2>1. at' \in [Handler -> Places] /\ target' \in [Handler -> Runner \cup {None}]
    BY <1>2 DEF ManagerInv, TypeOK, Goto, Places
  <2>2. /\ source' \in [Runner -> Handler \cup {None}] /\ config' \in [Runner -> Handler \cup {None}]
        /\ contended' \subseteq Runner /\ UNCHANGED <<owner, stopped>>
    BY DEF ManagerInv, TypeOK, PublishCreated, UpdateStation, UpdateSource, runnerVars
  <2> QED
    BY <1>1, <2>1, <2>2 DEF ManagerInv, TypeOK
<1>6. MapOK' /\ AwaitedOK'
  BY <1>1, <1>4 DEF ManagerInv, MapOK, AwaitedOK
<1>7. HandlersOK'
  BY <1>1, <1>2, <1>3 DEF ManagerInv, HandlersOK
<1>8. RemovedOnce'
  BY <1>1, <1>2, <1>3, <1>4 DEF ManagerInv, RemovedOnce, DeletePlaces
<1>9. LoopsOwned'
  BY <1>1, <1>4, OwnersKept DEF ManagerInv
<1> QED
  BY <1>5, <1>6, <1>7, <1>8, <1>9 DEF ManagerInv

LEMMA RemoveStep ==
  ASSUME ManagerInv, NEW h \in Handler, NEW id \in Id, Remove(h, id)
  PROVE  ManagerInv'
<1> DEFINE r == stations[id]
<1>1. /\ at[h] = "idle" /\ r # None
      /\ stations' = [stations EXCEPT ![id] = None]
      /\ Goto(h, "cancel", r)
      /\ UNCHANGED <<owner, run, stopped, source, config, contended, main, awaited, timedOut>>
  BY DEF Remove, runnerVars, mainVars
<1>2. r \in Runner /\ run[r] # "none" /\ r \notin Deleting \cup awaited
  BY <1>1 DEF ManagerInv, TypeOK, MapOK
<1>3. /\ at'[h] = "cancel" /\ target'[h] = r
      /\ \A g \in Handler \ {h} : at'[g] = at[g] /\ target'[g] = target[g]
  BY <1>1, DeletingAfter DEF ManagerInv, Places
<1>4. stations'[id] = None /\ \A i \in Id \ {id} : stations'[i] = stations[i]
  BY <1>1 DEF ManagerInv, TypeOK
<1>5. Deleting' = Deleting \cup {r}
  <2>1. \A x : x \in Deleting <=> \E g \in Handler : at[g] \in DeletePlaces /\ target[g] = x
    BY DEF Deleting, DeletePlaces
  <2>2. \A x : x \in Deleting' <=> \E g \in Handler : at'[g] \in DeletePlaces /\ target'[g] = x
    BY DEF Deleting, DeletePlaces
  <2> QED
    BY <1>1, <1>3, <2>1, <2>2 DEF DeletePlaces
<1>6. TypeOK'
  BY <1>1, <1>2 DEF ManagerInv, TypeOK, Goto, Places
<1>7. MapOK'
  BY <1>1, <1>4, <1>5 DEF ManagerInv, MapOK
<1>8. HandlersOK' /\ AwaitedOK'
  BY <1>1, <1>2, <1>3 DEF ManagerInv, HandlersOK, AwaitedOK
<1>9. RemovedOnce'
  <2>1. \A g \in Handler : at[g] \in DeletePlaces => target[g] # r
    BY <1>2 DEF Deleting, DeletePlaces
  <2> QED
    BY <1>1, <1>2, <1>3, <1>5, <2>1 DEF ManagerInv, RemovedOnce
<1>10. LoopsOwned'
  <2>1. Loops' = Loops
    BY <1>1 DEF Loops, Alive
  <2>2. {stations[i] : i \in Mapped} \subseteq {stations[i] : i \in Mapped}' \cup {r}
    BY <1>4 DEF Mapped
  <2> QED
    BY <1>1, <1>5, <2>1, <2>2 DEF ManagerInv, LoopsOwned, Owned
<1> QED
  BY <1>6, <1>7, <1>8, <1>9, <1>10 DEF ManagerInv

\* The delete cancels its runner, and awaits its end.
LEMMA DeleteStep ==
  ASSUME ManagerInv, NEW h \in Handler, CancelRunner(h) \/ AwaitRunner(h)
  PROVE  ManagerInv'
<1>1. UNCHANGED <<stations, owner, run, source, config, contended, main, awaited, timedOut>>
  BY DEF CancelRunner, AwaitRunner, runnerVars, mainVars
<1>2. PICK there \in {"await", "deleted"} :
        /\ Goto(h, there, target[h]) /\ at[h] \in {"cancel", "await"}
        /\ there = "deleted" => run[target[h]] = "ended"
  BY DEF CancelRunner, AwaitRunner
<1>3. /\ at'[h] = there /\ target'[h] = target[h]
      /\ \A g \in Handler \ {h} : at'[g] = at[g] /\ target'[g] = target[g]
  BY <1>2, DeletingAfter DEF ManagerInv, Places
<1>4. Deleting' = Deleting
  BY <1>2, DeletingMoved DEF ManagerInv, DeletePlaces
<1>5. target[h] \in Runner
  BY <1>2 DEF ManagerInv, HandlersOK
<1>6. TypeOK'
  <2>1. stopped' \subseteq Runner
    BY <1>5 DEF ManagerInv, TypeOK, CancelRunner, AwaitRunner, runnerVars
  <2> QED
    BY <1>1, <1>2, <2>1 DEF ManagerInv, TypeOK, Goto, Places
<1>7. MapOK' /\ AwaitedOK'
  BY <1>1, <1>4 DEF ManagerInv, MapOK, AwaitedOK
<1>8. HandlersOK'
  BY <1>1, <1>2, <1>3 DEF ManagerInv, HandlersOK
<1>9. RemovedOnce'
  BY <1>1, <1>2, <1>3, <1>4 DEF ManagerInv, RemovedOnce, DeletePlaces
<1>10. LoopsOwned'
  BY <1>1, <1>4, OwnersKept DEF ManagerInv
<1> QED
  BY <1>6, <1>7, <1>8, <1>9, <1>10 DEF ManagerInv

\* The delete that is over has left no loop behind.
LEMMA DeletedStep ==
  ASSUME ManagerInv, NEW h \in Handler, PublishDeleted(h)
  PROVE  ManagerInv'
<1>1. /\ at[h] = "deleted" /\ Goto(h, "idle", None)
      /\ UNCHANGED <<stations, owner, run, stopped, source, config, contended, main, awaited,
                     timedOut>>
  BY DEF PublishDeleted, runnerVars, mainVars
<1>2. /\ at'[h] = "idle" /\ target'[h] = None
      /\ \A g \in Handler \ {h} : at'[g] = at[g] /\ target'[g] = target[g]
  BY <1>1, DeletingAfter DEF ManagerInv, Places
<1>3. Deleting' \subseteq Deleting /\ Deleting \subseteq Deleting' \cup {target[h]}
  <2>1. \A x : x \in Deleting <=> \E g \in Handler : at[g] \in DeletePlaces /\ target[g] = x
    BY DEF Deleting, DeletePlaces
  <2>2. \A x : x \in Deleting' <=> \E g \in Handler : at'[g] \in DeletePlaces /\ target'[g] = x
    BY DEF Deleting, DeletePlaces
  <2> QED
    BY <1>1, <1>2, <2>1, <2>2 DEF DeletePlaces
<1>4. TypeOK'
  BY <1>1 DEF ManagerInv, TypeOK, Goto, Places
<1>5. MapOK' /\ AwaitedOK'
  BY <1>1, <1>3 DEF ManagerInv, MapOK, AwaitedOK
<1>6. HandlersOK'
  BY <1>1, <1>2 DEF ManagerInv, HandlersOK
<1>7. RemovedOnce'
  BY <1>1, <1>2, <1>3 DEF ManagerInv, RemovedOnce, DeletePlaces
<1>8. LoopsOwned'
  <2>1. Loops' = Loops /\ target[h] \notin Loops
    BY <1>1 DEF ManagerInv, HandlersOK, Loops, Alive
  <2> QED
    BY <1>1, <1>3, <2>1 DEF ManagerInv, LoopsOwned, Owned, Mapped
<1> QED
  BY <1>4, <1>5, <1>6, <1>7, <1>8 DEF ManagerInv

\* A goroutine starts, or ends for good.
LEMMA RunStep ==
  ASSUME ManagerInv, NEW r \in Runner, RunStarts(r) \/ RunReturns(r)
  PROVE  ManagerInv'
<1>1. UNCHANGED <<stations, owner, stopped, source, config, contended, at, target, main, awaited,
                  timedOut>>
  BY DEF RunStarts, RunReturns, handlerVars, mainVars
<1>2. PICK life \in {"running", "ended"} :
        run' = [run EXCEPT ![r] = life] /\ run[r] \in {"launched", "running"}
  BY DEF RunStarts, RunReturns
<1>3. run'[r] = life /\ \A q \in Runner \ {r} : run'[q] = run[q]
  BY <1>2 DEF ManagerInv, TypeOK
<1>4. TypeOK'
  BY <1>1, <1>2 DEF ManagerInv, TypeOK, Lives
<1>5. Deleting' = Deleting
  BY <1>1 DEF Deleting
<1>6. MapOK'
  BY <1>1, <1>2, <1>3, <1>5 DEF ManagerInv, TypeOK, MapOK
<1>7. HandlersOK'
  BY <1>1, <1>2, <1>3 DEF ManagerInv, HandlersOK
<1>8. RemovedOnce' /\ AwaitedOK'
  BY <1>1, <1>2, <1>3, <1>5 DEF ManagerInv, TypeOK, RemovedOnce, AwaitedOK
<1>9. LoopsOwned'
  <2>1. Loops' \subseteq Loops
    BY <1>2, <1>3 DEF Loops, Alive
  <2> QED
    BY <1>1, <1>5, <2>1 DEF ManagerInv, LoopsOwned, Owned, Mapped
<1> QED
  BY <1>4, <1>6, <1>7, <1>8, <1>9 DEF ManagerInv

\* stopAll takes what the map holds, and empties it.
LEMMA CollectStep == ManagerInv /\ CollectAll => ManagerInv'
<1> SUFFICES ASSUME ManagerInv, CollectAll PROVE ManagerInv'
  OBVIOUS
<1>1. /\ main = "cancelled" /\ main' = "stopping"
      /\ awaited' = {stations[id] : id \in Mapped}
      /\ stopped' = stopped \cup {stations[id] : id \in Mapped}
      /\ stations' = [id \in Id |-> None]
      /\ UNCHANGED <<owner, run, source, config, contended, at, target, timedOut>>
  BY DEF CollectAll, Advance, handlerVars
<1>2. awaited' \subseteq Runner /\ \A r \in awaited' : run[r] # "none" /\ r \notin Deleting
  BY <1>1 DEF ManagerInv, TypeOK, MapOK, Mapped
<1>3. TypeOK'
  BY <1>1, <1>2 DEF ManagerInv, TypeOK, Stages
<1>4. Deleting' = Deleting
  BY <1>1 DEF Deleting
<1>5. MapOK' /\ HandlersOK'
  BY <1>1 DEF ManagerInv, MapOK, HandlersOK
<1>6. RemovedOnce' /\ AwaitedOK'
  BY <1>1, <1>2, <1>4 DEF ManagerInv, RemovedOnce, AwaitedOK
<1>7. LoopsOwned'
  <2>1. Loops' = Loops /\ awaited = {}
    BY <1>1 DEF ManagerInv, AwaitedOK, Loops, Alive
  <2> QED
    BY <1>1, <1>4, <2>1 DEF ManagerInv, LoopsOwned, Owned
<1> QED
  BY <1>3, <1>5, <1>6, <1>7 DEF ManagerInv

\* stopAll has seen the end of a runner, or waits for it no longer.
LEMMA AwaitStep ==
  ASSUME ManagerInv, NEW r \in Runner, AwaitOne(r)
  PROVE  ManagerInv'
<1>1. /\ main = "stopping" /\ r \in awaited /\ awaited' = awaited \ {r}
      /\ (run[r] = "ended" /\ timedOut' = timedOut) \/ timedOut' = timedOut \cup {r}
      /\ UNCHANGED <<stations, owner, run, stopped, source, config, contended, at, target, main>>
  BY DEF AwaitOne, runnerVars, handlerVars
<1>2. TypeOK'
  BY <1>1 DEF ManagerInv, TypeOK
<1>3. Deleting' = Deleting
  BY <1>1 DEF Deleting
<1>4. MapOK' /\ HandlersOK'
  BY <1>1, <1>3 DEF ManagerInv, MapOK, HandlersOK
<1>5. RemovedOnce' /\ AwaitedOK'
  BY <1>1, <1>3 DEF ManagerInv, RemovedOnce, AwaitedOK
<1>6. LoopsOwned'
  <2>1. Loops' = Loops /\ (r \in Loops => run[r] # "ended")
    BY <1>1 DEF Loops, Alive
  <2>2. {stations[id] : id \in Mapped} = {stations[id] : id \in Mapped}'
    BY <1>1 DEF Mapped
  <2> QED
    BY <1>1, <1>3, <2>1, <2>2 DEF ManagerInv, LoopsOwned, Owned
<1> QED
  BY <1>2, <1>4, <1>5, <1>6 DEF ManagerInv

\* The other stages of Manager.Run.
LEMMA StageStep == ManagerInv /\ (MarkClosed \/ CancelRoot \/ AllAwaited \/ EventsClosed) => ManagerInv'
<1> SUFFICES ASSUME ManagerInv, MarkClosed \/ CancelRoot \/ AllAwaited \/ EventsClosed PROVE ManagerInv'
  OBVIOUS
<1>1. UNCHANGED <<stations, owner, run, stopped, source, config, contended, at, target, awaited,
                  timedOut>>
  BY DEF MarkClosed, CancelRoot, AllAwaited, EventsClosed, runnerVars, handlerVars
<1>2. /\ main' \in Stages \ {"stopping"}
      /\ main' \in {"closing", "over"} => main \in {"stopping", "closing"}
      /\ awaited = {}
  BY DEF MarkClosed, CancelRoot, AllAwaited, EventsClosed, Advance, Stages, ManagerInv, AwaitedOK
<1>3. Deleting' = Deleting
  BY <1>1 DEF Deleting
<1>4. TypeOK' /\ HandlersOK'
  BY <1>1, <1>2 DEF ManagerInv, TypeOK, HandlersOK
<1>5. MapOK'
  BY <1>1, <1>2, <1>3 DEF ManagerInv, MapOK
<1>6. RemovedOnce' /\ AwaitedOK'
  BY <1>1, <1>2, <1>3 DEF ManagerInv, RemovedOnce, AwaitedOK
<1>7. LoopsOwned'
  BY <1>1, <1>3, OwnersKept DEF ManagerInv
<1> QED
  BY <1>4, <1>5, <1>6, <1>7 DEF ManagerInv

LEMMA ManagerNextInv == ManagerInv /\ [ManagerNext]_managerVars => ManagerInv'
<1> SUFFICES ASSUME ManagerInv, [ManagerNext]_managerVars PROVE ManagerInv'
  OBVIOUS
<1>1. ASSUME NEW h \in Handler, Upsert(h) PROVE ManagerInv'
  BY <1>1, RegisterStep, LaunchStep, UpsertStep DEF Upsert
<1>2. ASSUME NEW h \in Handler, Delete(h) PROVE ManagerInv'
  BY <1>2, RemoveStep, DeleteStep, DeletedStep DEF Delete
<1>3. ASSUME NEW r \in Runner, RunStarts(r) \/ RunReturns(r) PROVE ManagerInv'
  BY <1>3, RunStep
<1>4. CASE Shutdown
  BY <1>4, CollectStep, AwaitStep, StageStep DEF Shutdown
<1>5. CASE UNCHANGED managerVars
  <2>1. UNCHANGED <<stations, owner, run, stopped, source, config, contended, at, target, main,
                    awaited, timedOut>>
    BY <1>5 DEF managerVars, runnerVars, handlerVars, mainVars
  <2>2. TypeOK' /\ MapOK' /\ HandlersOK'
    BY <2>1 DEF ManagerInv, TypeOK, MapOK, HandlersOK, Deleting
  <2>3. RemovedOnce' /\ AwaitedOK'
    BY <2>1 DEF ManagerInv, RemovedOnce, AwaitedOK, Deleting
  <2>4. LoopsOwned'
    BY <2>1, OwnersKept DEF ManagerInv, Deleting
  <2> QED
    BY <2>2, <2>3, <2>4 DEF ManagerInv
<1> QED
  BY <1>1, <1>2, <1>3, <1>4, <1>5 DEF ManagerNext

THEOREM ManagerInvHolds == ManagerSpec => []ManagerInv
BY ManagerInitInv, ManagerNextInv, PTL DEF ManagerSpec

-----------------------------------------------------------------------------

\* No loop is forgotten, however upserts, deletes and the shutdown overlap
\* (UpsertStation, removeRunner, DeleteStation, stopAll).
THEOREM NoOrphanLoopHolds == ManagerSpec => []NoOrphanLoop
<1>1. ManagerInv => NoOrphanLoop
  <2> SUFFICES ASSUME ManagerInv PROVE NoOrphanLoop
    OBVIOUS
  <2>1. main = "over" => awaited = {} /\ Mapped = {}
    BY DEF ManagerInv, AwaitedOK, MapOK, Mapped
  <2> QED
    BY <2>1 DEF ManagerInv, LoopsOwned, Owned, NoOrphanLoop
<1> QED
  BY <1>1, ManagerInvHolds, PTL

\* done has one reader: a delete and stopAll never wait for the same runner
\* (removeRunner, stopAll).
THEOREM OneReaderOfDoneHolds == ManagerSpec => []OneReaderOfDone
<1>1. ManagerInv => OneReaderOfDone
  BY DEF ManagerInv, RemovedOnce, DeletePlaces, OneReaderOfDone
<1> QED
  BY <1>1, ManagerInvHolds, PTL

-----------------------------------------------------------------------------
(* The two halves of an update. *)

(* The upsert that updates an uncontended station is the one its source is  *)
(* from.                                                                    *)
UpdaterOwnsSource ==
  \A r \in Runner \ contended, h \in Handler :
    at[h] = "update" /\ target[h] = r => source[r] = h

\* Steps that touch neither an update nor the configuration.
LEMMA ConfigsKept ==
  ASSUME ConfigsAgree, UpdaterOwnsSource, UNCHANGED <<source, config, contended>>,
         \A h \in Handler : \/ at'[h] = at[h] /\ target'[h] = target[h]
                            \/ at[h] # "update" /\ at'[h] # "update"
  PROVE  ConfigsAgree' /\ UpdaterOwnsSource'
BY DEF ConfigsAgree, UpdaterOwnsSource

LEMMA ConfigStep ==
  ASSUME ManagerInv, ConfigsAgree, UpdaterOwnsSource, [ManagerNext]_managerVars
  PROVE  ConfigsAgree' /\ UpdaterOwnsSource'
<1>1. ASSUME NEW h \in Handler, NEW id \in Id, NEW r \in Runner, Register(h, id, r)
      PROVE  ConfigsAgree' /\ UpdaterOwnsSource'
  <2>1. /\ run[r] = "none" /\ contended' = contended /\ Goto(h, "launch", r) /\ at[h] = "idle"
        /\ source' = [source EXCEPT ![r] = h] /\ config' = [config EXCEPT ![r] = h]
    BY <1>1 DEF Register
  <2>2. /\ at'[h] = "launch"
        /\ \A g \in Handler \ {h} : at'[g] = at[g] /\ target'[g] = target[g]
    BY <2>1, DeletingAfter DEF ManagerInv, Places
  <2>3. \A g \in Handler : at[g] = "update" => target[g] # r
    BY <2>1 DEF ManagerInv, HandlersOK
  <2>4. /\ source'[r] = config'[r]
        /\ \A q \in Runner \ {r} : source'[q] = source[q] /\ config'[q] = config[q]
    BY <2>1 DEF ManagerInv, TypeOK
  <2> QED
    BY <2>1, <2>2, <2>3, <2>4 DEF ConfigsAgree, UpdaterOwnsSource
<1>2. ASSUME NEW h \in Handler, NEW id \in Id, UpdateSource(h, id)
      PROVE  ConfigsAgree' /\ UpdaterOwnsSource'
  <2> DEFINE r == stations[id]
  <2>1. /\ at[h] = "idle" /\ r # None /\ config' = config /\ Goto(h, "update", r)
        /\ source' = [source EXCEPT ![r] = h]
        /\ contended' = contended \cup
             {q \in {r} : \E g \in Handler : at[g] = "update" /\ target[g] = q}
    BY <1>2 DEF UpdateSource
  <2>2. r \in Runner
    BY <2>1 DEF ManagerInv, TypeOK
  <2>3. /\ at'[h] = "update" /\ target'[h] = r
        /\ \A g \in Handler \ {h} : at'[g] = at[g] /\ target'[g] = target[g]
    BY <2>1, DeletingAfter DEF ManagerInv, Places
  <2>4. source'[r] = h /\ \A q \in Runner \ {r} : source'[q] = source[q]
    BY <2>1, <2>2 DEF ManagerInv, TypeOK
  <2>5. ConfigsAgree'
    BY <2>1, <2>2, <2>3, <2>4 DEF ConfigsAgree
  <2>6. UpdaterOwnsSource'
    <3> SUFFICES ASSUME NEW q \in Runner \ contended', NEW g \in Handler,
                        at'[g] = "update", target'[g] = q
                 PROVE  source'[q] = g
      BY DEF UpdaterOwnsSource
    <3>1. CASE g = h
      BY <2>3, <2>4, <3>1
    <3>2. CASE g # h
      <4>1. at[g] = "update" /\ target[g] = q /\ q \notin contended
        BY <2>1, <2>3, <3>2
      <4>2. q # r
        BY <2>1, <4>1
      <4> QED
        BY <2>4, <4>1, <4>2 DEF UpdaterOwnsSource
    <3> QED
      BY <3>1, <3>2
  <2> QED
    BY <2>5, <2>6
<1>3. ASSUME NEW h \in Handler, UpdateStation(h)
      PROVE  ConfigsAgree' /\ UpdaterOwnsSource'
  <2> DEFINE r == target[h]
  <2>1. /\ at[h] = "update" /\ config' = [config EXCEPT ![r] = h] /\ Goto(h, "idle", None)
        /\ UNCHANGED <<source, contended>>
    BY <1>3 DEF UpdateStation
  <2>2. r \in Runner
    BY <2>1 DEF ManagerInv, HandlersOK
  <2>3. at'[h] = "idle" /\ \A g \in Handler \ {h} : at'[g] = at[g] /\ target'[g] = target[g]
    BY <2>1, DeletingAfter DEF ManagerInv, Places
  <2>4. config'[r] = h /\ \A q \in Runner \ {r} : config'[q] = config[q]
    BY <2>1, <2>2 DEF ManagerInv, TypeOK
  <2>5. r \notin contended => source[r] = h
    BY <2>1, <2>2 DEF UpdaterOwnsSource
  <2> QED
    BY <2>1, <2>2, <2>3, <2>4, <2>5 DEF ConfigsAgree, UpdaterOwnsSource
<1>4. ASSUME NEW h \in Handler,
             \/ Launch(h) \/ PublishCreated(h) \/ Delete(h)
      PROVE  ConfigsAgree' /\ UpdaterOwnsSource'
  <2>1. UNCHANGED <<source, config, contended>> /\ at[h] # "update"
    BY <1>4 DEF Launch, PublishCreated, Delete, Remove, CancelRunner, AwaitRunner, PublishDeleted,
                runnerVars
  <2>2. PICK there \in Places \ {"update"}, r \in Runner \cup {None} : Goto(h, there, r)
    BY <1>4 DEF Launch, PublishCreated, Delete, Remove, CancelRunner, AwaitRunner, PublishDeleted,
                ManagerInv, TypeOK, Places
  <2>3. at'[h] # "update" /\ \A g \in Handler \ {h} : at'[g] = at[g] /\ target'[g] = target[g]
    BY <2>2, DeletingAfter DEF ManagerInv
  <2> QED
    BY <2>1, <2>3, ConfigsKept
<1>5. CASE (\E r \in Runner : RunStarts(r) \/ RunReturns(r)) \/ Shutdown \/ UNCHANGED managerVars
  <2>1. UNCHANGED <<source, config, contended, at, target>>
    BY <1>5 DEF RunStarts, RunReturns, Shutdown, MarkClosed, CancelRoot, CollectAll, AwaitOne,
                AllAwaited, EventsClosed, managerVars, runnerVars, handlerVars
  <2> QED
    BY <2>1, ConfigsKept
<1> QED
  BY <1>1, <1>2, <1>3, <1>4, <1>5 DEF ManagerNext, Upsert

\* Upserts that do not overlap leave a station and its source with the same
\* configuration (UpsertStation, UpdateConfig).
THEOREM ConfigsAgreeHolds == ManagerSpec => []ConfigsAgree
<1>1. ManagerInit => ConfigsAgree /\ UpdaterOwnsSource
  BY DEF ManagerInit, ConfigsAgree, UpdaterOwnsSource
<1>2. ManagerInv /\ ConfigsAgree /\ UpdaterOwnsSource /\ [ManagerNext]_managerVars => ConfigsAgree' /\ UpdaterOwnsSource'
  BY ConfigStep
<1> QED
  BY <1>1, <1>2, ManagerInvHolds, PTL DEF ManagerSpec

-----------------------------------------------------------------------------
(* The process: its events are numbered, and the manager goes on in it. *)

\* What an event tells.
Tells(type, r) == [type |-> type, runner |-> r]

Word == {"created", "started", "aside", "stopped", "updated", "deleted"}

Message == [type : Word, runner : Runner]

Events == 1..sequence

Taken(e) == \E k \in 1..Len(accepted) : accepted[k] = e

Underway(e) == \E p \in Publisher : ~Idle(p) /\ event[p] = e

NumbersTypeOK ==
  /\ sequence \in Nat /\ sequence <= MaxEvents
  /\ meaning \in Seq(Message) /\ Len(meaning) = sequence
  /\ place \in [Publisher -> {"idle", "check", "send"}] /\ event \in [Publisher -> Nat]
  /\ accepted \in Seq(Nat) /\ queue \in Seq(Nat) /\ Len(queue) <= Len(accepted)

\* A number is carried by one publisher, or taken by the queue once, or lost.
Numbered ==
  /\ \A k \in 1..Len(accepted) : accepted[k] \in Events
  /\ \A i, k \in 1..Len(accepted) : accepted[i] = accepted[k] => i = k
  /\ \A p \in Publisher : ~Idle(p) => event[p] \in Events /\ ~Taken(event[p])
  /\ \A p, q \in Publisher : p # q /\ ~Idle(p) /\ ~Idle(q) => event[p] # event[q]
  /\ \A e \in Events : Taken(e) \/ Underway(e) \/ e \in lost

\* Nothing is lost before Close.
Kept ==
  /\ ~closed => lost = {}
  /\ closer # "open" => closed
  /\ ~channelOpen => closed

Numbers == NumbersTypeOK /\ Numbered /\ Kept

LEMMA MaxEventsType == MaxEvents \in Nat
BY ManagerAssumption, ProcessAssumption DEF MaxEvents

\* The queue has room for every event: Publish refuses none of them before Close.
LEMMA Room ==
  ASSUME Numbers, NEW p \in Publisher, ~Idle(p)
  PROVE  Len(queue) < MaxEvents
<1> DEFINE n == Len(accepted)
           others == Events \ {event[p]}
           taken == [k \in 1..n |-> accepted[k]]
<1>1. /\ n \in Nat /\ sequence \in Nat /\ sequence <= MaxEvents
      /\ Len(queue) \in Nat /\ Len(queue) <= n
  BY DEF Numbers, NumbersTypeOK
<1>2. event[p] \in Events /\ ~Taken(event[p])
  BY DEF Numbers, Numbered
<1>3. IsFiniteSet(Events) /\ Cardinality(Events) = sequence
  <2>1. 1 \in Int /\ sequence \in Int
    BY <1>1
  <2>2. /\ IsFiniteSet(1..sequence)
        /\ Cardinality(1..sequence) = IF 1 > sequence THEN 0 ELSE sequence - 1 + 1
    BY <2>1, FS_Interval
  <2> QED
    BY <1>1, <2>2 DEF Events
<1>4. IsFiniteSet(others) /\ Cardinality(others) = sequence - 1
  BY <1>2, <1>3, FS_RemoveElement
<1>5. taken \in Injection(1..n, others)
  <2>1. \A k \in 1..n : accepted[k] \in others
    BY <1>2 DEF Numbers, Numbered, Taken
  <2>2. \A i, k \in 1..n : accepted[i] = accepted[k] => i = k
    BY DEF Numbers, Numbered
  <2> QED
    BY <2>1, <2>2 DEF Injection, IsInjective
<1>6. IsFiniteSet(1..n) /\ Cardinality(1..n) = n
  <2>1. 1 \in Int /\ n \in Int
    BY <1>1
  <2>2. IsFiniteSet(1..n) /\ Cardinality(1..n) = IF 1 > n THEN 0 ELSE n - 1 + 1
    BY <2>1, FS_Interval
  <2> QED
    BY <1>1, <2>2
<1>7. Cardinality(1..n) <= Cardinality(others)
  BY <1>4, <1>5, <1>6, FS_Injection
<1> QED
  BY <1>1, <1>4, <1>6, <1>7, MaxEventsType

\* An event that is begun gets the next number, and tells what it says.
LEMMA EmitFacts ==
  ASSUME Numbers, NEW p \in Publisher, NEW type \in Word, NEW r \in Runner, Emit(p, type, r)
  PROVE  /\ Idle(p) /\ sequence' = sequence + 1 /\ sequence' <= MaxEvents
         /\ place' = [place EXCEPT ![p] = "check"]
         /\ event' = [event EXCEPT ![p] = sequence + 1]
         /\ meaning' \in Seq(Message) /\ Len(meaning') = sequence + 1
         /\ meaning'[sequence + 1] = Tells(type, r)
         /\ \A e \in Events : meaning'[e] = meaning[e]
         /\ UNCHANGED <<accepted, lost, queue, closed, channelOpen, closer, panicked>>
<1>1. /\ place[p] = "idle" /\ sequence < MaxEvents /\ sequence' = sequence + 1
      /\ event' = [event EXCEPT ![p] = sequence + 1]
      /\ place' = [place EXCEPT ![p] = "check"]
      /\ UNCHANGED <<accepted, lost, queue, closed, channelOpen, closer, panicked>>
  BY DEF Emit, D!Number, D!workerVars, D!closeVars
<1>2. meaning' = Append(meaning, Tells(type, r)) /\ Tells(type, r) \in Message
  BY DEF Emit, Tells, Message
<1>3. meaning \in Seq(Message) /\ Len(meaning) = sequence /\ sequence \in Nat
  BY DEF Numbers, NumbersTypeOK
<1>4. /\ meaning' \in Seq(Message) /\ Len(meaning') = sequence + 1
      /\ meaning'[sequence + 1] = Tells(type, r)
      /\ \A e \in 1..sequence : meaning'[e] = meaning[e]
  BY <1>2, <1>3, AppendProperties
<1> QED
  BY <1>1, <1>3, <1>4, MaxEventsType DEF Events, Idle

LEMMA EmitNumbers ==
  ASSUME Numbers, NEW p \in Publisher, NEW type \in Word, NEW r \in Runner, Emit(p, type, r)
  PROVE  Numbers'
<1>1. /\ Idle(p) /\ sequence' = sequence + 1 /\ sequence' <= MaxEvents
      /\ place' = [place EXCEPT ![p] = "check"]
      /\ event' = [event EXCEPT ![p] = sequence + 1]
      /\ meaning' \in Seq(Message) /\ Len(meaning') = sequence + 1
      /\ UNCHANGED <<accepted, lost, queue, closed, channelOpen, closer>>
  BY EmitFacts
<1>2. /\ sequence \in Nat /\ place \in [Publisher -> {"idle", "check", "send"}]
      /\ event \in [Publisher -> Nat] /\ accepted \in Seq(Nat) /\ queue \in Seq(Nat)
      /\ Len(queue) <= Len(accepted)
  BY DEF Numbers, NumbersTypeOK
<1>3. /\ ~Idle(p)' /\ event'[p] = sequence + 1
      /\ \A q \in Publisher \ {p} : place'[q] = place[q] /\ event'[q] = event[q]
  BY <1>1, <1>2 DEF Idle
<1>4. NumbersTypeOK'
  BY <1>1, <1>2 DEF NumbersTypeOK
<1>5. Events' = Events \cup {sequence + 1} /\ sequence + 1 \notin Events
  BY <1>1, <1>2 DEF Events
<1>6. \A e : Taken(e)' <=> Taken(e)
  BY <1>1 DEF Taken
<1>7. Numbered'
  <2>1. /\ \A k \in 1..Len(accepted') : accepted'[k] \in Events'
        /\ \A i, k \in 1..Len(accepted') : accepted'[i] = accepted'[k] => i = k
    BY <1>1, <1>5 DEF Numbers, Numbered
  <2>2. \A q \in Publisher : ~Idle(q)' => event'[q] \in Events' /\ ~Taken(event'[q])
    <3>1. ~Taken(sequence + 1)
      BY <1>5 DEF Numbers, Numbered, Taken
    <3> QED
      BY <1>3, <1>5, <3>1 DEF Numbers, Numbered, Idle
  <2>3. \A q \in Publisher : ~Idle(q)' => ~Taken(event[q])'
    BY <2>2, <1>1 DEF Taken
  <2>4. \A q, s \in Publisher : q # s /\ ~Idle(q)' /\ ~Idle(s)' => event'[q] # event'[s]
    BY <1>3, <1>5 DEF Numbers, Numbered, Idle
  <2>5. \A e \in Events' : Taken(e)' \/ Underway(e)' \/ e \in lost'
    <3>1. \A e : e = sequence + 1 => Underway(e)'
      BY <1>3, <1>1 DEF Underway
    <3>2. \A e : Underway(e) => Underway(e)'
      BY <1>1, <1>3 DEF Underway, Idle
    <3> QED
      BY <1>1, <1>5, <1>6, <3>1, <3>2 DEF Numbers, Numbered
  <2> QED
    BY <2>1, <2>2, <2>3, <2>4, <2>5 DEF Numbered
<1>8. Kept'
  BY <1>1 DEF Numbers, Kept
<1> QED
  BY <1>4, <1>7, <1>8 DEF Numbers

\* What a step of a publication comes to: the event is refused, which only a
\* dispatcher that is closed does; the publisher goes on to its send, or stays
\* there in a panic; or the queue takes the event.
Refused(p) ==
  /\ closed /\ lost' = lost \cup {event[p]}
  /\ place' = [place EXCEPT ![p] = "idle"]
  /\ UNCHANGED <<accepted, queue, panicked>>

AtSend(p) ==
  /\ place' = [place EXCEPT ![p] = "send"]
  /\ UNCHANGED <<accepted, queue, lost>>
  /\ panicked' # panicked => ~channelOpen /\ place[p] = "send" /\ p \notin Requests

QueueTakes(p) ==
  /\ place' = [place EXCEPT ![p] = "idle"]
  /\ queue' = Append(queue, event[p]) /\ accepted' = Append(accepted, event[p])
  /\ UNCHANGED <<lost, panicked>>

LEMMA PublishOutcomes ==
  ASSUME Numbers, NEW p \in Publisher, Publish(p)
  PROVE  /\ ~Idle(p)
         /\ UNCHANGED <<sequence, event, closed, channelOpen, closer>>
         /\ UNCHANGED <<managerVars, serverVars, meaning, collected, requests>>
         /\ Refused(p) \/ AtSend(p) \/ QueueTakes(p)
<1>1. UNCHANGED <<managerVars, serverVars, meaning, collected, requests>>
  BY DEF Publish
<1>2. CASE D!CheckClosed(p)
  <2>1. ~Idle(p) /\ UNCHANGED <<sequence, event, closed, channelOpen, closer>>
    BY <1>2 DEF D!CheckClosed, D!closeVars, Idle
  <2>2. Refused(p) \/ AtSend(p)
    BY <1>2 DEF D!CheckClosed, D!Published, Refused, AtSend
  <2> QED
    BY <1>1, <2>1, <2>2
<1>3. CASE D!Enqueue(p)
  <2>1. ~Idle(p) /\ UNCHANGED <<sequence, event, closed, channelOpen, closer>>
    BY <1>3 DEF D!Enqueue, D!closeVars, Idle
  <2>2. Len(queue) < MaxEvents
    BY <2>1, Room
  <2>3. QueueTakes(p)
    BY <1>3, <2>2 DEF D!Enqueue, D!Published, D!HasRoom, QueueTakes
  <2> QED
    BY <1>1, <2>1, <2>3
<1>4. CASE D!SendPanics(p)
  <2>1. ~Idle(p) /\ UNCHANGED <<sequence, event, closed, channelOpen, closer>>
    BY <1>4 DEF D!SendPanics, D!closeVars, D!publishVars, Idle
  <2>2. place \in [Publisher -> {"idle", "check", "send"}] /\ (~channelOpen => closed)
    BY DEF Numbers, NumbersTypeOK, Kept
  <2>3. CASE p \in Requests
    <3>1. /\ place' = [place EXCEPT ![p] = "idle"] /\ lost' = lost \cup {event[p]}
          /\ UNCHANGED <<accepted, queue, panicked>> /\ ~channelOpen
      BY <1>4, <2>3 DEF D!SendPanics, D!Published
    <3> QED
      BY <1>1, <2>1, <2>2, <3>1 DEF Refused
  <2>4. CASE p \notin Requests
    <3>1. /\ UNCHANGED <<place, accepted, queue, lost>>
          /\ place[p] = "send" /\ ~channelOpen
      BY <1>4, <2>4 DEF D!SendPanics, D!publishVars
    <3>2. place' = [place EXCEPT ![p] = "send"]
      BY <2>2, <3>1
    <3> QED
      BY <2>1, <1>1, <2>4, <3>1, <3>2 DEF AtSend
  <2> QED
    BY <1>1, <2>1, <2>3, <2>4
<1> QED
  BY <1>2, <1>3, <1>4 DEF Publish

LEMMA PublishNumbers ==
  ASSUME Numbers, NEW p \in Publisher, Publish(p)
  PROVE  Numbers'
<1>1. /\ ~Idle(p) /\ UNCHANGED <<sequence, event, meaning, closed, channelOpen, closer>>
      /\ Refused(p) \/ AtSend(p) \/ QueueTakes(p)
  BY PublishOutcomes
<1>2. /\ sequence \in Nat /\ place \in [Publisher -> {"idle", "check", "send"}]
      /\ event \in [Publisher -> Nat] /\ accepted \in Seq(Nat) /\ queue \in Seq(Nat)
      /\ Len(queue) <= Len(accepted)
  BY DEF Numbers, NumbersTypeOK
<1>3. event[p] \in Events /\ ~Taken(event[p]) /\ event[p] \in Nat /\ Events' = Events
  BY <1>1, <1>2 DEF Numbers, Numbered, Events
<1>4. \A q \in Publisher \ {p} : Idle(q)' <=> Idle(q)
  BY <1>1, <1>2 DEF Refused, AtSend, QueueTakes, Idle
<1>5. CASE Refused(p)
  <2>1. /\ closed /\ lost' = lost \cup {event[p]} /\ Idle(p)' /\ UNCHANGED <<accepted, queue>>
        /\ place' \in [Publisher -> {"idle", "check", "send"}]
    BY <1>2, <1>5 DEF Refused, Idle
  <2>2. NumbersTypeOK' /\ Kept'
    BY <1>1, <2>1 DEF Numbers, NumbersTypeOK, Kept
  <2>3. \A e : (Taken(e)' <=> Taken(e)) /\ (Underway(e) => Underway(e)' \/ e \in lost')
    BY <1>1, <1>4, <2>1 DEF Taken, Underway
  <2>4. \A e \in Events' : Taken(e)' \/ Underway(e)' \/ e \in lost'
    BY <1>3, <2>1, <2>3 DEF Numbers, Numbered
  <2>5. \A q \in Publisher : ~Idle(q)' => event'[q] \in Events' /\ ~Taken(event[q])'
    BY <1>1, <1>3, <1>4, <2>1 DEF Numbers, Numbered, Taken
  <2>6. \A q, s \in Publisher : q # s /\ ~Idle(q)' /\ ~Idle(s)' => event'[q] # event'[s]
    BY <1>1, <1>4, <2>1 DEF Numbers, Numbered
  <2>7. Numbered'
    BY <1>1, <1>3, <2>1, <2>4, <2>5, <2>6 DEF Numbers, Numbered, Taken
  <2> QED
    BY <2>2, <2>7 DEF Numbers
<1>6. CASE AtSend(p)
  <2>1. /\ UNCHANGED <<accepted, queue, lost>> /\ ~Idle(p)'
        /\ place' \in [Publisher -> {"idle", "check", "send"}]
    BY <1>2, <1>6 DEF AtSend, Idle
  <2>2. NumbersTypeOK' /\ Kept'
    BY <1>1, <2>1 DEF Numbers, NumbersTypeOK, Kept
  <2>3. \A q \in Publisher : Idle(q)' <=> Idle(q)
    BY <1>1, <1>4, <2>1
  <2>4. \A e : (Taken(e)' <=> Taken(e)) /\ (Underway(e)' <=> Underway(e))
    BY <1>1, <2>1, <2>3 DEF Taken, Underway
  <2>5. Numbered'
    BY <1>1, <1>3, <2>1, <2>3, <2>4 DEF Numbers, Numbered, Taken
  <2> QED
    BY <2>2, <2>5 DEF Numbers
<1>7. CASE QueueTakes(p)
  <2> DEFINE n == Len(accepted)
  <2>1. /\ queue' = Append(queue, event[p]) /\ accepted' = Append(accepted, event[p])
        /\ lost' = lost /\ Idle(p)' /\ place' \in [Publisher -> {"idle", "check", "send"}]
    BY <1>2, <1>7 DEF QueueTakes, Idle
  <2>2. /\ accepted' \in Seq(Nat) /\ Len(accepted') = n + 1 /\ n \in Nat
        /\ accepted'[n + 1] = event[p] /\ \A k \in 1..n : accepted'[k] = accepted[k]
        /\ queue' \in Seq(Nat) /\ Len(queue') = Len(queue) + 1 /\ Len(queue) \in Nat
    BY <1>2, <1>3, <2>1, AppendProperties, LenProperties
  <2>3. NumbersTypeOK' /\ Kept'
    BY <1>1, <1>2, <2>1, <2>2 DEF Numbers, NumbersTypeOK, Kept
  <2>4. \A e : Taken(e)' <=> Taken(e) \/ e = event[p]
    <3>1. \A k : k \in 1..Len(accepted') <=> k \in 1..n \/ k = n + 1
      BY <2>2
    <3> QED
      BY <2>2, <3>1 DEF Taken
  <2>5. \A k \in 1..Len(accepted') : accepted'[k] \in Events'
    BY <1>3, <2>2 DEF Numbers, Numbered
  <2>6. \A i, k \in 1..Len(accepted') : accepted'[i] = accepted'[k] => i = k
    <3>1. \A k \in 1..n : accepted[k] # event[p]
      BY <1>3 DEF Taken
    <3>2. \A k \in 1..Len(accepted') : k \in 1..n \/ k = n + 1
      BY <2>2
    <3> QED
      BY <2>2, <3>1, <3>2 DEF Numbers, Numbered
  <2>7. \A q \in Publisher : ~Idle(q)' => event'[q] \in Events' /\ ~Taken(event[q])'
    BY <1>1, <1>3, <1>4, <2>1, <2>4 DEF Numbers, Numbered
  <2>8. \A q, s \in Publisher : q # s /\ ~Idle(q)' /\ ~Idle(s)' => event'[q] # event'[s]
    BY <1>1, <1>4, <2>1 DEF Numbers, Numbered
  <2>9. \A e : Underway(e) => Underway(e)' \/ e = event[p]
    BY <1>1, <1>4 DEF Underway
  <2>10. \A e \in Events' : Taken(e)' \/ Underway(e)' \/ e \in lost'
    BY <1>3, <2>1, <2>4, <2>9 DEF Numbers, Numbered
  <2>11. Numbered'
    BY <1>1, <2>5, <2>6, <2>7, <2>8, <2>10 DEF Numbered, Taken
  <2> QED
    BY <2>3, <2>11 DEF Numbers
<1> QED
  BY <1>1, <1>5, <1>6, <1>7

\* The steps that neither begin an event nor carry one.
LEMMA OtherNumbers ==
  ASSUME Numbers, Work \/ (D!Close /\ UNCHANGED meaning) \/ Silently
  PROVE  Numbers'
<1>1. /\ UNCHANGED <<sequence, place, event, accepted, lost, meaning>>
      /\ queue' = queue \/ queue' = <<>>
      /\ (closed => closed') /\ (closer' # "open" => closed') /\ (~channelOpen' => closed')
  BY DEF Numbers, Kept, Work, Silently, dispatcherVars, D!Close, D!MarkClosed, D!CloseChannel,
         D!CloseDrained, D!CloseTimesOut, D!publishVars, D!workerVars
<1>2. NumbersTypeOK'
  <2>1. accepted \in Seq(Nat) /\ Len(accepted) \in Nat /\ <<>> \in Seq(Nat) /\ Len(<<>>) = 0
    BY DEF Numbers, NumbersTypeOK
  <2>2. queue' \in Seq(Nat) /\ Len(queue') <= Len(accepted)
    <3>1. queue \in Seq(Nat) /\ Len(queue) <= Len(accepted)
      BY DEF Numbers, NumbersTypeOK
    <3>2. CASE queue' = <<>>
      BY <2>1, <3>2
    <3> QED
      BY <1>1, <3>1, <3>2
  <2> QED
    BY <1>1, <2>2 DEF Numbers, NumbersTypeOK
<1>3. Numbered'
  BY <1>1 DEF Numbers, Numbered, Events, Taken, Underway, Idle
<1>4. Kept'
  BY <1>1 DEF Numbers, Kept
<1> QED
  BY <1>2, <1>3, <1>4 DEF Numbers

-----------------------------------------------------------------------------
(* The steps of the process, and what they are to the manager and to the    *)
(* dispatcher.                                                              *)

\* A handler's step is one of the manager's.
LEMMA BeginIsManager ==
  ASSUME NEW h \in Handler, Begin(h)
  PROVE  ManagerNext
BY DEF Begin, ManagerNext, Upsert, Delete

LEMMA HandleIsManager ==
  ASSUME NEW h \in Handler, Handle(h)
  PROVE  ManagerNext
BY DEF Handle, ManagerNext, Upsert, Delete

LEMMA RunLoopIsManager ==
  ASSUME NEW r \in Runner, RunLoop(r)
  PROVE  ManagerNext \/ UNCHANGED managerVars
BY DEF RunLoop, Started, SpeaksAside, Stops, ManagerNext

LEMMA RunIsManager == StopAll \/ CloseEvents => ManagerNext \/ UNCHANGED managerVars
BY DEF StopAll, Collect, CloseEvents, ManagerNext, Shutdown

\* What the server and main do is their own.
LEMMA ServerApart == Serve \/ Main \/ Signal \/ ListenFails => Apart
BY DEF Serve, Drain, Drained, Main, Receive, Exit, Signal, ListenFails

\* The process goes through the manager's own steps: all that is proved of
\* ManagerSpec holds of the process as well.
LEMMA Simulation == [Next]_vars => [ManagerNext]_managerVars
<1> SUFFICES ASSUME [Next]_vars PROVE ManagerNext \/ UNCHANGED managerVars
  OBVIOUS
<1>1. CASE \E h \in Handler : Begin(h) \/ Handle(h)
  BY <1>1, BeginIsManager, HandleIsManager
<1>2. CASE \E r \in Runner : RunLoop(r)
  BY <1>2, RunLoopIsManager
<1>3. CASE StopAll \/ CloseEvents
  BY <1>3, RunIsManager
<1>4. CASE \E p \in Publisher : Publish(p)
  BY <1>4 DEF Publish
<1>5. CASE Work
  BY <1>5 DEF Work
<1>6. CASE Serve \/ Main \/ Signal \/ ListenFails
  BY <1>6, ServerApart DEF Apart
<1>7. CASE UNCHANGED vars
  BY <1>7 DEF vars
<1> QED
  BY <1>1, <1>2, <1>3, <1>4, <1>5, <1>6, <1>7 DEF Next, Progress

\* The process implements the manager: its events, its server and main leave the
\* manager's guarantees as they are (main, Manager.Run, Server.Run).
THEOREM ImplementsManager == Spec => ManagerSpec
<1>1. Init => ManagerInit
  BY DEF Init
<1> QED
  BY <1>1, Simulation, PTL DEF Spec, ManagerSpec

THEOREM ManagerInvInProcess == Spec => []ManagerInv
BY ImplementsManager, ManagerInvHolds, PTL

\* What a runner's goroutine has reached it does not leave.
LEMMA RunForward ==
  ASSUME ManagerInv, [ManagerNext]_managerVars, NEW r \in Runner
  PROVE  /\ run[r] = "ended" => run'[r] = "ended"
         /\ run[r] \in {"running", "ended"} => run'[r] \in {"running", "ended"}
         /\ run'[r] = "ended" /\ run[r] # "ended" => RunReturns(r)
<1>1. run \in [Runner -> Lives]
  BY DEF ManagerInv, TypeOK
<1>2. CASE \E h \in Handler, id \in Id, q \in Runner : Register(h, id, q)
  BY <1>1, <1>2 DEF Register
<1>3. CASE \E h \in Handler : Launch(h)
  BY <1>1, <1>3 DEF Launch, ManagerInv, HandlersOK
<1>4. CASE \E q \in Runner : RunStarts(q)
  BY <1>1, <1>4 DEF RunStarts
<1>5. CASE \E q \in Runner : RunReturns(q)
  BY <1>1, <1>5 DEF RunReturns
<1>6. CASE UNCHANGED run
  BY <1>6
<1>7. ASSUME NEW h \in Handler, Upsert(h)
      PROVE  \/ \E id \in Id, q \in Runner : Register(h, id, q)
             \/ Launch(h) \/ UNCHANGED run
  BY <1>7 DEF Upsert, UpdateSource, PublishCreated, UpdateStation, runnerVars
<1>8. ASSUME NEW h \in Handler, Delete(h) PROVE UNCHANGED run
  BY <1>8 DEF Delete, Remove, CancelRunner, AwaitRunner, PublishDeleted, runnerVars
<1>9. Shutdown \/ UNCHANGED managerVars => UNCHANGED run
  BY DEF Shutdown, MarkClosed, CancelRoot, CollectAll, AwaitOne, AllAwaited, EventsClosed,
         managerVars, runnerVars
<1> QED
  BY <1>2, <1>3, <1>4, <1>5, <1>6, <1>7, <1>8, <1>9 DEF ManagerNext

\* Only a handler that is not idle publishes what a request has done.
LEMMA BusyTarget ==
  ASSUME ManagerInv, NEW h \in Handler, at[h] # "idle"
  PROVE  target[h] \in Runner
BY DEF ManagerInv, HandlersOK

\* To the dispatcher, a step begins an event, carries one, works or closes, or is
\* none of its steps.
LEMMA Kinds ==
  ASSUME ManagerInv, [Next]_vars
  PROVE  \/ \E p \in Publisher, type \in Word, r \in Runner : Emit(p, type, r)
         \/ \E p \in Publisher : Publish(p)
         \/ Work \/ (D!Close /\ UNCHANGED meaning) \/ Silently
<1> DEFINE Goal == \/ \E p \in Publisher, type \in Word, r \in Runner : Emit(p, type, r)
                   \/ \E p \in Publisher : Publish(p)
                   \/ Work \/ (D!Close /\ UNCHANGED meaning) \/ Silently
<1>1. ASSUME NEW h \in Handler, Begin(h) \/ Handle(h) PROVE Goal
  <2>1. Request(h) \in Publisher
    BY DEF Publisher, Requests
  <2>2. Silently \/ \E type \in Word : at[h] # "idle" /\ Emit(Request(h), type, target[h])
    BY <1>1 DEF Begin, Handle, PublishCreated, UpdateStation, PublishDeleted, Word
  <2> QED
    BY <2>1, <2>2, BusyTarget
<1>2. ASSUME NEW r \in Runner, RunLoop(r) PROVE Goal
  <2>1. Loop(r) \in Publisher /\ Aside(r) \in Publisher
    BY DEF Publisher
  <2> QED
    BY <1>2, <2>1 DEF RunLoop, Started, SpeaksAside, Stops, Word
<1>3. StopAll \/ CloseEvents => Goal
  BY DEF StopAll, CloseEvents, Silently
<1>4. Serve \/ Main \/ Signal \/ ListenFails => Goal
  BY ServerApart DEF Apart, Silently
<1>5. UNCHANGED vars => Goal
  BY DEF vars, Silently
<1> QED
  BY <1>1, <1>2, <1>3, <1>4, <1>5 DEF Next, Progress

LEMMA NumbersNext == ManagerInv /\ Numbers /\ [Next]_vars => Numbers'
BY Kinds, EmitNumbers, PublishNumbers, OtherNumbers

LEMMA NumbersInit == Init => Numbers
<1> SUFFICES ASSUME Init PROVE Numbers
  OBVIOUS
<1>1. /\ sequence = 0 /\ meaning = <<>> /\ accepted = <<>> /\ queue = <<>>
      /\ place = [p \in Publisher |-> "idle"] /\ event = [p \in Publisher |-> 0]
      /\ closed = FALSE /\ channelOpen = TRUE /\ closer = "open" /\ lost = {}
  BY DEF Init, D!Init
<1>2. Len(<<>>) = 0 /\ <<>> \in Seq(Nat) /\ <<>> \in Seq(Message)
  OBVIOUS
<1>3. NumbersTypeOK
  BY <1>1, <1>2, MaxEventsType DEF NumbersTypeOK
<1>4. Events = {} /\ \A p \in Publisher : Idle(p)
  BY <1>1 DEF Events, Idle
<1>5. Numbered
  BY <1>1, <1>2, <1>4 DEF Numbered
<1>6. Kept
  BY <1>1 DEF Kept
<1> QED
  BY <1>3, <1>5, <1>6 DEF Numbers

THEOREM NumbersHold == Spec => []Numbers
BY NumbersInit, NumbersNext, ManagerInvInProcess, PTL DEF Spec

-----------------------------------------------------------------------------
(* Who says what, and when: a loop tells of its start and then of its end,  *)
(* one at a time, and a delete speaks after the end.                        *)

LoopWords(r) == {Tells("started", r), Tells("stopped", r)}

LoopsSpeak ==
  /\ \A r \in Runner : ~Idle(Loop(r)) => meaning[event[Loop(r)]] \in LoopWords(r)
  /\ \A p \in Publisher, r \in Runner :
       ~Idle(p) /\ meaning[event[p]] \in LoopWords(r) => p = Loop(r)

StartedFirst ==
  \A r \in Runner :
    ~Idle(Loop(r)) /\ meaning[event[Loop(r)]] = Tells("started", r) => ~Said("stopped", r)

SaidInLife ==
  \A r \in Runner :
    /\ Said("stopped", r) => run[r] \in {"running", "ended"}
    /\ Said("deleted", r) => run[r] = "ended"
    /\ run[r] = "ended" => Said("stopped", r) /\ Idle(Loop(r))

Voices == LoopsSpeak /\ StartedFirst /\ SaidInLife

\* A loop's name is no other publisher's.
LEMMA Names ==
  /\ \A r \in Runner : Loop(r) \in Publisher /\ Aside(r) \in Publisher /\ Loop(r) \notin Requests
  /\ \A h \in Handler : Request(h) \in Publisher /\ Request(h) \in Requests
  /\ \A r, q \in Runner : Loop(r) # Aside(q) /\ (Loop(r) = Loop(q) => r = q)
  /\ \A r \in Runner, h \in Handler : Loop(r) # Request(h) /\ Aside(r) # Request(h)
  /\ \A g, h \in Handler : Request(g) = Request(h) => g = h
BY DEF Publisher, Requests, Loop, Aside, Request

\* Steps that begin no event, and end a loop only after its last word.
LEMMA QuietVoices ==
  ASSUME Numbers, Voices, UNCHANGED <<event, meaning>>,
         \A p \in Publisher : Idle(p) => Idle(p)',
         \A r \in Runner :
           /\ run[r] = "ended" => run'[r] = "ended"
           /\ run[r] \in {"running", "ended"} => run'[r] \in {"running", "ended"}
           /\ run'[r] = "ended" /\ run[r] # "ended" => Said("stopped", r) /\ Idle(Loop(r))
  PROVE  Voices'
<1>1. \A type, r : Said(type, r)' <=> Said(type, r)
  BY DEF Said
<1>2. \A r \in Runner : Loop(r) \in Publisher
  BY Names
<1>3. \A r : LoopWords(r)' = LoopWords(r)
  BY DEF LoopWords
<1>4. \A r \in Runner : Idle(Loop(r)) => Idle(Loop(r))'
  BY <1>2
<1>5. LoopsSpeak'
  BY <1>2, <1>4 DEF Voices, LoopsSpeak, LoopWords, Tells
<1>6. StartedFirst'
  BY <1>1, <1>4 DEF Voices, StartedFirst, Tells
<1>7. SaidInLife'
  BY <1>1, <1>4 DEF Voices, SaidInLife
<1> QED
  BY <1>5, <1>6, <1>7 DEF Voices

\* The start of an event: a loop speaks for itself, and only while it has not
\* said its last word; a delete speaks of a loop that has ended.
LEMMA EmitVoices ==
  ASSUME Numbers, Voices,
         NEW p \in Publisher, NEW type \in Word, NEW r \in Runner, Emit(p, type, r),
         type \in {"started", "stopped"} => p = Loop(r) /\ ~Said("stopped", r),
         type \notin {"started", "stopped"} => \A q \in Runner : p # Loop(q),
         type = "stopped" => run'[r] = "running",
         type = "deleted" => run[r] = "ended",
         \A q \in Runner :
           /\ run[q] = "ended" <=> run'[q] = "ended"
           /\ run[q] \in {"running", "ended"} => run'[q] \in {"running", "ended"}
  PROVE  Voices'
<1>1. /\ Idle(p) /\ sequence \in Nat /\ Len(meaning) = sequence
      /\ place' = [place EXCEPT ![p] = "check"]
      /\ event' = [event EXCEPT ![p] = sequence + 1]
      /\ Len(meaning') = sequence + 1
      /\ meaning'[sequence + 1] = Tells(type, r)
      /\ \A e \in Events : meaning'[e] = meaning[e]
  BY EmitFacts DEF Numbers, NumbersTypeOK
<1>2. /\ ~Idle(p)' /\ meaning'[event'[p]] = Tells(type, r)
      /\ \A q \in Publisher \ {p} :
           (Idle(q)' <=> Idle(q)) /\ (~Idle(q) => meaning'[event'[q]] = meaning[event[q]])
  <2>1. /\ event'[p] = sequence + 1 /\ place'[p] = "check"
        /\ \A q \in Publisher \ {p} : place'[q] = place[q] /\ event'[q] = event[q]
    BY <1>1 DEF Numbers, NumbersTypeOK
  <2>2. \A q \in Publisher : ~Idle(q) => event[q] \in Events
    BY DEF Numbers, Numbered
  <2> QED
    BY <1>1, <2>1, <2>2 DEF Idle
<1>3. \A word, q : Said(word, q)' <=> Said(word, q) \/ (word = type /\ q = r)
  <2>1. \A e : e \in 1..Len(meaning') <=> e \in Events \/ e = sequence + 1
    BY <1>1 DEF Events
  <2>2. \A word, q : Said(word, q) <=> \E e \in Events : meaning[e] = Tells(word, q)
    BY <1>1 DEF Said, Tells, Events
  <2>3. \A word, q : Said(word, q)' <=> \E e \in 1..Len(meaning') : meaning'[e] = Tells(word, q)
    BY DEF Said, Tells
  <2>4. \A word, q : Tells(word, q) = Tells(type, r) <=> word = type /\ q = r
    BY DEF Tells
  <2> QED
    BY <1>1, <2>1, <2>2, <2>3, <2>4
<1>4. \A q \in Runner : Loop(q) \in Publisher /\ (Loop(q) = Loop(r) => q = r)
  BY Names
<1>5. \A q \in Runner : Tells(type, r) \in LoopWords(q) <=> q = r /\ type \in {"started", "stopped"}
  BY DEF LoopWords, Tells
<1>6. LoopsSpeak'
  <2>1. \A q \in Runner : ~Idle(Loop(q))' => meaning'[event'[Loop(q)]] \in LoopWords(q)
    BY <1>2, <1>4, <1>5 DEF Voices, LoopsSpeak
  <2>2. \A s \in Publisher, q \in Runner :
          ~Idle(s)' /\ meaning'[event'[s]] \in LoopWords(q) => s = Loop(q)
    BY <1>2, <1>5 DEF Voices, LoopsSpeak
  <2> QED
    BY <2>1, <2>2 DEF LoopsSpeak, LoopWords, Tells, Loop
<1>7. StartedFirst'
  <2>1. \A q \in Runner :
          ~Idle(Loop(q))' /\ meaning'[event'[Loop(q)]] = Tells("started", q) => ~Said("stopped", q)'
    <3> SUFFICES ASSUME NEW q \in Runner, ~Idle(Loop(q))',
                        meaning'[event'[Loop(q)]] = Tells("started", q)
                 PROVE  ~Said("stopped", q)'
      OBVIOUS
    <3>1. CASE p = Loop(q)
      <4>1. type = "started" /\ q = r
        BY <1>2, <3>1 DEF Tells
      <4> QED
        BY <1>3, <4>1
    <3>2. CASE p # Loop(q)
      <4>1. ~Said("stopped", q) /\ ~Idle(Loop(q))
        BY <1>2, <1>4, <3>2 DEF Voices, StartedFirst
      <4>2. ~(type = "stopped" /\ q = r)
        BY <3>2
      <4> QED
        BY <1>3, <4>1, <4>2
    <3> QED
      BY <3>1, <3>2
  <2> QED
    BY <2>1 DEF StartedFirst, Tells, Loop
<1>8. SaidInLife'
  <2> SUFFICES ASSUME NEW q \in Runner
               PROVE  /\ Said("stopped", q)' => run'[q] \in {"running", "ended"}
                      /\ Said("deleted", q)' => run'[q] = "ended"
                      /\ run'[q] = "ended" => Said("stopped", q)' /\ Idle(Loop(q))'
    BY DEF SaidInLife
  <2>1. /\ Said("stopped", q) => run[q] \in {"running", "ended"}
        /\ Said("deleted", q) => run[q] = "ended"
        /\ run[q] = "ended" => Said("stopped", q) /\ Idle(Loop(q))
    BY DEF Voices, SaidInLife
  <2>2. Said("stopped", q)' => run'[q] \in {"running", "ended"}
    BY <1>3, <2>1
  <2>3. Said("deleted", q)' => run'[q] = "ended"
    BY <1>3, <2>1
  <2>4. run'[q] = "ended" => Said("stopped", q)' /\ Idle(Loop(q))'
    <3> HAVE run'[q] = "ended"
    <3>1. Said("stopped", q) /\ Idle(Loop(q))
      BY <2>1
    <3>2. p # Loop(q)
      BY <1>4, <3>1
    <3> QED
      BY <1>2, <1>3, <1>4, <3>1, <3>2
  <2> QED
    BY <2>2, <2>3, <2>4
<1> QED
  BY <1>6, <1>7, <1>8 DEF Voices

\* Silently, nobody becomes or stops being a publisher.
LEMMA Silence == Silently => UNCHANGED <<sequence, place, event, accepted, lost, closed, closer,
                                         channelOpen, panicked, meaning>>
BY DEF Silently, dispatcherVars

\* No step of a handler or of Manager.Run ends a loop.
LEMMA LifeKept ==
  ASSUME ManagerInv,
         \/ \E h \in Handler : Begin(h) \/ Handle(h)
         \/ StopAll \/ CloseEvents \/ (\E p \in Publisher : Publish(p)) \/ Work \/ Apart
         \/ UNCHANGED vars
  PROVE  \A r \in Runner : run'[r] = "ended" => run[r] = "ended"
<1>1. run \in [Runner -> Lives]
  BY DEF ManagerInv, TypeOK
<1>2. ASSUME NEW h \in Handler, Begin(h)
      PROVE  UNCHANGED run \/ \E r \in Runner : run' = [run EXCEPT ![r] = "registered"]
  BY <1>2 DEF Begin, UpdateSource, Remove, Register, runnerVars
<1>3. ASSUME NEW h \in Handler, Handle(h)
      PROVE  UNCHANGED run \/ run' = [run EXCEPT ![target[h]] = "launched"]
  BY <1>3 DEF Handle, Launch, CancelRunner, AwaitRunner, PublishCreated, UpdateStation,
              PublishDeleted, runnerVars
<1>4. StopAll => UNCHANGED run
  BY DEF StopAll, Collect, MarkClosed, CancelRoot, CollectAll, AwaitOne, AllAwaited, runnerVars
<1>5. CloseEvents => UNCHANGED run
  BY DEF CloseEvents, EventsClosed, managerVars, runnerVars
<1>6. (\E p \in Publisher : Publish(p)) \/ Work \/ Apart \/ UNCHANGED vars => UNCHANGED run
  BY DEF Publish, Work, Apart, vars, managerVars, runnerVars
<1> QED
  BY <1>1, <1>2, <1>3, <1>4, <1>5, <1>6

LEMMA BeginVoices ==
  ASSUME ManagerInv, Numbers, Voices, [ManagerNext]_managerVars, NEW h \in Handler, Begin(h)
  PROVE  Voices'
<1>1. UNCHANGED <<place, event, meaning>>
  BY Silence DEF Begin
<1>2. \A p \in Publisher : Idle(p) => Idle(p)'
  BY <1>1 DEF Idle
<1> QED
  BY <1>1, <1>2, LifeKept, RunForward, QuietVoices

LEMMA HandleVoices ==
  ASSUME ManagerInv, Numbers, Voices, [ManagerNext]_managerVars, NEW h \in Handler, Handle(h)
  PROVE  Voices'
<1>1. \A r \in Runner : run'[r] = "ended" <=> run[r] = "ended"
  BY LifeKept, RunForward
<1>2. CASE Silently
  <2>1. UNCHANGED <<place, event, meaning>>
    BY <1>2, Silence
  <2>2. \A p \in Publisher : Idle(p) => Idle(p)'
    BY <2>1 DEF Idle
  <2> QED
    BY <1>1, <2>1, <2>2, RunForward, QuietVoices
<1>3. ASSUME NEW type \in {"created", "updated", "deleted"},
             at[h] # "idle", Emit(Request(h), type, target[h]),
             type = "deleted" => at[h] = "deleted"
      PROVE  Voices'
  <2>1. target[h] \in Runner /\ Request(h) \in Publisher /\ \A q \in Runner : Request(h) # Loop(q)
    BY <1>3, BusyTarget, Names
  <2>2. type = "deleted" => run[target[h]] = "ended"
    BY <1>3 DEF ManagerInv, HandlersOK
  <2>3. type \in Word /\ type \notin {"started", "stopped"}
    BY DEF Word
  <2> QED
    BY <1>1, <1>3, <2>1, <2>2, <2>3, RunForward, EmitVoices
<1>4. \/ Silently
      \/ at[h] = "created" /\ Emit(Request(h), "created", target[h])
      \/ at[h] = "update" /\ Emit(Request(h), "updated", target[h])
      \/ at[h] = "deleted" /\ Emit(Request(h), "deleted", target[h])
  BY DEF Handle, PublishCreated, UpdateStation, PublishDeleted
<1> QED
  BY <1>2, <1>3, <1>4

LEMMA LoopVoices ==
  ASSUME ManagerInv, Numbers, Voices, [ManagerNext]_managerVars, NEW r \in Runner, RunLoop(r)
  PROVE  Voices'
<1>1. /\ Loop(r) \in Publisher /\ Aside(r) \in Publisher
      /\ \A q \in Runner : Aside(r) # Loop(q)
  BY Names
<1>2. \A q \in Runner : (q # r => run'[q] = run[q])
                        /\ (run[q] \in {"running", "ended"} => run'[q] \in {"running", "ended"})
                        /\ (run[q] = "ended" => run'[q] = "ended")
  <2>1. UNCHANGED run \/ RunStarts(r) \/ RunReturns(r)
    BY DEF RunLoop, Started, SpeaksAside, Stops, managerVars, runnerVars
  <2>2. \A q \in Runner : q # r => run'[q] = run[q]
    BY <2>1 DEF RunStarts, RunReturns, ManagerInv, TypeOK
  <2> QED
    BY <2>2, RunForward
<1>3. CASE Started(r)
  <2>1. run[r] = "launched" /\ run'[r] = "running" /\ Emit(Loop(r), "started", r)
    BY <1>3 DEF Started, RunStarts, ManagerInv, TypeOK
  <2>2. ~Said("stopped", r)
    BY <2>1 DEF Voices, SaidInLife
  <2>3. \A q \in Runner : run[q] = "ended" <=> run'[q] = "ended"
    BY <1>2, <2>1
  <2> QED
    BY <1>1, <1>2, <2>1, <2>2, <2>3, EmitVoices DEF Word
<1>4. CASE SpeaksAside(r)
  <2>1. Emit(Aside(r), "aside", r) /\ UNCHANGED run
    BY <1>4 DEF SpeaksAside, managerVars, runnerVars
  <2> QED
    BY <1>1, <2>1, EmitVoices DEF Word
<1>5. CASE run[r] = "running" /\ ~Said("stopped", r) /\ Emit(Loop(r), "stopped", r) /\ UNCHANGED run
  BY <1>1, <1>5, EmitVoices DEF Word
<1>6. CASE Said("stopped", r) /\ Idle(Loop(r)) /\ RunReturns(r) /\ Silently
  <2>1. UNCHANGED <<place, event, meaning>>
    BY <1>6, Silence
  <2>2. \A p \in Publisher : Idle(p) => Idle(p)'
    BY <2>1 DEF Idle
  <2>3. \A q \in Runner : run'[q] = "ended" /\ run[q] # "ended" => Said("stopped", q) /\ Idle(Loop(q))
    BY <1>2, <1>6
  <2> QED
    BY <1>2, <2>1, <2>2, <2>3, QuietVoices
<1>7. Stops(r) => \/ run[r] = "running" /\ ~Said("stopped", r) /\ Emit(Loop(r), "stopped", r)
                     /\ UNCHANGED run
                  \/ Said("stopped", r) /\ Idle(Loop(r)) /\ RunReturns(r) /\ Silently
  BY DEF Stops, managerVars, runnerVars
<1> QED
  BY <1>3, <1>4, <1>5, <1>6, <1>7 DEF RunLoop

LEMMA VoicesNext ==
  ASSUME ManagerInv, Numbers, Voices, [Next]_vars
  PROVE  Voices'
<1>1. [ManagerNext]_managerVars
  BY Simulation
<1>2. ASSUME UNCHANGED <<event, meaning>>, \A p \in Publisher : Idle(p) => Idle(p)',
             \A r \in Runner : run'[r] = "ended" => run[r] = "ended"
      PROVE  Voices'
  BY <1>1, <1>2, RunForward, QuietVoices
<1>3. ASSUME NEW p \in Publisher, Publish(p) PROVE Voices'
  <2>1. UNCHANGED <<event, meaning>> /\ \A q \in Publisher : Idle(q) => Idle(q)'
    BY <1>3, PublishOutcomes DEF Numbers, NumbersTypeOK, Refused, AtSend, QueueTakes, Idle
  <2> QED
    BY <1>2, <1>3, <2>1, LifeKept
<1>4. CASE StopAll \/ CloseEvents \/ Work \/ Apart \/ UNCHANGED vars
  <2>1. UNCHANGED <<place, event, meaning>>
    BY <1>4, Silence DEF StopAll, CloseEvents, D!Close, D!MarkClosed, D!CloseChannel,
         D!CloseDrained, D!CloseTimesOut, D!publishVars, Work, Apart, dispatcherVars, vars
  <2>2. \A p \in Publisher : Idle(p) => Idle(p)'
    BY <2>1 DEF Idle
  <2> QED
    BY <1>2, <1>4, <2>1, <2>2, LifeKept
<1> QED
  BY <1>1, <1>3, <1>4, BeginVoices, HandleVoices, LoopVoices, ServerApart DEF Next, Progress

LEMMA VoicesInit == Init => Voices
<1> SUFFICES ASSUME Init PROVE Voices
  OBVIOUS
<1>1. /\ meaning = <<>> /\ place = [p \in Publisher |-> "idle"]
      /\ run = [r \in Runner |-> "none"]
  BY DEF Init, D!Init, ManagerInit
<1>2. \A p \in Publisher : Idle(p)
  BY <1>1 DEF Idle
<1>3. \A type, r : ~Said(type, r)
  BY <1>1 DEF Said
<1> QED
  BY <1>1, <1>2, <1>3, Names DEF Voices, LoopsSpeak, StartedFirst, SaidInLife

THEOREM VoicesHold == Spec => []Voices
BY VoicesInit, VoicesNext, NumbersHold, ManagerInvInProcess, PTL DEF Spec

-----------------------------------------------------------------------------
(* The shutdown: Manager.Run closes the dispatcher only after every loop it *)
(* has waited for in time, and is over only after Close has returned.       *)

Closing ==
  /\ \A r \in collected \ (timedOut \cup awaited) : r \in Runner /\ run[r] = "ended"
  /\ collected \subseteq Runner
  /\ closer \in {"open", "marked"} => channelOpen
  /\ closed => main \in {"closing", "over"}
  /\ main = "over" => closer \in {"drained", "timedOut"}

\* When the dispatcher is closed, nobody is awaited any more.
LEMMA ClosedMeansAwaited ==
  ASSUME ManagerInv, Closing, main \in {"closing", "over"}
  PROVE  \A r \in collected \ timedOut : run[r] = "ended"
BY DEF ManagerInv, AwaitedOK, Closing

LEMMA ClosingInit == Init => Closing
BY DEF Init, D!Init, ManagerInit, Closing

\* Steps of handlers, loops, publishers, the worker, the server and main.
LEMMA ElsewhereClosing ==
  ASSUME ManagerInv, Closing, [ManagerNext]_managerVars,
         UNCHANGED <<collected, main, awaited, timedOut, closed, closer, channelOpen>>
  PROVE  Closing'
BY RunForward DEF Closing

LEMMA HandlerElsewhere ==
  ASSUME NEW h \in Handler, Begin(h) \/ Handle(h)
  PROVE  UNCHANGED <<collected, main, awaited, timedOut>>
BY DEF Begin, Handle, UpdateSource, Remove, Register, Launch, CancelRunner, AwaitRunner,
       PublishCreated, UpdateStation, PublishDeleted, mainVars

LEMMA LoopElsewhere ==
  ASSUME NEW r \in Runner, RunLoop(r)
  PROVE  UNCHANGED <<collected, main, awaited, timedOut>>
BY DEF RunLoop, Started, SpeaksAside, Stops, RunStarts, RunReturns, managerVars, mainVars

LEMMA OthersElsewhere ==
  (\E p \in Publisher : Publish(p)) \/ Work \/ Apart \/ UNCHANGED vars
    => UNCHANGED <<collected, main, awaited, timedOut>>
BY DEF Publish, Work, Apart, vars, managerVars, mainVars

\* Only Manager.Run closes the dispatcher.
LEMMA DispatcherElsewhere ==
  ASSUME ManagerInv, Numbers, [Next]_vars, ~CloseEvents
  PROVE  UNCHANGED <<closed, closer, channelOpen>>
<1>1. ASSUME NEW p \in Publisher, NEW type \in Word, NEW r \in Runner, Emit(p, type, r)
      PROVE  UNCHANGED <<closed, closer, channelOpen>>
  BY <1>1, EmitFacts
<1>2. ASSUME NEW p \in Publisher, Publish(p) PROVE UNCHANGED <<closed, closer, channelOpen>>
  BY <1>2, PublishOutcomes
<1>3. Work \/ Silently => UNCHANGED <<closed, closer, channelOpen>>
  BY Silence DEF Work
<1>4. ASSUME NEW h \in Handler, Begin(h) \/ Handle(h)
      PROVE  UNCHANGED <<closed, closer, channelOpen>>
  <2>1. Request(h) \in Publisher
    BY Names
  <2>2. Silently \/ \E type \in Word : at[h] # "idle" /\ Emit(Request(h), type, target[h])
    BY <1>4 DEF Begin, Handle, PublishCreated, UpdateStation, PublishDeleted, Word
  <2> QED
    BY <1>1, <1>3, <2>1, <2>2, BusyTarget
<1>5. ASSUME NEW r \in Runner, RunLoop(r) PROVE UNCHANGED <<closed, closer, channelOpen>>
  BY <1>1, <1>3, <1>5, Names DEF RunLoop, Started, SpeaksAside, Stops, Word
<1>6. StopAll \/ Apart \/ UNCHANGED vars => Silently
  BY DEF StopAll, Apart, vars, Silently
<1> QED
  BY <1>2, <1>3, <1>4, <1>5, <1>6, ServerApart DEF Next, Progress

LEMMA StopAllClosing ==
  ASSUME ManagerInv, Numbers, Closing, StopAll
  PROVE  Closing'
<1>1. UNCHANGED <<run, closed, closer, channelOpen>>
  BY Silence DEF StopAll, Collect, MarkClosed, CancelRoot, CollectAll, AwaitOne, AllAwaited,
                 runnerVars
<1>2. CASE MarkClosed \/ CancelRoot
  <2>1. /\ UNCHANGED <<collected, awaited, timedOut>> /\ main \in {"serving", "closed"}
        /\ main' \in {"closed", "cancelled"}
    BY <1>2 DEF StopAll, MarkClosed, CancelRoot, Collect, CollectAll, AwaitOne, AllAwaited, Advance
  <2> QED
    BY <1>1, <2>1 DEF Closing
<1>3. CASE Collect
  <2>1. /\ collected' = awaited' /\ awaited' = {stations[id] : id \in Mapped}
        /\ main = "cancelled" /\ main' = "stopping"
    BY <1>3 DEF Collect, CollectAll, Advance
  <2>2. collected' \subseteq Runner
    BY <2>1 DEF Mapped, ManagerInv, TypeOK
  <2> QED
    BY <1>1, <2>1, <2>2 DEF Closing
<1>4. ASSUME NEW r \in Runner, AwaitOne(r), UNCHANGED collected PROVE Closing'
  <2>1. /\ main = "stopping" /\ UNCHANGED main /\ awaited' = awaited \ {r}
        /\ (run[r] = "ended" /\ UNCHANGED timedOut) \/ timedOut' = timedOut \cup {r}
    BY <1>4 DEF AwaitOne
  <2> QED
    BY <1>1, <1>4, <2>1 DEF Closing
<1>5. CASE AllAwaited /\ UNCHANGED collected
  <2>1. UNCHANGED <<awaited, timedOut>> /\ main' = "closing"
    BY <1>5 DEF AllAwaited, Advance
  <2>2. ~closed \/ main \in {"closing", "over"}
    BY DEF Closing
  <2> QED
    BY <1>1, <1>5, <2>1, <2>2 DEF Closing
<1> QED
  BY <1>2, <1>3, <1>4, <1>5 DEF StopAll

LEMMA CloseClosing ==
  ASSUME ManagerInv, Closing, CloseEvents
  PROVE  Closing'
<1>1. main = "closing" /\ UNCHANGED <<run, collected, awaited, timedOut>>
  BY DEF CloseEvents, EventsClosed, managerVars, runnerVars, mainVars
<1>2. CASE D!Close /\ UNCHANGED managerVars
  <2>1. /\ main' = main
        /\ closer' \in {"open", "marked"} => channelOpen'
    BY <1>2 DEF managerVars, mainVars, D!Close, D!MarkClosed, D!CloseChannel,
                D!CloseDrained, D!CloseTimesOut, Closing
  <2> QED
    BY <1>1, <2>1 DEF Closing
<1>3. CASE closer \in {"drained", "timedOut"} /\ EventsClosed /\ UNCHANGED dispatcherVars
  <2>1. main' = "over" /\ UNCHANGED <<closed, closer, channelOpen>>
    BY <1>3 DEF EventsClosed, Advance, dispatcherVars
  <2> QED
    BY <1>1, <1>3, <2>1 DEF Closing
<1> QED
  BY <1>2, <1>3 DEF CloseEvents

LEMMA ClosingNext ==
  ASSUME ManagerInv, Numbers, Closing, [Next]_vars
  PROVE  Closing'
<1>1. [ManagerNext]_managerVars
  BY Simulation
<1>2. CASE CloseEvents
  BY <1>2, CloseClosing
<1>3. CASE StopAll
  BY <1>3, StopAllClosing
<1>4. CASE ~CloseEvents /\ ~StopAll
  <2>1. UNCHANGED <<closed, closer, channelOpen>>
    BY <1>4, DispatcherElsewhere
  <2>2. UNCHANGED <<collected, main, awaited, timedOut>>
    BY <1>4, HandlerElsewhere, LoopElsewhere, OthersElsewhere, ServerApart DEF Next, Progress
  <2> QED
    BY <1>1, <2>1, <2>2, ElsewhereClosing
<1> QED
  BY <1>2, <1>3, <1>4

THEOREM ClosingHolds == Spec => []Closing
BY ClosingInit, ClosingNext, NumbersHold, ManagerInvInProcess, PTL DEF Spec

-----------------------------------------------------------------------------

\* A send on the dispatcher's closed channel ends the process only from a
\* goroutine that shutdown does not wait for (Publish, stopAll, Close).
THEOREM OnlyUnawaitedPanicsHolds == Spec => []OnlyUnawaitedPanics
<1>1. Init => OnlyUnawaitedPanics
  BY DEF Init, D!Init, OnlyUnawaitedPanics
<1>2. ASSUME ManagerInv, Numbers, Voices, Closing, OnlyUnawaitedPanics, [Next]_vars
      PROVE  OnlyUnawaitedPanics'
  <2>1. CASE UNCHANGED vars
    <3>1. UNCHANGED <<place, panicked, collected, timedOut>>
      BY <2>1 DEF vars, dispatcherVars, managerVars, mainVars
    <3> QED
      BY <1>2, <3>1 DEF OnlyUnawaitedPanics, Unawaited
  <2>2. ASSUME Next, NEW p \in Publisher, Publish(p) PROVE OnlyUnawaitedPanics'
    <3>1. CASE ~panicked'
      BY <3>1 DEF OnlyUnawaitedPanics
    <3>2. CASE panicked'
      <4>1. ~panicked
        BY <2>2 DEF Next, Live
      <4>2. /\ ~channelOpen /\ place[p] = "send" /\ p \notin Requests
            /\ place' = [place EXCEPT ![p] = "send"]
            /\ UNCHANGED <<managerVars, collected>>
        BY <1>2, <2>2, <3>2, <4>1, PublishOutcomes DEF Refused, AtSend, QueueTakes
      <4>3. place'[p] = "send" /\ ~Idle(p) /\ UNCHANGED <<collected, timedOut>>
        BY <1>2, <4>2 DEF Numbers, NumbersTypeOK, managerVars, mainVars, Idle
      <4>4. \A r \in collected \ timedOut : r \in Runner /\ Idle(Loop(r))
        <5>1. closed
          BY <1>2, <4>2 DEF Numbers, Kept
        <5>2. main \in {"closing", "over"} /\ collected \subseteq Runner
          BY <1>2, <5>1 DEF Closing
        <5> QED
          BY <1>2, <5>2, ClosedMeansAwaited DEF Voices, SaidInLife
      <4>5. p[1] = "loop" => p[2] \in Runner /\ p = Loop(p[2])
        BY <4>2 DEF Publisher, Requests, Request, Loop, Aside
      <4>6. p[1] = "loop" => p[2] \in Unawaited'
        BY <4>3, <4>4, <4>5 DEF Unawaited
      <4> QED
        BY <4>2, <4>3, <4>6 DEF OnlyUnawaitedPanics
    <3> QED
      BY <3>1, <3>2
  <2>3. ASSUME Next, ~\E p \in Publisher : Publish(p) PROVE ~panicked'
    <3>1. ~panicked
      BY <2>3 DEF Next, Live
    <3>2. UNCHANGED panicked
      BY <1>2, <2>3, Kinds, EmitFacts, Silence DEF Work, D!Close, D!MarkClosed, D!CloseChannel,
         D!CloseDrained, D!CloseTimesOut
    <3> QED
      BY <3>1, <3>2
  <2> QED
    BY <1>2, <2>1, <2>2, <2>3 DEF OnlyUnawaitedPanics
<1> QED
  BY <1>1, <1>2, NumbersHold, VoicesHold, ClosingHolds, ManagerInvInProcess, PTL DEF Spec

\* What the queue has taken stays, with what it tells, and it takes one more
\* event at a time, from the publisher that carries it.
LEMMA QueueGrows ==
  ASSUME ManagerInv, Numbers, [Next]_vars
  PROVE  /\ \A k \in 1..Len(accepted) :
              /\ k \in 1..Len(accepted') /\ accepted'[k] = accepted[k]
              /\ meaning'[accepted[k]] = meaning[accepted[k]]
         /\ \A k \in 1..Len(accepted') :
              \/ k \in 1..Len(accepted)
              \/ /\ k = Len(accepted) + 1
                 /\ \E p \in Publisher : /\ ~Idle(p) /\ accepted'[k] = event[p]
                                         /\ meaning'[event[p]] = meaning[event[p]]
<1>1. \A k \in 1..Len(accepted) : accepted[k] \in Events
  BY DEF Numbers, Numbered
<1>2. ASSUME NEW p \in Publisher, NEW type \in Word, NEW r \in Runner, Emit(p, type, r)
      PROVE  UNCHANGED accepted /\ \A e \in Events : meaning'[e] = meaning[e]
  BY <1>2, EmitFacts
<1>3. ASSUME NEW p \in Publisher, Publish(p)
      PROVE  UNCHANGED meaning /\ (UNCHANGED accepted \/ (~Idle(p) /\ accepted' = Append(accepted, event[p])))
  BY <1>3, PublishOutcomes DEF Refused, AtSend, QueueTakes
<1>4. Work \/ (D!Close /\ UNCHANGED meaning) \/ Silently => UNCHANGED <<accepted, meaning>>
  BY Silence DEF Work, D!Close, D!MarkClosed, D!CloseChannel, D!CloseDrained, D!CloseTimesOut,
                 D!publishVars
<1>5. CASE UNCHANGED accepted /\ \A e \in Events : meaning'[e] = meaning[e]
  BY <1>1, <1>5
<1>6. ASSUME NEW p \in Publisher, ~Idle(p), accepted' = Append(accepted, event[p]), UNCHANGED meaning
      PROVE  /\ \A k \in 1..Len(accepted) :
                  /\ k \in 1..Len(accepted') /\ accepted'[k] = accepted[k]
                  /\ meaning'[accepted[k]] = meaning[accepted[k]]
             /\ \A k \in 1..Len(accepted') :
                  \/ k \in 1..Len(accepted)
                  \/ /\ k = Len(accepted) + 1
                     /\ \E q \in Publisher : /\ ~Idle(q) /\ accepted'[k] = event[q]
                                             /\ meaning'[event[q]] = meaning[event[q]]
  <2>1. accepted \in Seq(Nat) /\ event[p] \in Nat
    BY DEF Numbers, NumbersTypeOK
  <2>2. /\ Len(accepted') = Len(accepted) + 1 /\ Len(accepted) \in Nat
        /\ accepted'[Len(accepted) + 1] = event[p]
        /\ \A k \in 1..Len(accepted) : accepted'[k] = accepted[k]
    BY <1>6, <2>1, AppendProperties, LenProperties
  <2>3. \A k : k \in 1..Len(accepted') <=> k \in 1..Len(accepted) \/ k = Len(accepted) + 1
    BY <2>2
  <2> QED
    BY <1>6, <2>2, <2>3
<1> QED
  BY <1>2, <1>3, <1>4, <1>5, <1>6, Kinds

\* An ended loop has said its last word, and the open queue has taken it.
LEMMA EndedIsHeard ==
  ASSUME Numbers, Voices, ~closed, NEW r \in Runner, run[r] = "ended"
  PROVE  Accepts("stopped", r)
<1>1. Said("stopped", r) /\ Idle(Loop(r))
  BY DEF Voices, SaidInLife
<1>2. PICK e \in 1..Len(meaning) : meaning[e] = Tells("stopped", r)
  BY <1>1 DEF Said, Tells
<1>3. e \in Events /\ lost = {}
  BY DEF Numbers, NumbersTypeOK, Events, Kept
<1>4. ~Underway(e)
  <2>1. \A p \in Publisher : ~Idle(p) /\ event[p] = e => p = Loop(r)
    BY <1>2 DEF Voices, LoopsSpeak, LoopWords
  <2> QED
    BY <1>1, <2>1 DEF Underway
<1>5. Taken(e)
  BY <1>3, <1>4 DEF Numbers, Numbered
<1> QED
  BY <1>2, <1>5 DEF Taken, Accepts, Tells

\* The dispatcher is closed after the last word of every loop that stopAll
\* awaited has reached its queue (stopAll, Close).
THEOREM LastWordHeardHolds == Spec => []LastWordHeard
<1>1. Init => LastWordHeard
  BY DEF Init, D!Init, LastWordHeard
<1>2. ASSUME ManagerInv, Numbers, Voices, Closing, LastWordHeard, [Next]_vars
      PROVE  LastWordHeard'
  <2> SUFFICES ASSUME closed', NEW r \in (collected \ timedOut)'
               PROVE  Accepts("stopped", r)'
    BY DEF LastWordHeard, Accepts
  <2>1. Accepts("stopped", r) => Accepts("stopped", r)'
    BY <1>2, QueueGrows DEF Accepts
  <2>2. CASE closed
    <3>1. main \in {"closing", "over"}
      BY <1>2, <2>2 DEF Closing
    <3>2. UNCHANGED <<collected, timedOut>>
      <4>1. StopAll => FALSE
        BY <1>2, <3>1 DEF StopAll, MarkClosed, CancelRoot, Collect, CollectAll, AwaitOne, AllAwaited,
                   Advance
      <4>2. CloseEvents => UNCHANGED <<collected, timedOut>>
        BY DEF CloseEvents, EventsClosed, managerVars, mainVars
      <4> QED
        BY <1>2, <4>1, <4>2, HandlerElsewhere, LoopElsewhere, OthersElsewhere, ServerApart
           DEF Next, Progress
    <3> QED
      BY <1>2, <2>1, <2>2, <3>2 DEF LastWordHeard
  <2>3. CASE ~closed
    <3>1. CloseEvents
      BY <1>2, <2>3, DispatcherElsewhere
    <3>2. main = "closing" /\ UNCHANGED <<collected, timedOut>>
      BY <3>1 DEF CloseEvents, EventsClosed, managerVars, mainVars
    <3>3. r \in Runner /\ run[r] = "ended"
      BY <1>2, <3>2, ClosedMeansAwaited DEF Closing
    <3> QED
      BY <1>2, <2>1, <2>3, <3>3, EndedIsHeard
  <2> QED
    BY <2>2, <2>3
<1> QED
  BY <1>1, <1>2, NumbersHold, VoicesHold, ClosingHolds, ManagerInvInProcess, PTL DEF Spec

\* The queue tells nothing of a life after its end: no start after the stop, no
\* start or stop after the delete (Run, DeleteStation, emit).
THEOREM QueueTellsLifeHolds == Spec => []QueueTellsLife
<1>1. Init => QueueTellsLife
  BY DEF Init, D!Init, QueueTellsLife
<1>2. ASSUME ManagerInv, Numbers, Voices, QueueTellsLife, [Next]_vars
      PROVE  QueueTellsLife'
  <2> DEFINE m == Len(accepted)
             Before(first, second) ==
               first.runner = second.runner =>
                 /\ ~(first.type = "stopped" /\ second.type = "started")
                 /\ ~(first.type = "deleted" /\ second.type \in {"started", "stopped"})
  <2> SUFFICES ASSUME NEW i \in 1..Len(accepted'), NEW j \in 1..Len(accepted'), i < j
               PROVE  Before(meaning'[accepted'[i]], meaning'[accepted'[j]])
    BY DEF QueueTellsLife
  <2>1. m \in Nat /\ m + 1 \in Nat
    BY <1>2, LenProperties DEF Numbers, NumbersTypeOK
  <2>2. i \in 1..m /\ accepted'[i] = accepted[i] /\ meaning'[accepted[i]] = meaning[accepted[i]]
    BY <1>2, <2>1, QueueGrows
  <2>3. CASE j \in 1..m
    <3>1. accepted'[j] = accepted[j] /\ meaning'[accepted[j]] = meaning[accepted[j]]
      BY <1>2, <2>3, QueueGrows
    <3>2. Before(meaning[accepted[i]], meaning[accepted[j]])
      BY <1>2, <2>2, <2>3 DEF QueueTellsLife
    <3> QED
      BY <2>2, <3>1, <3>2
  <2>4. CASE j \notin 1..m
    <3>1. PICK p \in Publisher : /\ ~Idle(p) /\ accepted'[j] = event[p]
                                 /\ meaning'[event[p]] = meaning[event[p]]
      BY <1>2, <2>4, QueueGrows
    <3> DEFINE first == meaning[accepted[i]]
               second == meaning[event[p]]
    <3>2. first \in Message /\ second \in Message /\ accepted[i] \in 1..Len(meaning)
      <4>1. accepted[i] \in Events /\ event[p] \in Events
        BY <1>2, <2>2, <3>1 DEF Numbers, Numbered
      <4>2. Events = 1..Len(meaning) /\ meaning \in Seq(Message)
        BY <1>2 DEF Numbers, NumbersTypeOK, Events
      <4> QED
        BY <4>1, <4>2, ElementOfSeq
    <3>3. PICK r \in Runner : r = second.runner
      BY <3>2 DEF Message
    <3>4. second = Tells(second.type, r) /\ (first.runner = r => first = Tells(first.type, r))
      BY <3>2, <3>3 DEF Message, Tells
    <3>5. second.type \in {"started", "stopped"} => ~Idle(Loop(r)) /\ p = Loop(r)
      BY <1>2, <3>1, <3>4 DEF Voices, LoopsSpeak, LoopWords
    <3>6. first.runner = r => Said(first.type, r)
      BY <3>2, <3>4 DEF Said, Tells
    <3>7. second.type = "started" => ~Said("stopped", r)
      BY <1>2, <3>4, <3>5 DEF Voices, StartedFirst
    <3>8. Said("deleted", r) => Idle(Loop(r))
      BY <1>2 DEF Voices, SaidInLife
    <3>9. Before(first, second)
      BY <3>3, <3>5, <3>6, <3>7, <3>8
    <3> QED
      BY <2>2, <3>1, <3>9
  <2> QED
    BY <2>3, <2>4
<1> QED
  BY <1>1, <1>2, NumbersHold, VoicesHold, ManagerInvInProcess, PTL DEF Spec

-----------------------------------------------------------------------------
(* The server, main, and what "complete" means. *)

Server ==
  /\ "manager" \notin pending => main = "over"
  /\ "api" \notin pending => api = "returned" /\ (apiErr = "canceled" \/ shutdownErr)
  /\ ~Serving => \A h \in Handler : ~Busy(h)
  /\ exit = "complete" => pending = {} /\ ~shutdownErr

LEMMA ServerInit == Init => Server
BY DEF Init, Server, Serving

\* Steps that are not the server's or main's: no handler becomes busy after the
\* server has drained its connections, and a manager that is over stays over.
LEMMA ElsewhereServer ==
  ASSUME Server, UNCHANGED serverVars, main = "over" => main' = "over",
         \A h \in Handler : Serving \/ (~Busy(h) => ~Busy(h)')
  PROVE  Server'
<1>1. UNCHANGED <<api, apiErr, pending, shutdownErr, exit>>
  BY DEF serverVars
<1>2. Serving' <=> Serving
  BY <1>1 DEF Serving
<1>3. ~Serving' => \A h \in Handler : ~Busy(h)'
  BY <1>2 DEF Server
<1> QED
  BY <1>1, <1>3 DEF Server, Serving

\* A step of another goroutine leaves an idle handler idle.
LEMMA HandlersApart ==
  ASSUME UNCHANGED at, \A q \in Requests : Idle(q) => Idle(q)'
  PROVE  \A h \in Handler : ~Busy(h) => ~Busy(h)'
BY Names DEF Busy, Idle

LEMMA ServerNext ==
  ASSUME ManagerInv, Numbers, Server, [Next]_vars
  PROVE  Server'
<1>1. place \in [Publisher -> {"idle", "check", "send"}]
  BY DEF Numbers, NumbersTypeOK
<1>2. ASSUME NEW h \in Handler, Begin(h) PROVE Server'
  <2>1. Serving /\ UNCHANGED serverVars
    BY <1>2 DEF Begin
  <2>2. UNCHANGED main
    BY <1>2, HandlerElsewhere
  <2> QED
    BY <2>1, <2>2, ElsewhereServer
<1>3. ASSUME NEW h \in Handler, Handle(h) PROVE Server'
  <2>1. at[h] # "idle" /\ UNCHANGED serverVars
    BY <1>3 DEF Handle, Launch, CancelRunner, AwaitRunner, PublishCreated, UpdateStation,
                PublishDeleted
  <2>2. Serving
    BY <2>1 DEF Server, Busy
  <2>3. UNCHANGED main
    BY <1>3, HandlerElsewhere
  <2> QED
    BY <2>1, <2>2, <2>3, ElsewhereServer
<1>4. ASSUME NEW r \in Runner, RunLoop(r) PROVE Server'
  <2>1. UNCHANGED serverVars /\ UNCHANGED main
    BY <1>4, LoopElsewhere DEF RunLoop
  <2>2. UNCHANGED at
    BY <1>4 DEF RunLoop, Started, SpeaksAside, Stops, RunStarts, RunReturns, handlerVars, managerVars
  <2>3. UNCHANGED place \/ place' = [place EXCEPT ![Loop(r)] = "check"]
                        \/ place' = [place EXCEPT ![Aside(r)] = "check"]
    <3>1. Loop(r) \in Publisher /\ Aside(r) \in Publisher
      BY Names
    <3>2. Silently \/ \E p \in {Loop(r), Aside(r)}, type \in Word : Emit(p, type, r)
      BY <1>4 DEF RunLoop, Started, SpeaksAside, Stops, Word
    <3> QED
      BY <3>1, <3>2, EmitFacts, Silence
  <2>4. \A q \in Requests : Idle(q) => Idle(q)'
    <3>1. \A q \in Requests : q # Loop(r) /\ q # Aside(r)
      BY DEF Requests, Request, Loop, Aside
    <3>2. Requests \subseteq Publisher
      BY DEF Publisher
    <3> QED
      BY <1>1, <2>3, <3>1, <3>2 DEF Idle
  <2> QED
    BY <2>1, <2>2, <2>4, HandlersApart, ElsewhereServer
<1>5. ASSUME NEW p \in Publisher, Publish(p) PROVE Server'
  <2>1. UNCHANGED serverVars /\ UNCHANGED main /\ UNCHANGED at
    BY <1>5 DEF Publish, managerVars, mainVars, handlerVars
  <2>2. \A q \in Publisher : Idle(q) => Idle(q)'
    BY <1>1, <1>5, PublishOutcomes DEF Refused, AtSend, QueueTakes, Idle
  <2>3. Requests \subseteq Publisher
    BY DEF Publisher
  <2> QED
    BY <2>1, <2>2, <2>3, HandlersApart, ElsewhereServer
<1>6. CASE StopAll \/ CloseEvents \/ Work
  <2>1. UNCHANGED <<place, at>> /\ UNCHANGED serverVars
    BY <1>6, Silence DEF StopAll, Collect, MarkClosed, CancelRoot, CollectAll, AwaitOne, AllAwaited,
         CloseEvents, D!Close, D!MarkClosed, D!CloseChannel, D!CloseDrained, D!CloseTimesOut,
         D!publishVars, EventsClosed, Work, dispatcherVars, managerVars, handlerVars
  <2>2. main = "over" => main' = "over"
    BY <1>6 DEF StopAll, Collect, MarkClosed, CancelRoot, CollectAll, AwaitOne, AllAwaited, Advance,
         CloseEvents, EventsClosed, Work, managerVars, mainVars
  <2>3. \A q \in Requests : Idle(q) => Idle(q)'
    BY <2>1 DEF Idle
  <2> QED
    BY <2>1, <2>2, <2>3, HandlersApart, ElsewhereServer
<1>7. CASE Apart /\ (Serve \/ Main \/ Signal \/ ListenFails)
  <2>1. UNCHANGED <<main, at, place>>
    BY <1>7 DEF Apart, managerVars, mainVars, handlerVars, dispatcherVars
  <2>2. \A h \in Handler : Busy(h)' <=> Busy(h)
    BY <2>1 DEF Busy, Idle
  <2>3. ASSUME UNCHANGED <<pending, shutdownErr, exit>>, api = "returned" => UNCHANGED <<api, apiErr>>,
               ~Serving' => ~Serving \/ \A h \in Handler : ~Busy(h)
        PROVE  Server'
    <3>1. ~Serving' => \A h \in Handler : ~Busy(h)'
      BY <2>2, <2>3 DEF Server
    <3>2. "api" \notin pending' => api' = "returned" /\ (apiErr' = "canceled" \/ shutdownErr')
      BY <2>3 DEF Server
    <3> QED
      BY <2>1, <2>3, <3>1, <3>2 DEF Server
  <2>4. CASE Serve \/ Signal \/ ListenFails
    <3>1. UNCHANGED <<pending, shutdownErr, exit>> /\ (api = "returned" => UNCHANGED <<api, apiErr>>)
      BY <2>4 DEF Serve, Drain, Drained, Signal, ListenFails
    <3>2. ~Serving' => ~Serving \/ \A h \in Handler : ~Busy(h)
      BY <2>4 DEF Serve, Drain, Drained, Signal, ListenFails, Return, Serving
    <3> QED
      BY <2>3, <3>1, <3>2
  <2>5. ASSUME NEW g \in pending, Receive(g) PROVE Server'
    <3>1. /\ Returned(g) /\ pending' = pending \ {g}
          /\ shutdownErr' <=> shutdownErr \/ Failure(g)
          /\ UNCHANGED <<api, apiErr, exit>>
      BY <2>5 DEF Receive
    <3>2. "manager" \notin pending' => main' = "over"
      BY <2>1, <3>1 DEF Server, Returned
    <3>3. "api" \notin pending' => api' = "returned" /\ (apiErr' = "canceled" \/ shutdownErr')
      BY <3>1 DEF Server, Returned, Failure
    <3>4. ~Serving' => \A h \in Handler : ~Busy(h)'
      BY <2>2, <3>1 DEF Server, Serving
    <3>5. exit' # "complete"
      BY <2>5, <3>1 DEF Server
    <3> QED
      BY <3>2, <3>3, <3>4, <3>5 DEF Server
  <2>6. CASE Exit
    <3>1. /\ pending = {} /\ exit' = IF shutdownErr THEN "fatal" ELSE "complete"
          /\ UNCHANGED <<api, apiErr, pending, shutdownErr>>
      BY <2>6 DEF Exit
    <3>2. ~Serving' => \A h \in Handler : ~Busy(h)'
      BY <2>2, <3>1 DEF Server, Serving
    <3> QED
      BY <2>1, <3>1, <3>2 DEF Server
  <2> QED
    BY <1>7, <2>4, <2>5, <2>6 DEF Main
<1>8. CASE UNCHANGED vars
  <2>1. UNCHANGED serverVars /\ UNCHANGED <<main, at, place>>
    BY <1>8 DEF vars, managerVars, mainVars, handlerVars, dispatcherVars
  <2>2. \A q \in Requests : Idle(q) => Idle(q)'
    BY <2>1 DEF Idle
  <2> QED
    BY <2>1, <2>2, HandlersApart, ElsewhereServer
<1> QED
  BY <1>2, <1>3, <1>4, <1>5, <1>6, <1>7, <1>8, ServerApart DEF Next, Progress

\* When main says that shutdown is complete, no request is being handled, only
\* loops that timed out are alive, and the dispatcher is closed (main,
\* Server.Run, Manager.Run).
THEOREM CompleteMeansStoppedHolds == Spec => []CompleteMeansStopped
<1>1. Spec => []Server
  BY ServerInit, ServerNext, NumbersHold, ManagerInvInProcess, PTL DEF Spec
<1>2. Spec => []NoOrphanLoop
  BY ImplementsManager, NoOrphanLoopHolds, PTL
<1>3. Server /\ Closing /\ NoOrphanLoop => CompleteMeansStopped
  <2> SUFFICES ASSUME Server, Closing, NoOrphanLoop, exit = "complete"
               PROVE  /\ \A h \in Handler : ~Busy(h)
                      /\ Loops \subseteq timedOut
                      /\ closer \in {"drained", "timedOut"}
    BY DEF CompleteMeansStopped
  <2>1. pending = {} /\ ~shutdownErr
    BY DEF Server
  <2>2. main = "over" /\ ~Serving
    BY <2>1 DEF Server, Serving
  <2>3. \A h \in Handler : ~Busy(h)
    BY <2>2 DEF Server
  <2>4. Deleting = {}
    BY <2>3 DEF Deleting, Busy
  <2>5. Loops \subseteq timedOut
    BY <2>2, <2>4 DEF NoOrphanLoop
  <2>6. closer \in {"drained", "timedOut"}
    BY <2>2 DEF Closing
  <2> QED
    BY <2>3, <2>5, <2>6
<1> QED
  BY <1>1, <1>2, <1>3, ClosingHolds, PTL

-----------------------------------------------------------------------------
(* Whoever waits for done waits for a loop that is on its way to its end:   *)
(* the safety half of DeleteReturns and of ProcessEnds.                     *)

\* A runner that nobody has launched yet is in the hands of its create.
LaunchComes ==
  \A r \in Runner : run[r] = "registered" => \E h \in Handler : at[h] = "launch" /\ target[h] = r

AwaitedIsCancelled ==
  /\ \A h \in Handler : at[h] \in {"await", "deleted"} => target[h] \in stopped
  /\ awaited \subseteq stopped

WaitsEnd == LaunchComes /\ AwaitedIsCancelled

\* Steps that leave who waits, and who launches, as it is.
LEMMA WaitsKept ==
  ASSUME WaitsEnd, stopped \subseteq stopped', awaited' \subseteq awaited \cup stopped',
         \A r \in Runner : run'[r] = "registered" => run[r] = "registered",
         \A h \in Handler : \/ at'[h] = at[h] /\ target'[h] = target[h]
                            \/ at[h] # "launch" /\ at'[h] \notin {"await", "deleted"}
  PROVE  WaitsEnd'
BY DEF WaitsEnd, LaunchComes, AwaitedIsCancelled

LEMMA WaitsStep ==
  ASSUME ManagerInv, WaitsEnd, [ManagerNext]_managerVars
  PROVE  WaitsEnd'
<1>0. run \in [Runner -> Lives]
  BY DEF ManagerInv, TypeOK
<1>1. ASSUME NEW h \in Handler, NEW id \in Id, NEW r \in Runner, Register(h, id, r)
      PROVE  WaitsEnd'
  <2>1. /\ at[h] = "idle" /\ run' = [run EXCEPT ![r] = "registered"] /\ Goto(h, "launch", r)
        /\ UNCHANGED <<stopped, awaited>>
    BY <1>1 DEF Register, mainVars
  <2>2. /\ at'[h] = "launch" /\ target'[h] = r
        /\ \A g \in Handler \ {h} : at'[g] = at[g] /\ target'[g] = target[g]
    BY <2>1, DeletingAfter DEF ManagerInv, Places
  <2>3. LaunchComes'
    <3>1. \A q \in Runner \ {r} : run'[q] = run[q]
      BY <1>0, <2>1
    <3> QED
      BY <2>1, <2>2, <3>1 DEF WaitsEnd, LaunchComes
  <2>4. AwaitedIsCancelled'
    BY <2>1, <2>2 DEF WaitsEnd, AwaitedIsCancelled
  <2> QED
    BY <2>3, <2>4 DEF WaitsEnd
<1>2. ASSUME NEW h \in Handler, Launch(h) PROVE WaitsEnd'
  <2>1. /\ at[h] = "launch" /\ run' = [run EXCEPT ![target[h]] = "launched"]
        /\ Goto(h, "created", target[h]) /\ UNCHANGED <<stopped, awaited>>
    BY <1>2 DEF Launch, mainVars
  <2>2. /\ at'[h] = "created"
        /\ \A g \in Handler \ {h} : at'[g] = at[g] /\ target'[g] = target[g]
    BY <2>1, DeletingAfter DEF ManagerInv, Places
  <2>3. target[h] \in Runner
    BY <2>1 DEF ManagerInv, HandlersOK
  <2>4. LaunchComes'
    <3>1. \A q \in Runner : run'[q] = "registered" => run[q] = "registered" /\ q # target[h]
      BY <1>0, <2>1, <2>3
    <3> QED
      BY <2>2, <3>1 DEF WaitsEnd, LaunchComes
  <2>5. AwaitedIsCancelled'
    BY <2>1, <2>2 DEF WaitsEnd, AwaitedIsCancelled
  <2> QED
    BY <2>4, <2>5 DEF WaitsEnd
<1>3. ASSUME NEW h \in Handler, CancelRunner(h) \/ AwaitRunner(h) PROVE WaitsEnd'
  <2>1. /\ at[h] \in {"cancel", "await"} /\ UNCHANGED <<run, awaited>> /\ stopped \subseteq stopped'
        /\ target[h] \in stopped'
    BY <1>3 DEF CancelRunner, AwaitRunner, runnerVars, mainVars, WaitsEnd, AwaitedIsCancelled
  <2>2. PICK there \in {"await", "deleted"} : Goto(h, there, target[h])
    BY <1>3 DEF CancelRunner, AwaitRunner
  <2>3. /\ at'[h] = there /\ target'[h] = target[h]
        /\ \A g \in Handler \ {h} : at'[g] = at[g] /\ target'[g] = target[g]
    BY <2>2, DeletingAfter DEF ManagerInv, Places
  <2>4. LaunchComes'
    BY <2>1, <2>3 DEF WaitsEnd, LaunchComes
  <2>5. AwaitedIsCancelled'
    BY <2>1, <2>3 DEF WaitsEnd, AwaitedIsCancelled
  <2> QED
    BY <2>4, <2>5 DEF WaitsEnd
<1>4. ASSUME NEW h \in Handler,
             PublishCreated(h) \/ UpdateStation(h) \/ PublishDeleted(h)
               \/ (\E id \in Id : UpdateSource(h, id) \/ Remove(h, id))
      PROVE  WaitsEnd'
  <2>1. at[h] # "launch" /\ UNCHANGED <<run, stopped, awaited>>
    BY <1>4 DEF PublishCreated, UpdateStation, PublishDeleted, UpdateSource, Remove, runnerVars,
                mainVars
  <2>2. \E there \in {"idle", "update", "cancel"}, r \in Runner \cup {None} : Goto(h, there, r)
    BY <1>4 DEF PublishCreated, UpdateStation, PublishDeleted, UpdateSource, Remove, ManagerInv,
                TypeOK
  <2>3. PICK there \in {"idle", "update", "cancel"}, r \in Runner \cup {None} : Goto(h, there, r)
    BY <2>2
  <2>4. /\ at'[h] = there
        /\ \A g \in Handler \ {h} : at'[g] = at[g] /\ target'[g] = target[g]
    BY <2>3, DeletingAfter DEF ManagerInv, Places
  <2> QED
    BY <2>1, <2>4, WaitsKept
<1>5. ASSUME NEW r \in Runner, RunStarts(r) \/ RunReturns(r) PROVE WaitsEnd'
  <2>1. /\ UNCHANGED <<stopped, awaited, at, target>>
        /\ run' = [run EXCEPT ![r] = "running"] \/ run' = [run EXCEPT ![r] = "ended"]
    BY <1>5 DEF RunStarts, RunReturns, handlerVars, mainVars
  <2> QED
    BY <1>0, <2>1, WaitsKept
<1>6. CASE Shutdown \/ UNCHANGED managerVars
  <2>1. /\ UNCHANGED <<run, at, target>> /\ stopped \subseteq stopped'
        /\ awaited' \subseteq awaited \cup stopped'
    BY <1>6 DEF Shutdown, MarkClosed, CancelRoot, CollectAll, AwaitOne, AllAwaited, EventsClosed,
                managerVars, runnerVars, handlerVars, mainVars
  <2> QED
    BY <2>1, WaitsKept
<1> QED
  BY <1>1, <1>2, <1>3, <1>4, <1>5, <1>6 DEF ManagerNext, Upsert, Delete

\* Nobody waits for a loop that would go on: a runner whose done a delete or
\* stopAll reads has been cancelled, and one that was never launched has a create
\* that is about to launch it (UpsertStation, DeleteStation, stopAll).
THEOREM WaitsEndHolds == ManagerSpec => []WaitsEnd
<1>1. ManagerInit => WaitsEnd
  BY DEF ManagerInit, WaitsEnd, LaunchComes, AwaitedIsCancelled
<1>2. ManagerInv /\ WaitsEnd /\ [ManagerNext]_managerVars => WaitsEnd'
  BY WaitsStep
<1> QED
  BY <1>1, <1>2, ManagerInvHolds, PTL DEF ManagerSpec

=============================================================================
