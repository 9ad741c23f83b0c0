------------------------------ MODULE Manager ------------------------------
(***************************************************************************)
(* The manager: HTTP handlers create, update and delete stations in the    *)
(* map, each station runs in a goroutine of its own, and shutdown stops    *)
(* them all and closes the event dispatcher.  Handlers interleave with     *)
(* each other and with shutdown wherever they do not hold the lock.        *)
(*                                                                         *)
(* What a station does while it runs is RunLoop's matter: here its         *)
(* goroutine runs until its context, or the root context, is done.         *)
(***************************************************************************)
EXTENDS Naturals, FiniteSets

CONSTANTS
  None,
  Handler,       \* goroutines that serve HTTP requests
  Id,            \* station ids
  MaxStations,   \* config.MaxStations
  MaxRunners     \* bound: runners created while the engine lives

Runner == 1..MaxRunners

ASSUME ManagerAssumption ==
  /\ MaxStations \in Nat \ {0}
  /\ MaxRunners \in Nat
  /\ None \notin Runner

VARIABLES
  stations,      \* stations[id]: the runner in the map, or None
  owner,         \* owner[r]: the id runner r was created for, or None
  run,           \* run[r]: the life of r's goroutine, see Lives
  stopped,       \* runners whose context was cancelled
  source,        \* source[r]: whose request configures the Icecast source
  config,        \* config[r]: whose request configures the station
  contended,     \* history: runners that were updated by overlapping requests
  at,            \* at[h]: where handler h is, see Places
  target,        \* target[h]: the runner h works on
  main,          \* where Manager.Run is, see Stages
  awaited,       \* runners stopAll took from the map and still waits for
  timedOut       \* runners stopAll no longer waits for

runnerVars  == <<owner, run, stopped, source, config, contended>>
handlerVars == <<at, target>>
mainVars    == <<main, awaited, timedOut>>
managerVars == <<stations, runnerVars, handlerVars, mainVars>>

Lives == {"none", "registered", "launched", "running", "ended"}

Places == {"idle", "launch", "created", "update", "cancel", "await", "deleted"}

\* Run waits; has set closed; has cancelled the root context; waits in stopAll;
\* closes the dispatcher; has returned.
Stages == {"serving", "closed", "cancelled", "stopping", "closing", "over"}

\* Whether Run's goroutine still has something to do.
Alive(r) == run[r] \in {"registered", "launched", "running"}

Closed == main # "serving"

RootDone == main \in {"cancelled", "stopping", "closing", "over"}

TypeOK ==
  /\ stations \in [Id -> Runner \cup {None}]
  /\ owner \in [Runner -> Id \cup {None}]
  /\ run \in [Runner -> Lives]
  /\ stopped \subseteq Runner
  /\ source \in [Runner -> Handler \cup {None}] /\ config \in [Runner -> Handler \cup {None}]
  /\ contended \subseteq Runner
  /\ at \in [Handler -> Places]
  /\ target \in [Handler -> Runner \cup {None}]
  /\ main \in Stages
  /\ awaited \subseteq Runner /\ timedOut \subseteq Runner

ManagerInit ==
  /\ stations = [id \in Id |-> None]
  /\ owner = [r \in Runner |-> None]
  /\ run = [r \in Runner |-> "none"]
  /\ stopped = {}
  /\ source = [r \in Runner |-> None] /\ config = [r \in Runner |-> None]
  /\ contended = {}
  /\ at = [h \in Handler |-> "idle"]
  /\ target = [h \in Handler |-> None]
  /\ main = "serving" /\ awaited = {} /\ timedOut = {}

-----------------------------------------------------------------------------

\* Handler h goes to a place, on behalf of runner r.
Goto(h, place, r) ==
  /\ at' = [at EXCEPT ![h] = place]
  /\ target' = [target EXCEPT ![h] = r]

Mapped == {id \in Id : stations[id] # None}

\* A closed manager and a full map refuse a new id.
MayRegister(id) ==
  ~Closed /\ stations[id] = None /\ Cardinality(Mapped) < MaxStations

\* UpsertStation of a new id, up to the unlock.
Register(h, id, r) ==
  /\ at[h] = "idle" /\ MayRegister(id)
  /\ run[r] = "none" /\ \A earlier \in 1..r - 1 : run[earlier] # "none"
  /\ stations' = [stations EXCEPT ![id] = r]
  /\ owner' = [owner EXCEPT ![r] = id]
  /\ run' = [run EXCEPT ![r] = "registered"]
  /\ source' = [source EXCEPT ![r] = h] /\ config' = [config EXCEPT ![r] = h]
  /\ Goto(h, "launch", r)
  /\ UNCHANGED <<stopped, contended, mainVars>>

Launch(h) ==
  /\ at[h] = "launch"
  /\ run' = [run EXCEPT ![target[h]] = "launched"]
  /\ Goto(h, "created", target[h])
  /\ UNCHANGED <<stations, owner, stopped, source, config, contended, mainVars>>

PublishCreated(h) ==
  /\ at[h] = "created"
  /\ Goto(h, "idle", None)
  /\ UNCHANGED <<stations, runnerVars, mainVars>>

\* UpsertStation of a known id: the source is updated under the lock, the
\* station after it.
UpdateSource(h, id) ==
  /\ at[h] = "idle" /\ ~Closed
  /\ stations[id] # None
  /\ source' = [source EXCEPT ![stations[id]] = h]
  /\ contended' = contended \cup
       {r \in {stations[id]} : \E g \in Handler : at[g] = "update" /\ target[g] = r}
  /\ Goto(h, "update", stations[id])
  /\ UNCHANGED <<stations, owner, run, stopped, config, mainVars>>

\* Mutant: the station keeps its configuration.
UpdateForgotten(h) ==
  /\ at[h] = "update"
  /\ Goto(h, "idle", None)
  /\ UNCHANGED <<stations, runnerVars, mainVars>>

UpdateStation(h) ==
  /\ at[h] = "update"
  /\ config' = [config EXCEPT ![target[h]] = h]
  /\ Goto(h, "idle", None)
  /\ UNCHANGED <<stations, owner, run, stopped, source, contended, mainVars>>

\* Mutant: the runner stays in the map.
LookUp(h, id) ==
  /\ at[h] = "idle"
  /\ stations[id] # None
  /\ Goto(h, "cancel", stations[id])
  /\ UNCHANGED <<stations, runnerVars, mainVars>>

\* DeleteStation: removeRunner, cancel, wait for Run, publish.
Remove(h, id) ==
  /\ at[h] = "idle"
  /\ stations[id] # None
  /\ stations' = [stations EXCEPT ![id] = None]
  /\ Goto(h, "cancel", stations[id])
  /\ UNCHANGED <<runnerVars, mainVars>>

\* Mutant: the context is not cancelled.
CancelForgotten(h) ==
  /\ at[h] = "cancel"
  /\ Goto(h, "await", target[h])
  /\ UNCHANGED <<stations, runnerVars, mainVars>>

CancelRunner(h) ==
  /\ at[h] = "cancel"
  /\ stopped' = stopped \cup {target[h]}
  /\ Goto(h, "await", target[h])
  /\ UNCHANGED <<stations, owner, run, source, config, contended, mainVars>>

\* Mutant: the end of Run is not waited for.
AwaitNothing(h) ==
  /\ at[h] = "await"
  /\ Goto(h, "deleted", target[h])
  /\ UNCHANGED <<stations, runnerVars, mainVars>>

AwaitRunner(h) ==
  /\ at[h] = "await" /\ run[target[h]] = "ended"
  /\ Goto(h, "deleted", target[h])
  /\ UNCHANGED <<stations, runnerVars, mainVars>>

PublishDeleted(h) ==
  /\ at[h] = "deleted"
  /\ Goto(h, "idle", None)
  /\ UNCHANGED <<stations, runnerVars, mainVars>>

-----------------------------------------------------------------------------
(* The goroutine of a station. *)

RunStarts(r) ==
  /\ run[r] = "launched"
  /\ run' = [run EXCEPT ![r] = "running"]
  /\ UNCHANGED <<stations, owner, stopped, source, config, contended, handlerVars, mainVars>>

\* Run returns when its context is done: the deferred event, then done.
RunReturns(r) ==
  /\ run[r] = "running"
  /\ r \in stopped \/ RootDone
  /\ run' = [run EXCEPT ![r] = "ended"]
  /\ UNCHANGED <<stations, owner, stopped, source, config, contended, handlerVars, mainVars>>

-----------------------------------------------------------------------------
(* Manager.Run at the end of the process. *)

Advance(from, to) == main = from /\ main' = to

MarkClosed ==
  /\ Advance("serving", "closed")
  /\ UNCHANGED <<stations, runnerVars, handlerVars, awaited, timedOut>>

CancelRoot ==
  /\ Advance("closed", "cancelled")
  /\ UNCHANGED <<stations, runnerVars, handlerVars, awaited, timedOut>>

\* stopAll empties the map under the lock and cancels what it found.
CollectAll ==
  /\ Advance("cancelled", "stopping")
  /\ awaited' = {stations[id] : id \in Mapped}
  /\ stopped' = stopped \cup {stations[id] : id \in Mapped}
  /\ stations' = [id \in Id |-> None]
  /\ UNCHANGED <<owner, run, source, config, contended, handlerVars, timedOut>>

\* Mutant: the loops are not waited for.
AwaitNobody(r) ==
  /\ main = "stopping" /\ r \in awaited
  /\ awaited' = awaited \ {r}
  /\ UNCHANGED <<stations, runnerVars, handlerVars, main, timedOut>>

\* One runner after the other: it ended, or ShutdownWait ran out.
AwaitOne(r) ==
  /\ main = "stopping" /\ r \in awaited
  /\ awaited' = awaited \ {r}
  /\ \/ run[r] = "ended" /\ UNCHANGED timedOut
     \/ timedOut' = timedOut \cup {r}
  /\ UNCHANGED <<stations, runnerVars, handlerVars, main>>

AllAwaited ==
  /\ awaited = {}
  /\ Advance("stopping", "closing")
  /\ UNCHANGED <<stations, runnerVars, handlerVars, awaited, timedOut>>

\* events.Close returned, see Dispatcher.
EventsClosed ==
  /\ Advance("closing", "over")
  /\ UNCHANGED <<stations, runnerVars, handlerVars, awaited, timedOut>>

-----------------------------------------------------------------------------

Upsert(h) ==
  \/ \E id \in Id : UpdateSource(h, id) \/ \E r \in Runner : Register(h, id, r)
  \/ Launch(h) \/ PublishCreated(h) \/ UpdateStation(h)

Delete(h) ==
  \/ \E id \in Id : Remove(h, id)
  \/ CancelRunner(h) \/ AwaitRunner(h) \/ PublishDeleted(h)

Shutdown ==
  \/ MarkClosed \/ CancelRoot \/ CollectAll
  \/ \E r \in Runner : AwaitOne(r)
  \/ AllAwaited \/ EventsClosed

ManagerNext ==
  \/ \E h \in Handler : Upsert(h) \/ Delete(h)
  \/ \E r \in Runner : RunStarts(r) \/ RunReturns(r)
  \/ Shutdown

ManagerSpec == ManagerInit /\ [][ManagerNext]_managerVars

\* Handlers finish what they began, and a launched goroutine gets to run.  That
\* Run returns is not assumed: the peer of its connection may hold it for ever
\* (RunLoop's HeldByPeer).
ManagerFairSpec ==
  /\ ManagerSpec
  /\ \A h \in Handler :
       WF_managerVars(Launch(h) \/ PublishCreated(h) \/ UpdateStation(h)
                      \/ CancelRunner(h) \/ AwaitRunner(h) \/ PublishDeleted(h))
  /\ \A r \in Runner : WF_managerVars(RunStarts(r))

-----------------------------------------------------------------------------
(* Properties *)

\* The runner a delete has removed from the map and whose end it awaits.
Deleting == {target[h] : h \in {g \in Handler : at[g] \in {"cancel", "await", "deleted"}}}

Loops == {r \in Runner : Alive(r)}

\* No loop is forgotten: one that is alive is in the map, or somebody is bound
\* to cancel it and waits for it, or has given up waiting at shutdown - even
\* when a delete, a new upsert of the id and a shutdown overlap.  Once
\* Manager.Run is over, only a loop stopAll timed out on, or one a delete that
\* overlaps shutdown has, may be alive.
NoOrphanLoop ==
  Loops \subseteq Deleting \cup timedOut \cup
    IF main = "over" THEN {} ELSE awaited \cup {stations[id] : id \in Mapped}

\* done has one value and one reader: no runner is awaited by two, which would
\* leave one of them waiting for ever (removeRunner against stopAll).
OneReaderOfDone ==
  /\ \A g, h \in Handler :
       g # h /\ {at[g], at[h]} \subseteq {"cancel", "await"} => target[g] # target[h]
  /\ awaited \cap Deleting = {}

\* Requests that do not overlap leave the station and its Icecast source with
\* the same configuration (UpsertStation, UpdateConfig).
ConfigsAgree ==
  \A r \in Runner \ contended :
    (\A h \in Handler : ~(at[h] = "update" /\ target[h] = r)) => source[r] = config[r]

\* A loop that was told to end, and does not.
Held(r) == run[r] = "running" /\ (r \in stopped \/ RootDone)

\* A delete returns, and every loop that has left the map comes to its end; all
\* that can keep either for ever is a loop that runs, was cancelled, and is held
\* by its peer - never one that nobody cancelled, or that has yet to start
\* (DeleteStation, UpsertStation, stopAll).
DeleteReturns ==
  /\ \A h \in Handler : at[h] = "cancel" ~>
       (at[h] = "idle" \/ \E r \in Runner : [](at[h] = "await" /\ target[h] = r /\ Held(r)))
  /\ \A r \in Runner : (Alive(r) /\ \A id \in Id : stations[id] # r) ~>
       (run[r] = "ended" \/ []Held(r))

=============================================================================
