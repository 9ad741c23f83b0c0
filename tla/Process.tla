------------------------------ MODULE Process ------------------------------
(***************************************************************************)
(* The whole process: main starts the manager and the HTTP server beside   *)
(* each other, both stop when the context they share is done, and main     *)
(* waits for both.  The manager is extended by what it publishes; the      *)
(* event dispatcher is an instance.  Every event of the life of a station  *)
(* is published step by step, by the handler or the loop it belongs to or  *)
(* by a goroutine of its own, while Manager.Run may be closing the         *)
(* dispatcher and the server may have given up on its handlers.            *)
(***************************************************************************)
EXTENDS Manager, Sequences

CONSTANT MaxRequests   \* bound: requests that reach the manager

ASSUME ProcessAssumption == MaxRequests \in Nat

VARIABLES
  sequence, place, event, queue, closed, channelOpen, worker, inHand,
  cancelled, closer, stream, accepted, lost, panicked,      \* of Dispatcher
  meaning,       \* history: meaning[e] is what event e tells
  collected,     \* history: the runners stopAll took from the map
  requests,      \* how many requests have reached the manager
  runCtxDone,    \* a signal came, or main called cancel
  api,           \* where Server.Run is: "serving", "draining", "returned"
  apiErr,        \* what it returned
  pending,       \* goroutines main still waits for
  shutdownErr,   \* main has received an error that is not a cancellation
  exit           \* "running", or how main ended: "complete", "fatal"

\* Who publishes: the handler of a request, the loop of a runner, and the
\* goroutine popQueue starts for an event of a runner.
Request(h) == <<"request", h>>
Loop(r)    == <<"loop", r>>
Aside(r)   == <<"aside", r>>

Requests  == {Request(h) : h \in Handler}
Publisher == Requests \cup {Loop(r) : r \in Runner} \cup {Aside(r) : r \in Runner}

\* A runner's created, started, aside and stopped; a request's updated, deleted.
MaxEvents == 4 * MaxRunners + MaxRequests

D == INSTANCE Dispatcher WITH
       at <- place, Recovered <- Requests, Capacity <- MaxEvents, MaxCopies <- 1

dispatcherVars == <<sequence, place, event, queue, closed, channelOpen, worker,
                    inHand, cancelled, closer, stream, accepted, lost, panicked>>
serverVars     == <<runCtxDone, api, apiErr, pending, shutdownErr, exit>>
vars           == <<managerVars, dispatcherVars, serverVars, meaning, collected, requests>>

Init ==
  /\ ManagerInit /\ D!Init
  /\ meaning = <<>> /\ collected = {} /\ requests = 0
  /\ runCtxDone = FALSE
  /\ api = "serving" /\ apiErr = "none"
  /\ pending = {"manager", "api"} /\ shutdownErr = FALSE /\ exit = "running"

-----------------------------------------------------------------------------
(* Publishing *)

\* p begins to publish an event about r; it goes on when place[p] is idle again.
Emit(p, type, r) ==
  /\ D!Number(p)
  /\ meaning' = Append(meaning, [type |-> type, runner |-> r])

Silently == UNCHANGED <<dispatcherVars, meaning>>

Idle(p) == place[p] = "idle"

Said(type, r) == \E e \in 1..Len(meaning) : meaning[e] = [type |-> type, runner |-> r]

Publish(p) ==
  /\ D!CheckClosed(p) \/ D!Enqueue(p) \/ D!SendPanics(p)
  /\ UNCHANGED <<managerVars, serverVars, meaning, collected, requests>>

\* The worker in one step: Redis acknowledges all that the closed channel holds.
\* What it does before, and when Redis fails, is Dispatcher's matter: the queue
\* has room for every event, so that nobody can tell how far the worker is, or
\* what it does once Close has given up.
Work ==
  /\ worker = "receive" /\ closer = "waiting"
  /\ stream' = accepted /\ queue' = <<>> /\ worker' = "done"
  /\ UNCHANGED <<sequence, place, event, closed, channelOpen, inHand, cancelled,
                 closer, accepted, lost, panicked>>
  /\ UNCHANGED <<managerVars, serverVars, meaning, collected, requests>>

-----------------------------------------------------------------------------
(* Requests *)

\* Connections are served until Shutdown has seen them all idle; when it gave
\* up, or when only the listener failed, those that are open go on.
Serving == ~(api = "returned" /\ apiErr = "canceled")

Begin(h) ==
  /\ Serving /\ requests < MaxRequests /\ Idle(Request(h))
  /\ requests' = requests + 1
  /\ \E id \in Id : UpdateSource(h, id) \/ Remove(h, id) \/ \E r \in Runner : Register(h, id, r)
  /\ Silently /\ UNCHANGED <<serverVars, collected>>

Handle(h) ==
  /\ \/ (Launch(h) \/ CancelRunner(h) \/ AwaitRunner(h)) /\ Silently
     \/ PublishCreated(h) /\ Emit(Request(h), "created", target[h])
     \/ UpdateStation(h) /\ Emit(Request(h), "updated", target[h])
     \/ PublishDeleted(h) /\ Emit(Request(h), "deleted", target[h])
  /\ UNCHANGED <<serverVars, collected, requests>>

Busy(h) == at[h] # "idle" \/ ~Idle(Request(h))

-----------------------------------------------------------------------------
(* Loops *)

Started(r) == RunStarts(r) /\ Emit(Loop(r), "started", r)

\* popQueue publishes from a goroutine that nobody waits for; one per runner.
SpeaksAside(r) ==
  /\ run[r] = "running" /\ Idle(Loop(r)) /\ ~Said("stopped", r) /\ ~Said("aside", r)
  /\ Emit(Aside(r), "aside", r)
  /\ UNCHANGED managerVars

\* Mutant: done is sent while the deferred event is still being published.
StopsEarly(r) ==
  /\ run[r] = "running" /\ (r \in stopped \/ RootDone)
  /\ Idle(Loop(r))
  /\ RunReturns(r) /\ Emit(Loop(r), "stopped", r)

\* Run's deferred emit, and then what follows it: done.
Stops(r) ==
  \/ /\ run[r] = "running" /\ (r \in stopped \/ RootDone)
     /\ Idle(Loop(r)) /\ ~Said("stopped", r)
     /\ Emit(Loop(r), "stopped", r) /\ UNCHANGED managerVars
  \/ /\ Said("stopped", r) /\ Idle(Loop(r))
     /\ RunReturns(r) /\ Silently

RunLoop(r) ==
  /\ Started(r) \/ SpeaksAside(r) \/ Stops(r)
  /\ UNCHANGED <<serverVars, collected, requests>>

-----------------------------------------------------------------------------
(* Manager.Run *)

\* stopAll, with what it took from the map.
Collect == CollectAll /\ collected' = {stations[id] : id \in Mapped}

StopAll ==
  /\ \/ runCtxDone /\ MarkClosed /\ UNCHANGED collected
     \/ CancelRoot /\ UNCHANGED collected
     \/ Collect
     \/ (\E r \in Runner : AwaitOne(r)) /\ UNCHANGED collected
     \/ AllAwaited /\ UNCHANGED collected
  /\ Silently /\ UNCHANGED <<serverVars, requests>>

CloseEvents ==
  /\ main = "closing"
  /\ \/ D!Close /\ UNCHANGED managerVars
     \/ /\ closer \in {"drained", "timedOut"}
        /\ EventsClosed /\ UNCHANGED dispatcherVars
  /\ UNCHANGED <<serverVars, meaning, collected, requests>>

-----------------------------------------------------------------------------
(* Server.Run and main *)

Apart == UNCHANGED <<managerVars, dispatcherVars, meaning, collected, requests>>

Signal ==
  /\ ~runCtxDone /\ runCtxDone' = TRUE
  /\ Apart /\ UNCHANGED <<api, apiErr, pending, shutdownErr, exit>>

Return(err) == api' = "returned" /\ apiErr' = err

\* The listener fails, at once or later.
ListenFails ==
  /\ api = "serving" /\ Return("failed")
  /\ Apart /\ UNCHANGED <<runCtxDone, pending, shutdownErr, exit>>

Drain ==
  /\ api = "serving" /\ runCtxDone
  /\ api' = "draining"
  /\ Apart /\ UNCHANGED <<runCtxDone, apiErr, pending, shutdownErr, exit>>

\* Mutant: the handlers are not waited for.
CloseConnections ==
  /\ api = "draining" /\ Return("canceled")
  /\ Apart /\ UNCHANGED <<runCtxDone, pending, shutdownErr, exit>>

\* Shutdown found every connection idle, or gave up after its five seconds.
Drained ==
  /\ api = "draining"
  /\ \/ (\A h \in Handler : ~Busy(h)) /\ Return("canceled")
     \/ Return("failed")
  /\ Apart /\ UNCHANGED <<runCtxDone, pending, shutdownErr, exit>>

\* Whether goroutine g has put its result into errs.
Returned(g) == IF g = "manager" THEN main = "over" ELSE api = "returned"

Failure(g) == g = "api" /\ apiErr # "canceled"

\* Mutant: main does not cancel the other goroutine.
ReceiveOnly(g) ==
  /\ g \in pending /\ Returned(g)
  /\ pending' = pending \ {g}
  /\ shutdownErr' = (shutdownErr \/ Failure(g))
  /\ Apart /\ UNCHANGED <<runCtxDone, api, apiErr, exit>>

\* main takes a result; the first failure cancels what still runs.
Receive(g) ==
  /\ g \in pending /\ Returned(g)
  /\ pending' = pending \ {g}
  /\ shutdownErr' = (shutdownErr \/ Failure(g))
  /\ runCtxDone' = (runCtxDone \/ Failure(g))
  /\ Apart /\ UNCHANGED <<api, apiErr, exit>>

Exit ==
  /\ pending = {}
  /\ exit' = IF shutdownErr THEN "fatal" ELSE "complete"
  /\ Apart /\ UNCHANGED <<runCtxDone, api, apiErr, pending, shutdownErr>>

Serve == Drain \/ Drained

Main == (\E g \in pending : Receive(g)) \/ Exit

-----------------------------------------------------------------------------

Live == exit = "running" /\ ~panicked

\* What somebody has begun: requests, loops, publications, shutdown, the
\* server's draining and main itself.
Progress ==
  \/ \E h \in Handler : Handle(h)
  \/ \E r \in Runner : RunLoop(r)
  \/ \E p \in Publisher : Publish(p)
  \/ StopAll \/ CloseEvents \/ Serve \/ Main

Next == Live /\ (Progress \/ (\E h \in Handler : Begin(h)) \/ Work \/ Signal \/ ListenFails)

Spec == Init /\ [][Next]_vars

\* As long as something that was begun can go on, some of it does: the weakest
\* promise of a scheduler, enough because each of it comes to an end.  Nothing
\* is assumed of the worker, and no request or signal has to come.
FairSpec == Spec /\ WF_vars(Live /\ Progress)

-----------------------------------------------------------------------------
(* Properties *)

\* The runners nobody in Manager.Run waits for: those stopAll gave up on, and
\* those a delete had taken from the map before stopAll came.
Unawaited == Runner \ (collected \ timedOut)

\* A send on the dispatcher's closed channel ends the process only from a
\* goroutine that shutdown does not wait for: popQueue's, or the loop of a
\* runner that stopAll gave up on or that an overlapping delete had taken away.
\* No loop that ended in time can do it, and no request (Publish, stopAll).
OnlyUnawaitedPanics ==
  panicked => \E p \in Publisher :
    /\ place[p] = "send"
    /\ p \notin Requests
    /\ p[1] = "loop" => p[2] \in Unawaited

Accepts(type, r) ==
  \E k \in 1..Len(accepted) : meaning[accepted[k]] = [type |-> type, runner |-> r]

\* The dispatcher is closed after the last word of every loop that stopAll
\* awaited: the event is in the queue (stopAll, Close).
LastWordHeard ==
  closed => \A r \in collected \ timedOut : Accepts("stopped", r)

\* What the queue, and with it the stream, tells of one station's life: nothing
\* says started after stopped, or stopped after deleted (DeleteStation, Run).
QueueTellsLife ==
  \A i, j \in 1..Len(accepted) :
    LET first == meaning[accepted[i]]  second == meaning[accepted[j]] IN
    i < j /\ first.runner = second.runner =>
      /\ ~(first.type = "stopped" /\ second.type = "started")
      /\ ~(first.type = "deleted" /\ second.type \in {"started", "stopped"})

\* When main says that shutdown is complete, no request is being handled, only
\* loops that timed out are alive, and the dispatcher is closed (main, Run).
CompleteMeansStopped ==
  exit = "complete" =>
    /\ \A h \in Handler : ~Busy(h)
    /\ Loops \subseteq timedOut
    /\ closer \in {"drained", "timedOut"}

\* A signal, or a listener that fails, ends the process.
ProcessEnds == (runCtxDone \/ api = "returned") ~> ~Live

=============================================================================
