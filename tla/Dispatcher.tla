----------------------------- MODULE Dispatcher -----------------------------
(***************************************************************************)
(* The way of an event from Station.emit to the Redis stream: numbered     *)
(* under the station's lock, published outside of it by whichever          *)
(* goroutine emits, kept in the dispatcher's bounded queue, and appended   *)
(* by one worker that retries until Redis acknowledges or Close gives up.  *)
(*                                                                         *)
(* An event is its sequence number; the payload is data.                   *)
(***************************************************************************)
EXTENDS Naturals, Sequences, FiniteSets

CONSTANTS
  Publisher,    \* goroutines that emit: render, handlers, go s.emit(...)
  Recovered,    \* those whose panic is recovered: net/http does so for a handler
  Capacity,     \* capacity of the queue
  MaxEvents,    \* bound: how many events are emitted
  MaxCopies     \* bound: how many copies of an event Redis may come to hold

ASSUME DispatcherAssumption ==
  /\ Recovered \subseteq Publisher
  /\ Capacity \in Nat /\ MaxEvents \in Nat /\ MaxCopies \in Nat \ {0}

VARIABLES
  sequence,     \* Station.sequence
  at,           \* at[p]: where publisher p is in emit
  event,        \* event[p]: the event p carries
  queue,        \* the buffered channel
  closed,       \* Dispatcher.closed
  channelOpen,  \* close(d.queue) has not been called
  worker,       \* where run is
  inHand,       \* the event run is appending
  cancelled,    \* the worker's context is done
  closer,       \* where Close is, or how it returned
  stream,       \* external: the entries of the Redis stream
  accepted,     \* history: events the queue took, in order
  lost,         \* history: events Publish refused
  panicked      \* a send on the closed channel has ended the process

publishVars == <<sequence, at, event, accepted, lost>>
workerVars  == <<worker, inHand, stream>>
closeVars   == <<closed, channelOpen, cancelled, closer>>
vars        == <<publishVars, queue, workerVars, closeVars, panicked>>

Event == 1..MaxEvents

TypeOK ==
  /\ sequence \in 0..MaxEvents
  /\ at \in [Publisher -> {"idle", "check", "send"}]
  /\ event \in [Publisher -> 0..MaxEvents]
  /\ queue \in Seq(Event) /\ Len(queue) <= Capacity
  /\ closed \in BOOLEAN /\ channelOpen \in BOOLEAN
  /\ worker \in {"receive", "append", "backoff", "done"}
  /\ inHand \in 0..MaxEvents
  /\ cancelled \in BOOLEAN
  /\ closer \in {"open", "marked", "waiting", "drained", "timedOut"}
  /\ stream \in Seq(Event) /\ accepted \in Seq(Event)
  /\ lost \subseteq Event
  /\ panicked \in BOOLEAN

Init ==
  /\ sequence = 0
  /\ at = [p \in Publisher |-> "idle"] /\ event = [p \in Publisher |-> 0]
  /\ queue = <<>>
  /\ closed = FALSE /\ channelOpen = TRUE /\ cancelled = FALSE /\ closer = "open"
  /\ worker = "receive" /\ inHand = 0
  /\ stream = <<>>
  /\ accepted = <<>> /\ lost = {} /\ panicked = FALSE

-----------------------------------------------------------------------------
(* Publishers *)

\* emit: the event is numbered under the lock.
Number(p) ==
  /\ at[p] = "idle" /\ sequence < MaxEvents
  /\ sequence' = sequence + 1
  /\ event' = [event EXCEPT ![p] = sequence + 1]
  /\ at' = [at EXCEPT ![p] = "check"]
  /\ UNCHANGED <<accepted, lost, queue, workerVars, closeVars, panicked>>

Published(p) == at' = [at EXCEPT ![p] = "idle"]

\* Publish reads the closed flag first; emit ignores the error it returns.
CheckClosed(p) ==
  /\ at[p] = "check"
  /\ \/ closed /\ Published(p) /\ lost' = lost \cup {event[p]}
     \/ ~closed /\ at' = [at EXCEPT ![p] = "send"] /\ UNCHANGED lost
  /\ UNCHANGED <<sequence, event, accepted, queue, workerVars, closeVars, panicked>>

HasRoom == Len(queue) < Capacity

\* The non-blocking send: a full queue refuses the event.
Enqueue(p) ==
  /\ at[p] = "send" /\ channelOpen
  /\ Published(p)
  /\ \/ /\ HasRoom
        /\ queue' = Append(queue, event[p])
        /\ accepted' = Append(accepted, event[p])
        /\ UNCHANGED lost
     \/ /\ ~HasRoom
        /\ lost' = lost \cup {event[p]}
        /\ UNCHANGED <<queue, accepted>>
  /\ UNCHANGED <<sequence, event, workerVars, closeVars, panicked>>

\* A send on a closed channel panics, even in a select with a default, and ends
\* the process unless the panic is recovered.
SendPanics(p) ==
  /\ at[p] = "send" /\ ~channelOpen
  /\ \/ /\ p \in Recovered
        /\ Published(p) /\ lost' = lost \cup {event[p]}
        /\ UNCHANGED <<sequence, event, accepted, panicked>>
     \/ /\ p \notin Recovered
        /\ panicked' = TRUE
        /\ UNCHANGED publishVars
  /\ UNCHANGED <<queue, workerVars, closeVars>>

-----------------------------------------------------------------------------
(* The worker *)

\* range d.queue: the next event, or the end of a closed and drained channel.
Receive ==
  /\ worker = "receive"
  /\ \/ /\ queue # <<>>
        /\ inHand' = Head(queue) /\ queue' = Tail(queue)
        /\ worker' = "append"
     \/ /\ queue = <<>> /\ ~channelOpen
        /\ worker' = "done"
        /\ UNCHANGED <<inHand, queue>>
  /\ UNCHANGED <<publishVars, stream, closeVars, panicked>>

\* XADD, with its outcomes: acknowledged; failed; or applied by Redis though
\* the reply was lost or came after the timeout.  A call under way when the
\* context ends may still be any of these.
AppendAcked ==
  /\ worker = "append"
  /\ stream' = Append(stream, inHand)
  /\ worker' = "receive" /\ inHand' = 0
  /\ UNCHANGED <<publishVars, queue, closeVars, panicked>>

\* Mutant: an event whose XADD failed is not tried again.
AppendDropped ==
  /\ worker = "append"
  /\ worker' = "receive" /\ inHand' = 0
  /\ UNCHANGED <<publishVars, queue, stream, closeVars, panicked>>

AppendFails ==
  /\ worker = "append"
  /\ worker' = "backoff"
  /\ UNCHANGED <<publishVars, queue, inHand, stream, closeVars, panicked>>

Copies(e) == Cardinality({i \in 1..Len(stream) : stream[i] = e})

\* Bounded: the copy that will be acknowledged is within MaxCopies.
AppendUnacked ==
  /\ worker = "append"
  /\ Copies(inHand) + 1 < MaxCopies
  /\ stream' = Append(stream, inHand)
  /\ worker' = "backoff"
  /\ UNCHANGED <<publishVars, queue, inHand, closeVars, panicked>>

\* The back-off timer fired; a done context may be noticed or not.
Retry ==
  /\ worker = "backoff"
  /\ worker' = "append"
  /\ UNCHANGED <<publishVars, queue, inHand, stream, closeVars, panicked>>

\* Mutant: the worker stops at the first back-off.
GiveUpAtOnce ==
  /\ worker = "backoff"
  /\ worker' = "done"
  /\ UNCHANGED <<publishVars, queue, inHand, stream, closeVars, panicked>>

\* The done context was noticed: what the queue holds stays in it.
GiveUp ==
  /\ worker = "backoff" /\ cancelled
  /\ worker' = "done"
  /\ UNCHANGED <<publishVars, queue, inHand, stream, closeVars, panicked>>

-----------------------------------------------------------------------------
(* Close, called once when the manager shuts down. *)

MarkClosed ==
  /\ closer = "open"
  /\ closed' = TRUE /\ closer' = "marked"
  /\ UNCHANGED <<publishVars, queue, workerVars, channelOpen, cancelled, panicked>>

CloseChannel ==
  /\ closer = "marked"
  /\ channelOpen' = FALSE /\ closer' = "waiting"
  /\ UNCHANGED <<publishVars, queue, workerVars, closed, cancelled, panicked>>

\* Mutant: Close does not wait for the worker.
CloseEarly ==
  /\ closer = "waiting"
  /\ closer' = "drained" /\ cancelled' = TRUE
  /\ UNCHANGED <<publishVars, queue, workerVars, closed, channelOpen, panicked>>

CloseDrained ==
  /\ closer = "waiting" /\ worker = "done"
  /\ closer' = "drained" /\ cancelled' = TRUE
  /\ UNCHANGED <<publishVars, queue, workerVars, closed, channelOpen, panicked>>

\* The shutdown timeout ran out first.
CloseTimesOut ==
  /\ closer = "waiting"
  /\ closer' = "timedOut" /\ cancelled' = TRUE
  /\ UNCHANGED <<publishVars, queue, workerVars, closed, channelOpen, panicked>>

-----------------------------------------------------------------------------

Publish(p) == Number(p) \/ CheckClosed(p) \/ Enqueue(p) \/ SendPanics(p)

Work == Receive \/ AppendAcked \/ AppendFails \/ AppendUnacked \/ Retry \/ GiveUp

Close == MarkClosed \/ CloseChannel \/ CloseDrained \/ CloseTimesOut

Next ==
  /\ ~panicked
  /\ (\E p \in Publisher : Publish(p)) \/ Work \/ Close

Spec == Init /\ [][Next]_vars

\* The worker runs; Redis answers again and again, so an event that is retried
\* for ever is acknowledged.
FairSpec ==
  /\ Spec
  /\ WF_vars(~panicked /\ Work)
  /\ SF_vars(~panicked /\ AppendAcked)

-----------------------------------------------------------------------------
(* Properties *)

Streamed == {stream[i] : i \in 1..Len(stream)}

\* The stream repeats events but never reorders or skips one: without the
\* repetitions, which are adjacent, it is a prefix of what the queue accepted,
\* whatever is retried and however Close ends (run, append).
StreamFollowsQueue ==
  \A i \in 1..Len(stream) : \E k \in 1..Len(accepted) :
    /\ stream[i] = accepted[k]
    /\ IF i = 1 THEN k = 1
       ELSE \/ stream[i - 1] = accepted[k]
            \/ k > 1 /\ stream[i - 1] = accepted[k - 1]

\* A Close that reports success has lost nothing the queue accepted; the only
\* events missing from the stream are those Publish refused or has not taken.
DrainedMeansDelivered ==
  closer = "drained" =>
    /\ \A k \in 1..Len(accepted) : accepted[k] \in Streamed
    /\ \A e \in 1..sequence :
         e \in Streamed \/ e \in lost \/ \E p \in Publisher : at[p] # "idle" /\ event[p] = e

\* README "Redis events": delivery is at least once, for the events the queue
\* accepted, unless shutdown times out or the process dies.
AcceptedIsDelivered ==
  \A e \in Event :
    (\E k \in 1..Len(accepted) : accepted[k] = e) ~> (e \in Streamed \/ cancelled \/ panicked)

-----------------------------------------------------------------------------
(* The log that EventLog describes. *)

\* An event is delivered when Redis has acknowledged it, which is when it is
\* neither queued nor in run's hand.
Acknowledged == Len(accepted) - Len(queue) - (IF inHand = 0 THEN 0 ELSE 1)

Result == IF closer \in {"drained", "timedOut"} THEN closer ELSE "none"

Log == INSTANCE EventLog WITH log <- accepted, delivered <- Acknowledged, result <- Result

\* The dispatcher is the log of EventLog: publishers, full queue, retries, lost
\* replies and shutdown come to events taken in order, each delivered once its
\* predecessor was, copies of the oldest one that is not acknowledged, and a
\* close that is drained only when none is left (Publish, run, append, Close).
LogSpec == Log!Spec

=============================================================================
