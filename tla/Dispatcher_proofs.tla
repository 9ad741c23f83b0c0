-------------------------- MODULE Dispatcher_proofs --------------------------
(***************************************************************************)
(* Proofs about Dispatcher, for every number of publishers, capacity of    *)
(* the queue, number of events and number of copies Redis comes to hold.   *)
(***************************************************************************)
EXTENDS Dispatcher, TLAPS

(* How many accepted events the worker has taken.                           *)
Taken == Len(accepted) - Len(queue)

(* The queue is what was accepted and not taken.                            *)
QueueIsRest ==
  /\ Len(queue) <= Len(accepted)
  /\ \A i \in 1..Len(queue) : queue[i] = accepted[Taken + i]

Busy == worker \in {"append", "backoff"}

(* The worker carries the event it took last; the stream ends with that     *)
(* one, or with the one before it.                                          *)
WorkerOK ==
  /\ Busy => Taken >= 1 /\ inHand = accepted[Taken]
  /\ stream = <<>> => Taken = 0 \/ (Taken = 1 /\ worker # "receive")
  /\ stream # <<>> =>
       \/ Taken >= 1 /\ stream[Len(stream)] = accepted[Taken]
       \/ Taken > 1 /\ stream[Len(stream)] = accepted[Taken - 1] /\ worker # "receive"

Inv == TypeOK /\ QueueIsRest /\ WorkerOK /\ StreamFollowsQueue

LEMMA InitInv == Init => Inv
<1> SUFFICES ASSUME Init PROVE Inv
  OBVIOUS
<1> USE DEF Init
<1>1. TypeOK
  <2>1. sequence \in 0..MaxEvents /\ inHand \in 0..MaxEvents
        /\ event \in [Publisher -> 0..MaxEvents]
    BY DispatcherAssumption
  <2>2. Len(queue) <= Capacity
    BY DispatcherAssumption
  <2>3. /\ closed \in BOOLEAN /\ channelOpen \in BOOLEAN /\ cancelled \in BOOLEAN
        /\ panicked \in BOOLEAN
    BY Zenon
  <2>4. /\ at \in [Publisher -> {"idle", "check", "send"}]
        /\ queue \in Seq(Event) /\ stream \in Seq(Event) /\ accepted \in Seq(Event)
    OBVIOUS
  <2>5. /\ worker \in {"receive", "append", "backoff", "done"}
        /\ closer \in {"open", "marked", "waiting", "drained", "timedOut"}
        /\ lost \subseteq Event
    OBVIOUS
  <2> QED
    BY <2>1, <2>2, <2>3, <2>4, <2>5, Zenon DEF TypeOK
<1>2. QueueIsRest /\ WorkerOK /\ StreamFollowsQueue
  BY DEF QueueIsRest, Taken, WorkerOK, Busy, StreamFollowsQueue
<1> QED
  BY <1>1, <1>2 DEF Inv

\* A publisher's step that leaves the queue alone, or one of Close.
LEMMA AsideStep ==
  ASSUME Inv, TypeOK', UNCHANGED <<queue, accepted, worker, inHand, stream>>
  PROVE  Inv'
BY DEF Inv, QueueIsRest, Taken, WorkerOK, Busy, StreamFollowsQueue

\* The queue takes an event.
LEMMA EnqueuedStep ==
  ASSUME Inv, TypeOK', NEW e \in Event,
         queue' = Append(queue, e), accepted' = Append(accepted, e),
         UNCHANGED <<worker, inHand, stream>>
  PROVE  Inv'
<1>1. /\ queue \in Seq(Event) /\ accepted \in Seq(Event) /\ stream \in Seq(Event)
      /\ Len(queue) \in Nat /\ Len(accepted) \in Nat /\ Len(queue) <= Len(accepted)
  BY DEF Inv, TypeOK, QueueIsRest
<1>2. /\ Len(queue') = Len(queue) + 1 /\ Len(accepted') = Len(accepted) + 1
      /\ \A i \in 1..Len(queue) : queue'[i] = queue[i]
      /\ queue'[Len(queue) + 1] = e
      /\ \A i \in 1..Len(accepted) : accepted'[i] = accepted[i]
      /\ accepted'[Len(accepted) + 1] = e
  BY <1>1
<1>3. Taken' = Taken /\ Taken \in Nat /\ Taken <= Len(accepted)
  BY <1>1, <1>2 DEF Taken
<1>4. QueueIsRest'
  <2>1. Len(queue') <= Len(accepted')
    BY <1>1, <1>2
  <2>2. ASSUME NEW i \in 1..Len(queue') PROVE queue'[i] = accepted'[Taken + i]
    <3>1. CASE i = Len(queue) + 1
      BY <1>1, <1>2, <3>1 DEF Taken
    <3>2. CASE i # Len(queue) + 1
      <4>1. i \in 1..Len(queue) /\ Taken + i \in 1..Len(accepted)
        BY <1>1, <1>2, <1>3, <3>2 DEF Taken
      <4> QED
        BY <1>2, <4>1 DEF Inv, QueueIsRest
    <3> QED
      BY <3>1, <3>2
  <2> QED
    BY <1>3, <2>1, <2>2 DEF QueueIsRest
<1>5. WorkerOK'
  <2>1. Taken >= 1 => accepted'[Taken] = accepted[Taken]
    BY <1>1, <1>2, <1>3
  <2>2. Taken > 1 => accepted'[Taken - 1] = accepted[Taken - 1]
    BY <1>1, <1>2, <1>3
  <2> QED
    BY <1>3, <2>1, <2>2 DEF Inv, WorkerOK, Busy
<1>6. StreamFollowsQueue'
  <2> SUFFICES ASSUME NEW i \in 1..Len(stream')
               PROVE  \E k \in 1..Len(accepted') :
                        /\ stream'[i] = accepted'[k]
                        /\ IF i = 1 THEN k = 1
                           ELSE \/ stream'[i - 1] = accepted'[k]
                                \/ k > 1 /\ stream'[i - 1] = accepted'[k - 1]
    BY Zenon DEF StreamFollowsQueue
  <2>0. stream' = stream
    OBVIOUS
  <2>1. PICK k \in 1..Len(accepted) :
          /\ stream[i] = accepted[k]
          /\ IF i = 1 THEN k = 1
             ELSE \/ stream[i - 1] = accepted[k]
                  \/ k > 1 /\ stream[i - 1] = accepted[k - 1]
    BY <2>0 DEF Inv, StreamFollowsQueue
  <2>2. /\ k \in 1..Len(accepted') /\ accepted'[k] = accepted[k]
        /\ k > 1 => accepted'[k - 1] = accepted[k - 1]
    BY <1>1, <1>2
  <2> QED
    BY <2>0, <2>1, <2>2
<1> QED
  BY <1>4, <1>5, <1>6 DEF Inv

\* The worker takes the oldest event.
LEMMA TakenStep ==
  ASSUME Inv, TypeOK', worker = "receive", queue # <<>>,
         inHand' = Head(queue), queue' = Tail(queue), worker' = "append",
         UNCHANGED <<accepted, stream>>
  PROVE  Inv'
<1>1. /\ queue \in Seq(Event) /\ accepted \in Seq(Event)
      /\ Len(queue) \in Nat \ {0} /\ Len(accepted) \in Nat /\ Len(queue) <= Len(accepted)
  BY DEF Inv, TypeOK, QueueIsRest
<1>2. /\ Len(queue') = Len(queue) - 1 /\ inHand' = queue[1]
      /\ \A i \in 1..Len(queue') : queue'[i] = queue[i + 1]
  BY <1>1
<1>3. Taken' = Taken + 1 /\ Taken \in Nat
  BY <1>1, <1>2 DEF Taken
<1>4. inHand' = accepted[Taken']
  BY <1>1, <1>2, <1>3 DEF Inv, QueueIsRest
<1>5. QueueIsRest'
  <2>1. ASSUME NEW i \in 1..Len(queue') PROVE queue'[i] = accepted[Taken' + i]
    <3>1. i + 1 \in 1..Len(queue) /\ Taken + (i + 1) = Taken' + i
      BY <1>1, <1>2, <1>3
    <3> QED
      BY <1>2, <3>1 DEF Inv, QueueIsRest
  <2>2. Len(queue') <= Len(accepted')
    BY <1>1, <1>2
  <2> QED
    BY <2>1, <2>2 DEF QueueIsRest
<1>6. WorkerOK'
  <2>1. stream = <<>> => Taken = 0
    BY DEF Inv, WorkerOK
  <2>2. stream # <<>> => Taken >= 1 /\ stream[Len(stream)] = accepted[Taken]
    BY DEF Inv, WorkerOK
  <2> QED
    BY <1>3, <1>4, <2>1, <2>2 DEF WorkerOK, Busy
<1>7. StreamFollowsQueue'
  BY DEF Inv, StreamFollowsQueue
<1> QED
  BY <1>5, <1>6, <1>7 DEF Inv

\* Redis applied the append, acknowledged or not.
LEMMA AppendedStep ==
  ASSUME Inv, TypeOK', Busy, worker' \in {"receive", "backoff"},
         worker' = "backoff" => inHand' = inHand,
         stream' = Append(stream, inHand), UNCHANGED <<queue, accepted>>
  PROVE  Inv'
<1>1. /\ stream \in Seq(Event) /\ accepted \in Seq(Event) /\ Len(accepted) \in Nat
      /\ Len(stream) \in Nat /\ Len(queue) \in Nat /\ Len(queue) <= Len(accepted)
  BY DEF Inv, TypeOK, QueueIsRest
<1>2. Taken' = Taken /\ Taken \in 1..Len(accepted) /\ inHand = accepted[Taken]
  BY <1>1 DEF Taken, Inv, WorkerOK
<1>3. /\ Len(stream') = Len(stream) + 1 /\ stream'[Len(stream) + 1] = accepted[Taken]
      /\ \A i \in 1..Len(stream) : stream'[i] = stream[i]
  BY <1>1, <1>2
<1>4. QueueIsRest'
  BY DEF Inv, QueueIsRest, Taken
<1>a. WorkerOK /\ StreamFollowsQueue
  BY DEF Inv
<1>5. WorkerOK'
  <2>1. stream' # <<>> /\ stream'[Len(stream')] = accepted[Taken]
    BY <1>1, <1>3
  <2> QED
    BY <1>1, <1>2, <2>1 DEF WorkerOK, Busy
<1>6. StreamFollowsQueue'
  <2> SUFFICES ASSUME NEW i \in 1..Len(stream')
               PROVE  \E k \in 1..Len(accepted') :
                        /\ stream'[i] = accepted'[k]
                        /\ IF i = 1 THEN k = 1
                           ELSE \/ stream'[i - 1] = accepted'[k]
                                \/ k > 1 /\ stream'[i - 1] = accepted'[k - 1]
    BY Zenon DEF StreamFollowsQueue
  <2>0. accepted' = accepted
    OBVIOUS
  <2>1. CASE i # Len(stream) + 1
    <3>1. i \in 1..Len(stream) /\ stream'[i] = stream[i] /\ (i # 1 => stream'[i - 1] = stream[i - 1])
      BY <1>1, <1>3, <2>1
    <3>2. PICK k \in 1..Len(accepted) :
            /\ stream[i] = accepted[k]
            /\ IF i = 1 THEN k = 1
               ELSE \/ stream[i - 1] = accepted[k]
                    \/ k > 1 /\ stream[i - 1] = accepted[k - 1]
      BY <1>a, <3>1 DEF StreamFollowsQueue
    <3> QED
      BY <2>0, <3>1, <3>2
  <2>2. CASE i = Len(stream) + 1 /\ stream = <<>>
    <3>1. i = 1
      BY <2>2
    <3>2. Taken = 0 \/ Taken = 1
      BY <1>a, <2>2 DEF WorkerOK
    <3>3. 1 \in 1..Len(accepted') /\ stream'[i] = accepted'[1]
      BY <1>1, <1>2, <1>3, <2>0, <2>2, <3>2
    <3> QED
      BY <3>1, <3>3
  <2>3. CASE i = Len(stream) + 1 /\ stream # <<>>
    <3>1. i # 1 /\ i - 1 = Len(stream) /\ stream'[i - 1] = stream[Len(stream)]
      BY <1>1, <1>3, <2>3
    <3>2. \/ stream[Len(stream)] = accepted[Taken]
          \/ Taken > 1 /\ stream[Len(stream)] = accepted[Taken - 1]
      BY <1>a, <2>3 DEF WorkerOK
    <3>3. Taken \in 1..Len(accepted') /\ stream'[i] = accepted'[Taken]
      BY <1>2, <1>3, <2>0, <2>3
    <3>4. \/ stream'[i - 1] = accepted'[Taken]
          \/ Taken > 1 /\ stream'[i - 1] = accepted'[Taken - 1]
      BY <2>0, <3>1, <3>2
    <3> QED
      BY <3>1, <3>3, <3>4
  <2> QED
    BY <2>1, <2>2, <2>3
<1> QED
  BY <1>4, <1>5, <1>6 DEF Inv

-----------------------------------------------------------------------------
(* Types *)

Flags ==
  closed \in BOOLEAN /\ channelOpen \in BOOLEAN /\ cancelled \in BOOLEAN /\ panicked \in BOOLEAN

(* An event that is on its way has a number.                                *)
Numbered == \A p \in Publisher : at[p] # "idle" => event[p] \in 1..sequence

LEMMA FlagsStep == Flags /\ [Next]_vars => Flags'
<1> SUFFICES ASSUME Flags, [Next]_vars PROVE Flags'
  OBVIOUS
<1>1. ASSUME NEW p \in Publisher, Publish(p) PROVE Flags'
  BY <1>1, Zenon DEF Flags, Publish, Number, CheckClosed, Enqueue, SendPanics, closeVars
<1>2. CASE Work
  BY <1>2, Zenon DEF Flags, Work, Receive, AppendAcked, AppendFails, AppendUnacked, Retry, GiveUp,
                     closeVars
<1>3. CASE Close
  BY <1>3, Zenon DEF Flags, Close, MarkClosed, CloseChannel, CloseDrained, CloseTimesOut
<1>4. CASE UNCHANGED vars
  BY <1>4, Zenon DEF Flags, vars, closeVars
<1> QED
  BY <1>1, <1>2, <1>3, <1>4 DEF Next

\* What is in the worker's hand is an event it took from the queue.
LEMMA InHandIsEvent == Inv /\ Busy => inHand \in Event
<1> SUFFICES ASSUME Inv, Busy PROVE inHand \in Event
  OBVIOUS
<1>1. /\ accepted \in Seq(Event) /\ Len(accepted) \in Nat /\ Len(queue) \in Nat
      /\ Taken >= 1 /\ inHand = accepted[Taken]
  BY DEF Inv, TypeOK, WorkerOK
<1>2. Taken \in 1..Len(accepted)
  BY <1>1 DEF Taken
<1> QED
  BY <1>1, <1>2

LEMMA PublishTypes ==
  ASSUME Inv, Numbered, Flags', NEW p \in Publisher, Publish(p)
  PROVE  TypeOK' /\ Numbered'
<1>1. UNCHANGED <<worker, inHand, stream, closer>>
  BY DEF Publish, Number, CheckClosed, Enqueue, SendPanics, workerVars, closeVars
<1>2. CASE Number(p)
  <2>1. /\ sequence < MaxEvents /\ sequence' = sequence + 1
        /\ event' = [event EXCEPT ![p] = sequence + 1] /\ at' = [at EXCEPT ![p] = "check"]
        /\ UNCHANGED <<accepted, lost, queue>>
    BY <1>2 DEF Number
  <2>2. sequence' \in 0..MaxEvents /\ sequence' \in Event
    BY <2>1, DispatcherAssumption DEF Inv, TypeOK, Event
  <2>3. TypeOK'
    BY <1>1, <2>1, <2>2 DEF Inv, TypeOK, Event, Flags
  <2>4. Numbered'
    <3> SUFFICES ASSUME NEW q \in Publisher, at'[q] # "idle" PROVE event'[q] \in 1..sequence'
      BY DEF Numbered
    <3>1. CASE q = p
      BY <2>1, <2>2, <3>1 DEF Inv, TypeOK, Event
    <3>2. CASE q # p
      BY <2>1, <3>2 DEF Inv, TypeOK, Numbered
    <3> QED
      BY <3>1, <3>2
  <2> QED
    BY <2>3, <2>4
<1>3. CASE CheckClosed(p) \/ Enqueue(p) \/ SendPanics(p)
  <2>1. /\ at[p] # "idle" /\ UNCHANGED <<sequence, event>>
        /\ at' = at \/ at' = [at EXCEPT ![p] = "idle"] \/ at' = [at EXCEPT ![p] = "send"]
        /\ lost' = lost \/ lost' = lost \cup {event[p]}
        /\ \/ UNCHANGED <<queue, accepted>>
           \/ /\ Len(queue) < Capacity /\ queue' = Append(queue, event[p])
              /\ accepted' = Append(accepted, event[p])
    BY <1>3 DEF CheckClosed, Enqueue, SendPanics, Published, HasRoom, publishVars
  <2>2. event[p] \in Event
    BY <2>1 DEF Inv, TypeOK, Numbered, Event
  <2>3. queue' \in Seq(Event) /\ accepted' \in Seq(Event) /\ Len(queue') <= Capacity
    <3>1. /\ queue \in Seq(Event) /\ accepted \in Seq(Event) /\ Len(queue) \in Nat
          /\ Len(queue) <= Capacity
      BY DEF Inv, TypeOK
    <3>2. CASE UNCHANGED <<queue, accepted>>
      BY <3>1, <3>2
    <3>3. CASE /\ Len(queue) < Capacity /\ queue' = Append(queue, event[p])
               /\ accepted' = Append(accepted, event[p])
      <4>1. queue' \in Seq(Event) /\ accepted' \in Seq(Event) /\ Len(queue') = Len(queue) + 1
        BY <2>2, <3>1, <3>3
      <4> QED
        BY <3>1, <3>3, <4>1, DispatcherAssumption
    <3> QED
      BY <2>1, <3>2, <3>3
  <2>4. at' \in [Publisher -> {"idle", "check", "send"}] /\ lost' \subseteq Event
    BY <2>1, <2>2 DEF Inv, TypeOK
  <2>5. TypeOK'
    BY <1>1, <2>1, <2>3, <2>4 DEF Inv, TypeOK, Flags
  <2>6. Numbered'
    BY <2>1 DEF Inv, TypeOK, Numbered
  <2> QED
    BY <2>5, <2>6
<1> QED
  BY <1>2, <1>3 DEF Publish

LEMMA WorkTypes ==
  ASSUME Inv, Numbered, Flags', Work
  PROVE  TypeOK' /\ Numbered'
<1>1. UNCHANGED <<sequence, at, event, accepted, lost, closer>>
  BY DEF Work, Receive, AppendAcked, AppendFails, AppendUnacked, Retry, GiveUp, publishVars, closeVars
<1>2. worker' \in {"receive", "append", "backoff", "done"}
  BY DEF Work, Receive, AppendAcked, AppendFails, AppendUnacked, Retry, GiveUp
<1>3. queue' \in Seq(Event) /\ Len(queue') <= Capacity /\ inHand' \in 0..MaxEvents
  <2>1. CASE Receive /\ queue # <<>>
    <3>1. queue' = Tail(queue) /\ inHand' = Head(queue)
      BY <2>1 DEF Receive
    <3>2. queue' \in Seq(Event) /\ Len(queue') <= Len(queue) /\ inHand' \in Event
      BY <2>1, <3>1 DEF Inv, TypeOK
    <3>3. Len(queue) \in Nat /\ Len(queue') \in Nat /\ Len(queue) <= Capacity
      BY <3>2 DEF Inv, TypeOK
    <3> QED
      BY <3>2, <3>3, DispatcherAssumption DEF Event
  <2>2. CASE Receive /\ queue = <<>>
    BY <2>2 DEF Receive, Inv, TypeOK
  <2>3. CASE ~Receive
    <3>1. queue' = queue /\ (inHand' = inHand \/ inHand' = 0)
      BY <2>3 DEF Work, AppendAcked, AppendFails, AppendUnacked, Retry, GiveUp
    <3> QED
      BY <3>1, DispatcherAssumption DEF Inv, TypeOK
  <2> QED
    BY <2>1, <2>2, <2>3
<1>4. stream' \in Seq(Event)
  <2>1. stream' = stream \/ (Busy /\ stream' = Append(stream, inHand))
    BY DEF Work, Receive, AppendAcked, AppendFails, AppendUnacked, Retry, GiveUp, Busy
  <2> QED
    <3>1. stream \in Seq(Event)
      BY DEF Inv, TypeOK
    <3>2. Busy => inHand \in Event
      BY InHandIsEvent
    <3> QED
      BY <2>1, <3>1, <3>2
<1> QED
  BY <1>1, <1>2, <1>3, <1>4 DEF Inv, TypeOK, Flags, Numbered

LEMMA TypesStep ==
  ASSUME Inv, Numbered, [Next]_vars
  PROVE  TypeOK' /\ Numbered'
<1>1. Flags'
  BY FlagsStep DEF Inv, TypeOK, Flags
<1>2. CASE \E p \in Publisher : Publish(p)
  BY <1>1, <1>2, PublishTypes
<1>3. CASE Work
  BY <1>1, <1>3, WorkTypes
<1>4. CASE Close
  <2>1. UNCHANGED <<sequence, at, event, accepted, lost, queue, worker, inHand, stream>>
    BY <1>4 DEF Close, MarkClosed, CloseChannel, CloseDrained, CloseTimesOut, publishVars, workerVars
  <2>2. closer' \in {"open", "marked", "waiting", "drained", "timedOut"}
    BY <1>4 DEF Close, MarkClosed, CloseChannel, CloseDrained, CloseTimesOut
  <2> QED
    BY <1>1, <2>1, <2>2 DEF Inv, TypeOK, Flags, Numbered
<1>5. CASE UNCHANGED vars
  BY <1>1, <1>5 DEF vars, publishVars, workerVars, closeVars, Inv, TypeOK, Flags, Numbered
<1> QED
  BY <1>2, <1>3, <1>4, <1>5 DEF Next

-----------------------------------------------------------------------------

LEMMA NextInv == Inv /\ Numbered /\ [Next]_vars => Inv' /\ Numbered'
<1> SUFFICES ASSUME Inv, Numbered, [Next]_vars PROVE Inv'
  BY TypesStep
<1>1. TypeOK'
  BY TypesStep
<1>2. ASSUME NEW p \in Publisher, Publish(p) PROVE Inv'
  <2>1. UNCHANGED <<worker, inHand, stream>>
    BY <1>2 DEF Publish, Number, CheckClosed, Enqueue, SendPanics, workerVars
  <2>2. CASE UNCHANGED <<queue, accepted>>
    BY <1>1, <2>1, <2>2, AsideStep
  <2>3. CASE /\ queue' = Append(queue, event[p]) /\ accepted' = Append(accepted, event[p])
             /\ at[p] = "send"
    <3>1. event[p] \in Event
      BY <2>3 DEF Numbered, Inv, TypeOK, Event
    <3> QED
      BY <1>1, <2>1, <2>3, <3>1, EnqueuedStep
  <2> QED
    BY <1>2, <2>2, <2>3 DEF Publish, Number, CheckClosed, Enqueue, SendPanics, publishVars
<1>3. CASE Receive
  <2>1. UNCHANGED <<accepted, stream>>
    BY <1>3 DEF Receive, publishVars
  <2>2. CASE queue # <<>>
    BY <1>1, <1>3, <2>1, <2>2, TakenStep DEF Receive
  <2>3. CASE queue = <<>>
    <3>1. UNCHANGED <<queue, inHand>> /\ worker = "receive" /\ worker' = "done"
      BY <1>3, <2>3 DEF Receive
    <3> QED
      BY <1>1, <2>1, <3>1 DEF Inv, QueueIsRest, Taken, WorkerOK, Busy, StreamFollowsQueue
  <2> QED
    BY <2>2, <2>3
<1>4. CASE AppendAcked \/ AppendUnacked
  <2>1. /\ Busy /\ worker' \in {"receive", "backoff"} /\ (worker' = "backoff" => inHand' = inHand)
        /\ stream' = Append(stream, inHand) /\ UNCHANGED <<queue, accepted>>
    BY <1>4 DEF AppendAcked, AppendUnacked, Busy, publishVars
  <2> QED
    BY <1>1, <2>1, AppendedStep
<1>5. CASE AppendFails \/ Retry \/ GiveUp
  <2>1. /\ Busy /\ worker' \in {"append", "backoff", "done"}
        /\ UNCHANGED <<queue, accepted, inHand, stream>>
    BY <1>5 DEF AppendFails, Retry, GiveUp, Busy, publishVars
  <2> QED
    BY <1>1, <2>1 DEF Inv, QueueIsRest, Taken, WorkerOK, Busy, StreamFollowsQueue
<1>6. CASE Close \/ UNCHANGED vars
  <2>1. UNCHANGED <<queue, accepted, worker, inHand, stream>>
    BY <1>6 DEF Close, MarkClosed, CloseChannel, CloseDrained, CloseTimesOut, publishVars,
                workerVars, vars
  <2> QED
    BY <1>1, <2>1, AsideStep
<1> QED
  BY <1>2, <1>3, <1>4, <1>5, <1>6 DEF Next, Work

THEOREM InvHolds == Spec => [](Inv /\ Numbered)
<1>1. Init => Numbered
  BY DEF Init, Numbered
<1> QED
  BY <1>1, InitInv, NextInv, PTL DEF Spec

\* The stream is what the queue accepted, in its order and without a gap, but
\* for the adjacent copies a retry leaves (run, append).
THEOREM StreamFollowsQueueHolds == Spec => []StreamFollowsQueue
<1>1. Inv /\ Numbered => StreamFollowsQueue
  BY DEF Inv
<1> QED
  BY <1>1, InvHolds, PTL

-----------------------------------------------------------------------------
(* Close *)

(* The worker ends with the drained queue, unless Close gave up on it.      *)
CloseOK ==
  /\ cancelled => closer \in {"drained", "timedOut"}
  /\ closer \in {"waiting", "drained", "timedOut"} => ~channelOpen
  /\ closer = "drained" => worker = "done"
  /\ worker = "done" /\ closer # "timedOut" => queue = <<>> /\ ~channelOpen

(* What was taken is in the stream, but for what the worker still carries.  *)
Carried(k) == k = Taken /\ (Busy \/ (worker = "done" /\ closer = "timedOut"))
Delivered == \A k \in 1..Taken : accepted[k] \in Streamed \/ Carried(k)

Underway(e) == \E p \in Publisher : at[p] # "idle" /\ event[p] = e

(* Every number was accepted or refused, or is on its way.                  *)
Accounted ==
  \A e \in 1..sequence :
    (\E k \in 1..Len(accepted) : accepted[k] = e) \/ e \in lost \/ Underway(e)

LEMMA CloseStep ==
  ASSUME Inv, CloseOK, [Next]_vars
  PROVE  CloseOK'
<1>1. ASSUME NEW p \in Publisher, Publish(p) PROVE CloseOK'
  <2>1. UNCHANGED <<worker, closed, channelOpen, cancelled, closer>>
    BY <1>1 DEF Publish, Number, CheckClosed, Enqueue, SendPanics, workerVars, closeVars
  <2>2. queue' = queue \/ channelOpen
    BY <1>1 DEF Publish, Number, CheckClosed, Enqueue, SendPanics
  <2> QED
    BY <2>1, <2>2 DEF CloseOK
<1>2. CASE Receive
  BY <1>2 DEF Receive, closeVars, CloseOK
<1>3. CASE AppendAcked \/ AppendFails \/ AppendUnacked \/ Retry
  BY <1>3 DEF AppendAcked, AppendFails, AppendUnacked, Retry, closeVars, CloseOK
<1>4. CASE GiveUp
  <2>1. closer = "timedOut" /\ closer' = closer /\ channelOpen' = channelOpen /\ cancelled' = cancelled
    BY <1>4 DEF GiveUp, closeVars, CloseOK
  <2> QED
    BY <2>1 DEF CloseOK
<1>5. CASE Close
  BY <1>5 DEF Close, MarkClosed, CloseChannel, CloseDrained, CloseTimesOut, workerVars, CloseOK
<1>6. CASE UNCHANGED vars
  BY <1>6 DEF vars, workerVars, closeVars, CloseOK
<1> QED
  BY <1>1, <1>2, <1>3, <1>4, <1>5, <1>6 DEF Next, Work

LEMMA DeliveredStep ==
  ASSUME Inv, Inv', CloseOK, Delivered, [Next]_vars
  PROVE  Delivered'
<1>0. /\ accepted \in Seq(Event) /\ stream \in Seq(Event) /\ queue \in Seq(Event)
      /\ Len(accepted) \in Nat /\ Len(stream) \in Nat /\ Len(queue) \in Nat
      /\ Len(queue) <= Len(accepted) /\ Taken \in Nat /\ Taken <= Len(accepted)
  BY DEF Inv, TypeOK, QueueIsRest, Taken
<1>1. ASSUME NEW p \in Publisher, Publish(p) PROVE Delivered'
  <2>1. UNCHANGED <<worker, stream, closer>>
    BY <1>1 DEF Publish, Number, CheckClosed, Enqueue, SendPanics, workerVars, closeVars
  <2>2. CASE UNCHANGED <<queue, accepted>>
    BY <2>1, <2>2 DEF Delivered, Taken, Carried, Busy, Streamed
  <2>3. CASE queue' = Append(queue, event[p]) /\ accepted' = Append(accepted, event[p])
    <3>1. /\ Len(queue') = Len(queue) + 1 /\ Len(accepted') = Len(accepted) + 1
          /\ \A k \in 1..Len(accepted) : accepted'[k] = accepted[k]
      BY <1>0, <2>3
    <3>2. Taken' = Taken
      BY <1>0, <3>1 DEF Taken
    <3>3. \A k \in 1..Taken : accepted'[k] = accepted[k]
      BY <1>0, <3>1
    <3> QED
      BY <2>1, <3>2, <3>3 DEF Delivered, Carried, Busy, Streamed
  <2> QED
    BY <1>1, <2>2, <2>3 DEF Publish, Number, CheckClosed, Enqueue, SendPanics, publishVars
<1>2. CASE Receive
  <2>1. UNCHANGED <<accepted, stream, closer>> /\ worker = "receive"
    BY <1>2 DEF Receive, publishVars, closeVars
  <2>2. \A k \in 1..Taken : accepted[k] \in Streamed
    BY <2>1 DEF Delivered, Carried, Busy
  <2>3. CASE queue # <<>>
    <3>1. queue' = Tail(queue) /\ worker' = "append"
      BY <1>2, <2>3 DEF Receive
    <3>2. Taken' = Taken + 1
      BY <1>0, <2>1, <2>3, <3>1 DEF Taken
    <3>3. Streamed' = Streamed
      BY <2>1 DEF Streamed
    <3>4. \A k \in 1..Taken' : k \in 1..Taken \/ k = Taken'
      BY <1>0, <3>2
    <3>5. \A k \in 1..Taken' : accepted'[k] \in Streamed' \/ k = Taken'
      BY <2>1, <2>2, <3>3, <3>4
    <3>6. \A k : k = Taken' => (k = Taken' /\ (Busy' \/ (worker' = "done" /\ closer' = "timedOut")))
      BY <3>1 DEF Busy
    <3> QED
      BY <3>5, <3>6 DEF Delivered, Carried
  <2>4. CASE queue = <<>>
    <3>1. queue' = queue
      BY <1>2, <2>4 DEF Receive
    <3> QED
      BY <2>1, <2>2, <3>1 DEF Delivered, Taken, Streamed
  <2> QED
    BY <2>3, <2>4
<1>3. CASE AppendAcked \/ AppendUnacked
  <2>1. Busy /\ stream' = Append(stream, inHand) /\ UNCHANGED <<queue, accepted>>
    BY <1>3 DEF AppendAcked, AppendUnacked, Busy, publishVars
  <2>2. Taken' = Taken /\ inHand = accepted[Taken]
    BY <2>1 DEF Inv, WorkerOK, Taken
  <2>3. /\ Len(stream') = Len(stream) + 1 /\ stream'[Len(stream) + 1] = inHand
        /\ \A i \in 1..Len(stream) : stream'[i] = stream[i]
    BY <1>0, <2>1
  <2>4. Streamed \cup {inHand} \subseteq Streamed'
    <3>1. Streamed' = {stream'[i] : i \in 1..Len(stream) + 1}
      BY <1>0, <2>3 DEF Streamed
    <3>2. inHand \in Streamed'
      BY <1>0, <2>3, <3>1
    <3>3. Streamed \subseteq Streamed'
      BY <1>0, <2>3, <3>1 DEF Streamed
    <3> QED
      BY <3>2, <3>3
  <2> QED
    BY <2>1, <2>2, <2>4 DEF Delivered, Carried
<1>4. CASE AppendFails \/ Retry
  BY <1>4 DEF AppendFails, Retry, publishVars, closeVars, Delivered, Taken, Carried, Busy, Streamed
<1>5. CASE GiveUp
  <2>1. closer = "timedOut" /\ closer' = closer
    BY <1>5 DEF GiveUp, closeVars, CloseOK
  <2> QED
    BY <1>5, <2>1 DEF GiveUp, publishVars, Delivered, Taken, Carried, Busy, Streamed
<1>6. CASE Close
  <2>1. UNCHANGED <<accepted, queue, stream, worker>> /\ closer # "timedOut"
    BY <1>6 DEF Close, MarkClosed, CloseChannel, CloseDrained, CloseTimesOut, publishVars, workerVars
  <2> QED
    BY <2>1 DEF Delivered, Taken, Carried, Busy, Streamed
<1>7. CASE UNCHANGED vars
  BY <1>7 DEF vars, publishVars, workerVars, closeVars, Delivered, Taken, Carried, Busy, Streamed
<1> QED
  BY <1>1, <1>2, <1>3, <1>4, <1>5, <1>6, <1>7 DEF Next, Work

LEMMA AccountStep ==
  ASSUME Inv, Numbered, Accounted, [Next]_vars
  PROVE  Accounted'
<1>1. ASSUME NEW p \in Publisher, Number(p) PROVE Accounted'
  <2>1. /\ at[p] = "idle" /\ sequence' = sequence + 1 /\ UNCHANGED <<accepted, lost>>
        /\ event' = [event EXCEPT ![p] = sequence + 1] /\ at' = [at EXCEPT ![p] = "check"]
    BY <1>1 DEF Number
  <2>2. /\ at'[p] = "check" /\ event'[p] = sequence + 1
        /\ \A q \in Publisher \ {p} : at'[q] = at[q] /\ event'[q] = event[q]
    BY <2>1 DEF Inv, TypeOK
  <2>3. \A e : Underway(e) => Underway(e)'
    BY <2>1, <2>2 DEF Underway
  <2>4. \A e : e = sequence + 1 => Underway(e)'
    BY <2>2 DEF Underway
  <2>5. \A e \in 1..sequence' : e \in 1..sequence \/ e = sequence + 1
    BY <2>1 DEF Inv, TypeOK
  <2> QED
    BY <2>1, <2>3, <2>4, <2>5 DEF Accounted
<1>2. ASSUME NEW p \in Publisher, CheckClosed(p) \/ Enqueue(p) \/ SendPanics(p) PROVE Accounted'
  <2>1. UNCHANGED <<sequence, event>>
    BY <1>2 DEF CheckClosed, Enqueue, SendPanics, publishVars
  <2>2. /\ accepted \in Seq(Event) /\ Len(accepted) \in Nat
        /\ accepted' = accepted \/ accepted' = Append(accepted, event[p])
    BY <1>2 DEF CheckClosed, Enqueue, SendPanics, publishVars, Inv, TypeOK
  <2>3. \A e : (\E k \in 1..Len(accepted) : accepted[k] = e)
                 => \E k \in 1..Len(accepted') : accepted'[k] = e
    BY <2>2
  <2>4. lost \subseteq lost'
    BY <1>2 DEF CheckClosed, Enqueue, SendPanics, publishVars
  <2>5. \/ at'[p] # "idle"
        \/ event[p] \in lost'
        \/ \E k \in 1..Len(accepted') : accepted'[k] = event[p]
    <3>1. CASE accepted' = Append(accepted, event[p])
      BY <2>2, <3>1
    <3>2. CASE CheckClosed(p)
      BY <3>2 DEF CheckClosed, Inv, TypeOK
    <3>3. CASE SendPanics(p)
      BY <3>3 DEF SendPanics, publishVars
    <3> QED
      BY <1>2, <3>1, <3>2, <3>3 DEF Enqueue
  <2>6. \A q \in Publisher \ {p} : at'[q] = at[q]
    BY <1>2 DEF CheckClosed, Enqueue, SendPanics, Published, publishVars, Inv, TypeOK
  <2>7. \A e : Underway(e) => \/ Underway(e)' \/ e \in lost'
                              \/ \E k \in 1..Len(accepted') : accepted'[k] = e
    BY <2>1, <2>5, <2>6 DEF Underway
  <2> QED
    BY <2>1, <2>3, <2>4, <2>7 DEF Accounted
<1>3. CASE Work \/ Close \/ UNCHANGED vars
  <2>1. UNCHANGED <<sequence, at, event, accepted, lost>>
    BY <1>3 DEF Work, Receive, AppendAcked, AppendFails, AppendUnacked, Retry, GiveUp, Close,
                MarkClosed, CloseChannel, CloseDrained, CloseTimesOut, publishVars, vars
  <2> QED
    BY <2>1 DEF Accounted, Underway
<1> QED
  BY <1>1, <1>2, <1>3 DEF Next, Publish

\* A Close that reports success has lost nothing the queue accepted, and every
\* number that is missing from the stream was refused or is not published yet
\* (Close, run, Publish, emit).
THEOREM DrainedMeansDeliveredHolds == Spec => []DrainedMeansDelivered
<1>1. Init => CloseOK /\ Delivered /\ Accounted
  <2> SUFFICES ASSUME Init PROVE CloseOK /\ Delivered /\ Accounted
    OBVIOUS
  <2>1. CloseOK
    BY DEF Init, CloseOK
  <2>2. Taken = 0 /\ sequence = 0
    BY DEF Init, Taken
  <2> QED
    BY <2>1, <2>2 DEF Delivered, Accounted
<1>2. /\ Inv /\ Numbered /\ Inv' /\ CloseOK /\ Delivered /\ Accounted /\ [Next]_vars
      => CloseOK' /\ Delivered' /\ Accounted'
  BY CloseStep, DeliveredStep, AccountStep
<1>3. Inv /\ CloseOK /\ Delivered /\ Accounted => DrainedMeansDelivered
  <2> SUFFICES ASSUME Inv, CloseOK, Delivered, Accounted, closer = "drained"
               PROVE  /\ \A k \in 1..Len(accepted) : accepted[k] \in Streamed
                      /\ \A e \in 1..sequence : e \in Streamed \/ e \in lost \/ Underway(e)
    BY DEF DrainedMeansDelivered, Underway
  <2>1. queue = <<>> /\ worker = "done"
    BY DEF CloseOK
  <2>2. Taken = Len(accepted)
    BY <2>1 DEF Taken, Inv, TypeOK
  <2>3. \A k \in 1..Len(accepted) : accepted[k] \in Streamed
    BY <2>1, <2>2 DEF Delivered, Carried, Busy
  <2> QED
    BY <2>3 DEF Accounted
<1> QED
  BY <1>1, <1>2, <1>3, InvHolds, PTL DEF Spec

-----------------------------------------------------------------------------
(* The log that EventLog describes. *)

(* The hand is empty between two events, and after a drained queue.         *)
HandOK ==
  /\ worker = "receive" => inHand = 0
  /\ worker = "done" /\ closer # "timedOut" => inHand = 0

LogStutter == UNCHANGED <<accepted, Acknowledged, stream, Result>>

LEMMA StutterOfLog == LogStutter => UNCHANGED Log!logVars
BY DEF LogStutter, Acknowledged, Result, Log!logVars

LEMMA HandStep == Inv /\ CloseOK /\ HandOK /\ [Next]_vars => HandOK'
<1> SUFFICES ASSUME Inv, CloseOK, HandOK, [Next]_vars PROVE HandOK'
  OBVIOUS
<1>1. ASSUME NEW p \in Publisher, Publish(p) PROVE HandOK'
  BY <1>1 DEF Publish, Number, CheckClosed, Enqueue, SendPanics, workerVars, closeVars, HandOK
<1>2. CASE Receive \/ AppendAcked \/ AppendFails \/ AppendUnacked \/ Retry
  BY <1>2 DEF Receive, AppendAcked, AppendFails, AppendUnacked, Retry, closeVars, HandOK
<1>3. CASE GiveUp
  <2>1. closer' = "timedOut" /\ worker' = "done"
    BY <1>3 DEF GiveUp, closeVars, CloseOK
  <2> QED
    BY <2>1 DEF HandOK
<1>4. CASE Close
  BY <1>4 DEF Close, MarkClosed, CloseChannel, CloseDrained, CloseTimesOut, workerVars, HandOK
<1>5. CASE UNCHANGED vars
  BY <1>5 DEF vars, workerVars, closeVars, HandOK
<1> QED
  BY <1>1, <1>2, <1>3, <1>4, <1>5 DEF Next, Work

\* What the proof needs of the sequences.
LEMMA LogFacts ==
  ASSUME Inv
  PROVE  /\ accepted \in Seq(Event) /\ queue \in Seq(Event) /\ stream \in Seq(Event)
         /\ Len(accepted) \in Nat /\ Len(queue) \in Nat /\ Len(queue) <= Len(accepted)
         /\ Busy => /\ inHand # 0 /\ Acknowledged < Len(accepted)
                    /\ Acknowledged + 1 = Taken /\ inHand = accepted[Taken]
<1>1. /\ accepted \in Seq(Event) /\ queue \in Seq(Event) /\ stream \in Seq(Event)
      /\ Len(accepted) \in Nat /\ Len(queue) \in Nat /\ Len(queue) <= Len(accepted)
  BY DEF Inv, TypeOK, QueueIsRest
<1>2. Busy => inHand # 0 /\ inHand = accepted[Taken]
  BY InHandIsEvent, DispatcherAssumption DEF Event, Inv, WorkerOK
<1> QED
  BY <1>1, <1>2 DEF Acknowledged, Taken

LEMMA PublishRefines ==
  ASSUME Inv, Numbered, CloseOK, NEW p \in Publisher, Publish(p)
  PROVE  (\E e \in Event : Log!Take(e)) \/ LogStutter
<1>1. UNCHANGED <<inHand, stream, closer>>
  BY DEF Publish, Number, CheckClosed, Enqueue, SendPanics, workerVars, closeVars
<1>2. CASE UNCHANGED <<accepted, queue>>
  BY <1>1, <1>2 DEF LogStutter, Acknowledged, Result
<1>3. CASE /\ queue' = Append(queue, event[p]) /\ accepted' = Append(accepted, event[p])
           /\ at[p] = "send" /\ channelOpen
  <2>1. event[p] \in Event
    BY <1>3 DEF Numbered, Inv, TypeOK, Event
  <2>2. Len(accepted') = Len(accepted) + 1 /\ Len(queue') = Len(queue) + 1
    BY <1>3, <2>1, LogFacts
  <2>3. UNCHANGED Acknowledged
    BY <1>1, <2>2, LogFacts DEF Acknowledged
  <2>4. closer \notin {"drained", "timedOut"}
    BY <1>3 DEF CloseOK
  <2>5. Log!Take(event[p])
    BY <1>1, <1>3, <2>3, <2>4 DEF Log!Take, Acknowledged, Result
  <2> QED
    BY <2>1, <2>5
<1> QED
  BY <1>2, <1>3 DEF Publish, Number, CheckClosed, Enqueue, SendPanics, publishVars

LEMMA WorkRefines ==
  ASSUME Inv, HandOK, Work
  PROVE  Log!Deliver \/ Log!Repeat \/ LogStutter
<1>1. UNCHANGED <<accepted, closer>>
  BY DEF Work, Receive, AppendAcked, AppendFails, AppendUnacked, Retry, GiveUp, publishVars, closeVars
<1>2. CASE Receive /\ queue # <<>>
  <2>1. /\ queue' = Tail(queue) /\ inHand' = Head(queue) /\ inHand = 0 /\ UNCHANGED stream
    BY <1>2 DEF Receive, HandOK
  <2>2. Len(queue') = Len(queue) - 1 /\ inHand' # 0
    BY <1>2, <2>1, LogFacts, DispatcherAssumption DEF Event
  <2>3. UNCHANGED Acknowledged
    <3>1. Len(accepted) \in Nat /\ Len(queue) \in Nat /\ Len(accepted') = Len(accepted)
      BY <1>1, LogFacts
    <3>2. Acknowledged = Len(accepted) - Len(queue)
      BY <2>1, <3>1 DEF Acknowledged
    <3>3. Acknowledged' = Len(accepted) - (Len(queue) - 1) - 1
      BY <2>2, <3>1 DEF Acknowledged
    <3> QED
      BY <3>1, <3>2, <3>3
  <2> QED
    BY <1>1, <2>1, <2>3 DEF LogStutter, Result
<1>3. CASE (Receive /\ queue = <<>>) \/ AppendFails \/ Retry \/ GiveUp
  <2>1. UNCHANGED <<queue, inHand, stream>>
    BY <1>3 DEF Receive, AppendFails, Retry, GiveUp
  <2> QED
    BY <1>1, <2>1 DEF LogStutter, Acknowledged, Result
<1>4. CASE AppendAcked
  <2>1. Busy /\ stream' = Append(stream, inHand) /\ inHand' = 0 /\ UNCHANGED queue
    BY <1>4 DEF AppendAcked, Busy
  <2>2. Acknowledged < Len(accepted) /\ stream' = Append(stream, accepted[Acknowledged + 1])
    BY <2>1, LogFacts
  <2>3. Acknowledged' = Acknowledged + 1
    BY <1>1, <2>1, LogFacts DEF Acknowledged
  <2> QED
    BY <1>1, <2>2, <2>3 DEF Log!Deliver, Log!Entry, Acknowledged, Result
<1>5. CASE AppendUnacked
  <2>1. Busy /\ stream' = Append(stream, inHand) /\ UNCHANGED <<inHand, queue>>
    BY <1>5 DEF AppendUnacked, Busy
  <2>2. Acknowledged < Len(accepted) /\ stream' = Append(stream, accepted[Acknowledged + 1])
    BY <2>1, LogFacts
  <2> QED
    BY <1>1, <2>1, <2>2 DEF Log!Repeat, Log!Entry, Acknowledged, Result
<1> QED
  BY <1>2, <1>3, <1>4, <1>5 DEF Work

LEMMA CloseRefines ==
  ASSUME Inv, CloseOK, HandOK, Close
  PROVE  Log!Drain \/ Log!GiveUp \/ LogStutter
<1>1. UNCHANGED <<accepted, queue, inHand, stream>>
  BY DEF Close, MarkClosed, CloseChannel, CloseDrained, CloseTimesOut, publishVars, workerVars
<1>2. UNCHANGED Acknowledged
  BY <1>1 DEF Acknowledged
<1>3. CASE MarkClosed \/ CloseChannel
  BY <1>1, <1>2, <1>3 DEF MarkClosed, CloseChannel, LogStutter, Result
<1>4. CASE CloseDrained
  <2>1. closer = "waiting" /\ closer' = "drained" /\ worker = "done"
    BY <1>4 DEF CloseDrained
  <2>2. queue = <<>> /\ inHand = 0
    BY <2>1 DEF CloseOK, HandOK
  <2>3. Acknowledged = Len(accepted)
    BY <2>2, LogFacts DEF Acknowledged
  <2> QED
    BY <1>1, <2>1, <2>3 DEF Log!Drain, Acknowledged, Result
<1>5. CASE CloseTimesOut
  BY <1>1, <1>5 DEF CloseTimesOut, Log!GiveUp, Acknowledged, Result
<1> QED
  BY <1>3, <1>4, <1>5 DEF Close

\* Publishers, channel, worker and Close implement the log of EventLog: what
\* was taken is delivered in order, again and again until it is acknowledged,
\* and a drained close has delivered all of it (Publish, run, append, Close).
THEOREM LogRefinement == Spec => LogSpec
<1>1. Init => Log!Init /\ CloseOK /\ HandOK
  <2> SUFFICES ASSUME Init PROVE Log!Init /\ CloseOK /\ HandOK
    OBVIOUS
  <2>1. /\ accepted = <<>> /\ queue = <<>> /\ inHand = 0 /\ stream = <<>> /\ closer = "open"
        /\ worker = "receive" /\ cancelled = FALSE
    BY DEF Init
  <2>2. Len(<<>>) = 0
    OBVIOUS
  <2> QED
    BY <2>1, <2>2 DEF Log!Init, CloseOK, HandOK, Acknowledged, Result
<1>2. Inv /\ CloseOK /\ HandOK /\ [Next]_vars => CloseOK' /\ HandOK'
  BY CloseStep, HandStep
<1>3. Inv /\ Numbered /\ CloseOK /\ HandOK /\ [Next]_vars => [Log!Next]_(Log!logVars)
  <2> SUFFICES ASSUME Inv, Numbered, CloseOK, HandOK, [Next]_vars
               PROVE  Log!Next \/ UNCHANGED Log!logVars
    OBVIOUS
  <2>1. CASE UNCHANGED vars
    <3>1. LogStutter
      BY <2>1 DEF vars, publishVars, workerVars, closeVars, LogStutter, Acknowledged, Result
    <3> QED
      BY <3>1, StutterOfLog
  <2>2. CASE Next
    BY <2>2, PublishRefines, WorkRefines, CloseRefines, StutterOfLog DEF Next, Log!Next
  <2> QED
    BY <2>1, <2>2
<1> QED
  BY <1>1, <1>2, <1>3, InvHolds, PTL DEF Spec, LogSpec, Log!Spec

=============================================================================
