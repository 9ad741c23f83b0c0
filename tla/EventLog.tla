------------------------------ MODULE EventLog ------------------------------
(***************************************************************************)
(* What the dispatcher promises those who emit and those who read the      *)
(* stream, without channel, worker or goroutines: the events it takes form *)
(* a log; the stream gets copies of the oldest one that is not delivered   *)
(* until Redis has acknowledged one; and a close is called drained only    *)
(* when all of the log was delivered.                                      *)
(***************************************************************************)
EXTENDS Naturals, Sequences

CONSTANT Event

VARIABLES
  log,         \* the events that were taken, in order
  delivered,   \* how many of them Redis has acknowledged
  stream,      \* the entries of the Redis stream
  result       \* how the close ended: "none" as long as it has not

logVars == <<log, delivered, stream, result>>

Init == log = <<>> /\ delivered = 0 /\ stream = <<>> /\ result = "none"

Take(e) ==
  /\ result = "none"
  /\ log' = Append(log, e)
  /\ UNCHANGED <<delivered, stream, result>>

\* An entry more for the oldest event: the acknowledged one, or one that Redis
\* applied though the dispatcher does not know it.
Entry == delivered < Len(log) /\ stream' = Append(stream, log[delivered + 1])

Deliver == Entry /\ delivered' = delivered + 1 /\ UNCHANGED <<log, result>>

Repeat == Entry /\ UNCHANGED <<log, delivered, result>>

Drain ==
  /\ result = "none" /\ delivered = Len(log)
  /\ result' = "drained"
  /\ UNCHANGED <<log, delivered, stream>>

\* The time for the close ran out; what is under way may still be delivered.
GiveUp ==
  /\ result = "none" /\ result' = "timedOut"
  /\ UNCHANGED <<log, delivered, stream>>

Next == (\E e \in Event : Take(e)) \/ Deliver \/ Repeat \/ Drain \/ GiveUp

Spec == Init /\ [][Next]_logVars

=============================================================================
