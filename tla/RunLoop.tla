------------------------------ MODULE RunLoop ------------------------------
(***************************************************************************)
(* The connection life cycle of one station: Station.Run connects to       *)
(* Icecast, starts the encoder, runs render until it returns, and backs    *)
(* off before the next attempt, until its context is cancelled.            *)
(*                                                                         *)
(* render is one goroutine that alternates between the top of its loop     *)
(* (promote the prefetched track, start the preparations) and a select.    *)
(* The two halves of render, Playback and Announcements, extend this       *)
(* module and share its variables.                                         *)
(***************************************************************************)
EXTENDS Naturals

CONSTANT MaxLosses    \* bound: how many renders may fail while a run lasts

VARIABLES
  phase,       \* where the station goroutine is, see Phases
  cancelled,   \* the context given to Run is done
  wakeup,      \* the one-slot wakeup channel holds a token
  losses       \* history: renders that returned an error and were replaced

runVars == <<phase, cancelled, wakeup, losses>>

ASSUME MaxLossesIsNat == MaxLosses \in Nat

\* The head of Run's loop and the dial; Connect reads the answer; StartEncoder;
\* render; Encoder.Close after a render that failed, or saw the done context;
\* the sleep before the next attempt; Run has returned.
Phases == {"connect", "answer", "start", "promote", "prefetch", "select",
           "lost", "closing", "backoff", "ended"}

\* The phases in which a render is executing.
Rendering == phase \in {"promote", "prefetch", "select"}

\* The last render is over: Run returns, or is about to.
Final == phase \in {"closing", "ended"}

Count(b) == IF b THEN 1 ELSE 0

RunTypeOK ==
  /\ phase \in Phases
  /\ cancelled \in BOOLEAN
  /\ wakeup \in BOOLEAN
  /\ losses \in 0..MaxLosses

RunInit ==
  /\ phase = "connect"
  /\ cancelled = FALSE
  /\ wakeup = FALSE
  /\ losses = 0

-----------------------------------------------------------------------------

Goto(from, to) == phase = from /\ phase' = to

\* Mutant: the change is made, and nobody is woken.
NoSignal == wakeup' = wakeup

\* signal(): a non-blocking send, so a second token is dropped.
Signal == wakeup' = TRUE

\* A handler of the other half of the station signals.
SignalElsewhere ==
  /\ Signal
  /\ UNCHANGED <<phase, cancelled, losses>>

\* The manager cancels the station's context (delete, or shutdown).
Cancel ==
  /\ ~cancelled
  /\ cancelled' = TRUE
  /\ UNCHANGED <<phase, wakeup, losses>>

\* Connect dials, which it does not under a done context, and sends its request.
Dial ==
  /\ ~cancelled
  /\ Goto("connect", "answer")
  /\ UNCHANGED <<cancelled, wakeup, losses>>

\* Connect failed before that: sleep before the next attempt.
DialFails ==
  /\ Goto("connect", "backoff")
  /\ UNCHANGED <<cancelled, wakeup, losses>>

\* Icecast accepts the source; the read of its answer has no deadline and does
\* not look at the context.
Accepted ==
  /\ Goto("answer", "start")
  /\ UNCHANGED <<cancelled, wakeup, losses>>

\* Icecast refuses the source, or drops the connection.
Refused ==
  /\ Goto("answer", "backoff")
  /\ UNCHANGED <<cancelled, wakeup, losses>>

\* runConnection starts the encoder and enters render.
StartEncoder ==
  /\ ~cancelled
  /\ Goto("start", "promote")
  /\ UNCHANGED <<cancelled, wakeup, losses>>

\* StartEncoder failed: render never ran, the connection is closed.
EncoderFails ==
  /\ Goto("start", "backoff")
  /\ UNCHANGED <<cancelled, wakeup, losses>>

\* Encoder.Close returned, see Encoder, and the connection is closed: an error of
\* render leads to the next attempt, the done context to the end.
EncoderCloses ==
  /\ Goto("lost", "backoff") \/ Goto("closing", "ended")
  /\ UNCHANGED <<cancelled, wakeup, losses>>

\* sleep(ctx, Reconnect) ran to its end; a done context, which the head of the
\* loop looks at again, would have ended Run.
BackoffOver ==
  /\ ~cancelled
  /\ Goto("backoff", "connect")
  /\ UNCHANGED <<cancelled, wakeup, losses>>

\* Mutant: only the start of the encoder looks at the context.
RunEndsAtStart ==
  /\ cancelled
  /\ Goto("start", "ended")
  /\ UNCHANGED <<cancelled, wakeup, losses>>

\* A done context ends Run outside render: at the head of its loop, when the
\* encoder process is started under it, or in the back-off sleep.
RunEnds ==
  /\ cancelled
  /\ phase \in {"connect", "start", "backoff"}
  /\ phase' = "ended"
  /\ UNCHANGED <<cancelled, wakeup, losses>>

\* Everything Run does outside render: what it does by itself, and what waits
\* for the peer of the connection.
RunsOn ==
  \/ Dial \/ DialFails
  \/ StartEncoder \/ EncoderFails
  \/ BackoffOver \/ RunEnds

PeerReacts == Accepted \/ Refused \/ EncoderCloses

Reconnection == RunsOn \/ PeerReacts

-----------------------------------------------------------------------------

\* The select took <-s.wakeup: nothing but another turn of the loop.
Woken ==
  /\ wakeup
  /\ Goto("select", "promote")
  /\ wakeup' = FALSE
  /\ UNCHANGED <<cancelled, losses>>

\* A turn of the loop that is neither a wake-up nor the end of render.
Turn(from, to) ==
  /\ Goto(from, to)
  /\ UNCHANGED <<cancelled, wakeup, losses>>

\* The select took <-ctx.Done(): render returns the context's error.
RenderCancelled ==
  /\ cancelled
  /\ Goto("select", "closing")
  /\ UNCHANGED <<cancelled, wakeup, losses>>

\* The tick met a read error of the current track or a failed write to the
\* encoder: render returns the error.
RenderFails ==
  /\ losses < MaxLosses
  /\ Goto("select", "lost")
  /\ losses' = losses + 1
  /\ UNCHANGED <<cancelled, wakeup>>

-----------------------------------------------------------------------------

\* Icecast, if it reacts, does not refuse a source that is tried again and again.
AcceptedInTheEnd ==
  []<><<~cancelled /\ (DialFails \/ Refused)>>_runVars => []<><<Accepted>>_runVars

\* The goroutine waits for its peer for ever: for an answer that does not come,
\* or in Encoder.Close.  Nothing in Run interrupts that, the context neither.
HeldByPeer == [](phase \in {"answer", "lost", "closing"})

\* A cancelled station comes to its end from wherever it is - dialling, starting
\* the encoder, rendering, sleeping - and goes round no more; all that can keep
\* it is a peer that never reacts (Run's returns, Connect, Encoder.Close).
CancelEnds == cancelled ~> (phase = "ended" \/ HeldByPeer)

=============================================================================
