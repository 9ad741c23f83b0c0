------------------------------ MODULE Encoder ------------------------------
(***************************************************************************)
(* The encoder of one connection: render writes PCM blocks into FFmpeg's   *)
(* standard input, FFmpeg writes MP3 to its standard output, a goroutine   *)
(* copies that to the Icecast connection and then waits for the process.   *)
(* The two pipes hold a bounded number of blocks and block their writers.  *)
(***************************************************************************)
EXTENDS Naturals

CONSTANTS InCap, OutCap    \* what the two pipes hold, in blocks

ASSUME EncoderAssumption == InCap \in Nat \ {0} /\ OutCap \in Nat \ {0}

VARIABLES
  render,      \* render's side of the Encoder, see below
  stdin,       \* blocks in the pipe to FFmpeg
  stdinOpen,   \* render has not closed its end
  process,     \* external: the FFmpeg process
  stdout,      \* blocks in the pipe from FFmpeg
  copier,      \* the goroutine of StartEncoder
  conn,        \* external: the connection as the writes to it see it
  stationDone  \* the context of the station is done

encoderVars == <<render, stdin, stdinOpen, process, stdout, copier, conn, stationDone>>

EncoderTypeOK ==
  /\ render \in {"select", "write", "close", "await", "returned"}
  /\ stdin \in 0..InCap
  /\ stdinOpen \in BOOLEAN
  /\ process \in {"running", "exited"}
  /\ stdout \in 0..OutCap
  /\ copier \in {"read", "write", "wait", "done"}
  /\ conn \in {"up", "stalled", "down"}
  /\ stationDone \in BOOLEAN

EncoderInit ==
  /\ render = "select"
  /\ stdin = 0 /\ stdinOpen = TRUE
  /\ process = "running"
  /\ stdout = 0
  /\ copier = "read"
  /\ conn = "up"
  /\ stationDone = FALSE

-----------------------------------------------------------------------------
(* render and Encoder.Write, Encoder.Close *)

\* The tick: a block goes to Write.
TickWrites ==
  /\ render = "select"
  /\ render' = "write"
  /\ UNCHANGED <<stdin, stdinOpen, process, stdout, copier, conn, stationDone>>

\* Write returns when the pipe took the block; a full pipe blocks it.
WriteOk ==
  /\ render = "write"
  /\ process = "running" /\ stdin < InCap
  /\ stdin' = stdin + 1
  /\ render' = "select"
  /\ UNCHANGED <<stdinOpen, process, stdout, copier, conn, stationDone>>

\* Mutant: render ignores the error.
WriteIgnored ==
  /\ render = "write"
  /\ process = "exited"
  /\ render' = "select"
  /\ UNCHANGED <<stdin, stdinOpen, process, stdout, copier, conn, stationDone>>

\* Nobody reads the pipe any more: the write fails, and so does render.
WriteFails ==
  /\ render = "write"
  /\ process = "exited"
  /\ render' = "close"
  /\ UNCHANGED <<stdin, stdinOpen, process, stdout, copier, conn, stationDone>>

\* render's own failure, with FFmpeg alive: the decoded file cannot be read, or
\* Write refuses the samples.
RenderFails ==
  /\ render = "select"
  /\ render' = "close"
  /\ UNCHANGED <<stdin, stdinOpen, process, stdout, copier, conn, stationDone>>

\* render's select takes the done context.
SeesCancel ==
  /\ render = "select" /\ stationDone
  /\ render' = "close"
  /\ UNCHANGED <<stdin, stdinOpen, process, stdout, copier, conn, stationDone>>

\* Mutant: FFmpeg's input stays open.
StdinKept ==
  /\ render = "close"
  /\ render' = "await"
  /\ UNCHANGED <<stdin, stdinOpen, process, stdout, copier, conn, stationDone>>

\* Encoder.Close closes the input and waits for the copying goroutine ...
CloseStdin ==
  /\ render = "close"
  /\ stdinOpen' = FALSE
  /\ render' = "await"
  /\ UNCHANGED <<stdin, process, stdout, copier, conn, stationDone>>

\* Mutant: Close does not wait for the goroutine.
CloseAtOnce ==
  /\ render = "await"
  /\ render' = "returned"
  /\ UNCHANGED <<stdin, stdinOpen, process, stdout, copier, conn, stationDone>>

\* ... and only then does Run close the connection and try the next one.
CloseReturns ==
  /\ render = "await" /\ copier = "done"
  /\ render' = "returned"
  /\ UNCHANGED <<stdin, stdinOpen, process, stdout, copier, conn, stationDone>>

-----------------------------------------------------------------------------
(* FFmpeg *)

Encode ==
  /\ process = "running"
  /\ stdin > 0 /\ stdout < OutCap
  /\ stdin' = stdin - 1 /\ stdout' = stdout + 1
  /\ UNCHANGED <<render, stdinOpen, process, copier, conn, stationDone>>

\* The end of its input ends the process.
EndOfInput ==
  /\ process = "running"
  /\ stdin = 0 /\ ~stdinOpen
  /\ process' = "exited"
  /\ UNCHANGED <<render, stdin, stdinOpen, stdout, copier, conn, stationDone>>

\* Mutant: the process is killed only when Close has returned.
KilledAfterClose ==
  /\ process = "running" /\ render = "returned"
  /\ process' = "exited"
  /\ UNCHANGED <<render, stdin, stdinOpen, stdout, copier, conn, stationDone>>

\* exec.CommandContext kills the process when the context is done.
Killed ==
  /\ process = "running" /\ stationDone
  /\ process' = "exited"
  /\ UNCHANGED <<render, stdin, stdinOpen, stdout, copier, conn, stationDone>>

\* FFmpeg dies of its own.
Dies ==
  /\ process = "running"
  /\ process' = "exited"
  /\ UNCHANGED <<render, stdin, stdinOpen, stdout, copier, conn, stationDone>>

-----------------------------------------------------------------------------
(* The goroutine: io.Copy(conn, stdout), cmd.Wait, done. *)

CopyReads ==
  /\ copier = "read" /\ stdout > 0
  /\ stdout' = stdout - 1
  /\ copier' = "write"
  /\ UNCHANGED <<render, stdin, stdinOpen, process, conn, stationDone>>

CopyEnds ==
  /\ copier = "read" /\ stdout = 0 /\ process = "exited"
  /\ copier' = "wait"
  /\ UNCHANGED <<render, stdin, stdinOpen, process, stdout, conn, stationDone>>

CopyWrites ==
  /\ copier = "write" /\ conn = "up"
  /\ copier' = "read"
  /\ UNCHANGED <<render, stdin, stdinOpen, process, stdout, conn, stationDone>>

\* io.Copy returns the error: what FFmpeg still writes is not read any more.
CopyFails ==
  /\ copier = "write" /\ conn = "down"
  /\ copier' = "wait"
  /\ UNCHANGED <<render, stdin, stdinOpen, process, stdout, conn, stationDone>>

\* cmd.Wait returns once the process has exited.
WaitReturns ==
  /\ copier = "wait" /\ process = "exited"
  /\ copier' = "done"
  /\ UNCHANGED <<render, stdin, stdinOpen, process, stdout, conn, stationDone>>

-----------------------------------------------------------------------------
(* The environment *)

\* The peer stops reading, resumes, or drops the connection.
ConnStalls ==
  /\ conn = "up"
  /\ conn' = "stalled"
  /\ UNCHANGED <<render, stdin, stdinOpen, process, stdout, copier, stationDone>>

ConnResumes ==
  /\ conn = "stalled"
  /\ conn' = "up"
  /\ UNCHANGED <<render, stdin, stdinOpen, process, stdout, copier, stationDone>>

ConnDrops ==
  /\ conn # "down"
  /\ conn' = "down"
  /\ UNCHANGED <<render, stdin, stdinOpen, process, stdout, copier, stationDone>>

Cancel ==
  /\ ~stationDone
  /\ stationDone' = TRUE
  /\ UNCHANGED <<render, stdin, stdinOpen, process, stdout, copier, conn>>

-----------------------------------------------------------------------------

Render ==
  \/ TickWrites \/ WriteOk \/ WriteFails \/ RenderFails \/ SeesCancel
  \/ CloseStdin \/ CloseReturns

FFmpeg == Encode \/ EndOfInput \/ Killed

Copier == CopyReads \/ CopyEnds \/ CopyWrites \/ CopyFails \/ WaitReturns

Environment == Dies \/ ConnStalls \/ ConnResumes \/ ConnDrops \/ Cancel

EncoderNext == Render \/ FFmpeg \/ Copier \/ Environment

EncoderSpec == EncoderInit /\ [][EncoderNext]_encoderVars

\* The goroutines and the process run; nothing is assumed of the network, and
\* nobody has to cancel the station.
EncoderFairSpec ==
  /\ EncoderSpec
  /\ WF_encoderVars(Render) /\ SF_encoderVars(SeesCancel)
  /\ WF_encoderVars(FFmpeg) /\ WF_encoderVars(Killed)
  /\ SF_encoderVars(Copier)

-----------------------------------------------------------------------------
(* Properties *)

\* An Encoder whose Close returned has left nothing behind: the process is gone,
\* its goroutine too, and no later connection shares them.
NothingLeftBehind ==
  render = "returned" => process = "exited" /\ copier = "done" /\ ~stdinOpen

\* A cancelled station leaves its encoder, from wherever render is - also from a
\* Close it is in for a failure of its own - unless the peer stops reading for
\* ever: a blocked conn.Write is interrupted by nobody.
CancelEndsEncoder == stationDone ~> (render = "returned" \/ [](conn = "stalled"))

\* When FFmpeg dies render notices, at the next write at the latest, or is in
\* Close already, and Close returns.
DeathIsNoticed == process = "exited" ~> (render = "returned" \/ [](conn = "stalled"))

\* Close on a live FFmpeg, of a station nobody cancels, ends: the end of the
\* input ends the process, once what is in the pipes has gone to the peer.  It
\* may wait for ever only on a connection that never takes a byte again, stalled
\* or lost (Encoder.Close, StartEncoder).
CloseEnds == render = "await" ~> (render = "returned" \/ [](conn # "up"))

\* Claim of the README: the engine keeps sending, so that the mount does not
\* vanish.  Once the connection is lost, render returns and Run reconnects.
DropIsNoticed == conn = "down" ~> render = "returned"

=============================================================================
