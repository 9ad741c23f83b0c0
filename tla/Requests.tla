------------------------------ MODULE Requests ------------------------------
(***************************************************************************)
(* The control plane: a backend that owns one station and the HTTP         *)
(* handlers that serve its requests.  A handler looks the station up under *)
(* the manager's lock, changes it under the station's own, and reads the   *)
(* state it answers with later still; between these steps the station may  *)
(* be deleted and created anew, and the engine, which keeps nothing, may   *)
(* be restarted.  Requests and answers may be late; answers may be lost.   *)
(*                                                                         *)
(* The station's loop, a full map and a closed manager are Manager's       *)
(* matter, announcements and commands that of the modules of the station.  *)
(***************************************************************************)
EXTENDS Settings, FiniteSets

CONSTANTS
  None,
  Handler,       \* requests that may be under way at once
  SentSettings,  \* the settings the backend sends
  MaxRevision,   \* bound: queues the backend has for the station
  MaxTimeouts,   \* bound: how often the backend gives an answer up
  MaxDeletes,    \* bound: how often the station is deleted
  MaxRestarts    \* bound: how often the engine is restarted

\* A life of the station: it is created at first, after a delete, a restart.
Life == 1..1 + MaxDeletes + MaxRestarts

ASSUME RequestsAssumption ==
  /\ SentSettings \subseteq Config
  /\ MaxRevision \in Nat /\ MaxTimeouts \in Nat
  /\ MaxDeletes \in Nat /\ MaxRestarts \in Nat
  /\ None \notin Handler /\ None \notin Int

VARIABLES
  station,      \* the life in the manager's map, or None
  lives,        \* how many lives were created
  config,       \* config[l]: Station.config, or None
  revision,     \* revision[l]: Station.revision, and with it the queue
  at,           \* at[h]: "idle", "sent", "apply", "reply"
  request,      \* request[h]: the request h serves, or None
  target,       \* target[h]: the life h found, or None
  code,         \* code[h]: the status h will answer with
  latest,       \* history: the newest life and revision ever answered
  seenBefore,   \* history: seenBefore[h]: latest when h looked the station up
  want,         \* external: the revision of the backend's queue
  known,        \* external: the revision the backend believes, Absent or Unknown
  waiting,      \* external: the handler whose answer the backend awaits, or None
  timeouts, deletes, restarts   \* how often each has happened

engineVars  == <<station, lives, config, revision>>
handlerVars == <<at, request, target, code>>
historyVars == <<latest, seenBefore>>
backendVars == <<want, known, waiting>>
faultVars   == <<timeouts, deletes, restarts>>
vars        == <<engineVars, handlerVars, historyVars, backendVars, faultVars>>

Absent  == -1    \* it believes there is no station
Unknown == -2    \* it believes nothing

Nothing == [op |-> "none"]

\* Of two pairs of a life and a revision, a is at least as new as b.
NewerEq(a, b) == a[1] > b[1] \/ (a[1] = b[1] /\ a[2] >= b[2])

Init ==
  /\ station = None /\ lives = 0
  /\ config = [l \in Life |-> None] /\ revision = [l \in Life |-> 0]
  /\ at = [h \in Handler |-> "idle"] /\ request = [h \in Handler |-> Nothing]
  /\ target = [h \in Handler |-> None] /\ code = [h \in Handler |-> 0]
  /\ latest = <<0, 0>> /\ seenBefore = [h \in Handler |-> <<0, 0>>]
  /\ want = 1 /\ known = Unknown /\ waiting = None
  /\ timeouts = 0 /\ deletes = 0 /\ restarts = 0

-----------------------------------------------------------------------------
(* The backend: README, "Backend must create the stations again" and "applies
   configuration and queue again after a restart".  It learns of a restart by
   asking. *)

Send(h, req) ==
  /\ at[h] = "idle"
  /\ at' = [at EXCEPT ![h] = "sent"] /\ request' = [request EXCEPT ![h] = req]
  /\ UNCHANGED <<engineVars, target, code, historyVars, want, known, restarts, timeouts>>

\* It creates the station, brings its queue up to date, or looks after it.
Ask(h) ==
  /\ waiting = None /\ waiting' = h
  /\ \/ known = Absent /\ \E c \in SentSettings : Send(h, [op |-> "put", settings |-> c])
     \/ known \in 0..want - 1 /\ Send(h, [op |-> "queue", revision |-> want])
     \/ known \in {Unknown, want} /\ Send(h, [op |-> "get"])
  /\ UNCHANGED deletes

\* The station is deleted, on whose behalf the backend does not remember.
AskDelete(h) ==
  /\ deletes < MaxDeletes /\ deletes' = deletes + 1
  /\ Send(h, [op |-> "delete"]) /\ UNCHANGED waiting

\* The answer is late or lost: the request goes on by itself.
GiveUp ==
  /\ waiting # None /\ timeouts < MaxTimeouts
  /\ timeouts' = timeouts + 1 /\ waiting' = None /\ known' = Unknown
  /\ UNCHANGED <<engineVars, handlerVars, historyVars, want, deletes, restarts>>

NewQueue ==
  /\ want < MaxRevision /\ want' = want + 1
  /\ UNCHANGED <<engineVars, handlerVars, historyVars, known, waiting, faultVars>>

-----------------------------------------------------------------------------
(* The handlers *)

Goto(h, place, life, status) ==
  /\ at' = [at EXCEPT ![h] = place]
  /\ target' = [target EXCEPT ![h] = life]
  /\ code' = [code EXCEPT ![h] = status]
  /\ UNCHANGED <<request, latest, backendVars, faultVars>>

Arrives(h, op) ==
  /\ at[h] = "sent" /\ request[h].op = op
  /\ seenBefore' = [seenBefore EXCEPT ![h] = latest]

\* Mutant: the settings are normalised once.
StoredOnce(c) == Normalize(c)

\* stationConfig normalises the settings, and New or UpdateConfig once more.
Stored(c) == Normalize(Normalize(c))

\* UpsertStation of an unknown id creates the station under the lock.  There are
\* lives enough for all the deletes and restarts the bounds allow.
Create(h) ==
  /\ Arrives(h, "put") /\ station = None /\ lives + 1 \in Life
  /\ lives' = lives + 1 /\ station' = lives + 1
  /\ config' = [config EXCEPT ![lives + 1] = Stored(request[h].settings)]
  /\ Goto(h, "reply", lives + 1, 201) /\ UNCHANGED revision

\* The station is looked up under the manager's lock, which is released.
LookUp(h) ==
  /\ \E op \in {"put", "queue"} : Arrives(h, op)
  /\ station # None
  /\ Goto(h, "apply", station, 0) /\ UNCHANGED engineVars

LookUpToRead(h) ==
  /\ Arrives(h, "get") /\ station # None
  /\ Goto(h, "reply", station, 200) /\ UNCHANGED engineVars

\* Mutant: an unknown station is answered like a known one.
NotFoundIgnored(h) ==
  /\ \E op \in {"get", "queue", "delete"} : Arrives(h, op)
  /\ station = None
  /\ Goto(h, "reply", None, 409) /\ UNCHANGED engineVars

NotFound(h) ==
  /\ \E op \in {"get", "queue", "delete"} : Arrives(h, op)
  /\ station = None
  /\ Goto(h, "reply", None, 404) /\ UNCHANGED engineVars

\* DeleteStation takes the station from the map; the answer waits for its end.
Delete(h) ==
  /\ Arrives(h, "delete") /\ station # None
  /\ station' = None
  /\ Goto(h, "reply", station, 204) /\ UNCHANGED <<lives, config, revision>>

\* UpdateConfig
Update(h) ==
  /\ at[h] = "apply" /\ request[h].op = "put"
  /\ config' = [config EXCEPT ![target[h]] = Stored(request[h].settings)]
  /\ Goto(h, "reply", target[h], 200)
  /\ UNCHANGED <<station, lives, revision, seenBefore>>

\* Mutant: the last request wins, whatever its revision.
IsNewAlways(h) == TRUE

IsNew(h) == request[h].revision > revision[target[h]]

\* Station.ReplaceQueue
Replace(h) ==
  /\ at[h] = "apply" /\ request[h].op = "queue"
  /\ \/ /\ IsNew(h)
        /\ revision' = [revision EXCEPT ![target[h]] = request[h].revision]
        /\ Goto(h, "reply", target[h], 200)
     \/ /\ ~IsNew(h)
        /\ Goto(h, "reply", target[h], 409) /\ UNCHANGED revision
  /\ UNCHANGED <<station, lives, config, seenBefore>>

\* The answers that carry State(), which is read when they are written.
ReportsState(h) == at[h] = "reply" /\ code[h] \in {200, 201}

Reported(h) == <<target[h], revision[target[h]]>>

\* What the backend makes of an answer.
Belief(h) ==
  IF ReportsState(h) THEN revision[target[h]]
  ELSE IF code[h] = 404 THEN Absent ELSE Unknown

Reply(h) ==
  /\ at[h] = "reply"
  /\ at' = [at EXCEPT ![h] = "idle"] /\ request' = [request EXCEPT ![h] = Nothing]
  /\ target' = [target EXCEPT ![h] = None] /\ code' = [code EXCEPT ![h] = 0]
  /\ seenBefore' = [seenBefore EXCEPT ![h] = <<0, 0>>]
  /\ latest' = IF ReportsState(h) /\ NewerEq(Reported(h), latest) THEN Reported(h) ELSE latest
  /\ \/ waiting = h /\ waiting' = None /\ known' = Belief(h)
     \/ waiting # h /\ UNCHANGED <<waiting, known>>
  /\ UNCHANGED <<engineVars, want, faultVars>>

Serve(h) ==
  \/ Create(h) \/ LookUp(h) \/ LookUpToRead(h) \/ NotFound(h) \/ Delete(h)
  \/ Update(h) \/ Replace(h) \/ Reply(h)

\* The engine dies and starts without stations; requests that had reached it
\* die with it, those on their way arrive at the next one.
Restart ==
  /\ restarts < MaxRestarts /\ restarts' = restarts + 1
  /\ station' = None
  /\ LET dead == {h \in Handler : at[h] \in {"apply", "reply"}} IN
     /\ at' = [h \in Handler |-> IF h \in dead THEN "idle" ELSE at[h]]
     /\ request' = [h \in Handler |-> IF h \in dead THEN Nothing ELSE request[h]]
     /\ target' = [h \in Handler |-> None] /\ code' = [h \in Handler |-> 0]
     /\ seenBefore' = [h \in Handler |-> <<0, 0>>]
     /\ IF waiting \in dead
        THEN waiting' = None /\ known' = Unknown
        ELSE UNCHANGED <<waiting, known>>
  /\ UNCHANGED <<lives, config, revision, latest, want, timeouts, deletes>>

-----------------------------------------------------------------------------

Backend == (\E h \in Handler : Ask(h) \/ AskDelete(h)) \/ GiveUp \/ NewQueue

Next == Backend \/ (\E h \in Handler : Serve(h)) \/ Restart

Spec == Init /\ [][Next]_vars

\* Handlers finish and the backend goes on asking; nothing has to fail, to be
\* deleted or to change.
FairSpec ==
  /\ Spec
  /\ \A h \in Handler : WF_vars(Serve(h))
  /\ WF_vars(\E h \in Handler : Ask(h))

-----------------------------------------------------------------------------
(* Properties *)

Revisions == 0..MaxRevision

TypeOK ==
  /\ station \in Life \cup {None} /\ lives \in 0..1 + MaxDeletes + MaxRestarts
  /\ config \in [Life -> Config \cup {None}]
  /\ revision \in [Life -> Revisions]
  /\ at \in [Handler -> {"idle", "sent", "apply", "reply"}]
  /\ target \in [Handler -> Life \cup {None}]
  /\ want \in 1..MaxRevision /\ known \in Revisions \cup {Absent, Unknown}

\* What a station reports as its settings is what it would make of them: a
\* backend that sends the reported settings back changes nothing.  Normalize
\* alone does not give this, its second application does (stationConfig, New,
\* UpdateConfig).
SettingsStable ==
  \A l \in Life : config[l] # None => Stored(config[l]) = config[l]

\* Answers never go back: no request that reached the manager after an answer
\* reported a life and a revision is told of an older life, or of an older
\* queue of that life, though requests overlap a delete, a new create or a
\* restart, and the state is read without the lock of the look-up.
AnswersNeverGoBack ==
  \A h \in Handler : ReportsState(h) => NewerEq(Reported(h), seenBefore[h])

\* README: the backend restores its stations after a restart.  Through lost
\* answers, late requests, deletes and restarts, when these have come to an end
\* the station exists and keeps the backend's latest queue.
Converges == <>[](station # None /\ revision[station] = want)

=============================================================================
