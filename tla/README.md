# A TLA+ model of radio-engine

The engine keeps radio stations on the air. For each station one goroutine
decodes tracks, mixes announcements over them, feeds an FFmpeg encoder and
streams its MP3 to an Icecast mount; HTTP handlers create stations and change
what they play; events about them go to a Redis stream. The specifications in
this directory model the parts of the engine that hold state, from the backend's
requests down to the encoder's pipes. TLC checks them on small instances, and
TLAPS proves their safety properties for every value of the constants.

## Inventory

| Part | State it keeps | Operations | Meets the others through |
|---|---|---|---|
| `cmd/radio` main | the context both goroutines share, results to collect | signal, receive a result, cancel, exit | `Manager.Run`, `Server.Run` |
| `api.Server` | the listener, the requests under way | GET, POST, PUT, DELETE of stations and queues, graceful shutdown | the manager's lock, then the station's |
| `radio.Manager` | station map, `closed`, root context | UpsertStation, DeleteStation, ReplaceQueue, Station, Run/stopAll | starts and cancels station goroutines, reads their `done` |
| `station` run loop (`playback.go` 38-124) | connection, context, `wakeup` token | connect, start encoder, render, back off | `Source.Connect`, `Encoder`, context of the manager |
| `station` music (`station.go`, `playback.go`) | `mode`, `current`, `queue`, `revision`, command channel; render's `current`, `next`, `trackPreparing`, `crossfade*` | ReplaceQueue, Send, popQueue, the cases of render's `select` | mutex, channels, preparation goroutines, the media store |
| `station` announcements | `announcements`, `seenCommands`, `currentAnn`; render's `announcement` | AddAnnouncement, popAnnouncement, start, finish | the same goroutine and token |
| `station`, `playlist`, `audio` settings | configuration of a station | Normalize of output, transition and profile | create and update, the state a station reports |
| `events.Dispatcher` | queue channel, `closed`, worker | Publish, run, Close | called by every goroutine that emits |
| `media.MinIOStore` | cache directory, `inflight` | Resolve, download, evict | shared by the preparations of all stations |
| `audio.Encoder` | pipes, process, copying goroutine | Write, Close | render on one side, the Icecast connection on the other |
| `icecast.Source` | configuration | Connect, Update, MountURL | the dial and the wait for the answer in `RunLoop`, `Update` in `Manager` |
| `mp3stream` | pacer, reader of one source | Stream, StreamSilence, Reset | a library: no other package imports it yet |
| `config`, `observability`, `audio` DSP, test doubles | settings, gauges, samples | – | see "Not modelled" |

What is hard in this code, and what makes each part correct:

- **Playback.** Five sources of events meet in one `select` whose order is
  random; the queue is replaced while a track of the old one is prefetched or
  being prepared; stop and skip fall into a fade; a lost connection drops
  render's locals but not the station's fields. Correct: what is reported is what
  sounds, tracks start in order and once, a fade ends with its track, files are
  closed once, no wake-up is missed, the queue moves on.
- **Announcements.** Retried commandIds, one announcement at a time, loss with
  the connection. Correct: FIFO, at most once, uninterrupted, each comes to an end.
- **Manager.** Creates, updates, deletes and shutdown overlap outside the lock.
  Correct: no loop forgotten, no `done` awaited twice, deletes return unless a
  cancelled loop is held by its peer, one
  configuration in station and source.
- **Requests.** A handler holds no lock between the look-up, the change and the
  answer; requests and answers are late or lost; the engine forgets everything
  when it restarts. Correct: answers never go back, reported settings are stable,
  the backend's latest queue gets there in the end.
- **Process.** Handlers, loops, goroutines nobody waits for, stopAll, the closing
  dispatcher and the server's shutdown overlap. Correct: who may still meet the
  closed channel, the order of what the stream tells, an honest "complete".
- **Dispatcher.** Non-blocking publishers against one retrying worker against
  Close. Correct: at-least-once in queue order, an honest drained result.
- **Media store.** Shared downloads, cancellation of their leader, evictions from
  stale snapshots, a process killed before it evicts. Correct: one download per
  object, everybody answered, a directory bounded but for what is still to evict.
- **Encoder.** Two bounded pipes, three parties that block each other. Correct:
  whoever ends, the others end, but for a connection that takes nothing more.
- **MP3 streamer.** Resynchronisation in arbitrary bytes, a pacer that catches up
  and is interrupted. Correct: a clean track frame by frame, a bounded lead.

`PROJECT.json` lists every component and, under `hazards`, each of these at its
line with the properties that are about it.

## Modules

`RunLoop` holds the life cycle of a connection and is extended by both halves of
render. `Station` conjoins the halves' actions as one goroutine. `Process` extends
`Manager`, instantiates `Dispatcher` and lets the two meet. `Requests` extends
`Settings`. `AnnouncementFifo` and `EventLog` are abstract: what the announcements
and the dispatcher promise, and are shown to implement.

| Module | Models | Correspondence |
|---|---|---|
| `RunLoop` | `Run`, `runConnection`, `signal`, `sleep` | `phase` is the place of the goroutine: connect, answer (Icecast's, which Connect reads), start (encoder), promote and prefetch (top of render's loop), select, lost and closing (`Encoder.Close` after a failed and after a cancelled render), backoff, ended |
| `Playback` | the music half | a variable per field and per local of render; one action per case of the select, per handler, per outcome of a preparation |
| `Announcements` | the announcement half | the same, for announcements |
| `AnnouncementFifo` | – | what the announcement endpoint promises: accept once, take in order, end or be lost |
| `Station` | render as a whole | `LoopTop`, `Tick` and `Leave` join a step of each half; other cases belong to one |
| `Manager` | `UpsertStation`, `DeleteStation`, `Run`, `stopAll` | handlers step wherever they do not hold the mutex |
| `Dispatcher` | `emit`, `Publish`, `run`, `append`, `Close` | `at[p]` is a publisher's place; `worker` and `closer` are the two goroutines' |
| `EventLog` | – | what the dispatcher promises: events taken in order, each delivered once its predecessor was, repeated until then; a close is drained only when none is left |
| `Process` | `main`, `Server.Run`, who publishes what and when | a publisher is the handler of a request, the loop of a runner, or the goroutine popQueue starts; `api`, `pending`, `exit` are the server's and main's places |
| `Settings` | the `Normalize` methods of output, transition, profile and station configuration | pure operators, one per method |
| `Requests` | the station handlers, `stationConfig`, `ReplaceQueue`, `State`, and the backend that calls them | `at[h]` is where a request is: sent, about to change the station, about to answer |
| `MediaCache` | `Resolve`, `download`, `writeObject`, `evict` | `at[c]` is a caller's place; `files` is the directory in LRU order |
| `Encoder` | `StartEncoder`, `Write`, `Close` | render, FFmpeg, the copying goroutine and the connection |
| `Mp3Stream` | `Stream`, `StreamSilence`, `readFrame`, the pacer | `at` is the place of the session's goroutine, `now` the clock, `position` the next byte of the track; readFrame takes a step per turn of its loop |
| `*_proofs` | – | the theorems about the module of that name; `Process_proofs` has those about `Manager` too, `Requests_proofs` those about `Settings`, and `Output_proofs` is about `Encoder` and `Mp3Stream` |

`MC*` modules give constants values for TLC; where a cfg can give them all
(`Dispatcher`, `Manager`, `Encoder`, `Process`) the module is run as it is. An
operator whose comment starts with "Mutant" is a plausible bug; nothing uses it,
but each property is known to fail when the operator that follows is replaced by it.

Choices a reader should know:

- A track is named by (revision, position); what it plays is data. An
  announcement is its commandId, an event its sequence number, an object its cache
  key. Samples, titles, error texts and metrics are left out.
- Station and handlers share a mutex and hold it for one read or write at a time;
  an action is what happens between two points where another goroutine can be
  seen. render's cases between two `select`s are single actions but for the top of
  the loop, which is two (promotion; start of preparations), because a handler may
  come in between.
- The two buffered result channels of render hold at most one result, because
  at most one preparation of each kind runs; they are the variables `ready` and
  `annReady`.
- `Playback` takes `Encoder.Write` to return; `Encoder` is about when it does
  not. `RunLoop` has the two places where Run waits for its peer with nothing to
  interrupt it, the read of Icecast's answer in `Connect` and `Encoder.Close`, as
  phases; that either ends is assumed nowhere (`HeldByPeer`).
- `lastStarted` is a history: the track that started last and how many have
  started, so that a track that started twice in a row would show.
- In `Encoder` render may leave with FFmpeg alive and the station wanted
  (`RenderFails`: the decoded file cannot be read, or `Write` refuses the samples);
  Close then has to end a process that has only lost its input.
- `MediaCache` keeps the objects whose leaders a kill caught between the rename and
  the end of the eviction (`killed`), until an eviction has ended: that is how far
  a restarted cache may be over its limit with nobody evicting.
- A render that fails (a read error, a failed write) may do so at any tick,
  bounded by `MaxLosses`.
- `MediaCache` assumes a positive cache limit: with CACHE_MAX_BYTES at 0 or below
  the code never evicts.
- A waiter of a download learns its result when the leader closes the channel; one
  that joins after that, before the leader unregisters, has it at once.
- In `Settings` decibels and frequencies are whole numbers and each quantity has
  the unit that keeps its limits small: durations in tenths of a second, attack and
  release in hundredths, cuts in tens of hertz. `Normalize` only compares, so the
  unit does not matter; what would be rounded in it is not told apart.
- `Requests` keeps a station's life, configuration and revision. Its create and
  queue handlers do in one step what they do under one lock, and read the state
  they answer with in a later one.
- In `Process` the dispatcher's queue has room for every event, so the worker is one
  step; full queues and a Redis that fails are `Dispatcher`'s. One aside per
  runner stands for the goroutines popQueue starts.
- In `Mp3Stream` a byte is one of four, what `parseHeader` tells apart, and the
  tables of bitrates and rates are reduced to frames of two sizes. While readFrame
  looks for a frame nothing else of the session happens and its context is not
  looked at.

## Runs

Each cfg carries its constants; the bounds are the smallest at which every
action happens and the interesting overlaps exist.

| Run | Shows | Bounds, and why they are enough |
|---|---|---|
| `Playback` | `ReportedTrackSounds`, `OvertakenAtMostOnce`, `FadeEndsWithTrack`, `FilesAccounted`, `IdleUntilLoss`, `TrackWakeupPending`, `StartsInOrder` | 2 revisions of ≤ 2 tracks (3 offered), 1 pending command, 1 lost connection; blocks of 2 frames, tracks of 1, 4, 5 and transitions of 3 and 4 frames put a fade before, at and inside a block |
| `Announcements` | `PlayedAtMostOnce`, `OneAtATime`, `OneLostPerExit`, refinement of `AnnouncementFifo`, `AnnouncementsEnd`, `CancelEnds` | 3 commandIds through a FIFO of 2 (refusals happen), 2 losses; the peer may stop reacting at any point |
| `Station` | `NoHalfSleeps`, `StopDoesNotBlock`, `QueueMovesOn` | one revision of two tracks, one announcement, one loss: the stop, the loss and each failure may come at any point of either half |
| `Manager` | `NoOrphanLoop`, `OneReaderOfDone`, `ConfigsAgree`, `DeleteReturns` | 2 handlers, 2 ids, capacity 1, 2 lives: every pair of operations overlaps, a station is deleted and created again, and a capacity of 1 makes refusals reachable; any loop may be held by its peer for ever |
| `Process` | `OnlyUnawaitedPanics`, `LastWordHeard`, `QueueTellsLife`, `CompleteMeansStopped`, `ProcessEnds` | one handler with two requests and one runner: its loop, its aside and a create or delete publish at once while shutdown closes the dispatcher |
| `Requests` | `SettingsStable`, `AnswersNeverGoBack`, `Converges` | two requests under way, two queues, one lost answer, one delete, one restart: three lives; settings as the README sends them and beyond every limit |
| `Dispatcher` | refinement of `EventLog` (`LogSpec`), `DrainedMeansDelivered`, `AcceptedIsDelivered` | 2 publishers, a queue of 2, 4 events: one in the worker's hand, two queued, one refused; Redis keeps at most two copies of an event |
| `MediaCache` | `OneDownloadPerKey`, `BoundedByLeaders`, `CallersReturn` | 2 callers, objects of 1 and 2 bytes in a cache of 2: evictions overlap and undo each other; 2 attempts, two restarts: a second kill adds to what the first left |
| `Encoder` | `NothingLeftBehind`, `CancelEndsEncoder`, `DeathIsNoticed`, `CloseEnds` | pipes of 3 blocks: empty, in between, full |
| `Mp3Stream` | `AheadBounded`, `CleanTrackInOrder` | four sources (a clean one whose payload looks like headers, one with stray bytes and a tag, one cut off, one whose tag ends early), two tracks, a lead of 3 and frames of 2 ticks: the lead is used up, and exceeded by what is interrupted |

Deadlock is not checked: a station ends, a process shuts down, and the histories
are bounded. The runs of `Station` and `Requests` check liveness on graphs whose
environment is bounded: `Converges` says "when deletes, restarts and lost answers
have come to an end".

### Where code and documentation disagree

Two further runs each check one claim of the README and find a counterexample:

| Run | The claim | What the code does |
|---|---|---|
| `MediaCache_FailureMeansUnavailable` | a failure is published when media is unavailable | waiters inherit the cancellation of their download's leader |
| `Encoder_DropIsNoticed` | the mount stays served | after a drop nobody reads FFmpeg, and render blocks for good |

Other observations have no run of their own; those that a model shows are named:

- a send can meet the dispatcher's closed channel and panic. In a handler net/http
  recovers it; `OnlyUnawaitedPanics` says which other goroutines can do it;
- after a lost connection and an empty queue a silent station is reported as
  playing (`IdleUntilLoss` holds only until the first loss);
- the prefetched track is kept outside the queue, so six tracks, not five, may
  follow the current one;
- a full queue drops events, so delivery is at least once only for those it took;
- delete frees the id before its loop has ended, so that two loops of one id may
  run for a while (`Manager`, `Requests`);
- two overlapping updates can leave the station and its source with different
  configurations until the next one (`ConfigsAgree` excludes them);
- one application of `Normalize` is not idempotent for a limiter above 0 dB; what a
  station stores is, because it is normalised twice (`StoredIsStable`);
- a late create that arrives after a delete brings the station back: nothing in
  the request tells the two apart;
- station.created may follow other events of its station (`QueueTellsLife` states
  the orders that are kept);
- temporary files of a killed process are neither counted nor removed;
- stopAll waits for its stations one after the other, each with its own time limit;
  a delete may wait for its loop longer than the server's write timeout; a closed
  manager answers 400;
- `seenCommands` grows by one entry per announcement for as long as a station lives.

## Fairness

- Goroutines run: the run loop, the preparations, the dispatcher's worker, the
  handlers between two steps, the copying goroutine, callers of the media store
  (weak fairness on each). `Process` assumes less: as long as something that was
  begun can go on, some of it does; that is enough because each of it is finite.
- Go's `select` chooses among ready cases at random, so a case that is ready again
  and again is taken: strong fairness for the result, tick and cancellation cases of
  render, and for render noticing its cancellation in `Encoder`.
- Icecast accepts the source, and FFmpeg starts, sooner or later, if tried again
  and again (`AcceptedInTheEnd`: attempts that fail for ever are not all it does;
  strong fairness of `StartEncoder`); Redis acknowledges an event that is retried
  for ever (strong fairness of `AppendAcked`).
- Nothing is assumed of the peer where the code waits for it without a deadline and
  without its context: Icecast's answer to `Connect` and the end of `Encoder.Close`
  have no fairness in `RunLoop`, and the end of a loop has none in `Manager`.
  `CancelEnds`, `AnnouncementsEnd`, `StopDoesNotBlock`, `QueueMovesOn` and
  `DeleteReturns` name a wait of this kind that never ends as their exception
  (`HeldByPeer`, `Held`): a silent Icecast keeps a cancelled station, and its
  deletion, for ever, and nothing else does.
- In `Requests` a request that is under way is served (weak fairness), and the
  backend goes on asking until it knows what it wants to know, as the README
  demands of it.
- The copying goroutine of `Encoder` is strongly fair: a pipe it could move a block
  through, again and again, is not passed over for ever.
- Nothing is assumed of callers (no command, queue, cancellation or signal has to
  come), of media (every preparation and every download may fail), or of the
  network: the liveness of `Encoder` excepts a connection that is stalled for ever
  (`CancelEndsEncoder`, `DeathIsNoticed`), and that of a Close on a live FFmpeg one
  that never takes a byte again (`CloseEnds`).

## Proofs

The proofs hold for every value of the constants that satisfies the modules' named
assumptions: bounds and limits are natural numbers (positive where the code has
no meaning for 0), the marks for "none" and for failures differ from what they
stand beside, a decoded track has at least one frame (`Decode` refuses an empty
file), there is an object to ask the media store for.

Each proof module states an inductive invariant `Inv`, since types and the wanted
property alone are seldom inductive, shows that every action keeps it, and derives
the theorems.

| Module | Theorems | What the invariant adds, and why |
|---|---|---|
| `Playback_proofs` | `TypeCorrect`; all seven properties of the run | `SlotsOK`: a result belongs to the running preparation, which excludes a next track, and nothing of a render survives it; `FilesOwned`: each slot has its file, without which the count of files could go below 0. On top, `FadeInv` (nothing is consumed before a fade, and a fade stays within its track), `LineInv` (the order of what is still to start: the start counted last, prefetched, queue) and `ReportInv` |
| `Announcements_proofs` | `PlayedAtMostOnce`, `OneAtATime`, `OneLostPerExit`; refinement of `AnnouncementFifo`; `AnnouncementWakeupPending`, the safety half of `AnnouncementsEnd`: render does not sleep on an announcement it could prepare | `ResultFits`: a result is that of the announcement being prepared; `FilesCounted`. That at most one is forgotten per exit is a fact about the cardinality of `Forgotten`, a set that grows by one element only when a render ends |
| `Station_proofs` | `NoHalfSleeps` | `QueuesOK` (what waits is a track or a commandId, never the nil that means "nothing in preparation"), and `BothLookedAt`: the turn that ends in the select leaves nothing startable of either half. `HalvesImplemented` is a lemma only, since the station is composed that way; it lets the theorems of the halves be read as about the station |
| `Process_proofs`, `Manager` | `NoOrphanLoop`, `OneReaderOfDone`, `ConfigsAgree`; `WaitsEnd`, the safety half of `DeleteReturns`: who waits for a loop has cancelled it, and a loop nobody has launched is about to be | who owns a runner: the map is injective (`MapOK`), a handler that deletes has removed its runner (`RemovedOnce`), what stopAll awaits is no longer mapped (`AwaitedOK`), and each living loop has an owner (`LoopsOwned`). `ConfigsAgree` needs that whoever is between its two writes wrote the source last (`UpdaterOwnsSource`) |
| `Process_proofs`, `Process` | `ImplementsManager`; `OnlyUnawaitedPanics`, `LastWordHeard`, `QueueTellsLife`, `CompleteMeansStopped` | every step of the process is a step of the manager or a stutter, so that the manager's invariant holds in it. On top, `Numbers` (each event number is with one publisher, in the queue once, or lost, so the queue has room), `Voices` (only a loop tells of its start and stop, one at a time, and has said the last when it ends), `Closing` (before the dispatcher closes, what stopAll collected has ended or timed out), `Server` (what main knows when it has the results of both goroutines) |
| `Dispatcher_proofs` | refinement of `EventLog`; `StreamFollowsQueue`, which it implies; `DrainedMeansDelivered` | the queue is the end of what it accepted (`QueueIsRest`), the worker's hand is what comes before it and the stream's last event is that or the one before (`WorkerOK`); for Close: what was taken is in the stream or carried (`Delivered`), each number is somewhere (`Accounted`). The refinement needs besides that the hand is empty between two events and after a drained queue (`HandOK`) |
| `MediaCache_proofs` | `OneDownloadPerKey`, `NobodyForgotten`, `BoundedByLeaders` | a download is registered under its leader's object; whoever waits without an answer has a leader that has not closed its channel. The latter is a theorem too: the safety half of `CallersReturn`. `BoundedByLeaders` is not inductive: a leader leaves the bound when its eviction ends, with a total from a stale scan. `LimitKept` adds the leaders whose files came after each scan, and that they are still on their way; each total covers what is left of its list (`Snapshots`). A kill, after which nobody evicts, hands the leaders' objects to `killed`; while those count, every leader that evicts is one whose file came later |
| `Requests_proofs` | `StoredIsStable`, `SettingsStable`, `AnswersNeverGoBack` | lemmas about each `Normalize` for all integers; a handler's station is no newer than the newest life, and none that was seen is older (`Found`, `NewestLife`) |
| `Output_proofs`, `Mp3Stream` | `AheadBounded`; `CleanTrackInOrder`, `FramesApart` | `PacerInv`: what was written is what the pacer has counted, plus the frame in the making and the interrupted ones (`Accounted`), and the pacer is never ahead of the clock by more than the lead (`ClockKept`). `TrackInv`: `FramesApart` (what was sent are whole frames before the next byte to be read, one behind the other) and `OnBoundary` (in a clean track readFrame stands where a frame begins) |
| `Output_proofs`, `Encoder` | `NothingLeftBehind` | `EncoderInv`: the copying goroutine ends after the process, and Close closes the input before it waits |

### Only model-checked

Liveness (`AnnouncementsEnd`, `CancelEnds`, `StopDoesNotBlock`, `QueueMovesOn`,
`DeleteReturns`, `ProcessEnds`, `Converges`, `AcceptedIsDelivered`,
`CallersReturn`, `CancelEndsEncoder`, `DeathIsNoticed`, `CloseEnds`): the prover has no rule
for fairness. The safety half of four of them is proved: nobody waits for what is
not on its way (`TrackWakeupPending`, `AnnouncementWakeupPending`, `WaitsEnd`,
`NobodyForgotten`). Every other property of the passing runs is a theorem.

## Not modelled

- HTTP routing, authentication, JSON and request identifiers (`api`): they refuse a
  request before it changes anything. The handlers of announcements and commands
  add nothing to the actions of `Announcements` and `Playback`.
- Samples: transitions' gains, ducking, limiter (`audio`): floating point. The
  order of the blocks the mixer is fed is `Playback`'s.
- `mp3stream`'s tables of bitrates and sampling rates, beyond two frame sizes.
- Configuration: environment variables, read once before anything runs; the limits
  it yields are constants of the modules. Metrics: nothing reads them back.
  Deployment files have no behaviour; the cache volume of docker-compose is why
  `MediaCache` keeps its files over a restart, the restart policy why `Requests`
  restarts.
- Validation of tracks and ids, `lastError`, `startedAt`, and the announcement
  profile a tick copies.
- `MemoryPublisher` and `MemoryStore`: test doubles.

## Plan

Done, in this order: run loop and playback with their proofs; announcements and
their refinement; the composed station; dispatcher; media cache; manager; encoder;
the process composed of manager, dispatcher and server; settings and the requests
that carry them; the MP3 streamer; the proofs of all of them; the dispatcher as a
log of events.

What would come next: an abstract specification of the manager (a set of stations,
each alive or not) that the present one refines; the safety halves of the
liveness of `Encoder` and of `Requests`; the signal processing, if its gains were
fixed-point.
