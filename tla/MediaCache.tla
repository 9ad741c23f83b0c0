----------------------------- MODULE MediaCache -----------------------------
(***************************************************************************)
(* MinIOStore: the disk cache the stations share.  Resolve answers from    *)
(* the disk, joins the download of the same object that is under way, or   *)
(* leads one itself; after a download the leader evicts the least recently *)
(* used files, from a snapshot of the directory it took unlocked.          *)
(*                                                                         *)
(* A caller is a preparation goroutine with its own context, used for one  *)
(* call at a time.  The directory is the sequence of its .media files,     *)
(* least recently used first; temporary files, which evict never looks at, *)
(* are left out.                                                           *)
(***************************************************************************)
EXTENDS Integers, Sequences, FiniteSets, SequencesExt

CONSTANTS
  None,
  Caller,      \* preparation goroutines
  Key,         \* objects, by cacheKey
  Size,        \* Size[k]: bytes of object k
  MaxBytes,    \* the limit of the cache
  Retries,     \* attempts per download
  MaxCrashes   \* bound: restarts of the process

\* The download succeeded; MinIO or the disk failed every attempt; or the
\* leader's context was done.
Outcomes == {"ok", "unavailable", "cancelled"}

ASSUME MediaCacheAssumption ==
  /\ Size \in [Key -> Nat \ {0}]
  /\ MaxBytes \in Nat \ {0}
  /\ Retries \in Nat \ {0}
  /\ MaxCrashes \in Nat
  /\ None \notin Caller \cup Outcomes
  /\ IsFiniteSet(Key) /\ Key # {}

VARIABLES
  files,       \* the .media files, least recently used first
  inflight,    \* inflight[k]: the caller that leads the download of k, or None
  at,          \* at[c]: where caller c is, see Places
  key,         \* key[c]: the object c asks for
  live,        \* live[c]: the context of c is not done
  attempt,     \* attempt[c]: the attempt c is at as a leader
  listed,      \* listed[c]: what evict still has to look at
  counted,     \* counted[c]: evict's running total
  result,      \* result[c]: what the download c leads or waits for came to
  crashes,     \* history: restarts
  killed       \* history: objects of leaders that were killed before their
               \* eviction ended, and no eviction has ended since

callVars == <<inflight, at, key, live, attempt, listed, counted, result>>
historyVars == <<crashes, killed>>
vars == <<files, callVars, historyVars>>

Places == {"idle", "lock", "wait", "fetch", "rename", "scan", "evict", "publish",
           "unregister", "decode", "failed"}

Leading(c) == at[c] \in {"fetch", "rename", "scan", "evict", "publish", "unregister"}

\* The leaders between the rename of their file and the end of their eviction.
Evicting == {c \in Caller : at[c] \in {"scan", "evict"}}

Objects(callers) == {key[c] : c \in callers}

OnDisk(k) == \E i \in 1..Len(files) : files[i] = k

Files == Range(files)

\* How many bytes objects have: a byte is an object and an offset.
Bytes(objects) == Cardinality(UNION {{k} \X (1..Size[k]) : k \in objects})

TypeOK ==
  /\ files \in Seq(Key) /\ IsInjective(files)
  /\ inflight \in [Key -> Caller \cup {None}]
  /\ at \in [Caller -> Places]
  /\ key \in [Caller -> Key]
  /\ live \in [Caller -> BOOLEAN]
  /\ attempt \in [Caller -> 0..Retries]
  /\ listed \in [Caller -> Seq(Key)]
  /\ counted \in [Caller -> Int]
  /\ result \in [Caller -> Outcomes \cup {None}]
  /\ crashes \in 0..MaxCrashes
  /\ killed \subseteq Key

Init ==
  /\ files = <<>>
  /\ key = [c \in Caller |-> CHOOSE k \in Key : TRUE]
  /\ inflight = [k \in Key |-> None]
  /\ at = [c \in Caller |-> "idle"]
  /\ live = [c \in Caller |-> TRUE]
  /\ attempt = [c \in Caller |-> 0]
  /\ listed = [c \in Caller |-> <<>>]
  /\ counted = [c \in Caller |-> 0]
  /\ result = [c \in Caller |-> None]
  /\ crashes = 0 /\ killed = {}

-----------------------------------------------------------------------------

Goto(c, to) == at' = [at EXCEPT ![c] = to]

\* The directory without k, and with k as its most recently used file.
Without(k) ==
  IF OnDisk(k) THEN RemoveAt(files, CHOOSE i \in 1..Len(files) : files[i] = k) ELSE files

Touched(k) == Append(Without(k), k)

\* Resolve: a file on disk is touched and answered without the lock.
Stat(c, k) ==
  /\ at[c] = "idle"
  /\ key' = [key EXCEPT ![c] = k]
  /\ live' = [live EXCEPT ![c] = TRUE]
  /\ \/ /\ OnDisk(k)
        /\ files' = Touched(k)
        /\ Goto(c, "decode")
     \/ /\ ~OnDisk(k)
        /\ Goto(c, "lock")
        /\ UNCHANGED files
  /\ UNCHANGED <<inflight, attempt, listed, counted, result, historyVars>>

\* Mutant: somebody else's download is not noticed.
UnderWayByItself(c) == inflight[key[c]] = c

UnderWay(c) == inflight[key[c]] # None

\* Under the lock: join the download under way - its channel may be closed
\* already, with the result in place - or register a new one.
Join(c) ==
  /\ at[c] = "lock" /\ UnderWay(c)
  /\ Goto(c, "wait")
  /\ LET leader == inflight[key[c]] IN
       result' = [result EXCEPT ![c] = IF at[leader] = "unregister" THEN result[leader] ELSE None]
  /\ UNCHANGED <<files, inflight, key, live, attempt, listed, counted, historyVars>>

Lead(c) ==
  /\ at[c] = "lock" /\ ~UnderWay(c)
  /\ inflight' = [inflight EXCEPT ![key[c]] = c]
  /\ attempt' = [attempt EXCEPT ![c] = 1]
  /\ result' = [result EXCEPT ![c] = None]
  /\ Goto(c, "fetch")
  /\ UNCHANGED <<files, key, live, listed, counted, historyVars>>

\* The wait is over: the download's result, or this caller's own context.
Answered(c) ==
  /\ at[c] = "wait" /\ result[c] # None
  /\ Goto(c, IF result[c] = "ok" THEN "decode" ELSE "failed")
  /\ UNCHANGED <<files, inflight, key, live, attempt, listed, counted, result, historyVars>>

WaitCancelled(c) ==
  /\ at[c] = "wait" /\ ~live[c]
  /\ Goto(c, "failed")
  /\ UNCHANGED <<files, inflight, key, live, attempt, listed, counted, result, historyVars>>

-----------------------------------------------------------------------------
(* The leader: download, writeObject and evict. *)

\* The object was copied to a temporary file; the context was live till then.
FetchOk(c) ==
  /\ at[c] = "fetch" /\ live[c]
  /\ Goto(c, "rename")
  /\ UNCHANGED <<files, inflight, key, live, attempt, listed, counted, result, historyVars>>

\* An attempt failed or timed out: the next one, or the end.
FetchFails(c) ==
  /\ at[c] = "fetch" /\ live[c]
  /\ IF attempt[c] < Retries
     THEN /\ attempt' = [attempt EXCEPT ![c] = @ + 1]
          /\ UNCHANGED <<at, result>>
     ELSE /\ result' = [result EXCEPT ![c] = "unavailable"]
          /\ Goto(c, "publish")
          /\ UNCHANGED attempt
  /\ UNCHANGED <<files, inflight, key, live, listed, counted, historyVars>>

\* The leader's context ended the attempt or the sleep after it.
FetchCancelled(c) ==
  /\ at[c] = "fetch" /\ ~live[c]
  /\ result' = [result EXCEPT ![c] = "cancelled"]
  /\ Goto(c, "publish")
  /\ UNCHANGED <<files, inflight, key, live, attempt, listed, counted, historyVars>>

\* The rename puts the file in place, or replaces the one that is there.
Rename(c) ==
  /\ at[c] = "rename"
  /\ files' = Touched(key[c])
  /\ Goto(c, "scan")
  /\ UNCHANGED <<inflight, key, live, attempt, listed, counted, result, historyVars>>

\* Mutant: only the new file is counted.
ScanOwn(c) ==
  /\ at[c] = "scan"
  /\ listed' = [listed EXCEPT ![c] = files]
  /\ counted' = [counted EXCEPT ![c] = Size[key[c]]]
  /\ Goto(c, "evict")
  /\ UNCHANGED <<files, inflight, key, live, attempt, result, historyVars>>

\* evict reads the directory, sizes and times, without a lock.
Scan(c) ==
  /\ at[c] = "scan"
  /\ listed' = [listed EXCEPT ![c] = files]
  /\ counted' = [counted EXCEPT ![c] = Bytes(Files)]
  /\ Goto(c, "evict")
  /\ UNCHANGED <<files, inflight, key, live, attempt, result, historyVars>>

OverLimit(c) == counted[c] > MaxBytes /\ listed[c] # <<>>

\* One file after the other; a file that is gone does not lower the total.
EvictOne(c) ==
  /\ at[c] = "evict" /\ OverLimit(c)
  /\ LET victim == Head(listed[c]) IN
       IF OnDisk(victim)
       THEN /\ files' = Without(victim)
            /\ counted' = [counted EXCEPT ![c] = @ - Size[victim]]
       ELSE UNCHANGED <<files, counted>>
  /\ listed' = [listed EXCEPT ![c] = Tail(@)]
  /\ UNCHANGED <<inflight, at, key, live, attempt, result, historyVars>>

EvictEnds(c) ==
  /\ at[c] = "evict" /\ ~OverLimit(c)
  /\ listed' = [listed EXCEPT ![c] = <<>>]
  /\ counted' = [counted EXCEPT ![c] = 0]
  /\ result' = [result EXCEPT ![c] = "ok"]
  /\ Goto(c, "publish")
  /\ killed' = {}
  /\ UNCHANGED <<files, inflight, key, live, attempt, crashes>>

\* Mutant: the channel is not closed.
NotClosed(c) ==
  /\ at[c] = "publish"
  /\ Goto(c, "unregister")
  /\ UNCHANGED <<files, inflight, key, live, attempt, listed, counted, result, historyVars>>

\* close(active.done): every waiter of this download has its result.
CloseDone(c) ==
  /\ at[c] = "publish"
  /\ result' = [w \in Caller |->
       IF at[w] = "wait" /\ key[w] = key[c] /\ result[w] = None THEN result[c] ELSE result[w]]
  /\ Goto(c, "unregister")
  /\ UNCHANGED <<files, inflight, key, live, attempt, listed, counted, historyVars>>

Unregister(c) ==
  /\ at[c] = "unregister"
  /\ inflight' = [inflight EXCEPT ![key[c]] = None]
  /\ Goto(c, IF result[c] = "ok" THEN "decode" ELSE "failed")
  /\ UNCHANGED <<files, key, live, attempt, listed, counted, result, historyVars>>

-----------------------------------------------------------------------------

\* The call is over: FFmpeg opened the file, or did not find it, or the caller
\* reported the failure.
Done(c) ==
  /\ at[c] \in {"decode", "failed"}
  /\ Goto(c, "idle")
  /\ attempt' = [attempt EXCEPT ![c] = 0]
  /\ result' = [result EXCEPT ![c] = None]
  /\ UNCHANGED <<files, inflight, key, live, listed, counted, historyVars>>

\* The caller's station is deleted, or the engine shuts down.
CancelCaller(c) ==
  /\ at[c] # "idle" /\ live[c]
  /\ live' = [live EXCEPT ![c] = FALSE]
  /\ UNCHANGED <<files, inflight, at, key, attempt, listed, counted, result, historyVars>>

\* The process is killed and started again on the same volume: the files stay,
\* with the eviction under way unfinished.
Crash ==
  /\ crashes < MaxCrashes
  /\ crashes' = crashes + 1
  /\ killed' = killed \cup Objects(Evicting)
  /\ inflight' = [k \in Key |-> None]
  /\ at' = [c \in Caller |-> "idle"]
  /\ live' = [c \in Caller |-> TRUE]
  /\ attempt' = [c \in Caller |-> 0]
  /\ listed' = [c \in Caller |-> <<>>]
  /\ counted' = [c \in Caller |-> 0]
  /\ result' = [c \in Caller |-> None]
  /\ UNCHANGED <<files, key>>

Resolve(c) ==
  \/ \E k \in Key : Stat(c, k)
  \/ Join(c) \/ Lead(c) \/ Answered(c) \/ WaitCancelled(c)

Download(c) ==
  \/ FetchOk(c) \/ FetchFails(c) \/ FetchCancelled(c)
  \/ Rename(c) \/ Scan(c) \/ EvictOne(c) \/ EvictEnds(c)
  \/ CloseDone(c) \/ Unregister(c)

Next ==
  \/ \E c \in Caller : Resolve(c) \/ Download(c) \/ Done(c) \/ CancelCaller(c)
  \/ Crash

Spec == Init /\ [][Next]_vars

\* Each goroutine runs on once it has called Resolve.
FairSpec ==
  /\ Spec
  /\ \A c \in Caller :
       /\ WF_vars(Join(c) \/ Lead(c) \/ Answered(c))
       /\ WF_vars(Download(c)) /\ WF_vars(Done(c))

-----------------------------------------------------------------------------
(* Properties *)

\* An object is downloaded by one caller at a time, the registered one, however
\* calls, cancellations and evictions interleave (inflight, Unregister).
OneDownloadPerKey ==
  \A c \in Caller : Leading(c) <=> inflight[key[c]] = c

\* The cache is within its limit, but for the files of the leaders that are
\* between the rename of their file and the end of their eviction, although
\* snapshots are stale, files are evicted twice, and evicted ones are downloaded
\* again meanwhile.  A kill adds the files of the leaders it caught there, until
\* an eviction ends (writeObject, evict).
BoundedByLeaders == Bytes(Files \ (Objects(Evicting) \cup killed)) <= MaxBytes

\* Whoever waits for a download is told its result: closing the channel misses
\* nobody, and a leader always closes it, unless the process dies.
CallersReturn ==
  \A c \in Caller : (at[c] \in {"lock", "wait", "fetch"}) ~> at[c] \in {"decode", "failed", "idle"}

\* Claim of the README: a failure is published when media is unavailable.  A
\* caller whose own context is live fails only because every attempt failed.
FailureMeansUnavailable ==
  \A c \in Caller : at[c] = "failed" /\ live[c] => result[c] = "unavailable"

=============================================================================
