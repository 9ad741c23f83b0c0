-------------------------- MODULE MediaCache_proofs --------------------------
(***************************************************************************)
(* Proofs about MediaCache, for every set of callers and objects, every    *)
(* size of them and of the cache, and every number of retries.             *)
(***************************************************************************)
EXTENDS MediaCache, FiniteSetTheorems, SequenceTheorems, TLAPS

(* Where callers are, which object they ask for, and who leads.             *)
Calls ==
  /\ inflight \in [Key -> Caller \cup {None}]
  /\ at \in [Caller -> Places]
  /\ key \in [Caller -> Key]
  /\ result \in [Caller -> Outcomes \cup {None}]

(* A download is registered under the object its leader asks for.           *)
RegisteredByKey == \A k \in Key : inflight[k] # None => key[inflight[k]] = k

(* A caller that waits without a result has a leader that is going to close *)
(* its channel; a leader that has closed it has a result.                   *)
BeforeClose == {"fetch", "rename", "scan", "evict", "publish"}

Ahead(c) == at[c] \in BeforeClose

NobodyForgotten ==
  \A c \in Caller :
    /\ at[c] = "wait" /\ result[c] = None =>
         inflight[key[c]] \in Caller /\ Ahead(inflight[key[c]])
    /\ at[c] \in {"publish", "unregister"} => result[c] # None

Inv == Calls /\ RegisteredByKey /\ OneDownloadPerKey /\ NobodyForgotten

LEMMA InitInv == Init => Inv
<1> SUFFICES ASSUME Init PROVE Inv
  OBVIOUS
<1> USE DEF Init
<1>1. Calls
  BY MediaCacheAssumption DEF Calls, Places
<1>2. RegisteredByKey /\ NobodyForgotten
  BY DEF RegisteredByKey, NobodyForgotten
<1>3. OneDownloadPerKey
  BY MediaCacheAssumption DEF OneDownloadPerKey, Leading
<1> QED
  BY <1>1, <1>2, <1>3 DEF Inv

\* A caller that does not lead moves between places of a caller that does not
\* lead, with another object perhaps.
LEMMA FollowerStep ==
  ASSUME Inv, NEW c \in Caller, ~Leading(c), NEW place \in {"idle", "lock", "wait", "decode", "failed"},
         NEW k \in Key, NEW r \in Outcomes \cup {None},
         Goto(c, place), key' = [key EXCEPT ![c] = k], result' = [result EXCEPT ![c] = r],
         inflight' = inflight,
         place = "wait" /\ r = None => inflight[k] \in Caller /\ Ahead(inflight[k])
  PROVE  Inv'
<1>1. /\ at'[c] = place /\ key'[c] = k /\ result'[c] = r
      /\ \A d \in Caller \ {c} : at'[d] = at[d] /\ key'[d] = key[d] /\ result'[d] = result[d]
  BY DEF Inv, Calls, Goto
<1>2. Calls'
  BY DEF Inv, Calls, Goto, Places
<1>3. \A l \in Key : inflight[l] # c
  BY MediaCacheAssumption DEF Inv, Calls, RegisteredByKey, OneDownloadPerKey
<1>4. RegisteredByKey'
  BY <1>1, <1>3 DEF Inv, Calls, RegisteredByKey
<1>5. OneDownloadPerKey'
  BY <1>1, <1>3 DEF Inv, Calls, OneDownloadPerKey, Leading
<1>6. NobodyForgotten'
  <2> SUFFICES ASSUME NEW d \in Caller
               PROVE  /\ at'[d] = "wait" /\ result'[d] = None =>
                           inflight[key'[d]] \in Caller /\ at'[inflight[key'[d]]] \in BeforeClose
                      /\ at'[d] \in {"publish", "unregister"} => result'[d] # None
    BY DEF NobodyForgotten, Ahead
  <2>1. \A l \in Key : inflight[l] \in Caller /\ Ahead(inflight[l]) => at'[inflight[l]] \in BeforeClose
    BY <1>1, <1>3 DEF Ahead
  <2>2. CASE d = c
    BY <1>1, <2>1, <2>2
  <2>3. CASE d # c
    <3>1. at'[d] = at[d] /\ key'[d] = key[d] /\ result'[d] = result[d] /\ key[d] \in Key
      BY <1>1, <2>3 DEF Inv, Calls
    <3> QED
      BY <2>1, <3>1 DEF Inv, NobodyForgotten
  <2> QED
    BY <2>2, <2>3
<1> QED
  BY <1>2, <1>4, <1>5, <1>6 DEF Inv

\* A caller registers the download it leads.
LEMMA LeadStep ==
  ASSUME Inv, NEW c \in Caller, Lead(c)
  PROVE  Inv'
<1>1. /\ at[c] = "lock" /\ inflight[key[c]] = None
      /\ inflight' = [inflight EXCEPT ![key[c]] = c]
      /\ result' = [result EXCEPT ![c] = None]
      /\ at' = [at EXCEPT ![c] = "fetch"] /\ key' = key
  BY DEF Lead, UnderWay, Goto
<1>2. /\ at'[c] = "fetch" /\ result'[c] = None /\ inflight'[key[c]] = c
      /\ \A d \in Caller \ {c} : at'[d] = at[d] /\ result'[d] = result[d]
      /\ \A k \in Key \ {key[c]} : inflight'[k] = inflight[k]
  BY <1>1 DEF Inv, Calls
<1>3. Calls'
  BY <1>1 DEF Inv, Calls, Places
<1>4. \A k \in Key : inflight[k] # c
  BY <1>1, MediaCacheAssumption DEF Inv, Calls, RegisteredByKey, OneDownloadPerKey, Leading
<1>5. RegisteredByKey'
  BY <1>1, <1>2 DEF Inv, Calls, RegisteredByKey
<1>6. OneDownloadPerKey'
  BY <1>1, <1>2, <1>4, MediaCacheAssumption DEF Inv, Calls, OneDownloadPerKey, Leading
<1>7. NobodyForgotten'
  BY <1>1, <1>2, <1>4, MediaCacheAssumption DEF Inv, Calls, NobodyForgotten, Ahead, BeforeClose
<1> QED
  BY <1>3, <1>5, <1>6, <1>7 DEF Inv

\* A leader goes on leading, up to the result it is going to tell.
LEMMA LeaderStep ==
  ASSUME Inv, NEW c \in Caller, Ahead(c), at[c] # "publish",
         NEW place \in BeforeClose, NEW r \in Outcomes \cup {None},
         Goto(c, place), result' = [result EXCEPT ![c] = r], UNCHANGED <<inflight, key>>,
         place = "publish" => r # None
  PROVE  Inv'
<1>1. /\ at'[c] = place /\ result'[c] = r
      /\ \A d \in Caller \ {c} : at'[d] = at[d] /\ result'[d] = result[d]
  BY DEF Inv, Calls, Goto
<1>2. Calls'
  BY DEF Inv, Calls, Goto, Places, BeforeClose
<1>3. RegisteredByKey' /\ OneDownloadPerKey'
  BY <1>1 DEF Inv, RegisteredByKey, OneDownloadPerKey, Leading, Ahead, BeforeClose
<1>4. NobodyForgotten'
  BY <1>1 DEF Inv, NobodyForgotten, Ahead, BeforeClose
<1> QED
  BY <1>2, <1>3, <1>4 DEF Inv

\* The channel is closed: every waiter of this download has its result.
LEMMA CloseStep ==
  ASSUME Inv, NEW c \in Caller, CloseDone(c)
  PROVE  Inv'
<1>1. /\ at[c] = "publish" /\ at' = [at EXCEPT ![c] = "unregister"]
      /\ UNCHANGED <<inflight, key>>
      /\ \A w \in Caller : result'[w] =
           IF at[w] = "wait" /\ key[w] = key[c] /\ result[w] = None THEN result[c] ELSE result[w]
  BY DEF CloseDone, Goto
<1>2. result' \in [Caller -> Outcomes \cup {None}]
  BY DEF CloseDone, Inv, Calls
<1>3. /\ at'[c] = "unregister" /\ \A d \in Caller \ {c} : at'[d] = at[d]
      /\ result[c] # None /\ result'[c] = result[c]
  BY <1>1 DEF Inv, Calls, NobodyForgotten
<1>4. Calls'
  BY <1>1, <1>2 DEF Inv, Calls, Places
<1>5. RegisteredByKey' /\ OneDownloadPerKey'
  BY <1>1, <1>3 DEF Inv, RegisteredByKey, OneDownloadPerKey, Leading
<1>6. NobodyForgotten'
  <2> SUFFICES ASSUME NEW d \in Caller
               PROVE  /\ at'[d] = "wait" /\ result'[d] = None =>
                           inflight[key[d]] \in Caller /\ at'[inflight[key[d]]] \in BeforeClose
                      /\ at'[d] \in {"publish", "unregister"} => result'[d] # None
    BY <1>1 DEF NobodyForgotten, Ahead
  <2>1. ASSUME at'[d] = "wait", result'[d] = None
        PROVE  inflight[key[d]] \in Caller /\ at'[inflight[key[d]]] \in BeforeClose
    <3>1. at[d] = "wait" /\ result[d] = None /\ key[d] # key[c]
      BY <1>1, <1>3, <2>1
    <3>2. inflight[key[d]] \in Caller /\ Ahead(inflight[key[d]]) /\ key[inflight[key[d]]] = key[d]
      BY <3>1, MediaCacheAssumption DEF Inv, Calls, NobodyForgotten, RegisteredByKey
    <3>3. inflight[key[d]] # c
      BY <3>1, <3>2
    <3> QED
      BY <1>3, <3>2, <3>3 DEF Ahead
  <2>2. at'[d] \in {"publish", "unregister"} => result'[d] # None
    BY <1>1, <1>3 DEF Inv, NobodyForgotten
  <2> QED
    BY <2>1, <2>2
<1> QED
  BY <1>4, <1>5, <1>6 DEF Inv

\* The download is taken from the table, and nobody waits for it any more.
LEMMA UnregisterStep ==
  ASSUME Inv, NEW c \in Caller, Unregister(c)
  PROVE  Inv'
<1>1. /\ at[c] = "unregister" /\ inflight' = [inflight EXCEPT ![key[c]] = None]
      /\ UNCHANGED <<key, result>>
      /\ at' = [at EXCEPT ![c] = IF result[c] = "ok" THEN "decode" ELSE "failed"]
  BY DEF Unregister, Goto
<1>2. /\ at'[c] \in {"decode", "failed"} /\ \A d \in Caller \ {c} : at'[d] = at[d]
      /\ inflight'[key[c]] = None /\ \A k \in Key \ {key[c]} : inflight'[k] = inflight[k]
      /\ key[c] \in Key /\ inflight[key[c]] = c
  BY <1>1 DEF Inv, Calls, OneDownloadPerKey, Leading
<1>3. Calls'
  BY <1>1 DEF Inv, Calls, Places
<1>4. RegisteredByKey'
  BY <1>1, <1>2 DEF Inv, RegisteredByKey
<1>5. OneDownloadPerKey'
  BY <1>1, <1>2, MediaCacheAssumption DEF Inv, Calls, OneDownloadPerKey, Leading
<1>6. NobodyForgotten'
  <2> SUFFICES ASSUME NEW d \in Caller
               PROVE  /\ at'[d] = "wait" /\ result[d] = None =>
                           inflight'[key[d]] \in Caller /\ at'[inflight'[key[d]]] \in BeforeClose
                      /\ at'[d] \in {"publish", "unregister"} => result[d] # None
    BY <1>1 DEF NobodyForgotten, Ahead
  <2>1. ASSUME at'[d] = "wait", result[d] = None
        PROVE  inflight'[key[d]] \in Caller /\ at'[inflight'[key[d]]] \in BeforeClose
    <3>1. d # c /\ at[d] = "wait"
      BY <1>2, <2>1
    <3>2. inflight[key[d]] \in Caller /\ Ahead(inflight[key[d]]) /\ key[d] \in Key
      BY <2>1, <3>1 DEF Inv, Calls, NobodyForgotten
    <3>3. inflight[key[d]] # c
      BY <1>1, <3>2 DEF Ahead, BeforeClose
    <3>4. inflight'[key[d]] = inflight[key[d]]
      BY <1>2, <3>2, <3>3
    <3> QED
      BY <1>2, <3>2, <3>3, <3>4 DEF Ahead
  <2>2. at'[d] \in {"publish", "unregister"} => result[d] # None
    BY <1>2 DEF Inv, NobodyForgotten
  <2> QED
    BY <2>1, <2>2
<1> QED
  BY <1>3, <1>4, <1>5, <1>6 DEF Inv

\* A caller asks, waits, and takes an answer, without leading.
LEMMA ResolveStep ==
  ASSUME Inv, NEW c \in Caller, Resolve(c)
  PROVE  Inv'
<1> USE DEF Inv, Calls
<1>1. ASSUME NEW k \in Key, Stat(c, k) PROVE Inv'
  <2>1. Goto(c, "decode") \/ Goto(c, "lock")
    BY <1>1 DEF Stat
  <2>2. /\ ~Leading(c) /\ UNCHANGED <<inflight, result>>
        /\ key' = [key EXCEPT ![c] = k] /\ result' = [result EXCEPT ![c] = result[c]]
    BY <1>1 DEF Stat, Leading
  <2>3. CASE Goto(c, "decode")
    BY <2>2, <2>3, FollowerStep
  <2>4. CASE Goto(c, "lock")
    BY <2>2, <2>4, FollowerStep
  <2> QED
    BY <2>1, <2>3, <2>4
<1>2. CASE Join(c)
  <2> DEFINE leader == inflight[key[c]]
             r == IF at[leader] = "unregister" THEN result[leader] ELSE None
  <2>1. /\ ~Leading(c) /\ Goto(c, "wait") /\ UNCHANGED <<inflight, key>>
        /\ key' = [key EXCEPT ![c] = key[c]] /\ result' = [result EXCEPT ![c] = r]
    BY <1>2 DEF Join, Leading
  <2>2. leader \in Caller /\ Leading(leader)
    BY <1>2, MediaCacheAssumption DEF Join, UnderWay, RegisteredByKey, OneDownloadPerKey
  <2>3. r \in Outcomes \cup {None}
    BY <2>2
  <2>4. r = None => Ahead(leader)
    BY <2>2 DEF NobodyForgotten, Leading, Ahead, BeforeClose
  <2> HIDE DEF r
  <2> QED
    BY <2>1, <2>2, <2>3, <2>4, FollowerStep
<1>3. CASE Lead(c)
  BY <1>3, LeadStep
<1>4. CASE Answered(c)
  <2>1. /\ ~Leading(c) /\ UNCHANGED <<inflight, key, result>>
        /\ key' = [key EXCEPT ![c] = key[c]] /\ result' = [result EXCEPT ![c] = result[c]]
    BY <1>4 DEF Answered, Leading
  <2>2. Goto(c, "decode") \/ Goto(c, "failed")
    BY <1>4 DEF Answered
  <2>3. CASE Goto(c, "decode")
    BY <2>1, <2>3, FollowerStep
  <2>4. CASE Goto(c, "failed")
    BY <2>1, <2>4, FollowerStep
  <2> QED
    BY <2>2, <2>3, <2>4
<1>5. CASE WaitCancelled(c)
  <2>1. /\ ~Leading(c) /\ UNCHANGED <<inflight, key, result>> /\ Goto(c, "failed")
        /\ key' = [key EXCEPT ![c] = key[c]] /\ result' = [result EXCEPT ![c] = result[c]]
    BY <1>5 DEF WaitCancelled, Leading
  <2> QED
    BY <2>1, FollowerStep
<1> QED
  BY <1>1, <1>2, <1>3, <1>4, <1>5 DEF Resolve

\* The leader's own steps.
LEMMA DownloadStep ==
  ASSUME Inv, NEW c \in Caller, Download(c)
  PROVE  Inv'
<1> USE DEF Inv, Calls
<1>1. ASSUME NEW place \in BeforeClose, NEW r \in Outcomes \cup {None},
             at[c] \in BeforeClose \ {"publish"}, Goto(c, place),
             result' = [result EXCEPT ![c] = r], UNCHANGED <<inflight, key>>,
             place = "publish" => r # None
      PROVE  Inv'
  BY <1>1, LeaderStep DEF Ahead, BeforeClose
<1>2. /\ result = [result EXCEPT ![c] = result[c]] /\ result[c] \in Outcomes \cup {None}
      /\ at = [at EXCEPT ![c] = at[c]]
  OBVIOUS
<1>3. CASE FetchOk(c)
  <2>1. /\ at[c] = "fetch" /\ Goto(c, "rename") /\ UNCHANGED <<inflight, key>>
        /\ result' = [result EXCEPT ![c] = result[c]]
    BY <1>2, <1>3 DEF FetchOk
  <2> QED
    BY <1>1, <1>2, <2>1 DEF BeforeClose
<1>4. CASE FetchFails(c)
  <2>1. CASE attempt[c] < Retries
    <3>1. /\ at[c] = "fetch" /\ Goto(c, "fetch") /\ UNCHANGED <<inflight, key>>
          /\ result' = [result EXCEPT ![c] = result[c]]
      BY <1>2, <1>4, <2>1 DEF FetchFails, Goto
    <3> QED
      BY <1>1, <1>2, <3>1 DEF BeforeClose
  <2>2. CASE ~(attempt[c] < Retries)
    <3>1. /\ at[c] = "fetch" /\ Goto(c, "publish") /\ UNCHANGED <<inflight, key>>
          /\ result' = [result EXCEPT ![c] = "unavailable"]
      BY <1>4, <2>2 DEF FetchFails
    <3> QED
      BY <1>1, <3>1, MediaCacheAssumption DEF BeforeClose, Outcomes
  <2> QED
    BY <2>1, <2>2
<1>5. CASE FetchCancelled(c)
  <2>1. /\ at[c] = "fetch" /\ Goto(c, "publish") /\ UNCHANGED <<inflight, key>>
        /\ result' = [result EXCEPT ![c] = "cancelled"]
    BY <1>5 DEF FetchCancelled
  <2> QED
    BY <1>1, <2>1, MediaCacheAssumption DEF BeforeClose, Outcomes
<1>6. CASE Rename(c)
  <2>1. /\ at[c] = "rename" /\ Goto(c, "scan") /\ UNCHANGED <<inflight, key>>
        /\ result' = [result EXCEPT ![c] = result[c]]
    BY <1>2, <1>6 DEF Rename
  <2> QED
    BY <1>1, <1>2, <2>1 DEF BeforeClose
<1>7. CASE Scan(c)
  <2>1. /\ at[c] = "scan" /\ Goto(c, "evict") /\ UNCHANGED <<inflight, key>>
        /\ result' = [result EXCEPT ![c] = result[c]]
    BY <1>2, <1>7 DEF Scan
  <2> QED
    BY <1>1, <1>2, <2>1 DEF BeforeClose
<1>8. CASE EvictOne(c)
  <2>1. /\ at[c] = "evict" /\ Goto(c, "evict") /\ UNCHANGED <<inflight, key>>
        /\ result' = [result EXCEPT ![c] = result[c]]
    BY <1>2, <1>8 DEF EvictOne, Goto
  <2> QED
    BY <1>1, <1>2, <2>1 DEF BeforeClose
<1>9. CASE EvictEnds(c)
  <2>1. /\ at[c] = "evict" /\ Goto(c, "publish") /\ UNCHANGED <<inflight, key>>
        /\ result' = [result EXCEPT ![c] = "ok"]
    BY <1>9 DEF EvictEnds
  <2> QED
    BY <1>1, <2>1, MediaCacheAssumption DEF BeforeClose, Outcomes
<1>10. CASE CloseDone(c)
  BY <1>10, CloseStep
<1>11. CASE Unregister(c)
  BY <1>11, UnregisterStep
<1> QED
  BY <1>3, <1>4, <1>5, <1>6, <1>7, <1>8, <1>9, <1>10, <1>11 DEF Download

LEMMA NextInv == Inv /\ [Next]_vars => Inv'
<1> SUFFICES ASSUME Inv, [Next]_vars PROVE Inv'
  OBVIOUS
<1>1. CASE UNCHANGED <<inflight, at, key, result>>
  BY <1>1 DEF Inv, Calls, RegisteredByKey, OneDownloadPerKey, Leading, NobodyForgotten, Ahead
<1>2. ASSUME NEW c \in Caller, Done(c) PROVE Inv'
  <2>1. /\ ~Leading(c) /\ UNCHANGED <<inflight, key>> /\ Goto(c, "idle")
        /\ key' = [key EXCEPT ![c] = key[c]] /\ result' = [result EXCEPT ![c] = None]
        /\ key[c] \in Key
    BY <1>2 DEF Done, Leading, Inv, Calls
  <2> QED
    BY <2>1, FollowerStep
<1>3. CASE Crash
  <2>1. /\ inflight' = [k \in Key |-> None] /\ at' = [c \in Caller |-> "idle"]
        /\ key' = key /\ result' = [c \in Caller |-> None]
    BY <1>3 DEF Crash
  <2>2. Calls'
    BY <2>1 DEF Inv, Calls, Places
  <2>3. RegisteredByKey' /\ NobodyForgotten'
    BY <2>1 DEF RegisteredByKey, NobodyForgotten
  <2>4. OneDownloadPerKey'
    BY <2>1, MediaCacheAssumption DEF Inv, Calls, OneDownloadPerKey, Leading
  <2> QED
    BY <2>2, <2>3, <2>4 DEF Inv
<1>4. CASE UNCHANGED vars
  BY <1>1, <1>4 DEF vars, callVars
<1>5. ASSUME NEW c \in Caller, CancelCaller(c) PROVE Inv'
  BY <1>1, <1>5 DEF CancelCaller
<1> QED
  BY <1>2, <1>3, <1>4, <1>5, ResolveStep, DownloadStep DEF Next

LEMMA InvHolds == Spec => []Inv
<1> QED
  BY InitInv, NextInv, PTL DEF Spec

\* Two callers never download one object at once: whoever Resolve's lock finds
\* registered is the one that is fetching, and nobody else is (inflight).
THEOREM OneDownloadPerKeyHolds == Spec => []OneDownloadPerKey
<1>1. Inv => OneDownloadPerKey
  BY DEF Inv
<1> QED
  BY <1>1, InvHolds, PTL

\* A caller that joined a download and has no answer yet has a leader that has
\* still to close its channel: no unregistering overtakes a waiter (Resolve).
THEOREM NobodyForgottenHolds == Spec => []NobodyForgotten
<1>1. Inv => NobodyForgotten
  BY DEF Inv
<1> QED
  BY <1>1, InvHolds, PTL

-----------------------------------------------------------------------------
(* Bytes *)

\* The bytes of finitely many objects are finitely many.
LEMMA ContentFinite ==
  ASSUME NEW objects \in SUBSET Key
  PROVE  IsFiniteSet(UNION {{k} \X (1..Size[k]) : k \in objects})
<1> DEFINE content == [k \in objects |-> {k} \X (1..Size[k])]
           parts   == {{k} \X (1..Size[k]) : k \in objects}
<1>1. IsFiniteSet(objects)
  BY FS_Subset, MediaCacheAssumption
<1>2. content \in Surjection(objects, parts)
  BY DEF Surjection
<1>3. IsFiniteSet(parts)
  BY <1>1, <1>2, FS_Surjection
<1>4. ASSUME NEW part \in parts PROVE IsFiniteSet(part)
  <2>1. PICK k \in objects : part = {k} \X (1..Size[k])
    BY <1>4
  <2>2. Size[k] \in Int
    BY MediaCacheAssumption
  <2>3. IsFiniteSet(1..Size[k])
    BY <2>2, FS_Interval
  <2>4. IsFiniteSet({k})
    BY FS_Singleton
  <2> QED
    BY <2>1, <2>3, <2>4, FS_Product
<1> QED
  BY <1>3, <1>4, FS_UNION

LEMMA BytesType ==
  ASSUME NEW objects \in SUBSET Key
  PROVE  Bytes(objects) \in Nat
BY ContentFinite, FS_CardinalityType DEF Bytes

LEMMA BytesMonotone ==
  ASSUME NEW all \in SUBSET Key, NEW some \in SUBSET all
  PROVE  Bytes(some) <= Bytes(all)
<1>1. UNION {{k} \X (1..Size[k]) : k \in some} \subseteq UNION {{k} \X (1..Size[k]) : k \in all}
  OBVIOUS
<1> QED
  BY <1>1, ContentFinite, FS_Subset DEF Bytes

LEMMA BytesAdd ==
  ASSUME NEW objects \in SUBSET Key, NEW k \in Key \ objects
  PROVE  Bytes(objects \cup {k}) = Bytes(objects) + Size[k]
<1> DEFINE old == UNION {{o} \X (1..Size[o]) : o \in objects}
           new == {k} \X (1..Size[k])
<1>1. UNION {{o} \X (1..Size[o]) : o \in objects \cup {k}} = old \cup new
  OBVIOUS
<1>2. IsFiniteSet(old)
  BY ContentFinite
<1>3. IsFiniteSet(new) /\ Cardinality(new) = Size[k]
  <2>1. Size[k] \in Nat /\ Size[k] \in Int /\ 1 * Size[k] = Size[k]
    BY MediaCacheAssumption
  <2>2. IsFiniteSet(1..Size[k]) /\ Cardinality(1..Size[k]) = Size[k]
    BY <2>1, FS_Interval, MediaCacheAssumption
  <2>3. IsFiniteSet({k}) /\ Cardinality({k}) = 1
    BY FS_Singleton
  <2> QED
    BY <2>1, <2>2, <2>3, FS_Product
<1>4. old \cap new = {}
  OBVIOUS
<1>5. /\ Cardinality(old) \in Nat /\ Cardinality(new) \in Nat
      /\ Cardinality(old \cap new) = 0
  BY <1>2, <1>3, <1>4, FS_CardinalityType, FS_EmptySet
<1>6. Cardinality(old \cup new) = Cardinality(old) + Cardinality(new) - Cardinality(old \cap new)
  BY <1>2, <1>3, FS_Union
<1> HIDE DEF old, new
<1>7. Cardinality(old \cup new) = Cardinality(old) + Size[k]
  BY <1>3, <1>4, <1>5, <1>6
<1> QED
  BY <1>1, <1>7 DEF Bytes, old

\* Without one of them.
LEMMA BytesRemove ==
  ASSUME NEW objects \in SUBSET Key, NEW k \in objects
  PROVE  Bytes(objects) = Bytes(objects \ {k}) + Size[k]
<1>1. objects = (objects \ {k}) \cup {k}
  OBVIOUS
<1> QED
  BY <1>1, BytesAdd, Zenon

-----------------------------------------------------------------------------
(* The directory *)

DirectoryOK == files \in Seq(Key) /\ IsInjective(files)

LEMMA WithoutOne ==
  ASSUME DirectoryOK, NEW k \in Key
  PROVE  /\ Without(k) \in Seq(Key) /\ IsInjective(Without(k))
         /\ Range(Without(k)) = Files \ {k}
<1>1. CASE ~OnDisk(k)
  BY <1>1 DEF DirectoryOK, OnDisk, Without, Files, Range
<1>2. CASE OnDisk(k)
  <2> DEFINE i == CHOOSE j \in 1..Len(files) : files[j] = k
             w == RemoveAt(files, i)
  <2>1. i \in 1..Len(files) /\ files[i] = k /\ w = Without(k)
    BY <1>2 DEF OnDisk, Without
  <2>2. Len(files) \in Nat /\ DOMAIN files = 1..Len(files)
    BY DEF DirectoryOK
  <2> HIDE DEF i
  <2>3. /\ w \in Seq(Key) /\ Len(w) = Len(files) - 1
        /\ \A j \in 1..Len(w) : w[j] = files[IF j < i THEN j ELSE j + 1]
    <3> DEFINE front == SubSeq(files, 1, i - 1)
               back  == SubSeq(files, i + 1, Len(files))
    <3>1. /\ front \in Seq(Key) /\ Len(front) = i - 1
          /\ \A j \in 1..i - 1 : front[j] = files[j]
      <4>1. 1 \in Int /\ i - 1 \in Int /\ \A j \in 1..(i - 1) : files[j] \in Key
        BY <2>1, <2>2 DEF DirectoryOK
      <4> HIDE DEF front
      <4>2. /\ front \in Seq(Key)
            /\ Len(front) = IF 1 <= i - 1 THEN i - 1 - 1 + 1 ELSE 0
            /\ \A j \in 1..(i - 1 - 1 + 1) : front[j] = files[1 + j - 1]
        BY <4>1, SubSeqProperties DEF front
      <4> QED
        BY <2>1, <2>2, <4>2
    <3>2. /\ back \in Seq(Key) /\ Len(back) = Len(files) - i
          /\ \A j \in 1..Len(files) - i : back[j] = files[i + j]
      <4>1. i + 1 \in Int /\ Len(files) \in Int /\ \A j \in (i + 1)..Len(files) : files[j] \in Key
        BY <2>1, <2>2 DEF DirectoryOK
      <4> HIDE DEF back
      <4>2. /\ back \in Seq(Key)
            /\ Len(back) = IF i + 1 <= Len(files) THEN Len(files) - (i + 1) + 1 ELSE 0
            /\ \A j \in 1..(Len(files) - (i + 1) + 1) : back[j] = files[i + 1 + j - 1]
        BY <4>1, SubSeqProperties DEF back
      <4>3. Len(files) - (i + 1) + 1 = Len(files) - i /\ \A j \in Int : i + 1 + j - 1 = i + j
        BY <2>1, <2>2
      <4>4. \A a, b \in Int : a <= b => (IF a + 1 <= b THEN b - (a + 1) + 1 ELSE 0) = b - a
        OBVIOUS
      <4>5. i \in Int /\ i <= Len(files)
        BY <2>1, <2>2
      <4>6. Len(back) = Len(files) - i
        BY <4>1, <4>2, <4>4, <4>5
      <4>7. ASSUME NEW j \in 1..Len(files) - i PROVE back[j] = files[i + j]
          <5>1. j \in 1..(Len(files) - (i + 1) + 1)
            BY <4>3, <4>7
          <5>2. i + 1 + j - 1 = i + j
            BY <2>1, <2>2, <4>7
          <5> QED
            BY <4>2, <5>1, <5>2
      <4> QED
        BY <4>2, <4>6, <4>7
    <3>3. w = front \o back
      BY DEF RemoveAt
    <3> HIDE DEF front, back, w
    <3>4. /\ w \in Seq(Key) /\ Len(w) = Len(front) + Len(back)
          /\ \A j \in 1..Len(front) + Len(back) :
               w[j] = IF j <= Len(front) THEN front[j] ELSE back[j - Len(front)]
      BY <3>1, <3>2, <3>3, ConcatProperties, Zenon
    <3> QED
      BY <2>1, <2>2, <3>1, <3>2, <3>4
  <2> HIDE DEF w
  <2>4. DOMAIN w = 1..Len(w)
    BY <2>3
  <2>5. IsInjective(w)
    <3> SUFFICES ASSUME NEW j \in 1..Len(w), NEW l \in 1..Len(w), w[j] = w[l] PROVE j = l
      BY <2>4 DEF IsInjective
    <3> DEFINE place(n) == IF n < i THEN n ELSE n + 1
    <3>1. place(j) \in 1..Len(files) /\ place(l) \in 1..Len(files)
      BY <2>1, <2>2, <2>3
    <3>2. files[place(j)] = files[place(l)]
      BY <2>3
    <3>3. place(j) = place(l)
      BY <2>2, <3>1, <3>2 DEF DirectoryOK, IsInjective
    <3> QED
      BY <2>1, <2>2, <2>3, <3>3
  <2>6. ASSUME NEW j \in 1..Len(w) PROVE w[j] \in Files \ {k}
    BY <2>1, <2>2, <2>3 DEF DirectoryOK, IsInjective, Files, Range
  <2>7. ASSUME NEW j \in 1..Len(files), files[j] # k PROVE \E l \in 1..Len(w) : w[l] = files[j]
    <3>1. CASE j < i
      BY <2>1, <2>2, <2>3, <3>1
    <3>2. CASE ~(j < i)
      <4>1. j - 1 \in 1..Len(w) /\ ~(j - 1 < i)
        BY <2>1, <2>2, <2>3, <2>7, <3>2
      <4> QED
        BY <2>2, <2>3, <4>1
    <3> QED
      BY <3>1, <3>2
  <2> QED
    BY <2>1, <2>2, <2>3, <2>4, <2>5, <2>6, <2>7 DEF Files, Range
<1> QED
  BY <1>1, <1>2

LEMMA TouchedOne ==
  ASSUME DirectoryOK, NEW k \in Key
  PROVE  /\ Touched(k) \in Seq(Key) /\ IsInjective(Touched(k))
         /\ Range(Touched(k)) = Files \cup {k}
<1> DEFINE w == Without(k)
           t == Touched(k)
<1>1. w \in Seq(Key) /\ IsInjective(w) /\ Range(w) = Files \ {k}
  BY WithoutOne
<1>2. t = Append(w, k)
  BY DEF Touched
<1> HIDE DEF w, t
<1>3. /\ t \in Seq(Key) /\ Len(t) = Len(w) + 1 /\ t[Len(w) + 1] = k
      /\ \A j \in 1..Len(w) : t[j] = w[j]
      /\ DOMAIN t = 1..Len(w) + 1 /\ DOMAIN w = 1..Len(w) /\ Len(w) \in Nat
  BY <1>1, <1>2
<1>4. \A j \in 1..Len(w) : w[j] # k
  BY <1>1, <1>3 DEF Range
<1>5. IsInjective(t)
  BY <1>1, <1>3, <1>4 DEF IsInjective
<1>6. Range(t) = Range(w) \cup {k}
  BY <1>3 DEF Range
<1> QED
  BY <1>1, <1>3, <1>5, <1>6 DEF t

-----------------------------------------------------------------------------
(* The limit of the cache *)

\* The directory, and what the leaders that evict have noted of it: the total
\* of a leader covers the files it still has to look at.
Snapshots ==
  /\ DirectoryOK
  /\ killed \in SUBSET Key
  /\ counted \in [Caller -> Int]
  /\ listed \in [Caller -> Seq(Key)]
  /\ \A c \in Caller : IsInjective(listed[c]) /\ Bytes(Range(listed[c])) <= counted[c]

\* fresh are the leaders whose file came after the last scan whose eviction is
\* over, newer[c] those whose file came after the scan of c.  The list c still
\* has to look at misses no file but theirs.  An object whose leader was killed
\* counts until an eviction ends; till then every leader that evicts is fresh.
Bounded(fresh, newer) ==
  /\ Bytes(Files \ (Objects(fresh) \cup killed)) <= MaxBytes
  /\ killed # {} => fresh = Evicting
  /\ \A c \in fresh : at[c] = "evict" =>
       /\ Files \subseteq Range(listed[c]) \cup Objects(newer[c])
       /\ newer[c] \subseteq fresh \ {c}
       /\ \A d \in newer[c] : at[d] = "evict" => newer[d] \subseteq newer[c]

\* BoundedByLeaders is not inductive: a leader leaves the bound when its
\* eviction ends, with a total that says nothing of the files renamed after its
\* scan.  Their leaders have to be known, and to be still on their way.
LimitKept ==
  \E fresh \in SUBSET Evicting, newer \in [Caller -> SUBSET Caller] : Bounded(fresh, newer)

LimitInv == Inv /\ Snapshots /\ LimitKept

LEMMA ObjectsType ==
  ASSUME Calls, NEW callers \in SUBSET Caller
  PROVE  Objects(callers) \in SUBSET Key
BY DEF Calls, Objects

LEMMA FilesType == DirectoryOK => Files \in SUBSET Key
BY DEF DirectoryOK, Files, Range

LEMMA BytesNone == Bytes({}) = 0
<1>1. UNION {{k} \X (1..Size[k]) : k \in {}} = {}
  OBVIOUS
<1> QED
  BY <1>1, FS_EmptySet, Zenon DEF Bytes

LEMMA LimitFrom ==
  ASSUME NEW fresh \in SUBSET Evicting', NEW newer \in [Caller -> SUBSET Caller],
         Bounded(fresh, newer)'
  PROVE  LimitKept'
BY DEF LimitKept

LEMMA InitLimit == Init => LimitInv
<1> SUFFICES ASSUME Init PROVE LimitInv
  OBVIOUS
<1>1. Inv
  BY InitInv
<1>2. files = <<>> /\ killed = {} /\ Range(<<>>) = {} /\ IsInjective(<<>>)
  BY DEF Init, Range, IsInjective
<1>3. Snapshots
  <2>1. /\ DirectoryOK /\ killed \in SUBSET Key
        /\ counted = [c \in Caller |-> 0] /\ listed = [c \in Caller |-> <<>>]
    BY <1>2 DEF Init, DirectoryOK
  <2>2. Bytes(Range(<<>>)) = 0
    BY <1>2, BytesNone, Zenon
  <2>3. \A c \in Caller : listed[c] = <<>> /\ counted[c] = 0
    BY <2>1
  <2>4. \A c \in Caller : IsInjective(listed[c]) /\ Bytes(Range(listed[c])) <= counted[c]
    BY <1>2, <2>2, <2>3
  <2> QED
    BY <2>1, <2>4 DEF Snapshots
<1>4. Bounded({}, [c \in Caller |-> {}])
  <2>1. Files \ (Objects({}) \cup killed) = {}
    BY <1>2 DEF Files
  <2>2. Bytes(Files \ (Objects({}) \cup killed)) = 0
    BY <2>1, BytesNone, Zenon
  <2>3. Bytes(Files \ (Objects({}) \cup killed)) <= MaxBytes
    BY <2>2, MediaCacheAssumption
  <2> QED
    BY <1>2, <2>3 DEF Bounded
<1>5. LimitKept
  BY <1>4 DEF LimitKept
<1> QED
  BY <1>1, <1>3, <1>5 DEF LimitInv

\* Nothing that the bound is about changes.
LEMMA QuietStep ==
  ASSUME LimitInv, Files' = Files, UNCHANGED <<listed, killed>>,
         \A c \in Caller : at[c] \in {"scan", "evict"} \/ at'[c] \in {"scan", "evict"} =>
           at'[c] = at[c] /\ key'[c] = key[c]
  PROVE  LimitKept'
<1>1. PICK fresh \in SUBSET Evicting, newer \in [Caller -> SUBSET Caller] : Bounded(fresh, newer)
  BY DEF LimitInv, LimitKept
<1>2. Evicting' = Evicting
  BY DEF Evicting
<1>3. \A c \in fresh : at'[c] = at[c] /\ key'[c] = key[c]
  BY DEF Evicting
<1>4. ASSUME NEW callers \in SUBSET fresh PROVE Objects(callers)' = Objects(callers)
  BY <1>3 DEF Objects
<1>5. Bytes(Files' \ (Objects(fresh)' \cup killed')) <= MaxBytes
  BY <1>1, <1>4 DEF Bounded
<1>6. ASSUME NEW c \in fresh, at'[c] = "evict"
      PROVE  /\ Files' \subseteq Range(listed'[c]) \cup Objects(newer[c])'
             /\ newer[c] \subseteq fresh \ {c}
             /\ \A d \in newer[c] : at'[d] = "evict" => newer[d] \subseteq newer[c]
  <2>1. /\ Files \subseteq Range(listed[c]) \cup Objects(newer[c])
        /\ newer[c] \subseteq fresh \ {c}
        /\ \A d \in newer[c] : at[d] = "evict" => newer[d] \subseteq newer[c]
    BY <1>1, <1>3, <1>6 DEF Bounded
  <2>2. Objects(newer[c])' = Objects(newer[c])
    BY <1>4, <2>1
  <2> QED
    BY <1>3, <2>1, <2>2
<1>7. killed' # {} => fresh = Evicting'
  BY <1>1, <1>2 DEF Bounded
<1>8. Bounded(fresh, newer)'
  BY <1>5, <1>6, <1>7 DEF Bounded
<1> QED
  BY <1>2, <1>8, LimitFrom

\* The leader's file is in place: it is one of those that the next scan of any
\* other leader has to count.
LEMMA RenameStep ==
  ASSUME LimitInv, NEW c \in Caller, Rename(c)
  PROVE  LimitKept'
<1>1. /\ at[c] = "rename" /\ at'[c] = "scan" /\ \A d \in Caller \ {c} : at'[d] = at[d]
      /\ UNCHANGED <<key, listed, killed>>
  BY DEF Rename, Goto, historyVars, LimitInv, Inv, Calls
<1>2. key[c] \in Key
  BY DEF LimitInv, Inv, Calls
<1>3. Files' = Files \cup {key[c]}
  BY <1>2, TouchedOne DEF Rename, LimitInv, Snapshots, Files
<1>4. PICK fresh \in SUBSET Evicting, newer \in [Caller -> SUBSET Caller] : Bounded(fresh, newer)
  BY DEF LimitInv, LimitKept
<1> DEFINE fresh2 == fresh \cup {c}
           newer2 == [d \in Caller |-> newer[d] \cup {c}]
<1>5. Evicting' = Evicting \cup {c} /\ newer2 \in [Caller -> SUBSET Caller]
  BY <1>1 DEF Evicting
<1>6. \A d \in fresh : d \in Caller /\ d # c /\ at'[d] = at[d]
  BY <1>1 DEF Evicting
<1>7. ASSUME NEW callers PROVE Objects(callers \cup {c})' = Objects(callers) \cup {key[c]}
  BY <1>1 DEF Objects
<1>8. Bytes(Files' \ (Objects(fresh2)' \cup killed')) <= MaxBytes
  <2> DEFINE all  == Files \ (Objects(fresh) \cup killed)
             some == Files' \ (Objects(fresh2)' \cup killed')
  <2>1. Bytes(all) <= MaxBytes
    BY <1>4 DEF Bounded
  <2>2. all \in SUBSET Key
    BY FilesType DEF LimitInv, Snapshots
  <2>3. some \in SUBSET all
    BY <1>1, <1>3, <1>7
  <2>4. some \in SUBSET Key
    BY <2>2, <2>3
  <2> HIDE DEF all, some
  <2>5. Bytes(some) <= Bytes(all) /\ Bytes(some) \in Nat /\ Bytes(all) \in Nat
    BY <2>2, <2>3, <2>4, BytesMonotone, BytesType
  <2>6. Bytes(some) <= MaxBytes
    BY <2>1, <2>5, MediaCacheAssumption
  <2> QED
    BY <2>6 DEF some
<1>9. killed' # {} => fresh2 = Evicting'
  BY <1>1, <1>4, <1>5 DEF Bounded
<1>10. ASSUME NEW d \in fresh2, at'[d] = "evict"
       PROVE  /\ Files' \subseteq Range(listed'[d]) \cup Objects(newer2[d])'
              /\ newer2[d] \subseteq fresh2 \ {d}
              /\ \A e \in newer2[d] : at'[e] = "evict" => newer2[e] \subseteq newer2[d]
  <2>1. d \in fresh /\ d # c /\ at[d] = "evict" /\ d \in Caller
    BY <1>1, <1>6, <1>10
  <2>2. /\ Files \subseteq Range(listed[d]) \cup Objects(newer[d])
        /\ newer[d] \subseteq fresh \ {d}
        /\ \A e \in newer[d] : at[e] = "evict" => newer[e] \subseteq newer[d]
    BY <1>4, <2>1 DEF Bounded
  <2>3. newer2[d] = newer[d] \cup {c}
    BY <2>1
  <2>4. Objects(newer2[d])' = Objects(newer[d]) \cup {key[c]}
    BY <1>7, <2>3
  <2>5. ASSUME NEW e \in newer2[d], at'[e] = "evict" PROVE newer2[e] \subseteq newer2[d]
    <3>1. e \in newer[d] /\ e \in Caller /\ at[e] = "evict"
      BY <1>1, <1>6, <2>2, <2>3, <2>5
    <3> QED
      BY <2>2, <2>3, <3>1
  <2> QED
    BY <1>1, <1>3, <2>1, <2>2, <2>3, <2>4, <2>5
<1> HIDE DEF fresh2, newer2
<1>11. Bounded(fresh2, newer2)'
  BY <1>8, <1>9, <1>10 DEF Bounded
<1>12. fresh2 \in SUBSET Evicting'
  BY <1>5 DEF fresh2
<1> QED
  BY <1>5, <1>11, <1>12, LimitFrom

\* A scan lists everything: nobody is newer than it.
LEMMA ScanStep ==
  ASSUME LimitInv, NEW c \in Caller, Scan(c)
  PROVE  LimitKept'
<1>1. /\ at[c] = "scan" /\ at'[c] = "evict" /\ \A d \in Caller \ {c} : at'[d] = at[d]
      /\ listed'[c] = files /\ \A d \in Caller \ {c} : listed'[d] = listed[d]
      /\ UNCHANGED <<files, key, killed>> /\ Files' = Files
  BY DEF Scan, Goto, historyVars, LimitInv, Inv, Calls, Snapshots, Files
<1>2. PICK fresh \in SUBSET Evicting, newer \in [Caller -> SUBSET Caller] : Bounded(fresh, newer)
  BY DEF LimitInv, LimitKept
<1> DEFINE newer2 == [newer EXCEPT ![c] = {}]
<1>3. Evicting' = Evicting /\ newer2 \in [Caller -> SUBSET Caller]
  BY <1>1 DEF Evicting
<1>4. ASSUME NEW callers PROVE Objects(callers)' = Objects(callers)
  BY <1>1 DEF Objects
<1>5. /\ Bytes(Files' \ (Objects(fresh)' \cup killed')) <= MaxBytes
      /\ killed' # {} => fresh = Evicting'
  BY <1>1, <1>2, <1>3, <1>4 DEF Bounded
<1>6. ASSUME NEW d \in fresh, at'[d] = "evict"
      PROVE  /\ Files' \subseteq Range(listed'[d]) \cup Objects(newer2[d])'
             /\ newer2[d] \subseteq fresh \ {d}
             /\ \A e \in newer2[d] : at'[e] = "evict" => newer2[e] \subseteq newer2[d]
  <2>1. CASE d = c
    <3>1. newer2[d] = {}
      BY <2>1
    <3>2. Files' \subseteq Range(listed'[d])
      BY <1>1, <2>1 DEF Files
    <3> QED
      BY <3>1, <3>2
  <2>2. CASE d # c
    <3>1. d \in Caller /\ at[d] = "evict" /\ newer2[d] = newer[d]
      BY <1>1, <1>6, <2>2 DEF Evicting
    <3>2. /\ Files \subseteq Range(listed[d]) \cup Objects(newer[d])
          /\ newer[d] \subseteq fresh \ {d}
          /\ \A e \in newer[d] : at[e] = "evict" => newer[e] \subseteq newer[d]
      BY <1>2, <3>1 DEF Bounded
    <3>3. ASSUME NEW e \in newer[d], at'[e] = "evict" PROVE newer2[e] \subseteq newer[d]
      <4>1. e \in Caller
        BY <3>1
      <4>2. CASE e = c
        BY <4>1, <4>2
      <4>3. CASE e # c
        BY <1>1, <3>2, <3>3, <4>1, <4>3
      <4> QED
        BY <4>2, <4>3
    <3>4. Objects(newer[d])' = Objects(newer[d])
      BY <1>4
    <3> HIDE DEF newer2
    <3> QED
      BY <1>1, <2>2, <3>1, <3>2, <3>3, <3>4
  <2> QED
    BY <2>1, <2>2
<1> HIDE DEF newer2
<1>7. Bounded(fresh, newer2)'
  BY <1>5, <1>6 DEF Bounded
<1> QED
  BY <1>3, <1>7, LimitFrom

\* The head of a list without repetitions, and the rest.
LEMMA HeadAndTail ==
  ASSUME NEW s \in Seq(Key), s # <<>>, IsInjective(s)
  PROVE  /\ Head(s) \in Key /\ Tail(s) \in Seq(Key) /\ IsInjective(Tail(s))
         /\ Range(Tail(s)) = Range(s) \ {Head(s)} /\ Head(s) \in Range(s)
<1>1. /\ Len(s) \in Nat /\ Len(s) > 0 /\ Head(s) = s[1] /\ Head(s) \in Key
      /\ Tail(s) \in Seq(Key) /\ Len(Tail(s)) = Len(s) - 1
      /\ \A i \in 1..Len(s) - 1 : Tail(s)[i] = s[i + 1]
      /\ DOMAIN s = 1..Len(s) /\ DOMAIN Tail(s) = 1..Len(s) - 1
  OBVIOUS
<1>2. \A i, j \in 1..Len(s) : s[i] = s[j] => i = j
  BY <1>1 DEF IsInjective
<1>3. ASSUME NEW i \in 1..Len(s), i # 1 PROVE i - 1 \in 1..Len(s) - 1 /\ Tail(s)[i - 1] = s[i]
  BY <1>1, <1>3
<1>4. ASSUME NEW i \in 1..Len(s) - 1
      PROVE  i + 1 \in 1..Len(s) /\ Tail(s)[i] = s[i + 1] /\ s[i + 1] # s[1]
  BY <1>1, <1>2, <1>4
<1>5. Head(s) \in Range(s)
  <2>1. 1 \in 1..Len(s)
    BY <1>1
  <2> QED
    BY <1>1, <2>1 DEF Range
<1>6. Range(s) = {s[i] : i \in 1..Len(s)} /\ Range(Tail(s)) = {Tail(s)[i] : i \in 1..Len(s) - 1}
  BY <1>1 DEF Range
<1>7. ASSUME NEW k \in Range(s), k # Head(s) PROVE k \in Range(Tail(s))
  BY <1>1, <1>3, <1>6, <1>7
<1>8. ASSUME NEW k \in Range(Tail(s)) PROVE k \in Range(s) /\ k # Head(s)
  BY <1>1, <1>4, <1>6, <1>8
<1>9. IsInjective(Tail(s))
  <2> SUFFICES ASSUME NEW i \in 1..Len(s) - 1, NEW j \in 1..Len(s) - 1, Tail(s)[i] = Tail(s)[j]
               PROVE  i = j
    BY <1>1 DEF IsInjective
  <2>1. i + 1 = j + 1
    BY <1>2, <1>4
  <2> QED
    BY <1>1, <2>1
<1> QED
  BY <1>1, <1>5, <1>7, <1>8, <1>9

\* An eviction takes a file away, or finds that another one has.
LEMMA EvictOneStep ==
  ASSUME LimitInv, NEW c \in Caller, EvictOne(c)
  PROVE  LimitKept'
<1> DEFINE victim == Head(listed[c])
<1>1. /\ at[c] = "evict" /\ listed[c] # <<>> /\ listed[c] \in Seq(Key)
      /\ listed' = [listed EXCEPT ![c] = Tail(@)] /\ UNCHANGED <<at, key, killed>>
  BY DEF EvictOne, OverLimit, historyVars, LimitInv, Snapshots
<1>2. victim \in Key /\ Range(Tail(listed[c])) = Range(listed[c]) \ {victim}
  BY <1>1, HeadAndTail DEF LimitInv, Snapshots
<1>3. Files' = Files \ {victim}
  <2>1. OnDisk(victim) <=> victim \in Files
    <3>1. DOMAIN files = 1..Len(files)
      BY DEF LimitInv, Snapshots, DirectoryOK
    <3> HIDE DEF victim
    <3> QED
      BY <3>1 DEF OnDisk, Files, Range
  <2>2. CASE OnDisk(victim)
    <3>1. files' = Without(victim)
      BY <2>2 DEF EvictOne
    <3>2. Range(Without(victim)) = Files \ {victim}
      BY <1>2, WithoutOne DEF LimitInv, Snapshots
    <3> QED
      BY <3>1, <3>2, Zenon DEF Files
  <2>3. CASE ~OnDisk(victim)
    BY <1>2, <2>1, <2>3 DEF EvictOne, Files
  <2> QED
    BY <2>2, <2>3
<1> HIDE DEF victim
<1>4. PICK fresh \in SUBSET Evicting, newer \in [Caller -> SUBSET Caller] : Bounded(fresh, newer)
  BY DEF LimitInv, LimitKept
<1>5. Evicting' = Evicting
  BY <1>1 DEF Evicting
<1>6. ASSUME NEW callers PROVE Objects(callers)' = Objects(callers)
  BY <1>1 DEF Objects
<1>7. Bytes(Files' \ (Objects(fresh)' \cup killed')) <= MaxBytes
  <2> DEFINE all  == Files \ (Objects(fresh) \cup killed)
             some == Files' \ (Objects(fresh)' \cup killed')
  <2>1. Bytes(all) <= MaxBytes
    BY <1>4 DEF Bounded
  <2>2. all \in SUBSET Key /\ some \in SUBSET all
    BY <1>1, <1>3, <1>6, FilesType DEF LimitInv, Snapshots
  <2> HIDE DEF all, some
  <2>3. Bytes(some) <= Bytes(all) /\ Bytes(some) \in Nat /\ Bytes(all) \in Nat
    BY <2>2, BytesMonotone, BytesType
  <2>4. Bytes(some) <= MaxBytes
    BY <2>1, <2>3, MediaCacheAssumption
  <2> QED
    BY <2>4 DEF some
<1>8. killed' # {} => fresh = Evicting'
  BY <1>1, <1>4, <1>5 DEF Bounded
<1>9. ASSUME NEW d \in fresh, at'[d] = "evict"
      PROVE  /\ Files' \subseteq Range(listed'[d]) \cup Objects(newer[d])'
             /\ newer[d] \subseteq fresh \ {d}
             /\ \A e \in newer[d] : at'[e] = "evict" => newer[e] \subseteq newer[d]
  <2>1. d \in Caller /\ at[d] = "evict" /\ listed \in [Caller -> Seq(Key)]
    BY <1>1, <1>9 DEF Evicting, LimitInv, Snapshots
  <2>2. /\ Files \subseteq Range(listed[d]) \cup Objects(newer[d])
        /\ newer[d] \subseteq fresh \ {d}
        /\ \A e \in newer[d] : at[e] = "evict" => newer[e] \subseteq newer[d]
    BY <1>4, <2>1 DEF Bounded
  <2>3. Files' \subseteq Range(listed'[d]) \cup Objects(newer[d])
    <3>1. CASE d = c
      <4>1. listed'[d] = Tail(listed[c])
        BY <1>1, <2>1, <3>1
      <4> QED
        BY <1>2, <1>3, <2>2, <3>1, <4>1
    <3>2. CASE d # c
      <4>1. listed'[d] = listed[d]
        BY <1>1, <2>1, <3>2
      <4> QED
        BY <1>3, <2>2, <4>1
    <3> QED
      BY <3>1, <3>2
  <2> QED
    BY <1>1, <1>6, <2>2, <2>3
<1>10. Bounded(fresh, newer)'
  BY <1>7, <1>8, <1>9 DEF Bounded
<1> QED
  BY <1>5, <1>10, LimitFrom

\* An eviction ends within the limit, but for what was renamed after its scan.
LEMMA EvictEndsStep ==
  ASSUME LimitInv, NEW c \in Caller, EvictEnds(c)
  PROVE  LimitKept'
<1>1. /\ at[c] = "evict" /\ at'[c] = "publish" /\ \A d \in Caller \ {c} : at'[d] = at[d]
      /\ ~OverLimit(c) /\ \A d \in Caller \ {c} : listed'[d] = listed[d]
      /\ UNCHANGED <<files, key>> /\ Files' = Files /\ killed' = {}
  BY DEF EvictEnds, Goto, LimitInv, Inv, Calls, Snapshots, Files
<1>2. PICK fresh \in SUBSET Evicting, newer \in [Caller -> SUBSET Caller] : Bounded(fresh, newer)
  BY DEF LimitInv, LimitKept
<1> DEFINE fresh2 == IF c \in fresh THEN newer[c] ELSE fresh
<1>3. \A d \in fresh : at[d] = "evict" =>
        /\ Files \subseteq Range(listed[d]) \cup Objects(newer[d])
        /\ newer[d] \subseteq fresh \ {d}
        /\ \A e \in newer[d] : at[e] = "evict" => newer[e] \subseteq newer[d]
  BY <1>2 DEF Bounded
<1>4. fresh2 \in SUBSET fresh /\ c \notin fresh2 /\ fresh \in SUBSET Caller
  BY <1>1, <1>3 DEF Evicting
<1>5. fresh2 \in SUBSET Evicting'
  BY <1>1, <1>4 DEF Evicting
<1>6. ASSUME NEW callers PROVE Objects(callers)' = Objects(callers)
  BY <1>1 DEF Objects
<1>7. Bytes(Files \ Objects(fresh2)) <= MaxBytes
  <2>1. CASE c \in fresh
    <3>1. Files \subseteq Range(listed[c]) \cup Objects(newer[c])
      BY <1>1, <1>3, <2>1
    <3> DEFINE rest == Files \ Objects(newer[c])
    <3>2. /\ Range(listed[c]) \in SUBSET Key /\ listed[c] \in Seq(Key)
          /\ Bytes(Range(listed[c])) <= counted[c] /\ counted[c] \in Int
      BY DEF LimitInv, Snapshots, Range
    <3>3. rest \in SUBSET Range(listed[c])
      BY <3>1
    <3> HIDE DEF rest
    <3>4. Bytes(rest) <= Bytes(Range(listed[c])) /\ Bytes(rest) \in Nat /\ Bytes(Range(listed[c])) \in Nat
      BY <3>2, <3>3, BytesMonotone, BytesType
    <3>5. MaxBytes \in Nat
      BY MediaCacheAssumption
    <3>6. CASE counted[c] <= MaxBytes
      <4>1. Bytes(rest) <= MaxBytes
        BY <3>2, <3>4, <3>5, <3>6
      <4> QED
        BY <2>1, <4>1 DEF rest
    <3>7. CASE ~(counted[c] <= MaxBytes)
      <4>1. Range(listed[c]) = {}
        BY <1>1, <3>2, <3>5, <3>7 DEF OverLimit, Range
      <4>2. rest = {}
        BY <3>3, <4>1
      <4>3. Bytes(rest) <= MaxBytes
        BY <3>5, <4>2, BytesNone
      <4> QED
        BY <2>1, <4>3 DEF rest
    <3> QED
      BY <3>6, <3>7
  <2>2. CASE c \notin fresh
    <3>1. c \in Evicting
      BY <1>1 DEF Evicting
    <3>2. killed = {}
      BY <1>2, <2>2, <3>1 DEF Bounded
    <3>3. Files \ (Objects(fresh) \cup killed) = Files \ Objects(fresh)
      BY <3>2
    <3>4. Bytes(Files \ (Objects(fresh) \cup killed)) <= MaxBytes
      BY <1>2 DEF Bounded
    <3> QED
      BY <2>2, <3>3, <3>4, Zenon
  <2> QED
    BY <2>1, <2>2
<1>8. Bytes(Files' \ (Objects(fresh2)' \cup killed')) <= MaxBytes
  <2>1. Files' \ (Objects(fresh2)' \cup killed') = Files \ Objects(fresh2)
    BY <1>1, <1>6
  <2> QED
    BY <1>7, <2>1, Zenon
<1>9. ASSUME NEW d \in fresh2, at'[d] = "evict"
      PROVE  /\ Files' \subseteq Range(listed'[d]) \cup Objects(newer[d])'
             /\ newer[d] \subseteq fresh2 \ {d}
             /\ \A e \in newer[d] : at'[e] = "evict" => newer[e] \subseteq newer[d]
  <2>1. d \in fresh /\ d # c /\ d \in Caller /\ at[d] = "evict"
    BY <1>1, <1>4, <1>9
  <2>2. newer[d] \subseteq fresh2 \ {d}
    BY <1>1, <1>3, <1>9, <2>1
  <2>3. \A e \in newer[d] : at'[e] = at[e]
    BY <1>1, <1>4, <2>2
  <2>4. Objects(newer[d])' = Objects(newer[d])
    BY <1>6
  <2> HIDE DEF fresh2
  <2> QED
    BY <1>1, <1>3, <2>1, <2>2, <2>3, <2>4
<1> HIDE DEF fresh2
<1>10. Bounded(fresh2, newer)'
  BY <1>1, <1>8, <1>9 DEF Bounded
<1> QED
  BY <1>5, <1>10, LimitFrom

\* A kill: what the leaders that evicted had renamed counts as killed, and
\* nobody evicts.
LEMMA CrashStep ==
  ASSUME LimitInv, Crash
  PROVE  LimitKept'
<1>1. /\ killed' = killed \cup Objects(Evicting) /\ UNCHANGED <<files, key>> /\ Files' = Files
      /\ \A d \in Caller : at'[d] = "idle"
  BY DEF Crash, Files
<1>2. PICK fresh \in SUBSET Evicting, newer \in [Caller -> SUBSET Caller] : Bounded(fresh, newer)
  BY DEF LimitInv, LimitKept
<1>3. Evicting' = {}
  BY <1>1 DEF Evicting
<1> DEFINE all  == Files \ (Objects(fresh) \cup killed)
           some == Files' \ (Objects({})' \cup killed')
<1>4. Bytes(all) <= MaxBytes
  BY <1>2 DEF Bounded
<1>5. all \in SUBSET Key
  BY FilesType DEF LimitInv, Snapshots
<1>6. some \in SUBSET all
  BY <1>1 DEF Objects
<1>7. some \in SUBSET Key
  BY <1>5, <1>6
<1> HIDE DEF all, some
<1>8. Bytes(some) <= Bytes(all) /\ Bytes(some) \in Nat /\ Bytes(all) \in Nat
  BY <1>5, <1>6, <1>7, BytesMonotone, BytesType
<1>9. Bytes(some) <= MaxBytes
  BY <1>4, <1>8, MediaCacheAssumption
<1>10. Bounded({}, newer)'
  BY <1>3, <1>9 DEF Bounded, some
<1>11. {} \in SUBSET Evicting'
  OBVIOUS
<1> QED
  BY <1>10, <1>11, LimitFrom

\* The directory stays a list without repetitions, and snapshots stay lists.
LEMMA SnapshotsStep == LimitInv /\ [Next]_vars => Snapshots'
<1> SUFFICES ASSUME LimitInv, [Next]_vars PROVE Snapshots'
  OBVIOUS
<1>1. Snapshots /\ Calls
  BY DEF LimitInv, Inv
<1>2. CASE UNCHANGED <<listed, counted, killed>> /\ DirectoryOK'
  BY <1>1, <1>2 DEF Snapshots
<1>3. CASE UNCHANGED <<files, listed, counted, killed>>
  BY <1>1, <1>3 DEF Snapshots, DirectoryOK
<1>4. ASSUME NEW k \in Key, files' = Touched(k) PROVE DirectoryOK'
  BY <1>1, <1>4, TouchedOne DEF Snapshots, DirectoryOK
<1>empty. IsInjective(<<>>) /\ Bytes(Range(<<>>)) <= 0
  <2>1. Range(<<>>) = {} /\ IsInjective(<<>>)
    BY DEF Range, IsInjective
  <2>2. Bytes(Range(<<>>)) = 0
    BY <2>1, BytesNone, Zenon
  <2> QED
    BY <2>1, <2>2
<1>5. ASSUME NEW c \in Caller, Resolve(c) PROVE Snapshots'
  <2>1. ASSUME NEW k \in Key, Stat(c, k) PROVE Snapshots'
    BY <1>2, <1>3, <1>4, <2>1 DEF Stat, historyVars
  <2>2. CASE Join(c) \/ Lead(c) \/ Answered(c) \/ WaitCancelled(c)
    BY <1>3, <2>2 DEF Join, Lead, Answered, WaitCancelled, historyVars
  <2> QED
    BY <1>5, <2>1, <2>2 DEF Resolve
<1>6. ASSUME NEW c \in Caller, Download(c) PROVE Snapshots'
  <2>1. CASE FetchOk(c) \/ FetchFails(c) \/ FetchCancelled(c) \/ CloseDone(c) \/ Unregister(c)
    BY <1>3, <2>1 DEF FetchOk, FetchFails, FetchCancelled, CloseDone, Unregister, historyVars
  <2>2. CASE Rename(c)
    <3>1. key[c] \in Key
      BY <1>1 DEF Calls
    <3> QED
      BY <1>2, <1>4, <2>2, <3>1 DEF Rename, historyVars
  <2>3. CASE Scan(c)
    <3>1. Bytes(Files) \in Int /\ Bytes(Range(files)) <= Bytes(Files)
      BY <1>1, FilesType, BytesType DEF Snapshots, Files
    <3>2. UNCHANGED <<files, killed>> /\ counted' \in [Caller -> Int] /\ listed' \in [Caller -> Seq(Key)]
      BY <1>1, <2>3, <3>1 DEF Scan, historyVars, Snapshots, DirectoryOK
    <3>3. ASSUME NEW d \in Caller
          PROVE  IsInjective(listed'[d]) /\ Bytes(Range(listed'[d])) <= counted'[d]
      <4>1. CASE d = c
        <5>1. listed'[d] = files /\ counted'[d] = Bytes(Files)
          BY <1>1, <2>3, <4>1 DEF Scan, Snapshots
        <5> QED
          BY <1>1, <3>1, <5>1 DEF Snapshots, DirectoryOK
      <4>2. CASE d # c
        <5>1. listed'[d] = listed[d] /\ counted'[d] = counted[d]
          BY <1>1, <2>3, <4>2 DEF Scan, Snapshots
        <5> QED
          BY <1>1, <5>1 DEF Snapshots
      <4> QED
        BY <4>1, <4>2
    <3> QED
      BY <1>1, <3>2, <3>3 DEF Snapshots, DirectoryOK
  <2>4. CASE EvictOne(c)
    <3> DEFINE victim == Head(listed[c])
    <3>1. /\ listed[c] # <<>> /\ listed[c] \in Seq(Key) /\ IsInjective(listed[c])
          /\ listed' = [listed EXCEPT ![c] = Tail(@)] /\ killed' = killed
      BY <1>1, <2>4 DEF EvictOne, OverLimit, historyVars, Snapshots
    <3>2. /\ victim \in Key /\ Tail(listed[c]) \in Seq(Key) /\ IsInjective(Tail(listed[c]))
          /\ Range(Tail(listed[c])) = Range(listed[c]) \ {victim} /\ victim \in Range(listed[c])
      BY <3>1, HeadAndTail
    <3>3. Size[victim] \in Nat
      BY <3>2, MediaCacheAssumption
    <3>4. counted' = [counted EXCEPT ![c] = @ - Size[victim]] \/ counted' = counted
      BY <2>4 DEF EvictOne
    <3>5. files' = Without(victim) \/ files' = files
      BY <2>4 DEF EvictOne
    <3> HIDE DEF victim
    <3>6. listed' \in [Caller -> Seq(Key)] /\ counted' \in [Caller -> Int]
      BY <1>1, <3>1, <3>2, <3>3, <3>4 DEF Snapshots
    <3>7. DirectoryOK'
      BY <1>1, <3>2, <3>5, WithoutOne DEF Snapshots, DirectoryOK
    <3>8. ASSUME NEW d \in Caller
          PROVE  IsInjective(listed'[d]) /\ Bytes(Range(listed'[d])) <= counted'[d]
      <4>1. CASE d = c
        <5>1. listed'[d] = Tail(listed[c])
          BY <1>1, <3>1, <4>1 DEF Snapshots
        <5>2. counted'[d] = counted[c] \/ counted'[d] = counted[c] - Size[victim]
          BY <1>1, <3>4, <4>1 DEF Snapshots
        <5> DEFINE all  == Range(listed[c])
                   some == Range(Tail(listed[c]))
        <5>3. all \in SUBSET Key /\ some = all \ {victim} /\ victim \in all
          <6>1. all \in SUBSET Key
            BY <3>1 DEF Range
          <6> QED
            BY <3>2, <6>1
        <5>4. Bytes(all) <= counted[c] /\ counted[c] \in Int
          BY <1>1 DEF Snapshots
        <5> HIDE DEF all, some
        <5>5. some \in SUBSET Key /\ Bytes(all) = Bytes(some) + Size[victim]
          BY <5>3, BytesRemove
        <5>6. Bytes(all) \in Nat /\ Bytes(some) \in Nat
          BY <5>3, <5>5, BytesType
        <5>7. Bytes(some) <= counted'[d]
          BY <3>3, <5>2, <5>4, <5>5, <5>6
        <5> QED
          BY <3>2, <5>1, <5>7 DEF some
      <4>2. CASE d # c
        <5>1. listed'[d] = listed[d] /\ counted'[d] = counted[d]
          BY <1>1, <3>1, <3>4, <4>2 DEF Snapshots
        <5> QED
          BY <1>1, <5>1 DEF Snapshots
      <4> QED
        BY <4>1, <4>2
    <3> QED
      BY <1>1, <3>1, <3>6, <3>7, <3>8 DEF Snapshots
  <2>5. CASE EvictEnds(c)
    <3>1. \A d \in Caller : \/ listed'[d] = listed[d] /\ counted'[d] = counted[d]
                            \/ listed'[d] = <<>> /\ counted'[d] = 0
      BY <1>1, <2>5 DEF EvictEnds, Snapshots
    <3>2. /\ listed' \in [Caller -> Seq(Key)] /\ counted' \in [Caller -> Int]
          /\ files' = files /\ killed' = {}
      BY <1>1, <2>5 DEF EvictEnds, Snapshots
    <3> QED
      BY <1>1, <1>empty, <3>1, <3>2 DEF Snapshots, DirectoryOK
  <2> QED
    BY <1>6, <2>1, <2>2, <2>3, <2>4, <2>5 DEF Download
<1>7. ASSUME NEW c \in Caller, Done(c) \/ CancelCaller(c) PROVE Snapshots'
  BY <1>3, <1>7 DEF Done, CancelCaller, historyVars
<1>8. CASE Crash
  <2>1. /\ listed' = [d \in Caller |-> <<>>] /\ counted' = [d \in Caller |-> 0] /\ files' = files
        /\ killed' = killed \cup Objects(Evicting)
    BY <1>8 DEF Crash
  <2>2. Objects(Evicting) \in SUBSET Key
    BY <1>1, ObjectsType DEF Evicting
  <2> QED
    BY <1>1, <1>empty, <2>1, <2>2 DEF Snapshots, DirectoryOK
<1>9. CASE UNCHANGED vars
  BY <1>3, <1>9 DEF vars, callVars, historyVars
<1> QED
  BY <1>5, <1>6, <1>7, <1>8, <1>9 DEF Next

LEMMA LimitStep == LimitInv /\ [Next]_vars => LimitKept'
<1> SUFFICES ASSUME LimitInv, [Next]_vars PROVE LimitKept'
  OBVIOUS
<1>1. Snapshots /\ Calls
  BY DEF LimitInv, Inv
<1>2. ASSUME NEW c \in Caller, NEW to \in Places \ {"scan", "evict"}, at[c] \notin {"scan", "evict"},
             Goto(c, to), key' = key \/ \E k \in Key : key' = [key EXCEPT ![c] = k],
             Files' = Files, UNCHANGED <<listed, killed>>
      PROVE  LimitKept'
  <2>1. \A d \in Caller : at[d] \in {"scan", "evict"} \/ at'[d] \in {"scan", "evict"} =>
          at'[d] = at[d] /\ key'[d] = key[d]
    BY <1>1, <1>2 DEF Calls, Goto
  <2> QED
    BY <1>2, <2>1, QuietStep
<1>3. CASE UNCHANGED <<files, at, key, listed, killed>>
  <2>1. Files' = Files
    BY <1>3 DEF Files
  <2> QED
    BY <1>3, <2>1, QuietStep
<1>4. ASSUME NEW c \in Caller, Resolve(c) PROVE LimitKept'
  <2>1. ASSUME NEW k \in Key, Stat(c, k) PROVE LimitKept'
    <3>1. Files' = Files
      <4>1. CASE files' = files
        BY <4>1 DEF Files
      <4>2. CASE files' # files
        <5>1. OnDisk(k) /\ files' = Touched(k)
          BY <2>1, <4>2 DEF Stat
        <5>2. k \in Files
          BY <1>1, <5>1 DEF OnDisk, Files, Range, Snapshots, DirectoryOK
        <5>3. Range(Touched(k)) = Files \cup {k}
          BY <1>1, TouchedOne DEF Snapshots
        <5> QED
          BY <5>1, <5>2, <5>3 DEF Files
      <4> QED
        BY <4>1, <4>2
    <3>2. /\ at[c] = "idle" /\ key' = [key EXCEPT ![c] = k] /\ UNCHANGED <<listed, killed>>
          /\ Goto(c, "decode") \/ Goto(c, "lock")
      BY <2>1 DEF Stat, historyVars
    <3>3. "decode" \in Places \ {"scan", "evict"} /\ "lock" \in Places \ {"scan", "evict"}
      BY DEF Places
    <3> QED
      BY <1>2, <3>1, <3>2, <3>3
  <2>2. CASE Join(c) \/ Lead(c) \/ Answered(c) \/ WaitCancelled(c)
    <3>1. /\ at[c] \in {"lock", "wait"} /\ key' = key /\ UNCHANGED <<files, listed, killed>>
          /\ \E to \in {"wait", "fetch", "decode", "failed"} : Goto(c, to)
      BY <2>2 DEF Join, Lead, Answered, WaitCancelled, historyVars
    <3>2. Files' = Files
      BY <3>1 DEF Files
    <3> QED
      BY <1>2, <3>1, <3>2 DEF Places
  <2> QED
    BY <1>4, <2>1, <2>2 DEF Resolve
<1>5. ASSUME NEW c \in Caller, Download(c) PROVE LimitKept'
  <2>1. CASE FetchOk(c) \/ FetchFails(c) \/ FetchCancelled(c) \/ CloseDone(c) \/ Unregister(c)
    <3>1. /\ at[c] \in {"fetch", "publish", "unregister"} /\ key' = key
          /\ UNCHANGED <<files, listed, killed>>
          /\ at' = at \/ \E to \in {"rename", "publish", "unregister", "decode", "failed"} : Goto(c, to)
      BY <2>1 DEF FetchOk, FetchFails, FetchCancelled, CloseDone, Unregister, historyVars
    <3>2. Files' = Files
      BY <3>1 DEF Files
    <3> QED
      BY <1>2, <1>3, <3>1, <3>2 DEF Places
  <2> QED
    BY <1>5, <2>1, RenameStep, ScanStep, EvictOneStep, EvictEndsStep DEF Download
<1>6. ASSUME NEW c \in Caller, Done(c) PROVE LimitKept'
  <2>1. /\ at[c] \in {"decode", "failed"} /\ Goto(c, "idle") /\ key' = key
        /\ UNCHANGED <<files, listed, killed>>
    BY <1>6 DEF Done, historyVars
  <2>2. Files' = Files
    BY <2>1 DEF Files
  <2> QED
    BY <1>2, <2>1, <2>2 DEF Places
<1>7. ASSUME NEW c \in Caller, CancelCaller(c) PROVE LimitKept'
  BY <1>3, <1>7 DEF CancelCaller, historyVars
<1>8. CASE Crash
  BY <1>8, CrashStep
<1>9. CASE UNCHANGED vars
  BY <1>3, <1>9 DEF vars, callVars, historyVars
<1> QED
  BY <1>4, <1>5, <1>6, <1>7, <1>8, <1>9 DEF Next

LEMMA LimitNext == LimitInv /\ [Next]_vars => LimitInv'
BY NextInv, SnapshotsStep, LimitStep DEF LimitInv

LEMMA LimitBounds == LimitInv => BoundedByLeaders
<1> SUFFICES ASSUME LimitInv PROVE Bytes(Files \ (Objects(Evicting) \cup killed)) <= MaxBytes
  BY DEF BoundedByLeaders
<1>1. PICK fresh \in SUBSET Evicting : Bytes(Files \ (Objects(fresh) \cup killed)) <= MaxBytes
  BY DEF LimitInv, LimitKept, Bounded
<1> DEFINE all  == Files \ (Objects(fresh) \cup killed)
           some == Files \ (Objects(Evicting) \cup killed)
<1>2. all \in SUBSET Key /\ some \in SUBSET all
  BY FilesType DEF LimitInv, Snapshots, Objects
<1> HIDE DEF all, some
<1>3. Bytes(some) <= Bytes(all) /\ Bytes(some) \in Nat /\ Bytes(all) \in Nat
  BY <1>2, BytesMonotone, BytesType
<1>4. Bytes(some) <= MaxBytes
  BY <1>1, <1>3, MediaCacheAssumption DEF all
<1> QED
  BY <1>4 DEF some

\* The cache is within its limit but for the files of the leaders between their
\* rename and the end of their eviction, for every set of callers and any number
\* of kills: what an eviction ends with was counted by its own scan, but for the
\* files renamed after it, and those have scans of their own to come; a killed
\* leader has none, and its file counts until the next eviction ends (evict,
\* writeObject).
THEOREM BoundedByLeadersHolds == Spec => []BoundedByLeaders
<1>1. Spec => []LimitInv
  BY InitLimit, LimitNext, PTL DEF Spec
<1> QED
  BY <1>1, LimitBounds, PTL

=============================================================================
