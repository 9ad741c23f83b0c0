--------------------------- MODULE Requests_proofs ---------------------------
(***************************************************************************)
(* Proofs about Requests and Settings: for all settings a backend may      *)
(* send, any number of overlapping requests, and all bounds.               *)
(***************************************************************************)
EXTENDS Requests, TLAPS

(* What Normalize yields, and when its second application still changes it. *)

\* A normalised bit rate is left alone.
LEMMA BitrateStable ==
  ASSUME NEW kbps \in Int
  PROVE  /\ NormalizeBitrate(kbps) \in 64..320
         /\ NormalizeBitrate(NormalizeBitrate(kbps)) = NormalizeBitrate(kbps)
<1>1. NormalizeBitrate(kbps) \in 64..320
  BY DEF NormalizeBitrate, Clamp, Positive
<1>2. ASSUME NEW n \in 64..320 PROVE NormalizeBitrate(n) = n
  BY DEF NormalizeBitrate, Clamp, Positive
<1> QED
  BY <1>1, <1>2

\* The transitions that Normalize leaves alone, those a track may have: see
\* Playback's Kinds and Transitions.
NormalTransition ==
  {[type |-> "cut", duration |-> 0]} \cup
  [type : {"fade", "crossfade"}, duration : 1..300]

\* A duration within the limits is left alone.
LEMMA DurationKept ==
  ASSUME NEW d \in 1..300
  PROVE  Clamp(Positive(d, 15), 1, 300) = d
<1>1. d \in Int /\ 1 <= d /\ d <= 300
  OBVIOUS
<1>2. Positive(d, 15) = d
  BY <1>1 DEF Positive
<1>3. Clamp(d, 1, 300) = d
  BY <1>1 DEF Clamp
<1> QED
  BY <1>2, <1>3

LEMMA CutIsTransition == [type |-> "cut", duration |-> 0] \in Transition
BY DEF Transition, TransitionTypes

LEMMA TransitionStable ==
  ASSUME NEW t \in Transition, NEW fallback \in Transition
  PROVE  /\ NormalizeTransition(t, fallback) \in NormalTransition
         /\ \A n \in NormalTransition, f \in Transition :
              n \in Transition /\ NormalizeTransition(n, f) = n
<1>1. ASSUME NEW u \in Transition, u.type \in {"fade", "crossfade"}
      PROVE  [u EXCEPT !.duration = Clamp(Positive(@, 15), 1, 300)] \in NormalTransition
  <2>1. u.duration \in Int
    BY DEF Transition
  <2>2. Clamp(Positive(u.duration, 15), 1, 300) \in 1..300
    BY <2>1 DEF Clamp, Positive
  <2>3. [u EXCEPT !.duration = Clamp(Positive(@, 15), 1, 300)]
          \in [type : {"fade", "crossfade"}, duration : 1..300]
    BY <1>1, <2>2 DEF Transition
  <2> QED
    BY <2>3 DEF NormalTransition
<1>2. NormalizeTransition(t, fallback) \in NormalTransition
  <2> DEFINE u == IF t.type = "" THEN fallback ELSE t
  <2>1. u \in Transition
    OBVIOUS
  <2>2. CASE u.type \in {"fade", "crossfade"}
    <3>1. NormalizeTransition(t, fallback) = [u EXCEPT !.duration = Clamp(Positive(@, 15), 1, 300)]
      BY <2>2 DEF NormalizeTransition
    <3> HIDE DEF u
    <3> QED
      BY <1>1, <2>1, <2>2, <3>1, ZenonT(30)
  <2>3. CASE u.type \notin {"fade", "crossfade"}
    BY <2>3 DEF NormalizeTransition, NormalTransition
  <2> QED
    BY <2>2, <2>3
<1>3. ASSUME NEW n \in NormalTransition, NEW f \in Transition
      PROVE  n \in Transition /\ NormalizeTransition(n, f) = n
  <2>1. CASE n = [type |-> "cut", duration |-> 0]
    <3>1. n \in Transition
      BY <2>1, CutIsTransition
    <3>2. NormalizeTransition(n, f) = n
      BY <2>1 DEF NormalizeTransition
    <3> QED
      BY <3>1, <3>2
  <2>2. CASE n \in [type : {"fade", "crossfade"}, duration : 1..300]
    <3>1. n.type \in {"fade", "crossfade"} /\ n.type # ""
      BY <2>2
    <3>0. n.duration \in 1..300
      BY <2>2
    <3>2. Clamp(Positive(n.duration, 15), 1, 300) = n.duration
      BY <3>0, DurationKept, Zenon
    <3>3. [n EXCEPT !.duration = n.duration] = n
      BY <2>2
    <3>4. n \in Transition
      <4>1. {"fade", "crossfade"} \subseteq TransitionTypes /\ 1..300 \subseteq Int
        BY DEF TransitionTypes
      <4> QED
        BY <2>2, <4>1 DEF Transition
    <3> QED
      BY <3>1, <3>2, <3>3, <3>4 DEF NormalizeTransition
  <2> QED
    BY <2>1, <2>2 DEF NormalTransition
<1> QED
  BY <1>2, <1>3

\* A gain that was normalised is left alone.
LEMMA GainStable ==
  ASSUME NEW db \in Int
  PROVE  Gain(db) \in Int /\ Gain(Gain(db)) = Gain(db)
<1>1. Gain(db) \in -60..12
  BY DEF Gain, Clamp
<1> QED
  BY <1>1 DEF Gain, Clamp

(* The limiter is what one application does not settle: above 0 dB it       *)
(* becomes 0, which the next one takes for an absent limiter.               *)
LimiterOnce(db) == Clamp(IF db = 0 THEN -1 ELSE db, -20, 0)

LEMMA LimiterStable ==
  ASSUME NEW db \in Int
  PROVE  /\ LimiterOnce(db) \in Int
         /\ LimiterOnce(LimiterOnce(LimiterOnce(db))) = LimiterOnce(LimiterOnce(db))
BY DEF LimiterOnce, Clamp

HighCut(high, low) == IF high <= low THEN 350 ELSE high

LEMMA HighCutStable ==
  ASSUME NEW high \in Int, NEW low \in Int
  PROVE  HighCut(high, low) \in Int /\ HighCut(HighCut(high, low), low) = HighCut(high, low)
BY DEF HighCut

\* NormalizeProfile, field by field.
LEMMA ProfileFields ==
  ASSUME NEW p \in Profile
  PROVE  NormalizeProfile(p) =
           [music |-> Gain(p.music), speech |-> Gain(p.speech),
            low |-> Gain(p.low), mid |-> Gain(p.mid), high |-> Gain(p.high),
            attack |-> Positive(p.attack, 18), release |-> Positive(p.release, 45),
            lowCut |-> Positive(p.lowCut, 25),
            highCut |-> HighCut(p.highCut, Positive(p.lowCut, 25)),
            limiter |-> LimiterOnce(p.limiter)]
BY DEF NormalizeProfile, HighCut, LimiterOnce

LEMMA ProfileTyped ==
  ASSUME NEW p \in Profile
  PROVE  NormalizeProfile(p) \in Profile
<1>1. /\ p.music \in Int /\ p.speech \in Int /\ p.low \in Int /\ p.mid \in Int /\ p.high \in Int
      /\ p.attack \in Int /\ p.release \in Int /\ p.lowCut \in Int /\ p.highCut \in Int
      /\ p.limiter \in Int
  BY DEF Profile
<1>2. /\ Gain(p.music) \in Int /\ Gain(p.speech) \in Int
      /\ Gain(p.low) \in Int /\ Gain(p.mid) \in Int /\ Gain(p.high) \in Int
  BY <1>1, GainStable
<1>3. Positive(p.attack, 18) \in Int /\ Positive(p.release, 45) \in Int
      /\ Positive(p.lowCut, 25) \in Int
  BY <1>1 DEF Positive
<1>4. HighCut(p.highCut, Positive(p.lowCut, 25)) \in Int /\ LimiterOnce(p.limiter) \in Int
  BY <1>1, <1>3, HighCutStable, LimiterStable
<1> QED
  BY <1>2, <1>3, <1>4, ProfileFields DEF Profile

\* The second application settles a profile.
LEMMA ProfileStable ==
  ASSUME NEW p \in Profile
  PROVE  NormalizeProfile(NormalizeProfile(NormalizeProfile(p)))
           = NormalizeProfile(NormalizeProfile(p))
<1> DEFINE q == NormalizeProfile(p)
           r == NormalizeProfile(q)
<1>1. q \in Profile /\ r \in Profile
  BY ProfileTyped
<1>2. /\ p.music \in Int /\ p.speech \in Int /\ p.low \in Int /\ p.mid \in Int /\ p.high \in Int
      /\ p.attack \in Int /\ p.release \in Int /\ p.lowCut \in Int /\ p.highCut \in Int
      /\ p.limiter \in Int
  BY DEF Profile
<1>3. /\ q.music = Gain(p.music) /\ q.speech = Gain(p.speech)
      /\ q.low = Gain(p.low) /\ q.mid = Gain(p.mid) /\ q.high = Gain(p.high)
      /\ q.attack = Positive(p.attack, 18) /\ q.release = Positive(p.release, 45)
      /\ q.lowCut = Positive(p.lowCut, 25)
      /\ q.highCut = HighCut(p.highCut, q.lowCut)
      /\ q.limiter = LimiterOnce(p.limiter)
  BY ProfileFields
<1>4. /\ Gain(q.music) = q.music /\ Gain(q.speech) = q.speech
      /\ Gain(q.low) = q.low /\ Gain(q.mid) = q.mid /\ Gain(q.high) = q.high
  BY <1>2, <1>3, GainStable
<1>5. /\ Positive(q.attack, 18) = q.attack /\ Positive(q.release, 45) = q.release
      /\ Positive(q.lowCut, 25) = q.lowCut
  BY <1>2, <1>3 DEF Positive
<1>6. q.lowCut \in Int /\ HighCut(q.highCut, q.lowCut) = q.highCut
  BY <1>2, <1>3 DEF HighCut, Positive
<1>7. LimiterOnce(LimiterOnce(q.limiter)) = LimiterOnce(q.limiter)
  BY <1>2, <1>3, LimiterStable
<1>8. r = [q EXCEPT !.limiter = LimiterOnce(q.limiter)]
  BY <1>1, <1>4, <1>5, <1>6, ProfileFields DEF Profile
<1>9. r.limiter = LimiterOnce(q.limiter)
  BY <1>1, <1>8 DEF Profile
<1>10. /\ r.music = q.music /\ r.speech = q.speech
       /\ r.low = q.low /\ r.mid = q.mid /\ r.high = q.high
       /\ r.attack = q.attack /\ r.release = q.release
       /\ r.lowCut = q.lowCut /\ r.highCut = q.highCut
  BY <1>1, <1>8 DEF Profile
<1>11. NormalizeProfile(r) = [r EXCEPT !.limiter = LimiterOnce(r.limiter)]
  BY <1>1, <1>4, <1>5, <1>6, <1>10, ProfileFields DEF Profile
<1>12. LimiterOnce(r.limiter) = r.limiter
  BY <1>7, <1>9
<1> QED
  BY <1>1, <1>11, <1>12 DEF Profile

LEMMA ConfigTyped ==
  ASSUME NEW c \in Config
  PROVE  /\ Normalize(c) \in Config
         /\ Normalize(c).transition \in NormalTransition
         /\ Normalize(c).bitrate = NormalizeBitrate(c.bitrate)
         /\ Normalize(c).profile = NormalizeProfile(c.profile)
<1>1. DefaultTransition \in Transition
  BY DEF DefaultTransition, Transition, TransitionTypes
<1>2. c.bitrate \in Int /\ c.transition \in Transition /\ c.profile \in Profile
  BY DEF Config
<1>3. NormalizeBitrate(c.bitrate) \in Int
  BY <1>2, BitrateStable
<1>4. NormalizeTransition(c.transition, DefaultTransition) \in NormalTransition
  BY <1>1, <1>2, TransitionStable
<1>5. NormalizeTransition(c.transition, DefaultTransition) \in Transition
  BY <1>1, <1>2, <1>4, TransitionStable
<1>6. NormalizeProfile(c.profile) \in Profile
  BY <1>2, ProfileTyped
<1> QED
  BY <1>3, <1>4, <1>5, <1>6 DEF Normalize, Config

(* For all settings whatever: what a station stores - normalised twice, by  *)
(* stationConfig and by New or UpdateConfig - is what it would store again. *)
THEOREM StoredIsStable ==
  ASSUME NEW c \in Config
  PROVE  Stored(c) \in Config /\ Stored(Stored(c)) = Stored(c)
<1> DEFINE d == Normalize(c)
           e == Normalize(d)
           f == Normalize(e)
<1>1. d \in Config /\ e \in Config /\ f \in Config
  BY ConfigTyped
<1>2. e.bitrate = NormalizeBitrate(d.bitrate) /\ d.bitrate = NormalizeBitrate(c.bitrate)
      /\ f.bitrate = NormalizeBitrate(e.bitrate)
  BY <1>1, ConfigTyped
<1>3. f.bitrate = e.bitrate
  BY <1>1, <1>2, BitrateStable DEF Config
<1>4. e.profile = NormalizeProfile(d.profile) /\ d.profile = NormalizeProfile(c.profile)
      /\ f.profile = NormalizeProfile(e.profile)
  BY <1>1, ConfigTyped
<1>5. f.profile = e.profile
  BY <1>4, ProfileStable DEF Config
<1>6. DefaultTransition \in Transition
  BY DEF DefaultTransition, Transition, TransitionTypes
<1>7. e.transition \in NormalTransition
  BY <1>1, ConfigTyped
<1>8. f.transition = NormalizeTransition(e.transition, DefaultTransition)
  BY DEF Normalize
<1>9. f.transition = e.transition
  BY <1>6, <1>7, <1>8, TransitionStable
<1>10. f = e
  BY <1>1, <1>3, <1>5, <1>9 DEF Config
<1>11. Stored(c) = e /\ Stored(Stored(c)) = Normalize(f)
  BY DEF Stored
<1> QED
  BY <1>1, <1>10, <1>11

-----------------------------------------------------------------------------
(* The handlers.                                                           *)

Request == [op : {"put"}, settings : SentSettings] \cup [op : {"queue"}, revision : Nat]
             \cup [op : {"get", "delete", "none"}]

Types ==
  /\ station \in Life \cup {None} /\ lives \in Nat /\ (lives = 0 \/ lives \in Life)
  /\ config \in [Life -> Config \cup {None}] /\ revision \in [Life -> Nat]
  /\ at \in [Handler -> {"idle", "sent", "apply", "reply"}]
  /\ request \in [Handler -> Request]
  /\ target \in [Handler -> Life \cup {None}] /\ code \in [Handler -> Nat]
  /\ latest \in Nat \X Nat /\ seenBefore \in [Handler -> Nat \X Nat]
  /\ want \in Nat

\* The station in the map is the newest life, and no answer was ahead of it.
NewestLife ==
  /\ station # None => station = lives
  /\ latest[1] <= lives
  /\ latest[1] # 0 => latest[2] <= revision[latest[1]]

\* A handler that has found a station reports at least what it was told before.
Found(h) ==
  at[h] = "apply" \/ ReportsState(h) =>
    /\ target[h] \in Life /\ target[h] <= lives
    /\ NewerEq(Reported(h), seenBefore[h])

Inv ==
  /\ Types /\ NewestLife
  /\ \A h \in Handler : Found(h)
  /\ SettingsStable

LEMMA LifeIsNat ==
  /\ None \notin Life
  /\ \A l \in Life : l \in Nat /\ l > 0
BY RequestsAssumption DEF Life

LEMMA InitInv == Init => Inv
<1> SUFFICES ASSUME Init PROVE Inv
  OBVIOUS
<1>1. Types
  BY DEF Init, Types, Request, Nothing
<1>2. NewestLife
  BY DEF Init, NewestLife
<1>3. \A h \in Handler : Found(h)
  BY DEF Init, Found, ReportsState
<1>4. SettingsStable
  BY DEF Init, SettingsStable
<1> QED
  BY <1>1, <1>2, <1>3, <1>4 DEF Inv

\* A handler that did not move is still as new as it was: lives and revisions
\* only grow.
LEMMA FoundKept ==
  ASSUME Types, Types', NEW g \in Handler, Found(g), lives <= lives',
         \A l \in Life : revision[l] <= revision'[l],
         at'[g] = at[g], target'[g] = target[g], code'[g] = code[g],
         seenBefore'[g] = seenBefore[g]
  PROVE  Found(g)'
<1> SUFFICES ASSUME at[g] = "apply" \/ ReportsState(g)
             PROVE  /\ target[g] \in Life /\ target[g] <= lives'
                    /\ NewerEq(Reported(g), seenBefore[g])'
  BY DEF Found, ReportsState
<1>1. target[g] \in Life /\ target[g] <= lives /\ NewerEq(Reported(g), seenBefore[g])
  BY DEF Found
<1>2. revision[target[g]] \in Nat /\ revision'[target[g]] \in Nat
      /\ revision[target[g]] <= revision'[target[g]]
  BY <1>1 DEF Types
<1>3. seenBefore[g][1] \in Nat /\ seenBefore[g][2] \in Nat /\ target[g] \in Nat
  BY <1>1, LifeIsNat DEF Types
<1>4. target[g] > seenBefore[g][1] \/
        (target[g] = seenBefore[g][1] /\ revision[target[g]] >= seenBefore[g][2])
  BY <1>1 DEF NewerEq, Reported
<1>5. target[g] > seenBefore[g][1] \/
        (target[g] = seenBefore[g][1] /\ revision'[target[g]] >= seenBefore[g][2])
  BY <1>2, <1>3, <1>4
<1>6. NewerEq(Reported(g), seenBefore[g])'
  BY <1>5 DEF NewerEq, Reported
<1>7. target[g] <= lives'
  BY <1>1, <1>3 DEF Types
<1> QED
  BY <1>1, <1>6, <1>7

\* What an answer about the newest life reports is as new as any answer.
LEMMA NewestIsNew ==
  ASSUME Types, NewestLife, station # None
  PROVE  station \in Life /\ station = lives /\ NewerEq(<<station, revision[station]>>, latest)
<1>1. station \in Life /\ station = lives /\ station \in Nat /\ station > 0
  BY LifeIsNat DEF Types, NewestLife
<1>2. latest[1] \in Nat /\ latest[2] \in Nat /\ revision[station] \in Nat
  BY <1>1 DEF Types
<1> QED
  BY <1>1, <1>2 DEF NewerEq, NewestLife

\* A step of handler h: the others stay, and h itself is where Goto puts it.
LEMMA HandlerStep ==
  ASSUME Inv, Types', NEW h \in Handler, NEW place, NEW life, NEW status,
         Goto(h, place, life, status), lives <= lives',
         \A l \in Life : revision[l] <= revision'[l],
         \A g \in Handler \ {h} : seenBefore'[g] = seenBefore[g],
         Found(h)'
  PROVE  \A g \in Handler : Found(g)'
<1> SUFFICES ASSUME NEW g \in Handler, g # h PROVE Found(g)'
  OBVIOUS
<1>1. at'[g] = at[g] /\ target'[g] = target[g] /\ code'[g] = code[g]
  BY DEF Inv, Types, Goto
<1> QED
  BY <1>1, FoundKept DEF Inv

\* A handler that answers without the state, or has not been looked up.
LEMMA NotReporting ==
  ASSUME Types, NEW h \in Handler, NEW place, NEW life, NEW status, Goto(h, place, life, status),
         place # "apply", place = "reply" => status \notin {200, 201}
  PROVE  Found(h)'
BY DEF Found, ReportsState, Goto, Types

\* Where Goto puts h.
LEMMA GotoTo ==
  ASSUME Types, NEW h \in Handler, NEW place, NEW life, NEW status, Goto(h, place, life, status)
  PROVE  at'[h] = place /\ target'[h] = life /\ code'[h] = status
BY DEF Goto, Types

LEMMA CreateStep == ASSUME Inv, NEW h \in Handler, Create(h) PROVE Inv'
<1> DEFINE n == lives + 1
           c == request[h].settings
<1>1. n \in Life /\ Arrives(h, "put") /\ Goto(h, "reply", n, 201)
      /\ lives' = n /\ station' = n /\ revision' = revision
      /\ config' = [config EXCEPT ![n] = Stored(c)]
  BY DEF Create
<1>2. request[h] \in Request /\ request[h].op = "put"
  BY <1>1 DEF Inv, Types, Arrives
<1>3. c \in Config
  BY <1>2, RequestsAssumption DEF Request
<1>4. Stored(c) \in Config /\ Stored(Stored(c)) = Stored(c)
  BY <1>3, StoredIsStable
<1>5. seenBefore' = [seenBefore EXCEPT ![h] = latest]
  BY <1>1 DEF Arrives
<1>6. Types'
  BY <1>1, <1>4, <1>5, LifeIsNat DEF Inv, Types, Goto, backendVars
<1>7. NewestLife'
  BY <1>1, LifeIsNat DEF Inv, Types, NewestLife, Goto
<1>8. Found(h)'
  <2>1. target'[h] = n /\ seenBefore'[h] = latest /\ n \in Nat
    BY <1>1, <1>5, GotoTo, LifeIsNat DEF Inv, Types
  <2>2. n > latest[1]
    BY <1>1 DEF Inv, Types, NewestLife
  <2> QED
    BY <1>1, <2>1, <2>2 DEF Found, NewerEq, Reported
<1>9. \A g \in Handler : Found(g)'
  <2>1. \A g \in Handler \ {h} : seenBefore'[g] = seenBefore[g]
    BY <1>5 DEF Inv, Types
  <2>2. lives <= lives' /\ \A l \in Life : revision[l] <= revision'[l]
    BY <1>1 DEF Inv, Types
  <2> QED
    BY <1>1, <1>6, <1>8, <2>1, <2>2, HandlerStep
<1>10. SettingsStable'
  BY <1>1, <1>4 DEF Inv, Types, SettingsStable
<1> QED
  BY <1>6, <1>7, <1>9, <1>10 DEF Inv

\* A handler that looks the station up, or finds none: it has seen what was
\* answered before.
LEMMA ArrivalStep ==
  ASSUME Inv, NEW h \in Handler, LookUp(h) \/ LookUpToRead(h) \/ NotFound(h) \/ Delete(h)
  PROVE  Inv'
<1>1. /\ UNCHANGED <<lives, config, revision, latest, want>>
      /\ seenBefore' = [seenBefore EXCEPT ![h] = latest]
      /\ station' \in {station, None}
  BY DEF LookUp, LookUpToRead, NotFound, Delete, Arrives, Goto, engineVars, backendVars
<1>2. PICK place \in {"apply", "reply"}, life \in {station, None}, status \in Nat :
        /\ Goto(h, place, life, status)
        /\ place = "apply" \/ status \in {200, 201} => station # None /\ life = station
  BY DEF LookUp, LookUpToRead, NotFound, Delete
<1>3. Types'
  BY <1>1, <1>2 DEF Inv, Types, Goto
<1>4. NewestLife'
  BY <1>1 DEF Inv, NewestLife
<1>5. Found(h)'
  <2>1. at'[h] = place /\ target'[h] = life /\ code'[h] = status /\ seenBefore'[h] = latest
    BY <1>1, <1>2, GotoTo DEF Inv, Types
  <2>2. CASE place = "apply" \/ status \in {200, 201}
    <3>1. station # None /\ life = station
      BY <1>2, <2>2
    <3>2. station \in Life /\ station = lives /\ NewerEq(<<station, revision[station]>>, latest)
      BY <3>1, NewestIsNew DEF Inv
    <3>3. lives' = lives /\ revision' = revision /\ lives \in Nat
      BY <1>1 DEF Inv, Types
    <3> QED
      BY <2>1, <3>1, <3>2, <3>3 DEF Found, Reported, NewerEq
  <2>3. CASE ~(place = "apply" \/ status \in {200, 201})
    BY <2>1, <2>3 DEF Found, ReportsState
  <2> QED
    BY <2>2, <2>3
<1>6. \A g \in Handler : Found(g)'
  <2>1. \A g \in Handler \ {h} : seenBefore'[g] = seenBefore[g]
    BY <1>1 DEF Inv, Types
  <2>2. lives <= lives' /\ \A l \in Life : revision[l] <= revision'[l]
    BY <1>1 DEF Inv, Types
  <2> QED
    BY <1>2, <1>3, <1>5, <2>1, <2>2, HandlerStep
<1>7. SettingsStable'
  BY <1>1 DEF Inv, SettingsStable
<1> QED
  BY <1>3, <1>4, <1>6, <1>7 DEF Inv

\* A handler at "apply" works on the life it found, whatever was deleted since.
LEMMA Applies ==
  ASSUME Inv, NEW h \in Handler, at[h] = "apply"
  PROVE  /\ target[h] \in Life /\ target[h] <= lives
         /\ revision[target[h]] \in Nat
         /\ seenBefore[h][1] \in Nat /\ seenBefore[h][2] \in Nat
         /\ NewerEq(Reported(h), seenBefore[h])
BY DEF Inv, Found, Types

LEMMA UpdateStep == ASSUME Inv, NEW h \in Handler, Update(h) PROVE Inv'
<1> DEFINE c == request[h].settings
           l == target[h]
<1>1. /\ at[h] = "apply" /\ request[h].op = "put" /\ Goto(h, "reply", l, 200)
      /\ config' = [config EXCEPT ![l] = Stored(c)]
      /\ UNCHANGED <<station, lives, revision, seenBefore>>
  BY DEF Update
<1>2. request[h] \in Request
  BY DEF Inv, Types
<1>3. c \in Config
  BY <1>1, <1>2, RequestsAssumption DEF Request
<1>4. Stored(c) \in Config /\ Stored(Stored(c)) = Stored(c)
  BY <1>3, StoredIsStable
<1>5. l \in Life
  BY <1>1, Applies
<1>6. Types'
  BY <1>1, <1>4, <1>5 DEF Inv, Types, Goto, backendVars
<1>7. NewestLife'
  BY <1>1 DEF Inv, NewestLife, Goto
<1>8. Found(h)'
  <2>1. target'[h] = l
    BY <1>1, GotoTo DEF Inv
  <2> QED
    BY <1>1, <2>1, Applies DEF Found, Reported, NewerEq
<1>9. \A g \in Handler : Found(g)'
  <2>1. lives <= lives' /\ \A k \in Life : revision[k] <= revision'[k]
    BY <1>1 DEF Inv, Types
  <2> QED
    BY <1>1, <1>6, <1>8, <2>1, HandlerStep
<1>10. SettingsStable'
  BY <1>1, <1>4, <1>5 DEF Inv, Types, SettingsStable
<1> QED
  BY <1>6, <1>7, <1>9, <1>10 DEF Inv

LEMMA ReplaceStep == ASSUME Inv, NEW h \in Handler, Replace(h) PROVE Inv'
<1> DEFINE r == request[h].revision
           l == target[h]
<1>1. /\ at[h] = "apply" /\ request[h].op = "queue"
      /\ UNCHANGED <<station, lives, config, seenBefore>>
  BY DEF Replace
<1>2. request[h] \in Request
  BY DEF Inv, Types
<1>3. r \in Nat
  BY <1>1, <1>2 DEF Request
<1>4. /\ l \in Life /\ l <= lives /\ revision[l] \in Nat
      /\ seenBefore[h][1] \in Nat /\ seenBefore[h][2] \in Nat
      /\ NewerEq(Reported(h), seenBefore[h])
  BY <1>1, Applies
<1>5. CASE IsNew(h) /\ revision' = [revision EXCEPT ![l] = r] /\ Goto(h, "reply", l, 200)
  <2>1. \A k \in Life : revision[k] <= revision'[k] /\ revision'[l] = r /\ r > revision[l]
    BY <1>3, <1>4, <1>5 DEF Inv, Types, IsNew
  <2>2. Types'
    BY <1>1, <1>3, <1>4, <1>5 DEF Inv, Types, Goto, backendVars
  <2>3. latest' = latest /\ lives' = lives /\ latest[1] \in Nat /\ latest[2] \in Nat
    BY <1>1, <1>5 DEF Inv, Types, Goto
  <2>4. latest[1] # 0 => latest[1] \in Life
    <3>1. latest[1] <= lives /\ lives \in Nat /\ lives <= 1 + MaxDeletes + MaxRestarts
      BY <1>4, RequestsAssumption DEF Inv, Types, NewestLife, Life
    <3> QED
      BY <2>3, <3>1, RequestsAssumption DEF Life
  <2>5. latest[1] # 0 => latest[2] <= revision'[latest[1]]
    BY <2>1, <2>2, <2>3, <2>4 DEF Inv, Types, NewestLife
  <2>6. NewestLife'
    BY <1>1, <2>3, <2>5 DEF Inv, NewestLife
  <2>7. Found(h)'
    <3>1. target'[h] = l /\ seenBefore'[h] = seenBefore[h]
      BY <1>1, <1>5, GotoTo DEF Inv
    <3>2. l > seenBefore[h][1] \/ (l = seenBefore[h][1] /\ revision[l] >= seenBefore[h][2])
      BY <1>4 DEF NewerEq, Reported
    <3>3. l > seenBefore[h][1] \/ (l = seenBefore[h][1] /\ revision'[l] >= seenBefore[h][2])
      BY <1>3, <1>4, <2>1, <3>2
    <3> QED
      BY <1>4, <2>3, <3>1, <3>3 DEF Found, Reported, NewerEq
  <2>8. \A g \in Handler : Found(g)'
    <3>1. lives <= lives'
      BY <2>3 DEF Inv, Types
    <3> QED
      BY <1>1, <1>5, <2>1, <2>2, <2>7, <3>1, HandlerStep
  <2>9. SettingsStable'
    BY <1>1 DEF Inv, SettingsStable
  <2> QED
    BY <2>2, <2>6, <2>8, <2>9 DEF Inv
<1>6. CASE Goto(h, "reply", l, 409) /\ UNCHANGED revision
  <2>1. Types'
    BY <1>1, <1>4, <1>6 DEF Inv, Types, Goto, backendVars
  <2>2. NewestLife'
    BY <1>1, <1>6 DEF Inv, NewestLife, Goto
  <2>3. Found(h)'
    BY <1>6, NotReporting DEF Inv
  <2>4. \A g \in Handler : Found(g)'
    <3>1. lives <= lives' /\ \A k \in Life : revision[k] <= revision'[k]
      BY <1>1, <1>6 DEF Inv, Types
    <3> QED
      BY <1>1, <1>6, <2>1, <2>3, <3>1, HandlerStep
  <2>5. SettingsStable'
    BY <1>1 DEF Inv, SettingsStable
  <2> QED
    BY <2>1, <2>2, <2>4, <2>5 DEF Inv
<1> QED
  BY <1>5, <1>6 DEF Replace

LEMMA ReplyStep == ASSUME Inv, NEW h \in Handler, Reply(h) PROVE Inv'
<1>1. /\ at' = [at EXCEPT ![h] = "idle"] /\ request' = [request EXCEPT ![h] = Nothing]
      /\ target' = [target EXCEPT ![h] = None] /\ code' = [code EXCEPT ![h] = 0]
      /\ seenBefore' = [seenBefore EXCEPT ![h] = <<0, 0>>]
      /\ UNCHANGED <<station, lives, config, revision, want>>
  BY DEF Reply, engineVars
<1>2. latest' = latest \/ (ReportsState(h) /\ latest' = Reported(h))
  BY DEF Reply
<1>3. ReportsState(h) => /\ target[h] \in Life /\ target[h] <= lives /\ target[h] \in Nat
                         /\ revision[target[h]] \in Nat
  BY LifeIsNat DEF Inv, Found, Types
<1>4. latest' \in Nat \X Nat
  BY <1>2, <1>3 DEF Inv, Types, Reported
<1>5. Types'
  BY <1>1, <1>4 DEF Inv, Types, Request, Nothing
<1>6. NewestLife'
  BY <1>1, <1>2, <1>3 DEF Inv, NewestLife, Reported
<1>7. ASSUME NEW g \in Handler PROVE Found(g)'
  <2>1. CASE g = h
    BY <1>1, <2>1 DEF Inv, Types, Found, ReportsState
  <2>2. CASE g # h
    <3>1. at'[g] = at[g] /\ target'[g] = target[g] /\ code'[g] = code[g]
          /\ seenBefore'[g] = seenBefore[g]
      BY <1>1, <2>2 DEF Inv, Types
    <3>2. lives <= lives' /\ \A l \in Life : revision[l] <= revision'[l]
      BY <1>1 DEF Inv, Types
    <3> QED
      BY <1>5, <3>1, <3>2, FoundKept DEF Inv
  <2> QED
    BY <2>1, <2>2
<1>8. SettingsStable'
  BY <1>1 DEF Inv, SettingsStable
<1> QED
  BY <1>5, <1>6, <1>7, <1>8 DEF Inv

\* The engine that was restarted has forgotten every handler that had begun.
LEMMA RestartStep == Inv /\ Restart => Inv'
<1> SUFFICES ASSUME Inv, Restart PROVE Inv'
  OBVIOUS
<1> DEFINE dead == {h \in Handler : at[h] \in {"apply", "reply"}}
<1>1. /\ station' = None
      /\ at' = [h \in Handler |-> IF h \in dead THEN "idle" ELSE at[h]]
      /\ request' = [h \in Handler |-> IF h \in dead THEN Nothing ELSE request[h]]
      /\ target' = [h \in Handler |-> None] /\ code' = [h \in Handler |-> 0]
      /\ seenBefore' = [h \in Handler |-> <<0, 0>>]
      /\ UNCHANGED <<lives, config, revision, latest, want>>
  BY DEF Restart
<1>2. Types'
  BY <1>1 DEF Inv, Types, Request, Nothing
<1>3. NewestLife'
  BY <1>1 DEF Inv, NewestLife
<1>4. \A h \in Handler : Found(h)'
  BY <1>1 DEF Inv, Types, Found, ReportsState
<1>5. SettingsStable'
  BY <1>1 DEF Inv, SettingsStable
<1> QED
  BY <1>2, <1>3, <1>4, <1>5 DEF Inv

\* The backend sends requests, gives answers up and has new queues.
LEMMA BackendStep == Inv /\ Backend => Inv'
<1> SUFFICES ASSUME Inv, Backend PROVE Inv'
  OBVIOUS
<1>1. ASSUME NEW h \in Handler, NEW req \in Request, Send(h, req) PROVE Inv'
  <2>1. /\ at' = [at EXCEPT ![h] = "sent"] /\ request' = [request EXCEPT ![h] = req]
        /\ UNCHANGED <<station, lives, config, revision, target, code, latest, seenBefore, want>>
    BY <1>1 DEF Send, engineVars, historyVars
  <2>2. Types'
    BY <2>1 DEF Inv, Types
  <2>3. NewestLife' /\ SettingsStable'
    BY <2>1 DEF Inv, NewestLife, SettingsStable
  <2>4. \A g \in Handler : Found(g)'
    <3>1. Found(h)'
      BY <2>1 DEF Inv, Types, Found, ReportsState
    <3>2. ASSUME NEW g \in Handler, g # h PROVE Found(g)'
      <4>1. \A l \in Life : revision[l] <= revision'[l]
        BY <2>1 DEF Inv, Types
      <4>2. at'[g] = at[g] /\ lives <= lives'
        BY <2>1, <3>2 DEF Inv, Types
      <4> QED
        BY <2>1, <2>2, <4>1, <4>2, FoundKept DEF Inv
    <3> QED
      BY <3>1, <3>2
  <2> QED
    BY <2>2, <2>3, <2>4 DEF Inv
<1>2. ASSUME NEW h \in Handler, Ask(h) \/ AskDelete(h) PROVE Inv'
  <2>1. \E req \in Request : Send(h, req)
    <3>1. \A c \in SentSettings : [op |-> "put", settings |-> c] \in Request
      BY DEF Request
    <3>2. [op |-> "queue", revision |-> want] \in Request
      BY DEF Request, Inv, Types
    <3>3. [op |-> "get"] \in Request /\ [op |-> "delete"] \in Request
      BY DEF Request
    <3> QED
      BY <1>2, <3>1, <3>2, <3>3 DEF Ask, AskDelete
  <2> QED
    BY <1>1, <2>1
<1>3. CASE GiveUp
  BY <1>3 DEF GiveUp, engineVars, handlerVars, historyVars, Inv, Types, NewestLife, Found,
              ReportsState, Reported, SettingsStable
<1>4. CASE NewQueue
  BY <1>4 DEF NewQueue, engineVars, handlerVars, historyVars, Inv, Types, NewestLife, Found,
              ReportsState, Reported, SettingsStable
<1> QED
  BY <1>2, <1>3, <1>4 DEF Backend

LEMMA NextInv == Inv /\ [Next]_vars => Inv'
<1> SUFFICES ASSUME Inv, [Next]_vars PROVE Inv'
  OBVIOUS
<1>1. ASSUME NEW h \in Handler, Serve(h) PROVE Inv'
  BY <1>1, CreateStep, ArrivalStep, UpdateStep, ReplaceStep, ReplyStep DEF Serve
<1>2. CASE UNCHANGED vars
  BY <1>2 DEF vars, engineVars, handlerVars, historyVars, backendVars, Inv, Types, NewestLife,
              Found, ReportsState, Reported, SettingsStable
<1> QED
  BY <1>1, <1>2, BackendStep, RestartStep DEF Next

\* What a station reports as its settings, sent back, changes nothing - for all
\* settings and all interleavings (stationConfig, New, UpdateConfig).
THEOREM SettingsStableHolds == Spec => []SettingsStable
<1>1. Inv => SettingsStable
  BY DEF Inv
<1> QED
  BY <1>1, InitInv, NextInv, PTL DEF Spec

\* No answer reports an older life, or an older queue of a life, than one that
\* was given before its request reached the manager (runner, ReplaceQueue,
\* State).
THEOREM AnswersNeverGoBackHolds == Spec => []AnswersNeverGoBack
<1>1. Inv => AnswersNeverGoBack
  BY DEF Inv, Found, AnswersNeverGoBack
<1> QED
  BY <1>1, InitInv, NextInv, PTL DEF Spec

=============================================================================
