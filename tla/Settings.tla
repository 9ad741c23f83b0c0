------------------------------ MODULE Settings ------------------------------
(***************************************************************************)
(* What the engine makes of the settings a request carries: Normalize of   *)
(* the output, of the transition between tracks and of the announcement    *)
(* profile.  Decibels and hertz, floating-point in the code, are whole     *)
(* numbers here, and units are chosen so that the limits are small ones:   *)
(* Normalize only compares.                                                *)
(***************************************************************************)
EXTENDS Integers

Clamp(value, low, high) ==
  IF value < low THEN low ELSE IF value > high THEN high ELSE value

\* The value, or what stands for one that is not positive.
Positive(value, default) == IF value <= 0 THEN default ELSE value

\* OutputConfig.Normalize
NormalizeBitrate(kbps) == Clamp(Positive(kbps, 192), 64, 320)

\* The types a request may name: those of playlist.go, none, and any other.
TransitionTypes == {"cut", "fade", "crossfade", "", "unknown"}

Transition == [type : TransitionTypes, duration : Int]

DefaultTransition == [type |-> "crossfade", duration |-> 25]

\* Transition.Normalize, in tenths of a second; a cut takes no time.
NormalizeTransition(transition, fallback) ==
  LET t == IF transition.type = "" THEN fallback ELSE transition IN
  IF t.type \in {"fade", "crossfade"}
  THEN [t EXCEPT !.duration = Clamp(Positive(@, 15), 1, 300)]
  ELSE [type |-> "cut", duration |-> 0]

Profile == [music : Int, speech : Int, low : Int, mid : Int, high : Int,
            attack : Int, release : Int, lowCut : Int, highCut : Int, limiter : Int]

Gain(db) == Clamp(db, -60, 12)

\* AnnouncementProfile.Normalize, with attack and release in hundredths of a
\* second and the cuts in tens of hertz.  A limiter of 0 dB counts as not given; one
\* above it is brought down to 0.
NormalizeProfile(p) ==
  LET lowCut == Positive(p.lowCut, 25) IN
  [music   |-> Gain(p.music), speech |-> Gain(p.speech),
   low     |-> Gain(p.low), mid |-> Gain(p.mid), high |-> Gain(p.high),
   attack  |-> Positive(p.attack, 18), release |-> Positive(p.release, 45),
   lowCut  |-> lowCut,
   highCut |-> IF p.highCut <= lowCut THEN 350 ELSE p.highCut,
   limiter |-> Clamp(IF p.limiter = 0 THEN -1 ELSE p.limiter, -20, 0)]

Config == [bitrate : Int, transition : Transition, profile : Profile]

\* station.Config.Normalize
Normalize(c) ==
  [bitrate    |-> NormalizeBitrate(c.bitrate),
   transition |-> NormalizeTransition(c.transition, DefaultTransition),
   profile    |-> NormalizeProfile(c.profile)]

\* A track whose type is empty takes the station's transition (Track.Normalize).
TrackTransition(transition, config) == NormalizeTransition(transition, config.transition)

=============================================================================
