------------------------------ MODULE SdGovernor ------------------------------
(***************************************************************************)
(* The JPEG quality of the sensor and who moves it (mjpeg2sd.cpp): the     *)
(* user, sdGovernor() when the card does not keep up, noFrameRescue() when *)
(* frames are too big to arrive, and a night session.  A higher number is    *)
(* a smaller frame.  The scene sets how large a frame is at a quality.     *)
(*                                                                         *)
(* A step is a frame that arrives or one that does not, so the periods of  *)
(* the code are counted in frames.  One frame is one unit of time: its     *)
(* size is the demand on the card.                                         *)
(***************************************************************************)
EXTENDS Integers, Sequences, SequencesExt

CONSTANTS
    UserQs,       \* qualities the user asks for
    QMax,         \* 63
    NIGHT_DARK_Q, \* the quality of a dark night session
    Details,      \* how hard a scene is to compress
    FrameWindow,  \* the largest frame that arrives
    Budget,       \* what the card writes in the time of a frame
    fpsPriority,  \* whether the rate is worth more than the quality
    BoostCeiling, \* GOV_MAX_BOOST or GOV_MAX_BOOST_FPS
    WinFrames, RelaxFrames, EaseFrames, RescueFrames,     \* periods
    MaxEvents,    \* changes of scene, choices and sessions
    GovRaces      \* orders of two tasks the code does not provide for, see GovProvided

ASSUME GovernorAssumption ==
    /\ QMax \in Nat /\ UserQs \subseteq 1..QMax /\ NIGHT_DARK_Q \in 1..QMax
    /\ Details \subseteq Nat /\ FrameWindow \in Nat /\ Budget \in Nat \ {0}
    /\ {BoostCeiling, WinFrames, RelaxFrames, EaseFrames, RescueFrames} \subseteq Nat \ {0}
    /\ fpsPriority \in BOOLEAN /\ MaxEvents \in Nat

VARIABLES
    detail, short,                    \* short: fewer frames come than FPS asks for
    sensorQ,                          \* status.quality of the sensor
    govBaseQ, govUserQ, sdGovBoost,
    ring,                             \* sizes of the frames in the trailing window
    sinceStep, lowFor, easeFor,       \* govLastStepMs, govLowSince, govEaseSince, as ages
    recording,
    missed, rescueStreak,             \* frames that did not arrive, steps taken against it
    inNight, nightPrevQ, nightSeedQ,
    asked,                            \* a quality the web server has given the sensor only
    events

gov   == <<ring, sinceStep, lowFor, easeFor>>
rescue == <<missed, rescueStreak>>
nightQ == <<inNight, nightPrevQ, nightSeedQ>>
govVars  == <<detail, short, sensorQ, govBaseQ, govUserQ, sdGovBoost, gov, recording, rescue, nightQ,
           asked, events>>

NoQ == 0

\* An order of events the code does not provide for, unless ok, happens only in
\* a run that asks for it.
GovProvided(race, ok) == ok \/ race \in GovRaces

Capped(a, b) == IF a < b THEN a ELSE b
FrameSize(s, q) == s \div (q + 2)
Arrives == FrameSize(detail, sensorQ) <= FrameWindow

GovInit ==
    /\ detail \in Details /\ short = FALSE
    /\ govUserQ \in UserQs /\ govBaseQ = govUserQ /\ sensorQ = govUserQ
    /\ sdGovBoost = 0 /\ ring = <<>>
    /\ sinceStep = WinFrames /\ lowFor = 0 /\ easeFor = 0
    /\ recording = FALSE
    /\ missed = 0 /\ rescueStreak = 0
    /\ inNight = FALSE /\ nightPrevQ = NoQ /\ nightSeedQ = NoQ
    /\ asked = NoQ /\ events = 0
----------------------------------------------------------------------------
(* The web server and the world.                                           *)
Event == events < MaxEvents /\ events' = events + 1

SceneChanges ==
    /\ Event
    /\ detail' \in Details /\ short' \in BOOLEAN
    /\ <<detail', short'>> # <<detail, short>>
    /\ UNCHANGED <<sensorQ, govBaseQ, govUserQ, sdGovBoost, gov, recording, rescue, nightQ, asked>>

\* The quality command: set_quality() and then govRebaseQuality().
AskQuality ==
    /\ asked = NoQ
    /\ Event
    /\ GovProvided("choiceInSession", nightPrevQ = NoQ /\ nightSeedQ = NoQ)
    /\ asked' \in UserQs
    /\ sensorQ' = asked'
    /\ UNCHANGED <<detail, short, govBaseQ, govUserQ, sdGovBoost, gov, recording, rescue, nightQ>>

GovRebaseQuality ==
    /\ asked # NoQ
    /\ govBaseQ' = asked /\ govUserQ' = asked
    /\ easeFor' = 0
    /\ asked' = NoQ
    /\ UNCHANGED <<detail, short, sensorQ, sdGovBoost, ring, sinceStep, lowFor, recording, rescue, nightQ,
                   events>>

\* nightEnter() of a scene whose gain says that it is dark.
NightEnter ==
    /\ Event
    /\ inNight' = TRUE
    /\ IF sensorQ < NIGHT_DARK_Q
       THEN /\ nightPrevQ' = IF nightPrevQ = NoQ THEN sensorQ ELSE nightPrevQ
            /\ nightSeedQ' = NIGHT_DARK_Q
       ELSE UNCHANGED <<nightPrevQ, nightSeedQ>>
    /\ UNCHANGED <<detail, short, sensorQ, govBaseQ, govUserQ, sdGovBoost, gov, recording, rescue, asked>>

NightExit ==
    /\ inNight
    /\ inNight' = FALSE
    /\ nightSeedQ' = IF nightPrevQ # NoQ THEN nightPrevQ ELSE nightSeedQ
    /\ nightPrevQ' = NoQ
    /\ UNCHANGED <<detail, short, sensorQ, govBaseQ, govUserQ, sdGovBoost, gov, recording, rescue, asked,
                   events>>
----------------------------------------------------------------------------
(* The capture task.                                                       *)
Undisturbed == GovProvided("commandSplit", asked = NoQ)

\* The rescue and a night seed move the base, never the user's floor.
GovDegradeBase(q) ==
    /\ sensorQ' = q /\ govBaseQ' = q
    /\ easeFor' = 0

\* applyNightQuality(), of the retime that a session asks for.
ApplyNightQuality ==
    /\ Undisturbed
    /\ nightSeedQ # NoQ /\ ~recording
    /\ GovDegradeBase(nightSeedQ)
    /\ nightSeedQ' = NoQ
    /\ UNCHANGED <<detail, short, govUserQ, sdGovBoost, ring, sinceStep, lowFor, recording, rescue, inNight,
                   nightPrevQ, asked, events>>

RescuedFromUser == Capped(QMax, govUserQ + 2)    \* MUTANT of Rescued: the step is taken from the setting
Rescued == Capped(QMax, sensorQ + 2)

\* noFrameRescue(): the first step is slow, the next ones are not.
Miss ==
    /\ Undisturbed
    /\ ~Arrives
    /\ IF missed < (IF rescueStreak > 0 THEN 1 ELSE RescueFrames)
       THEN /\ missed' = missed + 1
            /\ UNCHANGED <<sensorQ, govBaseQ, easeFor, rescueStreak>>
       ELSE /\ missed' = 0
            /\ IF sensorQ < QMax
               THEN /\ GovDegradeBase(Rescued)
                    /\ rescueStreak' = 1
               ELSE UNCHANGED <<sensorQ, govBaseQ, easeFor, rescueStreak>>
    /\ UNCHANGED <<detail, short, govUserQ, sdGovBoost, ring, sinceStep, lowFor, recording, nightQ, asked,
                   events>>

FrameIdle ==
    /\ ~recording /\ Arrives
    /\ missed' = 0 /\ rescueStreak' = 0
    /\ UNCHANGED <<detail, short, sensorQ, govBaseQ, govUserQ, sdGovBoost, gov, recording, nightQ, asked,
                   events>>

\* openAvi() and closeAvi().
OpenAvi ==
    /\ Undisturbed
    /\ ~recording /\ Arrives
    /\ recording' = TRUE
    /\ govBaseQ' = sensorQ
    /\ sdGovBoost' = 0 /\ ring' = <<>>
    /\ sinceStep' = WinFrames /\ lowFor' = 0 /\ easeFor' = 0
    /\ missed' = 0 /\ rescueStreak' = 0
    /\ UNCHANGED <<detail, short, sensorQ, govUserQ, nightQ, asked, events>>

CloseBoosted == sensorQ             \* MUTANT of HandedBack: the boost outlives its clip
HandedBack == IF sdGovBoost > 0 THEN govBaseQ ELSE sensorQ

CloseAvi ==
    /\ Undisturbed
    /\ recording /\ Arrives
    /\ recording' = FALSE
    /\ sensorQ' = HandedBack
    /\ sdGovBoost' = 0
    /\ UNCHANGED <<detail, short, govBaseQ, govUserQ, gov, rescue, nightQ, asked, events>>
----------------------------------------------------------------------------
(* sdGovernor(), on every frame that is saved.                             *)
GOV_PUSH_PCT == 90
GOV_RELAX_PCT == 60
GOV_WINDOW_PCT == 80

\* The window with the frame in hand, its oldest frame let go.
GovRing == LET r == Append(ring, FrameSize(detail, sensorQ))
           IN  IF Len(r) > WinFrames THEN Tail(r) ELSE r
Demand == FoldLeft(+, 0, GovRing) \div Len(GovRing)

Above(x, pct, limit) == x * 100 > limit * pct
WindowNear == Above(Demand, GOV_WINDOW_PCT, FrameWindow)
RateShort == fpsPriority /\ short /\ Len(GovRing) = WinFrames
Pushes == WindowNear \/ RateShort \/ Above(Demand, GOV_PUSH_PCT, Budget)
Relaxes == ~Pushes /\ sdGovBoost > 0 /\ Demand * 100 < Budget * GOV_RELAX_PCT

\* The frame of the next step back, half as large again, clears both gates.
Safe == LET next == (Demand * 3) \div 2
        IN  /\ next * 100 < Budget * GOV_PUSH_PCT
            /\ next * 100 < FrameWindow * GOV_WINDOW_PCT
Eases == /\ ~Pushes /\ ~Relaxes
         /\ sdGovBoost = 0 /\ govBaseQ > govUserQ /\ ~inNight

Older(age, limit) == Capped(age + 1, limit)

Push ==
    /\ Pushes
    /\ lowFor' = 0 /\ easeFor' = 0
    /\ IF sdGovBoost < BoostCeiling /\ sinceStep >= WinFrames
       THEN /\ sdGovBoost' = sdGovBoost + 1
            /\ sensorQ' = Capped(QMax, govBaseQ + sdGovBoost + 1)
            /\ sinceStep' = 0
       ELSE /\ sinceStep' = Older(sinceStep, WinFrames)
            /\ UNCHANGED <<sdGovBoost, sensorQ>>
    /\ UNCHANGED govBaseQ

Relax ==
    /\ Relaxes
    /\ easeFor' = 0
    /\ IF lowFor > RelaxFrames
       THEN /\ lowFor' = 1
            /\ sdGovBoost' = sdGovBoost - 1
            /\ sensorQ' = Capped(QMax, govBaseQ + sdGovBoost - 1)
            /\ sinceStep' = 0
       ELSE /\ lowFor' = lowFor + 1
            /\ sinceStep' = Older(sinceStep, WinFrames)
            /\ UNCHANGED <<sdGovBoost, sensorQ>>
    /\ UNCHANGED govBaseQ

Ease ==
    /\ Eases
    /\ lowFor' = 0
    /\ IF Safe /\ easeFor > EaseFrames
       THEN /\ easeFor' = 1
            /\ govBaseQ' = govBaseQ - 1
            /\ sensorQ' = govBaseQ - 1
            /\ sinceStep' = 0
       ELSE /\ easeFor' = IF Safe THEN easeFor + 1 ELSE 0
            /\ sinceStep' = Older(sinceStep, WinFrames)
            /\ UNCHANGED <<govBaseQ, sensorQ>>
    /\ UNCHANGED sdGovBoost

Hold ==
    /\ ~Pushes /\ ~Relaxes /\ ~Eases
    /\ lowFor' = 0
    /\ sinceStep' = Older(sinceStep, WinFrames)
    /\ UNCHANGED <<easeFor, govBaseQ, sensorQ, sdGovBoost>>

SaveFrame ==
    /\ Undisturbed
    /\ recording /\ Arrives
    /\ missed' = 0 /\ rescueStreak' = 0
    /\ ring' = GovRing
    /\ Push \/ Relax \/ Ease \/ Hold
    /\ UNCHANGED <<detail, short, govUserQ, recording, nightQ, asked, events>>
----------------------------------------------------------------------------
Frames == SaveFrame \/ Miss \/ ApplyNightQuality \/ FrameIdle

GovNext ==
    \/ SceneChanges \/ AskQuality \/ GovRebaseQuality \/ NightEnter \/ NightExit
    \/ OpenAvi \/ CloseAvi \/ Frames

\* The frame timer goes on, and a web handler that has begun ends.
GovFairness == WF_govVars(Frames) /\ WF_govVars(GovRebaseQuality)

GovSpec == GovInit /\ [][GovNext]_govVars /\ GovFairness
----------------------------------------------------------------------------
(* Properties.                                                             *)

\* Neither the governor nor the rescue nor a session ever takes the sensor to a
\* finer quality than the user configured, and no boost outlives its clip: the
\* next one opens on the base.
QualityBounds ==
    asked = NoQ =>
        /\ govUserQ <= govBaseQ /\ govBaseQ <= QMax
        /\ govUserQ <= sensorQ /\ sensorQ <= QMax
        /\ ~recording => sdGovBoost = 0 /\ sensorQ = govBaseQ

\* A step back toward the user's quality does not bring on the next push or a
\* frame that does not arrive, while the scene stays what the window has seen.
EaseHolds ==
    [][recording /\ recording' /\ govBaseQ' < govBaseQ /\ asked = NoQ
       /\ (\A i \in DOMAIN ring' : ring'[i] = FrameSize(detail, sensorQ)) =>
          /\ Arrives'
          /\ ~Above(FrameSize(detail, sensorQ'), GOV_PUSH_PCT, Budget)]_govVars

\* Frames that have stopped arriving come back: the rescue finds a quality at
\* which they fit.
FramesReturn == ~Arrives ~> Arrives

\* A scene that has become easy gives the user his quality back while a clip is
\* recorded, whatever the rescue and the boosts did before.
Calm ==
    /\ recording /\ ~short /\ ~inNight /\ nightSeedQ = NoQ /\ asked = NoQ
    /\ FrameSize(detail, govUserQ) * 3 * 100 < 2 * Budget * GOV_RELAX_PCT
    /\ FrameSize(detail, govUserQ) * 3 * 100 < 2 * FrameWindow * GOV_WINDOW_PCT
WalksBack == <>[]Calm => <>[](sensorQ = govUserQ /\ sdGovBoost = 0)

\* "Any active boost reapplies on top at the next tick" (govRebaseQuality()).
\* Refuted: it does so only with the next step of the boost.
BoostOnTop ==
    [][ring' # ring /\ recording /\ recording' /\ asked = NoQ =>
          sensorQ' = Capped(QMax, govBaseQ' + sdGovBoost')]_govVars
============================================================================
