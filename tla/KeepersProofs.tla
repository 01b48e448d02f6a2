--------------------------- MODULE KeepersProofs ---------------------------
(***************************************************************************)
(* Theorems about the loops the capture task runs beside its frames:       *)
(* SensorControl, for every set of sizes, ceilings, rates and any number   *)
(* of commands; SdGovernor, for every scene, card, window and period;      *)
(* Supervision, for every number of ping sessions and every period.        *)
(***************************************************************************)
EXTENDS SensorControl, SdGovernor, Supervision, TLAPS
----------------------------------------------------------------------------
(* Types, whatever the orders of events.                                   *)

Rate == Nat \ {0}
Prevs == [fs : Sizes, fps : Rate, idle : {0, IdleRate}]
Handling == [cmd : {"framesize", "fps", "night"}, at : {"write", "clamp", "leave", "focus"}, v : Nat]

\* What a command has taken with it from its first step, and where it can be: it
\* leaves the session once, and a rate is written without one.
HandlerKnows ==
    /\ handler.cmd = "framesize" => handler.v \in Sizes
    /\ handler.cmd = "fps" => handler.v \in Rate
    /\ handler.at = "leave" => nightFS # None
    /\ handler.at = "focus" => nightFS = None
    /\ handler.at = "clamp" => handler.cmd = "framesize"
    /\ handler.cmd = "fps" /\ handler.at = "write" => nightFS = None

\* The types as they are kept: a session always has something to give back.
TypeInv == TypeOK /\ (nightFS # None => nightPrev \in Prevs) /\ HandlerKnows

\* No size is the mark of none, and each has a rate as its ceiling.
LEMMA SizesHaveCeilings == None \notin Sizes /\ \A v \in Sizes : Ceiling[v] \in Rate
  BY SensorAssumption DEF Rate, Sizes

\* The lower of two rates is a rate.
LEMMA LowerRate ==
    ASSUME NEW a \in Rate, NEW b \in Rate
    PROVE  /\ Lower(a, b) \in Rate /\ Lower(a, b) <= b
           /\ a <= b => Lower(a, b) = a
  BY DEF Rate, Lower

\* A rate of the user's is one, whatever size it is lowered to.
LEMMA UserRate ==
    ASSUME NEW r \in UserRates, NEW v \in Sizes
    PROVE  Lower(r, Ceiling[v]) \in Rate /\ Lower(r, Ceiling[v]) <= Ceiling[v]
  BY SensorAssumption, SizesHaveCeilings, LowerRate DEF Rate

\* A tuning is for a size and a rate, the session's included.
LEMMA TunedTypes == ASSUME NEW fs \in Sizes, NEW fps \in Nat PROVE Tuned(fs, fps) \in Tunings
  BY DEF Tuned, Tunings, NightRate

\* Throttled or not, the rate wanted is a natural number: with the races it may be 0.
LEMMA DesiredTypes ==
    ASSUME TypeOK, NEW on \in BOOLEAN, NEW fps \in Nat PROVE Desired(on, fps) \in Nat
  BY SensorAssumption DEF TypeOK, Desired

\* What settleSensor() takes is a size and a rate.
LEMMA WantedIsRate ==
    ASSUME TypeOK
    PROVE  WantFS \in Sizes /\ WantFPS \in Rate
<1>1. fsizePtr \in Sizes /\ captureFPS \in Rate
  BY DEF TypeOK, Rate
<1>2. Taken(pendingFS) => pendingFS \in Sizes /\ Lower(captureFPS, Ceiling[pendingFS]) \in Rate
  <2>1. Taken(pendingFS) => pendingFS \in Sizes
    BY DEF TypeOK, Taken
  <2> QED
    BY <1>1, <2>1, SizesHaveCeilings, LowerRate
<1>3. Taken(pendingFPS) => pendingFPS \in Rate
  BY DEF TypeOK, Taken, None, Rate
<1> QED
  BY <1>1, <1>2, <1>3 DEF WantFS, WantFPS

\* A command is at one of its steps, or there is none.
LEMMA HandlerKinds ==
    ASSUME TypeOK
    PROVE  handler = NoCommand \/ handler \in Handling
  BY DEF TypeOK, Handling

\* A later step is one of the same command with the same value.
LEMMA GoesOn ==
    ASSUME TypeOK, handler # NoCommand, NEW at \in {"write", "clamp", "leave", "focus"}, GoOn(at)
    PROVE  /\ handler' \in Handling /\ handler'.at = at
           /\ handler'.cmd = handler.cmd /\ handler'.v = handler.v
  BY HandlerKinds DEF GoOn, Handling

\* Where a command is at a step, there is one.
LEMMA AtCommand ==
    ASSUME NEW at \in {"write", "clamp", "leave", "focus"}, At(at)
    PROVE  handler # NoCommand /\ handler.at = at
  BY DEF At, NoCommand

LEMMA TypeTask == TypeInv /\ CaptureTask => TypeInv'
<1> SUFFICES ASSUME TypeInv, CaptureTask PROVE TypeInv'
  OBVIOUS
<1>1. TypeOK /\ captureFPS \in Rate /\ captureFPS \in Nat /\ fsizePtr \in Sizes
  BY DEF TypeInv, TypeOK, Rate
<1>0. UNCHANGED <<nightFS, nightPrev, handler>>
  BY DEF CaptureTask, NoFrame, Decide, IdleThrottle, Open, Save, NotCapturing, Close, SettleNot,
     SwitchSize, SwitchDone, Retime, RetimeIf, SettleRate, TakePending, session, web
<1>a. (nightFS' # None => nightPrev' \in Prevs) /\ HandlerKnows'
  BY <1>0 DEF TypeInv, HandlerKnows
<1>2. CASE NoFrame \/ Decide \/ Save \/ NotCapturing \/ Close \/ SettleNot
  <2>1. TypeOK'
    BY <1>1, <1>2 DEF NoFrame, Decide, Save, NotCapturing, Close, SettleNot, choice, pending, sensor,
       rate, idle, session, play, web, TypeOK
  <2> QED
    BY <1>a, <2>1 DEF TypeInv
<1>3. CASE IdleThrottle
  <2>1. ASSUME NEW fps \in Nat, NEW on \in BOOLEAN, IdleSetRate(fps, on)
        PROVE  /\ tuning' \in Tunings /\ FPS' \in Nat /\ timer' \in Nat /\ saveFPS' \in Nat
               /\ idleRateActive' \in BOOLEAN
    BY <1>1, <2>1, TunedTypes, DesiredTypes DEF IdleSetRate
  <2>2. idleFps \in Nat
    BY <1>1, SensorAssumption DEF TypeOK
  <2>3. \/ IdleSetRate(captureFPS, FALSE) \/ IdleSetRate(idleFps, TRUE)
        \/ UNCHANGED <<tuning, rate, idleRateActive>>
    BY <1>3 DEF IdleThrottle
  <2>4. /\ tuning' \in Tunings /\ FPS' \in Nat /\ timer' \in Nat /\ saveFPS' \in Nat
        /\ idleRateActive' \in BOOLEAN
    BY <1>1, <2>1, <2>2, <2>3 DEF rate, TypeOK
  <2>5. TypeOK'
    BY <1>1, <1>3, <2>4 DEF IdleThrottle, choice, pending, session, play, web, TypeOK
  <2> QED
    BY <1>a, <2>5 DEF TypeInv
<1>4. CASE Open
  <2>1. Desired(idleRateActive, captureFPS) \in Nat
    BY <1>1, DesiredTypes DEF TypeOK
  <2>2. Tuned(fsizePtr, Desired(idleRateActive, captureFPS)) \in Tunings
    BY <1>1, <2>1, TunedTypes
  <2>3. FPS' \in Nat /\ timer' \in Nat /\ sensorFS' \in Sizes /\ tuning' \in Tunings
    BY <1>1, <1>4, <2>1, <2>2 DEF Open, sensor, TypeOK
  <2>4. isPlaying' \in BOOLEAN /\ doPlayback' \in BOOLEAN
    BY <1>1, <1>4 DEF Open, StopPlaying, TypeOK
  <2>5. TypeOK'
    BY <1>1, <1>4, <2>3, <2>4 DEF Open, choice, pending, idle, session, web, TypeOK
  <2> QED
    BY <1>a, <2>5 DEF TypeInv
<1>5. CASE SwitchSize \/ Retime \/ SettleRate
  <2>1. TakePending /\ UNCHANGED <<saveFPS, idle, session, isCapturing, prevCapture, clip, play>>
    BY <1>5 DEF SwitchSize, Retime, RetimeIf, SettleRate, rate
  <2>2. WantFS \in Sizes /\ WantFPS \in Rate /\ Desired(idleRateActive, WantFPS) \in Nat
    BY <1>1, WantedIsRate, DesiredTypes DEF TypeOK, Rate
  <2>3. /\ Tuned(WantFS, Desired(idleRateActive, WantFPS)) \in Tunings
        /\ Tuned(sensorFS, Desired(idleRateActive, WantFPS)) \in Tunings
    BY <1>1, <2>2, TunedTypes DEF TypeOK
  <2>4. /\ sensorFS' \in Sizes /\ tuning' \in Tunings /\ FPS' \in Nat /\ timer' \in Nat
        /\ retimePending' \in BOOLEAN /\ pc' \in {"switched", "frame"}
    <3>1. CASE SwitchSize
      BY <1>1, <3>1, <2>2, <2>3 DEF SwitchSize, WantRetime, Taken, rate, TypeOK
    <3>2. CASE Retime \/ SettleRate
      BY <1>1, <3>2, <2>2, <2>3 DEF Retime, RetimeIf, SettleRate, Pace, WantRetime, Taken, sensor, rate, TypeOK
    <3> QED
      BY <1>5, <3>1, <3>2
  <2>5. /\ pendingFS' \in Sizes \cup {None} /\ pendingFPS' \in Nat
        /\ fsizePtr' \in Sizes /\ captureFPS' \in Rate
    BY <1>1, <2>1, <2>2 DEF TakePending, None, TypeOK
  <2>6. chosenFPS' \in Rate /\ UNCHANGED <<handler, chosenFS, cmds>>
    BY <1>1, <2>1, SizesHaveCeilings, LowerRate DEF TakePending, Taken, TypeOK, Rate
  <2>7. TypeOK'
    BY <1>1, <2>1, <2>4, <2>5, <2>6 DEF idle, session, play, Rate, TypeOK
  <2> QED
    BY <1>a, <2>7 DEF TypeInv
<1>6. CASE SwitchDone
  <2>1. Desired(idleRateActive, captureFPS) \in Nat
    BY <1>1, DesiredTypes DEF TypeOK
  <2>2. /\ FPS' \in Nat /\ timer' \in Nat /\ retimePending' \in BOOLEAN /\ pc' = "frame"
        /\ UNCHANGED <<choice, pendingFS, pendingFPS, sensor, saveFPS, idle, session, isCapturing,
                       prevCapture, clip, play, web>>
    BY <1>6, <2>1 DEF SwitchDone, Pace
  <2>3. TypeOK'
    <3>1. UNCHANGED <<fsizePtr, captureFPS, sensorFS, tuning, idleFps, idleRateActive, nightFS, nightPrev,
                      doPlayback, isPlaying, handler, chosenFS, chosenFPS, cmds>>
      BY <2>2 DEF choice, sensor, idle, session, play, web
    <3> QED
      BY <1>1, <2>2, <3>1 DEF TypeOK
  <2> QED
    BY <1>a, <2>3 DEF TypeInv
<1> QED
  BY <1>2, <1>3, <1>4, <1>5, <1>6 DEF CaptureTask

\* The steps of a command.
LEMMA TypeHandler == TypeInv /\ Handler => TypeInv'
<1> SUFFICES ASSUME TypeInv, Handler PROVE TypeInv'
  OBVIOUS
<1>1. /\ TypeOK /\ HandlerKnows /\ captureFPS \in Rate /\ fsizePtr \in Sizes /\ chosenFPS \in Rate
      /\ Rate \subseteq Nat
  BY DEF TypeInv, TypeOK, Rate
<1>2. CASE WriteSize
  <2>1. /\ handler # NoCommand /\ handler.cmd = "framesize" /\ handler.v \in Sizes /\ GoOn("clamp")
    BY <1>1, <1>2, AtCommand DEF WriteSize, HandlerKnows
  <2>2. /\ handler' \in Handling /\ handler'.at = "clamp" /\ handler'.cmd = "framesize"
        /\ handler'.v \in Sizes
    BY <1>1, <2>1, GoesOn
  <2>3. fsizePtr' \in Sizes /\ chosenFS' \in Sizes /\ chosenFPS' \in Rate
    <3>1. Lower(chosenFPS, Ceiling[handler.v]) \in Rate
      BY <1>1, <2>1, SizesHaveCeilings, LowerRate
    <3> QED
      BY <1>1, <1>2, <2>1, <3>1 DEF WriteSize, chosen, TypeOK
  <2>4. /\ UNCHANGED <<captureFPS, pending, sensor, rate, idle, session, task, play, cmds>>
    BY <1>2 DEF WriteSize, At
  <2>5. TypeOK'
    BY <1>1, <2>2, <2>3, <2>4 DEF pending, sensor, rate, idle, session, task, play, Handling, Rate, TypeOK
  <2> QED
    BY <2>2, <2>4, <2>5 DEF TypeInv, HandlerKnows, session
<1>3. CASE ClampRate
  <2>1. captureFPS' \in Rate
    BY <1>1, <1>3, SizesHaveCeilings, LowerRate DEF ClampRate
  <2>2. /\ UNCHANGED <<fsizePtr, pending, sensor, rate, idle, session, task, play, chosen, cmds>>
        /\ handler' = NoCommand
    BY <1>3 DEF ClampRate, At
  <2>3. TypeOK'
    BY <1>1, <2>1, <2>2 DEF pending, sensor, rate, idle, session, task, play, chosen, Rate, TypeOK
  <2> QED
    BY <2>2, <2>3 DEF TypeInv, HandlerKnows, session, NoCommand
<1>4. CASE WriteRate
  <2>1. handler.v \in Rate
    BY <1>1, <1>4 DEF WriteRate, HandlerKnows
  <2>2. /\ captureFPS' \in Rate /\ FPS' \in Rate /\ timer' \in Rate /\ saveFPS' \in Rate /\ chosenFPS' \in Rate
        /\ retimePending' = TRUE /\ handler' = NoCommand
        /\ UNCHANGED <<fsizePtr, pendingFS, pendingFPS, sensor, idle, session, task, play, chosenFS, cmds>>
    BY <1>4, <2>1 DEF WriteRate, Pace, At
  <2>3. TypeOK'
    BY <1>1, <2>2 DEF sensor, idle, session, task, play, Rate, TypeOK
  <2> QED
    BY <2>2, <2>3 DEF TypeInv, HandlerKnows, session, NoCommand
<1>5. CASE LeaveNight
  <2>1. handler # NoCommand /\ nightFS # None /\ GoOn("focus")
    BY <1>1, <1>5, AtCommand DEF LeaveNight, HandlerKnows
  <2>2. nightPrev.fs \in Sizes /\ nightPrev.fps \in Rate /\ nightPrev.idle \in {0, IdleRate}
    BY <2>1 DEF TypeInv, Prevs
  <2>3. /\ handler' \in Handling /\ handler'.at = "focus" /\ handler'.cmd = handler.cmd
        /\ handler'.v = handler.v
    BY <1>1, <2>1, GoesOn
  <2>4. /\ fsizePtr' \in Sizes /\ captureFPS' \in Rate /\ FPS' \in Nat /\ idleFps' \in {0, IdleRate}
        /\ nightFS' = None
    BY <1>1, <1>5, <2>2 DEF LeaveNight, TypeOK
  <2>5. UNCHANGED <<pending, sensor, timer, saveFPS, idleRateActive, nightPrev, task, play, chosen, cmds>>
    BY <1>5 DEF LeaveNight, At
  <2>6. TypeOK'
    BY <1>1, <2>3, <2>4, <2>5 DEF pending, sensor, task, play, chosen, Handling, Rate, TypeOK
  <2> QED
    BY <1>1, <2>3, <2>4, <2>6 DEF TypeInv, HandlerKnows
<1>6. CASE FocusDone
  <2>1. handler # NoCommand /\ nightFS = None
    BY <1>1, <1>6, AtCommand DEF FocusDone, HandlerKnows
  <2>2. \/ handler' = NoCommand
        \/ /\ handler' \in Handling /\ handler'.at = "write" /\ handler'.cmd = handler.cmd
           /\ handler'.v = handler.v
    BY <1>1, <1>6, <2>1, GoesOn DEF FocusDone
  <2>3. /\ retimePending' = TRUE /\ nightPrev' = NoPrev /\ nightFS' = None
        /\ UNCHANGED <<choice, pendingFS, pendingFPS, sensor, rate, idle, task, play, chosen, cmds>>
    BY <1>6, <2>1 DEF FocusDone, At
  <2>4. TypeOK'
    BY <1>1, <2>2, <2>3 DEF choice, sensor, rate, idle, task, play, chosen, Handling, TypeOK
  <2> QED
    BY <1>1, <2>2, <2>3, <2>4 DEF TypeInv, HandlerKnows, NoCommand
<1> QED
  BY <1>2, <1>3, <1>4, <1>5, <1>6 DEF Handler

LEMMA TypeWeb == TypeInv /\ Web => TypeInv'
<1> SUFFICES ASSUME TypeInv, Web PROVE TypeInv'
  OBVIOUS
<1>1. /\ TypeOK /\ captureFPS \in Rate /\ chosenFPS \in Rate /\ fsizePtr \in Sizes
      /\ RecFPS \in Nat /\ Rate \subseteq Nat /\ 1 \in Rate /\ 0 \in Nat /\ None \in Nat
      /\ Sizes \subseteq Nat
  BY SensorAssumption DEF TypeInv, TypeOK, Rate, None
<1>2. \A c : Command(c) => cmds' \in 0 .. MaxCommands /\ handler = NoCommand
  BY <1>1, SensorAssumption DEF Command, TypeOK
<1>3. CASE DeferSize
  <2>1. pendingFS' \in Sizes /\ chosenFS' \in Sizes /\ cmds' \in 0 .. MaxCommands /\ UNCHANGED handler
    BY <1>2, <1>3 DEF DeferSize
  <2>2. TypeOK'
    BY <1>1, <1>3, <2>1 DEF DeferSize, choice, sensor, rate, idle, session, task, play, TypeOK
  <2> QED
    BY <1>3, <2>1, <2>2 DEF DeferSize, TypeInv, HandlerKnows, session
<1>4. CASE DeferRate
  <2>1. pendingFPS' \in Rate /\ chosenFPS' \in Rate /\ cmds' \in 0 .. MaxCommands /\ UNCHANGED handler
    BY <1>1, <1>2, <1>4, UserRate DEF DeferRate
  <2>2. TypeOK'
    BY <1>1, <1>4, <2>1 DEF DeferRate, choice, sensor, rate, idle, session, task, play, Rate, TypeOK
  <2> QED
    BY <1>4, <2>1, <2>2 DEF DeferRate, TypeInv, HandlerKnows, session
<1>5. CASE TestSize \/ TestRate \/ TestExit
  <2>1. /\ UNCHANGED <<choice, pending, sensor, rate, idle, session, task, play, chosen>>
        /\ cmds' \in 0 .. MaxCommands
    BY <1>2, <1>5 DEF TestSize, TestRate, TestExit, Begin
  <2>2. \/ \E v \in Sizes : handler' = [cmd |-> "framesize", v |-> v,
                                        at |-> IF nightFS # None /\ v # fsizePtr THEN "leave" ELSE "write"]
        \/ \E v \in Rate : handler' = [cmd |-> "fps", v |-> v, at |-> IF nightFS # None THEN "leave" ELSE "write"]
        \/ nightFS # None /\ handler' = [cmd |-> "night", at |-> "leave", v |-> None]
    <3>1. ASSUME TestRate
          PROVE  \E v \in Rate : handler' = [cmd |-> "fps", v |-> v, at |-> IF nightFS # None THEN "leave" ELSE "write"]
      <4>1. PICK r \in UserRates :
              Begin("fps", IF nightFS # None THEN "leave" ELSE "write", Lower(r, Ceiling[fsizePtr]))
        BY <3>1 DEF TestRate
      <4>2. Lower(r, Ceiling[fsizePtr]) \in Rate
        BY <1>1, UserRate
      <4> QED
        BY <4>1, <4>2 DEF Begin
    <3>2. ASSUME TestSize
          PROVE  \E v \in Sizes : handler' = [cmd |-> "framesize", v |-> v,
                                              at |-> IF nightFS # None /\ v # fsizePtr THEN "leave" ELSE "write"]
      BY <3>2 DEF TestSize, Begin
    <3>3. ASSUME TestExit
          PROVE  nightFS # None /\ handler' = [cmd |-> "night", at |-> "leave", v |-> None]
      BY <3>3 DEF TestExit, Begin
    <3> QED
      BY <1>5, <3>1, <3>2, <3>3
  <2>3. handler' \in Handling /\ UNCHANGED nightFS
    BY <1>1, <2>1, <2>2 DEF Handling, session
  <2>4. TypeOK'
    BY <1>1, <2>1, <2>3 DEF choice, pending, sensor, rate, idle, session, task, play, chosen, Handling, TypeOK
  <2>5. HandlerKnows'
    BY <2>2, <2>3 DEF HandlerKnows
  <2> QED
    BY <2>1, <2>4, <2>5 DEF TypeInv, session
<1>6. CASE SetIdle
  <2>1. idleFps' \in {0, IdleRate} /\ cmds' \in 0 .. MaxCommands
    BY <1>2, <1>6 DEF SetIdle
  <2>2. TypeOK'
    BY <1>1, <1>6, <2>1 DEF SetIdle, choice, pending, sensor, rate, session, task, play, chosen, TypeOK
  <2> QED
    BY <1>6, <2>2 DEF SetIdle, TypeInv, HandlerKnows, session
<1>7. CASE EnterNight
  <2>1. /\ nightFS' \in NightSizes /\ fsizePtr' \in Sizes /\ captureFPS' = 1 /\ FPS' = 1 /\ idleFps' = 0
        /\ retimePending' = TRUE /\ cmds' \in 0 .. MaxCommands /\ handler = NoCommand
        /\ UNCHANGED <<pendingFS, pendingFPS, sensor, timer, saveFPS, idleRateActive, task, play, handler, chosen>>
    BY <1>2, <1>7, SensorAssumption DEF EnterNight
  <2>2. [fs |-> fsizePtr, fps |-> captureFPS, idle |-> idleFps] \in Prevs
    BY <1>1 DEF Prevs, TypeOK
  <2>3. nightPrev # NoPrev => nightPrev \in Prevs
    BY <1>1 DEF TypeOK, Prevs, Rate
  <2>4. nightPrev' \in Prevs
    BY <1>7, <2>2, <2>3 DEF EnterNight
  <2>5. TypeOK'
    BY <1>1, <2>1, <2>4 DEF sensor, task, play, chosen, Prevs, Rate, TypeOK
  <2> QED
    BY <2>1, <2>4, <2>5 DEF TypeInv, HandlerKnows, NoCommand
<1>8. CASE Select \/ PlayOpen \/ EndPlay
  <2>1. /\ UNCHANGED <<choice, pending, sensor, saveFPS, idle, session, task, web>>
        /\ FPS' \in {FPS, RecFPS, saveFPS} /\ timer' \in {timer, RecFPS, saveFPS}
        /\ isPlaying' \in BOOLEAN /\ doPlayback' \in BOOLEAN
    BY <1>1, <1>8 DEF Select, PlayOpen, EndPlay, Pace, rate, TypeOK
  <2>2. TypeOK'
    BY <1>1, <2>1 DEF choice, pending, sensor, idle, session, task, web, TypeOK
  <2> QED
    BY <2>1, <2>2 DEF TypeInv, HandlerKnows, session, web
<1> QED
  BY <1>3, <1>4, <1>5, <1>6, <1>7, <1>8, TypeHandler DEF Web

LEMMA TypeInit == Init => TypeInv
<1> SUFFICES ASSUME Init PROVE TypeInv
  OBVIOUS
<1>1. fsizePtr \in Sizes /\ captureFPS \in Rate
  BY UserRate DEF Init
<1>2. Tuned(fsizePtr, captureFPS) \in Tunings
  BY <1>1, TunedTypes DEF Rate
<1>3. nightFS = None /\ cmds \in 0 .. MaxCommands /\ idleFps \in {0, IdleRate} /\ 0 \in Nat
  BY SensorAssumption DEF Init
<1>4. FPS \in Rate /\ timer \in Rate /\ saveFPS \in Rate /\ chosenFPS \in Rate /\ sensorFS \in Sizes
  BY <1>1 DEF Init
<1>5. tuning \in Tunings /\ pendingFPS \in Nat
  BY <1>1, <1>2 DEF Init, None
<1>6. TypeOK
  BY <1>1, <1>3, <1>4, <1>5 DEF Init, TypeOK, Rate
<1> QED
  BY <1>3, <1>6 DEF Init, TypeInv, HandlerKnows, NoCommand

LEMMA TypeNext == TypeInv /\ [Next]_vars => TypeInv'
<1>1. TypeInv /\ UNCHANGED vars => TypeInv'
  BY DEF vars, choice, pending, sensor, rate, idle, session, task, play, web, TypeInv, TypeOK, HandlerKnows
<1> QED
  BY <1>1, TypeTask, TypeWeb DEF Next

\* Types, whatever the orders of events: the rate in force is a number, a session has kept
\* what it gives back, and a command at a later step still has its value.
THEOREM SensorTypes == Spec => []TypeOK
<1>1. TypeInv => TypeOK
  BY DEF TypeInv
<1> QED
  BY <1>1, TypeInit, TypeNext, PTL DEF Spec

----------------------------------------------------------------------------
(* A recording keeps its size and timing.                                  *)

\* The orders in which the sensor is set behind an open file, or not set when it is opened:
\* a session that begins or ends in a recording, a recording that begins in a command, and a
\* size the sensor does not take.
ClipApart == Races \cap {"nightInClip", "openInCommand", "switchFails"} = {}

\* The pass is one in which a recording that goes on was open from its start.
InClip ==
    /\ isCapturing
    /\ pc \in {"frame", "settle"} \/ (pc \in {"throttle", "act"} /\ prevCapture)

\* While it is open nothing is left for settleSensor() and for the throttle to do.
OpenIsSettled ==
    InClip => /\ clip = [fs |-> sensorFS, tuning |-> tuning]
              /\ fsizePtr = sensorFS /\ ~idleRateActive

\* The throttle lets go before a file is opened, only a pass without a recording closes one
\* or switches the size, and none begins while a command has steps to go.
OpensUnthrottled == pc = "act" /\ isCapturing => ~idleRateActive
SwitchesIdle == pc \in {"close", "switched"} => ~isCapturing
CommandsApart == handler # NoCommand => ~isCapturing

GeometryInv == OpenIsSettled /\ OpensUnthrottled /\ SwitchesIdle /\ CommandsApart

\* At the start no file is open and nothing is deferred.
LEMMA GeometryInit == Init => GeometryInv
  BY DEF Init, GeometryInv, OpenIsSettled, InClip, OpensUnthrottled, SwitchesIdle, CommandsApart

\* The capture task: what it does to the sensor it does before a file is opened
\* or after it is closed.
LEMMA GeometryTask == ASSUME ClipApart PROVE GeometryInv /\ CaptureTask => GeometryInv'
<1> SUFFICES ASSUME GeometryInv, CaptureTask PROVE GeometryInv'
  OBVIOUS
<1> USE DEF GeometryInv, OpenIsSettled, InClip, OpensUnthrottled, SwitchesIdle, CommandsApart
<1>1. CASE NoFrame \/ NotCapturing \/ Close \/ SettleNot
  BY <1>1 DEF NoFrame, NotCapturing, Close, SettleNot, choice, sensor, idle, web
<1>9. CASE Decide
  <2>1. isCapturing' => isCapturing \/ handler = NoCommand
    BY <1>9 DEF Decide, Provided, ClipApart
  <2> QED
    BY <1>9, <2>1 DEF Decide, choice, sensor, idle, web
<1>2. CASE IdleThrottle
  <2>1. /\ pc = "throttle" /\ pc' = "act"
        /\ UNCHANGED <<isCapturing, prevCapture, clip, fsizePtr, sensorFS, handler>>
    BY <1>2 DEF IdleThrottle, choice, web
  <2>2. isCapturing => ~idleRateActive'
    BY <1>2 DEF IdleThrottle, IdleSetRate
  <2>3. isCapturing /\ ~idleRateActive => tuning' = tuning
    BY <1>2 DEF IdleThrottle, IdleSetRate
  <2> QED
    BY <2>1, <2>2, <2>3
<1>3. CASE Open
  <2>1. clip' = [fs |-> sensorFS', tuning |-> tuning'] /\ fsizePtr' = sensorFS'
    BY <1>3 DEF Open, choice, sensor, Provided, ClipApart
  <2> QED
    BY <1>3, <2>1 DEF Open, idle, web
<1>4. CASE Save
  BY <1>4 DEF Save, choice, sensor, idle, web
<1>5. CASE SwitchSize
  <2>1. ~isCapturing
    BY <1>5 DEF SwitchSize, Settling, WantFS, Taken
  <2>2. pc' \in {"frame", "switched"} /\ UNCHANGED isCapturing
    BY <1>5 DEF SwitchSize
  <2> QED
    BY <2>1, <2>2
<1>6. CASE SwitchDone
  BY <1>6 DEF SwitchDone
<1>7. CASE Retime
  BY <1>7 DEF Retime, RetimeIf, Settling
<1>8. CASE SettleRate
  <2>1. isCapturing => fsizePtr' = fsizePtr
    BY <1>8 DEF SettleRate, TakePending, WantFS, Taken
  <2> QED
    BY <1>8, <2>1 DEF SettleRate, TakePending, Settling, sensor, idle
<1> QED
  BY <1>1, <1>2, <1>3, <1>4, <1>5, <1>6, <1>7, <1>8, <1>9 DEF CaptureTask

\* The web server: what it changes at once, and at whatever step, it changes only
\* between recordings.
LEMMA GeometryWeb == ASSUME ClipApart PROVE GeometryInv /\ Web => GeometryInv'
<1> SUFFICES ASSUME GeometryInv, Web PROVE GeometryInv'
  OBVIOUS
<1>1. UNCHANGED <<pc, isCapturing, prevCapture, clip, sensorFS, tuning, idleRateActive>>
  BY DEF Web, Handler, DeferSize, TestSize, WriteSize, ClampRate, DeferRate, TestRate, WriteRate,
     SetIdle, EnterNight, TestExit, LeaveNight, FocusDone, Select, PlayOpen, EndPlay, task, sensor, idle
<1>2. CASE DeferSize \/ DeferRate \/ SetIdle \/ Select \/ PlayOpen \/ EndPlay
  <2>1. UNCHANGED <<fsizePtr, handler>>
    BY <1>2 DEF DeferSize, DeferRate, SetIdle, Select, PlayOpen, EndPlay, choice, web
  <2> QED
    BY <1>1, <2>1 DEF GeometryInv, OpenIsSettled, InClip, OpensUnthrottled, SwitchesIdle, CommandsApart
<1>3. CASE ~(DeferSize \/ DeferRate \/ SetIdle \/ Select \/ PlayOpen \/ EndPlay)
  <2>1. ASSUME Handler PROVE ~isCapturing
    BY <2>1, AtCommand DEF Handler, WriteSize, ClampRate, WriteRate, LeaveNight, FocusDone,
       GeometryInv, CommandsApart
  <2>2. ASSUME TestSize \/ TestRate PROVE ~isCapturing
    BY <2>2 DEF TestSize, TestRate
  <2>3. ASSUME EnterNight PROVE ~isCapturing
    BY <2>3 DEF EnterNight, Provided, ClipApart
  <2>4. ASSUME TestExit PROVE ~isCapturing
    BY <2>4 DEF TestExit, Provided, ClipApart
  <2>5. ~isCapturing
    BY <1>3, <2>1, <2>2, <2>3, <2>4 DEF Web
  <2> QED
    BY <1>1, <2>5 DEF GeometryInv, OpenIsSettled, InClip, OpensUnthrottled, SwitchesIdle, CommandsApart
<1> QED
  BY <1>2, <1>3

LEMMA GeometryNext == ASSUME ClipApart PROVE GeometryInv /\ [Next]_vars => GeometryInv'
<1>1. GeometryInv /\ UNCHANGED vars => GeometryInv'
  BY DEF vars, choice, sensor, idle, task, web, GeometryInv, OpenIsSettled, InClip, OpensUnthrottled,
     SwitchesIdle, CommandsApart
<1> QED
  BY <1>1, GeometryTask, GeometryWeb DEF Next

\* Every frame of a recording has the size and timing its file was opened for: for any sizes
\* and rates, any number of commands and every place of their steps in the passes, without the
\* three orders in ClipApart.
THEOREM ClipGeometry ==
    ASSUME ClipApart
    PROVE  Spec => []ClipKeepsGeometry
<1>1. GeometryInv => ClipKeepsGeometry
  BY DEF GeometryInv, OpenIsSettled, InClip, ClipKeepsGeometry
<1> QED
  BY <1>1, GeometryInit, GeometryNext, PTL DEF Spec

----------------------------------------------------------------------------
(* The user has what he chose last.                                        *)

\* The size the camera has, or takes when the recording ends.
Awaited == IF pendingFS # None THEN pendingFS ELSE fsizePtr

\* A deferred rate is one the awaited size has; without one the rate in force is
\* the user's.
AwaitedIsChosen ==
    /\ Awaited = chosenFS
    /\ pendingFPS # None => pendingFPS = chosenFPS /\ pendingFPS <= Ceiling[Awaited]
    /\ pendingFPS = None => captureFPS = chosenFPS

\* A session has borrowed the user's choice, and nothing is deferred in it.
BorrowedIsChosen ==
    /\ pendingFS = None /\ pendingFPS = None
    /\ nightPrev.fs = chosenFS /\ nightPrev.fps = chosenFPS

\* Of a choice half made, the half the command is not about is the user's already, and
\* the rate that is still to be lowered will be.
HalfIsChosen ==
    /\ handler.cmd # "framesize" => fsizePtr = chosenFS
    /\ handler.cmd = "night" \/ (handler.cmd = "framesize" /\ handler.at # "clamp") =>
        captureFPS = chosenFPS
    /\ handler.at = "clamp" =>
        fsizePtr = chosenFS /\ chosenFPS = Lower(captureFPS, Ceiling[fsizePtr])

ChoiceInv ==
    /\ handler # NoCommand => pendingFS = None /\ pendingFPS = None
    /\ nightFS = None =>
        /\ handler.at # "focus" => nightPrev = NoPrev
        /\ IF handler = NoCommand THEN AwaitedIsChosen ELSE HalfIsChosen
    /\ nightFS # None => BorrowedIsChosen

\* At the start the default is in effect.
LEMMA ChoiceInit == Init => ChoiceInv
  BY SizesHaveCeilings DEF Init, ChoiceInv, AwaitedIsChosen, Awaited

\* Taking what was deferred leaves the user with the same choice.
LEMMA TakingKeepsChoice ==
    ASSUME TypeInv, ChoiceInv, TakePending, UNCHANGED <<nightFS, nightPrev>>
    PROVE  ChoiceInv'
<1> DEFINE takesFS == Taken(pendingFS)
           takesFPS == Taken(pendingFPS)
<1>0. /\ fsizePtr' = IF takesFS THEN pendingFS ELSE fsizePtr
      /\ captureFPS' = IF takesFPS THEN pendingFPS
                       ELSE IF takesFS THEN Lower(captureFPS, Ceiling[pendingFS]) ELSE captureFPS
      /\ pendingFS' = IF takesFS THEN None ELSE pendingFS
      /\ pendingFPS' = IF takesFPS THEN None ELSE pendingFPS
      /\ chosenFPS' = IF takesFS THEN Lower(chosenFPS, Ceiling[pendingFS]) ELSE chosenFPS
      /\ chosenFS' = chosenFS /\ handler' = handler
  BY DEF TakePending, WantFS, WantFPS
<1>a. pendingFS \in Sizes \cup {None} /\ chosenFPS \in Rate /\ captureFPS \in Rate /\ pendingFPS \in Nat
  BY DEF TypeInv, TypeOK, Rate
<1>1. CASE ~takesFS /\ ~takesFPS
  <2>1. UNCHANGED <<fsizePtr, captureFPS, pendingFS, pendingFPS, handler, chosenFS, chosenFPS>>
    BY <1>0, <1>1
  <2> QED
    BY <2>1 DEF ChoiceInv, AwaitedIsChosen, BorrowedIsChosen, HalfIsChosen, Awaited
<1>2. CASE takesFS
  <2>1. pendingFS \in Sizes /\ pendingFS # None /\ Ceiling[pendingFS] \in Rate /\ ~isCapturing
    BY <1>2, <1>a, SizesHaveCeilings DEF Taken
  <2>2. nightFS = None /\ handler = NoCommand /\ AwaitedIsChosen /\ chosenFS = pendingFS /\ nightPrev = NoPrev
    BY <2>1 DEF ChoiceInv, BorrowedIsChosen, AwaitedIsChosen, Awaited, NoCommand
  <2>3. /\ fsizePtr' = pendingFS /\ pendingFS' = None /\ chosenFS' = chosenFS /\ handler' = NoCommand
        /\ chosenFPS' = Lower(chosenFPS, Ceiling[pendingFS]) /\ chosenFPS' \in Rate
    BY <1>0, <1>2, <1>a, <2>1, <2>2, LowerRate
  <2>4. CASE pendingFPS = None
    <3>1. captureFPS = chosenFPS
      BY <2>2, <2>4 DEF AwaitedIsChosen
    <3>2. captureFPS' = chosenFPS' /\ pendingFPS' = None
      BY <1>0, <1>2, <2>3, <2>4, <3>1 DEF Taken
    <3> QED
      BY <2>2, <2>3, <3>2 DEF ChoiceInv, AwaitedIsChosen, Awaited, None
  <2>5. CASE pendingFPS # None
    <3>1. pendingFPS = chosenFPS /\ pendingFPS <= Ceiling[pendingFS]
      BY <2>1, <2>2, <2>5 DEF AwaitedIsChosen, Awaited
    <3>2. chosenFPS' = chosenFPS
      BY <1>a, <2>1, <2>3, <3>1, LowerRate
    <3>3. captureFPS' = pendingFPS /\ pendingFPS' = None
      BY <1>0, <2>1, <2>5 DEF Taken
    <3> QED
      BY <2>2, <2>3, <3>1, <3>2, <3>3 DEF ChoiceInv, AwaitedIsChosen, Awaited, None
  <2> QED
    BY <2>4, <2>5
<1>3. CASE ~takesFS /\ takesFPS
  <2>1. pendingFPS # None /\ ~isCapturing /\ pendingFS = None
    BY <1>3 DEF Taken
  <2>2. /\ nightFS = None /\ handler = NoCommand /\ nightPrev = NoPrev /\ chosenFS = fsizePtr
        /\ pendingFPS = chosenFPS
    BY <2>1 DEF ChoiceInv, BorrowedIsChosen, AwaitedIsChosen, Awaited, NoCommand
  <2>3. /\ fsizePtr' = fsizePtr /\ pendingFS' = pendingFS /\ chosenFS' = chosenFS /\ handler' = NoCommand
        /\ chosenFPS' = chosenFPS /\ captureFPS' = pendingFPS /\ pendingFPS' = None
    BY <1>0, <1>3, <2>2
  <2> QED
    BY <2>1, <2>2, <2>3 DEF ChoiceInv, AwaitedIsChosen, Awaited, None
<1> QED
  BY <1>1, <1>2, <1>3

\* Only settleSensor() touches a choice in the capture task.
LEMMA ChoiceTask == TypeInv /\ ChoiceInv /\ CaptureTask => ChoiceInv'
<1> SUFFICES ASSUME TypeInv, ChoiceInv, CaptureTask PROVE ChoiceInv'
  OBVIOUS
<1>1. CASE SwitchSize \/ Retime \/ SettleRate
  <2>1. TakePending /\ UNCHANGED <<nightFS, nightPrev>>
    BY <1>1 DEF SwitchSize, Retime, RetimeIf, SettleRate, session
  <2> QED
    BY <2>1, TakingKeepsChoice
<1>2. CASE ~SwitchSize /\ ~Retime /\ ~SettleRate
  <2>1. UNCHANGED <<fsizePtr, captureFPS, pendingFS, pendingFPS, handler, chosenFS, chosenFPS, nightFS,
                    nightPrev>>
    BY <1>2 DEF CaptureTask, NoFrame, Decide, IdleThrottle, Open, Save, NotCapturing, Close,
       SettleNot, SwitchDone, choice, pending, session, web
  <2> QED
    BY <2>1 DEF ChoiceInv, AwaitedIsChosen, BorrowedIsChosen, HalfIsChosen, Awaited
<1> QED
  BY <1>1, <1>2

\* The orders in which a choice is lost, or a rate deferred that the size has not.
KeptApart == Races \cap {"lateChoice", "clipInNight", "bothDeferred"} = {}

\* A choice that is deferred waits as the user made it.
LEMMA ChoiceDeferred ==
    ASSUME KeptApart, TypeInv, ChoiceInv, DeferSize \/ DeferRate
    PROVE  ChoiceInv'
<1>0. handler = NoCommand /\ handler' = NoCommand /\ fsizePtr \in Sizes
  BY DEF DeferSize, DeferRate, Command, TypeInv, TypeOK
<1>1. CASE DeferSize
  <2>1. PICK v \in Sizes : /\ pendingFPS <= Ceiling[v]
                           /\ pendingFS' = v /\ chosenFS' = v
    BY <1>1 DEF DeferSize, Provided, KeptApart
  <2>2. nightFS = None
    BY <1>1 DEF DeferSize, Provided, KeptApart
  <2>3. UNCHANGED <<fsizePtr, captureFPS, pendingFPS, chosenFPS, nightFS, nightPrev>>
    BY <1>1 DEF DeferSize, choice, session
  <2> QED
    BY <1>0, <2>1, <2>2, <2>3, SizesHaveCeilings DEF ChoiceInv, AwaitedIsChosen, Awaited
<1>2. CASE DeferRate
  <2>1. PICK r \in UserRates :
          /\ pendingFPS' = Lower(r, Ceiling[fsizePtr]) /\ chosenFPS' = pendingFPS'
          /\ pendingFS # None => pendingFPS' <= Ceiling[pendingFS]
    BY <1>2 DEF DeferRate, Provided, KeptApart
  <2>2. nightFS = None
    BY <1>2 DEF DeferRate, Provided, KeptApart
  <2>3. UNCHANGED <<fsizePtr, captureFPS, pendingFS, chosenFS, nightFS, nightPrev>>
    BY <1>2 DEF DeferRate, choice, session
  <2>5. pendingFPS' \in Rate /\ pendingFPS' <= Ceiling[fsizePtr]
    BY <1>0, <2>1, UserRate
  <2>6. pendingFPS' <= Ceiling[Awaited]
    BY <2>1, <2>5 DEF Awaited
  <2> QED
    BY <1>0, <2>1, <2>2, <2>3, <2>5, <2>6 DEF ChoiceInv, AwaitedIsChosen, Awaited, Rate, None
<1> QED
  BY <1>1, <1>2

\* What is not deferred comes when nothing is.
LEMMA UndeferredAlone ==
    ASSUME KeptApart, TypeInv, ChoiceInv, handler = NoCommand, Undeferred
    PROVE  /\ pendingFS = None /\ pendingFPS = None
           /\ nightFS = None => fsizePtr = chosenFS /\ captureFPS = chosenFPS /\ nightPrev = NoPrev
           /\ nightFS # None => nightPrev.fs = chosenFS /\ nightPrev.fps = chosenFPS /\ nightPrev # NoPrev
<1>1. pendingFS = None /\ pendingFPS = None
  BY DEF Undeferred, Provided, KeptApart
<1>2. nightFS # None => nightPrev # NoPrev
  <2>1. NoPrev.fs = None
    BY DEF NoPrev
  <2> QED
    BY <2>1, SizesHaveCeilings DEF TypeInv, Prevs
<1> QED
  BY <1>1, <1>2 DEF ChoiceInv, AwaitedIsChosen, BorrowedIsChosen, Awaited, NoCommand

\* A command begins with the user's choice as it is, and so does a session, which keeps it aside.
LEMMA ChoiceTested ==
    ASSUME KeptApart, TypeInv, ChoiceInv, TestSize \/ TestRate \/ TestExit \/ EnterNight
    PROVE  ChoiceInv'
<1>0. handler = NoCommand /\ Undeferred /\ UNCHANGED <<pendingFS, pendingFPS, chosenFS, chosenFPS>>
  BY DEF TestSize, TestRate, TestExit, EnterNight, Command, Begin, pending, chosen
<1>a. /\ pendingFS = None /\ pendingFPS = None
      /\ nightFS = None => fsizePtr = chosenFS /\ captureFPS = chosenFPS /\ nightPrev = NoPrev
      /\ nightFS # None => nightPrev.fs = chosenFS /\ nightPrev.fps = chosenFPS /\ nightPrev # NoPrev
  BY <1>0, UndeferredAlone
<1>1. CASE TestSize \/ TestRate \/ TestExit
  <2>1. UNCHANGED <<fsizePtr, captureFPS, nightFS, nightPrev>>
    BY <1>1 DEF TestSize, TestRate, TestExit, choice, session
  <2>2. handler'.at \in {"leave", "write"} /\ handler' # NoCommand
    BY <1>1 DEF TestSize, TestRate, TestExit, Begin, NoCommand
  <2> QED
    BY <1>0, <1>a, <2>1, <2>2 DEF ChoiceInv, BorrowedIsChosen, HalfIsChosen
<1>2. CASE EnterNight
  <2>1. nightFS' # None
    BY <1>2, SensorAssumption, SizesHaveCeilings DEF EnterNight
  <2>2. nightPrev'.fs = chosenFS /\ nightPrev'.fps = chosenFPS
    BY <1>2, <1>a DEF EnterNight
  <2> QED
    BY <1>0, <1>2, <1>a, <2>1, <2>2 DEF EnterNight, ChoiceInv, BorrowedIsChosen
<1> QED
  BY <1>1, <1>2

\* Each step of a command keeps its half of the choice, and the last one has both.
LEMMA ChoiceHandled ==
    ASSUME TypeInv, ChoiceInv, Handler
    PROVE  ChoiceInv'
<1>0. /\ handler # NoCommand /\ TypeOK /\ HandlerKnows
      /\ captureFPS \in Rate /\ chosenFPS \in Rate /\ fsizePtr \in Sizes
      /\ pendingFS = None /\ pendingFPS = None
  <2>1. handler # NoCommand
    BY AtCommand DEF Handler, WriteSize, ClampRate, WriteRate, LeaveNight, FocusDone
  <2> QED
    BY <2>1 DEF TypeInv, TypeOK, ChoiceInv, Rate
<1>a. UNCHANGED <<pendingFS, pendingFPS>>
  BY DEF Handler, WriteSize, ClampRate, WriteRate, LeaveNight, FocusDone, pending
<1>1. CASE WriteSize
  <2>1. /\ handler.cmd = "framesize" /\ handler.at = "write" /\ GoOn("clamp")
        /\ fsizePtr' = handler.v /\ UNCHANGED <<captureFPS, nightFS, nightPrev>>
        /\ IF nightFS = None
           THEN chosenFS' = handler.v /\ chosenFPS' = Lower(chosenFPS, Ceiling[handler.v])
           ELSE UNCHANGED <<chosenFS, chosenFPS>>
    BY <1>1 DEF WriteSize, At, chosen, session
  <2>2. handler'.at = "clamp" /\ handler'.cmd = "framesize" /\ handler' # NoCommand
    BY <1>0, <2>1, GoesOn DEF NoCommand
  <2>3. CASE nightFS = None
    <3>1. captureFPS = chosenFPS /\ nightPrev = NoPrev
      BY <1>0, <2>1, <2>3 DEF ChoiceInv, HalfIsChosen
    <3> QED
      BY <1>0, <1>a, <2>1, <2>2, <2>3, <3>1 DEF ChoiceInv, HalfIsChosen
  <2>4. CASE nightFS # None
    BY <1>0, <1>a, <2>1, <2>2, <2>4 DEF ChoiceInv, BorrowedIsChosen
  <2> QED
    BY <2>3, <2>4
<1>2. CASE ClampRate
  <2>1. /\ handler.at = "clamp" /\ captureFPS' = Lower(captureFPS, Ceiling[fsizePtr])
        /\ handler' = NoCommand
        /\ UNCHANGED <<fsizePtr, chosenFS, chosenFPS, nightFS, nightPrev>>
    BY <1>2 DEF ClampRate, At, chosen, session
  <2> QED
    BY <1>0, <1>a, <2>1 DEF ChoiceInv, HalfIsChosen, AwaitedIsChosen, BorrowedIsChosen, Awaited
<1>3. CASE WriteRate
  <2>1. /\ handler.cmd = "fps" /\ handler.at = "write" /\ handler' = NoCommand
        /\ captureFPS' = handler.v /\ chosenFPS' = handler.v
        /\ UNCHANGED <<fsizePtr, chosenFS, nightFS, nightPrev>>
    BY <1>3 DEF WriteRate, At, session
  <2>2. nightFS = None /\ nightPrev = NoPrev /\ fsizePtr = chosenFS
    BY <1>0, <2>1 DEF HandlerKnows, ChoiceInv, HalfIsChosen
  <2> QED
    BY <1>0, <1>a, <2>1, <2>2 DEF ChoiceInv, AwaitedIsChosen, Awaited
<1>4. CASE LeaveNight
  <2>1. /\ handler.at = "leave" /\ nightFS' = None /\ GoOn("focus")
        /\ fsizePtr' = IF handler.cmd = "framesize" THEN fsizePtr ELSE nightPrev.fs
        /\ handler.cmd # "fps" => captureFPS' = nightPrev.fps
        /\ UNCHANGED <<chosenFS, chosenFPS>>
    BY <1>4 DEF LeaveNight, At, chosen
  <2>2. nightPrev.fs = chosenFS /\ nightPrev.fps = chosenFPS
    BY <1>0, <2>1 DEF HandlerKnows, ChoiceInv, BorrowedIsChosen
  <2>3. handler'.at = "focus" /\ handler'.cmd = handler.cmd /\ handler' # NoCommand
    BY <1>0, <2>1, GoesOn DEF NoCommand
  <2> QED
    BY <1>0, <1>a, <2>1, <2>2, <2>3 DEF ChoiceInv, HalfIsChosen
<1>5. CASE FocusDone
  <2>1. /\ handler.at = "focus" /\ nightPrev' = NoPrev
        /\ IF handler.cmd = "night" THEN handler' = NoCommand ELSE GoOn("write")
        /\ UNCHANGED <<fsizePtr, captureFPS, chosenFS, chosenFPS, nightFS>>
    BY <1>5 DEF FocusDone, At, choice, chosen
  <2>2. nightFS = None /\ HalfIsChosen
    BY <1>0, <2>1 DEF HandlerKnows, ChoiceInv
  <2>3. CASE handler.cmd = "night"
    BY <1>0, <1>a, <2>1, <2>2, <2>3 DEF ChoiceInv, HalfIsChosen, AwaitedIsChosen, Awaited
  <2>4. CASE handler.cmd # "night"
    <3>1. handler'.at = "write" /\ handler'.cmd = handler.cmd /\ handler' # NoCommand
      BY <1>0, <2>1, <2>4, GoesOn DEF NoCommand
    <3> QED
      BY <1>0, <1>a, <2>1, <2>2, <2>4, <3>1 DEF ChoiceInv, HalfIsChosen
  <2> QED
    BY <2>3, <2>4
<1> QED
  BY <1>1, <1>2, <1>3, <1>4, <1>5 DEF Handler

\* No web command loses a choice, when races keep apart.
LEMMA ChoiceWeb == ASSUME KeptApart PROVE TypeInv /\ ChoiceInv /\ Web => ChoiceInv'
<1> SUFFICES ASSUME TypeInv, ChoiceInv, Web PROVE ChoiceInv'
  OBVIOUS
<1>1. CASE SetIdle \/ Select \/ PlayOpen \/ EndPlay
  <2>1. UNCHANGED <<fsizePtr, captureFPS, pendingFS, pendingFPS, handler, chosenFS, chosenFPS, nightFS,
                    nightPrev>>
    BY <1>1 DEF SetIdle, Select, PlayOpen, EndPlay, choice, pending, session, web, chosen
  <2> QED
    BY <2>1 DEF ChoiceInv, AwaitedIsChosen, BorrowedIsChosen, HalfIsChosen, Awaited
<1> QED
  BY <1>1, ChoiceDeferred, ChoiceTested, ChoiceHandled DEF Web

\* Outside a night session and between commands the camera has, or will take, what the user
\* chose last: whatever was deferred, and whatever a session borrowed in between.
THEOREM ChoiceIsKept ==
    ASSUME KeptApart
    PROVE  Spec => []ChoiceKept
<1>1. TypeInv /\ ChoiceInv /\ [Next]_vars => ChoiceInv'
  <2>1. ChoiceInv /\ UNCHANGED vars => ChoiceInv'
    BY DEF vars, choice, pending, session, web, ChoiceInv, AwaitedIsChosen, BorrowedIsChosen,
       HalfIsChosen, Awaited
  <2> QED
    BY <2>1, ChoiceTask, ChoiceWeb DEF Next
<1>2. TypeInv /\ ChoiceInv => ChoiceKept
  <2> SUFFICES ASSUME TypeInv, ChoiceInv, nightFS = None, handler = NoCommand
               PROVE  LET fs  == Awaited
                          fps == IF pendingFPS # None THEN pendingFPS
                                 ELSE Lower(captureFPS, Ceiling[fs])
                      IN  fs = chosenFS /\ fps = Lower(chosenFPS, Ceiling[fs])
    BY DEF ChoiceKept, Awaited
  <2>1. AwaitedIsChosen /\ Ceiling[Awaited] \in Rate /\ chosenFPS \in Rate
    BY SizesHaveCeilings DEF ChoiceInv, TypeInv, TypeOK, AwaitedIsChosen, Rate
  <2> QED
    BY <2>1, LowerRate DEF AwaitedIsChosen
<1> QED
  BY <1>1, <1>2, TypeInit, TypeNext, ChoiceInit, PTL DEF Spec

----------------------------------------------------------------------------
(* The timer has a rate, and a playback its own.                           *)

\* The throttle is on only at a rate, but between a command and its next look.
ThrottleHasRate ==
    /\ idleRateActive => idleFps # 0 \/ pc \in {"frame", "throttle"}

TimerInv == ThrottleHasRate /\ FPS \in Rate /\ timer \in Rate /\ saveFPS \in Rate

LEMMA TimerInit == Init => TimerInv
<1> SUFFICES ASSUME Init PROVE TimerInv
  OBVIOUS
<1>1. fsizePtr \in Sizes /\ captureFPS \in Rate
  BY UserRate DEF Init
<1> QED
  BY <1>1 DEF Init, TimerInv, ThrottleHasRate

\* Under the throttle the rate in force is that of the throttle.
LEMMA DesiredIsRate ==
    ASSUME TypeInv, TimerInv, pc \notin {"frame", "throttle"}, NEW fps \in Rate
    PROVE  Desired(idleRateActive, fps) \in Rate
  BY SensorAssumption DEF TypeInv, TypeOK, TimerInv, ThrottleHasRate, Desired, Rate

LEMMA TimerTask ==
    ASSUME "throttleOff" \notin Races
    PROVE  TypeInv /\ TimerInv /\ CaptureTask => TimerInv'
<1> SUFFICES ASSUME TypeInv, TimerInv, CaptureTask PROVE TimerInv'
  OBVIOUS
<1>a. captureFPS \in Rate /\ (idleFps # 0 => idleFps \in Rate) /\ TypeOK
  BY SensorAssumption DEF TypeInv, TypeOK, Rate
<1>1. CASE NoFrame
  <2>1. idleRateActive => idleFps # 0
    BY <1>1 DEF NoFrame, Provided
  <2> QED
    BY <1>1, <2>1 DEF NoFrame, rate, idle, TimerInv, ThrottleHasRate
<1>2. CASE Decide \/ Save \/ NotCapturing \/ Close \/ SettleNot
  <2>1. /\ UNCHANGED <<idleFps, idleRateActive, FPS, timer, saveFPS>>
        /\ pc \in {"frame", "throttle"} => pc' \in {"frame", "throttle"}
    BY <1>2 DEF Decide, Save, NotCapturing, Close, SettleNot, rate, idle
  <2> QED
    BY <2>1 DEF TimerInv, ThrottleHasRate
<1>3. CASE IdleThrottle
  <2>1. UNCHANGED idleFps
    BY <1>3 DEF IdleThrottle
  <2>2. \/ IdleSetRate(captureFPS, FALSE)
        \/ idleFps # 0 /\ IdleSetRate(idleFps, TRUE)
        \/ (idleRateActive => idleFps # 0) /\ UNCHANGED <<rate, idleRateActive>>
    BY <1>3 DEF IdleThrottle
  <2>3. CASE IdleSetRate(captureFPS, FALSE)
    BY <1>a, <2>3 DEF IdleSetRate, TimerInv, ThrottleHasRate
  <2>4. CASE idleFps # 0 /\ IdleSetRate(idleFps, TRUE)
    BY <1>a, <2>1, <2>4 DEF IdleSetRate, TimerInv, ThrottleHasRate
  <2>5. CASE (idleRateActive => idleFps # 0) /\ UNCHANGED <<rate, idleRateActive>>
    BY <2>1, <2>5 DEF rate, TimerInv, ThrottleHasRate
  <2> QED
    BY <2>2, <2>3, <2>4, <2>5
<1>4. CASE Open
  <2>1. UNCHANGED <<idleFps, idleRateActive, saveFPS>> /\ pc' = "frame" /\ pc = "act"
    BY <1>4 DEF Open, idle
  <2>2. Desired(idleRateActive, captureFPS) \in Rate
    BY <1>a, <2>1, DesiredIsRate
  <2>3. FPS' \in Rate /\ timer' \in Rate
    BY <1>4, <2>2 DEF Open, TimerInv
  <2> QED
    BY <2>1, <2>3 DEF TimerInv, ThrottleHasRate
<1>5. CASE SwitchSize \/ Retime \/ SettleRate
  <2>1. /\ TakePending /\ UNCHANGED <<idleFps, idleRateActive, saveFPS>>
        /\ pc = "settle"
    BY <1>5 DEF SwitchSize, Retime, RetimeIf, SettleRate, rate, idle, Settling
  <2>2. idleRateActive => idleFps # 0
    BY <2>1 DEF TimerInv, ThrottleHasRate
  <2>3. Desired(idleRateActive, WantFPS) \in Rate
    BY <1>a, <2>1, DesiredIsRate, WantedIsRate
  <2>4. FPS' \in Rate /\ timer' \in Rate
    BY <1>5, <2>3 DEF SwitchSize, Retime, RetimeIf, SettleRate, Pace, TimerInv, rate
  <2> QED
    BY <2>1, <2>2, <2>4 DEF TimerInv, ThrottleHasRate
<1>6. CASE SwitchDone
  <2>1. UNCHANGED <<idleFps, idleRateActive, saveFPS>> /\ pc = "switched"
    BY <1>6 DEF SwitchDone, idle
  <2>2. FPS' \in Rate /\ timer' \in Rate
    BY <1>6, <1>a, <2>1, DesiredIsRate DEF SwitchDone, Pace
  <2> QED
    BY <2>1, <2>2 DEF TimerInv, ThrottleHasRate
<1> QED
  BY <1>1, <1>2, <1>3, <1>4, <1>5, <1>6 DEF CaptureTask

\* What a command leaves the throttle with, it looks at before it is used.
LEMMA ThrottleIsTold ==
    ASSUME "throttleOff" \notin Races, TimerInv, ThrottleLooks, UNCHANGED <<idleRateActive, pc>>
    PROVE  ThrottleHasRate'
  BY DEF ThrottleLooks, Provided, TimerInv, ThrottleHasRate

LEMMA TimerWeb ==
    ASSUME "throttleOff" \notin Races
    PROVE  TypeInv /\ TimerInv /\ Web => TimerInv'
<1> SUFFICES ASSUME TypeInv, TimerInv, Web PROVE TimerInv'
  OBVIOUS
<1>0. UNCHANGED <<pc, idleRateActive>>
  BY DEF Web, Handler, DeferSize, TestSize, WriteSize, ClampRate, DeferRate, TestRate, WriteRate,
     SetIdle, EnterNight, TestExit, LeaveNight, FocusDone, Select, PlayOpen, EndPlay, task, idle
<1>1. CASE DeferSize \/ DeferRate \/ TestSize \/ TestRate \/ TestExit \/ WriteSize \/ ClampRate \/ FocusDone
  <2>1. UNCHANGED <<idleFps, FPS, timer, saveFPS>>
    BY <1>1 DEF DeferSize, DeferRate, TestSize, TestRate, TestExit, WriteSize, ClampRate, FocusDone,
       rate, idle
  <2> QED
    BY <1>0, <2>1 DEF TimerInv, ThrottleHasRate
<1>2. CASE WriteRate
  <2>1. handler.v \in Rate
    BY <1>2 DEF WriteRate, TypeInv, HandlerKnows
  <2> QED
    BY <1>0, <1>2, <2>1 DEF WriteRate, Pace, idle, TimerInv, ThrottleHasRate
<1>3. CASE SetIdle
  <2>1. ThrottleLooks /\ UNCHANGED rate
    BY <1>3 DEF SetIdle
  <2> QED
    BY <1>0, <2>1, ThrottleIsTold DEF TimerInv, rate
<1>4. CASE EnterNight
  <2>1. ThrottleLooks /\ FPS' = 1 /\ UNCHANGED <<timer, saveFPS>>
    BY <1>4 DEF EnterNight
  <2> QED
    BY <1>0, <2>1, ThrottleIsTold DEF TimerInv, Rate
<1>5. CASE LeaveNight
  <2>1. nightPrev.fps \in Rate
    BY <1>5 DEF LeaveNight, At, TypeInv, HandlerKnows, Prevs
  <2>2. ThrottleLooks /\ FPS' \in {FPS, nightPrev.fps} /\ UNCHANGED <<timer, saveFPS>>
    BY <1>5 DEF LeaveNight
  <2> QED
    BY <1>0, <2>1, <2>2, ThrottleIsTold DEF TimerInv
<1>6. CASE Select \/ PlayOpen \/ EndPlay
  <2>1. /\ UNCHANGED <<idleFps, saveFPS>>
        /\ FPS' \in {FPS, RecFPS, saveFPS} /\ timer' \in {timer, RecFPS, saveFPS}
    BY <1>6 DEF Select, PlayOpen, EndPlay, Pace, idle, rate
  <2> QED
    BY <1>0, <2>1, SensorAssumption DEF TimerInv, ThrottleHasRate, Rate
<1> QED
  BY <1>1, <1>2, <1>3, <1>4, <1>5, <1>6 DEF Web, Handler

\* The frame timer is never started with a rate of 0, by which controlFrameTimer() would
\* divide, if a frame comes in the pass after the throttle is switched off.
THEOREM TimerIsPaced == ASSUME "throttleOff" \notin Races PROVE Spec => []TimerHasRate
<1>1. TimerInv /\ UNCHANGED vars => TimerInv'
  BY DEF vars, rate, idle, task, TimerInv, ThrottleHasRate
<1>2. TypeInv /\ TimerInv /\ [Next]_vars => TimerInv'
  BY <1>1, TimerTask, TimerWeb DEF Next
<1>3. TimerInv => TimerHasRate
  BY DEF TimerInv, TimerHasRate, Rate
<1> QED
  BY <1>2, <1>3, TypeInit, TypeNext, TimerInit, PTL DEF Spec

\* A playback runs unthrottled and never across the switch of a size.
LoanInv ==
    isPlaying => /\ FPS = RecFPS /\ timer = RecFPS
                 /\ doPlayback /\ ~idleRateActive /\ pc # "switched"

\* A playback keeps the rate of its recording until it ends: neither the throttle nor
\* settleSensor() paces it, if a command during a playback does not change the rate in force.
THEOREM PlaybackKeepsPace ==
    ASSUME Races \cap {"inPlayback", "throttledPlay", "switchRace"} = {}
    PROVE  Spec => []PlaybackPaced
<1>1. LoanInv /\ CaptureTask => LoanInv'
  <2> SUFFICES ASSUME LoanInv, CaptureTask, isPlaying' PROVE LoanInv'
    BY DEF LoanInv
  <2>1. CASE NoFrame \/ Decide \/ Save \/ NotCapturing \/ Close \/ SettleNot
    BY <2>1 DEF NoFrame, Decide, Save, NotCapturing, Close, SettleNot, rate, idle, play, LoanInv
  <2>2. CASE IdleThrottle
    <3>1. isPlaying /\ pc' = "act" /\ UNCHANGED doPlayback
      BY <2>2 DEF IdleThrottle, play
    <3>2. UNCHANGED <<rate, idleRateActive>>
      BY <2>2, <3>1 DEF IdleThrottle, LoanInv
    <3> QED
      BY <3>1, <3>2 DEF LoanInv, rate
  <2>3. CASE Open
    BY <2>3 DEF Open, StopPlaying
  <2>4. CASE SwitchSize \/ Retime \/ SettleRate
    BY <2>4 DEF SwitchSize, Retime, RetimeIf, SettleRate, Settling, play
  <2>5. CASE SwitchDone
    BY <2>5 DEF SwitchDone, play, LoanInv
  <2> QED
    BY <2>1, <2>2, <2>3, <2>4, <2>5 DEF CaptureTask
<1>2. LoanInv /\ Web => LoanInv'
  <2> SUFFICES ASSUME LoanInv, Web, isPlaying' PROVE LoanInv'
    BY DEF LoanInv
  <2>1. CASE DeferSize \/ DeferRate \/ TestSize \/ TestRate \/ TestExit \/ WriteSize \/ ClampRate
             \/ FocusDone \/ SetIdle \/ Select
    BY <2>1 DEF DeferSize, DeferRate, TestSize, TestRate, TestExit, WriteSize, ClampRate, FocusDone,
       SetIdle, Select, rate, idle, play, task, LoanInv
  <2>2. CASE WriteRate \/ EnterNight \/ LeaveNight
    <3>1. isPlaying /\ FPS' = FPS /\ UNCHANGED <<doPlayback, idleRateActive, pc>>
      BY <2>2 DEF WriteRate, EnterNight, LeaveNight, SparesPlayback, Provided, idle, play, task
    <3>2. timer' \in {timer, FPS'}
      BY <2>2 DEF WriteRate, EnterNight, LeaveNight, Pace
    <3> QED
      BY <3>1, <3>2 DEF LoanInv
  <2>3. CASE PlayOpen
    BY <2>3 DEF PlayOpen, Provided, Pace, idle, task, LoanInv
  <2>4. CASE EndPlay
    BY <2>4 DEF EndPlay
  <2> QED
    BY <2>1, <2>2, <2>3, <2>4 DEF Web, Handler
<1>3. LoanInv /\ UNCHANGED vars => LoanInv'
  BY DEF vars, rate, idle, play, task, LoanInv
<1>4. LoanInv /\ [Next]_vars => LoanInv'
  BY <1>1, <1>2, <1>3 DEF Next
<1>5. Init => LoanInv
  BY DEF Init, LoanInv
<1>6. LoanInv => PlaybackPaced
  BY DEF LoanInv, PlaybackPaced
<1> QED
  BY <1>4, <1>5, <1>6, PTL DEF Spec
----------------------------------------------------------------------------
(* A frame is read with the timing of its own size.                         *)

\* The orders in which a size is left tuned for another.
TunedApart ==
    /\ ClipApart
    /\ Races \cap {"thereAndBack", "throttledPlay", "lateChoice", "switchRace"} = {}

\* A size waits beside one the sensor has, but in a pass that is still to open its file.
Opening == isCapturing /\ ~prevCapture /\ pc \in {"throttle", "act"}
WaitsAlone == pendingFS # None => fsizePtr = sensorFS \/ Opening

PlaysUnthrottled == isPlaying => doPlayback /\ ~idleRateActive

\* The throttle tunes the sensor for the size that is wanted: until the pass has made that
\* the sensor's there is a size to switch to, or a retime to make.
TunedAhead ==
    tuning.fs # sensorFS =>
        /\ pc \in {"act", "close", "settle"} /\ ~isPlaying
        /\ IF isCapturing THEN Opening /\ fsizePtr # sensorFS
                          ELSE pendingFS = None /\ (fsizePtr # sensorFS \/ retimePending)

\* A session whose size the sensor has not got yet is still to be tuned for, and the size
\* chosen in it without leaving it is its own.
SessionAwaited ==
    /\ handler # NoCommand => pendingFS = None
    /\ nightFS # None /\ fsizePtr # sensorFS => retimePending
    /\ nightFS # None /\ handler.cmd = "framesize" /\ handler.at = "write" => handler.v = fsizePtr
    /\ pc = "switched" => fsizePtr = sensorFS

Points == {"frame", "throttle", "act", "close", "settle", "switched"}
FitInv == pc \in Points /\ WaitsAlone /\ PlaysUnthrottled /\ TunedAhead /\ SessionAwaited

LEMMA FitTask == ASSUME TunedApart PROVE GeometryInv /\ FitInv /\ CaptureTask => FitInv'
<1> SUFFICES ASSUME GeometryInv, FitInv, CaptureTask PROVE FitInv'
  OBVIOUS
<1>0. UNCHANGED <<nightFS, handler>>
  BY DEF CaptureTask, NoFrame, Decide, IdleThrottle, Open, Save, NotCapturing, Close, SettleNot,
     SwitchSize, SwitchDone, Retime, RetimeIf, SettleRate, TakePending, session, web
<1>a. ASSUME UNCHANGED <<fsizePtr, sensorFS, pendingFS>>, retimePending' = retimePending, pc' # "switched"
      PROVE  SessionAwaited'
  BY <1>0, <1>a DEF FitInv, SessionAwaited
<1>b. ASSUME fsizePtr' = sensorFS', pendingFS' \in {None, pendingFS},
             handler # NoCommand => fsizePtr' = fsizePtr
      PROVE  SessionAwaited'
  BY <1>0, <1>b DEF FitInv, SessionAwaited, NoCommand
<1>c. ASSUME TakePending
      PROVE  pendingFS' \in {None, pendingFS} /\ (handler # NoCommand => fsizePtr' = fsizePtr)
  BY <1>c DEF TakePending, WantFS, Taken, FitInv, SessionAwaited
<1>d. ASSUME pc' \in Points, WaitsAlone', PlaysUnthrottled', TunedAhead', SessionAwaited' PROVE FitInv'
  BY <1>d DEF FitInv, Points
<1> USE DEF FitInv, Points, WaitsAlone, PlaysUnthrottled, TunedAhead, Opening
<1>1. CASE NoFrame \/ Decide \/ SettleNot \/ NotCapturing \/ Close
  <2>1. SessionAwaited'
    BY <1>1, <1>a DEF NoFrame, Decide, SettleNot, NotCapturing, Close, choice, pending, sensor
  <2> QED
    BY <1>1, <2>1 DEF NoFrame, Decide, SettleNot, NotCapturing, Close, choice, pending, sensor, idle, play
<1>2. CASE Save
  <2>1. SessionAwaited'
    BY <1>2, <1>a DEF Save, choice, pending, sensor
  <2> QED
    BY <1>2, <2>1 DEF Save, choice, pending, sensor, idle, play
<1>3. CASE IdleThrottle
  <2>1. /\ pc = "throttle" /\ pc' = "act"
        /\ UNCHANGED <<fsizePtr, pendingFS, retimePending, sensorFS, isCapturing, prevCapture,
                       doPlayback, isPlaying>>
    BY <1>3 DEF IdleThrottle, choice, pending, play
  <2>a. \/ idleRateActive /\ IdleSetRate(captureFPS, FALSE)
        \/ ~isCapturing /\ ~doPlayback /\ IdleSetRate(idleFps, TRUE)
        \/ UNCHANGED <<tuning, idleRateActive>>
    BY <1>3 DEF IdleThrottle
  <2>b. isCapturing /\ prevCapture => ~idleRateActive
    BY <2>1 DEF GeometryInv, OpenIsSettled, InClip
  <2>c. \A fps, on : IdleSetRate(fps, on) => tuning'.fs = fsizePtr
    BY DEF IdleSetRate, Tuned
  <2>2. \/ ~isPlaying /\ tuning'.fs = fsizePtr /\ ~(isCapturing /\ prevCapture)
        \/ UNCHANGED <<tuning, idleRateActive>>
    <3>1. CASE idleRateActive /\ IdleSetRate(captureFPS, FALSE)
      BY <2>b, <2>c, <3>1
    <3>2. CASE ~isCapturing /\ ~doPlayback /\ IdleSetRate(idleFps, TRUE)
      BY <2>c, <3>2
    <3> QED
      BY <2>a, <3>1, <3>2
  <2>3. isPlaying => UNCHANGED idleRateActive
    BY <1>3 DEF IdleThrottle
  <2>4. SessionAwaited'
    BY <1>a, <2>1
  <2> QED
    BY <2>1, <2>2, <2>3, <2>4
<1>4. CASE Open
  <2>1. /\ fsizePtr' = sensorFS' /\ ~isPlaying'
        /\ tuning'.fs = sensorFS' \/ (fsizePtr = sensorFS /\ UNCHANGED sensor)
    BY <1>4 DEF Open, StopPlaying, Tuned, choice, sensor, Provided, TunedApart, ClipApart
  <2>2. /\ pc = "act" /\ pc' = "frame" /\ isCapturing
        /\ UNCHANGED <<fsizePtr, pendingFS, isCapturing, prevCapture>>
    BY <1>4 DEF Open, choice, pending
  <2>3. SessionAwaited'
    BY <1>b, <2>1, <2>2
  <2>4. TunedAhead'
    BY <2>1, <2>2 DEF sensor
  <2> QED
    BY <2>1, <2>2, <2>3, <2>4
<1>5. CASE SwitchSize
  <2>1. /\ fsizePtr' = sensorFS' /\ tuning'.fs = sensorFS' /\ pc' \in Points
        /\ UNCHANGED <<doPlayback, isPlaying, idleRateActive>>
    BY <1>5 DEF SwitchSize, TakePending, Tuned, play, idle, Provided, TunedApart, ClipApart
  <2>2. SessionAwaited'
    BY <1>5, <1>b, <1>c, <2>1 DEF SwitchSize
  <2> QED
    BY <2>1, <2>2
<1>6. CASE SwitchDone
  <2>1. fsizePtr = sensorFS /\ UNCHANGED <<fsizePtr, sensorFS, pendingFS>>
    BY <1>6 DEF SwitchDone, choice, sensor, SessionAwaited
  <2>2. SessionAwaited'
    BY <1>b, <2>1
  <2> QED
    BY <1>6, <2>2 DEF SwitchDone, choice, sensor, idle, play
<1>7. CASE Retime
  <2>1. /\ fsizePtr' = sensorFS' /\ tuning'.fs = sensorFS' /\ pc' \in Points
        /\ UNCHANGED <<doPlayback, isPlaying, idleRateActive>>
    BY <1>7 DEF Retime, RetimeIf, TakePending, Tuned, play, idle
  <2>2. SessionAwaited'
    BY <1>7, <1>b, <1>c, <2>1 DEF Retime, RetimeIf
  <2> QED
    BY <2>1, <2>2
<1>8. CASE SettleRate
  <2>1. /\ fsizePtr' = sensorFS' /\ pc' \in Points
        /\ UNCHANGED <<sensorFS, tuning, doPlayback, isPlaying, idleRateActive>>
    BY <1>8 DEF SettleRate, TakePending, sensor, play, idle
  <2>2. tuning.fs = sensorFS
    BY <1>8 DEF SettleRate, Settling, WantFS, WantRetime, Taken
  <2>3. SessionAwaited'
    BY <1>8, <1>b, <1>c, <2>1 DEF SettleRate
  <2> QED
    BY <2>1, <2>2, <2>3
<1> QED
  BY <1>1, <1>2, <1>3, <1>4, <1>5, <1>6, <1>7, <1>8 DEF CaptureTask

\* What the web server changes at once it changes with nothing deferred, and leaves the
\* size that is wanted to be switched to, or a retime.
LEMMA FitAtOnce ==
    ASSUME GeometryInv, FitInv,
           UNCHANGED <<sensorFS, tuning, pc, isCapturing, prevCapture, idleRateActive, doPlayback,
                       isPlaying, pendingFS>>,
           ~isCapturing, pendingFS = None, SessionAwaited',
           \/ retimePending'
           \/ retimePending' = retimePending /\ (fsizePtr' = sensorFS => fsizePtr = sensorFS \/ retimePending)
    PROVE  FitInv'
  BY DEF FitInv, Points, WaitsAlone, PlaysUnthrottled, TunedAhead, Opening

LEMMA FitHandler ==
    ASSUME TunedApart, TypeInv, GeometryInv, FitInv, Handler
    PROVE  FitInv'
<1>0. /\ handler # NoCommand /\ TypeOK /\ HandlerKnows /\ SessionAwaited /\ ~isCapturing /\ pendingFS = None
      /\ pc # "switched"
  <2>1. handler # NoCommand /\ pc # "switched"
    BY AtCommand DEF Handler, WriteSize, ClampRate, WriteRate, LeaveNight, FocusDone, At, Between, Provided,
       TunedApart
  <2> QED
    BY <2>1 DEF TypeInv, GeometryInv, CommandsApart, FitInv, SessionAwaited
<1>a. UNCHANGED <<sensorFS, tuning, pc, isCapturing, prevCapture, idleRateActive, doPlayback,
                  isPlaying, pendingFS>>
  BY DEF Handler, WriteSize, ClampRate, WriteRate, LeaveNight, FocusDone, sensor, task, idle, play, pending
<1>1. CASE WriteSize
  <2>1. /\ handler.cmd = "framesize" /\ handler.at = "write" /\ GoOn("clamp")
        /\ fsizePtr' = handler.v /\ UNCHANGED <<retimePending, nightFS>>
        /\ handler.v = sensorFS => handler.v = fsizePtr
    BY <1>1 DEF WriteSize, At, pending, session, Provided, TunedApart
  <2>2. handler'.at = "clamp" /\ handler'.cmd = "framesize" /\ handler' # NoCommand
    BY <1>0, <2>1, GoesOn DEF NoCommand
  <2>3. SessionAwaited'
    BY <1>0, <1>a, <2>1, <2>2 DEF SessionAwaited
  <2> QED
    BY <1>0, <1>a, <2>1, <2>3, FitAtOnce
<1>2. CASE ClampRate \/ WriteRate
  <2>1. /\ handler' = NoCommand /\ UNCHANGED <<fsizePtr, nightFS>>
        /\ retimePending' \/ retimePending' = retimePending
    BY <1>2 DEF ClampRate, WriteRate, pending, session
  <2>2. SessionAwaited'
    BY <1>0, <1>a, <2>1 DEF SessionAwaited, NoCommand
  <2> QED
    BY <1>0, <1>a, <2>1, <2>2, FitAtOnce
<1>3. CASE LeaveNight
  <2>1. /\ handler.at = "leave" /\ nightFS' = None /\ GoOn("focus")
        /\ fsizePtr' = IF handler.cmd = "framesize" THEN fsizePtr ELSE nightPrev.fs
        /\ UNCHANGED retimePending
    BY <1>3 DEF LeaveNight, At, pending
  <2>2. nightFS # None
    BY <1>0, <2>1 DEF HandlerKnows
  <2>3. SessionAwaited'
    BY <1>0, <1>a, <2>1 DEF SessionAwaited
  <2>4. fsizePtr = sensorFS \/ retimePending
    BY <1>0, <2>2 DEF SessionAwaited
  <2> QED
    BY <1>0, <1>a, <2>1, <2>3, <2>4, FitAtOnce
<1>4. CASE FocusDone
  <2>1. retimePending' /\ nightFS = None /\ UNCHANGED <<fsizePtr, nightFS>>
    BY <1>0, <1>4 DEF FocusDone, At, HandlerKnows, choice
  <2>2. SessionAwaited'
    BY <1>0, <1>a, <2>1 DEF SessionAwaited
  <2> QED
    BY <1>0, <1>a, <2>1, <2>2, FitAtOnce
<1> QED
  BY <1>1, <1>2, <1>3, <1>4 DEF Handler

LEMMA FitWeb == ASSUME TunedApart PROVE TypeInv /\ GeometryInv /\ FitInv /\ Web => FitInv'
<1> SUFFICES ASSUME TypeInv, GeometryInv, FitInv, Web PROVE FitInv'
  OBVIOUS
<1>0. CASE Handler
  BY <1>0, FitHandler
<1>a. CASE ~Handler
  <2>0. UNCHANGED <<sensorFS, tuning, pc, isCapturing, prevCapture, idleRateActive>>
    BY <1>a DEF Web, DeferSize, TestSize, DeferRate, TestRate, SetIdle, EnterNight, TestExit, Select,
       PlayOpen, EndPlay, task, sensor, idle
  <2>1. CASE DeferSize
    <3>1. /\ isCapturing /\ handler = NoCommand
          /\ UNCHANGED <<fsizePtr, retimePending, doPlayback, isPlaying, handler, nightFS>>
      BY <2>1 DEF DeferSize, Command, choice, play, session
    <3>2. fsizePtr = sensorFS \/ Opening
      BY <2>0, <3>1 DEF GeometryInv, OpenIsSettled, InClip, SwitchesIdle, FitInv, Points, Opening
    <3>3. SessionAwaited'
      BY <2>0, <3>1 DEF FitInv, SessionAwaited
    <3> QED
      BY <2>0, <3>1, <3>2, <3>3 DEF FitInv, Points, WaitsAlone, PlaysUnthrottled, TunedAhead, Opening
  <2>2. CASE DeferRate \/ SetIdle \/ Select \/ EndPlay \/ PlayOpen
    <3>1. UNCHANGED <<fsizePtr, pendingFS, retimePending, handler, nightFS>>
      BY <2>2 DEF DeferRate, SetIdle, Select, EndPlay, PlayOpen, choice, pending, session, web
    <3>2. SessionAwaited'
      BY <2>0, <3>1 DEF FitInv, SessionAwaited
    <3>3. \/ UNCHANGED <<doPlayback, isPlaying>>
          \/ ~isPlaying'
          \/ isPlaying' /\ ~idleRateActive /\ tuning.fs = sensorFS /\ UNCHANGED doPlayback /\ doPlayback
      BY <2>2 DEF DeferRate, SetIdle, Select, EndPlay, PlayOpen, play, Provided, TunedApart
    <3> QED
      BY <2>0, <3>1, <3>2, <3>3 DEF FitInv, Points, WaitsAlone, PlaysUnthrottled, TunedAhead, Opening
  <2>3. CASE TestSize \/ TestRate \/ TestExit
    <3>1. /\ ~isCapturing /\ pendingFS = None
          /\ UNCHANGED <<fsizePtr, pendingFS, retimePending, doPlayback, isPlaying, nightFS>>
      BY <2>3 DEF TestSize, TestRate, TestExit, Undeferred, Provided, TunedApart, ClipApart, choice, pending,
         play, session
    <3>2. \/ /\ handler'.cmd = "framesize"
             /\ handler'.at = IF nightFS # None /\ handler'.v # fsizePtr THEN "leave" ELSE "write"
          \/ handler'.cmd # "framesize"
      BY <2>3 DEF TestSize, TestRate, TestExit, Begin
    <3>3. SessionAwaited'
      BY <2>0, <3>1, <3>2 DEF FitInv, SessionAwaited
    <3> QED
      BY <2>0, <3>1, <3>3, FitAtOnce
  <2>4. CASE EnterNight
    <3>1. /\ ~isCapturing /\ pendingFS = None /\ handler = NoCommand /\ pc # "switched" /\ retimePending'
          /\ UNCHANGED <<pendingFS, doPlayback, isPlaying, handler>>
      BY <2>4 DEF EnterNight, Command, Between, Undeferred, Provided, TunedApart, ClipApart, play
    <3>2. SessionAwaited'
      BY <2>0, <3>1 DEF SessionAwaited, NoCommand
    <3> QED
      BY <2>0, <3>1, <3>2, FitAtOnce
  <2> QED
    BY <1>a, <2>1, <2>2, <2>3, <2>4 DEF Web
<1> QED
  BY <1>0, <1>a

\* Every frame is read with the timing of the size the sensor has, even when the throttle has
\* tuned it for the next size: for any sizes, rates and commands, without the orders in TunedApart.
THEOREM FrameHasItsTiming == ASSUME TunedApart PROVE Spec => []TimingFitsSize
<1>1. Init => FitInv
  BY DEF Init, FitInv, Points, WaitsAlone, PlaysUnthrottled, TunedAhead, SessionAwaited, Tuned
<1>2. TypeInv /\ GeometryInv /\ FitInv /\ [Next]_vars => FitInv'
  <2>1. FitInv /\ UNCHANGED vars => FitInv'
    BY DEF vars, choice, pending, sensor, idle, session, task, play, web, FitInv, Points, WaitsAlone,
       PlaysUnthrottled, TunedAhead, SessionAwaited, Opening
  <2> QED
    BY <2>1, FitTask, FitWeb DEF Next
<1>3. FitInv => TimingFitsSize
  BY DEF FitInv, TunedAhead, TimingFitsSize
<1>4. ClipApart
  BY DEF TunedApart
<1> QED
  BY <1>1, <1>2, <1>3, <1>4, TypeInit, TypeNext, GeometryInit, GeometryNext, PTL DEF Spec

----------------------------------------------------------------------------
(* The governor: the quality stays between the user's and the coarsest,    *)
(* and a boost never outlives its clip.                                    *)
Qs == 1..QMax

GovTyped ==
    /\ sensorQ \in Qs /\ govBaseQ \in Qs /\ govUserQ \in Qs
    /\ sdGovBoost \in Nat
    /\ recording \in BOOLEAN
    /\ nightPrevQ \in Qs \cup {NoQ} /\ nightSeedQ \in Qs \cup {NoQ}
    /\ asked \in UserQs \cup {NoQ}

\* What a session would put back or seed is no finer than what the user wants.
SessionAbove(q) ==
    /\ nightPrevQ # NoQ => q <= nightPrevQ
    /\ nightSeedQ # NoQ => q <= nightSeedQ

\* Between commands: everything is above the user's quality, and without a boost
\* the sensor is at the base.
AtRestBounds ==
    asked = NoQ =>
        /\ govUserQ <= govBaseQ /\ govUserQ <= sensorQ
        /\ sdGovBoost = 0 => sensorQ = govBaseQ
        /\ SessionAbove(govUserQ)

\* In the middle of the quality command: the sensor has the new one alone.
InCommandBounds == asked # NoQ => sensorQ = asked /\ SessionAbove(asked)

BoostIsOfClip == ~recording => sdGovBoost = 0

GovInv == GovTyped /\ AtRestBounds /\ InCommandBounds /\ BoostIsOfClip

\* A quality capped from above stays within the range.
LEMMA CappedIn ==
    ASSUME NEW a \in Qs, NEW k \in Nat, NEW u \in Nat, u <= a
    PROVE  Capped(QMax, a + k) \in Qs /\ u <= Capped(QMax, a + k) /\ Capped(QMax, a) = a
  BY GovernorAssumption DEF Capped, Qs

\* The governor begins at the quality of the user.
LEMMA GovInitInv == GovInit => GovInv
<1> SUFFICES ASSUME GovInit PROVE GovInv
  OBVIOUS
<1>1. govUserQ \in Qs /\ govBaseQ = govUserQ /\ sensorQ = govUserQ /\ Qs \subseteq Nat
  BY GovernorAssumption DEF GovInit, Qs
<1>2. govUserQ <= govUserQ
  BY <1>1
<1>3. GovTyped
  BY <1>1 DEF GovInit, GovTyped
<1> QED
  BY <1>1, <1>2, <1>3 DEF GovInit, GovInv, AtRestBounds, InCommandBounds, BoostIsOfClip, SessionAbove

\* The four cases of a saved frame keep the sensor at or above the base.
LEMMA SaveFrameBounds ==
    ASSUME GovRaces = {}, GovInv, SaveFrame
    PROVE  GovInv'
<1>1. asked = NoQ /\ recording /\ UNCHANGED <<govUserQ, recording, nightQ, asked>>
  BY DEF SaveFrame, Undisturbed, GovProvided
<1>2. /\ govBaseQ \in Qs /\ sensorQ \in Qs /\ govUserQ \in Qs /\ sdGovBoost \in Nat
      /\ govUserQ <= govBaseQ /\ govUserQ <= sensorQ /\ QMax \in Nat
      /\ sdGovBoost = 0 => sensorQ = govBaseQ
  BY <1>1, GovernorAssumption DEF GovInv, GovTyped, AtRestBounds
<1>3. ASSUME govBaseQ' \in Qs, sensorQ' \in Qs, sdGovBoost' \in Nat,
             govUserQ <= govBaseQ', govUserQ <= sensorQ',
             sdGovBoost' = 0 => sensorQ' = govBaseQ'
      PROVE  GovInv'
  BY <1>1, <1>3 DEF GovInv, GovTyped, AtRestBounds, InCommandBounds, BoostIsOfClip, SessionAbove, nightQ
<1>4. CASE Push
  <2>1. CASE sdGovBoost < BoostCeiling /\ sinceStep >= WinFrames
    <3>1. /\ sdGovBoost' = sdGovBoost + 1 /\ govBaseQ' = govBaseQ
          /\ sensorQ' = Capped(QMax, govBaseQ + sdGovBoost + 1)
      BY <1>4, <2>1 DEF Push
    <3>2. sensorQ' \in Qs /\ govUserQ <= sensorQ'
      BY <1>2, <3>1, CappedIn DEF Capped, Qs
    <3> QED
      BY <1>2, <1>3, <3>1, <3>2
  <2>2. CASE ~(sdGovBoost < BoostCeiling /\ sinceStep >= WinFrames)
    BY <1>2, <1>3, <1>4, <2>2 DEF Push
  <2> QED
    BY <2>1, <2>2
<1>5. CASE Relax
  <2>1. CASE lowFor > RelaxFrames
    <3>1. /\ sdGovBoost' = sdGovBoost - 1 /\ govBaseQ' = govBaseQ /\ sdGovBoost > 0
          /\ sensorQ' = Capped(QMax, govBaseQ + sdGovBoost - 1)
      BY <1>5, <2>1 DEF Relax, Relaxes
    <3>2. sdGovBoost' = 0 => sensorQ' = govBaseQ
      BY <1>2, <3>1 DEF Capped, Qs
    <3>3. sensorQ' \in Qs /\ govUserQ <= sensorQ'
      BY <1>2, <3>1 DEF Capped, Qs
    <3> QED
      BY <1>2, <1>3, <3>1, <3>2, <3>3
  <2>2. CASE ~(lowFor > RelaxFrames)
    BY <1>2, <1>3, <1>5, <2>2 DEF Relax
  <2> QED
    BY <2>1, <2>2
<1>6. CASE Ease
  <2>1. CASE Safe /\ easeFor > EaseFrames
    <3>1. /\ govBaseQ' = govBaseQ - 1 /\ sensorQ' = govBaseQ - 1 /\ sdGovBoost' = sdGovBoost
          /\ govUserQ < govBaseQ
      BY <1>2, <1>6, <2>1 DEF Ease, Eases, Qs
    <3>2. govBaseQ - 1 \in Qs /\ govUserQ <= govBaseQ - 1
      BY <1>2, <3>1 DEF Qs
    <3> QED
      BY <1>2, <1>3, <3>1, <3>2
  <2>2. CASE ~(Safe /\ easeFor > EaseFrames)
    BY <1>2, <1>3, <1>6, <2>2 DEF Ease
  <2> QED
    BY <2>1, <2>2
<1>7. CASE Hold
  BY <1>2, <1>3, <1>7 DEF Hold
<1> QED
  BY <1>4, <1>5, <1>6, <1>7 DEF SaveFrame

\* Every step of governor, clip, session and command keeps the bounds.
LEMMA GovStep ==
    ASSUME GovRaces = {}, GovInv, [GovNext]_govVars
    PROVE  GovInv'
<1> USE DEF GovInv, GovTyped, AtRestBounds, InCommandBounds, BoostIsOfClip, SessionAbove
<1>1. CASE SceneChanges
  BY <1>1 DEF SceneChanges, nightQ
<1>2. CASE AskQuality
  <2>1. /\ asked = NoQ /\ asked' \in UserQs /\ sensorQ' = asked'
        /\ nightPrevQ = NoQ /\ nightSeedQ = NoQ
        /\ UNCHANGED <<govBaseQ, govUserQ, sdGovBoost, recording, nightPrevQ, nightSeedQ>>
    BY <1>2 DEF AskQuality, GovProvided, nightQ
  <2>2. asked' \in Qs /\ asked' # NoQ
    BY <2>1, GovernorAssumption DEF Qs, NoQ
  <2> QED
    BY <2>1, <2>2
<1>3. CASE GovRebaseQuality
  <2>1. /\ asked # NoQ /\ govBaseQ' = asked /\ govUserQ' = asked /\ asked' = NoQ
        /\ UNCHANGED <<sensorQ, sdGovBoost, recording, nightPrevQ, nightSeedQ>>
    BY <1>3 DEF GovRebaseQuality, nightQ
  <2>2. asked \in Qs /\ asked <= asked
    BY <2>1, GovernorAssumption DEF Qs
  <2> QED
    BY <2>1, <2>2
<1>4. CASE NightEnter
  <2>1. UNCHANGED <<sensorQ, govBaseQ, govUserQ, sdGovBoost, recording, asked>>
    BY <1>4 DEF NightEnter
  <2>2. NIGHT_DARK_Q \in Qs /\ Qs \subseteq Nat /\ sensorQ \in Qs
    BY GovernorAssumption DEF Qs
  <2>3. CASE sensorQ < NIGHT_DARK_Q
    <3>1. /\ nightPrevQ' = (IF nightPrevQ = NoQ THEN sensorQ ELSE nightPrevQ)
          /\ nightSeedQ' = NIGHT_DARK_Q
      BY <1>4, <2>3 DEF NightEnter
    <3>2. ASSUME NEW q \in Nat, q <= sensorQ, nightPrevQ # NoQ => q <= nightPrevQ
          PROVE  q <= nightPrevQ' /\ q <= nightSeedQ'
      BY <2>2, <2>3, <3>1, <3>2 DEF Qs
    <3>3. nightPrevQ' \in Qs \cup {NoQ} /\ nightSeedQ' \in Qs
      BY <2>2, <3>1
    <3>4. asked = NoQ => govUserQ <= nightPrevQ' /\ govUserQ <= nightSeedQ'
      BY <2>2, <3>2
    <3>5. asked # NoQ => asked <= nightPrevQ' /\ asked <= nightSeedQ'
      BY <2>2, <3>2
    <3> QED
      BY <2>1, <3>3, <3>4, <3>5
  <2>4. CASE ~(sensorQ < NIGHT_DARK_Q)
    BY <1>4, <2>1, <2>4 DEF NightEnter
  <2> QED
    BY <2>3, <2>4
<1>5. CASE NightExit
  BY <1>5 DEF NightExit
<1>6. CASE ApplyNightQuality
  BY <1>6 DEF ApplyNightQuality, GovDegradeBase, Undisturbed, GovProvided, Qs
<1>7. CASE Miss
  <2>1. /\ asked = NoQ /\ UNCHANGED <<govUserQ, sdGovBoost, recording, nightPrevQ, nightSeedQ, asked>>
    BY <1>7 DEF Miss, Undisturbed, GovProvided, nightQ
  <2>2. CASE UNCHANGED <<sensorQ, govBaseQ>>
    BY <2>1, <2>2
  <2>3. CASE sensorQ' = Rescued /\ govBaseQ' = Rescued
    <3>1. Rescued \in Qs /\ govUserQ <= Rescued
      BY <2>1, GovernorAssumption DEF Rescued, Capped, Qs
    <3> HIDE DEF SessionAbove
    <3>2. SessionAbove(govUserQ)'
      BY <2>1 DEF SessionAbove
    <3> QED
      BY <2>1, <2>3, <3>1, <3>2
  <2> QED
    BY <1>7, <2>2, <2>3 DEF Miss, GovDegradeBase
<1>8. CASE FrameIdle
  BY <1>8 DEF FrameIdle, nightQ
<1>9. CASE OpenAvi
  BY <1>9 DEF OpenAvi, Undisturbed, GovProvided, nightQ
<1>10. CASE CloseAvi
  <2>1. /\ asked = NoQ /\ recording' = FALSE /\ sdGovBoost' = 0 /\ sensorQ' = HandedBack
        /\ UNCHANGED <<govBaseQ, govUserQ, nightPrevQ, nightSeedQ, asked>>
    BY <1>10 DEF CloseAvi, Undisturbed, GovProvided, nightQ
  <2>2. sensorQ' = govBaseQ
    BY <2>1 DEF HandedBack
  <2> QED
    BY <2>1, <2>2
<1>11. CASE SaveFrame
  BY <1>11, SaveFrameBounds
<1>12. CASE UNCHANGED govVars
  BY <1>12 DEF govVars, nightQ
<1> QED
  BY <1>1, <1>2, <1>3, <1>4, <1>5, <1>6, <1>7, <1>8, <1>9, <1>10, <1>11, <1>12 DEF GovNext, Frames

\* The governor, the rescue and a night session never take the sensor to a finer
\* quality than the user configured nor past the coarsest one, and what a clip
\* was boosted by ends with it - when no quality command is split by the capture
\* task and none is given in a session.
THEOREM QualityStaysInBounds ==
    ASSUME GovRaces = {}
    PROVE  GovSpec => []QualityBounds
<1>1. GovInv /\ [GovNext]_govVars => GovInv'
  BY GovStep
<1>2. GovInv => QualityBounds
  BY DEF GovInv, GovTyped, AtRestBounds, BoostIsOfClip, QualityBounds, Qs
<1> QED
  BY <1>1, <1>2, GovInitInv, PTL DEF GovSpec
----------------------------------------------------------------------------
(* Supervision: the watchdog that was taken down for an update does not    *)
(* come back to end its transfer.                                          *)
SupTyped == pingTask \in [Pings -> {"none", "idle", "busy", "wifi"}]

\* From the stop of the watchdog on only the capture task can enrol again, as it
\* goes on with its passes until it is deleted.
OnlyCapEnrols == ota \in {"landing", "park", "end"} => subs \subseteq {Cap}

\* In the transfer it is gone, and so is its entry: a ping session that was
\* started since may be enrolled, and it is the one on record.
OnlyPingEnrolled ==
    ota = "transfer" =>
        /\ cap = "gone"
        /\ \A who \in subs : who \in Pings /\ pingHandle = who /\ pingTask[who] # "none"

SupInv == SupTyped /\ OnlyCapEnrols /\ OnlyPingEnrolled

\* A ping session is neither the capture task nor the mark of none.
LEMMA NotCap == ASSUME NEW i \in Pings PROVE i # Cap /\ i # NoPing
  BY SupervisionAssumption DEF Cap, NoPing

\* A new session takes the record only when there is none.
LEMMA SessionStarts ==
    ASSUME NEW tasks \in [Pings -> {"none", "idle", "busy", "wifi"}], Session(tasks)
    PROVE  /\ pingTask' \in [Pings -> {"none", "idle", "busy", "wifi"}]
           /\ \A i \in Pings : pingTask'[i] # tasks[i] => pingTask'[i] = "idle"
           /\ pingHandle # NoPing => pingHandle' = pingHandle /\ pingTask' = tasks
<1>1. CASE CanPing
  <2> DEFINE i == CHOOSE i \in Unused : TRUE
  <2>1. i \in Pings /\ pingHandle' = i /\ pingTask' = [tasks EXCEPT ![i] = "idle"] /\ pingHandle = NoPing
    BY <1>1 DEF Session, CanPing, Unused
  <2> HIDE DEF i
  <2> QED
    BY <2>1
<1>2. CASE ~CanPing
  BY <1>2 DEF Session
<1> QED
  BY <1>1, <1>2

\* At the start nothing is enrolled for an update.
LEMMA SupInitInv == SupInit => SupInv
  BY DEF SupInit, BootedUp, SupInv, SupTyped, OnlyCapEnrols, OnlyPingEnrolled

\* Every step keeps who may be enrolled, when no callback comes in the teardown.
LEMMA SupStep ==
    ASSUME "pingInTeardown" \notin SupRaces, SupInv, [SupNext]_supVars
    PROVE  SupInv'
<1> USE DEF SupInv, SupTyped, OnlyCapEnrols, OnlyPingEnrolled
<1>1. CASE \/ RouterChanges \/ Associates \/ JoinFails \/ LinkLost \/ AutoReconnects \/ SetAllowAP
           \/ UNCHANGED supVars
  BY <1>1 DEF RouterChanges, Associates, JoinFails, LinkLost, AutoReconnects, SetAllowAP, supVars,
              rounds, capture, ping, watchdog
<1>2. CASE Bites \/ OtaRestarts \/ OtaFails
  BY <1>2 DEF Bites, OtaRestarts, OtaFails, ping, watchdog, capture
<1>3. CASE CapWake
  <2>1. /\ cap = "wait" /\ UNCHANGED <<pingTask, pingHandle, ota>>
        /\ subs' \subseteq subs \cup {Cap}
    BY <1>3 DEF CapWake, Pet, ping, watchdog
  <2> QED
    BY <2>1
<1>4. CASE CapBlocks \/ CapPassEnds \/ Disconnected
  BY <1>4 DEF CapBlocks, CapPassEnds, Disconnected, ping, watchdog
<1>5. CASE Connected \/ CapWifiDone
  <2>1. cap \in {"pass", "wifi"} /\ Session(pingTask) /\ UNCHANGED <<watchdog, ota>>
    BY <1>5 DEF Connected, CapWifiDone, StartPing
  <2>2. pingTask' \in [Pings -> {"none", "idle", "busy", "wifi"}]
    BY <2>1, SessionStarts
  <2> QED
    BY <2>1, <2>2 DEF watchdog
<1>6. ASSUME NEW i \in Pings, PingFires(i)
      PROVE  SupInv'
  <2>1. /\ pingHandle = i /\ ota \in {"idle", "transfer", "failed"}
        /\ subs' \subseteq subs \cup {i}
        /\ UNCHANGED <<cap, pingHandle, ota>>
    BY <1>6 DEF PingFires, Allowed, Pet, watchdog, capture
  <2>2. \E s \in {"wifi", "busy"} : pingTask' = [pingTask EXCEPT ![i] = s]
    BY <1>6 DEF PingFires
  <2>3. /\ pingTask' \in [Pings -> {"none", "idle", "busy", "wifi"}] /\ pingTask'[i] # "none"
        /\ \A j \in Pings \ {i} : pingTask'[j] = pingTask[j]
    BY <2>2
  <2> QED
    BY <2>1, <2>3
<1>7. ASSUME NEW i \in Pings, PingDone(i)
      PROVE  SupInv'
  <2> DEFINE after == [pingTask EXCEPT ![i] = IF pingHandle = i THEN "idle" ELSE "none"]
  <2>1. UNCHANGED <<cap, watchdog, ota>>
    BY <1>7 DEF PingDone, capture
  <2>2. /\ after \in [Pings -> {"none", "idle", "busy", "wifi"}]
        /\ \A j \in Pings : pingHandle = j /\ pingTask[j] # "none" => after[j] # "none"
    OBVIOUS
  <2>3. Session(after) \/ (pingTask' = after /\ pingHandle' = pingHandle)
    BY <1>7 DEF PingDone
  <2> HIDE DEF after
  <2>4. CASE pingTask' = after /\ pingHandle' = pingHandle
    BY <2>1, <2>2, <2>4 DEF watchdog
  <2>5. CASE Session(after)
    <3>1. /\ pingTask' \in [Pings -> {"none", "idle", "busy", "wifi"}]
          /\ pingHandle # NoPing => pingHandle' = pingHandle /\ pingTask' = after
      BY <2>2, <2>5, SessionStarts
    <3> QED
      BY <2>1, <2>2, <3>1, NotCap DEF watchdog
  <2> QED
    BY <2>3, <2>4, <2>5
<1>8. CASE OtaBegins
  BY <1>8 DEF OtaBegins, StopWatchDog, ping
<1>9. CASE OtaTimerOff
  BY <1>9 DEF OtaTimerOff, ping, watchdog
<1>10. CASE OtaStopPing
  <2>1. /\ pingTask' \in [Pings -> {"none", "idle", "busy", "wifi"}]
        /\ ota = "park" /\ ota' = "end" /\ UNCHANGED watchdog
    BY <1>10 DEF OtaStopPing
  <2> QED
    BY <2>1 DEF watchdog
<1>11. CASE OtaEndTasks
  BY <1>11 DEF OtaEndTasks, DeleteTask, ping
<1> QED
  BY <1>1, <1>2, <1>3, <1>4, <1>5, <1>6, <1>7, <1>8, <1>9, <1>10, <1>11 DEF SupNext

\* No transfer of an update runs while the watchdog waits for a task that has
\* gone, though the capture task enrols itself again during the teardown and a
\* station restart can bring a ping session back - as long as no ping is answered
\* or times out between the stop of the watchdog and the deletion of the tasks.
THEOREM UpdateIsNotBitten ==
    ASSUME "pingInTeardown" \notin SupRaces
    PROVE  SupSpec => []UpdateNotBitten
<1>1. SupInv /\ [SupNext]_supVars => SupInv'
  BY SupStep
<1>2. SupInv => UpdateNotBitten
  BY NotCap DEF SupInv, OnlyPingEnrolled, UpdateNotBitten, Gone
<1> QED
  BY <1>1, <1>2, SupInitInv, PTL DEF SupSpec
=============================================================================
