---------------------------- MODULE SensorControl ----------------------------
(***************************************************************************)
(* Which size and rate the sensor runs at (mjpeg2sd.cpp, appSpecific.cpp). *)
(* The web server takes the user's choices, some at once and some deferred *)
(* to the end of a recording; only the capture task writes to the sensor,  *)
(* at the end of a pass in settleSensor() and in the idle throttle; a      *)
(* playback borrows the rate, and a long exposure ("night") session takes  *)
(* over both.                                                              *)
(*                                                                         *)
(* A size is a number, its registers are the pair of the size and the rate *)
(* they were computed for.  Tuned timing (tunedFps) is on.                 *)
(***************************************************************************)
EXTENDS Naturals

CONSTANTS
    Ceiling,      \* fpsCeiling() of every size: a function
    UserRates,    \* rates the user asks for
    IdleRate,     \* what idleFps may be set to, apart from 0
    RecFPS,       \* the rate of the file that is played
    NightSizes,   \* sizes a night session is asked for
    Commands,     \* of "framesize", "fps", "idleFps", "night"
    Races,        \* orders of events that the code does not provide for, see Provided
    MaxCommands   \* bound on the exploration

Sizes == DOMAIN Ceiling
None == 0

ASSUME SensorAssumption ==
    /\ Sizes # {} /\ Sizes \subseteq Nat \ {None} /\ Ceiling \in [Sizes -> Nat \ {0}]
    /\ UserRates \subseteq Nat \ {0} /\ IdleRate \in Nat \ {0} /\ RecFPS \in Nat \ {0}
    /\ NightSizes \subseteq Sizes
    /\ Commands \subseteq {"framesize", "fps", "idleFps", "night"}
    /\ Races \subseteq {"bothDeferred", "lateChoice", "switchRace", "inPlayback", "throttledPlay",
                        "throttleOff", "thereAndBack", "nightInClip", "clipInNight",
                        "nightInPlace", "openInCommand", "settleInCommand", "switchFails"}
    /\ MaxCommands \in Nat

VARIABLES
    fsizePtr, captureFPS,     \* the user's size, and the rate he chose for it
    pendingFS, pendingFPS,    \* chosen during a recording, or None
    retimePending,
    sensorFS,                 \* the size the sensor is set to
    tuning,                   \* what its timing registers were computed for
    FPS,                      \* the rate in force
    timer,                    \* the rate the frame timer was started with
    saveFPS,                  \* the rate a playback gives back
    idleFps, idleRateActive,
    nightFS,                  \* the size of the night session, or None
    nightPrev,                \* what nightExit() puts back
    pc, isCapturing, prevCapture,
    clip,                     \* size and timing of the open recording
    doPlayback, isPlaying,
    handler,                  \* the command the web server is at, and where in it
    chosenFS, chosenFPS,      \* the user's last choices (history)
    cmds                      \* bound

choice  == <<fsizePtr, captureFPS>>
pending == <<pendingFS, pendingFPS, retimePending>>
sensor  == <<sensorFS, tuning>>
rate    == <<FPS, timer, saveFPS>>
idle    == <<idleFps, idleRateActive>>
session == <<nightFS, nightPrev>>
task    == <<pc, isCapturing, prevCapture, clip>>
play    == <<doPlayback, isPlaying>>
chosen  == <<chosenFS, chosenFPS>>
web     == <<handler, chosenFS, chosenFPS, cmds>>
vars    == <<choice, pending, sensor, rate, idle, session, task, play, web>>

Lower(a, b) == IF a < b THEN a ELSE b

\* An order of events the code does not provide for, unless ok, happens only in
\* a run that asks for it.
Provided(race, ok) == ok \/ race \in Races

\* desiredFPS(), for a state of the throttle and a rate of the user.
Desired(throttled, fps) == IF throttled THEN idleFps ELSE fps

\* applySensorTuning() for a size and a rate; the session stretches only its own.
NightRate == 0
Tuned(fs, fps) == [fs |-> fs, rate |-> IF fs = nightFS THEN NightRate ELSE fps]

NoClip == [fs |-> None, tuning |-> [fs |-> None, rate |-> 0]]
NoPrev == [fs |-> None, fps |-> 0, idle |-> 0]
NoCommand == [cmd |-> "none", at |-> "none", v |-> 0]

Init ==
    /\ fsizePtr \in Sizes /\ captureFPS \in {Lower(r, Ceiling[fsizePtr]) : r \in UserRates}
    /\ pendingFS = None /\ pendingFPS = None /\ retimePending = FALSE
    /\ idleFps \in {0, IdleRate} /\ idleRateActive = FALSE
    /\ nightFS = None /\ nightPrev = NoPrev
    /\ sensorFS = fsizePtr /\ tuning = Tuned(fsizePtr, captureFPS)
    /\ FPS = captureFPS /\ timer = captureFPS /\ saveFPS = captureFPS
    /\ pc = "frame" /\ isCapturing = FALSE /\ prevCapture = FALSE /\ clip = NoClip
    /\ doPlayback = FALSE /\ isPlaying = FALSE
    /\ handler = NoCommand /\ chosenFS = fsizePtr /\ chosenFPS = captureFPS /\ cmds = 0
----------------------------------------------------------------------------
(* The capture task: a pass of processFrame().                             *)
NoFrame ==
    /\ pc = "frame"
    /\ Provided("throttleOff", idleRateActive => idleFps # 0)
    /\ pc' = "settle"
    /\ prevCapture' = isCapturing
    /\ UNCHANGED <<choice, pending, sensor, rate, idle, session, isCapturing, clip, play, web>>

\* What makes a recording begin and end is in CaptureControl.
Decide ==
    /\ pc = "frame"
    /\ prevCapture' = isCapturing
    /\ isCapturing' \in BOOLEAN
    /\ Provided("openInCommand", isCapturing' => isCapturing \/ handler = NoCommand)
    /\ pc' = "throttle"
    /\ UNCHANGED <<choice, pending, sensor, rate, idle, session, clip, play, web>>

\* Mutant: the timer only, and the sensor runs on as it did.
IdleSetRateTimer(fps, throttled) ==
    /\ idleRateActive' = throttled
    /\ FPS' = fps /\ timer' = fps /\ saveFPS' = fps
    /\ tuning' = tuning

\* idleSetRate(): the frame timer and the sensor, for the size that is wanted.
IdleSetRate(fps, throttled) ==
    /\ idleRateActive' = throttled
    /\ FPS' = fps /\ timer' = fps /\ saveFPS' = fps
    /\ tuning' = Tuned(fsizePtr, Desired(throttled, captureFPS))

\* A viewer, a still or the record button may need frames too, and it takes
\* idleSecs without any of them for the throttle to begin.
IdleThrottle ==
    /\ pc = "throttle"
    /\ \E othersNeed \in BOOLEAN :
        LET wantFull == isCapturing \/ doPlayback \/ othersNeed
        IN  \/ /\ idleRateActive /\ (idleFps = 0 \/ wantFull)
               /\ IdleSetRate(captureFPS, FALSE)
            \/ /\ ~idleRateActive /\ ~wantFull /\ idleFps # 0
               /\ FPS = captureFPS /\ idleFps < captureFPS
               /\ IdleSetRate(idleFps, TRUE)
            \/ /\ idleRateActive => idleFps # 0 /\ ~wantFull
               /\ UNCHANGED <<tuning, rate, idleRateActive>>
    /\ pc' = "act"
    /\ UNCHANGED <<choice, pending, sensorFS, idleFps, session, isCapturing, prevCapture, clip,
                   play, web>>

\* A playback is ended, which gives its rate back, and the file is opened at
\* the size that is wanted; this pass does not settle the sensor.
StopPlaying ==
    /\ isPlaying' = FALSE
    /\ doPlayback' = (doPlayback /\ ~isPlaying)

Open ==
    /\ pc = "act" /\ isCapturing /\ ~prevCapture
    /\ StopPlaying
    /\ \E works \in BOOLEAN :
        /\ Provided("switchFails", works)
        /\ IF fsizePtr # sensorFS /\ works
           THEN /\ sensorFS' = fsizePtr
                /\ tuning' = Tuned(fsizePtr, Desired(idleRateActive, captureFPS))
                /\ FPS' = Desired(idleRateActive, captureFPS) /\ timer' = FPS'
           ELSE /\ FPS' = IF isPlaying THEN saveFPS ELSE FPS
                /\ timer' = IF isPlaying THEN saveFPS ELSE timer
                /\ UNCHANGED sensor
    /\ clip' = [fs |-> fsizePtr, tuning |-> tuning']
    /\ pc' = "frame"
    /\ UNCHANGED <<choice, pending, saveFPS, idle, session, isCapturing, prevCapture, web>>

\* The frame that fills the file ends the recording.
Save ==
    /\ pc = "act" /\ isCapturing /\ prevCapture
    /\ isCapturing' \in BOOLEAN
    /\ pc' = IF isCapturing' THEN "settle" ELSE "close"
    /\ UNCHANGED <<choice, pending, sensor, rate, idle, session, prevCapture, clip, play, web>>

NotCapturing ==
    /\ pc = "act" /\ ~isCapturing
    /\ pc' = IF prevCapture THEN "close" ELSE "settle"
    /\ UNCHANGED <<choice, pending, sensor, rate, idle, session, isCapturing, prevCapture, clip,
                   play, web>>

Close ==
    /\ pc = "close"
    /\ clip' = NoClip
    /\ pc' = "settle"
    /\ UNCHANGED <<choice, pending, sensor, rate, idle, session, isCapturing, prevCapture, play,
                   web>>
----------------------------------------------------------------------------
(* settleSensor(), at the end of a pass: first what was chosen during the  *)
(* recording, the size before the rate, then the one thing that differs.   *)
Taken(p) == ~isCapturing /\ p # None

WantFS  == IF Taken(pendingFS) THEN pendingFS ELSE fsizePtr
WantFPS == IF Taken(pendingFPS) THEN pendingFPS
           ELSE IF Taken(pendingFS) THEN Lower(captureFPS, Ceiling[pendingFS]) ELSE captureFPS
WantRetime == retimePending \/ Taken(pendingFPS)

TakePending ==
    /\ fsizePtr' = WantFS /\ captureFPS' = WantFPS
    /\ pendingFS' = IF Taken(pendingFS) THEN None ELSE pendingFS
    /\ pendingFPS' = IF Taken(pendingFPS) THEN None ELSE pendingFPS
    /\ chosenFPS' = IF Taken(pendingFS) THEN Lower(chosenFPS, Ceiling[pendingFS]) ELSE chosenFPS
    /\ UNCHANGED <<handler, chosenFS, cmds>>

Pace(fps) == FPS' = fps /\ timer' = fps

Settling == pc = "settle" /\ ~isPlaying

SettleNot ==
    /\ pc = "settle" /\ isPlaying
    /\ pc' = "frame"
    /\ UNCHANGED <<choice, pending, sensor, rate, idle, session, isCapturing, prevCapture, clip,
                   play, web>>

\* setSensorSize(): the sensor, and when it has been reloaded, the rate.  Where
\* set_framesize() fails everything stays as it is, and the retime is forgotten.
SwitchSize ==
    /\ Settling
    /\ WantFS # sensorFS
    /\ Provided("settleInCommand", handler.at # "clamp")
    /\ TakePending
    /\ \E works \in BOOLEAN :
        /\ Provided("switchFails", works)
        /\ sensorFS' = IF works THEN WantFS ELSE sensorFS
        /\ tuning' = IF works THEN Tuned(WantFS, Desired(idleRateActive, WantFPS)) ELSE tuning
        /\ retimePending' = (works /\ WantRetime)
        /\ pc' = IF works THEN "switched" ELSE "frame"
    /\ UNCHANGED <<rate, idle, session, isCapturing, prevCapture, clip, play>>

SwitchDone ==
    /\ pc = "switched"
    /\ Pace(Desired(idleRateActive, captureFPS))
    /\ retimePending' = FALSE
    /\ pc' = "frame"
    /\ UNCHANGED <<choice, pendingFS, pendingFPS, sensor, saveFPS, idle, session, isCapturing,
                   prevCapture, clip, play, web>>

RetimeIf(may) ==
    /\ Settling
    /\ WantFS = sensorFS /\ WantRetime /\ may
    /\ TakePending /\ retimePending' = FALSE
    /\ LET fps == Desired(idleRateActive, WantFPS)
       IN  /\ tuning' = Tuned(sensorFS, fps)
           /\ IF FPS # fps THEN Pace(fps) ELSE UNCHANGED <<FPS, timer>>
    /\ pc' = "frame"
    /\ UNCHANGED <<sensorFS, saveFPS, idle, session, isCapturing, prevCapture, clip, play>>

\* Mutant: at once, in the middle of a recording too.
RetimeAtOnce == RetimeIf(TRUE)
Retime == RetimeIf(~isCapturing)

SettleRate ==
    /\ Settling
    /\ WantFS = sensorFS /\ ~(WantRetime /\ ~isCapturing)
    /\ TakePending /\ retimePending' = WantRetime
    /\ LET fps == Desired(idleRateActive, WantFPS)
       IN  IF FPS # fps THEN Pace(fps) ELSE UNCHANGED <<FPS, timer>>
    /\ pc' = "frame"
    /\ UNCHANGED <<sensor, saveFPS, idle, session, isCapturing, prevCapture, clip, play>>

----------------------------------------------------------------------------
(* The web server: one task, which runs one command at a time, and a       *)
(* command of several steps while the capture task goes on.                *)
Between == Provided("switchRace", pc # "switched")

Command(c) ==
    /\ handler = NoCommand
    /\ c \in Commands /\ cmds < MaxCommands /\ cmds' = cmds + 1
    /\ Between

\* A command goes on at a later step, with a value of its own.
Begin(c, at, v) == handler' = [cmd |-> c, at |-> at, v |-> v] /\ UNCHANGED chosen
At(at) == handler.at = at /\ Between /\ UNCHANGED cmds
GoOn(at) == handler' = [handler EXCEPT !.at = at]

\* Between the throttle and the end of a pass the throttle does not look again.
ThrottleLooks ==
    Provided("throttleOff", idleRateActive /\ idleFps' # idleFps => pc \in {"frame", "throttle"})

\* What is not deferred comes after what is; the rate of a playback is its own.
Undeferred == Provided("lateChoice", pendingFS = None /\ pendingFPS = None)
SparesPlayback == Provided("inPlayback", isPlaying => FPS' = FPS)

DeferSize ==
    /\ Command("framesize") /\ isCapturing
    /\ Provided("clipInNight", nightFS = None)
    /\ \E v \in Sizes :
        /\ Provided("bothDeferred", pendingFPS <= Ceiling[v])
        /\ pendingFS' = v /\ chosenFS' = v
    /\ UNCHANGED <<choice, pendingFPS, retimePending, sensor, rate, idle, session, task, play,
                   handler, chosenFPS>>

\* What is chosen at once: the test is one step, another size leaves the night
\* session, and only then is the size written, and after it the rate.
TestSize ==
    /\ Command("framesize") /\ ~isCapturing
    /\ Undeferred
    /\ \E v \in Sizes :
        Begin("framesize", IF nightFS # None /\ v # fsizePtr THEN "leave" ELSE "write", v)
    /\ UNCHANGED <<choice, pending, sensor, rate, idle, session, task, play>>

WriteSize ==
    /\ handler.cmd = "framesize" /\ At("write")
    /\ Provided("thereAndBack", handler.v = sensorFS => handler.v = fsizePtr)
    /\ fsizePtr' = handler.v
    /\ IF nightFS = None
       THEN chosenFS' = handler.v /\ chosenFPS' = Lower(chosenFPS, Ceiling[handler.v])
       ELSE UNCHANGED chosen
    /\ GoOn("clamp")
    /\ UNCHANGED <<captureFPS, pending, sensor, rate, idle, session, task, play>>

ClampRate ==
    /\ At("clamp")
    /\ captureFPS' = Lower(captureFPS, Ceiling[fsizePtr])
    /\ handler' = NoCommand
    /\ UNCHANGED <<fsizePtr, pending, sensor, rate, idle, session, task, play, chosen>>

\* The request is lowered to the ceiling of the size that is wanted now.
DeferRate ==
    /\ Command("fps") /\ isCapturing
    /\ Provided("clipInNight", nightFS = None)
    /\ \E r \in UserRates :
        LET v == Lower(r, Ceiling[fsizePtr])
        IN  /\ Provided("bothDeferred", pendingFS # None => v <= Ceiling[pendingFS])
            /\ pendingFPS' = v /\ chosenFPS' = v
    /\ UNCHANGED <<choice, pendingFS, retimePending, sensor, rate, idle, session, task, play,
                   handler, chosenFS>>

TestRate ==
    /\ Command("fps") /\ ~isCapturing
    /\ Undeferred
    /\ \E r \in UserRates :
        Begin("fps", IF nightFS # None THEN "leave" ELSE "write", Lower(r, Ceiling[fsizePtr]))
    /\ UNCHANGED <<choice, pending, sensor, rate, idle, session, task, play>>

WriteRate ==
    /\ handler.cmd = "fps" /\ At("write")
    /\ captureFPS' = handler.v /\ Pace(handler.v) /\ saveFPS' = handler.v
    /\ chosenFPS' = handler.v
    /\ SparesPlayback
    /\ retimePending' = TRUE
    /\ handler' = NoCommand
    /\ UNCHANGED <<fsizePtr, pendingFS, pendingFPS, sensor, idle, session, task, play, chosenFS>>

SetIdle ==
    /\ Command("idleFps")
    /\ idleFps' \in {0, IdleRate}
    /\ ThrottleLooks
    /\ UNCHANGED <<choice, pending, sensor, rate, idleRateActive, session, task, play, handler,
                   chosen>>

\* Neither nightEnter() nor nightExit() from the panel starts the frame timer,
\* which only follows when the size changes.  The wait for the sensor that
\* follows delays the reply and changes nothing.
InPlace == Provided("nightInPlace", fsizePtr' = sensorFS => timer = FPS')

EnterNight ==
    /\ Command("night")
    /\ Provided("nightInClip", ~isCapturing)
    /\ Undeferred
    /\ \E fs \in NightSizes :
        nightFS' = fs /\ fsizePtr' = fs
    /\ nightPrev' = IF nightPrev = NoPrev
                    THEN [fs |-> fsizePtr, fps |-> captureFPS, idle |-> idleFps]
                    ELSE nightPrev
    /\ idleFps' = 0
    /\ captureFPS' = 1 /\ FPS' = 1
    /\ InPlace /\ ThrottleLooks /\ SparesPlayback
    /\ retimePending' = TRUE
    /\ UNCHANGED <<pendingFS, pendingFPS, sensor, timer, saveFPS, idleRateActive, task, play,
                   handler, chosen>>

TestExit ==
    /\ Command("night") /\ nightFS # None
    /\ Provided("nightInClip", ~isCapturing)
    /\ Undeferred
    /\ Begin("night", "leave", None)
    /\ UNCHANGED <<choice, pending, sensor, rate, idle, session, task, play>>

\* Mutant: the rate stays where the session set it.
LeaveNightSlow ==
    /\ At("leave")
    /\ Provided("nightInClip", ~isCapturing)
    /\ nightFS' = None
    /\ fsizePtr' = IF handler.cmd = "framesize" THEN fsizePtr ELSE nightPrev.fs
    /\ idleFps' = nightPrev.idle
    /\ ThrottleLooks
    /\ GoOn("focus")
    /\ UNCHANGED <<captureFPS, pending, sensor, rate, idleRateActive, nightPrev, task, play, chosen>>

\* nightExit() ends the session, and what the user does not choose goes back; for
\* about a second it has the lens focus itself, and only then asks for a retime.
LeaveNight ==
    /\ At("leave")
    /\ Provided("nightInClip", ~isCapturing)
    /\ nightFS' = None
    /\ fsizePtr' = IF handler.cmd = "framesize" THEN fsizePtr ELSE nightPrev.fs
    /\ IF handler.cmd = "fps"
       THEN UNCHANGED <<captureFPS, FPS>>
       ELSE captureFPS' = nightPrev.fps /\ FPS' = nightPrev.fps
    /\ idleFps' = nightPrev.idle
    /\ handler.cmd = "night" => InPlace
    /\ ThrottleLooks /\ SparesPlayback
    /\ GoOn("focus")
    /\ UNCHANGED <<pending, sensor, timer, saveFPS, idleRateActive, nightPrev, task, play, chosen>>

FocusDone ==
    /\ At("focus")
    /\ retimePending' = TRUE
    /\ nightPrev' = NoPrev
    /\ IF handler.cmd = "night" THEN handler' = NoCommand ELSE GoOn("write")
    /\ UNCHANGED <<choice, pendingFS, pendingFPS, sensor, rate, idle, nightFS, task, play, chosen>>
----------------------------------------------------------------------------
(* The playback, as far as it shows here (Playback has the rest).          *)
Select ==
    /\ ~isPlaying
    /\ doPlayback' = ~doPlayback
    /\ UNCHANGED <<choice, pending, sensor, rate, idle, session, task, isPlaying, web>>

PlayOpen ==
    /\ doPlayback /\ ~isPlaying
    /\ clip = NoClip /\ ~isCapturing
    /\ Provided("throttledPlay", ~idleRateActive /\ tuning.fs = sensorFS)
    /\ Provided("switchRace", pc # "switched")
    /\ isPlaying' = TRUE
    /\ Pace(RecFPS)
    /\ UNCHANGED <<choice, pending, sensor, saveFPS, idle, session, task, doPlayback, web>>

EndPlay ==
    /\ isPlaying
    /\ isPlaying' = FALSE /\ doPlayback' = FALSE
    /\ Pace(saveFPS)
    /\ UNCHANGED <<choice, pending, sensor, saveFPS, idle, session, task, web>>
----------------------------------------------------------------------------
CaptureTask ==
    \/ NoFrame \/ Decide \/ IdleThrottle \/ Open \/ Save \/ NotCapturing \/ Close
    \/ SettleNot \/ SwitchSize \/ SwitchDone \/ Retime \/ SettleRate

Handler == WriteSize \/ ClampRate \/ WriteRate \/ LeaveNight \/ FocusDone

Web ==
    \/ DeferSize \/ TestSize \/ DeferRate \/ TestRate \/ SetIdle \/ EnterNight \/ TestExit
    \/ Handler \/ Select \/ PlayOpen \/ EndPlay

Next == CaptureTask \/ Web

\* A frame comes, or the driver's wait for one times out: the task goes on.  The
\* web server's task, once at a command, comes to its end.
Fairness == WF_vars(CaptureTask) /\ WF_vars(Handler)

Spec == Init /\ [][Next]_vars /\ Fairness
----------------------------------------------------------------------------
Tunings == [fs : Sizes, rate : Nat]

\* Types: the state of the sensor, the choices, the session and the tasks.
TypeOK ==
    /\ fsizePtr \in Sizes /\ captureFPS \in Nat \ {0}
    /\ pendingFS \in Sizes \cup {None} /\ pendingFPS \in Nat /\ retimePending \in BOOLEAN
    /\ sensorFS \in Sizes /\ tuning \in Tunings
    /\ FPS \in Nat /\ timer \in Nat /\ saveFPS \in Nat
    /\ idleFps \in {0, IdleRate} /\ idleRateActive \in BOOLEAN
    /\ nightFS \in NightSizes \cup {None}
    /\ nightPrev \in [fs : Sizes, fps : Nat \ {0}, idle : {0, IdleRate}] \cup {NoPrev}
    /\ pc \in {"frame", "throttle", "act", "close", "settle", "switched"}
    /\ isCapturing \in BOOLEAN /\ prevCapture \in BOOLEAN
    /\ clip \in [fs : Sizes, tuning : Tunings] \cup {NoClip}
    /\ doPlayback \in BOOLEAN /\ isPlaying \in BOOLEAN
    /\ handler \in [cmd : {"framesize", "fps", "night"}, at : {"write", "clamp", "leave", "focus"},
                     v : Nat] \cup {NoCommand}
    /\ chosenFS \in Sizes /\ chosenFPS \in Nat \ {0} /\ cmds \in 0 .. MaxCommands

\* Every frame of a recording is taken at the size and with the timing its file
\* was opened for, whatever is chosen while it is open (saveFrame, settleSensor).
ClipKeepsGeometry ==
    pc = "act" /\ isCapturing /\ prevCapture =>
        clip = [fs |-> sensorFS, tuning |-> tuning]

\* When a frame is awaited, the timing registers are those of the size the
\* sensor is set to (applySensorTuning follows every set_framesize).
TimingFitsSize == pc = "frame" => tuning.fs = sensorFS

\* A playback keeps the rate of its recording until it ends (playbackFPS).
PlaybackPaced == isPlaying => FPS = RecFPS /\ timer = RecFPS

\* The frame timer is started with a rate: controlFrameTimer() divides by it.
TimerHasRate == FPS # 0 /\ timer # 0

\* Outside a night session, and when no command is half way, the camera has or
\* will take what the user chose last, and a session has given back what it
\* borrowed (nightExit).
ChoiceKept ==
    nightFS = None /\ handler = NoCommand =>
        LET fs  == IF pendingFS # None THEN pendingFS ELSE fsizePtr
            fps == IF pendingFPS # None THEN pendingFPS ELSE Lower(captureFPS, Ceiling[fs])
        IN  fs = chosenFS /\ fps = Lower(chosenFPS, Ceiling[fs])

\* When nothing plays and nothing records any more, the sensor comes to run at
\* the size and rate that are wanted, and the timer with it (settleSensor).
AtRest == LET fps == Desired(idleRateActive, captureFPS)
          IN  /\ pendingFS = None /\ pendingFPS = None
              /\ sensorFS = fsizePtr /\ tuning = Tuned(fsizePtr, fps)
              /\ FPS = fps /\ timer = fps
Settles == <>[](~isPlaying /\ ~isCapturing) => <>[](pc = "frame" => AtRest)
=============================================================================
