----------------------------- MODULE MotionGate -----------------------------
(* Motion detection on the sensor's grid of exposure zones: zoneMotion()    *)
(* and its use in processFrame() (mjpeg2sd.cpp), isNight() (motionDetect.cpp)*)
(* and its second caller, the ping callback (appSpecific.cpp).              *)
(*                                                                          *)
(* The capture task compares the zones with those of the previous check.    *)
(* A check whose gates fail - the exposure or the focus is being adjusted - *)
(* proves nothing: it drops the reference and pauses the streak of tripped  *)
(* checks.  A zone is abstracted to whether the subject is in it; behind    *)
(* clean gates a still scene reads the same zones, whatever the light.      *)
EXTENDS Naturals, FiniteSets

CONSTANTS
    Side,                \* zones along a side of the grid (the sensor has 4)
    Scenes,              \* the places of the subject: sets of zones, in view order
    zoneMask, zoneCount, detectMotionFrames, detectNightFrames,
    FrameSizes,
    PirUse,              \* a motion sensor is wired and used
    Counting             \* the histories trips and darkRun are kept

ASSUME MotionConstants ==
    /\ Side \in Nat \ {0} /\ zoneCount \in Nat \ {0} /\ detectMotionFrames \in Nat \ {0}
    /\ detectNightFrames \in Nat /\ PirUse \in BOOLEAN /\ Counting \in BOOLEAN
    /\ Scenes \subseteq SUBSET (0 .. Side * Side - 1) /\ zoneMask \subseteq 0 .. Side * Side - 1

VARIABLES
    scene, mood,            \* where the subject is; "free", "still" or "busy"
    fresh,                  \* the subject has moved since the last check
    hmirror, frameFS, useMotion, \* what the user changes; frameFS is sensorFS
    lightLevel,             \* against lswitch: "dark", "edge" or "light"
    night, nightCnt,        \* the statics of isNight()
    nightTime, zref, zrefValid, zconsecCnt, refFS, haveMotion,
    moves,                  \* history: movements of the image since a check saw none
    trips,                  \* history: tripped checks since detection was switched on
    darkRun                 \* history: checks in a row that measured darkness

world == <<scene, mood, fresh>>
userChoices == <<hmirror, frameFS, useMotion>>
classifier == <<lightLevel, night, nightCnt, darkRun>>
detector == <<nightTime, zref, zrefValid, zconsecCnt, refFS>>
motionVars == <<world, userChoices, classifier, detector, haveMotion, moves, trips>>

NoFS == "unset"
More(n) == IF n < detectMotionFrames THEN n + 1 ELSE n \* bound of the histories

(* The zone of the readout that shows a zone of the view, the mirror undone. *)
ZoneViewToPhys(i) ==
    IF hmirror THEN (i \div Side) * Side + (Side - 1 - (i % Side)) ELSE i

ZoneMaskPhys == {ZoneViewToPhys(v) : v \in zoneMask}

ReadZones == {ZoneViewToPhys(v) : v \in scene}
Differ(a, b) == (a \ b) \cup (b \ a)

MotionInit ==
    /\ scene \in Scenes /\ mood = "free" /\ fresh = FALSE
    /\ hmirror \in BOOLEAN /\ frameFS \in FrameSizes /\ useMotion \in BOOLEAN
    /\ lightLevel = "dark" /\ night = FALSE /\ nightCnt = 0 /\ darkRun = 0
    /\ nightTime = FALSE /\ zref = {} /\ zrefValid = FALSE /\ zconsecCnt = 0 /\ refFS = NoFS
    /\ haveMotion = FALSE /\ moves = 0 /\ trips = 0

---------------------------------------------------------------------------
(* The world and the user *)

(* A busy scene moves visibly once between two checks. *)
SubjectMoves ==
    /\ mood # "still" /\ (mood = "busy" => ~fresh)
    /\ \E s \in Scenes \ {scene} :
         /\ mood = "busy" => Cardinality(Differ(s, scene) \cap zoneMask) >= zoneCount
         /\ scene' = s
         /\ moves' = IF Differ(s, scene) \cap zoneMask # {} THEN More(moves) ELSE moves
    /\ fresh' = TRUE
    /\ UNCHANGED <<mood, userChoices, classifier, detector, haveMotion, trips>>

SceneSettles ==
    /\ mood = "free" /\ mood' \in {"still", "busy"}
    /\ UNCHANGED <<scene, fresh, userChoices, classifier, detector, haveMotion, moves, trips>>

(* setSensorSize(), called by settleSensor() *)
NewSize ==
    /\ mood = "free" /\ frameFS' \in FrameSizes \ {frameFS}
    /\ UNCHANGED <<world, hmirror, useMotion, classifier, detector, haveMotion, moves, trips>>

SetMirror ==
    /\ mood = "free" /\ hmirror' = ~hmirror /\ moves' = More(moves)
    /\ UNCHANGED <<world, frameFS, useMotion, classifier, detector, haveMotion, trips>>

EnableMotion ==
    /\ mood = "free" /\ useMotion' = ~useMotion /\ trips' = 0
    /\ UNCHANGED <<world, hmirror, frameFS, classifier, detector, haveMotion, moves>>

---------------------------------------------------------------------------
(* isNight() *)

IsNightAt(light) ==
    IF night
    THEN /\ nightCnt' = IF light = "light" /\ nightCnt > 0 THEN nightCnt - 1 ELSE nightCnt
         /\ night' = (light # "light" \/ nightCnt' # 0)
    ELSE /\ night' = (light = "dark" /\ nightCnt + 1 > detectNightFrames)
         /\ nightCnt' = CASE night' -> detectNightFrames
                          [] light = "dark" /\ ~night' -> nightCnt + 1
                          [] OTHER -> IF nightCnt > 0 THEN nightCnt - 1 ELSE 0

(* The ping callback classifies the last level that was measured once more. *)
PingAsksNight ==
    /\ IsNightAt(lightLevel)
    /\ UNCHANGED <<world, userChoices, lightLevel, darkRun, detector, haveMotion, moves, trips>>

Measure(light) ==
    /\ lightLevel' = light
    /\ darkRun' = IF light # "dark" \/ ~Counting THEN 0
                  ELSE IF darkRun > detectNightFrames THEN darkRun ELSE darkRun + 1
    /\ IsNightAt(light)
    /\ nightTime' = night'

Levels == {"dark", "edge", "light"}

---------------------------------------------------------------------------
(* zoneMotion(haveMotion), and what processFrame() makes of it *)

Detects == useMotion /\ (mood = "busy" => fresh)
Pir == IF PirUse /\ mood # "still" THEN BOOLEAN ELSE {FALSE}

CheckAtNight ==
    /\ Detects
    /\ \E light \in Levels : Measure(light)
    /\ nightTime' /\ zrefValid' = FALSE /\ zconsecCnt' = 0
    /\ \E pir \in Pir : haveMotion' = pir
    /\ moves' = 0 /\ fresh' = FALSE
    /\ UNCHANGED <<scene, mood, userChoices, zref, refFS, trips>>

(* A gate failed, or a zone could not be read: no verdict, and no reference. *)
CheckBlurred ==
    /\ Detects
    /\ \E light \in Levels : Measure(light)
    /\ ~nightTime' /\ zrefValid' = FALSE
    /\ \E pir \in Pir : haveMotion' = (haveMotion \/ pir)
    /\ fresh' = FALSE
    /\ UNCHANGED <<scene, mood, userChoices, zref, zconsecCnt, refFS, moves, trips>>

KeepReference == \* MUTANT of TakeReference: a valid reference is kept
    /\ zref' = IF zrefValid THEN zref ELSE ReadZones
    /\ zrefValid' = TRUE /\ refFS' = frameFS
    /\ fresh' = FALSE

(* The reference is replaced by what was read. *)
TakeReference ==
    /\ zref' = ReadZones /\ zrefValid' = TRUE /\ refFS' = frameFS
    /\ fresh' = FALSE

(* No reference, or one of another framing: nothing to compare with. *)
CheckFirst ==
    /\ Detects /\ (~zrefValid \/ refFS # frameFS)
    /\ \E light \in Levels : Measure(light)
    /\ ~nightTime' /\ TakeReference
    /\ zconsecCnt' = IF refFS # frameFS THEN 0 ELSE zconsecCnt
    /\ moves' = IF refFS # frameFS THEN 0 ELSE moves
    /\ \E pir \in Pir : haveMotion' = (haveMotion \/ pir)
    /\ UNCHANGED <<scene, mood, userChoices, trips>>

Tripped == Cardinality(Differ(ReadZones, zref) \cap ZoneMaskPhys) >= zoneCount

CheckTripped ==
    /\ Detects /\ zrefValid /\ refFS = frameFS /\ Tripped
    /\ \E light \in Levels : Measure(light)
    /\ ~nightTime' /\ TakeReference
    /\ zconsecCnt' = IF zconsecCnt > detectMotionFrames THEN zconsecCnt ELSE zconsecCnt + 1
    /\ \E pir \in Pir : haveMotion' = (haveMotion \/ zconsecCnt' >= detectMotionFrames \/ pir)
    /\ trips' = IF Counting THEN More(trips) ELSE 0
    /\ UNCHANGED <<scene, mood, userChoices, moves>>

CheckStill ==
    /\ Detects /\ zrefValid /\ refFS = frameFS /\ ~Tripped
    /\ \E light \in Levels : Measure(light)
    /\ ~nightTime' /\ TakeReference
    /\ zconsecCnt' = 0 /\ moves' = 0
    /\ \E pir \in Pir : haveMotion' = pir
    /\ UNCHANGED <<scene, mood, userChoices, trips>>

(* detectionActive() is false: only haveMotion is cleared. *)
NotDetecting ==
    /\ ~useMotion /\ haveMotion' = FALSE
    /\ UNCHANGED <<world, userChoices, classifier, detector, moves, trips>>

Check == CheckAtNight \/ CheckBlurred \/ CheckFirst \/ CheckTripped \/ CheckStill
MotionNext ==
    \/ SubjectMoves \/ SceneSettles \/ NewSize \/ SetMirror \/ EnableMotion
    \/ PingAsksNight \/ Check \/ NotDetecting

Compare == CheckTripped \/ CheckStill

(* Checks go on for ever, by night too, and by day the exposure and the      *)
(* focus come to rest often enough for two clean checks in a row; a busy     *)
(* scene goes on moving.                                                     *)
MotionFairness ==
    /\ WF_motionVars(Check)
    /\ SF_motionVars(CheckFirst) /\ SF_motionVars(Compare)
    /\ WF_motionVars(NotDetecting) /\ WF_motionVars(SubjectMoves /\ mood = "busy")
MotionSpec == MotionInit /\ [][MotionNext]_motionVars /\ MotionFairness

---------------------------------------------------------------------------
(* The zones start motion only after as many movements inside the mask as   *)
(* tripped checks are asked for - turning the mirror is one - with no check *)
(* between them that saw none, no night and no change of size: the streak,  *)
(* its pause behind a failed gate, the reference and the mirrored mask of   *)
(* zoneMotion().                                                            *)
StartsOnMovement ==
    [][~haveMotion /\ haveMotion' /\ zconsecCnt' >= detectMotionFrames
         => moves >= detectMotionFrames]_motionVars

(* A scene that has come to rest ends the motion, and with it the recording *)
(* that every check with motion prolongs.                                   *)
MotionEnds == mood = "still" ~> [](~haveMotion)

(* A scene that keeps moving is noticed although failed gates interrupt the *)
(* checks again and again - unless it is night, which suspends detection.   *)
BusySeen == (mood = "busy" /\ useMotion) ~> (haveMotion \/ nightTime)

(* "need a minimum sequence of tripped checks to signal valid movement":    *)
(* since detection was switched on there were as many (zoneMotion()).       *)
StartsOnSequence ==
    [][~haveMotion /\ haveMotion' /\ zconsecCnt' >= detectMotionFrames
         => trips' >= detectMotionFrames]_motionVars

(* "frames of sequential darkness to avoid spurious day / night switching": *)
(* night begins after more dark measurements in a row than that (isNight()). *)
DuskIsSequential == [][~night /\ night' => darkRun' > detectNightFrames]_motionVars
=============================================================================
