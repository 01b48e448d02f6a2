------------------------------ MODULE MCAides ------------------------------
(* The helpers of the capture task - the pair of sound buffers, the log, the *)
(* motion gate and the sensor's registers - explored one at a time.  They    *)
(* share no state: a step of one leaves the others where they are, so their  *)
(* product would only interleave what cannot meet.                           *)
EXTENDS AudioChunks, LogPool, MotionGate, MCTiming

VARIABLE aide \* the helper this behaviour explores

aideVars == <<audioVars, logVars, motionVars, vars, aide>>

AideInit ==
    /\ aide \in {"sound", "log", "motion", "timing"}
    /\ AudioInit /\ LogInit /\ MotionInit /\ Init
    /\ aide # "sound" => micGain = 0
    /\ aide # "log" => counter_write = 0
    /\ aide # "motion" => (scene = {} /\ ~hmirror /\ frameFS = "HD" /\ ~useMotion)
    /\ aide # "timing" => (fsizePtr = "HDV2" /\ captureFPS = 2)

AideNext ==
    \/ aide = "sound" /\ AudioNext /\ UNCHANGED <<logVars, motionVars, vars, aide>>
    \/ aide = "log" /\ LogNext /\ UNCHANGED <<audioVars, motionVars, vars, aide>>
    \/ aide = "motion" /\ MotionNext /\ UNCHANGED <<audioVars, logVars, vars, aide>>
    \/ aide = "timing" /\ Next /\ UNCHANGED <<audioVars, logVars, motionVars, aide>>

(* A helper that is not explored starts at rest: fairness asks nothing of it. *)
AideSpec == AideInit /\ [][AideNext]_aideVars /\ LogFairness /\ MotionFairness
=============================================================================
