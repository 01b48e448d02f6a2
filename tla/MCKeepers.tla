----------------------------- MODULE MCKeepers -----------------------------
(* Three loops the capture task runs beside its frames, explored one at a   *)
(* time: the size and rate of the sensor, the SD write governor, and the    *)
(* supervision of the link and of the task itself.                          *)
EXTENDS SensorControl, SdGovernor, Supervision, TLC

VARIABLE keeper \* the loop this behaviour explores

keeperVars == <<vars, govVars, supVars, keeper>>

(* Three sizes; the one for night sessions is the slowest.                  *)
MCCeiling == 1 :> 6 @@ 2 :> 4 @@ 3 :> 5

(* A loop that is not explored is at rest - supervision on a board that has *)
(* just been reset - so that fairness asks nothing of it.                   *)
SensorRests == cmds = 0 /\ fsizePtr = 1 /\ captureFPS = 4 /\ idleFps = 0
GovRests == detail = 6 /\ sensorQ = 1
SupRests == ~router /\ ~allowAP

KeeperInit ==
    /\ keeper \in {"sensor", "governor", "supervision"}
    /\ Init /\ (keeper # "sensor" => SensorRests)
    /\ GovInit /\ (keeper # "governor" => GovRests)
    /\ BootedUp /\ ota = (IF keeper = "supervision" THEN "idle" ELSE "reset")
    /\ (keeper # "supervision" => SupRests)

KeeperNext ==
    /\ UNCHANGED keeper
    /\ \/ keeper = "sensor" /\ Next /\ UNCHANGED <<govVars, supVars>>
       \/ keeper = "governor" /\ GovNext /\ UNCHANGED <<vars, supVars>>
       \/ keeper = "supervision" /\ SupNext /\ UNCHANGED <<vars, govVars>>

KeeperSpec ==
    /\ KeeperInit /\ [][KeeperNext]_keeperVars
    /\ WF_vars(keeper = "sensor" /\ CaptureTask) /\ WF_vars(keeper = "sensor" /\ Handler)
    /\ GovFairness /\ SupFairness
=============================================================================
