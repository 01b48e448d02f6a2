------------------------------- MODULE MCCard -------------------------------
(* What the card keeps, explored one at a time: the recordings and the      *)
(* settings.  They share no state.                                          *)
EXTENDS CardStorage, ConfigStore

VARIABLE part \* what this behaviour explores

(* Three builds: the last but one knows a setting more than the first, the  *)
(* last has a new version of the file.  One value has spaces.               *)
FirstBuild == [cfgVer |-> "52", keys |-> {"AP_Pass", "ST_SSID", "extIP"}]
MCBuilds == {FirstBuild,
             [FirstBuild EXCEPT !.keys = @ \cup {"fhdProfile", "tgramToken"}],
             [FirstBuild EXCEPT !.cfgVer = "53"]}

MCSqueezed == [v \in {"", "a b"} |-> IF v = "a b" THEN "ab" ELSE v]

CardInit ==
    /\ part \in {"clips", "settings"}
    /\ Init /\ CfgInit
    /\ ~deleteAfter => ~fsUse           \* the server matters to a deletion only
    /\ part # "clips" => sdFreeSpaceMode = 0 /\ deleteAfter /\ autoUpload /\ ~fsUse
    /\ part # "settings" => build = FirstBuild

CardNext ==
    /\ UNCHANGED part
    /\ \/ part = "clips" /\ Next /\ UNCHANGED cfgVars
       \/ part = "settings" /\ CfgNext /\ UNCHANGED vars

CardSpec == CardInit /\ [][CardNext]_<<vars, cfgVars, part>> /\ Fairness
=============================================================================
