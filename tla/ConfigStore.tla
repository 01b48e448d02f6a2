------------------------------ MODULE ConfigStore ------------------------------
(***************************************************************************)
(* The settings of the application (prefs.cpp): the vector configs, which   *)
(* every lookup searches by its key order, the variables it is applied to,  *)
(* the file it is saved to on the card, and the preferences in NVS, which   *)
(* hold the passwords and the network's name.                               *)
(*                                                                         *)
(* A setting stands for its kind: AP_Pass for the passwords, ST_SSID for    *)
(* the network's name, extIP for what the program sets itself, fhdProfile   *)
(* for a setting a newer build has and an older one has not, hostName for   *)
(* what checkConfigFile() writes and the built-in table has not, tgramToken *)
(* for itself, a secret that NVS does not hold.                             *)
(***************************************************************************)
EXTENDS Naturals, SequencesExt

CONSTANTS
    Tried,               \* what the user may enter
    Squeezed,            \* what is left of each of them without its spaces
    Builds,              \* firmware: [cfgVer, keys], keys being those of appConfig
    MaxChanges, MaxBoots, \* bounds: changes of a setting, boots
    CfgRaces             \* what the code does not provide for, see Allowed

ASSUME ConfigAssumption ==
    /\ "*" \notin Tried /\ MaxChanges \in Nat /\ MaxBoots \in Nat
    /\ \A b \in Builds :
          b.keys \subseteq {"AP_Pass", "ST_SSID", "extIP", "fhdProfile", "tgramToken"}
    /\ \A v \in Tried :
          /\ Squeezed[v] # "*"
          /\ Squeezed[v] \in Tried => Squeezed[Squeezed[v]] = Squeezed[v]
          /\ v \in {"", "own", "other"} \cup {b.cfgVer : b \in Builds} => Squeezed[v] = v

VARIABLES
    build, phase, check,    \* the firmware; where loadConfig() is; calls of checkConfigFile()
    configs, app, prefsOpen, \* the vector, the variables, the handle of Preferences
    saving,                 \* per task: the rows it is writing, or Nothing
    configFile, nvs,        \* what outlives a reset: the rows of the file, or Nothing
    changes, boots,         \* counters of the bounds
    kept                    \* history: what the next boot must find, or Unknown

memory  == <<configs, app, prefsOpen>>
stored  == <<configFile, nvs>>
counted == <<changes, boots>>
cfgVars == <<build, phase, check, memory, saving, stored, counted, kept>>

KeyOrder == <<"AP_Pass", "ST_SSID", "appId", "cfgVer", "extIP", "fhdProfile", "hostName",
              "tgramToken">>
Rank(k) == CHOOSE i \in DOMAIN KeyOrder : KeyOrder[i] = k
Variables == {"AP_Pass", "ST_SSID", "extIP", "fhdProfile", "hostName", "tgramToken"}
Prefs == {"AP_Pass", "ST_SSID"}
Secrets == {"AP_Pass", "tgramToken"}
Tasks == {"web", "ping", "boot"}
Unknown == "?"

Row(k, v) == [key |-> k, val |-> v]
Nothing == <<Row("", "")>>
\* Rows in the order of their keys; no two have the same.
Place(rows, i) == 1 + Cardinality({j \in DOMAIN rows : Rank(rows[j].key) < Rank(rows[i].key)})
Sorted(rows) == [n \in DOMAIN rows |-> rows[CHOOSE i \in DOMAIN rows : Place(rows, i) = n]]
KeysOf(rows) == {rows[i].key : i \in DOMAIN rows}
ValueOf(rows, k) == rows[CHOOSE i \in DOMAIN rows : rows[i].key = k].val
Update(rows, k, v) == [i \in DOMAIN rows |-> IF rows[i].key = k THEN Row(k, v) ELSE rows[i]]

Allowed(race, ok) == ok \/ race \in CfgRaces
Idle == \A t \in Tasks : saving[t] = Nothing

CfgInit ==
    /\ build \in Builds /\ phase = "off" /\ check = 0
    /\ configs = << >> /\ app = [k \in Variables |-> ""] /\ prefsOpen = FALSE
    /\ saving = [t \in Tasks |-> Nothing]
    /\ configFile = Nothing /\ nvs = [k \in Prefs |-> ""]
    /\ changes = 0 /\ boots = 0
    /\ kept = [k \in Variables |-> Unknown]
----------------------------------------------------------------------------
(* Saving.                                                                 *)

\* What a row of the file shows: stars for a value that must not be there.
Written(row) == IF row.key \in Secrets /\ row.val # "" THEN Row(row.key, "*") ELSE row

\* loadVectItem(): what it makes of a value.
Loaded(v) == IF v \in Tried THEN Squeezed[v] ELSE v

SavePrefs == IF prefsOpen THEN nvs ELSE [k \in Prefs |-> app[k]]

\* The vector is sorted, the file is emptied and the rows go into it.
SaveConfigVect(t, rows) ==
    /\ Allowed("twoSavers", Idle)
    /\ configs' = Sorted(rows)
    /\ saving' = [saving EXCEPT ![t] = [i \in DOMAIN rows |-> Written(Sorted(rows)[i])]]
    /\ configFile' = << >>

\* What a row that is saved promises: a setting its value without the spaces, a preference
\* what was last put in NVS - unless the row is empty, which the next boot takes for the
\* password - and a token nothing, as only its stars are stored.
KeptBy(k, v) ==
    IF k \in Prefs THEN IF k = "AP_Pass" /\ v = "" /\ nvs[k] # "" THEN Unknown ELSE kept[k]
    ELSE IF k \in (build.keys \cup {"hostName"}) \ Secrets THEN Loaded(app[k]) ELSE Unknown

\* The other task has the file open too: its clusters are anybody's.
SaveEnds(t) ==
    /\ saving[t] # Nothing
    /\ saving' = [saving EXCEPT ![t] = Nothing]
    /\ IF \A u \in Tasks \ {t} : saving[u] = Nothing
          THEN configFile' = saving[t]
          ELSE \E n \in 0..Len(saving[t]) : configFile' = SubSeq(saving[t], 1, n)
    /\ kept' = [k \in Variables |->
                   IF k \in KeysOf(saving[t]) THEN KeptBy(k, ValueOf(saving[t], k)) ELSE Unknown]
    /\ UNCHANGED <<build, phase, check, memory, nvs, counted>>

\* The vector is not written to while a task saves it.
Set(k, v) ==
    /\ phase = "up" /\ changes < MaxChanges /\ Allowed("twoSavers", Idle)
    /\ changes' = changes + 1
    /\ app' = IF k = "AP_Pass" /\ v = "*" THEN app ELSE [app EXCEPT ![k] = v]
    /\ configs' = Update(configs, k, v)
    /\ UNCHANGED <<build, phase, check, prefsOpen, saving, stored, boots, kept>>

\* A secret comes back from the page as the stars it was shown as.
UserSets ==
    \/ \E k \in build.keys \ ({"extIP"} \cup Secrets), v \in Tried : Set(k, v)
    \/ \E k \in build.keys \cap Secrets, v \in Tried \cup {"*"} : Set(k, v)

UserSaves(one) ==
    /\ phase = "up" /\ saving["web"] = Nothing
    /\ Allowed("clearThenSave", one => ~prefsOpen)
    /\ SaveConfigVect("web", configs)
    /\ IF one
          THEN /\ nvs' = SavePrefs
               /\ kept' = [k \in Variables |-> IF k \in Prefs THEN app[k] ELSE kept[k]]
          ELSE UNCHANGED <<nvs, kept>>
    /\ UNCHANGED <<build, phase, check, app, prefsOpen, counted>>

\* getExtIP() from the ping task.
ExtIpChanges ==
    /\ phase = "up" /\ saving["ping"] = Nothing /\ changes < MaxChanges
    /\ changes' = changes + 1
    /\ \E v \in Tried \ {app["extIP"]} :
          /\ app' = [app EXCEPT !["extIP"] = v]
          /\ SaveConfigVect("ping", Update(configs, "extIP", v))
    /\ UNCHANGED <<build, phase, check, prefsOpen, nvs, boots, kept>>

\* /control?clear=1: the handle of Preferences stays open.
Clear ==
    /\ phase = "up" /\ changes < MaxChanges /\ ~prefsOpen
    /\ changes' = changes + 1
    /\ nvs' = [k \in Prefs |-> ""] /\ prefsOpen' = TRUE
    /\ kept' = [k \in Variables |-> IF k \in Prefs THEN Unknown ELSE kept[k]]
    /\ UNCHANGED <<build, phase, check, configs, app, saving, configFile, boots>>
----------------------------------------------------------------------------
(* Power, firmware, card.                                                  *)

ResetTo(b) ==
    /\ build' = b /\ phase' = "off" /\ check' = 0
    /\ configs' = << >> /\ app' = [k \in Variables |-> ""] /\ prefsOpen' = FALSE
    /\ saving' = [t \in Tasks |-> Nothing]
    /\ UNCHANGED <<nvs, counted>>

\* A power cut leaves as many rows of a file that is being written as had reached it.
PowerLost ==
    /\ phase # "off" /\ ResetTo(build)
    /\ IF Idle
          THEN UNCHANGED <<configFile, kept>>
          ELSE /\ kept' = [k \in Variables |-> Unknown]
               /\ \E t \in Tasks :
                     /\ saving[t] # Nothing
                     /\ \E n \in 0..Len(saving[t]) : configFile' = SubSeq(saving[t], 1, n)

Updated ==
    /\ phase = "up" /\ Allowed("twoSavers", Idle)
    /\ \E b \in Builds \ {build} :
          /\ ResetTo(b)
          /\ kept' = [k \in Variables |->
                         IF b.cfgVer # build.cfgVer \/ k \in build.keys \ b.keys
                         THEN Unknown ELSE kept[k]]
    /\ UNCHANGED configFile

\* /control?deldata=1, and a restart.
DataDeleted ==
    /\ phase = "up" /\ Allowed("twoSavers", Idle)
    /\ ResetTo(build)
    /\ configFile' = Nothing /\ kept' = [k \in Variables |-> Unknown]

\* The card of another application, whose file is as good as its own program left it.
OtherCard ==
    /\ phase = "off" /\ boots < MaxBoots
    /\ configFile' = <<Row("appId", "other"), Row("cfgVer", build.cfgVer)>>
    /\ kept' = [k \in Variables |-> Unknown]
    /\ UNCHANGED <<build, phase, check, memory, saving, nvs, counted>>
----------------------------------------------------------------------------
(* loadConfig().                                                           *)

PowerOn ==
    /\ phase = "off" /\ boots < MaxBoots
    /\ boots' = boots + 1 /\ phase' = "check" /\ check' = 1
    /\ UNCHANGED <<build, memory, saving, stored, changes, kept>>

Defaults == SetToSeq({Row(k, "") : k \in build.keys})
OwnRows == <<Row("appId", "own"), Row("hostName", "own"), Row("cfgVer", build.cfgVer)>>

\* The built-in table first, the version last: a file cut short is not taken for one.
CreateConfigFile ==
    /\ phase = "check" /\ configFile = Nothing
    /\ app' = [app EXCEPT !["hostName"] = "own"]
    /\ saving' = [saving EXCEPT !["boot"] = Defaults \o OwnRows]
    /\ configFile' = << >> /\ phase' = "create"
    /\ UNCHANGED <<build, check, configs, prefsOpen, nvs, counted, kept>>

ConfigFileCreated ==
    /\ phase = "create"
    /\ configFile' = saving["boot"] /\ saving' = [saving EXCEPT !["boot"] = Nothing]
    /\ phase' = "load"
    /\ UNCHANGED <<build, check, memory, nvs, counted, kept>>

RightVersion ==
    "cfgVer" \in KeysOf(configFile) /\ ValueOf(configFile, "cfgVer") = build.cfgVer
RightApp ==
    "appId" \in KeysOf(configFile) /\ ValueOf(configFile, "appId") = "own"

\* loadConfig() calls checkConfigFile() twice: the file it deleted is made anew.
CheckAgain == IF check = 1 THEN "check" ELSE "failed"

CheckConfigFile ==
    /\ phase = "check" /\ configFile # Nothing
    /\ IF RightVersion /\ RightApp
          THEN phase' = "load" /\ UNCHANGED <<check, prefsOpen, stored>>
          ELSE /\ phase' = CheckAgain /\ check' = check + 1
               /\ configFile' = Nothing
               /\ IF RightVersion
                     THEN nvs' = [k \in Prefs |-> ""] /\ prefsOpen' = TRUE
                     ELSE UNCHANGED <<nvs, prefsOpen>>
    /\ UNCHANGED <<build, configs, app, saving, counted, kept>>

\* loadConfigVect(), and what mergeDefaultConfigs() finds missing.
Taken(rows) == [i \in DOMAIN rows |-> Row(rows[i].key, Loaded(rows[i].val))]
LoadUnsorted ==      \* MUTANT of LoadConfigVect: the rows are left as the file has them
    /\ phase = "load" /\ configs = << >>
    /\ configs' = Taken(configFile)
    /\ UNCHANGED <<build, phase, check, app, prefsOpen, saving, stored, counted, kept>>

LoadConfigVect ==
    /\ phase = "load" /\ configs = << >>
    /\ configs' = Sorted(Taken(configFile))
    /\ UNCHANGED <<build, phase, check, app, prefsOpen, saving, stored, counted, kept>>

Missing == SetToSeq({Row(k, "") : k \in build.keys \ KeysOf(configs)})
Merged == Sorted(configs \o Missing)

MergeDefaultConfigs ==
    /\ phase = "load" /\ configs # << >>
    /\ IF Missing = << >>
          THEN phase' = "prefs" /\ UNCHANGED <<configs, saving, configFile>>
          ELSE phase' = "merge" /\ SaveConfigVect("boot", Merged)
    /\ UNCHANGED <<build, check, app, prefsOpen, nvs, counted, kept>>

\* The rows written back are those that were read: nothing a boot must find has changed.
DefaultsMerged ==
    /\ phase = "merge"
    /\ configFile' = saving["boot"] /\ saving' = [saving EXCEPT !["boot"] = Nothing]
    /\ phase' = "prefs"
    /\ UNCHANGED <<build, check, memory, nvs, counted, kept>>

LoadPrefs ==
    /\ phase = "prefs"
    /\ phase' = "reload"
    /\ IF prefsOpen
          THEN UNCHANGED <<app, configs>>
          ELSE /\ app' = [app EXCEPT !["AP_Pass"] = nvs["AP_Pass"], !["ST_SSID"] = nvs["ST_SSID"]]
               /\ configs' = Update(configs, "ST_SSID", nvs["ST_SSID"])
    /\ UNCHANGED <<build, check, prefsOpen, saving, stored, counted, kept>>

AppliedStars(k) ==                  \* MUTANT of Applied: stars are a password like any other
    IF k \notin KeysOf(configs) \/ k \notin build.keys \cup {"hostName"} THEN app[k]
    ELSE ValueOf(configs, k)

\* What updateStatus() makes of a row: a password of stars is none, a token is.
Applied(k) ==
    IF k \notin KeysOf(configs) \/ k \notin build.keys \cup {"hostName"} THEN app[k]
    ELSE LET v == ValueOf(configs, k) IN IF k = "AP_Pass" /\ v = "*" THEN app[k] ELSE v

ReloadConfigs ==
    /\ phase = "reload"
    /\ app' = [k \in Variables |-> Applied(k)]
    /\ phase' = "up"
    /\ UNCHANGED <<build, check, configs, prefsOpen, saving, stored, counted, kept>>
----------------------------------------------------------------------------
CfgNext ==
    \/ UserSets \/ UserSaves(TRUE) \/ UserSaves(FALSE) \/ ExtIpChanges \/ Clear
    \/ \E t \in {"web", "ping"} : SaveEnds(t)
    \/ PowerLost \/ Updated \/ DataDeleted \/ OtherCard \/ PowerOn
    \/ CreateConfigFile \/ ConfigFileCreated \/ CheckConfigFile \/ LoadConfigVect
    \/ MergeDefaultConfigs \/ DefaultsMerged \/ LoadPrefs \/ ReloadConfigs

CfgSpec == CfgInit /\ [][CfgNext]_cfgVars
----------------------------------------------------------------------------
(* Properties.                                                             *)

\* loadConfig() finds every setting, without its spaces, and every preference as the last save
\* that ended left it, unless data, preferences or version were given up since - whatever was
\* edited, shown as stars, saved for another task or merged from a newer build in between.
\* Nothing is said of a Telegram token: its stars are saved, and applied.
SettingsKept ==
    [][phase = "reload" /\ phase' = "up" =>
          \A k \in Variables : kept[k] \in {Unknown, app'[k]}]_cfgVars

\* Once mergeDefaultConfigs() has run the binary search of getKeyPos() is valid and finds
\* every setting of this build, wherever an earlier save or creation of the file was cut off.
LookupWorks ==
    phase \in {"prefs", "reload", "up"} =>
        /\ build.keys \subseteq KeysOf(configs)
        /\ \A i \in 1..Len(configs) - 1 : Rank(configs[i].key) < Rank(configs[i + 1].key)

\* A card with room always boots: a file that is empty, half written, of another version or
\* of another application is replaced in the same boot.
AlwaysConfigured == phase # "failed"

\* No password and no token reaches the card.
NoSecretOnCard ==
    \A i \in DOMAIN configFile :
        configFile[i].key \in Secrets => configFile[i].val \in {"", "*"}

\* prefs.cpp, loadConfig(): "loadPrefs(); // overwrites any corresponding entries in config"
PrefsOverwrite ==
    [][phase = "reload" /\ phase' = "up" /\ ~prefsOpen => app'["AP_Pass"] = nvs["AP_Pass"]]_cfgVars
================================================================================
