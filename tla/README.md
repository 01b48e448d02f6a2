# A verification of the ESPIPCAM camera

ESPIPCAM is the firmware of an IP camera on an ESP32-S3: it records motion to an
SD card as MJPEG in AVI files, plays recordings back, streams live video, serves
its own web pages and updates itself. It is C++ on FreeRTOS: a dozen tasks that
share global variables, a few semaphores and very few locks. This directory holds TLA+ models
of the parts of it that keep state, the configurations with which TLC checks
them, and proofs, checked by the TLA+ proof system, that the main properties hold
for every value of the parameters. The source is in `../src`; file names and line
numbers below refer to it.

To check a model: `tlc -config Capture.cfg CaptureControl`; `PROJECT.json` names the
module of each configuration. To check proofs: `tlapm AviClipProofs.tla`.

## 1. The system

| part | source | state | operations | talks to |
|---|---|---|---|---|
| capture task | `mjpeg2sd.cpp` `processFrame`, `captureTask` | `isCapturing`, `forceRecord`, `doRecording`, `haveMotion`, `supplyParked`, `shutdownPending` | a pass per frame: detect, decide, open, save, close, settle | everything below |
| AVI recording | `avi.cpp`, `openAvi` `saveFrame` `closeAvi` `recoverAvi` | the file under `AVITEMP`, the write buffer, the index, `frameCnt` | open, add chunk, close in four storage steps, recover at boot | SD card, audio |
| playback | `openSDfile`, `getNextFrame`, `stopPlaying`, `readSD`; `showPlayback` | `stopPlayback`, `isPlaying`, `doPlayback`, two semaphores, `sdReadBuf`, `iSDbuffer` | select, open, pull clusters, finish, force-stop | capture task, web server |
| live streaming | `streamServer.cpp`, `buildZoneOverlay` | the ring `strmBuf/strmLen/strmWr/strmRd`, `isStreaming`, `sustainReq`, `cancelDownload` | offer, send, claim, stop, download | capture task, web server |
| sensor size and rate | `settleSensor`, `idleThrottle`, `nightEnter/Exit`; `appSpecific.cpp` | `fsizePtr`, `captureFPS`, `FPS`, `sensorFS`, `pendingFS/FPS`, `retimePending`, the night session | choose, defer, settle, throttle, borrow | web server, playback |
| sensor timing | `applyTunedTiming`, `applySensorTuning`, `nightApply` | the OV5640's registers for clock, line, frame, window, exposure limits | rewrite them one at a time, read some back | sensor bus, size and rate |
| quality governor and rescue | `sdGovernor`, `noFrameRescue`, night quality | `govUserQ`, `govBaseQ`, `sdGovBoost`, a window of frame sizes | push, relax, ease, rescue, rebase | recording, night session, web server |
| zone motion, night | `zoneMotion`, `zoneCheck`; `isNight` | reference of the zones, streak, `haveMotion`, `nightCnt`, `nightTime` | a gated check per Nth frame | capture task, ping callback |
| update, restart, crash loop | `otaUpdate.cpp`, `OTAprereq`, `otaConfirm`, `appShutdown`, `doRestart`; `utilsLog.cpp` | restart stage and crash-loop flag in RTC memory, the trace on the card, the image's state | land the recording, park and delete tasks, restart stage by stage, tell at the next boot, confirm | capture task, streams, supply |
| supply | `battMonitor`, `sagShutdown`, brownout code in `utilsLog.cpp` | `supplySagging`, the comparator's level and what it may cut, the brownout status, the holdoff | sag, park, arm, disarm, probe, hold off | capture task, restart |
| audio | `audio.cpp` | two halves of a buffer, their lengths, a mutex, the stream's buffer | fill, hand over, start, stop, stream | AVI recording, sustain task |
| storage, transfer | `utilsFS.cpp`, `ftp.cpp` | free space, `storedPathName`, `uploadInProgress`, `fsHandle` | free space, upload, delete | recording, web server |
| configuration | `prefs.cpp`, `appSpecific.cpp` | the vector `configs`, its file, NVS | create, load, merge, apply, save | everything |
| web server | `webServer.cpp`, `appSpecific.cpp` | `inFileName`, `chunk` | commands, files, uploads | everything |
| network, watchdog | `utils.cpp` | station and AP, ping session, enrolled tasks | connect, ping, supervise, pet, stop | capture task, update |
| log | `utilsLog.cpp` | a pool of buffers, a queue, a ring of text in RTC memory, the log file | append, sync, save after a crash | every task |
| options | telegram, smtp, mqtt, webDav, peripherals, certificates, setup pages | | off by default | |

What is hard about it:

- **Interleaving without locks.** The capture task (priority 6), the reader task
  of a playback (7), up to three senders, the web server and the audio task (5) read and
  write the same flags. `stopPlaying()` can be running in three tasks at a time.
- **One pass, many ways out.** Motion, button, dashcam, full file, full card, sag,
  restart and a refused size all end a recording in the same pass, in an order that matters.
- **Loss of power.** A recording lives under a temporary name until it is closed;
  the directory entry lags behind the data and recovery has to rebuild the rest.
- **Borrowed state.** A playback borrows the frame rate, a night session size and
  rate, the idle throttle the sensor's timing; each has to give back what it took.
- **A restart is a life's last word.** How a life ended is written into RTC memory, onto the
  card and into a reset reason at different moments, while the supply may go.
- **Registers over a slow bus.** The sensor reads frames while its timing is rewritten a
  register at a time, and a write may be lost.
- **Timeouts that give up.** Waits for a sender, a landing, a parked task end after
  a while, and what was waited for happens later.

`PROJECT.json` lists every component with what is modelled of it and every
hazard at its line.

## 2. The modules

| module | models | state and actions |
|---|---|---|
| `AviClip` | one AVI file from `openAvi()` to its name, losses of power and `recoverAvi()` | the file as chunks, flushed size and header; the index with its positions; one action per storage operation (`CloseData`, `CloseIndex`, `CloseHeader`, `CloseName`), so that `Crash` can come between any two, and so that an index or a header may not reach the card unnoticed |
| `ClipStore` | what recording promises: chunks are added, a loss of power takes the unflushed end, the file is kept whole or discarded | the abstract specification `AviClip` implements |
| `CaptureControl` | the decisions of `processFrame()` and what acts on them from outside | one action per stretch of a pass that no other task can split in a way that matters: `Detect`, `Decide`, `Check`, `OpenAvi`, `SaveFrame`, `CloseAvi`, `EndPass`; `Command`, `Sag`, the steps of `appShutdown()`/`doRestart()` and of `OTAprereq()`/`endTasks()` beside it |
| `Playback` | a playback and the recording that ends it | a program counter for the capture task and for the sender, `stopPlaying()` as a procedure any of three tasks may be in, the reader task with its notification, both semaphores, the shared buffers by what was put into them last |
| `LiveStream` | the frame ring between the capture task and a viewer, the overlay, the life of a sustain task | `Offer`, `HandOver`, `Signal` are the capture task's steps, `TakeFrame`, `Sent` the sender's, `Claim`, `StopSustainTask`, `Download` the web server's |
| `FrameQueue` | a bounded queue of whole frames, in order, emptied for a new viewer | the abstract specification `LiveStream` implements |
| `SensorControl` | which size, rate and timing the sensor has, who wants what, and who may write it | a pass of the capture task from the throttle to `settleSensor()`, the web commands with their deferral, each step of a command apart - the test, the end of a session, autofocus, the write, the clamp - night sessions, the loan to a playback |
| `SensorTiming` | the registers behind `SensorControl`'s timing: window, line and frame length, clock tree, exposure limits | a tuning is a list of register writes made from the size, the rate and the night exposure; `Write` does the next one, `Lose` loses it, the two bytes of a line or of a frame length are two writes; what the code reads back it decides on |
| `SdGovernor` | the JPEG quality and who moves it | a step per frame, arrived or not: the window of sizes, push, relax, ease, the rescue; a clip opens and closes; sessions and the two parts of a quality command |
| `Supervision` | who keeps the board reachable and alive | station and AP against a router that comes and goes, ping sessions with their task and callback, the capture task's watchdog and Wi-Fi retry, `OTAprereq()` step by step |
| `BootRecord` | the lives of the board | stages of `doRestart()` and of the next boot, each with what it writes to RTC memory, card and comparator; `LifeOver` ends a life in any way at any step, deep sleep from the ping callback in the middle of `setup()` and of `doRestart()` among them; the image's confirmation |
| `CardStorage` | the recordings on the card and who takes them away | the end of `closeAvi()`, `checkFreeStorage()` folder by folder, the file server task file by file, to an FTP server that answers or an HTTPS one whose answers nobody reads, the web page |
| `ConfigStore` | settings: vector, file, NVS, variables | the boot with creation, load, merge and application, where a load strips the spaces of a value; changes and saves, which show stars for secrets and sort the vector, with the power lost in the middle; a reset to defaults; other builds and cards |
| `AudioChunks` | the two halves the audio task fills and a recording drains; the stream beside it | the audio task's test, append and unlock apart, the capture task's take and flip, the closing drain |
| `LogPool` | the log: pool, queue, log task, RTC ring, file | a caller takes and queues a buffer, the log task echoes, stores, writes, syncs and returns it, step by step; the web page's commands; `logSyncSD()` |
| `MotionGate` | the zone checks and the night counter | `CheckFirst`, `Compare` with gates, reference, mask and mirror; the streak and `haveMotion`; both callers of `isNight()` |

`MCAviClip`, `MCTiming` give constants values a configuration cannot write; `MCAviClip` also says when
`maxFrames` is lowered. `MCKeepers`, `MCAides` (with `MCTiming`), `MCCard` explore modules that share no
state in one run, one of them at a time
(their product would add only interleavings of what cannot meet); `MCPlayback` explores
`Playback` calm and with everything its constants switch on. The modules named `...Proofs` hold
the theorems.

The modules overlap where the code does. When a recording begins and ends is
decided in `CaptureControl`; `AviClip`, `Playback`, `SensorControl`, `SdGovernor`,
`AudioChunks` and `CardStorage` let it begin and end at any pass, which allows more than
`CaptureControl` does. What it takes as an input, another module makes: motion
(`MotionGate`), sound chunks (`AudioChunks`), the sag (`BootRecord`), a card that is full
(`CardStorage`). `isCapturing`, `doPlayback`, `isPlaying`
and `FPS` appear in several modules with the same meaning; the size the sensor has is `sensorFS` in
`SensorControl` and `SensorTiming`, and `frameFS` in `MotionGate`, which is explored together with the latter.

A definition whose comment calls it a mutant is not part of a model: it is the
definition next to it with a plausible mistake, and shows that the property named in
`PROJECT.json` would notice it.

## 3. The runs

Passing runs:

| run | instance | what it shows |
|---|---|---|
| `clip` | two recordings, two losses of power, a frame longer than a block, audio of none or 9000 bytes, `maxFrames` of 1 or 4, lowered only between clips, working storage, a clock that moves on | Every file `closeAvi()` or recovery names is playable (`ClosedClipsPlayable`, `RecoveredClipsPlayable`): header, index and chunks agree in every figure a player uses. Nothing that waits under `AVITEMP` is truncated (`NothingOverwritten`) or stays there (`TempIsResolved`), and recording with recovery implements `ClipStore`. |
| `capture` | files of two frames, two web commands of any kind, a boot after a brownout, sag, full card, restart or update, with and without a dashcam | Between two passes a file is open just when `isCapturing` says so; what an update found and landed stays closed; after a sag no recording stays open, though the end of the holdoff puts the toggle back (`SagLands`); once nothing asks for a recording every file is closed. |
| `playback` | calm: three clusters, three recordings, three playbacks, prompt card and browser; storm: one recording, two playbacks, one web request, slow and closed connections, missing files, late reads | Calm: a recording's frame count, rate and index buffer are its own, the rate comes back after every playback. Calm or not: a recording that is to start does start. |
| `stream` | two buffers, viewers and downloads that come, are stopped, fail | The ring implements a queue of whole frames; frames are skipped only when both buffers are in use; viewers get frames; stops are obeyed. |
| `stream_overlay` | the same with Show Motion switched at any step | Neither an overlay nor a frame is rewritten while it is sent. |
| `keepers` | sensor: three sizes, three commands of size, rate, idle rate and night session, each in its steps; governor: three changes of scene, quality or session in three levels of detail, quality 1 to 9; supervision: two ping sessions, two rounds of patience, an AP wanted or not | Every frame of a recording has the size and timing its file was opened for; the user has what he chose last; sensor and timer settle. The quality stays at or above the user's, no boost outlives its clip, frames that stopped come back. A router that stays is found again; no watchdog entry is left behind for a transfer. |
| `boot` | three lives with every way to end them, deep sleep at any point once `setup()` has the network, an update, probes of the comparator at any step | A life that crashed has its log copied by the next, and none that ended in order has (`CrashKept`: deep sleep in the middle of a restart or of `setup()` is neither); the boot names the stage at which a restart stopped, however many boots die in between; no brownout cuts an ordered stop once disarmed. |
| `card` | clips: two days, three recordings of one or two units on a card of three, deletion after upload or not, an FTP or an HTTPS server; settings: three builds, three boots, three changes, a value with a space, a password, a network name, a token, power lost in any save | What the file server task deletes an FTP server has; a transfer never stays in progress; every setting is found as the last whole save left it, less its spaces, every preference as NVS got it, and the sorted vector finds every key of the build. |
| `aides` | sound: halves of three samples, five samples, two clips; log: two buffers, a ring of three cells, two numbered lines; motion: four zones, two of them masked in, two dark frames to a night, gates that fail at any check; timing: six sizes that differ in how they are tuned, rates of 2 and 56, night exposures of 3 and 10 s, two choices, one lost write | A clip has every sample of its time once and in order; no buffer of the log is lost; the lines before a sag are on the card; a scene at rest ends the motion. Between any two register writes no frame is read of fewer lines than its window has, but one read between the two bytes of its length, at most 255 lines short (`VtsCoversRows`, while no write is lost); the halved dividers never see a clock above 88 MHz; once tuned the sensor makes the rate asked for or the size's most, and a session leaves neither its line nor its damping. |

Runs that TLC refutes, each for a statement the source makes about itself
(`findings` in `PROJECT.json` has the quotations):

| run | property | what happens |
|---|---|---|
| `clip_dense` | `RecoveredClipsPlayable` | A sound chunk for every frame fills the index before `maxFrames` frames are recorded, and `aviIndexNearFull()` ends the clip. If the power goes before its rename, `recoverAvi()` meets the same test at the same chunk, after it has indexed the chunk and before it has moved past it: the new index is written over the chunk it lists last. |
| `stream_restart` | `SkippedOnlyWhenBusy` | A viewer connects while the capture task is in `streamOfferFrame()`; the reset of the indexes and the frame pass each other, and the viewer gets nothing. |
| `card_prefs` | `PrefsOverwrite` | A settings file made anew has no access point password; `loadPrefs()` puts the one in NVS into its variable but not into the vector, and `reloadConfigs()` takes the variable from the vector. The next save empties NVS. |

The modules state more than the runs check. These hold too under the same
configurations, and are left out of them so that a run answers one question:
`DeletedAtWait`, `ParkedOpensNothing`, `DashcamRolls` (`CaptureControl`); `RefusedOnlyForCapture`,
`SenderLeaves` (`Playback`); `CancelIsForThis`, `BusyIsClient` (`LiveStream`);
`TimingFitsSize`, `PlaybackPaced`, `TimerHasRate` (`SensorControl`);
`ScalerLegal`, `AecFits`, `HtsNoShorter` (`SensorTiming`); `EaseHolds`, `WalksBack` (`SdGovernor`);
`StuckIsReset`, `LinkIsWatched` (`Supervision`); `HoldoffFits` (`BootRecord`); `ClipFits`,
`ClosedClipLands` (`CardStorage`); `AlwaysConfigured`, `NoSecretOnCard` (`ConfigStore`); `StreamWhole`,
`AlertsLand`, `RingIsTail`, `StartsOnMovement`, `BusySeen` (the aides); `IndexFollowsStream`, `WalkHasRoom`,
`IInv` (`AviClip`); the `TypeOK` of each module that has one.

### Bounds

They are constants of the models: `MaxRecordings`, `MaxCrashes`, `MaxPlays`,
`MaxRequests`, `MaxCommands`, `MaxAsks`, `MaxLost`, `MaxEvents`, `MaxLives`, `MaxBoots`,
`MaxChanges`, `MaxClips`, `MaxLines`, `MaxHeard` bound how often something happens; nothing else is cut. Two
recordings are enough for state that leaks from one to the next (index, write buffer, gate); two
losses of power put one into a recovery; three clusters give a first, a middle
and a last; two stream buffers are what the code has; two commands put one on each side
of any step of a pass, and three in `keepers` enter a night session, change a value in it and
leave it again, each step by step. Three lives give one that ends, one that is told of and one that must not be
told of it again; two choices of timing put one in the middle of the writes of the other. Five
samples fill a half of three beyond its end. What needs longer histories is left to the theorems.

Deadlock checking is off where the bounds let a system stop, and in the runs that explore
several modules; it is on for `LiveStream`, which never stops.

### Fairness

- `AviClip`: the frame timer keeps waking the capture task, and `closeAvi()`
  and `recoverAvi()` run to their end: weak fairness of `Frame`, `Close`, `Recover`. A loss of power is
  never fair.
- `CaptureControl`: weak fairness of the timer, of the passes and of time passing
  without motion. `Detect` is strongly fair: the sensor delivers a frame again and again, though
  any one wait for it may time out.
- `Playback`: each task runs when it can; the browser takes what it is sent or the
  connection fails.
- `LiveStream`: weak fairness of the capture task, the overlay, the sender and the
  start of a task. Nobody need connect; a download may take for ever.
- `SensorControl`: the capture task goes on, with a frame or with the driver's time-out, and the web server's
  task comes to the end of a command it has begun. No command, and no end of a playback, is fair: `Settles` has the premise that nothing plays or records any more.
- `SdGovernor`: a frame comes or is missed; the second half of a quality command follows the first.
- `Supervision`: the radio decides (weakly fair) whether an association succeeds; the capture task wakes,
  ends its Wi-Fi call, and, strongly, its passes, since the card blocks it only now and then; event callbacks
  run, strongly, because a later event may replace theirs. No restart of the router is fair.
- `BootRecord`: `otaConfirm()` is called again while the board is up, which only `StaysUpConfirmed` (§4) needs.
  Nothing else is fair: a life may last.
- `CardStorage`: the file server task and the end of `closeAvi()` run to their end. The network answers or
  times out, which is a step of the task.
- `AudioChunks` and `ConfigStore`: none, their properties are of safety.
- `LogPool`: the log task and a caller with a buffer go on. `MotionGate`: the task goes on checking, by day and by
  night (weak fairness of `Check`), and checks whose gates pass come again and again (strong fairness of `CheckFirst` and
  `Compare`); a gate may fail at any one check.

## 4. What the code does not provide for

Some orders of events break the properties in the code as it stands. A constant
switches each of them off in the passing runs, so that everything else is
checked; switched on, the named property fails. The table lists every such constant; what no constant stands for, because
it is not in the models, is below it and in §6.

| switch | property that fails | place | what happens |
|---|---|---|---|
| `LoweredBetweenClips` dropped | `RecoveredClipsPlayable`, `ImplementsClipStore` | `mjpeg2sd.cpp:2045` | recovery of a clip longer than the current `maxFrames`: the index is written over the last chunk it lists |
| a sound chunk per frame under a large cap (`SoundFits` false) | the same | `mjpeg2sd.cpp:2043` | run `clip_dense` |
| `ClockRepeats = TRUE` | `TempIsResolved`; `NothingOverwritten` with a third recording | `mjpeg2sd.cpp:2158` | a rename onto a name that is taken fails unnoticed |
| `IOErrors = TRUE` | `ClosedClipsPlayable`, `NothingOverwritten`, `TempIsResolved`, `ImplementsClipStore` | `mjpeg2sd.cpp:2129`, `:2139` | an index or a header that `closeAvi()` writes and that does not reach the card is not noticed, and the file is named all the same; a rename or a step of the recovery fails |
| `FRAME_CNT_MOD = 4`, `MaxFramesOptions = {4}` | `ClosedClipsPlayable` | `mjpeg2sd.cpp:107` | the frame counter wraps below `maxFrames` |
| `Shutdowns = {"restart"}` | `LandedForRestart` | `mjpeg2sd.cpp:3268` | the restart waits for the decision, not for the file |
| none | `OtaLandsRecording` | `mjpeg2sd.cpp:3351` | `OTAprereq()` looks for a recording once; when there is none, motion stays armed and the capture task is deleted with a file open |
| `Retimes = TRUE` | `DeletedAtWait` | `mjpeg2sd.cpp:3359` | a pass starts the timer again that `OTAprereq()` has stopped |
| none | `ToggleObeyed` | `mjpeg2sd.cpp:2813` | the end of the holdoff after a brownout undoes the user's change of Save Capture |
| `NoCard = TRUE` | the same, without a command | `mjpeg2sd.cpp:3228` | the end of the holdoff turns recording on without a card |
| `OpenFails = TRUE` | `SenderLeaves` | `mjpeg2sd.cpp:2995` | a file that does not open leaves the sender waiting |
| `Requests = {"head"}` | `PlaybackGivesBack` | `streamServer.cpp:413` | a viewer that takes the slot ends the playback without giving the rate back |
| `Requests = {"delete"}` | `RefusedOnlyForCapture` | `appSpecific.cpp:109` | after a deletion playback is refused |
| each of `SendErrors`, `SlowBrowser`, `OpenFails`, `OpenRaces`, `SlowCard`, `LateReader`, and every one of `Requests` | `IndexBufferIsIdle`, `RecordingUndisturbed` | `mjpeg2sd.cpp:3157`, `:2128` | two callers of `stopPlaying()`, a sender or a read that outlives the playback, a file that does not open: the gate is open during a recording |
| `OfferRaces = TRUE` | `SkippedOnlyWhenBusy` | `streamServer.cpp:158` | run `stream_restart` |
| `ShowMotion = TRUE` in `stream` | `SkippedOnlyWhenBusy`, `ImplementsFrameQueue`, `FramesFlow`, `OverlaysFlow` | `streamServer.cpp:206` | an overlay is not a frame of the ring: its sender does not give back the slot of the frame whose signal it took |
| `EarlyStops = TRUE` | `StopObeyed` | `streamServer.cpp:151` | a stop before the task has begun is lost |
| `CopyFails = TRUE` | `BusyIsClient` | `streamServer.cpp:442` | the slot of a request that cannot be copied is lost |
| `Races = {"throttleOff"}` (`SensorControl`, as are the next) | `TimerHasRate` | `mjpeg2sd.cpp:1790`, `:420` | no frame arrives in the pass after `idleFps` is set to 0 under the throttle: the timer is started with a rate of 0, by which `controlFrameTimer()` divides |
| `"openInCommand"` | `ClipKeepsGeometry`, `TimingFitsSize`, `Settles` | `appSpecific.cpp:327`, `:340` | a recording opens between a command's test of `isCapturing` and its write - up to a second, when a night session ends in between and autofocus runs: `settleSensor()`, which is not held off by a recording, switches the size in the middle of the file |
| `"settleInCommand"` | `Settles` | `appSpecific.cpp:340`, `:349` | `settleSensor()` runs between the write of a size and its clamp: timer and registers stay at the rate before the clamp |
| `"switchFails"` | `ClipKeepsGeometry`, `TimingFitsSize`, `Settles` | `mjpeg2sd.cpp:1735` | `set_framesize()` fails: the size that is wanted and the sensor's differ until the next choice |
| `"bothDeferred"` | `ChoiceKept`, `Settles` | `prefs.cpp:256` | a deferred rate is clamped to the ceiling of the old size |
| `"lateChoice"` | `ChoiceKept` | `mjpeg2sd.cpp:1761` | a deferred choice overrides a later one |
| `"switchRace"` | `Settles`, `PlaybackPaced` | `mjpeg2sd.cpp:1774` | a command during the switch of the size is lost |
| `"inPlayback"`, `"throttledPlay"` | `PlaybackPaced` | `appSpecific.cpp:372`, `mjpeg2sd.cpp:2581` | the rate of a playback is changed under it |
| `"nightInClip"` | `ClipKeepsGeometry` | `mjpeg2sd.cpp:4036` | a night session changes the size of an open recording |
| `"clipInNight"` | `ChoiceKept` | `appSpecific.cpp:331` | a deferred size does not end the session |
| `"nightInPlace"`, `"thereAndBack"` | `Settles` | `mjpeg2sd.cpp:4055`, `appSpecific.cpp:349` | timer or registers stay at the old rate |
| `NightSizes = {1}` | `Settles` | `mjpeg2sd.cpp:4054`, `appSpecific.cpp:516` | sessions at a size that is not the slowest, as FHDNARROW is: the rate kept for their end may lie above what the size allows, and is clamped without a retime |
| none | `ClockBelowCliff` | `mjpeg2sd.cpp:1540` | the divider is written before the multiplier: "every transient is slow" (`:1537`) is not so when the divider falls |
| `GovRaces = {"commandSplit"}` or `{"choiceInSession"}` | `QualityBounds` | `mjpeg2sd.cpp:567` | the governor steps between the two parts of a quality command; a choice in a session is not what the session's end restores |
| none | `BoostOnTop` | `mjpeg2sd.cpp:521` | after a rebase the boost waits for its next step; a rescue while boosted bakes the boost into the base |
| `SupRaces = {"pingInTeardown"}` | `UpdateNotBitten` | `mjpeg2sd.cpp:3328` | a ping callback between `stopWatchDog()` and `stopPing()` enrols its task again, and the task is deleted enrolled |
| none | `TeardownRestarts` | `mjpeg2sd.cpp:3366` | a transfer that never ends or fails early leaves the board without its tasks; the restart is not guaranteed |
| `Races = {"noSlot"}` (`BootRecord`) | `CrashKept`; without a card `StageNamed` | `utils.cpp:998` | `esp_register_shutdown_handler()` has no slot for the handler that marks the last stage: the next boot takes a restart that completed for one that hung, and copies its log as a crash's |
| `"cutBoot"` | `StageNamed` | `utilsLog.cpp:150` | a boot cut off before it has told of a restart: the next tells of it wrongly |
| `"bodLevel"`, `"pollInStop"` (on in `boot`) | `StopQuiet`, `TripKept` | `utilsLog.cpp:651`, `:791` | a probe of the status page re-enables the comparator within a restart; a probe that changes the level loses a trip. Neither cuts the flash off (`NeverCutInStop`) |
| none | `StaysUpConfirmed` | `mjpeg2sd.cpp:2481` | "any image that simply stays up gets confirmed": not without its camera or a card, nor when the partition's state cannot be read or the mark fails |
| none | `SaidLandedTrue` | `utilsLog.cpp:267` | the count of sag responses is cleared by a power on only, and a later brownout is said to have been preceded by one |
| `Races = {"requestAtEnd"}` (`CardStorage`) | `TransferEnds` | `ftp.cpp:366` | a request between `uploadInProgress = false` and `fsHandle = NULL` is marked in progress and never started |
| `"pathTaken"` | `SentBeforeDeleted` | `ftp.cpp:373` | a request replaces the path of the running transfer, which then deletes what it has not sent |
| `"shortWrite"` | `SentBeforeDeleted` | `ftp.cpp:249` | a write to the FTP server that sends less than it was given goes on; the server's 226 does not tell, and the file is deleted |
| none: `SentBeforeDeleted` is about FTP | | `ftp.cpp:97` | `hfsStoreFile()` looks at no result of its writes and at no answer: what an HTTPS server did not get is deleted all the same. `SendFile` has it; no property is promised |
| `"folderGoes"` | `ClosedClipLands`, `SentBeforeDeleted` | `ftp.cpp:363` | deletion after the upload of today's folder takes a recording that landed since, or the folder it is to land in |
| `Modes = {2}`, `DeleteAfter = {FALSE}` | `UploadedThenDeleted` | `utilsFS.cpp:252` | the oldest folder is deleted while the task that is to send it starts |
| `CfgRaces = {"clearThenSave"}` | `SettingsKept` | `prefs.cpp:193` | `savePrefs(false)` returns without `prefs.end()`: later saves of preferences fail |
| `CfgRaces = {"twoSavers"}` | `SettingsKept` | `utils.cpp:519`, `prefs.cpp:142` | the ping task and the web server write the file at the same time |
| `AudioRaces = {"pastCheck"}` | `SoundWhole` | `audio.cpp:204` | a recording begins between the audio task's test and its copy: a sample of no clip is in it |
| `AudioRaces = {"startInCopy"}` | `StreamWhole` | `audio.cpp:239` | a stream begins while the audio task copies: its first bytes are not the WAV header |
| `LogEvents = {"slowTask"}` | `SagLinesLand` | `utilsLog.cpp:277` | the log task is held up beyond the wait of `logSyncSD()` |
| `LogEvents = {"closeInWrite"}`, `{"deadSocket"}` | `WritesOpenFile`, `LogRests` | `utilsLog.cpp:384` | the web page closes the file in the log task's write; a line about a dead socket is sent to it |
| `Counting = TRUE` | `StartsOnSequence` | `mjpeg2sd.cpp:2352` | the streak survives detection being switched off and on |
| `Counting = TRUE` | `DuskIsSequential` | `motionDetect.cpp:61` | a light measurement only takes one from the counter, and the ping callback counts the same measurement again |

"None" marks a statement of a comment that the code does not keep in the very configuration of
the run; its property is a definition of the module and in no run. `Counting` allows nothing more, it keeps the
histories that the two properties count by, which the run can do without.

Of what the models do have, three things are worth saying here, because the properties allow for them. A setting comes back
without its spaces, which `loadVectItem()` strips (`prefs.cpp:134`). A Telegram token comes back as the stars it was saved
as: `isSensitiveKey()` hides it (`prefs.cpp:44`), NVS does not hold it, and only a password's stars are passed
over (`prefs.cpp:287`); `ConfigStore` does this, and `SettingsKept` says nothing of the token, which only a build with
Telegram has. And a
frame read between the two bytes of its length may be short by up to 255 lines (`senWrite16()`, `mjpeg2sd.cpp:974`).

Not in the models, and so not excluded by any constant: a data block of a recording that does not reach the
card, unnoticed (`mjpeg2sd.cpp:1912`; the file would be named with chunks missing); the creation of the file server's
task failing (`ftp.cpp:376`; `uploadInProgress` would stay set); `tunedFps` off or `maxTunedFPS` at 0, with which the
timing is left to the driver (`mjpeg2sd.cpp:1690`); a file of another type in a folder that is uploaded, which ends the upload
of the folder (`ftp.cpp:101`, `:238`) just as the failure that `SendFile` has.

Smaller things met on the way and left as they are: a brightness level may be called dark at boot before it
was ever measured; an alert line longer than a buffer loses the mark that makes it one; `reset_log` opens the
log file even when logging to the card is off; a failed gate keeps `haveMotion` as it is; `moveStartChecks =
0` divides by zero (`mjpeg2sd.cpp:762`); `hostName` and `AP_SSID` are written only when the file is created and are
lost to a save cut off after `cfgVer`; the save of a changed external address also keeps what the user was only
trying out; the upload of each recording passes over dashcam clips; `checkFreeStorage()` loops while the
oldest folder cannot be deleted; `wifiSupervise()` holds the capture task for five seconds each minute, longer
than `OTAprereq()` waits for it to park.

## 5. The theorems

All proofs are checked by `tlapm` from nothing; no step is assumed. They hold
for every value of the constants that satisfies the modules' named assumptions.

- **`AviClipProofs`.** `RecorderInvariant` proves `IInv`, from which follow `TypeCorrect`,
  `IndexFollows` and `ClosedPlayable`. Playability is not inductive: that a file can be
  closed depends on the index agreeing with the stream (`StreamInv`), on what has been
  written and flushed (`RecordingInv`), on how far recovery has walked (`WalkInv`) and on room for
  every chunk still to come (`RoomInv`: the slots left in the index cover the frames left,
  audio included, because recording stops with a margin). The assumption is
  `FrameCountFits`: caps below the counter's wrap. Chunk lengths are arbitrary, the clock may repeat, and
  an index, a header, a name or a step of the recovery may not reach the card (a data block always does, §4): what `RecordingInv` says
  of the index and the header being closed is then void, and `ClosedPlayable` has `IOErrors = FALSE` as a premise.
  `OverwritesNothing` needs storage that works and a clock that moves on: every name given is then older
  than the recording being written (`NamingInv`), so that its rename cannot fail.
  `RecoveredPlayable` is about the other way to a name. Its invariant (`RepairInv`) says where the walk
  is in the file, that what is repaired was walked to its last chunk, and that index and header are made
  from the same figures. The walk gets to the last chunk when the index has room for all of them
  (`WalkHasRoom`): a premise of the theorem, and a consequence (`RecoveryHasRoom`, with `SizeInv`) if `maxFrames`
  is lowered only between clips and the index fits a frame's chunks (`SoundFits`: every cap without
  sound, a small one with a chunk per frame). The run `clip_dense` shows that neither can be dropped.
  `StoreImplemented` is the refinement of `ClipStore`: adding a chunk, losing the unflushed end, keeping
  and discarding. Which chunks a loss of power cannot take is a count over the file; that chunks lie one
  after the other (`SafeInv`) makes them a prefix, and the count its length.
- **`PlaybackProofs`.** `CalmInvariant`, for files of any length and any number of recordings and playbacks.
  `Calm` is no other request, a browser and a card that keep up, files that open; with any part of it dropped TLC
  finds a recording disturbed, so none can be spared. The invariant follows the sender: flags, file and
  rate are the playback's just while it runs (`FollowsSender`); no playback opens or runs once the capture
  task is past `stopPlaying()` (`GateShut`), which has to say what each flag is in every overlap of the
  two; and a cluster always comes to whoever waits for one (`CardFeeds`), without which a sender
  might leave its loop early with the file open. `UndisturbedWhenCalm`, `IndexBufferWhenCalm`, `GivesBackWhenCalm` and
  `RefusedForCapture` follow. `TypeCorrect` needs none of it and holds in any weather.
- **`TimingProofs`.** `WindowCovered`, for any table of sizes the driver may have (`DriverAssumption`: a window on
  the subsampling grid, a frame that covers it, a line between 2048 and the night session's longest), and any choices
  at any moment, while no write is lost. A frame length goes out in two bytes, and `CoverInv` says what holds
  around them (`Covers`): before the high byte the register covers the window there is; with the high byte new and the low one
  old (`Halfway`) it is short by less than a byte's worth, and what it becomes covers the window again; the two bytes always
  follow each other (`Paired`). A frame length is computed from registers read back while writes of the window are
  still to be made; `TInv` says that each of those only shrinks the window (`Well`) and no two of them disagree (`Agree`), with any
  number of lost writes. `HalvedStaysSlow` is about the order of the clock's writes,
  and holds while none is lost: with nothing of the clock to write, on the way to route A, where the larger
  divider comes first, or to B, where it goes last (`Plain`, `ToA`, `ToB`).
  `RateKept` is `KeepsUp`: what a tuning leaves behind, while no write is lost. `TunedInv` follows the tuning through its
  program points: the window is the driver's, the one being cut or the final one (`WindowInv`), the base of the line
  and the line itself are the size's own unless a night session has them (`BaseInv`, `LineInv`), a session's exposure
  is within its limits (`NightInv`), the plan `Reaches` the rate or the size's most, and the writes still to come turn
  the registers into the plan (`PlannedInv`: `Becomes`, `BytesBecome` while the frame length goes out byte by byte).
  What is multiplied and divided are a few lemmas on numbers alone (`DayReaches`, `ScalerReaches`,
  `NightReaches`): what rounding the multiplier and the frame length costs is covered by the overdrive. Two things
  came out of the proof. A size tuned by its clock alone must have neither route B nor a night session, which is what
  `scalerClockSize()` says (`mjpeg2sd.cpp:1583`) and `DriverAssumption` now states. And the overdrive does not cover
  everything: a multiplier above 127 is made even, which costs up to 1.2 %, while below 12 frames a second the
  overdrive is 1.1 % or 1 %. For some table of sizes a sensor would then be slower by up to three thousandths, which is
  what `KeepsUp` allows (`EvenLoss`); with the driver's own table and the rates it offers nothing is lost.
  `ExposureFits` and `LineStaysLong` are `AecFits` and `HtsNoShorter` (§3): `LimitInv` holds whatever is lost - the line
  and the high byte of every one to come fit the register, the window never ends before it starts, the
  planned clock is one the PLL makes - and `ExposeInv` while nothing is lost. From the clock's range and the
  line's it follows that a period of the mains always has between 1 and 1023 lines (`MainsFits`), so that
  `applyAecLimits()` never leaves the limits of the frame before, and from the frame's eight lines that there is
  something to expose. `Ordered` says what is left of the two bytes of a line; for each order `BytesInOrder`
  bounds the line that stands between them.
- **`CaptureControlProofs`.** `CaptureInvariant` proves `TypeOK /\ FileAt /\ RoomAt /\
  ParkAt`: what is known of the file, of the room in it and of the park at each point of a
  pass; `TypeCorrect`, `OwnsFile` and `ParkedOpens` follow. `CaptureOwnsFile` speaks only of the
  state between two passes; `FileAt` extends it to every program point, relating the file to
  the decisions that are still to be taken. `OtaLanded` adds where
  each wait of `OTAprereq()` leaves the flags (`LandAt`).
  `DeletedBetweenPasses`, without a frame timer that is set up again (`Retimes`): once the timer is stopped and the
  pass under way has ended, the capture task waits where `OTAprereq()` may delete it (`StillAt`).
- **`LiveStreamProofs`.** `StreamInvariant` holds in every environment, races included, and gives
  `TypeCorrect`, `SentStable`, `OverlayKept` and `CancelOwn`: even a viewer that
  connects at the wrong moment never sees a torn frame. `SkippedWhenBusy` and
  `QueueImplemented` (the refinement of `FrameQueue`, for one buffer as for two) assume
  `Quiet`: no reset during an offer and no overlay. Their invariant counts the frames in the
  ring against the semaphore. `SlotHasClient`, without a request copy that fails: a slot taken has the client it was taken for.
- **`BootRecordProofs`.** `CrashIsKept`, while `esp_restart()` has a slot for the handler that marks the last
  stage (`"noSlot"`), rests on `TrailInv`: the
  reset reason is how the last life ended, flag and stage are clear once the board is up, and
  what an ordered end leaves for each step of the boot. Deep sleep may come from the network's coming up on, in the middle of
  `setup()` or of a restart; only deep sleep of a board that is up is an ordered end (`EndedInOrder`, `OrderedIsSeen`). `StopIsNeverCut` holds with every
  race: a comparator that a probe re-enables after the disarming has lost what makes it cut.
  `StageIsNamed` says where the trail of a restart not yet told of is at each step (`Untold`); a completed
  restart must not be followed by a boot that dies (`cutBoot`), nor lack the slot for the handler that marks it (`noSlot`). `HoldoffIsEarned` holds with every race: a holdoff still to be
  served goes back to a life that ended in a brownout (`Unserved`).
- **`KeepersProofs`.** `ClipGeometry`, without a night session that begins or ends in a clip, a recording that opens
  within a command, and a size the sensor does not take (`ClipApart`). That a frame fits its file is not inductive: the invariant says for the rest of a pass that a file is opened only with the
  throttle off and nothing deferred left to settle (`OpenIsSettled`, `OpensUnthrottled`). `ChoiceIsKept`
  relates the user's last choice to where it waits: in effect, deferred, or kept by a session that has
  borrowed the size (`AwaitedIsChosen`, `BorrowedIsChosen`). A command takes several steps, between which any pass of the capture
  task may come, so the invariant also says which half of a choice has been made (`HalfIsChosen`) and what the command knows
  by then (`HandlerKnows`). It leaves out the three orders of `KeptApart`: `"lateChoice"`, `"clipInNight"`, `"bothDeferred"`.
  `TimerIsPaced`, without `"throttleOff"`: the throttle is on only at a rate, but between a command and the
  throttle's next look (`ThrottleHasRate`). `PlaybackKeepsPace`, without the three orders that change the rate under a
  playback: one runs unthrottled and never across the switch of a size (`LoanInv`).
  `FrameHasItsTiming`: the throttle tunes for the size that is wanted, and until the pass makes that the sensor's there is
  a size to switch to or a retime to make (`TunedAhead`), and a session whose size the sensor has not got yet is still to be
  tuned for (`SessionAwaited`). It leaves out the orders of `TunedApart`: those of `ClipApart`, `"thereAndBack"`, `"throttledPlay"`,
  `"lateChoice"` and `"switchRace"`. But for the last, which the proof needs and no short behaviour does, TLC finds a frame
  of another size's timing with each of them (`"nightInClip"` needs `"nightInPlace"` with it).
  `SensorTypes` is the type invariant, with every race.
  `QualityStaysInBounds`, for every scene, card, window and period, when
  `GovRaces = {}`. `QualityBounds` says nothing within a quality command and nothing of what a
  session keeps for later; the invariant adds both (`InCommandBounds`, `SessionAbove`), and that
  without a boost the sensor is at the base also while a clip is recorded.
  `UpdateIsNotBitten`, without a ping callback in the teardown. The invariant follows
  who can still enrol: the capture task alone from the stop of the watchdog on, in the
  transfer only a ping session that is on record.
- **`AidesProofs`.** `PoolIsWhole`, for every event, counts buffers over the two callers, queue and hand;
  `SagLinesReachCard`, when the log task is not held up, follows a line from the queue to the card.
  `RingGivesTail`: a line of one cell or two that is stored from the end on, wrapped or not, moves everything before it on
  by as many (`StoreKeepsRing`; `Around` is the remainder once around, which the prover can do without).
  `MotionIsEarned`: each check of the streak has seen a movement of its own, and what the mask shows now and no
  check has seen yet is one more (`StreakInv`). A subject that moves outside the mask changes nothing the mask shows, because
  mirrored or not two zones of the view are two zones of the readout (`ZonesApart`).
  `SoundIsWhole`, for starts that do not fall between the audio task's test and its
  copy: what was written, the half being written and the half being filled are, in this order, what was
  heard; the half handed over is never the active one, and the last drain leaves nothing.
  `AlertsReachCard`, for every event: lines wait in the order they were made (`QueuedInOrder`), so that
  the log task has put the older ones on the card before. `StreamStartsWhole`, without a start in the audio
  task's copy: sender and audio task take turns by the mark (`TakesTurns`).
  `DeletesOnlySent` and `ClosedLands` are about the card, in every order of events the code provides for
  (`Races = {}`: no short write, no request that takes the path of a running transfer), for any number of days and recordings. What
  the file server task deletes is what it has sent to an FTP server - of an HTTPS server nothing is said - because
  no recording can come between: numbers are never given twice (`Numbered`), the folder of a recording that
  is being made is not taken away (`FolderKept`), and a transfer has sent or still has on its list whatever lies in its
  folder (`SendsAll`).
  The settings: `SettingsFound` and `PasswordsOffCard` (no password and no token) hold for any builds and any number of changes
  and boots, with two tasks saving at once too. Sorting is by counting the keys before a row (`Place`), so that it can be
  reasoned about: rows of different keys get different places (`PlaceFollows`), and a sorted vector is a permutation
  of what was read (`SortedRows`). `LookInv` says what each phase of `loadConfig()` can rely on: what is loaded has
  the rows written last, what is merged is in order and has every key (`Ordered`).
  `SettingsComeBack` says that a setting comes back less its spaces - a value may have any, `Squeezed` is what is left of it - and a
  preference whole, and nothing of the token. It assumes that one task saves at a time (`CfgRaces = {}`, both exceptions of §4). Where a
  kept value is changes: in the file while nobody saves (`FileGives`), in the vector while `loadConfig()` runs and
  may be writing the file (`VectGives`, `MergeGives`), in the rows being written as long as a save lasts (`SavesUp`). A
  password or a token is there as stars or as nothing (`Starred`), and NVS has the password (`PrefsKept`).

Model-checked only: everything temporal (`QuietEnds`, `SagLands`, `FramesFlow`,
`StopObeyed`, `Settles`, `FramesReturn`, `Reconnects`, `TransferEnds`, `MotionEnds`,
`TempIsResolved`, `RecordingStarts`), since liveness
under fairness is out of the prover's reach; every safety property a run checks is stated by a theorem. Of the safety
properties in no run (§3) `ScalerLegal` of `SensorTiming` (it rests on the heights of the driver's table size by size, of
which `DriverAssumption` says nothing), `EaseHolds` (`SdGovernor`, a fold over
the window) and `ClipFits` (`CardStorage`, a sum over files) are only model-checked, the others are proved; the liveness ones
(`DashcamRolls`, `SenderLeaves`, `WalksBack`, `StuckIsReset`, `LinkIsWatched`, `BusySeen`) stay with TLC.

## 6. What is abstracted and what is missing

Contents of frames, sounds and names; sizes of chunks other than those that fill
blocks or not; wording, statistics, telemetry and subtitle files; time, except that a wait ends or
does not, and that rounds and frames count for the periods of supervision and governor. A
failure to allocate memory is a loss of power for `AviClip` (the code restarts), and a block of data that is written reaches the
card or goes with the power. After a
loss of power only the chunks within the flushed size survive. `LiveStream` follows one
sustain task. `CaptureControl` does not model the
instant between two bursts of frames in which `OTAprereq()` may look at a task about to go on.
In `SensorTiming` the floating point of the code is integer division, and a write is lost at most
`MaxLost` times. `Supervision` leaves out NTP, alarms and the failure counters of the remote
servers, and deep sleep, which `BootRecord` has. `MotionGate` reads a zone as with or without the subject, and
leaves out how checks are paced (`doMonitor`) and drawn. `ConfigStore` has one setting of each kind,
and a value is with or without spaces.

Not modelled, with the reasons in `PROJECT.json`: options that are off by default and do protocol I/O
(e-mail, Telegram, MQTT, WebDAV, peripherals), pages, certificates, the JSON parser, stills and thumbnails - text and
file formats without state of the camera - the serving of files by the web server, remote TLS
connections, autofocus and white balance, the voltage filter, I2S.

## 7. What is left

1. `FileServing`: web server and download task over `inFileName` and `chunk` (`webServer.cpp:25`).
2. Proofs: `ScalerLegal` of `SensorTiming`.
3. An abstract specification of the settings - what was saved is found - for `ConfigStore` to
   implement, losses of power included.
