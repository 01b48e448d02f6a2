--------------------------- MODULE PlaybackProofs ---------------------------
(***************************************************************************)
(* Proofs about Playback: that in calm weather playback and capture        *)
(* exclude each other, whatever the length of the file and the number of   *)
(* recordings and playbacks.                                               *)
(***************************************************************************)
EXTENDS MCPlayback, TLAPS

\* Nothing comes between a playback and its end: no request but to play, a
\* browser and a card that keep up, files that open.  Each part is needed: with
\* any one of them dropped TLC finds a recording disturbed.
Calm ==
    /\ Requests = {} /\ ~SlowBrowser /\ ~SendErrors
    /\ ~OpenFails /\ ~OpenRaces /\ ~SlowCard /\ ~LateReader

\* Where the sender is while a file is open, and while it has nothing to do
\* with one.
Looping == {"next", "load", "chunk", "send", "sending"}
Running == {"prime", "first"} \cup Looping
Between == {"idle", "select", "ended"}

Typed ==
    /\ {stopPlayback, isPlaying, doPlayback, fd, readSem, notified} \subseteq BOOLEAN
    /\ stopping \in [Tasks -> {"no", "wait", "forced", "done"}]
    /\ readAt \in Nat /\ readLen \in {"none", "more", "last"}
    /\ snd \in Opening \cup Looping \cup {"idle", "ended"}

\* stopPlaying() never waits but for the capture task, and never gives up.
CallsEnd ==
    /\ stopping["web"] = "no"
    /\ stopping["sender"] = IF snd \in {"select", "reopen"} THEN "done" ELSE "no"
    /\ stopping["capture"] \in {"no", "wait", "done"}
    /\ cap = "stop" <=> stopping["capture"] # "no"

\* The flags, the file and the rate are the playback's just while it runs.
FollowsSender ==
    /\ isPlaying <=> snd \in Running
    /\ fd <=> snd \in Running
    /\ fps = IF snd \in Running THEN "file" ELSE "user"
    /\ snd \in {"open", "reopen", "ended"} \cup Running => doPlayback
    /\ doPlayback => snd \notin {"idle", "select"}

\* No playback opens or runs once the capture task has passed stopPlaying().
GateShut ==
    /\ snd \in Opening \ {"select"} => cap = "frame" /\ ~stopPlayback
    /\ (cap \notin {"frame", "stop"} \/ stopping["capture"] = "done") => snd \in Between
    /\ cap \notin {"frame", "stop"} => stopPlayback
    /\ cap = "frame" /\ snd \in Between => ~stopPlayback
    /\ stopping["capture"] = "wait" => (stopPlayback \/ snd \in Between)

\* A cluster is in the buffer, is being read, or is about to be: whoever waits
\* for the card is given one.
ClusterComes ==
    \/ /\ readSem /\ reading = {} /\ ~notified
       /\ readLen # "none" /\ (readLen = "more" => readAt < Clusters)
    \/ ~readSem /\ reading # {} /\ ~notified /\ readAt < Clusters
    \/ ~readSem /\ reading = {} /\ notified /\ readAt < Clusters /\ ~stopPlayback

\* The card is read only for the playback that runs, and a sender that has not
\* been told to stop never finds its buffer without a chunk: so it does not
\* leave the loop with the file open.
CardFeeds ==
    /\ reading \subseteq {"reader", "sender"}
    /\ "sender" \in reading => snd = "first" /\ reading = {"sender"}
    /\ notified => snd = "chunk" /\ reading = {}
    /\ snd \in Opening \ {"first"} => reading = {}
    /\ snd = "prime" => readAt = 0
    /\ snd = "first" => \/ reading = {"sender"} /\ readAt = 0 /\ ~notified
                        \/ reading = {} /\ ClusterComes
    /\ snd = "load" => ClusterComes
    /\ readAt <= Clusters
    /\ snd \in {"next", "send", "sending"} => buf \in {"empty", "end"}
    /\ snd = "chunk" => buf \in {"frame", "lastFrame", "end"}
    /\ (snd \in Looping /\ buf \in {"empty", "frame"}) => (stopPlayback \/ ClusterComes)

\* What a recording has in the variables it shares with a playback.
Held ==
    /\ cap \in Recording => frameCnt = saved
    /\ cap \in {"fillIndex", "writeIndex"} => reading = {}
    /\ cap = "writeIndex" => sdReadBuf = "index"

PInv == Typed /\ CallsEnd /\ FollowsSender /\ GateShut /\ CardFeeds /\ Held
----------------------------------------------------------------------------
\* At the start nothing plays and nothing records.
LEMMA PInit == Init => PInv
<1> SUFFICES ASSUME Init PROVE PInv
  OBVIOUS
<1> USE PlaybackAssumption DEF Init, Tasks, Opening, Running, Looping, Between, Recording
<1>1. Typed
  BY DEF Typed
<1>2. CallsEnd
  BY DEF CallsEnd
<1>3. FollowsSender
  BY DEF FollowsSender
<1>4. GateShut
  BY DEF GateShut
<1>5. CardFeeds /\ Held
  BY DEF CardFeeds, Held
<1> QED
  BY <1>1, <1>2, <1>3, <1>4, <1>5 DEF PInv

\* Every step of capture task, sender and reader keeps the invariant.
LEMMA PStep ==
    ASSUME Calm, PInv, [Next]_vars
    PROVE  PInv'
<1> USE PlaybackAssumption
    DEF PInv, Typed, CallsEnd, FollowsSender, GateShut, CardFeeds, Held, ClusterComes, Calm,
        Tasks, Opening, Running, Looping, Between, Recording, flags, sems, reader, bounds
<1>1. CASE UNCHANGED vars
  BY <1>1 DEF vars
<1>2. CASE \E t \in {"reader", "sender"} : ReadLands(t)
  BY <1>2 DEF ReadLands
<1>3. CASE ReadNotified
  BY <1>3 DEF ReadNotified, ReadSD
<1>4. ASSUME ~notified, OtherTasks PROVE PInv'
  <2>1. CASE StartCapture
    BY <2>1, <1>4 DEF StartCapture, StopPlaying
  <2>2. CASE BlockPlayback
    BY <2>2, <1>4 DEF BlockPlayback, Stopped
  <2>3. CASE OpenAvi
    BY <2>3, <1>4 DEF OpenAvi
  <2>4. CASE SaveFrame
    BY <2>4, <1>4 DEF SaveFrame
  <2>5. CASE EndCapture
    BY <2>5, <1>4 DEF EndCapture
  <2>6. CASE FillIndex
    BY <2>6, <1>4 DEF FillIndex
  <2>7. CASE WriteIndex
    BY <2>7, <1>4 DEF WriteIndex
  <2>8. CASE AllowPlayback
    BY <2>8, <1>4 DEF AllowPlayback
  <2>9. CASE Request
    BY <2>9, <1>4 DEF Request, StopPlaying
  <2>10. CASE Select
    BY <2>10, <1>4 DEF Select, Stopped
  <2>11. CASE OpenSDfile
    BY <2>11, <1>4 DEF OpenSDfile, StopPlaying
  <2>12. CASE Prime
    BY <2>12, <1>4 DEF Prime, ReadSD
  <2>13. CASE FirstFrame
    BY <2>13, <1>4 DEF FirstFrame
  <2>14. CASE NextFrame
    BY <2>14, <1>4 DEF NextFrame
  <2>15. CASE Finish
    BY <2>15, <1>4 DEF Finish
  <2>16. CASE Load
    BY <2>16, <1>4 DEF Load
  <2>17. CASE Chunk
    BY <2>17, <1>4 DEF Chunk
  <2>18. CASE Send
    BY <2>18, <1>4 DEF Send
  <2>19. CASE SendFailed
    BY <2>19, <1>4 DEF SendFailed, StopPlaying, Stopped
  <2>20. CASE Ended
    BY <2>20, <1>4 DEF Ended
  <2>21. CASE Sent
    BY <2>21, <1>4 DEF Sent
  <2>22. CASE SendFails
    BY <2>22, <1>4 DEF SendFails, StopPlaying
  <2>23. CASE FrameISR
    BY <2>23, <1>4 DEF FrameISR
  <2>24. CASE WebRequest
    BY <2>24, <1>4 DEF WebRequest, WebStop, WebSelect, WebHead, WebDelete, StopPlaying
  <2>25. CASE WebStopped
    BY <2>25, <1>4 DEF WebStopped, Stopped
  <2>26. CASE \E t \in Tasks : StopEnds(t)
    <3>1. PICK t \in Tasks : StopEnds(t)
      BY <2>26
    <3>2. t = "capture" /\ stopping[t] = "wait" /\ ~doPlayback
      BY <3>1 DEF StopEnds
    <3>3. snd \in {"idle", "select"} /\ cap = "stop"
      BY <3>2
    <3>4. /\ stopping' = [stopping EXCEPT !["capture"] = "done"]
          /\ stopPlayback' = FALSE /\ isPlaying' = FALSE /\ fd' = FALSE
          /\ UNCHANGED <<doPlayback, fps, frameCnt, sdReadBuf, readSem, notified, reading,
                           readAt, readLen, buf, cap, snd, saved>>
      BY <3>1, <3>2 DEF StopEnds
    <3>5. Typed'
      BY <3>2, <3>3, <3>4
    <3>6. CallsEnd'
      BY <3>2, <3>3, <3>4
    <3>7. FollowsSender'
      BY <3>2, <3>3, <3>4
    <3>8. GateShut'
      BY <3>2, <3>3, <3>4
    <3>9. CardFeeds'
      BY <3>2, <3>3, <3>4
    <3>10. Held'
      BY <3>2, <3>3, <3>4
    <3> QED
      BY <3>5, <3>6, <3>7, <3>8, <3>9, <3>10
  <2>27. CASE \E t \in Tasks : StopForces(t)
    BY <2>27, <1>4 DEF StopForces, SenderStuck
  <2>28. CASE \E fails \in (IF OpenFails THEN BOOLEAN ELSE {FALSE}) : OpenFile(fails)
    BY <2>28, <1>4 DEF OpenFile, Stopped
  <2> HIDE DEF PInv, Calm
  <2> QED
    BY <1>4, <2>1, <2>2, <2>3, <2>4, <2>5, <2>6, <2>7, <2>8, <2>9, <2>10, <2>11, <2>12,
       <2>13, <2>14, <2>15, <2>16, <2>17, <2>18, <2>19, <2>20, <2>21, <2>22, <2>23,
       <2>24, <2>25, <2>26, <2>27, <2>28
    DEF OtherTasks, Capture, Sender, Stop
<1> HIDE DEF PInv
<1> QED
  BY <1>1, <1>2, <1>3, <1>4 DEF Next, Reader

\* The invariant of a playback and the recordings that end it, in calm weather,
\* for files of any length and any number of recordings and playbacks.
THEOREM CalmInvariant ==
    ASSUME Calm
    PROVE  Spec => []PInv
<1>1. Init => PInv
  BY PInit
<1>2. PInv /\ [Next]_vars => PInv'
  BY PStep
<1> QED
  BY <1>1, <1>2, PTL DEF Spec

\* What the invariant says of a recording and of a playback that has ended.
LEMMA PKeeps == PInv => RecordingUndisturbed /\ IndexBufferIsIdle /\ PlaybackGivesBack
  BY DEF PInv, FollowsSender, GateShut, Held, RecordingUndisturbed, IndexBufferIsIdle,
         PlaybackGivesBack, Running, Looping, Between, Recording

\* Frame count and rate of a recording are its own, the buffer its index is
\* written from holds the index, and the user's rate is back once nothing plays.
THEOREM CalmExclusion ==
    ASSUME Calm
    PROVE  Spec => [](RecordingUndisturbed /\ IndexBufferIsIdle /\ PlaybackGivesBack)
  BY CalmInvariant, PKeeps, PTL

\* showPlayback() refuses only while a capture is in progress.
THEOREM RefusedForCapture ==
    ASSUME Calm
    PROVE  Spec => RefusedOnlyForCapture
<1>1. PInv /\ [Next]_vars => [snd = "select" /\ snd' = "idle" => cap # "frame"]_vars
  <2> SUFFICES ASSUME PInv, Next, snd = "select", snd' = "idle"
               PROVE  cap # "frame"
    BY DEF vars
  <2>1. Select
    BY DEF Next, Reader, OtherTasks, Capture, Sender, Stop, StartCapture, BlockPlayback, OpenAvi,
           SaveFrame, EndCapture, FillIndex, WriteIndex, AllowPlayback, Request, OpenSDfile,
           OpenFile, Prime, FirstFrame, NextFrame, Finish, Load, Chunk, Send, SendFailed, Ended,
           Sent, SendFails, FrameISR, StopEnds, StopForces, WebRequest, WebStopped, ReadNotified,
           ReadLands
  <2> QED
    BY <2>1 DEF Select, PInv, GateShut, Between
<1> QED
  BY <1>1, CalmInvariant, PTL DEF Spec, RefusedOnlyForCapture
----------------------------------------------------------------------------
(* The same of the run's specification, which is calm or stormy.           *)
CalmInv == weather = "calm" => PInv

\* The weather does not change, so that the invariant holds on while it is calm.
LEMMA WeatherInvariant ==
    ASSUME Calm
    PROVE  WeatherSpec => []CalmInv
<1>1. WeatherInit => CalmInv
  BY PInit DEF WeatherInit, CalmInv
<1>2. CalmInv /\ [WeatherNext]_<<vars, weather>> => CalmInv'
  <2> SUFFICES ASSUME CalmInv, [WeatherNext]_<<vars, weather>>, weather' = "calm"
               PROVE  PInv'
    BY DEF CalmInv
  <2>1. PInv /\ [Next]_vars
    BY DEF CalmInv, WeatherNext
  <2> QED
    BY <2>1, PStep
<1> QED
  BY <1>1, <1>2, PTL DEF WeatherSpec

\* In calm weather no playback touches the frame count and the rate of a
\* recording.
THEOREM UndisturbedWhenCalm ==
    ASSUME Calm
    PROVE  WeatherSpec => []CalmUndisturbed
<1>1. CalmInv => CalmUndisturbed
  BY PKeeps DEF CalmInv, CalmUndisturbed
<1> QED
  BY <1>1, WeatherInvariant, PTL

\* In calm weather closeAvi() writes the index, and nothing a playback has read.
THEOREM IndexBufferWhenCalm ==
    ASSUME Calm
    PROVE  WeatherSpec => []CalmIndexBuffer
<1>1. CalmInv => CalmIndexBuffer
  BY PKeeps DEF CalmInv, CalmIndexBuffer
<1> QED
  BY <1>1, WeatherInvariant, PTL

\* In calm weather a playback that has ended has given the frame rate back.
THEOREM GivesBackWhenCalm ==
    ASSUME Calm
    PROVE  WeatherSpec => []CalmGivesBack
<1>1. CalmInv => CalmGivesBack
  BY PKeeps DEF CalmInv, CalmGivesBack
<1> QED
  BY <1>1, WeatherInvariant, PTL

----------------------------------------------------------------------------
(* Types, in every weather: any tasks, requests, delays and failures.      *)

LEMMA CountTypes == ASSUME NEW n \in Nat PROVE Count(n) \in 0..(FRAME_CNT_MOD - 1)
  BY PlaybackAssumption DEF Count

LEMMA StopTypes ==
    ASSUME TypeOK, NEW t \in Tasks, StopPlaying(t)
    PROVE  /\ stopPlayback' \in BOOLEAN
           /\ stopping' \in [Tasks -> {"no", "wait", "forced", "done"}]
  BY DEF TypeOK, StopPlaying, flags

LEMMA TypeStep == TypeOK /\ [Next]_vars => TypeOK'
<1> SUFFICES ASSUME TypeOK, [Next]_vars PROVE TypeOK'
  OBVIOUS
<1> USE DEF TypeOK, flags, sems, reader, bounds, Opening
<1>1. CASE UNCHANGED vars
  BY <1>1 DEF vars
<1>2. CASE ReadNotified \/ \E t \in {"reader", "sender"} : ReadLands(t)
  <2>1. CASE ReadNotified
    <3>1. /\ {readSem', notified'} \subseteq BOOLEAN /\ readLen' \in {"none", "more", "last"}
          /\ reading' \subseteq {"reader", "sender"}
      BY <2>1 DEF ReadNotified, ReadSD
    <3> QED
      BY <2>1, <3>1 DEF ReadNotified
  <2>2. ASSUME NEW t \in {"reader", "sender"}, ReadLands(t)
        PROVE  TypeOK'
    <3>1. readAt' \in 0..Clusters /\ readLen' \in {"none", "more", "last"}
      BY <2>2, PlaybackAssumption DEF ReadLands
    <3> QED
      BY <2>2, <3>1 DEF ReadLands
  <2> QED
    BY <1>2, <2>1, <2>2
<1>3. CASE StartCapture \/ Request
  <2>1. PICK t \in Tasks : StopPlaying(t)
    BY <1>3 DEF StartCapture, Request, Tasks
  <2>2. stopPlayback' \in BOOLEAN /\ stopping' \in [Tasks -> {"no", "wait", "forced", "done"}]
    BY <2>1, StopTypes
  <2>3. CASE StartCapture
    BY <2>2, <2>3 DEF StartCapture
  <2>4. CASE Request
    BY <2>2, <2>4 DEF Request
  <2> QED
    BY <1>3, <2>3, <2>4
<1>4. CASE Capture
  <2>1. CASE BlockPlayback
    BY <2>1 DEF BlockPlayback, Tasks
  <2>2. CASE SaveFrame
    BY <2>2, CountTypes DEF SaveFrame
  <2>3. CASE OpenAvi
    BY <2>3, PlaybackAssumption DEF OpenAvi
  <2>4. CASE EndCapture \/ WriteIndex
    BY <2>4 DEF EndCapture, WriteIndex
  <2>5. CASE FillIndex
    BY <2>5 DEF FillIndex
  <2>6. CASE AllowPlayback
    BY <2>6 DEF AllowPlayback
  <2> QED
    BY <1>4, <2>1, <2>2, <2>3, <2>4, <2>5, <2>6 DEF Capture
<1>5. CASE Sender
  <2>1. CASE OpenSDfile \/ SendFailed
    <3>1. \/ UNCHANGED stopPlayback /\ stopping' \in {stopping, [stopping EXCEPT !["sender"] = "no"]}
          \/ StopPlaying("sender")
      BY <2>1 DEF OpenSDfile, SendFailed
    <3>2. stopPlayback' \in BOOLEAN /\ stopping' \in [Tasks -> {"no", "wait", "forced", "done"}]
      BY <3>1, StopTypes DEF Tasks
    <3>3. snd' \in {"first", "reopen", "failed", "idle"}
      BY <2>1 DEF OpenSDfile, SendFailed
    <3>4. UNCHANGED <<isPlaying, doPlayback, fd, fps, frameCnt, sdReadBuf, sems, reader, buf, cap, saved>>
      BY <2>1 DEF OpenSDfile, SendFailed
    <3> QED
      BY <3>2, <3>3, <3>4
  <2>2. CASE Select \/ \E fails \in (IF OpenFails THEN BOOLEAN ELSE {FALSE}) : OpenFile(fails)
    <3>1. stopping' \in [Tasks -> {"no", "wait", "forced", "done"}]
      BY <2>2 DEF Select, OpenFile
    <3>2. /\ {isPlaying', doPlayback', fd'} \subseteq BOOLEAN /\ fps' \in {"user", "file"}
          /\ readAt' \in 0..Clusters /\ snd' \in {"idle", "open", "first", "prime"}
      <4>1. CASE Select
        BY <4>1 DEF Select
      <4>2. ASSUME NEW fails, OpenFile(fails)
            PROVE  /\ {isPlaying', doPlayback', fd'} \subseteq BOOLEAN /\ fps' \in {"user", "file"}
                   /\ readAt' \in 0..Clusters /\ snd' \in {"idle", "open", "first", "prime"}
        <5>1. 0 \in 0..Clusters
          BY PlaybackAssumption
        <5>2. \/ snd' = "first" /\ fd' = FALSE /\ UNCHANGED <<isPlaying, doPlayback, fps, readAt>>
              \/ /\ snd' = "prime" /\ fd' = TRUE /\ readAt' = 0
                 /\ fps' = "file" /\ isPlaying' = TRUE /\ doPlayback' = TRUE
          BY <4>2 DEF OpenFile
        <5> QED
          BY <5>1, <5>2
      <4> QED
        BY <2>2, <4>1, <4>2
    <3>3. UNCHANGED <<stopPlayback, frameCnt, sdReadBuf, sems, notified, reading, readLen, buf, cap, saved>>
      BY <2>2 DEF Select, OpenFile
    <3> QED
      BY <3>1, <3>2, <3>3
  <2>3. CASE Prime
    <3>1. /\ readSem' \in BOOLEAN /\ readLen' \in {"none", "more", "last"}
          /\ reading' \subseteq {"reader", "sender"}
      BY <2>3 DEF Prime, ReadSD
    <3> QED
      BY <2>3, <3>1 DEF Prime
  <2>7. CASE FirstFrame
    BY <2>7, PlaybackAssumption DEF FirstFrame
  <2>4. CASE Load
    BY <2>4 DEF Load
  <2>5. CASE Chunk
    <3>1. frameCnt' \in 0..(FRAME_CNT_MOD - 1)
      BY <2>5, CountTypes DEF Chunk
    <3>2. /\ stopPlayback' \in BOOLEAN /\ playSem' \in BOOLEAN /\ snd' \in {"send", "ended"}
          /\ buf' \in {"empty", "frame", "lastFrame", "end", "nothing"}
      BY <2>5 DEF Chunk
    <3> QED
      BY <2>5, <3>1, <3>2 DEF Chunk
  <2>6. CASE NextFrame \/ Finish \/ Send \/ Ended
    BY <2>6 DEF NextFrame, Finish, Send, Ended
  <2> QED
    BY <1>5, <2>1, <2>2, <2>3, <2>4, <2>5, <2>6, <2>7 DEF Sender
<1>6. CASE Sent
  BY <1>6 DEF Sent
<1>7. CASE SendFails
  BY <1>7, StopTypes DEF SendFails, Tasks
<1>8. CASE FrameISR
  BY <1>8 DEF FrameISR
<1>9. CASE Stop
  <2>1. ASSUME NEW t \in Tasks, StopEnds(t)
        PROVE  TypeOK'
    <3>1. /\ {stopPlayback', isPlaying', fd'} \subseteq BOOLEAN
          /\ stopping' \in [Tasks -> {"no", "wait", "forced", "done"}]
      BY <2>1 DEF StopEnds
    <3> QED
      BY <2>1, <3>1 DEF StopEnds
  <2>2. ASSUME NEW t \in Tasks, StopForces(t)
        PROVE  TypeOK'
    BY <2>2 DEF StopForces
  <2> QED
    BY <1>9, <2>1, <2>2 DEF Stop
<1>10. CASE WebRequest
  <2>1. /\ stopPlayback' \in BOOLEAN /\ isPlaying' \in BOOLEAN /\ doPlayback' \in BOOLEAN
        /\ stopping' \in [Tasks -> {"no", "wait", "forced", "done"}]
    BY <1>10, StopTypes DEF WebRequest, WebStop, WebSelect, WebHead, WebDelete, Tasks
  <2> QED
    BY <1>10, <2>1 DEF WebRequest
<1>11. CASE WebStopped
  BY <1>11 DEF WebStopped
<1> QED
  BY <1>1, <1>2, <1>3, <1>4, <1>5, <1>6, <1>7, <1>8, <1>9, <1>10, <1>11 DEF Next, Reader, OtherTasks

\* The state keeps its types, calm or not.
THEOREM TypeCorrect == Spec => []TypeOK
<1>1. Init => TypeOK
  <2> SUFFICES ASSUME Init PROVE TypeOK
    OBVIOUS
  <2>1. 0 \in 0..(FRAME_CNT_MOD - 1) /\ 0 \in 0..Clusters
    BY PlaybackAssumption
  <2> QED
    BY <2>1 DEF Init, TypeOK, Opening
<1> QED
  BY <1>1, TypeStep, PTL DEF Spec
=============================================================================
