------------------------------ MODULE Playback ------------------------------
(***************************************************************************)
(* Playing a recording back while the camera may start another one         *)
(* (mjpeg2sd.cpp, streamServer.cpp).  Four tasks meet in a handful of      *)
(* globals: the capture task, which ends a playback before it records; the *)
(* sender of showPlayback(), which pulls clusters through two semaphores;  *)
(* the playback task, which reads them from the card; and the web server,  *)
(* whose requests write the same flags.                                    *)
(*                                                                         *)
(* A cluster of the file holds one video chunk, the last one also the end  *)
(* of the chunks.  What a chunk shows and how long steps take is           *)
(* abstracted; the constants below say which delays and requests happen.   *)
(***************************************************************************)
EXTENDS Naturals, FiniteSets

CONSTANTS
    Clusters,       \* clusters of the file that is played
    ClipFrames,     \* frames a recording is closed after
    FRAME_CNT_MOD,  \* frameCnt is a uint16_t
    Requests,       \* which of "stop", "select", "head", "delete" arrive
    SlowBrowser,    \* TRUE: a send may take longer than MAX_FRAME_WAIT
    SendErrors,     \* TRUE: the browser may close the connection
    OpenFails,      \* TRUE: openSDfile() may not find the file
    OpenRaces,      \* TRUE: a recording may start while a playback opens
    SlowCard,       \* TRUE: the read of a cluster may outlast a recording, or
                    \* the time until the next playback is requested
    LateReader,     \* TRUE: playbackTask, which has the highest priority of these
                    \* tasks, may still be kept from starting a read
    MaxRecordings, MaxPlays, MaxRequests   \* bounds on the exploration

ASSUME PlaybackAssumption ==
    /\ Clusters \in Nat \ {0} /\ ClipFrames \in Nat \ {0}
    /\ FRAME_CNT_MOD \in Nat /\ FRAME_CNT_MOD > ClipFrames
    /\ Requests \subseteq {"stop", "select", "head", "delete"}
    /\ {SlowBrowser, SendErrors, OpenFails, OpenRaces, SlowCard, LateReader} \subseteq BOOLEAN
    /\ MaxRecordings \in Nat /\ MaxPlays \in Nat /\ MaxRequests \in Nat

VARIABLES
    stopPlayback, \* playback is not allowed, or is to end
    isPlaying,    \* a file is open for playback and paces the frame timer
    doPlayback,   \* a file is selected, the sender's loop runs
    fd,           \* playbackFd is open
    fps,          \* whose rate FPS is: the user's, or the played file's
    frameCnt,     \* frames of the recording, or of the playback
    sdReadBuf,    \* what was put last into the shared card buffer
    readSem, playSem,       \* readSemaphore, playbackSemaphore (binary)
    notified,     \* playbackTask has a notification
    reading,      \* the tasks that are inside read() on the card
    readAt,       \* clusters read from the open file
    readLen,      \* is there a cluster in sdReadBuf, and is it the last one
    buf,          \* what the sender has left in iSDbuffer
    stopping,     \* how far each task is inside stopPlaying()
    cap,          \* where the capture task is
    snd,          \* where the sender is
    saved,        \* frames really saved in the open recording (history)
    recs, plays, reqs       \* bounds

flags    == <<stopPlayback, isPlaying, doPlayback>>
reader   == <<notified, reading, readAt, readLen>>
sems     == <<readSem, playSem>>
bounds   == <<recs, plays, reqs>>
vars     == <<flags, fd, fps, frameCnt, sdReadBuf, sems, reader, buf, stopping,
              cap, snd, saved, bounds>>

Tasks == {"capture", "sender", "web"}
Count(n) == (n + 1) % FRAME_CNT_MOD

Init ==
    /\ stopPlayback = FALSE /\ isPlaying = FALSE /\ doPlayback = FALSE
    /\ fd = FALSE /\ fps = "user" /\ frameCnt = 0 /\ sdReadBuf = "none"
    /\ readSem = FALSE /\ playSem = FALSE
    /\ notified = FALSE /\ reading = {} /\ readAt = 0 /\ readLen = "none"
    /\ buf = "empty"
    /\ stopping = [t \in Tasks |-> "no"]
    /\ cap = "frame" /\ snd = "idle"
    /\ saved = 0
    /\ recs = 0 /\ plays = 0 /\ reqs = 0
----------------------------------------------------------------------------
(* stopPlaying(), which any of the tasks may be inside of: it asks the     *)
(* sender to finish, waits for doPlayback to be cleared, and after         *)
(* MAX_FRAME_WAIT does itself what the sender did not.                     *)
StopPlaying(t) ==
    IF isPlaying
    THEN stopPlayback' = TRUE /\ stopping' = [stopping EXCEPT ![t] = "wait"]
    ELSE UNCHANGED stopPlayback /\ stopping' = [stopping EXCEPT ![t] = "done"]

Stopped(t) == stopping[t] = "done"

StopEnds(t) ==
    /\ \/ stopping[t] = "wait" /\ ~doPlayback
       \/ stopping[t] = "forced"          \* its 200 ms are over
    /\ stopping' = [stopping EXCEPT ![t] = "done"]
    /\ stopPlayback' = FALSE /\ isPlaying' = FALSE /\ fd' = FALSE
    /\ UNCHANGED <<doPlayback, fps, frameCnt, sdReadBuf, sems, reader, buf, cap, snd,
                   saved, bounds>>

\* The wait is over while the sender is still busy, unless it does not come back:
\* it waits here for itself when a send has failed.
SenderStuck == \/ snd \in {"idle", "failed"}
               \/ snd = "load" /\ ~readSem /\ ~notified /\ reading = {}

\* Mutant: it waits for as long as it takes.
StopForcesNever(t) == stopping[t] = "wait" /\ t \notin Tasks /\ UNCHANGED vars

StopForces(t) ==
    /\ stopping[t] = "wait" /\ doPlayback
    /\ SlowBrowser \/ t = "sender" \/ SenderStuck
    /\ stopping' = [stopping EXCEPT ![t] = "forced"]
    /\ doPlayback' = FALSE /\ fps' = "user"
    /\ playSem' = TRUE /\ readSem' = TRUE
    /\ UNCHANGED <<stopPlayback, isPlaying, fd, frameCnt, sdReadBuf, reader, buf,
                   cap, snd, saved, bounds>>
----------------------------------------------------------------------------
(* The capture task.  What decides that a recording starts and ends is not *)
(* modelled here: either may happen at any frame.                          *)
Opening == {"select", "open", "reopen", "prime", "first"}

\* Mutant: a playback that runs is not ended.
StartCaptureAnyway ==
    /\ cap = "frame" /\ recs < MaxRecordings
    /\ OpenRaces \/ snd \notin Opening
    /\ recs' = recs + 1
    /\ stopping' = [stopping EXCEPT !["capture"] = "done"]
    /\ cap' = "stop"
    /\ UNCHANGED <<flags, fd, fps, frameCnt, sdReadBuf, sems, reader, buf, snd, saved, plays,
                   reqs>>

StartCapture ==
    /\ cap = "frame" /\ recs < MaxRecordings
    /\ OpenRaces \/ snd \notin Opening
    /\ recs' = recs + 1
    /\ StopPlaying("capture")
    /\ cap' = "stop"
    /\ UNCHANGED <<isPlaying, doPlayback, fd, fps, frameCnt, sdReadBuf, sems, reader,
                   buf, snd, saved, plays, reqs>>

\* Mutant: the gate is not closed behind the playback that was stopped.
BlockPlaybackNot ==
    /\ cap = "stop" /\ Stopped("capture")
    /\ stopping' = [stopping EXCEPT !["capture"] = "no"]
    /\ cap' = "open"
    /\ UNCHANGED <<flags, fd, fps, frameCnt, sdReadBuf, sems, reader, buf, snd, saved, bounds>>

BlockPlayback ==
    /\ cap = "stop" /\ Stopped("capture")
    /\ stopping' = [stopping EXCEPT !["capture"] = "no"]
    /\ stopPlayback' = TRUE
    /\ cap' = "open"
    /\ UNCHANGED <<isPlaying, doPlayback, fd, fps, frameCnt, sdReadBuf, sems, reader,
                   buf, snd, saved, bounds>>

OpenAvi ==
    /\ cap = "open"
    /\ cap' = "rec"
    /\ frameCnt' = 0 /\ saved' = 0
    /\ UNCHANGED <<flags, fd, fps, sdReadBuf, sems, reader, buf, stopping, snd, bounds>>

SaveFrame ==
    /\ cap = "rec" /\ frameCnt < ClipFrames
    /\ frameCnt' = Count(frameCnt) /\ saved' = Count(saved)
    /\ UNCHANGED <<flags, fd, fps, sdReadBuf, sems, reader, buf, stopping, cap, snd, bounds>>

EndCapture ==
    /\ cap = "rec"
    /\ SlowCard \/ reading = {}
    /\ cap' = "fillIndex"
    /\ UNCHANGED <<flags, fd, fps, frameCnt, sdReadBuf, sems, reader, buf, stopping, snd,
                   saved, bounds>>

\* writeAviIndex() copies the index into the card buffer, from which it is
\* written to the file.
FillIndex ==
    /\ cap = "fillIndex"
    /\ cap' = "writeIndex" /\ sdReadBuf' = "index"
    /\ UNCHANGED <<flags, fd, fps, frameCnt, sems, reader, buf, stopping, snd, saved, bounds>>

WriteIndex ==
    /\ cap = "writeIndex"
    /\ cap' = "closed"
    /\ UNCHANGED <<flags, fd, fps, frameCnt, sdReadBuf, sems, reader, buf, stopping, snd,
                   saved, bounds>>

AllowPlayback ==
    /\ cap = "closed"
    /\ cap' = "frame" /\ stopPlayback' = FALSE
    /\ UNCHANGED <<isPlaying, doPlayback, fd, fps, frameCnt, sdReadBuf, sems, reader, buf,
                   stopping, snd, saved, bounds>>
----------------------------------------------------------------------------
(* readSD(): a cluster for the sender, read by playbackTask when notified  *)
(* and, once, by the sender itself to prime it.                            *)
ReadSD(t) ==
    IF stopPlayback \/ ~fd
    THEN readLen' = "none" /\ readSem' = TRUE /\ UNCHANGED reading
    ELSE reading' = reading \cup {t} /\ UNCHANGED <<readLen, readSem>>

ReadLands(t) ==
    /\ t \in reading
    /\ reading' = reading \ {t}
    /\ sdReadBuf' = "cluster"
    /\ IF fd /\ readAt < Clusters
       THEN /\ readAt' = readAt + 1
            /\ readLen' = IF readAt + 1 = Clusters THEN "last" ELSE "more"
       ELSE readLen' = "none" /\ UNCHANGED readAt
    /\ readSem' = TRUE
    /\ UNCHANGED <<flags, fd, fps, frameCnt, playSem, notified, buf, stopping, cap, snd,
                   saved, bounds>>

ReadNotified ==
    /\ notified /\ "reader" \notin reading
    /\ notified' = FALSE
    /\ ReadSD("reader")
    /\ UNCHANGED <<flags, fd, fps, frameCnt, sdReadBuf, playSem, readAt, buf, stopping, cap,
                   snd, saved, bounds>>

\* frameISR() paces the sender, at whichever rate the frame timer has.
FrameISR ==
    /\ isPlaying /\ ~playSem
    /\ playSem' = TRUE
    /\ UNCHANGED <<flags, fd, fps, frameCnt, sdReadBuf, readSem, reader, buf, stopping, cap,
                   snd, saved, bounds>>
----------------------------------------------------------------------------
(* showPlayback() with openSDfile() and getNextFrame(), in the sustain     *)
(* task of slot 0.                                                         *)
Request ==
    /\ snd = "idle" /\ plays < MaxPlays
    /\ SlowCard \/ reading = {}
    /\ plays' = plays + 1
    /\ StopPlaying("sender")
    /\ snd' = "select"
    /\ UNCHANGED <<isPlaying, doPlayback, fd, fps, frameCnt, sdReadBuf, sems, reader, buf,
                   cap, saved, recs, reqs>>

Select ==
    /\ snd = "select" /\ Stopped("sender")
    /\ OpenRaces \/ cap # "stop"
    /\ stopping' = [stopping EXCEPT !["sender"] = "no"]
    /\ doPlayback' = ~stopPlayback
    /\ snd' = IF stopPlayback THEN "idle" ELSE "open"
    /\ UNCHANGED <<stopPlayback, isPlaying, fd, fps, frameCnt, sdReadBuf, sems, reader, buf,
                   cap, saved, bounds>>

\* openSDfile() warns and returns when a recording got in first; the first
\* call of getNextFrame() follows in any case.
OpenSDfile ==
    /\ snd = "open"
    /\ IF stopPlayback
       THEN snd' = "first" /\ UNCHANGED <<stopPlayback, stopping>>
       ELSE snd' = "reopen" /\ StopPlaying("sender")
    /\ UNCHANGED <<isPlaying, doPlayback, fd, fps, frameCnt, sdReadBuf, sems, reader, buf,
                   cap, saved, bounds>>

OpenFile(fails) ==
    /\ snd = "reopen" /\ Stopped("sender")
    /\ stopping' = [stopping EXCEPT !["sender"] = "no"]
    /\ IF fails
       THEN snd' = "first" /\ fd' = FALSE /\ UNCHANGED <<isPlaying, doPlayback, fps, readAt>>
       ELSE /\ snd' = "prime" /\ fd' = TRUE /\ readAt' = 0
            /\ fps' = "file" /\ isPlaying' = TRUE /\ doPlayback' = TRUE
    /\ UNCHANGED <<stopPlayback, frameCnt, sdReadBuf, sems, notified, reading, readLen, buf,
                   cap, saved, bounds>>

Prime ==
    /\ snd = "prime"
    /\ ReadSD("sender")
    /\ snd' = "first"
    /\ UNCHANGED <<flags, fd, fps, frameCnt, sdReadBuf, playSem, notified, readAt, buf,
                   stopping, cap, saved, bounds>>

FirstFrame ==
    /\ snd = "first" /\ "sender" \notin reading
    /\ frameCnt' = 0 /\ buf' = "empty"
    /\ snd' = "next"
    /\ UNCHANGED <<flags, fd, fps, sdReadBuf, sems, reader, stopping, cap, saved, bounds>>

\* getNextFrame(): it either goes on or closes the file and gives the frame
\* timer back.
NextFrame ==
    /\ snd = "next" /\ ~stopPlayback
    /\ snd' = IF buf = "empty" THEN "load" ELSE "chunk"
    /\ UNCHANGED <<flags, fd, fps, frameCnt, sdReadBuf, sems, reader, buf, stopping, cap,
                   saved, bounds>>

\* Mutant: the rate is not given back.
FinishKeepingRate ==
    /\ snd = "next" /\ stopPlayback
    /\ snd' = "ended" /\ fd' = FALSE
    /\ stopPlayback' = FALSE /\ isPlaying' = FALSE
    /\ UNCHANGED <<doPlayback, fps, frameCnt, sdReadBuf, sems, reader, buf, stopping, cap,
                   saved, bounds>>

Finish ==
    /\ snd = "next" /\ stopPlayback
    /\ snd' = "ended" /\ fd' = FALSE
    /\ fps' = "user" /\ stopPlayback' = FALSE /\ isPlaying' = FALSE
    /\ UNCHANGED <<doPlayback, frameCnt, sdReadBuf, sems, reader, buf, stopping, cap, saved,
                   bounds>>

\* The sender waits for the card, takes the cluster and asks for the next.
\* Without a new one it finds whatever its buffer held before.
Load ==
    /\ snd = "load" /\ readSem
    /\ readSem' = FALSE /\ notified' = TRUE
    /\ buf' \in CASE readLen = "more" -> {"frame"}
                  [] readLen = "last" -> {"lastFrame"}
                  [] readLen = "none" -> {"frame", "end", "nothing"}
    /\ snd' = "chunk"
    /\ UNCHANGED <<flags, fd, fps, frameCnt, sdReadBuf, playSem, reading, readAt, readLen,
                   stopping, cap, saved, bounds>>

\* A video chunk waits for the frame timer; past the last one the playback is
\* complete; a part of a chunk that is not there ends the response.
Chunk ==
    /\ snd = "chunk"
    /\ \/ /\ buf \in {"frame", "lastFrame"} /\ playSem
          /\ playSem' = FALSE
          /\ frameCnt' = Count(frameCnt)
          /\ buf' = IF buf = "frame" THEN "empty" ELSE "end"
          /\ snd' = "send"
          /\ UNCHANGED stopPlayback
       \/ /\ buf = "end"
          /\ stopPlayback' = TRUE
          /\ snd' = "send"
          /\ UNCHANGED <<playSem, frameCnt, buf>>
       \/ /\ buf = "nothing"
          /\ snd' = "ended"
          /\ UNCHANGED <<stopPlayback, playSem, frameCnt, buf>>
    /\ UNCHANGED <<isPlaying, doPlayback, fd, fps, sdReadBuf, readSem, reader, stopping, cap,
                   saved, bounds>>

\* The loop's test comes before the send, so doPlayback may be cleared during it.
Send ==
    /\ snd = "send"
    /\ snd' = IF doPlayback THEN "sending" ELSE "idle"
    /\ UNCHANGED <<flags, fd, fps, frameCnt, sdReadBuf, sems, reader, buf, stopping, cap,
                   saved, bounds>>

Sent ==
    /\ snd = "sending"
    /\ snd' = "next"
    /\ UNCHANGED <<flags, fd, fps, frameCnt, sdReadBuf, sems, reader, buf, stopping, cap,
                   saved, bounds>>

SendFails ==
    /\ snd = "sending" /\ SendErrors
    /\ StopPlaying("sender")
    /\ snd' = "failed"
    /\ UNCHANGED <<isPlaying, doPlayback, fd, fps, frameCnt, sdReadBuf, sems, reader, buf,
                   cap, saved, bounds>>

\* Back at the loop's test; while doPlayback holds it tries to stop again.
SendFailed ==
    /\ snd = "failed" /\ Stopped("sender")
    /\ IF doPlayback
       THEN StopPlaying("sender") /\ UNCHANGED snd
       ELSE /\ stopping' = [stopping EXCEPT !["sender"] = "no"]
            /\ snd' = "idle" /\ UNCHANGED stopPlayback
    /\ UNCHANGED <<isPlaying, doPlayback, fd, fps, frameCnt, sdReadBuf, sems, reader, buf,
                   cap, saved, bounds>>

Ended ==
    /\ snd = "ended"
    /\ snd' = "idle" /\ doPlayback' = FALSE
    /\ UNCHANGED <<stopPlayback, isPlaying, fd, fps, frameCnt, sdReadBuf, sems, reader, buf,
                   stopping, cap, saved, bounds>>
----------------------------------------------------------------------------
(* What the web server's worker does to the flags: the stopPlaying command,*)
(* a file picked in the browser (an AVI or not), a live stream that wants  *)
(* the slot, and the deletion of a file.                                   *)
WebStop ==
    /\ StopPlaying("web")
    /\ UNCHANGED <<isPlaying, doPlayback>>

WebSelect ==
    /\ doPlayback' \in BOOLEAN
    /\ UNCHANGED <<stopPlayback, isPlaying, stopping>>

WebHead ==
    /\ snd # "idle"
    /\ doPlayback' = FALSE
    /\ UNCHANGED <<stopPlayback, isPlaying, stopping>>

WebDelete ==
    /\ stopPlayback' = TRUE
    /\ UNCHANGED <<isPlaying, doPlayback, stopping>>

WebRequest ==
    /\ stopping["web"] = "no"
    /\ reqs < MaxRequests
    /\ reqs' = reqs + 1
    /\ \/ "stop"   \in Requests /\ WebStop
       \/ "select" \in Requests /\ WebSelect
       \/ "head"   \in Requests /\ WebHead
       \/ "delete" \in Requests /\ WebDelete
    /\ UNCHANGED <<fd, fps, frameCnt, sdReadBuf, sems, reader, buf, cap, snd, saved, recs,
                   plays>>

WebStopped ==
    /\ Stopped("web")
    /\ stopping' = [stopping EXCEPT !["web"] = "no"]
    /\ UNCHANGED <<flags, fd, fps, frameCnt, sdReadBuf, sems, reader, buf, cap, snd, saved,
                   bounds>>
----------------------------------------------------------------------------
Capture == \/ BlockPlayback \/ OpenAvi \/ SaveFrame \/ EndCapture \/ FillIndex
           \/ WriteIndex \/ AllowPlayback

Sender == \/ Select \/ OpenSDfile \/ Prime \/ FirstFrame \/ NextFrame \/ Finish
          \/ Load \/ Chunk \/ Send \/ SendFailed \/ Ended
          \/ \E fails \in (IF OpenFails THEN BOOLEAN ELSE {FALSE}) : OpenFile(fails)

Reader == ReadNotified \/ \E t \in {"reader", "sender"} : ReadLands(t)

Stop == \E t \in Tasks : StopEnds(t) \/ StopForces(t)

OtherTasks == \/ StartCapture \/ Capture
              \/ Request \/ Sender \/ Sent \/ SendFails
              \/ FrameISR \/ Stop \/ WebRequest \/ WebStopped

Next == Reader \/ ((LateReader \/ ~notified) /\ OtherTasks)

\* Tasks that can run do; a read from the card ends, a send succeeds or fails,
\* and a recording comes to its end.  Nobody has to ask for anything.
Fairness ==
    /\ WF_vars(BlockPlayback \/ OpenAvi) /\ WF_vars(EndCapture)
    /\ WF_vars(FillIndex \/ WriteIndex \/ AllowPlayback)
    /\ WF_vars(Sender) /\ WF_vars(Sent \/ SendFails)
    /\ WF_vars(Reader) /\ WF_vars(FrameISR)
    /\ \A t \in Tasks : WF_vars(StopEnds(t) \/ StopForces(t))
    /\ WF_vars(WebStopped)

Spec == Init /\ [][Next]_vars /\ Fairness
----------------------------------------------------------------------------
TypeOK ==
    /\ {stopPlayback, isPlaying, doPlayback, fd, readSem, playSem, notified} \subseteq BOOLEAN
    /\ fps \in {"user", "file"}
    /\ frameCnt \in 0..(FRAME_CNT_MOD - 1) /\ saved \in 0..(FRAME_CNT_MOD - 1)
    /\ sdReadBuf \in {"none", "cluster", "index"}
    /\ reading \subseteq {"reader", "sender"}
    /\ readAt \in 0..Clusters /\ readLen \in {"none", "more", "last"}
    /\ buf \in {"empty", "frame", "lastFrame", "end", "nothing"}
    /\ stopping \in [Tasks -> {"no", "wait", "forced", "done"}]
    /\ cap \in {"frame", "stop", "open", "rec", "fillIndex", "writeIndex", "closed"}
    /\ snd \in Opening \cup {"idle", "next", "load", "chunk", "send", "sending",
                             "failed", "ended"}

Recording == {"rec", "fillIndex", "writeIndex"}

\* A recording's frame count, from which its index and header are written, and
\* its frame rate are not touched by a playback, which uses the same globals.
RecordingUndisturbed ==
    cap \in Recording => frameCnt = saved /\ fps = "user"

\* The card buffer closeAvi() writes the index from still holds the index
\* ("idle DRAM buffer: playback and capture exclude each other").
IndexBufferIsIdle == cap = "writeIndex" => sdReadBuf = "index"

\* When no playback is being sent the frame timer has the user's rate again and
\* nothing holds the sensor back ("playbackFPS() sets it, setFPS(saveFPS)
\* restores it", "Skipped while playback is actually running").
PlaybackGivesBack == snd = "idle" => fps = "user" /\ ~isPlaying

\* showPlayback() refuses ("Playback refused - capture in progress") only when a
\* capture is in progress.
RefusedOnlyForCapture ==
    [][snd = "select" /\ snd' = "idle" => cap # "frame"]_vars

\* Every playback request is answered to its end, so that slot 0 is free again.
SenderLeaves == snd # "idle" ~> snd = "idle"

\* Whatever the browser does, a recording that is to start does start.
RecordingStarts == cap = "stop" ~> cap = "rec"
=============================================================================
