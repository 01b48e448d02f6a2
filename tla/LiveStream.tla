----------------------------- MODULE LiveStream -----------------------------
(***************************************************************************)
(* A slot for sustained requests and the frames sent through it            *)
(* (streamServer.cpp).  The web server's worker gives a request to the     *)
(* slot's task.  For a live stream that task drains a ring of one or two   *)
(* buffers which the capture task fills, with no lock between the two: the *)
(* length of a buffer hands it over, and a binary semaphore tells that     *)
(* there is one.  Slot 0 also serves downloads, and the motion overlay in  *)
(* place of the frames.  (Its third use, playback, is in Playback.)        *)
(***************************************************************************)
EXTENDS Naturals, Sequences

CONSTANTS
    Slots,        \* buffers that were allocated
    Window,       \* frames are numbered modulo Window
    Downloads,    \* TRUE: slot 0, which serves downloads too
    ShowMotion,   \* TRUE: slot 0, and the overlay is switched on and off
    SendFails,    \* TRUE: the browser may go away
    CopyFails,    \* TRUE: the request may not be copied for want of memory
    EarlyStops,   \* TRUE: a stop may come before the task has begun
    OfferRaces    \* TRUE: a stream may begin while a frame is being offered

ASSUME StreamAssumption ==
    /\ Slots \in {1, 2}
    /\ Window \in Nat \ 0..4   \* two in the ring, one offered, one sent
    /\ {Downloads, ShowMotion, SendFails, CopyFails, EarlyStops, OfferRaces} \subseteq BOOLEAN

VARIABLES
    strmLen, strmBuf,  \* is the buffer handed over, and what is in it
    strmWr, strmRd,
    frameSemaphore,
    offer,             \* where the capture task is in streamOfferFrame()
    slot,              \* the slot it fills
    seq,               \* number of the frame it has in hand
    inUse, isStreaming, cancelDownload,
    activity,
    pc,                \* where the slot's task is
    dbgMotion, motionJpegLen, motionSemaphore,
    stopAsked          \* the request in progress was told to stop (history)

ring    == <<strmLen, strmBuf, strmWr, strmRd>>
capture == <<offer, slot, seq>>
request == <<inUse, isStreaming, cancelDownload, activity, stopAsked>>
overlay == <<dbgMotion, motionJpegLen, motionSemaphore>>
vars    == <<ring, frameSemaphore, capture, request, pc, overlay>>

Ring == 0 .. Slots - 1
Torn == Window   \* the buffer is being written

Init ==
    /\ strmLen = [s \in Ring |-> FALSE] /\ strmBuf = [s \in Ring |-> Torn]
    /\ strmWr = 0 /\ strmRd = 0
    /\ frameSemaphore = FALSE
    /\ offer = "idle" /\ slot = 0 /\ seq = 0
    /\ inUse = FALSE /\ isStreaming = FALSE /\ cancelDownload = FALSE
    /\ activity = "stream" /\ stopAsked = FALSE
    /\ pc = "parked"
    /\ dbgMotion = FALSE /\ motionJpegLen = FALSE /\ motionSemaphore = FALSE

Draining == pc \in {"woken", "drained"} /\ activity = "stream"
----------------------------------------------------------------------------
(* The capture task offers every frame; one it cannot place is skipped.    *)
\* Mutant: the buffer is taken without a look.
OfferBlindly ==
    /\ offer = "idle" /\ (OfferRaces \/ ~Draining)
    /\ slot' = strmWr
    /\ strmBuf' = [strmBuf EXCEPT ![strmWr] = Torn]
    /\ offer' = "copy"
    /\ UNCHANGED <<strmLen, strmWr, strmRd, frameSemaphore, seq, request, pc, overlay>>

Offer ==
    /\ offer = "idle" /\ (OfferRaces \/ ~Draining)
    /\ ~strmLen[strmWr]
    /\ slot' = strmWr
    /\ strmBuf' = [strmBuf EXCEPT ![strmWr] = Torn]
    /\ offer' = "copy"
    /\ UNCHANGED <<strmLen, strmWr, strmRd, frameSemaphore, seq, request, pc, overlay>>

HandOver ==
    /\ offer = "copy"
    /\ strmBuf' = [strmBuf EXCEPT ![slot] = seq]
    /\ strmLen' = [strmLen EXCEPT ![slot] = TRUE]
    /\ seq' = (seq + 1) % Window
    /\ offer' = "handed"
    /\ UNCHANGED <<strmWr, strmRd, frameSemaphore, slot, request, pc, overlay>>

\* Mutant: the semaphore is given only to a sender that waits.
SignalOnce ==
    /\ offer = "handed"
    /\ strmWr' = (slot + 1) % Slots
    /\ frameSemaphore' = (frameSemaphore \/ pc = "wait")
    /\ offer' = "idle"
    /\ UNCHANGED <<strmLen, strmBuf, strmRd, slot, seq, request, pc, overlay>>

Signal ==
    /\ offer = "handed"
    /\ strmWr' = (slot + 1) % Slots
    /\ frameSemaphore' = TRUE
    /\ offer' = "idle"
    /\ UNCHANGED <<strmLen, strmBuf, strmRd, slot, seq, request, pc, overlay>>

\* A motion check makes a new overlay once the one before has been sent.
BuildOverlay ==
    /\ offer = "idle" /\ dbgMotion /\ ~motionJpegLen
    /\ motionJpegLen' = TRUE /\ motionSemaphore' = TRUE
    /\ UNCHANGED <<ring, frameSemaphore, capture, request, pc, dbgMotion>>
----------------------------------------------------------------------------
(* The web server's worker.                                                *)
Claim ==
    /\ pc = "parked" /\ ~inUse
    /\ inUse' = TRUE
    /\ \/ pc' = "claimed"
       \/ CopyFails /\ UNCHANGED pc
    /\ UNCHANGED <<ring, frameSemaphore, capture, isStreaming, cancelDownload, activity,
                   stopAsked, overlay>>

Start ==
    /\ pc = "claimed" /\ (OfferRaces \/ offer = "idle")
    /\ activity' \in IF Downloads THEN {"stream", "download"} ELSE {"stream"}
    /\ cancelDownload' = FALSE
    /\ pc' = "woken"
    /\ UNCHANGED <<ring, frameSemaphore, capture, inUse, isStreaming, stopAsked, overlay>>

\* stopSustainTask(), from the worker or from OTAprereq().
StopSustainTask ==
    /\ EarlyStops \/ pc \notin {"claimed", "woken"}
    /\ isStreaming' = FALSE /\ cancelDownload' = Downloads
    /\ stopAsked' = inUse
    /\ UNCHANGED <<ring, frameSemaphore, capture, inUse, activity, pc, overlay>>

\* A new stream, asked for with HEAD on slot 0 or with GET on slot 1, stops the
\* old one.
StopForStream ==
    /\ inUse /\ pc # "claimed" /\ (EarlyStops \/ pc # "woken")
    /\ isStreaming' = FALSE
    /\ stopAsked' = (stopAsked \/ activity = "stream")
    /\ UNCHANGED <<ring, frameSemaphore, capture, inUse, cancelDownload, activity, pc, overlay>>

ToggleOverlay ==
    /\ ShowMotion
    /\ dbgMotion' = ~dbgMotion
    /\ UNCHANGED <<ring, frameSemaphore, capture, request, pc, motionJpegLen, motionSemaphore>>
----------------------------------------------------------------------------
(* The slot's task.                                                        *)
\* showStream() drains the ring of what the viewer before has left.
DrainBuffers ==
    /\ pc = "woken" /\ activity = "stream"
    /\ isStreaming' = TRUE
    /\ strmLen' = [s \in Ring |-> FALSE]
    /\ pc' = "drained"
    /\ UNCHANGED <<strmBuf, strmWr, strmRd, frameSemaphore, capture, inUse, cancelDownload,
                   activity, stopAsked, overlay>>

\* Mutants: the producer's index is not reset with it; the stream is on only
\* now, so that a stop is lost.
DrainLate ==
    /\ pc = "drained"
    /\ strmWr' = 0 /\ strmRd' = 0
    /\ motionJpegLen' = FALSE /\ isStreaming' = TRUE
    /\ pc' = "head"
    /\ UNCHANGED <<strmLen, strmBuf, frameSemaphore, capture, inUse, cancelDownload, activity,
                   stopAsked, dbgMotion, motionSemaphore>>

DrainReader ==
    /\ pc = "drained"
    /\ strmRd' = 0
    /\ motionJpegLen' = FALSE
    /\ pc' = "head"
    /\ UNCHANGED <<strmLen, strmBuf, strmWr, frameSemaphore, capture, request, dbgMotion,
                   motionSemaphore>>

DrainIndexes ==
    /\ pc = "drained"
    /\ strmWr' = 0 /\ strmRd' = 0
    /\ motionJpegLen' = FALSE
    /\ pc' = "head"
    /\ UNCHANGED <<strmLen, strmBuf, frameSemaphore, capture, request, dbgMotion,
                   motionSemaphore>>

Loop ==
    /\ pc = "head"
    /\ pc' = IF isStreaming THEN "wait" ELSE "end"
    /\ UNCHANGED <<ring, frameSemaphore, capture, request, overlay>>

TakeFrame ==
    /\ pc = "wait" /\ frameSemaphore
    /\ frameSemaphore' = FALSE
    /\ pc' = IF dbgMotion THEN "motion" ELSE IF strmLen[strmRd] THEN "send" ELSE "head"
    /\ UNCHANGED <<ring, capture, request, overlay>>

\* Mutant: the overlay is released before it is sent.
TakeOverlayEarly ==
    /\ pc = "motion" /\ motionSemaphore
    /\ motionSemaphore' = FALSE /\ motionJpegLen' = FALSE
    /\ pc' = IF motionJpegLen THEN "sendOverlay" ELSE "head"
    /\ UNCHANGED <<ring, frameSemaphore, capture, request, dbgMotion>>

TakeOverlay ==
    /\ pc = "motion" /\ motionSemaphore
    /\ motionSemaphore' = FALSE
    /\ pc' = IF motionJpegLen THEN "sendOverlay" ELSE "head"
    /\ UNCHANGED <<ring, frameSemaphore, capture, request, dbgMotion, motionJpegLen>>

Timeout ==
    /\ (pc = "wait" /\ ~frameSemaphore) \/ (pc = "motion" /\ ~motionSemaphore)
    /\ pc' = "head"
    /\ UNCHANGED <<ring, frameSemaphore, capture, request, overlay>>

\* The buffer is released only after the send; dbgMotion is read again.
Sent ==
    /\ pc \in {"send", "sendOverlay"}
    /\ IF dbgMotion
       THEN motionJpegLen' = FALSE /\ UNCHANGED <<strmLen, strmRd>>
       ELSE /\ strmLen' = [strmLen EXCEPT ![strmRd] = FALSE]
            /\ strmRd' = (strmRd + 1) % Slots
            /\ UNCHANGED motionJpegLen
    /\ isStreaming' \in {isStreaming, isStreaming /\ ~SendFails}
    /\ pc' = "head"
    /\ UNCHANGED <<strmBuf, strmWr, frameSemaphore, capture, inUse, cancelDownload, activity,
                   stopAsked, dbgMotion, motionSemaphore>>

\* sendChunks(), which looks for a cancel between chunks.
Download ==
    /\ pc = "woken" /\ activity = "download"
    /\ pc' = "chunk"
    /\ UNCHANGED <<ring, frameSemaphore, capture, request, overlay>>

Cancelled ==
    /\ pc = "chunk" /\ cancelDownload
    /\ pc' = "end"
    /\ UNCHANGED <<ring, frameSemaphore, capture, request, overlay>>

Downloaded ==
    /\ pc = "chunk" /\ ~cancelDownload
    /\ pc' = "end"
    /\ UNCHANGED <<ring, frameSemaphore, capture, request, overlay>>

End ==
    /\ pc = "end"
    /\ pc' = "parked"
    /\ inUse' = FALSE /\ stopAsked' = FALSE
    /\ UNCHANGED <<ring, frameSemaphore, capture, isStreaming, cancelDownload, activity, overlay>>
----------------------------------------------------------------------------
Capture == Offer \/ HandOver \/ Signal

Sender == \/ DrainBuffers \/ DrainIndexes \/ Loop \/ TakeFrame \/ TakeOverlay \/ Timeout
          \/ Sent \/ Download \/ Cancelled \/ End

Worker == Claim \/ Start \/ StopSustainTask \/ StopForStream \/ ToggleOverlay

Next == Capture \/ BuildOverlay \/ Sender \/ Downloaded \/ Worker

\* Frames and motion checks keep coming, and the task gets to run.  Nobody need
\* connect, and a download may take for ever.
Spec == Init /\ [][Next]_vars /\ WF_vars(Capture) /\ WF_vars(BuildOverlay) /\ WF_vars(Sender)
             /\ WF_vars(Start)
----------------------------------------------------------------------------
RingOK ==
    /\ strmLen \in [Ring -> BOOLEAN] /\ strmBuf \in [Ring -> 0..Window]
    /\ strmWr \in Ring /\ strmRd \in Ring /\ slot \in Ring
    /\ seq \in 0 .. Window - 1

TaskOK ==
    /\ offer \in {"idle", "copy", "handed"}
    /\ activity \in {"stream", "download"}
    /\ pc \in {"parked", "claimed", "woken", "drained", "head", "wait", "motion", "send",
               "sendOverlay", "chunk", "end"}

FlagsOK ==
    /\ frameSemaphore \in BOOLEAN /\ motionSemaphore \in BOOLEAN
    /\ inUse \in BOOLEAN /\ isStreaming \in BOOLEAN /\ cancelDownload \in BOOLEAN
    /\ stopAsked \in BOOLEAN /\ dbgMotion \in BOOLEAN /\ motionJpegLen \in BOOLEAN

TypeOK == RingOK /\ TaskOK /\ FlagsOK

\* The buffers that are handed over, from the sender's on, are a queue: every
\* frame that was accepted is sent whole, once and in order.
queue ==
    IF Slots = 2 /\ strmLen[1 - strmRd]
    THEN IF strmLen[strmRd] THEN <<strmBuf[strmRd], strmBuf[1 - strmRd]>>
         ELSE <<strmBuf[1 - strmRd]>>
    ELSE IF strmLen[strmRd] THEN <<strmBuf[strmRd]>> ELSE <<>>

FrameHandoff == INSTANCE FrameQueue
ImplementsFrameQueue == FrameHandoff!Spec

\* The buffer that is being sent stays as it is ("release the slot only AFTER the
\* send completes").
SentBufferStable == [][pc = "send" => strmBuf'[strmRd] = strmBuf[strmRd]]_vars

\* "frames are only skipped when BOTH slots are genuinely busy - i.e. when the
\* transport really is the bottleneck": when the capture task would skip a frame,
\* the sender is not waiting for one without knowing of those in the ring.
SkippedOnlyWhenBusy == pc = "wait" /\ offer = "idle" /\ strmLen[strmWr] => frameSemaphore

\* The overlay that is being sent is not built anew ("previous overlay not yet
\* taken by the stream task"), wherever Show Motion is switched.
OverlayHeld == pc = "sendOverlay" => motionJpegLen

\* As long as a viewer is connected, frames are sent.
FramesFlow == []<>(pc = "send" \/ pc \in {"parked", "claimed", "chunk"} \/ dbgMotion)

\* "Show Motion streams the detector's own view instead of the camera image": as
\* long as it is on and a viewer is connected, overlays are sent.
OverlaysFlow == []<>(pc = "sendOverlay" \/ pc \in {"parked", "claimed", "chunk"} \/ ~dbgMotion)

\* A request that was told to stop ends, so that an update finds the tasks parked
\* ("Close any active streams and let their tasks park at the notify wait before
\* endTasks() deletes them").
StopObeyed == stopAsked ~> ~stopAsked

\* A download is cancelled by a stop of its own, never by one that was meant for
\* what ran before it.
CancelIsForThis == pc = "chunk" /\ cancelDownload => stopAsked

\* "any sustained client - browser stream, playback, download, NVR feeds - needs
\* frames at the user's rate": a slot in use has a client.
BusyIsClient == inUse => pc # "parked"
=============================================================================
