------------------------ MODULE CaptureControlProofs ------------------------
(* Theorems about CaptureControl, for every frame limit, every set of      *)
(* commands and shutdowns and any number of recordings.                    *)
EXTENDS CaptureControl, TLAPS

\* Where the file stands at each point of a pass.  Outside the decisions it is
\* open just when isCapturing says so; inside them prevCapture remembers it.
FileAt ==
    /\ pass \in {"wait", "frame", "decide", "settle"} => isCapturing = aviBusy
    /\ pass = "check" => prevCapture = aviBusy
    /\ pass = "open"  => isCapturing /\ ~aviBusy
    /\ pass = "save"  => isCapturing /\ aviBusy
    /\ pass = "close" => ~isCapturing /\ aviBusy

\* An open file has room for the frame that is saved next.
RoomAt == aviBusy /\ pass # "close" => frameCnt < FrameLimit

\* A pass that goes on to open a file has not found the device parked.
ParkAt ==
    /\ pass = "check" /\ supplyParked /\ ~prevCapture => ~isCapturing
    /\ pass = "open" => ~supplyParked

IInv == TypeOK /\ FileAt /\ RoomAt /\ ParkAt

USE CaptureAssumption

\* Nothing is open at boot.
LEMMA InitIInv == Init => IInv
<1> SUFFICES ASSUME Init PROVE IInv
  OBVIOUS
<1>1. PICK record \in BOOLEAN :
        /\ doRecording = (record /\ ~Brownout /\ ~NoCard)
        /\ holdoffSavedRecording = (record /\ Brownout)
        /\ saveCapture = (record /\ ~NoCard)
  BY DEF Init
<1>2. FlagsOK
  BY <1>1, Zenon DEF Init, FlagsOK
<1>3. StateOK
  BY DEF Init, StateOK
<1>4. FileAt /\ RoomAt /\ ParkAt
  BY DEF Init, FileAt, RoomAt, ParkAt
<1> QED
  BY <1>2, <1>3, <1>4 DEF IInv, TypeOK

\* Every step of the capture task, of a web command, of the supply and of a
\* shutdown keeps the invariant.
LEMMA NextIInv == IInv /\ [Next]_vars => IInv'
<1> SUFFICES ASSUME IInv, [Next]_vars PROVE IInv'
  OBVIOUS
<1> USE DEF IInv, TypeOK, toggles, capture, file, supply, holdoff, task, closing, history
<1>1. CASE FrameISR
  <2>1. FlagsOK'
    BY <1>1 DEF FrameISR, FlagsOK
  <2>2. StateOK'
    BY <1>1 DEF FrameISR, StateOK
  <2>3. FileAt' /\ RoomAt' /\ ParkAt'
    BY <1>1 DEF FrameISR, FlagsOK, StateOK, FileAt, RoomAt, ParkAt
  <2> QED
    BY <2>1, <2>2, <2>3
<1>2. CASE StartPass
  <2>a. UNCHANGED <<doRecording, forceRecord, dashCamOn, useMotion, videoSizeAllowed,
                    isCapturing, haveMotion, motionTriggered, quiet, prevCapture,
                    aviBusy, supplySagging, supplyParked, holdoffActive,
                    holdoffSavedRecording, frameTimer, landed, gaveUp, shutdownPending,
                    saveCapture>>
    BY <1>2 DEF StartPass
  <2>b0. notified' \in BOOLEAN
    BY <1>2, Zenon DEF StartPass, FlagsOK
  <2>1. FlagsOK'
    BY <2>b0, <2>a DEF FlagsOK
  <2>2. StateOK'
    BY <1>2 DEF StartPass, StateOK
  <2>3. FileAt' /\ RoomAt' /\ ParkAt'
    BY <1>2 DEF StartPass, FlagsOK, StateOK, FileAt, RoomAt, ParkAt
  <2> QED
    BY <2>1, <2>2, <2>3
<1>3. CASE NoFrame
  <2>1. FlagsOK'
    BY <1>3 DEF NoFrame, FlagsOK
  <2>2. StateOK'
    BY <1>3 DEF NoFrame, StateOK
  <2>3. FileAt' /\ RoomAt' /\ ParkAt'
    BY <1>3 DEF NoFrame, FlagsOK, StateOK, FileAt, RoomAt, ParkAt
  <2> QED
    BY <2>1, <2>2, <2>3
<1>4. CASE QuietElapses
  <2>1. FlagsOK'
    BY <1>4 DEF QuietElapses, FlagsOK
  <2>2. StateOK'
    BY <1>4 DEF QuietElapses, StateOK
  <2>3. FileAt' /\ RoomAt' /\ ParkAt'
    BY <1>4 DEF QuietElapses, FlagsOK, StateOK, FileAt, RoomAt, ParkAt
  <2> QED
    BY <2>1, <2>2, <2>3
<1>5. CASE Sag
  <2>1. FlagsOK'
    BY <1>5 DEF Sag, FlagsOK
  <2>2. StateOK'
    BY <1>5 DEF Sag, StateOK
  <2>3. FileAt' /\ RoomAt' /\ ParkAt'
    BY <1>5 DEF Sag, FlagsOK, StateOK, FileAt, RoomAt, ParkAt
  <2> QED
    BY <2>1, <2>2, <2>3
<1>6. CASE AppShutdown
  <2>a. UNCHANGED <<forceRecord, dashCamOn, useMotion, videoSizeAllowed, isCapturing,
                    haveMotion, motionTriggered, quiet, prevCapture, aviBusy,
                    supplySagging, supplyParked, holdoffActive, holdoffSavedRecording,
                    notified, frameTimer, landed, gaveUp, saveCapture>>
    BY <1>6 DEF AppShutdown
  <2>b0. doRecording' \in BOOLEAN
    BY <1>6, Zenon DEF AppShutdown, FlagsOK
  <2>b1. shutdownPending' \in BOOLEAN
    BY <1>6, Zenon DEF AppShutdown, FlagsOK
  <2>1. FlagsOK'
    BY <2>b0, <2>b1, <2>a DEF FlagsOK
  <2>2. StateOK'
    BY <1>6 DEF AppShutdown, StateOK
  <2>3. FileAt' /\ RoomAt' /\ ParkAt'
    BY <1>6 DEF AppShutdown, FlagsOK, StateOK, FileAt, RoomAt, ParkAt
  <2> QED
    BY <2>1, <2>2, <2>3
<1>7. CASE Landing
  <2>a. UNCHANGED <<doRecording, forceRecord, dashCamOn, useMotion, videoSizeAllowed,
                    isCapturing, haveMotion, motionTriggered, quiet, prevCapture,
                    aviBusy, supplySagging, supplyParked, holdoffActive,
                    holdoffSavedRecording, notified, frameTimer, shutdownPending,
                    saveCapture>>
    BY <1>7 DEF Landing
  <2>b0. landed' \in BOOLEAN
    BY <1>7, Zenon DEF Landing, FlagsOK
  <2>b1. gaveUp' \in BOOLEAN
    BY <1>7, Zenon DEF Landing, FlagsOK
  <2>1. FlagsOK'
    BY <2>b0, <2>b1, <2>a DEF FlagsOK
  <2>2. StateOK'
    BY <1>7 DEF Landing, StateOK
  <2>3. FileAt' /\ RoomAt' /\ ParkAt'
    BY <1>7 DEF Landing, FlagsOK, StateOK, FileAt, RoomAt, ParkAt
  <2> QED
    BY <2>1, <2>2, <2>3
<1>8. CASE Restart
  <2>1. FlagsOK'
    BY <1>8 DEF Restart, FlagsOK
  <2>2. StateOK'
    BY <1>8 DEF Restart, StateOK
  <2>3. FileAt' /\ RoomAt' /\ ParkAt'
    BY <1>8 DEF Restart, FlagsOK, StateOK, FileAt, RoomAt, ParkAt
  <2> QED
    BY <2>1, <2>2, <2>3
<1>9. CASE OtaPrereq
  <2>a. UNCHANGED <<doRecording, dashCamOn, useMotion, videoSizeAllowed, isCapturing,
                    haveMotion, motionTriggered, quiet, prevCapture, aviBusy,
                    supplySagging, supplyParked, holdoffActive, holdoffSavedRecording,
                    notified, frameTimer, landed, gaveUp, shutdownPending, saveCapture>>
    BY <1>9 DEF OtaPrereq
  <2>b0. forceRecord' \in BOOLEAN
    BY <1>9, Zenon DEF OtaPrereq, FlagsOK
  <2>1. FlagsOK'
    BY <2>b0, <2>a DEF FlagsOK
  <2>2. StateOK'
    BY <1>9 DEF OtaPrereq, StateOK
  <2>3. FileAt' /\ RoomAt' /\ ParkAt'
    BY <1>9 DEF OtaPrereq, FlagsOK, StateOK, FileAt, RoomAt, ParkAt
  <2> QED
    BY <2>1, <2>2, <2>3
<1>10. CASE OtaCheck
  <2>a. UNCHANGED <<forceRecord, dashCamOn, useMotion, videoSizeAllowed, isCapturing,
                    haveMotion, motionTriggered, quiet, prevCapture, aviBusy,
                    supplySagging, supplyParked, holdoffActive, holdoffSavedRecording,
                    notified, frameTimer, landed, gaveUp, saveCapture>>
    BY <1>10 DEF OtaCheck
  <2>b0. doRecording' \in BOOLEAN
    BY <1>10, Zenon DEF OtaCheck, FlagsOK
  <2>b1. shutdownPending' \in BOOLEAN
    BY <1>10, Zenon DEF OtaCheck, FlagsOK
  <2>1. FlagsOK'
    BY <2>b0, <2>b1, <2>a DEF FlagsOK
  <2>2. StateOK'
    BY <1>10 DEF OtaCheck, StateOK
  <2>3. FileAt' /\ RoomAt' /\ ParkAt'
    BY <1>10 DEF OtaCheck, FlagsOK, StateOK, FileAt, RoomAt, ParkAt
  <2> QED
    BY <2>1, <2>2, <2>3
<1>11. CASE OtaLanding
  <2>a. UNCHANGED <<doRecording, forceRecord, dashCamOn, useMotion, videoSizeAllowed,
                    isCapturing, haveMotion, motionTriggered, quiet, prevCapture,
                    aviBusy, supplySagging, supplyParked, holdoffActive,
                    holdoffSavedRecording, notified, frameTimer, shutdownPending,
                    saveCapture>>
    BY <1>11 DEF OtaLanding
  <2>b0. landed' \in BOOLEAN
    BY <1>11, Zenon DEF OtaLanding, FlagsOK
  <2>b1. gaveUp' \in BOOLEAN
    BY <1>11, Zenon DEF OtaLanding, FlagsOK
  <2>1. FlagsOK'
    BY <2>b0, <2>b1, <2>a DEF FlagsOK
  <2>2. StateOK'
    BY <1>11 DEF OtaLanding, StateOK
  <2>3. FileAt' /\ RoomAt' /\ ParkAt'
    BY <1>11 DEF OtaLanding, FlagsOK, StateOK, FileAt, RoomAt, ParkAt
  <2> QED
    BY <2>1, <2>2, <2>3
<1>12. CASE OtaStopTimer
  <2>a. UNCHANGED <<doRecording, forceRecord, dashCamOn, useMotion, videoSizeAllowed,
                    isCapturing, haveMotion, motionTriggered, quiet, prevCapture,
                    aviBusy, supplySagging, supplyParked, holdoffActive,
                    holdoffSavedRecording, notified, landed, gaveUp, shutdownPending,
                    saveCapture>>
    BY <1>12 DEF OtaStopTimer
  <2>b0. frameTimer' \in BOOLEAN
    BY <1>12, Zenon DEF OtaStopTimer, FlagsOK
  <2>1. FlagsOK'
    BY <2>b0, <2>a DEF FlagsOK
  <2>2. StateOK'
    BY <1>12 DEF OtaStopTimer, StateOK
  <2>3. FileAt' /\ RoomAt' /\ ParkAt'
    BY <1>12 DEF OtaStopTimer, FlagsOK, StateOK, FileAt, RoomAt, ParkAt
  <2> QED
    BY <2>1, <2>2, <2>3
<1>13. CASE OtaPark
  <2>a. UNCHANGED <<doRecording, forceRecord, dashCamOn, useMotion, videoSizeAllowed,
                    isCapturing, haveMotion, motionTriggered, quiet, prevCapture,
                    aviBusy, supplySagging, supplyParked, holdoffActive,
                    holdoffSavedRecording, notified, frameTimer, landed,
                    shutdownPending, saveCapture>>
    BY <1>13 DEF OtaPark
  <2>b0. gaveUp' \in BOOLEAN
    BY <1>13, Zenon DEF OtaPark, FlagsOK
  <2>1. FlagsOK'
    BY <2>b0, <2>a DEF FlagsOK
  <2>2. StateOK'
    BY <1>13 DEF OtaPark, StateOK
  <2>3. FileAt' /\ RoomAt' /\ ParkAt'
    BY <1>13 DEF OtaPark, FlagsOK, StateOK, FileAt, RoomAt, ParkAt
  <2> QED
    BY <2>1, <2>2, <2>3
<1>14. CASE EndTasks
  <2>1. FlagsOK'
    BY <1>14 DEF EndTasks, FlagsOK
  <2>2. StateOK'
    BY <1>14 DEF EndTasks, StateOK
  <2>3. FileAt' /\ RoomAt' /\ ParkAt'
    BY <1>14 DEF EndTasks, FlagsOK, StateOK, FileAt, RoomAt, ParkAt
  <2> QED
    BY <2>1, <2>2, <2>3
<1>15. CASE Detect
  <2>a. UNCHANGED <<doRecording, forceRecord, dashCamOn, useMotion, videoSizeAllowed,
                    isCapturing, motionTriggered, prevCapture, aviBusy, supplySagging,
                    supplyParked, holdoffActive, holdoffSavedRecording, notified,
                    frameTimer, landed, gaveUp, shutdownPending, saveCapture>>
    BY <1>15 DEF Detect, DetectionActive
  <2>b0. haveMotion' \in BOOLEAN
    BY <1>15, Zenon DEF Detect, DetectionActive, FlagsOK
  <2>b1. quiet' \in BOOLEAN
    BY <1>15, Zenon DEF Detect, DetectionActive, FlagsOK
  <2>1. FlagsOK'
    BY <2>b0, <2>b1, <2>a DEF FlagsOK
  <2>2. StateOK'
    BY <1>15 DEF Detect, DetectionActive, StateOK
  <2>3. FileAt' /\ RoomAt' /\ ParkAt'
    BY <1>15 DEF Detect, DetectionActive, FlagsOK, StateOK, FileAt, RoomAt, ParkAt
  <2> QED
    BY <2>1, <2>2, <2>3
<1>16. CASE Decide
  <2>a. UNCHANGED <<doRecording, dashCamOn, useMotion, videoSizeAllowed, haveMotion,
                    quiet, aviBusy, supplySagging, supplyParked, holdoffActive,
                    holdoffSavedRecording, notified, frameTimer, landed, gaveUp,
                    shutdownPending, saveCapture>>
    BY <1>16 DEF Decide, Begins, Ends
  <2>b0. prevCapture' \in BOOLEAN
    BY <1>16, Zenon DEF Decide, Begins, Ends, FlagsOK
  <2>b1. isCapturing' \in BOOLEAN
    BY <1>16, Zenon DEF Decide, Begins, Ends, FlagsOK
  <2>b2. forceRecord' \in BOOLEAN
    BY <1>16, Zenon DEF Decide, Begins, Ends, FlagsOK
  <2>b3. motionTriggered' \in BOOLEAN
    BY <1>16, Zenon DEF Decide, Begins, Ends, FlagsOK
  <2>1. FlagsOK'
    BY <2>b0, <2>b1, <2>b2, <2>b3, <2>a DEF FlagsOK
  <2>2. StateOK'
    BY <1>16 DEF Decide, Begins, Ends, StateOK
  <2>3. FileAt' /\ RoomAt' /\ ParkAt'
    BY <1>16 DEF Decide, Begins, Ends, FlagsOK, StateOK, FileAt, RoomAt, ParkAt
  <2> QED
    BY <2>1, <2>2, <2>3
<1>17. CASE Check
  <2>a. UNCHANGED <<dashCamOn, useMotion, videoSizeAllowed, haveMotion, quiet,
                    prevCapture, aviBusy, holdoffSavedRecording, notified, landed,
                    gaveUp, shutdownPending, saveCapture>>
    BY <1>17 DEF Check
  <2>b0. frameTimer' \in BOOLEAN
    BY <1>17, Zenon DEF Check, FlagsOK
  <2>b1. supplySagging' \in BOOLEAN
    BY <1>17, Zenon DEF Check, FlagsOK
  <2>b2. supplyParked' \in BOOLEAN
    BY <1>17, Zenon DEF Check, FlagsOK
  <2>b3. isCapturing' \in BOOLEAN
    BY <1>17, Zenon DEF Check, FlagsOK
  <2>b4. forceRecord' \in BOOLEAN
    BY <1>17, Zenon DEF Check, FlagsOK
  <2>b5. motionTriggered' \in BOOLEAN
    BY <1>17, Zenon DEF Check, FlagsOK
  <2>b6. holdoffActive' \in BOOLEAN
    BY <1>17, Zenon DEF Check, FlagsOK
  <2>b7. doRecording' \in BOOLEAN
    BY <1>17, Zenon DEF Check, FlagsOK
  <2>1. FlagsOK'
    BY <2>b0, <2>b1, <2>b2, <2>b3, <2>b4, <2>b5, <2>b6, <2>b7, <2>a DEF FlagsOK
  <2>2. StateOK'
    BY <1>17 DEF Check, StateOK
  <2>3. FileAt' /\ RoomAt' /\ ParkAt'
    BY <1>17 DEF Check, FlagsOK, StateOK, FileAt, RoomAt, ParkAt
  <2> QED
    BY <2>1, <2>2, <2>3
<1>18. CASE OpenAvi
  <2>1. FlagsOK'
    BY <1>18 DEF OpenAvi, FlagsOK
  <2>2. StateOK'
    BY <1>18 DEF OpenAvi, StateOK
  <2>3. FileAt' /\ RoomAt' /\ ParkAt'
    BY <1>18 DEF OpenAvi, FlagsOK, StateOK, FileAt, RoomAt, ParkAt
  <2> QED
    BY <2>1, <2>2, <2>3
<1>19. CASE SaveFrame
  <2>a. UNCHANGED <<doRecording, dashCamOn, useMotion, videoSizeAllowed, haveMotion,
                    quiet, prevCapture, aviBusy, supplySagging, supplyParked,
                    holdoffActive, holdoffSavedRecording, notified, frameTimer, landed,
                    gaveUp, shutdownPending, saveCapture>>
    BY <1>19 DEF SaveFrame, Capped
  <2>b0. isCapturing' \in BOOLEAN
    BY <1>19, Zenon DEF SaveFrame, Capped, FlagsOK
  <2>b1. forceRecord' \in BOOLEAN
    BY <1>19, Zenon DEF SaveFrame, Capped, FlagsOK
  <2>b2. motionTriggered' \in BOOLEAN
    BY <1>19, Zenon DEF SaveFrame, Capped, FlagsOK
  <2>1. FlagsOK'
    BY <2>b0, <2>b1, <2>b2, <2>a DEF FlagsOK
  <2>2. StateOK'
    BY <1>19 DEF SaveFrame, Capped, StateOK, FileAt, RoomAt
  <2>d. isCapturing /\ aviBusy' /\ frameCnt < FrameLimit /\ frameCnt' = frameCnt + 1
    BY <1>19 DEF SaveFrame, FileAt, RoomAt, FlagsOK
  <2>3. FileAt' /\ RoomAt' /\ ParkAt'
    <3>1. CASE Capped(frameCnt + 1)
      <4>1. ~isCapturing' /\ pass' = "close"
        BY <1>19, <3>1 DEF SaveFrame
      <4> QED
        BY <2>d, <4>1, Zenon DEF FileAt, RoomAt, ParkAt
    <3>2. CASE ~Capped(frameCnt + 1)
      <4>1. isCapturing' /\ pass' = "settle"
        BY <1>19, <3>2, <2>d DEF SaveFrame, FlagsOK
      <4>2. frameCnt + 1 < FrameLimit
        BY <3>2, <2>d DEF Capped, StateOK
      <4>3. FileAt' /\ ParkAt'
        BY <2>d, <4>1, Zenon DEF FileAt, ParkAt
      <4>4. RoomAt'
        BY <2>d, <4>2 DEF RoomAt
      <4> QED
        BY <4>3, <4>4
    <3> QED
      BY <3>1, <3>2
  <2> QED
    BY <2>1, <2>2, <2>3
<1>20. CASE CloseAvi
  <2>a. UNCHANGED <<dashCamOn, useMotion, videoSizeAllowed, isCapturing, haveMotion,
                    motionTriggered, quiet, prevCapture, supplySagging, supplyParked,
                    holdoffActive, holdoffSavedRecording, notified, frameTimer, landed,
                    gaveUp, shutdownPending>>
    BY <1>20 DEF CloseAvi
  <2>b0. aviBusy' \in BOOLEAN
    BY <1>20, Zenon DEF CloseAvi, FlagsOK
  <2>b1. doRecording' \in BOOLEAN
    BY <1>20, Zenon DEF CloseAvi, FlagsOK
  <2>b2. saveCapture' \in BOOLEAN
    BY <1>20, Zenon DEF CloseAvi, FlagsOK
  <2>b3. forceRecord' \in BOOLEAN
    BY <1>20, Zenon DEF CloseAvi, FlagsOK
  <2>1. FlagsOK'
    BY <2>b0, <2>b1, <2>b2, <2>b3, <2>a DEF FlagsOK
  <2>2. StateOK'
    BY <1>20 DEF CloseAvi, StateOK
  <2>3. FileAt' /\ RoomAt' /\ ParkAt'
    BY <1>20 DEF CloseAvi, FlagsOK, StateOK, FileAt, RoomAt, ParkAt
  <2> QED
    BY <2>1, <2>2, <2>3
<1>21. CASE EndPass
  <2>1. FlagsOK'
    BY <1>21 DEF EndPass, FlagsOK
  <2>2. StateOK'
    BY <1>21 DEF EndPass, StateOK
  <2>3. FileAt' /\ RoomAt' /\ ParkAt'
    BY <1>21 DEF EndPass, FlagsOK, StateOK, FileAt, RoomAt, ParkAt
  <2> QED
    BY <2>1, <2>2, <2>3
<1>22. CASE Command
  <2>1. FlagsOK'
    BY <1>22 DEF Command, FlagsOK
  <2>2. StateOK'
    BY <1>22 DEF Command, StateOK
  <2>3. FileAt' /\ RoomAt' /\ ParkAt'
    BY <1>22 DEF Command, FlagsOK, StateOK, FileAt, RoomAt, ParkAt
  <2> QED
    BY <2>1, <2>2, <2>3
<1>23. CASE UNCHANGED vars
  BY <1>23 DEF vars, FlagsOK, StateOK, FileAt, RoomAt, ParkAt
<1> QED
  BY <1>1, <1>2, <1>3, <1>4, <1>5, <1>6, <1>7, <1>8, <1>9, <1>10, <1>11, <1>12, <1>13,
     <1>14, <1>15, <1>16, <1>17, <1>18, <1>19, <1>20, <1>21, <1>22, <1>23 DEF Next, Pass,
     Shutdown

\* Wherever a shutdown, a command or the supply interrupts the capture task, the
\* file stands as the point of its pass says.
THEOREM CaptureInvariant == Spec => []IInv
<1>1. Init => IInv
  BY InitIInv
<1>2. IInv /\ [Next]_vars => IInv'
  BY NextIInv
<1> QED
  BY <1>1, <1>2, PTL DEF Spec

\* Every flag of the capture logic keeps its type, and a file never holds more
\* frames than its limit.
THEOREM TypeCorrect == Spec => []TypeOK
<1>1. IInv => TypeOK
  BY DEF IInv
<1> QED
  BY <1>1, CaptureInvariant, PTL

\* Whatever ends a recording, the frame that ends it also closes its file: the
\* capture task never waits with a file that isCapturing does not know of.
THEOREM OwnsFile == Spec => []CaptureOwnsFile
<1>1. IInv => CaptureOwnsFile
  BY DEF IInv, FileAt, CaptureOwnsFile
<1> QED
  BY <1>1, CaptureInvariant, PTL

\* A step that opens a file is the capture task's, and its pass has seen that the
\* supply is not parked.
LEMMA OpenedUnparked == IInv /\ [Next]_vars => (supplyParked => (aviBusy' => aviBusy))
<1> SUFFICES ASSUME IInv, [Next]_vars, supplyParked, aviBusy' PROVE aviBusy
  OBVIOUS
<1>1. CASE OpenAvi
  BY <1>1 DEF OpenAvi, IInv, ParkAt
<1>2. CASE CloseAvi
  BY <1>2 DEF CloseAvi
<1>3. CASE ~OpenAvi /\ ~CloseAvi
  <2>1. aviBusy' = aviBusy
    BY <1>3 DEF Next, Pass, Shutdown, FrameISR, StartPass, NoFrame, Detect, Decide, Check,
       SaveFrame, EndPass, QuietElapses, Command, Sag, AppShutdown, Landing, Restart,
       OtaPrereq, OtaCheck, OtaLanding, OtaStopTimer, OtaPark, EndTasks, vars, file
  <2> QED
    BY <2>1
<1> QED
  BY <1>1, <1>2, <1>3

\* Once the device has parked itself on a failing supply it opens no file, with
\* motion or with the record button, in this pass or in a later one.
THEOREM ParkedOpens == Spec => ParkedOpensNothing
<1>1. IInv /\ [Next]_vars => [supplyParked => (aviBusy' => aviBusy)]_vars
  BY OpenedUnparked
<1> QED
  BY <1>1, CaptureInvariant, PTL DEF Spec, ParkedOpensNothing
----------------------------------------------------------------------------
(* What an update landed.                                                  *)

\* Once the recording is landed the shutdown is pending, and no pass that has
\* seen it goes on to open a file.
LandAt ==
    /\ shut \in {"up", "landing", "streams", "otaLanding"} => ~landed
    /\ shut = "otaLanding" => shutdownPending
    /\ landed /\ shut \in {"timer", "park", "parked", "deleted"} =>
          shutdownPending /\ ~aviBusy /\ pass # "open"

\* Every step keeps where the waits of OTAprereq() leave the flags.
LEMMA LandStep == IInv /\ LandAt /\ [Next]_vars => LandAt'
<1> SUFFICES ASSUME IInv, LandAt, [Next]_vars PROVE LandAt'
  OBVIOUS
<1>1. CASE OtaCheck \/ OtaPrereq \/ AppShutdown
  BY <1>1 DEF OtaCheck, OtaPrereq, AppShutdown, LandAt, closing, file, task
<1>2. CASE OtaLanding
  <2>1. CASE landed'
    <3>1. ~isCapturing /\ ~aviBusy /\ shutdownPending
      BY <1>2, <2>1 DEF OtaLanding, LandAt
    <3>2. pass # "open"
      BY <3>1 DEF IInv, FileAt
    <3> QED
      BY <1>2, <3>1, <3>2 DEF OtaLanding, LandAt, file, task
  <2>2. CASE ~landed'
    BY <1>2, <2>2 DEF OtaLanding, LandAt
  <2> QED
    BY <2>1, <2>2
<1>3. CASE Landing \/ Restart \/ OtaStopTimer \/ OtaPark \/ EndTasks
  BY <1>3 DEF Landing, Restart, OtaStopTimer, OtaPark, EndTasks, LandAt, file, task
<1>4. CASE Check
  <2>1. shutdownPending => pass' # "open"
    BY <1>4 DEF Check
  <2> QED
    BY <1>4, <2>1 DEF Check, LandAt, closing, file
<1>5. CASE OpenAvi \/ SaveFrame \/ CloseAvi
  <2>1. /\ pass' # "open" /\ UNCHANGED <<shut, landed, shutdownPending>>
        /\ OpenAvi \/ (aviBusy' => aviBusy)
    BY <1>5 DEF OpenAvi, SaveFrame, CloseAvi, closing
  <2>2. OpenAvi => pass = "open"
    BY DEF OpenAvi
  <2> QED
    BY <2>1, <2>2 DEF LandAt
<1>6. CASE FrameISR \/ StartPass \/ NoFrame \/ Detect \/ Decide \/ EndPass \/ QuietElapses
           \/ Command \/ Sag \/ UNCHANGED vars
  <2>1. UNCHANGED <<shut, landed, shutdownPending, aviBusy>> /\ (pass' = "open" => pass = "open")
    BY <1>6 DEF FrameISR, StartPass, NoFrame, Detect, Decide, EndPass, QuietElapses, Command, Sag,
       vars, closing, file, task
  <2> QED
    BY <2>1 DEF LandAt
<1> QED
  BY <1>1, <1>2, <1>3, <1>4, <1>5, <1>6 DEF Next, Pass, Shutdown

\* A recording that OTAprereq() landed stays landed: whatever asks for another one
\* in the passes that follow, none is open when the capture task is deleted.
THEOREM OtaLanded == Spec => []OtaKeepsLanded
<1>1. Init => LandAt
  BY DEF Init, LandAt
<1>2. LandAt => OtaKeepsLanded
  BY DEF LandAt, OtaKeepsLanded
<1> QED
  BY <1>1, <1>2, LandStep, CaptureInvariant, PTL DEF Spec

----------------------------------------------------------------------------
(* The end of the capture task in an update.                               *)

\* Once the timer is stopped nothing wakes the task, unless a pass starts it again; a task
\* that was found between two passes stays there.
StillAt ==
    /\ shut \in {"park", "parked", "deleted"} => ~frameTimer
    /\ shut \in {"parked", "deleted"} /\ ~gaveUp => pass = "wait" /\ ~notified

\* No step wakes a task that has been found between two passes.
LEMMA StillStep == ASSUME Retimes = FALSE PROVE StillAt /\ [Next]_vars => StillAt'
<1> SUFFICES ASSUME StillAt, [Next]_vars PROVE StillAt'
  OBVIOUS
<1>1. CASE FrameISR
  BY <1>1 DEF FrameISR, StillAt, closing
<1>2. CASE StartPass \/ NoFrame \/ Detect \/ Decide \/ OpenAvi \/ SaveFrame \/ CloseAvi
  <2>1. /\ pass \notin {"wait"} \/ notified
        /\ UNCHANGED <<shut, gaveUp, frameTimer>>
    BY <1>2 DEF StartPass, NoFrame, Detect, Decide, OpenAvi, SaveFrame, CloseAvi, closing
  <2> QED
    BY <2>1 DEF StillAt
<1>3. CASE Check \/ EndPass
  <2>1. /\ pass # "wait" /\ UNCHANGED <<shut, gaveUp>>
        /\ frameTimer' => frameTimer
    BY <1>3 DEF Check, EndPass, closing
  <2> QED
    BY <2>1 DEF StillAt
<1>4. CASE OtaStopTimer
  BY <1>4 DEF OtaStopTimer, StillAt
<1>5. CASE OtaPark
  BY <1>5 DEF OtaPark, StillAt, task
<1>6. CASE EndTasks
  BY <1>6 DEF EndTasks, StillAt, task
<1>7. CASE AppShutdown \/ Landing \/ Restart \/ OtaPrereq \/ OtaCheck \/ OtaLanding
  <2>1. shut' \notin {"park", "parked", "deleted"}
    BY <1>7 DEF AppShutdown, Landing, Restart, OtaPrereq, OtaCheck, OtaLanding
  <2> QED
    BY <2>1 DEF StillAt
<1>8. CASE QuietElapses \/ Command \/ Sag \/ UNCHANGED vars
  BY <1>8 DEF QuietElapses, Command, Sag, vars, task, closing, StillAt
<1> QED
  BY <1>1, <1>2, <1>3, <1>4, <1>5, <1>6, <1>7, <1>8 DEF Next, Pass, Shutdown

\* An update that has not given up its wait deletes the capture task between two passes, if no
\* pass starts the frame timer again that OTAprereq() has stopped.
THEOREM DeletedBetweenPasses == ASSUME Retimes = FALSE PROVE Spec => []DeletedAtWait
<1>1. Init => StillAt
  BY DEF Init, StillAt
<1>2. StillAt => DeletedAtWait
  BY DEF StillAt, DeletedAtWait
<1> QED
  BY <1>1, <1>2, StillStep, PTL DEF Spec
=============================================================================
