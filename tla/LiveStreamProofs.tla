-------------------------- MODULE LiveStreamProofs --------------------------
(* Theorems about LiveStream, for one buffer or two and for any number of  *)
(* viewers and downloads.                                                  *)
EXTENDS LiveStream, TLAPS

\* What is being sent is held, and what is being written is not handed over.
Held ==
    /\ pc = "send" => strmLen[strmRd]
    /\ offer = "copy" => ~strmLen[slot]
    /\ pc = "sendOverlay" => motionJpegLen

\* A slot at work is taken, and a cancel that it can see was meant for it.
Owned ==
    /\ pc # "parked" => inUse
    /\ pc \notin {"parked", "claimed"} /\ cancelDownload => stopAsked

SafeInv == TypeOK /\ Held /\ Owned

USE StreamAssumption

\* Nothing is in the ring at boot.
LEMMA InitSafe == Init => SafeInv
<1> SUFFICES ASSUME Init PROVE SafeInv
  OBVIOUS
<1>1. RingOK
  BY DEF Init, RingOK, Ring, Torn
<1>2. TaskOK /\ FlagsOK
  BY DEF Init, TaskOK, FlagsOK
<1>3. Held /\ Owned
  BY DEF Init, Held, Owned
<1> QED
  BY <1>1, <1>2, <1>3 DEF SafeInv, TypeOK

\* Every step of the capture task, the slot's task and the worker keeps it,
\* whatever their order.
LEMMA NextSafe == SafeInv /\ [Next]_vars => SafeInv'
<1> SUFFICES ASSUME SafeInv, [Next]_vars PROVE SafeInv'
  OBVIOUS
<1> USE DEF SafeInv, TypeOK, ring, capture, request, overlay
<1>1. CASE Offer
  <2>1. RingOK'
    BY <1>1 DEF Offer, RingOK, Ring, Torn
  <2>2. TaskOK'
    BY <1>1 DEF Offer, TaskOK
  <2>3. FlagsOK'
    BY <1>1 DEF Offer, FlagsOK
  <2>4. Held' /\ Owned'
    BY <1>1 DEF Offer, Held, Owned, RingOK, FlagsOK, TaskOK
  <2> QED
    BY <2>1, <2>2, <2>3, <2>4
<1>2. CASE HandOver
  <2>1. RingOK'
    BY <1>2 DEF HandOver, RingOK, Ring, Torn
  <2>2. TaskOK'
    BY <1>2 DEF HandOver, TaskOK
  <2>3. FlagsOK'
    BY <1>2 DEF HandOver, FlagsOK
  <2>4. Held' /\ Owned'
    BY <1>2 DEF HandOver, Held, Owned, RingOK, FlagsOK, TaskOK
  <2> QED
    BY <2>1, <2>2, <2>3, <2>4
<1>3. CASE Signal
  <2>1. RingOK'
    BY <1>3 DEF Signal, RingOK, Ring, Torn
  <2>2. TaskOK'
    BY <1>3 DEF Signal, TaskOK
  <2>3. FlagsOK'
    BY <1>3 DEF Signal, FlagsOK
  <2>4. Held' /\ Owned'
    BY <1>3 DEF Signal, Held, Owned, RingOK, FlagsOK, TaskOK
  <2> QED
    BY <2>1, <2>2, <2>3, <2>4
<1>4. CASE BuildOverlay
  <2>1. RingOK'
    BY <1>4 DEF BuildOverlay, RingOK, Ring, Torn
  <2>2. TaskOK'
    BY <1>4 DEF BuildOverlay, TaskOK
  <2>3. FlagsOK'
    BY <1>4 DEF BuildOverlay, FlagsOK
  <2>4. Held' /\ Owned'
    BY <1>4 DEF BuildOverlay, Held, Owned, RingOK, FlagsOK, TaskOK
  <2> QED
    BY <2>1, <2>2, <2>3, <2>4
<1>5. CASE Claim
  <2>1. RingOK'
    BY <1>5 DEF Claim, RingOK, Ring, Torn
  <2>2. TaskOK'
    BY <1>5 DEF Claim, TaskOK
  <2>3. FlagsOK'
    BY <1>5 DEF Claim, FlagsOK
  <2>4. Held' /\ Owned'
    BY <1>5 DEF Claim, Held, Owned, RingOK, FlagsOK, TaskOK
  <2> QED
    BY <2>1, <2>2, <2>3, <2>4
<1>6. CASE Start
  <2>1. RingOK'
    BY <1>6 DEF Start, RingOK, Ring, Torn
  <2>2. TaskOK'
    BY <1>6 DEF Start, TaskOK
  <2>3. FlagsOK'
    BY <1>6 DEF Start, FlagsOK
  <2>4. Held' /\ Owned'
    BY <1>6 DEF Start, Held, Owned, RingOK, FlagsOK, TaskOK
  <2> QED
    BY <2>1, <2>2, <2>3, <2>4
<1>7. CASE StopSustainTask
  <2>1. RingOK'
    BY <1>7 DEF StopSustainTask, RingOK, Ring, Torn
  <2>2. TaskOK'
    BY <1>7 DEF StopSustainTask, TaskOK
  <2>3. FlagsOK'
    BY <1>7 DEF StopSustainTask, FlagsOK
  <2>4. Held' /\ Owned'
    BY <1>7 DEF StopSustainTask, Held, Owned, RingOK, FlagsOK, TaskOK
  <2> QED
    BY <2>1, <2>2, <2>3, <2>4
<1>8. CASE StopForStream
  <2>1. RingOK'
    BY <1>8 DEF StopForStream, RingOK, Ring, Torn
  <2>2. TaskOK'
    BY <1>8 DEF StopForStream, TaskOK
  <2>3. FlagsOK'
    BY <1>8 DEF StopForStream, FlagsOK
  <2>4. Held' /\ Owned'
    BY <1>8 DEF StopForStream, Held, Owned, RingOK, FlagsOK, TaskOK
  <2> QED
    BY <2>1, <2>2, <2>3, <2>4
<1>9. CASE ToggleOverlay
  <2>1. RingOK'
    BY <1>9 DEF ToggleOverlay, RingOK, Ring, Torn
  <2>2. TaskOK'
    BY <1>9 DEF ToggleOverlay, TaskOK
  <2>3. FlagsOK'
    BY <1>9 DEF ToggleOverlay, FlagsOK
  <2>4. Held' /\ Owned'
    BY <1>9 DEF ToggleOverlay, Held, Owned, RingOK, FlagsOK, TaskOK
  <2> QED
    BY <2>1, <2>2, <2>3, <2>4
<1>10. CASE DrainBuffers
  <2>1. RingOK'
    BY <1>10 DEF DrainBuffers, RingOK, Ring, Torn
  <2>2. TaskOK'
    BY <1>10 DEF DrainBuffers, TaskOK
  <2>3. FlagsOK'
    BY <1>10 DEF DrainBuffers, FlagsOK
  <2>4. Held' /\ Owned'
    BY <1>10 DEF DrainBuffers, Held, Owned, RingOK, FlagsOK, TaskOK
  <2> QED
    BY <2>1, <2>2, <2>3, <2>4
<1>11. CASE DrainIndexes
  <2>1. RingOK'
    BY <1>11 DEF DrainIndexes, RingOK, Ring, Torn
  <2>2. TaskOK'
    BY <1>11 DEF DrainIndexes, TaskOK
  <2>3. FlagsOK'
    BY <1>11 DEF DrainIndexes, FlagsOK
  <2>4. Held' /\ Owned'
    BY <1>11 DEF DrainIndexes, Held, Owned, RingOK, FlagsOK, TaskOK
  <2> QED
    BY <2>1, <2>2, <2>3, <2>4
<1>12. CASE Loop
  <2>1. RingOK'
    BY <1>12 DEF Loop, RingOK, Ring, Torn
  <2>2. TaskOK'
    BY <1>12 DEF Loop, TaskOK
  <2>3. FlagsOK'
    BY <1>12 DEF Loop, FlagsOK
  <2>4. Held' /\ Owned'
    BY <1>12 DEF Loop, Held, Owned, RingOK, FlagsOK, TaskOK
  <2> QED
    BY <2>1, <2>2, <2>3, <2>4
<1>13. CASE TakeFrame
  <2>1. RingOK'
    BY <1>13 DEF TakeFrame, RingOK, Ring, Torn
  <2>2. TaskOK'
    BY <1>13 DEF TakeFrame, TaskOK
  <2>3. FlagsOK'
    BY <1>13 DEF TakeFrame, FlagsOK
  <2>4. Held' /\ Owned'
    BY <1>13 DEF TakeFrame, Held, Owned, RingOK, FlagsOK, TaskOK
  <2> QED
    BY <2>1, <2>2, <2>3, <2>4
<1>14. CASE TakeOverlay
  <2>1. RingOK'
    BY <1>14 DEF TakeOverlay, RingOK, Ring, Torn
  <2>2. TaskOK'
    BY <1>14 DEF TakeOverlay, TaskOK
  <2>3. FlagsOK'
    BY <1>14 DEF TakeOverlay, FlagsOK
  <2>4. Held' /\ Owned'
    BY <1>14 DEF TakeOverlay, Held, Owned, RingOK, FlagsOK, TaskOK
  <2> QED
    BY <2>1, <2>2, <2>3, <2>4
<1>15. CASE Timeout
  <2>1. RingOK'
    BY <1>15 DEF Timeout, RingOK, Ring, Torn
  <2>2. TaskOK'
    BY <1>15 DEF Timeout, TaskOK
  <2>3. FlagsOK'
    BY <1>15 DEF Timeout, FlagsOK
  <2>4. Held' /\ Owned'
    BY <1>15 DEF Timeout, Held, Owned, RingOK, FlagsOK, TaskOK
  <2> QED
    BY <2>1, <2>2, <2>3, <2>4
<1>16. CASE Sent
  <2>1. RingOK'
    <3>1. UNCHANGED <<strmBuf, strmWr, slot, seq>>
      BY <1>16 DEF Sent
    <3>2. CASE dbgMotion
      <4>1. UNCHANGED <<strmLen, strmRd>>
        BY <1>16, <3>2 DEF Sent
      <4> QED
        BY <3>1, <4>1 DEF RingOK
    <3>3. CASE ~dbgMotion
      <4>1. strmLen' = [strmLen EXCEPT ![strmRd] = FALSE] /\ strmRd' = (strmRd + 1) % Slots
        BY <1>16, <3>3 DEF Sent
      <4>2. (strmRd + 1) % Slots \in Ring
        BY DEF RingOK, Ring
      <4> QED
        BY <3>1, <4>1, <4>2 DEF RingOK
    <3> QED
      BY <3>2, <3>3
  <2>2. TaskOK'
    BY <1>16 DEF Sent, TaskOK
  <2>3. FlagsOK'
    BY <1>16 DEF Sent, FlagsOK
  <2>4. Held' /\ Owned'
    BY <1>16 DEF Sent, Held, Owned, RingOK, FlagsOK, TaskOK
  <2> QED
    BY <2>1, <2>2, <2>3, <2>4
<1>17. CASE Download
  <2>1. RingOK'
    BY <1>17 DEF Download, RingOK, Ring, Torn
  <2>2. TaskOK'
    BY <1>17 DEF Download, TaskOK
  <2>3. FlagsOK'
    BY <1>17 DEF Download, FlagsOK
  <2>4. Held' /\ Owned'
    BY <1>17 DEF Download, Held, Owned, RingOK, FlagsOK, TaskOK
  <2> QED
    BY <2>1, <2>2, <2>3, <2>4
<1>18. CASE Cancelled
  <2>1. RingOK'
    BY <1>18 DEF Cancelled, RingOK, Ring, Torn
  <2>2. TaskOK'
    BY <1>18 DEF Cancelled, TaskOK
  <2>3. FlagsOK'
    BY <1>18 DEF Cancelled, FlagsOK
  <2>4. Held' /\ Owned'
    BY <1>18 DEF Cancelled, Held, Owned, RingOK, FlagsOK, TaskOK
  <2> QED
    BY <2>1, <2>2, <2>3, <2>4
<1>19. CASE Downloaded
  <2>1. RingOK'
    BY <1>19 DEF Downloaded, RingOK, Ring, Torn
  <2>2. TaskOK'
    BY <1>19 DEF Downloaded, TaskOK
  <2>3. FlagsOK'
    BY <1>19 DEF Downloaded, FlagsOK
  <2>4. Held' /\ Owned'
    BY <1>19 DEF Downloaded, Held, Owned, RingOK, FlagsOK, TaskOK
  <2> QED
    BY <2>1, <2>2, <2>3, <2>4
<1>20. CASE End
  <2>1. RingOK'
    BY <1>20 DEF End, RingOK, Ring, Torn
  <2>2. TaskOK'
    BY <1>20 DEF End, TaskOK
  <2>3. FlagsOK'
    BY <1>20 DEF End, FlagsOK
  <2>4. Held' /\ Owned'
    BY <1>20 DEF End, Held, Owned, RingOK, FlagsOK, TaskOK
  <2> QED
    BY <2>1, <2>2, <2>3, <2>4
<1>21. CASE UNCHANGED vars
  BY <1>21 DEF vars, RingOK, TaskOK, FlagsOK, Held, Owned
<1> QED
  BY <1>1, <1>2, <1>3, <1>4, <1>5, <1>6, <1>7, <1>8, <1>9, <1>10, <1>11,
     <1>12, <1>13, <1>14, <1>15, <1>16, <1>17, <1>18, <1>19, <1>20, <1>21
     DEF Next, Capture, Sender, Worker

\* The ring's invariant, and with it every type, in every environment.
THEOREM StreamInvariant == Spec => []SafeInv
<1> QED
  BY InitSafe, NextSafe, PTL DEF Spec

\* Indexes stay in the ring, whatever interleaves.
THEOREM TypeCorrect == Spec => []TypeOK
<1>1. SafeInv => TypeOK
  BY DEF SafeInv
<1> QED
  BY <1>1, StreamInvariant, PTL

\* The capture task never writes to the buffer that is being sent, without a lock
\* and even while a new viewer resets the ring.
THEOREM SentStable == Spec => SentBufferStable
<1>1. SafeInv /\ [Next]_vars => [pc = "send" => strmBuf'[strmRd] = strmBuf[strmRd]]_vars
  <2> SUFFICES ASSUME SafeInv, [Next]_vars, pc = "send"
               PROVE  strmBuf'[strmRd] = strmBuf[strmRd]
    OBVIOUS
  <2> USE DEF SafeInv, TypeOK, RingOK, Ring, Held, ring, capture, request, overlay
  <2>1. CASE Offer
    BY <2>1 DEF Offer
  <2>2. CASE HandOver
    BY <2>2 DEF HandOver
  <2>3. CASE ~Offer /\ ~HandOver
    <3>1. strmBuf' = strmBuf
      BY <2>3 DEF Next, Capture, Sender, Worker, Signal, BuildOverlay, Claim, Start,
         StopSustainTask, StopForStream, ToggleOverlay, DrainBuffers, DrainIndexes, Loop,
         TakeFrame, TakeOverlay, Timeout, Sent, Download, Cancelled, Downloaded, End, vars
    <3> QED
      BY <3>1
  <2> QED
    BY <2>1, <2>2, <2>3
<1> QED
  BY <1>1, StreamInvariant, PTL DEF Spec, SentBufferStable

\* An overlay is built only when none is being sent.
THEOREM OverlayKept == Spec => []OverlayHeld
<1>1. SafeInv => OverlayHeld
  BY DEF SafeInv, Held, OverlayHeld
<1> QED
  BY <1>1, StreamInvariant, PTL

\* A download that finds itself cancelled was told to stop, whenever the stop
\* came.
THEOREM CancelOwn == Spec => []CancelIsForThis
<1>1. SafeInv => CancelIsForThis
  BY DEF SafeInv, Owned, CancelIsForThis
<1> QED
  BY <1>1, StreamInvariant, PTL

\* A slot that is taken has a request at work, and so a client: unless the request could not
\* be copied, which is the one way to a slot that nobody gives back.
THEOREM SlotHasClient == ASSUME CopyFails = FALSE PROVE Spec => []BusyIsClient
<1>1. Init => BusyIsClient
  BY DEF Init, BusyIsClient
<1>2. BusyIsClient /\ [Next]_vars => BusyIsClient'
  BY DEF BusyIsClient, Next, Capture, Sender, Worker, Offer, HandOver, Signal, BuildOverlay, Claim, Start,
     StopSustainTask, StopForStream, ToggleOverlay, DrainBuffers, DrainIndexes, Loop, TakeFrame,
     TakeOverlay, Timeout, Sent, Download, Cancelled, Downloaded, End, request, vars
<1> QED
  BY <1>1, <1>2, PTL DEF Spec

\* The remaining facts need a ring that nobody resets while a frame is offered,
\* and no overlay in place of the frames.
Quiet == ~OfferRaces /\ ~ShowMotion

\* A drain finds the capture task out of streamOfferFrame().
Drained ==
    /\ ~dbgMotion /\ pc \notin {"motion", "sendOverlay"}
    /\ pc = "drained" => activity = "stream"
    /\ Draining => offer = "idle"
    /\ pc = "drained" => \A s \in Ring : ~strmLen[s]

\* Where the producer goes on: its index, or the one after the buffer it has just
\* handed over.
NextSlot == IF offer = "handed" THEN (slot + 1) % Slots ELSE strmWr

\* The buffers that are handed over lie between the two indexes.
Aligned ==
    /\ offer # "idle" => slot = strmWr
    /\ pc # "drained" => IF NextSlot = strmRd
                         THEN \A s \in Ring : strmLen[s] <=> strmLen[strmRd]
                         ELSE strmLen[strmRd] /\ ~strmLen[NextSlot]

\* Without a token a buffer is free, is being sent or has a token to come.
Token ==
    ~frameSemaphore /\ pc # "send" =>
        offer = "handed" \/ \E s \in Ring : ~strmLen[s]

QuietInv == SafeInv /\ Drained /\ Aligned /\ Token

\* At the start the ring is empty and there is no signal.
LEMMA InitQuiet == Init => QuietInv
<1> SUFFICES ASSUME Init PROVE QuietInv
  OBVIOUS
<1>1. SafeInv
  BY InitSafe
<1>2. Drained
  BY DEF Init, Drained, Draining
<1>3. Aligned
  BY DEF Init, Aligned, NextSlot, Ring
<1>4. Token
  BY DEF Init, Token, Ring
<1> QED
  BY <1>1, <1>2, <1>3, <1>4 DEF QuietInv

\* A step of the capture task or of the sender keeps the ring in order.
LEMMA NextQuiet == ASSUME Quiet PROVE QuietInv /\ [Next]_vars => QuietInv'
<1> SUFFICES ASSUME QuietInv, [Next]_vars PROVE QuietInv'
  OBVIOUS
<1>0. SafeInv'
  BY NextSafe DEF QuietInv
<1> USE DEF QuietInv, Quiet, SafeInv, TypeOK, RingOK, TaskOK, Ring, Drained, Draining, Aligned,
       NextSlot, Token, Held, ring, capture, request, overlay
<1>1. CASE Offer
  <2>1. Drained'
    BY <1>1 DEF Offer
  <2>2. Aligned'
    BY <1>1 DEF Offer
  <2>3. Token'
    BY <1>1 DEF Offer
  <2> QED
    BY <1>0, <2>1, <2>2, <2>3
<1>2. CASE HandOver
  <2>1. Drained'
    BY <1>2 DEF HandOver
  <2>2. Aligned'
    <3>1. /\ offer = "copy" /\ slot = strmWr /\ ~strmLen[slot] /\ pc # "drained"
          /\ offer' = "handed" /\ slot' = slot /\ strmWr' = strmWr /\ strmRd' = strmRd
          /\ pc' = pc /\ strmLen' = [strmLen EXCEPT ![slot] = TRUE]
      BY <1>2 DEF HandOver
    <3>2. NextSlot = strmWr /\ NextSlot' = (slot + 1) % Slots
      BY <3>1
    <3>3. CASE Slots = 1
      <4>1. strmRd = 0 /\ NextSlot' = 0
        BY <3>2, <3>3
      <4>2. \A s \in Ring : s = 0
        BY <3>3
      <4> QED
        BY <3>1, <4>1, <4>2
    <3>4. CASE Slots = 2
      <4>1. /\ strmRd = 0 \/ strmRd = 1
            /\ (slot = 0 /\ NextSlot' = 1) \/ (slot = 1 /\ NextSlot' = 0)
        BY <3>2, <3>4
      <4>2. \A s \in Ring : s = 0 \/ s = 1
        BY <3>4
      <4>3. strmLen'[slot]
        BY <3>1
      <4>4. CASE slot = strmRd
        BY <3>1, <3>2, <4>1, <4>3, <4>4
      <4>5. CASE slot # strmRd
        BY <3>1, <3>2, <4>1, <4>2, <4>3, <4>5
      <4> QED
        BY <4>4, <4>5
    <3> QED
      BY <3>3, <3>4
  <2>3. Token'
    BY <1>2 DEF HandOver
  <2> QED
    BY <1>0, <2>1, <2>2, <2>3
<1>3. CASE Signal
  <2>1. Drained'
    BY <1>3 DEF Signal
  <2>2. Aligned'
    BY <1>3 DEF Signal
  <2>3. Token'
    BY <1>3 DEF Signal
  <2> QED
    BY <1>0, <2>1, <2>2, <2>3
<1>4. CASE BuildOverlay
  <2>1. Drained'
    BY <1>4 DEF BuildOverlay
  <2>2. Aligned'
    BY <1>4 DEF BuildOverlay
  <2>3. Token'
    BY <1>4 DEF BuildOverlay
  <2> QED
    BY <1>0, <2>1, <2>2, <2>3
<1>5. CASE Claim
  <2>1. Drained'
    BY <1>5 DEF Claim
  <2>2. Aligned'
    BY <1>5 DEF Claim
  <2>3. Token'
    BY <1>5 DEF Claim
  <2> QED
    BY <1>0, <2>1, <2>2, <2>3
<1>6. CASE Start
  <2>1. Drained'
    BY <1>6 DEF Start
  <2>2. Aligned'
    BY <1>6 DEF Start
  <2>3. Token'
    BY <1>6 DEF Start
  <2> QED
    BY <1>0, <2>1, <2>2, <2>3
<1>7. CASE StopSustainTask
  <2>1. Drained'
    BY <1>7 DEF StopSustainTask
  <2>2. Aligned'
    BY <1>7 DEF StopSustainTask
  <2>3. Token'
    BY <1>7 DEF StopSustainTask
  <2> QED
    BY <1>0, <2>1, <2>2, <2>3
<1>8. CASE StopForStream
  <2>1. Drained'
    BY <1>8 DEF StopForStream
  <2>2. Aligned'
    BY <1>8 DEF StopForStream
  <2>3. Token'
    BY <1>8 DEF StopForStream
  <2> QED
    BY <1>0, <2>1, <2>2, <2>3
<1>9. CASE ToggleOverlay
  <2>1. Drained'
    BY <1>9 DEF ToggleOverlay
  <2>2. Aligned'
    BY <1>9 DEF ToggleOverlay
  <2>3. Token'
    BY <1>9 DEF ToggleOverlay
  <2> QED
    BY <1>0, <2>1, <2>2, <2>3
<1>10. CASE DrainBuffers
  <2>1. Drained'
    BY <1>10 DEF DrainBuffers
  <2>2. Aligned'
    BY <1>10 DEF DrainBuffers
  <2>3. Token'
    BY <1>10 DEF DrainBuffers
  <2> QED
    BY <1>0, <2>1, <2>2, <2>3
<1>11. CASE DrainIndexes
  <2>1. Drained'
    BY <1>11 DEF DrainIndexes
  <2>2. Aligned'
    BY <1>11 DEF DrainIndexes
  <2>3. Token'
    BY <1>11 DEF DrainIndexes
  <2> QED
    BY <1>0, <2>1, <2>2, <2>3
<1>12. CASE Loop
  <2>1. Drained'
    BY <1>12 DEF Loop
  <2>2. Aligned'
    BY <1>12 DEF Loop
  <2>3. Token'
    BY <1>12 DEF Loop
  <2> QED
    BY <1>0, <2>1, <2>2, <2>3
<1>13. CASE TakeFrame
  <2>1. Drained'
    BY <1>13 DEF TakeFrame
  <2>2. Aligned'
    BY <1>13 DEF TakeFrame
  <2>3. Token'
    BY <1>13 DEF TakeFrame
  <2> QED
    BY <1>0, <2>1, <2>2, <2>3
<1>14. CASE TakeOverlay
  <2>1. Drained'
    BY <1>14 DEF TakeOverlay
  <2>2. Aligned'
    BY <1>14 DEF TakeOverlay
  <2>3. Token'
    BY <1>14 DEF TakeOverlay
  <2> QED
    BY <1>0, <2>1, <2>2, <2>3
<1>15. CASE Timeout
  <2>1. Drained'
    BY <1>15 DEF Timeout
  <2>2. Aligned'
    BY <1>15 DEF Timeout
  <2>3. Token'
    BY <1>15 DEF Timeout
  <2> QED
    BY <1>0, <2>1, <2>2, <2>3
<1>16. CASE Sent
  <2>1. Drained'
    BY <1>16 DEF Sent
  <2>2. Aligned'
    <3>1. /\ pc # "drained" /\ pc' = "head" /\ ~dbgMotion /\ pc = "send"
          /\ offer' = offer /\ slot' = slot /\ strmWr' = strmWr
          /\ strmLen' = [strmLen EXCEPT ![strmRd] = FALSE] /\ strmRd' = (strmRd + 1) % Slots
      BY <1>16 DEF Sent
    <3>2. NextSlot' = NextSlot /\ strmLen[strmRd]
      BY <3>1
    <3>3. CASE Slots = 1
      <4>1. strmRd' = 0 /\ NextSlot' = 0
        BY <3>1, <3>2, <3>3
      <4>2. \A s \in Ring : s = 0
        BY <3>3
      <4> QED
        BY <3>1, <4>1, <4>2
    <3>4. CASE Slots = 2
      <4>1. /\ (strmRd = 0 /\ strmRd' = 1) \/ (strmRd = 1 /\ strmRd' = 0)
            /\ NextSlot = 0 \/ NextSlot = 1
        BY <3>1, <3>4
      <4>2. \A s \in Ring : s = 0 \/ s = 1
        BY <3>4
      <4>4. CASE NextSlot = strmRd
        BY <3>1, <3>2, <4>1, <4>2, <4>4
      <4>5. CASE NextSlot # strmRd
        BY <3>1, <3>2, <4>1, <4>2, <4>5
      <4> QED
        BY <4>4, <4>5
    <3> QED
      BY <3>3, <3>4
  <2>3. Token'
    BY <1>16 DEF Sent
  <2> QED
    BY <1>0, <2>1, <2>2, <2>3
<1>17. CASE Download
  <2>1. Drained'
    BY <1>17 DEF Download
  <2>2. Aligned'
    BY <1>17 DEF Download
  <2>3. Token'
    BY <1>17 DEF Download
  <2> QED
    BY <1>0, <2>1, <2>2, <2>3
<1>18. CASE Cancelled
  <2>1. Drained'
    BY <1>18 DEF Cancelled
  <2>2. Aligned'
    BY <1>18 DEF Cancelled
  <2>3. Token'
    BY <1>18 DEF Cancelled
  <2> QED
    BY <1>0, <2>1, <2>2, <2>3
<1>19. CASE Downloaded
  <2>1. Drained'
    BY <1>19 DEF Downloaded
  <2>2. Aligned'
    BY <1>19 DEF Downloaded
  <2>3. Token'
    BY <1>19 DEF Downloaded
  <2> QED
    BY <1>0, <2>1, <2>2, <2>3
<1>20. CASE End
  <2>1. Drained'
    BY <1>20 DEF End
  <2>2. Aligned'
    BY <1>20 DEF End
  <2>3. Token'
    BY <1>20 DEF End
  <2> QED
    BY <1>0, <2>1, <2>2, <2>3
<1>21. CASE UNCHANGED vars
  BY <1>0, <1>21 DEF vars
<1> QED
  BY <1>1, <1>2, <1>3, <1>4, <1>5, <1>6, <1>7, <1>8, <1>9, <1>10, <1>11,
     <1>12, <1>13, <1>14, <1>15, <1>16, <1>17, <1>18, <1>19, <1>20, <1>21
     DEF Next, Capture, Sender, Worker

\* Without a reset that races an offer, and without the overlay, a frame is skipped
\* only while the sender is busy or about to be.
THEOREM SkippedWhenBusy == ASSUME Quiet PROVE Spec => []SkippedOnlyWhenBusy
<1>1. Init => QuietInv
  BY InitQuiet
<1>2. QuietInv /\ [Next]_vars => QuietInv'
  BY NextQuiet
<1>3. QuietInv => SkippedOnlyWhenBusy
  BY DEF QuietInv, SafeInv, TypeOK, RingOK, Ring, Aligned, NextSlot, Token, SkippedOnlyWhenBusy
<1> QED
  BY <1>1, <1>2, <1>3, PTL DEF Spec

\* The queue, spelled out for one buffer and for two.
LEMMA QueueShape ==
    /\ Slots = 1 => queue = IF strmLen[strmRd] THEN <<strmBuf[strmRd]>> ELSE <<>>
    /\ Slots = 2 => queue =
         IF strmLen[strmRd]
         THEN IF strmLen[1 - strmRd] THEN <<strmBuf[strmRd], strmBuf[1 - strmRd]>>
              ELSE <<strmBuf[strmRd]>>
         ELSE IF strmLen[1 - strmRd] THEN <<strmBuf[1 - strmRd]>> ELSE <<>>
  BY DEF queue

\* The same after a step.
LEMMA QueueShapeNext ==
    /\ Slots = 1 => queue' = IF strmLen'[strmRd'] THEN <<strmBuf'[strmRd']>> ELSE <<>>
    /\ Slots = 2 => queue' =
         IF strmLen'[strmRd']
         THEN IF strmLen'[1 - strmRd'] THEN <<strmBuf'[strmRd'], strmBuf'[1 - strmRd']>>
              ELSE <<strmBuf'[strmRd']>>
         ELSE IF strmLen'[1 - strmRd'] THEN <<strmBuf'[1 - strmRd']>> ELSE <<>>
  BY DEF queue

QueueNext == FrameHandoff!Accept \/ FrameHandoff!Release \/ FrameHandoff!Drain

\* A frame that is handed over joins the queue at its end.
LEMMA HandOverAccepts == ASSUME QuietInv, HandOver PROVE FrameHandoff!Accept
<1> USE DEF QuietInv, SafeInv, TypeOK, RingOK, Ring, Held, Drained, Draining, Aligned, NextSlot
<1>1. /\ offer = "copy" /\ slot = strmWr /\ ~strmLen[slot] /\ pc # "drained"
      /\ strmLen' = [strmLen EXCEPT ![slot] = TRUE] /\ strmBuf' = [strmBuf EXCEPT ![slot] = seq]
      /\ strmRd' = strmRd /\ seq' = (seq + 1) % Window
  BY DEF HandOver
<1>2. CASE Slots = 1
  <2>1. slot = 0
    BY <1>2
  <2>2. queue = <<>> /\ queue' = <<seq>>
    BY <1>1, <1>2, <2>1, QueueShape, QueueShapeNext
  <2> QED
    BY <1>1, <1>2, <2>2 DEF FrameHandoff!Accept
<1>3. CASE Slots = 2
  <2>1. (slot = 0 \/ slot = 1) /\ (strmRd = 0 \/ strmRd = 1)
    BY <1>3
  <2>2. CASE slot = strmRd
    <3>1. ~strmLen[1 - strmRd]
      BY <1>1, <1>3, <2>1, <2>2
    <3>2. queue = <<>> /\ queue' = <<seq>>
      BY <1>1, <1>3, <2>1, <2>2, <3>1, QueueShape, QueueShapeNext
    <3> QED
      BY <1>1, <1>3, <3>2 DEF FrameHandoff!Accept
  <2>3. CASE slot # strmRd
    <3>1. slot = 1 - strmRd /\ strmLen[strmRd]
      BY <1>1, <1>3, <2>1, <2>3
    <3>2. queue = <<strmBuf[strmRd]>> /\ queue' = <<strmBuf[strmRd], seq>>
      BY <1>1, <1>3, <2>1, <3>1, QueueShape, QueueShapeNext
    <3> QED
      BY <1>1, <1>3, <3>2 DEF FrameHandoff!Accept
  <2> QED
    BY <2>2, <2>3
<1> QED
  BY <1>2, <1>3

\* A buffer that has been sent leaves it at its head.
LEMMA SentReleases == ASSUME QuietInv, Sent PROVE FrameHandoff!Release
<1> USE DEF QuietInv, SafeInv, TypeOK, RingOK, Ring, Held, Drained, Aligned, NextSlot
<1>1. /\ ~dbgMotion /\ pc = "send" /\ strmLen[strmRd]
      /\ strmLen' = [strmLen EXCEPT ![strmRd] = FALSE] /\ strmRd' = (strmRd + 1) % Slots
      /\ strmBuf' = strmBuf /\ seq' = seq
  BY DEF Sent, capture
<1>2. CASE Slots = 1
  <2>1. strmRd = 0 /\ strmRd' = 0
    BY <1>1, <1>2
  <2>2. queue = <<strmBuf[0]>> /\ queue' = <<>>
    BY <1>1, <1>2, <2>1, QueueShape, QueueShapeNext
  <2> QED
    BY <1>1, <2>2 DEF FrameHandoff!Release
<1>3. CASE Slots = 2
  <2>1. (strmRd = 0 /\ strmRd' = 1) \/ (strmRd = 1 /\ strmRd' = 0)
    BY <1>1, <1>3
  <2>2. strmRd' = 1 - strmRd /\ 1 - strmRd' = strmRd /\ strmRd' \in Ring /\ strmRd' # strmRd
    BY <1>3, <2>1
  <2>3. CASE strmLen[1 - strmRd]
    <3>1. queue = <<strmBuf[strmRd], strmBuf[1 - strmRd]>> /\ queue' = <<strmBuf[1 - strmRd]>>
      BY <1>1, <1>3, <2>2, <2>3, QueueShape, QueueShapeNext
    <3> QED
      BY <1>1, <3>1 DEF FrameHandoff!Release
  <2>4. CASE ~strmLen[1 - strmRd]
    <3>1. queue = <<strmBuf[strmRd]>> /\ queue' = <<>>
      BY <1>1, <1>3, <2>2, <2>4, QueueShape, QueueShapeNext
    <3> QED
      BY <1>1, <3>1 DEF FrameHandoff!Release
  <2> QED
    BY <2>3, <2>4
<1> QED
  BY <1>2, <1>3

\* Every other step leaves the queue alone, but for the drain.
LEMMA StepRefines ==
    ASSUME Quiet, QuietInv, [Next]_vars PROVE [QueueNext]_<<queue, seq>>
<1>1. CASE HandOver
  BY <1>1, HandOverAccepts DEF QueueNext
<1>2. CASE Sent
  BY <1>2, SentReleases DEF QueueNext
<1> USE DEF QuietInv, SafeInv, TypeOK, RingOK, Ring, Held, Drained, Aligned, NextSlot
<1>3. CASE DrainBuffers
  <2>1. strmLen' = [s \in Ring |-> FALSE] /\ strmRd' = strmRd /\ seq' = seq
    BY <1>3 DEF DrainBuffers, capture
  <2>2. queue' = <<>>
    <3>1. CASE Slots = 1
      BY <2>1, <3>1, QueueShapeNext
    <3>2. CASE Slots = 2
      <4>1. strmRd \in Ring /\ 1 - strmRd \in Ring
        BY <3>2
      <4> QED
        BY <2>1, <3>2, <4>1, QueueShapeNext
    <3> QED
      BY <3>1, <3>2
  <2> QED
    BY <2>1, <2>2 DEF QueueNext, FrameHandoff!Drain
<1>4. CASE DrainIndexes
  <2>1. /\ \A s \in Ring : ~strmLen[s]
        /\ strmLen' = strmLen /\ strmRd' = 0 /\ seq' = seq
    BY <1>4 DEF DrainIndexes, capture
  <2>2. queue = <<>> /\ queue' = <<>>
    <3>1. CASE Slots = 1
      BY <2>1, <3>1, QueueShape, QueueShapeNext
    <3>2. CASE Slots = 2
      <4>1. {strmRd, 1 - strmRd, 0, 1} \subseteq Ring
        BY <3>2
      <4> QED
        BY <2>1, <3>2, <4>1, QueueShape, QueueShapeNext
    <3> QED
      BY <3>1, <3>2
  <2> QED
    BY <2>1, <2>2
<1>5. CASE Offer
  <2>1. /\ ~strmLen[strmWr] /\ strmBuf' = [strmBuf EXCEPT ![strmWr] = Torn]
        /\ strmLen' = strmLen /\ strmRd' = strmRd /\ seq' = seq
    BY <1>5 DEF Offer
  <2>2. \A s \in Ring : strmLen[s] => strmBuf'[s] = strmBuf[s]
    BY <2>1
  <2>3. queue' = queue
    <3>1. CASE Slots = 1
      BY <2>1, <2>2, <3>1, QueueShape, QueueShapeNext
    <3>2. CASE Slots = 2
      <4>1. strmRd \in Ring /\ 1 - strmRd \in Ring
        BY <3>2
      <4> QED
        BY <2>1, <2>2, <3>2, <4>1, QueueShape, QueueShapeNext
    <3> QED
      BY <3>1, <3>2
  <2> QED
    BY <2>1, <2>3
<1>6. CASE ~HandOver /\ ~Sent /\ ~DrainBuffers /\ ~DrainIndexes /\ ~Offer
  <2>1. UNCHANGED <<strmLen, strmBuf, strmRd, seq>>
    BY <1>6 DEF Next, Capture, Sender, Worker, Signal, BuildOverlay, Claim, Start,
       StopSustainTask, StopForStream, ToggleOverlay, Loop, TakeFrame, TakeOverlay, Timeout,
       Download, Cancelled, Downloaded, End, vars, ring, capture
  <2>2. queue' = queue
    BY <2>1 DEF queue
  <2> QED
    BY <2>1, <2>2
<1> QED
  BY <1>1, <1>2, <1>3, <1>4, <1>5, <1>6

\* Without a reset that races an offer, and without the overlay, the ring and its
\* semaphore are a queue of whole frames in the order they came.
THEOREM QueueImplemented == ASSUME Quiet PROVE Spec => ImplementsFrameQueue
<1>1. Init => FrameHandoff!Init
  <2> SUFFICES ASSUME Init PROVE queue = <<>> /\ seq = 0
    BY DEF FrameHandoff!Init
  <2>1. strmLen = [s \in Ring |-> FALSE] /\ strmRd = 0 /\ seq = 0
    BY DEF Init
  <2>2. CASE Slots = 1
    BY <2>1, <2>2, QueueShape DEF Ring
  <2>3. CASE Slots = 2
    BY <2>1, <2>3, QueueShape DEF Ring
  <2> QED
    BY <2>1, <2>2, <2>3
<1>2. QuietInv /\ [Next]_vars => [QueueNext]_<<queue, seq>>
  BY StepRefines
<1> QED
  BY <1>1, <1>2, InitQuiet, NextQuiet, PTL
     DEF Spec, ImplementsFrameQueue, FrameHandoff!Spec, QueueNext
=============================================================================
