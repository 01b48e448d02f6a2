---------------------------- MODULE AidesProofs ----------------------------
(* Theorems about the aides of a recording, AudioChunks and LogPool, for     *)
(* every size of their buffers and any number of clips and of lines: the     *)
(* sound of a clip is whole, no log buffer is ever lost, and what the        *)
(* capture task logged before it pushes the file to a failing card is on the *)
(* card.  About MotionGate, for every grid and mask: a motion it reports has *)
(* been earned by movements.  About the card the recording lands on,         *)
(* CardStorage, for any number of days and recordings: an upload deletes     *)
(* only what it has sent, and a recording that is closed lands.  And about   *)
(* the settings, ConfigStore, for any number of changes and boots and any    *)
(* builds: a lookup finds every one, and a boot what the last save left.     *)
EXTENDS AudioChunks, LogPool, MotionGate, CardStorage, ConfigStore,
        FiniteSetTheorems, SequenceTheorems, TLAPS

Sample == Nat \X Nat

AudioTyped ==
    /\ micRecording \in BOOLEAN /\ audioDropped \in Nat /\ clipNo \in Nat
    /\ audioActive \in Halves /\ handed \in Halves
    /\ audioChunk \in [Halves -> Seq(Sample)]
    /\ heard \in Seq(Sample) /\ written \in Seq(Sample)
    /\ micStep \in {"read", "loaded", "checked", "accepted", "copy"}
    /\ clipSound \in {"closed", "open", "writing", "finished", "last"}

\* The half that is written out is the one the audio task does not fill.
HandedIsOther == clipSound \in {"writing", "last"} => handed = Other(audioActive)

\* The audio task fills only between the opening of a clip and its end.
FillsWhileOpen ==
    /\ micRecording => clipSound \in {"open", "writing"}
    /\ micStep = "checked" => micRecording

\* The last chunk takes everything: the next clip starts on an empty half.
DrainedWhenClosed == clipSound \in {"closed", "last"} => audioChunk[audioActive] = << >>

SoundInv == AudioTyped /\ HandedIsOther /\ FillsWhileOpen /\ DrainedWhenClosed /\ SoundWhole

\* There are two halves: the other one of a half is a half, and not the same.
LEMMA OtherHalf == \A h \in Halves : Other(h) \in Halves /\ Other(h) # h /\ Other(Other(h)) = h
  BY DEF Halves, Other

\* A sample appended behind what is pending is appended behind everything.
LEMMA AppendPending ==
    ASSUME NEW w \in Seq(Sample), NEW p \in Seq(Sample), NEW s \in Sample
    PROVE  w \o Append(p, s) = Append(w \o p, s)
<1>1. Append(p, s) = p \o << s >> /\ w \o p \in Seq(Sample)
  BY AppendIsConcat, ConcatProperties
<1>2. << s >> \in Seq(Sample)
  OBVIOUS
<1>3. w \o (p \o << s >>) = (w \o p) \o << s >>
  BY <1>2, ConcatAssociative
<1> QED
  BY <1>1, <1>3, AppendIsConcat

\* What was written, what is being written and what is filled, in this order.
LEMMA WrittenPending ==
    ASSUME NEW w \in Seq(Sample), NEW p \in Seq(Sample), NEW q \in Seq(Sample)
    PROVE  (w \o p) \o q = w \o (p \o q)
  BY ConcatAssociative

\* Nothing has been heard or kept at the start.
LEMMA SoundInit == AudioInit => SoundInv
<1> SUFFICES ASSUME AudioInit PROVE SoundInv
  OBVIOUS
<1>1. << >> \in Seq(Sample)
  OBVIOUS
<1>2. AudioTyped
  BY <1>1 DEF AudioInit, AudioTyped, Halves
<1> QED
  BY <1>2 DEF AudioInit, SoundInv, HandedIsOther, FillsWhileOpen, DrainedWhenClosed, SoundWhole, Halves

\* Every step of audio task and capture task keeps the order of what is kept, when no recording begins in a copy.
LEMMA SoundStep ==
    ASSUME "pastCheck" \notin AudioRaces, SoundInv, [AudioNext]_audioVars
    PROVE  SoundInv'
<1> USE DEF SoundInv
<1>0. ASSUME UNCHANGED <<micRecording, audioActive, audioChunk, audioDropped, clip, micStep>>
      PROVE  SoundInv'
  BY <1>0 DEF clip, AudioTyped, HandedIsOther, FillsWhileOpen, DrainedWhenClosed, SoundWhole, Pending
<1>1. CASE SetGain \/ AudioStream
  BY <1>0, <1>1 DEF SetGain, AudioStream, StartListening, UpdateWavHeader, SendSound, SoundSent,
                    StopListening, recorder
<1>2. CASE ReadMic \/ CheckRecording \/ Share \/ CopyToStream
  <2>1. /\ UNCHANGED <<micRecording, audioActive, audioChunk, audioDropped, clip>>
        /\ micStep' \in {"read", "loaded", "checked", "accepted", "copy"}
        /\ micStep' = "checked" => micRecording
    BY <1>2 DEF ReadMic, CheckRecording, Share, CopyToStream, recorder
  <2> QED
    BY <2>1 DEF clip, AudioTyped, HandedIsOther, FillsWhileOpen, DrainedWhenClosed, SoundWhole, Pending
<1>3. CASE Append1
  <2> DEFINE a == audioActive
             s == <<clipNo, Len(heard)>>
  <2>1. /\ micStep = "checked" /\ micStep' = "accepted" /\ micRecording /\ clipSound \in {"open", "writing"}
        /\ UNCHANGED <<micRecording, audioActive, clipSound, handed, clipNo, written>>
    BY <1>3 DEF Append1, FillsWhileOpen
  <2>2. CASE ~HasRoom
    <3>1. audioDropped' \in Nat /\ UNCHANGED <<audioChunk, heard>>
      BY <1>3, <2>2 DEF Append1, AudioTyped
    <3> QED
      BY <2>1, <3>1 DEF AudioTyped, HandedIsOther, FillsWhileOpen, DrainedWhenClosed, SoundWhole, Pending
  <2>3. CASE HasRoom
    <3>1. /\ audioChunk' = [audioChunk EXCEPT ![a] = Append(@, s)]
          /\ heard' = Append(heard, s) /\ audioDropped' = audioDropped
      BY <1>3, <2>1, <2>3 DEF Append1
    <3>2. s \in Sample /\ a \in Halves /\ audioChunk[a] \in Seq(Sample)
      BY DEF AudioTyped, Sample
    <3> HIDE DEF s
    <3>3. audioChunk' \in [Halves -> Seq(Sample)] /\ heard' \in Seq(Sample)
      BY <3>1, <3>2 DEF AudioTyped
    <3>4. audioChunk'[a] = Append(audioChunk[a], s) /\ \A h \in Halves \ {a} : audioChunk'[h] = audioChunk[h]
      BY <3>1, <3>2 DEF AudioTyped
    <3>5. Pending \in Seq(Sample) /\ Pending' = Append(Pending, s)
      <4>1. CASE clipSound = "open"
        BY <2>1, <3>2, <3>4, <4>1 DEF Pending
      <4>2. CASE clipSound = "writing"
        <5>1. handed \in Halves \ {a} /\ audioChunk[handed] \in Seq(Sample)
          BY <4>2, OtherHalf DEF HandedIsOther, AudioTyped
        <5>2. audioChunk[handed] \o Append(audioChunk[a], s) = Append(audioChunk[handed] \o audioChunk[a], s)
          BY <3>2, <5>1, AppendPending
        <5> QED
          BY <2>1, <3>2, <3>4, <4>2, <5>1, <5>2, ConcatProperties DEF Pending
      <4> QED
        BY <2>1, <4>1, <4>2
    <3>6. written \o Pending' = heard'
      <4>1. written \in Seq(Sample) /\ written' = written /\ written \o Pending = heard
        BY <2>1 DEF SoundWhole, AudioTyped
      <4>2. written \o Append(Pending, s) = Append(written \o Pending, s)
        BY <3>2, <3>5, <4>1, AppendPending
      <4> QED
        BY <3>1, <3>5, <4>1, <4>2
    <3>7. AudioTyped'
      BY <2>1, <3>1, <3>3 DEF AudioTyped
    <3> QED
      BY <2>1, <3>6, <3>7 DEF HandedIsOther, FillsWhileOpen, DrainedWhenClosed, SoundWhole
  <2> QED
    BY <2>2, <2>3
<1>4. CASE StartAudioRecord
  <2>1. /\ clipSound = "closed" /\ clipSound' = "open" /\ heard' = << >> /\ written' = << >>
        /\ clipNo' = clipNo + 1 /\ UNCHANGED <<audioActive, micStep, handed>>
    BY <1>4 DEF StartAudioRecord
  <2>2. micStep # "checked" /\ audioChunk[audioActive] = << >> /\ audioActive \in Halves
    BY <2>1 DEF FillsWhileOpen, DrainedWhenClosed, AudioTyped
  <2>3. /\ micRecording' \in BOOLEAN /\ audioDropped' \in Nat
        /\ audioChunk' \in [Halves -> Seq(Sample)] /\ audioChunk'[audioActive] = << >>
    <3>1. CASE micGain # 0
      <4>1. audioChunk' = [h \in Halves |-> << >>] /\ audioDropped' = 0 /\ micRecording' = TRUE
        BY <1>4, <3>1 DEF StartAudioRecord
      <4>2. << >> \in Seq(Sample)
        OBVIOUS
      <4> QED
        BY <2>2, <4>1, <4>2
    <3>2. CASE micGain = 0
      BY <1>4, <2>2, <3>2 DEF StartAudioRecord, AudioTyped
    <3> QED
      BY <3>1, <3>2
  <2>4. << >> \in Seq(Sample) /\ << >> \o << >> = << >>
    OBVIOUS
  <2>5. AudioTyped'
    BY <2>1, <2>3, <2>4 DEF AudioTyped
  <2> QED
    BY <2>1, <2>2, <2>3, <2>4, <2>5 DEF HandedIsOther, FillsWhileOpen, DrainedWhenClosed, SoundWhole, Pending
<1>5. ASSUME NEW n \in Nat, GetAudioChunk(n), clipSound \in {"open", "finished"},
             clipSound' = (IF clipSound = "open" THEN "writing" ELSE "last"),
             UNCHANGED <<micRecording, audioDropped, micStep, clipNo, heard, written>>
      PROVE  SoundInv'
  <2> DEFINE a == audioActive
  <2>1. /\ audioActive' = Other(a) /\ handed' = a
        /\ audioChunk' = [audioChunk EXCEPT ![Other(a)] = << >>]
    BY <1>5 DEF GetAudioChunk
  <2>2. a \in Halves /\ Other(a) \in Halves /\ Other(a) # a /\ Other(Other(a)) = a
    BY OtherHalf DEF AudioTyped
  <2>3. /\ audioChunk'[Other(a)] = << >> /\ audioChunk'[a] = audioChunk[a]
        /\ audioChunk[a] \in Seq(Sample) /\ << >> \in Seq(Sample)
    BY <2>1, <2>2 DEF AudioTyped
  <2>4. AudioTyped'
    BY <1>5, <2>1, <2>2, <2>3 DEF AudioTyped
  <2>5. Pending' = audioChunk[a] /\ Pending = audioChunk[a]
    BY <1>5, <2>1, <2>3, ConcatEmptySeq DEF Pending
  <2> QED
    BY <1>5, <2>1, <2>2, <2>3, <2>4, <2>5
       DEF HandedIsOther, FillsWhileOpen, DrainedWhenClosed, SoundWhole
<1>6. CASE TakeChunk
  BY <1>5, <1>6, AudioConstants DEF TakeChunk
<1>7. CASE WriteAudioChunk
  <2> DEFINE a == audioActive
  <2>1. /\ clipSound \in {"writing", "last"} /\ written' = written \o audioChunk[handed]
        /\ clipSound' = (IF clipSound = "writing" THEN "open" ELSE "closed")
        /\ UNCHANGED <<recorder, micStep, handed, clipNo, heard>>
    BY <1>7 DEF WriteAudioChunk
  <2>2. /\ audioChunk[handed] \in Seq(Sample) /\ audioChunk[a] \in Seq(Sample)
        /\ written \in Seq(Sample) /\ written' \in Seq(Sample)
    BY <2>1, ConcatProperties DEF AudioTyped
  <2>3. written' \o audioChunk[a] = heard
    <3>1. (written \o audioChunk[handed]) \o audioChunk[a] = written \o (audioChunk[handed] \o audioChunk[a])
      BY <2>2, WrittenPending
    <3>2. written \o (audioChunk[handed] \o audioChunk[a]) = heard
      BY <2>1 DEF SoundWhole, Pending
    <3> QED
      BY <2>1, <3>1, <3>2
  <2>4. clipSound' = "closed" => written' = heard
    BY <2>1, <2>2, <2>3, ConcatEmptySeq DEF DrainedWhenClosed
  <2>5. AudioTyped'
    BY <2>1, <2>2 DEF AudioTyped, recorder
  <2> QED
    BY <2>1, <2>3, <2>4, <2>5
       DEF recorder, HandedIsOther, FillsWhileOpen, DrainedWhenClosed, SoundWhole, Pending
<1>8. CASE FinishAudioRecord
  BY <1>8 DEF FinishAudioRecord, AudioTyped, HandedIsOther, FillsWhileOpen, DrainedWhenClosed,
              SoundWhole, Pending
<1>9. CASE DrainLast
  <2>1. /\ clipSound = "finished"
        /\ UNCHANGED <<micRecording, audioDropped, micStep, clipNo, heard, written>>
    BY <1>9 DEF DrainLast
  <2>2. CASE audioChunk[audioActive] = << >>
    <3>1. clipSound' = "closed" /\ UNCHANGED <<audioActive, audioChunk, handed>>
      BY <1>9, <2>2 DEF DrainLast
    <3>2. written = heard
      BY <2>1, <2>2, ConcatEmptySeq DEF SoundWhole, Pending, AudioTyped
    <3> QED
      BY <2>1, <2>2, <3>1, <3>2 DEF AudioTyped, HandedIsOther, FillsWhileOpen, DrainedWhenClosed, SoundWhole
  <2>3. CASE audioChunk[audioActive] # << >>
    BY <1>5, <1>9, <2>1, <2>3 DEF DrainLast
  <2> QED
    BY <2>2, <2>3
<1>10. CASE UNCHANGED audioVars
  BY <1>0, <1>10 DEF audioVars, recorder
<1> QED
  BY <1>1, <1>2, <1>3, <1>4, <1>6, <1>7, <1>8, <1>9, <1>10 DEF AudioNext, AudioTask, ClipAudio

\* Every sample the audio task accepts while a clip is recorded is in that clip,
\* once and in order, and no sample of another clip is: camActions() against
\* getAudioChunk(), the end of the recording and the next startAudioRecord() -
\* provided the clip is not ended between the audio task's test of micRecording
\* and its mutex ("pastCheck").
THEOREM SoundIsWhole ==
    ASSUME "pastCheck" \notin AudioRaces
    PROVE  AudioSpec => []SoundWhole
<1>1. SoundInv /\ [AudioNext]_audioVars => SoundInv'
  BY SoundStep
<1>2. SoundInv => SoundWhole
  BY DEF SoundInv
<1> QED
  BY <1>1, <1>2, SoundInit, PTL DEF AudioSpec
\* The sender and the audio task take turns at the stream's buffer, by its mark: the one
\* copies to it only when nothing waits there, the other sends only what does, first of all
\* the header.
TakesTurns ==
    /\ listener \in {"starting", "sending"} => micStep # "copy" /\ audioBytes # "none"
    /\ listener = "waiting" /\ micStep = "copy" => audioBytes = "none"
    /\ listener = "starting" => ~headed /\ audioBytes = "wav"
    /\ listener = "waiting" /\ ~headed => audioBytes = "wav" /\ audioBuffer = "wav"

\* Every step of audio task and sender keeps their turns.
LEMMA TurnStep ==
    ASSUME "startInCopy" \notin AudioRaces, TakesTurns, [AudioNext]_audioVars
    PROVE  TakesTurns'
<1> USE DEF TakesTurns
<1>1. CASE SetGain \/ ClipAudio \/ UNCHANGED audioVars
  BY <1>1 DEF SetGain, ClipAudio, StartAudioRecord, TakeChunk, WriteAudioChunk, FinishAudioRecord, DrainLast,
     stream, audioVars
<1>2. CASE AudioTask
  BY <1>2 DEF AudioTask, ReadMic, CheckRecording, Append1, Share, CopyToStream, stream
<1>3. CASE AudioStream
  BY <1>3 DEF AudioStream, StartListening, UpdateWavHeader, SendSound, SoundSent, StopListening
<1> QED
  BY <1>1, <1>2, <1>3 DEF AudioNext

\* Nothing changes what is being sent, and a stream begins with its header: audioStream()
\* against camActions(), without a lock - if no stream starts while the audio task copies.
THEOREM StreamStartsWhole ==
    ASSUME "startInCopy" \notin AudioRaces
    PROVE  AudioSpec => StreamWhole
<1>1. AudioInit => TakesTurns
  BY DEF AudioInit, TakesTurns
<1>2. TakesTurns /\ [AudioNext]_audioVars => TakesTurns'
  BY TurnStep
<1>3. TakesTurns /\ [AudioNext]_audioVars =>
        [ /\ (listener = "sending" /\ listener' = "sending") => UNCHANGED audioBuffer
          /\ (listener = "waiting" /\ listener' = "sending" /\ ~headed) => audioBuffer = "wav" ]_audioVars
  BY DEF TakesTurns, AudioNext, SetGain, ClipAudio, StartAudioRecord, TakeChunk, WriteAudioChunk,
     FinishAudioRecord, DrainLast, stream, audioVars, AudioTask, ReadMic, CheckRecording, Append1, Share,
     CopyToStream, AudioStream, StartListening, UpdateWavHeader, SendSound, SoundSent, StopListening
<1> QED
  BY <1>1, <1>2, <1>3, PTL DEF AudioSpec, StreamWhole
-----------------------------------------------------------------------------

Line == [no : Nat, kind : Kinds \cup {"none"}]
Steps == {"wait", "echo", "store", "write", "sync", "return"}

\* Who holds a buffer, as a number.
Holds(t) == IF filling[t] # NoLine THEN 1 ELSE 0

\* The invariant under PoolWhole: the pool is counted, not only typed.
PoolTyped ==
    /\ logFreePool \in Nat
    /\ logQueue \in Seq(Line)
    /\ filling \in [Callers -> Line]
    /\ filling["capture"] # NoLine => filling["capture"].no # 0
    /\ logStep \in Steps /\ msg \in Line
    /\ lines \in Nat

Counted == logFreePool + Holds("capture") + Holds("web") + Len(logQueue) + InHand = LOG_BUF_COUNT

PoolInv == PoolTyped /\ Counted

\* The two callers are all that Filled counts.
LEMMA FilledIsHolds == Filled = Holds("capture") + Holds("web")
<1> DEFINE F == {t \in Callers : filling[t] # NoLine}
<1>1. CASE filling["capture"] = NoLine /\ filling["web"] = NoLine
  <2>1. F = {}
    BY <1>1 DEF Callers
  <2> QED
    BY <1>1, <2>1, FS_EmptySet DEF Filled, Holds
<1>2. CASE filling["capture"] # NoLine /\ filling["web"] = NoLine
  <2>1. F = {"capture"}
    BY <1>2 DEF Callers
  <2> QED
    BY <1>2, <2>1, FS_Singleton DEF Filled, Holds
<1>3. CASE filling["capture"] = NoLine /\ filling["web"] # NoLine
  <2>1. F = {"web"}
    BY <1>3 DEF Callers
  <2> QED
    BY <1>3, <2>1, FS_Singleton DEF Filled, Holds
<1>4. CASE filling["capture"] # NoLine /\ filling["web"] # NoLine
  <2>1. F = {"capture"} \cup {"web"} /\ "web" \notin {"capture"}
    BY <1>4 DEF Callers
  <2>2. IsFiniteSet({"capture"}) /\ Cardinality({"capture"}) = 1
    BY FS_Singleton
  <2>3. Cardinality(F) = 2
    BY <2>1, <2>2, FS_AddElement
  <2> QED
    BY <1>4, <2>3 DEF Filled, Holds
<1> QED
  BY <1>1, <1>2, <1>3, <1>4

\* At the start every buffer is in the pool.
LEMMA PoolInit == LogInit => PoolInv
  BY LogConstants DEF LogInit, PoolInv, PoolTyped, Counted, Holds, InHand, NoLine, Line, Steps, Callers

\* Asking for a buffer moves one from the pool to the caller, or nothing.
LEMMA TakeKeepsCount ==
    ASSUME NEW t \in Callers, NEW line \in Line, PoolInv, filling[t] = NoLine, line.kind # "none",
           t = "capture" => line.no # 0,
           TakeBuffer(t, line),
           UNCHANGED <<logQueue, logStep, msg>>, lines' \in Nat
    PROVE  PoolInv'
<1>1. CASE logFreePool > 0
  <2>1. logFreePool' = logFreePool - 1 /\ filling' = [filling EXCEPT ![t] = line]
    BY <1>1 DEF TakeBuffer
  <2>2. PoolTyped'
    BY <1>1, <2>1 DEF PoolInv, PoolTyped, Callers
  <2>3. line # NoLine
    BY DEF NoLine
  <2>4. Counted'
    BY <1>1, <2>1, <2>3 DEF PoolInv, PoolTyped, Counted, Holds, InHand, Callers
  <2> QED
    BY <2>2, <2>4 DEF PoolInv
<1>2. CASE ~(logFreePool > 0)
  BY <1>2 DEF TakeBuffer, PoolInv, PoolTyped, Counted, Holds, InHand
<1> QED
  BY <1>1, <1>2

\* Queueing the buffer a caller holds moves it from its hand to the queue.
LEMMA QueueKeepsCount ==
    ASSUME NEW t \in Callers, PoolInv, QueueLine(t)
    PROVE  PoolInv'
<1>1. filling[t] # NoLine /\ filling' = [filling EXCEPT ![t] = NoLine] /\ filling[t] \in Line
      /\ UNCHANGED <<logStep, msg, lines>>
  BY DEF QueueLine, PoolInv, PoolTyped
<1>2. NoLine \in Line
  BY DEF NoLine, Line
<1>3. Holds(t) = 1 /\ Holds(t)' = 0 /\ \A u \in Callers \ {t} : Holds(u)' = Holds(u)
  BY <1>1 DEF Holds, PoolInv, PoolTyped, Callers
<1>4. CASE Len(logQueue) < LOG_BUF_COUNT
  <2>1. logQueue' = Append(logQueue, filling[t]) /\ logFreePool' = logFreePool
    BY <1>4 DEF QueueLine
  <2>2. PoolTyped'
    BY <1>1, <1>2, <2>1 DEF PoolInv, PoolTyped, Callers
  <2>3. Len(logQueue') = Len(logQueue) + 1 /\ Len(logQueue) \in Nat
    BY <1>1, <2>1 DEF PoolInv, PoolTyped
  <2>4. Counted'
    BY <1>1, <1>3, <2>1, <2>3 DEF PoolInv, PoolTyped, Counted, Holds, InHand, Callers
  <2> QED
    BY <2>2, <2>4 DEF PoolInv
<1>5. CASE ~(Len(logQueue) < LOG_BUF_COUNT)
  <2>1. logQueue' = logQueue /\ logFreePool' = logFreePool + 1
    BY <1>5 DEF QueueLine
  <2>2. PoolTyped'
    BY <1>1, <1>2, <2>1 DEF PoolInv, PoolTyped, Callers
  <2>3. Len(logQueue) \in Nat
    BY DEF PoolInv, PoolTyped
  <2>4. Counted'
    BY <1>1, <1>3, <2>1, <2>3 DEF PoolInv, PoolTyped, Counted, Holds, InHand, Callers
  <2> QED
    BY <2>2, <2>4 DEF PoolInv
<1> QED
  BY <1>4, <1>5

\* No step of any task loses a buffer or makes one.
LEMMA PoolStep == PoolInv /\ [LogNext]_logVars => PoolInv'
<1> SUFFICES ASSUME PoolInv, [LogNext]_logVars
             PROVE  PoolInv'
  OBVIOUS
<1>0. ASSUME UNCHANGED <<pool, lines>>
      PROVE  PoolInv'
  BY <1>0 DEF PoolInv, PoolTyped, Counted, Holds, InHand, pool
<1>1. CASE CaptureLogs
  <2>1. PICK k \in Kinds : TakeBuffer("capture", [no |-> lines + 1, kind |-> k])
    BY <1>1 DEF CaptureLogs
  <2> DEFINE line == [no |-> lines + 1, kind |-> k]
  <2>2. line \in Line /\ line.kind # "none" /\ line.no # 0 /\ "capture" \in Callers
    BY DEF PoolInv, PoolTyped, Line, Kinds, Callers
  <2>3. /\ filling["capture"] = NoLine /\ lines' \in Nat
        /\ UNCHANGED <<logQueue, logStep, msg>>
    BY <1>1 DEF CaptureLogs, PoolInv, PoolTyped
  <2> QED
    BY <2>1, <2>2, <2>3, TakeKeepsCount
<1>2. CASE \E t \in Callers : QueueLine(t)
  BY <1>2, QueueKeepsCount
<1>3. CASE ReceiveLine
  <2>1. /\ logStep = "wait" /\ logQueue # << >> /\ logStep' = "echo"
        /\ msg' = Head(logQueue) /\ logQueue' = Tail(logQueue)
        /\ UNCHANGED <<logFreePool, filling, lines>>
    BY <1>3 DEF ReceiveLine
  <2>2. /\ Len(logQueue') = Len(logQueue) - 1 /\ Len(logQueue) \in Nat
        /\ logQueue' \in Seq(Line) /\ msg' \in Line
    BY <2>1 DEF PoolInv, PoolTyped
  <2>3. PoolTyped'
    BY <2>1, <2>2 DEF PoolInv, PoolTyped, Steps
  <2>4. Counted'
    BY <2>1, <2>2 DEF PoolInv, PoolTyped, Counted, Holds, InHand
  <2> QED
    BY <2>3, <2>4 DEF PoolInv
<1>4. CASE EchoLine
  <2>1. logStep = "echo" /\ logStep' = "store" /\ UNCHANGED <<filling, msg, lines>>
    BY <1>4 DEF EchoLine
  <2>2. CASE UNCHANGED <<logFreePool, logQueue>>
    BY <2>1, <2>2 DEF PoolInv, PoolTyped, Counted, Holds, InHand, Steps
  <2>3. CASE ~UNCHANGED <<logFreePool, logQueue>>
    <3> DEFINE own == [no |-> 0, kind |-> "alert"]
    <3>1. HasBuffer /\ logFreePool' = logFreePool - 1 /\ logQueue' = Append(logQueue, own)
      BY <1>4, <2>3 DEF EchoLine
    <3>2. own \in Line
      BY DEF Line, Kinds
    <3>3. /\ Len(logQueue') = Len(logQueue) + 1 /\ Len(logQueue) \in Nat
          /\ logQueue' \in Seq(Line) /\ logFreePool' \in Nat
      BY <3>1, <3>2 DEF PoolInv, PoolTyped, HasBuffer
    <3>4. PoolTyped'
      BY <2>1, <3>3 DEF PoolInv, PoolTyped, Steps
    <3>5. Counted'
      BY <2>1, <3>1, <3>3 DEF PoolInv, PoolTyped, Counted, Holds, InHand
    <3> QED
      BY <3>4, <3>5 DEF PoolInv
  <2> QED
    BY <2>2, <2>3
<1>5. CASE StoreLine \/ WriteLine \/ SyncLine
  <2>1. /\ logStep # "wait" /\ logStep' \in Steps \ {"wait"}
        /\ UNCHANGED <<logFreePool, logQueue, filling, msg, lines>>
    BY <1>5 DEF StoreLine, WriteLine, SyncLine, Steps
  <2> QED
    BY <2>1 DEF PoolInv, PoolTyped, Counted, Holds, InHand
<1>6. CASE ReturnBuffer
  <2>1. /\ logStep = "return" /\ logStep' = "wait" /\ msg' = NoLine
        /\ logFreePool' = logFreePool + 1 /\ UNCHANGED <<logQueue, filling, lines>>
    BY <1>6 DEF ReturnBuffer
  <2>2. Len(logQueue) \in Nat /\ NoLine \in Line
    BY DEF PoolInv, PoolTyped, NoLine, Line
  <2> QED
    BY <2>1, <2>2 DEF PoolInv, PoolTyped, Counted, Holds, InHand, Steps
<1>7. CASE WebSays \/ WebReopen
  <2>1. PICK k \in Kinds : TakeBuffer("web", [no |-> 0, kind |-> k])
    BY <1>7 DEF WebSays, WebReopen, Kinds
  <2> DEFINE line == [no |-> 0, kind |-> k]
  <2>2. line \in Line /\ line.kind # "none" /\ "web" \in Callers /\ "web" # "capture"
    BY DEF Line, Kinds, Callers
  <2>3. /\ filling["web"] = NoLine /\ lines' \in Nat
        /\ UNCHANGED <<logQueue, logStep, msg>>
    BY <1>7 DEF WebSays, WebReopen, Next1, PoolInv, PoolTyped
  <2> QED
    BY <2>1, <2>2, <2>3, TakeKeepsCount
<1>8. CASE LogSyncSD \/ ShowLog \/ RemoteLogInit \/ ResetLogSD \/ ClearRam
  BY <1>0, <1>8 DEF LogSyncSD, ShowLog, RemoteLogInit, ResetLogSD, ClearRam
<1>9. CASE WebFlush \/ WebClose \/ WebRemove
  BY <1>0, <1>9 DEF WebFlush, WebClose, WebRemove
<1>10. CASE UNCHANGED logVars
  BY <1>0, <1>10 DEF logVars, pool
<1> QED
  BY <1>1, <1>2, <1>3, <1>4, <1>5, <1>6, <1>7, <1>8, <1>9, <1>10 DEF LogNext, LogTask, WebTask

\* Every buffer is in the pool, being filled, queued or in the log task's hand,
\* at every moment: LOG_SEND and logTask() neither leak one nor return one twice,
\* for every number of buffers and with every event switched on.
THEOREM PoolIsWhole == LogSpec => []PoolWhole
<1>1. PoolInv => PoolWhole
  BY FilledIsHolds DEF PoolInv, PoolTyped, Counted, PoolWhole, Holds, InHand
<1> QED
  BY <1>1, PoolInit, PoolStep, PTL DEF LogSpec

---------------------------------------------------------------------------
(* Where a line that is owed to the file can be: nowhere else than on the    *)
(* card, in the stdio buffer, in the queue, or in the log task's hand before *)
(* it has been written.                                                      *)

Queued == {logQueue[i].no : i \in 1..Len(logQueue)}
AtHand == IF logStep \in {"echo", "store", "write"} THEN {msg.no} ELSE {}

OwedSomewhere == owed \subseteq card \cup buffered \cup Queued \cup AtHand
OwedNumbered == 0 \notin owed
OwedOpen == owed # {} => sdLog /\ log_remote_fp = "open" /\ webOp \in {<< >>, FlushLog}

OwedInv == PoolTyped /\ OwedSomewhere /\ OwedNumbered /\ OwedOpen

\* A queue that grows by a line, and one whose first line is taken.
LEMMA QueuedAppend ==
    ASSUME NEW q \in Seq(Line), NEW m \in Line
    PROVE  {Append(q, m)[i].no : i \in 1..Len(Append(q, m))} = {q[i].no : i \in 1..Len(q)} \cup {m.no}
<1> DEFINE a == Append(q, m)
           n == Len(q)
<1>1. n \in Nat /\ Len(a) = n + 1 /\ a[n + 1] = m /\ \A i \in 1..n : a[i] = q[i]
  OBVIOUS
<1>2. 1..(n + 1) = (1..n) \cup {n + 1}
  BY <1>1
<1> HIDE DEF a, n
<1> QED
  BY <1>1, <1>2 DEF a, n

\* The numbers in a queue are that of its first line and those behind it.
LEMMA QueuedTail ==
    ASSUME NEW q \in Seq(Line), q # << >>
    PROVE  {q[i].no : i \in 1..Len(q)} \subseteq {Tail(q)[i].no : i \in 1..Len(Tail(q))} \cup {Head(q).no}
<1> SUFFICES ASSUME NEW i \in 1..Len(q)
             PROVE  q[i].no \in {Tail(q)[j].no : j \in 1..Len(Tail(q))} \cup {Head(q).no}
  OBVIOUS
<1>1. CASE i = 1
  BY <1>1
<1>2. CASE i # 1
  <2>1. i - 1 \in 1..Len(Tail(q)) /\ Tail(q)[i - 1] = q[i]
    BY <1>2
  <2> QED
    BY <2>1
<1> QED
  BY <1>1, <1>2

\* At the start no line is owed to the card.
LEMMA OwedInit == LogInit => OwedInv
  BY PoolInit DEF LogInit, OwedInv, PoolInv, OwedSomewhere, OwedNumbered, OwedOpen

\* Every step keeps an owed line in the queue, in the hand of the log task, or on the card.
LEMMA OwedStep == PoolInv /\ OwedInv /\ [LogNext]_logVars => OwedInv'
<1> SUFFICES ASSUME PoolInv, OwedInv, [LogNext]_logVars
             PROVE  OwedInv'
  OBVIOUS
<1>0. PoolTyped'
  BY PoolStep DEF PoolInv
<1> USE <1>0 DEF OwedInv
<1>a. ASSUME UNCHANGED <<buffered, card, logQueue, logStep, msg, owed, sdLog, log_remote_fp, webOp>>
      PROVE  OwedInv'
  BY <1>a DEF OwedSomewhere, OwedNumbered, OwedOpen, Queued, AtHand
<1>b. ASSUME owed' = {}
      PROVE  OwedInv'
  BY <1>b DEF OwedSomewhere, OwedNumbered, OwedOpen
<1>c. ASSUME Sync \/ UNCHANGED <<buffered, card>>
      PROVE  card \cup buffered = card' \cup buffered'
  BY <1>c DEF Sync
<1>1. CASE CaptureLogs
  BY <1>1, <1>a DEF CaptureLogs, file
<1>2. CASE \E t \in Callers : QueueLine(t)
  <2>1. PICK t \in Callers : QueueLine(t)
    BY <1>2
  <2>2. /\ UNCHANGED <<buffered, card, logStep, msg, sdLog, log_remote_fp, webOp>>
        /\ filling[t] \in Line /\ logQueue \in Seq(Line) /\ filling[t] # NoLine
    BY <2>1 DEF QueueLine, file, PoolTyped
  <2>3. CASE Len(logQueue) < LOG_BUF_COUNT
    <3>1. logQueue' = Append(logQueue, filling[t])
      BY <2>1, <2>3 DEF QueueLine
    <3>2. Queued' = Queued \cup {filling[t].no}
      BY <3>1, <2>2, QueuedAppend DEF Queued
    <3>3. CASE t = "capture" /\ sdLog /\ log_remote_fp = "open" /\ webOp = << >>
      <4>1. owed' = owed \cup {filling[t].no} /\ filling[t].no # 0
        BY <2>1, <2>2, <2>3, <3>3 DEF QueueLine, PoolTyped
      <4> QED
        BY <2>2, <3>2, <3>3, <4>1 DEF OwedSomewhere, OwedNumbered, OwedOpen, AtHand
    <3>4. CASE ~(t = "capture" /\ sdLog /\ log_remote_fp = "open" /\ webOp = << >>)
      <4>1. owed' = owed
        BY <2>1, <2>3, <3>4 DEF QueueLine
      <4> QED
        BY <2>2, <3>2, <4>1 DEF OwedSomewhere, OwedNumbered, OwedOpen, AtHand
    <3> QED
      BY <3>3, <3>4
  <2>4. CASE ~(Len(logQueue) < LOG_BUF_COUNT)
    BY <2>1, <2>2, <2>4, <1>a DEF QueueLine
  <2> QED
    BY <2>3, <2>4
<1>3. CASE ReceiveLine
  <2>1. /\ logStep = "wait" /\ logQueue # << >> /\ logStep' = "echo"
        /\ msg' = Head(logQueue) /\ logQueue' = Tail(logQueue) /\ logQueue \in Seq(Line)
        /\ UNCHANGED <<buffered, card, owed, sdLog, log_remote_fp, webOp>>
    BY <1>3 DEF ReceiveLine, file, PoolTyped
  <2>2. Queued \subseteq Queued' \cup {msg'.no}
    BY <2>1, QueuedTail DEF Queued
  <2> QED
    BY <2>1, <2>2 DEF OwedSomewhere, OwedNumbered, OwedOpen, AtHand
<1>4. CASE EchoLine
  <2>1. /\ logStep = "echo" /\ logStep' = "store" /\ logQueue \in Seq(Line)
        /\ UNCHANGED <<msg, buffered, card, owed, sdLog, log_remote_fp, webOp>>
    BY <1>4 DEF EchoLine, file, PoolTyped
  <2>2. Queued \subseteq Queued'
    <3> DEFINE own == [no |-> 0, kind |-> "alert"]
    <3>1. CASE logQueue' = logQueue
      BY <3>1 DEF Queued
    <3>2. CASE logQueue' = Append(logQueue, own)
      <4>1. own \in Line
        BY DEF Line, Kinds
      <4> HIDE DEF own
      <4> QED
        BY <2>1, <3>2, <4>1, QueuedAppend DEF Queued
    <3> QED
      BY <1>4, <3>1, <3>2 DEF EchoLine
  <2> QED
    BY <2>1, <2>2 DEF OwedSomewhere, OwedNumbered, OwedOpen, AtHand
<1>5. CASE StoreLine
  \* A line that is owed has an open file to be written to.
  <2>1. /\ logStep = "store" /\ logStep' = (IF sdLog /\ log_remote_fp = "open" THEN "write" ELSE "return")
        /\ UNCHANGED <<logQueue, msg, buffered, card, owed, sdLog, log_remote_fp, webOp>>
    BY <1>5 DEF StoreLine, file
  <2>2. CASE owed = {}
    BY <2>1, <2>2, <1>b
  <2>3. CASE owed # {}
    BY <2>1, <2>3 DEF OwedSomewhere, OwedNumbered, OwedOpen, AtHand, Queued
  <2> QED
    BY <2>2, <2>3
<1>6. CASE WriteLine
  <2>1. /\ logStep = "write" /\ logStep' \in {"sync", "return"}
        /\ buffered' = buffered \cup ({msg.no} \ {0})
        /\ UNCHANGED <<logQueue, msg, card, owed, sdLog, log_remote_fp, webOp>>
    BY <1>6 DEF WriteLine
  <2>2. Queued' = Queued /\ AtHand = {msg.no} /\ AtHand' = {}
    BY <2>1 DEF Queued, AtHand
  <2> QED
    BY <2>1, <2>2 DEF OwedSomewhere, OwedNumbered, OwedOpen
<1>7. CASE SyncLine \/ ReturnBuffer
  <2>1. /\ AtHand = {} /\ AtHand' = {} /\ (Sync \/ UNCHANGED <<buffered, card>>)
        /\ UNCHANGED <<logQueue, owed, sdLog, log_remote_fp, webOp>>
    BY <1>7 DEF SyncLine, ReturnBuffer, AtHand, file
  <2> QED
    BY <2>1, <1>c DEF OwedSomewhere, OwedNumbered, OwedOpen, Queued
<1>8. CASE LogSyncSD
  <2>1. UNCHANGED <<logQueue, logStep, msg, owed, sdLog, log_remote_fp, webOp>> /\ Sync
    BY <1>8 DEF LogSyncSD, pool
  <2> QED
    BY <2>1, <1>c DEF OwedSomewhere, OwedNumbered, OwedOpen, Queued, AtHand
<1>9. CASE ShowLog
  <2>1. UNCHANGED <<logQueue, logStep, msg, owed, sdLog, log_remote_fp, buffered, card>>
        /\ webOp' = FlushLog
    BY <1>9 DEF ShowLog, Request, pool, file
  <2> QED
    BY <2>1 DEF OwedSomewhere, OwedNumbered, OwedOpen, Queued, AtHand
<1>10. CASE RemoteLogInit \/ ResetLogSD
  BY <1>10, <1>b DEF RemoteLogInit, ResetLogSD
<1>11. CASE ClearRam
  BY <1>11, <1>a DEF ClearRam, pool, file
<1>12. CASE WebFlush
  <2>1. /\ UNCHANGED <<logQueue, logStep, msg, owed, sdLog, log_remote_fp>>
        /\ Sync \/ UNCHANGED <<buffered, card>>
        /\ webOp' = Tail(webOp)
    BY <1>12 DEF WebFlush, Next1, pool
  <2>2. webOp = FlushLog => webOp' = << >>
    BY <2>1 DEF FlushLog
  <2>3. webOp # << >>
    BY <1>12 DEF WebFlush, Next1
  <2> QED
    BY <2>1, <2>2, <2>3, <1>c DEF OwedSomewhere, OwedNumbered, OwedOpen, Queued, AtHand
<1>13. CASE WebSays \/ WebClose \/ WebRemove \/ WebReopen
  \* Nothing is owed to a file that is about to be closed or removed.
  <2>1. webOp # << >> /\ Head(webOp) # "flush" /\ owed' = owed
    BY <1>13 DEF WebSays, WebClose, WebRemove, WebReopen, Next1
  <2>2. owed = {}
    BY <2>1 DEF OwedOpen, FlushLog
  <2> QED
    BY <2>1, <2>2, <1>b
<1>14. CASE UNCHANGED logVars
  BY <1>14, <1>a DEF logVars, pool, file
<1> QED
  BY <1>1, <1>2, <1>3, <1>4, <1>5, <1>6, <1>7, <1>8, <1>9, <1>10, <1>11, <1>12, <1>13, <1>14
     DEF LogNext, LogTask, WebTask

\* When the supply fails and logSyncSD() returns, every line the capture task
\* has logged to the file is on the card, whatever the web task is doing to the
\* file - as long as logSyncSD()'s bounds outlast the log task ("slowTask").
THEOREM SagLinesReachCard ==
    ASSUME "slowTask" \notin LogEvents
    PROVE  LogSpec => SagLinesLand
<1>1. PoolInv /\ OwedInv /\ [LogNext]_logVars => [LogSyncSD => owed \subseteq card']_logVars
  <2> SUFFICES ASSUME OwedInv, LogSyncSD
               PROVE  owed \subseteq card'
    OBVIOUS
  <2>1. logQueue = << >> /\ logStep = "wait" /\ card' = card \cup buffered
    BY DEF LogSyncSD, Sync
  <2>2. Queued = {} /\ AtHand = {}
    BY <2>1 DEF Queued, AtHand
  <2> QED
    BY <2>1, <2>2 DEF OwedInv, OwedSomewhere
<1> QED
  BY <1>1, PoolInit, PoolStep, OwedInit, OwedStep, PTL DEF LogSpec, SagLinesLand
----------------------------------------------------------------------------
(* What an alert brings to the card.                                        *)

\* A line with this number has been made, and not the one the capture task still holds.
Made(n) == n < lines \/ (n = lines /\ filling["capture"] = NoLine)

\* Lines of the capture task wait in the order they were made in, behind the one that is
\* being written; those of the other tasks have no number.
QueuedInOrder ==
    /\ \A i, j \in 1..Len(logQueue) :
          i < j /\ logQueue[i].no # 0 /\ logQueue[j].no # 0 => logQueue[i].no < logQueue[j].no
    /\ logStep # "wait" /\ msg.no # 0 =>
          \A i \in 1..Len(logQueue) : logQueue[i].no # 0 => msg.no < logQueue[i].no
AllMade ==
    /\ filling["capture"] # NoLine => filling["capture"].no = lines
    /\ filling["web"].no = 0
    /\ \A i \in 1..Len(logQueue) : Made(logQueue[i].no)
    /\ logStep # "wait" => Made(msg.no)
    /\ \A m \in owed : m \in Nat /\ Made(m)
LineInv == QueuedInOrder /\ AllMade /\ AlertsLand

\* What is queued and what is in the log task's hand has a number.
LEMMA Numbers ==
    ASSUME PoolInv
    PROVE  /\ \A i \in 1..Len(logQueue) : logQueue[i].no \in Nat
           /\ msg.no \in Nat /\ lines \in Nat /\ Len(logQueue) \in Nat
<1>1. \A x \in Line : x.no \in Nat
  BY DEF Line
<1>2. logQueue \in Seq(Line) /\ msg \in Line /\ lines \in Nat
  BY DEF PoolInv, PoolTyped
<1>3. \A i \in 1..Len(logQueue) : logQueue[i] \in Line
  BY <1>2
<1> QED
  BY <1>1, <1>2, <1>3

LEMMA LineInit == LogInit => LineInv
  BY DEF LogInit, LineInv, QueuedInOrder, AllMade, AlertsLand, NoLine, Callers

\* A line taken from the pool is the newest, or none of the capture task's.
LEMMA TakeKeepsOrder ==
    ASSUME PoolInv, LineInv, UNCHANGED <<logQueue, logStep, msg>>,
           owed' \subseteq owed, card' = card \/ owed' = {},
           \/ \E k : filling["capture"] = NoLine /\ lines' = lines + 1
                     /\ TakeBuffer("capture", [no |-> lines + 1, kind |-> k])
           \/ \E k : lines' = lines /\ TakeBuffer("web", [no |-> 0, kind |-> k])
           \/ UNCHANGED <<filling, lines>>
    PROVE  LineInv'
<1>1. /\ \A n \in Nat : Made(n) => Made(n)'
      /\ filling'["capture"] # NoLine => filling'["capture"].no = lines'
      /\ filling'["web"].no = 0
  <2>1. CASE \E k : filling["capture"] = NoLine /\ lines' = lines + 1
                    /\ TakeBuffer("capture", [no |-> lines + 1, kind |-> k])
    BY <2>1 DEF TakeBuffer, PoolInv, PoolTyped, Made, LineInv, AllMade, Callers, NoLine
  <2>2. CASE \E k : lines' = lines /\ TakeBuffer("web", [no |-> 0, kind |-> k])
    BY <2>2 DEF TakeBuffer, PoolInv, PoolTyped, Made, LineInv, AllMade, Callers, NoLine
  <2>3. CASE UNCHANGED <<filling, lines>>
    BY <2>3 DEF Made, LineInv, AllMade
  <2> QED
    BY <2>1, <2>2, <2>3
<1>2. QueuedInOrder'
  BY DEF LineInv, QueuedInOrder
<1>3. (\A i \in 1..Len(logQueue) : logQueue[i].no \in Nat) /\ msg.no \in Nat
  BY Numbers
<1>4. AllMade'
  BY <1>1, <1>3 DEF LineInv, AllMade
<1>5. AlertsLand'
  BY DEF LineInv, AlertsLand
<1> QED
  BY <1>2, <1>4, <1>5 DEF LineInv

\* A line that goes into the queue is behind all that are there.
LEMMA QueueKeepsOrder ==
    ASSUME NEW m \in Line, PoolInv, LineInv, logQueue' = Append(logQueue, m),
           UNCHANGED <<card, lines>>, \A n \in Nat : Made(n) => Made(n)',
           filling'["capture"] # NoLine => filling'["capture"].no = lines',
           filling'["web"].no = 0, Made(m.no)',
           m.no # 0 => \A n \in Nat : Made(n) => n < m.no,
           owed' \in {owed, owed \cup {m.no}}, owed' # owed => m.no # 0,
           msg' = msg, logStep' # "wait" => logStep # "wait",
           logStep' = "return" => logStep = "return"
    PROVE  LineInv'
<1> DEFINE n == Len(logQueue)
<1>1. /\ n \in Nat /\ Len(logQueue') = n + 1 /\ logQueue'[n + 1] = m
      /\ \A i \in 1..n : logQueue'[i] = logQueue[i] /\ logQueue[i].no \in Nat
      /\ msg.no \in Nat /\ m.no \in Nat
  <2>1. logQueue \in Seq(Line) /\ m.no \in Nat
    BY DEF PoolInv, PoolTyped, Line
  <2> QED
    BY <2>1, Numbers
<1>2. \A i \in 1..(n + 1) : i \in 1..n \/ i = n + 1
  BY <1>1
<1> HIDE DEF n
<1>3. \A i \in 1..n : Made(logQueue[i].no)
  BY DEF LineInv, AllMade, n
<1>4. QueuedInOrder'
  <2>1. ASSUME NEW i \in 1..(n + 1), NEW j \in 1..(n + 1), i < j,
               logQueue'[i].no # 0, logQueue'[j].no # 0
        PROVE  logQueue'[i].no < logQueue'[j].no
    <3>1. i \in 1..n
      BY <1>1, <1>2, <2>1
    <3>2. CASE j \in 1..n
      BY <1>1, <2>1, <3>1, <3>2 DEF LineInv, QueuedInOrder, n
    <3>3. CASE j = n + 1
      BY <1>1, <1>3, <2>1, <3>1, <3>3
    <3> QED
      BY <1>2, <3>2, <3>3
  <2>2. ASSUME logStep' # "wait", msg'.no # 0, NEW i \in 1..(n + 1), logQueue'[i].no # 0
        PROVE  msg'.no < logQueue'[i].no
    <3>1. CASE i \in 1..n
      BY <1>1, <2>2, <3>1 DEF LineInv, QueuedInOrder, n
    <3>2. CASE i = n + 1
      <4>1. Made(msg.no)
        BY <2>2 DEF LineInv, AllMade
      <4> QED
        BY <1>1, <2>2, <3>2, <4>1
    <3> QED
      BY <1>2, <3>1, <3>2
  <2> QED
    BY <1>1, <2>1, <2>2 DEF QueuedInOrder
<1>5. AllMade'
  <2>1. (\A i \in 1..Len(logQueue) : Made(logQueue[i].no))'
    <3>1. \A i \in 1..n : Made(logQueue[i].no)'
      <4> SUFFICES ASSUME NEW i \in 1..n, NEW x \in Nat, x = logQueue'[i].no
                   PROVE  Made(x)'
        BY <1>1
      <4>1. Made(x)
        BY <1>1, <1>3
      <4> QED
        BY <4>1
    <3> QED
      BY <1>1, <1>2, <3>1
  <2>2. \A o \in owed' : o \in Nat /\ Made(o)'
    BY <1>1 DEF LineInv, AllMade
  <2>3. logStep' # "wait" => Made(msg.no)'
    BY <1>1 DEF LineInv, AllMade
  <2> QED
    BY <1>1, <2>1, <2>2, <2>3 DEF AllMade
<1>6. AlertsLand'
  <2> SUFFICES ASSUME logStep = "return", msg.kind = "alert", msg.no \in owed',
                      NEW o \in owed', o <= msg.no
               PROVE  o \in card
    BY DEF AlertsLand
  <2>1. Made(msg.no)
    BY DEF LineInv, AllMade
  <2>2. owed' # owed => msg.no < m.no
    BY <1>1, <2>1
  <2>3. msg.no \in owed /\ o \in owed
    BY <1>1, <2>2
  <2> QED
    BY <2>3 DEF LineInv, AlertsLand
<1> QED
  BY <1>4, <1>5, <1>6 DEF LineInv

LEMMA LineStep == PoolInv /\ OwedInv /\ LineInv /\ [LogNext]_logVars => LineInv'
<1> SUFFICES ASSUME PoolInv, OwedInv, LineInv, [LogNext]_logVars
             PROVE  LineInv'
  OBVIOUS
<1>0. /\ \A i \in 1..Len(logQueue) : logQueue[i].no \in Nat
      /\ msg.no \in Nat /\ lines \in Nat /\ Len(logQueue) \in Nat
  BY Numbers
<1>1. CASE CaptureLogs
  BY <1>1, TakeKeepsOrder DEF CaptureLogs, file
<1>2. CASE \E t \in Callers : QueueLine(t)
  <2>1. PICK t \in Callers : QueueLine(t)
    BY <1>2
  <2>2. /\ filling[t] # NoLine /\ filling' = [filling EXCEPT ![t] = NoLine] /\ filling[t] \in Line
        /\ UNCHANGED <<logStep, msg, lines, card>>
    BY <2>1 DEF QueueLine, file, PoolInv, PoolTyped
  <2>3. /\ \A n \in Nat : Made(n) => Made(n)'
        /\ filling'["capture"] # NoLine => filling'["capture"].no = lines'
        /\ filling'["web"].no = 0
    BY <2>2 DEF Made, LineInv, AllMade, PoolInv, PoolTyped, Callers, NoLine
  <2>4. CASE Len(logQueue) < LOG_BUF_COUNT
    <3>0. PICK m \in Line : m = filling[t]
      BY <2>2
    <3>1. /\ logQueue' = Append(logQueue, m)
          /\ owed' \in {owed, owed \cup {m.no}} /\ (owed' # owed => t = "capture")
      BY <2>1, <2>4, <3>0 DEF QueueLine
    <3>2. CASE t = "capture"
      <4>1. m.no = lines /\ m.no # 0 /\ filling'["capture"] = NoLine
        BY <2>2, <3>0, <3>2 DEF LineInv, AllMade, PoolInv, PoolTyped, Callers
      <4>2. Made(m.no)' /\ \A n \in Nat : Made(n) => n < m.no
        BY <2>2, <3>2, <4>1 DEF Made
      <4> QED
        BY <2>2, <2>3, <3>1, <4>1, <4>2, QueueKeepsOrder
    <3>3. CASE t # "capture"
      <4>1. m.no = 0 /\ t = "web" /\ filling'["capture"] = filling["capture"]
        BY <2>2, <3>0, <3>3 DEF LineInv, AllMade, Callers, PoolInv, PoolTyped
      <4>2. Made(0)
        BY <1>0, <4>1 DEF Made, LineInv, AllMade, PoolInv, PoolTyped
      <4>3. Made(m.no)' /\ m.no = 0
        BY <2>3, <4>1, <4>2
      <4> QED
        BY <2>2, <2>3, <3>1, <3>3, <4>3, QueueKeepsOrder
    <3> QED
      BY <3>2, <3>3
  <2>5. CASE ~(Len(logQueue) < LOG_BUF_COUNT)
    <3>1. UNCHANGED <<logQueue, owed>>
      BY <2>1, <2>5 DEF QueueLine
    <3> QED
      BY <1>0, <2>2, <2>3, <3>1 DEF LineInv, QueuedInOrder, AllMade, AlertsLand
  <2> QED
    BY <2>4, <2>5
<1>3. CASE ReceiveLine
  <2>1. /\ logStep' = "echo" /\ logQueue # << >> /\ logQueue \in Seq(Line)
        /\ msg' = Head(logQueue) /\ logQueue' = Tail(logQueue)
        /\ UNCHANGED <<filling, lines, owed>>
    BY <1>3 DEF ReceiveLine, PoolInv, PoolTyped
  <2>2. /\ 1 \in 1..Len(logQueue) /\ msg' = logQueue[1] /\ Len(logQueue') = Len(logQueue) - 1
        /\ \A i \in 1..Len(logQueue') : logQueue'[i] = logQueue[i + 1] /\ i + 1 \in 1..Len(logQueue)
    BY <2>1
  <2>3. \A n : Made(n)' <=> Made(n)
    BY <2>1 DEF Made
  <2>4. QueuedInOrder'
    BY <2>1, <2>2 DEF LineInv, QueuedInOrder
  <2>5. AllMade'
    BY <2>1, <2>2, <2>3 DEF LineInv, AllMade
  <2> QED
    BY <2>1, <2>4, <2>5 DEF LineInv, AlertsLand
<1>4. CASE EchoLine
  <2>1. logStep = "echo" /\ logStep' = "store" /\ UNCHANGED <<filling, msg, lines, owed, card>>
    BY <1>4 DEF EchoLine, file
  <2>2. \A n : Made(n)' <=> Made(n)
    BY <2>1 DEF Made
  <2>3. CASE UNCHANGED logQueue
    BY <2>1, <2>2, <2>3 DEF LineInv, QueuedInOrder, AllMade, AlertsLand
  <2>4. CASE ~UNCHANGED logQueue
    <3> DEFINE own == [no |-> 0, kind |-> "alert"]
    <3>1. logQueue' = Append(logQueue, own)
      BY <1>4, <2>4 DEF EchoLine
    <3>2. own \in Line /\ own.no = 0
      BY DEF Line, Kinds
    <3>3. Made(0)'
      BY <1>0, <2>1 DEF Made, LineInv, AllMade, PoolInv, PoolTyped
    <3>4. /\ filling'["capture"] # NoLine => filling'["capture"].no = lines'
          /\ filling'["web"].no = 0
      BY <2>1 DEF LineInv, AllMade
    <3> HIDE DEF own
    <3> QED
      BY <2>1, <2>2, <3>1, <3>2, <3>3, <3>4, QueueKeepsOrder
  <2> QED
    BY <2>3, <2>4
<1>5. ASSUME UNCHANGED <<logQueue, filling, lines, msg, owed>>,
             logStep' # "wait" => logStep # "wait", AlertsLand'
      PROVE  LineInv'
  <2>1. \A n : Made(n)' <=> Made(n)
    BY <1>5 DEF Made
  <2> QED
    BY <1>5, <2>1 DEF LineInv, QueuedInOrder, AllMade
<1>6. CASE StoreLine
  <2>1. /\ UNCHANGED <<logQueue, filling, lines, msg, owed, card>> /\ logStep = "store"
        /\ logStep' = "return" => ~(sdLog /\ log_remote_fp = "open")
    BY <1>6 DEF StoreLine, file
  <2>2. AlertsLand'
    BY <2>1 DEF AlertsLand, OwedInv, OwedOpen
  <2> QED
    BY <1>5, <2>1, <2>2
<1>7. CASE WriteLine
  <2>1. /\ UNCHANGED <<logQueue, filling, lines, msg, owed>> /\ logStep = "write"
        /\ logStep' = "return" => msg.kind # "alert"
    BY <1>7 DEF WriteLine, MustSync
  <2>2. AlertsLand'
    BY <2>1 DEF AlertsLand
  <2> QED
    BY <1>5, <2>1, <2>2
<1>8. CASE SyncLine
  <2>1. /\ UNCHANGED <<logQueue, filling, lines, msg, owed>> /\ logStep = "sync"
        /\ card' = card \cup buffered
    BY <1>8 DEF SyncLine, Sync
  <2>2. ASSUME msg.no \in owed, NEW o \in owed, o <= msg.no
        PROVE  o \in card'
    <3>1. AtHand = {} /\ msg.no # 0 /\ o # 0 /\ o \in Nat
      BY <2>1, <2>2 DEF AtHand, OwedInv, OwedNumbered, LineInv, AllMade
    <3>2. o \notin Queued
      BY <1>0, <2>1, <2>2, <3>1 DEF Queued, LineInv, QueuedInOrder
    <3> QED
      BY <2>1, <2>2, <3>1, <3>2 DEF OwedInv, OwedSomewhere
  <2>3. AlertsLand'
    BY <2>1, <2>2 DEF AlertsLand
  <2> QED
    BY <1>5, <2>1, <2>3
<1>9. CASE ReturnBuffer
  <2>1. /\ UNCHANGED <<logQueue, filling, lines, owed>> /\ logStep' = "wait"
    BY <1>9 DEF ReturnBuffer
  <2>2. \A n : Made(n)' <=> Made(n)
    BY <2>1 DEF Made
  <2> QED
    BY <2>1, <2>2 DEF LineInv, QueuedInOrder, AllMade, AlertsLand
<1>a. ASSUME UNCHANGED <<logQueue, logStep, msg, filling, lines>>,
             owed' = {} \/ (owed' = owed /\ card \subseteq card')
      PROVE  LineInv'
  <2>1. \A n : Made(n)' <=> Made(n)
    BY <1>a DEF Made
  <2> QED
    BY <1>a, <2>1 DEF LineInv, QueuedInOrder, AllMade, AlertsLand
<1>10. CASE LogSyncSD \/ ShowLog \/ ClearRam \/ WebFlush \/ UNCHANGED logVars
  BY <1>10, <1>a DEF LogSyncSD, ShowLog, ClearRam, WebFlush, Sync, logVars, pool, file
<1>11. CASE RemoteLogInit \/ ResetLogSD
  BY <1>11, <1>a DEF RemoteLogInit, ResetLogSD, pool
<1>12. CASE WebSays \/ WebClose \/ WebRemove \/ WebReopen
  \* Nothing is owed to a file that is about to be closed or removed.
  <2>1. webOp # << >> /\ Head(webOp) # "flush" /\ owed' = owed /\ lines' = lines
    BY <1>12 DEF WebSays, WebClose, WebRemove, WebReopen, Next1
  <2>2. owed = {}
    BY <2>1 DEF OwedInv, OwedOpen, FlushLog
  <2>3. CASE WebClose \/ WebRemove
    BY <2>1, <2>2, <2>3, <1>a DEF WebClose, WebRemove, pool
  <2>4. CASE WebSays \/ WebReopen
    <3>1. /\ UNCHANGED <<logQueue, logStep, msg>>
          /\ \E k : TakeBuffer("web", [no |-> 0, kind |-> k])
      BY <2>4 DEF WebSays, WebReopen
    <3> QED
      BY <2>1, <2>2, <3>1, TakeKeepsOrder
  <2> QED
    BY <1>12, <2>3, <2>4
<1> QED
  BY <1>1, <1>2, <1>3, <1>4, <1>6, <1>7, <1>8, <1>9, <1>10, <1>11, <1>12 DEF LogNext, LogTask, WebTask

\* When the log task is done with an alert, that line and all that were logged before it to
\* the same file are on the card, with any number of buffers and lines and with every event.
THEOREM AlertsReachCard == LogSpec => []AlertsLand
<1>1. LineInv => AlertsLand
  BY DEF LineInv
<1> QED
  BY <1>1, PoolInit, PoolStep, OwedInit, OwedStep, LineInit, LineStep, PTL DEF LogSpec

----------------------------------------------------------------------------
(* The ring in RTC memory.                                                  *)

\* A place counted on from a cell of the ring, at most once around.
Around(x) == IF x < RAM_LOG_LEN THEN x ELSE x - RAM_LOG_LEN

LEMMA OnceAround ==
    ASSUME NEW a \in Cells, NEW b \in Cells
    PROVE  /\ (a + b) % RAM_LOG_LEN = Around(a + b)
           /\ Around(a + b) \in Cells
  BY LogConstants DEF Cells, Around

\* RingIsTail without the division.
RingInv ==
    /\ mlogEnd \in Cells
    /\ \A c \in Cells : messageLog[Around(mlogEnd + c)] = tail[c]

\* A line of one cell or two, stored from the end on, is the last the ring gives back,
\* and all before it moves on by as many, whether the line wraps or not.
LEMMA StoreKeepsRing ==
    ASSUME NEW line, RingInv, RamLogStore(line)
    PROVE  RingInv'
<1> DEFINE n == Size(line)
           v == line.no % 2
           covers(c) == (c >= mlogEnd /\ c < mlogEnd + n) \/ (Wraps(n) /\ c + RAM_LOG_LEN < mlogEnd + n)
<1>1. n \in {1, 2} /\ mlogEnd \in Cells /\ mlogEnd' = Around(mlogEnd + n)
  BY LogConstants DEF RamLogStore, Size, Around, Wraps, RingInv, Cells
<1>2. mlogEnd' \in Cells
  BY <1>1, LogConstants DEF Around, Cells
<1>3. \A c \in Cells : messageLog'[c] = IF covers(c) THEN v ELSE messageLog[c]
  BY DEF RamLogStore
<1>4. \A c \in Cells : tail'[c] = IF c + n < RAM_LOG_LEN THEN tail[c + n] ELSE v
  BY DEF RamLogStore, Shift
<1>5. ASSUME NEW c \in Cells
      PROVE  messageLog'[Around(mlogEnd' + c)] = tail'[c]
  <2> DEFINE p == Around(mlogEnd' + c)
  <2>1. p \in Cells
    BY <1>2, OnceAround
  <2>2. CASE c + n < RAM_LOG_LEN
    <3>1. c + n \in Cells /\ Around(mlogEnd + (c + n)) = p
      BY <1>1, <2>2, LogConstants DEF Around, Cells
    <3>2. ~covers(p)
      BY <1>1, <2>2, LogConstants DEF Around, Cells, Wraps
    <3> QED
      BY <1>3, <1>4, <2>1, <2>2, <3>1, <3>2 DEF RingInv
  <2>3. CASE ~(c + n < RAM_LOG_LEN)
    <3>1. covers(p)
      BY <1>1, <2>3, LogConstants DEF Around, Cells, Wraps
    <3> QED
      BY <1>3, <1>4, <2>1, <2>3, <3>1
  <2> QED
    BY <2>2, <2>3
<1> QED
  BY <1>2, <1>5 DEF RingInv

\* Whoever does not store or clear leaves the ring as it is.
LEMMA RingStep == RingInv /\ [LogNext]_logVars => RingInv'
<1> SUFFICES ASSUME RingInv, [LogNext]_logVars
             PROVE  RingInv'
  OBVIOUS
<1>1. ASSUME UNCHANGED ringVars
      PROVE  RingInv'
  BY <1>1 DEF RingInv, ringVars
<1>2. CASE StoreLine
  BY <1>1, <1>2, StoreKeepsRing DEF StoreLine
<1>3. CASE ClearRam
  <2>1. mlogEnd' \in Cells /\ mlogEnd' = 0
    BY <1>3, LogConstants DEF ClearRam, Cells
  <2>2. ASSUME NEW c \in Cells
        PROVE  messageLog'[Around(mlogEnd' + c)] = tail'[c]
    BY <1>3, <2>1, OnceAround DEF ClearRam
  <2> QED
    BY <2>1, <2>2 DEF RingInv
<1>4. CASE CaptureLogs \/ (\E t \in Callers : QueueLine(t)) \/ LogSyncSD
  BY <1>1, <1>4 DEF CaptureLogs, QueueLine, LogSyncSD
<1>5. CASE ReceiveLine \/ EchoLine \/ WriteLine \/ SyncLine \/ ReturnBuffer
  BY <1>1, <1>5 DEF ReceiveLine, EchoLine, WriteLine, SyncLine, ReturnBuffer
<1>6. CASE ShowLog \/ RemoteLogInit \/ ResetLogSD \/ WebTask
  BY <1>1, <1>6 DEF ShowLog, RemoteLogInit, ResetLogSD, WebTask, WebFlush, WebSays, WebClose,
                    WebRemove, WebReopen
<1>7. CASE UNCHANGED logVars
  BY <1>1, <1>7 DEF logVars
<1> QED
  BY <1>2, <1>3, <1>4, <1>5, <1>6, <1>7 DEF LogNext, LogTask

\* Read from its end once around, the ring gives the last cells that were stored, in
\* order: for a ring of any length, lines of one cell or two, and however they wrap.
THEOREM RingGivesTail == LogSpec => []RingIsTail
<1>1. LogInit => RingInv
  <2> SUFFICES ASSUME LogInit PROVE RingInv
    OBVIOUS
  <2>1. mlogEnd = 0 /\ 0 \in Cells
    BY LogConstants DEF LogInit, Cells
  <2>2. ASSUME NEW c \in Cells
        PROVE  messageLog[Around(mlogEnd + c)] = tail[c]
    BY <2>1, OnceAround DEF LogInit
  <2> QED
    BY <2>1, <2>2 DEF RingInv
<1>2. RingInv => RingIsTail
  BY OnceAround DEF RingInv, RingIsTail
<1> QED
  BY <1>1, <1>2, RingStep, PTL DEF LogSpec
----------------------------------------------------------------------------
(* The motion gate: a streak of tripped checks has been earned by movements. *)

Zones == 0 .. Side * Side - 1

\* Mirrored or not, two zones of the view are two zones of the readout.
LEMMA ZonesApart ==
    ASSUME NEW i \in Zones, NEW j \in Zones, ZoneViewToPhys(i) = ZoneViewToPhys(j)
    PROVE  i = j
<1>1. CASE ~hmirror
  BY <1>1 DEF ZoneViewToPhys
<1>2. CASE hmirror
  <2> DEFINE row(k) == k \div Side
             col(k) == k % Side
  <2>1. /\ row(i) \in Nat /\ col(i) \in 0 .. Side - 1 /\ i = Side * row(i) + col(i)
        /\ row(j) \in Nat /\ col(j) \in 0 .. Side - 1 /\ j = Side * row(j) + col(j)
    BY MotionConstants DEF Zones
  <2>2. row(i) * Side + (Side - 1 - col(i)) = row(j) * Side + (Side - 1 - col(j))
    BY <1>2 DEF ZoneViewToPhys
  <2>0. Side \in Nat
    BY MotionConstants
  <2> HIDE DEF row, col
  <2>3. \A a, b \in Nat : a < b => a * Side + Side <= b * Side
    BY <2>0
  <2>4. row(i) = row(j)
    <3>1. /\ row(i) < row(j) => row(i) * Side + Side <= row(j) * Side
          /\ row(j) < row(i) => row(j) * Side + Side <= row(i) * Side
      BY <2>1, <2>3
    <3>2. row(i) * Side \in Int /\ row(j) * Side \in Int
      BY <2>0, <2>1
    <3> QED
      BY <2>0, <2>1, <2>2, <3>1, <3>2
  <2> QED
    BY <2>0, <2>1, <2>2, <2>4
<1> QED
  BY <1>1, <1>2

\* What the mask shows of the readout, against what it showed at the last check.
Shown == Differ(ReadZones, zref) \cap ZoneMaskPhys

\* A subject that moves outside the mask changes nothing the mask shows.
LEMMA MovedOutside ==
    ASSUME scene \subseteq Zones, scene' \subseteq Zones, zoneMask \subseteq Zones,
           Differ(scene', scene) \cap zoneMask = {}, UNCHANGED <<hmirror, zref>>
    PROVE  Shown' = Shown
<1>1. \A z : ZoneViewToPhys(z)' = ZoneViewToPhys(z)
  BY DEF ZoneViewToPhys
<1>2. ZoneMaskPhys' = ZoneMaskPhys
  BY <1>1 DEF ZoneMaskPhys
<1>3. \A s \in zoneMask : s \in scene' <=> s \in scene
  BY DEF Differ
<1>4. ASSUME NEW x \in ZoneMaskPhys
      PROVE  x \in ReadZones' <=> x \in ReadZones
  <2>1. PICK v \in zoneMask : x = ZoneViewToPhys(v)
    BY <1>4 DEF ZoneMaskPhys
  <2>2. x \in ReadZones <=> v \in scene
    BY <2>1, ZonesApart DEF ReadZones
  <2>3. x \in ReadZones' <=> v \in scene'
    <3>1. ReadZones' = {ZoneViewToPhys(u) : u \in scene'}
      BY <1>1 DEF ReadZones
    <3> QED
      BY <2>1, <3>1, ZonesApart
  <2> QED
    BY <1>3, <2>2, <2>3
<1> QED
  BY <1>2, <1>4 DEF Shown, Differ

\* Every check of the streak has seen a movement of its own; what the mask shows now and
\* no check has seen yet is one more.  The history stops counting at what a streak takes.
CountFull == moves = detectMotionFrames
StreakInv ==
    /\ scene \in Scenes /\ moves \in 0 .. detectMotionFrames /\ zconsecCnt \in Nat
    /\ CountFull \/ moves >= zconsecCnt
    /\ zrefValid /\ Shown # {} => CountFull \/ moves > zconsecCnt

\* A check that trips has a difference to show.
LEMMA TripShows == Tripped => Shown # {}
<1>1. ASSUME Shown = {}, Tripped PROVE FALSE
  <2>1. Cardinality({}) >= zoneCount
    BY <1>1 DEF Tripped, Shown
  <2> QED
    BY <2>1, FS_EmptySet, MotionConstants
<1> QED
  BY <1>1

\* What has just been read differs in nothing from itself.
LEMMA FreshShowsNothing ==
    ASSUME TakeReference, UNCHANGED <<scene, hmirror>>
    PROVE  Shown' = {}
<1>1. ReadZones' = ReadZones
  BY DEF ReadZones, ZoneViewToPhys
<1> QED
  BY <1>1 DEF TakeReference, Shown, Differ

LEMMA StreakInit == MotionInit => StreakInv
  BY MotionConstants DEF MotionInit, StreakInv

LEMMA StreakStep == StreakInv /\ [MotionNext]_motionVars => StreakInv'
<1> SUFFICES ASSUME StreakInv, [MotionNext]_motionVars
             PROVE  StreakInv'
  OBVIOUS
<1> USE MotionConstants
<1>1. CASE SubjectMoves
  <2>1. /\ scene' \in Scenes /\ UNCHANGED <<hmirror, zref, zrefValid, zconsecCnt>>
        /\ moves' = IF Differ(scene', scene) \cap zoneMask # {} THEN More(moves) ELSE moves
    BY <1>1 DEF SubjectMoves, userChoices, detector
  <2>2. CASE Differ(scene', scene) \cap zoneMask # {}
    BY <2>1, <2>2 DEF StreakInv, CountFull, More
  <2>3. CASE Differ(scene', scene) \cap zoneMask = {}
    <3>1. Shown' = Shown
      BY <2>1, <2>3, MovedOutside DEF StreakInv, Zones
    <3> QED
      BY <2>1, <2>3, <3>1 DEF StreakInv, CountFull
  <2> QED
    BY <2>2, <2>3
<1>2. CASE SetMirror
  <2>1. /\ moves' = More(moves) /\ UNCHANGED <<scene, zrefValid, zconsecCnt>>
    BY <1>2 DEF SetMirror, world, detector
  <2> QED
    BY <2>1 DEF StreakInv, CountFull, More
<1>3. ASSUME UNCHANGED <<scene, hmirror, zref, zrefValid, zconsecCnt, moves>>
      PROVE  StreakInv'
  <2>1. Shown' = Shown
    BY <1>3 DEF Shown, Differ, ReadZones, ZoneMaskPhys, ZoneViewToPhys
  <2> QED
    BY <1>3, <2>1 DEF StreakInv, CountFull
<1>4. CASE SceneSettles \/ NewSize \/ EnableMotion \/ PingAsksNight \/ NotDetecting \/ UNCHANGED motionVars
  BY <1>3, <1>4 DEF SceneSettles, NewSize, EnableMotion, PingAsksNight, NotDetecting, motionVars,
                    world, userChoices, detector
<1>5. CASE CheckAtNight
  BY <1>5 DEF CheckAtNight, StreakInv, CountFull
<1>6. CASE CheckBlurred
  BY <1>6 DEF CheckBlurred, StreakInv, CountFull
<1>7. CASE CheckFirst
  <2>1. /\ TakeReference /\ UNCHANGED <<scene, hmirror>>
        /\ \/ zconsecCnt' = 0 /\ moves' = 0
           \/ UNCHANGED <<zconsecCnt, moves>>
    BY <1>7 DEF CheckFirst, userChoices
  <2>2. Shown' = {}
    BY <2>1, FreshShowsNothing
  <2> QED
    BY <2>1, <2>2 DEF StreakInv, CountFull
<1>8. CASE CheckTripped
  <2>1. /\ TakeReference /\ UNCHANGED <<scene, hmirror, moves>> /\ zrefValid /\ Shown # {}
        /\ zconsecCnt' \in {zconsecCnt, zconsecCnt + 1}
    BY <1>8, TripShows DEF CheckTripped, userChoices
  <2>2. Shown' = {}
    BY <2>1, FreshShowsNothing
  <2> QED
    BY <2>1, <2>2 DEF StreakInv, CountFull
<1>9. CASE CheckStill
  <2>1. /\ TakeReference /\ UNCHANGED <<scene, hmirror>> /\ zconsecCnt' = 0 /\ moves' = 0
    BY <1>9 DEF CheckStill, userChoices
  <2>2. Shown' = {}
    BY <2>1, FreshShowsNothing
  <2> QED
    BY <2>1, <2>2 DEF StreakInv, CountFull
<1> QED
  BY <1>1, <1>2, <1>4, <1>5, <1>6, <1>7, <1>8, <1>9 DEF MotionNext, Check

\* The zones start motion only after as many movements inside the mask as tripped checks are
\* asked for: for every grid, mask and scene, with gates that fail, the light, the
\* mirror, the size and the switch changing at any check.
THEOREM MotionIsEarned == MotionSpec => StartsOnMovement
<1>1. ASSUME StreakInv, [MotionNext]_motionVars, ~haveMotion, haveMotion', zconsecCnt' >= detectMotionFrames
      PROVE  moves >= detectMotionFrames
  <2> USE MotionConstants
  <2>1. CASE CheckTripped
    <3>1. zrefValid /\ Shown # {} /\ zconsecCnt' \in {zconsecCnt, zconsecCnt + 1}
      BY <2>1, TripShows DEF CheckTripped
    <3> QED
      BY <1>1, <3>1 DEF StreakInv, CountFull
  <2>2. CASE CheckBlurred
    BY <1>1, <2>2 DEF CheckBlurred, StreakInv, CountFull
  <2>3. CASE CheckFirst
    BY <1>1, <2>3 DEF CheckFirst, StreakInv, CountFull
  <2>4. CASE CheckAtNight \/ CheckStill
    <3>1. zconsecCnt' = 0
      BY <2>4 DEF CheckAtNight, CheckStill
    <3>2. ~(0 >= detectMotionFrames)
      OBVIOUS
    <3> QED
      BY <1>1, <3>1, <3>2
  <2>5. haveMotion' # haveMotion
    BY <1>1
  <2>6. ~NotDetecting
    BY <1>1 DEF NotDetecting
  <2>7. Check
    BY <1>1, <2>5, <2>6 DEF MotionNext, SubjectMoves, SceneSettles, NewSize, SetMirror, EnableMotion,
                            PingAsksNight, motionVars
  <2> QED
    BY <2>1, <2>2, <2>3, <2>4, <2>7 DEF Check
<1>2. StreakInv /\ [MotionNext]_motionVars
        => [~haveMotion /\ haveMotion' /\ zconsecCnt' >= detectMotionFrames
              => moves >= detectMotionFrames]_motionVars
  BY <1>1
<1> QED
  BY <1>2, StreakInit, StreakStep, PTL DEF MotionSpec, StartsOnMovement
----------------------------------------------------------------------------
(* The recordings on the card.                                             *)

IsPath(p) == p = [day |-> p.day, id |-> p.id] /\ p.id \in Nat

\* A transfer is under way exactly while its task has not given up.
CardTyped ==
    /\ made \in Nat /\ \A c \in files : c.id \in Nat \ {0}
    /\ temp \in [there : BOOLEAN, day : Nat, id : Nat \ {0}, size : Nat] /\ day \in Nat
    /\ IsPath(storedPathName)
    /\ rec \in {"idle", "rec", "named", "free"}
    /\ task \in {"none", "open", "connect", "send", "close", "delete", "ended"}
    /\ uploadInProgress <=> task \in {"open", "connect", "send", "close", "delete"}
    /\ fsHandle <=> task # "none"

\* Recordings are numbered; the one being made has a number no file and no path has.
Numbered ==
    /\ \A c, e \in files : c.id = e.id => c = e
    /\ \A c \in files : c.id <= made
    /\ storedPathName.id <= made
    /\ rec # "idle" => temp.id = made
    /\ rec = "rec" => /\ \A c \in files : c.id # temp.id
                      /\ storedPathName.id # temp.id

\* The folder of the recording being made is there, and is not the one that an
\* upload is to delete.
FolderKept ==
    rec = "rec" => /\ temp.day \in folders
                   /\ uploadInProgress /\ deleteAfter => storedPathName # Folder(temp.day)

\* Of what the upload is to delete, all that it no longer has to send an FTP server has.
SendsAll ==
    /\ task = "delete" => deleteAfter
    /\ deleteAfter /\ ~fsUse =>
        /\ task = "send" => res /\ \A c \in Under(storedPathName) : c \in todo \/ c.id \in sent
        /\ task = "close" /\ res => \A c \in Under(storedPathName) : c.id \in sent
        /\ task = "delete" => \A c \in Under(storedPathName) : c.id \in sent

CardInv == CardTyped /\ Numbered /\ FolderKept /\ SendsAll
\* Nothing is recorded and nothing sent at the start.
LEMMA CardStart == Init => CardInv
  BY DEF Init, CardInv, CardTyped, IsPath, Numbered, FolderKept, SendsAll, Folder, None

\* A request: the path under a transfer that is to delete stays, and one that
\* starts is not for the folder of the recording being made.
LEMMA RequestKeeps ==
  ASSUME Races = {}, CardInv, NEW p, IsPath(p), MayRequest(p), FsStartTransfer(p),
         p.id <= made, rec' = "rec" => rec = "rec" /\ p.id # temp.id,
         rec' \in {"idle", "rec", "named", "free"}, rec = "idle" => rec' = "idle",
         UNCHANGED <<day, temp, made, deleteAfter, fsUse, todo, res>>,
         files' \subseteq files, rec' = "rec" => folders' = folders,
         \A c \in files' : c.id \in sent => c.id \in sent'
  PROVE  CardInv'
<1> USE DEF CardInv
<1>1. /\ uploadInProgress /\ deleteAfter => p = storedPathName
      /\ rec = "rec" /\ deleteAfter => p # Folder(temp.day)
      /\ task # "ended"
  BY DEF MayRequest, Provided
<1>2. UNCHANGED <<day, temp, made, deleteAfter, fsUse, todo, res>> /\ storedPathName' = p
  BY DEF FsStartTransfer
<1>3. /\ uploadInProgress => task' = task /\ uploadInProgress' /\ fsHandle' = fsHandle
      /\ ~uploadInProgress => task' = "open" /\ uploadInProgress' /\ fsHandle'
  BY <1>1 DEF FsStartTransfer, CardTyped
<1>4. CardTyped'
  BY <1>2, <1>3 DEF CardTyped
<1>5. Numbered'
  BY <1>2 DEF Numbered
<1>6. FolderKept'
  BY <1>1, <1>2 DEF FolderKept, Folder
<1>7. SendsAll'
  <2>1. CASE uploadInProgress /\ deleteAfter
    BY <1>1, <1>2, <1>3, <2>1 DEF SendsAll, Under
  <2>2. CASE ~uploadInProgress \/ ~deleteAfter
    BY <1>2, <1>3, <2>2 DEF SendsAll
  <2> QED
    BY <2>1, <2>2
<1> QED
  BY <1>4, <1>5, <1>6, <1>7

\* A deletion takes files and what was sent of them: numbers are not given twice.
LEMMA DeleteSpares ==
  ASSUME CardInv, NEW p, Delete(p)
  PROVE  files' \subseteq files /\ \A c \in files' : c.id \in sent => c.id \in sent'
  BY DEF CardInv, Delete, Numbered, Under

\* It never takes the folder of the recording being made.
LEMMA DeleteKeeps ==
  ASSUME CardInv, NEW p, IsPath(p), Delete(p), rec = "rec" => p # Folder(temp.day),
         UNCHANGED <<day, rec, temp, made, deleteAfter, fsUse, uploadInProgress, fsHandle,
                     storedPathName, task, todo, res>>
  PROVE  CardInv'
<1>1. files' \subseteq files /\ \A c \in files' : c.id \in sent => c.id \in sent'
  BY DeleteSpares
<1> USE DEF CardInv
<1>2. CardTyped' /\ Numbered'
  BY <1>1 DEF CardTyped, Numbered
<1>3. FolderKept'
  BY DEF FolderKept, Delete, Folder, IsPath
<1>4. SendsAll'
  BY <1>1 DEF SendsAll, Under
<1> QED
  BY <1>2, <1>3, <1>4

\* The oldest folder goes between two recordings.
LEMMA OldestKeeps ==
  ASSUME Races = {}, CardInv, DeleteOldest
  PROVE  CardInv'
<1> DEFINE p == Folder(OldestDir)
<1>1. /\ rec = "free" /\ Delete(p)
      /\ UNCHANGED <<day, rec, temp, made, deleteAfter, fsUse, todo, res>>
  BY DEF DeleteOldest, settings, capture
<1>2. IsPath(p) /\ p.id = 0
  BY DEF Folder, IsPath
<1>3. files' \subseteq files /\ \A c \in files' : c.id \in sent => c.id \in sent'
  BY <1>1, DeleteSpares
<1> HIDE DEF p
<1>4. CASE UNCHANGED <<request, task>>
  BY <1>1, <1>2, <1>4, DeleteKeeps DEF request
<1>5. CASE MayRequest(p) /\ FsStartTransfer(p)
  <2>1. made \in Nat
    BY DEF CardInv, CardTyped
  <2> QED
    BY <1>1, <1>2, <1>3, <1>5, <2>1, RequestKeeps
<1> QED
  BY <1>4, <1>5 DEF DeleteOldest, p

\* The capture task, but for its requests and its deletion.
LEMMA RecordingKeeps ==
  ASSUME Races = {}, CardInv,
         \/ NewDay \/ SetRecord \/ OpenAvi \/ SaveFrames \/ CloseEmpty \/ CloseAvi
         \/ NoCheck \/ FreeChecked
  PROVE  CardInv'
<1> USE DEF CardInv, settings, onCard, capture, request, transfer
<1>1. CASE NewDay
  BY <1>1 DEF NewDay, CardTyped, Numbered, FolderKept, SendsAll, Under
<1>2. CASE SetRecord \/ NoCheck \/ FreeChecked
  BY <1>2 DEF SetRecord, NoCheck, FreeChecked, CardTyped, Numbered, FolderKept, SendsAll, Under
<1>3. CASE SaveFrames \/ CloseEmpty
  <2>1. temp'.day = temp.day /\ temp'.id = temp.id
    BY <1>3 DEF SaveFrames, CloseEmpty, CardTyped
  <2>2. temp' \in [there : BOOLEAN, day : Nat, id : Nat \ {0}, size : Nat]
    <3>1. temp \in [there : BOOLEAN, day : Nat, id : Nat \ {0}, size : Nat]
      BY DEF CardTyped
    <3>2. CASE SaveFrames
      BY <3>1, <3>2 DEF SaveFrames
    <3>3. CASE CloseEmpty
      BY <3>1, <3>3 DEF CloseEmpty
    <3> QED
      BY <1>3, <3>2, <3>3
  <2> QED
    BY <1>3, <2>1, <2>2 DEF SaveFrames, CloseEmpty, CardTyped, Numbered, FolderKept, SendsAll, Under
<1>4. CASE OpenAvi
  <2>1. /\ rec' = "rec" /\ made' = made + 1 /\ temp'.day = day /\ temp'.id = made + 1
        /\ day \in folders' /\ UNCHANGED <<files, day, deleteAfter, fsUse, request, task, transfer>>
    BY <1>4 DEF OpenAvi
  <2>2. uploadInProgress /\ deleteAfter => storedPathName # Folder(day)
    BY <1>4 DEF OpenAvi, Provided
  <2>3. CardTyped'
    <3>1. temp' \in [there : BOOLEAN, day : Nat, id : Nat \ {0}, size : Nat]
      BY <1>4 DEF OpenAvi, CardTyped
    <3> QED
      BY <2>1, <3>1 DEF CardTyped
  <2>4. Numbered'
    <3>1. made \in Nat /\ storedPathName.id \in Nat /\ \A c \in files : c.id \in Nat
      BY DEF CardTyped, IsPath
    <3> QED
      BY <2>1, <3>1 DEF Numbered
  <2>5. FolderKept'
    BY <2>1, <2>2 DEF FolderKept, Folder
  <2>6. SendsAll'
    BY <2>1 DEF SendsAll, Under
  <2> QED
    BY <2>3, <2>4, <2>5, <2>6
<1>5. CASE CloseAvi
  <2>1. /\ rec = "rec" /\ rec' = "named" /\ temp'.day = temp.day /\ temp'.id = temp.id
        /\ files' = files \cup {Landed}
        /\ UNCHANGED <<folders, day, made, deleteAfter, fsUse, request, task, transfer>>
    BY <1>5 DEF CloseAvi, FolderKept, CardTyped
  <2>2. Landed.id = temp.id /\ Landed.day = temp.day
    BY DEF Landed
  <2>3. CardTyped'
    <3>1. temp' \in [there : BOOLEAN, day : Nat, id : Nat \ {0}, size : Nat]
      BY <1>5 DEF CloseAvi, CardTyped
    <3> QED
      BY <2>1, <2>2, <3>1 DEF CardTyped
  <2>4. Numbered'
    BY <2>1, <2>2 DEF CardTyped, Numbered
  <2>5. FolderKept'
    BY <2>1 DEF FolderKept
  <2>6. ASSUME uploadInProgress, deleteAfter PROVE Under(storedPathName)' = Under(storedPathName)
    <3>1. ~(Landed.day = storedPathName.day /\ storedPathName.id \in {0, Landed.id})
      <4>1. storedPathName.id # temp.id
        BY <2>1 DEF Numbered
      <4>2. CASE storedPathName.id = 0 /\ storedPathName.day = temp.day
        <5>1. storedPathName = [day |-> temp.day, id |-> 0]
          BY <4>2 DEF CardTyped, IsPath
        <5> QED
          BY <2>1, <2>6, <5>1 DEF FolderKept, Folder
      <4> QED
        BY <2>2, <4>1, <4>2
    <3> QED
      BY <2>1, <3>1 DEF Under
  <2>7. SendsAll'
    BY <2>1, <2>6 DEF SendsAll, CardTyped
  <2> QED
    BY <2>3, <2>4, <2>5, <2>7
<1> QED
  BY <1>1, <1>2, <1>3, <1>4, <1>5

\* The file server task.
LEMMA SenderKeeps ==
  ASSUME Races = {}, CardInv, FileServerTask
  PROVE  CardInv'
<1> USE DEF CardInv, settings, onCard, capture, request, transfer, GivenUp
<1>1. CASE OpenStored \/ ConnectFails \/ TaskEnds
  BY <1>1 DEF OpenStored, ConnectFails, TaskEnds, CardTyped, Numbered, FolderKept, SendsAll, Under
<1>2. CASE Connect
  BY <1>2 DEF Connect, CardTyped, Numbered, FolderKept, SendsAll, Under
<1>3. CASE SendFile
  <2>1. CardTyped' /\ Numbered' /\ FolderKept'
    BY <1>3 DEF SendFile, CardTyped, Numbered, FolderKept
  <2>2. SendsAll'
    <3>1. task = "send" /\ UNCHANGED <<files, deleteAfter, fsUse, storedPathName>>
      BY <1>3 DEF SendFile
    <3>2. PICK c \in todo \cap files :
             /\ todo' = (todo \cap files) \ {c}
             /\ \/ sent' = sent \cup {c.id} /\ UNCHANGED <<res, task>>
                \/ res' = FALSE /\ task' = "close" /\ UNCHANGED sent
                \/ fsUse /\ UNCHANGED <<res, task, sent>>
      BY <1>3 DEF SendFile, LostUnnoticed, Provided
    <3>3. CASE sent' = sent \cup {c.id} /\ UNCHANGED <<res, task>>
      BY <3>1, <3>2, <3>3 DEF SendsAll, Under
    <3>4. CASE res' = FALSE /\ task' = "close"
      BY <3>1, <3>4 DEF SendsAll
    <3>5. CASE fsUse /\ UNCHANGED <<res, task, sent>>
      BY <3>1, <3>5 DEF SendsAll
    <3> QED
      BY <3>2, <3>3, <3>4, <3>5
  <2> QED
    BY <2>1, <2>2
<1>4. CASE SentAll
  <2>1. CardTyped' /\ Numbered' /\ FolderKept'
    BY <1>4 DEF SentAll, CardTyped, Numbered, FolderKept
  <2>2. SendsAll'
    BY <1>4 DEF SentAll, SendsAll, Under
  <2> QED
    BY <2>1, <2>2
<1>5. CASE Disconnect
  BY <1>5 DEF Disconnect, CardTyped, Numbered, FolderKept, SendsAll, Under
<1>6. CASE DeleteSent
  <2>1. task = "delete" /\ Delete(storedPathName) /\ task' = "ended" /\ ~uploadInProgress'
        /\ UNCHANGED <<deleteAfter, fsUse, day, rec, temp, made, fsHandle, storedPathName, todo, res>>
    BY <1>6 DEF DeleteSent
  <2>2. files' \subseteq files
    BY <2>1 DEF Delete
  <2>3. CardTyped' /\ Numbered' /\ SendsAll'
    BY <2>1, <2>2 DEF CardTyped, Numbered, SendsAll
  <2>4. FolderKept'
    BY <2>1 DEF FolderKept, Delete, Folder, CardTyped, IsPath, SendsAll
  <2> QED
    BY <2>3, <2>4
<1> QED
  BY <1>1, <1>2, <1>3, <1>4, <1>5, <1>6 DEF FileServerTask
\* Every step, when what the code does not provide for does not happen.
LEMMA CardNext ==
  ASSUME Races = {}
  PROVE  CardInv /\ [Next]_vars => CardInv'
<1> SUFFICES ASSUME CardInv, [Next]_vars PROVE CardInv'
  OBVIOUS
<1> USE DEF settings, onCard, capture, request, transfer
<1>0. /\ temp.day \in Nat /\ temp.id \in Nat \ {0} /\ day \in Nat /\ made \in Nat
      /\ \A c \in files : c.id \in Nat \ {0} /\ c.id <= made
  BY DEF CardInv, CardTyped, Numbered
<1>1. CASE RequestUpload
  <2>1. CASE ~autoUpload
    <3>1. UNCHANGED <<day, files, folders, temp, made, deleteAfter, fsUse, request, task, transfer>>
          /\ rec = "named" /\ rec' = "free"
      BY <1>1, <2>1 DEF RequestUpload
    <3> QED
      BY <3>1 DEF CardInv, CardTyped, Numbered, FolderKept, SendsAll, Under
  <2>2. CASE autoUpload
    <3> DEFINE p == IF deleteAfter THEN Folder(day) ELSE Name(temp)
    <3>1. MayRequest(p) /\ FsStartTransfer(p) /\ rec = "named" /\ rec' = "free"
      BY <1>1, <2>2 DEF RequestUpload
    <3>2. IsPath(p) /\ p.id <= made
      BY <1>0, <3>1 DEF Folder, Name, IsPath, CardInv, Numbered
    <3>3. UNCHANGED <<day, files, folders, temp, made, deleteAfter, fsUse, todo, res, sent>>
      BY <1>1 DEF RequestUpload
    <3> HIDE DEF p
    <3> QED
      BY <3>1, <3>2, <3>3, RequestKeeps
  <2> QED
    BY <2>1, <2>2
<1>2. CASE WebUpload
  <2>1. PICK p \in {Folder(d) : d \in 1..Days} \cup {Name(c) : c \in files} :
           MayRequest(p) /\ FsStartTransfer(p)
    BY <1>2 DEF WebUpload
  <2>2. IsPath(p) /\ p.id <= made /\ (rec = "rec" => p.id # temp.id)
    <3>1. CASE p \in {Folder(d) : d \in 1..Days}
      BY <1>0, <3>1 DEF Folder, IsPath
    <3>2. CASE p \in {Name(c) : c \in files}
      <4>1. PICK c \in files : p = [day |-> c.day, id |-> c.id]
        BY <3>2 DEF Name
      <4> QED
        BY <1>0, <4>1 DEF IsPath, CardInv, CardTyped, Numbered
    <3> QED
      BY <3>1, <3>2
  <2>3. UNCHANGED <<day, files, folders, temp, made, deleteAfter, fsUse, todo, res, sent, rec>>
    BY <1>2 DEF WebUpload
  <2>4. rec \in {"idle", "rec", "named", "free"}
    BY DEF CardInv, CardTyped
  <2> QED
    BY <2>1, <2>2, <2>3, <2>4, RequestKeeps
<1>3. CASE WebDelete
  <2>1. PICK p \in {Folder(d) : d \in folders} \cup {Name(c) : c \in files} :
           Provided("folderGoes", ~(rec = "rec" /\ p = Folder(temp.day))) /\ Delete(p)
    BY <1>3 DEF WebDelete
  <2>2. IsPath(p)
    BY <1>0, <2>1 DEF Folder, Name, IsPath
  <2>3. rec = "rec" => p # Folder(temp.day)
    BY <2>1 DEF Provided
  <2> QED
    BY <1>3, <2>1, <2>2, <2>3, DeleteKeeps DEF WebDelete
<1>4. CASE DeleteOldest
  BY <1>4, OldestKeeps
<1>5. CASE UNCHANGED vars
  BY <1>5 DEF vars, CardInv, CardTyped, Numbered, FolderKept, SendsAll, Under
<1> QED
  BY <1>1, <1>2, <1>3, <1>4, <1>5, RecordingKeeps, SenderKeeps DEF Next, FileServerTask
THEOREM CardInvariant == ASSUME Races = {} PROVE Spec => []CardInv
  BY CardStart, CardNext, PTL DEF Spec

\* What the file server task deletes after an upload by FTP the server has, every recording of it:
\* as long as no other request changes the path in between and no write falls short.
THEOREM DeletesOnlySent == ASSUME Races = {} PROVE Spec => SentBeforeDeleted
<1>1. CardInv /\ [Next]_vars =>
        [task = "delete" /\ task' = "ended" /\ ~fsUse => \A c \in files \ files' : c.id \in sent]_vars
  <2> SUFFICES ASSUME CardInv, [Next]_vars, task = "delete", task' = "ended", ~fsUse
               PROVE  \A c \in files \ files' : c.id \in sent
    OBVIOUS
  <2>1. DeleteSent
    BY DEF Next, vars, MayRequest, Provided, FsStartTransfer, GivenUp,
       NewDay, SetRecord, OpenAvi, SaveFrames, CloseEmpty, CloseAvi, RequestUpload,
       NoCheck, DeleteOldest, FreeChecked, WebUpload, WebDelete, OpenStored, Connect, ConnectFails,
       SendFile, SentAll, Disconnect, DeleteSent, TaskEnds
  <2>2. files' = files \ Under(storedPathName)
    BY <2>1 DEF DeleteSent, Delete
  <2> QED
    BY <2>2 DEF CardInv, SendsAll
<1> QED
  BY <1>1, CardInvariant, PTL DEF Spec, SentBeforeDeleted

\* The folder of a recording is there when it is closed, so that it lands.
THEOREM ClosedLands == ASSUME Races = {} PROVE Spec => ClosedClipLands
<1>1. CardInv /\ [Next]_vars => [rec = "rec" /\ rec' = "named" => Landed \in files']_vars
  <2> SUFFICES ASSUME CardInv, [Next]_vars, rec = "rec", rec' = "named"
               PROVE  Landed \in files'
    OBVIOUS
  <2>1. CloseAvi
    BY DEF Next, vars, capture,
       NewDay, SetRecord, OpenAvi, SaveFrames, CloseEmpty, CloseAvi, RequestUpload,
       NoCheck, DeleteOldest, FreeChecked, WebUpload, WebDelete, OpenStored, Connect, ConnectFails,
       SendFile, SentAll, Disconnect, DeleteSent, TaskEnds
  <2> QED
    BY <2>1 DEF CloseAvi, CardInv, FolderKept
<1> QED
  BY <1>1, CardInvariant, PTL DEF Spec, ClosedClipLands
----------------------------------------------------------------------------
(* The settings.                                                           *)
Keys == {"AP_Pass", "ST_SSID", "appId", "cfgVer", "extIP", "fhdProfile", "hostName", "tgramToken"}
Vals == Tried \cup {Squeezed[v] : v \in Tried} \cup {"", "*", "own", "other"}
              \cup {b.cfgVer : b \in Builds}
Phases == {"off", "check", "create", "load", "merge", "prefs", "reload", "up"}

\* Rows of settings, no two of the same.
Rowed(rows) ==
    /\ rows \in Seq([key : Keys, val : Vals])
    /\ \A i, j \in DOMAIN rows : rows[i].key = rows[j].key => i = j
    /\ \A i \in DOMAIN rows : rows[i].val = "*" => rows[i].key \notin Variables \ Secrets
InOrder(rows) ==
    \A i, j \in DOMAIN rows : i < j => Rank(rows[i].key) < Rank(rows[j].key)
Complete(rows) == {Row("appId", "own"), Row("cfgVer", build.cfgVer)} \subseteq Range(rows)

\* Only a token may be stars.
AppTyped ==
    app \in [Variables -> Vals] /\ \A k \in Variables \ {"tgramToken"} : app[k] # "*"

CfgTyped ==
    /\ build \in Builds /\ phase \in Phases /\ check \in {0, 1, 2}
    /\ AppTyped /\ nvs \in [Prefs -> Vals \ {"*"}]
    /\ prefsOpen \in BOOLEAN
    /\ saving = [t \in Tasks |-> saving[t]]
    /\ \A t \in Tasks : saving[t] = Nothing \/ Rowed(saving[t])
    /\ Rowed(configs) /\ (configFile = Nothing \/ Rowed(configFile))

\* A file that was deleted is made anew in the second call of checkConfigFile().
BootsInTwo ==
    phase = "check" => check \in {1, 2} /\ (check = 2 => configFile = Nothing)

\* What is loaded is whole; what is merged is in order and has every key.
Ordered ==
    /\ phase \in {"off", "check", "create"} => configs = << >>
    /\ phase = "create" => saving["boot"] # Nothing /\ Complete(saving["boot"])
    /\ phase = "load" => /\ configFile # Nothing /\ Complete(configFile)
                         /\ InOrder(configs) /\ (configs # << >> => Complete(configs))
    /\ phase = "merge" => saving["boot"] # Nothing
    /\ phase \in {"merge", "prefs", "reload", "up"} =>
          InOrder(configs) /\ build.keys \subseteq KeysOf(configs) /\ Complete(configs)
    /\ phase \notin {"create", "merge"} => saving["boot"] = Nothing
    /\ phase # "up" => saving["web"] = Nothing /\ saving["ping"] = Nothing

LookInv == CfgTyped /\ BootsInTwo /\ Ordered

\* No password is in the file or on its way to it.
Starred(rows) == \A i \in DOMAIN rows : rows[i].key \in Secrets => rows[i].val \in {"", "*"}
NoSecrets == Starred(configFile) /\ \A t \in Tasks : Starred(saving[t])

\* The settings a save promises.
Settings == (build.keys \cup {"hostName"}) \ Secrets

\* The rows give back what is kept: a setting a value that is loaded as it; to a password the
\* one in NVS, which stars stand for.
Gives(rows, k) ==
    kept[k] # Unknown =>
       IF k \in Prefs
       THEN /\ kept[k] = nvs[k] /\ ~prefsOpen
            /\ k = "AP_Pass" => \/ Row(k, "*") \in Range(rows)
                                \/ Row(k, "") \in Range(rows) /\ nvs[k] = ""
       ELSE k \in Settings /\ \E x \in Vals : Loaded(x) = kept[k] /\ Row(k, x) \in Range(rows)

\* Rows that are loaded have what is kept itself.
Has(rows, k) == kept[k] # Unknown /\ k \notin Prefs => Row(k, kept[k]) \in Range(rows)

\* While nobody saves, the file does; in between, the vector, once it is loaded.
FileGives ==
    Idle => \A k \in Variables : kept[k] # Unknown => /\ configFile # Nothing /\ Complete(configFile)
                                                      /\ Gives(configFile, k)
NewGives == phase = "create" => \A k \in Variables : kept[k] = Unknown
MergeGives == phase = "merge" => /\ Complete(saving["boot"])
                                 /\ \A k \in Variables : Gives(saving["boot"], k)
VectGives == (phase = "load" /\ configs # << >>) \/ phase \in {"merge", "prefs", "reload"} =>
                \A k \in Variables : Gives(configs, k) /\ Has(configs, k)
PrefsLoaded ==
    phase = "reload" /\ ~prefsOpen =>
       /\ \A k \in Prefs : app[k] = nvs[k]
       /\ \A i \in DOMAIN configs : configs[i].key = "ST_SSID" => configs[i].val = nvs["ST_SSID"]
PrefsKept == \A k \in Prefs : kept[k] # Unknown => kept[k] = nvs[k] /\ ~prefsOpen
KeptInv == FileGives /\ NewGives /\ MergeGives /\ VectGives /\ PrefsLoaded /\ PrefsKept

\* Once up, the vector has what the variables have, and so has what is being saved.
Follows(rows) ==
    \A i \in DOMAIN rows :
       rows[i].key \in (Variables \ Prefs) \cap Settings => rows[i].val = app[rows[i].key]
UpInv == phase = "up" => Follows(configs)
SavesUp ==
    \A t \in {"web", "ping"} : saving[t] # Nothing =>
       /\ phase = "up" /\ Complete(saving[t]) /\ Follows(saving[t])
       /\ \A u \in Tasks \ {t} : saving[u] = Nothing

Promise == KeptInv /\ UpInv /\ SavesUp
----------------------------------------------------------------------------
(* Lemmas about rows.                                                      *)

\* Each key has a place of its own in the order.
LEMMA Ranks == /\ \A k \in Keys : Rank(k) \in 1..8
               /\ \A k, l \in Keys : Rank(k) = Rank(l) => k = l
<1>1. /\ DOMAIN KeyOrder = 1..8
      /\ KeyOrder[1] = "AP_Pass" /\ KeyOrder[2] = "ST_SSID" /\ KeyOrder[3] = "appId"
      /\ KeyOrder[4] = "cfgVer" /\ KeyOrder[5] = "extIP" /\ KeyOrder[6] = "fhdProfile"
      /\ KeyOrder[7] = "hostName" /\ KeyOrder[8] = "tgramToken"
  BY DEF KeyOrder
<1>2. \A k \in Keys : \E i \in 1..8 : KeyOrder[i] = k
  BY <1>1 DEF Keys
<1>3. \A k \in Keys : Rank(k) \in 1..8 /\ KeyOrder[Rank(k)] = k
  BY <1>1, <1>2 DEF Rank
<1> QED
  BY <1>3

\* A row is a record of its two parts.
LEMMA RowParts == \A k, v : Row(k, v).key = k /\ Row(k, v).val = v
  BY DEF Row
LEMMA RowMade == \A r \in [key : Keys, val : Vals] : r = Row(r.key, r.val)
  BY DEF Row

\* A value is loaded once: what is left has no more spaces, and stars are stars.
LEMMA LoadedIs ==
    /\ \A v \in Vals : /\ Loaded(v) \in Vals /\ Loaded(Loaded(v)) = Loaded(v)
                       /\ Loaded(v) = "*" <=> v = "*"
    /\ \A v \in {"", "*", "own", "other"} \cup {b.cfgVer : b \in Builds} : Loaded(v) = v
<1>1. /\ "*" \notin Tried
      /\ \A v \in Tried : /\ Squeezed[v] # "*"
                          /\ Squeezed[v] \in Tried => Squeezed[Squeezed[v]] = Squeezed[v]
                          /\ v \in {"", "own", "other"} \cup {b.cfgVer : b \in Builds} => Squeezed[v] = v
  BY ConfigAssumption
<1>2. \A v : Loaded(v) = IF v \in Tried THEN Squeezed[v] ELSE v
  BY DEF Loaded
<1>3. \A v \in Tried : Squeezed[v] \in Vals
  BY DEF Vals
<1> QED
  BY <1>1, <1>2, <1>3

\* What Rowed says of the rows one by one.
LEMMA RowedEach ==
    ASSUME NEW rows, Rowed(rows)
    PROVE  /\ Len(rows) \in Nat /\ DOMAIN rows = 1..Len(rows)
           /\ \A i \in DOMAIN rows : /\ rows[i] \in [key : Keys, val : Vals]
                                     /\ rows[i] = Row(rows[i].key, rows[i].val)
<1> DEFINE R == [key : Keys, val : Vals]
<1>1. rows \in Seq(R)
  BY DEF Rowed
<1> HIDE DEF R
<1>2. /\ Len(rows) \in Nat /\ DOMAIN rows = 1..Len(rows)
      /\ \A i \in DOMAIN rows : rows[i] \in R
  BY <1>1
<1> QED
  BY <1>2, RowMade DEF R

\* Rows of these keys, given one by one, are rows.
LEMMA RowedMade ==
    ASSUME NEW rows, NEW n \in Nat, rows = [i \in 1..n |-> rows[i]],
           \A i \in 1..n : rows[i].key \in Keys /\ rows[i].val \in Vals
                           /\ rows[i] = Row(rows[i].key, rows[i].val),
           \A i, j \in 1..n : rows[i].key = rows[j].key => i = j,
           \A i \in 1..n : rows[i].val = "*" => rows[i].key \notin Variables \ Secrets
    PROVE  Rowed(rows) /\ Len(rows) = n
<1>1. \A i \in 1..n : rows[i] \in [key : Keys, val : Vals]
  BY DEF Row
<1>2. rows \in [1..n -> [key : Keys, val : Vals]]
  BY <1>1
<1>3. rows \in Seq([key : Keys, val : Vals]) /\ Len(rows) = n
  BY <1>2
<1> QED
  BY <1>2, <1>3 DEF Rowed

\* The rows before a row, and where it goes.
Below(rows, i) == {j \in DOMAIN rows : Rank(rows[j].key) < Rank(rows[i].key)}

\* Places follow the ranks and are within the sequence.
LEMMA PlaceFollows ==
    ASSUME NEW rows, Rowed(rows)
    PROVE  /\ \A i \in DOMAIN rows : Place(rows, i) \in DOMAIN rows
           /\ \A i, j \in DOMAIN rows :
                 Place(rows, i) < Place(rows, j) <=> Rank(rows[i].key) < Rank(rows[j].key)
           /\ \A i, j \in DOMAIN rows : Place(rows, i) = Place(rows, j) => i = j
<1> DEFINE n == Len(rows)
           D == DOMAIN rows
           B(i) == Below(rows, i)
<1>1. n \in Nat /\ D = 1..n /\ IsFiniteSet(D) /\ Cardinality(D) = n
  <2>1. n \in Nat /\ D = 1..n
    BY RowedEach
  <2>2. IsFiniteSet(1..n) /\ Cardinality(1..n) = n
    <3> HIDE DEF n
    <3> QED
      BY <2>1, FS_Interval
  <2> QED
    BY <2>1, <2>2
<1>2. \A i \in D : Rank(rows[i].key) \in 1..8
  BY RowedEach, Ranks
<1>3. \A i \in D : B(i) \subseteq D \ {i}
  BY <1>2 DEF Below
<1>4. \A i \in D : IsFiniteSet(D \ {i}) /\ Cardinality(D \ {i}) = n - 1
  BY <1>1, FS_RemoveElement
<1>5. \A i \in D : /\ IsFiniteSet(B(i)) /\ Cardinality(B(i)) \in Nat
                   /\ Cardinality(B(i)) <= n - 1
  <2> TAKE i \in D
  <2> HIDE DEF D, n
  <2>1. IsFiniteSet(B(i)) /\ Cardinality(B(i)) <= Cardinality(D \ {i})
    BY <1>3, <1>4, FS_Subset
  <2> QED
    BY <2>1, <1>4, FS_CardinalityType
<1>6. \A i \in D : Place(rows, i) = 1 + Cardinality(B(i))
  BY DEF Place, Below
<1>7. \A i, j \in D : Rank(rows[i].key) < Rank(rows[j].key) => Place(rows, i) < Place(rows, j)
  <2> SUFFICES ASSUME NEW i \in D, NEW j \in D, Rank(rows[i].key) < Rank(rows[j].key)
               PROVE  Cardinality(B(i)) < Cardinality(B(j))
    BY <1>5, <1>6
  <2>1. B(i) \subseteq B(j) \ {i} /\ i \in B(j)
    BY <1>2 DEF Below
  <2>2. IsFiniteSet(B(j) \ {i}) /\ Cardinality(B(j) \ {i}) = Cardinality(B(j)) - 1
    BY <1>5, <2>1, FS_RemoveElement
  <2>3. Cardinality(B(i)) <= Cardinality(B(j) \ {i})
    BY <2>1, <2>2, FS_Subset
  <2> QED
    BY <2>2, <2>3, <1>5
<1>8. \A i, j \in D : i # j => Rank(rows[i].key) # Rank(rows[j].key)
  <2>1. \A i, j \in D : i # j => rows[i].key # rows[j].key
    BY DEF Rowed
  <2>2. \A i \in D : rows[i].key \in Keys
    BY RowedEach
  <2> QED
    BY <2>1, <2>2, Ranks
<1>9. \A i, j \in D : \/ i = j \/ Rank(rows[i].key) < Rank(rows[j].key)
                               \/ Rank(rows[j].key) < Rank(rows[i].key)
  BY <1>2, <1>8
<1>10. \A i \in D : Place(rows, i) \in 1..n
  BY <1>5, <1>6, <1>1
<1>11. \A i \in D : Place(rows, i) \in Int /\ Rank(rows[i].key) \in Int
  BY <1>10, <1>2
<1> HIDE DEF D, n, B
<1>12. \A i, j \in D : Place(rows, i) < Place(rows, j) => Rank(rows[i].key) < Rank(rows[j].key)
  BY <1>7, <1>9, <1>11
<1>13. \A i, j \in D : Place(rows, i) = Place(rows, j) => i = j
  BY <1>7, <1>9, <1>11
<1> QED
  BY <1>1, <1>7, <1>10, <1>12, <1>13 DEF D

\* Sorting permutes rows and puts them in order.
LEMMA SortedRows ==
    ASSUME NEW rows, Rowed(rows)
    PROVE  /\ Rowed(Sorted(rows)) /\ InOrder(Sorted(rows))
           /\ DOMAIN Sorted(rows) = DOMAIN rows /\ Len(Sorted(rows)) = Len(rows)
           /\ Range(Sorted(rows)) = Range(rows)
<1> DEFINE n == Len(rows)
           D == DOMAIN rows
           f == [i \in D |-> Place(rows, i)]
           at(m) == CHOOSE i \in D : Place(rows, i) = m
           s == Sorted(rows)
<1>1. n \in Nat /\ D = 1..n /\ IsFiniteSet(D)
  BY RowedEach, FS_Interval
<1>2. f \in Injection(D, D)
  BY PlaceFollows DEF Injection, IsInjective
<1>3. f \in Surjection(D, D)
  BY <1>1, <1>2, FS_Injection
<1>4. \A m \in D : at(m) \in D /\ Place(rows, at(m)) = m
  <2>1. \A m \in D : \E i \in D : f[i] = m
    BY <1>3 DEF Surjection
  <2> QED
    BY <2>1
<1>5. DOMAIN s = D /\ \A m \in D : s[m] = rows[at(m)]
  BY DEF Sorted
<1>6. \A i \in D : Place(rows, i) \in D /\ at(Place(rows, i)) = i
  BY <1>4, PlaceFollows
<1> HIDE DEF at, f
<1>7. Rowed(s) /\ Len(s) = n
  <2>1. \A m \in D : /\ s[m].key \in Keys /\ s[m].val \in Vals
                     /\ s[m] = Row(s[m].key, s[m].val)
    BY <1>4, <1>5, RowedEach
  <2>2. \A l, m \in D : s[l].key = s[m].key => l = m
    BY <1>4, <1>5 DEF Rowed
  <2>3. \A m \in D : s[m].val = "*" => s[m].key \notin Variables \ Secrets
    BY <1>4, <1>5 DEF Rowed
  <2>4. s = [m \in 1..n |-> s[m]]
    BY <1>1, <1>5 DEF Sorted
  <2> HIDE DEF s
  <2> QED
    BY <1>1, <2>1, <2>2, <2>3, <2>4, RowedMade
<1>8. InOrder(s)
  <2> SUFFICES ASSUME NEW l \in D, NEW m \in D, l < m
               PROVE  Rank(s[l].key) < Rank(s[m].key)
    BY <1>5 DEF InOrder
  <2> QED
    BY <1>4, <1>5, PlaceFollows
<1>9. Range(s) = Range(rows)
  BY <1>4, <1>5, <1>6 DEF Range
<1> QED
  BY <1>5, <1>7, <1>8, <1>9

\* A set made into a sequence: each element once.
LEMMA SetInSeq ==
    ASSUME NEW S, IsFiniteSet(S)
    PROVE  /\ Cardinality(S) \in Nat
           /\ SetToSeq(S) \in [1..Cardinality(S) -> S]
           /\ \A i, j \in 1..Cardinality(S) : SetToSeq(S)[i] = SetToSeq(S)[j] => i = j
           /\ \A x \in S : \E i \in 1..Cardinality(S) : SetToSeq(S)[i] = x
<1> DEFINE n == Cardinality(S)
           f == SetToSeq(S)
<1>1. n \in Nat /\ ExistsBijection(1..n, S)
  BY FS_CardinalityType
<1>2. \E g \in [1..n -> S] : IsInjective(g)
  BY <1>1 DEF ExistsBijection, Bijection, Injection
<1>3. f \in [1..n -> S] /\ IsInjective(f)
  BY <1>2 DEF SetToSeq
<1>4. f \in Injection(1..n, S)
  BY <1>3 DEF Injection
<1>5. Cardinality(1..n) = n
  BY <1>1, FS_Interval
<1>6. f \in Surjection(1..n, S)
  BY <1>4, <1>5, FS_Injection
<1> HIDE DEF f, n
<1>7. \A i, j \in 1..n : f[i] = f[j] => i = j
  BY <1>3 DEF IsInjective
<1>8. \A x \in S : \E i \in 1..n : f[i] = x
  BY <1>6 DEF Surjection
<1> QED
  BY <1>1, <1>3, <1>7, <1>8 DEF f, n

\* A value is found by its key.
LEMMA ValueFound ==
    ASSUME NEW rows, Rowed(rows), NEW k, NEW v, Row(k, v) \in Range(rows)
    PROVE  k \in KeysOf(rows) /\ ValueOf(rows, k) = v
<1>1. PICK i \in DOMAIN rows : rows[i] = Row(k, v)
  BY DEF Range
<1>2. rows[i].key = k /\ rows[i].val = v
  BY <1>1, RowParts
<1>3. \A j \in DOMAIN rows : rows[j].key = k => j = i
  BY <1>2 DEF Rowed
<1> QED
  BY <1>2, <1>3 DEF KeysOf, ValueOf

\* What is found under a key is a row.
LEMMA FoundIsRow ==
    ASSUME NEW rows, Rowed(rows), NEW k \in KeysOf(rows)
    PROVE  /\ k \in Keys /\ ValueOf(rows, k) \in Vals
           /\ Row(k, ValueOf(rows, k)) \in Range(rows)
           /\ \E i \in DOMAIN rows : rows[i].key = k /\ rows[i].val = ValueOf(rows, k)
<1>1. PICK i \in DOMAIN rows : rows[i].key = k
  BY DEF KeysOf
<1>2. ValueOf(rows, k) = rows[i].val
  BY <1>1 DEF ValueOf, Rowed
<1>3. rows[i] = Row(k, rows[i].val) /\ rows[i].key \in Keys /\ rows[i].val \in Vals
  BY <1>1, RowedEach
<1> QED
  BY <1>1, <1>2, <1>3 DEF Range

\* Keys are those of the rows, in whatever order.
LEMMA KeysInRange ==
    ASSUME NEW r, NEW s, Range(r) = Range(s)
    PROVE  KeysOf(r) = KeysOf(s)
<1>1. \A q : KeysOf(q) = {x.key : x \in Range(q)}
  BY DEF KeysOf, Range
<1> QED
  BY <1>1

\* loadConfigVect() takes the rows as they are loaded.
LEMMA TakenRows ==
    ASSUME NEW rows, Rowed(rows)
    PROVE  /\ Rowed(Taken(rows)) /\ KeysOf(Taken(rows)) = KeysOf(rows)
           /\ \A k, v : Row(k, v) \in Range(rows) => Row(k, Loaded(v)) \in Range(Taken(rows))
           /\ build \in Builds /\ Complete(rows) => Complete(Taken(rows))
<1> DEFINE s == Taken(rows)
           n == Len(rows)
<1>1. /\ n \in Nat /\ DOMAIN rows = 1..n
      /\ \A i \in 1..n : /\ rows[i].key \in Keys /\ rows[i].val \in Vals
                          /\ rows[i] = Row(rows[i].key, rows[i].val)
  BY RowedEach
<1>2. /\ s = [i \in 1..n |-> s[i]] /\ DOMAIN s = 1..n
      /\ \A i \in 1..n : s[i] = Row(rows[i].key, Loaded(rows[i].val))
  BY <1>1 DEF Taken
<1> HIDE DEF s, n
<1>3. \A i \in 1..n : s[i].key = rows[i].key /\ s[i].val = Loaded(rows[i].val)
  BY <1>2, RowParts
<1>4. \A i \in 1..n : s[i].key \in Keys /\ s[i].val \in Vals /\ s[i] = Row(s[i].key, s[i].val)
  BY <1>1, <1>2, <1>3, LoadedIs
<1>5. /\ \A i, j \in 1..n : s[i].key = s[j].key => i = j
      /\ \A i \in 1..n : s[i].val = "*" => s[i].key \notin Variables \ Secrets
  BY <1>1, <1>3, LoadedIs DEF Rowed
<1>6. Rowed(s)
  BY <1>1, <1>2, <1>4, <1>5, RowedMade
<1>7. KeysOf(s) = KeysOf(rows)
  BY <1>1, <1>2, <1>3 DEF KeysOf
<1>8. \A k, v : Row(k, v) \in Range(rows) => Row(k, Loaded(v)) \in Range(s)
  <2> SUFFICES ASSUME NEW k, NEW v, NEW i \in 1..n, rows[i] = Row(k, v)
               PROVE  Row(k, Loaded(v)) \in Range(s)
    BY <1>1 DEF Range
  <2>1. rows[i].key = k /\ rows[i].val = v
    BY RowParts
  <2>2. s[i] = Row(k, Loaded(v))
    BY <1>2, <2>1
  <2> QED
    BY <1>2, <2>2 DEF Range
<1>9. build \in Builds /\ Complete(rows) => Complete(s)
  <2> SUFFICES ASSUME build \in Builds, Complete(rows) PROVE Complete(s)
    OBVIOUS
  <2>1. Loaded("own") = "own" /\ Loaded(build.cfgVer) = build.cfgVer
    BY LoadedIs
  <2>2. Row("appId", Loaded("own")) \in Range(s) /\ Row("cfgVer", Loaded(build.cfgVer)) \in Range(s)
    BY <1>8 DEF Complete
  <2> QED
    BY <2>1, <2>2 DEF Complete
<1> QED
  BY <1>6, <1>7, <1>8, <1>9 DEF s

\* As many rows as reached the card.
LEMMA PrefixRowed ==
    ASSUME NEW rows, Rowed(rows), NEW n \in 0..Len(rows)
    PROVE  /\ Rowed(SubSeq(rows, 1, n))
           /\ Starred(rows) => Starred(SubSeq(rows, 1, n))
<1> DEFINE s == SubSeq(rows, 1, n)
           m == Len(rows)
<1>1. m \in Nat /\ DOMAIN rows = 1..m /\ rows \in Seq([key : Keys, val : Vals])
  BY RowedEach DEF Rowed
<1>2. n \in Nat /\ n <= m
  BY <1>1
<1>3. DOMAIN s = 1..n /\ s = [i \in 1..n |-> s[i]] /\ \A i \in 1..n : s[i] = rows[i]
  BY <1>1, <1>2
<1>4. \A i \in 1..n : i \in DOMAIN rows
  BY <1>1, <1>2
<1> HIDE DEF s, m
<1>5. \A i \in 1..n : s[i].key \in Keys /\ s[i].val \in Vals /\ s[i] = Row(s[i].key, s[i].val)
  BY <1>3, <1>4, RowedEach
<1>6. /\ \A i, j \in 1..n : s[i].key = s[j].key => i = j
      /\ \A i \in 1..n : s[i].val = "*" => s[i].key \notin Variables \ Secrets
  BY <1>3, <1>4 DEF Rowed
<1>7. Rowed(s)
  BY <1>2, <1>3, <1>5, <1>6, RowedMade
<1>8. Starred(rows) => Starred(s)
  BY <1>3, <1>4 DEF Starred
<1> QED
  BY <1>7, <1>8 DEF s

\* A value is changed in its row alone.
LEMMA UpdatedRows ==
    ASSUME NEW rows, Rowed(rows), NEW k \in Variables, NEW v \in Vals, v = "*" => k \in Secrets
    PROVE  /\ Rowed(Update(rows, k, v)) /\ DOMAIN Update(rows, k, v) = DOMAIN rows
           /\ \A i \in DOMAIN rows : /\ Update(rows, k, v)[i].key = rows[i].key
                                     /\ Update(rows, k, v)[i].val = IF rows[i].key = k THEN v
                                                                   ELSE rows[i].val
<1> DEFINE s == Update(rows, k, v)
           n == Len(rows)
<1>1. n \in Nat /\ DOMAIN rows = 1..n
  BY RowedEach
<1>2. s = [i \in 1..n |-> s[i]] /\ DOMAIN s = DOMAIN rows
  BY <1>1 DEF Update
<1>3. \A i \in 1..n : s[i] = IF rows[i].key = k THEN Row(k, v) ELSE rows[i]
  BY <1>1 DEF Update
<1>4. \A i \in 1..n : s[i].key = rows[i].key /\ s[i].val = IF rows[i].key = k THEN v ELSE rows[i].val
  BY <1>3, RowParts
<1>5. \A i \in 1..n : /\ rows[i].key \in Keys /\ rows[i].val \in Vals
                      /\ rows[i] = Row(rows[i].key, rows[i].val)
  BY <1>1, RowedEach
<1> HIDE DEF s, n
<1>6. \A i \in 1..n : s[i].key \in Keys /\ s[i].val \in Vals /\ s[i] = Row(s[i].key, s[i].val)
  BY <1>3, <1>4, <1>5
<1>7. \A i, j \in 1..n : s[i].key = s[j].key => i = j
  BY <1>1, <1>4 DEF Rowed
<1>8. \A i \in 1..n : s[i].val = "*" => s[i].key \notin Variables \ Secrets
  BY <1>1, <1>4 DEF Rowed
<1>9. Rowed(s)
  BY <1>1, <1>2, <1>6, <1>7, <1>8, RowedMade
<1> QED
  BY <1>1, <1>2, <1>4, <1>9 DEF s

\* With a value changed rows stay in order, and keep their keys and the other values.
LEMMA UpdateKeeps ==
    ASSUME NEW rows, Rowed(rows), NEW k \in Variables, NEW v \in Vals, v = "*" => k \in Secrets
    PROVE  /\ KeysOf(Update(rows, k, v)) = KeysOf(rows)
           /\ InOrder(rows) => InOrder(Update(rows, k, v))
           /\ \A l, x : l # k /\ Row(l, x) \in Range(rows) => Row(l, x) \in Range(Update(rows, k, v))
           /\ Complete(rows) => Complete(Update(rows, k, v))
<1> DEFINE s == Update(rows, k, v)
<1>1. /\ Rowed(s) /\ DOMAIN s = DOMAIN rows
      /\ \A i \in DOMAIN rows : s[i].key = rows[i].key /\ s[i].val = IF rows[i].key = k THEN v ELSE rows[i].val
  BY UpdatedRows
<1> HIDE DEF s
<1>2. KeysOf(s) = KeysOf(rows)
  BY <1>1 DEF KeysOf
<1>3. InOrder(rows) => InOrder(s)
  BY <1>1 DEF InOrder
<1>4. \A l, x : l # k /\ Row(l, x) \in Range(rows) => Row(l, x) \in Range(s)
  <2> SUFFICES ASSUME NEW l, NEW x, l # k, NEW i \in DOMAIN rows, rows[i] = Row(l, x)
               PROVE  s[i] = Row(l, x) /\ i \in DOMAIN s
    BY DEF Range
  <2>1. s[i] = Row(s[i].key, s[i].val)
    BY <1>1, RowedEach
  <2> QED
    BY <1>1, <2>1, RowParts
<1>5. Complete(rows) => Complete(s)
  BY <1>4 DEF Complete, Variables
<1> QED
  BY <1>2, <1>3, <1>4, <1>5 DEF s

\* What goes into the file of a row.
LEMMA WrittenRow ==
    ASSUME NEW r \in [key : Keys, val : Vals]
    PROVE  /\ Written(r) \in [key : Keys, val : Vals] /\ Written(r).key = r.key
           /\ Written(r) = Row(Written(r).key, Written(r).val)
           /\ r.key \notin Secrets => Written(r) = r
           /\ r.key \in Secrets => /\ Written(r).val \in {"", "*"}
                                   /\ Written(r).val = "" <=> r.val = ""
  BY RowMade, RowParts DEF Written, Vals, Row, Keys

\* saveConfigVect(): the rows in order, without the passwords.
ToFile(rows) == [i \in DOMAIN rows |-> Written(Sorted(rows)[i])]

\* What saveConfigVect() writes are rows, and show no password.
LEMMA FileRows ==
    ASSUME NEW rows, Rowed(rows)
    PROVE  /\ Rowed(ToFile(rows)) /\ Starred(ToFile(rows))
           /\ \A i \in DOMAIN ToFile(rows) : \E j \in DOMAIN rows :
                 ToFile(rows)[i] = Written(rows[j])
           /\ \A j \in DOMAIN rows : \E i \in DOMAIN ToFile(rows) :
                 ToFile(rows)[i] = Written(rows[j])
<1> DEFINE s == Sorted(rows)
           n == Len(rows)
           o == ToFile(rows)
<1>1. /\ Rowed(s) /\ n \in Nat /\ DOMAIN rows = 1..n /\ DOMAIN s = 1..n /\ Range(s) = Range(rows)
  BY RowedEach, SortedRows
<1>2. DOMAIN o = 1..n /\ o = [i \in 1..n |-> o[i]] /\ \A i \in 1..n : o[i] = Written(s[i])
  BY <1>1 DEF ToFile
<1> HIDE DEF s, n, o
<1>3. \A i \in 1..n : s[i] \in [key : Keys, val : Vals]
  BY <1>1, RowedEach
<1>4. \A i \in 1..n : /\ o[i].key = s[i].key /\ o[i] \in [key : Keys, val : Vals]
                      /\ o[i] = Row(o[i].key, o[i].val)
                      /\ s[i].key \notin Secrets => o[i] = s[i]
                      /\ s[i].key \in Secrets => o[i].val \in {"", "*"}
  BY <1>2, <1>3, WrittenRow
<1>5. \A i, j \in 1..n : o[i].key = o[j].key => i = j
  BY <1>1, <1>4 DEF Rowed
<1>6. \A i \in 1..n : o[i].val = "*" => o[i].key \notin Variables \ Secrets
  BY <1>1, <1>4 DEF Rowed
<1>7. \A i \in 1..n : o[i].key \in Keys /\ o[i].val \in Vals
  BY <1>4
<1>8. Rowed(o)
  BY <1>1, <1>2, <1>4, <1>5, <1>6, <1>7, RowedMade
<1>9. Starred(o)
  BY <1>2, <1>4 DEF Starred
<1>10. \A i \in 1..n : \E j \in 1..n : s[i] = rows[j]
  BY <1>1 DEF Range
<1>11. \A j \in 1..n : \E i \in 1..n : s[i] = rows[j]
  BY <1>1 DEF Range
<1>12. \A i \in 1..n : \E j \in 1..n : o[i] = Written(rows[j])
  BY <1>2, <1>10
<1>13. \A j \in 1..n : \E i \in 1..n : o[i] = Written(rows[j])
  BY <1>2, <1>11
<1> QED
  BY <1>1, <1>2, <1>8, <1>9, <1>12, <1>13 DEF o

\* Every row is written, a password as stars or as nothing.
LEMMA FileKeeps ==
    ASSUME NEW rows, Rowed(rows)
    PROVE  /\ KeysOf(ToFile(rows)) = KeysOf(rows)
           /\ \A k, v : k \notin Secrets => (Row(k, v) \in Range(ToFile(rows)) <=> Row(k, v) \in Range(rows))
           /\ Complete(rows) => Complete(ToFile(rows))
<1> DEFINE o == ToFile(rows)
<1>1. /\ \A i \in DOMAIN o : \E j \in DOMAIN rows : o[i] = Written(rows[j])
      /\ \A j \in DOMAIN rows : \E i \in DOMAIN o : o[i] = Written(rows[j])
  BY FileRows
<1>2. \A j \in DOMAIN rows : Written(rows[j]).key = rows[j].key
  BY RowedEach, WrittenRow
<1>3. \A j \in DOMAIN rows : rows[j].key \notin Secrets => Written(rows[j]) = rows[j]
  BY RowedEach, WrittenRow
<1> HIDE DEF o
<1>4. KeysOf(o) = KeysOf(rows)
  <2>1. \A i \in DOMAIN o : \E j \in DOMAIN rows : o[i].key = rows[j].key
    BY <1>1, <1>2
  <2>2. \A j \in DOMAIN rows : \E i \in DOMAIN o : o[i].key = rows[j].key
    BY <1>1, <1>2
  <2> QED
    BY <2>1, <2>2 DEF KeysOf
<1>5. \A k, v : k \notin Secrets => (Row(k, v) \in Range(o) <=> Row(k, v) \in Range(rows))
  <2> SUFFICES ASSUME NEW k, NEW v, k \notin Secrets
               PROVE  Row(k, v) \in Range(o) <=> Row(k, v) \in Range(rows)
    OBVIOUS
  <2>1. ASSUME NEW i \in DOMAIN o, o[i] = Row(k, v) PROVE Row(k, v) \in Range(rows)
    <3>1. PICK j \in DOMAIN rows : o[i] = Written(rows[j])
      BY <1>1
    <3>2. Written(rows[j]).key = k
      BY <2>1, <3>1, RowParts
    <3>3. rows[j].key = k
      BY <1>2, <3>2
    <3> QED
      BY <1>3, <2>1, <3>1, <3>3 DEF Range
  <2>2. ASSUME NEW j \in DOMAIN rows, rows[j] = Row(k, v) PROVE Row(k, v) \in Range(o)
    <3>1. PICK i \in DOMAIN o : o[i] = Written(rows[j])
      BY <1>1
    <3>2. rows[j].key = k
      BY <2>2, RowParts
    <3> QED
      BY <1>3, <2>2, <3>1, <3>2 DEF Range
  <2> QED
    BY <2>1, <2>2 DEF Range
<1>6. Complete(rows) => Complete(o)
  BY <1>5 DEF Complete, Secrets
<1> QED
  BY <1>4, <1>5, <1>6 DEF o

\* Two sequences in a row.
LEMMA AppendedIs ==
    ASSUME NEW R, NEW r \in Seq(R), NEW s \in Seq(R)
    PROVE  /\ DOMAIN (r \o s) = 1..(Len(r) + Len(s))
           /\ r \o s = [i \in 1..(Len(r) + Len(s)) |-> (r \o s)[i]]
           /\ \A i \in 1..(Len(r) + Len(s)) :
                 (r \o s)[i] = IF i <= Len(r) THEN r[i] ELSE s[i - Len(r)]
<1> DEFINE q == r \o s
<1>1. q \in Seq(R) /\ Len(q) = Len(r) + Len(s)
  OBVIOUS
<1>2. DOMAIN q = 1..Len(q) /\ q = [i \in 1..Len(q) |-> q[i]]
  <2> HIDE DEF q
  <2> QED
    BY <1>1
<1>3. \A i \in 1..(Len(r) + Len(s)) : q[i] = IF i <= Len(r) THEN r[i] ELSE s[i - Len(r)]
  OBVIOUS
<1> QED
  BY <1>1, <1>2, <1>3

\* Rows of keys that are not among the others may follow them.
LEMMA JoinedRows ==
    ASSUME NEW r, NEW s, Rowed(r), Rowed(s), KeysOf(r) \cap KeysOf(s) = {}
    PROVE  /\ Rowed(r \o s) /\ Range(r \o s) = Range(r) \cup Range(s)
<1> DEFINE m == Len(r)
           n == Len(s)
           q == r \o s
<1>1. /\ m \in Nat /\ n \in Nat /\ DOMAIN r = 1..m /\ DOMAIN s = 1..n
      /\ r \in Seq([key : Keys, val : Vals]) /\ s \in Seq([key : Keys, val : Vals])
  BY RowedEach DEF Rowed
<1>2. /\ DOMAIN q = 1..(m + n) /\ q = [i \in 1..(m + n) |-> q[i]]
      /\ \A i \in 1..(m + n) : q[i] = IF i <= m THEN r[i] ELSE s[i - m]
  BY <1>1, AppendedIs DEF Rowed
<1>3. \A i \in 1..(m + n) : IF i <= m THEN i \in DOMAIN r ELSE i - m \in DOMAIN s
  BY <1>1
<1>4. /\ \A i \in DOMAIN r : i \in 1..(m + n) /\ q[i] = r[i]
      /\ \A i \in DOMAIN s : i + m \in 1..(m + n) /\ q[i + m] = s[i]
  BY <1>1, <1>2
<1> HIDE DEF q, m, n
<1>5. \A i \in 1..(m + n) :
         /\ q[i].key \in Keys /\ q[i].val \in Vals /\ q[i] = Row(q[i].key, q[i].val)
         /\ q[i].val = "*" => q[i].key \notin Variables \ Secrets
  <2>0. ASSUME NEW rows, Rowed(rows), NEW i \in DOMAIN rows
        PROVE  /\ rows[i].key \in Keys /\ rows[i].val \in Vals
               /\ rows[i] = Row(rows[i].key, rows[i].val)
               /\ rows[i].val = "*" => rows[i].key \notin Variables \ Secrets
    BY <2>0, RowedEach DEF Rowed
  <2> TAKE i \in 1..(m + n)
  <2>1. CASE i <= m
    BY <1>2, <1>3, <2>0, <2>1
  <2>2. CASE ~(i <= m)
    <3>1. q[i] = s[i - m] /\ i - m \in DOMAIN s
      BY <1>2, <1>3, <2>2
    <3> QED
      BY <2>0, <3>1
  <2> QED
    BY <2>1, <2>2
<1>6. \A i, j \in 1..(m + n) : q[i].key = q[j].key => i = j
  <2> SUFFICES ASSUME NEW i \in 1..(m + n), NEW j \in 1..(m + n), q[i].key = q[j].key
               PROVE  i = j
    OBVIOUS
  <2>0. i \in Int /\ j \in Int /\ m \in Int
    BY <1>1
  <2>1. CASE i <= m /\ j <= m
    BY <1>2, <1>3, <2>1 DEF Rowed
  <2>2. CASE ~(i <= m) /\ ~(j <= m)
    <3>1. i - m = j - m
      BY <1>2, <1>3, <2>2 DEF Rowed
    <3> QED
      BY <3>1, <2>0
  <2>3. CASE i <= m /\ ~(j <= m)
    BY <1>2, <1>3, <2>3 DEF KeysOf
  <2>4. CASE ~(i <= m) /\ j <= m
    BY <1>2, <1>3, <2>4 DEF KeysOf
  <2> QED
    BY <2>1, <2>2, <2>3, <2>4
<1>7. m + n \in Nat
  BY <1>1
<1>8. Rowed(q)
  BY <1>2, <1>5, <1>6, <1>7, RowedMade
<1>9. Range(q) = Range(r) \cup Range(s)
  <2>1. \A i \in DOMAIN q : \/ \E j \in DOMAIN r : q[i] = r[j]
                           \/ \E j \in DOMAIN s : q[i] = s[j]
    BY <1>2, <1>3
  <2>2. /\ \A j \in DOMAIN r : \E i \in DOMAIN q : q[i] = r[j]
        /\ \A j \in DOMAIN s : \E i \in DOMAIN q : q[i] = s[j]
    BY <1>2, <1>4
  <2> QED
    BY <2>1, <2>2 DEF Range
<1> QED
  BY <1>8, <1>9 DEF q

\* A row without a value for each of the keys.
LEMMA EmptyRows ==
    ASSUME NEW K \in SUBSET {"AP_Pass", "ST_SSID", "extIP", "fhdProfile", "tgramToken"}
    PROVE  LET s == SetToSeq({Row(k, "") : k \in K}) IN
           /\ Rowed(s) /\ KeysOf(s) = K /\ (s = << >> => K = {})
           /\ \A i \in DOMAIN s : s[i].val = ""
           /\ Range(s) = {Row(k, "") : k \in K}
<1> DEFINE S == {Row(k, "") : k \in K}
           s == SetToSeq(S)
           n == Cardinality(S)
<1>1. IsFiniteSet(K)
  <2>1. IsFiniteSet({"AP_Pass"} \cup {"ST_SSID"} \cup {"extIP"} \cup {"fhdProfile"} \cup {"tgramToken"})
    BY FS_Singleton, FS_Union
  <2>2. K \in SUBSET ({"AP_Pass"} \cup {"ST_SSID"} \cup {"extIP"} \cup {"fhdProfile"} \cup {"tgramToken"})
    OBVIOUS
  <2> QED
    BY <2>1, <2>2, FS_Subset
<1>2. IsFiniteSet(S)
  <2> DEFINE f == [k \in K |-> Row(k, "")]
  <2>1. f \in Surjection(K, S)
    BY DEF Surjection
  <2> HIDE DEF f, S
  <2> QED
    BY <1>1, <2>1, FS_Surjection
<1>3. /\ n \in Nat /\ s \in [1..n -> S]
      /\ \A i, j \in 1..n : s[i] = s[j] => i = j
      /\ \A x \in S : \E i \in 1..n : s[i] = x
  BY <1>2, SetInSeq
<1> HIDE DEF s, n
<1>4. \A i \in 1..n : \E k \in K : s[i] = Row(k, "")
  <2> TAKE i \in 1..n
  <2>1. s[i] \in S
    BY <1>3
  <2> QED
    BY <2>1
<1>5. \A i \in 1..n : s[i].key \in K /\ s[i].val = "" /\ s[i] = Row(s[i].key, s[i].val)
  <2> TAKE i \in 1..n
  <2>1. PICK k \in K : s[i] = Row(k, "")
    BY <1>4
  <2>2. Row(k, "").key = k /\ Row(k, "").val = ""
    BY RowParts
  <2>3. s[i].key = k /\ s[i].val = ""
    BY <2>1, <2>2
  <2> QED
    BY <2>1, <2>3
<1>6. s = [i \in 1..n |-> s[i]] /\ DOMAIN s = 1..n
  BY <1>3
<1>7. \A i, j \in 1..n : s[i].key = s[j].key => i = j
  <2>1. \A i, j \in 1..n : s[i].key = s[j].key => s[i] = s[j]
    BY <1>5
  <2> QED
    BY <1>3, <2>1
<1>8. \A i \in 1..n : s[i].key \in Keys /\ s[i].val \in Vals /\ s[i].val # "*"
  BY <1>5 DEF Keys, Vals
<1>9. Rowed(s)
  BY <1>3, <1>5, <1>6, <1>7, <1>8, RowedMade
<1>10. \A k \in K : \E i \in 1..n : s[i] = Row(k, "")
  <2> TAKE k \in K
  <2>1. Row(k, "") \in S
    OBVIOUS
  <2> HIDE DEF S
  <2> QED
    BY <1>3, <2>1
<1>11. KeysOf(s) = K
  <2>1. \A k \in K : \E i \in 1..n : s[i].key = k
    BY <1>10, RowParts
  <2>2. \A i \in DOMAIN s : s[i].key \in K
    BY <1>5, <1>6
  <2>3. \A k \in K : \E i \in DOMAIN s : s[i].key = k
    BY <1>6, <2>1
  <2>4. KeysOf(s) = {s[i].key : i \in DOMAIN s}
    BY DEF KeysOf
  <2> QED
    BY <2>2, <2>3, <2>4
<1>12. s = << >> => K = {}
  <2>1. \A k \in K : DOMAIN s # {}
    BY <1>6, <1>10
  <2> QED
    BY <2>1
<1>13. Range(s) = S
  <2> HIDE DEF S
  <2> QED
    BY <1>3, <1>6 DEF Range
<1> QED
  BY <1>5, <1>6, <1>9, <1>11, <1>12, <1>13 DEF s
----------------------------------------------------------------------------
(* The lookups, whatever races CfgRaces lets happen.                       *)

\* No rows at all, the rows of another application's card, and a mark that is none.
LEMMA FewRows == /\ Rowed(<< >>) /\ ~Rowed(Nothing) /\ InOrder(<< >>) /\ Starred(<< >>)
                 /\ build \in Builds => Rowed(<<Row("appId", "other"), Row("cfgVer", build.cfgVer)>>)
<1>1. Rowed(<< >>) /\ InOrder(<< >>) /\ Starred(<< >>)
  BY DEF Rowed, InOrder, Starred
<1>2. ~Rowed(Nothing)
  <2>1. Nothing[1] = Row("", "") /\ 1 \in DOMAIN Nothing
    BY DEF Nothing
  <2>2. Row("", "").key \notin Keys
    <3>1. Row("", "").key = ""
      BY RowParts
    <3> QED
      BY <3>1 DEF Keys
  <2> QED
    BY <2>1, <2>2, RowedEach
<1>3. ASSUME build \in Builds
      PROVE  Rowed(<<Row("appId", "other"), Row("cfgVer", build.cfgVer)>>)
  <2> DEFINE r == <<Row("appId", "other"), Row("cfgVer", build.cfgVer)>>
  <2>1. r[1] = Row("appId", "other") /\ r[2] = Row("cfgVer", build.cfgVer) /\ r = [i \in 1..2 |-> r[i]]
    OBVIOUS
  <2> HIDE DEF r
  <2>2. /\ r[1].key = "appId" /\ r[1].val = "other"
        /\ r[2].key = "cfgVer" /\ r[2].val = build.cfgVer
    BY <2>1, RowParts
  <2>3. \A i \in 1..2 : r[i] = Row(r[i].key, r[i].val)
    <3>1. r[1] = Row(r[1].key, r[1].val)
      BY <2>1, <2>2
    <3>2. r[2] = Row(r[2].key, r[2].val)
      BY <2>1, <2>2
    <3> QED
      BY <3>1, <3>2
  <2>6. \A i \in 1..2 : r[i].key \in Keys /\ r[i].val \in Vals /\ r[i].key \notin Variables
    <3>1. build.cfgVer \in Vals /\ "other" \in Vals
      BY <1>3 DEF Vals
    <3>2. \A i \in 1..2 : i = 1 \/ i = 2
      OBVIOUS
    <3> QED
      BY <2>2, <3>1, <3>2 DEF Keys, Variables
  <2>4. \A i, j \in 1..2 : r[i].key = r[j].key => i = j
    BY <2>2
  <2>5. Rowed(r)
    BY <2>1, <2>3, <2>4, <2>6, RowedMade
  <2> QED
    BY <2>5 DEF r
<1> QED
  BY <1>1, <1>2, <1>3

\* One task begins or ends its save.
LEMMA OneSaving ==
    ASSUME saving = [t \in Tasks |-> saving[t]], NEW t \in Tasks, NEW r,
           saving' = [saving EXCEPT ![t] = r]
    PROVE  /\ saving' = [u \in Tasks |-> saving'[u]]
           /\ saving'[t] = r /\ \A u \in Tasks \ {t} : saving'[u] = saving[u]
  OBVIOUS

\* The state before the first boot.
LEMMA LookInit == CfgInit => LookInv
<1> SUFFICES ASSUME CfgInit PROVE LookInv
  OBVIOUS
<1> USE DEF CfgInit
<1>1. "" \in Vals \ {"*"}
  BY DEF Vals
<1>2. CfgTyped
  BY <1>1, FewRows DEF CfgTyped, AppTyped, Phases
<1>3. BootsInTwo /\ Ordered
  BY DEF BootsInTwo, Ordered, Tasks
<1> QED
  BY <1>2, <1>3 DEF LookInv

\* A reset forgets all but the card and NVS.
LEMMA LookReset ==
    ASSUME LookInv, NEW b \in Builds, ResetTo(b), configFile' = Nothing \/ Rowed(configFile')
    PROVE  LookInv'
<1> USE DEF LookInv, ResetTo
<1>1. "" \in Vals \ {"*"}
  BY DEF Vals
<1>2. CfgTyped'
  BY <1>1, FewRows DEF CfgTyped, AppTyped, Phases
<1>3. BootsInTwo' /\ Ordered'
  BY DEF BootsInTwo, Ordered, Tasks
<1> QED
  BY <1>2, <1>3

\* Power, firmware and card.
LEMMA LookPower ==
    ASSUME LookInv, PowerLost \/ Updated \/ DataDeleted \/ OtherCard \/ PowerOn
    PROVE  LookInv'
<1>1. CASE PowerLost
  <2>1. build \in Builds /\ ResetTo(build)
    BY <1>1 DEF LookInv, CfgTyped, PowerLost
  <2>2. CASE Idle
    BY <1>1, <2>1, <2>2, LookReset DEF LookInv, CfgTyped, PowerLost
  <2>3. CASE ~Idle
    <3>1. PICK t \in Tasks : saving[t] # Nothing /\ \E n \in 0..Len(saving[t]) : configFile' = SubSeq(saving[t], 1, n)
      BY <1>1, <2>3 DEF PowerLost
    <3>2. Rowed(saving[t])
      BY <3>1 DEF LookInv, CfgTyped
    <3>3. Rowed(configFile')
      BY <3>1, <3>2, PrefixRowed
    <3> QED
      BY <2>1, <3>3, LookReset
  <2> QED
    BY <2>2, <2>3
<1>2. CASE Updated
  <2>1. PICK b \in Builds : ResetTo(b)
    BY <1>2 DEF Updated
  <2>2. configFile' = configFile
    BY <1>2 DEF Updated
  <2> QED
    BY <2>1, <2>2, LookReset DEF LookInv, CfgTyped
<1>3. CASE DataDeleted
  BY <1>3, LookReset DEF LookInv, CfgTyped, DataDeleted
<1>4. CASE OtherCard
  <2> USE <1>4 DEF OtherCard, memory, counted
  <2>1. Rowed(configFile')
    BY FewRows DEF LookInv, CfgTyped
  <2>2. CfgTyped'
    BY <2>1 DEF LookInv, CfgTyped, AppTyped
  <2>3. BootsInTwo' /\ Ordered'
    BY DEF LookInv, BootsInTwo, Ordered
  <2> QED
    BY <2>2, <2>3 DEF LookInv
<1>5. CASE PowerOn
  <2> USE <1>5 DEF PowerOn, memory, stored
  <2>1. CfgTyped'
    BY DEF LookInv, CfgTyped, AppTyped, Phases
  <2>2. BootsInTwo' /\ Ordered'
    BY DEF LookInv, BootsInTwo, Ordered
  <2> QED
    BY <2>1, <2>2 DEF LookInv
<1> QED
  BY <1>1, <1>2, <1>3, <1>4, <1>5

\* What the user and the ping task change.
LEMMA LookSets ==
    ASSUME LookInv, UserSets \/ Clear
    PROVE  LookInv'
<1>1. ASSUME NEW k \in Variables, NEW v \in Tried \cup {"*"}, v = "*" => k \in Secrets, Set(k, v)
      PROVE  LookInv'
  <2> USE <1>1 DEF Set, stored
  <2>1. v \in Vals /\ (v = "*" => k \in Secrets) /\ Rowed(configs)
    BY DEF Vals, LookInv, CfgTyped
  <2>2. Rowed(configs')
    BY <2>1, UpdatedRows
  <2>3. /\ KeysOf(configs') = KeysOf(configs)
        /\ InOrder(configs) => InOrder(configs')
        /\ Complete(configs) => Complete(configs')
    BY <2>1, UpdateKeeps DEF Complete
  <2>4. AppTyped'
    BY <2>1 DEF LookInv, CfgTyped, AppTyped, Secrets
  <2>5. CfgTyped'
    BY <2>2, <2>4 DEF LookInv, CfgTyped
  <2>6. BootsInTwo' /\ Ordered'
    BY <2>3 DEF LookInv, BootsInTwo, Ordered, Complete
  <2> QED
    BY <2>5, <2>6 DEF LookInv
<1>2. CASE UserSets
  <2>1. build.keys \subseteq {"AP_Pass", "ST_SSID", "extIP", "fhdProfile", "tgramToken"}
    BY ConfigAssumption DEF LookInv, CfgTyped
  <2>2. "*" \notin Tried
    BY ConfigAssumption
  <2> QED
    BY <1>1, <1>2, <2>1, <2>2 DEF UserSets, Variables, Secrets
<1>3. CASE Clear
  <2> USE <1>3 DEF Clear
  <2>0. "" \in Vals \ {"*"}
    BY DEF Vals
  <2>1. CfgTyped'
    BY <2>0 DEF LookInv, CfgTyped, AppTyped
  <2>2. BootsInTwo' /\ Ordered'
    BY DEF LookInv, BootsInTwo, Ordered, Complete
  <2> QED
    BY <2>1, <2>2 DEF LookInv
<1> QED
  BY <1>2, <1>3

\* A save begins.
LEMMA LookSaves ==
    ASSUME LookInv, UserSaves(TRUE) \/ UserSaves(FALSE) \/ ExtIpChanges
    PROVE  LookInv'
<1>1. ASSUME NEW t \in {"web", "ping"}, NEW rows, Rowed(rows), phase = "up", phase' = "up",
             SaveConfigVect(t, rows), KeysOf(rows) = KeysOf(configs),
             Complete(configs) => Complete(rows),
             AppTyped', nvs' \in [Prefs -> Vals \ {"*"}],
             UNCHANGED <<build, check, prefsOpen>>
      PROVE  LookInv'
  <2>1. Rowed(ToFile(rows))
    BY <1>1, FileRows
  <2>2. saving' = [saving EXCEPT ![t] = ToFile(rows)]
    BY <1>1 DEF SaveConfigVect, ToFile
  <2>3. /\ saving' = [u \in Tasks |-> saving'[u]]
        /\ saving'[t] = ToFile(rows) /\ \A u \in Tasks \ {t} : saving'[u] = saving[u]
    BY <2>2, OneSaving DEF LookInv, CfgTyped, Tasks
  <2>4. configs' = Sorted(rows) /\ configFile' = << >>
    BY <1>1 DEF SaveConfigVect
  <2>5. Rowed(configs') /\ InOrder(configs') /\ Range(configs') = Range(rows)
    BY <1>1, <2>4, SortedRows
  <2>6. KeysOf(configs') = KeysOf(configs) /\ (Complete(configs) => Complete(configs'))
    <3>1. KeysOf(configs') = KeysOf(rows)
      BY <2>5, KeysInRange
    <3>2. Complete(rows) => Complete(configs')
      BY <2>5 DEF Complete
    <3> QED
      BY <1>1, <3>1, <3>2
  <2>7. CfgTyped'
    BY <1>1, <2>1, <2>3, <2>4, <2>5, FewRows DEF LookInv, CfgTyped
  <2>8. BootsInTwo' /\ Ordered'
    <3>1. InOrder(configs)' /\ (Complete(configs) => Complete(configs)')
      BY <1>1, <2>5, <2>6 DEF Complete
    <3>2. build.keys \subseteq KeysOf(configs) => (build.keys \subseteq KeysOf(configs))'
      BY <1>1, <2>6
    <3>3. saving["boot"] = Nothing => saving'["boot"] = Nothing
      BY <2>3 DEF Tasks
    <3> QED
      BY <1>1, <3>1, <3>2, <3>3 DEF LookInv, BootsInTwo, Ordered
  <2> QED
    BY <2>7, <2>8 DEF LookInv
<1>2. ASSUME NEW one \in BOOLEAN, UserSaves(one) PROVE LookInv'
  <2>1. nvs' \in [Prefs -> Vals \ {"*"}]
    BY <1>2 DEF UserSaves, SavePrefs, LookInv, CfgTyped, AppTyped, Prefs, Variables
  <2>2. SaveConfigVect("web", configs) /\ phase = "up" /\ UNCHANGED <<build, phase, check, app, prefsOpen>>
    BY <1>2 DEF UserSaves
  <2>3. AppTyped' /\ Rowed(configs)
    BY <2>2 DEF LookInv, CfgTyped, AppTyped
  <2> QED
    BY <1>1, <2>1, <2>2, <2>3
<1>3. CASE ExtIpChanges
  <2>1. PICK v \in Tried : /\ app' = [app EXCEPT !["extIP"] = v]
                           /\ SaveConfigVect("ping", Update(configs, "extIP", v))
    BY <1>3 DEF ExtIpChanges
  <2>2. v \in Vals \ {"*"} /\ "extIP" \in Variables /\ Rowed(configs)
    BY ConfigAssumption DEF Vals, Variables, LookInv, CfgTyped
  <2> DEFINE u == Update(configs, "extIP", v)
  <2>3. Rowed(u) /\ KeysOf(u) = KeysOf(configs) /\ (Complete(configs) => Complete(u))
    BY <2>2, UpdatedRows, UpdateKeeps
  <2>4. AppTyped'
    BY <2>1, <2>2 DEF LookInv, CfgTyped, AppTyped
  <2>5. phase = "up" /\ phase' = "up" /\ UNCHANGED <<build, check, prefsOpen, nvs>>
    BY <1>3 DEF ExtIpChanges
  <2>6. nvs' \in [Prefs -> Vals \ {"*"}]
    BY <2>5 DEF LookInv, CfgTyped
  <2>7. SaveConfigVect("ping", u)
    BY <2>1
  <2> HIDE DEF u
  <2> QED
    BY <1>1, <2>3, <2>4, <2>5, <2>6, <2>7
<1> QED
  BY <1>2, <1>3

\* A save ends, alone or not.
LEMMA LookSaved ==
    ASSUME LookInv, NEW t \in {"web", "ping"}, SaveEnds(t)
    PROVE  LookInv'
<1> USE DEF SaveEnds, memory, counted
<1>1. Rowed(saving[t])
  BY DEF LookInv, CfgTyped, Tasks
<1>2. Rowed(configFile')
  BY <1>1, PrefixRowed
<1>3. /\ saving' = [u \in Tasks |-> saving'[u]]
      /\ saving'[t] = Nothing /\ \A u \in Tasks \ {t} : saving'[u] = saving[u]
  BY OneSaving DEF LookInv, CfgTyped, Tasks
<1>4. CfgTyped'
  BY <1>2, <1>3 DEF LookInv, CfgTyped, AppTyped
<1>5. BootsInTwo' /\ Ordered'
  BY <1>3 DEF LookInv, BootsInTwo, Ordered, Complete, Tasks
<1> QED
  BY <1>4, <1>5 DEF LookInv

\* What the program writes of its own are rows, in any build.
LEMMA OwnIs ==
    ASSUME build \in Builds
    PROVE  /\ Rowed(OwnRows) /\ Complete(OwnRows) /\ KeysOf(OwnRows) \cap build.keys = {}
           /\ Starred(OwnRows)
<1> DEFINE r == OwnRows
<1>1. /\ r[1] = Row("appId", "own") /\ r[2] = Row("hostName", "own")
      /\ r[3] = Row("cfgVer", build.cfgVer) /\ r = [i \in 1..3 |-> r[i]] /\ DOMAIN r = 1..3
  BY DEF OwnRows
<1> HIDE DEF r
<1>2. /\ r[1].key = "appId" /\ r[1].val = "own" /\ r[2].key = "hostName" /\ r[2].val = "own"
      /\ r[3].key = "cfgVer" /\ r[3].val = build.cfgVer
  BY <1>1, RowParts
<1>3. \A i \in 1..3 : r[i] = Row(r[i].key, r[i].val)
  <2>1. r[1] = Row(r[1].key, r[1].val)
    BY <1>1, <1>2
  <2>2. r[2] = Row(r[2].key, r[2].val)
    BY <1>1, <1>2
  <2>3. r[3] = Row(r[3].key, r[3].val)
    BY <1>1, <1>2
  <2> QED
    BY <2>1, <2>2, <2>3
<1>4. \A i \in 1..3 : r[i].key \in {"appId", "hostName", "cfgVer"} /\ r[i].val \in Vals
                      /\ (r[i].val = "*" => r[i].key = "cfgVer")
  <2>1. build.cfgVer \in Vals /\ "own" \in Vals
    BY DEF Vals
  <2>2. \A i \in 1..3 : i = 1 \/ i = 2 \/ i = 3
    OBVIOUS
  <2> QED
    BY <1>2, <2>1, <2>2
<1>5. \A i \in 1..3 : r[i].key \in Keys /\ (r[i].val = "*" => r[i].key \notin Variables \ Secrets)
  BY <1>4 DEF Keys, Variables
<1>6. \A i, j \in 1..3 : r[i].key = r[j].key => i = j
  BY <1>2
<1>7. Rowed(r)
  BY <1>1, <1>3, <1>4, <1>5, <1>6, RowedMade
<1>8. Complete(r)
  BY <1>1 DEF Complete, Range
<1>9. KeysOf(r) \subseteq {"appId", "hostName", "cfgVer"} /\ Starred(r)
  BY <1>1, <1>4 DEF KeysOf, Starred, Secrets
<1>10. build.keys \subseteq {"AP_Pass", "ST_SSID", "extIP", "fhdProfile", "tgramToken"}
  BY ConfigAssumption
<1> QED
  BY <1>7, <1>8, <1>9, <1>10 DEF r

\* checkConfigFile(): the table of the build, then the program's own rows.
LEMMA CreatedRows ==
    ASSUME build \in Builds
    PROVE  /\ Rowed(Defaults \o OwnRows) /\ Complete(Defaults \o OwnRows)
           /\ Starred(Defaults \o OwnRows)
<1>1. build.keys \in SUBSET {"AP_Pass", "ST_SSID", "extIP", "fhdProfile", "tgramToken"}
  BY ConfigAssumption
<1>2. /\ Rowed(Defaults) /\ KeysOf(Defaults) = build.keys
      /\ \A i \in DOMAIN Defaults : Defaults[i].val = ""
  BY <1>1, EmptyRows DEF Defaults
<1>3. /\ Rowed(OwnRows) /\ Complete(OwnRows) /\ KeysOf(OwnRows) \cap build.keys = {}
      /\ Starred(OwnRows)
  BY OwnIs
<1>4. /\ Rowed(Defaults \o OwnRows)
      /\ Range(Defaults \o OwnRows) = Range(Defaults) \cup Range(OwnRows)
  <2>1. KeysOf(Defaults) \cap KeysOf(OwnRows) = {}
    BY <1>2, <1>3
  <2> QED
    BY <1>2, <1>3, <2>1, JoinedRows
<1>5. Complete(Defaults \o OwnRows)
  BY <1>3, <1>4 DEF Complete
<1>6. Starred(Defaults \o OwnRows)
  <2>1. \A r \in Range(Defaults \o OwnRows) : r.key \in Secrets => r.val \in {"", "*"}
    BY <1>2, <1>3, <1>4 DEF Starred, Range
  <2> QED
    BY <2>1 DEF Starred, Range
<1> QED
  BY <1>4, <1>5, <1>6

\* mergeDefaultConfigs(): the rows of the file and those of the build it lacks, in order.
LEMMA MergedRows ==
    ASSUME LookInv
    PROVE  /\ Missing = << >> => build.keys \subseteq KeysOf(configs)
           /\ Rowed(Merged) /\ InOrder(Merged)
           /\ build.keys \subseteq KeysOf(Merged) /\ KeysOf(configs) \subseteq KeysOf(Merged)
           /\ Complete(configs) => Complete(Merged)
           /\ Range(configs) \subseteq Range(Merged)
           /\ \A r \in Range(Merged) \ Range(configs) : r.val = "" /\ r.key \notin KeysOf(configs)
<1> DEFINE K == build.keys \ KeysOf(configs)
<1>1. K \in SUBSET {"AP_Pass", "ST_SSID", "extIP", "fhdProfile", "tgramToken"}
  BY ConfigAssumption DEF LookInv, CfgTyped
<1>2. /\ Rowed(Missing) /\ KeysOf(Missing) = K /\ (Missing = << >> => K = {})
      /\ \A i \in DOMAIN Missing : Missing[i].val = ""
  <2> HIDE DEF K
  <2>1. Missing = SetToSeq({Row(k, "") : k \in K})
    BY DEF Missing, K
  <2> QED
    BY <1>1, <2>1, EmptyRows
<1>3. Rowed(configs)
  BY DEF LookInv, CfgTyped
<1> DEFINE q == configs \o Missing
<1>4. Rowed(q) /\ Range(q) = Range(configs) \cup Range(Missing)
  BY <1>2, <1>3, JoinedRows
<1> HIDE DEF q
<1>5. Merged = Sorted(q)
  BY DEF Merged, q
<1>6. Rowed(Merged) /\ InOrder(Merged) /\ Range(Merged) = Range(configs) \cup Range(Missing)
  BY <1>4, <1>5, SortedRows
<1>7. \A s : KeysOf(s) = {r.key : r \in Range(s)}
  BY DEF KeysOf, Range
<1>8. KeysOf(Merged) = KeysOf(configs) \cup K
  BY <1>2, <1>6, <1>7
<1>9. \A r \in Range(Missing) : r.val = "" /\ r.key \in K
  BY <1>2 DEF Range, KeysOf
<1>10. Complete(configs) => Complete(Merged)
  BY <1>6 DEF Complete
<1> QED
  BY <1>2, <1>6, <1>8, <1>9, <1>10

\* checkConfigFile().
LEMMA LookChecks ==
    ASSUME LookInv, CreateConfigFile \/ ConfigFileCreated \/ CheckConfigFile
    PROVE  LookInv'
<1>1. CASE CreateConfigFile
  <2> USE <1>1 DEF CreateConfigFile, counted
  <2>1. Rowed(Defaults \o OwnRows) /\ Complete(Defaults \o OwnRows)
    BY CreatedRows DEF LookInv, CfgTyped
  <2>2. /\ saving' = [u \in Tasks |-> saving'[u]]
        /\ saving'["boot"] = Defaults \o OwnRows
        /\ \A u \in Tasks \ {"boot"} : saving'[u] = saving[u]
    BY OneSaving DEF LookInv, CfgTyped, Tasks
  <2>3. AppTyped'
    BY DEF LookInv, CfgTyped, AppTyped, Vals
  <2>4. CfgTyped'
    BY <2>1, <2>2, <2>3, FewRows DEF LookInv, CfgTyped, Phases
  <2>5. BootsInTwo' /\ Ordered'
    BY <2>1, <2>2, FewRows DEF LookInv, BootsInTwo, Ordered, Complete, Tasks
  <2> QED
    BY <2>4, <2>5 DEF LookInv
<1>2. CASE ConfigFileCreated
  <2> USE <1>2 DEF ConfigFileCreated, memory, counted
  <2>1. /\ saving' = [u \in Tasks |-> saving'[u]]
        /\ saving'["boot"] = Nothing
        /\ \A u \in Tasks \ {"boot"} : saving'[u] = saving[u]
    BY OneSaving DEF LookInv, CfgTyped, Tasks
  <2>2. Rowed(configFile') /\ Complete(configFile')
    BY DEF LookInv, CfgTyped, Ordered, Tasks
  <2>3. CfgTyped'
    BY <2>1, <2>2 DEF LookInv, CfgTyped, AppTyped, Phases
  <2>4. BootsInTwo' /\ Ordered'
    BY <2>1, <2>2, FewRows DEF LookInv, BootsInTwo, Ordered, Complete, Tasks
  <2> QED
    BY <2>3, <2>4 DEF LookInv
<1>3. CASE CheckConfigFile
  <2> USE <1>3 DEF CheckConfigFile, counted
  <2>0. check = 1 /\ "" \in Vals \ {"*"} /\ Rowed(configFile)
    BY DEF LookInv, BootsInTwo, CfgTyped, Vals
  <2>1. CASE RightVersion /\ RightApp
    <3>1. Complete(configFile)
      <4>1. /\ "cfgVer" \in KeysOf(configFile) /\ ValueOf(configFile, "cfgVer") = build.cfgVer
            /\ "appId" \in KeysOf(configFile) /\ ValueOf(configFile, "appId") = "own"
        BY <2>1 DEF RightVersion, RightApp
      <4>2. Row("cfgVer", build.cfgVer) \in Range(configFile)
        BY <2>0, <4>1, FoundIsRow
      <4>3. Row("appId", "own") \in Range(configFile)
        BY <2>0, <4>1, FoundIsRow
      <4> QED
        BY <4>2, <4>3 DEF Complete
    <3>2. CfgTyped'
      BY <2>1 DEF LookInv, CfgTyped, AppTyped, Phases, stored
    <3>3. BootsInTwo' /\ Ordered'
      BY <2>1, <3>1, FewRows DEF LookInv, BootsInTwo, Ordered, Complete, stored
    <3> QED
      BY <3>2, <3>3 DEF LookInv
  <2>2. CASE ~(RightVersion /\ RightApp)
    <3>1. phase' = "check" /\ check' = 2 /\ configFile' = Nothing
      <4>1. phase' = CheckAgain /\ check' = check + 1 /\ configFile' = Nothing
        BY <2>2
      <4> HIDE DEF CheckConfigFile
      <4>2. check = 1
        BY <2>0
      <4>3. CheckAgain = "check"
        BY <4>2 DEF CheckAgain
      <4>4. check' = 2
        BY <4>1, <4>2
      <4> QED
        BY <4>1, <4>3, <4>4
    <3>2. nvs' \in [Prefs -> Vals \ {"*"}] /\ prefsOpen' \in BOOLEAN
      BY <2>0, <2>2 DEF LookInv, CfgTyped
    <3>3. CfgTyped'
      BY <3>1, <3>2 DEF LookInv, CfgTyped, AppTyped, Phases
    <3>4. BootsInTwo' /\ Ordered'
      BY <3>1 DEF LookInv, BootsInTwo, Ordered
    <3> QED
      BY <3>3, <3>4 DEF LookInv
  <2> QED
    BY <2>1, <2>2
<1> QED
  BY <1>1, <1>2, <1>3

\* The rest of loadConfig().
LEMMA LookLoads ==
    ASSUME LookInv,
           LoadConfigVect \/ MergeDefaultConfigs \/ DefaultsMerged \/ LoadPrefs \/ ReloadConfigs
    PROVE  LookInv'
<1>1. CASE LoadConfigVect
  <2> USE <1>1 DEF LoadConfigVect, stored, counted
  <2>1. Rowed(configFile) /\ Complete(configFile)
    BY DEF LookInv, CfgTyped, Ordered
  <2>0. Rowed(Taken(configFile)) /\ Complete(Taken(configFile))
    BY <2>1, TakenRows DEF LookInv, CfgTyped
  <2>2. Rowed(configs') /\ InOrder(configs') /\ Range(configs') = Range(Taken(configFile))
    BY <2>0, SortedRows
  <2>3. Complete(configs')
    BY <2>0, <2>2 DEF Complete
  <2>4. CfgTyped'
    BY <2>2 DEF LookInv, CfgTyped, AppTyped
  <2>5. BootsInTwo' /\ Ordered'
    BY <2>2, <2>3 DEF LookInv, BootsInTwo, Ordered, Complete
  <2> QED
    BY <2>4, <2>5 DEF LookInv
<1>2. CASE MergeDefaultConfigs
  <2> USE <1>2 DEF MergeDefaultConfigs, counted
  <2>1. CASE Missing = << >>
    <3>1. build.keys \subseteq KeysOf(configs)
      BY <2>1, MergedRows
    <3>2. CfgTyped'
      BY <2>1 DEF LookInv, CfgTyped, AppTyped, Phases
    <3>3. BootsInTwo' /\ Ordered'
      <4>1. /\ phase = "load" /\ phase' = "prefs" /\ configs # << >>
            /\ UNCHANGED <<build, check, configs, saving>>
        BY <2>1
      <4> HIDE DEF MergeDefaultConfigs
      <4>2. /\ InOrder(configs) /\ Complete(configs) /\ saving["boot"] = Nothing
            /\ saving["web"] = Nothing /\ saving["ping"] = Nothing
        BY <4>1 DEF LookInv, Ordered
      <4> QED
        BY <3>1, <4>1, <4>2 DEF BootsInTwo, Ordered, Complete
    <3> QED
      BY <3>2, <3>3 DEF LookInv
  <2>2. CASE Missing # << >>
    <3>0. phase' = "merge" /\ SaveConfigVect("boot", Merged)
      BY <2>2
    <3>1. configs' = Sorted(Merged) /\ phase' = "merge"
      BY <3>0 DEF SaveConfigVect
    <3>2. /\ Rowed(Merged) /\ build.keys \subseteq KeysOf(Merged)
          /\ Complete(configs) => Complete(Merged)
      BY MergedRows
    <3>9. /\ Rowed(configs') /\ InOrder(configs') /\ KeysOf(configs') = KeysOf(Merged)
          /\ Complete(Merged) => Complete(configs')
      <4>1. Rowed(configs') /\ InOrder(configs') /\ Range(configs') = Range(Merged)
        BY <3>1, <3>2, SortedRows
      <4>2. Complete(Merged) => Complete(configs')
        BY <4>1 DEF Complete
      <4> QED
        BY <4>1, <4>2, KeysInRange
    <3>3. Rowed(ToFile(Merged)) /\ saving' = [saving EXCEPT !["boot"] = ToFile(Merged)]
      BY <3>0, <3>2, FileRows DEF SaveConfigVect, ToFile
    <3>4. /\ saving' = [u \in Tasks |-> saving'[u]]
          /\ saving'["boot"] = ToFile(Merged)
          /\ \A u \in Tasks \ {"boot"} : saving'[u] = saving[u]
      BY <3>3, OneSaving DEF LookInv, CfgTyped, Tasks
    <3>5. configFile' = << >>
      BY <3>0 DEF SaveConfigVect
    <3> HIDE DEF MergeDefaultConfigs
    <3>6. UNCHANGED <<build, check, app, prefsOpen, nvs>> /\ phase = "load" /\ configs # << >>
      BY DEF MergeDefaultConfigs
    <3>7. CfgTyped'
      BY <3>1, <3>3, <3>4, <3>5, <3>6, <3>9, FewRows DEF LookInv, CfgTyped, AppTyped, Phases
    <3>8. BootsInTwo' /\ Ordered'
      <4>1. ToFile(Merged) # Nothing
        BY <3>3, FewRows
      <4>2. /\ Complete(configs) /\ saving["boot"] = Nothing
            /\ saving["web"] = Nothing /\ saving["ping"] = Nothing
        BY <3>6 DEF LookInv, Ordered
      <4>3. /\ saving'["web"] = Nothing /\ saving'["ping"] = Nothing
            /\ saving'["boot"] # Nothing
        BY <3>4, <4>1, <4>2 DEF Tasks
      <4>4. Complete(configs)'
        <5>1. Complete(configs')
          BY <3>2, <3>9, <4>2
        <5> QED
          BY <3>6, <5>1 DEF Complete
      <4>5. InOrder(configs)' /\ (build.keys \subseteq KeysOf(configs))'
        BY <3>2, <3>6, <3>9
      <4> QED
        BY <3>1, <4>3, <4>4, <4>5 DEF BootsInTwo, Ordered
    <3> QED
      BY <3>7, <3>8 DEF LookInv
  <2> QED
    BY <2>1, <2>2
<1>3. CASE DefaultsMerged
  <2> USE <1>3 DEF DefaultsMerged, memory, counted
  <2>1. /\ saving' = [u \in Tasks |-> saving'[u]]
        /\ saving'["boot"] = Nothing
        /\ \A u \in Tasks \ {"boot"} : saving'[u] = saving[u]
    BY OneSaving DEF LookInv, CfgTyped, Tasks
  <2>2. Rowed(configFile')
    BY DEF LookInv, CfgTyped, Ordered, Tasks
  <2>3. CfgTyped'
    BY <2>1, <2>2 DEF LookInv, CfgTyped, AppTyped, Phases
  <2>4. BootsInTwo' /\ Ordered'
    BY <2>1 DEF LookInv, BootsInTwo, Ordered, Complete, Tasks
  <2> QED
    BY <2>3, <2>4 DEF LookInv
<1>4. CASE LoadPrefs
  <2> USE <1>4 DEF LoadPrefs, stored, counted
  <2>1. CASE prefsOpen
    <3>1. CfgTyped'
      BY <2>1 DEF LookInv, CfgTyped, AppTyped, Phases
    <3>2. BootsInTwo' /\ Ordered'
      BY <2>1 DEF LookInv, BootsInTwo, Ordered, Complete
    <3> QED
      BY <3>1, <3>2 DEF LookInv
  <2>2. CASE ~prefsOpen
    <3>0. /\ nvs["ST_SSID"] \in Vals /\ nvs["AP_Pass"] \in Vals \ {"*"} /\ nvs["ST_SSID"] # "*"
          /\ "ST_SSID" \in Variables /\ Rowed(configs)
      BY DEF LookInv, CfgTyped, Prefs, Variables
    <3>1. configs' = Update(configs, "ST_SSID", nvs["ST_SSID"])
      BY <2>2
    <3>2. Rowed(configs')
      BY <3>0, <3>1, UpdatedRows
    <3>3. /\ KeysOf(configs') = KeysOf(configs)
          /\ InOrder(configs) => InOrder(configs')
          /\ Complete(configs) => Complete(configs')
      BY <3>0, <3>1, UpdateKeeps DEF Complete
    <3>4. AppTyped'
      BY <2>2, <3>0 DEF LookInv, CfgTyped, AppTyped
    <3>5. CfgTyped'
      BY <3>2, <3>4 DEF LookInv, CfgTyped, Phases
    <3>6. BootsInTwo' /\ Ordered'
      BY <3>3 DEF LookInv, BootsInTwo, Ordered, Complete
    <3> QED
      BY <3>5, <3>6 DEF LookInv
  <2> QED
    BY <2>1, <2>2
<1>5. CASE ReloadConfigs
  <2> USE <1>5 DEF ReloadConfigs, stored, counted
  <2>1. \A k \in Variables : Applied(k) \in Vals /\ (k # "tgramToken" => Applied(k) # "*")
    <3> SUFFICES ASSUME NEW k \in Variables
                 PROVE  Applied(k) \in Vals /\ (k # "tgramToken" => Applied(k) # "*")
      OBVIOUS
    <3>1. Rowed(configs) /\ app[k] \in Vals /\ (k # "tgramToken" => app[k] # "*")
      BY DEF LookInv, CfgTyped, AppTyped
    <3>2. CASE k \in KeysOf(configs)
      <4>1. PICK i \in DOMAIN configs : configs[i].key = k /\ configs[i].val = ValueOf(configs, k)
        BY <3>1, <3>2, FoundIsRow
      <4>2. ValueOf(configs, k) \in Vals /\ (ValueOf(configs, k) = "*" => k \in Secrets)
        BY <3>1, <3>2, <4>1, FoundIsRow DEF Rowed
      <4> QED
        BY <3>1, <4>2 DEF Applied, Secrets
    <3>3. CASE k \notin KeysOf(configs)
      BY <3>1, <3>3 DEF Applied
    <3> QED
      BY <3>2, <3>3
  <2>2. CfgTyped'
    BY <2>1 DEF LookInv, CfgTyped, AppTyped, Phases
  <2>3. BootsInTwo' /\ Ordered'
    BY DEF LookInv, BootsInTwo, Ordered, Complete
  <2> QED
    BY <2>2, <2>3 DEF LookInv
<1> QED
  BY <1>1, <1>2, <1>3, <1>4, <1>5

\* Every step keeps it.
LEMMA LookStep == LookInv /\ [CfgNext]_cfgVars => LookInv'
<1> SUFFICES ASSUME LookInv, [CfgNext]_cfgVars PROVE LookInv'
  OBVIOUS
<1>1. CASE CfgNext
  BY <1>1, LookPower, LookSets, LookSaves, LookSaved, LookChecks, LookLoads DEF CfgNext
<1>2. CASE UNCHANGED cfgVars
  <2> USE <1>2 DEF cfgVars, memory, stored, counted
  <2>1. CfgTyped'
    BY DEF LookInv, CfgTyped, AppTyped
  <2>2. BootsInTwo' /\ Ordered'
    BY DEF LookInv, BootsInTwo, Ordered, Complete
  <2> QED
    BY <2>1, <2>2 DEF LookInv
<1> QED
  BY <1>1, <1>2

\* In every reachable state the vector is whole and in order once it is merged: getKeyPos()
\* may search it by halves, with every race of two savers allowed.
THEOREM SettingsInvariant == CfgSpec => []LookInv
<1>1. LookInv /\ [CfgNext]_cfgVars => LookInv'
  BY LookStep
<1> QED
  BY <1>1, LookInit, PTL DEF CfgSpec

\* getKeyPos() finds every setting of the build from mergeDefaultConfigs() on, and loadConfig()
\* never gives up on a card with room.
THEOREM SettingsFound == CfgSpec => [](LookupWorks /\ AlwaysConfigured)
<1>1. ASSUME LookInv PROVE LookupWorks /\ AlwaysConfigured
  <2> USE <1>1 DEF LookInv
  <2>1. AlwaysConfigured
    BY DEF AlwaysConfigured, CfgTyped, Phases
  <2>2. ASSUME phase \in {"prefs", "reload", "up"}
        PROVE  /\ build.keys \subseteq KeysOf(configs)
               /\ \A i \in 1..Len(configs) - 1 : Rank(configs[i].key) < Rank(configs[i + 1].key)
    <3>1. build.keys \subseteq KeysOf(configs) /\ InOrder(configs)
      BY <2>2 DEF Ordered
    <3>2. Len(configs) \in Nat /\ DOMAIN configs = 1..Len(configs)
      BY RowedEach DEF CfgTyped
    <3> QED
      BY <3>1, <3>2 DEF InOrder
  <2> QED
    BY <2>1, <2>2 DEF LookupWorks
<1> QED
  BY <1>1, SettingsInvariant, PTL
----------------------------------------------------------------------------
(* The secrets, whatever races   CfgRaces lets happen.                     *)

\* The mark of no file shows none.
LEMMA NothingStarred == Starred(Nothing)
<1> DEFINE r == Row("", "")
<1>1. r.key = ""
  BY RowParts
<1>2. Nothing = <<r>>
  BY DEF Nothing
<1> HIDE DEF r
<1>3. \A i \in DOMAIN Nothing : Nothing[i] = r
  BY <1>2
<1> QED
  BY <1>1, <1>3 DEF Starred, Secrets

\* Neither the file nor what is on its way to it shows one.
LEMMA SecretsStep == LookInv /\ NoSecrets /\ [CfgNext]_cfgVars => NoSecrets'
<1> SUFFICES ASSUME LookInv, NoSecrets, [CfgNext]_cfgVars PROVE NoSecrets'
  OBVIOUS
<1> USE DEF NoSecrets
<1>0. /\ Starred(Nothing) /\ Starred(<< >>)
      /\ Starred(<<Row("appId", "other"), Row("cfgVer", build.cfgVer)>>)
  <2>1. Row("appId", "other").key = "appId" /\ Row("cfgVer", build.cfgVer).key = "cfgVer"
    BY RowParts
  <2>3. \A i \in DOMAIN <<Row("appId", "other"), Row("cfgVer", build.cfgVer)>> :
           <<Row("appId", "other"), Row("cfgVer", build.cfgVer)>>[i]
              \in {Row("appId", "other"), Row("cfgVer", build.cfgVer)}
    OBVIOUS
  <2> QED
    BY <2>1, <2>3, FewRows, NothingStarred DEF Starred, Secrets
<1>1. ASSUME NEW t \in Tasks, NEW r, Starred(r), saving' = [saving EXCEPT ![t] = r],
             Starred(configFile')
      PROVE  NoSecrets'
  BY <1>1, OneSaving DEF LookInv, CfgTyped
<1>2. ASSUME NEW t \in Tasks, NEW rows, Rowed(rows), SaveConfigVect(t, rows) PROVE NoSecrets'
  BY <1>0, <1>1, <1>2, FileRows DEF SaveConfigVect, ToFile
<1>3. ASSUME NEW b, ResetTo(b), Starred(configFile') PROVE NoSecrets'
  BY <1>0, <1>3 DEF ResetTo
<1>4. ASSUME UNCHANGED <<saving, configFile>> PROVE NoSecrets'
  BY <1>4
<1>5. ASSUME NEW t \in Tasks, saving[t] # Nothing, NEW n \in 0..Len(saving[t])
      PROVE  Starred(SubSeq(saving[t], 1, n))
  BY <1>5, PrefixRowed DEF LookInv, CfgTyped
<1>6. CASE UNCHANGED cfgVars
  BY <1>4, <1>6 DEF cfgVars, stored
<1>7. CASE UserSets \/ Clear \/ PowerOn \/ LoadConfigVect \/ LoadPrefs \/ ReloadConfigs
  BY <1>4, <1>7 DEF UserSets, Set, Clear, PowerOn, LoadConfigVect, LoadPrefs, ReloadConfigs, stored
<1>8. ASSUME NEW one \in BOOLEAN, UserSaves(one) PROVE NoSecrets'
  BY <1>2, <1>8 DEF UserSaves, LookInv, CfgTyped, Tasks
<1>9. CASE ExtIpChanges
  <2>1. PICK v \in Tried : SaveConfigVect("ping", Update(configs, "extIP", v))
    BY <1>9 DEF ExtIpChanges
  <2>2. v \in Vals /\ v # "*" /\ "extIP" \in Variables /\ Rowed(configs)
    BY ConfigAssumption DEF Vals, Variables, LookInv, CfgTyped
  <2>3. Rowed(Update(configs, "extIP", v))
    BY <2>2, UpdatedRows
  <2> QED
    BY <1>2, <2>1, <2>3 DEF Tasks
<1>10. ASSUME NEW t \in {"web", "ping"}, SaveEnds(t) PROVE NoSecrets'
  <2>0. t \in Tasks /\ saving[t] # Nothing /\ Starred(saving[t])
    BY <1>10 DEF SaveEnds, Tasks
  <2>1. Starred(configFile')
    <3>1. \/ configFile' = saving[t]
          \/ \E n \in 0..Len(saving[t]) : configFile' = SubSeq(saving[t], 1, n)
      BY <1>10 DEF SaveEnds
    <3> QED
      BY <1>5, <2>0, <3>1
  <2> QED
    BY <1>0, <1>1, <1>10, <2>1 DEF SaveEnds, Tasks
<1>11. CASE PowerLost
  <2>1. Starred(configFile')
    BY <1>5, <1>11 DEF PowerLost
  <2> QED
    BY <1>3, <1>11, <2>1 DEF PowerLost
<1>12. CASE Updated \/ DataDeleted
  BY <1>0, <1>3, <1>12 DEF Updated, DataDeleted
<1>13. CASE OtherCard
  BY <1>0, <1>13 DEF OtherCard
<1>14. CASE CreateConfigFile
  <2>1. Starred(Defaults \o OwnRows)
    BY CreatedRows DEF LookInv, CfgTyped
  <2> QED
    BY <1>0, <1>1, <1>14, <2>1 DEF CreateConfigFile, Tasks
<1>15. CASE ConfigFileCreated
  BY <1>0, <1>1, <1>15 DEF ConfigFileCreated, Tasks
<1>16. CASE CheckConfigFile
  BY <1>0, <1>16 DEF CheckConfigFile, stored
<1>17. CASE MergeDefaultConfigs
  <2>1. CASE Missing = << >>
    BY <1>4, <1>17, <2>1 DEF MergeDefaultConfigs
  <2>2. CASE Missing # << >>
    <3>1. SaveConfigVect("boot", Merged)
      BY <1>17, <2>2 DEF MergeDefaultConfigs
    <3> QED
      BY <1>2, <3>1, MergedRows DEF Tasks
  <2> QED
    BY <2>1, <2>2
<1>18. CASE DefaultsMerged
  BY <1>0, <1>1, <1>18 DEF DefaultsMerged, Tasks
<1> QED
  BY <1>6, <1>7, <1>8, <1>9, <1>10, <1>11, <1>12, <1>13, <1>14, <1>15, <1>16, <1>17, <1>18
     DEF CfgNext

\* saveConfigVect() never writes a password or a token to the card, in the file or in what is cut short
\* of it: only stars, whoever else is saving.
THEOREM PasswordsOffCard == CfgSpec => []NoSecretOnCard
<1>1. CfgInit => NoSecrets
  BY NothingStarred DEF CfgInit, NoSecrets
<1>2. LookInv /\ NoSecrets /\ [CfgNext]_cfgVars => NoSecrets'
  BY SecretsStep
<1>3. NoSecrets => NoSecretOnCard
  BY DEF NoSecrets, Starred, NoSecretOnCard
<1> QED
  BY <1>1, <1>2, <1>3, SettingsInvariant, PTL DEF CfgSpec
----------------------------------------------------------------------------
(* The promise of a save, with one task saving at a time (CfgRaces = {}).  *)

\* Between two phases that save nobody does.
LEMMA IdleWhen ==
    ASSUME LookInv, phase \notin {"up", "create", "merge"}
    PROVE  Idle
  BY DEF LookInv, Ordered, Idle, Tasks

\* Rows that keep the row of a setting, and of a password its stars, give it back too.
LEMMA GivesFrom ==
    ASSUME NEW r, NEW s, NEW k \in Variables, Gives(r, k),
           \A x : /\ k # "ST_SSID" /\ (k \in Secrets => k = "AP_Pass" /\ x \in {"", "*"})
                  /\ Row(k, x) \in Range(r)
                  => Row(k, x) \in Range(s)
    PROVE  Gives(s, k)
<1>1. k \in Prefs => k = "AP_Pass" \/ k = "ST_SSID"
  BY DEF Prefs
<1>2. "AP_Pass" \in Prefs /\ "ST_SSID" \in Prefs /\ "AP_Pass" \in Secrets /\ "ST_SSID" \notin Secrets
  BY DEF Prefs, Secrets
<1>3. k \in Secrets => k = "AP_Pass" \/ k \notin Settings
  BY DEF Settings
<1> QED
  BY <1>1, <1>2, <1>3 DEF Gives

\* Nothing was promised.
LEMMA NothingKept ==
    ASSUME \A k \in Variables : kept'[k] = Unknown, ~(phase' \in {"reload", "up"}),
           phase' = "merge" => Complete(saving["boot"])', LookInv'
    PROVE  Promise'
<1>1. Prefs \subseteq Variables
  BY DEF Prefs, Variables
<1>2. \A rows : \A k \in Variables : Gives(rows, k)'
  BY DEF Gives
<1>5. \A rows : \A k \in Variables : Has(rows, k)'
  BY DEF Has
<1>3. KeptInv'
  BY <1>1, <1>2, <1>5 DEF KeptInv, FileGives, NewGives, MergeGives, VectGives, PrefsLoaded, PrefsKept
<1>4. UpInv' /\ SavesUp'
  BY DEF UpInv, SavesUp, LookInv, Ordered
<1> QED
  BY <1>3, <1>4 DEF Promise

\* The rows of the variables that are written down show the same.
LEMMA FollowsFile ==
    ASSUME NEW rows, Rowed(rows), NEW K, K \cap Secrets = {}, NEW f,
           \A i \in DOMAIN rows : rows[i].key \in K => rows[i].val = f[rows[i].key]
    PROVE  \A i \in DOMAIN ToFile(rows) :
              ToFile(rows)[i].key \in K => ToFile(rows)[i].val = f[ToFile(rows)[i].key]
<1>1. \A i \in DOMAIN ToFile(rows) : \E j \in DOMAIN rows : ToFile(rows)[i] = Written(rows[j])
  BY FileRows
<1>2. \A j \in DOMAIN rows : /\ Written(rows[j]).key = rows[j].key
                             /\ rows[j].key \notin Secrets => Written(rows[j]) = rows[j]
  BY RowedEach, WrittenRow
<1> TAKE i \in DOMAIN ToFile(rows)
<1> HAVE ToFile(rows)[i].key \in K
<1>4. PICK j \in DOMAIN rows : ToFile(rows)[i] = Written(rows[j])
  BY <1>1
<1>5. ToFile(rows)[i] = rows[j]
  BY <1>2, <1>4
<1> QED
  BY <1>5

\* A save begins while nobody else saves, of rows that follow the variables.
LEMMA PromiseSave ==
    ASSUME CfgRaces = {}, LookInv, LookInv', Promise, phase = "up", phase' = "up", UNCHANGED <<build, prefsOpen>>,
           NEW t \in {"web", "ping"}, NEW rows, Rowed(rows), SaveConfigVect(t, rows), PrefsKept',
           \A i \in DOMAIN rows :
              rows[i].key \in (Variables \ Prefs) \cap Settings => rows[i].val = app'[rows[i].key]
    PROVE  Promise'
<1>0. configs' = Sorted(rows)
  BY DEF SaveConfigVect
<1>1. Range(configs') = Range(rows)
  BY <1>0, SortedRows
<1>2. Idle /\ saving' = [saving EXCEPT ![t] = ToFile(rows)]
  BY DEF SaveConfigVect, ToFile, Allowed
<1>3. /\ saving'[t] = ToFile(rows) /\ \A u \in Tasks \ {t} : saving'[u] = Nothing
  BY <1>2, OneSaving DEF LookInv, CfgTyped, Tasks, Idle
<1>4. saving'[t] # Nothing /\ t \in Tasks
  BY <1>3, FileRows, FewRows DEF Tasks
<1>5. Complete(ToFile(rows))
  <2>1. Complete(configs)'
    BY DEF LookInv, Ordered
  <2>2. Complete(rows)
    BY <1>1, <2>1 DEF Complete
  <2> QED
    BY <2>2, FileKeeps
<1>6. Complete(saving[t])'
  BY <1>3, <1>5 DEF Complete
<1> DEFINE K == (Variables \ Prefs) \cap Settings
           f == app'
<1>7. K' = K /\ K \cap Secrets = {} /\ \A i \in DOMAIN rows : rows[i].key \in K => rows[i].val = f[rows[i].key]
  BY DEF Settings
<1> HIDE DEF K, f
<1>8. Follows(saving[t])'
  <2>1. \A i \in DOMAIN ToFile(rows) :
           ToFile(rows)[i].key \in K => ToFile(rows)[i].val = f[ToFile(rows)[i].key]
    BY <1>7, FollowsFile
  <2>2. \A i \in DOMAIN saving'[t] : saving'[t][i].key \in K' => saving'[t][i].val = f[saving'[t][i].key]
    BY <1>3, <1>7, <2>1
  <2> QED
    BY <2>2 DEF Follows, K, f
<1>9. Follows(configs)'
  <2>1. \A r \in Range(configs') : r.key \in K => r.val = f[r.key]
    BY <1>1, <1>7 DEF Range
  <2>2. \A i \in DOMAIN configs' : configs'[i].key \in K' => configs'[i].val = f[configs'[i].key]
    BY <1>7, <2>1 DEF Range
  <2> QED
    BY <2>2 DEF Follows, K, f
<1>10. ~Idle'
  BY <1>4 DEF Idle
<1>11. KeptInv'
  BY <1>10 DEF KeptInv, FileGives, NewGives, MergeGives, VectGives, PrefsLoaded
<1>12. UpInv'
  BY <1>9 DEF UpInv
<1>13. SavesUp'
  <2> SUFFICES ASSUME NEW u \in {"web", "ping"}, saving'[u] # Nothing
               PROVE  u = t /\ \A v \in Tasks \ {t} : saving'[v] = Nothing
    BY <1>6, <1>8 DEF SavesUp
  <2> QED
    BY <1>3 DEF Tasks
<1> QED
  BY <1>11, <1>12, <1>13 DEF Promise

\* What the user and the ping task change, and what they save.
LEMMA PromiseUses ==
    ASSUME CfgRaces = {}, LookInv, LookInv', Promise,
           UserSets \/ Clear \/ UserSaves(TRUE) \/ UserSaves(FALSE) \/ ExtIpChanges
    PROVE  Promise'
<1>0. phase = "up" => Follows(configs) /\ Rowed(configs)
  BY DEF Promise, UpInv, LookInv, CfgTyped
<1>1. ASSUME NEW k \in Variables, NEW v \in Vals, v = "*" => k \in Secrets, phase = "up",
             \/ app' = [app EXCEPT ![k] = v]
             \/ app' = app /\ k = "AP_Pass"
      PROVE  \A i \in DOMAIN Update(configs, k, v) :
                Update(configs, k, v)[i].key \in (Variables \ Prefs) \cap Settings =>
                   Update(configs, k, v)[i].val = app'[Update(configs, k, v)[i].key]
  <2> DEFINE u == Update(configs, k, v)
  <2>1. /\ DOMAIN u = DOMAIN configs
        /\ \A i \in DOMAIN configs :
              u[i].key = configs[i].key
              /\ u[i].val = IF configs[i].key = k THEN v ELSE configs[i].val
    BY <1>0, <1>1, UpdatedRows
  <2>2. app \in [Variables -> Vals]
    BY DEF LookInv, CfgTyped, AppTyped
  <2>3. \A l \in Variables \ Prefs : app'[l] = IF l = k THEN v ELSE app[l]
    BY <1>1, <2>2 DEF Prefs
  <2> HIDE DEF u
  <2>4. \A i \in DOMAIN u : u[i].key \in (Variables \ Prefs) \cap Settings => u[i].val = app'[u[i].key]
    BY <1>0, <1>1, <2>1, <2>3 DEF Follows
  <2> QED
    BY <2>4 DEF u
<1>2. ASSUME NEW k \in Variables, NEW v \in Tried \cup {"*"}, v = "*" => k \in Secrets, Set(k, v)
      PROVE  Promise'
  <2>1. v \in Vals /\ phase = "up" /\ phase' = "up" /\ Idle
        /\ UNCHANGED <<build, prefsOpen, saving, configFile, nvs, kept>>
    BY <1>2 DEF Vals, Set, Allowed, stored
  <2>0. /\ configs' = Update(configs, k, v)
        /\ app' = [app EXCEPT ![k] = v] \/ (app' = app /\ k = "AP_Pass")
    BY <1>2 DEF Set
  <2>2. Follows(configs)'
    <3>1. Settings' = Settings
      BY <2>1 DEF Settings
    <3> QED
      BY <1>1, <1>2, <2>0, <2>1, <3>1 DEF Follows
  <2>3. KeptInv'
    BY <2>1 DEF Promise, KeptInv, FileGives, NewGives, MergeGives, VectGives, PrefsLoaded,
                PrefsKept, Gives, Settings, Idle, Complete
  <2>4. SavesUp'
    BY <2>1 DEF SavesUp, Idle, Tasks
  <2> QED
    BY <2>2, <2>3, <2>4 DEF Promise, UpInv
<1>3. CASE UserSets
  <2>1. build.keys \subseteq {"AP_Pass", "ST_SSID", "extIP", "fhdProfile", "tgramToken"}
    BY ConfigAssumption DEF LookInv, CfgTyped
  <2>2. "*" \notin Tried
    BY ConfigAssumption
  <2> QED
    BY <1>2, <1>3, <2>1, <2>2 DEF UserSets, Variables, Secrets
<1>4. CASE Clear
  <2>1. phase = "up" /\ phase' = "up" /\ UNCHANGED <<build, configs, app, saving, configFile>>
    BY <1>4 DEF Clear
  <2>2. \A k \in Variables : kept'[k] = IF k \in Prefs THEN Unknown ELSE kept[k]
    BY <1>4 DEF Clear
  <2>3. Prefs \subseteq Variables
    BY DEF Prefs, Variables
  <2>4. \A rows : \A k \in Variables : kept'[k] # Unknown /\ Gives(rows, k) => Gives(rows, k)'
    BY <2>1, <2>2 DEF Gives, Settings
  <2>5. FileGives'
    <3> SUFFICES ASSUME Idle, NEW k \in Variables, kept'[k] # Unknown
                 PROVE  /\ configFile # Nothing /\ Complete(configFile)'
                        /\ Gives(configFile, k)'
      BY <2>1 DEF FileGives, Idle
    <3>1. k \notin Prefs /\ kept'[k] = kept[k]
      BY <2>2
    <3>2. configFile # Nothing /\ Complete(configFile) /\ Gives(configFile, k)
      BY <3>1 DEF Promise, KeptInv, FileGives
    <3> QED
      BY <2>1, <3>1, <3>2 DEF Gives, Settings, Complete
  <2>6. NewGives' /\ MergeGives' /\ VectGives' /\ PrefsLoaded' /\ PrefsKept'
    BY <2>1, <2>2, <2>3 DEF NewGives, MergeGives, VectGives, PrefsLoaded, PrefsKept
  <2>7. UpInv' /\ SavesUp'
    BY <2>1 DEF Promise, UpInv, SavesUp, Follows, Settings, Complete
  <2> QED
    BY <2>5, <2>6, <2>7 DEF Promise, KeptInv
<1>5. ASSUME NEW one \in BOOLEAN, UserSaves(one) PROVE Promise'
  <2>1. phase = "up" /\ phase' = "up" /\ SaveConfigVect("web", configs)
        /\ UNCHANGED <<build, app, prefsOpen>>
    BY <1>5 DEF UserSaves
  <2>2. /\ Rowed(configs)
        /\ \A i \in DOMAIN configs :
              configs[i].key \in (Variables \ Prefs) \cap Settings => configs[i].val = app'[configs[i].key]
    BY <1>0, <2>1 DEF Follows
  <2>3. PrefsKept'
    <3>0. Prefs \subseteq Variables
      BY DEF Prefs, Variables
    <3>1. CASE one
      <4>1. ~prefsOpen /\ nvs' = [k \in Prefs |-> app[k]]
        BY <1>5, <3>1 DEF UserSaves, Allowed, SavePrefs
      <4>2. \A k \in Prefs : kept'[k] = app[k]
        BY <1>5, <3>0, <3>1 DEF UserSaves
      <4> QED
        BY <2>1, <4>1, <4>2 DEF PrefsKept
    <3>2. CASE ~one
      <4>1. UNCHANGED <<nvs, kept>>
        BY <1>5, <3>2 DEF UserSaves
      <4> QED
        BY <2>1, <4>1 DEF PrefsKept, Promise, KeptInv
    <3> QED
      BY <3>1, <3>2
  <2> QED
    BY <2>1, <2>2, <2>3, PromiseSave
<1>6. CASE ExtIpChanges
  <2>1. PICK v \in Tried : /\ app' = [app EXCEPT !["extIP"] = v]
                           /\ SaveConfigVect("ping", Update(configs, "extIP", v))
    BY <1>6 DEF ExtIpChanges
  <2>2. phase = "up" /\ phase' = "up"
        /\ UNCHANGED <<build, prefsOpen, nvs, kept>>
    BY <1>6 DEF ExtIpChanges
  <2>3. v \in Vals /\ v # "*" /\ "extIP" \in Variables
    BY ConfigAssumption DEF Vals, Variables
  <2> DEFINE u == Update(configs, "extIP", v)
  <2>4. /\ Rowed(u)
        /\ \A i \in DOMAIN u : u[i].key \in (Variables \ Prefs) \cap Settings => u[i].val = app'[u[i].key]
    BY <1>0, <1>1, <2>1, <2>2, <2>3, UpdatedRows
  <2>5. PrefsKept'
    BY <2>2 DEF PrefsKept, Promise, KeptInv
  <2>6. SaveConfigVect("ping", u)
    BY <2>1
  <2> HIDE DEF u
  <2> QED
    BY <2>2, <2>4, <2>5, <2>6, PromiseSave
<1> QED
  BY <1>3, <1>4, <1>5, <1>6

\* A save that ends: the file has what is promised from now on.
LEMMA PromiseSaved ==
    ASSUME CfgRaces = {}, LookInv, LookInv', NoSecrets, Promise, NEW t \in {"web", "ping"}, SaveEnds(t)
    PROVE  Promise'
<1>1. t \in Tasks /\ saving[t] # Nothing /\ Rowed(saving[t]) /\ Starred(saving[t])
      /\ UNCHANGED <<build, phase, configs, app, prefsOpen, nvs>>
  BY DEF SaveEnds, Tasks, LookInv, CfgTyped, NoSecrets, memory
<1>2. /\ phase = "up" /\ Complete(saving[t]) /\ Follows(saving[t])
      /\ \A u \in Tasks \ {t} : saving[u] = Nothing
  BY <1>1 DEF Promise, SavesUp
<1>3. configFile' = saving[t] /\ configFile' # Nothing
  BY <1>1, <1>2 DEF SaveEnds
<1>4. \A u \in Tasks : saving'[u] = Nothing
  BY <1>1, <1>2, OneSaving DEF SaveEnds, LookInv, CfgTyped
<1>0. PICK r : r = saving[t]
  OBVIOUS
<1>5. \A k \in Variables :
         kept'[k] = IF k \in KeysOf(r) THEN KeptBy(k, ValueOf(r, k)) ELSE Unknown
  BY <1>0 DEF SaveEnds
<1>6. Prefs \subseteq Variables
  BY DEF Prefs, Variables
<1>7. PrefsKept'
  <2> SUFFICES ASSUME NEW k \in Prefs, kept'[k] # Unknown
               PROVE  kept'[k] = nvs[k] /\ ~prefsOpen
    BY <1>1 DEF PrefsKept
  <2>1. kept'[k] = kept[k]
    BY <1>5, <1>6 DEF KeptBy
  <2> QED
    BY <2>1 DEF Promise, KeptInv, PrefsKept
<1>8. \A k \in Variables : Gives(r, k)'
  <2> SUFFICES ASSUME NEW k \in Variables, kept'[k] # Unknown
               PROVE  IF k \in Prefs
                      THEN /\ kept'[k] = nvs[k] /\ ~prefsOpen
                           /\ k = "AP_Pass" => \/ Row(k, "*") \in Range(r)
                                               \/ Row(k, "") \in Range(r) /\ nvs[k] = ""
                      ELSE k \in Settings /\ \E x \in Vals : Loaded(x) = kept'[k] /\ Row(k, x) \in Range(r)
    BY <1>1 DEF Gives, Settings
  <2>1. k \in KeysOf(r) /\ kept'[k] = KeptBy(k, ValueOf(r, k))
    BY <1>5
  <2>2. Rowed(r) /\ Starred(r) /\ Follows(r)
    BY <1>0, <1>1, <1>2
  <2>3. PICK i \in DOMAIN r : r[i].key = k /\ r[i].val = ValueOf(r, k)
    BY <2>1, <2>2, FoundIsRow
  <2>4. Row(k, ValueOf(r, k)) \in Range(r)
    BY <2>1, <2>2, FoundIsRow
  <2>5. CASE k \in Prefs
    <3>1. kept'[k] = nvs[k] /\ ~prefsOpen
      BY <1>1, <1>7, <2>5 DEF PrefsKept
    <3>2. ASSUME k = "AP_Pass" PROVE \/ Row(k, "*") \in Range(r)
                                     \/ Row(k, "") \in Range(r) /\ nvs[k] = ""
      <4>1. ValueOf(r, k) \in {"", "*"}
        BY <2>2, <2>3, <3>2 DEF Starred, Secrets
      <4>2. ValueOf(r, k) = "" => nvs[k] = ""
        BY <2>1, <2>5, <3>2 DEF KeptBy
      <4> QED
        BY <2>4, <4>1, <4>2
    <3> QED
      BY <2>5, <3>1, <3>2
  <2>6. CASE k \notin Prefs
    <3>1. k \in Settings /\ kept'[k] = Loaded(app[k])
      BY <2>1, <2>6 DEF KeptBy, Settings
    <3>2. ValueOf(r, k) = app[k] /\ app[k] \in Vals
      BY <2>2, <2>3, <2>6, <3>1, FoundIsRow, <2>1 DEF Follows
    <3> QED
      BY <2>4, <2>6, <3>1, <3>2
  <2> QED
    BY <2>5, <2>6
<1>9. FileGives'
  <2>1. \A k \in Variables : Gives(configFile, k)'
    BY <1>0, <1>3, <1>8 DEF Gives, Settings
  <2>2. Complete(configFile)'
    BY <1>1, <1>2, <1>3 DEF Complete
  <2> QED
    BY <1>3, <2>1, <2>2 DEF FileGives
<1>10. NewGives' /\ MergeGives' /\ VectGives' /\ PrefsLoaded'
  BY <1>1, <1>2 DEF NewGives, MergeGives, VectGives, PrefsLoaded
<1>11. UpInv' /\ SavesUp'
  BY <1>1, <1>4 DEF Promise, UpInv, SavesUp, Follows, Settings, Tasks
<1> QED
  BY <1>7, <1>9, <1>10, <1>11 DEF Promise, KeptInv

\* After a reset the file alone holds what is kept.
LEMMA PromiseReset ==
    ASSUME LookInv', phase' \in {"off", "check", "load"}, configs' = << >>, PrefsKept',
           \A k \in Variables : kept'[k] # Unknown =>
              configFile' # Nothing /\ Complete(configFile)' /\ Gives(configFile, k)'
    PROVE  Promise'
<1>1. FileGives'
  BY DEF FileGives
<1>2. NewGives' /\ MergeGives' /\ VectGives' /\ PrefsLoaded'
  BY DEF NewGives, MergeGives, VectGives, PrefsLoaded
<1>3. UpInv' /\ SavesUp'
  BY DEF UpInv, SavesUp, LookInv, Ordered
<1> QED
  BY <1>1, <1>2, <1>3 DEF Promise, KeptInv

\* Power, firmware and card.
LEMMA PromisePower ==
    ASSUME CfgRaces = {}, LookInv, LookInv', Promise,
           PowerLost \/ Updated \/ DataDeleted \/ OtherCard \/ PowerOn
    PROVE  Promise'
<1>0. Prefs \subseteq Variables
  BY DEF Prefs, Variables
<1>1. ASSUME phase' = "off", \A k \in Variables : kept'[k] = Unknown PROVE Promise'
  BY <1>1, NothingKept
<1>2. \A k \in Variables : Idle /\ kept[k] # Unknown =>
         configFile # Nothing /\ Complete(configFile) /\ Gives(configFile, k)
  BY DEF Promise, KeptInv, FileGives
<1>3. CASE PowerLost
  <2>1. phase' = "off" /\ UNCHANGED <<build, nvs>> /\ configs' = << >> /\ prefsOpen' = FALSE
    BY <1>3 DEF PowerLost, ResetTo
  <2>2. CASE Idle
    <3>1. UNCHANGED <<configFile, kept>>
      BY <1>3, <2>2 DEF PowerLost
    <3>2. PrefsKept'
      BY <2>1, <3>1 DEF PrefsKept, Promise, KeptInv
    <3>3. \A k \in Variables : kept'[k] # Unknown =>
             configFile' # Nothing /\ Complete(configFile)' /\ Gives(configFile, k)'
      <4> TAKE k \in Variables
      <4> HAVE kept'[k] # Unknown
      <4>1. configFile # Nothing /\ Complete(configFile) /\ Gives(configFile, k)
        BY <1>2, <2>2, <3>1
      <4> QED
        BY <2>1, <3>1, <4>1 DEF Gives, Settings, Complete
    <3> QED
      BY <2>1, <3>2, <3>3, PromiseReset
  <2>3. CASE ~Idle
    BY <1>1, <1>3, <2>1, <2>3 DEF PowerLost
  <2> QED
    BY <2>2, <2>3
<1>4. CASE Updated
  <2>1. PICK b \in Builds : /\ ResetTo(b)
                            /\ kept' = [k \in Variables |->
                                  IF b.cfgVer # build.cfgVer \/ k \in build.keys \ b.keys
                                  THEN Unknown ELSE kept[k]]
    BY <1>4 DEF Updated
  <2>2. /\ phase' = "off" /\ build' = b /\ configs' = << >> /\ prefsOpen' = FALSE
        /\ UNCHANGED <<nvs, configFile>> /\ Idle
    BY <1>4, <2>1 DEF ResetTo, Updated, Allowed
  <2>3. \A k \in Variables : kept'[k] # Unknown =>
           kept'[k] = kept[k] /\ b.cfgVer = build.cfgVer /\ k \notin build.keys \ b.keys
    BY <2>1
  <2>4. PrefsKept'
    BY <1>0, <2>2, <2>3 DEF PrefsKept, Promise, KeptInv
  <2>5. \A k \in Variables : kept'[k] # Unknown =>
           configFile' # Nothing /\ Complete(configFile)' /\ Gives(configFile, k)'
    <3> TAKE k \in Variables
    <3> HAVE kept'[k] # Unknown
    <3>1. kept'[k] = kept[k] /\ b.cfgVer = build.cfgVer /\ k \notin build.keys \ b.keys
      BY <2>3
    <3>2. configFile # Nothing /\ Complete(configFile) /\ Gives(configFile, k)
      BY <1>2, <2>2, <3>1
    <3> QED
      BY <2>2, <3>1, <3>2 DEF Gives, Settings, Complete
  <2> QED
    BY <2>2, <2>4, <2>5, PromiseReset
<1>5. CASE DataDeleted
  BY <1>1, <1>5 DEF DataDeleted, ResetTo
<1>6. CASE OtherCard
  BY <1>1, <1>6 DEF OtherCard
<1>7. CASE PowerOn
  <2>1. /\ phase = "off" /\ phase' = "check"
        /\ UNCHANGED <<build, configs, prefsOpen, nvs, configFile, kept>>
    BY <1>7 DEF PowerOn, memory, stored
  <2>2. configs' = << >> /\ Idle
    BY <2>1, IdleWhen DEF LookInv, Ordered
  <2>3. PrefsKept'
    BY <2>1 DEF PrefsKept, Promise, KeptInv
  <2>4. \A k \in Variables : kept'[k] # Unknown =>
           configFile' # Nothing /\ Complete(configFile)' /\ Gives(configFile, k)'
    BY <1>2, <2>1, <2>2 DEF Gives, Settings, Complete
  <2> QED
    BY <2>1, <2>2, <2>3, <2>4, PromiseReset
<1> QED
  BY <1>3, <1>4, <1>5, <1>6, <1>7

\* checkConfigFile(): a file it gives up, or makes, was promised nothing.
LEMMA PromiseChecks ==
    ASSUME LookInv, LookInv', Promise, CreateConfigFile \/ ConfigFileCreated \/ CheckConfigFile
    PROVE  Promise'
<1>1. \A k \in Variables : Idle /\ kept[k] # Unknown =>
         configFile # Nothing /\ Complete(configFile) /\ Gives(configFile, k)
  BY DEF Promise, KeptInv, FileGives
<1>2. phase \in {"check"} => Idle /\ configs = << >>
  BY IdleWhen DEF LookInv, Ordered
<1>3. CASE CreateConfigFile
  <2>1. phase = "check" /\ phase' = "create" /\ configFile = Nothing /\ kept' = kept
    BY <1>3 DEF CreateConfigFile
  <2>2. \A k \in Variables : kept'[k] = Unknown
    BY <1>1, <1>2, <2>1
  <2> QED
    BY <2>1, <2>2, NothingKept
<1>4. CASE ConfigFileCreated
  <2>1. phase = "create" /\ phase' = "load" /\ kept' = kept
    BY <1>4 DEF ConfigFileCreated
  <2>2. \A k \in Variables : kept'[k] = Unknown
    BY <2>1 DEF Promise, KeptInv, NewGives
  <2> QED
    BY <2>1, <2>2, NothingKept
<1>5. CASE CheckConfigFile
  <2>1. /\ phase = "check" /\ configFile # Nothing
        /\ UNCHANGED <<build, configs, kept>>
    BY <1>5 DEF CheckConfigFile
  <2>2. Idle /\ configs' = << >> /\ Rowed(configFile)
    BY <1>2, <2>1 DEF LookInv, CfgTyped
  <2>3. CASE RightVersion /\ RightApp
    <3>1. phase' = "load" /\ UNCHANGED <<prefsOpen, nvs, configFile>>
      BY <1>5, <2>3 DEF CheckConfigFile, stored
    <3>2. PrefsKept'
      BY <2>1, <3>1 DEF PrefsKept, Promise, KeptInv
    <3>3. \A k \in Variables : kept'[k] # Unknown =>
             configFile' # Nothing /\ Complete(configFile)' /\ Gives(configFile, k)'
      BY <1>1, <2>1, <2>2, <3>1 DEF Gives, Settings, Complete
    <3> QED
      BY <2>2, <3>1, <3>2, <3>3, PromiseReset
  <2>4. CASE ~(RightVersion /\ RightApp)
    <3>1. phase' \in Phases /\ phase' = CheckAgain
      BY <1>5, <2>4 DEF CheckConfigFile, LookInv, CfgTyped
    <3>2. phase' = "check"
      BY <3>1 DEF CheckAgain, Phases
    <3>3. ~Complete(configFile)
      <4>1. SUFFICES ASSUME Complete(configFile) PROVE RightVersion /\ RightApp
        BY <2>4
      <4>2. Row("cfgVer", build.cfgVer) \in Range(configFile) /\ Row("appId", "own") \in Range(configFile)
        BY <4>1 DEF Complete
      <4>3. "cfgVer" \in KeysOf(configFile) /\ ValueOf(configFile, "cfgVer") = build.cfgVer
        BY <2>2, <4>2, ValueFound
      <4>4. "appId" \in KeysOf(configFile) /\ ValueOf(configFile, "appId") = "own"
        BY <2>2, <4>2, ValueFound
      <4> QED
        BY <4>3, <4>4 DEF RightVersion, RightApp
    <3>4. \A k \in Variables : kept'[k] = Unknown
      BY <1>1, <2>1, <2>2, <3>3
    <3> QED
      BY <3>2, <3>4, NothingKept
  <2> QED
    BY <2>3, <2>4
<1> QED
  BY <1>3, <1>4, <1>5

\* loadConfigVect() to loadPrefs(): the promise goes from the file into the vector.
LEMMA PromiseLoads ==
    ASSUME CfgRaces = {}, LookInv, LookInv', Promise,
           LoadConfigVect \/ MergeDefaultConfigs \/ DefaultsMerged \/ LoadPrefs
    PROVE  Promise'
<1>0. Prefs \subseteq Variables
  BY DEF Prefs, Variables
<1>1. CASE LoadConfigVect
  <2>1. /\ phase = "load" /\ configs' = Sorted(Taken(configFile))
        /\ UNCHANGED <<build, phase, app, prefsOpen, saving, configFile, nvs, kept>>
    BY <1>1 DEF LoadConfigVect, stored
  <2>2. Idle /\ Rowed(configFile)
    BY <2>1, IdleWhen DEF LookInv, CfgTyped, Ordered
  <2>3. /\ Range(configs') = Range(Taken(configFile))
        /\ \A k, v : Row(k, v) \in Range(configFile) => Row(k, Loaded(v)) \in Range(configs')
    BY <2>1, <2>2, TakenRows, SortedRows
  <2>4. \A k \in Variables : Gives(configFile, k)
    BY <2>2 DEF Promise, KeptInv, FileGives, Gives
  <2>5. VectGives'
    <3> SUFFICES ASSUME NEW k \in Variables PROVE Gives(configs, k)' /\ Has(configs, k)'
      BY DEF VectGives
    <3>1. CASE kept[k] = Unknown
      BY <2>1, <3>1 DEF Gives, Has
    <3>2. CASE kept[k] # Unknown /\ k \in Prefs
      <4>1. /\ kept[k] = nvs[k] /\ ~prefsOpen
            /\ k = "AP_Pass" => \/ Row(k, "*") \in Range(configFile)
                                \/ Row(k, "") \in Range(configFile) /\ nvs[k] = ""
        BY <2>4, <3>2 DEF Gives
      <4>2. Loaded("*") = "*" /\ Loaded("") = ""
        BY LoadedIs
      <4>3. k = "AP_Pass" => \/ Row(k, "*") \in Range(configs')
                             \/ Row(k, "") \in Range(configs') /\ nvs[k] = ""
        BY <2>3, <4>1, <4>2
      <4> QED
        BY <2>1, <3>2, <4>1, <4>3 DEF Gives, Has
    <3>3. CASE kept[k] # Unknown /\ k \notin Prefs
      <4>1. PICK x \in Vals : Loaded(x) = kept[k] /\ Row(k, x) \in Range(configFile)
        BY <2>4, <3>3 DEF Gives
      <4>2. k \in Settings
        BY <2>4, <3>3 DEF Gives
      <4>3. kept[k] \in Vals /\ Loaded(kept[k]) = kept[k]
        BY <4>1, LoadedIs
      <4>4. Row(k, kept[k]) \in Range(configs')
        BY <2>3, <4>1
      <4>5. kept' = kept /\ Settings' = Settings
        BY <2>1 DEF Settings
      <4> QED
        BY <3>3, <4>2, <4>3, <4>4, <4>5 DEF Gives, Has
    <3> QED
      BY <3>1, <3>2, <3>3
  <2>6. FileGives' /\ NewGives' /\ MergeGives' /\ PrefsLoaded' /\ PrefsKept'
    BY <2>1 DEF Promise, KeptInv, FileGives, NewGives, MergeGives, PrefsLoaded, PrefsKept,
                Idle, Gives, Settings, Has, Complete
  <2>7. UpInv' /\ SavesUp'
    BY <2>1 DEF UpInv, SavesUp, LookInv, Ordered
  <2> QED
    BY <2>5, <2>6, <2>7 DEF Promise, KeptInv
<1>2. CASE MergeDefaultConfigs
  <2>1. /\ phase = "load" /\ configs # << >>
        /\ UNCHANGED <<build, app, prefsOpen, nvs, kept>>
    BY <1>2 DEF MergeDefaultConfigs
  <2>2. Idle /\ Rowed(configs) /\ Complete(configs)
    BY <2>1, IdleWhen DEF LookInv, CfgTyped, Ordered
  <2>3. \A k \in Variables : Gives(configs, k) /\ Has(configs, k)
    BY <2>1 DEF Promise, KeptInv, VectGives
  <2>4. PrefsKept'
    BY <2>1 DEF Promise, KeptInv, PrefsKept
  <2>5. CASE Missing = << >>
    <3>1. phase' = "prefs" /\ UNCHANGED <<configs, saving, configFile>>
      BY <1>2, <2>5 DEF MergeDefaultConfigs
    <3>2. VectGives'
      BY <2>1, <2>3, <3>1 DEF VectGives, Gives, Settings, Has
    <3>3. FileGives' /\ NewGives' /\ MergeGives' /\ PrefsLoaded'
      BY <2>1, <3>1 DEF Promise, KeptInv, FileGives, NewGives, MergeGives, PrefsLoaded,
                        Idle, Gives, Settings, Has, Complete
    <3>4. UpInv' /\ SavesUp'
      BY <3>1 DEF UpInv, SavesUp, LookInv, Ordered
    <3> QED
      BY <2>4, <3>2, <3>3, <3>4 DEF Promise, KeptInv
  <2>6. CASE Missing # << >>
    <3>1. phase' = "merge" /\ SaveConfigVect("boot", Merged)
      BY <1>2, <2>6 DEF MergeDefaultConfigs
    <3>2. Rowed(Merged) /\ Range(configs) \subseteq Range(Merged) /\ Complete(Merged)
      BY <2>2, MergedRows
    <3>3. saving' = [saving EXCEPT !["boot"] = ToFile(Merged)]
      BY <3>1 DEF SaveConfigVect, ToFile
    <3>4. saving'["boot"] = ToFile(Merged)
      BY <3>3, OneSaving DEF LookInv, CfgTyped, Tasks
    <3>0. Range(configs') = Range(Merged)
      BY <3>1, <3>2, SortedRows DEF SaveConfigVect
    <3>5. \A k \in Variables : Gives(Merged, k) /\ Gives(ToFile(Merged), k)
      <4> TAKE k \in Variables
      <4>1. Gives(Merged, k)
        BY <2>3, <3>2, GivesFrom
      <4>2. \A x : /\ k # "ST_SSID" /\ (k \in Secrets => k = "AP_Pass" /\ x \in {"", "*"})
                   /\ Row(k, x) \in Range(Merged)
                   => Row(k, x) \in Range(ToFile(Merged))
        <5>1. CASE k \notin Secrets
          BY <3>2, <5>1, FileKeeps
        <5>2. CASE k = "AP_Pass"
          <6> SUFFICES ASSUME NEW x \in {"", "*"}, Row(k, x) \in Range(Merged)
                       PROVE  Row(k, x) \in Range(ToFile(Merged))
            BY <5>2 DEF Secrets
          <6>1. PICK j \in DOMAIN Merged : Merged[j] = Row(k, x)
            BY DEF Range
          <6>2. PICK i \in DOMAIN ToFile(Merged) : ToFile(Merged)[i] = Written(Merged[j])
            BY <3>2, FileRows
          <6>3. Row(k, x).key = k /\ Row(k, x).val = x
            BY RowParts
          <6>4. Written(Row(k, x)) = Row(k, x)
            BY <5>2, <6>3 DEF Written
          <6> QED
            BY <6>1, <6>2, <6>4 DEF Range
        <5> QED
          BY <5>1, <5>2 DEF Secrets
      <4>3. Gives(ToFile(Merged), k)
        BY <4>1, <4>2, GivesFrom
      <4> QED
        BY <4>1, <4>3
    <3>6. VectGives'
      <4>1. \A k \in Variables : Gives(configs, k)'
        BY <2>1, <3>0, <3>5 DEF Gives, Settings
      <4>2. \A k \in Variables : Has(configs, k)'
        BY <2>1, <2>3, <3>0, <3>2 DEF Has
      <4> QED
        BY <4>1, <4>2 DEF VectGives
    <3>7. MergeGives'
      <4>1. Complete(ToFile(Merged))
        BY <3>2, FileKeeps
      <4>2. Complete(saving["boot"])'
        BY <2>1, <3>4, <4>1 DEF Complete
      <4>3. \A k \in Variables : Gives(saving["boot"], k)'
        BY <2>1, <3>4, <3>5 DEF Gives, Settings
      <4> QED
        BY <4>2, <4>3 DEF MergeGives
    <3>8. FileGives'
      <4>1. saving'["boot"] # Nothing
        BY <3>2, <3>4, FileRows, FewRows
      <4> QED
        BY <4>1 DEF FileGives, Idle, Tasks
    <3>9. NewGives' /\ PrefsLoaded'
      BY <3>1 DEF NewGives, PrefsLoaded
    <3>10. UpInv' /\ SavesUp'
      BY <3>1 DEF UpInv, SavesUp, LookInv, Ordered
    <3> QED
      BY <2>4, <3>6, <3>7, <3>8, <3>9, <3>10 DEF Promise, KeptInv
  <2> QED
    BY <2>5, <2>6
<1>3. CASE DefaultsMerged
  <2>1. /\ phase = "merge" /\ phase' = "prefs" /\ configFile' = saving["boot"]
        /\ UNCHANGED <<build, configs, app, prefsOpen, nvs, kept>>
    BY <1>3 DEF DefaultsMerged, memory
  <2>2. configFile' # Nothing
    BY <2>1 DEF LookInv, Ordered
  <2>3. /\ Complete(saving["boot"])
        /\ \A k \in Variables : Gives(saving["boot"], k) /\ Gives(configs, k) /\ Has(configs, k)
    BY <2>1 DEF Promise, KeptInv, MergeGives, VectGives
  <2>4. /\ Complete(configFile)'
        /\ \A k \in Variables : Gives(configFile, k)' /\ Gives(configs, k)' /\ Has(configs, k)'
    BY <2>1, <2>3 DEF Complete, Gives, Settings, Has
  <2>5. FileGives' /\ VectGives'
    BY <2>2, <2>4 DEF FileGives, VectGives
  <2>6. NewGives' /\ MergeGives' /\ PrefsLoaded' /\ PrefsKept'
    BY <2>1 DEF NewGives, MergeGives, PrefsLoaded, PrefsKept, Promise, KeptInv
  <2>7. UpInv' /\ SavesUp'
    BY <2>1 DEF UpInv, SavesUp, LookInv, Ordered
  <2> QED
    BY <2>5, <2>6, <2>7 DEF Promise, KeptInv
<1>4. CASE LoadPrefs
  <2>1. /\ phase = "prefs" /\ phase' = "reload"
        /\ UNCHANGED <<build, prefsOpen, saving, configFile, nvs, kept>>
    BY <1>4 DEF LoadPrefs, stored
  <2>2. FileGives' /\ NewGives' /\ MergeGives' /\ PrefsKept'
    BY <2>1 DEF Promise, KeptInv, FileGives, NewGives, MergeGives, PrefsKept, Idle, Gives, Settings, Has, Complete
  <2>3. UpInv' /\ SavesUp'
    BY <2>1 DEF UpInv, SavesUp, LookInv, Ordered
  <2>4. \A k \in Variables : Gives(configs, k) /\ Has(configs, k)
    BY <2>1 DEF Promise, KeptInv, VectGives
  <2>5. CASE prefsOpen
    <3>1. configs' = configs
      BY <1>4, <2>5 DEF LoadPrefs
    <3>2. VectGives' /\ PrefsLoaded'
      BY <2>1, <2>4, <2>5, <3>1 DEF VectGives, PrefsLoaded, Gives, Settings, Has
    <3> QED
      BY <2>2, <2>3, <3>2 DEF Promise, KeptInv
  <2>6. CASE ~prefsOpen
    <3>1. /\ app' = [app EXCEPT !["AP_Pass"] = nvs["AP_Pass"], !["ST_SSID"] = nvs["ST_SSID"]]
          /\ configs' = Update(configs, "ST_SSID", nvs["ST_SSID"])
      BY <1>4, <2>6 DEF LoadPrefs
    <3>2. /\ Rowed(configs) /\ "ST_SSID" \in Variables
          /\ nvs["ST_SSID"] \in Vals /\ nvs["ST_SSID"] # "*"
          /\ app \in [Variables -> Vals]
      BY DEF LookInv, CfgTyped, AppTyped, Prefs, Variables
    <3>3. \A k \in Variables : \A x : k # "ST_SSID" /\ Row(k, x) \in Range(configs)
                                  => Row(k, x) \in Range(Update(configs, "ST_SSID", nvs["ST_SSID"]))
      BY <3>2, UpdateKeeps
    <3>4. \A k \in Variables : Gives(Update(configs, "ST_SSID", nvs["ST_SSID"]), k)
      BY <2>4, <3>3, GivesFrom
    <3>5. VectGives'
      <4>1. \A k \in Variables : Has(Update(configs, "ST_SSID", nvs["ST_SSID"]), k)
        BY <2>4, <3>3 DEF Has, Prefs
      <4> QED
        BY <2>1, <3>1, <3>4, <4>1 DEF VectGives, Gives, Settings, Has
    <3>6. \A k \in Prefs : app'[k] = nvs[k]
      BY <3>1, <3>2 DEF Prefs, Variables
    <3>7. \A i \in DOMAIN configs' : configs'[i].key = "ST_SSID" => configs'[i].val = nvs["ST_SSID"]
      <4> DEFINE u == Update(configs, "ST_SSID", nvs["ST_SSID"])
      <4>1. /\ DOMAIN u = DOMAIN configs
            /\ \A i \in DOMAIN configs : /\ u[i].key = configs[i].key
                                         /\ configs[i].key = "ST_SSID" => u[i].val = nvs["ST_SSID"]
        BY <3>2, UpdatedRows
      <4> HIDE DEF u
      <4>2. \A i \in DOMAIN u : u[i].key = "ST_SSID" => u[i].val = nvs["ST_SSID"]
        BY <4>1
      <4> QED
        BY <3>1, <4>2 DEF u
    <3>8. PrefsLoaded'
      BY <2>1, <3>6, <3>7 DEF PrefsLoaded
    <3> QED
      BY <2>2, <2>3, <3>5, <3>8 DEF Promise, KeptInv
  <2> QED
    BY <2>5, <2>6
<1> QED
  BY <1>1, <1>2, <1>3, <1>4

\* reloadConfigs(): the variables take what the vector gives back.
LEMMA PromiseMet ==
    ASSUME LookInv, Promise, ReloadConfigs
    PROVE  \A k \in Variables : kept[k] \in {Unknown, app'[k]}
<1>1. phase = "reload" /\ \A k \in Variables : app'[k] = Applied(k)
  BY DEF ReloadConfigs
<1>2. \A k \in Variables : Gives(configs, k) /\ Has(configs, k)
  BY <1>1 DEF Promise, KeptInv, VectGives
<1>3. Rowed(configs) /\ nvs \in [Prefs -> Vals \ {"*"}]
  BY DEF LookInv, CfgTyped
<1> SUFFICES ASSUME NEW k \in Variables, kept[k] # Unknown PROVE Applied(k) = kept[k]
  BY <1>1
<1>4. CASE k \notin Prefs
  <2>1. Row(k, kept[k]) \in Range(configs) /\ k \in build.keys \cup {"hostName"}
    BY <1>2, <1>4 DEF Gives, Has, Settings
  <2>2. k \in KeysOf(configs) /\ ValueOf(configs, k) = kept[k]
    BY <1>3, <2>1, ValueFound
  <2>3. k # "AP_Pass"
    BY <1>4 DEF Prefs
  <2> QED
    BY <2>1, <2>2, <2>3 DEF Applied
<1>5. CASE k \in Prefs
  <2>1. kept[k] = nvs[k] /\ ~prefsOpen
    BY <1>5 DEF Promise, KeptInv, PrefsKept
  <2>2. app[k] = nvs[k] /\ nvs[k] # "*"
    BY <1>1, <1>3, <1>5, <2>1 DEF Promise, KeptInv, PrefsLoaded
  <2>3. CASE k = "AP_Pass"
    <3>1. Row(k, "*") \in Range(configs) \/ (Row(k, "") \in Range(configs) /\ nvs[k] = "")
      BY <1>2, <1>5, <2>3 DEF Gives
    <3>2. k \in KeysOf(configs) /\ (ValueOf(configs, k) = "*" \/ (ValueOf(configs, k) = "" /\ nvs[k] = ""))
      BY <1>3, <3>1, ValueFound
    <3>3. Applied(k) = nvs[k]
      BY <2>2, <2>3, <3>2 DEF Applied
    <3> QED
      BY <2>1, <3>3
  <2>4. CASE k = "ST_SSID"
    <3>1. k \in KeysOf(configs) => ValueOf(configs, k) = nvs[k]
      <4> SUFFICES ASSUME k \in KeysOf(configs) PROVE ValueOf(configs, k) = nvs[k]
        OBVIOUS
      <4>1. PICK i \in DOMAIN configs : configs[i].key = k /\ configs[i].val = ValueOf(configs, k)
        BY <1>3, FoundIsRow
      <4> QED
        BY <1>1, <2>1, <2>4, <4>1 DEF Promise, KeptInv, PrefsLoaded
    <3>2. Applied(k) = nvs[k]
      BY <2>2, <3>1 DEF Applied
    <3> QED
      BY <2>1, <3>2
  <2> QED
    BY <1>5, <2>3, <2>4 DEF Prefs
<1> QED
  BY <1>4, <1>5

\* Once up the vector follows the variables it was applied to.
LEMMA PromiseUp ==
    ASSUME LookInv, LookInv', Promise, ReloadConfigs
    PROVE  Promise'
<1>1. /\ phase = "reload" /\ phase' = "up" /\ \A k \in Variables : app'[k] = Applied(k)
      /\ UNCHANGED <<build, configs, prefsOpen, saving, configFile, nvs, kept>>
  BY DEF ReloadConfigs, stored
<1>2. Rowed(configs)
  BY DEF LookInv, CfgTyped
<1>3. \A k \in Tasks : saving[k] = Nothing
  BY <1>1 DEF LookInv, Ordered, Tasks
<1>4. KeptInv'
  BY <1>1 DEF Promise, KeptInv, FileGives, NewGives, MergeGives, VectGives, PrefsLoaded, PrefsKept,
              Idle, Gives, Settings, Has, Complete
<1>5. UpInv'
  <2> SUFFICES ASSUME NEW i \in DOMAIN configs,
                      configs[i].key \in (Variables \ Prefs) \cap Settings
               PROVE  configs[i].val = app'[configs[i].key]
    BY <1>1 DEF UpInv, Follows, Settings
  <2> DEFINE k == configs[i].key
  <2>1. k \in KeysOf(configs) /\ ValueOf(configs, k) = configs[i].val
    <3>1. configs[i] = Row(k, configs[i].val)
      BY <1>2, RowedEach
    <3>2. Row(k, configs[i].val) \in Range(configs)
      BY <3>1 DEF Range
    <3> HIDE DEF k
    <3> QED
      BY <1>2, <3>2, ValueFound
  <2>2. k # "AP_Pass" /\ k \in build.keys \cup {"hostName"}
    BY DEF Prefs, Settings
  <2>3. Applied(k) = configs[i].val
    BY <2>1, <2>2 DEF Applied
  <2> QED
    BY <1>1, <2>3
<1>6. SavesUp'
  BY <1>1, <1>3 DEF SavesUp, Tasks
<1> QED
  BY <1>4, <1>5, <1>6 DEF Promise

\* Every step keeps the promise.
LEMMA PromiseStep ==
    ASSUME CfgRaces = {}
    PROVE  LookInv /\ NoSecrets /\ Promise /\ [CfgNext]_cfgVars => Promise'
<1> SUFFICES ASSUME LookInv, NoSecrets, Promise, [CfgNext]_cfgVars PROVE Promise'
  OBVIOUS
<1>0. LookInv'
  BY LookStep
<1>1. CASE CfgNext
  BY <1>0, <1>1, PromiseUses, PromiseSaved, PromisePower, PromiseChecks, PromiseLoads, PromiseUp DEF CfgNext
<1>2. CASE UNCHANGED cfgVars
  <2> USE <1>2 DEF cfgVars, memory, stored, counted
  <2>1. KeptInv'
    BY DEF Promise, KeptInv, FileGives, NewGives, MergeGives, VectGives, PrefsLoaded, PrefsKept,
           Idle, Gives, Settings, Has, Complete
  <2>2. UpInv' /\ SavesUp'
    BY DEF Promise, UpInv, SavesUp, Follows, Settings, Complete
  <2> QED
    BY <2>1, <2>2 DEF Promise
<1> QED
  BY <1>1, <1>2

\* As long as one task saves at a time and a clear of NVS is not followed by a save in the same
\* run, loadConfig() finds every setting, less the spaces of its value, and every preference as
\* the last save that ended left it: through power cuts in the middle of a save, updates and
\* merged defaults.  A Telegram token is promised nothing.
THEOREM SettingsComeBack == CfgRaces = {} => (CfgSpec => SettingsKept)
<1> SUFFICES ASSUME CfgRaces = {} PROVE CfgSpec => SettingsKept
  OBVIOUS
<1>1. CfgInit => NoSecrets /\ Promise
  <2> SUFFICES ASSUME CfgInit PROVE NoSecrets /\ Promise
    OBVIOUS
  <2> USE DEF CfgInit
  <2>1. NoSecrets
    BY NothingStarred DEF NoSecrets
  <2>2. Prefs \subseteq Variables
    BY DEF Prefs, Variables
  <2>3. KeptInv
    BY <2>2 DEF KeptInv, FileGives, NewGives, MergeGives, VectGives, PrefsLoaded, PrefsKept
  <2>4. UpInv /\ SavesUp
    BY DEF UpInv, SavesUp, Tasks
  <2> QED
    BY <2>1, <2>3, <2>4 DEF Promise
<1>2. LookInv /\ NoSecrets /\ [CfgNext]_cfgVars => NoSecrets'
  BY SecretsStep
<1>3. LookInv /\ NoSecrets /\ Promise /\ [CfgNext]_cfgVars => Promise'
  BY PromiseStep
<1> DEFINE Back == phase = "reload" /\ phase' = "up" => \A k \in Variables : kept[k] \in {Unknown, app'[k]}
<1>4. LookInv /\ Promise /\ [CfgNext]_cfgVars => [Back]_cfgVars
  <2> SUFFICES ASSUME LookInv, Promise, CfgNext, phase = "reload", phase' = "up"
               PROVE  \A k \in Variables : kept[k] \in {Unknown, app'[k]}
    OBVIOUS
  <2>1. ReloadConfigs
    BY DEF CfgNext, UserSets, Set, UserSaves, ExtIpChanges, Clear, SaveEnds, PowerLost, Updated,
           DataDeleted, OtherCard, PowerOn, ResetTo, CreateConfigFile, ConfigFileCreated,
           CheckConfigFile, LoadConfigVect, MergeDefaultConfigs, DefaultsMerged, LoadPrefs
  <2> QED
    BY <2>1, PromiseMet
<1> HIDE DEF Back
<1>5. CfgSpec => [][Back]_cfgVars
  BY <1>1, <1>2, <1>3, <1>4, SettingsInvariant, PTL DEF CfgSpec
<1> QED
  BY <1>5 DEF SettingsKept, Back
=============================================================================
