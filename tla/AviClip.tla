------------------------------ MODULE AviClip ------------------------------
(***************************************************************************)
(* One recording from openAvi() to its final name, and what a loss of      *)
(* power leaves for recoverAvi() to repair (mjpeg2sd.cpp, avi.cpp).        *)
(*                                                                         *)
(* The capture task appends '00dc' and '01wb' chunks through a 32 KB write *)
(* buffer, builds the index in PSRAM beside them, and at the close writes  *)
(* the rest of the buffer, the index and the header, and renames AVITEMP.  *)
(* A chunk is its kind, where it was put in the file and its length; its   *)
(* content is abstracted.  Positions and sizes are the bytes of the code.  *)
(***************************************************************************)
EXTENDS Integers, Sequences, FiniteSets

CONSTANTS
    FrameLens,        \* the JPEG lengths the sensor delivers, in bytes
    AudioLens,        \* audio pending when a chunk is asked for, in bytes
    MaxFramesOptions, \* the values a user may store for maxFrames
    FRAME_CNT_MOD,    \* 2^16 in the code: frameCnt is a uint16_t
    RECOVER_NAMES,    \* 100 in the code: names recoverAvi() tries
    ClockRepeats,     \* TRUE: a boot without NTP may start at the old time
    IOErrors,         \* TRUE: opening, renaming and the writes of the end may fail
    MaxRecordings, MaxCrashes     \* bounds on the exploration

ASSUME LensAssumption ==
    /\ FrameLens \subseteq Nat \ {0} /\ AudioLens \subseteq Nat
    /\ MaxFramesOptions \subseteq Nat \ {0}
    /\ FRAME_CNT_MOD \in Nat \ {0} /\ RECOVER_NAMES \in Nat \ {0}
    /\ MaxRecordings \in Nat /\ MaxCrashes \in Nat
    /\ ClockRepeats \in BOOLEAN /\ IOErrors \in BOOLEAN

SD_WRITE_SIZE  == 32768
AVI_HEADER_LEN == 310
CHUNK_HDR      == 8
IDX_ENTRY      == 16
AUD_CHUNK_MIN  == 8000
MOVI_LIST      == AVI_HEADER_LEN - 4   \* where the movi list's content begins

VARIABLES
    pc,           \* where the recorder is in open, save, close and recover
    maxFrames,    \* the configured cap, editable while recording
    frameLimit,   \* the cap this recording was opened with
    frameCnt,     \* frames saved in this recording
    idxBufBytes,  \* what was allocated for the index; 0 until it is
    ix,           \* the index under construction, see IndexStart
    out,          \* the write buffer: bytes written to the file, bytes held
    temp,         \* AVITEMP, see NoTemp
    walk,         \* recoverAvi()'s place: chunks passed, pos, frames found
    clock,        \* the time dateFormat() reads, moved on by each use
    partName,     \* the time the file in AVITEMP will be named for
    clips,        \* the files that have their final name
    opened,       \* recordings opened so far (bound)
    crashes       \* losses of power so far (bound)

vars == <<pc, maxFrames, frameLimit, frameCnt, idxBufBytes, ix, out, temp,
          walk, clock, partName, clips, opened, crashes>>

bounds == <<opened, crashes>>
limits == <<frameLimit, frameCnt>>
names  == <<clock, partName, clips>>

Closing    == {"closeData", "closeIndex", "closeHeader", "closeName"}
Recovering == {"boot", "walk", "fixIndex", "fixHeader", "fixName"}

Vid == "00dc"
Aud == "01wb"
ChunkEnd(c) == c.pos + CHUNK_HDR + c.len

\* Bytes added to align a chunk on four.
Pad4(n) == n + ((4 - (n % 4)) % 4)
----------------------------------------------------------------------------
(* The index in PSRAM: ptr is idxPtr, offset idxOffset, movi moviSize and  *)
(* aud audChunkCnt.  An entry repeats its chunk's kind and length, with an *)
(* offset that is counted from the movi list.                              *)
IndexStart == [ptr |-> CHUNK_HDR, offset |-> 4, movi |-> 0, aud |-> 0,
               entries |-> <<>>]

IdxBufSize(frames) == (((frames * 3) \div 2) + 8) * IDX_ENTRY

AviIndexNearFull(x, bytes) == x.ptr + 4 * IDX_ENTRY > bytes

BuildAviIdx(x, kind, len, bytes) ==
    IF x.ptr + IDX_ENTRY > bytes
    THEN [x EXCEPT !.movi = @ + len]     \* the entry is dropped
    ELSE [ptr     |-> x.ptr + IDX_ENTRY,
          offset  |-> x.offset + len + CHUNK_HDR,
          movi    |-> x.movi + len,
          aud     |-> x.aud + (IF kind = Aud THEN 1 ELSE 0),
          entries |-> Append(x.entries,
                             [kind |-> kind, off |-> x.offset, len |-> len])]

\* The bytes that leave the 32 KB buffer when len more are appended to it.
BufferedAviWrite(o, len) ==
    [written |-> o.written + SD_WRITE_SIZE * ((o.high + len) \div SD_WRITE_SIZE),
     high    |-> (o.high + len) % SD_WRITE_SIZE]

\* The header's frame count and movi size, and the index section that follows
\* the chunks: what it says it holds, and what is really there.
AviHdr(x, frames) ==
    [frames |-> frames,
     data   |-> x.movi + (frames + x.aud) * CHUNK_HDR + 4]
ProvisionalHdr == [frames |-> 0, data |-> 4]

\* Mutant: an index sized for the frames alone.
AviIndexVideoOnly(x, frames, at) ==
    [pos |-> at, size |-> frames, entries |-> SubSeq(x.entries, 1, frames)]

AviIndex(x, frames, at) ==
    [pos |-> at, size |-> frames + x.aud,
     entries |-> SubSeq(x.entries, 1, frames + x.aud)]
NoIndex == [pos |-> 0, size |-> 0, entries |-> <<>>]

NoTemp == [there |-> FALSE, stream |-> <<>>, durable |-> 0,
           hdr |-> ProvisionalHdr, index |-> NoIndex]

\* Where recoverAvi()'s walk begins.
WalkStart == [n |-> 0, pos |-> AVI_HEADER_LEN, frames |-> 0]
----------------------------------------------------------------------------
Init ==
    /\ pc = "boot"
    /\ maxFrames \in MaxFramesOptions
    /\ frameLimit = 0 /\ frameCnt = 0
    /\ idxBufBytes = 0
    /\ ix = IndexStart
    /\ out = [written |-> 0, high |-> AVI_HEADER_LEN]
    /\ temp = NoTemp
    /\ walk = WalkStart
    /\ clock = 1 /\ partName = 0
    /\ clips = {}
    /\ opened = 0 /\ crashes = 0

\* Mutant: the index is reset only when its buffer is allocated.
PrepOnce ==
    /\ idxBufBytes' = IF idxBufBytes = 0 THEN IdxBufSize(maxFrames) ELSE idxBufBytes
    /\ ix' = IF idxBufBytes = 0 THEN IndexStart ELSE ix

\* ps_malloc() on the first use, from the maxFrames of that moment.
PrepAviIndex ==
    /\ idxBufBytes' = IF idxBufBytes = 0 THEN IdxBufSize(maxFrames) ELSE idxBufBytes
    /\ ix' = IndexStart

OpenAvi ==
    /\ pc = "idle"
    /\ opened < MaxRecordings
    /\ pc' = "rec"
    /\ frameLimit' = maxFrames
    /\ frameCnt' = 0
    /\ PrepAviIndex
    /\ out' = [written |-> 0, high |-> AVI_HEADER_LEN]
    /\ temp' = [NoTemp EXCEPT !.there = TRUE]       \* FILE_WRITE truncates
    /\ partName' = clock /\ clock' = clock + 1
    /\ opened' = opened + 1
    /\ UNCHANGED <<maxFrames, walk, clips, crashes>>

----------------------------------------------------------------------------
(* What one chunk changes, in a record: the write buffer, the index and    *)
(* the stream of chunks.                                                   *)
AddChunk(r, kind, len) ==
    LET bytes == Pad4(len)
    IN [out |-> BufferedAviWrite(r.out, CHUNK_HDR + bytes),
        ix  |-> BuildAviIdx(r.ix, kind, bytes, idxBufBytes),
        stream |-> Append(r.stream, [kind |-> kind, len |-> bytes,
                                     pos |-> r.out.written + r.out.high])]

\* writeAudioChunk(): getAudioChunk() hands audio over only from minLen on.
AddAudio(r, len, minLen) ==
    IF len = 0 \/ len < minLen THEN r ELSE AddChunk(r, Aud, len)

Recorder == [out |-> out, ix |-> ix, stream |-> temp.stream]

\* processFrame() while capturing: saveFrame(), then the flush sdGovernor() does
\* every AVI_FLUSH_SECS, then the test that ends the recording in the same pass.
SaveFrame(len, audio, flush) ==
    LET r == AddAudio(AddChunk(Recorder, Vid, len), audio, AUD_CHUNK_MIN)
    IN /\ pc = "rec"
       /\ out' = r.out
       /\ ix' = r.ix
       /\ frameCnt' = (frameCnt + 1) % FRAME_CNT_MOD
       /\ temp' = [temp EXCEPT
                     !.stream = r.stream,
                     !.durable = IF flush THEN r.out.written ELSE @]
       /\ pc' = IF frameCnt' >= frameLimit \/ AviIndexNearFull(r.ix, idxBufBytes)
                THEN "closeData" ELSE "rec"
       /\ UNCHANGED <<maxFrames, frameLimit, idxBufBytes, walk, names, bounds>>

\* The motion timer, the button, a supply sag or a restart ends the recording.
EndCapture ==
    /\ pc = "rec"
    /\ pc' = "closeData"
    /\ UNCHANGED <<maxFrames, limits, idxBufBytes, ix, out, temp, walk, names, bounds>>

\* maxFrames is stored and takes effect at once; the buffer keeps its size.
SetMaxFrames(n) ==
    /\ pc \in {"idle", "rec"}
    /\ n # maxFrames
    /\ maxFrames' = n
    /\ UNCHANGED <<pc, limits, idxBufBytes, ix, out, temp, walk, names, bounds>>
----------------------------------------------------------------------------
(* closeAvi(), one action per storage operation a loss of power can fall   *)
(* behind.  Nothing is durable until the file is closed.                   *)
CloseData(audio) ==
    LET r == AddAudio(Recorder, audio, 0)
    IN /\ pc = "closeData"
       /\ out' = [written |-> r.out.written + r.out.high, high |-> r.out.high]
       /\ ix' = r.ix
       /\ temp' = [temp EXCEPT !.stream = r.stream]
       /\ pc' = "closeIndex"
       /\ UNCHANGED <<maxFrames, limits, idxBufBytes, walk, names, bounds>>

\* closeAvi() does not look at what its writes return: an index or a header
\* may not reach the card, and the file is closed and named all the same.
CloseIndex(fails) ==
    /\ pc = "closeIndex"
    /\ temp' = [temp EXCEPT !.index = IF fails
                  THEN [NoIndex EXCEPT !.pos = out.written]
                  ELSE AviIndex(ix, frameCnt, out.written)]
    /\ pc' = "closeHeader"
    /\ UNCHANGED <<maxFrames, limits, idxBufBytes, ix, out, walk, names, bounds>>

\* buildAviHdr() from what the index gathered, written at 0; close() syncs.
CloseHeader(fails) ==
    /\ pc = "closeHeader"
    /\ temp' = [temp EXCEPT
                  !.hdr = IF fails THEN @ ELSE AviHdr(ix, frameCnt),
                  !.durable = temp.index.pos + CHUNK_HDR
                                + IDX_ENTRY * temp.index.size]
    /\ pc' = "closeName"
    /\ UNCHANGED <<maxFrames, limits, idxBufBytes, ix, out, walk, names, bounds>>

\* A clip's name is its time, its frame count (for rate and duration), and how
\* often recoverAvi() had to vary it; 0 marks a name that closeAvi() gave.
Taken(name) == \E c \in clips : c.name = name
Clip(name) == [name |-> name, stream |-> temp.stream, hdr |-> temp.hdr,
               index |-> temp.index]

\* rename() fails when the name is taken; closeAvi() does not look.
RenameTo(name, fails) ==
    IF fails \/ Taken(name)
    THEN UNCHANGED <<temp, clips>>
    ELSE clips' = clips \cup {Clip(name)} /\ temp' = NoTemp

CloseName(fails) ==
    /\ pc = "closeName"
    /\ IF frameCnt > 0
       THEN RenameTo([stamp |-> partName, frames |-> frameCnt, try |-> 0], fails)
       ELSE temp' = NoTemp /\ UNCHANGED clips
    /\ pc' = "idle"
    /\ UNCHANGED <<maxFrames, limits, idxBufBytes, ix, out, walk, clock, partName, bounds>>
----------------------------------------------------------------------------
(* A loss of power.  Of AVITEMP remain the chunks that end within the size *)
(* its directory entry was last flushed with.                              *)
Intact(s, n, size) ==
    /\ \A i \in 1..n : ChunkEnd(s[i]) <= size
    /\ n < Len(s) => ChunkEnd(s[n + 1]) > size

Crash ==
    /\ crashes < MaxCrashes
    /\ \E n \in 0..Len(temp.stream) :
          /\ Intact(temp.stream, n, temp.durable)
          /\ temp' = [temp EXCEPT !.stream = SubSeq(@, 1, n)]
    /\ pc' = "boot"
    /\ idxBufBytes' = 0
    /\ ix' = IndexStart
    /\ out' = [written |-> 0, high |-> AVI_HEADER_LEN]
    /\ frameCnt' = 0 /\ frameLimit' = 0
    /\ crashes' = crashes + 1
    /\ walk' = WalkStart
    /\ clock' \in (IF ClockRepeats THEN {1, clock} ELSE {clock})
    /\ UNCHANGED <<maxFrames, partName, clips, opened>>
----------------------------------------------------------------------------
(* recoverAvi(), called from setup() before any recording can start.  It   *)
(* walks the chunks and writes what closeAvi() would have written.         *)
\* Mutant: the tasks start without it.
RecoverNothing(fails) ==
    /\ pc = "boot" /\ pc' = "idle"
    /\ UNCHANGED <<maxFrames, limits, idxBufBytes, ix, walk, out, temp, names, bounds>>
RecoverBegin(fails) ==
    /\ pc = "boot"
    /\ IF ~temp.there \/ fails
       THEN pc' = "idle" /\ UNCHANGED <<idxBufBytes, ix, walk>>
       ELSE pc' = "walk" /\ PrepAviIndex /\ walk' = WalkStart
    /\ UNCHANGED <<maxFrames, limits, out, temp, names, bounds>>

\* The next chunk is indexed.  When the buffer is nearly full the walk stops
\* there, before pos is moved past that chunk.
WalkChunk ==
    /\ pc = "walk"
    /\ walk.n < Len(temp.stream)
    /\ LET c == temp.stream[walk.n + 1]
           frames == (walk.frames + (IF c.kind = Vid THEN 1 ELSE 0)) % FRAME_CNT_MOD
       IN /\ ix' = BuildAviIdx(ix, c.kind, c.len, idxBufBytes)
          /\ IF frames > 0 /\ AviIndexNearFull(ix', idxBufBytes)
             THEN /\ pc' = "fixIndex"
                  /\ walk' = [walk EXCEPT !.frames = frames]
             ELSE /\ pc' = "walk"
                  /\ walk' = [n |-> walk.n + 1, pos |-> ChunkEnd(c),
                              frames |-> frames]
    /\ UNCHANGED <<maxFrames, limits, idxBufBytes, out, temp, names, bounds>>

\* Mutants: an AVITEMP without frames stays; the walk stops at an audio chunk.
WalkEndsKeepingTemp ==
    /\ pc = "walk" /\ walk.n = Len(temp.stream)
    /\ IF walk.frames = 0 THEN pc' = "idle" /\ walk' = WalkStart
                          ELSE pc' = "fixIndex" /\ UNCHANGED walk
    /\ UNCHANGED <<maxFrames, limits, idxBufBytes, ix, out, temp, names, bounds>>
WalkEndsAtAudio ==
    /\ pc = "walk" /\ walk.frames > 0
    /\ walk.n < Len(temp.stream) => temp.stream[walk.n + 1].kind = Aud
    /\ pc' = "fixIndex"
    /\ UNCHANGED <<maxFrames, limits, idxBufBytes, ix, out, temp, walk, names, bounds>>

WalkEnds ==
    /\ pc = "walk"
    /\ walk.n = Len(temp.stream)
    /\ IF walk.frames = 0
       THEN pc' = "idle" /\ temp' = NoTemp /\ walk' = WalkStart
       ELSE pc' = "fixIndex" /\ UNCHANGED <<temp, walk>>
    /\ UNCHANGED <<maxFrames, limits, idxBufBytes, ix, out, names, bounds>>

\* The index is written over whatever is at pos.
FixIndex(fails) ==
    /\ pc = "fixIndex"
    /\ IF fails
       THEN pc' = "idle" /\ walk' = WalkStart /\ UNCHANGED temp
       ELSE /\ pc' = "fixHeader"
            /\ UNCHANGED walk
            /\ temp' = [temp EXCEPT !.stream = SubSeq(@, 1, walk.n),
                                    !.index = AviIndex(ix, walk.frames, walk.pos)]
    /\ UNCHANGED <<maxFrames, limits, idxBufBytes, ix, out, names, bounds>>

FixHeader ==
    /\ pc = "fixHeader"
    /\ temp' = [temp EXCEPT !.hdr = AviHdr(ix, walk.frames)]
    /\ pc' = "fixName"
    /\ UNCHANGED <<maxFrames, limits, idxBufBytes, ix, out, walk, names, bounds>>

\* Names are tried in turn until one is free; the last is used in any case.
RecoveredName(try) == [stamp |-> clock, frames |-> walk.frames, try |-> try]

FixName(try, fails) ==
    /\ pc = "fixName"
    /\ \A t \in 1..(try - 1) : Taken(RecoveredName(t))
    /\ try = RECOVER_NAMES \/ ~Taken(RecoveredName(try))
    /\ RenameTo(RecoveredName(try), fails)
    /\ partName' = clock /\ clock' = clock + 1
    /\ pc' = "idle"
    /\ walk' = WalkStart
    /\ UNCHANGED <<maxFrames, limits, idxBufBytes, ix, out, bounds>>
----------------------------------------------------------------------------
MayFail == IF IOErrors THEN BOOLEAN ELSE {FALSE}

Close == \/ \E a \in AudioLens : CloseData(a)
         \/ \E fails \in MayFail : CloseIndex(fails)
         \/ \E fails \in MayFail : CloseHeader(fails)
         \/ \E fails \in MayFail : CloseName(fails)

Recover == \/ \E fails \in MayFail : RecoverBegin(fails)
           \/ WalkChunk
           \/ WalkEnds
           \/ \E fails \in MayFail : FixIndex(fails)
           \/ FixHeader
           \/ \E try \in 1..RECOVER_NAMES, fails \in MayFail : FixName(try, fails)

Frame == \E len \in FrameLens, a \in AudioLens, flush \in BOOLEAN :
            SaveFrame(len, a, flush)

Next == \/ OpenAvi
        \/ Frame
        \/ EndCapture
        \/ \E n \in MaxFramesOptions : SetMaxFrames(n)
        \/ Close
        \/ Crash
        \/ Recover

\* The frame timer keeps waking the capture task, which runs closeAvi() without
\* interruption; setup() runs recoverAvi() to its end.
Spec == Init /\ [][Next]_vars /\ WF_vars(Frame) /\ WF_vars(Close) /\ WF_vars(Recover)
----------------------------------------------------------------------------
Chunks  == [kind : {Vid, Aud}, pos : Nat, len : Nat]
Entries == [kind : {Vid, Aud}, off : Nat, len : Nat]
Headers == [frames : Nat, data : Nat]
Indexes == [pos : Nat, size : Nat, entries : Seq(Entries)]
Names   == [stamp : Nat, frames : Nat, try : Nat]

IxRecords  == [ptr : Nat, offset : Nat, movi : Nat, aud : Nat,
               entries : Seq(Entries)]
OutRecords == {o \in [written : Nat, high : Nat] : o.high < SD_WRITE_SIZE}
Temps      == [there : BOOLEAN, stream : Seq(Chunks), durable : Nat,
               hdr : Headers, index : Indexes]
Walks      == [n : Nat, pos : Nat, frames : 0..(FRAME_CNT_MOD - 1)]
Clips      == [name : Names, stream : Seq(Chunks), hdr : Headers, index : Indexes]

TypeOK ==
    /\ pc \in {"idle", "rec"} \cup Closing \cup Recovering
    /\ maxFrames \in MaxFramesOptions
    /\ frameLimit \in Nat /\ frameCnt \in 0..(FRAME_CNT_MOD - 1)
    /\ idxBufBytes \in Nat
    /\ ix \in IxRecords
    /\ out \in OutRecords
    /\ temp \in Temps
    /\ walk \in Walks
    /\ clock \in Nat /\ partName \in Nat
    /\ clips \subseteq Clips
    /\ opened \in Nat /\ crashes \in Nat

\* While a file is recorded and closed, and while one is walked, the index has
\* one entry per chunk and each entry leads to its chunk: buildAviIdx() never
\* takes the branch that drops an entry, whatever maxFrames is set to meanwhile.
Leads(e, c) == e.kind = c.kind /\ e.len = c.len /\ e.off + MOVI_LIST = c.pos

LeadsTo(entries, stream, n) ==
    /\ Len(entries) = n
    /\ \A i \in 1..n : Leads(entries[i], stream[i])

IndexFollowsStream ==
    /\ pc \in {"rec"} \cup Closing
         => LeadsTo(ix.entries, temp.stream, Len(temp.stream))
    /\ pc = "walk" => LeadsTo(ix.entries, temp.stream, walk.n)

VidCount(s) == Cardinality({i \in 1..Len(s) : s[i].kind = Vid})

\* A player can use a file: its index section holds as many entries as it
\* says, each entry finds an intact chunk of its kind and length, the header
\* counts the video chunks, and the movi list's size ends at the index.
Playable(c) ==
    /\ c.index.size = Len(c.index.entries)
    /\ \A i \in 1..c.index.size :
          \E j \in 1..Len(c.stream) : Leads(c.index.entries[i], c.stream[j])
    /\ c.hdr.frames = VidCount(c.index.entries)
    /\ c.hdr.data + MOVI_LIST = c.index.pos

\* Why a closed file is playable.  The frame counter does not wrap; chunks
\* follow one another from the header on; the index agrees with them in every
\* figure it is used for; and there is room for the chunks still to come.
FrameCountFits == \A n \in MaxFramesOptions : n < FRAME_CNT_MOD

Contiguous(s) ==
    \A i \in 1..Len(s) :
       s[i].pos = IF i = 1 THEN AVI_HEADER_LEN ELSE ChunkEnd(s[i - 1])
StreamEnd(s, n) == IF n = 0 THEN AVI_HEADER_LEN ELSE ChunkEnd(s[n])

StreamInv ==
    /\ Contiguous(temp.stream)
    /\ VidCount(temp.stream) < FRAME_CNT_MOD
    /\ Len(temp.stream) > 1 => temp.stream[1].kind = Vid

Agrees(x, s, n) ==
    /\ LeadsTo(x.entries, s, n)
    /\ x.ptr = CHUNK_HDR + IDX_ENTRY * n
    /\ x.offset = 4 + x.movi + CHUNK_HDR * n
    /\ x.offset + MOVI_LIST = StreamEnd(s, n)

RecordingInv ==
    /\ pc \in {"rec"} \cup Closing =>
         /\ Agrees(ix, temp.stream, Len(temp.stream))
         /\ frameCnt = VidCount(temp.stream)
         /\ frameCnt = VidCount(ix.entries)
         /\ frameCnt + ix.aud = Len(temp.stream)
    /\ pc \in {"rec", "closeData"} =>
         /\ out.written + out.high = StreamEnd(temp.stream, Len(temp.stream))
         /\ Len(temp.stream) > 0 => temp.stream[1].kind = Vid
    /\ pc = "closeIndex" =>
         out.written = StreamEnd(temp.stream, Len(temp.stream))
    /\ pc \in {"closeHeader", "closeName"} /\ ~IOErrors =>
         temp.index = AviIndex(ix, frameCnt, ix.offset + MOVI_LIST)
    /\ pc = "closeName" /\ ~IOErrors => temp.hdr = AviHdr(ix, frameCnt)

WalkInv ==
    /\ pc = "walk" =>
         /\ Agrees(ix, temp.stream, walk.n)
         /\ walk.frames = VidCount(SubSeq(temp.stream, 1, walk.n))
    /\ pc \in {"walk", "fixIndex"} =>
         /\ walk.n <= Len(temp.stream)
         /\ walk.frames + ix.aud = Len(ix.entries)

RoomInv ==
    /\ idxBufBytes = 0 \/ idxBufBytes >= IdxBufSize(1)
    /\ pc = "rec" => /\ frameLimit \in MaxFramesOptions
                     /\ frameCnt < frameLimit
    /\ pc \in {"rec", "walk"} => ~AviIndexNearFull(ix, idxBufBytes)
    /\ pc = "closeData" => ix.ptr + IDX_ENTRY <= idxBufBytes

\* Every file closeAvi() named is playable, while its writes reach the card.
ClosedClipsPlayable == \A c \in clips : c.name.try = 0 => Playable(c)

IInv == /\ TypeOK /\ StreamInv /\ RecordingInv /\ WalkInv /\ RoomInv
        /\ ~IOErrors => ClosedClipsPlayable

\* Every file recoverAvi() named is playable ("Rebuild an AVI that lost power
\* ... everything closeAvi() would have written can be reconstructed").
RecoveredClipsPlayable == \A c \in clips : c.name.try > 0 => Playable(c)

\* The index that maxFrames sizes has room for n chunks, with the four entries
\* aviIndexNearFull() keeps free; recoverAvi() has it for the file it walks.
ChunksFit(n, m) == CHUNK_HDR + (n + 4) * IDX_ENTRY <= IdxBufSize(m)
WalkHasRoom == pc = "walk" => ChunksFit(Len(temp.stream), maxFrames)

\* openAvi() never truncates a recording that is still waiting under AVITEMP.
NothingOverwritten == [][pc = "idle" /\ pc' = "rec" => ~temp.there]_vars

\* What is recorded ends up under a name or is found to be empty: AVITEMP does
\* not stay for ever.
TempIsResolved == temp.there ~> ~temp.there

\* Seen from outside, a recording behaves as ClipStore says: the chunks a loss
\* of power cannot take are those within the flushed size.
SafeChunks == Cardinality({i \in 1..Len(temp.stream) :
                             ChunkEnd(temp.stream[i]) <= temp.durable})

Store == INSTANCE ClipStore WITH
    recording <- temp.there,
    open      <- temp.stream,
    safe      <- SafeChunks,
    kept      <- {[name |-> c.name, chunks |-> c.stream] : c \in clips}

ImplementsClipStore == Store!Spec
=============================================================================
