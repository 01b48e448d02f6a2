--------------------------- MODULE AviClipProofs ---------------------------
(* Theorems about AviClip, for every set of lengths, every maxFrames and   *)
(* any number of recordings and losses of power.                           *)
EXTENDS MCAviClip, FiniteSetTheorems, TLAPS

\* Padding never shortens a chunk and yields a natural number.
LEMMA PadNat == ASSUME NEW n \in Nat PROVE Pad4(n) \in Nat
  BY DEF Pad4

\* Division by the block size, with the quotient and remainder named.
LEMMA BlockDivision ==
    ASSUME NEW t \in Nat, NEW q \in Int, NEW r \in Int,
           q = t \div 32768, r = t % 32768
    PROVE  q \in Nat /\ r \in Nat /\ r < 32768 /\ 32768 * q + r = t
  OBVIOUS

\* The write buffer never holds a whole block, and loses no byte.
LEMMA BufferNat ==
    ASSUME NEW o \in OutRecords, NEW len \in Nat
    PROVE  /\ BufferedAviWrite(o, len) \in OutRecords
           /\ BufferedAviWrite(o, len).written + BufferedAviWrite(o, len).high
                = o.written + o.high + len
<1>1. PICK w \in Nat, h \in Nat : w = o.written /\ h = o.high
  BY DEF OutRecords
<1>2. PICK t \in Nat : t = h + len
  BY <1>1
<1>3. PICK q \in Int, r \in Int : q = t \div 32768 /\ r = t % 32768
  BY <1>2
<1>4. q \in Nat /\ r \in Nat /\ r < 32768 /\ 32768 * q + r = t
  BY <1>2, <1>3, BlockDivision
<1>5. BufferedAviWrite(o, len) = [written |-> w + 32768 * q, high |-> r]
  BY <1>1, <1>2, <1>3 DEF BufferedAviWrite, SD_WRITE_SIZE
<1>6. w + 32768 * q \in Nat /\ w + 32768 * q + r = w + h + len
  BY <1>1, <1>2, <1>4
<1> QED
  BY <1>1, <1>4, <1>5, <1>6 DEF OutRecords, SD_WRITE_SIZE

\* Counting the video entries of an index that grows by one.
LEMMA VidCountAppend ==
    ASSUME NEW S, NEW s \in Seq(S), NEW e \in S
    PROVE  /\ VidCount(s) \in Nat
           /\ VidCount(s) <= Len(s)
           /\ VidCount(Append(s, e))
                = VidCount(s) + (IF e.kind = Vid THEN 1 ELSE 0)
<1> DEFINE V(t) == {i \in 1..Len(t) : t[i].kind = Vid}
           n == Len(s)
<1>1. n \in Nat /\ Len(Append(s, e)) = n + 1 /\ Append(s, e)[n + 1] = e
  OBVIOUS
<1>2. \A i \in 1..n : Append(s, e)[i] = s[i]
  OBVIOUS
<1>3. IsFiniteSet(1..n) /\ Cardinality(1..n) = n
  BY <1>1, FS_Interval
<1>4. V(s) \in SUBSET (1..n)
  OBVIOUS
<1>5. IsFiniteSet(V(s)) /\ Cardinality(V(s)) <= n
  BY <1>3, <1>4, FS_Subset
<1>6. Cardinality(V(s)) \in Nat
  BY <1>5, FS_CardinalityType
<1>7. CASE e.kind = Vid
  <2>1. V(Append(s, e)) = V(s) \cup {n + 1}
    BY <1>1, <1>2, <1>7
  <2>2. n + 1 \notin V(s)
    BY <1>1
  <2> QED
    BY <1>5, <1>6, <1>7, <2>1, <2>2, FS_AddElement DEF VidCount
<1>8. CASE e.kind # Vid
  <2>1. V(Append(s, e)) = V(s)
    BY <1>1, <1>2, <1>8
  <2>2. VidCount(Append(s, e)) = VidCount(s)
    BY <2>1 DEF VidCount
  <2>3. VidCount(s) \in Nat /\ VidCount(s) <= n
    BY <1>5, <1>6 DEF VidCount
  <2> HIDE DEF n, V
  <2> QED
    BY <1>8, <2>2, <2>3 DEF n
<1> QED
  BY <1>7, <1>8

\* An empty stream holds no frame.
LEMMA VidCountEmpty == VidCount(<<>>) = 0
<1>1. {i \in 1..Len(<<>>) : <<>>[i].kind = Vid} = {}
  OBVIOUS
<1> QED
  BY <1>1, FS_EmptySet DEF VidCount

\* A recording cut short holds no more frames than it did.
LEMMA VidCountPrefix ==
    ASSUME NEW S, NEW s \in Seq(S), NEW n \in 0..Len(s)
    PROVE  /\ SubSeq(s, 1, n) \in Seq(S) /\ Len(SubSeq(s, 1, n)) = n
           /\ \A i \in 1..n : SubSeq(s, 1, n)[i] = s[i]
           /\ VidCount(SubSeq(s, 1, n)) \in Nat
           /\ VidCount(SubSeq(s, 1, n)) <= VidCount(s)
<1> DEFINE V(t) == {i \in 1..Len(t) : t[i].kind = Vid}
           p == SubSeq(s, 1, n)
<1>1. p \in Seq(S) /\ Len(p) = n /\ \A i \in 1..n : p[i] = s[i]
  OBVIOUS
<1>2. IsFiniteSet(1..Len(s))
  BY FS_Interval
<1>3. IsFiniteSet(V(s)) /\ V(s) \in SUBSET (1..Len(s))
  BY <1>2, FS_Subset
<1>4. V(p) \in SUBSET V(s)
  BY <1>1
<1>5. IsFiniteSet(V(p)) /\ Cardinality(V(p)) <= Cardinality(V(s))
  BY <1>3, <1>4, FS_Subset
<1>6. Cardinality(V(p)) \in Nat
  BY <1>5, FS_CardinalityType
<1> HIDE DEF p
<1>7. VidCount(p) \in Nat /\ VidCount(p) <= VidCount(s)
  BY <1>5, <1>6 DEF VidCount
<1> QED
  BY <1>1, <1>7 DEF p

\* The index buffer holds at least eight entries and its header.
LEMMA IndexRoom ==
    ASSUME NEW n \in Nat \ {0}
    PROVE  /\ IdxBufSize(n) \in Nat /\ IdxBufSize(n) >= 144
           /\ IdxBufSize(1) = 144
<1>1. PICK t \in Nat : t = n * 3 /\ t >= 3
  OBVIOUS
<1>2. PICK q \in Int : q = t \div 2
  BY <1>1
<1>3. q \in Nat /\ q >= 1
  BY <1>1, <1>2
<1>4. IdxBufSize(n) = (q + 8) * 16
  BY <1>1, <1>2 DEF IdxBufSize, IDX_ENTRY
<1>5. (1 * 3) \div 2 = 1
  OBVIOUS
<1> QED
  BY <1>3, <1>4, <1>5 DEF IdxBufSize, IDX_ENTRY

\* With room for its entry, a chunk is indexed and no field is left behind.
LEMMA IndexGrows ==
    ASSUME NEW x \in IxRecords, NEW kind \in {Vid, Aud}, NEW len \in Nat,
           NEW bytes \in Nat, x.ptr + IDX_ENTRY <= bytes
    PROVE  LET y == BuildAviIdx(x, kind, len, bytes)
           IN /\ y \in IxRecords
              /\ y.ptr = x.ptr + IDX_ENTRY
              /\ y.offset = x.offset + len + CHUNK_HDR
              /\ y.movi = x.movi + len
              /\ y.aud = x.aud + (IF kind = Aud THEN 1 ELSE 0)
              /\ y.entries = Append(x.entries, [kind |-> kind,
                                                off |-> x.offset, len |-> len])
<1> DEFINE e == [kind |-> kind, off |-> x.offset, len |-> len]
           y == BuildAviIdx(x, kind, len, bytes)
<1>1. /\ x.ptr \in Nat /\ x.offset \in Nat /\ x.movi \in Nat /\ x.aud \in Nat
      /\ x.entries \in Seq(Entries)
  BY DEF IxRecords
<1>2. e \in Entries
  BY <1>1 DEF Entries
<1>3. Append(x.entries, e) \in Seq(Entries)
  BY <1>1, <1>2
<1>4. y = [ptr |-> x.ptr + IDX_ENTRY, offset |-> x.offset + len + CHUNK_HDR,
           movi |-> x.movi + len,
           aud |-> x.aud + (IF kind = Aud THEN 1 ELSE 0),
           entries |-> Append(x.entries, e)]
  BY <1>1 DEF BuildAviIdx, IDX_ENTRY
<1> HIDE DEF y
<1>5. y \in IxRecords
  BY <1>1, <1>3, <1>4 DEF IxRecords, IDX_ENTRY, CHUNK_HDR
<1> QED
  BY <1>4, <1>5 DEF y

\* The entries that lead to the first n chunks, and one more for chunk n + 1.
LEMMA LeadsOneMore ==
    ASSUME NEW es \in Seq(Entries), NEW s, NEW n \in Nat, NEW e \in Entries,
           LeadsTo(es, s, n), Leads(e, s[n + 1])
    PROVE  LeadsTo(Append(es, e), s, n + 1)
<1>1. Len(es) = n /\ \A i \in 1..n : Leads(es[i], s[i])
  BY DEF LeadsTo
<1>2. Len(Append(es, e)) = n + 1 /\ Append(es, e)[n + 1] = e
  BY <1>1
<1>3. \A i \in 1..n : Append(es, e)[i] = es[i]
  BY <1>1
<1>4. ASSUME NEW i \in 1..(n + 1) PROVE Leads(Append(es, e)[i], s[i])
  <2>1. CASE i = n + 1
    BY <1>2, <2>1
  <2>2. CASE i \in 1..n
    BY <1>1, <1>3, <2>2
  <2>3. i = n + 1 \/ i \in 1..n
    OBVIOUS
  <2> QED
    BY <2>1, <2>2, <2>3
<1> QED
  BY <1>2, <1>4 DEF LeadsTo

\* What holds between the write buffer, the index and the stream while f
\* frames have been saved, and what adding a chunk to them keeps.
Good(r, f) ==
    /\ r.out \in OutRecords /\ r.ix \in IxRecords /\ r.stream \in Seq(Chunks)
    /\ Contiguous(r.stream)
    /\ Agrees(r.ix, r.stream, Len(r.stream))
    /\ r.out.written + r.out.high = StreamEnd(r.stream, Len(r.stream))
    /\ f \in Nat
    /\ f = VidCount(r.stream) /\ f = VidCount(r.ix.entries)
    /\ f + r.ix.aud = Len(r.stream)

\* A chunk that has room in the index leaves buffer, index and stream in step.
LEMMA ChunkKeepsGood ==
    ASSUME NEW r, NEW f, Good(r, f), NEW kind \in {Vid, Aud}, NEW len \in Nat,
           idxBufBytes \in Nat, r.ix.ptr + IDX_ENTRY <= idxBufBytes
    PROVE  LET q == AddChunk(r, kind, len)
           IN /\ Good(q, f + (IF kind = Vid THEN 1 ELSE 0))
              /\ q.ix.ptr = r.ix.ptr + IDX_ENTRY
              /\ Len(q.stream) = Len(r.stream) + 1
              /\ q.stream[1].kind
                   = IF Len(r.stream) = 0 THEN kind ELSE r.stream[1].kind
<1> DEFINE q == AddChunk(r, kind, len)
           g == f + (IF kind = Vid THEN 1 ELSE 0)
<1>1. PICK s \in Seq(Chunks), x \in IxRecords, o \in OutRecords, n \in Nat :
         s = r.stream /\ x = r.ix /\ o = r.out /\ n = Len(s)
  BY DEF Good
<1>2. PICK bytes \in Nat : bytes = Pad4(len)
  BY PadNat
<1>3. PICK w \in Nat, h \in Nat : w = o.written /\ h = o.high
  BY DEF OutRecords
<1> DEFINE c == [kind |-> kind, len |-> bytes, pos |-> w + h]
           e == [kind |-> kind, off |-> x.offset, len |-> bytes]
<1>4. /\ q.out = BufferedAviWrite(o, CHUNK_HDR + bytes)
      /\ q.ix = BuildAviIdx(x, kind, bytes, idxBufBytes)
      /\ q.stream = Append(s, c)
  BY <1>1, <1>2, <1>3 DEF AddChunk
<1> HIDE DEF q
<1>5. c \in Chunks /\ e \in Entries
  BY <1>1 DEF Chunks, Entries, IxRecords
<1>6. /\ q.out \in OutRecords
      /\ q.out.written + q.out.high = w + h + 8 + bytes
  <2>1. PICK m \in Nat : m = CHUNK_HDR + bytes /\ m = 8 + bytes
    BY DEF CHUNK_HDR
  <2>2. /\ q.out \in OutRecords
        /\ q.out.written + q.out.high = o.written + o.high + m
    BY <1>4, <2>1, BufferNat
  <2>3. q.out.written + q.out.high = w + h + m
    BY <1>3, <2>2
  <2>4. w + h + m = w + h + 8 + bytes
    BY <2>1
  <2> QED
    BY <2>2, <2>3, <2>4
<1>7. /\ q.ix \in IxRecords
      /\ q.ix.ptr = x.ptr + IDX_ENTRY
      /\ q.ix.offset = x.offset + bytes + CHUNK_HDR
      /\ q.ix.movi = x.movi + bytes
      /\ q.ix.aud = x.aud + (IF kind = Aud THEN 1 ELSE 0)
      /\ q.ix.entries = Append(x.entries, e)
  <2>1. x.ptr + IDX_ENTRY <= idxBufBytes
    BY <1>1
  <2> QED
    BY <1>4, <2>1, IndexGrows
<1>8. /\ Append(s, c) \in Seq(Chunks) /\ Len(Append(s, c)) = n + 1
      /\ Append(s, c)[n + 1] = c
      /\ \A i \in 1..n : Append(s, c)[i] = s[i]
  BY <1>1, <1>5
<1> HIDE DEF c, e, q, g
<1>a. x.ptr \in Nat /\ x.offset \in Nat /\ x.movi \in Nat /\ x.aud \in Nat
      /\ x.entries \in Seq(Entries)
  BY DEF IxRecords
<1>9. /\ Contiguous(s) /\ Agrees(x, s, n)
      /\ w + h = StreamEnd(s, n)
      /\ f \in Nat /\ f = VidCount(s) /\ f = VidCount(x.entries)
      /\ f + x.aud = n
  BY <1>1, <1>3 DEF Good
<1>10. Contiguous(q.stream)
  <2> SUFFICES ASSUME NEW i \in 1..(n + 1)
               PROVE  q.stream[i].pos = IF i = 1 THEN AVI_HEADER_LEN
                                        ELSE ChunkEnd(q.stream[i - 1])
    BY <1>4, <1>8 DEF Contiguous
  <2>1. CASE i \in 1..n
    <3>1. q.stream[i] = s[i] /\ (i # 1 => q.stream[i - 1] = s[i - 1])
      BY <1>4, <1>8, <2>1
    <3> QED
      BY <1>1, <1>9, <2>1, <3>1 DEF Contiguous
  <2>2. CASE i = n + 1
    <3>1. q.stream[i] = c /\ (i # 1 => q.stream[i - 1] = s[n])
      BY <1>4, <1>8, <2>2
    <3> QED
      BY <1>9, <2>2, <3>1 DEF StreamEnd, c
  <2> QED
    BY <2>1, <2>2
<1>11. LeadsTo(q.ix.entries, q.stream, n + 1)
  <2>1. LeadsTo(x.entries, q.stream, n)
    BY <1>4, <1>8, <1>9 DEF Agrees, LeadsTo
  <2>2. Leads(e, q.stream[n + 1])
    BY <1>4, <1>8, <1>9 DEF Leads, Agrees, e, c
  <2>3. x.entries \in Seq(Entries)
    BY <1>1 DEF IxRecords
  <2> QED
    BY <1>1, <1>5, <1>7, <2>1, <2>2, <2>3, LeadsOneMore
<1>12. StreamEnd(q.stream, n + 1) = w + h + 8 + bytes
  BY <1>1, <1>4, <1>8 DEF StreamEnd, ChunkEnd, CHUNK_HDR, c
<1>13. /\ q.ix.ptr = CHUNK_HDR + IDX_ENTRY * (n + 1)
       /\ q.ix.offset = 4 + q.ix.movi + CHUNK_HDR * (n + 1)
       /\ q.ix.offset + MOVI_LIST = StreamEnd(q.stream, n + 1)
  <2>1. /\ x.ptr = 8 + 16 * n /\ x.offset = 4 + x.movi + 8 * n
        /\ x.offset + 306 = w + h
    BY <1>9 DEF Agrees, CHUNK_HDR, IDX_ENTRY, MOVI_LIST, AVI_HEADER_LEN
  <2>2. /\ q.ix.ptr = x.ptr + 16 /\ q.ix.offset = x.offset + bytes + 8
        /\ q.ix.movi = x.movi + bytes
    BY <1>7 DEF CHUNK_HDR, IDX_ENTRY
  <2>3. PICK xp \in Nat, xo \in Nat, xm \in Nat :
            xp = x.ptr /\ xo = x.offset /\ xm = x.movi
    BY <1>a
  <2>4. xp = 8 + 16 * n /\ xo = 4 + xm + 8 * n /\ xo + 306 = w + h
    BY <2>1, <2>3
  <2>5. /\ xp + 16 = 8 + 16 * (n + 1)
        /\ xo + bytes + 8 = 4 + (xm + bytes) + 8 * (n + 1)
        /\ xo + bytes + 8 + 306 = w + h + 8 + bytes
    BY <2>4
  <2> QED
    BY <1>12, <2>2, <2>3, <2>5 DEF CHUNK_HDR, IDX_ENTRY, MOVI_LIST, AVI_HEADER_LEN
<1>14. g \in Nat /\ g = VidCount(q.stream) /\ g = VidCount(q.ix.entries)
  <2>1. VidCount(q.stream) = f + (IF c.kind = Vid THEN 1 ELSE 0)
    BY <1>1, <1>4, <1>5, <1>9, VidCountAppend
  <2>2. VidCount(q.ix.entries) = f + (IF e.kind = Vid THEN 1 ELSE 0)
    BY <1>a, <1>5, <1>7, <1>9, VidCountAppend
  <2> QED
    BY <1>9, <2>1, <2>2 DEF c, e, g
<1>15. g + q.ix.aud = n + 1
  <2>1. CASE kind = Vid
    BY <1>a, <1>7, <1>9, <2>1 DEF g, Vid, Aud
  <2>2. CASE kind = Aud
    <3>1. g = f /\ q.ix.aud = x.aud + 1
      BY <1>7, <1>9, <2>2 DEF g, Vid, Aud
    <3>2. PICK a \in Nat : a = x.aud
      BY <1>a
    <3>3. f + a = n /\ f + (a + 1) = n + 1
      BY <1>9, <3>2
    <3> QED
      BY <3>1, <3>2, <3>3
  <2> QED
    BY <2>1, <2>2
<1>16. Good(q, g)
  <2>1. Len(q.stream) = n + 1 /\ q.stream \in Seq(Chunks)
    BY <1>4, <1>8
  <2> QED
    BY <1>6, <1>7, <1>10, <1>11, <1>12, <1>13, <1>14, <1>15, <2>1
       DEF Good, Agrees
<1>17. q.stream[1].kind = IF n = 0 THEN kind ELSE s[1].kind
  BY <1>1, <1>4, <1>8 DEF c
<1> QED
  BY <1>1, <1>4, <1>7, <1>8, <1>16, <1>17 DEF q, g

----------------------------------------------------------------------------
(* The inductive invariant.                                                *)

\* An empty recording: the index holds its header, the stream nothing.
LEMMA EmptyAgrees ==
    /\ IndexStart \in IxRecords
    /\ Agrees(IndexStart, <<>>, 0)
    /\ \A s : Agrees(IndexStart, s, 0)
    /\ IndexStart.aud = 0 /\ IndexStart.ptr = 8 /\ IndexStart.entries = <<>>
    /\ Contiguous(<<>>)
    /\ NoTemp.stream = <<>> /\ NoTemp.there = FALSE
    /\ NoTemp \in Temps
<1>1. IndexStart = [ptr |-> 8, offset |-> 4, movi |-> 0, aud |-> 0,
                    entries |-> <<>>]
  BY DEF IndexStart, CHUNK_HDR
<1>2. IndexStart \in IxRecords
  BY <1>1 DEF IxRecords
<1>3. \A s : LeadsTo(<<>>, s, 0)
  BY DEF LeadsTo
<1>4. \A s : Agrees(IndexStart, s, 0)
  BY <1>1, <1>3 DEF Agrees, StreamEnd, CHUNK_HDR, IDX_ENTRY, MOVI_LIST,
                    AVI_HEADER_LEN
<1>5. Contiguous(<<>>)
  BY DEF Contiguous
<1>6. ProvisionalHdr \in Headers /\ NoIndex \in Indexes
  BY DEF ProvisionalHdr, Headers, NoIndex, Indexes
<1>7. NoTemp \in Temps
  BY <1>6 DEF NoTemp, Temps
<1> QED
  BY <1>1, <1>2, <1>4, <1>5, <1>7 DEF NoTemp

\* The walk starts from a place of the right type.
LEMMA WalkStartType == WalkStart \in Walks
<1>1. 0 \in 0..(FRAME_CNT_MOD - 1)
  BY LensAssumption
<1> QED
  BY <1>1 DEF WalkStart, Walks, AVI_HEADER_LEN

\* Before the first boot nothing is recorded and nothing is under AVITEMP.
LEMMA InitEstablishesInv == Init => IInv
<1> SUFFICES ASSUME Init PROVE IInv
  OBVIOUS
<1> USE DEF Init
<1>1. TypeOK
  <2>1. out \in OutRecords
    BY DEF AVI_HEADER_LEN, SD_WRITE_SIZE, OutRecords
  <2>2. 0 \in 0..(FRAME_CNT_MOD - 1)
    BY LensAssumption
  <2> QED
    BY <2>1, <2>2, WalkStartType, EmptyAgrees DEF TypeOK, Recovering
<1>2. StreamInv
  BY EmptyAgrees, VidCountEmpty, LensAssumption DEF StreamInv
<1>3. RecordingInv /\ WalkInv
  BY DEF RecordingInv, WalkInv, Closing
<1>4. RoomInv
  BY DEF RoomInv
<1>5. ClosedClipsPlayable
  BY DEF ClosedClipsPlayable
<1> QED
  BY <1>1, <1>2, <1>3, <1>4, <1>5 DEF IInv

\* While chunks are being added, buffer, index and stream are as Good says.
LEMMA RecorderIsGood ==
    ASSUME IInv, pc \in {"rec", "closeData"}
    PROVE  Good(Recorder, frameCnt)
<1>1. /\ out \in OutRecords /\ ix \in IxRecords /\ temp.stream \in Seq(Chunks)
      /\ frameCnt \in Nat
  BY LensAssumption DEF IInv, TypeOK, Temps
<1>2. /\ Contiguous(temp.stream)
      /\ Agrees(ix, temp.stream, Len(temp.stream))
      /\ out.written + out.high = StreamEnd(temp.stream, Len(temp.stream))
      /\ frameCnt = VidCount(temp.stream) /\ frameCnt = VidCount(ix.entries)
      /\ frameCnt + ix.aud = Len(temp.stream)
  BY DEF IInv, StreamInv, RecordingInv, Closing
<1> QED
  BY <1>1, <1>2 DEF Good, Recorder

\* An audio chunk, when there is one, keeps the counts of a good recorder.
LEMMA AudioKeepsGood ==
    ASSUME NEW r, NEW f, Good(r, f), NEW len \in Nat, NEW min \in Nat,
           idxBufBytes \in Nat, r.ix.ptr + IDX_ENTRY <= idxBufBytes
    PROVE  LET q == AddAudio(r, len, min)
           IN /\ Good(q, f)
              /\ q.ix.ptr = r.ix.ptr \/ q.ix.ptr = r.ix.ptr + IDX_ENTRY
              /\ q = r \/ /\ Len(q.stream) = Len(r.stream) + 1
                          /\ Len(r.stream) > 0
                               => q.stream[1].kind = r.stream[1].kind
<1>1. CASE len = 0 \/ len < min
  BY <1>1 DEF AddAudio
<1>2. CASE ~(len = 0 \/ len < min)
  <2> DEFINE q == AddChunk(r, Aud, len)
  <2>1. AddAudio(r, len, min) = q
    BY <1>2 DEF AddAudio
  <2>2. f + (IF Aud = Vid THEN 1 ELSE 0) = f
    BY DEF Good, Aud, Vid
  <2>3. /\ Good(q, f) /\ q.ix.ptr = r.ix.ptr + IDX_ENTRY
        /\ Len(q.stream) = Len(r.stream) + 1
        /\ q.stream[1].kind
             = IF Len(r.stream) = 0 THEN Aud ELSE r.stream[1].kind
    BY <2>2, ChunkKeepsGood
  <2> HIDE DEF q
  <2> QED
    BY <2>1, <2>3
<1> QED
  BY <1>1, <1>2

\* openAvi() starts from an empty index, with room whatever its size.
LEMMA OpenKeepsInv ==
    ASSUME FrameCountFits, IInv, OpenAvi
    PROVE  IInv'
<1> USE DEF OpenAvi
<1>1. maxFrames \in Nat \ {0} /\ maxFrames \in MaxFramesOptions
  BY LensAssumption DEF IInv, TypeOK
<1>2. idxBufBytes' \in Nat /\ idxBufBytes' >= 144 /\ IdxBufSize(1) = 144
  BY <1>1, IndexRoom DEF IInv, TypeOK, RoomInv, PrepAviIndex
<1>3. temp'.stream = <<>> /\ temp' \in Temps
  <2>1. NoTemp \in Temps /\ NoTemp.stream = <<>>
    BY EmptyAgrees
  <2>2. temp' = [NoTemp EXCEPT !.there = TRUE]
    OBVIOUS
  <2> QED
    BY <2>1, <2>2 DEF Temps
<1>4. ix' = IndexStart
  BY DEF PrepAviIndex
<1>5. TypeOK'
  <2>1. out' \in OutRecords
    BY DEF AVI_HEADER_LEN, SD_WRITE_SIZE, OutRecords
  <2>2. ix' \in IxRecords
    BY <1>4, EmptyAgrees
  <2>3. 0 \in 0..(FRAME_CNT_MOD - 1)
    BY LensAssumption
  <2>4. opened + 1 \in Nat /\ clock + 1 \in Nat
    BY DEF IInv, TypeOK
  <2> QED
    BY <1>1, <1>2, <1>3, <2>1, <2>2, <2>3, <2>4 DEF IInv, TypeOK
<1>6. StreamInv'
  BY <1>3, EmptyAgrees, VidCountEmpty, LensAssumption DEF StreamInv
<1>7. RecordingInv'
  BY <1>3, <1>4, EmptyAgrees, VidCountEmpty
     DEF RecordingInv, StreamEnd, AVI_HEADER_LEN
<1>8. WalkInv' /\ (~IOErrors => ClosedClipsPlayable')
  BY DEF WalkInv, IInv, ClosedClipsPlayable
<1>9. RoomInv'
  BY <1>1, <1>2, <1>4, EmptyAgrees DEF RoomInv, AviIndexNearFull, IDX_ENTRY
<1> QED
  BY <1>5, <1>6, <1>7, <1>8, <1>9 DEF IInv

\* saveFrame() adds at most two entries, and the test after it leaves room for
\* the frame that follows and for the audio of the close.
LEMMA SaveFrameKeepsInv ==
    ASSUME FrameCountFits, IInv, NEW len \in FrameLens, NEW audio \in AudioLens,
           NEW flush \in BOOLEAN, SaveFrame(len, audio, flush)
    PROVE  IInv'
<1> DEFINE g  == Recorder
           r1 == AddChunk(g, Vid, len)
           r  == AddAudio(r1, audio, AUD_CHUNK_MIN)
<1>1. len \in Nat /\ audio \in Nat /\ AUD_CHUNK_MIN \in Nat
  BY LensAssumption DEF AUD_CHUNK_MIN
<1>2. Good(Recorder, frameCnt) /\ pc = "rec"
  BY RecorderIsGood DEF SaveFrame
<1>3. PICK p \in Nat, b \in Nat, n \in Nat, f \in Nat :
         /\ p = ix.ptr /\ b = idxBufBytes /\ n = Len(temp.stream)
         /\ f = frameCnt
  <2>1. ix.ptr \in Nat /\ idxBufBytes \in Nat /\ frameCnt \in Nat
    BY LensAssumption DEF IInv, TypeOK, IxRecords
  <2>2. Len(temp.stream) \in Nat
    BY DEF IInv, TypeOK, Temps
  <2> QED
    BY <2>1, <2>2
<1>4. p + 64 <= b
  BY <1>2, <1>3 DEF IInv, RoomInv, AviIndexNearFull, IDX_ENTRY
<1>5. g.ix = ix /\ g.stream = temp.stream /\ g.out = out
  BY DEF Recorder
<1> HIDE DEF g
<1>6. n > 0 => temp.stream[1].kind = Vid
  BY <1>2, <1>3 DEF IInv, RecordingInv
<1>7. /\ Good(r1, f + 1) /\ r1.ix.ptr = p + 16
      /\ Len(r1.stream) = n + 1 /\ r1.stream[1].kind = Vid
  <2>1. g.ix.ptr + IDX_ENTRY <= idxBufBytes /\ idxBufBytes \in Nat
    BY <1>3, <1>4, <1>5 DEF IDX_ENTRY
  <2>2. Good(g, f)
    BY <1>2, <1>3 DEF g
  <2>3. /\ Good(r1, f + (IF Vid = Vid THEN 1 ELSE 0))
        /\ r1.ix.ptr = g.ix.ptr + IDX_ENTRY
        /\ Len(r1.stream) = Len(g.stream) + 1
        /\ r1.stream[1].kind
             = IF Len(g.stream) = 0 THEN Vid ELSE g.stream[1].kind
    BY <1>1, <2>1, <2>2, ChunkKeepsGood
  <2> QED
    BY <1>3, <1>5, <1>6, <2>3 DEF IDX_ENTRY
<1> HIDE DEF r1
<1>8. /\ Good(r, f + 1) /\ (r.ix.ptr = p + 16 \/ r.ix.ptr = p + 32)
      /\ Len(r.stream) \in Nat \ {0} /\ r.stream[1].kind = Vid
  <2>1. r1.ix.ptr + IDX_ENTRY <= idxBufBytes /\ idxBufBytes \in Nat
    BY <1>3, <1>4, <1>7 DEF IDX_ENTRY
  <2>2. /\ Good(r, f + 1)
        /\ r.ix.ptr = r1.ix.ptr \/ r.ix.ptr = r1.ix.ptr + IDX_ENTRY
        /\ r = r1 \/ /\ Len(r.stream) = Len(r1.stream) + 1
                     /\ Len(r1.stream) > 0
                          => r.stream[1].kind = r1.stream[1].kind
    BY <1>1, <1>7, <2>1, AudioKeepsGood
  <2> HIDE DEF r
  <2>3. r.ix.ptr = p + 16 \/ r.ix.ptr = p + 32
    BY <1>7, <2>2 DEF IDX_ENTRY
  <2>4. Len(r.stream) \in Nat \ {0} /\ r.stream[1].kind = Vid
    BY <1>3, <1>7, <2>2
  <2> QED
    BY <2>2, <2>3, <2>4
<1>9. /\ out' = r.out /\ ix' = r.ix /\ temp'.stream = r.stream
      /\ temp' \in Temps /\ temp'.there = temp.there
  <2>1. out' = r.out /\ ix' = r.ix
    BY DEF SaveFrame, r1, g
  <2>2. temp' = [temp EXCEPT !.stream = r.stream,
                             !.durable = IF flush THEN r.out.written ELSE @]
    BY DEF SaveFrame, r1, g
  <2>3. r.stream \in Seq(Chunks) /\ r.out.written \in Nat
    BY <1>8 DEF Good, OutRecords
  <2>4. temp \in Temps
    BY DEF IInv, TypeOK, Temps
  <2> HIDE DEF r
  <2> QED
    BY <2>1, <2>2, <2>3, <2>4 DEF Temps
<1> HIDE DEF r
<1>10. frameCnt' = f + 1 /\ f + 1 < FRAME_CNT_MOD
  <2>1. PICK m \in Nat \ {0} : m = FRAME_CNT_MOD
    BY LensAssumption
  <2>2. PICK l \in Nat : l = frameLimit /\ l < m /\ f < l
    BY <1>2, <1>3, <2>1, LensAssumption DEF IInv, RoomInv, FrameCountFits
  <2>3. (f + 1) % m = f + 1
    BY <2>1, <2>2
  <2> QED
    BY <1>3, <2>1, <2>2, <2>3 DEF SaveFrame
<1>11. /\ UNCHANGED <<maxFrames, frameLimit, idxBufBytes, walk, clock, partName,
                      clips, opened, crashes>>
       /\ pc' \in {"rec", "closeData"}
       /\ pc' = "rec" => /\ frameCnt' < frameLimit
                         /\ ~AviIndexNearFull(ix', idxBufBytes)
  <2>1. frameLimit \in Nat
    BY DEF IInv, TypeOK
  <2> QED
    BY <1>9, <1>3, <1>10, <2>1 DEF SaveFrame, names, bounds, r, r1, g
<1>12. /\ r.out \in OutRecords /\ r.ix \in IxRecords /\ r.stream \in Seq(Chunks)
       /\ Contiguous(r.stream) /\ Agrees(r.ix, r.stream, Len(r.stream))
       /\ r.out.written + r.out.high = StreamEnd(r.stream, Len(r.stream))
       /\ f + 1 = VidCount(r.stream) /\ f + 1 = VidCount(r.ix.entries)
       /\ f + 1 + r.ix.aud = Len(r.stream)
  BY <1>8 DEF Good
<1>13. TypeOK'
  <2>1. frameCnt' \in 0..(FRAME_CNT_MOD - 1)
    BY <1>3, <1>10, LensAssumption
  <2> QED
    BY <1>9, <1>11, <1>12, <2>1
       DEF IInv, TypeOK, IxRecords, OutRecords, Temps, Closing
<1>14. StreamInv'
  BY <1>8, <1>9, <1>10, <1>12 DEF StreamInv
<1>15. RecordingInv'
  BY <1>8, <1>9, <1>10, <1>11, <1>12 DEF RecordingInv, Closing
<1>16. WalkInv' /\ (~IOErrors => ClosedClipsPlayable')
  BY <1>11 DEF WalkInv, IInv, ClosedClipsPlayable
<1>17. RoomInv'
  <2>1. idxBufBytes' = 0 \/ idxBufBytes' >= IdxBufSize(1)
    BY <1>11 DEF IInv, RoomInv
  <2>2. ix'.ptr + IDX_ENTRY <= idxBufBytes'
    BY <1>3, <1>4, <1>8, <1>9, <1>11 DEF IDX_ENTRY
  <2>3. frameLimit' \in MaxFramesOptions
    BY <1>2, <1>11 DEF IInv, RoomInv
  <2> QED
    BY <1>11, <2>1, <2>2, <2>3 DEF RoomInv
<1> QED
  BY <1>13, <1>14, <1>15, <1>16, <1>17 DEF IInv

\* Ending the recording leaves room for the last audio chunk.
LEMMA EndCaptureKeepsInv ==
    ASSUME FrameCountFits, IInv, EndCapture
    PROVE  IInv'
<1> USE DEF EndCapture, limits, names, bounds
<1>1. TypeOK'
  BY DEF IInv, TypeOK, Closing
<1>2. StreamInv' /\ (~IOErrors => ClosedClipsPlayable') /\ WalkInv'
  BY DEF IInv, StreamInv, ClosedClipsPlayable, WalkInv
<1>3. RecordingInv'
  BY DEF IInv, RecordingInv, Closing
<1>4. RoomInv'
  <2>1. PICK p \in Nat, b \in Nat : p = ix.ptr /\ b = idxBufBytes
    BY DEF IInv, TypeOK, IxRecords
  <2>2. p + 16 <= b
    BY <2>1 DEF IInv, RoomInv, AviIndexNearFull, IDX_ENTRY
  <2> QED
    BY <2>1, <2>2 DEF IInv, RoomInv, IDX_ENTRY
<1> QED
  BY <1>1, <1>2, <1>3, <1>4 DEF IInv

\* A new maxFrames changes neither the index nor this recording's limit.
LEMMA SetMaxFramesKeepsInv ==
    ASSUME IInv, NEW n \in MaxFramesOptions, SetMaxFrames(n)
    PROVE  IInv'
<1> USE DEF SetMaxFrames, limits, names, bounds
<1>1. TypeOK'
  BY DEF IInv, TypeOK
<1>2. StreamInv' /\ (~IOErrors => ClosedClipsPlayable') /\ WalkInv'
  BY DEF IInv, StreamInv, ClosedClipsPlayable, WalkInv
<1>3. RecordingInv'
  BY DEF IInv, RecordingInv
<1>4. RoomInv'
  BY DEF IInv, RoomInv
<1> QED
  BY <1>1, <1>2, <1>3, <1>4 DEF IInv

\* closeAvi() appends the audio left over and writes what the buffer holds.
LEMMA CloseDataKeepsInv ==
    ASSUME IInv, NEW audio \in AudioLens, CloseData(audio)
    PROVE  IInv'
<1> DEFINE g == Recorder
           r == AddAudio(g, audio, 0)
<1>1. audio \in Nat /\ 0 \in Nat
  BY LensAssumption
<1>2. Good(g, frameCnt) /\ pc = "closeData"
  BY RecorderIsGood DEF CloseData
<1>3. g.ix = ix /\ g.stream = temp.stream /\ g.out = out
  BY DEF Recorder
<1>4. /\ out' = [written |-> r.out.written + r.out.high, high |-> r.out.high]
      /\ ix' = r.ix /\ temp' = [temp EXCEPT !.stream = r.stream]
      /\ pc' = "closeIndex"
      /\ UNCHANGED <<maxFrames, frameLimit, frameCnt, idxBufBytes, walk, clock,
                     partName, clips, opened, crashes>>
  BY DEF CloseData, limits, names, bounds
<1> HIDE DEF g
<1>5. /\ Good(r, frameCnt)
      /\ r = g \/ /\ Len(r.stream) = Len(g.stream) + 1
                  /\ Len(g.stream) > 0 => r.stream[1].kind = g.stream[1].kind
  <2>1. g.ix.ptr + IDX_ENTRY <= idxBufBytes /\ idxBufBytes \in Nat
    BY <1>2, <1>3 DEF IInv, TypeOK, RoomInv
  <2> QED
    BY <1>1, <1>2, <2>1, AudioKeepsGood
<1> HIDE DEF r
<1>6. /\ r.out \in OutRecords /\ r.ix \in IxRecords /\ r.stream \in Seq(Chunks)
      /\ Contiguous(r.stream) /\ Agrees(r.ix, r.stream, Len(r.stream))
      /\ r.out.written + r.out.high = StreamEnd(r.stream, Len(r.stream))
      /\ frameCnt = VidCount(r.stream) /\ frameCnt = VidCount(r.ix.entries)
      /\ frameCnt + r.ix.aud = Len(r.stream)
  BY <1>5 DEF Good
<1>7. temp \in Temps /\ temp'.stream = r.stream /\ temp' \in Temps
  BY <1>4, <1>6 DEF IInv, TypeOK, Temps
<1>8. out' \in OutRecords
  BY <1>4, <1>6 DEF OutRecords
<1>9. TypeOK'
  BY <1>4, <1>6, <1>7, <1>8 DEF IInv, TypeOK, Closing
<1>10. Len(r.stream) > 1 => r.stream[1].kind = Vid
  <2>1. Len(g.stream) \in Nat /\ (Len(g.stream) > 0 => g.stream[1].kind = Vid)
    BY <1>2, <1>3 DEF IInv, TypeOK, Temps, RecordingInv
  <2> QED
    BY <1>5, <2>1
<1>11. StreamInv'
  <2>1. frameCnt \in Nat /\ frameCnt < FRAME_CNT_MOD
    BY LensAssumption DEF IInv, TypeOK
  <2> QED
    BY <1>6, <1>7, <1>10, <2>1 DEF StreamInv
<1>12. RecordingInv'
  BY <1>4, <1>6, <1>7 DEF RecordingInv
<1>13. WalkInv' /\ (~IOErrors => ClosedClipsPlayable') /\ RoomInv'
  BY <1>4 DEF IInv, WalkInv, ClosedClipsPlayable, RoomInv
<1> QED
  BY <1>9, <1>11, <1>12, <1>13 DEF IInv

\* With the counts in step, the index written to the file is the whole index.
LEMMA IndexIsWhole ==
    ASSUME IInv, pc \in Closing
    PROVE  /\ AviIndex(ix, frameCnt, ix.offset + MOVI_LIST)
                = [pos |-> ix.offset + MOVI_LIST, size |-> Len(temp.stream),
                   entries |-> ix.entries]
           /\ Len(ix.entries) = Len(temp.stream)
           /\ AviIndex(ix, frameCnt, ix.offset + MOVI_LIST) \in Indexes
           /\ AviHdr(ix, frameCnt) \in Headers
<1>1. /\ ix \in IxRecords /\ frameCnt \in Nat /\ temp.stream \in Seq(Chunks)
  BY LensAssumption DEF IInv, TypeOK, Temps
<1>2. /\ Agrees(ix, temp.stream, Len(temp.stream))
      /\ frameCnt + ix.aud = Len(temp.stream)
  BY DEF IInv, RecordingInv
<1>3. ix.entries \in Seq(Entries) /\ ix.offset \in Nat /\ ix.movi \in Nat
      /\ ix.aud \in Nat
  BY <1>1 DEF IxRecords
<1>4. Len(ix.entries) = Len(temp.stream)
  BY <1>2 DEF Agrees, LeadsTo
<1>5. SubSeq(ix.entries, 1, frameCnt + ix.aud) = ix.entries
  BY <1>2, <1>3, <1>4
<1>6. ix.offset + MOVI_LIST \in Nat
  BY <1>3 DEF MOVI_LIST, AVI_HEADER_LEN
<1>7. ix.movi + (frameCnt + ix.aud) * CHUNK_HDR + 4 \in Nat
  BY <1>1, <1>3 DEF CHUNK_HDR
<1>8. Len(temp.stream) \in Nat
  BY <1>1
<1>9. AviIndex(ix, frameCnt, ix.offset + MOVI_LIST)
        = [pos |-> ix.offset + MOVI_LIST, size |-> Len(temp.stream),
           entries |-> ix.entries]
  BY <1>2, <1>5 DEF AviIndex
<1> QED
  BY <1>1, <1>3, <1>4, <1>6, <1>7, <1>8, <1>9 DEF AviHdr, Indexes, Headers

\* The index goes where the chunks end.
LEMMA CloseIndexKeepsInv ==
    ASSUME IInv, NEW fails \in MayFail, CloseIndex(fails)
    PROVE  IInv'
<1> USE DEF CloseIndex, limits, names, bounds
<1>1. pc \in Closing
  BY DEF Closing
<1>2. out.written = ix.offset + MOVI_LIST
  BY <1>1 DEF IInv, RecordingInv, Agrees
<1>3. PICK i : /\ temp' = [temp EXCEPT !.index = i]
               /\ fails => i = [NoIndex EXCEPT !.pos = out.written]
               /\ ~fails => i = AviIndex(ix, frameCnt, out.written)
  OBVIOUS
<1>4. i \in Indexes
  <2>1. [NoIndex EXCEPT !.pos = out.written] \in Indexes
    <3>1. out.written \in Nat
      BY DEF IInv, TypeOK, OutRecords
    <3>2. [NoIndex EXCEPT !.pos = out.written]
            = [pos |-> out.written, size |-> 0, entries |-> <<>>]
      BY DEF NoIndex
    <3>3. <<>> \in Seq(Entries) /\ 0 \in Nat
      OBVIOUS
    <3> QED
      BY <3>1, <3>2, <3>3 DEF Indexes
  <2> QED
    BY <1>1, <1>2, <1>3, <2>1, IndexIsWhole
<1>5. /\ temp' \in Temps /\ temp'.stream = temp.stream
      /\ ~IOErrors => temp'.index = AviIndex(ix, frameCnt, ix.offset + MOVI_LIST)
  BY <1>1, <1>2, <1>3, <1>4 DEF IInv, TypeOK, Temps, MayFail
<1>6. TypeOK'
  BY <1>5 DEF IInv, TypeOK, Closing
<1>7. StreamInv' /\ (~IOErrors => ClosedClipsPlayable') /\ WalkInv' /\ RoomInv'
  BY <1>5 DEF IInv, StreamInv, ClosedClipsPlayable, WalkInv, RoomInv
<1>8. RecordingInv'
  BY <1>1, <1>5 DEF IInv, RecordingInv
<1> QED
  BY <1>6, <1>7, <1>8 DEF IInv

\* The header takes its sizes from the index.
LEMMA CloseHeaderKeepsInv ==
    ASSUME IInv, NEW fails \in MayFail, CloseHeader(fails)
    PROVE  IInv'
<1> USE DEF CloseHeader, limits, names, bounds
<1>1. pc \in Closing
  BY DEF Closing
<1>2. ~IOErrors => temp.index = AviIndex(ix, frameCnt, ix.offset + MOVI_LIST)
  BY DEF IInv, RecordingInv
<1> DEFINE h == IF fails THEN temp.hdr ELSE AviHdr(ix, frameCnt)
           d == temp.index.pos + CHUNK_HDR + IDX_ENTRY * temp.index.size
<1>3. d \in Nat
  <2>1. temp.index.pos \in Nat /\ temp.index.size \in Nat
    BY DEF IInv, TypeOK, Temps, Indexes
  <2> QED
    BY <2>1 DEF CHUNK_HDR, IDX_ENTRY
<1>4. temp' = [temp EXCEPT !.hdr = h, !.durable = d]
  OBVIOUS
<1>5. h \in Headers /\ (~IOErrors => h = AviHdr(ix, frameCnt))
  BY <1>1, IndexIsWhole DEF IInv, TypeOK, Temps, MayFail
<1> HIDE DEF d, h
<1>6. /\ temp' \in Temps /\ temp'.stream = temp.stream
      /\ temp'.index = temp.index /\ (~IOErrors => temp'.hdr = AviHdr(ix, frameCnt))
  BY <1>3, <1>4, <1>5 DEF IInv, TypeOK, Temps
<1>7. TypeOK'
  BY <1>6 DEF IInv, TypeOK, Closing
<1>8. StreamInv' /\ (~IOErrors => ClosedClipsPlayable') /\ WalkInv' /\ RoomInv'
  BY <1>6 DEF IInv, StreamInv, ClosedClipsPlayable, WalkInv, RoomInv
<1>9. RecordingInv'
  BY <1>1, <1>2, <1>6 DEF IInv, RecordingInv
<1> QED
  BY <1>7, <1>8, <1>9 DEF IInv

\* The clip closeAvi() names: its index and header agree with its chunks.
LEMMA ClosedClip ==
    ASSUME IInv, ~IOErrors, pc = "closeName", NEW name \in Names
    PROVE  Playable(Clip(name))
<1> DEFINE c == Clip(name)
<1>1. pc \in Closing
  BY DEF Closing
<1>2. /\ temp.index = [pos |-> ix.offset + MOVI_LIST,
                       size |-> Len(temp.stream), entries |-> ix.entries]
      /\ temp.hdr = AviHdr(ix, frameCnt)
      /\ Len(ix.entries) = Len(temp.stream)
  BY <1>1, IndexIsWhole DEF IInv, RecordingInv
<1>3. /\ c.name = name /\ c.stream = temp.stream /\ c.hdr = temp.hdr
      /\ c.index = temp.index
  BY DEF Clip
<1> HIDE DEF c
<1>5. /\ Agrees(ix, temp.stream, Len(temp.stream))
      /\ frameCnt = VidCount(ix.entries)
      /\ frameCnt + ix.aud = Len(temp.stream)
  BY <1>1 DEF IInv, RecordingInv
<1>6. \A i \in 1..c.index.size :
         \E j \in 1..Len(c.stream) : Leads(c.index.entries[i], c.stream[j])
  BY <1>2, <1>3, <1>5 DEF Agrees, LeadsTo
<1>7. c.hdr.data + MOVI_LIST = c.index.pos
  <2>1. PICK m \in Nat, f \in Nat, a \in Nat, o \in Nat, n \in Nat :
           /\ m = ix.movi /\ f = frameCnt /\ a = ix.aud /\ o = ix.offset
           /\ n = Len(temp.stream)
    BY LensAssumption DEF IInv, TypeOK, IxRecords, Temps
  <2>2. o = 4 + m + 8 * n /\ f + a = n
    BY <1>5, <2>1 DEF Agrees, CHUNK_HDR
  <2>3. m + (f + a) * 8 + 4 = o
    BY <2>2
  <2>4. c.hdr.data = m + (f + a) * 8 + 4 /\ c.index.pos = o + MOVI_LIST
    BY <1>2, <1>3, <2>1 DEF AviHdr, CHUNK_HDR
  <2> QED
    BY <2>3, <2>4
<1>8. c.hdr.frames = VidCount(c.index.entries)
  BY <1>2, <1>3, <1>5 DEF AviHdr
<1> QED
  BY <1>2, <1>3, <1>6, <1>7, <1>8 DEF Playable, c

\* The file gets its name, or stays under AVITEMP, or is dropped when empty.
LEMMA CloseNameKeepsInv ==
    ASSUME IInv, NEW fails \in BOOLEAN, CloseName(fails)
    PROVE  IInv'
<1> DEFINE name == [stamp |-> partName, frames |-> frameCnt, try |-> 0]
<1>1. name \in Names /\ name.try = 0
  BY LensAssumption DEF IInv, TypeOK, Names
<1>2. /\ pc = "closeName" /\ pc' = "idle"
      /\ UNCHANGED <<maxFrames, frameLimit, frameCnt, idxBufBytes, ix, out,
                     walk, clock, partName, opened, crashes>>
  BY DEF CloseName, limits, bounds
<1>3. /\ temp' = temp \/ temp' = NoTemp
      /\ clips' = clips \/ clips' = clips \cup {Clip(name)}
  BY DEF CloseName, RenameTo
<1> HIDE DEF name
<1>4. Clip(name) \in Clips /\ (~IOErrors => Playable(Clip(name)))
  BY <1>1, <1>2, ClosedClip DEF Clip, Clips, IInv, TypeOK, Temps
<1>5. TypeOK'
  BY <1>2, <1>3, <1>4, EmptyAgrees DEF IInv, TypeOK
<1>6. StreamInv'
  BY <1>3, EmptyAgrees, VidCountEmpty, LensAssumption DEF IInv, StreamInv
<1>7. RecordingInv' /\ WalkInv'
  BY <1>2 DEF RecordingInv, WalkInv, Closing
<1>8. RoomInv'
  BY <1>2 DEF IInv, RoomInv
<1>9. ~IOErrors => ClosedClipsPlayable'
  BY <1>3, <1>4 DEF IInv, ClosedClipsPlayable
<1> QED
  BY <1>5, <1>6, <1>7, <1>8, <1>9 DEF IInv

\* What is left of a stream from its start is a stream.
LEMMA PrefixIsStream ==
    ASSUME IInv, NEW n \in 0..Len(temp.stream)
    PROVE  LET p == SubSeq(temp.stream, 1, n)
           IN /\ p \in Seq(Chunks) /\ Len(p) = n
              /\ Contiguous(p) /\ VidCount(p) < FRAME_CNT_MOD
              /\ Len(p) > 1 => p[1].kind = Vid
<1> DEFINE p == SubSeq(temp.stream, 1, n)
<1>1. PICK s \in Seq(Chunks) : s = temp.stream
  BY DEF IInv, TypeOK, Temps
<1>2. /\ p \in Seq(Chunks) /\ Len(p) = n /\ \A i \in 1..n : p[i] = s[i]
      /\ VidCount(p) \in Nat /\ VidCount(p) <= VidCount(s)
  BY <1>1, VidCountPrefix
<1> HIDE DEF p
<1>3. /\ Contiguous(s) /\ VidCount(s) < FRAME_CNT_MOD
      /\ Len(s) > 1 => s[1].kind = Vid
  BY <1>1 DEF IInv, StreamInv
<1>4. Len(s) \in Nat /\ n \in 0..Len(s)
  BY <1>1
<1>5. Contiguous(p)
  <2> SUFFICES ASSUME NEW i \in 1..n
               PROVE  p[i].pos = IF i = 1 THEN AVI_HEADER_LEN
                                 ELSE ChunkEnd(p[i - 1])
    BY <1>2 DEF Contiguous
  <2>1. p[i] = s[i] /\ (i # 1 => p[i - 1] = s[i - 1]) /\ i \in 1..Len(s)
    BY <1>2, <1>4
  <2> QED
    BY <1>3, <2>1 DEF Contiguous
<1>6. VidCount(s) \in Nat
  <2>1. IsFiniteSet(1..Len(s))
    BY <1>4, FS_Interval
  <2>2. IsFiniteSet({i \in 1..Len(s) : s[i].kind = Vid})
    BY <2>1, FS_Subset
  <2> QED
    BY <2>2, FS_CardinalityType DEF VidCount
<1>7. VidCount(p) < FRAME_CNT_MOD
  BY <1>2, <1>3, <1>6, LensAssumption
<1> QED
  BY <1>2, <1>3, <1>4, <1>5, <1>7 DEF p

\* A loss of power leaves the start of the stream and nothing in RAM.
LEMMA CrashKeepsInv ==
    ASSUME IInv, Crash
    PROVE  IInv'
<1>1. PICK n \in 0..Len(temp.stream) :
         temp' = [temp EXCEPT !.stream = SubSeq(@, 1, n)]
  BY DEF Crash
<1> DEFINE p == SubSeq(temp.stream, 1, n)
<1>2. /\ p \in Seq(Chunks) /\ Contiguous(p) /\ VidCount(p) < FRAME_CNT_MOD
      /\ Len(p) > 1 => p[1].kind = Vid
  BY PrefixIsStream
<1>3. temp' = [temp EXCEPT !.stream = p]
  BY <1>1
<1> HIDE DEF p
<1>4. temp' \in Temps /\ temp'.stream = p
  BY <1>2, <1>3 DEF IInv, TypeOK, Temps
<1>5. /\ pc' = "boot" /\ idxBufBytes' = 0 /\ ix' = IndexStart
      /\ out' = [written |-> 0, high |-> AVI_HEADER_LEN]
      /\ frameCnt' = 0 /\ frameLimit' = 0 /\ crashes' = crashes + 1
      /\ walk' = WalkStart /\ clock' \in {1, clock}
      /\ UNCHANGED <<maxFrames, partName, clips, opened>>
  BY DEF Crash
<1>6. TypeOK'
  <2>1. out' \in OutRecords
    BY <1>5 DEF AVI_HEADER_LEN, SD_WRITE_SIZE, OutRecords
  <2>2. 0 \in 0..(FRAME_CNT_MOD - 1)
    BY LensAssumption
  <2>3. clock' \in Nat /\ crashes' \in Nat
    BY <1>5 DEF IInv, TypeOK
  <2> QED
    BY <1>4, <1>5, <2>1, <2>2, <2>3, EmptyAgrees, WalkStartType
       DEF IInv, TypeOK, Recovering
<1>7. StreamInv'
  BY <1>2, <1>4 DEF StreamInv
<1>8. RecordingInv' /\ WalkInv' /\ RoomInv'
  BY <1>5 DEF RecordingInv, WalkInv, RoomInv, Closing
<1>9. ~IOErrors => ClosedClipsPlayable'
  BY <1>5 DEF IInv, ClosedClipsPlayable
<1> QED
  BY <1>6, <1>7, <1>8, <1>9 DEF IInv

\* recoverAvi() starts its walk with an empty index.
LEMMA RecoverBeginKeepsInv ==
    ASSUME IInv, NEW fails \in BOOLEAN, RecoverBegin(fails)
    PROVE  IInv'
<1>1. /\ pc = "boot"
      /\ UNCHANGED <<maxFrames, frameLimit, frameCnt, out, temp, clock,
                     partName, clips, opened, crashes>>
  BY DEF RecoverBegin, limits, names, bounds
<1>2. CASE pc' = "idle" /\ UNCHANGED <<idxBufBytes, ix, walk>>
  <2>1. TypeOK' /\ StreamInv' /\ (~IOErrors => ClosedClipsPlayable')
    BY <1>1, <1>2 DEF IInv, TypeOK, StreamInv, ClosedClipsPlayable
  <2>2. RecordingInv' /\ WalkInv' /\ RoomInv'
    BY <1>1, <1>2 DEF IInv, RecordingInv, WalkInv, RoomInv, Closing
  <2> QED
    BY <2>1, <2>2 DEF IInv
<1>3. CASE pc' = "walk" /\ PrepAviIndex /\ walk' = WalkStart
  <2>1. maxFrames \in Nat \ {0}
    BY LensAssumption DEF IInv, TypeOK
  <2>2. idxBufBytes' \in Nat /\ idxBufBytes' >= 144 /\ IdxBufSize(1) = 144
    BY <1>3, <2>1, IndexRoom DEF IInv, TypeOK, RoomInv, PrepAviIndex
  <2>3. ix' = IndexStart
    BY <1>3 DEF PrepAviIndex
  <2>4. TypeOK'
    BY <1>1, <1>3, <2>2, <2>3, EmptyAgrees, WalkStartType
       DEF IInv, TypeOK, Recovering
  <2>5. StreamInv' /\ (~IOErrors => ClosedClipsPlayable')
    BY <1>1 DEF IInv, StreamInv, ClosedClipsPlayable
  <2>6. RecordingInv'
    BY <1>3 DEF RecordingInv, Closing
  <2>7. WalkInv'
    <3>1. walk'.n = 0 /\ walk'.frames = 0
      BY <1>3 DEF WalkStart
    <3>2. Agrees(ix', temp'.stream, 0)
      BY <2>3, EmptyAgrees
    <3>3. SubSeq(temp'.stream, 1, 0) = <<>> /\ Len(temp'.stream) \in Nat
      BY <1>1 DEF IInv, TypeOK, Temps
    <3>4. walk'.frames + ix'.aud = Len(ix'.entries)
      BY <2>3, <3>1, EmptyAgrees
    <3>5. Agrees(ix', temp'.stream, walk'.n)
      BY <3>1, <3>2
    <3>6. SubSeq(temp'.stream, 1, walk'.n) = <<>>
      BY <3>1, <3>3
    <3>7. walk'.frames = VidCount(SubSeq(temp'.stream, 1, walk'.n))
      BY <3>1, <3>6, VidCountEmpty
    <3>8. walk'.n <= Len(temp'.stream)
      BY <3>1, <3>3
    <3> QED
      BY <3>4, <3>5, <3>7, <3>8 DEF WalkInv
  <2>8. RoomInv'
    BY <1>3, <2>2, <2>3, EmptyAgrees DEF RoomInv, AviIndexNearFull, IDX_ENTRY
  <2> QED
    BY <2>4, <2>5, <2>6, <2>7, <2>8 DEF IInv
<1> QED
  BY <1>2, <1>3 DEF RecoverBegin

\* The index over n chunks of a stream, taken one chunk further.
LEMMA IndexNextChunk ==
    ASSUME NEW x \in IxRecords, NEW s \in Seq(Chunks), NEW n \in Nat,
           n < Len(s), Contiguous(s), Agrees(x, s, n),
           NEW bytes \in Nat, x.ptr + IDX_ENTRY <= bytes
    PROVE  LET y == BuildAviIdx(x, s[n + 1].kind, s[n + 1].len, bytes)
           IN /\ y \in IxRecords /\ Agrees(y, s, n + 1)
              /\ y.ptr = x.ptr + IDX_ENTRY
              /\ y.aud = x.aud + (IF s[n + 1].kind = Aud THEN 1 ELSE 0)
<1> DEFINE c == s[n + 1]
           y == BuildAviIdx(x, c.kind, c.len, bytes)
           e == [kind |-> c.kind, off |-> x.offset, len |-> c.len]
<1>1. c \in Chunks
  BY n + 1 \in 1..Len(s)
<1>2. c.kind \in {Vid, Aud} /\ c.len \in Nat /\ c.pos \in Nat
  BY <1>1 DEF Chunks
<1> HIDE DEF c
<1>3. /\ y \in IxRecords /\ y.ptr = x.ptr + IDX_ENTRY
      /\ y.offset = x.offset + c.len + CHUNK_HDR /\ y.movi = x.movi + c.len
      /\ y.aud = x.aud + (IF c.kind = Aud THEN 1 ELSE 0)
      /\ y.entries = Append(x.entries, e)
  <2>1. PICK kd \in {Vid, Aud}, ln \in Nat : kd = c.kind /\ ln = c.len
    BY <1>2
  <2>2. y = BuildAviIdx(x, kd, ln, bytes)
    BY <2>1
  <2>3. e = [kind |-> kd, off |-> x.offset, len |-> ln]
    BY <2>1
  <2> HIDE DEF y, e
  <2> QED
    BY <2>1, <2>2, <2>3, IndexGrows
<1> HIDE DEF y
<1>4. c.pos = StreamEnd(s, n)
  <2>1. n + 1 \in 1..Len(s) /\ (n + 1 = 1 <=> n = 0) /\ (n + 1) - 1 = n
    OBVIOUS
  <2> QED
    BY <2>1 DEF Contiguous, StreamEnd, c
<1>5. PICK p \in Nat, o \in Nat, m \in Nat, l \in Nat :
         p = x.ptr /\ o = x.offset /\ m = x.movi /\ l = c.len
  BY <1>2 DEF IxRecords
<1>6. /\ LeadsTo(x.entries, s, n) /\ p = 8 + 16 * n /\ o = 4 + m + 8 * n
      /\ o + 306 = c.pos
  BY <1>4, <1>5 DEF Agrees, CHUNK_HDR, IDX_ENTRY, MOVI_LIST, AVI_HEADER_LEN
<1>7. e \in Entries /\ Leads(e, c)
  BY <1>2, <1>5, <1>6 DEF Entries, Leads, MOVI_LIST, AVI_HEADER_LEN
<1>8. LeadsTo(y.entries, s, n + 1)
  <2>1. x.entries \in Seq(Entries)
    BY DEF IxRecords
  <2> HIDE DEF e
  <2> QED
    BY <1>3, <1>6, <1>7, <2>1, LeadsOneMore DEF c
<1>9. StreamEnd(s, n + 1) = c.pos + 8 + c.len
  BY DEF StreamEnd, ChunkEnd, CHUNK_HDR, c
<1>10. /\ p + 16 = 8 + 16 * (n + 1)
       /\ o + l + 8 = 4 + (m + l) + 8 * (n + 1)
       /\ o + l + 8 + 306 = c.pos + 8 + l
  BY <1>6
<1>11. Agrees(y, s, n + 1)
  BY <1>3, <1>5, <1>8, <1>9, <1>10
     DEF Agrees, CHUNK_HDR, IDX_ENTRY, MOVI_LIST, AVI_HEADER_LEN
<1> QED
  BY <1>3, <1>11 DEF y, c

\* A stream whose first chunk is a frame has one from its first chunk on.
LEMMA FramesFromTheFirst ==
    ASSUME NEW s \in Seq(Chunks), NEW n \in 1..Len(s), s[1].kind = Vid
    PROVE  VidCount(SubSeq(s, 1, n)) >= 1
<1> DEFINE p == SubSeq(s, 1, n)
           V == {i \in 1..Len(p) : p[i].kind = Vid}
<1>1. Len(p) = n /\ p[1] = s[1]
  OBVIOUS
<1>2. IsFiniteSet(1..Len(p))
  BY <1>1, FS_Interval
<1>3. IsFiniteSet(V)
  BY <1>2, FS_Subset
<1>4. 1 \in V
  BY <1>1
<1>5. Cardinality(V) \in Nat /\ Cardinality(V) # 0
  BY <1>3, <1>4, FS_CardinalityType, FS_EmptySet
<1>6. VidCount(p) = Cardinality(V)
  BY DEF VidCount
<1> HIDE DEF p, V
<1>7. VidCount(p) >= 1
  BY <1>5, <1>6
<1> QED
  BY <1>7 DEF p

\* One chunk further, the walk's index leads to one chunk more.
LEMMA WalkChunkKeepsInv ==
    ASSUME IInv, WalkChunk
    PROVE  IInv'
<1>1. PICK s \in Seq(Chunks), n \in Nat, b \in Nat, m \in Nat \ {0}, k \in Nat :
         /\ s = temp.stream /\ n = walk.n /\ b = idxBufBytes
         /\ m = FRAME_CNT_MOD /\ k = walk.frames
  <2>1. PICK m \in Nat \ {0} : m = FRAME_CNT_MOD
    BY LensAssumption
  <2>2. temp.stream \in Seq(Chunks) /\ idxBufBytes \in Nat
    BY DEF IInv, TypeOK, Temps
  <2>3. walk.n \in Nat /\ walk.frames \in 0..(m - 1)
    BY <2>1 DEF IInv, TypeOK, Walks
  <2>4. walk.frames \in Nat
    BY <2>1, <2>3
  <2> QED
    BY <2>1, <2>2, <2>3, <2>4
<1> DEFINE c == s[n + 1]
           v == (IF c.kind = Vid THEN 1 ELSE 0)
           frames == (k + v) % m
<1>2. /\ pc = "walk" /\ n < Len(s)
      /\ ix' = BuildAviIdx(ix, c.kind, c.len, b)
      /\ IF frames > 0 /\ AviIndexNearFull(ix', b)
         THEN /\ pc' = "fixIndex" /\ walk' = [walk EXCEPT !.frames = frames]
         ELSE /\ pc' = "walk"
              /\ walk' = [n |-> n + 1, pos |-> ChunkEnd(c), frames |-> frames]
      /\ UNCHANGED <<maxFrames, frameLimit, frameCnt, idxBufBytes, out, temp,
                     clock, partName, clips, opened, crashes>>
  BY <1>1 DEF WalkChunk, limits, names, bounds
<1>3. /\ Contiguous(s) /\ VidCount(s) < m /\ (Len(s) > 1 => s[1].kind = Vid)
      /\ Agrees(ix, s, n) /\ k = VidCount(SubSeq(s, 1, n))
      /\ k + ix.aud = Len(ix.entries) /\ ix \in IxRecords
      /\ ~AviIndexNearFull(ix, b) /\ b >= 144
  <2>1. idxBufBytes >= 144
    <3>1. 1 \in Nat \ {0}
      OBVIOUS
    <3>2. IdxBufSize(1) = 144
      BY <3>1, IndexRoom
    <3>3. idxBufBytes # 0
      <4>1. PICK p \in Nat : p = ix.ptr
        BY DEF IInv, TypeOK, IxRecords
      <4>2. p + 64 <= b
        BY <1>1, <1>2, <4>1 DEF IInv, RoomInv, AviIndexNearFull, IDX_ENTRY
      <4> QED
        BY <1>1, <4>2
    <3> QED
      BY <3>2, <3>3 DEF IInv, RoomInv
  <2> QED
    BY <1>1, <1>2, <2>1 DEF IInv, TypeOK, StreamInv, WalkInv, RoomInv
<1>4. c \in Chunks /\ n + 1 \in 1..Len(s)
  BY <1>2
<1>5. /\ ix' \in IxRecords /\ Agrees(ix', s, n + 1)
      /\ ix'.ptr = ix.ptr + IDX_ENTRY
      /\ ix'.aud = ix.aud + (IF c.kind = Aud THEN 1 ELSE 0)
  <2>1. ix.ptr + IDX_ENTRY <= b
    <3>1. PICK p \in Nat : p = ix.ptr
      BY <1>3 DEF IxRecords
    <3>2. p + 64 <= b
      BY <1>3, <3>1 DEF AviIndexNearFull, IDX_ENTRY
    <3> QED
      BY <3>1, <3>2 DEF IDX_ENTRY
  <2> QED
    BY <1>2, <1>3, <2>1, IndexNextChunk
<1>6. /\ VidCount(SubSeq(s, 1, n + 1)) = k + v
      /\ k + v < m /\ k + v \in Nat
  <2>1. n \in 0..Len(s) /\ n + 1 \in 0..Len(s)
    BY <1>4
  <2>2. SubSeq(s, 1, n) \in Seq(Chunks)
    BY <2>1, VidCountPrefix
  <2>3. SubSeq(s, 1, n + 1) = Append(SubSeq(s, 1, n), s[n + 1])
    BY <2>1
  <2>4. VidCount(SubSeq(s, 1, n + 1)) = k + v
    BY <1>3, <1>4, <2>2, <2>3, VidCountAppend
  <2>5. VidCount(SubSeq(s, 1, n + 1)) <= VidCount(s)
    BY <2>1, VidCountPrefix
  <2>6. k + v \in Nat
    OBVIOUS
  <2>7. VidCount(s) \in Nat
    <3>1. SubSeq(s, 1, Len(s)) = s
      OBVIOUS
    <3>2. Len(s) \in 0..Len(s)
      OBVIOUS
    <3> QED
      BY <3>1, <3>2, VidCountPrefix
  <2> HIDE DEF v
  <2> QED
    BY <1>3, <2>4, <2>5, <2>6, <2>7
<1>7. frames = k + v
  <2> HIDE DEF v
  <2> QED
    BY <1>6
<1>8. frames + ix'.aud = Len(ix'.entries)
  <2>1. Len(ix.entries) = n /\ Len(ix'.entries) = n + 1
    BY <1>3, <1>5 DEF Agrees, LeadsTo
  <2>2. PICK a \in Nat : a = ix.aud
    BY <1>3 DEF IxRecords
  <2>3. k + a = n
    BY <1>3, <2>1, <2>2
  <2> HIDE DEF frames
  <2>4. CASE c.kind = Vid
    <3>1. frames = k + 1 /\ ix'.aud = a
      BY <1>5, <1>7, <2>2, <2>4 DEF Vid, Aud
    <3>2. (k + 1) + a = n + 1
      BY <2>3
    <3> QED
      BY <2>1, <3>1, <3>2
  <2>5. CASE c.kind = Aud
    <3>1. frames = k /\ ix'.aud = a + 1
      BY <1>5, <1>7, <2>2, <2>5 DEF Vid, Aud
    <3>2. k + (a + 1) = n + 1
      BY <2>3
    <3> QED
      BY <2>1, <3>1, <3>2
  <2> QED
    BY <1>4, <2>4, <2>5 DEF Chunks
<1> HIDE DEF frames, v
<1>9. frames \in 0..(FRAME_CNT_MOD - 1)
  BY <1>1, <1>6, <1>7
<1>10. walk' \in Walks /\ pc' \in {"walk", "fixIndex"} /\ walk'.frames = frames
  <2>1. ChunkEnd(c) \in Nat
    BY <1>4 DEF Chunks, ChunkEnd, CHUNK_HDR
  <2>2. walk \in Walks
    BY DEF IInv, TypeOK
  <2> HIDE DEF c
  <2> QED
    BY <1>2, <1>9, <2>1, <2>2 DEF Walks
<1>11. TypeOK'
  BY <1>2, <1>5, <1>10 DEF IInv, TypeOK, Recovering
<1>12. StreamInv' /\ (~IOErrors => ClosedClipsPlayable')
  BY <1>2 DEF IInv, StreamInv, ClosedClipsPlayable
<1>13. RecordingInv'
  BY <1>10 DEF RecordingInv, Closing
<1>14. WalkInv'
  <2>1. walk'.n <= Len(s)
    BY <1>1, <1>2, <1>4 DEF IInv, TypeOK, Walks
  <2>2. temp'.stream = s
    BY <1>1, <1>2
  <2>3. CASE pc' = "walk"
    <3>1. walk'.n = n + 1
      BY <1>2, <2>3
    <3> QED
      BY <1>5, <1>6, <1>7, <1>8, <1>10, <2>1, <2>2, <3>1 DEF WalkInv
  <2>4. CASE pc' = "fixIndex"
    BY <1>8, <1>10, <2>1, <2>2, <2>4 DEF WalkInv
  <2> QED
    BY <1>10, <2>3, <2>4
<1>15. RoomInv'
  <2>1. idxBufBytes' = 0 \/ idxBufBytes' >= IdxBufSize(1)
    BY <1>2 DEF IInv, RoomInv
  <2>2. ASSUME pc' = "walk" PROVE ~AviIndexNearFull(ix', b)
    <3>1. CASE n = 0
      <4>1. ix.ptr = 8
        BY <1>3, <3>1 DEF Agrees, CHUNK_HDR, IDX_ENTRY
      <4> QED
        BY <1>3, <1>5, <4>1 DEF AviIndexNearFull, IDX_ENTRY
    <3>2. CASE n # 0
      <4>1. Len(s) > 1
        BY <1>2, <3>2
      <4>2. VidCount(SubSeq(s, 1, n + 1)) >= 1
        BY <1>3, <1>4, <4>1, FramesFromTheFirst
      <4>3. frames > 0
        BY <1>6, <1>7, <4>2
      <4> QED
        BY <1>2, <2>2, <4>3
    <3> QED
      BY <3>1, <3>2
  <2> QED
    BY <1>1, <1>2, <1>10, <2>1, <2>2 DEF RoomInv
<1> QED
  BY <1>11, <1>12, <1>13, <1>14, <1>15 DEF IInv

\* The walk ends: AVITEMP held no frame and goes, or it is repaired.
LEMMA WalkEndsKeepsInv ==
    ASSUME IInv, WalkEnds
    PROVE  IInv'
<1>1. /\ pc = "walk" /\ pc' \in {"idle", "fixIndex"}
      /\ \/ pc' = "idle" /\ temp' = NoTemp /\ walk' = WalkStart
         \/ pc' = "fixIndex" /\ temp' = temp /\ walk' = walk
      /\ UNCHANGED <<maxFrames, frameLimit, frameCnt, idxBufBytes, ix, out,
                     clock, partName, clips, opened, crashes>>
  BY DEF WalkEnds, limits, names, bounds
<1>2. TypeOK'
  BY <1>1, EmptyAgrees, WalkStartType DEF IInv, TypeOK, Recovering
<1>3. StreamInv'
  BY <1>1, EmptyAgrees, VidCountEmpty, LensAssumption DEF IInv, StreamInv
<1>4. RecordingInv' /\ RoomInv' /\ (~IOErrors => ClosedClipsPlayable')
  BY <1>1 DEF IInv, RecordingInv, RoomInv, ClosedClipsPlayable, Closing
<1>5. WalkInv'
  BY <1>1 DEF IInv, WalkInv
<1> QED
  BY <1>2, <1>3, <1>4, <1>5 DEF IInv

\* recoverAvi() writes an index of as many entries as the walk gathered.
LEMMA FixIndexKeepsInv ==
    ASSUME IInv, NEW fails \in BOOLEAN, FixIndex(fails)
    PROVE  IInv'
<1>1. /\ pc = "fixIndex"
      /\ UNCHANGED <<maxFrames, frameLimit, frameCnt, idxBufBytes, ix, out,
                     clock, partName, clips, opened, crashes>>
  BY DEF FixIndex, limits, names, bounds
<1>2. CASE fails
  <2>1. pc' = "idle" /\ walk' = WalkStart /\ temp' = temp
    BY <1>2 DEF FixIndex
  <2>2. TypeOK' /\ StreamInv' /\ (~IOErrors => ClosedClipsPlayable')
    BY <1>1, <2>1, WalkStartType DEF IInv, TypeOK, StreamInv, ClosedClipsPlayable
  <2>3. RecordingInv' /\ WalkInv' /\ RoomInv'
    BY <1>1, <2>1 DEF IInv, RecordingInv, WalkInv, RoomInv, Closing
  <2> QED
    BY <2>2, <2>3 DEF IInv
<1>3. CASE ~fails
  <2> DEFINE p == SubSeq(temp.stream, 1, walk.n)
             i == AviIndex(ix, walk.frames, walk.pos)
  <2>1. /\ pc' = "fixHeader" /\ walk' = walk
        /\ temp' = [temp EXCEPT !.stream = p, !.index = i]
    BY <1>3 DEF FixIndex
  <2>2. /\ walk.n \in Nat /\ walk.pos \in Nat
        /\ walk.frames \in 0..(FRAME_CNT_MOD - 1)
    BY DEF IInv, TypeOK, Walks
  <2>3. walk.n \in 0..Len(temp.stream)
    BY <1>1, <2>2 DEF IInv, TypeOK, Temps, WalkInv
  <2>4. /\ p \in Seq(Chunks) /\ Contiguous(p) /\ VidCount(p) < FRAME_CNT_MOD
        /\ Len(p) > 1 => p[1].kind = Vid
    BY <2>3, PrefixIsStream
  <2>5. i \in Indexes
    <3>1. ix.entries \in Seq(Entries)
      BY DEF IInv, TypeOK, IxRecords
    <3>2. walk.frames + ix.aud = Len(ix.entries)
      BY <1>1 DEF IInv, WalkInv
    <3>3. /\ Len(ix.entries) \in Nat
          /\ SubSeq(ix.entries, 1, Len(ix.entries)) = ix.entries
      BY <3>1
    <3>4. i = [pos |-> walk.pos, size |-> Len(ix.entries), entries |-> ix.entries]
      BY <3>2, <3>3 DEF AviIndex
    <3> HIDE DEF i
    <3> QED
      BY <2>2, <3>1, <3>3, <3>4 DEF Indexes
  <2> HIDE DEF p, i
  <2>6. temp' \in Temps /\ temp'.stream = p
    BY <2>1, <2>4, <2>5 DEF IInv, TypeOK, Temps
  <2>7. TypeOK'
    BY <1>1, <2>1, <2>6 DEF IInv, TypeOK, Recovering
  <2>8. StreamInv'
    BY <2>4, <2>6 DEF StreamInv
  <2>9. RecordingInv' /\ WalkInv' /\ RoomInv' /\ (~IOErrors => ClosedClipsPlayable')
    BY <1>1, <2>1
       DEF IInv, RecordingInv, WalkInv, RoomInv, ClosedClipsPlayable, Closing
  <2> QED
    BY <2>7, <2>8, <2>9 DEF IInv
<1> QED
  BY <1>2, <1>3

\* recoverAvi() writes a header over the provisional one.
LEMMA FixHeaderKeepsInv ==
    ASSUME IInv, FixHeader
    PROVE  IInv'
<1> DEFINE h == AviHdr(ix, walk.frames)
<1>1. /\ pc = "fixHeader" /\ pc' = "fixName" /\ temp' = [temp EXCEPT !.hdr = h]
      /\ UNCHANGED <<maxFrames, frameLimit, frameCnt, idxBufBytes, ix, out, walk,
                     clock, partName, clips, opened, crashes>>
  BY DEF FixHeader, limits, names, bounds
<1>2. h \in Headers
  <2>1. PICK m \in Nat \ {0} : m = FRAME_CNT_MOD
    BY LensAssumption
  <2>2. walk.frames \in 0..(m - 1)
    BY <2>1 DEF IInv, TypeOK, Walks
  <2>3. PICK f \in Nat, a \in Nat, v \in Nat :
           f = walk.frames /\ a = ix.aud /\ v = ix.movi
    BY <2>1, <2>2 DEF IInv, TypeOK, IxRecords
  <2>4. v + (f + a) * 8 + 4 \in Nat
    OBVIOUS
  <2> QED
    BY <2>3, <2>4 DEF AviHdr, Headers, CHUNK_HDR
<1> HIDE DEF h
<1>3. temp' \in Temps /\ temp'.stream = temp.stream
  BY <1>1, <1>2 DEF IInv, TypeOK, Temps
<1>4. TypeOK'
  BY <1>1, <1>3 DEF IInv, TypeOK, Recovering
<1>5. StreamInv' /\ (~IOErrors => ClosedClipsPlayable')
  BY <1>1, <1>3 DEF IInv, StreamInv, ClosedClipsPlayable
<1>6. RecordingInv' /\ WalkInv' /\ RoomInv'
  BY <1>1 DEF IInv, RecordingInv, WalkInv, RoomInv, Closing
<1> QED
  BY <1>4, <1>5, <1>6 DEF IInv

\* The name a recovered file gets never counts as one closeAvi() gave.
LEMMA FixNameKeepsInv ==
    ASSUME IInv, NEW try \in 1..RECOVER_NAMES, NEW fails \in BOOLEAN,
           FixName(try, fails)
    PROVE  IInv'
<1> DEFINE name == RecoveredName(try)
<1>1. /\ pc = "fixName" /\ pc' = "idle" /\ walk' = WalkStart
      /\ partName' = clock /\ clock' = clock + 1
      /\ UNCHANGED <<maxFrames, frameLimit, frameCnt, idxBufBytes, ix, out,
                     opened, crashes>>
      /\ temp' = temp \/ temp' = NoTemp
      /\ clips' = clips \/ clips' = clips \cup {Clip(name)}
  BY DEF FixName, RenameTo, limits, bounds
<1>2. name \in Names /\ name.try # 0
  <2>1. try \in Nat /\ try # 0
    BY LensAssumption
  <2>2. PICK m \in Nat \ {0} : m = FRAME_CNT_MOD
    BY LensAssumption
  <2>3. walk.frames \in 0..(m - 1)
    BY <2>2 DEF IInv, TypeOK, Walks
  <2>4. walk.frames \in Nat /\ clock \in Nat
    BY <2>2, <2>3 DEF IInv, TypeOK
  <2> QED
    BY <2>1, <2>4 DEF RecoveredName, Names
<1> HIDE DEF name
<1>3. Clip(name) \in Clips /\ Clip(name).name = name
  BY <1>2 DEF Clip, Clips, IInv, TypeOK, Temps
<1>4. TypeOK'
  <2>1. clock + 1 \in Nat
    BY DEF IInv, TypeOK
  <2> QED
    BY <1>1, <1>3, <2>1, EmptyAgrees, WalkStartType DEF IInv, TypeOK
<1>5. StreamInv'
  BY <1>1, EmptyAgrees, VidCountEmpty, LensAssumption DEF IInv, StreamInv
<1>6. RecordingInv' /\ WalkInv' /\ RoomInv'
  BY <1>1 DEF IInv, RecordingInv, WalkInv, RoomInv, Closing
<1>7. ~IOErrors => ClosedClipsPlayable'
  BY <1>1, <1>2, <1>3 DEF IInv, ClosedClipsPlayable
<1> QED
  BY <1>4, <1>5, <1>6, <1>7 DEF IInv

\* Every step of the recorder, of a loss of power and of the recovery keeps
\* the invariant, when no configured cap reaches the frame counter's wrap.
LEMMA NextKeepsInv ==
    ASSUME FrameCountFits, IInv, [Next]_vars
    PROVE  IInv'
<1>1. CASE OpenAvi
  BY <1>1, OpenKeepsInv
<1>2. CASE Frame
  BY <1>2, SaveFrameKeepsInv DEF Frame
<1>3. CASE EndCapture
  BY <1>3, EndCaptureKeepsInv
<1>4. CASE \E n \in MaxFramesOptions : SetMaxFrames(n)
  BY <1>4, SetMaxFramesKeepsInv
<1>5. MayFail \subseteq BOOLEAN
  BY DEF MayFail
<1>6. CASE Close
  BY <1>5, <1>6, CloseDataKeepsInv, CloseIndexKeepsInv, CloseHeaderKeepsInv,
     CloseNameKeepsInv DEF Close
<1>7. CASE Crash
  BY <1>7, CrashKeepsInv
<1>8. CASE Recover
  BY <1>5, <1>8, RecoverBeginKeepsInv, WalkChunkKeepsInv, WalkEndsKeepsInv,
     FixIndexKeepsInv, FixHeaderKeepsInv, FixNameKeepsInv DEF Recover
<1>9. CASE UNCHANGED vars
  <2> USE <1>9 DEF vars
  <2>1. TypeOK'
    BY DEF IInv, TypeOK
  <2>2. StreamInv' /\ (~IOErrors => ClosedClipsPlayable')
    BY DEF IInv, StreamInv, ClosedClipsPlayable
  <2>3. RecordingInv'
    BY DEF IInv, RecordingInv
  <2>4. WalkInv' /\ RoomInv'
    BY DEF IInv, WalkInv, RoomInv
  <2> QED
    BY <2>1, <2>2, <2>3, <2>4 DEF IInv
<1> QED
  BY <1>1, <1>2, <1>3, <1>4, <1>6, <1>7, <1>8, <1>9 DEF Next

\* The recorder's invariant: types, the stream on the card, the index in step
\* with it, and room in the index for what may still come.
THEOREM RecorderInvariant ==
    ASSUME FrameCountFits
    PROVE  Spec => []IInv
<1>1. Init => IInv
  BY InitEstablishesInv
<1>2. IInv /\ [Next]_vars => IInv'
  BY NextKeepsInv
<1> QED
  BY <1>1, <1>2, PTL DEF Spec

\* Every variable keeps its type, the write buffer never holds a whole block.
THEOREM TypeCorrect ==
    ASSUME FrameCountFits
    PROVE  Spec => []TypeOK
<1>1. IInv => TypeOK
  BY DEF IInv
<1> QED
  BY <1>1, RecorderInvariant, PTL

\* buildAviIdx() never drops an entry: while a file is recorded, closed or
\* walked, the index has one entry per chunk and each leads to its chunk.
THEOREM IndexFollows ==
    ASSUME FrameCountFits
    PROVE  Spec => []IndexFollowsStream
<1>1. IInv => IndexFollowsStream
  BY DEF IInv, RecordingInv, WalkInv, Agrees, IndexFollowsStream
<1> QED
  BY <1>1, RecorderInvariant, PTL

\* Every file that closeAvi() names is playable: its index leads to its chunks
\* and its header counts them, whatever is saved to maxFrames meanwhile and
\* wherever power was lost before, while what is written to the card arrives there.
THEOREM ClosedPlayable ==
    ASSUME FrameCountFits, IOErrors = FALSE
    PROVE  Spec => []ClosedClipsPlayable
<1>1. IInv => ClosedClipsPlayable
  BY DEF IInv
<1> QED
  BY <1>1, RecorderInvariant, PTL

----------------------------------------------------------------------------
(* Streams that grow and are cut.                                          *)

\* No chunk reaches into one behind it.
Ascending(s) == \A i, j \in 1..Len(s) : i < j => ChunkEnd(s[i]) <= s[j].pos

\* Where a chunk begins and ends.
LEMMA ChunkBounds ==
    ASSUME NEW c \in Chunks
    PROVE  c.pos \in Nat /\ ChunkEnd(c) \in Nat /\ c.pos <= ChunkEnd(c)
  BY DEF Chunks, ChunkEnd, CHUNK_HDR

\* The chunks of a recording ascend, whatever is appended at its end.
LEMMA AscendingAppend ==
    ASSUME NEW s \in Seq(Chunks), NEW c \in Chunks, Ascending(s),
           c.pos = StreamEnd(s, Len(s))
    PROVE  Ascending(Append(s, c))
<1> DEFINE t == Append(s, c)
<1>1. PICK n \in Nat : n = Len(s)
  OBVIOUS
<1>2. /\ Len(t) = n + 1 /\ t[n + 1] = c
      /\ \A i \in 1..n : t[i] = s[i] /\ s[i] \in Chunks
  BY <1>1
<1>3. n # 0 => c.pos = ChunkEnd(s[n])
  BY <1>1 DEF StreamEnd
<1> HIDE DEF t
<1> SUFFICES ASSUME NEW i \in 1..(n + 1), NEW j \in 1..(n + 1), i < j
             PROVE  ChunkEnd(t[i]) <= t[j].pos
  BY <1>2 DEF Ascending, t
<1>4. i \in 1..n /\ t[i] = s[i] /\ n \in 1..n
  BY <1>2
<1>5. CASE j \in 1..n
  BY <1>1, <1>2, <1>4, <1>5 DEF Ascending
<1>6. CASE j = n + 1
  <2>1. t[j].pos = ChunkEnd(s[n])
    BY <1>2, <1>3, <1>4, <1>6
  <2>2. CASE i = n
    <3>1. ChunkEnd(s[n]) \in Nat
      BY <1>2, <1>4, ChunkBounds
    <3> QED
      BY <1>4, <2>1, <2>2, <3>1
  <2>3. CASE i # n
    <3>1. i < n
      BY <1>4, <2>3
    <3>2. ChunkEnd(s[i]) <= s[n].pos
      BY <1>1, <1>4, <3>1 DEF Ascending
    <3>3. /\ ChunkEnd(s[i]) \in Nat /\ s[n].pos \in Nat
          /\ ChunkEnd(s[n]) \in Nat /\ s[n].pos <= ChunkEnd(s[n])
      BY <1>2, <1>4, ChunkBounds
    <3> QED
      BY <1>4, <2>1, <3>2, <3>3
  <2> QED
    BY <2>2, <2>3
<1> QED
  BY <1>5, <1>6

\* No chunk ends behind the last one.
LEMMA EndsBelow ==
    ASSUME NEW s \in Seq(Chunks), Ascending(s), NEW i \in 1..Len(s)
    PROVE  ChunkEnd(s[i]) <= StreamEnd(s, Len(s))
<1>1. PICK n \in Nat : n = Len(s) /\ n \in 1..n /\ i \in 1..n
  OBVIOUS
<1>2. s[i] \in Chunks /\ s[n] \in Chunks
  BY <1>1
<1>3. /\ ChunkEnd(s[i]) \in Nat /\ ChunkEnd(s[n]) \in Nat /\ s[n].pos \in Nat
      /\ s[n].pos <= ChunkEnd(s[n])
  BY <1>2, ChunkBounds
<1>4. StreamEnd(s, n) = ChunkEnd(s[n])
  BY <1>1 DEF StreamEnd
<1>5. i # n => ChunkEnd(s[i]) <= s[n].pos
  BY <1>1 DEF Ascending
<1> QED
  BY <1>1, <1>3, <1>4, <1>5

\* The first n numbers.
LEMMA UpTo ==
    ASSUME NEW n \in Nat
    PROVE  IsFiniteSet(1..n) /\ Cardinality(1..n) = n
  BY FS_Interval

\* How many chunks of s end within z bytes.
SafeOf(s, z) == Cardinality({i \in 1..Len(s) : ChunkEnd(s[i]) <= z})

\* More of a stream is safe, the longer it is and the further it is flushed.
LEMMA SafeGrows ==
    ASSUME NEW s \in Seq(Chunks), NEW t \in Seq(Chunks), NEW d \in Nat, NEW e \in Nat,
           Len(s) <= Len(t), \A i \in 1..Len(s) : t[i] = s[i], d <= e
    PROVE  SafeOf(s, d) \in 0..Len(s) /\ SafeOf(s, d) <= SafeOf(t, e)
<1> DEFINE F(u, z) == {i \in 1..Len(u) : ChunkEnd(u[i]) <= z}
<1>1. PICK n \in Nat, m \in Nat : n = Len(s) /\ m = Len(t) /\ n <= m
  OBVIOUS
<1>2. IsFiniteSet(1..n) /\ IsFiniteSet(1..m) /\ Cardinality(1..n) = n
  BY UpTo
<1>3. F(s, d) \in SUBSET (1..n) /\ F(t, e) \in SUBSET (1..m)
  BY <1>1
<1>4. F(s, d) \in SUBSET F(t, e)
  <2> SUFFICES ASSUME NEW i \in 1..n, ChunkEnd(s[i]) <= d PROVE i \in F(t, e)
    BY <1>1
  <2>1. i \in 1..m /\ t[i] = s[i] /\ s[i] \in Chunks
    BY <1>1
  <2>2. ChunkEnd(s[i]) \in Nat
    BY <2>1, ChunkBounds
  <2>3. ChunkEnd(t[i]) <= e
    BY <2>1, <2>2
  <2> QED
    BY <1>1, <2>1, <2>3
<1> HIDE DEF F
<1>5. IsFiniteSet(F(s, d)) /\ Cardinality(F(s, d)) <= n
  BY <1>2, <1>3, FS_Subset
<1>6. IsFiniteSet(F(t, e))
  BY <1>2, <1>3, FS_Subset
<1>7. Cardinality(F(s, d)) <= Cardinality(F(t, e))
  BY <1>4, <1>6, FS_Subset
<1>8. Cardinality(F(s, d)) \in Nat
  BY <1>5, FS_CardinalityType
<1> QED
  BY <1>1, <1>5, <1>7, <1>8 DEF F, SafeOf

\* A stream that ends within the flushed size is safe as a whole.
LEMMA SafeWhole ==
    ASSUME NEW s \in Seq(Chunks), NEW z \in Nat,
           \A i \in 1..Len(s) : ChunkEnd(s[i]) <= z
    PROVE  SafeOf(s, z) = Len(s)
<1>1. {i \in 1..Len(s) : ChunkEnd(s[i]) <= z} = 1..Len(s)
  OBVIOUS
<1>2. Len(s) \in Nat
  OBVIOUS
<1> QED
  BY <1>1, <1>2, UpTo DEF SafeOf

\* What a loss of power leaves is exactly what was safe.
LEMMA SafeAfterCrash ==
    ASSUME NEW s \in Seq(Chunks), Ascending(s), NEW z \in Nat,
           NEW n \in 0..Len(s), Intact(s, n, z)
    PROVE  SafeOf(s, z) = n
<1>1. PICK l \in Nat : l = Len(s)
  OBVIOUS
<1>2. {i \in 1..l : ChunkEnd(s[i]) <= z} = 1..n
  <2>1. ASSUME NEW i \in 1..l, ChunkEnd(s[i]) <= z, i > n PROVE FALSE
    <3>1. n + 1 \in 1..l /\ s[n + 1] \in Chunks /\ s[i] \in Chunks
      BY <1>1, <2>1
    <3>2. ChunkEnd(s[n + 1]) > z
      BY <1>1, <3>1 DEF Intact
    <3>3. i # n + 1 => ChunkEnd(s[n + 1]) <= s[i].pos
      BY <1>1, <2>1, <3>1 DEF Ascending
    <3>4. /\ ChunkEnd(s[n + 1]) \in Nat /\ ChunkEnd(s[i]) \in Nat
          /\ s[i].pos \in Nat /\ s[i].pos <= ChunkEnd(s[i])
      BY <3>1, ChunkBounds
    <3> QED
      BY <2>1, <3>2, <3>3, <3>4
  <2>2. \A i \in 1..n : ChunkEnd(s[i]) <= z /\ i \in 1..l
    BY <1>1 DEF Intact
  <2> QED
    BY <1>1, <2>1, <2>2
<1>3. Cardinality(1..n) = n
  BY <1>1, UpTo
<1> QED
  BY <1>1, <1>2, <1>3 DEF SafeOf

\* q continues r: nothing of the stream is changed, the order is kept and what
\* was written stays written.
Grows(r, q) ==
    /\ q.stream \in Seq(Chunks)
    /\ Len(r.stream) <= Len(q.stream)
    /\ \A i \in 1..Len(r.stream) : q.stream[i] = r.stream[i]
    /\ Ascending(r.stream) => Ascending(q.stream)
    /\ r.out.written <= q.out.written

\* A chunk is appended behind all others.
LEMMA ChunkGrows ==
    ASSUME NEW r, NEW f, Good(r, f), NEW kind \in {Vid, Aud}, NEW len \in Nat
    PROVE  LET q == AddChunk(r, kind, len)
           IN Grows(r, q) /\ Len(q.stream) = Len(r.stream) + 1
<1> DEFINE q == AddChunk(r, kind, len)
           c == [kind |-> kind, len |-> Pad4(len),
                 pos |-> r.out.written + r.out.high]
<1>1. PICK s \in Seq(Chunks), n \in Nat : s = r.stream /\ n = Len(s)
  BY DEF Good
<1>2. PICK o \in OutRecords : o = r.out
  BY DEF Good
<1>3. PICK w \in Nat, h \in Nat : w = o.written /\ h = o.high
  BY DEF OutRecords
<1>4. PICK b \in Nat : b = Pad4(len)
  BY PadNat
<1>5. c \in Chunks /\ c.pos = StreamEnd(s, n)
  <2>1. c = [kind |-> kind, len |-> b, pos |-> w + h]
    BY <1>2, <1>3, <1>4
  <2>2. w + h \in Nat
    OBVIOUS
  <2>3. r.out.written + r.out.high = StreamEnd(s, n)
    BY <1>1 DEF Good
  <2>4. c \in Chunks
    BY <2>1, <2>2 DEF Chunks
  <2> QED
    BY <2>3, <2>4
<1>6. /\ q.stream = Append(s, c)
      /\ q.out = BufferedAviWrite(o, CHUNK_HDR + b)
  BY <1>1, <1>2, <1>4 DEF AddChunk
<1>7. /\ Append(s, c) \in Seq(Chunks) /\ Len(Append(s, c)) = n + 1
      /\ \A i \in 1..n : Append(s, c)[i] = s[i]
  BY <1>1, <1>5
<1>8. r.out.written <= q.out.written
  <2>1. PICK t \in Nat : t = h + (CHUNK_HDR + b)
    BY DEF CHUNK_HDR
  <2>2. PICK d \in Int, e \in Int : d = t \div 32768 /\ e = t % 32768
    BY <2>1
  <2>3. d \in Nat
    BY <2>1, <2>2, BlockDivision
  <2>4. q.out.written = w + 32768 * d
    BY <1>3, <1>6, <2>1, <2>2 DEF BufferedAviWrite, SD_WRITE_SIZE
  <2> QED
    BY <1>2, <1>3, <2>3, <2>4
<1> HIDE DEF c, q
<1>9. Ascending(s) => Ascending(Append(s, c))
  BY <1>1, <1>5, AscendingAppend
<1> QED
  BY <1>1, <1>6, <1>7, <1>8, <1>9 DEF Grows, q

\* Audio appends one chunk or none.
LEMMA AudioGrows ==
    ASSUME NEW r, NEW f, Good(r, f), NEW len \in Nat, NEW min \in Nat
    PROVE  LET q == AddAudio(r, len, min)
           IN /\ Grows(r, q)
              /\ Len(q.stream) \in {Len(r.stream), Len(r.stream) + 1}
              /\ len < min => Len(q.stream) = Len(r.stream)
<1>1. CASE len = 0 \/ len < min
  <2>1. AddAudio(r, len, min) = r
    BY <1>1 DEF AddAudio
  <2>2. Len(r.stream) \in Nat /\ r.stream \in Seq(Chunks) /\ r.out.written \in Nat
    BY DEF Good, OutRecords
  <2> QED
    BY <2>1, <2>2 DEF Grows
<1>2. CASE ~(len = 0 \/ len < min)
  <2>1. AddAudio(r, len, min) = AddChunk(r, Aud, len)
    BY <1>2 DEF AddAudio
  <2> QED
    BY <1>2, <2>1, ChunkGrows
<1> QED
  BY <1>1, <1>2

\* The stream, the file and the frame counter after a step that added chunks.
StreamGrows ==
    /\ temp'.stream \in Seq(Chunks)
    /\ Len(temp.stream) <= Len(temp'.stream)
    /\ \A i \in 1..Len(temp.stream) : temp'.stream[i] = temp.stream[i]
    /\ Ascending(temp.stream) => Ascending(temp'.stream)

\* A frame adds one chunk, or two when there is audio enough.
LEMMA SaveFrameGrows ==
    ASSUME FrameCountFits, IInv, NEW len \in FrameLens, NEW audio \in AudioLens,
           NEW flush \in BOOLEAN, SaveFrame(len, audio, flush)
    PROVE  /\ StreamGrows
           /\ Len(temp'.stream) \in {Len(temp.stream) + 1, Len(temp.stream) + 2}
           /\ audio < AUD_CHUNK_MIN => Len(temp'.stream) = Len(temp.stream) + 1
           /\ frameCnt' = frameCnt + 1 /\ frameCnt < frameLimit
           /\ out.written <= out'.written /\ out.written \in Nat
           /\ out'.written \in Nat
           /\ temp'.durable = IF flush THEN out'.written ELSE temp.durable
           /\ temp'.there = temp.there
<1> DEFINE g  == Recorder
           r1 == AddChunk(g, Vid, len)
           r  == AddAudio(r1, audio, AUD_CHUNK_MIN)
<1>1. len \in Nat /\ audio \in Nat /\ AUD_CHUNK_MIN \in Nat
  BY LensAssumption DEF AUD_CHUNK_MIN
<1>2. Good(g, frameCnt) /\ pc = "rec"
  BY RecorderIsGood DEF SaveFrame
<1>3. g.stream = temp.stream /\ g.out = out /\ g.ix = ix
  BY DEF Recorder
<1>4. /\ out' = r.out
      /\ temp' = [temp EXCEPT !.stream = r.stream,
                              !.durable = IF flush THEN r.out.written ELSE @]
      /\ frameCnt' = (frameCnt + 1) % FRAME_CNT_MOD
  BY DEF SaveFrame
<1>5. temp \in Temps
  BY DEF IInv, TypeOK
<1> HIDE DEF g
<1>6. Grows(g, r1) /\ Len(r1.stream) = Len(g.stream) + 1
  BY <1>1, <1>2, ChunkGrows
<1>7. Good(r1, frameCnt + 1)
  <2>1. PICK p \in Nat, b \in Nat : p = ix.ptr /\ b = idxBufBytes
    BY DEF IInv, TypeOK, IxRecords
  <2>2. p + 64 <= b
    BY <1>2, <2>1 DEF IInv, RoomInv, AviIndexNearFull, IDX_ENTRY
  <2>3. g.ix.ptr + IDX_ENTRY <= idxBufBytes /\ idxBufBytes \in Nat
    BY <1>3, <2>1, <2>2 DEF IDX_ENTRY
  <2>4. Good(r1, frameCnt + (IF Vid = Vid THEN 1 ELSE 0))
    BY <1>1, <1>2, <2>3, ChunkKeepsGood
  <2> QED
    BY <2>4
<1> HIDE DEF r1
<1>8. /\ Grows(r1, r)
      /\ Len(r.stream) \in {Len(r1.stream), Len(r1.stream) + 1}
      /\ audio < AUD_CHUNK_MIN => Len(r.stream) = Len(r1.stream)
  BY <1>1, <1>7, AudioGrows
<1>9. /\ g.out.written \in Nat /\ r1.out.written \in Nat /\ g.stream \in Seq(Chunks)
      /\ r1.stream \in Seq(Chunks)
  BY <1>2, <1>7 DEF Good, OutRecords
<1>10. r.out.written \in Nat
  <2>1. PICK o \in OutRecords : o = r1.out
    BY <1>7 DEF Good
  <2>2. r = r1 \/ r = AddChunk(r1, Aud, audio)
    BY DEF AddAudio
  <2>3. PICK b \in Nat : b = CHUNK_HDR + Pad4(audio)
    BY <1>1, PadNat DEF CHUNK_HDR
  <2>4. BufferedAviWrite(o, b) \in OutRecords
    BY BufferNat
  <2>5. r.out \in OutRecords
    BY <2>1, <2>2, <2>3, <2>4 DEF AddChunk
  <2> QED
    BY <2>5 DEF OutRecords
<1> HIDE DEF r
<1>11. /\ temp'.stream = r.stream /\ temp'.there = temp.there
       /\ temp'.durable = IF flush THEN r.out.written ELSE temp.durable
  BY <1>4, <1>5 DEF Temps
<1>12. StreamGrows /\ out.written <= out'.written
  <2>1. Len(g.stream) <= Len(r1.stream) /\ Len(r1.stream) <= Len(r.stream)
        /\ Len(g.stream) \in Nat /\ Len(r1.stream) \in Nat
        /\ Len(r.stream) \in Nat /\ r.stream \in Seq(Chunks)
    BY <1>6, <1>8, <1>9 DEF Grows
  <2>2. \A i \in 1..Len(g.stream) : r.stream[i] = g.stream[i]
    BY <1>6, <1>8, <2>1 DEF Grows
  <2>3. Ascending(g.stream) => Ascending(r.stream)
    BY <1>6, <1>8 DEF Grows
  <2>4. out.written <= out'.written
    BY <1>3, <1>4, <1>6, <1>8, <1>9, <1>10 DEF Grows
  <2> QED
    BY <1>3, <1>11, <2>1, <2>2, <2>3, <2>4 DEF StreamGrows
<1>13. frameCnt' = frameCnt + 1 /\ frameCnt < frameLimit
  <2>1. PICK m \in Nat \ {0}, f \in Nat : m = FRAME_CNT_MOD /\ f = frameCnt
    BY LensAssumption DEF IInv, TypeOK
  <2>2. PICK l \in Nat : l = frameLimit /\ l < m /\ f < l
    BY <1>2, <2>1, LensAssumption DEF IInv, RoomInv, FrameCountFits
  <2>3. (f + 1) % m = f + 1
    BY <2>1, <2>2
  <2> QED
    BY <1>4, <2>1, <2>2, <2>3
<1>14. /\ Len(temp'.stream) \in {Len(temp.stream) + 1, Len(temp.stream) + 2}
       /\ audio < AUD_CHUNK_MIN => Len(temp'.stream) = Len(temp.stream) + 1
  <2>1. Len(g.stream) \in Nat
    BY <1>9
  <2> QED
    BY <1>3, <1>6, <1>8, <1>11, <2>1
<1> QED
  BY <1>3, <1>4, <1>9, <1>10, <1>11, <1>12, <1>13, <1>14

\* The close adds the audio that is left over, if there is any.
LEMMA CloseDataGrows ==
    ASSUME IInv, NEW audio \in AudioLens, CloseData(audio)
    PROVE  /\ StreamGrows
           /\ Len(temp'.stream) \in {Len(temp.stream), Len(temp.stream) + 1}
           /\ temp'.durable = temp.durable /\ temp'.there = temp.there
<1> DEFINE g == Recorder
           r == AddAudio(g, audio, 0)
<1>1. audio \in Nat /\ 0 \in Nat
  BY LensAssumption
<1>2. Good(g, frameCnt)
  BY RecorderIsGood DEF CloseData
<1>3. g.stream = temp.stream
  BY DEF Recorder
<1>4. temp' = [temp EXCEPT !.stream = r.stream]
  BY DEF CloseData
<1> HIDE DEF g
<1>5. /\ Grows(g, r)
      /\ Len(r.stream) \in {Len(g.stream), Len(g.stream) + 1}
  BY <1>1, <1>2, AudioGrows
<1> HIDE DEF r
<1>6. temp \in Temps
  BY DEF IInv, TypeOK
<1>7. /\ temp'.stream = r.stream /\ temp'.durable = temp.durable
      /\ temp'.there = temp.there
  BY <1>4, <1>6 DEF Temps
<1> QED
  BY <1>3, <1>5, <1>7 DEF StreamGrows, Grows

----------------------------------------------------------------------------
(* openAvi() never finds a recording under AVITEMP.                        *)

\* At rest nothing waits under AVITEMP; every name given is older than the clock,
\* and older than the recording that is being written.
NamingInv ==
    /\ pc = "idle" => ~temp.there
    /\ \A c \in clips : c.name.stamp < clock
    /\ pc \in {"rec"} \cup Closing =>
         /\ partName < clock
         /\ \A c \in clips : c.name.stamp < partName

\* Without a repeated clock a name is free when it is first asked for.
LEMMA InitNaming == Init => NamingInv
  BY DEF Init, NamingInv, Closing

\* openAvi() names nothing and takes the time of a moving clock.
LEMMA OpenKeepsNaming ==
    ASSUME IInv, NamingInv, OpenAvi
    PROVE  NamingInv'
<1>1. /\ pc' = "rec" /\ partName' = clock /\ clock' = clock + 1 /\ clips' = clips
      /\ clock \in Nat
  BY DEF OpenAvi, IInv, TypeOK
<1>2. \A c \in clips : c.name.stamp \in Nat /\ c.name.stamp < clock
  BY DEF IInv, TypeOK, Clips, Names, NamingInv
<1> QED
  BY <1>1, <1>2 DEF NamingInv

\* closeAvi() names the recording by its time, which no file has.
LEMMA CloseNameKeepsNaming ==
    ASSUME IInv, NamingInv, CloseName(FALSE)
    PROVE  NamingInv'
<1> DEFINE name == [stamp |-> partName, frames |-> frameCnt, try |-> 0]
<1>1. /\ pc = "closeName" /\ pc' = "idle" /\ UNCHANGED <<clock, partName>>
  BY DEF CloseName
<1>2. partName < clock /\ \A c \in clips : c.name.stamp < partName
  BY <1>1 DEF NamingInv, Closing
<1>3. partName \in Nat /\ \A c \in clips : c.name.stamp \in Nat
  BY DEF IInv, TypeOK, Clips, Names
<1>4. ~Taken(name)
  BY <1>2, <1>3 DEF Taken
<1>5. temp' = NoTemp /\ (clips' = clips \/ clips' = clips \cup {Clip(name)})
  BY <1>4 DEF CloseName, RenameTo
<1>6. Clip(name).name.stamp = partName
  BY DEF Clip
<1> HIDE DEF name
<1>7. \A c \in clips' : c.name.stamp < clock
  BY <1>2, <1>5, <1>6 DEF NamingInv
<1>8. ~temp'.there
  BY <1>5 DEF NoTemp
<1> QED
  BY <1>1, <1>7, <1>8 DEF NamingInv, Closing

\* recoverAvi() names the recording by a time, or a suffix, that no file has.
LEMMA FixNameKeepsNaming ==
    ASSUME IInv, NamingInv, NEW try \in 1..RECOVER_NAMES, FixName(try, FALSE)
    PROVE  NamingInv'
<1> DEFINE name == RecoveredName(try)
<1>1. pc' = "idle" /\ clock' = clock + 1
  BY DEF FixName
<1>2. clock \in Nat /\ \A c \in clips : c.name.stamp \in Nat /\ c.name.stamp < clock
  BY DEF IInv, TypeOK, Clips, Names, NamingInv
<1>3. name.stamp = clock
  BY DEF RecoveredName
<1>4. ~Taken(name)
  BY <1>2, <1>3 DEF Taken
<1>5. temp' = NoTemp /\ clips' = clips \cup {Clip(name)}
  BY <1>4 DEF FixName, RenameTo
<1>6. Clip(name).name.stamp = clock
  BY <1>3 DEF Clip
<1> HIDE DEF name
<1>7. \A c \in clips' : c.name.stamp < clock'
  BY <1>1, <1>2, <1>5, <1>6
<1>8. ~temp'.there
  BY <1>5 DEF NoTemp
<1> QED
  BY <1>1, <1>7, <1>8 DEF NamingInv, Closing

\* Every other step leaves the names alone and does not come to rest with a
\* recording under AVITEMP.
LEMMA NextKeepsNaming ==
    ASSUME ClockRepeats = FALSE, IOErrors = FALSE, IInv, NamingInv, [Next]_vars
    PROVE  NamingInv'
<1>1. MayFail = {FALSE}
  BY DEF MayFail
<1>2. CASE OpenAvi
  BY <1>2, OpenKeepsNaming
<1>3. CASE Frame \/ EndCapture \/ \E a \in AudioLens : CloseData(a)
  <2>1. /\ pc \in {"rec"} \cup Closing /\ pc' \in {"rec"} \cup Closing
        /\ UNCHANGED names
    BY <1>3 DEF Frame, SaveFrame, EndCapture, CloseData, Closing
  <2> QED
    BY <2>1 DEF NamingInv, names, Closing
<1>4. CASE \E fails \in MayFail : CloseIndex(fails) \/ CloseHeader(fails)
  BY <1>4 DEF CloseIndex, CloseHeader, NamingInv, names, Closing
<1>5. CASE \E n \in MaxFramesOptions : SetMaxFrames(n)
  BY <1>5 DEF SetMaxFrames, NamingInv, names
<1>6. CASE \E fails \in MayFail : CloseName(fails)
  BY <1>1, <1>6, CloseNameKeepsNaming
<1>7. CASE Crash
  BY <1>7 DEF Crash, NamingInv, Closing
<1>8. CASE \E fails \in MayFail : RecoverBegin(fails)
  BY <1>1, <1>8 DEF RecoverBegin, NamingInv, names, Closing
<1>9. CASE WalkChunk \/ WalkEnds
  BY <1>9 DEF WalkChunk, WalkEnds, NoTemp, NamingInv, names, Closing
<1>10. CASE (\E fails \in MayFail : FixIndex(fails)) \/ FixHeader
  BY <1>1, <1>10 DEF FixIndex, FixHeader, NamingInv, names, Closing
<1>11. CASE \E try \in 1..RECOVER_NAMES, fails \in MayFail : FixName(try, fails)
  BY <1>1, <1>11, FixNameKeepsNaming
<1>12. CASE UNCHANGED vars
  BY <1>12 DEF vars, NamingInv
<1> QED
  BY <1>2, <1>3, <1>4, <1>5, <1>6, <1>7, <1>8, <1>9, <1>10, <1>11, <1>12
     DEF Next, Close, Recover

\* The recorder comes to rest with nothing under AVITEMP.
LEMMA NamingHolds ==
    ASSUME FrameCountFits, ClockRepeats = FALSE, IOErrors = FALSE
    PROVE  Spec => []NamingInv
<1>1. Init => NamingInv
  BY InitNaming
<1>2. IInv /\ NamingInv /\ [Next]_vars => NamingInv'
  BY NextKeepsNaming
<1> QED
  BY <1>1, <1>2, RecorderInvariant, PTL DEF Spec

\* openAvi() truncates no recording that still waits under AVITEMP, for any
\* lengths and caps and after any number of losses of power, when the clock
\* does not go back and opening and renaming succeed.
THEOREM OverwritesNothing ==
    ASSUME FrameCountFits, ClockRepeats = FALSE, IOErrors = FALSE
    PROVE  Spec => NothingOverwritten
<1>1. NamingInv => [pc = "idle" /\ pc' = "rec" => ~temp.there]_vars
  BY DEF NamingInv
<1> QED
  BY <1>1, NamingHolds, PTL DEF NothingOverwritten

----------------------------------------------------------------------------
(* Recovery.                                                               *)

\* A file under AVITEMP has no more chunks than the index of its recovery; while
\* it is recorded, no more than its frames account for.
SizeInv ==
    /\ temp.there => ChunksFit(Len(temp.stream), maxFrames)
    /\ pc \in {"rec", "closeData"} =>
         /\ Len(temp.stream) <= ChunksPerFrame * frameCnt
         /\ frameCnt <= frameLimit /\ frameLimit <= maxFrames

\* A larger cap has room for more, fewer chunks need less.
LEMMA RoomGrows ==
    ASSUME NEW m \in Nat, NEW l \in Nat, l <= m,
           NEW n \in Nat, NEW k \in Nat, k <= n, ChunksFit(n, l)
    PROVE  ChunksFit(k, m)
<1>1. PICK a \in Nat, b \in Nat : a = l * 3 /\ b = m * 3 /\ a <= b
  OBVIOUS
<1>2. PICK p \in Int, q \in Int : p = a \div 2 /\ q = b \div 2
  OBVIOUS
<1>3. p <= q
  BY <1>1, <1>2
<1>4. 8 + (n + 4) * 16 <= (p + 8) * 16
  BY <1>1, <1>2 DEF ChunksFit, IdxBufSize, CHUNK_HDR, IDX_ENTRY
<1>5. 8 + (k + 4) * 16 <= (q + 8) * 16
  BY <1>3, <1>4
<1> QED
  BY <1>1, <1>2, <1>5 DEF ChunksFit, IdxBufSize, CHUNK_HDR, IDX_ENTRY

\* A chunk of each frame, and one of audio at the close, always have room.
LEMMA MutedFits ==
    ASSUME \A a \in AudioLens : a < AUD_CHUNK_MIN
    PROVE  SoundFits
<1> SUFFICES ASSUME NEW m \in Nat \ {0} PROVE ChunksFit(m + 1, m)
  BY LensAssumption DEF SoundFits, ChunksPerFrame
<1>1. PICK a \in Nat : a = m * 3
  OBVIOUS
<1>2. PICK p \in Int : p = a \div 2
  OBVIOUS
<1>3. m <= p
  BY <1>1, <1>2
<1>4. 8 + (m + 5) * 16 <= (p + 8) * 16
  BY <1>3
<1> QED
  BY <1>1, <1>2, <1>4 DEF ChunksFit, IdxBufSize, CHUNK_HDR, IDX_ENTRY

\* With frames of at most ChunksPerFrame chunks.
LEMMA FramesFit ==
    ASSUME SoundFits, NEW m \in MaxFramesOptions, NEW f \in Nat, f <= m,
           NEW n \in Nat, n <= ChunksPerFrame * f + 1
    PROVE  ChunksFit(n, m)
<1>1. PICK c \in {1, 2} : c = ChunksPerFrame
  BY DEF ChunksPerFrame
<1>2. m \in Nat
  BY LensAssumption
<1>3. c * m + 1 \in Nat /\ n <= c * m + 1
  <2>1. CASE c = 1
    BY <1>1, <1>2, <2>1
  <2>2. CASE c = 2
    BY <1>1, <1>2, <2>2
  <2> QED
    BY <2>1, <2>2
<1>4. ChunksFit(c * m + 1, m)
  BY <1>1 DEF SoundFits
<1> QED
  BY <1>2, <1>3, <1>4, RoomGrows

\* At the start nothing waits under AVITEMP.
LEMMA InitSize == Init => SizeInv
  BY DEF Init, SizeInv, NoTemp

\* A file that has just been opened has no chunks.
LEMMA OpenKeepsSize ==
    ASSUME SoundFits, IInv, OpenAvi
    PROVE  SizeInv'
<1>1. /\ temp'.stream = <<>> /\ frameCnt' = 0 /\ frameLimit' = maxFrames
      /\ maxFrames' = maxFrames
  <2>1. NoTemp.stream = <<>> /\ NoTemp \in Temps
    BY EmptyAgrees
  <2> QED
    BY <2>1 DEF OpenAvi, Temps
<1>2. maxFrames \in MaxFramesOptions /\ maxFrames \in Nat
  BY LensAssumption DEF IInv, TypeOK
<1>3. ChunksPerFrame * 0 = 0
  BY DEF ChunksPerFrame
<1>4. ChunksFit(0, maxFrames)
  BY <1>2, <1>3, FramesFit
<1> QED
  BY <1>1, <1>2, <1>3, <1>4 DEF SizeInv

\* A frame and its sound are added within the index and the cap.
LEMMA SaveFrameKeepsSize ==
    ASSUME FrameCountFits, SoundFits, IInv, SizeInv,
           NEW len \in FrameLens, NEW audio \in AudioLens,
           NEW flush \in BOOLEAN, SaveFrame(len, audio, flush)
    PROVE  SizeInv'
<1>1. pc = "rec" /\ UNCHANGED <<frameLimit, maxFrames>>
  BY DEF SaveFrame
<1>2. PICK n \in Nat, k \in Nat, f \in Nat, l \in Nat, m \in Nat :
         /\ n = Len(temp.stream) /\ k = Len(temp'.stream)
         /\ f = frameCnt /\ l = frameLimit /\ m = maxFrames
  <2>1. temp.stream \in Seq(Chunks) /\ temp'.stream \in Seq(Chunks)
    BY SaveFrameGrows DEF IInv, TypeOK, Temps, StreamGrows
  <2>2. frameCnt \in Nat /\ frameLimit \in Nat /\ maxFrames \in Nat
    BY LensAssumption DEF IInv, TypeOK
  <2> QED
    BY <2>1, <2>2
<1>3. PICK c \in {1, 2} : c = ChunksPerFrame
  BY DEF ChunksPerFrame
<1>4. n <= c * f /\ f <= l /\ l <= m
  BY <1>1, <1>2, <1>3 DEF SizeInv
<1>5. frameCnt' = f + 1 /\ f + 1 <= l /\ k <= n + c
  <2>1. /\ Len(temp'.stream) \in {n + 1, n + 2}
        /\ audio < AUD_CHUNK_MIN => Len(temp'.stream) = n + 1
        /\ frameCnt' = f + 1 /\ f < l
    BY <1>2, SaveFrameGrows
  <2>2. c = 1 => audio < AUD_CHUNK_MIN
    BY <1>3 DEF ChunksPerFrame
  <2> QED
    BY <1>2, <2>1, <2>2
<1>6. k <= c * (f + 1)
  BY <1>3, <1>4, <1>5
<1>7. ChunksFit(k, m)
  <2>1. PICK g \in Nat : g = f + 1
    OBVIOUS
  <2>2. k <= ChunksPerFrame * g + 1 /\ g <= maxFrames
    BY <1>2, <1>3, <1>4, <1>5, <1>6, <2>1
  <2>3. maxFrames \in MaxFramesOptions
    BY DEF IInv, TypeOK
  <2> QED
    BY <1>2, <2>2, <2>3, FramesFit
<1> QED
  BY <1>1, <1>2, <1>3, <1>4, <1>5, <1>6, <1>7 DEF SizeInv

\* The closing drain adds the one chunk the margin is for.
LEMMA CloseDataKeepsSize ==
    ASSUME SoundFits, IInv, SizeInv, NEW audio \in AudioLens, CloseData(audio)
    PROVE  SizeInv'
<1>1. pc = "closeData" /\ pc' = "closeIndex" /\ UNCHANGED <<frameCnt, maxFrames>>
  BY DEF CloseData, limits
<1>2. PICK n \in Nat, k \in Nat, f \in Nat, l \in Nat, m \in Nat :
         /\ n = Len(temp.stream) /\ k = Len(temp'.stream)
         /\ f = frameCnt /\ l = frameLimit /\ m = maxFrames
  <2>1. temp.stream \in Seq(Chunks) /\ temp'.stream \in Seq(Chunks)
    BY CloseDataGrows DEF IInv, TypeOK, Temps, StreamGrows
  <2>2. frameCnt \in Nat /\ frameLimit \in Nat /\ maxFrames \in Nat
    BY LensAssumption DEF IInv, TypeOK
  <2> QED
    BY <2>1, <2>2
<1>3. PICK c \in {1, 2} : c = ChunksPerFrame
  BY DEF ChunksPerFrame
<1>4. n <= c * f /\ f <= l /\ l <= m
  BY <1>1, <1>2, <1>3 DEF SizeInv
<1>5. k \in {n, n + 1}
  BY <1>2, CloseDataGrows
<1>6. k <= c * f + 1 /\ f <= m
  BY <1>3, <1>4, <1>5
<1>7. ChunksFit(k, m)
  BY <1>2, <1>3, <1>6, FramesFit DEF IInv, TypeOK
<1> QED
  BY <1>1, <1>2, <1>7 DEF SizeInv

\* A file keeps its room when maxFrames is raised, and is never there when it
\* is lowered.
LEMMA SetMaxFramesKeepsSize ==
    ASSUME IInv, SizeInv, NEW n \in MaxFramesOptions, SetMaxFrames(n),
           LoweredBetweenClips
    PROVE  SizeInv'
<1>1. /\ pc \in {"idle", "rec"} /\ maxFrames' = n /\ UNCHANGED <<pc, frameLimit, frameCnt, temp>>
  BY DEF SetMaxFrames, limits
<1>2. PICK m \in Nat, k \in Nat : m = maxFrames /\ k = n
  BY LensAssumption DEF IInv, TypeOK
<1>3. CASE n < maxFrames
  BY <1>1, <1>3 DEF LoweredBetweenClips, SizeInv
<1>4. CASE m <= k
  <2>1. temp.there => ChunksFit(Len(temp.stream), n)
    <3>1. Len(temp.stream) \in Nat
      BY DEF IInv, TypeOK, Temps
    <3> QED
      BY <1>2, <1>4, <3>1, RoomGrows DEF SizeInv
  <2>2. pc = "rec" => frameLimit <= k
    <3>1. frameLimit \in Nat
      BY DEF IInv, TypeOK
    <3> QED
      BY <1>2, <1>4, <3>1 DEF SizeInv
  <2> QED
    BY <1>1, <1>2, <2>1, <2>2 DEF SizeInv
<1> QED
  BY <1>2, <1>3, <1>4

\* What shortens the file leaves it room.
LEMMA PrefixKeepsSize ==
    ASSUME IInv, SizeInv, NEW n \in 0..Len(temp.stream),
           temp'.stream = SubSeq(temp.stream, 1, n), temp'.there = temp.there,
           maxFrames' = maxFrames, pc' \notin {"rec", "closeData"}
    PROVE  SizeInv'
<1>1. temp.stream \in Seq(Chunks) /\ Len(temp.stream) \in Nat /\ maxFrames \in Nat
  BY LensAssumption DEF IInv, TypeOK, Temps
<1>2. Len(temp'.stream) = n
  BY <1>1
<1>3. temp.there => ChunksFit(n, maxFrames)
  BY <1>1, RoomGrows DEF SizeInv
<1> QED
  BY <1>2, <1>3 DEF SizeInv

\* Every step keeps the bound on the chunks of what waits.
LEMMA NextKeepsSize ==
    ASSUME FrameCountFits, SoundFits, IInv, SizeInv,
           [Next /\ LoweredBetweenClips]_vars
    PROVE  SizeInv'
<1>1. CASE OpenAvi
  BY <1>1, OpenKeepsSize
<1>2. CASE Frame
  BY <1>2, SaveFrameKeepsSize DEF Frame
<1>3. CASE EndCapture
  BY <1>3 DEF EndCapture, SizeInv, limits
<1>4. CASE (\E n \in MaxFramesOptions : SetMaxFrames(n)) /\ LoweredBetweenClips
  BY <1>4, SetMaxFramesKeepsSize
<1>5. CASE \E a \in AudioLens : CloseData(a)
  BY <1>5, CloseDataKeepsSize
<1>6. temp \in Temps /\ ~NoTemp.there /\ walk.n \in Nat
  BY DEF IInv, TypeOK, NoTemp, Walks
<1>7. CASE (\E fails \in MayFail : CloseIndex(fails) \/ CloseHeader(fails)) \/ FixHeader
  <2>1. /\ temp'.there = temp.there /\ temp'.stream = temp.stream
        /\ maxFrames' = maxFrames /\ pc' \notin {"rec", "closeData"}
    BY <1>6, <1>7 DEF CloseIndex, CloseHeader, FixHeader, Temps
  <2> QED
    BY <2>1 DEF SizeInv
<1>8. CASE \/ \E fails \in MayFail : CloseName(fails) \/ RecoverBegin(fails)
           \/ WalkChunk \/ WalkEnds
           \/ \E try \in 1..RECOVER_NAMES, fails \in MayFail : FixName(try, fails)
  <2>1. /\ temp' \in {temp, NoTemp} /\ maxFrames' = maxFrames
        /\ pc' \notin {"rec", "closeData"}
    BY <1>8 DEF CloseName, RecoverBegin, WalkChunk, WalkEnds, FixName, RenameTo
  <2> QED
    BY <1>6, <2>1 DEF SizeInv
<1>9. CASE Crash
  <2>1. PICK n \in 0..Len(temp.stream) :
           temp' = [temp EXCEPT !.stream = SubSeq(@, 1, n)]
    BY <1>9 DEF Crash
  <2>2. temp'.stream = SubSeq(temp.stream, 1, n) /\ temp'.there = temp.there
    BY <1>6, <2>1 DEF Temps
  <2>3. maxFrames' = maxFrames /\ pc' \notin {"rec", "closeData"}
    BY <1>9 DEF Crash
  <2> QED
    BY <2>2, <2>3, PrefixKeepsSize
<1>10. CASE \E fails \in MayFail : FixIndex(fails)
  <2>1. /\ pc = "fixIndex" /\ maxFrames' = maxFrames
        /\ pc' \notin {"rec", "closeData"}
        /\ \/ temp' = temp
           \/ temp' = [temp EXCEPT !.stream = SubSeq(@, 1, walk.n),
                                   !.index = AviIndex(ix, walk.frames, walk.pos)]
    BY <1>10 DEF FixIndex
  <2>2. CASE temp' = temp
    BY <2>1, <2>2 DEF SizeInv
  <2>3. CASE temp' # temp
    <3>1. walk.n \in 0..Len(temp.stream)
      BY <1>6, <2>1 DEF IInv, WalkInv, Temps
    <3>2. /\ temp'.stream = SubSeq(temp.stream, 1, walk.n)
          /\ temp'.there = temp.there
      BY <1>6, <2>1, <2>3 DEF Temps
    <3> QED
      BY <2>1, <3>1, <3>2, PrefixKeepsSize
  <2> QED
    BY <2>2, <2>3
<1>11. CASE UNCHANGED vars
  BY <1>11 DEF vars, SizeInv
<1> QED
  BY <1>1, <1>2, <1>3, <1>4, <1>5, <1>7, <1>8, <1>9, <1>10, <1>11
     DEF Next, Close, Recover

\* AVITEMP is there while it is written, walked and repaired, and nothing of it
\* remains when it is not.
Repairing == {"fixIndex", "fixHeader", "fixName"}
TempInv ==
    /\ pc \in {"rec", "walk"} \cup Closing \cup Repairing => temp.there
    /\ ~temp.there => temp = NoTemp

\* AVITEMP is there while it is written, walked and repaired, and nothing of
\* it remains when it is not.
LEMMA InitTemp == Init => TempInv
  BY DEF Init, TempInv, NoTemp, Closing, Repairing

\* Every step keeps what is known of the file under AVITEMP.
LEMMA NextKeepsTemp ==
    ASSUME IInv, TempInv, [Next]_vars
    PROVE  TempInv'
<1>1. temp \in Temps /\ NoTemp.there = FALSE
  BY EmptyAgrees DEF IInv, TypeOK
<1>2. CASE OpenAvi
  <2>1. temp' = [NoTemp EXCEPT !.there = TRUE] /\ NoTemp \in Temps
    BY <1>2, EmptyAgrees DEF OpenAvi
  <2>2. temp'.there
    BY <2>1 DEF Temps
  <2> QED
    BY <2>2 DEF TempInv
<1>3. CASE \/ Frame \/ \E a \in AudioLens : CloseData(a)
           \/ \E fails \in MayFail : CloseIndex(fails) \/ CloseHeader(fails)
           \/ FixHeader
  <2>1. temp.there
    BY <1>3 DEF Frame, SaveFrame, CloseData, CloseIndex, CloseHeader, FixHeader,
                TempInv, Closing, Repairing
  <2>2. temp'.there
    BY <1>1, <1>3, <2>1 DEF Frame, SaveFrame, CloseData, CloseIndex, CloseHeader,
                FixHeader, Temps
  <2> QED
    BY <2>2 DEF TempInv
<1>4. CASE \/ EndCapture \/ (\E n \in MaxFramesOptions : SetMaxFrames(n))
           \/ (\E fails \in MayFail : RecoverBegin(fails)) \/ WalkChunk
  <2>1. temp' = temp /\ (temp.there \/ pc' \in {"idle"})
    BY <1>4 DEF EndCapture, SetMaxFrames, RecoverBegin, WalkChunk, TempInv
  <2> QED
    BY <2>1 DEF TempInv, Closing, Repairing
<1>5. CASE \/ \E fails \in MayFail : CloseName(fails)
           \/ \E try \in 1..RECOVER_NAMES, fails \in MayFail : FixName(try, fails)
  <2>1. temp' \in {temp, NoTemp} /\ pc' = "idle"
    BY <1>5 DEF CloseName, FixName, RenameTo
  <2> QED
    BY <2>1 DEF TempInv, Closing, Repairing
<1>6. CASE WalkEnds
  <2>1. temp.there /\ (temp' = temp \/ (temp' = NoTemp /\ pc' = "idle"))
    BY <1>6 DEF WalkEnds, TempInv
  <2> QED
    BY <2>1 DEF TempInv, Closing, Repairing
<1>7. CASE \E fails \in MayFail : FixIndex(fails)
  <2>1. temp.there
    BY <1>7 DEF FixIndex, TempInv, Repairing
  <2>2. temp'.there
    BY <1>1, <1>7, <2>1 DEF FixIndex, Temps
  <2> QED
    BY <2>2 DEF TempInv
<1>8. CASE Crash
  <2>1. PICK n \in 0..Len(temp.stream) :
           temp' = [temp EXCEPT !.stream = SubSeq(@, 1, n)]
    BY <1>8 DEF Crash
  <2>2. CASE temp.there
    <3>1. temp'.there
      BY <1>1, <2>1, <2>2 DEF Temps
    <3> QED
      BY <3>1 DEF TempInv
  <2>3. CASE ~temp.there
    <3>1. temp = NoTemp /\ temp.stream = <<>>
      BY <2>3, EmptyAgrees DEF TempInv
    <3>2. n = 0 /\ SubSeq(temp.stream, 1, n) = <<>>
      BY <3>1
    <3>3. temp' = temp
      BY <1>1, <2>1, <3>1, <3>2 DEF Temps
    <3> QED
      BY <1>8, <3>1, <3>3 DEF Crash, TempInv, Closing, Repairing
  <2> QED
    BY <2>2, <2>3
<1>9. CASE UNCHANGED vars
  BY <1>9 DEF vars, TempInv
<1> QED
  BY <1>2, <1>3, <1>4, <1>5, <1>6, <1>7, <1>8, <1>9 DEF Next, Close, Recover

\* What is known of the file under AVITEMP holds in every reachable state.
LEMMA TempHolds ==
    ASSUME FrameCountFits
    PROVE  Spec => []TempInv
<1>1. Init => TempInv
  BY InitTemp
<1>2. IInv /\ TempInv /\ [Next]_vars => TempInv'
  BY NextKeepsTemp
<1> QED
  BY <1>1, <1>2, RecorderInvariant, PTL DEF Spec

\* The run's specification is one of the recorder's.
LEMMA LoweredIsSpec == MCSpec => Spec
<1>1. [Next /\ LoweredBetweenClips]_vars => [Next]_vars
  OBVIOUS
<1> QED
  BY <1>1, PTL DEF MCSpec, Spec

\* recoverAvi() always has room to index what was left, when the cap is lowered
\* between recordings only and the sound of a frame is not denser than the
\* index was sized for.
THEOREM RecoveryHasRoom ==
    ASSUME FrameCountFits, SoundFits
    PROVE  MCSpec => []WalkHasRoom
<1>1. Init => SizeInv
  BY InitSize
<1>2. IInv /\ SizeInv /\ [Next /\ LoweredBetweenClips]_vars => SizeInv'
  BY NextKeepsSize
<1>3. TempInv /\ SizeInv => WalkHasRoom
  BY DEF TempInv, SizeInv, WalkHasRoom
<1>4. MCSpec => []IInv
  BY LoweredIsSpec, RecorderInvariant, PTL
<1>5. MCSpec => []TempInv
  BY LoweredIsSpec, TempHolds, PTL
<1> QED
  BY <1>1, <1>2, <1>3, <1>4, <1>5, PTL DEF MCSpec

----------------------------------------------------------------------------
\* The index of recoverAvi() is as large as maxFrames makes it; where the walk
\* is, the chunks passed end; and what is repaired was walked to its last chunk.
RepairInv ==
    /\ pc = "boot" => idxBufBytes = 0
    /\ pc = "walk" => idxBufBytes = IdxBufSize(maxFrames)
    /\ pc \in {"walk", "fixIndex"} => walk.pos = StreamEnd(temp.stream, walk.n)
    /\ pc \in Repairing =>
         /\ walk.n = Len(temp.stream)
         /\ Agrees(ix, temp.stream, walk.n)
         /\ walk.frames + ix.aud = walk.n
         /\ walk.frames = VidCount(temp.stream)
    /\ pc \in {"fixHeader", "fixName"} =>
         temp.index = AviIndex(ix, walk.frames, ix.offset + MOVI_LIST)
    /\ pc = "fixName" => temp.hdr = AviHdr(ix, walk.frames)

\* An index and the chunks it leads to hold as many frames.
LEMMA SameFrames ==
    ASSUME NEW s, NEW x, NEW n \in Nat, LeadsTo(x, s, n), Len(s) = n
    PROVE  VidCount(x) = VidCount(s)
<1>1. {i \in 1..Len(x) : x[i].kind = Vid} = {i \in 1..Len(s) : s[i].kind = Vid}
  BY DEF LeadsTo, Leads
<1> QED
  BY <1>1 DEF VidCount

\* At the start nothing is being repaired.
LEMMA InitRepair == Init => RepairInv
  BY DEF Init, RepairInv, Repairing

\* The walk passes every chunk there is room for.
LEMMA WalkChunkKeepsRepair ==
    ASSUME IInv, IInv', RepairInv, WalkHasRoom, WalkChunk
    PROVE  RepairInv'
<1>1. PICK s \in Seq(Chunks), n \in Nat, l \in Nat, b \in Nat :
         /\ s = temp.stream /\ n = walk.n /\ l = Len(s) /\ b = idxBufBytes
  BY DEF IInv, TypeOK, Temps, Walks
<1>2. /\ pc = "walk" /\ n < l
      /\ UNCHANGED <<maxFrames, temp, idxBufBytes>>
      /\ \/ pc' = "fixIndex" /\ AviIndexNearFull(ix', b)
         \/ /\ pc' = "walk"
            /\ walk'.n = n + 1 /\ walk'.pos = ChunkEnd(s[n + 1])
  BY <1>1 DEF WalkChunk
<1>3. CASE pc' = "walk"
  <2>1. walk'.pos = StreamEnd(temp'.stream, walk'.n)
    BY <1>1, <1>2, <1>3 DEF StreamEnd
  <2> QED
    BY <1>2, <1>3, <2>1 DEF RepairInv, Repairing
<1>4. CASE pc' = "fixIndex" /\ AviIndexNearFull(ix', b)
  <2>1. b = IdxBufSize(maxFrames) /\ ChunksFit(l, maxFrames)
    BY <1>1, <1>2 DEF RepairInv, WalkHasRoom
  <2>2. ix.ptr = 8 + 16 * n
    BY <1>1, <1>2 DEF IInv, WalkInv, Agrees, CHUNK_HDR, IDX_ENTRY
  <2>3. ix'.ptr \in {8 + 16 * n, 8 + 16 * n + 16}
    BY <1>2, <2>2 DEF WalkChunk, BuildAviIdx, IDX_ENTRY
  <2>4. ix'.ptr + 64 <= 8 + (l + 4) * 16
    BY <1>2, <2>3
  <2>5. 8 + (l + 4) * 16 <= b
    BY <2>1 DEF ChunksFit, CHUNK_HDR, IDX_ENTRY
  <2> QED
    BY <1>4, <2>3, <2>4, <2>5 DEF AviIndexNearFull, IDX_ENTRY
<1> QED
  BY <1>2, <1>3, <1>4

\* At the end of the walk every chunk is indexed.
LEMMA WalkEndsKeepsRepair ==
    ASSUME IInv, RepairInv, WalkEnds
    PROVE  RepairInv'
<1>1. CASE pc' = "idle"
  BY <1>1 DEF RepairInv, Repairing
<1>2. CASE pc' = "fixIndex"
  <2>1. pc = "walk" /\ walk.n = Len(temp.stream) /\ UNCHANGED <<temp, walk, ix>>
    BY <1>2 DEF WalkEnds
  <2>2. Agrees(ix, temp.stream, walk.n) /\ walk.frames + ix.aud = walk.n
    BY <2>1 DEF IInv, WalkInv, Agrees, LeadsTo
  <2>3. walk.frames = VidCount(temp.stream)
    <3>1. SubSeq(temp.stream, 1, walk.n) = temp.stream
      BY <2>1 DEF IInv, TypeOK, Temps
    <3> QED
      BY <2>1, <3>1 DEF IInv, WalkInv
  <2> QED
    BY <1>2, <2>1, <2>2, <2>3 DEF RepairInv
<1> QED
  BY <1>1, <1>2 DEF WalkEnds

\* The index goes where the last chunk ends, and nothing is cut off.
LEMMA FixIndexKeepsRepair ==
    ASSUME IInv, RepairInv, NEW fails \in BOOLEAN, FixIndex(fails)
    PROVE  RepairInv'
<1>1. CASE fails
  BY <1>1 DEF FixIndex, RepairInv, Repairing
<1>2. CASE ~fails
  <2>1. /\ pc = "fixIndex" /\ pc' = "fixHeader" /\ UNCHANGED <<walk, ix>>
        /\ temp' = [temp EXCEPT !.stream = SubSeq(@, 1, walk.n),
                                !.index = AviIndex(ix, walk.frames, walk.pos)]
    BY <1>2 DEF FixIndex
  <2>2. /\ walk.n = Len(temp.stream) /\ Agrees(ix, temp.stream, walk.n)
        /\ walk.frames + ix.aud = walk.n
        /\ walk.pos = StreamEnd(temp.stream, walk.n)
        /\ walk.frames = VidCount(temp.stream)
    BY <2>1 DEF RepairInv, Repairing
  <2>3. temp \in Temps /\ temp.stream \in Seq(Chunks)
    BY DEF IInv, TypeOK, Temps
  <2>4. SubSeq(temp.stream, 1, walk.n) = temp.stream
    BY <2>2, <2>3
  <2>5. temp'.stream = temp.stream /\ temp'.index = AviIndex(ix, walk.frames, walk.pos)
    BY <2>1, <2>3, <2>4 DEF Temps
  <2>6. walk.pos = ix.offset + MOVI_LIST
    BY <2>2 DEF Agrees
  <2> QED
    BY <2>1, <2>2, <2>5, <2>6 DEF RepairInv, Repairing
<1> QED
  BY <1>1, <1>2

\* The header recovery writes is that of the chunks it has indexed.
LEMMA FixHeaderKeepsRepair ==
    ASSUME IInv, RepairInv, FixHeader
    PROVE  RepairInv'
<1>1. /\ pc = "fixHeader" /\ pc' = "fixName" /\ UNCHANGED <<walk, ix>>
      /\ temp' = [temp EXCEPT !.hdr = AviHdr(ix, walk.frames)]
  BY DEF FixHeader
<1>2. /\ temp'.stream = temp.stream /\ temp'.index = temp.index
      /\ temp'.hdr = AviHdr(ix, walk.frames)
  BY <1>1 DEF IInv, TypeOK, Temps
<1> QED
  BY <1>1, <1>2 DEF RepairInv, Repairing

\* Every step keeps what a repair has done so far, when its walk has room.
LEMMA NextKeepsRepair ==
    ASSUME IInv, IInv', RepairInv, WalkHasRoom, [Next]_vars
    PROVE  RepairInv'
<1>1. MayFail \subseteq BOOLEAN
  BY DEF MayFail
<1>2. CASE OpenAvi \/ Frame \/ EndCapture
           \/ (\E n \in MaxFramesOptions : SetMaxFrames(n)) \/ Close
  <2>1. pc' \in {"idle", "rec"} \cup Closing
    BY <1>2 DEF OpenAvi, Frame, SaveFrame, EndCapture, SetMaxFrames, Close,
                CloseData, CloseIndex, CloseHeader, CloseName, Closing
  <2> QED
    BY <2>1 DEF RepairInv, Repairing, Closing
<1>3. CASE Crash
  BY <1>3 DEF Crash, RepairInv, Repairing
<1>4. CASE \E fails \in MayFail : RecoverBegin(fails)
  <2>1. CASE pc' = "idle"
    BY <2>1 DEF RepairInv, Repairing
  <2>2. CASE pc' = "walk"
    <3>1. /\ pc = "boot" /\ PrepAviIndex /\ walk' = WalkStart
          /\ maxFrames' = maxFrames
      BY <1>4, <2>2 DEF RecoverBegin
    <3>2. idxBufBytes' = IdxBufSize(maxFrames')
      BY <3>1 DEF RepairInv, PrepAviIndex
    <3>3. walk'.pos = StreamEnd(temp'.stream, walk'.n)
      BY <3>1 DEF WalkStart, StreamEnd
    <3> QED
      BY <2>2, <3>2, <3>3 DEF RepairInv, Repairing
  <2> QED
    BY <1>4, <2>1, <2>2 DEF RecoverBegin
<1>5. CASE WalkChunk
  BY <1>5, WalkChunkKeepsRepair
<1>6. CASE WalkEnds
  BY <1>6, WalkEndsKeepsRepair
<1>7. CASE \E fails \in MayFail : FixIndex(fails)
  BY <1>1, <1>7, FixIndexKeepsRepair
<1>8. CASE FixHeader
  BY <1>8, FixHeaderKeepsRepair
<1>9. CASE \E try \in 1..RECOVER_NAMES, fails \in MayFail : FixName(try, fails)
  BY <1>9 DEF FixName, RepairInv, Repairing
<1>10. CASE UNCHANGED vars
  BY <1>10 DEF vars, RepairInv
<1> QED
  BY <1>2, <1>3, <1>4, <1>5, <1>6, <1>7, <1>8, <1>9, <1>10 DEF Next, Recover

\* The clip recoverAvi() names: its index and header agree with its chunks.
LEMMA RecoveredClip ==
    ASSUME IInv, RepairInv, pc = "fixName", NEW name
    PROVE  Playable(Clip(name))
<1>1. PICK m \in Nat, f \in Nat, a \in Nat, o \in Nat, n \in Nat :
         /\ m = ix.movi /\ f = walk.frames /\ a = ix.aud /\ o = ix.offset
         /\ n = walk.n
  BY LensAssumption DEF IInv, TypeOK, IxRecords, Walks
<1>2. /\ n = Len(temp.stream) /\ Agrees(ix, temp.stream, n) /\ f + a = n
      /\ temp.index = AviIndex(ix, f, o + MOVI_LIST)
      /\ temp.hdr = AviHdr(ix, f)
  BY <1>1 DEF RepairInv, Repairing
<1>3. ix.entries \in Seq(Entries) /\ Len(ix.entries) = n
  BY <1>2 DEF IInv, TypeOK, IxRecords, Agrees, LeadsTo
<1>4. SubSeq(ix.entries, 1, n) = ix.entries
  BY <1>3
<1>5. temp.index = [pos |-> o + MOVI_LIST, size |-> n, entries |-> ix.entries]
  BY <1>1, <1>2, <1>4 DEF AviIndex
<1> DEFINE c == Clip(name)
<1>6. c.stream = temp.stream /\ c.hdr = temp.hdr /\ c.index = temp.index
  BY DEF Clip
<1> HIDE DEF c
<1>7. \A i \in 1..c.index.size :
         \E j \in 1..Len(c.stream) : Leads(c.index.entries[i], c.stream[j])
  BY <1>2, <1>5, <1>6 DEF Agrees, LeadsTo
<1>8. c.hdr.data + MOVI_LIST = c.index.pos
  <2>1. o = 4 + m + 8 * n /\ f + a = n
    BY <1>1, <1>2 DEF Agrees, CHUNK_HDR
  <2>2. m + (f + a) * 8 + 4 = o
    BY <2>1
  <2>3. c.hdr.data = m + (f + a) * 8 + 4
    BY <1>1, <1>2, <1>6 DEF AviHdr, CHUNK_HDR
  <2> QED
    BY <1>5, <1>6, <2>2, <2>3
<1>9. c.hdr.frames = f
  BY <1>2, <1>6 DEF AviHdr
<1>10. f = VidCount(ix.entries)
  <2>1. f = VidCount(temp.stream)
    BY <1>1 DEF RepairInv, Repairing
  <2> QED
    BY <1>2, <2>1, SameFrames DEF Agrees
<1> QED
  BY <1>3, <1>5, <1>6, <1>7, <1>8, <1>9, <1>10 DEF Playable, c

\* Every step keeps the files recovery has named playable.
LEMMA NextKeepsRecovered ==
    ASSUME IInv, RepairInv, RecoveredClipsPlayable, [Next]_vars
    PROVE  RecoveredClipsPlayable'
<1>1. CASE \E fails \in MayFail : CloseName(fails)
  <2>1. PICK name : name.try = 0 /\ clips' \in {clips, clips \cup {Clip(name)}}
    BY <1>1 DEF CloseName, RenameTo
  <2>2. Clip(name).name.try = 0
    BY <2>1 DEF Clip
  <2>3. \A c \in clips' : c.name.try > 0 => c \in clips
    BY <2>1, <2>2
  <2> QED
    BY <2>3 DEF RecoveredClipsPlayable
<1>2. CASE \E try \in 1..RECOVER_NAMES, fails \in MayFail : FixName(try, fails)
  <2>1. PICK name : clips' \in {clips, clips \cup {Clip(name)}}
    BY <1>2 DEF FixName, RenameTo
  <2>2. Playable(Clip(name))
    BY <1>2, RecoveredClip DEF FixName
  <2> QED
    BY <2>1, <2>2 DEF RecoveredClipsPlayable
<1>3. CASE UNCHANGED clips
  BY <1>3 DEF RecoveredClipsPlayable
<1>4. \/ UNCHANGED clips
      \/ \E fails \in MayFail : CloseName(fails)
      \/ \E try \in 1..RECOVER_NAMES, fails \in MayFail : FixName(try, fails)
  BY DEF Next, vars, names, OpenAvi, Frame, SaveFrame, EndCapture, SetMaxFrames, Close,
         CloseData, CloseIndex, CloseHeader, Crash, Recover, RecoverBegin,
         WalkChunk, WalkEnds, FixIndex, FixHeader
<1> QED
  BY <1>1, <1>2, <1>3, <1>4

\* What the walk and the repair know of the file, while the index has room.
LEMMA RepairHolds ==
    ASSUME FrameCountFits
    PROVE  Spec /\ []WalkHasRoom => []RepairInv
<1>1. Init => RepairInv
  BY InitRepair
<1>2. IInv /\ IInv' /\ RepairInv /\ WalkHasRoom /\ [Next]_vars => RepairInv'
  BY NextKeepsRepair
<1> QED
  BY <1>1, <1>2, RecorderInvariant, PTL DEF Spec

\* Every file recoverAvi() names is playable, whatever was recorded and
\* wherever power was lost, as long as the index that maxFrames sizes at the
\* boot has room for the chunks of the file.
THEOREM RecoveredPlayable ==
    ASSUME FrameCountFits
    PROVE  Spec /\ []WalkHasRoom => []RecoveredClipsPlayable
<1>1. Init => RecoveredClipsPlayable
  BY DEF Init, RecoveredClipsPlayable
<1>2. IInv /\ RepairInv /\ RecoveredClipsPlayable /\ [Next]_vars
        => RecoveredClipsPlayable'
  BY NextKeepsRecovered
<1> QED
  BY <1>1, <1>2, RepairHolds, RecorderInvariant, PTL DEF Spec

\* The same of the run's specification, with no premise on what happens: the
\* cap is lowered between recordings only, and sound is not too dense for it.
THEOREM LoweredRecoveredPlayable ==
    ASSUME FrameCountFits, SoundFits
    PROVE  MCSpec => []RecoveredClipsPlayable
  BY LoweredIsSpec, RecoveryHasRoom, RecoveredPlayable, PTL

----------------------------------------------------------------------------
(* Recording and recovery implement ClipStore.                             *)

\* The chunks ascend, and the flush is never ahead of what was written.
SafeInv ==
    /\ Ascending(temp.stream)
    /\ pc = "rec" => temp.durable <= out.written

\* The chunks ascend, and the flush is never ahead of what was written.
LEMMA NextKeepsSafe ==
    ASSUME FrameCountFits, IInv, SafeInv, [Next]_vars
    PROVE  SafeInv'
<1>1. temp \in Temps /\ temp.stream \in Seq(Chunks) /\ Ascending(<<>>)
  BY DEF IInv, TypeOK, Temps, Ascending
<1>2. CASE OpenAvi
  <2>1. temp' = [NoTemp EXCEPT !.there = TRUE] /\ out'.written = 0
    BY <1>2 DEF OpenAvi
  <2>2. temp'.stream = <<>> /\ temp'.durable = 0
    BY <2>1 DEF NoTemp
  <2> QED
    BY <1>1, <2>1, <2>2 DEF SafeInv
<1>3. CASE Frame
  <2>1. PICK len \in FrameLens, audio \in AudioLens, flush \in BOOLEAN :
           SaveFrame(len, audio, flush)
    BY <1>3 DEF Frame
  <2>2. /\ StreamGrows /\ out.written <= out'.written
        /\ out.written \in Nat /\ out'.written \in Nat
        /\ temp'.durable = IF flush THEN out'.written ELSE temp.durable
    BY <2>1, SaveFrameGrows
  <2>3. temp.durable <= out.written /\ temp.durable \in Nat
    BY <1>1, <2>1 DEF SaveFrame, SafeInv, Temps
  <2>4. temp'.durable <= out'.written
    BY <2>2, <2>3
  <2> QED
    BY <2>2, <2>4 DEF StreamGrows, SafeInv
<1>4. CASE \E a \in AudioLens : CloseData(a)
  <2>1. StreamGrows /\ pc' # "rec"
    BY <1>4, CloseDataGrows DEF CloseData
  <2> QED
    BY <2>1 DEF StreamGrows, SafeInv
<1>5. CASE Crash \/ \E fails \in MayFail : FixIndex(fails)
  <2>1. PICK n \in 0..Len(temp.stream) : temp'.stream = SubSeq(temp.stream, 1, n)
    <3>1. CASE Crash
      BY <1>1, <3>1 DEF Crash, Temps
    <3>2. CASE \E fails \in MayFail : FixIndex(fails)
      <4>1. walk.n \in 0..Len(temp.stream)
        BY <3>2 DEF FixIndex, IInv, TypeOK, WalkInv, Walks, Temps
      <4>2. temp'.stream \in {temp.stream, SubSeq(temp.stream, 1, walk.n)}
        BY <1>1, <3>2 DEF FixIndex, Temps
      <4>3. temp.stream = SubSeq(temp.stream, 1, Len(temp.stream))
            /\ Len(temp.stream) \in 0..Len(temp.stream)
        BY <1>1
      <4> QED
        BY <4>1, <4>2, <4>3
    <3> QED
      BY <1>5, <3>1, <3>2
  <2>2. Len(temp'.stream) = n /\ \A i \in 1..n : temp'.stream[i] = temp.stream[i]
    BY <1>1, <2>1
  <2>3. Ascending(temp'.stream)
    BY <1>1, <2>2 DEF SafeInv, Ascending
  <2>4. pc' # "rec"
    BY <1>5 DEF Crash, FixIndex
  <2> QED
    BY <2>3, <2>4 DEF SafeInv
<1>6. CASE \/ EndCapture \/ WalkChunk \/ FixHeader
           \/ \E fails \in MayFail : CloseIndex(fails) \/ CloseHeader(fails)
           \/ \E fails \in MayFail : RecoverBegin(fails)
  <2>1. temp'.stream = temp.stream /\ pc' # "rec"
    BY <1>1, <1>6 DEF EndCapture, CloseIndex, CloseHeader, WalkChunk, FixHeader,
                      RecoverBegin, Temps
  <2> QED
    BY <2>1 DEF SafeInv
<1>7. CASE \/ \E fails \in MayFail : CloseName(fails)
           \/ \E try \in 1..RECOVER_NAMES, fails \in MayFail : FixName(try, fails)
           \/ WalkEnds
  <2>1. temp' \in {temp, NoTemp} /\ pc' # "rec"
    BY <1>7 DEF CloseName, FixName, RenameTo, WalkEnds
  <2> QED
    BY <1>1, <2>1, EmptyAgrees DEF SafeInv
<1>8. CASE \E n \in MaxFramesOptions : SetMaxFrames(n)
  BY <1>8 DEF SetMaxFrames, SafeInv
<1>9. CASE UNCHANGED vars
  BY <1>9 DEF vars, SafeInv
<1> QED
  BY <1>2, <1>3, <1>4, <1>5, <1>6, <1>7, <1>8, <1>9 DEF Next, Close, Recover

\* What ClipStore sees of the recorder.
StoreVars == <<temp.there, temp.stream, SafeChunks,
               {[name |-> c.name, chunks |-> c.stream] : c \in clips}>>

\* What survives a loss of power is a prefix of the chunks.
LEMMA SafeChunksOf ==
    /\ SafeChunks = SafeOf(temp.stream, temp.durable)
    /\ SafeChunks' = SafeOf(temp'.stream, temp'.durable)
  BY DEF SafeChunks, SafeOf

\* The start of a stream is a prefix of it.
LEMMA PrefixOf ==
    ASSUME NEW s \in Seq(Chunks), NEW t \in Seq(Chunks), Len(s) <= Len(t),
           \A i \in 1..Len(s) : t[i] = s[i]
    PROVE  Store!IsPrefixOf(s, t)
<1>1. s = SubSeq(t, 1, Len(s))
  OBVIOUS
<1> QED
  BY <1>1 DEF Store!IsPrefixOf

\* openAvi() starts a recording, for there is none.
LEMMA OpenStarts ==
    ASSUME NamingInv, OpenAvi PROVE Store!Start
<1>1. temp' = [NoTemp EXCEPT !.there = TRUE] /\ clips' = clips /\ ~temp.there
  BY DEF OpenAvi, NamingInv
<1>2. temp'.there /\ temp'.stream = <<>>
  BY <1>1 DEF NoTemp
<1>3. SafeChunks' = 0
  <2>1. {i \in 1..Len(temp'.stream) : ChunkEnd(temp'.stream[i]) <= temp'.durable} = {}
    BY <1>2
  <2> QED
    BY <2>1, FS_EmptySet DEF SafeChunks
<1> QED
  BY <1>1, <1>2, <1>3 DEF Store!Start

\* A step that lengthens the stream, or flushes further, is one of Add.
LEMMA GrowingAdds ==
    ASSUME IInv, IInv', StreamGrows, temp.there, temp'.there,
           temp.durable <= temp'.durable, clips' = clips
    PROVE  Store!Add
<1>1. PICK s \in Seq(Chunks), t \in Seq(Chunks), d \in Nat, e \in Nat :
         /\ s = temp.stream /\ t = temp'.stream
         /\ d = temp.durable /\ e = temp'.durable
  BY DEF IInv, TypeOK, Temps
<1>2. Len(s) <= Len(t) /\ \A i \in 1..Len(s) : t[i] = s[i]
  BY <1>1 DEF StreamGrows
<1>3. SafeOf(s, d) \in 0..Len(s) /\ SafeOf(s, d) <= SafeOf(t, e)
  BY <1>1, <1>2, SafeGrows
<1>4. SafeOf(t, e) \in 0..Len(t)
  <2>1. Len(t) <= Len(t) /\ e <= e
    OBVIOUS
  <2> QED
    BY <2>1, SafeGrows
<1>5. SafeChunks' \in SafeChunks..Len(temp'.stream)
  BY <1>1, <1>3, <1>4, SafeChunksOf
<1>6. Store!IsPrefixOf(s, t)
  BY <1>2, PrefixOf
<1> QED
  BY <1>1, <1>5, <1>6 DEF Store!Add

\* For the abstract store, a saved frame adds its chunks.
LEMMA FrameAdds ==
    ASSUME FrameCountFits, IInv, IInv', TempInv, SafeInv, Frame
    PROVE  Store!Add
<1>1. PICK len \in FrameLens, audio \in AudioLens, flush \in BOOLEAN :
         SaveFrame(len, audio, flush)
  BY DEF Frame
<1>2. /\ StreamGrows /\ out.written <= out'.written
      /\ out.written \in Nat /\ out'.written \in Nat
      /\ temp'.durable = IF flush THEN out'.written ELSE temp.durable
      /\ temp'.there = temp.there
  BY <1>1, SaveFrameGrows
<1>3. pc = "rec" /\ clips' = clips
  BY <1>1 DEF SaveFrame, names
<1>4. temp.durable <= out.written /\ temp.durable \in Nat /\ temp.there
  BY <1>3 DEF SafeInv, TempInv, IInv, TypeOK, Temps
<1>5. temp.durable <= temp'.durable
  BY <1>2, <1>4
<1> QED
  BY <1>2, <1>3, <1>4, <1>5, GrowingAdds

\* For the abstract store, the closing drain adds its chunk or nothing.
LEMMA CloseDataAdds ==
    ASSUME IInv, IInv', TempInv, NEW audio \in AudioLens, CloseData(audio)
    PROVE  Store!Add
<1>1. StreamGrows /\ temp'.durable = temp.durable /\ temp'.there = temp.there
  BY CloseDataGrows
<1>2. temp.there /\ clips' = clips
  BY DEF CloseData, names, TempInv, Closing
<1>3. temp.durable <= temp'.durable
  BY <1>1 DEF IInv, TypeOK, Temps
<1> QED
  BY <1>1, <1>2, <1>3, GrowingAdds

\* Once the file is closed its chunks are all safe.
LEMMA CloseHeaderAdds ==
    ASSUME IOErrors = FALSE, IInv, IInv', TempInv, SafeInv,
           NEW fails \in MayFail, CloseHeader(fails)
    PROVE  Store!Add
<1>1. PICK s \in Seq(Chunks), d \in Nat, e \in Nat :
         s = temp.stream /\ d = temp.durable /\ e = temp'.durable
  BY DEF IInv, TypeOK, Temps
<1>2. pc = "closeHeader" /\ pc \in Closing /\ clips' = clips
  BY DEF CloseHeader, Closing, names
<1>3. /\ temp'.stream = s /\ temp'.there = temp.there
      /\ e = temp.index.pos + CHUNK_HDR + IDX_ENTRY * temp.index.size
  BY <1>1 DEF CloseHeader, IInv, TypeOK, Temps
<1>4. /\ temp.index.pos = StreamEnd(s, Len(s))
      /\ temp.index.size = Len(s)
  <2>1. temp.index = AviIndex(ix, frameCnt, ix.offset + MOVI_LIST)
        /\ Agrees(ix, temp.stream, Len(temp.stream))
    BY <1>2 DEF IInv, RecordingInv
  <2> QED
    BY <1>1, <1>2, <2>1, IndexIsWhole DEF Agrees
<1>5. \A i \in 1..Len(s) : ChunkEnd(s[i]) <= e
  <2> SUFFICES ASSUME NEW i \in 1..Len(s) PROVE ChunkEnd(s[i]) <= e
    OBVIOUS
  <2>1. ChunkEnd(s[i]) <= StreamEnd(s, Len(s))
    BY <1>1, EndsBelow DEF SafeInv
  <2>2. PICK l \in Nat : l = Len(s)
    OBVIOUS
  <2>3. s[i] \in Chunks /\ s[l] \in Chunks /\ l # 0
    BY <2>2
  <2>4. StreamEnd(s, l) = ChunkEnd(s[l])
    BY <2>3 DEF StreamEnd
  <2>5. ChunkEnd(s[i]) \in Nat /\ StreamEnd(s, l) \in Nat
    BY <2>3, <2>4, ChunkBounds
  <2>6. e = StreamEnd(s, l) + 8 + 16 * l
    BY <1>3, <1>4, <2>2 DEF CHUNK_HDR, IDX_ENTRY
  <2> QED
    BY <2>1, <2>2, <2>5, <2>6
<1>6. SafeChunks' = Len(s)
  BY <1>1, <1>3, <1>5, SafeWhole, SafeChunksOf
<1>7. SafeChunks \in 0..Len(s)
  <2>1. Len(s) <= Len(s) /\ d <= d
    OBVIOUS
  <2>2. SafeOf(s, d) \in 0..Len(s)
    BY <2>1, SafeGrows
  <2> QED
    BY <1>1, <2>2, SafeChunksOf
<1>8. Store!IsPrefixOf(s, s)
  BY PrefixOf
<1>9. temp.there
  BY <1>2 DEF TempInv
<1>10. SafeChunks' \in SafeChunks..Len(s)
  BY <1>6, <1>7
<1> QED
  BY <1>1, <1>2, <1>3, <1>8, <1>9, <1>10 DEF Store!Add

\* A loss of power takes what was not safe and nothing else.
LEMMA CrashLoses ==
    ASSUME IInv, SafeInv, Crash
    PROVE  Store!LosePower
<1>1. PICK s \in Seq(Chunks), z \in Nat : s = temp.stream /\ z = temp.durable
  BY DEF IInv, TypeOK, Temps
<1>2. PICK n \in 0..Len(s) :
         /\ Intact(s, n, z) /\ temp' = [temp EXCEPT !.stream = SubSeq(@, 1, n)]
  BY <1>1 DEF Crash
<1> DEFINE t == SubSeq(s, 1, n)
<1>3. /\ temp'.stream = t /\ temp'.durable = z /\ temp'.there = temp.there
      /\ clips' = clips
  BY <1>1, <1>2 DEF Crash, IInv, TypeOK, Temps
<1>4. t \in Seq(Chunks) /\ Len(t) = n /\ \A i \in 1..n : t[i] = s[i]
  BY VidCountPrefix
<1> HIDE DEF t
<1>5. SafeOf(s, z) = n
  BY <1>1, <1>2, SafeAfterCrash DEF SafeInv
<1>6. SafeOf(t, z) = n
  <2>1. \A i \in 1..Len(t) : ChunkEnd(t[i]) <= z
    BY <1>2, <1>4 DEF Intact
  <2> QED
    BY <1>4, <2>1, SafeWhole
<1>7. Store!IsPrefixOf(t, s)
  BY <1>4, PrefixOf
<1>8. SafeChunks = n /\ SafeChunks' = n
  BY <1>1, <1>3, <1>5, <1>6, SafeChunksOf
<1> QED
  BY <1>1, <1>3, <1>4, <1>7, <1>8 DEF Store!LosePower

\* A stream without frames: the count says so.
LEMMA NoFrames ==
    ASSUME NEW s \in Seq(Chunks), VidCount(s) = 0
    PROVE  ~Store!HasFrame(s)
<1>1. IsFiniteSet(1..Len(s))
  BY UpTo
<1>2. IsFiniteSet({i \in 1..Len(s) : s[i].kind = Vid})
  BY <1>1, FS_Subset
<1>3. {i \in 1..Len(s) : s[i].kind = Vid} = {}
  BY <1>2, FS_EmptySet DEF VidCount
<1> QED
  BY <1>3 DEF Store!HasFrame, Vid

\* AVITEMP is no more.
LEMMA GoneIsEmpty ==
    ASSUME temp' = NoTemp
    PROVE  ~temp'.there /\ temp'.stream = <<>> /\ SafeChunks' = 0
<1>1. ~temp'.there /\ temp'.stream = <<>>
  BY EmptyAgrees
<1>2. {i \in 1..Len(temp'.stream) : ChunkEnd(temp'.stream[i]) <= temp'.durable} = {}
  BY <1>1
<1> QED
  BY <1>1, <1>2, FS_EmptySet DEF SafeChunks

\* A rename keeps the recording under a name no other has, or changes nothing.
LEMMA RenameKeeps ==
    ASSUME temp.there, NEW name, NEW fails \in BOOLEAN, RenameTo(name, fails)
    PROVE  Store!Keep \/ UNCHANGED StoreVars
<1>1. CASE fails \/ Taken(name)
  BY <1>1 DEF RenameTo, StoreVars, SafeChunks
<1>2. CASE ~(fails \/ Taken(name))
  <2>1. /\ temp' = NoTemp /\ clips' = clips \cup {Clip(name)}
        /\ \A c \in clips : c.name # name
    BY <1>2 DEF RenameTo, Taken
  <2> DEFINE K(S) == {[name |-> c.name, chunks |-> c.stream] : c \in S}
             k == [name |-> name, chunks |-> temp.stream]
  <2>2. Clip(name).name = name /\ Clip(name).stream = temp.stream
    BY DEF Clip
  <2>3. K(clips') = K(clips) \cup {k}
    BY <2>1, <2>2
  <2>4. \A other \in K(clips) : other.name # k.name
    BY <2>1
  <2>5. k.chunks = temp.stream
    OBVIOUS
  <2>6. k \in K(clips')
    BY <2>3
  <2>7. ~temp'.there /\ temp'.stream = <<>> /\ SafeChunks' = 0
    BY <2>1, GoneIsEmpty
  <2> QED
    BY <2>3, <2>4, <2>5, <2>6, <2>7 DEF Store!Keep
<1> QED
  BY <1>1, <1>2

\* closeAvi() keeps the recording, or drops it when it has no frame.
LEMMA CloseNameEnds ==
    ASSUME IInv, TempInv, NEW fails \in BOOLEAN, CloseName(fails)
    PROVE  Store!Keep \/ Store!Discard \/ UNCHANGED StoreVars
<1>1. temp.there /\ pc \in Closing
  BY DEF CloseName, TempInv, Closing
<1>2. CASE frameCnt > 0
  BY <1>1, <1>2, RenameKeeps DEF CloseName
<1>3. CASE ~(frameCnt > 0)
  <2>1. temp' = NoTemp /\ clips' = clips
    BY <1>3 DEF CloseName
  <2>2. temp.stream \in Seq(Chunks) /\ VidCount(temp.stream) = 0
    <3>1. frameCnt \in Nat
      BY LensAssumption DEF IInv, TypeOK
    <3> QED
      BY <1>1, <1>3, <3>1 DEF IInv, TypeOK, Temps, RecordingInv
  <2> QED
    BY <1>1, <2>1, <2>2, NoFrames, GoneIsEmpty DEF Store!Discard
<1> QED
  BY <1>2, <1>3

\* recoverAvi() drops what has no frame.
LEMMA WalkEndsDiscards ==
    ASSUME IInv, TempInv, WalkEnds
    PROVE  Store!Discard \/ UNCHANGED StoreVars
<1>1. temp.there /\ pc = "walk" /\ walk.n = Len(temp.stream) /\ clips' = clips
  BY DEF WalkEnds, TempInv, names
<1>2. CASE walk.frames = 0
  <2>1. temp' = NoTemp
    BY <1>2 DEF WalkEnds
  <2>2. temp.stream \in Seq(Chunks)
    BY DEF IInv, TypeOK, Temps
  <2>3. SubSeq(temp.stream, 1, walk.n) = temp.stream
    BY <1>1, <2>2
  <2>4. VidCount(temp.stream) = 0
    BY <1>1, <1>2, <2>3 DEF IInv, WalkInv
  <2> QED
    BY <1>1, <2>1, <2>2, <2>4, NoFrames, GoneIsEmpty DEF Store!Discard
<1>3. CASE walk.frames # 0
  BY <1>1, <1>3 DEF WalkEnds, StoreVars, SafeChunks
<1> QED
  BY <1>2, <1>3

\* Each step of the recorder is a step of the store, or none it can see.
LEMMA StepRefines ==
    ASSUME FrameCountFits, IOErrors = FALSE, IInv, IInv', TempInv, RepairInv,
           NamingInv, SafeInv,
           [Next]_vars
    PROVE  Store!Next \/ UNCHANGED StoreVars
<1> USE DEF Store!Next
<1>1. MayFail \subseteq BOOLEAN
  BY DEF MayFail
<1>2. temp \in Temps /\ temp.stream \in Seq(Chunks)
  BY DEF IInv, TypeOK, Temps
<1>3. CASE OpenAvi
  BY <1>3, OpenStarts
<1>4. CASE Frame
  BY <1>4, FrameAdds
<1>5. CASE \E a \in AudioLens : CloseData(a)
  BY <1>5, CloseDataAdds
<1>6. CASE \E fails \in MayFail : CloseHeader(fails)
  BY <1>6, CloseHeaderAdds
<1>7. CASE Crash
  BY <1>7, CrashLoses
<1>8. CASE \E fails \in MayFail : CloseName(fails)
  BY <1>1, <1>8, CloseNameEnds
<1>9. CASE WalkEnds
  BY <1>9, WalkEndsDiscards
<1>10. CASE \E try \in 1..RECOVER_NAMES, fails \in MayFail : FixName(try, fails)
  BY <1>1, <1>10, RenameKeeps DEF FixName, TempInv, Repairing
<1>11. CASE \/ EndCapture \/ (\E n \in MaxFramesOptions : SetMaxFrames(n))
            \/ (\E fails \in MayFail : RecoverBegin(fails)) \/ WalkChunk
            \/ UNCHANGED vars
  <2>1. temp' = temp /\ clips' = clips
    BY <1>11 DEF EndCapture, SetMaxFrames, RecoverBegin, WalkChunk, vars, names
  <2> QED
    BY <2>1 DEF StoreVars, SafeChunks
<1>12. CASE FixHeader \/ \E fails \in MayFail : CloseIndex(fails) \/ FixIndex(fails)
  <2>1. /\ temp'.there = temp.there /\ temp'.stream = temp.stream
        /\ temp'.durable = temp.durable /\ clips' = clips
    <3>1. CASE FixHeader \/ \E fails \in MayFail : CloseIndex(fails)
      BY <1>2, <3>1 DEF CloseIndex, FixHeader, Temps, names
    <3>2. CASE \E fails \in MayFail : FixIndex(fails)
      <4>1. SubSeq(temp.stream, 1, walk.n) = temp.stream
        BY <1>2, <3>2 DEF FixIndex, RepairInv, Repairing
      <4> QED
        BY <1>2, <3>2, <4>1 DEF FixIndex, Temps, names
    <3> QED
      BY <1>12, <3>1, <3>2
  <2> QED
    BY <2>1 DEF StoreVars, SafeChunks
<1> QED
  BY <1>3, <1>4, <1>5, <1>6, <1>7, <1>8, <1>9, <1>10, <1>11, <1>12
     DEF Next, Close, Recover

\* Recording, closing, losing power and recovering do what ClipStore says, as
\* long as recovery has room for its index, the clock does not go back and
\* opening and renaming succeed.
THEOREM StoreImplemented ==
    ASSUME FrameCountFits, ClockRepeats = FALSE, IOErrors = FALSE
    PROVE  Spec /\ []WalkHasRoom => ImplementsClipStore
<1>1. Init => Store!Init /\ SafeInv
  <2> SUFFICES ASSUME Init PROVE Store!Init /\ SafeInv
    OBVIOUS
  <2>1. temp = NoTemp /\ clips = {} /\ pc = "boot"
    BY DEF Init
  <2>2. ~temp.there /\ temp.stream = <<>>
    BY <2>1, EmptyAgrees
  <2>3. {i \in 1..Len(temp.stream) : ChunkEnd(temp.stream[i]) <= temp.durable} = {}
    BY <2>2
  <2>4. SafeChunks = 0
    BY <2>3, FS_EmptySet DEF SafeChunks
  <2>5. Ascending(temp.stream)
    BY <2>2 DEF Ascending
  <2> QED
    BY <2>1, <2>2, <2>4, <2>5 DEF Store!Init, SafeInv
<1>2. IInv /\ SafeInv /\ [Next]_vars => SafeInv'
  BY NextKeepsSafe
<1>3. IInv /\ IInv' /\ TempInv /\ RepairInv /\ NamingInv /\ SafeInv /\ [Next]_vars
        => [Store!Next]_StoreVars
  BY StepRefines
<1> QED
  BY <1>1, <1>2, <1>3, RecorderInvariant, TempHolds, RepairHolds, NamingHolds, PTL
     DEF Spec, ImplementsClipStore, Store!Spec, Store!storeVars, StoreVars

\* The same of the run's specification.
THEOREM LoweredStoreImplemented ==
    ASSUME FrameCountFits, SoundFits, ClockRepeats = FALSE, IOErrors = FALSE
    PROVE  MCSpec => ImplementsClipStore
  BY LoweredIsSpec, RecoveryHasRoom, StoreImplemented, PTL
=============================================================================
