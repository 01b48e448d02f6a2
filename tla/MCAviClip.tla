----------------------------- MODULE MCAviClip -----------------------------
(* Instances of AviClip for TLC.  33001 bytes (33004 once padded) is more  *)
(* than one write block, so a frame moves the file past a block boundary;  *)
(* 9000 bytes is a full audio chunk, and 0 a muted microphone.             *)
EXTENDS AviClip

MCFrameLens == {33001}
MCAudioLens == {0, 9000}

(* maxFrames is lowered between recordings only: recovery of a clip that is *)
(* longer than the cap of its boot is the known divergence of the README.   *)
LoweredBetweenClips == maxFrames' < maxFrames => pc = "idle" /\ ~temp.there

\* Chunks per frame, and an index that has room for them: always without sound,
\* with an audio chunk for every frame only under a small cap ("Below 4fps audio
\* does need an entry per frame").
ChunksPerFrame == IF \A a \in AudioLens : a < AUD_CHUNK_MIN THEN 1 ELSE 2
SoundFits == \A m \in MaxFramesOptions : ChunksFit(ChunksPerFrame * m + 1, m)

MCSpec ==
    /\ Init /\ [][Next /\ LoweredBetweenClips]_vars
    /\ WF_vars(Frame) /\ WF_vars(Close) /\ WF_vars(Recover)
=============================================================================
