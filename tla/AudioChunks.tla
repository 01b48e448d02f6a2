---------------------------- MODULE AudioChunks ----------------------------
(* The sound of a recording (audio.cpp, writeAudioChunk() of mjpeg2sd.cpp)  *)
(* and the sound stream of a remote recorder (streamServer.cpp).            *)
(*                                                                          *)
(* The audio task appends what the microphone delivers to the active half   *)
(* of a ping-pong pair; the capture task takes that half when it is worth   *)
(* a chunk, flips the pair, and writes what it took into the clip while the *)
(* audio task fills the other half.  The sender of the stream shares one    *)
(* buffer with the audio task, guarded only by the number of bytes in it.   *)
(*                                                                          *)
(* One read of the microphone is one sample, <<c, n>>: the n-th accepted    *)
(* for clip c.                                                              *)
EXTENDS Naturals, Sequences

CONSTANTS
    AUD_CHUNK_SIZE,  \* samples a half holds
    AUD_CHUNK_MIN,   \* samples worth a chunk of the file
    MaxHeard,        \* bound: samples read during one clip
    MaxSoundClips,   \* bound: clips
    AudioRaces       \* the orders that are switched on: "pastCheck", "startInCopy"

ASSUME AudioConstants ==
    /\ AUD_CHUNK_SIZE \in Nat /\ AUD_CHUNK_MIN \in Nat
    /\ MaxHeard \in Nat /\ MaxSoundClips \in Nat
    /\ AudioRaces \subseteq {"pastCheck", "startInCopy"}

VARIABLES
    micGain,      \* 0 is off: the user's choice, or the night mode's
    micRecording, audioActive, audioChunk, audioDropped,
    micStep,      \* the audio task: "read", "loaded", "checked", "accepted", "copy"
    clipSound,    \* the capture task: "closed", "open", "writing", "finished", "last"
    handed,       \* the half the capture task is writing out
    clipNo, heard, written,
    audioBytes,   \* the mark on the stream's buffer: "none", "stop", "wav", "pcm"
    audioBuffer,  \* what it holds: "wav", "pcm"
    listener,     \* the sender: "off", "starting", "waiting", "sending"
    headed        \* the header of this stream has been sent

recorder == <<micRecording, audioActive, audioChunk, audioDropped>>
clip == <<clipSound, handed, clipNo, heard, written>>
stream == <<audioBytes, audioBuffer, listener, headed>>
audioVars == <<micGain, recorder, micStep, clip, stream>>

Halves == {0, 1}
Other(h) == 1 - h

(* prepAudio() found a microphone and memory for both halves. *)
AudioInit ==
    /\ micGain \in {0, 5} /\ micRecording = FALSE
    /\ audioActive = 0 /\ audioChunk = [h \in Halves |-> << >>] /\ audioDropped = 0
    /\ micStep = "read"
    /\ clipSound = "closed" /\ handed = 1 /\ clipNo = 0 /\ heard = << >> /\ written = << >>
    /\ audioBytes = "none" /\ audioBuffer = "pcm" /\ listener = "off" /\ headed = FALSE

(* The gain is read when a clip opens and by applyMicGain(), never to stop. *)
SetGain ==
    /\ micGain' \in {0, 5} \ {micGain}
    /\ UNCHANGED <<recorder, micStep, clip, stream>>

---------------------------------------------------------------------------
(* camActions(), the loop of the audio task *)

ReadMic ==
    /\ micStep = "read"
    /\ IF micRecording THEN Len(heard) + audioDropped < MaxHeard ELSE audioBytes = "none"
    /\ micStep' = "loaded"
    /\ UNCHANGED <<micGain, recorder, clip, stream>>

CheckRecording ==
    /\ micStep = "loaded"
    /\ micStep' = IF micRecording THEN "checked" ELSE "accepted"
    /\ UNCHANGED <<micGain, recorder, clip, stream>>

HasRoom == Len(audioChunk[audioActive]) + 1 <= AUD_CHUNK_SIZE

(* Under the mutex: append to the active half, or drop what a full one has no room for. *)
Append1 ==
    /\ micStep = "checked"
    /\ LET sample == <<clipNo, Len(heard)>> IN
       IF HasRoom
       THEN /\ audioChunk' = [audioChunk EXCEPT ![audioActive] = Append(@, sample)]
            /\ heard' = IF micRecording THEN Append(heard, sample) ELSE heard
            /\ UNCHANGED audioDropped
       ELSE audioDropped' = audioDropped + 1 /\ UNCHANGED <<audioChunk, heard>>
    /\ micStep' = "accepted"
    /\ UNCHANGED <<micGain, micRecording, audioActive, clipSound, handed, clipNo, written, stream>>

(* The stream's buffer is filled only when nothing in it is waiting to be sent. *)
Share ==
    /\ micStep = "accepted"
    /\ micStep' = IF audioBytes = "none" THEN "copy" ELSE "read"
    /\ UNCHANGED <<micGain, recorder, clip, stream>>

CopyToStream ==
    /\ micStep = "copy" /\ micStep' = "read"
    /\ audioBuffer' = "pcm" /\ audioBytes' = "pcm"
    /\ UNCHANGED <<micGain, recorder, clip, listener, headed>>

---------------------------------------------------------------------------
(* The capture task: openAvi(), saveFrame(), closeAvi() *)

StartAudioRecord ==
    /\ clipSound = "closed" /\ clipNo < MaxSoundClips
    /\ clipNo' = clipNo + 1 /\ clipSound' = "open" /\ heard' = << >> /\ written' = << >>
    /\ IF micGain # 0
       THEN /\ micRecording' = TRUE
            /\ audioChunk' = [h \in Halves |-> << >>] /\ audioDropped' = 0
       ELSE micRecording' = FALSE /\ UNCHANGED <<audioChunk, audioDropped>>
    /\ UNCHANGED <<micGain, audioActive, micStep, handed, stream>>

GetAudioChunkKeep(minLen) == \* MUTANT of GetAudioChunk: the other half keeps its length
    /\ audioChunk[audioActive] # << >> /\ Len(audioChunk[audioActive]) >= minLen
    /\ audioActive' = Other(audioActive) /\ UNCHANGED audioChunk
    /\ handed' = audioActive

(* Flip the pair and hand out the half that was being filled. *)
GetAudioChunk(minLen) ==
    /\ audioChunk[audioActive] # << >> /\ Len(audioChunk[audioActive]) >= minLen
    /\ audioActive' = Other(audioActive)
    /\ audioChunk' = [audioChunk EXCEPT ![Other(audioActive)] = << >>]
    /\ handed' = audioActive

TakeChunk ==
    /\ clipSound = "open" /\ GetAudioChunk(AUD_CHUNK_MIN)
    /\ clipSound' = "writing"
    /\ UNCHANGED <<micGain, micRecording, audioDropped, micStep, clipNo, heard, written, stream>>

WriteAudioChunk ==
    /\ clipSound \in {"writing", "last"}
    /\ written' = written \o audioChunk[handed]
    /\ clipSound' = IF clipSound = "writing" THEN "open" ELSE "closed"
    /\ UNCHANGED <<micGain, recorder, micStep, handed, clipNo, heard, stream>>

(* The audio task is not between its test of micRecording and the mutex,    *)
(* unless "pastCheck" lets it be overtaken there.                           *)
FinishAudioRecord ==
    /\ clipSound = "open" /\ ("pastCheck" \in AudioRaces \/ micStep # "checked")
    /\ micRecording' = FALSE /\ clipSound' = "finished"
    /\ UNCHANGED <<micGain, audioActive, audioChunk, audioDropped, micStep, handed,
                   clipNo, heard, written, stream>>

(* writeAudioChunk(0) forces out what is left. *)
DrainLast ==
    /\ clipSound = "finished"
    /\ IF audioChunk[audioActive] = << >>
       THEN clipSound' = "closed" /\ UNCHANGED <<audioActive, audioChunk, handed>>
       ELSE clipSound' = "last" /\ GetAudioChunk(0)
    /\ UNCHANGED <<micGain, micRecording, audioDropped, micStep, clipNo, heard, written, stream>>

---------------------------------------------------------------------------
(* audioStream(), the sender of the sound stream *)

StartListening ==
    /\ listener = "off" /\ micGain # 0 /\ ("startInCopy" \in AudioRaces \/ micStep # "copy")
    /\ listener' = "starting" /\ headed' = FALSE /\ audioBytes' = "wav"
    /\ UNCHANGED <<micGain, recorder, micStep, clip, audioBuffer>>

UpdateWavHeader ==
    /\ listener = "starting" /\ listener' = "waiting" /\ audioBuffer' = "wav"
    /\ UNCHANGED <<micGain, recorder, micStep, clip, audioBytes, headed>>

SendSound ==
    /\ listener = "waiting" /\ audioBytes # "none" /\ listener' = "sending"
    /\ UNCHANGED <<micGain, recorder, micStep, clip, audioBytes, audioBuffer, headed>>

SoundSent ==
    /\ listener = "sending" /\ listener' = "waiting" /\ headed' = TRUE /\ audioBytes' = "none"
    /\ UNCHANGED <<micGain, recorder, micStep, clip, audioBuffer>>

(* The client has gone, or the stream was stopped. *)
StopListening ==
    /\ listener = "waiting" /\ listener' = "off" /\ audioBytes' = "stop"
    /\ UNCHANGED <<micGain, recorder, micStep, clip, audioBuffer, headed>>

AudioTask == ReadMic \/ CheckRecording \/ Append1 \/ Share \/ CopyToStream
ClipAudio == StartAudioRecord \/ TakeChunk \/ WriteAudioChunk \/ FinishAudioRecord \/ DrainLast
AudioStream == StartListening \/ UpdateWavHeader \/ SendSound \/ SoundSent \/ StopListening

AudioNext == SetGain \/ AudioTask \/ ClipAudio \/ AudioStream
AudioSpec == AudioInit /\ [][AudioNext]_audioVars

---------------------------------------------------------------------------
(* What the capture task and the audio task still owe the clip. *)
Pending == IF clipSound \in {"writing", "last"}
           THEN audioChunk[handed] \o audioChunk[audioActive]
           ELSE audioChunk[audioActive]

(* A clip gets every sample accepted while it was recorded, in order, once,  *)
(* and nothing that was left from another clip - a clip recorded with the    *)
(* microphone off has no sound at all: getAudioChunk(), camActions(),        *)
(* startAudioRecord() and the drain of closeAvi() together.                  *)
SoundWhole ==
    IF clipSound = "closed" THEN written = heard ELSE written \o Pending = heard

(* What the sender hands to the network does not change while it is sent,    *)
(* and what a stream sends first is the WAV header (audioStream() against    *)
(* camActions(), which share the buffer without a lock).                     *)
StreamWhole ==
    [][ /\ (listener = "sending" /\ listener' = "sending") => UNCHANGED audioBuffer
        /\ (listener = "waiting" /\ listener' = "sending" /\ ~headed) => audioBuffer = "wav"
      ]_audioVars
=============================================================================
