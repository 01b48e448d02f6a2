----------------------------- MODULE MCPlayback -----------------------------
(* Playback in calm weather - no other request, a browser that keeps up, a  *)
(* prompt card - and in a storm of everything its constants can switch on.  *)
EXTENDS Playback

Storm == INSTANCE Playback WITH
    Clusters <- 1, ClipFrames <- 1, MaxRecordings <- 1, MaxPlays <- 2, MaxRequests <- 1,
    Requests <- {"stop", "select", "head", "delete"},
    SlowBrowser <- TRUE, SendErrors <- TRUE, OpenFails <- TRUE,
    OpenRaces <- TRUE, SlowCard <- TRUE, LateReader <- TRUE

VARIABLE weather

WeatherInit == weather \in {"calm", "storm"} /\ Init

WeatherNext ==
    /\ UNCHANGED weather
    /\ \/ weather = "calm" /\ Next
       \/ weather = "storm" /\ Storm!Next

Either(calm, stormy) == IF weather = "calm" THEN calm ELSE stormy

(* Fairness of Playback, of the actions that the weather allows.            *)
WeatherFairness ==
    /\ WF_vars(BlockPlayback \/ OpenAvi) /\ WF_vars(Either(EndCapture, Storm!EndCapture))
    /\ WF_vars(FillIndex \/ WriteIndex \/ AllowPlayback)
    /\ WF_vars(Either(Sender, Storm!Sender)) /\ WF_vars(Either(Sent, Sent \/ Storm!SendFails))
    /\ WF_vars(Either(Reader, Storm!Reader)) /\ WF_vars(FrameISR)
    /\ \A t \in Tasks : WF_vars(StopEnds(t) \/ Either(StopForces(t), Storm!StopForces(t)))
    /\ WF_vars(WebStopped)

WeatherSpec == WeatherInit /\ [][WeatherNext]_<<vars, weather>> /\ WeatherFairness

(* The properties of Playback that a storm is known to break.               *)

(* In calm weather no playback touches the frame count and the rate of a     *)
(* recording, which it shares the variables with (RecordingUndisturbed).     *)
CalmUndisturbed == weather = "calm" => RecordingUndisturbed

(* In calm weather the buffer closeAvi() writes the index from is not read   *)
(* into by a playback (IndexBufferIsIdle).                                   *)
CalmIndexBuffer == weather = "calm" => IndexBufferIsIdle

(* In calm weather a playback that has ended has given the frame rate back   *)
(* (PlaybackGivesBack).                                                      *)
CalmGivesBack == weather = "calm" => PlaybackGivesBack
=============================================================================
