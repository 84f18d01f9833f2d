--------------------------- MODULE PublisherAudio ---------------------------
(***************************************************************************)
(* Muting and recording on the publisher's page: what each handler of      *)
(* PublisherPage does to them beside its own work, the two buttons, and    *)
(* the recorder's timers.  The recorder takes the amplified stream, which  *)
(* the loss of the websocket does not end.                                 *)
(***************************************************************************)
EXTENDS PublisherPage

VARIABLES
    icon,          \* what the microphone button shows, "mic" or "mute"
    enabled,       \* there is an audioTrack, and it is enabled
    micEnabled,    \* the variable of this name
    recorder,      \* mediaRecorder: "none", "idle" or "on"
    forgotten,     \* a recorder that mediaRecorder held before is still on
    recording,     \* the variable of this name, and the record button
    wasRecording,  \* the variable of this name
    starting,      \* timers running whose handler is startRecording
    saved,         \* micEnabled and wasRecording of babelcast_settings
    muted          \* history: the user muted the page on air, and since then
                   \* it lost no websocket and was not refreshed

micState == <<icon, enabled, micEnabled>>
recState == <<recorder, recording, wasRecording, starting>>
audioVars == <<micState, recState, forgotten, saved, muted>>
allVars == <<vars, audioVars>>

AudioTypeOK ==
    /\ TypeOK
    /\ icon \in {"mic", "mute"}
    /\ enabled \in BOOLEAN /\ micEnabled \in BOOLEAN
    /\ enabled => mic # "none"
    /\ recorder \in {"none", "idle", "on"}
    /\ recording \in BOOLEAN /\ wasRecording \in BOOLEAN /\ forgotten \in BOOLEAN
    /\ starting \in Nat
    /\ saved \in [micEnabled : BOOLEAN, wasRecording : BOOLEAN]
    /\ muted \in BOOLEAN

AudioInit ==
    /\ Init
    /\ icon = "mic" /\ enabled = FALSE /\ micEnabled = TRUE
    /\ recorder = "none" /\ recording = FALSE /\ wasRecording = FALSE
    /\ starting = 0 /\ forgotten = FALSE
    /\ saved = [micEnabled |-> FALSE, wasRecording |-> FALSE]
    /\ muted = FALSE

-----------------------------------------------------------------------------
(* The buttons, which are shown with the output view.                      *)

\* Slip: the track's state is set though there is none.
MuteUnchecked(on) == enabled' = on

\* The audio track, if there is one, follows the button.
Mute(on) == enabled' = (on /\ mic # "none")

ToggleMic ==
    /\ form = "output"
    /\ icon' = IF icon = "mic" THEN "mute" ELSE "mic"
    /\ LET on == icon' = "mic" IN
       /\ Mute(on)
       /\ micEnabled' = on
       /\ muted' = (~on /\ (muted \/ (served = "onair" /\ ws = "open")))
    /\ UNCHANGED <<vars, recState, forgotten, saved>>

\* start() throws on a recorder that is on, and recording is left alone.
StartRecording ==
    IF recorder = "idle" THEN recorder' = "on" /\ recording' = TRUE
                         ELSE UNCHANGED <<recorder, recording>>

\* stop() does nothing to a recorder that is idle.
StopRecording ==
    IF recorder = "none" THEN UNCHANGED <<recorder, recording>>
                         ELSE recorder' = "idle" /\ recording' = FALSE

ToggleRecording ==
    /\ form = "output"
    /\ IF recording THEN StopRecording ELSE StartRecording
    /\ UNCHANGED <<vars, micState, wasRecording, starting, forgotten, saved, muted>>

StartTimerFires ==
    /\ starting > 0
    /\ starting' = starting - 1
    /\ StartRecording
    /\ UNCHANGED <<vars, micState, wasRecording, forgotten, saved, muted>>

\* Long silence: stopRecording and startRecording run back to back.
SilenceSplitsTake ==
    /\ recording
    /\ recorder' = "on"
    /\ UNCHANGED <<vars, micState, recording, wasRecording, starting>>
    /\ UNCHANGED <<forgotten, saved, muted>>

-----------------------------------------------------------------------------
(* What the page's handlers do to them.                                    *)

\* The page starts over.
LoadAudio ==
    /\ icon' = "mic" /\ enabled' = FALSE /\ micEnabled' = TRUE
    /\ recorder' = "none" /\ recording' = FALSE /\ wasRecording' = FALSE
    /\ starting' = 0 /\ forgotten' = FALSE

\* saveCurrentSettings before a reload.
SaveAudio ==
    /\ saved' = [micEnabled |-> enabled, wasRecording |-> recording]
    /\ LoadAudio
    /\ UNCHANGED muted

\* A reload that saves nothing.
ForgetAudio ==
    /\ LoadAudio
    /\ muted' = FALSE
    /\ UNCHANGED saved

\* Slip: a setting that is false counts for one that is missing.
RestoredMicOrOn == TRUE

\* What the track of the page's load is set to.
RestoredMic == IF stored = "none" THEN TRUE ELSE saved.micEnabled

\* new MediaRecorder, which throws where it is not supported: it is on the
\* stream of the new track.  The one before is not stopped: it may run on.
RecorderMade ==
    /\ recorder' = "idle"
    /\ forgotten' = (forgotten \/ recorder = "on")

\* getUserMedia resolves for the page's load.
LoadTrack ==
    /\ enabled' = RestoredMic
    /\ micEnabled' = RestoredMic
    /\ icon' = IF stored # "none" /\ RestoredMic THEN "mic" ELSE icon
    /\ wasRecording' = IF stored = "none" THEN wasRecording
                                          ELSE saved.wasRecording
    /\ \/ /\ RecorderMade
          /\ starting' = IF stored # "none" /\ saved.wasRecording
                           THEN starting + 1 ELSE starting
       \/ UNCHANGED <<recorder, starting, forgotten>>

\* getUserMedia resolves for a reconnect.
ReconnectTrack ==
    /\ enabled' = micEnabled
    /\ RecorderMade \/ UNCHANGED <<recorder, forgotten>>
    /\ UNCHANGED <<icon, micEnabled, wasRecording, starting>>

\* On a peer connection that was closed meanwhile addTrack throws, and the
\* new track stays as it comes: enabled.
UnwiredTrack == enabled' = TRUE /\ UNCHANGED <<icon, micEnabled, recState, forgotten>>

TrackArrives(by) ==
    /\ CASE ice = "closed" -> UnwiredTrack
         [] ice # "closed" /\ by = "load" -> LoadTrack
         [] OTHER -> ReconnectTrack
    /\ UNCHANGED <<recording, saved, muted>>

\* The handler of attemptReconnect, but not that of the page's load, takes
\* the recording up again and restores the microphone.
AudioConnects ==
    /\ starting' = IF ~first /\ wasRecording /\ recorder # "none" /\ ~recording
                     THEN starting + 1 ELSE starting
    /\ IF ~first /\ mic # "none" /\ micEnabled
         THEN enabled' = TRUE /\ icon' = "mic"
         ELSE UNCHANGED <<enabled, icon>>
    /\ UNCHANGED <<micEnabled, recorder, recording, wasRecording>>
    /\ UNCHANGED <<forgotten, saved, muted>>

\* Slip: the flag is reset, and the recorder runs on.
ForgetRecording ==
    /\ wasRecording' = recording
    /\ recording' = FALSE
    /\ UNCHANGED recorder

\* What startReconnectionTimer does when no timer is held.
PauseRecording ==
    /\ wasRecording' = recording
    /\ IF recording THEN StopRecording ELSE UNCHANGED <<recorder, recording>>

\* onclose runs startReconnectionTimer; onerror, when it came first, has
\* set the handle by then.
AudioLost(errorFirst) ==
    /\ IF handle \/ errorFirst
         THEN UNCHANGED <<recorder, recording, wasRecording>>
         ELSE PauseRecording
    /\ muted' = FALSE
    /\ UNCHANGED <<micState, starting, forgotten, saved>>

-----------------------------------------------------------------------------
Reloads == ReloadButton \/ IceFails \/ (IceTimerFires /\ TimerReloads)

\* The handlers that have no part in muting and recording.
Others ==
    \/ Submit
    \/ \E by \in asking : MicDenied(by)
    \/ SendOffer
    \/ IceDisconnects
    \/ IceTimerFires /\ ~TimerReloads
    \/ AutoConnect
    \/ AutoConnectExpires
    \/ AttemptReconnect
    \/ SocketOpens
    \/ SocketFails /\ ~first
    \/ ServerAnswers
    \/ ErrorMessage
    \/ InfoMessage

AudioNext ==
    \/ ToggleMic
    \/ ToggleRecording
    \/ StartTimerFires
    \/ SilenceSplitsTake
    \/ Reloads /\ SaveAudio
    \/ Refresh /\ ForgetAudio
    \/ \E by \in asking : MicGranted(by) /\ TrackArrives(by)
    \/ IceConnects /\ AudioConnects
    \/ SocketLost /\ \E errorFirst \in {~first, FALSE} : AudioLost(errorFirst)
    \/ SocketFails /\ first /\ AudioLost(FALSE)
    \/ Others /\ UNCHANGED audioVars

AudioSpec == AudioInit /\ [][AudioNext]_allVars

\* The timers and the network are as in FairSpec of PublisherPage.
AudioFairSpec ==
    /\ AudioSpec
    /\ WF_allVars(AttemptReconnect /\ UNCHANGED audioVars)
    /\ WF_allVars(/\ IceTimerFires
                  /\ IF TimerReloads THEN SaveAudio ELSE UNCHANGED audioVars)
    /\ SF_allVars(SocketOpens /\ UNCHANGED audioVars)

-----------------------------------------------------------------------------
\* Whom the user muted on air is not heard again until the user says so: not
\* after a recovered or failed ICE connection, nor through the page's own
\* reloads, which write the track's state to localStorage and give it to a
\* new track.
MutedIsSilent == muted => ~enabled

\* While mediaRecorder runs the record button shows it, so that the user can
\* stop it and get the file; and the page has no other that runs, until it
\* reconnects.  Then it may have: a recorder started before the new one came is
\* replaced while on, and runs on out of reach, whatever the button shows.
RecordingIsShown == (recorder = "on" => recording) /\ (forgotten => ~first)
=============================================================================
