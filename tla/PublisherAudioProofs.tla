------------------------ MODULE PublisherAudioProofs ------------------------
(***************************************************************************)
(* Proofs about PublisherAudio.  Muting and recording leave the page's     *)
(* protocol as it is: each step of AudioNext is one of PublisherPage's, or *)
(* none of its own, so what is proved of that page holds here.             *)
(* MutedIsSilent is not inductive: the track of a page that reloads gets   *)
(* what localStorage says, if it says anything.  Kept adds that it does    *)
(* until the track is there, and that it says so.                          *)
(***************************************************************************)
EXTENDS PublisherAudio, PublisherPageProofs

\* A session is one of the page's first socket, and of the track of its load.
FirstSession ==
    /\ served \in Answering => first /\ "load" \notin asking
    /\ first /\ mic # "none" => "load" \notin asking

Kept ==
    muted => /\ ~enabled
             /\ stored # "none" => ~saved.micEnabled
             /\ "load" \in asking => stored # "none"
             /\ first /\ ws # "closed"

\* Each step is a step of the page, or changes nothing of it.
LEMMA StepOfPage == [AudioNext]_allVars => [Next]_vars
<1> SUFFICES ASSUME AudioNext PROVE [Next]_vars
    BY DEF allVars
<1>1. CASE ToggleMic \/ ToggleRecording \/ StartTimerFires \/ SilenceSplitsTake
  BY <1>1, Zenon DEF ToggleMic, ToggleRecording, StartTimerFires, SilenceSplitsTake
<1>2. CASE Reloads
  BY <1>2, Zenon DEF Reloads, Next, User, Browser
<1>3. CASE Refresh \/ (\E by \in asking : MicGranted(by))
  BY <1>3, Zenon DEF Next, User
<1>4. CASE IceConnects
  BY <1>4, Zenon DEF Next, Browser
<1>5. CASE SocketLost \/ SocketFails
  BY <1>5, Zenon DEF Next, Network
<1>6. CASE Others
  BY <1>6, Zenon DEF Others, Next, User, Browser, Network
<1> QED BY <1>1, <1>2, <1>3, <1>4, <1>5, <1>6, Zenon DEF AudioNext

\* The page with its audio implements the page.
THEOREM ImplementsPage == AudioSpec => Spec
<1>1. AudioInit => Init
  BY DEF AudioInit
<1> QED BY <1>1, StepOfPage, PTL DEF AudioSpec, Spec

LEMMA FirstStep ==
    TypeOK /\ Unrestored /\ FirstSession /\ [Next]_vars => FirstSession'
<1> SUFFICES ASSUME TypeOK, Unrestored, FirstSession, [Next]_vars
             PROVE  FirstSession'
    OBVIOUS
<1> USE DEF TypeOK, Unrestored, FirstSession, Answering,
            connVars, retryVars, micVars, channelVars, pageVars
<1>1. ASSUME LoadPage PROVE FirstSession'
  BY <1>1 DEF LoadPage
<1>2. CASE User
  <2>1. ASSUME NEW by \in asking, MicGranted(by) \/ MicDenied(by)
        PROVE  FirstSession'
    BY <2>1 DEF MicGranted, MicDenied
  <2>2. CASE Submit
    BY <2>2 DEF Submit, ConnectToChannel, AskServer, Delivered
  <2> QED BY <1>1, <1>2, <2>1, <2>2 DEF User, ReloadButton, Refresh, SaveAndReload
<1>3. CASE Browser
  <2>1. CASE SendOffer
    BY <2>1 DEF SendOffer, Delivered
  <2>2. CASE IceConnects \/ AutoConnect
    BY <2>2 DEF IceConnects, AutoConnect, ConnectToChannel, AskServer, Delivered
  <2>3. CASE IceDisconnects \/ AutoConnectExpires \/ AttemptReconnect
    BY <2>3 DEF IceDisconnects, AutoConnectExpires, AttemptReconnect
  <2>4. CASE IceFails \/ IceTimerFires
    BY <1>1, <2>4 DEF IceFails, IceTimerFires, SaveAndReload
  <2> QED BY <1>3, <2>1, <2>2, <2>3, <2>4 DEF Browser
<1>4. CASE Network
  <2>1. CASE SocketOpens
    BY <2>1 DEF SocketOpens
  <2>2. CASE SocketFails \/ SocketLost
    <3>1. UNCHANGED <<first, asking, served>>
      BY <2>2, Zenon DEF SocketFails, SocketLost
    <3>2. mic' = mic \/ (mic # "none" /\ mic' = "stopped")
      BY <2>2 DEF SocketFails, SocketLost, SocketClosed
    <3> QED BY <3>1, <3>2
  <2>3. CASE ServerAnswers \/ ErrorMessage \/ InfoMessage
    BY <2>3 DEF ServerAnswers, ErrorMessage, InfoMessage
  <2> QED BY <1>4, <2>1, <2>2, <2>3 DEF Network
<1> QED BY <1>2, <1>3, <1>4 DEF Next, vars

\* What Kept says of the page's own variables is not disturbed by a handler
\* without a part in muting: no new page, no new track, no lost socket.
LEMMA OthersStep ==
    ASSUME TypeOK, OneReconnect, FirstSession, Kept,
           Others \/ IceConnects, UNCHANGED <<muted, enabled, saved>>
    PROVE  Kept'
<1>1. /\ asking' \subseteq asking \cup {"reconnect"}
      /\ stored' = stored
  BY DEF TypeOK, Others, Submit, MicDenied, SendOffer, IceConnects, IceDisconnects, IceTimerFires,
         AutoConnect, AutoConnectExpires, AttemptReconnect, SocketOpens, SocketFails,
         ServerAnswers, ErrorMessage, InfoMessage, retryVars, micVars, channelVars, pageVars
<1>2. muted => first' = first /\ ws' # "closed"
  <2> SUFFICES ASSUME muted PROVE first' = first /\ ws' # "closed"
      OBVIOUS
  <2>1. first /\ ws # "closed"
    BY Zenon DEF Kept
  <2>2. ~AttemptReconnect
    BY <2>1 DEF AttemptReconnect, OneReconnect, TypeOK
  <2> QED
    BY <2>1, <2>2 DEF Others, Submit, MicDenied, SendOffer, IceConnects, IceDisconnects,
         IceTimerFires, AutoConnect, AutoConnectExpires, SocketOpens, SocketFails, connVars,
         ServerAnswers, ErrorMessage, InfoMessage, retryVars, pageVars
<1>3. "load" \in asking' => "load" \in asking
  BY <1>1
<1> QED BY <1>1, <1>2, <1>3, Zenon DEF Kept

LEMMA KeptStep == IInv /\ FirstSession /\ Kept /\ [AudioNext]_allVars => Kept'
<1> SUFFICES ASSUME TypeOK, OneReconnect, Unrestored, FirstSession, Kept,
                    [AudioNext]_allVars
             PROVE  Kept'
    BY DEF IInv
<1>1. CASE ToggleMic
  <2>1. UNCHANGED <<first, ws, asking, stored, saved>>
    BY <1>1, Zenon DEF ToggleMic, vars, connVars, pageVars, retryVars, micVars, channelVars
  <2>2. muted' => ~enabled'
    BY <1>1, Zenon DEF ToggleMic, Mute
  <2>3. muted' => muted \/ (served = "onair" /\ ws = "open")
    BY <1>1, Zenon DEF ToggleMic
  <2>4. served = "onair" => first /\ "load" \notin asking /\ stored = "none"
    BY DEF FirstSession, Unrestored, Answering
  <2>5. ws = "open" => ws # "closed"
    OBVIOUS
  <2> QED BY <2>1, <2>2, <2>3, <2>4, <2>5, Zenon DEF Kept
<1>2. CASE ToggleRecording \/ StartTimerFires \/ SilenceSplitsTake \/ UNCHANGED allVars
  <2>1. UNCHANGED <<first, ws, asking, stored, saved, enabled, muted>>
    BY <1>2, Zenon DEF ToggleRecording, StartTimerFires, SilenceSplitsTake, allVars, audioVars,
         micState, vars, connVars, pageVars, retryVars, micVars, channelVars
  <2> QED BY <2>1, Zenon DEF Kept
<1>3. CASE Reloads /\ SaveAudio
  <2>1. SaveAndReload
    BY <1>3, Zenon DEF Reloads, ReloadButton, IceFails, IceTimerFires
  <2>2. /\ first' = TRUE /\ stored' # "none"
        /\ ws' # "closed"
    BY <2>1 DEF SaveAndReload, LoadPage, InitializeCommon
  <2>3. /\ muted' = muted /\ enabled' = FALSE
        /\ saved' = [micEnabled |-> enabled, wasRecording |-> recording]
    BY <1>3, Zenon DEF SaveAudio, LoadAudio
  <2>4. saved'.micEnabled = enabled
    BY <2>3
  <2> QED BY <2>2, <2>3, <2>4, Zenon DEF Kept
<1>4. CASE Refresh /\ ForgetAudio
  BY <1>4, Zenon DEF ForgetAudio, Kept
<1>5. ASSUME NEW by \in asking, MicGranted(by), TrackArrives(by) PROVE Kept'
  <2> SUFFICES ASSUME muted' PROVE Kept'
      BY Zenon DEF Kept
  <2>1. muted /\ saved' = saved
    BY <1>5, Zenon DEF TrackArrives
  <2>2. /\ ~saved.micEnabled \/ stored = "none"
        /\ first /\ ws # "closed"
        /\ "load" \in asking => stored # "none"
    BY <2>1, Zenon DEF Kept
  <2>3. by = "load" /\ ice # "closed"
    BY <2>2 DEF Unrestored, TypeOK
  <2>4. LoadTrack
    BY <1>5, <2>3, Zenon DEF TrackArrives
  <2>5. ~enabled'
    BY <2>2, <2>3, <2>4, Zenon DEF LoadTrack, RestoredMic
  <2>6. /\ "load" \notin asking'
        /\ stored' = "none"
        /\ first' = first /\ ws' = ws
    BY <1>5, <2>3 DEF MicGranted, RestoreSettings, connVars, retryVars
  <2> QED BY <2>2, <2>5, <2>6, Zenon DEF Kept
<1>6. CASE IceConnects /\ AudioConnects
  <2> SUFFICES ASSUME muted' PROVE Kept'
      BY Zenon DEF Kept
  <2>1. muted
    BY <1>6, Zenon DEF AudioConnects
  <2>2. UNCHANGED <<muted, enabled, saved>>
    BY <1>6, <2>1, Zenon DEF AudioConnects, Kept
  <2> QED BY <1>6, <2>2, OthersStep
<1>7. CASE SocketLost /\ \E errorFirst \in {~first, FALSE} : AudioLost(errorFirst)
  BY <1>7, Zenon DEF AudioLost, Kept
<1>8. CASE SocketFails /\ first /\ AudioLost(FALSE)
  BY <1>8, Zenon DEF AudioLost, Kept
<1>9. CASE Others /\ UNCHANGED audioVars
  <2>1. UNCHANGED <<muted, enabled, saved>>
    BY <1>9, Zenon DEF audioVars, micState
  <2> QED BY <1>9, <2>1, OthersStep
<1> QED
  BY <1>1, <1>2, <1>3, <1>4, <1>5, <1>6, <1>7, <1>8, <1>9, Zenon DEF AudioNext

LEMMA AudioInvariant == AudioSpec => [](FirstSession /\ Kept)
<1>1. AudioInit => FirstSession /\ Kept
  <2>1. AudioInit => FirstSession
    BY DEF AudioInit, Init, FirstSession, Answering
  <2>2. AudioInit => Kept
    BY Zenon DEF AudioInit, Kept
  <2> QED BY <2>1, <2>2
<1>2. /\ IInv /\ FirstSession /\ Kept /\ [AudioNext]_allVars
      => (FirstSession /\ Kept)'
  BY StepOfPage, FirstStep, KeptStep DEF IInv
<1>3. AudioSpec => []IInv
  BY ImplementsPage, InductiveInvariant, PTL
<1> QED BY <1>1, <1>2, <1>3, PTL DEF AudioSpec

\* Whoever was muted on air stays silent through recovered and failed ICE
\* connections and the page's own reloads.
THEOREM StaysMuted == AudioSpec => []MutedIsSilent
<1>1. Kept => MutedIsSilent
  BY Zenon DEF Kept, MutedIsSilent
<1> QED BY <1>1, AudioInvariant, PTL

\* A page on its first socket asks for one microphone, and has no recorder to
\* replace until it gets it.
FirstRecorder ==
    /\ first => ~forgotten /\ "reconnect" \notin asking
    /\ first /\ "load" \in asking => recorder = "none" /\ ~recording

\* A handler without a part in recording asks for no microphone on the first
\* socket.
LEMMA AskingStep ==
    ASSUME TypeOK, Others \/ IceConnects \/ UNCHANGED vars, first'
    PROVE  first /\ asking' \subseteq asking
<1> USE DEF connVars, retryVars, micVars, channelVars, pageVars
<1>1. ASSUME UNCHANGED <<first, asking>> PROVE first /\ asking' \subseteq asking
  BY <1>1
<1>2. CASE IceConnects \/ UNCHANGED vars
  BY <1>1, <1>2, Zenon DEF IceConnects, vars
<1>3. CASE Others
  <2>1. CASE \E by \in asking : MicDenied(by)
    BY <2>1 DEF MicDenied
  <2>2. CASE SocketOpens \/ AttemptReconnect
    BY <2>2 DEF SocketOpens, AttemptReconnect
  <2>3. CASE Submit \/ SendOffer \/ IceDisconnects \/ (IceTimerFires /\ ~TimerReloads)
    BY <1>1, <2>3, Zenon DEF Submit, SendOffer, IceDisconnects, IceTimerFires
  <2>4. CASE AutoConnect \/ AutoConnectExpires \/ SocketFails
    BY <1>1, <2>4, Zenon DEF AutoConnect, AutoConnectExpires, SocketFails
  <2>5. CASE ServerAnswers \/ ErrorMessage \/ InfoMessage
    BY <1>1, <2>5, Zenon DEF ServerAnswers, ErrorMessage, InfoMessage
  <2> QED BY <1>3, <2>1, <2>2, <2>3, <2>4, <2>5, Zenon DEF Others
<1> QED BY <1>2, <1>3

LEMMA RecorderStep ==
    TypeOK /\ FirstRecorder /\ [AudioNext]_allVars => FirstRecorder'
<1> SUFFICES ASSUME TypeOK, FirstRecorder, [AudioNext]_allVars, first'
             PROVE  FirstRecorder'
    BY Zenon DEF FirstRecorder
<1>1. ASSUME SaveAndReload \/ Refresh, LoadAudio PROVE FirstRecorder'
  <2>1. "reconnect" \notin asking'
    BY <1>1 DEF SaveAndReload, Refresh, LoadPage
  <2> QED BY <1>1, <2>1, Zenon DEF LoadAudio, FirstRecorder
<1>2. ASSUME UNCHANGED <<recorder, recording, forgotten>>,
             Others \/ IceConnects \/ UNCHANGED vars
      PROVE  FirstRecorder'
  <2>1. first /\ asking' \subseteq asking
    BY <1>2, AskingStep
  <2>2. /\ "load" \in asking' => "load" \in asking
        /\ "reconnect" \in asking' => "reconnect" \in asking
    BY <2>1
  <2> QED BY <1>2, <2>1, <2>2, Zenon DEF FirstRecorder
<1>3. CASE ToggleRecording \/ StartTimerFires \/ SilenceSplitsTake
  <2>1. UNCHANGED <<first, asking, forgotten>>
    BY <1>3, Zenon DEF ToggleRecording, StartTimerFires, SilenceSplitsTake, vars, pageVars,
       retryVars, micVars
  <2>2. ~recording /\ recorder = "none" => ~recording' /\ recorder' = "none"
    <3>1. "none" # "idle"
      OBVIOUS
    <3> QED BY <1>3, <3>1, Zenon DEF ToggleRecording, StartTimerFires, SilenceSplitsTake,
               StartRecording, StopRecording
  <2> QED BY <2>1, <2>2, Zenon DEF FirstRecorder
<1>4. ASSUME NEW by \in asking, MicGranted(by), TrackArrives(by) PROVE FirstRecorder'
  <2>1. first /\ asking' = asking \ {by}
    BY <1>4, Zenon DEF MicGranted, retryVars
  <2>2. by = "load" /\ recorder = "none" /\ ~recording /\ ~forgotten
    BY <2>1, Zenon DEF FirstRecorder, TypeOK
  <2>3. "load" \notin asking' /\ "reconnect" \notin asking'
    BY <2>1, <2>2 DEF FirstRecorder
  <2>4. "none" # "on"
    OBVIOUS
  <2>5. ~forgotten'
    BY <1>4, <2>2, <2>4, Zenon DEF TrackArrives, UnwiredTrack, LoadTrack, ReconnectTrack, RecorderMade
  <2> QED BY <2>3, <2>5, Zenon DEF FirstRecorder
<1>5. CASE Reloads /\ SaveAudio
  <2>1. SaveAndReload
    BY <1>5, Zenon DEF Reloads, ReloadButton, IceFails, IceTimerFires
  <2> QED BY <1>1, <1>5, <2>1, Zenon DEF SaveAudio
<1>6. CASE Refresh /\ ForgetAudio
  BY <1>1, <1>6, Zenon DEF ForgetAudio
<1>7. ASSUME SocketLost \/ SocketFails, NEW errorFirst, AudioLost(errorFirst)
      PROVE  FirstRecorder'
  <2>1. UNCHANGED <<first, asking, forgotten>>
    BY <1>7, Zenon DEF SocketLost, SocketFails, AudioLost
  <2>2. ~recording /\ recorder = "none" => ~recording' /\ recorder' = "none"
    BY <1>7, Zenon DEF AudioLost, PauseRecording
  <2> QED BY <2>1, <2>2, Zenon DEF FirstRecorder
<1>8. CASE \/ IceConnects /\ AudioConnects
           \/ Others /\ UNCHANGED audioVars
           \/ ToggleMic \/ UNCHANGED allVars
  <2>1. UNCHANGED <<recorder, recording, forgotten>>
    BY <1>8, Zenon DEF AudioConnects, ToggleMic, allVars, audioVars, recState
  <2>2. Others \/ IceConnects \/ UNCHANGED vars
    BY <1>8, Zenon DEF ToggleMic, allVars
  <2> QED BY <1>2, <2>1, <2>2
<1> QED BY <1>3, <1>4, <1>5, <1>6, <1>7, <1>8, Zenon DEF AudioNext

\* The button shows the recorder that mediaRecorder holds whenever it runs, and
\* no other runs on a page that has not reconnected.
THEOREM ShowsRecording == AudioSpec => []RecordingIsShown
<1> DEFINE Shown == recorder = "on" => recording
<1>1. AudioInit => Shown /\ FirstRecorder
  BY DEF AudioInit, Init, FirstRecorder
<1>2. Shown /\ [AudioNext]_allVars => Shown'
  <2> SUFFICES ASSUME Shown, [AudioNext]_allVars
               PROVE  Shown'
      OBVIOUS
  <2>1. ASSUME StartRecording \/ StopRecording PROVE Shown'
    BY <2>1 DEF StartRecording, StopRecording
  <2>2. CASE ToggleRecording \/ StartTimerFires
    BY <2>1, <2>2, Zenon DEF ToggleRecording, StartTimerFires
  <2>3. CASE SilenceSplitsTake
    BY <2>3, Zenon DEF SilenceSplitsTake
  <2>4. ASSUME LoadAudio PROVE Shown'
    BY <2>4 DEF LoadAudio
  <2>5. ASSUME NEW by, TrackArrives(by) PROVE Shown'
    <3>1. recorder' \in {recorder, "idle"} /\ recording' = recording
      BY <2>5, Zenon DEF TrackArrives, UnwiredTrack, LoadTrack, ReconnectTrack, RecorderMade,
           recState
    <3> QED BY <3>1
  <2>6. ASSUME NEW errorFirst, AudioLost(errorFirst) PROVE Shown'
    BY <2>1, <2>6, Zenon DEF AudioLost, PauseRecording
  <2>7. ASSUME UNCHANGED <<recorder, recording>> PROVE Shown'
    BY <2>7
  <2> QED
    BY <2>2, <2>3, <2>4, <2>5, <2>6, <2>7, Zenon DEF AudioNext, ToggleMic, SaveAudio,
       ForgetAudio, AudioConnects, audioVars, allVars, recState
<1>3. Shown /\ FirstRecorder => RecordingIsShown
  BY Zenon DEF FirstRecorder, RecordingIsShown
<1>4. AudioSpec => []TypeOK
  BY ImplementsPage, TypeCorrect, PTL
<1> QED BY <1>1, <1>2, <1>3, <1>4, RecorderStep, PTL DEF AudioSpec

\* What AudioTypeOK adds to TypeOK, in three parts: Boolean-valued variables,
\* the others, and what relates the track to the page.
AudioFlags ==
    /\ enabled \in BOOLEAN /\ micEnabled \in BOOLEAN /\ recording \in BOOLEAN
    /\ wasRecording \in BOOLEAN /\ muted \in BOOLEAN /\ forgotten \in BOOLEAN
    /\ saved \in [micEnabled : BOOLEAN, wasRecording : BOOLEAN]

AudioValues ==
    /\ icon \in {"mic", "mute"}
    /\ recorder \in {"none", "idle", "on"}
    /\ starting \in Nat

HasTrack == enabled => mic # "none"

LEMMA AudioFlagStep == AudioTypeOK /\ [AudioNext]_allVars => AudioFlags'
<1> SUFFICES ASSUME AudioTypeOK, [AudioNext]_allVars PROVE AudioFlags'
    OBVIOUS
<1>0. AudioFlags
  BY Zenon DEF AudioTypeOK, AudioFlags
<1>1. CASE ToggleMic
  BY <1>0, <1>1, Zenon DEF AudioFlags, ToggleMic, Mute, recState
<1>2. CASE ToggleRecording \/ StartTimerFires \/ SilenceSplitsTake
  BY <1>0, <1>2, Zenon DEF AudioFlags, ToggleRecording, StartTimerFires, SilenceSplitsTake,
     StartRecording, StopRecording, micState
<1>3. CASE SaveAudio
  <2>1. saved' \in [micEnabled : BOOLEAN, wasRecording : BOOLEAN]
    BY <1>0, <1>3, Zenon DEF AudioFlags, SaveAudio
  <2> QED BY <1>0, <1>3, <2>1, Zenon DEF AudioFlags, SaveAudio, LoadAudio
<1>4. CASE ForgetAudio
  BY <1>0, <1>4, Zenon DEF AudioFlags, ForgetAudio, LoadAudio
<1>5. ASSUME NEW by, TrackArrives(by) PROVE AudioFlags'
  <2>1. saved.micEnabled \in BOOLEAN /\ saved.wasRecording \in BOOLEAN
    BY <1>0 DEF AudioFlags
  <2>2. forgotten' \in BOOLEAN
    BY <1>0, <1>5, Zenon DEF AudioFlags, TrackArrives, UnwiredTrack, LoadTrack, ReconnectTrack,
       RecorderMade
  <2> QED BY <1>0, <1>5, <2>1, <2>2, Zenon DEF AudioFlags, TrackArrives, UnwiredTrack, LoadTrack,
     ReconnectTrack, RestoredMic, recState
<1>6. CASE AudioConnects
  BY <1>0, <1>6, Zenon DEF AudioFlags, AudioConnects
<1>7. ASSUME NEW errorFirst, AudioLost(errorFirst) PROVE AudioFlags'
  BY <1>0, <1>7, Zenon DEF AudioFlags, AudioLost, PauseRecording, StopRecording, micState
<1>8. CASE UNCHANGED audioVars
  BY <1>0, <1>8, Zenon DEF AudioFlags, audioVars, micState, recState
<1> QED
  BY <1>1, <1>2, <1>3, <1>4, <1>5, <1>6, <1>7, <1>8, Zenon DEF AudioNext, allVars

LEMMA AudioValueStep == AudioTypeOK /\ [AudioNext]_allVars => AudioValues'
<1> SUFFICES ASSUME AudioTypeOK, [AudioNext]_allVars PROVE AudioValues'
    OBVIOUS
<1>0. AudioValues
  BY Zenon DEF AudioTypeOK, AudioValues
<1> USE DEF AudioValues
<1>1. CASE ToggleMic
  BY <1>0, <1>1, Zenon DEF ToggleMic, recState
<1>2. CASE ToggleRecording \/ StartTimerFires \/ SilenceSplitsTake
  BY <1>0, <1>2 DEF ToggleRecording, StartTimerFires, SilenceSplitsTake,
     StartRecording, StopRecording, micState
<1>3. CASE SaveAudio \/ ForgetAudio
  BY <1>3 DEF SaveAudio, ForgetAudio, LoadAudio
<1>4. ASSUME NEW by, TrackArrives(by) PROVE AudioValues'
  <2>1. starting' \in {starting, starting + 1}
    BY <1>4, Zenon DEF TrackArrives, UnwiredTrack, LoadTrack, ReconnectTrack, recState
  <2>2. icon' \in {icon, "mic"} /\ recorder' \in {recorder, "idle"}
    BY <1>4, Zenon DEF TrackArrives, UnwiredTrack, LoadTrack, ReconnectTrack, RecorderMade,
       recState
  <2> QED BY <1>0, <2>1, <2>2
<1>5. CASE AudioConnects
  <2>1. starting' \in {starting, starting + 1}
    BY <1>5, Zenon DEF AudioConnects
  <2>2. icon' \in {icon, "mic"} /\ recorder' = recorder
    BY <1>5, Zenon DEF AudioConnects
  <2> QED BY <1>0, <2>1, <2>2
<1>6. ASSUME NEW errorFirst, AudioLost(errorFirst) PROVE AudioValues'
  BY <1>0, <1>6, Zenon DEF AudioLost, PauseRecording, StopRecording, micState
<1>7. CASE UNCHANGED audioVars
  BY <1>0, <1>7, Zenon DEF audioVars, micState, recState
<1> QED
  BY <1>1, <1>2, <1>3, <1>4, <1>5, <1>6, <1>7, Zenon DEF AudioNext, allVars

\* A page that has a track keeps one until it starts over.
LEMMA TrackStep == HasTrack /\ [AudioNext]_allVars => HasTrack'
<1> SUFFICES ASSUME HasTrack, [AudioNext]_allVars PROVE HasTrack'
    OBVIOUS
<1>1. CASE ToggleMic
  <2>1. mic' = mic
    BY <1>1, Zenon DEF ToggleMic, vars, pageVars, micVars
  <2>2. enabled' => mic # "none"
    BY <1>1, Zenon DEF ToggleMic, Mute
  <2> QED BY <2>1, <2>2, Zenon DEF HasTrack
<1>2. CASE ToggleRecording \/ StartTimerFires \/ SilenceSplitsTake \/ UNCHANGED allVars
  <2>1. mic' = mic /\ enabled' = enabled
    BY <1>2, Zenon DEF ToggleRecording, StartTimerFires, SilenceSplitsTake, allVars, audioVars,
       micState, vars, pageVars, micVars
  <2> QED BY <2>1, Zenon DEF HasTrack
<1>3. CASE SaveAudio \/ ForgetAudio
  BY <1>3, Zenon DEF SaveAudio, ForgetAudio, LoadAudio, HasTrack
<1>4. ASSUME NEW by \in asking, MicGranted(by) PROVE HasTrack'
  <2>1. mic' # "none"
    BY <1>4 DEF MicGranted
  <2> QED BY <2>1, Zenon DEF HasTrack
<1>5. CASE IceConnects /\ AudioConnects
  <2>1. mic' = mic
    BY <1>5, Zenon DEF IceConnects, micVars
  <2>2. enabled' => enabled \/ mic # "none"
    BY <1>5, Zenon DEF AudioConnects
  <2> QED BY <2>1, <2>2, Zenon DEF HasTrack
<1>6. ASSUME SocketLost \/ SocketFails, NEW errorFirst, AudioLost(errorFirst)
      PROVE  HasTrack'
  <2>1. mic # "none" => mic' # "none"
    BY <1>6 DEF SocketLost, SocketFails, SocketClosed
  <2>2. enabled' = enabled
    BY <1>6, Zenon DEF AudioLost, micState
  <2> QED BY <2>1, <2>2, Zenon DEF HasTrack
<1>7. CASE Others /\ UNCHANGED audioVars
  <2>1. mic # "none" => mic' # "none"
    BY <1>7 DEF Others, Submit, MicDenied, SendOffer, IceDisconnects, IceTimerFires,
       AutoConnect, AutoConnectExpires, AttemptReconnect, SocketOpens, SocketFails, SocketClosed,
       ServerAnswers, ErrorMessage, InfoMessage, retryVars, micVars, channelVars, pageVars
  <2>2. enabled' = enabled
    BY <1>7, Zenon DEF audioVars, micState
  <2> QED BY <2>1, <2>2, Zenon DEF HasTrack
<1> QED
  BY <1>1, <1>2, <1>3, <1>4, <1>5, <1>6, <1>7, Zenon DEF AudioNext

\* The variables of muting and recording keep their types, and a page without
\* a track has none that is enabled.
THEOREM AudioTypeCorrect == AudioSpec => []AudioTypeOK
<1>1. AudioTypeOK <=> TypeOK /\ AudioFlags /\ AudioValues /\ HasTrack
  BY Zenon DEF AudioTypeOK, AudioFlags, AudioValues, HasTrack
<1>2. AudioInit /\ TypeOK => AudioTypeOK
  <2>1. AudioInit => AudioFlags /\ HasTrack
    <3> SUFFICES ASSUME AudioInit PROVE AudioFlags /\ HasTrack
        OBVIOUS
    <3>1. saved \in [micEnabled : BOOLEAN, wasRecording : BOOLEAN]
      BY DEF AudioInit
    <3>2. HasTrack
      BY Zenon DEF AudioInit, HasTrack
    <3> QED BY <3>1, <3>2 DEF AudioInit, AudioFlags
  <2>2. AudioInit => AudioValues
    BY DEF AudioInit, AudioValues
  <2> QED BY <1>1, <2>1, <2>2, Zenon
<1>3. AudioTypeOK /\ TypeOK' /\ [AudioNext]_allVars => AudioTypeOK'
  <2>1. AudioTypeOK' <=> TypeOK' /\ AudioFlags' /\ AudioValues' /\ HasTrack'
    BY Zenon DEF AudioTypeOK, AudioFlags, AudioValues, HasTrack
  <2> QED BY <1>1, <2>1, AudioFlagStep, AudioValueStep, TrackStep, Zenon
<1>4. AudioSpec => []TypeOK
  BY ImplementsPage, TypeCorrect, PTL
<1> QED BY <1>2, <1>3, <1>4, PTL DEF AudioSpec
=============================================================================
