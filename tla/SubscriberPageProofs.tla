------------------------ MODULE SubscriberPageProofs ------------------------
(***************************************************************************)
(* Proofs about SubscriberPage.  That the number of connection loss loops  *)
(* stays a number needs WatchesKnown: the page holds the means to stop the *)
(* one loop that runs.  The type invariant is inductive with it.  It is    *)
(* proved in two halves, the Boolean-valued variables and the others.      *)
(***************************************************************************)
EXTENDS SubscriberPage, TLAPS

FlagTypeOK ==
    /\ iceTimer \in BOOLEAN /\ stable \in BOOLEAN /\ answered \in BOOLEAN
    /\ poll \in BOOLEAN /\ revealed \in BOOLEAN
    /\ started \in BOOLEAN /\ seen \in BOOLEAN
    /\ stopper \in BOOLEAN /\ spinner \in BOOLEAN

\* The values but for the number of loops.
ValueTypeOK ==
    /\ ws \in {"connecting", "open", "closed"}
    /\ ice \in {"new", "connected", "disconnected", "closed"}
    /\ stored \in Channel \cup {None}
    /\ session \in {"none", "open", "asked", "refused"}
    /\ inbox \in Seq(Message) /\ owed \in 0 .. MaxPolls
    /\ listed \subseteq Channel /\ marked \subseteq Channel
    /\ waits \in [Channel -> 0 .. MaxWaits]
    /\ audio \in {"none", "loading", "paused", "ended"} \cup Running
    /\ hears \in Channel \cup {None} /\ check \in 1 .. StallCheck
    /\ button \in {"toggle", "reload"} /\ pausing \subseteq {"this", "old"}
    /\ loading \in Off .. StableTimeout

WatchesKnown == (stopper => watches = 1) /\ (~stopper => watches = 0)

IInv == TypeOK /\ WatchesKnown /\ LongPauseReloads

LEMMA FlagStep == FlagTypeOK /\ [Next]_vars => FlagTypeOK'
<1> SUFFICES ASSUME FlagTypeOK, [Next]_vars PROVE FlagTypeOK'
    OBVIOUS
<1> USE DEF FlagTypeOK, vars, connVars, storeVars, talkVars, pickVars, audioVars, buttonVars, waitVars
<1>1. ASSUME LoadPage, stable' \in BOOLEAN PROVE FlagTypeOK'
  BY <1>1, Zenon DEF LoadPage, InitializeCommon
<1>2. CASE User
  <2>1. ASSUME NEW c \in Channel, ChannelClick(c) PROVE FlagTypeOK'
    BY <2>1, Zenon DEF ChannelClick, CreateAudioElement, LeavePauseTimer, WatchLoss, StopAudio, TriggerNewConnection
  <2>2. CASE Toggle
    BY <2>2, Zenon DEF Toggle, PauseAudio, PlayAudio, OnPause, CanPlayThrough
  <2>3. CASE PlayingChannelClick \/ PlayButton \/ MediaSession
    BY <1>1, <2>2, <2>3, Zenon DEF PlayingChannelClick, PlayButton, MediaSession, Reload
  <2>4. CASE ToggleStableMode \/ Reload
    BY <1>1, <2>4, Zenon DEF ToggleStableMode, Reload
  <2> QED BY <1>2, <2>1, <2>3, <2>4 DEF User
<1>3. CASE Media
  <2>1. CASE AutoPlay
    BY <2>1, Zenon DEF AutoPlay, CanPlayThrough
  <2>2. CASE AudioStalls
    BY <2>2, Zenon DEF AudioStalls, OnWaiting
  <2>3. CASE AudioResumes
    BY <2>3, Zenon DEF AudioResumes, CanPlayThrough
  <2>4. CASE AudioEnds
    BY <2>4, Zenon DEF AudioEnds, OnPause
  <2> QED BY <1>3, <2>1, <2>2, <2>3, <2>4 DEF Media
<1>4. CASE Timers
  <2>1. CASE Tick
    <3>1. CASE StallCheckReloads
      BY <1>1, <3>1, Zenon DEF StallCheckReloads, Reload
    <3>2. CASE TimePasses \/ ChecksStall
      <4>1. (stable' = stable /\ started' = started /\ stopper' = stopper)
            /\ UNCHANGED <<iceTimer, answered, poll, revealed, spinner>>
        BY <2>1, <3>2, Zenon DEF Tick, TimePasses, ChecksStall, StallCheckReloads, Reload, LoadPage
      <4>2. seen' \in BOOLEAN
        <5>1. ChecksStall => seen' \in BOOLEAN
          BY SMT DEF ChecksStall
        <5> QED BY <3>2, <5>1, Zenon DEF TimePasses
      <4> QED BY <4>1, <4>2, Zenon
    <3> QED BY <2>1, <3>1, <3>2, Zenon DEF Tick
  <2>2. CASE LoadingTimesOut
    BY <1>1, <2>2, Zenon DEF LoadingTimesOut, Reload
  <2>3. CASE IceTimerFires
    BY <1>1, <2>3, Zenon DEF IceTimerFires, TimerReloads, Reload
  <2>4. CASE ConnectionLost \/ GetChannels
    BY <2>4, Zenon DEF ConnectionLost, GetChannels
  <2>5. ASSUME NEW of \in pausing, PauseTimerFires(of) PROVE FlagTypeOK'
    BY <2>5, Zenon DEF PauseTimerFires
  <2>6. ASSUME NEW c \in Channel, WaitForElement(c) PROVE FlagTypeOK'
    BY <2>6, Zenon DEF WaitForElement, ConnectSubscriber, SendMessage, CreateAudioElement, LeavePauseTimer, WatchLoss
  <2>7. ASSUME NEW c \in Channel, WaitForElementExpires(c) PROVE FlagTypeOK'
    BY <2>7, Zenon DEF WaitForElementExpires
  <2> QED BY <1>4, <2>1, <2>2, <2>3, <2>4, <2>5, <2>6, <2>7 DEF Timers
<1>5. CASE Messages
  <2>1. CASE SessionReceived
    BY <2>1, Zenon DEF SessionReceived, RevealChannelsAndAutoConnect
  <2>2. CASE StartSession
    BY <2>2, Zenon DEF StartSession, CreateAudioElement, LeavePauseTimer, WatchLoss
  <2>3. CASE ErrorMessage
    BY <1>1, <2>3, Zenon DEF ErrorMessage
  <2>4. ASSUME NEW channels \in SUBSET Channel, UpdateChannels(channels) PROVE FlagTypeOK'
    BY <2>4, Zenon DEF UpdateChannels
  <2> QED BY <1>5, <2>1, <2>2, <2>3, <2>4 DEF Messages
<1>6. CASE Network
  <2>1. CASE SocketOpens
    BY <2>1, Zenon DEF SocketOpens, RevealChannelsAndAutoConnect
  <2>2. CASE SocketLost \/ SocketClosed
    BY <2>2, Zenon DEF SocketLost, SocketClosed, SocketCloses, StopWatch, SessionEnds, OnPause, InitializeCommon
  <2>3. CASE SessionSubscriber
    BY <2>3, Zenon DEF SessionSubscriber, SendMessage
  <2>4. CASE IceConnects
    BY <2>4, Zenon DEF IceConnects, IceConnected
  <2>5. CASE IceDisconnects
    BY <2>5, Zenon DEF IceDisconnects, IceDisconnected
  <2>6. CASE IceFails
    BY <1>1, <2>6, Zenon DEF IceFails, Reload
  <2> QED BY <1>6, <2>1, <2>2, <2>3, <2>4, <2>5, <2>6 DEF Network
<1> QED BY <1>2, <1>3, <1>4, <1>5, <1>6 DEF Next, vars

LEMMA ValueStep == ValueTypeOK /\ [Next]_vars => ValueTypeOK'
<1> SUFFICES ASSUME ValueTypeOK, [Next]_vars PROVE ValueTypeOK'
    OBVIOUS
<1> USE PeriodsOrdered, BoundsPositive DEF ValueTypeOK, Running, Stuck, Off, connVars, storeVars, talkVars, pickVars, audioVars, buttonVars, waitVars
<1>1. ASSUME LoadPage, stored' \in Channel \cup {None} PROVE ValueTypeOK'
  BY <1>1, PeriodsOrdered, BoundsPositive DEF LoadPage, InitializeCommon
<1>2. CASE User
  <2>1. ASSUME NEW c \in Channel, ChannelClick(c) PROVE ValueTypeOK'
    BY <2>1 DEF ChannelClick, CreateAudioElement, LeavePauseTimer, WatchLoss, StopAudio, TriggerNewConnection
  <2>2. CASE Toggle
    <3>1. loading' \in {loading, LoadingTimeout, StableTimeout, Off}
      BY <2>2, Zenon DEF Toggle, PauseAudio, PlayAudio, CanPlayThrough
    <3>2. /\ audio' \in {"paused", "playing", "starved"}
          /\ pausing' \subseteq pausing \cup {"this"}
          /\ UNCHANGED <<ws, ice, stored, session, inbox, owed, listed, marked>>
          /\ UNCHANGED <<waits, hears, check, button>>
      BY <2>2, Zenon DEF Toggle, PauseAudio, PlayAudio, OnPause
    <3> QED BY <3>1, <3>2
  <2>3. CASE PlayingChannelClick \/ PlayButton \/ MediaSession
    BY <1>1, <2>2, <2>3 DEF PlayingChannelClick, PlayButton, MediaSession, Reload
  <2>4. CASE ToggleStableMode \/ Reload
    BY <1>1, <2>4 DEF ToggleStableMode, Reload
  <2> QED BY <1>2, <2>1, <2>3, <2>4 DEF User
<1>3. CASE Media
  <2>1. CASE AutoPlay
    BY <2>1 DEF AutoPlay, CanPlayThrough
  <2>2. CASE AudioStalls
    BY <2>2 DEF AudioStalls, OnWaiting
  <2>3. CASE AudioResumes
    BY <2>3 DEF AudioResumes, CanPlayThrough
  <2>4. CASE AudioEnds
    BY <2>4 DEF AudioEnds, OnPause
  <2> QED BY <1>3, <2>1, <2>2, <2>3, <2>4 DEF Media
<1>4. CASE Timers
  <2>1. CASE Tick
    <3>1. CASE StallCheckReloads
      BY <1>1, <3>1 DEF StallCheckReloads, Reload
    <3>2. CASE TimePasses
      <4>1. CASE ~StallCheckReloads
        <5>1. /\ loading # 0
              /\ UNCHANGED <<ws, ice, stored, session, inbox, owed, listed, marked>>
              /\ UNCHANGED <<waits, audio, hears, button, pausing>>
          BY <2>1, <4>1, Zenon DEF Tick
        <5>2. /\ loading' = CountDown(loading)
              /\ check' \in {check, check - 1} /\ (check' = check \/ check > 1)
          BY <3>2 DEF TimePasses
        <5> QED BY <5>1, <5>2 DEF CountDown
      <4> QED BY <3>1, <4>1
    <3>3. CASE ChecksStall
      <4>1. loading' \in {CountDown(loading), StableTimeout} /\ check' = StallCheck
        BY <3>3, Zenon DEF ChecksStall
      <4>2. CASE ~StallCheckReloads
        <5>1. /\ loading # 0
              /\ UNCHANGED <<ws, ice, stored, session, inbox, owed, listed, marked>>
              /\ UNCHANGED <<waits, audio, hears, button, pausing>>
          BY <2>1, <4>2, Zenon DEF Tick
        <5> QED BY <4>1, <5>1 DEF CountDown
      <4> QED BY <3>1, <4>2
    <3> QED BY <2>1, <3>1, <3>2, <3>3 DEF Tick
  <2>2. CASE LoadingTimesOut
    BY <1>1, <2>2 DEF LoadingTimesOut, Reload
  <2>3. CASE IceTimerFires
    BY <1>1, <2>3 DEF IceTimerFires, TimerReloads, Reload
  <2>4. CASE ConnectionLost \/ GetChannels
    <3>1. CASE ConnectionLost
      BY <3>1 DEF ConnectionLost
    <3>2. CASE GetChannels
      BY <3>2 DEF GetChannels
    <3> QED BY <2>4, <3>1, <3>2
  <2>5. ASSUME NEW of \in pausing, PauseTimerFires(of) PROVE ValueTypeOK'
    BY <2>5 DEF PauseTimerFires
  <2>6. ASSUME NEW c \in Channel, WaitForElement(c) PROVE ValueTypeOK'
    <3>1. waits' \in [Channel -> 0 .. MaxWaits] /\ marked' \subseteq Channel
      BY <2>6 DEF WaitForElement
    <3>2. CASE stable
      BY <2>6, <3>1, <3>2 DEF WaitForElement, CreateAudioElement, LeavePauseTimer
    <3>3. CASE ~stable
      <4>1. ASSUME NEW m \in Message PROVE Append(inbox, m) \in Seq(Message)
        OBVIOUS
      <4>2. [key |-> "sd_answer", channel |-> c] \in Message
            /\ [key |-> "error", channel |-> None] \in Message
        BY DEF Message
      <4>3. /\ inbox' \in Seq(Message)
            /\ session' \in {session, "asked", "refused"}
        BY <2>6, <3>3, <4>1, <4>2, Zenon DEF WaitForElement, ConnectSubscriber, SendMessage
      <4>4. /\ loading' = LoadingTimeout
            /\ UNCHANGED <<ws, ice, stored, owed, listed>>
            /\ UNCHANGED <<audio, hears, check, button, pausing>>
        BY <2>6, <3>3, Zenon DEF WaitForElement
      <4> QED BY <3>1, <4>3, <4>4
    <3> QED BY <3>2, <3>3
  <2>7. ASSUME NEW c \in Channel, WaitForElementExpires(c) PROVE ValueTypeOK'
    BY <2>7 DEF WaitForElementExpires
  <2> QED BY <1>4, <2>1, <2>2, <2>3, <2>4, <2>5, <2>6, <2>7 DEF Timers
<1>5. CASE Messages
  <2>1. CASE SessionReceived
    BY <2>1 DEF SessionReceived, RevealChannelsAndAutoConnect
  <2>2. CASE StartSession
    <3>1. inbox' \in Seq(Message) /\ Head(inbox).channel \in Channel \cup {None}
      <4>1. inbox # <<>> /\ inbox' = Tail(inbox)
        BY <2>2, Zenon DEF StartSession
      <4>2. Head(inbox) \in Message /\ Tail(inbox) \in Seq(Message)
        BY <4>1
      <4> QED BY <4>1, <4>2 DEF Message
    <3> QED BY <2>2, <3>1 DEF StartSession, CreateAudioElement, LeavePauseTimer
  <2>3. CASE ErrorMessage
    BY <1>1, <2>3 DEF ErrorMessage
  <2>4. ASSUME NEW channels \in SUBSET Channel, UpdateChannels(channels) PROVE ValueTypeOK'
    BY <2>4 DEF UpdateChannels
  <2> QED BY <1>5, <2>1, <2>2, <2>3, <2>4 DEF Messages
<1>6. CASE Network
  <2>1. CASE SocketOpens
    BY <2>1 DEF SocketOpens, RevealChannelsAndAutoConnect
  <2>2. CASE SocketLost \/ SocketClosed
    <3>1. /\ audio' \in {audio, "ended"} /\ button' \in {button, "reload"}
          /\ pausing' \subseteq pausing \cup {"this"}
      BY <2>2, Zenon DEF SocketLost, SocketClosed, SocketCloses, SessionEnds, OnPause
    <3>2. /\ owed' = 0 /\ session' = "none" /\ inbox' = <<>>
          /\ ws' = "connecting" /\ ice' = "new" /\ loading' = LoadingTimeout
          /\ UNCHANGED <<stored, listed, marked, waits, hears, check>>
      BY <2>2, Zenon DEF SocketLost, SocketClosed, SocketCloses, InitializeCommon
    <3> QED BY <3>1, <3>2
  <2>3. CASE SessionSubscriber
    <3>1. ASSUME NEW m \in Message PROVE Append(inbox, m) \in Seq(Message)
      OBVIOUS
    <3>2. [key |-> "session_received", channel |-> None] \in Message
          /\ [key |-> "error", channel |-> None] \in Message
      BY DEF Message
    <3>3. inbox' \in Seq(Message) /\ session' \in {"open", "refused"}
      BY <2>3, <3>1, <3>2, Zenon DEF SessionSubscriber, SendMessage
    <3> QED BY <2>3, <3>3 DEF SessionSubscriber
  <2>4. CASE IceConnects
    BY <2>4 DEF IceConnects, IceConnected
  <2>5. CASE IceDisconnects
    BY <2>5 DEF IceDisconnects, IceDisconnected
  <2>6. CASE IceFails
    BY <1>1, <2>6 DEF IceFails, Reload
  <2> QED BY <1>6, <2>1, <2>2, <2>3, <2>4, <2>5, <2>6 DEF Network
<1> QED BY <1>2, <1>3, <1>4, <1>5, <1>6 DEF Next, vars

-----------------------------------------------------------------------------
(* The loop that looks for a lost connection.                              *)

\* What a step may do to the loop: leave it, start one, stop it, or load the
\* page.
LEMMA WatchAction ==
    [Next]_vars => \/ UNCHANGED <<watches, stopper>>
                   \/ WatchLoss \/ StopWatch
                   \/ watches' = 0 /\ stopper' = FALSE
<1> SUFFICES ASSUME [Next]_vars
             PROVE \/ UNCHANGED <<watches, stopper>>
                   \/ WatchLoss \/ StopWatch
                   \/ watches' = 0 /\ stopper' = FALSE
    OBVIOUS
<1> USE DEF buttonVars, Reload, LoadPage
<1>1. CASE User
  BY <1>1, Zenon DEF User, ChannelClick, CreateAudioElement, TriggerNewConnection, PlayingChannelClick, PlayButton, MediaSession, Toggle, PauseAudio, PlayAudio, ToggleStableMode
<1>2. CASE Media
  BY <1>2, Zenon DEF Media, AutoPlay, AudioStalls, AudioResumes, AudioEnds
<1>3. CASE Timers
  BY <1>3, Zenon DEF Timers, Tick, StallCheckReloads, LoadingTimesOut, IceTimerFires, ConnectionLost, GetChannels, PauseTimerFires, WaitForElement, CreateAudioElement, WaitForElementExpires
<1>4. CASE Messages
  BY <1>4, Zenon DEF Messages, SessionReceived, StartSession, CreateAudioElement, ErrorMessage, UpdateChannels
<1>5. CASE Network
  BY <1>5, Zenon DEF Network, SocketOpens, SocketLost, SocketClosed, SocketCloses, SessionSubscriber, IceConnects, IceDisconnects, IceFails, IceTimerFires
<1>6. CASE UNCHANGED vars
  BY <1>6, Zenon DEF vars
<1> QED BY <1>1, <1>2, <1>3, <1>4, <1>5, <1>6 DEF Next

LEMMA WatchStep == WatchesKnown /\ [Next]_vars => WatchesKnown'
<1> SUFFICES ASSUME WatchesKnown, [Next]_vars PROVE WatchesKnown'
    OBVIOUS
<1>1. CASE WatchLoss
  BY <1>1 DEF WatchesKnown, WatchLoss
<1>2. CASE StopWatch
  BY <1>2 DEF WatchesKnown, StopWatch
<1>3. CASE UNCHANGED <<watches, stopper>> \/ (watches' = 0 /\ stopper' = FALSE)
  BY <1>3 DEF WatchesKnown
<1> QED BY <1>1, <1>2, <1>3, WatchAction

-----------------------------------------------------------------------------
(* Long pauses.                                                            *)

\* A step that leaves the audio paused leaves it what it was, or gives it a
\* pause timer or the play button that reloads.
LEMMA PauseAction ==
    [Next]_vars => \/ audio' # "paused"
                   \/ UNCHANGED <<audio, button, pausing>>
                   \/ "this" \in pausing' \/ button' = "reload"
<1> SUFFICES ASSUME [Next]_vars
             PROVE \/ audio' # "paused"
                   \/ UNCHANGED <<audio, button, pausing>>
                   \/ "this" \in pausing' \/ button' = "reload"
    OBVIOUS
<1> USE DEF audioVars, buttonVars, Reload, LoadPage
<1>1. CASE User
  BY <1>1 DEF User, ChannelClick, CreateAudioElement, StopAudio, TriggerNewConnection, PlayingChannelClick, PlayButton, MediaSession, Toggle, PauseAudio, OnPause, PlayAudio, ToggleStableMode
<1>2. CASE Media
  BY <1>2 DEF Media, AutoPlay, AudioStalls, AudioResumes, AudioEnds
<1>3. CASE Timers
  BY <1>3 DEF Timers, Tick, StallCheckReloads, LoadingTimesOut, IceTimerFires, ConnectionLost, GetChannels, PauseTimerFires, WaitForElement, CreateAudioElement, WaitForElementExpires
<1>4. CASE Messages
  BY <1>4 DEF Messages, SessionReceived, StartSession, CreateAudioElement, ErrorMessage, UpdateChannels
<1>5. CASE Network
  BY <1>5 DEF Network, SocketOpens, SocketLost, SocketClosed, SocketCloses, SessionEnds, SessionSubscriber, IceConnects, IceDisconnects, IceFails, IceTimerFires
<1>6. CASE UNCHANGED vars
  BY <1>6 DEF vars
<1> QED BY <1>1, <1>2, <1>3, <1>4, <1>5, <1>6 DEF Next

LEMMA PauseStep == LongPauseReloads /\ [Next]_vars => LongPauseReloads'
BY PauseAction, Zenon DEF LongPauseReloads

-----------------------------------------------------------------------------
(* The inductive invariant.                                                *)

LEMMA TypeStep == TypeOK /\ WatchesKnown /\ [Next]_vars => TypeOK'
<1> SUFFICES ASSUME TypeOK, WatchesKnown, [Next]_vars PROVE TypeOK'
    OBVIOUS
<1>1. FlagTypeOK /\ ValueTypeOK
  BY Zenon DEF TypeOK, ConnTypeOK, FlagTypeOK, ValueTypeOK
<1>2. FlagTypeOK' /\ ValueTypeOK' /\ WatchesKnown'
  BY <1>1, FlagStep, ValueStep, WatchStep
<1>3. watches' \in Nat
  <2>1. watches' = 0 \/ watches' = 1
    BY <1>2, Zenon DEF WatchesKnown
  <2> QED BY <2>1
<1> QED BY <1>2, <1>3, Zenon DEF TypeOK, ConnTypeOK, FlagTypeOK, ValueTypeOK

LEMMA InitInv == Init => IInv
<1> SUFFICES ASSUME Init PROVE IInv
    OBVIOUS
<1> USE DEF Init, ConnInit
<1>1. FlagTypeOK
  BY Zenon DEF FlagTypeOK
<1>2. ValueTypeOK
  BY PeriodsOrdered, BoundsPositive DEF ValueTypeOK, Running, Stuck, Off
<1>3. watches \in Nat /\ WatchesKnown /\ LongPauseReloads
  BY DEF WatchesKnown, LongPauseReloads
<1>4. TypeOK
  BY <1>1, <1>2, <1>3, Zenon DEF TypeOK, ConnTypeOK, FlagTypeOK, ValueTypeOK
<1> QED BY <1>3, <1>4, Zenon DEF IInv

\* The type invariant, and what makes it inductive, hold in every reachable
\* state of the subscriber page.
THEOREM InductiveInvariant == Spec => []IInv
<1>1. IInv /\ [Next]_vars => IInv'
  BY TypeStep, WatchStep, PauseStep, Zenon DEF IInv
<1> QED BY <1>1, InitInv, PTL DEF Spec

\* The subscriber page's variables keep their types, for any channels and
\* any ordered periods; in particular no loop is stopped that does not run.
THEOREM TypeCorrect == Spec => []TypeOK
<1>1. IInv => TypeOK
  BY Zenon DEF IInv
<1> QED BY <1>1, InductiveInvariant, PTL

\* However often the page starts over, at most one loop of
\* detectConnectionLoss runs.
THEOREM WatchesOnce == Spec => []OneWatch
<1>1. IInv => OneWatch
  <2> SUFFICES ASSUME WatchesKnown PROVE watches <= 1
      BY Zenon DEF IInv, OneWatch
  <2>1. watches = 0 \/ watches = 1
    BY Zenon DEF WatchesKnown
  <2> QED BY <2>1
<1> QED BY <1>1, InductiveInvariant, PTL

\* Paused audio has its own pause timer running or the play button reloads,
\* whatever the timers of replaced elements did before.
THEOREM PausesEnd == Spec => []LongPauseReloads
<1>1. IInv => LongPauseReloads
  BY Zenon DEF IInv
<1> QED BY <1>1, InductiveInvariant, PTL
=============================================================================
