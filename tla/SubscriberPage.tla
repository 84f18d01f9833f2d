--------------------------- MODULE SubscriberPage ---------------------------
(***************************************************************************)
(* The subscriber's page, subscriber.js over common.js: it lists the       *)
(* channels, plays the one picked or remembered, over WebRTC or in Stable  *)
(* mode from the HTTP stream, and reconnects or reloads itself when audio, *)
(* ICE or the websocket fail.                                              *)
(*                                                                         *)
(* Time passes in ticks.  The loading timer and the stall check race, so   *)
(* they are counted; other timers may fire any time after they were set.   *)
(* ws = "closed" says that close() was called and onclose is still to run. *)
(* Not modelled: wake lock, keepalive tone, buffer margin, appearance.     *)
(***************************************************************************)
EXTENDS Page, Integers, Sequences

CONSTANTS
    Channel,        \* channel names
    None,           \* no channel
    StallCheck,     \* ticks between two stall checks
    LoadingTimeout, \* ticks until a page that loads is reloaded
    StableTimeout,  \* ticks until a stalled Stable stream is reloaded
    MaxPolls,       \* bound: get_channels not answered
    MaxWaits        \* bound: waitForElement intervals counted per channel

ASSUME NoneApart == None \notin Channel
ASSUME PeriodsOrdered ==
    /\ StallCheck \in Nat /\ LoadingTimeout \in Nat /\ StableTimeout \in Nat
    /\ 0 < StallCheck /\ StallCheck < LoadingTimeout
    /\ LoadingTimeout < StableTimeout
ASSUME BoundsPositive == MaxPolls \in Nat \ {0} /\ MaxWaits \in Nat \ {0}

VARIABLES
    stable, stored,   \* localStorage: Stable mode, lab_channel
    session,          \* what the server made of this connection
    inbox,            \* the server's messages on their way
    answered,         \* the page has the server's answer
    poll, owed,       \* the poll runs; its requests not answered
    listed, marked,   \* channels with a button; buttons of class "playing"
    revealed,         \* the picker is shown
    waits,            \* waitForElement intervals, per channel
    audio, hears,     \* the audio element and its channel
    started, seen,    \* hasStartedPlaying; the last check saw it stuck
    check,            \* ticks to the next stall check
    button,           \* what the play button does: "toggle" or "reload"
    pausing,          \* pause timers: of "this" element, of an "old" one
    watches, stopper, \* connection loss loops; _stopConnectionLoss is set
    spinner,          \* the spinner is shown
    loading           \* ticks until _loadingTimer reloads, or Off

storeVars == <<stable, stored>>
talkVars == <<session, inbox, answered>>
pickVars == <<poll, owed, listed, marked, revealed, waits>>
audioVars == <<audio, hears, started, seen, check>>
buttonVars == <<button, pausing, watches, stopper>>
waitVars == <<spinner, loading>>
vars == <<connVars, storeVars, talkVars, pickVars, audioVars, buttonVars,
          waitVars>>

Off == -1

\* Not paused, but the audio's time stands still: the browser said so
\* ("waiting"), or it did not.
Stuck == {"starved", "frozen"}
Running == {"playing"} \cup Stuck

Message ==
    [key : {"session_received", "sd_answer", "error"},
     channel : Channel \cup {None}]

TypeOK ==
    /\ ConnTypeOK
    /\ stable \in BOOLEAN /\ stored \in Channel \cup {None}
    /\ session \in {"none", "open", "asked", "refused"}
    /\ inbox \in Seq(Message) /\ answered \in BOOLEAN
    /\ poll \in BOOLEAN /\ owed \in 0 .. MaxPolls
    /\ listed \subseteq Channel /\ marked \subseteq Channel
    /\ revealed \in BOOLEAN /\ waits \in [Channel -> 0 .. MaxWaits]
    /\ audio \in {"none", "loading", "paused", "ended"} \cup Running
    /\ hears \in Channel \cup {None}
    /\ started \in BOOLEAN /\ seen \in BOOLEAN /\ check \in 1 .. StallCheck
    /\ button \in {"toggle", "reload"} /\ pausing \subseteq {"this", "old"}
    /\ watches \in Nat /\ stopper \in BOOLEAN
    /\ spinner \in BOOLEAN /\ loading \in Off .. StableTimeout

\* A page that has just been loaded, whatever localStorage holds.
Init ==
    /\ ConnInit
    /\ stable \in BOOLEAN /\ stored = None
    /\ session = "none" /\ inbox = <<>> /\ answered = FALSE
    /\ poll = TRUE /\ owed = 0 /\ listed = {} /\ marked = {}
    /\ revealed = FALSE /\ waits = [c \in Channel |-> 0]
    /\ audio = "none" /\ hears = None /\ started = FALSE /\ seen = FALSE
    /\ check = StallCheck /\ button = "toggle" /\ pausing = {}
    /\ watches = 0 /\ stopper = FALSE
    /\ spinner = TRUE /\ loading = LoadingTimeout

\* window.location.reload: localStorage is all that stays.
LoadPage ==
    /\ InitializeCommon
    /\ session' = "none" /\ inbox' = <<>> /\ answered' = FALSE
    /\ poll' = TRUE /\ owed' = 0 /\ listed' = {} /\ marked' = {}
    /\ revealed' = FALSE /\ waits' = [c \in Channel |-> 0]
    /\ audio' = "none" /\ hears' = None /\ started' = FALSE /\ seen' = FALSE
    /\ check' = StallCheck /\ button' = "toggle" /\ pausing' = {}
    /\ watches' = 0 /\ stopper' = FALSE
    /\ spinner' = TRUE /\ loading' = LoadingTimeout

Reload == LoadPage /\ UNCHANGED storeVars

-----------------------------------------------------------------------------
(* The audio element.                                                      *)

\* Slip: the loop of the element before goes on.
WatchLossAlso == watches' = watches + 1 /\ stopper' = TRUE

\* setupAudioHandlers stops the loop of detectConnectionLoss that runs.
WatchLoss ==
    /\ watches' = (IF stopper THEN watches - 1 ELSE watches) + 1
    /\ stopper' = TRUE

\* Slip: whether a loop runs is not looked at.
StopWatchUnchecked == watches' = watches - 1 /\ stopper' = FALSE

StopWatch ==
    /\ watches' = IF stopper THEN watches - 1 ELSE watches
    /\ stopper' = FALSE

\* What a pause leaves behind when the element is replaced: its timer, set
\* by onpause if it was running until now.
LeavePauseTimer ==
    pausing' = IF pausing # {} \/ audio \in Running THEN {"old"} ELSE {}

\* createAudioElement, for the audio of a channel.
CreateAudioElement(c) ==
    /\ audio' = "loading" /\ hears' = c
    /\ started' = FALSE /\ seen' = FALSE /\ check' = StallCheck
    /\ button' = "toggle"
    /\ LeavePauseTimer
    /\ WatchLoss
    /\ loading' = Off

\* onwaiting; in Stable mode a stall counts once audio has played.
OnWaiting ==
    /\ spinner' = TRUE
    /\ loading' = IF ~stable THEN LoadingTimeout
                  ELSE IF started THEN StableTimeout ELSE loading

\* Slip: the loading timer is left alone.
CanPlayThroughOnly == started' = TRUE /\ spinner' = FALSE /\ UNCHANGED loading

\* oncanplaythrough.
CanPlayThrough == started' = TRUE /\ spinner' = FALSE /\ loading' = Off

\* Slip: no second pause timer is started.
OnPauseOnce ==
    /\ spinner' = FALSE
    /\ pausing' = IF pausing = {} THEN {"this"} ELSE pausing

OnPause ==
    /\ spinner' = FALSE
    /\ pausing' = pausing \cup {"this"}

\* audio.pause() and onpause.
PauseAudio ==
    /\ audio \in Running
    /\ audio' = "paused"
    /\ OnPause
    /\ UNCHANGED <<hears, started, seen, check, button, watches, stopper>>
    /\ UNCHANGED loading

\* Audio can reach the element.
MediaFlows == stable \/ ice = "connected"

\* audio.play() and onplay: there is data, or the element waits for it.
PlayAudio ==
    /\ audio \in {"paused", "loading"}
    /\ pausing' = pausing \ {"this"}
    /\ \/ /\ MediaFlows
          /\ audio' = "playing" /\ seen' = FALSE
          /\ CanPlayThrough
       \/ /\ audio' = "starved"
          /\ spinner' = TRUE
          /\ loading' = IF ~stable THEN LoadingTimeout
                        ELSE IF started THEN StableTimeout ELSE Off
          /\ UNCHANGED <<started, seen>>
    /\ UNCHANGED <<hears, check, button, watches, stopper>>

Toggle ==
    /\ PauseAudio \/ PlayAudio
    /\ UNCHANGED <<connVars, storeVars, talkVars, pickVars>>

\* The element starts by itself when it has data.
AutoPlay ==
    /\ audio = "loading" /\ MediaFlows
    /\ audio' = "playing"
    /\ pausing' = pausing \ {"this"}
    /\ CanPlayThrough
    /\ UNCHANGED <<connVars, storeVars, talkVars, pickVars>>
    /\ UNCHANGED <<hears, seen, check, button, watches, stopper>>

\* Audio stops coming, or coming out ("Android freezes that don't fire
\* onwaiting").
AudioStalls ==
    /\ \/ audio \in {"playing", "frozen"} /\ audio' = "starved" /\ OnWaiting
       \/ audio = "playing" /\ audio' = "frozen" /\ UNCHANGED waitVars
    /\ UNCHANGED <<connVars, storeVars, talkVars, pickVars, buttonVars>>
    /\ UNCHANGED <<hears, started, seen, check>>

AudioResumes ==
    /\ MediaFlows
    /\ \/ audio = "starved" /\ CanPlayThrough
       \/ audio = "frozen" /\ UNCHANGED <<started, waitVars>>
    /\ audio' = "playing" /\ seen' = FALSE
    /\ UNCHANGED <<connVars, storeVars, talkVars, pickVars, buttonVars>>
    /\ UNCHANGED <<hears, check>>

\* The stream ends: onpause, then onended.
AudioEnds ==
    /\ audio \in Running
    /\ audio' = "ended"
    /\ OnPause
    /\ button' = "reload"
    /\ UNCHANGED <<connVars, storeVars, talkVars, pickVars>>
    /\ UNCHANGED <<hears, started, seen, check, watches, stopper, loading>>

\* fetch fails in a loop of detectConnectionLoss, or in one that was stopped
\* while it was in flight; an element on the page had such a loop.
ConnectionLost ==
    /\ watches > 0 \/ audio # "none"
    /\ button' = "reload"
    /\ UNCHANGED <<connVars, storeVars, talkVars, pickVars, audioVars>>
    /\ UNCHANGED <<pausing, watches, stopper, waitVars>>

\* handleLongPause, a minute after an element was paused.
PauseTimerFires(of) ==
    /\ of \in pausing
    /\ pausing' = pausing \ {of}
    /\ button' = "reload"
    /\ UNCHANGED <<connVars, storeVars, talkVars, pickVars, audioVars>>
    /\ UNCHANGED <<watches, stopper, waitVars>>

-----------------------------------------------------------------------------
(* Time.                                                                   *)

\* The page has waited too long.
LoadingTimesOut == loading = 0 /\ Reload

\* Slip: only Stable mode looks at the audio's time.
StallReloadsNever == FALSE

\* The stall check finds audio that has not moved since the one before.
StallReloads == ~stable

CountDown(timer) == IF timer = Off THEN Off ELSE timer - 1

\* A tick without a stall check.
TimePasses ==
    /\ audio = "none" \/ check > 1
    /\ check' = IF audio = "none" THEN check ELSE check - 1
    /\ loading' = CountDown(loading)
    /\ UNCHANGED <<seen, spinner>>

\* A tick with one.
ChecksStall ==
    /\ audio # "none" /\ check = 1
    /\ check' = StallCheck
    /\ seen' = (audio \in Stuck)
    /\ ~(seen /\ audio \in Stuck /\ StallReloads)
    /\ loading' = IF seen /\ audio \in Stuck /\ stable /\ started
                  THEN StableTimeout ELSE CountDown(loading)
    /\ UNCHANGED spinner

\* One that reloads.
StallCheckReloads ==
    /\ check = 1 /\ seen /\ audio \in Stuck
    /\ StallReloads
    /\ Reload

\* A timer that is due fires before time goes on.
Tick ==
    /\ loading # 0
    /\ \/ /\ TimePasses \/ ChecksStall
          /\ UNCHANGED <<connVars, storeVars, talkVars, pickVars, buttonVars>>
          /\ UNCHANGED <<audio, hears, started>>
       \/ StallCheckReloads

-----------------------------------------------------------------------------
(* The picker.                                                             *)

SendMessage(key, c) == inbox' = Append(inbox, [key |-> key, channel |-> c])

\* wsSend of connect_subscriber, skipped unless the socket is open.  The
\* server serves one per session.
ConnectSubscriber(c) ==
    \/ ws # "open" /\ UNCHANGED talkVars
    \/ /\ ws = "open" /\ session = "open"
       /\ session' = "asked" /\ SendMessage("sd_answer", c)
       /\ UNCHANGED answered
    \/ /\ ws = "open"
       /\ session' = "refused" /\ SendMessage("error", None)
       /\ UNCHANGED answered

\* Slip: the spinner is left as it is.
RevealBehindSpinner ==
    /\ revealed' = TRUE
    /\ loading' = Off
    /\ UNCHANGED <<spinner, waits>>

\* revealChannelsAndAutoConnect.
RevealChannelsAndAutoConnect ==
    /\ revealed' = TRUE
    /\ spinner' = FALSE /\ loading' = Off
    /\ waits' = IF stored = None THEN waits
                ELSE [waits EXCEPT ![stored] = IF @ < MaxWaits THEN @ + 1 ELSE @]

\* waitForElement finds the button of its channel.
WaitForElement(c) ==
    /\ waits[c] > 0 /\ c \in listed
    /\ waits' = [waits EXCEPT ![c] = @ - 1]
    /\ marked' = marked \cup {c}
    /\ \/ /\ stable
          /\ CreateAudioElement(c)
          /\ spinner' = (audio \notin Running)
          /\ UNCHANGED talkVars
       \/ /\ ~stable
          /\ ConnectSubscriber(c)
          /\ spinner' = TRUE /\ loading' = LoadingTimeout
          /\ UNCHANGED <<audioVars, buttonVars>>
    /\ UNCHANGED <<connVars, storeVars, poll, owed, listed, revealed>>

\* It is given up when there is no such button for 5 s.
WaitForElementExpires(c) ==
    /\ waits[c] > 0 /\ c \notin listed
    /\ waits' = [waits EXCEPT ![c] = @ - 1]
    /\ UNCHANGED <<connVars, storeVars, talkVars, audioVars, buttonVars>>
    /\ UNCHANGED <<waitVars, poll, owed, listed, marked, revealed>>

\* getChannelsId, once a second.
GetChannels ==
    /\ poll /\ ws = "open" /\ owed < MaxPolls
    /\ owed' = owed + 1
    /\ UNCHANGED <<connVars, storeVars, talkVars, audioVars, buttonVars>>
    /\ UNCHANGED <<waitVars, poll, listed, marked, revealed, waits>>

\* "channels", with whatever channels are on air.
UpdateChannels(channels) ==
    /\ owed > 0
    /\ owed' = owed - 1
    /\ listed' = channels /\ marked' = {}
    /\ poll' = (poll /\ channels = {})
    /\ UNCHANGED <<connVars, storeVars, talkVars, audioVars, buttonVars>>
    /\ UNCHANGED <<waitVars, revealed, waits>>

\* The element loses its source; "emptied" ends its stall check.
StopAudio ==
    /\ audio' = "none" /\ hears' = None
    /\ started' = FALSE /\ seen' = FALSE /\ check' = StallCheck
    /\ LeavePauseTimer

\* Slip: the connection to the channel before is kept.
KeepConnection == StopAudio /\ UNCHANGED <<connVars, button, watches, stopper>>

TriggerNewConnection ==
    /\ StopAudio
    /\ ws' = "closed"
    /\ UNCHANGED <<ice, iceTimer, button, watches, stopper>>

\* channelClick on a channel that is not playing.
ChannelClick(c) ==
    /\ revealed /\ c \in listed \ marked
    /\ spinner' = (audio \notin Running)
    /\ marked' = {c}
    /\ stored' = c
    /\ \/ stable /\ CreateAudioElement(c) /\ UNCHANGED connVars
       \/ ~stable /\ TriggerNewConnection /\ loading' = LoadingTimeout
    /\ UNCHANGED <<talkVars, stable, poll, owed, listed, revealed, waits>>

PlayingChannelClick == revealed /\ listed \cap marked # {} /\ Toggle

PlayButton ==
    /\ audio # "none"
    /\ \/ button = "reload" /\ Reload
       \/ button = "toggle" /\ Toggle

\* The lock screen's "play" and "pause".
MediaSession == Toggle

\* The checkbox of Stable mode; it reloads the page.
ToggleStableMode == stable' = ~stable /\ LoadPage /\ UNCHANGED stored

-----------------------------------------------------------------------------
(* The connection.                                                         *)

\* onopen runs what onWSReady holds.
SocketOpens ==
    /\ ws = "connecting"
    /\ ws' = "open"
    /\ \/ stable /\ RevealChannelsAndAutoConnect
       \/ ~stable /\ UNCHANGED <<revealed, waits, waitVars>>
    /\ UNCHANGED <<ice, iceTimer, storeVars, talkVars, audioVars>>
    /\ UNCHANGED <<buttonVars, poll, owed, listed, marked>>

\* The offer, which the server takes or not.
SessionSubscriber ==
    /\ ~stable /\ ws = "open" /\ session = "none"
    /\ \/ session' = "open" /\ SendMessage("session_received", None)
       \/ session' = "refused" /\ SendMessage("error", None)
    /\ UNCHANGED <<connVars, storeVars, answered, pickVars, audioVars>>
    /\ UNCHANGED <<buttonVars, waitVars>>

SessionReceived ==
    /\ inbox # <<>> /\ Head(inbox).key = "session_received"
    /\ inbox' = Tail(inbox)
    /\ RevealChannelsAndAutoConnect
    /\ UNCHANGED <<connVars, storeVars, session, answered, audioVars>>
    /\ UNCHANGED <<buttonVars, poll, owed, listed, marked>>

\* "sd_answer": startSession, and ontrack once the answer is set.
StartSession ==
    /\ inbox # <<>> /\ Head(inbox).key = "sd_answer"
    /\ inbox' = Tail(inbox)
    /\ answered' = TRUE
    /\ CreateAudioElement(Head(inbox).channel)
    /\ spinner' = TRUE
    /\ UNCHANGED <<connVars, storeVars, session, pickVars>>

\* "error": lab_channel is removed, and the page reloads.
ErrorMessage ==
    /\ inbox # <<>> /\ Head(inbox).key = "error"
    /\ stored' = None
    /\ LoadPage
    /\ UNCHANGED stable

\* pc.close() ends what the element plays over WebRTC.
SessionEnds ==
    IF stable \/ audio \in {"none", "ended"}
    THEN UNCHANGED <<audio, button, pausing, spinner>>
    ELSE /\ audio' = "ended" /\ button' = "reload"
         /\ IF audio \in Running THEN OnPause ELSE UNCHANGED <<pausing, spinner>>

\* onclose: the page starts over, without being loaded again.
SocketCloses ==
    /\ StopWatch
    /\ SessionEnds
    /\ poll' = FALSE /\ owed' = 0
    /\ session' = "none" /\ inbox' = <<>> /\ answered' = FALSE
    /\ InitializeCommon
    /\ loading' = LoadingTimeout
    /\ UNCHANGED <<storeVars, listed, marked, revealed, waits>>
    /\ UNCHANGED <<hears, started, seen, check>>

SocketLost == ws # "closed" /\ SocketCloses

SocketClosed == ws = "closed" /\ SocketCloses

IceConnects ==
    /\ answered
    /\ IceConnected
    /\ spinner' = FALSE
    /\ UNCHANGED <<ws, storeVars, talkVars, pickVars, audioVars>>
    /\ UNCHANGED <<buttonVars, loading>>

IceDisconnects ==
    /\ IceDisconnected
    /\ UNCHANGED <<ws, storeVars, talkVars, pickVars, audioVars>>
    /\ UNCHANGED <<buttonVars, waitVars>>

IceFails == answered /\ IceFailed /\ Reload

IceTimerFires ==
    /\ iceTimer
    /\ \/ TimerReloads /\ Reload
       \/ /\ ~TimerReloads /\ iceTimer' = FALSE
          /\ UNCHANGED <<ws, ice, storeVars, talkVars, pickVars>>
          /\ UNCHANGED <<audioVars, buttonVars, waitVars>>

-----------------------------------------------------------------------------
User ==
    \/ \E c \in Channel : ChannelClick(c)
    \/ PlayingChannelClick
    \/ PlayButton
    \/ MediaSession
    \/ ToggleStableMode
    \/ Reload

Media ==
    \/ AutoPlay
    \/ AudioStalls
    \/ AudioResumes
    \/ AudioEnds

Timers ==
    \/ Tick
    \/ LoadingTimesOut
    \/ IceTimerFires
    \/ ConnectionLost
    \/ GetChannels
    \/ \E of \in pausing : PauseTimerFires(of)
    \/ \E c \in Channel : WaitForElement(c) \/ WaitForElementExpires(c)

Messages ==
    \/ SessionReceived
    \/ StartSession
    \/ ErrorMessage
    \/ \E channels \in SUBSET Channel : UpdateChannels(channels)

Network ==
    \/ SocketOpens
    \/ SocketLost
    \/ SocketClosed
    \/ SessionSubscriber
    \/ IceConnects
    \/ IceDisconnects
    \/ IceFails

Next == User \/ Media \/ Timers \/ Messages \/ Network

Spec == Init /\ [][Next]_vars

\* Time passes, with the timers it counts; a socket opens some time and close()
\* completes; ICE settles.  Nothing is assumed of the user, the media, the
\* server's answers or the other timers.
FairSpec ==
    /\ Spec
    /\ WF_vars(Tick \/ LoadingTimesOut)
    /\ WF_vars(SocketOpens \/ SocketClosed)
    /\ WF_vars(answered /\ ice = "new" /\ (IceConnects \/ IceFails))

\* A page on which all timers fire and the server answers.
ServedSpec ==
    /\ FairSpec
    /\ WF_vars(IceTimerFires)
    /\ WF_vars(SessionSubscriber \/ SessionReceived \/ StartSession \/ ErrorMessage)
    /\ \A c \in Channel : WF_vars(WaitForElement(c))

-----------------------------------------------------------------------------
\* Over WebRTC audio does not stand still for good, whether the browser says
\* so or not: it comes back, is paused, or the page reloads.
FrozenAudioIsRepaired == ~stable /\ audio \in Stuck ~> audio \notin Stuck

\* Over WebRTC the spinner is not shown for good while the websocket lasts.
SpinnerEnds == ~stable /\ spinner ~> ~spinner \/ ws = "connecting"

\* Over WebRTC the loading timer does not reload a page whose audio plays and
\* whose connection the server serves.
SparesPlayingAudio ==
    ~stable /\ loading = 0 /\ ws = "open" /\ session = "asked"
        => audio # "playing"

\* Over WebRTC the page plays the channel picked last once its intervals,
\* those of connections before included, and its messages are through.  When a
\* late answer took that channel's button away, an interval left over from
\* another channel has its way.
PlaysPickedChannel ==
    /\ ~stable /\ ws = "open" /\ audio \in Running
    /\ inbox = <<>> /\ \A c \in Channel : waits[c] = 0
    /\ stored \in listed
    => hears = stored

\* At most one loop looks for a lost connection, however often the page
\* starts over ("prevents accumulation on reconnect").
OneWatch == watches <= 1

\* "Only fall back to reloading if it stays stuck much longer (a real dead
\* stream, not a blip)" (subscriber.js:473): a Stable stream that stays
\* stuck makes the page reload.
DeadStreamFallsBack ==
    stable /\ started /\ audio \in Stuck ~> audio \notin Stuck

\* A page that was paused does not offer to go on after a minute: its pause
\* timer runs, or the play button reloads, whatever the timers of elements
\* that were replaced do.
LongPauseReloads ==
    audio = "paused" => "this" \in pausing \/ button = "reload"
=============================================================================
