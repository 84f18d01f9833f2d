----------------------- MODULE SubscriberChannelProofs -----------------------
(***************************************************************************)
(* Over WebRTC the subscriber's page plays the channel picked last, and    *)
(* its loading timer spares audio that plays.  Both depend on what the     *)
(* server made of the connection, so the messages on their way are tied to *)
(* it first (TalkInv); both hold for any channels, periods and bounds.     *)
(***************************************************************************)
EXTENDS SubscriberPageProofs, SequenceTheorems

\* A message of this kind is on its way.
Pending(key) == \E m \in Range(inbox) : m.key = key

\* A websocket that is being opened has no session yet; the page has an answer
\* only once it asked, and a refusal reaches it as an "error".
TalkInv ==
    /\ ws = "connecting" => session = "none"
    /\ session = "none" => inbox = <<>>
    /\ session \in {"none", "open"} => ~answered /\ ~Pending("sd_answer")
    /\ session = "refused" => Pending("error")

\* The page is over WebRTC and has not given its connection up.
Connected == ~stable /\ ws # "closed"

\* The element has a source that may play.
Attached == audio \in {"loading", "paused"} \cup Running

\* Its time goes on, or the browser has not said that it does not.
Sounds == audio \in {"playing", "frozen"}

\* The element gets its source from the server's answer.
AnswerInv == Connected /\ Attached => answered

\* While the audio of a connection that was served sounds, no timer runs.
TimerInv == Connected /\ session = "asked" /\ Sounds => loading = Off

-----------------------------------------------------------------------------
(* Sequences.                                                              *)

LEMMA RangeEmpty == Range(<<>>) = {}
BY DEF Range

LEMMA RangeAppend ==
    ASSUME NEW S, NEW q \in Seq(S), NEW m \in S
    PROVE  Range(Append(q, m)) = Range(q) \cup {m}
<1> DEFINE r == Append(q, m)
<1>1. /\ r \in Seq(S) /\ Len(q) \in Nat /\ Len(r) = Len(q) + 1
      /\ \A i \in 1 .. Len(q) : r[i] = q[i]
      /\ r[Len(q) + 1] = m
  BY AppendProperties, LenProperties
<1>2. Range(q) = {q[i] : i \in 1 .. Len(q)} /\ Range(r) = {r[i] : i \in 1 .. Len(r)}
  BY <1>1, RangeEquality
<1> HIDE DEF r
<1>3. \A i \in 1 .. Len(r) : i = Len(q) + 1 \/ (i \in 1 .. Len(q) /\ r[i] = q[i])
  BY <1>1
<1>4. \A i \in 1 .. Len(q) : i \in 1 .. Len(r) /\ q[i] = r[i]
  BY <1>1
<1>5. Len(q) + 1 \in 1 .. Len(r)
  BY <1>1
<1>6. Range(r) = Range(q) \cup {m}
  BY <1>1, <1>2, <1>3, <1>4, <1>5, Zenon
<1> QED BY <1>6 DEF r

LEMMA RangeTail ==
    ASSUME NEW S, NEW q \in Seq(S), q # <<>>
    PROVE  Range(q) = {Head(q)} \cup Range(Tail(q))
<1> DEFINE t == Tail(q)
           h == Head(q)
<1>1. /\ Len(q) \in Nat \ {0} /\ t \in Seq(S) /\ Len(t) = Len(q) - 1
      /\ \A i \in 1 .. Len(t) : t[i] = q[i + 1]
  BY EmptySeq, LenProperties, HeadTailProperties
<1>2. h = q[1]
  OBVIOUS
<1>3. Range(q) = {q[i] : i \in 1 .. Len(q)} /\ Range(t) = {t[i] : i \in 1 .. Len(t)}
  BY <1>1, RangeEquality
<1> HIDE DEF t, h
<1>4. \A i \in 1 .. Len(q) : i = 1 \/ (i - 1 \in 1 .. Len(t) /\ q[i] = t[i - 1])
  BY <1>1
<1>5. \A i \in 1 .. Len(t) : i + 1 \in 1 .. Len(q) /\ t[i] = q[i + 1]
  BY <1>1
<1>6. 1 \in 1 .. Len(q)
  BY <1>1
<1>7. Range(q) = {h} \cup Range(t)
  <2>1. ASSUME NEW x \in Range(q) PROVE x \in {h} \cup Range(t)
    <3>1. PICK i \in 1 .. Len(q) : x = q[i]
      BY <1>3
    <3>2. i = 1 \/ x \in Range(t)
      BY <1>3, <1>4, <3>1, Zenon
    <3> QED BY <1>2, <3>1, <3>2
  <2>2. h \in Range(q) /\ Range(t) \subseteq Range(q)
    BY <1>2, <1>3, <1>5, <1>6, Zenon
  <2> QED BY <2>1, <2>2
<1> QED BY <1>7 DEF h, t

-----------------------------------------------------------------------------
(* The kinds of steps.                                                     *)

\* The element, its timers and ICE go on: the channel and the talk with the
\* server are left alone, no source is attached, and audio that sounds either
\* sounded before or stops the timer.
Quiet ==
    /\ UNCHANGED <<ws, storeVars, talkVars, pickVars, hears>>
    /\ Attached' => Attached
    /\ ~stable /\ Sounds' => loading' = Off \/ (Sounds /\ (loading = Off => loading' = Off))

\* The picker and the messages.
Talk ==
    \/ \E c \in Channel : ChannelClick(c) \/ WaitForElement(c) \/ WaitForElementExpires(c)
    \/ GetChannels
    \/ \E channels \in SUBSET Channel : UpdateChannels(channels)
    \/ SessionReceived \/ StartSession
    \/ SocketOpens \/ SessionSubscriber \/ SocketCloses

LEMMA StepKinds == [Next]_vars => LoadPage \/ Quiet \/ Talk
<1> SUFFICES ASSUME [Next]_vars PROVE LoadPage \/ Quiet \/ Talk
    OBVIOUS
<1> USE DEF Reload
<1>1. ASSUME UNCHANGED <<ws, storeVars, talkVars, pickVars, audioVars, loading>> PROVE Quiet
  BY <1>1 DEF Quiet, Attached, Sounds, audioVars
<1>2. ASSUME UNCHANGED <<ws, storeVars, talkVars, pickVars, hears>>,
             Attached' => Attached,
             ~stable /\ Sounds' => loading' = Off \/ (Sounds /\ (loading = Off => loading' = Off))
      PROVE  Quiet
  BY <1>2 DEF Quiet
<1>3. CASE User
  <2>1. CASE Toggle
    <3>1. /\ UNCHANGED <<ws, storeVars, talkVars, pickVars, hears>> /\ Attached
          /\ Sounds' => loading' = Off
      BY <2>1 DEF Toggle, PauseAudio, PlayAudio, CanPlayThrough, connVars, Attached, Sounds, Running, Stuck
    <3> QED BY <1>2, <3>1
  <2>2. CASE PlayingChannelClick \/ PlayButton \/ MediaSession
    BY <2>1, <2>2 DEF PlayingChannelClick, PlayButton, MediaSession
  <2> QED BY <1>3, <2>1, <2>2 DEF User, ToggleStableMode, Talk
<1>4. CASE Media
  <2>1. CASE AutoPlay
    BY <1>2, <2>1 DEF AutoPlay, CanPlayThrough, connVars, Attached
  <2>2. CASE AudioStalls
    <3>1. /\ UNCHANGED <<ws, storeVars, talkVars, pickVars, hears>>
          /\ Attached /\ (Sounds' => Sounds /\ loading' = loading)
      BY <2>2 DEF AudioStalls, OnWaiting, connVars, waitVars, Attached, Sounds, Running, Stuck
    <3> QED BY <1>2, <3>1
  <2>3. CASE AudioResumes
    <3>1. /\ UNCHANGED <<ws, storeVars, talkVars, pickVars, hears>>
          /\ Attached /\ (loading' = Off \/ (Sounds /\ loading' = loading))
      BY <2>3 DEF AudioResumes, CanPlayThrough, connVars, waitVars, Attached, Sounds, Running, Stuck
    <3> QED BY <1>2, <3>1
  <2>4. CASE AudioEnds
    BY <1>2, <2>4 DEF AudioEnds, connVars, Attached, Sounds, Running, Stuck
  <2> QED BY <1>4, <2>1, <2>2, <2>3, <2>4 DEF Media
<1>5. CASE Timers
  <2>1. CASE Tick
    <3>1. CASE StallCheckReloads
      BY <3>1 DEF StallCheckReloads
    <3>2. CASE ~StallCheckReloads
      <4>1. /\ UNCHANGED <<ws, storeVars, talkVars, pickVars, hears, audio>>
            /\ TimePasses \/ ChecksStall
        BY <2>1, <3>2, Zenon DEF Tick, connVars
      <4>2. ~stable => loading' = CountDown(loading)
        BY <4>1 DEF TimePasses, ChecksStall
      <4>3. ~stable => (loading = Off => loading' = Off)
        BY <4>2 DEF CountDown
      <4>4. (Attached' <=> Attached) /\ (Sounds' <=> Sounds)
        BY <4>1 DEF Attached, Sounds
      <4> QED BY <1>2, <4>1, <4>3, <4>4
    <3> QED BY <3>1, <3>2
  <2>2. CASE LoadingTimesOut
    BY <2>2 DEF LoadingTimesOut
  <2>3. CASE IceTimerFires
    BY <1>1, <2>3, Zenon DEF IceTimerFires, waitVars
  <2>4. CASE ConnectionLost
    BY <1>1, <2>4, Zenon DEF ConnectionLost, connVars, waitVars
  <2>5. ASSUME NEW of \in pausing, PauseTimerFires(of) PROVE Quiet
    BY <1>1, <2>5, Zenon DEF PauseTimerFires, connVars, waitVars
  <2> QED BY <1>5, <2>1, <2>2, <2>3, <2>4, <2>5 DEF Timers, Talk
<1>6. CASE Messages
  BY <1>6, Zenon DEF Messages, ErrorMessage, Talk
<1>7. CASE Network
  <2>1. CASE IceConnects
    BY <1>1, <2>1, Zenon DEF IceConnects
  <2>2. CASE IceDisconnects
    BY <1>1, <2>2, Zenon DEF IceDisconnects, waitVars
  <2> QED BY <1>7, <2>1, <2>2, Zenon DEF Network, IceFails, SocketLost, SocketClosed, Talk
<1>8. CASE UNCHANGED vars
  BY <1>1, <1>8 DEF vars, connVars, waitVars
<1> QED BY <1>3, <1>4, <1>5, <1>6, <1>7, <1>8 DEF Next

-----------------------------------------------------------------------------
(* The talk with the server.                                               *)

\* A message of the server's is added to those on their way.
LEMMA SendAdds ==
    ASSUME inbox \in Seq(Message), NEW key, NEW c, [key |-> key, channel |-> c] \in Message,
           SendMessage(key, c)
    PROVE  /\ Range(inbox') = Range(inbox) \cup {[key |-> key, channel |-> c]}
           /\ \A k : Pending(k)' <=> Pending(k) \/ k = key
<1> DEFINE m == [key |-> key, channel |-> c]
<1>1. Range(inbox') = Range(inbox) \cup {m}
  BY RangeAppend DEF SendMessage
<1>2. m.key = key
  OBVIOUS
<1> HIDE DEF m
<1>3. \A k : Pending(k)' <=> Pending(k) \/ k = key
  BY <1>1, <1>2, Zenon DEF Pending
<1> QED BY <1>1, <1>3 DEF m

LEMMA MessagesTyped ==
    /\ [key |-> "session_received", channel |-> None] \in Message
    /\ [key |-> "error", channel |-> None] \in Message
    /\ \A c \in Channel : [key |-> "sd_answer", channel |-> c] \in Message
BY DEF Message

LEMMA TalkStep == TypeOK /\ TalkInv /\ [Next]_vars => TalkInv'
<1> SUFFICES ASSUME TypeOK, TalkInv, [Next]_vars PROVE TalkInv'
    OBVIOUS
<1>t. inbox \in Seq(Message)
  BY Zenon DEF TypeOK
<1>u. ASSUME UNCHANGED talkVars, ws' = ws \/ ws' # "connecting" PROVE TalkInv'
  BY <1>u DEF talkVars, TalkInv, Pending
<1>1. ASSUME session' = "none", inbox' = <<>>, answered' = FALSE PROVE TalkInv'
  BY <1>1, RangeEmpty DEF TalkInv, Pending
<1>2. CASE LoadPage
  BY <1>1, <1>2, Zenon DEF LoadPage
<1>3. CASE Quiet
  BY <1>3, <1>u DEF Quiet
<1>4. CASE Talk
  <2>1. ASSUME NEW c \in Channel, ChannelClick(c) PROVE TalkInv'
    <3>1. UNCHANGED talkVars /\ (ws' = ws \/ ws' = "closed")
      BY <2>1, Zenon DEF ChannelClick, TriggerNewConnection, connVars
    <3> QED BY <3>1, <1>u
  <2>2. ASSUME NEW c \in Channel, WaitForElement(c) PROVE TalkInv'
    <3>1. ws' = ws /\ (UNCHANGED talkVars \/ ConnectSubscriber(c))
      BY <2>2, Zenon DEF WaitForElement, connVars
    <3>2. CASE UNCHANGED talkVars
      BY <1>u, <3>1, <3>2
    <3>3. ASSUME ws = "open", session = "open", session' = "asked",
                 SendMessage("sd_answer", c), UNCHANGED answered
          PROVE  TalkInv'
      BY <3>1, <3>3 DEF TalkInv
    <3>4. ASSUME ws = "open", session' = "refused", SendMessage("error", None), UNCHANGED answered
          PROVE  TalkInv'
      <4>1. Pending("error")'
        BY <1>t, <3>4, SendAdds, MessagesTyped
      <4> QED BY <3>1, <3>4, <4>1 DEF TalkInv
    <3> QED BY <3>1, <3>2, <3>3, <3>4 DEF ConnectSubscriber
  <2>3. ASSUME NEW c \in Channel, WaitForElementExpires(c) PROVE TalkInv'
    BY <1>u, <2>3, Zenon DEF WaitForElementExpires, connVars
  <2>4. CASE GetChannels
    BY <1>u, <2>4, Zenon DEF GetChannels, connVars
  <2>5. ASSUME NEW channels \in SUBSET Channel, UpdateChannels(channels) PROVE TalkInv'
    BY <1>u, <2>5, Zenon DEF UpdateChannels, connVars
  <2>6. ASSUME inbox # <<>>, inbox' = Tail(inbox), Head(inbox).key # "error",
               ws' = ws, session' = session,
               answered' = answered \/ Head(inbox).key = "sd_answer"
        PROVE  TalkInv'
    <3>1. Range(inbox) = {Head(inbox)} \cup Range(inbox')
      BY <1>t, <2>6, RangeTail
    <3>2. \A key : Pending(key)' => Pending(key)
      BY <3>1 DEF Pending
    <3>3. Pending("error") => Pending("error")'
      BY <2>6, <3>1 DEF Pending
    <3>4. Head(inbox).key = "sd_answer" => Pending("sd_answer")
      BY <3>1 DEF Pending
    <3> QED BY <2>6, <3>2, <3>3, <3>4 DEF TalkInv
  <2>7. CASE SessionReceived
    BY <2>6, <2>7, Zenon DEF SessionReceived, connVars
  <2>8. CASE StartSession
    BY <2>6, <2>8, Zenon DEF StartSession, connVars
  <2>9. CASE SocketOpens
    BY <1>u, <2>9, Zenon DEF SocketOpens
  <2>10. CASE SessionSubscriber
    <3>1. ws = "open" /\ ws' = ws /\ session = "none" /\ UNCHANGED answered
      BY <2>10, Zenon DEF SessionSubscriber, connVars
    <3>2. ~answered /\ ~Pending("sd_answer")
      BY <3>1 DEF TalkInv
    <3>3. ASSUME session' = "open", SendMessage("session_received", None) PROVE TalkInv'
      <4>1. ~Pending("sd_answer")'
        BY <1>t, <3>2, <3>3, SendAdds, MessagesTyped
      <4> QED BY <3>1, <3>2, <3>3, <4>1 DEF TalkInv
    <3>4. ASSUME session' = "refused", SendMessage("error", None) PROVE TalkInv'
      <4>1. Pending("error")'
        BY <1>t, <3>4, SendAdds, MessagesTyped
      <4> QED BY <3>1, <3>4, <4>1 DEF TalkInv
    <3> QED BY <2>10, <3>3, <3>4, Zenon DEF SessionSubscriber
  <2>11. CASE SocketCloses
    BY <1>1, <2>11, Zenon DEF SocketCloses
  <2> QED BY <1>4, <2>1, <2>2, <2>3, <2>4, <2>5, <2>7, <2>8, <2>9, <2>10, <2>11 DEF Talk
<1> QED BY <1>2, <1>3, <1>4, StepKinds

-----------------------------------------------------------------------------
(* The loading timer.                                                      *)

\* What the steps of Talk do to the element and the timer over WebRTC.
LEMMA TalkAudio ==
    ASSUME TypeOK, TalkInv, Talk
    PROVE  /\ stable' = stable
           /\ Connected' =>
                \/ ~Attached'
                \/ answered' /\ audio' = "loading"
                \/ /\ Connected /\ UNCHANGED <<audio, answered>>
                   /\ session' = "asked" =>
                        \/ session = "open"
                        \/ session = "asked" /\ loading' \in {loading, Off}
<1> DEFINE Goal == /\ stable' = stable
                   /\ Connected' =>
                        \/ ~Attached'
                        \/ answered' /\ audio' = "loading"
                        \/ /\ Connected /\ UNCHANGED <<audio, answered>>
                           /\ session' = "asked" =>
                                \/ session = "open"
                                \/ session = "asked" /\ loading' \in {loading, Off}
<1> USE DEF Connected, storeVars
<1>1. ASSUME NEW c \in Channel, ChannelClick(c) PROVE Goal
  <2>1. stable' = stable /\ (~stable => ws' = "closed")
    BY <1>1, Zenon DEF ChannelClick, TriggerNewConnection
  <2> QED BY <2>1
<1>2. ASSUME NEW c \in Channel, WaitForElement(c) PROVE Goal
  <2>1. UNCHANGED <<stable, ws>>
    BY <1>2, Zenon DEF WaitForElement, connVars
  <2>2. CASE stable
    BY <2>1, <2>2
  <2>3. CASE ~stable
    <3>1. UNCHANGED audio /\ ConnectSubscriber(c)
      BY <1>2, <2>3, Zenon DEF WaitForElement, audioVars
    <3>2. /\ UNCHANGED answered
          /\ \/ ws # "open" /\ session' = session
             \/ session = "open"
             \/ session' = "refused"
      BY <3>1, Zenon DEF ConnectSubscriber, talkVars
    <3>3. ws \in {"connecting", "open", "closed"}
      BY Zenon DEF TypeOK, ConnTypeOK
    <3> QED BY <2>1, <2>3, <3>1, <3>2, <3>3 DEF TalkInv
  <2> QED BY <2>2, <2>3
<1>3. ASSUME UNCHANGED <<ws, stable, session, answered, audio, loading>> PROVE Goal
  BY <1>3
<1>4. ASSUME NEW c \in Channel, WaitForElementExpires(c) PROVE Goal
  BY <1>3, <1>4, Zenon DEF WaitForElementExpires, connVars, talkVars, audioVars, waitVars
<1>5. CASE GetChannels
  BY <1>3, <1>5, Zenon DEF GetChannels, connVars, talkVars, audioVars, waitVars
<1>6. ASSUME NEW channels \in SUBSET Channel, UpdateChannels(channels) PROVE Goal
  BY <1>3, <1>6, Zenon DEF UpdateChannels, connVars, talkVars, audioVars, waitVars
<1>7. CASE SessionReceived
  <2>1. UNCHANGED <<ws, stable, session, answered, audio>> /\ loading' = Off
    BY <1>7, Zenon DEF SessionReceived, RevealChannelsAndAutoConnect, connVars, audioVars
  <2> QED BY <2>1
<1>8. CASE StartSession
  <2>1. stable' = stable /\ answered' /\ audio' = "loading"
    BY <1>8, Zenon DEF StartSession, CreateAudioElement
  <2> QED BY <2>1
<1>9. CASE SocketOpens
  <2>1. /\ ws = "connecting" /\ UNCHANGED <<stable, session, answered, audio>>
        /\ ~stable => loading' = loading
    BY <1>9, Zenon DEF SocketOpens, talkVars, audioVars, waitVars
  <2>2. session = "none"
    BY <2>1 DEF TalkInv
  <2> QED BY <2>1, <2>2
<1>10. CASE SessionSubscriber
  <2>1. /\ UNCHANGED <<ws, stable, answered, audio>>
        /\ session' \in {"open", "refused"}
    BY <1>10, Zenon DEF SessionSubscriber, connVars, audioVars
  <2> QED BY <2>1
<1>11. CASE SocketCloses
  <2>1. stable' = stable
    BY <1>11, Zenon DEF SocketCloses
  <2>2. ~stable => audio' \in {"none", "ended"}
    BY <1>11, Zenon DEF SocketCloses, SessionEnds
  <2>3. ~stable => ~Attached'
    BY <2>2 DEF Attached, Running, Stuck
  <2> QED BY <2>1, <2>3
<1> QED BY <1>1, <1>2, <1>4, <1>5, <1>6, <1>7, <1>8, <1>9, <1>10, <1>11, Zenon DEF Talk

LEMMA AnswerStep == TypeOK /\ TalkInv /\ AnswerInv /\ [Next]_vars => AnswerInv'
<1> SUFFICES ASSUME TypeOK, TalkInv, AnswerInv, [Next]_vars PROVE AnswerInv'
    OBVIOUS
<1>1. CASE LoadPage
  <2>1. audio' = "none"
    BY <1>1, Zenon DEF LoadPage
  <2> QED BY <2>1 DEF AnswerInv, Attached, Running, Stuck
<1>2. CASE Quiet
  BY <1>2 DEF Quiet, AnswerInv, Connected, storeVars, talkVars
<1>3. CASE Talk
  BY <1>3, TalkAudio DEF AnswerInv, Attached
<1> QED BY <1>1, <1>2, <1>3, StepKinds

LEMMA TimerStep == TypeOK /\ TalkInv /\ AnswerInv /\ TimerInv /\ [Next]_vars => TimerInv'
<1> SUFFICES ASSUME TypeOK, TalkInv, AnswerInv, TimerInv, [Next]_vars PROVE TimerInv'
    OBVIOUS
<1>0. Sounds => Attached
  BY DEF Sounds, Attached, Running, Stuck
<1>1. CASE LoadPage
  <2>1. session' = "none"
    BY <1>1, Zenon DEF LoadPage
  <2> QED BY <2>1 DEF TimerInv
<1>2. CASE Quiet
  BY <1>2 DEF Quiet, TimerInv, Connected, storeVars, talkVars
<1>3. CASE Talk
  <2>1. CASE ~Connected' \/ ~Attached' \/ audio' = "loading"
    BY <2>1 DEF TimerInv, Attached, Sounds, Running, Stuck
  <2>2. CASE /\ Connected /\ UNCHANGED <<audio, answered>>
             /\ session' = "asked" =>
                  \/ session = "open"
                  \/ session = "asked" /\ loading' \in {loading, Off}
    <3>1. Sounds' <=> Sounds
      BY <2>2 DEF Sounds
    <3>2. session = "open" => ~Sounds
      BY <1>0, <2>2 DEF TalkInv, AnswerInv
    <3> QED BY <2>2, <3>1, <3>2 DEF TimerInv
  <2> QED BY <1>3, <2>1, <2>2, TalkAudio
<1> QED BY <1>1, <1>2, <1>3, StepKinds

SoundInv == TalkInv /\ AnswerInv /\ TimerInv

LEMMA SoundInvariant == Spec => []SoundInv
<1>1. Init => SoundInv
  <2> SUFFICES ASSUME Init PROVE SoundInv
      OBVIOUS
  <2>1. session = "none" /\ inbox = <<>> /\ ~answered /\ audio = "none"
    BY Zenon DEF Init
  <2> QED BY <2>1, RangeEmpty DEF SoundInv, TalkInv, Pending, AnswerInv, Attached, TimerInv, Running, Stuck
<1>2. TypeOK /\ SoundInv /\ [Next]_vars => SoundInv'
  BY TalkStep, AnswerStep, TimerStep, Zenon DEF SoundInv
<1> QED BY <1>1, <1>2, TypeCorrect, PTL DEF Spec

\* A page whose connection is served and whose audio plays is not reloaded by
\* its loading timer, whatever order the messages, the media and the timers
\* come in: the timer was stopped, and not set again.
THEOREM SparesPlaying == Spec => []SparesPlayingAudio
<1>1. SoundInv => SparesPlayingAudio
  <2> SUFFICES ASSUME TimerInv, ~stable, loading = 0, ws = "open", session = "asked"
               PROVE  audio # "playing"
      BY Zenon DEF SoundInv, SparesPlayingAudio
  <2> QED BY DEF TimerInv, Connected, Sounds, Off
<1> QED BY <1>1, SoundInvariant, PTL

-----------------------------------------------------------------------------
(* The channel that was picked.                                            *)

\* The channel of an answer: on its way, or what the element hears.
Granted(d) ==
    \/ \E m \in Range(inbox) : m.key = "sd_answer" /\ m.channel = d
    \/ answered /\ hears = d

\* There is an interval for the channel, which may outlive its connection.
Waits(c) == c \in Channel /\ waits[c] > 0

\* The page plays d, or may be about to ask for it.
Heading(d) == Granted(d) \/ (session = "open" /\ Waits(d))

\* The channel stored has its turn yet, unless it has no button to click.
Recovers == stored \notin listed \/ Waits(stored) \/ Pending("session_received")

\* Until the channels have been listed once, nothing but the stored channel can
\* be waited for.  Afterwards the buttons stay as they are.
PollInv ==
    Connected /\ (poll \/ owed > 0) =>
        \A d \in Channel \cup {None} : Granted(d) \/ Waits(d) => d = stored

\* Another channel than the stored one is not the last word: the stored one
\* will be asked for in the same session, which the server refuses, and the page
\* then reloads.
PickInv ==
    Connected =>
        \A d \in Channel \cup {None} :
            Heading(d) => d = stored \/ Recovers \/ session = "refused"

\* What decides the two is as before, but for intervals that expire.
LEMMA PickKept ==
    ASSUME PollInv, PickInv, Connected' => Connected,
           UNCHANGED <<stored, session, inbox, answered, hears, listed>>,
           poll' => poll, owed' > 0 => poll \/ owed > 0,
           \A c \in Channel : Waits(c)' <=> Waits(c)
    PROVE  PollInv' /\ PickInv'
<1>1. \A d : (Granted(d)' <=> Granted(d)) /\ (Waits(d)' <=> Waits(d))
  BY Zenon DEF Granted, Waits
<1>2. PollInv'
  BY <1>1, Zenon DEF PollInv
<1>3. Recovers' <=> Recovers
  <2>1. Pending("session_received")' <=> Pending("session_received")
    BY Zenon DEF Pending
  <2> QED BY <1>1, <2>1, Zenon DEF Recovers
<1>4. \A d : Heading(d)' <=> Heading(d)
  BY <1>1, Zenon DEF Heading
<1>5. PickInv'
  BY <1>3, <1>4, Zenon DEF PickInv
<1> QED BY <1>2, <1>5

\* With nothing on its way and no answer there is no channel that was granted.
LEMMA NoneGranted == inbox = <<>> /\ ~answered => \A d : ~Granted(d)
BY RangeEmpty DEF Granted

\* A message grants the channel of an answer.
LEMMA SendGrants ==
    ASSUME inbox \in Seq(Message), NEW key, NEW c, [key |-> key, channel |-> c] \in Message,
           SendMessage(key, c), UNCHANGED <<answered, hears>>
    PROVE  \A d : Granted(d)' <=> Granted(d) \/ (key = "sd_answer" /\ d = c)
<1> DEFINE m == [key |-> key, channel |-> c]
<1>1. Range(inbox') = Range(inbox) \cup {m}
  BY SendAdds
<1>2. m.key = key /\ m.channel = c
  OBVIOUS
<1> HIDE DEF m
<1> QED BY <1>1, <1>2 DEF Granted

\* An interval of the picker asks for its channel or gives it up.
LEMMA ElementPicked ==
    ASSUME TypeOK, TalkInv, PollInv, PickInv, NEW c \in Channel,
           WaitForElement(c) \/ WaitForElementExpires(c)
    PROVE  PollInv' /\ PickInv'
<1>t. waits \in [Channel -> 0 .. MaxWaits] /\ inbox \in Seq(Message) /\ ws \in {"connecting", "open", "closed"}
  BY Zenon DEF TypeOK, ConnTypeOK
<1>1. /\ waits[c] > 0 /\ waits' = [waits EXCEPT ![c] = @ - 1]
      /\ UNCHANGED <<ws, stable, stored, poll, owed, listed>>
      /\ UNCHANGED <<answered, hears>> \/ stable
  BY Zenon DEF WaitForElement, WaitForElementExpires, ConnectSubscriber, connVars, storeVars, talkVars, audioVars
<1>2. Waits(c) /\ \A d : (Waits(d)' => Waits(d)) /\ (d # c => (Waits(d)' <=> Waits(d)))
  BY <1>t, <1>1 DEF Waits
<1>3. CASE stable
  BY <1>1, <1>3 DEF PollInv, PickInv, Connected
<1>4. CASE ~stable /\ WaitForElementExpires(c)
  <2>1. c \notin listed /\ UNCHANGED <<session, inbox>>
    BY <1>4, Zenon DEF WaitForElementExpires, talkVars
  <2>2. \A d : Granted(d)' <=> Granted(d)
    BY <1>1, <1>4, <2>1, Zenon DEF Granted
  <2>3. PollInv'
    BY <1>1, <1>2, <2>2, Zenon DEF PollInv, Connected
  <2>4. Recovers => Recovers'
    <3>1. Pending("session_received")' <=> Pending("session_received")
      BY <2>1, Zenon DEF Pending
    <3>2. CASE c = stored
      BY <1>1, <2>1, <3>2, Zenon DEF Recovers
    <3>3. CASE c # stored
      BY <1>1, <1>2, <3>1, <3>3, Zenon DEF Recovers
    <3> QED BY <3>2, <3>3
  <2>5. \A d : Heading(d)' => Heading(d)
    BY <1>2, <2>1, <2>2, Zenon DEF Heading
  <2>6. PickInv'
    BY <1>1, <2>1, <2>4, <2>5, Zenon DEF PickInv, Connected
  <2> QED BY <2>3, <2>6
<1>5. CASE ~stable /\ WaitForElement(c)
  <2>1. ConnectSubscriber(c)
    BY <1>5, Zenon DEF WaitForElement
  <2>2. ASSUME \A d : Granted(d)' => Granted(d) \/ d = c PROVE PollInv'
    BY <1>1, <1>2, <2>2, Zenon DEF PollInv, Connected
  <2>3. CASE ws # "open" /\ UNCHANGED talkVars
    <3>1. CASE ws = "closed"
      BY <1>1, <3>1 DEF PollInv, PickInv, Connected
    <3>2. CASE ws = "connecting"
      <4>1. session' = "none" /\ inbox' = <<>> /\ ~answered'
        BY <2>3, <3>2 DEF TalkInv, talkVars
      <4>2. \A d : ~Granted(d)'
        BY <4>1, RangeEmpty DEF Granted
      <4>3. PollInv'
        BY <2>2, <4>2
      <4>4. PickInv'
        BY <4>1, <4>2 DEF PickInv, Heading
      <4> QED BY <4>3, <4>4
    <3> QED BY <1>t, <2>3, <3>1, <3>2
  <2>4. CASE session = "open" /\ session' = "asked" /\ SendMessage("sd_answer", c)
    <3>1. ~answered /\ ~Pending("sd_answer")
      BY <2>4 DEF TalkInv
    <3>2. \A d : ~Granted(d)
      BY <3>1, Zenon DEF Granted, Pending
    <3>3. \A d : Granted(d)' => d = c
      BY <1>t, <1>1, <1>5, <2>4, <3>2, SendGrants, MessagesTyped, Zenon
    <3>4. Pending("session_received") => Pending("session_received")'
      BY <1>t, <2>4, SendAdds, MessagesTyped, Zenon
    <3>5. Heading(c)
      BY <1>2, <2>4 DEF Heading
    <3>6. Connected => c = stored \/ Recovers
      BY <2>4, <3>5 DEF PickInv
    <3>7. Recovers /\ c # stored => Recovers'
      BY <1>1, <1>2, <3>4, Zenon DEF Recovers
    <3>8. PickInv'
      <4>1. \A d : Heading(d)' => d = c
        BY <2>4, <3>3 DEF Heading
      <4> QED BY <1>1, <3>6, <3>7, <4>1, Zenon DEF PickInv, Connected
    <3> QED BY <2>2, <3>3, <3>8
  <2>5. CASE session' = "refused" /\ SendMessage("error", None)
    <3>1. "error" # "sd_answer"
      OBVIOUS
    <3>2. \A d : Granted(d)' => Granted(d)
      BY <1>t, <1>1, <1>5, <2>5, <3>1, SendGrants, MessagesTyped, Zenon
    <3>3. PickInv'
      BY <2>5, Zenon DEF PickInv
    <3> QED BY <2>2, <3>2, <3>3
  <2> QED BY <2>1, <2>3, <2>4, <2>5, Zenon DEF ConnectSubscriber
<1> QED BY <1>3, <1>4, <1>5

\* The server's messages reach the page.
LEMMA MessagePicked ==
    ASSUME TypeOK, PollInv, PickInv, SessionReceived \/ StartSession
    PROVE  PollInv' /\ PickInv'
<1>t. /\ waits \in [Channel -> 0 .. MaxWaits] /\ inbox \in Seq(Message)
      /\ stored \in Channel \cup {None} /\ listed \subseteq Channel
  BY Zenon DEF TypeOK
<1>1. /\ inbox # <<>> /\ inbox' = Tail(inbox)
      /\ UNCHANGED <<ws, stable, stored, session, poll, owed, listed>>
  BY Zenon DEF SessionReceived, StartSession, connVars, storeVars, pickVars
<1>2. Range(inbox) = {Head(inbox)} \cup Range(inbox')
  BY <1>t, <1>1, RangeTail
<1>3. Connected' <=> Connected
  BY <1>1 DEF Connected
<1>4. CASE SessionReceived
  <2>1. /\ Head(inbox).key = "session_received" /\ UNCHANGED <<answered, hears>>
        /\ waits' = IF stored = None THEN waits
                    ELSE [waits EXCEPT ![stored] = IF @ < MaxWaits THEN @ + 1 ELSE @]
    BY <1>4, Zenon DEF SessionReceived, RevealChannelsAndAutoConnect, audioVars
  <2>2. \A d : Granted(d)' <=> Granted(d)
    BY <1>2, <2>1 DEF Granted
  <2>3. CASE stored = None
    <3>1. stored' \notin listed'
      BY <1>t, <1>1, <2>3, NoneApart
    <3>2. \A d : Waits(d)' => Waits(d)
      BY <2>1, <2>3 DEF Waits
    <3> QED BY <1>1, <1>3, <2>2, <3>1, <3>2, Zenon DEF PollInv, PickInv, Recovers
  <2>4. CASE stored # None
    <3>1. stored \in Channel /\ waits' = [waits EXCEPT ![stored] = IF @ < MaxWaits THEN @ + 1 ELSE @]
      BY <1>t, <2>1, <2>4
    <3>2. waits'[stored] > 0
      BY <1>t, <3>1, BoundsPositive
    <3>3. Waits(stored)'
      BY <1>1, <3>1, <3>2 DEF Waits
    <3>4. \A d : d # stored /\ Waits(d)' => Waits(d)
      BY <1>t, <3>1 DEF Waits
    <3> QED BY <1>1, <1>3, <2>2, <3>3, <3>4, Zenon DEF PollInv, PickInv, Recovers
  <2> QED BY <2>3, <2>4
<1>5. CASE StartSession
  <2>1. Head(inbox).key = "sd_answer" /\ hears' = Head(inbox).channel /\ UNCHANGED <<session, waits>>
    BY <1>5, Zenon DEF StartSession, CreateAudioElement, pickVars
  <2>2. \A d : Granted(d)' => Granted(d)
    BY <1>2, <2>1 DEF Granted
  <2>3. \A d : Waits(d)' <=> Waits(d)
    BY <2>1 DEF Waits
  <2>4. Pending("session_received") => Pending("session_received")'
    BY <1>2, <2>1 DEF Pending
  <2>5. Recovers => Recovers'
    BY <1>1, <2>3, <2>4, Zenon DEF Recovers
  <2>6. \A d : Heading(d)' => Heading(d)
    BY <2>1, <2>2, <2>3, Zenon DEF Heading
  <2> QED BY <1>1, <1>3, <2>2, <2>3, <2>5, <2>6, Zenon DEF PollInv, PickInv
<1> QED BY <1>4, <1>5

LEMMA PickStep == TypeOK /\ TalkInv /\ PollInv /\ PickInv /\ [Next]_vars => PollInv' /\ PickInv'
<1> SUFFICES ASSUME TypeOK, TalkInv, PollInv, PickInv, [Next]_vars PROVE PollInv' /\ PickInv'
    OBVIOUS
<1>u. ASSUME UNCHANGED <<ws, stable, stored, session, inbox, answered, hears, listed, waits>>,
             poll' => poll, owed' > 0 => poll \/ owed > 0
      PROVE  PollInv' /\ PickInv'
  <2>1. Connected' => Connected
    BY <1>u DEF Connected
  <2>2. \A c \in Channel : Waits(c)' <=> Waits(c)
    BY <1>u DEF Waits
  <2> QED BY <1>u, <2>1, <2>2, PickKept
<1>n. ASSUME ~Connected' PROVE PollInv' /\ PickInv'
  BY <1>n, Zenon DEF PollInv, PickInv
<1>1. ASSUME session' = "none", inbox' = <<>>, ~answered' PROVE PickInv' /\ \A d : ~Granted(d)'
  <2>1. \A d : ~Granted(d)'
    BY <1>1, RangeEmpty DEF Granted
  <2> QED BY <1>1, <2>1 DEF PickInv, Heading
<1>2. CASE LoadPage
  <2>1. session' = "none" /\ inbox' = <<>> /\ ~answered' /\ waits' = [c \in Channel |-> 0]
    BY <1>2, Zenon DEF LoadPage
  <2>2. \A d : ~Waits(d)'
    BY <2>1 DEF Waits
  <2> QED BY <1>1, <2>1, <2>2 DEF PollInv
<1>3. CASE Quiet
  BY <1>3, <1>u DEF Quiet, storeVars, talkVars, pickVars
<1>4. CASE Talk
  <2>1. ASSUME NEW c \in Channel, ChannelClick(c) PROVE ~Connected'
    <3>1. stable' = stable /\ (~stable => ws' = "closed")
      BY <2>1, Zenon DEF ChannelClick, TriggerNewConnection
    <3> QED BY <3>1 DEF Connected
  <2>2. ASSUME NEW c \in Channel, WaitForElement(c) \/ WaitForElementExpires(c)
        PROVE  PollInv' /\ PickInv'
    BY <2>2, ElementPicked
  <2>3. CASE GetChannels
    <3>1. /\ UNCHANGED <<ws, stable, stored, session, inbox, answered, hears, listed, waits>>
          /\ poll /\ poll' = poll
      BY <2>3, Zenon DEF GetChannels, connVars, storeVars, talkVars, audioVars
    <3> QED BY <3>1, <1>u
  <2>4. ASSUME NEW channels \in SUBSET Channel, UpdateChannels(channels)
        PROVE  PollInv' /\ PickInv'
    <3>1. /\ UNCHANGED <<ws, stable, stored, session, inbox, answered, hears, waits>>
          /\ owed > 0
      BY <2>4, Zenon DEF UpdateChannels, connVars, storeVars, talkVars, audioVars
    <3>2. \A d : (Granted(d)' <=> Granted(d)) /\ (Waits(d)' <=> Waits(d))
      BY <3>1, Zenon DEF Granted, Waits
    <3>3. Connected' => \A d \in Channel \cup {None} : Granted(d) \/ Waits(d) => d = stored'
      BY <3>1, Zenon DEF PollInv, Connected
    <3> QED BY <3>2, <3>3, Zenon DEF PollInv, PickInv, Heading
  <2>5. CASE SessionReceived \/ StartSession
    BY <2>5, MessagePicked
  <2>6. CASE SocketOpens
    <3>1. /\ UNCHANGED <<stable, stored, session, inbox, answered, hears, listed, poll, owed>>
          /\ ws = "connecting" /\ (stable \/ UNCHANGED waits)
      BY <2>6, Zenon DEF SocketOpens, storeVars, talkVars, audioVars
    <3>2. CASE stable
      BY <1>n, <3>1, <3>2 DEF Connected
    <3>3. CASE ~stable
      <4>1. Connected
        BY <3>1, <3>3 DEF Connected
      <4>2. \A c \in Channel : Waits(c)' <=> Waits(c)
        BY <3>1, <3>3 DEF Waits
      <4> QED BY <3>1, <4>1, <4>2, PickKept
    <3> QED BY <3>2, <3>3
  <2>7. CASE SessionSubscriber
    <3>1. /\ UNCHANGED <<ws, stable, stored, poll, owed, listed, waits, answered, hears>>
          /\ session = "none"
          /\ \/ session' = "open" /\ SendMessage("session_received", None)
             \/ session' = "refused" /\ SendMessage("error", None)
      BY <2>7, Zenon DEF SessionSubscriber, connVars, storeVars, pickVars, audioVars
    <3>2. inbox \in Seq(Message)
      BY Zenon DEF TypeOK
    <3>3. "session_received" # "sd_answer" /\ "error" # "sd_answer"
      OBVIOUS
    <3>4. \A d : Granted(d)' => Granted(d)
      BY <3>1, <3>2, <3>3, SendGrants, MessagesTyped, Zenon
    <3>5. \A d : Waits(d)' <=> Waits(d)
      BY <3>1, Zenon DEF Waits
    <3>6. PollInv'
      BY <3>1, <3>4, <3>5, Zenon DEF PollInv, Connected
    <3>7. CASE session' = "refused"
      BY <3>6, <3>7, Zenon DEF PickInv
    <3>8. CASE SendMessage("session_received", None)
      <4>1. Pending("session_received")'
        BY <3>2, <3>8, SendAdds, MessagesTyped, Zenon
      <4> QED BY <3>6, <4>1, Zenon DEF PickInv, Recovers
    <3> QED BY <3>1, <3>7, <3>8
  <2>8. CASE SocketCloses
    <3>1. session' = "none" /\ inbox' = <<>> /\ ~answered' /\ ~poll' /\ owed' = 0
      BY <2>8, Zenon DEF SocketCloses
    <3> QED BY <1>1, <3>1 DEF PollInv
  <2> QED BY <1>4, <1>n, <2>1, <2>2, <2>3, <2>4, <2>5, <2>6, <2>7, <2>8, Zenon DEF Talk
<1> QED BY <1>2, <1>3, <1>4, StepKinds

LEMMA PickInvariant == Spec => [](PollInv /\ PickInv)
<1>1. Init => PollInv /\ PickInv
  <2> SUFFICES ASSUME Init PROVE PollInv /\ PickInv
      OBVIOUS
  <2>1. session = "none" /\ inbox = <<>> /\ ~answered /\ waits = [c \in Channel |-> 0]
    BY Zenon DEF Init
  <2>2. (\A d : ~Granted(d)) /\ (\A d : ~Waits(d))
    BY <2>1, NoneGranted DEF Waits
  <2> QED BY <2>1, <2>2 DEF PollInv, PickInv, Heading
<1>2. TypeOK /\ SoundInv /\ PollInv /\ PickInv /\ [Next]_vars => PollInv' /\ PickInv'
  BY PickStep, Zenon DEF SoundInv
<1> QED BY <1>1, <1>2, TypeCorrect, SoundInvariant, PTL DEF Spec

\* Once the intervals, of connections before too, and the messages are through,
\* a page over WebRTC that plays plays the channel picked last, if that channel
\* still has a button.
THEOREM PlaysPicked == Spec => []PlaysPickedChannel
<1>1. TypeOK /\ SoundInv /\ PollInv /\ PickInv => PlaysPickedChannel
  <2> SUFFICES ASSUME TypeOK, TalkInv, AnswerInv, PickInv, ~stable, ws = "open", audio \in Running,
                      inbox = <<>>, \A c \in Channel : waits[c] = 0, stored \in listed
               PROVE  hears = stored
      BY Zenon DEF SoundInv, PlaysPickedChannel
  <2>1. Connected /\ Attached
    BY DEF Connected, Attached
  <2>2. Heading(hears) /\ hears \in Channel \cup {None}
    BY <2>1, Zenon DEF AnswerInv, Heading, Granted, TypeOK
  <2>3. \A key : ~Pending(key)
    BY RangeEmpty DEF Pending
  <2>4. ~Recovers
    BY <2>3 DEF Recovers, Waits
  <2>5. session # "refused"
    BY <2>3 DEF TalkInv
  <2> QED BY <2>1, <2>2, <2>4, <2>5, Zenon DEF PickInv
<1> QED BY <1>1, TypeCorrect, SoundInvariant, PickInvariant, PTL

-----------------------------------------------------------------------------
(* The spinner.                                                            *)

\* The server answers a session once.
OneAnswer ==
    /\ \A i, j \in 1 .. Len(inbox) :
          inbox[i].key = "sd_answer" /\ inbox[j].key = "sd_answer" => i = j
    /\ answered => ~Pending("sd_answer")

\* ICE starts with the answer.
IceInv == ~answered => ice = "new"

\* Whoever shows the spinner has set the loading timer, or ICE is under way,
\* which hides it or reloads the page.
SpinInv == ~stable /\ spinner => loading # Off \/ (answered /\ ice = "new")

LEMMA PendingAt ==
    ASSUME NEW key
    PROVE  inbox \in Seq(Message)
             => (Pending(key) <=> \E i \in 1 .. Len(inbox) : inbox[i].key = key)
BY RangeEquality DEF Pending

LEMMA OneAnswerStep == TypeOK /\ TalkInv /\ OneAnswer /\ [Next]_vars => OneAnswer'
<1> SUFFICES ASSUME TypeOK, TalkInv, OneAnswer, [Next]_vars PROVE OneAnswer'
    OBVIOUS
<1>t. inbox \in Seq(Message)
  BY Zenon DEF TypeOK
<1>p. Pending("sd_answer") <=> \E i \in 1 .. Len(inbox) : inbox[i].key = "sd_answer"
  BY <1>t, PendingAt
<1>u. ASSUME UNCHANGED talkVars PROVE OneAnswer'
  BY <1>u DEF talkVars, OneAnswer, Pending
<1>1. ASSUME inbox' = <<>>, answered' = FALSE PROVE OneAnswer'
  BY <1>1, EmptySeq DEF OneAnswer
<1>2. ASSUME NEW key, NEW c, [key |-> key, channel |-> c] \in Message, SendMessage(key, c),
             UNCHANGED answered, key = "sd_answer" => session = "open"
      PROVE  OneAnswer'
  <2>1. /\ Len(inbox) \in Nat /\ Len(inbox') = Len(inbox) + 1
        /\ \A i \in 1 .. Len(inbox) : inbox'[i] = inbox[i]
        /\ inbox'[Len(inbox) + 1].key = key
    BY <1>t, <1>2, AppendProperties, LenProperties DEF SendMessage
  <2>2. Pending("sd_answer")' <=> Pending("sd_answer") \/ key = "sd_answer"
    BY <1>t, <1>2, SendAdds
  <2>3. key = "sd_answer" => ~answered /\ ~Pending("sd_answer")
    BY <1>2 DEF TalkInv
  <2>4. ASSUME NEW i \in 1 .. Len(inbox'), NEW j \in 1 .. Len(inbox'),
               inbox'[i].key = "sd_answer", inbox'[j].key = "sd_answer"
        PROVE  i = j
    <3>1. CASE key = "sd_answer"
      BY <1>p, <2>1, <2>3, <2>4, <3>1
    <3>2. CASE key # "sd_answer"
      BY <2>1, <2>4, <3>2 DEF OneAnswer
    <3> QED BY <3>1, <3>2
  <2> QED BY <1>2, <2>2, <2>3, <2>4 DEF OneAnswer
<1>3. ASSUME inbox # <<>>, inbox' = Tail(inbox),
             answered' = answered \/ Head(inbox).key = "sd_answer"
      PROVE  OneAnswer'
  <2>1. /\ Len(inbox) \in Nat \ {0} /\ Len(inbox') = Len(inbox) - 1 /\ inbox' \in Seq(Message)
        /\ \A i \in 1 .. Len(inbox') : inbox'[i] = inbox[i + 1]
        /\ Head(inbox) = inbox[1]
    BY <1>t, <1>3, EmptySeq, LenProperties, HeadTailProperties
  <2>2. \A i \in 1 .. Len(inbox') : i + 1 \in 1 .. Len(inbox) /\ i + 1 # 1
    BY <2>1
  <2>3. 1 \in 1 .. Len(inbox)
    BY <2>1
  <2>4. Pending("sd_answer")' <=> \E i \in 1 .. Len(inbox') : inbox'[i].key = "sd_answer"
    BY <2>1, RangeEquality DEF Pending
  <2>5. Pending("sd_answer")' => Pending("sd_answer") /\ Head(inbox).key # "sd_answer"
    BY <1>p, <2>1, <2>2, <2>3, <2>4 DEF OneAnswer
  <2>6. \A i, j \in 1 .. Len(inbox') :
           inbox'[i].key = "sd_answer" /\ inbox'[j].key = "sd_answer" => i = j
    BY <2>1, <2>2 DEF OneAnswer
  <2> QED BY <1>3, <2>5, <2>6 DEF OneAnswer
<1>4. CASE LoadPage
  BY <1>1, <1>4, Zenon DEF LoadPage
<1>5. CASE Quiet
  BY <1>5, <1>u, Zenon DEF Quiet
<1>6. CASE Talk
  <2>1. ASSUME NEW c \in Channel, ChannelClick(c) \/ WaitForElementExpires(c) PROVE OneAnswer'
    BY <1>u, <2>1, Zenon DEF ChannelClick, WaitForElementExpires
  <2>2. ASSUME NEW c \in Channel, WaitForElement(c) PROVE OneAnswer'
    <3>1. UNCHANGED talkVars \/ ConnectSubscriber(c)
      BY <2>2, Zenon DEF WaitForElement
    <3>2. "error" # "sd_answer"
      OBVIOUS
    <3> QED BY <1>u, <1>2, <3>1, <3>2, MessagesTyped, Zenon DEF ConnectSubscriber
  <2>3. CASE GetChannels
    BY <1>u, <2>3, Zenon DEF GetChannels
  <2>4. ASSUME NEW channels \in SUBSET Channel, UpdateChannels(channels) PROVE OneAnswer'
    BY <1>u, <2>4, Zenon DEF UpdateChannels
  <2>5. CASE SessionReceived
    BY <1>3, <2>5, Zenon DEF SessionReceived
  <2>6. CASE StartSession
    BY <1>3, <2>6, Zenon DEF StartSession
  <2>7. CASE SocketOpens
    BY <1>u, <2>7, Zenon DEF SocketOpens
  <2>8. CASE SessionSubscriber
    <3>1. "error" # "sd_answer" /\ "session_received" # "sd_answer"
      OBVIOUS
    <3> QED BY <1>2, <2>8, <3>1, MessagesTyped, Zenon DEF SessionSubscriber
  <2>9. CASE SocketCloses
    BY <1>1, <2>9, Zenon DEF SocketCloses
  <2> QED BY <1>6, <2>1, <2>2, <2>3, <2>4, <2>5, <2>6, <2>7, <2>8, <2>9 DEF Talk
<1> QED BY <1>4, <1>5, <1>6, StepKinds

\* Where an answer is taken, it is the first: ICE has not started.
LEMMA FirstAnswer ==
    TypeOK /\ OneAnswer /\ IceInv /\ StartSession => ~answered /\ ice = "new"
<1> SUFFICES ASSUME TypeOK, OneAnswer, IceInv, StartSession PROVE ~answered /\ ice = "new"
    OBVIOUS
<1>1. inbox \in Seq(Message) /\ inbox # <<>> /\ Head(inbox).key = "sd_answer"
  BY Zenon DEF TypeOK, StartSession
<1>2. Len(inbox) \in Nat \ {0} /\ Head(inbox) = inbox[1]
  BY <1>1, EmptySeq, LenProperties
<1>3. Pending("sd_answer")
  BY <1>1, <1>2, PendingAt
<1> QED BY <1>3, Zenon DEF OneAnswer, IceInv

LEMMA SpinStep ==
    TypeOK /\ OneAnswer /\ IceInv /\ SpinInv /\ [Next]_vars => IceInv' /\ SpinInv'
<1> DEFINE Goal == IceInv' /\ SpinInv'
<1> SUFFICES ASSUME TypeOK, OneAnswer, IceInv, SpinInv, [Next]_vars PROVE Goal
    OBVIOUS
<1> USE DEF Reload
<1>o. \A n \in Nat : n # Off
  BY DEF Off
<1>n. /\ LoadingTimeout \in Nat
      /\ loading \in Off .. StableTimeout /\ StableTimeout \in Nat
  BY PeriodsOrdered, Zenon DEF TypeOK
<1>u. ASSUME UNCHANGED <<stable, answered, ice, spinner, loading>> PROVE Goal
  BY <1>u, Zenon DEF IceInv, SpinInv
<1>i. ASSUME UNCHANGED <<answered, ice>>, stable' \/ ~spinner' \/ loading' \in Nat PROVE Goal
  BY <1>i, <1>o, Zenon DEF IceInv, SpinInv
<1>1. CASE LoadPage
  BY <1>o, <1>n, <1>1, Zenon DEF LoadPage, InitializeCommon, IceInv, SpinInv
<1>2. CASE User
  <2>1. ASSUME NEW c \in Channel, ChannelClick(c) PROVE Goal
    <3>1. UNCHANGED <<answered, ice, stable>> /\ (stable \/ loading' = LoadingTimeout)
      BY <2>1, Zenon DEF ChannelClick, TriggerNewConnection, connVars, talkVars
    <3> QED BY <1>i, <1>n, <3>1, Zenon
  <2>2. CASE Toggle
    <3>1. UNCHANGED <<answered, ice, stable>>
      BY <2>2, Zenon DEF Toggle, connVars, talkVars, storeVars
    <3>2. stable \/ ~spinner' \/ loading' = LoadingTimeout
      BY <2>2, Zenon DEF Toggle, PauseAudio, OnPause, PlayAudio, CanPlayThrough
    <3> QED BY <1>i, <1>n, <3>1, <3>2, Zenon
  <2>3. CASE PlayingChannelClick \/ PlayButton \/ MediaSession \/ ToggleStableMode
    BY <1>1, <2>2, <2>3 DEF PlayingChannelClick, PlayButton, MediaSession, ToggleStableMode
  <2> QED BY <1>1, <1>2, <2>1, <2>2, <2>3, Zenon DEF User
<1>3. CASE Media
  <2>1. UNCHANGED <<answered, ice, stable>>
    BY <1>3, Zenon DEF Media, AutoPlay, AudioStalls, AudioResumes, AudioEnds, connVars, talkVars, storeVars
  <2>2. CASE AutoPlay \/ AudioEnds
    BY <1>i, <2>1, <2>2, Zenon DEF AutoPlay, AudioEnds, CanPlayThrough, OnPause
  <2>3. CASE AudioStalls
    <3>1. stable \/ loading' = LoadingTimeout \/ UNCHANGED <<spinner, loading>>
      BY <2>3, Zenon DEF AudioStalls, OnWaiting, waitVars
    <3> QED BY <1>i, <1>n, <1>u, <2>1, <3>1, Zenon
  <2>4. CASE AudioResumes
    <3>1. ~spinner' \/ UNCHANGED <<spinner, loading>>
      BY <2>4, Zenon DEF AudioResumes, CanPlayThrough, waitVars
    <3> QED BY <1>i, <1>u, <2>1, <3>1, Zenon
  <2> QED BY <1>3, <2>2, <2>3, <2>4 DEF Media
<1>4. CASE Timers
  <2>1. CASE Tick
    <3>1. CASE StallCheckReloads
      BY <1>1, <3>1 DEF StallCheckReloads
    <3>2. CASE ~StallCheckReloads
      <4>1. /\ UNCHANGED <<answered, ice, stable, spinner>> /\ loading # 0
            /\ TimePasses \/ ChecksStall
        BY <2>1, <3>2, Zenon DEF Tick, connVars, talkVars, storeVars, TimePasses, ChecksStall
      <4>2. stable \/ loading' = CountDown(loading)
        BY <4>1, Zenon DEF TimePasses, ChecksStall
      <4>3. loading = Off \/ CountDown(loading) \in Nat
        BY <1>n, <4>1 DEF CountDown, Off
      <4>4. loading = Off => CountDown(loading) = loading
        BY Zenon DEF CountDown
      <4> QED BY <1>i, <1>u, <4>1, <4>2, <4>3, <4>4, Zenon
    <3> QED BY <3>1, <3>2
  <2>2. CASE LoadingTimesOut
    BY <1>1, <2>2 DEF LoadingTimesOut
  <2>3. CASE IceTimerFires
    BY <1>1, <1>u, <2>3, Zenon DEF IceTimerFires, talkVars, storeVars, waitVars
  <2>4. CASE ConnectionLost \/ GetChannels
    BY <1>u, <2>4, Zenon DEF ConnectionLost, GetChannels, connVars, talkVars, storeVars, waitVars
  <2>5. ASSUME NEW of \in pausing, PauseTimerFires(of) PROVE Goal
    BY <1>u, <2>5, Zenon DEF PauseTimerFires, connVars, talkVars, storeVars, waitVars
  <2>6. ASSUME NEW c \in Channel, WaitForElementExpires(c) PROVE Goal
    BY <1>u, <2>6, Zenon DEF WaitForElementExpires, connVars, talkVars, storeVars, waitVars
  <2>7. ASSUME NEW c \in Channel, WaitForElement(c) PROVE Goal
    <3>1. UNCHANGED <<answered, ice, stable>>
      BY <2>7, Zenon DEF WaitForElement, ConnectSubscriber, connVars, talkVars, storeVars
    <3>2. stable \/ loading' = LoadingTimeout
      BY <2>7, Zenon DEF WaitForElement
    <3> QED BY <1>i, <1>n, <3>1, <3>2, Zenon
  <2> QED BY <1>4, <2>1, <2>2, <2>3, <2>4, <2>5, <2>6, <2>7 DEF Timers
<1>5. CASE Messages
  <2>1. CASE SessionReceived
    BY <1>i, <2>1, Zenon DEF SessionReceived, RevealChannelsAndAutoConnect, connVars
  <2>2. CASE StartSession
    <3>1. answered' /\ ice' = ice
      BY <2>2, Zenon DEF StartSession, connVars
    <3> QED BY <2>2, <3>1, FirstAnswer, Zenon DEF IceInv, SpinInv
  <2>3. CASE ErrorMessage
    BY <1>1, <2>3 DEF ErrorMessage
  <2>4. ASSUME NEW channels \in SUBSET Channel, UpdateChannels(channels) PROVE Goal
    BY <1>u, <2>4, Zenon DEF UpdateChannels, connVars, talkVars, storeVars, waitVars
  <2> QED BY <1>5, <2>1, <2>2, <2>3, <2>4 DEF Messages
<1>6. CASE Network
  <2>1. CASE SocketOpens
    <3>1. UNCHANGED <<answered, ice, stable>> /\ (stable \/ UNCHANGED <<spinner, loading>>)
      BY <2>1, Zenon DEF SocketOpens, talkVars, storeVars, waitVars
    <3> QED BY <1>i, <1>u, <3>1, Zenon
  <2>2. CASE SocketCloses
    <3>1. ice' = "new" /\ loading' = LoadingTimeout
      BY <2>2, Zenon DEF SocketCloses, InitializeCommon
    <3> QED BY <1>o, <1>n, <3>1, Zenon DEF IceInv, SpinInv
  <2>3. CASE SessionSubscriber
    BY <1>u, <2>3, Zenon DEF SessionSubscriber, connVars, storeVars, waitVars
  <2>4. CASE IceConnects
    BY <2>4, Zenon DEF IceConnects, talkVars, IceInv, SpinInv
  <2>5. CASE IceDisconnects
    <3>1. /\ UNCHANGED <<stable, answered, spinner, loading>> /\ ice = "connected"
      BY <2>5, Zenon DEF IceDisconnects, IceDisconnected, talkVars, storeVars, waitVars
    <3>2. ice # "new"
      BY <3>1
    <3> QED BY <3>1, <3>2, Zenon DEF IceInv, SpinInv
  <2>6. CASE IceFails
    BY <1>1, <2>6 DEF IceFails
  <2> QED BY <1>6, <2>1, <2>2, <2>3, <2>4, <2>5, <2>6 DEF Network, SocketLost, SocketClosed
<1>7. CASE UNCHANGED vars
  BY <1>u, <1>7, Zenon DEF vars, connVars, talkVars, storeVars, waitVars
<1> QED BY <1>2, <1>3, <1>4, <1>5, <1>6, <1>7 DEF Next

\* Over WebRTC nobody shows the spinner and leaves it at that: the loading timer
\* runs, or an answer was taken and ICE has neither connected, which hides the
\* spinner, nor failed, which reloads the page.  It is the safe half of
\* SpinnerEnds.
THEOREM SpinnerIsTimed ==
    Spec => [](~stable /\ spinner => loading # Off \/ (answered /\ ice = "new"))
<1>1. Init => OneAnswer /\ IceInv /\ SpinInv
  <2> SUFFICES ASSUME Init PROVE OneAnswer /\ IceInv /\ SpinInv
      OBVIOUS
  <2>1. ice = "new" /\ inbox = <<>> /\ ~answered /\ loading = LoadingTimeout
    BY Zenon DEF Init, ConnInit
  <2>2. loading # Off
    BY <2>1, PeriodsOrdered DEF Off
  <2>3. OneAnswer
    BY <2>1, EmptySeq DEF OneAnswer
  <2> QED BY <2>1, <2>2, <2>3, Zenon DEF IceInv, SpinInv
<1>2. TypeOK /\ SoundInv /\ OneAnswer /\ IceInv /\ SpinInv /\ [Next]_vars
      => OneAnswer' /\ IceInv' /\ SpinInv'
  BY OneAnswerStep, SpinStep, Zenon DEF SoundInv
<1> QED BY <1>1, <1>2, TypeCorrect, SoundInvariant, PTL DEF Spec, SpinInv
=============================================================================
