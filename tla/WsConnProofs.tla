---------------------------- MODULE WsConnProofs ----------------------------
(***************************************************************************)
(* Proofs about WsConn.  OneWriter is inductive once every place that      *)
(* writes or tears down is tied to the holder of the mutex: HoldsLock.     *)
(* Read the other way, it says that the mutex is always given back.        *)
(* SessionGrain proves what Session takes for granted of a connection.     *)
(***************************************************************************)
EXTENDS WsConn, SequenceTheorems, TLAPS

LEMMA InitTypes == Init => TypeOK
<1> SUFFICES ASSUME Init PROVE TypeOK
    OBVIOUS
<1>1. publishes \in BOOLEAN /\ gone \in BOOLEAN
      /\ registered \in BOOLEAN /\ renamed \in BOOLEAN /\ told \in BOOLEAN
  BY Zenon DEF Init
<1> QED BY <1>1, MaxWireIsNat DEF Init, TypeOK, Place

LEMMA TypeStep == TypeOK /\ [Next]_vars => TypeOK'
<1> SUFFICES ASSUME TypeOK, [Next]_vars PROVE TypeOK'
    OBVIOUS
<1> USE DEF clientVars, mainVars, otherVars, serverVars, Reply, Fail
<1>1. CASE Environment
  <2>1. ASSUME NEW key \in Key, Send(key) PROVE TypeOK'
    BY <2>1, MaxWireIsNat DEF TypeOK, Send
  <2>2. CASE Hangup \/ Unreadable \/ ChannelCloses
    BY <2>2 DEF TypeOK, Hangup, Unreadable, ChannelCloses
  <2> QED BY <1>1, <2>1, <2>2 DEF Environment
<1>2. CASE Main
  <2>1. CASE TakeMessage \/ Leave \/ TakeInfo
    <3>1. CASE TakeMessage
      BY <3>1 DEF TypeOK, TakeMessage, Place
    <3>2. CASE TakeInfo
      BY <3>2 DEF TypeOK, TakeInfo, Place
    <3>3. CASE Leave
      BY <3>3 DEF TypeOK, Leave, Place
    <3> QED BY <2>1, <3>1, <3>2, <3>3
  <2>2. CASE ReceiveTrack \/ Register \/ BadName
    <3>1. CASE ReceiveTrack \/ BadName
      BY <3>1 DEF TypeOK, ReceiveTrack, BadName, Place
    <3>2. CASE Register
      <4>1. registered' \in BOOLEAN
        BY <3>2, Zenon DEF Register, TypeOK
      <4>2. /\ main' \in {"select", "lock"} /\ watch' \in {watch, "waiting"}
            /\ left' \in {left, 1} /\ after' \in {after, "close"}
        BY <3>2, Zenon DEF Register
      <4> QED BY <3>2, <4>1, <4>2 DEF TypeOK, Register, Place
    <3> QED BY <2>2, <3>1, <3>2
  <2>3. CASE Handle
    <3>1. renamed' \in BOOLEAN
      BY <2>3, Zenon DEF TypeOK, Handle, HandleCandidate, HandleGetChannels, HandleSession,
                         HandleConnect, ConnectPublisher, ConnectSubscriber
    <3>2. /\ main' \in {"select", "lock", "await"} /\ left' \in {left, 1, 2}
          /\ after' \in {after, "select", "register", "close"}
          /\ peer' \in {peer, "offered", "answered"}
      BY <2>3 DEF Handle, HandleCandidate, HandleGetChannels, HandleSession,
                  HandleConnect, ConnectPublisher, ConnectSubscriber
    <3>3. UNCHANGED <<clientVars, otherVars, reader, mu, registered, told>>
      BY <2>3, Zenon DEF Handle
    <3> QED BY <3>1, <3>2, <3>3 DEF TypeOK, Place
  <2>4. CASE Lock
    BY <2>4 DEF TypeOK, Lock, Place
  <2>5. CASE Write
    BY <2>5 DEF TypeOK, Write, Written, WriteFails, Place
  <2>6. CASE Unregister \/ Teardown
    BY <2>6 DEF TypeOK, Unregister, Teardown, Place
  <2> QED BY <1>2, <2>1, <2>2, <2>3, <2>4, <2>5, <2>6 DEF Main
<1>3. CASE Others
  <2>1. CASE Read
    BY <2>1, MaxWireIsNat DEF TypeOK, Read
  <2>2. CASE ReadFails \/ IceChanges \/ TrackHandler
    BY <2>2 DEF TypeOK, ReadFails, IceChanges, TrackHandler, TrackComes, TrackEnds
  <2>3. CASE Watcher
    BY <2>3 DEF TypeOK, Watcher, WatcherIsTold, WatcherLocks, WatcherWrites, WatcherQuits
  <2>4. CASE OnIceCandidate
    BY <2>4 DEF TypeOK, OnIceCandidate, CandidateComes, CandidateLocks, CandidateWritten
  <2> QED BY <1>3, <2>1, <2>2, <2>3, <2>4 DEF Others
<1>4. CASE UNCHANGED vars
  BY <1>4 DEF vars, TypeOK
<1> QED BY <1>1, <1>2, <1>3, <1>4 DEF Next

-----------------------------------------------------------------------------
(* Close.                                                                  *)

\* Close alone closes the peer connection, and takes the connection out of the
\* registry before, unless it looks in a channel it was not registered with.
ClosesLast ==
    /\ registered => renamed \/ main \notin {"teardown", "closed"}
    /\ (peer = "closed") <=> (main = "closed")

LEMMA CloseKept ==
    ASSUME ClosesLast, UNCHANGED registered,
           \/ UNCHANGED <<main, peer, renamed>>
           \/ /\ {main, main'} \cap {"teardown", "closed"} = {}
              /\ peer' = peer \/ peer' # "closed"
    PROVE  ClosesLast'
<1>1. (peer' = "closed") <=> (main' = "closed")
  BY DEF ClosesLast
<1>2. main' \in {"teardown", "closed"} => main' = main /\ renamed' = renamed
  OBVIOUS
<1> QED BY <1>1, <1>2, Zenon DEF ClosesLast

LEMMA CloseStep == TypeOK /\ ClosesLast /\ [Next]_vars => ClosesLast'
<1> SUFFICES ASSUME TypeOK, ClosesLast, [Next]_vars PROVE ClosesLast'
    OBVIOUS
<1> USE DEF mainVars, serverVars, Reply, Fail
<1>1. CASE Environment
  <2>1. UNCHANGED <<registered, main, peer, renamed>>
    BY <1>1, Zenon DEF Environment, Send, Hangup, Unreadable, ChannelCloses
  <2> QED BY <2>1, CloseKept
<1>2. CASE Main
  <2>1. CASE TakeMessage \/ Leave \/ TakeInfo \/ ReceiveTrack \/ BadName \/ Lock \/ Write
    <3>1. UNCHANGED <<registered, peer>>
      BY <2>1, Zenon DEF TakeMessage, Leave, TakeInfo, ReceiveTrack, BadName, Lock, Write
    <3>2. {main, main'} \cap {"teardown", "closed"} = {}
      BY <2>1 DEF TypeOK, Key, TakeMessage, Leave, TakeInfo, ReceiveTrack, BadName, Lock,
                  Write, Written, WriteFails
    <3> QED BY <3>1, <3>2, CloseKept
  <2>2. CASE Handle
    <3>1. UNCHANGED registered
      BY <2>2, Zenon DEF Handle
    <3>2. /\ {main, main'} \cap {"teardown", "closed"} = {}
          /\ peer' = peer \/ peer' # "closed"
      BY <2>2 DEF Handle, HandleCandidate, HandleGetChannels, HandleSession, HandleConnect,
                  ConnectPublisher, ConnectSubscriber
    <3> QED BY <3>1, <3>2, CloseKept
  <2>3. CASE Register
    <3>1. main # "closed" /\ main' \notin {"teardown", "closed"} /\ UNCHANGED peer
      BY <2>3 DEF Register
    <3> QED BY <3>1 DEF ClosesLast
  <2>4. CASE Unregister
    <3>1. main # "closed" /\ main' # "closed" /\ UNCHANGED peer
      BY <2>4 DEF Unregister
    <3>2. registered' => renamed'
      BY <2>4, Zenon DEF Unregister
    <3> QED BY <3>1, <3>2, Zenon DEF ClosesLast
  <2>5. CASE Teardown
    <3>1. main = "teardown" /\ UNCHANGED <<registered, renamed>> /\ main' = "closed" /\ peer' = "closed"
      BY <2>5, Zenon DEF Teardown
    <3>2. registered' => renamed'
      BY <3>1, Zenon DEF ClosesLast
    <3> QED BY <3>1, <3>2, Zenon DEF ClosesLast
  <2> QED BY <1>2, <2>1, <2>2, <2>3, <2>4, <2>5 DEF Main
<1>3. CASE Others
  <2>1. UNCHANGED <<registered, main, peer, renamed>>
    BY <1>3, Zenon DEF Others, Read, ReadFails, Watcher, OnIceCandidate, IceChanges, TrackHandler
  <2> QED BY <2>1, CloseKept
<1>4. CASE UNCHANGED vars
  <2>1. UNCHANGED <<registered, main, peer, renamed>>
    BY <1>4, Zenon DEF vars
  <2> QED BY <2>1, CloseKept
<1> QED BY <1>1, <1>2, <1>3, <1>4 DEF Next

-----------------------------------------------------------------------------
(* One answer.  A subscriber may connect any number of times, but only an  *)
(* offer is answered and the client sends one: there is one at most on its *)
(* way from the wire over the reader to its handler, and so one watcher.   *)

OnWire == \E i \in 1 .. Len(wire) : wire[i] = "session"

\* A subscriber's connect_subscriber from its answer to AddSubscriber.
Negotiating == main = "register" \/ (main \in {"lock", "write"} /\ after = "register")

Unoffered == main # "session" /\ peer \in {"new", "closed"}

OffersOnce ==
    /\ \A i, j \in 1 .. Len(wire) : wire[i] = "session" /\ wire[j] = "session" => i = j
    /\ "session" \notin sent => ~OnWire /\ reader # "session" /\ Unoffered
    /\ OnWire => reader # "session"
    /\ OnWire \/ reader = "session" => Unoffered
    /\ main = "session" => "session" \in sent /\ peer = "new"

AnswersOnce ==
    /\ Negotiating => peer = "answered" /\ watch = "none"
    /\ watch # "none" => peer \in {"answered", "closed"}

LEMMA InitOffers == Init => OffersOnce
<1> SUFFICES ASSUME Init PROVE OffersOnce
    OBVIOUS
<1>1. Len(wire) = 0
  BY EmptySeq DEF Init
<1> QED BY <1>1 DEF Init, OffersOnce, OnWire, Unoffered

\* The client sends: an offer is new, and nothing else becomes one.
LEMMA SendOffers ==
    ASSUME TypeOK, OffersOnce, NEW key \in Key, Send(key)
    PROVE  OffersOnce'
<1> USE DEF mainVars, otherVars, clientVars
<1>1. /\ Len(wire) \in Nat /\ Len(wire') = Len(wire) + 1
      /\ \A i \in 1 .. Len(wire) : wire'[i] = wire[i]
      /\ wire'[Len(wire) + 1] = key
  BY AppendProperties, LenProperties DEF TypeOK, Send
<1>2. UNCHANGED <<reader, main, peer>>
  BY DEF Send
<1>3. key = "session" => "session" \notin sent /\ ~OnWire /\ Unoffered
  BY DEF Send, OffersOnce
<1>4. OnWire' <=> OnWire \/ key = "session"
  BY <1>1 DEF OnWire
<1>5. "session" \in sent' <=> "session" \in sent \/ key = "session"
  BY DEF Send, SentOnce
<1>6. ASSUME NEW i \in 1 .. Len(wire'), NEW j \in 1 .. Len(wire'),
             wire'[i] = "session", wire'[j] = "session"
      PROVE  i = j
  <2>1. CASE key = "session"
    BY <1>1, <1>3, <1>6, <2>1 DEF OnWire
  <2>2. CASE key # "session"
    BY <1>1, <1>6, <2>2 DEF OffersOnce
  <2> QED BY <2>1, <2>2
<1> QED BY <1>2, <1>3, <1>4, <1>5, <1>6 DEF OffersOnce, Unoffered

\* The reader takes a message: no second offer stays behind it.
LEMMA ReadOffers == TypeOK /\ OffersOnce /\ Read => OffersOnce'
<1> SUFFICES ASSUME TypeOK, OffersOnce, Read PROVE OffersOnce'
    OBVIOUS
<1> USE DEF mainVars, otherVars
<1>1. /\ Len(wire) \in Nat \ {0} /\ Len(wire') = Len(wire) - 1
      /\ \A i \in 1 .. Len(wire') : wire'[i] = wire[i + 1]
      /\ reader' = wire[1]
  BY HeadTailProperties, EmptySeq, LenProperties DEF TypeOK, Read
<1>2. UNCHANGED <<sent, main, peer>>
  BY DEF Read
<1>3. \A i \in 1 .. Len(wire') : i \in 1 .. Len(wire) /\ i + 1 \in 1 .. Len(wire)
  BY <1>1
<1>4. OnWire' \/ reader' = "session" => OnWire
  BY <1>1, <1>3 DEF OnWire
<1>5. OnWire' => reader' # "session"
  BY <1>1, <1>3 DEF OnWire, OffersOnce
<1>6. \A i, j \in 1 .. Len(wire') : wire'[i] = "session" /\ wire'[j] = "session" => i = j
  BY <1>1, <1>3 DEF OffersOnce
<1> QED BY <1>2, <1>4, <1>5, <1>6 DEF OffersOnce, Unoffered

\* A step that leaves the wire alone keeps what there is on it.
LEMMA WireKept ==
    ASSUME OffersOnce, UNCHANGED <<wire, sent>>,
           reader' = "session" => reader = "session",
           main' = "session" =>
               \/ main = "session" /\ UNCHANGED peer
               \/ reader = "session" /\ reader' # "session" /\ peer = "new" /\ UNCHANGED peer,
           \/ UNCHANGED peer
           \/ peer' = "closed"
           \/ main = "session"
           \/ peer = "offered"
    PROVE  OffersOnce'
<1>1. OnWire' <=> OnWire
  BY DEF OnWire
<1> QED BY <1>1 DEF OffersOnce, Unoffered

LEMMA OfferStep == TypeOK /\ ClosesLast /\ OffersOnce /\ [Next]_vars => OffersOnce'
<1> SUFFICES ASSUME TypeOK, ClosesLast, OffersOnce, [Next]_vars PROVE OffersOnce'
    OBVIOUS
<1> USE DEF clientVars, mainVars, otherVars, Reply, Fail
<1>1. CASE Environment
  BY <1>1, SendOffers, WireKept DEF Environment, Hangup, Unreadable, ChannelCloses
<1>2. CASE Main
  <2>1. CASE TakeMessage
    <3>1. reader = "session" => peer = "new"
      BY <2>1 DEF TakeMessage, OffersOnce, Unoffered, ClosesLast
    <3> QED BY <2>1, <3>1, WireKept DEF TakeMessage, Key
  <2>2. CASE Leave \/ TakeInfo \/ ReceiveTrack
    BY <2>2, WireKept DEF Leave, TakeInfo, ReceiveTrack
  <2>3. CASE Register \/ BadName
    BY <2>3, WireKept DEF Register, BadName
  <2>4. CASE Handle
    BY <2>4, WireKept DEF Handle, HandleCandidate, HandleGetChannels, HandleSession,
                          HandleConnect, ConnectPublisher, ConnectSubscriber
  <2>5. CASE Lock \/ Unregister \/ Teardown
    BY <2>5, WireKept DEF Lock, Unregister, Teardown
  <2>6. CASE Write
    BY <2>6, WireKept DEF TypeOK, Write, Written, WriteFails
  <2> QED BY <1>2, <2>1, <2>2, <2>3, <2>4, <2>5, <2>6 DEF Main
<1>3. CASE Others
  <2>1. CASE Read
    BY <2>1, ReadOffers
  <2>2. CASE ReadFails \/ Watcher \/ OnIceCandidate \/ IceChanges \/ TrackHandler
    BY <2>2, WireKept DEF ReadFails, Watcher, OnIceCandidate, IceChanges, TrackHandler
  <2> QED BY <1>3, <2>1, <2>2 DEF Others
<1>4. CASE UNCHANGED vars
  BY <1>4, WireKept DEF vars
<1> QED BY <1>1, <1>2, <1>3, <1>4 DEF Next

\* No offer is answered, and no watcher started, by a step like this.
LEMMA AnswerKept ==
    ASSUME AnswersOnce, UNCHANGED peer \/ (peer' = "closed" /\ ~Negotiating'),
           Negotiating' => Negotiating,
           watch' # "none" => watch # "none"
    PROVE  AnswersOnce'
BY DEF AnswersOnce

LEMMA AnswerStep == TypeOK /\ OffersOnce /\ AnswersOnce /\ [Next]_vars => AnswersOnce'
<1> SUFFICES ASSUME TypeOK, OffersOnce, AnswersOnce, [Next]_vars PROVE AnswersOnce'
    OBVIOUS
<1> USE DEF clientVars, mainVars, otherVars, Reply, Fail, Negotiating
<1>1. CASE Environment
  BY <1>1, AnswerKept DEF Environment, Send, Hangup, Unreadable, ChannelCloses
<1>2. CASE Main
  <2>1. CASE TakeMessage
    BY <2>1, AnswerKept DEF TakeMessage, Key
  <2>2. CASE Leave \/ TakeInfo \/ ReceiveTrack \/ BadName
    BY <2>2, AnswerKept DEF Leave, TakeInfo, ReceiveTrack, BadName
  <2>3. CASE Register
    <3>1. peer' = peer /\ ~Negotiating'
      BY <2>3 DEF Register
    <3>2. watch' = watch \/ peer = "answered"
      BY <2>3 DEF Register, AnswersOnce
    <3> QED BY <3>1, <3>2 DEF AnswersOnce
  <2>4. CASE Handle
    <3>1. watch' = watch
      BY <2>4 DEF Handle
    <3>2. CASE HandleCandidate \/ HandleGetChannels
      BY <3>1, <3>2, AnswerKept DEF HandleCandidate, HandleGetChannels
    <3>3. CASE HandleSession
      BY <3>1, <3>3 DEF HandleSession, OffersOnce, AnswersOnce
    <3>4. CASE HandleConnect
      BY <3>1, <3>4 DEF HandleConnect, ConnectPublisher, ConnectSubscriber, AnswersOnce
    <3> QED BY <2>4, <3>2, <3>3, <3>4 DEF Handle
  <2>5. CASE Lock \/ Unregister \/ Teardown
    BY <2>5, AnswerKept DEF Lock, Unregister, Teardown
  <2>6. CASE Write
    BY <2>6, AnswerKept DEF TypeOK, Write, Written, WriteFails
  <2> QED BY <1>2, <2>1, <2>2, <2>3, <2>4, <2>5, <2>6 DEF Main
<1>3. CASE Others
  <2>1. CASE Watcher
    <3>1. watch # "none"
      BY <2>1 DEF Watcher, WatcherIsTold, WatcherLocks, WatcherWrites, WatcherQuits
    <3> QED BY <2>1, <3>1, AnswerKept DEF Watcher
  <2>2. CASE Read \/ ReadFails \/ OnIceCandidate \/ IceChanges \/ TrackHandler
    BY <2>2, AnswerKept DEF Read, ReadFails, OnIceCandidate, IceChanges, TrackHandler
  <2> QED BY <1>3, <2>1, <2>2 DEF Others
<1>4. CASE UNCHANGED vars
  BY <1>4, AnswerKept DEF vars
<1> QED BY <1>1, <1>2, <1>3, <1>4 DEF Next

-----------------------------------------------------------------------------
(* The mutex.                                                              *)

\* Whoever is in a critical section of the mutex holds it, and nobody else.
HoldsLock ==
    /\ (main \in {"write", "teardown"}) <=> (mu = "main")
    /\ (watch = "write") <=> (mu = "watcher")
    /\ (cand = "write") <=> (mu = "candidate")

\* A step that leaves the mutex alone enters and leaves no critical section.
LEMMA MutexKept ==
    ASSUME HoldsLock, mu' = mu,
           main' = main \/ {main, main'} \cap {"write", "teardown"} = {},
           watch' = watch \/ "write" \notin {watch, watch'},
           cand' = cand \/ "write" \notin {cand, cand'}
    PROVE  HoldsLock'
BY DEF HoldsLock

LEMMA InitLock == Init => HoldsLock
BY DEF Init, HoldsLock

LEMMA LockStep == TypeOK /\ AnswersOnce /\ HoldsLock /\ [Next]_vars => HoldsLock'
<1> SUFFICES ASSUME TypeOK, AnswersOnce, HoldsLock, [Next]_vars PROVE HoldsLock'
    OBVIOUS
<1> USE DEF mainVars, otherVars, Reply, Fail
<1>1. CASE Environment
  BY <1>1, MutexKept DEF Environment, Send, Hangup, Unreadable, ChannelCloses
<1>2. CASE Main
  <2>1. CASE TakeMessage
    BY <2>1, MutexKept DEF TakeMessage, Key
  <2>2. CASE Leave \/ TakeInfo \/ ReceiveTrack \/ BadName
    BY <2>2, MutexKept DEF Leave, TakeInfo, ReceiveTrack, BadName
  <2>8. CASE Register
    <3>1. watch' = watch \/ (watch = "none" /\ watch' = "waiting")
      BY <2>8 DEF Register, AnswersOnce, Negotiating
    <3> QED BY <2>8, <3>1, MutexKept DEF Register
  <2>3. CASE Handle
    BY <2>3, MutexKept DEF Handle, HandleCandidate, HandleGetChannels, HandleSession,
                           HandleConnect, ConnectPublisher, ConnectSubscriber
  <2>4. CASE Lock
    BY <2>4 DEF Lock, HoldsLock
  <2>5. CASE Write
    <3>1. main' \notin {"write", "teardown"}
      BY <2>5 DEF TypeOK, Write, Written, WriteFails
    <3> QED BY <2>5, <3>1 DEF Write, HoldsLock
  <2>6. CASE Unregister
    BY <2>6 DEF Unregister, HoldsLock
  <2>7. CASE Teardown
    BY <2>7 DEF Teardown, HoldsLock
  <2> QED BY <1>2, <2>1, <2>2, <2>3, <2>4, <2>5, <2>6, <2>7, <2>8 DEF Main
<1>3. CASE Others
  <2>1. CASE Read \/ ReadFails \/ IceChanges \/ TrackHandler
    BY <2>1, MutexKept DEF Read, ReadFails, IceChanges, TrackHandler
  <2>2. CASE Watcher
    BY <2>2 DEF Watcher, WatcherIsTold, WatcherLocks, WatcherWrites, WatcherQuits, HoldsLock
  <2>3. CASE OnIceCandidate
    BY <2>3 DEF OnIceCandidate, CandidateComes, CandidateLocks, CandidateWritten, HoldsLock
  <2> QED BY <1>3, <2>1, <2>2, <2>3 DEF Others
<1>4. CASE UNCHANGED vars
  BY <1>4, MutexKept DEF vars
<1> QED BY <1>1, <1>2, <1>3, <1>4 DEF Next

\* The connection's variables keep their types: no message is taken from a
\* reader that quit, and no more is written than a handler has to write.
THEOREM TypeCorrect == Spec => []TypeOK
<1>1. Init => TypeOK
  BY InitTypes
<1> QED BY <1>1, TypeStep, PTL DEF Spec

LEMMA AnsweredOnce == Spec => [](ClosesLast /\ AnswersOnce)
<1>1. Init => ClosesLast
  BY DEF Init, ClosesLast
<1>2. Init => AnswersOnce
  BY DEF Init, AnswersOnce, Negotiating
<1> QED BY <1>1, <1>2, InitOffers, CloseStep, OfferStep, AnswerStep, TypeCorrect, PTL DEF Spec

\* Main, the watcher and the ICE callback never write to one socket at once,
\* nor while Close tears it down, however long the connection lasts.
THEOREM WritesAlone == Spec => []OneWriter
<1>1. HoldsLock => OneWriter
  BY DEF HoldsLock, OneWriter
<1> QED BY <1>1, InitLock, LockStep, AnsweredOnce, TypeCorrect, PTL DEF Spec

-----------------------------------------------------------------------------
(* The mutex, and the steps Session takes at once.                         *)

\* What main has to write: nothing once it is told to leave, at least one
\* message at a place that writes.
HasToWrite == main \in {"lock", "write"} => left > 0

LEMMA WriteStep == TypeOK /\ HasToWrite /\ [Next]_vars => HasToWrite'
<1> SUFFICES ASSUME TypeOK, HasToWrite, [Next]_vars PROVE HasToWrite'
    OBVIOUS
<1> USE DEF HasToWrite, mainVars, Reply, Fail
<1>1. CASE Environment
  BY <1>1 DEF Environment, Send, Hangup, Unreadable, ChannelCloses
<1>2. CASE Main
  <2>1. CASE TakeMessage
    BY <2>1 DEF TakeMessage, Key
  <2>2. CASE Leave \/ TakeInfo \/ ReceiveTrack \/ Register \/ BadName
    BY <2>2 DEF Leave, TakeInfo, ReceiveTrack, Register, BadName
  <2>3. CASE Handle
    BY <2>3 DEF Handle, HandleCandidate, HandleGetChannels, HandleSession,
                HandleConnect, ConnectPublisher, ConnectSubscriber
  <2>4. CASE Lock \/ Unregister \/ Teardown
    BY <2>4 DEF Lock, Unregister, Teardown
  <2>5. CASE Write
    BY <2>5 DEF TypeOK, Write, Written, WriteFails
  <2> QED BY <1>2, <2>1, <2>2, <2>3, <2>4, <2>5 DEF Main
<1>3. CASE Others
  BY <1>3 DEF Others, Read, ReadFails, Watcher, OnIceCandidate, IceChanges, TrackHandler
<1>4. CASE UNCHANGED vars
  BY <1>4 DEF vars
<1> QED BY <1>1, <1>2, <1>3, <1>4 DEF Next

\* The mutex is held only by somebody whose next step gives it back: no
\* write that fails, no goroutine that quits and no Close keeps it, so
\* nobody waits for it for good on account of a holder that is gone.
THEOREM MutexIsFreed ==
    Spec => [](/\ mu = "main" => main = "teardown" \/ (main = "write" /\ left > 0)
               /\ mu = "watcher" => watch = "write"
               /\ mu = "candidate" => cand = "write")
<1>1. Init => HasToWrite
  BY DEF Init, HasToWrite
<1>2. HoldsLock /\ HasToWrite
      => /\ mu = "main" => main = "teardown" \/ (main = "write" /\ left > 0)
         /\ mu = "watcher" => watch = "write"
         /\ mu = "candidate" => cand = "write"
  BY DEF HoldsLock, HasToWrite
<1> QED BY <1>1, <1>2, InitLock, LockStep, WriteStep, AnsweredOnce, TypeCorrect, PTL DEF Spec

\* Only publishers wait for a track and claim a channel, and only subscribers
\* get to AddSubscriber.
InRole ==
    /\ main \in {"await", "claim"} => publishes
    /\ Negotiating => ~publishes

LEMMA RoleStep == TypeOK /\ InRole /\ [Next]_vars => InRole'
<1> SUFFICES ASSUME TypeOK, InRole, [Next]_vars PROVE InRole'
    OBVIOUS
<1> USE DEF clientVars, mainVars, otherVars, Reply, Fail
<1>0. ASSUME UNCHANGED publishes,
             \/ main' = main /\ after' = after
             \/ main' \notin {"await", "claim"} /\ ~Negotiating'
      PROVE  InRole'
  BY <1>0, Zenon DEF InRole, Negotiating
<1>1. CASE Environment
  BY <1>0, <1>1, Zenon DEF Environment, Send, Hangup, Unreadable, ChannelCloses
<1>2. CASE Main
  <2>1. CASE TakeMessage \/ Leave \/ TakeInfo \/ Unregister \/ Teardown
    <3>1. UNCHANGED publishes
      BY <2>1, Zenon DEF TakeMessage, Leave, TakeInfo, Unregister, Teardown
    <3>2. main' \notin {"await", "claim"} /\ ~Negotiating'
      BY <2>1 DEF TakeMessage, Key, Leave, TakeInfo, Unregister, Teardown, Negotiating
    <3> QED BY <1>0, <3>1, <3>2
  <2>2. CASE ReceiveTrack
    <3>1. main = "await" /\ main' = "claim" /\ UNCHANGED publishes
      BY <2>2, Zenon DEF ReceiveTrack
    <3>2. ~Negotiating'
      BY <3>1 DEF Negotiating
    <3> QED BY <3>1, <3>2, Zenon DEF InRole
  <2>3. CASE Register \/ BadName
    <3>1. UNCHANGED publishes
      BY <2>3, Zenon DEF Register, BadName
    <3>2. main' \notin {"await", "claim"} /\ ~Negotiating'
      BY <2>3 DEF Register, BadName, Negotiating
    <3> QED BY <1>0, <3>1, <3>2
  <2>4. CASE Handle
    <3>1. UNCHANGED publishes
      BY <2>4, Zenon DEF Handle
    <3>2. CASE HandleConnect
      <4>1. \/ publishes /\ main' = "await"
            \/ ~publishes /\ main' = "lock"
            \/ main' = "lock" /\ after' = "close"
        BY <3>2, Zenon DEF HandleConnect, ConnectPublisher, ConnectSubscriber
      <4>2. main' = "await" => ~Negotiating'
        BY DEF Negotiating
      <4>3. main' = "lock" => main' \notin {"await", "claim"}
        OBVIOUS
      <4>4. main' = "lock" /\ after' = "close" => ~Negotiating'
        BY DEF Negotiating
      <4> QED BY <3>1, <4>1, <4>2, <4>3, <4>4, Zenon DEF InRole
    <3>3. CASE HandleCandidate \/ HandleGetChannels \/ HandleSession
      <4>1. main' \notin {"await", "claim"} /\ ~Negotiating'
        BY <3>3 DEF HandleCandidate, HandleGetChannels, HandleSession, Negotiating
      <4> QED BY <1>0, <3>1, <4>1
    <3> QED BY <2>4, <3>2, <3>3 DEF Handle
  <2>5. CASE Lock \/ Write
    <3>1. UNCHANGED publishes
      BY <2>5, Zenon DEF Lock, Write
    <3>2. main' \notin {"await", "claim"} /\ (Negotiating' => Negotiating)
      BY <2>5 DEF TypeOK, Lock, Write, Written, WriteFails, Negotiating
    <3> QED BY <3>1, <3>2, Zenon DEF InRole
  <2> QED BY <1>2, <2>1, <2>2, <2>3, <2>4, <2>5 DEF Main
<1>3. CASE Others
  BY <1>0, <1>3, Zenon DEF Others, Read, ReadFails, Watcher, OnIceCandidate, IceChanges, TrackHandler
<1>4. CASE UNCHANGED vars
  BY <1>0, <1>4, Zenon DEF vars
<1> QED BY <1>1, <1>2, <1>3, <1>4 DEF Next

\* A subscriber is in the registry only with a watcher, which is what the
\* registry tells, and which acts on nothing else.  A publisher names one channel.
IsWatched ==
    /\ registered /\ ~publishes => watch # "none"
    /\ told => watch # "none" /\ ~publishes
    /\ watch \in {"lock", "write", "quit", "done"} => told
    /\ renamed => ~publishes

LEMMA WatchStep ==
    TypeOK /\ InRole /\ IsWatched /\ [Next]_vars => IsWatched'
<1> SUFFICES ASSUME TypeOK, InRole, IsWatched, [Next]_vars PROVE IsWatched'
    OBVIOUS
<1> USE DEF clientVars, otherVars, serverVars, Fail, Reply
<1>0. ASSUME UNCHANGED <<registered, renamed, publishes, told, watch>> PROVE IsWatched'
  BY <1>0, Zenon DEF IsWatched
<1>1. CASE Environment
  <2>1. CASE ChannelCloses
    BY <2>1, Zenon DEF ChannelCloses, IsWatched
  <2>2. CASE Hangup \/ Unreadable \/ \E key \in Key : Send(key)
    BY <1>0, <2>2, Zenon DEF Hangup, Unreadable, Send
  <2> QED BY <1>1, <2>1, <2>2 DEF Environment
<1>2. CASE Main
  <2>1. CASE TakeMessage \/ Leave \/ TakeInfo \/ ReceiveTrack \/ BadName \/ Lock \/ Write
    BY <1>0, <2>1, Zenon DEF TakeMessage, Leave, TakeInfo, ReceiveTrack, BadName, Lock, Write
  <2>2. CASE Handle
    <3>1. UNCHANGED <<registered, publishes, told, watch>>
      BY <2>2, Zenon DEF Handle
    <3>2. renamed' => renamed \/ ~publishes
      BY <2>2, Zenon DEF Handle, HandleCandidate, HandleGetChannels, HandleSession,
                         HandleConnect, ConnectPublisher, ConnectSubscriber
    <3> QED BY <3>1, <3>2, Zenon DEF IsWatched
  <2>5. CASE Teardown
    BY <1>0, <2>5, Zenon DEF Teardown
  <2>3. CASE Register
    <3>1. CASE main = "claim"
      <4>1. publishes /\ UNCHANGED <<publishes, told, renamed>>
        BY <2>3, <3>1, Zenon DEF Register, InRole
      <4>2. watch' = watch
        BY <2>3, <3>1 DEF Register
      <4> QED BY <4>1, <4>2, Zenon DEF IsWatched
    <3>2. CASE main = "register"
      <4>1. ~publishes /\ UNCHANGED <<publishes, told, renamed>>
        BY <2>3, <3>2, Zenon DEF Register, InRole, Negotiating
      <4>2. watch' = "waiting"
        BY <2>3, <3>2 DEF Register
      <4>3. watch' \notin {"none", "lock", "write", "quit", "done"}
        BY <4>2
      <4> QED BY <4>1, <4>3, Zenon DEF IsWatched
    <3> QED BY <2>3, <3>1, <3>2 DEF Register
  <2>4. CASE Unregister
    <3>1. UNCHANGED <<renamed, publishes, told, watch>>
      BY <2>4, Zenon DEF Unregister
    <3>2. registered' => registered
      BY <2>4, Zenon DEF Unregister
    <3> QED BY <3>1, <3>2, Zenon DEF IsWatched
  <2> QED BY <1>2, <2>1, <2>2, <2>3, <2>4, <2>5 DEF Main
<1>3. CASE Others
  <2>1. CASE Watcher
    <3>1. UNCHANGED <<registered, renamed, publishes, told>>
      BY <2>1, Zenon DEF Watcher
    <3>2. watch # "none" /\ watch' # "none"
      BY <2>1 DEF Watcher, WatcherIsTold, WatcherLocks, WatcherWrites, WatcherQuits
    <3>3. told
      <4>1. CASE WatcherIsTold
        BY <4>1, Zenon DEF WatcherIsTold
      <4>2. CASE WatcherLocks \/ WatcherWrites \/ WatcherQuits
        BY <4>2, Zenon DEF WatcherLocks, WatcherWrites, WatcherQuits, IsWatched
      <4> QED BY <2>1, <4>1, <4>2 DEF Watcher
    <3> QED BY <3>1, <3>2, <3>3, Zenon DEF IsWatched
  <2>2. CASE Read \/ ReadFails \/ OnIceCandidate \/ IceChanges \/ TrackHandler
    BY <1>0, <2>2, Zenon DEF Read, ReadFails, OnIceCandidate, IceChanges, TrackHandler
  <2> QED BY <1>3, <2>1, <2>2 DEF Others
<1>4. CASE UNCHANGED vars
  BY <1>0, <1>4, Zenon DEF vars
<1> QED BY <1>1, <1>2, <1>3, <1>4 DEF Next

\* What the steps of Session take for granted of a connection, here of its
\* goroutines.  Its peer connection is closed by Close alone, after it is out of
\* the registry: always for a publisher, and for a subscriber unless a further
\* connect_subscriber, which fails, named another channel before, whereupon its
\* registration stays.  A subscriber in the registry has a watcher, so that
\* RemovePublisher has somebody to tell; that watcher is started once, however
\* often the client connects, and dismisses its client only when told; and a
\* publisher never has one.
THEOREM SessionGrain ==
    Spec => [](/\ registered /\ main \in {"teardown", "closed"} => renamed /\ ~publishes
               /\ (peer = "closed") <=> (main = "closed")
               /\ registered /\ ~publishes => watch # "none"
               /\ told => watch # "none" /\ ~publishes
               /\ watch \in {"lock", "write", "quit", "done"} => told
               /\ main = "register" => watch = "none" /\ ~publishes)
<1>1. Init => InRole
  BY DEF Init, InRole, Negotiating
<1>2. Init => IsWatched
  BY DEF Init, IsWatched
<1>3. InRole /\ AnswersOnce => (main = "register" => watch = "none" /\ ~publishes)
  BY DEF InRole, AnswersOnce, Negotiating
<1>4. ClosesLast /\ IsWatched
      => (registered /\ main \in {"teardown", "closed"} => renamed /\ ~publishes)
  BY Zenon DEF ClosesLast, IsWatched
<1> QED
  BY <1>1, <1>2, <1>3, <1>4, RoleStep, WatchStep, AnsweredOnce, TypeCorrect, PTL
  DEF Spec, ClosesLast, IsWatched
=============================================================================
