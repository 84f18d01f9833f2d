---------------------------- MODULE ServerProofs ----------------------------
(***************************************************************************)
(* Safety of Server for any channels and any number of connections and     *)
(* stream requests.                                                        *)
(***************************************************************************)
EXTENDS Server, TLAPS

\* A connection in connect_* or served has the channel this message named, and a
\* request past "idle" the channel it looked up: so no handler indexes the
\* registry with the empty name.
Named ==
    /\ \A c \in Conn : loop[c] \in InHandler \cup {"serving"} => chan[c] # None
    /\ \A h \in Streamer : at[h] # "idle" => wants[h] # None

\* Type correctness: every step of every goroutine keeps each variable in the
\* range RegistryTypeOK, SessionTypeOK and StreamTypeOK give it.
LEMMA TypeStep == TypeOK /\ Named /\ [Next]_vars => TypeOK'
<1> SUFFICES ASSUME TypeOK, Named, [Next]_vars PROVE TypeOK'
  OBVIOUS
<1> USE DEF TypeOK, RegistryTypeOK, RelayTypeOK, SessionTypeOK, StreamTypeOK
<1> USE DEF registryVars, relayVars, sessionVars, streamVars
<1>1. CASE UNCHANGED vars
  BY <1>1 DEF vars
<1>2. ASSUME NEW c \in Conn, Client(c), UNCHANGED streamVars PROVE TypeOK'
  <2> USE <1>2 DEF Goto, Refuse, LoopState, InSelect, InHandler, InClose, Ended, FeedState
  <2>1. CASE Accept(c)
    BY <2>1 DEF Accept
  <2>2. CASE Offer(c)
    BY <2>2 DEF Offer
  <2>3. CASE RefuseMessage(c)
    BY <2>3 DEF RefuseMessage
  <2>4. CASE ReaderReturns(c)
    BY <2>4 DEF ReaderReturns, ReaderState
  <2>5. CASE c \in PubConn /\ OnTrack(c)
    BY <2>5 DEF OnTrack
  <2>6. CASE c \in PubConn /\ TrackFails(c)
    BY <2>6 DEF TrackFails
  <2>7. ASSUME NEW ch \in Channel, ConnectPublisher(c, ch) PROVE TypeOK'
    BY <2>7 DEF ConnectPublisher
  <2>8. ASSUME c \in SubConn, NEW ch \in Channel \cup {None}, ConnectSubscriber(c, ch)
        PROVE  TypeOK'
    BY <2>8 DEF ConnectSubscriber
  <2> QED
    BY <2>1, <2>2, <2>3, <2>4, <2>5, <2>6, <2>7, <2>8 DEF Client
<1>3. ASSUME NEW c \in Conn, Main(c), UNCHANGED streamVars PROVE TypeOK'
  <2> USE <1>3 DEF Goto, Refuse, LoopState, InSelect, InHandler, InClose, Ended
  <2>1. CASE c \in PubConn /\ ReceiveTrack(c)
    BY <2>1 DEF ReceiveTrack, FeedState
  <2>2. CASE c \in PubConn /\ Claim(c)
    BY <2>2 DEF Claim, AddPublisher
  <2>3. CASE c \in SubConn /\ Negotiate(c)
    BY <2>3 DEF Negotiate, WatchState, Named, Conn
  <2>4. CASE c \in SubConn /\ Register(c)
    BY <2>4 DEF Register, AddSubscriber
  <2>5. CASE Return(c)
    BY <2>5 DEF Return
  <2>6. CASE CloseRegistration(c)
    BY <2>6 DEF CloseRegistration, RemovePublisher, RemovePublisherPanics,
                StopAll, Drop, RemoveSubscriber
  <2>7. CASE CloseTransport(c)
    BY <2>7 DEF CloseTransport, FeedState
  <2> QED
    BY <2>1, <2>2, <2>3, <2>4, <2>5, <2>6, <2>7 DEF Main
<1>4. ASSUME NEW c \in SubConn, Watcher(c), UNCHANGED streamVars PROVE TypeOK'
  BY <1>4 DEF Watcher, WatcherNotify, WatcherQuit, WatchState, Conn
<1>5. ASSUME NEW c \in PubConn, TrackHandler(c), UNCHANGED streamVars PROVE TypeOK'
  BY <1>5 DEF TrackHandler, LookupForPacket, FeedPacket, WriteRTP, FeedState, Conn
<1>6. ASSUME StreamStep, UNCHANGED sessionVars PROVE TypeOK'
  <2> USE <1>6 DEF Proceed
  <2>1. ASSUME NEW h \in Streamer, NEW ch \in Channel, Lookup(h, ch) PROVE TypeOK'
    BY <2>1 DEF Lookup
  <2>2. ASSUME NEW h \in Streamer, JoinStream(h) PROVE TypeOK'
    BY <2>2 DEF JoinStream, Join
  <2>3. ASSUME NEW h \in Streamer, JoinFails(h) \/ TakeChunk(h) \/ Written(h)
                                         \/ ClientAborts(h)
        PROVE  TypeOK'
    BY <2>3 DEF JoinFails, TakeChunk, Written, ClientAborts
  <2>4. ASSUME NEW h \in Streamer, Responder(h) PROVE TypeOK'
    BY <2>4 DEF Responder, ChannelClosed, LeaveStream, Leave, Drop
  <2>5. ASSUME NEW ch \in Channel, EncoderExits(ch) PROVE TypeOK'
    BY <2>5 DEF EncoderExits, StopAll, Drop
  <2> QED
    BY <2>1, <2>2, <2>3, <2>4, <2>5 DEF StreamStep
<1> QED
  BY <1>1, <1>2, <1>3, <1>4, <1>5, <1>6 DEF Next, SessionStep

\* Every step keeps Named: only connect_* and Lookup leave "ready" and "idle".
LEMMA NamedStep == TypeOK /\ Named /\ [Next]_vars => Named'
<1> SUFFICES ASSUME TypeOK, Named, [Next]_vars PROVE Named'
  OBVIOUS
<1> USE DEF TypeOK, SessionTypeOK, StreamTypeOK, sessionVars, streamVars, Named, InHandler
<1>1. CASE UNCHANGED vars
  BY <1>1 DEF vars
<1>2. ASSUME NEW c \in Conn, Client(c), UNCHANGED streamVars PROVE Named'
  <2> USE <1>2 DEF Goto, Refuse
  <2>1. CASE Accept(c) \/ Offer(c) \/ RefuseMessage(c)
    BY <2>1 DEF Accept, Offer, RefuseMessage
  <2>2. CASE ReaderReturns(c) \/ OnTrack(c) \/ TrackFails(c)
    BY <2>2 DEF ReaderReturns, OnTrack, TrackFails
  <2>3. ASSUME NEW ch \in Channel, ConnectPublisher(c, ch) PROVE Named'
    BY <2>3, IdentitiesDistinct DEF ConnectPublisher
  <2>4. ASSUME NEW ch \in Channel \cup {None}, ConnectSubscriber(c, ch) PROVE Named'
    BY <2>4 DEF ConnectSubscriber
  <2> QED
    BY <2>1, <2>2, <2>3, <2>4 DEF Client
<1>3. ASSUME NEW c \in Conn, Main(c), UNCHANGED streamVars PROVE Named'
  BY <1>3 DEF Main, Goto, Refuse, ReceiveTrack, Claim, Negotiate, Register, Return,
              CloseRegistration, CloseTransport
<1>4. ASSUME NEW c \in SubConn, Watcher(c), UNCHANGED streamVars PROVE Named'
  BY <1>4 DEF Watcher, WatcherNotify, WatcherQuit
<1>5. ASSUME NEW c \in PubConn, TrackHandler(c), UNCHANGED streamVars PROVE Named'
  BY <1>5 DEF TrackHandler, LookupForPacket, FeedPacket
<1>6. ASSUME StreamStep, UNCHANGED sessionVars PROVE Named'
  BY <1>6, IdentitiesDistinct
     DEF StreamStep, Responder, Proceed, Lookup, JoinStream, JoinFails, TakeChunk,
         Written, ClientAborts, ChannelClosed, LeaveStream, EncoderExits
<1> QED
  BY <1>1, <1>2, <1>3, <1>4, <1>5, <1>6 DEF Next, SessionStep

TypeInv == TypeOK /\ Named

LEMMA TypeInvariant == Spec => []TypeInv
<1>1. Init => TypeInv
  BY DEF Init, RegistryInit, RelayInit, SessionInit, StreamInit, TypeInv, TypeOK, Named,
         RegistryTypeOK, RelayTypeOK, SessionTypeOK, StreamTypeOK, InHandler,
         LoopState, FeedState, WatchState, ReaderState
<1>2. TypeInv /\ [Next]_vars => TypeInv'
  BY TypeStep, NamedStep DEF TypeInv
<1> QED
  BY <1>1, <1>2, PTL DEF Spec

THEOREM TypeCorrect == Spec => []TypeOK
<1>1. TypeInv => TypeOK
  BY DEF TypeInv
<1> QED
  BY <1>1, TypeInvariant, PTL
-----------------------------------------------------------------------------
\* Only Claim and Close change who holds a channel, and while it holds one the
\* holder can only go from "serving" to "closing".
LEMMA HolderStep == TypeInv /\ HolderIsServed /\ [Next]_vars => HolderIsServed'
<1> SUFFICES ASSUME TypeInv, HolderIsServed, [Next]_vars PROVE HolderIsServed'
  OBVIOUS
<1> USE IdentitiesDistinct
    DEF TypeInv, TypeOK, RegistryTypeOK, SessionTypeOK, Conn, registryVars, sessionVars,
        HolderIsServed, OnAir
<1>1. CASE UNCHANGED vars
  BY <1>1 DEF vars
<1>2. ASSUME NEW c \in Conn, Client(c) PROVE HolderIsServed'
  <2> USE <1>2 DEF Goto, Refuse
  <2>1. CASE Accept(c) \/ Offer(c)
    BY <2>1 DEF Accept, Offer
  <2>2. CASE RefuseMessage(c)
    BY <2>2 DEF RefuseMessage, InSelect
  <2>3. CASE ReaderReturns(c) \/ OnTrack(c) \/ TrackFails(c)
    BY <2>3 DEF ReaderReturns, OnTrack, TrackFails
  <2>4. ASSUME NEW ch \in Channel, c \in PubConn, ConnectPublisher(c, ch) PROVE HolderIsServed'
    BY <2>4 DEF ConnectPublisher
  <2>5. ASSUME NEW ch \in Channel \cup {None}, c \in SubConn, ConnectSubscriber(c, ch)
        PROVE  HolderIsServed'
    BY <2>5 DEF ConnectSubscriber
  <2> QED
    BY <2>1, <2>2, <2>3, <2>4, <2>5 DEF Client
<1>3. ASSUME NEW c \in Conn, Main(c) PROVE HolderIsServed'
  <2> USE <1>3 DEF Goto, Refuse
  <2>1. CASE ReceiveTrack(c) \/ Negotiate(c) \/ CloseTransport(c)
    BY <2>1 DEF ReceiveTrack, Negotiate, CloseTransport
  <2>2. CASE c \in PubConn /\ Claim(c)
    BY <2>2 DEF Claim, AddPublisher
  <2>3. CASE Register(c)
    BY <2>3 DEF Register, AddSubscriber
  <2>4. CASE Return(c)
    BY <2>4 DEF Return, InSelect
  <2>5. CASE CloseRegistration(c)
    <3>1. CASE c \in PubConn
      BY <2>5, <3>1 DEF CloseRegistration, RemovePublisher, RemovePublisherPanics
    <3>2. CASE c \in SubConn
      BY <2>5, <3>2 DEF CloseRegistration, RemoveSubscriber
    <3> QED
      BY <3>1, <3>2
  <2> QED
    BY <2>1, <2>2, <2>3, <2>4, <2>5 DEF Main
<1>4. ASSUME NEW c \in SubConn, Watcher(c) PROVE HolderIsServed'
  BY <1>4 DEF Watcher, WatcherNotify, WatcherQuit
<1>5. ASSUME NEW c \in PubConn, TrackHandler(c) PROVE HolderIsServed'
  BY <1>5 DEF TrackHandler, LookupForPacket, FeedPacket
<1>6. ASSUME StreamStep, UNCHANGED sessionVars PROVE HolderIsServed'
  BY <1>6 DEF StreamStep, Responder, Lookup, JoinStream, JoinFails, TakeChunk,
              Written, ClientAborts, ChannelClosed, LeaveStream, EncoderExits
<1> QED
  BY <1>1, <1>2, <1>3, <1>4, <1>5, <1>6 DEF Next, SessionStep

\* No dead session holds a channel.
THEOREM HolderServed == Spec => []HolderIsServed
<1>1. Init => HolderIsServed
  BY DEF Init, RegistryInit, HolderIsServed, OnAir
<1> QED
  BY <1>1, TypeInvariant, HolderStep, PTL DEF Spec
-----------------------------------------------------------------------------
\* Only Register adds to a channel's subscribers, and what it adds was nowhere.
\* A subscriber that is registered can only go from "serving" to "closing", where
\* Close removes it; or, if that step also renamed it, looks elsewhere.
LEMMA RegisteredStep == TypeInv /\ RegisteredIsServed /\ [Next]_vars => RegisteredIsServed'
<1> SUFFICES ASSUME TypeInv, RegisteredIsServed, [Next]_vars PROVE RegisteredIsServed'
  OBVIOUS
<1> USE IdentitiesDistinct
    DEF TypeInv, TypeOK, RegistryTypeOK, SessionTypeOK, Conn, registryVars, sessionVars,
        RegisteredIsServed, InClose
<1>1. CASE UNCHANGED vars
  BY <1>1 DEF vars
<1>2. ASSUME NEW c \in Conn, Client(c) PROVE RegisteredIsServed'
  <2> USE <1>2 DEF Goto, Refuse
  <2>1. CASE Accept(c) \/ Offer(c)
    BY <2>1 DEF Accept, Offer
  <2>2. CASE RefuseMessage(c)
    BY <2>2 DEF RefuseMessage, InSelect
  <2>3. CASE ReaderReturns(c) \/ OnTrack(c) \/ TrackFails(c)
    BY <2>3 DEF ReaderReturns, OnTrack, TrackFails
  <2>4. ASSUME NEW ch \in Channel, c \in PubConn, ConnectPublisher(c, ch)
        PROVE  RegisteredIsServed'
    BY <2>4 DEF ConnectPublisher
  <2>5. ASSUME NEW ch \in Channel \cup {None}, c \in SubConn, ConnectSubscriber(c, ch)
        PROVE  RegisteredIsServed'
    BY <2>5 DEF ConnectSubscriber, InSelect, InClose
  <2> QED
    BY <2>1, <2>2, <2>3, <2>4, <2>5 DEF Client
<1>3. ASSUME NEW c \in Conn, Main(c) PROVE RegisteredIsServed'
  <2> USE <1>3 DEF Goto, Refuse
  <2>1. CASE ReceiveTrack(c) \/ Negotiate(c) \/ CloseTransport(c)
    BY <2>1 DEF ReceiveTrack, Negotiate, CloseTransport
  <2>2. CASE Claim(c)
    BY <2>2 DEF Claim, AddPublisher
  <2>3. CASE c \in SubConn /\ Register(c)
    BY <2>3 DEF Register, AddSubscriber
  <2>4. CASE Return(c)
    BY <2>4 DEF Return, InSelect
  <2>5. CASE CloseRegistration(c)
    <3>1. CASE c \in PubConn
      BY <2>5, <3>1 DEF CloseRegistration, RemovePublisher, RemovePublisherPanics
    <3>2. CASE c \in SubConn
      BY <2>5, <3>2 DEF CloseRegistration, RemoveSubscriber
    <3> QED
      BY <3>1, <3>2
  <2> QED
    BY <2>1, <2>2, <2>3, <2>4, <2>5 DEF Main
<1>4. ASSUME NEW c \in SubConn, Watcher(c) PROVE RegisteredIsServed'
  BY <1>4 DEF Watcher, WatcherNotify, WatcherQuit
<1>5. ASSUME NEW c \in PubConn, TrackHandler(c) PROVE RegisteredIsServed'
  BY <1>5 DEF TrackHandler, LookupForPacket, FeedPacket
<1>6. ASSUME StreamStep, UNCHANGED sessionVars PROVE RegisteredIsServed'
  BY <1>6 DEF StreamStep, Responder, Lookup, JoinStream, JoinFails, TakeChunk,
              Written, ClientAborts, ChannelClosed, LeaveStream, EncoderExits
<1> QED
  BY <1>1, <1>2, <1>3, <1>4, <1>5, <1>6 DEF Next, SessionStep

\* No dead session is left among a channel's subscribers, but for those whose
\* client named another channel at the end; and nobody is there twice.
THEOREM RegisteredServed == Spec => []RegisteredIsServed
<1>1. Init => RegisteredIsServed
  BY DEF Init, RegistryInit, RegisteredIsServed
<1> QED
  BY <1>1, TypeInvariant, RegisteredStep, PTL DEF Spec
-----------------------------------------------------------------------------
\* Once a RemovePublisher panicked the claim is void for good; until then a
\* channel goes off air only together with its subscribers' QuitChans, and a
\* subscriber is added only on air.
LEMMA OffAirStep == TypeInv /\ OffAirIsTold /\ [Next]_vars => OffAirIsTold'
<1> SUFFICES ASSUME TypeInv, OffAirIsTold, [Next]_vars PROVE OffAirIsTold'
  OBVIOUS
<1> DEFINE Panicked == \E p \in PubConn : loop[p] = "panicked" /\ chan[p] # None
           Told == \A ch \in Channel : ~OnAir(ch) => subscribers[ch] \subseteq quit
<1>a. OffAirIsTold <=> Panicked \/ Told
  BY DEF OffAirIsTold
<1>b. OffAirIsTold' <=> Panicked' \/ Told'
  BY DEF OffAirIsTold
<1> USE DEF TypeInv, TypeOK, RegistryTypeOK, SessionTypeOK, Conn, registryVars, sessionVars
<1>1. CASE UNCHANGED vars
  BY <1>1, <1>a, <1>b DEF vars, OnAir
<1>2. ASSUME NEW c \in Conn, Client(c) PROVE OffAirIsTold'
  <2>1. UNCHANGED registryVars
    BY <1>2 DEF Client, Accept, Offer, RefuseMessage, ReaderReturns, OnTrack, TrackFails,
                ConnectPublisher, ConnectSubscriber
  <2>2. Told => Told'
    BY <2>1 DEF OnAir
  <2>3. Panicked => Panicked'
    BY <1>2 DEF Client, Goto, Refuse, InSelect, Accept, Offer, RefuseMessage, ReaderReturns, OnTrack,
                TrackFails, ConnectPublisher, ConnectSubscriber
  <2> QED
    BY <1>a, <1>b, <2>2, <2>3
<1>3. ASSUME NEW c \in Conn, Main(c) PROVE OffAirIsTold'
  <2>1. Panicked => Panicked'
    BY <1>3 DEF Main, Goto, Refuse, InSelect, ReceiveTrack, Claim, Negotiate, Register, Return,
                CloseRegistration, CloseTransport
  <2>2. ASSUME Told, ReceiveTrack(c) \/ Negotiate(c) \/ Return(c) \/ CloseTransport(c)
        PROVE  Told'
    BY <2>2 DEF OnAir, ReceiveTrack, Negotiate, Return, CloseTransport
  <2>3. ASSUME Told, c \in PubConn, Claim(c) PROVE Told'
    BY <2>3, IdentitiesDistinct DEF OnAir, Claim, AddPublisher
  <2>4. ASSUME Told, Register(c) PROVE Told'
    BY <2>4 DEF OnAir, Register, AddSubscriber
  <2>5. ASSUME Told, CloseRegistration(c) PROVE Panicked' \/ Told'
    <3>1. CASE c \in PubConn /\ chan[c] # None /\ RemovePublisherPanics(chan[c])
                              /\ Goto(c, "panicked")
      BY <2>5, <3>1 DEF Goto, CloseRegistration
    <3>2. CASE c \in PubConn /\ chan[c] # None /\ RemovePublisher(chan[c])
      BY <2>5, <3>2 DEF OnAir, RemovePublisher
    <3>3. CASE c \in SubConn /\ RemoveSubscriber(chan[c], c)
      BY <2>5, <3>3 DEF OnAir, RemoveSubscriber
    <3>4. CASE UNCHANGED registryVars
      BY <2>5, <3>4 DEF OnAir
    <3> QED
      BY <2>5, <3>1, <3>2, <3>3, <3>4 DEF CloseRegistration
  <2> QED
    BY <1>3, <1>a, <1>b, <2>1, <2>2, <2>3, <2>4, <2>5 DEF Main
<1>4. ASSUME NEW c \in SubConn, Watcher(c) PROVE OffAirIsTold'
  BY <1>4, <1>a, <1>b DEF OnAir, Watcher, WatcherNotify, WatcherQuit
<1>5. ASSUME NEW c \in PubConn, TrackHandler(c) PROVE OffAirIsTold'
  BY <1>5, <1>a, <1>b DEF OnAir, TrackHandler, LookupForPacket, FeedPacket
<1>6. ASSUME StreamStep, UNCHANGED sessionVars PROVE OffAirIsTold'
  BY <1>6, <1>a, <1>b
     DEF OnAir, StreamStep, Responder, Lookup, JoinStream, JoinFails, TakeChunk,
         Written, ClientAborts, ChannelClosed, LeaveStream, EncoderExits
<1> QED
  BY <1>1, <1>2, <1>3, <1>4, <1>5, <1>6 DEF Next, SessionStep

\* RemovePublisher reaches every subscriber unless one of them panicked.
THEOREM OffAirTold == Spec => []OffAirIsTold
<1>1. Init => OffAirIsTold
  BY DEF Init, RegistryInit, OffAirIsTold
<1> QED
  BY <1>1, TypeInvariant, OffAirStep, PTL DEF Spec
-----------------------------------------------------------------------------
\* A session on its way out has had its word, or its reader stopped; and a
\* watcher that has written its message wrote it to a client that could hear it,
\* or to a session that was closed already.
Farewell ==
    /\ \A c \in Conn : loop[c] \in InClose \cup {"closed"} /\ reader[c] = "reading"
                          => told[c] # "nothing"
    /\ \A s \in SubConn :
         watch[s] \in {"written", "done"} => told[s] # "nothing" \/ loop[s] = "closed"

LEMMA FarewellStep == TypeInv /\ Farewell /\ [Next]_vars => Farewell'
<1> SUFFICES ASSUME TypeInv, Farewell, [Next]_vars PROVE Farewell'
  OBVIOUS
<1> USE DEF TypeInv, TypeOK, SessionTypeOK, Conn, sessionVars, Farewell, InClose
<1>1. CASE UNCHANGED vars
  BY <1>1 DEF vars
<1>2. ASSUME NEW c \in Conn, Client(c) PROVE Farewell'
  <2> USE <1>2 DEF Goto, Refuse
  <2>1. CASE Accept(c) \/ Offer(c)
    BY <2>1 DEF Accept, Offer
  <2>2. CASE RefuseMessage(c)
    BY <2>2 DEF RefuseMessage, InSelect
  <2>3. CASE ReaderReturns(c) \/ OnTrack(c) \/ TrackFails(c)
    BY <2>3 DEF ReaderReturns, OnTrack, TrackFails
  <2>4. ASSUME NEW ch \in Channel, c \in PubConn, ConnectPublisher(c, ch) PROVE Farewell'
    BY <2>4 DEF ConnectPublisher
  <2>5. ASSUME NEW ch \in Channel \cup {None}, c \in SubConn, ConnectSubscriber(c, ch)
        PROVE  Farewell'
    BY <2>5 DEF ConnectSubscriber
  <2> QED
    BY <2>1, <2>2, <2>3, <2>4, <2>5 DEF Client
<1>3. ASSUME NEW c \in Conn, Main(c) PROVE Farewell'
  <2> USE <1>3 DEF Goto, Refuse
  <2>1. CASE ReceiveTrack(c) \/ Claim(c) \/ Negotiate(c) \/ Register(c)
    BY <2>1 DEF ReceiveTrack, Claim, Negotiate, Register
  <2>2. CASE Return(c)
    BY <2>2 DEF Return, InSelect
  <2>3. CASE CloseRegistration(c) \/ CloseTransport(c)
    BY <2>3 DEF CloseRegistration, CloseTransport
  <2> QED
    BY <2>1, <2>2, <2>3 DEF Main
<1>4. ASSUME NEW c \in SubConn, Watcher(c) PROVE Farewell'
  BY <1>4 DEF Watcher, WatcherNotify, WatcherQuit
<1>5. ASSUME NEW c \in PubConn, TrackHandler(c) PROVE Farewell'
  BY <1>5 DEF TrackHandler, LookupForPacket, FeedPacket
<1>6. ASSUME UNCHANGED sessionVars PROVE Farewell'
  BY <1>6
<1> QED
  BY <1>1, <1>2, <1>3, <1>4, <1>5, <1>6 DEF Next, SessionStep

\* The server ends a session without a word only when its reader stopped.
THEOREM NeverSilent == Spec => []NoSilentHangup
<1>1. Init => Farewell
  BY DEF Init, SessionInit, Farewell, InClose, Conn
<1>2. Farewell => NoSilentHangup
  BY DEF Farewell, NoSilentHangup
<1> QED
  BY <1>1, <1>2, TypeInvariant, FarewellStep, PTL DEF Spec
-----------------------------------------------------------------------------
\* After connect_publisher a connection's channel name never changes.
Settled(c) == loop[c] \notin {"new", "select", "ready"}

\* A channel's track outlives its publisher: once a channel was on air it has
\* a track, made by a connection that named this channel.  So has every
\* subscriber that got through SetupSubscriber.  Only a connection past
\* connect_publisher reads packets, so only those get into the encoder.
TracksMatch ==
    /\ \A ch \in Channel : OnAir(ch) => localTrack[ch] # None
    /\ \A ch \in Channel : localTrack[ch] # None =>
         Settled(localTrack[ch]) /\ chan[localTrack[ch]] = ch
    /\ \A s \in SubConn : loop[s] = "negotiate" => localTrack[chan[s]] # None
    /\ \A s \in SubConn : loop[s] \in {"register", "serving"} =>
         heard[s] # None /\ chan[heard[s]] = chan[s]
    /\ \A ch \in Channel : \A s \in subscribers[ch] :
         heard[s] # None /\ chan[heard[s]] = ch
    /\ \A s \in SubConn : heard[s] # None => Settled(heard[s])
    /\ \A p \in PubConn : feed[p] \in {"reading", "holding"} => Settled(p) /\ chan[p] # None
    /\ \A ch \in Channel : \A p \in encoded[ch] : Settled(p) /\ chan[p] = ch

LEMMA TracksStep == TypeInv /\ RegisteredIsServed /\ TracksMatch /\ [Next]_vars => TracksMatch'
<1> SUFFICES ASSUME TypeInv, RegisteredIsServed, TracksMatch, [Next]_vars PROVE TracksMatch'
  OBVIOUS
<1> USE IdentitiesDistinct
    DEF TypeInv, TypeOK, RegistryTypeOK, RelayTypeOK, SessionTypeOK, Conn,
        registryVars, relayVars, sessionVars, TracksMatch, Settled, OnAir
<1>1. CASE UNCHANGED vars
  BY <1>1 DEF vars
<1>2. ASSUME NEW c \in Conn, Client(c) PROVE TracksMatch'
  <2> USE <1>2 DEF Goto, Refuse
  <2>1. CASE Accept(c) \/ Offer(c)
    BY <2>1 DEF Accept, Offer
  <2>2. CASE RefuseMessage(c)
    BY <2>2 DEF RefuseMessage, InSelect
  <2>3. CASE ReaderReturns(c) \/ OnTrack(c) \/ TrackFails(c)
    BY <2>3 DEF ReaderReturns, OnTrack, TrackFails
  <2>4. ASSUME NEW ch \in Channel, c \in PubConn, ConnectPublisher(c, ch) PROVE TracksMatch'
    BY <2>4 DEF ConnectPublisher
  <2>5. ASSUME NEW ch \in Channel \cup {None}, c \in SubConn, ConnectSubscriber(c, ch)
        PROVE  TracksMatch'
    BY <2>5 DEF ConnectSubscriber
  <2> QED
    BY <2>1, <2>2, <2>3, <2>4, <2>5 DEF Client
<1>3. ASSUME NEW c \in Conn, Main(c) PROVE TracksMatch'
  <2> USE <1>3 DEF Goto, Refuse
  <2>1. CASE c \in PubConn /\ ReceiveTrack(c)
    BY <2>1 DEF ReceiveTrack, Named, InHandler
  <2>2. CASE c \in PubConn /\ Claim(c)
    BY <2>2 DEF Claim, AddPublisher, Named, InHandler
  <2>3. CASE c \in SubConn /\ Negotiate(c)
    <3>1. \A ch \in Channel : c \notin subscribers[ch]
      BY <2>3 DEF Negotiate, RegisteredIsServed, InClose
    <3>2. loop[c] = "negotiate"
          /\ heard' = [heard EXCEPT ![c] = localTrack[chan[c]]] /\ chan[c] \in Channel
          /\ localTrack[chan[c]] \in PubConn /\ UNCHANGED <<chan, feed, registryVars>>
          /\ loop' = [loop EXCEPT ![c] = loop'[c]] /\ loop'[c] \in {"register", "closing"}
          /\ \A p \in PubConn : loop'[p] = loop[p]
      BY <2>3 DEF Negotiate, Named, InHandler
    <3>3. Settled(heard'[c]) /\ chan[heard'[c]] = chan[c]
      BY <3>2
    <3> QED
      BY <3>1, <3>2, <3>3
  <2>4. CASE c \in SubConn /\ Register(c)
    BY <2>4 DEF Register, AddSubscriber
  <2>5. CASE Return(c)
    BY <2>5 DEF Return, InSelect, Named
  <2>6. CASE CloseRegistration(c)
    <3>1. UNCHANGED <<chan, heard, feed, localTrack>>
          /\ \A ch \in Channel : publisher'[ch] \in {publisher[ch], None}
      BY <2>6 DEF CloseRegistration, RemovePublisher, RemovePublisherPanics, RemoveSubscriber
    <3>2. \A ch \in Channel : subscribers'[ch] \subseteq subscribers[ch]
      BY <2>6 DEF CloseRegistration, RemovePublisher, RemovePublisherPanics, RemoveSubscriber
    <3>3. \A ch \in Channel : encoded'[ch] \subseteq encoded[ch]
      <4>1. UNCHANGED encoded \/ \E ch \in Channel : Drop(ch, listeners[ch])
        BY <2>6 DEF CloseRegistration, RemovePublisher, RemovePublisherPanics, RemoveSubscriber,
                    StopAll
      <4> QED
        BY <4>1 DEF Drop
    <3>4. \A x \in Conn : loop'[x] = loop[x] \/ loop'[x] \in {"teardown", "panicked"}
      BY <2>6 DEF CloseRegistration
    <3>5. \A x \in Conn : Settled(x) => loop'[x] \notin {"new", "select", "ready"}
      BY <3>4
    <3>6. ASSUME NEW ch \in Channel
          PROVE  /\ OnAir(ch)' => localTrack'[ch] # None
                 /\ localTrack'[ch] # None =>
                      Settled(localTrack[ch])' /\ chan'[localTrack'[ch]] = ch
                 /\ \A s \in subscribers'[ch] : heard'[s] # None /\ chan'[heard'[s]] = ch
                 /\ \A p \in encoded'[ch] : Settled(p)' /\ chan'[p] = ch
      BY <3>1, <3>2, <3>3, <3>5
    <3>7. ASSUME NEW s \in SubConn
          PROVE  /\ loop'[s] = "negotiate" => localTrack'[chan'[s]] # None
                 /\ loop'[s] \in {"register", "serving"} =>
                      heard'[s] # None /\ chan'[heard'[s]] = chan'[s]
                 /\ heard'[s] # None => Settled(heard[s])'
      BY <3>1, <3>4, <3>5
    <3>8. \A p \in PubConn : feed'[p] \in {"reading", "holding"} => Settled(p)' /\ chan'[p] # None
      BY <3>1, <3>5
    <3> QED
      BY <3>6, <3>7, <3>8 DEF TracksMatch
  <2>7. CASE CloseTransport(c)
    BY <2>7 DEF CloseTransport
  <2> QED
    BY <2>1, <2>2, <2>3, <2>4, <2>5, <2>6, <2>7 DEF Main
<1>4. ASSUME NEW c \in SubConn, Watcher(c) PROVE TracksMatch'
  BY <1>4 DEF Watcher, WatcherNotify, WatcherQuit
<1>5. ASSUME NEW c \in PubConn, TrackHandler(c) PROVE TracksMatch'
  BY <1>5 DEF TrackHandler, LookupForPacket, FeedPacket, WriteRTP
<1>6. ASSUME StreamStep, UNCHANGED sessionVars PROVE TracksMatch'
  <2>1. UNCHANGED <<publisher, localTrack, subscribers>>
    BY <1>6 DEF StreamStep, Responder, Lookup, JoinStream, JoinFails, TakeChunk, Written,
                ClientAborts, ChannelClosed, LeaveStream, EncoderExits
  <2>2. \A ch \in Channel : encoded'[ch] \subseteq encoded[ch]
    BY <1>6 DEF StreamStep, Responder, Lookup, JoinStream, Join, JoinFails, TakeChunk, Written,
                ClientAborts, ChannelClosed, LeaveStream, Leave, EncoderExits, StopAll, Drop
  <2> QED
    BY <1>6, <2>1, <2>2
<1> QED
  BY <1>1, <1>2, <1>3, <1>4, <1>5, <1>6 DEF Next, SessionStep

LEMMA TracksMatched == Spec => []TracksMatch
<1>1. Init => TracksMatch
  BY DEF Init, RegistryInit, RelayInit, SessionInit, TracksMatch, Settled, OnAir, Conn
<1> QED
  BY <1>1, TypeInvariant, RegisteredServed, TracksStep, PTL DEF Spec

\* Audio stays on its channel.
THEOREM HearsOwn == Spec => []HearsOwnChannel
<1>1. TypeInv /\ TracksMatch => HearsOwnChannel
  <2> SUFFICES ASSUME TypeInv, TracksMatch, NEW ch \in Channel, NEW s \in subscribers[ch]
               PROVE  heard[s] \in PubConn
    BY DEF TracksMatch, HearsOwnChannel
  <2>1. s \in SubConn
    BY DEF TypeInv, TypeOK, RegistryTypeOK
  <2> QED
    BY <2>1 DEF TypeInv, TypeOK, SessionTypeOK, TracksMatch
<1> QED
  BY <1>1, TypeInvariant, TracksMatched, PTL
-----------------------------------------------------------------------------
\* Only JoinStream adds a listener, and a listener that joined can only go from
\* "streaming" to "leaving", where Leave removes it.
LEMMA ListenerStep == TypeInv /\ ListenerIsServed /\ [Next]_vars => ListenerIsServed'
<1> SUFFICES ASSUME TypeInv, ListenerIsServed, [Next]_vars PROVE ListenerIsServed'
  OBVIOUS
<1> USE DEF TypeInv, TypeOK, RegistryTypeOK, RelayTypeOK, SessionTypeOK, StreamTypeOK, Conn,
            registryVars, relayVars, streamVars, ListenerIsServed
<1>1. CASE UNCHANGED vars
  BY <1>1 DEF vars
<1>2. ASSUME NEW c \in Conn, Client(c), UNCHANGED streamVars PROVE ListenerIsServed'
  BY <1>2 DEF Client, Accept, Offer, RefuseMessage, ReaderReturns, OnTrack, TrackFails,
              ConnectPublisher, ConnectSubscriber
<1>3. ASSUME NEW c \in Conn, Main(c), UNCHANGED streamVars PROVE ListenerIsServed'
  <2> USE <1>3
  <2>1. CASE ReceiveTrack(c) \/ Negotiate(c) \/ Return(c) \/ CloseTransport(c)
    BY <2>1 DEF ReceiveTrack, Negotiate, Return, CloseTransport
  <2>2. CASE Claim(c) \/ Register(c)
    BY <2>2 DEF Claim, AddPublisher, Register, AddSubscriber
  <2>3. CASE CloseRegistration(c)
    BY <2>3 DEF CloseRegistration, RemovePublisher, RemovePublisherPanics, RemoveSubscriber,
                StopAll, Drop
  <2> QED
    BY <2>1, <2>2, <2>3 DEF Main
<1>4. ASSUME NEW c \in SubConn, Watcher(c), UNCHANGED streamVars PROVE ListenerIsServed'
  BY <1>4 DEF Watcher, WatcherNotify, WatcherQuit
<1>5. ASSUME NEW c \in PubConn, TrackHandler(c), UNCHANGED streamVars PROVE ListenerIsServed'
  BY <1>5 DEF TrackHandler, LookupForPacket, FeedPacket, WriteRTP
<1>6. ASSUME StreamStep, UNCHANGED sessionVars PROVE ListenerIsServed'
  <2> USE <1>6 DEF Proceed
  <2>1. ASSUME NEW h \in Streamer, NEW ch \in Channel, Lookup(h, ch) PROVE ListenerIsServed'
    BY <2>1 DEF Lookup
  <2>2. ASSUME NEW h \in Streamer, JoinStream(h) PROVE ListenerIsServed'
    BY <2>2 DEF JoinStream, Join
  <2>3. ASSUME NEW h \in Streamer, JoinFails(h) \/ TakeChunk(h) \/ Written(h)
                                         \/ ClientAborts(h) \/ ChannelClosed(h)
        PROVE  ListenerIsServed'
    BY <2>3 DEF JoinFails, TakeChunk, Written, ClientAborts, ChannelClosed
  <2>4. ASSUME NEW h \in Streamer, LeaveStream(h) PROVE ListenerIsServed'
    BY <2>4 DEF LeaveStream, Leave, Drop
  <2>5. ASSUME NEW ch \in Channel, EncoderExits(ch) PROVE ListenerIsServed'
    BY <2>5 DEF EncoderExits, StopAll, Drop
  <2> QED
    BY <1>6, <2>1, <2>2, <2>3, <2>4, <2>5 DEF StreamStep, Responder
<1> QED
  BY <1>1, <1>2, <1>3, <1>4, <1>5, <1>6 DEF Next, SessionStep

\* No ended request keeps an encoder alive.
THEOREM ListenerServed == Spec => []ListenerIsServed
<1>1. Init => ListenerIsServed
  BY DEF Init, RegistryInit, RelayInit, ListenerIsServed
<1> QED
  BY <1>1, TypeInvariant, ListenerStep, PTL DEF Spec
-----------------------------------------------------------------------------
\* "channel_closed" goes to subscribers of a channel that a connection naming it
\* as its own has taken down in Close.  Which channel a subscriber hears, the
\* track it was given says; its own channel name may have changed since.
Dismissed(s) ==
    \E p \in PubConn : chan[p] = chan[heard[s]] /\ loop[p] \in {"teardown"} \cup Ended

\* Past its one registration, with a track whose connection has its channel.
Heard(s) ==
    /\ loop[s] \in {"serving"} \cup InClose \cup Ended
    /\ heard[s] \in PubConn
    /\ Settled(heard[s])

AlarmInv ==
    \A s \in SubConn :
        /\ s \in quit => Heard(s) /\ Dismissed(s)
        /\ told[s] = "channel_closed" => s \in quit

\* What no step undoes, of publishers and of subscribers.
LEMMA LastingStep ==
    TypeInv /\ [Next]_vars =>
        /\ \A p \in PubConn : Settled(p) => Settled(p)' /\ chan'[p] = chan[p]
        /\ \A p \in PubConn :
             loop[p] \in {"teardown"} \cup Ended => loop'[p] \in {"teardown"} \cup Ended
        /\ \A s \in SubConn :
             loop[s] \in {"serving"} \cup InClose \cup Ended =>
               loop'[s] \in {"serving"} \cup InClose \cup Ended /\ heard'[s] = heard[s]
<1> SUFFICES ASSUME TypeInv, [Next]_vars
             PROVE  /\ \A p \in PubConn : Settled(p) => Settled(p)' /\ chan'[p] = chan[p]
                    /\ \A p \in PubConn : loop[p] \in {"teardown"} \cup Ended =>
                                            loop'[p] \in {"teardown"} \cup Ended
                    /\ \A s \in SubConn : loop[s] \in {"serving"} \cup InClose \cup Ended =>
                         loop'[s] \in {"serving"} \cup InClose \cup Ended /\ heard'[s] = heard[s]
  OBVIOUS
<1> USE IdentitiesDistinct
    DEF TypeInv, TypeOK, SessionTypeOK, Conn, sessionVars, Settled, InClose, Ended
<1>1. CASE UNCHANGED sessionVars
  BY <1>1
<1>2. ASSUME NEW c \in PubConn, Client(c) PROVE UNCHANGED heard
  BY <1>2 DEF Client, Accept, Offer, RefuseMessage, ReaderReturns, OnTrack, TrackFails,
              ConnectPublisher
<1>3. CASE \E c \in PubConn : Client(c)
  BY <1>2, <1>3 DEF Client, Goto, Refuse, InSelect, Accept, Offer, RefuseMessage, ReaderReturns,
                    OnTrack, TrackFails, ConnectPublisher
<1>4. CASE \E c \in SubConn : Client(c)
  BY <1>4 DEF Client, Goto, Refuse, InSelect, Accept, Offer, RefuseMessage, ReaderReturns,
              ConnectSubscriber
<1>5. ASSUME NEW c \in PubConn, Main(c)
      PROVE  UNCHANGED <<heard, chan>> /\ loop' = [loop EXCEPT ![c] = loop'[c]]
  BY <1>5 DEF Main, Goto, Refuse, ReceiveTrack, Claim, Return, CloseRegistration, CloseTransport
<1>6. CASE \E c \in PubConn : Main(c)
  BY <1>5, <1>6 DEF Main, Goto, Refuse, InSelect, ReceiveTrack, Claim, Return,
                    CloseRegistration, CloseTransport
<1>7. CASE \E c \in SubConn : Main(c)
  BY <1>7 DEF Main, Goto, Refuse, InSelect, Negotiate, Register, Return, CloseRegistration,
              CloseTransport
<1>8. CASE \E c \in SubConn : Watcher(c)
  BY <1>8 DEF Watcher, WatcherNotify, WatcherQuit
<1>9. CASE \E c \in PubConn : TrackHandler(c)
  BY <1>9 DEF TrackHandler, LookupForPacket, FeedPacket
<1> QED
  BY <1>1, <1>3, <1>4, <1>6, <1>7, <1>8, <1>9 DEF Next, SessionStep, vars

\* A dismissal lasts.
LEMMA DismissedStep ==
    TypeInv /\ [Next]_vars =>
        \A s \in SubConn : Heard(s) /\ Dismissed(s) => Heard(s)' /\ Dismissed(s)'
<1> SUFFICES ASSUME TypeInv, [Next]_vars, NEW s \in SubConn, Heard(s), Dismissed(s)
             PROVE  Heard(s)' /\ Dismissed(s)'
  OBVIOUS
<1>1. heard'[s] = heard[s] /\ chan'[heard[s]] = chan[heard[s]] /\ Settled(heard[s])'
  BY LastingStep DEF Heard, Settled
<1>2. Heard(s)'
  BY <1>1, LastingStep DEF Heard, Settled
<1>3. PICK p \in PubConn : chan[p] = chan[heard[s]] /\ loop[p] \in {"teardown"} \cup Ended
  BY DEF Dismissed
<1>4. chan'[p] = chan[p] /\ loop'[p] \in {"teardown"} \cup Ended
  BY <1>3, LastingStep DEF Settled, Ended
<1> QED
  BY <1>1, <1>2, <1>3, <1>4 DEF Dismissed

\* Only the Close of a publisher's connection dismisses, and what it dismisses is
\* registered with the channel this connection named.
LEMMA QuitStep ==
    TypeInv /\ RegisteredIsServed /\ TracksMatch /\ [Next]_vars =>
        \A s \in SubConn : s \in quit' => s \in quit \/ (Heard(s)' /\ Dismissed(s)')
<1> SUFFICES ASSUME TypeInv, RegisteredIsServed, TracksMatch, [Next]_vars
             PROVE  \A s \in SubConn : s \in quit' => s \in quit \/ (Heard(s)' /\ Dismissed(s)')
  OBVIOUS
<1> USE DEF TypeInv, TypeOK, RegistryTypeOK, SessionTypeOK, Conn, registryVars
<1>1. ASSUME NEW c \in PubConn, CloseRegistration(c)
      PROVE  \A s \in SubConn : s \in quit' => s \in quit \/ (Heard(s)' /\ Dismissed(s)')
  <2>1. CASE UNCHANGED quit
    BY <2>1
  <2>2. CASE quit' # quit
    <3>1. /\ chan[c] \in Channel /\ quit' \subseteq quit \cup subscribers[chan[c]]
          /\ \E place \in {"teardown", "panicked"} : Goto(c, place)
          /\ chan' = chan /\ heard' = heard
      BY <1>1, <2>2, IdentitiesDistinct DEF CloseRegistration, RemovePublisher, RemovePublisherPanics
    <3>2. ASSUME NEW s \in SubConn, s \in subscribers[chan[c]] PROVE Heard(s)' /\ Dismissed(s)'
      <4>1. loop[s] \in {"serving"} \cup InClose \cup Ended /\ s # c
        BY <3>1, <3>2, IdentitiesDistinct DEF RegisteredIsServed, InClose, Ended
      <4>2. heard[s] \in PubConn /\ Settled(heard[s]) /\ chan[heard[s]] = chan[c]
        BY <3>1, <3>2 DEF TracksMatch
      <4>3. loop'[s] = loop[s] /\ loop'[c] \in {"teardown"} \cup Ended
        BY <3>1, <4>1 DEF Goto, Ended
      <4>4. Settled(heard[s])'
        BY <1>1, <3>1, <4>2 DEF Settled, Goto
      <4> QED
        BY <3>1, <4>1, <4>2, <4>3, <4>4 DEF Settled, Heard, Dismissed
    <3> QED
      BY <3>1, <3>2
  <2> QED
    BY <2>1, <2>2
<1>2. ASSUME ~\E c \in PubConn : CloseRegistration(c) PROVE UNCHANGED quit
  <2>1. ASSUME NEW c \in Conn, Client(c) PROVE UNCHANGED quit
    BY <2>1 DEF Client, Accept, Offer, RefuseMessage, ReaderReturns, OnTrack, TrackFails,
                ConnectPublisher, ConnectSubscriber
  <2>2. ASSUME NEW c \in Conn, Main(c) PROVE UNCHANGED quit
    <3>1. CASE CloseRegistration(c)
      BY <1>2, <3>1 DEF CloseRegistration, RemoveSubscriber
    <3> QED
      BY <2>2, <3>1 DEF Main, ReceiveTrack, Claim, AddPublisher, Negotiate, Register,
                        AddSubscriber, Return, CloseTransport
  <2>3. ASSUME NEW c \in SubConn, Watcher(c) PROVE UNCHANGED quit
    BY <2>3 DEF Watcher, WatcherNotify, WatcherQuit
  <2>4. ASSUME NEW c \in PubConn, TrackHandler(c) PROVE UNCHANGED quit
    BY <2>4 DEF TrackHandler, LookupForPacket, FeedPacket
  <2>5. ASSUME StreamStep PROVE UNCHANGED quit
    BY <2>5 DEF StreamStep, Responder, Lookup, JoinStream, JoinFails, TakeChunk, Written,
                ClientAborts, ChannelClosed, LeaveStream, EncoderExits
  <2> QED
    BY <2>1, <2>2, <2>3, <2>4, <2>5 DEF Next, SessionStep, vars
<1> QED
  BY <1>1, <1>2

LEMMA ToldStep ==
    TypeInv /\ [Next]_vars =>
        /\ quit \subseteq quit'
        /\ \A s \in SubConn :
             told'[s] = "channel_closed" => told[s] = "channel_closed" \/ s \in quit
<1> SUFFICES ASSUME TypeInv, [Next]_vars
             PROVE  /\ quit \subseteq quit'
                    /\ \A s \in SubConn :
                         told'[s] = "channel_closed" => told[s] = "channel_closed" \/ s \in quit
  OBVIOUS
<1> USE DEF TypeInv, TypeOK, SessionTypeOK, Conn, registryVars, sessionVars
<1>1. ASSUME NEW c \in Conn, Client(c)
      PROVE  /\ quit \subseteq quit'
             /\ \A s \in SubConn : told'[s] = "channel_closed" => told[s] = "channel_closed"
  BY <1>1 DEF Client, Refuse, Accept, Offer, RefuseMessage, ReaderReturns, OnTrack, TrackFails,
              ConnectPublisher, ConnectSubscriber
<1>2. ASSUME NEW c \in Conn, Main(c)
      PROVE  /\ quit \subseteq quit'
             /\ \A s \in SubConn : told'[s] = "channel_closed" => told[s] = "channel_closed"
  BY <1>2 DEF Main, Refuse, ReceiveTrack, Claim, AddPublisher, Negotiate, Register, AddSubscriber,
              Return, CloseRegistration, RemovePublisher, RemovePublisherPanics, RemoveSubscriber,
              CloseTransport
<1>3. ASSUME NEW c \in SubConn, Watcher(c)
      PROVE  /\ quit \subseteq quit'
             /\ \A s \in SubConn :
                  told'[s] = "channel_closed" => told[s] = "channel_closed" \/ s \in quit
  BY <1>3 DEF Watcher, WatcherNotify, WatcherQuit
<1>4. ASSUME NEW c \in PubConn, TrackHandler(c) PROVE UNCHANGED <<quit, told>>
  BY <1>4 DEF TrackHandler, LookupForPacket, FeedPacket
<1>5. ASSUME StreamStep, UNCHANGED sessionVars PROVE UNCHANGED <<quit, told>>
  BY <1>5 DEF StreamStep, Responder, Lookup, JoinStream, JoinFails, TakeChunk, Written,
              ClientAborts, ChannelClosed, LeaveStream, EncoderExits
<1> QED
  BY <1>1, <1>2, <1>3, <1>4, <1>5 DEF Next, SessionStep, vars

LEMMA AlarmStep ==
    TypeInv /\ RegisteredIsServed /\ TracksMatch /\ AlarmInv /\ [Next]_vars => AlarmInv'
<1> SUFFICES ASSUME TypeInv, RegisteredIsServed, TracksMatch, AlarmInv, [Next]_vars,
                    NEW s \in SubConn
             PROVE  /\ s \in quit' => Heard(s)' /\ Dismissed(s)'
                    /\ told'[s] = "channel_closed" => s \in quit'
  BY DEF AlarmInv
<1>1. s \in quit => Heard(s) /\ Dismissed(s)
  BY DEF AlarmInv
<1>2. s \in quit' => Heard(s)' /\ Dismissed(s)'
  BY <1>1, DismissedStep, QuitStep
<1>3. told'[s] = "channel_closed" => s \in quit'
  BY ToldStep DEF AlarmInv
<1> QED
  BY <1>2, <1>3

\* A subscriber is told that its channel closed only when some connection that
\* named in connect_publisher the channel it hears has gone through Close: the
\* registry never dismisses the subscribers of another channel, whatever names
\* their clients sent since.
THEOREM NoFalseAlarm == Spec => [](\A s \in SubConn : told[s] = "channel_closed" => Dismissed(s))
<1>1. Init => AlarmInv
  BY DEF Init, RegistryInit, SessionInit, AlarmInv, Conn
<1>2. AlarmInv => \A s \in SubConn : told[s] = "channel_closed" => Dismissed(s)
  BY DEF AlarmInv
<1> QED
  BY <1>1, <1>2, TypeInvariant, RegisteredServed, TracksMatched, AlarmStep, PTL DEF Spec
-----------------------------------------------------------------------------
\* connect_subscriber starts the watcher before it registers.
WatchInv ==
    \A s \in SubConn :
        /\ loop[s] = "register" => watch[s] # "none"
        /\ s \in quit \/ (\E ch \in Channel : s \in subscribers[ch]) => watch[s] # "none"
        /\ watch[s] \in {"written", "done"} => s \in quit

LEMMA WatchStep == TypeInv /\ WatchInv /\ [Next]_vars => WatchInv'
<1> SUFFICES ASSUME TypeInv, WatchInv, [Next]_vars PROVE WatchInv'
  OBVIOUS
<1> USE DEF TypeInv, TypeOK, RegistryTypeOK, SessionTypeOK, Conn, WatchInv,
            registryVars, sessionVars
<1>1. CASE UNCHANGED vars
  BY <1>1 DEF vars
<1>2. ASSUME NEW c \in Conn, Client(c) PROVE WatchInv'
  BY <1>2 DEF Client, Goto, Refuse, InSelect, Accept, Offer, RefuseMessage, ReaderReturns, OnTrack,
              TrackFails, ConnectPublisher, ConnectSubscriber
<1>3. ASSUME NEW c \in Conn, Main(c) PROVE WatchInv'
  <2> USE <1>3 DEF Goto, Refuse
  <2>1. CASE (c \in PubConn /\ (ReceiveTrack(c) \/ Claim(c))) \/ Return(c) \/ CloseTransport(c)
    BY <2>1, IdentitiesDistinct DEF ReceiveTrack, Claim, AddPublisher, Return, CloseTransport
  <2>2. CASE c \in SubConn /\ Negotiate(c)
    BY <2>2 DEF Negotiate
  <2>3. CASE c \in SubConn /\ Register(c)
    BY <2>3 DEF Register, AddSubscriber
  <2>4. CASE CloseRegistration(c)
    <3>1. /\ UNCHANGED watch /\ \A s \in SubConn : loop'[s] = "register" => loop[s] = "register"
          /\ quit \subseteq quit' /\ \A ch \in Channel : subscribers'[ch] \subseteq subscribers[ch]
      BY <2>4 DEF CloseRegistration, RemovePublisher, RemovePublisherPanics, RemoveSubscriber
    <3>2. quit' = quit \/ \E ch \in Channel : quit' \subseteq quit \cup subscribers[ch]
      BY <2>4 DEF CloseRegistration, RemovePublisher, RemovePublisherPanics, RemoveSubscriber
    <3> QED
      BY <3>1, <3>2
  <2> QED
    BY <2>1, <2>2, <2>3, <2>4 DEF Main
<1>4. ASSUME NEW c \in SubConn, Watcher(c) PROVE WatchInv'
  BY <1>4 DEF Watcher, WatcherNotify, WatcherQuit
<1>5. ASSUME NEW c \in PubConn, TrackHandler(c) PROVE WatchInv'
  BY <1>5 DEF TrackHandler, LookupForPacket, FeedPacket
<1>6. ASSUME StreamStep, UNCHANGED sessionVars PROVE WatchInv'
  BY <1>6 DEF StreamStep, Responder, Lookup, JoinStream, JoinFails, TakeChunk,
              Written, ClientAborts, ChannelClosed, LeaveStream, EncoderExits
<1> QED
  BY <1>1, <1>2, <1>3, <1>4, <1>5, <1>6 DEF Next, SessionStep

\* Whom RemovePublisher tells to quit has a watcher to hear it, and so has
\* everybody it could still tell: the safe half of ToldSubscriberLeaves.  Nor
\* does a watcher dismiss a subscriber that nobody told.
THEOREM ToldIsHeard ==
    Spec => [](\A s \in SubConn :
                  /\ s \in quit \/ (\E ch \in Channel : s \in subscribers[ch])
                        => watch[s] # "none"
                  /\ watch[s] \in {"written", "done"} => s \in quit)
<1>1. Init => WatchInv
  BY DEF Init, RegistryInit, SessionInit, WatchInv, Conn
<1>2. WatchInv => \A s \in SubConn :
                    /\ s \in quit \/ (\E ch \in Channel : s \in subscribers[ch])
                          => watch[s] # "none"
                    /\ watch[s] \in {"written", "done"} => s \in quit
  BY DEF WatchInv
<1> QED
  BY <1>1, <1>2, TypeInvariant, WatchStep, PTL DEF Spec
-----------------------------------------------------------------------------
\* The Close of a publisher whose connect_publisher was refused takes the channel
\* of another one off air.
RefusedCloses ==
    \E p \in PubConn :
        /\ loop[p] = "closing" /\ loop'[p] # "closing"
        /\ told[p] = "error" /\ chan[p] # None
        /\ publisher[chan[p]] \notin {p, None}

\* It has the channel, as far as anybody told it.
Accepted(p) ==
    \/ loop[p] = "serving"
    \/ loop[p] = "closing" /\ chan[p] # None /\ told[p] # "error"

OwnInv ==
    \A p \in PubConn :
        /\ ~Settled(p) => chan[p] = None
        /\ Accepted(p) => publisher[chan[p]] = p

LEMMA OwnStep == TypeInv /\ OwnInv /\ [Next /\ ~RefusedCloses]_vars => OwnInv'
<1> SUFFICES ASSUME TypeInv, OwnInv, [Next /\ ~RefusedCloses]_vars PROVE OwnInv'
  OBVIOUS
<1> USE IdentitiesDistinct
    DEF TypeInv, TypeOK, RegistryTypeOK, SessionTypeOK, Conn, registryVars, sessionVars,
        OwnInv, Accepted, Settled
<1>1. CASE UNCHANGED vars
  BY <1>1 DEF vars
<1>2. ASSUME NEW c \in Conn, Client(c) PROVE OwnInv'
  <2> USE <1>2 DEF Goto, Refuse
  <2>1. CASE Accept(c) \/ Offer(c)
    BY <2>1 DEF Accept, Offer
  <2>2. CASE RefuseMessage(c)
    BY <2>2 DEF RefuseMessage, InSelect
  <2>3. CASE ReaderReturns(c) \/ OnTrack(c) \/ TrackFails(c)
    BY <2>3 DEF ReaderReturns, OnTrack, TrackFails
  <2>4. ASSUME NEW ch \in Channel, ConnectPublisher(c, ch) PROVE OwnInv'
    BY <2>4 DEF ConnectPublisher
  <2>5. ASSUME NEW ch \in Channel \cup {None}, c \in SubConn, ConnectSubscriber(c, ch)
        PROVE  OwnInv'
    BY <2>5 DEF ConnectSubscriber
  <2> QED
    BY <2>1, <2>2, <2>3, <2>4, <2>5 DEF Client
<1>3. ASSUME NEW c \in Conn, Main(c), ~RefusedCloses PROVE OwnInv'
  <2> USE <1>3 DEF Goto, Refuse
  <2>1. CASE ReceiveTrack(c) \/ (c \in SubConn /\ Negotiate(c)) \/ CloseTransport(c)
    BY <2>1 DEF ReceiveTrack, Negotiate, CloseTransport
  <2>2. CASE c \in PubConn /\ Claim(c)
    BY <2>2 DEF Claim, AddPublisher, OnAir, Named, InHandler
  <2>3. CASE c \in SubConn /\ Register(c)
    BY <2>3 DEF Register, AddSubscriber
  <2>4. CASE Return(c)
    BY <2>4 DEF Return, InSelect
  <2>5. CASE c \in PubConn /\ CloseRegistration(c)
    <3>1. loop[c] = "closing" /\ loop'[c] # "closing" /\ loop' = [loop EXCEPT ![c] = loop'[c]]
          /\ loop'[c] \in {"teardown", "panicked"} /\ UNCHANGED <<chan, told>>
      BY <2>5 DEF CloseRegistration
    <3>2. CASE chan[c] = None
      BY <2>5, <3>1, <3>2 DEF CloseRegistration
    <3>3. CASE chan[c] # None
      <4>1. publisher' = [publisher EXCEPT ![chan[c]] = None]
        BY <2>5, <3>3 DEF CloseRegistration, RemovePublisher, RemovePublisherPanics
      <4>2. publisher[chan[c]] \in {c, None}
        BY <2>5, <3>1, <3>3 DEF RefusedCloses
      <4> QED
        BY <2>5, <3>1, <4>1, <4>2 DEF Named
    <3> QED
      BY <3>2, <3>3
  <2>6. CASE c \in SubConn /\ CloseRegistration(c)
    BY <2>6 DEF CloseRegistration, RemoveSubscriber
  <2> QED
    BY <2>1, <2>2, <2>3, <2>4, <2>5, <2>6 DEF Main
<1>4. ASSUME NEW c \in SubConn, Watcher(c) PROVE OwnInv'
  BY <1>4 DEF Watcher, WatcherNotify, WatcherQuit
<1>5. ASSUME NEW c \in PubConn, TrackHandler(c) PROVE OwnInv'
  BY <1>5 DEF TrackHandler, LookupForPacket, FeedPacket
<1>6. ASSUME StreamStep, UNCHANGED sessionVars PROVE OwnInv'
  BY <1>6 DEF StreamStep, Responder, Lookup, JoinStream, JoinFails, TakeChunk,
              Written, ClientAborts, ChannelClosed, LeaveStream, EncoderExits
<1> QED
  BY <1>1, <1>2, <1>3, <1>4, <1>5, <1>6 DEF Next, SessionStep

\* "only permit one publisher per channel" (registry.go:13) fails for one reason
\* only: as long as no Close of a refused publisher takes down the channel of
\* another, no two connections hold an accepted connect_publisher for one.
THEOREM OneUnlessRefused == Init /\ [][Next /\ ~RefusedCloses]_vars => []OnePublisherPerChannel
<1>1. Init => OwnInv
  BY DEF Init, SessionInit, OwnInv, Accepted, Settled, Conn
<1>2. OwnInv => OnePublisherPerChannel
  BY DEF OwnInv, Accepted, OnePublisherPerChannel
<1>3. [Next /\ ~RefusedCloses]_vars => [Next]_vars
  OBVIOUS
<1> QED
  BY <1>1, <1>2, <1>3, TypeInvariant, OwnStep, PTL DEF Spec
=============================================================================
