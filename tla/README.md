# live_audio_broadcaster in TLA+

The program relays the audio of one publisher per channel to any number of
subscribers. A Go server keeps a registry of channels, serves each page over a
websocket and each audio stream over WebRTC; in "Stable mode" a subscriber takes
the channel as an MP3 stream over HTTP instead, made by one ffmpeg process per
channel. Two browser pages, the publisher's and the subscriber's, drive it.

These modules model the control of the server and of both pages. TLC checks them
on small instances; TLAPS proves their safety for every value of the constants.

- [Inventory](#inventory)
- [Modules](#modules)
- [Runs](#runs)
- [Fairness](#fairness)
- [Proofs](#proofs)
- [Findings](#findings)
- [What is not modelled](#what-is-not-modelled)
- [Plan](#plan)

## Inventory

| Component | Source | State | Operations | Correct when |
|---|---|---|---|---|
| Channel registry | `registry.go` | per channel: publisher, local track, subscribers with their QuitChan, a Stable stream | AddPublisher, AddSubscriber, RemovePublisher, RemoveSubscriber, GetChannel(s) | one publisher per channel; nobody is registered who is no longer served; all subscribers of a channel that goes off air are told |
| Websocket session | `http.go`, `conn.go` | place in the select loop, channel name, quitchan, localTrackChan, peer | the messages of `handleWSMsg`, Close, track handler, watcher | every session ends in Close, Close forgets what the session registered, a client that is heard is told why |
| WebRTC peer | `webrtc.go` | pion's peer connection | SetupPublisher, SetupSubscriber | a subscriber gets its channel's track |
| Stable stream | `stablestream.go` | listeners with a bounded channel each, ffmpeg, pipes, running | Join, Leave, StopAll, WriteRTP, start, stop, pump, the goroutine in Wait | ffmpeg runs exactly for its listeners; a slow listener harms nobody and loses old audio only |
| Stream request | `stream_handler.go` | its listener | GET /stream/{channel} | every join is followed by a leave |
| Server | `main.go` | - | routes, shutdown | the composition keeps all of the above |
| Page | `html/js/common.js` | websocket, peer connection, ICE timer | socket and ICE handlers | a lost peer connection is repaired |
| Publisher page | `publisher.js`, `microphone.js` | microphone, form, saved settings, reconnect timer, recorder | submit, mute, record, reload, reconnect | comes back online, on its channel, and muted if it was |
| Subscriber page | `subscriber.js`, `utils.js`, `index.html` | picker, audio element, spinner and reload timers, wake lock | pick a channel, play, pause, stall repair, reconnect | plays what was picked, or repairs itself; leaves audio that plays alone |

Scripts (`tag.js`, `run.ps1`, `run_babelcast.sh`, the launchd plist), the
embedding of `html/` and the vendored front end keep no protocol state.

How they interact:

- A page opens a websocket; `wsHandler` runs its select loop for it, with a
  reader goroutine that feeds the loop. A publisher's page sends
  `session_publisher`, then `connect_publisher`; a subscriber's page sends
  `session_subscriber`, then `connect_subscriber`. Nothing enforces that order: a
  publisher may connect before its offer was sent, and a subscriber's page can send
  `connect_subscriber` again on a connection that is served.
- pion calls `rtcTrackHandlerPublisher` when a publisher's audio arrives. It hands
  the local track to the select loop over an unbuffered channel, and then copies
  packets: to the local track, and to the Stable stream of the channel it looks
  up for each packet.
- `RemovePublisher` closes the QuitChan of each subscriber and stops the channel's
  Stable stream, holding the registry's mutex. The watcher of a subscriber turns
  its QuitChan into a `channel_closed` message and a closed `quitchan`, on which
  the select loop returns.
- A stream request looks its channel up in the registry and then uses the struct
  without a lock: Join, a receive loop, and Leave. A pump per ffmpeg process
  sends to the listeners' channels holding the stream's mutex.

What is hard: at least six kinds of goroutine meet in the registry and in a
Stable stream; two of the meetings (lookup, then use) are two critical sections;
a callback of the WebRTC stack races with the message that waits for it; ffmpeg
dies when it likes; a client goes away between any two steps; and a page replaces
its websocket and its peer connection while handlers of the old ones are still
to run. `PROJECT.json` lists the hazards, each at its line.

## Modules

```
StableRelay ── Registry ─┬─ Session ───────┬─ Server ─┬─ MCServer
     │                   └─ StreamHandler ─┘          └─ ServerProofs
     │ implemented by
StableStream ─┬─ MCStableStream
              └─ StableStreamProofs ── StableQueueProofs

WsConn ── WsConnProofs

Page ─┬─ PublisherPage ─┬─ PublisherAudio ───────┬─ PublisherAudioProofs
      │                 └─ PublisherPageProofs ──┘
      └─ SubscriberPage ── SubscriberPageProofs ── SubscriberChannelProofs
```

**StableRelay** is the abstract specification of a channel's Stable stream: a set
of listeners, and an encoder that exists while the set is not empty, each method
one step. The server's modules are built on it.

**Registry** has one operator per method of `registry.go`, one step each, since
each holds the mutex throughout. RemovePublisher comes in two forms: the normal
one, and the one that meets a subscriber whose QuitChan is already closed and
panics half way, having told an arbitrary part of the others.

**Session** is one websocket connection with its goroutines. `loop[c]` is the
place of the main goroutine, `feed[c]` that of a publisher's track handler,
`watch[c]` that of a subscriber's watcher, and `reader[c]` says whether the reader
goroutine still reads:

| Code | Actions |
|---|---|
| `wsHandler` up to the loop | Accept |
| `session_*` | Offer |
| a message that fails and changes nothing | RefuseMessage |
| `connect_publisher` | ConnectPublisher (which waits for ever if no offer came first, in "stuck"), ReceiveTrack, Claim |
| `connect_subscriber` | ConnectSubscriber (sets the channel name, then GetChannel), Negotiate (SetupSubscriber), Register (AddSubscriber) |
| return from the select loop | Return |
| `Close` | CloseRegistration, CloseTransport |
| `rtcTrackHandlerPublisher` | OnTrack, LookupForPacket, FeedPacket, TrackFails |
| goroutine of `http.go:250` | WatcherNotify, WatcherQuit |
| the reader goroutine returns: the client left, or sent what is not text or not JSON | ReaderReturns |

A handler is split exactly where another goroutine can come in between with an
effect: at a critical section, a channel operation, a websocket write.

A `connect_subscriber` sets `channelName` before anything can fail, also on a
connection that is served, where it always fails: the session then ends, and
Close looks for its registration in the channel named last. Nothing in the
properties takes a subscriber's channel to be constant.

**WsConn** is one such connection alone, at the grain Session abstracts from:
`reader` and the callbacks `feed` (track), `ice` (state) and `cand` (candidate)
each block in the send or the lock they are in; `main` is the place in the select
loop, the message being handled, or a step of Close; `mu` is Conn's mutex, held
across a write. `left` counts the messages a handler has still to write and
`after` says where it goes then, so that a write is one pair of actions for all of
them. A client may send its messages at any time and in any order: candidates as
often as it likes, one offer, and either one `connect_publisher`, or
`get_channels` and `connect_subscriber` any number of times. `renamed` says that
the channel named last is not the one the connection is registered with, so that
Unregister does not find it. `Unreadable` is the reader that returns for a message
it cannot read.

**StreamHandler** is the request for a stream, `at[h]`, with the lookup and the
Join as two steps. **Server** composes both over one registry and states the
properties.

**StableStream** is one stream at the grain of its code. A critical section is one
step, except the pump's loop over the listeners, which holds the mutex (`mu`)
while the requests receive: there, each of the three selects is a step. A
process, its pump and its waiter have each their own place, and each run of
`start` takes a fresh process, so a killed process and what it leaves behind can
meet its successor. `Relay == INSTANCE StableRelay WITH ...` maps it to the
abstract stream.

**Page** and **PublisherPage** are a page of the browser, one step per event
handler. `ws` and `ice` are the states of the current socket and peer connection;
`first` says that they are still those of the page's load, the only ones `wsSend`
sends on. `pending` counts the reconnect timers that run, `handle` says that the
variable `reconnectTimeout` holds one, which may have fired: the code takes the
second for the first. `stored`, `named` and `auto` follow a channel from
localStorage to the variable and to the automatic connection, and `served` is
what the server made of the messages it got.

**PublisherAudio** adds muting and recording to PublisherPage: each of its handlers
is conjoined with what it does to the microphone's icon, `enabled` (of the
audioTrack), `micEnabled`, the recorder and its flags, and the buttons and the
timer of the recorder are actions of their own. `forgotten` says that
a recorder that another one replaced is still on: no variable of the page refers to
it, so nothing stops it. `saved` is the part of babelcast_settings that
PublisherPage leaves out. Every step is one of
PublisherPage or leaves that alone, which is proved. The handler that takes a
recording up again after a reconnect is there, but cannot run: the finding
`lost_offer` keeps a reconnected page from ever seeing ICE connect.

**SubscriberPage** is `subscriber.js` in both modes. `stable` and `stored` are
localStorage; `session` and `inbox` what the server made of this connection and
what it sent; `waits` counts the waitForElement intervals, which survive their
connection. `audio` is the element's state: "starved" after `waiting`, "frozen"
when its time stands still without an event. Time is discrete (`Tick`): `loading`
is what is left of the one reload timer that startLoadingTimeout and
onStableStall share, `check` what is left until the next stall check; these two
race, so their periods are constants with an order (`PeriodsOrdered`). Other timers
(pause, ICE, waitForElement) may fire at any time once they are set.

Definitions that start with "Slip" are mistakes the code might have had; each
property is violated when its slip takes the place of the real definition, so
none of them holds for lack of anything that could break it.

## Runs

| Run | What it checks | States |
|---|---|---|
| `server_safety` | types, HolderIsServed, RegisteredIsServed, HearsOwnChannel, OffAirIsTold, NoSilentHangup, ListenerIsServed | 3.1 M |
| `server_liveness` | PublisherLeavesChannel, ToldSubscriberLeaves, GoneSessionEnds | 242 k |
| `stable_safety` | types, RunsForListeners, NoSendOnClosed, NewestNeverLost, NoHoleInQueue | 1.8 M |
| `stable_liveness` | RelaySpec, PumpReleasesLock, DeadEncoderIsCleared, StoppedProcessEnds, ClosedRequestEnds | 27 k |
| `ws_conn` | types, OneWriter, InfoIsSent, MessageIsTaken, ToldIsLetGo, LeavesOnlyBlocked | 59 k |
| `publisher_page` | AudioTypeOK (the page's types too), OneReconnect, ChannelKept, MutedIsSilent, RecordingIsShown, ComesBackOnline, IceLossIsRepaired | 52 k |
| `subscriber_page` | types, SparesPlayingAudio, PlaysPickedChannel, OneWatch, LongPauseReloads, FrozenAudioIsRepaired, SpinnerEnds | 384 k |
| `rejected_publisher`, `double_dismissal`, `waiter_kills_newer`, `lost_offer`, `dead_stream` | one statement of the repository each, which TLC refutes: see [Findings](#findings) | |

Bounds, and why they are enough:

- `server_safety`: two channels, two publishers, a subscriber and a stream request.
  Two publishers can compete for one channel, follow each other on it, or hold
  one each; the second channel is there for audio on the wrong one and
  for a subscriber that names another one. A connection is used once, as in the code,
  and there are no other counters. The members of each of these sets are
  interchangeable (`Symmetry`). Properties relate
  one subscriber or request to the publishers, and these run alone among their
  kind; what two subscribers do to each other (the panic of RemovePublisher) is in
  `double_dismissal`, and the proofs hold for any number.
- `server_liveness`: one channel, two publishers, one subscriber, without symmetry,
  which would not be sound for liveness.
- `stable_safety`: two requests, two processes, capacity 2, and at most 3 chunks a
  process (`MaxChunk`): queues overflow, and a process can be succeeded by
  another. Chunks after the third find the same full queue. The capacity is 8 in
  the code; the theorems hold for each.
- `stable_liveness`: two requests, one source, one process, capacity 1, 2 chunks.
- `ws_conn`: one message on its way (`MaxWire`), which is what can be in flight
  between a reader that blocks and a loop that is busy; the client may go on sending
  for ever, in any order, so a handler can meet any state of the peer connection.
- `publisher_page`: no bound. OneReconnect keeps the number of timers finite, and a
  page loads once between two reloads.
- `subscriber_page`: two channels, so that one can be picked while another is on its
  way; periods 1 < 2 < 3, since only their order decides who fires first; two
  `get_channels` not answered (`MaxPolls`), so that a late answer can take back the
  list an earlier one gave, and two intervals per channel counted (`MaxWaits`), an
  older and the current connection's. `dead_stream` has one
  channel and the code's periods, 3, 4 and 30 s.

Deadlock is not checked for the server, the stream and the connection: connections,
requests and processes are each used once, so a behaviour ends when they are used
up. It is checked for the pages.

## Fairness

- Server: weak fairness of each connection's main goroutine and watcher. The Go
  scheduler runs a goroutine that can go on. One kind of step does wait for a client:
  a websocket write. `writeMsg` (`conn.go:161`) sets no deadline, so a client that
  stays connected and stops reading can hold a writer, and with it the connection's
  mutex and its Close, once the buffers of the socket are full. The runs
  `server_liveness` and `ws_conn` assume that this does not last: each write ends,
  with success or with an error. Nothing else is owed by clients, the network,
  the WebRTC stack and ffmpeg, so that a publisher whose audio never arrives, or
  that connected without an offer, stays in connectPublisher: GoneSessionEnds
  excepts it.
- Stable stream: weak fairness of the receive loop, of the pump while it holds the
  mutex and at the end of its input, and of the exit of a killed process; strong
  fairness where the mutex is taken (Leave, the pump, the waiter), since
  `sync.Mutex` hands itself to a goroutine that has waited for 1 ms. A write to a
  client may never return (`stream_handler.go` removes the deadline), so
  ClosedRequestEnds assumes of its request that it is not stuck there.
- One connection: weak fairness of what goes on by itself (a handler, a write, on
  the same assumption, a read, the teardown); strong fairness of each case of the select, which Go picks
  at random among those that are ready, and of whoever waits for the mutex. The
  client, ICE and the arrival of a track owe nothing.
- Publisher's page: weak fairness of its timers, which the browser fires; strong
  fairness of a socket that opens, an assumption about the network: a page that
  tries again and again succeeds some time. Nothing is assumed of the user, of ICE
  or of the server's answers.
- Subscriber's page: weak fairness of time, of a socket that opens or was told to
  close, and of ICE leaving "checking" once the answer is there. Nothing is assumed
  of the user, of the server's answers, of the timers that are not counted, and of
  the media, which may freeze for good: what the page must do it does in time. The
  finding `dead_stream` is refuted under more (`ServedSpec`): even when all
  timers fire and the server answers, the dead stream is not given up.

## Proofs

| Theorem | Property | For every |
|---|---|---|
| ServerProofs!TypeCorrect | TypeOK | set of channels, connections, requests |
| ServerProofs!HolderServed | HolderIsServed | " |
| ServerProofs!RegisteredServed | RegisteredIsServed | " |
| ServerProofs!OffAirTold | OffAirIsTold | " |
| ServerProofs!NeverSilent | NoSilentHangup | " |
| ServerProofs!HearsOwn | HearsOwnChannel | " |
| ServerProofs!ListenerServed | ListenerIsServed | " |
| ServerProofs!NoFalseAlarm | told channel_closed only for the channel one hears | " |
| ServerProofs!ToldIsHeard | safe half of ToldSubscriberLeaves | " |
| ServerProofs!OneUnlessRefused | OnePublisherPerChannel, but for one step | " |
| StableStreamProofs!TypeCorrect | TypeOK | set of requests, sources, processes; capacity; number of chunks |
| StableStreamProofs!CostsNothingUnused | RunsForListeners | " |
| StableStreamProofs!SendsOnOpen | NoSendOnClosed | " |
| StableStreamProofs!FavorsFreshest | NewestNeverLost | " |
| StableStreamProofs!ImplementsRelay | RelaySpec | " |
| StableStreamProofs!AtMostOneEncoder | at most one process alive and not killed | " |
| StableStreamProofs!EncoderIsWatched | safe half of DeadEncoderIsCleared | " |
| StableStreamProofs!GoroutinesOutliveProcess | safe half of StoppedProcessEnds | " |
| StableQueueProofs!HearsInOrder | NoHoleInQueue | " |
| StableQueueProofs!StaysFresh | queued audio at most Cap chunks behind | " |
| StableQueueProofs!HearsForward | each chunk later than the one before | " |
| StableQueueProofs!SparesUnlessStarted | WaiterSparesNewer, but for one step | " |
| PublisherPageProofs!TypeCorrect | TypeOK | (no constants) |
| PublisherPageProofs!ReconnectsOnce | OneReconnect | |
| PublisherPageProofs!KeepsChannel | ChannelKept | |
| PublisherPageProofs!NotStranded | safe half of ComesBackOnline | |
| PublisherPageProofs!StaysOffAir | nothing is served after a reconnect | |
| PublisherAudioProofs!ImplementsPage | Spec of PublisherPage | |
| PublisherAudioProofs!AudioTypeCorrect | AudioTypeOK | |
| PublisherAudioProofs!StaysMuted | MutedIsSilent | |
| PublisherAudioProofs!ShowsRecording | RecordingIsShown | |
| SubscriberPageProofs!TypeCorrect | TypeOK | set of channels; periods; bounds |
| SubscriberPageProofs!WatchesOnce | OneWatch | " |
| SubscriberPageProofs!PausesEnd | LongPauseReloads | " |
| SubscriberChannelProofs!SparesPlaying | SparesPlayingAudio | " |
| SubscriberChannelProofs!PlaysPicked | PlaysPickedChannel | " |
| SubscriberChannelProofs!SpinnerIsTimed | safe half of SpinnerEnds | " |
| WsConnProofs!TypeCorrect | TypeOK | number of messages on their way |
| WsConnProofs!WritesAlone | OneWriter | " |
| WsConnProofs!MutexIsFreed | who holds the mutex gives it back next | " |
| WsConnProofs!SessionGrain | what Session takes for granted, of a connection not renamed | " |

The assumptions are those of the modules: identities of different kinds differ
from each other and from nil (IdentitiesDistinct, NoneApart), a listener's
channel has a capacity of at least one (CapPositive), the page's timers keep their
order (PeriodsOrdered), and bounds are numbers, positive where they count something
that has to happen once.

The argument, per module:

- Server. TypeOK is not inductive: a handler that indexes the registry with its
  channel must have one. `Named` says so, of connections and of requests; with
  TypeOK it is the basis of every other proof. HolderIsServed, RegisteredIsServed,
  OffAirIsTold and ListenerIsServed are inductive on it. NoSilentHangup is not: a
  session on its way through Close must have been told already, or its reader has
  stopped, or it owes its end to a watcher that has written; this is `Farewell`.
  HearsOwnChannel is not either: what a subscriber will hear when it registers is
  the local track its channel had when it negotiated. `TracksMatch` says of every
  track and packet on its way (kept by a channel, added to a peer connection, held
  by a track handler) that its connection has named its channel for good, whoever
  publishes now, and of a registered subscriber that the channel it is registered
  with is that of the track it hears, whatever it named since. The step from one
  state to the next therefore needs RegisteredIsServed. NoFalseAlarm speaks of the
  channel heard for the same reason. Its `AlarmInv` says that whoever is in `quit`
  hears a track whose channel was dismissed, that is, named by a publisher that has
  been through Close; what it rests on is that no step undoes any of this
  (LastingStep, DismissedStep), and that what one RemovePublisher tells is
  registered with the channel it was called for (QuitStep). ToldIsHeard
  needs to know that the watcher is started before the registration (`WatchInv`).
- StableStream. `IInv` adds the discipline of the pump: only the pump that holds
  the mutex has listeners left to serve, these are registered, no queue exceeds
  the capacity, and after the second select its target has room. That makes the
  default of the third select unreachable: only the pump sends, and the request
  can only make more room. `ProcInv` ties the life of each process to `cmd`, to its
  pump and to its waiter: whoever forgets a process kills it, and a waiter that
  found its process current is done only with StopAll. That the current process
  has a waiter left is not inductive alone: start() must not meet a process whose
  waiter is done. The refinement follows from the same invariant: each
  step maps to one method of StableRelay or to a stutter.
- StableQueueProofs. NoHoleInQueue speaks of positions in a queue, so what Append
  and Tail do to a run of chunks are lemmas (AppendOwn, AppendOther, TailRun).
  It is not inductive: `ProcInv` ties a pump's place to the mutex and to the life of
  its process, so that "handed to it" means the same before and after a step of
  another; `UpTo` bounds the chunk taken last, also when the channel is empty, and
  says that a chunk lags behind the newest by no more than what follows it in the
  queue (`Lag`), which gives StaysFresh.
- PublisherPage. OneReconnect is inductive with the types. ChannelKept is not: a
  page that has not restored its settings must not save them. `Unrestored` says
  why it does not: as long as something is stored, no session exists whose ICE
  could fail, and while there is a channel to lose the page shows its reload button
  only when it has the channel's name. NotStranded depends on the handle
  too: a stale one would keep `startReconnectionTimer` from starting a timer, so
  `TimerAfterLoss` says that a first socket not yet lost has neither timer nor handle.
- PublisherAudio. ImplementsPage carries the invariants of PublisherPage over.
  MutedIsSilent is not inductive: the next page's track gets what localStorage
  says, or is enabled if that says nothing. `Kept` adds that while a muted page
  has still to restore its settings they are there, and say "muted"; and
  `FirstSession`, that a session on air is one of the first socket, whose track
  has been granted. ShowsRecording says of a page still on its first
  socket that no recorder runs but the one its button shows. That is not
  inductive: such a page asks for one microphone, and has no recorder to replace
  until it gets it (`FirstRecorder`).
- SubscriberPage. The type of `watches` is not inductive: the loop is stopped
  through `_stopConnectionLoss`. `WatchesKnown` ties the two, and gives OneWatch.
  LongPauseReloads is inductive.
- SubscriberChannelProofs. SparesPlayingAudio speaks of the timer and the audio, and
  depends on what the server made of the connection. `TalkInv` ties the messages
  on their way to the session: no answer without a request, and a refusal is still
  on its way as an error. `AnswerInv` says that only an answer gives the element its
  source, and `TimerInv` that a served connection whose audio sounds has no timer.
  PlaysPickedChannel adds which channel each of them is for. `PollInv`: as long as a
  list of channels may still come, nothing but the stored channel is asked for or
  waited for. `PickInv`: another channel than the stored one that was asked for is
  not the last word, since the stored one waits its turn, the server then refuses
  it, and the page reloads. SpinnerIsTimed needs that a connection is answered
  once (`OneAnswer`) and that ICE moves only after the answer (`IceInv`).
- WsConn. OneWriter follows from `HoldsLock`: whoever is at a place that writes or
  tears down is the holder of the mutex. Read the other way it is MutexIsFreed.
  SessionGrain states what the steps of Session rely on and several goroutines
  have to keep. That the watcher is started once is not inductive, since connects
  may be many: a watcher exists only once the peer connection has answered
  (`AnswersOnce`), which it does once, because the one offer, followed from the wire
  over the reader to its handler (`OffersOnce`), is all that makes it answer.
  That a closed connection is out of the registry holds of one not renamed
  (`ClosesLast`), and SessionGrain says so, as RegisteredIsServed does.

Five theorems are the safe halves of liveness properties: they say that whoever
has to act is there and can; the run says, under fairness, that the end comes.

Two theorems qualify a finding. OneUnlessRefused and SparesUnlessStarted are about
the specification without one step: the Close of a refused publisher that takes
down another's channel (`RefusedCloses`), and a start between a waiter's check and
its StopAll (`StartsBehindWaiter`). Without that step the refuted statement is a
theorem, so that step is its only cause. StaysOffAir generalises the finding
`lost_offer` from an offer to every message.

Only model-checked: the 15 properties under fairness, since liveness is out of the
prover's reach. Every other property of a passing run is a theorem. The
five refuted statements are of course not proved.

## Findings

Statements of the repository that the code does not keep.

| Run | Statement | What happens |
|---|---|---|
| `rejected_publisher` | "only permit one publisher per channel", `registry.go:13` | a publisher refused with "already in use" closes its session, and Close calls RemovePublisher for the channel of the other one |
| `double_dismissal` | "tell all subscribers to quit", `registry.go:99` | two publishers leave in a row, the second closes a closed QuitChan and panics before it told the rest |
| `waiter_kills_newer` | "A newer generation already replaced this one - nothing to clean up here", `stablestream.go:171` | the stream restarts between the waiter's check and its StopAll |
| `lost_offer` | "Re-establish the WebRTC connection using the selected microphone", `publisher.js:512` | wsSend still sends on the first socket, so the new connection never gets the offer |
| `dead_stream` | "only fall back to reloading if it stays stuck much longer (a real dead stream, not a blip)", `subscriber.js:473` | the stall check re-arms the 30 s timer every 3 s, so it never fires |

Four behaviours of the server that the model has, and no property excludes:

- A publisher that changes between SetupSubscriber and AddSubscriber leaves the
  subscriber on the former one's track.
- A publisher that leaves between a stream request's lookup and its Join leaves an
  encoder without a source until that client hangs up.
- A second `connect_subscriber` that names another channel ends the session, but
  Close looks in the channel named last (`http.go:231`, `conn.go:142`): the
  registration stays for good. The first departure of a publisher from that channel
  closes the QuitChan it left behind, and every later one panics on it, as in
  `double_dismissal`. RegisteredIsServed says which registrations can be left.
- A message that is not text or not JSON makes the reader return (`http.go:88`), and
  the session ends without a word to a client that is still there: NoSilentHangup
  is about clients whose reader has not stopped.

Of the pages: a recorder that is replaced, on a page that reconnects, goes on
recording, and no button shows or stops it (`publisher.js:404`, `publisher.js:549`),
the case that RecordingIsShown excepts; a mute does not survive a reload after two
losses of the websocket, or when it was clicked before the microphone was granted;
see the hazards in `PROJECT.json`.

## What is not modelled

- pion, ffmpeg and the Ogg writer: what they do to the modelled state is a
  nondeterministic step (a call that fails, a track that arrives, a process that
  exits). Whether the unsynchronised write and close of one Ogg writer is safe
  inside that library is not decided here.
- A ping that succeeds, which changes nothing; one that fails is a failed write.
- The shutdown on a signal, which ends the process; flags, logging, headers.
- Of the publisher's page: the chunks of a take and the file they go into, volume,
  the settings of the silence check. On long silence a new take starts before the
  data of the old one arrives, and its file holds both.
- Of the subscriber's page: the wake lock (each request and release is one call to
  the browser, and nothing else reads it), the keepalive tone, the buffer margin
  and live edge of Stable mode, media-session metadata, themes and sizes.
- Audio processing, the level meter, translation, the scripts: no protocol state.

## Plan

Done, in this order: StableRelay, Registry, Session, StreamHandler and Server with
their safety and its proofs; StableStream with its liveness, its refinement and its
proofs; Page and PublisherPage with theirs; SubscriberPage, WsConn and
PublisherAudio with theirs.

Next:

1. **Takes** of the recorder: chunks, their file, and takes that are lost when a
   recorder is replaced or the page reloads.
2. WsConn shown to implement one connection of Session. WsConn has neither the
   registry nor other connections, so it has to be composed with Registry
   first; until then SessionGrain states what Session relies on.
3. **Directory**, an abstract specification of what clients see of the server (a
   channel is on air or not, subscribers hear it or are told), and Server shown to
   implement it as far as the findings let it.
