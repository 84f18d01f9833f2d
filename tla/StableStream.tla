---------------------------- MODULE StableStream ----------------------------
(***************************************************************************)
(* One channel's StableStream (stablestream.go) with the goroutines around *)
(* its mutex:                                                              *)
(*   - a request for the stream, at[h]: Join, the receive loop of          *)
(*     stableStreamHandler (stream_handler.go), Leave;                     *)
(*   - per encoder process, its pump, which reads chunks and hands them to *)
(*     every listener while it holds the mutex, and its waiter, which      *)
(*     outlives the process and cleans up;                                 *)
(*   - per publisher, the track handler that takes the Ogg writer under    *)
(*     the mutex and writes to it outside;                                 *)
(*   - RemovePublisher of registry.go, which calls StopAll.                *)
(* A listener's channel is its queue; only pumps send and only its request *)
(* receives.                                                               *)
(***************************************************************************)
EXTENDS Naturals, Sequences

CONSTANTS
    Listener,   \* requests, each with a fresh listenerID
    Source,     \* publishers whose packets are fed to the stream
    Process,    \* ffmpeg processes; one run of start() takes a fresh one
    Cap,        \* capacity of a listener's channel (8 in the code)
    MaxChunk,   \* bound: chunks read from one process
    None

ASSUME CapPositive == Cap \in Nat \ {0}
ASSUME NoneApart == None \notin Process \cup Listener
ASSUME MaxChunkNat == MaxChunk \in Nat

VARIABLES
    listeners,  \* s.listeners
    queue,      \* the chunks in a listener's channel
    cmd,        \* s.cmd; s.ogg, s.stdin and s.running are set and reset with it
    fed,        \* the sources whose packets reached the process cmd
    mu,         \* the process whose pump holds s.mu across its loop, or None;
                \* every other critical section is a single step
    proc,       \* life of a process
    pump,       \* place of its pump
    waiter,     \* place of its waiter
    read,       \* chunks its pump has read
    todo,       \* listeners the pump that holds mu has still to serve
    stage,      \* where in the three selects that pump is
    target,     \* whom it serves while past the first select
    at,         \* place of a request's goroutine
    got,        \* the last chunk the request took from its channel
    ogg         \* the writer a source's track handler took, or None

pumpVars == <<mu, pump, read, todo, stage, target>>
procVars == <<proc, waiter>>
requestVars == <<at, got>>
stream == <<listeners, cmd, fed>>
vars == <<stream, queue, ogg, pumpVars, procVars, requestVars>>

Chunk == [from : Process, n : Nat]

TypeOK ==
    /\ listeners \in SUBSET Listener
    /\ queue \in [Listener -> Seq(Chunk)]
    /\ cmd \in Process \cup {None}
    /\ fed \in SUBSET Source
    /\ mu \in Process \cup {None}
    /\ proc \in [Process -> {"unborn", "alive", "killed", "exited"}]
    /\ pump \in [Process -> {"none", "reading", "holding", "fanout", "ended"}]
    /\ waiter \in [Process -> {"none", "waiting", "stopping", "done"}]
    /\ read \in [Process -> Nat]
    /\ todo \in SUBSET Listener
    /\ stage \in {"try", "drop", "resend"}
    /\ target \in Listener \cup {None}
    /\ at \in [Listener -> {"idle", "select", "writing", "leaving", "done"}]
    /\ got \in [Listener -> Chunk \cup {None}]
    /\ ogg \in [Source -> Process \cup {None}]

Init ==
    /\ listeners = {}
    /\ queue = [h \in Listener |-> <<>>]
    /\ cmd = None
    /\ fed = {}
    /\ mu = None
    /\ proc = [g \in Process |-> "unborn"]
    /\ pump = [g \in Process |-> "none"]
    /\ waiter = [g \in Process |-> "none"]
    /\ read = [g \in Process |-> 0]
    /\ todo = {}
    /\ stage = "try"
    /\ target = None
    /\ at = [h \in Listener |-> "idle"]
    /\ got = [h \in Listener |-> None]
    /\ ogg = [p \in Source |-> None]

Running == cmd # None
Unlocked == mu = None

\* Slip: only the pipes are closed, the process is not killed.
StopWithoutKill ==
    /\ cmd' = None
    /\ fed' = {}
    /\ UNCHANGED proc

\* stop(): closing the pipes and the kill; it does not wait for the process.
Stop ==
    /\ cmd' = None
    /\ fed' = {}
    /\ proc' = [g \in Process |-> IF g = cmd /\ proc[g] = "alive"
                                    THEN "killed" ELSE proc[g]]

\* Slip: the listeners' channels are not closed.
StopAllKeepsListeners == Stop /\ UNCHANGED listeners

StopAll == Stop /\ listeners' = {}
-----------------------------------------------------------------------------
(* Requests.                                                               *)

\* start(), up to its two go statements.
Start(g) ==
    /\ proc[g] = "unborn"
    /\ cmd' = g
    /\ fed' = {}
    /\ proc' = [proc EXCEPT ![g] = "alive"]
    /\ pump' = [pump EXCEPT ![g] = "reading"]
    /\ waiter' = [waiter EXCEPT ![g] = "waiting"]

Join(h) ==
    /\ at[h] = "idle"
    /\ Unlocked
    /\ \/ Running /\ UNCHANGED <<cmd, fed, procVars, pump>>
       \/ ~Running /\ \E g \in Process : Start(g)
    /\ listeners' = listeners \cup {h}
    /\ queue' = [queue EXCEPT ![h] = <<>>]
    /\ at' = [at EXCEPT ![h] = "select"]
    /\ UNCHANGED <<got, ogg, mu, read, todo, stage, target>>

\* start() fails: no process, or one that is killed because the Ogg headers
\* could not be written, and which nobody waits for.
JoinFails(h) ==
    /\ at[h] = "idle"
    /\ Unlocked
    /\ ~Running
    /\ \/ UNCHANGED proc
       \/ \E g \in Process : /\ proc[g] = "unborn"
                             /\ proc' = [proc EXCEPT ![g] = "killed"]
    /\ at' = [at EXCEPT ![h] = "done"]
    /\ UNCHANGED <<stream, queue, ogg, pumpVars, waiter, got>>

\* Slip: ok is not looked at, so a closed channel yields an empty chunk.
ReceiveIgnoringOk(h) ==
    /\ at[h] = "select"
    /\ \/ queue[h] # <<>> /\ got' = [got EXCEPT ![h] = Head(queue[h])]
                          /\ queue' = [queue EXCEPT ![h] = Tail(@)]
       \/ queue[h] = <<>> /\ h \notin listeners
                          /\ got' = [got EXCEPT ![h] = <<>>] /\ UNCHANGED queue
    /\ at' = [at EXCEPT ![h] = "writing"]
    /\ UNCHANGED <<stream, ogg, pumpVars, procVars>>

\* chunk, ok := <-ch with ok; the handler goes on to write the chunk.
Receive(h) ==
    /\ at[h] = "select"
    /\ queue[h] # <<>>
    /\ queue' = [queue EXCEPT ![h] = Tail(@)]
    /\ got' = [got EXCEPT ![h] = Head(queue[h])]
    /\ at' = [at EXCEPT ![h] = "writing"]
    /\ UNCHANGED <<stream, ogg, pumpVars, procVars>>

\* w.Write returns: there is no write deadline, so the client decides when.
Written(h) ==
    /\ at[h] = "writing"
    /\ at' = [at EXCEPT ![h] = "select"]
    /\ UNCHANGED <<stream, queue, ogg, pumpVars, procVars, got>>

\* w.Write fails, or the request's context is done.
ClientAborts(h) ==
    /\ at[h] \in {"select", "writing"}
    /\ at' = [at EXCEPT ![h] = "leaving"]
    /\ UNCHANGED <<stream, queue, ogg, pumpVars, procVars, got>>

\* Slip: ok is not looked at.
NeverClosed(h) == FALSE

ClosedAndDrained(h) == h \notin listeners /\ queue[h] = <<>>

\* chunk, ok := <-ch with !ok.
SeesClosed(h) ==
    /\ at[h] = "select"
    /\ ClosedAndDrained(h)
    /\ at' = [at EXCEPT ![h] = "leaving"]
    /\ UNCHANGED <<stream, queue, ogg, pumpVars, procVars, got>>

\* Slip: every listener that leaves is taken for the last one.
AlwaysLast(h) == TRUE

IsLast(h) == listeners \subseteq {h}

Leave(h) ==
    /\ at[h] = "leaving"
    /\ Unlocked
    /\ listeners' = listeners \ {h}
    /\ \/ IsLast(h) /\ Stop
       \/ ~IsLast(h) /\ UNCHANGED <<cmd, fed, proc>>
    /\ at' = [at EXCEPT ![h] = "done"]
    /\ UNCHANGED <<queue, ogg, pumpVars, waiter, got>>
-----------------------------------------------------------------------------
(* Publishers.                                                             *)

\* Slip: StopAll does not take the mutex.
PublisherStopsUnlocked ==
    /\ StopAll
    /\ UNCHANGED <<queue, ogg, pumpVars, waiter, requestVars>>

\* RemovePublisher calls StopAll.
PublisherStops ==
    /\ Unlocked
    /\ StopAll
    /\ UNCHANGED <<queue, ogg, pumpVars, waiter, requestVars>>

\* WriteRTP takes s.ogg, under the mutex, when there is one ...
TakeOgg(p) ==
    /\ ogg[p] = None
    /\ Unlocked
    /\ Running
    /\ ogg' = [ogg EXCEPT ![p] = cmd]
    /\ UNCHANGED <<stream, queue, pumpVars, procVars, requestVars>>

\* ... and writes the packet without it.  A writer that stop() closed
\* meanwhile reports an error and the packet is lost.
FeedOgg(p) ==
    /\ ogg[p] # None
    /\ ogg' = [ogg EXCEPT ![p] = None]
    /\ fed' = IF ogg[p] = cmd THEN fed \cup {p} ELSE fed
    /\ UNCHANGED <<listeners, queue, cmd, pumpVars, procVars, requestVars>>
-----------------------------------------------------------------------------
(* The process and its waiter.                                             *)

ProcExits(g) ==
    /\ proc[g] \in {"alive", "killed"}
    /\ proc' = [proc EXCEPT ![g] = "exited"]
    /\ UNCHANGED <<stream, queue, ogg, pumpVars, waiter, requestVars>>

\* Slip: the test is the wrong way round.
IsNotCurrent(g) == cmd # g

IsCurrent(g) == cmd = g

\* cmd.Wait() has returned; isCurrent is read under the mutex ...
WaiterChecks(g) ==
    /\ waiter[g] = "waiting"
    /\ proc[g] = "exited"
    /\ Unlocked
    /\ waiter' = [waiter EXCEPT ![g] = IF IsCurrent(g) THEN "stopping" ELSE "done"]
    /\ UNCHANGED <<stream, queue, ogg, pumpVars, proc, requestVars>>

\* ... and StopAll takes the mutex again.
WaiterStops(g) ==
    /\ waiter[g] = "stopping"
    /\ Unlocked
    /\ StopAll
    /\ waiter' = [waiter EXCEPT ![g] = "done"]
    /\ UNCHANGED <<queue, ogg, pumpVars, requestVars>>
-----------------------------------------------------------------------------
(* The pump of process g.                                                  *)

\* A process that was killed, or exited, may have left output in the pipe.
PumpReads(g) ==
    /\ pump[g] = "reading"
    /\ read[g] < MaxChunk
    /\ read' = [read EXCEPT ![g] = @ + 1]
    /\ pump' = [pump EXCEPT ![g] = "holding"]
    /\ UNCHANGED <<stream, queue, ogg, procVars, requestVars,
                   mu, todo, stage, target>>

PumpEnds(g) ==
    /\ pump[g] = "reading"
    /\ proc[g] = "exited"
    /\ pump' = [pump EXCEPT ![g] = "ended"]
    /\ UNCHANGED <<stream, queue, ogg, procVars, requestVars,
                   mu, read, todo, stage, target>>

PumpLocks(g) ==
    /\ pump[g] = "holding"
    /\ Unlocked
    /\ mu' = g
    /\ todo' = listeners
    /\ pump' = [pump EXCEPT ![g] = "fanout"]
    /\ UNCHANGED <<stream, queue, ogg, procVars, requestVars,
                   read, stage, target>>

\* The chunk the pump of g has in its hands.
Newest(g) == [from |-> g, n |-> read[g]]

\* Slip: the send has no default, so it waits for room.
WaitForRoom(h) == FALSE

\* The default of the first select.
NoRoom(h) ==
    /\ Len(queue[h]) >= Cap
    /\ stage' = "drop"
    /\ target' = h
    /\ UNCHANGED <<queue, todo>>

\* The next listener of the loop, in any order: first select.
PumpTries(g) ==
    /\ mu = g
    /\ stage = "try"
    /\ \E h \in todo :
        \/ /\ Len(queue[h]) < Cap
           /\ queue' = [queue EXCEPT ![h] = Append(@, Newest(g))]
           /\ todo' = todo \ {h}
           /\ UNCHANGED <<stage, target>>
        \/ NoRoom(h)
    /\ UNCHANGED <<stream, ogg, procVars, requestVars, mu, pump, read>>

\* Slips: the youngest chunk is dropped, or none.
DropYoungest(q) == IF q = <<>> THEN q ELSE SubSeq(q, 1, Len(q) - 1)
DropNone(q) == q

DropOldest(q) == IF q = <<>> THEN q ELSE Tail(q)

\* Second select: the oldest chunk, unless the request emptied the channel.
PumpDrops(g) ==
    /\ mu = g
    /\ stage = "drop"
    /\ queue' = [queue EXCEPT ![target] = DropOldest(@)]
    /\ stage' = "resend"
    /\ UNCHANGED <<stream, ogg, procVars, requestVars,
                   mu, pump, read, todo, target>>

\* Third select: its default loses the new chunk.
PumpResends(g) ==
    /\ mu = g
    /\ stage = "resend"
    /\ queue' = IF Len(queue[target]) < Cap
                  THEN [queue EXCEPT ![target] = Append(@, Newest(g))] ELSE queue
    /\ stage' = "try"
    /\ todo' = todo \ {target}
    /\ target' = None
    /\ UNCHANGED <<stream, ogg, procVars, requestVars, mu, pump, read>>

PumpUnlocks(g) ==
    /\ mu = g
    /\ stage = "try"
    /\ todo = {}
    /\ mu' = None
    /\ pump' = [pump EXCEPT ![g] = "reading"]
    /\ UNCHANGED <<stream, queue, ogg, procVars, requestVars,
                   read, todo, stage, target>>
-----------------------------------------------------------------------------
Request(h) == SeesClosed(h) \/ Receive(h) \/ Leave(h)

FanOut(g) == PumpTries(g) \/ PumpDrops(g) \/ PumpResends(g) \/ PumpUnlocks(g)

Pump(g) == PumpEnds(g) \/ PumpLocks(g) \/ FanOut(g)

Waiter(g) == WaiterChecks(g) \/ WaiterStops(g)

Next ==
    \/ \E h \in Listener : \/ Join(h) \/ JoinFails(h)
                           \/ Written(h) \/ ClientAborts(h)
                           \/ Request(h)
    \/ PublisherStops
    \/ \E p \in Source : TakeOgg(p) \/ FeedOgg(p)
    \/ \E g \in Process : ProcExits(g) \/ PumpReads(g) \/ Pump(g) \/ Waiter(g)

Spec == Init /\ [][Next]_vars

\* Goroutines run and processes that were killed exit.  sync.Mutex does not
\* starve a waiter, hence SF where the mutex is taken.  Clients owe nothing:
\* neither a read (Written) nor a hangup.
Fairness ==
    /\ \A h \in Listener : WF_vars(SeesClosed(h) \/ Receive(h)) /\ SF_vars(Leave(h))
    /\ \A g \in Process :
        /\ WF_vars(proc[g] = "killed" /\ ProcExits(g))
        /\ WF_vars(PumpEnds(g) \/ FanOut(g))
        /\ SF_vars(PumpLocks(g))
        /\ SF_vars(Waiter(g))

FairSpec == Spec /\ Fairness
-----------------------------------------------------------------------------
(* Safety.                                                                 *)

\* "Started lazily on the first listener, stopped once the last one leaves, so
\* it costs nothing when unused" (stablestream.go:39), through every race of
\* Join, Leave, StopAll and an encoder that dies.
RunsForListeners == Running <=> listeners # {}

\* A pump never sends on a channel that Leave or StopAll closed, which would
\* panic: whoever it still has to serve is registered.
NoSendOnClosed ==
    /\ mu # None => todo \subseteq listeners
    /\ stage # "try" => target \in todo

\* The default of the third select in pump is never taken: "always favoring
\* the freshest audio" (stablestream.go:190), the newest chunk is queued.
NewestNeverLost == stage = "resend" => Len(queue[target]) < Cap

\* The chunks of process g in a channel q: each one once and oldest first ...
InOrder(q, g) ==
    \A i, j \in 1 .. Len(q) :
        i < j /\ q[i].from = g /\ q[j].from = g => q[i].n < q[j].n

Queued(q, g, n) == \E i \in 1 .. Len(q) : q[i].from = g /\ q[i].n = n

\* ... none missing between two of them ...
NoGap(q, g) ==
    \A i, j \in 1 .. Len(q) :
        q[i].from = g /\ q[j].from = g =>
            \A n \in q[i].n .. q[j].n : Queued(q, g, n)

\* ... and none beyond the m-th, which is the last if there is any.
EndsAt(q, g, m) ==
    \A i \in 1 .. Len(q) :
        q[i].from = g => q[i].n <= m /\ Queued(q, g, m)

\* The chunks of g that its pump has handed to h.
HandedTo(h, g) ==
    IF pump[g] = "holding" \/ (mu = g /\ h \in todo) THEN read[g] - 1 ELSE read[g]

\* What a listener has in its channel from one process is a run of
\* consecutive chunks, later than the one it took last, and it ends with the
\* newest chunk the pump has handed to it: a slow listener loses audio at the
\* old end only, and never hears a chunk twice or out of order.
NoHoleInQueue ==
    \A h \in Listener, g \in Process :
        /\ InOrder(queue[h], g)
        /\ NoGap(queue[h], g)
        /\ h \in listeners => EndsAt(queue[h], g, HandedTo(h, g))
        /\ got[h] # None /\ got[h].from = g =>
             \A i \in 1 .. Len(queue[h]) :
                 queue[h][i].from = g => got[h].n < queue[h][i].n

\* The detailed stream implements the promise the rest of the server relies on.
Relay == INSTANCE StableRelay WITH
    Channel <- {"it"},
    PubConn <- Source,
    Streamer <- Listener,
    listeners <- [ch \in {"it"} |-> listeners],
    encoded <- [ch \in {"it"} |-> fed]

RelaySpec == Relay!RelaySpec

\* "A newer generation (start() called again since) already replaced this one
\* - nothing to clean up here" (stablestream.go:171): the waiter of one process
\* never stops another.
WaiterSparesNewer ==
    [][\A g \in Process :
        waiter[g] = "stopping" /\ waiter'[g] = "done" => cmd \in {g, None}]_vars
-----------------------------------------------------------------------------
(* Liveness, under Fairness.                                               *)

\* A pump lets go of the mutex whatever the listeners do: a listener that
\* stopped reading holds up neither the others nor the registry.
PumpReleasesLock == \A g \in Process : mu = g ~> mu # g

\* An encoder that dies is noticed: the stream does not stay "running" with
\* nothing behind it, "tear down cleanly and disconnect listeners".
DeadEncoderIsCleared ==
    \A g \in Process : cmd = g /\ proc[g] = "exited" ~> cmd # g

\* Everything start() set going comes to an end once the process is stopped.
StoppedProcessEnds ==
    \A g \in Process :
        pump[g] # "none" /\ cmd # g ~>
            proc[g] = "exited" /\ pump[g] = "ended" /\ waiter[g] = "done"

\* A request whose channel was closed ends, unless its client stops reading
\* for good while it neither hangs up.
ClosedRequestEnds ==
    \A h \in Listener :
        []<>(at[h] # "writing") =>
            (at[h] # "idle" /\ h \notin listeners ~> at[h] = "done")
=============================================================================
