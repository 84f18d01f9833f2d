------------------------- MODULE StableStreamProofs -------------------------
(***************************************************************************)
(* StableStream for any number of requests, sources and processes, any     *)
(* channel capacity and any amount of audio: its safety, the lives of its  *)
(* processes and their goroutines, and that it implements StableRelay.     *)
(***************************************************************************)
EXTENDS StableStream, SequenceTheorems, TLAPS

\* The mutex discipline of pump: only a pump that holds mu is past its first
\* select or has listeners left to serve, and those are registered; nobody
\* exceeds the capacity, and after the second select there is room.
FanOutInv ==
    /\ mu = None => todo = {} /\ stage = "try"
    /\ todo \subseteq listeners
    /\ stage # "try" => target \in todo
    /\ \A h \in Listener : Len(queue[h]) <= Cap
    /\ stage = "resend" => Len(queue[target]) < Cap

\* The encoder runs exactly for its listeners, and what was fed to one that was
\* stopped is forgotten.
EncoderInv == RunsForListeners /\ (~Running => fed = {})

IInv == TypeOK /\ EncoderInv /\ FanOutInv

\* Every step of every goroutine keeps each variable in its range.
LEMMA TypeStep == IInv /\ [Next]_vars => TypeOK'
<1> SUFFICES ASSUME IInv, [Next]_vars PROVE TypeOK'
  OBVIOUS
<1> USE NoneApart DEF IInv, TypeOK, stream, pumpVars, procVars, requestVars
<1>1. CASE UNCHANGED vars
  BY <1>1 DEF vars
<1>2. ASSUME NEW h \in Listener, Join(h) PROVE TypeOK'
  <2>1. <<>> \in Seq(Chunk)
    OBVIOUS
  <2>2. CASE Running /\ UNCHANGED <<cmd, fed, procVars, pump>>
    BY <1>2, <2>1, <2>2 DEF Join
  <2>3. ASSUME NEW g \in Process, Start(g) PROVE TypeOK'
    BY <1>2, <2>1, <2>3 DEF Join, Start
  <2> QED
    BY <1>2, <2>2, <2>3 DEF Join
<1>3. ASSUME NEW h \in Listener, JoinFails(h) PROVE TypeOK'
  BY <1>3 DEF JoinFails
<1>4. ASSUME NEW h \in Listener, Written(h) \/ ClientAborts(h) \/ SeesClosed(h) PROVE TypeOK'
  <2>1. CASE Written(h)
    BY <2>1 DEF Written
  <2>2. CASE ClientAborts(h)
    BY <2>2 DEF ClientAborts
  <2>3. CASE SeesClosed(h)
    BY <2>3 DEF SeesClosed
  <2> QED
    BY <1>4, <2>1, <2>2, <2>3
<1>5. ASSUME NEW h \in Listener, Receive(h) PROVE TypeOK'
  <2>1. Head(queue[h]) \in Chunk /\ Tail(queue[h]) \in Seq(Chunk)
    BY <1>5, HeadTailProperties DEF Receive
  <2> QED
    BY <1>5, <2>1 DEF Receive
<1>6. ASSUME NEW h \in Listener, Leave(h) PROVE TypeOK'
  BY <1>6 DEF Leave, IsLast, Stop
<1>7. CASE PublisherStops
  BY <1>7 DEF PublisherStops, StopAll, Stop
<1>8. ASSUME NEW p \in Source, TakeOgg(p) \/ FeedOgg(p) PROVE TypeOK'
  BY <1>8 DEF TakeOgg, FeedOgg
<1>9. ASSUME NEW g \in Process, ProcExits(g) \/ PumpReads(g) PROVE TypeOK'
  <2>1. CASE ProcExits(g)
    BY <2>1 DEF ProcExits
  <2>2. CASE PumpReads(g)
    <3>1. read[g] + 1 \in Nat
      OBVIOUS
    <3> QED
      BY <2>2, <3>1 DEF PumpReads
  <2> QED
    BY <1>9, <2>1, <2>2
<1>10. ASSUME NEW g \in Process, Waiter(g) PROVE TypeOK'
  <2>1. CASE WaiterChecks(g)
    BY <2>1 DEF WaiterChecks
  <2>2. CASE WaiterStops(g)
    BY <2>2 DEF WaiterStops, StopAll, Stop
  <2> QED
    BY <1>10, <2>1, <2>2 DEF Waiter
<1>11. ASSUME NEW g \in Process, PumpEnds(g) \/ PumpLocks(g) \/ PumpUnlocks(g) PROVE TypeOK'
  BY <1>11 DEF PumpEnds, PumpLocks, PumpUnlocks
<1>12. ASSUME NEW g \in Process, PumpTries(g) \/ PumpResends(g) PROVE TypeOK'
  <2>1. Newest(g) \in Chunk
    BY DEF Newest, Chunk
  <2>2. \A h \in Listener : Append(queue[h], Newest(g)) \in Seq(Chunk)
    BY <2>1, AppendProperties
  <2>3. CASE PumpTries(g)
    <3>1. PICK h \in todo : \/ /\ queue' = [queue EXCEPT ![h] = Append(@, Newest(g))]
                              /\ todo' = todo \ {h}
                              /\ UNCHANGED <<stage, target>>
                           \/ /\ stage' = "drop"
                              /\ target' = h
                              /\ UNCHANGED <<queue, todo>>
      BY <2>3 DEF PumpTries, NoRoom
    <3>2. h \in Listener /\ Append(queue[h], Newest(g)) \in Seq(Chunk)
      BY <2>2
    <3>3. queue' \in [Listener -> Seq(Chunk)]
      <4>1. CASE queue' = [queue EXCEPT ![h] = Append(@, Newest(g))]
        BY <3>2, <4>1
      <4>2. CASE UNCHANGED queue
        BY <4>2
      <4> QED
        BY <3>1, <4>1, <4>2
    <3>4. todo' \in SUBSET Listener /\ stage' \in {"try", "drop", "resend"}
      BY <3>1
    <3>5. target' \in Listener \cup {None}
      BY <3>1, <3>2
    <3> QED
      BY <2>3, <3>3, <3>4, <3>5 DEF PumpTries, NoRoom
  <2>4. CASE PumpResends(g)
    BY <2>2, <2>4 DEF PumpResends
  <2> QED
    BY <1>12, <2>3, <2>4
<1>13. ASSUME NEW g \in Process, PumpDrops(g) PROVE TypeOK'
  <2>1. \A h \in Listener : queue[h] # <<>> => Tail(queue[h]) \in Seq(Chunk)
    BY HeadTailProperties
  <2> QED
    BY <1>13, <2>1 DEF PumpDrops, DropOldest
<1> QED
  BY <1>1, <1>2, <1>3, <1>4, <1>5, <1>6, <1>7, <1>8, <1>9, <1>10, <1>11, <1>12, <1>13
     DEF Next, Request, Pump, FanOut
-----------------------------------------------------------------------------
\* Who changes the listeners holds no lock across steps and keeps the encoder in
\* step with them; nobody else touches either.
LEMMA RunsStep == IInv /\ [Next]_vars => EncoderInv'
<1> SUFFICES ASSUME IInv, [Next]_vars PROVE EncoderInv'
  OBVIOUS
<1> USE NoneApart
    DEF IInv, TypeOK, EncoderInv, RunsForListeners, Running,
        stream, pumpVars, procVars, requestVars
<1>1. CASE UNCHANGED vars
  BY <1>1 DEF vars
<1>2. ASSUME NEW h \in Listener, Join(h) PROVE EncoderInv'
  BY <1>2 DEF Join, Start
<1>3. ASSUME NEW h \in Listener,
             JoinFails(h) \/ Written(h) \/ ClientAborts(h) \/ SeesClosed(h) \/ Receive(h)
      PROVE  EncoderInv'
  BY <1>3 DEF JoinFails, Written, ClientAborts, SeesClosed, Receive
<1>4. ASSUME NEW h \in Listener, Leave(h) PROVE EncoderInv'
  BY <1>4 DEF Leave, IsLast, Stop
<1>5. CASE PublisherStops
  BY <1>5 DEF PublisherStops, StopAll, Stop
<1>6. ASSUME NEW p \in Source, TakeOgg(p) \/ FeedOgg(p) PROVE EncoderInv'
  BY <1>6 DEF TakeOgg, FeedOgg
<1>7. ASSUME NEW g \in Process, ProcExits(g) \/ PumpReads(g) \/ Pump(g) PROVE EncoderInv'
  BY <1>7 DEF ProcExits, PumpReads, Pump, FanOut, PumpEnds, PumpLocks, PumpTries, NoRoom,
              PumpDrops, PumpResends, PumpUnlocks
<1>8. ASSUME NEW g \in Process, Waiter(g) PROVE EncoderInv'
  BY <1>8 DEF Waiter, WaiterChecks, WaiterStops, StopAll, Stop
<1> QED
  BY <1>1, <1>2, <1>3, <1>4, <1>5, <1>6, <1>7, <1>8 DEF Next, Request

\* A pump that holds mu is alone with the listeners, except for their receives,
\* and those only make room.
LEMMA FanOutStep == IInv /\ [Next]_vars => FanOutInv'
<1> SUFFICES ASSUME IInv, [Next]_vars PROVE FanOutInv'
  OBVIOUS
<1> USE NoneApart, CapPositive
    DEF IInv, TypeOK, stream, pumpVars, procVars, requestVars, FanOutInv, Unlocked
<1>1. CASE UNCHANGED vars
  BY <1>1 DEF vars
<1>2. ASSUME NEW h \in Listener, Join(h) PROVE FanOutInv'
  <2>1. Len(<<>>) = 0
    OBVIOUS
  <2> QED
    BY <1>2, <2>1 DEF Join
<1>3. ASSUME NEW h \in Listener, JoinFails(h) \/ Written(h) \/ ClientAborts(h) \/ SeesClosed(h)
      PROVE  FanOutInv'
  BY <1>3 DEF JoinFails, Written, ClientAborts, SeesClosed
<1>4. ASSUME NEW h \in Listener, Receive(h) PROVE FanOutInv'
  <2>1. Len(Tail(queue[h])) = Len(queue[h]) - 1
    BY <1>4, HeadTailProperties DEF Receive
  <2>2. Len(queue[h]) \in Nat
    BY LenProperties
  <2> QED
    BY <1>4, <2>1, <2>2 DEF Receive
<1>5. ASSUME NEW h \in Listener, Leave(h) PROVE FanOutInv'
  BY <1>5 DEF Leave
<1>6. CASE PublisherStops
  BY <1>6 DEF PublisherStops, StopAll
<1>7. ASSUME NEW p \in Source, TakeOgg(p) \/ FeedOgg(p) PROVE FanOutInv'
  BY <1>7 DEF TakeOgg, FeedOgg
<1>8. ASSUME NEW g \in Process, ProcExits(g) \/ PumpReads(g) \/ PumpEnds(g) PROVE FanOutInv'
  BY <1>8 DEF ProcExits, PumpReads, PumpEnds
<1>9. ASSUME NEW g \in Process, Waiter(g) PROVE FanOutInv'
  BY <1>9 DEF Waiter, WaiterChecks, WaiterStops, StopAll
<1>10. ASSUME NEW g \in Process, PumpLocks(g) \/ PumpUnlocks(g) PROVE FanOutInv'
  BY <1>10 DEF PumpLocks, PumpUnlocks
<1>11. ASSUME NEW g \in Process, PumpTries(g) PROVE FanOutInv'
  <2>1. PICK h \in todo : \/ /\ Len(queue[h]) < Cap
                            /\ queue' = [queue EXCEPT ![h] = Append(@, Newest(g))]
                            /\ todo' = todo \ {h}
                            /\ UNCHANGED <<stage, target>>
                         \/ /\ stage' = "drop"
                            /\ target' = h
                            /\ UNCHANGED <<queue, todo>>
    BY <1>11 DEF PumpTries, NoRoom
  <2>2. mu' = mu /\ mu # None /\ stage = "try" /\ UNCHANGED listeners
    BY <1>11 DEF PumpTries, NoRoom
  <2>3. CASE UNCHANGED queue
    BY <2>1, <2>2, <2>3
  <2>4. CASE /\ Len(queue[h]) < Cap
             /\ queue' = [queue EXCEPT ![h] = Append(@, Newest(g))]
             /\ todo' = todo \ {h}
             /\ UNCHANGED <<stage, target>>
    <3>1. Newest(g) \in Chunk
      BY DEF Newest, Chunk
    <3>2. Len(queue[h]) \in Nat /\ Len(Append(queue[h], Newest(g))) = Len(queue[h]) + 1
      BY <3>1, LenProperties, AppendProperties
    <3> QED
      BY <2>1, <2>2, <2>4, <3>2
  <2> QED
    BY <2>1, <2>3, <2>4
<1>12. ASSUME NEW g \in Process, PumpDrops(g) PROVE FanOutInv'
  BY <1>12, LenProperties, HeadTailProperties DEF PumpDrops, DropOldest
<1>13. ASSUME NEW g \in Process, PumpResends(g) PROVE FanOutInv'
  BY <1>13, LenProperties, AppendProperties DEF PumpResends
<1> QED
  BY <1>1, <1>2, <1>3, <1>4, <1>5, <1>6, <1>7, <1>8, <1>9, <1>10, <1>11, <1>12, <1>13
     DEF Next, Request, Pump, FanOut
-----------------------------------------------------------------------------
LEMMA InductiveInvariant == Spec => []IInv
<1>1. Init => IInv
  BY CapPositive
     DEF Init, IInv, TypeOK, EncoderInv, RunsForListeners, Running, FanOutInv
<1>2. IInv /\ [Next]_vars => IInv'
  BY TypeStep, RunsStep, FanOutStep DEF IInv
<1> QED
  BY <1>1, <1>2, PTL DEF Spec

\* Type correctness.
THEOREM TypeCorrect == Spec => []TypeOK
<1>1. IInv => TypeOK
  BY DEF IInv
<1> QED
  BY <1>1, InductiveInvariant, PTL

\* An encoder runs exactly while somebody listens.
THEOREM CostsNothingUnused == Spec => []RunsForListeners
<1>1. IInv => RunsForListeners
  BY DEF IInv, EncoderInv
<1> QED
  BY <1>1, InductiveInvariant, PTL

\* No pump sends on a closed channel.
THEOREM SendsOnOpen == Spec => []NoSendOnClosed
<1>1. IInv => NoSendOnClosed
  BY DEF IInv, FanOutInv, NoSendOnClosed
<1> QED
  BY <1>1, InductiveInvariant, PTL

\* The newest chunk always finds room, for any capacity of at least one.
THEOREM FavorsFreshest == Spec => []NewestNeverLost
<1>1. IInv => NewestNeverLost
  BY DEF IInv, FanOutInv, NewestNeverLost
<1> QED
  BY <1>1, InductiveInvariant, PTL
-----------------------------------------------------------------------------
\* Every step of the detailed stream is one method of the relay, or a stutter.
LEMMA RelayStep == IInv /\ [Next]_vars => [Relay!RelayNext]_(Relay!relayVars)
<1> SUFFICES ASSUME IInv, [Next]_vars PROVE [Relay!RelayNext]_(Relay!relayVars)
  OBVIOUS
<1> USE NoneApart
    DEF IInv, TypeOK, EncoderInv, RunsForListeners, Running,
        stream, pumpVars, procVars, requestVars
<1>0. UNCHANGED <<listeners, fed>> => UNCHANGED Relay!relayVars
  BY DEF Relay!relayVars
<1>1. CASE UNCHANGED vars
  BY <1>0, <1>1 DEF vars
<1>2. ASSUME NEW h \in Listener, Join(h) PROVE Relay!RelayNext
  <2>1. fed' = fed
    BY <1>2 DEF Join, Start
  <2>2. listeners' = listeners \cup {h}
    BY <1>2 DEF Join
  <2>3. Relay!Join("it", h)
    BY <2>1, <2>2 DEF Relay!Join
  <2> QED
    BY <2>3 DEF Relay!RelayNext
<1>3. ASSUME NEW h \in Listener,
             JoinFails(h) \/ Written(h) \/ ClientAborts(h) \/ SeesClosed(h) \/ Receive(h)
      PROVE  UNCHANGED <<listeners, fed>>
  BY <1>3 DEF JoinFails, Written, ClientAborts, SeesClosed, Receive
<1>4. ASSUME NEW h \in Listener, Leave(h) PROVE Relay!RelayNext
  <2>1. listeners' = listeners \ {h}
    BY <1>4 DEF Leave
  <2>2. fed' = IF listeners \subseteq {h} THEN {} ELSE fed
    BY <1>4 DEF Leave, IsLast, Stop
  <2>3. Relay!Leave("it", h)
    BY <2>1, <2>2 DEF Relay!Leave, Relay!Drop
  <2> QED
    BY <2>3 DEF Relay!RelayNext
<1>5. ASSUME StopAll PROVE Relay!RelayNext
  <2>1. listeners' = {} /\ fed' = {}
    BY <1>5 DEF StopAll, Stop
  <2> DEFINE relay == [ch \in {"it"} |-> listeners]
             source == [ch \in {"it"} |-> fed]
  <2>2. relay' = [relay EXCEPT !["it"] = @ \ relay["it"]]
    BY <2>1
  <2>3. source' = [source EXCEPT !["it"] = {}]
    BY <2>1
  <2>4. Relay!StopAll("it")
    BY <2>2, <2>3 DEF Relay!StopAll, Relay!Drop
  <2> QED
    BY <2>4 DEF Relay!RelayNext
<1>6. ASSUME NEW p \in Source, TakeOgg(p) PROVE UNCHANGED <<listeners, fed>>
  BY <1>6 DEF TakeOgg
<1>7. ASSUME NEW p \in Source, FeedOgg(p) PROVE [Relay!RelayNext]_(Relay!relayVars)
  <2>1. CASE ogg[p] # cmd
    BY <1>0, <1>7, <2>1 DEF FeedOgg
  <2>2. CASE ogg[p] = cmd
    <3>1. listeners # {} /\ fed' = fed \cup {p} /\ UNCHANGED listeners
      BY <1>7, <2>2 DEF FeedOgg
    <3>2. Relay!WriteRTP("it", p)
      BY <3>1 DEF Relay!WriteRTP, Relay!Running
    <3> QED
      BY <3>2 DEF Relay!RelayNext
  <2> QED
    BY <2>1, <2>2
<1>8. ASSUME NEW g \in Process, ProcExits(g) \/ PumpReads(g) \/ Pump(g) \/ WaiterChecks(g)
      PROVE  UNCHANGED <<listeners, fed>>
  BY <1>8 DEF ProcExits, PumpReads, Pump, FanOut, PumpEnds, PumpLocks, PumpTries, NoRoom,
              PumpDrops, PumpResends, PumpUnlocks, WaiterChecks
<1>9. (\E g \in Process : WaiterStops(g)) \/ PublisherStops => StopAll
  BY DEF WaiterStops, PublisherStops
<1> QED
  BY <1>0, <1>1, <1>2, <1>3, <1>4, <1>5, <1>6, <1>7, <1>8, <1>9 DEF Next, Request, Waiter

\* The stream keeps the promise of StableRelay, whatever its goroutines do.
THEOREM ImplementsRelay == Spec => RelaySpec
<1>1. Init => Relay!RelayInit
  BY DEF Init, Relay!RelayInit
<1> QED
  BY <1>1, RelayStep, InductiveInvariant, PTL DEF Spec, RelaySpec, Relay!RelaySpec
-----------------------------------------------------------------------------
\* stop() kills the process it forgets, and start() runs only where none is
\* remembered: at most one process is neither dead nor killed.
OnlyCurrentAlive == \A g \in Process : proc[g] = "alive" => cmd = g

\* The running process has a pump, and a waiter that has yet to call StopAll.
CurrentWatched ==
    \A g \in Process :
        cmd = g => /\ proc[g] \in {"alive", "exited"}
                   /\ waiter[g] \in {"waiting", "stopping"}
                   /\ pump[g] # "none"

\* The two goroutines of a process start with it and come to their ends after it.
OutliveProcess ==
    \A g \in Process :
        /\ waiter[g] # "none" <=> pump[g] # "none"
        /\ proc[g] = "unborn" => waiter[g] = "none"
        /\ waiter[g] \in {"stopping", "done"} \/ pump[g] = "ended" => proc[g] = "exited"

\* The pump that holds mu is in its loop, and only that one is.
LoopInv == \A g \in Process : mu = g <=> pump[g] = "fanout"

ProcInv == OnlyCurrentAlive /\ CurrentWatched /\ OutliveProcess /\ LoopInv

\* A process is born with both its goroutines, whoever forgets it kills it, and
\* a waiter that finds its process current is done only with StopAll.
LEMMA ProcStep == IInv /\ ProcInv /\ [Next]_vars => ProcInv'
<1> SUFFICES ASSUME IInv, ProcInv, [Next]_vars PROVE ProcInv'
  OBVIOUS
<1> USE NoneApart
    DEF IInv, TypeOK, stream, pumpVars, procVars, requestVars,
        ProcInv, OnlyCurrentAlive, CurrentWatched, OutliveProcess, LoopInv,
        Unlocked, Running
<1>1. CASE UNCHANGED vars
  BY <1>1 DEF vars
<1>2. ASSUME NEW h \in Listener, Join(h) PROVE ProcInv'
  <2>1. CASE UNCHANGED <<cmd, fed, procVars, pump>>
    BY <1>2, <2>1 DEF Join
  <2>2. ASSUME NEW g \in Process, ~Running, Start(g) PROVE ProcInv'
    <3>1. waiter[g] = "none" /\ pump[g] = "none"
      BY <2>2 DEF Start
    <3>2. /\ cmd = None /\ cmd' = g /\ UNCHANGED mu
          /\ proc' = [proc EXCEPT ![g] = "alive"]
          /\ pump' = [pump EXCEPT ![g] = "reading"]
          /\ waiter' = [waiter EXCEPT ![g] = "waiting"]
      BY <1>2, <2>2 DEF Join, Start
    <3> QED
      BY <3>1, <3>2
  <2> QED
    BY <1>2, <2>1, <2>2 DEF Join
<1>3. ASSUME NEW h \in Listener, JoinFails(h) PROVE ProcInv'
  BY <1>3 DEF JoinFails
<1>4. ASSUME NEW h \in Listener, Written(h) \/ ClientAborts(h) \/ SeesClosed(h) \/ Receive(h)
      PROVE  ProcInv'
  BY <1>4 DEF Written, ClientAborts, SeesClosed, Receive
<1>5. ASSUME NEW h \in Listener, Leave(h) PROVE ProcInv'
  BY <1>5 DEF Leave, Stop
<1>6. CASE PublisherStops
  BY <1>6 DEF PublisherStops, StopAll, Stop
<1>7. ASSUME NEW p \in Source, TakeOgg(p) \/ FeedOgg(p) PROVE ProcInv'
  BY <1>7 DEF TakeOgg, FeedOgg
<1>8. ASSUME NEW g \in Process, ProcExits(g) PROVE ProcInv'
  BY <1>8 DEF ProcExits
<1>9. ASSUME NEW g \in Process, WaiterChecks(g) PROVE ProcInv'
  BY <1>9 DEF WaiterChecks, IsCurrent
<1>10. ASSUME NEW g \in Process, WaiterStops(g) PROVE ProcInv'
  BY <1>10 DEF WaiterStops, StopAll, Stop
<1>11. ASSUME NEW g \in Process, PumpReads(g) \/ PumpEnds(g) \/ PumpLocks(g) \/ PumpUnlocks(g)
       PROVE  ProcInv'
  <2>1. CASE PumpReads(g)
    BY <2>1 DEF PumpReads
  <2>2. CASE PumpEnds(g)
    BY <2>2 DEF PumpEnds
  <2>3. CASE PumpLocks(g)
    BY <2>3 DEF PumpLocks
  <2>4. CASE PumpUnlocks(g)
    BY <2>4 DEF PumpUnlocks
  <2> QED
    BY <1>11, <2>1, <2>2, <2>3, <2>4
<1>12. ASSUME NEW g \in Process, PumpTries(g) \/ PumpDrops(g) \/ PumpResends(g) PROVE ProcInv'
  BY <1>12 DEF PumpTries, NoRoom, PumpDrops, PumpResends
<1> QED
  BY <1>1, <1>2, <1>3, <1>4, <1>5, <1>6, <1>7, <1>8, <1>9, <1>10, <1>11, <1>12
     DEF Next, Request, Pump, FanOut, Waiter

LEMMA ProcInvariant == Spec => []ProcInv
<1>1. Init => ProcInv
  BY NoneApart
     DEF Init, ProcInv, OnlyCurrentAlive, CurrentWatched, OutliveProcess, LoopInv
<1> QED
  BY <1>1, ProcStep, InductiveInvariant, PTL DEF Spec

\* stop() does not wait for the process, and yet no ffmpeg outlives its stream:
\* however Join, Leave, StopAll and the waiters interleave, a process that is
\* not the current one was killed or has exited, so at most one is encoding.
THEOREM AtMostOneEncoder ==
    Spec => [](\A g, k \in Process : proc[g] = "alive" /\ proc[k] = "alive" => g = k /\ cmd = g)
<1>1. ProcInv => \A g, k \in Process : proc[g] = "alive" /\ proc[k] = "alive" => g = k /\ cmd = g
  BY DEF ProcInv, OnlyCurrentAlive
<1> QED
  BY <1>1, ProcInvariant, PTL

\* The safe half of DeadEncoderIsCleared: as long as the stream is running, its
\* process has a waiter that has yet to find out, so its death cannot go
\* unnoticed, not even when the process of an earlier start() dies with it.
THEOREM EncoderIsWatched == Spec => []CurrentWatched
BY ProcInvariant, PTL DEF ProcInv

\* The safe half of StoppedProcessEnds: the two goroutines start() set going
\* come to their ends only after the process did, both of them started together,
\* and a waiter about to call StopAll outlives the process it waited for.
THEOREM GoroutinesOutliveProcess == Spec => []OutliveProcess
BY ProcInvariant, PTL DEF ProcInv
=============================================================================
