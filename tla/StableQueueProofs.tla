------------------------- MODULE StableQueueProofs --------------------------
(***************************************************************************)
(* What a listener hears, for any capacity and any amount of audio: the    *)
(* chunks of one process arrive in order, and only the oldest are lost.    *)
(* NoHoleInQueue is not inductive: that a chunk appended is the next one   *)
(* takes the pump's place, and that it is later than the one the request   *)
(* took last takes a bound for that one too.                               *)
(***************************************************************************)
EXTENDS StableStreamProofs

\* The chunks of g in a channel q, whose receiver took last before.
Run(q, last, g) ==
    /\ InOrder(q, g)
    /\ NoGap(q, g)
    /\ last # None /\ last.from = g =>
         \A i \in 1 .. Len(q) : q[i].from = g => last.n < q[i].n

\* The chunks of g in a channel that ends with the m-th: each lags behind that
\* one by no more chunks than follow it.
Lag(q, g, m) ==
    \A i \in 1 .. Len(q) : q[i].from = g => m - q[i].n <= Len(q) - i

\* Nothing of g beyond the m-th chunk was queued or taken.
UpTo(q, last, g, m) ==
    /\ EndsAt(q, g, m)
    /\ Lag(q, g, m)
    /\ last # None /\ last.from = g => last.n <= m

\* A request that has not joined has taken nothing.
FreshInv == \A h \in Listener : at[h] = "idle" => got[h] = None /\ h \notin listeners

RunInv ==
    \A h \in Listener, g \in Process :
        /\ Run(queue[h], got[h], g)
        /\ h \in listeners => UpTo(queue[h], got[h], g, HandedTo(h, g))
-----------------------------------------------------------------------------
LEMMA Numbered ==
    ASSUME NEW q \in Seq(Chunk) PROVE \A i \in 1 .. Len(q) : q[i].n \in Nat
<1>1. \A i \in 1 .. Len(q) : q[i] \in Chunk
  BY ElementOfSeq
<1> QED BY <1>1 DEF Chunk

\* The channel after its oldest chunk was dropped.
LEMMA TailRun ==
    ASSUME NEW q \in Seq(Chunk), q # <<>>, NEW last, NEW g, Run(q, last, g)
    PROVE  /\ Run(Tail(q), last, g)
           /\ \A m \in Int : UpTo(q, last, g, m) => UpTo(Tail(q), last, g, m)
           /\ Run(Tail(q), Head(q), g)
           /\ \A m \in Int : UpTo(q, last, g, m) => UpTo(Tail(q), Head(q), g, m)
<1> DEFINE t == Tail(q)
<1>1. /\ t \in Seq(Chunk) /\ Len(q) \in Nat \ {0} /\ Len(t) = Len(q) - 1
      /\ \A i \in 1 .. Len(t) : i + 1 \in 1 .. Len(q) /\ t[i] = q[i + 1]
      /\ Head(q) = q[1]
  <2>1. Len(q) \in Nat \ {0}
    BY EmptySeq, LenProperties
  <2>2. t \in Seq(Chunk) /\ Len(t) = Len(q) - 1 /\ \A i \in 1 .. Len(t) : t[i] = q[i + 1]
    BY HeadTailProperties
  <2>3. Head(q) = q[1]
    OBVIOUS
  <2> HIDE DEF t
  <2> QED
    BY <2>1, <2>2, <2>3
<1>2. \A i \in 1 .. Len(q) : q[i].n \in Nat
  BY Numbered
<1> HIDE DEF t
<1>3. InOrder(t, g)
  BY <1>1 DEF Run, InOrder
<1>4. ASSUME NEW i \in 1 .. Len(t), t[i].from = g, NEW n \in Int, t[i].n <= n, Queued(q, g, n)
      PROVE  Queued(t, g, n)
  <2>1. PICK k \in 1 .. Len(q) : q[k].from = g /\ q[k].n = n
    BY <1>4 DEF Queued
  <2>2. k # 1
    BY <1>1, <1>2, <1>4, <2>1 DEF Run, InOrder
  <2>3. k - 1 \in 1 .. Len(t) /\ t[k - 1] = q[k]
    BY <1>1, <2>2
  <2> QED
    BY <2>1, <2>3 DEF Queued
<1>5. NoGap(t, g)
  <2> SUFFICES ASSUME NEW i \in 1 .. Len(t), NEW j \in 1 .. Len(t),
                      t[i].from = g, t[j].from = g, NEW n \in t[i].n .. t[j].n
               PROVE  Queued(t, g, n)
      BY DEF NoGap
  <2>1. n \in Int /\ t[i].n <= n
    BY <1>1, <1>2
  <2>2. Queued(q, g, n)
    BY <1>1 DEF Run, NoGap
  <2> QED
    BY <1>4, <2>1, <2>2
<1>6. ASSUME NEW m \in Int, EndsAt(q, g, m) PROVE EndsAt(t, g, m)
  <2> SUFFICES ASSUME NEW i \in 1 .. Len(t), t[i].from = g
               PROVE  t[i].n <= m /\ Queued(t, g, m)
      BY DEF EndsAt
  <2>1. t[i].n <= m /\ Queued(q, g, m)
    BY <1>1, <1>6 DEF EndsAt
  <2> QED
    BY <1>4, <2>1
<1>7. Run(t, last, g)
  BY <1>1, <1>3, <1>5 DEF Run
<1>8. Run(t, Head(q), g)
  BY <1>1, <1>3, <1>5 DEF Run, InOrder
<1>9. ASSUME NEW m \in Int, UpTo(q, last, g, m)
      PROVE  UpTo(t, last, g, m) /\ UpTo(t, Head(q), g, m)
  <2>1. Lag(t, g, m)
    BY <1>1, <1>2, <1>9 DEF UpTo, Lag
  <2> QED
    BY <1>1, <1>6, <1>9, <2>1 DEF UpTo, EndsAt
<1> QED
  BY <1>7, <1>8, <1>9 DEF t

\* The channel after the pump of g sent the chunk after the m-th.
LEMMA AppendOwn ==
    ASSUME NEW q \in Seq(Chunk), NEW last, NEW g, NEW m \in Int, NEW c \in Chunk,
           c.from = g, c.n = m + 1, last # None => last \in Chunk,
           Run(q, last, g), UpTo(q, last, g, m)
    PROVE  Run(Append(q, c), last, g) /\ UpTo(Append(q, c), last, g, m + 1)
<1> DEFINE a == Append(q, c)
<1>1. /\ a \in Seq(Chunk) /\ Len(q) \in Nat /\ Len(a) = Len(q) + 1
      /\ \A i \in 1 .. Len(q) : a[i] = q[i]
      /\ a[Len(a)] = c
  <2>1. Len(q) \in Nat
    BY LenProperties
  <2>2. a \in Seq(Chunk) /\ Len(a) = Len(q) + 1 /\ a[Len(q) + 1] = c
    BY AppendProperties
  <2>3. \A i \in 1 .. Len(q) : a[i] = q[i]
    BY AppendProperties
  <2> HIDE DEF a
  <2> QED
    BY <2>1, <2>2, <2>3
<1>2. \A i \in 1 .. Len(q) : q[i].n \in Nat
  BY Numbered
<1>3. \A i \in 1 .. Len(q) : q[i].from = g => q[i].n <= m
  BY DEF UpTo, EndsAt
<1> HIDE DEF a
<1>4. \A k \in 1 .. Len(a) : k # Len(a) => k \in 1 .. Len(q) /\ a[k] = q[k]
  BY <1>1
<1>5. \A k \in 1 .. Len(a) : a[k].n \in Nat
  BY <1>1, <1>2, <1>4 DEF Chunk
<1>6. InOrder(a, g)
  <2> SUFFICES ASSUME NEW i \in 1 .. Len(a), NEW j \in 1 .. Len(a), i < j,
                      a[i].from = g, a[j].from = g
               PROVE  a[i].n < a[j].n
      BY DEF InOrder
  <2>1. i # Len(a)
    BY <1>1
  <2>2. CASE j = Len(a)
    BY <1>1, <1>2, <1>3, <1>4, <2>1, <2>2
  <2>3. CASE j # Len(a)
    BY <1>4, <2>1, <2>3 DEF Run, InOrder
  <2> QED
    BY <2>2, <2>3
<1>7. ASSUME NEW n, Queued(q, g, n) PROVE Queued(a, g, n)
  BY <1>1, <1>7 DEF Queued
<1>8. Queued(a, g, m + 1)
  BY <1>1 DEF Queued
<1>9. NoGap(a, g)
  <2> SUFFICES ASSUME NEW i \in 1 .. Len(a), NEW j \in 1 .. Len(a),
                      a[i].from = g, a[j].from = g, NEW n \in a[i].n .. a[j].n
               PROVE  Queued(a, g, n)
      BY DEF NoGap
  <2>1. \A k \in 1 .. Len(a) : a[k].n \in Nat /\ (k # Len(a) => k \in 1 .. Len(q) /\ a[k] = q[k])
    BY <1>4, <1>5
  <2>2. CASE n = m + 1
    BY <1>8, <2>2
  <2>3. CASE n # m + 1
    <3>1. n <= m /\ i # Len(a)
      BY <1>1, <1>3, <2>1, <2>3
    <3>2. Queued(q, g, m)
      BY <2>1, <3>1 DEF UpTo, EndsAt
    <3>3. PICK k \in 1 .. Len(q) : q[k].from = g /\ q[k].n = m
      BY <3>2 DEF Queued
    <3>4. n \in q[i].n .. q[k].n
      BY <1>2, <2>1, <3>1, <3>3
    <3>5. Queued(q, g, n)
      BY <2>1, <3>1, <3>3, <3>4 DEF Run, NoGap
    <3> QED
      BY <1>7, <3>5
  <2> QED
    BY <2>2, <2>3
<1>10. EndsAt(a, g, m + 1)
  BY <1>1, <1>2, <1>3, <1>8 DEF EndsAt
<1>11. last # None /\ last.from = g =>
        last.n <= m + 1 /\ \A i \in 1 .. Len(a) : a[i].from = g => last.n < a[i].n
  <2>1. last # None => last.n \in Nat
    BY DEF Chunk
  <2> QED
    BY <1>1, <1>2, <2>1 DEF Run, UpTo
<1>12. Lag(a, g, m + 1)
  BY <1>1, <1>2, <1>4 DEF UpTo, Lag
<1> QED
  BY <1>6, <1>9, <1>10, <1>11, <1>12 DEF Run, UpTo, a

\* A chunk of another process does not disturb the run of g.
LEMMA AppendOther ==
    ASSUME NEW q \in Seq(Chunk), NEW last, NEW g, NEW c \in Chunk, c.from # g,
           Run(q, last, g)
    PROVE  /\ Run(Append(q, c), last, g)
           /\ \A m \in Int : UpTo(q, last, g, m) => UpTo(Append(q, c), last, g, m)
<1> DEFINE a == Append(q, c)
<1>1. /\ a \in Seq(Chunk) /\ Len(q) \in Nat /\ Len(a) = Len(q) + 1
      /\ \A i \in 1 .. Len(q) : a[i] = q[i]
      /\ a[Len(a)] = c
  BY AppendProperties, LenProperties
<1> HIDE DEF a
<1>2. \A i \in 1 .. Len(a) : a[i].from = g => i \in 1 .. Len(q) /\ a[i] = q[i]
  BY <1>1
<1>3. ASSUME NEW n, Queued(q, g, n) PROVE Queued(a, g, n)
  BY <1>1, <1>3 DEF Queued
<1>4. InOrder(a, g)
  BY <1>2 DEF Run, InOrder
<1>5. NoGap(a, g)
  BY <1>2, <1>3 DEF Run, NoGap
<1>6. Run(a, last, g)
  BY <1>2, <1>4, <1>5 DEF Run
<1>7. ASSUME NEW m \in Int, UpTo(q, last, g, m) PROVE UpTo(a, last, g, m)
  <2>1. \A i \in 1 .. Len(q) : q[i].n \in Nat
    BY Numbered
  <2>2. ASSUME NEW i \in 1 .. Len(a), a[i].from = g
        PROVE  m - a[i].n <= Len(a) - i
    <3>1. i \in 1 .. Len(q) /\ a[i] = q[i]
      BY <1>2, <2>2
    <3>2. m - q[i].n <= Len(q) - i /\ q[i].n \in Nat
      BY <1>7, <2>1, <2>2, <3>1 DEF UpTo, Lag
    <3> QED
      BY <1>1, <3>1, <3>2
  <2>3. Lag(a, g, m)
    BY <2>2 DEF Lag
  <2> QED
    BY <1>2, <1>3, <1>7, <2>3 DEF UpTo, EndsAt
<1> QED
  BY <1>6, <1>7 DEF a
-----------------------------------------------------------------------------
LEMMA FreshStep == IInv /\ FreshInv /\ [Next]_vars => FreshInv'
<1> SUFFICES ASSUME IInv, FreshInv, [Next]_vars PROVE FreshInv'
  OBVIOUS
<1> USE DEF IInv, TypeOK, FreshInv, stream, pumpVars, procVars, requestVars
<1>1. CASE UNCHANGED vars
  BY <1>1 DEF vars
<1>2. ASSUME NEW h \in Listener,
             Join(h) \/ JoinFails(h) \/ Written(h) \/ ClientAborts(h)
               \/ SeesClosed(h) \/ Receive(h) \/ Leave(h)
      PROVE  FreshInv'
  BY <1>2 DEF Join, JoinFails, Written, ClientAborts, SeesClosed, Receive, Leave
<1>3. CASE PublisherStops
  BY <1>3 DEF PublisherStops, StopAll, Stop
<1>4. ASSUME NEW p \in Source, TakeOgg(p) \/ FeedOgg(p) PROVE FreshInv'
  BY <1>4 DEF TakeOgg, FeedOgg
<1>5. ASSUME NEW g \in Process, ProcExits(g) \/ Waiter(g) PROVE FreshInv'
  BY <1>5 DEF ProcExits, Waiter, WaiterChecks, WaiterStops, StopAll, Stop
<1>6. ASSUME NEW g \in Process, PumpReads(g) \/ Pump(g) PROVE FreshInv'
  BY <1>6 DEF PumpReads, Pump, FanOut, PumpEnds, PumpLocks, PumpTries, NoRoom,
              PumpDrops, PumpResends, PumpUnlocks
<1> QED
  BY <1>1, <1>2, <1>3, <1>4, <1>5, <1>6 DEF Next, Request

\* A step that touches no channel and tells no listener of more chunks.
LEMMA QuietStep ==
    ASSUME RunInv, UNCHANGED <<queue, got>>, listeners' \subseteq listeners,
           \A h \in listeners', g \in Process : HandedTo(h, g)' = HandedTo(h, g)
    PROVE  RunInv'
BY DEF RunInv

\* The pump of g hands its chunk to h, be it with or without an older one
\* dropped: the rest of the channels is left alone.
LEMMA SendStep ==
    ASSUME IInv, ProcInv, RunInv, NEW g \in Process, NEW h \in todo,
           mu = g, queue' = [queue EXCEPT ![h] = Append(@, Newest(g))],
           todo' = todo \ {h}, UNCHANGED <<got, listeners, mu, pump, read>>
    PROVE  RunInv'
<1> USE DEF IInv, TypeOK
<1>1. /\ h \in listeners /\ h \in Listener
      /\ pump[g] = "fanout"
      /\ Newest(g) \in Chunk /\ Newest(g).from = g /\ Newest(g).n = read[g]
  BY NoneApart DEF FanOutInv, ProcInv, LoopInv, Newest, Chunk
<1>2. /\ HandedTo(h, g) = read[g] - 1
      /\ HandedTo(h, g)' = read[g]
      /\ \A k \in Listener, f \in Process :
           k # h \/ f # g => HandedTo(k, f)' = HandedTo(k, f)
  BY <1>1 DEF HandedTo
<1>3. \A k \in Listener : queue'[k] = IF k = h THEN Append(queue[h], Newest(g)) ELSE queue[k]
  BY <1>1
<1>4. read[g] \in Nat /\ queue[h] \in Seq(Chunk) /\ (got[h] # None => got[h] \in Chunk)
  BY <1>1
<1> SUFFICES ASSUME NEW k \in Listener, NEW f \in Process
             PROVE  /\ Run(queue'[k], got[k], f)
                    /\ k \in listeners => UpTo(queue'[k], got[k], f, HandedTo(k, f)')
    BY DEF RunInv
<1>5. Run(queue[k], got[k], f) /\ (k \in listeners => UpTo(queue[k], got[k], f, HandedTo(k, f)))
  BY DEF RunInv
<1>6. HandedTo(k, f) \in Int
  BY DEF HandedTo
<1>7. CASE k # h
  BY <1>2, <1>3, <1>5, <1>7
<1>8. CASE k = h /\ f = g
  <2>1. read[g] - 1 \in Int /\ Newest(g).n = (read[g] - 1) + 1
    BY <1>1, <1>4
  <2>2. UpTo(queue[h], got[h], g, read[g] - 1) /\ Run(queue[h], got[h], g)
    BY <1>1, <1>2, <1>5, <1>8
  <2>3. /\ Run(Append(queue[h], Newest(g)), got[h], g)
        /\ UpTo(Append(queue[h], Newest(g)), got[h], g, (read[g] - 1) + 1)
    BY <1>1, <1>4, <2>1, <2>2, AppendOwn
  <2>4. (read[g] - 1) + 1 = read[g]
    BY <1>4
  <2> QED
    BY <1>2, <1>3, <1>8, <2>3, <2>4
<1>9. CASE k = h /\ f # g
  BY <1>1, <1>2, <1>3, <1>4, <1>5, <1>6, <1>9, AppendOther
<1> QED
  BY <1>7, <1>8, <1>9
-----------------------------------------------------------------------------
LEMMA RunStep == IInv /\ ProcInv /\ FreshInv /\ RunInv /\ [Next]_vars => RunInv'
<1> SUFFICES ASSUME IInv, ProcInv, FreshInv, RunInv, [Next]_vars PROVE RunInv'
  OBVIOUS
<1> USE NoneApart DEF IInv, TypeOK, stream, pumpVars, procVars, requestVars
<1>1. CASE UNCHANGED vars
  BY <1>1, QuietStep DEF vars, HandedTo
<1>2. ASSUME NEW h \in Listener, Join(h) PROVE RunInv'
  <2>1. /\ got[h] = None
        /\ queue' = [queue EXCEPT ![h] = <<>>] /\ got' = got
        /\ listeners' = listeners \cup {h}
    BY <1>2 DEF Join, FreshInv
  <2>2. \A k \in Listener, f \in Process : HandedTo(k, f)' = HandedTo(k, f)
    <3>1. UNCHANGED <<mu, read, todo>>
          /\ \A f \in Process : pump'[f] = "holding" <=> pump[f] = "holding"
      BY <1>2 DEF Join, Start, ProcInv, OutliveProcess
    <3> QED
      BY <3>1 DEF HandedTo
  <2>3. \A f, m : Run(<<>>, None, f) /\ UpTo(<<>>, None, f, m)
    BY DEF Run, UpTo, InOrder, NoGap, EndsAt, Lag
  <2> SUFFICES ASSUME NEW k \in Listener, NEW f \in Process
               PROVE  /\ Run(queue'[k], got[k], f)
                      /\ k \in listeners' => UpTo(queue'[k], got[k], f, HandedTo(k, f))
      BY <2>1, <2>2 DEF RunInv
  <2>4. CASE k = h
    BY <2>1, <2>3, <2>4
  <2>5. CASE k # h
    BY <2>1, <2>5 DEF RunInv
  <2> QED
    BY <2>4, <2>5
<1>3. ASSUME NEW h \in Listener,
             JoinFails(h) \/ Written(h) \/ ClientAborts(h) \/ SeesClosed(h) \/ Leave(h)
      PROVE  RunInv'
  <2>1. /\ UNCHANGED <<queue, got, pump, mu, read, todo>>
        /\ listeners' \subseteq listeners
    BY <1>3 DEF JoinFails, Written, ClientAborts, SeesClosed, Leave
  <2> QED
    BY <2>1, QuietStep DEF HandedTo
<1>4. ASSUME NEW h \in Listener, Receive(h) PROVE RunInv'
  <2>1. /\ queue[h] \in Seq(Chunk) /\ queue[h] # <<>>
        /\ queue' = [queue EXCEPT ![h] = Tail(queue[h])]
        /\ got' = [got EXCEPT ![h] = Head(queue[h])]
        /\ UNCHANGED <<listeners, pump, mu, read, todo>>
    BY <1>4 DEF Receive
  <2>2. \A k \in Listener, f \in Process : HandedTo(k, f)' = HandedTo(k, f)
    BY <2>1 DEF HandedTo
  <2> SUFFICES ASSUME NEW k \in Listener, NEW f \in Process
               PROVE  /\ Run(queue'[k], got'[k], f)
                      /\ k \in listeners => UpTo(queue'[k], got'[k], f, HandedTo(k, f))
      BY <2>1, <2>2 DEF RunInv
  <2>3. Run(queue[k], got[k], f) /\ (k \in listeners => UpTo(queue[k], got[k], f, HandedTo(k, f)))
    BY DEF RunInv
  <2>4. HandedTo(k, f) \in Int
    BY DEF HandedTo
  <2>5. CASE k # h
    BY <2>1, <2>3, <2>5
  <2>6. CASE k = h
    <3>1. queue'[h] = Tail(queue[h]) /\ got'[h] = Head(queue[h])
      BY <2>1
    <3> QED
      BY <2>1, <2>3, <2>4, <2>6, <3>1, TailRun
  <2> QED
    BY <2>5, <2>6
<1>5. CASE PublisherStops
  <2>1. UNCHANGED <<queue, got, pump, mu, read, todo>> /\ listeners' = {}
    BY <1>5 DEF PublisherStops, StopAll
  <2> QED
    BY <2>1, QuietStep
<1>6. ASSUME NEW p \in Source, TakeOgg(p) \/ FeedOgg(p) PROVE RunInv'
  <2>1. UNCHANGED <<queue, got, pump, mu, read, todo, listeners>>
    BY <1>6 DEF TakeOgg, FeedOgg
  <2> QED
    BY <2>1, QuietStep DEF HandedTo
<1>7. ASSUME NEW g \in Process, ProcExits(g) \/ Waiter(g) PROVE RunInv'
  <2>1. UNCHANGED <<queue, got, pump, mu, read, todo>> /\ listeners' \subseteq listeners
    BY <1>7 DEF ProcExits, Waiter, WaiterChecks, WaiterStops, StopAll
  <2> QED
    BY <2>1, QuietStep DEF HandedTo
<1>8. ASSUME NEW g \in Process, PumpReads(g) PROVE RunInv'
  <2>1. /\ UNCHANGED <<queue, got, mu, todo, listeners>>
        /\ pump[g] = "reading" /\ mu # g
        /\ read' = [read EXCEPT ![g] = @ + 1] /\ pump' = [pump EXCEPT ![g] = "holding"]
    BY <1>8 DEF PumpReads, ProcInv, LoopInv
  <2> QED
    BY <2>1, QuietStep DEF HandedTo
<1>9. ASSUME NEW g \in Process, PumpEnds(g) PROVE RunInv'
  <2>1. /\ UNCHANGED <<queue, got, mu, todo, listeners, read>>
        /\ pump[g] = "reading" /\ pump' = [pump EXCEPT ![g] = "ended"]
    BY <1>9 DEF PumpEnds
  <2> QED
    BY <2>1, QuietStep DEF HandedTo
<1>10. ASSUME NEW g \in Process, PumpLocks(g) PROVE RunInv'
  <2>1. /\ UNCHANGED <<queue, got, listeners, read>>
        /\ mu = None /\ mu' = g /\ todo' = listeners
        /\ pump[g] = "holding" /\ pump' = [pump EXCEPT ![g] = "fanout"]
    BY <1>10 DEF PumpLocks, Unlocked
  <2> QED
    BY <2>1, QuietStep DEF HandedTo
<1>11. ASSUME NEW g \in Process, PumpTries(g) PROVE RunInv'
  <2>1. mu = g /\ UNCHANGED <<got, listeners, mu, pump, read>>
    BY <1>11 DEF PumpTries
  <2>2. PICK h \in todo : \/ /\ queue' = [queue EXCEPT ![h] = Append(@, Newest(g))]
                            /\ todo' = todo \ {h}
                         \/ UNCHANGED <<queue, todo>>
    BY <1>11 DEF PumpTries, NoRoom
  <2>3. CASE /\ queue' = [queue EXCEPT ![h] = Append(@, Newest(g))]
             /\ todo' = todo \ {h}
    BY <2>1, <2>3, SendStep
  <2>4. CASE UNCHANGED <<queue, todo>>
    BY <2>1, <2>4, QuietStep DEF HandedTo
  <2> QED
    BY <2>2, <2>3, <2>4
<1>12. ASSUME NEW g \in Process, PumpDrops(g) PROVE RunInv'
  <2>1. /\ UNCHANGED <<got, listeners, mu, pump, read, todo>>
        /\ target \in Listener
        /\ queue' = [queue EXCEPT ![target] = DropOldest(queue[target])]
    BY <1>12 DEF PumpDrops, FanOutInv
  <2>2. CASE queue[target] = <<>>
    <3>1. queue' = queue
      BY <2>1, <2>2 DEF DropOldest
    <3> QED
      BY <2>1, <3>1, QuietStep DEF HandedTo
  <2>3. CASE queue[target] # <<>>
    <3>1. /\ queue[target] \in Seq(Chunk)
          /\ queue' = [queue EXCEPT ![target] = Tail(queue[target])]
      BY <2>1, <2>3 DEF DropOldest
    <3>2. \A k \in Listener, f \in Process : HandedTo(k, f)' = HandedTo(k, f)
      BY <2>1 DEF HandedTo
    <3> SUFFICES ASSUME NEW k \in Listener, NEW f \in Process
                 PROVE  /\ Run(queue'[k], got[k], f)
                        /\ k \in listeners => UpTo(queue'[k], got[k], f, HandedTo(k, f))
        BY <2>1, <3>2 DEF RunInv
    <3>3. /\ Run(queue[k], got[k], f)
          /\ k \in listeners => UpTo(queue[k], got[k], f, HandedTo(k, f))
      BY DEF RunInv
    <3>4. HandedTo(k, f) \in Int
      BY DEF HandedTo
    <3>5. CASE k # target
      BY <3>1, <3>3, <3>5
    <3>6. CASE k = target
      <4>1. queue'[k] = Tail(queue[k])
        BY <2>1, <3>1, <3>6
      <4> QED
        BY <2>3, <3>1, <3>3, <3>4, <3>6, <4>1, TailRun
    <3> QED
      BY <3>5, <3>6
  <2> QED
    BY <2>2, <2>3
<1>13. ASSUME NEW g \in Process, PumpResends(g) PROVE RunInv'
  <2>1. /\ mu = g /\ target \in todo /\ Len(queue[target]) < Cap
        /\ todo' = todo \ {target}
        /\ UNCHANGED <<got, listeners, mu, pump, read>>
    BY <1>13 DEF PumpResends, FanOutInv
  <2>2. queue' = [queue EXCEPT ![target] = Append(@, Newest(g))]
    BY <1>13, <2>1 DEF PumpResends
  <2> QED
    BY <2>1, <2>2, SendStep
<1>14. ASSUME NEW g \in Process, PumpUnlocks(g) PROVE RunInv'
  <2>1. /\ UNCHANGED <<queue, got, listeners, read, todo>>
        /\ mu = g /\ mu' = None /\ todo = {}
        /\ pump[g] = "fanout" /\ pump' = [pump EXCEPT ![g] = "reading"]
    BY <1>14 DEF PumpUnlocks, ProcInv, LoopInv
  <2> QED
    BY <2>1, QuietStep DEF HandedTo
<1> QED
  BY <1>1, <1>2, <1>3, <1>4, <1>5, <1>6, <1>7, <1>8, <1>9, <1>10, <1>11, <1>12, <1>13, <1>14
     DEF Next, Request, Pump, FanOut

LEMMA QueueInvariant == Spec => [](IInv /\ RunInv)
<1>1. Init => FreshInv /\ RunInv
  BY NoneApart DEF Init, FreshInv, RunInv, Run, UpTo, InOrder, NoGap, EndsAt, Lag
<1>2. IInv /\ ProcInv /\ FreshInv /\ RunInv /\ [Next]_vars => (FreshInv /\ RunInv)'
  BY FreshStep, RunStep
<1> QED
  BY <1>1, <1>2, InductiveInvariant, ProcInvariant, PTL DEF Spec

\* Whatever the capacity and however slow it is, a listener misses only the
\* oldest chunks of a process, and hears none twice or out of order.
THEOREM HearsInOrder == Spec => []NoHoleInQueue
<1>1. RunInv => NoHoleInQueue
  BY DEF RunInv, Run, UpTo, NoHoleInQueue
<1> QED
  BY <1>1, QueueInvariant, PTL

\* However slow a listener is, what it has still to hear of a process is among
\* the newest chunks its pump handed out, as many as its channel holds: this
\* "bounds how much stale audio can queue up behind a momentarily slow listener"
\* (stablestream.go:66).
AtMostCapBehind ==
    \A h \in Listener, g \in Process :
        h \in listeners =>
            \A i \in 1 .. Len(queue[h]) :
                queue[h][i].from = g => HandedTo(h, g) - queue[h][i].n < Cap

THEOREM StaysFresh == Spec => []AtMostCapBehind
<1>1. IInv /\ RunInv => AtMostCapBehind
  <2> SUFFICES ASSUME IInv, RunInv, NEW h \in Listener, NEW g \in Process, h \in listeners,
                      NEW i \in 1 .. Len(queue[h]), queue[h][i].from = g
               PROVE  HandedTo(h, g) - queue[h][i].n < Cap
      BY DEF AtMostCapBehind
  <2>1. HandedTo(h, g) - queue[h][i].n <= Len(queue[h]) - i
    BY DEF RunInv, UpTo, Lag
  <2>2. Len(queue[h]) \in Nat /\ Len(queue[h]) <= Cap /\ queue[h][i].n \in Nat
    BY LenProperties, Numbered DEF IInv, TypeOK, FanOutInv
  <2>3. HandedTo(h, g) \in Int
    BY DEF IInv, TypeOK, HandedTo
  <2> QED
    BY <2>1, <2>2, <2>3, CapPositive
<1> QED
  BY <1>1, QueueInvariant, PTL

\* What a request takes from its channel, it takes in order: a later chunk of the
\* same process each time, however often the channel was emptied or overflowed.
HeardForward ==
    [][\A h \in Listener :
         got[h] # None /\ got'[h] # got[h] /\ got'[h].from = got[h].from
            => got[h].n < got'[h].n]_vars

THEOREM HearsForward == Spec => HeardForward
<1>1. ASSUME IInv, RunInv, [Next]_vars, NEW h \in Listener, got[h] # None,
             got'[h] # got[h], got'[h].from = got[h].from
      PROVE  got[h].n < got'[h].n
  <2> USE DEF IInv, TypeOK, stream, pumpVars, procVars, requestVars
  <2>1. ASSUME ~\E k \in Listener : Receive(k) PROVE UNCHANGED got
    <3>1. CASE UNCHANGED vars
      BY <3>1 DEF vars
    <3>2. ASSUME NEW k \in Listener,
                 Join(k) \/ JoinFails(k) \/ Written(k) \/ ClientAborts(k) \/ SeesClosed(k) \/ Leave(k)
          PROVE  UNCHANGED got
      BY <3>2 DEF Join, JoinFails, Written, ClientAborts, SeesClosed, Leave
    <3>3. ASSUME NEW p \in Source, TakeOgg(p) \/ FeedOgg(p) PROVE UNCHANGED got
      BY <3>3 DEF TakeOgg, FeedOgg
    <3>4. ASSUME NEW g \in Process, ProcExits(g) \/ Waiter(g) \/ PumpReads(g) \/ Pump(g)
          PROVE  UNCHANGED got
      BY <3>4 DEF ProcExits, Waiter, WaiterChecks, WaiterStops, PumpReads, Pump, FanOut, PumpEnds,
                  PumpLocks, PumpTries, PumpDrops, PumpResends, PumpUnlocks
    <3> QED
      BY <1>1, <2>1, <3>1, <3>2, <3>3, <3>4 DEF Next, Request, PublisherStops
  <2>2. PICK k \in Listener : Receive(k)
    BY <1>1, <2>1
  <2>3. k = h /\ queue[h] # <<>> /\ got'[h] = Head(queue[h])
    BY <1>1, <2>2 DEF Receive
  <2>4. queue[h] \in Seq(Chunk) /\ 1 \in 1 .. Len(queue[h]) /\ Head(queue[h]) = queue[h][1]
    BY <1>1, <2>3, EmptySeq, LenProperties
  <2>5. got[h].from \in Process
    BY <1>1 DEF Chunk
  <2> QED
    BY <1>1, <2>3, <2>4, <2>5 DEF RunInv, Run
<1>2. IInv /\ RunInv /\ [Next]_vars
      => [\A h \in Listener :
            got[h] # None /\ got'[h] # got[h] /\ got'[h].from = got[h].from
               => got[h].n < got'[h].n]_vars
  BY <1>1
<1> QED
  BY <1>2, QueueInvariant, PTL DEF Spec, HeardForward
-----------------------------------------------------------------------------
\* A process is started while the waiter of another, which found that other one
\* current, is still on its way to StopAll.
StartsBehindWaiter == ~Running /\ Running' /\ \E g \in Process : waiter[g] = "stopping"

\* Until then a waiter on its way finds the process it looked at, or none.
WaiterInv == \A g \in Process : waiter[g] = "stopping" => cmd \in {g, None}

LEMMA WaiterStep == IInv /\ WaiterInv /\ [Next /\ ~StartsBehindWaiter]_vars => WaiterInv'
<1> SUFFICES ASSUME IInv, WaiterInv, [Next /\ ~StartsBehindWaiter]_vars PROVE WaiterInv'
  OBVIOUS
<1> USE NoneApart DEF IInv, TypeOK, WaiterInv, Running, stream, pumpVars, procVars, requestVars
<1>1. CASE UNCHANGED vars
  BY <1>1 DEF vars
<1>2. ASSUME NEW h \in Listener, Join(h), ~StartsBehindWaiter PROVE WaiterInv'
  BY <1>2 DEF Join, Start, StartsBehindWaiter
<1>3. ASSUME NEW h \in Listener,
             JoinFails(h) \/ Written(h) \/ ClientAborts(h) \/ SeesClosed(h) \/ Receive(h) \/ Leave(h)
      PROVE  WaiterInv'
  BY <1>3 DEF JoinFails, Written, ClientAborts, SeesClosed, Receive, Leave, Stop
<1>4. CASE PublisherStops
  BY <1>4 DEF PublisherStops, StopAll, Stop
<1>5. ASSUME NEW p \in Source, TakeOgg(p) \/ FeedOgg(p) PROVE WaiterInv'
  BY <1>5 DEF TakeOgg, FeedOgg
<1>6. ASSUME NEW g \in Process, ProcExits(g) \/ Waiter(g) PROVE WaiterInv'
  BY <1>6 DEF ProcExits, Waiter, WaiterChecks, WaiterStops, IsCurrent, StopAll, Stop
<1>7. ASSUME NEW g \in Process, PumpReads(g) \/ Pump(g) PROVE WaiterInv'
  BY <1>7 DEF PumpReads, Pump, FanOut, PumpEnds, PumpLocks, PumpTries, NoRoom,
              PumpDrops, PumpResends, PumpUnlocks
<1> QED
  BY <1>1, <1>2, <1>3, <1>4, <1>5, <1>6, <1>7 DEF Next, Request

\* The waiter of a process stops its successor in one way only: a start() falls
\* between the waiter's look at s.cmd and its StopAll, two critical sections of
\* one cleanup (stablestream.go:165).
THEOREM SparesUnlessStarted == Init /\ [][Next /\ ~StartsBehindWaiter]_vars => WaiterSparesNewer
<1>1. Init => WaiterInv
  BY DEF Init, WaiterInv
<1>2. [Next /\ ~StartsBehindWaiter]_vars => [Next]_vars
  OBVIOUS
<1>3. WaiterInv => [\A g \in Process :
                      waiter[g] = "stopping" /\ waiter'[g] = "done" => cmd \in {g, None}]_vars
  BY DEF WaiterInv
<1> QED
  BY <1>1, <1>2, <1>3, WaiterStep, QueueInvariant, PTL DEF Spec, WaiterSparesNewer
=============================================================================
