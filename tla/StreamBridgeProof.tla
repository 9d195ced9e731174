------------------------- MODULE StreamBridgeProof -------------------------
(***************************************************************************)
(* Proofs about StreamBridge, for any intervals, modes, errors and bounds. *)
(*                                                                         *)
(* None of the properties is inductive.  The invariant says where the      *)
(* generator stands between two bytes (Boundary), how the time that the    *)
(* client has waited relates to the timer and to last_yield_at (Hearing),  *)
(* that the watchdog's clock is the upstream's as long as no time passes   *)
(* in a yield (Agreeing), what the queue looks like once the upstream has  *)
(* ended (EofIsLast, ErrorIsQueued, ErrorThenEof), and where every piece   *)
(* of the response is (Accounted).                                         *)
(***************************************************************************)
EXTENDS StreamBridge, TLAPS

-----------------------------------------------------------------------------
(* Operators.                                                              *)

LEMMA LaterProperties ==
    ASSUME NEW t \in Time
    PROVE  Later(t) \in Time /\ Later(t) <= t + 1 /\ Later(t) >= t
    BY BridgeAssumptions DEF Later, Time

LEMMA LaterMonotone ==
    ASSUME NEW s \in Time, NEW t \in Time, s <= t
    PROVE  Later(s) <= Later(t)
    BY BridgeAssumptions DEF Later, Time

LEMMA LeastProperties ==
    ASSUME NEW m \in Nat, NEW n \in Nat
    PROVE  Least(m, n) \in Nat /\ Least(m, n) <= m /\ Least(m, n) <= n
    BY DEF Least

LEMMA ThresholdIsTime == Threshold \in Time /\ Threshold > 0
    BY BridgeAssumptions DEF Threshold, Time

LEMMA ZeroIsTime == 0 \in Time
    BY BridgeAssumptions DEF Time

LEMMA WatchProperties ==
    ASSUME NEW b \in Bridge, NEW c \in Chunk
    PROVE  /\ Watch(b, c) \in Bridge
           /\ Watch(b, c).progress = IF Progress(c) THEN 0 ELSE b.progress
           /\ Watch(b, c).pc = b.pc /\ Watch(b, c).yielded = b.yielded
           /\ Watch(b, c).timer = b.timer /\ Watch(b, c).held = b.held
<1> DEFINE x == IF Progress(c) THEN 0 ELSE b.progress
           y == b.started \/ c.head = "start"
<1>1. x \in Time /\ y \in BOOLEAN
    BY ZeroIsTime DEF Bridge
<1>2. Watch(b, c) = [b EXCEPT !.progress = x, !.started = y]
    BY DEF Watch
<1> HIDE DEF x, y
<1>5. Watch(b, c) = [pc |-> b.pc, timer |-> b.timer, progress |-> x, yielded |-> b.yielded,
                     started |-> y, held |-> b.held, opens |-> b.opens]
    BY <1>2 DEF Bridge
<1>3. /\ Watch(b, c) \in Bridge
      /\ Watch(b, c).progress = x
      /\ Watch(b, c).pc = b.pc /\ Watch(b, c).yielded = b.yielded
      /\ Watch(b, c).timer = b.timer /\ Watch(b, c).held = b.held
    BY <1>1, <1>5 DEF Bridge
<1>4. QED
    BY <1>3 DEF x

LEMMA PiecesAreNat ==
    ASSUME NEW c \in Chunk
    PROVE  Before(c) \in Nat /\ After(c) \in Nat
    BY DEF Before, After

LEMMA ChunkProperties ==
    ASSUME NEW c \in Item, c.type = "chunk"
    PROVE  c \in Chunk /\ c.opens \in Events \cup {None}
    BY DEF Item, Chunk

LEMMA ErrorProperties ==
    ASSUME NEW e \in Item, e.type = "error"
    PROVE  e.of \in AllErrors
    BY DEF Item, Chunk

\* What a step of the generator does to the client.
LEMMA SeesProperties ==
    ASSUME client \in Client, NEW n \in Nat, Sees(n)
    PROVE  /\ client' \in Client
           /\ client'.idle = 0 /\ client'.mid = FALSE /\ client'.broken = client.broken
           /\ client'.withheld = FALSE
<1>1. client' = [idle |-> 0, mid |-> FALSE, got |-> client.got + n, residue |-> client.residue,
                 broken |-> client.broken, withheld |-> FALSE]
    BY DEF Sees, Client
<1>2. client.got + n \in Nat
    BY DEF Client
<1>3. QED
    BY <1>1, <1>2, ZeroIsTime DEF Client

LEMMA SendHeartbeatProperties ==
    ASSUME client \in Client, SendHeartbeat
    PROVE  /\ client' \in Client
           /\ client'.idle = 0 /\ client'.mid = client.mid
           /\ client'.broken = (client.broken \/ (mode = "pass" /\ client.mid))
           /\ client'.withheld = FALSE
<1> DEFINE k == client.broken \/ (mode = "pass" /\ client.mid)
<1>1. k \in BOOLEAN
    BY DEF Client
<1>2. client' = [idle |-> 0, mid |-> client.mid, got |-> client.got, residue |-> client.residue,
                 broken |-> k, withheld |-> FALSE]
    BY DEF SendHeartbeat, Client
<1> HIDE DEF k
<1>3. /\ client' \in Client
      /\ client'.idle = 0 /\ client'.mid = client.mid /\ client'.broken = k
      /\ client'.withheld = FALSE
    BY <1>1, <1>2, ZeroIsTime DEF Client
<1>4. QED
    BY <1>3 DEF k

LEMMA FlushProperties ==
    ASSUME client \in Client, bridge \in Bridge, Flush
    PROVE  client' \in Client /\ client'.broken = client.broken
<1>1. CASE bridge.held = 0
    BY <1>1 DEF Flush
<1>2. CASE bridge.held # 0
    <2>1. PICK residue \in {client.residue, client.residue \/ bridge.opens = "done"} :
            client' = [client EXCEPT !.idle = 0, !.withheld = FALSE, !.got = @ + bridge.held,
                                     !.mid = TRUE, !.residue = residue]
        BY <1>2 DEF Flush
    <2>2. client' = [idle |-> 0, mid |-> TRUE, got |-> client.got + bridge.held, residue |-> residue,
                     broken |-> client.broken, withheld |-> FALSE]
        BY <2>1 DEF Client
    <2>3. client.got + bridge.held \in Nat
        BY DEF Client, Bridge
    <2>4. residue \in BOOLEAN
        BY DEF Client
    <2>5. QED
        BY <2>2, <2>3, <2>4, ZeroIsTime DEF Client
<1>3. QED
    BY <1>1, <1>2

LEMMA OverProperties ==
    ASSUME bridge \in Bridge, NEW how, Over(how)
    PROVE  bridge' \in Bridge /\ bridge'.pc = "over" /\ ended' = how
           /\ bridge'.started = bridge.started
    BY DEF Over, Bridge

-----------------------------------------------------------------------------
(* The queue.                                                              *)

LEMMA TailProperties ==
    ASSUME NEW S, NEW q \in Seq(S), q # <<>>
    PROVE  /\ Head(q) \in S /\ Head(q) = q[1]
           /\ Tail(q) \in Seq(S)
           /\ Len(q) \in Nat \ {0} /\ Len(Tail(q)) = Len(q) - 1
           /\ \A i \in 1..Len(Tail(q)) : Tail(q)[i] = q[i + 1]
    OBVIOUS

LEMMA AppendProperties ==
    ASSUME NEW S, NEW q \in Seq(S), NEW e \in S
    PROVE  /\ Append(q, e) \in Seq(S)
           /\ Len(Append(q, e)) = Len(q) + 1
           /\ \A i \in 1..Len(q) : Append(q, e)[i] = q[i]
           /\ Append(q, e)[Len(q) + 1] = e
    OBVIOUS

-----------------------------------------------------------------------------
(* The invariant.                                                          *)

\* Between two bytes the client of pass-through mode is between events.
Boundary ==
    /\ client.broken = FALSE
    /\ Running /\ mode = "pass" => client.mid = FALSE

EndedIsOver == ended # None => ~Running

\* What the client has waited, against the timer or last_yield_at.
Hearing ==
    Running /\ ~slow =>
        /\ mode = "collapse" => client.idle <= bridge.yielded
        /\ mode = "collapse" /\ bridge.pc # "wait" => client.idle <= Heartbeat
        /\ bridge.pc = "yield" => client.idle = 0
        /\ mode = "pass" /\ ~client.withheld /\ bridge.pc = "check" => client.idle = 0
        /\ (mode = "collapse" \/ ~client.withheld) /\ bridge.pc = "wait"
              => client.idle + bridge.timer <= Heartbeat

IsProgress(e) == e.type = "chunk" /\ Progress(e)

HasProgress(q) == \E i \in 1..Len(q) : IsProgress(q[i])

\* The watchdog's clock is the upstream's, but for events still in the queue.
Agreeing ==
    Running /\ ~slow =>
        /\ HasProgress(queue) => quiet = 0
        /\ ~HasProgress(queue) => quiet = bridge.progress

\* The end comes last, after the error that caused it.
EofIsLast ==
    \A i \in 1..Len(queue) : queue[i].type = "eof" => i = Len(queue) /\ upstream.state # "open"

ErrorIsQueued ==
    Running /\ mode = "collapse" /\ upstream.state \in {"stall", "reset"} =>
        /\ Len(queue) > 1
        /\ queue[Len(queue) - 1].type = "error"
        /\ queue[Len(queue) - 1].of = upstream.state

IInv ==
    /\ TypeOK
    /\ Boundary /\ EndedIsOver /\ Hearing /\ Agreeing /\ EofIsLast /\ ErrorIsQueued
    /\ BodyIsComplete /\ WatchdogIsRightInTime

LEMMA InitIInv == Init => IInv
<1> SUFFICES ASSUME Init
             PROVE  IInv
    OBVIOUS
<1>1. TypeOK
    <2>1. bridge \in Bridge
        BY ZeroIsTime DEF Init, Bridge
    <2>2. client \in Client
        BY ZeroIsTime DEF Init, Client
    <2>3. quiet \in Time /\ burst \in 0..MaxBurst
        BY ZeroIsTime, BridgeAssumptions DEF Init
    <2>4. mode \in {"pass", "collapse"} /\ ended = None /\ slow \in BOOLEAN
        BY BridgeAssumptions DEF Init
    <2>5. upstream \in [state: {"open", "closed"} \cup AllErrors, open: Events \cup {None}, got: Nat]
        BY DEF Init
    <2>6. queue \in Seq(Item)
        BY DEF Init
    <2>7. QED
        BY <2>1, <2>2, <2>3, <2>4, <2>5, <2>6 DEF TypeOK
<1>2. Boundary /\ EndedIsOver
    BY DEF Init, Boundary, EndedIsOver
<1>3. Hearing /\ Agreeing
    BY BridgeAssumptions DEF Init, Hearing, Agreeing, HasProgress
<1>4. EofIsLast /\ ErrorIsQueued
    BY DEF Init, EofIsLast, ErrorIsQueued
<1>5. BodyIsComplete /\ WatchdogIsRightInTime
    BY DEF Init, BodyIsComplete, WatchdogIsRightInTime, WatchdogIsRight, None
<1>6. QED
    BY <1>1, <1>2, <1>3, <1>4, <1>5 DEF IInv

\* The steps of the upstream leave the generator and the client alone.
LEMMA UpstreamIInv == IInv /\ Upstream => IInv'
<1> SUFFICES ASSUME IInv, Upstream
             PROVE  IInv'
    OBVIOUS
<1>0. TypeOK /\ queue \in Seq(Item)
    BY DEF IInv, TypeOK
<1>1. /\ UNCHANGED <<mode, bridge, client, ended, slow>>
      /\ Running /\ upstream.state = "open" /\ bridge.pc # "over"
    BY DEF Upstream, Arrive, ArriveOther, UpstreamEnds, Sends, Running
<1>2. Boundary' /\ EndedIsOver' /\ Hearing'
    BY <1>1 DEF IInv, Boundary, EndedIsOver, Hearing, Running
<1>3. BodyIsComplete' /\ WatchdogIsRightInTime'
    BY <1>1 DEF IInv, EndedIsOver, BodyIsComplete, WatchdogIsRightInTime, WatchdogIsRight, None
<1>4. CASE Arrive
    <2>1. PICK c \in Chunk :
             /\ queue' = Append(queue, c)
             /\ upstream' = [upstream EXCEPT !.open = c.opens, !.got = @ + Before(c) + After(c)]
             /\ quiet' = IF Progress(c) THEN 0 ELSE quiet
        BY <1>4 DEF Arrive
    <2>2. c \in Item /\ c.type = "chunk" /\ c.opens \in Events \cup {None}
        BY DEF Item, Chunk
    <2>3. /\ queue' \in Seq(Item)
          /\ Len(queue') = Len(queue) + 1
          /\ \A i \in 1..Len(queue) : queue'[i] = queue[i]
          /\ queue'[Len(queue) + 1] = c
          /\ Len(queue) \in Nat
        BY <1>0, <2>1, <2>2, AppendProperties
    <2>4. /\ upstream' \in [state: {"open", "closed"} \cup AllErrors, open: Events \cup {None}, got: Nat]
          /\ upstream'.state = "open"
        <3>1. Before(c) \in Nat /\ After(c) \in Nat
            BY PiecesAreNat
        <3>2. upstream \in [state: {"open", "closed"} \cup AllErrors, open: Events \cup {None}, got: Nat]
            BY <1>0 DEF TypeOK
        <3>3. upstream' = [state |-> upstream.state, open |-> c.opens,
                           got |-> upstream.got + Before(c) + After(c)]
            BY <2>1, <3>2
        <3>4. upstream.got + Before(c) + After(c) \in Nat
            BY <3>1, <3>2
        <3>5. QED
            BY <1>1, <2>2, <3>2, <3>3, <3>4
    <2>5. quiet' \in Time /\ burst' \in 0..MaxBurst
        BY <1>0, <1>4, <2>1, ZeroIsTime, BridgeAssumptions DEF TypeOK, Arrive, Sends
    <2>6. TypeOK'
        BY <1>0, <1>1, <2>3, <2>4, <2>5 DEF TypeOK
    <2>7. Agreeing'
        <3>1. CASE Progress(c)
            BY <1>1, <2>1, <2>2, <2>3, <3>1 DEF Agreeing, HasProgress, IsProgress
        <3>2. CASE ~Progress(c)
            BY <1>1, <2>1, <2>2, <2>3, <3>2 DEF IInv, Agreeing, HasProgress, IsProgress, Running
        <3>3. QED
            BY <3>1, <3>2
    <2>8. EofIsLast'
        BY <1>1, <2>2, <2>3 DEF IInv, EofIsLast
    <2>9. ErrorIsQueued'
        BY <2>4 DEF ErrorIsQueued
    <2>10. QED
        BY <1>2, <1>3, <2>6, <2>7, <2>8, <2>9 DEF IInv
<1>5. CASE ArriveOther
    <2> DEFINE c == [type |-> "other"]
    <2>1. queue' = Append(queue, c) /\ UNCHANGED <<upstream, quiet>>
        BY <1>5 DEF ArriveOther
    <2>2. c \in Item /\ c.type = "other"
        BY DEF Item
    <2> HIDE DEF c
    <2>3. /\ queue' \in Seq(Item)
          /\ Len(queue') = Len(queue) + 1
          /\ \A i \in 1..Len(queue) : queue'[i] = queue[i]
          /\ queue'[Len(queue) + 1] = c
          /\ Len(queue) \in Nat
        BY <1>0, <2>1, <2>2, AppendProperties
    <2>4. burst' \in 0..MaxBurst
        BY <1>0, <1>5, BridgeAssumptions DEF TypeOK, ArriveOther, Sends
    <2>5. TypeOK'
        BY <1>0, <1>1, <2>1, <2>3, <2>4 DEF TypeOK
    <2>6. Agreeing'
        BY <1>1, <2>1, <2>2, <2>3 DEF IInv, Agreeing, HasProgress, IsProgress, Running
    <2>7. EofIsLast'
        BY <1>1, <2>2, <2>3 DEF IInv, EofIsLast
    <2>8. ErrorIsQueued'
        BY <1>1, <2>1 DEF ErrorIsQueued
    <2>9. QED
        BY <1>2, <1>3, <2>5, <2>6, <2>7, <2>8 DEF IInv
<1>6. CASE UpstreamEnds
    <2>1. UNCHANGED <<quiet, burst>>
        BY <1>6 DEF UpstreamEnds
    <2> DEFINE eof == [type |-> "eof"]
    <2>2. eof \in Item /\ eof.type = "eof"
        BY DEF Item
    <2> HIDE DEF eof
    <2>3. CASE upstream' = [upstream EXCEPT !.state = "closed"] /\ queue' = Append(queue, eof)
        <3>1. /\ queue' \in Seq(Item)
              /\ Len(queue') = Len(queue) + 1
              /\ \A i \in 1..Len(queue) : queue'[i] = queue[i]
              /\ queue'[Len(queue) + 1] = eof
              /\ Len(queue) \in Nat
            BY <1>0, <2>3, <2>2, AppendProperties
        <3>2. /\ upstream' \in [state: {"open", "closed"} \cup AllErrors, open: Events \cup {None}, got: Nat]
              /\ upstream'.state = "closed"
            BY <1>0, <2>3 DEF TypeOK
        <3>3. TypeOK'
            BY <1>0, <1>1, <2>1, <3>1, <3>2 DEF TypeOK
        <3>4. Agreeing'
            BY <1>1, <2>1, <2>2, <3>1 DEF IInv, Agreeing, HasProgress, IsProgress, Running
        <3>5. EofIsLast'
            BY <1>1, <3>1, <3>2 DEF IInv, EofIsLast
        <3>6. ErrorIsQueued'
            BY <3>2 DEF ErrorIsQueued
        <3>7. QED
            BY <1>2, <1>3, <3>3, <3>4, <3>5, <3>6 DEF IInv
    <2>4. ASSUME NEW e \in Errors, upstream' = [upstream EXCEPT !.state = e],
                 queue' = queue \o <<[type |-> "error", of |-> e], eof>>
          PROVE  IInv'
        <3> DEFINE err == [type |-> "error", of |-> e]
        <3>1. err \in Item /\ err.type = "error" /\ err.of = e /\ e \in AllErrors /\ e # "open"
            BY BridgeAssumptions DEF Item, AllErrors
        <3>2. queue' = queue \o <<err, eof>>
            BY <2>4
        <3> HIDE DEF err
        <3>3. /\ queue' \in Seq(Item)
              /\ Len(queue') = Len(queue) + 2
              /\ \A i \in 1..Len(queue) : queue'[i] = queue[i]
              /\ queue'[Len(queue) + 1] = err /\ queue'[Len(queue) + 2] = eof
              /\ Len(queue) \in Nat
            BY <1>0, <2>2, <3>1, <3>2
        <3>4. /\ upstream' \in [state: {"open", "closed"} \cup AllErrors, open: Events \cup {None}, got: Nat]
              /\ upstream'.state = e
            BY <1>0, <2>4, <3>1 DEF TypeOK
        <3>5. TypeOK'
            BY <1>0, <1>1, <2>1, <3>3, <3>4 DEF TypeOK
        <3>6. Agreeing'
            BY <1>1, <2>1, <2>2, <3>1, <3>3 DEF IInv, Agreeing, HasProgress, IsProgress, Running
        <3>7. EofIsLast'
            BY <1>1, <3>1, <3>3, <3>4 DEF IInv, EofIsLast
        <3>8. ErrorIsQueued'
            BY <3>1, <3>3, <3>4 DEF ErrorIsQueued
        <3>9. QED
            BY <1>2, <1>3, <3>5, <3>6, <3>7, <3>8 DEF IInv
    <2>5. QED
        BY <1>6, <2>3, <2>4 DEF UpstreamEnds, eof
<1>7. QED
    BY <1>4, <1>5, <1>6 DEF Upstream

-----------------------------------------------------------------------------
(* Steps of the generator that leave the queue alone.                      *)

\* The generator stops as its watchdog tells it to.
LEMMA WatchdogIInv ==
    ASSUME IInv, bridge.pc = "check", Stalled, Over("watchdog"), Sees(0),
           UNCHANGED <<mode, upstream, queue, quiet, burst, slow>>
    PROVE  IInv'
<1>1. TypeOK /\ bridge \in Bridge /\ client \in Client /\ Running
    BY DEF IInv, TypeOK, Running
<1>2. /\ client' \in Client
      /\ client'.idle = 0 /\ client'.mid = FALSE /\ client'.broken = client.broken
    BY <1>1, SeesProperties
<1>3. /\ bridge' \in Bridge /\ bridge'.pc = "over" /\ ended' = "watchdog"
      /\ bridge'.started = bridge.started /\ ~Running'
    BY <1>1, OverProperties DEF Running
<1>4. TypeOK'
    BY <1>1, <1>2, <1>3 DEF TypeOK
<1>5. Boundary' /\ EndedIsOver' /\ Hearing' /\ Agreeing' /\ ErrorIsQueued'
    BY <1>2, <1>3 DEF IInv, Boundary, EndedIsOver, Hearing, Agreeing, ErrorIsQueued
<1>6. EofIsLast' /\ BodyIsComplete'
    BY <1>3 DEF IInv, EofIsLast, BodyIsComplete
<1>7. WatchdogIsRightInTime'
    <2>1. CASE slow
        BY <2>1 DEF WatchdogIsRightInTime
    <2>2. CASE ~slow
        <3>1. quiet = bridge.progress \/ quiet = 0
            BY <1>1, <2>2 DEF IInv, Agreeing
        <3>2. Threshold' = Threshold /\ Threshold \in Time /\ bridge.progress \in Time
            BY <1>1, <1>3, ThresholdIsTime DEF Threshold, Bridge
        <3>3. bridge.progress >= Threshold
            BY DEF Stalled
        <3>4. quiet' \notin 1..Threshold' - 1
            BY <3>1, <3>2, <3>3, BridgeAssumptions DEF Time
        <3>5. QED
            BY <3>4 DEF WatchdogIsRightInTime, WatchdogIsRight
    <2>3. QED
        BY <2>1, <2>2
<1>8. QED
    BY <1>4, <1>5, <1>6, <1>7 DEF IInv

\* It waits for the next item, for no longer than the client may.
LEMMA WaitIInv ==
    ASSUME IInv, bridge.pc = "check", ~Stalled, NEW x \in Nat,
           mode = "collapse" => x + bridge.yielded <= Heartbeat,
           x <= Heartbeat,
           bridge' = [bridge EXCEPT !.pc = "wait", !.timer = Least(x, Threshold - bridge.progress)],
           UNCHANGED <<mode, upstream, queue, client, ended, quiet, burst, slow>>
    PROVE  IInv'
<1>1. TypeOK /\ bridge \in Bridge /\ client \in Client /\ Running
    BY DEF IInv, TypeOK, Running
<1> DEFINE t == Least(x, Threshold - bridge.progress)
<1>2. Threshold - bridge.progress \in Nat
    BY <1>1, ThresholdIsTime, BridgeAssumptions DEF Stalled, Bridge, Time
<1>3. t \in Nat /\ t <= x
    BY <1>2, LeastProperties
<1>4. t \in Time
    BY <1>3, BridgeAssumptions DEF Time
<1> HIDE DEF t
<1>5. bridge' = [bridge EXCEPT !.pc = "wait", !.timer = t]
    BY DEF t
<1>6. /\ bridge' \in Bridge /\ bridge'.pc = "wait" /\ bridge'.timer = t
      /\ bridge'.yielded = bridge.yielded /\ bridge'.progress = bridge.progress
    BY <1>1, <1>4, <1>5 DEF Bridge
<1>7. TypeOK'
    BY <1>1, <1>6 DEF TypeOK
<1>8. Hearing'
    <2>1. client.idle \in Nat /\ bridge.yielded \in Nat /\ client.idle' = client.idle
        BY <1>1 DEF Client, Bridge, Time
    <2> SUFFICES ASSUME ~slow
                 PROVE  Hearing'
        BY DEF Hearing
    <2>2. mode \in {"pass", "collapse"}
        BY <1>1 DEF TypeOK
    <2>3. /\ mode = "collapse" => client.idle <= bridge.yielded
          /\ mode = "pass" /\ ~client.withheld => client.idle = 0
        BY <1>1 DEF IInv, Hearing
    <2>4. mode = "collapse" \/ ~client.withheld => client.idle + t <= Heartbeat
        BY <1>3, <2>1, <2>2, <2>3, BridgeAssumptions
    <2>5. QED
        BY <1>6, <2>3, <2>4 DEF Hearing
<1>9. Boundary' /\ EndedIsOver' /\ Agreeing' /\ EofIsLast' /\ ErrorIsQueued'
    BY <1>1, <1>6 DEF IInv, Boundary, EndedIsOver, Agreeing, HasProgress, EofIsLast, ErrorIsQueued, Running
<1>10. BodyIsComplete' /\ WatchdogIsRightInTime'
    BY <1>1 DEF IInv, EndedIsOver, BodyIsComplete, WatchdogIsRightInTime, WatchdogIsRight, None
<1>11. QED
    BY <1>7, <1>8, <1>9, <1>10 DEF IInv

\* It sends a heartbeat.
LEMMA HeartbeatIInv ==
    ASSUME IInv, Running, bridge' = [bridge EXCEPT !.pc = "yield"], SendHeartbeat,
           UNCHANGED <<mode, upstream, queue, ended, quiet, burst, slow>>
    PROVE  IInv'
<1>1. TypeOK /\ bridge \in Bridge /\ client \in Client
    BY DEF IInv, TypeOK
<1>2. /\ client' \in Client
      /\ client'.idle = 0 /\ client'.mid = client.mid
      /\ client'.broken = (client.broken \/ (mode = "pass" /\ client.mid))
    BY <1>1, SendHeartbeatProperties
<1>3. /\ bridge' \in Bridge /\ bridge'.pc = "yield"
      /\ bridge'.yielded = bridge.yielded /\ bridge'.progress = bridge.progress
    BY <1>1 DEF Bridge
<1>4. TypeOK'
    BY <1>1, <1>2, <1>3 DEF TypeOK
<1>5. Boundary'
    BY <1>2, <1>3 DEF IInv, Boundary, Running
<1>6. Hearing'
    BY <1>1, <1>2, <1>3, BridgeAssumptions DEF Hearing, Bridge, Time
<1>7. EndedIsOver' /\ Agreeing' /\ EofIsLast' /\ ErrorIsQueued'
    BY <1>3 DEF IInv, EndedIsOver, Agreeing, HasProgress, EofIsLast, ErrorIsQueued, Running
<1>8. BodyIsComplete' /\ WatchdogIsRightInTime'
    BY DEF IInv, EndedIsOver, BodyIsComplete, WatchdogIsRightInTime, WatchdogIsRight, None
<1>9. QED
    BY <1>4, <1>5, <1>6, <1>7, <1>8 DEF IInv

LEMMA CheckIInv == IInv /\ Check => IInv'
<1> SUFFICES ASSUME IInv, Check
             PROVE  IInv'
    OBVIOUS
<1>1. bridge \in Bridge /\ bridge.pc = "check" /\ Running
    BY DEF IInv, TypeOK, Check, Running
<1>2. UNCHANGED <<mode, upstream, queue, quiet, burst, slow>>
    BY DEF Check
<1>3. CASE Stalled /\ Over("watchdog") /\ Sees(0)
    BY <1>1, <1>2, <1>3, WatchdogIInv
<1>4. CASE /\ mode = "pass" /\ ~Stalled /\ UNCHANGED <<client, ended>>
           /\ bridge' = [bridge EXCEPT !.pc = "wait", !.timer = Least(Heartbeat, Threshold - bridge.progress)]
    <2>1. Heartbeat \in Nat /\ Heartbeat <= Heartbeat
        BY BridgeAssumptions
    <2>2. QED
        BY <1>1, <1>2, <1>4, <2>1, WaitIInv
<1>5. CASE /\ mode = "collapse" /\ bridge.yielded < Heartbeat /\ ~Stalled /\ UNCHANGED <<client, ended>>
           /\ bridge' = [bridge EXCEPT !.pc = "wait",
                            !.timer = Least(HeartbeatRemaining, Threshold - bridge.progress)]
    <2>1. /\ HeartbeatRemaining \in Nat /\ HeartbeatRemaining + bridge.yielded <= Heartbeat
          /\ HeartbeatRemaining <= Heartbeat
        BY <1>1, <1>5, BridgeAssumptions DEF HeartbeatRemaining, Bridge, Time
    <2>2. QED
        BY <1>1, <1>2, <1>5, <2>1, WaitIInv
<1>6. CASE bridge' = [bridge EXCEPT !.pc = "yield"] /\ SendHeartbeat /\ UNCHANGED ended
    BY <1>1, <1>2, <1>6, HeartbeatIInv
<1>7. QED
    BY <1>3, <1>4, <1>5, <1>6 DEF Check

LEMMA TimeoutIInv == IInv /\ Timeout => IInv'
    BY HeartbeatIInv DEF Timeout, Running

\* In collapse mode last_yield_at is set anew.
LEMMA ResumeIInv == IInv /\ Resume => IInv'
<1> SUFFICES ASSUME IInv, Resume
             PROVE  IInv'
    OBVIOUS
<1>1. /\ TypeOK /\ bridge \in Bridge /\ client \in Client /\ Running /\ bridge.pc = "yield"
      /\ UNCHANGED <<mode, upstream, queue, client, ended, quiet, burst, slow>>
      /\ mode \in {"pass", "collapse"}
    BY DEF IInv, TypeOK, Running, Resume
<1> DEFINE y == IF mode = "collapse" THEN 0 ELSE bridge.yielded
<1>2. y \in Time
    BY <1>1, ZeroIsTime DEF Bridge
<1>3. bridge' = [bridge EXCEPT !.pc = "check", !.yielded = y]
    BY DEF Resume
<1> HIDE DEF y
<1>4. /\ bridge' \in Bridge /\ bridge'.pc = "check" /\ bridge'.yielded = y
      /\ bridge'.progress = bridge.progress
    BY <1>1, <1>2, <1>3 DEF Bridge
<1>5. TypeOK'
    BY <1>1, <1>4 DEF TypeOK
<1>6. Hearing'
    BY <1>1, <1>2, <1>4 DEF IInv, Hearing, y, Time
<1>7. Boundary' /\ EndedIsOver' /\ Agreeing' /\ EofIsLast' /\ ErrorIsQueued'
    BY <1>1, <1>4 DEF IInv, Boundary, EndedIsOver, Agreeing, HasProgress, EofIsLast, ErrorIsQueued, Running
<1>8. BodyIsComplete' /\ WatchdogIsRightInTime'
    BY <1>1 DEF IInv, EndedIsOver, BodyIsComplete, WatchdogIsRightInTime, WatchdogIsRight, None
<1>9. QED
    BY <1>5, <1>6, <1>7, <1>8 DEF IInv

-----------------------------------------------------------------------------
(* Steps that take an item from the queue.                                 *)

\* What every such step does.
LEMMA TakesProperties ==
    ASSUME IInv, NEW type, Takes(type)
    PROVE  /\ TypeOK /\ Running /\ bridge.pc = "wait" /\ ended = None
           /\ bridge \in Bridge /\ client \in Client /\ mode \in {"pass", "collapse"}
           /\ Head(queue) \in Item /\ Head(queue).type = type
           /\ UNCHANGED <<mode, upstream, quiet, burst, slow>>
           /\ queue' \in Seq(Item)
           /\ EofIsLast'
           /\ type = "eof" => queue' = <<>> /\ Len(queue) = 1 /\ upstream.state # "open"
           /\ HasProgress(queue) <=> IsProgress(Head(queue)) \/ HasProgress(queue')
           /\ mode = "collapse" /\ upstream.state \in {"stall", "reset"} =>
                 \/ type = "error" /\ Head(queue).of = upstream.state
                 \/ /\ Len(queue') > 1
                    /\ queue'[Len(queue') - 1].type = "error"
                    /\ queue'[Len(queue') - 1].of = upstream.state
<1>1. /\ TypeOK /\ Running /\ bridge.pc = "wait"
      /\ queue \in Seq(Item) /\ queue # <<>>
      /\ bridge \in Bridge /\ client \in Client /\ mode \in {"pass", "collapse"}
      /\ Head(queue).type = type /\ queue' = Tail(queue)
      /\ UNCHANGED <<mode, upstream, quiet, burst, slow>>
    BY DEF IInv, TypeOK, Takes, Running
<1>2. ended = None
    BY <1>1 DEF IInv, EndedIsOver
<1>3. /\ Head(queue) \in Item /\ Head(queue) = queue[1]
      /\ queue' \in Seq(Item)
      /\ Len(queue) \in Nat \ {0} /\ Len(queue') = Len(queue) - 1
      /\ \A i \in 1..Len(queue') : queue'[i] = queue[i + 1]
    BY <1>1, TailProperties
<1>9. /\ \A i \in 1..Len(queue) : queue[i].type = "eof" => i = Len(queue) /\ upstream.state # "open"
      /\ upstream' = upstream
    BY <1>1 DEF IInv, EofIsLast
<1>4. EofIsLast'
    <2>1. ASSUME NEW i \in 1..Len(queue'), queue'[i].type = "eof"
          PROVE  i = Len(queue') /\ upstream'.state # "open"
        <3>1. i + 1 \in 1..Len(queue) /\ queue[i + 1].type = "eof"
            BY <1>3, <2>1
        <3>2. i + 1 = Len(queue) /\ upstream.state # "open"
            BY <1>9, <3>1
        <3>3. QED
            BY <1>3, <1>9, <3>2
    <2>2. QED
        BY <2>1 DEF EofIsLast
<1>5. ASSUME type = "eof"
      PROVE  queue' = <<>> /\ Len(queue) = 1 /\ upstream.state # "open"
    <2>1. Len(queue) = 1 /\ upstream.state # "open"
        <3>1. 1 \in 1..Len(queue) /\ queue[1].type = "eof"
            BY <1>1, <1>3, <1>5
        <3>2. QED
            BY <1>9, <3>1
    <2>2. Len(queue') = 0
        BY <1>3, <2>1
    <2>3. queue' = <<>>
        BY <1>3, <2>2
    <2>4. QED
        BY <2>1, <2>3
<1>6. HasProgress(queue) <=> IsProgress(Head(queue)) \/ HasProgress(queue')
    <2>1. ASSUME NEW i \in 1..Len(queue), IsProgress(queue[i])
          PROVE  IsProgress(Head(queue)) \/ HasProgress(queue')
        <3>1. i # 1 => i - 1 \in 1..Len(queue') /\ queue'[i - 1] = queue[i]
            BY <1>3
        <3>2. QED
            BY <1>3, <2>1, <3>1 DEF HasProgress
    <2>2. ASSUME NEW i \in 1..Len(queue'), IsProgress(queue'[i])
          PROVE  HasProgress(queue)
        <3>1. i + 1 \in 1..Len(queue) /\ queue'[i] = queue[i + 1]
            BY <1>3
        <3>2. QED
            BY <2>2, <3>1 DEF HasProgress
    <2>3. IsProgress(Head(queue)) => HasProgress(queue)
        BY <1>3 DEF HasProgress
    <2>4. QED
        BY <2>1, <2>2, <2>3 DEF HasProgress
<1>7. ASSUME mode = "collapse", upstream.state \in {"stall", "reset"}
      PROVE  \/ type = "error" /\ Head(queue).of = upstream.state
             \/ /\ Len(queue') > 1
                /\ queue'[Len(queue') - 1].type = "error"
                /\ queue'[Len(queue') - 1].of = upstream.state
    <2>1. /\ Len(queue) > 1
          /\ queue[Len(queue) - 1].type = "error"
          /\ queue[Len(queue) - 1].of = upstream.state
        BY <1>1, <1>7 DEF IInv, ErrorIsQueued
    <2>2. CASE Len(queue) = 2
        BY <1>1, <1>3, <2>1, <2>2
    <2>3. CASE Len(queue) > 2
        <3>1. Len(queue') - 1 \in 1..Len(queue')
            BY <1>3, <2>3
        <3>2. queue'[Len(queue') - 1] = queue[Len(queue) - 1]
            BY <1>3, <3>1
        <3>3. QED
            BY <1>3, <2>1, <2>3, <3>2
    <2>4. QED
        BY <1>3, <2>1, <2>2, <2>3
<1>8. QED
    BY <1>1, <1>2, <1>3, <1>4, <1>5, <1>6, <1>7

\* What is left to show of a step after which the generator goes on.
LEMMA GoesOn ==
    ASSUME IInv, NEW type \in {"chunk", "other", "error"}, Takes(type), UNCHANGED ended,
           bridge' \in Bridge, bridge'.pc \in {"check", "yield"}, client' \in Client,
           bridge'.yielded = bridge.yielded,
           IF IsProgress(Head(queue)) THEN bridge'.progress = 0
                                      ELSE bridge'.progress = bridge.progress,
           \/ bridge'.pc = "yield" /\ client'.idle = 0 /\ (mode = "pass" => client'.mid = FALSE)
           \/ /\ bridge'.pc = "check" /\ client'.idle = client.idle /\ client'.mid = client.mid
              /\ mode = "pass" => client'.withheld = TRUE,
           client'.broken = client.broken,
           type = "error" => mode = "pass" \/ Head(queue).of = "timeout"
    PROVE  IInv'
<1>1. /\ TypeOK /\ Running /\ bridge.pc = "wait" /\ ended = None
      /\ bridge \in Bridge /\ client \in Client /\ mode \in {"pass", "collapse"}
      /\ UNCHANGED <<mode, upstream, quiet, burst, slow>>
      /\ queue' \in Seq(Item)
      /\ EofIsLast'
    BY TakesProperties
<1>2. TypeOK'
    BY <1>1 DEF TypeOK
<1>3. Boundary' /\ EndedIsOver'
    BY <1>1 DEF IInv, Boundary, EndedIsOver, Running
<1>4. Hearing'
    <2>1. client.idle \in Nat /\ bridge.timer \in Nat /\ bridge.yielded \in Nat
        BY <1>1 DEF Client, Bridge, Time
    <2>2. ~slow /\ mode = "collapse" => client.idle <= bridge.yielded /\ client.idle <= Heartbeat
        BY <1>1, <2>1, BridgeAssumptions DEF IInv, Hearing
    <2>3. QED
        BY <1>1, <2>1, <2>2, BridgeAssumptions DEF Hearing
<1>5. Agreeing'
    <2> SUFFICES ASSUME ~slow
                 PROVE  /\ HasProgress(queue') => quiet = 0
                        /\ ~HasProgress(queue') => quiet = bridge'.progress
        BY <1>1 DEF Agreeing, HasProgress
    <2>1. /\ HasProgress(queue) => quiet = 0
          /\ ~HasProgress(queue) => quiet = bridge.progress
        BY <1>1 DEF IInv, Agreeing
    <2>2. /\ HasProgress(queue') => HasProgress(queue)
          /\ IsProgress(Head(queue)) => HasProgress(queue)
          /\ HasProgress(queue) => IsProgress(Head(queue)) \/ HasProgress(queue')
        BY TakesProperties
    <2>3. QED
        BY <2>1, <2>2
<1>6. ErrorIsQueued'
    BY <1>1, TakesProperties DEF ErrorIsQueued
<1>7. BodyIsComplete' /\ WatchdogIsRightInTime'
    BY <1>1 DEF BodyIsComplete, WatchdogIsRightInTime, WatchdogIsRight, None
<1>8. QED
    BY <1>1, <1>2, <1>3, <1>4, <1>5, <1>6, <1>7 DEF IInv

\* What the buffer is set to does not matter to the invariant.
LEMMA BufferProperties ==
    ASSUME NEW b \in Bridge, NEW p \in {"check", "yield"}, NEW h \in Nat, NEW o \in Events \cup {None},
           bridge' = [b EXCEPT !.pc = p, !.held = h, !.opens = o]
    PROVE  /\ bridge' \in Bridge /\ bridge'.pc = p
           /\ bridge'.yielded = b.yielded /\ bridge'.progress = b.progress
    BY DEF Bridge

LEMMA TakeChunkIInv == IInv /\ TakeChunk => IInv'
<1> SUFFICES ASSUME IInv, TakeChunk
             PROVE  IInv'
    OBVIOUS
<1> DEFINE c == Head(queue)
           w == Watch(bridge, c)
<1>1. Takes("chunk") /\ UNCHANGED ended
    BY DEF TakeChunk
<1>2. /\ TypeOK /\ bridge \in Bridge /\ client \in Client /\ mode \in {"pass", "collapse"}
      /\ c \in Item /\ c.type = "chunk"
    BY <1>1, TakesProperties
<1>3. c \in Chunk /\ c.opens \in Events \cup {None} /\ Before(c) \in Nat /\ After(c) \in Nat
    BY <1>2, ChunkProperties, PiecesAreNat
<1>4. /\ w \in Bridge /\ w.yielded = bridge.yielded
      /\ w.progress = IF Progress(c) THEN 0 ELSE bridge.progress
    BY <1>2, <1>3, WatchProperties
<1>5. IF IsProgress(c) THEN w.progress = 0 ELSE w.progress = bridge.progress
    BY <1>2, <1>4 DEF IsProgress
<1>6. bridge.held \in Nat
    BY <1>2 DEF Bridge
<1>7. \/ mode = "pass" /\ PassEvents(c)
      \/ /\ mode = "collapse"
         /\ bridge' = [w EXCEPT !.pc = "check", !.held = @ + Before(c) + After(c), !.opens = c.opens]
         /\ client' = [client EXCEPT !.withheld = TRUE]
    BY DEF TakeChunk
<1>8. w.held = bridge.held
    BY <1>2, <1>3, WatchProperties
<1>9. ASSUME NEW h \in Nat, NEW g \in Nat,
             bridge' = [w EXCEPT !.pc = "check", !.held = h, !.opens = c.opens],
             client' = [client EXCEPT !.withheld = TRUE, !.got = g]
      PROVE  IInv'
    <2>1. /\ bridge' \in Bridge /\ bridge'.pc = "check"
          /\ bridge'.yielded = w.yielded /\ bridge'.progress = w.progress
        BY <1>3, <1>4, <1>9, BufferProperties
    <2>2. /\ client' \in Client /\ client'.idle = client.idle /\ client'.mid = client.mid
          /\ client'.broken = client.broken /\ client'.withheld = TRUE
        BY <1>2, <1>9 DEF Client
    <2>3. QED
        BY <1>1, <1>4, <1>5, <2>1, <2>2, GoesOn
<1>10. ASSUME NEW h \in Nat, NEW n \in Nat,
              bridge' = [w EXCEPT !.pc = "yield", !.held = h, !.opens = c.opens], Sees(n)
       PROVE  IInv'
    <2>1. /\ bridge' \in Bridge /\ bridge'.pc = "yield"
          /\ bridge'.yielded = w.yielded /\ bridge'.progress = w.progress
        BY <1>3, <1>4, <1>10, BufferProperties
    <2>2. /\ client' \in Client /\ client'.idle = 0 /\ client'.mid = FALSE
          /\ client'.broken = client.broken
        BY <1>2, <1>10, SeesProperties
    <2>3. QED
        BY <1>1, <1>4, <1>5, <2>1, <2>2, GoesOn
<1> HIDE DEF c, w
<1>11. CASE mode = "pass" /\ PassEvents(c) /\ c.closes \in {None, "done"}
    <2> DEFINE h == IF c.closes = None THEN w.held + After(c) ELSE After(c)
               g == IF c.closes = None THEN client.got ELSE client.got + bridge.held + Before(c)
    <2>1. h \in Nat /\ g \in Nat
        BY <1>2, <1>3, <1>6, <1>8 DEF Client
    <2>2. /\ bridge' = [w EXCEPT !.pc = "check", !.held = h, !.opens = c.opens]
          /\ client' = [client EXCEPT !.withheld = TRUE, !.got = g]
        BY <1>4, <1>11 DEF PassEvents, w, Bridge
    <2> HIDE DEF h, g
    <2>3. QED
        BY <1>9, <2>1, <2>2
<1>12. CASE mode = "pass" /\ PassEvents(c) /\ c.closes \notin {None, "done"}
    <2>1. /\ bridge' = [w EXCEPT !.pc = "yield", !.held = After(c), !.opens = c.opens]
          /\ Sees(bridge.held + Before(c))
        BY <1>12 DEF PassEvents, w
    <2>2. bridge.held + Before(c) \in Nat
        BY <1>3, <1>6
    <2>3. QED
        BY <1>3, <1>10, <2>1, <2>2
<1>13. CASE /\ mode = "collapse"
            /\ bridge' = [w EXCEPT !.pc = "check", !.held = @ + Before(c) + After(c), !.opens = c.opens]
            /\ client' = [client EXCEPT !.withheld = TRUE]
    <2>1. bridge.held + Before(c) + After(c) \in Nat /\ client.got \in Nat
        BY <1>2, <1>3, <1>6 DEF Client
    <2>2. bridge' = [w EXCEPT !.pc = "check", !.held = bridge.held + Before(c) + After(c), !.opens = c.opens]
        BY <1>4, <1>8, <1>13 DEF Bridge
    <2>3. client' = [client EXCEPT !.withheld = TRUE, !.got = client.got]
        BY <1>2, <1>13 DEF Client
    <2>4. QED
        BY <1>9, <2>1, <2>2, <2>3
<1>14. QED
    BY <1>7, <1>11, <1>12, <1>13

LEMMA TakeOtherIInv == IInv /\ TakeOther => IInv'
<1> SUFFICES ASSUME IInv, TakeOther
             PROVE  IInv'
    OBVIOUS
<1>1. Takes("other") /\ UNCHANGED ended
    BY DEF TakeOther
<1>2. /\ TypeOK /\ bridge \in Bridge /\ client \in Client /\ mode \in {"pass", "collapse"}
      /\ ~IsProgress(Head(queue))
    BY <1>1, TakesProperties DEF IsProgress
<1>3. CASE mode = "pass"
    <2>1. /\ bridge' = [bridge EXCEPT !.pc = "yield", !.held = 0, !.opens = None]
          /\ Sees(bridge.held) /\ bridge.held \in Nat
        BY <1>2, <1>3 DEF TakeOther, Bridge
    <2>2. /\ bridge' \in Bridge /\ bridge'.pc = "yield"
          /\ bridge'.yielded = bridge.yielded /\ bridge'.progress = bridge.progress
        BY <1>2, <2>1, BufferProperties
    <2>3. /\ client' \in Client /\ client'.idle = 0 /\ client'.mid = FALSE
          /\ client'.broken = client.broken
        BY <1>2, <2>1, SeesProperties
    <2>4. QED
        BY <1>1, <1>2, <2>2, <2>3, GoesOn
<1>4. CASE mode = "collapse"
    <2>1. bridge' = [bridge EXCEPT !.pc = "check"] /\ UNCHANGED client
        BY <1>4 DEF TakeOther
    <2>2. /\ bridge' \in Bridge /\ bridge'.pc = "check"
          /\ bridge'.yielded = bridge.yielded /\ bridge'.progress = bridge.progress
        BY <1>2, <2>1 DEF Bridge
    <2>3. QED
        BY <1>1, <1>2, <1>4, <2>1, <2>2, GoesOn
<1>5. QED
    BY <1>2, <1>3, <1>4

\* What is left to show of a step that ends the response.
LEMMA Stops ==
    ASSUME IInv, NEW type, Takes(type), client' \in Client, client'.broken = client.broken,
           NEW how \in {"clean", "raised", "stall", "assembled", "synthetic"}, Over(how),
           how = "assembled" => upstream.state \in {"closed", "timeout"}
    PROVE  IInv'
<1>1. /\ TypeOK /\ bridge \in Bridge /\ client \in Client
      /\ UNCHANGED <<mode, upstream, quiet, burst, slow>>
      /\ queue' \in Seq(Item)
      /\ EofIsLast'
    BY TakesProperties
<1>2. bridge' \in Bridge /\ bridge'.pc = "over" /\ ended' = how /\ ~Running'
    BY <1>1, OverProperties DEF Running
<1>3. TypeOK'
    BY <1>1, <1>2 DEF TypeOK
<1>4. Boundary' /\ EndedIsOver' /\ Hearing' /\ Agreeing' /\ ErrorIsQueued'
    BY <1>2 DEF IInv, Boundary, EndedIsOver, Hearing, Agreeing, ErrorIsQueued
<1>5. BodyIsComplete' /\ WatchdogIsRightInTime'
    BY <1>1, <1>2 DEF BodyIsComplete, WatchdogIsRightInTime, WatchdogIsRight
<1>6. QED
    BY <1>1, <1>3, <1>4, <1>5 DEF IInv

\* If the upstream had failed, its error would have been taken before the end.
LEMMA TakeEofIInv == IInv /\ TakeEof => IInv'
<1> SUFFICES ASSUME IInv, TakeEof
             PROVE  IInv'
    OBVIOUS
<1>1. Takes("eof")
    BY DEF TakeEof
<1>2. /\ TypeOK /\ bridge \in Bridge /\ client \in Client
      /\ queue' = <<>> /\ upstream.state # "open"
      /\ mode = "collapse" => upstream.state \notin {"stall", "reset"}
    BY <1>1, TakesProperties
<1>3. CASE mode = "pass" /\ Flush /\ Over("clean")
    BY <1>1, <1>2, <1>3, FlushProperties, Stops
<1>4. CASE mode = "collapse" /\ Sees(bridge.held) /\ Over("assembled")
    <2>1. bridge.held \in Nat
        BY <1>2 DEF Bridge
    <2>2. client' \in Client /\ client'.broken = client.broken
        BY <1>2, <1>4, <2>1, SeesProperties
    <2>3. upstream.state \in {"closed", "timeout"}
        BY <1>2, <1>4 DEF TypeOK, AllErrors
    <2>4. QED
        BY <1>1, <1>4, <2>2, <2>3, Stops
<1>5. CASE Sees(0) /\ Over("synthetic")
    BY <1>1, <1>2, <1>5, SeesProperties, Stops
<1>6. QED
    BY <1>3, <1>4, <1>5 DEF TakeEof

LEMMA TakeErrorIInv == IInv /\ TakeError => IInv'
<1> SUFFICES ASSUME IInv, TakeError
             PROVE  IInv'
    OBVIOUS
<1> DEFINE e == Head(queue).of
<1>1. Takes("error")
    BY DEF TakeError
<1>2. /\ TypeOK /\ bridge \in Bridge /\ client \in Client /\ ~IsProgress(Head(queue))
    BY <1>1, TakesProperties DEF IsProgress
<1> HIDE DEF e
<1>3. CASE Flush /\ Over(IF e = "reset" THEN "raised" ELSE "stall")
    <2>1. client' \in Client /\ client'.broken = client.broken
        BY <1>2, <1>3, FlushProperties
    <2>2. CASE e = "reset"
        BY <1>1, <1>3, <2>1, <2>2, Stops
    <2>3. CASE e # "reset"
        BY <1>1, <1>3, <2>1, <2>3, Stops
    <2>4. QED
        BY <2>2, <2>3
<1>4. CASE Sees(0) /\ Over("synthetic")
    BY <1>1, <1>2, <1>4, SeesProperties, Stops
<1>5. CASE /\ mode = "collapse" /\ TakenForWait(e)
           /\ bridge' = [bridge EXCEPT !.pc = "yield"] /\ SendHeartbeat /\ UNCHANGED ended
    <2>1. /\ client' \in Client /\ client'.idle = 0
          /\ client'.broken = (client.broken \/ (mode = "pass" /\ client.mid))
        BY <1>2, <1>5, SendHeartbeatProperties
    <2>2. client'.broken = client.broken /\ client.broken = FALSE
        BY <1>5, <2>1 DEF IInv, Boundary
    <2>3. /\ bridge' \in Bridge /\ bridge'.pc = "yield"
          /\ bridge'.yielded = bridge.yielded /\ bridge'.progress = bridge.progress
        BY <1>2, <1>5 DEF Bridge
    <2>4. Head(queue).of = "timeout"
        BY <1>5 DEF TakenForWait, e
    <2>5. QED
        BY <1>1, <1>2, <1>5, <2>1, <2>2, <2>3, <2>4, GoesOn
<1>6. QED
    BY <1>3, <1>4, <1>5 DEF TakeError, e

-----------------------------------------------------------------------------
(* The client and time.                                                    *)

LEMMA ClientGoneIInv == IInv /\ ClientGone => IInv'
<1> SUFFICES ASSUME IInv, ClientGone
             PROVE  IInv'
    OBVIOUS
<1>1. TypeOK /\ bridge \in Bridge /\ UNCHANGED <<mode, upstream, queue, client, quiet, burst, slow>>
    BY DEF IInv, TypeOK, ClientGone
<1>2. bridge' \in Bridge /\ bridge'.pc = "over" /\ ended' = "gone" /\ ~Running'
    BY <1>1, OverProperties DEF ClientGone, Running
<1>3. TypeOK'
    BY <1>1, <1>2 DEF TypeOK
<1>4. Boundary' /\ EndedIsOver' /\ Hearing' /\ Agreeing' /\ ErrorIsQueued'
    BY <1>1, <1>2 DEF IInv, Boundary, EndedIsOver, Hearing, Agreeing, ErrorIsQueued
<1>5. EofIsLast' /\ BodyIsComplete' /\ WatchdogIsRightInTime'
    BY <1>1, <1>2 DEF IInv, EofIsLast, BodyIsComplete, WatchdogIsRightInTime, WatchdogIsRight
<1>6. QED
    BY <1>3, <1>4, <1>5 DEF IInv

\* Both clocks of a pair are moved on by the same tick.
LEMMA TickIInv == IInv /\ Tick => IInv'
<1> SUFFICES ASSUME IInv, Tick
             PROVE  IInv'
    OBVIOUS
<1>1. /\ TypeOK /\ bridge \in Bridge /\ client \in Client /\ mode \in {"pass", "collapse"}
      /\ UNCHANGED <<mode, upstream, queue, ended>> /\ burst' = 0
      /\ quiet \in Time /\ quiet' = Later(quiet)
      /\ bridge.pc \in {"wait", "yield"} /\ Running
    BY DEF IInv, TypeOK, Tick, Running
<1>2. /\ client' \in Client /\ client'.idle = Later(client.idle) /\ client'.mid = client.mid
      /\ client'.broken = client.broken /\ client'.withheld = client.withheld
      /\ client.idle \in Time
    <2>1. client.idle \in Time /\ Later(client.idle) \in Time
        BY <1>1, LaterProperties DEF Client
    <2>2. client' = [client EXCEPT !.idle = Later(client.idle)]
        BY <1>1 DEF Tick, Client
    <2>3. QED
        BY <1>1, <2>1, <2>2 DEF Client
<1> DEFINE y == IF mode = "collapse" THEN Later(bridge.yielded) ELSE bridge.yielded
           t == IF bridge.pc = "wait" THEN bridge.timer - 1 ELSE bridge.timer
<1>3. /\ bridge.progress \in Time /\ bridge.yielded \in Time /\ bridge.timer \in Time
      /\ bridge.pc = "wait" => bridge.timer > 0 /\ queue = <<>> /\ slow' = slow
      /\ bridge.pc = "yield" => slow' = TRUE
    BY <1>1 DEF Bridge, Tick
<1>4. Later(bridge.progress) \in Time /\ y \in Time /\ t \in Time
    <2>1. Later(bridge.progress) \in Time /\ Later(bridge.yielded) \in Time
        BY <1>3, LaterProperties
    <2>2. bridge.timer > 0 => bridge.timer - 1 \in Time
        BY <1>3, BridgeAssumptions DEF Time
    <2>3. QED
        BY <1>3, <2>1, <2>2
<1>5. bridge' = [bridge EXCEPT !.progress = Later(bridge.progress), !.yielded = y, !.timer = t]
    BY <1>1 DEF Tick, Bridge
<1> HIDE DEF y, t
<1>6. /\ bridge' \in Bridge /\ bridge'.progress = Later(bridge.progress)
      /\ bridge'.yielded = y /\ bridge'.timer = t /\ bridge'.pc = bridge.pc
    BY <1>1, <1>4, <1>5 DEF Bridge
<1>7. TypeOK'
    <2>1. quiet' \in Time /\ burst' \in 0..MaxBurst
        BY <1>1, LaterProperties, BridgeAssumptions
    <2>2. slow' \in BOOLEAN
        BY <1>1, <1>3 DEF TypeOK
    <2>3. QED
        BY <1>1, <1>2, <1>6, <2>1, <2>2 DEF TypeOK
<1>8. Boundary' /\ EndedIsOver' /\ EofIsLast' /\ ErrorIsQueued'
    BY <1>1, <1>2, <1>6 DEF IInv, Boundary, EndedIsOver, EofIsLast, ErrorIsQueued, Running
<1>9. Hearing' /\ Agreeing'
    <2>1. CASE bridge.pc = "yield"
        BY <1>3, <2>1 DEF Hearing, Agreeing
    <2>2. CASE bridge.pc = "wait"
        <3> SUFFICES ASSUME ~slow
                     PROVE  Hearing' /\ Agreeing'
            BY <1>3, <2>2 DEF Hearing, Agreeing
        <3>1. /\ mode = "collapse" => client.idle <= bridge.yielded
              /\ mode = "collapse" \/ ~client.withheld => client.idle + bridge.timer <= Heartbeat
            BY <1>1, <2>2 DEF IInv, Hearing
        <3>2. mode = "collapse" => Later(client.idle) <= y
            BY <1>2, <1>3, <3>1, LaterMonotone DEF y
        <3>3. /\ Later(client.idle) \in Time /\ Later(client.idle) <= client.idle + 1
              /\ t = bridge.timer - 1
            BY <1>2, <2>2, LaterProperties DEF t
        <3>4. mode = "collapse" \/ ~client.withheld => Later(client.idle) + t <= Heartbeat
            BY <1>2, <1>3, <3>1, <3>3, BridgeAssumptions DEF Time
        <3>5. Hearing'
            BY <1>1, <1>2, <1>6, <2>2, <3>2, <3>4 DEF Hearing
        <3>6. quiet = bridge.progress
            BY <1>1, <1>3, <2>2 DEF IInv, Agreeing, HasProgress
        <3>7. Agreeing'
            BY <1>1, <1>3, <1>6, <2>2, <3>6 DEF Agreeing, HasProgress
        <3>8. QED
            BY <3>5, <3>7
    <2>3. QED
        BY <1>1, <2>1, <2>2
<1>10. BodyIsComplete' /\ WatchdogIsRightInTime'
    BY <1>1 DEF IInv, EndedIsOver, BodyIsComplete, WatchdogIsRightInTime, WatchdogIsRight, None
<1>11. QED
    BY <1>7, <1>8, <1>9, <1>10 DEF IInv

LEMMA StutterIInv == IInv /\ UNCHANGED vars => IInv'
    BY DEF IInv, TypeOK, Boundary, EndedIsOver, Hearing, Agreeing, HasProgress, EofIsLast, ErrorIsQueued,
           BodyIsComplete, WatchdogIsRightInTime, WatchdogIsRight, Threshold, Running, vars

LEMMA StepIInv == IInv /\ [Next]_vars => IInv'
    BY UpstreamIInv, CheckIInv, TimeoutIInv, ResumeIInv, TakeChunkIInv, TakeOtherIInv, TakeEofIInv,
       TakeErrorIInv, ClientGoneIInv, TickIInv, StutterIInv DEF Next, Generator

LEMMA SpecIInv == Spec => []IInv
<1>1. QED
    BY InitIInv, StepIInv, PTL DEF Spec

-----------------------------------------------------------------------------
(* Where every piece is.  The sum of the pieces in the queue is the last   *)
(* of its partial sums, which the invariant has as a witness: the pieces   *)
(* that the client and the buffer have are the first of them, all that the *)
(* upstream has sent the last.                                             *)

Pieces(e) == IF e.type = "chunk" THEN Before(e) + After(e) ELSE 0

\* The pieces in q, added to those in from, are those in to.
Ledger(q, from, to) ==
    \E f \in [0..Len(q) -> Nat] :
        /\ f[0] = from /\ f[Len(q)] = to
        /\ \A i \in 1..Len(q) : f[i] = f[i - 1] + Pieces(q[i])

Accounted == Running => Ledger(queue, client.got + bridge.held, upstream.got)

ErrorThenEof ==
    \A i \in 1..Len(queue) :
        queue[i].type = "error" => i = Len(queue) - 1 /\ queue[Len(queue)].type = "eof"

LInv == IInv /\ ErrorThenEof /\ Accounted /\ NothingLost

LEMMA PiecesType ==
    ASSUME NEW e \in Item
    PROVE  Pieces(e) \in Nat
    BY ChunkProperties, PiecesAreNat DEF Pieces

LEMMA AppendLedger ==
    ASSUME NEW q \in Seq(Item), NEW e \in Item, NEW from, NEW to, Ledger(q, from, to)
    PROVE  Ledger(Append(q, e), from, to + Pieces(e))
<1>1. PICK f \in [0..Len(q) -> Nat] :
        /\ f[0] = from /\ f[Len(q)] = to
        /\ \A i \in 1..Len(q) : f[i] = f[i - 1] + Pieces(q[i])
    BY DEF Ledger
<1> DEFINE r == Append(q, e)
           g == [i \in 0..Len(r) |-> IF i = Len(r) THEN to + Pieces(e) ELSE f[i]]
<1>2. /\ Len(q) \in Nat /\ Len(r) = Len(q) + 1 /\ r[Len(q) + 1] = e
      /\ \A i \in 1..Len(q) : r[i] = q[i]
    BY AppendProperties
<1>3. to \in Nat /\ Pieces(e) \in Nat
    BY <1>1, <1>2, PiecesType
<1> HIDE DEF r
<1>4. g \in [0..Len(r) -> Nat] /\ g[0] = from /\ g[Len(r)] = to + Pieces(e)
    BY <1>1, <1>2, <1>3
<1>5. ASSUME NEW i \in 1..Len(r)
      PROVE  g[i] = g[i - 1] + Pieces(r[i])
    <2>1. CASE i = Len(r)
        BY <1>1, <1>2, <2>1
    <2>2. CASE i # Len(r)
        <3>1. i \in 1..Len(q) /\ i \in 0..Len(r) /\ i - 1 \in 0..Len(r) /\ i - 1 # Len(r)
            BY <1>2, <2>2
        <3>2. QED
            BY <1>1, <1>2, <2>2, <3>1
    <2>3. QED
        BY <2>1, <2>2
<1> HIDE DEF g
<1>6. QED
    BY <1>4, <1>5 DEF Ledger, r

LEMMA TailLedger ==
    ASSUME NEW q \in Seq(Item), q # <<>>, NEW from, NEW to, Ledger(q, from, to)
    PROVE  Ledger(Tail(q), from + Pieces(Head(q)), to)
<1>1. PICK f \in [0..Len(q) -> Nat] :
        /\ f[0] = from /\ f[Len(q)] = to
        /\ \A i \in 1..Len(q) : f[i] = f[i - 1] + Pieces(q[i])
    BY DEF Ledger
<1> DEFINE r == Tail(q)
           g == [i \in 0..Len(r) |-> f[i + 1]]
<1>2. /\ Len(q) \in Nat \ {0} /\ Len(r) = Len(q) - 1 /\ Head(q) = q[1]
      /\ \A i \in 1..Len(r) : r[i] = q[i + 1]
    BY TailProperties
<1> HIDE DEF r
<1>3. \A i \in 0..Len(r) : i + 1 \in 1..Len(q) /\ i + 1 \in 0..Len(q)
    BY <1>2
<1>4. g \in [0..Len(r) -> Nat] /\ g[Len(r)] = to
    BY <1>1, <1>2, <1>3
<1>5. g[0] = from + Pieces(Head(q))
    BY <1>1, <1>2, <1>3
<1>6. ASSUME NEW i \in 1..Len(r)
      PROVE  g[i] = g[i - 1] + Pieces(r[i])
    <2>1. i \in 0..Len(r) /\ i - 1 \in 0..Len(r) /\ i + 1 \in 1..Len(q) /\ (i + 1) - 1 = (i - 1) + 1
        BY <1>2
    <2>2. g[i] = f[i + 1] /\ g[i - 1] = f[(i - 1) + 1]
        BY <2>1
    <2>3. QED
        BY <1>1, <1>2, <2>1, <2>2
<1> HIDE DEF g
<1>7. QED
    BY <1>4, <1>5, <1>6 DEF Ledger, r

\* Nothing is left in a queue in which no event is.
LEMMA LastLedger ==
    ASSUME NEW q \in Seq(Item), NEW from, NEW to, Ledger(q, from, to),
           \/ Len(q) = 1 /\ q[1].type = "eof"
           \/ Len(q) = 2 /\ q[1].type = "error" /\ q[2].type = "eof"
    PROVE  from = to
<1>1. PICK f \in [0..Len(q) -> Nat] :
        /\ f[0] = from /\ f[Len(q)] = to
        /\ \A i \in 1..Len(q) : f[i] = f[i - 1] + Pieces(q[i])
    BY DEF Ledger
<1>2. CASE Len(q) = 1 /\ q[1].type = "eof"
    BY <1>1, <1>2 DEF Pieces
<1>3. CASE Len(q) = 2 /\ q[1].type = "error" /\ q[2].type = "eof"
    <2>1. f[1] = f[0] + 0 /\ f[2] = f[1] + 0 /\ f[0] \in Nat
        BY <1>1, <1>3 DEF Pieces
    <2>2. QED
        BY <1>1, <1>3, <2>1
<1>4. QED
    BY <1>2, <1>3

LEMMA InitLInv == Init => LInv
<1> SUFFICES ASSUME Init
             PROVE  LInv
    OBVIOUS
<1>1. queue = <<>> /\ client.got + bridge.held = 0 /\ upstream.got = 0 /\ ended = None
    BY DEF Init
<1>2. Ledger(queue, 0, 0)
    <2> DEFINE f == [i \in 0..0 |-> 0]
    <2>1. f \in [0..Len(queue) -> Nat] /\ f[0] = 0 /\ Len(queue) = 0
        BY <1>1
    <2> HIDE DEF f
    <2>2. QED
        BY <2>1 DEF Ledger
<1>3. Accounted
    BY <1>1, <1>2 DEF Accounted
<1>4. ErrorThenEof /\ NothingLost
    BY <1>1 DEF ErrorThenEof, NothingLost, None
<1>5. QED
    BY InitIInv, <1>3, <1>4 DEF LInv

\* The upstream: what it sends is in the queue.
LEMMA UpstreamLInv == LInv /\ Upstream => ErrorThenEof' /\ Accounted' /\ NothingLost'
<1> SUFFICES ASSUME LInv, Upstream
             PROVE  ErrorThenEof' /\ Accounted' /\ NothingLost'
    OBVIOUS
<1>1. /\ UNCHANGED <<bridge, client, ended>>
      /\ Running /\ upstream.state = "open" /\ ended = None
    BY DEF Upstream, Arrive, ArriveOther, UpstreamEnds, Sends, LInv, IInv, EndedIsOver
<1>2. NothingLost' /\ Running'
    BY <1>1 DEF NothingLost, None, Running
<1> DEFINE from == client.got + bridge.held
<1>3. /\ queue \in Seq(Item) /\ Len(queue) \in Nat
      /\ upstream \in [state: {"open", "closed"} \cup AllErrors, open: Events \cup {None}, got: Nat]
      /\ Ledger(queue, from, upstream.got)
      /\ from' = from
    BY <1>1 DEF LInv, IInv, TypeOK, Accounted
<1> HIDE DEF from
\* No error is in the queue of an upstream that is open.
<1>4. \A i \in 1..Len(queue) : queue[i].type \notin {"error", "eof"}
    <2>1. \A i \in 1..Len(queue) : queue[i].type # "eof"
        BY <1>1 DEF LInv, IInv, EofIsLast
    <2>2. QED
        BY <1>3, <2>1 DEF LInv, ErrorThenEof
<1>5. ASSUME NEW e \in Item, e.type # "error", queue' = Append(queue, e),
             upstream'.got = upstream.got + Pieces(e)
      PROVE  ErrorThenEof' /\ Accounted'
    <2>1. Ledger(queue', from', upstream'.got)
        BY <1>3, <1>5, AppendLedger
    <2>2. \A i \in 1..Len(queue') : queue'[i].type # "error"
        BY <1>3, <1>4, <1>5, AppendProperties
    <2>3. QED
        BY <2>1, <2>2 DEF Accounted, ErrorThenEof, from
<1>6. CASE Arrive
    <2>1. PICK c \in Chunk :
             /\ queue' = Append(queue, c)
             /\ upstream' = [upstream EXCEPT !.open = c.opens, !.got = @ + Before(c) + After(c)]
        BY <1>6 DEF Arrive
    <2>2. c \in Item /\ c.type = "chunk" /\ Before(c) \in Nat /\ After(c) \in Nat
        BY PiecesAreNat DEF Item, Chunk
    <2>3. upstream'.got = upstream.got + Pieces(c)
        BY <1>3, <2>1, <2>2 DEF Pieces
    <2>4. QED
        BY <1>2, <1>5, <2>1, <2>2, <2>3
<1>7. CASE ArriveOther
    <2> DEFINE c == [type |-> "other"]
    <2>1. queue' = Append(queue, c) /\ upstream' = upstream
        BY <1>7 DEF ArriveOther
    <2>2. c \in Item /\ c.type = "other" /\ Pieces(c) = 0
        BY DEF Item, Pieces
    <2> HIDE DEF c
    <2>3. QED
        BY <1>2, <1>3, <1>5, <2>1, <2>2
<1>8. CASE UpstreamEnds
    <2> DEFINE eof == [type |-> "eof"]
    <2>1. eof \in Item /\ eof.type = "eof" /\ Pieces(eof) = 0
        BY DEF Item, Pieces
    <2> HIDE DEF eof
    <2>2. CASE upstream' = [upstream EXCEPT !.state = "closed"] /\ queue' = Append(queue, eof)
        BY <1>2, <1>3, <1>5, <2>1, <2>2
    <2>3. ASSUME NEW e \in Errors, upstream' = [upstream EXCEPT !.state = e],
                 queue' = queue \o <<[type |-> "error", of |-> e], eof>>
          PROVE  ErrorThenEof' /\ Accounted'
        <3> DEFINE err == [type |-> "error", of |-> e]
                   q == Append(queue, err)
        <3>1. err \in Item /\ err.type = "error" /\ Pieces(err) = 0
            BY BridgeAssumptions DEF Item, Pieces
        <3> HIDE DEF err
        <3>2. queue' = Append(q, eof)
            BY <1>3, <2>1, <2>3, <3>1 DEF err
        <3>3. /\ q \in Seq(Item) /\ Len(q) = Len(queue) + 1 /\ q[Len(queue) + 1] = err
              /\ \A i \in 1..Len(queue) : q[i] = queue[i]
            BY <1>3, <3>1, AppendProperties
        <3>4. Ledger(q, from, upstream.got)
            BY <1>3, <3>1, AppendLedger
        <3> HIDE DEF q
        <3>5. Ledger(queue', from', upstream'.got)
            <4>1. Ledger(Append(q, eof), from, upstream.got + Pieces(eof))
                BY <2>1, <3>3, <3>4, AppendLedger
            <4>2. upstream'.got = upstream.got /\ upstream.got + Pieces(eof) = upstream.got
                BY <1>3, <2>1, <2>3
            <4>3. QED
                BY <1>3, <3>2, <4>1, <4>2
        <3>6. /\ Len(queue') = Len(queue) + 2 /\ queue'[Len(queue) + 2].type = "eof"
              /\ \A i \in 1..Len(queue) : queue'[i].type # "error"
            BY <1>3, <1>4, <2>1, <3>2, <3>3, AppendProperties
        <3>7. ErrorThenEof'
            BY <1>3, <3>6 DEF ErrorThenEof
        <3>8. QED
            BY <3>5, <3>7 DEF Accounted, from
    <2>4. QED
        BY <1>2, <1>8, <2>2, <2>3 DEF UpstreamEnds, eof
<1>9. QED
    BY <1>6, <1>7, <1>8 DEF Upstream

\* Taking an item moves its pieces from the queue to the client or the buffer.
LEMMA GoesOnLInv ==
    ASSUME LInv, NEW type, Takes(type), ended' = None, client'.got \in Nat, bridge'.held \in Nat,
           client'.got + bridge'.held = client.got + bridge.held + Pieces(Head(queue))
    PROVE  ErrorThenEof' /\ Accounted' /\ NothingLost'
<1>1. /\ queue \in Seq(Item) /\ queue # <<>> /\ Running
      /\ queue' = Tail(queue) /\ upstream' = upstream
    BY DEF LInv, IInv, TypeOK, Takes, Running
<1>2. /\ Len(queue) \in Nat /\ Len(queue') = Len(queue) - 1
      /\ \A i \in 1..Len(queue') : queue'[i] = queue[i + 1]
    BY <1>1, TailProperties
<1>3. ErrorThenEof'
    <2>1. ASSUME NEW i \in 1..Len(queue'), queue'[i].type = "error"
          PROVE  i = Len(queue') - 1 /\ queue'[Len(queue')].type = "eof"
        <3>1. i + 1 \in 1..Len(queue) /\ queue[i + 1].type = "error"
            BY <1>2, <2>1
        <3>2. i + 1 = Len(queue) - 1 /\ queue[Len(queue)].type = "eof"
            BY <3>1 DEF LInv, ErrorThenEof
        <3>3. QED
            BY <1>2, <3>2
    <2>2. QED
        BY <2>1 DEF ErrorThenEof
<1>4. Ledger(queue', client.got + bridge.held + Pieces(Head(queue)), upstream.got)
    BY <1>1, TailLedger DEF LInv, Accounted
<1>5. Accounted'
    BY <1>1, <1>4 DEF Accounted
<1>6. NothingLost'
    BY DEF NothingLost, None
<1>7. QED
    BY <1>3, <1>5, <1>6

\* The end of the response: all pieces are with the client or in the buffer.
LEMMA StopsLInv ==
    ASSUME LInv, NEW type, Takes(type), NEW how, Over(how),
           \/ type \in {"eof", "error"} /\ client'.got = client.got + bridge.held
           \/ how \notin {"clean", "raised", "stall", "assembled"}
    PROVE  ErrorThenEof' /\ Accounted' /\ NothingLost'
<1>1. /\ queue \in Seq(Item) /\ queue # <<>> /\ Running
      /\ queue' = Tail(queue) /\ upstream' = upstream
      /\ Head(queue).type = type /\ bridge \in Bridge
    BY DEF LInv, IInv, TypeOK, Takes, Running
<1>2. /\ Len(queue) \in Nat \ {0} /\ Len(queue') = Len(queue) - 1 /\ Head(queue) = queue[1]
      /\ \A i \in 1..Len(queue') : queue'[i] = queue[i + 1]
    BY <1>1, TailProperties
<1>3. ErrorThenEof'
    <2>1. ASSUME NEW i \in 1..Len(queue'), queue'[i].type = "error"
          PROVE  i = Len(queue') - 1 /\ queue'[Len(queue')].type = "eof"
        <3>1. i + 1 \in 1..Len(queue) /\ queue[i + 1].type = "error"
            BY <1>2, <2>1
        <3>2. i + 1 = Len(queue) - 1 /\ queue[Len(queue)].type = "eof"
            BY <3>1 DEF LInv, ErrorThenEof
        <3>3. QED
            BY <1>2, <3>2
    <2>2. QED
        BY <2>1 DEF ErrorThenEof
<1>4. ended' = how /\ ~Running'
    BY <1>1, OverProperties DEF Running
<1>5. ASSUME type \in {"eof", "error"}, client'.got = client.got + bridge.held
      PROVE  client'.got = upstream'.got
    <2>1. \/ Len(queue) = 1 /\ queue[1].type = "eof"
          \/ Len(queue) = 2 /\ queue[1].type = "error" /\ queue[2].type = "eof"
        <3>1. 1 \in 1..Len(queue) /\ queue[1].type = type
            BY <1>1, <1>2
        <3>2. CASE type = "eof"
            BY <3>1, <3>2 DEF LInv, IInv, EofIsLast
        <3>3. CASE type = "error"
            <4>1. \A i \in 1..Len(queue) :
                    queue[i].type = "error" => i = Len(queue) - 1 /\ queue[Len(queue)].type = "eof"
                BY DEF LInv, ErrorThenEof
            <4>2. PICK i \in 1..Len(queue) : i = 1
                BY <3>1
            <4>3. i = Len(queue) - 1 /\ queue[Len(queue)].type = "eof"
                <5>1. queue[i].type = "error"
                    BY <3>1, <3>3, <4>2
                <5>2. QED
                    BY <4>1, <5>1
            <4>4. Len(queue) = 2
                <5>1. Len(queue) \in Nat
                    BY <1>2
                <5>2. QED
                    BY <4>2, <4>3, <5>1
            <4>5. QED
                BY <3>1, <3>3, <4>3, <4>4
        <3>4. QED
            BY <1>5, <3>2, <3>3
    <2>2. Ledger(queue, client.got + bridge.held, upstream.got)
        BY <1>1 DEF LInv, Accounted
    <2>3. client.got + bridge.held = upstream.got
        BY <1>1, <2>1, <2>2, LastLedger
    <2>4. QED
        BY <1>1, <1>5, <2>3
<1>6. Accounted' /\ NothingLost'
    BY <1>4, <1>5 DEF Accounted, NothingLost
<1>7. QED
    BY <1>3, <1>6

\* Steps that leave the queue and what has been taken of it alone.
LEMMA WaitsLInv ==
    ASSUME LInv, UNCHANGED <<queue, upstream>>, Running,
           \/ ~Running' /\ ended' \in {"watchdog", "gone"}
           \/ ended' = None /\ client'.got = client.got /\ bridge'.held = bridge.held
    PROVE  ErrorThenEof' /\ Accounted' /\ NothingLost'
    BY DEF LInv, ErrorThenEof, Accounted, NothingLost, None

LEMMA CheckLInv == LInv /\ (Check \/ Timeout \/ Resume \/ ClientGone \/ Tick) =>
                       ErrorThenEof' /\ Accounted' /\ NothingLost'
<1> SUFFICES ASSUME LInv, Check \/ Timeout \/ Resume \/ ClientGone \/ Tick
             PROVE  ErrorThenEof' /\ Accounted' /\ NothingLost'
    OBVIOUS
<1>1. bridge \in Bridge /\ client \in Client /\ IInv
    BY DEF LInv, IInv, TypeOK
<1>2. Running /\ ended = None /\ UNCHANGED <<queue, upstream>>
    BY <1>1 DEF Check, Timeout, Resume, ClientGone, Tick, Running, IInv, EndedIsOver
<1>3. ASSUME SendHeartbeat
      PROVE  client'.got = client.got
    BY <1>1, <1>3 DEF SendHeartbeat, Client
<1>4. CASE Check
    <2>1. \/ Over("watchdog")
          \/ /\ \E t : bridge' = [bridge EXCEPT !.pc = "wait", !.timer = t]
             /\ UNCHANGED <<client, ended>>
          \/ bridge' = [bridge EXCEPT !.pc = "yield"] /\ SendHeartbeat /\ UNCHANGED ended
        BY <1>4 DEF Check
    <2>2. CASE Over("watchdog")
        BY <1>1, <1>2, <2>2, OverProperties, WaitsLInv DEF Running
    <2>3. CASE /\ \E t : bridge' = [bridge EXCEPT !.pc = "wait", !.timer = t]
               /\ UNCHANGED <<client, ended>>
        <3>1. bridge'.held = bridge.held
            BY <1>1, <2>3 DEF Bridge
        <3>2. QED
            BY <1>2, <2>3, <3>1, WaitsLInv
    <2>4. CASE bridge' = [bridge EXCEPT !.pc = "yield"] /\ SendHeartbeat /\ UNCHANGED ended
        <3>1. bridge'.held = bridge.held
            BY <1>1, <2>4 DEF Bridge
        <3>2. QED
            BY <1>2, <1>3, <2>4, <3>1, WaitsLInv
    <2>5. QED
        BY <2>1, <2>2, <2>3, <2>4
<1>5. CASE Timeout
    <2>1. bridge' = [bridge EXCEPT !.pc = "yield"] /\ SendHeartbeat /\ UNCHANGED ended
        BY <1>5 DEF Timeout
    <2>2. bridge'.held = bridge.held
        BY <1>1, <2>1 DEF Bridge
    <2>3. QED
        BY <1>2, <1>3, <2>1, <2>2, WaitsLInv
<1>6. CASE Resume
    <2>1. bridge'.held = bridge.held /\ UNCHANGED <<client, ended>>
        BY <1>1, <1>6 DEF Resume, Bridge
    <2>2. QED
        BY <1>2, <2>1, WaitsLInv
<1>7. CASE ClientGone
    BY <1>1, <1>2, <1>7, OverProperties, WaitsLInv DEF ClientGone, Running
<1>8. CASE Tick
    <2>1. bridge'.held = bridge.held /\ client'.got = client.got /\ UNCHANGED ended
        BY <1>1, <1>8 DEF Tick, Bridge, Client
    <2>2. QED
        BY <1>2, <2>1, WaitsLInv
<1>9. QED
    BY <1>4, <1>5, <1>6, <1>7, <1>8

LEMMA SeesGot ==
    ASSUME client \in Client, NEW n \in Nat, Sees(n)
    PROVE  client'.got = client.got + n
    BY DEF Sees, Client

LEMMA FlushGot ==
    ASSUME client \in Client, bridge \in Bridge, Flush
    PROVE  client'.got = client.got + bridge.held
<1>1. CASE bridge.held = 0
    BY <1>1 DEF Flush, Client
<1>2. CASE bridge.held # 0
    BY <1>2 DEF Flush, Client
<1>3. QED
    BY <1>1, <1>2

LEMMA TakeChunkLInv == LInv /\ TakeChunk => ErrorThenEof' /\ Accounted' /\ NothingLost'
<1> SUFFICES ASSUME LInv, TakeChunk
             PROVE  ErrorThenEof' /\ Accounted' /\ NothingLost'
    OBVIOUS
<1> DEFINE c == Head(queue)
           w == Watch(bridge, c)
<1>1. Takes("chunk") /\ UNCHANGED ended /\ IInv
    BY DEF TakeChunk, LInv
<1>2. /\ bridge \in Bridge /\ client \in Client /\ ended = None
      /\ c \in Item /\ c.type = "chunk"
    BY <1>1, TakesProperties
<1>3. /\ c \in Chunk /\ Before(c) \in Nat /\ After(c) \in Nat
      /\ Pieces(c) = Before(c) + After(c)
    BY <1>2, ChunkProperties, PiecesAreNat DEF Pieces
<1>4. w \in Bridge /\ w.held = bridge.held
    BY <1>2, <1>3, WatchProperties
<1>5. bridge.held \in Nat /\ client.got \in Nat
    BY <1>2 DEF Bridge, Client
<1>6. \/ mode = "pass" /\ PassEvents(c)
      \/ /\ bridge' = [w EXCEPT !.pc = "check", !.held = @ + Before(c) + After(c), !.opens = c.opens]
         /\ client' = [client EXCEPT !.withheld = TRUE]
    BY DEF TakeChunk
<1>7. ASSUME NEW h \in Nat, bridge'.held = h, NEW g \in Nat, client'.got = g,
             g + h = client.got + bridge.held + Before(c) + After(c)
      PROVE  ErrorThenEof' /\ Accounted' /\ NothingLost'
    <2>1. client'.got + bridge'.held = client.got + bridge.held + Pieces(c)
        BY <1>3, <1>5, <1>7
    <2> HIDE DEF c
    <2>2. ended' = None /\ client'.got \in Nat /\ bridge'.held \in Nat
        BY <1>1, <1>2, <1>7
    <2>3. QED
        BY <1>1, <2>1, <2>2, GoesOnLInv DEF c
<1> HIDE DEF c, w
<1>8. CASE PassEvents(c) /\ c.closes = None
    <2>1. Before(c) = 0
        BY <1>8 DEF Before
    <2>2. /\ bridge' = [w EXCEPT !.pc = "check", !.opens = c.opens, !.held = @ + After(c)]
          /\ client' = [client EXCEPT !.withheld = TRUE, !.got = @]
        BY <1>8 DEF PassEvents, w
    <2>3. bridge'.held = bridge.held + After(c) /\ client'.got = client.got
        BY <1>2, <1>4, <2>2 DEF Bridge, Client
    <2>4. QED
        BY <1>3, <1>5, <1>7, <2>1, <2>3
<1>9. CASE PassEvents(c) /\ c.closes = "done"
    <2>1. /\ bridge' = [w EXCEPT !.pc = "check", !.opens = c.opens, !.held = After(c)]
          /\ client' = [client EXCEPT !.withheld = TRUE, !.got = @ + bridge.held + Before(c)]
        BY <1>9 DEF PassEvents, w, None
    <2>2. bridge'.held = After(c) /\ client'.got = client.got + bridge.held + Before(c)
        BY <1>2, <1>4, <2>1 DEF Bridge, Client
    <2>3. QED
        BY <1>3, <1>5, <1>7, <2>2
<1>10. CASE PassEvents(c) /\ c.closes \notin {None, "done"}
    <2>1. /\ bridge' = [w EXCEPT !.pc = "yield", !.held = After(c), !.opens = c.opens]
          /\ Sees(bridge.held + Before(c))
        BY <1>10 DEF PassEvents, w
    <2>2. bridge.held + Before(c) \in Nat
        BY <1>3, <1>5
    <2>3. bridge'.held = After(c) /\ client'.got = client.got + (bridge.held + Before(c))
        BY <1>2, <1>4, <2>1, <2>2, SeesGot DEF Bridge
    <2>4. QED
        BY <1>3, <1>5, <1>7, <2>3
<1>11. CASE /\ bridge' = [w EXCEPT !.pc = "check", !.held = @ + Before(c) + After(c), !.opens = c.opens]
            /\ client' = [client EXCEPT !.withheld = TRUE]
    <2>1. bridge'.held = bridge.held + Before(c) + After(c) /\ client'.got = client.got
        BY <1>2, <1>4, <1>11 DEF Bridge, Client
    <2>2. QED
        BY <1>3, <1>5, <1>7, <2>1
<1>12. QED
    BY <1>6, <1>8, <1>9, <1>10, <1>11

LEMMA TakeOtherLInv == LInv /\ TakeOther => ErrorThenEof' /\ Accounted' /\ NothingLost'
<1> SUFFICES ASSUME LInv, TakeOther
             PROVE  ErrorThenEof' /\ Accounted' /\ NothingLost'
    OBVIOUS
<1>1. Takes("other") /\ UNCHANGED ended /\ IInv
    BY DEF TakeOther, LInv
<1>2. /\ bridge \in Bridge /\ client \in Client /\ ended = None /\ Pieces(Head(queue)) = 0
    BY <1>1, TakesProperties DEF Pieces
<1>3. bridge.held \in Nat /\ client.got \in Nat
    BY <1>2 DEF Bridge, Client
<1>4. CASE mode = "pass"
    <2>1. /\ bridge' = [bridge EXCEPT !.pc = "yield", !.held = 0, !.opens = None]
          /\ Sees(bridge.held)
        BY <1>4 DEF TakeOther
    <2>2. bridge'.held = 0 /\ client'.got = client.got + bridge.held
        BY <1>2, <1>3, <2>1, SeesGot DEF Bridge
    <2>3. QED
        BY <1>1, <1>2, <1>3, <2>2, GoesOnLInv
<1>5. CASE mode # "pass"
    <2>1. bridge'.held = bridge.held /\ client' = client
        BY <1>2, <1>5 DEF TakeOther, Bridge
    <2>2. QED
        BY <1>1, <1>2, <1>3, <2>1, GoesOnLInv
<1>6. QED
    BY <1>4, <1>5

LEMMA TakeEofLInv == LInv /\ TakeEof => ErrorThenEof' /\ Accounted' /\ NothingLost'
<1> SUFFICES ASSUME LInv, TakeEof
             PROVE  ErrorThenEof' /\ Accounted' /\ NothingLost'
    OBVIOUS
<1>1. Takes("eof") /\ IInv
    BY DEF TakeEof, LInv
<1>2. bridge \in Bridge /\ client \in Client /\ bridge.held \in Nat
    BY <1>1, TakesProperties DEF Bridge
<1>3. CASE Flush /\ Over("clean")
    BY <1>1, <1>2, <1>3, FlushGot, StopsLInv
<1>4. CASE Sees(bridge.held) /\ Over("assembled")
    BY <1>1, <1>2, <1>4, SeesGot, StopsLInv
<1>5. CASE Over("synthetic")
    BY <1>1, <1>5, StopsLInv
<1>6. QED
    BY <1>3, <1>4, <1>5 DEF TakeEof

LEMMA TakeErrorLInv == LInv /\ TakeError => ErrorThenEof' /\ Accounted' /\ NothingLost'
<1> SUFFICES ASSUME LInv, TakeError
             PROVE  ErrorThenEof' /\ Accounted' /\ NothingLost'
    OBVIOUS
<1>1. Takes("error") /\ IInv
    BY DEF TakeError, LInv
<1>2. /\ bridge \in Bridge /\ client \in Client /\ ended = None /\ Pieces(Head(queue)) = 0
    BY <1>1, TakesProperties DEF Pieces
<1>3. bridge.held \in Nat /\ client.got \in Nat
    BY <1>2 DEF Bridge, Client
<1>4. ASSUME NEW how, Flush, Over(how)
      PROVE  ErrorThenEof' /\ Accounted' /\ NothingLost'
    BY <1>1, <1>2, <1>4, FlushGot, StopsLInv
<1>5. CASE Over("synthetic")
    BY <1>1, <1>5, StopsLInv
<1>6. CASE bridge' = [bridge EXCEPT !.pc = "yield"] /\ SendHeartbeat /\ UNCHANGED ended
    <2>1. bridge'.held = bridge.held /\ client'.got = client.got
        BY <1>2, <1>6 DEF SendHeartbeat, Bridge, Client
    <2>2. QED
        BY <1>1, <1>2, <1>3, <1>6, <2>1, GoesOnLInv
<1>7. QED
    BY <1>4, <1>5, <1>6 DEF TakeError

LEMMA StepLInv == LInv /\ [Next]_vars => LInv'
<1> SUFFICES ASSUME LInv, [Next]_vars
             PROVE  LInv'
    OBVIOUS
<1>1. IInv'
    BY StepIInv DEF LInv
<1>2. CASE UNCHANGED vars
    <2>1. UNCHANGED <<queue, client, bridge, upstream, ended>>
        BY <1>2 DEF vars
    <2>2. QED
        BY <1>1, <2>1 DEF LInv, ErrorThenEof, Accounted, NothingLost, Running
<1>3. CASE Next
    BY <1>1, <1>3, UpstreamLInv, CheckLInv, TakeChunkLInv, TakeOtherLInv, TakeEofLInv, TakeErrorLInv
    DEF Next, Generator, LInv
<1>4. QED
    BY <1>2, <1>3

LEMMA SpecLInv == Spec => []LInv
<1>1. QED
    BY InitLInv, StepLInv, PTL DEF Spec

-----------------------------------------------------------------------------
(* Theorems.                                                               *)

\* Every variable keeps its type, whatever chunks come and however long the
\* client takes: the timer of a wait is never negative.
THEOREM StreamTypeCorrect == Spec => []TypeOK
<1>1. IInv => TypeOK
    BY DEF IInv
<1>2. QED
    BY <1>1, SpecIInv, PTL

\* No heartbeat is put into an event of the upstream: in pass-through mode the
\* client is given whole events only, until the generator ends.
THEOREM StreamHeartbeatBetweenEvents == Spec => []HeartbeatBetweenEvents
<1>1. IInv => HeartbeatBetweenEvents
    BY DEF IInv, Boundary, HeartbeatBetweenEvents
<1>2. QED
    BY <1>1, SpecIInv, PTL

\* The heartbeats come often enough, for any intervals of the configuration:
\* the timer never runs past what is left of the client's patience.
THEOREM StreamClientHears == Spec => []ClientHears
<1>1. ASSUME IInv
      PROVE  ClientHears
    <2>1. /\ bridge \in Bridge /\ client \in Client /\ mode \in {"pass", "collapse"}
          /\ client.withheld \in BOOLEAN /\ slow \in BOOLEAN
        BY <1>1 DEF IInv, TypeOK, Client
    <2>2. /\ client.idle \in Nat /\ bridge.timer \in Nat
          /\ bridge.pc \in {"check", "wait", "yield", "over"}
        BY <2>1 DEF Client, Bridge, Time
    <2>3. Hearing
        BY <1>1 DEF IInv
    <2>4. CASE bridge.pc = "over"
        BY <2>4 DEF ClientHears, Running
    <2>5. CASE bridge.pc = "yield"
        BY <2>1, <2>2, <2>3, <2>5, BridgeAssumptions DEF Hearing, ClientHears, Running
    <2>6. CASE bridge.pc = "check"
        BY <2>1, <2>2, <2>3, <2>6, BridgeAssumptions DEF Hearing, ClientHears, Running
    <2>7. CASE bridge.pc = "wait"
        BY <2>1, <2>2, <2>3, <2>7, BridgeAssumptions DEF Hearing, ClientHears, Running
    <2>8. QED
        BY <2>2, <2>4, <2>5, <2>6, <2>7
<1>2. QED
    BY <1>1, SpecIInv, PTL

\* A truncated response is not sent as a whole one, unless the upstream failed
\* with the exception that a wait raises: the task queues its error before its
\* end, and the generator stops at the error.
THEOREM StreamBodyIsComplete == Spec => []BodyIsComplete
<1>1. IInv => BodyIsComplete
    BY DEF IInv
<1>2. QED
    BY <1>1, SpecIInv, PTL

\* The watchdog does not end a response that makes progress, for any thresholds,
\* as long as the client takes what it is given at once.
THEOREM StreamWatchdogIsRightInTime == Spec => []WatchdogIsRightInTime
<1>1. IInv => WatchdogIsRightInTime
    BY DEF IInv
<1>2. QED
    BY <1>1, SpecIInv, PTL

\* No byte of a response is lost or sent twice, wherever the chunks are cut:
\* what the upstream has sent is with the client, in the buffer or in the queue,
\* and the queue and the buffer are empty when the generator ends as the
\* upstream did.
THEOREM StreamNothingLost == Spec => []NothingLost
<1>1. LInv => NothingLost
    BY DEF LInv
<1>2. QED
    BY <1>1, SpecLInv, PTL

=============================================================================
