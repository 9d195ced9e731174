---------------------------- MODULE StreamBridge ----------------------------
(***************************************************************************)
(* The streaming bridge of the LiteLLM proxy                               *)
(* (k8s/litellm-callbacks/streaming_bridge.py), for one response: a task   *)
(* (_prefetch) moves the chunks of the upstream into a queue, and a        *)
(* generator takes them out, waiting for each with a timeout, so that it   *)
(* can send heartbeats to the client and give up on an upstream that only  *)
(* pings.                                                                  *)
(*                                                                         *)
(* In pass-through mode the client gets complete events, in collapse mode  *)
(* blanks and, at the end, one JSON body made of all events.               *)
(*                                                                         *)
(* A chunk need not end with an event.  Of its bytes only the events that  *)
(* begin and end in it are kept, and how many pieces of events it brings.  *)
(* Time advances when the generator waits: the event loop runs what is     *)
(* ready at once, but a slow client may keep the generator in a yield.     *)
(***************************************************************************)
EXTENDS Naturals, Sequences

CONSTANTS
    Modes,      \* subset of {"pass", "collapse"}
    Heartbeat,  \* _heartbeat_seconds
    Pre,        \* _progress_timeout_pre
    Post,       \* _progress_timeout_post
    Errors,     \* how the upstream may fail: subset of AllErrors
    SlowClient, \* whether time may pass while a yield is under way
    Horizon,    \* bound: no clock counts beyond it
    MaxQueue,   \* bound: chunks in the queue
    MaxBurst,   \* bound: chunks the upstream sends between two ticks
    MaxPieces   \* bound: pieces of events, not counting whole pings

\* httpx.ReadTimeout, asyncio.TimeoutError, anything else.
AllErrors == {"stall", "timeout", "reset"}

ASSUME BridgeAssumptions ==
    /\ Modes \subseteq {"pass", "collapse"}
    /\ Heartbeat \in Nat \ {0} /\ Pre \in Nat \ {0} /\ Post \in Nat \ {0}
    /\ Errors \subseteq AllErrors
    /\ SlowClient \in BOOLEAN
    /\ Horizon \in Nat /\ Horizon >= Heartbeat /\ Horizon >= Pre /\ Horizon >= Post
    /\ MaxQueue \in Nat /\ MaxBurst \in Nat
    /\ MaxPieces \in Nat

VARIABLES
    mode,      \* whether the request was collapsed
    upstream,  \* state: open, closed or how it failed; open: the event under way; got: pieces sent
    queue,     \* between the task and the generator
    bridge,    \* the generator's local variables
    client,    \* what the client sees
    ended,     \* how the generator ended
    quiet,     \* ticks since the upstream sent an event other than a ping
    burst,     \* chunks sent since the last tick
    slow       \* history: time has passed in a yield

vars == <<mode, upstream, queue, bridge, client, ended, quiet, burst, slow>>

-----------------------------------------------------------------------------
(* Types.                                                                  *)

\* "done" is a "[DONE]" event, which OpenAI sends and Anthropic does not.
Events == {"start", "delta", "ping", "done"}

None == "none"

\* head: the event that begins in the chunk, closes: the one that ends in it,
\* opens: the one it stops in the middle of.
Chunk == [type: {"chunk"}, head: Events \cup {None}, closes: Events \cup {None}, opens: Events \cup {None}]

\* Something that is no bytes, the exception of the upstream, the end.
Item == Chunk \cup [type: {"other", "eof"}] \cup [type: {"error"}, of: AllErrors]

Time == 0..Horizon

\* progress, yielded: ticks since last_progress_at and last_yield_at; held: pieces
\* in event_buf or collapse_buf; opens: the event of which the buffer has a part.
Bridge ==
    [pc: {"check", "wait", "yield", "over"}, timer: Time, progress: Time, yielded: Time,
     started: BOOLEAN, held: Nat, opens: Events \cup {None}]

\* idle: ticks since the last byte; mid: that byte was inside an event; got:
\* pieces; residue: a "[DONE]" has come; broken: a heartbeat came inside an event;
\* withheld: a chunk has been taken since the last byte.
Client ==
    [idle: Time, mid: BOOLEAN, got: Nat, residue: BOOLEAN, broken: BOOLEAN, withheld: BOOLEAN]

TypeOK ==
    /\ mode \in {"pass", "collapse"}
    /\ upstream \in [state: {"open", "closed"} \cup AllErrors, open: Events \cup {None}, got: Nat]
    /\ queue \in Seq(Item)
    /\ bridge \in Bridge
    /\ client \in Client
    /\ ended \in {None, "clean", "raised", "stall", "watchdog", "assembled", "synthetic", "gone"}
    /\ quiet \in Time
    /\ burst \in 0..MaxBurst
    /\ slow \in BOOLEAN

-----------------------------------------------------------------------------
Init ==
    /\ mode \in Modes
    /\ upstream = [state |-> "open", open |-> None, got |-> 0]
    /\ queue = <<>>
    /\ bridge = [pc |-> "check", timer |-> 0, progress |-> 0, yielded |-> 0,
                 started |-> FALSE, held |-> 0, opens |-> None]
    /\ client = [idle |-> 0, mid |-> FALSE, got |-> 0, residue |-> FALSE, broken |-> FALSE,
                 withheld |-> FALSE]
    /\ ended = None
    /\ quiet = 0
    /\ burst = 0
    /\ slow = FALSE

Running == bridge.pc # "over"

-----------------------------------------------------------------------------
(* The upstream and the task that reads it.                                *)

\* The chunks that may come when the last one stopped inside event e, or
\* between events.
Follows(c, e) ==
    IF e = None
    THEN c.head # None /\ <<c.closes, c.opens>> \in {<<c.head, None>>, <<None, c.head>>}
    ELSE <<c.head, c.closes, c.opens>> \in {<<None, None, e>>, <<c.opens, e, c.opens>>}

Before(c) == IF c.closes \in {None, "ping"} THEN 0 ELSE 1
After(c) == IF c.opens = None THEN 0 ELSE 1

Progress(c) == c.head \in {"start", "delta"}

Sends ==
    /\ Running /\ upstream.state = "open"
    /\ Len(queue) < MaxQueue
    /\ burst < MaxBurst /\ burst' = burst + 1

Arrive ==
    /\ Sends
    /\ \E c \in Chunk :
          /\ Follows(c, upstream.open)
          /\ upstream.got + Before(c) + After(c) <= MaxPieces
          /\ queue' = Append(queue, c)
          /\ upstream' = [upstream EXCEPT !.open = c.opens, !.got = @ + Before(c) + After(c)]
          /\ quiet' = IF Progress(c) THEN 0 ELSE quiet
    /\ UNCHANGED <<mode, bridge, client, ended, slow>>

\* Something that is no bytes comes between events.
ArriveOther ==
    /\ Sends
    /\ upstream.open = None
    /\ queue' = Append(queue, [type |-> "other"])
    /\ UNCHANGED <<mode, upstream, bridge, client, ended, quiet, slow>>

\* The task queues the exception, if there is one, and the end.
UpstreamEnds ==
    /\ Running /\ upstream.state = "open"
    /\ \/ /\ upstream' = [upstream EXCEPT !.state = "closed"]
          /\ queue' = Append(queue, [type |-> "eof"])
       \/ \E e \in Errors :
             /\ upstream' = [upstream EXCEPT !.state = e]
             /\ queue' = queue \o <<[type |-> "error", of |-> e], [type |-> "eof"]>>
    /\ UNCHANGED <<mode, bridge, client, ended, quiet, burst, slow>>

-----------------------------------------------------------------------------
(* The generator: before each item it computes how long to wait.           *)

Threshold == IF bridge.started THEN Post ELSE Pre

\* Mutant: no watchdog.
StalledNever == FALSE

Stalled == bridge.progress >= Threshold

\* Mutant: the heartbeat of collapse mode waits for the upstream to be silent.
SilenceRemaining == Heartbeat

HeartbeatRemaining == Heartbeat - bridge.yielded

Least(m, n) == IF m <= n THEN m ELSE n

Over(how) ==
    /\ bridge' = [bridge EXCEPT !.pc = "over"]
    /\ ended' = how

\* The client gets bytes that end with an event.
Sees(n) ==
    client' = [client EXCEPT !.idle = 0, !.withheld = FALSE, !.got = @ + n, !.mid = FALSE]

SendHeartbeat ==
    client' = [client EXCEPT !.idle = 0, !.withheld = FALSE,
                             !.broken = @ \/ (mode = "pass" /\ client.mid)]

\* The time of the last yield is taken when the generator goes on.
Check ==
    /\ bridge.pc = "check"
    /\ \/ /\ mode = "pass" /\ ~Stalled
          /\ bridge' = [bridge EXCEPT !.pc = "wait", !.timer = Least(Heartbeat, Threshold - bridge.progress)]
          /\ UNCHANGED <<client, ended>>
       \/ /\ mode = "pass" /\ Stalled
          /\ Over("watchdog")
          /\ Sees(0)
       \/ /\ mode = "collapse" /\ bridge.yielded >= Heartbeat
          /\ bridge' = [bridge EXCEPT !.pc = "yield"]
          /\ SendHeartbeat
          /\ UNCHANGED ended
       \/ /\ mode = "collapse" /\ bridge.yielded < Heartbeat /\ Stalled
          /\ Over("watchdog")
          /\ Sees(0)
       \/ /\ mode = "collapse" /\ bridge.yielded < Heartbeat /\ ~Stalled
          /\ bridge' = [bridge EXCEPT !.pc = "wait",
                           !.timer = Least(HeartbeatRemaining, Threshold - bridge.progress)]
          /\ UNCHANGED <<client, ended>>
    /\ UNCHANGED <<mode, upstream, queue, quiet, burst, slow>>

\* The wait is over without an item; one that comes at the same time is kept.
Timeout ==
    /\ bridge.pc = "wait" /\ bridge.timer = 0
    /\ bridge' = [bridge EXCEPT !.pc = "yield"]
    /\ SendHeartbeat
    /\ UNCHANGED <<mode, upstream, queue, ended, quiet, burst, slow>>

\* The client has taken what it was given.
Resume ==
    /\ bridge.pc = "yield"
    /\ bridge' = [bridge EXCEPT !.pc = "check", !.yielded = IF mode = "collapse" THEN 0 ELSE @]
    /\ UNCHANGED <<mode, upstream, queue, client, ended, quiet, burst, slow>>

Takes(type) ==
    /\ bridge.pc = "wait"
    /\ queue # <<>> /\ Head(queue).type = type
    /\ queue' = Tail(queue)
    /\ UNCHANGED <<mode, upstream, quiet, burst, slow>>

\* Mutant: every chunk counts as progress, pings too.
WatchAnything(b, c) == [b EXCEPT !.progress = 0, !.started = @ \/ c.head = "start"]

\* Mutant: only the start of the message counts as progress.
WatchStart(b, c) == IF c.head = "start" THEN [b EXCEPT !.progress = 0, !.started = TRUE] ELSE b

\* The watchdog's variables after chunk c.
Watch(b, c) ==
    [b EXCEPT !.progress = IF Progress(c) THEN 0 ELSE @, !.started = @ \/ c.head = "start"]

\* Mutant: the bytes are passed on as they come.
PassEverything(c) ==
    /\ bridge' = [Watch(bridge, c) EXCEPT !.pc = "yield"]
    /\ client' = [client EXCEPT !.idle = 0, !.withheld = FALSE, !.got = @ + Before(c) + After(c),
                                !.mid = c.opens # None, !.residue = @ \/ (c.head # "done" /\ c.closes = "done")]

\* Mutant: an incomplete event waits, but what came of it before is dropped.
PassLatest(c) ==
    IF c.closes = None
    THEN /\ bridge' = [Watch(bridge, c) EXCEPT !.pc = "check", !.held = After(c), !.opens = c.opens]
         /\ client' = [client EXCEPT !.withheld = TRUE]
    ELSE /\ bridge' = [Watch(bridge, c) EXCEPT !.pc = "yield", !.held = After(c), !.opens = c.opens]
         /\ Sees(bridge.held + Before(c))

\* Bytes up to the last event that is complete are passed on, without the
\* "[DONE]" in them; the rest waits for the next chunk.
PassEvents(c) ==
    IF c.closes \in {None, "done"}
    THEN /\ bridge' = [Watch(bridge, c) EXCEPT !.pc = "check", !.opens = c.opens,
                          !.held = IF c.closes = None THEN @ + After(c) ELSE After(c)]
         /\ client' = [client EXCEPT !.withheld = TRUE,
                          !.got = IF c.closes = None THEN @ ELSE @ + bridge.held + Before(c)]
    ELSE /\ bridge' = [Watch(bridge, c) EXCEPT !.pc = "yield", !.held = After(c), !.opens = c.opens]
         /\ Sees(bridge.held + Before(c))

TakeChunk ==
    /\ Takes("chunk")
    /\ LET c == Head(queue) IN
       \/ mode = "pass" /\ PassEvents(c)
       \/ /\ mode = "collapse"
          /\ bridge' = [Watch(bridge, c) EXCEPT !.pc = "check", !.held = @ + Before(c) + After(c), !.opens = c.opens]
          /\ client' = [client EXCEPT !.withheld = TRUE]
    /\ UNCHANGED ended

\* Something else goes to the client as it is.
TakeOther ==
    /\ Takes("other")
    /\ IF mode = "pass"
       THEN bridge' = [bridge EXCEPT !.pc = "yield", !.held = 0, !.opens = None] /\ Sees(bridge.held)
       ELSE bridge' = [bridge EXCEPT !.pc = "check"] /\ UNCHANGED client
    /\ UNCHANGED ended

\* What is held goes to the client; a "[DONE]" is taken out if its line is whole.
Flush ==
    IF bridge.held = 0 THEN UNCHANGED client
    ELSE \E residue \in {client.residue, client.residue \/ bridge.opens = "done"} :
            client' = [client EXCEPT !.idle = 0, !.withheld = FALSE, !.got = @ + bridge.held,
                                     !.mid = TRUE, !.residue = residue]

\* The JSON body, made of the events that came whole, or a message that says
\* what went wrong.
TakeEof ==
    /\ Takes("eof")
    /\ \/ mode = "pass" /\ Flush /\ Over("clean")
       \/ /\ mode = "collapse" /\ bridge.started
          /\ Sees(bridge.held)
          /\ Over("assembled")
       \/ /\ mode = "collapse" /\ (~bridge.started \/ bridge.opens = "start")
          /\ Sees(0)
          /\ Over("synthetic")

\* Mutant: no error ends the loop of collapse mode.
AnyTakenForWait(e) == TRUE

\* An asyncio.TimeoutError of the upstream is taken for one of the wait.
TakenForWait(e) == e = "timeout"

TakeError ==
    /\ Takes("error")
    /\ LET e == Head(queue).of IN
       \/ /\ mode = "pass"
          /\ Flush
          /\ Over(IF e = "reset" THEN "raised" ELSE "stall")
       \/ /\ mode = "collapse" /\ ~TakenForWait(e)
          /\ Sees(0)
          /\ Over("synthetic")
       \/ /\ mode = "collapse" /\ TakenForWait(e)
          /\ bridge' = [bridge EXCEPT !.pc = "yield"]
          /\ SendHeartbeat
          /\ UNCHANGED ended

-----------------------------------------------------------------------------
(* The client goes; time passes.                                           *)

\* The generator is closed, or its task cancelled, and cancels the prefetch.
ClientGone ==
    /\ bridge.pc \in {"wait", "yield"}
    /\ Over("gone")
    /\ UNCHANGED <<mode, upstream, queue, client, quiet, burst, slow>>

Later(t) == IF t < Horizon THEN t + 1 ELSE t

Tick ==
    /\ \/ bridge.pc = "wait" /\ queue = <<>> /\ bridge.timer > 0 /\ UNCHANGED slow
       \/ bridge.pc = "yield" /\ SlowClient /\ slow' = TRUE
    /\ bridge' = [bridge EXCEPT !.progress = Later(@),
                                !.yielded = IF mode = "collapse" THEN Later(@) ELSE @,
                                !.timer = IF bridge.pc = "wait" THEN @ - 1 ELSE @]
    /\ client' = [client EXCEPT !.idle = Later(@)]
    /\ quiet' = Later(quiet)
    /\ burst' = 0
    /\ UNCHANGED <<mode, upstream, queue, ended>>

-----------------------------------------------------------------------------
Upstream == Arrive \/ ArriveOther \/ UpstreamEnds

Generator == Check \/ Timeout \/ Resume \/ TakeChunk \/ TakeOther \/ TakeEof \/ TakeError

Next == Upstream \/ Generator \/ ClientGone \/ Tick

Spec == Init /\ [][Next]_vars

\* The event loop runs the generator, the client takes what it is given, and
\* time passes.  Nothing is asked of the upstream.
FairSpec == Spec /\ WF_vars(Generator) /\ WF_vars(Tick)

-----------------------------------------------------------------------------
(* Properties.                                                             *)

\* "heartbeat injection always lands on an SSE event boundary": no timeout,
\* wherever it falls between two chunks, puts a heartbeat into an event.
HeartbeatBetweenEvents == ~client.broken

\* Bytes may be held back, but none is lost, wherever chunks are cut and
\* whichever waits run out in between: when the generator ends as the upstream
\* did, the client, or the body made for it, has every piece.
NothingLost ==
    ended \in {"clean", "raised", "stall", "assembled"} => client.got = upstream.got

\* A client that keeps up hears something at least once per heartbeat, pings and
\* cut events or not.  In pass-through mode, not while a chunk is held back.
ClientHears ==
    client.idle <= Heartbeat \/ slow \/ (mode = "pass" /\ client.withheld) \/ ~Running

\* A body made of the events stands for a response that the upstream has
\* completed, unless it failed with an error that looks like a wait's.
BodyIsComplete == ended = "assembled" => upstream.state \in {"closed", "timeout"}

\* "Upstream has emitted no non-ping SSE event for threshold seconds": when the
\* watchdog gives up, that is so, but for an event of the same tick.
WatchdogIsRight == ended = "watchdog" => quiet \notin 1..Threshold - 1

\* With a client that keeps up it is: the watchdog's clock, which starts when
\* an event is taken, agrees with the upstream's.
WatchdogIsRightInTime == WatchdogIsRight \/ slow

\* Every response ends: the client goes, the upstream ends, or the watchdog puts
\* an end to it, although pings may come for ever.
ResponseEnds == <>~Running

=============================================================================
