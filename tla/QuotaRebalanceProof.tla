------------------------ MODULE QuotaRebalanceProof ------------------------
(***************************************************************************)
(* Proofs about QuotaRebalance, for any number of runs, faults and changes *)
(* from outside, any thresholds and any entries.                           *)
(*                                                                         *)
(* The argument: what keeps a healthy account in service is that its row,  *)
(* on disk and in every run's copy, counts no more refusals and used up    *)
(* weeks than answers were wrong, so that no run, however old its copy,    *)
(* comes to the place where it would close it.  What keeps the pod ahead   *)
(* of the entries is that a run that is alone knows of them: there are     *)
(* none where it may scale to zero, and none under the mark of a scaling   *)
(* that has failed.                                                        *)
(***************************************************************************)
EXTENDS QuotaRebalance, TLAPS

-----------------------------------------------------------------------------
(* Rows.                                                                   *)

\* The counters of a row may start, and those of refusals and probes may be used up.
LEMMA Bounds ==
    /\ Threshold \in Nat \ {0} /\ MaxFails \in Nat \ {0} /\ MaxRepairs \in Nat
    /\ MaxRuns \in Nat \ {0} /\ MaxEvents \in Nat /\ MaxCredits \in Nat
    /\ Asked \in Models /\ Models # {}
    /\ 0 \in 0..Threshold /\ Threshold \in 0..Threshold
    /\ 0 \in 0..MaxFails /\ 0 \in 0..MaxRepairs
BY RebalanceAssumptions

LEMMA ProbedRow ==
    ASSUME NEW seen \in SUBSET Windows, NEW paused \in BOOLEAN, NEW hits \in 0..1
    PROVE  /\ Probed(seen, paused, hits) \in Row
           /\ Probed(seen, paused, hits).tier = "usage"
           /\ Probed(seen, paused, hits).paused = paused
           /\ Probed(seen, paused, hits).manual = FALSE
           /\ Probed(seen, paused, hits).c401 = 0
           /\ Probed(seen, paused, hits).hits = hits
           /\ Probed(seen, paused, hits).pending = FALSE
           /\ Probed(seen, paused, hits).repairs = 0
BY Bounds DEF Probed, Row

LEMMA ReopenedRow ==
    ASSUME NEW row \in Row
    PROVE  /\ Reopened(row) \in Row
           /\ Reopened(row).tier = "usage"
           /\ Reopened(row).paused = FALSE
           /\ Reopened(row).manual = FALSE
           /\ Reopened(row).c401 = 0
           /\ Reopened(row).hits = row.hits
           /\ Reopened(row).pending = FALSE
           /\ Reopened(row).repairs = row.repairs
BY Bounds DEF Reopened, Row

LEMMA ClosedRow ==
    ASSUME NEW row \in Row
    PROVE  /\ Closed(row) \in Row
           /\ Closed(row).pending = row.pending
BY DEF Closed, Row

LEMMA StillCapRow ==
    ASSUME NEW row \in Row, NEW seen \in SUBSET Windows
    PROVE  /\ StillCap(row, seen) \in Row
           /\ StillCap(row, seen).pending = row.pending
<1>1. ("5h" \in seen) \in BOOLEAN
    OBVIOUS
<1>2. ASSUME NEW ahead \in BOOLEAN
      PROVE  LET new == [row EXCEPT !.full = seen, !.ahead = ahead, !.cool = TRUE,
                                    !.fails = 0, !.recent = TRUE]
             IN  new \in Row /\ new.pending = row.pending
    BY Bounds DEF Row
<1>3. QED
    BY <1>1, <1>2, Zenon DEF StillCap

LEMMA BankTriedRow ==
    ASSUME NEW row \in Row, NEW bank \in BOOLEAN
    PROVE  /\ [row EXCEPT !.bank = bank] \in Row
           /\ [row EXCEPT !.bank = bank].pending = row.pending
BY DEF Row

LEMMA TokenInvalidRow ==
    ASSUME NEW row \in Row
    PROVE  /\ TokenInvalid(row) \in Row
           /\ TokenInvalid(row).pending = row.pending
BY DEF TokenInvalid, Row

LEMMA ProbeFailedRow ==
    ASSUME NEW row \in Row
    PROVE  /\ ProbeFailed(row) \in Row
           /\ ProbeFailed(row).pending = row.pending
<1> DEFINE n == IF row.fails < MaxFails THEN row.fails + 1 ELSE row.fails
<1>1. n \in 0..MaxFails
    BY Bounds DEF Row
<1>2. (row.manual \/ n = MaxFails) \in BOOLEAN
    OBVIOUS
<1>3. ASSUME NEW fails \in 0..MaxFails, NEW manual \in BOOLEAN
      PROVE  LET new == [row EXCEPT !.fails = fails, !.manual = manual, !.cool = TRUE, !.recent = TRUE]
             IN  new \in Row /\ new.pending = row.pending
    BY DEF Row
<1> DEFINE new == [row EXCEPT !.fails = n, !.manual = row.manual \/ n = MaxFails,
                              !.cool = TRUE, !.recent = TRUE]
<1>4. ProbeFailed(row) = new
    BY DEF ProbeFailed, Row
<1>5. new \in Row /\ new.pending = row.pending
  <2> HIDE DEF n
  <2>1. QED
    BY <1>1, <1>2, <1>3, Zenon
<1> HIDE DEF new
<1>6. QED
    BY <1>4, <1>5

LEMMA RevivedRow ==
    ASSUME NEW row \in Row
    PROVE  /\ Revived(row) \in Row
           /\ Revived(row).pending = row.pending
BY Bounds DEF Revived, Row

LEMMA RefusedRow ==
    ASSUME NEW row \in Row, NEW n \in 0..Threshold
    PROVE  /\ Refused(row, n) \in Row
           /\ Refused(row, n).pending = row.pending
           /\ Refused(row, n).tier = row.tier
           /\ Refused(row, n).paused = row.paused
           /\ Refused(row, n).manual = row.manual
           /\ Refused(row, n).hits = row.hits
           /\ Refused(row, n).c401 = n
BY DEF Refused, Row

LEMMA TokenDeadRow ==
    ASSUME NEW row \in Row
    PROVE  /\ TokenDead(row) \in Row
           /\ TokenDead(row).pending = FALSE
BY Bounds DEF TokenDead, Row

LEMMA OverRow ==
    ASSUME NEW row \in Row, NEW w \in Windows
    PROVE  /\ Over(row, w) \in Row
           /\ Over(row, w).pending = row.pending
           /\ Over(row, w).tier = row.tier
           /\ Over(row, w).paused = row.paused
           /\ Over(row, w).manual = row.manual
           /\ Over(row, w).hits = row.hits
           /\ Over(row, w).c401 = row.c401
           /\ Over(row, w).repairs = row.repairs
BY DEF Over, Row

LEMMA ElapsedRow ==
    ASSUME NEW row \in Row, NEW f \in Timers
    PROVE  /\ Elapsed(row, f) \in Row
           /\ Elapsed(row, f).pending = row.pending
           /\ Elapsed(row, f).tier = row.tier
           /\ Elapsed(row, f).paused = row.paused
           /\ Elapsed(row, f).manual = row.manual
           /\ Elapsed(row, f).hits = row.hits
           /\ Elapsed(row, f).c401 = row.c401
<1>1. CASE f = "recent"
    BY <1>1 DEF Elapsed, Row
<1>2. CASE f = "cool"
    BY <1>2 DEF Elapsed, Row
<1>3. CASE f = "bank"
    BY <1>3 DEF Elapsed, Row
<1>4. CASE f = "mending"
    BY <1>4 DEF Elapsed, Row
<1>5. QED
    BY <1>1, <1>2, <1>3, <1>4 DEF Timers

-----------------------------------------------------------------------------
(* The inductive invariant.                                                *)

\* A login is tried only while attempts are left, and no kind of event happens
\* more often than events do.
RepairsLeft == \A r \in Runs : At(r, {"repair"}) => run[r].row.repairs < MaxRepairs

Counted ==
    /\ \A k \in Faults : spent[k] <= events
    /\ \A k \in Changes : made[k] <= events

Typed == TypeOK /\ RepairsLeft /\ Counted

\* What HealthyStaysOnline supposes, and what it then finds: the account is open
\* in every row, with no more than the refusals and used up weeks there were,
\* and no run is where it would be closed.
Confirmed ==
    /\ Never({"fill", "revoke", "down", "drop"})
    /\ spent["401"] + spent["ssh"] < Threshold
    /\ spent["week"] < 2
    /\ spent["5h"] = 0 \/ spent["ask"] = 0

OpenRow(row, faults) ==
    /\ row.tier = "usage" /\ ~row.paused /\ ~row.manual /\ ~row.pending
    /\ row.c401 <= faults["401"] + faults["ssh"]
    /\ row.hits = 1 => faults["week"] > 0

OpenRun(q, faults) ==
    /\ q.pc \in {"idle", "turn", "probe", "ask", "drift", "end"}
    /\ q.snap # "zero" /\ q.listed # "none"
    /\ q.pc = "ask" => faults["5h"] > 0
    /\ OpenRow(q.row, faults)

InService == replicas = 1 /\ router = Models /\ full = {} /\ token = "good"

StaysOpen ==
    Confirmed => InService /\ OpenRow(disk, spent) /\ \A r \in Runs : OpenRun(run[r], spent)

\* What PodsBeforeEntries supposes, and what a run that is alone knows then:
\* there are no entries wherever it may scale to zero, nor while a row
\* has the mark of a failed scaling, and there is a pod where it makes entries.
Undisturbed ==
    /\ spent["litellm"] = 0 /\ spent["overlap"] = 0
    /\ ~marked
    /\ Never({"up", "down", "add", "drop"})

Out == {"fast", "revive", "wake", "asked", "alive", "bankDown",
        "zero", "ghost", "quiet", "down", "retry"}

Orderly(q, entries, pods) ==
    /\ q.pc # "idle" /\ q.row.pending => entries = {}
    /\ q.pc \in Out => entries = {}
    /\ q.pc \in {"enlist", "register"} => pods = 1
    /\ q.pc = "turn" /\ q.snap = "zero" => pods = 0

Alone == \A r \in Runs : r # 1 => At(r, {"idle"})

Unrouted == (router # {} => replicas = 1) /\ (disk.pending => router = {})

InOrder == Undisturbed => Unrouted /\ Alone /\ \A r \in Runs : Orderly(run[r], router, replicas)

IInv == Typed /\ StaysOpen /\ InOrder

-----------------------------------------------------------------------------
(* Faults are counted, and a run moves.                                    *)

Tally == Luck \/ \E k \in Faults : Spend(k)

Grows == \A k \in Faults : spent[k] <= spent'[k] /\ spent'[k] \in Nat

LEMMA TallyCounts ==
    ASSUME Typed, Tally, made' = made
    PROVE  /\ spent' \in [Faults -> 0..MaxEvents]
           /\ events' \in 0..MaxEvents
           /\ Counted'
           /\ Grows
<1>1. /\ spent \in [Faults -> 0..MaxEvents] /\ events \in 0..MaxEvents
      /\ made \in [Changes -> 0..MaxEvents]
      /\ MaxEvents \in Nat
    BY Bounds DEF Typed, TypeOK
<1>2. Counted
    BY DEF Typed
<1>3. CASE Luck
    BY <1>1, <1>2, <1>3 DEF Luck, Counted, Grows
<1>4. ASSUME NEW k \in Faults, Spend(k)
      PROVE  /\ spent' \in [Faults -> 0..MaxEvents]
             /\ events' \in 0..MaxEvents
             /\ Counted'
             /\ Grows
  <2>1. events < MaxEvents /\ events' = events + 1 /\ spent' = [spent EXCEPT ![k] = spent[k] + 1]
    BY <1>4 DEF Spend, Another
  <2>2. spent[k] <= events
    BY <1>2 DEF Counted
  <2>3. /\ spent'[k] = spent[k] + 1
        /\ \A f \in Faults \ {k} : spent'[f] = spent[f]
    BY <1>1, <2>1
  <2>4. \A f \in Faults : spent'[f] \in 0..MaxEvents /\ spent'[f] <= events' /\ spent[f] <= spent'[f]
    BY <1>1, <1>2, <2>1, <2>2, <2>3 DEF Counted
  <2>5. \A c \in Changes : made'[c] <= events'
    BY <1>1, <1>2, <2>1 DEF Counted
  <2>6. events' \in 0..MaxEvents
    BY <1>1, <2>1
  <2>7. spent' \in [Faults -> 0..MaxEvents]
    BY <1>1, <2>1, <2>4
  <2>8. QED
    BY <1>1, <2>4, <2>5, <2>6, <2>7 DEF Counted, Grows
<1>5. QED
    BY <1>3, <1>4 DEF Tally

\* A fault is counted as what it is.
LEMMA SpendCounts ==
    ASSUME Typed, NEW k \in Faults, Spend(k)
    PROVE  /\ spent'[k] = spent[k] + 1
           /\ \A f \in Faults \ {k} : spent'[f] = spent[f]
           /\ \A f \in Faults : spent[f] \in Nat
           /\ Tally
<1>1. spent \in [Faults -> 0..MaxEvents] /\ MaxEvents \in Nat
    BY Bounds DEF Typed, TypeOK
<1>2. spent' = [spent EXCEPT ![k] = spent[k] + 1]
    BY DEF Spend
<1>3. QED
    BY <1>1, <1>2 DEF Tally

\* A fault more leaves both suppositions weaker.
LEMMA SuppositionsKept ==
    ASSUME Typed, Grows, made' = made, marked => marked'
    PROVE  /\ Confirmed' => Confirmed
           /\ Undisturbed' => Undisturbed
<1>1. /\ spent \in [Faults -> 0..MaxEvents]
      /\ {"401", "ssh", "week", "5h", "ask", "litellm", "overlap"} \subseteq Faults
      /\ MaxEvents \in Nat /\ Threshold \in Nat
    BY Bounds DEF Typed, TypeOK, Faults
<1>2. \A k \in {"401", "ssh", "week", "5h", "ask", "litellm", "overlap"} :
         spent[k] \in Nat /\ spent'[k] \in Nat /\ spent[k] <= spent'[k]
    BY <1>1 DEF Grows
<1>3. Confirmed' => Confirmed
    BY <1>1, <1>2 DEF Confirmed, Never
<1>4. Undisturbed' => Undisturbed
    BY <1>1, <1>2 DEF Undisturbed, Never
<1>5. QED
    BY <1>3, <1>4

\* An open row stays one.
LEMMA OpenKept ==
    ASSUME Typed, Grows
    PROVE  /\ \A row \in Row : OpenRow(row, spent) => OpenRow(row, spent')
           /\ \A q \in Run : OpenRun(q, spent) => OpenRun(q, spent')
<1>1. /\ spent \in [Faults -> 0..MaxEvents]
      /\ {"401", "ssh", "week", "5h"} \subseteq Faults
      /\ MaxEvents \in Nat /\ Threshold \in Nat
    BY Bounds DEF Typed, TypeOK, Faults
<1>2. \A k \in {"401", "ssh", "week", "5h"} :
         spent[k] \in Nat /\ spent'[k] \in Nat /\ spent[k] <= spent'[k]
    BY <1>1 DEF Grows
<1>3. ASSUME NEW row \in Row, OpenRow(row, spent)
      PROVE  OpenRow(row, spent')
  <2>1. row.c401 \in Nat
    BY <1>1 DEF Row
  <2>2. QED
    BY <1>2, <1>3, <2>1 DEF OpenRow
<1>4. ASSUME NEW q \in Run, OpenRun(q, spent)
      PROVE  OpenRun(q, spent')
  <2>1. q.row \in Row
    BY DEF Run
  <2>2. QED
    BY <1>2, <1>3, <1>4, <2>1 DEF OpenRun
<1>5. QED
    BY <1>3, <1>4

\* Run r goes on, and keeps its snapshots.
Moves(r) ==
    /\ run' \in [Runs -> Run]
    /\ \A o \in Runs \ {r} : run'[o] = run[o]

SameSnaps(r) == run'[r].snap = run[r].snap /\ run'[r].listed = run[r].listed

LEMMA GotoMoves ==
    ASSUME run \in [Runs -> Run], NEW r \in Runs, NEW pc \in Place, Goto(r, pc)
    PROVE  Moves(r) /\ SameSnaps(r) /\ run'[r].pc = pc /\ run'[r].row = run[r].row /\ run'[r].row \in Row
<1>1. run[r] \in Run
    OBVIOUS
<1> DEFINE q == [run[r] EXCEPT !.pc = pc]
<1>2. /\ q \in Run /\ q.pc = pc /\ q.row = run[r].row /\ q.row \in Row
      /\ q.snap = run[r].snap /\ q.listed = run[r].listed
    BY <1>1 DEF Run
<1>3. run' = [run EXCEPT ![r] = q]
    BY DEF Goto
<1> HIDE DEF q
<1>4. QED
    BY <1>2, <1>3 DEF Moves, SameSnaps

LEMMA ContinueMoves ==
    ASSUME run \in [Runs -> Run], NEW r \in Runs, NEW pc \in Place, NEW row \in Row,
           Continue(r, pc, row)
    PROVE  Moves(r) /\ SameSnaps(r) /\ run'[r].pc = pc /\ run'[r].row = row
<1>1. run[r] \in Run
    OBVIOUS
<1> DEFINE q == [run[r] EXCEPT !.pc = pc, !.row = row]
<1>2. /\ q \in Run /\ q.pc = pc /\ q.row = row
      /\ q.snap = run[r].snap /\ q.listed = run[r].listed
    BY <1>1 DEF Run
<1>3. run' = [run EXCEPT ![r] = q]
    BY DEF Continue
<1> HIDE DEF q
<1>4. QED
    BY <1>2, <1>3 DEF Moves, SameSnaps

\* The same with what was seen.
Sees(r, pc, row, seen) ==
    run' = [run EXCEPT ![r].pc = pc, ![r].row = row, ![r].seen = seen]

LEMMA SeesMoves ==
    ASSUME run \in [Runs -> Run], NEW r \in Runs, NEW pc \in Place, NEW row \in Row,
           NEW seen \in SUBSET Windows,
           Sees(r, pc, row, seen)
    PROVE  Moves(r) /\ SameSnaps(r) /\ run'[r].pc = pc /\ run'[r].row = row
<1>1. run[r] \in Run
    OBVIOUS
<1> DEFINE q == [run[r] EXCEPT !.pc = pc, !.row = row, !.seen = seen]
<1>2. /\ q \in Run /\ q.pc = pc /\ q.row = row
      /\ q.snap = run[r].snap /\ q.listed = run[r].listed
    BY <1>1 DEF Run
<1>3. run' = [run EXCEPT ![r] = q]
    BY DEF Sees
<1> HIDE DEF q
<1>4. QED
    BY <1>2, <1>3 DEF Moves, SameSnaps

LEMMA IdleRun == NoRun \in Run /\ NoRun.pc = "idle" /\ NoRun.snap = "unknown"
                 /\ NoRun.listed = "unknown" /\ NoRun.row = Probed({}, FALSE, 0)
<1>1. {} \in SUBSET Windows /\ FALSE \in BOOLEAN /\ 0 \in 0..1 /\ "idle" \in Place
    BY DEF Place
<1>2. Probed({}, FALSE, 0) \in Row
    BY <1>1, ProbedRow
<1>3. ASSUME NEW row \in Row, NEW seen \in SUBSET Windows
      PROVE  [pc |-> "idle", row |-> row, snap |-> "unknown", listed |-> "unknown", seen |-> seen] \in Run
    BY <1>1 DEF Run
<1>4. NoRun \in Run
    BY <1>1, <1>2, <1>3, Zenon DEF NoRun
<1>5. QED
    BY <1>4 DEF NoRun

-----------------------------------------------------------------------------
(* A step of a run that is under way, or that starts: the first one, unless *)
(* the runs overlap.                                                       *)

Aside(r) ==
    /\ ~At(r, {"idle"}) \/ r = 1 \/ Spend("overlap")
    /\ Moves(r)
    /\ Tally
    /\ disk' = disk /\ sub' = sub /\ vip' = vip /\ made' = made

\* The rest of the state keeps its types; windows only end, and a token is only
\* renewed, while a run goes on.
Sane ==
    /\ replicas' \in 0..1 /\ router' \in SUBSET Models
    /\ full' \in SUBSET full /\ token' \in {token, "good"}
    /\ copy' \in Copy /\ credits' \in 0..MaxCredits
    /\ marked' \in BOOLEAN /\ (marked => marked')

MayOpen(r) ==
    Confirmed /\ Confirmed' =>
       replicas' = 1 /\ router' = Models /\ OpenRun(run'[r], spent')

MayOrder(r) ==
    Undisturbed /\ Undisturbed' =>
       /\ router' # {} => replicas' = 1
       /\ disk.pending => router' = {}
       /\ Orderly(run'[r], router', replicas')

MayRepairMore(r) ==
    run'[r].pc = "repair" => run'[r].row.repairs < MaxRepairs

LEMMA StepOfRun ==
    ASSUME IInv, NEW r \in Runs, Aside(r), Sane, MayOpen(r), MayOrder(r), MayRepairMore(r)
    PROVE  IInv'
<1>1. Typed /\ TypeOK
    BY DEF IInv, Typed
<1>2. /\ spent' \in [Faults -> 0..MaxEvents] /\ events' \in 0..MaxEvents
      /\ Counted' /\ Grows
    BY <1>1, TallyCounts DEF Aside
<1>3. /\ run \in [Runs -> Run] /\ run' \in [Runs -> Run]
      /\ \A o \in Runs \ {r} : run'[o] = run[o]
    BY <1>1 DEF TypeOK, Aside, Moves
<1>4. (Confirmed' => Confirmed) /\ (Undisturbed' => Undisturbed)
    BY <1>1, <1>2, SuppositionsKept DEF Aside, Sane
<1>5. TypeOK'
    BY <1>1, <1>2, <1>3 DEF TypeOK, Aside, Sane
<1>6. RepairsLeft'
  <2>1. ASSUME NEW o \in Runs, run'[o].pc = "repair"
        PROVE  run'[o].row.repairs < MaxRepairs
    BY <1>1, <1>3, <2>1 DEF Typed, RepairsLeft, At, MayRepairMore
  <2>2. QED
    BY <2>1 DEF RepairsLeft, At
<1>7. StaysOpen'
  <2>1. SUFFICES ASSUME Confirmed'
                 PROVE  (InService /\ OpenRow(disk, spent) /\ \A o \in Runs : OpenRun(run[o], spent))'
    BY DEF StaysOpen
  <2>2. InService /\ OpenRow(disk, spent) /\ \A o \in Runs : OpenRun(run[o], spent)
    BY <1>4, <2>1 DEF IInv, StaysOpen
  <2>3. replicas' = 1 /\ router' = Models /\ OpenRun(run'[r], spent')
    BY <1>4, <2>1 DEF MayOpen
  <2>4. full' = {} /\ token' = "good"
    BY <2>2 DEF InService, Sane
  <2>5. disk \in Row /\ disk' = disk
    BY <1>1 DEF TypeOK, Aside
  <2>6. OpenRow(disk', spent')
    BY <1>1, <1>2, <2>2, <2>5, OpenKept
  <2>7. ASSUME NEW o \in Runs \ {r}
        PROVE  OpenRun(run'[o], spent')
    <3>1. run[o] \in Run /\ OpenRun(run[o], spent)
      BY <1>3, <2>2
    <3>2. OpenRun(run[o], spent')
      BY <1>1, <1>2, <3>1, OpenKept
    <3>3. QED
      BY <1>3, <3>2
  <2>8. QED
    BY <2>3, <2>4, <2>6, <2>7 DEF InService
<1>8. InOrder'
  <2>1. SUFFICES ASSUME Undisturbed'
                 PROVE  (Unrouted /\ Alone /\ \A o \in Runs : Orderly(run[o], router, replicas))'
    BY DEF InOrder
  <2>2. Alone
    BY <1>4, <2>1 DEF IInv, InOrder
  <2>3. /\ router' # {} => replicas' = 1
        /\ disk.pending => router' = {}
        /\ Orderly(run'[r], router', replicas')
    BY <1>4, <2>1 DEF MayOrder
  <2>4. r = 1
    <3>1. ~Spend("overlap")
      BY <1>1, <2>1, SpendCounts DEF Undisturbed, Faults
    <3>2. QED
      BY <2>2, <3>1 DEF Alone, Aside
  <2>5. \A o \in Runs \ {r} : run'[o] = run[o] /\ run[o].pc = "idle"
    BY <1>3, <2>2, <2>4 DEF Alone, At
  <2>6. Alone'
    BY <2>4, <2>5 DEF Alone, At
  <2>7. ASSUME NEW o \in Runs \ {r}
        PROVE  Orderly(run'[o], router', replicas')
    BY <2>5 DEF Orderly, Out
  <2>8. QED
    BY <2>3, <2>6, <2>7 DEF Unrouted, Aside
<1>9. QED
    BY <1>2, <1>5, <1>6, <1>7, <1>8 DEF IInv, Typed

\* What a step that changes neither pod nor entries needs to keep.
LEMMA WorldKept ==
    ASSUME IInv, replicas' = replicas, router' = router, marked' = marked
    PROVE  /\ Confirmed => replicas' = 1 /\ router' = Models
           /\ Undisturbed => (router' # {} => replicas' = 1) /\ (disk.pending => router' = {})
           /\ replicas' \in 0..1 /\ router' \in SUBSET Models
           /\ marked' \in BOOLEAN /\ (marked => marked')
<1>1. /\ replicas \in 0..1 /\ router \in SUBSET Models /\ marked \in BOOLEAN
    BY DEF IInv, Typed, TypeOK
<1>2. Confirmed => replicas = 1 /\ router = Models
    BY DEF IInv, StaysOpen, InService
<1>3. Undisturbed => (router # {} => replicas = 1) /\ (disk.pending => router = {})
    BY DEF IInv, InOrder, Unrouted
<1>4. QED
    BY <1>1, <1>2, <1>3

\* A run that is somewhere else than an account at work leads is not confirmed.
LEMMA Elsewhere ==
    ASSUME IInv, NEW r \in Runs,
           ~At(r, {"idle", "turn", "probe", "ask", "drift", "end"})
    PROVE  ~Confirmed
BY DEF IInv, StaysOpen, OpenRun, At

LEMMA AtHand ==
    ASSUME IInv, NEW r \in Runs
    PROVE  /\ run \in [Runs -> Run] /\ run[r] \in Run /\ run[r].row \in Row /\ run[r].pc \in Place
           /\ run[r].snap \in {"unknown", "zero", "up"} /\ run[r].listed \in {"unknown", "none", "some"}
           /\ run[r].seen \in SUBSET Windows
           /\ replicas \in 0..1 /\ router \in SUBSET Models /\ full \in SUBSET Windows
           /\ token \in {"good", "dead"} /\ copy \in Copy /\ credits \in 0..MaxCredits
           /\ Confirmed => InService /\ OpenRun(run[r], spent) /\ OpenRow(run[r].row, spent)
           /\ Undisturbed => Unrouted /\ Orderly(run[r], router, replicas)
<1>1. run \in [Runs -> Run]
    BY DEF IInv, Typed, TypeOK
<1>2. run[r] \in Run
    BY <1>1
<1>3. /\ run[r].row \in Row /\ run[r].pc \in Place
      /\ run[r].snap \in {"unknown", "zero", "up"} /\ run[r].listed \in {"unknown", "none", "some"}
      /\ run[r].seen \in SUBSET Windows
    BY <1>2 DEF Run
<1>4. /\ replicas \in 0..1 /\ router \in SUBSET Models /\ full \in SUBSET Windows
      /\ token \in {"good", "dead"} /\ copy \in Copy /\ credits \in 0..MaxCredits
    BY DEF IInv, Typed, TypeOK
<1>5. Confirmed => InService /\ OpenRun(run[r], spent)
    BY DEF IInv, StaysOpen
<1>6. Undisturbed => Unrouted /\ Orderly(run[r], router, replicas)
    BY DEF IInv, InOrder
<1>7. Confirmed => OpenRow(run[r].row, spent)
    BY <1>5 DEF OpenRun
<1>8. QED
    BY <1>1, <1>2, <1>3, <1>4, <1>5, <1>6, <1>7

\* With faults counted, what was open is open still.
LEMMA StillOpen ==
    ASSUME IInv, Tally, made' = made
    PROVE  /\ \A row \in Row : OpenRow(row, spent) => OpenRow(row, spent')
           /\ \A q \in Run : OpenRun(q, spent) => OpenRun(q, spent')
BY TallyCounts, OpenKept DEF IInv

\* A step after which account and run are no more open than before.
LEMMA StepOut ==
    ASSUME IInv, NEW r \in Runs, Aside(r), Sane, MayOrder(r),
           ~At(r, {"idle", "turn", "probe", "ask", "drift", "end"}), run'[r].pc # "repair"
    PROVE  IInv'
<1>1. ~Confirmed
    BY Elsewhere
<1>2. MayOpen(r) /\ MayRepairMore(r)
    BY <1>1 DEF MayOpen, MayRepairMore
<1>3. QED
    BY <1>2, StepOfRun

-----------------------------------------------------------------------------
(* The actions of a run.                                                   *)

\* Where a turn leads.
TurnsTo(r, busy) ==
    LET q == run[r]
        row == Reopen(q)
    IN  CASE q.snap = "up" /\ row.pending -> "retry"
          [] q.snap = "zero" /\ Revivable(row) /\ ~busy -> IF copy.age = "fresh" THEN "fast" ELSE "wake"
          [] q.snap = "zero" /\ ~(Revivable(row) /\ ~busy) -> "zero"
          [] q.snap # "zero" /\ ~(q.snap = "up" /\ row.pending) -> IF ShouldProbe(row) THEN "probe" ELSE "end"

LEMMA TurnKeeps ==
    ASSUME IInv, NEW r \in Runs, Turn(r)
    PROVE  IInv'
<1>1. /\ At(r, {"turn"}) /\ run[r].pc = "turn"
      /\ UNCHANGED <<disk, replicas, router, full, token, copy, credits, sub, vip, made, marked>>
    BY DEF Turn, At
<1>2. PICK busy \in BOOLEAN :
         /\ IF busy THEN Spend("busy") ELSE Luck
         /\ IF MayRepair(run[r].row) /\ ~busy THEN Goto(r, "repair")
            ELSE Continue(r, TurnsTo(r, busy), Reopen(run[r]))
    BY DEF Turn, TurnsTo
<1>3. Tally
    BY <1>2 DEF Tally, Faults
<1>4. Sane
    BY <1>1, AtHand, WorldKept DEF Sane
<1>5. \A row \in Row : OpenRow(row, spent) => OpenRow(row, spent')
    BY <1>1, <1>3, StillOpen
<1>6. run[r].row \in Row /\ run[r].snap \in {"unknown", "zero", "up"} /\ run \in [Runs -> Run]
    BY AtHand
<1>7. CASE MayRepair(run[r].row) /\ ~busy
  <2>1. Moves(r) /\ run'[r].pc = "repair" /\ run'[r].row = run[r].row
    BY <1>2, <1>6, <1>7, GotoMoves DEF Place
  <2>2. Aside(r)
    BY <1>1, <1>3, <2>1 DEF Aside, At
  <2>3. run[r].row.tier = "token" /\ run[r].row.repairs < MaxRepairs
    BY <1>7 DEF MayRepair
  <2>4. ~Confirmed
    BY <2>3, AtHand DEF OpenRow
  <2>5. MayOrder(r)
    BY <1>1, <2>1, AtHand, WorldKept DEF MayOrder, Orderly, Out
  <2>6. QED
    BY <1>4, <2>1, <2>2, <2>3, <2>4, <2>5, StepOfRun DEF MayOpen, MayRepairMore
<1>8. CASE ~(MayRepair(run[r].row) /\ ~busy)
  <2> DEFINE row == Reopen(run[r])
             pc == TurnsTo(r, busy)
  <2>1. /\ row \in Row
        /\ row.pending => run[r].row.pending
        /\ run[r].row.tier = "usage" => row = run[r].row
    BY <1>6, ReopenedRow DEF Reopen
  <2>2. /\ pc \in {"retry", "fast", "wake", "zero", "probe", "end"}
        /\ pc = "retry" => row.pending
        /\ pc \in {"fast", "wake", "zero"} => run[r].snap = "zero"
    <3> HIDE DEF row
    <3>1. CASE run[r].snap = "zero"
      BY <3>1 DEF TurnsTo, row
    <3>2. CASE run[r].snap = "up" /\ row.pending
      BY <3>2 DEF TurnsTo, row
    <3>3. CASE run[r].snap # "zero" /\ ~(run[r].snap = "up" /\ row.pending)
      BY <3>3 DEF TurnsTo, row
    <3>4. QED
      BY <3>1, <3>2, <3>3
  <2>3. pc \in Place
    BY <2>2 DEF Place
  <2> HIDE DEF row, pc
  <2>4. Continue(r, pc, row)
    BY <1>2, <1>8 DEF row, pc
  <2>5. Moves(r) /\ SameSnaps(r) /\ run'[r].pc = pc /\ run'[r].row = row
    BY <1>6, <2>1, <2>3, <2>4, ContinueMoves
  <2>6. Aside(r)
    BY <1>1, <1>3, <2>5 DEF Aside, At
  <2>7. MayOpen(r)
    <3>1. SUFFICES ASSUME Confirmed
                   PROVE  replicas' = 1 /\ router' = Models /\ OpenRun(run'[r], spent')
      BY DEF MayOpen
    <3>2. /\ run[r].snap # "zero" /\ run[r].listed # "none"
          /\ OpenRow(run[r].row, spent)
      BY <3>1, AtHand DEF OpenRun
    <3>3. row = run[r].row /\ ~row.pending
      BY <2>1, <3>2 DEF OpenRow
    <3>4. OpenRow(row, spent')
      BY <1>5, <1>6, <3>2, <3>3
    <3>5. run'[r].snap = run[r].snap /\ run'[r].listed = run[r].listed
      BY <2>5 DEF SameSnaps
    <3>6. pc \in {"probe", "end"}
      BY <2>2, <3>2, <3>3
    <3>7. OpenRun(run'[r], spent')
      BY <2>5, <3>2, <3>4, <3>5, <3>6 DEF OpenRun
    <3>8. QED
      BY <1>1, <3>1, <3>7, WorldKept
  <2>8. MayOrder(r)
    <3>1. SUFFICES ASSUME Undisturbed
                   PROVE  Orderly(run'[r], router', replicas')
      BY <1>1, WorldKept DEF MayOrder
    <3>2. /\ run[r].row.pending => router = {}
          /\ run[r].snap = "zero" => replicas = 0
          /\ router # {} => replicas = 1
      BY <1>1, <3>1, AtHand DEF Orderly, Unrouted
    <3>3. run[r].snap = "zero" => router = {}
      BY <3>2
    <3>4. QED
      BY <1>1, <2>1, <2>2, <2>5, <3>2, <3>3 DEF Orderly, Out
  <2>9. QED
    BY <1>4, <2>2, <2>5, <2>6, <2>7, <2>8, StepOfRun DEF MayRepairMore
<1>9. QED
    BY <1>7, <1>8

\* Where the account is out of the router, a run may do anything with the pod.
LEMMA OutKeepsOrder ==
    ASSUME IInv, NEW r \in Runs, At(r, Out), router' = router,
           run'[r].pc # "turn", run'[r].pc \in {"enlist", "register"} => replicas' = 1
    PROVE  MayOrder(r)
<1>1. SUFFICES ASSUME Undisturbed
               PROVE  router' = {} /\ Orderly(run'[r], router', replicas')
    BY DEF MayOrder
<1>2. router' = {}
    BY <1>1, AtHand DEF Orderly, At
<1>3. QED
    BY <1>2 DEF Orderly

LEMMA RepairKeeps ==
    ASSUME IInv, NEW r \in Runs, Repair(r)
    PROVE  IInv'
<1> DEFINE row == [run[r].row EXCEPT !.repairs = @ + 1, !.mending = TRUE, !.recent = FALSE]
<1>1. /\ At(r, {"repair"}) /\ run[r].pc = "repair"
      /\ Continue(r, "end", row)
      /\ UNCHANGED <<disk, replicas, router, full, credits, sub, vip, spent, made, events, marked>>
    BY DEF Repair, At
<1>2. run[r].row \in Row /\ run \in [Runs -> Run] /\ copy \in Copy
    BY AtHand
<1>3. run[r].row.repairs < MaxRepairs
    BY <1>1 DEF IInv, Typed, RepairsLeft, At
<1>4. row \in Row /\ row.pending = run[r].row.pending
  <2> DEFINE old == run[r].row
             n == old.repairs + 1
  <2>1. old \in Row /\ n \in 0..MaxRepairs
    BY <1>2, <1>3, Bounds DEF Row
  <2>2. row = [old EXCEPT !.repairs = n, !.mending = TRUE, !.recent = FALSE]
    OBVIOUS
  <2> HIDE DEF old, n, row
  <2>3. row \in Row /\ row.pending = old.pending
    BY <2>1, <2>2 DEF Row
  <2>4. QED
    BY <2>3 DEF old
<1> HIDE DEF row
<1>5. Moves(r) /\ run'[r].pc = "end" /\ run'[r].row = row
    BY <1>1, <1>2, <1>4, ContinueMoves DEF Place
<1>6. Aside(r)
    BY <1>1, <1>5 DEF Aside, At, Tally, Luck
<1>7. token' \in {token, "good"} /\ copy' \in {copy, [age |-> "fresh", ok |-> TRUE]}
    BY DEF Repair
<1>8. Sane
  <2>1. [age |-> "fresh", ok |-> TRUE] \in Copy
    BY DEF Copy
  <2>2. QED
    BY <1>1, <1>2, <1>7, <2>1, AtHand, WorldKept DEF Sane
<1>9. MayOrder(r)
    BY <1>1, <1>4, <1>5, AtHand, WorldKept DEF MayOrder, Orderly, Out
<1>10. QED
    BY <1>1, <1>5, <1>6, <1>8, <1>9, StepOut DEF At

LEMMA FastKeeps ==
    ASSUME IInv, NEW r \in Runs, Fast(r)
    PROVE  IInv'
<1>1. /\ At(r, {"fast"}) /\ run[r].pc = "fast"
      /\ UNCHANGED <<disk, replicas, router, full, token, copy, credits, sub, vip, made, marked>>
    BY DEF Fast, At
<1>2. PICK pc \in {"revive", "zero"} : Goto(r, pc)
    BY DEF Fast
<1>3. Tally
    BY DEF Fast, Tally, Faults
<1>4. Moves(r) /\ run'[r].pc = pc
    BY <1>2, AtHand, GotoMoves DEF Place
<1>5. Aside(r)
    BY <1>1, <1>3, <1>4 DEF Aside, At
<1>6. Sane
    BY <1>1, AtHand, WorldKept DEF Sane
<1>7. At(r, Out)
    BY <1>1 DEF At, Out
<1>8. MayOrder(r)
    BY <1>1, <1>2, <1>4, <1>7, OutKeepsOrder
<1>9. QED
    BY <1>1, <1>2, <1>4, <1>5, <1>6, <1>8, StepOut DEF At

LEMMA ReviveKeeps ==
    ASSUME IInv, NEW r \in Runs, Revive(r)
    PROVE  IInv'
<1> DEFINE row == [run[r].row EXCEPT !.cool = FALSE, !.fails = 0]
<1>1. /\ At(r, {"revive"}) /\ run[r].pc = "revive"
      /\ UNCHANGED <<disk, router, full, token, copy, credits, sub, vip, made, marked>>
      /\ Continue(r, "end", row) \/ Goto(r, "end")
    BY DEF Revive, At
<1>2. Tally /\ replicas' \in {replicas, 1}
    BY DEF Revive, Scaled, UpFails, Tally, Faults
<1>3. run[r].row \in Row /\ run \in [Runs -> Run]
    BY AtHand
<1>4. row \in Row
    BY <1>3, Bounds DEF Row
<1> HIDE DEF row
<1>5. Moves(r) /\ run'[r].pc = "end"
    BY <1>1, <1>3, <1>4, GotoMoves, ContinueMoves DEF Place
<1>6. Aside(r)
    BY <1>1, <1>2, <1>5 DEF Aside, At
<1>7. Sane
    BY <1>1, <1>2, AtHand DEF Sane, IInv, Typed, TypeOK
<1>8. At(r, Out)
    BY <1>1 DEF At, Out
<1>9. MayOrder(r)
    BY <1>1, <1>5, <1>8, OutKeepsOrder
<1>10. QED
    BY <1>1, <1>5, <1>6, <1>7, <1>9, StepOut DEF At

LEMMA WakeKeeps ==
    ASSUME IInv, NEW r \in Runs, Wake(r)
    PROVE  IInv'
<1>1. /\ At(r, {"wake"}) /\ run[r].pc = "wake"
      /\ UNCHANGED <<disk, router, full, token, copy, credits, sub, vip, made, marked>>
      /\ Continue(r, "quiet", ProbeFailed(run[r].row)) \/ Goto(r, "asked")
    BY DEF Wake, At
<1>2. Tally /\ replicas' \in {replicas, 1}
    BY DEF Wake, Scaled, UpFails, Tally, Faults
<1>3. ProbeFailed(run[r].row) \in Row /\ run \in [Runs -> Run]
    BY AtHand, ProbeFailedRow
<1>4. Moves(r) /\ run'[r].pc \in {"quiet", "asked"}
    BY <1>1, <1>3, GotoMoves, ContinueMoves DEF Place
<1>5. Aside(r)
    BY <1>1, <1>2, <1>4 DEF Aside, At
<1>6. Sane
    BY <1>1, <1>2, AtHand DEF Sane, IInv, Typed, TypeOK
<1>7. At(r, Out)
    BY <1>1 DEF At, Out
<1>8. MayOrder(r)
    BY <1>1, <1>4, <1>7, OutKeepsOrder
<1>9. QED
    BY <1>1, <1>4, <1>5, <1>6, <1>8, StepOut DEF At

\* A usage answer costs at most a fault.
LEMMA ReadingTally ==
    ASSUME NEW seen, Reading(seen)
    PROVE  Tally
BY DEF Reading, Tally, Faults, Windows

LEMMA AskPodKeeps ==
    ASSUME IInv, NEW r \in Runs, AskPod(r)
    PROVE  IInv'
<1>1. /\ At(r, {"asked"}) /\ run[r].pc = "asked"
      /\ UNCHANGED <<disk, replicas, router, full, token, credits, sub, vip, made, marked>>
    BY DEF AskPod, At
<1>2. run[r].row \in Row /\ run \in [Runs -> Run] /\ copy \in Copy
    BY AtHand
<1>3. /\ ProbeFailed(run[r].row) \in Row /\ TokenInvalid(run[r].row) \in Row
      /\ "quiet" \in Place
    BY <1>2, ProbeFailedRow, TokenInvalidRow DEF Place
<1>4. copy' \in {copy, Synced}
    BY DEF AskPod
<1>5. Tally /\ Moves(r) /\ run'[r].pc \in {"quiet", "alive", "bankDown"}
  <2>1. CASE /\ IF replicas = 0 THEN Luck ELSE Spend("ssh")
             /\ Continue(r, "quiet", ProbeFailed(run[r].row))
    BY <1>2, <1>3, <2>1, ContinueMoves DEF Tally, Faults
  <2>2. CASE Spend("openai") /\ Continue(r, "quiet", ProbeFailed(run[r].row))
    BY <1>2, <1>3, <2>2, ContinueMoves DEF Tally, Faults
  <2>3. CASE /\ IF token = "dead" THEN Luck ELSE Spend("401")
             /\ Continue(r, "quiet", TokenInvalid(run[r].row))
    BY <1>2, <1>3, <2>3, ContinueMoves DEF Tally, Faults
  <2>4. ASSUME NEW seen \in SUBSET Windows, Reading(seen),
               run' = [run EXCEPT ![r].seen = seen,
                          ![r].pc = CASE seen = {} -> "alive"
                                      [] "week" \in seen -> "bankDown"
                                      [] OTHER -> "quiet",
                          ![r].row = IF seen = {"5h"} THEN StillCap(run[r].row, seen) ELSE run[r].row]
        PROVE  Tally /\ Moves(r) /\ run'[r].pc \in {"quiet", "alive", "bankDown"}
    <3> DEFINE pc == CASE seen = {} -> "alive"
                       [] "week" \in seen -> "bankDown"
                       [] OTHER -> "quiet"
               row == IF seen = {"5h"} THEN StillCap(run[r].row, seen) ELSE run[r].row
    <3>1. pc \in {"quiet", "alive", "bankDown"}
      OBVIOUS
    <3>2. row \in Row
      BY <1>2, StillCapRow
    <3>3. run[r] = [pc |-> run[r].pc, row |-> run[r].row, snap |-> run[r].snap,
                    listed |-> run[r].listed, seen |-> run[r].seen]
      BY <1>2 DEF Run
    <3> HIDE DEF pc, row
    <3>4. run' = [run EXCEPT ![r].seen = seen, ![r].pc = pc, ![r].row = row]
      BY <2>4 DEF pc, row
    <3>5. Sees(r, pc, row, seen)
      BY <1>2, <3>3, <3>4 DEF Sees
    <3>6. pc \in Place
      BY <3>1 DEF Place
    <3>7. QED
      BY <1>2, <2>4, <3>1, <3>2, <3>5, <3>6, SeesMoves, ReadingTally
  <2>5. QED
    BY <2>1, <2>2, <2>3, <2>4 DEF AskPod
<1>6. Aside(r)
    BY <1>1, <1>5 DEF Aside, At
<1>7. Sane
  <2>1. Synced \in Copy
    BY DEF Synced, Copy
  <2>2. QED
    BY <1>1, <1>4, <2>1, AtHand, WorldKept DEF Sane
<1>8. At(r, Out)
    BY <1>1 DEF At, Out
<1>9. MayOrder(r)
    BY <1>1, <1>5, <1>8, OutKeepsOrder
<1>10. QED
    BY <1>1, <1>5, <1>6, <1>7, <1>9, StepOut DEF At

LEMMA ResumeKeeps ==
    ASSUME IInv, NEW r \in Runs, Resume(r)
    PROVE  IInv'
<1>1. /\ At(r, {"alive", "resume"}) /\ run[r].pc \in {"alive", "resume"}
      /\ UNCHANGED <<disk, router, full, token, copy, credits, sub, vip, made, marked>>
    BY DEF Resume, At
<1>2. /\ Tally /\ replicas' \in {replicas, 1}
      /\ \/ replicas' = 1 /\ (Goto(r, "enlist") \/ Goto(r, "register"))
         \/ Goto(r, "end")
    BY DEF Resume, Scaled, UpFails, Tally, Faults
<1>3. /\ Moves(r) /\ run'[r].row = run[r].row
      /\ run'[r].pc \in {"enlist", "register", "end"}
      /\ run'[r].pc # "end" => replicas' = 1
    BY <1>2, AtHand, GotoMoves DEF Place
<1>4. Aside(r)
    BY <1>1, <1>2, <1>3 DEF Aside, At
<1>5. Sane
    BY <1>1, <1>2, AtHand DEF Sane, IInv, Typed, TypeOK
<1>6. MayOrder(r)
  <2>1. SUFFICES ASSUME Undisturbed
                 PROVE  /\ router' # {} => replicas' = 1
                        /\ disk.pending => router' = {}
                        /\ Orderly(run'[r], router', replicas')
    BY DEF MayOrder
  <2>2. Unrouted /\ Orderly(run[r], router, replicas)
    BY <2>1, AtHand
  <2>3. QED
    BY <1>1, <1>2, <1>3, <2>2 DEF Unrouted, Orderly, Out
<1>7. QED
    BY <1>1, <1>3, <1>4, <1>5, <1>6, StepOut DEF At

LEMMA RegisterKeeps ==
    ASSUME IInv, NEW r \in Runs, Register(r)
    PROVE  IInv'
<1>1. /\ At(r, {"enlist", "register"}) /\ run[r].pc \in {"enlist", "register"}
      /\ UNCHANGED <<disk, replicas, full, token, copy, credits, sub, vip, made>>
      /\ marked' = (marked \/ (router' # {} /\ (disk.pending \/ run[r].row.pending)))
      /\ Continue(r, "end", Revived(run[r].row)) \/ Goto(r, "end")
    BY DEF Register, At
<1>2. Tally /\ router' \in SUBSET Models
    BY DEF Register, Tally, Faults
<1>3. run[r].row \in Row /\ run \in [Runs -> Run]
    BY AtHand
<1>4. Revived(run[r].row) \in Row /\ Revived(run[r].row).pending = run[r].row.pending
    BY <1>3, RevivedRow
<1>5. Moves(r) /\ run'[r].pc = "end" /\ run'[r].row.pending = run[r].row.pending
    BY <1>1, <1>3, <1>4, GotoMoves, ContinueMoves DEF Place
<1>6. Aside(r)
    BY <1>1, <1>2, <1>5 DEF Aside, At
<1>7. marked \in BOOLEAN /\ marked' \in BOOLEAN /\ (marked => marked')
  <2>1. marked \in BOOLEAN
    BY DEF IInv, Typed, TypeOK
  <2>2. (marked \/ (router' # {} /\ (disk.pending \/ run[r].row.pending))) \in BOOLEAN
    OBVIOUS
  <2>3. QED
    BY <1>1, <2>1, <2>2, Zenon
<1>8. Sane
    BY <1>1, <1>2, <1>7, AtHand DEF Sane
<1>9. MayOrder(r)
  <2>1. SUFFICES ASSUME Undisturbed, Undisturbed'
                 PROVE  /\ router' # {} => replicas' = 1
                        /\ disk.pending => router' = {}
                        /\ Orderly(run'[r], router', replicas')
    BY DEF MayOrder
  <2>2. replicas = 1
    BY <1>1, <2>1, AtHand DEF Orderly
  <2>3. disk.pending \/ run[r].row.pending => router' = {}
    BY <1>1, <2>1 DEF Undisturbed
  <2>4. QED
    BY <1>1, <1>5, <2>2, <2>3 DEF Orderly, Out
<1>10. QED
    BY <1>1, <1>5, <1>6, <1>8, <1>9, StepOut DEF At

\* A bank reset goes on as the caller says.
LEMMA BankMoves ==
    ASSUME IInv, NEW r \in Runs, At(r, {"bankDown", "bankOnline"}),
           \/ \E bank \in BOOLEAN : Declined(r, bank)
           \/ \E asked \in BOOLEAN : Granted(r, asked)
    PROVE  /\ Moves(r)
           /\ run[r].pc = "bankDown" => run'[r].pc \in {"quiet", "alive"}
           /\ run[r].pc = "bankOnline" => run'[r].pc \in {"pause", "drift"} /\ ~run'[r].row.pending
<1>1. /\ run[r].row \in Row /\ run[r].seen \in SUBSET Windows /\ run \in [Runs -> Run]
      /\ run[r].pc \in {"bankDown", "bankOnline"}
      /\ {"quiet", "alive", "pause", "drift"} \subseteq Place
      /\ {} \in SUBSET Windows /\ 0 \in 0..1 /\ TRUE \in BOOLEAN /\ FALSE \in BOOLEAN
    BY AtHand DEF At, Place
<1>2. ASSUME NEW bank \in BOOLEAN, Declined(r, bank), run[r].pc = "bankDown"
      PROVE  Moves(r) /\ run'[r].pc = "quiet"
  <2> DEFINE row == StillCap([run[r].row EXCEPT !.bank = bank], run[r].seen)
  <2>1. row \in Row
    BY <1>1, BankTriedRow, StillCapRow
  <2>2. Continue(r, "quiet", row)
    BY <1>2 DEF Declined
  <2> HIDE DEF row
  <2>3. QED
    BY <1>1, <2>1, <2>2, ContinueMoves
<1>3. ASSUME NEW bank \in BOOLEAN, Declined(r, bank), run[r].pc = "bankOnline"
      PROVE  Moves(r) /\ run'[r].pc = "pause" /\ ~run'[r].row.pending
  <2> DEFINE row == Probed(run[r].seen, TRUE, 0)
  <2>1. row \in Row /\ row.pending = FALSE
    BY <1>1, ProbedRow
  <2>2. Continue(r, "pause", row)
    BY <1>3 DEF Declined
  <2> HIDE DEF row
  <2>3. QED
    BY <1>1, <2>1, <2>2, ContinueMoves
<1>4. ASSUME NEW asked \in BOOLEAN, Granted(r, asked), run[r].pc = "bankDown"
      PROVE  Moves(r) /\ run'[r].pc = "alive"
  <2> DEFINE row == [run[r].row EXCEPT !.bank = TRUE]
  <2>1. row \in Row
    BY <1>1, BankTriedRow
  <2>2. Sees(r, "alive", row, {})
    BY <1>4 DEF Granted, Sees
  <2> HIDE DEF row
  <2>3. QED
    BY <1>1, <2>1, <2>2, SeesMoves
<1>5. ASSUME NEW asked \in BOOLEAN, Granted(r, asked), run[r].pc = "bankOnline"
      PROVE  Moves(r) /\ run'[r].pc = "drift" /\ ~run'[r].row.pending
  <2> DEFINE seen == IF asked THEN {} ELSE run[r].seen
             new == Probed(seen, FALSE, 0)
             row == [new EXCEPT !.wait = {}]
  <2>1. new \in Row /\ new.pending = FALSE
    BY <1>1, ProbedRow
  <2>2. Continue(r, "drift", row)
    BY <1>5 DEF Granted
  <2> HIDE DEF new
  <2>3. row \in Row /\ row.pending = FALSE
    BY <1>1, <2>1 DEF Row
  <2> HIDE DEF row
  <2>4. QED
    BY <1>1, <2>2, <2>3, ContinueMoves
<1>6. QED
  <2>1. CASE run[r].pc = "bankDown"
    BY <1>2, <1>4, <2>1
  <2>2. CASE run[r].pc = "bankOnline"
    BY <1>3, <1>5, <2>2
  <2>3. QED
    BY <1>1, <2>1, <2>2

LEMMA BankKeeps ==
    ASSUME IInv, NEW r \in Runs, Bank(r)
    PROVE  IInv'
<1>1. /\ At(r, {"bankDown", "bankOnline"}) /\ run[r].pc \in {"bankDown", "bankOnline"}
      /\ UNCHANGED <<disk, replicas, router, token, sub, vip, made, marked>>
    BY DEF Bank, At
<1>2. run[r].row \in Row /\ run \in [Runs -> Run] /\ copy \in Copy /\ full \in SUBSET Windows
      /\ credits \in 0..MaxCredits /\ run[r].row.bank \in BOOLEAN /\ TRUE \in BOOLEAN /\ FALSE \in BOOLEAN
    BY AtHand DEF Row
<1>3. /\ Tally
      /\ \/ \E bank \in BOOLEAN : Declined(r, bank)
         \/ \E asked \in BOOLEAN : Granted(r, asked)
  <2>1. Tally
    BY DEF Bank, Tally, Faults
  <2>2. Declined(r, run[r].row.bank) \/ Declined(r, TRUE) \/ Granted(r, TRUE) \/ Granted(r, FALSE)
    BY DEF Bank
  <2>3. QED
    BY <1>2, <2>1, <2>2
<1>4. /\ Moves(r)
      /\ run[r].pc = "bankDown" => run'[r].pc \in {"quiet", "alive"}
      /\ run[r].pc = "bankOnline" => run'[r].pc \in {"pause", "drift"} /\ ~run'[r].row.pending
    BY <1>1, <1>3, BankMoves
<1>5. Aside(r)
    BY <1>1, <1>3, <1>4 DEF Aside, At
<1>6. /\ copy' \in {copy, Synced} /\ full' \in {full, {}}
      /\ credits' = credits \/ (credits > 0 /\ credits' = credits - 1)
    BY DEF Bank
<1>7. Sane
  <2>1. Synced \in Copy
    BY DEF Synced, Copy
  <2>2. credits' \in 0..MaxCredits
    BY <1>2, <1>6, Bounds
  <2>3. QED
    BY <1>1, <1>2, <1>6, <2>1, <2>2, WorldKept DEF Sane
<1>8. MayOrder(r)
  <2>1. CASE run[r].pc = "bankDown"
    <3>1. At(r, Out)
      BY <2>1 DEF At, Out
    <3>2. QED
      BY <1>1, <1>4, <2>1, <3>1, OutKeepsOrder
  <2>2. CASE run[r].pc = "bankOnline"
    BY <1>1, <1>4, <2>2, WorldKept DEF MayOrder, Orderly, Out
  <2>3. QED
    BY <1>1, <2>1, <2>2
<1>9. QED
    BY <1>1, <1>4, <1>5, <1>7, <1>8, StepOut DEF At

LEMMA DriftKeeps ==
    ASSUME IInv, NEW r \in Runs, Drift(r)
    PROVE  IInv'
<1>1. /\ At(r, {"drift"}) /\ run[r].pc = "drift"
      /\ UNCHANGED <<disk, replicas, router, full, token, copy, credits, sub, vip, made, marked>>
    BY DEF Drift, At
<1>2. PICK any \in BOOLEAN :
         /\ IF run[r].listed = "unknown"
            THEN \/ any = (vip \/ router # {}) /\ Luck
                 \/ any /\ Spend("litellm")
            ELSE any = (vip \/ run[r].listed = "some") /\ Luck
         /\ Goto(r, IF any THEN "end" ELSE "resume")
    BY DEF Drift
<1>3. Tally
    BY <1>2 DEF Tally, Faults
<1> DEFINE pc == IF any THEN "end" ELSE "resume"
<1>4. pc \in Place /\ pc \in {"end", "resume"}
    BY DEF Place
<1>5. Moves(r) /\ SameSnaps(r) /\ run'[r].pc = pc /\ run'[r].row = run[r].row
  <2>1. Goto(r, pc)
    BY <1>2
  <2> HIDE DEF pc
  <2>2. QED
    BY <1>4, <2>1, AtHand, GotoMoves
<1>6. Aside(r)
    BY <1>1, <1>3, <1>5 DEF Aside, At
<1>7. Sane
    BY <1>1, AtHand, WorldKept DEF Sane
<1>8. MayOpen(r)
  <2>1. SUFFICES ASSUME Confirmed
                 PROVE  replicas' = 1 /\ router' = Models /\ OpenRun(run'[r], spent')
    BY DEF MayOpen
  <2>2. /\ router # {} /\ run[r].listed # "none" /\ run[r].snap # "zero"
        /\ OpenRow(run[r].row, spent) /\ run[r].row \in Row
        /\ run[r].listed \in {"unknown", "none", "some"}
    BY <2>1, AtHand, Bounds DEF InService, OpenRun
  <2>3. any
    BY <1>2, <2>2
  <2>4. OpenRow(run[r].row, spent')
    BY <1>1, <1>3, <2>2, StillOpen
  <2>5. OpenRun(run'[r], spent')
    BY <1>5, <2>2, <2>3, <2>4 DEF OpenRun, SameSnaps
  <2>6. QED
    BY <1>1, <2>1, <2>5, WorldKept
<1>9. MayOrder(r)
    BY <1>1, <1>4, <1>5, AtHand, WorldKept DEF MayOrder, Orderly, Out
<1>10. MayRepairMore(r)
    BY <1>4, <1>5 DEF MayRepairMore
<1>11. QED
    BY <1>6, <1>7, <1>8, <1>9, <1>10, StepOfRun

LEMMA ZeroKeeps ==
    ASSUME IInv, NEW r \in Runs, Zero(r)
    PROVE  IInv'
<1>1. /\ At(r, {"zero"}) /\ run[r].pc = "zero"
      /\ UNCHANGED <<disk, replicas, router, full, token, copy, credits, sub, vip, made, marked>>
    BY DEF Zero, At
<1>2. PICK any \in BOOLEAN :
         /\ IF run[r].listed = "unknown"
            THEN \/ any = (router # {}) /\ Luck
                 \/ any /\ Spend("litellm")
            ELSE any = (run[r].listed = "some") /\ Luck
         /\ Continue(r, IF any THEN "ghost" ELSE "end", Closed(run[r].row))
    BY DEF Zero
<1>3. Tally
    BY <1>2 DEF Tally, Faults
<1> DEFINE pc == IF any THEN "ghost" ELSE "end"
<1>4. pc \in Place /\ pc \in {"ghost", "end"}
    BY DEF Place
<1>5. Moves(r) /\ run'[r].pc = pc
  <2>1. Continue(r, pc, Closed(run[r].row))
    BY <1>2
  <2>2. Closed(run[r].row) \in Row
    BY AtHand, ClosedRow
  <2> HIDE DEF pc
  <2>3. QED
    BY <1>4, <2>1, <2>2, AtHand, ContinueMoves
<1>6. Aside(r)
    BY <1>1, <1>3, <1>5 DEF Aside, At
<1>7. Sane
    BY <1>1, AtHand, WorldKept DEF Sane
<1>8. At(r, Out)
    BY <1>1 DEF At, Out
<1>9. MayOrder(r)
    BY <1>1, <1>4, <1>5, <1>8, OutKeepsOrder
<1>10. QED
    BY <1>1, <1>4, <1>5, <1>6, <1>7, <1>9, StepOut DEF At

LEMMA SpentNat ==
    ASSUME IInv
    PROVE  \A k \in Faults : spent[k] \in Nat
BY Bounds DEF IInv, Typed, TypeOK

LEMMA DisturbedByLitellm ==
    ASSUME IInv, Spend("litellm")
    PROVE  ~Undisturbed' /\ Tally
<1>1. "litellm" \in Faults
    BY DEF Faults
<1>2. spent'["litellm"] = spent["litellm"] + 1 /\ spent["litellm"] \in Nat /\ Tally
    BY <1>1, SpendCounts DEF IInv
<1>3. QED
    BY <1>2 DEF Undisturbed

\* A run that dies knows nothing.
LEMMA DiesMoves ==
    ASSUME IInv, NEW r \in Runs, Dies(r)
    PROVE  Moves(r) /\ run'[r] = NoRun
BY AtHand, IdleRun DEF Dies, Moves

\* A run that is not under way has seen nothing.
LEMMA IdleIsOpen ==
    ASSUME IInv
    PROVE  OpenRun(NoRun, spent)
<1> DEFINE row == Probed({}, FALSE, 0)
<1>1. {} \in SUBSET Windows /\ FALSE \in BOOLEAN /\ 0 \in 0..1 /\ {"401", "ssh"} \subseteq Faults
    BY DEF Faults
<1>2. /\ row.tier = "usage" /\ row.paused = FALSE /\ row.manual = FALSE
      /\ row.pending = FALSE /\ row.c401 = 0 /\ row.hits = 0
    BY <1>1, ProbedRow
<1>3. spent["401"] \in Nat /\ spent["ssh"] \in Nat
    BY <1>1, SpentNat
<1> HIDE DEF row
<1>4. OpenRow(row, spent)
    BY <1>2, <1>3 DEF OpenRow
<1>5. QED
    BY <1>4, IdleRun DEF OpenRun, row

LEMMA DeleteKeeps ==
    ASSUME IInv, NEW r \in Runs, Delete(r)
    PROVE  IInv'
<1>1. /\ At(r, {"pause", "ghost"}) /\ run[r].pc \in {"pause", "ghost"}
      /\ UNCHANGED <<disk, replicas, full, token, copy, credits, sub, vip, made, marked>>
    BY DEF Delete, At
<1>2. /\ \/ Spend("litellm") \/ (router' = {} /\ Luck)
      /\ router' \in SUBSET router
      /\ Dies(r) \/ Goto(r, "end") \/ Goto(r, "down") \/ Goto(r, "quiet")
    BY DEF Delete
<1>3. Tally /\ (Undisturbed' => router' = {})
    BY <1>2, DisturbedByLitellm DEF Tally
<1>4. Moves(r) /\ run'[r].pc \in {"idle", "end", "down", "quiet"}
    BY <1>2, AtHand, GotoMoves, DiesMoves, IdleRun DEF Place
<1>5. Aside(r)
    BY <1>1, <1>3, <1>4 DEF Aside, At
<1>6. Sane
    BY <1>1, <1>2, AtHand DEF Sane, IInv, Typed, TypeOK
<1>7. MayOrder(r)
    BY <1>3, <1>4 DEF MayOrder, Orderly
<1>8. QED
    BY <1>1, <1>4, <1>5, <1>6, <1>7, StepOut DEF At

LEMMA ScaleDownKeeps ==
    ASSUME IInv, NEW r \in Runs, ScaleDown(r)
    PROVE  IInv'
<1>1. /\ At(r, {"down", "retry", "quiet"}) /\ run[r].pc \in {"down", "retry", "quiet"}
      /\ UNCHANGED <<disk, router, full, token, copy, credits, sub, vip, made, marked>>
    BY DEF ScaleDown, At
<1>2. PICK ok \in BOOLEAN :
         /\ IF ok THEN Scaled(0) ELSE DownFails
         /\ \/ Goto(r, "end")
            \/ Continue(r, "end", [run[r].row EXCEPT !.pending = ~ok])
    BY DEF ScaleDown
<1>3. Tally /\ replicas' \in {replicas, 0}
    BY <1>2 DEF Scaled, DownFails, Tally, Faults
<1>4. [run[r].row EXCEPT !.pending = ~ok] \in Row
  <2>1. run[r].row \in Row /\ (~ok) \in BOOLEAN
    BY AtHand
  <2>2. ASSUME NEW old \in Row, NEW mark \in BOOLEAN
        PROVE  [old EXCEPT !.pending = mark] \in Row
    BY DEF Row
  <2>3. QED
    BY <2>1, <2>2, Zenon
<1>5. Moves(r) /\ run'[r].pc = "end"
    BY <1>2, <1>4, AtHand, GotoMoves, ContinueMoves DEF Place
<1>6. Aside(r)
    BY <1>1, <1>3, <1>5 DEF Aside, At
<1>7. Sane
    BY <1>1, <1>3, AtHand DEF Sane, IInv, Typed, TypeOK
<1>8. At(r, Out)
    BY <1>1 DEF At, Out
<1>9. MayOrder(r)
    BY <1>1, <1>5, <1>8, OutKeepsOrder
<1>10. QED
    BY <1>1, <1>5, <1>6, <1>7, <1>9, StepOut DEF At

LEMMA AskKeeps ==
    ASSUME IInv, NEW r \in Runs, Ask(r)
    PROVE  IInv'
<1> DEFINE answers == replicas > 0 /\ Asked \in router /\ full = {} /\ token = "good"
<1>1. /\ At(r, {"ask"}) /\ run[r].pc = "ask"
      /\ UNCHANGED <<disk, replicas, router, full, token, copy, credits, sub, vip, made, marked>>
    BY DEF Ask, At
<1>2. \/ answers /\ Luck /\ Continue(r, "end", Probed(run[r].seen, FALSE, 0))
      \/ /\ IF answers THEN Spend("ask") ELSE Luck
         /\ Continue(r, "pause", Probed(run[r].seen, TRUE, 0))
    BY DEF Ask
<1>3. Tally
    BY <1>2 DEF Tally, Faults
<1>4. /\ run[r].seen \in SUBSET Windows /\ run \in [Runs -> Run]
      /\ "end" \in Place /\ "pause" \in Place /\ TRUE \in BOOLEAN /\ FALSE \in BOOLEAN /\ 0 \in 0..1
    BY AtHand DEF Place
<1>5. ASSUME NEW paused \in BOOLEAN
      PROVE  LET row == Probed(run[r].seen, paused, 0)
             IN  /\ row \in Row /\ ~row.pending /\ row.tier = "usage" /\ row.paused = paused
                 /\ ~row.manual /\ row.c401 = 0 /\ row.hits = 0
    BY <1>4, ProbedRow
<1>6. \/ /\ Luck /\ run'[r].pc = "end" /\ run'[r].row = Probed(run[r].seen, FALSE, 0)
         /\ Moves(r) /\ SameSnaps(r)
      \/ /\ IF answers THEN Spend("ask") ELSE Luck
         /\ run'[r].pc = "pause" /\ run'[r].row = Probed(run[r].seen, TRUE, 0)
         /\ Moves(r) /\ SameSnaps(r)
  <2> HIDE DEF answers
  <2>1. QED
    BY <1>2, <1>4, <1>5, ContinueMoves
<1>7. Aside(r)
    BY <1>1, <1>3, <1>6 DEF Aside, At
<1>8. Sane
    BY <1>1, AtHand, WorldKept DEF Sane
<1>9. MayOpen(r)
  <2>1. SUFFICES ASSUME Confirmed, Confirmed'
                 PROVE  replicas' = 1 /\ router' = Models /\ OpenRun(run'[r], spent')
    BY DEF MayOpen
  <2>2. /\ answers /\ spent["5h"] > 0
        /\ run[r].snap # "zero" /\ run[r].listed # "none"
    BY <1>1, <2>1, AtHand, Bounds DEF InService, OpenRun
  <2>3. CASE Spend("ask")
    <3>1. "ask" \in Faults /\ "5h" \in Faults
      BY DEF Faults
    <3>2. /\ spent'["ask"] = spent["ask"] + 1 /\ spent'["5h"] = spent["5h"]
          /\ spent["ask"] \in Nat /\ spent["5h"] \in Nat
      BY <2>3, <3>1, SpendCounts DEF IInv
    <3>3. QED
      BY <2>1, <2>2, <3>2 DEF Confirmed
  <2>4. CASE /\ Luck /\ run'[r].pc = "end" /\ run'[r].row = Probed(run[r].seen, FALSE, 0)
             /\ SameSnaps(r)
    <3>1. spent["401"] \in Nat /\ spent["ssh"] \in Nat /\ spent' = spent
      <4>1. "401" \in Faults /\ "ssh" \in Faults
        BY DEF Faults
      <4>2. QED
        BY <2>4, <4>1, SpentNat DEF Luck
    <3>2. OpenRow(run'[r].row, spent')
      <4> DEFINE row == Probed(run[r].seen, FALSE, 0)
      <4>1. /\ row.tier = "usage" /\ row.paused = FALSE /\ row.manual = FALSE
            /\ row.pending = FALSE /\ row.c401 = 0 /\ row.hits = 0
        BY <1>4, ProbedRow
      <4> HIDE DEF row
      <4>2. OpenRow(row, spent')
        BY <3>1, <4>1 DEF OpenRow
      <4>3. QED
        BY <2>4, <4>2 DEF row
    <3>3. OpenRun(run'[r], spent')
      BY <2>2, <2>4, <3>2 DEF OpenRun, SameSnaps
    <3>4. QED
      BY <1>1, <2>1, <3>3, WorldKept
  <2>5. QED
    BY <1>6, <2>2, <2>3, <2>4
<1>10. MayOrder(r)
    BY <1>1, <1>4, <1>5, <1>6, WorldKept DEF MayOrder, Orderly, Out
<1>11. MayRepairMore(r)
    BY <1>6 DEF MayRepairMore
<1>12. QED
    BY <1>7, <1>8, <1>9, <1>10, <1>11, StepOfRun

\* A refusal that is not the last one is counted in the row.
LEMMA RefuseMoves ==
    ASSUME IInv, NEW r \in Runs, Refuse(r)
    PROVE  /\ Moves(r) /\ SameSnaps(r)
           /\ run'[r].pc \in {"end", "pause"}
           /\ run'[r].row.pending => run[r].row.pending
           /\ run[r].row.c401 + 1 < Threshold =>
                 run'[r].pc = "end" /\ run'[r].row = Refused(run[r].row, run[r].row.c401 + 1)
<1> DEFINE row == run[r].row
           n == row.c401 + 1
<1>1. /\ row \in Row /\ run \in [Runs -> Run] /\ row.c401 \in Nat
      /\ "end" \in Place /\ "pause" \in Place
    BY AtHand, Bounds DEF Row, Place
<1>2. CASE n < Threshold
  <2>1. n \in 0..Threshold
    BY <1>1, <1>2, Bounds
  <2>2. Continue(r, "end", Refused(row, n))
    BY <1>2 DEF Refuse
  <2> HIDE DEF n, row
  <2>3. Refused(row, n) \in Row /\ Refused(row, n).pending = row.pending
    BY <1>1, <2>1, RefusedRow
  <2>4. QED
    BY <1>1, <2>2, <2>3, ContinueMoves DEF n, row
<1>3. CASE ~(n < Threshold)
  <2>1. Continue(r, IF row.manual THEN "end" ELSE "pause", TokenDead(row))
    BY <1>3 DEF Refuse
  <2>2. Continue(r, "end", TokenDead(row)) \/ Continue(r, "pause", TokenDead(row))
    BY <2>1
  <2>3. TokenDead(row) \in Row /\ ~TokenDead(row).pending
    BY <1>1, TokenDeadRow
  <2>4. QED
    BY <1>1, <1>3, <2>2, <2>3, ContinueMoves
<1>4. QED
    BY <1>2, <1>3

\* What an answer leads to.
LEMMA JudgeMoves ==
    ASSUME IInv, NEW r \in Runs, NEW seen \in SUBSET Windows, Judge(r, seen)
    PROVE  /\ Moves(r) /\ SameSnaps(r)
           /\ run'[r].pc \in {"end", "bankOnline", "ask", "resume", "drift"}
           /\ run'[r].row.pending => run[r].row.pending
           /\ ~run[r].row.paused =>
                 \/ /\ "week" \in seen /\ run[r].row.hits = 0
                    /\ run'[r].pc = "end" /\ run'[r].row = Probed(seen, FALSE, 1)
                 \/ "week" \in seen /\ run[r].row.hits = 1
                 \/ seen = {"5h"} /\ run'[r].pc = "ask" /\ run'[r].row = run[r].row
                 \/ seen = {} /\ run'[r].pc = "drift" /\ run'[r].row = Probed({}, FALSE, 0)
<1> DEFINE row == run[r].row
<1>1. /\ row \in Row /\ run \in [Runs -> Run]
      /\ {"end", "bankOnline", "ask", "resume", "drift"} \subseteq Place
      /\ TRUE \in BOOLEAN /\ FALSE \in BOOLEAN /\ 0 \in 0..1 /\ 1 \in 0..1 /\ {} \in SUBSET Windows
    BY AtHand DEF Place
<1>2. \A hits \in 0..1, paused \in BOOLEAN :
         Probed(seen, paused, hits) \in Row /\ ~Probed(seen, paused, hits).pending
    BY ProbedRow
<1>3. Probed({}, FALSE, 0) \in Row /\ ~Probed({}, FALSE, 0).pending
    BY <1>1, ProbedRow
<1>4. \/ seen # {} /\ row.paused /\ Sees(r, "end", Probed(seen, TRUE, 0), seen)
      \/ "week" \in seen /\ ~row.paused /\ row.hits = 0 /\ Sees(r, "end", Probed(seen, FALSE, 1), seen)
      \/ "week" \in seen /\ ~row.paused /\ row.hits = 1 /\ Sees(r, "bankOnline", row, seen)
      \/ seen = {"5h"} /\ ~row.paused /\ Sees(r, "ask", row, seen)
      \/ seen = {} /\ row.paused /\ Sees(r, "resume", Probed({}, FALSE, 0), seen)
      \/ seen = {} /\ ~row.paused /\ Sees(r, "drift", Probed({}, FALSE, 0), seen)
    BY DEF Judge, Sees
<1> HIDE DEF row
<1>5. CASE seen # {} /\ row.paused /\ Sees(r, "end", Probed(seen, TRUE, 0), seen)
    BY <1>1, <1>2, <1>5, SeesMoves DEF row
<1>6. CASE "week" \in seen /\ ~row.paused /\ row.hits = 0 /\ Sees(r, "end", Probed(seen, FALSE, 1), seen)
  <2> DEFINE new == Probed(seen, FALSE, 1)
  <2>1. new \in Row /\ ~new.pending
    BY <1>1, <1>2
  <2>2. Sees(r, "end", new, seen) /\ "end" \in Place
    BY <1>1, <1>6
  <2> HIDE DEF new
  <2>3. Moves(r) /\ SameSnaps(r) /\ run'[r].pc = "end" /\ run'[r].row = new
    BY <1>1, <2>1, <2>2, SeesMoves
  <2>4. QED
    BY <1>6, <2>1, <2>3 DEF row, new
<1>7. CASE "week" \in seen /\ ~row.paused /\ row.hits = 1 /\ Sees(r, "bankOnline", row, seen)
    BY <1>1, <1>7, SeesMoves DEF row
<1>8. CASE seen = {"5h"} /\ ~row.paused /\ Sees(r, "ask", row, seen)
    BY <1>1, <1>8, SeesMoves DEF row
<1>9. CASE seen = {} /\ row.paused /\ Sees(r, "resume", Probed({}, FALSE, 0), seen)
    BY <1>1, <1>3, <1>9, SeesMoves DEF row
<1>10. CASE seen = {} /\ ~row.paused /\ Sees(r, "drift", Probed({}, FALSE, 0), seen)
    BY <1>1, <1>3, <1>10, SeesMoves DEF row
<1>11. QED
    BY <1>4, <1>5, <1>6, <1>7, <1>8, <1>9, <1>10

LEMMA ProbeKeeps ==
    ASSUME IInv, NEW r \in Runs, Probe(r)
    PROVE  IInv'
<1> DEFINE row == run[r].row
           seenNothing == [row EXCEPT !.recent = TRUE]
<1>1. /\ At(r, {"probe"}) /\ run[r].pc = "probe"
      /\ UNCHANGED <<disk, replicas, router, full, token, copy, credits, sub, vip, made, marked>>
    BY DEF Probe, At
<1>2. row \in Row /\ run \in [Runs -> Run] /\ "end" \in Place
    BY AtHand DEF Place
<1>3. /\ {"401", "ssh", "week", "5h"} \subseteq Faults
      /\ \A k \in Faults : spent[k] \in Nat
      /\ Threshold \in Nat /\ row.c401 \in Nat /\ row.hits \in 0..1
    BY <1>2, SpentNat, Bounds DEF Faults, Row
<1>4. /\ seenNothing \in Row /\ seenNothing.pending = row.pending
      /\ OpenRow(row, spent) => OpenRow(seenNothing, spent)
    BY <1>2 DEF Row, OpenRow
<1>5. Sane
    BY <1>1, AtHand, WorldKept DEF Sane
<1>6. \* Every outcome is a step of a run that keeps what InOrder asks for.
      ASSUME Tally, Moves(r), SameSnaps(r),
             run'[r].pc \in {"end", "pause", "bankOnline", "ask", "resume", "drift"},
             run'[r].row.pending => row.pending,
             Confirmed /\ Confirmed' => /\ run'[r].pc \in {"end", "ask", "drift"}
                                        /\ run'[r].pc = "ask" => spent'["5h"] > 0
                                        /\ OpenRow(run'[r].row, spent')
      PROVE  IInv'
  <2>1. Aside(r)
    BY <1>1, <1>6 DEF Aside, At
  <2>2. MayOpen(r)
    BY <1>1, <1>6, AtHand, WorldKept DEF MayOpen, OpenRun, SameSnaps
  <2>3. MayOrder(r)
    BY <1>1, <1>6, AtHand, WorldKept DEF MayOrder, Orderly, Out
  <2>4. MayRepairMore(r)
    BY <1>6 DEF MayRepairMore
  <2>5. QED
    BY <1>5, <2>1, <2>2, <2>3, <2>4, StepOfRun
<1>7. CASE /\ (copy.age = "missing" /\ Unread) \/ Spend("openai")
           /\ Continue(r, "end", seenNothing)
  <2>1. Tally
    BY <1>7 DEF Unread, Tally, Faults
  <2> HIDE DEF seenNothing
  <2>2. Moves(r) /\ SameSnaps(r) /\ run'[r].pc = "end" /\ run'[r].row = seenNothing
    BY <1>2, <1>4, <1>7, ContinueMoves
  <2>3. Confirmed => OpenRow(seenNothing, spent')
    BY <1>1, <1>4, <2>1, AtHand, StillOpen
  <2>4. QED
    BY <1>4, <1>6, <2>1, <2>2, <2>3
<1>8. CASE /\ \/ replicas > 0 /\ token = "dead" /\ Luck
              \/ replicas > 0 /\ token = "good" /\ Spend("401")
              \/ copy.age # "missing" /\ ~copy.ok /\ Unread
           /\ Refuse(r)
  <2>1. Tally
    BY <1>8 DEF Unread, Tally, Faults
  <2>2. /\ Moves(r) /\ SameSnaps(r)
        /\ run'[r].pc \in {"end", "pause"}
        /\ run'[r].row.pending => row.pending
        /\ row.c401 + 1 < Threshold => run'[r].pc = "end" /\ run'[r].row = Refused(row, row.c401 + 1)
    BY <1>8, RefuseMoves
  <2>3. ASSUME Confirmed, Confirmed'
        PROVE  run'[r].pc = "end" /\ OpenRow(run'[r].row, spent')
    <3>1. Spend("401") \/ Spend("ssh")
      BY <1>8, <2>3, AtHand DEF InService, Unread
    <3>2. /\ spent'["401"] + spent'["ssh"] = spent["401"] + spent["ssh"] + 1
          /\ spent'["401"] + spent'["ssh"] \in Nat
          /\ spent'["week"] = spent["week"]
      BY <1>3, <3>1, SpendCounts DEF IInv
    <3>3. OpenRow(row, spent)
      BY <2>3, AtHand
    <3>4. row.c401 + 1 < Threshold /\ row.c401 + 1 <= spent'["401"] + spent'["ssh"]
      BY <1>3, <2>3, <3>2, <3>3 DEF Confirmed, OpenRow
    <3>5. row.c401 + 1 \in 0..Threshold
      BY <1>3, <3>4
    <3> DEFINE n == row.c401 + 1
               new == Refused(row, n)
    <3> HIDE DEF n
    <3>6. /\ new.pending = row.pending /\ new.tier = row.tier /\ new.paused = row.paused
          /\ new.manual = row.manual /\ new.hits = row.hits /\ new.c401 = n
      BY <1>2, <3>5, RefusedRow DEF n
    <3>7. run'[r].pc = "end" /\ run'[r].row = new
      BY <2>2, <3>4 DEF n
    <3> HIDE DEF new
    <3>8. OpenRow(new, spent')
      BY <3>2, <3>3, <3>4, <3>6 DEF OpenRow, n
    <3>9. QED
      BY <3>7, <3>8
  <2>4. QED
    BY <1>6, <2>1, <2>2, <2>3
<1>9. ASSUME NEW seen \in SUBSET Windows,
             \/ replicas > 0 /\ token = "good" /\ Reading(seen)
             \/ copy.age # "missing" /\ copy.ok /\ seen = full /\ Unread,
             Judge(r, seen)
      PROVE  IInv'
  <2>1. Tally
    BY <1>9, ReadingTally DEF Unread, Tally, Faults
  <2>2. /\ Moves(r) /\ SameSnaps(r)
        /\ run'[r].pc \in {"end", "bankOnline", "ask", "resume", "drift"}
        /\ run'[r].row.pending => row.pending
    BY <1>9, JudgeMoves
  <2>3. ASSUME Confirmed, Confirmed'
        PROVE  /\ run'[r].pc \in {"end", "ask", "drift"}
               /\ run'[r].pc = "ask" => spent'["5h"] > 0
               /\ OpenRow(run'[r].row, spent')
    <3>1. full = {} /\ OpenRow(row, spent)
      BY <2>3, AtHand DEF InService
    <3>2. \/ "week" \in seen /\ row.hits = 0 /\ run'[r].pc = "end" /\ run'[r].row = Probed(seen, FALSE, 1)
          \/ "week" \in seen /\ row.hits = 1
          \/ seen = {"5h"} /\ run'[r].pc = "ask" /\ run'[r].row = row
          \/ seen = {} /\ run'[r].pc = "drift" /\ run'[r].row = Probed({}, FALSE, 0)
      BY <1>9, <3>1, JudgeMoves DEF OpenRow
    <3>3. /\ "week" \in seen => spent'["week"] = spent["week"] + 1
          /\ seen = {"5h"} => spent'["5h"] = spent["5h"] + 1
      <4>1. \/ seen = {}
            \/ \E w \in Windows : seen = {w} /\ Spend(w)
        BY <1>9, <3>1 DEF Reading
      <4>2. CASE seen = {}
        BY <4>2
      <4>3. ASSUME NEW w \in Windows, seen = {w}, Spend(w)
            PROVE  spent'[w] = spent[w] + 1
        <5>1. w \in Faults
          BY DEF Windows, Faults
        <5>2. QED
          BY <4>3, <5>1, SpendCounts DEF IInv
      <4>4. QED
        BY <4>1, <4>2, <4>3
    <3>4. /\ OpenRow(row, spent')
          /\ spent'["401"] \in Nat /\ spent'["ssh"] \in Nat
      BY <1>1, <1>2, <1>3, <2>1, <3>1, StillOpen, TallyCounts DEF IInv, Grows
    <3>5. ASSUME NEW hits \in 0..1, hits = 1 => spent'["week"] > 0
          PROVE  OpenRow(Probed(seen, FALSE, hits), spent')
      <4> DEFINE new == Probed(seen, FALSE, hits)
      <4>1. /\ new.tier = "usage" /\ new.paused = FALSE /\ new.manual = FALSE
            /\ new.pending = FALSE /\ new.c401 = 0 /\ new.hits = hits
        BY ProbedRow
      <4> HIDE DEF new
      <4>2. OpenRow(new, spent')
        BY <3>4, <3>5, <4>1 DEF OpenRow
      <4>3. QED
        BY <4>2 DEF new
    <3>6. CASE "week" \in seen /\ row.hits = 0 /\ run'[r].pc = "end" /\ run'[r].row = Probed(seen, FALSE, 1)
      <4>1. spent'["week"] > 0 /\ 1 \in 0..1
        BY <1>3, <3>3, <3>6
      <4>2. QED
        BY <3>5, <3>6, <4>1
    <3>7. CASE "week" \in seen /\ row.hits = 1
      BY <1>3, <2>3, <3>1, <3>3, <3>7 DEF Confirmed, OpenRow
    <3>8. CASE seen = {"5h"} /\ run'[r].pc = "ask" /\ run'[r].row = row
      BY <1>3, <3>3, <3>4, <3>8
    <3>9. CASE seen = {} /\ run'[r].pc = "drift" /\ run'[r].row = Probed({}, FALSE, 0)
      <4>1. 0 \in 0..1 /\ (0 = 1 => spent'["week"] > 0)
        OBVIOUS
      <4>2. OpenRow(Probed(seen, FALSE, 0), spent')
        BY <3>5, <4>1, Zenon
      <4>3. QED
        BY <3>9, <4>2
    <3>10. QED
      BY <3>2, <3>6, <3>7, <3>8, <3>9
  <2>4. QED
    BY <1>6, <2>1, <2>2, <2>3
<1>10. QED
    BY <1>7, <1>8, <1>9 DEF Probe

LEMMA CrashKeeps ==
    ASSUME IInv, NEW r \in Runs, Crash(r)
    PROVE  IInv'
<1>1. /\ ~At(r, {"idle"}) /\ Spend("crash") /\ Dies(r)
      /\ UNCHANGED <<disk, replicas, router, full, token, copy, credits, sub, vip, made, marked>>
    BY DEF Crash
<1>2. Tally
    BY <1>1 DEF Tally, Faults
<1>3. Moves(r) /\ run'[r] = NoRun
    BY <1>1, DiesMoves
<1>4. Aside(r)
    BY <1>1, <1>2, <1>3 DEF Aside
<1>5. Sane
    BY <1>1, AtHand, WorldKept DEF Sane
<1>6. OpenRun(NoRun, spent')
    BY <1>1, <1>2, IdleIsOpen, StillOpen, IdleRun
<1>7. MayOpen(r)
    BY <1>1, <1>3, <1>6, WorldKept DEF MayOpen
<1>8. MayOrder(r)
    BY <1>1, <1>3, IdleRun, WorldKept DEF MayOrder, Orderly, Out
<1>9. MayRepairMore(r)
    BY <1>3, IdleRun DEF MayRepairMore
<1>10. QED
    BY <1>4, <1>5, <1>7, <1>8, <1>9, StepOfRun

LEMMA StartKeeps ==
    ASSUME IInv, NEW r \in Runs, Start(r)
    PROVE  IInv'
<1>1. UNCHANGED <<disk, replicas, router, full, token, credits, sub, vip, made, marked>>
    BY DEF Start
<1>2. PICK snap \in {"unknown", Snapshot}, listed \in {"unknown", Listing} :
         /\ run' = [run EXCEPT ![r] = [pc |-> "turn", row |-> disk, snap |-> snap,
                                       listed |-> listed, seen |-> {}]]
         /\ \/ r = 1 /\ (Luck \/ Spend("ssh") \/ Spend("litellm"))
            \/ Spend("overlap")
    BY DEF Start
<1>3. copy' \in {copy, Synced}
    BY DEF Start
<1> DEFINE q == [pc |-> "turn", row |-> disk, snap |-> snap, listed |-> listed, seen |-> {}]
<1>4. /\ run \in [Runs -> Run] /\ disk \in Row
      /\ replicas \in 0..1 /\ router \in SUBSET Models
    BY AtHand DEF IInv, Typed, TypeOK
<1>5. /\ snap \in {"unknown", "zero", "up"} /\ listed \in {"unknown", "none", "some"}
      /\ snap = "zero" => replicas = 0
      /\ listed = "none" => router = {}
    BY <1>4 DEF Snapshot, Listing
<1>6. /\ q.pc = "turn" /\ q.row = disk /\ q.snap = snap /\ q.listed = listed
      /\ q \in Run
  <2>1. {} \in SUBSET Windows
    OBVIOUS
  <2>2. "turn" \in Place
    BY DEF Place
  <2>3. ASSUME NEW seen \in SUBSET Windows
        PROVE  [pc |-> "turn", row |-> disk, snap |-> snap, listed |-> listed, seen |-> seen] \in Run
    BY <1>4, <1>5, <2>2 DEF Run
  <2>4. q \in Run
    BY <2>1, <2>3, Zenon
  <2>5. QED
    BY <2>4
<1>7. run' = [run EXCEPT ![r] = q]
    BY <1>2
<1> HIDE DEF q
<1>8. Moves(r) /\ run'[r] = q
    BY <1>4, <1>6, <1>7 DEF Moves
<1>9. Tally
    BY <1>2 DEF Tally, Faults
<1>10. Aside(r)
    BY <1>1, <1>2, <1>8, <1>9 DEF Aside
<1>11. Sane
  <2>1. Synced \in Copy
    BY DEF Synced, Copy
  <2>2. QED
    BY <1>1, <1>3, <2>1, AtHand, WorldKept DEF Sane
<1>12. MayOpen(r)
  <2>1. SUFFICES ASSUME Confirmed
                 PROVE  replicas' = 1 /\ router' = Models /\ OpenRun(run'[r], spent')
    BY DEF MayOpen
  <2>2. replicas = 1 /\ router = Models /\ router # {} /\ OpenRow(disk, spent)
    BY <2>1, Bounds DEF IInv, StaysOpen, InService
  <2>3. OpenRow(disk, spent')
    BY <1>1, <1>4, <1>9, <2>2, StillOpen
  <2>4. QED
    BY <1>1, <1>5, <1>6, <1>8, <2>2, <2>3 DEF OpenRun
<1>13. MayOrder(r)
  <2>1. Undisturbed => (disk.pending => router = {})
    BY DEF IInv, InOrder, Unrouted
  <2>2. QED
    BY <1>1, <1>5, <1>6, <1>8, <2>1, WorldKept DEF MayOrder, Orderly, Out
<1>14. MayRepairMore(r)
    BY <1>6, <1>8 DEF MayRepairMore
<1>15. QED
    BY <1>10, <1>11, <1>12, <1>13, <1>14, StepOfRun

LEMMA SaveKeeps ==
    ASSUME IInv, NEW r \in Runs, Save(r)
    PROVE  IInv'
<1>1. /\ run[r].pc = "end" /\ disk' = run[r].row /\ run' = [run EXCEPT ![r] = NoRun]
      /\ UNCHANGED <<replicas, router, full, token, copy, credits, sub, vip, spent, made, events, marked>>
    BY DEF Save, At
<1>2. /\ run \in [Runs -> Run] /\ run[r].row \in Row
      /\ run' \in [Runs -> Run] /\ run'[r] = NoRun
      /\ \A o \in Runs \ {r} : run'[o] = run[o]
    BY <1>1, AtHand, IdleRun
<1>3. TypeOK'
    BY <1>1, <1>2 DEF IInv, Typed, TypeOK
<1>4. RepairsLeft' /\ Counted'
    BY <1>1, <1>2, IdleRun DEF IInv, Typed, RepairsLeft, Counted, At
<1>5. StaysOpen'
  <2>1. SUFFICES ASSUME Confirmed
                 PROVE  /\ InService' /\ OpenRow(disk', spent)
                        /\ \A o \in Runs : OpenRun(run'[o], spent)
    BY <1>1 DEF StaysOpen, Confirmed, Never
  <2>2. InService /\ \A o \in Runs : OpenRun(run[o], spent)
    BY <2>1 DEF IInv, StaysOpen
  <2>3. QED
    BY <1>1, <1>2, <2>1, <2>2, IdleIsOpen, AtHand DEF InService
<1>6. InOrder'
  <2>1. SUFFICES ASSUME Undisturbed
                 PROVE  /\ router # {} => replicas = 1
                        /\ disk'.pending => router = {}
                        /\ Alone'
                        /\ \A o \in Runs : Orderly(run'[o], router, replicas)
    BY <1>1 DEF InOrder, Undisturbed, Never, Unrouted
  <2>2. Unrouted /\ Alone /\ \A o \in Runs : Orderly(run[o], router, replicas)
    BY <2>1 DEF IInv, InOrder
  <2>3. disk'.pending => router = {}
    BY <1>1, <2>2 DEF Orderly
  <2>4. Alone'
    BY <1>2, <2>2, IdleRun DEF Alone, At
  <2>5. Orderly(NoRun, router, replicas)
    BY IdleRun DEF Orderly, Out
  <2>6. QED
    BY <1>2, <2>2, <2>3, <2>4, <2>5 DEF Unrouted
<1>7. QED
    BY <1>3, <1>4, <1>5, <1>6 DEF IInv, Typed

-----------------------------------------------------------------------------
(* The world.                                                              *)

LEMMA ChangeCounts ==
    ASSUME Typed, NEW k \in Changes, Change(k), spent' = spent
    PROVE  /\ made' \in [Changes -> 0..MaxEvents] /\ events' \in 0..MaxEvents
           /\ spent' \in [Faults -> 0..MaxEvents]
           /\ Counted'
           /\ made'[k] # 0
           /\ \A c \in Changes : made'[c] = 0 => made[c] = 0
<1>1. /\ spent \in [Faults -> 0..MaxEvents] /\ events \in 0..MaxEvents
      /\ made \in [Changes -> 0..MaxEvents] /\ Counted
      /\ MaxEvents \in Nat
    BY Bounds DEF Typed, TypeOK
<1>2. events < MaxEvents /\ events' = events + 1 /\ made' = [made EXCEPT ![k] = made[k] + 1]
    BY DEF Change, Another
<1>3. made[k] <= events
    BY <1>1 DEF Counted
<1>4. /\ made'[k] = made[k] + 1
      /\ \A c \in Changes \ {k} : made'[c] = made[c]
    BY <1>1, <1>2
<1>5. \A c \in Changes : made'[c] \in 0..MaxEvents /\ made'[c] <= events' /\ (made'[c] = 0 => made[c] = 0)
    BY <1>1, <1>2, <1>3, <1>4 DEF Counted
<1>6. \A f \in Faults : spent'[f] <= events'
    BY <1>1, <1>2 DEF Counted
<1>7. made' \in [Changes -> 0..MaxEvents]
    BY <1>1, <1>2, <1>5
<1>8. made'[k] # 0
    BY <1>1, <1>4
<1>9. QED
    BY <1>1, <1>2, <1>5, <1>6, <1>7, <1>8 DEF Counted

\* Changes from outside leave rows and runs alone.
LEMMA ChangeKeeps ==
    ASSUME IInv, NEW k \in Changes, Change(k), UNCHANGED <<disk, run, credits, vip, spent, marked>>,
           replicas' \in 0..1, router' \in SUBSET Models, full' \in SUBSET Windows,
           token' \in {"good", "dead"}, copy' \in Copy, sub' \in {"ample", "short", "over"},
           Confirmed /\ k \notin {"fill", "revoke", "down", "drop"} => InService',
           k \notin {"up", "down", "add", "drop"} => replicas' = replicas /\ router' = router
    PROVE  IInv'
<1>1. Typed
    BY DEF IInv
<1>2. /\ made' \in [Changes -> 0..MaxEvents] /\ events' \in 0..MaxEvents
      /\ spent' \in [Faults -> 0..MaxEvents]
      /\ Counted'
      /\ made'[k] # 0
      /\ \A c \in Changes : made'[c] = 0 => made[c] = 0
    BY <1>1, ChangeCounts
<1>3. TypeOK'
    BY <1>1, <1>2 DEF Typed, TypeOK
<1>4. RepairsLeft'
    BY <1>1 DEF Typed, RepairsLeft, At
<1>5. {"fill", "revoke", "down", "drop", "up", "add"} \subseteq Changes
    BY DEF Changes
<1>6. StaysOpen'
  <2>1. SUFFICES ASSUME Confirmed'
                 PROVE  /\ InService' /\ OpenRow(disk, spent)
                        /\ \A r \in Runs : OpenRun(run[r], spent)
    BY DEF StaysOpen
  <2>2. k \notin {"fill", "revoke", "down", "drop"} /\ Confirmed
    BY <1>2, <1>5, <2>1 DEF Confirmed, Never
  <2>3. QED
    BY <2>2 DEF IInv, StaysOpen
<1>7. InOrder'
  <2>1. SUFFICES ASSUME Undisturbed'
                 PROVE  /\ router' # {} => replicas' = 1
                        /\ disk.pending => router' = {}
                        /\ Alone
                        /\ \A r \in Runs : Orderly(run[r], router', replicas')
    BY DEF InOrder, Unrouted, Alone, At
  <2>2. k \notin {"up", "down", "add", "drop"} /\ Undisturbed
    BY <1>2, <1>5, <2>1 DEF Undisturbed, Never
  <2>3. QED
    BY <2>2 DEF IInv, InOrder, Unrouted
<1>8. QED
    BY <1>2, <1>3, <1>4, <1>6, <1>7 DEF IInv, Typed

LEMMA UpstreamKeeps ==
    ASSUME IInv, Upstream
    PROVE  IInv'
<1>1. /\ UNCHANGED <<disk, run, replicas, router, credits, vip, spent, marked>>
      /\ replicas \in 0..1 /\ router \in SUBSET Models /\ full \in SUBSET Windows
      /\ token \in {"good", "dead"} /\ copy \in Copy /\ sub \in {"ample", "short", "over"}
      /\ {"fill", "early", "revoke", "renew", "lapse"} \subseteq Changes
    BY DEF Upstream, Changes, IInv, Typed, TypeOK
<1>2. Confirmed => InService
    BY DEF IInv, StaysOpen
<1>3. ASSUME NEW w \in Windows \ full, Change("fill"), full' = full \cup {w}, UNCHANGED <<token, copy, sub>>
      PROVE  IInv'
    BY <1>1, <1>3, ChangeKeeps
<1>4. ASSUME NEW w \in full, Change("early"), full' = full \ {w}, UNCHANGED <<token, copy, sub>>
      PROVE  IInv'
    BY <1>1, <1>2, <1>4, ChangeKeeps DEF InService
<1>5. CASE /\ token = "good" /\ Change("revoke")
           /\ token' = "dead" /\ copy' = [copy EXCEPT !.ok = FALSE]
           /\ UNCHANGED <<full, sub>>
  <2>1. copy' \in Copy
    <3>1. copy' = [copy EXCEPT !.ok = FALSE] /\ copy \in Copy
      BY <1>1, <1>5
    <3>2. CASE copy = [age |-> "missing", ok |-> FALSE]
      <4>1. copy' = [age |-> "missing", ok |-> FALSE]
        BY <3>1, <3>2
      <4>2. QED
        BY <4>1 DEF Copy
    <3>3. CASE copy \in [age : {"stale", "fresh"}, ok : BOOLEAN]
      <4>1. FALSE \in BOOLEAN
        OBVIOUS
      <4>2. copy' \in [age : {"stale", "fresh"}, ok : BOOLEAN]
        BY <3>1, <3>3, <4>1, Zenon
      <4>3. QED
        BY <4>2 DEF Copy
    <3>4. QED
      BY <3>1, <3>2, <3>3 DEF Copy
  <2>2. /\ Change("revoke") /\ "revoke" \in Changes /\ token' \in {"good", "dead"}
        /\ full' \in SUBSET Windows /\ sub' \in {"ample", "short", "over"}
        /\ replicas' \in 0..1 /\ router' \in SUBSET Models
        /\ UNCHANGED <<disk, run, credits, vip, spent, marked, replicas, router>>
    BY <1>1, <1>5
  <2>3. QED
    BY <2>1, <2>2, ChangeKeeps
<1>6. CASE token = "dead" /\ Change("renew") /\ token' = "good" /\ UNCHANGED <<full, copy, sub>>
    BY <1>1, <1>2, <1>6, ChangeKeeps DEF InService
<1>7. CASE Change("lapse") /\ sub' \in {"short", "over"} \ {sub} /\ UNCHANGED <<full, token, copy>>
    BY <1>1, <1>2, <1>7, ChangeKeeps DEF InService
<1>8. QED
    BY <1>3, <1>4, <1>5, <1>6, <1>7 DEF Upstream

LEMMA OperatorKeeps ==
    ASSUME IInv, Operator
    PROVE  IInv'
<1>1. /\ UNCHANGED <<disk, run, full, token, copy, credits, sub, vip, spent, marked>>
      /\ replicas \in 0..1 /\ router \in SUBSET Models /\ full \in SUBSET Windows
      /\ token \in {"good", "dead"} /\ copy \in Copy /\ sub \in {"ample", "short", "over"}
      /\ {"up", "down", "add", "drop"} \subseteq Changes
      /\ Models # {}
    BY Bounds DEF Operator, Changes, IInv, Typed, TypeOK
<1>2. Confirmed => InService
    BY DEF IInv, StaysOpen
<1>3. CASE replicas = 0 /\ Change("up") /\ replicas' = 1 /\ UNCHANGED router
    BY <1>1, <1>2, <1>3, ChangeKeeps DEF InService
<1>4. CASE replicas = 1 /\ Change("down") /\ replicas' = 0 /\ UNCHANGED router
    BY <1>1, <1>2, <1>4, ChangeKeeps DEF InService
<1>5. CASE router # Models /\ Change("add") /\ router' = Models /\ UNCHANGED replicas
    BY <1>1, <1>2, <1>5, ChangeKeeps DEF InService
<1>6. CASE router # {} /\ Change("drop") /\ router' = {} /\ UNCHANGED replicas
    BY <1>1, <1>2, <1>6, ChangeKeeps DEF InService
<1>7. QED
    BY <1>3, <1>4, <1>5, <1>6 DEF Operator

\* Time makes no row less open, nor marks one.
LEMMA TimeKeeps ==
    ASSUME IInv, UNCHANGED <<replicas, router, token, credits, sub, vip, spent, made, events, marked>>,
           full' \in SUBSET full, copy' \in Copy,
           disk' \in Row, run' \in [Runs -> Run],
           disk'.pending = disk.pending, OpenRow(disk, spent) => OpenRow(disk', spent),
           \A r \in Runs : /\ run'[r].pc = run[r].pc
                           /\ run'[r].snap = run[r].snap
                           /\ run'[r].listed = run[r].listed
                           /\ run'[r].row.pending = run[r].row.pending
                           /\ run'[r].row.repairs = run[r].row.repairs
                           /\ OpenRow(run[r].row, spent) => OpenRow(run'[r].row, spent)
    PROVE  IInv'
<1>1. Typed /\ TypeOK
    BY DEF IInv, Typed
<1>2. TypeOK'
    BY <1>1 DEF TypeOK
<1>3. RepairsLeft' /\ Counted'
    BY <1>1 DEF Typed, RepairsLeft, Counted, At
<1>4. StaysOpen'
  <2>1. SUFFICES ASSUME Confirmed
                 PROVE  /\ InService' /\ OpenRow(disk', spent)
                        /\ \A r \in Runs : OpenRun(run'[r], spent)
    BY DEF StaysOpen, Confirmed, Never
  <2>2. InService /\ OpenRow(disk, spent) /\ \A r \in Runs : OpenRun(run[r], spent)
    BY <2>1 DEF IInv, StaysOpen
  <2>3. InService'
    BY <2>2 DEF InService
  <2>4. ASSUME NEW r \in Runs
        PROVE  OpenRun(run'[r], spent)
    BY <2>2 DEF OpenRun
  <2>5. QED
    BY <2>2, <2>3, <2>4
<1>5. InOrder'
  <2>1. SUFFICES ASSUME Undisturbed
                 PROVE  /\ router # {} => replicas = 1
                        /\ disk'.pending => router = {}
                        /\ Alone'
                        /\ \A r \in Runs : Orderly(run'[r], router, replicas)
    BY DEF InOrder, Undisturbed, Never, Unrouted
  <2>2. Unrouted /\ Alone /\ \A r \in Runs : Orderly(run[r], router, replicas)
    BY <2>1 DEF IInv, InOrder
  <2>3. Alone'
    BY <2>2 DEF Alone, At
  <2>4. ASSUME NEW r \in Runs
        PROVE  Orderly(run'[r], router, replicas)
    BY <2>2 DEF Orderly
  <2>5. QED
    BY <2>2, <2>3, <2>4 DEF Unrouted
<1>6. QED
    BY <1>2, <1>3, <1>4, <1>5 DEF IInv, Typed

LEMMA ExpireKeeps ==
    ASSUME IInv, NEW w \in Windows, Expire(w)
    PROVE  IInv'
<1>1. /\ UNCHANGED <<replicas, router, token, copy, credits, sub, vip, spent, made, events, marked>>
      /\ full' = full \ {w}
      /\ disk' = Over(disk, w)
    BY DEF Expire
<1>2. disk \in Row /\ run \in [Runs -> Run] /\ copy \in Copy
    BY DEF IInv, Typed, TypeOK
<1> DEFINE new(r) == IF At(r, {"idle"}) THEN run[r] ELSE [run[r] EXCEPT !.row = Over(@, w)]
<1>3. run' = [r \in Runs |-> new(r)]
    BY DEF Expire
<1>4. ASSUME NEW row \in Row
      PROVE  OpenRow(row, spent) => OpenRow(Over(row, w), spent)
    BY OverRow DEF OpenRow
<1>5. ASSUME NEW r \in Runs
      PROVE  /\ new(r) \in Run
             /\ new(r).pc = run[r].pc
             /\ new(r).snap = run[r].snap
             /\ new(r).listed = run[r].listed
             /\ new(r).row.pending = run[r].row.pending
             /\ new(r).row.repairs = run[r].row.repairs
             /\ OpenRow(run[r].row, spent) => OpenRow(new(r).row, spent)
  <2>1. run[r] \in Run /\ run[r].row \in Row
    BY <1>2 DEF Run
  <2> DEFINE row == Over(run[r].row, w)
             q == [run[r] EXCEPT !.row = row]
  <2>2. /\ row \in Row /\ row.pending = run[r].row.pending /\ row.repairs = run[r].row.repairs
        /\ OpenRow(run[r].row, spent) => OpenRow(row, spent)
    BY <1>4, <2>1, OverRow
  <2>3. new(r) \in {run[r], q}
    OBVIOUS
  <2> HIDE DEF row, new
  <2>4. /\ q \in Run /\ q.row = row /\ q.pc = run[r].pc /\ q.snap = run[r].snap
        /\ q.listed = run[r].listed
    BY <2>1, <2>2 DEF Run
  <2> HIDE DEF q
  <2>5. QED
    BY <2>1, <2>2, <2>3, <2>4
<1> HIDE DEF new
<1>6. run' \in [Runs -> Run] /\ \A r \in Runs : run'[r] = new(r)
    BY <1>3, <1>5
<1>7. /\ disk' \in Row /\ disk'.pending = disk.pending
      /\ OpenRow(disk, spent) => OpenRow(disk', spent)
    BY <1>1, <1>2, <1>4, OverRow
<1>8. QED
    BY <1>1, <1>2, <1>5, <1>6, <1>7, TimeKeeps

LEMMA ElapseKeeps ==
    ASSUME IInv, NEW f \in Timers, Elapse(f)
    PROVE  IInv'
<1>1. /\ UNCHANGED <<run, replicas, router, full, token, copy, credits, sub, vip, spent, made, events, marked>>
      /\ disk' = Elapsed(disk, f)
    BY DEF Elapse
<1>2. disk \in Row /\ run \in [Runs -> Run] /\ copy \in Copy
    BY DEF IInv, Typed, TypeOK
<1>3. /\ disk' \in Row /\ disk'.pending = disk.pending
      /\ OpenRow(disk, spent) => OpenRow(disk', spent)
    BY <1>1, <1>2, ElapsedRow DEF OpenRow
<1>4. QED
    BY <1>1, <1>2, <1>3, TimeKeeps

LEMMA AgeKeeps ==
    ASSUME IInv, Age
    PROVE  IInv'
<1>1. /\ UNCHANGED <<disk, run, replicas, router, full, token, credits, sub, vip, spent, made, events, marked>>
      /\ copy' = [copy EXCEPT !.age = "stale"] /\ copy.age = "fresh"
    BY DEF Age
<1>2. disk \in Row /\ run \in [Runs -> Run] /\ copy \in Copy
    BY DEF IInv, Typed, TypeOK
<1>3. copy' \in Copy
    BY <1>1, <1>2 DEF Copy
<1>4. QED
    BY <1>1, <1>2, <1>3, TimeKeeps

-----------------------------------------------------------------------------
(* The theorems.                                                           *)

LEMMA InitIInv == Init => IInv
<1> SUFFICES ASSUME Init
             PROVE  IInv
    OBVIOUS
<1>1. /\ disk = Probed({}, FALSE, 0) /\ disk \in Row /\ disk.pending = FALSE
  <2>1. {} \in SUBSET Windows /\ FALSE \in BOOLEAN /\ 0 \in 0..1
    OBVIOUS
  <2>2. QED
    BY <2>1, ProbedRow DEF Init
<1>2. \A r \in Runs : run[r] = NoRun /\ run[r].pc = "idle"
    BY IdleRun DEF Init
<1>3. run \in [Runs -> Run]
    BY IdleRun DEF Init
<1>4. /\ spent = [k \in Faults |-> 0] /\ made = [k \in Changes |-> 0] /\ events = 0 /\ marked = FALSE
      /\ replicas = 1 /\ router = Models /\ full = {} /\ token = "good" /\ sub = "ample"
      /\ copy \in Copy /\ credits \in 0..MaxCredits
    BY DEF Init
<1>5. TypeOK
  <2>0. vip \in BOOLEAN
    BY DEF Init
  <2>1. /\ spent \in [Faults -> 0..MaxEvents] /\ made \in [Changes -> 0..MaxEvents]
        /\ events \in 0..MaxEvents
    BY <1>4, Bounds
  <2>2. /\ replicas \in 0..1 /\ router \in SUBSET Models /\ full \in SUBSET Windows
        /\ token \in {"good", "dead"} /\ sub \in {"ample", "short", "over"} /\ marked \in BOOLEAN
    <3>1. replicas \in 0..1 /\ router \in SUBSET Models /\ full \in SUBSET Windows
      BY <1>4
    <3>2. token \in {"good", "dead"} /\ sub \in {"ample", "short", "over"}
      BY <1>4
    <3>3. marked \in BOOLEAN
      BY <1>4
    <3>4. QED
      BY <3>1, <3>2, <3>3
  <2>3. QED
    BY <1>1, <1>3, <1>4, <2>0, <2>1, <2>2 DEF TypeOK
<1>6. RepairsLeft
    BY <1>2 DEF RepairsLeft, At
<1>7. Counted
    BY <1>4 DEF Counted
<1>8. StaysOpen
  <2>1. "401" \in Faults /\ "ssh" \in Faults /\ spent["401"] = 0 /\ spent["ssh"] = 0
    BY <1>4 DEF Faults
  <2> DEFINE row == Probed({}, FALSE, 0)
  <2>2. /\ row.tier = "usage" /\ row.paused = FALSE /\ row.manual = FALSE
        /\ row.pending = FALSE /\ row.c401 = 0 /\ row.hits = 0
    <3>1. {} \in SUBSET Windows /\ FALSE \in BOOLEAN /\ 0 \in 0..1
      OBVIOUS
    <3>2. QED
      BY <3>1, ProbedRow
  <2> HIDE DEF row
  <2>3. OpenRow(row, spent)
    BY <2>1, <2>2 DEF OpenRow
  <2>4. OpenRun(NoRun, spent)
    BY <2>3, IdleRun DEF OpenRun, row
  <2>5. InService
    BY <1>4, Bounds DEF InService
  <2>6. QED
    BY <1>1, <1>2, <2>3, <2>4, <2>5 DEF StaysOpen, row
<1>9. InOrder
    BY <1>1, <1>2, <1>4 DEF InOrder, Unrouted, Alone, At, Orderly, Out
<1>10. QED
    BY <1>5, <1>6, <1>7, <1>8, <1>9 DEF IInv, Typed

LEMMA NextIInv == IInv /\ [Next]_vars => IInv'
<1> SUFFICES ASSUME IInv, [Next]_vars
             PROVE  IInv'
    OBVIOUS
<1>1. ASSUME NEW r \in Runs, Step(r)
      PROVE  IInv'
    BY <1>1, StartKeeps, TurnKeeps, RepairKeeps, FastKeeps, ReviveKeeps, WakeKeeps, AskPodKeeps,
       BankKeeps, ResumeKeeps, RegisterKeeps, DriftKeeps, ZeroKeeps, DeleteKeeps, ScaleDownKeeps,
       ProbeKeeps, AskKeeps, SaveKeeps DEF Step
<1>2. CASE UNCHANGED vars
  <2>1. disk \in Row /\ run \in [Runs -> Run] /\ copy \in Copy
    BY DEF IInv, Typed, TypeOK
  <2>2. QED
    BY <1>2, <2>1, TimeKeeps DEF vars
<1>3. QED
    BY <1>1, <1>2, CrashKeeps, UpstreamKeeps, OperatorKeeps, AgeKeeps, ExpireKeeps, ElapseKeeps DEF Next

LEMMA SpecIInv == Spec => []IInv
BY InitIInv, NextIInv, PTL DEF Spec

\* Every variable keeps its type: in particular no counter of a row leaves its
\* range, and no event happens beyond the bound.
THEOREM RebalanceTypeOK == Spec => []TypeOK
<1>1. IInv => TypeOK
    BY DEF IInv, Typed
<1>2. QED
    BY <1>1, SpecIInv, PTL

\* An account nothing is wrong with stays in service through every wrong answer
\* that no other confirms, whatever runs there are and whichever calls fail.
THEOREM HealthyStays == Spec => []HealthyStaysOnline
<1>1. IInv => HealthyStaysOnline
  <2>1. SUFFICES ASSUME IInv, Confirmed
                 PROVE  Serving
    BY DEF HealthyStaysOnline, Confirmed
  <2>2. QED
    BY <2>1, Bounds DEF IInv, StaysOpen, InService, Serving
<1>2. QED
    BY <1>1, SpecIInv, PTL

\* The pod comes before the entries and goes after them, whichever calls fail and
\* wherever a run dies.
THEOREM PodsComeFirst == Spec => []PodsBeforeEntries
<1>1. IInv => PodsBeforeEntries
  <2>1. SUFFICES ASSUME IInv, Undisturbed
                 PROVE  router # {} => replicas = 1
    BY DEF PodsBeforeEntries, Undisturbed
  <2>2. QED
    BY <2>1 DEF IInv, InOrder, Unrouted
<1>2. QED
    BY <1>1, SpecIInv, PTL

=============================================================================
