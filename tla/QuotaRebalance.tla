-------------------------- MODULE QuotaRebalance --------------------------
(***************************************************************************)
(* scripts/quota-rebalance.py: the cron job that takes an account of the   *)
(* ChatGPT pool out of the LiteLLM router when its quota is used up or its *)
(* token is dead, scales its Deployment to zero, and brings it back.       *)
(*                                                                         *)
(* One account, at the location "198" like all of POOL_ACCOUNTS.  A run    *)
(* loads the whole state file, takes a snapshot of the replicas and of the *)
(* router, handles one account after the other and saves the file at its   *)
(* end: a run that dies saves nothing, and nothing keeps two runs apart.   *)
(* The other accounts show only in that: their turns take time, use up the *)
(* limits of a run, and may kill it.                                       *)
(*                                                                         *)
(* Percentages are kept as the set of windows that are used up, times as   *)
(* flags that the passing of time clears.  Not modelled: alerts and their  *)
(* counter, weights, entries of the account's models under another URL.    *)
(***************************************************************************)
EXTENDS Naturals

CONSTANTS
    MaxRuns,       \* bound: cron runs under way together
    Models,        \* the account's entries in the router
    Asked,         \* the one that a request is made for, in doubt
    CanRepair,     \* whether its credentials allow a new login
    Threshold,     \* CONSECUTIVE_401_THRESHOLD
    MaxFails,      \* REVIVE_PROBE_MAX_FAILS
    MaxRepairs,    \* MAX_REPAIR_ATTEMPTS
    MaxCredits,    \* bound: banked resets at the start
    MaxEvents      \* bound: faults and changes from outside in a behaviour

Runs == 1..MaxRuns

Windows == {"5h", "week"}

Faults == {"ssh", "litellm", "openai", "late",   \* a call fails, done or not
           "401", "5h", "week", "ask",           \* an answer is wrong
           "busy", "overlap", "crash"}

Changes == {"fill", "early", "revoke", "renew", "lapse",   \* upstream
            "up", "down", "add", "drop"}                   \* operators

ASSUME RebalanceAssumptions ==
    /\ MaxRuns \in Nat \ {0}
    /\ CanRepair \in BOOLEAN
    /\ Threshold \in Nat \ {0} /\ MaxFails \in Nat \ {0}
    /\ MaxRepairs \in Nat /\ MaxCredits \in Nat
    /\ Asked \in Models
    /\ MaxEvents \in Nat

VARIABLES
    disk,      \* the account's row in state.json
    run,       \* what each run holds in memory
    replicas,  \* of the Deployment
    router,    \* the pool entries of the account, without the vip one
    full,      \* the windows used up upstream
    token,     \* the token in the pod: "good" or "dead"
    copy,      \* the copy of auth.json on the cron host
    credits,   \* banked resets left
    sub,       \* the subscription: "ample" (2 days or more), "short" or "over"
    vip,       \* whether the account has a chatgpt-vip entry as well
    spent,     \* history: the faults so far, by kind
    made,      \* history: the changes so far, by kind
    events,    \* history: how many faults and changes
    marked     \* history: whether entries were made over the mark of a failed scaling

vars == <<disk, run, replicas, router, full, token, copy, credits, sub, vip, spent, made, events, marked>>

-----------------------------------------------------------------------------
(* Types.                                                                  *)

\* tier: as far as the code tests it. full: the windows last seen used
\* up. ahead: the 5h reset, as last read, is still to come. wait: the window
\* restore_at belongs to, until then. recent: ts is too young for a probe.
\* cool, bank, mending: the cooldowns of pod probes, bank resets and repairs.
Row == [tier: {"usage", "down", "token"}, paused: BOOLEAN, manual: BOOLEAN,
        c401: 0..Threshold, hits: 0..1, pending: BOOLEAN,
        full: SUBSET Windows, ahead: BOOLEAN, wait: SUBSET Windows,
        recent: BOOLEAN, cool: BOOLEAN, fails: 0..MaxFails, bank: BOOLEAN,
        repairs: 0..MaxRepairs, mending: BOOLEAN]

Place == {"idle", "turn", "repair", "retry", "fast", "revive", "wake", "asked",
          "alive", "enlist", "bankDown", "zero", "ghost", "quiet", "probe",
          "bankOnline", "ask", "drift", "resume", "register", "pause", "down", "end"}

Run == [pc: Place, row: Row, snap: {"unknown", "zero", "up"},
        listed: {"unknown", "none", "some"}, seen: SUBSET Windows]

Copy == [age: {"stale", "fresh"}, ok: BOOLEAN] \cup {[age |-> "missing", ok |-> FALSE]}

TypeOK ==
    /\ disk \in Row
    /\ run \in [Runs -> Run]
    /\ replicas \in 0..1
    /\ router \in SUBSET Models
    /\ full \in SUBSET Windows
    /\ token \in {"good", "dead"}
    /\ copy \in Copy
    /\ credits \in 0..MaxCredits
    /\ sub \in {"ample", "short", "over"}
    /\ vip \in BOOLEAN
    /\ spent \in [Faults -> 0..MaxEvents]
    /\ made \in [Changes -> 0..MaxEvents]
    /\ events \in 0..MaxEvents
    /\ marked \in BOOLEAN

-----------------------------------------------------------------------------
(* Rows.                                                                   *)

\* The row a probe writes: nothing of the old one is kept but the count of weeks.
Probed(seen, paused, hits) ==
    [tier |-> "usage", paused |-> paused, manual |-> FALSE, c401 |-> 0,
     hits |-> hits, pending |-> FALSE, full |-> seen, ahead |-> "5h" \in seen,
     wait |-> IF "week" \in seen THEN {"week"} ELSE seen,
     recent |-> TRUE, cool |-> FALSE, fails |-> 0, bank |-> FALSE,
     repairs |-> 0, mending |-> FALSE]

\* An operator has scaled the account up again.
Reopened(row) ==
    [row EXCEPT !.paused = FALSE, !.manual = FALSE, !.c401 = 0,
                !.pending = FALSE, !.tier = "usage", !.recent = FALSE]

Closed(row) == [row EXCEPT !.paused = TRUE, !.tier = "down", !.recent = TRUE]

StillCap(row, seen) ==
    [row EXCEPT !.full = seen, !.ahead = "5h" \in seen, !.cool = TRUE,
                !.fails = 0, !.recent = TRUE]

TokenInvalid(row) == [row EXCEPT !.manual = TRUE, !.cool = TRUE, !.recent = TRUE]

ProbeFailed(row) ==
    LET n == IF row.fails < MaxFails THEN row.fails + 1 ELSE row.fails
    IN  [row EXCEPT !.fails = n, !.manual = @ \/ n = MaxFails,
                    !.cool = TRUE, !.recent = TRUE]

Revived(row) ==
    [row EXCEPT !.paused = FALSE, !.tier = "usage", !.full = {}, !.ahead = FALSE,
                !.cool = FALSE, !.fails = 0, !.recent = TRUE]

Refused(row, n) == [row EXCEPT !.c401 = n, !.recent = TRUE]

TokenDead(row) ==
    [row EXCEPT !.manual = TRUE, !.paused = TRUE, !.tier = "token",
                !.c401 = Threshold, !.recent = TRUE, !.pending = FALSE]

-----------------------------------------------------------------------------
(* Faults, and what a step of run r changes in its memory.                 *)

Another ==
    /\ events < MaxEvents
    /\ events' = events + 1

Spend(k) ==
    /\ Another
    /\ spent' = [spent EXCEPT ![k] = @ + 1]

Luck == UNCHANGED <<spent, events>>

NoRun == [pc |-> "idle", row |-> Probed({}, FALSE, 0), snap |-> "unknown",
          listed |-> "unknown", seen |-> {}]

At(r, places) == run[r].pc \in places

Goto(r, pc) == run' = [run EXCEPT ![r].pc = pc]

Continue(r, pc, row) == run' = [run EXCEPT ![r].pc = pc, ![r].row = row]

Dies(r) == run' = [run EXCEPT ![r] = NoRun]

Synced == [age |-> "fresh", ok |-> token = "good"]

\* A usage answer: what the upstream says, or a window too many.
Reading(seen) ==
    \/ seen = full /\ Luck
    \/ \E w \in Windows \ full : seen = full \cup {w} /\ Spend(w)

\* kubectl scale over ssh. A call up also fails when no endpoint is ready in time;
\* late: a call down that was made and whose answer is lost.
Scaled(n) == replicas' = n /\ Luck
UpFails == replicas' \in {replicas, 1} /\ Spend("ssh")
DownFails ==
    \/ replicas' = replicas /\ Spend("ssh")
    \/ replicas' = 0 /\ Spend("late")

-----------------------------------------------------------------------------
(* The start of a run, and an account's turn.                              *)

Snapshot == IF replicas = 0 THEN "zero" ELSE "up"
Listing == IF router = {} THEN "none" ELSE "some"

\* The state is loaded and the snapshots are taken, and a copy of auth.json that
\* is missing is made from the pod, if that call succeeds and not too many are.
Start(r) ==
    /\ At(r, {"idle"})
    /\ \E snap \in {"unknown", Snapshot}, listed \in {"unknown", Listing} :
         /\ run' = [run EXCEPT ![r] = [pc |-> "turn", row |-> disk, snap |-> snap,
                                       listed |-> listed, seen |-> {}]]
         /\ \/ /\ \A q \in Runs : At(q, {"idle"})
               /\ r = 1
               /\ \/ snap # "unknown" /\ listed # "unknown" /\ Luck
                  \/ snap = "unknown" /\ listed # "unknown" /\ Spend("ssh")
                  \/ snap # "unknown" /\ listed = "unknown" /\ Spend("litellm")
            \/ /\ snap # "unknown" /\ listed # "unknown"
               /\ \E q \in Runs : ~At(q, {"idle"})
               /\ \A q \in 1..(r - 1) : ~At(q, {"idle"})
               /\ Spend("overlap")
         /\ copy' \in {copy} \cup {c \in {Synced} : copy.age = "missing" /\ replicas > 0}
    /\ UNCHANGED <<disk, replicas, router, full, token, credits, sub, vip, made, marked>>

MayRepair(row) ==
    /\ CanRepair
    /\ row.tier = "token" /\ row.manual
    /\ row.repairs < MaxRepairs /\ ~row.mending

\* The cause of a closed row is derived from the windows it was seen to have used
\* up: week before 5h, and unknown for neither.
ResetDue(row) == row.full = {"5h"} /\ ~row.ahead

\* Mutant: an account that was closed for no known reason stays closed.
RevivableKnown(row) ==
    /\ row.tier = "down" /\ ~row.manual /\ sub # "over" /\ ~row.cool
    /\ ResetDue(row) \/ "week" \in row.full

Revivable(row) ==
    /\ row.tier = "down" /\ ~row.manual /\ sub # "over" /\ ~row.cool
    /\ ResetDue(row) \/ row.full = {} \/ "week" \in row.full

ShouldProbe(row) ==
    IF row.manual THEN ~row.recent
    ELSE IF row.paused THEN row.wait = {} \/ ~row.recent
    ELSE "5h" \in row.full \/ ~row.recent

Reopen(q) == IF q.snap = "up" /\ q.row.tier = "down" THEN Reopened(q.row) ELSE q.row

\* Where the turn goes. busy: another account's turn has used up the run's repair
\* or the revivals and probes it may make.
Turn(r) ==
    LET q   == run[r]
        row == Reopen(q)
    IN  /\ At(r, {"turn"})
        /\ \E busy \in BOOLEAN :
             /\ IF busy THEN Spend("busy") ELSE Luck
             /\ IF MayRepair(q.row) /\ ~busy
                THEN Goto(r, "repair")
                ELSE Continue(r, CASE q.snap = "up" /\ row.pending -> "retry"
                                   [] q.snap = "zero" /\ Revivable(row) /\ ~busy ->
                                        IF copy.age = "fresh" THEN "fast" ELSE "wake"
                                   [] q.snap = "zero" /\ ~(Revivable(row) /\ ~busy) -> "zero"
                                   [] q.snap # "zero" /\ ~(q.snap = "up" /\ row.pending) ->
                                        IF ShouldProbe(row) THEN "probe" ELSE "end", row)
        /\ UNCHANGED <<disk, replicas, router, full, token, copy, credits, sub, vip, made, marked>>

\* A new login, also left as the copy if there was none, and written into the pod,
\* which must be there. It may fail at any of these; the next run is to probe.
Repair(r) ==
    /\ At(r, {"repair"})
    /\ \E ok \in BOOLEAN :
         /\ ok => replicas > 0
         /\ token' = IF ok THEN "good" ELSE token
         /\ copy' \in {copy} \cup
                {c \in {[age |-> "fresh", ok |-> TRUE]} : copy.age = "missing"}
         /\ ok /\ copy.age = "missing" => copy'.ok
    /\ Continue(r, "end", [run[r].row EXCEPT !.repairs = @ + 1, !.mending = TRUE,
                                             !.recent = FALSE])
    /\ UNCHANGED <<disk, replicas, router, full, credits, sub, vip, spent, made, events, marked>>

-----------------------------------------------------------------------------
(* A closed account whose reset is due.                                    *)

\* With a fresh copy the upstream is asked from the cron host; only an answer
\* with quota left scales the account up, and the next run goes on from there.
Fast(r) ==
    /\ At(r, {"fast"})
    /\ \E answered \in BOOLEAN :
         /\ IF answered THEN Luck ELSE Spend("openai")
         /\ Goto(r, IF answered /\ copy.ok /\ full = {} THEN "revive" ELSE "zero")
    /\ UNCHANGED <<disk, replicas, router, full, token, copy, credits, sub, vip, made, marked>>

Revive(r) ==
    /\ At(r, {"revive"})
    /\ \/ /\ Scaled(1)
          /\ Continue(r, "end", [run[r].row EXCEPT !.cool = FALSE, !.fails = 0])
       \/ /\ UpFails
          /\ Goto(r, "end")
    /\ UNCHANGED <<disk, router, full, token, copy, credits, sub, vip, made, marked>>

\* Without one the pod is started to get at its token.
Wake(r) ==
    /\ At(r, {"wake"})
    /\ \/ Scaled(1) /\ Goto(r, "asked")
       \/ UpFails /\ Continue(r, "quiet", ProbeFailed(run[r].row))
    /\ UNCHANGED <<disk, router, full, token, copy, credits, sub, vip, made, marked>>

AskPod(r) ==
    LET row == run[r].row
    IN  /\ At(r, {"asked"})
        /\ \/ /\ IF replicas = 0 THEN Luck ELSE Spend("ssh")
              /\ Continue(r, "quiet", ProbeFailed(row))
              /\ UNCHANGED copy
           \/ /\ replicas > 0
              /\ copy' = Synced
              /\ \/ Spend("openai") /\ Continue(r, "quiet", ProbeFailed(row))
                 \/ /\ IF token = "dead" THEN Luck ELSE Spend("401")
                    /\ Continue(r, "quiet", TokenInvalid(row))
                 \/ \E seen \in SUBSET Windows :
                      /\ token = "good"
                      /\ Reading(seen)
                      /\ run' = [run EXCEPT ![r].seen = seen,
                                    ![r].pc = CASE seen = {} -> "alive"
                                                [] "week" \in seen -> "bankDown"
                                                [] OTHER -> "quiet",
                                    ![r].row = IF seen = {"5h"} THEN StillCap(row, seen) ELSE row]
        /\ UNCHANGED <<disk, replicas, router, full, token, credits, sub, vip, made, marked>>

-----------------------------------------------------------------------------
(* A banked reset instead of a wait for the week's end.                    *)

BankTried(row) ==
    ~row.bank /\ sub = "ample" /\ (copy.age = "fresh" \/ replicas > 0)

\* What the caller does when no credit was used: close the account, or pause it.
Declined(r, bank) ==
    LET q == run[r]
    IN  IF q.pc = "bankDown"
        THEN Continue(r, "quiet", StillCap([q.row EXCEPT !.bank = bank], q.seen))
        ELSE Continue(r, "pause", Probed(q.seen, TRUE, 0))

\* And when one was: the account goes back to work, with the usage asked for again
\* if that call succeeds. A row written by a probe forgets the cooldown.
Granted(r, asked) ==
    LET q == run[r]
    IN  IF q.pc = "bankDown"
        THEN run' = [run EXCEPT ![r].pc = "alive", ![r].row = [q.row EXCEPT !.bank = TRUE],
                                ![r].seen = {}]
        ELSE Continue(r, "drift",
                      [Probed(IF asked THEN {} ELSE q.seen, FALSE, 0) EXCEPT !.wait = {}])

\* busy: the run has made as many resets as it may, and does not try.
Bank(r) ==
    LET row  == run[r].row
        used == IF copy.age = "fresh" THEN copy ELSE Synced
    IN  /\ At(r, {"bankDown", "bankOnline"})
        /\ \/ /\ BankTried(row) => Spend("busy") \/ Spend("ssh")
              /\ ~BankTried(row) => Luck
              /\ Declined(r, row.bank)
              /\ UNCHANGED <<copy, credits, full>>
           \/ /\ BankTried(row)
              /\ copy' = used
              /\ IF used.ok THEN Spend("openai") ELSE Luck
              /\ Declined(r, row.bank)
              /\ UNCHANGED <<credits, full>>
           \/ /\ BankTried(row) /\ used.ok
              /\ copy' = used
              /\ \/ /\ IF credits = 0 \/ full = {} THEN Luck ELSE FALSE
                    /\ Declined(r, TRUE)
                    /\ UNCHANGED <<credits, full>>
                 \/ /\ credits > 0
                    /\ credits' = credits - 1
                    /\ full' = {}
                    /\ \/ Luck /\ Granted(r, TRUE)
                       \/ Spend("openai") /\ (Granted(r, FALSE) \/ Declined(r, TRUE))
        /\ UNCHANGED <<disk, replicas, router, token, sub, vip, made, marked>>

-----------------------------------------------------------------------------
(* Bringing an account back: first the pod, then the router's entries.     *)

Resume(r) ==
    /\ At(r, {"alive", "resume"})
    /\ \/ Scaled(1) /\ Goto(r, IF At(r, {"alive"}) THEN "enlist" ELSE "register")
       \/ UpFails /\ Goto(r, "end")
    /\ UNCHANGED <<disk, router, full, token, copy, credits, sub, vip, made, marked>>

\* An account revived from a closed row is entered as online only if an entry is
\* known to have been made; a probe has entered it whatever comes of this.
Register(r) ==
    /\ At(r, {"enlist", "register"})
    /\ \E known \in BOOLEAN :
         /\ \/ router' = Models /\ known /\ Luck
            \/ router' \in SUBSET Models /\ (known => router' # {}) /\ Spend("litellm")
         /\ IF At(r, {"enlist"}) /\ known
            THEN Continue(r, "end", Revived(run[r].row))
            ELSE Goto(r, "end")
    /\ marked' = (marked \/ (router' # {} /\ (disk.pending \/ run[r].row.pending)))
    /\ UNCHANGED <<disk, replicas, full, token, copy, credits, sub, vip, made>>

\* Online, with quota, and yet no entry in the snapshot: the entries are made anew.
Drift(r) ==
    /\ At(r, {"drift"})
    /\ \E any \in BOOLEAN :
         /\ IF run[r].listed = "unknown"
            THEN \/ any = (vip \/ router # {}) /\ Luck
                 \/ any /\ Spend("litellm")
            ELSE any = (vip \/ run[r].listed = "some") /\ Luck
         /\ Goto(r, IF any THEN "end" ELSE "resume")
    /\ UNCHANGED <<disk, replicas, router, full, token, copy, credits, sub, vip, made, marked>>

-----------------------------------------------------------------------------
(* Taking it out: first the router's entries, then the pod.                *)

\* No pod: what the router still has of the account is removed.
Zero(r) ==
    /\ At(r, {"zero"})
    /\ \E any \in BOOLEAN :
         /\ IF run[r].listed = "unknown"
            THEN \/ any = (router # {}) /\ Luck
                 \/ any /\ Spend("litellm")
            ELSE any = (run[r].listed = "some") /\ Luck
         /\ Continue(r, IF any THEN "ghost" ELSE "end", Closed(run[r].row))
    /\ UNCHANGED <<disk, replicas, router, full, token, copy, credits, sub, vip, made, marked>>

\* Mutant: the pod first, then the router's entries.
DeleteLast(r) ==
    /\ \/ /\ At(r, {"pause"})
          /\ Scaled(0) /\ Goto(r, "ghost")
          /\ UNCHANGED router
       \/ /\ At(r, {"ghost"})
          /\ Luck /\ Goto(r, "quiet")
          /\ router' = {} /\ UNCHANGED replicas
    /\ UNCHANGED <<disk, full, token, copy, credits, sub, vip, made, marked>>

\* When the list of entries cannot be had pause_acct returns 0, not a record, and
\* a caller that looks into it dies.
Delete(r) ==
    /\ At(r, {"pause", "ghost"})
    /\ \/ /\ Spend("litellm")
          /\ IF At(r, {"pause"}) THEN Dies(r) ELSE Goto(r, "end")
          /\ UNCHANGED router
       \/ /\ \/ router' = {} /\ Luck
             \/ router' \in SUBSET router /\ Spend("litellm")
          /\ Goto(r, IF At(r, {"pause"}) THEN "down" ELSE "quiet")
    /\ UNCHANGED <<disk, replicas, full, token, copy, credits, sub, vip, made, marked>>

\* A failed scaling is remembered and tried again, but not after a pod probe.
ScaleDown(r) ==
    /\ At(r, {"down", "retry", "quiet"})
    /\ \E ok \in BOOLEAN :
         /\ IF ok THEN Scaled(0) ELSE DownFails
         /\ IF At(r, {"quiet"})
            THEN Goto(r, "end")
            ELSE Continue(r, "end", [run[r].row EXCEPT !.pending = ~ok])
    /\ UNCHANGED <<disk, router, full, token, copy, credits, sub, vip, made, marked>>

-----------------------------------------------------------------------------
(* A pod that should be there: ask the upstream with its token.            *)

\* Mutant: the count of used up weeks is not looked at.
JudgeOnlyCounts(r, seen) ==
    LET row == run[r].row
        Go(pc, new) == run' = [run EXCEPT ![r].pc = pc, ![r].row = new, ![r].seen = seen]
    IN  \/ seen # {} /\ row.paused /\ Go("end", Probed(seen, TRUE, 0))
        \/ "week" \in seen /\ ~row.paused /\ Go("end", Probed(seen, FALSE, row.hits + 1))
        \/ seen = {"5h"} /\ ~row.paused /\ Go("ask", row)
        \/ seen = {} /\ Go(IF row.paused THEN "resume" ELSE "drift", Probed({}, FALSE, 0))

Judge(r, seen) ==
    LET row == run[r].row
        Go(pc, new) == run' = [run EXCEPT ![r].pc = pc, ![r].row = new, ![r].seen = seen]
    IN  \/ seen # {} /\ row.paused /\ Go("end", Probed(seen, TRUE, 0))
        \/ "week" \in seen /\ ~row.paused /\ row.hits = 0 /\ Go("end", Probed(seen, FALSE, 1))
        \/ "week" \in seen /\ ~row.paused /\ row.hits = 1 /\ Go("bankOnline", row)
        \/ seen = {"5h"} /\ ~row.paused /\ Go("ask", row)
        \/ seen = {} /\ Go(IF row.paused THEN "resume" ELSE "drift", Probed({}, FALSE, 0))

\* Mutant: one refusal too few.
RefuseEarly(r) ==
    LET row == run[r].row
    IN  IF row.c401 + 2 < Threshold
        THEN Continue(r, "end", Refused(row, row.c401 + 1))
        ELSE Continue(r, IF row.manual THEN "end" ELSE "pause", TokenDead(row))

\* One 401 may be chance; Threshold of them in a row mean that the token is dead.
Refuse(r) ==
    LET row == run[r].row
    IN  IF row.c401 + 1 < Threshold
        THEN Continue(r, "end", Refused(row, row.c401 + 1))
        ELSE Continue(r, IF row.manual THEN "end" ELSE "pause", TokenDead(row))

\* Without a pod there is no token to be read, and with one the call may fail.
Unread == IF replicas = 0 THEN Luck ELSE Spend("ssh")

\* The token is the pod's, or the copy's when that cannot be read.
Probe(r) ==
    LET row == run[r].row
    IN  /\ At(r, {"probe"})
        /\ \/ /\ \/ copy.age = "missing" /\ Unread
                 \/ Spend("openai")
              /\ Continue(r, "end", [row EXCEPT !.recent = TRUE])
           \/ /\ \/ replicas > 0 /\ token = "dead" /\ Luck
                 \/ replicas > 0 /\ token = "good" /\ Spend("401")
                 \/ copy.age # "missing" /\ ~copy.ok /\ Unread
              /\ Refuse(r)
           \/ \E seen \in SUBSET Windows :
                 /\ \/ replicas > 0 /\ token = "good" /\ Reading(seen)
                    \/ copy.age # "missing" /\ copy.ok /\ seen = full /\ Unread
                 /\ Judge(r, seen)
        /\ UNCHANGED <<disk, replicas, router, full, token, copy, credits, sub, vip, made, marked>>

\* A request through the router decides whether a used up 5h window is believed.
Ask(r) ==
    LET q       == run[r]
        answers == replicas > 0 /\ Asked \in router /\ full = {} /\ token = "good"
    IN  /\ At(r, {"ask"})
        /\ \/ answers /\ Luck /\ Continue(r, "end", Probed(q.seen, FALSE, 0))
           \/ /\ IF answers THEN Spend("ask") ELSE Luck
              /\ Continue(r, "pause", Probed(q.seen, TRUE, 0))
        /\ UNCHANGED <<disk, replicas, router, full, token, copy, credits, sub, vip, made, marked>>

\* The run's end, and a run that is killed or dies of an exception.
Save(r) ==
    /\ At(r, {"end"})
    /\ disk' = run[r].row
    /\ run' = [run EXCEPT ![r] = NoRun]
    /\ UNCHANGED <<replicas, router, full, token, copy, credits, sub, vip, spent, made, events, marked>>

Crash(r) ==
    /\ ~At(r, {"idle"})
    /\ Spend("crash")
    /\ Dies(r)
    /\ UNCHANGED <<disk, replicas, router, full, token, copy, credits, sub, vip, made, marked>>

-----------------------------------------------------------------------------
(* The world: the upstream, operators, and the time that passes.           *)

Change(k) ==
    /\ Another
    /\ made' = [made EXCEPT ![k] = @ + 1]

Upstream ==
    /\ \/ \E w \in Windows \ full : Change("fill") /\ full' = full \cup {w} /\ UNCHANGED <<token, copy, sub>>
       \/ \E w \in full : Change("early") /\ full' = full \ {w} /\ UNCHANGED <<token, copy, sub>>
       \/ /\ token = "good" /\ Change("revoke")
          /\ token' = "dead" /\ copy' = [copy EXCEPT !.ok = FALSE]
          /\ UNCHANGED <<full, sub>>
       \/ token = "dead" /\ Change("renew") /\ token' = "good" /\ UNCHANGED <<full, copy, sub>>
       \/ /\ sub # "over" /\ Change("lapse")
          /\ sub' \in {"short", "over"} \ {sub}
          /\ UNCHANGED <<full, token, copy>>
    /\ UNCHANGED <<disk, run, replicas, router, credits, vip, spent, marked>>

Operator ==
    /\ \/ replicas = 0 /\ Change("up") /\ replicas' = 1 /\ UNCHANGED router
       \/ replicas = 1 /\ Change("down") /\ replicas' = 0 /\ UNCHANGED router
       \/ router # Models /\ Change("add") /\ router' = Models /\ UNCHANGED replicas
       \/ router # {} /\ Change("drop") /\ router' = {} /\ UNCHANGED replicas
    /\ UNCHANGED <<disk, run, full, token, copy, credits, sub, vip, spent, marked>>

\* A window ends: upstream, and for the rows that remember its end.
Over(row, w) == [row EXCEPT !.ahead = @ /\ w # "5h", !.wait = @ \ {w}]

Expire(w) ==
    /\ full' = full \ {w}
    /\ disk' = Over(disk, w)
    /\ run' = [r \in Runs |-> IF At(r, {"idle"}) THEN run[r]
                              ELSE [run[r] EXCEPT !.row = Over(@, w)]]
    /\ <<full, disk, run>>' # <<full, disk, run>>
    /\ UNCHANGED <<replicas, router, token, copy, credits, sub, vip, spent, made, events, marked>>

Elapsed(row, f) ==
    CASE f = "recent"  -> [row EXCEPT !.recent = FALSE]
      [] f = "cool"    -> [row EXCEPT !.cool = FALSE]
      [] f = "bank"    -> [row EXCEPT !.bank = FALSE]
      [] f = "mending" -> [row EXCEPT !.mending = FALSE]

\* These take longer than a run: half an hour to half a day.
Quiet == \A r \in Runs : At(r, {"idle"})

Elapse(f) ==
    /\ Quiet
    /\ disk' = Elapsed(disk, f)
    /\ disk' # disk
    /\ UNCHANGED <<run, replicas, router, full, token, copy, credits, sub, vip, spent, made, events, marked>>

Age ==
    /\ Quiet
    /\ copy.age = "fresh"
    /\ copy' = [copy EXCEPT !.age = "stale"]
    /\ UNCHANGED <<disk, run, replicas, router, full, token, credits, sub, vip, spent, made, events, marked>>

-----------------------------------------------------------------------------
\* An account at work.
Init ==
    /\ disk = Probed({}, FALSE, 0)
    /\ run = [r \in Runs |-> NoRun]
    /\ replicas = 1
    /\ router = Models
    /\ full = {}
    /\ token = "good"
    /\ copy \in Copy
    /\ credits \in 0..MaxCredits
    /\ sub = "ample"
    /\ vip \in BOOLEAN
    /\ spent = [k \in Faults |-> 0]
    /\ made = [k \in Changes |-> 0]
    /\ events = 0
    /\ marked = FALSE

Step(r) ==
    \/ Start(r) \/ Turn(r) \/ Repair(r) \/ Fast(r) \/ Revive(r) \/ Wake(r) \/ AskPod(r)
    \/ Bank(r) \/ Resume(r) \/ Register(r) \/ Drift(r) \/ Zero(r) \/ Delete(r)
    \/ ScaleDown(r) \/ Probe(r) \/ Ask(r) \/ Save(r)

Timers == {"recent", "cool", "bank", "mending"}

Next ==
    \/ \E r \in Runs : Step(r) \/ Crash(r)
    \/ Upstream \/ Operator \/ Age
    \/ \E w \in Windows : Expire(w)
    \/ \E f \in Timers : Elapse(f)

Spec == Init /\ [][Next]_vars

\* The cron job keeps being started and its runs go on; time passes.
FairSpec ==
    /\ Spec
    /\ \A r \in Runs : WF_vars(Step(r))
    /\ \A w \in Windows : WF_vars(Expire(w))
    /\ SF_vars(Elapse("recent")) /\ SF_vars(Elapse("cool"))
    /\ SF_vars(Age)

-----------------------------------------------------------------------------
(* Properties.                                                             *)

Never(ks) == \A k \in ks : made[k] = 0

Serving == replicas = 1 /\ router # {}

\* An account nothing is wrong with stays in service through wrong answers that do
\* not confirm each other: fewer than Threshold refusals (a pod out of reach may
\* mean one too, by a copy that is dead), one used up week, a used up 5h window that
\* a request through the router does not bear out; and through any failed
\* call, crash and overlap of runs.
HealthyStaysOnline ==
    /\ Never({"fill", "revoke", "down", "drop"})
    /\ spent["401"] + spent["ssh"] < Threshold
    /\ spent["week"] < 2
    /\ spent["5h"] = 0 \/ spent["ask"] = 0
    => Serving

\* The router never sends requests to an account without a pod: the pod comes
\* first on the way up, the entries go first on the way down, whichever calls to
\* the cluster or the upstream fail, with whichever answers, and wherever a run
\* is killed. That needs a router that answers, one run at a time and no
\* operator; and no entries may have been made for an account that still has
\* the mark of a failed scaling, in its row or on disk (see RetryFindsItPaused).
PodsBeforeEntries ==
    /\ spent["litellm"] = 0 /\ spent["overlap"] = 0
    /\ ~marked
    /\ Never({"up", "down", "add", "drop"})
    => (router # {} => replicas = 1)

\* An account with a vip entry may do without the others: the test for entries lost
\* (router_has_entries) takes the vip entry for one of them.
Back == replicas = 1 /\ (router # {} \/ vip)

\* Once the faults and the changes end, the account comes back for good: with its
\* pod, and with its entries in the pool unless it has a vip entry. Not so if its
\* token is dead or its subscription over, nor if it was marked manual_offline and
\* scaled to zero, for a probe that could heal it is made only with a pod. And no
\* entries are left without a pod.
Settles ==
    <>[](/\ Back \/ (disk.manual /\ replicas = 0) \/ token = "dead" \/ sub = "over"
         /\ router # {} => replicas = 1)

-----------------------------------------------------------------------------
(* What a comment says, and the code does not do.                          *)

\* "The last round's scale_deploy failed, now paused=True but deploy.replicas>0"
\* (quota-rebalance.py:1625): the retry of a scaling finds an account that is
\* paused. The mark outlives the pause when a probe of its own pod revives the
\* account (one revived by the copy is reopened without it, line 1617), and the
\* retry scales an account in service to zero.
RetryFindsItPaused == \A r \in Runs : At(r, {"retry"}) => run[r].row.paused
=============================================================================
