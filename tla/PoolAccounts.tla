--------------------------- MODULE PoolAccounts ---------------------------
(***************************************************************************)
(* The accounts of the ChatGPT pool gateway (chatgpt-pool-gateway/gateway/ *)
(* app): the registry in memory with its mirror in SQLite, the probes that *)
(* ask the upstream for an account's quota, the operator's requests        *)
(* (admin.py), and a restart, which loads the mirror.                      *)
(*                                                                         *)
(* The gateway is one event loop: what runs between two awaits is one      *)
(* action.  A probe has one await, the upstream's answer; until then it    *)
(* holds the account's status object, which may have been removed from the *)
(* registry, and the token it was sent with.  The upstream makes up the    *)
(* answer some time before the gateway applies it, so the answers of two   *)
(* probes of one account may be applied in the other order.                *)
(*                                                                         *)
(* refresh.py rotates tokens but nothing in the program calls it: a token  *)
(* changes when somebody writes a new file.                                *)
(***************************************************************************)
EXTENDS Naturals

CONSTANTS
    Accounts,     \* account names
    Threshold,    \* CONSECUTIVE_401_THRESHOLD
    Ops,          \* what happens from outside: subset of AllOps
    MaxOps        \* bound: the number of times ("db" is not counted)

AllOps == {"add", "remove", "disable", "enable", "probe",  \* requests
           "usage", "revoke", "reauth",                    \* upstream, token files
           "db", "net", "restart"}                         \* faults

ASSUME PoolAssumptions ==
    /\ Threshold \in Nat \ {0}
    /\ Ops \subseteq AllOps
    /\ MaxOps \in Nat

VARIABLES
    mem,      \* the registry: the status object of each account
    row,      \* its row in SQLite
    unsaved,  \* history: accounts whose row a write has missed or spoiled
    file,     \* the token in the account's auth.json
    bundle,   \* the token in the bundle cache
    usage,    \* what the upstream says of the account
    probe,    \* the probes under way: the loop's, and one an operator asked for
    round,    \* the accounts the probe loop has still to visit in this round
    ops       \* counter for the bound

vars == <<mem, row, unsaved, file, bundle, usage, probe, round, ops>>

-----------------------------------------------------------------------------
(* Types.                                                                  *)

AccountState == {"healthy", "cooling", "offline", "token_invalidated", "disabled"}

\* full: a window is used up; fails: the 401s in a row, not counted beyond
\* Threshold, which is all they are compared with.
AccountStatus == [state: AccountState, full: BOOLEAN, fails: 0..Threshold]

Absent == [state |-> "absent"]

Token == {"valid", "spent"}

\* "primary" and "secondary" name the window used up, "barred" is allowed = false.
Usage == {"ok", "primary", "secondary", "barred"}

Prober == {"loop", "admin"}

Idle == [pc |-> "idle"]

\* gone: the removal that took the status object out of the registry, or 0;
\* obj: that object, which two probes under way may share.
Probing == [pc: {"asking", "answered"}, name: Accounts, token: Token,
            answer: Usage \cup {"none", "401"},
            gone: Nat, obj: AccountStatus \cup {Absent}]

\* A probe's status object is either the registry's or its own.
ObjectHeld(p) ==
    probe[p] # Idle =>
        IF probe[p].gone = 0 THEN mem[probe[p].name] # Absent
                             ELSE probe[p].obj # Absent

TypeOK ==
    /\ mem \in [Accounts -> AccountStatus \cup {Absent}]
    /\ row \in [Accounts -> AccountStatus \cup {Absent}]
    /\ unsaved \in SUBSET Accounts
    /\ file \in [Accounts -> Token]
    /\ bundle \in [Accounts -> Token \cup {"none"}]
    /\ usage \in [Accounts -> Usage]
    /\ probe \in [Prober -> Probing \cup {Idle}]
    /\ round \in SUBSET Accounts
    /\ ops \in Nat
    /\ \A p \in Prober : ObjectHeld(p)

-----------------------------------------------------------------------------
NewAccount == [state |-> "healthy", full |-> FALSE, fails |-> 0]

\* The gateway starts with some accounts in its database and in order.
Init ==
    /\ mem \in [Accounts -> {NewAccount, Absent}]
    /\ row = mem
    /\ unsaved = {}
    /\ file = [n \in Accounts |-> "valid"]
    /\ bundle = [n \in Accounts |-> "none"]
    /\ usage = [n \in Accounts |-> "ok"]
    /\ probe = [p \in Prober |-> Idle]
    /\ round = {}
    /\ ops = 0

Op(kind) == kind \in Ops /\ ops < MaxOps /\ ops' = ops + 1

Registered(n) == mem[n] # Absent

-----------------------------------------------------------------------------
(* The state machine and the mirror.                                       *)

MayTurnInto(s, t) ==
    \/ s = "healthy" /\ t # "healthy"
    \/ s \in {"cooling", "offline"} /\ t # s
    \/ s = "token_invalidated" /\ t \in {"cooling", "disabled"}
    \/ s = "disabled" /\ t = "cooling"

Transition(a, t) == IF MayTurnInto(a.state, t) THEN [a EXCEPT !.state = t] ELSE a

\* persist writes the row of that name, if there is one, and swallows an error;
\* own says whether the registry's object is what is written.
Persist(n, a, own) ==
    \/ /\ row[n] # Absent
       /\ row' = [row EXCEPT ![n] = a]
       /\ unsaved' = IF own THEN unsaved \ {n} ELSE unsaved \cup {n}
    \/ row[n] = Absent /\ UNCHANGED <<row, unsaved>>
    \/ /\ "db" \in Ops
       /\ row' = row
       /\ unsaved' = IF own THEN unsaved \cup {n} ELSE unsaved

-----------------------------------------------------------------------------
(* The operator's requests.                                                *)

\* The account is in memory before its row is written, and stays there when
\* the insert fails: the database is in trouble, or has a row of that name.
AddAccount(n) ==
    /\ Op("add")
    /\ ~ Registered(n)
    /\ mem' = [mem EXCEPT ![n] = NewAccount]
    /\ \/ /\ row[n] = Absent
          /\ row' = [row EXCEPT ![n] = NewAccount]
          /\ unsaved' = unsaved \ {n}
       \/ /\ row[n] # Absent \/ "db" \in Ops
          /\ row' = row
          /\ unsaved' = unsaved \cup {n}
    /\ UNCHANGED <<file, bundle, usage, probe, round>>

\* Mutant: a probe under way looks the account up again.
RemoveAccountForgotten(n) ==
    /\ Op("remove")
    /\ mem' = [mem EXCEPT ![n] = Absent]
    /\ row' = [row EXCEPT ![n] = Absent]
    /\ unsaved' = unsaved \ {n}
    /\ UNCHANGED <<file, bundle, usage, probe, round>>

\* The cached bundle stays, and a probe under way keeps the object.
RemoveAccount(n) ==
    /\ Op("remove")
    /\ mem' = [mem EXCEPT ![n] = Absent]
    /\ probe' = [p \in Prober |->
                    IF probe[p] # Idle /\ probe[p].name = n /\ probe[p].gone = 0
                    THEN [probe[p] EXCEPT !.gone = ops + 1, !.obj = mem[n]]
                    ELSE probe[p]]
    /\ \/ /\ row' = [row EXCEPT ![n] = Absent]
          /\ unsaved' = unsaved \ {n}
       \/ /\ "db" \in Ops
          /\ row' = row
          /\ unsaved' = unsaved \cup {n}
    /\ UNCHANGED <<file, bundle, usage, round>>

\* Mutant: the new state is not written.
SetStateUnsaved(n, t) ==
    /\ Registered(n)
    /\ MayTurnInto(mem[n].state, t)
    /\ mem' = [mem EXCEPT ![n] = Transition(@, t)]
    /\ UNCHANGED <<row, unsaved, file, bundle, usage, probe, round>>

\* A transition the state machine refuses is answered 409 and changes nothing.
SetState(n, t) ==
    /\ Registered(n)
    /\ MayTurnInto(mem[n].state, t)
    /\ mem' = [mem EXCEPT ![n] = Transition(@, t)]
    /\ Persist(n, mem'[n], TRUE)
    /\ UNCHANGED <<file, bundle, usage, probe, round>>

Disable(n) == Op("disable") /\ SetState(n, "disabled")

Enable(n) == Op("enable") /\ SetState(n, "cooling")

-----------------------------------------------------------------------------
(* The probes.                                                             *)

\* probe_once up to its await: the object and the token are read.
Send(p, n) ==
    /\ probe[p] = Idle
    /\ Registered(n)
    /\ bundle' = [bundle EXCEPT ![n] = IF @ = "none" THEN file[n] ELSE @]
    /\ probe' = [probe EXCEPT ![p] =
           [pc |-> "asking", name |-> n, token |-> bundle'[n], answer |-> "none",
            gone |-> 0, obj |-> Absent]]

\* Mutant: only healthy accounts are visited.
NextRoundOfHealthy ==
    /\ probe["loop"] = Idle
    /\ round = {}
    /\ round' = {n \in Accounts : mem[n].state = "healthy"}
    /\ UNCHANGED <<mem, row, unsaved, file, bundle, usage, probe, ops>>

\* The loop takes the accounts there are when a round begins ...
NextRound ==
    /\ probe["loop"] = Idle
    /\ round = {}
    /\ round' = {n \in Accounts : Registered(n)}
    /\ UNCHANGED <<mem, row, unsaved, file, bundle, usage, probe, ops>>

\* ... and visits them one after the other, in an order that is left open here.
Visit(n) ==
    /\ probe["loop"] = Idle
    /\ n \in round
    /\ round' = round \ {n}
    /\ IF Registered(n) THEN Send("loop", n) ELSE UNCHANGED <<bundle, probe>>
    /\ UNCHANGED <<mem, row, unsaved, file, usage, ops>>

AskProbe(n) ==
    /\ Op("probe")
    /\ Send("admin", n)
    /\ UNCHANGED <<mem, row, unsaved, file, usage, round>>

\* The upstream makes up its answer.
Answer(p) ==
    /\ probe[p].pc = "asking"
    /\ probe' = [probe EXCEPT
           ![p].pc = "answered",
           ![p].answer = IF probe[p].token = "spent" THEN "401" ELSE usage[probe[p].name]]
    /\ UNCHANGED <<mem, row, unsaved, file, bundle, usage, round, ops>>

\* The status object probe p works on.
Object(p) == IF probe[p].gone = 0 THEN mem[probe[p].name] ELSE probe[p].obj

\* Object(p) becomes a, for whoever else has it too; p is done.
Finish(p, a) ==
    /\ mem' = IF probe[p].gone = 0 THEN [mem EXCEPT ![probe[p].name] = a] ELSE mem
    /\ probe' = [q \in Prober |->
                    CASE q = p -> Idle
                      [] q # p /\ probe[p].gone > 0 /\ probe[q] # Idle
                         /\ probe[q].gone = probe[p].gone -> [probe[q] EXCEPT !.obj = a]
                      [] OTHER -> probe[q]]
    /\ UNCHANGED <<file, bundle, usage, round>>

SaveProbed(p, a) == Persist(probe[p].name, a, probe[p].gone = 0)

\* 401: the row is written when there have been Threshold of them in a row.
After401(a) == [a EXCEPT !.fails = IF @ < Threshold THEN @ + 1 ELSE @]

ApplyRefused(p) ==
    LET a == After401(Object(p)) IN
    /\ probe[p].answer = "401"
    /\ IF a.fails < Threshold
       THEN Finish(p, a) /\ UNCHANGED <<row, unsaved>>
       ELSE LET b == Transition(a, "token_invalidated")
            IN  Finish(p, b) /\ SaveProbed(p, b)

\* Mutant: the second window is not looked at.
TargetOfPrimary(s, u) ==
    CASE u = "barred" -> "offline"
      [] u = "primary" -> "cooling"
      [] u \in {"ok", "secondary"} /\ s \in {"cooling", "offline"} -> "healthy"
      [] OTHER -> s

\* 200: the state the usage leads to; only a cooling or offline account recovers.
Target(s, u) ==
    CASE u \in {"barred", "secondary"} -> "offline"
      [] u = "primary" -> "cooling"
      [] u = "ok" /\ s \in {"cooling", "offline"} -> "healthy"
      [] OTHER -> s

After200(a, u, full) ==
    Transition([a EXCEPT !.fails = 0, !.full = full], Target(a.state, u))

ApplyUsage(p) ==
    /\ probe[p].answer \in Usage
    /\ \E full \in CASE probe[p].answer = "ok" -> {FALSE}
                     [] probe[p].answer = "barred" -> BOOLEAN
                     [] OTHER -> {TRUE} :
          LET a == After200(Object(p), probe[p].answer, full)
          IN  Finish(p, a) /\ SaveProbed(p, a)

Apply(p) ==
    /\ probe[p].pc = "answered"
    /\ ApplyRefused(p) \/ ApplyUsage(p)
    /\ UNCHANGED ops

\* No answer in time, or one that is neither 401 nor 200; a 200 that cannot be
\* decoded still forgets the 401s.
Fail(p) ==
    /\ Op("net")
    /\ probe[p] # Idle
    /\ \/ Finish(p, Object(p))
       \/ probe[p].answer \in Usage /\ Finish(p, [Object(p) EXCEPT !.fails = 0])
    /\ UNCHANGED <<row, unsaved>>

-----------------------------------------------------------------------------
(* The upstream, the token files, and a restart.                           *)

UsageChanges(n) ==
    /\ Op("usage")
    /\ \E u \in Usage \ {usage[n]} : usage' = [usage EXCEPT ![n] = u]
    /\ UNCHANGED <<mem, row, unsaved, file, bundle, probe, round>>

\* The token is revoked: every copy of it is spent, a probe's too.
Revoke(n) ==
    /\ Op("revoke")
    /\ file' = [file EXCEPT ![n] = "spent"]
    /\ bundle' = [bundle EXCEPT ![n] = IF @ = "none" THEN @ ELSE "spent"]
    /\ probe' = [p \in Prober |->
                    IF probe[p] # Idle /\ probe[p].name = n
                    THEN [probe[p] EXCEPT !.token = "spent"]
                    ELSE probe[p]]
    /\ UNCHANGED <<mem, row, unsaved, usage, round>>

\* Somebody writes a new auth.json; the cache is not told.
Reauth(n) ==
    /\ Op("reauth")
    /\ file[n] = "spent"
    /\ file' = [file EXCEPT ![n] = "valid"]
    /\ UNCHANGED <<mem, row, unsaved, bundle, usage, probe, round>>

\* The process ends; the next one loads the rows.
Restart ==
    /\ Op("restart")
    /\ mem' = row
    /\ unsaved' = {}
    /\ bundle' = [n \in Accounts |-> "none"]
    /\ probe' = [p \in Prober |-> Idle]
    /\ round' = {}
    /\ UNCHANGED <<row, file, usage>>

-----------------------------------------------------------------------------
Request(n) == AddAccount(n) \/ RemoveAccount(n) \/ Disable(n) \/ Enable(n) \/ AskProbe(n)

Environment(n) == UsageChanges(n) \/ Revoke(n) \/ Reauth(n)

ProbeStep(p) == Answer(p) \/ Apply(p) \/ Fail(p)

ProbeLoop == NextRound \/ (\E n \in Accounts : Visit(n)) \/ Answer("loop") \/ Apply("loop")

Next ==
    \/ \E n \in Accounts : Request(n) \/ Environment(n) \/ Visit(n)
    \/ \E p \in Prober : ProbeStep(p)
    \/ NextRound
    \/ Restart

Spec == Init /\ [][Next]_vars

\* The probe loop goes on: its task is not stopped and every wait ends (the
\* request has a timeout, the sleep is finite).  Nobody need ever make a
\* request, and no fairness is asked of a probe that was requested.
FairSpec == Spec /\ WF_vars(ProbeLoop)

-----------------------------------------------------------------------------
(* Properties.                                                             *)

Working(a) == a.state = "healthy" => ~ a.full

\* A healthy account has quota left in both windows, in memory, in its row and
\* in an object a late probe still holds.  main.py sends the turns of a known
\* conversation to its account on state == healthy alone, without the look at
\* the quotas that is_routable takes.
HealthyHasQuota ==
    /\ \A n \in Accounts : Registered(n) => Working(mem[n])
    /\ \A n \in Accounts : row[n] # Absent => Working(row[n])
    /\ \A p \in Prober : probe[p] # Idle /\ probe[p].gone > 0 => Working(probe[p].obj)

\* The mirror: an account's row has the state and the quota it has in memory,
\* and is there exactly when the account is, unless a write has failed or a
\* late probe of a removed account has written to it since.
MirrorAgrees ==
    \A n \in Accounts \ unsaved :
       /\ Registered(n) <=> row[n] # Absent
       /\ Registered(n) => row[n].state = mem[n].state /\ row[n].full = mem[n].full

\* What the loop's next probe of account n will find.
NextToken(n) == IF bundle[n] = "none" THEN file[n] ELSE bundle[n]

Usable(n) == Registered(n) /\ NextToken(n) = "valid" /\ usage[n] = "ok"

Unusable(n) == Registered(n) /\ (NextToken(n) = "spent" \/ usage[n] # "ok")

\* The probe loop brings the routing in line with the upstream: an account that
\* stays usable does not stay cooling or offline, and one that stays unusable
\* does not stay healthy, whatever a late answer or a restart did before.
RoutingConverges ==
    \A n \in Accounts :
       /\ <>[]Usable(n) => <>[](mem[n].state \notin {"cooling", "offline"})
       /\ <>[]Unusable(n) => <>[](mem[n].state # "healthy")

=============================================================================
