------------------------ MODULE PoolAccountsProof ------------------------
(***************************************************************************)
(* Proofs about PoolAccounts, for any accounts, threshold, operations and  *)
(* number of operations.                                                   *)
(*                                                                         *)
(* Both invariants are inductive once types are known: a type says of a    *)
(* probe that it works on the registry's object, which is there, or on its *)
(* own.  The lemmas treat what several actions share: the object a probe   *)
(* works on, Persist, and Finish.                                          *)
(***************************************************************************)
EXTENDS PoolAccounts, TLAPS

-----------------------------------------------------------------------------
(* Status objects.                                                         *)

LEMMA NewAccountProperties ==
    NewAccount \in AccountStatus /\ NewAccount # Absent /\ Working(NewAccount)
<1>1. NewAccount.state = "healthy" /\ Absent.state = "absent"
    BY DEF NewAccount, Absent
<1>2. NewAccount \in AccountStatus
    BY PoolAssumptions DEF NewAccount, AccountStatus, AccountState
<1>3. QED
    BY <1>1, <1>2 DEF NewAccount, Working

LEMMA AbsentIsNoStatus == Absent \notin AccountStatus
    BY DEF Absent, AccountStatus, AccountState

LEMMA TransitionProperties ==
    ASSUME NEW a \in AccountStatus, NEW t \in AccountState
    PROVE  /\ Transition(a, t) \in AccountStatus
           /\ Transition(a, t).full = a.full
           /\ Transition(a, t).state = IF MayTurnInto(a.state, t) THEN t ELSE a.state
    BY DEF Transition, AccountStatus, AccountState

\* The 401s are counted without a look at anything else.
LEMMA After401Properties ==
    ASSUME NEW a \in AccountStatus
    PROVE  /\ After401(a) \in AccountStatus
           /\ After401(a).state = a.state
           /\ After401(a).full = a.full
    BY PoolAssumptions DEF After401, AccountStatus

\* One field of a record replaced (stated for any type of field).
LEMMA SetField ==
    ASSUME NEW A, NEW F, NEW N, NEW r \in [state: A, full: F, fails: N], NEW x \in F
    PROVE  /\ [r EXCEPT !.full = x] \in [state: A, full: F, fails: N]
           /\ [r EXCEPT !.full = x].full = x
           /\ [r EXCEPT !.full = x].state = r.state
    OBVIOUS

\* An account that is healthy after a probe has quota left.
LEMMA After200Properties ==
    ASSUME NEW a \in AccountStatus, NEW u \in Usage, NEW full \in BOOLEAN,
           u = "ok" => ~ full
    PROVE  /\ After200(a, u, full) \in AccountStatus
           /\ Working(After200(a, u, full))
<1> DEFINE b == [a EXCEPT !.fails = 0, !.full = full]
<1>1. b \in AccountStatus /\ b.full = full /\ b.state = a.state
    <2> DEFINE c == [a EXCEPT !.fails = 0]
    <2>1. c \in AccountStatus /\ c.state = a.state
        BY PoolAssumptions DEF AccountStatus
    <2>2. b = [c EXCEPT !.full = full]
        BY DEF AccountStatus
    <2> HIDE DEF b, c
    <2>3. QED
        BY <2>1, <2>2, SetField DEF AccountStatus
<1>2. Target(a.state, u) \in AccountState
    BY DEF Target, AccountStatus, AccountState, Usage
<1>3. After200(a, u, full) = Transition(b, Target(a.state, u))
    BY DEF After200
<1> HIDE DEF b
<1>4. /\ After200(a, u, full) \in AccountStatus
      /\ After200(a, u, full).full = full
      /\ After200(a, u, full).state =
            IF MayTurnInto(a.state, Target(a.state, u)) THEN Target(a.state, u) ELSE a.state
    BY <1>1, <1>2, <1>3, TransitionProperties
<1>5. u # "ok" => After200(a, u, full).state # "healthy"
    BY <1>4 DEF Target, MayTurnInto, Usage
<1>6. QED
    BY <1>4, <1>5 DEF Working

-----------------------------------------------------------------------------
(* The object a probe works on, Finish and Persist.                        *)

LEMMA ObjectProperties ==
    ASSUME TypeOK, NEW p \in Prober, probe[p] # Idle
    PROVE  /\ probe[p] \in Probing
           /\ probe[p].name \in Accounts
           /\ Object(p) \in AccountStatus
           /\ probe[p].gone = 0 => Registered(probe[p].name)
<1>1. probe[p] \in Probing /\ ObjectHeld(p)
    BY DEF TypeOK
<1>2. probe[p].name \in Accounts /\ probe[p].obj \in AccountStatus \cup {Absent}
    BY <1>1 DEF Probing
<1>3. QED
    BY <1>1, <1>2 DEF ObjectHeld, TypeOK, Object, Registered

LEMMA FinishTypes ==
    ASSUME TypeOK, NEW p \in Prober, probe[p] # Idle,
           NEW a \in AccountStatus, Finish(p, a)
    PROVE  /\ mem' \in [Accounts -> AccountStatus \cup {Absent}]
           /\ probe' \in [Prober -> Probing \cup {Idle}]
           /\ \A q \in Prober : ObjectHeld(q)'
<1>1. mem' \in [Accounts -> AccountStatus \cup {Absent}]
    BY DEF Finish, TypeOK
<1>2. \A n \in Accounts : mem[n] # Absent => mem'[n] # Absent
    BY AbsentIsNoStatus DEF Finish, TypeOK
<1>3. ASSUME NEW q \in Prober
      PROVE  probe'[q] \in Probing \cup {Idle} /\ ObjectHeld(q)'
    <2> DEFINE shares == q # p /\ probe[p].gone > 0 /\ probe[q] # Idle
                            /\ probe[q].gone = probe[p].gone
    <2>1. CASE q = p
        BY <2>1 DEF Finish, ObjectHeld
    <2>2. CASE shares
        <3>1. probe'[q] = [probe[q] EXCEPT !.obj = a]
            BY <2>2 DEF Finish
        <3>2. probe[q] \in Probing /\ probe[p] \in Probing
            BY <2>2 DEF TypeOK
        <3>3. probe'[q] \in Probing /\ probe'[q].gone > 0 /\ probe'[q].obj = a
            BY <2>2, <3>1, <3>2 DEF Probing
        <3>4. a # Absent /\ probe'[q].gone # 0
            BY <3>3, AbsentIsNoStatus
        <3>5. QED
            BY <3>3, <3>4 DEF ObjectHeld
    <2>3. CASE q # p /\ ~ shares
        <3>1. probe'[q] = probe[q]
            BY <2>3 DEF Finish
        <3>2. probe[q] \in Probing \cup {Idle} /\ ObjectHeld(q)
            BY DEF TypeOK
        <3>3. probe[q] # Idle => probe[q].name \in Accounts
            BY <3>2 DEF Probing
        <3>4. QED
            BY <1>2, <3>1, <3>2, <3>3 DEF ObjectHeld
    <2>4. QED
        BY <2>1, <2>2, <2>3
<1>4. probe' \in [Prober -> Probing \cup {Idle}]
    <2>1. \E f : probe' = [q \in Prober |-> f[q]]
        <3> DEFINE f == [q \in Prober |->
                    CASE q = p -> Idle
                      [] q # p /\ probe[p].gone > 0 /\ probe[q] # Idle
                         /\ probe[q].gone = probe[p].gone -> [probe[q] EXCEPT !.obj = a]
                      [] OTHER -> probe[q]]
        <3>1. probe' = f
            BY DEF Finish
        <3>2. f = [q \in Prober |-> f[q]]
            OBVIOUS
        <3>3. QED
            BY <3>1, <3>2
    <2>2. QED
        BY <1>3, <2>1
<1>5. QED
    BY <1>1, <1>3, <1>4

LEMMA PersistTypes ==
    ASSUME TypeOK, NEW n \in Accounts, NEW a \in AccountStatus, NEW own \in BOOLEAN,
           Persist(n, a, own)
    PROVE  /\ row' \in [Accounts -> AccountStatus \cup {Absent}]
           /\ unsaved' \in SUBSET Accounts
    BY DEF Persist, TypeOK

-----------------------------------------------------------------------------
(* Types.                                                                  *)

\* Probes that do not move keep their objects as long as these stay registered.
LEMMA ProbesKept ==
    ASSUME TypeOK, probe' = probe,
           \A n \in Accounts : mem[n] # Absent => mem'[n] # Absent
    PROVE  \A p \in Prober : ObjectHeld(p)'
<1>1. ASSUME NEW p \in Prober, probe[p] # Idle PROVE ObjectHeld(p)'
    BY <1>1, ObjectProperties DEF ObjectHeld, TypeOK
<1>2. ASSUME NEW p \in Prober, probe[p] = Idle PROVE ObjectHeld(p)'
    BY <1>2 DEF ObjectHeld
<1>3. QED
    BY <1>1, <1>2

\* A probe whose object leaves the registry.
LEMMA TakeObject ==
    ASSUME NEW r \in Probing, NEW o \in AccountStatus, NEW k \in Nat
    PROVE  /\ [r EXCEPT !.gone = k + 1, !.obj = o] \in Probing
           /\ [r EXCEPT !.gone = k + 1, !.obj = o].gone # 0
           /\ [r EXCEPT !.gone = k + 1, !.obj = o].obj = o
<1> DEFINE g == k + 1
           r1 == [r EXCEPT !.gone = g]
<1>1. g \in Nat /\ g # 0
    OBVIOUS
<1>2. [r EXCEPT !.gone = k + 1, !.obj = o] = [r1 EXCEPT !.obj = o]
    BY DEF Probing
<1> HIDE DEF g
<1>3. r1 \in Probing /\ r1.gone = g
    BY <1>1 DEF Probing
<1> HIDE DEF r1
<1>4. QED
    BY <1>1, <1>2, <1>3 DEF Probing

LEMMA SetStateTypes ==
    ASSUME TypeOK, NEW n \in Accounts, NEW t \in AccountState, SetState(n, t)
    PROVE  /\ mem[n] \in AccountStatus
           /\ mem' = [mem EXCEPT ![n] = Transition(mem[n], t)]
           /\ mem'[n] \in AccountStatus
           /\ Persist(n, mem'[n], TRUE)
<1>1. mem[n] \in AccountStatus /\ Persist(n, mem'[n], TRUE)
    BY DEF SetState, TypeOK, Registered
<1>2. mem' = [mem EXCEPT ![n] = Transition(mem[n], t)]
    BY DEF SetState
<1>3. mem'[n] = Transition(mem[n], t)
    BY <1>2 DEF TypeOK
<1>4. QED
    BY <1>1, <1>2, <1>3, TransitionProperties

\* What ApplyRefused, ApplyUsage and Fail have in common.
LEMMA ApplyIsFinish ==
    ASSUME TypeOK, NEW p \in Prober, Apply(p) \/ Fail(p)
    PROVE  /\ probe[p] # Idle
           /\ \E a \in AccountStatus :
                 /\ Finish(p, a)
                 /\ Working(Object(p)) => Working(a)
                 /\ \/ SaveProbed(p, a)
                    \/ /\ UNCHANGED <<row, unsaved>>
                       /\ a.state = Object(p).state
                       /\ a.full = Object(p).full
<1>1. probe[p] # Idle
    BY DEF Apply, Fail, Idle
<1>2. Object(p) \in AccountStatus
    BY <1>1, ObjectProperties
<1>3. CASE Apply(p) /\ ApplyRefused(p)
    <2> DEFINE a == After401(Object(p))
               b == Transition(a, "token_invalidated")
    <2>1. a \in AccountStatus /\ a.state = Object(p).state /\ a.full = Object(p).full
        BY <1>2, After401Properties
    <2>2. /\ b \in AccountStatus /\ b.full = a.full
          /\ b.state = "token_invalidated" \/ b.state = a.state
        BY <2>1, TransitionProperties DEF AccountState
    <2>3. \/ Finish(p, a) /\ UNCHANGED <<row, unsaved>>
          \/ Finish(p, b) /\ SaveProbed(p, b)
        BY <1>3 DEF ApplyRefused
    <2> HIDE DEF a, b
    <2>4. Working(Object(p)) => Working(a) /\ Working(b)
        BY <2>1, <2>2 DEF Working
    <2>5. QED
        BY <1>1, <2>1, <2>2, <2>3, <2>4
<1>4. CASE Apply(p) /\ ApplyUsage(p)
    <2>1. probe[p].answer \in Usage
        BY <1>4 DEF ApplyUsage
    <2>2. PICK full \in BOOLEAN :
              /\ probe[p].answer = "ok" => ~ full
              /\ Finish(p, After200(Object(p), probe[p].answer, full))
              /\ SaveProbed(p, After200(Object(p), probe[p].answer, full))
        BY <1>4 DEF ApplyUsage
    <2>3. /\ After200(Object(p), probe[p].answer, full) \in AccountStatus
          /\ Working(After200(Object(p), probe[p].answer, full))
        BY <1>2, <2>1, <2>2, After200Properties
    <2>4. QED
        BY <1>1, <2>2, <2>3
<1>5. CASE Fail(p)
    <2> DEFINE a == [Object(p) EXCEPT !.fails = 0]
    <2>1. a \in AccountStatus /\ a.state = Object(p).state /\ a.full = Object(p).full
        BY <1>2, PoolAssumptions DEF AccountStatus
    <2>2. (Finish(p, Object(p)) \/ Finish(p, a)) /\ UNCHANGED <<row, unsaved>>
        BY <1>5 DEF Fail
    <2> HIDE DEF a
    <2>3. Working(Object(p)) => Working(a)
        BY <2>1 DEF Working
    <2>4. QED
        BY <1>1, <1>2, <2>1, <2>2, <2>3
<1>6. QED
    BY <1>3, <1>4, <1>5 DEF Apply

\* Types are kept by what an operator, the environment or a restart does ...
LEMMA RestartTypes == TypeOK /\ Restart => TypeOK'
    BY DEF Restart, TypeOK, Op, ObjectHeld

LEMMA OutsideTypes ==
    ASSUME TypeOK, NEW n \in Accounts,
           \/ AddAccount(n) \/ RemoveAccount(n) \/ Disable(n) \/ Enable(n)
           \/ UsageChanges(n) \/ Revoke(n) \/ Reauth(n)
    PROVE  TypeOK'
<1>1. CASE AddAccount(n)
    <2>1. /\ mem' \in [Accounts -> AccountStatus \cup {Absent}]
          /\ row' \in [Accounts -> AccountStatus \cup {Absent}]
          /\ unsaved' \in SUBSET Accounts
          /\ UNCHANGED <<file, bundle, usage, probe, round>>
          /\ ops' \in Nat
        BY <1>1, NewAccountProperties DEF AddAccount, TypeOK, Op
    <2>2. \A m \in Accounts : mem[m] # Absent => mem'[m] # Absent
        BY <1>1, NewAccountProperties DEF AddAccount, TypeOK
    <2>3. \A p \in Prober : ObjectHeld(p)'
        BY <2>1, <2>2, ProbesKept
    <2>4. QED
        BY <2>1, <2>3 DEF TypeOK
<1>2. CASE RemoveAccount(n)
    <2>1. /\ mem' \in [Accounts -> AccountStatus \cup {Absent}]
          /\ row' \in [Accounts -> AccountStatus \cup {Absent}]
          /\ unsaved' \in SUBSET Accounts
          /\ UNCHANGED <<file, bundle, usage, round>>
          /\ ops' \in Nat
        <3>1. mem' = [mem EXCEPT ![n] = Absent] /\ ops' = ops + 1
            BY <1>2 DEF RemoveAccount, Op
        <3>2. /\ row' = [row EXCEPT ![n] = Absent] \/ row' = row
              /\ unsaved' = unsaved \ {n} \/ unsaved' = unsaved \cup {n}
              /\ UNCHANGED <<file, bundle, usage, round>>
            BY <1>2 DEF RemoveAccount
        <3>3. QED
            BY <3>1, <3>2 DEF TypeOK
    <2> DEFINE drops(p) == probe[p] # Idle /\ probe[p].name = n /\ probe[p].gone = 0
    <2>2. ASSUME NEW p \in Prober
          PROVE  probe'[p] \in Probing \cup {Idle} /\ ObjectHeld(p)'
        <3>1. CASE drops(p)
            <4>1. probe'[p] = [probe[p] EXCEPT !.gone = ops + 1, !.obj = mem[n]]
                BY <1>2, <3>1 DEF RemoveAccount
            <4>2. probe[p] \in Probing /\ mem[n] \in AccountStatus /\ ops \in Nat
                BY <3>1, ObjectProperties DEF TypeOK, ObjectHeld
            <4>3. probe'[p] \in Probing /\ probe'[p].gone # 0 /\ probe'[p].obj = mem[n]
                <5> DEFINE m == mem[n]
                           r == probe[p]
                <5>1. r \in Probing /\ m \in AccountStatus /\ ops \in Nat
                    BY <4>2
                <5>2. probe'[p] = [r EXCEPT !.gone = ops + 1, !.obj = m]
                    BY <4>1
                <5> HIDE DEF m, r
                <5>3. /\ [r EXCEPT !.gone = ops + 1, !.obj = m] \in Probing
                      /\ [r EXCEPT !.gone = ops + 1, !.obj = m].gone # 0
                      /\ [r EXCEPT !.gone = ops + 1, !.obj = m].obj = m
                    BY <5>1, TakeObject
                <5>4. QED
                    BY <5>2, <5>3 DEF m
            <4>4. QED
                BY <4>2, <4>3, AbsentIsNoStatus DEF ObjectHeld
        <3>2. CASE ~ drops(p)
            <4>1. probe'[p] = probe[p]
                BY <1>2, <3>2 DEF RemoveAccount
            <4>2. probe[p] \in Probing \cup {Idle} /\ ObjectHeld(p)
                BY DEF TypeOK
            <4>3. probe[p] # Idle => probe[p].name \in Accounts
                BY <4>2 DEF Probing
            <4>4. probe[p] # Idle /\ probe[p].gone = 0 => mem'[probe[p].name] = mem[probe[p].name]
                BY <1>2, <3>2, <4>3 DEF RemoveAccount, TypeOK
            <4>5. QED
                BY <4>1, <4>2, <4>4 DEF ObjectHeld
        <3>3. QED
            BY <3>1, <3>2
    <2>3. probe' \in [Prober -> Probing \cup {Idle}]
        <3> DEFINE f == [p \in Prober |->
                            IF drops(p)
                            THEN [probe[p] EXCEPT !.gone = ops + 1, !.obj = mem[n]]
                            ELSE probe[p]]
        <3>1. probe' = f
            BY <1>2 DEF RemoveAccount
        <3>2. \A p \in Prober : f[p] \in Probing \cup {Idle}
            BY <2>2, <3>1
        <3>3. f \in [Prober -> Probing \cup {Idle}]
            BY <3>2
        <3>4. QED
            BY <3>1, <3>3
    <2>4. QED
        BY <2>1, <2>2, <2>3 DEF TypeOK
<1>3. ASSUME NEW t \in AccountState, SetState(n, t), ops' = ops + 1
      PROVE  TypeOK'
    <2>1. /\ mem' = [mem EXCEPT ![n] = Transition(mem[n], t)]
          /\ mem'[n] \in AccountStatus /\ Persist(n, mem'[n], TRUE)
        BY <1>3, SetStateTypes
    <2>2. mem' \in [Accounts -> AccountStatus \cup {Absent}]
        BY <2>1 DEF TypeOK
    <2>3. /\ row' \in [Accounts -> AccountStatus \cup {Absent}]
          /\ unsaved' \in SUBSET Accounts
        BY <2>1, PersistTypes
    <2>4. \A m \in Accounts : mem[m] # Absent => mem'[m] # Absent
        BY <2>1, AbsentIsNoStatus DEF TypeOK
    <2>5. UNCHANGED <<file, bundle, usage, probe, round>>
        BY <1>3 DEF SetState
    <2>6. \A p \in Prober : ObjectHeld(p)'
        BY <2>4, <2>5, ProbesKept
    <2>7. QED
        BY <1>3, <2>2, <2>3, <2>5, <2>6 DEF TypeOK
<1>4. CASE Disable(n) \/ Enable(n)
    BY <1>3, <1>4 DEF Disable, Enable, Op, AccountState
<1>5. CASE UsageChanges(n) \/ Reauth(n)
    <2>1. /\ UNCHANGED <<mem, row, unsaved, bundle, probe, round>>
          /\ usage' \in [Accounts -> Usage] /\ file' \in [Accounts -> Token] /\ ops' \in Nat
        BY <1>5 DEF UsageChanges, Reauth, TypeOK, Op, Token
    <2>2. \A p \in Prober : ObjectHeld(p)'
        BY <2>1, ProbesKept
    <2>3. QED
        BY <2>1, <2>2 DEF TypeOK
<1>6. CASE Revoke(n)
    <2>1. /\ UNCHANGED <<mem, row, unsaved, usage, round>>
          /\ file' \in [Accounts -> Token]
          /\ bundle' \in [Accounts -> Token \cup {"none"}] /\ ops' \in Nat
        BY <1>6 DEF Revoke, TypeOK, Op, Token
    <2>2. ASSUME NEW p \in Prober
          PROVE  probe'[p] \in Probing \cup {Idle} /\ ObjectHeld(p)'
        <3>1. probe[p] \in Probing \cup {Idle} /\ ObjectHeld(p)
            BY DEF TypeOK
        <3>2. CASE probe[p] # Idle /\ probe[p].name = n
            <4>1. probe'[p] = [probe[p] EXCEPT !.token = "spent"]
                BY <1>6, <3>2 DEF Revoke
            <4>2. /\ probe'[p] \in Probing
                  /\ probe'[p].name = probe[p].name
                  /\ probe'[p].gone = probe[p].gone
                  /\ probe'[p].obj = probe[p].obj
                BY <3>1, <3>2, <4>1 DEF Probing, Token
            <4>3. QED
                BY <2>1, <3>1, <3>2, <4>2 DEF ObjectHeld
        <3>3. CASE ~ (probe[p] # Idle /\ probe[p].name = n)
            <4>1. probe'[p] = probe[p]
                BY <1>6, <3>3 DEF Revoke
            <4>2. QED
                BY <2>1, <3>1, <4>1 DEF ObjectHeld
        <3>4. QED
            BY <3>2, <3>3
    <2>3. probe' \in [Prober -> Probing \cup {Idle}]
        <3> DEFINE f == [p \in Prober |->
                            IF probe[p] # Idle /\ probe[p].name = n
                            THEN [probe[p] EXCEPT !.token = "spent"]
                            ELSE probe[p]]
        <3>1. probe' = f
            BY <1>6 DEF Revoke
        <3>2. \A p \in Prober : f[p] \in Probing \cup {Idle}
            BY <2>2, <3>1
        <3>3. f \in [Prober -> Probing \cup {Idle}]
            BY <3>2
        <3>4. QED
            BY <3>1, <3>3
    <2>4. QED
        BY <2>1, <2>2, <2>3 DEF TypeOK
<1>7. QED
    BY <1>1, <1>2, <1>4, <1>5, <1>6

\* ... and by the probes.
LEMMA SendTypes ==
    ASSUME TypeOK, NEW p \in Prober, NEW n \in Accounts, Send(p, n), mem' = mem
    PROVE  /\ bundle' \in [Accounts -> Token \cup {"none"}]
           /\ probe' \in [Prober -> Probing \cup {Idle}]
           /\ \A q \in Prober : ObjectHeld(q)'
<1>1. bundle' \in [Accounts -> Token \cup {"none"}] /\ bundle'[n] \in Token
    BY DEF Send, TypeOK, Token
<1> DEFINE r == [pc |-> "asking", name |-> n, token |-> bundle'[n], answer |-> "none",
                 gone |-> 0, obj |-> Absent]
<1>2. r \in Probing /\ r.gone = 0 /\ r.name = n
    BY <1>1 DEF Probing
<1>3. probe' = [probe EXCEPT ![p] = r] /\ mem[n] # Absent
    BY DEF Send, Registered
<1> HIDE DEF r
<1>4. probe' \in [Prober -> Probing \cup {Idle}]
    BY <1>2, <1>3 DEF TypeOK
<1>5. ASSUME NEW q \in Prober PROVE ObjectHeld(q)'
    BY <1>2, <1>3 DEF ObjectHeld, TypeOK
<1>6. QED
    BY <1>1, <1>4, <1>5

LEMMA AnswerTypes ==
    ASSUME TypeOK, NEW p \in Prober, Answer(p)
    PROVE  TypeOK'
<1> DEFINE v == IF probe[p].token = "spent" THEN "401" ELSE usage[probe[p].name]
           r == [probe[p] EXCEPT !.pc = "answered", !.answer = v]
<1>1. probe[p] # Idle
    BY DEF Answer, Idle
<1>2. probe[p] \in Probing /\ probe[p].name \in Accounts
    BY <1>1, ObjectProperties
<1>3. v \in Usage \cup {"none", "401"}
    BY <1>2 DEF TypeOK
<1>4. /\ probe' = [probe EXCEPT ![p] = r]
      /\ UNCHANGED <<mem, row, unsaved, file, bundle, usage, round, ops>>
    BY <1>2 DEF Answer, TypeOK
<1> HIDE DEF v
<1>5. r \in Probing /\ r.name = probe[p].name /\ r.gone = probe[p].gone /\ r.obj = probe[p].obj
    BY <1>2, <1>3 DEF Probing
<1> HIDE DEF r
<1>6. probe' \in [Prober -> Probing \cup {Idle}]
    BY <1>4, <1>5 DEF TypeOK
<1>7. ASSUME NEW q \in Prober PROVE ObjectHeld(q)'
    BY <1>1, <1>4, <1>5 DEF ObjectHeld, TypeOK
<1>8. QED
    BY <1>4, <1>6, <1>7 DEF TypeOK

LEMMA ProbeTypes ==
    ASSUME TypeOK,
           \/ NextRound
           \/ \E n \in Accounts : Visit(n) \/ AskProbe(n)
           \/ \E p \in Prober : Answer(p) \/ Apply(p) \/ Fail(p)
    PROVE  TypeOK'
<1>1. CASE NextRound
    <2>1. UNCHANGED <<mem, row, unsaved, file, bundle, usage, probe, ops>> /\ round' \in SUBSET Accounts
        BY <1>1 DEF NextRound
    <2>2. \A p \in Prober : ObjectHeld(p)'
        BY <2>1, ProbesKept
    <2>3. QED
        BY <2>1, <2>2 DEF TypeOK
<1>2. ASSUME NEW n \in Accounts, Visit(n) \/ AskProbe(n)
      PROVE  TypeOK'
    <2>1. /\ UNCHANGED <<mem, row, unsaved, file, usage>>
          /\ round' \in SUBSET Accounts /\ ops' \in Nat
        BY <1>2 DEF Visit, AskProbe, TypeOK, Op
    <2>2. CASE Send("loop", n) \/ Send("admin", n)
        <3>1. PICK p \in Prober : Send(p, n)
            BY <2>2 DEF Prober
        <3>2. QED
            BY <2>1, <3>1, SendTypes DEF TypeOK
    <2>3. CASE UNCHANGED <<bundle, probe>>
        <3>1. \A p \in Prober : ObjectHeld(p)'
            BY <2>1, <2>3, ProbesKept
        <3>2. QED
            BY <2>1, <2>3, <3>1 DEF TypeOK
    <2>4. QED
        BY <1>2, <2>2, <2>3 DEF Visit, AskProbe
<1>3. ASSUME NEW p \in Prober, Apply(p) \/ Fail(p)
      PROVE  TypeOK'
    <2>1. PICK a \in AccountStatus :
              probe[p] # Idle /\ Finish(p, a) /\ (SaveProbed(p, a) \/ UNCHANGED <<row, unsaved>>)
        BY <1>3, ApplyIsFinish
    <2>2. /\ mem' \in [Accounts -> AccountStatus \cup {Absent}]
          /\ probe' \in [Prober -> Probing \cup {Idle}]
          /\ \A q \in Prober : ObjectHeld(q)'
          /\ probe[p].name \in Accounts
        BY <2>1, FinishTypes, ObjectProperties
    <2>3. /\ row' \in [Accounts -> AccountStatus \cup {Absent}]
          /\ unsaved' \in SUBSET Accounts
        <3>1. CASE SaveProbed(p, a)
            BY <2>2, <3>1, PersistTypes DEF SaveProbed
        <3>2. CASE UNCHANGED <<row, unsaved>>
            BY <3>2 DEF TypeOK
        <3>3. QED
            BY <2>1, <3>1, <3>2
    <2>4. UNCHANGED <<file, bundle, usage, round>> /\ ops' \in Nat
        BY <1>3, <2>1 DEF Finish, Apply, Fail, Op, TypeOK
    <2>5. QED
        BY <2>2, <2>3, <2>4 DEF TypeOK
<1>4. QED
    BY <1>1, <1>2, <1>3, AnswerTypes

LEMMA NextTypes == TypeOK /\ [Next]_vars => TypeOK'
<1>1. SUFFICES ASSUME TypeOK, Next \/ UNCHANGED vars PROVE TypeOK'
    OBVIOUS
<1>2. CASE UNCHANGED vars
    <2>1. UNCHANGED <<mem, row, unsaved, file, bundle, usage, probe, round, ops>>
        BY <1>2 DEF vars
    <2>2. \A p \in Prober : ObjectHeld(p)'
        BY <1>1, <2>1, ProbesKept
    <2>3. QED
        BY <1>1, <2>1, <2>2 DEF TypeOK
<1>3. CASE Next
    BY <1>1, <1>3, OutsideTypes, ProbeTypes, RestartTypes DEF Next, Request, Environment, ProbeStep
<1>4. QED
    BY <1>1, <1>2, <1>3

LEMMA InitTypes == Init => TypeOK
    BY NewAccountProperties DEF Init, TypeOK, ObjectHeld, Token, Usage

-----------------------------------------------------------------------------
(* A healthy account has quota left.                                       *)

LEMMA ObjectWorks ==
    ASSUME TypeOK, HealthyHasQuota, NEW p \in Prober, probe[p] # Idle
    PROVE  Working(Object(p))
<1>1. CASE probe[p].gone = 0
    BY <1>1, ObjectProperties DEF HealthyHasQuota, Object
<1>2. CASE probe[p].gone # 0
    <2>1. probe[p].gone > 0
        BY <1>2, ObjectProperties DEF Probing
    <2>2. QED
        BY <1>2, <2>1 DEF HealthyHasQuota, Object
<1>3. QED
    BY <1>1, <1>2

LEMMA TransitionWorks ==
    ASSUME NEW a \in AccountStatus, NEW t \in AccountState \ {"healthy"},
           MayTurnInto(a.state, t)
    PROVE  Working(Transition(a, t))
    BY TransitionProperties DEF Working

LEMMA PersistQuota ==
    ASSUME TypeOK, HealthyHasQuota, NEW n \in Accounts, NEW a \in AccountStatus,
           NEW own \in BOOLEAN, Persist(n, a, own), Working(a)
    PROVE  \A m \in Accounts : row'[m] # Absent => Working(row'[m])
<1>1. ASSUME NEW m \in Accounts PROVE row'[m] = row[m] \/ row'[m] = a
    BY DEF Persist, TypeOK
<1>2. QED
    BY <1>1 DEF HealthyHasQuota

LEMMA FinishQuota ==
    ASSUME TypeOK, HealthyHasQuota, NEW p \in Prober, probe[p] # Idle,
           NEW a \in AccountStatus, Finish(p, a), Working(a)
    PROVE  /\ \A n \in Accounts : Registered(n)' => Working(mem'[n])
           /\ \A q \in Prober : probe'[q] # Idle /\ probe'[q].gone > 0 => Working(probe'[q].obj)
<1>1. ASSUME NEW n \in Accounts PROVE mem'[n] = mem[n] \/ mem'[n] = a
    BY DEF Finish, TypeOK
<1>2. ASSUME NEW n \in Accounts, Registered(n)' PROVE Working(mem'[n])
    BY <1>1, <1>2 DEF HealthyHasQuota, Registered
<1>3. ASSUME NEW q \in Prober, probe'[q] # Idle
      PROVE  \/ probe'[q] = probe[q]
             \/ probe'[q].obj = a
    <2>1. CASE q # p /\ probe[p].gone > 0 /\ probe[q] # Idle /\ probe[q].gone = probe[p].gone
        <3>1. probe'[q] = [probe[q] EXCEPT !.obj = a]
            BY <2>1 DEF Finish
        <3>2. probe[q] \in Probing
            BY <2>1, ObjectProperties
        <3>3. QED
            BY <3>1, <3>2 DEF Probing
    <2>2. CASE ~ (q # p /\ probe[p].gone > 0 /\ probe[q] # Idle /\ probe[q].gone = probe[p].gone)
        BY <1>3, <2>2 DEF Finish
    <2>3. QED
        BY <2>1, <2>2
<1>4. QED
    BY <1>2, <1>3 DEF HealthyHasQuota

LEMMA SetStateQuota ==
    ASSUME TypeOK, HealthyHasQuota, NEW n \in Accounts,
           NEW t \in AccountState \ {"healthy"}, SetState(n, t)
    PROVE  HealthyHasQuota'
<1>1. /\ mem[n] \in AccountStatus /\ Persist(n, mem'[n], TRUE)
      /\ mem' = [mem EXCEPT ![n] = Transition(mem[n], t)]
      /\ mem'[n] \in AccountStatus
    BY SetStateTypes
<1>2. mem'[n] = Transition(mem[n], t) /\ Working(mem'[n])
    BY <1>1, TransitionWorks DEF SetState, TypeOK
<1>3. \A m \in Accounts : Registered(m)' => Working(mem'[m])
    BY <1>1, <1>2 DEF HealthyHasQuota, Registered, TypeOK
<1>4. \A m \in Accounts : row'[m] # Absent => Working(row'[m])
    BY <1>1, <1>2, PersistQuota
<1>5. probe' = probe
    BY DEF SetState
<1>6. QED
    BY <1>3, <1>4, <1>5 DEF HealthyHasQuota

LEMMA NextQuota == TypeOK /\ HealthyHasQuota /\ [Next]_vars => HealthyHasQuota'
<1>1. SUFFICES ASSUME TypeOK, HealthyHasQuota, Next \/ UNCHANGED vars
               PROVE  HealthyHasQuota'
    OBVIOUS
<1> USE <1>1
<1>2. ASSUME NEW n \in Accounts, AddAccount(n)
      PROVE  HealthyHasQuota'
    <2>1. /\ mem' = [mem EXCEPT ![n] = NewAccount]
          /\ row' = row \/ row' = [row EXCEPT ![n] = NewAccount]
          /\ probe' = probe
        BY <1>2 DEF AddAccount
    <2>2. \A m \in Accounts : mem'[m] = mem[m] \/ mem'[m] = NewAccount
        BY <2>1 DEF TypeOK
    <2>3. \A m \in Accounts : row'[m] = row[m] \/ row'[m] = NewAccount
        BY <2>1 DEF TypeOK
    <2>4. QED
        BY <2>1, <2>2, <2>3, NewAccountProperties DEF HealthyHasQuota, Registered
<1>3. ASSUME NEW n \in Accounts, RemoveAccount(n)
      PROVE  HealthyHasQuota'
    <2>1. \A m \in Accounts : mem'[m] = mem[m] \/ mem'[m] = Absent
        BY <1>3 DEF RemoveAccount, TypeOK
    <2>2. \A m \in Accounts : row'[m] = row[m] \/ row'[m] = Absent
        BY <1>3 DEF RemoveAccount, TypeOK
    <2>3. ASSUME NEW p \in Prober, probe'[p] # Idle, probe'[p].gone > 0
          PROVE  Working(probe'[p].obj)
        <3>1. CASE probe[p] # Idle /\ probe[p].name = n /\ probe[p].gone = 0
            <4>1. probe'[p] = [probe[p] EXCEPT !.gone = ops + 1, !.obj = mem[n]]
                BY <1>3, <3>1 DEF RemoveAccount
            <4>2. probe'[p].obj = mem[n] /\ Registered(n)
                BY <3>1, <4>1, ObjectProperties DEF Probing
            <4>3. QED
                BY <1>3, <4>2 DEF HealthyHasQuota
        <3>2. CASE ~ (probe[p] # Idle /\ probe[p].name = n /\ probe[p].gone = 0)
            <4>1. probe'[p] = probe[p]
                BY <1>3, <3>2 DEF RemoveAccount
            <4>2. QED
                BY <2>3, <4>1 DEF HealthyHasQuota
        <3>3. QED
            BY <3>1, <3>2
    <2>4. QED
        BY <2>1, <2>2, <2>3 DEF HealthyHasQuota, Registered
<1>4. ASSUME NEW n \in Accounts, Disable(n) \/ Enable(n)
      PROVE  HealthyHasQuota'
    BY <1>4, SetStateQuota DEF Disable, Enable, AccountState
<1>5. ASSUME NEW n \in Accounts, Revoke(n)
      PROVE  HealthyHasQuota'
    <2>1. UNCHANGED <<mem, row>>
        BY <1>5 DEF Revoke
    <2>2. ASSUME NEW p \in Prober, probe'[p] # Idle, probe'[p].gone > 0
          PROVE  Working(probe'[p].obj)
        <3>1. CASE probe[p] # Idle /\ probe[p].name = n
            <4>1. probe'[p] = [probe[p] EXCEPT !.token = "spent"]
                BY <1>5, <3>1 DEF Revoke
            <4>2. probe'[p].obj = probe[p].obj /\ probe'[p].gone = probe[p].gone
                BY <3>1, <4>1, ObjectProperties DEF Probing
            <4>3. QED
                BY <2>2, <3>1, <4>2 DEF HealthyHasQuota
        <3>2. CASE ~ (probe[p] # Idle /\ probe[p].name = n)
            <4>1. probe'[p] = probe[p]
                BY <1>5, <3>2 DEF Revoke
            <4>2. QED
                BY <2>2, <4>1 DEF HealthyHasQuota
        <3>3. QED
            BY <3>1, <3>2
    <2>3. QED
        BY <2>1, <2>2 DEF HealthyHasQuota, Registered
<1>6. ASSUME NEW p \in Prober, NEW n \in Accounts, Send(p, n), UNCHANGED <<mem, row>>
      PROVE  HealthyHasQuota'
    <2>1. ASSUME NEW q \in Prober PROVE probe'[q] = probe[q] \/ probe'[q].gone = 0
        BY <1>6 DEF Send, TypeOK
    <2>2. QED
        BY <1>6, <2>1 DEF HealthyHasQuota, Registered
<1>7. ASSUME NEW p \in Prober, Answer(p)
      PROVE  HealthyHasQuota'
    <2>1. probe[p] # Idle
        BY <1>7 DEF Answer, Idle
    <2>2. ASSUME NEW q \in Prober
          PROVE  \/ probe'[q] = probe[q]
                 \/ /\ probe[q] # Idle
                    /\ probe'[q].gone = probe[q].gone /\ probe'[q].obj = probe[q].obj
        BY <1>7, <2>1, ObjectProperties DEF Answer, TypeOK, Probing
    <2>3. UNCHANGED <<mem, row>>
        BY <1>7 DEF Answer
    <2>4. QED
        BY <2>2, <2>3 DEF HealthyHasQuota, Registered
<1>8. ASSUME NEW p \in Prober, Apply(p) \/ Fail(p)
      PROVE  HealthyHasQuota'
    <2>1. PICK a \in AccountStatus :
              /\ probe[p] # Idle /\ Finish(p, a)
              /\ Working(Object(p)) => Working(a)
              /\ SaveProbed(p, a) \/ UNCHANGED <<row, unsaved>>
        BY <1>8, ApplyIsFinish
    <2>2. Working(a) /\ probe[p].name \in Accounts
        BY <2>1, ObjectWorks, ObjectProperties
    <2>3. \A m \in Accounts : row'[m] # Absent => Working(row'[m])
        BY <2>1, <2>2, PersistQuota DEF SaveProbed, HealthyHasQuota
    <2>4. QED
        BY <2>1, <2>2, <2>3, FinishQuota DEF HealthyHasQuota
<1>9. CASE Restart
    BY <1>9 DEF Restart, HealthyHasQuota, Registered
<1>10. ASSUME UNCHANGED <<mem, row, probe>>
       PROVE  HealthyHasQuota'
    BY <1>10 DEF HealthyHasQuota, Registered
<1>11. ASSUME NEW n \in Accounts, Visit(n) \/ AskProbe(n)
       PROVE  HealthyHasQuota'
    BY <1>6, <1>10, <1>11 DEF Visit, AskProbe, Prober
<1>12. ASSUME NextRound \/ UNCHANGED vars \/ \E n \in Accounts : UsageChanges(n) \/ Reauth(n)
       PROVE  HealthyHasQuota'
    BY <1>10, <1>12 DEF NextRound, vars, UsageChanges, Reauth
<1>13. QED
    BY <1>2, <1>3, <1>4, <1>5, <1>7, <1>8, <1>9, <1>11, <1>12
    DEF Next, Request, Environment, ProbeStep

-----------------------------------------------------------------------------
(* The mirror.                                                             *)

\* A status object of the registry is changed and its row written, or that fails ...
LEMMA PersistOwn ==
    ASSUME TypeOK, MirrorAgrees, NEW n \in Accounts, NEW a \in AccountStatus,
           Registered(n), mem' = [mem EXCEPT ![n] = a], Persist(n, a, TRUE)
    PROVE  MirrorAgrees'
<1>1. ASSUME NEW m \in Accounts, m # n
      PROVE  mem'[m] = mem[m] /\ row'[m] = row[m] /\ (m \in unsaved' <=> m \in unsaved)
    BY <1>1 DEF Persist, TypeOK
<1>2. mem'[n] = a /\ a # Absent
    BY AbsentIsNoStatus DEF TypeOK
<1>3. n \in unsaved' \/ row'[n] = a
    BY DEF Persist, MirrorAgrees, TypeOK
<1>4. QED
    BY <1>1, <1>2, <1>3 DEF MirrorAgrees, Registered

\* ... or a row is written for an object that has left the registry ...
LEMMA PersistGone ==
    ASSUME TypeOK, MirrorAgrees, NEW n \in Accounts, NEW a \in AccountStatus,
           mem' = mem, Persist(n, a, FALSE)
    PROVE  MirrorAgrees'
<1>1. ASSUME NEW m \in Accounts, m \notin unsaved'
      PROVE  row'[m] = row[m] /\ m \notin unsaved
    BY <1>1 DEF Persist, TypeOK
<1>2. QED
    BY <1>1 DEF MirrorAgrees, Registered

\* ... or no row is written because neither state nor quota changes.
LEMMA NothingToPersist ==
    ASSUME TypeOK, MirrorAgrees, NEW n \in Accounts, NEW a \in AccountStatus,
           Registered(n), mem' = [mem EXCEPT ![n] = a], UNCHANGED <<row, unsaved>>,
           a.state = mem[n].state, a.full = mem[n].full
    PROVE  MirrorAgrees'
<1>1. ASSUME NEW m \in Accounts, m # n PROVE mem'[m] = mem[m]
    BY <1>1 DEF TypeOK
<1>2. mem'[n] = a /\ a # Absent
    BY AbsentIsNoStatus DEF TypeOK
<1>3. QED
    BY <1>1, <1>2 DEF MirrorAgrees, Registered

LEMMA ApplyMirror ==
    ASSUME TypeOK, MirrorAgrees, NEW p \in Prober, Apply(p) \/ Fail(p)
    PROVE  MirrorAgrees'
<1>1. PICK a \in AccountStatus :
          /\ probe[p] # Idle /\ Finish(p, a)
          /\ \/ SaveProbed(p, a)
             \/ /\ UNCHANGED <<row, unsaved>>
                /\ a.state = Object(p).state /\ a.full = Object(p).full
    BY ApplyIsFinish
<1>2. /\ probe[p].name \in Accounts
      /\ probe[p].gone = 0 => Registered(probe[p].name)
    BY <1>1, ObjectProperties
<1>3. CASE probe[p].gone = 0
    <2>1. mem' = [mem EXCEPT ![probe[p].name] = a] /\ Object(p) = mem[probe[p].name]
        BY <1>1, <1>3 DEF Finish, Object
    <2>2. SaveProbed(p, a) => Persist(probe[p].name, a, TRUE)
        BY <1>3 DEF SaveProbed
    <2>3. QED
        BY <1>1, <1>2, <1>3, <2>1, <2>2, PersistOwn, NothingToPersist
<1>4. CASE probe[p].gone # 0
    <2>1. mem' = mem
        BY <1>1, <1>4 DEF Finish
    <2>2. SaveProbed(p, a) => Persist(probe[p].name, a, FALSE)
        BY <1>4 DEF SaveProbed
    <2>3. QED
        BY <1>1, <1>2, <2>1, <2>2, PersistGone DEF MirrorAgrees, Registered
<1>5. QED
    BY <1>3, <1>4

LEMMA NextMirror == TypeOK /\ MirrorAgrees /\ [Next]_vars => MirrorAgrees'
<1>1. SUFFICES ASSUME TypeOK, MirrorAgrees, Next \/ UNCHANGED vars
               PROVE  MirrorAgrees'
    OBVIOUS
<1> USE <1>1
<1>2. ASSUME NEW n \in Accounts, AddAccount(n) \/ RemoveAccount(n)
      PROVE  MirrorAgrees'
    <2>1. ASSUME NEW m \in Accounts, m # n
          PROVE  mem'[m] = mem[m] /\ row'[m] = row[m] /\ (m \in unsaved' <=> m \in unsaved)
        BY <1>2, <2>1 DEF AddAccount, RemoveAccount, TypeOK
    <2>2. n \in unsaved' \/ row'[n] = mem'[n]
        BY <1>2 DEF AddAccount, RemoveAccount, TypeOK
    <2>3. QED
        BY <2>1, <2>2 DEF MirrorAgrees, Registered
<1>3. ASSUME NEW n \in Accounts, Disable(n) \/ Enable(n)
      PROVE  MirrorAgrees'
    <2>1. PICK t \in AccountState : SetState(n, t)
        BY <1>3 DEF Disable, Enable, AccountState
    <2>2. /\ mem' = [mem EXCEPT ![n] = Transition(mem[n], t)]
          /\ mem'[n] \in AccountStatus /\ Persist(n, mem'[n], TRUE) /\ Registered(n)
        BY <2>1, SetStateTypes DEF SetState
    <2>3. mem'[n] = Transition(mem[n], t)
        BY <2>2 DEF TypeOK
    <2>4. QED
        BY <2>2, <2>3, PersistOwn
<1>4. ASSUME NEW p \in Prober, Apply(p) \/ Fail(p)
      PROVE  MirrorAgrees'
    BY <1>4, ApplyMirror
<1>5. CASE Restart
    BY <1>5 DEF Restart, MirrorAgrees, Registered
<1>6. ASSUME UNCHANGED <<mem, row, unsaved>>
      PROVE  MirrorAgrees'
    BY <1>6 DEF MirrorAgrees, Registered
<1>7. ASSUME \/ NextRound \/ UNCHANGED vars
             \/ \E n \in Accounts : Environment(n) \/ Visit(n) \/ AskProbe(n)
             \/ \E p \in Prober : Answer(p)
      PROVE  MirrorAgrees'
    BY <1>6, <1>7 DEF NextRound, vars, Environment, UsageChanges, Revoke, Reauth,
                      Visit, AskProbe, Answer
<1>8. QED
    BY <1>2, <1>3, <1>4, <1>5, <1>7 DEF Next, Request, ProbeStep

-----------------------------------------------------------------------------
(* The theorems.                                                           *)

\* Each variable keeps its type, and the status object a probe works on is the one
\* the registry still has or one the probe took along when the account was removed.
THEOREM PoolTypeCorrect == Spec => []TypeOK
<1>1. Init => TypeOK
    BY InitTypes
<1>2. QED
    BY <1>1, NextTypes, PTL DEF Spec

\* No order of probes, late answers, requests, faults and restarts makes an account
\* healthy while a window is used up, which is why main.py:154 need not look.
THEOREM PoolHealthyHasQuota == Spec => []HealthyHasQuota
<1>1. Init => HealthyHasQuota
    BY NewAccountProperties DEF Init, HealthyHasQuota, Registered
<1>2. QED
    BY <1>1, NextQuota, PoolTypeCorrect, PTL DEF Spec

\* The rows are a mirror of the registry but for the writes that failed and the rows
\* that late probes of removed accounts have written.
THEOREM PoolMirrorAgrees == Spec => []MirrorAgrees
<1>1. Init => MirrorAgrees
    BY DEF Init, MirrorAgrees, Registered
<1>2. QED
    BY <1>1, NextMirror, PoolTypeCorrect, PTL DEF Spec

=============================================================================
