----------------------- MODULE AccountRotationProofs ------------------------
(***************************************************************************)
(* What the account manager guarantees for every set of accounts, every    *)
(* number of concurrent chats and every set of errors and cooldowns.       *)
(***************************************************************************)
EXTENDS AccountRotation, TLAPS

\* HealthConsistent of any copy f of the accounts.
Consistent(f) ==
    \A a \in Accounts : /\ f[a].state = "healthy" <=> f[a].fails = 0
                        /\ f[a].state = "healthy" => f[a].until = None
                        /\ f[a].until > now => f[a].state = "cooldown"

Counted == \A a \in Accounts : acct[a].fails = streak[a]

Stored(f) == disk = [torn |-> FALSE, file |-> f]

HealthInv == /\ Consistent(acct)
             /\ Consistent(disk.file)
             /\ phase = "up" => Counted
             /\ phase = "up" /\ ~dirty => Stored(acct)

Holds(t, a) == task[t].pc = "refreshed" /\ task[t].cur = a

\* While nothing goes wrong: no chat works with a credential newer than the
\* manager's, except the one chat per account that has just been given it.
CredInv ==
    faults = 0 =>
      /\ phase = "up" /\ ~dirty
      /\ \A a \in Accounts : acct[a].auth <= minted[a]
      /\ \A t \in Tasks, a \in Accounts : task[t].snap[a] <= acct[a].auth
      /\ \A t \in Tasks : task[t].cur # Anon /\ task[t].pc \in {"calling", "refreshing"}
                            => task[t].auth <= acct[task[t].cur].auth
      /\ \A t \in Tasks : task[t].pc = "refreshed" =>
             /\ task[t].cur # Anon
             /\ task[t].auth = minted[task[t].cur]
             /\ acct[task[t].cur].auth < task[t].auth
      /\ \A t, u \in Tasks, a \in Accounts : Holds(t, a) /\ Holds(u, a) => t = u
      /\ \A a \in Accounts : acct[a].auth = minted[a] \/ \E t \in Tasks : Holds(t, a)

IInv == TypeOK /\ HealthInv /\ CredInv

-----------------------------------------------------------------------------
LEMMA CooldownIsNat ==
    ASSUME NEW e \in CallErrors \cup {NoError} PROVE CooldownOf(e) \in Nat
BY UpstreamAssumption, ParamsAssumption
   DEF CooldownOf, CallErrors, NoError, NetworkError, ValidationError, Plain,
       ProviderErrorType, None

\* What mark_failure leaves in an account.
LEMMA FailedSound ==
    ASSUME NEW h \in HealthType, NEW c \in Nat, now \in Nat
    PROVE  /\ Failed(h, c) \in HealthType
           /\ Failed(h, c).auth = h.auth
           /\ Failed(h, c).fails = h.fails + 1
           /\ Failed(h, c).state # "healthy"
           /\ Failed(h, c).until = now + c
           /\ c # 0 => Failed(h, c).state = "cooldown"
<1> DEFINE s == IF c = 0 THEN "degraded" ELSE "cooldown"
<1>1. s \in {"degraded", "cooldown"} /\ (c # 0 => s = "cooldown")
  OBVIOUS
<1>2. Failed(h, c) = [h EXCEPT !.state = s, !.fails = h.fails + 1, !.until = now + c]
  BY DEF Failed
<1> HIDE DEF s
<1>3. h.fails + 1 \in Nat /\ now + c \in Nat
  BY DEF HealthType
<1>4. Failed(h, c) \in HealthType
  BY <1>1, <1>2, <1>3 DEF HealthType
<1>5. /\ Failed(h, c).auth = h.auth /\ Failed(h, c).fails = h.fails + 1
      /\ Failed(h, c).state = s /\ Failed(h, c).until = now + c
  BY <1>2 DEF HealthType
<1> QED
  BY <1>1, <1>4, <1>5

\* .. and what mark_success leaves in it.
LEMMA RecoveredSound ==
    ASSUME NEW h \in HealthType
    PROVE  /\ Recovered(h) \in HealthType /\ Recovered(h).auth = h.auth
           /\ Recovered(h).fails = 0 /\ Recovered(h).state = "healthy"
           /\ Recovered(h).until = None
BY DEF HealthType, Recovered

\* Writing back an outcome keeps the health fields in step, counts it, and
\* leaves the credentials alone.
LEMMA MarkFailureSound ==
    ASSUME TypeOK, Consistent(acct), Counted, NEW a \in Ids, NEW c \in Nat,
           mark_failure(a, c), UNCHANGED now
    PROVE  /\ acct' \in [Accounts -> HealthType]
           /\ streak' \in [Accounts -> Nat] /\ parked' \in [Accounts -> Nat]
           /\ Consistent(acct)' /\ Counted'
           /\ \A b \in Accounts : acct'[b].auth = acct[b].auth
<1>1. CASE a \notin Accounts
  BY <1>1 DEF mark_failure, TypeOK, Consistent, Counted
<1>2. CASE a \in Accounts
  <2>1. /\ acct' = [acct EXCEPT ![a] = Failed(acct[a], c)]
        /\ streak' = [streak EXCEPT ![a] = streak[a] + 1]
        /\ parked' = [parked EXCEPT ![a] = IF now + c > parked[a] THEN now + c ELSE parked[a]]
    BY <1>2 DEF mark_failure
  <2>2. now \in Nat /\ acct[a] \in HealthType /\ acct[a].fails \in Nat /\ acct \in [Accounts -> HealthType]
    BY <1>2, ParamsAssumption DEF TypeOK, HealthType
  <2>3. /\ Failed(acct[a], c) \in HealthType
        /\ Failed(acct[a], c).auth = acct[a].auth
        /\ Failed(acct[a], c).fails = acct[a].fails + 1
        /\ Failed(acct[a], c).state # "healthy"
        /\ Failed(acct[a], c).until = now + c
        /\ c # 0 => Failed(acct[a], c).state = "cooldown"
    BY <2>2, FailedSound
  <2>4. acct' \in [Accounts -> HealthType] /\ \A b \in Accounts : acct'[b].auth = acct[b].auth
    BY <2>1, <2>2, <2>3
  <2>5. streak' \in [Accounts -> Nat] /\ parked' \in [Accounts -> Nat]
    BY <1>2, <2>1, <2>3 DEF TypeOK
  <2>6. Counted'
    BY <1>2, <2>1, <2>2, <2>3 DEF TypeOK, Counted
  <2>7. Consistent(acct)'
    BY <1>2, <2>1, <2>2, <2>3 DEF Consistent
  <2> QED
    BY <2>4, <2>5, <2>6, <2>7
<1> QED
  BY <1>1, <1>2

LEMMA MarkSuccessSound ==
    ASSUME TypeOK, Consistent(acct), Counted, NEW a \in Ids,
           mark_success(a), UNCHANGED now
    PROVE  /\ acct' \in [Accounts -> HealthType]
           /\ streak' \in [Accounts -> Nat] /\ parked' \in [Accounts -> Nat]
           /\ Consistent(acct)' /\ Counted'
           /\ \A b \in Accounts : acct'[b].auth = acct[b].auth
<1>1. CASE a \notin Accounts
  BY <1>1 DEF mark_success, TypeOK, Consistent, Counted
<1>2. CASE a \in Accounts
  <2>1. /\ acct' = [acct EXCEPT ![a] = Recovered(acct[a])]
        /\ streak' = [streak EXCEPT ![a] = 0]
        /\ parked' = [parked EXCEPT ![a] = 0]
    BY <1>2 DEF mark_success
  <2>2. /\ Recovered(acct[a]) \in HealthType
        /\ Recovered(acct[a]).auth = acct[a].auth
        /\ Recovered(acct[a]).fails = 0
        /\ Recovered(acct[a]).state = "healthy"
        /\ Recovered(acct[a]).until = None
    BY <1>2, RecoveredSound DEF TypeOK
  <2>3. now \in Nat /\ acct \in [Accounts -> HealthType]
    BY ParamsAssumption DEF TypeOK
  <2>4. streak \in [Accounts -> Nat] /\ parked \in [Accounts -> Nat]
    BY DEF TypeOK
  <2>5. /\ acct' \in [Accounts -> HealthType]
        /\ acct'[a] = Recovered(acct[a]) /\ \A b \in Accounts : b # a => acct'[b] = acct[b]
    BY <1>2, <2>1, <2>2, <2>3
  <2>6. /\ streak' \in [Accounts -> Nat] /\ parked' \in [Accounts -> Nat]
        /\ streak'[a] = 0 /\ \A b \in Accounts : b # a => streak'[b] = streak[b]
    BY <1>2, <2>1, <2>4
  <2>7. Consistent(acct)'
    BY <2>2, <2>3, <2>5 DEF Consistent, None
  <2>8. Counted'
    BY <2>2, <2>5, <2>6 DEF Counted
  <2> QED
    BY <2>2, <2>5, <2>6, <2>7, <2>8
<1> QED
  BY <1>1, <1>2

\* save leaves the file whole and current, or says that it did not.
LEMMA SaveSound ==
    ASSUME TypeOK, Consistent(disk.file), acct' \in [Accounts -> HealthType],
           Consistent(acct)', save, UNCHANGED now
    PROVE  /\ disk' \in [torn : BOOLEAN, file : [Accounts -> HealthType]]
           /\ faults' \in 0..MaxFaults /\ dirty' \in BOOLEAN
           /\ Consistent(disk.file)'
           /\ ~dirty' => Stored(acct)'
           /\ faults' = 0 => faults = 0 /\ ~dirty'
<1>1. CASE disk' = [torn |-> FALSE, file |-> acct'] /\ dirty' = FALSE /\ UNCHANGED faults
  BY <1>1 DEF TypeOK, Consistent, Stored
<1>2. CASE /\ faults < MaxFaults /\ faults' = faults + 1
           /\ dirty' = TRUE
           /\ disk' \in {disk, [disk EXCEPT !.torn = TRUE]}
  <2>1. disk'.file = disk.file /\ disk' \in [torn : BOOLEAN, file : [Accounts -> HealthType]]
    BY <1>2 DEF TypeOK
  <2> QED
    BY <1>2, <2>1, ParamsAssumption DEF TypeOK, Consistent
<1> QED
  BY <1>1, <1>2 DEF save

\* The first of a set of candidates is called with its credential in snap.
LEMMA TryFirstSound ==
    ASSUME TypeOK, NEW t \in Tasks, NEW cands \in SUBSET Accounts,
           NEW snap \in [Accounts -> Nat], TryFirst(t, cands, snap)
    PROVE  /\ task' \in [Tasks -> TaskType]
           /\ \A u \in Tasks : u # t => task'[u] = task[u]
           /\ task'[t].pc = "calling" /\ task'[t].snap = snap
           /\ task'[t].cur \in Accounts /\ task'[t].auth = snap[task'[t].cur]
<1>1. PICK a \in Accounts :
        task' = [task EXCEPT ![t].pc = "calling", ![t].cur = a, ![t].left = cands \ {a},
                             ![t].snap = snap, ![t].auth = snap[a],
                             ![t].tries[a] = @ + 1]
  BY DEF TryFirst
<1>a. task \in [Tasks -> TaskType] /\ task[t] \in TaskType /\ a \in Ids
  BY DEF TypeOK, Ids
<1>b. task[t].tries \in [Ids -> Nat]
  BY <1>a DEF TaskType
<1>2. /\ task \in [Tasks -> TaskType] /\ task[t] \in TaskType /\ a \in Ids
      /\ task[t].tries \in [Ids -> Nat] /\ task[t].tries[a] \in Nat
  BY <1>a, <1>b
<1>3. /\ task'[t].pc = "calling" /\ task'[t].snap = snap /\ task'[t].cur = a
      /\ task'[t].auth = snap[a]
      /\ \A u \in Tasks : u # t => task'[u] = task[u]
  BY <1>1, <1>2 DEF TaskType
<1>4. task' \in [Tasks -> TaskType]
  BY <1>1, <1>2 DEF TaskType
<1> QED
  BY <1>3, <1>4

\* A step that touches no credential and moves one chat t, which holds no new
\* credential before or after it, keeps CredInv.
LEMMA CredKept ==
    ASSUME IInv, TypeOK', NEW t \in Tasks,
           \A u \in Tasks : u # t => task'[u] = task[u],
           task[t].pc # "refreshed", task'[t].pc # "refreshed",
           \A a \in Accounts : acct'[a].auth = acct[a].auth,
           UNCHANGED <<minted, phase>>,
           faults' = 0 => faults = 0 /\ ~dirty',
           faults = 0 => \A a \in Accounts : task'[t].snap[a] <= acct[a].auth,
           faults = 0 /\ task'[t].cur # Anon /\ task'[t].pc \in {"calling", "refreshing"}
             => task'[t].auth <= acct[task'[t].cur].auth
    PROVE  CredInv'
<1> SUFFICES ASSUME faults' = 0
             PROVE  /\ phase' = "up" /\ ~dirty'
                    /\ \A a \in Accounts : acct'[a].auth <= minted'[a]
                    /\ \A u \in Tasks, a \in Accounts : task'[u].snap[a] <= acct'[a].auth
                    /\ \A u \in Tasks : task'[u].cur # Anon /\ task'[u].pc \in {"calling", "refreshing"}
                                         => task'[u].auth <= acct'[task'[u].cur].auth
                    /\ \A u \in Tasks : task'[u].pc = "refreshed" =>
                           /\ task'[u].cur # Anon
                           /\ task'[u].auth = minted'[task'[u].cur]
                           /\ acct'[task'[u].cur].auth < task'[u].auth
                    /\ \A v, u \in Tasks, a \in Accounts : Holds(v, a)' /\ Holds(u, a)' => v = u
                    /\ \A a \in Accounts : acct'[a].auth = minted'[a] \/ \E u \in Tasks : Holds(u, a)'
  BY DEF CredInv
<1>1. faults = 0 /\ ~dirty'
  OBVIOUS
<1>2. \A u \in Tasks : task'[u].cur \in Ids /\ task[u].cur \in Ids
  BY DEF IInv, TypeOK, TaskType
<1>3. \A u \in Tasks, a \in Accounts : Holds(u, a)' <=> Holds(u, a)
  BY DEF Holds
<1>4. phase' = "up" /\ \A a \in Accounts : acct'[a].auth <= minted'[a]
  BY <1>1 DEF IInv, CredInv
<1>5. \A u \in Tasks, a \in Accounts : task'[u].snap[a] <= acct'[a].auth
  BY <1>1 DEF IInv, CredInv
<1>6. \A u \in Tasks : task'[u].cur # Anon /\ task'[u].pc \in {"calling", "refreshing"}
                       => task'[u].auth <= acct'[task'[u].cur].auth
  BY <1>1, <1>2 DEF IInv, CredInv, Ids
<1>7. \A u \in Tasks : task'[u].pc = "refreshed" =>
                           /\ task'[u].cur # Anon
                           /\ task'[u].auth = minted'[task'[u].cur]
                           /\ acct'[task'[u].cur].auth < task'[u].auth
  BY <1>1, <1>2 DEF IInv, CredInv, Ids
<1>8. \A v, u \in Tasks, a \in Accounts : Holds(v, a)' /\ Holds(u, a)' => v = u
  BY <1>1, <1>3 DEF IInv, CredInv
<1>9. \A a \in Accounts : acct'[a].auth = minted'[a] \/ \E u \in Tasks : Holds(u, a)'
  BY <1>1, <1>3 DEF IInv, CredInv
<1> QED
  BY <1>1, <1>4, <1>5, <1>6, <1>7, <1>8, <1>9

\* A failure written back, with the failover that follows it.
LEMMA WriteBackIInv ==
    ASSUME IInv, phase = "up", NEW t \in Tasks, task[t].pc # "refreshed",
           NEW e \in CallErrors \cup {NoError}, WriteBack(t, e)
    PROVE  IInv'
<1>1. task[t] \in TaskType /\ task[t].cur \in Ids /\ CooldownOf(e) \in Nat
      /\ task[t].left \in SUBSET Accounts /\ task[t].snap \in [Accounts -> Nat]
  BY CooldownIsNat DEF IInv, TypeOK, TaskType
<1>2. now' = now /\ phase' = phase /\ minted' = minted
  BY DEF WriteBack
<1>3. TypeOK /\ Consistent(acct) /\ Consistent(disk.file) /\ Counted
  BY DEF IInv, HealthInv
<1>4. /\ acct' \in [Accounts -> HealthType]
      /\ streak' \in [Accounts -> Nat] /\ parked' \in [Accounts -> Nat]
      /\ Consistent(acct)' /\ Counted'
      /\ \A b \in Accounts : acct'[b].auth = acct[b].auth
  BY <1>1, <1>2, <1>3, MarkFailureSound DEF WriteBack
<1>5. /\ disk' \in [torn : BOOLEAN, file : [Accounts -> HealthType]]
      /\ faults' \in 0..MaxFaults /\ dirty' \in BOOLEAN
      /\ Consistent(disk.file)'
      /\ ~dirty' => Stored(acct)'
      /\ faults' = 0 => faults = 0 /\ ~dirty'
  BY <1>2, <1>3, <1>4, SaveSound DEF WriteBack
<1>6. /\ task' \in [Tasks -> TaskType]
      /\ \A u \in Tasks : u # t => task'[u] = task[u]
      /\ task'[t].snap = task[t].snap
      /\ \/ task'[t].pc = "failed"
         \/ /\ task'[t].pc = "calling"
            /\ task'[t].cur \in Accounts /\ task'[t].auth = task[t].snap[task'[t].cur]
  <2>1. CASE Failover(e) /\ task[t].left # {}
    <3>1. TryFirst(t, task[t].left, task[t].snap)
      BY <2>1 DEF WriteBack
    <3> QED
      BY <1>1, <1>3, <3>1, TryFirstSound
  <2>2. CASE ~(Failover(e) /\ task[t].left # {})
    <3>1. task' = [task EXCEPT ![t].pc = "failed", ![t].err = e]
      BY <2>2 DEF WriteBack
    <3>2. task \in [Tasks -> TaskType] /\ task[t] \in TaskType
      BY <1>3 DEF TypeOK
    <3>3. [task[t] EXCEPT !.pc = "failed", !.err = e] \in TaskType
      BY <3>2 DEF TaskType, Ended
    <3>4. task' = [task EXCEPT ![t] = [task[t] EXCEPT !.pc = "failed", !.err = e]]
      BY <3>1, <3>2
    <3> QED
      BY <3>2, <3>3, <3>4 DEF TaskType
  <2> QED
    BY <2>1, <2>2
<1>7. TypeOK'
  BY <1>2, <1>3, <1>4, <1>5, <1>6 DEF TypeOK
<1>8. HealthInv'
  BY <1>4, <1>5 DEF HealthInv
<1>9. CredInv'
  <2>1. faults = 0 => \A a \in Accounts : task'[t].snap[a] <= acct[a].auth
    BY <1>6 DEF IInv, CredInv
  <2>2. faults = 0 /\ task'[t].cur # Anon /\ task'[t].pc \in {"calling", "refreshing"}
             => task'[t].auth <= acct[task'[t].cur].auth
    BY <1>6 DEF IInv, CredInv
  <2> QED
    BY <1>2, <1>4, <1>5, <1>6, <1>7, <2>1, <2>2, CredKept
<1> QED
  BY <1>7, <1>8, <1>9 DEF IInv

\* A chat moves and nothing but its own record changes.
LEMMA TaskOnlyIInv ==
    ASSUME IInv, NEW t \in Tasks, NEW r \in TaskType,
           task' = [task EXCEPT ![t] = r],
           UNCHANGED <<now, phase, file, minted, streak, parked>>,
           task[t].pc # "refreshed", r.pc # "refreshed",
           r.snap = task[t].snap,
           r.pc \in {"calling", "refreshing"} =>
               r.cur = Anon \/ (r.cur = task[t].cur /\ r.auth = task[t].auth
                                /\ task[t].pc \in {"calling", "refreshing"})
    PROVE  IInv'
<1>1. /\ now' = now /\ phase' = phase /\ acct' = acct /\ disk' = disk /\ faults' = faults
      /\ dirty' = dirty /\ minted' = minted /\ streak' = streak /\ parked' = parked
  BY DEF file
<1>2. task \in [Tasks -> TaskType]
  BY DEF IInv, TypeOK
<1>3. /\ task' \in [Tasks -> TaskType] /\ task'[t] = r
      /\ \A u \in Tasks : u # t => task'[u] = task[u]
  BY <1>2
<1>4. TypeOK'
  BY <1>1, <1>3 DEF IInv, TypeOK
<1>5. HealthInv'
  BY <1>1 DEF IInv, HealthInv, Consistent, Counted, Stored
<1>6. faults' = 0 => faults = 0 /\ ~dirty'
  BY <1>1 DEF IInv, CredInv
<1>7. faults = 0 => \A a \in Accounts : task'[t].snap[a] <= acct[a].auth
  BY <1>3 DEF IInv, CredInv
<1>8. faults = 0 /\ task'[t].cur # Anon /\ task'[t].pc \in {"calling", "refreshing"}
        => task'[t].auth <= acct[task'[t].cur].auth
  BY <1>3 DEF IInv, CredInv
<1>9. CredInv'
  BY <1>1, <1>3, <1>4, <1>6, <1>7, <1>8, CredKept
<1> QED
  BY <1>4, <1>5, <1>9 DEF IInv

LEMMA SelectIInv ==
    ASSUME IInv, NEW t \in Tasks, Select(t) PROVE IInv'
<1> DEFINE snap == [a \in Accounts |-> acct[a].auth]
<1>1. task \in [Tasks -> TaskType] /\ task[t] \in TaskType /\ task[t].pc = "idle"
      /\ TypeOK /\ acct \in [Accounts -> HealthType]
  BY DEF IInv, TypeOK, Select, At
<1>2. UNCHANGED <<now, phase, file, minted, streak, parked>>
  BY DEF Select
<1>3. CASE TryFirst(t, accounts_for, snap)
  <2>1. snap \in [Accounts -> Nat] /\ accounts_for \in SUBSET Accounts
    BY <1>1 DEF HealthType, accounts_for
  <2>2. \A a \in Accounts : snap[a] = acct[a].auth /\ acct[a].auth \in Nat
    BY <1>1 DEF HealthType
  <2> HIDE DEF snap
  <2>3. /\ task' \in [Tasks -> TaskType]
        /\ \A u \in Tasks : u # t => task'[u] = task[u]
        /\ task'[t].pc = "calling" /\ task'[t].snap = snap
        /\ task'[t].cur \in Accounts /\ task'[t].auth = snap[task'[t].cur]
    BY <1>1, <1>3, <2>1, TryFirstSound
  <2>4. /\ now' = now /\ phase' = phase /\ acct' = acct /\ disk' = disk /\ faults' = faults
        /\ dirty' = dirty /\ minted' = minted /\ streak' = streak /\ parked' = parked
    BY <1>2 DEF file
  <2>5. TypeOK'
    BY <1>1, <2>3, <2>4 DEF TypeOK
  <2>6. HealthInv'
    BY <2>4 DEF IInv, HealthInv, Consistent, Counted, Stored
  <2>7. faults' = 0 => faults = 0 /\ ~dirty'
    BY <2>4 DEF IInv, CredInv
  <2>8. /\ \A a \in Accounts : task'[t].snap[a] <= acct[a].auth
        /\ task'[t].auth <= acct[task'[t].cur].auth
    BY <2>2, <2>3
  <2>9. CredInv'
    BY <1>1, <2>3, <2>4, <2>5, <2>7, <2>8, CredKept
  <2> QED
    BY <2>5, <2>6, <2>9 DEF IInv
<1>4. CASE task' = [task EXCEPT ![t].pc = "calling", ![t].cur = Anon, ![t].tries[Anon] = @ + 1]
  <2> DEFINE r == [task[t] EXCEPT !.pc = "calling", !.cur = Anon, !.tries[Anon] = @ + 1]
  <2>0. task[t].tries \in [Ids -> Nat] /\ Anon \in Ids
    BY <1>1 DEF TaskType, Ids
  <2>1. [task[t].tries EXCEPT ![Anon] = @ + 1] \in [Ids -> Nat]
    BY <2>0
  <2>2. r \in TaskType
    BY <1>1, <2>0, <2>1 DEF TaskType
  <2>3. r.pc = "calling" /\ r.cur = Anon /\ r.snap = task[t].snap
    BY <1>1 DEF TaskType
  <2>4. task' = [task EXCEPT ![t] = r]
    BY <1>1, <1>4
  <2> HIDE DEF r
  <2> QED
    BY <1>1, <1>2, <2>2, <2>3, <2>4, TaskOnlyIInv
<1>5. CASE task' = [task EXCEPT ![t].pc = "no_accounts"]
  <2> DEFINE r == [task[t] EXCEPT !.pc = "no_accounts"]
  <2>1. r \in TaskType /\ r.pc = "no_accounts" /\ r.snap = task[t].snap
    BY <1>1 DEF TaskType, Ended
  <2>2. task' = [task EXCEPT ![t] = r]
    BY <1>1, <1>5
  <2> HIDE DEF r
  <2> QED
    BY <1>1, <1>2, <2>1, <2>2, TaskOnlyIInv
<1> QED
  BY <1>3, <1>4, <1>5 DEF Select

LEMMA SucceedIInv ==
    ASSUME IInv, NEW t \in Tasks, Succeed(t) PROVE IInv'
<1>1. /\ task \in [Tasks -> TaskType] /\ task[t] \in TaskType /\ task[t].cur \in Ids
      /\ task[t].pc # "refreshed" /\ phase = "up"
  BY DEF IInv, TypeOK, TaskType, Succeed, At
<1>2. now' = now /\ phase' = phase /\ minted' = minted
  BY DEF Succeed
<1>3. TypeOK /\ Consistent(acct) /\ Consistent(disk.file) /\ Counted
  BY <1>1 DEF IInv, HealthInv
<1>4. /\ acct' \in [Accounts -> HealthType]
      /\ streak' \in [Accounts -> Nat] /\ parked' \in [Accounts -> Nat]
      /\ Consistent(acct)' /\ Counted'
      /\ \A b \in Accounts : acct'[b].auth = acct[b].auth
  BY <1>1, <1>2, <1>3, MarkSuccessSound DEF Succeed
<1>5. /\ disk' \in [torn : BOOLEAN, file : [Accounts -> HealthType]]
      /\ faults' \in 0..MaxFaults /\ dirty' \in BOOLEAN
      /\ Consistent(disk.file)'
      /\ ~dirty' => Stored(acct)'
      /\ faults' = 0 => faults = 0 /\ ~dirty'
  BY <1>2, <1>3, <1>4, SaveSound DEF Succeed
<1>6. /\ task' = [task EXCEPT ![t] = [task[t] EXCEPT !.pc = "answered"]]
      /\ [task[t] EXCEPT !.pc = "answered"] \in TaskType
  BY <1>1 DEF Succeed, TaskType, Ended
<1>7. /\ task' \in [Tasks -> TaskType]
      /\ \A u \in Tasks : u # t => task'[u] = task[u]
      /\ task'[t].snap = task[t].snap /\ task'[t].pc = "answered"
  BY <1>1, <1>6 DEF TaskType
<1>8. TypeOK'
  BY <1>2, <1>3, <1>4, <1>5, <1>7 DEF TypeOK
<1>9. HealthInv'
  BY <1>4, <1>5 DEF HealthInv
<1>10. faults = 0 => \A a \in Accounts : task'[t].snap[a] <= acct[a].auth
  BY <1>7 DEF IInv, CredInv
<1>11. CredInv'
  BY <1>1, <1>2, <1>4, <1>5, <1>7, <1>8, <1>10, CredKept
<1> QED
  BY <1>8, <1>9, <1>11 DEF IInv

LEMMA FailIInv ==
    ASSUME IInv, NEW t \in Tasks, NEW e \in CallErrors, Fail(t, e) PROVE IInv'
<1>1. /\ task \in [Tasks -> TaskType] /\ task[t] \in TaskType
      /\ task[t].pc # "refreshed" /\ phase = "up"
  BY DEF IInv, TypeOK, Fail, At
<1>2. CASE WriteBack(t, e)
  BY <1>1, <1>2, WriteBackIInv
<1>3. CASE /\ At(t, "calling")
           /\ task' = [task EXCEPT ![t].pc = "refreshing", ![t].err = e]
           /\ UNCHANGED <<now, phase, file, minted, streak, parked>>
  <2> DEFINE r == [task[t] EXCEPT !.pc = "refreshing", !.err = e]
  <2>1. r \in TaskType
    BY <1>1 DEF TaskType
  <2>2. /\ r.pc = "refreshing" /\ r.snap = task[t].snap
        /\ r.cur = task[t].cur /\ r.auth = task[t].auth /\ task[t].pc = "calling"
    BY <1>1, <1>3 DEF TaskType, At
  <2>3. task' = [task EXCEPT ![t] = r]
    BY <1>1, <1>3
  <2> HIDE DEF r
  <2> QED
    BY <1>1, <1>3, <2>1, <2>2, <2>3, TaskOnlyIInv
<1> QED
  BY <1>2, <1>3 DEF Fail

\* The chat that is given a new credential is the only one that has it: it held
\* the manager's newest, so no other chat can be on its way to store one.
LEMMA RefreshMintIInv ==
    ASSUME IInv, NEW t \in Tasks, RefreshMint(t) PROVE IInv'
<1> DEFINE a == task[t].cur
           r == [task[t] EXCEPT !.pc = "refreshed", !.auth = task[t].auth + 1]
<1>1. /\ task \in [Tasks -> TaskType] /\ task[t] \in TaskType /\ task[t].pc = "refreshing"
      /\ minted \in [Accounts -> Nat] /\ phase = "up"
  BY DEF IInv, TypeOK, RefreshMint, At
<1>2. /\ a \in Accounts /\ a # Anon /\ task[t].auth \in Nat /\ minted[a] \in Nat
      /\ task[t].auth = minted[a] /\ task[t].snap \in [Accounts -> Nat]
  BY <1>1 DEF RefreshMint, TaskType, Ids
<1>3. minted' = [minted EXCEPT ![a] = minted[a] + 1] /\ task' = [task EXCEPT ![t] = r]
  BY <1>1 DEF RefreshMint
<1>a. task[t].auth + 1 \in Nat
  BY <1>2
<1>b. r \in TaskType
  BY <1>1, <1>a DEF TaskType
<1>c. /\ r.pc = "refreshed" /\ r.auth = task[t].auth + 1
      /\ r.cur = task[t].cur /\ r.snap = task[t].snap
  BY <1>1 DEF TaskType
<1>4. /\ r \in TaskType /\ r.pc = "refreshed" /\ r.auth = minted[a] + 1
      /\ r.cur = a /\ r.snap = task[t].snap
  BY <1>2, <1>b, <1>c
<1>5. /\ now' = now /\ phase' = phase /\ acct' = acct /\ disk' = disk /\ faults' = faults
      /\ dirty' = dirty /\ streak' = streak /\ parked' = parked
  BY DEF RefreshMint, file
<1>6. /\ task' \in [Tasks -> TaskType] /\ task'[t] = r
      /\ \A u \in Tasks : u # t => task'[u] = task[u]
      /\ minted' \in [Accounts -> Nat] /\ minted'[a] = minted[a] + 1
      /\ \A b \in Accounts : b # a => minted'[b] = minted[b]
  BY <1>1, <1>2, <1>3, <1>4
<1> HIDE DEF r
<1>7. TypeOK'
  BY <1>5, <1>6 DEF IInv, TypeOK
<1>8. HealthInv'
  BY <1>5 DEF IInv, HealthInv, Consistent, Counted, Stored
<1>9. CredInv'
  <2> SUFFICES ASSUME faults = 0
               PROVE  CredInv'
    BY <1>5 DEF CredInv
  <2>1. /\ \A u \in Tasks : task[u].cur \in Ids /\ task[u].auth \in Nat
        /\ \A b \in Accounts : acct[b].auth \in Nat /\ minted[b] \in Nat
    BY DEF IInv, TypeOK, TaskType, HealthType
  <2>2. acct[a].auth = minted[a]
    <3>1. task[t].auth <= acct[a].auth
      BY <1>1, <1>2 DEF IInv, CredInv
    <3>2. acct[a].auth <= minted[a]
      BY <1>2 DEF IInv, CredInv
    <3>3. acct[a].auth \in Nat /\ minted[a] \in Nat /\ task[t].auth = minted[a]
      BY <1>2, <2>1
    <3> QED
      BY <3>1, <3>2, <3>3
  <2> HIDE DEF a
  <2>3. \A u \in Tasks : ~Holds(u, a)
    BY <1>2, <2>1, <2>2 DEF IInv, CredInv, Holds
  <2>4. \A u \in Tasks, b \in Accounts :
            Holds(u, b)' <=> (u = t /\ b = a) \/ (u # t /\ Holds(u, b))
    BY <1>4, <1>6 DEF Holds
  <2>5. phase' = "up" /\ ~dirty' /\ faults' = 0
    BY <1>5 DEF IInv, CredInv
  <2>6. \A b \in Accounts : acct'[b].auth <= minted'[b]
    BY <1>2, <1>5, <1>6, <2>1 DEF IInv, CredInv
  <2>7. \A u \in Tasks, b \in Accounts : task'[u].snap[b] <= acct'[b].auth
    BY <1>4, <1>5, <1>6 DEF IInv, CredInv
  <2>8. \A u \in Tasks : task'[u].cur # Anon /\ task'[u].pc \in {"calling", "refreshing"}
                          => task'[u].auth <= acct'[task'[u].cur].auth
    BY <1>4, <1>5, <1>6 DEF IInv, CredInv
  <2>9. \A u \in Tasks : task'[u].pc = "refreshed" =>
            /\ task'[u].cur # Anon
            /\ task'[u].auth = minted'[task'[u].cur]
            /\ acct'[task'[u].cur].auth < task'[u].auth
    <3> SUFFICES ASSUME NEW u \in Tasks, task'[u].pc = "refreshed"
                 PROVE  /\ task'[u].cur # Anon
                        /\ task'[u].auth = minted'[task'[u].cur]
                        /\ acct'[task'[u].cur].auth < task'[u].auth
      OBVIOUS
    <3>1. CASE u = t
      BY <3>1, <1>2, <1>4, <1>5, <1>6, <2>1, <2>2
    <3>2. CASE u # t
      <4>1. task'[u] = task[u] /\ task[u].cur \in Accounts
        BY <3>2, <1>6, <2>1 DEF IInv, CredInv, Ids
      <4>2. task[u].cur # a
        BY <4>1, <2>3 DEF Holds
      <4> QED
        BY <4>1, <4>2, <1>5, <1>6 DEF IInv, CredInv
    <3> QED
      BY <3>1, <3>2
  <2>10. \A v, u \in Tasks, b \in Accounts : Holds(v, b)' /\ Holds(u, b)' => v = u
    BY <2>3, <2>4 DEF IInv, CredInv
  <2>11. \A b \in Accounts : acct'[b].auth = minted'[b] \/ \E u \in Tasks : Holds(u, b)'
    <3> SUFFICES ASSUME NEW b \in Accounts
                 PROVE  acct'[b].auth = minted'[b] \/ \E u \in Tasks : Holds(u, b)'
      OBVIOUS
    <3>1. CASE b = a
      BY <3>1, <2>4
    <3>2. CASE b # a
      <4>1. ~Holds(t, b)
        BY <1>1 DEF Holds
      <4> QED
        BY <3>2, <4>1, <1>5, <1>6, <2>4 DEF IInv, CredInv
    <3> QED
      BY <3>1, <3>2
  <2> QED
    BY <2>5, <2>6, <2>7, <2>8, <2>9, <2>10, <2>11 DEF CredInv
<1> QED
  BY <1>7, <1>8, <1>9 DEF IInv

\* Storing a new credential ends its one chat's hold on it; no other account's
\* credential moves, and no chat works with a newer one than the manager has.
LEMMA RefreshStoreIInv ==
    ASSUME IInv, NEW t \in Tasks, RefreshStore(t) PROVE IInv'
<1> DEFINE a == task[t].cur
           n == [task[t].tries EXCEPT ![a] = @ + 1]
           r == [task[t] EXCEPT !.pc = "retrying", !.tries = n]
           h == [acct[a] EXCEPT !.auth = task[t].auth]
<1>1. /\ task \in [Tasks -> TaskType] /\ task[t] \in TaskType /\ task[t].pc = "refreshed"
      /\ acct \in [Accounts -> HealthType] /\ phase = "up" /\ TypeOK
  BY DEF IInv, TypeOK, RefreshStore, At
<1>2. a \in Ids /\ task[t].auth \in Nat /\ task[t].tries \in [Ids -> Nat]
  BY <1>1 DEF TaskType
<1>3. n \in [Ids -> Nat]
  BY <1>2
<1>4. task' = [task EXCEPT ![t] = r]
  BY <1>1 DEF RefreshStore
<1> HIDE DEF n
<1>5. /\ r \in TaskType /\ r.pc = "retrying" /\ r.snap = task[t].snap
  BY <1>1, <1>3 DEF TaskType
<1> HIDE DEF r
<1>6. /\ task' \in [Tasks -> TaskType] /\ task'[t].pc = "retrying"
      /\ task'[t].snap = task[t].snap
      /\ \A u \in Tasks : u # t => task'[u] = task[u]
  BY <1>1, <1>4, <1>5
<1>7. /\ now' = now /\ phase' = phase /\ minted' = minted
      /\ streak' = streak /\ parked' = parked
  BY DEF RefreshStore
<1>8. /\ acct' \in [Accounts -> HealthType]
      /\ \A b \in Accounts : /\ acct'[b].state = acct[b].state /\ acct'[b].fails = acct[b].fails
                             /\ acct'[b].until = acct[b].until
                             /\ b # a => acct'[b].auth = acct[b].auth
                             /\ b = a => acct'[b].auth = task[t].auth
  <2>1. CASE a \in Accounts
    <3>1. acct' = [acct EXCEPT ![a] = h]
      BY <1>1, <2>1 DEF RefreshStore, update_auth
    <3>2. /\ h \in HealthType /\ h.auth = task[t].auth
          /\ h.state = acct[a].state /\ h.fails = acct[a].fails /\ h.until = acct[a].until
      BY <1>1, <1>2, <2>1 DEF HealthType
    <3> QED
      BY <1>1, <2>1, <3>1, <3>2
  <2>2. CASE a \notin Accounts
    BY <1>1, <2>2 DEF RefreshStore, update_auth
  <2> QED
    BY <2>1, <2>2
<1>9. Consistent(acct)' /\ Counted'
  BY <1>1, <1>7, <1>8 DEF IInv, HealthInv, Consistent, Counted
<1>10. /\ disk' \in [torn : BOOLEAN, file : [Accounts -> HealthType]]
       /\ faults' \in 0..MaxFaults /\ dirty' \in BOOLEAN
       /\ Consistent(disk.file)'
       /\ ~dirty' => Stored(acct)'
       /\ faults' = 0 => faults = 0 /\ ~dirty'
  BY <1>1, <1>7, <1>8, <1>9, SaveSound DEF RefreshStore, IInv, HealthInv
<1>11. TypeOK'
  BY <1>1, <1>6, <1>7, <1>8, <1>10 DEF TypeOK
<1>12. HealthInv'
  BY <1>9, <1>10 DEF HealthInv
<1>13. CredInv'
  <2> SUFFICES ASSUME faults' = 0
               PROVE  CredInv'
    BY DEF CredInv
  <2>1. faults = 0 /\ ~dirty' /\ phase' = "up"
    BY <1>1, <1>7, <1>10
  <2>2. a \in Accounts /\ task[t].auth = minted[a] /\ acct[a].auth < task[t].auth
    BY <1>1, <1>2, <2>1 DEF IInv, CredInv, Ids
  <2> HIDE DEF a
  <2>3. /\ \A u \in Tasks : task[u].cur \in Ids /\ task[u].auth \in Nat
                            /\ task[u].snap \in [Accounts -> Nat]
        /\ \A b \in Accounts : acct[b].auth \in Nat /\ minted[b] \in Nat
    BY <1>1 DEF TypeOK, TaskType, HealthType
  <2>4. /\ acct'[a].auth = minted[a]
        /\ \A b \in Accounts : b # a => acct'[b].auth = acct[b].auth
        /\ \A b \in Accounts : acct[b].auth <= acct'[b].auth
    BY <1>8, <2>2, <2>3
  <2>5. \A u \in Tasks : u # t => ~Holds(u, a)
    BY <1>1, <2>1, <2>2 DEF IInv, CredInv, Holds, a
  <2>6. \A u \in Tasks, b \in Accounts : Holds(u, b)' <=> u # t /\ Holds(u, b)
    BY <1>6 DEF Holds
  <2>7. \A b \in Accounts : acct'[b].auth <= minted'[b]
    BY <1>7, <2>1, <2>3, <2>4 DEF IInv, CredInv
  <2>8. \A u \in Tasks, b \in Accounts : task'[u].snap[b] <= acct'[b].auth
    <3> SUFFICES ASSUME NEW u \in Tasks, NEW b \in Accounts
                 PROVE  task'[u].snap[b] <= acct'[b].auth
      OBVIOUS
    <3>1. task'[u].snap[b] = task[u].snap[b]
      BY <1>6
    <3>2. task[u].snap[b] <= acct[b].auth /\ task[u].snap[b] \in Nat /\ acct[b].auth \in Nat
      BY <2>1, <2>3 DEF IInv, CredInv
    <3>3. acct[b].auth <= acct'[b].auth /\ acct'[b].auth \in Nat
      BY <1>8, <2>4 DEF HealthType
    <3> QED
      BY <3>1, <3>2, <3>3
  <2>9. \A u \in Tasks : task'[u].cur # Anon /\ task'[u].pc \in {"calling", "refreshing"}
                          => task'[u].auth <= acct'[task'[u].cur].auth
    <3> SUFFICES ASSUME NEW u \in Tasks, task'[u].cur # Anon,
                        task'[u].pc \in {"calling", "refreshing"}
                 PROVE  task'[u].auth <= acct'[task'[u].cur].auth
      OBVIOUS
    <3>1. u # t /\ task'[u] = task[u]
      BY <1>6
    <3>2. task[u].cur \in Accounts /\ task[u].auth \in Nat
      BY <2>3, <3>1 DEF Ids
    <3>3. task[u].auth <= acct[task[u].cur].auth
      BY <2>1, <3>1 DEF IInv, CredInv
    <3>4. /\ acct[task[u].cur].auth <= acct'[task[u].cur].auth
          /\ acct[task[u].cur].auth \in Nat /\ acct'[task[u].cur].auth \in Nat
      BY <1>8, <2>3, <2>4, <3>2 DEF HealthType
    <3> QED
      BY <3>1, <3>2, <3>3, <3>4
  <2>10. \A u \in Tasks : task'[u].pc = "refreshed" =>
            /\ task'[u].cur # Anon
            /\ task'[u].auth = minted'[task'[u].cur]
            /\ acct'[task'[u].cur].auth < task'[u].auth
    <3> SUFFICES ASSUME NEW u \in Tasks, task'[u].pc = "refreshed"
                 PROVE  /\ task'[u].cur # Anon
                        /\ task'[u].auth = minted'[task'[u].cur]
                        /\ acct'[task'[u].cur].auth < task'[u].auth
      OBVIOUS
    <3>1. u # t /\ task'[u] = task[u]
      BY <1>6
    <3>2. task[u].cur \in Accounts
      BY <2>1, <2>3, <3>1 DEF IInv, CredInv, Ids
    <3>3. task[u].cur # a
      BY <2>5, <3>1 DEF Holds
    <3> QED
      BY <1>7, <2>1, <2>4, <3>1, <3>2, <3>3 DEF IInv, CredInv
  <2>11. \A v, u \in Tasks, b \in Accounts : Holds(v, b)' /\ Holds(u, b)' => v = u
    BY <2>1, <2>6 DEF IInv, CredInv
  <2>12. \A b \in Accounts : acct'[b].auth = minted'[b] \/ \E u \in Tasks : Holds(u, b)'
    <3> SUFFICES ASSUME NEW b \in Accounts
                 PROVE  acct'[b].auth = minted'[b] \/ \E u \in Tasks : Holds(u, b)'
      OBVIOUS
    <3>1. CASE b = a
      BY <1>7, <2>4, <3>1
    <3>2. CASE b # a
      <4>1. ~Holds(t, b)
        BY <3>2 DEF Holds, a
      <4> QED
        BY <1>7, <2>1, <2>4, <2>6, <3>2, <4>1 DEF IInv, CredInv
    <3> QED
      BY <3>1, <3>2
  <2> QED
    BY <2>1, <2>7, <2>8, <2>9, <2>10, <2>11, <2>12 DEF CredInv
<1> QED
  BY <1>11, <1>12, <1>13 DEF IInv

-----------------------------------------------------------------------------
\* The steps that belong to no chat. Time only ends cooldowns.
LEMMA TickIInv == ASSUME IInv, Tick PROVE IInv'
<1>1. /\ phase' = phase /\ acct' = acct /\ disk' = disk /\ faults' = faults /\ task' = task
      /\ dirty' = dirty /\ minted' = minted /\ streak' = streak /\ parked' = parked
      /\ now \in Nat /\ now' = now + 1 /\ now' \in 0..MaxTime
  BY ParamsAssumption DEF Tick, IInv, TypeOK
<1>2. TypeOK'
  BY <1>1 DEF IInv, TypeOK
<1>3. \A f \in [Accounts -> HealthType] : Consistent(f) => Consistent(f)'
  BY <1>1 DEF Consistent, HealthType, None
<1>4. HealthInv'
  <2>1. acct \in [Accounts -> HealthType] /\ disk.file \in [Accounts -> HealthType]
    BY DEF IInv, TypeOK
  <2>2. Consistent(acct)' /\ Consistent(disk.file)'
    BY <1>1, <1>3, <2>1 DEF IInv, HealthInv, Consistent, HealthType, None
  <2> QED
    BY <1>1, <2>2 DEF IInv, HealthInv, Counted, Stored
<1>5. CredInv'
  BY <1>1 DEF IInv, CredInv, Holds
<1> QED
  BY <1>2, <1>4, <1>5 DEF IInv

LEMMA SetEnabledIInv == ASSUME IInv, NEW a \in Accounts, set_enabled(a) PROVE IInv'
<1>1. /\ now' = now /\ phase' = phase /\ disk' = disk /\ task' = task
      /\ minted' = minted /\ streak' = streak /\ parked' = parked
      /\ dirty' = TRUE /\ faults' = faults + 1 /\ faults < MaxFaults
  BY DEF set_enabled
<1>2. acct \in [Accounts -> HealthType] /\ acct[a] \in HealthType /\ faults \in 0..MaxFaults
  BY DEF IInv, TypeOK
<1>3. acct' = [acct EXCEPT ![a] = [acct[a] EXCEPT !.enabled = ~acct[a].enabled]]
  BY <1>2 DEF set_enabled
<1>4. [acct[a] EXCEPT !.enabled = ~acct[a].enabled] \in HealthType
  BY <1>2 DEF HealthType
<1>5. /\ acct' \in [Accounts -> HealthType]
      /\ \A b \in Accounts : /\ acct'[b].state = acct[b].state /\ acct'[b].fails = acct[b].fails
                             /\ acct'[b].until = acct[b].until
  BY <1>2, <1>3, <1>4 DEF HealthType
<1>6. faults' \in 0..MaxFaults /\ faults' # 0
  BY <1>1, <1>2, ParamsAssumption
<1>7. TypeOK'
  BY <1>1, <1>5, <1>6 DEF IInv, TypeOK
<1>8. HealthInv'
  BY <1>1, <1>5 DEF IInv, HealthInv, Consistent, Counted
<1>9. CredInv'
  BY <1>6 DEF CredInv
<1> QED
  BY <1>7, <1>8, <1>9 DEF IInv

LEMMA CrashIInv == ASSUME IInv, Crash PROVE IInv'
<1>1. /\ now' = now /\ phase' = "down" /\ disk' = disk /\ acct' = acct
      /\ minted' = minted /\ streak' = streak /\ parked' = parked
      /\ dirty' = dirty /\ faults' = faults + 1 /\ faults < MaxFaults
  BY DEF Crash
<1>2. faults' \in 0..MaxFaults /\ faults' # 0
  BY <1>1, ParamsAssumption DEF IInv, TypeOK
<1>3. task' \in [Tasks -> TaskType]
  <2>1. ASSUME NEW t \in Tasks
        PROVE  (IF task[t].pc = "idle" THEN task[t]
                ELSE [task[t] EXCEPT !.pc = IF @ \in Ended THEN @ ELSE "lost"]) \in TaskType
    <3> DEFINE p == IF task[t].pc \in Ended THEN task[t].pc ELSE "lost"
    <3>1. task[t] \in TaskType
      BY DEF IInv, TypeOK
    <3>2. p \in Ended
      BY DEF Ended
    <3>3. [task[t] EXCEPT !.pc = p] \in TaskType
      <4> HIDE DEF p
      <4> QED
        BY <3>1, <3>2 DEF TaskType
    <3> QED
      BY <3>1, <3>3
  <2> QED
    BY <2>1 DEF Crash
<1>4. TypeOK'
  BY <1>1, <1>2, <1>3 DEF IInv, TypeOK
<1>5. HealthInv'
  BY <1>1 DEF IInv, HealthInv, Consistent
<1>6. CredInv'
  BY <1>2 DEF CredInv
<1> QED
  BY <1>4, <1>5, <1>6 DEF IInv

\* The accounts are those of the file again, at start and on reload.
LEMMA FromDiskIInv ==
    ASSUME IInv, phase' = "up", ~disk.torn, acct' = disk.file, dirty' = FALSE,
           streak' = [a \in Accounts |-> disk.file[a].fails],
           parked' = [a \in Accounts |-> IF disk.file[a].until = None THEN 0 ELSE disk.file[a].until],
           UNCHANGED <<now, disk, task, minted, faults>>
    PROVE  IInv'
<1>1. disk \in [torn : BOOLEAN, file : [Accounts -> HealthType]]
      /\ disk.file \in [Accounts -> HealthType] /\ acct \in [Accounts -> HealthType]
  BY DEF IInv, TypeOK
<1>2. streak' \in [Accounts -> Nat] /\ parked' \in [Accounts -> Nat]
  BY <1>1 DEF HealthType
<1>3. TypeOK'
  BY <1>1, <1>2 DEF IInv, TypeOK
<1>4. disk = [torn |-> FALSE, file |-> disk.file]
  BY <1>1
<1>5. HealthInv'
  BY <1>4 DEF IInv, HealthInv, Consistent, Counted, Stored
<1>6. faults = 0 => acct' = acct
  BY DEF IInv, HealthInv, CredInv, Stored
<1>7. CredInv'
  BY <1>6 DEF IInv, CredInv, Holds
<1> QED
  BY <1>3, <1>5, <1>7 DEF IInv

LEMMA LoadIInv == ASSUME IInv, load PROVE IInv'
<1>1. UNCHANGED <<now, disk, task, minted, faults>>
  BY DEF load
<1>2. CASE disk.torn
  <2>1. phase' = "refused" /\ UNCHANGED <<acct, dirty, streak, parked>> /\ phase = "down"
    BY <1>2 DEF load
  <2>2. TypeOK'
    BY <1>1, <2>1 DEF IInv, TypeOK
  <2>3. HealthInv'
    BY <1>1, <2>1 DEF IInv, HealthInv, Consistent
  <2>4. CredInv'
    BY <1>1, <2>1 DEF IInv, CredInv
  <2> QED
    BY <2>2, <2>3, <2>4 DEF IInv
<1>3. CASE ~disk.torn
  BY <1>1, <1>3, FromDiskIInv DEF load
<1> QED
  BY <1>2, <1>3

LEMMA InitIInv == Init => IInv
<1> SUFFICES ASSUME Init PROVE IInv
  OBVIOUS
<1> DEFINE h == [state |-> "healthy", fails |-> 0, until |-> None, auth |-> 0, enabled |-> TRUE]
           k == [pc |-> "idle", left |-> {}, cur |-> Anon, auth |-> 0,
                 err |-> NoError, snap |-> [a \in Accounts |-> 0],
                 tries |-> [a \in Ids |-> 0]]
<1>1. h \in HealthType
  BY DEF HealthType
<1>2. k \in TaskType
  BY DEF TaskType, Ids
<1>3. acct = [a \in Accounts |-> h] /\ task = [t \in Tasks |-> k]
      /\ disk = [torn |-> FALSE, file |-> acct]
  BY DEF Init
<1>4. /\ h.state = "healthy" /\ h.fails = 0 /\ h.until = None /\ h.auth = 0
      /\ k.pc = "idle" /\ \A a \in Accounts : k.snap[a] = 0
  OBVIOUS
<1> HIDE DEF h, k
<1>5. TypeOK
  <2>1. /\ acct \in [Accounts -> HealthType] /\ task \in [Tasks -> TaskType]
        /\ disk \in [torn : BOOLEAN, file : [Accounts -> HealthType]]
    BY <1>1, <1>2, <1>3
  <2>2. /\ minted \in [Accounts -> Nat] /\ streak \in [Accounts -> Nat]
        /\ parked \in [Accounts -> Nat]
    BY DEF Init
  <2>3. now \in 0..MaxTime /\ faults \in 0..MaxFaults
    BY ParamsAssumption DEF Init
  <2>4. phase \in {"up", "down", "refused"} /\ dirty \in BOOLEAN
    BY Zenon DEF Init
  <2> QED
    BY <2>1, <2>2, <2>3, <2>4 DEF TypeOK
<1>6. HealthInv
  BY <1>3, <1>4 DEF Init, HealthInv, Consistent, Counted, Stored, None
<1>7. CredInv
  BY <1>3, <1>4 DEF Init, CredInv, Holds
<1> QED
  BY <1>5, <1>6, <1>7 DEF IInv

LEMMA NextIInv == IInv /\ [Next]_vars => IInv'
<1> SUFFICES ASSUME IInv, [Next]_vars PROVE IInv'
  OBVIOUS
<1>1. CASE Tick
  BY <1>1, TickIInv
<1>2. CASE Crash
  BY <1>2, CrashIInv
<1>3. CASE load
  BY <1>3, LoadIInv
<1>4. CASE reload
  BY <1>4, FromDiskIInv DEF reload
<1>5. CASE \E a \in Accounts : set_enabled(a)
  BY <1>5, SetEnabledIInv
<1>6. CASE UNCHANGED vars
  BY <1>6 DEF vars, IInv, TypeOK, HealthInv, Consistent, Counted, Stored, CredInv, Holds
<1>7. ASSUME NEW t \in Tasks, ChatStep(t) PROVE IInv'
  <2>1. CASE RefreshFail(t)
    <3>1. task[t].pc # "refreshed" /\ phase = "up" /\ task[t].err \in CallErrors \cup {NoError}
      BY <2>1 DEF RefreshFail, At, IInv, TypeOK, TaskType
    <3> QED
      BY <2>1, <3>1, WriteBackIInv DEF RefreshFail
  <2> QED
    BY <1>7, <2>1, SelectIInv, SucceedIInv, RefreshMintIInv, RefreshStoreIInv, FailIInv DEF ChatStep
<1> QED
  BY <1>1, <1>2, <1>3, <1>4, <1>5, <1>6, <1>7 DEF Next, Done

-----------------------------------------------------------------------------
\* However many chats share the manager: no failure is lost from the count
\* (mark_failure, mark_success), the health fields agree, the file is what the
\* manager holds unless a save failed, and concurrent refreshes never lose the
\* newest credential of an account.
THEOREM AccountRotationSafety ==
    Spec => [](/\ TypeOK /\ FailuresCounted /\ HealthConsistent /\ OutcomesPersisted
               /\ NoCredentialLost)
<1>1. IInv => /\ TypeOK /\ FailuresCounted /\ HealthConsistent /\ OutcomesPersisted
              /\ NoCredentialLost
  <2> SUFFICES ASSUME IInv
               PROVE  /\ TypeOK /\ FailuresCounted /\ HealthConsistent /\ OutcomesPersisted
                      /\ NoCredentialLost
    OBVIOUS
  <2>1. TypeOK /\ FailuresCounted /\ HealthConsistent /\ OutcomesPersisted
    BY DEF IInv, HealthInv, Counted, Consistent, Stored, FailuresCounted,
           HealthConsistent, OutcomesPersisted, in_cooldown
  <2>2. NoCredentialLost
    BY DEF IInv, CredInv, Holds, NoCredentialLost
  <2> QED
    BY <2>1, <2>2
<1> QED
  BY <1>1, InitIInv, NextIInv, PTL DEF Spec

\* mark_failure and mark_success: with any number of chats on one account, its
\* failure count is the number of failures since its last success.
THEOREM CountsEveryFailure == Spec => []FailuresCounted
BY AccountRotationSafety, PTL

\* The health, cooldown and failure count of an account always agree,
\* however chats interleave and whatever file the manager is started from.
THEOREM HealthFieldsAgree == Spec => []HealthConsistent
BY AccountRotationSafety, PTL

\* Unless a save has failed, accounts.json holds what the manager holds.
THEOREM FileHoldsOutcomes == Spec => []OutcomesPersisted
BY AccountRotationSafety, PTL

-----------------------------------------------------------------------------
\* One chat on its way down its candidates: those left are untried, an account
\* is called a second time only after a refresh, and what ends in an error that
\* fails over has nobody left.
Allowed(a) == IF Refreshes /\ a # Anon THEN 2 ELSE 1

OnItsWay(q) ==
    /\ q.pc = "idle" => q.left = {} /\ \A a \in Ids : q.tries[a] = 0
    /\ q.cur \notin q.left /\ \A a \in q.left : q.tries[a] = 0
    /\ q.pc \in {"calling", "refreshing", "refreshed"} => q.tries[q.cur] <= 1
    /\ q.pc \in {"refreshing", "refreshed"} => Refreshes
    /\ q.pc = "refreshed" => q.cur # Anon
    /\ \A a \in Ids : q.tries[a] <= Allowed(a)
    /\ q.pc = "failed" /\ Failover(q.err) => q.left = {}

ChatsOnTheirWay == \A t \in Tasks : OnItsWay(task[t])

LEMMA TaskFields ==
    ASSUME TypeOK, NEW t \in Tasks
    PROVE  /\ task[t] \in TaskType /\ task[t].cur \in Ids /\ task[t].left \in SUBSET Accounts
           /\ task[t].tries \in [Ids -> Nat] /\ task[t].snap \in [Accounts -> Nat]
           /\ task[t].err \in CallErrors \cup {NoError} /\ Anon \notin Accounts
BY AccountsAssumption DEF TypeOK, TaskType, Anon

\* A step of one chat that leaves it on its way leaves them all.
LEMMA OneOnItsWay ==
    ASSUME TypeOK, ChatsOnTheirWay, NEW t \in Tasks, NEW x, task' = [task EXCEPT ![t] = x], OnItsWay(x)
    PROVE  ChatsOnTheirWay'
BY DEF TypeOK, ChatsOnTheirWay

\* The next candidate is called for the first time.
LEMMA TryFirstOnItsWay ==
    ASSUME TypeOK, ChatsOnTheirWay, NEW t \in Tasks, NEW cands \in SUBSET Accounts,
           \A a \in cands : task[t].tries[a] = 0, NEW snap \in [Accounts -> Nat],
           TryFirst(t, cands, snap)
    PROVE  ChatsOnTheirWay'
<1>1. PICK a \in Accounts :
        /\ a \in cands
        /\ task' = [task EXCEPT ![t].pc = "calling", ![t].cur = a, ![t].left = cands \ {a},
                                ![t].snap = snap, ![t].auth = snap[a],
                                ![t].tries[a] = @ + 1]
  BY DEF TryFirst, IsFirst
<1>2. task[t].tries \in [Ids -> Nat] /\ a \in Ids /\ OnItsWay(task[t]) /\ Anon \notin Accounts
  BY TaskFields DEF ChatsOnTheirWay, Ids
<1>3. /\ task'[t].pc = "calling" /\ task'[t].cur = a /\ task'[t].left = cands \ {a}
      /\ task'[t].tries = [task[t].tries EXCEPT ![a] = @ + 1]
      /\ \A u \in Tasks : u # t => task'[u] = task[u]
  BY <1>1 DEF TypeOK, TaskType
<1>4. /\ task'[t].tries[a] = 1
      /\ \A b \in Ids : b # a => task'[t].tries[b] = task[t].tries[b]
  <2> DEFINE f == task[t].tries
             g == task'[t].tries
  <2>1. f \in [Ids -> Nat] /\ a \in Ids /\ f[a] = 0
    BY <1>1, <1>2
  <2>2. g = [f EXCEPT ![a] = @ + 1]
    BY <1>3
  <2> HIDE DEF f, g
  <2>3. g[a] = 1 /\ \A b \in Ids : b # a => g[b] = f[b]
    BY <2>1, <2>2
  <2> QED
    BY <2>3 DEF f, g
<1>5. \A b \in Ids : task'[t].tries[b] <= Allowed(b)
  BY <1>2, <1>4 DEF OnItsWay, Allowed
<1>6. \A b \in cands \ {a} : task'[t].tries[b] = 0
  BY <1>4 DEF Ids
<1>7. OnItsWay(task'[t])
  BY <1>3, <1>4, <1>5, <1>6 DEF OnItsWay
<1> QED
  BY <1>3, <1>7 DEF ChatsOnTheirWay

\* A chat goes to another place and keeps the rest, the error perhaps aside.
Moved(q, p, e) == [q EXCEPT !.pc = p, !.err = e]

LEMMA MovedFields ==
    ASSUME NEW q \in TaskType, NEW p, NEW e
    PROVE  LET x == Moved(q, p, e) IN
           /\ x.pc = p /\ x.err = e /\ x.cur = q.cur /\ x.left = q.left /\ x.tries = q.tries
BY DEF TaskType, Moved

LEMMA MovedOnItsWay ==
    ASSUME TypeOK, ChatsOnTheirWay, NEW t \in Tasks, NEW p \in Ended \cup {"refreshing"}, NEW e,
           p = "failed" /\ Failover(e) => task[t].left = {},
           p = "refreshing" => Refreshes /\ task[t].pc = "calling",
           task' = [task EXCEPT ![t] = Moved(task[t], p, e)]
    PROVE  ChatsOnTheirWay'
<1>1. LET x == Moved(task[t], p, e) IN
      x.pc = p /\ x.err = e /\ x.cur = task[t].cur /\ x.left = task[t].left /\ x.tries = task[t].tries
  BY TaskFields, MovedFields
<1>2. OnItsWay(task[t])
  BY DEF ChatsOnTheirWay
<1>3. OnItsWay(Moved(task[t], p, e))
  BY <1>1, <1>2 DEF OnItsWay, Ended
<1> QED
  BY <1>3, OneOnItsWay

LEMMA WriteBackOnItsWay ==
    ASSUME TypeOK, ChatsOnTheirWay, NEW t \in Tasks, NEW e, WriteBack(t, e)
    PROVE  ChatsOnTheirWay'
<1>1. CASE Failover(e) /\ task[t].left # {}
  <2>1. TryFirst(t, task[t].left, task[t].snap)
    BY <1>1 DEF WriteBack
  <2> QED
    BY <2>1, TaskFields, TryFirstOnItsWay DEF ChatsOnTheirWay, OnItsWay
<1>2. CASE ~(Failover(e) /\ task[t].left # {})
  <2>1. task' = [task EXCEPT ![t] = Moved(task[t], "failed", e)]
    BY <1>2 DEF WriteBack, Moved
  <2> QED
    BY <1>2, <2>1, MovedOnItsWay DEF Ended
<1> QED
  BY <1>1, <1>2

LEMMA SelectOnItsWay ==
    ASSUME TypeOK, ChatsOnTheirWay, NEW t \in Tasks, Select(t)
    PROVE  ChatsOnTheirWay'
<1>1. task[t].pc = "idle" /\ OnItsWay(task[t])
  BY DEF Select, At, ChatsOnTheirWay
<1>2. CASE accounts_for # {} /\ TryFirst(t, accounts_for, [a \in Accounts |-> acct[a].auth])
  <2>1. accounts_for \in SUBSET Accounts /\ [a \in Accounts |-> acct[a].auth] \in [Accounts -> Nat]
    BY DEF accounts_for, TypeOK, HealthType
  <2>2. \A a \in accounts_for : task[t].tries[a] = 0
    BY <1>1, <2>1 DEF OnItsWay, Ids
  <2> QED
    BY <1>2, <2>1, <2>2, TryFirstOnItsWay
<1>3. CASE task' = [task EXCEPT ![t].pc = "calling", ![t].cur = Anon, ![t].tries[Anon] = @ + 1]
  <2>1. /\ task'[t].pc = "calling" /\ task'[t].cur = Anon /\ task'[t].left = task[t].left
        /\ task'[t].tries = [task[t].tries EXCEPT ![Anon] = @ + 1]
        /\ \A u \in Tasks : u # t => task'[u] = task[u]
    BY <1>3 DEF TypeOK, TaskType
  <2>2. \A a \in Ids : task'[t].tries[a] = IF a = Anon THEN 1 ELSE 0
    BY <1>1, <2>1, TaskFields DEF OnItsWay, Ids
  <2>3. OnItsWay(task'[t])
    BY <1>1, <2>1, <2>2, TaskFields DEF OnItsWay, Ids, Allowed
  <2> QED
    BY <2>1, <2>3 DEF ChatsOnTheirWay
<1>4. CASE task' = [task EXCEPT ![t].pc = "no_accounts"]
  <2>1. Moved(task[t], "no_accounts", task[t].err) = [task[t] EXCEPT !.pc = "no_accounts"]
    BY TaskFields DEF Moved, TaskType
  <2> QED
    BY <1>4, <2>1, MovedOnItsWay DEF Ended
<1> QED
  BY <1>2, <1>3, <1>4 DEF Select

\* What is left of the other steps of a chat.
LEMMA ChatStepOnItsWay ==
    ASSUME TypeOK, ChatsOnTheirWay, NEW t \in Tasks, ChatStep(t)
    PROVE  ChatsOnTheirWay'
<1>1. task[t] \in TaskType /\ OnItsWay(task[t])
  BY TaskFields DEF ChatsOnTheirWay
<1>2. CASE Succeed(t)
  <2>1. Moved(task[t], "answered", task[t].err) = [task[t] EXCEPT !.pc = "answered"]
    BY <1>1 DEF Moved, TaskType
  <2> QED
    BY <1>2, <2>1, MovedOnItsWay DEF Ended, Succeed
<1>3. CASE RefreshFail(t)
  BY <1>3, WriteBackOnItsWay DEF RefreshFail
<1>4. ASSUME NEW e \in CallErrors, Fail(t, e) PROVE ChatsOnTheirWay'
  <2>1. CASE /\ At(t, "calling") /\ WantsRefresh(e)
             /\ task' = [task EXCEPT ![t].pc = "refreshing", ![t].err = e]
    <3>1. task' = [task EXCEPT ![t] = Moved(task[t], "refreshing", e)]
      BY <2>1 DEF Moved
    <3>2. Refreshes /\ task[t].pc = "calling"
      BY <2>1, Zenon DEF At, WantsRefresh
    <3>3. "refreshing" \in Ended \cup {"refreshing"} /\ "refreshing" # "failed"
      OBVIOUS
    <3> QED
      BY <3>1, <3>2, <3>3, MovedOnItsWay
  <2> QED
    BY <1>4, <2>1, WriteBackOnItsWay DEF Fail
<1>5. CASE RefreshMint(t)
  <2>1. /\ task'[t].pc = "refreshed" /\ task'[t].cur = task[t].cur /\ task'[t].left = task[t].left
        /\ task'[t].tries = task[t].tries /\ \A u \in Tasks : u # t => task'[u] = task[u]
    BY <1>5 DEF RefreshMint, TypeOK, TaskType
  <2>2. OnItsWay(task'[t])
    BY <1>1, <1>5, <2>1 DEF OnItsWay, RefreshMint, At
  <2> QED
    BY <2>1, <2>2 DEF ChatsOnTheirWay
<1>6. CASE RefreshStore(t)
  <2> DEFINE c == task[t].cur
  <2>1. /\ task'[t].pc = "retrying" /\ task'[t].cur = c /\ task'[t].left = task[t].left
        /\ task'[t].tries = [task[t].tries EXCEPT ![c] = @ + 1]
        /\ \A u \in Tasks : u # t => task'[u] = task[u]
    BY <1>6 DEF RefreshStore, TypeOK, TaskType
  <2>2. /\ task[t].tries \in [Ids -> Nat] /\ c \in Ids /\ c # Anon /\ Refreshes
        /\ task[t].tries[c] <= 1 /\ c \notin task[t].left /\ task[t].left \subseteq Ids
    BY <1>1, <1>6, TaskFields DEF OnItsWay, RefreshStore, At, Ids
  <2>3. /\ task'[t].tries[c] <= 2
        /\ \A a \in Ids : a # c => task'[t].tries[a] = task[t].tries[a]
    BY <2>1, <2>2
  <2>4. OnItsWay(task'[t])
    BY <1>1, <2>1, <2>2, <2>3 DEF OnItsWay, Allowed
  <2> QED
    BY <2>1, <2>4 DEF ChatsOnTheirWay
<1> QED
  BY <1>2, <1>3, <1>4, <1>5, <1>6, SelectOnItsWay DEF ChatStep

LEMMA CrashOnItsWay == ASSUME TypeOK, ChatsOnTheirWay, Crash PROVE ChatsOnTheirWay'
<1> SUFFICES ASSUME NEW t \in Tasks PROVE OnItsWay(task'[t])
  BY DEF ChatsOnTheirWay
<1>1. task[t] \in TaskType /\ OnItsWay(task[t])
  BY TaskFields DEF ChatsOnTheirWay
<1>2. task'[t] = task[t] \/ task'[t] = Moved(task[t], "lost", task[t].err)
  BY <1>1 DEF Crash, Ended, Moved, TaskType
<1>3. OnItsWay(Moved(task[t], "lost", task[t].err))
  BY <1>1, MovedFields DEF OnItsWay
<1> QED
  BY <1>1, <1>2, <1>3

LEMMA NextOnItsWay == IInv /\ ChatsOnTheirWay /\ [Next]_vars => ChatsOnTheirWay'
<1> SUFFICES ASSUME IInv, ChatsOnTheirWay, [Next]_vars PROVE ChatsOnTheirWay'
  OBVIOUS
<1>1. TypeOK
  BY DEF IInv
<1>2. CASE task' = task
  BY <1>2 DEF ChatsOnTheirWay
<1> QED
  BY <1>1, <1>2, CrashOnItsWay, ChatStepOnItsWay
     DEF Next, Tick, load, reload, set_enabled, Done, vars

LEMMA InitOnItsWay == Init => ChatsOnTheirWay
BY AccountsAssumption DEF Init, ChatsOnTheirWay, OnItsWay, Allowed, Anon, Ids

\* chat_with_manager returns an error another account might not have only when
\* every candidate of its snapshot has been called.
THEOREM GivesUpLast == Spec => []NoEarlyGiveUp
<1>1. IInv /\ ChatsOnTheirWay => NoEarlyGiveUp
  <2> SUFFICES ASSUME IInv, ChatsOnTheirWay, NEW t \in Tasks, task[t].pc = "failed",
                      task[t].err.tag = "Network" \/ task[t].err.kind \in {"RateLimit", "Server"}
               PROVE  task[t].left = {}
    BY DEF NoEarlyGiveUp
  <2>1. task[t].err \in CallErrors \cup {NoError}
    BY TaskFields DEF IInv
  <2>2. should_failover(task[t].err)
    BY <2>1, UpstreamAssumption
       DEF CallErrors, NoError, NetworkError, ValidationError, Plain, ProviderErrorType, should_failover
  <2> QED
    BY <2>2 DEF ChatsOnTheirWay, OnItsWay, Failover
<1> QED
  BY <1>1, InitIInv, NextIInv, InitOnItsWay, NextOnItsWay, PTL DEF Spec

\* chat_with_manager calls a candidate once, and once more only after its
\* credential was refreshed; the anonymous account, which has none, only once.
THEOREM TriesAreBounded == Spec => []TriesBounded
<1>1. ChatsOnTheirWay => TriesBounded
  BY DEF ChatsOnTheirWay, OnItsWay, Allowed, TriesBounded
<1> QED
  BY <1>1, InitIInv, NextIInv, InitOnItsWay, NextOnItsWay, PTL DEF Spec
=============================================================================
