---------------------------- MODULE BalancerProofs ----------------------------
(***************************************************************************)
(* What the load balancer guarantees for every pool of accounts, every     *)
(* number of requests, every setting of the cooldowns, and any history of  *)
(* failures, edits, disconnects and restarts.                              *)
(***************************************************************************)
EXTENDS Balancer, FiniteSetTheorems, WellFoundedInduction, TLAPS

OnLease(q) == q.pc \in {"calling", "streaming"}
Holding(q) == q.pc \in {"head", "calling", "streaming", "tail"}

\* Where a request stands on its way down the candidates: none is taken before
\* they are selected, a lease is on an account, the first token is passed on
\* once, and what failed has sent something or has nobody left.
OnItsWay(q) ==
    /\ q.pc \in {"idle", "head"} => q.left = {} /\ ~q.started /\ ~q.ok
    /\ q.pc = "calling" => ~q.started
    /\ q.pc = "streaming" => q.started
    /\ OnLease(q) => q.cur \in Accts
    /\ q.pc = "failed" \/ (q.pc = "tail" /\ ~q.ok) => q.started \/ q.left = {}

RequestsOnTheirWay == \A r \in Reqs : OnItsWay(req[r])

IInv == TypeOK /\ RequestsOnTheirWay /\ InflightAccounted /\ ConcAccounted /\ HealthConsistent

-----------------------------------------------------------------------------
\* Numbers.

\* A set of numbers has a least one.
LEMMA LeastNumber == ASSUME NEW T \in SUBSET Nat, T # {} PROVE \E m \in T : \A n \in T : m <= n
<1> DEFINE R == {ss \in Nat \X Nat : ss[1] < ss[2]}
<1>1. IsWellFoundedOn(R, Nat)
  BY NatLessThanWellFounded DEF OpToRel
<1>2. \E x \in T : \A y \in T : ~(<<y, x>> \in R)
  <2> HIDE DEF R
  <2> QED
    BY <1>1, WFMin
<1>3. PICK x \in T : \A y \in T : ~(<<y, x>> \in R)
  BY <1>2
<1>4. \A y \in T : ~(y < x)
  BY <1>3
<1> QED
  BY <1>4

\* A power of two is the size of a powerset.
LEMMA PowerIsNat == \A n \in Nat : 2^n \in Nat
<1> SUFFICES ASSUME NEW n \in Nat PROVE 2^n \in Nat
  OBVIOUS
<1>1. IsFiniteSet(1..n) /\ Cardinality(1..n) = n
  BY FS_Interval
<1> QED
  BY <1>1, FS_SUBSET, FS_CardinalityType

\* The cooldown of a failure is a number and never above the cap.
LEMMA BackoffIsCapped == \A n \in Nat : Backoff(n + 1) \in Nat /\ Backoff(n + 1) <= MaxCooldown
<1> SUFFICES ASSUME NEW n \in Nat PROVE Backoff(n + 1) \in Nat /\ Backoff(n + 1) <= MaxCooldown
  OBVIOUS
<1>1. 2^((n + 1) - 1) \in Nat
  BY PowerIsNat
<1>2. BaseCooldown * 2^((n + 1) - 1) \in Nat
  BY <1>1, TunablesAssumption
<1> QED
  BY <1>2, TunablesAssumption DEF Backoff

-----------------------------------------------------------------------------
\* Health.

\* What HealthConsistent says of one account, at a given time.
Sound(h, t) == /\ h.fails = 0 => h.until = 0
               /\ h.fails # 0 => h.until = h.last_fail + Backoff(h.fails)
               /\ h.until <= t + MaxCooldown

LEMMA FreshIsSound == \A t \in Nat : Fresh \in HealthType /\ Sound(Fresh, t)
BY TunablesAssumption DEF Fresh, HealthType, Sound

LEMMA ForgetIsSound ==
    ASSUME NEW h \in HealthType, now \in Nat, Sound(h, now)
    PROVE  Forget(h) \in HealthType /\ Sound(Forget(h), now)
BY FreshIsSound DEF Forget

LEMMA MarksAreSound ==
    ASSUME NEW h \in HealthType, now \in Nat
    PROVE  /\ mark_success(h) \in HealthType /\ Sound(mark_success(h), now)
           /\ mark_failure(h) \in HealthType /\ Sound(mark_failure(h), now)
<1>1. h.fails + 1 \in Nat /\ h.fails + 1 # 0 /\ now + Backoff(h.fails + 1) \in Nat
      /\ Backoff(h.fails + 1) <= MaxCooldown
  BY BackoffIsCapped DEF HealthType
<1>2. mark_failure(h) \in HealthType
  BY <1>1 DEF mark_failure, HealthType
<1>3. /\ mark_failure(h).fails = h.fails + 1 /\ mark_failure(h).last_fail = now
      /\ mark_failure(h).until = now + Backoff(h.fails + 1)
  BY DEF mark_failure
<1>4. Sound(mark_failure(h), now)
  <2>1. Backoff(mark_failure(h).fails) = Backoff(h.fails + 1)
    BY <1>3, Zenon
  <2>2. mark_failure(h).until = mark_failure(h).last_fail + Backoff(mark_failure(h).fails)
    BY <2>1, <1>3, Zenon
  <2>3. mark_failure(h).fails # 0 /\ mark_failure(h).until <= now + MaxCooldown
    BY <1>1, <1>3, BackoffIsCapped, TunablesAssumption DEF HealthType
  <2> QED
    BY <2>2, <2>3, Zenon DEF Sound
<1>5. \A f, u \in Nat : LET x == [h EXCEPT !.fails = f, !.until = u]
                        IN  x \in HealthType /\ x.fails = f /\ x.until = u
  BY DEF HealthType
<1>6. mark_success(h) \in HealthType /\ mark_success(h).fails = 0 /\ mark_success(h).until = 0
  BY <1>5 DEF mark_success
<1>7. Sound(mark_success(h), now)
  BY <1>6, TunablesAssumption DEF Sound
<1> QED
  BY <1>2, <1>4, <1>6, <1>7

-----------------------------------------------------------------------------
\* Counting.

LEMMA CountsAreNat ==
    /\ \A a : IsFiniteSet(Leases(a)) /\ Cardinality(Leases(a)) \in Nat
    /\ IsFiniteSet(Holders) /\ Cardinality(Holders) \in Nat
<1>1. /\ \A a : Leases(a) \in SUBSET Reqs
      /\ Holders \in SUBSET Reqs
  BY DEF Leases, Holders
<1> QED
  BY <1>1, PoolsAssumption, FS_Subset, FS_CardinalityType

One(holds) == IF holds THEN 1 ELSE 0

\* Of a finite set, one element may leave and come back.
LEMMA CountsOneElement ==
    ASSUME NEW S, IsFiniteSet(S), NEW T, NEW x, T \subseteq S \cup {x}, S \ {x} \subseteq T
    PROVE  Cardinality(T) = Cardinality(S) - One(x \in S) + One(x \in T)
<1>1. IsFiniteSet(S \ {x}) /\ Cardinality(S \ {x}) = Cardinality(S) - One(x \in S)
      /\ Cardinality(S) \in Nat
  BY FS_RemoveElement, FS_CardinalityType DEF One
<1>2. CASE x \in T
  <2>1. T = (S \ {x}) \cup {x}
    BY <1>2
  <2> QED
    BY <2>1, <1>1, <1>2, FS_AddElement DEF One
<1>3. CASE x \notin T
  <2>1. T = S \ {x}
    BY <1>3
  <2> QED
    BY <2>1, <1>1, <1>3 DEF One
<1> QED
  BY <1>2, <1>3

\* A step of one request moves only that request between the counts.
LEMMA CountsOneRequest ==
    ASSUME TypeOK, NEW r \in Reqs, NEW q, req' = [req EXCEPT ![r] = q]
    PROVE  /\ \A a : Cardinality(Leases(a))' =
                        Cardinality(Leases(a)) - One(OnLease(req[r]) /\ req[r].cur = a)
                                               + One(OnLease(q) /\ q.cur = a)
           /\ Cardinality(Holders)' = Cardinality(Holders) - One(Holding(req[r])) + One(Holding(q))
<1>1. req'[r] = q /\ \A s \in Reqs \ {r} : req'[s] = req[s]
  BY DEF TypeOK
<1>2. ASSUME NEW a
      PROVE  Cardinality(Leases(a)') = Cardinality(Leases(a)) - One(OnLease(req[r]) /\ req[r].cur = a)
                                               + One(OnLease(q) /\ q.cur = a)
  <2>1. Leases(a)' \subseteq Leases(a) \cup {r} /\ Leases(a) \ {r} \subseteq Leases(a)'
    BY <1>1 DEF Leases, Live
  <2>2. /\ r \in Leases(a) <=> OnLease(req[r]) /\ req[r].cur = a
        /\ r \in Leases(a)' <=> OnLease(q) /\ q.cur = a
    BY <1>1 DEF Leases, Live, OnLease
  <2>3. Cardinality(Leases(a)') = Cardinality(Leases(a)) - One(r \in Leases(a)) + One(r \in Leases(a)')
    BY <2>1, CountsAreNat, CountsOneElement
  <2> QED
    BY <2>2, <2>3 DEF One
<1>3. Cardinality(Holders') = Cardinality(Holders) - One(Holding(req[r])) + One(Holding(q))
  <2>1. Holders' \subseteq Holders \cup {r} /\ Holders \ {r} \subseteq Holders'
    BY <1>1 DEF Holders
  <2>2. (r \in Holders <=> Holding(req[r])) /\ (r \in Holders' <=> Holding(q))
    BY <1>1 DEF Holders, Holding
  <2>3. Cardinality(Holders') = Cardinality(Holders) - One(r \in Holders) + One(r \in Holders')
    BY <2>1, CountsAreNat, CountsOneElement
  <2> QED
    BY <2>2, <2>3 DEF One
<1> QED
  BY <1>2, <1>3

\* A request on a lease is counted, so that releasing it takes one off.
LEMMA LeaseIsCounted ==
    ASSUME IInv, NEW r \in Reqs
    PROVE  /\ OnLease(req[r]) => inflight[req[r].cur] >= 1
           /\ Holding(req[r]) => conc >= 1
<1>1. ASSUME OnLease(req[r]) PROVE inflight[req[r].cur] >= 1
  <2>1. req[r].cur \in Accts /\ r \in Leases(req[r].cur)
    BY <1>1 DEF IInv, RequestsOnTheirWay, OnItsWay, OnLease, Leases, Live
  <2>2. Cardinality(Leases(req[r].cur)) # 0
    BY <2>1, CountsAreNat, FS_EmptySet
  <2> QED
    BY <2>1, <2>2, CountsAreNat DEF IInv, TypeOK, InflightAccounted
<1>2. ASSUME Holding(req[r]) PROVE conc >= 1
  <2>1. r \in Holders
    BY <1>2 DEF Holding, Holders
  <2>2. Cardinality(Holders) # 0
    BY <2>1, CountsAreNat, FS_EmptySet
  <2> QED
    BY <2>2, CountsAreNat DEF IInv, TypeOK, ConcAccounted
<1> QED
  BY <1>1, <1>2

\* A step of one request keeps the gauges exact when it moves them by as much
\* as it moves the request.
LEMMA GaugesFollow ==
    ASSUME IInv, NEW r \in Reqs, NEW q, req' = [req EXCEPT ![r] = q],
           inflight' \in [Accts -> Nat], abandoned' \in [Accts -> Nat],
           conc' \in Nat, leaked' \in Nat,
           \A a \in Accts : inflight'[a] - abandoned'[a] =
                inflight[a] - abandoned[a] - One(OnLease(req[r]) /\ req[r].cur = a)
                                           + One(OnLease(q) /\ q.cur = a),
           conc' - leaked' = conc - leaked - One(Holding(req[r])) + One(Holding(q))
    PROVE  InflightAccounted' /\ ConcAccounted'
<1>1. /\ \A a : Cardinality(Leases(a))' =
                        Cardinality(Leases(a)) - One(OnLease(req[r]) /\ req[r].cur = a)
                                               + One(OnLease(q) /\ q.cur = a)
      /\ Cardinality(Holders)' = Cardinality(Holders) - One(Holding(req[r])) + One(Holding(q))
  BY CountsOneRequest DEF IInv
<1>2. /\ inflight \in [Accts -> Nat] /\ abandoned \in [Accts -> Nat] /\ conc \in Nat /\ leaked \in Nat
      /\ conc = Cardinality(Holders) + leaked
      /\ \A a \in Accts : inflight[a] = Cardinality(Leases(a)) + abandoned[a]
  BY DEF IInv, TypeOK, InflightAccounted, ConcAccounted
<1>3. \A h \in BOOLEAN : One(h) \in Nat
  BY DEF One
<1>4. ASSUME NEW a \in Accts PROVE inflight'[a] = Cardinality(Leases(a))' + abandoned'[a]
  <2>1. Cardinality(Leases(a))' = Cardinality(Leases(a)) - One(OnLease(req[r]) /\ req[r].cur = a)
                                               + One(OnLease(q) /\ q.cur = a)
    BY <1>1
  <2>2. inflight'[a] - abandoned'[a] =
                inflight[a] - abandoned[a] - One(OnLease(req[r]) /\ req[r].cur = a)
                                           + One(OnLease(q) /\ q.cur = a)
    OBVIOUS
  <2>3. inflight[a] = Cardinality(Leases(a)) + abandoned[a] /\ Cardinality(Leases(a)) \in Nat
        /\ abandoned[a] \in Nat /\ inflight'[a] \in Nat /\ abandoned'[a] \in Nat
    BY <1>2, CountsAreNat
  <2>4. One(OnLease(req[r]) /\ req[r].cur = a) \in Nat /\ One(OnLease(q) /\ q.cur = a) \in Nat
    BY DEF One
  <2> QED
    BY <2>1, <2>2, <2>3, <2>4
<1>5. conc' = Cardinality(Holders)' + leaked'
  <2>1. One(Holding(req[r])) \in Nat /\ One(Holding(q)) \in Nat
    BY DEF One
  <2> QED
    BY <2>1, <1>1, <1>2, CountsAreNat
<1> QED
  BY <1>4, <1>5 DEF InflightAccounted, ConcAccounted

\* .. and one that neither takes nor returns a lease leaves the accounts' alone.
LEMMA GaugesKept ==
    ASSUME IInv, NEW r \in Reqs, NEW q, req' = [req EXCEPT ![r] = q],
           ~OnLease(req[r]), ~OnLease(q), inflight' = inflight, abandoned' = abandoned,
           leaked' = leaked, conc' \in Nat, conc' = conc - One(Holding(req[r])) + One(Holding(q))
    PROVE  InflightAccounted' /\ ConcAccounted'
<1>1. /\ inflight \in [Accts -> Nat] /\ abandoned \in [Accts -> Nat]
      /\ conc \in Nat /\ leaked \in Nat
  BY DEF IInv, TypeOK
<1>2. \A a \in Accts : inflight'[a] - abandoned'[a] =
                inflight[a] - abandoned[a] - One(OnLease(req[r]) /\ req[r].cur = a)
                                           + One(OnLease(q) /\ q.cur = a)
  BY <1>1 DEF One
<1>3. One(Holding(req[r])) \in {0, 1} /\ One(Holding(q)) \in {0, 1}
  BY DEF One
<1>4. conc' - leaked' = conc - leaked - One(Holding(req[r])) + One(Holding(q))
  BY <1>1, <1>3
<1> QED
  BY <1>1, <1>2, <1>4, GaugesFollow

-----------------------------------------------------------------------------
\* The records of requests.

Stands == {"idle", "head", "calling", "streaming", "tail"} \cup Ended

LEMMA IdleRequest == Idle \in ReqType /\ OnItsWay(Idle) /\ ~OnLease(Idle) /\ ~Holding(Idle)
<1>1. [a \in Accts |-> 0] \in [Accts -> Nat]
  OBVIOUS
<1> QED
  BY <1>1 DEF Idle, ReqType, OnItsWay, OnLease, Holding, NoAcct

\* The ways a request's record changes besides a new lease.
Moved(q, p) == [q EXCEPT !.pc = p]
Begun(q, p, k) == [q EXCEPT !.pc = p, !.kind = k]
Passed(q, p, b) == [q EXCEPT !.pc = p, !.started = b]
Finished(q, b, p) == [q EXCEPT !.ok = b, !.pc = p]

LEMMA MovedFields ==
    ASSUME NEW q \in ReqType, NEW p \in Stands
    PROVE  LET x == Moved(q, p) IN
                /\ x \in ReqType /\ x.pc = p /\ x.left = q.left
                /\ x.started = q.started /\ x.ok = q.ok /\ x.cur = q.cur
BY DEF ReqType, Stands, Moved

LEMMA BegunFields ==
    ASSUME NEW q \in ReqType, NEW p \in Stands, NEW k \in {"plain", "stream"}
    PROVE  LET x == Begun(q, p, k) IN
                /\ x \in ReqType /\ x.pc = p /\ x.left = q.left
                /\ x.started = q.started /\ x.ok = q.ok /\ x.cur = q.cur
BY DEF ReqType, Stands, Begun

LEMMA PassedFields ==
    ASSUME NEW q \in ReqType, NEW p \in Stands, NEW b \in BOOLEAN
    PROVE  LET x == Passed(q, p, b) IN
                /\ x \in ReqType /\ x.pc = p /\ x.left = q.left
                /\ x.started = b /\ x.ok = q.ok /\ x.cur = q.cur
BY DEF ReqType, Stands, Passed

LEMMA FinishedFields ==
    ASSUME NEW q \in ReqType, NEW p \in Stands, NEW b \in BOOLEAN
    PROVE  LET x == Finished(q, b, p) IN
                /\ x \in ReqType /\ x.pc = p /\ x.left = q.left
                /\ x.started = q.started /\ x.ok = b /\ x.cur = q.cur
BY DEF ReqType, Stands, Finished

LEMMA RequestStep ==
    ASSUME IInv, NEW r \in Reqs, NEW q \in ReqType, OnItsWay(q), req' = [req EXCEPT ![r] = q]
    PROVE  req' \in [Reqs -> ReqType] /\ RequestsOnTheirWay'
BY DEF IInv, TypeOK, RequestsOnTheirWay

-----------------------------------------------------------------------------
\* The candidates.

\* A walk that has somebody left asks one of them, the one of the least rank.
LEMMA FirstIsLeast ==
    ASSUME NEW S \in SUBSET Accts, S # {}, NEW rank \in [Accts -> Nat]
    PROVE  First(S, rank) \in S /\ \A b \in S : rank[First(S, rank)] <= rank[b]
<1> DEFINE T == {rank[a] : a \in S}
<1>1. T \in SUBSET Nat /\ T # {}
  OBVIOUS
<1>2. PICK m \in T : \A n \in T : m <= n
  BY <1>1, LeastNumber
<1>3. \E a \in S : \A b \in S : rank[a] <= rank[b]
  BY <1>2
<1> QED
  BY <1>3 DEF First

LEMMA LeasedRequest ==
    ASSUME NEW q \in ReqType, NEW left \in SUBSET Accts, left # {}, ~q.started
    PROVE  LET l == Leased(q, left) IN
           /\ l \in ReqType /\ OnItsWay(l) /\ OnLease(l) /\ Holding(l)
           /\ l.pc = "calling" /\ l.started = q.started /\ l.cands = q.cands
           /\ l.cur = First(left, q.rank) /\ l.cur \in left
<1>1. q.rank \in [Accts -> Nat]
  BY DEF ReqType
<1>2. First(left, q.rank) \in left
  BY <1>1, FirstIsLeast
<1>3. \A c \in Accts, rest \in SUBSET Accts :
          LET x == [q EXCEPT !.pc = "calling", !.cur = c, !.left = rest]
          IN  /\ x \in ReqType /\ x.pc = "calling" /\ x.started = q.started
              /\ x.cands = q.cands /\ x.cur = c
  BY DEF ReqType
<1>4. First(left, q.rank) \in Accts /\ left \ {First(left, q.rank)} \in SUBSET Accts
  BY <1>2
<1> DEFINE l == Leased(q, left)
<1>5. /\ l \in ReqType /\ l.pc = "calling" /\ l.started = q.started
      /\ l.cands = q.cands /\ l.cur = First(left, q.rank)
  BY <1>3, <1>4 DEF Leased
<1>6. OnItsWay(l) /\ OnLease(l) /\ Holding(l)
  <2> HIDE DEF l
  <2> QED
    BY <1>4, <1>5 DEF OnItsWay, OnLease, Holding
<1> QED
  BY <1>2, <1>5, <1>6

\* The health select_candidates leaves, and the ranks it sorts by.
Cleaned == [a \in Accts |-> IF a \in _accounts_for THEN Forget(health[a]) ELSE health[a]]
Ranks == [a \in Accts |-> Cardinality({b \in _accounts_for : Before(b, a, Cleaned)})]

LEMMA PoolOfAccounts == TypeOK => _accounts_for \in SUBSET Accts
BY PoolsAssumption DEF TypeOK, _accounts_for

LEMMA RanksAreNat == TypeOK => Ranks \in [Accts -> Nat]
<1> SUFFICES ASSUME TypeOK, NEW a \in Accts
             PROVE  Cardinality({b \in _accounts_for : Before(b, a, Cleaned)}) \in Nat
  BY DEF Ranks
<1>1. {b \in _accounts_for : Before(b, a, Cleaned)} \in SUBSET Accts
  BY PoolOfAccounts
<1> QED
  BY <1>1, PoolsAssumption, FS_Subset, FS_CardinalityType

LEMMA CleanedIsSound ==
    IInv => /\ Cleaned \in [Accts -> HealthType]
            /\ \A a \in Accts : Sound(Cleaned[a], now)
<1> SUFFICES ASSUME IInv, NEW a \in Accts
             PROVE  Cleaned[a] \in HealthType /\ Sound(Cleaned[a], now)
  BY DEF Cleaned
<1>1. health[a] \in HealthType /\ now \in Nat
  BY TunablesAssumption DEF IInv, TypeOK
<1>2. Sound(health[a], now)
  BY DEF IInv, HealthConsistent, Sound
<1>3. Cleaned[a] = IF a \in _accounts_for THEN Forget(health[a]) ELSE health[a]
  BY DEF Cleaned
<1> QED
  BY <1>1, <1>2, <1>3, ForgetIsSound

LEMMA SelectedRequest ==
    ASSUME TypeOK, NEW q \in ReqType
    PROVE  /\ Selected(q) \in ReqType /\ Selected(q).started = q.started
           /\ Selected(q).rank = Ranks /\ Selected(q).cands = _accounts_for
<1> DEFINE X(c, l, k, v) == [q EXCEPT !.cands = c, !.left = l, !.rank = k, !.creds = v]
<1>1. ASSUME NEW c \in SUBSET Accts, NEW l \in SUBSET Accts,
             NEW k \in [Accts -> Nat], NEW v \in [Accts -> Nat]
      PROVE  /\ X(c, l, k, v) \in ReqType /\ X(c, l, k, v).started = q.started
             /\ X(c, l, k, v).rank = k /\ X(c, l, k, v).cands = c
  BY DEF ReqType
<1>2. cred \in [Accts -> Nat] /\ _accounts_for \in SUBSET Accts /\ Ranks \in [Accts -> Nat]
  BY PoolOfAccounts, RanksAreNat DEF TypeOK
<1>3. Selected(q) = X(_accounts_for, _accounts_for, Ranks, cred)
  BY DEF Selected, Ranks, Cleaned
<1> HIDE DEF X
<1> QED
  BY <1>1, <1>2, <1>3

\* What Select does, in terms of the record it leaves: health is cleaned; the
\* request is on the lease of the first account, or, with none, at `none`.
LEMMA SelectStep ==
    ASSUME IInv, NEW r \in Reqs, NEW q \in ReqType, ~q.started, NEW none \in Stands,
           Select(r, q, none)
    PROVE  /\ health' = Cleaned
           /\ \/ /\ _accounts_for = {} /\ req' = [req EXCEPT ![r] = [q EXCEPT !.pc = none]]
                 /\ inflight' = inflight /\ client' = client
              \/ \E l \in ReqType :
                    /\ _accounts_for # {} /\ req' = [req EXCEPT ![r] = l]
                    /\ OnItsWay(l) /\ OnLease(l) /\ Holding(l) /\ l.pc = "calling" /\ ~l.started
                    /\ l.cands = _accounts_for /\ l.cur \in _accounts_for
                    /\ l.cur = First(_accounts_for, Ranks)
                    /\ inflight' = [inflight EXCEPT ![l.cur] = @ + 1]
                    /\ client' \in [Accts -> Nat]
<1>1. health' = Cleaned
  BY DEF Select, Cleaned
<1>2. CASE _accounts_for = {}
  BY <1>1, <1>2 DEF Select
<1>3. CASE _accounts_for # {}
  <2> DEFINE l == Leased(Selected(q), _accounts_for)
  <2>1. /\ req' = [req EXCEPT ![r] = l] /\ inflight' = [inflight EXCEPT ![l.cur] = @ + 1]
        /\ client' = [client EXCEPT ![l.cur] = IF @ = NoClient THEN cred[l.cur] ELSE @]
    BY <1>3 DEF Select, _client_for
  <2>2. Selected(q) \in ReqType /\ ~Selected(q).started /\ Selected(q).rank = Ranks
        /\ Selected(q).cands = _accounts_for
    BY SelectedRequest DEF IInv
  <2>3. _accounts_for \in SUBSET Accts
    BY PoolOfAccounts DEF IInv
  <2>4. /\ l \in ReqType /\ OnItsWay(l) /\ OnLease(l) /\ Holding(l)
        /\ l.pc = "calling" /\ ~l.started /\ l.cands = _accounts_for
        /\ l.cur = First(_accounts_for, Ranks) /\ l.cur \in _accounts_for
    BY <1>3, <2>2, <2>3, LeasedRequest
  <2>5. client' \in [Accts -> Nat]
    <3> HIDE DEF l
    <3> QED
      BY <2>1, <2>3, <2>4 DEF IInv, TypeOK
  <2> HIDE DEF l
  <2> QED
    BY <1>1, <1>3, <2>1, <2>4, <2>5
<1> QED
  BY <1>2, <1>3

-----------------------------------------------------------------------------
\* The steps.

LEMMA InitIInv == Init => IInv
<1> SUFFICES ASSUME Init PROVE IInv
  OBVIOUS
<1> USE DEF Init
<1>1. TypeOK
  <2>1. now \in 0..MaxTime /\ edits \in 0..MaxEdits /\ drops \in 0..MaxDrops
    BY TunablesAssumption
  <2>2. health \in [Accts -> HealthType] /\ req \in [Reqs -> ReqType]
    BY FreshIsSound, IdleRequest
  <2> QED
    BY <2>1, <2>2 DEF TypeOK, NoClient
<1>2. RequestsOnTheirWay
  BY IdleRequest DEF RequestsOnTheirWay
<1>3. InflightAccounted /\ ConcAccounted
  <2>1. \A r \in Reqs : ~OnLease(req[r]) /\ ~Holding(req[r])
    BY IdleRequest
  <2>2. Holders = {} /\ \A a : Leases(a) = {}
    BY <2>1 DEF Holders, Leases, Live, OnLease, Holding
  <2> QED
    BY <2>2, FS_EmptySet DEF InflightAccounted, ConcAccounted
<1>4. HealthConsistent
  BY TunablesAssumption DEF HealthConsistent, Fresh
<1> QED
  BY <1>1, <1>2, <1>3, <1>4 DEF IInv

\* Steps in which at most the health of accounts changes besides the request.
LEMMA HealthStep ==
    ASSUME IInv, now' = now, health' \in [Accts -> HealthType], \A a \in Accts : Sound(health'[a], now)
    PROVE  HealthConsistent'
<1>1. ASSUME NEW a \in Accts
      PROVE  /\ health'[a].fails = 0 => health'[a].until = 0
             /\ health'[a].fails # 0 => health'[a].until = health'[a].last_fail + Backoff(health'[a].fails)
             /\ health'[a].until <= now + MaxCooldown
  BY DEF Sound
<1> QED
  BY <1>1 DEF HealthConsistent, Backoff

LEMMA HealthIsSound ==
    ASSUME IInv PROVE \A a \in Accts : health[a] \in HealthType /\ Sound(health[a], now)
BY DEF IInv, TypeOK, HealthConsistent, Sound

\* The health of one account is marked.
LEMMA MarkStep ==
    ASSUME IInv, now' = now, NEW c \in Accts, NEW ok \in BOOLEAN,
           health' = [health EXCEPT ![c] = IF ok THEN mark_success(@) ELSE mark_failure(@)]
    PROVE  health' \in [Accts -> HealthType] /\ HealthConsistent'
<1> DEFINE h == IF ok THEN mark_success(health[c]) ELSE mark_failure(health[c])
<1>1. now \in Nat
  BY TunablesAssumption DEF IInv, TypeOK
<1>2. h \in HealthType /\ Sound(h, now)
  BY <1>1, HealthIsSound, MarksAreSound
<1>3. health' = [health EXCEPT ![c] = h] /\ health \in [Accts -> HealthType]
  BY DEF IInv, TypeOK
<1> HIDE DEF h
<1>4. health' \in [Accts -> HealthType] /\ \A a \in Accts : Sound(health'[a], now)
  BY <1>2, <1>3, HealthIsSound
<1> QED
  BY <1>4, HealthStep

\* A request that has no lease yet selects its candidates.
LEMMA SelectIInv ==
    ASSUME IInv, NEW r \in Reqs, ~OnLease(req[r]),
           NEW q \in ReqType, q.left = {}, ~q.started, ~q.ok,
           NEW none \in {"failed", "tail"}, Select(r, q, none),
           UNCHANGED <<now, custom, cred, edits, drops, abandoned, leaked>>,
           conc' = conc - One(Holding(req[r])) + One(none = "tail" \/ _accounts_for # {}),
           conc' \in Nat
    PROVE  IInv'
<1>1. none \in Stands
  BY DEF Stands, Ended
<1>2. health' = Cleaned
  BY <1>1, SelectStep
<1>3. HealthConsistent' /\ health' \in [Accts -> HealthType]
  BY <1>2, CleanedIsSound, HealthStep
<1>4. /\ abandoned' \in [Accts -> Nat] /\ leaked' \in Nat /\ abandoned' = abandoned /\ leaked' = leaked
      /\ \A a \in Accts : inflight[a] \in Nat /\ abandoned[a] \in Nat
      /\ conc \in Nat /\ leaked \in Nat
  BY DEF IInv, TypeOK
<1>5. CASE /\ _accounts_for = {} /\ req' = [req EXCEPT ![r] = [q EXCEPT !.pc = none]]
           /\ inflight' = inflight /\ client' = client
  <2> DEFINE x == Moved(q, none)
  <2>1. x \in ReqType /\ x.pc = none /\ x.left = {} /\ ~x.started
    BY <1>1, MovedFields
  <2>2. req' = [req EXCEPT ![r] = x]
    BY <1>5 DEF Moved
  <2> HIDE DEF x
  <2>3. OnItsWay(x) /\ ~OnLease(x) /\ (Holding(x) <=> none = "tail")
    BY <2>1 DEF OnItsWay, OnLease, Holding
  <2>4. req' \in [Reqs -> ReqType] /\ RequestsOnTheirWay'
    BY <2>1, <2>2, <2>3, RequestStep
  <2>5. InflightAccounted' /\ ConcAccounted'
    <3>1. One(Holding(x)) = One(none = "tail" \/ _accounts_for # {})
      BY <1>5, <2>3 DEF One
    <3>2. conc' = conc - One(Holding(req[r])) + One(Holding(x))
      BY <3>1
    <3> QED
      BY <1>4, <1>5, <2>2, <2>3, <3>2, GaugesKept
  <2>6. TypeOK'
    BY <1>3, <1>5, <2>4 DEF IInv, TypeOK
  <2> QED
    BY <1>3, <2>4, <2>5, <2>6 DEF IInv
<1>6. ASSUME NEW l \in ReqType,
             _accounts_for # {}, req' = [req EXCEPT ![r] = l],
             OnItsWay(l), OnLease(l), Holding(l), l.cur \in _accounts_for,
             inflight' = [inflight EXCEPT ![l.cur] = @ + 1], client' \in [Accts -> Nat]
      PROVE  IInv'
  <2>1. req' \in [Reqs -> ReqType] /\ RequestsOnTheirWay'
    BY <1>6, RequestStep
  <2>2. l.cur \in Accts
    BY <1>6, PoolOfAccounts DEF IInv
  <2>3. inflight' \in [Accts -> Nat]
    BY <1>6, <2>2 DEF IInv, TypeOK
  <2>4. InflightAccounted' /\ ConcAccounted'
    <3>1. \A a \in Accts : inflight'[a] = inflight[a] + (IF l.cur = a THEN 1 ELSE 0)
      BY <1>6 DEF IInv, TypeOK
    <3>2. \A a \in Accts : inflight'[a] - abandoned'[a] =
                inflight[a] - abandoned[a] - One(OnLease(req[r]) /\ req[r].cur = a)
                                           + One(OnLease(l) /\ l.cur = a)
      BY <3>1, <1>4, <1>6 DEF One
    <3>3. conc' - leaked' = conc - leaked - One(Holding(req[r])) + One(Holding(l))
      BY <1>4, <1>6 DEF One
    <3> QED
      BY <3>2, <3>3, <1>4, <1>6, <2>3, GaugesFollow
  <2>5. TypeOK'
    BY <1>3, <1>6, <2>1, <2>3 DEF IInv, TypeOK
  <2> QED
    BY <1>3, <2>1, <2>4, <2>5 DEF IInv
<1> QED
  BY <1>1, <1>5, <1>6, SelectStep

LEMMA BeginPlainIInv == ASSUME IInv, NEW r \in Reqs, BeginPlain(r) PROVE IInv'
<1> DEFINE q == [req[r] EXCEPT !.kind = "plain"]
<1>1. req[r] \in ReqType /\ OnItsWay(req[r]) /\ req[r].pc = "idle"
  BY DEF IInv, TypeOK, RequestsOnTheirWay, BeginPlain
<1>2. q \in ReqType /\ q.left = req[r].left /\ q.started = req[r].started /\ q.ok = req[r].ok
  BY <1>1 DEF ReqType
<1>3. ~q.started /\ ~q.ok /\ q.left = {}
  BY <1>1, <1>2 DEF OnItsWay
<1>4. Select(r, q, "failed") /\ conc' = (IF _accounts_for = {} THEN conc ELSE conc + 1)
      /\ UNCHANGED <<now, custom, cred, edits, drops, abandoned, leaked>>
  BY DEF BeginPlain
<1> HIDE DEF q
<1>5. ~OnLease(req[r]) /\ ~Holding(req[r])
  BY <1>1 DEF OnLease, Holding
<1>6. conc' = conc - One(Holding(req[r])) + One("failed" = "tail" \/ _accounts_for # {}) /\ conc' \in Nat
  BY <1>4, <1>5 DEF One, IInv, TypeOK
<1> QED
  BY <1>2, <1>3, <1>4, <1>5, <1>6, SelectIInv

LEMMA StreamSelectIInv == ASSUME IInv, NEW r \in Reqs, StreamSelect(r) PROVE IInv'
<1>1. req[r] \in ReqType /\ OnItsWay(req[r]) /\ req[r].pc = "head"
  BY DEF IInv, TypeOK, RequestsOnTheirWay, StreamSelect
<1>2. ~req[r].started /\ ~req[r].ok /\ req[r].left = {}
  BY <1>1 DEF OnItsWay
<1>3. ~OnLease(req[r]) /\ Holding(req[r])
  BY <1>1 DEF OnLease, Holding
<1>4. Select(r, req[r], "tail") /\ conc' = conc
      /\ UNCHANGED <<now, custom, cred, edits, drops, abandoned, leaked>>
  BY DEF StreamSelect
<1>5. conc' = conc - One(Holding(req[r])) + One("tail" = "tail" \/ _accounts_for # {}) /\ conc' \in Nat
  BY <1>3, <1>4 DEF One, IInv, TypeOK
<1> QED
  BY <1>1, <1>2, <1>3, <1>4, <1>5, SelectIInv

\* The other steps of one request: x is the record it leaves.
LEMMA OneRequestIInv ==
    ASSUME IInv, NEW r \in Reqs, NEW x \in ReqType, OnItsWay(x), req' = [req EXCEPT ![r] = x],
           UNCHANGED <<now, custom, cred, edits>>, drops' \in 0..MaxDrops,
           health' \in [Accts -> HealthType], HealthConsistent', client' \in [Accts -> Nat],
           inflight' \in [Accts -> Nat], abandoned' \in [Accts -> Nat], conc' \in Nat, leaked' \in Nat,
           \A a \in Accts : inflight'[a] - abandoned'[a] =
                inflight[a] - abandoned[a] - One(OnLease(req[r]) /\ req[r].cur = a)
                                           + One(OnLease(x) /\ x.cur = a),
           conc' - leaked' = conc - leaked - One(Holding(req[r])) + One(Holding(x))
    PROVE  IInv'
<1>1. req' \in [Reqs -> ReqType] /\ RequestsOnTheirWay'
  BY RequestStep
<1>2. InflightAccounted' /\ ConcAccounted'
  BY GaugesFollow
<1>3. TypeOK'
  BY <1>1 DEF IInv, TypeOK
<1> QED
  BY <1>1, <1>2, <1>3 DEF IInv

\* .. in which no lease and no health changes.
LEMMA NoLeaseIInv ==
    ASSUME IInv, NEW r \in Reqs, NEW x \in ReqType, OnItsWay(x), req' = [req EXCEPT ![r] = x],
           OnLease(x) <=> OnLease(req[r]), x.cur = req[r].cur,
           UNCHANGED <<now, custom, cred, health, inflight, client, edits, drops, abandoned, leaked>>,
           conc' \in Nat, conc' = conc - One(Holding(req[r])) + One(Holding(x))
    PROVE  IInv'
<1>1. /\ \A a \in Accts : inflight[a] \in Nat /\ abandoned[a] \in Nat
      /\ conc \in Nat /\ leaked \in Nat
      /\ inflight' = inflight /\ abandoned' = abandoned /\ leaked' = leaked /\ drops' \in 0..MaxDrops
      /\ health' \in [Accts -> HealthType] /\ client' \in [Accts -> Nat]
      /\ inflight' \in [Accts -> Nat] /\ abandoned' \in [Accts -> Nat] /\ leaked' \in Nat
  BY DEF IInv, TypeOK
<1>2. HealthConsistent'
  BY DEF IInv, HealthConsistent, Backoff
<1>3. \A a \in Accts : inflight'[a] - abandoned'[a] =
                inflight[a] - abandoned[a] - One(OnLease(req[r]) /\ req[r].cur = a)
                                           + One(OnLease(x) /\ x.cur = a)
  BY <1>1 DEF One
<1>4. conc' - leaked' = conc - leaked - One(Holding(req[r])) + One(Holding(x))
  BY <1>1 DEF One
<1> QED
  BY <1>1, <1>2, <1>3, <1>4, OneRequestIInv

LEMMA BeginStreamIInv == ASSUME IInv, NEW r \in Reqs, BeginStream(r) PROVE IInv'
<1> DEFINE x == Begun(req[r], "head", "stream")
<1>1. req[r] \in ReqType /\ OnItsWay(req[r]) /\ req[r].pc = "idle"
  BY DEF IInv, TypeOK, RequestsOnTheirWay, BeginStream
<1>2. req' = [req EXCEPT ![r] = x]
  BY DEF BeginStream, Begun
<1>3. /\ x \in ReqType /\ x.pc = "head" /\ x.left = req[r].left
      /\ x.started = req[r].started /\ x.ok = req[r].ok /\ x.cur = req[r].cur
  BY <1>1, BegunFields DEF Stands
<1> HIDE DEF x
<1>4. OnItsWay(x) /\ Holding(x) /\ ~OnLease(x) /\ ~OnLease(req[r]) /\ ~Holding(req[r])
  BY <1>1, <1>3 DEF OnItsWay, OnLease, Holding
<1>5. conc' \in Nat /\ conc' = conc - One(Holding(req[r])) + One(Holding(x))
  BY <1>4 DEF BeginStream, IInv, TypeOK, One
<1> QED
  BY <1>2, <1>3, <1>4, <1>5, NoLeaseIInv DEF BeginStream

LEMMA TokenIInv == ASSUME IInv, NEW r \in Reqs, Token(r) PROVE IInv'
<1> DEFINE x == Passed(req[r], "streaming", TRUE)
<1>1. req[r] \in ReqType /\ OnItsWay(req[r]) /\ req[r].pc = "calling"
  BY DEF IInv, TypeOK, RequestsOnTheirWay, Token
<1>2. req' = [req EXCEPT ![r] = x]
  BY DEF Token, Passed
<1>3. /\ x \in ReqType /\ x.pc = "streaming" /\ x.left = req[r].left
      /\ x.started = TRUE /\ x.ok = req[r].ok /\ x.cur = req[r].cur
  BY <1>1, PassedFields DEF Stands
<1> HIDE DEF x
<1>4. OnItsWay(x) /\ Holding(x) /\ OnLease(x) /\ OnLease(req[r]) /\ Holding(req[r])
  BY <1>1, <1>3 DEF OnItsWay, OnLease, Holding
<1>5. conc' \in Nat /\ conc' = conc - One(Holding(req[r])) + One(Holding(x))
  BY <1>4 DEF Token, IInv, TypeOK, One
<1> QED
  BY <1>2, <1>3, <1>4, <1>5, NoLeaseIInv DEF Token

LEMMA FinishIInv == ASSUME IInv, NEW r \in Reqs, Finish(r) PROVE IInv'
<1> DEFINE p == IF req[r].ok THEN "answered" ELSE "failed"
           x == Moved(req[r], p)
<1>1. req[r] \in ReqType /\ OnItsWay(req[r]) /\ req[r].pc = "tail"
  BY DEF IInv, TypeOK, RequestsOnTheirWay, Finish
<1>2. req' = [req EXCEPT ![r] = x]
  BY DEF Finish, Moved
<1>3. /\ x \in ReqType /\ x.pc = p /\ x.left = req[r].left
      /\ x.started = req[r].started /\ x.ok = req[r].ok /\ x.cur = req[r].cur
  BY <1>1, MovedFields DEF Stands, Ended
<1> HIDE DEF x
<1>4. OnItsWay(x) /\ ~Holding(x) /\ ~OnLease(x) /\ ~OnLease(req[r]) /\ Holding(req[r])
  BY <1>1, <1>3 DEF OnItsWay, OnLease, Holding
<1>5. conc >= 1
  BY <1>4, LeaseIsCounted
<1>6. conc' \in Nat /\ conc' = conc - One(Holding(req[r])) + One(Holding(x))
  BY <1>4, <1>5 DEF Finish, Dec, IInv, TypeOK, One
<1> QED
  BY <1>2, <1>3, <1>4, <1>6, NoLeaseIInv DEF Finish

\* A lease is left for good: with the answer, or with the last error.
LEMMA ExitIInv ==
    ASSUME IInv, NEW r \in Reqs, Live(r), NEW ok \in BOOLEAN,
           exit(req[r].cur, ok), End(r, ok), ok \/ req[r].started \/ req[r].left = {},
           UNCHANGED <<now, custom, cred, client, edits, drops, abandoned, leaked>>
    PROVE  IInv'
<1> DEFINE c == req[r].cur
           p == IF req[r].kind = "stream" THEN "tail" ELSE IF ok THEN "answered" ELSE "failed"
           x == Finished(req[r], ok, p)
<1>1. req[r] \in ReqType /\ OnItsWay(req[r]) /\ OnLease(req[r]) /\ Holding(req[r])
  BY DEF IInv, TypeOK, RequestsOnTheirWay, Live, OnLease, Holding
<1>2. p \in Stands
  BY DEF Stands, Ended
<1>3. req' = [req EXCEPT ![r] = x]
  BY DEF End, Finished
<1>4. /\ x \in ReqType /\ x.pc = p /\ x.left = req[r].left
      /\ x.started = req[r].started /\ x.ok = ok /\ x.cur = c
  BY <1>1, <1>2, FinishedFields
<1> HIDE DEF x
<1>5. OnItsWay(x) /\ ~OnLease(x) /\ (Holding(x) <=> req[r].kind = "stream")
  BY <1>1, <1>4 DEF OnItsWay, OnLease, Holding
<1>6. inflight[c] >= 1 /\ conc >= 1 /\ c \in Accts
  BY <1>1, LeaseIsCounted DEF OnItsWay
<1>7. /\ \A a \in Accts : inflight[a] \in Nat /\ abandoned[a] \in Nat
      /\ conc \in Nat /\ leaked \in Nat
      /\ abandoned' = abandoned /\ leaked' = leaked /\ drops' \in 0..MaxDrops
      /\ client' \in [Accts -> Nat] /\ abandoned' \in [Accts -> Nat] /\ leaked' \in Nat
  BY DEF IInv, TypeOK
<1>8. health' \in [Accts -> HealthType] /\ HealthConsistent'
  BY <1>6, MarkStep DEF exit
<1>9. /\ inflight' \in [Accts -> Nat]
      /\ \A a \in Accts : inflight'[a] = inflight[a] - (IF c = a THEN 1 ELSE 0)
  BY <1>6 DEF exit, Dec, IInv, TypeOK
<1>10. \A a \in Accts : inflight'[a] - abandoned'[a] =
                inflight[a] - abandoned[a] - One(OnLease(req[r]) /\ req[r].cur = a)
                                           + One(OnLease(x) /\ x.cur = a)
  BY <1>1, <1>5, <1>7, <1>9 DEF One
<1>11. conc' \in Nat /\ conc' - leaked' = conc - leaked - One(Holding(req[r])) + One(Holding(x))
  BY <1>1, <1>5, <1>6, <1>7 DEF One, End, Dec
<1> QED
  BY <1>3, <1>4, <1>5, <1>7, <1>8, <1>9, <1>10, <1>11, OneRequestIInv

LEMMA CallOkIInv == ASSUME IInv, NEW r \in Reqs, CallOk(r) PROVE IInv'
BY ExitIInv DEF CallOk

\* The lease of the failed account is left and the next one entered, in one go.
LEMMA NextCandidateIInv ==
    ASSUME IInv, NEW r \in Reqs, Live(r), ~req[r].started, req[r].left # {}, NextCandidate(r),
           UNCHANGED <<now, custom, cred, edits, drops, abandoned, leaked>>
    PROVE  IInv'
<1> DEFINE c == req[r].cur
           l == Leased(req[r], req[r].left)
<1>1. /\ req[r] \in ReqType /\ OnItsWay(req[r]) /\ OnLease(req[r]) /\ Holding(req[r])
      /\ req[r].left \in SUBSET Accts /\ req[r].creds \in [Accts -> Nat]
  BY DEF IInv, TypeOK, RequestsOnTheirWay, Live, OnLease, Holding, ReqType
<1>2. l \in ReqType /\ OnItsWay(l) /\ OnLease(l) /\ Holding(l) /\ l.cur \in Accts
  BY <1>1, LeasedRequest
<1>3. /\ req' = [req EXCEPT ![r] = l] /\ conc' = conc
      /\ health' = [health EXCEPT ![c] = mark_failure(@)]
      /\ inflight' = [inflight EXCEPT ![c] = Dec(@), ![l.cur] = @ + 1]
      /\ client' = [client EXCEPT ![l.cur] = IF @ = NoClient THEN req[r].creds[l.cur] ELSE @]
  BY DEF NextCandidate, _client_for
<1> HIDE DEF l
<1>4. inflight[c] >= 1 /\ c \in Accts
  BY <1>1, LeaseIsCounted DEF OnItsWay
<1>5. /\ \A a \in Accts : inflight[a] \in Nat /\ abandoned[a] \in Nat
      /\ conc \in Nat /\ leaked \in Nat
      /\ abandoned' = abandoned /\ leaked' = leaked /\ drops' \in 0..MaxDrops
      /\ abandoned' \in [Accts -> Nat] /\ leaked' \in Nat
  BY DEF IInv, TypeOK
<1>6. health' \in [Accts -> HealthType] /\ HealthConsistent'
  <2>1. health' = [health EXCEPT ![c] = IF FALSE THEN mark_success(@) ELSE mark_failure(@)]
    BY <1>3
  <2> QED
    BY <2>1, <1>4, MarkStep
<1>7. client' \in [Accts -> Nat]
  BY <1>1, <1>2, <1>3 DEF IInv, TypeOK
<1>8. /\ inflight' \in [Accts -> Nat]
      /\ \A a \in Accts : inflight'[a] = inflight[a] - (IF c = a THEN 1 ELSE 0)
                                                     + (IF l.cur = a THEN 1 ELSE 0)
  <2>1. inflight \in [Accts -> Nat]
    BY DEF IInv, TypeOK
  <2>2. Dec(inflight[c]) = inflight[c] - 1 /\ inflight[c] - 1 \in Nat
    BY <1>4, <1>5 DEF Dec
  <2>3. ASSUME NEW n \in Accts, inflight' = [inflight EXCEPT ![c] = inflight[c] - 1, ![n] = @ + 1]
        PROVE  /\ inflight' \in [Accts -> Nat]
               /\ \A a \in Accts : inflight'[a] = inflight[a] - (IF c = a THEN 1 ELSE 0)
                                                              + (IF n = a THEN 1 ELSE 0)
    BY <1>4, <1>5, <2>1, <2>2, <2>3
  <2>4. inflight' = [inflight EXCEPT ![c] = inflight[c] - 1, ![l.cur] = @ + 1]
    BY <1>3, <2>2
  <2> QED
    BY <1>2, <2>3, <2>4
<1>9. \A a \in Accts : inflight'[a] - abandoned'[a] =
                inflight[a] - abandoned[a] - One(OnLease(req[r]) /\ req[r].cur = a)
                                           + One(OnLease(l) /\ l.cur = a)
  BY <1>1, <1>2, <1>5, <1>8 DEF One
<1>10. conc' \in Nat /\ conc' - leaked' = conc - leaked - One(Holding(req[r])) + One(Holding(l))
  BY <1>1, <1>2, <1>3, <1>5 DEF One
<1> QED
  BY <1>2, <1>3, <1>5, <1>6, <1>7, <1>8, <1>9, <1>10, OneRequestIInv

LEMMA CallErrIInv == ASSUME IInv, NEW r \in Reqs, CallErr(r) PROVE IInv'
<1>1. /\ Live(r) /\ UNCHANGED <<now, custom, cred, edits, drops, abandoned, leaked>>
      /\ \/ ~req[r].started /\ req[r].left # {} /\ NextCandidate(r)
         \/ /\ req[r].started \/ req[r].left = {}
            /\ exit(req[r].cur, FALSE) /\ End(r, FALSE) /\ UNCHANGED client
  BY DEF CallErr
<1> QED
  BY <1>1, NextCandidateIInv, ExitIInv

\* A stream that is dropped leaves its lease, or its gauge, behind.
LEMMA DisconnectIInv == ASSUME IInv, NEW r \in Reqs, Disconnect(r) PROVE IInv'
<1> DEFINE x == Moved(req[r], "dropped")
           c == req[r].cur
<1>1. req[r] \in ReqType /\ OnItsWay(req[r]) /\ Holding(req[r]) /\ (Live(r) <=> OnLease(req[r]))
  BY DEF IInv, TypeOK, RequestsOnTheirWay, Disconnect, Holding, Live, OnLease
<1>2. req' = [req EXCEPT ![r] = x]
  BY DEF Disconnect, Moved
<1>3. x \in ReqType /\ x.pc = "dropped"
  BY <1>1, MovedFields DEF Stands, Ended
<1> HIDE DEF x
<1>4. OnItsWay(x) /\ ~OnLease(x) /\ ~Holding(x)
  BY <1>3 DEF OnItsWay, OnLease, Holding
<1>5. conc >= 1 /\ (OnLease(req[r]) => c \in Accts)
  BY <1>1, LeaseIsCounted DEF OnItsWay
<1>6. /\ \A a \in Accts : inflight[a] \in Nat /\ abandoned[a] \in Nat
      /\ abandoned \in [Accts -> Nat] /\ inflight \in [Accts -> Nat] /\ drops \in 0..MaxDrops
      /\ conc \in Nat /\ leaked \in Nat /\ health' = health /\ inflight' = inflight
      /\ health' \in [Accts -> HealthType] /\ client' \in [Accts -> Nat]
  BY DEF IInv, TypeOK, Disconnect
<1>7. HealthConsistent'
  BY DEF IInv, HealthConsistent, Backoff, Disconnect
<1>8. /\ abandoned' \in [Accts -> Nat]
      /\ \A a \in Accts : abandoned'[a] = abandoned[a] + (IF Live(r) /\ c = a THEN 1 ELSE 0)
  BY <1>1, <1>5, <1>6 DEF Disconnect
<1>9. \A a \in Accts : inflight'[a] - abandoned'[a] =
                inflight[a] - abandoned[a] - One(OnLease(req[r]) /\ req[r].cur = a)
                                           + One(OnLease(x) /\ x.cur = a)
  BY <1>1, <1>4, <1>6, <1>8 DEF One
<1>10. /\ conc' \in Nat /\ leaked' \in Nat
       /\ conc' - leaked' = conc - leaked - One(Holding(req[r])) + One(Holding(x))
  BY <1>1, <1>4, <1>5, <1>6 DEF One, Disconnect, Dec
<1>11. drops' \in 0..MaxDrops /\ UNCHANGED <<now, custom, cred, edits>>
  BY <1>6, TunablesAssumption DEF Disconnect
<1> QED
  BY <1>2, <1>3, <1>4, <1>6, <1>7, <1>8, <1>9, <1>10, <1>11, OneRequestIInv

\* After a restart nobody holds anything and nothing is counted.
LEMMA RestartIInv == ASSUME IInv, Restart PROVE IInv'
<1> DEFINE gone(r) == req[r].pc \in {"idle"} \cup Ended
<1>1. req' = [r \in Reqs |-> IF gone(r) THEN req[r] ELSE Moved(req[r], "lost")]
  BY DEF Restart, Moved
<1>2. ASSUME NEW r \in Reqs
      PROVE  req'[r] \in ReqType /\ OnItsWay(req'[r]) /\ ~OnLease(req'[r]) /\ ~Holding(req'[r])
  <2>1. req[r] \in ReqType /\ OnItsWay(req[r])
    BY DEF IInv, TypeOK, RequestsOnTheirWay
  <2>2. CASE gone(r)
    BY <1>1, <2>1, <2>2 DEF OnLease, Holding, Ended
  <2>3. CASE ~gone(r)
    <3> DEFINE x == Moved(req[r], "lost")
    <3>1. req'[r] = x
      BY <1>1, <2>3
    <3>2. x \in ReqType /\ x.pc = "lost"
      BY <2>1, MovedFields DEF Stands, Ended
    <3> HIDE DEF x
    <3> QED
      BY <3>1, <3>2 DEF OnItsWay, OnLease, Holding
  <2> QED
    BY <2>2, <2>3
<1>3. req' \in [Reqs -> ReqType] /\ RequestsOnTheirWay'
  <2>1. \A r \in Reqs : req'[r] \in ReqType
    BY <1>2
  <2>2. req' = [r \in Reqs |-> req'[r]]
    BY <1>1
  <2> QED
    BY <1>2, <2>1, <2>2 DEF RequestsOnTheirWay
<1>4. (Holders = {} /\ \A a : Leases(a) = {})'
  BY <1>2 DEF Holders, Leases, Live, OnLease, Holding
<1>5. InflightAccounted' /\ ConcAccounted'
  <2>1. Cardinality(Holders') = 0 /\ \A a : Cardinality(Leases(a)') = 0
    BY <1>4, FS_EmptySet
  <2>2. \A a \in Accts : inflight'[a] = 0 /\ abandoned'[a] = 0
    BY DEF Restart
  <2>3. conc' = 0 /\ leaked' = 0
    BY DEF Restart
  <2> QED
    BY <2>1, <2>2, <2>3 DEF InflightAccounted, ConcAccounted
<1>6. HealthConsistent'
  BY DEF IInv, HealthConsistent, Backoff, Restart
<1>7. TypeOK'
  <2>1. drops' \in 0..MaxDrops
    BY TunablesAssumption DEF IInv, TypeOK, Restart
  <2> QED
    BY <1>3, <2>1 DEF IInv, TypeOK, Restart, NoClient
<1> QED
  BY <1>3, <1>5, <1>6, <1>7 DEF IInv

\* Steps that leave the requests and what they hold alone.
LEMMA AsideIInv ==
    ASSUME IInv, TypeOK', now' >= now, UNCHANGED <<health, inflight, conc, req, abandoned, leaked>>
    PROVE  IInv'
<1>1. RequestsOnTheirWay' /\ InflightAccounted' /\ ConcAccounted'
  <2>1. \A a : Leases(a)' = Leases(a)
    BY DEF Leases, Live
  <2>2. Holders' = Holders
    BY DEF Holders
  <2> QED
    BY <2>1, <2>2 DEF IInv, RequestsOnTheirWay, InflightAccounted, ConcAccounted
<1>2. HealthConsistent'
  <2>1. \A a \in Accts : health[a] \in HealthType /\ Sound(health[a], now)
    BY HealthIsSound
  <2>2. now \in Nat /\ now' \in Nat
    BY TunablesAssumption DEF IInv, TypeOK
  <2>3. \A a \in Accts : health[a].until \in Nat /\ health[a].until <= now' + MaxCooldown
    BY <2>1, <2>2, TunablesAssumption DEF HealthType, Sound
  <2> QED
    BY <2>1, <2>3 DEF HealthConsistent, Sound, Backoff
<1> QED
  BY <1>1, <1>2 DEF IInv

LEMMA EditIInv ==
    ASSUME IInv, NEW a \in Accts, upsert_account(a) \/ delete_account(a) PROVE IInv'
<1>1. now' = now /\ now \in Nat /\ UNCHANGED <<health, inflight, conc, req, abandoned, leaked>>
  BY TunablesAssumption DEF IInv, TypeOK, upsert_account, delete_account
<1>2. TypeOK'
  <2>1. edits' \in 0..MaxEdits
    BY TunablesAssumption DEF IInv, TypeOK, upsert_account, delete_account
  <2>2. CASE upsert_account(a)
    BY <2>1, <2>2 DEF IInv, TypeOK, upsert_account
  <2>3. CASE delete_account(a)
    BY <2>1, <2>3 DEF IInv, TypeOK, delete_account
  <2> QED
    BY <2>2, <2>3
<1> QED
  BY <1>1, <1>2, AsideIInv

LEMMA TickIInv == ASSUME IInv, Tick PROVE IInv'
<1>1. now' >= now /\ now' \in 0..MaxTime
  BY TunablesAssumption DEF IInv, TypeOK, Tick
<1>2. TypeOK'
  BY <1>1 DEF IInv, TypeOK, Tick
<1> QED
  BY <1>1, <1>2, AsideIInv DEF Tick

LEMMA NextIInv == ASSUME IInv, [Next]_vars PROVE IInv'
<1>1. CASE UNCHANGED vars
  <2>1. TypeOK' /\ now' = now /\ now \in Nat
    BY <1>1, TunablesAssumption DEF IInv, TypeOK, vars
  <2> QED
    BY <1>1, <2>1, AsideIInv DEF vars
<1>2. CASE Tick
  BY <1>2, TickIInv
<1>3. CASE Restart
  BY <1>3, RestartIInv
<1>4. ASSUME NEW a \in Accts \ (DefaultPool \cup AnonPool), upsert_account(a) \/ delete_account(a)
      PROVE  IInv'
  BY <1>4, EditIInv
<1>5. ASSUME NEW r \in Reqs, Step(r) \/ Disconnect(r) PROVE IInv'
  BY <1>5, BeginPlainIInv, BeginStreamIInv, StreamSelectIInv, TokenIInv, CallOkIInv,
     CallErrIInv, FinishIInv, DisconnectIInv DEF Step
<1> QED
  BY <1>1, <1>2, <1>3, <1>4, <1>5 DEF Next, Done

-----------------------------------------------------------------------------
\* What a step may never do.

\* What a started stream keeps from one record to the next.
Stays(q, x) == q.started => x.cur = q.cur /\ x.pc # "calling"

LEMMA StaysAlone == ASSUME IInv, NEW r \in Reqs PROVE Stays(req[r], req[r])
BY DEF IInv, RequestsOnTheirWay, OnItsWay, Stays

LEMMA StartedStep ==
    ASSUME IInv, NEW r \in Reqs, NEW x, req' = [req EXCEPT ![r] = x], Stays(req[r], x)
    PROVE  \A s \in Reqs : Stays(req[s], req'[s])
<1>1. \A s \in Reqs : req'[s] = IF s = r THEN x ELSE req[s]
  BY DEF IInv, TypeOK
<1> QED
  BY <1>1, StaysAlone

LEMMA StepStays ==
    ASSUME IInv, NEW r \in Reqs, Step(r) \/ Disconnect(r)
    PROVE  \A s \in Reqs : Stays(req[s], req'[s])
<1>1. req[r] \in ReqType /\ OnItsWay(req[r])
  BY DEF IInv, TypeOK, RequestsOnTheirWay
<1>2. CASE ~req[r].started
  <2>1. \A s \in Reqs \ {r} : req'[s] = req[s]
    BY DEF IInv, TypeOK, Step, Disconnect, BeginPlain, BeginStream, StreamSelect, Token, CallOk,
       CallErr, Finish, Select, NextCandidate, End
  <2>2. Stays(req[r], req'[r])
    BY <1>2 DEF Stays
  <2> QED
    BY <2>1, <2>2, StaysAlone
<1>3. CASE req[r].started
  <2>1. req[r].pc \notin {"idle", "head", "calling"}
    BY <1>1, <1>3 DEF OnItsWay
  <2>2. ASSUME NEW ok \in BOOLEAN, End(r, ok) PROVE \A s \in Reqs : Stays(req[s], req'[s])
    <3> DEFINE p == IF req[r].kind = "stream" THEN "tail" ELSE IF ok THEN "answered" ELSE "failed"
               x == Finished(req[r], ok, p)
    <3>1. req' = [req EXCEPT ![r] = x]
      BY <2>2 DEF End, Finished
    <3>2. p \in Stands
      BY DEF Stands, Ended
    <3>3. x.cur = req[r].cur /\ x.pc = p
      BY <1>1, <3>2, FinishedFields
    <3> HIDE DEF x
    <3> QED
      BY <3>1, <3>3, StartedStep DEF Stays
  <2>3. ASSUME NEW p \in Ended, req' = [req EXCEPT ![r].pc = p]
        PROVE  \A s \in Reqs : Stays(req[s], req'[s])
    <3> DEFINE x == Moved(req[r], p)
    <3>1. req' = [req EXCEPT ![r] = x]
      BY <2>3 DEF Moved
    <3>2. x.cur = req[r].cur /\ x.pc = p
      BY <1>1, MovedFields DEF Stands
    <3> HIDE DEF x
    <3> QED
      BY <3>1, <3>2, StartedStep DEF Stays, Ended
  <2>4. CASE CallOk(r)
    BY <2>2, <2>4 DEF CallOk
  <2>5. CASE CallErr(r)
    BY <1>3, <2>2, <2>5 DEF CallErr
  <2>6. CASE Finish(r)
    BY <2>3, <2>6 DEF Finish, Ended
  <2>7. CASE Disconnect(r)
    BY <2>3, <2>7 DEF Disconnect, Ended
  <2> QED
    BY <2>1, <2>4, <2>5, <2>6, <2>7 DEF Step, BeginPlain, BeginStream, StreamSelect, Token
<1> QED
  BY <1>2, <1>3

LEMMA RestartStays == ASSUME IInv, Restart PROVE \A s \in Reqs : Stays(req[s], req'[s])
<1> SUFFICES ASSUME NEW s \in Reqs PROVE Stays(req[s], req'[s])
  OBVIOUS
<1> DEFINE x == Moved(req[s], "lost")
<1>1. x.cur = req[s].cur /\ x.pc = "lost"
  BY MovedFields DEF IInv, TypeOK, Stands, Ended
<1>2. req'[s] = req[s] \/ req'[s] = x
  BY DEF Restart, Moved
<1> HIDE DEF x
<1> QED
  BY <1>1, <1>2, StaysAlone DEF Stays

\* With an account out of cooldown in the pool, the first of the order is.
LEMMA FirstIsAvailable ==
    ASSUME IInv, NEW a \in _accounts_for, _is_available(Cleaned[a])
    PROVE  _is_available(Cleaned[First(_accounts_for, Ranks)])
<1> DEFINE c == First(_accounts_for, Ranks)
           Ahead(b) == {d \in _accounts_for : Before(d, b, Cleaned)}
<1>1. c \in _accounts_for /\ Ranks[c] <= Ranks[a] /\ _accounts_for \in SUBSET Accts
  BY FirstIsLeast, PoolOfAccounts, RanksAreNat DEF IInv
<1> HIDE DEF c
<1> SUFFICES ASSUME ~_is_available(Cleaned[c]) PROVE FALSE
  BY DEF c
<1>2. Ahead(a) \subseteq Ahead(c) /\ a \in Ahead(c)
  BY <1>1 DEF Before
<1>3. a \notin Ahead(a)
  <2>1. inflight[a] * AtLeast1(Weight[a]) \in Nat
    BY <1>1, ScoresAssumption DEF IInv, TypeOK, AtLeast1
  <2>2. OrDefault(Priority[a]) \in Int /\ Cleaned[a].fails \in Nat /\ a \in Nat
    BY <1>1, CleanedIsSound, PoolsAssumption, ScoresAssumption DEF OrDefault, HealthType
  <2> QED
    BY <2>1, <2>2 DEF Before, LighterLoad
<1>4. IsFiniteSet(Ahead(c)) /\ Ahead(a) # Ahead(c)
  BY <1>1, <1>2, <1>3, PoolsAssumption, FS_Subset
<1>5. Cardinality(Ahead(a)) < Cardinality(Ahead(c))
  <2> HIDE DEF Ahead
  <2> QED
    BY <1>2, <1>4, FS_Subset, FS_CardinalityType
<1>6. Ranks[a] = Cardinality(Ahead(a)) /\ Ranks[c] = Cardinality(Ahead(c))
  BY <1>1 DEF Ranks
<1>7. Ranks[a] \in Nat /\ Ranks[c] \in Nat
  BY <1>1, RanksAreNat DEF IInv
<1> QED
  BY <1>1, <1>5, <1>6, <1>7

-----------------------------------------------------------------------------
\* The theorems.

LEMMA SpecIInv == Spec => []IInv
<1>1. IInv /\ [Next]_vars => IInv'
  BY NextIInv
<1> QED
  BY <1>1, InitIInv, PTL DEF Spec

\* The lease of balancer.py is exact: whatever fails, fails over, is edited,
\* goes away or restarts, _inflight of an account is the number of leases on it
\* that were not left, plus what Disconnect leaves behind; so the order
\* select_candidates sorts by is that of the true loads.
THEOREM BalancerGauges == Spec => []InflightAccounted
<1>1. IInv => InflightAccounted
  BY DEF IInv
<1> QED
  BY <1>1, SpecIInv, PTL

\* And so is the gauge of abuse.py that chat_completions keeps: _conc of a caller
\* is the number of its requests being served, plus the streams whose client
\* went away before Finish.
THEOREM BalancerConcurrency == Spec => []ConcAccounted
<1>1. IInv => ConcAccounted
  BY DEF IInv
<1> QED
  BY <1>1, SpecIInv, PTL

\* mark_failure, mark_success and the forgetting of old failures keep an
\* account's record consistent: its cooldown is that of its failures, none for
\* none, and never beyond max_cooldown from now; and every variable keeps its type.
THEOREM BalancerHealth == Spec => [](TypeOK /\ HealthConsistent)
<1>1. IInv => TypeOK /\ HealthConsistent
  BY DEF IInv
<1> QED
  BY <1>1, SpecIInv, PTL

\* generate_response and generate_stream raise LastError only when the last
\* candidate has failed, or the stream had begun.
THEOREM BalancerExhausts == Spec => []FailsOnlyWhenExhausted
<1>1. IInv => FailsOnlyWhenExhausted
  BY DEF IInv, RequestsOnTheirWay, OnItsWay, FailsOnlyWhenExhausted
<1> QED
  BY <1>1, SpecIInv, PTL

\* generate_stream fails over only before the first token: a stream that has
\* passed one on is never sent to another account, nor begun anew.
THEOREM BalancerNeverRestarts == Spec => NeverRestartsStream
<1>1. ASSUME IInv, [Next]_vars PROVE \A r \in Reqs : Stays(req[r], req'[r])
  <2>1. CASE req' = req
    BY <2>1, <1>1, StaysAlone
  <2>2. CASE Restart
    BY <2>2, <1>1, RestartStays
  <2>3. ASSUME NEW r \in Reqs, Step(r) \/ Disconnect(r) PROVE \A s \in Reqs : Stays(req[s], req'[s])
    BY <2>3, <1>1, StepStays
  <2> QED
    BY <1>1, <2>1, <2>2, <2>3 DEF Next, Done, Tick, upsert_account, delete_account, vars
<1>2. IInv /\ [Next]_vars =>
        [\A r \in Reqs : req[r].started => req'[r].cur = req[r].cur /\ req'[r].pc # "calling"]_vars
  BY <1>1 DEF Stays
<1> QED
  BY <1>2, SpecIInv, PTL DEF Spec, NeverRestartsStream

\* The order of select_candidates puts accounts out of cooldown first, whatever
\* their load, priority and failures: a request starts on a parked account only
\* when every candidate is parked.
THEOREM BalancerPrefersAvailable == Spec => PrefersAvailable
<1>1. ASSUME IInv, NEW r \in Reqs, NEW q \in ReqType, ~q.started, NEW none \in {"failed", "tail"},
             Select(r, q, none), now' = now, req'[r].pc = "calling", health'[req'[r].cur].until > now
      PROVE  \A a \in req'[r].cands : health'[a].until > now
  <2>1. health' = Cleaned /\ none \in Stands /\ none # "calling" /\ req \in [Reqs -> ReqType]
    BY <1>1, SelectStep DEF Stands, Ended, IInv, TypeOK
  <2>2. req' # [req EXCEPT ![r] = Moved(q, none)]
    <3>1. Moved(q, none).pc = none
      BY <1>1, <2>1, MovedFields
    <3>2. [req EXCEPT ![r] = Moved(q, none)][r].pc = none
      BY <2>1, <3>1
    <3> QED
      BY <1>1, <2>1, <3>2
  <2>3. \E l \in ReqType : /\ req' = [req EXCEPT ![r] = l] /\ l.cands = _accounts_for
                           /\ l.cur = First(_accounts_for, Ranks) /\ l.cur \in _accounts_for
    BY <1>1, <2>1, <2>2, SelectStep DEF Moved
  <2>4. PICK l \in ReqType : /\ req' = [req EXCEPT ![r] = l] /\ l.cands = _accounts_for
                             /\ l.cur = First(_accounts_for, Ranks) /\ l.cur \in _accounts_for
    BY <2>3
  <2>5. req'[r] = l
    BY <2>1, <2>4
  <2>6. /\ now \in Nat /\ _accounts_for \in SUBSET Accts
        /\ \A a \in _accounts_for : Cleaned[a].until \in Nat
    BY <1>1, PoolOfAccounts, CleanedIsSound, TunablesAssumption DEF IInv, TypeOK, HealthType
  <2>7. Cleaned[First(_accounts_for, Ranks)].until > now
    BY <1>1, <2>1, <2>4, <2>5
  <2>8. ~_is_available(Cleaned[First(_accounts_for, Ranks)])
    BY <2>4, <2>6, <2>7 DEF _is_available
  <2>9. \A a \in _accounts_for : ~_is_available(Cleaned[a])
    BY <1>1, <2>8, FirstIsAvailable
  <2>10. \A a \in _accounts_for : Cleaned[a].until > now
    BY <2>6, <2>9 DEF _is_available
  <2> QED
    BY <2>1, <2>4, <2>5, <2>10
<1>2. ASSUME IInv, [Next]_vars, NEW r \in Reqs, req[r].pc \in {"idle", "head"}, req'[r].pc = "calling",
             health'[req'[r].cur].until > now
      PROVE  \A a \in req'[r].cands : health'[a].until > now
  <2>1. req[r] \in ReqType /\ OnItsWay(req[r]) /\ ~req[r].started
    BY <1>2 DEF IInv, TypeOK, RequestsOnTheirWay, OnItsWay
  <2>2. req'[r] # req[r]
    BY <1>2
  <2>3. \E s \in Reqs : Step(s) \/ Disconnect(s)
    <3>1. CASE Restart
      <4> DEFINE x == Moved(req[r], "lost")
      <4>1. x.pc = "lost"
        BY <2>1, MovedFields DEF Stands, Ended
      <4>2. req'[r] = req[r] \/ req'[r] = x
        BY <3>1 DEF Restart, Moved
      <4> HIDE DEF x
      <4> QED
        BY <1>2, <2>2, <4>1, <4>2
    <3> QED
      BY <1>2, <2>2, <3>1 DEF Next, Done, Tick, upsert_account, delete_account, vars
  <2>4. PICK s \in Reqs : Step(s) \/ Disconnect(s)
    BY <2>3
  <2>5. s = r
    <3>1. \A t \in Reqs \ {s} : req'[t] = req[t]
      BY <1>2, <2>4 DEF IInv, TypeOK, Step, Disconnect, BeginPlain, BeginStream, StreamSelect,
         Token, CallOk, CallErr, Finish, Select, NextCandidate, End
    <3> QED
      BY <2>2, <3>1
  <2>6. ~BeginStream(r)
    <3>1. ASSUME BeginStream(r) PROVE req'[r] = Begun(req[r], "head", "stream")
      BY <1>2, <3>1 DEF BeginStream, Begun, IInv, TypeOK
    <3>2. Begun(req[r], "head", "stream").pc = "head"
      BY <2>1, BegunFields DEF Stands
    <3> QED
      BY <1>2, <3>1, <3>2
  <2>7. ~Disconnect(r)
    <3>1. ASSUME Disconnect(r) PROVE req'[r] = Moved(req[r], "dropped")
      BY <1>2, <3>1 DEF Disconnect, Moved, IInv, TypeOK
    <3>2. Moved(req[r], "dropped").pc = "dropped"
      BY <2>1, MovedFields DEF Stands, Ended
    <3> QED
      BY <1>2, <3>1, <3>2
  <2>8. BeginPlain(r) \/ StreamSelect(r)
    BY <1>2, <2>4, <2>5, <2>6, <2>7 DEF Step, Token, CallOk, CallErr, Finish, Live
  <2>9. CASE BeginPlain(r)
    <3> DEFINE q == [req[r] EXCEPT !.kind = "plain"]
    <3>1. q \in ReqType /\ ~q.started
      BY <2>1 DEF ReqType
    <3>2. Select(r, q, "failed") /\ now' = now
      BY <2>9 DEF BeginPlain
    <3> HIDE DEF q
    <3> QED
      BY <1>1, <1>2, <3>1, <3>2
  <2>10. CASE StreamSelect(r)
    <3>1. Select(r, req[r], "tail") /\ now' = now
      BY <2>10 DEF StreamSelect
    <3> QED
      BY <1>1, <1>2, <2>1, <3>1
  <2> QED
    BY <2>8, <2>9, <2>10
<1>3. IInv /\ [Next]_vars =>
        [\A r \in Reqs : req[r].pc \in {"idle", "head"} /\ req'[r].pc = "calling"
                         /\ health'[req'[r].cur].until > now
                         => \A a \in req'[r].cands : health'[a].until > now]_vars
  BY <1>2
<1> QED
  BY <1>3, SpecIInv, PTL DEF Spec, PrefersAvailable
=============================================================================
