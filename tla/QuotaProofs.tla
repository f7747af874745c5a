----------------------------- MODULE QuotaProofs -----------------------------
(***************************************************************************)
(* What the quota cell guarantees for every limit, every table of tiers,   *)
(* every window and any number of worker threads that roll it meanwhile.   *)
(***************************************************************************)
EXTENDS Quota, FiniteSetTheorems, TLAPS

\* The caller a try_consume on the event loop is for has a tier; a sweep never
\* comes to read the usage.
LoopHasTier ==
    /\ At(Loop, "roll") \/ At(Loop, "zero") \/ At(Loop, "reset")
          => Sweeping(Loop) \/ proc[Loop].default \in DefaultLimits
    /\ At(Loop, "read") \/ At(Loop, "rolled") \/ At(Loop, "write")
          => proc[Loop].default \in DefaultLimits

\* What is about to be written, too, is within the ceiling.
WritesWithin == Ceiling # 0 /\ At(Loop, "write") => proc[Loop].usage + 1 <= Ceiling

IInv == TypeOK /\ LoopHasTier /\ RemainingNonNegative /\ WritesWithin

-----------------------------------------------------------------------------
\* The ceiling is a limit no tier passes.
LEMMA CeilingIsHighest ==
    /\ Ceiling \in Nat
    /\ Ceiling # 0 => \A d \in DefaultLimits :
          LET e == IF Limit # 0 THEN Limit ELSE d IN e # 0 /\ e <= Ceiling
<1>1. CASE Limit # 0
  BY <1>1, LimitsAssumption DEF Ceiling
<1>2. CASE Limit = 0 /\ 0 \in DefaultLimits
  BY <1>2 DEF Ceiling
<1>3. CASE Limit = 0 /\ 0 \notin DefaultLimits
  <2>1. Max(DefaultLimits) \in DefaultLimits /\ \A d \in DefaultLimits : Max(DefaultLimits) >= d
    BY TiersAssumption, LimitsAssumption DEF Max
  <2>2. Ceiling = Max(DefaultLimits)
    BY <1>3 DEF Ceiling
  <2> QED
    BY <1>3, <2>1, <2>2, LimitsAssumption
<1> QED
  BY <1>1, <1>2, <1>3

\* What each field of a call in progress is.
LEMMA CallFields ==
  ASSUME TypeOK, NEW p \in Procs
  PROVE  /\ proc[p] \in Call
         /\ proc[p].now \in 0..MaxTime /\ proc[p].now \in Nat
         /\ proc[p].usage \in Nat /\ proc[p].default \in Nat
BY BoundsAssumption DEF TypeOK, Call

\* A call that moves on is a call, and so are all of them.
Stands == {"idle", "roll", "zero", "reset", "read", "rolled", "write"}

LEMMA GotoMoves ==
  ASSUME TypeOK, NEW p \in Procs, NEW pc \in Stands
  PROVE  [proc EXCEPT ![p].pc = pc] \in [Procs -> Call]
<1>1. [proc[p] EXCEPT !.pc = pc] \in Call
  BY CallFields DEF Call, Stands
<1> QED
  BY <1>1 DEF TypeOK

LEMMA NowMoves ==
  ASSUME TypeOK, NEW p \in Procs, NEW f \in [Procs -> Call], NEW t \in 0..MaxTime
  PROVE  [f EXCEPT ![p].now = t] \in [Procs -> Call]
<1>1. [f[p] EXCEPT !.now = t] \in Call
  BY DEF Call
<1> QED
  BY <1>1

LEMMA UsageMoves ==
  ASSUME TypeOK, NEW p \in Procs, NEW f \in [Procs -> Call], NEW u \in Nat
  PROVE  [f EXCEPT ![p].usage = u] \in [Procs -> Call]
<1>1. [f[p] EXCEPT !.usage = u] \in Call
  BY DEF Call
<1> QED
  BY <1>1

LEMMA LoopIsProc == Loop \in Procs
BY DEF Procs

LEMMA InitIInv == Init => IInv
<1> SUFFICES ASSUME Init PROVE IInv
  OBVIOUS
<1>1. {0, 1} \subseteq 0..MaxTime
  BY BoundsAssumption
<1>2. [pc |-> "idle", call |-> "status", now |-> 0, usage |-> 0, default |-> 0] \in Call
  BY <1>1 DEF Call
<1>3. proc \in [Procs -> Call]
  BY <1>2 DEF Init
<1>4. now \in 0..MaxTime /\ granted = {} /\ calls \in 0..MaxCalls
  BY <1>1, BoundsAssumption DEF Init
<1>5. TypeOK
  BY <1>3, <1>4 DEF Init, TypeOK
<1>6. LoopHasTier /\ WritesWithin
  BY LoopIsProc DEF Init, LoopHasTier, WritesWithin, At
<1>7. RemainingNonNegative
  BY CeilingIsHighest DEF Init, RemainingNonNegative
<1> QED
  BY <1>5, <1>6, <1>7 DEF IInv

LEMMA NextTypeOK == TypeOK /\ [Next]_vars => TypeOK'
<1> SUFFICES ASSUME TypeOK, [Next]_vars PROVE TypeOK'
  OBVIOUS
<1>1. ASSUME NEW d \in DefaultLimits, BeginConsume(d) PROVE TypeOK'
  <2> DEFINE to == [proc[Loop] EXCEPT !.pc = "roll", !.call = "try_consume", !.now = now, !.default = d]
  <2>1. to \in Call
    BY CallFields, LoopIsProc, LimitsAssumption DEF TypeOK, Call
  <2>2. proc' = [proc EXCEPT ![Loop] = to]
    BY <1>1 DEF BeginConsume
  <2>3. proc' \in [Procs -> Call]
    BY <2>1, <2>2 DEF TypeOK
  <2>4. calls' \in 0..MaxCalls
    BY <1>1, BoundsAssumption DEF TypeOK, BeginConsume
  <2> QED
    BY <1>1, <2>3, <2>4 DEF TypeOK, BeginConsume
<1>2. ASSUME NEW p \in Procs, BeginStatus(p) PROVE TypeOK'
  <2> DEFINE f == [proc EXCEPT ![p].pc = "roll"]
  <2>1. f \in [Procs -> Call] /\ now \in 0..MaxTime
    BY GotoMoves DEF Stands, TypeOK
  <2>3. proc' = [f EXCEPT ![p].now = now]
    BY <1>2 DEF BeginStatus
  <2> HIDE DEF f
  <2>2. proc' \in [Procs -> Call]
    BY <2>1, <2>3, NowMoves
  <2> QED
    BY <1>2, <2>2 DEF TypeOK, BeginStatus
<1>3. CASE quota_sweep
  <2> DEFINE to == [proc[Loop] EXCEPT !.pc = "roll", !.call = "quota_sweep", !.now = now]
  <2>1. to \in Call
    BY CallFields, LoopIsProc DEF TypeOK, Call
  <2>2. proc' = [proc EXCEPT ![Loop] = to]
    BY <1>3 DEF quota_sweep
  <2>3. proc' \in [Procs -> Call]
    BY <2>1, <2>2 DEF TypeOK
  <2> QED
    BY <1>3, <2>3 DEF TypeOK, quota_sweep
<1>4. ASSUME NEW p \in Procs, RollRead(p) PROVE TypeOK'
  <2>1. proc' \in [Procs -> Call]
    BY <1>4, GotoMoves DEF RollRead, Goto, Stands
  <2> QED
    BY <1>4, <2>1 DEF TypeOK, RollRead
<1>5. ASSUME NEW p \in Procs, RollZero(p) PROVE TypeOK'
  <2> DEFINE f == [proc EXCEPT ![p].pc = "reset"]
  <2>1. f \in [Procs -> Call]
    BY GotoMoves DEF Stands
  <2>3. proc' = [f EXCEPT ![p].usage = 0]
    BY <1>5 DEF RollZero
  <2> HIDE DEF f
  <2>2. proc' \in [Procs -> Call]
    BY <2>1, <2>3, UsageMoves
  <2> QED
    BY <1>5, <2>2 DEF TypeOK, RollZero
<1>6. ASSUME NEW p \in Procs, RollReset(p) PROVE TypeOK'
  <2>1. reset_at' \in Nat
    BY <1>6, CallFields, LimitsAssumption DEF RollReset
  <2>2. proc' \in [Procs -> Call]
    BY <1>6, GotoMoves DEF RollReset, Goto, Stands
  <2> QED
    BY <1>6, <2>1, <2>2 DEF TypeOK, RollReset
<1>7. ASSUME NEW p \in Procs, ReadUsage(p) PROVE TypeOK'
  <2>1. usage \in Nat
    BY DEF TypeOK
  <2> DEFINE f == [proc EXCEPT ![p].pc = "rolled"]
  <2>2. f \in [Procs -> Call]
    BY GotoMoves DEF Stands
  <2>4. proc' = [f EXCEPT ![p].usage = usage]
    BY <1>7 DEF ReadUsage
  <2> HIDE DEF f
  <2>3. proc' \in [Procs -> Call]
    BY <2>1, <2>2, <2>4, UsageMoves
  <2> QED
    BY <1>7, <2>3 DEF TypeOK, ReadUsage
<1>8. CASE Decide
  <2>1. proc' \in [Procs -> Call]
    BY <1>8, LoopIsProc, GotoMoves DEF Decide, Goto, Stands
  <2> QED
    BY <1>8, <2>1 DEF TypeOK, Decide
<1>9. CASE Consume
  <2>1. proc[Loop].usage + 1 \in Nat /\ proc[Loop].now \in 0..MaxTime
    BY CallFields, LoopIsProc
  <2>2. granted' \subseteq [call : 0..MaxCalls, at : 0..MaxTime] /\ usage' \in Nat
    BY <1>9, <2>1 DEF TypeOK, Consume
  <2>3. proc' \in [Procs -> Call]
    BY <1>9, LoopIsProc, GotoMoves DEF Consume, Goto, Stands
  <2> QED
    BY <1>9, <2>2, <2>3 DEF TypeOK, Consume
<1>10. ASSUME NEW p \in Procs, Report(p) PROVE TypeOK'
  <2>1. proc' \in [Procs -> Call]
    BY <1>10, GotoMoves DEF Report, Goto, Stands
  <2> QED
    BY <1>10, <2>1 DEF TypeOK, Report
<1>11. CASE Tick
  BY <1>11, BoundsAssumption DEF TypeOK, Tick
<1>12. CASE Done \/ UNCHANGED vars
  BY <1>12 DEF TypeOK, Done, vars
<1> QED
  BY <1>1, <1>2, <1>3, <1>4, <1>5, <1>6, <1>7, <1>8, <1>9, <1>10, <1>11, <1>12 DEF Next

-----------------------------------------------------------------------------
\* Try_consume carries the limit of a tier; a sweep never gets to read the usage.
LEMMA NextLoopHasTier == TypeOK /\ LoopHasTier /\ [Next]_vars => LoopHasTier'
<1> SUFFICES ASSUME TypeOK, LoopHasTier, [Next]_vars PROVE LoopHasTier'
  OBVIOUS
<1> USE LoopIsProc DEF LoopHasTier, At, Sweeping
<1>1. ASSUME NEW d \in DefaultLimits, BeginConsume(d) PROVE LoopHasTier'
  BY <1>1 DEF TypeOK, Call, BeginConsume
<1>2. ASSUME NEW p \in Procs, BeginStatus(p) PROVE LoopHasTier'
  BY <1>2 DEF TypeOK, Call, BeginStatus
<1>3. CASE quota_sweep
  BY <1>3 DEF TypeOK, Call, quota_sweep
<1>4. ASSUME NEW p \in Procs, RollRead(p) PROVE LoopHasTier'
  BY <1>4 DEF TypeOK, Call, RollRead, Goto
<1>5. ASSUME NEW p \in Procs, RollZero(p) PROVE LoopHasTier'
  BY <1>5 DEF TypeOK, Call, RollZero
<1>6. ASSUME NEW p \in Procs, RollReset(p) PROVE LoopHasTier'
  BY <1>6 DEF TypeOK, Call, RollReset, Goto
<1>7. ASSUME NEW p \in Procs, ReadUsage(p) PROVE LoopHasTier'
  BY <1>7 DEF TypeOK, Call, ReadUsage
<1>8. CASE Decide
  BY <1>8 DEF TypeOK, Call, Decide, Goto
<1>11. CASE Consume
  <2>1. At(Loop, "idle")'
    BY <1>11 DEF TypeOK, Call, Consume, Goto
  <2> QED
    BY <2>1
<1>9. ASSUME NEW p \in Procs, Report(p) PROVE LoopHasTier'
  BY <1>9 DEF TypeOK, Call, Report, Goto
<1>10. CASE Tick \/ Done \/ UNCHANGED vars
  BY <1>10 DEF Tick, Done, vars
<1> QED
  BY <1>1, <1>2, <1>3, <1>4, <1>5, <1>6, <1>7, <1>8, <1>9, <1>10, <1>11 DEF Next

\* A counter read, zeroed or written is within the ceiling: the one written
\* because Refuses was false, and what it was decided on has not changed since.
LEMMA NextWithin ==
  ASSUME TypeOK, LoopHasTier, RemainingNonNegative, WritesWithin, [Next]_vars, Ceiling # 0
  PROVE  /\ usage' <= Ceiling
         /\ \A p \in Procs : proc'[p].usage <= Ceiling
         /\ At(Loop, "write")' => proc'[Loop].usage + 1 <= Ceiling
<1>1. /\ Ceiling \in Nat /\ usage <= Ceiling
      /\ \A p \in Procs : proc[p].usage <= Ceiling
      /\ At(Loop, "write") => proc[Loop].usage + 1 <= Ceiling
  BY CeilingIsHighest DEF RemainingNonNegative, WritesWithin
<1> DEFINE Within == /\ usage' <= Ceiling
                     /\ \A p \in Procs : proc'[p].usage <= Ceiling
                     /\ At(Loop, "write")' => proc'[Loop].usage + 1 <= Ceiling
<1>2. SUFFICES Within
  OBVIOUS
<1> USE LoopIsProc, <1>1 DEF At
<1>3. ASSUME NEW d \in DefaultLimits, BeginConsume(d) PROVE Within
  BY <1>3 DEF TypeOK, Call, BeginConsume
<1>4. ASSUME NEW p \in Procs, BeginStatus(p) PROVE Within
  BY <1>4 DEF TypeOK, Call, BeginStatus
<1>5. CASE quota_sweep
  BY <1>5 DEF TypeOK, Call, quota_sweep
<1>6. ASSUME NEW p \in Procs, RollRead(p) PROVE Within
  BY <1>6 DEF TypeOK, Call, RollRead, Goto
<1>7. ASSUME NEW p \in Procs, RollZero(p) PROVE Within
  BY <1>7 DEF TypeOK, Call, RollZero
<1>8. ASSUME NEW p \in Procs, RollReset(p) PROVE Within
  BY <1>8 DEF TypeOK, Call, RollReset, Goto
<1>9. ASSUME NEW p \in Procs, ReadUsage(p) PROVE Within
  BY <1>9 DEF TypeOK, Call, ReadUsage
<1>10. CASE Decide
  <2>1. proc[Loop].default \in DefaultLimits
    BY <1>10 DEF Decide, LoopHasTier
  <2>2. effective # 0 /\ effective <= Ceiling
    BY <2>1, CeilingIsHighest DEF effective
  <2>3. proc'[Loop].usage = proc[Loop].usage /\ (At(Loop, "write")' => ~Refuses)
    BY <1>10 DEF TypeOK, Call, Decide, Goto
  <2>4. effective \in Nat
    BY CallFields, LimitsAssumption DEF effective
  <2>5. ~Refuses => proc[Loop].usage + 1 <= Ceiling
    BY <2>2, <2>4, CallFields DEF Refuses
  <2>6. \A p \in Procs : proc'[p].usage = proc[p].usage
    BY <1>10 DEF TypeOK, Call, Decide, Goto
  <2>7. usage' = usage
    BY <1>10 DEF Decide
  <2> QED
    BY <2>3, <2>5, <2>6, <2>7
<1>11. CASE Consume
  BY <1>11 DEF TypeOK, Call, Consume, Goto
<1>12. ASSUME NEW p \in Procs, Report(p) PROVE Within
  BY <1>12 DEF TypeOK, Call, Report, Goto
<1>13. CASE Tick \/ Done \/ UNCHANGED vars
  BY <1>13 DEF Tick, Done, vars
<1> HIDE DEF Within
<1> QED
  BY <1>3, <1>4, <1>5, <1>6, <1>7, <1>8, <1>9, <1>10, <1>11, <1>12, <1>13 DEF Next

LEMMA NextIInv == IInv /\ [Next]_vars => IInv'
<1> SUFFICES ASSUME IInv, [Next]_vars PROVE IInv'
  OBVIOUS
<1> USE DEF IInv
<1>1. TypeOK' /\ LoopHasTier'
  BY NextTypeOK, NextLoopHasTier
<1>2. Ceiling' = Ceiling
  BY DEF Ceiling
<1>3. RemainingNonNegative' /\ WritesWithin'
  BY NextWithin, <1>2 DEF RemainingNonNegative, WritesWithin
<1> QED
  BY <1>1, <1>3

\* quota.py: whatever threads do in status meanwhile, the stored counter and
\* every reading of it stay within the highest limit in force, so the
\* "remaining" a caller is told is never negative.
THEOREM CounterWithinLimit == Spec => []RemainingNonNegative
<1>1. Init => IInv
  BY InitIInv
<1>2. IInv /\ [Next]_vars => IInv'
  BY NextIInv
<1>3. IInv => RemainingNonNegative
  BY DEF IInv
<1> QED
  BY <1>1, <1>2, <1>3, PTL DEF Spec

-----------------------------------------------------------------------------
\* The windows. As long as no thread in status rolls one, each begins at the
\* time of a call on the loop, after the end of the one before it.

\* The members of G that lie in a span of time.
CountIn(G, from, to) == Cardinality({g \in G : from <= g.at /\ g.at < to})

Start == reset_at - Window

\* The loop runs its calls one after the other, in the order of their times,
\* a sweep reads and writes no usage, and a call in progress is the last one
\* counted and not granted yet.
LoopInOrder ==
    /\ proc[Loop].now <= now
    /\ Sweeping(Loop) => ~At(Loop, "read") /\ ~At(Loop, "rolled") /\ ~At(Loop, "write")
    /\ IsFiniteSet(granted)
    /\ \A g \in granted :
          g.call <= calls /\ (~At(Loop, "idle") /\ ~Sweeping(Loop) => g.call < calls)

\* Only the loop rolls the window, so it acts on what it has read: an expired
\* window is still expired when it is replaced, an open one still open, and the
\* usage decided on still the usage stored, when it is incremented.
LoopRolls ==
    /\ \A p \in Readers : ~At(p, "zero") /\ ~At(p, "reset")
    /\ reset_at <= proc[Loop].now + Window
    /\ At(Loop, "zero") \/ At(Loop, "reset") => reset_at <= proc[Loop].now
    /\ At(Loop, "read") \/ At(Loop, "rolled") \/ At(Loop, "write") => proc[Loop].now < reset_at
    /\ At(Loop, "reset") \/ At(Loop, "rolled") \/ At(Loop, "write") => proc[Loop].usage = usage

\* The counter is the number of calls granted in the current window, except
\* between the two writes of a roll.
InWindow ==
    /\ \A g \in granted : g.at < reset_at
    /\ IF At(Loop, "reset") THEN usage = 0 ELSE usage = CountIn(granted, Start, reset_at)

\* Neither the current window nor the span of one before it saw more than the
\* ceiling, and no span saw more than twice that.
Limited ==
    /\ CountIn(granted, Start, reset_at) <= Ceiling
    /\ CountIn(granted, Start - Window, Start) <= Ceiling
    /\ \A t \in Int : CountIn(granted, t, t + Window) <= 2 * Ceiling

WInv == /\ IInv /\ LoopInOrder
        /\ ~stolen => LoopRolls /\ InWindow /\ (Ceiling # 0 => Limited)

\* Counting.
LEMMA CountIsNat ==
    ASSUME NEW G, IsFiniteSet(G), NEW from, NEW to
    PROVE  IsFiniteSet({g \in G : from <= g.at /\ g.at < to}) /\ CountIn(G, from, to) \in Nat
<1>1. {g \in G : from <= g.at /\ g.at < to} \in SUBSET G
  OBVIOUS
<1> QED
  BY <1>1, FS_Subset, FS_CardinalityType DEF CountIn

LEMMA CountNone ==
    ASSUME NEW G, NEW from, NEW to, \A g \in G : ~(from <= g.at /\ g.at < to)
    PROVE  CountIn(G, from, to) = 0
<1>1. {g \in G : from <= g.at /\ g.at < to} = {}
  OBVIOUS
<1> QED
  BY <1>1, FS_EmptySet DEF CountIn

\* A span that covers those of G another one does counts no fewer.
LEMMA CountMonotone ==
    ASSUME NEW G, IsFiniteSet(G), NEW from, NEW to, NEW from2, NEW to2,
           \A g \in G : from <= g.at /\ g.at < to => from2 <= g.at /\ g.at < to2
    PROVE  CountIn(G, from, to) <= CountIn(G, from2, to2)
<1>1. {g \in G : from <= g.at /\ g.at < to} \in SUBSET {g \in G : from2 <= g.at /\ g.at < to2}
  OBVIOUS
<1> QED
  BY <1>1, CountIsNat, FS_Subset DEF CountIn

\* What two spans cover together, they count together.
LEMMA CountSplit ==
    ASSUME NEW G, IsFiniteSet(G), NEW from, NEW to, NEW f1, NEW t1, NEW f2, NEW t2,
           \A g \in G : from <= g.at /\ g.at < to => \/ f1 <= g.at /\ g.at < t1
                                                     \/ f2 <= g.at /\ g.at < t2
    PROVE  CountIn(G, from, to) <= CountIn(G, f1, t1) + CountIn(G, f2, t2)
<1> DEFINE S == {g \in G : from <= g.at /\ g.at < to}
           S1 == {g \in G : f1 <= g.at /\ g.at < t1}
           S2 == {g \in G : f2 <= g.at /\ g.at < t2}
<1>1. S \in SUBSET (S1 \cup S2) /\ S1 \cap S2 \in SUBSET S1
  OBVIOUS
<1>2. IsFiniteSet(S1) /\ IsFiniteSet(S2)
  BY CountIsNat
<1> HIDE DEF S, S1, S2
<1>3. IsFiniteSet(S1 \cup S2) /\ Cardinality(S1 \cup S2) = Cardinality(S1) + Cardinality(S2) - Cardinality(S1 \cap S2)
  BY <1>2, FS_Union
<1>4. Cardinality(S) <= Cardinality(S1 \cup S2) /\ Cardinality(S) \in Nat
  BY <1>1, <1>3, FS_Subset, FS_CardinalityType
<1>5. Cardinality(S1 \cap S2) \in Nat /\ Cardinality(S1) \in Nat /\ Cardinality(S2) \in Nat
  BY <1>1, <1>2, FS_Subset, FS_CardinalityType
<1>6. Cardinality(S) <= Cardinality(S1) + Cardinality(S2)
  BY <1>3, <1>4, <1>5
<1> QED
  BY <1>6 DEF CountIn, S, S1, S2

LEMMA CountOneMore ==
    ASSUME NEW G, IsFiniteSet(G), NEW g, g \notin G, NEW from, NEW to
    PROVE  CountIn(G \cup {g}, from, to) =
              CountIn(G, from, to) + (IF from <= g.at /\ g.at < to THEN 1 ELSE 0)
<1> DEFINE S == {h \in G : from <= h.at /\ h.at < to}
           T == {h \in G \cup {g} : from <= h.at /\ h.at < to}
<1>1. IsFiniteSet(S) /\ Cardinality(S) \in Nat
  BY CountIsNat DEF CountIn
<1>2. Cardinality(T) = Cardinality(S) + (IF from <= g.at /\ g.at < to THEN 1 ELSE 0)
  <2>1. CASE from <= g.at /\ g.at < to
    <3>1. T = S \cup {g} /\ g \notin S
      BY <2>1
    <3> HIDE DEF S, T
    <3>2. Cardinality(T) = Cardinality(S) + 1
      BY <1>1, <3>1, FS_AddElement
    <3> QED
      BY <2>1, <3>2
  <2>2. CASE ~(from <= g.at /\ g.at < to)
    <3>1. T = S
      BY <2>2
    <3> HIDE DEF S, T
    <3> QED
      BY <1>1, <2>2, <3>1
  <2> QED
    BY <2>1, <2>2
<1> QED
  BY <1>2 DEF CountIn

LEMMA CountUnchanged ==
    ASSUME NEW G, NEW g, NEW from, NEW to, ~(from <= g.at /\ g.at < to)
    PROVE  CountIn(G \cup {g}, from, to) = CountIn(G, from, to)
<1>1. {h \in G \cup {g} : from <= h.at /\ h.at < to} = {h \in G : from <= h.at /\ h.at < to}
  OBVIOUS
<1> QED
  BY <1>1 DEF CountIn

-----------------------------------------------------------------------------
\* The steps.

LEMMA LoopMoves ==
    ASSUME TypeOK, [Next]_vars
    PROVE  \/ \E d \in DefaultLimits : BeginConsume(d)
           \/ quota_sweep \/ Decide \/ Consume
           \/ RollRead(Loop) \/ RollZero(Loop) \/ RollReset(Loop) \/ ReadUsage(Loop)
           \/ \E p \in Readers : \/ BeginStatus(p) \/ RollRead(p) \/ RollZero(p) \/ RollReset(p)
                                 \/ ReadUsage(p) \/ Report(p)
           \/ UNCHANGED <<usage, reset_at, proc, calls, granted, stolen>> /\ (Tick \/ now' = now)
BY DEF Next, Done, vars, Procs, BeginStatus, Report, Tick

LEMMA NextLoopInOrder ==
    ASSUME TypeOK, LoopInOrder, [Next]_vars PROVE LoopInOrder'
<1>1. /\ now \in Nat /\ calls \in Nat /\ proc[Loop].now \in Nat
      /\ \A g \in granted : g.call \in Nat
  BY CallFields, LoopIsProc, BoundsAssumption DEF TypeOK
<1> USE LoopIsProc DEF LoopInOrder, At, Sweeping
<1>2. ASSUME NEW d \in DefaultLimits, BeginConsume(d) PROVE LoopInOrder'
  BY <1>1, <1>2 DEF TypeOK, Call, BeginConsume
<1>3. CASE quota_sweep
  BY <1>1, <1>3 DEF TypeOK, Call, quota_sweep
<1>4. ASSUME NEW p \in Procs, RollRead(p) \/ RollZero(p) \/ RollReset(p) \/ ReadUsage(p)
      PROVE  LoopInOrder'
  <2>1. /\ proc'[Loop].now = proc[Loop].now /\ proc'[Loop].call = proc[Loop].call
        /\ proc[Loop].pc = "idle" => proc'[Loop].pc = "idle"
        /\ UNCHANGED <<now, calls, granted>>
    BY <1>4 DEF TypeOK, Call, RollRead, RollZero, RollReset, ReadUsage, Goto
  <2>2. Sweeping(Loop) => proc'[Loop].pc \notin {"read", "rolled", "write"}
    BY <1>4 DEF TypeOK, Call, RollRead, RollZero, RollReset, ReadUsage, Goto
  <2> QED
    BY <2>1, <2>2
<1>5. CASE Decide
  BY <1>1, <1>5 DEF TypeOK, Call, Decide, Goto
<1>6. CASE Consume
  <2>1. proc'[Loop].pc = "idle" /\ proc'[Loop].now = proc[Loop].now
    BY <1>6 DEF TypeOK, Call, Consume, Goto
  <2>2. IsFiniteSet(granted')
    BY <1>6, FS_AddElement DEF Consume
  <2>3. \A g \in granted' : g.call <= calls
    BY <1>1, <1>6 DEF Consume
  <2> QED
    BY <2>1, <2>2, <2>3, <1>6 DEF Consume
<1>7. ASSUME NEW p \in Readers, BeginStatus(p) \/ Report(p) PROVE LoopInOrder'
  <2>1. proc'[Loop] = proc[Loop] /\ UNCHANGED <<now, calls, granted>>
    BY <1>7, ReadersAssumption DEF TypeOK, BeginStatus, Report, Goto, Procs
  <2> QED
    BY <2>1
<1>8. CASE UNCHANGED <<usage, reset_at, proc, calls, granted, stolen>> /\ (Tick \/ now' = now)
  BY <1>1, <1>8 DEF Tick
<1> QED
  BY <1>2, <1>3, <1>4, <1>5, <1>6, <1>7, <1>8, LoopMoves DEF Procs

LEMMA NextLoopRolls ==
    ASSUME TypeOK, LoopInOrder, LoopRolls, [Next]_vars, ~stolen'
    PROVE  LoopRolls' /\ ~stolen
<1>1. /\ now \in Nat /\ reset_at \in Nat /\ proc[Loop].now \in Nat /\ usage \in Nat
      /\ proc[Loop].now <= now /\ Window \in Nat \ {0} /\ stolen \in BOOLEAN
  BY CallFields, LoopIsProc, BoundsAssumption, LimitsAssumption DEF TypeOK, LoopInOrder
<1> USE LoopIsProc DEF LoopRolls, At, Sweeping, Expired
<1>2. ASSUME NEW d \in DefaultLimits, BeginConsume(d) PROVE LoopRolls' /\ ~stolen
  BY <1>1, <1>2, ReadersAssumption DEF TypeOK, Call, BeginConsume, Procs
<1>3. CASE quota_sweep
  BY <1>1, <1>3, ReadersAssumption DEF TypeOK, Call, quota_sweep, Procs
<1>4. CASE RollRead(Loop)
  BY <1>1, <1>4, ReadersAssumption DEF TypeOK, Call, RollRead, Goto, Procs
<1>5. CASE RollZero(Loop)
  BY <1>1, <1>5, ReadersAssumption DEF TypeOK, Call, RollZero, Procs
<1>6. CASE RollReset(Loop)
  BY <1>1, <1>6, ReadersAssumption DEF TypeOK, Call, RollReset, Goto, Procs
<1>7. CASE ReadUsage(Loop)
  BY <1>1, <1>7, ReadersAssumption DEF TypeOK, Call, ReadUsage, Procs
<1>8. CASE Decide \/ Consume
  BY <1>1, <1>8, ReadersAssumption DEF TypeOK, Call, Decide, Consume, Goto, Procs
<1>9. ASSUME NEW p \in Readers, \/ BeginStatus(p) \/ RollRead(p) \/ RollZero(p) \/ RollReset(p)
                                \/ ReadUsage(p) \/ Report(p)
      PROVE  LoopRolls' /\ ~stolen
  <2>1. p # Loop /\ p \in Procs /\ ~RollZero(p) /\ ~RollReset(p)
    BY ReadersAssumption DEF Procs, RollZero, RollReset
  <2>2. /\ proc'[Loop] = proc[Loop] /\ \A o \in Readers \ {p} : proc'[o] = proc[o]
        /\ UNCHANGED <<now, usage, reset_at>>
    BY <1>9, <2>1 DEF TypeOK, BeginStatus, RollRead, ReadUsage, Report, Goto, Procs
  <2>3. proc'[p].pc \notin {"zero", "reset"} /\ ~stolen
    <3>1. CASE RollRead(p)
      <4>1. ~Expired(p) /\ ~stolen
        BY <1>1, <2>1, <3>1 DEF RollRead
      <4> QED
        BY <2>1, <3>1, <4>1 DEF TypeOK, Call, RollRead, Goto
    <3>2. CASE BeginStatus(p) \/ ReadUsage(p) \/ Report(p)
      BY <1>1, <2>1, <3>2 DEF TypeOK, Call, BeginStatus, ReadUsage, Report, Goto
    <3> QED
      BY <1>9, <2>1, <3>1, <3>2
  <2> QED
    BY <2>2, <2>3
<1>10. CASE UNCHANGED <<usage, reset_at, proc, calls, granted, stolen>> /\ (Tick \/ now' = now)
  BY <1>1, <1>10 DEF Tick
<1> QED
  BY <1>2, <1>3, <1>4, <1>5, <1>6, <1>7, <1>8, <1>9, <1>10, LoopMoves

\* The steps in which neither the cell nor the grants change, as far as the
\* windows can tell; the others are those of the loop.
Quiet == /\ UNCHANGED <<usage, reset_at, granted>>
         /\ At(Loop, "reset")' <=> At(Loop, "reset")

LEMMA LoopWrites ==
    ASSUME TypeOK, LoopRolls, [Next]_vars
    PROVE  Quiet \/ RollZero(Loop) \/ RollReset(Loop) \/ Consume
<1> USE LoopIsProc DEF Quiet, At
<1>1. ASSUME NEW d \in DefaultLimits, BeginConsume(d) PROVE Quiet
  BY <1>1 DEF TypeOK, Call, BeginConsume
<1>2. CASE quota_sweep \/ Decide \/ RollRead(Loop) \/ ReadUsage(Loop)
  BY <1>2 DEF TypeOK, Call, quota_sweep, Decide, RollRead, ReadUsage, Goto
<1>3. ASSUME NEW p \in Readers, \/ BeginStatus(p) \/ RollRead(p) \/ RollZero(p) \/ RollReset(p)
                                \/ ReadUsage(p) \/ Report(p)
      PROVE  Quiet
  <2>1. p # Loop /\ p \in Procs /\ ~RollZero(p) /\ ~RollReset(p)
    BY ReadersAssumption DEF Procs, RollZero, RollReset, LoopRolls
  <2> QED
    BY <1>3, <2>1 DEF TypeOK, BeginStatus, RollRead, ReadUsage, Report, Goto
<1>4. CASE UNCHANGED <<usage, reset_at, proc, calls, granted, stolen>> /\ (Tick \/ now' = now)
  BY <1>4
<1> QED
  BY <1>1, <1>2, <1>3, <1>4, LoopMoves

\* What the loop grants is a new call, in the window it decided on.
LEMMA ConsumeGrants ==
    ASSUME TypeOK, LoopHasTier, LoopInOrder, LoopRolls, Consume, ~Sweeping(Loop)
    PROVE  LET g == [call |-> calls, at |-> proc[Loop].now] IN
           /\ g \notin granted /\ granted' = granted \cup {g}
           /\ Start <= g.at /\ g.at < reset_at
           /\ usage' = usage + 1 /\ reset_at' = reset_at
           /\ ~At(Loop, "reset") /\ ~At(Loop, "reset")'
<1>1. /\ reset_at \in Nat /\ proc[Loop].now \in Nat /\ Window \in Nat /\ calls \in Nat
      /\ proc[Loop].pc = "write"
  BY CallFields, LoopIsProc, BoundsAssumption, LimitsAssumption DEF TypeOK, Consume, At
<1>2. \A g \in granted : g.call < calls /\ g.call \in Nat
  BY <1>1 DEF LoopInOrder, At, TypeOK
<1>3. [call |-> calls, at |-> proc[Loop].now] \notin granted
  BY <1>1, <1>2
<1>4. Start <= proc[Loop].now /\ proc[Loop].now < reset_at /\ usage' = usage + 1
  BY <1>1 DEF LoopRolls, Start, At, Consume
<1>5. proc'[Loop].pc = "idle"
  BY LoopIsProc DEF TypeOK, Call, Consume, Goto
<1> QED
  BY <1>1, <1>3, <1>4, <1>5 DEF Consume, At

LEMMA GrantTimes == TypeOK => \A g \in granted : g.at \in Nat /\ g.at <= MaxTime
BY BoundsAssumption DEF TypeOK

LEMMA NextInWindow ==
    ASSUME TypeOK, LoopHasTier, LoopInOrder, LoopRolls, InWindow, [Next]_vars
    PROVE  InWindow'
<1>1. /\ \A g \in granted : g.at \in Nat
      /\ usage \in Nat /\ reset_at \in Nat /\ proc[Loop].now \in Nat /\ Window \in Nat \ {0}
      /\ Start \in Int
  BY CallFields, LoopIsProc, LimitsAssumption, GrantTimes DEF TypeOK, Start
<1>2. CASE Quiet
  BY <1>2 DEF InWindow, Quiet, Start, CountIn
<1>3. CASE RollZero(Loop)
  <2>1. usage' = 0 /\ granted' = granted /\ reset_at' = reset_at /\ At(Loop, "reset")'
    BY <1>3, LoopIsProc DEF RollZero, TypeOK, Call, At
  <2> QED
    BY <2>1 DEF InWindow
<1>4. CASE RollReset(Loop)
  <2>1. /\ usage = 0 /\ usage' = usage /\ granted' = granted
        /\ reset_at' = proc[Loop].now + Window /\ ~At(Loop, "reset")'
    BY <1>4, LoopIsProc DEF RollReset, InWindow, TypeOK, Call, At, Goto
  <2>2. \A g \in granted : g.at < proc[Loop].now
    BY <1>1, <1>4 DEF InWindow, LoopRolls, RollReset
  <2>3. Start' = proc[Loop].now
    BY <1>1, <2>1 DEF Start
  <2>4. \A g \in granted' : g.at < reset_at' /\ ~(Start' <= g.at /\ g.at < reset_at')
    BY <1>1, <2>1, <2>2, <2>3
  <2>5. CountIn(granted', Start', reset_at') = 0
    BY <2>4, CountNone
  <2> QED
    BY <2>1, <2>4, <2>5 DEF InWindow
<1>5. CASE Consume
  <2> DEFINE g == [call |-> calls, at |-> proc[Loop].now]
  <2>1. ~Sweeping(Loop)
    BY <1>5 DEF Consume, LoopInOrder
  <2>2. /\ g \notin granted /\ granted' = granted \cup {g} /\ Start <= g.at /\ g.at < reset_at
        /\ usage' = usage + 1 /\ reset_at' = reset_at
        /\ ~At(Loop, "reset") /\ ~At(Loop, "reset")'
    BY <1>5, <2>1, ConsumeGrants
  <2> HIDE DEF g
  <2>3. CountIn(granted', Start, reset_at) = CountIn(granted, Start, reset_at) + 1
    BY <2>2, CountOneMore DEF LoopInOrder
  <2>4. Start' = Start /\ \A h \in granted' : h.at < reset_at'
    BY <2>2 DEF InWindow, Start
  <2> QED
    BY <2>2, <2>3, <2>4 DEF InWindow
<1> QED
  BY <1>2, <1>3, <1>4, <1>5, LoopWrites

LEMMA NextLimited ==
    ASSUME IInv, IInv', LoopInOrder, LoopRolls, InWindow, InWindow', Limited, Ceiling # 0, [Next]_vars
    PROVE  Limited'
<1>1. /\ \A g \in granted : g.at \in Nat
      /\ usage \in Nat /\ reset_at \in Nat /\ proc[Loop].now \in Nat /\ Window \in Nat \ {0}
      /\ Start \in Int /\ IsFiniteSet(granted) /\ Ceiling \in Nat /\ Ceiling' = Ceiling
  BY CallFields, LoopIsProc, LimitsAssumption, GrantTimes, CeilingIsHighest
     DEF IInv, TypeOK, Start, LoopInOrder, Ceiling
<1>2. CASE Quiet \/ RollZero(Loop)
  <2>1. granted' = granted /\ reset_at' = reset_at
    BY <1>2 DEF Quiet, RollZero
  <2> QED
    BY <1>1, <2>1 DEF Limited, Start, CountIn
<1>3. CASE RollReset(Loop)
  <2>1. /\ granted' = granted /\ reset_at <= proc[Loop].now
        /\ reset_at' = proc[Loop].now + Window /\ Start' = proc[Loop].now
    BY <1>1, <1>3 DEF RollReset, LoopRolls, Start
  <2>2. CountIn(granted', Start', reset_at') = 0
    <3>1. \A g \in granted : g.at < proc[Loop].now
      BY <1>1, <2>1 DEF InWindow
    <3>2. \A g \in granted' : ~(Start' <= g.at /\ g.at < reset_at')
      BY <1>1, <2>1, <3>1
    <3> QED
      BY <3>2, CountNone
  <2>3. CountIn(granted, Start' - Window, Start') <= CountIn(granted, Start, reset_at)
    <3>1. \A g \in granted : Start' - Window <= g.at /\ g.at < Start' => Start <= g.at /\ g.at < reset_at
      BY <1>1, <2>1 DEF InWindow, Start
    <3> QED
      BY <1>1, <3>1, CountMonotone
  <2>4. /\ CountIn(granted, Start' - Window, Start') \in Nat
        /\ CountIn(granted, Start, reset_at) \in Nat
    BY <1>1, CountIsNat
  <2>5. CountIn(granted', Start' - Window, Start') <= Ceiling
    BY <1>1, <2>1, <2>3, <2>4 DEF Limited
  <2> QED
    BY <1>1, <2>1, <2>2, <2>5 DEF Limited
<1>4. CASE Consume
  <2> DEFINE g == [call |-> calls, at |-> proc[Loop].now]
  <2>1. /\ g \notin granted /\ granted' = granted \cup {g} /\ Start <= g.at /\ g.at < reset_at
        /\ reset_at' = reset_at /\ ~At(Loop, "reset")' /\ g.at \in Nat
    <3>1. ~Sweeping(Loop)
      BY <1>4 DEF Consume, LoopInOrder
    <3> QED
      BY <1>1, <1>4, <3>1, ConsumeGrants DEF IInv
  <2> HIDE DEF g
  <2>2. /\ Start' = Start /\ IsFiniteSet(granted')
        /\ \A h \in granted' : h.at \in Nat /\ h.at < reset_at
    <3>1. IsFiniteSet(granted \cup {g})
      BY <1>1, FS_AddElement
    <3> QED
      BY <1>1, <2>1, <3>1 DEF Start, InWindow
  <2>3. CountIn(granted', Start, reset_at) <= Ceiling
    BY <1>1, <2>1, <2>2 DEF InWindow, IInv, RemainingNonNegative
  <2>4. CountIn(granted', Start - Window, Start) <= Ceiling
    <3>1. ~(Start - Window <= g.at /\ g.at < Start)
      BY <1>1, <2>1
    <3>2. CountIn(granted \cup {g}, Start - Window, Start) = CountIn(granted, Start - Window, Start)
      BY <3>1, CountUnchanged
    <3> QED
      BY <2>1, <3>2 DEF Limited
  <2>5. ASSUME NEW t \in Int PROVE CountIn(granted', t, t + Window) <= 2 * Ceiling
    <3>1. CASE t <= g.at /\ g.at < t + Window
      <4>1. \A h \in granted' : t <= h.at /\ h.at < t + Window =>
              \/ Start - Window <= h.at /\ h.at < Start
              \/ Start <= h.at /\ h.at < reset_at
        BY <1>1, <2>1, <2>2, <3>1
      <4>2. CountIn(granted', t, t + Window) <=
               CountIn(granted', Start - Window, Start) + CountIn(granted', Start, reset_at)
        BY <2>2, <4>1, CountSplit
      <4>3. /\ CountIn(granted', t, t + Window) \in Nat
            /\ CountIn(granted', Start - Window, Start) \in Nat
            /\ CountIn(granted', Start, reset_at) \in Nat
        BY <2>2, CountIsNat
      <4> QED
        BY <1>1, <2>3, <2>4, <4>2, <4>3
    <3>2. CASE ~(t <= g.at /\ g.at < t + Window)
      <4>1. CountIn(granted \cup {g}, t, t + Window) = CountIn(granted, t, t + Window)
        BY <3>2, CountUnchanged
      <4> QED
        BY <2>1, <4>1 DEF Limited
    <3> QED
      BY <3>1, <3>2
  <2> QED
    BY <1>1, <2>1, <2>2, <2>3, <2>4, <2>5 DEF Limited
<1> QED
  BY <1>2, <1>3, <1>4, LoopWrites DEF IInv

LEMMA InitWInv == Init => WInv
<1> SUFFICES ASSUME Init PROVE WInv
  OBVIOUS
<1>1. /\ IInv /\ granted = {} /\ usage = 0 /\ reset_at = 0 /\ now \in Nat
      /\ proc = [p \in Procs |-> [pc |-> "idle", call |-> "status", now |-> 0, usage |-> 0, default |-> 0]]
  BY InitIInv DEF Init
<1>2. LoopInOrder
  BY <1>1, LoopIsProc, FS_EmptySet DEF LoopInOrder, At, Sweeping
<1>3. LoopRolls
  BY <1>1, LoopIsProc, LimitsAssumption DEF LoopRolls, At, Procs
<1>4. \A from, to : CountIn(granted, from, to) = 0
  BY <1>1, CountNone
<1>5. InWindow
  BY <1>1, <1>4, LoopIsProc DEF InWindow, At
<1>6. Limited
  BY <1>4, CeilingIsHighest DEF Limited
<1> QED
  BY <1>1, <1>2, <1>3, <1>5, <1>6 DEF WInv

LEMMA NextWInv == WInv /\ [Next]_vars => WInv'
<1> SUFFICES ASSUME WInv, [Next]_vars PROVE WInv'
  OBVIOUS
<1>1. IInv /\ IInv' /\ LoopInOrder /\ LoopInOrder' /\ TypeOK /\ LoopHasTier
  BY NextIInv, NextLoopInOrder DEF WInv, IInv
<1>2. ASSUME ~stolen' PROVE LoopRolls' /\ InWindow' /\ (Ceiling' # 0 => Limited')
  <2>1. ~stolen
    BY <1>1, <1>2 DEF Next, BeginConsume, BeginStatus, quota_sweep, RollRead, RollZero, RollReset,
       ReadUsage, Decide, Consume, Report, Tick, Done, vars
  <2>2. LoopRolls /\ InWindow /\ (Ceiling # 0 => Limited)
    BY <2>1 DEF WInv
  <2>3. LoopRolls' /\ InWindow'
    BY <1>1, <1>2, <2>2, NextLoopRolls, NextInWindow
  <2>4. Ceiling' = Ceiling
    BY DEF Ceiling
  <2> QED
    BY <1>1, <2>2, <2>3, <2>4, NextLimited
<1> QED
  BY <1>1, <1>2 DEF WInv

\* quota.py: as long as only try_consume and quota_sweep roll the window, the
\* counter between two calls is exactly the number of calls allowed in it: the
\* read, the decision and the write of a call, and the two writes of a roll,
\* lose and repeat nothing, whatever status reads in between.
THEOREM CounterIsExact == Spec => []UsageExact
<1>1. WInv => UsageExact
  BY DEF WInv, InWindow, UsageExact, CountIn, GrantedIn, Start, At
<1> QED
  BY <1>1, InitWInv, NextWInv, PTL DEF Spec

\* quota.py: windows are aligned to the first call in them, so a span of a
\* window's length may be allowed up to twice the limit, and never more.
THEOREM RateIsBounded == Spec => []RateBounded
<1>1. WInv => RateBounded
  BY DEF WInv, Limited, RateBounded, CountIn, GrantedIn
<1> QED
  BY <1>1, InitWInv, NextWInv, PTL DEF Spec
=============================================================================
