--------------------------- MODULE ChatOverProofs ---------------------------
(***************************************************************************)
(* What chat_over guarantees for every list of candidates, every retry     *)
(* policy and every set of errors the adapters may build.                  *)
(***************************************************************************)
EXTENDS ChatOver, TLAPS

\* Provider calls paid for before attempt a on candidate i.
Budget(i, a) == ((i - 1) * (MaxRetries + 1) + a) * MaxIters

WithinBudget ==
    /\ pc \in {"enter", "open", "sleep"} => chats <= Budget(idx, attempt)
    /\ pc = "chat" => chats <= Budget(idx, attempt) + round
    /\ pc = "done" => chats <= Budget(n + 1, 0)

\* A checkpoint is fresh when it is opened, and dropped when it is rejected.
CheckpointsFresh ==
    /\ checkpoint.gen <= opened
    /\ checkpoint \notin rejected
    /\ \A r \in rejected : r.gen <= opened /\ r # NoCheckpoint

NothingMetYet == pc = "enter" => latest.at = "none" /\ idx = 1 /\ attempt = 0

IInv == /\ TypeOK
        /\ NoEarlySurrender
        /\ LatestErrorReported
        /\ StatefulHasCheckpoint
        /\ CheckpointsFresh
        /\ NothingMetYet
        /\ WithinBudget

-----------------------------------------------------------------------------
\* Budget arithmetic: one more attempt costs MaxIters calls, and the attempts
\* of one candidate never cost more than the step to the next candidate.
LEMMA BudgetSteps ==
    ASSUME NEW i \in Nat \ {0}, NEW a \in 0..MaxRetries
    PROVE  /\ Budget(i, a) \in Nat
           /\ Budget(i, a + 1) = Budget(i, a) + MaxIters
           /\ Budget(i, a) + MaxIters <= Budget(i + 1, 0)
<1> DEFINE R == MaxRetries + 1
           b == (i - 1) * R
<1>1. R \in Nat /\ b \in Nat /\ a \in Nat /\ a + 1 <= R /\ MaxIters \in Nat
  BY BoundsAssumption
<1>2. i * R = b + R
  BY <1>1
<1>3. (b + a) * MaxIters \in Nat /\ (b + a + 1) * MaxIters = (b + a) * MaxIters + MaxIters
  <2> HIDE DEF b, R
  <2> QED BY <1>1
<1>4. (b + a + 1) * MaxIters <= (b + R) * MaxIters
  <2>1. PICK d \in Nat : b + R = (b + a + 1) + d
    <3>1. R - a - 1 \in Nat /\ b + R = (b + a + 1) + (R - a - 1)
      <4> HIDE DEF b, R
      <4> QED BY <1>1
    <3> HIDE DEF b, R
    <3> QED BY <3>1
  <2>2. \A x, y, z \in Nat : (x + y) * z = x * z + y * z /\ y * z \in Nat
    OBVIOUS
  <2>3. (b + R) * MaxIters = (b + a + 1) * MaxIters + d * MaxIters /\ d * MaxIters \in Nat
    <3>1. b + a + 1 \in Nat
      <4> HIDE DEF b, R
      <4> QED BY <1>1
    <3> QED BY <1>1, <2>1, <2>2, <3>1
  <2>4. (b + a + 1) * MaxIters \in Nat
    <3> HIDE DEF b, R
    <3> QED BY <1>1
  <2> HIDE DEF b, R
  <2> QED BY <2>3, <2>4
<1>5. Budget(i, a) = (b + a) * MaxIters /\ Budget(i, a + 1) = (b + a + 1) * MaxIters
  BY <1>1 DEF Budget
<1>6. Budget(i + 1, 0) = (b + R) * MaxIters
  <2>1. i + 1 - 1 = i
    OBVIOUS
  <2>2. Budget(i + 1, 0) = (i * R + 0) * MaxIters
    BY <2>1 DEF Budget
  <2> HIDE DEF b, R
  <2> QED BY <1>1, <1>2, <2>2
<1> HIDE DEF b, R
<1> QED
  BY <1>3, <1>4, <1>5, <1>6

LEMMA BudgetMonotone ==
    ASSUME NEW i \in Nat \ {0}, NEW m \in Nat, i <= m
    PROVE  Budget(i + 1, 0) <= Budget(m + 1, 0)
<1> DEFINE R == MaxRetries + 1
<1>1. R \in Nat /\ MaxIters \in Nat
  BY BoundsAssumption
<1>2. \A x, y, z \in Nat : (x + y) * z = x * z + y * z /\ y * z \in Nat /\ x * z \in Nat
  OBVIOUS
<1>3. PICK d \in Nat : m = i + d
  <2> WITNESS m - i \in Nat
  <2> QED OBVIOUS
<1>4. m * R = i * R + d * R /\ d * R \in Nat /\ i * R \in Nat
  BY <1>1, <1>2, <1>3
<1>5. (m * R) * MaxIters = (i * R) * MaxIters + (d * R) * MaxIters /\ (d * R) * MaxIters \in Nat
      /\ (i * R) * MaxIters \in Nat
  <2> HIDE DEF R
  <2> QED BY <1>1, <1>2, <1>4
<1>6. Budget(i + 1, 0) = (i * R) * MaxIters /\ Budget(m + 1, 0) = (m * R) * MaxIters
  <2>1. i + 1 - 1 = i /\ m + 1 - 1 = m /\ i * R + 0 = i * R /\ m * R + 0 = m * R
    BY <1>1, <1>4
  <2> QED BY <2>1 DEF Budget
<1> HIDE DEF R
<1> QED
  BY <1>5, <1>6

-----------------------------------------------------------------------------
LEMMA InitIInv == Init => IInv
<1> SUFFICES ASSUME Init PROVE IInv
  OBVIOUS
<1>1. TypeOK
  BY BoundsAssumption DEF Init, TypeOK, Results, Checkpoints, NoCheckpoint
<1>2. Budget(1, 0) \in Nat
  BY BudgetSteps, BoundsAssumption
<1>3. NoEarlySurrender /\ LatestErrorReported /\ StatefulHasCheckpoint
  BY DEF Init, NoEarlySurrender, LatestErrorReported, StatefulHasCheckpoint
<1>4. CheckpointsFresh /\ NothingMetYet
  BY DEF Init, CheckpointsFresh, NothingMetYet, NoCheckpoint
<1>5. WithinBudget
  BY <1>2 DEF Init, WithinBudget
<1> QED
  BY <1>1, <1>3, <1>4, <1>5 DEF IInv

\* The errors chat_over handles are results it may return, and none of them
\* is mistaken for an answer.
LEMMA ErrorsAreResults ==
    /\ \A e \in CallErrors \cup {AfcExhausted} : e \in Results
    /\ EntryErrors \subseteq Results /\ AccountSelection \in Results /\ Answered \in Results
    /\ ~should_failover(Answered) /\ ~is_transient_rate_limit(Answered)
BY DEF Results, should_failover, is_transient_rate_limit, Answered, Plain

\* A step that handles an error of run_afc, on the way in from pc = "chat"
\* with the calls made so far within the budget of the next attempt.
LEMMA HandleErrIInv ==
    ASSUME IInv, NEW e \in CallErrors \cup {AfcExhausted},
           pc = "chat", HandleErr(e), UNCHANGED <<params, round, opened>>,
           chats' \in Nat, chats' <= Budget(idx, attempt) + MaxIters
    PROVE  IInv'
<1> USE BoundsAssumption
<1>1. e \in Results
  BY ErrorsAreResults
<1>2. idx \in Nat \ {0} /\ attempt \in 0..MaxRetries /\ n \in Nat /\ idx <= n
  BY DEF IInv, TypeOK
<1>3. \/ DueForRetry(e) /\ RetrySame
      \/ ~DueForRetry(e) /\ MayFailOver(e) /\ NextCandidate(e)
      \/ ~DueForRetry(e) /\ ~MayFailOver(e) /\ Return(e) /\ UNCHANGED <<idx, attempt, last_err>>
  BY DEF HandleErr
<1>4. latest' = [at |-> "chat", err |-> e]
  BY DEF HandleErr
<1>5. /\ checkpoint' \in Checkpoints /\ rejected' \subseteq Checkpoints
      /\ CheckpointsFresh'
  BY DEF HandleErr, DropCheckpoint, IInv, TypeOK, CheckpointsFresh, Checkpoints, NoCheckpoint
<1>6. \/ pc' = "sleep" /\ attempt' = attempt + 1 /\ attempt < MaxRetries
            /\ UNCHANGED <<idx, last_err, outcome>>
      \/ pc' = "open" /\ attempt' = 0 /\ idx' = idx + 1 /\ idx < n /\ last_err' = e /\ UNCHANGED outcome
      \/ /\ pc' = "done" /\ outcome' = e /\ UNCHANGED <<idx, attempt, last_err>>
         /\ ~DueForRetry(e) /\ ~MayFailOver(e)
  BY <1>2, <1>3 DEF RetrySame, DueForRetry, MayFailOver, NextCandidate, Return
<1>7. TypeOK'
  BY <1>1, <1>2, <1>4, <1>5, <1>6 DEF IInv, TypeOK, params
<1>8. NoEarlySurrender'
  BY <1>2, <1>4, <1>6 DEF NoEarlySurrender, DueForRetry, MayFailOver, params
<1>9. LatestErrorReported' /\ StatefulHasCheckpoint' /\ NothingMetYet'
  BY <1>4, <1>6 DEF LatestErrorReported, StatefulHasCheckpoint, NothingMetYet
<1>10. WithinBudget'
  <2>1. /\ Budget(idx, attempt + 1) = Budget(idx, attempt) + MaxIters
        /\ Budget(idx, attempt) + MaxIters <= Budget(idx + 1, 0)
        /\ Budget(idx, attempt) \in Nat
    <3>1. idx \in Nat \ {0} /\ attempt \in 0..MaxRetries
      BY <1>2
    <3> QED
      BY <3>1, BudgetSteps
  <2>2. Budget(idx + 1, 0) \in Nat /\ Budget(n + 1, 0) \in Nat
    <3>1. idx + 1 \in Nat \ {0} /\ n + 1 \in Nat \ {0} /\ 0 \in 0..MaxRetries
      BY <1>2
    <3> QED
      BY <3>1, BudgetSteps
  <2>3. Budget(idx + 1, 0) <= Budget(n + 1, 0)
    BY <1>2, BudgetMonotone
  <2>4. CASE pc' = "sleep" /\ attempt' = attempt + 1 /\ UNCHANGED idx
    BY <2>1, <2>4 DEF WithinBudget
  <2>5. CASE pc' = "open" /\ attempt' = 0 /\ idx' = idx + 1
    BY <2>1, <2>2, <2>5 DEF WithinBudget
  <2>6. CASE pc' = "done"
    <3>1. chats' <= Budget(n + 1, 0) /\ n' = n
      BY <2>1, <2>2, <2>3 DEF params
    <3> QED
      BY <2>6, <3>1 DEF WithinBudget, Budget
  <2> QED
    BY <1>6, <2>4, <2>5, <2>6
<1> QED
  BY <1>5, <1>7, <1>8, <1>9, <1>10 DEF IInv

LEMMA NextIInv == IInv /\ [Next]_vars => IInv'
<1> SUFFICES ASSUME IInv, [Next]_vars PROVE IInv'
  OBVIOUS
<1> USE BoundsAssumption
<1>0. idx \in Nat \ {0} /\ attempt \in 0..MaxRetries /\ n \in Nat /\ chats \in Nat
  BY DEF IInv, TypeOK
<1>1. CASE Enter
  <2>1. TypeOK'
    BY <1>1, ErrorsAreResults DEF IInv, TypeOK, Enter, Return, NothingMetYet, params, history
  <2>2. NoEarlySurrender' /\ LatestErrorReported' /\ StatefulHasCheckpoint' /\ NothingMetYet'
    BY <1>1 DEF IInv, Enter, Return, NothingMetYet, NoEarlySurrender, LatestErrorReported,
                StatefulHasCheckpoint, history
  <2>3. CheckpointsFresh'
    BY <1>1 DEF IInv, Enter, CheckpointsFresh, history
  <2>4. chats = 0 \/ chats <= Budget(1, 0)
    BY <1>1 DEF IInv, Enter, NothingMetYet, WithinBudget
  <2>5. Budget(1, 0) = 0
    BY DEF Budget
  <2>6. Budget(n + 1, 0) \in Nat
    BY <1>0, BudgetSteps
  <2>7. WithinBudget'
    BY <1>0, <1>1, <2>4, <2>5, <2>6
       DEF IInv, Enter, Return, NothingMetYet, WithinBudget, params, history
  <2> QED
    BY <2>1, <2>2, <2>3, <2>7 DEF IInv
<1>2. CASE OpenOk
  <2>1. TypeOK'
    BY <1>2 DEF IInv, TypeOK, OpenOk, Checkpoints, params
  <2>2. NoEarlySurrender' /\ LatestErrorReported' /\ NothingMetYet'
    BY <1>2 DEF OpenOk, NoEarlySurrender, LatestErrorReported, NothingMetYet
  <2>3. StatefulHasCheckpoint'
    BY <1>0, <1>2 DEF OpenOk, StatefulHasCheckpoint, NoCheckpoint
  <2>4. CheckpointsFresh'
    <3>1. checkpoint'.gen = opened + 1 /\ opened' = opened + 1 /\ opened \in Nat /\ rejected' = rejected
      BY <1>2 DEF IInv, TypeOK, OpenOk
    <3>2. \A r \in rejected : r.gen <= opened /\ r.gen \in Nat /\ r # NoCheckpoint
      BY DEF IInv, TypeOK, CheckpointsFresh, Checkpoints
    <3> QED
      BY <3>1, <3>2 DEF CheckpointsFresh
  <2>5. WithinBudget'
    BY <1>0, <1>2, BudgetSteps DEF IInv, OpenOk, WithinBudget, params
  <2> QED
    BY <2>1, <2>2, <2>3, <2>4, <2>5 DEF IInv
<1>3. ASSUME NEW e \in CallErrors, OpenErr(e) PROVE IInv'
  <2>1. e \in Results
    BY ErrorsAreResults
  <2>2. \/ /\ idx < n /\ idx' = idx + 1 /\ pc' = "open" /\ UNCHANGED outcome
        \/ idx = n /\ UNCHANGED idx /\ pc' = "done" /\ outcome' = e
    BY <1>3 DEF OpenErr, NextCandidate, Return
  <2>3. TypeOK'
    BY <1>3, <2>1, <2>2 DEF IInv, TypeOK, OpenErr, NextCandidate, params
  <2>4. NoEarlySurrender' /\ LatestErrorReported' /\ NothingMetYet' /\ StatefulHasCheckpoint'
    BY <1>3, <2>2 DEF OpenErr, NoEarlySurrender, LatestErrorReported, NothingMetYet,
                      StatefulHasCheckpoint
  <2>5. CheckpointsFresh'
    BY <1>3 DEF IInv, OpenErr, CheckpointsFresh
  <2>6. WithinBudget'
    <3>1. chats' = chats /\ attempt' = 0 /\ n' = n /\ chats <= Budget(idx, attempt)
      BY <1>3 DEF IInv, OpenErr, NextCandidate, WithinBudget, params
    <3>2. /\ Budget(idx, attempt) \in Nat /\ Budget(idx + 1, 0) \in Nat
          /\ Budget(idx, attempt) + MaxIters <= Budget(idx + 1, 0)
      BY <1>0, BudgetSteps
    <3>3. chats <= Budget(idx + 1, 0)
      BY <1>0, <3>1, <3>2
    <3> QED
      BY <2>2, <3>1, <3>3 DEF WithinBudget
  <2> QED
    BY <2>3, <2>4, <2>5, <2>6 DEF IInv
<1>4. CASE SkipOpen
  <2>1. TypeOK'
    BY <1>4 DEF IInv, TypeOK, SkipOpen, params, history
  <2>2. /\ NoEarlySurrender' /\ LatestErrorReported' /\ NothingMetYet'
        /\ StatefulHasCheckpoint' /\ CheckpointsFresh'
    BY <1>4 DEF IInv, SkipOpen, NeedsOpen, NoEarlySurrender, LatestErrorReported,
                NothingMetYet, StatefulHasCheckpoint, CheckpointsFresh, params, history
  <2>3. WithinBudget'
    BY <1>0, <1>4, BudgetSteps DEF IInv, SkipOpen, WithinBudget, params, history
  <2> QED
    BY <2>1, <2>2, <2>3 DEF IInv
<1>5. ASSUME pc = "chat", round < MaxIters, chats' = chats + 1
      PROVE  chats' \in Nat /\ chats' <= Budget(idx, attempt) + round + 1
             /\ Budget(idx, attempt) \in Nat /\ round \in Nat
  BY <1>0, <1>5, BudgetSteps DEF IInv, TypeOK, WithinBudget
<1>6. ASSUME NEW e \in CallErrors, ChatErr(e) PROVE IInv'
  <2>1. chats' \in Nat /\ chats' <= Budget(idx, attempt) + MaxIters
    BY <1>5, <1>6 DEF ChatErr
  <2>2. pc = "chat" /\ HandleErr(e) /\ UNCHANGED <<params, round, opened>>
    BY <1>6 DEF ChatErr, params
  <2> QED
    BY <2>1, <2>2, HandleErrIInv
<1>7. CASE ChatFinal
  <2>1. TypeOK'
    BY <1>7, <1>5, ErrorsAreResults DEF IInv, TypeOK, ChatFinal, Return, params
  <2>2. NoEarlySurrender' /\ LatestErrorReported' /\ NothingMetYet' /\ StatefulHasCheckpoint'
    BY <1>7, ErrorsAreResults DEF ChatFinal, Return, NoEarlySurrender, LatestErrorReported,
                                  NothingMetYet, StatefulHasCheckpoint
  <2>3. CheckpointsFresh'
    BY <1>7 DEF IInv, ChatFinal, CheckpointsFresh
  <2>4. WithinBudget'
    <3>1. idx <= n
      BY <1>7 DEF IInv, TypeOK, ChatFinal
    <3>2. /\ Budget(idx, attempt) + MaxIters <= Budget(idx + 1, 0)
          /\ Budget(idx + 1, 0) <= Budget(n + 1, 0)
          /\ Budget(idx + 1, 0) \in Nat /\ Budget(n + 1, 0) \in Nat
      <4>1. idx + 1 \in Nat \ {0} /\ n + 1 \in Nat \ {0} /\ 0 \in 0..MaxRetries
        BY <1>0
      <4>2. Budget(idx, attempt) + MaxIters <= Budget(idx + 1, 0)
        BY <1>0, BudgetSteps
      <4>3. Budget(idx + 1, 0) \in Nat /\ Budget(n + 1, 0) \in Nat
        BY <4>1, BudgetSteps
      <4>4. Budget(idx + 1, 0) <= Budget(n + 1, 0)
        BY <1>0, <3>1, BudgetMonotone
      <4> QED
        BY <4>2, <4>3, <4>4
    <3>3. chats' <= Budget(n + 1, 0)
      BY <1>5, <1>7, <3>2 DEF ChatFinal
    <3> QED
      BY <1>7, <3>3 DEF ChatFinal, Return, WithinBudget, params
  <2> QED
    BY <2>1, <2>2, <2>3, <2>4 DEF IInv
<1>8. CASE ChatTools
  <2>1. TypeOK'
    BY <1>8, <1>5 DEF IInv, TypeOK, ChatTools, params
  <2>2. /\ NoEarlySurrender' /\ LatestErrorReported' /\ NothingMetYet'
        /\ StatefulHasCheckpoint' /\ CheckpointsFresh'
    BY <1>8 DEF IInv, ChatTools, NoEarlySurrender, LatestErrorReported, NothingMetYet,
                StatefulHasCheckpoint, CheckpointsFresh, params
  <2>3. WithinBudget'
    BY <1>5, <1>8 DEF ChatTools, WithinBudget
  <2> QED
    BY <2>1, <2>2, <2>3 DEF IInv
<1>9. CASE Exhausted
  <2>1. chats' \in Nat /\ chats' <= Budget(idx, attempt) + MaxIters
    BY <1>0, <1>9 DEF IInv, Exhausted, WithinBudget
  <2>2. pc = "chat" /\ HandleErr(AfcExhausted) /\ UNCHANGED <<params, round, opened>>
    BY <1>9 DEF Exhausted, params
  <2> QED
    BY <2>1, <2>2, HandleErrIInv
<1>10. CASE Wake
  <2>1. TypeOK'
    BY <1>10 DEF IInv, TypeOK, Wake, params, history
  <2> QED
    BY <1>10, <2>1 DEF IInv, Wake, NoEarlySurrender, LatestErrorReported, NothingMetYet,
                       StatefulHasCheckpoint, CheckpointsFresh, WithinBudget, params, history
<1>11. CASE UNCHANGED vars
  BY <1>11 DEF vars, IInv, TypeOK, NoEarlySurrender, LatestErrorReported, NothingMetYet,
               StatefulHasCheckpoint, CheckpointsFresh, WithinBudget
<1> QED
  BY <1>1, <1>2, <1>3, <1>4, <1>6, <1>7, <1>8, <1>9, <1>10, <1>11 DEF Next, Done

LEMMA InvFromIInv ==
    IInv => /\ TypeOK /\ NoEarlySurrender /\ LatestErrorReported
            /\ NoRejectedCheckpoint /\ StatefulHasCheckpoint /\ BoundedCalls
<1> SUFFICES ASSUME IInv PROVE NoRejectedCheckpoint /\ BoundedCalls
  BY DEF IInv
<1> USE BoundsAssumption
<1>1. NoRejectedCheckpoint
  BY DEF IInv, NoRejectedCheckpoint, CheckpointsFresh
<1>2. chats <= Budget(n + 1, 0)
  <2>1. idx \in Nat \ {0} /\ attempt \in 0..MaxRetries /\ n \in Nat /\ chats \in Nat
        /\ round \in 0..MaxIters /\ pc \in {"enter", "open", "chat", "sleep", "done"}
    BY DEF IInv, TypeOK
  <2>2. CASE pc = "done"
    BY <2>2 DEF IInv, WithinBudget
  <2>3. CASE pc = "enter"
    <3>1. Budget(1, 0) = 0 /\ Budget(n + 1, 0) \in Nat
      BY <2>1, BudgetSteps DEF Budget
    <3> QED
      BY <2>1, <2>3, <3>1 DEF IInv, WithinBudget, NothingMetYet
  <2>4. CASE pc \in {"open", "chat", "sleep"}
    <3>1. idx <= n
      BY <2>4 DEF IInv, TypeOK
    <3>2. /\ Budget(idx, attempt) + MaxIters <= Budget(idx + 1, 0)
          /\ Budget(idx + 1, 0) <= Budget(n + 1, 0)
          /\ Budget(idx, attempt) \in Nat /\ Budget(idx + 1, 0) \in Nat /\ Budget(n + 1, 0) \in Nat
      BY <2>1, <3>1, BudgetSteps, BudgetMonotone
    <3>3. chats <= Budget(idx, attempt) + MaxIters
      BY <2>1, <2>4, <3>2 DEF IInv, WithinBudget
    <3> QED
      BY <2>1, <3>2, <3>3
  <2> QED
    BY <2>1, <2>2, <2>3, <2>4
<1>3. Budget(n + 1, 0) = n * (MaxRetries + 1) * MaxIters
  <2>1. n \in Nat /\ n + 1 - 1 = n
    BY DEF IInv, TypeOK
  <2>2. n * (MaxRetries + 1) + 0 = n * (MaxRetries + 1)
    BY <2>1
  <2> QED
    BY <2>1, <2>2 DEF Budget
<1> QED
  BY <1>1, <1>2, <1>3 DEF BoundedCalls

\* chat_over, for every list of candidates and every retry policy: it never
\* surrenders early, reports the error that ended the chat, never reuses a
\* rejected checkpoint, never calls a stateful provider without one, and
\* makes no more provider calls than the policy pays for.
THEOREM ChatOverSafety ==
    Spec => [](/\ TypeOK /\ NoEarlySurrender /\ LatestErrorReported
               /\ NoRejectedCheckpoint /\ StatefulHasCheckpoint /\ BoundedCalls)
<1>1. Init => IInv
  BY InitIInv
<1>2. IInv /\ [Next]_vars => IInv'
  BY NextIInv
<1>3. IInv => /\ TypeOK /\ NoEarlySurrender /\ LatestErrorReported
              /\ NoRejectedCheckpoint /\ StatefulHasCheckpoint /\ BoundedCalls
  BY InvFromIInv
<1> QED
  BY <1>1, <1>2, <1>3, PTL DEF Spec

\* chat_over leaves a candidate only for a checkpoint it could not open, or
\* for an error that should fail over with no retry of it left.
THEOREM ChatOverMovesOn == Spec => MovesOnForAReason
<1> DEFINE A == idx' # idx =>
                  /\ idx' = idx + 1
                  /\ \/ pc = "open"
                     \/ /\ should_failover(latest'.err)
                        /\ is_transient_rate_limit(latest'.err) => attempt = MaxRetries
<1>1. IInv /\ [Next]_vars => [A]_vars
  <2> SUFFICES ASSUME IInv, Next, idx' # idx PROVE A
    OBVIOUS
  <2>1. ASSUME NEW e \in CallErrors \cup {AfcExhausted}, HandleErr(e) PROVE A
    <3>1. /\ ~DueForRetry(e) /\ MayFailOver(e) /\ NextCandidate(e)
          /\ latest' = [at |-> "chat", err |-> e]
      BY <2>1 DEF HandleErr, RetrySame
    <3>2. idx' = idx + 1
      BY <3>1 DEF NextCandidate
    <3>3. attempt \in 0..MaxRetries
      BY DEF IInv, TypeOK
    <3> QED
      BY <3>1, <3>2, <3>3, BoundsAssumption DEF MayFailOver, DueForRetry
  <2>2. ASSUME NEW e \in CallErrors, OpenErr(e) PROVE A
    BY <2>2 DEF OpenErr, NextCandidate
  <2> QED
    BY <2>1, <2>2 DEF Next, Enter, OpenOk, SkipOpen, ChatFinal, ChatTools, Exhausted, Wake,
                      Done, ChatErr, vars
<1>2. Init => IInv
  BY InitIInv
<1>3. IInv /\ [Next]_vars => IInv'
  BY NextIInv
<1> QED
  BY <1>1, <1>2, <1>3, PTL DEF Spec, MovesOnForAReason

-----------------------------------------------------------------------------
\* What the refinement needs besides IInv: there is no outcome before the end
\* and no failure before the first candidate.
Undecided == /\ pc # "done" => outcome = NoError
             /\ pc = "enter" => latest = [at |-> "none", err |-> NoError]

LEMMA InitUndecided == Init => Undecided
BY DEF Init, Undecided

LEMMA NextUndecided == Undecided /\ [Next]_vars => Undecided'
<1> SUFFICES ASSUME Undecided, [Next]_vars PROVE Undecided'
  OBVIOUS
<1>1. ASSUME NEW e \in CallErrors \cup {AfcExhausted}, HandleErr(e), pc = "chat" PROVE Undecided'
  BY <1>1 DEF HandleErr, Undecided, RetrySame, NextCandidate, Return
<1>2. ASSUME NEW e \in CallErrors, OpenErr(e) PROVE Undecided'
  BY <1>2 DEF OpenErr, Undecided, NextCandidate, Return
<1>3. CASE Enter \/ OpenOk \/ SkipOpen \/ ChatFinal \/ ChatTools \/ Wake
  BY <1>3 DEF Enter, OpenOk, SkipOpen, ChatFinal, ChatTools, Wake, Return, Undecided, history
<1>4. CASE UNCHANGED vars
  BY <1>4 DEF vars, Undecided
<1> QED
  BY <1>1, <1>2, <1>3, <1>4 DEF Next, Done, ChatErr, Exhausted

LEMMA InitRefines == Init => Chain!Init
BY BoundsAssumption DEF Init, Chain!Init

\* An error of run_afc maps to a retry, a move or the end of the chat.
LEMMA HandleErrRefines ==
    ASSUME IInv, Undecided, pc = "chat", NEW e \in CallErrors \cup {AfcExhausted},
           HandleErr(e), UNCHANGED params
    PROVE  Chain!Retry \/ Chain!MoveOn \/ Chain!GiveUp
<1> DEFINE f == [at |-> "chat", err |-> e]
<1>1. latest' = f /\ f \in CandidateFailures /\ f.at = "chat" /\ f.err = e
  BY DEF HandleErr, CandidateFailures
<1>2. /\ idx \in Nat \ {0} /\ attempt \in 0..MaxRetries /\ n \in Nat /\ idx <= n
      /\ MaxRetries \in Nat /\ outcome = NoError /\ n' = n
  BY BoundsAssumption DEF IInv, TypeOK, Undecided, params
<1>3. CASE DueForRetry(e) /\ RetrySame
  <2>1. Chain!Retry
    BY <1>1, <1>2, <1>3 DEF Chain!Retry, DueForRetry, RetrySame
  <2> QED BY <2>1
<1>4. CASE ~DueForRetry(e) /\ MayFailOver(e) /\ NextCandidate(e)
  <2>1. Chain!MoveOn
    BY <1>1, <1>2, <1>4 DEF Chain!MoveOn, Chain!Spent, DueForRetry, MayFailOver, NextCandidate
  <2> QED BY <2>1
<1>5. CASE ~DueForRetry(e) /\ ~MayFailOver(e) /\ Return(e) /\ UNCHANGED <<idx, attempt, last_err>>
  <2>1. Chain!GiveUp
    BY <1>1, <1>2, <1>5 DEF Chain!GiveUp, Chain!Spent, DueForRetry, MayFailOver, Return
  <2> QED BY <2>1
<1> QED
  BY <1>3, <1>4, <1>5 DEF HandleErr

LEMMA NextRefines ==
    ASSUME IInv, Undecided, [Next]_vars
    PROVE  [Chain!Next]_(Chain!vars)
<1>0. idx \in Nat \ {0} /\ n \in Nat /\ (pc \in {"open", "chat"} => idx <= n)
  BY DEF IInv, TypeOK
<1>1. CASE Enter
  <2>1. /\ latest = [at |-> "none", err |-> NoError] /\ UNCHANGED <<n, idx, attempt, latest>>
        /\ pc = "enter" /\ outcome = NoError
    BY <1>1 DEF Enter, Undecided, params, history
  <2>2. CASE n > 0 /\ pc' = "open" /\ UNCHANGED outcome
    BY <2>1, <2>2 DEF Chain!vars
  <2>3. CASE \E e \in EntryErrors : Return(e)
    <3>1. AccountSelection \notin EntryErrors
      BY DEF AccountSelection, EntryErrors, ValidationError, Plain
    <3>2. Chain!Refuse
      BY <2>1, <2>3, <3>1 DEF Chain!Refuse, Return
    <3> QED BY <3>2 DEF Chain!Next
  <2>4. CASE n = 0 /\ Return(AccountSelection)
    <3>1. Chain!Refuse
      BY <2>1, <2>4 DEF Chain!Refuse, Return
    <3> QED BY <3>1 DEF Chain!Next
  <2> QED
    BY <1>1, <2>2, <2>3, <2>4 DEF Enter
<1>2. ASSUME NEW e \in CallErrors, OpenErr(e) PROVE Chain!Next
  <2> DEFINE f == [at |-> "open", err |-> e]
  <2>1. /\ latest' = f /\ f \in CandidateFailures /\ f.at = "open" /\ f.err = e
        /\ outcome = NoError /\ pc = "open" /\ n' = n /\ attempt' = 0
    BY <1>2 DEF OpenErr, CandidateFailures, Undecided, params, NextCandidate
  <2>2. CASE idx < n /\ idx' = idx + 1 /\ pc' = "open" /\ UNCHANGED outcome
    <3>1. Chain!MoveOn
      BY <1>0, <2>1, <2>2 DEF Chain!MoveOn, Chain!Spent
    <3> QED BY <3>1 DEF Chain!Next
  <2>3. CASE idx = n /\ UNCHANGED idx /\ Return(e)
    <3>1. Chain!GiveUp
      BY <1>0, <2>1, <2>3 DEF Chain!GiveUp, Chain!Spent, Return
    <3> QED BY <3>1 DEF Chain!Next
  <2> QED
    BY <1>2, <2>2, <2>3 DEF OpenErr, NextCandidate
<1>3. CASE ChatFinal
  <2>1. Chain!Answers
    BY <1>0, <1>3 DEF ChatFinal, Return, Chain!Answers, params
  <2> QED BY <2>1 DEF Chain!Next
<1>4. ASSUME NEW e \in CallErrors, ChatErr(e) PROVE Chain!Next
  BY <1>4, HandleErrRefines DEF ChatErr, Chain!Next
<1>5. CASE Exhausted
  BY <1>5, HandleErrRefines DEF Exhausted, Chain!Next
<1>6. CASE OpenOk \/ SkipOpen \/ ChatTools \/ Wake \/ UNCHANGED vars
  BY <1>6 DEF OpenOk, SkipOpen, ChatTools, Wake, vars, Chain!vars, params, history
<1> QED
  BY <1>1, <1>2, <1>3, <1>4, <1>5, <1>6 DEF Next, Done

\* chat_over implements Failover, for every list of candidates, every retry
\* policy and every set of errors the adapters may build.
THEOREM ChatOverImplementsFailover == Spec => KeepsFailoverPromise
<1>1. Init => IInv /\ Undecided /\ Chain!Init
  BY InitIInv, InitUndecided, InitRefines
<1>2. IInv /\ Undecided /\ [Next]_vars => IInv' /\ Undecided' /\ [Chain!Next]_(Chain!vars)
  BY NextIInv, NextUndecided, NextRefines
<1> QED
  BY <1>1, <1>2, PTL DEF Spec, KeepsFailoverPromise, Chain!Spec

\* The error chat_over returns is the one of the last candidate it tried, for
\* every list of candidates and every retry policy.
THEOREM ReportsLatestError == Spec => []LatestErrorReported
BY ChatOverSafety, PTL

\* No provider call carries a checkpoint that the upstream has rejected,
\* through retries, failover and reopening.
THEOREM RejectedCheckpointDropped == Spec => []NoRejectedCheckpoint
BY ChatOverSafety, PTL
=============================================================================
