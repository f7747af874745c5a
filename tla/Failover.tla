------------------------------ MODULE Failover ------------------------------
(***************************************************************************)
(* What a chat over an ordered list of candidates promises its caller,     *)
(* whatever checkpoints, tool rounds and waits it takes: candidates are    *)
(* asked in order, a transient failure is retried on the same candidate    *)
(* while there are retries left, the next candidate is asked only after a  *)
(* failure it may not share, and the caller gets an answer or the failure  *)
(* that ended the chat.                                                    *)
(***************************************************************************)
EXTENDS Naturals

CONSTANTS MaxCands,   \* bound on the candidates
          MaxRetries, \* retries of a transient failure on one candidate
          Failures,   \* what a candidate may fail with: records with a field err
          Transient,  \* those worth another try on the same candidate
          Passing,    \* those another candidate may not share
          Refusals,   \* outcomes of a chat that asks no candidate
          NoCandidates, \* its outcome when there is none to ask
          Answer,     \* the outcome of a chat that is answered
          Pending,    \* the outcome of one that is not over
          NoFailure

VARIABLES n,       \* candidates
          cand,    \* the one being asked
          tries,   \* retries it has had
          failure, \* the last failure
          outcome,
          over

vars == <<n, cand, tries, failure, outcome, over>>

Init == /\ n \in 0..MaxCands
        /\ cand = 1 /\ tries = 0
        /\ failure = NoFailure /\ outcome = Pending
        /\ over = FALSE

\* A transient failure is worth every retry there is.
Spent(f) == f \in Transient => tries = MaxRetries

Refuse == /\ ~over /\ failure = NoFailure
          /\ over' = TRUE
          /\ outcome' \in Refusals \cup {NoCandidates}
          /\ outcome' = NoCandidates => n = 0
          /\ UNCHANGED <<n, cand, tries, failure>>

Answers == /\ ~over /\ cand <= n
           /\ over' = TRUE /\ outcome' = Answer
           /\ UNCHANGED <<n, cand, tries, failure>>

Retry == /\ ~over /\ cand <= n /\ tries < MaxRetries
         /\ failure' \in Transient
         /\ tries' = tries + 1
         /\ UNCHANGED <<n, cand, outcome, over>>

MoveOn == /\ ~over /\ cand < n
          /\ failure' \in Passing /\ Spent(failure')
          /\ cand' = cand + 1 /\ tries' = 0
          /\ UNCHANGED <<n, outcome, over>>

GiveUp == /\ ~over /\ cand <= n
          /\ failure' \in Failures /\ Spent(failure')
          /\ failure' \in Passing => cand = n
          /\ over' = TRUE /\ outcome' = failure'.err
          /\ tries' \in {0, tries}
          /\ UNCHANGED <<n, cand>>

Next == Refuse \/ Answers \/ Retry \/ MoveOn \/ GiveUp

Spec == Init /\ [][Next]_vars
=============================================================================
