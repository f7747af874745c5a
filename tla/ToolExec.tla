------------------------------ MODULE ToolExec ------------------------------
(***************************************************************************)
(* execute_tools_parallel of gravity-client/src/afc.rs: one tokio task per *)
(* tool call, at most MAX_TOOL_WORKERS of them past the semaphore, joined  *)
(* in completion order, their results put back in call order.  Turn takes  *)
(* the whole of it in one step, RunTools; the names of this module differ  *)
(* from that one's, so that both can be reasoned about together.           *)
(***************************************************************************)
EXTENDS Integers, FiniteSets

CONSTANTS N,            \* calls.len()
          Workers,      \* MAX_TOOL_WORKERS
          Handled,      \* the calls whose name has a registered handler
          Panicky       \* the calls whose handler may panic

ASSUME NAssumption == N \in Nat
ASSUME WorkersAssumption == Workers \in Nat \ {0}
ASSUME HandlersAssumption == Panicky \subseteq Handled /\ Handled \subseteq 1..N

VARIABLES spawned,   \* how many calls the for loop has spawned
          task,      \* task[i]: where the task of call i stands
          permits,   \* permits left in the semaphore
          results,   \* results[i]: the slot of call i
          phase      \* where execute_tools_parallel itself stands

execVars == <<spawned, task, permits, results, phase>>

Batch == 1..N

\* Option<ToolResult>: id is the call a result belongs to, 0 for the empty
\* tool_call_id of the result made up for a panic.
Empty == [id |-> -1, is_error |-> FALSE]
PanicResult == [id |-> 0, is_error |-> TRUE]
from_output(i) == [id |-> i, is_error |-> i \notin Handled]

Slots == {Empty, PanicResult} \cup {from_output(i) : i \in Batch}
TaskStates == {"unborn", "waiting", "running", "finished", "panicked",
               "joined", "reaped"}

Live == phase \in {"spawning", "joining"}

ExecInit ==
    /\ spawned = 0
    /\ task = [i \in Batch |-> "unborn"]
    /\ permits = Workers
    /\ results = [i \in Batch |-> Empty]
    /\ phase = IF N = 0 THEN "joining" ELSE "spawning"

\* set.spawn(..) for the next call; spawned tasks run while the loop goes on.
Spawn ==
    /\ phase = "spawning"
    /\ spawned' = spawned + 1
    /\ task' = [task EXCEPT ![spawned + 1] = "waiting"]
    /\ phase' = IF spawned + 1 = N THEN "joining" ELSE "spawning"
    /\ UNCHANGED <<permits, results>>

\* sem.acquire_owned().await
Acquire(i) ==
    /\ Live /\ task[i] = "waiting"
    /\ permits > 0
    /\ permits' = permits - 1
    /\ task' = [task EXCEPT ![i] = "running"]
    /\ UNCHANGED <<spawned, results, phase>>

Finish_KeepsPermit(i) ==
    /\ Live /\ task[i] = "running"
    /\ task' = [task EXCEPT ![i] = "finished"]
    /\ UNCHANGED <<spawned, permits, results, phase>>

\* The handler (or the missing-handler branch) produced its output; _permit
\* is dropped with the task.
Finish(i) ==
    /\ Live /\ task[i] = "running"
    /\ task' = [task EXCEPT ![i] = "finished"]
    /\ permits' = permits + 1
    /\ UNCHANGED <<spawned, results, phase>>

\* The handler panics. A build that unwinds ends the task and drops _permit; the
\* release profile (panic = "abort") ends the process.
Panic(i) ==
    /\ Live /\ task[i] = "running"
    /\ i \in Panicky
    /\ \/ /\ task' = [task EXCEPT ![i] = "panicked"]
          /\ permits' = permits + 1
          /\ UNCHANGED phase
       \/ phase' = "aborted" /\ UNCHANGED <<task, permits>>
    /\ UNCHANGED <<spawned, results>>

EmptySlots == {i \in Batch : results[i] = Empty}

\* results.iter_mut().find(|s| s.is_none()), and what is written there.
FillFirstEmpty(res) ==
    \/ EmptySlots = {} /\ UNCHANGED results
    \/ \E s \in EmptySlots : /\ \A j \in EmptySlots : s <= j
                            /\ results' = [results EXCEPT ![s] = res]

\* As JoinOk, but the result is pushed where the next empty slot is: the
\* results come back in the order the handlers end in.
JoinOk_Pushed(i) ==
    /\ phase = "joining" /\ task[i] = "finished"
    /\ task' = [task EXCEPT ![i] = "joined"]
    /\ FillFirstEmpty(from_output(i))
    /\ UNCHANGED <<spawned, permits, phase>>

\* join_next() yields Ok((idx, res)): results[idx] = Some(res).
JoinOk(i) ==
    /\ phase = "joining" /\ task[i] = "finished"
    /\ task' = [task EXCEPT ![i] = "joined"]
    /\ results' = [results EXCEPT ![i] = from_output(i)]
    /\ UNCHANGED <<spawned, permits, phase>>

\* join_next() yields Err(join_err): the made-up result goes to the first
\* empty slot, which need not be the slot of the call that panicked.
JoinErr(i) ==
    /\ phase = "joining" /\ task[i] = "panicked"
    /\ task' = [task EXCEPT ![i] = "reaped"]
    /\ FillFirstEmpty(PanicResult)
    /\ UNCHANGED <<spawned, permits, phase>>

\* The JoinSet is drained: every slot is unwrapped with expect("every slot
\* filled"), which panics in the caller when one is still empty.
Unwrap ==
    /\ phase = "joining"
    /\ \A i \in Batch : task[i] \in {"joined", "reaped"}
    /\ phase' = IF EmptySlots = {} THEN "returned" ELSE "crashed"
    /\ UNCHANGED <<spawned, task, permits, results>>

Done == ~Live /\ UNCHANGED execVars

TaskStep(i) == Acquire(i) \/ Finish(i) \/ Panic(i) \/ JoinOk(i) \/ JoinErr(i)

ExecNext == Spawn \/ Unwrap \/ Done \/ \E i \in Batch : TaskStep(i)

\* tokio polls every ready task, a released permit wakes a waiter, and a
\* handler is assumed to come back or to panic.
Fairness == /\ WF_execVars(Spawn \/ Unwrap)
            /\ \A i \in Batch : WF_execVars(TaskStep(i))

ExecSpec == ExecInit /\ [][ExecNext]_execVars
FairExecSpec == ExecSpec /\ Fairness

-----------------------------------------------------------------------------
ExecTypeOK ==
    /\ spawned \in 0..N
    /\ task \in [Batch -> TaskStates]
    /\ permits \in 0..Workers
    /\ results \in [Batch -> Slots]
    /\ phase \in {"spawning", "joining", "returned", "crashed", "aborted"}

Running == {i \in Batch : task[i] = "running"}

\* The semaphore of execute_tools_parallel leaks no permit, whether a handler
\* returns or panics: free permits and running handlers always add up, so no
\* more than MAX_TOOL_WORKERS handlers run at once.
PermitsAccounted == permits + Cardinality(Running) = Workers

\* "returning one ToolResult per call in the original order": whatever order
\* the tasks complete in, a handler's result is only ever in its own slot.
ResultsInPlace == \A i \in Batch : results[i].id \in {-1, 0, i}

\* A batch that comes back is right slot by slot: each call whose handler came
\* back has its own result, each call whose handler panicked an error result.
ReturnedIsComplete ==
    phase = "returned" =>
        \A i \in Batch : results[i] = IF task[i] = "reaped"
                                      THEN PanicResult ELSE from_output(i)

\* Only a panicking handler can make the final expect("every slot filled")
\* fail: with handlers that come back, execute_tools_parallel never panics.
CrashNeedsPanic == phase = "crashed" => \E i \in Panicky : task[i] = "reaped"

\* "A missing handler or a panic becomes an error result rather than aborting
\* the batch": where panics unwind, the batch never ends in a panic of its own.
PanicBecomesErrorResult == phase # "crashed"

\* Every batch ends: no task waits for a permit forever.
BatchEnds == <>(~Live)
=============================================================================
