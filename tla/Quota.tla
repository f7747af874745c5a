------------------------------- MODULE Quota --------------------------------
(***************************************************************************)
(* quota.py: the hourly counter of one (key, provider) in RocksDB cells.   *)
(* try_consume and the quota_sweep job of jobs.py run on the event loop,   *)
(* one at a time; status runs for GET /api/quota in worker threads. All    *)
(* three roll the window, and a thread may be switched out between any two *)
(* accesses to the database.                                               *)
(***************************************************************************)
EXTENDS Integers, FiniteSets, FiniteSetsExt

CONSTANTS Readers,       \* worker threads in status
          Limit,         \* the cell's explicit limit, 0 when it is not set
          DefaultLimits, \* quota_limit_for of the tiers the caller may have; 0: unlimited
          Window,        \* WINDOW_S
          MaxTime,       \* bound: the clock stops here
          MaxCalls       \* bound on calls of try_consume

Loop == "loop"
Procs == Readers \cup {Loop}

ASSUME LimitsAssumption == Limit \in Nat /\ DefaultLimits \subseteq Nat /\ Window \in Nat \ {0}
ASSUME BoundsAssumption == MaxTime \in Nat \ {0} /\ MaxCalls \in Nat
\* There are some tiers, and one with the highest limit.
ASSUME TiersAssumption == \E highest \in DefaultLimits : \A d \in DefaultLimits : d <= highest
ASSUME ReadersAssumption == Loop \notin Readers

VARIABLES now,      \* time.time()
          usage,    \* <key>:cell:<provider>:quota:currentusage
          reset_at, \* <key>:cell:<provider>:quota:reset_at, 0 when it is not set
          proc,     \* proc[p]: pc, the call it is in, and its locals now, usage, default_limit
          calls

\* For the properties only. granted: the calls of try_consume that were allowed,
\* by number, and when each began. stolen: a thread in status has found the
\* window expired.
VARIABLES granted, stolen

vars == <<now, usage, reset_at, proc, calls, granted, stolen>>

Init == /\ now \in {0, 1} /\ usage = 0 /\ reset_at = 0
        /\ proc = [p \in Procs |-> [pc |-> "idle", call |-> "status", now |-> 0, usage |-> 0, default |-> 0]]
        /\ calls = 0
        /\ granted = {} /\ stolen = FALSE

At(p, pc) == proc[p].pc = pc
Goto(p, pc) == proc' = [proc EXCEPT ![p].pc = pc]

-----------------------------------------------------------------------------
\* now = time.time(), of try_consume with the limit of the caller's tier ...
BeginConsume(default) ==
    /\ At(Loop, "idle") /\ calls < MaxCalls
    /\ calls' = calls + 1
    /\ proc' = [proc EXCEPT ![Loop] = [@ EXCEPT !.pc = "roll", !.call = "try_consume",
                                                !.now = now, !.default = default]]
    /\ UNCHANGED <<now, usage, reset_at, granted, stolen>>

\* ... and of status.
BeginStatus(p) ==
    /\ p # Loop /\ At(p, "idle")
    /\ proc' = [proc EXCEPT ![p].pc = "roll", ![p].now = now]
    /\ UNCHANGED <<now, usage, reset_at, calls, granted, stolen>>

\* The sweep visits the cells that have a reset_at.
quota_sweep ==
    /\ At(Loop, "idle") /\ reset_at # 0
    /\ proc' = [proc EXCEPT ![Loop].pc = "roll", ![Loop].call = "quota_sweep", ![Loop].now = now]
    /\ UNCHANGED <<now, usage, reset_at, calls, granted, stolen>>

Sweeping(p) == proc[p].call = "quota_sweep"

Expired(p) == reset_at <= proc[p].now

\* _roll, and the body of the sweep: read reset_at; an expired window is
\* replaced in two writes.
RollRead(p) ==
    /\ At(p, "roll")
    /\ Goto(p, IF Expired(p) THEN "zero" ELSE IF Sweeping(p) THEN "idle" ELSE "read")
    /\ stolen' = (stolen \/ (p # Loop /\ Expired(p)))
    /\ UNCHANGED <<now, usage, reset_at, calls, granted>>

RollZero_Forgotten(p) ==
    /\ At(p, "zero")
    /\ proc' = [proc EXCEPT ![p].pc = "reset"]
    /\ UNCHANGED <<now, usage, reset_at, calls, granted, stolen>>

RollZero(p) ==
    /\ At(p, "zero")
    /\ usage' = 0
    /\ proc' = [proc EXCEPT ![p].pc = "reset", ![p].usage = 0]
    /\ UNCHANGED <<now, reset_at, calls, granted, stolen>>

RollReset_NotStored(p) ==
    /\ At(p, "reset")
    /\ Goto(p, IF Sweeping(p) THEN "idle" ELSE "rolled")
    /\ UNCHANGED <<now, usage, reset_at, calls, granted, stolen>>

RollReset(p) ==
    /\ At(p, "reset")
    /\ reset_at' = proc[p].now + Window
    /\ Goto(p, IF Sweeping(p) THEN "idle" ELSE "rolled")
    /\ UNCHANGED <<now, usage, calls, granted, stolen>>

\* The window is still open: read its usage.
ReadUsage(p) ==
    /\ At(p, "read")
    /\ proc' = [proc EXCEPT ![p].pc = "rolled", ![p].usage = usage]
    /\ UNCHANGED <<now, usage, reset_at, calls, granted, stolen>>

effective == IF Limit # 0 THEN Limit ELSE proc[Loop].default

Refuses_OffByOne == effective # 0 /\ proc[Loop].usage > effective

Refuses == effective # 0 /\ proc[Loop].usage + 1 > effective

\* try_consume refuses and writes nothing, or goes on to write the new usage.
Decide ==
    /\ At(Loop, "rolled")
    /\ Goto(Loop, IF Refuses THEN "idle" ELSE "write")
    /\ UNCHANGED <<now, usage, reset_at, calls, granted, stolen>>

Consume ==
    /\ At(Loop, "write")
    /\ usage' = proc[Loop].usage + 1
    /\ granted' = granted \cup {[call |-> calls, at |-> proc[Loop].now]}
    /\ Goto(Loop, "idle")
    /\ UNCHANGED <<now, reset_at, calls, stolen>>

\* status returns what it read.
Report(p) ==
    /\ p # Loop /\ At(p, "rolled")
    /\ Goto(p, "idle")
    /\ UNCHANGED <<now, usage, reset_at, calls, granted, stolen>>

Tick == now < MaxTime /\ now' = now + 1 /\ UNCHANGED <<usage, reset_at, proc, calls, granted, stolen>>

Done == now = MaxTime /\ calls = MaxCalls /\ At(Loop, "idle") /\ UNCHANGED vars

Next == \/ Tick \/ Done \/ quota_sweep \/ Decide \/ Consume
        \/ \E d \in DefaultLimits : BeginConsume(d)
        \/ \E p \in Procs : \/ BeginStatus(p) \/ RollRead(p) \/ RollZero(p) \/ RollReset(p)
                            \/ ReadUsage(p) \/ Report(p)

Spec == Init /\ [][Next]_vars

-----------------------------------------------------------------------------
Call == [pc : {"idle", "roll", "zero", "reset", "read", "rolled", "write"},
         call : {"try_consume", "quota_sweep", "status"},
         now : 0..MaxTime, usage : Nat, default : Nat]

TypeOK == /\ now \in 0..MaxTime /\ usage \in Nat /\ reset_at \in Nat
          /\ proc \in [Procs -> Call]
          /\ calls \in 0..MaxCalls /\ granted \subseteq [call : 0..MaxCalls, at : 0..MaxTime]
          /\ stolen \in BOOLEAN

\* The highest limit in force, 0 when some caller is unlimited.
Ceiling == IF Limit # 0 THEN Limit ELSE IF 0 \in DefaultLimits THEN 0 ELSE Max(DefaultLimits)

GrantedIn(from, to) == Cardinality({g \in granted : from <= g.at /\ g.at < to})

\* Between two calls the counter is the number of calls allowed in its window,
\* whatever status reads, as long as no thread in it sets out to roll one.
UsageExact ==
    ~stolen /\ At(Loop, "idle") /\ reset_at # 0
      => usage = GrantedIn(reset_at - Window, reset_at)

\* Windows are aligned to the first call in them, so a span of one window
\* length may see two of them, and never more than twice the limit, as long as
\* only try_consume and the sweep roll them.
RateBounded ==
    Ceiling # 0 /\ ~stolen =>
      \A t \in 0..MaxTime : GrantedIn(t, t + Window) <= 2 * Ceiling

\* Whatever threads do in status, the counter stays within the limit, so the
\* "remaining" they report is never negative.
RemainingNonNegative == Ceiling # 0 => usage <= Ceiling /\ \A p \in Procs : proc[p].usage <= Ceiling

\* "Atomically (under the GIL) consume": no window allows more calls than the
\* limit, whoever asks for the status meanwhile.
ConsumedAtomically ==
    Ceiling # 0 /\ reset_at # 0 => GrantedIn(reset_at - Window, reset_at) <= Ceiling
=============================================================================
