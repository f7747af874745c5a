------------------------------ MODULE Histories ------------------------------
(***************************************************************************)
(* What a process of gravity-client keeps in ~/.gravity besides accounts:  *)
(* the conversations (client.rs: record_turn, history, start_persistent,   *)
(* conversation, save_conversation, load_conversation; conversation.rs of  *)
(* gravity-core) and the usage counters (metrics.rs of gravity-accounts).  *)
(*                                                                         *)
(* Callers are threads of one process.  Each makes chats: a chat that      *)
(* succeeded is first counted, under the mutex of the metrics, and then    *)
(* recorded by its caller under the mutex of the conversations, which is   *)
(* held while the file is written.  Both files are written in place, so a  *)
(* process killed in between leaves a torn one.  A turn is a number.       *)
(***************************************************************************)
EXTENDS Integers, Sequences, FiniteSets, SequencesExt

CONSTANTS Callers,   \* the threads that chat
          Keys,      \* the conversation keys they use
          Colliding, \* the keys that differ in a separator only
          MaxTurns,  \* how many chats there are
          MaxFaults  \* how often a save fails or the process is killed

Free == "free"

ASSUME HistoriesAssumption == MaxTurns \in Nat \ {0} /\ MaxFaults \in Nat /\ Colliding \subseteq Keys
ASSUME CallersAssumption == Free \notin Callers

\* conversation_path: every separator becomes the same character.
conversation_path(k) == IF k \in Colliding THEN Colliding ELSE {k}
Files == {conversation_path(k) : k \in Keys}

VARIABLES conversations, \* the map of the client: a record per key, or Absent
          file,          \* the history files: a record, Missing or Torn
          metrics,       \* metrics.json: the requests it counts, or TornUsage
          caller,        \* where each caller is, with its key, its turn and what it read of the metrics
          owner,         \* who holds each mutex: [map, usage]
          chats,         \* how many chats succeeded
          kept,          \* history: per key the turns that were saved, each with its place
          reset,         \* history: the chats counted before the last reset_metrics
          clobbered,     \* history: keys whose file was hidden by a record borrowed before start_persistent, or torn
          faults

vars == <<conversations, file, metrics, caller, owner, chats, kept, reset, clobbered, faults>>

Absent == [absent |-> TRUE]
Missing == [missing |-> TRUE]
Torn == [torn |-> TRUE]
TornUsage == -1

\* A conversation: its turns, the version a checkpoint would pin, and whether
\* it is written to disk.
Conversation == [turns |-> <<>>, history_version |-> 0, persistent |-> FALSE]
Held(k) == conversations[k] # Absent
Readable(f) == f \notin {Missing, Torn}

Idle == [pc |-> "idle", turn |-> 0, usage |-> 0, key |-> "none"]

Init ==
    /\ conversations = [k \in Keys |-> Absent]
    /\ file = [f \in Files |-> Missing]
    /\ metrics = 0
    /\ caller = [c \in Callers |-> Idle]
    /\ owner = [map |-> Free, usage |-> Free]
    /\ chats = 0
    /\ kept = [k \in Keys |-> {}]
    /\ reset = 0
    /\ clobbered = {}
    /\ faults = 0

At(c, pc) == caller[c].pc = pc
Goes(c, to) == caller' = [caller EXCEPT ![c] = to]

(***************************************************************************)
(* The metrics.                                                            *)
(***************************************************************************)
\* load_raw: what cannot be parsed counts nothing.
load_raw == IF metrics = TornUsage THEN 0 ELSE metrics

\* A chat succeeds: chat_with_manager calls record_usage, which takes the
\* mutex and reads the file, .. 
record_usage_Unlocked(c) ==
    /\ At(c, "idle") /\ chats < MaxTurns
    /\ chats' = chats + 1
    /\ Goes(c, [Idle EXCEPT !.pc = "counted", !.turn = chats + 1, !.usage = load_raw + 1])
    /\ UNCHANGED <<conversations, file, metrics, owner, kept, reset, clobbered, faults>>
record_usage(c) ==
    /\ At(c, "idle") /\ chats < MaxTurns /\ owner.usage = Free
    /\ chats' = chats + 1
    /\ owner' = [owner EXCEPT !.usage = c]
    /\ Goes(c, [Idle EXCEPT !.pc = "counted", !.turn = chats + 1, !.usage = load_raw + 1])
    /\ UNCHANGED <<conversations, file, metrics, kept, reset, clobbered, faults>>

\* .. save_raw empties it ..
TruncateUsage(c) ==
    /\ At(c, "counted")
    /\ metrics' = TornUsage
    /\ Goes(c, [caller[c] EXCEPT !.pc = "writing"])
    /\ UNCHANGED <<conversations, file, owner, chats, kept, reset, clobbered, faults>>

\* .. and writes it, and the mutex is given back.
save_raw(c) ==
    /\ At(c, "writing")
    /\ metrics' = caller[c].usage
    /\ owner' = [owner EXCEPT !.usage = Free]
    /\ Goes(c, [caller[c] EXCEPT !.pc = "answered", !.usage = 0])
    /\ UNCHANGED <<conversations, file, chats, kept, reset, clobbered, faults>>

\* reset_metrics(None): an empty table, written under the mutex.
reset_metrics ==
    /\ owner.usage = Free /\ metrics \notin {0, TornUsage}
    /\ metrics' = 0
    /\ reset' = chats
    /\ UNCHANGED <<conversations, file, caller, owner, chats, kept, clobbered, faults>>

(***************************************************************************)
(* The conversations.                                                      *)
(***************************************************************************)
append_turn(r, t) == [r EXCEPT !.turns = Append(@, t), !.history_version = @ + 1]
OrNew(k) == IF Held(k) THEN conversations[k] ELSE Conversation

\* load_conversation: what is missing or cannot be parsed is no record.
load_conversation_Fresh(k) == Conversation
load_conversation(k) == IF Readable(file[conversation_path(k)]) THEN file[conversation_path(k)] ELSE Conversation

\* iter_messages, of the map first and else of the file (the system prompt in
\* front of the turns is left out).
iter_messages(r) == r.turns
history(k) == IF Held(k) THEN iter_messages(conversations[k]) ELSE iter_messages(load_conversation(k))

\* start_persistent: the file is read only if the key has no record yet.
start_persistent_Reloads(k) ==
    /\ owner.map = Free
    /\ Held(k) => ~conversations[k].persistent
    /\ conversations' = [conversations EXCEPT ![k] = [load_conversation(k) EXCEPT !.persistent = TRUE]]
    /\ UNCHANGED <<file, metrics, caller, owner, chats, kept, reset, clobbered, faults>>
start_persistent(k) ==
    /\ owner.map = Free
    /\ Held(k) => ~conversations[k].persistent
    /\ conversations' = [conversations EXCEPT ![k] =
            [(IF Held(k) THEN @ ELSE load_conversation(k)) EXCEPT !.persistent = TRUE]]
    /\ clobbered' = IF file[conversation_path(k)] = Torn \/ (Held(k) /\ Readable(file[conversation_path(k)]))
                    THEN clobbered \cup {k} ELSE clobbered
    /\ UNCHANGED <<file, metrics, caller, owner, chats, kept, reset, faults>>

\* conversation: borrow, or create one that is not persistent.
conversation(k) ==
    /\ owner.map = Free /\ ~Held(k)
    /\ conversations' = [conversations EXCEPT ![k] = Conversation]
    /\ UNCHANGED <<file, metrics, caller, owner, chats, kept, reset, clobbered, faults>>

\* record_turn: append under the mutex; a persistent record is saved.
record_turn(c, k) ==
    LET r == append_turn(OrNew(k), caller[c].turn) IN
    /\ At(c, "answered") /\ owner.map = Free
    /\ conversations' = [conversations EXCEPT ![k] = r]
    /\ IF r.persistent
       THEN /\ owner' = [owner EXCEPT !.map = c]
            /\ Goes(c, [caller[c] EXCEPT !.pc = "saving", !.key = k])
       ELSE /\ Goes(c, Idle)
            /\ UNCHANGED owner
    /\ UNCHANGED <<file, metrics, chats, kept, reset, clobbered, faults>>

\* save_conversation: the file is emptied, then written.
TruncateFile(c) ==
    /\ At(c, "saving") /\ file[conversation_path(caller[c].key)] # Torn
    /\ file' = [file EXCEPT ![conversation_path(caller[c].key)] = Torn]
    /\ UNCHANGED <<conversations, metrics, caller, owner, chats, kept, reset, clobbered, faults>>

Places(turns) == {<<i, turns[i]>> : i \in DOMAIN turns}

save_conversation(c) ==
    LET k == caller[c].key
        turns == conversations[k].turns
    IN
    /\ At(c, "saving") /\ file[conversation_path(k)] = Torn
    /\ file' = [file EXCEPT ![conversation_path(k)] = conversations[k]]
    /\ kept' = [kept EXCEPT ![k] = @ \cup Places(turns) \cup {<<Len(turns), caller[c].turn>>}]
    /\ owner' = [owner EXCEPT !.map = Free]
    /\ Goes(c, Idle)
    /\ UNCHANGED <<conversations, metrics, chats, reset, clobbered, faults>>

\* The file cannot be opened or written: record_turn does not look at the error.
SaveFails(c) ==
    /\ At(c, "saving") /\ faults < MaxFaults
    /\ faults' = faults + 1
    /\ owner' = [owner EXCEPT !.map = Free]
    /\ Goes(c, Idle)
    /\ UNCHANGED <<conversations, file, metrics, chats, kept, reset, clobbered>>

\* The process is killed and started again.
Crash ==
    /\ faults < MaxFaults
    /\ faults' = faults + 1
    /\ conversations' = [k \in Keys |-> Absent]
    /\ caller' = [c \in Callers |-> Idle]
    /\ owner' = [map |-> Free, usage |-> Free]
    /\ UNCHANGED <<file, metrics, chats, kept, reset, clobbered>>

Next ==
    \/ \E c \in Callers :
          \/ record_usage(c)
          \/ TruncateUsage(c)
          \/ save_raw(c)
          \/ \E k \in Keys : record_turn(c, k)
          \/ TruncateFile(c)
          \/ save_conversation(c)
          \/ SaveFails(c)
    \/ \E k \in Keys : start_persistent(k) \/ conversation(k)
    \/ reset_metrics
    \/ Crash

Spec == Init /\ [][Next]_vars

Record == [turns : Seq(Nat), history_version : Nat, persistent : BOOLEAN]
Standing == [pc : {"idle", "counted", "writing", "answered", "saving"}, turn : Nat, usage : Nat,
             key : Keys \cup {"none"}]
TypeOK ==
    /\ conversations \in [Keys -> Record \cup {Absent}]
    /\ file \in [Files -> Record \cup {Missing, Torn}]
    /\ metrics \in Nat \cup {TornUsage}
    /\ caller \in [Callers -> Standing]
    /\ owner \in [map : Callers \cup {Free}, usage : Callers \cup {Free}]
    /\ chats \in Nat /\ reset \in Nat /\ faults \in Nat

\* A turn that was saved, by the call that recorded it or by a later one, stays
\* on disk, in its place, whatever is recorded, loaded or restarted after it;
\* left out are a file that was torn, and a record that hid the file because it
\* was in the map before start_persistent (client.rs:593, 610-619).
KeptSurvives ==
    \A k \in Keys \ (clobbered \cup Colliding) :
        LET f == file[conversation_path(k)] IN
        f # Torn /\ kept[k] # {} => Readable(f) /\ kept[k] \subseteq Places(f.turns)

\* While the process lives a conversation only grows: what history returned is
\* the beginning of what it returns later (client.rs:599 history).
HistoryGrows ==
    [][\A k \in Keys : Held(k) /\ conversations'[k] # Absent
            => IsPrefix(history(k), iter_messages(conversations'[k]))]_vars

\* Between two requests the counter has counted every one of them since the
\* last reset, when no fault tore the file (metrics.rs:54 record_usage).
UsageExact ==
    faults = 0 /\ owner.usage = Free /\ (\A c \in Callers : caller[c].pc \notin {"counted", "writing"})
        => metrics = chats - reset

\* "Create (or load) a persistent conversation" (client.rs:608): afterwards the
\* conversation holds the turns its file held.
StartLoadsRecord ==
    [][\A k \in Keys \ Colliding :
         LET f == file[conversation_path(k)]
             started == conversations'[k] # Absent /\ conversations'[k].persistent
                          /\ (Held(k) => ~conversations[k].persistent)
         IN  started /\ Readable(f) => IsPrefix(f.turns, conversations'[k].turns)]_vars
=============================================================================
