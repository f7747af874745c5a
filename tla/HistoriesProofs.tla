--------------------------- MODULE HistoriesProofs ---------------------------
(***************************************************************************)
(* What the conversations and the counters of a process keep for any       *)
(* number of callers, keys and turns, and any number of failed saves.      *)
(***************************************************************************)
EXTENDS Histories, TLAPS

\* The counter is written by the caller that holds its mutex and by no other;
\* the record a caller saves is in the map.
Writing(c) == caller[c].pc \in {"counted", "writing"}
OneWriter == \A c \in Callers : Writing(c) <=> owner.usage = c
SavesWhatIsHeld == \A c \in Callers : caller[c].pc = "saving" =>
                      /\ caller[c].key \in Keys
                      /\ conversations[caller[c].key] \in Record

\* Without faults the counter is exact when it is free, and its holder is
\* about to make it exact again.
CounterExact == faults = 0 => /\ owner.usage = Free => metrics = chats - reset
                              /\ \A c \in Callers : Writing(c) => caller[c].usage = chats - reset

IInv == TypeOK /\ OneWriter /\ SavesWhatIsHeld /\ CounterExact /\ reset <= chats

-----------------------------------------------------------------------------
LEMMA PathIsFile == \A k \in Keys : conversation_path(k) \in Files
BY DEF Files

LEMMA AppendsAreRecords ==
    ASSUME NEW r \in Record, NEW t \in Nat
    PROVE  append_turn(r, t) \in Record /\ append_turn(r, t).turns = Append(r.turns, t)
<1>1. r.turns \in Seq(Nat) /\ r.history_version \in Nat /\ r.persistent \in BOOLEAN
  BY DEF Record
<1>2. Append(r.turns, t) \in Seq(Nat) /\ r.history_version + 1 \in Nat
  BY <1>1
<1>3. \A q \in Seq(Nat), v \in Nat :
          LET x == [r EXCEPT !.turns = q, !.history_version = v]
          IN  x \in Record /\ x.turns = q
  BY DEF Record
<1> QED
  BY <1>2, <1>3 DEF append_turn

LEMMA NewIsRecord == Conversation \in Record
BY DEF Conversation, Record

LEMMA LoadIsRecord ==
    ASSUME TypeOK, NEW k \in Keys PROVE load_conversation(k) \in Record
BY NewIsRecord, PathIsFile DEF load_conversation, TypeOK, Readable

LEMMA PersistentIsRecord ==
    ASSUME NEW r \in Record
    PROVE  [r EXCEPT !.persistent = TRUE] \in Record /\ [r EXCEPT !.persistent = TRUE].turns = r.turns
BY DEF Record

LEMMA IdleStands == Idle \in Standing /\ Idle.pc = "idle"
BY DEF Idle, Standing

LEMMA UsageIsNat == TypeOK => load_raw \in Nat /\ (metrics \in Nat => load_raw = metrics)
BY DEF TypeOK, load_raw, TornUsage

\* A sequence is a prefix of itself and of itself with one more element.
LEMMA PrefixOfItself == ASSUME NEW s \in Seq(Nat) PROVE IsPrefix(s, s)
BY DEF IsPrefix

LEMMA PrefixOfLonger == ASSUME NEW s \in Seq(Nat), NEW t \in Nat PROVE IsPrefix(s, Append(s, t))
<1>1. Len(Append(s, t)) = Len(s) + 1 /\ Append(s, t) \in Seq(Nat)
  OBVIOUS
<1>2. SubSeq(s, 1, Len(s)) = s
  OBVIOUS
<1>3. SubSeq(Append(s, t), 1, Len(s)) = s
  OBVIOUS
<1> QED
  BY <1>1, <1>2, <1>3 DEF IsPrefix

-----------------------------------------------------------------------------
LEMMA InitIInv == Init => IInv
<1> SUFFICES ASSUME Init PROVE IInv
  OBVIOUS
<1> USE IdleStands
<1>1. TypeOK
  BY DEF Init, TypeOK
<1>2. OneWriter
  BY CallersAssumption DEF Init, OneWriter, Writing
<1>3. SavesWhatIsHeld /\ CounterExact /\ reset <= chats
  BY DEF Init, SavesWhatIsHeld, CounterExact, Writing
<1> QED
  BY <1>1, <1>2, <1>3 DEF IInv

\* Steps that touch neither the counter, its mutex nor the callers.
LEMMA ConversationStep ==
    ASSUME IInv, UNCHANGED <<file, metrics, caller, owner, chats, reset, faults>>,
           NEW k \in Keys, NEW r \in Record, conversations' = [conversations EXCEPT ![k] = r]
    PROVE  IInv'
<1>1. TypeOK'
  BY DEF IInv, TypeOK
<1>2. SavesWhatIsHeld'
  BY DEF IInv, TypeOK, SavesWhatIsHeld
<1>3. OneWriter' /\ CounterExact'
  BY DEF IInv, OneWriter, CounterExact, Writing
<1> QED
  BY <1>1, <1>2, <1>3 DEF IInv

\* Steps of one caller; where it goes, and who holds the counter afterwards.
LEMMA CountsStep ==
    ASSUME IInv, NEW c \in Callers, record_usage(c) PROVE IInv'
<1> DEFINE to == [Idle EXCEPT !.pc = "counted", !.turn = chats + 1, !.usage = load_raw + 1]
<1>1. /\ owner.usage = Free /\ owner' = [owner EXCEPT !.usage = c] /\ chats' = chats + 1
      /\ caller[c].pc = "idle" /\ caller' = [caller EXCEPT ![c] = to]
      /\ UNCHANGED <<conversations, file, metrics, reset, faults>>
  BY DEF record_usage, At, Goes
<1>2. load_raw \in Nat /\ chats \in Nat
  BY UsageIsNat DEF IInv, TypeOK
<1>3. to \in Standing
  <2>1. load_raw + 1 \in Nat /\ chats + 1 \in Nat
    BY <1>2
  <2> QED
    BY <2>1, IdleStands DEF Standing
<1>4. to.pc = "counted" /\ to.usage = load_raw + 1
  BY DEF Idle
<1>5. TypeOK'
  BY <1>1, <1>2, <1>3 DEF IInv, TypeOK
<1>6. \A d \in Callers : ~Writing(d)
  BY <1>1, CallersAssumption DEF IInv, OneWriter
<1>7. caller'[c].pc = "counted" /\ caller'[c].usage = load_raw + 1
      /\ \A d \in Callers \ {c} : caller'[d] = caller[d]
  BY <1>1, <1>3, <1>4 DEF IInv, TypeOK
<1>8. OneWriter'
  BY <1>1, <1>6, <1>7 DEF IInv, TypeOK, OneWriter, Writing
<1>9. SavesWhatIsHeld'
  BY <1>1, <1>7 DEF IInv, SavesWhatIsHeld
<1>10. CounterExact'
  <2> SUFFICES ASSUME faults = 0
               PROVE  owner'.usage # Free /\ caller'[c].usage = chats' - reset'
    BY <1>1, <1>6, <1>7 DEF CounterExact, Writing
  <2>1. metrics = chats - reset /\ metrics \in Int /\ reset \in Nat /\ reset <= chats
    BY <1>1 DEF IInv, CounterExact, TypeOK, TornUsage
  <2>2. owner'.usage = c /\ c # Free
    BY <1>1, CallersAssumption DEF IInv, TypeOK
  <2>3. load_raw = chats - reset
    BY <1>2, <2>1 DEF load_raw, TornUsage
  <2> QED
    BY <1>1, <1>2, <1>7, <2>1, <2>2, <2>3
<1> QED
  BY <1>1, <1>2, <1>5, <1>8, <1>9, <1>10 DEF IInv, TypeOK

\* While a caller holds the counter nobody else writes it, and nobody counts.
LEMMA TruncatesStep ==
    ASSUME IInv, NEW c \in Callers, TruncateUsage(c) PROVE IInv'
<1> DEFINE to == [caller[c] EXCEPT !.pc = "writing"]
<1>1. /\ caller[c].pc = "counted" /\ metrics' = TornUsage /\ caller' = [caller EXCEPT ![c] = to]
      /\ UNCHANGED <<conversations, file, owner, chats, reset, faults>>
  BY DEF TruncateUsage, At, Goes
<1>2. to \in Standing /\ to.pc = "writing" /\ to.usage = caller[c].usage
  BY DEF IInv, TypeOK, Standing
<1>3. caller'[c] = to /\ \A d \in Callers \ {c} : caller'[d] = caller[d]
  BY <1>1 DEF IInv, TypeOK
<1>4. TypeOK'
  BY <1>1, <1>2 DEF IInv, TypeOK
<1>5. \A d \in Callers : (Writing(d))' <=> Writing(d)
  BY <1>1, <1>2, <1>3 DEF Writing
<1>6. OneWriter' /\ SavesWhatIsHeld'
  BY <1>1, <1>2, <1>3, <1>5 DEF IInv, OneWriter, SavesWhatIsHeld
<1>7. CounterExact'
  <2>1. owner'.usage = c /\ c # Free
    BY <1>1, CallersAssumption DEF IInv, OneWriter, Writing
  <2> QED
    BY <1>1, <1>2, <1>3, <1>5, <2>1 DEF IInv, CounterExact
<1> QED
  BY <1>1, <1>4, <1>6, <1>7 DEF IInv

LEMMA WritesStep ==
    ASSUME IInv, NEW c \in Callers, save_raw(c) PROVE IInv'
<1> DEFINE to == [caller[c] EXCEPT !.pc = "answered", !.usage = 0]
<1>1. /\ caller[c].pc = "writing" /\ metrics' = caller[c].usage
      /\ owner' = [owner EXCEPT !.usage = Free] /\ caller' = [caller EXCEPT ![c] = to]
      /\ UNCHANGED <<conversations, file, chats, reset, faults>>
  BY DEF save_raw, At, Goes
<1>2. to \in Standing /\ to.pc = "answered" /\ caller[c].usage \in Nat
  BY DEF IInv, TypeOK, Standing
<1>3. caller'[c] = to /\ \A d \in Callers \ {c} : caller'[d] = caller[d]
  BY <1>1 DEF IInv, TypeOK
<1>4. TypeOK'
  BY <1>1, <1>2 DEF IInv, TypeOK
<1>5. owner.usage = c /\ owner'.usage = Free /\ \A d \in Callers \ {c} : ~Writing(d)
  BY <1>1 DEF IInv, TypeOK, OneWriter, Writing
<1>6. \A d \in Callers : ~(Writing(d))'
  BY <1>2, <1>3, <1>5 DEF Writing
<1>7. OneWriter' /\ SavesWhatIsHeld'
  BY <1>1, <1>2, <1>3, <1>5, <1>6, CallersAssumption DEF IInv, OneWriter, SavesWhatIsHeld
<1>8. CounterExact'
  BY <1>1, <1>6 DEF IInv, CounterExact, Writing
<1> QED
  BY <1>1, <1>4, <1>7, <1>8 DEF IInv

LEMMA ResetsStep == ASSUME IInv, reset_metrics PROVE IInv'
<1>1. TypeOK' /\ reset' <= chats'
  BY DEF IInv, TypeOK, reset_metrics
<1>2. OneWriter' /\ SavesWhatIsHeld'
  BY DEF IInv, OneWriter, SavesWhatIsHeld, Writing, reset_metrics
<1>3. CounterExact'
  <2>1. \A c \in Callers : ~(Writing(c))'
    BY CallersAssumption DEF IInv, OneWriter, Writing, reset_metrics
  <2>2. metrics' = 0 /\ chats' - reset' = 0
    BY DEF IInv, TypeOK, reset_metrics
  <2> QED
    BY <2>1, <2>2 DEF CounterExact
<1> QED
  BY <1>1, <1>2, <1>3 DEF IInv

\* Steps of a caller that has nothing to do with the counter: it goes to a
\* place where it does not write it, and what it saves is in the map.
LEMMA QuietStep ==
    ASSUME IInv, NEW c \in Callers, ~Writing(c), NEW to \in Standing,
           to.pc \in {"idle", "saving"}, caller' = [caller EXCEPT ![c] = to],
           to.pc = "saving" => to.key \in Keys /\ conversations'[to.key] \in Record,
           owner' \in [map : Callers \cup {Free}, usage : Callers \cup {Free}],
           owner'.usage = owner.usage,
           conversations' \in [Keys -> Record \cup {Absent}],
           \A k \in Keys : conversations[k] \in Record => conversations'[k] \in Record,
           file' \in [Files -> Record \cup {Missing, Torn}],
           UNCHANGED <<metrics, chats, reset>>, faults' \in Nat, faults' = 0 => faults = 0
    PROVE  IInv'
<1>1. caller'[c] = to /\ \A d \in Callers \ {c} : caller'[d] = caller[d]
  BY DEF IInv, TypeOK
<1>2. TypeOK'
  BY DEF IInv, TypeOK
<1>3. \A d \in Callers : (Writing(d))' <=> Writing(d)
  BY <1>1 DEF Writing
<1>4. OneWriter' /\ SavesWhatIsHeld'
  BY <1>1, <1>3 DEF IInv, OneWriter, SavesWhatIsHeld
<1>5. CounterExact'
  <2>1. \A d \in Callers : Writing(d) => caller'[d] = caller[d]
    BY <1>1
  <2> QED
    BY <1>3, <2>1 DEF IInv, CounterExact
<1> QED
  BY <1>2, <1>4, <1>5 DEF IInv

LEMMA RecordsStep ==
    ASSUME IInv, NEW c \in Callers, NEW k \in Keys, record_turn(c, k) PROVE IInv'
<1> DEFINE r == append_turn(OrNew(k), caller[c].turn)
           saving == [caller[c] EXCEPT !.pc = "saving", !.key = k]
<1>1. OrNew(k) \in Record /\ caller[c].turn \in Nat /\ caller[c] \in Standing
  BY NewIsRecord DEF IInv, TypeOK, OrNew, Held, Standing
<1>2. r \in Record
  BY <1>1, AppendsAreRecords
<1>3. saving \in Standing /\ saving.pc = "saving" /\ saving.key = k
  BY <1>1 DEF Standing
<1>4. /\ caller[c].pc = "answered" /\ conversations' = [conversations EXCEPT ![k] = r]
      /\ UNCHANGED <<file, metrics, chats, reset, faults>>
      /\ \/ caller' = [caller EXCEPT ![c] = saving] /\ owner' = [owner EXCEPT !.map = c]
         \/ caller' = [caller EXCEPT ![c] = Idle] /\ UNCHANGED owner
  BY DEF record_turn, At, Goes
<1>5. /\ conversations' \in [Keys -> Record \cup {Absent}] /\ conversations'[k] \in Record
      /\ \A j \in Keys : conversations[j] \in Record => conversations'[j] \in Record
  BY <1>2, <1>4 DEF IInv, TypeOK
<1>6. owner' \in [map : Callers \cup {Free}, usage : Callers \cup {Free}] /\ owner'.usage = owner.usage
  BY <1>4 DEF IInv, TypeOK
<1>7. ~Writing(c) /\ file' \in [Files -> Record \cup {Missing, Torn}] /\ faults' \in Nat
  BY <1>4 DEF IInv, TypeOK, Writing
<1> HIDE DEF r, saving
<1>8. CASE caller' = [caller EXCEPT ![c] = saving]
  BY <1>3, <1>4, <1>5, <1>6, <1>7, <1>8, QuietStep
<1>9. CASE caller' = [caller EXCEPT ![c] = Idle]
  BY <1>4, <1>5, <1>6, <1>7, <1>9, IdleStands, QuietStep
<1> QED
  BY <1>4, <1>8, <1>9

LEMMA TruncatesFileStep ==
    ASSUME IInv, NEW c \in Callers, TruncateFile(c) PROVE IInv'
<1>1. TypeOK'
  BY DEF IInv, TypeOK, TruncateFile
<1> QED
  BY <1>1 DEF IInv, OneWriter, SavesWhatIsHeld, CounterExact, Writing, TruncateFile

LEMMA SavesStep ==
    ASSUME IInv, NEW c \in Callers, save_conversation(c) \/ SaveFails(c) PROVE IInv'
<1>1. /\ caller[c].pc = "saving" /\ caller' = [caller EXCEPT ![c] = Idle]
      /\ owner' = [owner EXCEPT !.map = Free]
      /\ UNCHANGED <<conversations, metrics, chats, reset>>
  BY DEF save_conversation, SaveFails, At, Goes
<1>2. caller[c].key \in Keys /\ conversations[caller[c].key] \in Record
  BY <1>1 DEF IInv, SavesWhatIsHeld
<1>3. file' \in [Files -> Record \cup {Missing, Torn}]
  BY <1>2 DEF IInv, TypeOK, save_conversation, SaveFails
<1>4. faults' \in Nat /\ (faults' = 0 => faults = 0)
  BY DEF IInv, TypeOK, save_conversation, SaveFails
<1>5. ~Writing(c) /\ owner'.usage = owner.usage
      /\ owner' \in [map : Callers \cup {Free}, usage : Callers \cup {Free}]
  BY <1>1 DEF IInv, TypeOK, Writing
<1>6. conversations' \in [Keys -> Record \cup {Absent}]
  BY <1>1 DEF IInv, TypeOK
<1> QED
  BY <1>1, <1>3, <1>4, <1>5, <1>6, IdleStands, QuietStep

LEMMA CrashStep == ASSUME IInv, Crash PROVE IInv'
<1>1. \A c \in Callers : caller'[c] = Idle
  BY DEF Crash
<1>2. TypeOK'
  BY IdleStands DEF IInv, TypeOK, Crash
<1>3. OneWriter' /\ SavesWhatIsHeld'
  BY <1>1, IdleStands, CallersAssumption DEF OneWriter, SavesWhatIsHeld, Writing, Crash
<1>4. faults' # 0 /\ reset' <= chats'
  BY DEF IInv, TypeOK, Crash
<1> QED
  BY <1>2, <1>3, <1>4 DEF IInv, CounterExact

LEMMA NextIInv == IInv /\ [Next]_vars => IInv'
<1> SUFFICES ASSUME IInv, [Next]_vars PROVE IInv'
  OBVIOUS
<1>1. ASSUME NEW k \in Keys, start_persistent(k) PROVE IInv'
  <2> DEFINE old == IF Held(k) THEN conversations[k] ELSE load_conversation(k)
  <2>1. old \in Record
    BY LoadIsRecord DEF IInv, TypeOK, Held
  <2>2. [old EXCEPT !.persistent = TRUE] \in Record
    BY <2>1, PersistentIsRecord
  <2>3. conversations' = [conversations EXCEPT ![k] = [old EXCEPT !.persistent = TRUE]]
    BY <1>1 DEF start_persistent, IInv, TypeOK
  <2> HIDE DEF old
  <2> QED
    BY <1>1, <2>2, <2>3, ConversationStep DEF start_persistent
<1>2. ASSUME NEW k \in Keys, conversation(k) PROVE IInv'
  BY <1>2, NewIsRecord, ConversationStep DEF conversation
<1>3. CASE UNCHANGED vars
  BY <1>3 DEF vars, IInv, TypeOK, OneWriter, SavesWhatIsHeld, CounterExact, Writing
<1> QED
  BY <1>1, <1>2, <1>3, CountsStep, TruncatesStep, WritesStep, ResetsStep, RecordsStep,
     TruncatesFileStep, SavesStep, CrashStep DEF Next

\* The counter, for any number of threads that chat at once and any number of
\* resets: between two requests it has counted every one of them.
THEOREM UsageCounted == Spec => [](TypeOK /\ UsageExact)
<1>1. Init => IInv
  BY InitIInv
<1>2. IInv /\ [Next]_vars => IInv'
  BY NextIInv
<1>3. IInv => TypeOK /\ UsageExact
  BY DEF IInv, CounterExact, UsageExact
<1> QED
  BY <1>1, <1>2, <1>3, PTL DEF Spec

-----------------------------------------------------------------------------
\* A step leaves the turns of a record in the map alone or adds one.
LEMMA StepGrows ==
    ASSUME IInv, Next, NEW k \in Keys, Held(k), conversations'[k] # Absent
    PROVE  \/ conversations'[k].turns = conversations[k].turns
           \/ \E t \in Nat : conversations'[k].turns = Append(conversations[k].turns, t)
<1>1. conversations[k] \in Record /\ conversations \in [Keys -> Record \cup {Absent}]
  BY DEF IInv, TypeOK, Held
<1>2. ASSUME NEW c \in Callers, NEW j \in Keys, record_turn(c, j)
      PROVE  \/ conversations'[k].turns = conversations[k].turns
             \/ \E t \in Nat : conversations'[k].turns = Append(conversations[k].turns, t)
  <2>1. conversations' = [conversations EXCEPT ![j] = append_turn(OrNew(j), caller[c].turn)]
    BY <1>2 DEF record_turn
  <2>2. CASE j # k
    BY <1>1, <2>1, <2>2
  <2>3. CASE j = k
    <3>1. OrNew(k) = conversations[k] /\ caller[c].turn \in Nat
      BY DEF OrNew, IInv, TypeOK, Standing
    <3>2. conversations'[k] = append_turn(conversations[k], caller[c].turn)
      BY <1>1, <2>1, <2>3, <3>1
    <3> QED
      BY <1>1, <3>1, <3>2, AppendsAreRecords
  <2> QED
    BY <2>2, <2>3
<1>3. ASSUME NEW j \in Keys, start_persistent(j)
      PROVE  conversations'[k].turns = conversations[k].turns
  <2>1. CASE j # k
    BY <1>1, <1>3, <2>1 DEF start_persistent
  <2>2. CASE j = k
    <3>1. conversations'[k] = [conversations[k] EXCEPT !.persistent = TRUE]
      BY <1>1, <1>3, <2>2 DEF start_persistent
    <3> QED
      BY <1>1, <3>1, PersistentIsRecord
  <2> QED
    BY <2>1, <2>2
<1>4. ASSUME NEW j \in Keys, conversation(j)
      PROVE  conversations'[k].turns = conversations[k].turns
  BY <1>1, <1>4 DEF conversation
<1>5. ASSUME Crash PROVE FALSE
  BY <1>5 DEF Crash
<1>6. ASSUME UNCHANGED conversations PROVE conversations'[k].turns = conversations[k].turns
  BY <1>6
<1> QED
  BY <1>2, <1>3, <1>4, <1>5, <1>6
     DEF Next, record_usage, TruncateUsage, save_raw, TruncateFile, save_conversation, SaveFails,
         reset_metrics

\* A conversation only grows while the process lives, whoever records turns in
\* it, starts it or saves it.
THEOREM ConversationsGrow == Spec => HistoryGrows
<1> DEFINE A == \A k \in Keys : Held(k) /\ conversations'[k] # Absent
                    => IsPrefix(history(k), iter_messages(conversations'[k]))
<1>1. IInv /\ [Next]_vars => [A]_vars
  <2> SUFFICES ASSUME IInv, Next, NEW k \in Keys, Held(k), conversations'[k] # Absent
               PROVE  IsPrefix(history(k), iter_messages(conversations'[k]))
    OBVIOUS
  <2>1. history(k) = conversations[k].turns /\ iter_messages(conversations'[k]) = conversations'[k].turns
    BY DEF history, iter_messages
  <2>2. conversations[k].turns \in Seq(Nat)
    BY DEF IInv, TypeOK, Held, Record
  <2> QED
    BY <2>1, <2>2, StepGrows, PrefixOfItself, PrefixOfLonger
<1>2. Init => IInv
  BY InitIInv
<1>3. IInv /\ [Next]_vars => IInv'
  BY NextIInv
<1> QED
  BY <1>1, <1>2, <1>3, PTL DEF Spec, HistoryGrows

-----------------------------------------------------------------------------
\* What was saved. The file and a persistent record in the map both hold every
\* turn that was saved, in its place; the caller that holds the mutex of the
\* map is the one that saves, and its turn is the last of the record it saves.
OneSaver == \A c \in Callers : caller[c].pc = "saving" <=> owner.map = c

LastIs(r, t) == r.persistent /\ Len(r.turns) > 0 /\ r.turns[Len(r.turns)] = t
SavesItsTurn == \A c \in Callers : caller[c].pc = "saving" =>
                   LastIs(conversations[caller[c].key], caller[c].turn)

OnDisk(k) == LET f == file[conversation_path(k)] IN
             f # Torn /\ kept[k] # {} => f # Missing /\ kept[k] \subseteq Places(f.turns)
InMap(k) == Held(k) /\ conversations[k].persistent => kept[k] \subseteq Places(conversations[k].turns)

Sound == Keys \ (clobbered \cup Colliding)
KInv == /\ IInv /\ OneSaver /\ SavesItsTurn
        /\ kept \in [Keys -> SUBSET (Nat \X Nat)]
        /\ \A k \in Sound : OnDisk(k) /\ InMap(k)

LEMMA PlacesGrow ==
    ASSUME NEW s \in Seq(Nat), NEW t \in Nat PROVE Places(s) \subseteq Places(Append(s, t))
BY DEF Places

LEMMA PlacesArePairs == ASSUME NEW s \in Seq(Nat) PROVE Places(s) \subseteq Nat \X Nat
BY DEF Places

LEMMA RecordIsReadable == ASSUME NEW r \in Record PROVE r # Missing /\ r # Torn /\ r # Absent
<1>1. DOMAIN r = {"turns", "history_version", "persistent"}
  BY DEF Record
<1>2. DOMAIN Missing = {"missing"} /\ DOMAIN Torn = {"torn"} /\ DOMAIN Absent = {"absent"}
  BY DEF Missing, Torn, Absent
<1> QED
  BY <1>1, <1>2

\* A key that collides with no other has a file of its own.
LEMMA OwnFile ==
    ASSUME NEW k \in Keys \ Colliding, NEW j \in Keys, j # k
    PROVE  conversation_path(j) # conversation_path(k)
BY DEF conversation_path

LEMMA InitKInv == Init => KInv
<1> SUFFICES ASSUME Init PROVE KInv
  OBVIOUS
<1>1. IInv
  BY InitIInv
<1>2. OneSaver /\ SavesItsTurn
  BY IdleStands, CallersAssumption DEF Init, OneSaver, SavesItsTurn
<1>3. kept \in [Keys -> SUBSET (Nat \X Nat)] /\ \A k \in Keys : kept[k] = {}
  BY DEF Init
<1>4. \A k \in Sound : OnDisk(k) /\ InMap(k)
  BY <1>3 DEF Sound, OnDisk, InMap
<1> QED
  BY <1>1, <1>2, <1>3, <1>4 DEF KInv

\* The steps of the counter see nothing of this.
LEMMA CounterKeeps ==
    ASSUME KInv, IInv', UNCHANGED <<conversations, file, kept, clobbered>>, owner'.map = owner.map,
           \A c \in Callers : /\ caller'[c].pc = "saving" <=> caller[c].pc = "saving"
                              /\ caller'[c].pc = "saving" => caller'[c] = caller[c]
    PROVE  KInv'
<1>1. OneSaver' /\ SavesItsTurn'
  BY DEF KInv, OneSaver, SavesItsTurn
<1>2. \A k \in Sound' : OnDisk(k)' /\ InMap(k)'
  BY DEF KInv, Sound, OnDisk, InMap, Held
<1> QED
  BY <1>1, <1>2 DEF KInv

LEMMA CounterStepsKeep ==
    ASSUME KInv, NEW c \in Callers, record_usage(c) \/ TruncateUsage(c) \/ save_raw(c), IInv'
    PROVE  KInv'
<1>1. /\ UNCHANGED <<conversations, file, kept, clobbered>>
      /\ owner'.map = owner.map
  BY DEF KInv, IInv, TypeOK, record_usage, TruncateUsage, save_raw
<1>2. /\ \A d \in Callers \ {c} : caller'[d] = caller[d]
      /\ caller[c].pc # "saving"
  BY DEF KInv, IInv, TypeOK, record_usage, TruncateUsage, save_raw, At, Goes
<1>3. caller'[c].pc # "saving"
  <2>1. CASE record_usage(c)
    BY <2>1 DEF KInv, IInv, TypeOK, record_usage, Goes, Idle
  <2>2. CASE TruncateUsage(c)
    BY <2>2 DEF KInv, IInv, TypeOK, Standing, TruncateUsage, Goes
  <2>3. CASE save_raw(c)
    BY <2>3 DEF KInv, IInv, TypeOK, Standing, save_raw, Goes
  <2> QED
    BY <2>1, <2>2, <2>3
<1> QED
  BY <1>1, <1>2, <1>3, CounterKeeps

\* Nobody saves while the mutex of the map is free.
LEMMA NobodySaves ==
    ASSUME KInv, owner.map = Free PROVE \A c \in Callers : caller[c].pc # "saving"
BY CallersAssumption DEF KInv, OneSaver

LEMMA RecordKeeps ==
    ASSUME KInv, NEW c \in Callers, NEW j \in Keys, record_turn(c, j), IInv' PROVE KInv'
<1> DEFINE old == OrNew(j)
           t == caller[c].turn
           r == append_turn(old, t)
<1>1. /\ owner.map = Free /\ conversations' = [conversations EXCEPT ![j] = r]
      /\ UNCHANGED <<file, kept, clobbered>>
      /\ IF r.persistent
         THEN /\ owner' = [owner EXCEPT !.map = c]
              /\ caller' = [caller EXCEPT ![c] = [caller[c] EXCEPT !.pc = "saving", !.key = j]]
         ELSE caller' = [caller EXCEPT ![c] = Idle] /\ UNCHANGED owner
  BY DEF record_turn, Goes
<1>2. /\ old \in Record /\ t \in Nat /\ caller[c] \in Standing
      /\ Held(j) => old = conversations[j]
      /\ ~Held(j) => old = Conversation
  BY NewIsRecord DEF KInv, IInv, TypeOK, OrNew, Held, Standing
<1>3. r \in Record /\ r.turns = Append(old.turns, t) /\ r.persistent = old.persistent
      /\ old.turns \in Seq(Nat)
  <2>1. old.turns \in Seq(Nat) /\ old.history_version \in Nat
    BY <1>2 DEF Record
  <2>2. \A q \in Seq(Nat), v \in Nat :
            [old EXCEPT !.turns = q, !.history_version = v].persistent = old.persistent
    BY <1>2 DEF Record
  <2>3. r.persistent = old.persistent
    BY <1>2, <2>1, <2>2 DEF append_turn
  <2> QED
    BY <1>2, <2>1, <2>3, AppendsAreRecords
<1> HIDE DEF r, old
<1>4. /\ conversations'[j] = r /\ \A k \in Keys \ {j} : conversations'[k] = conversations[k]
      /\ \A d \in Callers \ {c} : caller'[d] = caller[d]
  BY <1>1 DEF KInv, IInv, TypeOK
<1>5. OneSaver' /\ SavesItsTurn'
  <2>1. \A d \in Callers : caller[d].pc # "saving"
    BY <1>1, NobodySaves
  <2>2. CASE r.persistent
    <3>1. caller'[c].pc = "saving" /\ caller'[c].key = j /\ caller'[c].turn = t /\ owner'.map = c
      <4>1. \A q \in Standing : LET s == [q EXCEPT !.pc = "saving", !.key = j]
                                IN  s.pc = "saving" /\ s.key = j /\ s.turn = q.turn
        BY DEF Standing
      <4>2. caller'[c] = [caller[c] EXCEPT !.pc = "saving", !.key = j]
        BY <1>1, <2>2 DEF KInv, IInv, TypeOK
      <4>3. owner'.map = c
        BY <1>1, <2>2 DEF KInv, IInv, TypeOK
      <4> QED
        BY <1>2, <4>1, <4>2, <4>3
    <3>2. LastIs(r, t)
      BY <1>2, <1>3, <2>2 DEF LastIs
    <3> QED
      BY <1>4, <2>1, <3>1, <3>2 DEF OneSaver, SavesItsTurn
  <2>3. CASE ~r.persistent
    <3>1. caller'[c].pc = "idle" /\ owner'.map = Free
      BY <1>1, <2>3, IdleStands DEF KInv, IInv, TypeOK
    <3> QED
      BY <1>4, <2>1, <3>1, CallersAssumption DEF OneSaver, SavesItsTurn
  <2> QED
    BY <2>2, <2>3
<1>6. ASSUME NEW k \in Sound' PROVE OnDisk(k)' /\ InMap(k)'
  <2>1. k \in Sound /\ OnDisk(k) /\ InMap(k)
    BY <1>1 DEF Sound, KInv
  <2>2. OnDisk(k)'
    BY <1>1, <2>1 DEF OnDisk
  <2>3. CASE k # j
    BY <1>1, <1>4, <2>1, <2>2, <2>3 DEF InMap, Held, Sound
  <2>4. CASE k = j
    <3> SUFFICES ASSUME r.persistent PROVE kept[k] \subseteq Places(r.turns)
      BY <1>1, <1>4, <2>2, <2>4 DEF InMap
    <3>1. Held(k) /\ old = conversations[k]
      BY <1>2, <1>3, <2>4 DEF Conversation
    <3>2. kept[k] \subseteq Places(old.turns)
      BY <1>3, <2>1, <3>1 DEF InMap
    <3> QED
      BY <1>2, <1>3, <3>2, PlacesGrow
  <2> QED
    BY <2>3, <2>4
<1>7. kept' \in [Keys -> SUBSET (Nat \X Nat)]
  BY <1>1 DEF KInv
<1> QED
  BY <1>5, <1>6, <1>7 DEF KInv

LEMMA StartKeeps == ASSUME KInv, NEW j \in Keys, start_persistent(j), IInv' PROVE KInv'
<1> DEFINE old == IF Held(j) THEN conversations[j] ELSE load_conversation(j)
           r == [old EXCEPT !.persistent = TRUE]
           f == file[conversation_path(j)]
<1>1. /\ owner.map = Free /\ UNCHANGED <<file, caller, owner, kept>>
      /\ conversations' = [conversations EXCEPT ![j] = r]
      /\ clobbered' = IF f = Torn \/ (Held(j) /\ Readable(f)) THEN clobbered \cup {j} ELSE clobbered
  BY DEF start_persistent, KInv, IInv, TypeOK
<1>2. old \in Record /\ r.turns = old.turns
  <2>1. old \in Record
    BY LoadIsRecord DEF KInv, IInv, TypeOK, Held
  <2> QED
    BY <2>1, PersistentIsRecord
<1>3. OneSaver' /\ SavesItsTurn'
  BY <1>1, NobodySaves DEF KInv, OneSaver, SavesItsTurn
<1> HIDE DEF r, old
<1>4. conversations'[j] = r /\ \A k \in Keys \ {j} : conversations'[k] = conversations[k]
  BY <1>1 DEF KInv, IInv, TypeOK
<1>5. ASSUME NEW k \in Sound' PROVE OnDisk(k)' /\ InMap(k)'
  <2>1. k \in Sound /\ OnDisk(k) /\ InMap(k)
    BY <1>1 DEF Sound, KInv
  <2>2. OnDisk(k)'
    BY <1>1, <2>1 DEF OnDisk
  <2>3. CASE k # j
    BY <1>1, <1>4, <2>1, <2>2, <2>3 DEF InMap, Held, Sound
  <2>4. CASE k = j
    <3>1. f # Torn /\ ~(Held(j) /\ Readable(f))
      BY <1>1, <2>4 DEF Sound
    <3>2. kept[j] \subseteq Places(old.turns)
      <4>1. CASE kept[j] = {}
        BY <4>1
      <4>2. CASE kept[j] # {}
        <5>1. f # Missing /\ kept[j] \subseteq Places(f.turns)
          BY <2>1, <2>4, <3>1, <4>2 DEF OnDisk
        <5>2. Readable(f) /\ ~Held(j) /\ old = f
          BY <3>1, <5>1 DEF Readable, old, load_conversation
        <5> QED
          BY <5>1, <5>2
      <4> QED
        BY <4>1, <4>2
    <3> QED
      BY <1>1, <1>2, <1>4, <2>2, <2>4, <3>2 DEF InMap
  <2> QED
    BY <2>3, <2>4
<1>6. kept' \in [Keys -> SUBSET (Nat \X Nat)]
  BY <1>1 DEF KInv
<1> QED
  BY <1>3, <1>5, <1>6 DEF KInv

LEMMA BorrowKeeps == ASSUME KInv, NEW j \in Keys, conversation(j), IInv' PROVE KInv'
<1>1. /\ owner.map = Free /\ UNCHANGED <<file, caller, owner, kept, clobbered>>
      /\ conversations'[j] = Conversation
      /\ \A k \in Keys \ {j} : conversations'[k] = conversations[k]
  BY DEF conversation, KInv, IInv, TypeOK
<1>2. OneSaver' /\ SavesItsTurn'
  BY <1>1, NobodySaves DEF KInv, OneSaver, SavesItsTurn
<1>3. \A k \in Sound' : OnDisk(k)' /\ InMap(k)'
  BY <1>1 DEF KInv, Sound, OnDisk, InMap, Held, Conversation
<1> QED
  BY <1>1, <1>2, <1>3 DEF KInv

\* The file of the record being saved is torn, those of other keys are left.
LEMMA TruncateKeeps == ASSUME KInv, NEW c \in Callers, TruncateFile(c), IInv' PROVE KInv'
<1> DEFINE j == caller[c].key
<1>1. /\ caller[c].pc = "saving" /\ UNCHANGED <<conversations, caller, owner, kept, clobbered>>
      /\ file' = [file EXCEPT ![conversation_path(j)] = Torn]
  BY DEF TruncateFile, At
<1>2. \A k \in Keys : file'[conversation_path(k)] = Torn
                      \/ file'[conversation_path(k)] = file[conversation_path(k)]
  BY <1>1, PathIsFile DEF KInv, IInv, TypeOK
<1>3. \A k \in Sound' : OnDisk(k)' /\ InMap(k)'
  BY <1>1, <1>2 DEF KInv, Sound, OnDisk, InMap, Held
<1> QED
  BY <1>1, <1>3 DEF KInv, OneSaver, SavesItsTurn

\* A save writes what the map holds, the caller's turn last.
LEMMA SaveKeeps == ASSUME KInv, NEW c \in Callers, save_conversation(c), IInv' PROVE KInv'
<1> DEFINE j == caller[c].key
           r == conversations[j]
           t == caller[c].turn
<1>1. /\ caller[c].pc = "saving" /\ UNCHANGED <<conversations, clobbered>>
      /\ file' = [file EXCEPT ![conversation_path(j)] = r]
      /\ kept' = [kept EXCEPT ![j] = @ \cup Places(r.turns) \cup {<<Len(r.turns), t>>}]
      /\ owner' = [owner EXCEPT !.map = Free] /\ caller' = [caller EXCEPT ![c] = Idle]
  BY DEF save_conversation, At, Goes
<1>2. j \in Keys /\ r \in Record /\ LastIs(r, t) /\ owner.map = c
  BY <1>1 DEF KInv, IInv, SavesWhatIsHeld, SavesItsTurn, OneSaver
<1>3. r.turns \in Seq(Nat) /\ r.persistent /\ t \in Nat /\ Len(r.turns) \in Nat
  BY <1>2 DEF Record, LastIs, KInv, IInv, TypeOK, Standing
<1>4. <<Len(r.turns), t>> \in Places(r.turns)
  BY <1>2, <1>3 DEF LastIs, Places
<1> HIDE DEF j, r, t
<1>5. OneSaver' /\ SavesItsTurn'
  <2>1. /\ owner'.map = Free /\ caller'[c].pc = "idle"
        /\ \A d \in Callers \ {c} : caller'[d] = caller[d] /\ caller[d].pc # "saving"
    BY <1>1, <1>2, IdleStands DEF KInv, IInv, TypeOK, OneSaver
  <2> QED
    BY <2>1, CallersAssumption DEF OneSaver, SavesItsTurn
<1>6. /\ kept'[j] = kept[j] \cup Places(r.turns) /\ \A k \in Keys \ {j} : kept'[k] = kept[k]
      /\ kept' \in [Keys -> SUBSET (Nat \X Nat)]
  <2>1. kept' = [kept EXCEPT ![j] = kept[j] \cup Places(r.turns)]
    BY <1>1, <1>4
  <2>2. Places(r.turns) \in SUBSET (Nat \X Nat) /\ kept[j] \in SUBSET (Nat \X Nat)
    BY <1>2, <1>3, PlacesArePairs DEF KInv
  <2> QED
    BY <1>2, <2>1, <2>2 DEF KInv
<1>7. file'[conversation_path(j)] = r
  BY <1>1, <1>2, PathIsFile DEF KInv, IInv, TypeOK
<1>8. ASSUME NEW k \in Sound' PROVE OnDisk(k)' /\ InMap(k)'
  <2>1. k \in Sound /\ OnDisk(k) /\ InMap(k) /\ k \in Keys \ Colliding
    BY <1>1 DEF Sound, KInv
  <2>2. CASE k = j
    <3>1. kept[j] \subseteq Places(r.turns)
      BY <1>2, <1>3, <2>1, <2>2, RecordIsReadable DEF InMap, Held, r
    <3>2. kept'[j] = Places(r.turns) /\ r # Missing
      BY <1>2, <1>6, <3>1, RecordIsReadable
    <3>3. OnDisk(k)'
      BY <1>7, <2>2, <3>2 DEF OnDisk
    <3>4. InMap(k)'
      BY <1>1, <2>2, <3>2 DEF InMap, r
    <3> QED
      BY <3>3, <3>4
  <2>3. CASE k # j
    <3>1. conversation_path(j) # conversation_path(k)
      BY <1>2, <2>1, <2>3, OwnFile
    <3>2. file'[conversation_path(k)] = file[conversation_path(k)]
      BY <1>1, <2>1, <3>1, PathIsFile DEF KInv, IInv, TypeOK
    <3>3. kept'[k] = kept[k]
      BY <1>6, <2>1, <2>3
    <3> QED
      BY <1>1, <2>1, <3>2, <3>3 DEF OnDisk, InMap, Held
  <2> QED
    BY <2>2, <2>3
<1> QED
  BY <1>5, <1>6, <1>8 DEF KInv

LEMMA SaveFailsKeeps == ASSUME KInv, NEW c \in Callers, SaveFails(c), IInv' PROVE KInv'
<1>1. /\ caller[c].pc = "saving" /\ UNCHANGED <<conversations, file, kept, clobbered>>
      /\ owner' = [owner EXCEPT !.map = Free] /\ caller' = [caller EXCEPT ![c] = Idle]
  BY DEF SaveFails, At, Goes
<1>2. owner.map = c
  BY <1>1 DEF KInv, OneSaver
<1>3. /\ owner'.map = Free /\ caller'[c].pc = "idle"
      /\ \A d \in Callers \ {c} : caller'[d] = caller[d] /\ caller[d].pc # "saving"
  BY <1>1, <1>2, IdleStands DEF KInv, IInv, TypeOK, OneSaver
<1>4. OneSaver' /\ SavesItsTurn'
  BY <1>3, CallersAssumption DEF OneSaver, SavesItsTurn
<1>5. \A k \in Sound' : OnDisk(k)' /\ InMap(k)'
  BY <1>1 DEF KInv, Sound, OnDisk, InMap, Held
<1> QED
  BY <1>1, <1>4, <1>5 DEF KInv

LEMMA CrashKeeps == ASSUME KInv, Crash, IInv' PROVE KInv'
<1>1. /\ \A c \in Callers : caller'[c].pc = "idle"
      /\ owner'.map = Free /\ \A k \in Keys : conversations'[k] = Absent
      /\ UNCHANGED <<file, kept, clobbered>>
  BY IdleStands DEF Crash
<1>2. OneSaver' /\ SavesItsTurn'
  BY <1>1, CallersAssumption DEF OneSaver, SavesItsTurn
<1>3. \A k \in Sound' : OnDisk(k)' /\ InMap(k)'
  BY <1>1 DEF KInv, Sound, OnDisk, InMap, Held
<1> QED
  BY <1>1, <1>2, <1>3 DEF KInv

LEMMA NextKInv == KInv /\ [Next]_vars => KInv'
<1> SUFFICES ASSUME KInv, [Next]_vars PROVE KInv'
  OBVIOUS
<1>1. IInv'
  BY NextIInv DEF KInv
<1>2. CASE reset_metrics \/ UNCHANGED vars
  BY <1>1, <1>2, CounterKeeps DEF reset_metrics, vars
<1> QED
  BY <1>1, <1>2, CounterStepsKeep, RecordKeeps, StartKeeps, BorrowKeeps, TruncateKeeps, SaveKeeps,
     SaveFailsKeeps, CrashKeeps DEF Next

\* A turn that save_conversation has written stays in the conversation's file,
\* in its place, through turns recorded by any number of callers, saves that
\* fail, restarts and loads; unless the file was torn, or hidden by a record
\* borrowed before start_persistent.
THEOREM SavedTurnsSurvive == Spec => []KeptSurvives
<1>1. KInv => KeptSurvives
  BY PathIsFile DEF KInv, Sound, OnDisk, KeptSurvives, Readable
<1> QED
  BY <1>1, InitKInv, NextKInv, PTL DEF Spec
=============================================================================
