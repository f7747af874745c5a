----------------------------- MODULE TurnProofs ------------------------------
(***************************************************************************)
(* A turn with tools over any of the adapters and through any of the ways  *)
(* in, for any messages a caller may pass and any bounds: no call of the   *)
(* model is lost or both run and handed on, a result goes back to the      *)
(* conversation its call was made in, the model is shown all that was      *)
(* said, and what the upstream is sent pairs each result with its call.    *)
(***************************************************************************)
EXTENDS Turn, ToolExec, SequenceTheorems, FiniteSetTheorems, WellFoundedInduction, TLAPS

-----------------------------------------------------------------------------
(* Recursion over a sequence: what Flat and build_history are made of.      *)

\* Induction on the naturals, of a set instead of a predicate.
LEMMA SetInduction ==
  ASSUME NEW S, 0 \in S, \A n \in Nat : n \in S => n + 1 \in S
  PROVE  Nat \subseteq S
<1> DEFINE T == Nat \ S
<1>1. SUFFICES ASSUME T # {} PROVE FALSE
  OBVIOUS
<1> DEFINE R == OpToRel(<, Nat)
<1>2. IsWellFoundedOn(R, Nat)
  BY NatLessThanWellFounded
<1>3. \A x, y \in Nat : x < y => <<x, y>> \in R
  BY DEF OpToRel
<1> HIDE DEF R
<1>4. PICK x \in T : \A y \in T : ~ (<<y, x>> \in R)
  <2>1. T \subseteq Nat
    OBVIOUS
  <2> HIDE DEF T
  <2> QED BY <1>1, <1>2, <2>1, WFMin
<1>5. x # 0 /\ x \in Nat
  OBVIOUS
<1>6. x - 1 \in Nat /\ x - 1 < x /\ (x - 1) + 1 = x
  BY <1>5
<1>7. x - 1 \notin T
  BY <1>3, <1>4, <1>5, <1>6
<1> QED BY <1>5, <1>6, <1>7

\* h has the first n values of the iteration of F from d.
Iterates(h, n, D, d, F) ==
    h \in [0..n -> D] /\ h[0] = d /\ \A i \in 1..n : h[i] = F[i][h[i - 1]]

\* There is such a list, of every length.
LEMMA IterationExists ==
  ASSUME NEW D, NEW d \in D, NEW top \in Nat, NEW F \in [1..top -> [D -> D]]
  PROVE  \E h : Iterates(h, top, D, d, F)
<1> DEFINE S == {n \in Nat : n <= top => \E h : Iterates(h, n, D, d, F)}
<1>1. 0 \in S
  <2>1. Iterates([i \in 0..0 |-> d], 0, D, d, F)
    BY DEF Iterates
  <2> QED BY <2>1
<1>2. ASSUME NEW n \in Nat, n \in S PROVE n + 1 \in S
  <2> SUFFICES ASSUME n + 1 <= top PROVE \E h : Iterates(h, n + 1, D, d, F)
    OBVIOUS
  <2>1. PICK h : Iterates(h, n, D, d, F)
    BY <1>2
  <2> DEFINE k == [i \in 0..(n + 1) |-> IF i <= n THEN h[i] ELSE F[n + 1][h[n]]]
  <2>2. h[n] \in D /\ n + 1 \in 1..top
    BY <2>1 DEF Iterates
  <2>3. F[n + 1][h[n]] \in D
    BY <2>2
  <2>4. k \in [0..(n + 1) -> D]
    <3>1. ASSUME NEW i \in 0..(n + 1), i <= n PROVE h[i] \in D
      BY <2>1, <3>1 DEF Iterates
    <3> QED BY <2>3, <3>1
  <2>5. k[0] = d
    BY <2>1 DEF Iterates
  <2>6. ASSUME NEW i \in 1..(n + 1) PROVE k[i] = F[i][k[i - 1]]
    <3>1. CASE i = n + 1
      BY <3>1
    <3>2. CASE i # n + 1
      <4>1. i \in 1..n /\ i <= n /\ i - 1 <= n /\ i - 1 \in 0..(n + 1)
        BY <3>2
      <4> QED BY <2>1, <4>1 DEF Iterates
    <3> QED BY <3>1, <3>2
  <2> HIDE DEF k
  <2>7. Iterates(k, n + 1, D, d, F)
    BY <2>4, <2>5, <2>6 DEF Iterates
  <2> QED BY <2>7
<1>3. Nat \subseteq S
  <2> HIDE DEF S
  <2> QED BY <1>1, <1>2, SetInduction
<1> QED BY <1>3

\* f has what each part of ss amounts to.
Upto(f, ss) ==
    f = [n \in 0..Len(ss) |-> IF n = 0 THEN <<>> ELSE f[n - 1] \o ss[n]]

LEMMA UptoExists ==
  ASSUME NEW C, NEW ss \in Seq(Seq(C))
  PROVE  \E f : Upto(f, ss)
<1> DEFINE F == [n \in 1..Len(ss) |-> [t \in Seq(C) |-> t \o ss[n]]]
<1>1. F \in [1..Len(ss) -> [Seq(C) -> Seq(C)]]
  OBVIOUS
<1>2. PICK h : Iterates(h, Len(ss), Seq(C), <<>>, F)
  <2>1. <<>> \in Seq(C) /\ Len(ss) \in Nat
    OBVIOUS
  <2> HIDE DEF F
  <2> QED BY <1>1, <2>1, IterationExists
<1>3. h \in [0..Len(ss) -> Seq(C)] /\ h[0] = <<>> /\ \A n \in 1..Len(ss) : h[n] = F[n][h[n - 1]]
  BY <1>2 DEF Iterates
<1>4. ASSUME NEW n \in 0..Len(ss), n # 0 PROVE h[n] = h[n - 1] \o ss[n]
  <2>1. n \in 1..Len(ss) /\ n - 1 \in 0..Len(ss)
    BY <1>4
  <2>2. h[n - 1] \in Seq(C)
    BY <1>3, <2>1
  <2> QED BY <1>3, <2>1, <2>2
<1>5. h = [n \in 0..Len(ss) |-> IF n = 0 THEN <<>> ELSE h[n - 1] \o ss[n]]
  BY <1>3, <1>4
<1> QED BY <1>5 DEF Upto

\* Flat is the last of them.
LEMMA FlatIs ==
  ASSUME NEW C, NEW ss \in Seq(Seq(C))
  PROVE  \E f \in [0..Len(ss) -> Seq(C)] :
            /\ f[0] = <<>> /\ \A n \in 1..Len(ss) : f[n] = f[n - 1] \o ss[n]
            /\ Flat(ss) = f[Len(ss)]
<1> DEFINE U == CHOOSE f : Upto(f, ss)
           S == {n \in Nat : n <= Len(ss) => U[n] \in Seq(C)}
<1>1. Upto(U, ss)
  BY UptoExists
<1>2. Flat(ss) = U[Len(ss)]
  BY DEF Flat, Upto
<1> HIDE DEF U
<1>3. U[0] = <<>> /\ DOMAIN U = 0..Len(ss) /\ U = [n \in 0..Len(ss) |-> U[n]]
  BY <1>1 DEF Upto
<1>4. ASSUME NEW n \in 1..Len(ss) PROVE U[n] = U[n - 1] \o ss[n]
  <2>1. n \in 0..Len(ss) /\ n # 0
    OBVIOUS
  <2> QED BY <1>1, <2>1 DEF Upto
<1>5. 0 \in S
  <2>1. <<>> \in Seq(C)
    OBVIOUS
  <2> QED BY <1>3, <2>1
<1>6. ASSUME NEW n \in Nat, n \in S PROVE n + 1 \in S
  <2> SUFFICES ASSUME n + 1 <= Len(ss) PROVE U[n + 1] \in Seq(C)
    OBVIOUS
  <2>1. n + 1 \in 1..Len(ss) /\ (n + 1) - 1 = n /\ n <= Len(ss)
    OBVIOUS
  <2>2. U[n] \in Seq(C) /\ ss[n + 1] \in Seq(C)
    BY <1>6, <2>1
  <2>3. U[n + 1] = U[n] \o ss[n + 1]
    BY <1>4, <2>1
  <2> HIDE DEF S
  <2> QED BY <2>2, <2>3
<1>7. Nat \subseteq S
  <2> HIDE DEF S
  <2> QED BY <1>5, <1>6, SetInduction
<1>8. U \in [0..Len(ss) -> Seq(C)]
  BY <1>3, <1>7
<1> QED BY <1>2, <1>3, <1>4, <1>8

LEMMA CatHas ==
  ASSUME NEW C, NEW a \in Seq(C), NEW b \in Seq(C)
  PROVE  a \o b \in Seq(C) /\ Tokens(a \o b) = Tokens(a) \cup Tokens(b)
<1>1. a \o b \in Seq(C) /\ Len(a \o b) = Len(a) + Len(b) /\ DOMAIN (a \o b) = 1..(Len(a) + Len(b))
      /\ DOMAIN a = 1..Len(a) /\ DOMAIN b = 1..Len(b) /\ Len(a) \in Nat /\ Len(b) \in Nat
      /\ \A i \in 1..Len(a) : (a \o b)[i] = a[i]
  OBVIOUS
<1>2. ASSUME NEW i \in 1..(Len(a) + Len(b)), i > Len(a)
      PROVE  (a \o b)[i] = b[i - Len(a)] /\ i - Len(a) \in 1..Len(b)
  BY <1>2
<1>3. \A i \in 1..Len(b) : i + Len(a) \in 1..(Len(a) + Len(b)) /\ (a \o b)[i + Len(a)] = b[i]
  OBVIOUS
<1> DEFINE ab == a \o b
<1> HIDE DEF ab
<1>4. /\ DOMAIN ab = 1..(Len(a) + Len(b)) /\ \A i \in 1..Len(a) : ab[i] = a[i]
      /\ \A i \in 1..(Len(a) + Len(b)) : i > Len(a) => ab[i] = b[i - Len(a)] /\ i - Len(a) \in 1..Len(b)
      /\ \A i \in 1..Len(b) : i + Len(a) \in 1..(Len(a) + Len(b)) /\ ab[i + Len(a)] = b[i]
  BY <1>1, <1>2, <1>3 DEF ab
<1>5. ASSUME NEW i \in DOMAIN ab PROVE ab[i] \in Tokens(a) \cup Tokens(b)
  <2>1. CASE i <= Len(a)
    <3>1. i \in DOMAIN a /\ ab[i] = a[i]
      BY <1>1, <1>4, <2>1
    <3> QED BY <3>1 DEF Tokens
  <2>2. CASE i > Len(a)
    <3>1. i - Len(a) \in DOMAIN b /\ ab[i] = b[i - Len(a)]
      BY <1>1, <1>4, <2>2
    <3> QED BY <3>1 DEF Tokens
  <2> QED BY <1>1, <1>4, <2>1, <2>2
<1>6. Tokens(a) \subseteq Tokens(ab)
  BY <1>1, <1>4 DEF Tokens
<1>7. Tokens(b) \subseteq Tokens(ab)
  BY <1>1, <1>4 DEF Tokens
<1>8. Tokens(ab) = Tokens(a) \cup Tokens(b)
  <2>1. Tokens(ab) \subseteq Tokens(a) \cup Tokens(b)
    <3>1. Tokens(ab) = {ab[i] : i \in DOMAIN ab}
      BY DEF Tokens
    <3> QED BY <1>5, <3>1
  <2> QED BY <1>6, <1>7, <2>1
<1> QED BY <1>1, <1>8 DEF ab

\* What Flat has is what its parts have.
LEMMA FlatHas ==
  ASSUME NEW C, NEW ss \in Seq(Seq(C))
  PROVE  /\ Flat(ss) \in Seq(C)
         /\ Tokens(Flat(ss)) = UNION {Tokens(ss[i]) : i \in DOMAIN ss}
<1>1. PICK f \in [0..Len(ss) -> Seq(C)] :
            /\ f[0] = <<>> /\ \A n \in 1..Len(ss) : f[n] = f[n - 1] \o ss[n]
            /\ Flat(ss) = f[Len(ss)]
  BY FlatIs
<1> DEFINE S == {n \in Nat : n <= Len(ss) => Tokens(f[n]) = UNION {Tokens(ss[i]) : i \in 1..n}}
<1>2. 0 \in S
  BY <1>1 DEF Tokens
<1>3. ASSUME NEW n \in Nat, n \in S PROVE n + 1 \in S
  <2> SUFFICES ASSUME n + 1 <= Len(ss)
               PROVE  Tokens(f[n + 1]) = UNION {Tokens(ss[i]) : i \in 1..(n + 1)}
    OBVIOUS
  <2>1. n + 1 \in 1..Len(ss) /\ n \in 0..Len(ss) /\ (n + 1) - 1 = n
    OBVIOUS
  <2>20. \A k \in 1..Len(ss) : \A j : j = k - 1 => f[k] = f[j] \o ss[k]
    BY <1>1
  <2>21. f[n + 1] = f[n] \o ss[n + 1]
    BY <2>1, <2>20
  <2>22. f[n] \in Seq(C)
    BY <1>1, <2>1
  <2>23. ss[n + 1] \in Seq(C)
    BY <2>1
  <2>2. f[n + 1] = f[n] \o ss[n + 1] /\ f[n] \in Seq(C) /\ ss[n + 1] \in Seq(C)
    BY <2>21, <2>22, <2>23
  <2>3. Tokens(f[n + 1]) = Tokens(f[n]) \cup Tokens(ss[n + 1])
    BY <2>2, CatHas
  <2>4. Tokens(f[n]) = UNION {Tokens(ss[i]) : i \in 1..n}
    BY <1>3
  <2>5. 1..(n + 1) = 1..n \cup {n + 1}
    OBVIOUS
  <2> QED BY <2>3, <2>4, <2>5
<1>4. Nat \subseteq S
  <2> HIDE DEF S
  <2> QED BY <1>2, <1>3, SetInduction
<1>5. Len(ss) \in Nat /\ DOMAIN ss = 1..Len(ss)
  OBVIOUS
<1>6. Tokens(f[Len(ss)]) = UNION {Tokens(ss[i]) : i \in 1..Len(ss)}
  <2>1. Len(ss) \in S
    <3> HIDE DEF S
    <3> QED BY <1>4, <1>5
  <2> QED BY <2>1
<1>7. f[Len(ss)] \in Seq(C)
  BY <1>1, <1>5
<1> HIDE DEF S
<1> QED BY <1>1, <1>5, <1>6, <1>7
-----------------------------------------------------------------------------
(* Messages, and the items of a request. *)

Ids == Nat \ {0}
Messages == MessageType(Ids)
Results == {NoResult} \cup {Result(id) : id \in Ids}
Given == [id : Nat, output : Seq(Token)]
Forms == {"system", "user", "assistant", "tool", "model", "function_call", "function_call_output"}
Items == [as : Forms, text : Seq(Token), calls : Seq(Ids), answers : Seq(Given)]

LEMMA BaseIsMessages ==
    /\ MessageType(1..BaseIds) \subseteq Messages
    /\ \A m \in MessageType(1..BaseIds) : m.result.id <= BaseIds
<1>1. 1..BaseIds \subseteq Ids /\ Seq(1..BaseIds) \subseteq Seq(Ids)
  BY DEF BaseIds, Ids
<1>2. \A m \in MessageType(1..BaseIds) : m.result.id <= BaseIds
  BY DEF MessageType, BaseIds, NoResult, Result
<1>3. MessageType(1..BaseIds) \subseteq Messages
  BY <1>1 DEF MessageType, Messages
<1> QED BY <1>2, <1>3

LEMMA MessageFields ==
    ASSUME NEW m \in Messages
    PROVE  /\ m.role \in {"system", "user", "assistant", "tool"} /\ m.text \in Seq(Token)
           /\ m.calls \in Seq(Ids) /\ m.result \in Results
           /\ (m.calls # <<>> => m.role = "assistant")
           /\ (m.result # NoResult => m.role = "tool" /\ m.text = <<>>)
BY DEF Messages, MessageType, Results

LEMMA ResultFacts ==
    /\ NoResult.id = 0 /\ NoResult.output = <<>>
    /\ \A id : Result(id).id = id /\ Result(id).output = <<<<"out", id>>>>
    /\ Results \subseteq Given
    /\ \A id \in Ids : Result(id) \in Results /\ Result(id) # NoResult
                       /\ <<"out", id>> \in Tokens(Result(id).output)
<1>1. /\ NoResult.id = 0 /\ NoResult.output = <<>>
      /\ \A id : Result(id).id = id /\ Result(id).output = <<<<"out", id>>>>
  BY DEF NoResult, Result
<1>2. \A id \in Nat : <<<<"out", id>>>> \in Seq(Token)
  BY DEF Token
<1>3. NoResult \in Given
  BY DEF NoResult, Given
<1>4. ASSUME NEW id \in Ids PROVE Result(id) \in Given
  BY <1>2 DEF Result, Given, Ids
<1>5. \A id \in Ids : Result(id) \in Results /\ Result(id) # NoResult
  BY <1>1 DEF Results, Ids
<1>6. ASSUME NEW id PROVE <<"out", id>> \in Tokens(Result(id).output)
  <2>1. 1 \in DOMAIN Result(id).output /\ Result(id).output[1] = <<"out", id>>
    BY <1>1
  <2> QED BY <2>1 DEF Tokens
<1> QED BY <1>1, <1>3, <1>4, <1>5, <1>6 DEF Results

\* The messages the constructors make.
LEMMA Constructed ==
    /\ \A t \in Seq(Token) : user(t) \in Messages /\ assistant(t) \in Messages
    /\ \A t \in Seq(Token), c \in Seq(Ids) : assistant_with_tools(t, c) \in Messages
    /\ \A id \in Ids : tool_result(id) \in Messages
<1>1. <<>> \in Seq(Ids) /\ <<>> \in Seq(Token) /\ NoResult \in Results
  BY DEF Results
<1>2. ASSUME NEW t \in Seq(Token) PROVE user(t) \in Messages /\ assistant(t) \in Messages
  BY <1>1 DEF user, assistant, Message, Messages, MessageType
<1>3. ASSUME NEW t \in Seq(Token), NEW c \in Seq(Ids) PROVE assistant_with_tools(t, c) \in Messages
  BY <1>1 DEF assistant_with_tools, Message, Messages, MessageType
<1>4. ASSUME NEW id \in Ids PROVE tool_result(id) \in Messages
  BY <1>1 DEF tool_result, Message, Messages, MessageType
<1> QED BY <1>2, <1>3, <1>4

\* What results say, and what one item does.
Told(answers) == UNION {Tokens(answers[k].output) : k \in DOMAIN answers}
Said(item) == Tokens(item.text) \cup Told(item.answers)

LEMMA TokensOfIs == \A items : TokensOf(items) = UNION {Said(x) : x \in Tokens(items)}
BY DEF TokensOf, Said, Told, Tokens

LEMMA OneSays == \A item : TokensOf(<<item>>) = Said(item)
<1> SUFFICES ASSUME NEW item PROVE TokensOf(<<item>>) = Said(item)
  OBVIOUS
<1>1. Tokens(<<item>>) = {item}
  BY DEF Tokens
<1> QED BY <1>1, TokensOfIs

LEMMA CatSays ==
    ASSUME NEW a \in Seq(Items), NEW b \in Seq(Items)
    PROVE  a \o b \in Seq(Items) /\ TokensOf(a \o b) = TokensOf(a) \cup TokensOf(b)
<1>1. a \o b \in Seq(Items) /\ Tokens(a \o b) = Tokens(a) \cup Tokens(b)
  BY CatHas
<1> QED BY <1>1, TokensOfIs

LEMMA FlatSays ==
    ASSUME NEW ss \in Seq(Seq(Items)), NEW i \in DOMAIN ss
    PROVE  Flat(ss) \in Seq(Items) /\ TokensOf(ss[i]) \subseteq TokensOf(Flat(ss))
<1>1. Flat(ss) \in Seq(Items) /\ Tokens(ss[i]) \subseteq Tokens(Flat(ss))
  BY FlatHas
<1> QED BY <1>1, TokensOfIs

LEMMA ItemSays ==
    ASSUME NEW as \in Forms, NEW text \in Seq(Token), NEW calls \in Seq(Ids), NEW answers \in Seq(Given)
    PROVE  /\ Item(as, text, calls, answers) \in Items
           /\ Said(Item(as, text, calls, answers)) = Tokens(text) \cup Told(answers)
           /\ Plain(as, text) \in Items /\ Said(Plain(as, text)) = Tokens(text)
<1>1. <<>> \in Seq(Ids) /\ <<>> \in Seq(Given) /\ DOMAIN <<>> = {}
  OBVIOUS
<1>2. Item(as, text, calls, answers) \in Items /\ Plain(as, text) \in Items
  BY <1>1 DEF Item, Plain, Items
<1>3. Said(Item(as, text, calls, answers)) = Tokens(text) \cup Told(answers)
  BY DEF Said, Item
<1>4. Said(Plain(as, text)) = Tokens(text)
  BY <1>1 DEF Said, Told, Item, Plain
<1> QED BY <1>2, <1>3, <1>4

\* The answers of a message say what its result does.
LEMMA AnswersSay ==
    ASSUME NEW m \in Messages
    PROVE  Answers(m) \in Seq(Given) /\ Told(Answers(m)) = Tokens(m.result.output)
<1>1. m.result \in Given
  BY MessageFields, ResultFacts
<1>2. CASE m.result = NoResult
  <2>1. Answers(m) = <<>> /\ Tokens(m.result.output) = {}
    BY <1>2, ResultFacts DEF Answers, Tokens
  <2> QED BY <2>1 DEF Told
<1>3. CASE m.result # NoResult
  <2>1. Answers(m) = <<m.result>>
    BY <1>3 DEF Answers
  <2> QED BY <1>1, <2>1 DEF Told
<1> QED BY <1>2, <1>3
-----------------------------------------------------------------------------
(* What each adapter sends of a transcript. *)

\* items have what m says, unless it is what the adapter leaves out.
Carries(a, m, items) ==
    /\ (m.role = "system" /\ a \in DropsSystem) \/ Tokens(m.text) \subseteq TokensOf(items)
    /\ a \notin DropsOutput => Tokens(m.result.output) \subseteq TokensOf(items)

LEMMA CarriesMore ==
    ASSUME NEW a, NEW m, NEW items, NEW more, TokensOf(items) \subseteq TokensOf(more),
           Carries(a, m, items)
    PROVE  Carries(a, m, more)
BY DEF Carries

LEMMA LeadingSays ==
    ASSUME NEW sys \in Seq(Token), NEW items \in Seq(Items)
    PROVE  Leading(sys) \o items \in Seq(Items) /\ TokensOf(items) \subseteq TokensOf(Leading(sys) \o items)
<1>1. Plain("system", sys) \in Items
  <2>1. <<>> \in Seq(Ids) /\ <<>> \in Seq(Given)
    OBVIOUS
  <2> QED BY <2>1, ItemSays DEF Forms
<1>2. Leading(sys) \in Seq(Items)
  BY <1>1 DEF Leading
<1> QED BY <1>2, CatSays

\* The items of a message among those of all.
LEMMA EachCarries ==
    ASSUME NEW ms \in Seq(Messages), NEW ss, DOMAIN ss = DOMAIN ms, ss = [i \in DOMAIN ms |-> ss[i]],
           NEW a, NEW i \in DOMAIN ms,
           \A j \in DOMAIN ms : ss[j] \in Seq(Items) /\ Carries(a, ms[j], ss[j]),
           NEW sys \in Seq(Token)
    PROVE  Carries(a, ms[i], Flat(ss)) /\ Carries(a, ms[i], Leading(sys) \o Flat(ss))
<1>1. ss \in Seq(Seq(Items))
  <2>1. DOMAIN ms = 1..Len(ms) /\ Len(ms) \in Nat
    OBVIOUS
  <2>2. ss \in [1..Len(ms) -> Seq(Items)]
    BY <2>1
  <2> QED BY <2>1, <2>2
<1>2. Flat(ss) \in Seq(Items) /\ TokensOf(ss[i]) \subseteq TokensOf(Flat(ss))
  BY <1>1, FlatSays
<1>3. Carries(a, ms[i], Flat(ss))
  BY <1>2, CarriesMore
<1> QED BY <1>2, <1>3, LeadingSays, CarriesMore

\* What of a message its items are made of.
LEMMA MessageParts ==
    ASSUME NEW m \in Messages
    PROVE  /\ m.role \in Forms /\ m.text \in Seq(Token) /\ m.calls \in Seq(Ids)
           /\ Answers(m) \in Seq(Given) /\ Told(Answers(m)) = Tokens(m.result.output)
           /\ <<>> \in Seq(Token) /\ <<>> \in Seq(Ids) /\ <<>> \in Seq(Given)
           /\ Tokens(<<>>) = {} /\ Told(<<>>) = {}
           /\ m.role # "tool" => Tokens(m.result.output) = {}
<1>1. m.role \in Forms /\ m.text \in Seq(Token) /\ m.calls \in Seq(Ids)
  BY MessageFields DEF Forms
<1>2. Answers(m) \in Seq(Given) /\ Told(Answers(m)) = Tokens(m.result.output)
  BY AnswersSay
<1>3. m.role # "tool" => Tokens(m.result.output) = {}
  BY MessageFields, ResultFacts DEF Tokens
<1>4. <<>> \in Seq(Token) /\ <<>> \in Seq(Ids) /\ <<>> \in Seq(Given) /\ DOMAIN <<>> = {}
  OBVIOUS
<1>5. Tokens(<<>>) = {} /\ Told(<<>>) = {}
  BY <1>4 DEF Tokens, Told
<1> QED BY <1>1, <1>2, <1>3, <1>4, <1>5

LEMMA OpenaiCarries ==
    ASSUME NEW m \in Messages
    PROVE  to_oai_message(m) \in Seq(Items) /\ Carries("openai_compat", m, to_oai_message(m))
<1> DEFINE it == Item(m.role, m.text, m.calls, Answers(m))
<1>1. it \in Items /\ Said(it) = Tokens(m.text) \cup Tokens(m.result.output)
  BY MessageParts, ItemSays
<1>2. to_oai_message(m) = <<it>>
  BY DEF to_oai_message
<1> HIDE DEF it
<1> QED BY <1>1, <1>2, OneSays DEF Carries

LEMMA AnthropicCarries ==
    ASSUME NEW m \in Messages
    PROVE  build_messages(m) \in Seq(Items) /\ Carries("anthropic", m, build_messages(m))
<1>1. CASE m.role = "system"
  <2>1. build_messages(m) = <<>> /\ Tokens(m.result.output) = {}
    BY <1>1, MessageParts DEF build_messages
  <2> QED BY <1>1, <2>1 DEF Carries, DropsSystem
<1>2. CASE m.role # "system"
  <2>1. PICK way \in Forms : build_messages(m) = <<Item(way, m.text, m.calls, Answers(m))>>
    BY <1>2, MessageParts DEF build_messages, Forms
  <2> DEFINE it == Item(way, m.text, m.calls, Answers(m))
  <2>2. it \in Items /\ Said(it) = Tokens(m.text) \cup Tokens(m.result.output)
    BY MessageParts, ItemSays
  <2> HIDE DEF it
  <2> QED BY <2>1, <2>2, OneSays DEF Carries, it
<1> QED BY <1>1, <1>2

LEMMA CodexCarries ==
    ASSUME NEW m \in Messages, validate(m)
    PROVE  build_input(m) \in Seq(Items) /\ Carries("codex", m, build_input(m))
<1>0. /\ m.role \in {"system", "user", "assistant", "tool"} /\ m.text \in Seq(Token) /\ m.calls \in Seq(Ids)
      /\ m.role # "tool" => Tokens(m.result.output) = {}
      /\ m.role = "tool" => Tokens(m.text) = {}
  BY MessageFields, ResultFacts DEF validate, Tokens
<1>1. CASE m.role = "system"
  BY <1>0, <1>1 DEF build_input, Carries, DropsSystem
<1>2. CASE m.role = "user"
  <2> DEFINE it == Plain("user", m.text)
  <2>1. it \in Items /\ Said(it) = Tokens(m.text)
    <3>1. <<>> \in Seq(Ids) /\ <<>> \in Seq(Given)
      OBVIOUS
    <3> QED BY <1>0, <3>1, ItemSays DEF Forms
  <2>2. build_input(m) = <<it>>
    BY <1>2 DEF build_input
  <2> HIDE DEF it
  <2> QED BY <1>0, <1>2, <2>1, <2>2, OneSays DEF Carries
<1>3. CASE m.role = "assistant"
  <2> DEFINE it == Plain("assistant", m.text)
             calls == [i \in DOMAIN m.calls |-> Item("function_call", <<>>, <<m.calls[i]>>, <<>>)]
  <2>0. <<>> \in Seq(Ids) /\ <<>> \in Seq(Given) /\ <<>> \in Seq(Token)
    OBVIOUS
  <2>1. it \in Items /\ Said(it) = Tokens(m.text)
    BY <1>0, <2>0, ItemSays DEF Forms
  <2>2. calls \in Seq(Items)
    <3>1. ASSUME NEW i \in DOMAIN m.calls PROVE Item("function_call", <<>>, <<m.calls[i]>>, <<>>) \in Items
      <4>1. <<m.calls[i]>> \in Seq(Ids)
        BY <1>0
      <4> QED BY <2>0, <4>1, ItemSays DEF Forms
    <3>2. DOMAIN m.calls = 1..Len(m.calls) /\ Len(m.calls) \in Nat
      BY <1>0
    <3> QED BY <3>1, <3>2
  <2> DEFINE one == <<it>>
  <2>3. build_input(m) = one \o calls
    BY <1>3 DEF build_input
  <2>4. one \in Seq(Items)
    BY <2>1
  <2>5. TokensOf(one) = Tokens(m.text)
    <3> HIDE DEF it
    <3> QED BY <2>1, OneSays
  <2> HIDE DEF one, calls
  <2>6. build_input(m) \in Seq(Items) /\ Tokens(m.text) \subseteq TokensOf(build_input(m))
    BY <2>2, <2>3, <2>4, <2>5, CatSays
  <2> QED BY <1>0, <1>3, <2>6 DEF Carries
<1>4. CASE m.role = "tool"
  <2> DEFINE it == Item("function_call_output", <<>>, <<>>, Answers(m))
  <2>1. it \in Items /\ Said(it) = Tokens(<<>>) \cup Tokens(m.result.output)
    <3>1. "function_call_output" \in Forms
      BY DEF Forms
    <3> DEFINE none == <<>>
    <3>2. none \in Seq(Token) /\ none \in Seq(Ids) /\ Answers(m) \in Seq(Given)
      BY MessageParts
    <3>3. it = Item("function_call_output", none, none, Answers(m))
      OBVIOUS
    <3>4. Told(Answers(m)) = Tokens(m.result.output)
      BY MessageParts
    <3>5. none = <<>>
      OBVIOUS
    <3> HIDE DEF it, none
    <3>6. it \in Items /\ Said(it) = Tokens(none) \cup Told(Answers(m))
      BY <3>1, <3>2, <3>3, ItemSays
    <3> QED BY <3>4, <3>5, <3>6
  <2>2. build_input(m) = <<it>>
    BY <1>4 DEF build_input
  <2> HIDE DEF it
  <2> QED BY <1>0, <1>4, <2>1, <2>2, OneSays DEF Carries
<1> QED BY <1>0, <1>1, <1>2, <1>3, <1>4

LEMMA GeminiCliCarries ==
    ASSUME NEW m \in Messages
    PROVE  GeminiCliContents(m) \in Seq(Items) /\ Carries("gemini_cli", m, GeminiCliContents(m))
<1>1. CASE GeminiCliContents(m) = <<>>
  <2>1. m.role = "system" \/ (m.text = <<>> /\ m.result = NoResult)
    BY <1>1 DEF GeminiCliContents
  <2>2. Tokens(m.result.output) = {} /\ (m.role = "system" \/ Tokens(m.text) = {})
    BY <2>1, MessageParts, ResultFacts
  <2> QED BY <1>1, <2>2 DEF Carries, DropsSystem
<1>2. CASE GeminiCliContents(m) # <<>>
  <2>1. PICK way \in Forms : GeminiCliContents(m) = <<Item(way, m.text, m.calls, Answers(m))>>
    BY <1>2 DEF GeminiCliContents, Forms
  <2> DEFINE it == Item(way, m.text, m.calls, Answers(m))
  <2>2. it \in Items /\ Said(it) = Tokens(m.text) \cup Tokens(m.result.output)
    BY MessageParts, ItemSays
  <2> HIDE DEF it
  <2> QED BY <2>1, <2>2, OneSays DEF Carries, it
<1> QED BY <1>1, <1>2

LEMMA AntigravityCarries ==
    ASSUME NEW m \in Messages
    PROVE  AntigravityContents(m) \in Seq(Items) /\ Carries("antigravity", m, AntigravityContents(m))
<1>1. CASE m.role = "system" \/ m.text = <<>>
  <2>1. AntigravityContents(m) = <<>>
    BY <1>1 DEF AntigravityContents
  <2>2. m.role = "system" \/ Tokens(m.text) = {}
    BY <1>1, MessageParts
  <2> QED BY <2>1, <2>2 DEF Carries, DropsSystem, DropsOutput
<1>2. CASE ~(m.role = "system" \/ m.text = <<>>)
  <2>1. PICK way \in Forms : AntigravityContents(m) = <<Plain(way, m.text)>>
    BY <1>2 DEF AntigravityContents, Forms
  <2> DEFINE it == Plain(way, m.text)
  <2>2. it \in Items /\ Said(it) = Tokens(m.text)
    BY MessageParts, ItemSays
  <2> HIDE DEF it
  <2> QED BY <2>1, <2>2, OneSays DEF Carries, DropsOutput, it
<1> QED BY <1>1, <1>2

LEMMA CursorCarries ==
    ASSUME NEW m \in Messages, validate(m)
    PROVE  CursorMessage(m) \in Seq(Items) /\ Carries("cursor", m, CursorMessage(m))
<1>1. PICK text \in Seq(Token), calls \in Seq(Ids), answers \in Seq(Given) :
        /\ CursorMessage(m) = <<Item(m.role, text, calls, answers)>>
        /\ Tokens(m.text) \subseteq Tokens(text)
        /\ Tokens(m.result.output) \subseteq Told(answers)
  <2>1. CASE m.role = "tool"
    <3>1. m.text = <<>>
      BY <2>1, MessageFields DEF validate
    <3>2. CursorMessage(m) = <<Item(m.role, <<>>, <<>>, Answers(m))>>
      BY <2>1 DEF CursorMessage
    <3> QED BY <3>1, <3>2, MessageParts
  <2>2. CASE m.role # "tool"
    <3>1. CursorMessage(m) = <<Item(m.role, m.text, IF m.role = "assistant" THEN m.calls ELSE <<>>, <<>>)>>
      BY <2>2 DEF CursorMessage
    <3> QED BY <2>2, <3>1, MessageParts
  <2> QED BY <2>1, <2>2
<1> DEFINE it == Item(m.role, text, calls, answers)
<1>2. it \in Items /\ Said(it) = Tokens(text) \cup Told(answers)
  BY MessageParts, ItemSays
<1> HIDE DEF it
<1> QED BY <1>1, <1>2, OneSays DEF Carries, it

LEMMA WindsurfCarries ==
    ASSUME NEW m \in Messages
    PROVE  WindsurfMessage(m) \in Seq(Items) /\ Carries("windsurf", m, WindsurfMessage(m))
<1>1. PICK answers \in Seq(Given) : WindsurfMessage(m) = <<Item(m.role, m.text, m.calls, answers)>>
  <2>1. CASE m.result = NoResult
    BY <2>1, MessageParts DEF WindsurfMessage
  <2>2. CASE m.result # NoResult
    <3> DEFINE told == [m.result EXCEPT !.output = <<>>]
    <3>1. m.result \in Given
      BY MessageFields, ResultFacts
    <3>2. told \in Given
      BY <3>1, MessageParts DEF Given
    <3>3. WindsurfMessage(m) = <<Item(m.role, m.text, m.calls, <<told>>)>>
      BY <2>2 DEF WindsurfMessage
    <3> HIDE DEF told
    <3>4. <<told>> \in Seq(Given)
      BY <3>2
    <3> QED BY <3>3, <3>4
  <2> QED BY <2>1, <2>2
<1> DEFINE it == Item(m.role, m.text, m.calls, answers)
<1>2. it \in Items /\ Said(it) = Tokens(m.text) \cup Told(answers)
  BY MessageParts, ItemSays
<1> HIDE DEF it
<1> QED BY <1>1, <1>2, OneSays DEF Carries, DropsOutput, it

LEMMA PlainCarries ==
    ASSUME NEW m \in Messages
    PROVE  /\ GlmMessage(m) \in Seq(Items) /\ Carries("glm", m, GlmMessage(m))
           /\ ChatgptMessage(m) \in Seq(Items) /\ Carries("chatgpt", m, ChatgptMessage(m))
<1> DEFINE it == Plain(m.role, m.text)
<1>1. it \in Items /\ Said(it) = Tokens(m.text)
  BY MessageParts, ItemSays
<1>2. GlmMessage(m) = <<it>> /\ ChatgptMessage(m) = <<it>>
  BY DEF GlmMessage, ChatgptMessage
<1> HIDE DEF it
<1> QED BY <1>1, <1>2, OneSays DEF Carries, DropsOutput

\* The adapters that send one text say in it what each message does.
LEMMA TextsHave ==
    ASSUME NEW ms \in Seq(Messages), NEW ss, DOMAIN ss = DOMAIN ms, ss = [i \in DOMAIN ms |-> ss[i]],
           \A j \in DOMAIN ms : ss[j] \in Seq(Token), NEW i \in DOMAIN ms
    PROVE  Flat(ss) \in Seq(Token) /\ Tokens(ss[i]) \subseteq Tokens(Flat(ss))
<1>1. ss \in Seq(Seq(Token))
  <2>1. DOMAIN ms = 1..Len(ms) /\ Len(ms) \in Nat
    OBVIOUS
  <2>2. ss \in [1..Len(ms) -> Seq(Token)]
    BY <2>1
  <2> QED BY <2>1, <2>2
<1> QED BY <1>1, FlatHas

LEMMA PromptSays ==
    ASSUME NEW text \in Seq(Token)
    PROVE  Prompt(text) \in Seq(Items) /\ TokensOf(Prompt(text)) = Tokens(text)
<1> DEFINE it == Plain("user", text)
<1>1. it \in Items /\ Said(it) = Tokens(text)
  <2>1. <<>> \in Seq(Ids) /\ <<>> \in Seq(Given) /\ "user" \in Forms
    BY DEF Forms
  <2> QED BY <2>1, ItemSays
<1>2. Prompt(text) = <<it>>
  BY DEF Prompt
<1> HIDE DEF it
<1> QED BY <1>1, <1>2, OneSays

\* message_to_text says all of a message that validate accepts.
LEMMA TextSays ==
    ASSUME NEW m \in Messages
    PROVE  /\ message_to_text(m) \in Seq(Token)
           /\ Tokens(message_to_text(m)) = Tokens(m.text) \cup Tokens(m.result.output)
<1>1. m.result \in Given
  BY MessageFields, ResultFacts
<1>2. message_to_text(m) \in Seq(Token)
  BY <1>1, MessageParts DEF message_to_text, Given
<1>3. CASE m.result = NoResult
  BY <1>3, MessageParts, ResultFacts DEF message_to_text
<1>4. CASE m.result # NoResult
  <2>1. m.text = <<>>
    BY <1>4, MessageFields
  <2>2. message_to_text(m) = m.result.output /\ Tokens(m.text) = {}
    BY <1>4, <2>1, MessageParts DEF message_to_text
  <2> QED BY <1>2, <2>2
<1> QED BY <1>2, <1>3, <1>4

LEMMA TranscriptSays ==
    ASSUME NEW ms \in Seq(Messages), NEW i \in DOMAIN ms, NEW t,
           t = IF Len(ms) > 1 THEN Texts(ms, message_to_text) ELSE message_to_text(Last(ms))
    PROVE  t \in Seq(Token) /\ Tokens(ms[i].text) \cup Tokens(ms[i].result.output) \subseteq Tokens(t)
<1> DEFINE ss == [j \in DOMAIN ms |-> message_to_text(ms[j])]
<1>1. ms[i] \in Messages /\ Len(ms) \in Nat /\ i \in 1..Len(ms)
  OBVIOUS
<1>2. CASE Len(ms) > 1
  <2>1. t = Flat(ss)
    BY <1>2 DEF Texts
  <2>2. \A j \in DOMAIN ms : ss[j] \in Seq(Token)
    BY TextSays
  <2>3. ss[i] = message_to_text(ms[i])
    OBVIOUS
  <2>4. DOMAIN ss = DOMAIN ms /\ ss = [j \in DOMAIN ms |-> ss[j]]
    OBVIOUS
  <2> HIDE DEF ss
  <2>5. Flat(ss) \in Seq(Token) /\ Tokens(ss[i]) \subseteq Tokens(Flat(ss))
    BY <2>2, <2>4, TextsHave
  <2> QED BY <1>1, <2>1, <2>3, <2>5, TextSays
<1>3. CASE ~(Len(ms) > 1)
  <2>1. i = Len(ms)
    BY <1>1, <1>3
  <2>2. t = message_to_text(ms[i])
    BY <1>3, <2>1 DEF Last
  <2> QED BY <1>1, <2>2, TextSays
<1> QED BY <1>2, <1>3

LEMMA PerplexityCarries ==
    ASSUME NEW ms \in Seq(Messages), NEW i \in DOMAIN ms
    PROVE  build_query(ms) \in Seq(Items) /\ Carries("perplexity", ms[i], build_query(ms))
<1> DEFINE t == IF Len(ms) > 1 THEN Texts(ms, message_to_text) ELSE message_to_text(Last(ms))
<1>1. build_query(ms) = Prompt(t)
  BY DEF build_query, render_history
<1>2. t \in Seq(Token) /\ Tokens(ms[i].text) \cup Tokens(ms[i].result.output) \subseteq Tokens(t)
  BY TranscriptSays
<1> HIDE DEF t
<1> QED BY <1>1, <1>2, PromptSays DEF Carries

LEMMA ClaudeCarries ==
    ASSUME NEW ms \in Seq(Messages), NEW i \in DOMAIN ms, NEW sys \in Seq(Token)
    PROVE  /\ completion_body(ms, sys, FALSE) \in Seq(Items)
           /\ Carries("claude", ms[i], completion_body(ms, sys, FALSE))
<1> DEFINE t == IF Len(ms) > 1 THEN Texts(ms, message_to_text) ELSE message_to_text(Last(ms))
<1>1. completion_body(ms, sys, FALSE) = Leading(sys) \o Prompt(t)
  BY DEF completion_body, latest_prompt, render_transcript
<1>2. t \in Seq(Token) /\ Tokens(ms[i].text) \cup Tokens(ms[i].result.output) \subseteq Tokens(t)
  BY TranscriptSays
<1> HIDE DEF t
<1>3. Prompt(t) \in Seq(Items) /\ Carries("claude", ms[i], Prompt(t))
  BY <1>2, PromptSays DEF Carries
<1> QED BY <1>1, <1>3, LeadingSays, CarriesMore

LEMMA GeminiCarries ==
    ASSUME NEW ms \in Seq(Messages), NEW i \in DOMAIN ms, NEW sys \in Seq(Token)
    PROVE  build_prompt(ms, sys) \in Seq(Items) /\ Carries("gemini", ms[i], build_prompt(ms, sys))
<1> DEFINE ss == [j \in DOMAIN ms |-> ms[j].text]
<1>1. build_prompt(ms, sys) = Prompt(sys \o Flat(ss))
  BY DEF build_prompt, Texts
<1>2. \A j \in DOMAIN ms : ss[j] \in Seq(Token)
  BY MessageParts
<1>3. ss[i] = ms[i].text /\ DOMAIN ss = DOMAIN ms /\ ss = [j \in DOMAIN ms |-> ss[j]]
  OBVIOUS
<1> HIDE DEF ss
<1>4. Flat(ss) \in Seq(Token) /\ Tokens(ss[i]) \subseteq Tokens(Flat(ss))
  BY <1>2, <1>3, TextsHave
<1>5. sys \o Flat(ss) \in Seq(Token) /\ Tokens(ms[i].text) \subseteq Tokens(sys \o Flat(ss))
  BY <1>3, <1>4, CatHas
<1> QED BY <1>1, <1>5, PromptSays DEF Carries, DropsOutput

-----------------------------------------------------------------------------
(* kiro's history. *)

LEMMA AppendSays ==
    ASSUME NEW h \in Seq(Items), NEW it \in Items
    PROVE  Append(h, it) \in Seq(Items) /\ TokensOf(Append(h, it)) = TokensOf(h) \cup Said(it)
<1> DEFINE one == <<it>>
<1>1. one \in Seq(Items) /\ Append(h, it) = h \o one
  OBVIOUS
<1>2. TokensOf(one) = Said(it)
  BY OneSays
<1> HIDE DEF one
<1> QED BY <1>1, <1>2, CatSays

LEMMA PushUserSays ==
    ASSUME NEW h \in Seq(Items), NEW it \in Items
    PROVE  /\ PushUser(h, it) \in Seq(Items)
           /\ TokensOf(h) \cup Said(it) \subseteq TokensOf(PushUser(h, it))
<1> DEFINE gap == Plain("assistant", <<>>)
<1>1. gap \in Items
  <2>1. <<>> \in Seq(Ids) /\ <<>> \in Seq(Given) /\ <<>> \in Seq(Token) /\ "assistant" \in Forms
    BY DEF Forms
  <2> QED BY <2>1, ItemSays
<1>2. PushUser(h, it) = Append(h, it) \/ PushUser(h, it) = Append(Append(h, gap), it)
  <2> HIDE DEF gap
  <2>1. h \o <<gap, it>> = Append(Append(h, gap), it)
    BY <1>1
  <2> QED BY <2>1 DEF PushUser, gap
<1> HIDE DEF gap
<1>3. Append(h, gap) \in Seq(Items) /\ TokensOf(h) \subseteq TokensOf(Append(h, gap))
  BY <1>1, AppendSays
<1> QED BY <1>2, <1>3, AppendSays

\* A history that is not empty is its front and its last item.
LEMMA FrontLast ==
    ASSUME NEW h \in Seq(Items), h # <<>>
    PROVE  Front(h) \in Seq(Items) /\ Last(h) \in Items /\ h = Append(Front(h), Last(h))
<1>1. Len(h) \in Nat /\ Len(h) >= 1 /\ Len(h) \in DOMAIN h /\ DOMAIN h = 1..Len(h)
  OBVIOUS
<1>2. Front(h) \in Seq(Items) /\ Len(Front(h)) = Len(h) - 1 /\ \A j \in 1..(Len(h) - 1) : Front(h)[j] = h[j]
  BY <1>1 DEF Front
<1>3. Last(h) = h[Len(h)] /\ Last(h) \in Items
  BY <1>1 DEF Last
<1> DEFINE f == Front(h)
           l == Last(h)
<1> HIDE DEF f, l
<1>4. /\ f \in Seq(Items) /\ Len(f) = Len(h) - 1 /\ \A j \in 1..(Len(h) - 1) : f[j] = h[j]
      /\ l = h[Len(h)] /\ l \in Items
  BY <1>2, <1>3 DEF f, l
<1>5. Append(f, l) \in Seq(Items) /\ Len(Append(f, l)) = Len(h)
  <2>1. f \in Seq(Items) /\ l \in Items
    BY <1>4
  <2>2. Append(f, l) \in Seq(Items) /\ Len(Append(f, l)) = Len(f) + 1
    BY <2>1
  <2> QED BY <1>1, <1>4, <2>2
<1>6. ASSUME NEW j \in 1..Len(h) PROVE Append(f, l)[j] = h[j]
  BY <1>1, <1>4
<1>7. Append(f, l) = h
  BY <1>5, <1>6
<1> QED BY <1>4, <1>7 DEF f, l

LEMMA MergeSays ==
    ASSUME NEW prev \in Items, NEW m \in Messages
    PROVE  /\ merge_assistant(prev, m) \in Items
           /\ Said(merge_assistant(prev, m)) = Said(prev) \cup Tokens(m.text)
<1> DEFINE x == merge_assistant(prev, m)
<1>1. /\ prev.text \in Seq(Token) /\ prev.calls \in Seq(Ids) /\ m.text \in Seq(Token) /\ m.calls \in Seq(Ids)
  BY MessageParts DEF Items
<1>2. /\ x.text = prev.text \o m.text /\ x.answers = prev.answers /\ x.calls = prev.calls \o m.calls
      /\ x = [prev EXCEPT !.text = x.text, !.calls = x.calls]
  BY DEF merge_assistant, Items
<1>3. prev.text \o m.text \in Seq(Token) /\ prev.calls \o m.calls \in Seq(Ids)
      /\ Tokens(prev.text \o m.text) = Tokens(prev.text) \cup Tokens(m.text)
  BY <1>1, CatHas
<1> HIDE DEF x
<1>4. x \in Items
  <2>1. x.text \in Seq(Token) /\ x.calls \in Seq(Ids)
    BY <1>2, <1>3
  <2> QED BY <1>2, <2>1 DEF Items
<1>5. Said(x) = Said(prev) \cup Tokens(m.text)
  BY <1>2, <1>3 DEF Said
<1> QED BY <1>4, <1>5 DEF x

\* One message more in the history.
LEMMA PushedSays ==
    ASSUME NEW h \in Seq(Items), NEW m \in Messages, validate(m)
    PROVE  /\ Pushed(h, m) \in Seq(Items)
           /\ TokensOf(h) \cup Tokens(m.text) \cup Tokens(m.result.output) \subseteq TokensOf(Pushed(h, m))
<1>0. "user" \in Forms /\ "assistant" \in Forms
  BY DEF Forms
<1>1. CASE m.role \in {"user", "system"}
  <2> DEFINE it == Plain("user", m.text)
  <2>1. it \in Items /\ Said(it) = Tokens(m.text)
    BY <1>0, MessageParts, ItemSays
  <2>2. Pushed(h, m) = PushUser(h, it)
    BY <1>1 DEF Pushed
  <2>3. Tokens(m.result.output) = {}
    BY <1>1, MessageParts
  <2> HIDE DEF it
  <2> QED BY <2>1, <2>2, <2>3, PushUserSays
<1>2. CASE m.role = "tool"
  <2> DEFINE none == <<>>
             it == Item("user", none, none, Answers(m))
  <2>1. none \in Seq(Token) /\ none \in Seq(Ids) /\ Tokens(none) = {}
        /\ Answers(m) \in Seq(Given) /\ Told(Answers(m)) = Tokens(m.result.output)
    BY MessageParts
  <2>2. Pushed(h, m) = PushUser(h, it)
    BY <1>2 DEF Pushed
  <2>3. Tokens(m.text) = {}
    BY <1>2, MessageFields, MessageParts DEF validate
  <2>40. it = Item("user", none, none, Answers(m))
    OBVIOUS
  <2> HIDE DEF it, none
  <2>4. it \in Items /\ Said(it) = Tokens(none) \cup Told(Answers(m))
    <3>1. none \in Seq(Token) /\ none \in Seq(Ids) /\ Answers(m) \in Seq(Given)
      BY <2>1
    <3> QED BY <1>0, <3>1, <2>40, ItemSays
  <2> QED BY <2>1, <2>2, <2>3, <2>4, PushUserSays
<1>3. CASE m.role = "assistant"
  <2>1. Tokens(m.result.output) = {}
    BY <1>3, MessageParts
  <2>2. CASE m.text = <<>> /\ m.calls = <<>>
    <3>1. Pushed(h, m) = h
      BY <1>3, <2>2 DEF Pushed, PushAssistant
    <3>2. Tokens(m.text) = {}
      BY <2>2, MessageParts
    <3> QED BY <2>1, <3>1, <3>2
  <2>3. CASE ~(m.text = <<>> /\ m.calls = <<>>) /\ h # <<>> /\ ~IsUser(Last(h))
    <3> DEFINE x == merge_assistant(Last(h), m)
    <3>1. Pushed(h, m) = Append(Front(h), x)
      BY <1>3, <2>3 DEF Pushed, PushAssistant
    <3>2. Front(h) \in Seq(Items) /\ Last(h) \in Items /\ h = Append(Front(h), Last(h))
      BY <2>3, FrontLast
    <3>3. x \in Items /\ Said(x) = Said(Last(h)) \cup Tokens(m.text)
      BY <3>2, MergeSays
    <3>4. TokensOf(h) = TokensOf(Front(h)) \cup Said(Last(h))
      BY <3>2, AppendSays
    <3> HIDE DEF x
    <3>5. Append(Front(h), x) \in Seq(Items) /\ TokensOf(Append(Front(h), x)) = TokensOf(Front(h)) \cup Said(x)
      BY <3>2, <3>3, AppendSays
    <3> QED BY <2>1, <3>1, <3>3, <3>4, <3>5
  <2>4. CASE ~(m.text = <<>> /\ m.calls = <<>>) /\ ~(h # <<>> /\ ~IsUser(Last(h)))
    <3> DEFINE none == <<>>
               it == Item("assistant", m.text, m.calls, none)
    <3>1. Pushed(h, m) = Append(h, it)
      BY <1>3, <2>4 DEF Pushed, PushAssistant
    <3>10. it = Item("assistant", m.text, m.calls, none)
      OBVIOUS
    <3>11. m.text \in Seq(Token) /\ m.calls \in Seq(Ids) /\ none \in Seq(Given)
      BY MessageParts
    <3> HIDE DEF it, none
    <3>2. it \in Items /\ Said(it) = Tokens(m.text) \cup Told(none)
      BY <1>0, <3>10, <3>11, ItemSays
    <3> QED BY <2>1, <3>1, <3>2, AppendSays
  <2> QED BY <2>2, <2>3, <2>4
<1> QED BY <1>1, <1>2, <1>3, MessageFields

\* h has the history after each message but the last.
HistoryUpto(h, ms) ==
    h = [n \in 0..(Len(ms) - 1) |-> IF n = 0 THEN <<>> ELSE Pushed(h[n - 1], ms[n])]

LEMMA HistoryExists ==
    ASSUME NEW ms \in Seq(Messages), ms # <<>>, \A i \in DOMAIN ms : validate(ms[i])
    PROVE  \E h : HistoryUpto(h, ms)
<1> DEFINE top == Len(ms) - 1
           F == [n \in 1..top |-> [x \in Seq(Items) |-> Pushed(x, ms[n])]]
<1>1. top \in Nat /\ \A n \in 1..top : n \in DOMAIN ms /\ ms[n] \in Messages
  OBVIOUS
<1>2. F \in [1..top -> [Seq(Items) -> Seq(Items)]]
  BY <1>1, PushedSays
<1>3. <<>> \in Seq(Items)
  OBVIOUS
<1>4. PICK h : Iterates(h, top, Seq(Items), <<>>, F)
  <2> HIDE DEF F, top
  <2> QED BY <1>1, <1>2, <1>3, IterationExists
<1>5. h \in [0..top -> Seq(Items)] /\ h[0] = <<>> /\ \A n \in 1..top : h[n] = F[n][h[n - 1]]
  <2> HIDE DEF F, top
  <2> QED BY <1>4 DEF Iterates
<1>6. ASSUME NEW n \in 0..top, n # 0 PROVE h[n] = Pushed(h[n - 1], ms[n])
  <2>1. n \in 1..top /\ n - 1 \in 0..top
    BY <1>1, <1>6
  <2>2. h[n - 1] \in Seq(Items)
    BY <1>5, <2>1
  <2> QED BY <1>5, <2>1, <2>2
<1>7. h = [n \in 0..top |-> IF n = 0 THEN <<>> ELSE Pushed(h[n - 1], ms[n])]
  <2> HIDE DEF F, top
  <2> QED BY <1>5, <1>6
<1> QED BY <1>7 DEF HistoryUpto

\* What is said before the last message is in kiro's history.
LEMMA HistorySays ==
    ASSUME NEW ms \in Seq(Messages), ms # <<>>, \A i \in DOMAIN ms : validate(ms[i])
    PROVE  /\ build_history(ms) \in Seq(Items)
           /\ \A i \in 1..(Len(ms) - 1) :
                 Tokens(ms[i].text) \cup Tokens(ms[i].result.output) \subseteq TokensOf(build_history(ms))
<1> DEFINE top == Len(ms) - 1
           U == CHOOSE h : HistoryUpto(h, ms)
           says(i) == Tokens(ms[i].text) \cup Tokens(ms[i].result.output)
           S == {n \in Nat : n <= top => /\ U[n] \in Seq(Items)
                                       /\ \A i \in 1..n : says(i) \subseteq TokensOf(U[n])}
<1>1. HistoryUpto(U, ms)
  BY HistoryExists
<1>2. build_history(ms) = U[top]
  BY DEF build_history, HistoryUpto
<1> HIDE DEF U
<1>3. top \in Nat /\ \A n \in 1..top : n \in DOMAIN ms /\ ms[n] \in Messages /\ validate(ms[n])
  OBVIOUS
<1>4. U[0] = <<>> /\ \A n \in 1..top : U[n] = Pushed(U[n - 1], ms[n])
  BY <1>1, <1>3 DEF HistoryUpto
<1> HIDE DEF top, says
<1>5. 0 \in S
  <2>1. <<>> \in Seq(Items) /\ 1..0 = {}
    OBVIOUS
  <2> QED BY <1>4, <2>1
<1>6. ASSUME NEW n \in Nat, n \in S PROVE n + 1 \in S
  <2> SUFFICES ASSUME n + 1 <= top
               PROVE  U[n + 1] \in Seq(Items) /\ \A i \in 1..(n + 1) : says(i) \subseteq TokensOf(U[n + 1])
    OBVIOUS
  <2>1. n + 1 \in 1..top /\ n <= top /\ 1..(n + 1) = 1..n \cup {n + 1}
    BY <1>3
  <2>2. U[n + 1] = Pushed(U[n], ms[n + 1])
    <3>1. \A k \in 1..top : \A j : j = k - 1 => U[k] = Pushed(U[j], ms[k])
      BY <1>4
    <3> QED BY <2>1, <3>1
  <2>3. U[n] \in Seq(Items) /\ \A i \in 1..n : says(i) \subseteq TokensOf(U[n])
    BY <1>6, <2>1
  <2>4. ms[n + 1] \in Messages /\ validate(ms[n + 1])
    BY <1>3, <2>1
  <2>5. U[n + 1] \in Seq(Items) /\ TokensOf(U[n]) \subseteq TokensOf(U[n + 1]) /\ says(n + 1) \subseteq TokensOf(U[n + 1])
    BY <2>2, <2>3, <2>4, PushedSays DEF says
  <2> HIDE DEF S
  <2> QED BY <2>1, <2>3, <2>5
<1>7. Nat \subseteq S
  <2> HIDE DEF S
  <2> QED BY <1>5, <1>6, SetInduction
<1>8. U[top] \in Seq(Items) /\ \A i \in 1..top : says(i) \subseteq TokensOf(U[top])
  BY <1>3, <1>7
<1> QED BY <1>2, <1>8 DEF top, says

\* The system prompt goes in front of a text, or makes an item of its own.
LEMMA InjectSays ==
    ASSUME NEW h \in Seq(Items), NEW sys \in Seq(Token)
    PROVE  inject_system_prompt(h, sys) \in Seq(Items) /\ TokensOf(h) \subseteq TokensOf(inject_system_prompt(h, sys))
<1> DEFINE users == {i \in DOMAIN h : IsUser(h[i])}
           first == CHOOSE i \in users : \A j \in users : i <= j
           own == <<Plain("user", sys)>>
           put == [h EXCEPT ![first].text = sys \o @]
<1>1. inject_system_prompt(h, sys) = h \/ inject_system_prompt(h, sys) = own \o h \/ inject_system_prompt(h, sys) = put
  BY DEF inject_system_prompt
<1>2. own \o h \in Seq(Items) /\ TokensOf(h) \subseteq TokensOf(own \o h)
  <2>1. own \in Seq(Items)
    <3>1. <<>> \in Seq(Ids) /\ <<>> \in Seq(Given) /\ "user" \in Forms
      BY DEF Forms
    <3>2. Plain("user", sys) \in Items
      BY <3>1, ItemSays
    <3> QED BY <3>2
  <2> HIDE DEF own
  <2> QED BY <2>1, CatSays
<1>3. put \in Seq(Items) /\ TokensOf(h) \subseteq TokensOf(put)
  <2> DEFINE was == h[first]
             is == [was EXCEPT !.text = sys \o was.text]
  <2>1. put = [h EXCEPT ![first] = is]
    OBVIOUS
  <2> HIDE DEF first, put
  <2>2. CASE first \notin DOMAIN h
    <3>1. put = [i \in DOMAIN h |-> IF i = first THEN is ELSE h[i]]
      <4> HIDE DEF is
      <4> QED BY <2>1
    <3>2. put = [i \in DOMAIN h |-> h[i]]
      BY <2>2, <3>1
    <3>3. h = [i \in DOMAIN h |-> h[i]]
      OBVIOUS
    <3>4. put = h
      BY <3>2, <3>3
    <3> QED BY <3>4
  <2>3. CASE first \in DOMAIN h
    <3>1. was \in Items
      BY <2>3
    <3> HIDE DEF was
    <3>2. was.text \in Seq(Token)
      BY <3>1 DEF Items
    <3>3. sys \o was.text \in Seq(Token) /\ Tokens(was.text) \subseteq Tokens(sys \o was.text)
      BY <3>2, CatHas
    <3>4. is \in Items /\ is.text = sys \o was.text /\ is.answers = was.answers
      BY <3>1, <3>3 DEF Items
    <3>5. Said(was) \subseteq Said(is)
      BY <3>3, <3>4 DEF Said
    <3> HIDE DEF is
    <3>6. put \in Seq(Items) /\ DOMAIN put = DOMAIN h /\ \A i \in DOMAIN h : put[i] = IF i = first THEN is ELSE h[i]
      BY <2>1, <2>3, <3>4
    <3>7. ASSUME NEW i \in DOMAIN h PROVE Said(h[i]) \subseteq Said(put[i])
      BY <3>5, <3>6 DEF was
    <3>8. TokensOf(h) = UNION {Said(h[i]) : i \in DOMAIN h} /\ TokensOf(put) = UNION {Said(put[i]) : i \in DOMAIN put}
      BY DEF TokensOf, Said, Told
    <3> QED BY <3>6, <3>7, <3>8
  <2> QED BY <2>2, <2>3
<1> HIDE DEF own, put
<1> QED BY <1>1, <1>2, <1>3

\* A set of indices has a greatest.
LEMMA Greatest ==
    ASSUME NEW n \in Nat, NEW T, T \subseteq 1..n, T # {}
    PROVE  \E x \in T : \A y \in T : x >= y
<1> DEFINE Q(k) == \A R \in SUBSET (1..k) : R # {} => \E x \in R : \A y \in R : x >= y
           S == {k \in Nat : Q(k)}
<1>1. 0 \in S
  <2>1. 1..0 = {}
    OBVIOUS
  <2> QED BY <2>1
<1>2. ASSUME NEW k \in Nat, k \in S PROVE k + 1 \in S
  <2> SUFFICES ASSUME NEW R \in SUBSET (1..(k + 1)), R # {} PROVE \E x \in R : \A y \in R : x >= y
    OBVIOUS
  <2>1. CASE k + 1 \in R
    <3>1. \A y \in R : k + 1 >= y
      OBVIOUS
    <3> QED BY <2>1, <3>1
  <2>2. CASE k + 1 \notin R
    <3>1. R \in SUBSET (1..k)
      BY <2>2
    <3> QED BY <1>2, <3>1
  <2> QED BY <2>1, <2>2
<1>3. Nat \subseteq S
  <2> HIDE DEF S
  <2> QED BY <1>1, <1>2, SetInduction
<1> QED BY <1>3

\* The result of the last message is among the trailing ones.
LEMMA TrailingSay ==
    ASSUME NEW ms \in Seq(Messages), ms # <<>>
    PROVE  /\ TrailingResults(ms) \in Seq(Given)
           /\ Tokens(Last(ms).result.output) \subseteq Told(TrailingResults(ms))
<1> DEFINE turns == {i \in DOMAIN ms : ms[i].role = "assistant"}
           latest == CHOOSE i \in turns : \A j \in turns : i >= j
           start == IF turns = {} THEN 1 ELSE 1 + latest
           sub == SubSeq(ms, start, Len(ms))
           ss == [i \in DOMAIN sub |-> Answers(sub[i])]
<1>1. Len(ms) \in Nat /\ Len(ms) >= 1 /\ DOMAIN ms = 1..Len(ms) /\ Last(ms) = ms[Len(ms)] /\ Last(ms) \in Messages
  BY DEF Last
<1>2. CASE Last(ms).role # "tool"
  <2>1. TrailingResults(ms) = <<>>
    BY <1>2 DEF TrailingResults
  <2> QED BY <1>1, <1>2, <2>1, MessageParts
<1>3. CASE Last(ms).role = "tool"
  <2>1. TrailingResults(ms) = Flat(ss)
    BY <1>3 DEF TrailingResults, Texts
  <2>2. start \in 1..Len(ms)
    <3>1. CASE turns = {}
      BY <1>1, <3>1
    <3>2. CASE turns # {}
      <4>1. turns \subseteq 1..Len(ms)
        BY <1>1
      <4>2. \E i \in turns : \A j \in turns : i >= j
        <5> HIDE DEF turns
        <5> QED BY <1>1, <3>2, <4>1, Greatest
      <4>3. latest \in turns
        <5> HIDE DEF turns
        <5> QED BY <4>2
      <4>4. latest \in 1..Len(ms) /\ latest # Len(ms)
        <5> HIDE DEF latest
        <5> QED BY <1>1, <1>3, <4>3
      <4>5. start = 1 + latest
        BY <3>2
      <4>6. Len(ms) \in Nat /\ \A n \in Nat : \A l \in 1..n : l # n => 1 + l \in 1..n
        BY <1>1
      <4> HIDE DEF latest, start
      <4> QED BY <4>4, <4>5, <4>6
    <3> QED BY <3>1, <3>2
  <2> HIDE DEF start
  <2>3. sub \in Seq(Messages) /\ Len(sub) = Len(ms) - start + 1 /\ sub[Len(sub)] = Last(ms) /\ Len(sub) \in DOMAIN sub
    BY <1>1, <2>2
  <2> HIDE DEF sub
  <2>4. ss \in Seq(Seq(Given)) /\ ss[Len(sub)] = Answers(Last(ms)) /\ Len(sub) \in DOMAIN ss
    <3>1. \A i \in DOMAIN sub : Answers(sub[i]) \in Seq(Given)
      BY <2>3, MessageParts
    <3>2. DOMAIN sub = 1..Len(sub) /\ Len(sub) \in Nat
      BY <2>3
    <3>3. ss \in [1..Len(sub) -> Seq(Given)]
      BY <3>1, <3>2
    <3> QED BY <2>3, <3>2, <3>3
  <2> HIDE DEF ss
  <2>5. Flat(ss) \in Seq(Given) /\ Tokens(ss[Len(sub)]) \subseteq Tokens(Flat(ss))
    BY <2>4, FlatHas
  <2>6. \A r : Told(r) = UNION {Tokens(x.output) : x \in Tokens(r)}
    BY DEF Told, Tokens
  <2>7. Told(Answers(Last(ms))) \subseteq Told(Flat(ss))
    BY <2>4, <2>5, <2>6
  <2> QED BY <1>1, <2>1, <2>5, <2>7, MessageParts
<1> QED BY <1>2, <1>3

LEMMA KiroCarries ==
    ASSUME NEW ms \in Seq(Messages), \A i \in DOMAIN ms : validate(ms[i]), NEW i \in DOMAIN ms,
           NEW sys \in Seq(Token)
    PROVE  KiroRequest(ms, sys) \in Seq(Items) /\ Carries("kiro", ms[i], KiroRequest(ms, sys))
<1> DEFINE h == inject_system_prompt(build_history(ms), sys)
           none == <<>>
           it == Item("user", Last(ms).text, none, TrailingResults(ms))
<1>1. KiroRequest(ms, sys) = Append(h, it)
  BY DEF KiroRequest
<1>2. /\ ms # <<>> /\ Len(ms) \in Nat /\ i \in 1..Len(ms) /\ Last(ms) = ms[Len(ms)] /\ Last(ms) \in Messages
  BY DEF Last
<1>3. /\ h \in Seq(Items)
      /\ \A j \in 1..(Len(ms) - 1) : Tokens(ms[j].text) \cup Tokens(ms[j].result.output) \subseteq TokensOf(h)
  BY <1>2, HistorySays, InjectSays
<1>4. it = Item("user", Last(ms).text, none, TrailingResults(ms))
  OBVIOUS
<1>5. "user" \in Forms /\ Last(ms).text \in Seq(Token) /\ none \in Seq(Ids) /\ TrailingResults(ms) \in Seq(Given)
  BY <1>2, MessageParts, TrailingSay DEF Forms
<1> HIDE DEF h, it, none
<1>6. it \in Items /\ Said(it) = Tokens(Last(ms).text) \cup Told(TrailingResults(ms))
  BY <1>4, <1>5, ItemSays
<1>7. Append(h, it) \in Seq(Items) /\ TokensOf(Append(h, it)) = TokensOf(h) \cup Said(it)
  BY <1>3, <1>6, AppendSays
<1>8. CASE i = Len(ms)
  <2>1. ms[i] = Last(ms) /\ Tokens(ms[i].result.output) \subseteq Told(TrailingResults(ms))
    BY <1>2, <1>8, TrailingSay
  <2> QED BY <1>1, <1>6, <1>7, <2>1 DEF Carries
<1>9. CASE i # Len(ms)
  <2>1. i \in 1..(Len(ms) - 1)
    BY <1>2, <1>9
  <2>2. Tokens(ms[i].text) \cup Tokens(ms[i].result.output) \subseteq TokensOf(h)
    BY <1>3, <2>1
  <2> QED BY <1>1, <1>7, <2>2 DEF Carries
<1> QED BY <1>8, <1>9

\* Whatever the adapter, its request has what each message says, but for what
\* the adapter leaves out.
LEMMA WireCarries ==
    ASSUME NEW ms \in Seq(Messages), \A j \in DOMAIN ms : validate(ms[j]), NEW i \in DOMAIN ms,
           NEW sys \in Seq(Token), NEW a \in AllAdapters
    PROVE  Carries(a, ms[i], WireOf(a, ms, sys))
<1>0. \A j \in DOMAIN ms : ms[j] \in Messages /\ validate(ms[j])
  OBVIOUS
<1>1. CASE a = "openai_compat"
  <2> DEFINE ss == [j \in DOMAIN ms |-> to_oai_message(ms[j])]
  <2>1. WireOf(a, ms, sys) = Leading(sys) \o Flat(ss)
    BY <1>1 DEF WireOf, OpenaiRequest, Each
  <2>2. DOMAIN ss = DOMAIN ms /\ ss = [j \in DOMAIN ms |-> ss[j]]
    OBVIOUS
  <2>3. \A j \in DOMAIN ms : ss[j] \in Seq(Items) /\ Carries(a, ms[j], ss[j])
    BY <1>0, <1>1, OpenaiCarries
  <2> HIDE DEF ss
  <2> QED BY <2>1, <2>2, <2>3, EachCarries
<1>2. CASE a = "anthropic"
  <2> DEFINE ss == [j \in DOMAIN ms |-> build_messages(ms[j])]
  <2>1. WireOf(a, ms, sys) = Leading(sys) \o Flat(ss)
    BY <1>2 DEF WireOf, AnthropicRequest, Each
  <2>2. DOMAIN ss = DOMAIN ms /\ ss = [j \in DOMAIN ms |-> ss[j]]
    OBVIOUS
  <2>3. \A j \in DOMAIN ms : ss[j] \in Seq(Items) /\ Carries(a, ms[j], ss[j])
    BY <1>0, <1>2, AnthropicCarries
  <2> HIDE DEF ss
  <2> QED BY <2>1, <2>2, <2>3, EachCarries
<1>3. CASE a = "codex"
  <2> DEFINE ss == [j \in DOMAIN ms |-> build_input(ms[j])]
  <2>1. WireOf(a, ms, sys) = Leading(sys) \o Flat(ss)
    BY <1>3 DEF WireOf, CodexRequest, Each
  <2>2. DOMAIN ss = DOMAIN ms /\ ss = [j \in DOMAIN ms |-> ss[j]]
    OBVIOUS
  <2>3. \A j \in DOMAIN ms : ss[j] \in Seq(Items) /\ Carries(a, ms[j], ss[j])
    BY <1>0, <1>3, CodexCarries
  <2> HIDE DEF ss
  <2> QED BY <2>1, <2>2, <2>3, EachCarries
<1>4. CASE a = "gemini_cli"
  <2> DEFINE ss == [j \in DOMAIN ms |-> GeminiCliContents(ms[j])]
  <2>1. WireOf(a, ms, sys) = Leading(sys) \o Flat(ss)
    BY <1>4 DEF WireOf, GeminiCliRequest, Each
  <2>2. DOMAIN ss = DOMAIN ms /\ ss = [j \in DOMAIN ms |-> ss[j]]
    OBVIOUS
  <2>3. \A j \in DOMAIN ms : ss[j] \in Seq(Items) /\ Carries(a, ms[j], ss[j])
    BY <1>0, <1>4, GeminiCliCarries
  <2> HIDE DEF ss
  <2> QED BY <2>1, <2>2, <2>3, EachCarries
<1>5. CASE a = "antigravity"
  <2> DEFINE ss == [j \in DOMAIN ms |-> AntigravityContents(ms[j])]
  <2>1. WireOf(a, ms, sys) = Leading(sys) \o Flat(ss)
    BY <1>5 DEF WireOf, AntigravityRequest, Each
  <2>2. DOMAIN ss = DOMAIN ms /\ ss = [j \in DOMAIN ms |-> ss[j]]
    OBVIOUS
  <2>3. \A j \in DOMAIN ms : ss[j] \in Seq(Items) /\ Carries(a, ms[j], ss[j])
    BY <1>0, <1>5, AntigravityCarries
  <2> HIDE DEF ss
  <2> QED BY <2>1, <2>2, <2>3, EachCarries
<1>6. CASE a = "cursor"
  <2> DEFINE ss == [j \in DOMAIN ms |-> CursorMessage(ms[j])]
  <2>1. WireOf(a, ms, sys) = Leading(sys) \o Flat(ss)
    BY <1>6 DEF WireOf, build_inference_request, Each
  <2>2. DOMAIN ss = DOMAIN ms /\ ss = [j \in DOMAIN ms |-> ss[j]]
    OBVIOUS
  <2>3. \A j \in DOMAIN ms : ss[j] \in Seq(Items) /\ Carries(a, ms[j], ss[j])
    BY <1>0, <1>6, CursorCarries
  <2> HIDE DEF ss
  <2> QED BY <2>1, <2>2, <2>3, EachCarries
<1>7. CASE a = "windsurf"
  <2> DEFINE ss == [j \in DOMAIN ms |-> WindsurfMessage(ms[j])]
  <2>1. WireOf(a, ms, sys) = Leading(sys) \o Flat(ss)
    BY <1>7 DEF WireOf, build_envelope, Each
  <2>2. DOMAIN ss = DOMAIN ms /\ ss = [j \in DOMAIN ms |-> ss[j]]
    OBVIOUS
  <2>3. \A j \in DOMAIN ms : ss[j] \in Seq(Items) /\ Carries(a, ms[j], ss[j])
    BY <1>0, <1>7, WindsurfCarries
  <2> HIDE DEF ss
  <2> QED BY <2>1, <2>2, <2>3, EachCarries
<1>8. CASE a = "glm"
  <2> DEFINE ss == [j \in DOMAIN ms |-> GlmMessage(ms[j])]
  <2>1. WireOf(a, ms, sys) = Flat(ss)
    BY <1>8 DEF WireOf, build_body, Each
  <2>2. DOMAIN ss = DOMAIN ms /\ ss = [j \in DOMAIN ms |-> ss[j]]
    OBVIOUS
  <2>3. \A j \in DOMAIN ms : ss[j] \in Seq(Items) /\ Carries(a, ms[j], ss[j])
    BY <1>0, <1>8, PlainCarries
  <2> HIDE DEF ss
  <2> QED BY <2>1, <2>2, <2>3, EachCarries
<1>9. CASE a = "chatgpt"
  <2> DEFINE ss == [j \in DOMAIN ms |-> ChatgptMessage(ms[j])]
  <2>1. WireOf(a, ms, sys) = Flat(ss)
    BY <1>9 DEF WireOf, conversation_body, Each
  <2>2. DOMAIN ss = DOMAIN ms /\ ss = [j \in DOMAIN ms |-> ss[j]]
    OBVIOUS
  <2>3. \A j \in DOMAIN ms : ss[j] \in Seq(Items) /\ Carries(a, ms[j], ss[j])
    BY <1>0, <1>9, PlainCarries
  <2> HIDE DEF ss
  <2> QED BY <2>1, <2>2, <2>3, EachCarries
<1>10. CASE a = "gemini"
  BY <1>10, GeminiCarries DEF WireOf
<1>11. CASE a = "perplexity"
  BY <1>11, PerplexityCarries DEF WireOf
<1>12. CASE a = "claude"
  BY <1>12, ClaudeCarries DEF WireOf
<1>13. CASE a = "kiro"
  BY <1>13, KiroCarries DEF WireOf
<1> QED BY <1>1, <1>2, <1>3, <1>4, <1>5, <1>6, <1>7, <1>8, <1>9, <1>10, <1>11, <1>12, <1>13
      DEF AllAdapters, Streaming, Replaying, DoneOnly
-----------------------------------------------------------------------------
(* The inductive invariant. *)

Stands == {"enter", "open", "begin", "connect", "ask", "answer", "tools", "failed", "done"}
Asking == {"connect", "ask", "answer", "tools"}

Typed ==
    /\ adapter \in Adapters /\ via \in Entries /\ json \in BOOLEAN /\ pc \in Stands
    /\ request \in [messages : Seq(Messages), sys : Seq(Token), tools : BOOLEAN]
    /\ round \in 0..MaxIters /\ attempt \in 0..RetriesAllowed
    /\ asked \in Nat /\ convs \in Nat /\ conv \in Nat
    /\ checkpoint # <<>> => checkpoint[1] \in Nat
    /\ messages \in Seq(Messages) /\ todo \in Seq(Messages)
    /\ made \in Seq(Ids) /\ heard \in Seq(Ids) /\ executed \in Seq(Ids)
    /\ posted \in Seq([result : Results, to : Nat])
    /\ outcome \in {"none", "ok", "error"}

\* Calls are numbered as they are made.
Numbered ==
    /\ \A i \in DOMAIN heard : heard[i] <= BaseIds + asked
    /\ \A i \in DOMAIN executed : executed[i] <= BaseIds + asked

\* What the way in has settled before the turn begins.
Settled ==
    /\ request.messages # <<>>
    /\ pc # "enter" /\ via \in {"server", "cli"} => ~request.tools
    /\ pc \notin {"enter", "done"} => Valid(request)
    /\ \A i \in DOMAIN messages : validate(messages[i])
    /\ pc \in Asking => messages # <<>>
    /\ pc \in {"ask", "answer", "tools"} => round < MaxIters
    /\ pc = "tools" => heard # <<>> /\ (json => Len(heard) = 1)

\* Only claude posts results, and while the turn has its checkpoint the calls
\* it has to do with were all made in that conversation.
Home(r) == r.id > BaseIds => <<r.id, checkpoint[1]>> \in calledIn
AtHome ==
    /\ adapter # "claude" => todo = <<>> /\ posted = <<>>
    /\ pc \in {"enter", "open"} => messages = <<>> /\ todo = <<>> /\ posted = <<>>
    /\ \A i \in DOMAIN request.messages : request.messages[i].result.id <= BaseIds
    /\ adapter = "claude" /\ checkpoint # <<>> =>
          /\ pc \in {"ask", "answer", "tools"} => conv = checkpoint[1]
          /\ pc = "tools" => \A i \in DOMAIN heard : <<heard[i], conv>> \in calledIn
          /\ \A i \in DOMAIN messages : Home(messages[i].result)
          /\ \A i \in DOMAIN todo : Home(todo[i].result)
          /\ \A i \in DOMAIN posted : Home(posted[i].result) /\ posted[i].to = checkpoint[1]

\* The transcript has the output of every call that was run, and what the
\* upstream was last sent is made of it.
Says(id, m) == IF json THEN m.role = "user" /\ <<"out", id>> \in Tokens(m.text)
                       ELSE <<"out", id>> \in Tokens(m.result.output)
Shown ==
    /\ pc = "answer" => seen = WireOf(adapter, messages, request.sys)
    /\ \A k \in DOMAIN executed : \E i \in DOMAIN messages : Says(executed[k], messages[i])

IInv == Typed /\ Numbered /\ Settled /\ AtHome /\ Shown /\ CallsHandled

-----------------------------------------------------------------------------
(* The way in. *)

CallType == [messages : Seq(Messages), sys : Seq(Token), tools : BOOLEAN]

LEMMA ParsedMessages ==
    ASSUME NEW ms \in Seq(Messages), ms # <<>>
    PROVE  /\ parse_messages(ms) \in Seq(Messages) /\ parse_messages(ms) # <<>>
           /\ \A i \in DOMAIN parse_messages(ms) : parse_messages(ms)[i].result.id = 0
<1>1. ASSUME NEW m \in Messages PROVE Bare(m) \in Messages /\ Bare(m).result.id = 0
  <2>1. m.role \in {"system", "user", "assistant", "tool"} /\ m.text \in Seq(Token) /\ <<>> \in Seq(Ids)
    BY MessageFields
  <2>2. Bare(m) = [role |-> m.role, text |-> m.text, calls |-> <<>>, result |-> NoResult]
    BY DEF Bare, Message
  <2>3. Bare(m) \in Messages
    BY <2>1, <2>2 DEF Messages, MessageType
  <2> QED BY <2>2, <2>3, ResultFacts
<1>2. DOMAIN ms = 1..Len(ms) /\ Len(ms) \in Nat /\ Len(ms) # 0
  OBVIOUS
<1> DEFINE ps == parse_messages(ms)
<1>3. ps = [i \in 1..Len(ms) |-> Bare(ms[i])]
  BY <1>2 DEF parse_messages
<1>4. \A i \in 1..Len(ms) : Bare(ms[i]) \in Messages /\ Bare(ms[i]).result.id = 0
  BY <1>1, <1>2
<1>5. ps \in Seq(Messages) /\ Len(ps) = Len(ms) /\ DOMAIN ps = 1..Len(ms)
  <2> HIDE DEF ps
  <2> QED BY <1>2, <1>3, <1>4
<1> HIDE DEF ps
<1>6. ps # <<>>
  BY <1>2, <1>5
<1> QED BY <1>3, <1>4, <1>5, <1>6 DEF ps

LEMMA EnteredFacts ==
    ASSUME NEW c \in CallType, c.messages # <<>>, NEW v,
           \A i \in DOMAIN c.messages : c.messages[i].result.id <= BaseIds
    PROVE  /\ Entered(v, c) \in CallType /\ Entered(v, c).messages # <<>>
           /\ \A i \in DOMAIN Entered(v, c).messages : Entered(v, c).messages[i].result.id <= BaseIds
           /\ v \in {"server", "cli"} => ~Entered(v, c).tools
<1> DEFINE e == Entered(v, c)
           ps == parse_messages(c.messages)
           one == <<user(c.messages[1].text)>>
<1>1. /\ ps \in Seq(Messages) /\ ps # <<>> /\ \A i \in DOMAIN ps : ps[i].result.id <= BaseIds
  <2>1. c.messages \in Seq(Messages)
    BY DEF CallType
  <2> QED BY <2>1, ParsedMessages DEF BaseIds
<1>2. one \in Seq(Messages) /\ one # <<>> /\ \A i \in DOMAIN one : one[i].result.id <= BaseIds
  <2>1. c.messages[1] \in Messages
    BY DEF CallType
  <2>2. user(c.messages[1].text) \in Messages
    BY <2>1, MessageFields, Constructed
  <2>3. user(c.messages[1].text).result = NoResult
    BY DEF user, Message
  <2>4. DOMAIN one = {1} /\ one[1] = user(c.messages[1].text)
    OBVIOUS
  <2>5. user(c.messages[1].text).result.id <= BaseIds
    BY <2>3, ResultFacts DEF BaseIds
  <2> QED BY <2>2, <2>4, <2>5
<1> HIDE DEF ps, one
<1>3. CASE v \in {"ffi", "pyo3", "node", "node_async"}
  <2>1. e = [c EXCEPT !.messages = ps]
    BY <1>3 DEF Entered, parse_chat_request, build_request_py, build_request_node, ps
  <2>2. e \in CallType /\ e.messages = ps
    BY <1>1, <2>1 DEF CallType
  <2> QED BY <1>1, <1>3, <2>2
<1>4. CASE v = "server"
  <2>1. e = [c EXCEPT !.messages = ps, !.tools = FALSE]
    BY <1>4 DEF Entered, prepare, ps
  <2>2. e \in CallType /\ e.messages = ps /\ e.tools = FALSE
    BY <1>1, <2>1 DEF CallType
  <2> QED BY <1>1, <2>2
<1>5. CASE v = "cli"
  <2>1. e = [c EXCEPT !.messages = one, !.tools = FALSE]
    BY <1>5 DEF Entered, CliChat, one
  <2>2. e \in CallType /\ e.messages = one /\ e.tools = FALSE
    BY <1>2, <2>1 DEF CallType
  <2> QED BY <1>2, <2>2
<1>6. CASE v \notin {"ffi", "pyo3", "node", "node_async", "server", "cli"}
  <2>1. e = c
    BY <1>6 DEF Entered
  <2> QED BY <1>6, <2>1
<1> QED BY <1>3, <1>4, <1>5, <1>6

-----------------------------------------------------------------------------
(* The rounds. *)

LEMMA Bounds ==
    /\ MaxIters \in Nat /\ MaxRetries \in Nat /\ MaxCalls \in Nat /\ RetriesAllowed \in Nat
    /\ Adapters \subseteq AllAdapters
BY TurnAssumption DEF RetriesAllowed

LEMMA InitIInv == Init => IInv
<1> SUFFICES ASSUME Init PROVE IInv
  OBVIOUS
<1> DEFINE sys == <<<<"sys", 0>>>>
<1>1. request \in CallType /\ request.messages # <<>>
      /\ \A i \in DOMAIN request.messages : request.messages[i].result.id <= BaseIds
  <2>1. request.messages \in Seq(MessageType(1..BaseIds)) /\ request.messages # <<>>
    BY TurnAssumption DEF Init
  <2>2. request.messages \in Seq(Messages)
    BY <2>1, BaseIsMessages
  <2>3. \A i \in DOMAIN request.messages : request.messages[i] \in MessageType(1..BaseIds)
    BY <2>1
  <2>4. request.sys \in Seq(Token) /\ request.tools \in BOOLEAN
    <3>1. sys \in Seq(Token) /\ <<>> \in Seq(Token)
      BY DEF Token
    <3> HIDE DEF sys
    <3>2. request.sys \in {<<>>, sys} /\ request.tools \in BOOLEAN
      BY DEF Init, sys
    <3> QED BY <3>1, <3>2
  <2>5. request = [messages |-> request.messages, sys |-> request.sys, tools |-> request.tools]
    BY DEF Init
  <2> QED BY <2>1, <2>2, <2>3, <2>4, <2>5, BaseIsMessages DEF CallType
<1>2. Typed
  <2>1. <<>> \in Seq(Messages) /\ <<>> \in Seq(Ids) /\ <<>> \in Seq([result : Results, to : Nat])
    OBVIOUS
  <2>2. 0 \in 0..MaxIters /\ 0 \in 0..RetriesAllowed
    BY Bounds
  <2> QED BY <1>1, <2>1, <2>2 DEF Init, Typed, Stands, CallType
<1>3. Numbered /\ Settled /\ AtHome /\ Shown /\ CallsHandled
  BY <1>1 DEF Init, Numbered, Settled, AtHome, Shown, CallsHandled, Asking
<1> QED BY <1>2, <1>3 DEF IInv

LEMMA EnterIInv == ASSUME IInv, Enter PROVE IInv'
<1>1. /\ request' \in CallType /\ request'.messages # <<>>
      /\ \A i \in DOMAIN request'.messages : request'.messages[i].result.id <= BaseIds
      /\ via \in {"server", "cli"} => ~request'.tools
  BY EnteredFacts DEF IInv, Typed, Settled, AtHome, Enter, CallType
<1>2. /\ pc = "enter" /\ pc' \in {"open", "done"} /\ outcome' \in {outcome, "error"}
      /\ pc' = "open" => Valid(request') /\ outcome' = outcome
      /\ pc' = "done" => outcome' = "error"
      /\ UNCHANGED <<adapter, via, json, checkpoint, convs, conv, messages, round, attempt, posted, todo,
                     seen, asked, made, heard, calledIn, executed, returned>>
  BY DEF Enter, caller, remote, progress, answer, result, Return
<1>3. Typed'
  BY <1>1, <1>2 DEF IInv, Typed, Stands, CallType, RetriesAllowed
<1>4. Numbered' /\ Settled'
  <2>1. Numbered'
    BY <1>2 DEF IInv, Numbered
  <2>2. pc' = "open" => Valid(request)'
    BY <1>2
  <2> QED BY <1>1, <1>2, <2>1, <2>2 DEF IInv, Settled, Asking
<1>5. AtHome'
  <2>1. messages = <<>> /\ todo = <<>> /\ posted = <<>>
    BY <1>2 DEF IInv, AtHome
  <2> QED BY <1>1, <1>2, <2>1 DEF AtHome
<1>6. Shown' /\ CallsHandled'
  BY <1>2 DEF IInv, Shown, Says, CallsHandled
<1> QED BY <1>3, <1>4, <1>5, <1>6 DEF IInv

LEMMA OpenIInv == ASSUME IInv, Open \/ OpenFails PROVE IInv'
<1>1. /\ pc = "open" /\ pc' \in {"begin", "done"}
      /\ pc' = "begin" => outcome' = outcome
      /\ pc' = "done" => outcome' = "error"
      /\ UNCHANGED <<adapter, via, request, json, conv, messages, round, attempt, posted, todo,
                     seen, asked, made, heard, calledIn, executed, returned>>
  BY DEF Open, OpenFails, caller, remote, progress, answer, result, Return
<1>2. convs' \in Nat /\ (checkpoint' # <<>> => checkpoint'[1] \in Nat)
  BY DEF IInv, Typed, Open, OpenFails, remote
<1>3. Typed'
  BY <1>1, <1>2 DEF IInv, Typed, Stands, RetriesAllowed
<1>4. Numbered' /\ Settled'
  BY <1>1 DEF IInv, Numbered, Settled, Asking
<1>5. AtHome'
  BY <1>1 DEF IInv, AtHome, Home
<1>6. Shown' /\ CallsHandled'
  BY <1>1 DEF IInv, Shown, Says, CallsHandled
<1> QED BY <1>3, <1>4, <1>5, <1>6 DEF IInv

\* A sequence with one element more, or with several.
LEMMA MoreOf ==
    ASSUME NEW C, NEW ms \in Seq(C), NEW more \in Seq(C)
    PROVE  /\ ms \o more \in Seq(C) /\ (more # <<>> => ms \o more # <<>>)
           /\ \A i \in DOMAIN (ms \o more) : \/ i \in DOMAIN ms /\ (ms \o more)[i] = ms[i]
                                             \/ \E j \in DOMAIN more : (ms \o more)[i] = more[j]
           /\ \A i \in DOMAIN ms : i \in DOMAIN (ms \o more) /\ (ms \o more)[i] = ms[i]
           /\ \A j \in DOMAIN more : \E i \in DOMAIN (ms \o more) : (ms \o more)[i] = more[j]
<1> DEFINE all == ms \o more
<1>1. /\ all \in Seq(C) /\ Len(all) = Len(ms) + Len(more) /\ DOMAIN all = 1..(Len(ms) + Len(more))
      /\ DOMAIN ms = 1..Len(ms) /\ DOMAIN more = 1..Len(more) /\ Len(ms) \in Nat /\ Len(more) \in Nat
      /\ \A i \in 1..Len(ms) : all[i] = ms[i]
      /\ (more # <<>> => all # <<>>)
  OBVIOUS
<1>2. ASSUME NEW i \in 1..(Len(ms) + Len(more)), i > Len(ms)
      PROVE  all[i] = more[i - Len(ms)] /\ i - Len(ms) \in 1..Len(more)
  BY <1>2
<1>3. \A j \in 1..Len(more) : j + Len(ms) \in 1..(Len(ms) + Len(more)) /\ all[j + Len(ms)] = more[j]
  OBVIOUS
<1> HIDE DEF all
<1>4. ASSUME NEW i \in DOMAIN all
      PROVE  \/ i \in DOMAIN ms /\ all[i] = ms[i]
             \/ \E j \in DOMAIN more : all[i] = more[j]
  <2>1. CASE i <= Len(ms)
    BY <1>1, <2>1
  <2>2. CASE i > Len(ms)
    BY <1>1, <1>2, <2>2
  <2> QED BY <1>1, <2>1, <2>2
<1>5. \A i \in DOMAIN ms : i \in DOMAIN all /\ all[i] = ms[i]
  BY <1>1
<1>6. \A j \in DOMAIN more : \E i \in DOMAIN all : all[i] = more[j]
  BY <1>1, <1>3
<1> QED BY <1>1, <1>4, <1>5, <1>6 DEF all

LEMMA InstructionFacts ==
    Instruction \in Messages /\ validate(Instruction) /\ Instruction.result = NoResult
<1> DEFINE text == <<<<"tools", 0>>>>
<1>1. text \in Seq(Token)
  BY DEF Token
<1>2. Instruction = user(text)
  BY DEF Instruction
<1> HIDE DEF text
<1> QED BY <1>1, <1>2, Constructed DEF user, Message, validate

\* The transcript a turn, or another try of it, begins with.
LEMMA Begins ==
    ASSUME IInv, pc = "begin", NEW ms, ms = request.messages \/ ms = Append(request.messages, Instruction)
    PROVE  /\ ms \in Seq(Messages) /\ ms # <<>>
           /\ \A i \in DOMAIN ms : validate(ms[i]) /\ ms[i].result.id <= BaseIds
<1> DEFINE rs == request.messages
           one == <<Instruction>>
<1>1. /\ rs \in Seq(Messages) /\ rs # <<>>
      /\ \A i \in DOMAIN rs : validate(rs[i]) /\ rs[i].result.id <= BaseIds
  BY DEF IInv, Typed, Settled, AtHome, Valid
<1> HIDE DEF rs
<1>2. CASE ms = rs
  BY <1>1, <1>2
<1>3. CASE ms = Append(rs, Instruction)
  <2>1. one \in Seq(Messages) /\ one # <<>> /\ \A j \in DOMAIN one : one[j] = Instruction
    BY InstructionFacts
  <2>2. ms = rs \o one
    BY <1>1, <1>3, InstructionFacts
  <2>3. Instruction.result.id <= BaseIds
    BY InstructionFacts, ResultFacts DEF BaseIds
  <2> HIDE DEF one
  <2> QED BY <1>1, <2>1, <2>2, <2>3, InstructionFacts, MoreOf
<1> QED BY <1>2, <1>3 DEF rs

LEMMA BeginIInv == ASSUME IInv, Begin PROVE IInv'
<1>1. /\ pc = "begin" /\ pc' = "connect" /\ json' \in BOOLEAN /\ round' = 0 /\ executed' = <<>>
      /\ messages' = request.messages \/ messages' = Append(request.messages, Instruction)
      /\ UNCHANGED <<adapter, via, request, checkpoint, convs, conv, posted, todo, attempt, seen,
                     asked, made, heard, calledIn, returned, outcome>>
  BY DEF Begin, caller, remote, answer, result
<1>2. /\ messages' \in Seq(Messages) /\ messages' # <<>>
      /\ \A i \in DOMAIN messages' : validate(messages'[i]) /\ messages'[i].result.id <= BaseIds
  BY <1>1, Begins
<1>3. Typed'
  <2>1. 0 \in 0..MaxIters /\ <<>> \in Seq(Ids)
    BY Bounds
  <2> QED BY <1>1, <1>2, <2>1 DEF IInv, Typed, Stands, RetriesAllowed
<1>4. Numbered' /\ Settled'
  BY <1>1, <1>2 DEF IInv, Numbered, Settled
<1>5. AtHome'
  <2>1. \A i \in DOMAIN messages' : messages'[i].result.id \in Nat
    BY <1>2, MessageFields, ResultFacts DEF Given
  <2>2. ASSUME NEW i \in DOMAIN messages' PROVE Home(messages[i].result)'
    BY <1>2, <2>1, <2>2 DEF Home, BaseIds
  <2> QED BY <1>1, <2>2 DEF IInv, AtHome, Home
<1>6. Shown' /\ CallsHandled'
  BY <1>1 DEF IInv, Shown, CallsHandled
<1> QED BY <1>3, <1>4, <1>5, <1>6 DEF IInv

\* The messages claude posts are those of Role::Tool.
LEMMA ToolMessagesFacts ==
    ASSUME messages \in Seq(Messages)
    PROVE  /\ ToolMessages \in Seq(Messages)
           /\ \A k \in DOMAIN ToolMessages : \E i \in DOMAIN messages : ToolMessages[k] = messages[i]
<1> DEFINE ss == [i \in DOMAIN messages |-> OfTool(messages[i])]
<1>1. ToolMessages = Flat(ss)
  BY DEF ToolMessages, Each
<1>2. DOMAIN messages = 1..Len(messages) /\ Len(messages) \in Nat /\ \A i \in DOMAIN messages : messages[i] \in Messages
  OBVIOUS
<1>3. \A i \in DOMAIN messages : /\ OfTool(messages[i]) \in Seq(Messages)
                                 /\ Tokens(OfTool(messages[i])) \subseteq {messages[i]}
  BY <1>2 DEF OfTool, Tokens
<1>4. ss \in Seq(Seq(Messages)) /\ DOMAIN ss = DOMAIN messages
  <2>1. ss \in [1..Len(messages) -> Seq(Messages)]
    BY <1>2, <1>3
  <2> QED BY <1>2, <2>1
<1>5. \A i \in DOMAIN messages : ss[i] = OfTool(messages[i])
  OBVIOUS
<1> HIDE DEF ss
<1>6. Flat(ss) \in Seq(Messages) /\ Tokens(Flat(ss)) = UNION {Tokens(ss[i]) : i \in DOMAIN ss}
  BY <1>4, FlatHas
<1>7. ASSUME NEW k \in DOMAIN Flat(ss) PROVE \E i \in DOMAIN messages : Flat(ss)[k] = messages[i]
  <2>1. Flat(ss)[k] \in Tokens(Flat(ss))
    BY DEF Tokens
  <2> QED BY <1>3, <1>4, <1>5, <1>6, <2>1
<1> QED BY <1>1, <1>6, <1>7

LEMMA ConnectIInv == ASSUME IInv, Connect PROVE IInv'
<1>1. /\ pc = "connect" /\ pc' = "ask" /\ round < MaxIters
      /\ UNCHANGED <<adapter, via, request, checkpoint, posted, json, messages, round, attempt, executed, seen,
                     asked, made, heard, calledIn, returned, outcome>>
      /\ adapter # "claude" => UNCHANGED <<conv, convs, todo>>
      /\ adapter = "claude" => /\ conv' = ensure_conversation /\ todo' = ToolMessages
                               /\ convs' = IF conv' > convs THEN conv' ELSE convs
  BY DEF Connect, caller, progress, answer, result
<1>2. conv' \in Nat /\ convs' \in Nat /\ (adapter = "claude" /\ checkpoint # <<>> => conv' = checkpoint[1])
  BY <1>1 DEF IInv, Typed, ensure_conversation
<1>3. /\ todo' \in Seq(Messages)
      /\ adapter = "claude" => \A k \in DOMAIN todo' : \E i \in DOMAIN messages : todo'[k] = messages[i]
  BY <1>1, ToolMessagesFacts DEF IInv, Typed
<1>4. Typed'
  BY <1>1, <1>2, <1>3 DEF IInv, Typed, Stands, RetriesAllowed
<1>5. Numbered' /\ Settled'
  BY <1>1 DEF IInv, Numbered, Settled, Asking
<1>6. AtHome'
  BY <1>1, <1>2, <1>3 DEF IInv, AtHome, Home
<1>7. Shown' /\ CallsHandled'
  BY <1>1 DEF IInv, Shown, Says, CallsHandled
<1> QED BY <1>4, <1>5, <1>6, <1>7 DEF IInv

\* The steps that leave all but pc and outcome as they are.
LEMMA StopIInv ==
    ASSUME IInv, ConnectFails \/ AskFails \/ Exhausted \/ UNCHANGED vars
    PROVE  IInv'
<1>1. /\ \/ pc' = "failed" /\ outcome' = outcome /\ pc \in {"connect", "answer"}
         \/ pc' = "done" /\ outcome' = "error" /\ pc = "connect"
         \/ pc' = pc /\ outcome' = outcome
      /\ UNCHANGED <<adapter, via, request, checkpoint, convs, conv, posted, todo, json, messages, round, attempt,
                     executed, seen, asked, made, heard, calledIn, returned>>
  BY DEF ConnectFails, AskFails, Exhausted, vars, caller, remote, progress, answer, result, Return
<1>2. Typed'
  BY <1>1 DEF IInv, Typed, Stands, RetriesAllowed
<1>3. Numbered' /\ Settled'
  BY <1>1 DEF IInv, Numbered, Settled, Asking
<1>4. AtHome'
  BY <1>1 DEF IInv, AtHome, Home
<1>5. Shown'
  BY <1>1 DEF IInv, Shown, Says
<1>6. CallsHandled'
  BY <1>1 DEF IInv, CallsHandled, IgnoresCalls
<1> QED BY <1>2, <1>3, <1>4, <1>5, <1>6 DEF IInv

LEMMA RetryIInv == ASSUME IInv, Retry PROVE IInv'
<1>1. /\ pc = "failed"
      /\ \/ pc' = "begin" /\ outcome' = outcome /\ attempt < RetriesAllowed /\ attempt' = attempt + 1
         \/ pc' = "done" /\ outcome' = "error" /\ attempt' = attempt
      /\ UNCHANGED <<adapter, via, request, checkpoint, convs, conv, posted, todo, json, messages, round,
                     executed, seen, asked, made, heard, calledIn, returned>>
  BY DEF Retry, caller, remote, answer, Return
<1>2. attempt' \in 0..RetriesAllowed
  BY <1>1, Bounds DEF IInv, Typed
<1>3. Typed'
  BY <1>1, <1>2 DEF IInv, Typed, Stands, RetriesAllowed
<1>4. Numbered' /\ Settled'
  BY <1>1 DEF IInv, Numbered, Settled, Asking
<1>5. AtHome'
  BY <1>1 DEF IInv, AtHome, Home
<1>6. Shown' /\ CallsHandled'
  <2>1. pc' \in {"begin", "done"} /\ (pc' = "done" => outcome' = "error")
    BY <1>1
  <2>2. CallsHandled'
    BY <2>1 DEF CallsHandled
  <2>3. Shown'
    BY <1>1, <2>1 DEF IInv, Shown, Says
  <2> QED BY <2>2, <2>3
<1> QED BY <1>3, <1>4, <1>5, <1>6 DEF IInv

LEMMA SubmitIInv == ASSUME IInv, submit_tool_results PROVE IInv'
<1>1. /\ pc = "ask" /\ todo # <<>> /\ todo' = Tail(todo)
      /\ \/ pc' = "ask" /\ posted' = Append(posted, [result |-> Head(todo).result, to |-> conv])
         \/ pc' = "failed" /\ posted' = posted
      /\ UNCHANGED <<adapter, via, request, checkpoint, convs, conv, json, messages, round, attempt, executed, seen,
                     asked, made, heard, calledIn, returned, outcome>>
  BY DEF submit_tool_results, caller, progress, answer, result
<1> DEFINE post == [result |-> Head(todo).result, to |-> conv]
<1>2. /\ todo \in Seq(Messages) /\ Head(todo) \in Messages /\ Head(todo) = todo[1] /\ 1 \in DOMAIN todo
      /\ Tail(todo) \in Seq(Messages)
      /\ \A i \in DOMAIN Tail(todo) : i + 1 \in DOMAIN todo /\ Tail(todo)[i] = todo[i + 1]
  <2>1. todo \in Seq(Messages)
    BY DEF IInv, Typed
  <2> QED BY <1>1, <2>1
<1>3. post \in [result : Results, to : Nat] /\ post.result = Head(todo).result /\ post.to = conv
  BY <1>2, MessageFields DEF IInv, Typed
<1>4. adapter = "claude"
  BY <1>1 DEF IInv, AtHome
<1>5. /\ posted' \in Seq([result : Results, to : Nat])
      /\ \A i \in DOMAIN posted' : (i \in DOMAIN posted /\ posted'[i] = posted[i]) \/ posted'[i] = post
  <2>1. posted \in Seq([result : Results, to : Nat])
    BY DEF IInv, Typed
  <2> HIDE DEF post
  <2>2. \/ posted' = Append(posted, post)
        \/ posted' = posted
    BY <1>1 DEF post
  <2>3. /\ Append(posted, post) \in Seq([result : Results, to : Nat])
        /\ \A i \in DOMAIN Append(posted, post) : \/ i \in DOMAIN posted /\ Append(posted, post)[i] = posted[i]
                                                  \/ Append(posted, post)[i] = post
    BY <1>3, <2>1
  <2> QED BY <2>1, <2>2, <2>3
<1>6. Typed'
  BY <1>1, <1>2, <1>5 DEF IInv, Typed, Stands, RetriesAllowed
<1>7. Numbered' /\ Settled'
  BY <1>1 DEF IInv, Numbered, Settled, Asking
<1>8. AtHome'
  <2>1. ASSUME checkpoint # <<>>
        PROVE  /\ conv = checkpoint[1] /\ Home(Head(todo).result)
               /\ \A i \in DOMAIN messages : Home(messages[i].result)
               /\ \A i \in DOMAIN Tail(todo) : Home(Tail(todo)[i].result)
               /\ \A i \in DOMAIN posted : Home(posted[i].result) /\ posted[i].to = checkpoint[1]
    BY <1>1, <1>2, <1>4, <2>1 DEF IInv, AtHome
  <2>2. \A r : Home(r)' = Home(r)
    BY <1>1 DEF Home
  <2>3. ASSUME checkpoint # <<>>, NEW i \in DOMAIN posted'
        PROVE  Home(posted'[i].result) /\ posted'[i].to = checkpoint[1]
    BY <1>3, <1>5, <2>1, <2>3
  <2> HIDE DEF post
  <2>4. pc' \in {"ask", "failed"}
    BY <1>1
  <2>5. \A i \in DOMAIN request.messages : request.messages[i].result.id <= BaseIds
    BY DEF IInv, AtHome
  <2> QED BY <1>1, <1>4, <2>1, <2>3, <2>4, <2>5 DEF AtHome, Home
<1>9. Shown' /\ CallsHandled'
  <2>1. pc' \in {"ask", "failed"}
    BY <1>1
  <2> QED BY <1>1, <2>1 DEF IInv, Shown, Says, CallsHandled
<1> QED BY <1>6, <1>7, <1>8, <1>9 DEF IInv

LEMMA AskIInv == ASSUME IInv, Ask PROVE IInv'
<1>1. /\ pc = "ask" /\ pc' = "answer" /\ seen' = WireOf(adapter, messages, request.sys)
      /\ UNCHANGED <<adapter, via, request, checkpoint, convs, conv, posted, todo, json, messages, round, attempt,
                     executed, asked, made, heard, calledIn, returned, outcome>>
  BY DEF Ask, caller, remote, progress, answer, result
<1>2. Typed'
  BY <1>1 DEF IInv, Typed, Stands, RetriesAllowed
<1>3. Numbered' /\ Settled'
  BY <1>1 DEF IInv, Numbered, Settled, Asking
<1>4. AtHome'
  BY <1>1 DEF IInv, AtHome, Home
<1>5. Shown' /\ CallsHandled'
  BY <1>1 DEF IInv, Shown, Says, CallsHandled
<1> QED BY <1>2, <1>3, <1>4, <1>5 DEF IInv

\* The calls of an answer get the next numbers.
LEMMA MakesFacts ==
    ASSUME IInv, NEW k \in Nat, Makes(k)
    PROVE  /\ made' \in Seq(Ids) /\ asked' \in Nat /\ asked <= asked' /\ (k = 0 => made' = <<>>)
           /\ \A i \in DOMAIN made' : /\ made'[i] > BaseIds + asked /\ made'[i] <= BaseIds + asked'
                                      /\ <<made'[i], conv>> \in calledIn'
           /\ calledIn \subseteq calledIn'
<1>1. made' = [i \in 1..k |-> BaseIds + asked + i] /\ asked' = asked + k /\ asked \in Nat
  BY DEF Makes, Calls, IInv, Typed
<1>2. \A i \in 1..k : BaseIds + asked + i \in Ids
  BY <1>1 DEF BaseIds, Ids
<1>3. made' \in Seq(Ids) /\ DOMAIN made' = 1..k /\ Len(made') = k
  BY <1>1, <1>2
<1>4. k = 0 => made' = <<>>
  BY <1>3
<1>5. \A i \in 1..k : made'[i] = BaseIds + asked + i /\ made'[i] > BaseIds + asked /\ made'[i] <= BaseIds + asked'
  BY <1>1 DEF BaseIds
<1>6. calledIn' = calledIn \cup {<<made'[i], conv>> : i \in 1..k}
  BY DEF Makes
<1> QED BY <1>1, <1>3, <1>4, <1>5, <1>6

\* An answer, native or emulated: what was made is heard or it is not.
LEMMA Answered ==
    ASSUME IInv, pc = "answer", NEW k \in Nat, Makes(k),
           heard' \in {<<>>, made'}, pc' \in {"tools", "done"},
           pc' = "tools" => heard' # <<>> /\ (json' => Len(heard') = 1),
           outcome' \in {"none", "ok", "error"},
           UNCHANGED <<caller, remote, progress, seen>>,
           CallsHandled'
    PROVE  IInv'
<1>1. /\ made' \in Seq(Ids) /\ asked' \in Nat /\ asked <= asked'
      /\ \A i \in DOMAIN made' : made'[i] <= BaseIds + asked' /\ <<made'[i], conv>> \in calledIn'
      /\ calledIn \subseteq calledIn'
  BY MakesFacts
<1>2. UNCHANGED <<adapter, via, request, checkpoint, convs, conv, posted, todo, json, messages, round, attempt,
                  executed, seen>>
  BY DEF caller, remote, progress
<1>3. /\ heard' \in Seq(Ids)
      /\ \A i \in DOMAIN heard' : heard'[i] <= BaseIds + asked' /\ <<heard'[i], conv>> \in calledIn'
  <2>1. CASE heard' = <<>>
    BY <2>1
  <2>2. CASE heard' = made'
    BY <1>1, <2>2
  <2> QED BY <2>1, <2>2
<1>4. Typed'
  BY <1>1, <1>2, <1>3 DEF IInv, Typed, Stands, RetriesAllowed
<1>5. Numbered'
  <2>1. ASSUME NEW i \in DOMAIN executed PROVE executed[i] <= BaseIds + asked'
    <3>1. executed[i] <= BaseIds + asked /\ executed[i] \in Nat /\ asked \in Nat
      BY DEF IInv, Numbered, Typed, Ids
    <3> QED BY <1>1, <3>1 DEF BaseIds
  <2> QED BY <1>2, <1>3, <2>1 DEF Numbered
<1>6. Settled'
  BY <1>2 DEF IInv, Settled, Asking
<1>7. AtHome'
  BY <1>1, <1>2, <1>3 DEF IInv, AtHome, Home
<1>8. Shown'
  BY <1>2 DEF IInv, Shown, Says
<1> QED BY <1>4, <1>5, <1>6, <1>7, <1>8 DEF IInv

\* What a binding hands on of the calls of an answer that has them.
LEMMA HandedFacts ==
    ASSUME NEW calls, via \notin {"node_async", "server", "cli"} \/ (calls = <<>>)
    PROVE  Handed(via, calls) = calls
BY DEF Handed, response_to_json, Pyo3Response, resp_to_node, openai_completion, NodeResolve

LEMMA AnswerIInv == ASSUME IInv, Answer PROVE IInv'
<1>1. PICK k \in 0..MaxCalls, registered \in {FALSE, HasHandlers} :
        /\ k > 0 => adapter \in Advertises /\ request.tools
        /\ Makes(k)
        /\ heard' = Heard(made')
        /\ IF Runnable(registered)
           THEN pc' = "tools" /\ UNCHANGED result
           ELSE returned' = Handed(via, heard') /\ Return("ok")
  BY DEF Answer
<1>2. pc = "answer" /\ UNCHANGED <<caller, remote, progress, seen>> /\ k \in Nat
  BY Bounds DEF Answer
<1>3. heard' \in {<<>>, made'}
  BY <1>1 DEF Heard
<1>4. /\ pc' \in {"tools", "done"} /\ outcome' \in {"none", "ok", "error"}
      /\ pc' = "tools" => heard' # <<>> /\ (json' => Len(heard') = 1)
  <2>1. ~json'
    BY DEF Answer, progress
  <2> QED BY <1>1, <2>1 DEF Runnable, Return, result, IInv, Typed
<1>5. CallsHandled'
  <2> SUFFICES ASSUME pc' = "done", ~IgnoresCalls'
               PROVE  returned' = made' /\ Range(executed') \cap Range(returned') = {}
    BY DEF CallsHandled
  <2>1. returned' = Handed(via, heard')
    BY <1>1
  <2>2. ~IgnoresCalls /\ executed' = executed
    BY <1>2 DEF IgnoresCalls, caller, progress
  <2>3. k = 0 => made' = <<>>
    BY <1>1, <1>2, MakesFacts
  <2>4. heard' = made'
    <3>1. CASE k = 0
      BY <1>3, <2>3, <3>1
    <3>2. CASE k > 0
      <4>1. adapter \in CallsTools
        BY <1>1, <2>2, <3>2 DEF Advertises, CallsTools, IgnoresCalls
      <4> QED BY <1>1, <4>1 DEF Heard
    <3> QED BY <1>2, <3>1, <3>2
  <2>5. via \notin {"node_async", "server", "cli"} \/ made' = <<>>
    BY <1>1, <1>2, <2>2, <2>3 DEF IInv, Settled, IgnoresCalls
  <2>6. returned' = made'
    BY <2>1, <2>4, <2>5, HandedFacts
  <2>7. Range(executed) \cap Range(made') = {}
    <3>0. made' \in Seq(Ids) /\ \A i \in DOMAIN made' : made'[i] > BaseIds + asked
      BY <1>1, <1>2, MakesFacts
    <3>1. \A i \in DOMAIN made' : made'[i] > BaseIds + asked /\ made'[i] \in Nat
      <4>1. \A i \in DOMAIN made' : made'[i] \in Ids
        BY <3>0
      <4> QED BY <3>0, <4>1 DEF Ids
    <3>2. \A i \in DOMAIN executed : executed[i] <= BaseIds + asked /\ executed[i] \in Nat
      BY DEF IInv, Numbered, Typed, Ids
    <3>3. BaseIds + asked \in Nat
      BY DEF IInv, Typed, BaseIds
    <3>4. ASSUME NEW i \in DOMAIN executed, NEW j \in DOMAIN made' PROVE executed[i] # made'[j]
      BY <3>1, <3>2, <3>3
    <3> QED BY <3>4 DEF Range
  <2> QED BY <2>2, <2>6, <2>7
<1> QED BY <1>1, <1>2, <1>3, <1>4, <1>5, Answered

LEMMA AnswerJsonIInv == ASSUME IInv, AnswerJson PROVE IInv'
<1>1. /\ pc = "answer" /\ json /\ UNCHANGED <<caller, remote, progress, seen>>
      /\ \E k \in Nat : /\ Makes(k)
                        /\ \/ k = 1 /\ heard' = made' /\ pc' = "tools" /\ UNCHANGED result
                           \/ heard' = <<>> /\ Return("ok")
  BY Bounds DEF AnswerJson
<1>2. PICK k \in Nat : /\ Makes(k)
                       /\ \/ k = 1 /\ heard' = made' /\ pc' = "tools" /\ UNCHANGED result
                          \/ heard' = <<>> /\ Return("ok")
  BY <1>1
<1>3. k = 1 => made' # <<>> /\ Len(made') = 1
  <2>1. made' = [i \in 1..k |-> BaseIds + asked + i]
    BY <1>2 DEF Makes, Calls
  <2> QED BY <2>1
<1>4. /\ pc' \in {"tools", "done"} /\ outcome' \in {"none", "ok", "error"}
      /\ pc' = "tools" => heard' # <<>> /\ (json' => Len(heard') = 1)
  BY <1>2, <1>3 DEF Return, result, IInv, Typed
<1>5. CallsHandled'
  BY <1>1 DEF CallsHandled, IgnoresCalls, progress
<1> QED BY <1>1, <1>2, <1>4, <1>5, Answered

\* The messages a round adds: each is one that a constructor makes, and the
\* outputs of the calls are there.
LEMMA RoundFacts ==
    ASSUME NEW calls \in Seq(Ids), calls # <<>>
    PROVE  /\ NativeRound(calls) \in Seq(Messages) /\ NativeRound(calls) # <<>>
           /\ \A j \in DOMAIN NativeRound(calls) :
                 \/ NativeRound(calls)[j] = assistant_with_tools(<<<<"say", 0>>>>, calls)
                 \/ \E k \in DOMAIN calls : NativeRound(calls)[j] = tool_result(calls[k])
           /\ \A k \in DOMAIN calls : \E j \in DOMAIN NativeRound(calls) : NativeRound(calls)[j] = tool_result(calls[k])
           /\ JsonRound(calls) \in Seq(Messages) /\ JsonRound(calls) # <<>>
           /\ \A j \in DOMAIN JsonRound(calls) : \/ JsonRound(calls)[j] = assistant(<<<<"say", 0>>>>)
                                                 \/ JsonRound(calls)[j] = user(Result(calls[1]).output)
           /\ \E j \in DOMAIN JsonRound(calls) : JsonRound(calls)[j] = user(Result(calls[1]).output)
<1> DEFINE said == <<<<"say", 0>>>>
           first == <<assistant_with_tools(said, calls)>>
           rest == [k \in DOMAIN calls |-> tool_result(calls[k])]
<1>1. said \in Seq(Token)
  BY DEF Token
<1>2. assistant_with_tools(said, calls) \in Messages /\ assistant(said) \in Messages
  <2> HIDE DEF said
  <2> QED BY <1>1, Constructed
<1>3. first \in Seq(Messages) /\ first # <<>> /\ \A j \in DOMAIN first : first[j] = assistant_with_tools(said, calls)
  <2> HIDE DEF said
  <2> QED BY <1>2
<1>4. DOMAIN calls = 1..Len(calls) /\ Len(calls) \in Nat /\ \A k \in DOMAIN calls : calls[k] \in Ids
  OBVIOUS
<1>5. \A k \in DOMAIN calls : tool_result(calls[k]) \in Messages
  BY <1>4, Constructed
<1>6. rest \in Seq(Messages) /\ DOMAIN rest = DOMAIN calls /\ \A k \in DOMAIN calls : rest[k] = tool_result(calls[k])
  <2>1. rest \in [1..Len(calls) -> Messages]
    BY <1>4, <1>5
  <2> QED BY <1>4, <2>1
<1>7. NativeRound(calls) = first \o rest
  BY DEF NativeRound
<1>8. /\ NativeRound(calls) \in Seq(Messages) /\ NativeRound(calls) # <<>>
      /\ \A j \in DOMAIN NativeRound(calls) :
            \/ NativeRound(calls)[j] = assistant_with_tools(said, calls)
            \/ \E k \in DOMAIN calls : NativeRound(calls)[j] = tool_result(calls[k])
      /\ \A k \in DOMAIN calls : \E j \in DOMAIN NativeRound(calls) : NativeRound(calls)[j] = tool_result(calls[k])
  <2> HIDE DEF first, rest, said
  <2>0. first \in Seq(Messages) /\ rest \in Seq(Messages)
    BY <1>3, <1>6
  <2>1. /\ first \o rest \in Seq(Messages)
        /\ \A j \in DOMAIN (first \o rest) : \/ j \in DOMAIN first /\ (first \o rest)[j] = first[j]
                                             \/ \E k \in DOMAIN rest : (first \o rest)[j] = rest[k]
        /\ \A j \in DOMAIN first : j \in DOMAIN (first \o rest)
        /\ \A k \in DOMAIN rest : \E j \in DOMAIN (first \o rest) : (first \o rest)[j] = rest[k]
    BY <2>0, MoreOf
  <2>2. first \o rest # <<>>
    <3>1. 1 \in DOMAIN first
      BY <1>3
    <3>2. 1 \in DOMAIN (first \o rest)
      BY <2>1, <3>1
    <3> QED BY <3>2
  <2>3. /\ \A j \in DOMAIN (first \o rest) :
              \/ (first \o rest)[j] = assistant_with_tools(said, calls)
              \/ \E k \in DOMAIN calls : (first \o rest)[j] = tool_result(calls[k])
        /\ \A k \in DOMAIN calls : \E j \in DOMAIN (first \o rest) : (first \o rest)[j] = tool_result(calls[k])
    <3> DEFINE all == first \o rest
    <3>1. /\ \A j \in DOMAIN all : \/ j \in DOMAIN first /\ all[j] = first[j]
                                \/ \E k \in DOMAIN rest : all[j] = rest[k]
          /\ \A k \in DOMAIN rest : \E j \in DOMAIN all : all[j] = rest[k]
      BY <2>1
    <3> HIDE DEF all
    <3>2. /\ \A j \in DOMAIN first : first[j] = assistant_with_tools(said, calls)
          /\ DOMAIN rest = DOMAIN calls /\ \A k \in DOMAIN calls : rest[k] = tool_result(calls[k])
      BY <1>3, <1>6
    <3>3. \A j \in DOMAIN all : \/ all[j] = assistant_with_tools(said, calls)
                               \/ \E k \in DOMAIN calls : all[j] = tool_result(calls[k])
      BY <3>1, <3>2
    <3>4. \A k \in DOMAIN calls : \E j \in DOMAIN all : all[j] = tool_result(calls[k])
      BY <3>1, <3>2
    <3> QED BY <3>3, <3>4 DEF all
  <2> QED BY <1>7, <2>1, <2>2, <2>3
<1>9. /\ JsonRound(calls) \in Seq(Messages) /\ JsonRound(calls) # <<>>
      /\ \A j \in DOMAIN JsonRound(calls) : \/ JsonRound(calls)[j] = assistant(said)
                                            \/ JsonRound(calls)[j] = user(Result(calls[1]).output)
      /\ \E j \in DOMAIN JsonRound(calls) : JsonRound(calls)[j] = user(Result(calls[1]).output)
  <2>1. JsonRound(calls) = <<assistant(said), user(Result(calls[1]).output)>>
    BY DEF JsonRound
  <2>2. calls[1] \in Ids
    BY <1>4
  <2>3. user(Result(calls[1]).output) \in Messages
    <3>1. Result(calls[1]) \in Given
      BY <2>2, ResultFacts
    <3> QED BY <3>1, Constructed DEF Given
  <2> HIDE DEF said
  <2> QED BY <1>2, <2>1, <2>3
<1> QED BY <1>8, <1>9

\* What they are like.
LEMMA RoundMessages ==
    /\ \A t, c : validate(assistant_with_tools(t, c)) /\ assistant_with_tools(t, c).result = NoResult
    /\ \A t : /\ validate(assistant(t)) /\ assistant(t).result = NoResult
              /\ validate(user(t)) /\ user(t).result = NoResult /\ user(t).role = "user" /\ user(t).text = t
    /\ \A id \in Ids : validate(tool_result(id)) /\ tool_result(id).result = Result(id)
<1>1. \A id \in Ids : tool_result(id).result = Result(id) /\ Result(id) # NoResult
  BY ResultFacts DEF tool_result, Message
<1>2. \A t, c : validate(assistant_with_tools(t, c)) /\ assistant_with_tools(t, c).result = NoResult
  BY DEF assistant_with_tools, Message, validate
<1>3. \A t : /\ validate(assistant(t)) /\ assistant(t).result = NoResult
             /\ validate(user(t)) /\ user(t).result = NoResult /\ user(t).role = "user" /\ user(t).text = t
  BY DEF assistant, user, Message, validate
<1> QED BY <1>1, <1>2, <1>3 DEF validate

LEMMA RunToolsIInv == ASSUME IInv, RunTools PROVE IInv'
<1> DEFINE more == IF json THEN JsonRound(heard) ELSE NativeRound(heard)
<1>1. /\ pc = "tools" /\ pc' = "connect" /\ executed' = executed \o heard
      /\ messages' = messages \o more /\ round' = round + 1
      /\ UNCHANGED <<adapter, via, request, checkpoint, convs, conv, posted, todo, json, attempt, seen,
                     asked, made, heard, calledIn, returned, outcome>>
  BY DEF RunTools, caller, remote, answer, result
<1>2. /\ heard \in Seq(Ids) /\ heard # <<>> /\ (json => Len(heard) = 1) /\ round < MaxIters
      /\ messages \in Seq(Messages) /\ executed \in Seq(Ids)
  BY <1>1 DEF IInv, Typed, Settled
<1>3. \A k \in DOMAIN heard : heard[k] \in Ids
  BY <1>2
<1>4. /\ more \in Seq(Messages) /\ more # <<>>
      /\ \A j \in DOMAIN more : /\ validate(more[j])
                                /\ \/ more[j].result = NoResult
                                   \/ \E k \in DOMAIN heard : more[j].result = Result(heard[k])
  <2>1. CASE json
    <3>1. /\ more \in Seq(Messages) /\ more # <<>>
          /\ \A j \in DOMAIN more : more[j] = assistant(<<<<"say", 0>>>>) \/ more[j] = user(Result(heard[1]).output)
      BY <1>2, <2>1, RoundFacts
    <3> HIDE DEF more
    <3> QED BY <3>1, RoundMessages
  <2>2. CASE ~json
    <3>1. /\ more \in Seq(Messages) /\ more # <<>>
          /\ \A j \in DOMAIN more : \/ more[j] = assistant_with_tools(<<<<"say", 0>>>>, heard)
                                    \/ \E k \in DOMAIN heard : more[j] = tool_result(heard[k])
      BY <1>2, <2>2, RoundFacts
    <3> HIDE DEF more
    <3> QED BY <1>3, <3>1, RoundMessages
  <2> QED BY <2>1, <2>2
<1>5. \A k \in DOMAIN heard : \E j \in DOMAIN more : Says(heard[k], more[j])
  <2>1. CASE json
    <3>1. \E j \in DOMAIN more : more[j] = user(Result(heard[1]).output)
      BY <1>2, <2>1, RoundFacts
    <3>2. heard[1] \in Ids /\ \A k \in DOMAIN heard : k = 1
      BY <1>2, <1>3, <2>1
    <3> HIDE DEF more
    <3> QED BY <2>1, <3>1, <3>2, RoundMessages, ResultFacts DEF Says
  <2>2. CASE ~json
    <3>1. \A k \in DOMAIN heard : \E j \in DOMAIN more : more[j] = tool_result(heard[k])
      BY <1>2, <2>2, RoundFacts
    <3> HIDE DEF more
    <3> QED BY <1>3, <2>2, <3>1, RoundMessages, ResultFacts DEF Says
  <2> QED BY <2>1, <2>2
<1> HIDE DEF more
<1>6. /\ messages' \in Seq(Messages) /\ messages' # <<>>
      /\ \A i \in DOMAIN messages' : \/ i \in DOMAIN messages /\ messages'[i] = messages[i]
                                     \/ \E j \in DOMAIN more : messages'[i] = more[j]
      /\ \A i \in DOMAIN messages : i \in DOMAIN messages' /\ messages'[i] = messages[i]
      /\ \A j \in DOMAIN more : \E i \in DOMAIN messages' : messages'[i] = more[j]
  BY <1>1, <1>2, <1>4, MoreOf
<1>7. /\ executed' \in Seq(Ids)
      /\ \A i \in DOMAIN executed' : \/ i \in DOMAIN executed /\ executed'[i] = executed[i]
                                     \/ \E k \in DOMAIN heard : executed'[i] = heard[k]
  BY <1>1, <1>2, MoreOf
<1>8. Typed'
  <2>1. round' \in 0..MaxIters
    BY <1>1, <1>2, Bounds DEF IInv, Typed
  <2> QED BY <1>1, <1>6, <1>7, <2>1 DEF IInv, Typed, Stands, RetriesAllowed
<1>9. Numbered'
  BY <1>1, <1>7 DEF IInv, Numbered
<1>10. Settled'
  BY <1>1, <1>4, <1>6 DEF IInv, Settled, Asking
<1>11. AtHome'
  <2>1. ASSUME adapter = "claude", checkpoint # <<>>, NEW i \in DOMAIN messages'
        PROVE  Home(messages'[i].result)
    <3>1. CASE i \in DOMAIN messages /\ messages'[i] = messages[i]
      BY <2>1, <3>1 DEF IInv, AtHome
    <3>2. CASE \E j \in DOMAIN more : messages'[i] = more[j]
      <4>1. \/ messages'[i].result = NoResult
            \/ \E k \in DOMAIN heard : messages'[i].result = Result(heard[k])
        BY <1>4, <3>2
      <4>2. Home(NoResult)
        BY ResultFacts DEF Home, BaseIds
      <4>3. ASSUME NEW k \in DOMAIN heard PROVE Home(Result(heard[k]))
        BY <1>1, <2>1, ResultFacts DEF IInv, AtHome, Home
      <4> QED BY <4>1, <4>2, <4>3
    <3> QED BY <1>6, <3>1, <3>2
  <2>2. \A r : Home(r)' = Home(r)
    BY <1>1 DEF Home
  <2> QED BY <1>1, <2>1, <2>2 DEF IInv, AtHome, Home
<1>12. Shown'
  <2>1. ASSUME NEW n \in DOMAIN executed' PROVE \E i \in DOMAIN messages' : Says(executed'[n], messages'[i])
    <3>1. CASE n \in DOMAIN executed /\ executed'[n] = executed[n]
      <4>1. PICK i \in DOMAIN messages : Says(executed[n], messages[i])
        BY <3>1 DEF IInv, Shown
      <4> QED BY <1>6, <3>1, <4>1
    <3>2. CASE \E k \in DOMAIN heard : executed'[n] = heard[k]
      <4>1. PICK k \in DOMAIN heard : executed'[n] = heard[k]
        BY <3>2
      <4>2. PICK j \in DOMAIN more : Says(heard[k], more[j])
        BY <1>5
      <4> QED BY <1>6, <4>1, <4>2
    <3> QED BY <1>7, <3>1, <3>2
  <2>2. \A id, m : Says(id, m)' = Says(id, m)
    BY <1>1 DEF Says
  <2> QED BY <1>1, <2>1, <2>2 DEF Shown, Says
<1>13. CallsHandled'
  BY <1>1 DEF CallsHandled
<1> QED BY <1>8, <1>9, <1>10, <1>11, <1>12, <1>13 DEF IInv

LEMMA NextIInv == IInv /\ [Next]_vars => IInv'
<1> SUFFICES ASSUME IInv, [Next]_vars PROVE IInv'
  OBVIOUS
<1>1. CASE Enter
  BY <1>1, EnterIInv
<1>2. CASE Open \/ OpenFails
  BY <1>2, OpenIInv
<1>3. CASE Begin
  BY <1>3, BeginIInv
<1>4. CASE Connect
  BY <1>4, ConnectIInv
<1>5. CASE ConnectFails \/ AskFails \/ Exhausted \/ UNCHANGED vars
  BY <1>5, StopIInv
<1>6. CASE submit_tool_results
  BY <1>6, SubmitIInv
<1>7. CASE Ask
  BY <1>7, AskIInv
<1>8. CASE Answer
  BY <1>8, AnswerIInv
<1>9. CASE AnswerJson
  BY <1>9, AnswerJsonIInv
<1>10. CASE RunTools
  BY <1>10, RunToolsIInv
<1>11. CASE Retry
  BY <1>11, RetryIInv
<1> QED BY <1>1, <1>2, <1>3, <1>4, <1>5, <1>6, <1>7, <1>8, <1>9, <1>10, <1>11 DEF Next

LEMMA SpecIInv == Spec => []IInv
BY InitIInv, NextIInv, PTL DEF Spec
-----------------------------------------------------------------------------
(* What a turn keeps to. *)

\* run_afc and run_json_emulated of client.rs, over any adapter and through
\* any way in: the turn stays within its iterations and its retries, and its
\* transcript has only messages of the four roles.
THEOREM TurnTypes == Spec => []TypeOK
<1>1. IInv => TypeOK
  <2> SUFFICES ASSUME IInv PROVE TypeOK
    OBVIOUS
  <2>1. \A i \in DOMAIN messages : messages[i].role \in {"system", "user", "assistant", "tool"}
    <3>1. \A i \in DOMAIN messages : messages[i] \in Messages
      BY DEF IInv, Typed
    <3> QED BY <3>1, MessageFields
  <2> QED BY <2>1 DEF IInv, Typed, TypeOK, Stands
<1> QED BY <1>1, SpecIInv, PTL

\* The calls in an answer of the model, when run_afc returns it: what the
\* caller gets has all of them, and none that was run, for every number of
\* rounds and of calls.
THEOREM TurnHandlesCalls == Spec => []CallsHandled
<1>1. IInv => CallsHandled
  BY DEF IInv
<1> QED BY <1>1, SpecIInv, PTL

\* submit_tool_results of claude/mod.rs, after any number of rounds and of
\* retries: a result goes to the conversation in which its call was made, as
\* long as the turn has its checkpoint.
THEOREM TurnPostsResultsHome == Spec => []ResultsPostedWhereAsked
<1>1. IInv => ResultsPostedWhereAsked
  <2> SUFFICES ASSUME IInv, checkpoint # <<>>, NEW i \in DOMAIN posted, posted[i].result.id > BaseIds
               PROVE  <<posted[i].result.id, posted[i].to>> \in calledIn
    BY DEF ResultsPostedWhereAsked
  <2>1. adapter = "claude"
    BY DEF IInv, AtHome
  <2>2. Home(posted[i].result) /\ posted[i].to = checkpoint[1]
    BY <2>1 DEF IInv, AtHome
  <2> QED BY <2>2 DEF Home
<1> QED BY <1>1, SpecIInv, PTL

\* Whatever the adapter makes of the messages (the build functions of
\* gravity-providers), whenever the model is asked it is given everything that
\* was said and the outputs of all calls that were run, but for what that
\* adapter leaves out.
THEOREM TurnShowsTranscript == Spec => []ModelSeesTranscript
<1>1. IInv => ModelSeesTranscript
  <2> SUFFICES ASSUME IInv, pc = "answer"
               PROVE  /\ adapter \notin DropsOutput \/ json => Outs(executed) \subseteq Received
                      /\ adapter \notin DropsOutput =>
                            \A i \in DOMAIN messages : Tokens(messages[i].result.output) \subseteq Received
                      /\ \A i \in DOMAIN messages :
                            \/ messages[i].role = "system" /\ adapter \in DropsSystem
                            \/ Tokens(messages[i].text) \subseteq Received
    BY DEF ModelSeesTranscript
  <2>1. TokensOf(seen) \subseteq Received
    BY DEF Received
  <2>2. ASSUME NEW i \in DOMAIN messages PROVE Carries(adapter, messages[i], seen)
    <3>1. /\ messages \in Seq(Messages) /\ \A j \in DOMAIN messages : validate(messages[j])
          /\ request.sys \in Seq(Token) /\ adapter \in AllAdapters
          /\ seen = WireOf(adapter, messages, request.sys)
      BY Bounds DEF IInv, Typed, Settled, Shown
    <3> QED BY <3>1, WireCarries
  <2>3. ASSUME adapter \notin DropsOutput \/ json, NEW k \in DOMAIN executed
        PROVE  <<"out", executed[k]>> \in Received
    <3>1. PICK i \in DOMAIN messages : Says(executed[k], messages[i])
      BY DEF IInv, Shown
    <3>2. Carries(adapter, messages[i], seen)
      BY <2>2
    <3>3. CASE json
      BY <2>1, <3>1, <3>2, <3>3 DEF Says, Carries
    <3>4. CASE ~json
      BY <2>1, <2>3, <3>1, <3>2, <3>4 DEF Says, Carries
    <3> QED BY <3>3, <3>4
  <2>4. adapter \notin DropsOutput \/ json => Outs(executed) \subseteq Received
    BY <2>3 DEF Outs
  <2>5. ASSUME NEW i \in DOMAIN messages
        PROVE  /\ adapter \notin DropsOutput => Tokens(messages[i].result.output) \subseteq Received
               /\ \/ messages[i].role = "system" /\ adapter \in DropsSystem
                  \/ Tokens(messages[i].text) \subseteq Received
    BY <2>1, <2>2, <2>5 DEF Carries
  <2> QED BY <2>4, <2>5
<1> QED BY <1>1, SpecIInv, PTL
-----------------------------------------------------------------------------
(* Calls and results pair up, in the transcript and on the wire. *)

\* The calls of the running transcript were made before, and those about to be
\* run are new to it.
PInv ==
    /\ Paired(request.messages)
    /\ messages # <<>> => Paired(messages)
    /\ \A i \in DOMAIN request.messages : \A id \in Range(request.messages[i].calls) : id <= BaseIds
    /\ \A i \in DOMAIN messages : \A id \in Range(messages[i].calls) : id <= BaseIds + asked
    /\ pc = "tools" =>
          /\ \A k, l \in DOMAIN heard : heard[k] = heard[l] => k = l
          /\ \A k \in DOMAIN heard : \A i \in DOMAIN messages : heard[k] \notin Range(messages[i].calls)

LEMMA RangeIs == \A s : Range(s) = Tokens(s)
BY DEF Range, Tokens

\* The elements of one sequence followed by another.
LEMMA CatAt ==
    ASSUME NEW C, NEW a \in Seq(C), NEW b \in Seq(C)
    PROVE  /\ a \o b \in Seq(C) /\ Len(a \o b) = Len(a) + Len(b) /\ DOMAIN (a \o b) = 1..(Len(a) + Len(b))
           /\ Len(a) \in Nat /\ Len(b) \in Nat /\ DOMAIN a = 1..Len(a) /\ DOMAIN b = 1..Len(b)
           /\ \A i \in 1..Len(a) : (a \o b)[i] = a[i]
           /\ \A i \in 1..(Len(a) + Len(b)) : i > Len(a) => i - Len(a) \in 1..Len(b) /\ (a \o b)[i] = b[i - Len(a)]
           /\ \A j \in 1..Len(b) : Len(a) + j \in 1..(Len(a) + Len(b)) /\ (a \o b)[Len(a) + j] = b[j]
OBVIOUS

\* Messages without calls and results are paired, and keep what is.
LEMMA PlainPaired ==
    ASSUME NEW ms \in Seq(Messages), \A i \in DOMAIN ms : ms[i].calls = <<>> /\ ms[i].result = NoResult
    PROVE  Paired(ms)
<1>1. \A i \in DOMAIN ms : ~HasResult(ms[i]) /\ Range(ms[i].calls) = {}
  BY DEF HasResult, Range
<1> QED BY <1>1 DEF Paired

LEMMA PlainMore ==
    ASSUME NEW ms \in Seq(Messages), Paired(ms), NEW more \in Seq(Messages), more # <<>>,
           \A j \in DOMAIN more : more[j].calls = <<>> /\ more[j].result = NoResult /\ more[j].role # "tool"
    PROVE  Paired(ms \o more)
<1> DEFINE all == ms \o more
           n == Len(ms)
<1>1. /\ all \in Seq(Messages) /\ Len(all) = n + Len(more) /\ DOMAIN all = 1..(n + Len(more))
      /\ n \in Nat /\ Len(more) \in Nat /\ DOMAIN ms = 1..n /\ DOMAIN more = 1..Len(more)
      /\ \A i \in 1..n : all[i] = ms[i]
      /\ \A i \in 1..(n + Len(more)) : i > n => i - n \in 1..Len(more) /\ all[i] = more[i - n]
  BY CatAt
<1> HIDE DEF all, n
<1>2. ASSUME NEW i \in DOMAIN all
      PROVE  \/ i \in DOMAIN ms /\ all[i] = ms[i]
             \/ i > n /\ all[i].calls = <<>> /\ all[i].result = NoResult /\ all[i].role # "tool"
  <2>1. CASE i > n
    BY <1>1, <2>1
  <2>2. CASE ~(i > n)
    <3>1. i \in 1..n
      BY <1>1, <2>2
    <3> QED BY <1>1, <3>1
  <2> QED BY <2>1, <2>2
<1>3. \A i \in DOMAIN all : HasResult(all[i]) \/ Range(all[i].calls) # {} => i \in DOMAIN ms /\ all[i] = ms[i]
  BY <1>2 DEF HasResult, Range
<1>4. \A i \in DOMAIN ms : i \in DOMAIN all /\ all[i] = ms[i]
  BY <1>1
<1>5. Last(all).role # "tool"
  <2>1. Len(more) > 0
    BY <1>1
  <2>2. Len(all) \in DOMAIN all /\ Len(all) > n
    BY <1>1, <2>1
  <2>3. all[Len(all)].role # "tool"
    BY <1>1, <1>2, <2>2
  <2> QED BY <2>3 DEF Last
<1>6. ASSUME NEW i \in DOMAIN all, HasResult(all[i]) PROVE \E j \in 1..(i - 1) : all[i].result.id \in Range(all[j].calls)
  <2>1. i \in DOMAIN ms /\ all[i] = ms[i]
    BY <1>3, <1>6
  <2>2. PICK j \in 1..(i - 1) : ms[i].result.id \in Range(ms[j].calls)
    BY <1>6, <2>1 DEF Paired
  <2>3. j \in DOMAIN ms
    BY <1>1, <2>1
  <2> QED BY <1>4, <2>1, <2>2, <2>3
<1>7. ASSUME NEW i \in DOMAIN all, NEW j \in DOMAIN all, HasResult(all[i]), HasResult(all[j]),
             all[i].result.id = all[j].result.id
      PROVE  i = j
  BY <1>3, <1>7 DEF Paired
<1>8. ASSUME NEW i \in DOMAIN all, NEW id \in Range(all[i].calls)
      PROVE  \E j \in DOMAIN all : HasResult(all[j]) /\ all[j].result.id = id
  <2>1. i \in DOMAIN ms /\ all[i] = ms[i]
    BY <1>3, <1>8
  <2>2. PICK j \in DOMAIN ms : HasResult(ms[j]) /\ ms[j].result.id = id
    BY <1>8, <2>1 DEF Paired
  <2> QED BY <1>4, <2>2
<1>9. Paired(all)
  BY <1>5, <1>6, <1>7, <1>8 DEF Paired
<1> QED BY <1>9 DEF all

\* A round of calls that are new keeps it paired.
LEMMA RoundMore ==
    ASSUME NEW ms \in Seq(Messages), Paired(ms), NEW calls \in Seq(Ids), calls # <<>>,
           \A k, l \in DOMAIN calls : calls[k] = calls[l] => k = l,
           \A k \in DOMAIN calls : \A i \in DOMAIN ms : calls[k] \notin Range(ms[i].calls)
    PROVE  Paired(ms \o NativeRound(calls))
<1> DEFINE new == NativeRound(calls)
           all == ms \o new
           n == Len(ms)
           m == Len(calls)
           ask == assistant_with_tools(<<<<"say", 0>>>>, calls)
<1>1. /\ new \in Seq(Messages) /\ Len(new) = m + 1 /\ m \in Nat /\ m > 0 /\ DOMAIN calls = 1..m
      /\ new[1] = ask /\ \A k \in 1..m : new[k + 1] = tool_result(calls[k])
  <2> DEFINE first == <<ask>>
             rest == [k \in DOMAIN calls |-> tool_result(calls[k])]
  <2>1. new \in Seq(Messages)
    BY RoundFacts
  <2>2. new = first \o rest
    BY DEF NativeRound
  <2>3. DOMAIN calls = 1..m /\ m \in Nat /\ m > 0 /\ \A k \in 1..m : tool_result(calls[k]) \in Messages
    <3>1. DOMAIN calls = 1..m /\ m \in Nat /\ m > 0 /\ \A k \in 1..m : calls[k] \in Ids
      OBVIOUS
    <3> QED BY <3>1, Constructed
  <2>4. rest \in Seq(Messages) /\ Len(rest) = m /\ \A k \in 1..m : rest[k] = tool_result(calls[k])
    <3>1. rest = [k \in 1..m |-> tool_result(calls[k])]
      BY <2>3
    <3> HIDE DEF rest
    <3> QED BY <2>3, <3>1
  <2>5. ask \in Messages
    <3>1. <<<<"say", 0>>>> \in Seq(Token)
      BY DEF Token
    <3> QED BY <3>1, Constructed
  <2>6. first \in Seq(Messages) /\ Len(first) = 1 /\ first[1] = ask
    <3> HIDE DEF ask
    <3> QED BY <2>5
  <2> HIDE DEF first, rest, new, ask
  <2>7. /\ Len(first \o rest) = 1 + m /\ (first \o rest)[1] = first[1]
        /\ \A k \in 1..m : (first \o rest)[1 + k] = rest[k]
    <3>1. first \in Seq(Messages) /\ rest \in Seq(Messages)
      BY <2>4, <2>6
    <3>2. /\ Len(first \o rest) = Len(first) + Len(rest)
          /\ \A i \in 1..Len(first) : (first \o rest)[i] = first[i]
          /\ \A j \in 1..Len(rest) : (first \o rest)[Len(first) + j] = rest[j]
      BY <3>1, CatAt
    <3> QED BY <2>3, <2>4, <2>6, <3>2
  <2> QED BY <2>1, <2>2, <2>3, <2>4, <2>6, <2>7
<1>2. ask.calls = calls /\ ~HasResult(ask) /\ ask.role = "assistant"
  BY DEF assistant_with_tools, Message, HasResult
<1>3. \A k \in 1..m : LET t == tool_result(calls[k])
                      IN t.calls = <<>> /\ HasResult(t) /\ t.result.id = calls[k] /\ t.role = "tool"
  <2>1. \A k \in 1..m : calls[k] \in Ids
    BY <1>1
  <2> QED BY <2>1, ResultFacts DEF tool_result, Message, HasResult
<1> HIDE DEF new, ask
<1>4. /\ Len(all) = n + (m + 1) /\ DOMAIN all = 1..(n + (m + 1)) /\ n \in Nat /\ DOMAIN ms = 1..n
      /\ \A i \in 1..n : all[i] = ms[i]
      /\ \A j \in 1..(m + 1) : all[n + j] = new[j]
      /\ \A i \in 1..(n + (m + 1)) : i > n => i - n \in 1..(m + 1) /\ all[i] = new[i - n]
  <2>1. ms \in Seq(Messages) /\ new \in Seq(Messages)
    BY <1>1
  <2>2. /\ Len(all) = n + Len(new) /\ DOMAIN all = 1..(n + Len(new)) /\ n \in Nat /\ DOMAIN ms = 1..n
        /\ \A i \in 1..n : all[i] = ms[i]
        /\ \A j \in 1..Len(new) : all[n + j] = new[j]
        /\ \A i \in 1..(n + Len(new)) : i > n => i - n \in 1..Len(new) /\ all[i] = new[i - n]
    BY <2>1, CatAt
  <2>3. Len(new) = m + 1
    BY <1>1
  <2> HIDE DEF all, n, m
  <2> QED BY <2>2, <2>3
<1> HIDE DEF all, n, m
<1>5. all[n + 1] = ask /\ n + 1 \in DOMAIN all
  BY <1>1, <1>4
<1>6. \A k \in 1..m : n + 1 + k \in DOMAIN all /\ all[n + 1 + k] = tool_result(calls[k])
  <2>1. ASSUME NEW k \in 1..m PROVE n + 1 + k \in DOMAIN all /\ all[n + 1 + k] = tool_result(calls[k])
    <3>1. k + 1 \in 1..(m + 1) /\ n + (k + 1) = n + 1 + k
      BY <1>1, <1>4
    <3> QED BY <1>1, <1>4, <3>1
  <2> QED BY <2>1
<1>7. ASSUME NEW i \in DOMAIN all
      PROVE  i \in 1..n \/ i = n + 1 \/ \E k \in 1..m : i = n + 1 + k
  <2>1. i \in 1..n \/ i = n + 1 \/ i - (n + 1) \in 1..m
    BY <1>1, <1>4
  <2>2. i = n + 1 + (i - (n + 1))
    BY <1>4
  <2> QED BY <2>1, <2>2
<1>8. \A i \in 1..n : i \in DOMAIN ms /\ i \in DOMAIN all /\ all[i] = ms[i]
  BY <1>1, <1>4
\* No result of ms is of a new call.
<1>9. ASSUME NEW i \in 1..n, HasResult(ms[i]), NEW k \in 1..m PROVE ms[i].result.id # calls[k]
  <2>1. PICK j \in 1..(i - 1) : ms[i].result.id \in Range(ms[j].calls)
    BY <1>8, <1>9 DEF Paired
  <2>2. j \in DOMAIN ms
    BY <1>4, <2>1
  <2> QED BY <1>1, <2>1, <2>2
<1>10. ASSUME NEW i \in DOMAIN all, HasResult(all[i]) PROVE \E j \in 1..(i - 1) : all[i].result.id \in Range(all[j].calls)
  <2>1. CASE i \in 1..n
    <3>1. PICK j \in 1..(i - 1) : ms[i].result.id \in Range(ms[j].calls)
      BY <1>8, <1>10, <2>1 DEF Paired
    <3>2. j \in 1..n
      BY <1>4, <2>1
    <3> QED BY <1>8, <2>1, <3>1, <3>2
  <2>2. CASE i = n + 1
    BY <1>2, <1>5, <1>10, <2>2
  <2>3. ASSUME NEW k \in 1..m, i = n + 1 + k PROVE \E j \in 1..(i - 1) : all[i].result.id \in Range(all[j].calls)
    <3>1. n + 1 \in 1..(i - 1)
      BY <1>1, <1>4, <2>3
    <3>2. all[i].result.id = calls[k]
      BY <1>3, <1>6, <2>3
    <3>3. calls[k] \in Range(calls)
      BY <1>1 DEF Range
    <3> QED BY <1>2, <1>5, <3>1, <3>2, <3>3
  <2> QED BY <1>7, <2>1, <2>2, <2>3
<1>11. ASSUME NEW i \in DOMAIN all, NEW j \in DOMAIN all, HasResult(all[i]), HasResult(all[j]),
              all[i].result.id = all[j].result.id
       PROVE  i = j
  <2>1. \A x \in DOMAIN all : HasResult(all[x]) =>
            \/ x \in 1..n /\ all[x] = ms[x]
            \/ \E k \in 1..m : x = n + 1 + k /\ all[x].result.id = calls[k]
    BY <1>2, <1>3, <1>5, <1>6, <1>7, <1>8
  <2>2. CASE i \in 1..n /\ all[i] = ms[i] /\ j \in 1..n /\ all[j] = ms[j]
    BY <1>8, <1>11, <2>2 DEF Paired
  <2>3. CASE i \in 1..n /\ all[i] = ms[i] /\ \E k \in 1..m : all[j].result.id = calls[k]
    BY <1>9, <1>11, <2>3
  <2>4. CASE j \in 1..n /\ all[j] = ms[j] /\ \E k \in 1..m : all[i].result.id = calls[k]
    BY <1>9, <1>11, <2>4
  <2>5. ASSUME NEW k \in 1..m, NEW l \in 1..m, i = n + 1 + k, j = n + 1 + l,
               all[i].result.id = calls[k], all[j].result.id = calls[l]
        PROVE  i = j
    BY <1>1, <1>11, <2>5
  <2> QED BY <1>11, <2>1, <2>2, <2>3, <2>4, <2>5
<1>12. ASSUME NEW i \in DOMAIN all, NEW id \in Range(all[i].calls)
       PROVE  \E j \in DOMAIN all : HasResult(all[j]) /\ all[j].result.id = id
  <2>1. CASE i \in 1..n
    <3>1. PICK j \in DOMAIN ms : HasResult(ms[j]) /\ ms[j].result.id = id
      BY <1>8, <1>12, <2>1 DEF Paired
    <3> QED BY <1>4, <1>8, <3>1
  <2>2. CASE i = n + 1
    <3>1. PICK k \in 1..m : id = calls[k]
      BY <1>1, <1>2, <1>5, <1>12, <2>2 DEF Range
    <3> QED BY <1>3, <1>6, <3>1
  <2>3. CASE \E k \in 1..m : i = n + 1 + k
    <3>1. Range(all[i].calls) = {}
      BY <1>3, <1>6, <2>3 DEF Range
    <3> QED BY <1>12, <3>1
  <2> QED BY <1>7, <2>1, <2>2, <2>3
<1>13. ASSUME NEW i \in DOMAIN all, Last(all).result.id \in Range(all[i].calls)
       PROVE  /\ \A j \in (i + 1)..Len(all) : all[j].role = "tool"
              /\ {all[j].result.id : j \in (i + 1)..Len(all)} = Range(all[i].calls)
  <2>1. Last(all) = tool_result(calls[m])
    <3>1. Len(all) = n + 1 + m /\ m \in 1..m
      BY <1>1, <1>4
    <3> QED BY <1>6, <3>1 DEF Last
  <2>2. Last(all).result.id = calls[m] /\ m \in 1..m
    BY <1>1, <1>3, <2>1
  <2>3. i \notin 1..n
    BY <1>1, <1>8, <1>13, <2>2
  <2>4. ~\E k \in 1..m : i = n + 1 + k
    <3>1. ASSUME NEW k \in 1..m, i = n + 1 + k PROVE FALSE
      <4>1. Range(all[i].calls) = {}
        BY <1>3, <1>6, <3>1 DEF Range
      <4> QED BY <1>13, <4>1
    <3> QED BY <3>1
  <2>5. i = n + 1 /\ Range(all[i].calls) = {calls[k] : k \in 1..m}
    <3>1. i = n + 1
      BY <1>7, <2>3, <2>4
    <3>2. all[i].calls = calls
      BY <1>2, <1>5, <3>1
    <3>3. DOMAIN calls = 1..m
      BY <1>1
    <3>4. Range(calls) = {calls[k] : k \in DOMAIN calls}
      BY DEF Range
    <3> QED BY <3>1, <3>2, <3>3, <3>4
  <2>6. \A j \in (i + 1)..Len(all) : \E k \in 1..m : j = n + 1 + k
    <3>1. ASSUME NEW j \in (i + 1)..Len(all) PROVE j - (n + 1) \in 1..m /\ j = n + 1 + (j - (n + 1))
      BY <1>1, <1>4, <2>5
    <3> QED BY <3>1
  <2>7. \A k \in 1..m : n + 1 + k \in (i + 1)..Len(all) /\ all[n + 1 + k].result.id = calls[k] /\ all[n + 1 + k].role = "tool"
    <3>1. \A k \in 1..m : n + 1 + k \in (i + 1)..Len(all)
      BY <1>1, <1>4, <2>5
    <3> QED BY <1>3, <1>6, <3>1
  <2>8. \A j \in (i + 1)..Len(all) : all[j].role = "tool"
    BY <2>6, <2>7
  <2>9. {all[j].result.id : j \in (i + 1)..Len(all)} = {calls[k] : k \in 1..m}
    <3>1. \A j \in (i + 1)..Len(all) : \E k \in 1..m : all[j].result.id = calls[k]
      BY <2>6, <2>7
    <3>2. \A k \in 1..m : \E j \in (i + 1)..Len(all) : all[j].result.id = calls[k]
      BY <2>7
    <3> DEFINE places == (i + 1)..Len(all)
               id(j) == all[j].result.id
    <3>3. (\A j \in places : \E k \in 1..m : id(j) = calls[k]) /\ (\A k \in 1..m : \E j \in places : id(j) = calls[k])
      BY <3>1, <3>2
    <3> HIDE DEF places, id
    <3>4. {id(j) : j \in places} = {calls[k] : k \in 1..m}
      BY <3>3
    <3> QED BY <3>4 DEF places, id
  <2> QED BY <2>5, <2>8, <2>9
<1>14. Paired(all)
  BY <1>10, <1>11, <1>12, <1>13 DEF Paired
<1> QED BY <1>14 DEF all, new

-----------------------------------------------------------------------------
(* .. in every turn whose caller's messages are paired. *)

LEMMA BaseCalls ==
    ASSUME NEW m \in MessageType(1..BaseIds)
    PROVE  \A id \in Range(m.calls) : id <= BaseIds
<1>1. m.calls \in Seq(1..BaseIds)
  BY DEF MessageType
<1>2. \A S : \A s \in Seq(S) : \A i \in DOMAIN s : s[i] \in S
  OBVIOUS
<1>3. \A i \in DOMAIN m.calls : m.calls[i] \in 1..BaseIds
  BY <1>1, <1>2
<1> QED BY <1>3 DEF Range, BaseIds

LEMMA InitPInv == ASSUME Init, \A ms \in BaseChats : Paired(ms) PROVE PInv
<1>1. request.messages \in BaseChats /\ messages = <<>> /\ pc = "enter"
  BY DEF Init
<1>2. \A i \in DOMAIN request.messages : \A id \in Range(request.messages[i].calls) : id <= BaseIds
  <2>1. request.messages \in Seq(MessageType(1..BaseIds))
    BY <1>1, TurnAssumption
  <2>2. \A i \in DOMAIN request.messages : request.messages[i] \in MessageType(1..BaseIds)
    BY <2>1
  <2> QED BY <2>2, BaseCalls
<1> QED BY <1>1, <1>2 DEF PInv

\* A binding leaves the calls and results of a caller's messages out.
LEMMA EnteredPaired ==
    ASSUME NEW c \in CallType, c.messages # <<>>, NEW v, Paired(c.messages),
           \A i \in DOMAIN c.messages : \A id \in Range(c.messages[i].calls) : id <= BaseIds
    PROVE  /\ Paired(Entered(v, c).messages)
           /\ \A i \in DOMAIN Entered(v, c).messages :
                 \A id \in Range(Entered(v, c).messages[i].calls) : id <= BaseIds
<1> DEFINE e == Entered(v, c)
           ps == parse_messages(c.messages)
           one == <<user(c.messages[1].text)>>
<1>0. c.messages \in Seq(Messages)
  BY DEF CallType
<1>1. /\ ps \in Seq(Messages) /\ \A i \in DOMAIN ps : ps[i].calls = <<>> /\ ps[i].result = NoResult
  <2>1. ps \in Seq(Messages)
    BY <1>0, ParsedMessages
  <2>2. \A i \in DOMAIN ps : ps[i] = Bare(c.messages[i])
    BY DEF parse_messages
  <2> HIDE DEF ps
  <2> QED BY <2>1, <2>2 DEF Bare, Message
<1>2. one \in Seq(Messages) /\ \A i \in DOMAIN one : one[i].calls = <<>> /\ one[i].result = NoResult
  <2>1. c.messages[1] \in Messages
    BY <1>0
  <2>2. user(c.messages[1].text) \in Messages
    BY <2>1, MessageFields, Constructed
  <2>3. user(c.messages[1].text).result = NoResult /\ user(c.messages[1].text).calls = <<>>
    BY DEF user, Message
  <2>4. DOMAIN one = {1} /\ one[1] = user(c.messages[1].text)
    OBVIOUS
  <2> QED BY <2>2, <2>3, <2>4
<1>3. e.messages = c.messages \/ e.messages = ps \/ e.messages = one
  <2> HIDE DEF ps, one
  <2>1. CASE v \in {"ffi", "pyo3", "node", "node_async"}
    <3>1. e = [c EXCEPT !.messages = ps]
      BY <2>1 DEF Entered, parse_chat_request, build_request_py, build_request_node, ps
    <3> QED BY <3>1 DEF CallType
  <2>2. CASE v = "server"
    <3>1. e = [c EXCEPT !.messages = ps, !.tools = FALSE]
      BY <2>2 DEF Entered, prepare, ps
    <3> QED BY <3>1 DEF CallType
  <2>3. CASE v = "cli"
    <3>1. e = [c EXCEPT !.messages = one, !.tools = FALSE]
      BY <2>3 DEF Entered, CliChat, one
    <3> QED BY <3>1 DEF CallType
  <2>4. CASE v \notin {"ffi", "pyo3", "node", "node_async", "server", "cli"}
    BY <2>4 DEF Entered
  <2> QED BY <2>1, <2>2, <2>3, <2>4
<1> HIDE DEF ps, one, e
<1>4. \A ms \in Seq(Messages) : (\A i \in DOMAIN ms : ms[i].calls = <<>> /\ ms[i].result = NoResult) =>
          Paired(ms) /\ \A i \in DOMAIN ms : \A id \in Range(ms[i].calls) : id <= BaseIds
  BY PlainPaired DEF Range
<1>5. Paired(e.messages) /\ \A i \in DOMAIN e.messages : \A id \in Range(e.messages[i].calls) : id <= BaseIds
  BY <1>1, <1>2, <1>3, <1>4
<1> QED BY <1>5 DEF e

\* The calls of an answer are new to the transcript.
LEMMA MakesNew ==
    ASSUME IInv, PInv, NEW k \in Nat, Makes(k)
    PROVE  /\ \A i, j \in DOMAIN made' : made'[i] = made'[j] => i = j
           /\ \A i \in DOMAIN made' : \A n \in DOMAIN messages : made'[i] \notin Range(messages[n].calls)
           /\ \A n \in DOMAIN messages : \A id \in Range(messages[n].calls) : id <= BaseIds + asked'
<1>1. made' = [i \in 1..k |-> BaseIds + asked + i] /\ asked \in Nat /\ asked' = asked + k
  BY DEF Makes, Calls, IInv, Typed
<1>2. \A i, j \in DOMAIN made' : made'[i] = made'[j] => i = j
  BY <1>1 DEF BaseIds
<1>3. \A n \in DOMAIN messages : \A id \in Range(messages[n].calls) : id \in Nat /\ id <= BaseIds + asked
  <2>1. ASSUME NEW n \in DOMAIN messages, NEW id \in Range(messages[n].calls) PROVE id \in Nat
    <3>1. messages[n] \in Messages
      BY DEF IInv, Typed
    <3>2. messages[n].calls \in Seq(Ids)
      BY <3>1, MessageFields
    <3>3. PICK i \in DOMAIN messages[n].calls : id = messages[n].calls[i]
      BY DEF Range
    <3>4. id \in Ids
      BY <3>2, <3>3
    <3> QED BY <3>4 DEF Ids
  <2> QED BY <2>1 DEF PInv
<1>4. \A i \in DOMAIN made' : made'[i] > BaseIds + asked /\ made'[i] \in Nat
  BY <1>1 DEF BaseIds
<1>5. BaseIds + asked \in Nat /\ BaseIds + asked' \in Nat /\ BaseIds + asked <= BaseIds + asked'
  BY <1>1 DEF BaseIds
<1>6. \A x, y, b \in Nat : x > b /\ y <= b => x # y
  OBVIOUS
<1>7. \A x, b, c \in Nat : x <= b /\ b <= c => x <= c
  OBVIOUS
<1>8. \A i \in DOMAIN made' : \A n \in DOMAIN messages : made'[i] \notin Range(messages[n].calls)
  BY <1>3, <1>4, <1>5, <1>6
<1>9. \A n \in DOMAIN messages : \A id \in Range(messages[n].calls) : id <= BaseIds + asked'
  BY <1>3, <1>5, <1>7
<1> QED BY <1>2, <1>8, <1>9

LEMMA BeginPInv == ASSUME IInv, PInv, Begin PROVE PInv'
<1>1. /\ pc = "begin" /\ pc' = "connect" /\ UNCHANGED <<request, asked>>
      /\ messages' = request.messages \/ messages' = Append(request.messages, Instruction)
  BY DEF Begin, caller, answer
<1>2. request.messages \in Seq(Messages) /\ asked \in Nat
  BY DEF IInv, Typed
<1> DEFINE rs == request.messages
           one == <<Instruction>>
<1>3. /\ one \in Seq(Messages) /\ one # <<>>
      /\ \A j \in DOMAIN one : one[j].calls = <<>> /\ one[j].result = NoResult /\ one[j].role # "tool"
  <2>1. Instruction.calls = <<>> /\ Instruction.result = NoResult /\ Instruction.role # "tool" /\ Instruction \in Messages
    BY InstructionFacts DEF Instruction, user, Message
  <2> QED BY <2>1
<1>4. Append(rs, Instruction) = rs \o one
  BY <1>2, InstructionFacts
<1> HIDE DEF one
<1>5. Paired(messages')
  BY <1>1, <1>2, <1>3, <1>4, PlainMore DEF PInv
<1>6. ASSUME NEW i \in DOMAIN messages', NEW id \in Range(messages'[i].calls) PROVE id <= BaseIds + asked
  <2>1. PICK j \in DOMAIN rs : id \in Range(rs[j].calls)
    <3>1. CASE messages' = rs
      BY <1>6, <3>1
    <3>2. CASE messages' = rs \o one
      <4>1. (i \in DOMAIN rs /\ messages'[i] = rs[i]) \/ \E j \in DOMAIN one : messages'[i] = one[j]
        BY <1>2, <1>3, <3>2, MoreOf
      <4>2. ASSUME NEW j \in DOMAIN one, messages'[i] = one[j] PROVE FALSE
        BY <1>3, <1>6, <4>2 DEF Range
      <4> QED BY <1>6, <4>1, <4>2
    <3> QED BY <1>1, <1>4, <3>1, <3>2
  <2>2. id <= BaseIds
    BY <2>1 DEF PInv
  <2>3. id \in Nat
    <3>1. rs[j] \in Messages
      BY <1>2
    <3>2. rs[j].calls \in Seq(Ids)
      BY <3>1, MessageFields
    <3>3. \A k \in DOMAIN rs[j].calls : rs[j].calls[k] \in Ids
      BY <3>2
    <3> QED BY <2>1, <3>3 DEF Range, Ids
  <2> QED BY <1>2, <2>2, <2>3 DEF BaseIds
<1> QED BY <1>1, <1>5, <1>6 DEF PInv

LEMMA EnterPInv == ASSUME IInv, PInv, Enter PROVE PInv'
<1>1. /\ pc = "enter" /\ pc' # "tools" /\ request' = Entered(via, request)
      /\ UNCHANGED <<messages, asked>>
  BY DEF Enter, Return, progress, answer
<1>2. messages = <<>> /\ request \in CallType /\ request.messages # <<>>
  BY <1>1 DEF IInv, AtHome, Typed, Settled, CallType
<1>3. /\ Paired(request'.messages)
      /\ \A i \in DOMAIN request'.messages : \A id \in Range(request'.messages[i].calls) : id <= BaseIds
  BY <1>1, <1>2, EnteredPaired DEF PInv
<1> QED BY <1>1, <1>2, <1>3 DEF PInv

LEMMA AnswerPInv == ASSUME IInv, PInv, Answer \/ AnswerJson PROVE PInv'
<1>1. PICK k \in Nat : Makes(k) /\ heard' \in {<<>>, made'}
  <2>1. CASE Answer
    BY <2>1, Bounds DEF Answer, Heard
  <2>2. CASE AnswerJson
    BY <2>2, Bounds DEF AnswerJson
  <2> QED BY <2>1, <2>2
<1>2. UNCHANGED <<request, messages>>
  BY DEF Answer, AnswerJson, caller, progress
<1>3. /\ \A i, j \in DOMAIN made' : made'[i] = made'[j] => i = j
      /\ \A i \in DOMAIN made' : \A n \in DOMAIN messages : made'[i] \notin Range(messages[n].calls)
      /\ \A n \in DOMAIN messages : \A id \in Range(messages[n].calls) : id <= BaseIds + asked'
  BY <1>1, MakesNew
<1>4. /\ \A i, j \in DOMAIN heard' : heard'[i] = heard'[j] => i = j
      /\ \A i \in DOMAIN heard' : \A n \in DOMAIN messages : heard'[i] \notin Range(messages[n].calls)
  <2>1. CASE heard' = <<>>
    BY <2>1
  <2>2. CASE heard' = made'
    BY <1>3, <2>2
  <2> QED BY <1>1, <2>1, <2>2
<1> QED BY <1>2, <1>3, <1>4 DEF PInv

LEMMA RunToolsPInv == ASSUME IInv, PInv, RunTools PROVE PInv'
<1> DEFINE more == IF json THEN JsonRound(heard) ELSE NativeRound(heard)
<1>1. /\ pc = "tools" /\ pc' = "connect" /\ messages' = messages \o more /\ UNCHANGED <<request, json, asked>>
  BY DEF RunTools, caller, answer
<1>2. heard \in Seq(Ids) /\ heard # <<>> /\ messages \in Seq(Messages) /\ messages # <<>> /\ asked \in Nat
  BY <1>1 DEF IInv, Typed, Settled, Asking
<1>3. Paired(messages)
  BY <1>2 DEF PInv
<1>4. /\ more \in Seq(Messages) /\ more # <<>>
      /\ \A j \in DOMAIN more : more[j].calls = <<>> \/ more[j].calls = heard
  <2>1. CASE json
    <3>1. /\ more \in Seq(Messages) /\ more # <<>>
          /\ \A j \in DOMAIN more : more[j] = assistant(<<<<"say", 0>>>>) \/ more[j] = user(Result(heard[1]).output)
      BY <1>2, <2>1, RoundFacts
    <3> HIDE DEF more
    <3> QED BY <3>1 DEF assistant, user, Message
  <2>2. CASE ~json
    <3>1. /\ more \in Seq(Messages) /\ more # <<>>
          /\ \A j \in DOMAIN more : \/ more[j] = assistant_with_tools(<<<<"say", 0>>>>, heard)
                                    \/ \E k \in DOMAIN heard : more[j] = tool_result(heard[k])
      BY <1>2, <2>2, RoundFacts
    <3> HIDE DEF more
    <3> QED BY <3>1 DEF assistant_with_tools, tool_result, Message
  <2> QED BY <2>1, <2>2
<1>5. Paired(messages')
  <2>1. CASE json
    <3>1. /\ more \in Seq(Messages) /\ more # <<>>
          /\ \A j \in DOMAIN more : more[j] = assistant(<<<<"say", 0>>>>) \/ more[j] = user(Result(heard[1]).output)
      BY <1>2, <2>1, RoundFacts
    <3> HIDE DEF more
    <3>2. \A j \in DOMAIN more : more[j].calls = <<>> /\ more[j].result = NoResult /\ more[j].role # "tool"
      BY <3>1 DEF assistant, user, Message
    <3> QED BY <1>1, <1>2, <1>3, <3>1, <3>2, PlainMore
  <2>2. CASE ~json
    <3>1. more = NativeRound(heard)
      BY <2>2
    <3>2. /\ \A k, l \in DOMAIN heard : heard[k] = heard[l] => k = l
          /\ \A k \in DOMAIN heard : \A i \in DOMAIN messages : heard[k] \notin Range(messages[i].calls)
      BY <1>1 DEF PInv
    <3> HIDE DEF more
    <3> QED BY <1>1, <1>2, <1>3, <3>1, <3>2, RoundMore
  <2> QED BY <2>1, <2>2
<1> HIDE DEF more
<1>6. \A i \in DOMAIN messages' : \/ i \in DOMAIN messages /\ messages'[i] = messages[i]
                                  \/ \E j \in DOMAIN more : messages'[i] = more[j]
  BY <1>1, <1>2, <1>4, MoreOf
<1>7. ASSUME NEW i \in DOMAIN messages', NEW id \in Range(messages'[i].calls) PROVE id <= BaseIds + asked
  <2>1. CASE i \in DOMAIN messages /\ messages'[i] = messages[i]
    BY <1>7, <2>1 DEF PInv
  <2>2. CASE messages'[i].calls = heard
    BY <1>7, <2>2 DEF IInv, Numbered, Range
  <2>3. CASE messages'[i].calls = <<>>
    BY <1>7, <2>3 DEF Range
  <2> QED BY <1>4, <1>6, <2>1, <2>2, <2>3
<1> QED BY <1>1, <1>5, <1>7 DEF PInv

LEMMA NextPInv == IInv /\ PInv /\ [Next]_vars => PInv'
<1> SUFFICES ASSUME IInv, PInv, [Next]_vars PROVE PInv'
  OBVIOUS
<1>1. CASE Enter
  BY <1>1, EnterPInv
<1>2. CASE Begin
  BY <1>2, BeginPInv
<1>3. CASE Answer \/ AnswerJson
  BY <1>3, AnswerPInv
<1>4. CASE RunTools
  BY <1>4, RunToolsPInv
<1>5. CASE \/ Open \/ OpenFails \/ Connect \/ ConnectFails \/ submit_tool_results \/ Ask \/ AskFails
           \/ Exhausted \/ Retry \/ UNCHANGED vars
  <2>1. UNCHANGED <<request, messages, asked>>
    BY <1>5 DEF Open, OpenFails, Connect, ConnectFails, submit_tool_results, Ask, AskFails, Exhausted, Retry,
                vars, caller, progress, answer
  <2>2. UNCHANGED <<pc, heard>> \/ pc' # "tools"
    BY <1>5 DEF Open, OpenFails, Connect, ConnectFails, submit_tool_results, Ask, AskFails, Exhausted, Retry,
                Return, vars, answer
  <2> QED BY <2>1, <2>2 DEF PInv
<1> QED BY <1>1, <1>2, <1>3, <1>4, <1>5 DEF Next

LEMMA SpecPInv == ASSUME \A ms \in BaseChats : Paired(ms) PROVE Spec => []PInv
<1>1. Init => PInv
  BY InitPInv
<1> QED BY <1>1, SpecIInv, NextPInv, PTL DEF Spec

-----------------------------------------------------------------------------
(* .. and on the wire. *)

CallsOf(items) == UNION {Range(x.calls) : x \in Tokens(items)}
NamedBy(item) == {item.answers[k].id : k \in DOMAIN item.answers}
Named(items) == UNION {NamedBy(x) : x \in Tokens(items)}

\* An answer follows its call, and is the only one to it.
Follows(items) ==
    \A i \in DOMAIN items : \A id \in NamedBy(items[i]) : \E j \in 1..(i - 1) : id \in Range(items[j].calls)
Once(items) ==
    \A i, j \in DOMAIN items : \A k \in DOMAIN items[i].answers, l \in DOMAIN items[j].answers :
        items[i].answers[k].id = items[j].answers[l].id => i = j /\ k = l

LEMMA CatNames ==
    ASSUME NEW a \in Seq(Items), NEW b \in Seq(Items)
    PROVE  /\ a \o b \in Seq(Items)
           /\ CallsOf(a \o b) = CallsOf(a) \cup CallsOf(b) /\ Named(a \o b) = Named(a) \cup Named(b)
<1>1. a \o b \in Seq(Items) /\ Tokens(a \o b) = Tokens(a) \cup Tokens(b)
  BY CatHas
<1> QED BY <1>1 DEF CallsOf, Named

\* What an item names and calls, all of them do.
LEMMA NamesAt ==
    ASSUME NEW items, NEW i \in DOMAIN items
    PROVE  NamedBy(items[i]) \subseteq Named(items) /\ Range(items[i].calls) \subseteq CallsOf(items)
BY DEF Named, CallsOf, Tokens

LEMMA CatFollows ==
    ASSUME NEW a \in Seq(Items), NEW b \in Seq(Items), Follows(a),
           Follows(b) \/ Named(b) \subseteq CallsOf(a)
    PROVE  Follows(a \o b)
<1> DEFINE all == a \o b
           n == Len(a)
<1>1. /\ DOMAIN all = 1..(n + Len(b)) /\ n \in Nat /\ Len(b) \in Nat /\ DOMAIN a = 1..n /\ DOMAIN b = 1..Len(b)
      /\ \A i \in 1..n : all[i] = a[i]
      /\ \A i \in 1..(n + Len(b)) : i > n => i - n \in 1..Len(b) /\ all[i] = b[i - n]
      /\ \A j \in 1..Len(b) : n + j \in 1..(n + Len(b)) /\ all[n + j] = b[j]
  <2>1. a \in Seq(Items) /\ b \in Seq(Items)
    OBVIOUS
  <2> QED BY <2>1, CatAt
<1> HIDE DEF all, n
<1>2. ASSUME NEW i \in DOMAIN all, NEW id \in NamedBy(all[i])
      PROVE  \E j \in 1..(i - 1) : id \in Range(all[j].calls)
  <2>1. CASE i <= n
    <3>1. i \in 1..n /\ all[i] = a[i]
      BY <1>1, <2>1
    <3>2. PICK j \in 1..(i - 1) : id \in Range(a[j].calls)
      BY <1>1, <1>2, <3>1 DEF Follows
    <3>3. j \in 1..n
      BY <1>1, <3>1
    <3> QED BY <1>1, <3>2, <3>3
  <2>2. CASE i > n
    <3>1. i - n \in 1..Len(b) /\ all[i] = b[i - n]
      BY <1>1, <2>2
    <3>2. CASE Follows(b)
      <4>1. PICK j \in 1..((i - n) - 1) : id \in Range(b[j].calls)
        BY <1>1, <1>2, <3>1, <3>2 DEF Follows
      <4>2. j \in 1..Len(b) /\ n + j \in 1..(i - 1)
        BY <1>1, <3>1
      <4> QED BY <1>1, <4>1, <4>2
    <3>3. CASE Named(b) \subseteq CallsOf(a)
      <4>1. id \in CallsOf(a)
        BY <1>1, <1>2, <3>1, <3>3, NamesAt
      <4>2. PICK j \in DOMAIN a : id \in Range(a[j].calls)
        BY <4>1 DEF CallsOf, Tokens
      <4>3. j \in 1..n /\ j \in 1..(i - 1)
        BY <1>1, <2>2
      <4> QED BY <1>1, <4>2, <4>3
    <3> QED BY <3>2, <3>3
  <2> QED BY <1>1, <2>1, <2>2
<1> QED BY <1>2 DEF Follows, all

LEMMA CatOnce ==
    ASSUME NEW a \in Seq(Items), NEW b \in Seq(Items), Once(a), Once(b), Named(a) \cap Named(b) = {}
    PROVE  Once(a \o b)
<1> DEFINE all == a \o b
           n == Len(a)
<1>1. /\ DOMAIN all = 1..(n + Len(b)) /\ n \in Nat /\ Len(b) \in Nat /\ DOMAIN a = 1..n /\ DOMAIN b = 1..Len(b)
      /\ \A i \in 1..n : all[i] = a[i]
      /\ \A i \in 1..(n + Len(b)) : i > n => i - n \in 1..Len(b) /\ all[i] = b[i - n]
  <2>1. a \in Seq(Items) /\ b \in Seq(Items)
    OBVIOUS
  <2> QED BY <2>1, CatAt
<1> HIDE DEF all, n
<1>2. ASSUME NEW i \in DOMAIN all
      PROVE  (i \in DOMAIN a /\ all[i] = a[i]) \/ (i - n \in DOMAIN b /\ all[i] = b[i - n])
  <2>1. CASE i <= n
    BY <1>1, <2>1
  <2>2. CASE i > n
    BY <1>1, <2>2
  <2> QED BY <1>1, <2>1, <2>2
<1>3. \A i \in DOMAIN a : \A k \in DOMAIN a[i].answers : a[i].answers[k].id \in Named(a)
  BY DEF Named, NamedBy, Tokens
<1>4. \A i \in DOMAIN b : \A k \in DOMAIN b[i].answers : b[i].answers[k].id \in Named(b)
  BY DEF Named, NamedBy, Tokens
<1>5. ASSUME NEW i \in DOMAIN all, NEW j \in DOMAIN all,
             NEW k \in DOMAIN all[i].answers, NEW l \in DOMAIN all[j].answers,
             all[i].answers[k].id = all[j].answers[l].id
      PROVE  i = j /\ k = l
  <2>1. CASE i \in DOMAIN a /\ all[i] = a[i] /\ j \in DOMAIN a /\ all[j] = a[j]
    BY <1>5, <2>1 DEF Once
  <2>2. CASE i - n \in DOMAIN b /\ all[i] = b[i - n] /\ j - n \in DOMAIN b /\ all[j] = b[j - n]
    <3>1. i - n = j - n /\ k = l
      BY <1>5, <2>2 DEF Once
    <3> QED BY <1>1, <3>1
  <2>3. CASE i \in DOMAIN a /\ all[i] = a[i] /\ j - n \in DOMAIN b /\ all[j] = b[j - n]
    BY <1>3, <1>4, <1>5, <2>3
  <2>4. CASE i - n \in DOMAIN b /\ all[i] = b[i - n] /\ j \in DOMAIN a /\ all[j] = a[j]
    BY <1>3, <1>4, <1>5, <2>4
  <2> QED BY <1>2, <2>1, <2>2, <2>3, <2>4
<1> QED BY <1>5 DEF Once, all

ResultIds(m) == IF HasResult(m) THEN {m.result.id} ELSE {}

\* The items of a message have its calls and its result, under their ids.
Faithful(m, w) ==
    w \in Seq(Items) /\ CallsOf(w) = Range(m.calls) /\ Named(w) = ResultIds(m) /\ Once(w)

\* The items of the first n messages.
Pairs(w, ms, n) ==
    /\ w \in Seq(Items) /\ Follows(w) /\ Once(w)
    /\ CallsOf(w) = UNION {Range(ms[i].calls) : i \in 1..n}
    /\ Named(w) = UNION {ResultIds(ms[i]) : i \in 1..n}

LEMMA PairsMore ==
    ASSUME NEW ms \in Seq(Messages), Paired(ms), NEW n \in Nat, n + 1 \in DOMAIN ms,
           NEW w, Pairs(w, ms, n), NEW more, Faithful(ms[n + 1], more)
    PROVE  Pairs(w \o more, ms, n + 1)
<1>1. n + 1 \in 1..Len(ms) /\ Len(ms) \in Nat /\ DOMAIN ms = 1..Len(ms) /\ 1..(n + 1) = 1..n \cup {n + 1}
      /\ 1..n \subseteq DOMAIN ms /\ n + 1 \notin 1..n
  OBVIOUS
<1>2. w \in Seq(Items) /\ more \in Seq(Items) /\ Follows(w) /\ Once(w) /\ Once(more)
  BY DEF Pairs, Faithful
<1>3. Named(more) \subseteq CallsOf(w)
  <2> SUFFICES ASSUME HasResult(ms[n + 1]) PROVE ms[n + 1].result.id \in CallsOf(w)
    BY DEF Faithful, ResultIds
  <2>1. PICK j \in 1..((n + 1) - 1) : ms[n + 1].result.id \in Range(ms[j].calls)
    BY DEF Paired
  <2>2. j \in 1..n
    BY <1>1
  <2> QED BY <2>1, <2>2 DEF Pairs
<1>4. Named(w) \cap Named(more) = {}
  <2>1. ASSUME NEW id, id \in Named(w), id \in Named(more) PROVE FALSE
    <3>1. HasResult(ms[n + 1]) /\ id = ms[n + 1].result.id
      BY <2>1 DEF Faithful, ResultIds
    <3>2. PICK i \in 1..n : HasResult(ms[i]) /\ id = ms[i].result.id
      BY <2>1 DEF Pairs, ResultIds
    <3>3. \A x, y \in DOMAIN ms :
             HasResult(ms[x]) /\ HasResult(ms[y]) /\ ms[x].result.id = ms[y].result.id => x = y
      BY DEF Paired
    <3>4. i \in DOMAIN ms /\ ms[i].result.id = ms[n + 1].result.id
      BY <1>1, <3>1, <3>2
    <3>5. i = n + 1
      BY <3>1, <3>2, <3>3, <3>4
    <3> QED BY <1>1, <3>5
  <2> QED BY <2>1
<1>5. Follows(w \o more) /\ Once(w \o more)
  BY <1>2, <1>3, <1>4, CatFollows, CatOnce
<1>6. /\ w \o more \in Seq(Items)
      /\ CallsOf(w \o more) = CallsOf(w) \cup Range(ms[n + 1].calls)
      /\ Named(w \o more) = Named(w) \cup ResultIds(ms[n + 1])
  BY <1>2, CatNames DEF Faithful
<1> QED BY <1>1, <1>5, <1>6 DEF Pairs

LEMMA EmptyPairs == \A ms : Pairs(<<>>, ms, 0)
<1>1. Tokens(<<>>) = {} /\ 1..0 = {} /\ DOMAIN <<>> = {}
  BY DEF Tokens
<1> QED BY <1>1 DEF Pairs, Follows, Once, CallsOf, Named

LEMMA EachPairs ==
    ASSUME NEW ms \in Seq(Messages), Paired(ms), NEW ss, DOMAIN ss = DOMAIN ms, ss = [i \in DOMAIN ms |-> ss[i]],
           \A i \in DOMAIN ms : Faithful(ms[i], ss[i]), NEW sys \in Seq(Token)
    PROVE  Pairs(Leading(sys) \o Flat(ss), ms, Len(ms))
<1>1. ss \in Seq(Seq(Items)) /\ Len(ss) = Len(ms)
  <2>1. DOMAIN ms = 1..Len(ms) /\ Len(ms) \in Nat
    OBVIOUS
  <2>2. ss \in [1..Len(ms) -> Seq(Items)]
    BY <2>1 DEF Faithful
  <2> QED BY <2>1, <2>2
<1>2. PICK f \in [0..Len(ss) -> Seq(Items)] :
            /\ f[0] = <<>> /\ \A n \in 1..Len(ss) : f[n] = f[n - 1] \o ss[n]
            /\ Flat(ss) = f[Len(ss)]
  BY <1>1, FlatIs
<1> DEFINE S == {n \in Nat : n <= Len(ms) => Pairs(f[n], ms, n)}
<1>3. 0 \in S
  BY <1>2, EmptyPairs
<1>4. ASSUME NEW n \in Nat, n \in S PROVE n + 1 \in S
  <2> SUFFICES ASSUME n + 1 <= Len(ms) PROVE Pairs(f[n + 1], ms, n + 1)
    OBVIOUS
  <2>1. n + 1 \in 1..Len(ms) /\ n + 1 \in DOMAIN ms /\ n <= Len(ms) /\ Len(ms) \in Nat
    OBVIOUS
  <2>2. f[n + 1] = f[n] \o ss[n + 1]
    <3>1. \A k \in 1..Len(ss) : \A j : j = k - 1 => f[k] = f[j] \o ss[k]
      BY <1>2
    <3>2. n = (n + 1) - 1
      OBVIOUS
    <3> QED BY <1>1, <2>1, <3>1, <3>2
  <2>3. Pairs(f[n], ms, n)
    BY <1>4, <2>1
  <2>4. Faithful(ms[n + 1], ss[n + 1])
    BY <2>1
  <2> HIDE DEF S
  <2> QED BY <2>1, <2>2, <2>3, <2>4, PairsMore
<1>5. Nat \subseteq S
  <2> HIDE DEF S
  <2> QED BY <1>3, <1>4, SetInduction
<1>6. Pairs(Flat(ss), ms, Len(ms))
  <2>1. Len(ms) \in S
    <3>1. Len(ms) \in Nat
      OBVIOUS
    <3> HIDE DEF S
    <3> QED BY <1>5, <3>1
  <2>2. Pairs(f[Len(ms)], ms, Len(ms))
    <3>1. Len(ms) <= Len(ms)
      OBVIOUS
    <3> QED BY <2>1, <3>1
  <2> QED BY <1>1, <1>2, <2>2
<1>7. Leading(sys) \in Seq(Items) /\ CallsOf(Leading(sys)) = {} /\ Named(Leading(sys)) = {}
      /\ Follows(Leading(sys)) /\ Once(Leading(sys))
  <2>1. CASE sys = <<>>
    <3>1. Leading(sys) = <<>> /\ \A ns : Pairs(<<>>, ns, 0)
      BY <2>1, EmptyPairs DEF Leading
    <3>2. 1..0 = {}
      OBVIOUS
    <3> QED BY <3>1, <3>2 DEF Pairs
  <2>2. CASE sys # <<>>
    <3> DEFINE it == Plain("system", sys)
    <3>1. it \in Items /\ it.calls = <<>> /\ it.answers = <<>>
      <4>1. <<>> \in Seq(Ids) /\ <<>> \in Seq(Given) /\ "system" \in Forms
        BY DEF Forms
      <4>2. it \in Items
        BY <4>1, ItemSays
      <4> QED BY <4>2 DEF Plain, Item
    <3>2. Leading(sys) = <<it>>
      BY <2>2 DEF Leading
    <3> HIDE DEF it
    <3>3. Leading(sys) \in Seq(Items) /\ Tokens(Leading(sys)) = {it} /\ \A i \in DOMAIN Leading(sys) : Leading(sys)[i] = it
      BY <3>1, <3>2 DEF Tokens
    <3>4. NamedBy(it) = {} /\ Range(it.calls) = {} /\ DOMAIN it.answers = {}
      BY <3>1 DEF NamedBy, Range
    <3> QED BY <3>3, <3>4 DEF CallsOf, Named, Follows, Once
  <2> QED BY <2>1, <2>2
<1>8. /\ Follows(Leading(sys) \o Flat(ss)) /\ Once(Leading(sys) \o Flat(ss))
      /\ Leading(sys) \o Flat(ss) \in Seq(Items)
      /\ CallsOf(Leading(sys) \o Flat(ss)) = CallsOf(Flat(ss)) /\ Named(Leading(sys) \o Flat(ss)) = Named(Flat(ss))
  BY <1>6, <1>7, CatFollows, CatOnce, CatNames DEF Pairs
<1> QED BY <1>6, <1>8 DEF Pairs

\* One item with the calls and the result of its message.
LEMMA OneFaithful ==
    ASSUME NEW m \in Messages, NEW it \in Items, it.calls = m.calls, NamedBy(it) = ResultIds(m),
           \A k, l \in DOMAIN it.answers : k = l
    PROVE  Faithful(m, <<it>>)
<1> DEFINE w == <<it>>
<1>1. w \in Seq(Items) /\ Tokens(w) = {it} /\ \A i \in DOMAIN w : i = 1 /\ w[i] = it
  BY DEF Tokens
<1> HIDE DEF w
<1>2. Once(w)
  BY <1>1 DEF Once
<1>3. CallsOf(w) = Range(m.calls) /\ Named(w) = ResultIds(m)
  BY <1>1 DEF CallsOf, Named
<1>4. Faithful(m, w)
  BY <1>1, <1>2, <1>3 DEF Faithful
<1> QED BY <1>4 DEF w

\* The answers of a message: at most one, to the call its result is of.
LEMMA AnswersName ==
    ASSUME NEW m \in Messages
    PROVE  /\ Answers(m) \in Seq(Given) /\ \A k, l \in DOMAIN Answers(m) : k = l
           /\ {Answers(m)[k].id : k \in DOMAIN Answers(m)} = ResultIds(m)
<1>1. Answers(m) \in Seq(Given)
  BY MessageParts
<1>2. CASE m.result = NoResult
  BY <1>1, <1>2 DEF Answers, ResultIds, HasResult
<1>3. CASE m.result # NoResult
  <2>1. Answers(m) = <<m.result>> /\ ResultIds(m) = {m.result.id}
    BY <1>3 DEF Answers, ResultIds, HasResult
  <2>2. DOMAIN Answers(m) = {1} /\ Answers(m)[1] = m.result
    BY <2>1
  <2> QED BY <1>1, <2>1, <2>2
<1> QED BY <1>2, <1>3

\* Messages that leave nothing on the wire.
LEMMA NoneFaithful ==
    ASSUME NEW m \in Messages, m.calls = <<>>, m.result = NoResult
    PROVE  Faithful(m, <<>>)
<1>1. Tokens(<<>>) = {} /\ DOMAIN <<>> = {} /\ Range(m.calls) = {}
  BY DEF Tokens, Range
<1> QED BY <1>1 DEF Faithful, Once, CallsOf, Named, ResultIds, HasResult

\* An item made of the calls and the answers of its message.
LEMMA ItemFaithful ==
    ASSUME NEW m \in Messages, NEW way \in Forms, NEW text \in Seq(Token)
    PROVE  Faithful(m, <<Item(way, text, m.calls, Answers(m))>>)
<1> DEFINE it == Item(way, text, m.calls, Answers(m))
<1>1. m.calls \in Seq(Ids) /\ Answers(m) \in Seq(Given)
  BY MessageParts
<1>2. it \in Items
  BY <1>1, ItemSays
<1>3. it.calls = m.calls /\ it.answers = Answers(m)
  BY DEF Item
<1> HIDE DEF it
<1>4. NamedBy(it) = ResultIds(m) /\ \A k, l \in DOMAIN it.answers : k = l
  BY <1>3, AnswersName DEF NamedBy
<1>5. Faithful(m, <<it>>)
  BY <1>2, <1>3, <1>4, OneFaithful
<1> QED BY <1>5 DEF it

\* Only turns of the assistant have calls, and only tool messages results.
LEMMA RoleParts ==
    ASSUME NEW m \in Messages
    PROVE  /\ m.role # "assistant" => m.calls = <<>>
           /\ m.role # "tool" => m.result = NoResult
BY MessageFields

LEMMA OpenaiFaithful == \A m \in Messages : Faithful(m, to_oai_message(m))
<1> SUFFICES ASSUME NEW m \in Messages PROVE Faithful(m, to_oai_message(m))
  OBVIOUS
<1>1. m.role \in Forms /\ m.text \in Seq(Token)
  BY MessageParts
<1> QED BY <1>1, ItemFaithful DEF to_oai_message

LEMMA AnthropicFaithful == \A m \in Messages : Faithful(m, build_messages(m))
<1> SUFFICES ASSUME NEW m \in Messages PROVE Faithful(m, build_messages(m))
  OBVIOUS
<1>1. m.role \in Forms /\ m.text \in Seq(Token) /\ "user" \in Forms
  BY MessageParts DEF Forms
<1>2. CASE m.role = "system"
  <2>1. m.calls = <<>> /\ m.result = NoResult
    BY <1>2, RoleParts
  <2> QED BY <1>2, <2>1, NoneFaithful DEF build_messages
<1>3. CASE m.role # "system"
  <2> DEFINE way == IF m.role = "tool" THEN "user" ELSE m.role
  <2>1. build_messages(m) = <<Item(way, m.text, m.calls, Answers(m))>> /\ way \in Forms
    BY <1>1, <1>3 DEF build_messages
  <2> HIDE DEF way
  <2> QED BY <1>1, <2>1, ItemFaithful
<1> QED BY <1>2, <1>3

LEMMA GeminiCliFaithful == \A m \in Messages : Faithful(m, GeminiCliContents(m))
<1> SUFFICES ASSUME NEW m \in Messages PROVE Faithful(m, GeminiCliContents(m))
  OBVIOUS
<1>1. m.text \in Seq(Token) /\ "user" \in Forms /\ "model" \in Forms
  BY MessageParts DEF Forms
<1>2. CASE m.role = "system" \/ (m.text = <<>> /\ m.calls = <<>> /\ m.result = NoResult)
  <2>1. m.calls = <<>> /\ m.result = NoResult
    BY <1>2, RoleParts
  <2> QED BY <1>2, <2>1, NoneFaithful DEF GeminiCliContents
<1>3. CASE ~(m.role = "system" \/ (m.text = <<>> /\ m.calls = <<>> /\ m.result = NoResult))
  <2> DEFINE way == IF m.role = "assistant" THEN "model" ELSE "user"
  <2>1. GeminiCliContents(m) = <<Item(way, m.text, m.calls, Answers(m))>> /\ way \in Forms
    BY <1>1, <1>3 DEF GeminiCliContents
  <2> HIDE DEF way
  <2> QED BY <1>1, <2>1, ItemFaithful
<1> QED BY <1>2, <1>3

LEMMA CursorFaithful == \A m \in Messages : Faithful(m, CursorMessage(m))
<1> SUFFICES ASSUME NEW m \in Messages PROVE Faithful(m, CursorMessage(m))
  OBVIOUS
<1> DEFINE text == IF m.role = "tool" THEN <<>> ELSE m.text
           calls == IF m.role = "assistant" THEN m.calls ELSE <<>>
           answers == IF m.role = "tool" THEN Answers(m) ELSE <<>>
<1>1. m.role \in Forms /\ m.text \in Seq(Token) /\ <<>> \in Seq(Token)
  BY MessageParts
<1>2. CursorMessage(m) = <<Item(m.role, text, calls, answers)>>
  BY DEF CursorMessage
<1>3. calls = m.calls
  BY RoleParts
<1>4. answers = Answers(m)
  BY RoleParts DEF Answers
<1>5. text \in Seq(Token)
  BY <1>1
<1> HIDE DEF text, calls, answers
<1> QED BY <1>1, <1>2, <1>3, <1>4, <1>5, ItemFaithful

LEMMA WindsurfFaithful == \A m \in Messages : Faithful(m, WindsurfMessage(m))
<1> SUFFICES ASSUME NEW m \in Messages PROVE Faithful(m, WindsurfMessage(m))
  OBVIOUS
<1>1. m.role \in Forms /\ m.text \in Seq(Token) /\ m.calls \in Seq(Ids)
  BY MessageParts
<1>2. CASE m.result = NoResult
  <2>1. WindsurfMessage(m) = <<Item(m.role, m.text, m.calls, Answers(m))>>
    BY <1>2 DEF WindsurfMessage, Answers
  <2> QED BY <1>1, <2>1, ItemFaithful
<1>3. CASE m.result # NoResult
  <2> DEFINE told == [m.result EXCEPT !.output = <<>>]
             given == <<told>>
             it == Item(m.role, m.text, m.calls, given)
  <2>1. WindsurfMessage(m) = <<it>>
    BY <1>3 DEF WindsurfMessage
  <2>2. m.result \in Given
    BY MessageFields, ResultFacts
  <2>3. told \in Given /\ told.id = m.result.id
    BY <2>2, MessageParts DEF Given
  <2>4. it = Item(m.role, m.text, m.calls, given) /\ it.calls = m.calls /\ it.answers = given
    BY DEF Item
  <2> HIDE DEF told
  <2>5. given \in Seq(Given) /\ DOMAIN given = {1} /\ given[1] = told
    BY <2>3
  <2> HIDE DEF given, it
  <2>6. it \in Items
    BY <1>1, <2>4, <2>5, ItemSays
  <2>7. NamedBy(it) = ResultIds(m) /\ \A k, l \in DOMAIN it.answers : k = l
    BY <1>3, <2>3, <2>4, <2>5 DEF NamedBy, ResultIds, HasResult
  <2> QED BY <2>1, <2>4, <2>6, <2>7, OneFaithful
<1> QED BY <1>2, <1>3

LEMMA CodexFaithful == \A m \in Messages : Faithful(m, build_input(m))
<1> SUFFICES ASSUME NEW m \in Messages PROVE Faithful(m, build_input(m))
  OBVIOUS
<1>0. /\ m.role \in {"system", "user", "assistant", "tool"} /\ m.text \in Seq(Token) /\ m.calls \in Seq(Ids)
      /\ <<>> \in Seq(Ids) /\ <<>> \in Seq(Given) /\ <<>> \in Seq(Token)
      /\ {"user", "assistant", "function_call", "function_call_output"} \subseteq Forms
  BY MessageFields DEF Forms
<1>1. CASE m.role = "system"
  <2>1. m.calls = <<>> /\ m.result = NoResult
    BY <1>1, RoleParts
  <2> QED BY <1>1, <2>1, NoneFaithful DEF build_input
<1>2. CASE m.role = "user"
  <2>1. m.calls = <<>> /\ m.result = NoResult
    BY <1>2, RoleParts
  <2>2. build_input(m) = <<Item("user", m.text, m.calls, Answers(m))>>
    BY <1>2, <2>1 DEF build_input, Plain, Answers
  <2> QED BY <1>0, <2>2, ItemFaithful
<1>3. CASE m.role = "tool"
  <2> DEFINE none == <<>>
  <2>1. m.calls = none
    BY <1>3, RoleParts
  <2>2. build_input(m) = <<Item("function_call_output", none, m.calls, Answers(m))>>
    BY <1>3, <2>1 DEF build_input
  <2>3. none \in Seq(Token)
    BY <1>0
  <2> HIDE DEF none
  <2> QED BY <1>0, <2>2, <2>3, ItemFaithful
<1>4. CASE m.role = "assistant"
  <2> DEFINE it == Plain("assistant", m.text)
             one == <<it>>
             call(i) == Item("function_call", <<>>, <<m.calls[i]>>, <<>>)
             calls == [i \in DOMAIN m.calls |-> call(i)]
  <2>1. build_input(m) = one \o calls
    BY <1>4 DEF build_input
  <2>2. it \in Items /\ it.calls = <<>> /\ it.answers = <<>>
    <3>1. it \in Items
      BY <1>0, ItemSays
    <3> QED BY <3>1 DEF Plain, Item
  <2>3. ASSUME NEW i \in DOMAIN m.calls
        PROVE  call(i) \in Items /\ Range(call(i).calls) = {m.calls[i]} /\ call(i).answers = <<>>
    <3>1. m.calls[i] \in Ids
      BY <1>0
    <3> DEFINE its == <<m.calls[i]>>
               none == <<>>
    <3>2. its \in Seq(Ids) /\ Range(its) = {m.calls[i]}
      BY <3>1 DEF Range
    <3>3. call(i).calls = its /\ call(i).answers = <<>>
      BY DEF Item
    <3>4. call(i) = Item("function_call", none, its, none)
      OBVIOUS
    <3>5. none \in Seq(Token) /\ none \in Seq(Given) /\ "function_call" \in Forms
      BY <1>0
    <3> HIDE DEF its, call, none
    <3>6. call(i) \in Items
      BY <3>2, <3>4, <3>5, ItemSays
    <3> USE DEF none
    <3> QED BY <3>2, <3>3, <3>6
  <2> HIDE DEF it, call
  <2>4. one \in Seq(Items) /\ Tokens(one) = {it} /\ \A i \in DOMAIN one : one[i] = it
    BY <2>2 DEF Tokens
  <2>5. calls \in Seq(Items) /\ DOMAIN calls = DOMAIN m.calls /\ \A i \in DOMAIN calls : calls[i] = call(i)
    <3>1. DOMAIN m.calls = 1..Len(m.calls) /\ Len(m.calls) \in Nat
      BY <1>0
    <3>2. calls \in [1..Len(m.calls) -> Items]
      BY <2>3, <3>1
    <3> QED BY <3>1, <3>2
  <2> HIDE DEF one, calls
  <2>6. CallsOf(one) = {} /\ Named(one) = {} /\ Once(one)
    <3>1. Range(it.calls) = {} /\ NamedBy(it) = {} /\ DOMAIN it.answers = {}
      BY <2>2 DEF Range, NamedBy
    <3> QED BY <2>4, <3>1 DEF CallsOf, Named, Once
  <2>7. CallsOf(calls) = Range(m.calls)
    <3>0. \A i \in DOMAIN m.calls : Range(calls[i].calls) = {m.calls[i]}
      BY <2>3, <2>5
    <3>1. \A i \in DOMAIN m.calls : \A id : id \in Range(calls[i].calls) <=> id = m.calls[i]
      BY <3>0
    <3>5. DOMAIN calls = DOMAIN m.calls
      BY <2>5
    <3>2. \A id : id \in CallsOf(calls) <=> \E i \in DOMAIN calls : id \in Range(calls[i].calls)
      BY DEF CallsOf, Tokens
    <3>3. \A id : id \in CallsOf(calls) <=> \E i \in DOMAIN m.calls : id = m.calls[i]
      BY <3>1, <3>2, <3>5
    <3>4. \A id : id \in Range(m.calls) <=> \E i \in DOMAIN m.calls : id = m.calls[i]
      BY DEF Range
    <3> QED BY <3>3, <3>4
  <2>8. Named(calls) = {} /\ Once(calls)
    <3>1. \A i \in DOMAIN calls : NamedBy(calls[i]) = {} /\ DOMAIN calls[i].answers = {}
      BY <2>3, <2>5 DEF NamedBy
    <3> QED BY <3>1 DEF Named, Tokens, Once
  <2>9. ResultIds(m) = {}
    BY <1>4, RoleParts DEF ResultIds, HasResult
  <2>10. one \in Seq(Items) /\ calls \in Seq(Items)
    BY <2>4, <2>5
  <2>11. Once(one \o calls)
    BY <2>6, <2>8, <2>10, CatOnce
  <2>12. /\ one \o calls \in Seq(Items)
         /\ CallsOf(one \o calls) = Range(m.calls) /\ Named(one \o calls) = {}
    <3>1. /\ one \o calls \in Seq(Items) /\ CallsOf(one \o calls) = CallsOf(one) \cup CallsOf(calls)
          /\ Named(one \o calls) = Named(one) \cup Named(calls)
      BY <2>10, CatNames
    <3> QED BY <2>6, <2>7, <2>8, <3>1
  <2> QED BY <2>1, <2>9, <2>11, <2>12 DEF Faithful
<1> QED BY <1>0, <1>1, <1>2, <1>3, <1>4

\* The adapters that name calls and results by id keep them paired.
LEMMA ByIdPairs ==
    ASSUME NEW a \in ById, a # "kiro", NEW ms \in Seq(Messages), Paired(ms), NEW sys \in Seq(Token)
    PROVE  Pairs(WireOf(a, ms, sys), ms, Len(ms))
<1>1. ASSUME NEW ss, DOMAIN ss = DOMAIN ms, ss = [i \in DOMAIN ms |-> ss[i]],
             \A i \in DOMAIN ms : Faithful(ms[i], ss[i])
      PROVE  Pairs(Leading(sys) \o Flat(ss), ms, Len(ms))
  BY <1>1, EachPairs
<1>2. \A i \in DOMAIN ms : ms[i] \in Messages
  OBVIOUS
<1>3. CASE a = "openai_compat"
  <2> DEFINE ss == [i \in DOMAIN ms |-> to_oai_message(ms[i])]
  <2>1. WireOf(a, ms, sys) = Leading(sys) \o Flat(ss)
    BY <1>3 DEF WireOf, OpenaiRequest, Each
  <2>2. \A i \in DOMAIN ms : Faithful(ms[i], ss[i])
    BY <1>2, OpenaiFaithful
  <2>3. DOMAIN ss = DOMAIN ms /\ ss = [i \in DOMAIN ms |-> ss[i]]
    OBVIOUS
  <2> HIDE DEF ss
  <2> QED BY <1>1, <2>1, <2>2, <2>3
<1>4. CASE a = "anthropic"
  <2> DEFINE ss == [i \in DOMAIN ms |-> build_messages(ms[i])]
  <2>1. WireOf(a, ms, sys) = Leading(sys) \o Flat(ss)
    BY <1>4 DEF WireOf, AnthropicRequest, Each
  <2>2. \A i \in DOMAIN ms : Faithful(ms[i], ss[i])
    BY <1>2, AnthropicFaithful
  <2>3. DOMAIN ss = DOMAIN ms /\ ss = [i \in DOMAIN ms |-> ss[i]]
    OBVIOUS
  <2> HIDE DEF ss
  <2> QED BY <1>1, <2>1, <2>2, <2>3
<1>5. CASE a = "codex"
  <2> DEFINE ss == [i \in DOMAIN ms |-> build_input(ms[i])]
  <2>1. WireOf(a, ms, sys) = Leading(sys) \o Flat(ss)
    BY <1>5 DEF WireOf, CodexRequest, Each
  <2>2. \A i \in DOMAIN ms : Faithful(ms[i], ss[i])
    BY <1>2, CodexFaithful
  <2>3. DOMAIN ss = DOMAIN ms /\ ss = [i \in DOMAIN ms |-> ss[i]]
    OBVIOUS
  <2> HIDE DEF ss
  <2> QED BY <1>1, <2>1, <2>2, <2>3
<1>6. CASE a = "gemini_cli"
  <2> DEFINE ss == [i \in DOMAIN ms |-> GeminiCliContents(ms[i])]
  <2>1. WireOf(a, ms, sys) = Leading(sys) \o Flat(ss)
    BY <1>6 DEF WireOf, GeminiCliRequest, Each
  <2>2. \A i \in DOMAIN ms : Faithful(ms[i], ss[i])
    BY <1>2, GeminiCliFaithful
  <2>3. DOMAIN ss = DOMAIN ms /\ ss = [i \in DOMAIN ms |-> ss[i]]
    OBVIOUS
  <2> HIDE DEF ss
  <2> QED BY <1>1, <2>1, <2>2, <2>3
<1>7. CASE a = "cursor"
  <2> DEFINE ss == [i \in DOMAIN ms |-> CursorMessage(ms[i])]
  <2>1. WireOf(a, ms, sys) = Leading(sys) \o Flat(ss)
    BY <1>7 DEF WireOf, build_inference_request, Each
  <2>2. \A i \in DOMAIN ms : Faithful(ms[i], ss[i])
    BY <1>2, CursorFaithful
  <2>3. DOMAIN ss = DOMAIN ms /\ ss = [i \in DOMAIN ms |-> ss[i]]
    OBVIOUS
  <2> HIDE DEF ss
  <2> QED BY <1>1, <2>1, <2>2, <2>3
<1>8. CASE a = "windsurf"
  <2> DEFINE ss == [i \in DOMAIN ms |-> WindsurfMessage(ms[i])]
  <2>1. WireOf(a, ms, sys) = Leading(sys) \o Flat(ss)
    BY <1>8 DEF WireOf, build_envelope, Each
  <2>2. \A i \in DOMAIN ms : Faithful(ms[i], ss[i])
    BY <1>2, WindsurfFaithful
  <2>3. DOMAIN ss = DOMAIN ms /\ ss = [i \in DOMAIN ms |-> ss[i]]
    OBVIOUS
  <2> HIDE DEF ss
  <2> QED BY <1>1, <2>1, <2>2, <2>3
<1> QED BY <1>3, <1>4, <1>5, <1>6, <1>7, <1>8 DEF ById

\* kiro's history: answers follow their calls, once, and users the assistant.
Alternates(h) == \A i \in 2..Len(h) : IsUser(h[i]) => ~IsUser(h[i - 1])
Tidy(h) == h \in Seq(Items) /\ Follows(h) /\ Once(h) /\ Alternates(h)

\* An item with at most one answer, to a call that has none yet.
New(h, it) == NamedBy(it) \cap Named(h) = {} /\ \A k, l \in DOMAIN it.answers : k = l

LEMMA AppendTidy ==
    ASSUME NEW h, Tidy(h), NEW it \in Items, NamedBy(it) \subseteq CallsOf(h)
    PROVE  /\ Append(h, it) \in Seq(Items) /\ Follows(Append(h, it))
           /\ CallsOf(Append(h, it)) = CallsOf(h) \cup Range(it.calls)
           /\ Named(Append(h, it)) = Named(h) \cup NamedBy(it)
           /\ \A i \in 2..Len(h) : IsUser(Append(h, it)[i]) => ~IsUser(Append(h, it)[i - 1])
           /\ New(h, it) /\ (IsUser(it) /\ h # <<>> => ~IsUser(Last(h))) => Tidy(Append(h, it))
<1> DEFINE one == <<it>>
           g == Append(h, it)
           n == Len(h)
<1>1. h \in Seq(Items) /\ one \in Seq(Items) /\ g = h \o one /\ Tokens(one) = {it} /\ DOMAIN one = {1} /\ one[1] = it
  BY DEF Tidy, Tokens
<1>2. /\ g \in Seq(Items) /\ Len(g) = n + 1 /\ n \in Nat /\ g[n + 1] = it /\ \A i \in 1..n : g[i] = h[i]
      /\ h # <<>> => n > 0 /\ Last(h) = h[n]
  BY <1>1 DEF Last
<1> HIDE DEF one, g, n
<1>3. CallsOf(one) = Range(it.calls) /\ Named(one) = NamedBy(it)
  BY <1>1 DEF CallsOf, Named
<1>4. Follows(g) /\ CallsOf(g) = CallsOf(h) \cup Range(it.calls) /\ Named(g) = Named(h) \cup NamedBy(it)
  <2>1. Named(one) \subseteq CallsOf(h)
    BY <1>3
  <2>2. h \in Seq(Items) /\ one \in Seq(Items) /\ Follows(h)
    BY <1>1 DEF Tidy
  <2>3. /\ Follows(h \o one) /\ CallsOf(h \o one) = CallsOf(h) \cup CallsOf(one)
        /\ Named(h \o one) = Named(h) \cup Named(one)
    BY <2>1, <2>2, CatFollows, CatNames
  <2> QED BY <1>1, <1>3, <2>3
<1>5. \A i \in 2..n : IsUser(g[i]) => ~IsUser(g[i - 1])
  <2>1. ASSUME NEW i \in 2..n PROVE g[i] = h[i] /\ g[i - 1] = h[i - 1]
    <3>1. i \in 1..n /\ i - 1 \in 1..n
      BY <1>2
    <3> QED BY <1>2, <3>1
  <2> QED BY <2>1 DEF Tidy, Alternates, n
<1>6. ASSUME IsUser(it) /\ h # <<>> => ~IsUser(Last(h)) PROVE Alternates(g)
  <2> SUFFICES ASSUME NEW i \in 2..(n + 1), IsUser(g[i]) PROVE ~IsUser(g[i - 1])
    BY <1>2 DEF Alternates
  <2>1. CASE i \in 2..n
    BY <1>5, <2>1
  <2>2. CASE i = n + 1
    <3>1. n \in 1..n /\ i - 1 = n /\ h # <<>>
      BY <1>2, <2>2 DEF n
    <3>2. g[i] = it /\ g[i - 1] = Last(h)
      BY <1>2, <2>2, <3>1
    <3> QED BY <1>6, <3>1, <3>2
  <2> QED BY <1>2, <2>1, <2>2
<1>7. ASSUME New(h, it) PROVE Once(g)
  <2>1. Once(one)
    BY <1>1, <1>7 DEF New, Once
  <2>2. Named(h) \cap Named(one) = {} /\ h \in Seq(Items) /\ one \in Seq(Items) /\ Once(h)
    BY <1>1, <1>3, <1>7 DEF New, Tidy
  <2> QED BY <1>1, <2>1, <2>2, CatOnce
<1> QED BY <1>2, <1>4, <1>5, <1>6, <1>7 DEF Tidy, g, n

\* .. also if an item gets another text, or more calls.
LEMMA LikeTidy ==
    ASSUME NEW h, Tidy(h), NEW g \in Seq(Items), DOMAIN g = DOMAIN h,
           \A i \in DOMAIN h : /\ g[i].as = h[i].as /\ g[i].answers = h[i].answers
                               /\ Range(h[i].calls) \subseteq Range(g[i].calls)
    PROVE  Tidy(g) /\ CallsOf(h) \subseteq CallsOf(g) /\ Named(g) = Named(h)
<1>1. DOMAIN h = 1..Len(h) /\ Len(h) \in Nat /\ Len(g) = Len(h)
  BY DEF Tidy
<1>2. Follows(g)
  <2> SUFFICES ASSUME NEW i \in DOMAIN g, NEW id \in NamedBy(g[i])
               PROVE  \E j \in 1..(i - 1) : id \in Range(g[j].calls)
    BY DEF Follows
  <2>1. id \in NamedBy(h[i])
    BY DEF NamedBy
  <2>2. PICK j \in 1..(i - 1) : id \in Range(h[j].calls)
    BY <2>1 DEF Tidy, Follows
  <2>3. j \in DOMAIN h
    BY <1>1
  <2> QED BY <2>2, <2>3
<1>3. Alternates(g)
  <2> SUFFICES ASSUME NEW i \in 2..Len(h) PROVE IsUser(g[i]) => ~IsUser(g[i - 1])
    BY <1>1 DEF Alternates
  <2>1. i \in DOMAIN h /\ i - 1 \in DOMAIN h
    BY <1>1
  <2>2. g[i].as = h[i].as /\ g[i - 1].as = h[i - 1].as
    BY <2>1
  <2> QED BY <2>2 DEF Tidy, Alternates, IsUser
<1>4. CallsOf(h) \subseteq CallsOf(g)
  <2>1. \A id \in CallsOf(h) : \E i \in DOMAIN h : id \in Range(h[i].calls)
    BY DEF CallsOf, Tokens
  <2>2. \A i \in DOMAIN g : Range(g[i].calls) \subseteq CallsOf(g)
    BY NamesAt
  <2> QED BY <2>1, <2>2
<1>5. Once(g)
  BY DEF Tidy, Once
<1>6. Named(g) = Named(h)
  <2>1. \A i \in DOMAIN h : NamedBy(g[i]) = NamedBy(h[i])
    BY DEF NamedBy
  <2>2. \A id : id \in Named(g) <=> \E i \in DOMAIN g : id \in NamedBy(g[i])
    BY DEF Named, Tokens
  <2>3. \A id : id \in Named(h) <=> \E i \in DOMAIN h : id \in NamedBy(h[i])
    BY DEF Named, Tokens
  <2> QED BY <2>1, <2>2, <2>3
<1> QED BY <1>2, <1>3, <1>4, <1>5, <1>6 DEF Tidy

LEMMA PushUserTidy ==
    ASSUME NEW h, Tidy(h), NEW it \in Items, IsUser(it), NamedBy(it) \subseteq CallsOf(h), New(h, it)
    PROVE  /\ Tidy(PushUser(h, it)) /\ CallsOf(PushUser(h, it)) = CallsOf(h) \cup Range(it.calls)
           /\ Named(PushUser(h, it)) = Named(h) \cup NamedBy(it)
<1> DEFINE gap == Plain("assistant", <<>>)
<1>1. gap \in Items /\ ~IsUser(gap) /\ NamedBy(gap) = {} /\ Range(gap.calls) = {} /\ New(h, gap)
  <2>1. <<>> \in Seq(Ids) /\ <<>> \in Seq(Given) /\ <<>> \in Seq(Token) /\ "assistant" \in Forms
    BY DEF Forms
  <2>2. gap \in Items
    BY <2>1, ItemSays
  <2>3. gap.as = "assistant" /\ gap.calls = <<>> /\ gap.answers = <<>>
    BY DEF Plain, Item
  <2>4. NamedBy(gap) = {} /\ DOMAIN gap.answers = {}
    BY <2>3 DEF NamedBy
  <2> HIDE DEF gap
  <2> QED BY <2>2, <2>3, <2>4 DEF IsUser, Range, New
<1>2. h \in Seq(Items)
  BY DEF Tidy
<1>3. CASE h # <<>> /\ IsUser(Last(h))
  <2>1. PushUser(h, it) = Append(Append(h, gap), it)
    <3> HIDE DEF gap
    <3>1. h \o <<gap, it>> = Append(Append(h, gap), it)
      BY <1>1, <1>2
    <3> QED BY <1>3, <3>1 DEF PushUser, gap
  <2> HIDE DEF gap
  <2>2. Tidy(Append(h, gap)) /\ CallsOf(Append(h, gap)) = CallsOf(h) /\ Named(Append(h, gap)) = Named(h)
    <3>1. /\ CallsOf(Append(h, gap)) = CallsOf(h) \cup Range(gap.calls)
          /\ Named(Append(h, gap)) = Named(h) \cup NamedBy(gap)
      BY <1>1, AppendTidy
    <3>2. Tidy(Append(h, gap))
      BY <1>1, AppendTidy
    <3> QED BY <1>1, <3>1, <3>2
  <2>3. Last(Append(h, gap)) = gap
    BY <1>1, <1>2 DEF Last
  <2>4. NamedBy(it) \subseteq CallsOf(Append(h, gap)) /\ New(Append(h, gap), it)
    BY <2>2 DEF New
  <2> DEFINE a == Append(h, gap)
  <2>5. /\ Tidy(a) /\ NamedBy(it) \subseteq CallsOf(a) /\ ~IsUser(Last(a)) /\ CallsOf(a) = CallsOf(h)
        /\ New(a, it) /\ Named(a) = Named(h)
    BY <1>1, <2>2, <2>3, <2>4
  <2>6. PushUser(h, it) = Append(a, it)
    BY <2>1
  <2> HIDE DEF a
  <2> QED BY <2>5, <2>6, AppendTidy
<1>4. CASE ~(h # <<>> /\ IsUser(Last(h)))
  <2>1. PushUser(h, it) = Append(h, it)
    BY <1>4 DEF PushUser
  <2> QED BY <1>4, <2>1, AppendTidy
<1> QED BY <1>3, <1>4

\* One message more in the history.
LEMMA PushedTidy ==
    ASSUME NEW h, Tidy(h), NEW m \in Messages, ResultIds(m) \subseteq CallsOf(h), ResultIds(m) \cap Named(h) = {}
    PROVE  /\ Tidy(Pushed(h, m)) /\ CallsOf(Pushed(h, m)) = CallsOf(h) \cup Range(m.calls)
           /\ Named(Pushed(h, m)) = Named(h) \cup ResultIds(m)
<1>0. /\ "user" \in Forms /\ "assistant" \in Forms /\ m.text \in Seq(Token) /\ m.calls \in Seq(Ids)
      /\ <<>> \in Seq(Ids) /\ <<>> \in Seq(Given) /\ <<>> \in Seq(Token) /\ h \in Seq(Items)
  BY MessageParts DEF Forms, Tidy
<1>1. CASE m.role \in {"user", "system"}
  <2> DEFINE it == Plain("user", m.text)
  <2>1. it \in Items
    BY <1>0, ItemSays
  <2>2. it.as = "user" /\ it.calls = <<>> /\ it.answers = <<>>
    BY DEF Plain, Item
  <2>3. Pushed(h, m) = PushUser(h, it)
    BY <1>1 DEF Pushed
  <2>4. m.calls = <<>> /\ ResultIds(m) = {}
    BY <1>1, RoleParts DEF ResultIds, HasResult
  <2> HIDE DEF it
  <2>5. IsUser(it) /\ NamedBy(it) = {} /\ Range(it.calls) = Range(m.calls) /\ New(h, it)
    <3>1. NamedBy(it) = {} /\ DOMAIN it.answers = {}
      BY <2>2 DEF NamedBy
    <3> QED BY <2>2, <2>4, <3>1 DEF IsUser, New
  <2> QED BY <2>1, <2>3, <2>4, <2>5, PushUserTidy
<1>2. CASE m.role = "tool"
  <2> DEFINE none == <<>>
             it == Item("user", none, none, Answers(m))
  <2>1. it.as = "user" /\ it.calls = none /\ it.answers = Answers(m)
    BY DEF Item
  <2>2. Pushed(h, m) = PushUser(h, it)
    BY <1>2 DEF Pushed
  <2>3. m.calls = none
    BY <1>2, RoleParts
  <2>4. it = Item("user", none, none, Answers(m))
    OBVIOUS
  <2>5. none \in Seq(Token) /\ none \in Seq(Ids)
    BY <1>0
  <2> HIDE DEF it, none
  <2>6. it \in Items
    BY <1>0, <2>4, <2>5, AnswersName, ItemSays
  <2>7. IsUser(it) /\ NamedBy(it) = ResultIds(m) /\ Range(it.calls) = Range(m.calls) /\ New(h, it)
    <3>1. NamedBy(it) = ResultIds(m) /\ \A k, l \in DOMAIN it.answers : k = l
      BY <2>1, AnswersName DEF NamedBy
    <3> QED BY <2>1, <2>3, <3>1 DEF IsUser, New
  <2> QED BY <2>2, <2>6, <2>7, PushUserTidy
<1>3. CASE m.role = "assistant"
  <2>0. ResultIds(m) = {}
    BY <1>3, RoleParts DEF ResultIds, HasResult
  <2>1. CASE m.text = <<>> /\ m.calls = <<>>
    <3>1. Pushed(h, m) = h /\ Range(m.calls) = {}
      BY <1>3, <2>1 DEF Pushed, PushAssistant, Range
    <3> QED BY <2>0, <3>1
  <2>2. CASE ~(m.text = <<>> /\ m.calls = <<>>) /\ h # <<>> /\ ~IsUser(Last(h))
    <3> DEFINE x == merge_assistant(Last(h), m)
               f == Front(h)
               l == Last(h)
               g == Append(f, x)
    <3>1. Pushed(h, m) = g
      BY <1>3, <2>2 DEF Pushed, PushAssistant
    <3>2. f \in Seq(Items) /\ l \in Items /\ h = Append(f, l)
      BY <1>0, <2>2, FrontLast
    <3>3. x \in Items
      BY <3>2, MergeSays
    <3>4. x.as = l.as /\ x.answers = l.answers /\ x.calls = l.calls \o m.calls
      BY <3>2 DEF merge_assistant, Items
    <3> HIDE DEF x, f, l
    <3>5. l.calls \in Seq(Ids)
      BY <3>2 DEF Items
    <3>6. Range(x.calls) = Range(l.calls) \cup Range(m.calls)
      BY <1>0, <3>4, <3>5, CatHas, RangeIs
    <3>7. /\ g \in Seq(Items) /\ DOMAIN g = DOMAIN h /\ DOMAIN h = 1..(Len(f) + 1) /\ Len(f) \in Nat
          /\ \A i \in 1..Len(f) : g[i] = h[i]
          /\ g[Len(f) + 1] = x /\ h[Len(f) + 1] = l
      <4>1. \A y \in Items : /\ Append(f, y) \in Seq(Items) /\ DOMAIN Append(f, y) = 1..(Len(f) + 1)
                             /\ Append(f, y)[Len(f) + 1] = y /\ \A i \in 1..Len(f) : Append(f, y)[i] = f[i]
        BY <3>2
      <4>2. Len(f) \in Nat
        BY <3>2
      <4> QED BY <3>2, <3>3, <4>1, <4>2
    <3> HIDE DEF g
    <3>8. ASSUME NEW i \in DOMAIN h
          PROVE  /\ g[i].as = h[i].as /\ g[i].answers = h[i].answers
                 /\ Range(h[i].calls) \subseteq Range(g[i].calls)
      <4>1. CASE i \in 1..Len(f)
        BY <3>7, <4>1
      <4>2. CASE i = Len(f) + 1
        BY <3>4, <3>6, <3>7, <4>2
      <4> QED BY <3>7, <4>1, <4>2
    <3>9. Tidy(g) /\ Named(g) = Named(h)
      BY <3>7, <3>8, LikeTidy
    <3>10. CallsOf(g) = CallsOf(h) \cup Range(m.calls)
      <4>1. \A y \in Items : CallsOf(Append(f, y)) = CallsOf(f) \cup Range(y.calls)
        <5> TAKE y \in Items
        <5> DEFINE one == <<y>>
        <5>1. f \in Seq(Items) /\ one \in Seq(Items) /\ Append(f, y) = f \o one /\ Tokens(one) = {y}
          BY <3>2 DEF Tokens
        <5> HIDE DEF one
        <5>2. f \in Seq(Items) /\ one \in Seq(Items)
          BY <5>1
        <5>3. CallsOf(f \o one) = CallsOf(f) \cup CallsOf(one)
          BY <5>2, CatNames
        <5> QED BY <5>1, <5>3 DEF CallsOf
      <4>2. CallsOf(g) = CallsOf(f) \cup Range(x.calls) /\ CallsOf(h) = CallsOf(f) \cup Range(l.calls)
        BY <3>2, <3>3, <4>1 DEF g
      <4> QED BY <3>6, <4>2
    <3> QED BY <2>0, <3>1, <3>9, <3>10
  <2>3. CASE ~(m.text = <<>> /\ m.calls = <<>>) /\ ~(h # <<>> /\ ~IsUser(Last(h)))
    <3> DEFINE none == <<>>
               it == Item("assistant", m.text, m.calls, none)
    <3>1. Pushed(h, m) = Append(h, it)
      BY <1>3, <2>3 DEF Pushed, PushAssistant
    <3>2. it.as = "assistant" /\ it.calls = m.calls /\ it.answers = <<>>
      BY DEF Item
    <3>3. it = Item("assistant", m.text, m.calls, none) /\ none \in Seq(Given)
      BY <1>0
    <3> HIDE DEF it, none
    <3>4. it \in Items
      BY <1>0, <3>3, ItemSays
    <3>5. ~IsUser(it) /\ NamedBy(it) = {} /\ New(h, it)
      <4>1. NamedBy(it) = {} /\ DOMAIN it.answers = {}
        BY <3>2 DEF NamedBy
      <4> QED BY <3>2, <4>1 DEF IsUser, New
    <3> QED BY <2>0, <3>1, <3>2, <3>4, <3>5, AppendTidy
  <2> QED BY <2>1, <2>2, <2>3
<1> QED BY <1>1, <1>2, <1>3, MessageFields

LEMMA HistoryTidy ==
    ASSUME NEW ms \in Seq(Messages), ms # <<>>, \A i \in DOMAIN ms : validate(ms[i]), Paired(ms)
    PROVE  /\ Tidy(build_history(ms))
           /\ CallsOf(build_history(ms)) = UNION {Range(ms[i].calls) : i \in 1..(Len(ms) - 1)}
           /\ Named(build_history(ms)) = UNION {ResultIds(ms[i]) : i \in 1..(Len(ms) - 1)}
<1> DEFINE top == Len(ms) - 1
           U == CHOOSE h : HistoryUpto(h, ms)
           S == {n \in Nat : n <= top => /\ Tidy(U[n])
                                       /\ CallsOf(U[n]) = UNION {Range(ms[i].calls) : i \in 1..n}
                                       /\ Named(U[n]) = UNION {ResultIds(ms[i]) : i \in 1..n}}
<1>1. HistoryUpto(U, ms)
  BY HistoryExists
<1>2. build_history(ms) = U[top]
  BY DEF build_history, HistoryUpto
<1> HIDE DEF U
<1>3. top \in Nat /\ \A n \in 1..top : n \in DOMAIN ms /\ ms[n] \in Messages
  OBVIOUS
<1>4. U[0] = <<>> /\ \A n \in 1..top : U[n] = Pushed(U[n - 1], ms[n])
  BY <1>1, <1>3 DEF HistoryUpto
<1> HIDE DEF top
<1>5. 0 \in S
  <2>1. Tidy(<<>>) /\ CallsOf(<<>>) = {} /\ Named(<<>>) = {}
    <3>1. Pairs(<<>>, ms, 0) /\ 1..0 = {}
      BY EmptyPairs
    <3>2. \A i \in 2..Len(<<>>) : FALSE
      OBVIOUS
    <3> QED BY <3>1, <3>2 DEF Pairs, Tidy, Alternates
  <2>2. 1..0 = {}
    OBVIOUS
  <2> QED BY <1>4, <2>1, <2>2
<1>6. ASSUME NEW n \in Nat, n \in S PROVE n + 1 \in S
  <2> SUFFICES ASSUME n + 1 <= top
               PROVE  /\ Tidy(U[n + 1])
                      /\ CallsOf(U[n + 1]) = UNION {Range(ms[i].calls) : i \in 1..(n + 1)}
                      /\ Named(U[n + 1]) = UNION {ResultIds(ms[i]) : i \in 1..(n + 1)}
    OBVIOUS
  <2>1. n + 1 \in 1..top /\ n <= top /\ 1..(n + 1) = 1..n \cup {n + 1} /\ (n + 1) - 1 = n
    BY <1>3
  <2>2. U[n + 1] = Pushed(U[n], ms[n + 1])
    <3>1. \A k \in 1..top : \A j : j = k - 1 => U[k] = Pushed(U[j], ms[k])
      BY <1>4
    <3> QED BY <2>1, <3>1
  <2>3. /\ Tidy(U[n]) /\ CallsOf(U[n]) = UNION {Range(ms[i].calls) : i \in 1..n}
        /\ Named(U[n]) = UNION {ResultIds(ms[i]) : i \in 1..n}
    BY <1>6, <2>1
  <2>4. ms[n + 1] \in Messages /\ n + 1 \in DOMAIN ms
    BY <1>3, <2>1
  <2>5. ResultIds(ms[n + 1]) \subseteq CallsOf(U[n])
    <3> SUFFICES ASSUME HasResult(ms[n + 1]) PROVE ms[n + 1].result.id \in CallsOf(U[n])
      BY DEF ResultIds
    <3>1. PICK j \in 1..((n + 1) - 1) : ms[n + 1].result.id \in Range(ms[j].calls)
      BY <2>4 DEF Paired
    <3> QED BY <2>1, <2>3, <3>1
  <2>6. ResultIds(ms[n + 1]) \cap Named(U[n]) = {}
    <3> SUFFICES ASSUME NEW id \in ResultIds(ms[n + 1]), id \in Named(U[n]) PROVE FALSE
      OBVIOUS
    <3>1. HasResult(ms[n + 1]) /\ id = ms[n + 1].result.id
      BY DEF ResultIds
    <3>2. PICK i \in 1..n : HasResult(ms[i]) /\ id = ms[i].result.id
      BY <2>3 DEF ResultIds
    <3>3. i \in DOMAIN ms /\ n + 1 \in DOMAIN ms /\ i # n + 1
      BY <1>3, <2>1, <2>4
    <3> QED BY <3>1, <3>2, <3>3 DEF Paired
  <2>7. /\ Tidy(U[n + 1]) /\ CallsOf(U[n + 1]) = CallsOf(U[n]) \cup Range(ms[n + 1].calls)
        /\ Named(U[n + 1]) = Named(U[n]) \cup ResultIds(ms[n + 1])
    BY <2>2, <2>3, <2>4, <2>5, <2>6, PushedTidy
  <2> HIDE DEF S
  <2>8. CallsOf(U[n + 1]) = UNION {Range(ms[i].calls) : i \in 1..(n + 1)}
    BY <2>1, <2>3, <2>7
  <2>9. Named(U[n + 1]) = UNION {ResultIds(ms[i]) : i \in 1..(n + 1)}
    BY <2>1, <2>3, <2>7
  <2> QED BY <2>7, <2>8, <2>9
<1>7. Nat \subseteq S
  <2> HIDE DEF S
  <2> QED BY <1>5, <1>6, SetInduction
<1>8. /\ Tidy(U[top]) /\ CallsOf(U[top]) = UNION {Range(ms[i].calls) : i \in 1..top}
      /\ Named(U[top]) = UNION {ResultIds(ms[i]) : i \in 1..top}
  <2>1. top \in S
    <3> HIDE DEF S
    <3> QED BY <1>3, <1>7
  <2>2. top \in Nat /\ top <= top
    BY <1>3
  <2> QED BY <2>1, <2>2
<1> QED BY <1>2, <1>8 DEF top

LEMMA InjectTidy ==
    ASSUME NEW h, Tidy(h), NEW sys \in Seq(Token)
    PROVE  /\ Tidy(inject_system_prompt(h, sys))
           /\ CallsOf(inject_system_prompt(h, sys)) = CallsOf(h) /\ Named(inject_system_prompt(h, sys)) = Named(h)
<1> DEFINE users == {i \in DOMAIN h : IsUser(h[i])}
           first == CHOOSE i \in users : \A j \in users : i <= j
           it == Plain("user", sys)
           own == <<it>>
           put == [h EXCEPT ![first].text = sys \o @]
           g == inject_system_prompt(h, sys)
<1>1. h \in Seq(Items) /\ DOMAIN h = 1..Len(h) /\ Len(h) \in Nat
  BY DEF Tidy
<1>2. g \in Seq(Items)
  BY <1>1, InjectSays
<1>3. CASE sys = <<>>
  <2>1. g = h
    BY <1>3 DEF inject_system_prompt
  <2> QED BY <2>1
<1>4. CASE sys # <<>> /\ users = {}
  <2>1. g = own \o h
    BY <1>4 DEF inject_system_prompt
  <2>2. it \in Items /\ it.calls = <<>> /\ it.answers = <<>>
    <3>1. <<>> \in Seq(Ids) /\ <<>> \in Seq(Given) /\ "user" \in Forms
      BY DEF Forms
    <3>2. it \in Items
      BY <3>1, ItemSays
    <3> QED BY <3>2 DEF Plain, Item
  <2> HIDE DEF it, g
  <2>3. own \in Seq(Items) /\ Len(own) = 1 /\ \A i \in DOMAIN own : own[i] = it
    BY <2>2
  <2> HIDE DEF own
  <2>4. Follows(own) /\ Once(own) /\ CallsOf(own) = {} /\ Named(own) = {}
    <3>1. NamedBy(it) = {} /\ Range(it.calls) = {} /\ DOMAIN it.answers = {}
      BY <2>2 DEF NamedBy, Range
    <3>2. Tokens(own) = {it}
      BY <2>3 DEF Tokens
    <3> QED BY <2>3, <3>1, <3>2 DEF Follows, Once, CallsOf, Named
  <2>5. Follows(own \o h) /\ Once(own \o h) /\ CallsOf(own \o h) = CallsOf(h) /\ Named(own \o h) = Named(h)
    <3>1. own \in Seq(Items) /\ h \in Seq(Items) /\ Follows(h) /\ Once(h) /\ Named(own) \cap Named(h) = {}
      BY <1>1, <2>3, <2>4 DEF Tidy
    <3>2. Follows(own \o h) /\ Once(own \o h)
      BY <2>4, <3>1, CatFollows, CatOnce
    <3>3. CallsOf(own \o h) = CallsOf(own) \cup CallsOf(h) /\ Named(own \o h) = Named(own) \cup Named(h)
      BY <3>1, CatNames
    <3> QED BY <2>4, <3>2, <3>3
  <2>6. Len(own \o h) = 1 + Len(h) /\ \A i \in 2..(1 + Len(h)) : i - 1 \in 1..Len(h) /\ (own \o h)[i] = h[i - 1]
    <3>1. own \in Seq(Items) /\ h \in Seq(Items)
      BY <1>1, <2>3
    <3>2. /\ Len(own \o h) = Len(own) + Len(h)
          /\ \A i \in 1..(Len(own) + Len(h)) : i > Len(own) => i - Len(own) \in 1..Len(h) /\ (own \o h)[i] = h[i - Len(own)]
      BY <3>1, CatAt
    <3> DEFINE all == own \o h
    <3>3. /\ Len(all) = 1 + Len(h)
          /\ \A i \in 1..(1 + Len(h)) : i > 1 => i - 1 \in 1..Len(h) /\ all[i] = h[i - 1]
      BY <2>3, <3>2
    <3> HIDE DEF all
    <3>4. \A i \in 2..(1 + Len(h)) : i \in 1..(1 + Len(h)) /\ i > 1
      BY <1>1
    <3>5. Len(all) = 1 + Len(h) /\ \A i \in 2..(1 + Len(h)) : i - 1 \in 1..Len(h) /\ all[i] = h[i - 1]
      BY <3>3, <3>4
    <3> QED BY <3>5 DEF all
  <2>7. \A i \in 2..Len(own \o h) : ~IsUser((own \o h)[i])
    <3>1. \A i \in 1..Len(h) : ~IsUser(h[i])
      BY <1>1, <1>4
    <3> QED BY <2>6, <3>1
  <2> QED BY <1>2, <2>1, <2>5, <2>7 DEF Tidy, Alternates, g
<1>5. CASE sys # <<>> /\ users # {}
  <2>1. g = put
    BY <1>5 DEF inject_system_prompt
  <2>2. /\ DOMAIN put = DOMAIN h
        /\ \A i \in DOMAIN h : put[i] = IF i = first THEN [h[i] EXCEPT !.text = sys \o h[i].text] ELSE h[i]
    <3> HIDE DEF first
    <3>1. put = [i \in DOMAIN h |-> IF i = first THEN [h[i] EXCEPT !.text = sys \o h[i].text] ELSE h[i]]
      OBVIOUS
    <3> HIDE DEF put
    <3> QED BY <3>1
  <2> HIDE DEF first, put, g
  <2>3. ASSUME NEW i \in DOMAIN h
        PROVE  put[i].as = h[i].as /\ put[i].answers = h[i].answers /\ put[i].calls = h[i].calls
    <3>1. h[i] \in Items
      BY <1>1
    <3> DEFINE x == h[i]
               y == [x EXCEPT !.text = sys \o h[i].text]
    <3>2. x \in Items /\ put[i] \in {x, y}
      BY <2>2, <3>1
    <3>3. y.as = x.as /\ y.answers = x.answers /\ y.calls = x.calls
      <4> HIDE DEF x
      <4> QED BY <3>2 DEF Items
    <3> HIDE DEF y
    <3>4. CASE put[i] = x
      BY <3>4
    <3>5. CASE put[i] = y
      BY <3>3, <3>5
    <3> QED BY <3>2, <3>4, <3>5
  <2>4. put \in Seq(Items)
    BY <1>2, <2>1 DEF g
  <2>5. Tidy(put) /\ CallsOf(put) = CallsOf(h) /\ Named(put) = Named(h)
    <3>1. Tidy(put) /\ CallsOf(h) \subseteq CallsOf(put) /\ Named(put) = Named(h)
      BY <2>2, <2>3, <2>4, LikeTidy
    <3>2. CallsOf(put) \subseteq CallsOf(h)
      BY <1>1, <2>2, <2>3, <3>1, LikeTidy
    <3> QED BY <3>1, <3>2
  <2> QED BY <2>1, <2>5 DEF g
<1> QED BY <1>3, <1>4, <1>5

\* No two of the answers are to one call.
Alone(answers) == \A k, l \in DOMAIN answers : answers[k].id = answers[l].id => k = l

LEMMA FlatAlone ==
    ASSUME NEW ss \in Seq(Seq(Given)), \A i \in DOMAIN ss : \A k, l \in DOMAIN ss[i] : k = l,
           \A i, j \in DOMAIN ss : \A k \in DOMAIN ss[i], l \in DOMAIN ss[j] : ss[i][k].id = ss[j][l].id => i = j
    PROVE  Alone(Flat(ss))
<1>1. PICK f \in [0..Len(ss) -> Seq(Given)] :
            /\ f[0] = <<>> /\ \A n \in 1..Len(ss) : f[n] = f[n - 1] \o ss[n]
            /\ Flat(ss) = f[Len(ss)]
  BY FlatIs
<1>2. DOMAIN ss = 1..Len(ss) /\ Len(ss) \in Nat /\ \A i \in DOMAIN ss : ss[i] \in Seq(Given)
  OBVIOUS
<1> DEFINE P(n) == /\ Alone(f[n])
                   /\ \A k \in DOMAIN f[n] : \E i \in 1..n : \E l \in DOMAIN ss[i] : f[n][k] = ss[i][l]
           S == {n \in Nat : n <= Len(ss) => P(n)}
<1>3. 0 \in S
  <2>1. DOMAIN f[0] = {}
    BY <1>1
  <2> QED BY <2>1 DEF Alone
<1>4. ASSUME NEW n \in Nat, n \in S PROVE n + 1 \in S
  <2> SUFFICES ASSUME n + 1 <= Len(ss) PROVE P(n + 1)
    <3> HIDE DEF P
    <3> QED OBVIOUS
  <2>1. n + 1 \in 1..Len(ss) /\ n \in 0..Len(ss) /\ n <= Len(ss) /\ (n + 1) - 1 = n
    BY <1>2
  <2> DEFINE a == f[n]
             b == ss[n + 1]
             all == f[n + 1]
             m == Len(a)
  <2>2. a \in Seq(Given) /\ b \in Seq(Given) /\ all = a \o b
    <3>1. \A k \in 1..Len(ss) : \A j : j = k - 1 => f[k] = f[j] \o ss[k]
      BY <1>1
    <3> QED BY <1>1, <1>2, <2>1, <3>1
  <2>3. Alone(a) /\ \A k \in DOMAIN a : \E i \in 1..n : \E l \in DOMAIN ss[i] : a[k] = ss[i][l]
    BY <1>4, <2>1
  <2>4. \A k, l \in DOMAIN b : k = l
    BY <1>2, <2>1
  <2>5. \A i \in 1..n : \A l \in DOMAIN ss[i], k \in DOMAIN b : ss[i][l].id # b[k].id
    <3> SUFFICES ASSUME NEW i \in 1..n, NEW l \in DOMAIN ss[i], NEW k \in DOMAIN b, ss[i][l].id = b[k].id
                 PROVE  FALSE
      OBVIOUS
    <3>1. i \in DOMAIN ss /\ n + 1 \in DOMAIN ss /\ i # n + 1
      BY <1>2, <2>1
    <3> QED BY <3>1
  <2> HIDE DEF S, a, b, all, m
  <2>6. /\ DOMAIN all = 1..(m + Len(b)) /\ m \in Nat /\ Len(b) \in Nat /\ DOMAIN a = 1..m /\ DOMAIN b = 1..Len(b)
        /\ \A k \in 1..m : all[k] = a[k]
        /\ \A k \in 1..(m + Len(b)) : k > m => k - m \in 1..Len(b) /\ all[k] = b[k - m]
    BY <2>2, CatAt DEF m
  <2>7. ASSUME NEW k \in DOMAIN all
        PROVE  (k \in DOMAIN a /\ all[k] = a[k]) \/ (k - m \in DOMAIN b /\ all[k] = b[k - m])
    <3>1. CASE k <= m
      BY <2>6, <3>1
    <3>2. CASE k > m
      BY <2>6, <3>2
    <3> QED BY <2>6, <3>1, <3>2
  <2>8. ASSUME NEW k \in DOMAIN a, NEW l \in DOMAIN b PROVE a[k].id # b[l].id
    <3>1. PICK i \in 1..n : \E j \in DOMAIN ss[i] : a[k] = ss[i][j]
      BY <2>3
    <3>2. PICK j \in DOMAIN ss[i] : a[k] = ss[i][j]
      BY <3>1
    <3> QED BY <2>5, <3>2
  <2>9. ASSUME NEW k \in DOMAIN all, NEW l \in DOMAIN all, all[k].id = all[l].id PROVE k = l
    <3>1. CASE k \in DOMAIN a /\ all[k] = a[k] /\ l \in DOMAIN a /\ all[l] = a[l]
      BY <2>3, <2>9, <3>1 DEF Alone
    <3>2. CASE k - m \in DOMAIN b /\ l - m \in DOMAIN b
      <4>1. k - m = l - m
        BY <2>4, <3>2
      <4> QED BY <2>6, <4>1
    <3>3. CASE k \in DOMAIN a /\ all[k] = a[k] /\ l - m \in DOMAIN b /\ all[l] = b[l - m]
      BY <2>8, <2>9, <3>3
    <3>4. CASE k - m \in DOMAIN b /\ all[k] = b[k - m] /\ l \in DOMAIN a /\ all[l] = a[l]
      BY <2>8, <2>9, <3>4
    <3> QED BY <2>7, <3>1, <3>2, <3>3, <3>4
  <2>10. ASSUME NEW k \in DOMAIN all
         PROVE  \E i \in 1..(n + 1) : \E l \in DOMAIN ss[i] : all[k] = ss[i][l]
    <3>1. CASE k \in DOMAIN a /\ all[k] = a[k]
      <4>1. PICK i \in 1..n : \E l \in DOMAIN ss[i] : a[k] = ss[i][l]
        BY <2>3, <3>1
      <4>2. i \in 1..(n + 1)
        OBVIOUS
      <4> QED BY <3>1, <4>1, <4>2
    <3>2. CASE k - m \in DOMAIN b /\ all[k] = b[k - m]
      <4>1. n + 1 \in 1..(n + 1)
        OBVIOUS
      <4> QED BY <3>2, <4>1 DEF b
    <3> QED BY <2>7, <3>1, <3>2
  <2> QED BY <2>9, <2>10 DEF Alone, all
<1>5. Len(ss) \in S
  <2> HIDE DEF S
  <2>1. Nat \subseteq S
    BY <1>3, <1>4, SetInduction
  <2> QED BY <1>2, <2>1
<1>6. Alone(f[Len(ss)])
  BY <1>2, <1>5
<1> QED BY <1>1, <1>6

\* The trailing results are those of the messages after the last turn of the
\* assistant.
LEMMA TrailingAre ==
    ASSUME NEW ms \in Seq(Messages), ms # <<>>
    PROVE  /\ TrailingResults(ms) \in Seq(Given)
           /\ Paired(ms) => Alone(TrailingResults(ms))
           /\ Last(ms).role # "tool" => TrailingResults(ms) = <<>>
           /\ Last(ms).role = "tool" =>
                 \E start \in 1..Len(ms) :
                    /\ {r.id : r \in Tokens(TrailingResults(ms))} = UNION {ResultIds(ms[j]) : j \in start..Len(ms)}
                    /\ \A j \in DOMAIN ms : ms[j].role = "assistant" => j < start
                    /\ start = 1 \/ ms[start - 1].role = "assistant"
<1> DEFINE turns == {i \in DOMAIN ms : ms[i].role = "assistant"}
           latest == CHOOSE i \in turns : \A j \in turns : i >= j
           start == IF turns = {} THEN 1 ELSE 1 + latest
           sub == SubSeq(ms, start, Len(ms))
           ss == [i \in DOMAIN sub |-> Answers(sub[i])]
<1>1. Len(ms) \in Nat /\ Len(ms) >= 1 /\ DOMAIN ms = 1..Len(ms) /\ Last(ms) = ms[Len(ms)]
  BY DEF Last
<1>2. CASE Last(ms).role # "tool"
  <2>1. TrailingResults(ms) = <<>>
    BY <1>2 DEF TrailingResults
  <2> QED BY <1>2, <2>1 DEF Alone
<1>3. CASE Last(ms).role = "tool"
  <2>1. TrailingResults(ms) = Flat(ss)
    BY <1>3 DEF TrailingResults, Texts
  <2>2. start \in 1..Len(ms) /\ (\A j \in turns : j < start) /\ (start = 1 \/ start - 1 \in turns)
    <3>1. CASE turns = {}
      BY <1>1, <3>1
    <3>2. CASE turns # {}
      <4>1. turns \subseteq 1..Len(ms)
        BY <1>1
      <4>2. \E i \in turns : \A j \in turns : i >= j
        <5> HIDE DEF turns
        <5> QED BY <1>1, <3>2, <4>1, Greatest
      <4>3. latest \in turns /\ \A j \in turns : latest >= j
        <5> HIDE DEF turns
        <5> QED BY <4>2
      <4>4. latest \in 1..Len(ms) /\ latest # Len(ms)
        <5> HIDE DEF latest
        <5> QED BY <1>1, <1>3, <4>3
      <4>5. start = 1 + latest
        BY <3>2
      <4>6. Len(ms) \in Nat /\ \A n \in Nat : \A l \in 1..n : l # n => 1 + l \in 1..n
        BY <1>1
      <4>7. \A l, j \in Nat : l >= j => j < 1 + l /\ (1 + l) - 1 = l
        OBVIOUS
      <4>8. turns \subseteq Nat
        BY <4>1
      <4> HIDE DEF latest, start, turns
      <4> QED BY <4>3, <4>4, <4>5, <4>6, <4>7, <4>8
    <3> QED BY <3>1, <3>2
  <2> HIDE DEF start
  <2>3. /\ sub \in Seq(Messages) /\ Len(sub) \in Nat /\ DOMAIN sub = 1..Len(sub)
        /\ \A k \in DOMAIN sub : k + start - 1 \in start..Len(ms) /\ sub[k] = ms[k + start - 1]
        /\ \A j \in start..Len(ms) : j - start + 1 \in DOMAIN sub /\ sub[j - start + 1] = ms[j]
    <3>1. sub \in Seq(Messages) /\ Len(sub) = Len(ms) - start + 1 /\ DOMAIN sub = 1..(Len(ms) - start + 1)
          /\ \A k \in 1..(Len(ms) - start + 1) : sub[k] = ms[k + start - 1]
      BY <1>1, <2>2
    <3> HIDE DEF sub
    <3>2. \A k \in 1..(Len(ms) - start + 1) : k + start - 1 \in start..Len(ms)
      BY <1>1, <2>2
    <3>3. \A j \in start..Len(ms) : j - start + 1 \in 1..(Len(ms) - start + 1) /\ (j - start + 1) + start - 1 = j
      BY <1>1, <2>2
    <3>4. Len(sub) \in Nat
      BY <3>1
    <3> QED BY <3>1, <3>2, <3>3, <3>4
  <2> HIDE DEF sub
  <2>4. ss \in Seq(Seq(Given)) /\ DOMAIN ss = DOMAIN sub /\ \A k \in DOMAIN sub : ss[k] = Answers(sub[k])
    <3>1. \A k \in DOMAIN sub : Answers(sub[k]) \in Seq(Given)
      BY <2>3, MessageParts
    <3>2. ss \in [1..Len(sub) -> Seq(Given)]
      BY <2>3, <3>1
    <3> QED BY <2>3, <3>2
  <2> HIDE DEF ss
  <2>5. Flat(ss) \in Seq(Given) /\ Tokens(Flat(ss)) = UNION {Tokens(ss[k]) : k \in DOMAIN ss}
    BY <2>4, FlatHas
  <2>6. \A k \in DOMAIN sub : {r.id : r \in Tokens(ss[k])} = ResultIds(sub[k])
    <3> SUFFICES ASSUME NEW k \in DOMAIN sub PROVE {r.id : r \in Tokens(ss[k])} = ResultIds(sub[k])
      OBVIOUS
    <3>1. sub[k] \in Messages /\ ss[k] = Answers(sub[k])
      BY <2>3, <2>4
    <3>2. {Answers(sub[k])[l].id : l \in DOMAIN Answers(sub[k])} = ResultIds(sub[k])
      BY <3>1, AnswersName
    <3> QED BY <3>1, <3>2 DEF Tokens
  <2>7. \A id : id \in {r.id : r \in Tokens(Flat(ss))} <=> \E k \in DOMAIN sub : id \in {r.id : r \in Tokens(ss[k])}
    BY <2>4, <2>5
  <2>8. \A id : id \in {r.id : r \in Tokens(Flat(ss))} <=> \E k \in DOMAIN sub : id \in ResultIds(sub[k])
    BY <2>6, <2>7
  <2>9. \A id : (\E k \in DOMAIN sub : id \in ResultIds(sub[k])) <=> \E j \in start..Len(ms) : id \in ResultIds(ms[j])
    BY <2>3
  <2>10. {r.id : r \in Tokens(Flat(ss))} = UNION {ResultIds(ms[j]) : j \in start..Len(ms)}
    BY <2>8, <2>9
  <2>11. ASSUME Paired(ms) PROVE Alone(Flat(ss))
    <3>1. ASSUME NEW k \in DOMAIN ss PROVE \A p, q \in DOMAIN ss[k] : p = q
      BY <2>3, <2>4, AnswersName
    <3>2. ASSUME NEW k \in DOMAIN ss, NEW l \in DOMAIN ss, NEW p \in DOMAIN ss[k], NEW q \in DOMAIN ss[l],
                 ss[k][p].id = ss[l][q].id
          PROVE  k = l
      <4>1. ss[k][p].id \in ResultIds(sub[k]) /\ ss[l][q].id \in ResultIds(sub[l])
        BY <2>4, <2>6 DEF Tokens
      <4>2. /\ HasResult(sub[k]) /\ HasResult(sub[l]) /\ sub[k].result.id = sub[l].result.id
            /\ k \in DOMAIN sub /\ l \in DOMAIN sub
        BY <2>4, <3>2, <4>1 DEF ResultIds
      <4>3. /\ sub[k] = ms[k + start - 1] /\ sub[l] = ms[l + start - 1]
            /\ k + start - 1 \in start..Len(ms) /\ l + start - 1 \in start..Len(ms)
        BY <2>3, <4>2
      <4>4. k + start - 1 \in DOMAIN ms /\ l + start - 1 \in DOMAIN ms
        BY <1>1, <2>2, <4>3
      <4>5. k + start - 1 = l + start - 1
        BY <2>11, <4>2, <4>3, <4>4 DEF Paired
      <4> QED BY <1>1, <2>2, <2>3, <4>2, <4>5
    <3> QED BY <2>4, <3>1, <3>2, FlatAlone
  <2> QED BY <1>3, <2>1, <2>2, <2>5, <2>10, <2>11
<1> QED BY <1>2, <1>3

\* After a round of tools that is all of its results, and nothing else.
LEMMA TrailingAll ==
    ASSUME NEW ms \in Seq(Messages), ms # <<>>, Paired(ms), NEW i \in DOMAIN ms,
           Last(ms).role = "tool", Last(ms).result.id \in Range(ms[i].calls)
    PROVE  {r.id : r \in Tokens(TrailingResults(ms))} = Range(ms[i].calls)
<1>1. PICK start \in 1..Len(ms) :
         /\ {r.id : r \in Tokens(TrailingResults(ms))} = UNION {ResultIds(ms[j]) : j \in start..Len(ms)}
         /\ \A j \in DOMAIN ms : ms[j].role = "assistant" => j < start
         /\ start = 1 \/ ms[start - 1].role = "assistant"
  BY TrailingAre
<1>2. Len(ms) \in Nat /\ DOMAIN ms = 1..Len(ms) /\ \A j \in DOMAIN ms : ms[j] \in Messages
  OBVIOUS
<1>3. /\ \A j \in (i + 1)..Len(ms) : ms[j].role = "tool"
      /\ {ms[j].result.id : j \in (i + 1)..Len(ms)} = Range(ms[i].calls)
  BY DEF Paired
<1>4. ms[i].calls # <<>> /\ ms[i].calls \in Seq(Ids)
  BY <1>2, MessageFields DEF Range
<1>5. ms[i].role = "assistant"
  BY <1>2, <1>4, MessageFields
<1>6. start = i + 1
  <2>1. i < start
    BY <1>1, <1>5
  <2>2. start # 1 /\ start - 1 \in DOMAIN ms
    BY <1>2, <2>1
  <2>3. ms[start - 1].role # "tool"
    BY <1>1, <2>2
  <2>4. start - 1 \notin (i + 1)..Len(ms)
    BY <1>3, <2>3
  <2> QED BY <1>2, <2>1, <2>4
<1>7. \A j \in (i + 1)..Len(ms) : ResultIds(ms[j]) = {ms[j].result.id}
  <2> SUFFICES ASSUME NEW j \in (i + 1)..Len(ms) PROVE HasResult(ms[j])
    BY DEF ResultIds
  <2>1. ms[j].result.id \in Range(ms[i].calls)
    BY <1>3
  <2>2. ms[j].result.id \in Ids
    <3>1. \A k \in DOMAIN ms[i].calls : ms[i].calls[k] \in Ids
      BY <1>4
    <3> QED BY <2>1, <3>1 DEF Range
  <2> QED BY <2>2, ResultFacts DEF HasResult, Ids
<1>8. UNION {ResultIds(ms[j]) : j \in (i + 1)..Len(ms)} = {ms[j].result.id : j \in (i + 1)..Len(ms)}
  <2> DEFINE places == (i + 1)..Len(ms)
             ids(j) == ResultIds(ms[j])
             id(j) == ms[j].result.id
  <2>1. \A j \in places : ids(j) = {id(j)}
    BY <1>7
  <2> HIDE DEF places, ids, id
  <2>2. UNION {ids(j) : j \in places} = {id(j) : j \in places}
    <3>1. \A x : (\E j \in places : x \in ids(j)) <=> \E j \in places : x = id(j)
      BY <2>1
    <3> QED BY <3>1
  <2> QED BY <2>2 DEF places, ids, id
<1> QED BY <1>1, <1>3, <1>6, <1>8

LEMMA KiroPairs ==
    ASSUME NEW ms \in Seq(Messages), ms # <<>>, \A i \in DOMAIN ms : validate(ms[i]), Paired(ms),
           NEW sys \in Seq(Token), NEW w, w = KiroRequest(ms, sys)
    PROVE  /\ w \in Seq(Items) /\ w # <<>> /\ Follows(w)
           /\ \A i \in 2..(Len(w) - 1) : IsUser(w[i]) => ~IsUser(w[i - 1])
           /\ Last(w).answers = TrailingResults(ms)
           /\ CallsOf(w) = UNION {Range(ms[i].calls) : i \in 1..(Len(ms) - 1)}
           /\ \E g, cur : /\ w = Append(g, cur) /\ g \in Seq(Items) /\ cur \in Items /\ Once(g)
                          /\ Named(g) = UNION {ResultIds(ms[i]) : i \in 1..(Len(ms) - 1)}
                          /\ cur.answers = TrailingResults(ms)
<1> DEFINE h == inject_system_prompt(build_history(ms), sys)
           none == <<>>
           it == Item("user", Last(ms).text, none, TrailingResults(ms))
<1>1. w = Append(h, it)
  BY DEF KiroRequest
<1>2. Len(ms) \in Nat /\ Last(ms) \in Messages /\ DOMAIN ms = 1..Len(ms)
  BY DEF Last
<1>3. /\ Tidy(h) /\ CallsOf(h) = UNION {Range(ms[i].calls) : i \in 1..(Len(ms) - 1)}
      /\ Named(h) = UNION {ResultIds(ms[i]) : i \in 1..(Len(ms) - 1)}
  <2>1. Tidy(build_history(ms))
    BY HistoryTidy
  <2>2. /\ CallsOf(build_history(ms)) = UNION {Range(ms[i].calls) : i \in 1..(Len(ms) - 1)}
        /\ Named(build_history(ms)) = UNION {ResultIds(ms[i]) : i \in 1..(Len(ms) - 1)}
    BY HistoryTidy
  <2>3. /\ Tidy(h) /\ CallsOf(h) = CallsOf(build_history(ms)) /\ Named(h) = Named(build_history(ms))
    BY <2>1, InjectTidy
  <2> QED BY <2>2, <2>3
<1>4. /\ it = Item("user", Last(ms).text, none, TrailingResults(ms)) /\ it.answers = TrailingResults(ms)
      /\ Range(it.calls) = {}
  BY DEF Item, Range
<1>5. "user" \in Forms /\ Last(ms).text \in Seq(Token) /\ none \in Seq(Ids) /\ TrailingResults(ms) \in Seq(Given)
  BY <1>2, MessageParts, TrailingAre DEF Forms
<1> HIDE DEF h, it, none
<1>6. it \in Items
  BY <1>4, <1>5, ItemSays
<1>7. NamedBy(it) \subseteq CallsOf(h)
  <2> SUFFICES ASSUME NEW id \in NamedBy(it) PROVE id \in CallsOf(h)
    OBVIOUS
  <2>1. id \in {r.id : r \in Tokens(TrailingResults(ms))}
    BY <1>4 DEF NamedBy, Tokens
  <2>2. Last(ms).role = "tool"
    BY <2>1, TrailingAre DEF Tokens
  <2>3. PICK start \in 1..Len(ms) :
           {r.id : r \in Tokens(TrailingResults(ms))} = UNION {ResultIds(ms[j]) : j \in start..Len(ms)}
    BY <2>2, TrailingAre
  <2>4. PICK i \in start..Len(ms) : id \in ResultIds(ms[i])
    BY <2>1, <2>3
  <2>5. i \in DOMAIN ms /\ HasResult(ms[i]) /\ id = ms[i].result.id
    BY <1>2, <2>3, <2>4 DEF ResultIds
  <2>6. PICK j \in 1..(i - 1) : id \in Range(ms[j].calls)
    BY <2>5 DEF Paired
  <2>7. j \in 1..(Len(ms) - 1)
    BY <1>2, <2>5
  <2> QED BY <1>3, <2>6, <2>7
<1>8. /\ w \in Seq(Items) /\ Follows(w)
      /\ \A i \in 2..Len(h) : IsUser(w[i]) => ~IsUser(w[i - 1])
      /\ CallsOf(w) = CallsOf(h) \cup Range(it.calls)
  <2>1. Tidy(h)
    BY <1>3
  <2>2. Append(h, it) \in Seq(Items) /\ Follows(Append(h, it)) /\ CallsOf(Append(h, it)) = CallsOf(h) \cup Range(it.calls)
    BY <1>6, <1>7, <2>1, AppendTidy
  <2>3. \A i \in 2..Len(h) : IsUser(Append(h, it)[i]) => ~IsUser(Append(h, it)[i - 1])
    BY <1>6, <1>7, <2>1, AppendTidy
  <2> QED BY <1>1, <2>2, <2>3
<1>9. h \in Seq(Items) /\ Once(h)
  BY <1>3 DEF Tidy
<1>10. w # <<>> /\ Len(w) - 1 = Len(h) /\ Last(w) = it
  BY <1>1, <1>6, <1>9 DEF Last
<1>11. CallsOf(w) = UNION {Range(ms[i].calls) : i \in 1..(Len(ms) - 1)}
  BY <1>3, <1>4, <1>8
<1>12. \E g, cur : /\ w = Append(g, cur) /\ g \in Seq(Items) /\ cur \in Items /\ Once(g)
                   /\ Named(g) = UNION {ResultIds(ms[i]) : i \in 1..(Len(ms) - 1)}
                   /\ cur.answers = TrailingResults(ms)
  <2> WITNESS h, it
  <2> QED BY <1>1, <1>3, <1>4, <1>6, <1>9
<1> QED BY <1>4, <1>8, <1>10, <1>11, <1>12

\* What the order and the number of answers come to, in WellFormed's words.
LEMMA PairedWire ==
    ASSUME NEW w \in Seq(Items), seen = w
    PROVE  /\ Follows(w) => \A x \in AnswersIn(seen) : seen[x[1]].answers[x[2]].id \in CallsBefore(x[1])
           /\ CallsBefore(Len(seen) + 1) = CallsOf(w)
           /\ Once(w) => \A id \in Named(w) : Cardinality(AnswersTo(id)) = 1
<1>1. \A x \in AnswersIn(seen) : x[1] \in DOMAIN w /\ x[2] \in DOMAIN w[x[1]].answers /\ x = <<x[1], x[2]>>
  BY DEF AnswersIn
<1>2. \A i \in DOMAIN w : \A k \in DOMAIN w[i].answers : <<i, k>> \in AnswersIn(seen)
  BY DEF AnswersIn
<1>3. ASSUME Follows(w), NEW x \in AnswersIn(seen) PROVE seen[x[1]].answers[x[2]].id \in CallsBefore(x[1])
  <2>1. w[x[1]].answers[x[2]].id \in NamedBy(w[x[1]])
    BY <1>1, <1>3 DEF NamedBy
  <2>2. PICK j \in 1..(x[1] - 1) : w[x[1]].answers[x[2]].id \in Range(w[j].calls)
    BY <1>1, <1>3, <2>1 DEF Follows
  <2> QED BY <2>2 DEF CallsBefore
<1>4. CallsBefore(Len(seen) + 1) = CallsOf(w)
  <2>1. (Len(w) + 1) - 1 = Len(w) /\ DOMAIN w = 1..Len(w)
    OBVIOUS
  <2>2. CallsBefore(Len(seen) + 1) = UNION {Range(w[j].calls) : j \in DOMAIN w}
    BY <2>1 DEF CallsBefore
  <2>3. CallsOf(w) = UNION {Range(w[j].calls) : j \in DOMAIN w}
    BY DEF CallsOf, Tokens
  <2> QED BY <2>2, <2>3
<1>5. ASSUME Once(w), NEW id \in Named(w) PROVE Cardinality(AnswersTo(id)) = 1
  <2>1. PICK i \in DOMAIN w : \E k \in DOMAIN w[i].answers : w[i].answers[k].id = id
    BY <1>5 DEF Named, NamedBy, Tokens
  <2>2. PICK k \in DOMAIN w[i].answers : w[i].answers[k].id = id
    BY <2>1
  <2>3. <<i, k>> \in AnswersTo(id)
    BY <1>2, <2>2 DEF AnswersTo
  <2>4. ASSUME NEW x \in AnswersTo(id) PROVE x = <<i, k>>
    <3>1. x \in AnswersIn(seen) /\ w[x[1]].answers[x[2]].id = id
      BY <2>4 DEF AnswersTo
    <3>2. x[1] \in DOMAIN w /\ x[2] \in DOMAIN w[x[1]].answers /\ x = <<x[1], x[2]>>
      BY <1>1, <3>1
    <3>3. x[1] = i /\ x[2] = k
      BY <1>5, <2>2, <3>1, <3>2 DEF Once
    <3> QED BY <3>2, <3>3
  <2>5. AnswersTo(id) = {<<i, k>>}
    BY <2>3, <2>4
  <2> QED BY <2>5, FS_Singleton
<1> QED BY <1>3, <1>4, <1>5

\* How often a call is answered by a history and a current message.
LEMMA AnsweredBy ==
    ASSUME NEW h \in Seq(Items), Once(h), NEW it \in Items, Alone(it.answers), seen = Append(h, it), NEW id
    PROVE  /\ id \in Named(h) /\ id \in NamedBy(it) => Cardinality(AnswersTo(id)) = 2
           /\ id \in Named(h) /\ id \notin NamedBy(it) => Cardinality(AnswersTo(id)) = 1
           /\ id \notin Named(h) /\ id \in NamedBy(it) => Cardinality(AnswersTo(id)) = 1
<1> DEFINE n == Len(h)
           old == {x \in AnswersTo(id) : x[1] # n + 1}
           now == {x \in AnswersTo(id) : x[1] = n + 1}
<1>1. /\ n \in Nat /\ DOMAIN h = 1..n /\ DOMAIN seen = 1..(n + 1) /\ seen[n + 1] = it
      /\ n + 1 \in 1..(n + 1) /\ \A i \in 1..n : seen[i] = h[i] /\ i # n + 1 /\ i \in 1..(n + 1)
      /\ \A i \in 1..(n + 1) : i # n + 1 => i \in 1..n
  OBVIOUS
<1> HIDE DEF n
<1>2. \A x : x \in AnswersTo(id) <=> \E i \in DOMAIN seen : \E k \in DOMAIN seen[i].answers :
                                    x = <<i, k>> /\ seen[i].answers[k].id = id
  BY DEF AnswersTo, AnswersIn
<1>3. AnswersTo(id) = old \cup now /\ old \cap now = {}
  OBVIOUS
<1>4. ASSUME NEW x \in AnswersTo(id)
      PROVE  \E i \in 1..(n + 1) : \E k \in DOMAIN seen[i].answers :
                x = <<i, k>> /\ x[1] = i /\ seen[i].answers[k].id = id
  BY <1>1, <1>2
<1>5. id \in Named(h) => \E x : old = {x}
  <2> SUFFICES ASSUME id \in Named(h) PROVE \E x : old = {x}
    OBVIOUS
  <2>1. PICK i \in 1..n : \E k \in DOMAIN h[i].answers : h[i].answers[k].id = id
    BY <1>1 DEF Named, NamedBy, Tokens
  <2>2. PICK k \in DOMAIN h[i].answers : h[i].answers[k].id = id
    BY <2>1
  <2>3. <<i, k>> \in old
    BY <1>1, <1>2, <2>2
  <2>4. ASSUME NEW x \in old PROVE x = <<i, k>>
    <3>1. PICK j \in 1..(n + 1) : \E l \in DOMAIN seen[j].answers :
             x = <<j, l>> /\ x[1] = j /\ seen[j].answers[l].id = id
      BY <1>4
    <3>2. PICK l \in DOMAIN seen[j].answers : x = <<j, l>> /\ x[1] = j /\ seen[j].answers[l].id = id
      BY <3>1
    <3>3. j \in 1..n /\ seen[j] = h[j]
      BY <1>1, <3>2
    <3>4. /\ i \in DOMAIN h /\ j \in DOMAIN h /\ k \in DOMAIN h[i].answers /\ l \in DOMAIN h[j].answers
          /\ h[i].answers[k].id = h[j].answers[l].id
      BY <1>1, <2>2, <3>2, <3>3
    <3>5. j = i /\ l = k
      BY <3>4 DEF Once
    <3> QED BY <3>2, <3>5
  <2>5. old = {<<i, k>>}
    <3> HIDE DEF old
    <3> QED BY <2>3, <2>4
  <2> QED BY <2>5
<1>6. id \notin Named(h) => old = {}
  <2> SUFFICES ASSUME NEW x \in old PROVE id \in Named(h)
    OBVIOUS
  <2>1. PICK j \in 1..(n + 1) : \E l \in DOMAIN seen[j].answers :
           x = <<j, l>> /\ x[1] = j /\ seen[j].answers[l].id = id
    BY <1>4
  <2>2. j \in 1..n /\ seen[j] = h[j] /\ id \in NamedBy(h[j])
    BY <1>1, <2>1 DEF NamedBy
  <2> QED BY <1>1, <2>2, NamesAt
<1>7. id \in NamedBy(it) => \E x : now = {x}
  <2> SUFFICES ASSUME id \in NamedBy(it) PROVE \E x : now = {x}
    OBVIOUS
  <2>1. PICK k \in DOMAIN it.answers : it.answers[k].id = id
    BY DEF NamedBy
  <2>2. <<n + 1, k>> \in now
    BY <1>1, <1>2, <2>1
  <2>3. ASSUME NEW x \in now PROVE x = <<n + 1, k>>
    <3>1. PICK j \in 1..(n + 1) : \E l \in DOMAIN seen[j].answers :
             x = <<j, l>> /\ x[1] = j /\ seen[j].answers[l].id = id
      BY <1>4
    <3>2. PICK l \in DOMAIN seen[j].answers : x = <<j, l>> /\ x[1] = j /\ seen[j].answers[l].id = id
      BY <3>1
    <3>3. j = n + 1 /\ seen[j] = it
      BY <1>1, <3>2
    <3>4. l = k
      BY <2>1, <3>2, <3>3 DEF Alone
    <3> QED BY <3>2, <3>3, <3>4
  <2>4. now = {<<n + 1, k>>}
    <3> HIDE DEF now
    <3> QED BY <2>2, <2>3
  <2> QED BY <2>4
<1>8. id \notin NamedBy(it) => now = {}
  <2> SUFFICES ASSUME NEW x \in now PROVE id \in NamedBy(it)
    OBVIOUS
  <2>1. PICK j \in 1..(n + 1) : \E l \in DOMAIN seen[j].answers :
           x = <<j, l>> /\ x[1] = j /\ seen[j].answers[l].id = id
    BY <1>4
  <2> QED BY <1>1, <2>1 DEF NamedBy
<1> HIDE DEF old, now
<1>9. \A x, y : x # y => Cardinality({x} \cup {y}) = 2
  <2> SUFFICES ASSUME NEW x, NEW y, x # y PROVE Cardinality({x} \cup {y}) = 2
    OBVIOUS
  <2> DEFINE S == {x}
  <2>1. IsFiniteSet(S) /\ Cardinality(S) = 1 /\ y \notin S
    BY FS_Singleton
  <2> HIDE DEF S
  <2>2. \A z : Cardinality(S \cup {z}) = IF z \in S THEN Cardinality(S) ELSE Cardinality(S) + 1
    BY <2>1, FS_AddElement
  <2>3. Cardinality(S \cup {y}) = 2
    BY <2>1, <2>2
  <2> QED BY <2>3 DEF S
<1>10. ASSUME id \in Named(h), id \in NamedBy(it) PROVE Cardinality(AnswersTo(id)) = 2
  <2>1. PICK x : old = {x}
    BY <1>5, <1>10
  <2>2. PICK y : now = {y}
    BY <1>7, <1>10
  <2>3. x # y
    BY <1>3, <2>1, <2>2
  <2> QED BY <1>3, <1>9, <2>1, <2>2, <2>3
<1>11. ASSUME id \in Named(h), id \notin NamedBy(it) PROVE Cardinality(AnswersTo(id)) = 1
  BY <1>3, <1>5, <1>8, <1>11, FS_Singleton
<1>12. ASSUME id \notin Named(h), id \in NamedBy(it) PROVE Cardinality(AnswersTo(id)) = 1
  BY <1>3, <1>6, <1>7, <1>12, FS_Singleton
<1> QED BY <1>10, <1>11, <1>12

\* .. and so how often in a request of kiro's.
LEMMA KiroAnswers ==
    ASSUME messages \in Seq(Messages), messages # <<>>, Paired(messages), adapter = "kiro",
           NEW h \in Seq(Items), NEW it \in Items, seen = Append(h, it), Once(h),
           Named(h) = UNION {ResultIds(messages[i]) : i \in 1..(Len(messages) - 1)},
           it.answers = TrailingResults(messages),
           NEW c \in DOMAIN messages, NEW id \in Range(messages[c].calls)
    PROVE  Cardinality(AnswersTo(id)) = IF SentTwice(id) THEN 2 ELSE 1
<1> DEFINE top == Len(messages)
<1>1. top \in Nat /\ top >= 1 /\ DOMAIN messages = 1..top /\ Last(messages) = messages[top] /\ top \in 1..top
      /\ \A i \in 1..top : messages[i] \in Messages
  BY DEF Last
<1>2. id \in Ids /\ id # NoResult.id
  <2>1. messages[c].calls \in Seq(Ids)
    BY <1>1, MessageFields
  <2>2. id \in Ids
    BY <2>1 DEF Range
  <2> QED BY <2>2, ResultFacts DEF Ids
<1> HIDE DEF top
<1>3. PICK j \in 1..top : HasResult(messages[j]) /\ messages[j].result.id = id
  BY <1>1 DEF Paired
<1>4. \A i \in 1..top : messages[i].result.id = id => i = j
  BY <1>1, <1>2, <1>3 DEF Paired, HasResult
<1>5. \A i \in 1..top : id \in ResultIds(messages[i]) <=> i = j
  BY <1>1, <1>3, <1>4 DEF ResultIds
<1>6. id \in Named(h) <=> j # top
  <2>1. id \in Named(h) <=> \E i \in 1..(top - 1) : id \in ResultIds(messages[i])
    BY DEF top
  <2> QED BY <1>1, <1>5, <2>1
<1>7. SentTwice(id) <=> /\ Last(messages).role = "tool" /\ j # top
                        /\ \A i \in j..top : messages[i].role # "assistant"
  <2>1. SentTwice(id) <=> /\ Last(messages).role = "tool"
                          /\ \E i \in 1..(top - 1) :
                                messages[i].result.id = id /\ \A l \in i..top : messages[l].role # "assistant"
    BY DEF SentTwice, top
  <2>2. j # top => j \in 1..(top - 1)
    BY <1>1
  <2>3. \A i \in 1..(top - 1) : i \in 1..top /\ i # top
    BY <1>1
  <2> QED BY <1>3, <1>4, <2>1, <2>2, <2>3
<1>8. Alone(it.answers) /\ NamedBy(it) = {r.id : r \in Tokens(TrailingResults(messages))}
  BY TrailingAre DEF NamedBy, Tokens
<1>9. CASE Last(messages).role # "tool"
  <2>1. TrailingResults(messages) = <<>>
    BY <1>9, TrailingAre
  <2>2. id \notin NamedBy(it)
    BY <1>8, <2>1 DEF Tokens
  <2>3. messages[top].result = NoResult
    BY <1>1, <1>9, RoleParts
  <2>4. j # top
    BY <1>3, <2>3 DEF HasResult
  <2> QED BY <1>6, <1>7, <1>8, <1>9, <2>2, <2>4, AnsweredBy
<1>10. CASE Last(messages).role = "tool"
  <2>1. PICK start \in 1..top :
           /\ NamedBy(it) = UNION {ResultIds(messages[i]) : i \in start..top}
           /\ \A i \in DOMAIN messages : messages[i].role = "assistant" => i < start
           /\ start = 1 \/ messages[start - 1].role = "assistant"
    BY <1>8, <1>10, TrailingAre DEF top
  <2>2. id \in NamedBy(it) <=> j >= start
    <3>1. id \in NamedBy(it) <=> \E i \in start..top : id \in ResultIds(messages[i])
      BY <2>1
    <3> QED BY <1>1, <1>5, <2>1, <3>1
  <2>3. (\A i \in j..top : messages[i].role # "assistant") <=> j >= start
    <3>1. ASSUME j >= start, NEW i \in j..top PROVE messages[i].role # "assistant"
      BY <1>1, <2>1, <3>1
    <3>2. ASSUME ~(j >= start) PROVE \E i \in j..top : messages[i].role = "assistant"
      <4>1. start - 1 \in j..top /\ start # 1
        BY <1>1, <3>2
      <4> QED BY <2>1, <4>1
    <3> QED BY <3>1, <3>2
  <2>4. j = top => j >= start
    BY <1>1
  <2> QED BY <1>6, <1>7, <1>8, <1>10, <2>2, <2>3, <2>4, AnsweredBy
<1> QED BY <1>9, <1>10

\* The build functions of gravity-providers, called with the transcripts of
\* run_afc and run_json_emulated: for every number of rounds and of calls, if
\* the messages a caller passes pair results with calls, what any adapter that
\* names them by id sends has each call answered after it was made, and once,
\* but for the results kiro sends twice: those of the last round whose message
\* is not the last. Kiro's history alternates, with all results of a round in
\* the current message.
THEOREM TurnPairsCalls ==
    ASSUME \A ms \in BaseChats : Paired(ms)
    PROVE  Spec => []WellFormed
<1>1. IInv /\ PInv => WellFormed
  <2> SUFFICES ASSUME IInv, PInv, pc = "answer", adapter \in ById
               PROVE  /\ \A x \in AnswersIn(seen) : seen[x[1]].answers[x[2]].id \in CallsBefore(x[1])
                      /\ \A id \in CallsBefore(Len(seen) + 1) :
                            Cardinality(AnswersTo(id)) = IF SentTwice(id) THEN 2 ELSE 1
                      /\ adapter = "kiro" =>
                            /\ \A i \in 2..(Len(seen) - 1) : IsUser(seen[i]) => ~IsUser(seen[i - 1])
                            /\ \A m \in Range(messages) :
                                  Last(messages).role = "tool" /\ Last(messages).result.id \in Range(m.calls) =>
                                     {a.id : a \in Range(Last(seen).answers)} = Range(m.calls)
    BY DEF WellFormed
  <2>1. /\ seen = WireOf(adapter, messages, request.sys) /\ messages \in Seq(Messages) /\ messages # <<>>
        /\ request.sys \in Seq(Token) /\ \A i \in DOMAIN messages : validate(messages[i])
    BY DEF IInv, Typed, Settled, Shown, Asking
  <2>2. Paired(messages)
    BY <2>1 DEF PInv
  <2>3. CASE adapter # "kiro"
    <3>1. Pairs(seen, messages, Len(messages))
      BY <2>1, <2>2, <2>3, ByIdPairs
    <3>2. seen \in Seq(Items) /\ Follows(seen) /\ Once(seen)
      BY <3>1 DEF Pairs
    <3>3. CallsOf(seen) \subseteq Named(seen)
      <4>1. DOMAIN messages = 1..Len(messages)
        BY <2>1
      <4>2. \A i \in DOMAIN messages : \A id \in Range(messages[i].calls) :
               \E j \in DOMAIN messages : id \in ResultIds(messages[j])
        BY <2>2 DEF Paired, ResultIds
      <4> QED BY <3>1, <4>1, <4>2 DEF Pairs
    <3>4. \A id : ~SentTwice(id)
      BY <2>3 DEF SentTwice
    <3>5. /\ \A x \in AnswersIn(seen) : seen[x[1]].answers[x[2]].id \in CallsBefore(x[1])
          /\ \A id \in CallsBefore(Len(seen) + 1) : Cardinality(AnswersTo(id)) = 1
      BY <3>2, <3>3, PairedWire
    <3> QED BY <2>3, <3>4, <3>5
  <2>4. CASE adapter = "kiro"
    <3>1. seen = KiroRequest(messages, request.sys)
      BY <2>1, <2>4 DEF WireOf
    <3>2. /\ seen \in Seq(Items) /\ Follows(seen)
          /\ \A i \in 2..(Len(seen) - 1) : IsUser(seen[i]) => ~IsUser(seen[i - 1])
          /\ Last(seen).answers = TrailingResults(messages)
          /\ CallsOf(seen) = UNION {Range(messages[i].calls) : i \in 1..(Len(messages) - 1)}
      BY <2>1, <2>2, <3>1, KiroPairs
    <3>3. ASSUME NEW m \in Range(messages), Last(messages).role = "tool", Last(messages).result.id \in Range(m.calls)
          PROVE  {a.id : a \in Range(Last(seen).answers)} = Range(m.calls)
      <4>1. PICK i \in DOMAIN messages : m = messages[i]
        BY DEF Range
      <4>2. {r.id : r \in Tokens(TrailingResults(messages))} = Range(m.calls)
        BY <2>1, <2>2, <3>3, <4>1, TrailingAll
      <4> QED BY <3>2, <4>2, RangeIs
    <3>4. PICK h, it : /\ seen = Append(h, it) /\ h \in Seq(Items) /\ it \in Items /\ Once(h)
                       /\ Named(h) = UNION {ResultIds(messages[i]) : i \in 1..(Len(messages) - 1)}
                       /\ it.answers = TrailingResults(messages)
      BY <2>1, <2>2, <3>1, KiroPairs
    <3>5. /\ \A x \in AnswersIn(seen) : seen[x[1]].answers[x[2]].id \in CallsBefore(x[1])
          /\ CallsBefore(Len(seen) + 1) = CallsOf(seen)
      BY <3>2, PairedWire
    <3>6. ASSUME NEW id \in CallsBefore(Len(seen) + 1)
          PROVE  Cardinality(AnswersTo(id)) = IF SentTwice(id) THEN 2 ELSE 1
      <4>1. PICK c \in 1..(Len(messages) - 1) : id \in Range(messages[c].calls)
        BY <3>2, <3>5
      <4>2. c \in DOMAIN messages
        BY <2>1
      <4> QED BY <2>1, <2>2, <2>4, <3>4, <4>1, <4>2, KiroAnswers
    <3> QED BY <3>2, <3>3, <3>5, <3>6
  <2> QED BY <2>3, <2>4
<1> QED BY <1>1, SpecIInv, SpecPInv, PTL
-----------------------------------------------------------------------------
(* execute_tools_parallel (ToolExec), which RunTools takes in one step.     *)

\* The strengthening: a joined task's result is in its slot, no slot holds the
\* result of a task that was not joined, and only panicky handlers panic.
ResultsOfJoined ==
    \A i \in Batch : /\ task[i] = "joined" => results[i] = from_output(i)
                     /\ results[i].id = i => task[i] = "joined"

PanicsAreDeclared == \A i \in Batch : task[i] \in {"panicked", "reaped"} => i \in Panicky

SpawnsPending == phase = "spawning" => spawned < N

\* The tasks the for loop has not spawned yet, and only they, do not exist.
UnbornUntilSpawned == \A i \in Batch : task[i] = "unborn" <=> i > spawned

DrainedAtEnd ==
    phase \in {"returned", "crashed"} =>
        /\ \A i \in Batch : task[i] \in {"joined", "reaped"}
        /\ phase = "returned" <=> EmptySlots = {}

ExecIInv == /\ ExecTypeOK
        /\ PermitsAccounted
        /\ ResultsInPlace
        /\ ResultsOfJoined
        /\ PanicsAreDeclared
        /\ SpawnsPending
        /\ UnbornUntilSpawned
        /\ DrainedAtEnd

-----------------------------------------------------------------------------
\* The set of running handlers is finite, as a subset of the calls.
LEMMA RunningFinite ==
    ASSUME NEW t \in [Batch -> TaskStates]
    PROVE  IsFiniteSet({i \in Batch : t[i] = "running"})
<1>1. IsFiniteSet(Batch)
  BY FS_Interval, NAssumption DEF Batch
<1> QED
  BY <1>1, FS_Subset

\* A task that enters the running set adds one to it, one that leaves takes one.
LEMMA RunningChanges ==
    ASSUME ExecTypeOK, NEW i \in Batch, NEW v \in TaskStates,
           task' = [task EXCEPT ![i] = v]
    PROVE  /\ task[i] # "running" /\ v = "running" =>
                  Cardinality(Running') = Cardinality(Running) + 1
           /\ task[i] = "running" /\ v # "running" =>
                  Cardinality(Running') = Cardinality(Running) - 1
           /\ task[i] # "running" /\ v # "running" => Running' = Running
           /\ Cardinality(Running) \in Nat
<1>1. IsFiniteSet(Running)
  BY RunningFinite DEF ExecTypeOK, Running
<1>2. Cardinality(Running) \in Nat
  BY <1>1, FS_CardinalityType
<1>3. ASSUME task[i] # "running", v = "running"
      PROVE  Cardinality(Running') = Cardinality(Running) + 1
  <2>1. Running' = Running \cup {i} /\ i \notin Running
    BY <1>3 DEF ExecTypeOK, Running, Batch
  <2> QED
    BY <2>1, <1>1, FS_AddElement
<1>4. ASSUME task[i] = "running", v # "running"
      PROVE  Cardinality(Running') = Cardinality(Running) - 1
  <2>1. Running' = Running \ {i} /\ i \in Running
    BY <1>4 DEF ExecTypeOK, Running, Batch
  <2> QED
    BY <2>1, <1>1, FS_RemoveElement
<1>5. ASSUME task[i] # "running", v # "running" PROVE Running' = Running
  BY <1>5 DEF ExecTypeOK, Running, Batch
<1> QED
  BY <1>2, <1>3, <1>4, <1>5

\* A handler's result is never mistaken for an empty slot or a panic's result.
LEMMA OutputDistinct ==
    ASSUME NEW j \in Batch
    PROVE  from_output(j) # Empty /\ from_output(j) # PanicResult
<1>1. from_output(j).id = j /\ Empty.id = -1 /\ PanicResult.id = 0
  BY DEF from_output, Empty, PanicResult
<1>2. j # -1 /\ j # 0
  BY NAssumption DEF Batch
<1> QED
  BY <1>1, <1>2

LEMMA InitExecIInv == ExecInit => ExecIInv
<1> SUFFICES ASSUME ExecInit PROVE ExecIInv
  OBVIOUS
<1>1. ExecTypeOK
  BY NAssumption, WorkersAssumption DEF ExecInit, ExecTypeOK, TaskStates, Slots
<1>2. PermitsAccounted
  <2>1. Running = {}
    BY DEF ExecInit, Running
  <2> QED
    BY <2>1, FS_EmptySet, WorkersAssumption DEF ExecInit, PermitsAccounted
<1>3. ResultsInPlace /\ ResultsOfJoined
  BY DEF ExecInit, ResultsInPlace, ResultsOfJoined, Empty, Batch
<1>4. PanicsAreDeclared /\ SpawnsPending /\ DrainedAtEnd /\ UnbornUntilSpawned
  BY NAssumption DEF ExecInit, PanicsAreDeclared, SpawnsPending, DrainedAtEnd,
                     UnbornUntilSpawned, Batch
<1> QED
  BY <1>1, <1>2, <1>3, <1>4 DEF ExecIInv

\* One step per action of Next.
LEMMA NextExecIInv == ExecIInv /\ [ExecNext]_execVars => ExecIInv'
<1> SUFFICES ASSUME ExecIInv, [ExecNext]_execVars PROVE ExecIInv'
  OBVIOUS
<1> USE NAssumption, WorkersAssumption
<1>1. CASE Spawn
  <2>1. spawned + 1 \in Batch /\ task[spawned + 1] = "unborn"
    BY <1>1 DEF ExecIInv, ExecTypeOK, Spawn, SpawnsPending, UnbornUntilSpawned, Batch
  <2>2. ExecTypeOK'
    BY <1>1, <2>1 DEF ExecIInv, ExecTypeOK, Spawn, SpawnsPending, TaskStates, Batch
  <2>3. PermitsAccounted'
    <3>1. Running' = Running
      BY <1>1, <2>1 DEF ExecIInv, ExecTypeOK, Spawn, Running
    <3> QED
      BY <1>1, <3>1 DEF ExecIInv, PermitsAccounted, Spawn
  <2>4. ResultsInPlace' /\ ResultsOfJoined'
    BY <1>1, <2>1 DEF ExecIInv, ExecTypeOK, Spawn, ResultsInPlace, ResultsOfJoined
  <2>5. PanicsAreDeclared' /\ SpawnsPending' /\ DrainedAtEnd' /\ UnbornUntilSpawned'
    BY <1>1, <2>1 DEF ExecIInv, ExecTypeOK, Spawn, PanicsAreDeclared, SpawnsPending,
                      DrainedAtEnd, UnbornUntilSpawned, Batch
  <2> QED
    BY <2>2, <2>3, <2>4, <2>5 DEF ExecIInv
<1>2. ASSUME NEW i \in Batch, Acquire(i) PROVE ExecIInv'
  <2>1. Cardinality(Running') = Cardinality(Running) + 1 /\ Cardinality(Running) \in Nat
    <3>1. ExecTypeOK /\ task[i] # "running" /\ task' = [task EXCEPT ![i] = "running"]
      BY <1>2 DEF ExecIInv, Acquire
    <3> QED
      BY <3>1, RunningChanges DEF TaskStates
  <2>2. PermitsAccounted'
    BY <1>2, <2>1 DEF ExecIInv, ExecTypeOK, PermitsAccounted, Acquire
  <2>3. ExecTypeOK'
    BY <1>2 DEF ExecIInv, ExecTypeOK, Acquire, TaskStates
  <2>4. ResultsInPlace' /\ ResultsOfJoined' /\ PanicsAreDeclared' /\ SpawnsPending'
    BY <1>2 DEF ExecIInv, ExecTypeOK, Acquire, ResultsInPlace, ResultsOfJoined,
                PanicsAreDeclared, SpawnsPending
  <2>5. DrainedAtEnd' /\ UnbornUntilSpawned'
    BY <1>2 DEF ExecIInv, ExecTypeOK, Acquire, Live, DrainedAtEnd, UnbornUntilSpawned
  <2> QED
    BY <2>2, <2>3, <2>4, <2>5 DEF ExecIInv
<1>3. ASSUME NEW i \in Batch, Finish(i) PROVE ExecIInv'
  <2>1. Cardinality(Running') = Cardinality(Running) - 1 /\ Cardinality(Running) \in Nat
    <3>1. ExecTypeOK /\ task[i] = "running" /\ task' = [task EXCEPT ![i] = "finished"]
      BY <1>3 DEF ExecIInv, Finish
    <3> QED
      BY <3>1, RunningChanges DEF TaskStates
  <2>2. Cardinality(Running') \in Nat
    BY <1>3, RunningFinite, FS_CardinalityType DEF ExecIInv, ExecTypeOK, Finish, Running, TaskStates
  <2>3. PermitsAccounted' /\ ExecTypeOK'
    BY <1>3, <2>1, <2>2 DEF ExecIInv, ExecTypeOK, PermitsAccounted, Finish, TaskStates
  <2>4. ResultsInPlace' /\ ResultsOfJoined' /\ PanicsAreDeclared' /\ SpawnsPending'
    BY <1>3 DEF ExecIInv, ExecTypeOK, Finish, ResultsInPlace, ResultsOfJoined,
                PanicsAreDeclared, SpawnsPending
  <2>5. DrainedAtEnd' /\ UnbornUntilSpawned'
    BY <1>3 DEF ExecIInv, ExecTypeOK, Finish, Live, DrainedAtEnd, UnbornUntilSpawned
  <2> QED
    BY <2>3, <2>4, <2>5 DEF ExecIInv
<1>4. ASSUME NEW i \in Batch, Panic(i) PROVE ExecIInv'
  <2>1. CASE phase' = "aborted" /\ UNCHANGED <<task, permits>>
    BY <1>4, <2>1 DEF ExecIInv, Panic, ExecTypeOK, PermitsAccounted, Running, ResultsInPlace,
        ResultsOfJoined, PanicsAreDeclared, SpawnsPending, UnbornUntilSpawned, DrainedAtEnd
  <2>2. CASE /\ task' = [task EXCEPT ![i] = "panicked"]
             /\ permits' = permits + 1
             /\ UNCHANGED phase
    <3>1. Cardinality(Running') = Cardinality(Running) - 1 /\ Cardinality(Running) \in Nat
      <4>1. ExecTypeOK /\ task[i] = "running"
        BY <1>4 DEF ExecIInv, Panic
      <4> QED
        BY <4>1, <2>2, RunningChanges DEF TaskStates
    <3>2. Cardinality(Running') \in Nat
      BY <2>2, RunningFinite, FS_CardinalityType DEF ExecIInv, ExecTypeOK, Running, TaskStates
    <3>3. PermitsAccounted' /\ ExecTypeOK'
      BY <1>4, <2>2, <3>1, <3>2 DEF ExecIInv, ExecTypeOK, PermitsAccounted, Panic, TaskStates
    <3>4. ResultsInPlace' /\ ResultsOfJoined' /\ PanicsAreDeclared' /\ SpawnsPending'
      BY <1>4, <2>2 DEF ExecIInv, ExecTypeOK, Panic, ResultsInPlace, ResultsOfJoined,
                        PanicsAreDeclared, SpawnsPending
    <3>5. DrainedAtEnd' /\ UnbornUntilSpawned'
      BY <1>4, <2>2 DEF ExecIInv, ExecTypeOK, Panic, Live, DrainedAtEnd, UnbornUntilSpawned
    <3> QED
      BY <3>3, <3>4, <3>5 DEF ExecIInv
  <2> QED
    BY <1>4, <2>1, <2>2 DEF Panic
<1>5. ASSUME NEW i \in Batch, JoinOk(i) PROVE ExecIInv'
  <2>1. Running' = Running
    <3>1. ExecTypeOK /\ task[i] # "running" /\ task' = [task EXCEPT ![i] = "joined"]
      BY <1>5 DEF ExecIInv, JoinOk
    <3> QED
      BY <3>1, RunningChanges DEF TaskStates
  <2>2. ExecTypeOK' /\ PermitsAccounted'
    BY <1>5, <2>1 DEF ExecIInv, ExecTypeOK, PermitsAccounted, JoinOk, TaskStates, Slots
  <2>3. ResultsInPlace' /\ ResultsOfJoined'
    BY <1>5 DEF ExecIInv, ExecTypeOK, JoinOk, ResultsInPlace, ResultsOfJoined, from_output
  <2>4. PanicsAreDeclared' /\ SpawnsPending' /\ DrainedAtEnd' /\ UnbornUntilSpawned'
    BY <1>5 DEF ExecIInv, ExecTypeOK, JoinOk, PanicsAreDeclared, SpawnsPending,
                DrainedAtEnd, UnbornUntilSpawned
  <2> QED
    BY <2>2, <2>3, <2>4 DEF ExecIInv
<1>6. ASSUME NEW i \in Batch, JoinErr(i) PROVE ExecIInv'
  <2>1. Running' = Running
    <3>1. ExecTypeOK /\ task[i] # "running" /\ task' = [task EXCEPT ![i] = "reaped"]
      BY <1>6 DEF ExecIInv, JoinErr
    <3> QED
      BY <3>1, RunningChanges DEF TaskStates
  <2>2. \/ results' = results
        \/ \E s \in Batch : results[s] = Empty /\ results' = [results EXCEPT ![s] = PanicResult]
    BY <1>6 DEF JoinErr, FillFirstEmpty, EmptySlots
  <2>3. ExecTypeOK' /\ PermitsAccounted'
    BY <1>6, <2>1, <2>2 DEF ExecIInv, ExecTypeOK, PermitsAccounted, JoinErr, TaskStates, Slots
  <2>4. ResultsInPlace'
    BY <1>6, <2>2 DEF ExecIInv, ExecTypeOK, ResultsInPlace, PanicResult
  <2>5. ResultsOfJoined'
    <3>1. /\ task \in [Batch -> TaskStates] /\ results \in [Batch -> Slots]
          /\ task' = [task EXCEPT ![i] = "reaped"] /\ task[i] = "panicked"
          /\ ResultsOfJoined
      BY <1>6 DEF ExecIInv, ExecTypeOK, JoinErr
    <3>2. SUFFICES ASSUME NEW j \in Batch
                   PROVE  /\ task'[j] = "joined" => results'[j] = from_output(j)
                          /\ results'[j].id = j => task'[j] = "joined"
      BY DEF ResultsOfJoined
    <3>3. task'[j] = "joined" <=> task[j] = "joined"
      BY <3>1
    <3>4. /\ task[j] = "joined" => results[j] = from_output(j)
          /\ results[j].id = j => task[j] = "joined"
      BY <3>1 DEF ResultsOfJoined
    <3>5. CASE results' = results
      BY <3>3, <3>4, <3>5
    <3>6. ASSUME NEW s \in Batch, results[s] = Empty,
                 results' = [results EXCEPT ![s] = PanicResult]
          PROVE  /\ task'[j] = "joined" => results'[j] = from_output(j)
                 /\ results'[j].id = j => task'[j] = "joined"
      <4>1. CASE j # s
        <5>1. results'[j] = results[j]
          BY <3>1, <3>6, <4>1
        <5> QED
          BY <3>3, <3>4, <5>1
      <4>2. CASE j = s
        <5>1. task[j] # "joined"
          BY <3>4, <3>6, <4>2, OutputDistinct
        <5>2. results'[j] = PanicResult
          BY <3>1, <3>6, <4>2
        <5>3. PanicResult.id # j
          BY DEF PanicResult, Batch
        <5> QED
          BY <3>3, <5>1, <5>2, <5>3
      <4> QED
        BY <4>1, <4>2
    <3> QED
      BY <2>2, <3>5, <3>6
  <2>6. PanicsAreDeclared' /\ SpawnsPending' /\ DrainedAtEnd' /\ UnbornUntilSpawned'
    BY <1>6 DEF ExecIInv, ExecTypeOK, JoinErr, PanicsAreDeclared, SpawnsPending,
                DrainedAtEnd, UnbornUntilSpawned
  <2> QED
    BY <2>3, <2>4, <2>5, <2>6 DEF ExecIInv
<1>7. CASE Unwrap
  <2>1. ExecTypeOK' /\ PermitsAccounted' /\ ResultsInPlace' /\ ResultsOfJoined'
    BY <1>7 DEF ExecIInv, ExecTypeOK, Unwrap, PermitsAccounted, Running, ResultsInPlace,
                ResultsOfJoined
  <2>2. PanicsAreDeclared' /\ SpawnsPending' /\ UnbornUntilSpawned'
    BY <1>7 DEF ExecIInv, ExecTypeOK, Unwrap, PanicsAreDeclared, SpawnsPending, UnbornUntilSpawned
  <2>3. DrainedAtEnd'
    BY <1>7 DEF ExecIInv, Unwrap, DrainedAtEnd, EmptySlots
  <2> QED
    BY <2>1, <2>2, <2>3 DEF ExecIInv
<1>8. CASE UNCHANGED execVars
  BY <1>8 DEF execVars, ExecIInv, ExecTypeOK, PermitsAccounted, Running, ResultsInPlace, ResultsOfJoined,
              PanicsAreDeclared, SpawnsPending, UnbornUntilSpawned, DrainedAtEnd, EmptySlots
<1> QED
  BY <1>1, <1>2, <1>3, <1>4, <1>5, <1>6, <1>7, <1>8 DEF ExecNext, TaskStep, Done

LEMMA FromExecIInv ==
    ExecIInv => ExecTypeOK /\ PermitsAccounted /\ ResultsInPlace /\ ReturnedIsComplete /\ CrashNeedsPanic
<1> SUFFICES ASSUME ExecIInv PROVE ReturnedIsComplete /\ CrashNeedsPanic
  BY DEF ExecIInv
<1>1. ASSUME phase = "returned", NEW i \in Batch
      PROVE  results[i] = IF task[i] = "reaped" THEN PanicResult ELSE from_output(i)
  <2>1. task[i] \in {"joined", "reaped"} /\ results[i] # Empty
    BY <1>1 DEF ExecIInv, DrainedAtEnd, EmptySlots
  <2>2. CASE task[i] = "joined"
    BY <2>2 DEF ExecIInv, ResultsOfJoined
  <2>3. CASE task[i] = "reaped"
    <3>1. results[i].id \in {-1, 0} /\ results[i] \in Slots
      BY <2>3 DEF ExecIInv, ExecTypeOK, ResultsOfJoined, ResultsInPlace
    <3>2. \A j \in Batch : from_output(j).id \notin {-1, 0}
      BY NAssumption DEF from_output, Batch
    <3> QED
      BY <2>1, <2>3, <3>1, <3>2 DEF Slots
  <2> QED
    BY <2>1, <2>2, <2>3
<1>2. ASSUME phase = "crashed" PROVE \E i \in Panicky : task[i] = "reaped"
  <2>1. PICK i \in Batch : results[i] = Empty
    BY <1>2 DEF ExecIInv, DrainedAtEnd, EmptySlots
  <2>2. task[i] # "joined"
    BY <2>1, OutputDistinct DEF ExecIInv, ResultsOfJoined
  <2> QED
    BY <1>2, <2>2 DEF ExecIInv, DrainedAtEnd, PanicsAreDeclared
<1> QED
  BY <1>1, <1>2 DEF ReturnedIsComplete, CrashNeedsPanic

\* execute_tools_parallel, for every batch and every interleaving of its tasks:
\* the semaphore accounts for its permits, a result is only ever in its own
\* slot, a batch that returns is right in every slot, and only a panicking
\* handler can make the final expect fail.
THEOREM ToolExecSafety ==
    ExecSpec => [](/\ ExecTypeOK
               /\ PermitsAccounted
               /\ ResultsInPlace
               /\ ReturnedIsComplete
               /\ CrashNeedsPanic)
<1>1. ExecInit => ExecIInv
  BY InitExecIInv
<1>2. ExecIInv /\ [ExecNext]_execVars => ExecIInv'
  BY NextExecIInv
<1>3. ExecIInv => ExecTypeOK /\ PermitsAccounted /\ ResultsInPlace /\ ReturnedIsComplete /\ CrashNeedsPanic
  BY FromExecIInv
<1> QED
  BY <1>1, <1>2, <1>3, PTL DEF ExecSpec

\* "all spawned tasks produce a result" (afc.rs): for every batch, the expect
\* after the join loop can only fail once a handler has panicked.
THEOREM CrashesOnlyByPanic == ExecSpec => []CrashNeedsPanic
BY ToolExecSafety, PTL

\* What NativeRound of run_afc takes for granted of execute_tools_parallel: a
\* batch of any size whose handlers come back has the result of each call at
\* the place of the call, so that the tool messages of the round, made of the
\* results in their order, are those of the calls in theirs.
THEOREM BatchInCallOrder ==
    ExecSpec => [](phase = "returned" /\ Panicky = {} =>
                     \A calls \in Seq(Ids) :
                        Len(calls) = N =>
                          NativeRound(calls) =
                            <<assistant_with_tools(<<<<"say", 0>>>>, calls)>>
                              \o [i \in Batch |-> tool_result(calls[results[i].id])])
<1>1. ASSUME ExecIInv, phase = "returned", Panicky = {}, NEW calls \in Seq(Ids), Len(calls) = N
      PROVE  NativeRound(calls) = <<assistant_with_tools(<<<<"say", 0>>>>, calls)>>
                                    \o [i \in Batch |-> tool_result(calls[results[i].id])]
  <2>1. DOMAIN calls = Batch
    BY <1>1 DEF Batch
  <2>2. ASSUME NEW i \in Batch PROVE results[i].id = i
    <3>1. task[i] # "reaped"
      BY <1>1 DEF ExecIInv, PanicsAreDeclared
    <3>2. results[i] = from_output(i)
      BY <1>1, <3>1, FromExecIInv DEF ReturnedIsComplete
    <3> QED BY <3>2 DEF from_output
  <2>3. [i \in DOMAIN calls |-> tool_result(calls[i])] = [i \in Batch |-> tool_result(calls[results[i].id])]
    BY <2>1, <2>2
  <2> QED BY <2>3 DEF NativeRound
<1>2. ExecIInv => (phase = "returned" /\ Panicky = {} =>
                     \A calls \in Seq(Ids) :
                        Len(calls) = N =>
                          NativeRound(calls) =
                            <<assistant_with_tools(<<<<"say", 0>>>>, calls)>>
                              \o [i \in Batch |-> tool_result(calls[results[i].id])])
  BY <1>1
<1> QED BY <1>2, InitExecIInv, NextExecIInv, PTL DEF ExecSpec
=============================================================================
