--------------------------- MODULE StreamsProofs ---------------------------
(***************************************************************************)
(* Streams for any set of adapters and bindings, any texts and answers of  *)
(* any length: what a caller has been given is a prefix of what the        *)
(* upstream said, all of it once the stream has ended well; an error is    *)
(* never reported as a success; calls are whole; Done is what chat would   *)
(* return.                                                                 *)
(*                                                                         *)
(* The first part states what the model's folds (Flat, Deltas, Fold) do    *)
(* when a sequence grows by one, the second the inductive invariant and    *)
(* what each binding's loop does to it, the third has a lemma per action.  *)
(***************************************************************************)
EXTENDS Streams, SequenceTheorems, FiniteSetTheorems, WellFoundedInduction, TLAPS

\* Induction on the naturals, of a set instead of a predicate.
LEMMA SetInduction ==
  ASSUME NEW S, 0 \in S, \A n \in Nat : n \in S => n + 1 \in S
  PROVE  Nat \subseteq S
<1> DEFINE T == Nat \ S
<1>1. SUFFICES ASSUME T # {} PROVE FALSE
  OBVIOUS
<1> DEFINE R == OpToRel(<, Nat)
<1>2. IsWellFoundedOn(R, Nat)
  BY NatLessThanWellFounded
<1>3. \A x, y \in Nat : x < y => <<x, y>> \in R
  BY DEF OpToRel
<1> HIDE DEF R
<1>4. PICK x \in T : \A y \in T : ~ (<<y, x>> \in R)
  <2>1. T \subseteq Nat
    OBVIOUS
  <2> HIDE DEF T
  <2> QED BY <1>1, <1>2, <2>1, WFMin
<1>5. x # 0 /\ x \in Nat
  OBVIOUS
<1>6. x - 1 \in Nat /\ x - 1 < x /\ (x - 1) + 1 = x
  BY <1>5
<1>7. x - 1 \notin T
  BY <1>3, <1>4, <1>5, <1>6
<1> QED BY <1>5, <1>6, <1>7

\* h lists the first n steps of the iteration of F from d.
Runs(h, n, D, d, F) ==
  /\ h \in [0..n -> D] /\ h[0] = d
  /\ \A i \in 0..(n - 1) : h[i + 1] = F[i][h[i]]

RunsOn(g, D, d, F) ==
  g \in [Nat -> D] /\ g[0] = d /\ \A n \in Nat : g[n + 1] = F[n][g[n]]

\* Two such lists agree as far as both go.
LEMMA RunsAgree ==
  ASSUME NEW D, NEW d \in D, NEW F \in [Nat -> [D -> D]], NEW n \in Nat, NEW m \in Nat, n <= m,
         NEW h, Runs(h, n, D, d, F), NEW k, Runs(k, m, D, d, F)
  PROVE  h[n] = k[n]
<1> DEFINE S == {i \in Nat : i <= n => h[i] = k[i]}
<1>1. 0 \in S
  BY DEF Runs
<1>2. ASSUME NEW i \in Nat, i \in S PROVE i + 1 \in S
  <2> SUFFICES ASSUME i + 1 <= n PROVE h[i + 1] = k[i + 1]
    OBVIOUS
  <2>1. i \in 0..(n - 1) /\ i \in 0..(m - 1) /\ h[i] = k[i]
    BY <1>2
  <2> QED BY <2>1 DEF Runs
<1>3. Nat \subseteq S
  <2> HIDE DEF S
  <2> QED BY <1>1, <1>2, SetInduction
<1> QED BY <1>3

\* .. and there is one of every length.
LEMMA RunsExist ==
  ASSUME NEW D, NEW d \in D, NEW F \in [Nat -> [D -> D]]
  PROVE  \A n \in Nat : \E h : Runs(h, n, D, d, F)
<1> DEFINE S == {n \in Nat : \E h : Runs(h, n, D, d, F)}
<1>1. 0 \in S
  <2>1. Runs([i \in 0..0 |-> d], 0, D, d, F)
    BY DEF Runs
  <2> QED BY <2>1
<1>2. ASSUME NEW n \in Nat, n \in S PROVE n + 1 \in S
  <2>1. PICK h : Runs(h, n, D, d, F)
    BY <1>2
  <2> DEFINE k == [i \in 0..(n + 1) |-> IF i <= n THEN h[i] ELSE F[n][h[n]]]
  <2>2. h[n] \in D
    BY <2>1 DEF Runs
  <2>3. F[n][h[n]] \in D
    BY <2>2
  <2>4. k \in [0..(n + 1) -> D]
    <3>1. ASSUME NEW i \in 0..(n + 1), i <= n PROVE h[i] \in D
      BY <2>1, <3>1 DEF Runs
    <3> QED BY <2>3, <3>1
  <2>5. k[0] = d
    BY <2>1 DEF Runs
  <2>6. ASSUME NEW i \in 0..n PROVE k[i + 1] = F[i][k[i]]
    <3>1. CASE i = n
      BY <3>1
    <3>2. CASE i # n
      <4>1. i \in 0..(n - 1) /\ i + 1 <= n
        BY <3>2
      <4> QED BY <2>1, <4>1 DEF Runs
    <3> QED BY <3>1, <3>2
  <2>7. n + 1 - 1 = n
    OBVIOUS
  <2> HIDE DEF k
  <2>8. Runs(k, n + 1, D, d, F)
    BY <2>4, <2>5, <2>6, <2>7 DEF Runs
  <2> QED BY <2>8
<1>3. Nat \subseteq S
  <2> HIDE DEF S
  <2> QED BY <1>1, <1>2, SetInduction
<1> QED BY <1>3

\* An iteration from d by the functions F[0], F[1], .. exists.
LEMMA Iterates ==
  ASSUME NEW D, NEW d \in D, NEW F \in [Nat -> [D -> D]]
  PROVE  \E g : RunsOn(g, D, d, F)
<1> DEFINE H(n) == CHOOSE h : Runs(h, n, D, d, F)
           g == [n \in Nat |-> H(n)[n]]
<1>1. \A n \in Nat : Runs(H(n), n, D, d, F)
  BY RunsExist
<1> HIDE DEF H
<1>2. g \in [Nat -> D]
  BY <1>1 DEF Runs
<1>3. g[0] = d
  BY <1>1 DEF Runs
<1>4. ASSUME NEW n \in Nat PROVE g[n + 1] = F[n][g[n]]
  <2>1. H(n)[n] = H(n + 1)[n]
    BY <1>1, RunsAgree
  <2>2. H(n + 1)[n + 1] = F[n][H(n + 1)[n]]
    <3>1. n \in 0..((n + 1) - 1) /\ n + 1 \in Nat
      OBVIOUS
    <3> QED BY <1>1, <3>1 DEF Runs
  <2> QED BY <2>1, <2>2
<1> HIDE DEF g
<1> QED BY <1>2, <1>3, <1>4 DEF RunsOn

\* f says what each part of ss amounts to.
Upto(f, ss) ==
  f = [n \in 0..Len(ss) |-> IF n = 0 THEN <<>> ELSE f[n - 1] \o ss[n]]

\* The local function of Flat exists, and has texts as its values.
LEMMA UptoExists ==
  ASSUME NEW C, NEW ss \in Seq(Seq(C))
  PROVE  \E f : Upto(f, ss) /\ f \in [0..Len(ss) -> Seq(C)]
<1> DEFINE F == [n \in Nat |-> [t \in Seq(C) |-> IF n < Len(ss) THEN t \o ss[n + 1] ELSE t]]
<1>1. F \in [Nat -> [Seq(C) -> Seq(C)]]
  <2>1. ASSUME NEW n \in Nat, NEW t \in Seq(C), n < Len(ss) PROVE t \o ss[n + 1] \in Seq(C)
    <3>1. n + 1 \in 1..Len(ss)
      BY <2>1
    <3>2. ss[n + 1] \in Seq(C)
      BY <3>1
    <3> QED BY <3>1, <3>2
  <2> QED BY <2>1
<1>2. <<>> \in Seq(C)
  OBVIOUS
<1>3. PICK g : RunsOn(g, Seq(C), <<>>, F)
  <2> HIDE DEF F
  <2> QED BY <1>1, <1>2, Iterates
<1>30. g \in [Nat -> Seq(C)] /\ g[0] = <<>> /\ \A n \in Nat : g[n + 1] = F[n][g[n]]
  BY <1>3 DEF RunsOn
<1> DEFINE f == [n \in 0..Len(ss) |-> g[n]]
<1>4. ASSUME NEW n \in 0..Len(ss), n # 0 PROVE g[n] = g[n - 1] \o ss[n]
  <2>1. n - 1 \in Nat /\ (n - 1) + 1 = n /\ n - 1 < Len(ss)
    BY <1>4
  <2>2. g[n] = F[n - 1][g[n - 1]]
    BY <1>30, <2>1
  <2>3. g[n - 1] \in Seq(C)
    BY <1>30, <2>1
  <2> QED BY <2>1, <2>2, <2>3
<1>5. f = [n \in 0..Len(ss) |-> IF n = 0 THEN <<>> ELSE f[n - 1] \o ss[n]]
  <2>1. ASSUME NEW n \in 0..Len(ss) PROVE f[n] = IF n = 0 THEN <<>> ELSE f[n - 1] \o ss[n]
    <3>1. n # 0 => n - 1 \in 0..Len(ss)
      OBVIOUS
    <3> QED BY <1>30, <1>4, <3>1
  <2> QED BY <2>1
<1>6. f \in [0..Len(ss) -> Seq(C)]
  BY <1>30
<1> HIDE DEF f
<1> QED BY <1>5, <1>6 DEF Upto

\* It has the same value wherever the texts so far are the same.
LEMMA UptoUnique ==
  ASSUME NEW ss, Len(ss) \in Nat, NEW f, Upto(f, ss), NEW n \in Nat, n <= Len(ss),
         NEW tt, Len(tt) \in Nat, NEW g, Upto(g, tt), n <= Len(tt),
         \A i \in 1..n : ss[i] = tt[i]
  PROVE  f[n] = g[n]
<1> DEFINE S == {i \in Nat : i <= n => f[i] = g[i]}
<1>1. 0 \in S
  BY DEF Upto
<1>2. ASSUME NEW i \in Nat, i \in S PROVE i + 1 \in S
  <2> SUFFICES ASSUME i + 1 <= n PROVE f[i + 1] = g[i + 1]
    OBVIOUS
  <2>1. f[i] = g[i] /\ ss[i + 1] = tt[i + 1] /\ i + 1 \in 0..Len(ss) /\ i + 1 \in 0..Len(tt)
        /\ (i + 1) - 1 = i /\ i + 1 # 0
    BY <1>2
  <2>2. f[i + 1] = f[i] \o ss[i + 1] /\ g[i + 1] = g[i] \o tt[i + 1]
    BY <2>1 DEF Upto
  <2> QED BY <2>1, <2>2
<1>3. Nat \subseteq S
  <2> HIDE DEF S
  <2> QED BY <1>1, <1>2, SetInduction
<1> QED BY <1>3

\* One text more.
LEMMA UptoStep ==
  ASSUME NEW ss, Len(ss) \in Nat, NEW f, Upto(f, ss)
  PROVE  f[0] = <<>> /\ \A n \in 0..(Len(ss) - 1) : f[n + 1] = f[n] \o ss[n + 1]
<1>1. f[0] = <<>>
  BY DEF Upto
<1>2. ASSUME NEW n \in 0..(Len(ss) - 1) PROVE f[n + 1] = f[n] \o ss[n + 1]
  <2>1. n + 1 \in 0..Len(ss) /\ n + 1 # 0 /\ (n + 1) - 1 = n
    OBVIOUS
  <2> QED BY <2>1 DEF Upto
<1> QED BY <1>1, <1>2

\* So Flat is its last value.
LEMMA FlatIs ==
  ASSUME NEW C, NEW ss \in Seq(Seq(C))
  PROVE  \E f : Upto(f, ss) /\ f \in [0..Len(ss) -> Seq(C)] /\ Flat(ss) = f[Len(ss)]
<1> DEFINE U == CHOOSE f : Upto(f, ss)
<1>1. PICK h : Upto(h, ss) /\ h \in [0..Len(ss) -> Seq(C)]
  BY UptoExists
<1>2. Upto(U, ss)
  BY <1>1
<1>3. Flat(ss) = U[Len(ss)]
  BY DEF Flat, Upto
<1>4. U \in [0..Len(ss) -> Seq(C)]
  <2> HIDE DEF U
  <2>1. ASSUME NEW n \in 0..Len(ss) PROVE U[n] = h[n]
    BY <1>1, <1>2, <2>1, UptoUnique
  <2>2. DOMAIN U = 0..Len(ss) /\ U = [n \in 0..Len(ss) |-> U[n]]
    BY <1>2 DEF Upto
  <2> QED BY <1>1, <2>1, <2>2
<1> HIDE DEF U
<1> QED BY <1>2, <1>3, <1>4

\* Concatenation, under a name that the provers do not look into.
Cat(a, b) == a \o b

\* Concatenation, hidden behind a name of its own.
LEMMA CatAssociative ==
  ASSUME NEW C, NEW a \in Seq(C), NEW b \in Seq(C), NEW c \in Seq(C)
  PROVE  Cat(Cat(a, b), c) = Cat(a, Cat(b, c))
BY DEF Cat

\* Flat makes a text of texts ..
LEMMA FlatType ==
  ASSUME NEW C, NEW ss \in Seq(Seq(C))
  PROVE  Flat(ss) \in Seq(C)
<1>1. PICK f : Upto(f, ss) /\ f \in [0..Len(ss) -> Seq(C)] /\ Flat(ss) = f[Len(ss)]
  BY FlatIs
<1> QED BY <1>1

\* .. the empty one of none ..
LEMMA FlatEmpty == Flat(<<>>) = <<>>
<1>1. <<>> \in Seq(Seq({}))
  OBVIOUS
<1>2. PICK f : Upto(f, <<>>) /\ Flat(<<>>) = f[Len(<<>>)]
  BY <1>1, FlatIs
<1> QED BY <1>2 DEF Upto

\* .. adds what is appended at its end ..
LEMMA FlatAppend ==
  ASSUME NEW C, NEW ss \in Seq(Seq(C)), NEW v \in Seq(C)
  PROVE  Flat(Append(ss, v)) = Cat(Flat(ss), v)
<1> DEFINE tt == Append(ss, v)
<1>1. tt \in Seq(Seq(C)) /\ Len(tt) = Len(ss) + 1 /\ tt[Len(ss) + 1] = v
      /\ \A i \in 1..Len(ss) : tt[i] = ss[i]
  OBVIOUS
<1> HIDE DEF tt
<1>2. PICK f : Upto(f, ss) /\ Flat(ss) = f[Len(ss)]
  BY FlatIs
<1>3. PICK g : Upto(g, tt) /\ Flat(tt) = g[Len(tt)]
  BY <1>1, FlatIs
<1>4. f[Len(ss)] = g[Len(ss)]
  <2>1. Len(ss) \in Nat /\ Len(tt) \in Nat /\ Len(ss) <= Len(ss) /\ Len(ss) <= Len(tt)
        /\ \A i \in 1..Len(ss) : ss[i] = tt[i]
    BY <1>1
  <2> QED BY <1>2, <1>3, <2>1, UptoUnique
<1>5. Len(ss) \in 0..(Len(tt) - 1) /\ Len(tt) \in Nat
  BY <1>1
<1>6. g[Len(ss) + 1] = g[Len(ss)] \o tt[Len(ss) + 1]
  BY <1>3, <1>5, UptoStep
<1>7. Flat(tt) = Cat(Flat(ss), v)
  BY <1>1, <1>2, <1>3, <1>4, <1>6 DEF Cat
<1> QED BY <1>7 DEF tt

\* .. and begins with the first.
LEMMA FlatCons ==
  ASSUME NEW C, NEW ss \in Seq(Seq(C)), ss # <<>>
  PROVE  Flat(ss) = Cat(Head(ss), Flat(Tail(ss)))
<1> DEFINE tt == Tail(ss)
<1>1. tt \in Seq(Seq(C)) /\ Len(tt) \in Nat /\ Len(ss) = Len(tt) + 1 /\ Head(ss) = ss[1] /\ ss[1] \in Seq(C)
      /\ \A i \in 1..Len(tt) : tt[i] = ss[i + 1] /\ tt[i] \in Seq(C)
  OBVIOUS
<1> HIDE DEF tt
<1>2. PICK f : Upto(f, ss) /\ f \in [0..Len(ss) -> Seq(C)] /\ Flat(ss) = f[Len(ss)]
  BY FlatIs
<1>3. PICK g : Upto(g, tt) /\ g \in [0..Len(tt) -> Seq(C)] /\ Flat(tt) = g[Len(tt)]
  BY <1>1, FlatIs
<1> DEFINE Q(n) == n <= Len(tt) => f[n + 1] = ss[1] \o g[n]
           S == {n \in Nat : Q(n)}
<1>0. f[0] = <<>> /\ g[0] = <<>>
      /\ (\A n \in 0..(Len(ss) - 1) : f[n + 1] = f[n] \o ss[n + 1])
      /\ (\A n \in 0..(Len(tt) - 1) : g[n + 1] = g[n] \o tt[n + 1])
  <2>1. Len(ss) \in Nat /\ Len(tt) \in Nat
    BY <1>1
  <2>2. f[0] = <<>> /\ \A n \in 0..(Len(ss) - 1) : f[n + 1] = f[n] \o ss[n + 1]
    BY <1>2, <2>1, UptoStep
  <2>3. g[0] = <<>> /\ \A n \in 0..(Len(tt) - 1) : g[n + 1] = g[n] \o tt[n + 1]
    BY <1>3, <2>1, UptoStep
  <2> QED BY <2>2, <2>3
<1>4. Q(0)
  <2>1. 0 \in 0..(Len(ss) - 1)
    BY <1>1
  <2>2. f[0 + 1] = <<>> \o ss[0 + 1]
    BY <1>0, <2>1
  <2>3. f[0 + 1] = ss[1] \o g[0]
    BY <1>0, <1>1, <2>2
  <2> QED BY <2>3
<1>5. ASSUME NEW n \in Nat, Q(n) PROVE Q(n + 1)
  <2> SUFFICES ASSUME n + 1 <= Len(tt) PROVE f[(n + 1) + 1] = ss[1] \o g[n + 1]
    OBVIOUS
  <2>1. n <= Len(tt)
    BY <1>1
  <2>2. f[n + 1] = ss[1] \o g[n]
    BY <1>5, <2>1
  <2>3. n + 1 \in 0..(Len(ss) - 1) /\ n \in 0..(Len(tt) - 1) /\ n + 1 \in 1..Len(tt) /\ n \in 0..Len(tt)
    BY <1>1
  <2>4. f[(n + 1) + 1] = f[n + 1] \o ss[(n + 1) + 1] /\ g[n + 1] = g[n] \o tt[n + 1]
    BY <1>0, <2>3
  <2>5. tt[n + 1] = ss[(n + 1) + 1] /\ tt[n + 1] \in Seq(C) /\ g[n] \in Seq(C)
    BY <1>1, <1>3, <2>3
  <2>6. f[n + 1] = Cat(ss[1], g[n]) /\ f[(n + 1) + 1] = Cat(f[n + 1], ss[(n + 1) + 1])
        /\ g[n + 1] = Cat(g[n], tt[n + 1])
    BY <2>2, <2>4, Zenon DEF Cat
  <2>7. Cat(Cat(ss[1], g[n]), tt[n + 1]) = Cat(ss[1], Cat(g[n], tt[n + 1]))
    BY <1>1, <2>5, CatAssociative
  <2>8. f[(n + 1) + 1] = Cat(ss[1], g[n + 1])
    BY <2>5, <2>6, <2>7
  <2> QED BY <2>8, Zenon DEF Cat
<1> HIDE DEF Q
<1>6. Nat \subseteq S
  <2>1. 0 \in S /\ \A n \in Nat : n \in S => n + 1 \in S
    BY <1>4, <1>5
  <2> HIDE DEF S
  <2> QED BY <2>1, SetInduction
<1>7. Len(tt) \in Nat /\ Q(Len(tt))
  BY <1>1, <1>6
<1>8. f[Len(tt) + 1] = Cat(ss[1], g[Len(tt)])
  <2>1. Len(tt) <= Len(tt)
    BY <1>1
  <2> QED BY <1>7, <2>1, Zenon DEF Q, Cat
<1> QED BY <1>1, <1>2, <1>3, <1>8 DEF tt

-----------------------------------------------------------------------------
(* Texts, and what the definitions of the model do with them. *)

Text == Seq(Chars)

\* What is needed of texts and their concatenation.
LEMMA TextFacts ==
  /\ <<>> \in Text
  /\ \A a, b \in Text : Cat(a, b) \in Text
  /\ \A a, b, c \in Text : Cat(Cat(a, b), c) = Cat(a, Cat(b, c))
  /\ \A a \in Text : Cat(<<>>, a) = a /\ Cat(a, <<>>) = a
  /\ \A a, b \in Text : Cat(a, b) = <<>> => a = <<>> /\ b = <<>>
<1>1. <<>> \in Text
  BY DEF Text
<1>2. \A a, b \in Text : Cat(a, b) \in Text
  BY DEF Text, Cat
<1>3. \A a, b, c \in Text : Cat(Cat(a, b), c) = Cat(a, Cat(b, c))
  BY DEF Text, Cat
<1>4. \A a \in Text : Cat(<<>>, a) = a /\ Cat(a, <<>>) = a
  BY DEF Text, Cat
<1>5. \A a, b \in Text : Cat(a, b) = <<>> => a = <<>> /\ b = <<>>
  BY ConcatEqualIffEmpty DEF Text, Cat
<1> QED BY <1>1, <1>2, <1>3, <1>4, <1>5

\* What is needed of prefixes of texts.
LEMMA PrefixFacts ==
  /\ \A a \in Text : IsPrefix(a, a) /\ IsPrefix(<<>>, a)
  /\ \A a, b \in Text : IsPrefix(a, Cat(a, b))
  /\ \A a, b, c \in Text : IsPrefix(a, b) /\ IsPrefix(b, c) => IsPrefix(a, c)
<1>1. \A a \in Text : IsPrefix(a, a) /\ IsPrefix(<<>>, a)
  BY DEF Text, IsPrefix
<1>2. \A a, b \in Text : IsPrefix(a, Cat(a, b))
  BY DEF Text, IsPrefix, Cat
<1>3. ASSUME NEW a \in Text, NEW b \in Text, NEW c \in Text, IsPrefix(a, b), IsPrefix(b, c)
      PROVE  IsPrefix(a, c)
  <2>1. Len(a) \in Nat /\ Len(b) \in Nat /\ Len(c) \in Nat /\ Len(a) <= Len(b) /\ Len(b) <= Len(c)
    BY <1>3 DEF Text, IsPrefix
  <2>2. \A i \in 1..Len(a) : a[i] = b[i]
    BY <1>3, <2>1 DEF Text, IsPrefix
  <2>3. \A i \in 1..Len(b) : b[i] = c[i]
    BY <1>3, <2>1 DEF Text, IsPrefix
  <2>4. \A i \in 1..Len(a) : a[i] = c[i]
    BY <2>1, <2>2, <2>3
  <2> QED BY <2>1, <2>4 DEF Text, IsPrefix
<1> QED BY <1>1, <1>2, <1>3

\* What is needed of Flat.
LEMMA FlatFacts ==
  /\ Flat(<<>>) = <<>>
  /\ \A ss \in Seq(Text) : Flat(ss) \in Text
  /\ \A ss \in Seq(Text), v \in Text : Flat(Append(ss, v)) = Cat(Flat(ss), v)
  /\ \A ss \in Seq(Text) : ss # <<>> => Flat(ss) = Cat(Head(ss), Flat(Tail(ss)))
<1>1. \A ss \in Seq(Text) : Flat(ss) \in Text
  BY FlatType DEF Text
<1>2. \A ss \in Seq(Text), v \in Text : Flat(Append(ss, v)) = Cat(Flat(ss), v)
  BY FlatAppend DEF Text
<1>3. \A ss \in Seq(Text) : ss # <<>> => Flat(ss) = Cat(Head(ss), Flat(Tail(ss)))
  BY FlatCons DEF Text
<1> QED BY <1>1, <1>2, <1>3, FlatEmpty

\* What a channel holds of the text.
Items == {Item(v) : v \in Text} \cup {ErrItem, EndItem}
WayOf(ch) == Flat([i \in DOMAIN ch |-> TextOf(ch[i])])

\* The items of a channel, and their texts.
LEMMA ItemFacts ==
  /\ \A it \in Items : TextOf(it) \in Text /\ it.item \in {"text", "error", "end"}
  /\ \A it \in Items : it.item # "text" => TextOf(it) = <<>>
  /\ \A it \in Items : it.item = "text" => it.text \in Text /\ TextOf(it) = it.text
  /\ \A v \in Text : Item(v) \in Items /\ TextOf(Item(v)) = v /\ Item(v).item = "text"
  /\ ErrItem \in Items /\ TextOf(ErrItem) = <<>> /\ ErrItem.item = "error"
  /\ EndItem \in Items /\ TextOf(EndItem) = <<>> /\ EndItem.item = "end"
BY TextFacts DEF Items, Item, ErrItem, EndItem, TextOf

\* The text on its way: one item more, or the first one taken.
LEMMA WayFacts ==
  /\ WayOf(<<>>) = <<>>
  /\ \A ch \in Seq(Items) : WayOf(ch) \in Text
  /\ \A ch \in Seq(Items), it \in Items : WayOf(Append(ch, it)) = Cat(WayOf(ch), TextOf(it))
  /\ \A ch \in Seq(Items) : ch # <<>> => WayOf(ch) = Cat(TextOf(Head(ch)), WayOf(Tail(ch)))
<1> DEFINE M(ch) == [i \in DOMAIN ch |-> TextOf(ch[i])]
<1>1. ASSUME NEW ch \in Seq(Items) PROVE M(ch) \in Seq(Text)
  <2>1. \A i \in 1..Len(ch) : TextOf(ch[i]) \in Text
    BY ItemFacts
  <2> QED BY <2>1
<1>2. ASSUME NEW ch \in Seq(Items), NEW it \in Items
      PROVE  M(Append(ch, it)) = Append(M(ch), TextOf(it))
  <2>1. M(ch) \in Seq(Text) /\ TextOf(it) \in Text /\ M(Append(ch, it)) \in Seq(Text)
    BY <1>1, ItemFacts
  <2> QED BY <2>1
<1>3. ASSUME NEW ch \in Seq(Items), ch # <<>>
      PROVE  M(ch) # <<>> /\ Head(M(ch)) = TextOf(Head(ch)) /\ Tail(M(ch)) = M(Tail(ch))
  <2>1. M(ch) \in Seq(Text) /\ M(Tail(ch)) \in Seq(Text) /\ Tail(ch) \in Seq(Items)
    BY <1>1, <1>3
  <2> QED BY <1>3, <2>1
<1>4. M(<<>>) = <<>>
  OBVIOUS
<1>5. \A ch : WayOf(ch) = Flat(M(ch))
  BY DEF WayOf
<1> HIDE DEF M
<1>6. WayOf(<<>>) = <<>>
  BY <1>4, <1>5, FlatFacts
<1>7. \A ch \in Seq(Items) : WayOf(ch) \in Text
  BY <1>1, <1>5, FlatFacts
<1>8. ASSUME NEW ch \in Seq(Items), NEW it \in Items
      PROVE  WayOf(Append(ch, it)) = Cat(WayOf(ch), TextOf(it))
  <2>1. M(ch) \in Seq(Text) /\ TextOf(it) \in Text
    BY <1>1, ItemFacts
  <2>2. Flat(Append(M(ch), TextOf(it))) = Cat(Flat(M(ch)), TextOf(it))
    BY <2>1, FlatFacts
  <2>3. WayOf(Append(ch, it)) = Flat(M(Append(ch, it))) /\ WayOf(ch) = Flat(M(ch))
    BY <1>5
  <2> QED BY <1>2, <2>2, <2>3
<1>9. ASSUME NEW ch \in Seq(Items), ch # <<>>
      PROVE  WayOf(ch) = Cat(TextOf(Head(ch)), WayOf(Tail(ch)))
  <2>1. M(ch) \in Seq(Text) /\ M(ch) # <<>>
    BY <1>1, <1>3, <1>9
  <2>2. Flat(M(ch)) = Cat(Head(M(ch)), Flat(Tail(M(ch))))
    BY <2>1, FlatFacts
  <2>3. WayOf(ch) = Flat(M(ch)) /\ WayOf(Tail(ch)) = Flat(M(Tail(ch)))
    BY <1>5
  <2> QED BY <1>3, <1>9, <2>2, <2>3
<1> QED BY <1>6, <1>7, <1>8, <1>9

\* The events of a wire, and what each says.
EventKinds == {"text", "tool", "args", "stop", "junk", "error", "done"}
Frags == {"{", "}"}
Events == {e \in [kind : EventKinds, v : Text \cup Frags, all : Text] :
             /\ e.kind = "text" => e.v \in Text
             /\ e.kind = "args" => e.v \in Frags}
SaidBy(e) == IF e.kind = "text" THEN e.v ELSE <<>>

\* Only a text event says something.
LEMMA SaidByType == \A e \in Events : SaidBy(e) \in Text
BY TextFacts DEF Events, SaidBy

\* What a wire says grows by what its next event says.
LEMMA DeltasFacts ==
  /\ Deltas(<<>>) = <<>>
  /\ \A w \in Seq(Events) : Deltas(w) \in Text
  /\ \A w \in Seq(Events), e \in Events : Deltas(Append(w, e)) = Cat(Deltas(w), SaidBy(e))
<1> DEFINE M(w) == [i \in DOMAIN w |-> SaidBy(w[i])]
<1>1. ASSUME NEW w \in Seq(Events) PROVE M(w) \in Seq(Text)
  <2>1. \A i \in 1..Len(w) : SaidBy(w[i]) \in Text
    BY SaidByType
  <2> QED BY <2>1
<1>2. ASSUME NEW w \in Seq(Events), NEW e \in Events
      PROVE  M(Append(w, e)) = Append(M(w), SaidBy(e))
  <2>1. M(w) \in Seq(Text) /\ SaidBy(e) \in Text /\ M(Append(w, e)) \in Seq(Text)
    BY <1>1, SaidByType
  <2> QED BY <2>1
<1>3. M(<<>>) = <<>>
  OBVIOUS
<1>4. \A w : Deltas(w) = Flat(M(w))
  BY DEF Deltas, SaidBy
<1> HIDE DEF M
<1>5. Deltas(<<>>) = <<>>
  BY <1>3, <1>4, FlatFacts
<1>6. \A w \in Seq(Events) : Deltas(w) \in Text
  BY <1>1, <1>4, FlatFacts
<1>7. ASSUME NEW w \in Seq(Events), NEW e \in Events
      PROVE  Deltas(Append(w, e)) = Cat(Deltas(w), SaidBy(e))
  BY <1>1, <1>2, <1>4, FlatFacts, SaidByType
<1> QED BY <1>5, <1>6, <1>7

\* A set of naturals has a least element ..
LEMMA Least ==
  ASSUME NEW S, S \subseteq Nat, S # {}
  PROVE  \E x \in S : \A y \in S : x <= y
<1> DEFINE R == OpToRel(<, Nat)
<1>1. IsWellFoundedOn(R, Nat)
  BY NatLessThanWellFounded
<1>2. \A x, y \in Nat : x < y => <<x, y>> \in R
  BY DEF OpToRel
<1> HIDE DEF R
<1>3. PICK x \in S : \A y \in S : ~ (<<y, x>> \in R)
  BY <1>1, WFMin
<1>4. ASSUME NEW y \in S PROVE x <= y
  <2>1. x \in Nat /\ y \in Nat
    OBVIOUS
  <2>2. ~ (y < x)
    BY <1>2, <1>3, <2>1
  <2> QED BY <2>1, <2>2
<1> QED BY <1>4

\* .. and a bounded one a greatest.
LEMMA Greatest ==
  ASSUME NEW n \in Nat, NEW S, S \subseteq 1..n, S # {}
  PROVE  \E x \in S : \A y \in S : x >= y
<1> DEFINE T == {n - x : x \in S}
<1>1. T \subseteq Nat /\ T # {}
  <2>1. \A x \in S : x \in Int /\ n - x \in Nat
    OBVIOUS
  <2> QED BY <2>1
<1>2. PICK t \in T : \A u \in T : t <= u
  <2> HIDE DEF T
  <2> QED BY <1>1, Least
<1>3. PICK x \in S : t = n - x
  OBVIOUS
<1>4. ASSUME NEW y \in S PROVE x >= y
  <2>1. n - y \in T
    OBVIOUS
  <2>2. n - x <= n - y
    BY <1>2, <1>3, <2>1
  <2>3. x \in Int /\ y \in Int
    OBVIOUS
  <2> HIDE DEF T
  <2> QED BY <2>2, <2>3
<1> QED BY <1>4

\* str::trim takes texts to texts, and keeps the empty one.
LEMMA TrimmedFacts ==
  /\ Trimmed(<<>>) = <<>>
  /\ \A s \in Text : Trimmed(s) \in Text
<1>1. Trimmed(<<>>) = <<>>
  BY DEF Trimmed
<1>2. ASSUME NEW s \in Text PROVE Trimmed(s) \in Text
  <2> DEFINE ink == {i \in DOMAIN s : s[i] # Blank}
             a == CHOOSE i \in ink : \A j \in ink : i <= j
             z == CHOOSE i \in ink : \A j \in ink : i >= j
  <2>1. CASE ink = {}
    BY <2>1, TextFacts DEF Trimmed
  <2>2. CASE ink # {}
    <3>1. Len(s) \in Nat /\ ink \subseteq 1..Len(s) /\ ink \subseteq Nat
      BY DEF Text
    <3>2. Trimmed(s) = SubSeq(s, a, z)
      BY <2>2 DEF Trimmed
    <3> HIDE DEF ink
    <3>3. a \in ink
      BY <2>2, <3>1, Least
    <3>4. z \in ink
      BY <2>2, <3>1, Greatest
    <3>5. a \in 1..Len(s) /\ z \in 1..Len(s)
      BY <3>1, <3>3, <3>4
    <3> HIDE DEF a, z
    <3>6. SubSeq(s, a, z) \in Text
      BY <3>1, <3>5 DEF Text
    <3> QED BY <3>2, <3>6
  <2> QED BY <2>1, <2>2
<1> QED BY <1>1, <1>2

\* The last snapshot of an answer that goes on.
LEMMA LastSnapshotFacts ==
  /\ LastSnapshot(<<>>) = <<>>
  /\ \A w \in Seq(Events), e \in Events :
       LastSnapshot(Append(w, e)) =
         IF e.kind = "text" /\ e.all # <<>> THEN e.all ELSE LastSnapshot(w)
<1>1. LastSnapshot(<<>>) = <<>>
  BY DEF LastSnapshot, OfKind
<1>2. ASSUME NEW w \in Seq(Events), NEW e \in Events
      PROVE  LastSnapshot(Append(w, e)) =
               IF e.kind = "text" /\ e.all # <<>> THEN e.all ELSE LastSnapshot(w)
  <2> DEFINE some(u) == {i \in OfKind(u, "text") : u[i].all # <<>>}
             last(u) == CHOOSE i \in some(u) : \A j \in some(u) : i >= j
             we == Append(w, e)
  <2>1. \A u : LastSnapshot(u) = IF some(u) = {} THEN <<>> ELSE u[last(u)].all
    BY DEF LastSnapshot
  <2>2. Len(w) \in Nat /\ Len(we) = Len(w) + 1 /\ DOMAIN we = 1..(Len(w) + 1) /\ DOMAIN w = 1..Len(w)
        /\ we[Len(w) + 1] = e /\ \A i \in 1..Len(w) : we[i] = w[i]
    OBVIOUS
  <2> HIDE DEF we
  <2>3. some(w) \subseteq 1..Len(w)
    BY <2>2 DEF OfKind
  <2>4. CASE e.kind = "text" /\ e.all # <<>>
    <3>1. Len(w) + 1 \in some(we) /\ \A j \in some(we) : Len(w) + 1 >= j /\ j \in Nat
      BY <2>2, <2>4 DEF OfKind
    <3>2. last(we) = Len(w) + 1
      <4>1. last(we) \in some(we) /\ \A j \in some(we) : last(we) >= j
        BY <3>1
      <4> HIDE DEF last, some
      <4> QED BY <2>2, <3>1, <4>1
    <3> HIDE DEF last, some
    <3> QED BY <2>1, <2>2, <2>4, <3>1, <3>2 DEF we
  <2>5. CASE ~(e.kind = "text" /\ e.all # <<>>)
    <3>1. some(we) = some(w)
      BY <2>2, <2>5 DEF OfKind
    <3>2. last(we) = last(w)
      BY <3>1
    <3>3. some(w) # {} => last(w) \in some(w)
      <4> SUFFICES ASSUME some(w) # {} PROVE last(w) \in some(w)
        OBVIOUS
      <4>1. \E i \in some(w) : \A j \in some(w) : i >= j
        <5> HIDE DEF some
        <5> QED BY <2>2, <2>3, Greatest
      <4> QED BY <4>1
    <3> HIDE DEF last, some
    <3> QED BY <2>1, <2>2, <2>3, <2>5, <3>1, <3>2, <3>3 DEF we
  <2> QED BY <2>4, <2>5
<1> QED BY <1>1, <1>2

\* What comes before the end marker of an answer that has one, at its end.
LEMMA UpToDoneFacts ==
  /\ \A w \in Seq(Events) : OfKind(w, "done") = {} => UpToDone(w) = w
  /\ \A w \in Seq(Events), e \in Events :
       OfKind(w, "done") = {} /\ e.kind = "done" => UpToDone(Append(w, e)) = w
<1>1. \A w \in Seq(Events) : OfKind(w, "done") = {} => UpToDone(w) = w
  BY DEF UpToDone, OfKind
<1>2. ASSUME NEW w \in Seq(Events), NEW e \in Events, OfKind(w, "done") = {}, e.kind = "done"
      PROVE  UpToDone(Append(w, e)) = w
  <2> DEFINE we == Append(w, e)
             done == {i \in DOMAIN we : we[i].kind = "done"}
  <2>1. Len(w) \in Nat /\ Len(we) = Len(w) + 1 /\ DOMAIN we = 1..(Len(w) + 1) /\ DOMAIN w = 1..Len(w)
        /\ we[Len(w) + 1] = e /\ \A i \in 1..Len(w) : we[i] = w[i]
    OBVIOUS
  <2>2. UpToDone(we) = IF done = {} THEN we
                       ELSE SubSeq(we, 1, (CHOOSE i \in done : \A j \in done : i <= j) - 1)
    BY DEF UpToDone
  <2>3. SubSeq(we, 1, Len(w)) = w
    OBVIOUS
  <2>4. done = {Len(w) + 1}
    <3> HIDE DEF we
    <3> QED BY <1>2, <2>1 DEF OfKind
  <2> HIDE DEF we, done
  <2>5. (CHOOSE i \in done : \A j \in done : i <= j) = Len(w) + 1
    BY <2>1, <2>4
  <2>6. (Len(w) + 1) - 1 = Len(w)
    BY <2>1
  <2>7. UpToDone(we) = w
    BY <2>2, <2>3, <2>4, <2>5, <2>6
  <2> QED BY <2>7 DEF we
<1> QED BY <1>1, <1>2

\* How many events of a kind there are in an answer that goes on.
LEMMA CountFacts ==
  /\ Cardinality(OfKind(<<>>, "stop")) = 0
  /\ \A w \in Seq(Events) : Cardinality(OfKind(w, "stop")) \in Nat
  /\ \A w \in Seq(Events), e \in Events :
       Cardinality(OfKind(Append(w, e), "stop")) =
         Cardinality(OfKind(w, "stop")) + IF e.kind = "stop" THEN 1 ELSE 0
<1>1. Cardinality(OfKind(<<>>, "stop")) = 0
  <2>1. OfKind(<<>>, "stop") = {}
    BY DEF OfKind
  <2> QED BY <2>1, FS_EmptySet
<1>2. ASSUME NEW w \in Seq(Events) PROVE IsFiniteSet(OfKind(w, "stop"))
  <2>1. IsFiniteSet(1..Len(w))
    BY FS_Interval
  <2>2. OfKind(w, "stop") \subseteq 1..Len(w)
    BY DEF OfKind
  <2> QED BY <2>1, <2>2, FS_Subset
<1>3. \A w \in Seq(Events) : Cardinality(OfKind(w, "stop")) \in Nat
  BY <1>2, FS_CardinalityType
<1>4. ASSUME NEW w \in Seq(Events), NEW e \in Events
      PROVE  Cardinality(OfKind(Append(w, e), "stop")) =
               Cardinality(OfKind(w, "stop")) + IF e.kind = "stop" THEN 1 ELSE 0
  <2>1. CASE e.kind = "stop"
    <3>1. OfKind(Append(w, e), "stop") = OfKind(w, "stop") \cup {Len(w) + 1}
      BY <2>1 DEF OfKind
    <3>2. Len(w) + 1 \notin OfKind(w, "stop")
      BY DEF OfKind
    <3> QED BY <1>2, <2>1, <3>1, <3>2, FS_AddElement
  <2>2. CASE e.kind # "stop"
    <3>1. OfKind(Append(w, e), "stop") = OfKind(w, "stop")
      BY <2>2 DEF OfKind
    <3> QED BY <1>3, <2>2, <3>1
  <2> QED BY <2>1, <2>2
<1> QED BY <1>1, <1>3, <1>4

-----------------------------------------------------------------------------
(* The buffered folds of claude and glm, event by event. *)

Accs == [text : Text, pending : Seq(Frags), open : BOOLEAN, calls : Seq(Seq(Frags))]
Outs == {Nothing, Failed} \cup {TextDelta(v) : v \in Text}
Outcomes == [acc : Accs, out : Outs]

StepOf(name, a, e) == IF name = "claude" THEN ClaudeBuffered(a, e) ELSE GlmChunk(a, e)
FoldOf(name, w) == IF name = "claude" THEN Fold(ClaudeBuffered, w) ELSE Fold(GlmChunk, w)

\* One event more; nothing is read after an error.
Next1(name, r, e) == IF r.out = Failed THEN r ELSE StepOf(name, r.acc, e)

\* Say adds to the text, and to nothing else.
LEMMA SayType ==
  ASSUME NEW a \in Accs, NEW v \in Text
  PROVE  /\ Say(a, v) \in Accs
         /\ Say(a, v).text = Cat(a.text, v) /\ Say(a, v).pending = a.pending
         /\ Say(a, v).open = a.open /\ Say(a, v).calls = a.calls
<1>1. a.text \o v \in Text
  BY DEF Accs, Text
<1> QED BY <1>1 DEF Accs, Say, Cat

\* A sequence in which one element is replaced.
LEMMA ReplacedIn ==
  ASSUME NEW S, NEW s \in Seq(S), NEW k \in Nat, NEW x, k \in 1..Len(s) => x \in S
  PROVE  [s EXCEPT ![k] = x] \in Seq(S)
<1>1. PICK n \in Nat : n = Len(s) /\ s \in [1..n -> S]
  OBVIOUS
<1>2. [s EXCEPT ![k] = x] \in [1..n -> S]
  BY <1>1
<1>3. [1..n -> S] \subseteq Seq(S)
  OBVIOUS
<1> QED BY <1>2, <1>3

\* Accumulator::push yields an accumulator and an event.
LEMMA pushType ==
  ASSUME NEW a \in Accs, NEW e \in Events
  PROVE  push(a, e) \in Outcomes
<1>1. CASE e.kind = "text"
  <2>1. e.v \in Text /\ Say(a, e.v) \in Accs
    BY <1>1, SayType DEF Events
  <2> QED BY <1>1, <2>1 DEF push, Outcomes, Outs
<1>2. CASE e.kind = "tool"
  <2> DEFINE b == [a EXCEPT !.calls = Append(@, <<>>)]
  <2>1. Append(a.calls, <<>>) \in Seq(Seq(Frags))
    BY DEF Accs
  <2>2. b \in Accs
    BY <2>1 DEF Accs
  <2>3. push(a, e) = Same(b)
    BY <1>2 DEF push
  <2> HIDE DEF b
  <2> QED BY <2>2, <2>3 DEF Same, Outcomes, Outs
<1>3. CASE e.kind = "args"
  <2> DEFINE c == [a.calls EXCEPT ![Len(a.calls)] = Append(@, e.v)]
             b == [a EXCEPT !.calls[Len(a.calls)] = Append(@, e.v)]
  <2>1. e.v \in Frags /\ a.calls \in Seq(Seq(Frags))
    BY <1>3 DEF Events, Accs
  <2>2. \A i \in 1..Len(a.calls) : Append(a.calls[i], e.v) \in Seq(Frags)
    BY <2>1
  <2>3. c \in Seq(Seq(Frags))
    <3> DEFINE k == Len(a.calls)
               x == Append(a.calls[k], e.v)
    <3>1. k \in Nat /\ (k \in 1..Len(a.calls) => x \in Seq(Frags))
      BY <2>1, <2>2
    <3> HIDE DEF k, x
    <3>2. [a.calls EXCEPT ![k] = x] \in Seq(Seq(Frags))
      BY <2>1, <3>1, ReplacedIn
    <3> QED BY <3>2 DEF k, x
  <2>4. b \in Accs
    BY <2>3 DEF Accs
  <2>5. push(a, e) = Same(b)
    BY <1>3 DEF push
  <2> HIDE DEF b
  <2> QED BY <2>4, <2>5 DEF Same, Outcomes, Outs
<1>4. CASE e.kind \notin {"text", "tool", "args"}
  BY <1>4 DEF push, Same, Outcomes, Outs
<1> QED BY <1>1, <1>2, <1>3, <1>4

\* .. and so do the steps of both folds.
LEMMA StepType ==
  ASSUME NEW name, NEW a \in Accs, NEW e \in Events
  PROVE  StepOf(name, a, e) \in Outcomes
<1>1. ClaudeBuffered(a, e) \in Outcomes
  <2>1. Same(a) \in Outcomes /\ Raise(a) \in Outcomes
    BY DEF Same, Raise, Outcomes, Outs
  <2> QED BY <2>1, pushType DEF ClaudeBuffered
<1>2. GlmChunk(a, e) \in Outcomes
  <2>1. CASE e.kind = "text"
    <3>1. e.v \in Text /\ Say(a, e.v) \in Accs
      BY <2>1, SayType DEF Events
    <3> QED BY <2>1, <3>1 DEF GlmChunk, Outcomes, Outs
  <2>2. CASE e.kind # "text"
    <3>1. Same(a) \in Outcomes /\ Raise(a) \in Outcomes
      BY DEF Same, Raise, Outcomes, Outs
    <3> QED BY <2>2, <3>1 DEF GlmChunk
  <2> QED BY <2>1, <2>2
<1> QED BY <1>1, <1>2 DEF StepOf

\* So does the start.
LEMMA NewAccType == NewAcc \in Accs /\ Same(NewAcc) \in Outcomes
BY TextFacts DEF NewAcc, Accs, Same, Outcomes, Outs

\* .. and one event more.
LEMMA Next1Type ==
  ASSUME NEW name, NEW r \in Outcomes, NEW e \in Events
  PROVE  Next1(name, r, e) \in Outcomes
BY StepType DEF Next1, Outcomes

FoldUpto(name, f, w) ==
  f = [n \in 0..Len(w) |-> IF n = 0 THEN Same(NewAcc) ELSE Next1(name, f[n - 1], w[n])]

\* The local function of Fold exists ..
LEMMA FoldUptoExists ==
  ASSUME NEW name, NEW w \in Seq(Events)
  PROVE  \E f : FoldUpto(name, f, w) /\ f \in [0..Len(w) -> Outcomes]
<1> DEFINE F == [n \in Nat |-> [r \in Outcomes |-> IF n < Len(w) THEN Next1(name, r, w[n + 1]) ELSE r]]
<1>1. F \in [Nat -> [Outcomes -> Outcomes]]
  <2>1. ASSUME NEW n \in Nat, NEW r \in Outcomes, n < Len(w) PROVE Next1(name, r, w[n + 1]) \in Outcomes
    <3>1. n + 1 \in 1..Len(w)
      BY <2>1
    <3>2. w[n + 1] \in Events
      BY <3>1
    <3> QED BY <3>2, Next1Type
  <2> QED BY <2>1
<1>2. PICK g : RunsOn(g, Outcomes, Same(NewAcc), F)
  <2> HIDE DEF F
  <2> QED BY <1>1, NewAccType, Iterates
<1>3. g \in [Nat -> Outcomes] /\ g[0] = Same(NewAcc) /\ \A n \in Nat : g[n + 1] = F[n][g[n]]
  BY <1>2 DEF RunsOn
<1> DEFINE f == [n \in 0..Len(w) |-> g[n]]
<1>4. ASSUME NEW n \in 0..Len(w), n # 0 PROVE g[n] = Next1(name, g[n - 1], w[n])
  <2>1. n - 1 \in Nat /\ (n - 1) + 1 = n /\ n - 1 < Len(w)
    BY <1>4
  <2>2. g[n] = F[n - 1][g[n - 1]] /\ g[n - 1] \in Outcomes
    BY <1>3, <2>1
  <2> QED BY <2>1, <2>2
<1>5. f = [n \in 0..Len(w) |-> IF n = 0 THEN Same(NewAcc) ELSE Next1(name, f[n - 1], w[n])]
  <2>1. ASSUME NEW n \in 0..Len(w)
        PROVE  f[n] = IF n = 0 THEN Same(NewAcc) ELSE Next1(name, f[n - 1], w[n])
    <3>1. n # 0 => n - 1 \in 0..Len(w)
      OBVIOUS
    <3> QED BY <1>3, <1>4, <3>1
  <2> QED BY <2>1
<1>6. f \in [0..Len(w) -> Outcomes]
  BY <1>3
<1> HIDE DEF f
<1> QED BY <1>5, <1>6 DEF FoldUpto

\* .. goes on event by event ..
LEMMA FoldUptoStep ==
  ASSUME NEW name, NEW w, Len(w) \in Nat, NEW f, FoldUpto(name, f, w)
  PROVE  /\ f[0] = Same(NewAcc)
         /\ \A n \in 0..(Len(w) - 1) : f[n + 1] = Next1(name, f[n], w[n + 1])
<1>1. f[0] = Same(NewAcc)
  BY DEF FoldUpto
<1>2. ASSUME NEW n \in 0..(Len(w) - 1) PROVE f[n + 1] = Next1(name, f[n], w[n + 1])
  <2>1. n + 1 \in 0..Len(w) /\ n + 1 # 0 /\ (n + 1) - 1 = n
    OBVIOUS
  <2> QED BY <2>1 DEF FoldUpto
<1> QED BY <1>1, <1>2

\* .. and has the same value wherever the events so far are the same.
LEMMA FoldUptoUnique ==
  ASSUME NEW name,
         NEW ss, Len(ss) \in Nat, NEW f, FoldUpto(name, f, ss), NEW n \in Nat, n <= Len(ss),
         NEW tt, Len(tt) \in Nat, NEW g, FoldUpto(name, g, tt), n <= Len(tt),
         \A i \in 1..n : ss[i] = tt[i]
  PROVE  f[n] = g[n]
<1> DEFINE S == {i \in Nat : i <= n => f[i] = g[i]}
<1>0. /\ f[0] = Same(NewAcc) /\ \A i \in 0..(Len(ss) - 1) : f[i + 1] = Next1(name, f[i], ss[i + 1])
      /\ g[0] = Same(NewAcc) /\ \A i \in 0..(Len(tt) - 1) : g[i + 1] = Next1(name, g[i], tt[i + 1])
  <2>1. f[0] = Same(NewAcc) /\ \A i \in 0..(Len(ss) - 1) : f[i + 1] = Next1(name, f[i], ss[i + 1])
    BY FoldUptoStep
  <2>2. g[0] = Same(NewAcc) /\ \A i \in 0..(Len(tt) - 1) : g[i + 1] = Next1(name, g[i], tt[i + 1])
    BY FoldUptoStep
  <2> QED BY <2>1, <2>2
<1>1. 0 \in S
  BY <1>0
<1>2. ASSUME NEW i \in Nat, i \in S PROVE i + 1 \in S
  <2> SUFFICES ASSUME i + 1 <= n PROVE f[i + 1] = g[i + 1]
    OBVIOUS
  <2>1. f[i] = g[i] /\ ss[i + 1] = tt[i + 1] /\ i \in 0..(Len(ss) - 1) /\ i \in 0..(Len(tt) - 1)
    BY <1>2
  <2> QED BY <1>0, <2>1
<1>3. Nat \subseteq S
  <2> HIDE DEF S
  <2> QED BY <1>1, <1>2, SetInduction
<1> QED BY <1>3

\* So Fold is its last value.
LEMMA FoldIs ==
  ASSUME NEW name, NEW w \in Seq(Events)
  PROVE  \E f : FoldUpto(name, f, w) /\ f \in [0..Len(w) -> Outcomes] /\ FoldOf(name, w) = f[Len(w)]
<1>1. PICK h : FoldUpto(name, h, w) /\ h \in [0..Len(w) -> Outcomes]
  BY FoldUptoExists
<1>2. \E U : FoldUpto(name, U, w) /\ FoldOf(name, w) = U[Len(w)]
  <2>1. CASE name = "claude"
    <3> DEFINE P(f) == f = [n \in 0..Len(w) |->
                              IF n = 0 THEN Same(NewAcc)
                              ELSE IF f[n - 1].out = Failed THEN f[n - 1]
                              ELSE ClaudeBuffered(f[n - 1].acc, w[n])]
               U == CHOOSE f : P(f)
    <3>1. \A f : FoldUpto(name, f, w) <=> P(f)
      BY <2>1 DEF FoldUpto, Next1, StepOf
    <3>2. FoldOf(name, w) = U[Len(w)]
      BY <2>1 DEF FoldOf, Fold
    <3> HIDE DEF P
    <3>3. P(U)
      BY <1>1, <3>1
    <3> HIDE DEF U
    <3> QED BY <3>1, <3>2, <3>3
  <2>2. CASE name # "claude"
    <3> DEFINE P(f) == f = [n \in 0..Len(w) |->
                              IF n = 0 THEN Same(NewAcc)
                              ELSE IF f[n - 1].out = Failed THEN f[n - 1]
                              ELSE GlmChunk(f[n - 1].acc, w[n])]
               U == CHOOSE f : P(f)
    <3>1. \A f : FoldUpto(name, f, w) <=> P(f)
      BY <2>2 DEF FoldUpto, Next1, StepOf
    <3>2. FoldOf(name, w) = U[Len(w)]
      BY <2>2 DEF FoldOf, Fold
    <3> HIDE DEF P
    <3>3. P(U)
      BY <1>1, <3>1
    <3> HIDE DEF U
    <3> QED BY <3>1, <3>2, <3>3
  <2> QED BY <2>1, <2>2
<1>3. PICK U : FoldUpto(name, U, w) /\ FoldOf(name, w) = U[Len(w)]
  BY <1>2
<1>4. U \in [0..Len(w) -> Outcomes]
  <2>1. ASSUME NEW n \in 0..Len(w) PROVE U[n] = h[n]
    BY <1>1, <1>3, <2>1, FoldUptoUnique
  <2>2. DOMAIN U = 0..Len(w) /\ U = [n \in 0..Len(w) |-> U[n]]
    BY <1>3 DEF FoldUpto
  <2> QED BY <1>1, <2>1, <2>2
<1> QED BY <1>3, <1>4

\* What is needed of Fold: it starts anew, and takes one step per event.
LEMMA FoldFacts ==
  ASSUME NEW name
  PROVE  /\ FoldOf(name, <<>>) = Same(NewAcc)
         /\ \A w \in Seq(Events) : FoldOf(name, w) \in Outcomes
         /\ \A w \in Seq(Events), e \in Events :
              FoldOf(name, Append(w, e)) = Next1(name, FoldOf(name, w), e)
<1>1. FoldOf(name, <<>>) = Same(NewAcc)
  <2>1. <<>> \in Seq(Events) /\ Len(<<>>) = 0
    OBVIOUS
  <2>2. PICK f : FoldUpto(name, f, <<>>) /\ FoldOf(name, <<>>) = f[Len(<<>>)]
    BY <2>1, FoldIs
  <2> QED BY <2>1, <2>2 DEF FoldUpto
<1>2. ASSUME NEW w \in Seq(Events) PROVE FoldOf(name, w) \in Outcomes
  <2>1. PICK f : f \in [0..Len(w) -> Outcomes] /\ FoldOf(name, w) = f[Len(w)]
    BY FoldIs
  <2> QED BY <2>1
<1>3. ASSUME NEW w \in Seq(Events), NEW e \in Events
      PROVE  FoldOf(name, Append(w, e)) = Next1(name, FoldOf(name, w), e)
  <2> DEFINE we == Append(w, e)
  <2>1. we \in Seq(Events) /\ Len(w) \in Nat /\ Len(we) = Len(w) + 1 /\ we[Len(w) + 1] = e
        /\ \A i \in 1..Len(w) : w[i] = we[i]
    OBVIOUS
  <2> HIDE DEF we
  <2>2. PICK f : FoldUpto(name, f, w) /\ FoldOf(name, w) = f[Len(w)]
    BY FoldIs
  <2>3. PICK g : FoldUpto(name, g, we) /\ FoldOf(name, we) = g[Len(we)]
    BY <2>1, FoldIs
  <2>4. f[Len(w)] = g[Len(w)]
    <3>1. Len(w) \in Nat /\ Len(we) \in Nat /\ Len(w) <= Len(w) /\ Len(w) <= Len(we)
          /\ \A i \in 1..Len(w) : w[i] = we[i]
      BY <2>1
    <3> QED BY <2>2, <2>3, <3>1, FoldUptoUnique
  <2>5. Len(w) \in 0..(Len(we) - 1) /\ Len(we) \in Nat
    BY <2>1
  <2>6. g[Len(w) + 1] = Next1(name, g[Len(w)], we[Len(w) + 1])
    BY <2>3, <2>5, FoldUptoStep
  <2>7. FoldOf(name, we) = Next1(name, FoldOf(name, w), e)
    BY <2>1, <2>2, <2>3, <2>4, <2>6
  <2> QED BY <2>7 DEF we
<1> QED BY <1>1, <1>2, <1>3

-----------------------------------------------------------------------------
(* The inductive invariant. *)

AllBound == {"callback", "pull", "pyo3", "node", "server", "chunks"}
CallsOf(name) == IF name = "claude" THEN Seq(Seq(Frags)) ELSE Seq({"args", "empty"})
AccsOf(name) == [text : Text, pending : Seq(Frags), open : BOOLEAN, calls : CallsOf(name)]

Shape ==
    /\ adapter \in AllAdapters /\ binding \in AllBound
    /\ conn \in {"open", "eof", "reset"}
    /\ sent \in Seq(Events) /\ read \in 0..Len(sent)
    /\ acc \in AccsOf(adapter)
    /\ task \in {"opening", "polling", "ended"} /\ emitted \in BOOLEAN
    /\ chan \in Seq(Items) /\ got \in Seq(Text)
    /\ caller \in {"reading", "finished", "failed", "closed"}

\* The calls of a wire: what a call's block is after an event, and which
\* events may follow it.
BlockAfter(e) ==
    IF e.kind = "tool" THEN <<>>
    ELSE IF e.kind = "args" THEN (IF e.v = "{" THEN <<"{">> ELSE FullArgs)
    ELSE NoBlock
BlockAt(w, k) == IF k = 0 THEN NoBlock ELSE BlockAfter(w[k])
OpenBlock(w) == BlockAt(w, Len(w))
Follows(b, e) ==
    e.kind # "error" =>
        /\ b = NoBlock => e.kind \notin {"args", "stop"}
        /\ b = <<>> => e.kind = "args" /\ e.v = "{"
        /\ b = <<"{">> => e.kind = "args" /\ e.v = "}"
        /\ b = FullArgs => e.kind = "stop"

\* The upstream says one thing after the other, and nothing after its end.
Wire ==
    /\ \A i \in 1..Len(sent) : sent[i].kind \in {"error", "done"} => i = Len(sent)
    /\ LastSnapshot(sent) = Said
    /\ block = OpenBlock(sent)
    /\ \A i \in 1..Len(sent) : Follows(BlockAt(sent, i - 1), sent[i])
    /\ "stop" \in Kinds(sent) \/ block # NoBlock => "tool" \in Kinds(sent)

Opening ==
    task = "opening" =>
        /\ read = 0 /\ acc = NewAcc /\ replay = <<>>
        /\ got = <<>> /\ chan = <<>> /\ ~emitted

WasRead == SubSeq(sent, 1, read)

\* A streaming adapter in its loop has kept what it read, and no error.
Reading ==
    task = "polling" /\ adapter \in Streaming =>
        /\ replay = <<>>
        /\ acc.text = Deltas(WasRead)
        /\ adapter \in {"claude", "anthropic", "glm"} => "error" \notin Kinds(WasRead)
        /\ adapter = "claude" => "junk" \notin Kinds(WasRead)
        /\ adapter \in BreaksAtDone => "done" \notin Kinds(WasRead)

\* .. and its calls are those that ended, with the one that is open.
Stops(w) == Cardinality(OfKind(w, "stop"))
ClaudeHas(calls, b, m) ==
    /\ Len(calls) = m + IF b = NoBlock THEN 0 ELSE 1
    /\ \A i \in 1..Len(calls) : calls[i] = IF b # NoBlock /\ i = Len(calls) THEN b ELSE FullArgs
AnthropicHas(a, b, m) ==
    /\ (b # NoBlock) <=> a.open
    /\ a.open => a.pending = b
    /\ Len(a.calls) = m
    /\ \A i \in 1..Len(a.calls) : a.calls[i] = "args"
CallsOfClaude ==
    task = "polling" /\ adapter = "claude" => ClaudeHas(acc.calls, OpenBlock(WasRead), Stops(WasRead))
CallsOfAnthropic ==
    task = "polling" /\ adapter = "anthropic" => AnthropicHas(acc, OpenBlock(WasRead), Stops(WasRead))

\* The two adapters that buffer by the same steps as they stream.
SameFold ==
    task = "polling" /\ adapter \in {"claude", "glm"} =>
        FoldOf(adapter, WasRead).acc = acc /\ FoldOf(adapter, WasRead).out # Failed

GivesUpText == adapter = "perplexity" /\ "tool" \in Kinds(sent)

\* The whole answer that chat makes of a body, unless it fails.
CallLists == {WholeCalls(sent), <<>>, [i \in 1..Cardinality(OfKind(sent, "tool")) |-> "empty"]}
Answer(t, cs) ==
  /\ t \in {<<>>, Said} /\ cs \in CallLists
  /\ t = Said \/ GivesUpText
  /\ adapter \in ReadsErrors => "error" \notin Kinds(sent)

\* A buffering adapter has the answer in hand.
Holds(t, cs) ==
    /\ Answer(t, cs)
    /\ \/ replay = <<AsDone(t, cs)>>
       \/ replay = <<TextDelta(t), AsDone(t, cs)>> /\ adapter \in Replaying
InHand ==
    task = "polling" /\ adapter \notin Streaming =>
        conn = "eof" /\ \E t \in {<<>>, Said}, cs \in CallLists : Holds(t, cs)

\* What the loop has handed over of the text.
Passed ==
    IF adapter \in Streaming THEN Deltas(WasRead)
    ELSE IF Len(replay) = 1 /\ adapter \in Replaying THEN replay[1].resp.text
    ELSE <<>>

Looping ==
    /\ task # "ended" => caller \in {"reading", "closed"}
                         /\ \A i \in 1..Len(chan) : chan[i].item = "text"
    /\ task = "polling" /\ caller = "reading" => Delivered = Passed
    /\ task = "polling" /\ binding \in {"callback", "pull", "server"} /\ ~emitted => Passed = <<>>
    /\ task = "polling" /\ adapter \in DoneOnly => ~emitted /\ (binding = "chunks" => got = <<>>)

Channel ==
    /\ binding \in Direct => chan = <<>>
    /\ caller \in {"closed", "finished"} => chan = <<>>
    /\ caller = "closed" => binding \in {"pull", "pyo3"}
    /\ \A i \in 1..Len(chan) : chan[i].item = "end" => i = Len(chan)

\* Nothing more is said.
Silent == conn # "open" \/ Finished

NeverAhead ==
    \/ IsPrefix(Delivered, Said)
    \/ /\ binding \in SendsTwice /\ task = "ended" /\ Silent
       /\ \E again \in {Said, Trimmed(Said)} : IsPrefix(Delivered, Said \o again)

\* What a caller may be told of a stream that has ended well.
EndedWell ==
    /\ Silent
    /\ adapter \in ReadsErrors => "error" \notin Kinds(sent)
    /\ ~Finished => conn # "reset"
    /\ binding \notin SendsTwice /\ ~GivesUpText => Delivered = Said

ToldRight ==
    binding # "node" =>
        /\ caller = "finished" => EndedWell
        /\ \A i \in 1..Len(chan) :
              chan[i].item = "end" =>
                 EndedWell \/ caller = "failed" \/ \E j \in 1..(i - 1) : chan[j].item = "error"

IInv == /\ Shape /\ Wire /\ Opening /\ Reading /\ CallsOfClaude /\ CallsOfAnthropic /\ SameFold
        /\ InHand /\ Looping /\ Channel /\ NeverAhead /\ ToldRight

-----------------------------------------------------------------------------
(* What the loop of a binding does with an event of the stream. *)

\* The events of a stream differ in their kind.
LEMMA EventFacts ==
  /\ Nothing.ev = "nothing" /\ Failed.ev = "error"
  /\ \A v : TextDelta(v).ev = "delta" /\ TextDelta(v).text = v
  /\ \A t, cs : AsDone(t, cs).ev = "done" /\ AsDone(t, cs).resp.text = t
  /\ \A v : TextDelta(v) # Nothing /\ TextDelta(v) # Failed
  /\ \A t, cs : AsDone(t, cs) # Nothing /\ AsDone(t, cs) # Failed
  /\ Failed # Nothing
<1>1. Nothing.ev = "nothing" /\ Failed.ev = "error"
  BY DEF Nothing, Failed
<1>2. \A v : TextDelta(v).ev = "delta" /\ TextDelta(v).text = v
  BY DEF TextDelta
<1>3. \A t, cs : AsDone(t, cs).ev = "done" /\ AsDone(t, cs).resp.text = t
  BY DEF AsDone
<1> QED BY <1>1, <1>2, <1>3

\* What is handed over with a channel ch and texts g.
Handed2(g, ch) == Cat(Flat(g), WayOf(ch))

\* What was handed over: a text more at either end, or an item received.
LEMMA HandedFacts ==
  /\ Delivered = Handed2(got, chan) /\ Delivered' = Handed2(got', chan')
  /\ Handed2(<<>>, <<>>) = <<>>
  /\ \A g \in Seq(Text), ch \in Seq(Items) : Handed2(g, ch) \in Text
  /\ \A g \in Seq(Text) : Handed2(g, <<>>) = Flat(g)
  /\ \A g \in Seq(Text), v \in Text : Handed2(Append(g, v), <<>>) = Cat(Handed2(g, <<>>), v)
  /\ \A g \in Seq(Text), ch \in Seq(Items), it \in Items :
       Handed2(g, Append(ch, it)) = Cat(Handed2(g, ch), TextOf(it))
  /\ \A g \in Seq(Text), ch \in Seq(Items) :
       ch # <<>> => Handed2(Append(g, TextOf(Head(ch))), Tail(ch)) = Handed2(g, ch)
  /\ \A g \in Seq(Text), ch \in Seq(Items) :
       ch # <<>> /\ TextOf(Head(ch)) = <<>> => Handed2(g, Tail(ch)) = Handed2(g, ch)
<1>1. Delivered = Handed2(got, chan) /\ Delivered' = Handed2(got', chan')
  BY DEF Delivered, OnTheWay, Handed2, Cat, WayOf
<1>2. Handed2(<<>>, <<>>) = <<>>
  BY FlatFacts, WayFacts, TextFacts DEF Handed2
<1>3. \A g \in Seq(Text), ch \in Seq(Items) : Handed2(g, ch) \in Text
  BY FlatFacts, WayFacts, TextFacts DEF Handed2
<1>4. \A g \in Seq(Text) : Handed2(g, <<>>) = Flat(g)
  BY FlatFacts, WayFacts, TextFacts DEF Handed2
<1>5. ASSUME NEW g \in Seq(Text), NEW v \in Text
      PROVE  Handed2(Append(g, v), <<>>) = Cat(Handed2(g, <<>>), v)
  <2>1. Append(g, v) \in Seq(Text) /\ Flat(Append(g, v)) = Cat(Flat(g), v)
    BY FlatFacts
  <2> QED BY <1>4, <2>1
<1>6. ASSUME NEW g \in Seq(Text), NEW ch \in Seq(Items), NEW it \in Items
      PROVE  Handed2(g, Append(ch, it)) = Cat(Handed2(g, ch), TextOf(it))
  <2>1. WayOf(Append(ch, it)) = Cat(WayOf(ch), TextOf(it)) /\ WayOf(ch) \in Text
        /\ TextOf(it) \in Text /\ Flat(g) \in Text
    BY FlatFacts, WayFacts, ItemFacts
  <2> QED BY <2>1, TextFacts DEF Handed2
<1>7. ASSUME NEW g \in Seq(Text), NEW ch \in Seq(Items), ch # <<>>
      PROVE  /\ Handed2(Append(g, TextOf(Head(ch))), Tail(ch)) = Handed2(g, ch)
             /\ TextOf(Head(ch)) = <<>> => Handed2(g, Tail(ch)) = Handed2(g, ch)
  <2>1. Head(ch) \in Items /\ Tail(ch) \in Seq(Items)
    BY <1>7
  <2>2. WayOf(ch) = Cat(TextOf(Head(ch)), WayOf(Tail(ch))) /\ WayOf(Tail(ch)) \in Text
        /\ TextOf(Head(ch)) \in Text /\ Flat(g) \in Text
        /\ Flat(Append(g, TextOf(Head(ch)))) = Cat(Flat(g), TextOf(Head(ch)))
    BY <1>7, <2>1, FlatFacts, WayFacts, ItemFacts
  <2> QED BY <2>2, TextFacts DEF Handed2
<1> QED BY <1>1, <1>2, <1>3, <1>4, <1>5, <1>6, <1>7

\* What Done and an error put on a channel, item by item.
LEMMA PushTwo ==
  ASSUME NEW ch \in Seq(Items), NEW a \in Items, NEW b \in Items
  PROVE  /\ ch \o <<>> = ch
         /\ ch \o <<a>> = Append(ch, a)
         /\ ch \o <<a, b>> = Append(Append(ch, a), b)
<1>1. ch \o <<>> = ch
  OBVIOUS
<1>2. ch \o <<a>> = Append(ch, a)
  OBVIOUS
<1>3. ch \o <<a, b>> = Append(Append(ch, a), b)
  OBVIOUS
<1> QED BY <1>1, <1>2, <1>3

Handling == Shape /\ Looping /\ Channel /\ task # "ended"

\* The loop of a binding, given a delta ..
LEMMA OnDelta ==
  ASSUME Handling, NEW v \in Text, On(TextDelta(v))
  PROVE  /\ caller' = caller /\ emitted' \in BOOLEAN /\ task' \in {task, "ended"}
         /\ caller = "reading" => task' = task
         /\ \/ chan' = chan /\ got' = got /\ (v = <<>> \/ caller = "closed")
            \/ chan' = chan /\ got' = Append(got, v) /\ binding \in Direct
            \/ chan' = Append(chan, Item(v)) /\ got' = got /\ binding \notin Direct /\ caller = "reading"
         /\ binding \in {"callback", "pull", "server"} => emitted'
<1> DEFINE x == TextDelta(v)
<1>0. x.ev = "delta" /\ x.text = v
  BY EventFacts
<1>1. caller \in {"reading", "closed"} /\ emitted \in BOOLEAN /\ binding \in AllBound
      /\ (caller = "closed" => binding \in {"pull", "pyo3"})
  BY DEF Handling, Shape, Looping, Channel
<1> HIDE DEF x
<1>2. CASE binding = "callback"
  <2>1. CallbackOn(x)
    BY <1>2 DEF On, x
  <2> QED BY <1>0, <1>1, <1>2, <2>1 DEF CallbackOn, Direct
<1>3. CASE binding = "chunks"
  <2>1. ChunksOn(x)
    BY <1>3 DEF On, x
  <2> QED BY <1>0, <1>1, <1>3, <2>1 DEF ChunksOn, Direct
<1>4. CASE binding = "pull"
  <2>1. PullOn(x)
    BY <1>4 DEF On, x
  <2> QED BY <1>0, <1>1, <1>4, <2>1 DEF PullOn, Receiver, Emit, Direct
<1>5. CASE binding = "pyo3"
  <2>1. Pyo3On(x)
    BY <1>5 DEF On, x
  <2> QED BY <1>0, <1>1, <1>5, <2>1 DEF Pyo3On, Receiver, Emit, Direct
<1>6. CASE binding = "node"
  <2>1. NodeOn(x)
    BY <1>6 DEF On, x
  <2> QED BY <1>0, <1>1, <1>6, <2>1 DEF NodeOn, Emit, Direct
<1>7. CASE binding = "server"
  <2>1. ServerOn(x)
    BY <1>7 DEF On, x
  <2> QED BY <1>0, <1>1, <1>7, <2>1 DEF ServerOn, Emit, Direct
<1> QED BY <1>1, <1>2, <1>3, <1>4, <1>5, <1>6, <1>7 DEF AllBound

\* What Done adds to the text that was handed over.
DoneAdds(t) ==
    IF binding \in SendsTwice THEN t
    ELSE IF binding = "chunks" THEN (IF got = <<>> THEN t ELSE <<>>)
    ELSE IF emitted THEN <<>> ELSE t

\* .. given Done ..
LEMMA OnDone ==
  ASSUME Handling, NEW t \in Text, NEW cs, On(AsDone(t, cs))
  PROVE  /\ task' = "ended" /\ emitted' = emitted
         /\ caller = "closed" => caller' = caller /\ chan' = chan /\ got' = got
         /\ caller = "reading" /\ binding \in Direct =>
              /\ caller' = "finished" /\ chan' = chan
              /\ \/ got' = got /\ DoneAdds(t) = <<>>
                 \/ got' = Append(got, t) /\ DoneAdds(t) = t
         /\ caller = "reading" /\ binding \notin Direct =>
              /\ caller' = caller /\ got' = got
              /\ \/ chan' = Append(chan, EndItem) /\ DoneAdds(t) = <<>>
                 \/ chan' = Append(Append(chan, Item(t)), EndItem) /\ DoneAdds(t) = t
<1> DEFINE x == AsDone(t, cs)
<1>0. x.ev = "done" /\ x.resp.text = t
  BY EventFacts
<1>1. caller \in {"reading", "closed"} /\ emitted \in BOOLEAN /\ binding \in AllBound
      /\ (caller = "closed" => binding \in {"pull", "pyo3"}) /\ chan \in Seq(Items) /\ got \in Seq(Text)
  BY DEF Handling, Shape, Looping, Channel
<1>9. /\ chan \o <<>> = chan
      /\ chan \o <<EndItem>> = Append(chan, EndItem)
      /\ chan \o <<Item(t), EndItem>> = Append(Append(chan, Item(t)), EndItem)
  BY <1>1, ItemFacts, PushTwo
<1> HIDE DEF x
<1>2. CASE binding = "callback"
  <2>1. CallbackOn(x)
    BY <1>2 DEF On, x
  <2> QED BY <1>0, <1>1, <1>2, <2>1 DEF CallbackOn, Finish, Direct, DoneAdds, SendsTwice
<1>3. CASE binding = "chunks"
  <2>1. ChunksOn(x)
    BY <1>3 DEF On, x
  <2>2. <<t>> = Append(<<>>, t)
    OBVIOUS
  <2> QED BY <1>0, <1>1, <1>3, <2>1, <2>2 DEF ChunksOn, Finish, Direct, DoneAdds, SendsTwice
<1>4. CASE binding = "pull"
  <2>1. PullOn(x)
    BY <1>4 DEF On, x
  <2> QED BY <1>0, <1>1, <1>4, <1>9, <2>1, Zenon DEF PullOn, Receiver, Push, Direct, DoneAdds, SendsTwice
<1>5. CASE binding = "pyo3"
  <2>1. Pyo3On(x)
    BY <1>5 DEF On, x
  <2> QED BY <1>0, <1>1, <1>5, <1>9, <2>1, Zenon DEF Pyo3On, Receiver, Push, Direct, DoneAdds, SendsTwice
<1>6. CASE binding = "node"
  <2>1. NodeOn(x)
    BY <1>6 DEF On, x
  <2> QED BY <1>0, <1>1, <1>6, <1>9, <2>1, Zenon DEF NodeOn, Push, Direct, DoneAdds, SendsTwice
<1>7. CASE binding = "server"
  <2>1. ServerOn(x)
    BY <1>7 DEF On, x
  <2> QED BY <1>0, <1>1, <1>7, <1>9, <2>1, Zenon DEF ServerOn, Push, Direct, DoneAdds, SendsTwice
<1> QED BY <1>1, <1>2, <1>3, <1>4, <1>5, <1>6, <1>7 DEF AllBound

\* .. and given an error.
LEMMA OnFailed ==
  ASSUME Handling, On(Failed)
  PROVE  /\ task' = "ended" /\ emitted' = emitted
         /\ caller = "closed" => caller' = caller /\ chan' = chan /\ got' = got
         /\ caller = "reading" /\ binding \in Direct =>
              caller' = "failed" /\ chan' = chan /\ got' \in {got, <<>>}
         /\ caller = "reading" /\ binding \notin Direct =>
              /\ caller' = caller /\ got' = got
              /\ \/ chan' = Append(chan, EndItem) /\ binding = "node"
                 \/ chan' = Append(Append(chan, ErrItem), EndItem)
<1> DEFINE x == Failed
<1>0. x.ev = "error"
  BY EventFacts
<1>1. caller \in {"reading", "closed"} /\ emitted \in BOOLEAN /\ binding \in AllBound
      /\ (caller = "closed" => binding \in {"pull", "pyo3"}) /\ chan \in Seq(Items) /\ got \in Seq(Text)
  BY DEF Handling, Shape, Looping, Channel
<1>9. /\ chan \o <<>> = chan
      /\ chan \o <<EndItem>> = Append(chan, EndItem)
      /\ chan \o <<ErrItem, EndItem>> = Append(Append(chan, ErrItem), EndItem)
  BY <1>1, ItemFacts, PushTwo
<1> HIDE DEF x
<1>2. CASE binding = "callback"
  <2>1. CallbackOn(x)
    BY <1>2 DEF On, x
  <2> QED BY <1>0, <1>1, <1>2, <2>1 DEF CallbackOn, Finish, Direct
<1>3. CASE binding = "chunks"
  <2>1. ChunksOn(x)
    BY <1>3 DEF On, x
  <2> QED BY <1>0, <1>1, <1>3, <2>1 DEF ChunksOn, Finish, Direct
<1>4. CASE binding = "pull"
  <2>1. PullOn(x)
    BY <1>4 DEF On, x
  <2> QED BY <1>0, <1>1, <1>4, <1>9, <2>1, Zenon DEF PullOn, Receiver, Push, Direct
<1>5. CASE binding = "pyo3"
  <2>1. Pyo3On(x)
    BY <1>5 DEF On, x
  <2> QED BY <1>0, <1>1, <1>5, <1>9, <2>1, Zenon DEF Pyo3On, Receiver, Push, Direct
<1>6. CASE binding = "node"
  <2>1. NodeOn(x)
    BY <1>6 DEF On, x
  <2> QED BY <1>0, <1>1, <1>6, <1>9, <2>1, Zenon DEF NodeOn, Push, Direct
<1>7. CASE binding = "server"
  <2>1. ServerOn(x)
    BY <1>7 DEF On, x
  <2> QED BY <1>0, <1>1, <1>7, <1>9, <2>1, Zenon DEF ServerOn, Push, Direct
<1> QED BY <1>1, <1>2, <1>3, <1>4, <1>5, <1>6, <1>7 DEF AllBound

-----------------------------------------------------------------------------
(* What was read of a wire, and what is left. *)

First(w, k) == SubSeq(w, 1, k)

\* First parts of a wire, and the event after them.
LEMMA FirstFacts ==
  /\ WasRead = First(sent, read) /\ WasRead' = First(sent', read')
  /\ \A w \in Seq(Events) : First(w, 0) = <<>> /\ First(w, Len(w)) = w
  /\ \A w \in Seq(Events), k \in Nat : k <= Len(w) =>
       /\ First(w, k) \in Seq(Events) /\ Len(First(w, k)) = k
       /\ \A i \in 1..k : First(w, k)[i] = w[i]
       /\ k < Len(w) => First(w, k + 1) = Append(First(w, k), w[k + 1]) /\ w[k + 1] \in Events
       /\ \A e \in Events : First(Append(w, e), k) = First(w, k)
<1>1. WasRead = First(sent, read) /\ WasRead' = First(sent', read')
  BY DEF WasRead, First
<1>2. ASSUME NEW w \in Seq(Events) PROVE First(w, 0) = <<>> /\ First(w, Len(w)) = w
  BY DEF First
<1>3. ASSUME NEW w \in Seq(Events), NEW k \in Nat, k <= Len(w)
      PROVE  /\ First(w, k) \in Seq(Events) /\ Len(First(w, k)) = k
             /\ \A i \in 1..k : First(w, k)[i] = w[i]
  BY <1>3 DEF First
<1>4. ASSUME NEW w \in Seq(Events), NEW k \in Nat, k < Len(w)
      PROVE  First(w, k + 1) = Append(First(w, k), w[k + 1]) /\ w[k + 1] \in Events
  <2>1. k + 1 \in 1..Len(w)
    BY <1>4
  <2>2. w[k + 1] \in Events
    BY <2>1
  <2>3. First(w, k + 1) \in Seq(Events) /\ Len(First(w, k + 1)) = k + 1
        /\ First(w, k) \in Seq(Events) /\ Len(First(w, k)) = k
        /\ (\A i \in 1..(k + 1) : First(w, k + 1)[i] = w[i]) /\ (\A i \in 1..k : First(w, k)[i] = w[i])
    BY <1>3, <1>4, <2>1
  <2> QED BY <2>2, <2>3
<1>5. ASSUME NEW w \in Seq(Events), NEW k \in Nat, k <= Len(w), NEW e \in Events
      PROVE  First(Append(w, e), k) = First(w, k)
  <2> DEFINE we == Append(w, e)
  <2>1. we \in Seq(Events) /\ Len(we) = Len(w) + 1 /\ \A i \in 1..k : we[i] = w[i]
    BY <1>5
  <2> HIDE DEF we
  <2>2. k <= Len(we)
    BY <1>5, <2>1
  <2>3. First(we, k) \in Seq(Events) /\ Len(First(we, k)) = k /\ \A i \in 1..k : First(we, k)[i] = we[i]
    BY <1>3, <2>1, <2>2
  <2>4. First(w, k) \in Seq(Events) /\ Len(First(w, k)) = k /\ (\A i \in 1..k : First(w, k)[i] = w[i])
    BY <1>3, <1>5
  <2>5. First(we, k) = First(w, k)
    <3> DEFINE a == First(we, k)
               b == First(w, k)
    <3>1. a \in Seq(Events) /\ b \in Seq(Events) /\ Len(a) = Len(b) /\ \A i \in 1..Len(a) : a[i] = b[i]
      BY <2>1, <2>3, <2>4
    <3> HIDE DEF a, b
    <3>2. a = b
      BY <3>1
    <3> QED BY <3>2 DEF a, b
  <2> QED BY <2>5 DEF we
<1> QED BY <1>1, <1>2, <1>3, <1>4, <1>5

\* What was read says a first part of the whole.
LEMMA DeltasPrefix ==
  ASSUME NEW w \in Seq(Events), NEW k \in Nat, k <= Len(w)
  PROVE  Deltas(First(w, k)) \in Text /\ IsPrefix(Deltas(First(w, k)), Deltas(w))
<1> DEFINE Q(n) == k + n <= Len(w) => IsPrefix(Deltas(First(w, k)), Deltas(First(w, k + n)))
           S == {n \in Nat : Q(n)}
<1>1. \A n \in Nat : n <= Len(w) => Deltas(First(w, n)) \in Text
  BY FirstFacts, DeltasFacts
<1>2. Q(0)
  BY <1>1, PrefixFacts
<1>3. ASSUME NEW n \in Nat, Q(n) PROVE Q(n + 1)
  <2> SUFFICES ASSUME k + (n + 1) <= Len(w)
               PROVE  IsPrefix(Deltas(First(w, k)), Deltas(First(w, k + (n + 1))))
    OBVIOUS
  <2> DEFINE m == k + n
  <2>1. m \in Nat /\ m < Len(w) /\ m <= Len(w) /\ m + 1 = k + (n + 1) /\ m + 1 <= Len(w)
    OBVIOUS
  <2>2. IsPrefix(Deltas(First(w, k)), Deltas(First(w, m)))
    BY <1>3, <2>1
  <2> HIDE DEF m
  <2>3. First(w, m + 1) = Append(First(w, m), w[m + 1]) /\ w[m + 1] \in Events /\ First(w, m) \in Seq(Events)
    BY <2>1, FirstFacts
  <2>4. Deltas(First(w, m + 1)) = Cat(Deltas(First(w, m)), SaidBy(w[m + 1]))
    BY <2>3, DeltasFacts
  <2>5. Deltas(First(w, k)) \in Text /\ Deltas(First(w, m)) \in Text /\ Deltas(First(w, m + 1)) \in Text
        /\ SaidBy(w[m + 1]) \in Text
    BY <1>1, <2>1, <2>3, SaidByType
  <2>6. IsPrefix(Deltas(First(w, m)), Deltas(First(w, m + 1)))
    BY <2>4, <2>5, PrefixFacts
  <2>7. IsPrefix(Deltas(First(w, k)), Deltas(First(w, m + 1)))
    BY <2>2, <2>5, <2>6, PrefixFacts
  <2> QED BY <2>1, <2>7
<1> HIDE DEF Q
<1>4. Nat \subseteq S
  <2>1. 0 \in S /\ \A n \in Nat : n \in S => n + 1 \in S
    BY <1>2, <1>3
  <2> HIDE DEF S
  <2> QED BY <2>1, SetInduction
<1>5. Q(Len(w) - k)
  <2>1. Len(w) - k \in Nat
    OBVIOUS
  <2> QED BY <1>4, <2>1
<1>6. k + (Len(w) - k) = Len(w)
  OBVIOUS
<1>7. IsPrefix(Deltas(First(w, k)), Deltas(First(w, Len(w))))
  BY <1>5, <1>6 DEF Q
<1> QED BY <1>1, <1>7, FirstFacts

\* What a buffering adapter that stops at [DONE] reads is all that was said.
LEMMA UpToDoneSays ==
  ASSUME Shape, Wire
  PROVE  /\ LastSnapshot(UpToDone(sent)) = Said /\ Deltas(UpToDone(sent)) = Said
         /\ "error" \in Kinds(sent) => "error" \in Kinds(UpToDone(sent))
<1> DEFINE n == Len(sent)
<1>1. sent \in Seq(Events) /\ n \in Nat /\ LastSnapshot(sent) = Said /\ Said = Deltas(sent)
      /\ \A i \in 1..n : sent[i].kind \in {"error", "done"} => i = n
  BY DEF Shape, Wire, Said
<1>2. CASE OfKind(sent, "done") = {}
  BY <1>1, <1>2, UpToDoneFacts
<1>3. CASE OfKind(sent, "done") # {}
  <2>1. PICK d \in 1..n : sent[d].kind = "done"
    BY <1>1, <1>3 DEF OfKind
  <2>2. n \in 1..n /\ sent[n].kind = "done" /\ n - 1 \in Nat /\ n - 1 < n /\ (n - 1) + 1 = n
    BY <1>1, <2>1
  <2> DEFINE u == First(sent, n - 1)
             e == sent[n]
             m == n - 1
  <2>3. sent = Append(u, e) /\ u \in Seq(Events) /\ e \in Events /\ e.kind = "done" /\ Len(u) = m
        /\ \A i \in 1..m : u[i] = sent[i]
    <3>0. m \in Nat /\ m <= Len(sent) /\ m < Len(sent) /\ m + 1 = Len(sent)
      BY <2>2
    <3> HIDE DEF m
    <3>1. First(sent, m + 1) = Append(First(sent, m), sent[m + 1]) /\ sent[m + 1] \in Events
          /\ First(sent, m) \in Seq(Events) /\ Len(First(sent, m)) = m
          /\ \A i \in 1..m : First(sent, m)[i] = sent[i]
      BY <1>1, <3>0, FirstFacts
    <3>2. First(sent, Len(sent)) = sent
      BY <1>1, FirstFacts
    <3> QED BY <2>2, <3>0, <3>1, <3>2 DEF m
  <2>4. OfKind(u, "done") = {}
    <3>0. n \in Nat /\ m = n - 1
      BY <1>1
    <3>2. DOMAIN u = 1..m
      BY <2>3
    <3> HIDE DEF u, m, n, e
    <3>1. \A i \in 1..m : i # n /\ i \in 1..n
      BY <3>0
    <3> QED BY <1>1, <2>3, <3>1, <3>2 DEF OfKind
  <2> HIDE DEF u, e
  <2>5. UpToDone(sent) = u
    BY <2>3, <2>4, UpToDoneFacts
  <2>6. Deltas(sent) = Cat(Deltas(u), SaidBy(e)) /\ Deltas(u) \in Text /\ SaidBy(e) = <<>>
    BY <2>3, DeltasFacts DEF SaidBy
  <2>7. LastSnapshot(sent) = LastSnapshot(u)
    BY <2>3, LastSnapshotFacts
  <2>8. "error" \notin Kinds(sent)
    <3>1. DOMAIN sent = 1..n
      BY <1>1
    <3>2. \A i \in 1..n : sent[i].kind # "error"
      BY <1>1, <2>2
    <3> HIDE DEF n
    <3> QED BY <3>1, <3>2 DEF Kinds
  <2> QED BY <1>1, <2>5, <2>6, <2>7, <2>8, TextFacts
<1> QED BY <1>2, <1>3

Empties == [i \in 1..Cardinality(OfKind(sent, "tool")) |-> "empty"]

\* What chat of a buffering adapter makes of a body: all of its text, or none
\* where calls replace it, and no success of a body with an error it reads.
LEMMA BufferedAnswer ==
  ASSUME Shape, Wire, adapter \notin Streaming, ChatOf(adapter, sent) # Failed
  PROVE  \E t, cs : Answer(t, cs) /\ ChatOf(adapter, sent) = AsDone(t, cs)
<1>1. sent \in Seq(Events) /\ Said = Deltas(sent) /\ LastSnapshot(sent) = Said
      /\ adapter \in {"chatgpt", "gemini", "kiro", "perplexity", "codex", "cursor", "windsurf",
                      "gemini_cli", "antigravity"}
  BY DEF Shape, Wire, Said, AllAdapters, Streaming, Replaying, DoneOnly
<1>2. CASE adapter = "chatgpt"
  <2>1. ChatOf(adapter, sent) = accumulate_sse(UpToDone(sent))
    BY <1>2 DEF ChatOf, ChatgptChat
  <2>2. "error" \notin Kinds(UpToDone(sent)) /\ accumulate_sse(UpToDone(sent)) = AsDone(Said, <<>>)
    BY <2>1, UpToDoneSays DEF accumulate_sse
  <2>3. Answer(Said, <<>>)
    BY <2>2, UpToDoneSays DEF Answer, CallLists
  <2> QED BY <2>1, <2>2, <2>3
<1>3. CASE adapter = "gemini"
  <2>1. ChatOf(adapter, sent) = GeminiChat(sent)
    BY <1>3 DEF ChatOf
  <2>2. GeminiChat(sent) = AsDone(Said, <<>>)
    BY <1>1, <2>1 DEF GeminiChat, parse_parts
  <2>3. Answer(Said, <<>>)
    BY <1>3 DEF Answer, CallLists, Empties, ReadsErrors
  <2> QED BY <2>1, <2>2, <2>3
<1>4. CASE adapter = "kiro"
  <2>1. ChatOf(adapter, sent) = KiroChat(sent)
    BY <1>4 DEF ChatOf
  <2>2. Parsed(<<>>) = "empty"
    BY DEF Parsed, FullArgs
  <2>3. KiroChat(sent) = AsDone(Said, Empties)
    BY <1>1, <2>2 DEF KiroChat, Empties
  <2>4. Answer(Said, Empties)
    BY <1>4 DEF Answer, CallLists, Empties, ReadsErrors
  <2> QED BY <2>1, <2>3, <2>4
<1>5. CASE adapter = "perplexity"
  <2>1. ChatOf(adapter, sent) = PerplexityChat(sent)
    BY <1>5 DEF ChatOf
  <2>2. CASE WholeCalls(sent) # <<>>
    <3>1. PerplexityChat(sent) = AsDone(<<>>, WholeCalls(sent))
      BY <2>2 DEF PerplexityChat, parse_sse_response
    <3>2. "stop" \in Kinds(sent)
      <4> SUFFICES ASSUME "stop" \notin Kinds(sent) PROVE FALSE
        OBVIOUS
      <4>1. OfKind(sent, "stop") = {}
        BY DEF Kinds, OfKind
      <4>2. Cardinality(OfKind(sent, "stop")) = 0
        BY <4>1, FS_EmptySet
      <4>3. WholeCalls(sent) = <<>>
        BY <4>2 DEF WholeCalls
      <4> QED BY <2>2, <4>3
    <3>3. GivesUpText
      BY <1>5, <3>2 DEF Wire, GivesUpText
    <3>4. Answer(<<>>, WholeCalls(sent))
      BY <1>5, <3>3 DEF Answer, CallLists, Empties, ReadsErrors
    <3> QED BY <2>1, <3>1, <3>4
  <2>3. CASE WholeCalls(sent) = <<>>
    <3>1. PerplexityChat(sent) = AsDone(Said, <<>>)
      BY <1>1, <2>3 DEF PerplexityChat, parse_sse_response
    <3>2. Answer(Said, <<>>)
      BY <1>5 DEF Answer, CallLists, Empties, ReadsErrors
    <3> QED BY <2>1, <3>1, <3>2
  <2> QED BY <2>2, <2>3
<1>6. CASE adapter = "cursor"
  <2>1. ChatOf(adapter, sent) = CursorChat(sent)
    BY <1>6 DEF ChatOf
  <2>2. "error" \notin Kinds(sent) /\ CursorChat(sent) = AsDone(Said, WholeCalls(sent))
    BY <1>1, <2>1 DEF CursorChat, parse_inference_frame
  <2>3. Answer(Said, WholeCalls(sent))
    BY <2>2 DEF Answer, CallLists
  <2> QED BY <2>1, <2>2, <2>3
<1>7. CASE adapter \in {"codex", "antigravity"}
  <2>1. ChatOf(adapter, sent) = AsDone(Said, <<>>)
    BY <1>1, <1>7, UpToDoneSays DEF ChatOf, CodexChat, accumulate_responses_sse, AntigravityChat
  <2>2. Answer(Said, <<>>)
    BY <1>7 DEF Answer, CallLists, Empties, ReadsErrors
  <2> QED BY <2>1, <2>2
<1>8. CASE adapter \in {"windsurf", "gemini_cli"}
  <2>1. ChatOf(adapter, sent) = AsDone(Said, WholeCalls(sent))
    BY <1>1, <1>8 DEF ChatOf, WindsurfChat, GeminiCliChat, extract_tool_calls
  <2>2. Answer(Said, WholeCalls(sent))
    BY <1>8 DEF Answer, CallLists, Empties, ReadsErrors
  <2> QED BY <2>1, <2>2
<1> QED BY <1>1, <1>2, <1>3, <1>4, <1>5, <1>6, <1>7, <1>8

\* What the upstream may send next, an error included.
MaySend == WireEvents \cup {Wired("error", <<>>)}
LEMMA WireEventsAre ==
  ASSUME Shape, Wire, NEW e \in MaySend
  PROVE  /\ e \in Events /\ Follows(block, e)
         /\ e.kind = "text" => e.all = Cat(Said, e.v)
<1> DEFINE E(k, v) == [kind |-> k, v |-> v, all |-> IF k = "text" THEN Said \o v ELSE Said]
<1>0. \A k, v : Wired(k, v) = E(k, v)
  BY DEF Wired
<1>1. Said \in Text
  BY DeltasFacts DEF Shape, Said
<1>7. CASE e = Wired("error", <<>>)
  BY <1>0, <1>1, <1>7, TextFacts DEF Events, EventKinds, Follows
<1> SUFFICES ASSUME e \in WireEvents PROVE e \in Events /\ Follows(block, e) /\ (e.kind = "text" => e.all = Cat(Said, e.v))
  BY <1>7 DEF MaySend
<1>2. block \in {NoBlock, <<>>, <<"{">>, FullArgs}
  BY DEF Wire, OpenBlock, BlockAt, BlockAfter
<1>3. /\ NoBlock # <<>> /\ NoBlock # <<"{">> /\ NoBlock # FullArgs /\ <<>> # FullArgs /\ <<"{">> # FullArgs
      /\ Len(<<>>) = 0 /\ Len(<<"{">>) = 1 /\ FullArgs[1] = "{" /\ FullArgs[2] = "}"
  BY DEF NoBlock, FullArgs
<1>4. CASE block = FullArgs
  <2>1. e = E("stop", <<>>)
    BY <1>0, <1>3, <1>4 DEF WireEvents
  <2> QED BY <1>1, <1>3, <1>4, <2>1, TextFacts DEF Events, EventKinds, Follows
<1>5. CASE block \in {<<>>, <<"{">>}
  <2>1. e = E("args", FullArgs[Len(block) + 1])
    BY <1>0, <1>3, <1>5 DEF WireEvents
  <2>2. FullArgs[Len(block) + 1] = IF block = <<>> THEN "{" ELSE "}"
    <3>1. Len(<<>>) + 1 = 1 /\ Len(<<"{">>) + 1 = 2 /\ <<"{">> # <<>>
      OBVIOUS
    <3>2. CASE block = <<>>
      BY <1>3, <3>1, <3>2, Zenon
    <3>3. CASE block = <<"{">>
      BY <1>3, <3>1, <3>3, Zenon
    <3> QED BY <1>5, <3>2, <3>3
  <2>3. e.kind = "args" /\ e.v \in Frags /\ e.all = Said /\ e.v = (IF block = <<>> THEN "{" ELSE "}")
        /\ e \in [kind : EventKinds, v : Text \cup Frags, all : Text]
    BY <1>1, <2>1, <2>2 DEF Frags, EventKinds
  <2> QED BY <1>3, <1>5, <2>3 DEF Events, Follows
<1>6. CASE block = NoBlock
  <2>1. CASE \E v \in Payloads : e = E("text", v)
    <3>1. PICK v \in Payloads : e = E("text", v)
      BY <2>1
    <3>2. v \in Text /\ Said \o v \in Text
      BY <1>1, StreamsAssumption DEF Text
    <3> QED BY <1>1, <1>3, <1>6, <3>1, <3>2 DEF Events, EventKinds, Follows, Cat
  <2>2. CASE e \in {E("junk", <<>>), E("done", <<>>), E("tool", <<>>)}
    <3>1. e.kind \in {"junk", "done", "tool"} /\ e.v = <<>> /\ e.all = Said
          /\ e \in [kind : EventKinds, v : Text \cup Frags, all : Text]
      BY <1>1, <2>2, TextFacts DEF EventKinds
    <3> QED BY <1>3, <1>6, <3>1, TextFacts DEF Events, Follows
  <2> QED BY <1>0, <1>6, <2>1, <2>2 DEF WireEvents
<1> QED BY <1>2, <1>4, <1>5, <1>6

\* What a binding keeps, whatever it was given.
LoopShape ==
    /\ task \in {"opening", "polling", "ended"} /\ emitted \in BOOLEAN
    /\ chan \in Seq(Items) /\ got \in Seq(Text)
    /\ caller \in {"reading", "finished", "failed", "closed"}

AllText(ch) == \A i \in 1..Len(ch) : ch[i].item = "text"
EndLast(ch) == \A i \in 1..Len(ch) : ch[i].item = "end" => i = Len(ch)

\* A text appended to a channel, and the end after it.
LEMMA ItemsAppended ==
  ASSUME NEW ch \in Seq(Items), NEW it \in Items
  PROVE  /\ Append(ch, it) \in Seq(Items) /\ Append(ch, it) # <<>>
         /\ AllText(ch) => EndLast(ch) /\ EndLast(Append(ch, it))
         /\ AllText(ch) /\ it.item = "text" => AllText(Append(ch, it))
         /\ AllText(ch) /\ it.item # "end" => EndLast(Append(Append(ch, it), EndItem))
<1> DEFINE c1 == Append(ch, it)
           c2 == Append(c1, EndItem)
           n == Len(ch)
<1>1. EndItem \in Items /\ EndItem.item = "end"
  BY ItemFacts
<1>2. n \in Nat /\ c1 \in Seq(Items) /\ c1 # <<>> /\ Len(c1) = n + 1 /\ c1[n + 1] = it
      /\ \A i \in 1..n : c1[i] = ch[i]
  OBVIOUS
<1>3. Len(c2) = n + 2 /\ c2[n + 2] = EndItem /\ c2[n + 1] = it /\ \A i \in 1..n : c2[i] = ch[i]
  BY <1>1
<1> HIDE DEF c1, c2
<1>4. AllText(ch) => EndLast(ch) /\ EndLast(c1)
  BY <1>2 DEF AllText, EndLast
<1>5. AllText(ch) /\ it.item = "text" => AllText(c1)
  BY <1>2 DEF AllText
<1>6. AllText(ch) /\ it.item # "end" => EndLast(c2)
  <2> SUFFICES ASSUME AllText(ch), it.item # "end", NEW i \in 1..Len(c2), c2[i].item = "end" PROVE i = Len(c2)
    BY DEF EndLast
  <2>1. i \in 1..n \/ i = n + 1 \/ i = n + 2
    BY <1>2, <1>3
  <2> QED BY <1>2, <1>3, <2>1 DEF AllText
<1> QED BY <1>2, <1>4, <1>5, <1>6 DEF c1, c2

\* After a delta, what was handed over has grown by it, and the loop goes on.
LEMMA AfterDelta ==
  ASSUME Handling, NEW v \in Text, On(TextDelta(v)), binding' = binding
  PROVE  /\ LoopShape' /\ Channel' /\ caller' = caller /\ AllText(chan')
         /\ task' \in {task, "ended"}
         /\ caller = "reading" => Delivered' = Cat(Delivered, v) /\ task' = task
         /\ caller = "closed" => Delivered' = Delivered
         /\ binding \in {"callback", "pull", "server"} => emitted'
<1>1. chan \in Seq(Items) /\ got \in Seq(Text) /\ caller \in {"reading", "closed"} /\ AllText(chan)
      /\ task \in {"opening", "polling", "ended"} /\ emitted \in BOOLEAN
      /\ (binding \in Direct => chan = <<>>) /\ (caller = "closed" => chan = <<>>)
      /\ (caller = "closed" => binding \in {"pull", "pyo3"})
  BY DEF Handling, Shape, Looping, Channel, AllText
<1>2. /\ caller' = caller /\ emitted' \in BOOLEAN /\ task' \in {task, "ended"}
      /\ caller = "reading" => task' = task
      /\ \/ chan' = chan /\ got' = got /\ (v = <<>> \/ caller = "closed")
         \/ chan' = chan /\ got' = Append(got, v) /\ binding \in Direct
         \/ chan' = Append(chan, Item(v)) /\ got' = got /\ binding \notin Direct /\ caller = "reading"
      /\ binding \in {"callback", "pull", "server"} => emitted'
  BY OnDelta
<1>3. Item(v) \in Items /\ Item(v).item = "text" /\ TextOf(Item(v)) = v
  BY ItemFacts
<1>4. Append(got, v) \in Seq(Text)
  BY <1>1
<1>5. AllText(chan') /\ EndLast(chan') /\ chan' \in Seq(Items) /\ got' \in Seq(Text)
  BY <1>1, <1>2, <1>3, <1>4, ItemsAppended
<1>6. LoopShape'
  BY <1>1, <1>2, <1>5 DEF LoopShape
<1>7. Channel'
  <2>1. binding \in Direct => chan' = <<>>
    BY <1>1, <1>2
  <2>2. caller \in {"closed", "finished"} => chan' = <<>>
    BY <1>1, <1>2 DEF Direct
  <2>3. caller = "closed" => binding \in {"pull", "pyo3"}
    BY <1>1
  <2> QED BY <1>2, <1>5, <2>1, <2>2, <2>3 DEF Channel, EndLast
<1>8. Delivered = Handed2(got, chan) /\ Delivered' = Handed2(got', chan') /\ Delivered \in Text
  BY <1>1, HandedFacts
<1>9. caller = "reading" => Delivered' = Cat(Delivered, v)
  <2>1. CASE chan' = chan /\ got' = got /\ v = <<>>
    BY <1>8, <2>1, TextFacts
  <2>2. CASE chan' = chan /\ got' = Append(got, v) /\ binding \in Direct
    BY <1>1, <1>8, <2>2, HandedFacts
  <2>3. CASE chan' = Append(chan, Item(v)) /\ got' = got
    BY <1>1, <1>3, <1>8, <2>3, HandedFacts
  <2> QED BY <1>2, <2>1, <2>2, <2>3
<1>10. caller = "closed" => Delivered' = Delivered
  <2>1. caller = "closed" => chan' = chan /\ got' = got
    BY <1>1, <1>2 DEF Direct
  <2> QED BY <1>8, <2>1
<1> QED BY <1>2, <1>5, <1>6, <1>7, <1>9, <1>10

\* After Done, the loop has ended.
LEMMA AfterDone ==
  ASSUME Handling, NEW t \in Text, NEW cs, On(AsDone(t, cs)), binding' = binding
  PROVE  /\ LoopShape' /\ Channel' /\ task' = "ended" /\ caller' \in {caller, "finished"}
         /\ caller = "reading" => Delivered' = Cat(Delivered, DoneAdds(t))
         /\ caller = "closed" => Delivered' = Delivered /\ caller' = caller
<1>1. chan \in Seq(Items) /\ got \in Seq(Text) /\ caller \in {"reading", "closed"} /\ AllText(chan)
      /\ emitted \in BOOLEAN
      /\ (binding \in Direct => chan = <<>>) /\ (caller = "closed" => chan = <<>>)
      /\ (caller = "closed" => binding \in {"pull", "pyo3"})
  BY DEF Handling, Shape, Looping, Channel, AllText
<1>2. /\ task' = "ended" /\ emitted' = emitted
      /\ caller = "closed" => caller' = caller /\ chan' = chan /\ got' = got
      /\ caller = "reading" /\ binding \in Direct =>
           /\ caller' = "finished" /\ chan' = chan
           /\ \/ got' = got /\ DoneAdds(t) = <<>>
              \/ got' = Append(got, t) /\ DoneAdds(t) = t
      /\ caller = "reading" /\ binding \notin Direct =>
           /\ caller' = caller /\ got' = got
           /\ \/ chan' = Append(chan, EndItem) /\ DoneAdds(t) = <<>>
              \/ chan' = Append(Append(chan, Item(t)), EndItem) /\ DoneAdds(t) = t
  BY OnDone
<1>3. Item(t) \in Items /\ Item(t).item = "text" /\ TextOf(Item(t)) = t
      /\ EndItem \in Items /\ TextOf(EndItem) = <<>> /\ EndItem.item = "end"
  BY ItemFacts
<1>4. Append(got, t) \in Seq(Text)
  BY <1>1
<1>50. Append(chan, EndItem) \in Seq(Items) /\ EndLast(Append(chan, EndItem)) /\ EndLast(chan)
       /\ Append(chan, Item(t)) \in Seq(Items) /\ EndLast(Append(Append(chan, Item(t)), EndItem))
       /\ Append(Append(chan, Item(t)), EndItem) \in Seq(Items)
  BY <1>1, <1>3, ItemsAppended
<1>5. EndLast(chan') /\ chan' \in Seq(Items) /\ got' \in Seq(Text)
  BY <1>1, <1>2, <1>4, <1>50
<1>6. LoopShape'
  BY <1>1, <1>2, <1>5 DEF LoopShape
<1>7. Channel'
  <2>1. binding \in Direct => chan' = <<>>
    BY <1>1, <1>2 DEF Direct
  <2>2. caller' \in {"closed", "finished"} => chan' = <<>>
    BY <1>1, <1>2 DEF Direct
  <2>3. caller' = "closed" => binding \in {"pull", "pyo3"}
    BY <1>1, <1>2
  <2> QED BY <1>5, <2>1, <2>2, <2>3 DEF Channel, EndLast
<1>8. Delivered = Handed2(got, chan) /\ Delivered' = Handed2(got', chan') /\ Delivered \in Text
  BY <1>1, HandedFacts
<1>9. caller = "reading" => Delivered' = Cat(Delivered, DoneAdds(t))
  <2> SUFFICES ASSUME caller = "reading" PROVE Delivered' = Cat(Delivered, DoneAdds(t))
    OBVIOUS
  <2>1. CASE binding \in Direct /\ got' = got /\ DoneAdds(t) = <<>>
    BY <1>2, <1>8, <2>1, TextFacts
  <2>2. CASE binding \in Direct /\ got' = Append(got, t) /\ DoneAdds(t) = t
    BY <1>1, <1>2, <1>8, <2>2, HandedFacts
  <2>3. CASE binding \notin Direct /\ chan' = Append(chan, EndItem) /\ DoneAdds(t) = <<>>
    BY <1>1, <1>2, <1>3, <1>8, <2>3, HandedFacts
  <2>4. CASE binding \notin Direct /\ chan' = Append(Append(chan, Item(t)), EndItem) /\ DoneAdds(t) = t
    <3>1. Handed2(got, Append(chan, Item(t))) = Cat(Delivered, t) /\ Cat(Delivered, t) \in Text
      BY <1>1, <1>3, <1>8, HandedFacts, TextFacts
    <3> DEFINE c1 == Append(chan, Item(t))
    <3>3. c1 \in Seq(Items)
      BY <1>50
    <3> HIDE DEF c1
    <3>4. Handed2(got, Append(c1, EndItem)) = Cat(Handed2(got, c1), TextOf(EndItem))
      BY <1>1, <1>3, <3>3, HandedFacts
    <3>2. Handed2(got, Append(Append(chan, Item(t)), EndItem)) = Cat(Handed2(got, Append(chan, Item(t))), <<>>)
      BY <1>3, <3>4 DEF c1
    <3> QED BY <1>2, <1>8, <2>4, <3>1, <3>2, TextFacts
  <2> QED BY <1>2, <2>1, <2>2, <2>3, <2>4
<1> QED BY <1>1, <1>2, <1>6, <1>7, <1>8, <1>9

\* The caller is told of a failure before the end of the stream.
ToldOfFailure ==
    /\ caller # "finished"
    /\ binding # "node" =>
         \A i \in 1..Len(chan) :
           chan[i].item = "end" => caller = "failed" \/ \E j \in 1..(i - 1) : chan[j].item = "error"

\* After an error, the loop has ended, and the caller is told of the failure.
LEMMA AfterFailed ==
  ASSUME Handling, On(Failed), binding' = binding
  PROVE  /\ LoopShape' /\ Channel' /\ task' = "ended"
         /\ Delivered' \in {Delivered, <<>>} /\ ToldOfFailure'
<1>1. chan \in Seq(Items) /\ got \in Seq(Text) /\ caller \in {"reading", "closed"} /\ AllText(chan)
      /\ emitted \in BOOLEAN
      /\ (binding \in Direct => chan = <<>>) /\ (caller = "closed" => chan = <<>>)
      /\ (caller = "closed" => binding \in {"pull", "pyo3"})
  BY DEF Handling, Shape, Looping, Channel, AllText
<1>2. /\ task' = "ended" /\ emitted' = emitted
      /\ caller = "closed" => caller' = caller /\ chan' = chan /\ got' = got
      /\ caller = "reading" /\ binding \in Direct =>
           caller' = "failed" /\ chan' = chan /\ got' \in {got, <<>>}
      /\ caller = "reading" /\ binding \notin Direct =>
           /\ caller' = caller /\ got' = got
           /\ \/ chan' = Append(chan, EndItem) /\ binding = "node"
              \/ chan' = Append(Append(chan, ErrItem), EndItem)
  BY OnFailed
<1>3. ErrItem \in Items /\ ErrItem.item = "error" /\ TextOf(ErrItem) = <<>>
      /\ EndItem \in Items /\ TextOf(EndItem) = <<>> /\ EndItem.item = "end"
  BY ItemFacts
<1> DEFINE c1 == Append(chan, ErrItem)
           c2 == Append(c1, EndItem)
<1>50. Append(chan, EndItem) \in Seq(Items) /\ EndLast(Append(chan, EndItem)) /\ EndLast(chan)
       /\ c1 \in Seq(Items) /\ EndLast(c2) /\ c2 \in Seq(Items)
  BY <1>1, <1>3, ItemsAppended
<1>5. EndLast(chan') /\ chan' \in Seq(Items) /\ got' \in Seq(Text)
  <2>1. chan' \in {chan, Append(chan, EndItem), c2} /\ got' \in {got, <<>>}
    BY <1>1, <1>2
  <2> HIDE DEF c1, c2
  <2>2. <<>> \in Seq(Text)
    OBVIOUS
  <2> QED BY <1>1, <1>50, <2>1, <2>2
<1>6. LoopShape'
  BY <1>1, <1>2, <1>5 DEF LoopShape
<1>7. Channel'
  <2>1. binding \in Direct => chan' = <<>>
    BY <1>1, <1>2 DEF Direct
  <2>2. caller' \in {"closed", "finished"} => chan' = <<>>
    BY <1>1, <1>2 DEF Direct
  <2>3. caller' = "closed" => binding \in {"pull", "pyo3"}
    BY <1>1, <1>2
  <2> QED BY <1>5, <2>1, <2>2, <2>3 DEF Channel, EndLast
<1>8. Delivered = Handed2(got, chan) /\ Delivered' = Handed2(got', chan') /\ Delivered \in Text
  BY <1>1, HandedFacts
<1>9. Delivered' \in {Delivered, <<>>}
  <2>1. Handed2(got, Append(chan, EndItem)) = Delivered
    BY <1>1, <1>3, <1>8, HandedFacts, TextFacts
  <2>2. Handed2(got, c1) = Delivered
    BY <1>1, <1>3, <1>8, HandedFacts, TextFacts
  <2>3. Handed2(got, c2) = Delivered
    <3> HIDE DEF c1
    <3>1. Handed2(got, c2) = Cat(Handed2(got, c1), TextOf(EndItem))
      BY <1>1, <1>3, <1>50, HandedFacts
    <3> QED BY <1>3, <1>8, <2>2, <3>1, TextFacts
  <2> HIDE DEF c1, c2
  <2>4. binding \in Direct => chan' = <<>> /\ chan = <<>>
    BY <1>1, <1>2 DEF Direct
  <2>5. chan' \in {chan, Append(chan, EndItem), c2}
    BY <1>1, <1>2 DEF c1, c2
  <2>6. CASE got' = got
    BY <1>8, <2>1, <2>3, <2>5, <2>6
  <2>7. CASE got' = <<>> /\ binding \in Direct
    BY <1>8, <2>4, <2>7, HandedFacts
  <2> QED BY <1>1, <1>2, <2>6, <2>7
<1>10. ToldOfFailure'
  <2>1. caller' # "finished"
    BY <1>1, <1>2
  <2>2. ASSUME binding # "node", NEW i \in 1..Len(chan'), chan'[i].item = "end"
        PROVE  caller' = "failed" \/ \E j \in 1..(i - 1) : chan'[j].item = "error"
    <3>1. CASE chan' = chan
      BY <1>1, <2>2, <3>1 DEF AllText
    <3>2. CASE chan' = c2
      <4> DEFINE n == Len(chan)
      <4>1. Len(c2) = n + 2 /\ c2[n + 1] = ErrItem /\ c2[n + 2] = EndItem /\ n \in Nat
        BY <1>1, <1>3
      <4>2. i = n + 2
        BY <1>50, <2>2, <3>2, <4>1 DEF EndLast
      <4> HIDE DEF c2, n
      <4>3. n + 1 \in 1..(i - 1) /\ chan'[n + 1].item = "error"
        BY <1>3, <3>2, <4>1, <4>2
      <4> QED BY <4>3
    <3> QED BY <1>1, <1>2, <2>2, <3>1, <3>2
  <2> QED BY <2>1, <2>2 DEF ToldOfFailure
<1> QED BY <1>2, <1>6, <1>7, <1>9, <1>10

-----------------------------------------------------------------------------
(* One lemma per action. *)

KeepsReading == UNCHANGED <<adapter, task, acc, replay, WasRead>>

\* What was read stays when the upstream says more.
LEMMA WasReadStays ==
  ASSUME Shape, UNCHANGED read, sent' = sent \/ \E e \in Events : sent' = Append(sent, e)
  PROVE  WasRead' = WasRead
<1>1. sent \in Seq(Events) /\ read \in Nat /\ read <= Len(sent)
  BY DEF Shape
<1>2. WasRead = First(sent, read) /\ WasRead' = First(sent', read')
  BY FirstFacts
<1>3. CASE sent' = sent
  BY <1>2, <1>3
<1>4. CASE \E e \in Events : sent' = Append(sent, e)
  <2>1. PICK e \in Events : sent' = Append(sent, e)
    BY <1>4
  <2>2. First(Append(sent, e), read) = First(sent, read)
    BY <1>1, FirstFacts
  <2> QED BY <1>2, <2>1, <2>2
<1> QED BY <1>3, <1>4

\* An action that leaves adapter and loop alone keeps what was read.
LEMMA ReadingStays ==
  ASSUME IInv, KeepsReading
  PROVE  Reading' /\ CallsOfClaude' /\ CallsOfAnthropic' /\ SameFold'
<1>1. Reading'
  BY DEF IInv, KeepsReading, Reading
<1>2. CallsOfClaude'
  BY DEF IInv, KeepsReading, CallsOfClaude, OpenBlock, BlockAt, BlockAfter, Stops
<1>3. CallsOfAnthropic'
  BY DEF IInv, KeepsReading, CallsOfAnthropic, OpenBlock, BlockAt, BlockAfter, Stops
<1>4. SameFold'
  BY DEF IInv, KeepsReading, SameFold, FoldOf
<1> QED BY <1>1, <1>2, <1>3, <1>4

\* A buffered answer stays what chat made of the body.
LEMMA InHandStays ==
  ASSUME InHand, UNCHANGED <<adapter, conn, sent, replay, task>>
  PROVE  InHand'
<1>1. Said' = Said /\ CallLists' = CallLists
  BY DEF Said, CallLists, WholeCalls, OfKind
<1>2. (GivesUpText' <=> GivesUpText) /\ Kinds(sent)' = Kinds(sent)
  BY DEF GivesUpText, Kinds
<1>3. \A t, cs : Holds(t, cs) => Holds(t, cs)'
  BY <1>1, <1>2 DEF Holds, Answer
<1> QED BY <1>1, <1>3, Zenon DEF InHand

\* A stream begins with nothing said and nothing read.
LEMMA InitIInv == Init => IInv
<1> SUFFICES ASSUME Init PROVE IInv
  OBVIOUS
<1>1. sent = <<>> /\ block = NoBlock /\ conn = "open" /\ read = 0 /\ acc = NewAcc /\ replay = <<>>
      /\ task = "opening" /\ emitted = FALSE /\ chan = <<>> /\ got = <<>> /\ caller = "reading"
      /\ adapter \in AllAdapters /\ binding \in AllBound
  BY StreamsAssumption DEF Init, AllBound
<1>2. Shape
  <2>1. NewAcc \in AccsOf(adapter)
    <3>1. <<>> \in Text /\ <<>> \in Seq(Frags) /\ <<>> \in Seq(Seq(Frags)) /\ <<>> \in Seq({"args", "empty"})
      BY TextFacts
    <3> QED BY <3>1 DEF NewAcc, AccsOf, CallsOf
  <2>2. 0 \in 0..Len(<<>>) /\ <<>> \in Seq(Events) /\ <<>> \in Seq(Items) /\ <<>> \in Seq(Text)
    OBVIOUS
  <2> QED BY <1>1, <2>1, <2>2, Zenon DEF Shape
<1>3. Said = <<>> /\ Said \in Text
  BY <1>1, DeltasFacts, TextFacts DEF Said
<1>4. Wire
  <2>1. Kinds(sent) = {}
    BY <1>1 DEF Kinds
  <2>2. LastSnapshot(sent) = Said
    BY <1>1, <1>3, LastSnapshotFacts
  <2>3. Len(sent) = 0 /\ block = OpenBlock(sent)
    BY <1>1 DEF OpenBlock, BlockAt
  <2> QED BY <1>1, <2>1, <2>2, <2>3 DEF Wire
<1>5. Delivered = <<>>
  BY <1>1, HandedFacts
<1>6. Opening /\ Reading /\ CallsOfClaude /\ CallsOfAnthropic /\ SameFold /\ InHand /\ Looping
  BY <1>1 DEF Opening, Reading, CallsOfClaude, CallsOfAnthropic, SameFold, InHand, Looping
<1>7. Channel /\ ToldRight
  BY <1>1 DEF Channel, ToldRight
<1>8. NeverAhead
  BY <1>3, <1>5, PrefixFacts DEF NeverAhead
<1> QED BY <1>2, <1>4, <1>6, <1>7, <1>8 DEF IInv

\* A streaming adapter starts its loop.
LEMMA OpenStreamIInv ==
  ASSUME IInv, OpenStream
  PROVE  IInv'
<1>1. /\ task = "opening" /\ adapter \in Streaming /\ task' = "polling"
      /\ UNCHANGED <<adapter, binding, conn, sent, block, read, acc, replay, emitted, chan, got, caller>>
  BY DEF OpenStream, up
<1>2. Shape' /\ Wire' /\ Opening'
  BY <1>1 DEF IInv, Shape, Wire, Opening, Said, Kinds, OpenBlock, BlockAt, BlockAfter
<1>3. read = 0 /\ acc = NewAcc /\ replay = <<>> /\ got = <<>> /\ chan = <<>> /\ ~emitted
      /\ sent \in Seq(Events) /\ caller \in {"reading", "closed"}
  BY <1>1 DEF IInv, Opening, Shape, Looping
<1>4. WasRead' = <<>>
  BY <1>1, <1>3, FirstFacts
<1>5. Deltas(<<>>) = <<>> /\ Kinds(<<>>) = {} /\ Stops(<<>>) = 0 /\ OpenBlock(<<>>) = NoBlock
  BY DeltasFacts, CountFacts DEF Kinds, Stops, OpenBlock, BlockAt
<1>6. Reading'
  BY <1>1, <1>3, <1>4, <1>5 DEF Reading, NewAcc
<1>7. CallsOfClaude' /\ CallsOfAnthropic'
  <2>1. NewAcc.calls = <<>> /\ Len(NewAcc.calls) = 0 /\ NewAcc.open = FALSE
    BY DEF NewAcc
  <2> QED BY <1>1, <1>3, <1>4, <1>5, <2>1 DEF CallsOfClaude, CallsOfAnthropic, ClaudeHas, AnthropicHas
<1>8. SameFold'
  <2>1. Same(NewAcc).acc = NewAcc /\ Same(NewAcc).out # Failed
    BY DEF Same, Nothing, Failed
  <2> QED BY <1>1, <1>3, <1>4, <2>1, FoldFacts DEF SameFold
<1>9. InHand'
  BY <1>1 DEF InHand
<1>10. Passed' = <<>>
  BY <1>1, <1>4, <1>5 DEF Passed
<1>11. Delivered' = <<>> /\ Delivered = <<>>
  BY <1>1, <1>3, HandedFacts
<1>12. Looping'
  <2>1. adapter \notin DoneOnly
    BY <1>1 DEF Streaming, DoneOnly
  <2>2. Len(chan') = 0
    BY <1>1, <1>3
  <2> QED BY <1>1, <1>3, <1>10, <1>11, <2>1, <2>2 DEF Looping
<1>13. Channel' /\ ToldRight'
  <2>1. Len(chan') = 0
    BY <1>1, <1>3
  <2> QED BY <1>1, <1>3, <2>1 DEF IInv, Channel, ToldRight
<1>14. NeverAhead'
  <2>1. Said' \in Text
    BY <1>1, <1>3, DeltasFacts DEF Said
  <2> QED BY <1>11, <2>1, PrefixFacts DEF NeverAhead
<1> QED BY <1>2, <1>6, <1>7, <1>8, <1>9, <1>12, <1>13, <1>14 DEF IInv

\* The sequences of one and two elements.
LEMMA AppendOne ==
  ASSUME NEW x
  PROVE  Append(<<>>, x) = <<x>>
OBVIOUS

LEMMA AppendPair ==
  ASSUME NEW x, NEW y
  PROVE  Append(<<x>>, y) = <<x, y>>
<1> DEFINE S == {x, y}
           a == <<x>>
           s == Append(a, y)
           u == <<x, y>>
<1>1. a \in Seq(S) /\ Len(a) = 1 /\ a[1] = x
  OBVIOUS
<1>0. x \in S /\ y \in S
  OBVIOUS
<1> HIDE DEF a, S
<1>2. s \in Seq(S) /\ Len(s) = Len(a) + 1 /\ s[Len(a) + 1] = y /\ \A i \in 1..Len(a) : s[i] = a[i]
  BY <1>0, <1>1
<1>3. u \in Seq(S) /\ Len(u) = 2 /\ u[1] = x /\ u[2] = y
  BY <1>0
<1> HIDE DEF s, u
<1>4. Len(s) = 2 /\ s[1] = x /\ s[2] = y
  BY <1>1, <1>2
<1>5. s = u
  BY <1>2, <1>3, <1>4, SeqEqual
<1> QED BY <1>5 DEF s, u, a

\* A call's block, event by event.
LEMMA BlockStep ==
  ASSUME NEW b \in {NoBlock, <<>>, <<"{">>, FullArgs}, NEW e \in Events, Follows(b, e)
  PROVE  /\ e.kind = "tool" => b = NoBlock /\ BlockAfter(e) = <<>>
         /\ e.kind = "args" => b \notin {NoBlock, FullArgs} /\ BlockAfter(e) = Append(b, e.v)
         /\ e.kind = "stop" => b = FullArgs /\ BlockAfter(e) = NoBlock
         /\ e.kind \notin {"tool", "args", "stop"} => BlockAfter(e) = NoBlock
         /\ e.kind \notin {"tool", "args", "stop", "error"} => b = NoBlock
         /\ e.kind \in {"tool", "args"} => BlockAfter(e) # NoBlock
         /\ BlockAfter(e) \in {NoBlock, <<>>, <<"{">>, FullArgs}
<1>1. /\ NoBlock # <<>> /\ NoBlock # <<"{">> /\ NoBlock # FullArgs /\ <<>> # FullArgs /\ <<"{">> # FullArgs
      /\ <<>> # <<"{">>
  BY DEF NoBlock, FullArgs
<1>2. CASE e.kind = "args"
  <2>1. (b = <<>> /\ e.v = "{") \/ (b = <<"{">> /\ e.v = "}")
    BY <1>1, <1>2 DEF Follows
  <2>2. Append(<<>>, "{") = <<"{">>
    BY AppendOne, Zenon
  <2>3. Append(<<"{">>, "}") = FullArgs
    BY AppendPair, Zenon DEF FullArgs
  <2>4. CASE b = <<>> /\ e.v = "{"
    <3>1. BlockAfter(e) = <<"{">>
      BY <1>2, <2>4 DEF BlockAfter
    <3> QED BY <1>1, <1>2, <2>2, <2>4, <3>1, Zenon
  <2>5. CASE b = <<"{">> /\ e.v = "}"
    <3>1. BlockAfter(e) = FullArgs
      BY <1>2, <2>5 DEF BlockAfter
    <3> QED BY <1>1, <1>2, <2>3, <2>5, <3>1, Zenon
  <2> QED BY <2>1, <2>4, <2>5
<1>3. CASE e.kind # "args"
  BY <1>1, <1>3 DEF Follows, BlockAfter
<1> QED BY <1>2, <1>3

\* An event of MaySend continues the wire as it should.
LEMMA WireStays ==
  ASSUME Shape, Wire, NEW e \in MaySend, Send(e)
  PROVE  /\ Wire' /\ sent' \in Seq(Events) /\ Len(sent') = Len(sent) + 1 /\ sent' = Append(sent, e)
         /\ Said \in Text /\ Said' \in Text /\ IsPrefix(Said, Said') /\ e \in Events
<1> DEFINE n == Len(sent)
<1>1. /\ conn = "open" /\ conn' = conn /\ sent' = Append(sent, e)
      /\ "error" \notin Kinds(sent) /\ ~Finished
      /\ block' = CASE e.kind = "tool" -> <<>>
                    [] e.kind = "args" -> Append(block, e.v)
                    [] OTHER -> NoBlock
  BY DEF Send
<1>2. e \in Events /\ Follows(block, e) /\ (e.kind = "text" => e.all = Cat(Said, e.v))
  BY WireEventsAre
<1>3. sent \in Seq(Events) /\ n \in Nat /\ sent' \in Seq(Events) /\ Len(sent') = n + 1 /\ sent'[n + 1] = e
      /\ \A i \in 1..n : sent'[i] = sent[i]
  BY <1>1, <1>2 DEF Shape
<1>4. Said \in Text /\ Said' \in Text /\ SaidBy(e) \in Text /\ Said' = Cat(Said, SaidBy(e)) /\ IsPrefix(Said, Said')
  <2>1. Deltas(sent) \in Text /\ Deltas(Append(sent, e)) = Cat(Deltas(sent), SaidBy(e)) /\ SaidBy(e) \in Text
        /\ Deltas(sent') \in Text
    BY <1>2, <1>3, DeltasFacts, SaidByType
  <2>2. IsPrefix(Deltas(sent), Cat(Deltas(sent), SaidBy(e)))
    BY <2>1, PrefixFacts
  <2> QED BY <1>1, <2>1, <2>2 DEF Said
<1>5. \A i \in 1..n : sent[i].kind \notin {"error", "done"}
  BY <1>1, <1>3 DEF Kinds, Finished
<1>6. \A i \in 1..(n + 1) : sent'[i].kind \in {"error", "done"} => i = n + 1
  BY <1>3, <1>5
<1>7. LastSnapshot(sent') = Said'
  <2>1. LastSnapshot(sent) = Said
    BY DEF Wire
  <2>2. LastSnapshot(sent') = IF e.kind = "text" /\ e.all # <<>> THEN e.all ELSE LastSnapshot(sent)
    BY <1>1, <1>2, <1>3, LastSnapshotFacts
  <2>3. CASE e.kind = "text"
    <3>1. SaidBy(e) = e.v /\ e.all = Cat(Said, e.v)
      BY <1>2, <2>3 DEF SaidBy
    <3> QED BY <1>4, <2>1, <2>2, <2>3, <3>1, TextFacts
  <2>4. CASE e.kind # "text"
    <3>1. SaidBy(e) = <<>>
      BY <2>4 DEF SaidBy
    <3> QED BY <1>4, <2>1, <2>2, <2>4, <3>1, TextFacts
  <2> QED BY <2>3, <2>4
<1>8. block \in {NoBlock, <<>>, <<"{">>, FullArgs}
  BY DEF Wire, OpenBlock, BlockAt, BlockAfter
<1>9. block' = OpenBlock(sent')
  <2>1. OpenBlock(sent') = BlockAfter(e)
    BY <1>3 DEF OpenBlock, BlockAt
  <2> HIDE DEF n
  <2>2. block' = BlockAfter(e)
    BY <1>1, <1>2, <1>8, BlockStep, Zenon
  <2> QED BY <2>1, <2>2
<1>10. ASSUME NEW i \in 1..(n + 1) PROVE Follows(BlockAt(sent', i - 1), sent'[i])
  <2>0. \A k \in 0..n : BlockAt(sent', k) = BlockAt(sent, k)
    BY <1>3 DEF BlockAt
  <2>1. CASE i \in 1..n
    <3>1. BlockAt(sent', i - 1) = BlockAt(sent, i - 1) /\ sent'[i] = sent[i]
      BY <1>3, <2>0, <2>1
    <3>2. Follows(BlockAt(sent, i - 1), sent[i])
      BY <2>1 DEF Wire
    <3> QED BY <3>1, <3>2
  <2>2. CASE i = n + 1
    <3>1. i - 1 = n /\ n \in 0..n
      BY <1>3, <2>2
    <3>2. BlockAt(sent', i - 1) = block
      BY <2>0, <3>1 DEF Wire, OpenBlock
    <3> QED BY <1>2, <1>3, <2>2, <3>2
  <2> QED BY <1>3, <2>1, <2>2
<1>11. "stop" \in Kinds(sent') \/ block' # NoBlock => "tool" \in Kinds(sent')
  <2>1. Kinds(sent') = Kinds(sent) \cup {e.kind}
    BY <1>3 DEF Kinds
  <2>2. "stop" \in Kinds(sent) \/ block # NoBlock => "tool" \in Kinds(sent)
    BY DEF Wire
  <2>3. e.kind = "stop" \/ e.kind = "args" => block # NoBlock
    BY <1>2 DEF Follows
  <2>4. block' # NoBlock => e.kind \in {"tool", "args"} \/ block # NoBlock
    BY <1>1
  <2> QED BY <2>1, <2>2, <2>3, <2>4
<1> HIDE DEF n
<1>12. Wire'
  BY <1>1, <1>3, <1>6, <1>7, <1>9, <1>10, <1>11 DEF Wire
<1> QED BY <1>1, <1>2, <1>3, <1>4, <1>12 DEF n

\* The upstream says more: nothing that was handed over is revoked.
LEMMA SendIInv ==
  ASSUME IInv, NEW e \in MaySend, Send(e)
  PROVE  IInv'
<1>1. /\ conn = "open" /\ ~Finished
      /\ UNCHANGED <<adapter, binding, conn, read, acc, replay, task, emitted, chan, got, caller>>
  BY DEF Send
<1>2. /\ Wire' /\ sent' \in Seq(Events) /\ Len(sent') = Len(sent) + 1 /\ sent' = Append(sent, e)
      /\ Said \in Text /\ Said' \in Text /\ IsPrefix(Said, Said') /\ e \in Events
  BY WireStays DEF IInv
<1>3. Shape'
  <2>1. read \in 0..Len(sent')
    BY <1>2 DEF IInv, Shape
  <2> QED BY <1>1, <1>2, <2>1 DEF IInv, Shape
<1>4. WasRead' = WasRead
  BY <1>1, <1>2, WasReadStays DEF IInv
<1>5. Reading' /\ CallsOfClaude' /\ CallsOfAnthropic' /\ SameFold'
  BY <1>1, <1>4, ReadingStays DEF KeepsReading
<1>6. Opening' /\ InHand' /\ Channel'
  <2>1. ~(task = "polling" /\ adapter \notin Streaming)
    BY <1>1 DEF IInv, InHand
  <2> QED BY <1>1, <2>1 DEF IInv, Opening, InHand, Channel
<1>7. Passed' = Passed /\ Delivered' = Delivered
  BY <1>1, <1>4 DEF Passed, Delivered, OnTheWay
<1>8. Looping'
  BY <1>1, <1>7 DEF IInv, Looping
<1>9. ~Silent
  BY <1>1 DEF Silent
<1>10. NeverAhead'
  <2>1. IsPrefix(Delivered, Said)
    BY <1>9 DEF IInv, NeverAhead
  <2>2. Delivered \in Text
    BY HandedFacts DEF IInv, Shape
  <2>3. IsPrefix(Delivered', Said')
    BY <1>2, <1>7, <2>1, <2>2, PrefixFacts
  <2> QED BY <2>3 DEF NeverAhead
<1>11. ToldRight'
  BY <1>1, <1>9 DEF IInv, ToldRight, EndedWell
<1> QED BY <1>2, <1>3, <1>5, <1>6, <1>8, <1>10, <1>11 DEF IInv

\* The body ends, or breaks off.
LEMMA CloseIInv ==
  ASSUME IInv, Close
  PROVE  IInv'
<1>1. /\ conn = "open" /\ conn' \in {"eof", "reset"}
      /\ UNCHANGED <<adapter, binding, sent, block, read, acc, replay, task, emitted, chan, got, caller>>
  BY DEF Close
<1>2. Shape' /\ Wire' /\ Opening'
  BY <1>1 DEF IInv, Shape, Wire, Opening, Said, Kinds, OpenBlock, BlockAt, BlockAfter
<1>3. WasRead' = WasRead /\ Said' = Said /\ Kinds(sent)' = Kinds(sent) /\ (Finished' <=> Finished)
      /\ (GivesUpText' <=> GivesUpText)
  BY <1>1 DEF WasRead, Said, Kinds, Finished, GivesUpText
<1>4. Reading' /\ CallsOfClaude' /\ CallsOfAnthropic' /\ SameFold'
  BY <1>1, <1>3, ReadingStays DEF KeepsReading
<1>5. InHand' /\ Channel'
  <2>1. ~(task = "polling" /\ adapter \notin Streaming)
    BY <1>1 DEF IInv, InHand
  <2> QED BY <1>1, <2>1 DEF IInv, InHand, Channel
<1>6. Passed' = Passed /\ Delivered' = Delivered
  BY <1>1, <1>3 DEF Passed, Delivered, OnTheWay
<1>7. Looping'
  BY <1>1, <1>6 DEF IInv, Looping
<1>8. Silent'
  BY <1>1 DEF Silent
<1>9. NeverAhead'
  BY <1>1, <1>3, <1>6, <1>8 DEF IInv, NeverAhead
<1>10. EndedWell => EndedWell'
  BY <1>1, <1>3, <1>6, <1>8 DEF EndedWell, Silent
<1>11. ToldRight'
  BY <1>1, <1>10 DEF IInv, ToldRight
<1> QED BY <1>2, <1>4, <1>5, <1>7, <1>9, <1>11 DEF IInv

\* What does not depend on the binding.
KeepsUpstream == UNCHANGED <<adapter, binding, up, read, acc, replay>>

\* What a caller does leaves the upstream and the adapter alone.
LEMMA UpstreamStays ==
  ASSUME Shape, Wire, KeepsUpstream, LoopShape'
  PROVE  /\ Shape' /\ Wire' /\ WasRead' = WasRead /\ Said' = Said /\ Said \in Text
         /\ (Silent' <=> Silent) /\ (Finished' <=> Finished) /\ Kinds(sent)' = Kinds(sent)
         /\ (GivesUpText' <=> GivesUpText)
<1>1. UNCHANGED <<adapter, binding, conn, sent, block, read, acc, replay>>
  BY DEF KeepsUpstream, up
<1>2. Shape'
  BY <1>1 DEF Shape, LoopShape
<1>3. WasRead' = WasRead /\ Said' = Said /\ Kinds(sent)' = Kinds(sent) /\ (Finished' <=> Finished)
      /\ (GivesUpText' <=> GivesUpText) /\ (Silent' <=> Silent)
  BY <1>1 DEF WasRead, Said, Kinds, Finished, GivesUpText, Silent
<1>4. Wire'
  BY <1>1 DEF Wire, Said, Kinds, OpenBlock, BlockAt, BlockAfter
<1>5. Said \in Text
  BY DeltasFacts DEF Shape, Said
<1> QED BY <1>2, <1>3, <1>4, <1>5

\* The caller takes an item: its text moves from the way to what the caller has.
LEMMA CallerNextIInv ==
  ASSUME IInv, CallerNext
  PROVE  IInv'
<1> DEFINE hd == Head(chan)
           n == Len(chan)
<1>1. /\ caller \in {"reading", "failed"} /\ chan # <<>> /\ chan' = Tail(chan) /\ KeepsUpstream
      /\ UNCHANGED <<adapter, binding, conn, sent, block, read, acc, replay, task, emitted>>
      /\ CASE hd.item = "text" -> got' = Append(got, hd.text) /\ UNCHANGED caller
           [] hd.item = "error" -> caller' = "failed" /\ UNCHANGED got
           [] hd.item = "end" -> UNCHANGED got /\ caller' = IF caller = "failed" THEN caller ELSE "finished"
  BY DEF CallerNext, Receive, up, KeepsUpstream
<1>2. chan \in Seq(Items) /\ got \in Seq(Text) /\ n \in Nat /\ n > 0 /\ hd = chan[1] /\ hd \in Items
      /\ chan' \in Seq(Items) /\ Len(chan') = n - 1 /\ \A i \in 1..(n - 1) : chan'[i] = chan[i + 1]
      /\ task \in {"opening", "polling", "ended"} /\ emitted \in BOOLEAN
  BY <1>1 DEF IInv, Shape
<1>3. /\ hd.item \in {"text", "error", "end"}
      /\ hd.item = "text" => hd.text \in Text /\ TextOf(hd) = hd.text
      /\ hd.item # "text" => TextOf(hd) = <<>>
  BY <1>2, ItemFacts
<1>4. /\ hd.item = "text" => got' = Append(got, hd.text) /\ caller' = caller
      /\ hd.item = "error" => caller' = "failed" /\ got' = got
      /\ hd.item = "end" => got' = got /\ caller' = IF caller = "failed" THEN caller ELSE "finished"
  BY <1>1
<1>5. Delivered' = Delivered
  <2>1. Delivered = Handed2(got, chan) /\ Delivered' = Handed2(got', Tail(chan))
    BY <1>1, HandedFacts
  <2>2. CASE hd.item = "text"
    <3>1. Handed2(Append(got, TextOf(hd)), Tail(chan)) = Handed2(got, chan)
      BY <1>1, <1>2, HandedFacts
    <3> QED BY <1>3, <1>4, <2>1, <2>2, <3>1
  <2>3. CASE hd.item # "text"
    <3>1. Handed2(got, Tail(chan)) = Handed2(got, chan)
      BY <1>1, <1>2, <1>3, <2>3, HandedFacts
    <3> QED BY <1>3, <1>4, <2>1, <2>3, <3>1
  <2> QED BY <2>2, <2>3
<1>6. LoopShape'
  <2>1. hd.item = "text" => Append(got, hd.text) \in Seq(Text)
    BY <1>2, <1>3
  <2>2. caller' \in {"reading", "finished", "failed", "closed"}
    BY <1>1, <1>3, <1>4
  <2>3. got' \in Seq(Text)
    BY <1>2, <1>3, <1>4, <2>1
  <2>4. task' = task /\ emitted' = emitted
    BY <1>1
  <2>5. chan' \in Seq(Items)
    BY <1>2
  <2>6. task' \in {"opening", "polling", "ended"} /\ emitted' \in BOOLEAN
    BY <2>4 DEF IInv, Shape
  <2> QED BY <2>2, <2>3, <2>5, <2>6 DEF LoopShape
<1> HIDE DEF hd, n
<1>7. /\ Shape' /\ Wire' /\ WasRead' = WasRead /\ Said' = Said
      /\ (Silent' <=> Silent) /\ (Finished' <=> Finished) /\ Kinds(sent)' = Kinds(sent)
      /\ (GivesUpText' <=> GivesUpText)
  BY <1>1, <1>6, UpstreamStays DEF IInv
<1>8. Reading' /\ CallsOfClaude' /\ CallsOfAnthropic' /\ SameFold'
  BY <1>1, <1>7, ReadingStays DEF KeepsReading
<1>9. binding \notin Direct /\ chan' = chan' /\ task # "opening"
      /\ \A i \in 1..n : chan[i].item = "end" => i = n
  BY <1>1 DEF IInv, Channel, Opening, n
<1>10. Opening'
  BY <1>1, <1>9 DEF Opening
<1>11. InHand'
  BY <1>1, InHandStays DEF IInv
<1>12. hd.item = "end" => chan' = <<>>
  <2> SUFFICES ASSUME hd.item = "end" PROVE chan' = <<>>
    OBVIOUS
  <2>1. 1 \in 1..n /\ chan[1].item = "end"
    BY <1>2
  <2>2. n = 1
    BY <1>9, <2>1
  <2> QED BY <1>2, <2>2
<1>13. Looping'
  <2>1. Passed' = Passed
    BY <1>1, <1>7 DEF Passed
  <2>2. ASSUME task # "ended" PROVE caller' = caller /\ \A i \in 1..Len(chan') : chan'[i].item = "text"
    <3>1. \A i \in 1..n : chan[i].item = "text"
      BY <2>2 DEF IInv, Looping, n
    <3>2. 1 \in 1..n /\ \A i \in 1..(n - 1) : i + 1 \in 1..n
      BY <1>2
    <3> QED BY <1>2, <1>4, <3>1, <3>2
  <2>3. binding # "chunks"
    BY <1>9 DEF Direct
  <2> QED BY <1>1, <1>5, <2>1, <2>2, <2>3 DEF IInv, Looping
<1>14. Channel'
  <2>1. caller' # "closed" /\ (caller' = "finished" => chan' = <<>>)
    BY <1>1, <1>3, <1>4, <1>12
  <2>2. ASSUME NEW i \in 1..Len(chan'), chan'[i].item = "end" PROVE i = Len(chan')
    <3>1. i + 1 \in 1..n /\ chan'[i] = chan[i + 1]
      BY <1>2
    <3>2. i + 1 = n
      BY <1>9, <2>2, <3>1
    <3> QED BY <1>2, <3>2
  <2> QED BY <1>1, <1>9, <2>1, <2>2 DEF Channel
<1>15. NeverAhead'
  BY <1>1, <1>5, <1>7 DEF IInv, NeverAhead
<1>16. ToldRight'
  <2>1. EndedWell => EndedWell'
    BY <1>1, <1>5, <1>7 DEF EndedWell
  <2>2. ASSUME binding # "node", caller' = "finished" PROVE EndedWell
    <3>1. caller = "reading" /\ hd.item = "end"
      BY <1>1, <1>3, <1>4, <2>2
    <3>2. 1 \in 1..Len(chan) /\ chan[1].item = "end" /\ \A j : j \notin 1..(1 - 1)
      BY <1>2, <3>1 DEF n
    <3> QED BY <2>2, <3>1, <3>2 DEF IInv, ToldRight
  <2>3. ASSUME binding # "node", NEW i \in 1..Len(chan'), chan'[i].item = "end"
        PROVE  EndedWell \/ caller' = "failed" \/ \E j \in 1..(i - 1) : chan'[j].item = "error"
    <3>1. i + 1 \in 1..Len(chan) /\ chan[i + 1].item = "end" /\ (i + 1) - 1 = i /\ i \in 1..(n - 1)
      BY <1>2, <2>3 DEF n
    <3>2. EndedWell \/ caller = "failed" \/ \E j \in 1..i : chan[j].item = "error"
      BY <2>3, <3>1 DEF IInv, ToldRight
    <3>3. CASE caller = "failed"
      BY <1>3, <1>4, <3>3
    <3>4. CASE \E j \in 1..i : chan[j].item = "error"
      <4>1. PICK j \in 1..i : chan[j].item = "error"
        BY <3>4
      <4>2. CASE j = 1
        BY <1>2, <1>4, <4>1, <4>2
      <4>3. CASE j # 1
        <5>1. j - 1 \in 1..(i - 1) /\ j - 1 \in 1..(n - 1) /\ (j - 1) + 1 = j
          BY <1>2, <3>1, <4>3
        <5>2. chan'[j - 1] = chan[j]
          BY <1>2, <5>1
        <5> QED BY <4>1, <5>1, <5>2
      <4> QED BY <4>2, <4>3
    <3> QED BY <3>2, <3>3, <3>4
  <2> QED BY <1>1, <2>1, <2>2, <2>3 DEF ToldRight
<1> QED BY <1>7, <1>8, <1>10, <1>11, <1>13, <1>14, <1>15, <1>16 DEF IInv

\* The caller goes away.
LEMMA CallerCloseIInv ==
  ASSUME IInv, CallerClose
  PROVE  IInv'
<1>1. /\ binding \in {"pull", "pyo3"} /\ caller' = "closed" /\ chan' = <<>> /\ KeepsUpstream
      /\ UNCHANGED <<adapter, binding, conn, sent, block, read, acc, replay, task, emitted, got>>
  BY DEF CallerClose, up, KeepsUpstream
<1>2. chan \in Seq(Items) /\ got \in Seq(Text) /\ task \in {"opening", "polling", "ended"} /\ emitted \in BOOLEAN
      /\ chan' \in Seq(Items) /\ Len(chan') = 0
  BY <1>1 DEF IInv, Shape
<1>3. LoopShape'
  BY <1>1, <1>2 DEF LoopShape
<1>4. /\ Shape' /\ Wire' /\ WasRead' = WasRead /\ Said' = Said /\ Said \in Text
      /\ (Silent' <=> Silent)
  BY <1>1, <1>3, UpstreamStays DEF IInv
<1>5. Reading' /\ CallsOfClaude' /\ CallsOfAnthropic' /\ SameFold'
  BY <1>1, <1>4, ReadingStays DEF KeepsReading
<1>6. Opening' /\ InHand'
  BY <1>1, InHandStays DEF IInv, Opening
<1>7. Passed' = Passed
  BY <1>1, <1>4 DEF Passed
<1>8. Looping'
  BY <1>1, <1>2, <1>7 DEF IInv, Looping
<1>9. Channel'
  BY <1>1, <1>2 DEF Channel
<1>10. NeverAhead'
  <2>1. Delivered' = Flat(got) /\ Delivered = Cat(Flat(got), WayOf(chan)) /\ Flat(got) \in Text /\ WayOf(chan) \in Text
    BY <1>1, <1>2, HandedFacts, FlatFacts, WayFacts DEF Handed2
  <2>2. IsPrefix(Delivered', Delivered) /\ Delivered \in Text /\ Delivered' \in Text
    BY <2>1, PrefixFacts, TextFacts
  <2>3. \A again \in {Said, Trimmed(Said)} : Said \o again \in Text
    <3>1. \A again \in {Said, Trimmed(Said)} : again \in Text
      BY <1>4, TrimmedFacts
    <3>2. \A again \in {Said, Trimmed(Said)} : Cat(Said, again) \in Text
      BY <1>4, <3>1, TextFacts
    <3> QED BY <3>2 DEF Cat
  <2>4. CASE IsPrefix(Delivered, Said)
    <3>1. IsPrefix(Delivered', Said)
      BY <1>4, <2>2, <2>4, PrefixFacts
    <3> QED BY <1>4, <3>1 DEF NeverAhead
  <2>5. CASE ~IsPrefix(Delivered, Said)
    <3>1. binding \in SendsTwice /\ task = "ended" /\ Silent
          /\ \E again \in {Said, Trimmed(Said)} : IsPrefix(Delivered, Said \o again)
      BY <2>5 DEF IInv, NeverAhead
    <3>2. PICK again \in {Said, Trimmed(Said)} : IsPrefix(Delivered, Said \o again)
      BY <3>1
    <3>3. IsPrefix(Delivered', Said \o again)
      <4> DEFINE b == Said \o again
      <4>1. b \in Text /\ IsPrefix(Delivered, b)
        BY <2>3, <3>2
      <4> HIDE DEF b
      <4>2. IsPrefix(Delivered', b)
        BY <2>2, <4>1, PrefixFacts
      <4> QED BY <4>2 DEF b
    <3>4. Trimmed(Said)' = Trimmed(Said)
      BY <1>4
    <3> QED BY <1>1, <1>4, <3>1, <3>3, <3>4 DEF NeverAhead
  <2> QED BY <2>4, <2>5
<1>11. ToldRight'
  BY <1>1, <1>2 DEF ToldRight
<1> QED BY <1>4, <1>5, <1>6, <1>8, <1>9, <1>10, <1>11 DEF IInv

\* A stream that fails ends the loop.
LEMMA FailureIInv ==
  ASSUME IInv, task # "ended", On(Failed), UNCHANGED <<adapter, binding, up, replay>>,
         read' \in 0..Len(sent), acc' \in AccsOf(adapter)
  PROVE  IInv'
<1>1. Handling
  BY DEF IInv, Handling
<1>2. UNCHANGED <<adapter, binding, conn, sent, block, replay>>
  BY DEF up
<1>3. LoopShape' /\ Channel' /\ task' = "ended" /\ Delivered' \in {Delivered, <<>>} /\ ToldOfFailure'
  BY <1>1, <1>2, AfterFailed
<1>4. Shape'
  BY <1>2, <1>3 DEF IInv, Shape, LoopShape
<1>5. Wire'
  BY <1>2 DEF IInv, Wire, Said, Kinds, OpenBlock, BlockAt, BlockAfter
<1>6. Opening' /\ Reading' /\ CallsOfClaude' /\ CallsOfAnthropic' /\ SameFold' /\ InHand' /\ Looping'
  BY <1>3 DEF Opening, Reading, CallsOfClaude, CallsOfAnthropic, SameFold, InHand, Looping
<1>7. NeverAhead'
  <2>1. Said' = Said /\ Said \in Text
    BY <1>2, DeltasFacts DEF IInv, Shape, Said
  <2>2. IsPrefix(Delivered, Said)
    BY DEF IInv, NeverAhead
  <2>3. IsPrefix(Delivered', Said')
    BY <1>3, <2>1, <2>2, PrefixFacts
  <2> QED BY <2>3 DEF NeverAhead
<1>8. ToldRight'
  BY <1>3 DEF ToldOfFailure, ToldRight
<1> QED BY <1>3, <1>4, <1>5, <1>6, <1>7, <1>8 DEF IInv

\* There was no stream at all.
LEMMA OpenFailsIInv ==
  ASSUME IInv, OpenFails
  PROVE  IInv'
<1>1. /\ task = "opening" /\ On(Failed)
      /\ UNCHANGED <<adapter, binding, up, read, acc, replay>>
  BY DEF OpenFails
<1>2. read' \in 0..Len(sent) /\ acc' \in AccsOf(adapter)
  BY <1>1 DEF IInv, Shape
<1> QED BY <1>1, <1>2, FailureIInv

\* A buffering adapter folds the whole body.
LEMMA OpenBufferedIInv ==
  ASSUME IInv, OpenBuffered
  PROVE  IInv'
<1> DEFINE done == IF conn = "reset" THEN Failed ELSE ChatOf(adapter, sent)
<1>1. /\ task = "opening" /\ adapter \notin Streaming /\ conn # "open"
      /\ read' = Len(sent) /\ UNCHANGED <<adapter, binding, up, acc>>
      /\ IF done = Failed
         THEN On(Failed) /\ UNCHANGED replay
         ELSE replay' = Replay(adapter, done) /\ task' = "polling" /\ UNCHANGED <<emitted, chan, got, caller>>
  BY DEF OpenBuffered
<1>2. read' \in 0..Len(sent) /\ acc' \in AccsOf(adapter) /\ UNCHANGED <<conn, sent, block>>
  BY <1>1 DEF IInv, Shape, up
<1>3. CASE done = Failed
  <2>1. On(Failed) /\ UNCHANGED replay
    BY <1>1, <1>3
  <2> QED BY <1>1, <1>2, <2>1, FailureIInv
<1>4. CASE done # Failed
  <2>1. conn # "reset" /\ done = ChatOf(adapter, sent) /\ ChatOf(adapter, sent) # Failed
    BY <1>4
  <2> HIDE DEF done
  <2>2. replay' = Replay(adapter, done) /\ task' = "polling" /\ UNCHANGED <<emitted, chan, got, caller>>
    BY <1>1, <1>4
  <2>3. conn = "eof"
    BY <1>1, <2>1 DEF IInv, Shape
  <2>4. PICK t, cs : Answer(t, cs) /\ done = AsDone(t, cs)
    BY <1>1, <2>1, BufferedAnswer DEF IInv
  <2>5. Said \in Text /\ t \in Text
    BY <2>4, DeltasFacts, TextFacts DEF IInv, Shape, Said, Answer
  <2>6. \/ replay' = <<AsDone(t, cs)>> /\ (adapter \in Replaying => t = <<>>)
        \/ replay' = <<TextDelta(t), AsDone(t, cs)>> /\ adapter \in Replaying
    BY <2>2, <2>4, EventFacts DEF Replay
  <2>7. /\ task = "opening" /\ got = <<>> /\ chan = <<>> /\ ~emitted /\ caller \in {"reading", "closed"}
    BY <1>1 DEF IInv, Opening, Looping
  <2>8. Shape'
    BY <1>1, <1>2, <2>2 DEF IInv, Shape
  <2>9. Wire'
    BY <1>1, <1>2 DEF IInv, Wire, Said, Kinds, OpenBlock, BlockAt, BlockAfter
  <2>10. Opening' /\ Reading'
    BY <1>1, <2>2 DEF Opening, Reading
  <2>11. CallsOfClaude' /\ CallsOfAnthropic' /\ SameFold'
    BY <1>1 DEF CallsOfClaude, CallsOfAnthropic, SameFold, Streaming
  <2>12. InHand'
    <3>1. Said' = Said /\ CallLists' = CallLists
      BY <1>2 DEF Said, CallLists, WholeCalls, OfKind
    <3>2. (GivesUpText' <=> GivesUpText) /\ Kinds(sent)' = Kinds(sent)
      BY <1>1, <1>2 DEF GivesUpText, Kinds
    <3>3. Holds(t, cs)'
      BY <1>1, <2>4, <2>6, <3>1, <3>2 DEF Holds, Answer
    <3>4. t \in {<<>>, Said} /\ cs \in CallLists
      BY <2>4 DEF Answer
    <3> QED BY <1>2, <2>3, <3>1, <3>3, <3>4 DEF InHand
  <2>13. Passed' = <<>>
    <3>1. adapter' \notin Streaming
      BY <1>1
    <3>2. CASE replay' = <<AsDone(t, cs)>> /\ (adapter \in Replaying => t = <<>>)
      <4>1. Len(replay') = 1 /\ replay'[1] = AsDone(t, cs)
        BY <3>2
      <4> QED BY <1>1, <3>1, <3>2, <4>1, EventFacts DEF Passed
    <3>3. CASE replay' = <<TextDelta(t), AsDone(t, cs)>>
      <4>1. Len(replay') = 2
        BY <3>3
      <4> QED BY <3>1, <4>1 DEF Passed
    <3> QED BY <2>6, <3>2, <3>3
  <2>14. Delivered' = <<>>
    BY <2>2, <2>7, HandedFacts
  <2>15. Looping'
    <3>1. Len(chan') = 0
      BY <2>2, <2>7
    <3> QED BY <2>2, <2>7, <2>13, <2>14, <3>1 DEF Looping
  <2>16. Channel' /\ ToldRight'
    <3>1. Len(chan') = 0
      BY <2>2, <2>7
    <3> QED BY <1>1, <2>2, <2>7, <3>1 DEF IInv, Channel, ToldRight
  <2>17. NeverAhead'
    <3>1. Said' = Said
      BY <1>2 DEF Said
    <3> QED BY <2>5, <2>14, <3>1, PrefixFacts DEF NeverAhead
  <2> QED BY <2>8, <2>9, <2>10, <2>11, <2>12, <2>15, <2>16, <2>17 DEF IInv
<1> QED BY <1>3, <1>4

\* Done ends the loop, and what it adds completes what was handed over.
Completes(t) ==
    /\ Silent
    /\ adapter \in ReadsErrors => "error" \notin Kinds(sent)
    /\ ~Finished => conn # "reset"
    /\ binding \notin SendsTwice =>
         /\ IsPrefix(Cat(Passed, DoneAdds(t)), Said)
         /\ ~GivesUpText => Cat(Passed, DoneAdds(t)) = Said
    /\ binding \in SendsTwice =>
         \E again \in {Said, Trimmed(Said)} : IsPrefix(Cat(Passed, DoneAdds(t)), Cat(Said, again))

\* So Done keeps the invariant.
LEMMA DoneIInv ==
  ASSUME IInv, task = "polling", NEW t \in Text, NEW cs, On(AsDone(t, cs)),
         UNCHANGED <<adapter, binding, up, read, acc>>,
         caller = "reading" => Completes(t)
  PROVE  IInv'
<1>1. Handling
  BY DEF IInv, Handling
<1>2. UNCHANGED <<adapter, binding, conn, sent, block, read, acc>>
  BY DEF up
<1>3. /\ LoopShape' /\ Channel' /\ task' = "ended" /\ caller' \in {caller, "finished"}
      /\ caller = "reading" => Delivered' = Cat(Delivered, DoneAdds(t))
      /\ caller = "closed" => Delivered' = Delivered /\ caller' = caller
  BY <1>1, <1>2, AfterDone
<1>4. Shape'
  BY <1>2, <1>3 DEF IInv, Shape, LoopShape
<1>5. Wire'
  BY <1>2 DEF IInv, Wire, Said, Kinds, OpenBlock, BlockAt, BlockAfter
<1>6. Opening' /\ Reading' /\ CallsOfClaude' /\ CallsOfAnthropic' /\ SameFold' /\ InHand' /\ Looping'
  BY <1>3 DEF Opening, Reading, CallsOfClaude, CallsOfAnthropic, SameFold, InHand, Looping
<1>7. Said' = Said /\ (Silent' <=> Silent) /\ (Finished' <=> Finished) /\ Kinds(sent)' = Kinds(sent)
      /\ (GivesUpText' <=> GivesUpText) /\ Trimmed(Said)' = Trimmed(Said)
  BY <1>2 DEF Said, Silent, Finished, Kinds, GivesUpText
<1>8. caller \in {"reading", "closed"}
  BY DEF IInv, Looping
<1>9. CASE caller = "closed"
  <2>1. chan' = <<>> /\ Len(chan') = 0 /\ caller' = "closed"
    BY <1>3, <1>9 DEF Channel
  <2>2. ToldRight'
    BY <2>1 DEF ToldRight
  <2>3. NeverAhead'
    BY <1>3, <1>7, <1>9 DEF IInv, NeverAhead
  <2> QED BY <1>3, <1>4, <1>5, <1>6, <2>2, <2>3 DEF IInv
<1>10. CASE caller = "reading"
  <2>1. Delivered' = Cat(Passed, DoneAdds(t)) /\ Completes(t)
    BY <1>3, <1>10 DEF IInv, Looping
  <2>2. EndedWell'
    BY <1>2, <1>7, <2>1 DEF EndedWell, Completes
  <2>3. ToldRight'
    BY <2>2 DEF ToldRight
  <2>4. NeverAhead'
    <3>1. CASE binding \notin SendsTwice
      BY <1>7, <2>1, <3>1 DEF NeverAhead, Completes
    <3>2. CASE binding \in SendsTwice
      <4>1. PICK again \in {Said, Trimmed(Said)} : IsPrefix(Delivered', Cat(Said, again))
        BY <2>1, <3>2 DEF Completes
      <4>2. IsPrefix(Delivered', Said \o again)
        BY <4>1 DEF Cat
      <4>3. Silent'
        BY <1>7, <2>1 DEF Completes
      <4> QED BY <1>2, <1>3, <1>7, <3>2, <4>2, <4>3 DEF NeverAhead
    <3> QED BY <3>1, <3>2
  <2> QED BY <1>3, <1>4, <1>5, <1>6, <2>3, <2>4 DEF IInv
<1> QED BY <1>8, <1>9, <1>10

\* What a streaming adapter has read when it yields Done is all there is.
LEMMA AllRead ==
  ASSUME IInv, task = "polling", adapter \in Streaming, AtDone \/ (read = Len(sent) /\ conn = "eof")
  PROVE  /\ Silent /\ (~Finished => conn # "reset") /\ acc.text = Said /\ Passed = Said /\ Said \in Text
         /\ adapter \in ReadsErrors => "error" \notin Kinds(sent)
         /\ AtDone => UpToDone(sent) = WasRead
         /\ ~AtDone => WasRead = sent
<1>1. sent \in Seq(Events) /\ read \in Nat /\ read <= Len(sent) /\ WasRead = First(sent, read)
  BY FirstFacts DEF IInv, Shape
<1>2. /\ acc.text = Deltas(WasRead) /\ Passed = Deltas(WasRead)
      /\ adapter \in {"claude", "anthropic", "glm"} => "error" \notin Kinds(WasRead)
      /\ adapter \in BreaksAtDone => "done" \notin Kinds(WasRead)
  BY DEF IInv, Reading, Passed
<1>3. adapter \in ReadsErrors => adapter \in {"claude", "anthropic", "glm"}
  BY DEF ReadsErrors, Streaming
<1>4. CASE AtDone
  <2> DEFINE e == sent[read + 1]
  <2>1. adapter \in BreaksAtDone /\ read < Len(sent) /\ e.kind = "done"
    BY <1>4 DEF AtDone
  <2>2. read + 1 \in 1..Len(sent)
    BY <1>1, <2>1
  <2>3. read + 1 = Len(sent)
    BY <2>1, <2>2 DEF IInv, Wire
  <2>4. sent = Append(WasRead, e) /\ WasRead \in Seq(Events) /\ e \in Events
    <3>1. First(sent, read + 1) = Append(First(sent, read), sent[read + 1]) /\ sent[read + 1] \in Events
          /\ First(sent, read) \in Seq(Events) /\ First(sent, Len(sent)) = sent
      BY <1>1, <2>1, FirstFacts
    <3> QED BY <1>1, <2>3, <3>1
  <2>5. Finished
    BY <2>1, <2>2 DEF Finished
  <2> HIDE DEF e
  <2>6. Said = Deltas(WasRead) /\ Deltas(WasRead) \in Text
    <3>1. Deltas(Append(WasRead, e)) = Cat(Deltas(WasRead), SaidBy(e)) /\ Deltas(WasRead) \in Text
      BY <2>4, DeltasFacts
    <3>2. SaidBy(e) = <<>>
      BY <2>1 DEF SaidBy
    <3>3. Cat(Deltas(WasRead), <<>>) = Deltas(WasRead)
      BY <3>1, TextFacts
    <3>4. Said = Deltas(Append(WasRead, e))
      BY <2>4 DEF Said
    <3> QED BY <3>1, <3>2, <3>3, <3>4
  <2>7. OfKind(WasRead, "done") = {}
    BY <1>2, <2>1 DEF Kinds, OfKind
  <2>8. UpToDone(sent) = WasRead
    <3>1. UpToDone(Append(WasRead, e)) = WasRead
      BY <2>1, <2>4, <2>7, UpToDoneFacts
    <3> QED BY <2>4, <3>1
  <2>9. adapter \in ReadsErrors => "error" \notin Kinds(sent)
    <3>1. \A i \in 1..Len(sent) : sent[i].kind = "error" => i = Len(sent)
      BY DEF IInv, Wire
    <3>2. sent[Len(sent)].kind = "done"
      BY <2>1, <2>3 DEF e
    <3>3. \A i \in DOMAIN sent : i \in 1..Len(sent)
      BY <1>1
    <3> QED BY <3>1, <3>2, <3>3 DEF Kinds
  <2> QED BY <1>2, <1>4, <2>5, <2>6, <2>8, <2>9 DEF Silent
<1>5. CASE ~AtDone
  <2>1. read = Len(sent) /\ conn = "eof"
    BY <1>5
  <2>2. WasRead = sent
    BY <1>1, <2>1, FirstFacts
  <2>3. Said \in Text
    BY <1>1, DeltasFacts DEF Said
  <2> QED BY <1>2, <1>3, <1>5, <2>1, <2>2, <2>3 DEF Silent, Said
<1> QED BY <1>4, <1>5

\* The end of the stream of a streaming adapter.
LEMMA PollEndIInv ==
  ASSUME IInv, PollEnd
  PROVE  IInv'
<1>1. task = "polling" /\ adapter \in Streaming /\ UNCHANGED <<adapter, binding, up, read, acc, replay>>
  BY DEF PollEnd
<1>2. CASE (AtDone \/ (read = Len(sent) /\ conn = "eof")) /\ Handle(DoneEvent(StreamedResponse(adapter, acc)))
  <2> DEFINE r == StreamedResponse(adapter, acc)
             t == r.text
             cs == r.calls
  <2>1. DoneEvent(r) = AsDone(t, cs)
    BY DEF StreamedResponse, ClaudeResponse, DoneEvent, AsDone
  <2>2. t = IF adapter = "glm" THEN Trimmed(acc.text) ELSE acc.text
    BY DEF StreamedResponse, ClaudeResponse
  <2>3. On(AsDone(t, cs))
    <3>1. DoneEvent(r) # Nothing
      BY <2>1, EventFacts
    <3> QED BY <1>2, <2>1, <3>1 DEF Handle
  <2>4. /\ Silent /\ (~Finished => conn # "reset") /\ acc.text = Said /\ Passed = Said /\ Said \in Text
        /\ adapter \in ReadsErrors => "error" \notin Kinds(sent)
    BY <1>1, <1>2, AllRead
  <2> HIDE DEF r, t, cs
  <2>5. t \in {Said, Trimmed(Said)} /\ t \in Text
    BY <2>2, <2>4, TrimmedFacts
  <2>6. ASSUME caller = "reading" PROVE Completes(t)
    <3>1. CASE binding \in SendsTwice
      <4>1. DoneAdds(t) = t
        BY <3>1 DEF DoneAdds
      <4>2. Cat(Said, t) \in Text /\ IsPrefix(Cat(Said, t), Cat(Said, t))
        BY <2>4, <2>5, TextFacts, PrefixFacts
      <4> QED BY <2>4, <2>5, <3>1, <4>1, <4>2 DEF Completes
    <3>2. CASE binding \notin SendsTwice
      <4>1. DoneAdds(t) \in {<<>>, t}
        BY <3>2 DEF DoneAdds
      <4>2. DoneAdds(t) # <<>> => Passed = <<>>
        <5> SUFFICES ASSUME DoneAdds(t) # <<>> PROVE Passed = <<>>
          OBVIOUS
        <5>1. CASE binding = "chunks"
          <6>1. got = <<>> /\ chan = <<>>
            BY <3>2, <5>1 DEF DoneAdds, IInv, Channel, Direct
          <6>2. Delivered = <<>>
            BY <6>1, HandedFacts
          <6> QED BY <1>1, <2>6, <6>2 DEF IInv, Looping
        <5>2. CASE binding # "chunks"
          <6>1. ~emitted /\ binding \in {"callback", "pull", "server"}
            BY <3>2, <5>2 DEF DoneAdds, SendsTwice, IInv, Shape, AllBound
          <6> QED BY <1>1, <6>1 DEF IInv, Looping
        <5> QED BY <5>1, <5>2
      <4>3. DoneAdds(t) = <<>>
        BY <2>4, <2>5, <4>1, <4>2, TrimmedFacts
      <4>4. Cat(Passed, DoneAdds(t)) = Said
        BY <2>4, <4>3, TextFacts
      <4>5. IsPrefix(Said, Said)
        BY <2>4, PrefixFacts
      <4> QED BY <2>4, <3>2, <4>4, <4>5 DEF Completes
    <3> QED BY <3>1, <3>2
  <2> QED BY <1>1, <2>3, <2>5, <2>6, DoneIInv
<1>3. CASE Handle(Failed)
  <2>1. On(Failed)
    BY <1>3, EventFacts DEF Handle
  <2>2. read' \in 0..Len(sent) /\ acc' \in AccsOf(adapter)
    BY <1>1 DEF IInv, Shape
  <2> QED BY <1>1, <2>1, <2>2, FailureIInv
<1> QED BY <1>2, <1>3 DEF PollEnd

\* An event of a buffering adapter.
LEMMA PollReplayIInv ==
  ASSUME IInv, PollReplay
  PROVE  IInv'
<1>1. task = "polling" /\ replay # <<>> /\ Handle(Head(replay)) /\ replay' = Tail(replay)
      /\ UNCHANGED <<adapter, binding, up, read, acc>>
  BY DEF PollReplay
<1>2. adapter \notin Streaming /\ conn = "eof"
  BY <1>1 DEF IInv, Reading, InHand
<1>3. PICK t \in {<<>>, Said}, cs \in CallLists : Holds(t, cs)
  BY <1>1, <1>2 DEF IInv, InHand
<1>4. Said \in Text /\ t \in Text
  BY DeltasFacts, TextFacts DEF IInv, Shape, Said
<1>5. /\ t = Said \/ GivesUpText
      /\ adapter \in ReadsErrors => "error" \notin Kinds(sent)
      /\ Silent
  BY <1>2, <1>3 DEF Holds, Answer, Silent
<1>6. CASE replay = <<AsDone(t, cs)>>
  <2>1. Head(replay) = AsDone(t, cs) /\ Len(replay) = 1 /\ replay[1] = AsDone(t, cs)
    BY <1>6
  <2>2. On(AsDone(t, cs))
    BY <1>1, <2>1, EventFacts DEF Handle
  <2>3. Passed = IF adapter \in Replaying THEN t ELSE <<>>
    BY <1>2, <2>1, EventFacts DEF Passed
  <2>4. ASSUME caller = "reading" PROVE Completes(t)
    <3>1. DoneAdds(t) \in {<<>>, t}
      BY DEF DoneAdds
    <3>2. CASE binding \in SendsTwice
      <4>1. DoneAdds(t) = t
        BY <3>2 DEF DoneAdds
      <4>2. \E again \in {Said, Trimmed(Said)} : IsPrefix(Cat(Passed, DoneAdds(t)), Cat(Said, again))
        <5>1. CASE t = <<>>
          BY <1>4, <2>3, <4>1, <5>1, TextFacts, PrefixFacts
        <5>2. CASE t = Said /\ adapter \in Replaying
          <6>1. Cat(Said, Said) \in Text /\ IsPrefix(Cat(Said, Said), Cat(Said, Said))
            BY <1>4, TextFacts, PrefixFacts
          <6> QED BY <2>3, <4>1, <5>2, <6>1
        <5>3. CASE t = Said /\ adapter \notin Replaying
          <6>1. Cat(<<>>, Said) = Said /\ IsPrefix(Said, Cat(Said, Said))
            BY <1>4, TextFacts, PrefixFacts
          <6> QED BY <2>3, <4>1, <5>3, <6>1
        <5> QED BY <1>3, <5>1, <5>2, <5>3
      <4> QED BY <1>2, <1>5, <3>2, <4>2 DEF Completes
    <3>3. CASE binding \notin SendsTwice
      <4>1. Cat(Passed, DoneAdds(t)) = t
        <5>1. CASE adapter \in Replaying
          <6>1. Passed = t
            BY <2>3, <5>1
          <6>2. DoneAdds(t) # <<>> => Passed = <<>>
            <7> SUFFICES ASSUME DoneAdds(t) # <<>> PROVE Passed = <<>>
              OBVIOUS
            <7>1. CASE binding = "chunks"
              <8>1. got = <<>> /\ chan = <<>>
                BY <3>3, <7>1 DEF DoneAdds, IInv, Channel, Direct
              <8>2. Delivered = <<>>
                BY <8>1, HandedFacts
              <8> QED BY <1>1, <2>4, <8>2 DEF IInv, Looping
            <7>2. CASE binding # "chunks"
              <8>1. ~emitted /\ binding \in {"callback", "pull", "server"}
                BY <3>3, <7>2 DEF DoneAdds, SendsTwice, IInv, Shape, AllBound
              <8> QED BY <1>1, <8>1 DEF IInv, Looping
            <7> QED BY <7>1, <7>2
          <6> QED BY <1>4, <3>1, <6>1, <6>2, TextFacts
        <5>2. CASE adapter \notin Replaying
          <6>1. Passed = <<>>
            BY <2>3, <5>2
          <6>2. ~emitted /\ (binding = "chunks" => got = <<>>)
            <7>1. adapter \in DoneOnly
              BY <1>2, <5>2 DEF IInv, Shape, AllAdapters
            <7> QED BY <1>1, <7>1 DEF IInv, Looping
          <6>3. DoneAdds(t) = t
            BY <3>3, <6>2 DEF DoneAdds
          <6> QED BY <1>4, <6>1, <6>3, TextFacts
        <5> QED BY <5>1, <5>2
      <4>2. IsPrefix(t, Said)
        BY <1>3, <1>4, PrefixFacts
      <4> QED BY <1>2, <1>5, <3>3, <4>1, <4>2 DEF Completes
    <3> QED BY <3>2, <3>3
  <2> QED BY <1>1, <1>4, <2>2, <2>4, DoneIInv
<1>7. CASE replay = <<TextDelta(t), AsDone(t, cs)>> /\ adapter \in Replaying
  <2>1. Head(replay) = TextDelta(t) /\ Len(replay) = 2 /\ replay' = <<AsDone(t, cs)>> /\ Len(replay') = 1
        /\ replay'[1] = AsDone(t, cs)
    BY <1>1, <1>7
  <2>2. On(TextDelta(t))
    BY <1>1, <2>1, EventFacts DEF Handle
  <2>3. UNCHANGED <<adapter, binding, conn, sent, block, read, acc>>
    BY <1>1 DEF up
  <2>4. Handling
    BY <1>1 DEF IInv, Handling
  <2>5. /\ LoopShape' /\ Channel' /\ caller' = caller /\ AllText(chan')
        /\ task' \in {task, "ended"}
        /\ caller = "reading" => Delivered' = Cat(Delivered, t) /\ task' = task
        /\ caller = "closed" => Delivered' = Delivered
        /\ binding \in {"callback", "pull", "server"} => emitted'
    BY <1>4, <2>2, <2>3, <2>4, AfterDelta
  <2>6. caller \in {"reading", "closed"}
    BY <1>1 DEF IInv, Looping
  <2>7. Passed = <<>> /\ Passed' = t
    BY <1>2, <1>7, <2>1, <2>3, EventFacts DEF Passed
  <2>8. Shape'
    BY <2>3, <2>5 DEF IInv, Shape, LoopShape
  <2>9. Wire'
    BY <2>3 DEF IInv, Wire, Said, Kinds, OpenBlock, BlockAt, BlockAfter
  <2>10. Opening' /\ Reading' /\ CallsOfClaude' /\ CallsOfAnthropic' /\ SameFold'
    BY <1>1, <1>2, <2>3, <2>5 DEF Opening, Reading, CallsOfClaude, CallsOfAnthropic, SameFold, Streaming
  <2>11. InHand'
    <3>1. Said' = Said /\ CallLists' = CallLists
      BY <2>3 DEF Said, CallLists, WholeCalls, OfKind
    <3>2. (GivesUpText' <=> GivesUpText) /\ Kinds(sent)' = Kinds(sent)
      BY <2>3 DEF GivesUpText, Kinds
    <3>3. Holds(t, cs)'
      BY <1>3, <2>1, <2>3, <3>1, <3>2 DEF Holds, Answer
    <3> QED BY <1>2, <1>3, <2>3, <3>1, <3>3 DEF InHand
  <2>12. caller = "reading" => Delivered' = t
    BY <1>1, <1>4, <2>5, <2>7, TextFacts DEF IInv, Looping
  <2>13. Looping'
    <3>1. adapter \notin DoneOnly
      BY <1>7 DEF Replaying, DoneOnly
    <3> QED BY <2>3, <2>5, <2>6, <2>7, <2>12, <3>1 DEF Looping, AllText
  <2>14. NeverAhead'
    <3>1. IsPrefix(t, Said) /\ IsPrefix(Delivered, Said) /\ Said' = Said
      BY <1>1, <1>3, <1>4, <2>3, PrefixFacts DEF IInv, NeverAhead, Said
    <3> QED BY <2>5, <2>6, <2>12, <3>1 DEF NeverAhead
  <2>15. ToldRight'
    BY <2>5, <2>6 DEF ToldRight, AllText
  <2> QED BY <2>5, <2>8, <2>9, <2>10, <2>11, <2>13, <2>14, <2>15 DEF IInv
<1> QED BY <1>3, <1>6, <1>7 DEF Holds

\* One event of the wire, read by a streaming adapter.
LEMMA StreamStepText ==
  ASSUME NEW a \in AccsOf(adapter), NEW e \in Events, adapter \in Streaming
  PROVE  LET r == StreamStep(adapter, a, e)
         IN /\ r.acc \in AccsOf(adapter)
            /\ \/ r.out = Failed
               \/ /\ r.acc.text = Cat(a.text, SaidBy(e))
                  /\ \/ r.out = TextDelta(SaidBy(e))
                     \/ r.out = Nothing /\ SaidBy(e) = <<>>
                  /\ adapter \in {"claude", "anthropic", "glm"} => e.kind # "error"
                  /\ adapter = "claude" => e.kind # "junk"
<1> DEFINE r == StreamStep(adapter, a, e)
<1>0. a.text \in Text /\ Cat(a.text, <<>>) = a.text /\ (e.kind = "text" => e.v \in Text)
  BY TextFacts DEF AccsOf, Events
<1>01. /\ Same(a).acc = a /\ Same(a).out = Nothing
       /\ Raise(a).acc = a /\ Raise(a).out = Failed
  BY DEF Same, Raise
<1>02. /\ e.kind = "text" => SaidBy(e) = e.v
       /\ e.kind # "text" => SaidBy(e) = <<>>
  BY DEF SaidBy
<1>1. e.kind = "text" =>
        /\ Say(a, e.v) \in AccsOf(adapter) /\ Say(a, e.v).text = Cat(a.text, e.v)
  <2> SUFFICES ASSUME e.kind = "text"
               PROVE  Say(a, e.v) \in AccsOf(adapter) /\ Say(a, e.v).text = Cat(a.text, e.v)
    OBVIOUS
  <2>1. Cat(a.text, e.v) \in Text
    BY <1>0, TextFacts
  <2>2. a.text \o e.v \in Text
    BY <2>1 DEF Cat
  <2> QED BY <2>2 DEF AccsOf, Say, Cat
<1>2. CASE adapter = "claude"
  <2>1. r = ClaudeStream(a, e)
    BY <1>2 DEF StreamStep
  <2>2. AccsOf(adapter) = Accs
    BY <1>2 DEF AccsOf, CallsOf, Accs
  <2>3. push(a, e) \in Outcomes
    BY <2>2, pushType
  <2>4. CASE e.kind = "done"
    BY <1>0, <1>01, <1>02, <1>2, <2>1, <2>4 DEF ClaudeStream
  <2>5. CASE e.kind \in {"junk", "error"}
    BY <1>01, <2>1, <2>5 DEF ClaudeStream
  <2>6. CASE e.kind \notin {"done", "junk", "error"}
    <3>1. r = push(a, e)
      BY <2>1, <2>6 DEF ClaudeStream
    <3>2. r.acc \in AccsOf(adapter)
      BY <2>2, <2>3, <3>1 DEF Outcomes
    <3>3. CASE e.kind = "text"
      BY <1>1, <1>02, <2>6, <3>1, <3>2, <3>3 DEF push
    <3>4. CASE e.kind # "text"
      <4>1. r.acc.text = a.text /\ r.out = Nothing
        <5>1. CASE e.kind = "tool"
          BY <3>1, <5>1, <2>2 DEF push, Same, Accs
        <5>2. CASE e.kind = "args"
          BY <3>1, <5>2, <2>2 DEF push, Same, Accs
        <5>3. CASE e.kind \notin {"text", "tool", "args"}
          BY <3>1, <5>3 DEF push, Same
        <5> QED BY <3>4, <5>1, <5>2, <5>3
      <4> QED BY <1>0, <1>02, <2>6, <3>2, <3>4, <4>1
    <3> QED BY <3>3, <3>4
  <2> QED BY <2>4, <2>5, <2>6
<1>3. CASE adapter = "anthropic"
  <2>1. r = AnthropicStream(a, e)
    BY <1>3 DEF StreamStep
  <2>2. a.calls \in Seq({"args", "empty"}) /\ a.pending \in Seq(Frags) /\ a.open \in BOOLEAN
    BY <1>3 DEF AccsOf, CallsOf
  <2>3. CASE e.kind = "text"
    BY <1>1, <1>02, <2>1, <2>3 DEF AnthropicStream
  <2>4. CASE e.kind = "tool"
    <3> DEFINE b == [a EXCEPT !.pending = <<>>, !.open = TRUE]
    <3>1. r = Same(b)
      BY <2>1, <2>4 DEF AnthropicStream
    <3>3. <<>> \in Seq(Frags)
      OBVIOUS
    <3>4. b \in AccsOf(adapter) /\ b.text = a.text
      BY <3>3 DEF AccsOf
    <3> HIDE DEF b, r
    <3>2. r.acc \in AccsOf(adapter) /\ r.acc.text = a.text /\ r.out = Nothing
      BY <3>1, <3>4 DEF Same
    <3> QED BY <1>0, <1>02, <1>3, <2>4, <3>2 DEF r
  <2>5. CASE e.kind = "args" /\ a.open
    <3> DEFINE b == [a EXCEPT !.pending = Append(a.pending, e.v)]
    <3>1. r = Same(b)
      BY <2>1, <2>5 DEF AnthropicStream
    <3>2. Append(a.pending, e.v) \in Seq(Frags)
      BY <2>2, <2>5 DEF Events
    <3>3. b \in AccsOf(adapter) /\ b.text = a.text
      BY <3>2 DEF AccsOf
    <3> HIDE DEF b, r
    <3>4. r.acc \in AccsOf(adapter) /\ r.acc.text = a.text /\ r.out = Nothing
      BY <3>1, <3>3 DEF Same
    <3> QED BY <1>0, <1>02, <2>5, <3>4 DEF r
  <2>6. CASE e.kind = "stop" /\ a.open
    <3> DEFINE b == [a EXCEPT !.calls = Append(@, Parsed(a.pending)), !.open = FALSE]
    <3>1. r = Same(b)
      BY <2>1, <2>6 DEF AnthropicStream
    <3>2. Append(a.calls, Parsed(a.pending)) \in CallsOf(adapter)
      BY <1>3, <2>2 DEF Parsed, CallsOf
    <3>4. b \in AccsOf(adapter) /\ b.text = a.text
      BY <3>2 DEF AccsOf
    <3> HIDE DEF b, r
    <3>3. r.acc \in AccsOf(adapter) /\ r.acc.text = a.text /\ r.out = Nothing
      BY <3>1, <3>4 DEF Same
    <3> QED BY <1>0, <1>02, <1>3, <2>6, <3>3 DEF r
  <2>7. CASE e.kind = "error"
    BY <1>01, <2>1, <2>7 DEF AnthropicStream
  <2>8. CASE e.kind \notin {"text", "tool", "error"} /\ ~(e.kind \in {"args", "stop"} /\ a.open)
    <3>1. r = Same(a)
      BY <2>1, <2>8 DEF AnthropicStream
    <3> QED BY <1>0, <1>01, <1>02, <1>3, <2>8, <3>1
  <2> QED BY <2>3, <2>4, <2>5, <2>6, <2>7, <2>8
<1>4. CASE adapter = "openai_compat"
  <2>1. r = OpenaiStream(a, e)
    BY <1>4 DEF StreamStep
  <2> QED BY <1>0, <1>01, <1>02, <1>1, <1>4, <2>1 DEF OpenaiStream
<1>5. CASE adapter = "glm"
  <2>1. r = GlmChunk(a, e)
    BY <1>5 DEF StreamStep
  <2> QED BY <1>0, <1>01, <1>02, <1>1, <1>5, <2>1 DEF GlmChunk
<1> QED BY <1>2, <1>3, <1>4, <1>5 DEF Streaming

\* What has been read, and the calls in it, after one event more.
LEMMA ReadOneMore ==
  ASSUME Shape, Wire, read < Len(sent)
  PROVE  LET e == sent[read + 1]
             w == Append(WasRead, e)
         IN /\ e \in Events /\ WasRead \in Seq(Events)
            /\ First(sent, read + 1) = w
            /\ Kinds(w) = Kinds(WasRead) \cup {e.kind}
            /\ Deltas(w) = Cat(Deltas(WasRead), SaidBy(e)) /\ Deltas(WasRead) \in Text /\ Deltas(w) \in Text
            /\ IsPrefix(Deltas(w), Said)
            /\ Stops(WasRead) \in Nat /\ Stops(w) = Stops(WasRead) + IF e.kind = "stop" THEN 1 ELSE 0
            /\ OpenBlock(w) = BlockAfter(e) /\ Follows(OpenBlock(WasRead), e)
            /\ OpenBlock(WasRead) \in {NoBlock, <<>>, <<"{">>, FullArgs}
<1> DEFINE e == sent[read + 1]
           w == Append(WasRead, e)
           n == read
<1>1. sent \in Seq(Events) /\ n \in Nat /\ n < Len(sent) /\ n <= Len(sent) /\ n + 1 <= Len(sent)
      /\ n + 1 \in 1..Len(sent) /\ n + 1 \in Nat
  BY DEF Shape
<1>2. WasRead = First(sent, n)
  BY FirstFacts
<1>3. /\ e \in Events /\ WasRead \in Seq(Events) /\ First(sent, n + 1) = w
      /\ Len(WasRead) = n /\ \A i \in 1..n : WasRead[i] = sent[i]
  BY <1>1, <1>2, FirstFacts
<1>4. Deltas(w) = Cat(Deltas(WasRead), SaidBy(e)) /\ Deltas(WasRead) \in Text
  BY <1>3, DeltasFacts
<1>5. Deltas(w) \in Text /\ IsPrefix(Deltas(w), Said)
  <2>1. Deltas(First(sent, n + 1)) \in Text /\ IsPrefix(Deltas(First(sent, n + 1)), Deltas(sent))
    BY <1>1, DeltasPrefix
  <2> QED BY <1>3, <2>1 DEF Said
<1>6. Stops(WasRead) \in Nat /\ Stops(w) = Stops(WasRead) + IF e.kind = "stop" THEN 1 ELSE 0
  BY <1>3, CountFacts DEF Stops
<1>7. Kinds(w) = Kinds(WasRead) \cup {e.kind}
  <2> HIDE DEF e
  <2> QED BY <1>1, <1>3 DEF Kinds
<1>8. OpenBlock(w) = BlockAfter(e)
  <2>1. Len(w) = n + 1 /\ w[n + 1] = e /\ n + 1 # 0
    BY <1>1, <1>3
  <2> HIDE DEF w
  <2> QED BY <2>1 DEF OpenBlock, BlockAt
<1>9. OpenBlock(WasRead) = BlockAt(sent, n)
  <2>1. n # 0 => n \in 1..n
    BY <1>1
  <2> QED BY <1>3, <2>1 DEF OpenBlock, BlockAt
<1>10. Follows(OpenBlock(WasRead), e)
  <2>1. Follows(BlockAt(sent, (n + 1) - 1), sent[n + 1])
    BY <1>1 DEF Wire
  <2>2. (n + 1) - 1 = n
    BY <1>1
  <2> QED BY <1>9, <2>1, <2>2
<1>11. OpenBlock(WasRead) \in {NoBlock, <<>>, <<"{">>, FullArgs}
  BY DEF OpenBlock, BlockAt, BlockAfter
<1> QED BY <1>3, <1>4, <1>5, <1>6, <1>7, <1>8, <1>10, <1>11

\* The last element of a sequence replaced ..
LEMMA LastReplaced ==
  ASSUME NEW S, NEW s \in Seq(S), NEW n \in Nat, Len(s) = n, n # 0, NEW x
  PROVE  LET t == [s EXCEPT ![n] = x]
         IN Len(t) = n /\ t[n] = x /\ \A i \in 1..n : i # n => t[i] = s[i]
<1> DEFINE t == [s EXCEPT ![n] = x]
<1>1. n \in 1..n /\ DOMAIN s = 1..n
  OBVIOUS
<1>2. DOMAIN t = 1..n /\ t[n] = x /\ \A i \in 1..n : i # n => t[i] = s[i]
  BY <1>1
<1>3. t = [i \in 1..n |-> t[i]]
  BY <1>1
<1> HIDE DEF t
<1>4. Len(t) = n
  BY <1>2, <1>3
<1> QED BY <1>2, <1>4 DEF t

\* .. and one appended.
LEMMA OneAppended ==
  ASSUME NEW S, NEW s \in Seq(S), NEW x \in S, NEW n \in Nat, Len(s) = n
  PROVE  /\ Len(Append(s, x)) = n + 1 /\ Append(s, x)[n + 1] = x
         /\ \A i \in 1..n : Append(s, x)[i] = s[i]
OBVIOUS

\* What Accumulator::push does to the list of calls.
LEMMA pushCalls ==
  ASSUME NEW a \in Accs, NEW e \in Events
  PROVE  /\ e.kind = "tool" => push(a, e).acc.calls = Append(a.calls, <<>>)
         /\ e.kind = "args" => push(a, e).acc.calls = [a.calls EXCEPT ![Len(a.calls)] = Append(@, e.v)]
         /\ e.kind \notin {"tool", "args"} => push(a, e).acc.calls = a.calls
<1>1. CASE e.kind = "tool"
  BY <1>1 DEF push, Same, Accs
<1>2. CASE e.kind = "args"
  BY <1>2 DEF push, Same, Accs
<1>3. CASE e.kind \notin {"tool", "args"}
  BY <1>3 DEF push, Same, Say, Accs
<1> QED BY <1>1, <1>2, <1>3

\* One more where a call's block ends.
Ended(m, e) == m + IF e.kind = "stop" THEN 1 ELSE 0

\* A call has ended only with "stop".
LEMMA EndedIs ==
  ASSUME NEW m \in Nat, NEW e
  PROVE  (e.kind = "stop" => Ended(m, e) = m + 1) /\ (e.kind # "stop" => Ended(m, e) = m)
BY DEF Ended

\* The list of calls of push when a call is announced, when a fragment of it
\* arrives, and when its block ends.
LEMMA ClaudeTool ==
  ASSUME NEW cs \in Seq(Seq(Frags)), NEW m \in Nat, ClaudeHas(cs, NoBlock, m)
  PROVE  ClaudeHas(Append(cs, <<>>), <<>>, m)
<1> DEFINE s == Append(cs, <<>>)
<1>1. <<>> # NoBlock /\ <<>> \in Seq(Frags)
  BY DEF NoBlock
<1>2. Len(cs) = m /\ \A i \in 1..m : cs[i] = FullArgs
  BY DEF ClaudeHas
<1>3. Len(s) = m + 1 /\ s[m + 1] = <<>> /\ \A i \in 1..m : s[i] = cs[i]
  BY <1>1, <1>2, OneAppended
<1> HIDE DEF s
<1>4. ASSUME NEW i \in 1..Len(s)
      PROVE  s[i] = IF <<>> # NoBlock /\ i = Len(s) THEN <<>> ELSE FullArgs
  <2>1. i \in 1..m \/ i = m + 1
    BY <1>3
  <2>2. m + 1 \notin 1..m
    OBVIOUS
  <2> QED BY <1>1, <1>2, <1>3, <2>1, <2>2
<1>5. Len(s) = m + IF <<>> = NoBlock THEN 0 ELSE 1
  BY <1>1, <1>3
<1>6. ClaudeHas(s, <<>>, m)
  BY <1>4, <1>5 DEF ClaudeHas
<1> QED BY <1>6 DEF s

\* .. when a fragment of it arrives ..
LEMMA ClaudeArgs ==
  ASSUME NEW cs \in Seq(Seq(Frags)), NEW m \in Nat, NEW b, b # NoBlock, NEW c, c # NoBlock,
         ClaudeHas(cs, b, m)
  PROVE  Len(cs) = m + 1 /\ cs[m + 1] = b /\ ClaudeHas([cs EXCEPT ![m + 1] = c], c, m)
<1> DEFINE n == m + 1
           s == [cs EXCEPT ![n] = c]
<1>1. Len(cs) = m + 1 /\ \A i \in 1..(m + 1) : cs[i] = IF i = m + 1 THEN b ELSE FullArgs
  BY DEF ClaudeHas
<1>2. n \in Nat /\ n # 0 /\ n \in 1..n
  OBVIOUS
<1> HIDE DEF n
<1>3. Len(cs) = n /\ cs[n] = b /\ \A i \in 1..n : i # n => cs[i] = FullArgs
  BY <1>1, <1>2 DEF n
<1>4. Len(s) = n /\ s[n] = c /\ \A i \in 1..n : i # n => s[i] = cs[i]
  BY <1>2, <1>3, LastReplaced
<1> HIDE DEF s
<1>5. ASSUME NEW i \in 1..Len(s)
      PROVE  s[i] = IF c # NoBlock /\ i = Len(s) THEN c ELSE FullArgs
  BY <1>3, <1>4
<1>6. Len(s) = m + IF c = NoBlock THEN 0 ELSE 1
  BY <1>4 DEF n
<1>7. ClaudeHas(s, c, m)
  BY <1>5, <1>6 DEF ClaudeHas
<1> QED BY <1>3, <1>7 DEF s, n

\* .. and when its block ends.
LEMMA ClaudeStop ==
  ASSUME NEW cs, NEW m \in Nat, ClaudeHas(cs, FullArgs, m)
  PROVE  ClaudeHas(cs, NoBlock, m + 1)
<1>1. FullArgs # NoBlock
  BY DEF FullArgs, NoBlock
<1>2. Len(cs) = m + 1 /\ \A i \in 1..Len(cs) : cs[i] = FullArgs
  BY <1>1 DEF ClaudeHas
<1>3. Len(cs) = (m + 1) + 0
  BY <1>2
<1> QED BY <1>2, <1>3 DEF ClaudeHas

\* So push keeps the list of calls that the wire has ended, and the open one.
LEMMA ClaudeCalls ==
  ASSUME NEW a \in Accs, NEW e \in Events, NEW b \in {NoBlock, <<>>, <<"{">>, FullArgs}, Follows(b, e),
         e.kind # "error", NEW m \in Nat, ClaudeHas(a.calls, b, m)
  PROVE  ClaudeHas(push(a, e).acc.calls, BlockAfter(e), Ended(m, e))
<1> DEFINE cs == a.calls
           s == push(a, e).acc.calls
           c == BlockAfter(e)
<1>0. cs \in Seq(Seq(Frags))
  BY DEF Accs
<1>1. /\ e.kind = "tool" => b = NoBlock /\ c = <<>>
      /\ e.kind = "args" => b \notin {NoBlock, FullArgs} /\ c = Append(b, e.v)
      /\ e.kind = "stop" => b = FullArgs /\ c = NoBlock
      /\ e.kind \notin {"tool", "args", "stop"} => b = NoBlock /\ c = NoBlock
      /\ e.kind \in {"tool", "args"} => c # NoBlock
  BY BlockStep, Zenon
<1>2. /\ e.kind = "tool" => s = Append(cs, <<>>)
      /\ e.kind = "args" => s = [cs EXCEPT ![Len(cs)] = Append(@, e.v)]
      /\ e.kind \notin {"tool", "args"} => s = cs
  BY pushCalls
<1>3. ClaudeHas(cs, b, m)
  OBVIOUS
<1> HIDE DEF cs, s, c
<1>6. CASE e.kind = "tool"
  <2>1. ClaudeHas(Append(cs, <<>>), <<>>, m)
    BY <1>0, <1>1, <1>3, <1>6, ClaudeTool
  <2>2. Ended(m, e) = m /\ s = Append(cs, <<>>) /\ c = <<>>
    BY <1>1, <1>2, <1>6, EndedIs
  <2> QED BY <2>1, <2>2, Zenon DEF s, c
<1>7. CASE e.kind = "args"
  <2>1. b # NoBlock /\ c # NoBlock /\ c = Append(b, e.v)
    BY <1>1, <1>7
  <2>2. Len(cs) = m + 1 /\ cs[m + 1] = b /\ ClaudeHas([cs EXCEPT ![m + 1] = c], c, m)
    BY <1>0, <1>3, <2>1, ClaudeArgs
  <2>3. s = [cs EXCEPT ![Len(cs)] = Append(cs[Len(cs)], e.v)]
    BY <1>2, <1>7
  <2>4. s = [cs EXCEPT ![m + 1] = c]
    BY <2>1, <2>2, <2>3, Zenon
  <2>5. Ended(m, e) = m
    BY <1>7, EndedIs
  <2>6. ClaudeHas(s, c, Ended(m, e))
    BY <2>2, <2>4, <2>5, Zenon
  <2> QED BY <2>6 DEF s, c
<1>8. CASE e.kind = "stop"
  <2>1. s = cs /\ c = NoBlock /\ b = FullArgs
    BY <1>1, <1>2, <1>8
  <2>2. ClaudeHas(cs, NoBlock, m + 1)
    BY <1>3, <2>1, ClaudeStop
  <2>3. Ended(m, e) = m + 1
    BY <1>8, EndedIs
  <2> QED BY <2>1, <2>2, <2>3, Zenon DEF s, c
<1>9. CASE e.kind \notin {"tool", "args", "stop"}
  <2>1. s = cs /\ b = NoBlock /\ c = NoBlock
    BY <1>1, <1>2, <1>9
  <2>2. Ended(m, e) = m
    BY <1>9, EndedIs
  <2> QED BY <1>3, <2>1, <2>2, Zenon DEF s, c
<1> QED BY <1>6, <1>7, <1>8, <1>9

AllArgs(s, n) == Len(s) = n /\ \A i \in 1..Len(s) : s[i] = "args"

\* A complete call appended to complete ones.
LEMMA ArgsAppended ==
  ASSUME NEW s \in Seq({"args", "empty"}), NEW n \in Nat, AllArgs(s, n)
  PROVE  AllArgs(Append(s, "args"), n + 1)
<1> DEFINE u == Append(s, "args")
<1>1. Len(s) = n /\ \A i \in 1..n : s[i] = "args"
  BY DEF AllArgs
<1>2. Len(u) = n + 1 /\ u[n + 1] = "args" /\ \A i \in 1..n : u[i] = s[i]
  BY <1>1, OneAppended
<1> HIDE DEF u
<1>3. \A i \in 1..(n + 1) : i \in 1..n \/ i = n + 1
  OBVIOUS
<1>4. AllArgs(u, n + 1)
  BY <1>1, <1>2, <1>3 DEF AllArgs
<1> QED BY <1>4 DEF u

\* The stream of anthropic keeps the calls that ended, and the open one apart.
LEMMA AnthropicCalls ==
  ASSUME NEW a \in AccsOf("anthropic"), NEW e \in Events,
         NEW b \in {NoBlock, <<>>, <<"{">>, FullArgs}, Follows(b, e), e.kind # "error",
         NEW m \in Nat, AnthropicHas(a, b, m)
  PROVE  AnthropicHas(AnthropicStream(a, e).acc, BlockAfter(e), Ended(m, e))
<1> DEFINE c == BlockAfter(e)
           d == AnthropicStream(a, e).acc
<1>0. a.calls \in Seq({"args", "empty"}) /\ a.open \in BOOLEAN /\ FullArgs # NoBlock
  BY DEF AccsOf, CallsOf, FullArgs, NoBlock
<1>1. /\ e.kind = "tool" => b = NoBlock /\ c = <<>>
      /\ e.kind = "args" => b \notin {NoBlock, FullArgs} /\ c = Append(b, e.v)
      /\ e.kind = "stop" => b = FullArgs /\ c = NoBlock
      /\ e.kind \notin {"tool", "args", "stop"} => b = NoBlock /\ c = NoBlock
      /\ e.kind \in {"tool", "args"} => c # NoBlock
  BY BlockStep, Zenon
<1>2. /\ (b # NoBlock) <=> a.open
      /\ a.open => a.pending = b
      /\ Len(a.calls) = m /\ \A i \in 1..Len(a.calls) : a.calls[i] = "args"
  BY DEF AnthropicHas
<1>3. /\ e.kind = "tool" => d.open /\ d.pending = <<>> /\ d.calls = a.calls
      /\ e.kind = "args" /\ a.open => d.open /\ d.pending = Append(a.pending, e.v) /\ d.calls = a.calls
      /\ e.kind = "stop" /\ a.open => ~d.open /\ d.calls = Append(a.calls, Parsed(a.pending))
      /\ e.kind \notin {"tool", "args", "stop"} =>
           (d.open <=> a.open) /\ d.pending = a.pending /\ d.calls = a.calls
  <2>1. CASE e.kind = "tool"
    BY <2>1 DEF AnthropicStream, Same, AccsOf
  <2>2. CASE e.kind = "args"
    BY <2>2 DEF AnthropicStream, Same, AccsOf
  <2>3. CASE e.kind = "stop"
    BY <2>3 DEF AnthropicStream, Same, AccsOf
  <2>4. CASE e.kind = "text"
    BY <2>4 DEF AnthropicStream, Say, AccsOf
  <2>5. CASE e.kind \notin {"tool", "args", "stop", "text"}
    <3>1. d = a
      BY <2>5 DEF AnthropicStream, Same, Raise
    <3> HIDE DEF d
    <3> QED BY <2>5, <3>1
  <2> QED BY <2>1, <2>2, <2>3, <2>4, <2>5
<1> HIDE DEF c, d
<1>4. CASE e.kind = "tool"
  <2>1. Ended(m, e) = m
    BY <1>4, EndedIs
  <2> QED BY <1>1, <1>2, <1>3, <1>4, <2>1 DEF AnthropicHas, c, d
<1>5. CASE e.kind = "args"
  <2>1. a.open
    BY <1>1, <1>2, <1>5
  <2>2. d.open /\ d.pending = Append(b, e.v) /\ d.calls = a.calls
    BY <1>2, <1>3, <1>5, <2>1, Zenon
  <2>3. d.pending = c /\ c # NoBlock
    BY <1>1, <1>5, <2>2, Zenon
  <2>4. Ended(m, e) = m
    BY <1>5, EndedIs
  <2>5. AnthropicHas(d, c, Ended(m, e))
    BY <1>2, <2>2, <2>3, <2>4 DEF AnthropicHas
  <2> QED BY <2>5 DEF c, d
<1>6. CASE e.kind = "stop"
  <2>1. a.open /\ a.pending = FullArgs
    BY <1>0, <1>1, <1>2, <1>6
  <2>2. Parsed(a.pending) = "args"
    BY <2>1 DEF Parsed
  <2>3. ~d.open /\ d.calls = Append(a.calls, "args")
    BY <1>3, <1>6, <2>1, <2>2, Zenon
  <2>4. Ended(m, e) = m + 1 /\ c = NoBlock
    BY <1>1, <1>6, EndedIs
  <2>5. Len(d.calls) = m + 1 /\ \A i \in 1..Len(d.calls) : d.calls[i] = "args"
    <3>1. AllArgs(a.calls, m)
      BY <1>2 DEF AllArgs
    <3>2. AllArgs(Append(a.calls, "args"), m + 1)
      BY <1>0, <3>1, ArgsAppended
    <3> QED BY <2>3, <3>2 DEF AllArgs
  <2>6. AnthropicHas(d, c, Ended(m, e))
    BY <2>3, <2>4, <2>5 DEF AnthropicHas
  <2> QED BY <2>6 DEF c, d
<1>7. CASE e.kind \notin {"tool", "args", "stop"}
  <2>1. Ended(m, e) = m
    BY <1>7, EndedIs
  <2>2. AnthropicHas(d, c, Ended(m, e))
    BY <1>1, <1>2, <1>3, <1>7, <2>1 DEF AnthropicHas
  <2> QED BY <2>2 DEF c, d
<1> QED BY <1>4, <1>5, <1>6, <1>7

\* Streaming and buffering, claude and glm take the same step.
LEMMA SameStep ==
  ASSUME NEW a \in Accs, NEW e \in Events, adapter \in {"claude", "glm"},
         StreamStep(adapter, a, e).out # Failed
  PROVE  /\ StepOf(adapter, a, e) = StreamStep(adapter, a, e)
         /\ adapter = "claude" => StreamStep(adapter, a, e).acc = push(a, e).acc
<1>1. Raise(a).out = Failed /\ Same(a).acc = a
  BY DEF Raise, Same
<1>2. CASE adapter = "claude"
  <2>1. StreamStep(adapter, a, e) = ClaudeStream(a, e) /\ StepOf(adapter, a, e) = ClaudeBuffered(a, e)
    BY <1>2 DEF StreamStep, StepOf
  <2>2. e.kind \notin {"junk", "error"}
    BY <1>1, <2>1 DEF ClaudeStream
  <2>3. CASE e.kind = "done"
    <3>1. ClaudeStream(a, e) = Same(a) /\ ClaudeBuffered(a, e) = Same(a)
      BY <2>3 DEF ClaudeStream, ClaudeBuffered
    <3>2. push(a, e) = Same(a)
      BY <2>3 DEF push
    <3> QED BY <2>1, <3>1, <3>2, Zenon
  <2>4. CASE e.kind # "done"
    <3>1. ClaudeStream(a, e) = push(a, e) /\ ClaudeBuffered(a, e) = push(a, e)
      BY <2>2, <2>4 DEF ClaudeStream, ClaudeBuffered
    <3> QED BY <2>1, <3>1, Zenon
  <2> QED BY <2>3, <2>4
<1>3. CASE adapter = "glm"
  BY <1>3 DEF StreamStep, StepOf
<1> QED BY <1>2, <1>3

\* A streaming adapter goes on from an event that is no error.
LEMMA ReadingGoesOn ==
  ASSUME IInv, task = "polling", adapter \in Streaming, read < Len(sent), ~AtDone,
         UNCHANGED <<adapter, binding, up, replay>>, read' = read + 1,
         acc' = StreamStep(adapter, acc, sent[read + 1]).acc,
         StreamStep(adapter, acc, sent[read + 1]).out # Failed
  PROVE  /\ Reading' /\ CallsOfClaude' /\ CallsOfAnthropic' /\ SameFold'
         /\ Passed' = Cat(Passed, SaidBy(sent[read + 1])) /\ Passed \in Text
         /\ IsPrefix(Passed', Said)
<1> DEFINE e == sent[read + 1]
           r == StreamStep(adapter, acc, e)
           w == Append(WasRead, e)
<1>1. /\ e \in Events /\ WasRead \in Seq(Events)
      /\ First(sent, read + 1) = w
      /\ Kinds(w) = Kinds(WasRead) \cup {e.kind}
      /\ Deltas(w) = Cat(Deltas(WasRead), SaidBy(e)) /\ Deltas(WasRead) \in Text
      /\ IsPrefix(Deltas(w), Said)
      /\ Stops(WasRead) \in Nat /\ Stops(w) = Stops(WasRead) + IF e.kind = "stop" THEN 1 ELSE 0
      /\ OpenBlock(w) = BlockAfter(e) /\ Follows(OpenBlock(WasRead), e)
      /\ OpenBlock(WasRead) \in {NoBlock, <<>>, <<"{">>, FullArgs}
  BY ReadOneMore DEF IInv
<1>2. UNCHANGED <<adapter, binding, conn, sent, block, replay>>
  BY DEF up
<1>3. WasRead' = w
  BY <1>1, <1>2, FirstFacts
<1>4. acc \in AccsOf(adapter) /\ read \in Nat
  BY DEF IInv, Shape
<1>5. /\ r.acc \in AccsOf(adapter)
      /\ r.acc.text = Cat(acc.text, SaidBy(e))
      /\ adapter \in {"claude", "anthropic", "glm"} => e.kind # "error"
      /\ adapter = "claude" => e.kind # "junk"
  BY <1>1, <1>4, StreamStepText
<1>6. adapter \in BreaksAtDone => e.kind # "done"
  BY DEF AtDone
<1>7. /\ replay = <<>>
      /\ acc.text = Deltas(WasRead)
      /\ adapter \in {"claude", "anthropic", "glm"} => "error" \notin Kinds(WasRead)
      /\ adapter = "claude" => "junk" \notin Kinds(WasRead)
      /\ adapter \in BreaksAtDone => "done" \notin Kinds(WasRead)
  BY DEF IInv, Reading
<1>8. acc' = r.acc /\ Ended(Stops(WasRead), e) = Stops(w)
  BY <1>1 DEF Ended
<1> HIDE DEF e, r, w
<1>9. Reading'
  <2>1. acc'.text = Deltas(w)
    BY <1>1, <1>5, <1>7, <1>8
  <2>2. Kinds(WasRead)' = Kinds(w) /\ Deltas(WasRead)' = Deltas(w)
    BY <1>3
  <2> QED BY <1>1, <1>2, <1>5, <1>6, <1>7, <2>1, <2>2 DEF Reading
<1>10. adapter \in {"claude", "glm"} => acc \in Accs
  <2>1. FoldOf(adapter, WasRead) \in Outcomes
    BY <1>1, FoldFacts
  <2>2. adapter \in {"claude", "glm"} => FoldOf(adapter, WasRead).acc = acc
    BY DEF IInv, SameFold
  <2> QED BY <2>1, <2>2 DEF Outcomes
<1>11. CallsOfClaude'
  <2> SUFFICES ASSUME adapter = "claude" PROVE ClaudeHas(acc'.calls, OpenBlock(w), Stops(w))
    BY <1>2, <1>3 DEF CallsOfClaude
  <2>1. acc \in Accs
    BY <1>4 DEF AccsOf, CallsOf, Accs
  <2>2. acc' = push(acc, e).acc
    BY <1>1, <1>8, <2>1, SameStep DEF r, e
  <2>3. ClaudeHas(acc.calls, OpenBlock(WasRead), Stops(WasRead))
    BY DEF IInv, CallsOfClaude
  <2>4. ClaudeHas(push(acc, e).acc.calls, BlockAfter(e), Ended(Stops(WasRead), e))
    BY <1>1, <1>5, <2>1, <2>3, ClaudeCalls
  <2> QED BY <1>1, <1>8, <2>2, <2>4, Zenon
<1>12. CallsOfAnthropic'
  <2> SUFFICES ASSUME adapter = "anthropic" PROVE AnthropicHas(acc', OpenBlock(w), Stops(w))
    BY <1>2, <1>3 DEF CallsOfAnthropic
  <2>1. acc \in AccsOf("anthropic")
    BY <1>4
  <2>2. acc' = AnthropicStream(acc, e).acc
    BY <1>8 DEF r, StreamStep
  <2>3. AnthropicHas(acc, OpenBlock(WasRead), Stops(WasRead))
    BY DEF IInv, CallsOfAnthropic
  <2>4. AnthropicHas(AnthropicStream(acc, e).acc, BlockAfter(e), Ended(Stops(WasRead), e))
    BY <1>1, <1>5, <2>1, <2>3, AnthropicCalls
  <2> QED BY <1>1, <1>8, <2>2, <2>4, Zenon
<1>13. SameFold'
  <2> SUFFICES ASSUME adapter \in {"claude", "glm"}
               PROVE  FoldOf(adapter, w).acc = acc' /\ FoldOf(adapter, w).out # Failed
    BY <1>2, <1>3 DEF SameFold
  <2>1. FoldOf(adapter, WasRead).acc = acc /\ FoldOf(adapter, WasRead).out # Failed
    BY DEF IInv, SameFold
  <2>2. FoldOf(adapter, w) = Next1(adapter, FoldOf(adapter, WasRead), e)
    BY <1>1, FoldFacts DEF w
  <2>3. FoldOf(adapter, w) = StepOf(adapter, acc, e)
    BY <2>1, <2>2, Zenon DEF Next1
  <2>4. acc \in Accs
    BY <1>10
  <2>5. StepOf(adapter, acc, e) = r /\ r.out # Failed
    BY <1>1, <2>4, SameStep DEF r, e
  <2> QED BY <1>8, <2>3, <2>5
<1>14. Passed' = Cat(Passed, SaidBy(e)) /\ Passed \in Text /\ IsPrefix(Passed', Said)
  BY <1>1, <1>2, <1>3 DEF Passed
<1> QED BY <1>9, <1>11, <1>12, <1>13, <1>14 DEF e

\* An event of a streaming adapter.
LEMMA PollEventIInv ==
  ASSUME IInv, PollEvent
  PROVE  IInv'
<1> DEFINE e == sent[read + 1]
           r == StreamStep(adapter, acc, e)
           v == SaidBy(e)
<1>1. /\ task = "polling" /\ adapter \in Streaming /\ read < Len(sent) /\ ~AtDone
      /\ acc' = r.acc /\ Handle(r.out) /\ read' = read + 1
      /\ UNCHANGED <<adapter, binding, up, replay>>
  BY DEF PollEvent
<1>2. UNCHANGED <<adapter, binding, conn, sent, block, replay>>
  BY <1>1 DEF up
<1>3. e \in Events /\ acc \in AccsOf(adapter) /\ read + 1 \in 0..Len(sent)
  <2>1. acc \in AccsOf(adapter) /\ sent \in Seq(Events) /\ read \in Nat
    BY DEF IInv, Shape
  <2>2. e \in Events
    BY <1>1, ReadOneMore DEF IInv
  <2> QED BY <1>1, <2>1, <2>2
<1>4. /\ r.acc \in AccsOf(adapter)
      /\ r.out = Failed \/ r.out = TextDelta(v) \/ (r.out = Nothing /\ v = <<>>)
  BY <1>1, <1>3, StreamStepText
<1>5. v \in Text
  BY <1>3, TextFacts DEF SaidBy, Events
<1> HIDE DEF e, r, v
<1>6. CASE r.out = Failed
  <2>1. On(Failed)
    BY <1>1, <1>6, EventFacts DEF Handle
  <2> QED BY <1>1, <1>3, <1>4, <2>1, FailureIInv
<1>7. CASE r.out # Failed
  <2>1. /\ Reading' /\ CallsOfClaude' /\ CallsOfAnthropic' /\ SameFold'
        /\ Passed' = Cat(Passed, v) /\ Passed \in Text /\ IsPrefix(Passed', Said)
    BY <1>1, <1>7, ReadingGoesOn DEF r, e, v
  <2>2. Said' = Said /\ caller \in {"reading", "closed"}
        /\ (caller = "reading" => Delivered = Passed)
        /\ (binding \in {"callback", "pull", "server"} /\ ~emitted => Passed = <<>>)
    BY <1>1, <1>2 DEF IInv, Looping, Said
  <2>3. Handling
    BY <1>1 DEF IInv, Handling
  <2>4. /\ LoopShape' /\ Channel' /\ caller' = caller /\ AllText(chan')
        /\ task' \in {task, "ended"}
        /\ caller = "reading" => Delivered' = Cat(Delivered, v) /\ task' = task
        /\ caller = "closed" => Delivered' = Delivered
        /\ binding \in {"callback", "pull", "server"} => emitted' \/ (emitted' = emitted /\ v = <<>>)
    <3>1. CASE r.out = TextDelta(v)
      <4>1. On(TextDelta(v))
        BY <1>1, <3>1, EventFacts DEF Handle
      <4> QED BY <1>2, <1>5, <2>3, <4>1, AfterDelta
    <3>2. CASE r.out = Nothing /\ v = <<>>
      <4>1. UNCHANGED <<task, emitted, chan, got, caller>>
        BY <1>1, <3>2 DEF Handle
      <4>2. Delivered' = Delivered /\ Delivered \in Text
        BY <4>1, HandedFacts DEF IInv, Shape
      <4>3. Delivered' = Cat(Delivered, v)
        BY <3>2, <4>2, TextFacts
      <4>4. LoopShape' /\ Channel'
        BY <1>2, <4>1 DEF IInv, Shape, LoopShape, Channel
      <4>5. AllText(chan')
        BY <1>1, <4>1 DEF IInv, Looping, AllText
      <4> QED BY <3>2, <4>1, <4>2, <4>3, <4>4, <4>5
    <3> QED BY <1>4, <1>7, <3>1, <3>2
  <2>5. Shape'
    BY <1>1, <1>2, <1>3, <1>4, <2>4 DEF IInv, Shape, LoopShape
  <2>6. Wire'
    BY <1>2 DEF IInv, Wire, Said, Kinds, OpenBlock, BlockAt, BlockAfter
  <2>7. Opening' /\ InHand'
    BY <1>1, <1>2, <2>4 DEF Opening, InHand
  <2>8. caller = "reading" => Delivered' = Passed'
    BY <2>1, <2>2, <2>4
  <2>9. binding \in {"callback", "pull", "server"} /\ ~emitted' => Passed' = <<>>
    BY <2>1, <2>2, <2>4, TextFacts
  <2>10. Looping'
    <3>1. adapter \notin DoneOnly
      BY <1>1 DEF Streaming, DoneOnly
    <3> QED BY <1>2, <2>2, <2>4, <2>8, <2>9, <3>1 DEF Looping, AllText
  <2>11. NeverAhead'
    <3>1. IsPrefix(Delivered, Said)
      BY <1>1 DEF IInv, NeverAhead
    <3> QED BY <2>1, <2>2, <2>4, <2>8, <3>1 DEF NeverAhead
  <2>12. ToldRight'
    BY <2>2, <2>4 DEF ToldRight, AllText
  <2> QED BY <2>1, <2>4, <2>5, <2>6, <2>7, <2>10, <2>11, <2>12 DEF IInv
<1> QED BY <1>6, <1>7

-----------------------------------------------------------------------------
\* Nothing happens.
LEMMA StutterIInv ==
  ASSUME IInv, UNCHANGED vars
  PROVE  IInv'
<1>1. UNCHANGED <<adapter, binding, conn, sent, block, read, acc, replay, task, emitted, chan, got, caller>>
  BY DEF vars
<1>2. WasRead' = WasRead /\ Said' = Said /\ Delivered' = Delivered /\ Passed' = Passed
  BY <1>1 DEF WasRead, Said, Delivered, OnTheWay, Passed
<1>3. Shape' /\ Opening' /\ Channel'
  BY <1>1 DEF IInv, Shape, Opening, Channel
<1>4. Wire'
  BY <1>1, <1>2 DEF IInv, Wire, Kinds, OpenBlock, BlockAt, BlockAfter
<1>5. Reading' /\ CallsOfClaude' /\ CallsOfAnthropic' /\ SameFold'
  BY <1>1, <1>2, ReadingStays DEF KeepsReading
<1>6. InHand'
  BY <1>1, InHandStays DEF IInv
<1>7. Looping'
  BY <1>1, <1>2 DEF IInv, Looping
<1>8. NeverAhead'
  BY <1>1, <1>2 DEF IInv, NeverAhead, Silent, Finished
<1>9. ToldRight'
  <2>1. (EndedWell' <=> EndedWell)
    BY <1>1, <1>2 DEF EndedWell, Silent, Finished, Kinds, GivesUpText
  <2> QED BY <1>1, <2>1 DEF IInv, ToldRight
<1> QED BY <1>3, <1>4, <1>5, <1>6, <1>7, <1>8, <1>9 DEF IInv

\* Every step keeps the invariant.
LEMMA NextIInv ==
  ASSUME IInv, [Next]_vars
  PROVE  IInv'
<1>1. CASE \E e \in MaySend : Send(e)
  BY <1>1, SendIInv
<1>2. CASE Close
  BY <1>2, CloseIInv
<1>3. CASE OpenFails
  BY <1>3, OpenFailsIInv
<1>4. CASE OpenStream
  BY <1>4, OpenStreamIInv
<1>5. CASE OpenBuffered
  BY <1>5, OpenBufferedIInv
<1>6. CASE PollEvent
  BY <1>6, PollEventIInv
<1>7. CASE PollEnd
  BY <1>7, PollEndIInv
<1>8. CASE PollReplay
  BY <1>8, PollReplayIInv
<1>9. CASE CallerNext
  BY <1>9, CallerNextIInv
<1>10. CASE CallerClose
  BY <1>10, CallerCloseIInv
<1>11. CASE UNCHANGED vars
  BY <1>11, StutterIInv
<1> QED BY <1>1, <1>2, <1>3, <1>4, <1>5, <1>6, <1>7, <1>8, <1>9, <1>10, <1>11 DEF Next, MaySend

\* So it holds at every moment.
LEMMA AlwaysIInv == Spec => []IInv
BY InitIInv, NextIInv, PTL DEF Spec

-----------------------------------------------------------------------------
(* What a caller sees. *)

\* Whichever adapter and binding, the text that has reached the caller or is
\* on its way (the deltas of AsyncGravityClient::chat_stream_over, handed on by
\* the loop of the binding) is a prefix of what the upstream said: none is
\* lost, repeated or reordered on the way.
THEOREM TextArrivesInOrder == Spec => []DeliveredInOrder
<1>1. IInv => DeliveredInOrder
  <2> SUFFICES ASSUME IInv PROVE DeliveredInOrder
    OBVIOUS
  <2>1. CASE IsPrefix(Delivered, Said)
    <3>1. Said \in Text /\ Delivered \in Text
      BY DeltasFacts, HandedFacts DEF IInv, Shape, Said
    <3>2. Cat(Said, Said) \in Text /\ IsPrefix(Said, Cat(Said, Said))
      BY <3>1, TextFacts, PrefixFacts
    <3>3. IsPrefix(Delivered, Cat(Said, Said))
      BY <2>1, <3>1, <3>2, PrefixFacts
    <3>4. IsPrefix(Delivered, Said \o Said)
      BY <3>3 DEF Cat
    <3> QED BY <2>1, <3>4 DEF DeliveredInOrder
  <2>2. CASE ~IsPrefix(Delivered, Said)
    BY <2>2 DEF IInv, NeverAhead, DeliveredInOrder
  <2> QED BY <2>1, <2>2
<1> QED BY <1>1, AlwaysIInv, PTL

\* A caller who has been told that the stream ended well (0 from
\* gravity_chat_stream, NULL from gravity_stream_next, StopIteration, the end
\* of the server's body) has the whole text of the upstream.
THEOREM FinishedMeansComplete == Spec => []CompleteWhenFinished
<1>1. IInv => CompleteWhenFinished
  <2> SUFFICES ASSUME IInv, caller = "finished", binding \notin SendsTwice, ~GivesUpText
               PROVE  Flat(got) = Said
    BY DEF CompleteWhenFinished, GivesUpText
  <2>1. binding # "node"
    BY DEF SendsTwice
  <2>2. Delivered = Said
    BY <2>1 DEF IInv, ToldRight, EndedWell
  <2>3. chan = <<>> /\ got \in Seq(Text)
    BY DEF IInv, Channel, Shape
  <2> QED BY <2>2, <2>3, HandedFacts
<1> QED BY <1>1, AlwaysIInv, PTL

\* A stream that the upstream broke off, or ended with an error event that the
\* adapter reads, is never reported as a success by a binding that can report
\* an error at all.
THEOREM ErrorsAreNotSwallowed == Spec => []ErrorsSurface
<1>1. IInv => ErrorsSurface
  BY DEF IInv, ToldRight, EndedWell, ErrorsSurface
<1> QED BY <1>1, AlwaysIInv, PTL

\* At the end of a body, a streaming adapter that puts calls together holds
\* every call whose block ended; only claude also holds the one left open.
Half == IF adapter = "claude" /\ block # NoBlock THEN 1 ELSE 0
LEMMA CallsAtTheEnd ==
  ASSUME IInv, AtCleanEnd, adapter \in {"claude", "anthropic"}
  PROVE  LET cs == StreamedResponse(adapter, acc).calls
         IN /\ Stops(sent) \in Nat /\ Len(cs) = Stops(sent) + Half
            /\ DOMAIN cs = 1..(Stops(sent) + Half)
            /\ \A i \in 1..Stops(sent) : cs[i] = "args"
<1> DEFINE n == Stops(sent)
           cs == StreamedResponse(adapter, acc).calls
<1>1. sent \in Seq(Events) /\ acc \in AccsOf(adapter)
  BY DEF IInv, Shape
<1>2. WasRead = sent
  BY <1>1, FirstFacts DEF AtCleanEnd
<1>3. OpenBlock(sent) = block
  BY DEF IInv, Wire
<1>4. n \in Nat
  BY <1>1, CountFacts DEF Stops
<1>5. CASE adapter = "claude"
  <2>1. cs = [i \in DOMAIN acc.calls |-> arguments(acc.calls[i])]
    BY <1>5 DEF StreamedResponse, ClaudeResponse
  <2>2. ClaudeHas(acc.calls, block, n)
    BY <1>2, <1>3, <1>5 DEF IInv, CallsOfClaude, AtCleanEnd
  <2>3. acc.calls \in Seq(Seq(Frags))
    BY <1>1, <1>5 DEF AccsOf, CallsOf
  <2> HIDE DEF cs, n
  <2>4. Half \in {0, 1} /\ (Half = 1 <=> block # NoBlock)
    BY <1>5 DEF Half
  <2>5. Len(acc.calls) = n + Half /\ \A i \in 1..n : acc.calls[i] = FullArgs
    BY <1>4, <2>2, <2>4 DEF ClaudeHas
  <2>6. DOMAIN acc.calls = 1..(n + Half)
    BY <2>3, <2>5
  <2>7. arguments(FullArgs) = "args"
    BY DEF arguments, Parsed
  <2>8. cs = [i \in 1..(n + Half) |-> arguments(acc.calls[i])]
    BY <2>1, <2>6
  <2>9. \A i \in 1..n : i \in 1..(n + Half) /\ cs[i] = "args"
    BY <1>4, <2>4, <2>5, <2>7, <2>8
  <2>10. n + Half \in Nat
    BY <1>4, <2>4
  <2> QED BY <1>4, <2>8, <2>9, <2>10 DEF cs, n
<1>6. CASE adapter = "anthropic"
  <2>1. cs = acc.calls
    BY <1>6 DEF StreamedResponse
  <2>2. AnthropicHas(acc, block, n)
    BY <1>2, <1>3, <1>6 DEF IInv, CallsOfAnthropic, AtCleanEnd
  <2>3. acc.calls \in Seq({"args", "empty"})
    BY <1>1, <1>6 DEF AccsOf, CallsOf
  <2> HIDE DEF cs, n
  <2>4. Len(acc.calls) = n /\ \A i \in 1..n : acc.calls[i] = "args"
    BY <2>2 DEF AnthropicHas
  <2>5. n + Half = n
    BY <1>4, <1>6 DEF Half
  <2> QED BY <1>4, <2>1, <2>3, <2>4, <2>5 DEF cs, n
<1> QED BY <1>5, <1>6

\* A call put together from fragments (push of claude/parser.rs, the tool_use
\* blocks of anthropic/mod.rs) has all its arguments when Done reports it, and
\* no call of the answer is missing, wherever the body ended; only claude's
\* list can be longer, by the call the body ended within.
THEOREM CallsAreWhole == Spec => []CallsComplete
<1>1. ASSUME IInv PROVE CallsComplete
  <2> SUFFICES ASSUME AtCleanEnd, adapter \in {"claude", "anthropic"}
               PROVE  /\ Len(StreamedResponse(adapter, acc).calls) = Len(WholeCalls(sent)) + Half
                      /\ \A i \in DOMAIN WholeCalls(sent) : StreamedResponse(adapter, acc).calls[i] = "args"
    BY DEF CallsComplete, Half
  <2> DEFINE cs == StreamedResponse(adapter, acc).calls
  <2>1. /\ Stops(sent) \in Nat /\ Len(cs) = Stops(sent) + Half
        /\ \A i \in 1..Stops(sent) : cs[i] = "args"
    BY <1>1, CallsAtTheEnd
  <2> HIDE DEF cs
  <2>2. Len(WholeCalls(sent)) = Stops(sent) /\ DOMAIN WholeCalls(sent) = 1..Stops(sent)
    BY <2>1 DEF WholeCalls, Stops
  <2> QED BY <2>1, <2>2 DEF cs
<1> QED BY <1>1, AlwaysIInv, PTL

\* "callers that buffer a stream get the same value a non-streaming `chat`
\* would return" (gravity-core/src/stream.rs): the response that claude,
\* anthropic and glm put together event by event is the one that their chat
\* makes of the same body.
THEOREM DoneIsWhatChatReturns == Spec => []DoneMatchesChat
<1>1. ASSUME IInv PROVE DoneMatchesChat
  <2> SUFFICES ASSUME adapter \notin TextOnly, task = "polling", adapter \in Streaming, conn = "eof",
                      AtDone \/ read = Len(sent)
               PROVE  ChatOf(adapter, sent) = DoneEvent(StreamedResponse(adapter, acc))
    BY DEF DoneMatchesChat, Agree
  <2>1. /\ acc.text = Said
        /\ AtDone => UpToDone(sent) = WasRead
        /\ ~AtDone => WasRead = sent
    BY <1>1, AllRead
  <2>2. CASE adapter = "claude"
    <3>1. ~AtDone
      BY <2>2 DEF AtDone, BreaksAtDone
    <3>2. FoldOf(adapter, sent).acc = acc /\ FoldOf(adapter, sent).out # Failed
      BY <1>1, <2>1, <2>2, <3>1 DEF IInv, SameFold
    <3>3. Fold(ClaudeBuffered, sent) = FoldOf(adapter, sent)
      BY <2>2 DEF FoldOf
    <3>4. ClaudeChat(sent) = DoneEvent(ClaudeResponse(acc))
      BY <3>2, <3>3 DEF ClaudeChat
    <3>5. ChatOf(adapter, sent) = ClaudeChat(sent)
      BY <2>2 DEF ChatOf
    <3>6. StreamedResponse(adapter, acc) = ClaudeResponse(acc)
      BY <2>2 DEF StreamedResponse
    <3> QED BY <3>4, <3>5, <3>6, Zenon
  <2>3. CASE adapter = "glm"
    <3>1. UpToDone(sent) = WasRead
      <4>1. CASE ~AtDone
        <5>1. WasRead = sent
          BY <2>1, <4>1
        <5>2. "done" \notin Kinds(sent)
          BY <1>1, <2>3, <5>1 DEF IInv, Reading, BreaksAtDone
        <5>3. {i \in DOMAIN sent : sent[i].kind = "done"} = {}
          BY <5>2 DEF Kinds
        <5>4. UpToDone(sent) = sent
          BY <5>3 DEF UpToDone
        <5> QED BY <5>1, <5>4
      <4> QED BY <2>1, <4>1
    <3>2. FoldOf(adapter, WasRead).acc = acc /\ FoldOf(adapter, WasRead).out # Failed
      BY <1>1, <2>3 DEF IInv, SameFold
    <3>3. Fold(GlmChunk, UpToDone(sent)) = FoldOf(adapter, WasRead)
      BY <2>3, <3>1 DEF FoldOf
    <3>4. GlmChat(sent) = AsDone(Trimmed(acc.text), <<>>)
      BY <3>2, <3>3 DEF GlmChat
    <3>5. ChatOf(adapter, sent) = GlmChat(sent)
      BY <2>3 DEF ChatOf
    <3>6. StreamedResponse(adapter, acc) = [text |-> Trimmed(acc.text), calls |-> <<>>]
      BY <2>3 DEF StreamedResponse
    <3> QED BY <3>4, <3>5, <3>6, Zenon DEF AsDone, DoneEvent
  <2>4. CASE adapter = "anthropic"
    <3>1. ~AtDone /\ read = Len(sent)
      BY <2>4 DEF AtDone, BreaksAtDone
    <3>2. WasRead = sent
      BY <2>1, <3>1
    <3>3. "error" \notin Kinds(sent)
      BY <1>1, <2>4, <3>2 DEF IInv, Reading
    <3>4. ChatOf(adapter, sent) = AsDone(Deltas(sent), WholeCalls(sent))
      BY <2>4, <3>3 DEF ChatOf, AnthropicChat, to_chat_response
    <3>5. StreamedResponse(adapter, acc) = [text |-> acc.text, calls |-> acc.calls]
      BY <2>4 DEF StreamedResponse
    <3>6. acc.calls = WholeCalls(sent)
      <4> DEFINE cs == acc.calls
      <4>1. cs = StreamedResponse(adapter, acc).calls
        BY <3>5
      <4>2. cs \in Seq({"args", "empty"})
        BY <1>1, <2>4 DEF IInv, Shape, AccsOf, CallsOf
      <4>3. Stops(sent) \in Nat /\ DOMAIN cs = 1..Stops(sent) /\ \A i \in 1..Stops(sent) : cs[i] = "args"
        <5>1. AtCleanEnd /\ Half = 0
          BY <2>4, <3>1 DEF AtCleanEnd, Half
        <5>2. /\ Stops(sent) \in Nat /\ DOMAIN cs = 1..(Stops(sent) + Half)
              /\ \A i \in 1..Stops(sent) : cs[i] = "args"
          BY <1>1, <2>4, <4>1, <5>1, CallsAtTheEnd
        <5> HIDE DEF cs
        <5>3. Stops(sent) + Half = Stops(sent)
          BY <5>1, <5>2
        <5> QED BY <5>2, <5>3
      <4> HIDE DEF cs
      <4>4. cs = [i \in 1..Stops(sent) |-> "args"]
        BY <4>2, <4>3
      <4> QED BY <4>4 DEF cs, WholeCalls, Stops
    <3> QED BY <2>1, <3>4, <3>5, <3>6, Zenon DEF AsDone, DoneEvent, Said
  <2> QED BY <2>2, <2>3, <2>4 DEF Streaming, TextOnly
<1> QED BY <1>1, AlwaysIInv, PTL
=============================================================================
