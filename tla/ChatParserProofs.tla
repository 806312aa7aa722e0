-------------------------- MODULE ChatParserProofs --------------------------
(***************************************************************************)
(* What the client of a chat stream gets, for any chunks and any number of *)
(* them.  Everything a property says of a stream of segments is read off   *)
(* it segment by segment, so that it is known of two streams one after the *)
(* other when it is known of each.  What is left to show is that a parsed  *)
(* chunk says what the chunk says, and a merged segment what its two parts *)
(* said.                                                                   *)
(***************************************************************************)
EXTENDS ChatParser, SequenceTheorems, WellFoundedInduction, TLAPS

\* What is true of 0, and of a number when it is true of the one before, is
\* true of all.
LEMMA NatInductionSet ==
  ASSUME NEW S, 0 \in S, \A n \in Nat : n \in S => n + 1 \in S
  PROVE  Nat \subseteq S
<1> DEFINE Less == {ss \in Nat \X Nat : ss[1] < ss[2]}
           T == Nat \ S
<1>1. IsWellFoundedOn(Less, Nat)
  <2>1. OpToRel(<, Nat) = Less
    BY DEF OpToRel
  <2> QED BY <2>1, NatLessThanWellFounded
<1>2. SUFFICES ASSUME T # {} PROVE FALSE
  OBVIOUS
<1>3. PICK n \in T : \A m \in T : <<m, n>> \notin Less
  <2>1. T \subseteq Nat
    OBVIOUS
  <2> HIDE DEF T, Less
  <2> QED BY <1>1, <1>2, <2>1, WFMin
<1>4. n \in Nat /\ n # 0 /\ n \notin S
  OBVIOUS
<1>5. n - 1 \in Nat /\ (n - 1) + 1 = n
  BY <1>4
<1>6. <<n - 1, n>> \in Nat \X Nat /\ n - 1 < n
  BY <1>4, <1>5
<1>7. <<n - 1, n>> \in Less
  BY <1>6
<1>8. n - 1 \in S
  BY <1>3, <1>5, <1>7
<1> QED BY <1>4, <1>5, <1>8

\* A function may be defined by its first value and the step to the next.
Recursive(f, n, S, base, step) ==
  /\ f \in [0 .. n -> S] /\ f[0] = base
  /\ \A k \in 1 .. n : f[k] = step[<<k, f[k - 1]>>]

LEMMA Recursion ==
  ASSUME NEW S, NEW base \in S, NEW n \in Nat, NEW step \in [(1 .. n) \X S -> S]
  PROVE  \E f : Recursive(f, n, S, base, step)
<1> USE DEF Recursive
<1> DEFINE Right(f, m) == Recursive(f, m, S, base, step)
           T == {m \in Nat : m <= n => \E f : Right(f, m)}
<1>1. 0 \in T
  <2> DEFINE f == [k \in 0 .. 0 |-> base]
  <2>1. Right(f, 0)
    OBVIOUS
  <2> QED BY <2>1
<1>2. ASSUME NEW m \in Nat, m \in T PROVE m + 1 \in T
  <2>1. SUFFICES ASSUME m + 1 <= n PROVE \E f : Right(f, m + 1)
    OBVIOUS
  <2>2. PICK f : Right(f, m)
    BY <1>2, <2>1
  <2>3. m + 1 \in 1 .. n /\ m \in 0 .. m /\ f[m] \in S
    BY <2>1, <2>2
  <2> DEFINE last == step[<<m + 1, f[m]>>]
             more == [k \in 0 .. m + 1 |-> IF k <= m THEN f[k] ELSE last]
  <2>4. last \in S
    BY <2>3
  <2> HIDE DEF last
  <2>5. more \in [0 .. m + 1 -> S] /\ more[0] = base
    BY <2>2, <2>3, <2>4
  <2>6. ASSUME NEW k \in 1 .. m + 1 PROVE more[k] = step[<<k, more[k - 1]>>]
    <3>1. CASE k <= m
      <4>1. k - 1 \in 0 .. m + 1 /\ k - 1 <= m /\ k \in 1 .. m /\ k \in 0 .. m + 1
        BY <3>1
      <4>2. more[k] = f[k] /\ more[k - 1] = f[k - 1]
        BY <3>1, <4>1
      <4> QED BY <2>2, <4>1, <4>2
    <3>2. CASE ~(k <= m)
      <4>1. k = m + 1 /\ k - 1 = m /\ m \in 0 .. m + 1 /\ k \in 0 .. m + 1 /\ m <= m
        BY <3>2
      <4>2. more[k] = last /\ more[k - 1] = f[m]
        BY <3>2, <4>1
      <4> QED BY <4>1, <4>2 DEF last
    <3> QED BY <3>1, <3>2
  <2> HIDE DEF more
  <2> QED BY <2>5, <2>6
<1> HIDE DEF T
<1>3. Nat \subseteq T
  BY <1>1, <1>2, NatInductionSet
<1>4. n \in T /\ n <= n
  BY <1>3
<1> QED BY <1>4 DEF T

-----------------------------------------------------------------------------
\* FlattenSeq, one sequence after the other.
LEMMA FlattenSteps ==
  ASSUME NEW S, NEW ss \in Seq(Seq(S))
  PROVE  \E f \in [0 .. Len(ss) -> Seq(S)] :
           /\ f[0] = <<>>
           /\ \A k \in 1 .. Len(ss) : f[k] = f[k - 1] \o ss[k]
           /\ FlattenSeq(ss) = f[Len(ss)]
<1> DEFINE n == Len(ss)
           step == [x \in (1 .. n) \X Seq(S) |-> x[2] \o ss[x[1]]]
<1>1. n \in Nat /\ \A k \in 1 .. n : ss[k] \in Seq(S)
  BY LenProperties, ElementOfSeq
<1>2. ASSUME NEW x \in (1 .. n) \X Seq(S) PROVE x[2] \o ss[x[1]] \in Seq(S)
  <2>1. x[2] \in Seq(S) /\ ss[x[1]] \in Seq(S)
    BY <1>1
  <2> QED BY <2>1, ConcatProperties
<1>3. step \in [(1 .. n) \X Seq(S) -> Seq(S)]
  BY <1>2
<1>4. <<>> \in Seq(S)
  BY EmptySeq
<1> HIDE DEF n
<1>5. PICK f : Recursive(f, n, Seq(S), <<>>, step)
  <2> HIDE DEF step
  <2> QED BY <1>1, <1>3, <1>4, Recursion
<1>6. f \in [0 .. n -> Seq(S)] /\ f[0] = <<>>
  BY <1>5 DEF Recursive
<1>7. ASSUME NEW k \in 1 .. n PROVE f[k] = f[k - 1] \o ss[k]
  <2>1. k \in 0 .. n /\ k # 0 /\ k - 1 \in 0 .. n
    BY <1>1
  <2>2. <<k, f[k - 1]>> \in (1 .. n) \X Seq(S)
    BY <1>6, <2>1
  <2>3. f[k] = step[<<k, f[k - 1]>>]
    BY <1>5 DEF Recursive
  <2> QED BY <2>2, <2>3
<1>8. FlattenSeq(ss) = f[n]
  <2>1. CASE n = 0
    <3>1. ss = <<>>
      BY <2>1, EmptySeq DEF n
    <3> QED BY <1>6, <2>1, <3>1 DEF FlattenSeq, n
  <2>2. CASE n # 0
    <3> DEFINE Equation(g) ==
                 g = [i \in 1 .. n |-> IF i = 1 THEN ss[i] ELSE g[i - 1] \o ss[i]]
               flatten == CHOOSE g : Equation(g)
    <3>1. FlattenSeq(ss) = flatten[n]
      BY <2>2 DEF FlattenSeq, n
    <3>2. \E g : Equation(g)
      <4> DEFINE g == [i \in 1 .. n |-> f[i]]
      <4>1. ASSUME NEW i \in 1 .. n
            PROVE  g[i] = IF i = 1 THEN ss[i] ELSE g[i - 1] \o ss[i]
        <5>1. CASE i = 1
          <6>1. i - 1 = 0
            BY <5>1
          <6>4. f[i] = f[i - 1] \o ss[i] /\ ss[i] \in Seq(S)
            BY <1>1, <1>7
          <6>2. f[i] = <<>> \o ss[i]
            BY <1>6, <6>1, <6>4
          <6>3. f[i] = ss[i]
            BY <6>2, <6>4, ConcatEmptySeq
          <6> QED BY <5>1, <6>3
        <5>2. CASE i # 1
          <6>1. i - 1 \in 1 .. n
            BY <1>1, <5>2
          <6> QED BY <1>7, <5>2, <6>1
        <5> QED BY <5>1, <5>2
      <4>2. g = [i \in 1 .. n |-> g[i]]
        OBVIOUS
      <4> HIDE DEF g
      <4>3. Equation(g)
        BY <4>1, <4>2
      <4> QED BY <4>3
    <3>3. Equation(flatten)
      BY <3>2
    <3> HIDE DEF flatten
    <3> DEFINE T == {k \in Nat : k + 1 <= n => flatten[k + 1] = f[k + 1]}
    <3>4. 0 \in T
      <4>1. 1 \in 1 .. n /\ 1 - 1 = 0 /\ 0 + 1 = 1
        BY <1>1, <2>2
      <4>2. flatten[1] = ss[1] /\ f[1] = <<>> \o ss[1] /\ ss[1] \in Seq(S)
        BY <1>1, <1>6, <1>7, <3>3, <4>1
      <4>3. flatten[1] = f[1]
        BY <4>2, ConcatEmptySeq
      <4> QED BY <4>1, <4>3
    <3>5. ASSUME NEW k \in Nat, k \in T PROVE k + 1 \in T
      <4>1. SUFFICES ASSUME (k + 1) + 1 <= n
                     PROVE  flatten[(k + 1) + 1] = f[(k + 1) + 1]
        OBVIOUS
      <4>2. /\ (k + 1) + 1 \in 1 .. n /\ (k + 1) + 1 # 1 /\ k + 1 <= n
            /\ ((k + 1) + 1) - 1 = k + 1
        BY <1>1, <4>1
      <4>3. flatten[k + 1] = f[k + 1]
        BY <3>5, <4>2
      <4> HIDE DEF T
      <4>4. flatten[(k + 1) + 1] = flatten[k + 1] \o ss[(k + 1) + 1]
        BY <3>3, <4>2
      <4> QED BY <1>7, <4>2, <4>3, <4>4
    <3> HIDE DEF T
    <3>6. n - 1 \in T
      <4>1. n - 1 \in Nat
        BY <1>1, <2>2
      <4>2. Nat \subseteq T
        BY <3>4, <3>5, NatInductionSet
      <4> QED BY <4>1, <4>2
    <3>7. (n - 1) + 1 = n /\ n <= n
      BY <1>1
    <3> QED BY <3>1, <3>6, <3>7 DEF T
  <2> QED BY <2>1, <2>2
<1> QED BY <1>6, <1>7, <1>8 DEF n

LEMMA FlattenType ==
  ASSUME NEW S, NEW ss \in Seq(Seq(S))
  PROVE  FlattenSeq(ss) \in Seq(S)
<1>1. Len(ss) \in 0 .. Len(ss)
  BY LenProperties
<1>2. PICK f \in [0 .. Len(ss) -> Seq(S)] : FlattenSeq(ss) = f[Len(ss)]
  BY FlattenSteps
<1> QED BY <1>1, <1>2

LEMMA FlattenEmpty == FlattenSeq(<<>>) = <<>>
BY EmptySeq DEF FlattenSeq

LEMMA FlattenOne ==
  ASSUME NEW S, NEW s \in Seq(S)
  PROVE  FlattenSeq(<<s>>) = s
<1> DEFINE ss == <<s>>
<1>1. ss \in Seq(Seq(S)) /\ Len(ss) = 1 /\ ss[1] = s
  OBVIOUS
<1> HIDE DEF ss
<1>2. PICK f \in [0 .. Len(ss) -> Seq(S)] :
        /\ f[0] = <<>>
        /\ \A k \in 1 .. Len(ss) : f[k] = f[k - 1] \o ss[k]
        /\ FlattenSeq(ss) = f[Len(ss)]
  BY <1>1, FlattenSteps
<1>3. FlattenSeq(ss) = <<>> \o s
  <2>1. 1 \in 1 .. Len(ss) /\ 1 - 1 = 0
    BY <1>1
  <2>2. f[1] = f[0] \o ss[1]
    BY <1>2, <2>1
  <2> QED BY <1>1, <1>2, <2>2
<1>4. FlattenSeq(ss) = s
  BY <1>3, ConcatEmptySeq
<1> QED BY <1>4 DEF ss

\* Sequences that are flattened one after the other.
LEMMA FlattenConcat ==
  ASSUME NEW S, NEW a \in Seq(Seq(S)), NEW b \in Seq(Seq(S))
  PROVE  FlattenSeq(a \o b) = FlattenSeq(a) \o FlattenSeq(b)
<1> DEFINE ab == a \o b
           n == Len(a)
           m == Len(b)
<1>1. /\ n \in Nat /\ m \in Nat /\ ab \in Seq(Seq(S)) /\ Len(ab) = n + m
      /\ \A i \in 1 .. n + m : ab[i] = IF i <= n THEN a[i] ELSE b[i - n]
  BY LenProperties, ConcatProperties
<1>2. \A k \in 1 .. m : b[k] \in Seq(S)
  BY ElementOfSeq
<1> HIDE DEF ab, n, m
<1>3. PICK f \in [0 .. n -> Seq(S)] :
        /\ f[0] = <<>>
        /\ \A k \in 1 .. n : f[k] = f[k - 1] \o a[k]
        /\ FlattenSeq(a) = f[n]
  BY FlattenSteps DEF n
<1>4. PICK g \in [0 .. m -> Seq(S)] :
        /\ g[0] = <<>>
        /\ \A k \in 1 .. m : g[k] = g[k - 1] \o b[k]
        /\ FlattenSeq(b) = g[m]
  BY FlattenSteps DEF m
<1>5. PICK h \in [0 .. n + m -> Seq(S)] :
        /\ h[0] = <<>>
        /\ \A k \in 1 .. n + m : h[k] = h[k - 1] \o ab[k]
        /\ FlattenSeq(ab) = h[n + m]
  <2>1. \E h \in [0 .. Len(ab) -> Seq(S)] :
          /\ h[0] = <<>>
          /\ \A k \in 1 .. Len(ab) : h[k] = h[k - 1] \o ab[k]
          /\ FlattenSeq(ab) = h[Len(ab)]
    BY <1>1, FlattenSteps
  <2> QED BY <1>1, <2>1
<1> DEFINE T == {k \in Nat : k <= n => h[k] = f[k]}
           Meets(k) == h[n + k] = f[n] \o g[k]
           U == {k \in Nat : k <= m => Meets(k)}
<1>6. 0 \in T
  BY <1>3, <1>5
<1>7. ASSUME NEW k \in Nat, k \in T PROVE k + 1 \in T
  <2>1. SUFFICES ASSUME k + 1 <= n PROVE h[k + 1] = f[k + 1]
    OBVIOUS
  <2>2. /\ k + 1 \in 1 .. n /\ k + 1 \in 1 .. n + m /\ k <= n
        /\ (k + 1) - 1 = k
    BY <1>1, <2>1
  <2>3. h[k] = f[k] /\ ab[k + 1] = a[k + 1]
    BY <1>1, <1>7, <2>1, <2>2
  <2> HIDE DEF T
  <2> QED BY <1>3, <1>5, <2>2, <2>3
<1>8. h[n] = f[n]
  <2> HIDE DEF T
  <2>1. n \in T
    BY <1>1, <1>6, <1>7, NatInductionSet
  <2>2. n <= n
    BY <1>1
  <2> QED BY <2>1, <2>2 DEF T
<1>9. f[n] \in Seq(S)
  BY <1>1, <1>3
<1>10. 0 \in U
  <2>1. h[n + 0] = f[n] \o <<>>
    BY <1>1, <1>8, <1>9, ConcatEmptySeq
  <2> QED BY <1>4, <2>1
<1>11. ASSUME NEW k \in Nat, k \in U PROVE k + 1 \in U
  <2> HIDE DEF Meets
  <2>1. SUFFICES ASSUME k + 1 <= m PROVE Meets(k + 1)
    OBVIOUS
  <2>2. /\ k + 1 \in 1 .. m /\ n + (k + 1) \in 1 .. n + m /\ k <= m /\ k \in 0 .. m
        /\ (k + 1) - 1 = k /\ (n + (k + 1)) - 1 = n + k
        /\ ~(n + (k + 1) <= n) /\ (n + (k + 1)) - n = k + 1
    <3>1. n \in Nat /\ m \in Nat /\ k \in Nat
      BY <1>1
    <3> HIDE DEF n, m, U
    <3>2. k + 1 \in 1 .. m /\ n + (k + 1) \in 1 .. n + m /\ k <= m /\ k \in 0 .. m
      BY <2>1, <3>1
    <3>3. /\ (k + 1) - 1 = k /\ (n + (k + 1)) - 1 = n + k
          /\ ~(n + (k + 1) <= n) /\ (n + (k + 1)) - n = k + 1
      BY <3>1
    <3> QED BY <3>2, <3>3
  <2>3. h[n + k] = f[n] \o g[k]
    BY <1>11, <2>2 DEF Meets
  <2>4. ab[n + (k + 1)] = b[k + 1]
    BY <1>1, <2>2
  <2> HIDE DEF U, T
  <2>5. h[n + (k + 1)] = h[n + k] \o b[k + 1]
    BY <1>5, <2>2, <2>4
  <2>6. g[k + 1] = g[k] \o b[k + 1]
    BY <1>4, <2>2
  <2>7. g[k] \in Seq(S) /\ b[k + 1] \in Seq(S)
    BY <1>2, <1>4, <2>2
  <2>8. (f[n] \o g[k]) \o b[k + 1] = f[n] \o (g[k] \o b[k + 1])
    <3> DEFINE u == f[n]
               v == g[k]
               w == b[k + 1]
    <3>1. u \in Seq(S) /\ v \in Seq(S) /\ w \in Seq(S)
      BY <1>9, <2>7
    <3> HIDE DEF u, v, w
    <3>2. (u \o v) \o w = u \o (v \o w)
      BY <3>1, ConcatAssociative, SMTT(20)
    <3> QED BY <3>2 DEF u, v, w
  <2> QED BY <2>3, <2>5, <2>6, <2>8 DEF Meets
<1>12. h[n + m] = f[n] \o g[m]
  <2> HIDE DEF U, T
  <2>1. m \in U
    BY <1>1, <1>10, <1>11, NatInductionSet
  <2>2. m <= m
    BY <1>1
  <2> QED BY <2>1, <2>2 DEF U
<1> QED BY <1>3, <1>4, <1>5, <1>12 DEF ab

\* All but one of the sequences are empty.
LEMMA FlattenSingle ==
  ASSUME NEW S, NEW ss \in Seq(Seq(S)), NEW j \in 1 .. Len(ss),
         \A i \in 1 .. Len(ss) : i # j => ss[i] = <<>>
  PROVE  FlattenSeq(ss) = ss[j]
<1> DEFINE n == Len(ss)
<1>1. n \in Nat /\ \A k \in 1 .. n : ss[k] \in Seq(S)
  BY LenProperties, ElementOfSeq
<1>2. PICK f \in [0 .. n -> Seq(S)] :
        /\ f[0] = <<>>
        /\ \A k \in 1 .. n : f[k] = f[k - 1] \o ss[k]
        /\ FlattenSeq(ss) = f[n]
  BY FlattenSteps
<1>3. j \in 1 .. n /\ \A i \in 1 .. n : i # j => ss[i] = <<>>
  OBVIOUS
<1> HIDE DEF n
<1> DEFINE T == {k \in Nat : k <= n => f[k] = IF k < j THEN <<>> ELSE ss[j]}
<1>4. 0 \in T
  BY <1>2, <1>3
<1>5. ASSUME NEW k \in Nat, k \in T PROVE k + 1 \in T
  <2>1. SUFFICES ASSUME k + 1 <= n
                 PROVE  f[k + 1] = IF k + 1 < j THEN <<>> ELSE ss[j]
    OBVIOUS
  <2>2. k + 1 \in 1 .. n /\ k <= n /\ k \in 0 .. n /\ (k + 1) - 1 = k
    BY <1>1, <2>1
  <2>3. f[k] = IF k < j THEN <<>> ELSE ss[j]
    BY <1>5, <2>2
  <2> HIDE DEF T
  <2>4. f[k + 1] = f[k] \o ss[k + 1]
    BY <1>2, <2>2
  <2>5. CASE k + 1 = j
    <3>1. k < j /\ ~(k + 1 < j)
      BY <1>1, <2>5
    <3>2. f[k + 1] = <<>> \o ss[j] /\ ss[j] \in Seq(S)
      BY <1>1, <1>3, <2>3, <2>4, <2>5, <3>1
    <3> QED BY <3>1, <3>2, ConcatEmptySeq
  <2>6. CASE k + 1 # j
    <3>1. (k < j) <=> (k + 1 < j)
      BY <1>1, <1>3, <2>6
    <3>2. f[k + 1] = f[k] \o <<>> /\ f[k] \in Seq(S)
      BY <1>2, <1>3, <2>2, <2>4, <2>6
    <3>3. f[k + 1] = f[k]
      BY <3>2, ConcatEmptySeq
    <3> QED BY <2>3, <3>1, <3>3
  <2> QED BY <2>5, <2>6
<1>6. n \in T
  <2> HIDE DEF T
  <2> QED BY <1>1, <1>4, <1>5, NatInductionSet
<1>7. n <= n /\ ~(n < j)
  BY <1>1, <1>3
<1> QED BY <1>2, <1>6, <1>7

\* All of them are.
LEMMA FlattenNone ==
  ASSUME NEW S, NEW ss \in Seq(Seq(S)), \A i \in 1 .. Len(ss) : ss[i] = <<>>
  PROVE  FlattenSeq(ss) = <<>>
<1>1. CASE ss = <<>>
  BY <1>1, FlattenEmpty
<1>2. CASE ss # <<>>
  <2>1. Len(ss) \in 1 .. Len(ss)
    BY <1>2, EmptySeq
  <2> QED BY <2>1, FlattenSingle
<1> QED BY <1>1, <1>2

-----------------------------------------------------------------------------
\* What is read off a sequence element by element.
Maps(F, S, X) == F \in [S -> X]

Mapped(F, s) == [i \in DOMAIN s |-> F[s[i]]]

FlatMap(F, s) == FlattenSeq(Mapped(F, s))

LEMMA MappedType ==
  ASSUME NEW S, NEW X, NEW F, Maps(F, S, X), NEW s \in Seq(S)
  PROVE  /\ Mapped(F, s) \in Seq(X) /\ Len(Mapped(F, s)) = Len(s)
         /\ \A i \in 1 .. Len(s) : Mapped(F, s)[i] = F[s[i]]
<1> DEFINE n == Len(s)
<1>1. n \in Nat /\ DOMAIN s = 1 .. n /\ \A i \in 1 .. n : s[i] \in S
  BY LenProperties, ElementOfSeq
<1> HIDE DEF n
<1>2. Mapped(F, s) = [i \in 1 .. n |-> F[s[i]]]
  BY <1>1 DEF Mapped
<1>3. \A i \in 1 .. n : F[s[i]] \in X
  BY <1>1 DEF Maps
<1>4. Mapped(F, s) \in Seq(X)
  BY <1>1, <1>2, <1>3, IsASeq
<1>5. Len(Mapped(F, s)) = n
  BY <1>1, <1>2, <1>4, LenProperties
<1> QED BY <1>2, <1>4, <1>5 DEF n

LEMMA MappedConcat ==
  ASSUME NEW S, NEW X, NEW F, Maps(F, S, X), NEW s \in Seq(S), NEW t \in Seq(S)
  PROVE  Mapped(F, s \o t) = Mapped(F, s) \o Mapped(F, t)
<1> DEFINE st == s \o t
           a == Mapped(F, s)
           b == Mapped(F, t)
           c == Mapped(F, st)
           n == Len(s)
           m == Len(t)
<1>1. /\ n \in Nat /\ m \in Nat /\ st \in Seq(S) /\ Len(st) = n + m
      /\ \A i \in 1 .. n + m : st[i] = IF i <= n THEN s[i] ELSE t[i - n]
  BY LenProperties, ConcatProperties
<1>2. a \in Seq(X) /\ Len(a) = n /\ \A i \in 1 .. n : a[i] = F[s[i]]
  BY MappedType
<1>3. b \in Seq(X) /\ Len(b) = m /\ \A i \in 1 .. m : b[i] = F[t[i]]
  BY MappedType
<1> HIDE DEF st
<1>4. c \in Seq(X) /\ Len(c) = n + m /\ \A i \in 1 .. n + m : c[i] = F[st[i]]
  <2>1. Mapped(F, st) \in Seq(X) /\ Len(Mapped(F, st)) = Len(st)
    BY <1>1, MappedType
  <2>2. \A i \in 1 .. Len(st) : Mapped(F, st)[i] = F[st[i]]
    BY <1>1, MappedType, SMTT(20)
  <2> QED BY <1>1, <2>1, <2>2
<1> HIDE DEF a, b, c, n, m
<1>5. /\ a \o b \in Seq(X) /\ Len(a \o b) = n + m
      /\ \A i \in 1 .. n + m : (a \o b)[i] = IF i <= n THEN a[i] ELSE b[i - n]
  <2>1. /\ a \o b \in Seq(X) /\ Len(a \o b) = Len(a) + Len(b)
        /\ \A i \in 1 .. Len(a) + Len(b) :
             (a \o b)[i] = IF i <= Len(a) THEN a[i] ELSE b[i - Len(a)]
    BY <1>2, <1>3, ConcatProperties
  <2> QED BY <1>2, <1>3, <2>1
<1>6. ASSUME NEW i \in 1 .. n + m PROVE c[i] = (a \o b)[i]
  <2>1. CASE i <= n
    <3>1. i \in 1 .. n
      BY <1>1, <2>1
    <3>2. st[i] = s[i] /\ (a \o b)[i] = a[i]
      BY <1>1, <1>5, <2>1
    <3>3. c[i] = F[st[i]] /\ a[i] = F[s[i]]
      BY <1>2, <1>4, <3>1
    <3> QED BY <3>2, <3>3
  <2>2. CASE ~(i <= n)
    <3>1. i - n \in 1 .. m
      BY <1>1, <2>2
    <3>2. st[i] = t[i - n] /\ (a \o b)[i] = b[i - n]
      BY <1>1, <1>5, <2>2
    <3>3. c[i] = F[st[i]] /\ b[i - n] = F[t[i - n]]
      BY <1>3, <1>4, <3>1
    <3> QED BY <3>2, <3>3
  <2> QED BY <2>1, <2>2
<1>7. c = a \o b
  BY <1>4, <1>5, <1>6, SeqEqual
<1> QED BY <1>7 DEF a, b, c, st

LEMMA FlatMapType ==
  ASSUME NEW S, NEW X, NEW F, Maps(F, S, Seq(X)), NEW s \in Seq(S)
  PROVE  FlatMap(F, s) \in Seq(X)
<1>1. Mapped(F, s) \in Seq(Seq(X))
  BY MappedType
<1> QED BY <1>1, FlattenType DEF FlatMap

LEMMA FlatMapEmpty ==
  ASSUME NEW F
  PROVE  FlatMap(F, <<>>) = <<>>
<1>1. Mapped(F, <<>>) = <<>>
  BY DEF Mapped
<1> QED BY <1>1, FlattenEmpty DEF FlatMap

LEMMA FlatMapOne ==
  ASSUME NEW S, NEW X, NEW F, Maps(F, S, Seq(X)), NEW e \in S
  PROVE  FlatMap(F, <<e>>) = F[e]
<1>1. Mapped(F, <<e>>) = <<F[e]>>
  <2>1. <<e>> \in Seq(S) /\ Len(<<e>>) = 1 /\ <<e>>[1] = e
    OBVIOUS
  <2>2. /\ Mapped(F, <<e>>) \in Seq(Seq(X)) /\ Len(Mapped(F, <<e>>)) = 1
        /\ Mapped(F, <<e>>)[1] = F[e]
    <3> DEFINE one == <<e>>
    <3>1. one \in Seq(S) /\ Len(one) = 1 /\ one[1] = e /\ 1 \in 1 .. Len(one)
      BY <2>1
    <3> HIDE DEF one
    <3>2. /\ Mapped(F, one) \in Seq(Seq(X)) /\ Len(Mapped(F, one)) = Len(one)
          /\ \A i \in 1 .. Len(one) : Mapped(F, one)[i] = F[one[i]]
      BY <3>1, MappedType
    <3>3. Mapped(F, one)[1] = F[e]
      BY <3>1, <3>2
    <3> QED BY <3>1, <3>2, <3>3 DEF one
  <2>3. /\ <<F[e]>> \in Seq(Seq(X)) /\ Len(<<F[e]>>) = 1
        /\ <<F[e]>>[1] = F[e]
    BY DEF Maps
  <2>4. \A i \in 1 .. 1 : i = 1
    OBVIOUS
  <2> QED BY <2>2, <2>3, <2>4, SeqEqual
<1>2. F[e] \in Seq(X)
  BY DEF Maps
<1> QED BY <1>1, <1>2, FlattenOne DEF FlatMap

\* It is known of two sequences one after the other when it is of each.
LEMMA FlatMapConcat ==
  ASSUME NEW S, NEW X, NEW F, Maps(F, S, Seq(X)), NEW s \in Seq(S), NEW t \in Seq(S)
  PROVE  FlatMap(F, s \o t) = FlatMap(F, s) \o FlatMap(F, t)
<1>1. Mapped(F, s) \in Seq(Seq(X)) /\ Mapped(F, t) \in Seq(Seq(X))
  BY MappedType
<1>2. Mapped(F, s \o t) = Mapped(F, s) \o Mapped(F, t)
  BY MappedConcat
<1> QED BY <1>1, <1>2, FlattenConcat DEF FlatMap

LEMMA FlatMapFlatten ==
  ASSUME NEW S, NEW X, NEW F, Maps(F, S, Seq(X)), NEW ss \in Seq(Seq(S))
  PROVE  FlatMap(F, FlattenSeq(ss))
           = FlattenSeq([i \in DOMAIN ss |-> FlatMap(F, ss[i])])
<1> DEFINE n == Len(ss)
           mm == [i \in DOMAIN ss |-> FlatMap(F, ss[i])]
<1>1. n \in Nat /\ DOMAIN ss = 1 .. n /\ \A k \in 1 .. n : ss[k] \in Seq(S)
  BY LenProperties, ElementOfSeq
<1>2. \A k \in 1 .. n : FlatMap(F, ss[k]) \in Seq(X)
  BY <1>1, FlatMapType
<1>3. PICK f \in [0 .. n -> Seq(S)] :
        /\ f[0] = <<>>
        /\ \A k \in 1 .. n : f[k] = f[k - 1] \o ss[k]
        /\ FlattenSeq(ss) = f[n]
  BY FlattenSteps
<1> HIDE DEF n
<1>4. mm \in Seq(Seq(X)) /\ Len(mm) = n /\ \A k \in 1 .. n : mm[k] = FlatMap(F, ss[k])
  <2>1. mm = [i \in 1 .. n |-> FlatMap(F, ss[i])]
    BY <1>1
  <2>2. mm \in Seq(Seq(X))
    BY <1>1, <1>2, <2>1, IsASeq
  <2>3. Len(mm) = n
    BY <1>1, <2>1, <2>2, LenProperties
  <2> QED BY <2>1, <2>2, <2>3
<1> HIDE DEF mm
<1>5. PICK g \in [0 .. n -> Seq(X)] :
        /\ g[0] = <<>>
        /\ \A k \in 1 .. n : g[k] = g[k - 1] \o mm[k]
        /\ FlattenSeq(mm) = g[n]
  <2>1. \E g \in [0 .. Len(mm) -> Seq(X)] :
          /\ g[0] = <<>>
          /\ \A k \in 1 .. Len(mm) : g[k] = g[k - 1] \o mm[k]
          /\ FlattenSeq(mm) = g[Len(mm)]
    BY <1>4, FlattenSteps
  <2> QED BY <1>4, <2>1
<1> DEFINE T == {k \in Nat : k <= n => FlatMap(F, f[k]) = g[k]}
<1>6. 0 \in T
  BY <1>3, <1>5, FlatMapEmpty
<1>7. ASSUME NEW k \in Nat, k \in T PROVE k + 1 \in T
  <2>1. SUFFICES ASSUME k + 1 <= n PROVE FlatMap(F, f[k + 1]) = g[k + 1]
    OBVIOUS
  <2>2. k + 1 \in 1 .. n /\ k <= n /\ k \in 0 .. n /\ (k + 1) - 1 = k
    BY <1>1, <2>1
  <2>3. FlatMap(F, f[k]) = g[k]
    BY <1>7, <2>2
  <2> HIDE DEF T
  <2>4. f[k + 1] = f[k] \o ss[k + 1] /\ f[k] \in Seq(S) /\ ss[k + 1] \in Seq(S)
    BY <1>1, <1>3, <2>2
  <2>5. FlatMap(F, f[k + 1]) = FlatMap(F, f[k]) \o FlatMap(F, ss[k + 1])
    <3> DEFINE u == f[k]
               v == ss[k + 1]
    <3>1. u \in Seq(S) /\ v \in Seq(S)
      BY <2>4
    <3> HIDE DEF u, v
    <3>2. FlatMap(F, u \o v) = FlatMap(F, u) \o FlatMap(F, v)
      BY <3>1, FlatMapConcat
    <3> QED BY <2>4, <3>2 DEF u, v
  <2>6. g[k + 1] = g[k] \o mm[k + 1] /\ mm[k + 1] = FlatMap(F, ss[k + 1])
    BY <1>4, <1>5, <2>2
  <2> QED BY <2>3, <2>5, <2>6
<1>8. n \in T
  <2> HIDE DEF T
  <2> QED BY <1>1, <1>6, <1>7, NatInductionSet
<1>9. n <= n
  BY <1>1
<1> QED BY <1>3, <1>5, <1>8, <1>9 DEF mm

-----------------------------------------------------------------------------
\* Segments and what is read off them.
Kinds == {"role", "reasoning", "content", "tool", "finish", "usage",
          "unknown", "error", "done"}

SegmentFields == Roles \cup Fields \cup {None}

SegmentType ==
  {s \in [kind : Kinds, choice : ChoiceIndices \cup {None}, field : SegmentFields,
          text : Seq(1 .. MaxChunks), extra : BOOLEAN, order : Seq(ToolIndices),
          calls : UNION {[I -> Call] : I \in SUBSET ToolIndices},
          data : Seq(ChoiceChunk)] :
     /\ DOMAIN s.calls = ToSet(s.order)
     /\ s.order # <<>> => s.choice \in ChoiceIndices}

LEMMA SegmentFacts ==
  ASSUME NEW s \in SegmentType
  PROVE  /\ s.kind \in Kinds /\ s.choice \in ChoiceIndices \cup {None}
         /\ s.field \in SegmentFields /\ s.text \in Seq(1 .. MaxChunks)
         /\ s.extra \in BOOLEAN /\ s.order \in Seq(ToolIndices)
         /\ s.data \in Seq(ChoiceChunk)
         /\ DOMAIN s.calls = ToSet(s.order) /\ s.calls \in [ToSet(s.order) -> Call]
         /\ ToSet(s.order) \subseteq ToolIndices
         /\ s.order # <<>> => s.choice \in ChoiceIndices
         /\ \A i \in DOMAIN s.calls : i \in ToolIndices /\ s.calls[i] \in Call
<1>1. /\ s.kind \in Kinds /\ s.choice \in ChoiceIndices \cup {None}
      /\ s.field \in SegmentFields /\ s.text \in Seq(1 .. MaxChunks)
      /\ s.extra \in BOOLEAN /\ s.order \in Seq(ToolIndices)
      /\ s.data \in Seq(ChoiceChunk)
      /\ s.calls \in UNION {[I -> Call] : I \in SUBSET ToolIndices}
      /\ DOMAIN s.calls = ToSet(s.order)
      /\ s.order # <<>> => s.choice \in ChoiceIndices
  BY DEF SegmentType
<1>2. PICK I \in SUBSET ToolIndices : s.calls \in [I -> Call]
  BY <1>1
<1>3. I = ToSet(s.order)
  BY <1>1, <1>2
<1> QED BY <1>1, <1>2, <1>3

\* A record of these fields is one.
LEMMA SegmentMade ==
  ASSUME NEW m,
         m = [kind |-> m.kind, choice |-> m.choice, field |-> m.field,
              text |-> m.text, order |-> m.order, calls |-> m.calls,
              data |-> m.data, extra |-> m.extra],
         m.kind \in Kinds, m.choice \in ChoiceIndices \cup {None},
         m.field \in SegmentFields, m.text \in Seq(1 .. MaxChunks),
         m.extra \in BOOLEAN, m.order \in Seq(ToolIndices),
         m.data \in Seq(ChoiceChunk),
         m.calls \in [ToSet(m.order) -> Call],
         m.order # <<>> => m.choice \in ChoiceIndices
  PROVE  m \in SegmentType
<1>1. ToSet(m.order) \in SUBSET ToolIndices
  BY LenProperties, ElementOfSeq DEF ToSet
<1>2. m.calls \in UNION {[I -> Call] : I \in SUBSET ToolIndices}
  BY <1>1
<1>3. DOMAIN m.calls = ToSet(m.order)
  OBVIOUS
<1> QED BY <1>2, <1>3 DEF SegmentType

PieceType == [of : Kinds \X (ChoiceIndices \cup {None}) \X SegmentFields,
              n : 1 .. MaxChunks]

PiecesF == [s \in SegmentType |-> SegmentPieces(s)]

RoleF(c) == [s \in SegmentType |-> Role(s, c)]

ToldF(c) == [s \in SegmentType |-> Told(s, c)]

ItemType == [choice : ChoiceIndices, index : ToolIndices,
             id : ToolIds \cup {None}, arguments : Seq(Fragments)]

ItemsF == [s \in SegmentType |-> ItemsOf(s)]

ArgumentsF(c, i) ==
  [t \in ItemType |-> If(t.choice = c /\ t.index = i, t.arguments)]

LEMMA PiecesMaps == Maps(PiecesF, SegmentType, Seq(PieceType))
<1>1. ASSUME NEW s \in SegmentType PROVE SegmentPieces(s) \in Seq(PieceType)
  <2>1. CASE s.kind \in {"role", "unknown", "error", "done"}
    BY <2>1, EmptySeq DEF SegmentPieces
  <2>2. CASE s.kind \notin {"role", "unknown", "error", "done"}
    <3> DEFINE n == Len(s.text)
    <3>1. /\ n \in Nat /\ DOMAIN s.text = 1 .. n
          /\ \A i \in 1 .. n : s.text[i] \in 1 .. MaxChunks
      BY SegmentFacts, LenProperties, ElementOfSeq
    <3> HIDE DEF n
    <3>2. \A i \in 1 .. n : Piece(s.kind, s.choice, s.field, s.text[i]) \in PieceType
      BY <3>1, SegmentFacts DEF Piece, PieceType
    <3>3. SegmentPieces(s)
            = [i \in 1 .. n |-> Piece(s.kind, s.choice, s.field, s.text[i])]
      BY <2>2, <3>1 DEF SegmentPieces
    <3> QED BY <3>1, <3>2, <3>3, IsASeq
  <2> QED BY <2>1, <2>2
<1> QED BY <1>1 DEF PiecesF, Maps

LEMMA RolesInTyped ==
  ASSUME NEW choices \in Seq(ChoiceChunk), NEW c
  PROVE  /\ RolesIn(choices, c) \in Seq(SegmentFields)
         /\ (\A i \in DOMAIN choices : ~(choices[i].choice = c /\ choices[i].role # None)) =>
              RolesIn(choices, c) = <<>>
         /\ \A j \in DOMAIN choices :
              /\ choices[j].choice = c /\ choices[j].role # None
              /\ \A i \in DOMAIN choices : i # j => choices[i].choice # c
              => RolesIn(choices, c) = <<choices[j].role>>
<1> DEFINE N == Len(choices)
           ss == [i \in DOMAIN choices |->
                    If(choices[i].choice = c /\ choices[i].role # None,
                       <<choices[i].role>>)]
<1>1. /\ N \in Nat /\ DOMAIN choices = 1 .. N
      /\ \A i \in 1 .. N : choices[i] \in ChoiceChunk
  BY LenProperties, ElementOfSeq
<1>2. RolesIn(choices, c) = FlattenSeq(ss)
  BY DEF RolesIn
<1> HIDE DEF N
<1>3. ss = [i \in 1 .. N |-> If(choices[i].choice = c /\ choices[i].role # None,
                               <<choices[i].role>>)]
  BY <1>1
<1>4. \A i \in 1 .. N :
        ss[i] = IF choices[i].choice = c /\ choices[i].role # None
                  THEN <<choices[i].role>> ELSE <<>>
  BY <1>1 DEF If
<1>5. ASSUME NEW i \in 1 .. N
      PROVE  If(choices[i].choice = c /\ choices[i].role # None,
                <<choices[i].role>>) \in Seq(SegmentFields)
  <2>1. choices[i].role \in SegmentFields
    BY <1>1 DEF ChoiceChunk, SegmentFields
  <2>2. <<choices[i].role>> \in Seq(SegmentFields)
    BY <2>1
  <2> QED BY <2>2, EmptySeq DEF If
<1> HIDE DEF ss
<1>6. ss \in Seq(Seq(SegmentFields))
  BY <1>1, <1>3, <1>5, IsASeq
<1>7. Len(ss) = N
  BY <1>1, <1>3, <1>6, LenProperties
<1>8. FlattenSeq(ss) \in Seq(SegmentFields)
  BY <1>6, FlattenType
<1>9. ASSUME \A i \in 1 .. N : ~(choices[i].choice = c /\ choices[i].role # None)
      PROVE  FlattenSeq(ss) = <<>>
  <2>1. \A i \in 1 .. Len(ss) : ss[i] = <<>>
    BY <1>4, <1>7, <1>9
  <2> QED BY <1>6, <2>1, FlattenNone
<1>10. ASSUME NEW j \in 1 .. N, choices[j].choice = c, choices[j].role # None,
              \A i \in 1 .. N : i # j => choices[i].choice # c
       PROVE  FlattenSeq(ss) = <<choices[j].role>>
  <2>1. \A i \in 1 .. Len(ss) : i # j => ss[i] = <<>>
    BY <1>4, <1>7, <1>10
  <2>2. FlattenSeq(ss) = ss[j]
    BY <1>6, <1>7, <2>1, FlattenSingle
  <2>3. ss[j] = <<choices[j].role>>
    BY <1>4, <1>10
  <2> QED BY <2>2, <2>3
<1> QED BY <1>1, <1>2, <1>8, <1>9, <1>10

LEMMA RoleMaps ==
  ASSUME NEW c
  PROVE  /\ Maps(RoleF(c), SegmentType, Seq(SegmentFields))
         /\ Maps(ToldF(c), SegmentType, Seq(SegmentFields))
<1>1. ASSUME NEW s \in SegmentType PROVE Role(s, c) \in Seq(SegmentFields)
  <2>1. s.field \in SegmentFields
    BY SegmentFacts
  <2>2. <<s.field>> \in Seq(SegmentFields)
    BY <2>1
  <2> QED BY <2>2, EmptySeq DEF Role, If
<1>2. ASSUME NEW s \in SegmentType PROVE Told(s, c) \in Seq(SegmentFields)
  <2>1. RolesIn(s.data, c) \in Seq(SegmentFields)
    BY SegmentFacts, RolesInTyped
  <2> QED BY <1>1, <2>1 DEF Told
<1> QED BY <1>1, <1>2 DEF RoleF, ToldF, Maps

\* What is read of a segment by its kind.
LEMMA RoleFacts ==
  ASSUME NEW c, NEW s \in SegmentType
  PROVE  /\ s.kind = "role" /\ s.choice = c =>
              RoleF(c)[s] = <<s.field>> /\ ToldF(c)[s] = <<s.field>>
         /\ s.kind = "role" /\ s.choice # c =>
              RoleF(c)[s] = <<>> /\ ToldF(c)[s] = <<>>
         /\ s.kind # "role" => RoleF(c)[s] = <<>>
         /\ s.kind \notin {"role", "unknown"} => ToldF(c)[s] = <<>>
         /\ s.kind = "unknown" => ToldF(c)[s] = RolesIn(s.data, c)
BY DEF RoleF, ToldF, Role, Told, If

LEMMA NoRoles ==
  ASSUME NEW c
  PROVE  RolesIn(<<>>, c) = <<>> /\ <<>> \in Seq(ChoiceChunk)
<1>1. [i \in DOMAIN <<>> |->
         If(<<>>[i].choice = c /\ <<>>[i].role # None, << <<>>[i].role >>)] = <<>>
  OBVIOUS
<1> QED BY <1>1, FlattenEmpty, EmptySeq DEF RolesIn

LEMMA ItemsFacts ==
  ASSUME NEW s \in SegmentType
  PROVE  /\ ItemsOf(s) \in Seq(ItemType) /\ Len(ItemsOf(s)) = Len(s.order)
         /\ DOMAIN ItemsOf(s) = 1 .. Len(s.order)
         /\ \A j \in 1 .. Len(s.order) :
              /\ ItemsOf(s)[j] = [choice |-> s.choice, index |-> s.order[j],
                                  id |-> s.calls[s.order[j]].id,
                                  arguments |-> s.calls[s.order[j]].arguments]
              /\ s.order[j] \in DOMAIN s.calls
<1> DEFINE n == Len(s.order)
           item(j) == [choice |-> s.choice, index |-> s.order[j],
                       id |-> s.calls[s.order[j]].id,
                       arguments |-> s.calls[s.order[j]].arguments]
<1>1. n \in Nat /\ DOMAIN s.order = 1 .. n /\ \A i \in 1 .. n : s.order[i] \in ToolIndices
  BY SegmentFacts, LenProperties, ElementOfSeq
<1>2. \A j \in 1 .. n : s.order[j] \in DOMAIN s.calls
  BY <1>1, SegmentFacts DEF ToSet
<1>3. ASSUME NEW j \in 1 .. n PROVE item(j) \in ItemType
  <2>1. s.calls[s.order[j]] \in Call
    BY <1>2, SegmentFacts
  <2>2. s.choice \in ChoiceIndices
    BY <1>1, SegmentFacts, EmptySeq
  <2> QED BY <1>1, <2>1, <2>2 DEF Call, ItemType
<1>4. ItemsOf(s) = [j \in 1 .. n |-> item(j)]
  BY <1>1 DEF ItemsOf
<1> HIDE DEF n, item
<1>5. ItemsOf(s) \in Seq(ItemType)
  BY <1>1, <1>3, <1>4, IsASeq
<1>6. Len(ItemsOf(s)) = n
  BY <1>1, <1>4, <1>5, LenProperties
<1> QED BY <1>2, <1>4, <1>5, <1>6 DEF n, item

LEMMA ItemsMaps == Maps(ItemsF, SegmentType, Seq(ItemType))
BY ItemsFacts DEF ItemsF, Maps

LEMMA ArgumentsMaps ==
  ASSUME NEW c, NEW i
  PROVE  Maps(ArgumentsF(c, i), ItemType, Seq(Fragments))
<1>1. ASSUME NEW t \in ItemType
      PROVE  If(t.choice = c /\ t.index = i, t.arguments) \in Seq(Fragments)
  BY EmptySeq DEF If, ItemType
<1> QED BY <1>1 DEF ArgumentsF, Maps

-----------------------------------------------------------------------------
\* Merging two neighbours (segments.go:117-150).

\* A call joins the one with its index, or the end.
CallAdded(m, s, i, call) ==
  /\ m \in SegmentType
  /\ m.kind = s.kind /\ m.choice = s.choice /\ m.field = s.field
  /\ m.text = s.text
  /\ m.order = IF i \in DOMAIN s.calls THEN s.order ELSE Append(s.order, i)
  /\ DOMAIN m.calls = DOMAIN s.calls \cup {i}
  /\ \A j \in DOMAIN s.calls : j # i => m.calls[j] = s.calls[j]
  /\ i \notin DOMAIN s.calls => m.calls[i] = call
  /\ i \in DOMAIN s.calls =>
       /\ m.calls[i].id = IF s.calls[i].id = None THEN call.id
                                                  ELSE s.calls[i].id
       /\ m.calls[i].arguments = s.calls[i].arguments \o call.arguments

LEMMA MergeCallFacts ==
  ASSUME NEW s \in SegmentType, s.choice \in ChoiceIndices,
         NEW i \in ToolIndices, NEW call \in Call
  PROVE  CallAdded(MergeCall(s, i, call), s, i, call)
<1> DEFINE m == MergeCall(s, i, call)
           D == DOMAIN s.calls
           joined == [id |-> IF s.calls[i].id = None THEN call.id
                                                      ELSE s.calls[i].id,
                      arguments |-> s.calls[i].arguments \o call.arguments]
           order == IF i \in D THEN s.order ELSE Append(s.order, i)
           new == IF i \in D THEN joined ELSE call
           calls == With(s.calls, i, new)
<1>1. /\ s.kind \in Kinds /\ s.choice \in ChoiceIndices \cup {None}
      /\ s.field \in SegmentFields /\ s.text \in Seq(1 .. MaxChunks)
      /\ s.extra \in BOOLEAN /\ s.order \in Seq(ToolIndices)
      /\ s.data \in Seq(ChoiceChunk)
      /\ D = ToSet(s.order) /\ s.calls \in [D -> Call]
  BY SegmentFacts
<1>2. s = [kind |-> s.kind, choice |-> s.choice, field |-> s.field,
           text |-> s.text, order |-> s.order, calls |-> s.calls,
           data |-> s.data, extra |-> s.extra]
  BY DEF SegmentType
<1>3. new \in Call
  <2>1. CASE i \in D
    <3>1. s.calls[i] \in Call
      BY <1>1, <2>1
    <3>2. s.calls[i].arguments \o call.arguments \in Seq(Fragments)
      BY <3>1, ConcatProperties DEF Call
    <3> QED BY <2>1, <3>1, <3>2 DEF Call
  <2> QED BY <2>1
<1>4. order \in Seq(ToolIndices) /\ ToSet(order) = D \cup {i}
  <2>1. CASE i \in D
    BY <1>1, <2>1
  <2>2. CASE i \notin D
    <3> DEFINE n == Len(s.order)
               longer == Append(s.order, i)
    <3>1. n \in Nat /\ DOMAIN s.order = 1 .. n
      BY <1>1, LenProperties
    <3>2. /\ longer \in Seq(ToolIndices) /\ Len(longer) = n + 1
          /\ (\A j \in 1 .. n : longer[j] = s.order[j]) /\ longer[n + 1] = i
      BY <1>1, AppendProperties
    <3>3. order = longer
      BY <2>2
    <3> HIDE DEF order, longer, n
    <3>4. DOMAIN longer = 1 .. n + 1
      BY <3>1, <3>2, LenProperties
    <3>5. \A j \in 1 .. n + 1 : j \in 1 .. n \/ j = n + 1
      BY <3>1
    <3>6. 1 .. n \subseteq 1 .. n + 1 /\ n + 1 \in 1 .. n + 1
      BY <3>1
    <3>7. ToSet(longer) = ToSet(s.order) \cup {i}
      BY <3>1, <3>2, <3>4, <3>5, <3>6 DEF ToSet
    <3> QED BY <1>1, <3>2, <3>3, <3>7
  <2> QED BY <2>1, <2>2
<1>5. /\ calls \in [D \cup {i} -> Call] /\ calls[i] = new
      /\ \A j \in D : j # i => calls[j] = s.calls[j]
  BY <1>1, <1>3 DEF With
<1>6. calls \in [ToSet(order) -> Call]
  BY <1>4, <1>5
<1>7. m = [kind |-> s.kind, choice |-> s.choice, field |-> s.field,
           text |-> s.text, order |-> order, calls |-> calls,
           data |-> s.data, extra |-> s.extra]
  <2>1. m = [s EXCEPT !.order = order, !.calls = calls]
    <3>1. CASE i \in D
      <4>1. m = [s EXCEPT !.calls = calls]
        BY <3>1 DEF MergeCall
      <4>2. order = s.order
        BY <3>1
      <4> HIDE DEF calls, order
      <4> QED BY <1>2, <4>1, <4>2
    <3>2. CASE i \notin D
      BY <3>2 DEF MergeCall
    <3> QED BY <3>1, <3>2
  <2> HIDE DEF order, calls
  <2> QED BY <1>2, <2>1
<1>8. /\ i \notin D => new = call
      /\ i \in D =>
           /\ new.id = IF s.calls[i].id = None THEN call.id ELSE s.calls[i].id
           /\ new.arguments = s.calls[i].arguments \o call.arguments
  OBVIOUS
<1>9. order = IF i \in D THEN s.order ELSE Append(s.order, i)
  OBVIOUS
<1> HIDE DEF order, calls, new, joined, m
<1>10. /\ m.kind = s.kind /\ m.choice = s.choice /\ m.field = s.field
       /\ m.text = s.text /\ m.order = order /\ m.calls = calls
       /\ m.extra = s.extra /\ m.data = s.data
  BY <1>7
<1>11. m \in SegmentType
  <2>1. m = [kind |-> m.kind, choice |-> m.choice, field |-> m.field,
             text |-> m.text, order |-> m.order, calls |-> m.calls,
             data |-> m.data, extra |-> m.extra]
    BY <1>7
  <2> QED BY <1>1, <1>4, <1>6, <1>10, <2>1, SegmentMade
<1>12. DOMAIN m.calls = D \cup {i}
  BY <1>5, <1>10
<1>13. CallAdded(m, s, i, call)
  BY <1>5, <1>8, <1>9, <1>10, <1>11, <1>12 DEF CallAdded
<1> QED BY <1>13 DEF m

\* The merged segment before its calls join.
Joined(s, t) == [s EXCEPT !.text = @ \o t.text]

LEMMA JoinedFacts ==
  ASSUME NEW s \in SegmentType, NEW t \in SegmentType
  PROVE  /\ Joined(s, t) \in SegmentType
         /\ Joined(s, t).kind = s.kind /\ Joined(s, t).choice = s.choice
         /\ Joined(s, t).field = s.field /\ Joined(s, t).text = s.text \o t.text
         /\ Joined(s, t).order = s.order /\ Joined(s, t).calls = s.calls
<1> DEFINE m == Joined(s, t)
<1>1. s = [kind |-> s.kind, choice |-> s.choice, field |-> s.field,
           text |-> s.text, order |-> s.order, calls |-> s.calls,
           data |-> s.data, extra |-> s.extra]
  BY DEF SegmentType
<1> DEFINE text == s.text \o t.text
<1>2. text \in Seq(1 .. MaxChunks)
  BY SegmentFacts, ConcatProperties
<1>3. m = [s EXCEPT !.text = text]
  BY DEF Joined
<1> HIDE DEF text, m
<1>4. m = [kind |-> s.kind, choice |-> s.choice, field |-> s.field,
           text |-> text, order |-> s.order, calls |-> s.calls,
           data |-> s.data, extra |-> s.extra]
  BY <1>1, <1>3
<1>5. /\ m.kind = s.kind /\ m.choice = s.choice /\ m.field = s.field
      /\ m.text = text /\ m.order = s.order /\ m.calls = s.calls
      /\ m.extra = s.extra /\ m.data = s.data
  BY <1>4
<1>6. m = [kind |-> m.kind, choice |-> m.choice, field |-> m.field,
           text |-> m.text, order |-> m.order, calls |-> m.calls,
           data |-> m.data, extra |-> m.extra]
  BY <1>4
<1>7. m \in SegmentType
  BY <1>2, <1>5, <1>6, SegmentFacts, SegmentMade
<1> QED BY <1>5, <1>7 DEF text, m

\* The segments on the way to the merged one.
MergeSteps(f, s, t) ==
  /\ f \in [0 .. Len(t.order) -> SegmentType]
  /\ f[0] = Joined(s, t)
  /\ \A k \in 1 .. Len(t.order) :
       /\ f[k] = MergeCall(f[k - 1], t.order[k], t.calls[t.order[k]])
       /\ f[k - 1].choice \in ChoiceIndices
       /\ t.order[k] \in ToolIndices /\ t.order[k] \in DOMAIN t.calls
       /\ t.calls[t.order[k]] \in Call
  /\ Merge(s, t) = f[Len(t.order)]

LEMMA MergeInSteps ==
  ASSUME NEW s \in SegmentType, NEW t \in SegmentType, s.choice = t.choice
  PROVE  \E f : MergeSteps(f, s, t)
<1> DEFINE n == Len(t.order)
           S == {u \in SegmentType : u.choice = s.choice}
           index(k) == t.order[k]
           call(k) == t.calls[t.order[k]]
           base == Joined(s, t)
           step == [x \in (1 .. n) \X S |-> MergeCall(x[2], index(x[1]), call(x[1]))]
<1>1. n \in Nat /\ DOMAIN t.order = 1 .. n
  BY SegmentFacts, LenProperties
<1>2. ASSUME NEW k \in 1 .. n
      PROVE  /\ index(k) \in ToolIndices /\ index(k) \in DOMAIN t.calls
             /\ call(k) \in Call
  <2>1. t.order[k] \in ToSet(t.order)
    BY <1>1 DEF ToSet
  <2> QED BY <2>1, SegmentFacts
<1>3. n # 0 => s.choice \in ChoiceIndices
  <2>1. n # 0 => t.order # <<>>
    BY EmptySeq
  <2> QED BY <2>1, SegmentFacts
<1>4. base \in S
  BY JoinedFacts
<1> HIDE DEF n, index, call, base
<1>5. ASSUME NEW k \in 1 .. n, NEW u \in S
      PROVE  MergeCall(u, index(k), call(k)) \in S
  <2>1. u \in SegmentType /\ u.choice = s.choice /\ u.choice \in ChoiceIndices
    BY <1>1, <1>3
  <2> HIDE DEF S
  <2> DEFINE m == MergeCall(u, index(k), call(k))
  <2>2. CallAdded(m, u, index(k), call(k))
    BY <1>2, <2>1, MergeCallFacts
  <2>3. m \in SegmentType /\ m.choice = u.choice
    BY <2>2 DEF CallAdded
  <2> QED BY <2>1, <2>3 DEF S
<1>6. step \in [(1 .. n) \X S -> S]
  BY <1>5
<1>7. PICK f : Recursive(f, n, S, base, step)
  <2> HIDE DEF step, S
  <2> QED BY <1>1, <1>4, <1>6, Recursion
<1>8. f \in [0 .. n -> S] /\ f[0] = base
  BY <1>7 DEF Recursive
<1>9. ASSUME NEW k \in 1 .. n
      PROVE  f[k - 1] \in S /\ f[k] = MergeCall(f[k - 1], index(k), call(k))
  <2>1. k - 1 \in 0 .. n
    BY <1>1
  <2>2. <<k, f[k - 1]>> \in (1 .. n) \X S
    BY <1>8, <2>1
  <2>3. f[k] = step[<<k, f[k - 1]>>]
    BY <1>7 DEF Recursive
  <2> HIDE DEF S
  <2> QED BY <2>2, <2>3
<1>10. Merge(s, t) = f[n]
  <2> DEFINE Value(g, k) == IF k = 0 THEN base
                                     ELSE MergeCall(g[k - 1], index(k), call(k))
             Equation(g) == g = [k \in 0 .. n |-> Value(g, k)]
             merged == CHOOSE g : Equation(g)
  <2>1. Merge(s, t) = merged[n]
    BY DEF Merge, n, base, index, call, Joined
  <2>2. Equation(f)
    <3>1. ASSUME NEW k \in 0 .. n PROVE f[k] = Value(f, k)
      <4>1. CASE k = 0
        BY <1>8, <4>1
      <4>2. CASE k # 0
        <5>1. k \in 1 .. n
          BY <1>1, <4>2
        <5> QED BY <1>9, <4>2, <5>1
      <4> QED BY <4>1, <4>2
    <3>2. f = [k \in 0 .. n |-> f[k]]
      BY <1>8
    <3> HIDE DEF Value, S
    <3> QED BY <3>1, <3>2
  <2>3. Equation(merged)
    <3> HIDE DEF Equation
    <3>1. \E g : Equation(g)
      BY <2>2
    <3> QED BY <3>1
  <2>4. merged = [k \in 0 .. n |-> Value(merged, k)]
    <3> HIDE DEF merged
    <3> QED BY <2>3
  <2> HIDE DEF merged, Equation
  <2> DEFINE T == {k \in Nat : k <= n => merged[k] = f[k]}
  <2>5. 0 \in T
    <3>1. merged[0] = base
      BY <1>1, <2>4
    <3> QED BY <1>8, <3>1
  <2>6. ASSUME NEW k \in Nat, k \in T PROVE k + 1 \in T
    <3>1. SUFFICES ASSUME k + 1 <= n PROVE merged[k + 1] = f[k + 1]
      OBVIOUS
    <3>2. /\ k + 1 \in 1 .. n /\ k + 1 \in 0 .. n /\ k <= n /\ (k + 1) - 1 = k
          /\ k + 1 # 0
      BY <1>1, <3>1
    <3>3. merged[k] = f[k]
      BY <2>6, <3>2
    <3> HIDE DEF T
    <3>4. merged[k + 1] = MergeCall(merged[k], index(k + 1), call(k + 1))
      BY <2>4, <3>2
    <3> QED BY <1>9, <3>2, <3>3, <3>4
  <2>7. n \in T
    <3> HIDE DEF T
    <3> QED BY <1>1, <2>5, <2>6, NatInductionSet
  <2>8. n <= n
    BY <1>1
  <2> QED BY <2>1, <2>7, <2>8
<1>11. f \in [0 .. n -> SegmentType]
  BY <1>8
<1>12. ASSUME NEW k \in 1 .. n PROVE f[k - 1].choice \in ChoiceIndices
  <2>1. n # 0
    BY <1>1
  <2>2. f[k - 1].choice = s.choice
    BY <1>9
  <2> QED BY <1>3, <2>1, <2>2
<1> HIDE DEF S, step
<1>13. ASSUME NEW k \in 1 .. n
       PROVE  /\ f[k] = MergeCall(f[k - 1], t.order[k], t.calls[t.order[k]])
              /\ t.order[k] \in ToolIndices /\ t.order[k] \in DOMAIN t.calls
              /\ t.calls[t.order[k]] \in Call
  BY <1>2, <1>9 DEF index, call
<1>14. f[0] = Joined(s, t)
  BY <1>8 DEF base
<1> QED BY <1>10, <1>11, <1>12, <1>13, <1>14 DEF MergeSteps, n

\* The kind, choice and field stay; the texts follow each other.
LEMMA MergeFacts ==
  ASSUME NEW s \in SegmentType, NEW t \in SegmentType, s.choice = t.choice
  PROVE  /\ Merge(s, t) \in SegmentType
         /\ Merge(s, t).kind = s.kind /\ Merge(s, t).choice = s.choice
         /\ Merge(s, t).field = s.field /\ Merge(s, t).text = s.text \o t.text
<1> DEFINE n == Len(t.order)
           Kept(u) == /\ u.kind = s.kind /\ u.choice = s.choice
                      /\ u.field = s.field /\ u.text = s.text \o t.text
<1>1. PICK f : MergeSteps(f, s, t)
  BY MergeInSteps
<1>2. n \in Nat
  BY SegmentFacts, LenProperties
<1> DEFINE T == {k \in Nat : k <= n => Kept(f[k])}
<1>3. 0 \in T
  <2>1. f[0] = Joined(s, t)
    BY <1>1 DEF MergeSteps
  <2>2. Kept(Joined(s, t))
    BY JoinedFacts
  <2> HIDE DEF Kept
  <2> QED BY <2>1, <2>2
<1> HIDE DEF n, Kept
<1>4. ASSUME NEW k \in Nat, k \in T PROVE k + 1 \in T
  <2>1. SUFFICES ASSUME k + 1 <= n PROVE Kept(f[k + 1])
    OBVIOUS
  <2>2. k + 1 \in 1 .. n /\ k <= n /\ k \in 0 .. n /\ (k + 1) - 1 = k
    BY <1>2, <2>1
  <2>3. Kept(f[k])
    BY <1>4, <2>2
  <2> DEFINE u == f[k]
             v == f[k + 1]
             i == t.order[k + 1]
             call == t.calls[t.order[k + 1]]
  <2>4. /\ v = MergeCall(u, i, call) /\ u.choice \in ChoiceIndices
        /\ i \in ToolIndices /\ call \in Call /\ u \in SegmentType
    BY <1>1, <2>2 DEF MergeSteps, n
  <2> HIDE DEF T, i, call, u, v
  <2>5. CallAdded(v, u, i, call)
    BY <2>4, MergeCallFacts
  <2>6. /\ v.kind = u.kind /\ v.choice = u.choice
        /\ v.field = u.field /\ v.text = u.text
    BY <2>5 DEF CallAdded
  <2> QED BY <2>3, <2>6 DEF u, v, Kept
<1>5. Kept(f[n])
  <2> HIDE DEF T
  <2>1. n \in T
    BY <1>2, <1>3, <1>4, NatInductionSet
  <2>2. n <= n
    BY <1>2
  <2> QED BY <2>1, <2>2 DEF T
<1>6. f[n] \in SegmentType /\ Merge(s, t) = f[n]
  BY <1>1, <1>2 DEF MergeSteps, n
<1> QED BY <1>5, <1>6 DEF Kept

\* The calls with the indices I of t have been merged into those of s.
CallsMerged(m, s, t, I) ==
  /\ DOMAIN m.calls = DOMAIN s.calls \cup I
  /\ \A i \in DOMAIN s.calls \ I : m.calls[i] = s.calls[i]
  /\ \A i \in I \ DOMAIN s.calls : m.calls[i] = t.calls[i]
  /\ \A i \in I \cap DOMAIN s.calls :
       /\ m.calls[i].id = IF s.calls[i].id = None THEN t.calls[i].id
                                                  ELSE s.calls[i].id
       /\ m.calls[i].arguments = s.calls[i].arguments \o t.calls[i].arguments

LEMMA CallsMergedStep ==
  ASSUME NEW s, NEW t, NEW u, NEW v, NEW I, NEW i,
         i \notin I, CallsMerged(u, s, t, I), CallAdded(v, u, i, t.calls[i])
  PROVE  CallsMerged(v, s, t, I \cup {i})
<1>1. /\ DOMAIN u.calls = DOMAIN s.calls \cup I
      /\ \A j \in DOMAIN s.calls \ I : u.calls[j] = s.calls[j]
      /\ \A j \in I \ DOMAIN s.calls : u.calls[j] = t.calls[j]
      /\ \A j \in I \cap DOMAIN s.calls :
           /\ u.calls[j].id = IF s.calls[j].id = None THEN t.calls[j].id
                                                      ELSE s.calls[j].id
           /\ u.calls[j].arguments = s.calls[j].arguments \o t.calls[j].arguments
  BY DEF CallsMerged
<1>2. /\ DOMAIN v.calls = DOMAIN u.calls \cup {i}
      /\ \A j \in DOMAIN u.calls : j # i => v.calls[j] = u.calls[j]
      /\ i \notin DOMAIN u.calls => v.calls[i] = t.calls[i]
      /\ i \in DOMAIN u.calls =>
           /\ v.calls[i].id = IF u.calls[i].id = None THEN t.calls[i].id
                                                      ELSE u.calls[i].id
           /\ v.calls[i].arguments = u.calls[i].arguments \o t.calls[i].arguments
  BY DEF CallAdded
<1>3. DOMAIN v.calls = DOMAIN s.calls \cup (I \cup {i})
  BY <1>1, <1>2
<1>4. ASSUME NEW j \in DOMAIN s.calls \ (I \cup {i}) PROVE v.calls[j] = s.calls[j]
  BY <1>1, <1>2
<1>5. ASSUME NEW j \in (I \cup {i}) \ DOMAIN s.calls PROVE v.calls[j] = t.calls[j]
  BY <1>1, <1>2
<1>6. ASSUME NEW j \in (I \cup {i}) \cap DOMAIN s.calls
      PROVE  /\ v.calls[j].id = IF s.calls[j].id = None THEN t.calls[j].id
                                                        ELSE s.calls[j].id
             /\ v.calls[j].arguments = s.calls[j].arguments \o t.calls[j].arguments
  <2>1. CASE j = i
    <3>1. u.calls[i] = s.calls[i] /\ i \in DOMAIN u.calls
      BY <1>1, <2>1
    <3> QED BY <1>2, <2>1, <3>1
  <2>2. CASE j # i
    <3>1. v.calls[j] = u.calls[j] /\ j \in I \cap DOMAIN s.calls
      BY <1>1, <1>2, <2>2
    <3> QED BY <1>1, <3>1
  <2> QED BY <2>1, <2>2
<1> QED BY <1>3, <1>4, <1>5, <1>6 DEF CallsMerged

\* An index at the end of an order that does not have it.
LEMMA OrderGrows ==
  ASSUME NEW order \in Seq(ToolIndices), IsInjective(order),
         NEW i \in ToolIndices, i \notin ToSet(order)
  PROVE  IsInjective(Append(order, i))
<1> DEFINE n == Len(order)
           longer == Append(order, i)
<1>1. n \in Nat /\ DOMAIN order = 1 .. n
  BY LenProperties
<1>2. /\ longer \in Seq(ToolIndices) /\ Len(longer) = n + 1
      /\ (\A j \in 1 .. n : longer[j] = order[j]) /\ longer[n + 1] = i
  BY AppendProperties
<1> HIDE DEF n, longer
<1>3. DOMAIN longer = 1 .. n + 1
  BY <1>1, <1>2, LenProperties
<1>4. \A j \in 1 .. n : order[j] # i
  BY <1>1 DEF ToSet
<1>5. \A j \in 1 .. n + 1 : j \in 1 .. n \/ j = n + 1
  BY <1>1
<1>6. \A j, k \in 1 .. n : order[j] = order[k] => j = k
  BY <1>1 DEF IsInjective
<1>7. ASSUME NEW j \in 1 .. n + 1, NEW k \in 1 .. n + 1, longer[j] = longer[k]
      PROVE  j = k
  BY <1>2, <1>4, <1>5, <1>6, <1>7
<1> QED BY <1>3, <1>7 DEF IsInjective, longer

\* Where each index is named once, merging joins the calls one by one.
LEMMA MergedCalls ==
  ASSUME NEW s \in SegmentType, NEW t \in SegmentType, s.choice = t.choice,
         IsInjective(s.order), IsInjective(t.order)
  PROVE  /\ CallsMerged(Merge(s, t), s, t, DOMAIN t.calls)
         /\ IsInjective(Merge(s, t).order)
<1> DEFINE n == Len(t.order)
           Seen(k) == {t.order[j] : j \in 1 .. k}
<1>1. PICK f : MergeSteps(f, s, t)
  BY MergeInSteps
<1>2. n \in Nat /\ DOMAIN t.order = 1 .. n
  BY SegmentFacts, LenProperties
<1> DEFINE Good(k) == CallsMerged(f[k], s, t, Seen(k)) /\ IsInjective(f[k].order)
           T == {k \in Nat : k <= n => Good(k)}
<1>3. 0 \in T
  <2>1. f[0] = Joined(s, t)
    BY <1>1 DEF MergeSteps
  <2>2. Joined(s, t).calls = s.calls /\ Joined(s, t).order = s.order
    BY JoinedFacts
  <2>3. Seen(0) = {}
    OBVIOUS
  <2> HIDE DEF Seen
  <2>5. f[0].calls = s.calls /\ f[0].order = s.order
    BY <2>1, <2>2
  <2>4. CallsMerged(f[0], s, t, {})
    BY <2>5 DEF CallsMerged
  <2> QED BY <2>3, <2>4, <2>5
<1>4. ASSUME NEW k \in Nat, k + 1 \in 1 .. n
      PROVE  Seen(k + 1) = Seen(k) \cup {t.order[k + 1]} /\ t.order[k + 1] \notin Seen(k)
  <2>1. \A j \in 1 .. k + 1 : j \in 1 .. k \/ j = k + 1
    OBVIOUS
  <2>2. \A j \in 1 .. k : j \in 1 .. k + 1 /\ j \in 1 .. n /\ j # k + 1
    BY <1>2, <1>4
  <2>3. k + 1 \in 1 .. k + 1
    OBVIOUS
  <2>4. \A j \in 1 .. k : t.order[j] # t.order[k + 1]
    BY <1>2, <1>4, <2>2 DEF IsInjective
  <2> QED BY <2>1, <2>2, <2>3, <2>4
<1> HIDE DEF n, Seen
<1>5. ASSUME NEW k \in Nat, k \in T PROVE k + 1 \in T
  <2> HIDE DEF Good
  <2>1. SUFFICES ASSUME k + 1 <= n PROVE Good(k + 1)
    OBVIOUS
  <2>2. k + 1 \in 1 .. n /\ k <= n /\ k \in 0 .. n /\ (k + 1) - 1 = k
    BY <1>2, <2>1
  <2>3. Good(k)
    BY <1>5, <2>2
  <2> DEFINE u == f[k]
             v == f[k + 1]
             i == t.order[k + 1]
             I == Seen(k)
  <2>4. /\ v = MergeCall(u, i, t.calls[i]) /\ u.choice \in ChoiceIndices
        /\ i \in ToolIndices /\ t.calls[i] \in Call /\ u \in SegmentType
    BY <1>1, <2>2 DEF MergeSteps, n
  <2>5. CallsMerged(u, s, t, I) /\ IsInjective(u.order)
    BY <2>3 DEF Good
  <2>6. i \notin I /\ Seen(k + 1) = I \cup {i}
    BY <1>4, <2>2
  <2> HIDE DEF T, i, u, v, I
  <2>7. CallAdded(v, u, i, t.calls[i])
    BY <2>4, MergeCallFacts
  <2>8. CallsMerged(v, s, t, I \cup {i})
    BY <2>5, <2>6, <2>7, CallsMergedStep
  <2>9. IsInjective(v.order)
    <3>1. /\ v.order = IF i \in DOMAIN u.calls THEN u.order ELSE Append(u.order, i)
      BY <2>7 DEF CallAdded
    <3>2. u.order \in Seq(ToolIndices) /\ DOMAIN u.calls = ToSet(u.order)
      BY <2>4, SegmentFacts
    <3>3. CASE i \in DOMAIN u.calls
      BY <2>5, <3>1, <3>3
    <3>4. CASE i \notin DOMAIN u.calls
      <4>1. IsInjective(Append(u.order, i))
        BY <2>4, <2>5, <3>2, <3>4, OrderGrows
      <4> QED BY <3>1, <3>4, <4>1
    <3> QED BY <3>3, <3>4
  <2> QED BY <2>6, <2>8, <2>9 DEF Good, v
<1>6. Good(n)
  <2> HIDE DEF T, Good
  <2>1. n \in T
    BY <1>2, <1>3, <1>5, NatInductionSet
  <2>2. n <= n
    BY <1>2
  <2> QED BY <2>1, <2>2 DEF T
<1>7. Seen(n) = DOMAIN t.calls
  <2>1. DOMAIN t.calls = ToSet(t.order)
    BY SegmentFacts
  <2> QED BY <1>2, <2>1 DEF ToSet, Seen
<1>8. Merge(s, t) = f[n]
  BY <1>1 DEF MergeSteps, n
<1> QED BY <1>6, <1>7, <1>8

-----------------------------------------------------------------------------
\* What a merged segment says: what its two parts said, one after the other.
LEMMA MergedPieces ==
  ASSUME NEW s \in SegmentType, NEW t \in SegmentType, CanMerge(s, t)
  PROVE  SegmentPieces(Merge(s, t)) = SegmentPieces(s) \o SegmentPieces(t)
<1> DEFINE m == Merge(s, t)
           F == [n \in 1 .. MaxChunks |-> Piece(s.kind, s.choice, s.field, n)]
<1>1. s.kind = t.kind /\ s.choice = t.choice /\ s.field = t.field
  BY DEF CanMerge
<1>2. /\ m.kind = s.kind /\ m.choice = s.choice /\ m.field = s.field
      /\ m.text = s.text \o t.text
  BY <1>1, MergeFacts
<1> HIDE DEF m
<1>3. CASE s.kind \in {"role", "unknown", "error", "done"}
  <2>1. /\ SegmentPieces(m) = <<>> /\ SegmentPieces(s) = <<>>
        /\ SegmentPieces(t) = <<>>
    BY <1>1, <1>2, <1>3 DEF SegmentPieces
  <2>2. <<>> \o <<>> = <<>>
    BY EmptySeq, ConcatEmptySeq
  <2> QED BY <2>1, <2>2 DEF m
<1>4. CASE s.kind \notin {"role", "unknown", "error", "done"}
  <2>1. /\ \A i \in DOMAIN s.text : s.text[i] \in 1 .. MaxChunks
        /\ \A i \in DOMAIN t.text : t.text[i] \in 1 .. MaxChunks
        /\ s.text \in Seq(1 .. MaxChunks) /\ t.text \in Seq(1 .. MaxChunks)
    BY SegmentFacts, LenProperties, ElementOfSeq
  <2>2. /\ s.text \o t.text \in Seq(1 .. MaxChunks)
        /\ \A i \in DOMAIN (s.text \o t.text) : (s.text \o t.text)[i] \in 1 .. MaxChunks
    <3>1. s.text \o t.text \in Seq(1 .. MaxChunks)
      BY <2>1, ConcatProperties
    <3> QED BY <3>1, LenProperties, ElementOfSeq
  <2>3. SegmentPieces(s) = Mapped(F, s.text)
    BY <1>4, <2>1 DEF SegmentPieces, Mapped
  <2>4. SegmentPieces(t) = Mapped(F, t.text)
    BY <1>1, <1>4, <2>1 DEF SegmentPieces, Mapped
  <2>5. SegmentPieces(m) = Mapped(F, s.text \o t.text)
    BY <1>2, <1>4, <2>2 DEF SegmentPieces, Mapped
  <2>6. ASSUME NEW n \in 1 .. MaxChunks
        PROVE  Piece(s.kind, s.choice, s.field, n) \in PieceType
    BY SegmentFacts DEF Piece, PieceType
  <2>7. Maps(F, 1 .. MaxChunks, PieceType)
    BY <2>6 DEF Maps
  <2> HIDE DEF F
  <2>8. Mapped(F, s.text \o t.text) = Mapped(F, s.text) \o Mapped(F, t.text)
    BY <2>1, <2>7, MappedConcat
  <2> QED BY <2>3, <2>4, <2>5, <2>8 DEF m
<1> QED BY <1>3, <1>4

LEMMA ToSetConcat ==
  ASSUME NEW S, NEW a \in Seq(S), NEW b \in Seq(S)
  PROVE  ToSet(a \o b) = ToSet(a) \cup ToSet(b)
<1>1. Range(a \o b) = Range(a) \cup Range(b)
  BY RangeConcatenation
<1>2. \A x : ToSet(x) = Range(x)
  BY DEF ToSet, Range
<1> QED BY <1>1, <1>2

\* The ids that the items of a call have; None is among them when there are any.
ItemsFor(items, c, i) == {t \in ToSet(items) : t.choice = c /\ t.index = i}

Names(items, c, i) == UNION {{None, t.id} : t \in ItemsFor(items, c, i)}

LEMMA NamesConcat ==
  ASSUME NEW a \in Seq(ItemType), NEW b \in Seq(ItemType), NEW c, NEW i
  PROVE  Names(a \o b, c, i) = Names(a, c, i) \cup Names(b, c, i)
<1>1. ToSet(a \o b) = ToSet(a) \cup ToSet(b)
  BY ToSetConcat
<1>2. ItemsFor(a \o b, c, i) = ItemsFor(a, c, i) \cup ItemsFor(b, c, i)
  BY <1>1 DEF ItemsFor
<1> QED BY <1>2 DEF Names

LEMMA ArgumentsRead ==
  ASSUME NEW items \in Seq(ItemType), NEW c, NEW i
  PROVE  /\ ArgumentsOf(items, c, i) = FlatMap(ArgumentsF(c, i), items)
         /\ ArgumentsOf(items, c, i) \in Seq(Fragments)
<1>1. \A k \in DOMAIN items : items[k] \in ItemType
  BY LenProperties, ElementOfSeq
<1>2. ArgumentsOf(items, c, i) = FlatMap(ArgumentsF(c, i), items)
  BY <1>1 DEF ArgumentsOf, FlatMap, Mapped, ArgumentsF
<1>3. FlatMap(ArgumentsF(c, i), items) \in Seq(Fragments)
  BY ArgumentsMaps, FlatMapType
<1> QED BY <1>2, <1>3

LEMMA ArgumentsConcat ==
  ASSUME NEW a \in Seq(ItemType), NEW b \in Seq(ItemType), NEW c, NEW i
  PROVE  ArgumentsOf(a \o b, c, i) = ArgumentsOf(a, c, i) \o ArgumentsOf(b, c, i)
<1>1. a \o b \in Seq(ItemType)
  BY ConcatProperties
<1>2. /\ ArgumentsOf(a, c, i) = FlatMap(ArgumentsF(c, i), a)
      /\ ArgumentsOf(b, c, i) = FlatMap(ArgumentsF(c, i), b)
      /\ ArgumentsOf(a \o b, c, i) = FlatMap(ArgumentsF(c, i), a \o b)
  BY <1>1, ArgumentsRead
<1>3. FlatMap(ArgumentsF(c, i), a \o b)
        = FlatMap(ArgumentsF(c, i), a) \o FlatMap(ArgumentsF(c, i), b)
  BY ArgumentsMaps, FlatMapConcat
<1> QED BY <1>2, <1>3

\* The items of a segment, read off its calls.
LEMMA SegmentNames ==
  ASSUME NEW s \in SegmentType, NEW c, NEW i
  PROVE  Names(ItemsOf(s), c, i)
           = IF s.choice = c /\ i \in DOMAIN s.calls THEN {None, s.calls[i].id}
                                                     ELSE {}
<1> DEFINE n == Len(s.order)
           items == ItemsOf(s)
<1>1. /\ DOMAIN items = 1 .. n
      /\ \A j \in 1 .. n :
           /\ items[j].choice = s.choice /\ items[j].index = s.order[j]
           /\ items[j].id = s.calls[s.order[j]].id
  <2>1. /\ DOMAIN items = 1 .. n
        /\ \A j \in 1 .. n :
             items[j] = [choice |-> s.choice, index |-> s.order[j],
                         id |-> s.calls[s.order[j]].id,
                         arguments |-> s.calls[s.order[j]].arguments]
    BY ItemsFacts
  <2> HIDE DEF n, items
  <2> QED BY <2>1
<1>2. DOMAIN s.calls = {s.order[j] : j \in 1 .. n}
  BY SegmentFacts, LenProperties DEF ToSet
<1> HIDE DEF n, items
<1>3. ToSet(items) = {items[j] : j \in 1 .. n}
  BY <1>1 DEF ToSet
<1>4. CASE s.choice = c /\ i \in DOMAIN s.calls
  <2>1. PICK j \in 1 .. n : s.order[j] = i
    BY <1>2, <1>4
  <2>2. items[j] \in ItemsFor(items, c, i)
    BY <1>1, <1>3, <1>4, <2>1 DEF ItemsFor
  <2>3. \A t \in ItemsFor(items, c, i) : t.id = s.calls[i].id
    BY <1>1, <1>3 DEF ItemsFor
  <2>4. Names(items, c, i) = {None, s.calls[i].id}
    BY <2>2, <2>3 DEF Names
  <2> QED BY <1>4, <2>4 DEF items
<1>5. CASE ~(s.choice = c /\ i \in DOMAIN s.calls)
  <2>1. ItemsFor(items, c, i) = {}
    BY <1>1, <1>2, <1>3, <1>5 DEF ItemsFor
  <2>2. Names(items, c, i) = {}
    BY <2>1 DEF Names
  <2> QED BY <1>5, <2>2 DEF items
<1> QED BY <1>4, <1>5

LEMMA SegmentArguments ==
  ASSUME NEW s \in SegmentType, IsInjective(s.order), NEW c, NEW i
  PROVE  ArgumentsOf(ItemsOf(s), c, i)
           = IF s.choice = c /\ i \in DOMAIN s.calls THEN s.calls[i].arguments
                                                     ELSE <<>>
<1> DEFINE n == Len(s.order)
           items == ItemsOf(s)
           ss == Mapped(ArgumentsF(c, i), items)
<1>1. /\ items \in Seq(ItemType) /\ Len(items) = n /\ DOMAIN items = 1 .. n
      /\ \A j \in 1 .. n :
           /\ items[j].choice = s.choice /\ items[j].index = s.order[j]
           /\ items[j].arguments = s.calls[s.order[j]].arguments
  <2>1. /\ items \in Seq(ItemType) /\ Len(items) = n /\ DOMAIN items = 1 .. n
        /\ \A j \in 1 .. n :
             items[j] = [choice |-> s.choice, index |-> s.order[j],
                         id |-> s.calls[s.order[j]].id,
                         arguments |-> s.calls[s.order[j]].arguments]
    BY ItemsFacts
  <2> HIDE DEF n, items, ss
  <2> QED BY <2>1
<1>2. DOMAIN s.calls = {s.order[j] : j \in 1 .. n} /\ DOMAIN s.order = 1 .. n
  BY SegmentFacts, LenProperties DEF ToSet
<1> HIDE DEF n, items
<1>3. ArgumentsOf(items, c, i) = FlattenSeq(ss)
  BY <1>1, ArgumentsRead DEF FlatMap
<1>4. /\ ss \in Seq(Seq(Fragments)) /\ Len(ss) = n
      /\ \A j \in 1 .. n : ss[j] = ArgumentsF(c, i)[items[j]]
  BY <1>1, ArgumentsMaps, MappedType
<1> HIDE DEF ss
<1>5. ASSUME NEW j \in 1 .. n
      PROVE  ss[j] = IF s.choice = c /\ s.order[j] = i
                       THEN s.calls[s.order[j]].arguments ELSE <<>>
  <2>1. items[j] \in ItemType
    BY <1>1, ElementOfSeq
  <2> QED BY <1>1, <1>4, <2>1 DEF ArgumentsF, If
<1>6. CASE s.choice = c /\ i \in DOMAIN s.calls
  <2>1. PICK j \in 1 .. n : s.order[j] = i
    BY <1>2, <1>6
  <2>2. \A k \in 1 .. n : k # j => s.order[k] # i
    BY <1>2, <2>1 DEF IsInjective
  <2>3. \A k \in 1 .. n : k # j => ss[k] = <<>>
    BY <1>5, <2>2
  <2>4. FlattenSeq(ss) = ss[j]
    BY <1>4, <2>3, FlattenSingle
  <2>5. ss[j] = s.calls[i].arguments
    BY <1>5, <1>6, <2>1
  <2> QED BY <1>3, <1>6, <2>4, <2>5 DEF items
<1>7. CASE ~(s.choice = c /\ i \in DOMAIN s.calls)
  <2>1. \A k \in 1 .. n : ss[k] = <<>>
    BY <1>2, <1>5, <1>7
  <2>2. FlattenSeq(ss) = <<>>
    BY <1>4, <2>1, FlattenNone
  <2> QED BY <1>3, <1>7, <2>2 DEF items
<1> QED BY <1>6, <1>7

\* Merging keeps the ids and the arguments of every call.
LEMMA MergedItems ==
  ASSUME NEW s \in SegmentType, NEW t \in SegmentType, CanMerge(s, t),
         IsInjective(s.order), IsInjective(t.order), NEW c, NEW i
  PROVE  /\ Names(ItemsOf(Merge(s, t)), c, i)
              = Names(ItemsOf(s), c, i) \cup Names(ItemsOf(t), c, i)
         /\ ArgumentsOf(ItemsOf(Merge(s, t)), c, i)
              = ArgumentsOf(ItemsOf(s), c, i) \o ArgumentsOf(ItemsOf(t), c, i)
<1> DEFINE m == Merge(s, t)
           Has(u) == u.choice = c /\ i \in DOMAIN u.calls
<1>1. s.choice = t.choice
  BY DEF CanMerge
<1>2. m \in SegmentType /\ m.choice = s.choice
  BY <1>1, MergeFacts
<1>3. CallsMerged(m, s, t, DOMAIN t.calls) /\ IsInjective(m.order)
  BY <1>1, MergedCalls
<1> HIDE DEF m
<1>4. /\ DOMAIN m.calls = DOMAIN s.calls \cup DOMAIN t.calls
      /\ i \in DOMAIN s.calls \ DOMAIN t.calls => m.calls[i] = s.calls[i]
      /\ i \in DOMAIN t.calls \ DOMAIN s.calls => m.calls[i] = t.calls[i]
      /\ i \in DOMAIN t.calls \cap DOMAIN s.calls =>
           /\ m.calls[i].id = IF s.calls[i].id = None THEN t.calls[i].id
                                                      ELSE s.calls[i].id
           /\ m.calls[i].arguments = s.calls[i].arguments \o t.calls[i].arguments
  BY <1>3 DEF CallsMerged
<1>5. i \in DOMAIN s.calls \cap DOMAIN t.calls =>
        None \in {s.calls[i].id, t.calls[i].id} \/ s.calls[i].id = t.calls[i].id
  BY DEF CanMerge
<1>6. ASSUME NEW u \in SegmentType, IsInjective(u.order)
      PROVE  /\ Names(ItemsOf(u), c, i) = IF Has(u) THEN {None, u.calls[i].id} ELSE {}
             /\ ArgumentsOf(ItemsOf(u), c, i)
                  = IF Has(u) THEN u.calls[i].arguments ELSE <<>>
             /\ Has(u) => u.calls[i].arguments \in Seq(Fragments)
  <2>1. Has(u) => u.calls[i].arguments \in Seq(Fragments)
    BY SegmentFacts DEF Call
  <2> QED BY <1>6, <2>1, SegmentNames, SegmentArguments
<1>7. Has(m) <=> Has(s) \/ Has(t)
  BY <1>1, <1>2, <1>4
<1>8. Names(ItemsOf(m), c, i) = Names(ItemsOf(s), c, i) \cup Names(ItemsOf(t), c, i)
  <2>1. Has(m) => {None, m.calls[i].id}
                    = (IF Has(s) THEN {None, s.calls[i].id} ELSE {})
                      \cup (IF Has(t) THEN {None, t.calls[i].id} ELSE {})
    BY <1>1, <1>2, <1>4, <1>5
  <2> HIDE DEF Has
  <2> QED BY <1>2, <1>3, <1>6, <1>7, <2>1
<1>9. ArgumentsOf(ItemsOf(m), c, i)
        = ArgumentsOf(ItemsOf(s), c, i) \o ArgumentsOf(ItemsOf(t), c, i)
  <2>1. CASE Has(s) /\ Has(t)
    <3>1. m.calls[i].arguments = s.calls[i].arguments \o t.calls[i].arguments
      BY <1>4, <2>1
    <3> HIDE DEF Has
    <3> QED BY <1>2, <1>3, <1>6, <1>7, <2>1, <3>1
  <2>2. CASE Has(s) /\ ~Has(t)
    <3>1. m.calls[i] = s.calls[i]
      BY <1>1, <1>4, <2>2
    <3>2. s.calls[i].arguments \o <<>> = s.calls[i].arguments
      BY <1>6, <2>2, ConcatEmptySeq
    <3> HIDE DEF Has
    <3> QED BY <1>2, <1>3, <1>6, <1>7, <2>2, <3>1, <3>2
  <2>3. CASE ~Has(s) /\ Has(t)
    <3>1. m.calls[i] = t.calls[i]
      BY <1>1, <1>4, <2>3
    <3>2. <<>> \o t.calls[i].arguments = t.calls[i].arguments
      BY <1>6, <2>3, ConcatEmptySeq
    <3> HIDE DEF Has
    <3> QED BY <1>2, <1>3, <1>6, <1>7, <2>3, <3>1, <3>2
  <2>4. CASE ~Has(s) /\ ~Has(t)
    <3>1. <<>> \o <<>> = <<>>
      BY EmptySeq, ConcatEmptySeq
    <3> HIDE DEF Has
    <3> QED BY <1>2, <1>3, <1>6, <1>7, <2>4, <3>1
  <2> QED BY <2>1, <2>2, <2>3, <2>4
<1> QED BY <1>8, <1>9 DEF m

-----------------------------------------------------------------------------
\* What the parser makes of a chunk (parser.go:81-336).
LEMMA LastOfMany ==
  ASSUME NEW n \in Nat, NEW I \in SUBSET (1 .. n), I # {}
  PROVE  Max(I) \in I /\ \A y \in I : Max(I) >= y
<1> DEFINE Below(k) == I \cap (1 .. k)
           Top(k) == \E m \in Below(k) : \A y \in Below(k) : m >= y
           T == {k \in Nat : Below(k) # {} => Top(k)}
<1>1. 0 \in T
  OBVIOUS
<1>2. ASSUME NEW k \in Nat, k \in T PROVE k + 1 \in T
  <2>1. SUFFICES ASSUME Below(k + 1) # {} PROVE Top(k + 1)
    OBVIOUS
  <2>2. \A y \in 1 .. k + 1 : y \in 1 .. k \/ y = k + 1
    OBVIOUS
  <2>3. 1 .. k \subseteq 1 .. k + 1 /\ k + 1 \in 1 .. k + 1
    OBVIOUS
  <2>4. CASE k + 1 \in I
    <3>1. k + 1 \in Below(k + 1) /\ \A y \in Below(k + 1) : k + 1 >= y
      BY <2>3, <2>4
    <3> QED BY <3>1
  <2>5. CASE k + 1 \notin I
    <3>1. Below(k + 1) = Below(k)
      BY <2>2, <2>3, <2>5
    <3>2. Top(k)
      BY <1>2, <2>1, <3>1
    <3> QED BY <3>1, <3>2
  <2> QED BY <2>4, <2>5
<1>3. n \in T
  <2> HIDE DEF T
  <2> QED BY <1>1, <1>2, NatInductionSet
<1>4. Below(n) = I
  OBVIOUS
<1>5. \E m \in I : \A y \in I : m >= y
  BY <1>3, <1>4
<1> QED BY <1>5 DEF Max

LEMMA SegmentOfChunk ==
  ASSUME NEW kind \in Kinds, NEW choice \in ChoiceIndices \cup {None},
         NEW field \in SegmentFields, NEW n \in 1 .. MaxChunks, extraMap \in BOOLEAN
  PROVE  /\ Segment(kind, choice, field, n) \in SegmentType
         /\ Segment(kind, choice, field, n).kind = kind
         /\ Segment(kind, choice, field, n).choice = choice
         /\ Segment(kind, choice, field, n).field = field
         /\ Segment(kind, choice, field, n).text = <<n>>
         /\ Segment(kind, choice, field, n).order = <<>>
         /\ Segment(kind, choice, field, n).data = <<>>
<1> DEFINE s == Segment(kind, choice, field, n)
<1>1. /\ s.kind = kind /\ s.choice = choice /\ s.field = field /\ s.text = <<n>>
      /\ s.order = <<>> /\ s.calls = <<>> /\ s.extra = extraMap /\ s.data = <<>>
      /\ s = [kind |-> s.kind, choice |-> s.choice, field |-> s.field,
              text |-> s.text, order |-> s.order, calls |-> s.calls,
              data |-> s.data, extra |-> s.extra]
  BY DEF Segment
<1>2. /\ <<n>> \in Seq(1 .. MaxChunks) /\ <<>> \in Seq(ToolIndices)
      /\ <<>> \in Seq(ChoiceChunk)
  BY EmptySeq
<1>3. ToSet(<<>>) = {}
  BY EmptySeq, LenProperties DEF ToSet
<1>4. <<>> \in [{} -> Call]
  OBVIOUS
<1> HIDE DEF s
<1>5. s \in SegmentType
  BY <1>1, <1>2, <1>3, <1>4, SegmentMade
<1> QED BY <1>1, <1>5 DEF s

\* A raw segment: what it carries is not merged.
LEMMA RawFacts ==
  ASSUME NEW kind \in {"unknown", "error", "done"}, NEW n \in 1 .. MaxChunks,
         NEW choices \in Seq(ChoiceChunk), extraMap \in BOOLEAN
  PROVE  /\ Raw(kind, n, choices) \in SegmentType
         /\ Raw(kind, n, choices).kind = kind /\ Raw(kind, n, choices).order = <<>>
         /\ Raw(kind, n, choices).data = choices
<1> DEFINE s == Segment(kind, None, None, n)
           m == Raw(kind, n, choices)
<1>1. kind \in Kinds /\ None \in SegmentFields /\ None \in ChoiceIndices \cup {None}
  BY DEF Kinds, SegmentFields
<1>2. s \in SegmentType /\ s.kind = kind /\ s.order = <<>>
  BY <1>1, SegmentOfChunk
<1>3. s = [kind |-> s.kind, choice |-> s.choice, field |-> s.field,
           text |-> s.text, order |-> s.order, calls |-> s.calls,
           data |-> s.data, extra |-> s.extra]
  BY DEF Segment
<1>4. m = [s EXCEPT !.data = choices]
  BY DEF Raw
<1> HIDE DEF s, m
<1>5. m = [kind |-> s.kind, choice |-> s.choice, field |-> s.field,
           text |-> s.text, order |-> s.order, calls |-> s.calls,
           data |-> choices, extra |-> s.extra]
  BY <1>3, <1>4
<1>6. /\ m.kind = s.kind /\ m.choice = s.choice /\ m.field = s.field
      /\ m.text = s.text /\ m.order = s.order /\ m.calls = s.calls
      /\ m.extra = s.extra /\ m.data = choices
  BY <1>5
<1>7. m = [kind |-> m.kind, choice |-> m.choice, field |-> m.field,
           text |-> m.text, order |-> m.order, calls |-> m.calls,
           data |-> m.data, extra |-> m.extra]
  BY <1>5
<1>8. m \in SegmentType
  BY <1>2, <1>6, <1>7, SegmentFacts, SegmentMade
<1> QED BY <1>2, <1>6, <1>8 DEF m

LEMMA RawDelta ==
  ASSUME NEW n \in 1 .. MaxChunks, extraMap \in BOOLEAN
  PROVE  /\ Raw("unknown", n, <<>>) \in SegmentType
         /\ Raw("unknown", n, <<>>).kind = "unknown"
         /\ Raw("unknown", n, <<>>).order = <<>>
         /\ Raw("unknown", n, <<>>).data = <<>>
<1> DEFINE kind == "unknown"
           choices == <<>>
<1>1. kind \in {"unknown", "error", "done"} /\ choices \in Seq(ChoiceChunk)
  BY EmptySeq
<1> HIDE DEF kind, choices
<1>2. /\ Raw(kind, n, choices) \in SegmentType
      /\ Raw(kind, n, choices).kind = kind /\ Raw(kind, n, choices).order = <<>>
      /\ Raw(kind, n, choices).data = choices
  BY <1>1, RawFacts
<1> QED BY <1>2 DEF kind, choices

\* The calls of a delta: each index has the last one that names it.
LEMMA ToolCallsFacts ==
  ASSUME NEW c \in ChoiceChunk, NEW n \in 1 .. MaxChunks, extraMap \in BOOLEAN
  PROVE  /\ ToolCalls(c, n) \in SegmentType
         /\ ToolCalls(c, n).kind = "tool" /\ ToolCalls(c, n).choice = c.choice
         /\ ToolCalls(c, n).field = None /\ ToolCalls(c, n).text = <<n>>
         /\ ToolCalls(c, n).order = [j \in DOMAIN c.tools |-> c.tools[j].index]
         /\ IsInjective([j \in DOMAIN c.tools |-> c.tools[j].index]) =>
              ItemsOf(ToolCalls(c, n)) = ChoiceItems(c, n)
<1> DEFINE N == Len(c.tools)
           tools == c.tools
           named(index) == {i \in 1 .. N : tools[i].index = index}
           kept(index) == SelectLastInSeq(c.tools, LAMBDA t : t.index = index)
           order == [j \in DOMAIN c.tools |-> c.tools[j].index]
           indices == {t.index : t \in ToSet(c.tools)}
           calls == [index \in indices |-> [id |-> c.tools[kept(index)].id,
                                            arguments |-> << <<n, kept(index)>> >>]]
           s == Segment("tool", c.choice, None, n)
           m == ToolCalls(c, n)
<1>1. /\ c.choice \in ChoiceIndices /\ tools \in Seq(ToolDelta)
      /\ N \in Nat /\ DOMAIN tools = 1 .. N
      /\ \A j \in 1 .. N : tools[j] \in ToolDelta
  <2>1. c.choice \in ChoiceIndices /\ tools \in Seq(ToolDelta)
    BY DEF ChoiceChunk
  <2> QED BY <2>1, LenProperties, ElementOfSeq
<1>2. ASSUME NEW index PROVE kept(index) = IF named(index) # {} THEN Max(named(index)) ELSE 0
  BY DEF SelectLastInSeq
<1>3. m = [s EXCEPT !.order = order, !.calls = calls]
  BY DEF ToolCalls
<1>4. indices = {tools[j].index : j \in 1 .. N}
  BY <1>1 DEF ToSet
<1> HIDE DEF kept
<1>5. ASSUME NEW j \in 1 .. N
      PROVE  /\ kept(tools[j].index) \in 1 .. N
             /\ tools[kept(tools[j].index)].index = tools[j].index
  <2> DEFINE I == named(tools[j].index)
  <2>1. I \in SUBSET (1 .. N) /\ I # {}
    OBVIOUS
  <2>2. Max(I) \in I
    <3> HIDE DEF I
    <3> QED BY <1>1, <2>1, LastOfMany
  <2>3. kept(tools[j].index) = Max(I)
    BY <1>2, <2>1
  <2>4. kept(tools[j].index) \in I
    BY <2>2, <2>3
  <2> QED BY <2>4
<1>6. order = [j \in 1 .. N |-> tools[j].index]
  BY <1>1
<1>7. order \in Seq(ToolIndices)
  <2>1. \A j \in 1 .. N : tools[j].index \in ToolIndices
    BY <1>1 DEF ToolDelta
  <2> HIDE DEF N, tools, order
  <2> QED BY <1>1, <1>6, <2>1, IsASeq
<1>8. ToSet(order) = indices
  BY <1>4, <1>6 DEF ToSet
<1>9. ASSUME NEW index \in indices
      PROVE  [id |-> tools[kept(index)].id,
              arguments |-> << <<n, kept(index)>> >>] \in Call
  <2>1. kept(index) \in 1 .. N
    BY <1>4, <1>5
  <2>2. tools[kept(index)].id \in ToolIds \cup {None}
    BY <1>1, <2>1 DEF ToolDelta
  <2>3. <<n, kept(index)>> \in Fragments
    BY <1>1, <2>1 DEF Fragments
  <2>4. << <<n, kept(index)>> >> \in Seq(Fragments)
    BY <2>3
  <2> QED BY <2>2, <2>4 DEF Call
<1>10. calls \in [indices -> Call]
  BY <1>9
<1>11. s = [kind |-> "tool", choice |-> c.choice, field |-> None, text |-> <<n>>,
            order |-> <<>>, calls |-> <<>>, data |-> <<>>, extra |-> extraMap]
  BY DEF Segment
<1> HIDE DEF order, calls, indices, s, m, N, tools
<1>12. m = [kind |-> "tool", choice |-> c.choice, field |-> None, text |-> <<n>>,
            order |-> order, calls |-> calls, data |-> <<>>, extra |-> extraMap]
  BY <1>3, <1>11
<1>13. /\ m.kind = "tool" /\ m.choice = c.choice /\ m.field = None
       /\ m.text = <<n>> /\ m.order = order /\ m.calls = calls
       /\ m.extra = extraMap /\ m.data = <<>>
       /\ m = [kind |-> m.kind, choice |-> m.choice, field |-> m.field,
               text |-> m.text, order |-> m.order, calls |-> m.calls,
               data |-> m.data, extra |-> m.extra]
  BY <1>12
<1>14. m \in SegmentType
  <2>1. /\ "tool" \in Kinds /\ None \in SegmentFields /\ <<n>> \in Seq(1 .. MaxChunks)
        /\ <<>> \in Seq(ChoiceChunk)
    BY EmptySeq DEF Kinds, SegmentFields
  <2> QED BY <1>1, <1>7, <1>8, <1>10, <1>13, <2>1, SegmentMade
<1>15. ASSUME IsInjective(order) PROVE ItemsOf(m) = ChoiceItems(c, n)
  <2>1. ASSUME NEW j \in 1 .. N PROVE kept(tools[j].index) = j
    <3>1. order[j] = tools[j].index
      BY <1>6
    <3>2. order[kept(tools[j].index)] = tools[j].index
      BY <1>5, <1>6
    <3>3. DOMAIN order = 1 .. N
      BY <1>6
    <3> QED BY <1>5, <1>15, <3>1, <3>2, <3>3 DEF IsInjective
  <2>2. DOMAIN order = 1 .. N
    BY <1>6
  <2>3. ASSUME NEW j \in 1 .. N
        PROVE  calls[order[j]] = [id |-> tools[j].id, arguments |-> << <<n, j>> >>]
    <3>1. tools[j].index \in indices /\ order[j] = tools[j].index
      BY <1>4, <1>6
    <3>2. calls[tools[j].index]
            = [id |-> tools[kept(tools[j].index)].id,
               arguments |-> << <<n, kept(tools[j].index)>> >>]
      BY <3>1 DEF calls, tools
    <3> QED BY <2>1, <3>1, <3>2
  <2>4. ItemsOf(m) = [j \in 1 .. N |-> [choice |-> c.choice, index |-> tools[j].index,
                                        id |-> tools[j].id,
                                        arguments |-> << <<n, j>> >>]]
    <3>1. ASSUME NEW j \in 1 .. N
          PROVE  /\ m.choice = c.choice /\ m.order[j] = tools[j].index
                 /\ m.calls[m.order[j]].id = tools[j].id
                 /\ m.calls[m.order[j]].arguments = << <<n, j>> >>
      <4> DEFINE call == [id |-> tools[j].id, arguments |-> << <<n, j>> >>]
      <4>1. m.choice = c.choice /\ m.order = order /\ m.calls = calls
        BY <1>13
      <4>2. order[j] = tools[j].index /\ calls[order[j]] = call
        BY <1>6, <2>3
      <4>3. call.id = tools[j].id /\ call.arguments = << <<n, j>> >>
        OBVIOUS
      <4> HIDE DEF call
      <4> QED BY <4>1, <4>2, <4>3
    <3>2. DOMAIN m.order = 1 .. N
      BY <1>13, <2>2
    <3>3. ItemsOf(m) = [j \in 1 .. N |->
                          [choice |-> m.choice, index |-> m.order[j],
                           id |-> m.calls[m.order[j]].id,
                           arguments |-> m.calls[m.order[j]].arguments]]
      BY <3>2 DEF ItemsOf
    <3> QED BY <3>1, <3>3
  <2>5. ChoiceItems(c, n)
          = [j \in 1 .. N |-> [choice |-> c.choice, index |-> tools[j].index,
                               id |-> tools[j].id, arguments |-> << <<n, j>> >>]]
    BY <1>1 DEF ChoiceItems, tools
  <2> QED BY <2>4, <2>5
<1> QED BY <1>13, <1>14, <1>15 DEF m, order

\* A part of a chunk that is there or not.
LEMMA PartRead ==
  ASSUME NEW X, NEW F, Maps(F, SegmentType, Seq(X)), NEW b \in BOOLEAN,
         NEW e, e \in SegmentType
  PROVE  /\ If(b, <<e>>) \in Seq(SegmentType)
         /\ FlatMap(F, If(b, <<e>>)) = If(b, F[e])
         /\ If(b, F[e]) \in Seq(X)
<1>1. FlatMap(F, <<e>>) = F[e] /\ FlatMap(F, <<>>) = <<>>
  BY FlatMapOne, FlatMapEmpty
<1>2. F[e] \in Seq(X) /\ <<e>> \in Seq(SegmentType)
  BY DEF Maps
<1>3. <<>> \in Seq(SegmentType) /\ <<>> \in Seq(X)
  BY EmptySeq
<1>4. CASE b
  BY <1>1, <1>2, <1>4 DEF If
<1>5. CASE ~b
  BY <1>1, <1>3, <1>5 DEF If
<1> QED BY <1>4, <1>5

LEMMA ConcatRead ==
  ASSUME NEW X, NEW F, Maps(F, SegmentType, Seq(X)),
         NEW s \in Seq(SegmentType), NEW t \in Seq(SegmentType)
  PROVE  /\ s \o t \in Seq(SegmentType)
         /\ FlatMap(F, s \o t) = FlatMap(F, s) \o FlatMap(F, t)
<1>1. s \o t \in Seq(SegmentType)
  BY ConcatProperties
<1> QED BY <1>1, FlatMapConcat

\* The six parts of a choice.
RolePart(c, n) == Segment("role", c.choice, c.role, n)
ReasoningPart(c, n) == Segment("reasoning", c.choice, c.reasoning, n)
ContentPart(c, n) == Segment("content", c.choice, None, n)
FinishPart(c, n) == Segment("finish", c.choice, None, n)

OnlyExtra(c, n) ==
  c.extraDelta /\ ((If(NewRole(c), <<RolePart(c, n)>>)
                    \o If(c.reasoning # None, <<ReasoningPart(c, n)>>))
                   \o If(c.content, <<ContentPart(c, n)>>))
                  \o If(c.tools # <<>>, <<ToolCalls(c, n)>>) = <<>>

LEMMA PartsTyped ==
  ASSUME NEW c \in ChoiceChunk, NEW n \in 1 .. MaxChunks, extraMap \in BOOLEAN
  PROVE  /\ RolePart(c, n) \in SegmentType /\ ReasoningPart(c, n) \in SegmentType
         /\ ContentPart(c, n) \in SegmentType /\ FinishPart(c, n) \in SegmentType
         /\ ToolCalls(c, n) \in SegmentType /\ Raw("unknown", n, <<>>) \in SegmentType
<1>1. /\ c.choice \in ChoiceIndices \cup {None}
      /\ c.role \in SegmentFields /\ c.reasoning \in SegmentFields
      /\ None \in SegmentFields /\ None \in ChoiceIndices \cup {None}
  BY DEF ChoiceChunk, SegmentFields
<1>2. /\ "role" \in Kinds /\ "reasoning" \in Kinds /\ "content" \in Kinds
      /\ "finish" \in Kinds /\ "unknown" \in Kinds
  BY DEF Kinds
<1>3. RolePart(c, n) \in SegmentType
  BY <1>1, <1>2, SegmentOfChunk DEF RolePart
<1>4. ReasoningPart(c, n) \in SegmentType
  BY <1>1, <1>2, SegmentOfChunk DEF ReasoningPart
<1>5. ContentPart(c, n) \in SegmentType
  BY <1>1, <1>2, SegmentOfChunk DEF ContentPart
<1>6. FinishPart(c, n) \in SegmentType
  BY <1>1, <1>2, SegmentOfChunk DEF FinishPart
<1>7. Raw("unknown", n, <<>>) \in SegmentType
  BY RawDelta
<1> QED BY <1>3, <1>4, <1>5, <1>6, <1>7, ToolCallsFacts

ChoiceReading(F, c, n) ==
  ((((If(NewRole(c), F[RolePart(c, n)])
      \o If(c.reasoning # None, F[ReasoningPart(c, n)]))
     \o If(c.content, F[ContentPart(c, n)]))
    \o If(c.tools # <<>>, F[ToolCalls(c, n)]))
   \o If(OnlyExtra(c, n), F[Raw("unknown", n, <<>>)]))
  \o If(c.finish, F[FinishPart(c, n)])

LEMMA ChoiceRead ==
  ASSUME NEW X, NEW F, Maps(F, SegmentType, Seq(X)),
         NEW c \in ChoiceChunk, NEW n \in 1 .. MaxChunks, extraMap \in BOOLEAN
  PROVE  /\ parseChoice(c, n) \in Seq(SegmentType)
         /\ FlatMap(F, parseChoice(c, n)) = ChoiceReading(F, c, n)
<1> DEFINE b1 == NewRole(c)
           b2 == c.reasoning # None
           b3 == c.content
           b4 == c.tools # <<>>
           b5 == OnlyExtra(c, n)
           b6 == c.finish
           p1 == If(b1, <<RolePart(c, n)>>)
           p2 == If(b2, <<ReasoningPart(c, n)>>)
           p3 == If(b3, <<ContentPart(c, n)>>)
           p4 == If(b4, <<ToolCalls(c, n)>>)
           p5 == If(b5, <<Raw("unknown", n, <<>>)>>)
           p6 == If(b6, <<FinishPart(c, n)>>)
<1>1. /\ b1 \in BOOLEAN /\ b2 \in BOOLEAN /\ b3 \in BOOLEAN /\ b4 \in BOOLEAN
      /\ b6 \in BOOLEAN /\ b5 \in BOOLEAN
  BY DEF ChoiceChunk, NewRole, OnlyExtra
<1>2. parseChoice(c, n) = ((((p1 \o p2) \o p3) \o p4) \o p5) \o p6
  BY DEF parseChoice, RolePart, ReasoningPart, ContentPart, FinishPart, OnlyExtra
<1>3. /\ RolePart(c, n) \in SegmentType /\ ReasoningPart(c, n) \in SegmentType
      /\ ContentPart(c, n) \in SegmentType /\ FinishPart(c, n) \in SegmentType
      /\ ToolCalls(c, n) \in SegmentType /\ Raw("unknown", n, <<>>) \in SegmentType
  BY PartsTyped
<1> HIDE DEF b1, b2, b3, b4, b5, b6
<1>4. p1 \in Seq(SegmentType) /\ FlatMap(F, p1) = If(b1, F[RolePart(c, n)])
  BY <1>1, <1>3, PartRead
<1>5. p2 \in Seq(SegmentType) /\ FlatMap(F, p2) = If(b2, F[ReasoningPart(c, n)])
  BY <1>1, <1>3, PartRead
<1>6. p3 \in Seq(SegmentType) /\ FlatMap(F, p3) = If(b3, F[ContentPart(c, n)])
  BY <1>1, <1>3, PartRead
<1>7. p4 \in Seq(SegmentType) /\ FlatMap(F, p4) = If(b4, F[ToolCalls(c, n)])
  BY <1>1, <1>3, PartRead
<1>8. p5 \in Seq(SegmentType) /\ FlatMap(F, p5) = If(b5, F[Raw("unknown", n, <<>>)])
  BY <1>1, <1>3, PartRead
<1>9. p6 \in Seq(SegmentType) /\ FlatMap(F, p6) = If(b6, F[FinishPart(c, n)])
  BY <1>1, <1>3, PartRead
<1> HIDE DEF p1, p2, p3, p4, p5, p6
<1> DEFINE q2 == p1 \o p2
           q3 == q2 \o p3
           q4 == q3 \o p4
           q5 == q4 \o p5
           q6 == q5 \o p6
<1>10. q2 \in Seq(SegmentType) /\ FlatMap(F, q2) = FlatMap(F, p1) \o FlatMap(F, p2)
  BY <1>4, <1>5, ConcatRead
<1> HIDE DEF q2
<1>11. q3 \in Seq(SegmentType) /\ FlatMap(F, q3) = FlatMap(F, q2) \o FlatMap(F, p3)
  BY <1>6, <1>10, ConcatRead
<1> HIDE DEF q3
<1>12. q4 \in Seq(SegmentType) /\ FlatMap(F, q4) = FlatMap(F, q3) \o FlatMap(F, p4)
  BY <1>7, <1>11, ConcatRead
<1> HIDE DEF q4
<1>13. q5 \in Seq(SegmentType) /\ FlatMap(F, q5) = FlatMap(F, q4) \o FlatMap(F, p5)
  BY <1>8, <1>12, ConcatRead
<1> HIDE DEF q5
<1>14. q6 \in Seq(SegmentType) /\ FlatMap(F, q6) = FlatMap(F, q5) \o FlatMap(F, p6)
  BY <1>9, <1>13, ConcatRead
<1> HIDE DEF q6
<1>15. parseChoice(c, n) = q6
  BY <1>2 DEF q2, q3, q4, q5, q6
<1>16. FlatMap(F, q6) = ChoiceReading(F, c, n)
  BY <1>4, <1>5, <1>6, <1>7, <1>8, <1>9, <1>10, <1>11, <1>12, <1>13, <1>14
     DEF ChoiceReading, b1, b2, b3, b4, b5, b6
<1> QED BY <1>14, <1>15, <1>16

UsagePart(n) == Segment("usage", None, None, n)

EventReading(F, chunk, n) ==
  FlattenSeq([i \in DOMAIN ChoicesOf(chunk) |->
                ChoiceReading(F, ChoicesOf(chunk)[i], n)])
  \o If(chunk.form = "chunk" /\ chunk.usage, F[UsagePart(n)])

\* The segments of a chunk of choices and usage.
Body(chunk, n) ==
  FlattenSeq([i \in DOMAIN chunk.choices |-> parseChoice(chunk.choices[i], n)])
  \o If(chunk.usage, <<UsagePart(n)>>)

LEMMA BodyRead ==
  ASSUME NEW X, NEW F, Maps(F, SegmentType, Seq(X)),
         NEW chunk \in Chunk, NEW n \in 1 .. MaxChunks, extraMap \in BOOLEAN,
         chunk.form = "chunk"
  PROVE  /\ Body(chunk, n) \in Seq(SegmentType)
         /\ FlatMap(F, Body(chunk, n)) = EventReading(F, chunk, n)
<1> DEFINE N == Len(chunk.choices)
           choices == [i \in DOMAIN chunk.choices |-> parseChoice(chunk.choices[i], n)]
           flat == FlattenSeq(choices)
           usage == If(chunk.usage, <<UsagePart(n)>>)
<1>1. ChoicesOf(chunk) = chunk.choices
  BY DEF ChoicesOf, If
<1>2. /\ N \in Nat /\ DOMAIN chunk.choices = 1 .. N
      /\ \A i \in 1 .. N : chunk.choices[i] \in ChoiceChunk
      /\ chunk.usage \in BOOLEAN
  <2>1. chunk.choices \in Seq(ChoiceChunk) /\ chunk.usage \in BOOLEAN
    BY DEF Chunk
  <2> QED BY <2>1, LenProperties, ElementOfSeq
<1> HIDE DEF N
<1>3. ASSUME NEW i \in 1 .. N
      PROVE  /\ parseChoice(chunk.choices[i], n) \in Seq(SegmentType)
             /\ FlatMap(F, parseChoice(chunk.choices[i], n))
                  = ChoiceReading(F, chunk.choices[i], n)
  BY <1>2, ChoiceRead
<1>4. choices = [i \in 1 .. N |-> parseChoice(chunk.choices[i], n)]
  BY <1>2
<1>5. choices \in Seq(Seq(SegmentType))
  BY <1>2, <1>3, <1>4, IsASeq
<1>6. /\ flat \in Seq(SegmentType)
      /\ FlatMap(F, flat) = FlattenSeq([i \in DOMAIN choices |-> FlatMap(F, choices[i])])
  <2> HIDE DEF choices
  <2> QED BY <1>5, FlattenType, FlatMapFlatten
<1>7. [i \in DOMAIN choices |-> FlatMap(F, choices[i])]
        = [i \in DOMAIN ChoicesOf(chunk) |-> ChoiceReading(F, ChoicesOf(chunk)[i], n)]
  BY <1>1, <1>2, <1>3
<1>8. /\ usage \in Seq(SegmentType)
      /\ FlatMap(F, usage) = If(chunk.usage, F[UsagePart(n)])
  <2>1. UsagePart(n) \in SegmentType
    <3>1. "usage" \in Kinds /\ None \in SegmentFields /\ None \in ChoiceIndices \cup {None}
      BY DEF Kinds, SegmentFields
    <3> QED BY <3>1, SegmentOfChunk DEF UsagePart
  <2> QED BY <1>2, <2>1, PartRead
<1>9. Body(chunk, n) = flat \o usage
  BY DEF Body
<1> HIDE DEF choices, flat, usage
<1>10. /\ Body(chunk, n) \in Seq(SegmentType)
       /\ FlatMap(F, Body(chunk, n)) = FlatMap(F, flat) \o FlatMap(F, usage)
  <2>1. flat \in Seq(SegmentType) /\ usage \in Seq(SegmentType)
    BY <1>6, <1>8
  <2>2. /\ flat \o usage \in Seq(SegmentType)
        /\ FlatMap(F, flat \o usage) = FlatMap(F, flat) \o FlatMap(F, usage)
    BY <2>1, ConcatRead
  <2> QED BY <1>9, <2>2
<1> QED BY <1>6, <1>7, <1>8, <1>10 DEF EventReading, If

\* What a chunk becomes: its body, or one raw segment where it has none.
LEMMA EventParsed ==
  ASSUME NEW chunk \in Chunk, NEW n \in 1 .. MaxChunks, extraMap \in BOOLEAN
  PROVE  \/ /\ chunk.form = "chunk" /\ Body(chunk, n) # <<>>
            /\ parseChatCompletionsEvent(chunk, n) = Body(chunk, n)
         \/ /\ chunk.form = "chunk" /\ Body(chunk, n) = <<>>
            /\ parseChatCompletionsEvent(chunk, n)
                 = <<Raw("unknown", n, ChoicesOf(chunk))>>
         \/ /\ chunk.form # "chunk" /\ ChoicesOf(chunk) = <<>>
            /\ \E kind \in {"unknown", "error", "done"} :
                 parseChatCompletionsEvent(chunk, n) = <<Raw(kind, n, <<>>)>>
<1>1. CASE chunk.form # "chunk"
  <2>1. chunk.form \in {"done", "error", "malformed"}
    BY <1>1 DEF Chunk
  <2> QED BY <1>1, <2>1 DEF parseChatCompletionsEvent, ChoicesOf, If
<1>2. CASE chunk.form = "chunk"
  <2> DEFINE body == Body(chunk, n)
  <2>1. ChoicesOf(chunk) = chunk.choices
    BY <1>2 DEF ChoicesOf, If
  <2>2. parseChatCompletionsEvent(chunk, n)
          = IF body = <<>> THEN <<Raw("unknown", n, chunk.choices)>> ELSE body
    BY <1>2 DEF parseChatCompletionsEvent, Body, UsagePart
  <2> HIDE DEF body
  <2> QED BY <1>2, <2>1, <2>2 DEF body
<1> QED BY <1>1, <1>2

\* What is read of raw segments, one at a time.
LEMMA RawRead ==
  ASSUME NEW X, NEW F, Maps(F, SegmentType, Seq(X)),
         NEW kind \in {"unknown", "error", "done"}, NEW n \in 1 .. MaxChunks,
         NEW choices \in Seq(ChoiceChunk), extraMap \in BOOLEAN
  PROVE  /\ <<Raw(kind, n, choices)>> \in Seq(SegmentType)
         /\ <<Raw(kind, n, choices)>> # <<>>
         /\ FlatMap(F, <<Raw(kind, n, choices)>>) = F[Raw(kind, n, choices)]
<1>1. Raw(kind, n, choices) \in SegmentType
  BY RawFacts
<1>2. FlatMap(F, <<Raw(kind, n, choices)>>) = F[Raw(kind, n, choices)]
  BY <1>1, FlatMapOne
<1>3. <<Raw(kind, n, choices)>> \in Seq(SegmentType)
  BY <1>1
<1> QED BY <1>2, <1>3

\* A reading to which raw segments say nothing.
LEMMA EventRead ==
  ASSUME NEW X, NEW F, Maps(F, SegmentType, Seq(X)),
         NEW chunk \in Chunk, NEW n \in 1 .. MaxChunks, extraMap \in BOOLEAN,
         \A kind \in {"unknown", "error", "done"}, choices \in Seq(ChoiceChunk) :
           F[Raw(kind, n, choices)] = <<>>
  PROVE  /\ parseChatCompletionsEvent(chunk, n) \in Seq(SegmentType)
         /\ parseChatCompletionsEvent(chunk, n) # <<>>
         /\ FlatMap(F, parseChatCompletionsEvent(chunk, n)) = EventReading(F, chunk, n)
<1> DEFINE parse == parseChatCompletionsEvent(chunk, n)
<1>1. ASSUME NEW kind \in {"unknown", "error", "done"}, NEW choices \in Seq(ChoiceChunk),
             parse = <<Raw(kind, n, choices)>>
      PROVE  parse \in Seq(SegmentType) /\ parse # <<>> /\ FlatMap(F, parse) = <<>>
  BY <1>1, RawRead
<1>2. ChoicesOf(chunk) \in Seq(ChoiceChunk) /\ <<>> \in Seq(ChoiceChunk)
  BY EmptySeq DEF Chunk, ChoicesOf, If
<1>3. chunk.form = "chunk" =>
        Body(chunk, n) \in Seq(SegmentType)
        /\ FlatMap(F, Body(chunk, n)) = EventReading(F, chunk, n)
  BY BodyRead
<1>4. CASE chunk.form = "chunk" /\ Body(chunk, n) # <<>> /\ parse = Body(chunk, n)
  BY <1>3, <1>4
<1>5. CASE /\ chunk.form = "chunk" /\ Body(chunk, n) = <<>>
           /\ parse = <<Raw("unknown", n, ChoicesOf(chunk))>>
  <2>1. parse \in Seq(SegmentType) /\ parse # <<>> /\ FlatMap(F, parse) = <<>>
    BY <1>1, <1>2, <1>5
  <2>2. FlatMap(F, Body(chunk, n)) = <<>>
    BY <1>5, FlatMapEmpty
  <2> QED BY <1>3, <1>5, <2>1, <2>2
<1>6. CASE /\ chunk.form # "chunk" /\ ChoicesOf(chunk) = <<>>
           /\ \E kind \in {"unknown", "error", "done"} : parse = <<Raw(kind, n, <<>>)>>
  <2>1. parse \in Seq(SegmentType) /\ parse # <<>> /\ FlatMap(F, parse) = <<>>
    BY <1>1, <1>2, <1>6
  <2>2. EventReading(F, chunk, n) = FlattenSeq(<<>>) \o <<>>
    <3>1. [i \in DOMAIN ChoicesOf(chunk) |->
             ChoiceReading(F, ChoicesOf(chunk)[i], n)] = <<>>
      BY <1>6
    <3> QED BY <1>6, <3>1 DEF EventReading, If
  <2>3. FlattenSeq(<<>>) \o <<>> = <<>>
    BY FlattenEmpty, EmptySeq, ConcatEmptySeq
  <2> QED BY <2>1, <2>2, <2>3
<1> HIDE DEF parse
<1>7. \/ chunk.form = "chunk" /\ Body(chunk, n) # <<>> /\ parse = Body(chunk, n)
      \/ /\ chunk.form = "chunk" /\ Body(chunk, n) = <<>>
         /\ parse = <<Raw("unknown", n, ChoicesOf(chunk))>>
      \/ /\ chunk.form # "chunk" /\ ChoicesOf(chunk) = <<>>
         /\ \E kind \in {"unknown", "error", "done"} : parse = <<Raw(kind, n, <<>>)>>
  BY EventParsed DEF parse
<1> QED BY <1>4, <1>5, <1>6, <1>7 DEF parse

LEMMA PartFacts ==
  ASSUME NEW c \in ChoiceChunk, NEW n \in 1 .. MaxChunks, extraMap \in BOOLEAN
  PROVE  /\ RolePart(c, n).kind = "role" /\ RolePart(c, n).choice = c.choice
         /\ RolePart(c, n).field = c.role /\ RolePart(c, n).order = <<>>
         /\ ReasoningPart(c, n).kind = "reasoning"
         /\ ReasoningPart(c, n).choice = c.choice
         /\ ReasoningPart(c, n).field = c.reasoning
         /\ ReasoningPart(c, n).text = <<n>> /\ ReasoningPart(c, n).order = <<>>
         /\ ContentPart(c, n).kind = "content" /\ ContentPart(c, n).choice = c.choice
         /\ ContentPart(c, n).field = None
         /\ ContentPart(c, n).text = <<n>> /\ ContentPart(c, n).order = <<>>
         /\ FinishPart(c, n).kind = "finish" /\ FinishPart(c, n).choice = c.choice
         /\ FinishPart(c, n).field = None
         /\ FinishPart(c, n).text = <<n>> /\ FinishPart(c, n).order = <<>>
BY DEF RolePart, ReasoningPart, ContentPart, FinishPart, Segment

LEMMA UsageFacts ==
  ASSUME NEW n \in 1 .. MaxChunks, extraMap \in BOOLEAN
  PROVE  /\ UsagePart(n) \in SegmentType /\ UsagePart(n).kind = "usage"
         /\ UsagePart(n).choice = None /\ UsagePart(n).field = None
         /\ UsagePart(n).text = <<n>> /\ UsagePart(n).order = <<>>
<1>1. "usage" \in Kinds /\ None \in SegmentFields /\ None \in ChoiceIndices \cup {None}
  BY DEF Kinds, SegmentFields
<1> QED BY <1>1, SegmentOfChunk DEF UsagePart

\* Nothing, before and after.
LEMMA NothingAdded ==
  ASSUME NEW X, NEW s \in Seq(X)
  PROVE  s \o <<>> = s /\ <<>> \o s = s
BY ConcatEmptySeq

\* Segments of one chunk have one piece of text.
LEMMA OnePiece ==
  ASSUME NEW s, NEW n, s.text = <<n>>,
         s.kind \notin {"role", "unknown", "error", "done"}
  PROVE  SegmentPieces(s) = <<Piece(s.kind, s.choice, s.field, n)>>
<1>1. DOMAIN s.text = 1 .. 1 /\ s.text[1] = n
  OBVIOUS
<1>2. [i \in DOMAIN s.text |-> Piece(s.kind, s.choice, s.field, s.text[i])]
        = [i \in 1 .. 1 |-> Piece(s.kind, s.choice, s.field, n)]
  <2>1. \A i \in 1 .. 1 : i = 1
    OBVIOUS
  <2> QED BY <1>1, <2>1
<1>3. ASSUME NEW e PROVE [i \in 1 .. 1 |-> e] = <<e>>
  OBVIOUS
<1> QED BY <1>2, <1>3 DEF SegmentPieces

\* The text of a chunk is that of its segments.
LEMMA ChoicePiecesRead ==
  ASSUME NEW c \in ChoiceChunk, NEW n \in 1 .. MaxChunks, extraMap \in BOOLEAN
  PROVE  /\ ChoiceReading(PiecesF, c, n) = ChoicePieces(c, n)
         /\ ChoicePieces(c, n) \in Seq(PieceType)
<1> DEFINE r == If(c.reasoning # None, <<Piece("reasoning", c.choice, c.reasoning, n)>>)
           t == If(c.content, <<Piece("content", c.choice, None, n)>>)
           l == If(c.tools # <<>>, <<Piece("tool", c.choice, None, n)>>)
           f == If(c.finish, <<Piece("finish", c.choice, None, n)>>)
<1>1. /\ RolePart(c, n) \in SegmentType /\ ReasoningPart(c, n) \in SegmentType
      /\ ContentPart(c, n) \in SegmentType /\ FinishPart(c, n) \in SegmentType
      /\ ToolCalls(c, n) \in SegmentType /\ Raw("unknown", n, <<>>) \in SegmentType
  BY PartsTyped
<1>2. PiecesF[RolePart(c, n)] = <<>>
  BY <1>1, PartFacts DEF PiecesF, SegmentPieces
<1>3. PiecesF[Raw("unknown", n, <<>>)] = <<>>
  <2>1. Raw("unknown", n, <<>>).kind = "unknown"
    BY RawDelta
  <2> QED BY <1>1, <2>1 DEF PiecesF, SegmentPieces
<1>4. PiecesF[ReasoningPart(c, n)] = <<Piece("reasoning", c.choice, c.reasoning, n)>>
  BY <1>1, PartFacts, OnePiece DEF PiecesF
<1>5. PiecesF[ContentPart(c, n)] = <<Piece("content", c.choice, None, n)>>
  BY <1>1, PartFacts, OnePiece DEF PiecesF
<1>6. PiecesF[FinishPart(c, n)] = <<Piece("finish", c.choice, None, n)>>
  BY <1>1, PartFacts, OnePiece DEF PiecesF
<1>7. PiecesF[ToolCalls(c, n)] = <<Piece("tool", c.choice, None, n)>>
  <2>1. /\ ToolCalls(c, n).kind = "tool" /\ ToolCalls(c, n).choice = c.choice
        /\ ToolCalls(c, n).field = None /\ ToolCalls(c, n).text = <<n>>
    BY ToolCallsFacts
  <2> QED BY <1>1, <2>1, OnePiece DEF PiecesF
<1>8. ASSUME NEW e \in SegmentType PROVE PiecesF[e] \in Seq(PieceType)
  BY PiecesMaps DEF Maps
<1>9. r \in Seq(PieceType) /\ t \in Seq(PieceType) /\ l \in Seq(PieceType) /\ f \in Seq(PieceType)
  BY <1>1, <1>4, <1>5, <1>6, <1>7, <1>8, EmptySeq DEF If
<1>10. If(NewRole(c), <<>>) = <<>> /\ If(OnlyExtra(c, n), <<>>) = <<>>
  BY DEF If
<1>11. ChoiceReading(PiecesF, c, n) = ((((<<>> \o r) \o t) \o l) \o <<>>) \o f
  BY <1>2, <1>3, <1>4, <1>5, <1>6, <1>7, <1>10 DEF ChoiceReading
<1>12. ChoicePieces(c, n) = ((r \o t) \o l) \o f
  BY DEF ChoicePieces
<1> HIDE DEF r, t, l, f
<1>13. <<>> \o r = r
  BY <1>9, NothingAdded
<1>14. (r \o t) \o l \in Seq(PieceType)
  <2>1. r \o t \in Seq(PieceType)
    BY <1>9, ConcatProperties
  <2> HIDE DEF PieceType
  <2> QED BY <1>9, <2>1, ConcatProperties
<1>15. ((r \o t) \o l) \o <<>> = (r \o t) \o l
  BY <1>14, NothingAdded
<1>16. ((r \o t) \o l) \o f \in Seq(PieceType)
  BY <1>9, <1>14, ConcatProperties
<1> QED BY <1>11, <1>12, <1>13, <1>15, <1>16

LEMMA ChunkTyped ==
  ASSUME NEW chunk \in Chunk
  PROVE  /\ ChoicesOf(chunk) \in Seq(ChoiceChunk)
         /\ DOMAIN ChoicesOf(chunk) = 1 .. Len(ChoicesOf(chunk))
         /\ Len(ChoicesOf(chunk)) \in Nat
         /\ \A i \in DOMAIN ChoicesOf(chunk) : ChoicesOf(chunk)[i] \in ChoiceChunk
         /\ chunk.usage \in BOOLEAN
<1>1. chunk.choices \in Seq(ChoiceChunk) /\ chunk.usage \in BOOLEAN
  BY DEF Chunk
<1>2. ChoicesOf(chunk) \in Seq(ChoiceChunk)
  BY <1>1, EmptySeq DEF ChoicesOf, If
<1> QED BY <1>1, <1>2, LenProperties, ElementOfSeq

\* Equal readings of the choices are equal readings of the chunk.
LEMMA FlattenTyped ==
  ASSUME NEW X, NEW N \in Nat, NEW ss, DOMAIN ss = 1 .. N,
         ss = [i \in DOMAIN ss |-> ss[i]], \A i \in 1 .. N : ss[i] \in Seq(X)
  PROVE  ss \in Seq(Seq(X)) /\ Len(ss) = N /\ FlattenSeq(ss) \in Seq(X)
<1>1. ss = [i \in 1 .. N |-> ss[i]]
  OBVIOUS
<1>2. [i \in 1 .. N |-> ss[i]] \in Seq(Seq(X))
  BY IsASeq
<1>3. ss \in Seq(Seq(X))
  BY <1>1, <1>2
<1>4. Len(ss) = N
  BY <1>3, LenProperties
<1> QED BY <1>3, <1>4, FlattenType

LEMMA ChunkPiecesRead ==
  ASSUME NEW chunk \in Chunk, NEW n \in 1 .. MaxChunks, extraMap \in BOOLEAN
  PROVE  /\ parseChatCompletionsEvent(chunk, n) \in Seq(SegmentType)
         /\ parseChatCompletionsEvent(chunk, n) # <<>>
         /\ FlatMap(PiecesF, parseChatCompletionsEvent(chunk, n)) = ChunkPieces(chunk, n)
         /\ ChunkPieces(chunk, n) \in Seq(PieceType)
<1> DEFINE choices == ChoicesOf(chunk)
           ss == [i \in DOMAIN choices |-> ChoicePieces(choices[i], n)]
           b == chunk.form = "chunk" /\ chunk.usage
<1>1. /\ DOMAIN choices = 1 .. Len(choices) /\ Len(choices) \in Nat
      /\ \A i \in DOMAIN choices : choices[i] \in ChoiceChunk
      /\ b \in BOOLEAN
  BY ChunkTyped
<1>2. ASSUME NEW kind \in {"unknown", "error", "done"}, NEW data \in Seq(ChoiceChunk)
      PROVE  PiecesF[Raw(kind, n, data)] = <<>>
  BY RawFacts DEF PiecesF, SegmentPieces
<1>3. PiecesF[UsagePart(n)] = <<Piece("usage", None, None, n)>>
  BY UsageFacts, OnePiece DEF PiecesF
<1>4. /\ parseChatCompletionsEvent(chunk, n) \in Seq(SegmentType)
      /\ parseChatCompletionsEvent(chunk, n) # <<>>
      /\ FlatMap(PiecesF, parseChatCompletionsEvent(chunk, n))
           = EventReading(PiecesF, chunk, n)
  BY <1>2, PiecesMaps, EventRead
<1> HIDE DEF choices
<1>5. ss = [i \in DOMAIN choices |-> ChoiceReading(PiecesF, choices[i], n)]
  BY <1>1, ChoicePiecesRead
<1>6. EventReading(PiecesF, chunk, n) = ChunkPieces(chunk, n)
  BY <1>3, <1>5 DEF EventReading, ChunkPieces, choices
<1>7. FlattenSeq(ss) \in Seq(PieceType)
  <2>1. \A i \in 1 .. Len(choices) : ss[i] \in Seq(PieceType)
    BY <1>1, ChoicePiecesRead
  <2>2. DOMAIN ss = 1 .. Len(choices) /\ ss = [i \in DOMAIN ss |-> ss[i]]
    BY <1>1
  <2> HIDE DEF ss
  <2> QED BY <1>1, <2>1, <2>2, FlattenTyped
<1>8. If(b, <<Piece("usage", None, None, n)>>) \in Seq(PieceType)
  <2>1. PiecesF[UsagePart(n)] \in Seq(PieceType)
    BY UsageFacts, PiecesMaps DEF Maps
  <2> QED BY <1>3, <2>1, EmptySeq DEF If
<1>9. ChunkPieces(chunk, n) \in Seq(PieceType)
  <2>1. ChunkPieces(chunk, n)
          = FlattenSeq(ss) \o If(b, <<Piece("usage", None, None, n)>>)
    BY DEF ChunkPieces, choices
  <2> HIDE DEF ss, b
  <2> QED BY <1>7, <1>8, <2>1, ConcatProperties
<1> QED BY <1>4, <1>6, <1>9

\* The calls of a chunk are those of its segments, when it has one delta per
\* call.
OneDelta(chunk) ==
  \A i \in DOMAIN ChoicesOf(chunk) :
    IsInjective([j \in DOMAIN ChoicesOf(chunk)[i].tools |->
                   ChoicesOf(chunk)[i].tools[j].index])

\* A segment that names an index twice.
TwiceF == [s \in SegmentType |-> If(~IsInjective(s.order), <<s>>)]

LEMMA TwiceMaps == Maps(TwiceF, SegmentType, Seq(SegmentType))
<1>1. ASSUME NEW s \in SegmentType
      PROVE  If(~IsInjective(s.order), <<s>>) \in Seq(SegmentType)
  BY EmptySeq DEF If
<1> QED BY <1>1 DEF TwiceF, Maps

LEMMA EmptyOrder ==
  ASSUME NEW s \in SegmentType, s.order = <<>>
  PROVE  ItemsF[s] = <<>> /\ TwiceF[s] = <<>>
<1>1. ItemsOf(s) \in Seq(ItemType) /\ Len(ItemsOf(s)) = 0
  <2>1. Len(s.order) = 0
    BY EmptySeq
  <2> QED BY <2>1, ItemsFacts
<1>2. ItemsOf(s) = <<>>
  BY <1>1, EmptySeq
<1>3. IsInjective(s.order)
  BY EmptySeq, LenProperties DEF IsInjective
<1> QED BY <1>2, <1>3 DEF ItemsF, TwiceF, If

\* A reading that the tool calls alone have something to say to.
ToolsOnly(F) == \A s \in SegmentType : s.order = <<>> => F[s] = <<>>

LEMMA ToolsRead ==
  ASSUME NEW X, NEW F, Maps(F, SegmentType, Seq(X)), ToolsOnly(F),
         NEW c \in ChoiceChunk, NEW n \in 1 .. MaxChunks, extraMap \in BOOLEAN
  PROVE  ChoiceReading(F, c, n) = If(c.tools # <<>>, F[ToolCalls(c, n)])
<1> DEFINE l == If(c.tools # <<>>, F[ToolCalls(c, n)])
<1>1. /\ RolePart(c, n) \in SegmentType /\ ReasoningPart(c, n) \in SegmentType
      /\ ContentPart(c, n) \in SegmentType /\ FinishPart(c, n) \in SegmentType
      /\ ToolCalls(c, n) \in SegmentType /\ Raw("unknown", n, <<>>) \in SegmentType
  BY PartsTyped
<1>2. Raw("unknown", n, <<>>).order = <<>>
  BY RawDelta
<1>3. /\ F[RolePart(c, n)] = <<>> /\ F[ReasoningPart(c, n)] = <<>>
      /\ F[ContentPart(c, n)] = <<>> /\ F[FinishPart(c, n)] = <<>>
      /\ F[Raw("unknown", n, <<>>)] = <<>>
  BY <1>1, <1>2, PartFacts DEF ToolsOnly
<1>4. l \in Seq(X)
  BY <1>1, EmptySeq DEF If, Maps
<1>5. \A b : If(b, <<>>) = <<>>
  BY DEF If
<1>6. ChoiceReading(F, c, n)
        = ((((<<>> \o <<>>) \o <<>>) \o l) \o <<>>) \o <<>>
  BY <1>3, <1>5 DEF ChoiceReading
<1> HIDE DEF l
<1>7. <<>> \o <<>> = <<>> /\ <<>> \o l = l /\ l \o <<>> = l
  BY <1>4, EmptySeq, NothingAdded
<1> QED BY <1>6, <1>7 DEF l

LEMMA ToolsEvent ==
  ASSUME NEW X, NEW F, Maps(F, SegmentType, Seq(X)), ToolsOnly(F),
         NEW chunk \in Chunk, NEW n \in 1 .. MaxChunks, extraMap \in BOOLEAN
  PROVE  FlatMap(F, parseChatCompletionsEvent(chunk, n))
           = FlattenSeq([i \in DOMAIN ChoicesOf(chunk) |->
               If(ChoicesOf(chunk)[i].tools # <<>>,
                  F[ToolCalls(ChoicesOf(chunk)[i], n)])])
<1> DEFINE choices == ChoicesOf(chunk)
           ss == [i \in DOMAIN choices |->
                    If(choices[i].tools # <<>>, F[ToolCalls(choices[i], n)])]
<1>1. /\ DOMAIN choices = 1 .. Len(choices) /\ Len(choices) \in Nat
      /\ \A i \in DOMAIN choices : choices[i] \in ChoiceChunk
  BY ChunkTyped
<1>2. ASSUME NEW kind \in {"unknown", "error", "done"}, NEW data \in Seq(ChoiceChunk)
      PROVE  F[Raw(kind, n, data)] = <<>>
  BY RawFacts DEF ToolsOnly
<1>3. F[UsagePart(n)] = <<>>
  BY UsageFacts DEF ToolsOnly
<1>4. FlatMap(F, parseChatCompletionsEvent(chunk, n)) = EventReading(F, chunk, n)
  BY <1>2, EventRead
<1> HIDE DEF choices
<1>5. ss = [i \in DOMAIN choices |-> ChoiceReading(F, choices[i], n)]
  BY <1>1, ToolsRead
<1>6. EventReading(F, chunk, n) = FlattenSeq(ss) \o <<>>
  <2>1. If(chunk.form = "chunk" /\ chunk.usage, <<>>) = <<>>
    BY DEF If
  <2> QED BY <1>3, <1>5, <2>1 DEF EventReading, choices
<1>7. \A i \in 1 .. Len(choices) : ss[i] \in Seq(X)
  <2>1. ASSUME NEW i \in 1 .. Len(choices) PROVE ss[i] \in Seq(X)
    <3>1. ToolCalls(choices[i], n) \in SegmentType
      BY <1>1, PartsTyped
    <3> QED BY <1>1, <3>1, EmptySeq DEF If, Maps
  <2> QED BY <2>1
<1>8. DOMAIN ss = 1 .. Len(choices) /\ ss = [i \in DOMAIN ss |-> ss[i]]
  BY <1>1
<1> HIDE DEF ss
<1>9. FlattenSeq(ss) \in Seq(X)
  BY <1>1, <1>7, <1>8, FlattenTyped
<1>10. FlattenSeq(ss) \o <<>> = FlattenSeq(ss)
  BY <1>9, NothingAdded
<1> QED BY <1>4, <1>6, <1>10 DEF ss, choices

LEMMA ToolsOnlyReadings == ToolsOnly(ItemsF) /\ ToolsOnly(TwiceF)
BY EmptyOrder DEF ToolsOnly

LEMMA ChunkItemsRead ==
  ASSUME NEW chunk \in Chunk, NEW n \in 1 .. MaxChunks, extraMap \in BOOLEAN,
         OneDelta(chunk)
  PROVE  /\ FlatMap(ItemsF, parseChatCompletionsEvent(chunk, n))
              = UpstreamItems(chunk, n)
         /\ FlatMap(TwiceF, parseChatCompletionsEvent(chunk, n)) = <<>>
<1> DEFINE choices == ChoicesOf(chunk)
           items(i) == If(choices[i].tools # <<>>, ItemsF[ToolCalls(choices[i], n)])
           twice(i) == If(choices[i].tools # <<>>, TwiceF[ToolCalls(choices[i], n)])
<1>1. /\ DOMAIN choices = 1 .. Len(choices) /\ Len(choices) \in Nat
      /\ \A i \in DOMAIN choices : choices[i] \in ChoiceChunk
  BY ChunkTyped
<1>2. FlatMap(ItemsF, parseChatCompletionsEvent(chunk, n))
        = FlattenSeq([i \in DOMAIN choices |-> items(i)])
  BY ItemsMaps, ToolsOnlyReadings, ToolsEvent
<1>3. FlatMap(TwiceF, parseChatCompletionsEvent(chunk, n))
        = FlattenSeq([i \in DOMAIN choices |-> twice(i)])
  BY TwiceMaps, ToolsOnlyReadings, ToolsEvent
<1>4. ASSUME NEW i \in DOMAIN choices
      PROVE  items(i) = ChoiceItems(choices[i], n) /\ twice(i) = <<>>
  <2> DEFINE d == choices[i]
             order == [j \in DOMAIN d.tools |-> d.tools[j].index]
  <2>1. IsInjective(order)
    BY DEF OneDelta
  <2>2. d \in ChoiceChunk
    BY <1>1
  <2> HIDE DEF d
  <2>3. /\ ToolCalls(d, n) \in SegmentType /\ ToolCalls(d, n).order = order
        /\ ItemsOf(ToolCalls(d, n)) = ChoiceItems(d, n)
    BY <2>1, <2>2, ToolCallsFacts
  <2>4. ItemsF[ToolCalls(d, n)] = ChoiceItems(d, n) /\ TwiceF[ToolCalls(d, n)] = <<>>
    BY <2>1, <2>3 DEF ItemsF, TwiceF, If
  <2>5. d.tools = <<>> => ChoiceItems(d, n) = <<>>
    BY DEF ChoiceItems
  <2> QED BY <2>4, <2>5 DEF d, If
<1> HIDE DEF items, twice, choices
<1>5. [i \in DOMAIN choices |-> items(i)]
        = [i \in DOMAIN choices |-> ChoiceItems(choices[i], n)]
  BY <1>4
<1>6. FlatMap(ItemsF, parseChatCompletionsEvent(chunk, n)) = UpstreamItems(chunk, n)
  BY <1>2, <1>5 DEF UpstreamItems, choices
<1>7. FlattenSeq([i \in DOMAIN choices |-> twice(i)]) = <<>>
  <2> DEFINE ss == [i \in DOMAIN choices |-> twice(i)]
  <2>1. \A i \in 1 .. Len(choices) : ss[i] = <<>>
    BY <1>1, <1>4
  <2>2. DOMAIN ss = 1 .. Len(choices) /\ ss = [i \in DOMAIN ss |-> ss[i]]
    BY <1>1
  <2>3. \A i \in 1 .. Len(choices) : ss[i] \in Seq(SegmentType)
    BY <2>1, EmptySeq
  <2> HIDE DEF ss
  <2>4. ss \in Seq(Seq(SegmentType)) /\ Len(ss) = Len(choices)
    BY <1>1, <2>2, <2>3, FlattenTyped
  <2>5. FlattenSeq(ss) = <<>>
    BY <2>1, <2>4, FlattenNone
  <2> QED BY <2>5 DEF ss
<1> QED BY <1>3, <1>6, <1>7

LEMMA UpstreamItemsTyped ==
  ASSUME NEW chunk \in Chunk, NEW n \in 1 .. MaxChunks
  PROVE  UpstreamItems(chunk, n) \in Seq(ItemType)
<1> DEFINE choices == ChoicesOf(chunk)
           ss == [i \in DOMAIN choices |-> ChoiceItems(choices[i], n)]
<1>1. /\ DOMAIN choices = 1 .. Len(choices) /\ Len(choices) \in Nat
      /\ \A i \in DOMAIN choices : choices[i] \in ChoiceChunk
  BY ChunkTyped
<1>2. ASSUME NEW d \in ChoiceChunk PROVE ChoiceItems(d, n) \in Seq(ItemType)
  <2> DEFINE N == Len(d.tools)
             item(j) == [choice |-> d.choice, index |-> d.tools[j].index,
                         id |-> d.tools[j].id, arguments |-> << <<n, j>> >>]
  <2>1. d.tools \in Seq(ToolDelta) /\ d.choice \in ChoiceIndices
    BY DEF ChoiceChunk
  <2>2. N \in Nat /\ DOMAIN d.tools = 1 .. N /\ \A j \in 1 .. N : d.tools[j] \in ToolDelta
    BY <2>1, LenProperties, ElementOfSeq
  <2> HIDE DEF N
  <2>3. ASSUME NEW j \in 1 .. N PROVE item(j) \in ItemType
    <3>1. <<n, j>> \in Fragments
      BY <2>2 DEF Fragments
    <3>2. << <<n, j>> >> \in Seq(Fragments)
      BY <3>1
    <3> QED BY <2>1, <2>2, <3>2 DEF ItemType, ToolDelta
  <2>4. ChoiceItems(d, n) = [j \in 1 .. N |-> item(j)]
    BY <2>2 DEF ChoiceItems
  <2> HIDE DEF item
  <2> QED BY <2>2, <2>3, <2>4, IsASeq
<1> HIDE DEF choices
<1>3. \A i \in 1 .. Len(choices) : ss[i] \in Seq(ItemType)
  BY <1>1, <1>2
<1>4. DOMAIN ss = 1 .. Len(choices) /\ ss = [i \in DOMAIN ss |-> ss[i]]
  BY <1>1
<1>5. UpstreamItems(chunk, n) = FlattenSeq(ss)
  BY DEF UpstreamItems, choices
<1> HIDE DEF ss, ItemType
<1>6. FlattenSeq(ss) \in Seq(ItemType)
  BY <1>1, <1>3, <1>4, FlattenTyped
<1> QED BY <1>5, <1>6

\* Of a choice only the role segment has a role in it.
LEMMA ChoiceRoleRead ==
  ASSUME NEW d \in ChoiceChunk, NEW n \in 1 .. MaxChunks, extraMap \in BOOLEAN,
         NEW c, NEW F \in {RoleF(c), ToldF(c)}
  PROVE  ChoiceReading(F, d, n) = If(NewRole(d) /\ d.choice = c, <<d.role>>)
<1> DEFINE r == If(NewRole(d) /\ d.choice = c, <<d.role>>)
<1>1. /\ RolePart(d, n) \in SegmentType /\ ReasoningPart(d, n) \in SegmentType
      /\ ContentPart(d, n) \in SegmentType /\ FinishPart(d, n) \in SegmentType
      /\ ToolCalls(d, n) \in SegmentType /\ Raw("unknown", n, <<>>) \in SegmentType
  BY PartsTyped
<1>2. /\ Raw("unknown", n, <<>>).kind = "unknown" /\ Raw("unknown", n, <<>>).data = <<>>
      /\ ToolCalls(d, n).kind = "tool"
  BY RawDelta, ToolCallsFacts
<1>3. \A s \in SegmentType : s.kind \notin {"role", "unknown"} => F[s] = <<>>
  BY RoleFacts
<1>4. F[RolePart(d, n)] = If(d.choice = c, <<d.role>>)
  <2>1. /\ RolePart(d, n).kind = "role" /\ RolePart(d, n).choice = d.choice
        /\ RolePart(d, n).field = d.role
    BY PartFacts
  <2> QED BY <1>1, <2>1, RoleFacts DEF If
<1>5. F[Raw("unknown", n, <<>>)] = <<>>
  <2>1. RolesIn(<<>>, c) = <<>>
    BY NoRoles
  <2>2. RoleF(c)[Raw("unknown", n, <<>>)] = <<>>
    BY <1>1, <1>2, RoleFacts
  <2>3. ToldF(c)[Raw("unknown", n, <<>>)] = RolesIn(<<>>, c)
    BY <1>1, <1>2, RoleFacts
  <2> QED BY <2>1, <2>2, <2>3
<1>6. /\ F[ReasoningPart(d, n)] = <<>> /\ F[ContentPart(d, n)] = <<>>
      /\ F[FinishPart(d, n)] = <<>> /\ F[ToolCalls(d, n)] = <<>>
  <2>1. /\ ReasoningPart(d, n).kind = "reasoning" /\ ContentPart(d, n).kind = "content"
        /\ FinishPart(d, n).kind = "finish"
    BY PartFacts
  <2> QED BY <1>1, <1>2, <1>3, <2>1
<1>7. \A b : If(b, <<>>) = <<>>
  BY DEF If
<1>8. If(NewRole(d), If(d.choice = c, <<d.role>>)) = r
  BY DEF If
<1>9. r \in Seq(SegmentFields)
  <2>1. d.role \in SegmentFields
    BY DEF ChoiceChunk, SegmentFields
  <2>2. <<d.role>> \in Seq(SegmentFields)
    BY <2>1
  <2> QED BY <2>2, EmptySeq DEF If
<1> HIDE DEF r
<1>10. ChoiceReading(F, d, n) = ((((r \o <<>>) \o <<>>) \o <<>>) \o <<>>) \o <<>>
  BY <1>4, <1>5, <1>6, <1>7, <1>8 DEF ChoiceReading
<1>11. r \o <<>> = r
  BY <1>9, NothingAdded
<1> QED BY <1>10, <1>11 DEF r

\* The roles in the segments of a chunk: those that are new, and those of a
\* chunk passed on as it is.
NewRolesIn(choices, c) ==
  FlattenSeq([i \in DOMAIN choices |->
                If(NewRole(choices[i]) /\ choices[i].choice = c, <<choices[i].role>>)])

LEMMA EventRolesRead ==
  ASSUME NEW chunk \in Chunk, NEW n \in 1 .. MaxChunks, extraMap \in BOOLEAN, NEW c
  PROVE  LET parse == parseChatCompletionsEvent(chunk, n)
         IN  /\ FlatMap(RoleF(c), parse) = NewRolesIn(ChoicesOf(chunk), c)
             /\ \/ FlatMap(ToldF(c), parse) = FlatMap(RoleF(c), parse)
                \/ /\ FlatMap(RoleF(c), parse) = <<>>
                   /\ FlatMap(ToldF(c), parse) = RolesIn(ChoicesOf(chunk), c)
<1> DEFINE choices == ChoicesOf(chunk)
           N == Len(choices)
           parse == parseChatCompletionsEvent(chunk, n)
           ss == [i \in DOMAIN choices |->
                    If(NewRole(choices[i]) /\ choices[i].choice = c,
                       <<choices[i].role>>)]
<1>1. /\ DOMAIN choices = 1 .. N /\ N \in Nat /\ choices \in Seq(ChoiceChunk)
      /\ \A i \in DOMAIN choices : choices[i] \in ChoiceChunk
  BY ChunkTyped
<1>2. FlattenSeq(ss) = NewRolesIn(choices, c)
  BY DEF NewRolesIn
<1> HIDE DEF choices, N, parse
<1>3. ASSUME NEW i \in 1 .. N PROVE ss[i] \in Seq(SegmentFields)
  <2>1. choices[i].role \in SegmentFields
    BY <1>1 DEF ChoiceChunk, SegmentFields
  <2>2. <<choices[i].role>> \in Seq(SegmentFields)
    BY <2>1
  <2> QED BY <1>1, <2>2, EmptySeq DEF If
<1>4. DOMAIN ss = 1 .. N /\ ss = [i \in DOMAIN ss |-> ss[i]]
  BY <1>1
<1>5. ASSUME NEW F \in {RoleF(c), ToldF(c)}
      PROVE  EventReading(F, chunk, n) = FlattenSeq(ss)
  <2>1. ss = [i \in DOMAIN choices |-> ChoiceReading(F, choices[i], n)]
    BY <1>1, ChoiceRoleRead
  <2>2. F[UsagePart(n)] = <<>>
    BY UsageFacts, RoleFacts
  <2>3. If(chunk.form = "chunk" /\ chunk.usage, <<>>) = <<>>
    BY DEF If
  <2>4. EventReading(F, chunk, n) = FlattenSeq(ss) \o <<>>
    BY <2>1, <2>2, <2>3 DEF EventReading, choices
  <2> HIDE DEF ss
  <2>5. FlattenSeq(ss) \in Seq(SegmentFields)
    BY <1>1, <1>3, <1>4, FlattenTyped
  <2> QED BY <2>4, <2>5, NothingAdded
<1> HIDE DEF ss
<1>6. /\ Maps(RoleF(c), SegmentType, Seq(SegmentFields))
      /\ Maps(ToldF(c), SegmentType, Seq(SegmentFields))
  BY RoleMaps
<1>7. FlatMap(RoleF(c), parse) = FlattenSeq(ss)
  <2>1. ASSUME NEW kind \in {"unknown", "error", "done"}, NEW data \in Seq(ChoiceChunk)
        PROVE  RoleF(c)[Raw(kind, n, data)] = <<>>
    BY RawFacts, RoleFacts
  <2> QED BY <1>5, <1>6, <2>1, EventRead DEF parse
<1>8. ASSUME NEW kind \in {"unknown", "error", "done"}, NEW data \in Seq(ChoiceChunk),
             parse = <<Raw(kind, n, data)>>
      PROVE  /\ FlatMap(RoleF(c), parse) = <<>>
             /\ FlatMap(ToldF(c), parse)
                  = IF kind = "unknown" THEN RolesIn(data, c) ELSE <<>>
  <2>1. /\ Raw(kind, n, data) \in SegmentType /\ Raw(kind, n, data).kind = kind
        /\ Raw(kind, n, data).data = data
    BY RawFacts
  <2>2. /\ FlatMap(RoleF(c), parse) = RoleF(c)[Raw(kind, n, data)]
        /\ FlatMap(ToldF(c), parse) = ToldF(c)[Raw(kind, n, data)]
    BY <1>6, <1>8, RawRead
  <2> QED BY <2>1, <2>2, RoleFacts
<1>9. CASE chunk.form = "chunk" /\ Body(chunk, n) # <<>> /\ parse = Body(chunk, n)
  <2>1. FlatMap(ToldF(c), Body(chunk, n)) = EventReading(ToldF(c), chunk, n)
    BY <1>6, <1>9, BodyRead
  <2>2. FlatMap(ToldF(c), parse) = FlattenSeq(ss)
    BY <1>5, <1>9, <2>1
  <2> QED BY <1>2, <1>7, <2>2 DEF parse, choices
<1>10. CASE /\ chunk.form = "chunk" /\ Body(chunk, n) = <<>>
            /\ parse = <<Raw("unknown", n, choices)>>
  BY <1>1, <1>2, <1>7, <1>8, <1>10 DEF parse, choices
<1>11. CASE /\ chunk.form # "chunk" /\ choices = <<>>
            /\ \E kind \in {"unknown", "error", "done"} : parse = <<Raw(kind, n, <<>>)>>
  <2>1. RolesIn(<<>>, c) = <<>> /\ <<>> \in Seq(ChoiceChunk)
    BY NoRoles
  <2> QED BY <1>2, <1>7, <1>8, <1>11, <2>1 DEF parse, choices
<1>12. \/ chunk.form = "chunk" /\ Body(chunk, n) # <<>> /\ parse = Body(chunk, n)
       \/ /\ chunk.form = "chunk" /\ Body(chunk, n) = <<>>
          /\ parse = <<Raw("unknown", n, choices)>>
       \/ /\ chunk.form # "chunk" /\ choices = <<>>
          /\ \E kind \in {"unknown", "error", "done"} : parse = <<Raw(kind, n, <<>>)>>
  BY EventParsed DEF parse, choices
<1> QED BY <1>9, <1>10, <1>11, <1>12

RolesNext(chunk) ==
  IF chunk.form = "chunk" THEN RolesAfter(chunk) ELSE seenRoles

\* At most one entry of a chunk gives a choice a role, and that is the role the
\* choice has next.
LEMMA RolesSaid ==
  ASSUME NEW chunk \in Chunks, NEW c \in ChoiceIndices
  PROVE  LET choices == ChoicesOf(chunk)
             Says(i) == choices[i].choice = c /\ choices[i].role # None
         IN  \/ /\ \A i \in DOMAIN choices : ~Says(i)
                /\ RolesNext(chunk)[c] = seenRoles[c]
             \/ \E j \in DOMAIN choices :
                  /\ Says(j) /\ RolesNext(chunk)[c] = choices[j].role
                  /\ \A i \in DOMAIN choices : i # j => choices[i].choice # c
<1> DEFINE choices == ChoicesOf(chunk)
           N == Len(choices)
           Says(i) == choices[i].choice = c /\ choices[i].role # None
<1>1. chunk \in Chunk
  BY ParserAssumption
<1>2. DOMAIN choices = 1 .. N /\ N \in Nat
  BY <1>1, ChunkTyped
<1> HIDE DEF choices, N
<1>3. CASE chunk.form # "chunk"
  <2>1. DOMAIN choices = {}
    BY <1>3 DEF ChoicesOf, If, choices
  <2> QED BY <1>3, <2>1 DEF RolesNext, choices
<1>4. CASE chunk.form = "chunk"
  <2> DEFINE Said == {i \in 1 .. N : Says(i)}
             said == SelectLastInSeq(chunk.choices,
                                     LAMBDA d : d.choice = c /\ d.role # None)
  <2>1. chunk.choices = choices
    BY <1>4 DEF ChoicesOf, If, choices
  <2>2. said = IF Said # {} THEN Max(Said) ELSE 0
    BY <2>1 DEF SelectLastInSeq, N
  <2>3. \A i, j \in 1 .. N : choices[i].choice = choices[j].choice => i = j
    <3>1. IsInjective([i \in DOMAIN chunk.choices |-> chunk.choices[i].choice])
      BY ParserAssumption
    <3> QED BY <1>2, <2>1, <3>1 DEF IsInjective
  <2>4. RolesNext(chunk)[c] = IF said = 0 THEN seenRoles[c] ELSE choices[said].role
    BY <1>4, <2>1 DEF RolesNext, RolesAfter
  <2> HIDE DEF said
  <2>5. CASE Said = {}
    <3>1. \A i \in DOMAIN choices : ~Says(i)
      BY <1>2, <2>5
    <3> QED BY <2>2, <2>4, <2>5, <3>1 DEF choices
  <2>6. CASE Said # {}
    <3>1. Said \in SUBSET (1 .. N)
      OBVIOUS
    <3>2. said \in Said
      <4> HIDE DEF Said
      <4>1. Max(Said) \in Said
        BY <1>2, <2>6, <3>1, LastOfMany
      <4> QED BY <2>2, <2>6, <4>1
    <3>3. said \in DOMAIN choices /\ Says(said) /\ said # 0
      BY <1>2, <3>2
    <3>4. \A i \in DOMAIN choices : i # said => choices[i].choice # c
      BY <1>2, <2>3, <3>3
    <3>5. RolesNext(chunk)[c] = choices[said].role
      BY <2>4, <3>3
    <3> QED BY <3>3, <3>4, <3>5 DEF choices
  <2> QED BY <2>5, <2>6
<1> QED BY <1>3, <1>4

\* A chunk gives a choice the role e after l: what upstream sent, what was
\* emitted and what the client is told.
RolesStep(sent, emitted, told, l, e) ==
  IF e # l THEN e # None /\ sent = <<e>> /\ emitted = <<e>> /\ told = <<e>>
           ELSE /\ emitted = <<>>
                /\ e # None \/ (sent = <<>> /\ told = <<>>)
                /\ sent \in {<<>>, <<e>>} /\ told \in {<<>>, <<e>>}

LEMMA RolesRead ==
  ASSUME NEW chunk \in Chunks, NEW n \in 1 .. MaxChunks, extraMap \in BOOLEAN,
         seenRoles \in [ChoiceIndices -> Roles \cup {None}], NEW c \in ChoiceIndices
  PROVE  LET parse == parseChatCompletionsEvent(chunk, n)
         IN  /\ RolesStep(RolesIn(ChoicesOf(chunk), c), FlatMap(RoleF(c), parse),
                          FlatMap(ToldF(c), parse), seenRoles[c], RolesNext(chunk)[c])
             /\ RolesNext(chunk)[c] \in Roles \cup {None}
             /\ RolesNext(chunk) = [x \in ChoiceIndices |-> RolesNext(chunk)[x]]
<1> DEFINE choices == ChoicesOf(chunk)
           N == Len(choices)
           parse == parseChatCompletionsEvent(chunk, n)
           l == seenRoles[c]
           e == RolesNext(chunk)[c]
           sent == RolesIn(choices, c)
           emitted == FlatMap(RoleF(c), parse)
           told == FlatMap(ToldF(c), parse)
           Says(i) == choices[i].choice = c /\ choices[i].role # None
           New(i) == NewRole(choices[i]) /\ choices[i].choice = c
           ss == [i \in DOMAIN choices |-> If(New(i), <<choices[i].role>>)]
<1>1. chunk \in Chunk
  BY ParserAssumption
<1>2. /\ DOMAIN choices = 1 .. N /\ N \in Nat /\ choices \in Seq(ChoiceChunk)
      /\ \A i \in DOMAIN choices : choices[i] \in ChoiceChunk
  BY <1>1, ChunkTyped
<1>3. /\ emitted = FlattenSeq(ss)
      /\ told = emitted \/ (emitted = <<>> /\ told = sent)
  BY <1>1, EventRolesRead DEF NewRolesIn
<1>4. \/ (\A i \in DOMAIN choices : ~Says(i)) /\ e = l
      \/ \E j \in DOMAIN choices :
           /\ Says(j) /\ e = choices[j].role
           /\ \A i \in DOMAIN choices : i # j => choices[i].choice # c
  BY RolesSaid
<1>5. RolesNext(chunk) = [x \in ChoiceIndices |-> RolesNext(chunk)[x]]
  BY DEF RolesNext, RolesAfter
<1> HIDE DEF choices, N, parse, e, emitted, told
<1>6. ss \in Seq(Seq(SegmentFields)) /\ Len(ss) = N
  <2>1. ASSUME NEW i \in 1 .. N PROVE ss[i] \in Seq(SegmentFields)
    <3>1. choices[i].role \in SegmentFields
      BY <1>2 DEF ChoiceChunk, SegmentFields
    <3>2. <<choices[i].role>> \in Seq(SegmentFields)
      BY <3>1
    <3> QED BY <1>2, <3>2, EmptySeq DEF If
  <2>2. DOMAIN ss = 1 .. N /\ ss = [i \in DOMAIN ss |-> ss[i]]
    BY <1>2
  <2> HIDE DEF ss
  <2> QED BY <1>2, <2>1, <2>2, FlattenTyped
<1>7. \A i \in 1 .. N : ss[i] = IF New(i) THEN <<choices[i].role>> ELSE <<>>
  BY <1>2 DEF If
<1>8. \A i \in 1 .. N : New(i) <=> Says(i) /\ choices[i].role # l
  BY DEF NewRole
<1> HIDE DEF ss, New
<1>9. ASSUME \A i \in DOMAIN choices : ~Says(i), e = l
      PROVE  RolesStep(sent, emitted, told, l, e) /\ e \in Roles \cup {None}
  <2>1. \A i \in 1 .. Len(ss) : ss[i] = <<>>
    BY <1>2, <1>6, <1>7, <1>8, <1>9
  <2>2. emitted = <<>>
    BY <1>3, <1>6, <2>1, FlattenNone
  <2>3. sent = <<>>
    BY <1>2, <1>9, RolesInTyped
  <2> QED BY <1>3, <1>9, <2>2, <2>3 DEF RolesStep
<1>10. ASSUME NEW j \in DOMAIN choices, Says(j), e = choices[j].role,
              \A i \in DOMAIN choices : i # j => choices[i].choice # c
       PROVE  RolesStep(sent, emitted, told, l, e) /\ e \in Roles \cup {None}
  <2>1. e \in Roles \cup {None} /\ e # None /\ j \in 1 .. Len(ss)
    BY <1>2, <1>6, <1>10 DEF ChoiceChunk
  <2>2. sent = <<e>>
    BY <1>2, <1>10, RolesInTyped
  <2>3. \A i \in 1 .. Len(ss) : i # j => ss[i] = <<>>
    BY <1>2, <1>6, <1>7, <1>8, <1>10
  <2>4. emitted = ss[j]
    BY <1>3, <1>6, <2>1, <2>3, FlattenSingle
  <2>5. emitted = IF e # l THEN <<e>> ELSE <<>>
    BY <1>2, <1>7, <1>8, <1>10, <2>4
  <2>6. <<e>> # <<>>
    OBVIOUS
  <2> HIDE DEF l, sent
  <2> QED BY <1>3, <2>1, <2>2, <2>5, <2>6 DEF RolesStep
<1> QED BY <1>4, <1>5, <1>9, <1>10 DEF choices, parse, e, emitted, told

-----------------------------------------------------------------------------
\* What a client puts together: where an index stands for one call, a call
\* with the id that any of its items has and with all their arguments.
OneName(items) ==
  \A c \in ChoiceIndices, i \in ToolIndices : \A x, y \in Names(items, c, i) :
    None \in {x, y} \/ x = y

IdOf(names) == IF names \subseteq {None} THEN None
                                         ELSE CHOOSE x \in names : x # None

CallOf(names, arguments) ==
  IF names = {} THEN <<>> ELSE <<[id |-> IdOf(names), arguments |-> arguments]>>

LEMMA OneMoreName ==
  ASSUME NEW N, NEW a, \A x, y \in N \cup {None, a} : None \in {x, y} \/ x = y
  PROVE  /\ IdOf({None, a}) = a
         /\ None \in {IdOf(N), a} \/ IdOf(N) = a
         /\ IdOf(N \cup {None, a}) = IF IdOf(N) = None THEN a ELSE IdOf(N)
<1> DEFINE M == N \cup {None, a}
<1>1. ASSUME NEW P, ~(P \subseteq {None}) PROVE IdOf(P) \in P /\ IdOf(P) # None
  <2>1. \E x \in P : x # None
    BY <1>1
  <2> QED BY <1>1, <2>1 DEF IdOf
<1>2. ASSUME NEW P, P \subseteq {None} PROVE IdOf(P) = None
  BY <1>2 DEF IdOf
<1>3. IdOf({None, a}) = a
  <2>1. CASE a = None
    BY <1>2, <2>1
  <2>2. CASE a # None
    <3>1. ~({None, a} \subseteq {None})
      BY <2>2
    <3> QED BY <1>1, <3>1
  <2> QED BY <2>1, <2>2
<1>4. CASE N \subseteq {None}
  <2>1. IdOf(N) = None /\ M = {None, a}
    BY <1>2, <1>4
  <2> QED BY <1>3, <2>1
<1>5. CASE ~(N \subseteq {None})
  <2>1. IdOf(N) \in N /\ IdOf(N) # None
    BY <1>1, <1>5
  <2>2. ~(M \subseteq {None})
    BY <1>5
  <2>3. IdOf(M) \in M /\ IdOf(M) # None
    BY <1>1, <2>2
  <2>4. IdOf(N) \in M /\ a \in M
    BY <2>1
  <2> HIDE DEF M
  <2>5. IdOf(M) = IdOf(N)
    BY <2>1, <2>3, <2>4 DEF M
  <2>6. None \in {IdOf(N), a} \/ IdOf(N) = a
    BY <2>4 DEF M
  <2> QED BY <1>3, <2>1, <2>5, <2>6 DEF M
<1> QED BY <1>4, <1>5

\* A client with this call gets one more item of it.
HasCall(calls, item, N, arguments) ==
  /\ item \in ItemType /\ arguments \in Seq(Fragments)
  /\ calls[<<item.choice, item.index>>] = CallOf(N, arguments)
  /\ N = {} => arguments = <<>>
  /\ \A x, y \in N \cup {None, item.id} : None \in {x, y} \/ x = y

LEMMA DeliverOne ==
  ASSUME NEW calls, NEW item, NEW N, NEW arguments,
         HasCall(calls, item, N, arguments)
  PROVE  Deliver(calls, item)
           = [calls EXCEPT ![<<item.choice, item.index>>] =
                CallOf(N \cup {None, item.id}, arguments \o item.arguments)]
<1> DEFINE key == <<item.choice, item.index>>
           M == N \cup {None, item.id}
           all == arguments \o item.arguments
           e == [id |-> IdOf(N), arguments |-> arguments]
<1> USE DEF HasCall
<1>1. /\ IdOf({None, item.id}) = item.id
      /\ None \in {IdOf(N), item.id} \/ IdOf(N) = item.id
      /\ IdOf(M) = IF IdOf(N) = None THEN item.id ELSE IdOf(N)
  BY OneMoreName
<1>2. CallOf(M, all) = <<[id |-> IdOf(M), arguments |-> all]>>
  BY DEF CallOf
<1>3. item.arguments \in Seq(Fragments)
  BY DEF ItemType
<1>4. CASE N = {}
  <2>1. calls[key] = <<>> /\ arguments = <<>>
    BY <1>4 DEF CallOf
  <2>2. all = item.arguments
    BY <1>3, <2>1, NothingAdded
  <2>3. Deliver(calls, item)
          = [calls EXCEPT ![key] = Append(<<>>, [id |-> item.id,
                                                 arguments |-> item.arguments])]
    BY <2>1 DEF Deliver
  <2>4. ASSUME NEW r PROVE Append(<<>>, r) = <<r>>
    OBVIOUS
  <2>5. IdOf(M) = item.id
    BY <1>1, <1>4
  <2> HIDE DEF M, all, key
  <2> QED BY <1>2, <2>2, <2>3, <2>4, <2>5 DEF M, all, key
<1>5. CASE N # {}
  <2>1. calls[key] = <<e>>
    BY <1>5 DEF CallOf
  <2>2. <<e>> # <<>> /\ Last(<<e>>) = e /\ Front(<<e>>) = <<>>
    <3> HIDE DEF e
    <3>1. <<e>> \in Seq({e}) /\ Len(<<e>>) = 1 /\ <<e>>[1] = e
      OBVIOUS
    <3>2. SubSeq(<<e>>, 1, 0) = <<>>
      BY SubSeqEmpty
    <3>3. Len(<<e>>) - 1 = 0
      OBVIOUS
    <3>4. Front(<<e>>) = <<>>
      BY <3>2, <3>3 DEF Front
    <3> QED BY <3>1, <3>4 DEF Last
  <2>3. e.id = IdOf(N) /\ e.arguments = arguments
    OBVIOUS
  <2> HIDE DEF e
  <2>4. Deliver(calls, item)
          = [calls EXCEPT ![key] =
               Append(<<>>, [id |-> IF e.id = None THEN item.id ELSE e.id,
                             arguments |-> e.arguments \o item.arguments])]
    BY <1>1, <2>1, <2>2, <2>3 DEF Deliver
  <2>5. ASSUME NEW r PROVE Append(<<>>, r) = <<r>>
    OBVIOUS
  <2>6. [id |-> IF e.id = None THEN item.id ELSE e.id,
         arguments |-> e.arguments \o item.arguments]
          = [id |-> IdOf(M), arguments |-> all]
    BY <1>1, <2>3
  <2> HIDE DEF M, all, key
  <2> QED BY <1>2, <2>4, <2>5, <2>6 DEF M, all, key
<1> QED BY <1>4, <1>5

\* The ids and the arguments of a call, item by item.
For(item, c, i) == item.choice = c /\ item.index = i

NamesTo(items, k, c, i) ==
  UNION {{None, items[j].id} : j \in {j \in 1 .. k : For(items[j], c, i)}}

LEMMA NamesSteps ==
  ASSUME NEW items \in Seq(ItemType), NEW c, NEW i
  PROVE  /\ NamesTo(items, 0, c, i) = {}
         /\ \A k \in Nat :
              NamesTo(items, k + 1, c, i)
                = IF For(items[k + 1], c, i)
                    THEN NamesTo(items, k, c, i) \cup {None, items[k + 1].id}
                    ELSE NamesTo(items, k, c, i)
         /\ NamesTo(items, Len(items), c, i) = Names(items, c, i)
         /\ \A k \in Nat : k <= Len(items) =>
              NamesTo(items, k, c, i) \subseteq Names(items, c, i)
<1> DEFINE n == Len(items)
           Those(k) == {j \in 1 .. k : For(items[j], c, i)}
<1>1. n \in Nat /\ DOMAIN items = 1 .. n
  BY LenProperties
<1>2. NamesTo(items, 0, c, i) = {}
  <2>1. Those(0) = {}
    OBVIOUS
  <2> QED BY <2>1 DEF NamesTo
<1>3. ASSUME NEW k \in Nat
      PROVE  NamesTo(items, k + 1, c, i)
               = IF For(items[k + 1], c, i)
                   THEN NamesTo(items, k, c, i) \cup {None, items[k + 1].id}
                   ELSE NamesTo(items, k, c, i)
  <2>1. \A j : j \in 1 .. k + 1 <=> j \in 1 .. k \/ j = k + 1
    OBVIOUS
  <2>2. Those(k + 1) = IF For(items[k + 1], c, i) THEN Those(k) \cup {k + 1}
                                                  ELSE Those(k)
    BY <2>1
  <2>3. \A m : NamesTo(items, m, c, i) = UNION {{None, items[j].id} : j \in Those(m)}
    BY DEF NamesTo
  <2> DEFINE names(J) == UNION {{None, items[j].id} : j \in J}
  <2>4. ASSUME NEW J PROVE names(J \cup {k + 1}) = names(J) \cup {None, items[k + 1].id}
    OBVIOUS
  <2>5. \A m : NamesTo(items, m, c, i) = names(Those(m))
    BY <2>3
  <2> HIDE DEF Those, names
  <2> QED BY <2>2, <2>4, <2>5
<1>4. ItemsFor(items, c, i) = {items[j] : j \in Those(n)}
  BY <1>1 DEF ItemsFor, ToSet, For
<1>5. NamesTo(items, n, c, i) = Names(items, c, i)
  <2>1. NamesTo(items, n, c, i) = UNION {{None, items[j].id} : j \in Those(n)}
    BY DEF NamesTo
  <2> HIDE DEF Those
  <2> QED BY <1>4, <2>1 DEF Names
<1>6. ASSUME NEW k \in Nat, k <= n
      PROVE  NamesTo(items, k, c, i) \subseteq NamesTo(items, n, c, i)
  <2>1. 1 .. k \subseteq 1 .. n
    BY <1>1, <1>6
  <2>2. Those(k) \subseteq Those(n)
    BY <2>1
  <2>3. \A m : NamesTo(items, m, c, i) = UNION {{None, items[j].id} : j \in Those(m)}
    BY DEF NamesTo
  <2> HIDE DEF Those
  <2> QED BY <2>2, <2>3
<1> QED BY <1>2, <1>3, <1>5, <1>6

ArgumentSteps(g, items, c, i) ==
  /\ g \in [0 .. Len(items) -> Seq(Fragments)]
  /\ g[0] = <<>>
  /\ \A k \in 1 .. Len(items) :
       g[k] = IF For(items[k], c, i) THEN g[k - 1] \o items[k].arguments
                                     ELSE g[k - 1]
  /\ g[Len(items)] = ArgumentsOf(items, c, i)

LEMMA ArgumentsInSteps ==
  ASSUME NEW items \in Seq(ItemType), NEW c, NEW i
  PROVE  \E g : ArgumentSteps(g, items, c, i)
<1> DEFINE n == Len(items)
           F == ArgumentsF(c, i)
           ss == Mapped(F, items)
<1>1. n \in Nat /\ \A k \in 1 .. n : items[k] \in ItemType
  BY LenProperties, ElementOfSeq
<1>2. ArgumentsOf(items, c, i) = FlattenSeq(ss)
  BY ArgumentsRead DEF FlatMap
<1>3. ss \in Seq(Seq(Fragments)) /\ Len(ss) = n /\ \A k \in 1 .. n : ss[k] = F[items[k]]
  BY ArgumentsMaps, MappedType
<1> HIDE DEF ss, n
<1>4. PICK g \in [0 .. Len(ss) -> Seq(Fragments)] :
        /\ g[0] = <<>>
        /\ \A k \in 1 .. Len(ss) : g[k] = g[k - 1] \o ss[k]
        /\ FlattenSeq(ss) = g[Len(ss)]
  BY <1>3, FlattenSteps
<1>5. ASSUME NEW k \in 1 .. n
      PROVE  g[k] = IF For(items[k], c, i) THEN g[k - 1] \o items[k].arguments
                                           ELSE g[k - 1]
  <2>1. g[k] = g[k - 1] \o ss[k] /\ g[k - 1] \in Seq(Fragments)
    <3>1. k - 1 \in 0 .. n
      BY <1>1
    <3> QED BY <1>3, <1>4, <3>1
  <2>2. ss[k] = IF For(items[k], c, i) THEN items[k].arguments ELSE <<>>
    BY <1>1, <1>3 DEF ArgumentsF, If, For
  <2>3. g[k - 1] \o <<>> = g[k - 1]
    BY <2>1, NothingAdded
  <2> QED BY <2>1, <2>2, <2>3
<1>6. /\ g \in [0 .. n -> Seq(Fragments)] /\ g[0] = <<>>
      /\ g[n] = ArgumentsOf(items, c, i)
  BY <1>2, <1>3, <1>4
<1>7. ArgumentSteps(g, items, c, i)
  BY <1>5, <1>6 DEF ArgumentSteps, n
<1> QED BY <1>7

ClosedDelivery(items) ==
  [key \in ChoiceIndices \X ToolIndices |->
     CallOf(Names(items, key[1], key[2]), ArgumentsOf(items, key[1], key[2]))]

LEMMA DeliveredClosed ==
  ASSUME NEW items \in Seq(ItemType), OneName(items)
  PROVE  Delivered(items) = ClosedDelivery(items)
<1> DEFINE n == Len(items)
           Keys == ChoiceIndices \X ToolIndices
           names(k, key) == NamesTo(items, k, key[1], key[2])
           G == [key \in Keys |-> CHOOSE g : ArgumentSteps(g, items, key[1], key[2])]
           state(k) == [key \in Keys |-> CallOf(names(k, key), G[key][k])]
<1>1. n \in Nat /\ \A k \in 1 .. n : items[k] \in ItemType
  BY LenProperties, ElementOfSeq
<1>2. ASSUME NEW key \in Keys
      PROVE  ArgumentSteps(G[key], items, key[1], key[2])
  BY ArgumentsInSteps
<1> HIDE DEF G
<1>3. ASSUME NEW key \in Keys
      PROVE  /\ G[key] \in [0 .. n -> Seq(Fragments)] /\ G[key][0] = <<>>
             /\ \A k \in 1 .. n :
                  G[key][k] = IF For(items[k], key[1], key[2])
                                THEN G[key][k - 1] \o items[k].arguments
                                ELSE G[key][k - 1]
             /\ G[key][n] = ArgumentsOf(items, key[1], key[2])
  BY <1>2 DEF ArgumentSteps
<1>4. ASSUME NEW key \in Keys
      PROVE  /\ names(0, key) = {}
             /\ \A k \in Nat :
                  names(k + 1, key)
                    = IF For(items[k + 1], key[1], key[2])
                        THEN names(k, key) \cup {None, items[k + 1].id}
                        ELSE names(k, key)
             /\ names(n, key) = Names(items, key[1], key[2])
             /\ \A k \in Nat : k <= n => names(k, key) \subseteq Names(items, key[1], key[2])
  BY NamesSteps
<1> HIDE DEF n, names
<1>5. ASSUME NEW key \in Keys, NEW k \in Nat, k <= n, names(k, key) = {}
      PROVE  G[key][k] = <<>>
  <2> DEFINE T == {m \in Nat : m <= n /\ names(m, key) = {} => G[key][m] = <<>>}
  <2>1. 0 \in T
    BY <1>3
  <2>2. ASSUME NEW m \in Nat, m \in T PROVE m + 1 \in T
    <3>1. SUFFICES ASSUME m + 1 <= n, names(m + 1, key) = {}
                   PROVE  G[key][m + 1] = <<>>
      OBVIOUS
    <3>2. m + 1 \in 1 .. n /\ m <= n /\ (m + 1) - 1 = m
      BY <1>1, <3>1
    <3>3. ~For(items[m + 1], key[1], key[2]) /\ names(m, key) = {}
      BY <1>4, <3>1
    <3>4. G[key][m] = <<>>
      BY <2>2, <3>2, <3>3
    <3> HIDE DEF T
    <3> QED BY <1>3, <3>2, <3>3, <3>4
  <2>3. k \in T
    <3> HIDE DEF T
    <3> QED BY <2>1, <2>2, NatInductionSet
  <2> QED BY <1>5, <2>3
<1>6. state(0) = [key \in Keys |-> <<>>]
  BY <1>4 DEF CallOf
<1>7. ASSUME NEW k \in Nat, k + 1 <= n
      PROVE  state(k + 1) = Deliver(state(k), items[k + 1])
  <2> DEFINE item == items[k + 1]
             own == <<item.choice, item.index>>
             N == names(k, own)
             arguments == G[own][k]
  <2>1. k + 1 \in 1 .. n /\ k \in 0 .. n /\ k <= n /\ (k + 1) - 1 = k
    BY <1>1, <1>7
  <2>2. item \in ItemType
    BY <1>1, <2>1
  <2> HIDE DEF item
  <2>3. own \in Keys /\ own[1] = item.choice /\ own[2] = item.index
    BY <2>2 DEF ItemType
  <2>4. For(item, own[1], own[2])
    BY <2>3 DEF For
  <2>5. ASSUME NEW key \in Keys, key # own PROVE ~For(item, key[1], key[2])
    <3>1. key = <<key[1], key[2]>>
      OBVIOUS
    <3> QED BY <2>5, <3>1 DEF For
  <2>6. ASSUME NEW key \in Keys, key # own
        PROVE  names(k + 1, key) = names(k, key) /\ G[key][k + 1] = G[key][k]
    BY <1>3, <1>4, <2>1, <2>5, <2>6 DEF item
  <2> HIDE DEF own
  <2>7. /\ names(k + 1, own) = N \cup {None, item.id}
        /\ G[own][k + 1] = arguments \o item.arguments
        /\ arguments \in Seq(Fragments)
    BY <1>3, <1>4, <2>1, <2>3, <2>4 DEF item
  <2>8. N = {} => arguments = <<>>
    BY <1>5, <2>1, <2>3
  <2>9. \A x, y \in N \cup {None, item.id} : None \in {x, y} \/ x = y
    <3>1. names(k + 1, own) \subseteq Names(items, own[1], own[2])
      BY <1>4, <1>7, <2>3
    <3>2. own[1] \in ChoiceIndices /\ own[2] \in ToolIndices
      BY <2>3
    <3>3. \A x, y \in Names(items, own[1], own[2]) : None \in {x, y} \/ x = y
      BY <3>2 DEF OneName
    <3> QED BY <2>7, <3>1, <3>3
  <2> DEFINE calls == state(k)
  <2>10. DOMAIN calls = Keys /\ calls[own] = CallOf(N, arguments)
    BY <2>3
  <2> HIDE DEF N, arguments, calls
  <2>11. Deliver(calls, item)
           = [calls EXCEPT ![own] =
                CallOf(N \cup {None, item.id}, arguments \o item.arguments)]
    <3>1. HasCall(calls, item, N, arguments)
      BY <2>2, <2>7, <2>8, <2>9, <2>10 DEF HasCall, own
    <3>2. Deliver(calls, item)
            = [calls EXCEPT ![<<item.choice, item.index>>] =
                 CallOf(N \cup {None, item.id}, arguments \o item.arguments)]
      BY <3>1, DeliverOne, ZenonT(30)
    <3> QED BY <3>2 DEF own
  <2>12. ASSUME NEW key \in Keys
         PROVE  state(k + 1)[key]
                  = IF key = own
                      THEN CallOf(N \cup {None, item.id}, arguments \o item.arguments)
                      ELSE calls[key]
    <3>1. CASE key = own
      <4>1. state(k + 1)[own] = CallOf(names(k + 1, own), G[own][k + 1])
        BY <2>3
      <4> QED BY <2>7, <3>1, <4>1
    <3>2. CASE key # own
      <4>1. state(k + 1)[key] = CallOf(names(k + 1, key), G[key][k + 1])
        OBVIOUS
      <4>2. calls[key] = CallOf(names(k, key), G[key][k])
        BY DEF calls
      <4> QED BY <2>6, <3>2, <4>1, <4>2
    <3> QED BY <3>1, <3>2
  <2>13. state(k + 1) = [key \in Keys |-> state(k + 1)[key]]
    OBVIOUS
  <2>14. calls = [key \in Keys |-> calls[key]]
    BY DEF calls
  <2> DEFINE next == state(k + 1)
             call == CallOf(N \cup {None, item.id}, arguments \o item.arguments)
  <2> HIDE DEF state, Keys, call, next
  <2>15. next = [calls EXCEPT ![own] = call]
    <3>1. \A key \in Keys : next[key] = IF key = own THEN call ELSE calls[key]
      BY <2>12 DEF next, call
    <3>2. next = [key \in Keys |-> next[key]]
      BY <2>13 DEF next
    <3> QED BY <2>3, <2>14, <3>1, <3>2
  <2> QED BY <2>11, <2>15 DEF item, calls, next, call
<1>8. Delivered(items) = state(n)
  <2> DEFINE base == [key \in Keys |-> <<>>]
             Value(g, k) == IF k = 0 THEN base ELSE Deliver(g[k - 1], items[k])
             Equation(g) == g = [k \in 0 .. n |-> Value(g, k)]
             delivered == CHOOSE g : Equation(g)
  <2>1. Delivered(items) = delivered[n]
    BY DEF Delivered, n
  <2> DEFINE f == [k \in 0 .. n |-> state(k)]
  <2>2. Equation(f)
    <3>1. ASSUME NEW k \in 0 .. n PROVE f[k] = Value(f, k)
      <4>1. CASE k = 0
        BY <1>6, <4>1
      <4>2. CASE k # 0
        <5>1. k - 1 \in Nat /\ (k - 1) + 1 = k /\ k <= n /\ k - 1 \in 0 .. n
          BY <1>1, <4>2
        <5>2. state(k) = Deliver(state(k - 1), items[k])
          <6> HIDE DEF state
          <6> QED BY <1>7, <5>1
        <5> HIDE DEF state
        <5> QED BY <4>2, <5>1, <5>2
      <4> QED BY <4>1, <4>2
    <3>2. f = [k \in 0 .. n |-> f[k]]
      OBVIOUS
    <3> HIDE DEF Value, f
    <3> QED BY <3>1, <3>2
  <2> HIDE DEF state
  <2>3. Equation(delivered)
    <3> HIDE DEF Equation
    <3>1. \E g : Equation(g)
      BY <2>2
    <3> QED BY <3>1
  <2>4. delivered = [k \in 0 .. n |-> Value(delivered, k)]
    <3> HIDE DEF delivered
    <3> QED BY <2>3
  <2> HIDE DEF delivered, Equation, f
  <2> DEFINE T == {k \in Nat : k <= n => delivered[k] = state(k)}
  <2>5. 0 \in T
    <3>1. delivered[0] = base
      BY <1>1, <2>4
    <3> QED BY <1>6, <3>1
  <2>6. ASSUME NEW k \in Nat, k \in T PROVE k + 1 \in T
    <3>1. SUFFICES ASSUME k + 1 <= n PROVE delivered[k + 1] = state(k + 1)
      OBVIOUS
    <3>2. k + 1 \in 0 .. n /\ k <= n /\ (k + 1) - 1 = k /\ k + 1 # 0
      BY <1>1, <3>1
    <3>3. delivered[k] = state(k)
      BY <2>6, <3>2
    <3> HIDE DEF T
    <3>4. delivered[k + 1] = Deliver(delivered[k], items[k + 1])
      BY <2>4, <3>2
    <3> QED BY <1>7, <3>1, <3>3, <3>4
  <2>7. n \in T
    <3> HIDE DEF T
    <3> QED BY <1>1, <2>5, <2>6, NatInductionSet
  <2>8. n <= n
    BY <1>1
  <2> QED BY <2>1, <2>7, <2>8
<1>9. state(n) = ClosedDelivery(items)
  BY <1>3, <1>4 DEF ClosedDelivery
<1> QED BY <1>8, <1>9

-----------------------------------------------------------------------------
\* Sequences that are cut and put together again.
LEMMA FrontAndLast ==
  ASSUME NEW S, NEW s \in Seq(S), s # <<>>
  PROVE  /\ Front(s) \in Seq(S) /\ Last(s) \in S /\ s = Append(Front(s), Last(s))
         /\ Len(s) = Len(Front(s)) + 1 /\ Front(s) \o <<Last(s)>> = s
<1> DEFINE n == Len(s)
           f == Front(s)
           e == Last(s)
<1>1. n \in Nat /\ n # 0 /\ \A i \in 1 .. n : s[i] \in S
  BY EmptySeq, LenProperties, ElementOfSeq
<1>2. /\ f \in Seq(S) /\ Len(f) = n - 1 /\ \A i \in 1 .. n - 1 : f[i] = s[i]
  <2>1. \A i \in 1 .. n - 1 : s[i] \in S
    BY <1>1
  <2> HIDE DEF n
  <2>2. /\ SubSeq(s, 1, n - 1) \in Seq(S)
        /\ Len(SubSeq(s, 1, n - 1)) = IF 1 <= n - 1 THEN n - 1 - 1 + 1 ELSE 0
        /\ \A i \in 1 .. n - 1 - 1 + 1 : SubSeq(s, 1, n - 1)[i] = s[1 + i - 1]
    BY <1>1, <2>1, SubSeqProperties
  <2>3. f = SubSeq(s, 1, n - 1)
    BY DEF Front, n
  <2> HIDE DEF f
  <2> QED BY <1>1, <2>2, <2>3
<1>3. e \in S /\ e = s[n]
  BY <1>1 DEF Last
<1> HIDE DEF n, f, e
<1>4. /\ Append(f, e) \in Seq(S) /\ Len(Append(f, e)) = Len(f) + 1
      /\ (\A i \in 1 .. Len(f) : Append(f, e)[i] = f[i])
      /\ Append(f, e)[Len(f) + 1] = e
  BY <1>2, <1>3, AppendProperties
<1>5. \A i \in 1 .. n : i \in 1 .. n - 1 \/ i = n
  BY <1>1
<1>6. \A i \in 1 .. n : s[i] = Append(f, e)[i]
  BY <1>1, <1>2, <1>3, <1>4, <1>5
<1>7. s = Append(f, e)
  <2>1. Len(s) = Len(Append(f, e)) /\ \A i \in 1 .. Len(s) : s[i] = Append(f, e)[i]
    BY <1>1, <1>2, <1>4, <1>6 DEF n
  <2> QED BY <1>4, <2>1, SeqEqual
<1>8. f \o <<e>> = s
  BY <1>2, <1>3, <1>7, AppendIsConcat
<1>9. Len(s) = Len(f) + 1
  BY <1>1, <1>2 DEF n
<1> QED BY <1>2, <1>3, <1>7, <1>8, <1>9 DEF f, e

LEMMA FrontOfAppend ==
  ASSUME NEW S, NEW s \in Seq(S), NEW e \in S
  PROVE  Front(Append(s, e)) = s /\ Last(Append(s, e)) = e
<1> DEFINE a == Append(s, e)
<1>1. a \in Seq(S) /\ a # <<>>
  BY AppendProperties
<1> HIDE DEF a
<1>2. Front(a) \in Seq(S) /\ Last(a) \in S /\ a = Append(Front(a), Last(a))
  BY <1>1, FrontAndLast
<1>3. Append(Front(a), Last(a)) = Append(s, e)
  BY <1>2 DEF a
<1> QED BY <1>2, <1>3, AppendInjective DEF a

LEMMA HeadAndTail ==
  ASSUME NEW S, NEW s \in Seq(S), s # <<>>
  PROVE  Head(s) \in S /\ Tail(s) \in Seq(S) /\ s = <<Head(s)>> \o Tail(s)
<1> DEFINE n == Len(s)
           h == Head(s)
           t == Tail(s)
           ht == <<h>> \o t
<1>1. h \in S /\ t \in Seq(S) /\ Len(t) = n - 1 /\ \A i \in 1 .. n - 1 : t[i] = s[i + 1]
  BY HeadTailProperties
<1>2. n \in Nat /\ n # 0 /\ h = s[1]
  BY EmptySeq, LenProperties
<1> HIDE DEF h, t
<1>3. <<h>> \in Seq(S) /\ Len(<<h>>) = 1 /\ <<h>>[1] = h
  BY <1>1
<1> DEFINE one == <<h>>
<1> HIDE DEF one, n
<1>4. /\ one \o t \in Seq(S) /\ Len(one \o t) = Len(one) + Len(t)
      /\ \A i \in 1 .. Len(one) + Len(t) :
           (one \o t)[i] = IF i <= Len(one) THEN one[i] ELSE t[i - Len(one)]
  BY <1>1, <1>3, ConcatProperties DEF one
<1>5. Len(one) = 1 /\ one[1] = h
  BY <1>3 DEF one
<1>6. ASSUME NEW i \in 1 .. n PROVE s[i] = (one \o t)[i]
  <2>1. CASE i = 1
    BY <1>1, <1>2, <1>4, <1>5, <2>1
  <2>2. CASE i # 1
    <3>1. i - 1 \in 1 .. n - 1 /\ ~(i <= 1) /\ (i - 1) + 1 = i /\ i \in 1 .. 1 + (n - 1)
      BY <1>2, <2>2
    <3> QED BY <1>1, <1>4, <1>5, <3>1
  <2> QED BY <2>1, <2>2
<1>7. Len(s) = Len(one \o t) /\ \A i \in 1 .. Len(s) : s[i] = (one \o t)[i]
  BY <1>1, <1>2, <1>4, <1>5, <1>6 DEF n
<1>8. s = one \o t
  BY <1>4, <1>7, SeqEqual
<1> QED BY <1>1, <1>8 DEF one, h, t

\* The first of the later part becomes the last of the earlier one.
LEMMA MovesOn ==
  ASSUME NEW S, NEW a \in Seq(S), NEW b \in Seq(S), b # <<>>
  PROVE  Append(a, Head(b)) \o Tail(b) = a \o b
<1> DEFINE h == Head(b)
           t == Tail(b)
<1>1. h \in S /\ t \in Seq(S) /\ b = <<h>> \o t
  BY HeadAndTail
<1> HIDE DEF h, t
<1>2. Append(a, h) = a \o <<h>> /\ <<h>> \in Seq(S)
  BY <1>1, AppendIsConcat
<1>3. (a \o <<h>>) \o t = a \o (<<h>> \o t)
  BY <1>1, <1>2, ConcatAssociative
<1> QED BY <1>1, <1>2, <1>3 DEF h, t

\* What is read of two neighbours, and of one in their place.
Row(F, X, a, s, t, m, b) ==
  /\ Maps(F, SegmentType, Seq(X))
  /\ a \in Seq(SegmentType) /\ b \in Seq(SegmentType)
  /\ s \in SegmentType /\ t \in SegmentType /\ m \in SegmentType

RowRead(F, X, a, s, t, m, b) ==
  /\ FlatMap(F, (a \o <<s>>) \o (<<t>> \o b))
       = (FlatMap(F, a) \o F[s]) \o (F[t] \o FlatMap(F, b))
  /\ FlatMap(F, (a \o <<m>>) \o b)
       = (FlatMap(F, a) \o F[m]) \o FlatMap(F, b)
  /\ FlatMap(F, a) \in Seq(X) /\ FlatMap(F, b) \in Seq(X)
  /\ F[s] \in Seq(X) /\ F[t] \in Seq(X) /\ F[m] \in Seq(X)

LEMMA NeighboursRead ==
  ASSUME NEW X, NEW F, NEW a, NEW s, NEW t, NEW m, NEW b, Row(F, X, a, s, t, m, b)
  PROVE  RowRead(F, X, a, s, t, m, b)
<1> USE DEF Row
<1>1. ASSUME NEW e \in SegmentType
      PROVE  <<e>> \in Seq(SegmentType) /\ FlatMap(F, <<e>>) = F[e] /\ F[e] \in Seq(X)
  <2>1. FlatMap(F, <<e>>) = F[e]
    BY FlatMapOne
  <2>2. F[e] \in Seq(X) /\ <<e>> \in Seq(SegmentType)
    BY DEF Maps
  <2> QED BY <2>1, <2>2
<1>2. ASSUME NEW e \in SegmentType
      PROVE  /\ a \o <<e>> \in Seq(SegmentType)
             /\ FlatMap(F, a \o <<e>>) = FlatMap(F, a) \o F[e]
  <2> DEFINE one == <<e>>
  <2>1. one \in Seq(SegmentType) /\ FlatMap(F, one) = F[e]
    BY <1>1
  <2> HIDE DEF one
  <2>2. /\ a \o one \in Seq(SegmentType)
        /\ FlatMap(F, a \o one) = FlatMap(F, a) \o FlatMap(F, one)
    BY <2>1, ConcatRead
  <2> QED BY <2>1, <2>2 DEF one
<1>3. /\ <<t>> \o b \in Seq(SegmentType)
      /\ FlatMap(F, <<t>> \o b) = F[t] \o FlatMap(F, b)
  <2> DEFINE one == <<t>>
  <2>1. one \in Seq(SegmentType) /\ FlatMap(F, one) = F[t]
    BY <1>1
  <2> HIDE DEF one
  <2>2. /\ one \o b \in Seq(SegmentType)
        /\ FlatMap(F, one \o b) = FlatMap(F, one) \o FlatMap(F, b)
    BY <2>1, ConcatRead
  <2> QED BY <2>1, <2>2 DEF one
<1> DEFINE front == a \o <<s>>
           am == a \o <<m>>
           tb == <<t>> \o b
<1>4. /\ front \in Seq(SegmentType) /\ FlatMap(F, front) = FlatMap(F, a) \o F[s]
      /\ am \in Seq(SegmentType) /\ FlatMap(F, am) = FlatMap(F, a) \o F[m]
      /\ tb \in Seq(SegmentType) /\ FlatMap(F, tb) = F[t] \o FlatMap(F, b)
  BY <1>2, <1>3
<1>8. front \in Seq(SegmentType) /\ tb \in Seq(SegmentType)
  BY <1>4
<1>9. am \in Seq(SegmentType)
  BY <1>4
<1> HIDE DEF front, am, tb
<1>5. FlatMap(F, front \o tb) = FlatMap(F, front) \o FlatMap(F, tb)
  BY <1>8, FlatMapConcat, SMTT(20)
<1>6. FlatMap(F, am \o b) = FlatMap(F, am) \o FlatMap(F, b)
  BY <1>9, FlatMapConcat
<1>7. FlatMap(F, a) \in Seq(X) /\ FlatMap(F, b) \in Seq(X)
  BY FlatMapType
<1> QED BY <1>1, <1>4, <1>5, <1>6, <1>7 DEF front, am, tb, RowRead

Four(X, a, s, t, b) ==
  /\ a \in Seq(X) /\ s \in Seq(X) /\ t \in Seq(X) /\ b \in Seq(X)

LEMMA Reassociate ==
  ASSUME NEW X, NEW a, NEW s, NEW t, NEW b, Four(X, a, s, t, b)
  PROVE  /\ (a \o (s \o t)) \o b = (a \o s) \o (t \o b)
         /\ a \o (s \o t) \in Seq(X) /\ s \o t \in Seq(X)
<1>1. a \o s \in Seq(X) /\ s \o t \in Seq(X)
  BY ConcatProperties DEF Four
<1>2. (a \o s) \o t = a \o (s \o t)
  BY ConcatAssociative DEF Four
<1> DEFINE front == a \o s
<1>3. front \o t \in Seq(X)
  <2>1. front \in Seq(X) /\ t \in Seq(X)
    BY <1>1 DEF Four
  <2> HIDE DEF front
  <2> QED BY <2>1, ConcatProperties
<1>4. (front \o t) \o b = front \o (t \o b)
  <2>1. front \in Seq(X) /\ t \in Seq(X) /\ b \in Seq(X)
    BY <1>1 DEF Four
  <2> HIDE DEF front
  <2> QED BY <2>1, ConcatAssociative
<1> QED BY <1>1, <1>2, <1>3, <1>4

\* A reading that a merged segment keeps is kept where it takes the place of
\* its two parts.
Keeps(F, s, t, m) == F[m] = F[s] \o F[t]

LEMMA MergeReads ==
  ASSUME NEW X, NEW F, NEW a, NEW s, NEW t, NEW m, NEW b, Row(F, X, a, s, t, m, b),
         Keeps(F, s, t, m)
  PROVE  FlatMap(F, (a \o <<m>>) \o b) = FlatMap(F, (a \o <<s>>) \o (<<t>> \o b))
<1> DEFINE fa == FlatMap(F, a)
           fb == FlatMap(F, b)
           fs == F[s]
           ft == F[t]
<1>1. /\ FlatMap(F, (a \o <<s>>) \o (<<t>> \o b)) = (fa \o fs) \o (ft \o fb)
      /\ FlatMap(F, (a \o <<m>>) \o b) = (fa \o (fs \o ft)) \o fb
      /\ fa \in Seq(X) /\ fb \in Seq(X) /\ fs \in Seq(X) /\ ft \in Seq(X)
  <2>1. /\ FlatMap(F, (a \o <<s>>) \o (<<t>> \o b))
              = (FlatMap(F, a) \o F[s]) \o (F[t] \o FlatMap(F, b))
        /\ FlatMap(F, (a \o <<m>>) \o b)
              = (FlatMap(F, a) \o F[m]) \o FlatMap(F, b)
        /\ FlatMap(F, a) \in Seq(X) /\ FlatMap(F, b) \in Seq(X)
        /\ F[s] \in Seq(X) /\ F[t] \in Seq(X)
    <3>1. RowRead(F, X, a, s, t, m, b)
      BY NeighboursRead
    <3> QED BY <3>1 DEF RowRead
  <2>2. F[m] = F[s] \o F[t]
    BY DEF Keeps
  <2> QED BY <2>1, <2>2
<1> HIDE DEF fa, fb, fs, ft
<1>2. (fa \o (fs \o ft)) \o fb = (fa \o fs) \o (ft \o fb)
  <2>1. Four(X, fa, fs, ft, fb)
    BY <1>1 DEF Four
  <2> QED BY <2>1, Reassociate
<1> QED BY <1>1, <1>2

-----------------------------------------------------------------------------
\* What is read of the chunks, each with its number.
Numbered(H, P) == [n \in DOMAIN P |-> H[<<P[n], n>>]]

NumberedChunk == Chunks \X (1 .. MaxChunks)

PiecesH == [x \in NumberedChunk |-> ChunkPieces(x[1], x[2])]

UpstreamH == [x \in NumberedChunk |-> UpstreamItems(x[1], x[2])]

SentH(c) == [x \in NumberedChunk |-> RolesIn(ChoicesOf(x[1]), c)]

LEMMA PiecesHMaps ==
  ASSUME extraMap \in BOOLEAN
  PROVE  Maps(PiecesH, NumberedChunk, Seq(PieceType))
<1>1. ASSUME NEW x \in NumberedChunk PROVE ChunkPieces(x[1], x[2]) \in Seq(PieceType)
  <2>1. x[1] \in Chunk /\ x[2] \in 1 .. MaxChunks
    BY ParserAssumption DEF NumberedChunk
  <2> QED BY <2>1, ChunkPiecesRead
<1> QED BY <1>1 DEF PiecesH, Maps

LEMMA UpstreamHMaps == Maps(UpstreamH, NumberedChunk, Seq(ItemType))
<1>1. ASSUME NEW x \in NumberedChunk PROVE UpstreamItems(x[1], x[2]) \in Seq(ItemType)
  <2>1. x[1] \in Chunk /\ x[2] \in 1 .. MaxChunks
    BY ParserAssumption DEF NumberedChunk
  <2> QED BY <2>1, UpstreamItemsTyped
<1> QED BY <1>1 DEF UpstreamH, Maps

LEMMA SentHMaps ==
  ASSUME NEW c
  PROVE  Maps(SentH(c), NumberedChunk, Seq(SegmentFields))
<1>1. ASSUME NEW x \in NumberedChunk
      PROVE  RolesIn(ChoicesOf(x[1]), c) \in Seq(SegmentFields)
  <2>1. x[1] \in Chunk
    BY ParserAssumption DEF NumberedChunk
  <2>2. ChoicesOf(x[1]) \in Seq(ChoiceChunk)
    BY <2>1, ChunkTyped
  <2> QED BY <2>2, RolesInTyped
<1> QED BY <1>1 DEF SentH, Maps

LEMMA NumberedTyped ==
  ASSUME NEW X, NEW H, Maps(H, NumberedChunk, Seq(X)),
         NEW P \in Seq(Chunks), Len(P) <= MaxChunks
  PROVE  /\ Numbered(H, P) \in Seq(Seq(X)) /\ Len(Numbered(H, P)) = Len(P)
         /\ FlattenSeq(Numbered(H, P)) \in Seq(X)
         /\ \A n \in 1 .. Len(P) : Numbered(H, P)[n] = H[<<P[n], n>>]
<1> DEFINE N == Len(P)
           ss == Numbered(H, P)
<1>1. N \in Nat /\ DOMAIN P = 1 .. N /\ \A n \in 1 .. N : P[n] \in Chunks
  BY LenProperties, ElementOfSeq
<1>2. MaxChunks \in Nat
  BY ParserAssumption
<1>3. \A n \in 1 .. N : n \in 1 .. MaxChunks
  BY <1>1, <1>2
<1> HIDE DEF N
<1>4. \A n \in 1 .. N : H[<<P[n], n>>] \in Seq(X)
  BY <1>1, <1>3 DEF Maps, NumberedChunk
<1>5. ss = [n \in 1 .. N |-> H[<<P[n], n>>]]
  BY <1>1 DEF Numbered
<1> HIDE DEF ss
<1>6. DOMAIN ss = 1 .. N /\ ss = [n \in DOMAIN ss |-> ss[n]]
  BY <1>5
<1>7. \A n \in 1 .. N : ss[n] = H[<<P[n], n>>]
  BY <1>5
<1>8. \A n \in 1 .. N : ss[n] \in Seq(X)
  BY <1>4, <1>7
<1>9. ss \in Seq(Seq(X)) /\ Len(ss) = N /\ FlattenSeq(ss) \in Seq(X)
  BY <1>1, <1>6, <1>8, FlattenTyped
<1> QED BY <1>7, <1>9 DEF ss, N

LEMMA NumberedGrows ==
  ASSUME NEW X, NEW H, Maps(H, NumberedChunk, Seq(X)),
         NEW P \in Seq(Chunks), Len(P) < MaxChunks, NEW chunk \in Chunks
  PROVE  FlattenSeq(Numbered(H, Append(P, chunk)))
           = FlattenSeq(Numbered(H, P)) \o H[<<chunk, Len(P) + 1>>]
<1> DEFINE N == Len(P)
           Q == Append(P, chunk)
           e == H[<<chunk, N + 1>>]
           a == Numbered(H, P)
           b == Numbered(H, Q)
<1>1. N \in Nat /\ N < MaxChunks /\ N <= MaxChunks /\ N + 1 \in 1 .. MaxChunks
  <2>1. N \in Nat /\ MaxChunks \in Nat
    BY LenProperties, ParserAssumption
  <2> HIDE DEF N
  <2>2. N < MaxChunks
    BY DEF N
  <2> QED BY <2>1, <2>2
<1>2. /\ Q \in Seq(Chunks) /\ Len(Q) = N + 1
      /\ (\A i \in 1 .. N : Q[i] = P[i]) /\ Q[N + 1] = chunk
  BY AppendProperties
<1>3. a \in Seq(Seq(X)) /\ Len(a) = N /\ \A n \in 1 .. N : a[n] = H[<<P[n], n>>]
  BY <1>1, NumberedTyped
<1> HIDE DEF N, Q
<1>4. Len(Q) <= MaxChunks
  BY <1>1, <1>2
<1>5. b \in Seq(Seq(X)) /\ Len(b) = N + 1 /\ \A n \in 1 .. N + 1 : b[n] = H[<<Q[n], n>>]
  BY <1>2, <1>4, NumberedTyped
<1>6. e \in Seq(X)
  BY <1>1 DEF Maps, NumberedChunk
<1> HIDE DEF a, b, e
<1>7. /\ Append(a, e) \in Seq(Seq(X)) /\ Len(Append(a, e)) = N + 1
      /\ (\A i \in 1 .. N : Append(a, e)[i] = a[i]) /\ Append(a, e)[N + 1] = e
  <2>1. /\ Append(a, e) \in Seq(Seq(X)) /\ Len(Append(a, e)) = Len(a) + 1
        /\ (\A i \in 1 .. Len(a) : Append(a, e)[i] = a[i])
        /\ Append(a, e)[Len(a) + 1] = e
    BY <1>3, <1>6, AppendProperties
  <2> QED BY <1>3, <2>1
<1>8. ASSUME NEW n \in 1 .. N + 1 PROVE b[n] = Append(a, e)[n]
  <2>1. CASE n \in 1 .. N
    BY <1>2, <1>3, <1>5, <1>7, <2>1
  <2>2. CASE n \notin 1 .. N
    <3>1. n = N + 1
      BY <1>1, <2>2
    <3>2. b[N + 1] = e
      BY <1>2, <1>5, <3>1 DEF e
    <3> QED BY <1>7, <3>1, <3>2
  <2> QED BY <2>1, <2>2
<1>9. b = Append(a, e)
  <2>1. Len(b) = Len(Append(a, e)) /\ \A n \in 1 .. Len(b) : b[n] = Append(a, e)[n]
    BY <1>5, <1>7, <1>8
  <2> QED BY <1>5, <1>7, <2>1, SeqEqual
<1>10. b = a \o <<e>>
  BY <1>3, <1>6, <1>9, AppendIsConcat
<1> DEFINE one == <<e>>
<1>11. one \in Seq(Seq(X)) /\ FlattenSeq(one) = e
  <2>1. <<e>> \in Seq(Seq(X))
    BY <1>6
  <2> QED BY <1>6, <2>1, FlattenOne
<1> HIDE DEF one
<1>12. FlattenSeq(a \o one) = FlattenSeq(a) \o FlattenSeq(one)
  BY <1>3, <1>11, FlattenConcat
<1> QED BY <1>10, <1>11, <1>12 DEF a, b, one, N, Q, e

-----------------------------------------------------------------------------
\* What is to be shown of the stream E of segments, the chunks P that have
\* been parsed and the roles seen; no delta of P names a call twice.
PiecesGood(E, P) == FlatMap(PiecesF, E) = FlattenSeq(Numbered(PiecesH, P))

OneDeltas(P) == \A n \in DOMAIN P : OneDelta(P[n])

SameCalls(items, others) ==
  \A c \in ChoiceIndices, i \in ToolIndices :
    /\ Names(items, c, i) = Names(others, c, i)
    /\ ArgumentsOf(items, c, i) = ArgumentsOf(others, c, i)

ItemsGood(E, P) ==
  OneDeltas(P) =>
    /\ FlatMap(TwiceF, E) = <<>>
    /\ SameCalls(FlatMap(ItemsF, E), FlattenSeq(Numbered(UpstreamH, P)))

NeverTwice(r) == \A i \in 1 .. Len(r) - 1 : r[i] # r[i + 1]

\* What r changes to, in which l comes last.
Follows(s, r, l) == Changes(s) = r /\ l = IF s = <<>> THEN None ELSE Last(s)

RolesGood(E, P, seen) ==
  \A c \in ChoiceIndices :
    /\ FlatMap(RoleF(c), E) # <<>> => Last(FlatMap(RoleF(c), E)) = seen[c]
    /\ NeverTwice(FlatMap(RoleF(c), E))
    /\ Follows(FlattenSeq(Numbered(SentH(c), P)), FlatMap(RoleF(c), E), seen[c])
    /\ Follows(FlatMap(ToldF(c), E), FlatMap(RoleF(c), E), seen[c])

LEMMA SameCallsGrow ==
  ASSUME NEW a \in Seq(ItemType), NEW b \in Seq(ItemType), NEW d \in Seq(ItemType),
         SameCalls(a, b)
  PROVE  SameCalls(a \o d, b \o d)
<1>1. ASSUME NEW c \in ChoiceIndices, NEW i \in ToolIndices
      PROVE  /\ Names(a \o d, c, i) = Names(b \o d, c, i)
             /\ ArgumentsOf(a \o d, c, i) = ArgumentsOf(b \o d, c, i)
  <2>1. /\ Names(a, c, i) = Names(b, c, i)
        /\ ArgumentsOf(a, c, i) = ArgumentsOf(b, c, i)
    BY DEF SameCalls
  <2>2. /\ Names(a \o d, c, i) = Names(a, c, i) \cup Names(d, c, i)
        /\ Names(b \o d, c, i) = Names(b, c, i) \cup Names(d, c, i)
    BY NamesConcat
  <2>3. /\ ArgumentsOf(a \o d, c, i) = ArgumentsOf(a, c, i) \o ArgumentsOf(d, c, i)
        /\ ArgumentsOf(b \o d, c, i) = ArgumentsOf(b, c, i) \o ArgumentsOf(d, c, i)
    BY ArgumentsConcat
  <2> QED BY <2>1, <2>2, <2>3
<1> QED BY <1>1 DEF SameCalls

\* One more role, that is not the last one.
LEMMA RoleAdded ==
  ASSUME NEW X, NEW r \in Seq(X), NEW e \in X, NeverTwice(r),
         r # <<>> => Last(r) # e
  PROVE  NeverTwice(r \o <<e>>) /\ Last(r \o <<e>>) = e /\ r \o <<e>> # <<>>
<1> DEFINE n == Len(r)
           a == Append(r, e)
<1>1. n \in Nat
  BY LenProperties
<1>2. /\ a \in Seq(X) /\ Len(a) = n + 1 /\ (\A i \in 1 .. n : a[i] = r[i])
      /\ a[n + 1] = e /\ a # <<>>
  BY AppendProperties
<1>3. a = r \o <<e>>
  BY AppendIsConcat
<1>4. n # 0 => r[n] # e
  BY EmptySeq DEF Last
<1>5. \A i \in 1 .. n - 1 : r[i] # r[i + 1]
  BY DEF NeverTwice
<1> HIDE DEF n, a
<1>6. ASSUME NEW i \in 1 .. n PROVE a[i] # a[i + 1]
  <2>1. CASE i = n
    BY <1>1, <1>2, <1>4, <2>1
  <2>2. CASE i # n
    <3>1. i \in 1 .. n - 1 /\ i + 1 \in 1 .. n
      BY <1>1, <2>2
    <3> QED BY <1>2, <1>5, <3>1
  <2> QED BY <2>1, <2>2
<1>7. (n + 1) - 1 = n
  BY <1>1
<1>8. NeverTwice(a)
  BY <1>2, <1>6, <1>7 DEF NeverTwice
<1>9. Last(a) = e
  BY <1>2 DEF Last
<1> QED BY <1>2, <1>3, <1>8, <1>9

\* One more role, in a sequence of which only the changes count.
LEMMA ChangesGrow ==
  ASSUME NEW X, NEW s \in Seq(X), NEW e \in X
  PROVE  /\ Changes(s) \in Seq(X)
         /\ Changes(Append(s, e))
              = Changes(s) \o (IF s = <<>> \/ Last(s) # e THEN <<e>> ELSE <<>>)
<1> DEFINE n == Len(s)
           q == Append(s, e)
           Part(r, i) == If(i = 1 \/ r[i] # r[i - 1], <<r[i]>>)
           a == [i \in DOMAIN s |-> Part(s, i)]
           b == [i \in DOMAIN q |-> Part(q, i)]
           x == IF s = <<>> \/ Last(s) # e THEN <<e>> ELSE <<>>
<1>1. /\ n \in Nat /\ DOMAIN s = 1 .. n /\ \A i \in 1 .. n : s[i] \in X
      /\ s = <<>> <=> n = 0
  BY LenProperties, ElementOfSeq, EmptySeq
<1>2. /\ q \in Seq(X) /\ Len(q) = n + 1
      /\ (\A i \in 1 .. n : q[i] = s[i]) /\ q[n + 1] = e
  BY AppendProperties
<1>3. DOMAIN q = 1 .. n + 1
  BY <1>2, LenProperties
<1>4. Changes(s) = FlattenSeq(a) /\ Changes(q) = FlattenSeq(b)
  BY DEF Changes
<1>5. x = IF n = 0 \/ s[n] # e THEN <<e>> ELSE <<>>
  BY <1>1 DEF Last
<1>6. <<e>> \in Seq(X) /\ <<>> \in Seq(X)
  BY EmptySeq
<1>7. x \in Seq(X)
  BY <1>6
<1> HIDE DEF n, q, x
<1>8. \A i \in 1 .. n : a[i] = IF i = 1 \/ s[i] # s[i - 1] THEN <<s[i]>> ELSE <<>>
  BY <1>1 DEF If
<1>9. \A i \in 1 .. n + 1 : b[i] = IF i = 1 \/ q[i] # q[i - 1] THEN <<q[i]>> ELSE <<>>
  BY <1>3 DEF If
<1>10. DOMAIN a = 1 .. n /\ a = [i \in DOMAIN a |-> a[i]]
  BY <1>1
<1>11. DOMAIN b = 1 .. n + 1 /\ b = [i \in DOMAIN b |-> b[i]]
  BY <1>3
<1> HIDE DEF a, b
<1>12. ASSUME NEW i \in 1 .. n PROVE a[i] \in Seq(X)
  <2>1. <<s[i]>> \in Seq(X)
    BY <1>1
  <2> QED BY <1>6, <1>8, <2>1
<1>13. a \in Seq(Seq(X)) /\ Len(a) = n /\ FlattenSeq(a) \in Seq(X)
  BY <1>1, <1>10, <1>12, FlattenTyped
<1>14. ASSUME NEW i \in 1 .. n PROVE b[i] = a[i]
  <2>1. i \in 1 .. n + 1 /\ (i # 1 => i - 1 \in 1 .. n)
    BY <1>1
  <2>2. q[i] = s[i] /\ (i # 1 => q[i - 1] = s[i - 1])
    BY <1>2, <2>1
  <2>3. a[i] = IF i = 1 \/ s[i] # s[i - 1] THEN <<s[i]>> ELSE <<>>
    BY <1>8
  <2>4. b[i] = IF i = 1 \/ q[i] # q[i - 1] THEN <<q[i]>> ELSE <<>>
    BY <1>9, <2>1
  <2>5. CASE i = 1
    BY <2>2, <2>3, <2>4, <2>5
  <2>6. CASE i # 1
    BY <2>2, <2>3, <2>4, <2>6
  <2> QED BY <2>5, <2>6
<1>15. b[n + 1] = x
  <2>1. n + 1 \in 1 .. n + 1 /\ (n + 1) - 1 = n /\ (n + 1 = 1 <=> n = 0)
    BY <1>1
  <2>2. n # 0 => q[n] = s[n]
    BY <1>1, <1>2
  <2> QED BY <1>2, <1>5, <1>9, <2>1, <2>2
<1>16. /\ Append(a, x) \in Seq(Seq(X)) /\ Len(Append(a, x)) = n + 1
       /\ (\A i \in 1 .. n : Append(a, x)[i] = a[i]) /\ Append(a, x)[n + 1] = x
  <2>1. /\ Append(a, x) \in Seq(Seq(X)) /\ Len(Append(a, x)) = Len(a) + 1
        /\ (\A i \in 1 .. Len(a) : Append(a, x)[i] = a[i])
        /\ Append(a, x)[Len(a) + 1] = x
    BY <1>7, <1>13, AppendProperties
  <2> QED BY <1>13, <2>1
<1>17. ASSUME NEW i \in 1 .. n + 1 PROVE b[i] = Append(a, x)[i]
  <2>1. CASE i \in 1 .. n
    BY <1>14, <1>16, <2>1
  <2>2. CASE i \notin 1 .. n
    <3>1. i = n + 1
      BY <1>1, <2>2
    <3> QED BY <1>15, <1>16, <3>1
  <2> QED BY <2>1, <2>2
<1>18. b \in Seq(Seq(X)) /\ Len(b) = n + 1
  <2>1. n + 1 \in Nat
    BY <1>1
  <2>2. ASSUME NEW i \in 1 .. n + 1 PROVE b[i] \in Seq(X)
    <3>1. CASE i \in 1 .. n
      BY <1>12, <1>14, <3>1
    <3>2. CASE i \notin 1 .. n
      <4>1. i = n + 1
        BY <1>1, <3>2
      <4> QED BY <1>7, <1>15, <4>1
    <3> QED BY <3>1, <3>2
  <2> QED BY <1>11, <2>1, <2>2, FlattenTyped
<1>19. b = Append(a, x)
  <2>1. Len(b) = Len(Append(a, x)) /\ \A i \in 1 .. Len(b) : b[i] = Append(a, x)[i]
    BY <1>16, <1>17, <1>18
  <2> QED BY <1>16, <1>18, <2>1, SeqEqual
<1>20. b = a \o <<x>>
  BY <1>7, <1>13, <1>19, AppendIsConcat
<1> DEFINE one == <<x>>
<1>21. one \in Seq(Seq(X)) /\ FlattenSeq(one) = x
  <2>1. <<x>> \in Seq(Seq(X))
    BY <1>7
  <2> QED BY <1>7, <2>1, FlattenOne
<1> HIDE DEF one
<1>22. FlattenSeq(a \o one) = FlattenSeq(a) \o FlattenSeq(one)
  BY <1>13, <1>21, FlattenConcat
<1> QED BY <1>4, <1>13, <1>20, <1>21, <1>22 DEF one, q, x

LEMMA FollowsOn ==
  ASSUME NEW X, NEW s \in Seq(X), NEW r, NEW l, Follows(s, r, l),
         NEW e \in X, e # None
  PROVE  Follows(s \o <<e>>, IF e = l THEN r ELSE r \o <<e>>, e)
<1> DEFINE q == Append(s, e)
<1>1. q = s \o <<e>>
  BY AppendIsConcat
<1>2. q # <<>> /\ Last(q) = e
  BY FrontOfAppend, AppendProperties
<1>3. /\ Changes(s) \in Seq(X)
      /\ Changes(q) = Changes(s) \o (IF s = <<>> \/ Last(s) # e THEN <<e>> ELSE <<>>)
  BY ChangesGrow
<1> HIDE DEF q
<1>4. Changes(s) = r /\ l = IF s = <<>> THEN None ELSE Last(s)
  BY DEF Follows
<1>5. e = l <=> ~(s = <<>> \/ Last(s) # e)
  BY <1>4
<1>6. r \o <<>> = r
  BY <1>3, <1>4, NothingAdded
<1>7. Changes(q) = IF e = l THEN r ELSE r \o <<e>>
  BY <1>3, <1>4, <1>5, <1>6
<1> QED BY <1>1, <1>2, <1>7 DEF Follows

\* What upstream sent and what the client is told follow what was emitted, one
\* chunk later.
LEMMA StepFollows ==
  ASSUME NEW X, NEW s \in Seq(X), NEW r \in Seq(X), NEW l, Follows(s, r, l),
         NEW e \in X, NEW more, NEW emitted,
         IF e # l THEN e # None /\ more = <<e>> /\ emitted = <<e>>
                  ELSE /\ emitted = <<>> /\ more \in {<<>>, <<e>>}
                       /\ e # None \/ more = <<>>
  PROVE  Follows(s \o more, r \o emitted, e)
<1>1. r \o <<>> = r /\ s \o <<>> = s
  BY NothingAdded
<1>2. CASE more = <<>>
  <2>1. <<e>> # <<>>
    OBVIOUS
  <2> QED BY <1>1, <1>2, <2>1
<1>3. CASE more = <<e>> /\ e # None
  <2>1. Follows(s \o <<e>>, IF e = l THEN r ELSE r \o <<e>>, e)
    BY <1>3, FollowsOn
  <2> QED BY <1>1, <1>3, <2>1
<1> QED BY <1>2, <1>3

-----------------------------------------------------------------------------
\* A chunk is parsed (parser.go:81-336): what is true of the stream stays true of
\* the stream with the chunk's segments.
ChunkNext(E, P, chunk) ==
  /\ E \in Seq(SegmentType) /\ P \in Seq(Chunks) /\ Len(P) < MaxChunks
  /\ chunk \in Chunks /\ extraMap \in BOOLEAN

LEMMA ChunkNextFacts ==
  ASSUME NEW E, NEW P, NEW chunk, ChunkNext(E, P, chunk)
  PROVE  /\ chunk \in Chunk /\ Len(P) + 1 \in 1 .. MaxChunks
         /\ parseChatCompletionsEvent(chunk, Len(P) + 1) \in Seq(SegmentType)
         /\ parseChatCompletionsEvent(chunk, Len(P) + 1) # <<>>
         /\ <<chunk, Len(P) + 1>> \in NumberedChunk
         /\ Append(P, chunk) \in Seq(Chunks) /\ Len(Append(P, chunk)) = Len(P) + 1
<1>1. P \in Seq(Chunks) /\ Len(P) < MaxChunks /\ chunk \in Chunks /\ extraMap \in BOOLEAN
  BY DEF ChunkNext
<1>2. Len(P) \in Nat
  BY <1>1, LenProperties
<1>3. chunk \in Chunk /\ Len(P) + 1 \in 1 .. MaxChunks
  BY <1>1, <1>2, ParserAssumption
<1>4. /\ parseChatCompletionsEvent(chunk, Len(P) + 1) \in Seq(SegmentType)
      /\ parseChatCompletionsEvent(chunk, Len(P) + 1) # <<>>
  <2> DEFINE n == Len(P) + 1
  <2>1. n \in 1 .. MaxChunks
    BY <1>3
  <2> HIDE DEF n
  <2>2. /\ parseChatCompletionsEvent(chunk, n) \in Seq(SegmentType)
        /\ parseChatCompletionsEvent(chunk, n) # <<>>
    BY <1>1, <1>3, <2>1, ChunkPiecesRead
  <2> QED BY <2>2 DEF n
<1>5. Append(P, chunk) \in Seq(Chunks) /\ Len(Append(P, chunk)) = Len(P) + 1
  BY <1>1, AppendProperties
<1> QED BY <1>1, <1>3, <1>4, <1>5 DEF NumberedChunk

\* What is read of the segments and of the chunks, one chunk later.
LEMMA ChunkNextRead ==
  ASSUME NEW E, NEW P, NEW chunk, ChunkNext(E, P, chunk), NEW X, NEW F, NEW H,
         Maps(F, SegmentType, Seq(X)), Maps(H, NumberedChunk, Seq(X))
  PROVE  /\ FlatMap(F, E \o parseChatCompletionsEvent(chunk, Len(P) + 1))
              = FlatMap(F, E) \o FlatMap(F, parseChatCompletionsEvent(chunk, Len(P) + 1))
         /\ FlattenSeq(Numbered(H, Append(P, chunk)))
              = FlattenSeq(Numbered(H, P)) \o H[<<chunk, Len(P) + 1>>]
<1> DEFINE parse == parseChatCompletionsEvent(chunk, Len(P) + 1)
<1>1. parse \in Seq(SegmentType)
  BY ChunkNextFacts
<1>2. E \in Seq(SegmentType) /\ P \in Seq(Chunks) /\ Len(P) < MaxChunks /\ chunk \in Chunks
  BY DEF ChunkNext
<1> HIDE DEF parse
<1>3. FlatMap(F, E \o parse) = FlatMap(F, E) \o FlatMap(F, parse)
  BY <1>1, <1>2, ConcatRead
<1>4. FlattenSeq(Numbered(H, Append(P, chunk)))
        = FlattenSeq(Numbered(H, P)) \o H[<<chunk, Len(P) + 1>>]
  BY <1>2, NumberedGrows
<1> QED BY <1>3, <1>4 DEF parse

LEMMA PiecesParsed ==
  ASSUME NEW E, NEW P, NEW chunk, ChunkNext(E, P, chunk), PiecesGood(E, P)
  PROVE  PiecesGood(E \o parseChatCompletionsEvent(chunk, Len(P) + 1), Append(P, chunk))
<1> DEFINE n == Len(P) + 1
           parse == parseChatCompletionsEvent(chunk, n)
<1>1. chunk \in Chunk /\ n \in 1 .. MaxChunks /\ <<chunk, n>> \in NumberedChunk
  BY ChunkNextFacts
<1>2. extraMap \in BOOLEAN
  BY DEF ChunkNext
<1>9. Maps(PiecesF, SegmentType, Seq(PieceType)) /\ Maps(PiecesH, NumberedChunk, Seq(PieceType))
  BY <1>2, PiecesMaps, PiecesHMaps
<1>3. /\ FlatMap(PiecesF, E \o parse) = FlatMap(PiecesF, E) \o FlatMap(PiecesF, parse)
      /\ FlattenSeq(Numbered(PiecesH, Append(P, chunk)))
           = FlattenSeq(Numbered(PiecesH, P)) \o PiecesH[<<chunk, n>>]
  BY <1>9, ChunkNextRead, SMTT(20)
<1> HIDE DEF n, parse
<1>5. FlatMap(PiecesF, parse) = ChunkPieces(chunk, n)
  BY <1>1, <1>2, ChunkPiecesRead DEF parse
<1>6. PiecesH[<<chunk, n>>] = ChunkPieces(chunk, n)
  BY <1>1 DEF PiecesH
<1>7. FlatMap(PiecesF, E) = FlattenSeq(Numbered(PiecesH, P))
  BY DEF PiecesGood
<1>8. FlatMap(PiecesF, E \o parse) = FlattenSeq(Numbered(PiecesH, Append(P, chunk)))
  BY <1>3, <1>5, <1>6, <1>7
<1> QED BY <1>8 DEF PiecesGood, parse, n

LEMMA ItemsParsed ==
  ASSUME NEW E, NEW P, NEW chunk, ChunkNext(E, P, chunk), ItemsGood(E, P)
  PROVE  ItemsGood(E \o parseChatCompletionsEvent(chunk, Len(P) + 1), Append(P, chunk))
<1> DEFINE n == Len(P) + 1
           parse == parseChatCompletionsEvent(chunk, n)
           more == Append(P, chunk)
<1>1. /\ chunk \in Chunk /\ n \in 1 .. MaxChunks /\ <<chunk, n>> \in NumberedChunk
      /\ parse \in Seq(SegmentType)
  BY ChunkNextFacts
<1>2. /\ extraMap \in BOOLEAN /\ E \in Seq(SegmentType) /\ P \in Seq(Chunks)
      /\ Len(P) <= MaxChunks /\ chunk \in Chunks
  <2>1. /\ extraMap \in BOOLEAN /\ E \in Seq(SegmentType) /\ P \in Seq(Chunks)
        /\ Len(P) < MaxChunks /\ chunk \in Chunks
    BY DEF ChunkNext
  <2>2. Len(P) \in Nat /\ MaxChunks \in Nat
    BY <2>1, LenProperties, ParserAssumption
  <2> QED BY <2>1, <2>2
<1>3. /\ Maps(ItemsF, SegmentType, Seq(ItemType)) /\ Maps(TwiceF, SegmentType, Seq(SegmentType))
      /\ Maps(UpstreamH, NumberedChunk, Seq(ItemType))
  BY ItemsMaps, TwiceMaps, UpstreamHMaps
<1>4. /\ FlatMap(ItemsF, E \o parse) = FlatMap(ItemsF, E) \o FlatMap(ItemsF, parse)
      /\ FlattenSeq(Numbered(UpstreamH, more))
           = FlattenSeq(Numbered(UpstreamH, P)) \o UpstreamH[<<chunk, n>>]
  BY <1>3, ChunkNextRead, SMTT(20)
<1>5. FlatMap(TwiceF, E \o parse) = FlatMap(TwiceF, E) \o FlatMap(TwiceF, parse)
  BY <1>1, <1>2, <1>3, ConcatRead
<1>6. SUFFICES ASSUME OneDeltas(more)
               PROVE  /\ FlatMap(TwiceF, E \o parse) = <<>>
                      /\ SameCalls(FlatMap(ItemsF, E \o parse),
                                   FlattenSeq(Numbered(UpstreamH, more)))
  BY DEF ItemsGood
<1>7. OneDeltas(P) /\ OneDelta(chunk)
  <2>1. /\ DOMAIN P = 1 .. Len(P) /\ DOMAIN more = 1 .. Len(P) + 1
        /\ (\A i \in 1 .. Len(P) : more[i] = P[i]) /\ more[Len(P) + 1] = chunk
    <3>1. /\ more \in Seq(Chunks) /\ Len(more) = Len(P) + 1
          /\ (\A i \in 1 .. Len(P) : more[i] = P[i]) /\ more[Len(P) + 1] = chunk
      BY <1>2, AppendProperties
    <3> HIDE DEF more
    <3> QED BY <1>2, <3>1, LenProperties
  <2>2. Len(P) \in Nat
    BY <1>2, LenProperties
  <2>3. \A i \in DOMAIN more : OneDelta(more[i])
    BY <1>6 DEF OneDeltas
  <2> HIDE DEF more
  <2>4. \A i \in 1 .. Len(P) : i \in 1 .. Len(P) + 1
    BY <2>2
  <2>5. Len(P) + 1 \in 1 .. Len(P) + 1
    BY <2>2
  <2> QED BY <2>1, <2>3, <2>4, <2>5 DEF OneDeltas
<1>8. /\ FlatMap(TwiceF, E) = <<>>
      /\ SameCalls(FlatMap(ItemsF, E), FlattenSeq(Numbered(UpstreamH, P)))
  BY <1>7 DEF ItemsGood
<1> HIDE DEF n, parse, more
<1>9. /\ FlatMap(ItemsF, parse) = UpstreamItems(chunk, n)
      /\ FlatMap(TwiceF, parse) = <<>>
  BY <1>1, <1>2, <1>7, ChunkItemsRead DEF parse
<1>10. UpstreamH[<<chunk, n>>] = UpstreamItems(chunk, n)
  BY <1>1 DEF UpstreamH
<1>11. FlatMap(TwiceF, E \o parse) = <<>>
  BY <1>5, <1>8, <1>9
<1>12. FlatMap(ItemsF, E) \in Seq(ItemType)
  BY <1>2, <1>3, FlatMapType
<1>13. FlattenSeq(Numbered(UpstreamH, P)) \in Seq(ItemType)
  BY <1>2, <1>3, NumberedTyped
<1>14. UpstreamItems(chunk, n) \in Seq(ItemType)
  BY <1>1, UpstreamItemsTyped
<1>15. SameCalls(FlatMap(ItemsF, E) \o UpstreamItems(chunk, n),
                 FlattenSeq(Numbered(UpstreamH, P)) \o UpstreamItems(chunk, n))
  BY <1>8, <1>12, <1>13, <1>14, SameCallsGrow
<1> QED BY <1>4, <1>9, <1>10, <1>11, <1>15

LEMMA RolesParsed ==
  ASSUME NEW E, NEW P, NEW chunk, ChunkNext(E, P, chunk), RolesGood(E, P, seenRoles),
         seenRoles \in [ChoiceIndices -> Roles \cup {None}]
  PROVE  /\ RolesGood(E \o parseChatCompletionsEvent(chunk, Len(P) + 1),
                      Append(P, chunk), RolesNext(chunk))
         /\ RolesNext(chunk) \in [ChoiceIndices -> Roles \cup {None}]
<1> DEFINE n == Len(P) + 1
           parse == parseChatCompletionsEvent(chunk, n)
           Q == Append(P, chunk)
<1>1. /\ chunk \in Chunk /\ n \in 1 .. MaxChunks /\ parse \in Seq(SegmentType)
      /\ <<chunk, n>> \in NumberedChunk
  BY ChunkNextFacts
<1>2. /\ extraMap \in BOOLEAN /\ E \in Seq(SegmentType) /\ chunk \in Chunks
      /\ P \in Seq(Chunks) /\ Len(P) <= MaxChunks
  <2>1. Len(P) \in Nat /\ MaxChunks \in Nat
    BY LenProperties, ParserAssumption DEF ChunkNext
  <2> QED BY <2>1 DEF ChunkNext
<1>3. ASSUME NEW c \in ChoiceIndices
      PROVE  /\ RolesStep(RolesIn(ChoicesOf(chunk), c), FlatMap(RoleF(c), parse),
                          FlatMap(ToldF(c), parse), seenRoles[c], RolesNext(chunk)[c])
             /\ RolesNext(chunk)[c] \in Roles \cup {None}
             /\ RolesNext(chunk) = [x \in ChoiceIndices |-> RolesNext(chunk)[x]]
  <2> HIDE DEF n
  <2> QED BY <1>1, <1>2, RolesRead
<1>4. RolesNext(chunk) \in [ChoiceIndices -> Roles \cup {None}]
  <2>1. RolesNext(chunk) = [x \in ChoiceIndices |-> RolesNext(chunk)[x]]
    <3>1. CASE ChoiceIndices = {}
      BY <3>1 DEF RolesNext, RolesAfter
    <3>2. CASE ChoiceIndices # {}
      BY <1>3, <3>2
    <3> QED BY <3>1, <3>2
  <2> QED BY <1>3, <2>1
<1>5. ASSUME NEW c \in ChoiceIndices
      PROVE  /\ FlatMap(RoleF(c), E \o parse) # <<>> =>
                  Last(FlatMap(RoleF(c), E \o parse)) = RolesNext(chunk)[c]
             /\ NeverTwice(FlatMap(RoleF(c), E \o parse))
             /\ Follows(FlattenSeq(Numbered(SentH(c), Q)), FlatMap(RoleF(c), E \o parse),
                        RolesNext(chunk)[c])
             /\ Follows(FlatMap(ToldF(c), E \o parse), FlatMap(RoleF(c), E \o parse),
                        RolesNext(chunk)[c])
  <2> DEFINE r == FlatMap(RoleF(c), E)
             t == FlatMap(ToldF(c), E)
             u == FlattenSeq(Numbered(SentH(c), P))
             sent == RolesIn(ChoicesOf(chunk), c)
             emitted == FlatMap(RoleF(c), parse)
             told == FlatMap(ToldF(c), parse)
             l == seenRoles[c]
             e == RolesNext(chunk)[c]
  <2>1. /\ Maps(RoleF(c), SegmentType, Seq(SegmentFields))
        /\ Maps(ToldF(c), SegmentType, Seq(SegmentFields))
        /\ Maps(SentH(c), NumberedChunk, Seq(SegmentFields))
    BY RoleMaps, SentHMaps
  <2>2. /\ r \in Seq(SegmentFields) /\ t \in Seq(SegmentFields)
        /\ u \in Seq(SegmentFields)
    <3>1. r \in Seq(SegmentFields) /\ t \in Seq(SegmentFields)
      BY <1>2, <2>1, FlatMapType
    <3>2. u \in Seq(SegmentFields)
      BY <1>2, <2>1, NumberedTyped
    <3> QED BY <3>1, <3>2
  <2>3. /\ FlatMap(RoleF(c), E \o parse) = r \o emitted
        /\ FlatMap(ToldF(c), E \o parse) = t \o told
    BY <1>1, <1>2, <2>1, ConcatRead
  <2>4. FlattenSeq(Numbered(SentH(c), Q)) = u \o sent
    <3>1. FlattenSeq(Numbered(SentH(c), Append(P, chunk)))
            = FlattenSeq(Numbered(SentH(c), P)) \o SentH(c)[<<chunk, Len(P) + 1>>]
      BY <2>1, ChunkNextRead, SMTT(20)
    <3>2. SentH(c)[<<chunk, n>>] = sent
      BY <1>1 DEF SentH
    <3> QED BY <3>1, <3>2
  <2>5. /\ r # <<>> => Last(r) = l
        /\ NeverTwice(r) /\ Follows(u, r, l) /\ Follows(t, r, l)
    BY DEF RolesGood
  <2>6. e \in SegmentFields
    BY <1>3 DEF SegmentFields
  <2>7. RolesStep(sent, emitted, told, l, e)
    BY <1>3
  <2> HIDE DEF r, t, u, sent, emitted, told, l, e
  <2>8. (r \o emitted # <<>> => Last(r \o emitted) = e) /\ NeverTwice(r \o emitted)
    <3>1. CASE e # l
      <4>1. emitted = <<e>> /\ (r # <<>> => Last(r) # e)
        BY <2>5, <2>7, <3>1 DEF RolesStep
      <4>2. NeverTwice(r \o <<e>>) /\ Last(r \o <<e>>) = e
        BY <2>2, <2>5, <2>6, <4>1, RoleAdded
      <4> QED BY <4>1, <4>2
    <3>2. CASE e = l
      <4>1. emitted = <<>>
        BY <2>7, <3>2 DEF RolesStep
      <4>2. r \o <<>> = r
        BY <2>2, NothingAdded
      <4> QED BY <2>5, <3>2, <4>1, <4>2
    <3> QED BY <3>1, <3>2
  <2>9. Follows(u \o sent, r \o emitted, e)
    BY <2>2, <2>5, <2>6, <2>7, StepFollows DEF RolesStep
  <2>10. Follows(t \o told, r \o emitted, e)
    BY <2>2, <2>5, <2>6, <2>7, StepFollows DEF RolesStep
  <2> QED BY <2>3, <2>4, <2>8, <2>9, <2>10 DEF e
<1>6. RolesGood(E \o parse, Q, RolesNext(chunk))
  BY <1>5 DEF RolesGood
<1> QED BY <1>4, <1>6

-----------------------------------------------------------------------------
\* Two neighbours are merged (buffer.go:69, segments.go:22-175): what is true of the
\* stream stays true of the stream with the merged segment in their place.
MergeNext(a, s, t, b) ==
  /\ a \in Seq(SegmentType) /\ b \in Seq(SegmentType)
  /\ s \in SegmentType /\ t \in SegmentType /\ CanMerge(s, t)

Apart(a, s, t, b) == (a \o <<s>>) \o (<<t>> \o b)

InPlace(a, m, b) == (a \o <<m>>) \o b

Together(a, s, t, b) == InPlace(a, Merge(s, t), b)

LEMMA MergeNextFacts ==
  ASSUME NEW a, NEW s, NEW t, NEW b, MergeNext(a, s, t, b)
  PROVE  /\ Merge(s, t) \in SegmentType /\ s.choice = t.choice
         /\ Merge(s, t).kind = s.kind /\ Merge(s, t).choice = s.choice
         /\ s.kind = t.kind /\ s.field = t.field
<1>1. s \in SegmentType /\ t \in SegmentType /\ CanMerge(s, t)
  BY DEF MergeNext
<1>2. s.choice = t.choice /\ s.kind = t.kind /\ s.field = t.field
  BY <1>1 DEF CanMerge
<1> QED BY <1>1, <1>2, MergeFacts

LEMMA MergeNextRow ==
  ASSUME NEW a, NEW s, NEW t, NEW b, MergeNext(a, s, t, b), NEW X, NEW F,
         Maps(F, SegmentType, Seq(X))
  PROVE  /\ Row(F, X, a, s, t, Merge(s, t), b)
         /\ RowRead(F, X, a, s, t, Merge(s, t), b)
<1>1. Merge(s, t) \in SegmentType
  BY MergeNextFacts
<1>2. Row(F, X, a, s, t, Merge(s, t), b)
  BY <1>1 DEF Row, MergeNext
<1> QED BY <1>2, NeighboursRead

LEMMA PiecesMerged ==
  ASSUME NEW a, NEW s, NEW t, NEW b, MergeNext(a, s, t, b), NEW P,
         PiecesGood(Apart(a, s, t, b), P)
  PROVE  PiecesGood(Together(a, s, t, b), P)
<1>1. Row(PiecesF, PieceType, a, s, t, Merge(s, t), b)
  BY PiecesMaps, MergeNextRow
<1>2. Keeps(PiecesF, s, t, Merge(s, t))
  <2>1. s \in SegmentType /\ t \in SegmentType /\ CanMerge(s, t)
    BY DEF MergeNext
  <2>2. SegmentPieces(Merge(s, t)) = SegmentPieces(s) \o SegmentPieces(t)
    BY <2>1, MergedPieces
  <2>3. Merge(s, t) \in SegmentType
    BY MergeNextFacts
  <2> QED BY <2>1, <2>2, <2>3 DEF Keeps, PiecesF
<1>3. FlatMap(PiecesF, Together(a, s, t, b)) = FlatMap(PiecesF, Apart(a, s, t, b))
  BY <1>1, <1>2, MergeReads DEF Apart, Together, InPlace
<1> QED BY <1>3 DEF PiecesGood

\* Four readings of which nothing is left are empty.
LEMMA NothingLeft ==
  ASSUME NEW X, NEW a, NEW s, NEW t, NEW b, Four(X, a, s, t, b),
         (a \o s) \o (t \o b) = <<>>
  PROVE  a = <<>> /\ s = <<>> /\ t = <<>> /\ b = <<>>
<1>1. a \in Seq(X) /\ s \in Seq(X) /\ t \in Seq(X) /\ b \in Seq(X)
  BY DEF Four
<1>2. a \o s \in Seq(X) /\ t \o b \in Seq(X)
  BY <1>1, ConcatProperties
<1>3. a \o s = <<>> /\ t \o b = <<>>
  <2> DEFINE u == a \o s
             v == t \o b
  <2>1. u \in Seq(X) /\ v \in Seq(X) /\ u \o v = <<>>
    BY <1>2
  <2> HIDE DEF u, v
  <2>2. u = <<>> /\ v = <<>>
    BY <2>1, ConcatEqualIffEmpty
  <2> QED BY <2>2 DEF u, v
<1> QED BY <1>1, <1>3, ConcatEqualIffEmpty

\* What a client gets of a call, where two parts of it are put together.
ItemsKept(w, u, v) ==
  /\ w \in Seq(ItemType)
  /\ \A c, i : /\ Names(w, c, i) = Names(u, c, i) \cup Names(v, c, i)
               /\ ArgumentsOf(w, c, i) = ArgumentsOf(u, c, i) \o ArgumentsOf(v, c, i)

LEMMA SameCallsMerged ==
  ASSUME NEW x, NEW u, NEW v, NEW w, NEW y, Four(ItemType, x, u, v, y), ItemsKept(w, u, v)
  PROVE  SameCalls((x \o w) \o y, (x \o u) \o (v \o y))
<1>1. /\ x \in Seq(ItemType) /\ u \in Seq(ItemType) /\ v \in Seq(ItemType)
      /\ y \in Seq(ItemType) /\ w \in Seq(ItemType)
  BY DEF Four, ItemsKept
<1> DEFINE xw == x \o w
           xu == x \o u
           vy == v \o y
<1>2. xw \in Seq(ItemType) /\ xu \in Seq(ItemType) /\ vy \in Seq(ItemType)
  BY <1>1, ConcatProperties
<1>3. ASSUME NEW c, NEW i
      PROVE  /\ Names(xw \o y, c, i) = Names(xu \o vy, c, i)
             /\ ArgumentsOf(xw \o y, c, i) = ArgumentsOf(xu \o vy, c, i)
  <2> DEFINE A(items) == ArgumentsOf(items, c, i)
             N(items) == Names(items, c, i)
  <2>1. ASSUME NEW a \in Seq(ItemType), NEW b \in Seq(ItemType)
        PROVE  A(a \o b) = A(a) \o A(b) /\ N(a \o b) = N(a) \cup N(b)
    BY NamesConcat, ArgumentsConcat
  <2>2. A(w) = A(u) \o A(v) /\ N(w) = N(u) \cup N(v)
    BY DEF ItemsKept
  <2>3. Four(Fragments, A(x), A(u), A(v), A(y))
    BY <1>1, ArgumentsRead DEF Four
  <2> HIDE DEF A, N
  <2>4. /\ A(xw) = A(x) \o A(w) /\ A(xu) = A(x) \o A(u) /\ A(vy) = A(v) \o A(y)
        /\ N(xw) = N(x) \cup N(w) /\ N(xu) = N(x) \cup N(u) /\ N(vy) = N(v) \cup N(y)
    BY <1>1, <2>1
  <2> HIDE DEF xw, xu, vy
  <2>5. /\ A(xw \o y) = A(xw) \o A(y) /\ A(xu \o vy) = A(xu) \o A(vy)
        /\ N(xw \o y) = N(xw) \cup N(y) /\ N(xu \o vy) = N(xu) \cup N(vy)
    BY <1>1, <1>2, <2>1
  <2>6. (A(x) \o (A(u) \o A(v))) \o A(y) = (A(x) \o A(u)) \o (A(v) \o A(y))
    BY <2>3, Reassociate, SMTT(20)
  <2>7. A(xw \o y) = A(xu \o vy)
    BY <2>2, <2>4, <2>5, <2>6
  <2>8. N(xw \o y) = N(xu \o vy)
    BY <2>2, <2>4, <2>5
  <2> QED BY <2>7, <2>8 DEF A, N
<1> HIDE DEF xw, xu, vy
<1>4. SameCalls(xw \o y, xu \o vy)
  BY <1>3 DEF SameCalls
<1> QED BY <1>4 DEF xw, xu, vy

LEMMA ItemsMerged ==
  ASSUME NEW a, NEW s, NEW t, NEW b, MergeNext(a, s, t, b), NEW P,
         ItemsGood(Apart(a, s, t, b), P)
  PROVE  ItemsGood(Together(a, s, t, b), P)
<1> DEFINE m == Merge(s, t)
           before == FlatMap(ItemsF, Apart(a, s, t, b))
           after == FlatMap(ItemsF, Together(a, s, t, b))
           upstream == FlattenSeq(Numbered(UpstreamH, P))
<1>1. SUFFICES ASSUME OneDeltas(P)
               PROVE  /\ FlatMap(TwiceF, Together(a, s, t, b)) = <<>>
                      /\ SameCalls(after, upstream)
  BY DEF ItemsGood
<1>2. FlatMap(TwiceF, Apart(a, s, t, b)) = <<>> /\ SameCalls(before, upstream)
  BY <1>1 DEF ItemsGood
<1>3. /\ s \in SegmentType /\ t \in SegmentType /\ CanMerge(s, t)
      /\ m \in SegmentType /\ s.choice = t.choice
  BY MergeNextFacts DEF MergeNext
<1>4. /\ RowRead(TwiceF, SegmentType, a, s, t, m, b)
      /\ RowRead(ItemsF, ItemType, a, s, t, m, b)
  BY TwiceMaps, ItemsMaps, MergeNextRow
<1> HIDE DEF m
<1>5. /\ FlatMap(TwiceF, a) = <<>> /\ TwiceF[s] = <<>>
      /\ TwiceF[t] = <<>> /\ FlatMap(TwiceF, b) = <<>>
  <2>1. /\ FlatMap(TwiceF, Apart(a, s, t, b))
             = (FlatMap(TwiceF, a) \o TwiceF[s]) \o (TwiceF[t] \o FlatMap(TwiceF, b))
        /\ Four(SegmentType, FlatMap(TwiceF, a), TwiceF[s], TwiceF[t], FlatMap(TwiceF, b))
    BY <1>4 DEF RowRead, Four, Apart
  <2>2. (FlatMap(TwiceF, a) \o TwiceF[s]) \o (TwiceF[t] \o FlatMap(TwiceF, b)) = <<>>
    BY <1>2, <2>1
  <2> QED BY <2>1, <2>2, NothingLeft
<1>6. ASSUME NEW e \in SegmentType
      PROVE  TwiceF[e] = <<>> <=> IsInjective(e.order)
  <2>1. TwiceF[e] = If(~IsInjective(e.order), <<e>>)
    BY DEF TwiceF
  <2> QED BY <2>1 DEF If
<1>7. IsInjective(s.order) /\ IsInjective(t.order)
  BY <1>3, <1>5, <1>6
<1>8. IsInjective(m.order)
  BY <1>3, <1>7, MergedCalls DEF m
<1>9. FlatMap(TwiceF, Together(a, s, t, b)) = <<>>
  <2>1. FlatMap(TwiceF, Together(a, s, t, b))
          = (FlatMap(TwiceF, a) \o TwiceF[m]) \o FlatMap(TwiceF, b)
    BY <1>4 DEF RowRead, Together, InPlace, m
  <2>2. TwiceF[m] = <<>>
    BY <1>3, <1>6, <1>8
  <2>3. FlatMap(TwiceF, Together(a, s, t, b)) = (<<>> \o <<>>) \o <<>>
    BY <1>5, <2>1, <2>2
  <2>4. <<>> \o <<>> = <<>>
    BY EmptySeq, ConcatEmptySeq
  <2> QED BY <2>3, <2>4
<1>10. SameCalls(after, before)
  <2> DEFINE x == FlatMap(ItemsF, a)
             y == FlatMap(ItemsF, b)
             u == ItemsF[s]
             v == ItemsF[t]
             w == ItemsF[m]
  <2>1. /\ before = (x \o u) \o (v \o y) /\ after = (x \o w) \o y
        /\ Four(ItemType, x, u, v, y) /\ w \in Seq(ItemType)
    BY <1>4 DEF RowRead, Four, Apart, Together, InPlace, m
  <2>2. u = ItemsOf(s) /\ v = ItemsOf(t) /\ w = ItemsOf(m)
    BY <1>3 DEF ItemsF
  <2>3. ItemsKept(w, u, v)
    <3>1. ASSUME NEW c, NEW i
          PROVE  /\ Names(ItemsOf(m), c, i) = Names(ItemsOf(s), c, i) \cup Names(ItemsOf(t), c, i)
                 /\ ArgumentsOf(ItemsOf(m), c, i)
                      = ArgumentsOf(ItemsOf(s), c, i) \o ArgumentsOf(ItemsOf(t), c, i)
      BY <1>3, <1>7, MergedItems DEF m
    <3> QED BY <2>1, <2>2, <3>1 DEF ItemsKept
  <2> HIDE DEF x, y, u, v, w, before, after
  <2>4. SameCalls((x \o w) \o y, (x \o u) \o (v \o y))
    BY <2>1, <2>3, SameCallsMerged
  <2> QED BY <2>1, <2>4
<1>11. SameCalls(after, upstream)
  <2> HIDE DEF after, before, upstream
  <2> QED BY <1>2, <1>10 DEF SameCalls
<1> QED BY <1>9, <1>11

\* Twice the same, one after the other.
LEMMA TwiceTheSame ==
  ASSUME NEW X, NEW x \in Seq(X), NEW e \in X, NEW y \in Seq(X),
         NeverTwice((x \o <<e>>) \o (<<e>> \o y))
  PROVE  FALSE
<1> DEFINE n == Len(x)
           l == Append(x, e)
           r == <<e>> \o y
           all == l \o r
<1>1. n \in Nat /\ Len(y) \in Nat
  BY LenProperties
<1>2. l \in Seq(X) /\ Len(l) = n + 1 /\ l[n + 1] = e
  BY AppendProperties
<1>3. r \in Seq(X) /\ Len(r) = Len(y) + 1 /\ r[1] = e
  <2> DEFINE one == <<e>>
  <2>1. one \in Seq(X) /\ Len(one) = 1 /\ one[1] = e
    OBVIOUS
  <2> HIDE DEF one
  <2>2. /\ one \o y \in Seq(X) /\ Len(one \o y) = 1 + Len(y)
        /\ \A i \in 1 .. 1 + Len(y) :
             (one \o y)[i] = IF i <= 1 THEN one[i] ELSE y[i - 1]
    <3>1. /\ one \o y \in Seq(X) /\ Len(one \o y) = Len(one) + Len(y)
          /\ \A i \in 1 .. Len(one) + Len(y) :
               (one \o y)[i] = IF i <= Len(one) THEN one[i] ELSE y[i - Len(one)]
      BY <2>1, ConcatProperties
    <3> QED BY <2>1, <3>1
  <2>3. 1 \in 1 .. 1 + Len(y) /\ 1 <= 1
    BY <1>1
  <2>4. (one \o y)[1] = e
    BY <2>1, <2>2, <2>3
  <2>5. 1 + Len(y) = Len(y) + 1
    BY <1>1
  <2> QED BY <2>2, <2>4, <2>5 DEF one
<1>4. l = x \o <<e>>
  BY AppendIsConcat
<1>5. NeverTwice(all)
  BY <1>4
<1> HIDE DEF l, r, n
<1>6. /\ Len(all) = (n + 1) + (Len(y) + 1)
      /\ \A i \in 1 .. (n + 1) + (Len(y) + 1) :
           all[i] = IF i <= n + 1 THEN l[i] ELSE r[i - (n + 1)]
  <2>1. /\ Len(all) = Len(l) + Len(r)
        /\ \A i \in 1 .. Len(l) + Len(r) :
             all[i] = IF i <= Len(l) THEN l[i] ELSE r[i - Len(l)]
    BY <1>2, <1>3, ConcatProperties
  <2> HIDE DEF all
  <2> QED BY <1>2, <1>3, <2>1
<1> HIDE DEF all
<1>7. all[n + 1] = e
  <2>1. n + 1 \in 1 .. (n + 1) + (Len(y) + 1) /\ n + 1 <= n + 1
    BY <1>1
  <2> QED BY <1>2, <1>6, <2>1
<1>8. all[(n + 1) + 1] = e
  <2>1. /\ (n + 1) + 1 \in 1 .. (n + 1) + (Len(y) + 1)
        /\ ~((n + 1) + 1 <= n + 1) /\ ((n + 1) + 1) - (n + 1) = 1
    BY <1>1
  <2> QED BY <1>3, <1>6, <2>1
<1>9. n + 1 \in 1 .. Len(all) - 1
  BY <1>1, <1>6
<1> QED BY <1>5, <1>7, <1>8, <1>9 DEF NeverTwice

LEMMA RolesMerged ==
  ASSUME NEW a, NEW s, NEW t, NEW b, MergeNext(a, s, t, b), NEW P, NEW seen,
         RolesGood(Apart(a, s, t, b), P, seen)
  PROVE  RolesGood(Together(a, s, t, b), P, seen)
<1> DEFINE m == Merge(s, t)
<1>1. /\ s \in SegmentType /\ t \in SegmentType /\ m \in SegmentType
      /\ s.choice = t.choice /\ m.kind = s.kind /\ m.choice = s.choice
      /\ s.kind = t.kind /\ s.field = t.field /\ s.kind # "unknown"
  BY MergeNextFacts DEF MergeNext, CanMerge
<1> HIDE DEF m
<1>2. ASSUME NEW c \in ChoiceIndices PROVE ~(s.kind = "role" /\ s.choice = c)
  <2> SUFFICES ASSUME s.kind = "role" /\ s.choice = c PROVE FALSE
    OBVIOUS
  <2> DEFINE x == FlatMap(RoleF(c), a)
             y == FlatMap(RoleF(c), b)
             e == s.field
  <2>1. RowRead(RoleF(c), SegmentFields, a, s, t, m, b)
    BY RoleMaps, MergeNextRow DEF m
  <2>2. RoleF(c)[s] = <<e>> /\ RoleF(c)[t] = <<e>>
    BY <1>1, RoleFacts
  <2>3. FlatMap(RoleF(c), Apart(a, s, t, b)) = (x \o <<e>>) \o (<<e>> \o y)
    BY <2>1, <2>2 DEF RowRead, Apart
  <2>4. NeverTwice(FlatMap(RoleF(c), Apart(a, s, t, b)))
    BY DEF RolesGood
  <2>5. x \in Seq(SegmentFields) /\ y \in Seq(SegmentFields) /\ e \in SegmentFields
    BY <1>1, <2>1, SegmentFacts DEF RowRead
  <2> HIDE DEF x, y, e
  <2>6. NeverTwice((x \o <<e>>) \o (<<e>> \o y))
    BY <2>3, <2>4
  <2> QED BY <2>5, <2>6, TwiceTheSame
<1>3. ASSUME NEW c \in ChoiceIndices, NEW F \in {RoleF(c), ToldF(c)}
      PROVE  FlatMap(F, Together(a, s, t, b)) = FlatMap(F, Apart(a, s, t, b))
  <2>1. Row(F, SegmentFields, a, s, t, m, b)
    <3>1. Maps(F, SegmentType, Seq(SegmentFields))
      BY RoleMaps
    <3> QED BY <3>1, MergeNextRow DEF m
  <2>2. F[s] = <<>> /\ F[t] = <<>> /\ F[m] = <<>>
    BY <1>1, <1>2, RoleFacts
  <2>3. <<>> \o <<>> = <<>>
    BY EmptySeq, ConcatEmptySeq
  <2>4. Keeps(F, s, t, m)
    BY <2>2, <2>3 DEF Keeps
  <2>5. FlatMap(F, (a \o <<m>>) \o b) = FlatMap(F, (a \o <<s>>) \o (<<t>> \o b))
    BY <2>1, <2>4, MergeReads
  <2> QED BY <2>5 DEF Apart, Together, InPlace, m
<1> QED BY <1>3 DEF RolesGood

-----------------------------------------------------------------------------
\* A segment moves from the parsed ones to the pending ones.
Waiting(w, p, q) ==
  /\ w \in Seq(SegmentType) /\ p \in Seq(SegmentType)
  /\ q \in Seq(SegmentType) /\ q # <<>>

Line(w, p, q) == (w \o p) \o q

LEMMA Arrives ==
  ASSUME NEW w, NEW p, NEW q, Waiting(w, p, q)
  PROVE  Line(w, Append(p, Head(q)), Tail(q)) = Line(w, p, q)
<1> DEFINE S == SegmentType
<1>0. w \in Seq(S) /\ p \in Seq(S) /\ q \in Seq(S) /\ q # <<>>
  BY DEF Waiting
<1> HIDE DEF S
<1> DEFINE h == Append(p, Head(q))
           r == Tail(q)
<1>1. h \in Seq(S) /\ r \in Seq(S)
  <2>1. Head(q) \in S /\ Tail(q) \in Seq(S)
    BY <1>0, HeadAndTail
  <2> QED BY <1>0, <2>1, AppendProperties
<1>2. h \o r = p \o q
  BY <1>0, MovesOn
<1> HIDE DEF h, r
<1>3. (w \o h) \o r = w \o (h \o r)
  <2>1. w \in Seq(S) /\ h \in Seq(S) /\ r \in Seq(S)
    BY <1>0, <1>1
  <2> QED BY <2>1, ConcatAssociative
<1>4. (w \o p) \o q = w \o (p \o q)
  <2> QED BY <1>0, ConcatAssociative
<1>5. (w \o h) \o r = (w \o p) \o q
  BY <1>2, <1>3, <1>4
<1> QED BY <1>5 DEF h, r, Line

\* It is merged with the last of them.
LEMMA ArrivesMerged ==
  ASSUME NEW w, NEW p, NEW q, Waiting(w, p, q), p # <<>>
  PROVE  /\ Line(w, p, q) = Apart(w \o Front(p), Last(p), Head(q), Tail(q))
         /\ w \o Front(p) \in Seq(SegmentType) /\ Last(p) \in SegmentType
         /\ Head(q) \in SegmentType /\ Tail(q) \in Seq(SegmentType)
         /\ \A m \in SegmentType :
              /\ Append(Front(p), m) \in Seq(SegmentType)
              /\ Line(w, Append(Front(p), m), Tail(q))
                   = InPlace(w \o Front(p), m, Tail(q))
<1> DEFINE S == SegmentType
<1>0. w \in Seq(S) /\ p \in Seq(S) /\ q \in Seq(S) /\ q # <<>>
  BY DEF Waiting
<1> HIDE DEF S
<1> DEFINE f == Front(p)
           l == Last(p)
           h == Head(q)
           r == Tail(q)
<1>1. f \in Seq(S) /\ l \in S /\ f \o <<l>> = p
  BY <1>0, FrontAndLast
<1>2. h \in S /\ r \in Seq(S) /\ q = <<h>> \o r
  BY <1>0, HeadAndTail
<1> HIDE DEF f, l, h, r
<1>3. w \o f \in Seq(S)
  BY <1>0, <1>1, ConcatProperties
<1>4. ASSUME NEW e \in S PROVE (w \o f) \o <<e>> = w \o (f \o <<e>>)
  <2> DEFINE one == <<e>>
  <2>1. w \in Seq(S) /\ f \in Seq(S) /\ one \in Seq(S)
    BY <1>0, <1>1
  <2> HIDE DEF one
  <2>2. (w \o f) \o one = w \o (f \o one)
    BY <2>1, ConcatAssociative
  <2> QED BY <2>2 DEF one
<1>5. ASSUME NEW m \in S
      PROVE  /\ Append(f, m) \in Seq(S)
             /\ (w \o Append(f, m)) \o r = ((w \o f) \o <<m>>) \o r
  <2>1. Append(f, m) = f \o <<m>> /\ Append(f, m) \in Seq(S)
    BY <1>1, AppendIsConcat, AppendProperties
  <2> QED BY <1>4, <2>1
<1>6. (w \o p) \o q = ((w \o f) \o <<l>>) \o (<<h>> \o r)
  BY <1>1, <1>2, <1>4
<1> QED BY <1>1, <1>2, <1>3, <1>5, <1>6 DEF f, l, h, r, S, Line, Apart, InPlace

-----------------------------------------------------------------------------
\* The invariant: the types, and what is true of the stream of segments and
\* the chunks that have been parsed.
Typed ==
  /\ received \in Seq(Chunks) /\ Len(received) <= MaxChunks
  /\ rpc \in {"read", "extra", "parse", "append"}
  /\ rpc \in {"extra", "parse"} => received # <<>>
  /\ seenRoles \in [ChoiceIndices -> Roles \cup {None}]
  /\ extraMap \in BOOLEAN /\ crashed \in BOOLEAN
  /\ wpc \in {"swap", "write", "extra"}
  /\ parsed \in Seq(SegmentType) /\ pending \in Seq(SegmentType)
  /\ inflight \in Seq(SegmentType) /\ written \in Seq(SegmentType)
  /\ rpc = "append" <=> parsed # <<>>
  /\ wpc = "swap" <=> inflight = <<>>

StreamGood(E, P, seen) == PiecesGood(E, P) /\ ItemsGood(E, P) /\ RolesGood(E, P, seen)

IInv == Typed /\ StreamGood(Emitted, Parsed, seenRoles)

LEMMA InitInv == Init => IInv
<1> SUFFICES ASSUME Init PROVE IInv
  OBVIOUS
<1> USE DEF Init
<1>1. <<>> \in Seq(SegmentType) /\ <<>> \in Seq(Chunks) /\ Len(<<>>) = 0
  BY EmptySeq
<1>2. Typed
  <2>1. received \in Seq(Chunks) /\ Len(received) <= MaxChunks
    <3>1. 0 <= MaxChunks
      BY ParserAssumption
    <3> QED BY <1>1, <3>1
  <2>2. seenRoles \in [ChoiceIndices -> Roles \cup {None}]
    OBVIOUS
  <2>3. /\ parsed \in Seq(SegmentType) /\ pending \in Seq(SegmentType)
        /\ inflight \in Seq(SegmentType) /\ written \in Seq(SegmentType)
    BY <1>1
  <2> QED BY <2>1, <2>2, <2>3 DEF Typed
<1>3. Emitted = <<>>
  <2>1. <<>> \o <<>> = <<>>
    BY EmptySeq, ConcatEmptySeq
  <2> QED BY <2>1 DEF Emitted
<1>4. Parsed = <<>>
  BY DEF Parsed
<1>5. \A H : FlattenSeq(Numbered(H, <<>>)) = <<>>
  <2>1. \A H : Numbered(H, <<>>) = <<>>
    BY DEF Numbered
  <2> QED BY <2>1, FlattenEmpty
<1>6. PiecesGood(<<>>, <<>>)
  BY <1>5, FlatMapEmpty DEF PiecesGood
<1>7. ItemsGood(<<>>, <<>>)
  <2>1. SameCalls(<<>>, <<>>)
    BY DEF SameCalls
  <2> QED BY <1>5, <2>1, FlatMapEmpty DEF ItemsGood
<1>8. RolesGood(<<>>, <<>>, seenRoles)
  <2>1. NeverTwice(<<>>)
    BY <1>1 DEF NeverTwice
  <2>2. Changes(<<>>) = <<>>
    <3>1. [i \in DOMAIN <<>> |-> If(i = 1 \/ <<>>[i] # <<>>[i - 1], << <<>>[i] >>)] = <<>>
      OBVIOUS
    <3> QED BY <3>1, FlattenEmpty DEF Changes
  <2>3. \A c \in ChoiceIndices : Follows(<<>>, <<>>, seenRoles[c])
    BY <2>2 DEF Follows
  <2> QED BY <1>5, <2>1, <2>3, FlatMapEmpty DEF RolesGood
<1> QED BY <1>2, <1>3, <1>4, <1>6, <1>7, <1>8 DEF IInv, StreamGood

\* The stream after a segment has arrived in the pending buffer.
LEMMA InsertedLine ==
  ASSUME NEW w, NEW p, NEW q, Waiting(w, p, q)
  PROVE  /\ Insert(p, Head(q)) \in Seq(SegmentType)
         /\ \/ Line(w, Insert(p, Head(q)), Tail(q)) = Line(w, p, q)
            \/ \E a, s, t, b :
                 /\ MergeNext(a, s, t, b) /\ Line(w, p, q) = Apart(a, s, t, b)
                 /\ Line(w, Insert(p, Head(q)), Tail(q)) = Together(a, s, t, b)
<1>1. Head(q) \in SegmentType /\ p \in Seq(SegmentType)
  BY HeadAndTail DEF Waiting
<1>2. CASE p # <<>> /\ CanMerge(Last(p), Head(q))
  <2> DEFINE a == w \o Front(p)
             s == Last(p)
             t == Head(q)
             b == Tail(q)
             m == Merge(s, t)
  <2>1. Insert(p, Head(q)) = Append(Front(p), m)
    BY <1>2 DEF Insert
  <2>2. /\ Line(w, p, q) = Apart(a, s, t, b)
        /\ a \in Seq(SegmentType) /\ s \in SegmentType
        /\ t \in SegmentType /\ b \in Seq(SegmentType)
        /\ \A e \in SegmentType :
             /\ Append(Front(p), e) \in Seq(SegmentType)
             /\ Line(w, Append(Front(p), e), b) = InPlace(a, e, b)
    BY <1>2, ArrivesMerged
  <2>3. MergeNext(a, s, t, b)
    BY <1>2, <2>2 DEF MergeNext
  <2>4. m \in SegmentType
    BY <2>3, MergeNextFacts
  <2>6. /\ Line(w, Insert(p, Head(q)), Tail(q)) = Together(a, s, t, b)
        /\ Insert(p, Head(q)) \in Seq(SegmentType)
    BY <2>1, <2>2, <2>4 DEF Together
  <2> HIDE DEF a, s, t, b, m
  <2> QED BY <2>2, <2>3, <2>6
<1>3. CASE ~(p # <<>> /\ CanMerge(Last(p), Head(q)))
  <2>1. Insert(p, Head(q)) = Append(p, Head(q))
    BY <1>3 DEF Insert
  <2>2. Append(p, Head(q)) \in Seq(SegmentType)
    BY <1>1, AppendProperties
  <2>3. Line(w, Append(p, Head(q)), Tail(q)) = Line(w, p, q)
    BY Arrives
  <2> QED BY <2>1, <2>2, <2>3
<1> QED BY <1>2, <1>3

LEMMA Inserted ==
  ASSUME NEW w, NEW p, NEW q, Waiting(w, p, q), NEW P, NEW seen,
         StreamGood(Line(w, p, q), P, seen)
  PROVE  StreamGood(Line(w, Insert(p, Head(q)), Tail(q)), P, seen)
<1>1. CASE Line(w, Insert(p, Head(q)), Tail(q)) = Line(w, p, q)
  BY <1>1
<1>2. CASE \E a, s, t, b :
             /\ MergeNext(a, s, t, b) /\ Line(w, p, q) = Apart(a, s, t, b)
             /\ Line(w, Insert(p, Head(q)), Tail(q)) = Together(a, s, t, b)
  <2>1. PICK a, s, t, b :
          /\ MergeNext(a, s, t, b) /\ Line(w, p, q) = Apart(a, s, t, b)
          /\ Line(w, Insert(p, Head(q)), Tail(q)) = Together(a, s, t, b)
    BY <1>2
  <2>2. /\ PiecesGood(Apart(a, s, t, b), P) /\ ItemsGood(Apart(a, s, t, b), P)
        /\ RolesGood(Apart(a, s, t, b), P, seen)
    BY <2>1 DEF StreamGood
  <2>3. /\ PiecesGood(Together(a, s, t, b), P) /\ ItemsGood(Together(a, s, t, b), P)
        /\ RolesGood(Together(a, s, t, b), P, seen)
    BY <2>1, <2>2, PiecesMerged, ItemsMerged, RolesMerged
  <2> QED BY <2>1, <2>3 DEF StreamGood
<1> QED BY <1>1, <1>2, InsertedLine

-----------------------------------------------------------------------------
\* A step that moves no segment past another one.
LEMMA SameStream ==
  ASSUME IInv, Typed', Emitted' = Emitted, Parsed' = Parsed, seenRoles' = seenRoles
  PROVE  IInv'
BY DEF IInv

LEMMA ReadChunkInv ==
  ASSUME IInv, ReadChunk
  PROVE  IInv'
<1> USE DEF IInv
<1>1. PICK chunk \in Chunks :
        /\ rpc = "read" /\ Len(received) < MaxChunks
        /\ received' = Append(received, chunk)
        /\ rpc' \in {"extra", "parse"}
        /\ UNCHANGED <<parsed, seenRoles, extraMap, pending, writerVars, crashed>>
  BY DEF ReadChunk
<1>2. received \in Seq(Chunks) /\ Len(received) \in Nat /\ MaxChunks \in Nat
  BY LenProperties, ParserAssumption DEF Typed
<1>3. /\ received' \in Seq(Chunks) /\ Len(received') = Len(received) + 1 /\ received' # <<>>
  BY <1>1, <1>2, AppendProperties
<1>4. Typed'
  <2>1. Len(received') <= MaxChunks
    BY <1>1, <1>2, <1>3
  <2> QED BY <1>1, <1>3, <2>1 DEF Typed, writerVars
<1>5. Parsed' = Parsed
  <2>1. Parsed = received
    BY <1>1 DEF Parsed
  <2>2. Parsed' = Front(received')
    BY <1>1 DEF Parsed
  <2>3. Front(received') = received
    BY <1>1, <1>2, FrontOfAppend
  <2> QED BY <2>1, <2>2, <2>3
<1>6. Emitted' = Emitted /\ seenRoles' = seenRoles
  BY <1>1 DEF Emitted, writerVars
<1> QED BY <1>4, <1>5, <1>6, SameStream

LEMMA ExtraWrittenInv ==
  ASSUME IInv, ExtraWritten
  PROVE  IInv'
<1>1. Typed'
  BY DEF IInv, ExtraWritten, Typed, writerVars
<1>2. Emitted' = Emitted /\ Parsed' = Parsed /\ seenRoles' = seenRoles
  BY DEF ExtraWritten, Emitted, Parsed, writerVars
<1> QED BY <1>1, <1>2, SameStream

LEMMA ParseChunkInv ==
  ASSUME IInv, ParseChunk
  PROVE  IInv'
<1> USE DEF IInv
<1> DEFINE chunk == Last(received)
           P == Front(received)
           parse == parseChatCompletionsEvent(chunk, Len(P) + 1)
<1>1. rpc = "parse" /\ received # <<>> /\ received \in Seq(Chunks) /\ parsed = <<>>
  BY DEF ParseChunk, Typed
<1>2. /\ P \in Seq(Chunks) /\ chunk \in Chunks /\ received = Append(P, chunk)
      /\ Len(received) = Len(P) + 1
  BY <1>1, FrontAndLast
<1>3. /\ parsed' = parse /\ rpc' = "append" /\ seenRoles' = RolesNext(chunk)
      /\ UNCHANGED <<received, extraMap, pending, writerVars, crashed>>
  BY <1>2 DEF ParseChunk, RolesNext
<1>4. /\ written \in Seq(SegmentType) /\ inflight \in Seq(SegmentType)
      /\ pending \in Seq(SegmentType) /\ extraMap \in BOOLEAN
      /\ Len(received) <= MaxChunks
      /\ seenRoles \in [ChoiceIndices -> Roles \cup {None}]
  BY DEF Typed
<1>5. Parsed = P /\ Parsed' = Append(P, chunk)
  BY <1>1, <1>2, <1>3 DEF Parsed
<1> HIDE DEF parse, chunk, P
<1> DEFINE E == (written \o inflight) \o pending
<1>6. E \in Seq(SegmentType)
  BY <1>4, ConcatProperties
<1>7. Emitted = E /\ Emitted' = E \o parse
  <2>1. Emitted = E \o <<>> /\ Emitted' = E \o parse
    BY <1>1, <1>3 DEF Emitted, writerVars
  <2> HIDE DEF E
  <2> QED BY <1>6, <2>1, NothingAdded
<1> HIDE DEF E
<1>8. ChunkNext(E, P, chunk)
  <2>1. Len(P) < MaxChunks
    <3>1. Len(P) \in Nat /\ MaxChunks \in Nat
      BY <1>2, LenProperties, ParserAssumption
    <3> QED BY <1>2, <1>4, <3>1
  <2> QED BY <1>2, <1>4, <1>6, <2>1 DEF ChunkNext
<1>9. PiecesGood(E, P) /\ ItemsGood(E, P) /\ RolesGood(E, P, seenRoles)
  BY <1>5, <1>7 DEF StreamGood
<1>10. /\ PiecesGood(E \o parse, Append(P, chunk)) /\ ItemsGood(E \o parse, Append(P, chunk))
       /\ RolesGood(E \o parse, Append(P, chunk), RolesNext(chunk))
       /\ RolesNext(chunk) \in [ChoiceIndices -> Roles \cup {None}]
  BY <1>4, <1>8, <1>9, PiecesParsed, ItemsParsed, RolesParsed DEF parse
<1>11. StreamGood(Emitted', Parsed', seenRoles')
  BY <1>3, <1>5, <1>7, <1>10 DEF StreamGood
<1>12. Typed'
  <2>1. parse \in Seq(SegmentType) /\ parse # <<>>
    BY <1>8, ChunkNextFacts DEF parse
  <2> QED BY <1>3, <1>10, <2>1 DEF Typed, writerVars
<1> QED BY <1>11, <1>12

LEMMA AppendSegmentInv ==
  ASSUME IInv, AppendSegment
  PROVE  IInv'
<1> DEFINE w == written \o inflight
<1>1. /\ rpc = "append" /\ parsed # <<>> /\ parsed \in Seq(SegmentType)
      /\ pending \in Seq(SegmentType)
  BY DEF IInv, AppendSegment, Typed
<1>2. /\ pending' = Insert(pending, Head(parsed)) /\ parsed' = Tail(parsed)
      /\ rpc' = IF Tail(parsed) = <<>> THEN "read" ELSE "append"
      /\ UNCHANGED <<received, seenRoles, extraMap, writerVars, crashed>>
  BY DEF AppendSegment
<1>3. w \in Seq(SegmentType)
  <2>1. written \in Seq(SegmentType) /\ inflight \in Seq(SegmentType)
    BY DEF IInv, Typed
  <2> QED BY <2>1, ConcatProperties
<1>4. Tail(parsed) \in Seq(SegmentType)
  BY <1>1, HeadAndTail
<1>5. Emitted = Line(w, pending, parsed) /\ Emitted' = Line(w, pending', parsed')
  BY <1>2 DEF Emitted, Line, writerVars
<1>6. Parsed' = Parsed /\ seenRoles' = seenRoles
  BY <1>1, <1>2 DEF Parsed
<1> HIDE DEF w
<1>7. Waiting(w, pending, parsed)
  BY <1>1, <1>3 DEF Waiting
<1>8. StreamGood(Line(w, pending, parsed), Parsed, seenRoles)
  BY <1>5 DEF IInv
<1>9. StreamGood(Line(w, Insert(pending, Head(parsed)), Tail(parsed)), Parsed, seenRoles)
  BY <1>7, <1>8, Inserted
<1>10. StreamGood(Emitted', Parsed', seenRoles')
  BY <1>2, <1>5, <1>6, <1>9
<1>11. Typed'
  <2>1. Insert(pending, Head(parsed)) \in Seq(SegmentType)
    BY <1>7, InsertedLine
  <2> QED BY <1>1, <1>2, <1>4, <2>1 DEF IInv, Typed, writerVars
<1> QED BY <1>10, <1>11 DEF IInv

LEMMA TakeSnapshotInv ==
  ASSUME IInv, TakeSnapshot
  PROVE  IInv'
<1>1. /\ inflight' = pending /\ pending' = <<>> /\ wpc' = "write"
      /\ pending # <<>> /\ wpc = "swap" /\ UNCHANGED <<readerVars, written, crashed>>
  BY DEF TakeSnapshot
<1>2. /\ inflight = <<>> /\ written \in Seq(SegmentType)
      /\ pending \in Seq(SegmentType)
  BY <1>1 DEF IInv, Typed
<1>3. <<>> \in Seq(SegmentType)
  BY EmptySeq
<1>4. Typed'
  BY <1>1, <1>2, <1>3 DEF IInv, Typed, readerVars
<1>5. Emitted' = Emitted
  <2> DEFINE wp == written \o pending
  <2>1. wp \in Seq(SegmentType) /\ written \o <<>> = written
    BY <1>2, ConcatProperties, ConcatEmptySeq
  <2>2. Emitted = ((written \o <<>>) \o pending) \o parsed
    BY <1>2 DEF Emitted
  <2>3. Emitted' = (wp \o <<>>) \o parsed
    BY <1>1 DEF Emitted, readerVars
  <2>4. Emitted = wp \o parsed
    BY <2>1, <2>2
  <2> HIDE DEF wp
  <2>5. wp \o <<>> = wp
    BY <2>1, ConcatEmptySeq
  <2> QED BY <2>3, <2>4, <2>5
<1>6. Parsed' = Parsed /\ seenRoles' = seenRoles
  BY <1>1 DEF Parsed, readerVars
<1> QED BY <1>4, <1>5, <1>6, SameStream

LEMMA StartIterationInv ==
  ASSUME IInv, StartIteration
  PROVE  IInv'
<1>1. Typed'
  BY DEF IInv, StartIteration, Typed, readerVars
<1>2. Emitted' = Emitted /\ Parsed' = Parsed /\ seenRoles' = seenRoles
  BY DEF StartIteration, Emitted, Parsed, readerVars
<1> QED BY <1>1, <1>2, SameStream

LEMMA WriteSegmentInv ==
  ASSUME IInv, WriteSegment
  PROVE  IInv'
<1>1. /\ wpc \in {"extra", "write"}
      /\ written' = Append(written, Head(inflight)) /\ inflight' = Tail(inflight)
      /\ wpc' = IF Tail(inflight) = <<>> THEN "swap" ELSE "write"
      /\ UNCHANGED <<readerVars, pending, crashed>>
  BY DEF WriteSegment
<1>2. /\ inflight # <<>> /\ written \in Seq(SegmentType)
      /\ inflight \in Seq(SegmentType)
  BY <1>1 DEF IInv, Typed
<1>3. Head(inflight) \in SegmentType /\ Tail(inflight) \in Seq(SegmentType)
  BY <1>2, HeadAndTail
<1>4. Append(written, Head(inflight)) \in Seq(SegmentType)
  BY <1>2, <1>3, AppendProperties
<1>5. Typed'
  BY <1>1, <1>3, <1>4 DEF IInv, Typed, readerVars
<1>6. Emitted' = Emitted
  <2>1. Append(written, Head(inflight)) \o Tail(inflight) = written \o inflight
    BY <1>2, MovesOn
  <2>2. Emitted' = ((Append(written, Head(inflight)) \o Tail(inflight)) \o pending) \o parsed
    BY <1>1 DEF Emitted, readerVars
  <2> QED BY <2>1, <2>2 DEF Emitted
<1>7. Parsed' = Parsed /\ seenRoles' = seenRoles
  BY <1>1 DEF Parsed, readerVars
<1> QED BY <1>5, <1>6, <1>7, SameStream

LEMMA ConcurrentMapAccessInv ==
  ASSUME IInv, ConcurrentMapAccess
  PROVE  IInv'
<1>1. Typed'
  BY DEF IInv, ConcurrentMapAccess, Typed, readerVars, writerVars
<1>2. Emitted' = Emitted /\ Parsed' = Parsed /\ seenRoles' = seenRoles
  BY DEF ConcurrentMapAccess, Emitted, Parsed, readerVars, writerVars
<1> QED BY <1>1, <1>2, SameStream

LEMMA StutterInv ==
  ASSUME IInv, UNCHANGED vars
  PROVE  IInv'
<1>1. Typed'
  BY DEF IInv, vars, Typed, readerVars, writerVars
<1>2. Emitted' = Emitted /\ Parsed' = Parsed /\ seenRoles' = seenRoles
  BY DEF vars, Emitted, Parsed, readerVars, writerVars
<1> QED BY <1>1, <1>2, SameStream

LEMMA NextInv == IInv /\ [Next]_vars => IInv'
<1> SUFFICES ASSUME IInv, [Next]_vars PROVE IInv'
  OBVIOUS
<1>1. CASE ReadChunk
  BY <1>1, ReadChunkInv
<1>2. CASE ExtraWritten
  BY <1>2, ExtraWrittenInv
<1>3. CASE ParseChunk
  BY <1>3, ParseChunkInv
<1>4. CASE AppendSegment
  BY <1>4, AppendSegmentInv
<1>5. CASE TakeSnapshot
  BY <1>5, TakeSnapshotInv
<1>6. CASE StartIteration
  BY <1>6, StartIterationInv
<1>7. CASE WriteSegment
  BY <1>7, WriteSegmentInv
<1>8. CASE ConcurrentMapAccess
  BY <1>8, ConcurrentMapAccessInv
<1>9. CASE Terminated \/ UNCHANGED vars
  BY <1>9, StutterInv DEF Terminated
<1> QED BY <1>1, <1>2, <1>3, <1>4, <1>5, <1>6, <1>7, <1>8, <1>9 DEF Next

-----------------------------------------------------------------------------
\* What the invariant says of the properties.
LEMMA StreamTyped ==
  ASSUME Typed
  PROVE  /\ Emitted \in Seq(SegmentType)
         /\ \A i \in DOMAIN Emitted : Emitted[i] \in SegmentType
         /\ Parsed \in Seq(Chunks) /\ Len(Parsed) <= MaxChunks
         /\ \A n \in DOMAIN Parsed : <<Parsed[n], n>> \in NumberedChunk
<1>1. Emitted \in Seq(SegmentType)
  <2> DEFINE wi == written \o inflight
             wip == wi \o pending
  <2>1. /\ written \in Seq(SegmentType) /\ inflight \in Seq(SegmentType)
        /\ pending \in Seq(SegmentType) /\ parsed \in Seq(SegmentType)
    BY DEF Typed
  <2>2. wi \in Seq(SegmentType)
    BY <2>1, ConcatProperties
  <2> HIDE DEF wi
  <2>3. wip \in Seq(SegmentType)
    BY <2>1, <2>2, ConcatProperties
  <2> HIDE DEF wip
  <2>4. wip \o parsed \in Seq(SegmentType)
    BY <2>1, <2>3, ConcatProperties
  <2> QED BY <2>4 DEF Emitted, wip, wi
<1>2. Parsed \in Seq(Chunks) /\ Len(Parsed) <= MaxChunks
  <2>1. /\ received \in Seq(Chunks) /\ Len(received) <= MaxChunks
        /\ rpc \in {"extra", "parse"} => received # <<>>
    BY DEF Typed
  <2>2. CASE rpc \in {"extra", "parse"}
    <3>1. Front(received) \in Seq(Chunks) /\ Len(received) = Len(Front(received)) + 1
      BY <2>1, <2>2, FrontAndLast
    <3>2. Len(Front(received)) \in Nat /\ MaxChunks \in Nat
      BY <3>1, LenProperties, ParserAssumption
    <3>3. Len(Front(received)) <= MaxChunks
      BY <2>1, <3>1, <3>2
    <3> QED BY <2>2, <3>1, <3>3 DEF Parsed
  <2>3. CASE rpc \notin {"extra", "parse"}
    BY <2>1, <2>3 DEF Parsed
  <2> QED BY <2>2, <2>3
<1>3. ASSUME NEW n \in DOMAIN Parsed PROVE <<Parsed[n], n>> \in NumberedChunk
  <2>1. n \in 1 .. Len(Parsed) /\ Len(Parsed) \in Nat
    BY <1>2, LenProperties
  <2>2. n \in 1 .. MaxChunks
    BY <1>2, <2>1, ParserAssumption
  <2>3. Parsed[n] \in Chunks
    BY <1>2, <2>1, ElementOfSeq
  <2> QED BY <2>2, <2>3 DEF NumberedChunk
<1>4. ASSUME NEW i \in DOMAIN Emitted PROVE Emitted[i] \in SegmentType
  <2>1. i \in 1 .. Len(Emitted)
    BY <1>1, LenProperties
  <2> QED BY <1>1, <2>1, ElementOfSeq
<1> QED BY <1>1, <1>2, <1>3, <1>4

LEMMA SetOfSegments ==
  ASSUME NEW s \in Seq(SegmentType)
  PROVE  ToSet(s) \subseteq SegmentType
<1>1. DOMAIN s = 1 .. Len(s) /\ \A i \in 1 .. Len(s) : s[i] \in SegmentType
  BY LenProperties, ElementOfSeq
<1> QED BY <1>1 DEF ToSet

LEMMA TypedIsTypeOK == Typed => TypeOK
<1> SUFFICES ASSUME Typed PROVE TypeOK
  OBVIOUS
<1>1. ASSUME NEW s \in SegmentType PROVE IsSegment(s)
  BY SegmentFacts DEF IsSegment, Kinds, SegmentFields
<1>2. ToSet(parsed \o pending \o inflight \o written) \subseteq SegmentType
  <2> DEFINE pp == parsed \o pending
             ppi == pp \o inflight
  <2>1. /\ written \in Seq(SegmentType) /\ inflight \in Seq(SegmentType)
        /\ pending \in Seq(SegmentType) /\ parsed \in Seq(SegmentType)
    BY DEF Typed
  <2>2. pp \in Seq(SegmentType)
    BY <2>1, ConcatProperties
  <2> HIDE DEF pp
  <2>3. ppi \in Seq(SegmentType)
    BY <2>1, <2>2, ConcatProperties
  <2> HIDE DEF ppi
  <2>4. ppi \o written \in Seq(SegmentType)
    BY <2>1, <2>3, ConcatProperties
  <2>5. ToSet(ppi \o written) \subseteq SegmentType
    BY <2>4, SetOfSegments
  <2> QED BY <2>5 DEF ppi, pp
<1> QED BY <1>1, <1>2 DEF Typed, TypeOK

LEMMA RolesFollow == IInv => RolesExact
<1> SUFFICES ASSUME IInv, NEW c \in ChoiceIndices
             PROVE  /\ RolesOf(c) = Changes(RolesSent(c))
                    /\ Changes(RolesTold(c)) = Changes(RolesSent(c))
  BY DEF RolesExact
<1>1. /\ \A i \in DOMAIN Emitted : Emitted[i] \in SegmentType
      /\ \A n \in DOMAIN Parsed : <<Parsed[n], n>> \in NumberedChunk
  BY StreamTyped DEF IInv
<1>2. RolesOf(c) = FlatMap(RoleF(c), Emitted)
  <2>1. Mapped(RoleF(c), Emitted) = [i \in DOMAIN Emitted |-> Role(Emitted[i], c)]
    BY <1>1 DEF Mapped, RoleF
  <2> QED BY <2>1 DEF RolesOf, FlatMap
<1>3. RolesTold(c) = FlatMap(ToldF(c), Emitted)
  <2>1. Mapped(ToldF(c), Emitted) = [i \in DOMAIN Emitted |-> Told(Emitted[i], c)]
    BY <1>1 DEF Mapped, ToldF
  <2> QED BY <2>1 DEF RolesTold, FlatMap
<1>4. RolesSent(c) = FlattenSeq(Numbered(SentH(c), Parsed))
  <2>1. Numbered(SentH(c), Parsed)
          = [n \in DOMAIN Parsed |-> RolesIn(ChoicesOf(Parsed[n]), c)]
    BY <1>1 DEF Numbered, SentH
  <2> QED BY <2>1 DEF RolesSent
<1>5. RolesGood(Emitted, Parsed, seenRoles)
  BY DEF IInv, StreamGood
<1> QED BY <1>2, <1>3, <1>4, <1>5 DEF RolesGood, Follows

LEMMA OrderFollows == IInv => CausalOrder
<1> SUFFICES ASSUME IInv PROVE CausalOrder
  OBVIOUS
<1>1. /\ \A i \in DOMAIN Emitted : Emitted[i] \in SegmentType
      /\ \A n \in DOMAIN Parsed : <<Parsed[n], n>> \in NumberedChunk
  BY StreamTyped DEF IInv
<1>2. Mapped(PiecesF, Emitted) = [i \in DOMAIN Emitted |-> SegmentPieces(Emitted[i])]
  BY <1>1 DEF Mapped, PiecesF
<1>3. Numbered(PiecesH, Parsed) = [n \in DOMAIN Parsed |-> ChunkPieces(Parsed[n], n)]
  BY <1>1 DEF Numbered, PiecesH
<1>4. FlatMap(PiecesF, Emitted) = FlattenSeq(Numbered(PiecesH, Parsed))
  BY DEF IInv, StreamGood, PiecesGood
<1> QED BY <1>2, <1>3, <1>4 DEF CausalOrder, FlatMap

\* Where an index stands for one call upstream, no two ids of it differ.
LEMMA OneNameUpstream ==
  ASSUME NEW items \in Seq(ItemType),
         \A i, j \in DOMAIN items :
           items[i].choice = items[j].choice /\ items[i].index = items[j].index =>
             None \in {items[i].id, items[j].id} \/ items[i].id = items[j].id
  PROVE  OneName(items)
<1> SUFFICES ASSUME NEW c \in ChoiceIndices, NEW k \in ToolIndices,
                    NEW x \in Names(items, c, k), NEW y \in Names(items, c, k)
             PROVE  None \in {x, y} \/ x = y
  BY DEF OneName
<1>1. ASSUME NEW z \in Names(items, c, k), z # None
      PROVE  \E i \in DOMAIN items :
               items[i].choice = c /\ items[i].index = k /\ items[i].id = z
  <2>1. PICK t \in ToSet(items) : t.choice = c /\ t.index = k /\ z \in {None, t.id}
    BY DEF Names, ItemsFor
  <2> QED BY <1>1, <2>1 DEF ToSet
<1>2. CASE x # None /\ y # None
  <2>1. PICK i \in DOMAIN items :
          items[i].choice = c /\ items[i].index = k /\ items[i].id = x
    BY <1>1, <1>2
  <2>2. PICK j \in DOMAIN items :
          items[j].choice = c /\ items[j].index = k /\ items[j].id = y
    BY <1>1, <1>2
  <2> QED BY <2>1, <2>2
<1>3. CASE ~(x # None /\ y # None)
  BY <1>3
<1> QED BY <1>2, <1>3

LEMMA CallsFollow == IInv => ToolCallsIsolated
<1> SUFFICES ASSUME IInv, OneDeltaPerCall
             PROVE  /\ ArgumentsKept
                    /\ IndexNamesOneCall => Delivered(EmittedItems) = Delivered(ReceivedItems)
  BY DEF ToolCallsIsolated
<1>1. /\ Emitted \in Seq(SegmentType) /\ Parsed \in Seq(Chunks) /\ Len(Parsed) <= MaxChunks
      /\ \A i \in DOMAIN Emitted : Emitted[i] \in SegmentType
      /\ \A n \in DOMAIN Parsed : <<Parsed[n], n>> \in NumberedChunk
  BY StreamTyped DEF IInv
<1>2. EmittedItems = FlatMap(ItemsF, Emitted)
  <2>1. Mapped(ItemsF, Emitted) = [i \in DOMAIN Emitted |-> ItemsOf(Emitted[i])]
    BY <1>1 DEF Mapped, ItemsF
  <2> QED BY <2>1 DEF EmittedItems, FlatMap
<1>3. ReceivedItems = FlattenSeq(Numbered(UpstreamH, Parsed))
  <2>1. Numbered(UpstreamH, Parsed) = [n \in DOMAIN Parsed |-> UpstreamItems(Parsed[n], n)]
    BY <1>1 DEF Numbered, UpstreamH
  <2> QED BY <2>1 DEF ReceivedItems
<1>4. EmittedItems \in Seq(ItemType)
  BY <1>1, <1>2, ItemsMaps, FlatMapType
<1>5. ReceivedItems \in Seq(ItemType)
  BY <1>1, <1>3, UpstreamHMaps, NumberedTyped
<1>6. OneDeltas(Parsed)
  BY DEF OneDeltaPerCall, OneDeltas, OneDelta
<1>7. SameCalls(EmittedItems, ReceivedItems)
  BY <1>2, <1>3, <1>6 DEF IInv, StreamGood, ItemsGood
<1>8. ArgumentsKept
  BY <1>7 DEF SameCalls, ArgumentsKept
<1>9. ASSUME IndexNamesOneCall PROVE Delivered(EmittedItems) = Delivered(ReceivedItems)
  <2>1. OneName(ReceivedItems)
    BY <1>5, <1>9, OneNameUpstream DEF IndexNamesOneCall
  <2>2. OneName(EmittedItems)
    BY <1>7, <2>1 DEF OneName, SameCalls
  <2>3. /\ Delivered(EmittedItems) = ClosedDelivery(EmittedItems)
        /\ Delivered(ReceivedItems) = ClosedDelivery(ReceivedItems)
    BY <1>4, <1>5, <2>1, <2>2, DeliveredClosed
  <2>4. ClosedDelivery(EmittedItems) = ClosedDelivery(ReceivedItems)
    <3>1. \A key \in ChoiceIndices \X ToolIndices :
            /\ Names(EmittedItems, key[1], key[2]) = Names(ReceivedItems, key[1], key[2])
            /\ ArgumentsOf(EmittedItems, key[1], key[2])
                 = ArgumentsOf(ReceivedItems, key[1], key[2])
      BY <1>7 DEF SameCalls
    <3> QED BY <3>1 DEF ClosedDelivery
  <2> QED BY <2>3, <2>4
<1> QED BY <1>8, <1>9

-----------------------------------------------------------------------------
\* The invariant holds throughout.
LEMMA InvHolds == Spec => []IInv
BY InitInv, NextInv, PTL DEF Spec

\* Every variable keeps its type; a program counter says what is there to do:
\* the reader never takes from an empty chunk, the writer never from an empty
\* snapshot (parser.go:81, stream.go:166-299).
THEOREM ChatTypeOK == Spec => []TypeOK
<1>1. IInv => TypeOK
  BY TypedIsTypeOK DEF IInv
<1> QED BY <1>1, InvHolds, PTL

\* A role segment is emitted for every change of a choice's role upstream, and
\* for nothing else (parser.go:231); where a chunk with only known roles is
\* passed on as it is (parser.go:136-142, serializer.go:180-184), the role it
\* repeats to the client is the one the choice has there.  For any chunks, and
\* although segments with the same role may merge (they never meet).
THEOREM ChatRolesExact == Spec => []RolesExact
BY RolesFollow, InvHolds, PTL

\* Parsing, merging and the two goroutines keep the order of the stream, over
\* all choices and kinds (parser.go:222-336, segments.go:22-175, buffer.go:69).
THEOREM ChatCausalOrder == Spec => []CausalOrder
BY OrderFollows, InvHolds, PTL

\* The arguments of every call reach the client byte for byte, and a client
\* that puts the calls together by their ids gets those of upstream
\* (segments.go:115-147, parser.go:271-291), for any chunks that name a call once
\* and any way the reader and the writer take turns.
THEOREM ChatToolCallsIsolated == Spec => []ToolCallsIsolated
BY CallsFollow, InvHolds, PTL

=============================================================================
