------------------------- MODULE HttpExchangeProofs -------------------------
(***************************************************************************)
(* Proofs about the exchange with one client, for requests of any number   *)
(* and length, files of any size and any int, in all three builds, and     *)
(* about decodeMsg, which HttpExchange leaves out.                         *)
(*                                                                         *)
(* The inductive invariant has one part for each thing the properties      *)
(* depend on: ControlInv says where the parser stands at each place of the *)
(* loop, ParserInv where in the script the parser is, BufferInv what the   *)
(* write buffer may hold, FirstInv how far the reply to the first request  *)
(* has come, and ReplyInv that the wire stays as it is after a reset.      *)
(***************************************************************************)
EXTENDS HttpExchange, UrlDecode, SequenceTheorems, WellFoundedInduction, TLAPS

-----------------------------------------------------------------------------
(***************************************************************************)
(* Induction over the natural numbers, from the least element of a set,    *)
(* and what FlattenSeq makes of sequences.                                 *)
(***************************************************************************)
LessThan == {ss \in Nat \X Nat : ss[1] < ss[2]}

(* A set of numbers that is not empty has a least one.                     *)
LEMMA LeastNumber ==
  ASSUME NEW S \in SUBSET Nat, S # {}
  PROVE  \E n \in S : \A m \in S : n <= m
<1>1. LessThan = OpToRel(<, Nat)
  BY Zenon DEF LessThan, OpToRel
<1>2. IsWellFoundedOn(LessThan, Nat)
  BY <1>1, NatLessThanWellFounded, Zenon
<1>3. PICK n \in S : \A m \in S : ~(<<m, n>> \in LessThan)
  BY <1>2, WFMin, Zenon
<1>4. \A m \in S : <<m, n>> \in LessThan <=> m < n
  BY DEF LessThan
<1>5. \A m \in S : ~(m < n)
  BY <1>3, <1>4, Zenon
<1> QED BY <1>5

(* Induction, over a set in place of a predicate.                          *)
LEMMA Induction ==
  ASSUME NEW S, 0 \in S, \A n \in Nat : n \in S => n + 1 \in S
  PROVE  Nat \subseteq S
<1> SUFFICES ASSUME Nat \ S # {} PROVE FALSE
  OBVIOUS
<1>1. PICK n \in Nat \ S : \A m \in Nat \ S : n <= m
  BY LeastNumber
<1>2. n # 0 /\ n - 1 \in Nat /\ ~(n <= n - 1)
  BY <1>1
<1>3. n - 1 \in S
  BY <1>1, <1>2
<1> QED BY <1>1, <1>2, <1>3

(* FlattenSeq's definition has a function of this form inside it.          *)
Join(s, t) == s \o t
IsFlat(f, s, n) == f = [i \in 1 .. n |-> IF i = 1 THEN s[i] ELSE Join(f[i - 1], s[i])]

(* There is such a function, however long the sequence.                    *)
LEMMA FlatExists ==
  ASSUME NEW s, NEW n \in Nat
  PROVE  \E f : IsFlat(f, s, n)
<1> DEFINE S == {m \in Nat : \E f : IsFlat(f, s, m)}
<1>1. 0 \in S
  <2>1. IsFlat(<<>>, s, 0)
    BY DEF IsFlat
  <2> QED BY <2>1
<1>2. ASSUME NEW m \in Nat, m \in S PROVE m + 1 \in S
  <2>1. PICK f : IsFlat(f, s, m)
    BY <1>2
  <2> DEFINE g == [i \in 1 .. m + 1 |-> IF i <= m THEN f[i] ELSE IF i = 1 THEN s[i] ELSE Join(f[m], s[i])]
  <2>2. ASSUME NEW i \in 1 .. m + 1 PROVE g[i] = IF i = 1 THEN s[i] ELSE Join(g[i - 1], s[i])
    <3>1. CASE i <= m
      BY <2>1, <3>1 DEF IsFlat
    <3>2. CASE i = m + 1 /\ i # 1
      <4>1. i - 1 = m /\ m \in 1 .. m + 1
        BY <3>2
      <4>2. g[i] = Join(f[m], s[i]) /\ g[m] = f[m]
        BY <3>2, <4>1
      <4> QED BY <3>2, <4>1, <4>2
    <3>3. CASE i = m + 1 /\ i = 1
      BY <3>3
    <3> QED BY <3>1, <3>2, <3>3
  <2>3. g = [i \in 1 .. m + 1 |-> g[i]]
    OBVIOUS
  <2>4. IsFlat(g, s, m + 1)
    <3> HIDE DEF g
    <3> QED BY <2>2, <2>3, Zenon DEF IsFlat
  <2> QED BY <2>4
<1> HIDE DEF S
<1>3. Nat \subseteq S
  BY <1>1, <1>2, Induction
<1> QED BY <1>3 DEF S

(* FlattenSeq returns the last value of such a function.                   *)
LEMMA FlatIs ==
  ASSUME NEW s, Len(s) \in Nat, Len(s) # 0
  PROVE  \E f : IsFlat(f, s, Len(s)) /\ FlattenSeq(s) = f[Len(s)]
<1> DEFINE f == CHOOSE g : g = [i \in 1 .. Len(s) |-> IF i = 1 THEN s[i] ELSE g[i - 1] \o s[i]]
<1>1. FlattenSeq(s) = f[Len(s)]
  BY Zenon DEF FlattenSeq
<1>2. IsFlat(f, s, Len(s))
  BY FlatExists, Zenon DEF IsFlat, Join
<1> QED BY <1>1, <1>2

(* FlattenSeq of no sequence, and of one more. *)
LEMMA FlatStep ==
  ASSUME NEW S, NEW s \in Seq(Seq(S)), NEW f, IsFlat(f, s, Len(s))
  PROVE  /\ Len(s) > 0 => f[1] = s[1]
         /\ \A i \in 1 .. Len(s) - 1 : f[i + 1] = Join(f[i], s[i + 1])
<1>1. Len(s) \in Nat
  OBVIOUS
<1>2. ASSUME NEW i \in 1 .. Len(s) PROVE f[i] = IF i = 1 THEN s[i] ELSE Join(f[i - 1], s[i])
  BY DEF IsFlat
<1>3. ASSUME NEW i \in 1 .. Len(s) - 1 PROVE f[i + 1] = Join(f[i], s[i + 1])
  <2>1. i + 1 \in 1 .. Len(s) /\ i + 1 # 1 /\ (i + 1) - 1 = i
    BY <1>1
  <2> QED BY <1>2, <2>1, Zenon
<1> QED BY <1>1, <1>2, <1>3

(* Of the first k sequences of s. *)
FlatTo(s, k) == FlattenSeq(SubSeq(s, 1, k))

(* Two sequences that start the same flatten to the same that far.         *)
LEMMA FlatAgree ==
  ASSUME NEW S, NEW s \in Seq(Seq(S)), NEW t \in Seq(Seq(S)), NEW f, NEW g,
         IsFlat(f, s, Len(s)), IsFlat(g, t, Len(t)),
         Len(s) <= Len(t), \A i \in 1 .. Len(s) : s[i] = t[i]
  PROVE  \A i \in 1 .. Len(s) : f[i] = g[i] /\ f[i] \in Seq(S)
<1> DEFINE P(i) == i \in 1 .. Len(s) => f[i] = g[i] /\ f[i] \in Seq(S)
           T == {i \in Nat : P(i)}
<1>1. Len(s) \in Nat /\ Len(t) \in Nat
  OBVIOUS
<1>2. 0 \in T
  OBVIOUS
<1>3. ASSUME NEW i \in Nat, i \in T PROVE i + 1 \in T
  <2> SUFFICES ASSUME i + 1 \in 1 .. Len(s) PROVE f[i + 1] = g[i + 1] /\ f[i + 1] \in Seq(S)
    OBVIOUS
  <2>1. s[i + 1] = t[i + 1] /\ s[i + 1] \in Seq(S)
    OBVIOUS
  <2>2. CASE i = 0
    <3>1. f[1] = s[1] /\ g[1] = t[1]
      BY <1>1, <2>2, FlatStep
    <3> QED BY <2>1, <2>2, <3>1
  <2>3. CASE i # 0
    <3>1. i \in 1 .. Len(s) - 1 /\ i \in 1 .. Len(t) - 1
      BY <1>1, <2>3
    <3>2. f[i + 1] = Join(f[i], s[i + 1]) /\ g[i + 1] = Join(g[i], t[i + 1])
      BY <3>1, FlatStep
    <3>3. f[i] = g[i] /\ f[i] \in Seq(S)
      BY <1>1, <1>3, <3>1
    <3>4. Join(f[i], s[i + 1]) \in Seq(S)
      BY <2>1, <3>3 DEF Join
    <3> QED BY <2>1, <3>2, <3>3, <3>4
  <2> QED BY <2>2, <2>3
<1>4. Nat \subseteq T
  <2> HIDE DEF T
  <2> QED BY <1>2, <1>3, Induction
<1>5. \A i \in 1 .. Len(s) : i \in T
  BY <1>1, <1>4
<1> QED BY <1>5

(* FlattenSeq of no sequence.                                              *)
LEMMA FlattenEmpty == FlattenSeq(<<>>) = <<>>
  BY DEF FlattenSeq

(* One sequence more is appended.                                          *)
LEMMA FlattenMore ==
  ASSUME NEW S, NEW s \in Seq(Seq(S)), NEW k \in 0 .. Len(s) - 1
  PROVE  /\ FlatTo(s, k) \in Seq(S)
         /\ FlatTo(s, k + 1) = FlatTo(s, k) \o s[k + 1]
<1> DEFINE t == SubSeq(s, 1, k)
           u == SubSeq(s, 1, k + 1)
<1>0. Len(s) \in Nat /\ k \in Nat /\ k + 1 \in Nat /\ k + 1 <= Len(s)
  OBVIOUS
<1>1. /\ t \in Seq(Seq(S)) /\ Len(t) = k
      /\ \A i \in 1 .. k : t[i] = s[i]
  BY <1>0, SubSeqProperties
<1>2. /\ u \in Seq(Seq(S)) /\ Len(u) = k + 1
      /\ \A i \in 1 .. k + 1 : u[i] = s[i]
  BY <1>0, SubSeqProperties
<1>3. s[k + 1] \in Seq(S)
  BY <1>0
<1> HIDE DEF t, u
<1>4. Len(u) \in Nat /\ Len(u) # 0
  BY <1>0, <1>2
<1>5. PICK g : IsFlat(g, u, Len(u)) /\ FlattenSeq(u) = g[Len(u)]
  BY <1>4, FlatIs, Zenon
<1>6. CASE k = 0
  <2>1. t = <<>> /\ Len(u) = 1 /\ u[1] = s[1]
    BY <1>1, <1>2, <1>6
  <2>2. FlattenSeq(u) = s[k + 1]
    <3>0. Len(u) > 0
      BY <2>1
    <3>1. g[1] = u[1]
      BY <1>2, <1>5, <3>0, FlatStep, Zenon
    <3> QED BY <1>5, <1>6, <2>1, <3>1
  <2>3. <<>> \o s[k + 1] = s[k + 1] /\ <<>> \in Seq(S)
    BY <1>3, ConcatEmptySeq, EmptySeq
  <2> QED BY <1>6, <2>1, <2>2, <2>3, FlattenEmpty, Zenon DEF FlatTo, t, u
<1>7. CASE k # 0
  <2>0. Len(t) \in Nat /\ Len(t) # 0
    BY <1>0, <1>1, <1>7
  <2>1. PICK f : IsFlat(f, t, Len(t)) /\ FlattenSeq(t) = f[Len(t)]
    BY <2>0, FlatIs, Zenon
  <2>2. f[k] = g[k] /\ f[k] \in Seq(S)
    <3>1. k \in 1 .. Len(t) /\ Len(t) <= Len(u)
      BY <1>0, <1>1, <1>2, <1>7
    <3>2. ASSUME NEW i \in 1 .. Len(t) PROVE t[i] = u[i]
      <4>1. i \in 1 .. k /\ i \in 1 .. k + 1
        BY <1>0, <1>1
      <4>2. t[i] = s[i] /\ u[i] = s[i]
        BY <1>1, <1>2, <4>1, Zenon
      <4> QED BY <4>2
    <3> HIDE DEF FlatTo
    <3>3. \A i \in 1 .. Len(t) : f[i] = g[i] /\ f[i] \in Seq(S)
      BY <1>1, <1>2, <1>5, <2>1, <3>1, <3>2, FlatAgree
    <3> QED BY <3>1, <3>3
  <2>3. g[k + 1] = Join(g[k], u[k + 1])
    <3>1. k \in 1 .. Len(u) - 1
      BY <1>0, <1>2, <1>7
    <3>2. \A i \in 1 .. Len(u) - 1 : g[i + 1] = Join(g[i], u[i + 1])
      BY <1>2, <1>5, FlatStep
    <3> QED BY <3>1, <3>2
  <2>4. /\ FlattenSeq(u) = Join(FlattenSeq(t), s[k + 1])
        /\ FlattenSeq(t) \in Seq(S)
    <3>1. u[k + 1] = s[k + 1]
      BY <1>0, <1>2
    <3> QED BY <1>1, <1>2, <1>5, <2>1, <2>2, <2>3, <3>1
  <2> QED BY <2>4, Zenon DEF FlatTo, Join, t, u
<1> QED BY <1>6, <1>7

(* The first none of the sequences, and all of them.                       *)
LEMMA FlattenEnds ==
  ASSUME NEW S, NEW s \in Seq(Seq(S))
  PROVE  FlatTo(s, 0) = <<>> /\ FlatTo(s, Len(s)) = FlattenSeq(s)
<1>1. SubSeq(s, 1, 0) = <<>> /\ SubSeq(s, 1, Len(s)) = s
  BY SubSeqEmpty, SubSeqFull
<1> QED BY <1>1, FlattenEmpty DEF FlatTo

(* The type of what the first k sequences flatten to.                      *)
LEMMA FlattenType ==
  ASSUME NEW S, NEW s \in Seq(Seq(S)), NEW k \in 0 .. Len(s)
  PROVE  FlatTo(s, k) \in Seq(S) /\ Len(FlatTo(s, k)) \in Nat
<1>0. Len(s) \in Nat
  OBVIOUS
<1>1. CASE k = 0
  <2>1. FlatTo(s, k) = <<>>
    BY <1>1, FlattenEnds
  <2> QED BY <2>1
<1>2. CASE k # 0
  <2>1. k - 1 \in 0 .. Len(s) - 1 /\ (k - 1) + 1 = k /\ k \in 1 .. Len(s)
    BY <1>0, <1>2
  <2>2. FlatTo(s, k - 1) \in Seq(S) /\ FlatTo(s, k) = FlatTo(s, k - 1) \o s[k]
    BY <2>1, FlattenMore, Zenon
  <2>3. s[k] \in Seq(S)
    BY <2>1
  <2>4. FlatTo(s, k) \in Seq(S)
    BY <2>2, <2>3, ConcatProperties
  <2> HIDE DEF FlatTo
  <2> QED BY <2>4, LenProperties
<1> QED BY <1>1, <1>2

(* What the first k sequences flatten to comes first, whatever follows. *)
LEMMA FlattenPrefix ==
  ASSUME NEW S, NEW s \in Seq(Seq(S)), NEW k \in 0 .. Len(s), NEW n \in k .. Len(s)
  PROVE  /\ Len(FlatTo(s, k)) <= Len(FlatTo(s, n))
         /\ \A i \in 1 .. Len(FlatTo(s, k)) : FlatTo(s, n)[i] = FlatTo(s, k)[i]
<1> DEFINE a == FlatTo(s, k)
           P(m) == /\ Len(a) <= Len(FlatTo(s, m))
                   /\ \A i \in 1 .. Len(a) : FlatTo(s, m)[i] = a[i]
           T == {d \in Nat : k + d <= Len(s) => P(k + d)}
<1>0. Len(s) \in Nat /\ k \in Nat /\ Len(a) \in Nat
  BY FlattenType
<1> HIDE DEF a
<1>1. 0 \in T
  <2>1. k + 0 = k
    BY <1>0
  <2>2. P(k)
    BY <1>0 DEF a
  <2> QED BY <2>1, <2>2
<1>2. ASSUME NEW d \in Nat, d \in T PROVE d + 1 \in T
  <2> SUFFICES ASSUME k + (d + 1) <= Len(s) PROVE P(k + (d + 1))
    OBVIOUS
  <2> DEFINE m == k + d
  <2>1. m \in 0 .. Len(s) - 1 /\ k + (d + 1) = m + 1 /\ k + d <= Len(s) /\ m \in 0 .. Len(s)
    BY <1>0
  <2>2. P(m)
    BY <1>2, <2>1
  <2> HIDE DEF m
  <2>3. FlatTo(s, m) \in Seq(S) /\ FlatTo(s, m + 1) = FlatTo(s, m) \o s[m + 1]
    BY <2>1, FlattenMore, Zenon
  <2>4. s[m + 1] \in Seq(S)
    BY <1>0, <2>1
  <2> DEFINE x == FlatTo(s, m)
             y == s[m + 1]
  <2> HIDE DEF x, y
  <2>5. x \in Seq(S) /\ y \in Seq(S) /\ Len(a) <= Len(x) /\ \A i \in 1 .. Len(a) : x[i] = a[i]
    BY <2>2, <2>3, <2>4 DEF x, y
  <2>6. Len(a) <= Len(x \o y) /\ \A i \in 1 .. Len(a) : (x \o y)[i] = a[i]
    BY <1>0, <2>5
  <2>7. FlatTo(s, m + 1) = x \o y
    BY <2>3 DEF x, y
  <2> QED BY <2>1, <2>6, <2>7
<1>3. Nat \subseteq T
  <2> HIDE DEF T
  <2> QED BY <1>1, <1>2, Induction
<1>4. n - k \in Nat /\ k + (n - k) = n /\ n <= Len(s)
  BY <1>0
<1>5. P(n)
  <2>1. n - k \in T
    BY <1>3, <1>4
  <2>2. k + (n - k) <= Len(s) => P(k + (n - k))
    BY <2>1
  <2> QED BY <1>4, <2>2
<1> QED BY <1>5 DEF a

(* Where the elements of the k + 1-st sequence are. *)
LEMMA FlattenPlace ==
  ASSUME NEW S, NEW s \in Seq(Seq(S)), NEW k \in 0 .. Len(s) - 1
  PROVE  /\ Len(FlatTo(s, k + 1)) = Len(FlatTo(s, k)) + Len(s[k + 1])
         /\ Len(FlatTo(s, k + 1)) <= Len(FlattenSeq(s))
         /\ \A i \in 1 .. Len(s[k + 1]) : FlattenSeq(s)[Len(FlatTo(s, k)) + i] = s[k + 1][i]
<1> DEFINE x == FlatTo(s, k)
           y == s[k + 1]
           z == FlatTo(s, k + 1)
           w == FlattenSeq(s)
<1>0. Len(s) \in Nat /\ k + 1 \in 0 .. Len(s) /\ Len(s) \in k + 1 .. Len(s)
  OBVIOUS
<1>1. x \in Seq(S) /\ z = x \o y
  BY FlattenMore, Zenon
<1>2. y \in Seq(S)
  BY <1>0
<1>3. Len(z) <= Len(w) /\ \A i \in 1 .. Len(z) : w[i] = z[i]
  BY <1>0, FlattenPrefix, FlattenEnds
<1> HIDE DEF x, y, z, w
<1>4. Len(z) = Len(x) + Len(y) /\ \A i \in 1 .. Len(y) : z[Len(x) + i] = y[i] /\ Len(x) + i \in 1 .. Len(z)
  BY <1>1, <1>2
<1>5. \A i \in 1 .. Len(y) : w[Len(x) + i] = y[i]
  BY <1>3, <1>4
<1> QED BY <1>3, <1>4, <1>5 DEF x, y, z, w

(* Sequences of six elements each. *)
LEMMA FlattenSixes ==
  ASSUME NEW S, NEW s \in Seq(Seq(S)), \A i \in 1 .. Len(s) : Len(s[i]) = 6
  PROVE  \A k \in 0 .. Len(s) : Len(FlatTo(s, k)) = 6 * k
<1> DEFINE T == {k \in Nat : k <= Len(s) => Len(FlatTo(s, k)) = 6 * k}
<1>0. Len(s) \in Nat
  OBVIOUS
<1>1. 0 \in T
  <2>1. Len(FlatTo(s, 0)) = 0
    BY FlattenEnds
  <2> QED BY <2>1
<1>2. ASSUME NEW k \in Nat, k \in T PROVE k + 1 \in T
  <2> SUFFICES ASSUME k + 1 <= Len(s) PROVE Len(FlatTo(s, k + 1)) = 6 * (k + 1)
    OBVIOUS
  <2>1. k \in 0 .. Len(s) - 1 /\ k <= Len(s) /\ k + 1 \in 1 .. Len(s)
    BY <1>0
  <2>2. Len(FlatTo(s, k)) = 6 * k
    BY <1>2, <2>1
  <2>3. Len(FlatTo(s, k + 1)) = Len(FlatTo(s, k)) + Len(s[k + 1])
    BY <2>1, FlattenPlace, Zenon
  <2>4. Len(s[k + 1]) = 6
    BY <2>1
  <2>5. Len(FlatTo(s, k + 1)) = 6 * k + 6
    BY <2>2, <2>3, <2>4
  <2> QED BY <2>5
<1>3. Nat \subseteq T
  <2> HIDE DEF T
  <2> QED BY <1>1, <1>2, Induction
<1>4. \A k \in 0 .. Len(s) : k \in T
  BY <1>0, <1>3
<1> QED BY <1>4

(* The first sequences, given as a function of their numbers. *)
LEMMA FirstOnes ==
  ASSUME NEW S, NEW s \in Seq(S), NEW k \in 0 .. Len(s)
  PROVE  SubSeq(s, 1, k) = [i \in 1 .. k |-> s[i]]
<1>1. Len(s) \in Nat /\ k \in Nat /\ k <= Len(s)
  OBVIOUS
<1>2. SubSeq(s, 1, k) \in Seq(S) /\ Len(SubSeq(s, 1, k)) = k /\ \A i \in 1 .. k : SubSeq(s, 1, k)[i] = s[i]
  BY <1>1, SubSeqProperties
<1>3. SubSeq(s, 1, k) = [i \in 1 .. k |-> SubSeq(s, 1, k)[i]]
  BY <1>2
<1> QED BY <1>2, <1>3

-----------------------------------------------------------------------------
(***************************************************************************)
(* memmem: where bufferFindCRLF and splitRequestLine find what they look   *)
(* for.                                                                    *)
(***************************************************************************)
(* What Min returns for numbers.                                           *)
LEMMA MinIsLeast ==
  ASSUME NEW T \in SUBSET Nat, T # {}
  PROVE  Min(T) \in T /\ \A n \in T : Min(T) <= n
<1>1. PICK n \in T : \A m \in T : n <= m
  BY LeastNumber
<1> QED BY <1>1, Zenon DEF Min

(* m is the first place of x in b, or of x with y behind it, 0 for none. *)
FirstOne(m, b, x) ==
  /\ m \in Nat
  /\ m = 0 => \A i \in 1 .. Len(b) : b[i] # x
  /\ m # 0 => m \in 1 .. Len(b) /\ b[m] = x /\ \A i \in 1 .. m - 1 : b[i] # x

FirstTwo(m, b, x, y) ==
  /\ m \in Nat
  /\ m = 0 => \A i \in 1 .. Len(b) - 1 : ~(b[i] = x /\ b[i + 1] = y)
  /\ m # 0 => /\ m \in 1 .. Len(b) - 1 /\ b[m] = x /\ b[m + 1] = y
              /\ \A i \in 1 .. m - 1 : ~(b[i] = x /\ b[i + 1] = y)

(* memmem finds the first place of two bytes, as bufferFindCRLF asks       *)
(* (HttpRequest.c:112).                                                    *)
LEMMA FindTwo ==
  ASSUME NEW S, NEW b \in Seq(S), NEW x, NEW y
  PROVE  FirstTwo(memmem(b, <<x, y>>), b, x, y)
<1> DEFINE A == {i \in 1 .. Len(b) - Len(<<x, y>>) + 1 : SubSeq(b, i, i + Len(<<x, y>>) - 1) = <<x, y>>}
           B == {i \in 1 .. Len(b) - 1 : b[i] = x /\ b[i + 1] = y}
           m == memmem(b, <<x, y>>)
<1>1. A = B
  <2>1. Len(b) \in Nat /\ Len(<<x, y>>) = 2 /\ Len(b) - 2 + 1 = Len(b) - 1
    OBVIOUS
  <2>2. ASSUME NEW i \in 1 .. Len(b) - 1
        PROVE  SubSeq(b, i, i + 2 - 1) = <<x, y>> <=> b[i] = x /\ b[i + 1] = y
    <3>1. i + 2 - 1 = i + 1 /\ i \in Nat \ {0} /\ i + 1 <= Len(b)
      BY <2>1
    <3>2. SubSeq(b, i, i + 1) = <<b[i], b[i + 1]>>
      <4> DEFINE s == SubSeq(b, i, i + 1)
      <4>1. s \in Seq(S) /\ Len(s) = 2 /\ s[1] = b[i] /\ s[2] = b[i + 1]
        BY <3>1
      <4> HIDE DEF s
      <4>2. s = <<s[1], s[2]>>
        BY <4>1
      <4> QED BY <4>1, <4>2 DEF s
    <3> QED BY <3>1, <3>2
  <2> QED BY <2>1, <2>2
<1>2. m = IF B = {} THEN 0 ELSE Min(B)
  <2>1. m = IF A = {} THEN 0 ELSE Min(A)
    BY Zenon DEF memmem
  <2> HIDE DEF A, B, m
  <2> QED BY <1>1, <2>1
<1>3. CASE B = {}
  <2>1. m = 0
    BY <1>2, <1>3, Zenon
  <2>2. \A i \in 1 .. Len(b) - 1 : ~(b[i] = x /\ b[i + 1] = y)
    BY <1>3
  <2> HIDE DEF m, A, B
  <2>3. FirstTwo(m, b, x, y)
    BY <2>1, <2>2 DEF FirstTwo
  <2> QED BY <2>3 DEF m
<1>4. CASE B # {}
  <2>1. B \in SUBSET Nat
    OBVIOUS
  <2>2. m \in B /\ \A i \in B : m <= i
    <3> HIDE DEF B, m
    <3> QED BY <1>2, <1>4, <2>1, MinIsLeast, Zenon
  <2> HIDE DEF m
  <2>3. m \in 1 .. Len(b) - 1 /\ b[m] = x /\ b[m + 1] = y
    BY <2>2
  <2>4. ASSUME NEW i \in 1 .. m - 1 PROVE ~(b[i] = x /\ b[i + 1] = y)
    <3>1. i \in 1 .. Len(b) - 1 /\ ~(m <= i)
      BY <2>3
    <3>2. i \notin B
      BY <2>2, <3>1
    <3> QED BY <3>1, <3>2
  <2>5. m \in Nat /\ m # 0
    BY <2>3
  <2> QED BY <2>3, <2>4, <2>5 DEF FirstTwo, m
<1> QED BY <1>3, <1>4

(* memmem finds the first place of one byte, as splitRequestLine asks      *)
(* (HttpRequest.c:141).                                                    *)
LEMMA FindOne ==
  ASSUME NEW S, NEW b \in Seq(S), NEW x
  PROVE  FirstOne(memmem(b, <<x>>), b, x)
<1> DEFINE A == {i \in 1 .. Len(b) - Len(<<x>>) + 1 : SubSeq(b, i, i + Len(<<x>>) - 1) = <<x>>}
           B == {i \in 1 .. Len(b) : b[i] = x}
           m == memmem(b, <<x>>)
<1>1. A = B
  <2>1. Len(b) \in Nat /\ Len(<<x>>) = 1 /\ Len(b) - 1 + 1 = Len(b)
    OBVIOUS
  <2>2. ASSUME NEW i \in 1 .. Len(b) PROVE SubSeq(b, i, i + 1 - 1) = <<x>> <=> b[i] = x
    <3>1. i + 1 - 1 = i /\ i \in Nat \ {0} /\ i <= Len(b)
      BY <2>1
    <3>2. SubSeq(b, i, i) = <<b[i]>>
      <4> DEFINE s == SubSeq(b, i, i)
      <4>1. s \in Seq(S) /\ Len(s) = 1 /\ s[1] = b[i]
        BY <3>1
      <4> HIDE DEF s
      <4>2. s = <<s[1]>>
        BY <4>1
      <4> QED BY <4>1, <4>2 DEF s
    <3> QED BY <3>1, <3>2
  <2> QED BY <2>1, <2>2
<1>2. m = IF B = {} THEN 0 ELSE Min(B)
  <2>1. m = IF A = {} THEN 0 ELSE Min(A)
    BY Zenon DEF memmem
  <2> HIDE DEF A, B, m
  <2> QED BY <1>1, <2>1
<1>3. CASE B = {}
  <2>1. m = 0
    BY <1>2, <1>3, Zenon
  <2> QED BY <1>3, <2>1 DEF FirstOne
<1>4. CASE B # {}
  <2>1. B \in SUBSET Nat
    OBVIOUS
  <2>2. m \in B /\ \A i \in B : m <= i
    <3> HIDE DEF B, m
    <3> QED BY <1>2, <1>4, <2>1, MinIsLeast, Zenon
  <2> HIDE DEF m
  <2>3. m \in 1 .. Len(b) /\ b[m] = x
    BY <2>2
  <2>4. ASSUME NEW i \in 1 .. m - 1 PROVE b[i] # x
    <3>1. i \in 1 .. Len(b) /\ ~(m <= i)
      BY <2>3
    <3>2. i \notin B
      BY <2>2, <3>1
    <3> QED BY <3>1, <3>2
  <2>5. m \in Nat /\ m # 0
    BY <2>3
  <2> QED BY <2>3, <2>4, <2>5 DEF FirstOne, m
<1> QED BY <1>3, <1>4

(* A line of n bytes is found when all of it has arrived, its CR LF too. *)
LEMMA LineFound ==
  ASSUME NEW S, NEW b \in Seq(S), NEW n \in Nat,
         \A i \in 1 .. n : i <= Len(b) => b[i] # "CR",
         n + 1 <= Len(b) => b[n + 1] = "CR",
         n + 2 <= Len(b) => b[n + 2] = "LF"
  PROVE  bufferFindCRLF(b) = IF n + 2 <= Len(b) THEN n + 1 ELSE 0
<1> DEFINE m == memmem(b, <<"CR", "LF">>)
<1>1. /\ m \in Nat
      /\ m = 0 => \A i \in 1 .. Len(b) - 1 : ~(b[i] = "CR" /\ b[i + 1] = "LF")
      /\ m # 0 => /\ m \in 1 .. Len(b) - 1 /\ b[m] = "CR" /\ b[m + 1] = "LF"
                  /\ \A i \in 1 .. m - 1 : ~(b[i] = "CR" /\ b[i + 1] = "LF")
  BY SMTT(30),FindTwo DEF FirstTwo
<1>2. bufferFindCRLF(b) = m /\ Len(b) \in Nat
  BY DEF bufferFindCRLF
<1> HIDE DEF m
<1>3. m # 0 => m >= n + 1
  <2> SUFFICES ASSUME m # 0, m <= n PROVE FALSE
    BY <1>1
  <2>1. m \in 1 .. n /\ m <= Len(b)
    BY <1>1, <1>2
  <2> QED BY <1>1, <2>1
<1>4. CASE n + 2 <= Len(b)
  <2>1. n + 1 \in 1 .. Len(b) - 1 /\ b[n + 1] = "CR" /\ b[(n + 1) + 1] = "LF"
    BY <1>2, <1>4
  <2>2. m # 0 /\ ~(n + 1 \in 1 .. m - 1)
    BY <1>1, <2>1
  <2> QED BY <1>1, <1>2, <1>3, <1>4, <2>2
<1>5. CASE ~(n + 2 <= Len(b))
  <2>1. m = 0
    BY <1>1, <1>2, <1>3, <1>5
  <2> QED BY <1>2, <1>5, <2>1
<1> QED BY <1>4, <1>5

-----------------------------------------------------------------------------
(***************************************************************************)
(* The bytes of the requests, and where they are in what the client sends. *)
(***************************************************************************)
(* What stands for a request in a script.                                  *)
Request == [line : Seq(Byte), head : Seq(Seq(Byte))]

(* c is s with t behind it. *)
IsConcat(c, s, t) ==
  /\ Len(s) \in Nat /\ Len(t) \in Nat /\ Len(c) = Len(s) + Len(t)
  /\ \A i \in 1 .. Len(s) : c[i] = s[i]
  /\ \A i \in 1 .. Len(t) : c[Len(s) + i] = t[i]

(* Concatenation puts the second sequence behind the first.                *)
LEMMA ConcatParts ==
  ASSUME NEW S, NEW s \in Seq(S), NEW t \in Seq(S)
  PROVE  s \o t \in Seq(S) /\ IsConcat(s \o t, s, t)
<1>1. /\ s \o t \in Seq(S) /\ Len(s \o t) = Len(s) + Len(t)
      /\ \A i \in 1 .. Len(s) + Len(t) : (s \o t)[i] = IF i <= Len(s) THEN s[i] ELSE t[i - Len(s)]
  BY ConcatProperties
<1>2. Len(s) \in Nat /\ Len(t) \in Nat
  OBVIOUS
<1> DEFINE c == s \o t
<1> HIDE DEF c
<1>3. \A i \in 1 .. Len(s) : c[i] = s[i]
  BY <1>1, <1>2 DEF c
<1>4. ASSUME NEW i \in 1 .. Len(t) PROVE c[Len(s) + i] = t[i]
  <2>1. Len(s) + i \in 1 .. Len(s) + Len(t) /\ ~(Len(s) + i <= Len(s)) /\ (Len(s) + i) - Len(s) = i
    BY <1>2
  <2>2. c[Len(s) + i] = t[(Len(s) + i) - Len(s)]
    BY <1>1, <2>1, Zenon DEF c
  <2> QED BY <2>1, <2>2
<1>5. IsConcat(c, s, t)
  BY <1>1, <1>2, <1>3, <1>4 DEF IsConcat, c
<1> QED BY <1>1, <1>5 DEF c

(* A request is sent as bytes.                                             *)
LEMMA EncodeType ==
  ASSUME NEW r \in Request
  PROVE  Encode(r) \in Seq(Byte)
<1>1. FlattenSeq(r.head) \in Seq(Byte)
  <2>1. r.head \in Seq(Seq(Byte)) /\ Len(r.head) \in 0 .. Len(r.head)
    BY DEF Request
  <2> QED BY <2>1, FlattenType, FlattenEnds
<1>2. r.line \in Seq(Byte) /\ <<"CR", "LF">> \in Seq(Byte)
  BY DEF Request, Byte, Sign
<1> QED BY <1>1, <1>2 DEF Encode

(* Of a well-formed request, each byte is where it belongs. *)
LEMMA EncodePlaces ==
  ASSUME NEW r \in Request, WellFormed(r)
  PROVE  /\ Len(r.head) \in Nat
         /\ Len(Encode(r)) = 7 + 6 * Len(r.head) + 2
         /\ \A i \in 1 .. 7 : Encode(r)[i] = r.line[i]
         /\ \A j \in 0 .. Len(r.head) - 1 : \A i \in 1 .. 6 :
               Encode(r)[7 + 6 * j + i] = r.head[j + 1][i]
         /\ Encode(r)[7 + 6 * Len(r.head) + 1] = "CR"
         /\ Encode(r)[7 + 6 * Len(r.head) + 2] = "LF"
<1> DEFINE h == r.head
           f == FlattenSeq(h)
           n == Len(h)
           e == <<"CR", "LF">>
           l == r.line
<1>1. h \in Seq(Seq(Byte)) /\ n \in Nat /\ l \in Seq(Byte) /\ Len(l) = 7
  BY DEF Request, WellFormed
<1>2. \A j \in 1 .. n : Len(h[j]) = 6
  BY SMTT(30),<1>1 DEF WellFormed, Range
<1> HIDE DEF h, f, n, l
<1>3. f \in Seq(Byte) /\ Len(f) = 6 * n
  <2>1. n \in 0 .. Len(h) /\ Len(h) = n
    BY <1>1 DEF n
  <2>2. f = FlatTo(h, n) /\ f \in Seq(Byte)
    BY <1>1, <2>1, FlattenEnds, FlattenType DEF f
  <2>3. \A k \in 0 .. Len(h) : Len(FlatTo(h, k)) = 6 * k
    BY <1>1, <1>2, <2>1, FlattenSixes
  <2> QED BY <2>1, <2>2, <2>3
<1>4. ASSUME NEW j \in 0 .. n - 1 PROVE 6 * j \in Nat /\ 6 * j + 6 <= 6 * n /\ \A i \in 1 .. 6 : f[6 * j + i] = h[j + 1][i]
  <2>1. Len(h) = n /\ j \in 0 .. Len(h) - 1 /\ j \in 0 .. Len(h) /\ j + 1 \in 1 .. n
    BY <1>1 DEF n
  <2>2. \A k \in 0 .. Len(h) : Len(FlatTo(h, k)) = 6 * k
    BY <1>1, <1>2, <2>1, FlattenSixes
  <2>3. Len(FlatTo(h, j)) = 6 * j /\ Len(h[j + 1]) = 6
    BY <1>2, <2>1, <2>2
  <2>4. \A i \in 1 .. Len(h[j + 1]) : f[Len(FlatTo(h, j)) + i] = h[j + 1][i]
    BY ZenonT(30),<1>1, <2>1, FlattenPlace DEF f
  <2> QED BY <1>1, <2>3, <2>4
<1>5. Encode(r) = l \o f \o e /\ e \in Seq(Byte) /\ Len(e) = 2 /\ e[1] = "CR" /\ e[2] = "LF"
  BY DEF Encode, Byte, Sign, l, f, h
<1> HIDE DEF e
<1> DEFINE lf == l \o f
           c == Encode(r)
<1>6. lf \in Seq(Byte) /\ IsConcat(lf, l, f)
  BY <1>1, <1>3, ConcatParts
<1> HIDE DEF lf, c
<1>7. c \in Seq(Byte) /\ IsConcat(c, lf, e)
  <2>1. c = lf \o e
    BY <1>5, Zenon DEF c, lf
  <2> QED BY <1>5, <1>6, <2>1, ConcatParts
<1>7a. /\ Len(lf) = 7 + 6 * n /\ Len(c) = 7 + 6 * n + 2
       /\ c[7 + 6 * n + 1] = "CR" /\ c[7 + 6 * n + 2] = "LF"
  <2>1. Len(lf) = 7 + 6 * n
    BY <1>1, <1>3, <1>6 DEF IsConcat
  <2>2. c[Len(lf) + 1] = e[1] /\ c[Len(lf) + 2] = e[2]
    <3>1. 1 \in 1 .. Len(e) /\ 2 \in 1 .. Len(e)
      BY <1>5
    <3> QED BY <1>7, <3>1, Zenon DEF IsConcat
  <2> QED BY <1>5, <1>7, <2>1, <2>2 DEF IsConcat
<1>8. ASSUME NEW i \in 1 .. 7 PROVE c[i] = l[i]
  <2>1. i \in 1 .. Len(l) /\ i \in 1 .. Len(lf)
    BY <1>1, <1>7a
  <2> QED BY <1>6, <1>7, <2>1, Zenon DEF IsConcat
<1>9. ASSUME NEW j \in 0 .. n - 1, NEW i \in 1 .. 6 PROVE c[7 + 6 * j + i] = h[j + 1][i]
  <2>1. 6 * j + i \in 1 .. 6 * n /\ 7 + (6 * j + i) \in 1 .. 7 + 6 * n /\ 7 + (6 * j + i) = 7 + 6 * j + i
    BY <1>1, <1>4
  <2>2. ASSUME NEW x \in 1 .. 6 * n PROVE c[7 + x] = f[x]
    <3>1. x \in 1 .. Len(f) /\ 7 + x \in 1 .. Len(lf)
      BY <1>1, <1>3, <1>7a
    <3>2. lf[Len(l) + x] = f[x] /\ c[7 + x] = lf[7 + x]
      BY <1>6, <1>7, <3>1, Zenon DEF IsConcat
    <3> QED BY <1>1, <3>2
  <2>3. c[7 + (6 * j + i)] = f[6 * j + i]
    BY <2>1, <2>2, Zenon
  <2> QED BY <1>4, <2>1, <2>3
<1> QED BY <1>1, <1>7a, <1>8, <1>9 DEF c, h, n, l

(* Where the request after the k-th starts in what the client sends. *)
Off(k) == Len(FlattenSeq([i \in 1 .. k |-> Encode(script[i])]))

(* The script is a sequence of requests.                                   *)
Scripted == script \in Seq(Request)

(* Request k + 1 stands in the message from Off(k) on, and ends at Off(k + *)
(* 1).                                                                     *)
LEMMA MessagePlaces ==
  ASSUME Scripted
  PROVE  /\ Message \in Seq(Byte)
         /\ Off(0) = 0 /\ Off(Len(script)) = Len(Message)
         /\ \A k \in 0 .. Len(script) : Off(k) \in Nat
         /\ \A k \in 0 .. Len(script) : \A n \in k .. Len(script) : Off(k) <= Off(n)
         /\ \A k \in 0 .. Len(script) - 1 :
              /\ Off(k + 1) = Off(k) + Len(Encode(script[k + 1]))
              /\ \A i \in 1 .. Len(Encode(script[k + 1])) :
                    Message[Off(k) + i] = Encode(script[k + 1])[i]
<1> DEFINE m == [i \in 1 .. Len(script) |-> Encode(script[i])]
<1>0. Len(script) \in Nat /\ DOMAIN script = 1 .. Len(script) /\ \A i \in 1 .. Len(script) : script[i] \in Request
  BY DEF Scripted
<1>1. m \in Seq(Seq(Byte)) /\ Len(m) = Len(script)
  BY <1>0, EncodeType
<1>2. Message = FlattenSeq(m)
  BY <1>0 DEF Message
<1>3. ASSUME NEW k \in 0 .. Len(script) PROVE Off(k) = Len(FlatTo(m, k))
  <2>1. [i \in 1 .. k |-> Encode(script[i])] = [i \in 1 .. k |-> m[i]]
    BY <1>0
  <2>2. SubSeq(m, 1, k) = [i \in 1 .. k |-> m[i]]
    <3> HIDE DEF m
    <3> QED BY <1>1, FirstOnes
  <2> QED BY <2>1, <2>2, Zenon DEF Off, FlatTo
<1>4. \A k \in 1 .. Len(script) : m[k] = Encode(script[k])
  BY <1>0
<1> HIDE DEF m
<1>5. FlatTo(m, 0) = <<>> /\ FlatTo(m, Len(script)) = FlattenSeq(m)
  BY <1>1, FlattenEnds
<1>6. Message \in Seq(Byte)
  BY <1>0, <1>1, <1>2, <1>5, FlattenType
<1>7. Off(0) = 0 /\ Off(Len(script)) = Len(Message)
  BY <1>0, <1>2, <1>3, <1>5
<1>8. \A k \in 0 .. Len(script) : Off(k) \in Nat
  BY <1>1, <1>3, FlattenType
<1>9. ASSUME NEW k \in 0 .. Len(script), NEW n \in k .. Len(script) PROVE Off(k) <= Off(n)
  <2>1. n \in 0 .. Len(script)
    BY <1>0
  <2>2. Len(FlatTo(m, k)) <= Len(FlatTo(m, n))
    BY <1>1, FlattenPrefix
  <2> QED BY <1>3, <2>1, <2>2
<1>10. ASSUME NEW k \in 0 .. Len(script) - 1
       PROVE /\ Off(k + 1) = Off(k) + Len(Encode(script[k + 1]))
             /\ \A i \in 1 .. Len(Encode(script[k + 1])) :
                    Message[Off(k) + i] = Encode(script[k + 1])[i]
  <2>1. k \in 0 .. Len(script) /\ k + 1 \in 0 .. Len(script) /\ k + 1 \in 1 .. Len(script) /\ k \in 0 .. Len(m) - 1
    BY <1>0, <1>1
  <2>2. Off(k) = Len(FlatTo(m, k)) /\ Off(k + 1) = Len(FlatTo(m, k + 1)) /\ m[k + 1] = Encode(script[k + 1])
    BY <1>3, <1>4, <2>1
  <2>3. /\ Len(FlatTo(m, k + 1)) = Len(FlatTo(m, k)) + Len(m[k + 1])
        /\ \A i \in 1 .. Len(m[k + 1]) : FlattenSeq(m)[Len(FlatTo(m, k)) + i] = m[k + 1][i]
    BY <1>1, <2>1, FlattenPlace
  <2> QED BY <1>2, <2>2, <2>3
<1> QED BY <1>6, <1>7, <1>8, <1>9, <1>10

-----------------------------------------------------------------------------
(***************************************************************************)
(* One line of a well-formed request: when it is found, and what the       *)
(* parser makes of it.                                                     *)
(***************************************************************************)
(* The request the parser is at, or the loop is about to answer.           *)
Current == script[served + 1]

(* All requests up to the k-th are well formed. *)
Good(k) == \A i \in DOMAIN script : i <= k => WellFormed(script[i])

(* What the bounds of the buffer say. *)
Buffered ==
  /\ Scripted /\ taken \in 0 .. Len(Message) /\ parsed \in 0 .. taken /\ served \in Nat

(* The unread bytes are those of the message between parsed and taken.     *)
LEMMA UnreadBytes ==
  ASSUME Buffered
  PROVE  /\ Unread \in Seq(Byte) /\ Len(Unread) = taken - parsed
         /\ taken \in Nat /\ parsed \in Nat /\ taken <= Len(Message) /\ parsed <= taken
         /\ \A i \in 1 .. taken - parsed : Unread[i] = Message[parsed + i]
<1>1. Message \in Seq(Byte) /\ taken \in Nat /\ parsed \in Nat /\ Len(Message) \in Nat
      /\ taken <= Len(Message) /\ parsed <= taken
  BY MessagePlaces DEF Buffered
<1>2. \A i \in parsed + 1 .. taken : Message[i] \in Byte
  BY <1>1
<1>3. /\ Unread \in Seq(Byte) /\ Len(Unread) = IF parsed + 1 <= taken THEN taken - (parsed + 1) + 1 ELSE 0
      /\ \A i \in 1 .. taken - (parsed + 1) + 1 : Unread[i] = Message[(parsed + 1) + i - 1]
  BY <1>1, <1>2, SubSeqProperties DEF Unread
<1>4. Len(Unread) = taken - parsed
  BY <1>1, <1>3
<1>5. ASSUME NEW i \in 1 .. taken - parsed PROVE Unread[i] = Message[parsed + i]
  <2>1. i \in 1 .. taken - (parsed + 1) + 1 /\ (parsed + 1) + i - 1 = parsed + i
    BY <1>1
  <2> QED BY <1>3, <2>1, Zenon
<1> QED BY <1>1, <1>3, <1>4, <1>5

(* The bytes of the request after the served-th, from its d-th on. *)
LEMMA UnreadOfCurrent ==
  ASSUME Buffered, served < Len(script), NEW d \in Nat, parsed = Off(served) + d
  PROVE  \A i \in 1 .. taken - parsed : d + i <= Len(Encode(Current)) => Unread[i] = Encode(Current)[d + i]
<1>1. served \in 0 .. Len(script) - 1 /\ served \in 0 .. Len(script)
  BY DEF Buffered, Scripted
<1>2. Off(served) \in Nat /\ \A i \in 1 .. Len(Encode(Current)) : Message[Off(served) + i] = Encode(Current)[i]
  BY <1>1, MessagePlaces DEF Buffered, Current
<1> SUFFICES ASSUME NEW i \in 1 .. taken - parsed, d + i <= Len(Encode(Current))
             PROVE  Unread[i] = Encode(Current)[d + i]
  OBVIOUS
<1>3. Current \in Request
  BY <1>1 DEF Buffered, Scripted, Current
<1>4. Len(Encode(Current)) \in Nat
  BY <1>3, EncodeType
<1>5. taken - parsed \in Nat /\ d + i \in 1 .. Len(Encode(Current)) /\ parsed + i = Off(served) + (d + i)
  BY SMTT(30),<1>2, <1>4, UnreadBytes
<1> QED BY <1>2, <1>5, UnreadBytes

(* s is what stands in b from m to n. *)
IsPiece(s, b, m, n) ==
  /\ Len(s) = IF m <= n THEN n - m + 1 ELSE 0
  /\ \A i \in 1 .. n - m + 1 : s[i] = b[m + i - 1]

(* SubSeq cuts a piece out.                                                *)
LEMMA PieceOf ==
  ASSUME NEW S, NEW b \in Seq(S), NEW m \in Nat \ {0}, NEW n \in Nat, n <= Len(b)
  PROVE  SubSeq(b, m, n) \in Seq(S) /\ IsPiece(SubSeq(b, m, n), b, m, n)
<1>1. \A i \in m .. n : b[i] \in S
  OBVIOUS
<1> QED BY <1>1, SubSeqProperties DEF IsPiece

(* A piece of one byte.                                                    *)
LEMMA PieceOfOne ==
  ASSUME NEW S, NEW b \in Seq(S), NEW i \in 1 .. Len(b)
  PROVE  SubSeq(b, i, i) = <<b[i]>>
<1> DEFINE s == SubSeq(b, i, i)
<1>1. i \in Nat \ {0} /\ i \in Nat /\ i <= Len(b)
  OBVIOUS
<1>2. s \in Seq(S) /\ IsPiece(s, b, i, i)
  BY <1>1, PieceOf
<1> HIDE DEF s
<1>3. Len(s) = 1 /\ s[1] = b[i]
  <2>1. i - i + 1 = 1 /\ i + 1 - 1 = i
    BY <1>1
  <2> QED BY <1>1, <1>2, <2>1 DEF IsPiece
<1>4. s = <<s[1]>>
  BY <1>2, <1>3
<1> QED BY <1>3, <1>4 DEF s

(* No word of a request looks like a sign.                                 *)
LEMMA WordsAreNoSigns == \A w \in Word : w \notin {"CR", "LF", "SP", "COLON"}
BY HttpRequestAssumption DEF Sign

(* The current request, while there is one.                                *)
LEMMA CurrentIs ==
  ASSUME Buffered, served < Len(script)
  PROVE  Current \in Request /\ Len(Encode(Current)) \in Nat
<1>1. served + 1 \in 1 .. Len(script)
  BY DEF Buffered, Scripted
<1>2. Current \in Request
  BY <1>1 DEF Buffered, Scripted, Current
<1> QED BY <1>2, EncodeType

(* The request line has arrived once its seven bytes have. *)
LEMMA LineArrives ==
  ASSUME Buffered, served < Len(script), WellFormed(Current), parsed = Off(served)
  PROVE  /\ taken < parsed + 7 => LineFails(Unread)
         /\ taken >= parsed + 7 => bufferFindCRLF(Unread) = 6 /\ ~LineFails(Unread)
<1> DEFINE b == Unread
           r == Current
           l == Current.line
<1>1. b \in Seq(Byte) /\ Len(b) = taken - parsed /\ taken \in Nat /\ parsed \in Nat
  BY UnreadBytes
<1>2. /\ l = <<l[1], "SP", l[3], "SP", l[5], "CR", "LF">>
      /\ l[1] \in Word /\ l[3] \in Word /\ l[5] \in Word
  BY DEF WellFormed
<1>3. 7 <= Len(Encode(r)) /\ \A i \in 1 .. 7 : Encode(r)[i] = l[i]
  BY CurrentIs, EncodePlaces
<1>4. ASSUME NEW i \in 1 .. 7, i <= Len(b) PROVE b[i] = l[i]
  <2>1. i \in 1 .. taken - parsed /\ 0 + i <= Len(Encode(r)) /\ 0 + i = i /\ parsed = Off(served) + 0
    BY SMTT(30),<1>1, <1>3, <1>4, CurrentIs
  <2>2. b[i] = Encode(r)[0 + i]
    BY <2>1, UnreadOfCurrent
  <2> QED BY <1>3, <2>1, <2>2
<1> HIDE DEF b, l
<1>5. l[1] # "CR" /\ l[2] # "CR" /\ l[3] # "CR" /\ l[4] # "CR" /\ l[5] # "CR" /\ l[6] = "CR" /\ l[7] = "LF"
  BY <1>2, WordsAreNoSigns
<1>6. bufferFindCRLF(b) = IF 5 + 2 <= Len(b) THEN 5 + 1 ELSE 0
  <2>1. \A i \in 1 .. 5 : i <= Len(b) => b[i] # "CR"
    BY <1>4, <1>5
  <2>2. (5 + 1 <= Len(b) => b[5 + 1] = "CR") /\ (5 + 2 <= Len(b) => b[5 + 2] = "LF")
    BY <1>4, <1>5
  <2> QED BY <1>1, <2>1, <2>2, LineFound
<1> QED BY <1>1, <1>6 DEF LineFails, b

(* A well-formed request line is parsed for what it says, and the parser   *)
(* goes on behind it (parseHttpRequestLine).                               *)
LEMMA LineParsed ==
  ASSUME Buffered, served < Len(script), WellFormed(Current), parsed = Off(served), ~LineFails(Unread)
  PROVE  /\ ~LineUndefined(Line(Unread))
         /\ taken - Len(AfterLine(Unread)) = parsed + 7
         /\ parseHttpRequestLine(request, Line(Unread)) =
              [request EXCEPT !.method = <<Current.line[1]>>, !.url = <<Current.line[3]>>,
                              !.curState = "ParseReqHeaders"]
<1> DEFINE b == Unread
           l == Current.line
           line == Line(Unread)
<1>1. b \in Seq(Byte) /\ Len(b) = taken - parsed /\ taken \in Nat /\ parsed \in Nat
  BY UnreadBytes
<1>2. bufferFindCRLF(b) = 6 /\ taken >= parsed + 7
  BY <1>1, LineArrives
<1>2a. \A i \in 1 .. 7 : i \in 1 .. taken - parsed
  BY <1>1, <1>2
<1>3. 7 <= Len(Encode(Current)) /\ \A i \in 1 .. 7 : Encode(Current)[i] = l[i]
  BY CurrentIs, EncodePlaces
<1>4. ASSUME NEW i \in 1 .. 7 PROVE b[i] = l[i]
  <2>1. i \in 1 .. taken - parsed /\ 0 + i <= Len(Encode(Current)) /\ 0 + i = i /\ parsed = Off(served) + 0
    BY SMTT(30),<1>1, <1>2a, <1>3, CurrentIs
  <2>2. b[i] = Encode(Current)[0 + i]
    BY <2>1, UnreadOfCurrent
  <2> QED BY <1>3, <2>1, <2>2
<1>5. l[2] = "SP" /\ l[4] = "SP" /\ l[1] \in Word /\ l[3] \in Word /\ l[5] \in Word
  BY DEF WellFormed
<1> HIDE DEF b, l
<1>6. line = SubSeq(b, 1, 5)
  BY <1>2 DEF Line, b
<1>7. line \in Seq(Byte) /\ Len(line) = 5 /\ \A i \in 1 .. 5 : line[i] = l[i]
  <2>1. line \in Seq(Byte) /\ Len(line) = 5 /\ \A i \in 1 .. 5 : line[i] = b[i]
    BY <1>1, <1>2, <1>6
  <2> QED BY <1>4, <2>1
<1>8. AfterLine(b) = SubSeq(b, 8, Len(b)) /\ Len(AfterLine(b)) = Len(b) - 7
  BY <1>1, <1>2 DEF AfterLine
<1> HIDE DEF line
<1>9. l[1] # "SP" /\ l[3] # "SP" /\ l[5] # "SP"
  BY <1>5, WordsAreNoSigns
<1>10. memmem(line, <<"SP">>) = 2
  <2>1. FirstOne(memmem(line, <<"SP">>), line, "SP")
    BY <1>7, FindOne
  <2> QED BY <1>5, <1>7, <1>9, <2>1 DEF FirstOne
<1> DEFINE rest == SubSeq(line, 3, 5)
<1>11. splitRequestLine(line, <<"SP">>) = [word |-> SubSeq(line, 1, 1), rest |-> rest]
  <2>1. 2 - 1 = 1 /\ 2 + 1 = 3
    OBVIOUS
  <2> QED BY <1>7, <1>10, <2>1 DEF splitRequestLine
<1>12. rest \in Seq(Byte) /\ Len(rest) = 3 /\ rest[1] = l[3] /\ rest[2] = l[4] /\ rest[3] = l[5]
  <2>1. rest \in Seq(Byte) /\ IsPiece(rest, line, 3, 5)
    <3>1. line \in Seq(Byte) /\ 3 \in Nat \ {0} /\ 5 \in Nat /\ 5 <= Len(line)
      BY <1>7
    <3> QED BY <3>1, PieceOf
  <2> HIDE DEF rest
  <2>2. Len(rest) = 3 /\ rest[1] = line[3] /\ rest[2] = line[4] /\ rest[3] = line[5]
    BY <2>1 DEF IsPiece
  <2> QED BY <1>7, <2>1, <2>2
<1> HIDE DEF rest
<1>13. SubSeq(line, 1, 1) = <<l[1]>>
  <2>1. SubSeq(line, 1, 1) = <<line[1]>>
    BY <1>7, PieceOfOne
  <2> QED BY <1>7, <2>1
<1>14. memmem(rest, <<"SP">>) = 2
  <2>1. FirstOne(memmem(rest, <<"SP">>), rest, "SP")
    BY <1>12, FindOne
  <2> QED BY <1>5, <1>9, <1>12, <2>1 DEF FirstOne
<1>15. splitRequestLine(rest, <<"SP">>).word = SubSeq(rest, 1, 1)
  BY <1>14 DEF splitRequestLine
<1>16. SubSeq(rest, 1, 1) = <<l[3]>>
  <2>1. SubSeq(rest, 1, 1) = <<rest[1]>>
    <3>1. rest \in Seq(Byte) /\ 1 \in 1 .. Len(rest)
      BY <1>12
    <3> QED BY <3>1, PieceOfOne
  <2> QED BY <1>12, <2>1
<1>17. ~LineUndefined(line)
  BY <1>10, <1>11, <1>14 DEF LineUndefined
<1>18. parseHttpRequestLine(request, line) =
         [request EXCEPT !.method = <<l[1]>>, !.url = <<l[3]>>, !.curState = "ParseReqHeaders"]
  <2>1. splitRequestLine(line, <<"SP">>).word = <<l[1]>> /\ splitRequestLine(line, <<"SP">>).rest = rest
    <3>1. /\ splitRequestLine(line, <<"SP">>).word = SubSeq(line, 1, 1)
          /\ splitRequestLine(line, <<"SP">>).rest = rest
      BY <1>11
    <3> QED BY <1>13, <3>1, Zenon
  <2>2. splitRequestLine(rest, <<"SP">>).word = <<l[3]>>
    BY <1>15, <1>16
  <2> QED BY <2>1, <2>2, Zenon DEF parseHttpRequestLine
<1>19. taken - Len(AfterLine(b)) = parsed + 7
  BY SMTT(30),<1>1, <1>8
<1> QED BY <1>17, <1>18, <1>19 DEF b, l, line

(* A header line has arrived once its six bytes have.                      *)
LEMMA HeaderArrives ==
  ASSUME Buffered, served < Len(script), WellFormed(Current),
         NEW j \in 0 .. Len(Current.head) - 1, parsed = Off(served) + 7 + 6 * j
  PROVE  /\ taken < parsed + 6 => HeadFails(Unread)
         /\ taken >= parsed + 6 => bufferFindCRLF(Unread) = 5 /\ ~HeadFails(Unread)
         /\ \A i \in 1 .. 6 : i <= Len(Unread) => Unread[i] = Current.head[j + 1][i]
<1> DEFINE b == Unread
           r == Current
           h == Current.head[j + 1]
<1>1. b \in Seq(Byte) /\ Len(b) = taken - parsed /\ taken \in Nat /\ parsed \in Nat
  BY UnreadBytes
<1>2. h = <<h[1], "COLON", "SP", h[4], "CR", "LF">> /\ h[1] \in Word /\ h[4] \in Word
  <2>1. j + 1 \in DOMAIN Current.head
    BY CurrentIs DEF Request
  <2>2. h \in Range(Current.head)
    BY <2>1 DEF Range
  <2> QED BY <2>2 DEF WellFormed
<1>3. /\ Len(r.head) \in Nat /\ Len(Encode(r)) = 7 + 6 * Len(r.head) + 2
      /\ \A i \in 1 .. 6 : Encode(r)[7 + 6 * j + i] = h[i]
  BY CurrentIs, EncodePlaces
<1>4. Off(served) \in Nat
  BY MessagePlaces DEF Buffered, Scripted
<1>5. ASSUME NEW i \in 1 .. 6, i <= Len(b) PROVE b[i] = h[i]
  <2>0. j \in Nat /\ 6 * j + 6 <= 6 * Len(r.head)
    BY <1>3
  <2>1. i \in 1 .. taken - parsed
    BY <1>1, <1>5
  <2>1a. (7 + 6 * j) + i <= Len(Encode(r)) /\ (7 + 6 * j) + i = 7 + 6 * j + i
    <3>1. Len(Encode(r)) = 7 + 6 * Len(r.head) + 2 /\ Len(r.head) \in Nat
      BY <1>3
    <3> QED BY <2>0, <3>1
  <2>2. 7 + 6 * j \in Nat /\ parsed = Off(served) + (7 + 6 * j)
    BY <1>4
  <2>3. b[i] = Encode(r)[(7 + 6 * j) + i]
    BY <2>1, <2>1a, <2>2, UnreadOfCurrent
  <2> QED BY <1>3, <2>1a, <2>3
<1> HIDE DEF b, h
<1>6. h[1] # "CR" /\ h[2] # "CR" /\ h[3] # "CR" /\ h[4] # "CR" /\ h[5] = "CR" /\ h[6] = "LF"
  BY <1>2, WordsAreNoSigns
<1>7. bufferFindCRLF(b) = IF 4 + 2 <= Len(b) THEN 4 + 1 ELSE 0
  <2>1. \A i \in 1 .. 4 : i <= Len(b) => b[i] # "CR"
    BY SMTT(30),<1>5, <1>6
  <2>2. (4 + 1 <= Len(b) => b[4 + 1] = "CR") /\ (4 + 2 <= Len(b) => b[4 + 2] = "LF")
    BY <1>5, <1>6
  <2> QED BY <1>1, <2>1, <2>2, LineFound
<1>8. (taken < parsed + 6 => HeadFails(b)) /\ (taken >= parsed + 6 => bufferFindCRLF(b) = 5 /\ ~HeadFails(b))
  BY <1>1, <1>7 DEF HeadFails
<1> QED BY <1>5, <1>8 DEF b, h

(* A well-formed header line is added to the array, and the parser goes on *)
(* behind it (parseHttpRequestHead).                                       *)
LEMMA HeaderParsed ==
  ASSUME Buffered, served < Len(script), WellFormed(Current),
         NEW j \in 0 .. Len(Current.head) - 1, parsed = Off(served) + 7 + 6 * j,
         ~HeadFails(Unread)
  PROVE  /\ IsHeader(Line(Unread))
         /\ taken - Len(UnreadAfter(Unread, Line(Unread))) = parsed + 6
         /\ httpRequestAddHeader(request, Line(Unread)) =
              [request EXCEPT !.reqHeaders = Append(@, HeadersOf(Current)[j + 1])]
<1> DEFINE b == Unread
           h == Current.head[j + 1]
           line == Line(Unread)
<1>1. b \in Seq(Byte) /\ Len(b) = taken - parsed /\ taken \in Nat /\ parsed \in Nat
  BY UnreadBytes
<1>2. bufferFindCRLF(b) = 5 /\ taken >= parsed + 6
  BY <1>1, HeaderArrives
<1>3. Len(b) >= 6
  BY <1>1, <1>2
<1>4. \A i \in 1 .. 6 : b[i] = h[i]
  <2>1. \A i \in 1 .. 6 : i <= Len(b) => b[i] = h[i]
    BY HeaderArrives
  <2> HIDE DEF b, h
  <2> QED BY SMTT(30),<1>1, <1>3, <2>1
<1>5. j + 1 \in DOMAIN Current.head
  BY CurrentIs DEF Request
<1>6. h = <<h[1], "COLON", "SP", h[4], "CR", "LF">> /\ h[1] \in Word /\ h[4] \in Word
  <2>1. h \in Range(Current.head)
    BY <1>5 DEF Range
  <2> QED BY <2>1 DEF WellFormed
<1>7. HeadersOf(Current)[j + 1] = [key |-> <<h[1]>>, value |-> <<h[4]>>]
  BY <1>5 DEF HeadersOf
<1> HIDE DEF b, h
<1>8. line = SubSeq(b, 1, 4)
  BY <1>2 DEF Line, b
<1>9. line \in Seq(Byte) /\ Len(line) = 4 /\ \A i \in 1 .. 4 : line[i] = h[i]
  <2>1. line \in Seq(Byte) /\ IsPiece(line, b, 1, 4)
    <3>1. 1 \in Nat \ {0} /\ 4 \in Nat /\ 4 <= Len(b)
      BY <1>1, <1>3
    <3> QED BY <1>1, <1>8, <3>1, PieceOf
  <2> HIDE DEF line
  <2>2. Len(line) = 4 /\ \A i \in 1 .. 4 : line[i] = b[i]
    BY <2>1 DEF IsPiece
  <2> QED BY <1>4, <2>1, <2>2
<1>10. AfterLine(b) = SubSeq(b, 7, Len(b)) /\ Len(AfterLine(b)) = Len(b) - 6
  BY SMTT(30),<1>1, <1>2, <1>3 DEF AfterLine
<1> HIDE DEF line
<1>11. h[1] # "COLON" /\ h[2] = "COLON" /\ h[3] = "SP"
  BY <1>6, WordsAreNoSigns
<1>12. memmem(line, <<"COLON", "SP">>) = 2
  <2>1. FirstTwo(memmem(line, <<"COLON", "SP">>), line, "COLON", "SP")
    BY <1>9, FindTwo
  <2> QED BY <1>9, <1>11, <2>1 DEF FirstTwo
<1>13. IsHeader(line)
  BY <1>12 DEF IsHeader
<1>14. SubSeq(line, 1, 1) = <<h[1]>> /\ SubSeq(line, 4, 4) = <<h[4]>>
  <2>1. 1 \in 1 .. Len(line) /\ 4 \in 1 .. Len(line)
    BY <1>9
  <2>2. SubSeq(line, 1, 1) = <<line[1]>> /\ SubSeq(line, 4, 4) = <<line[4]>>
    BY <1>9, <2>1, PieceOfOne
  <2> QED BY <1>9, <2>2
<1>15. httpRequestAddHeader(request, line) =
         [request EXCEPT !.reqHeaders = Append(@, [key |-> <<h[1]>>, value |-> <<h[4]>>])]
  <2>1. memmem(line, <<"COLON", "SP">>) - 1 = 1 /\ memmem(line, <<"COLON", "SP">>) + 2 = 4 /\ Len(line) = 4
    BY <1>9, <1>12
  <2> QED BY <1>14, <2>1, Zenon DEF httpRequestAddHeader
<1>16. taken - Len(UnreadAfter(b, line)) = parsed + 6
  BY SMTT(30),<1>1, <1>10, <1>13 DEF UnreadAfter
<1> QED BY <1>7, <1>13, <1>15, <1>16 DEF b, line

(* The empty line has arrived once its two bytes have; then the head ends. *)
LEMMA HeadEnds ==
  ASSUME Buffered, served < Len(script), WellFormed(Current),
         parsed = Off(served) + 7 + 6 * Len(Current.head)
  PROVE  /\ taken < parsed + 2 => HeadFails(Unread)
         /\ taken >= parsed + 2 => ~HeadFails(Unread)
         /\ ~HeadFails(Unread) =>
              /\ ~IsHeader(Line(Unread))
              /\ taken - Len(UnreadAfter(Unread, Line(Unread))) = parsed + 2
              /\ parsed + 2 = Off(served + 1)
<1> DEFINE b == Unread
           r == Current
           n == Len(Current.head)
<1>1. b \in Seq(Byte) /\ Len(b) = taken - parsed /\ taken \in Nat /\ parsed \in Nat
  BY UnreadBytes
<1>2. /\ n \in Nat /\ Len(Encode(r)) = 7 + 6 * n + 2
      /\ Encode(r)[7 + 6 * n + 1] = "CR" /\ Encode(r)[7 + 6 * n + 2] = "LF"
  BY CurrentIs, EncodePlaces
<1>3. Off(served) \in Nat /\ Off(served + 1) = Off(served) + Len(Encode(r))
  <2>1. Scripted /\ Len(script) \in Nat /\ served \in Nat
    BY DEF Buffered, Scripted
  <2>2. served \in 0 .. Len(script) - 1 /\ served \in 0 .. Len(script)
    BY <2>1
  <2> QED BY <2>1, <2>2, MessagePlaces DEF Current
<1>3a. parsed = Off(served) + 7 + 6 * n
  OBVIOUS
<1>4. \A i \in 1 .. taken - parsed : (7 + 6 * n) + i <= Len(Encode(r)) => b[i] = Encode(r)[(7 + 6 * n) + i]
  <2>0. n \in Nat /\ Off(served) \in Nat
    BY <1>2, <1>3
  <2>1. 7 + 6 * n \in Nat /\ parsed = Off(served) + (7 + 6 * n)
    BY <1>3a, <2>0
  <2> QED BY <2>1, UnreadOfCurrent
<1> HIDE DEF b, n
<1>5. (1 <= Len(b) => b[1] = "CR") /\ (2 <= Len(b) => b[2] = "LF")
  <2>1. 1 <= Len(b) => 1 \in 1 .. taken - parsed /\ (7 + 6 * n) + 1 <= Len(Encode(r))
    BY <1>1, <1>2
  <2>2. 2 <= Len(b) => 2 \in 1 .. taken - parsed /\ (7 + 6 * n) + 2 <= Len(Encode(r))
    BY <1>1, <1>2
  <2> QED BY <1>2, <1>4, <2>1, <2>2
<1>6. bufferFindCRLF(b) = IF 0 + 2 <= Len(b) THEN 0 + 1 ELSE 0
  <2>1. \A i \in 1 .. 0 : i <= Len(b) => b[i] # "CR"
    OBVIOUS
  <2>2. (0 + 1 <= Len(b) => b[0 + 1] = "CR") /\ (0 + 2 <= Len(b) => b[0 + 2] = "LF") /\ 0 \in Nat
    BY <1>5
  <2> QED BY <1>1, <2>1, <2>2, LineFound
<1>7. (taken < parsed + 2 => HeadFails(b)) /\ (taken >= parsed + 2 => ~HeadFails(b))
  BY <1>1, <1>6 DEF HeadFails
<1>8. ASSUME ~HeadFails(b)
      PROVE  /\ ~IsHeader(Line(b))
             /\ taken - Len(UnreadAfter(b, Line(b))) = parsed + 2
             /\ parsed + 2 = Off(served + 1)
  <2>1. bufferFindCRLF(b) = 1 /\ Len(b) >= 2
    BY <1>1, <1>6, <1>8 DEF HeadFails
  <2>2. Line(b) = <<>>
    <3>1. Line(b) = SubSeq(b, 1, 0)
      BY <2>1 DEF Line
    <3> QED BY <3>1, SubSeqEmpty
  <2>3. ~IsHeader(<<>>)
    <3>1. <<>> \in Seq(Byte) /\ Len(<<>>) = 0
      OBVIOUS
    <3>2. FirstTwo(memmem(<<>>, <<"COLON", "SP">>), <<>>, "COLON", "SP")
      BY <3>1, FindTwo
    <3> QED BY <3>1, <3>2 DEF FirstTwo, IsHeader
  <2>4. UnreadAfter(b, Line(b)) = SubSeq(b, 3, Len(b)) /\ Len(SubSeq(b, 3, Len(b))) = Len(b) - 2
    BY SMTT(30),<1>1, <2>1, <2>2, <2>3 DEF UnreadAfter
  <2>5. parsed + 2 = Off(served + 1)
    BY <1>2, <1>3, <1>3a
  <2>6. taken - Len(UnreadAfter(b, Line(b))) = parsed + 2
    BY SMTT(30),<1>1, <2>1, <2>4
  <2> QED BY <2>2, <2>3, <2>5, <2>6
<1> QED BY <1>7, <1>8 DEF b

-----------------------------------------------------------------------------
(***************************************************************************)
(* The headers of the requests so far.                                     *)
(***************************************************************************)
(* A header as the request array keeps it.                                 *)
HeaderLine == [key : Seq(Byte), value : Seq(Byte)]

(* The headers of one request, as the array is to hold them.               *)
LEMMA HeadersOfType ==
  ASSUME NEW r \in Request, WellFormed(r)
  PROVE  HeadersOf(r) \in Seq(HeaderLine) /\ Len(HeadersOf(r)) = Len(r.head) /\ Len(r.head) \in Nat
<1>1. r.head \in Seq(Seq(Byte)) /\ Len(r.head) \in Nat /\ DOMAIN r.head = 1 .. Len(r.head)
  BY DEF Request
<1>2. ASSUME NEW i \in 1 .. Len(r.head)
      PROVE  [key |-> <<r.head[i][1]>>, value |-> <<r.head[i][4]>>] \in HeaderLine
  <2>1. r.head[i] \in Range(r.head)
    BY <1>1 DEF Range
  <2>2. r.head[i][1] \in Byte /\ r.head[i][4] \in Byte
    BY <2>1 DEF WellFormed, Byte
  <2> QED BY <2>2 DEF HeaderLine
<1> QED BY <1>1, <1>2 DEF HeadersOf

(* The headers of the first k requests, as flattened sequences.            *)
LEMMA HeadersTo ==
  ASSUME Scripted, NEW n \in 0 .. Len(script), Good(n), NEW k \in 0 .. n
  PROVE  LET s == [i \in 1 .. n |-> HeadersOf(script[i])] IN
           s \in Seq(Seq(HeaderLine)) /\ Len(s) = n /\ Headers(k) = FlatTo(s, k)
<1> DEFINE s == [i \in 1 .. n |-> HeadersOf(script[i])]
<1>1. Len(script) \in Nat /\ DOMAIN script = 1 .. Len(script) /\ n \in Nat /\ k \in Nat /\ k <= n
  BY DEF Scripted
<1>2. \A i \in 1 .. n : HeadersOf(script[i]) \in Seq(HeaderLine)
  <2> TAKE i \in 1 .. n
  <2>1. i \in DOMAIN script /\ i <= n /\ script[i] \in Request
    BY <1>1 DEF Scripted
  <2> QED BY <2>1, HeadersOfType DEF Good
<1>3. s \in Seq(Seq(HeaderLine)) /\ Len(s) = n
  BY <1>1, <1>2
<1>4. [i \in 1 .. k |-> HeadersOf(script[i])] = [i \in 1 .. k |-> s[i]]
  BY <1>1
<1> HIDE DEF s
<1>5. SubSeq(s, 1, k) = [i \in 1 .. k |-> s[i]]
  <2>1. k \in 0 .. Len(s)
    BY <1>3
  <2> QED BY <1>3, <2>1, FirstOnes
<1>6. Headers(k) = FlatTo(s, k)
  BY <1>4, <1>5, Zenon DEF Headers, FlatTo
<1> QED BY <1>3, <1>6 DEF s

(* The headers of one request more stand behind those so far.              *)
LEMMA HeadersGrow ==
  ASSUME Scripted, NEW k \in 0 .. Len(script) - 1, Good(k + 1)
  PROVE  /\ Headers(k) \in Seq(HeaderLine)
         /\ Headers(k + 1) = Headers(k) \o HeadersOf(script[k + 1])
<1> DEFINE s == [i \in 1 .. k + 1 |-> HeadersOf(script[i])]
<1>1. k \in Nat /\ k + 1 \in 0 .. Len(script) /\ k \in 0 .. k + 1 /\ k + 1 \in 0 .. k + 1
  BY DEF Scripted
<1>2. s \in Seq(Seq(HeaderLine)) /\ Len(s) = k + 1 /\ Headers(k) = FlatTo(s, k)
  BY <1>1, HeadersTo
<1>3. Headers(k + 1) = FlatTo(s, k + 1)
  BY <1>1, HeadersTo
<1>4. s[k + 1] = HeadersOf(script[k + 1])
  BY <1>1
<1> HIDE DEF s
<1>5. FlatTo(s, k) \in Seq(HeaderLine) /\ FlatTo(s, k + 1) = FlatTo(s, k) \o s[k + 1]
  <2>1. k \in 0 .. Len(s) - 1
    BY <1>1, <1>2
  <2> QED BY <1>2, <2>1, FlattenMore
<1> QED BY <1>2, <1>3, <1>4, <1>5, Zenon

(* No request, no header.                                                  *)
LEMMA HeadersStart == Headers(0) = <<>>
<1>1. [i \in 1 .. 0 |-> HeadersOf(script[i])] = <<>>
  OBVIOUS
<1> QED BY <1>1, FlattenEmpty, Zenon DEF Headers

(* More requests have no fewer headers.                                    *)
LEMMA HeadersMonotone ==
  ASSUME Scripted, NEW n \in 0 .. Len(script), Good(n), NEW k \in 0 .. n
  PROVE  Len(Headers(k)) \in Nat /\ Len(Headers(n)) \in Nat /\ Len(Headers(k)) <= Len(Headers(n))
<1> DEFINE s == [i \in 1 .. n |-> HeadersOf(script[i])]
<1>1. n \in Nat /\ n \in 0 .. n /\ n \in k .. n
  BY DEF Scripted
<1>2. s \in Seq(Seq(HeaderLine)) /\ Len(s) = n /\ Headers(k) = FlatTo(s, k) /\ Headers(n) = FlatTo(s, n)
  BY <1>1, HeadersTo
<1> HIDE DEF s
<1>3. k \in 0 .. Len(s) /\ n \in k .. Len(s) /\ n \in 0 .. Len(s)
  BY <1>1, <1>2
<1>4. Len(FlatTo(s, k)) <= Len(FlatTo(s, n))
  BY <1>2, <1>3, FlattenPrefix
<1>5. Len(FlatTo(s, k)) \in Nat /\ Len(FlatTo(s, n)) \in Nat
  BY <1>2, <1>3, FlattenType
<1> QED BY <1>2, <1>4, <1>5

(* One header more. *)
LEMMA OneMore ==
  ASSUME NEW S, NEW s \in Seq(S), NEW t \in Seq(S), NEW j \in 0 .. Len(t) - 1
  PROVE  Append(s \o SubSeq(t, 1, j), t[j + 1]) = s \o SubSeq(t, 1, j + 1)
<1>1. Len(t) \in Nat /\ j \in Nat /\ j + 1 \in 1 .. Len(t) /\ 1 \in 1 .. Len(t) /\ (j + 1) - 1 = j
      /\ j + 1 \in 1 .. Len(t) /\ t[j + 1] \in S
  OBVIOUS
<1>2. SubSeq(t, 1, j) \in Seq(S) /\ <<t[j + 1]>> \in Seq(S)
  BY <1>1, PieceOf
<1>3. SubSeq(t, 1, j + 1) = SubSeq(t, 1, j) \o <<t[j + 1]>>
  BY <1>1, SubSeqRecursiveSecond
<1> DEFINE u == SubSeq(t, 1, j)
           e == t[j + 1]
<1> HIDE DEF u, e
<1>4. s \o u \in Seq(S) /\ u \in Seq(S) /\ e \in S /\ <<e>> \in Seq(S)
  BY <1>1, <1>2 DEF u, e
<1>5. Append(s \o u, e) = (s \o u) \o <<e>>
  BY <1>4, AppendIsConcat
<1>6. (s \o u) \o <<e>> = s \o (u \o <<e>>)
  BY SMTT(30),<1>4, ConcatAssociative
<1> QED BY <1>3, <1>5, <1>6 DEF u, e

-----------------------------------------------------------------------------
(***************************************************************************)
(* Type correctness.                                                       *)
(***************************************************************************)
(* bufferSendData returns to one of four places. *)
Returning == pc = "send" => back \in {"open", "dir", "finish", "written"}

(* A remainder is below its divisor.                                       *)
LEMMA Remainder ==
  ASSUME NEW a \in Int, NEW b \in Nat \ {0}
  PROVE  a % b \in 0 .. b - 1
OBVIOUS

(* lseek's result in an int is never above the largest                     *)
(* (HttpRequest.c:396).                                                    *)
LEMMA AsIntType ==
  ASSUME NEW n \in Nat
  PROVE  AsInt(n) \in Int /\ AsInt(n) <= IntMax
<1>1. IntMax \in Nat \ {0}
  BY HttpExchangeAssumption
<1> DEFINE b == 2 * (IntMax + 1)
           a == n + IntMax + 1
<1>2. a \in Int /\ b \in Nat \ {0} /\ b = 2 * (IntMax + 1)
  BY <1>1
<1>3. AsInt(n) = (a % b) - (IntMax + 1)
  BY DEF AsInt
<1> HIDE DEF a, b
<1>4. a % b \in 0 .. b - 1
  BY <1>2, Remainder
<1> QED BY <1>1, <1>2, <1>3, <1>4

(* What the answer puts into the write buffer.                             *)
LEMMA ChunkType ==
  ASSUME NEW n \in Int, NEW kind \in {"status", "type", "length", "blank", "body", "entry", "text", "error"}
  PROVE  <<kind, n>> \in Chunk
BY DEF Chunk

(* What splitRequestLine finds are words, whether there is a space or not. *)
LEMMA SplitType ==
  ASSUME NEW b \in Seq(Byte), NEW x
  PROVE  splitRequestLine(b, <<x>>) \in [word : Seq(Byte), rest : Seq(Byte)]
<1> DEFINE m == memmem(b, <<x>>)
<1>1. m \in Nat /\ m <= Len(b)
  <2>1. FirstOne(m, b, x)
    BY FindOne
  <2> HIDE DEF m
  <2> QED BY <2>1 DEF FirstOne
<1>2. splitRequestLine(b, <<x>>) = [word |-> SubSeq(b, 1, m - 1), rest |-> SubSeq(b, m + 1, Len(b))]
  BY DEF splitRequestLine
<1> DEFINE v == SubSeq(b, 1, m - 1)
           w == SubSeq(b, m + 1, Len(b))
<1>3. v \in Seq(Byte) /\ w \in Seq(Byte)
  <2> HIDE DEF m
  <2> QED BY <1>1
<1>4. splitRequestLine(b, <<x>>) = [word |-> v, rest |-> w]
  BY <1>2
<1> HIDE DEF v, w
<1> QED BY <1>3, <1>4

(* A line is cut out of the unread bytes, and no more than those are left  *)
(* behind it.                                                              *)
LEMMA LineType ==
  ASSUME NEW b \in Seq(Byte)
  PROVE  /\ Line(b) \in Seq(Byte)
         /\ Len(AfterLine(b)) \in 0 .. Len(b)
         /\ \A line : Len(UnreadAfter(b, line)) \in 0 .. Len(b)
<1> DEFINE m == bufferFindCRLF(b)
<1>1. m \in Nat /\ m <= Len(b)
  <2>1. FirstTwo(m, b, "CR", "LF")
    BY FindTwo DEF bufferFindCRLF
  <2> HIDE DEF m
  <2> QED BY <2>1 DEF FirstTwo
<1>2. Line(b) = SubSeq(b, 1, m - 1) /\ AfterLine(b) = SubSeq(b, m + 2, Len(b))
  BY DEF Line, AfterLine
<1> HIDE DEF m
<1>3. SubSeq(b, 1, m - 1) \in Seq(Byte) /\ Len(SubSeq(b, m + 2, Len(b))) \in 0 .. Len(b)
  BY <1>1
<1>4. Len(SubSeq(b, 3, Len(b))) \in 0 .. Len(b)
  OBVIOUS
<1> QED BY <1>2, <1>3, <1>4 DEF UnreadAfter

(* A request line that is parsed leaves a request.                         *)
LEMMA LineKeepsType ==
  ASSUME NEW r \in HttpRequest, NEW line \in Seq(Byte)
  PROVE  /\ parseHttpRequestLine(r, line) \in HttpRequest
         /\ parseHttpRequestLine(r, line).reqHeaders = r.reqHeaders
<1> DEFINE first == splitRequestLine(line, <<"SP">>)
           second == splitRequestLine(first.rest, <<"SP">>)
<1>1. first \in [word : Seq(Byte), rest : Seq(Byte)]
  BY SplitType
<1>2. second \in [word : Seq(Byte), rest : Seq(Byte)]
  <2> HIDE DEF first
  <2> QED BY <1>1, SplitType
<1>3. parseHttpRequestLine(r, line) =
        [r EXCEPT !.method = first.word, !.url = second.word, !.curState = "ParseReqHeaders"]
  BY DEF parseHttpRequestLine
<1> HIDE DEF first, second
<1> QED BY <1>1, <1>2, <1>3 DEF HttpRequest, ParseState

(* A header line that is parsed leaves a request, with no more headers     *)
(* than the array holds.                                                   *)
LEMMA HeadKeepsType ==
  ASSUME NEW r \in HttpRequest, NEW line \in Seq(Byte), Len(r.reqHeaders) <= HeaderSize,
         ~HeadUndefined(r, line)
  PROVE  /\ parseHttpRequestHead(r, line) \in HttpRequest
         /\ Len(parseHttpRequestHead(r, line).reqHeaders) <= HeaderSize
<1> DEFINE m == memmem(line, <<"COLON", "SP">>)
           e == [key |-> SubSeq(line, 1, m - 1), value |-> SubSeq(line, m + 2, Len(line))]
<1>0. HeaderSize \in Nat /\ r.reqHeaders \in Seq(HeaderLine)
  BY HttpRequestAssumption DEF HttpRequest, HeaderLine
<1>1. CASE IsHeader(line)
  <2>1. m \in Nat /\ m <= Len(line)
    <3>1. FirstTwo(m, line, "COLON", "SP")
      BY FindTwo
    <3> HIDE DEF m
    <3> QED BY <3>1 DEF FirstTwo
  <2>2. parseHttpRequestHead(r, line) = [r EXCEPT !.reqHeaders = Append(@, e)]
    BY <1>1 DEF parseHttpRequestHead, httpRequestAddHeader
  <2> HIDE DEF m
  <2>3. e \in HeaderLine
    <3>1. SubSeq(line, 1, m - 1) \in Seq(Byte) /\ SubSeq(line, m + 2, Len(line)) \in Seq(Byte)
      BY <2>1
    <3> QED BY <3>1 DEF HeaderLine
  <2> HIDE DEF e
  <2>4. Append(r.reqHeaders, e) \in Seq(HeaderLine) /\ Len(Append(r.reqHeaders, e)) <= HeaderSize
    <3>1. ~(Len(r.reqHeaders) >= HeaderSize)
      BY <1>1 DEF HeadUndefined
    <3> QED BY <1>0, <2>3, <3>1
  <2> QED BY <2>2, <2>4 DEF HttpRequest, HeaderLine
<1>2. CASE ~IsHeader(line)
  BY <1>2 DEF parseHttpRequestHead, HttpRequest, ParseState
<1> QED BY <1>1, <1>2

(* HttpResponseAddHeader leaves a response.                                *)
LEMMA AddHeaderType ==
  ASSUME NEW r \in HttpResponse, NEW c \in Chunk
  PROVE  HttpResponseAddHeader(r, c) \in HttpResponse
<1>1. r.headers \in Seq(Chunk)
  BY DEF HttpResponse
<1> DEFINE h == Append(r.headers, c)
<1>2. h \in Seq(Chunk)
  BY <1>1
<1>3. HttpResponseAddHeader(r, c) = [r EXCEPT !.headers = h]
  BY DEF HttpResponseAddHeader
<1> HIDE DEF h
<1> QED BY <1>2, <1>3 DEF HttpResponse

(* processHttpRequest leaves a response.                                   *)
LEMMA AnswerType ==
  ASSUME response \in HttpResponse, disk \in [OnDisk -> Sizes], NEW r
  PROVE  Answer(r) \in HttpResponse
<1> DEFINE f == FileNamed(r.url)
           typed == HttpResponseAddHeader(response, <<"type", 0>>)
           long == HttpResponseAddHeader(typed, <<"length", disk[f]>>)
<1>1. typed \in HttpResponse
  <2>1. <<"type", 0>> \in Chunk
    BY DEF Chunk
  <2> QED BY <2>1, AddHeaderType
<1>2. f \in {"./", "file", "none"} /\ OnDisk \cup {"./"} \subseteq File /\ Absent \notin Nat
  BY HttpExchangeAssumption DEF FileNamed
<1>3. stat(f) = "file" => f = "file" /\ disk[f] \in Nat
  BY <1>2 DEF stat, OnDisk, Sizes
<1>4. stat(f) = "directory" => f = "./"
  BY <1>2 DEF stat
<1>5. stat(f) = "file" => long \in HttpResponse
  <2> HIDE DEF f, typed
  <2> SUFFICES ASSUME stat(f) = "file" PROVE long \in HttpResponse
    OBVIOUS
  <2>1. disk[f] \in Int
    BY <1>3
  <2>2. <<"length", disk[f]>> \in Chunk
    BY <2>1, ChunkType
  <2> QED BY <1>1, <2>2, AddHeaderType
<1>6. stat(f) \in {"fails", "directory", "file"}
  BY DEF stat
<1>7. Answer(r) = IF r.method # <<"GET">> THEN response
                  ELSE IF stat(f) = "fails"
                       THEN [typed EXCEPT !.statusCode = NotFound, !.fileName = "404.html", !.sendDataFunc = "sendFile"]
                  ELSE IF stat(f) = "directory"
                       THEN [typed EXCEPT !.statusCode = OK, !.fileName = f, !.sendDataFunc = "sendDir"]
                  ELSE [long EXCEPT !.statusCode = OK, !.fileName = f, !.sendDataFunc = "sendFile"]
  <2> HIDE DEF f, typed, long
  <2> QED BY <1>6 DEF Answer, f, typed, long
<1> HIDE DEF f, typed, long
<1> QED BY ZenonT(30),<1>1, <1>2, <1>3, <1>4, <1>5, <1>6, <1>7 DEF HttpResponse, OnDisk

(* httpResponsePrepareMsg makes chunks of a response.                      *)
LEMMA PrepareType ==
  ASSUME NEW r \in HttpResponse
  PROVE  httpResponsePrepareMsg(r) \in Seq(Chunk)
<1>1. r.headers \in Seq(Chunk) /\ r.statusCode \in {Unknown, OK, NotFound}
  BY DEF HttpResponse
<1> DEFINE n == r.statusCode
           s == <<"status", n>>
           e == <<"blank", 0>>
<1>2. n \in Int
  BY <1>1 DEF Unknown, OK, NotFound
<1> HIDE DEF n
<1>3. s \in Chunk /\ e \in Chunk
  BY <1>2 DEF Chunk
<1>4. httpResponsePrepareMsg(r) = <<s>> \o r.headers \o <<e>>
  BY DEF httpResponsePrepareMsg, n
<1> HIDE DEF s, e
<1> QED BY <1>1, <1>3, <1>4

(* What depends on the script only.                                        *)
LEMMA Kept ==
  ASSUME UNCHANGED script
  PROVE  /\ Message' = Message
         /\ \A k : Off(k)' = Off(k) /\ Headers(k)' = Headers(k) /\ Good(k)' = Good(k)
BY DEF Message, Off, Headers, Good

(* The bounds of the read buffer are among the types.                      *)
LEMMA TypesBuffer == TypeOK => Buffered
<1> SUFFICES ASSUME TypeOK PROVE Buffered
  OBVIOUS
<1>1. script \in Seq(Request)
  BY HttpExchangeAssumption DEF TypeOK, Request
<1>2. Len(Message) \in Nat
  BY <1>1, MessagePlaces DEF Scripted
<1> QED BY <1>1, <1>2 DEF TypeOK, Buffered, Scripted

(* The types hold at the start.                                            *)
LEMMA TypesInit == Init => TypeOK
<1> SUFFICES ASSUME Init PROVE TypeOK
  OBVIOUS
<1>0. DirEntries \in Nat /\ Disks \subseteq [OnDisk -> Sizes] /\ ResHeaderSize \in Nat /\ HeaderSize \in Nat
      /\ script \in Seq(Request)
  BY HttpExchangeAssumption, HttpResponseAssumption, HttpRequestAssumption DEF Init, Request
<1>1. Len(Message) \in Nat
  BY <1>0, MessagePlaces DEF Scripted
<1>2. request \in HttpRequest /\ Len(request.reqHeaders) <= HeaderSize
  BY <1>0 DEF Init, httpRequestReset, HttpRequest, ParseState
<1>3. response \in HttpResponse /\ ~Overflows(response)
  <2>1. response = httpResponseInit /\ response.headers = <<>>
    BY DEF Init, httpResponseInit
  <2>2. httpResponseInit \in HttpResponse
    <3>1. <<>> \in Seq(Chunk) /\ Unknown \in {Unknown, OK, NotFound}
      OBVIOUS
    <3> HIDE DEF Unknown
    <3> QED BY <3>1 DEF httpResponseInit, HttpResponse
  <2> QED BY <1>0, <2>1, <2>2 DEF Overflows
<1>4. wbuf \in Seq(Chunk) /\ out \in Seq(Chunk) /\ Len(out) = 0
  BY DEF Init
<1>5. disk \in [OnDisk -> Sizes] /\ sent = 0 /\ taken = 0 /\ parsed = 0 /\ seen = 0 /\ goal = 0 /\ offset = 0
  BY <1>0 DEF Init
<1>6. build \in Builds /\ script \in Scripts /\ client = "open" /\ changed = FALSE /\ pc = "idle" /\ back = "idle"
      /\ watch = {"in"} /\ due = {} /\ served = 0
  BY DEF Init
<1>7. /\ sent \in 0 .. Len(Message) /\ seen \in 0 .. Len(out) /\ taken \in 0 .. sent /\ parsed \in 0 .. taken
      /\ goal \in Int /\ offset \in Nat /\ (offset > 0 => offset <= goal) /\ served \in Nat
  BY <1>1, <1>4, <1>5, <1>6
<1>8. /\ build \in Builds /\ script \in Scripts /\ client \in {"open", "closed", "reset"} /\ changed \in BOOLEAN
      /\ pc \in PC /\ back \in PC /\ pc # "file" /\ watch \subseteq {"in", "out"} /\ due \subseteq watch
  BY <1>6 DEF PC
<1> QED BY <1>2, <1>3, <1>4, <1>5, <1>7, <1>8, Zenon DEF TypeOK

(* Clients and the file system keep the types.                             *)
LEMMA TypesEnvironment ==
  ASSUME TypeOK, ClientSends \/ ClientLeaves \/ ClientReads \/ FileChanges
  PROVE  TypeOK'
<1> USE DEF Others, clientVars, diskVars, readVars, replyVars, loopVars
<1>0. UNCHANGED script /\ Message' = Message /\ Len(Message) \in Nat /\ Len(out) \in Nat
  <2>1. UNCHANGED script
    BY DEF ClientSends, ClientLeaves, ClientReads, FileChanges
  <2>2. Len(Message) \in Nat
    BY TypesBuffer, MessagePlaces DEF Buffered
  <2> QED BY <2>1, <2>2, Kept DEF TypeOK
<1>1. CASE ClientSends
  BY <1>0, <1>1 DEF TypeOK, ClientSends
<1>2. CASE ClientLeaves
  BY <1>0, <1>2 DEF TypeOK, ClientLeaves
<1>3. CASE ClientReads
  BY <1>0, <1>3 DEF TypeOK, ClientReads
<1>4. CASE FileChanges
  <2>1. disk' \in [OnDisk -> Sizes]
    BY <1>4 DEF TypeOK, FileChanges, Sizes
  <2> QED BY <1>0, <1>4, <2>1 DEF TypeOK, FileChanges
<1> QED BY <1>1, <1>2, <1>3, <1>4

(* Parsing keeps the types.                                                *)
LEMMA TypesParser ==
  ASSUME TypeOK, ParseLine \/ ParseHead \/ ParseFails \/ processReadReturns
  PROVE  TypeOK'
<1> USE DEF Fixed, clientVars, diskVars, readVars, replyVars, loopVars
<1>0. UNCHANGED script /\ Message' = Message /\ Len(Message) \in Nat /\ Len(out) \in Nat
  <2>1. UNCHANGED script
    BY DEF ParseLine, ParseHead, ParseFails, processReadReturns
  <2>2. Len(Message) \in Nat
    BY TypesBuffer, MessagePlaces DEF Buffered
  <2> QED BY <2>1, <2>2, Kept DEF TypeOK
<1>1. Unread \in Seq(Byte) /\ Len(Unread) = taken - parsed /\ taken \in Nat /\ parsed \in Nat /\ parsed <= taken
  BY TypesBuffer, UnreadBytes
<1> DEFINE b == Unread
           line == Line(Unread)
<1>2. /\ line \in Seq(Byte) /\ Len(AfterLine(b)) \in 0 .. Len(b)
      /\ Len(UnreadAfter(b, line)) \in 0 .. Len(b)
  BY <1>1, LineType
<1>3. CASE ParseLine
  <2>1. /\ \/ pc' = "undefined" /\ UNCHANGED <<parsed, request>>
           \/ request' = parseHttpRequestLine(request, line) /\ parsed' = taken - Len(AfterLine(b)) /\ UNCHANGED pc
        /\ UNCHANGED <<back, watch, due, taken, response, served, wbuf, out, offset, goal>>
        /\ UNCHANGED <<build, script, sent, client, seen, disk, changed>>
        /\ pc = "parse"
    BY <1>3, Zenon DEF ParseLine, Undefined
  <2> HIDE DEF b, line
  <2>2. request' \in HttpRequest /\ Len(request'.reqHeaders) <= HeaderSize
    BY <1>2, <2>1, LineKeepsType DEF TypeOK
  <2>3. parsed' \in 0 .. taken
    BY <1>1, <1>2, <2>1 DEF b
  <2> QED BY <1>0, <2>1, <2>2, <2>3 DEF TypeOK, PC, Ended
<1>4. CASE ParseHead
  <2>1. /\ \/ pc' = "undefined" /\ UNCHANGED <<parsed, request>>
           \/ /\ request' = parseHttpRequestHead(request, line) /\ parsed' = taken - Len(UnreadAfter(b, line))
              /\ ~HeadUndefined(request, line) /\ pc' \in {"parse", "process"}
        /\ UNCHANGED <<back, watch, due, taken, response, served, wbuf, out, offset, goal>>
        /\ UNCHANGED <<build, script, sent, client, seen, disk, changed>>
        /\ pc = "parse"
    BY <1>4 DEF ParseHead, Undefined
  <2> HIDE DEF b, line
  <2>2. request' \in HttpRequest /\ Len(request'.reqHeaders) <= HeaderSize
    BY <1>2, <2>1, HeadKeepsType DEF TypeOK
  <2>3. parsed' \in 0 .. taken
    BY <1>1, <1>2, <2>1 DEF b
  <2> QED BY <1>0, <2>1, <2>2, <2>3 DEF TypeOK, PC, Ended
<1>5. CASE ParseFails
  <2>1. Append(wbuf, <<"error", 400>>) \in Seq(Chunk)
    <3>1. <<"error", 400>> \in Chunk
      BY DEF Chunk
    <3> QED BY <3>1 DEF TypeOK
  <2> QED BY <1>0, <1>5, <2>1 DEF TypeOK, ParseFails, PC
<1>6. CASE processReadReturns
  <2>1. request' \in HttpRequest /\ request'.reqHeaders = request.reqHeaders
    BY <1>6 DEF TypeOK, processReadReturns, HttpRequest, ParseState
  <2>2. pc' \in {"scan", "closed", "stranded"} /\ pc = "finish"
    BY <1>6 DEF processReadReturns, tcpConnectionDestory
  <2> QED BY <1>0, <1>6, <2>1, <2>2 DEF TypeOK, processReadReturns, PC, Ended
<1> QED BY <1>3, <1>4, <1>5, <1>6

(* The scan and sending keep the types.                                    *)
LEMMA TypesScan ==
  ASSUME TypeOK, Returning,
         \/ Poll \/ EndScan \/ processRead \/ processWrite \/ processWriteReturns
         \/ SendChunk \/ bufferSendDataReturns \/ SendFails
  PROVE  TypeOK'
<1> USE DEF Fixed, clientVars, diskVars, readVars, replyVars, loopVars
<1>0. UNCHANGED script /\ Message' = Message /\ Len(Message) \in Nat /\ Len(out) \in Nat
  <2>1. UNCHANGED script
    BY DEF Poll, EndScan, processRead, processWrite, processWriteReturns, SendChunk, bufferSendDataReturns, SendFails
  <2>2. Len(Message) \in Nat
    BY TypesBuffer, MessagePlaces DEF Buffered
  <2> QED BY <2>1, <2>2, Kept DEF TypeOK
<1>1. CASE Poll
  BY <1>0, <1>1 DEF TypeOK, Poll, PC
<1>2. CASE EndScan
  BY <1>0, <1>2 DEF TypeOK, EndScan, PC
<1>3. CASE processRead
  <2>1. taken' = sent /\ parsed' \in 0 .. taken' /\ taken' \in 0 .. sent'
    BY <1>0, <1>3 DEF TypeOK, processRead
  <2>2. watch' \subseteq {"in", "out"} /\ due' \subseteq watch' /\ pc' \in {"parse", "finish"}
    BY <1>3 DEF TypeOK, processRead
  <2>3. UNCHANGED <<back, request, response, served, wbuf, out, offset, goal>>
        /\ UNCHANGED <<build, script, sent, client, seen, disk, changed>> /\ pc = "scan"
    BY <1>3 DEF processRead
  <2> QED BY <1>0, <2>1, <2>2, <2>3 DEF TypeOK, PC
<1>4. CASE processWrite
  BY <1>0, <1>4 DEF TypeOK, processWrite, PC
<1>5. CASE processWriteReturns
  BY <1>0, <1>5 DEF TypeOK, processWriteReturns, tcpConnectionDestory, PC, Ended
<1>6. CASE SendChunk
  <2>1. wbuf' \in Seq(Chunk) /\ out' \in Seq(Chunk) /\ Len(out') = Len(out) + 1
    <3>1. wbuf \in Seq(Chunk) /\ wbuf # <<>> /\ out \in Seq(Chunk)
      BY <1>6 DEF TypeOK, SendChunk
    <3>2. Head(wbuf) \in Chunk /\ Tail(wbuf) \in Seq(Chunk)
      BY <3>1
    <3> QED BY <1>6, <3>1, <3>2 DEF SendChunk
  <2>2. UNCHANGED <<pc, back, watch, due, taken, parsed, request, response, served, offset, goal>>
        /\ UNCHANGED <<build, script, sent, client, seen, disk, changed>>
    BY <1>6 DEF SendChunk
  <2> QED BY <1>0, <2>1, <2>2 DEF TypeOK
<1>7. CASE bufferSendDataReturns
  BY <1>0, <1>7 DEF TypeOK, bufferSendDataReturns, Returning, PC
<1>8. CASE SendFails
  BY <1>0, <1>8 DEF TypeOK, SendFails, Returning, PC, Ended
<1> QED BY <1>1, <1>2, <1>3, <1>4, <1>5, <1>6, <1>7, <1>8

(* Where the answer stands, be it sending on the way or not. *)
At == IF pc = "send" THEN back ELSE pc

(* The places of an answer that is under way.                              *)
Answering == {"prepare", "open", "file", "dir"}

(* The chunk processRead appends for what could not be parsed.             *)
Error400 == <<"error", 400>>
(* All chunks sent and still to be sent.                                   *)
Written  == Range(out) \cup Range(wbuf)

(* Before the first request is processed, a 400 is all there is to send. *)
WrittenInv == served = 0 => Written \subseteq {Error400}

(* Where the parser stands when the loop stands at pc; what the default    *)
(* build, which answers one request within processRead, never comes to;    *)
(* and what sendFile and sendDir can rely on.                              *)
Control ==
  /\ Returning
  /\ pc = "process" => request.curState = "ParseReqDone"
  /\ At \in Answering \/ (pc = "send" /\ back = "finish") => request.curState = "ParseReqDone" /\ served > 0
  /\ request.curState = "ParseReqDone" => At \in Answering \cup {"process", "finish"} \cup Ended
  /\ pc = "finish" /\ request.curState = "ParseReqDone" => served > 0
  /\ ~AutoConn => watch = {"in"} /\ served <= 1 /\ At # "written"
  /\ ~AutoConn /\ pc \in {"idle", "scan", "parse", "process"} => served = 0 /\ wbuf = <<>>
  /\ ~AutoConn /\ pc \in {"idle", "scan"} => taken = 0
  /\ ~AutoConn /\ pc = "finish" /\ served = 0 /\ wbuf = <<>> => taken = 0
  /\ At \in {"open", "file"} => response.sendDataFunc = "sendFile"
  /\ At = "dir" => goal = DirEntries
  /\ response.sendDataFunc = "sendFile" => response.fileName \in OnDisk
  /\ served = 0 => response = httpResponseInit

ControlInv == Control /\ WrittenInv

(* The answer keeps the types: its file name is one of the disk's, and its *)
(* offset does not pass the goal.                                          *)
LEMMA TypesAnswer ==
  ASSUME TypeOK, ControlInv,
         \/ processHttpRequest \/ PrepareMsg
         \/ OpenFile \/ SendFile \/ sendFileReturns \/ SendDir
  PROVE  TypeOK'
<1> USE DEF Fixed, clientVars, diskVars, readVars, replyVars, loopVars
<1>0. /\ UNCHANGED script /\ Message' = Message /\ Len(Message) \in Nat /\ Len(out) \in Nat
      /\ DirEntries \in Nat /\ IntMax \in Nat
  <2>1. UNCHANGED script
    BY DEF processHttpRequest, PrepareMsg, OpenFile, SendFile, sendFileReturns, SendDir
  <2>2. Len(Message) \in Nat
    BY TypesBuffer, MessagePlaces DEF Buffered
  <2> QED BY <2>1, <2>2, Kept, HttpExchangeAssumption DEF TypeOK
<1>1. CASE processHttpRequest
  <2>1. response' \in HttpResponse
    <3>1. response' = Answer(request)
      BY <1>1 DEF processHttpRequest
    <3> QED BY <3>1, AnswerType DEF TypeOK
  <2>2. pc' = (IF Overflows(response') THEN "undefined" ELSE "prepare") /\ pc = "process" /\ served' = served + 1
        /\ UNCHANGED <<back, watch, due, taken, parsed, request, wbuf, out, offset, goal>>
        /\ UNCHANGED <<build, script, sent, client, seen, disk, changed>>
    BY <1>1 DEF processHttpRequest
  <2> QED BY <1>0, <2>1, <2>2 DEF TypeOK, PC, Ended, Overflows
<1>2. CASE PrepareMsg
  <2>1. wbuf' \in Seq(Chunk)
    <3>1. httpResponsePrepareMsg(response) \in Seq(Chunk) /\ wbuf \in Seq(Chunk)
      BY PrepareType DEF TypeOK
    <3> QED BY <1>2, <3>1 DEF PrepareMsg
  <2>2. /\ pc' \in {"send", "finish", "open", "dir"} /\ back' \in {back, "finish", "open", "dir"}
    <3>1. response.sendDataFunc \in {"NULL", "sendFile", "sendDir"}
      BY DEF TypeOK, HttpResponse
    <3> QED BY <1>2, <3>1 DEF PrepareMsg, SendUnlessAuto, SendThen
  <2>3. offset' = 0 /\ goal' = DirEntries /\ pc = "prepare"
        /\ UNCHANGED <<watch, due, taken, parsed, request, response, served, out>>
        /\ UNCHANGED <<build, script, sent, client, seen, disk, changed>>
    BY <1>2 DEF PrepareMsg
  <2> QED BY <1>0, <2>1, <2>2, <2>3 DEF TypeOK, PC, Ended, Overflows
<1>3. <<"text", 0>> \in Chunk /\ <<"entry", offset>> \in Chunk /\ <<"body", offset>> \in Chunk
  BY DEF TypeOK, Chunk
<1>4. CASE OpenFile
  <2> DEFINE size == disk[response.fileName]
  <2>1. size \in Sizes
    BY <1>4 DEF TypeOK, ControlInv, Control, WrittenInv, At, OpenFile
  <2>2. wbuf' \in Seq(Chunk)
    <3>1. wbuf' \in {wbuf, Append(wbuf, <<"text", 0>>)}
      BY <1>4 DEF OpenFile
    <3>2. wbuf \in Seq(Chunk)
      BY DEF TypeOK
    <3>3. \A c \in Chunk : Append(wbuf, c) \in Seq(Chunk)
      BY <3>2
    <3> QED BY <1>3, <3>1, <3>2, <3>3, Zenon
  <2>3. goal' \in Int /\ (pc' = "file" => goal' <= IntMax)
    <3>1. CASE size = Absent
      BY <1>4, <3>1 DEF OpenFile, SendUnlessAuto, SendThen, TypeOK
    <3>2. CASE size # Absent
      <4>1. size \in Nat /\ goal' = AsInt(size)
        BY <1>4, <2>1, <3>2 DEF OpenFile, SizeFound, Sizes
      <4> QED BY <4>1, AsIntType
    <3> QED BY <3>1, <3>2
  <2>4. pc' \in {"send", "finish", "file"} /\ back' \in {back, "finish"} /\ pc = "open" /\ offset' = 0
        /\ UNCHANGED <<watch, due, taken, parsed, request, response, served, out>>
        /\ UNCHANGED <<build, script, sent, client, seen, disk, changed>>
    BY <1>4 DEF OpenFile, SendUnlessAuto, SendThen
  <2> QED BY <1>0, <2>2, <2>3, <2>4 DEF TypeOK, PC, Ended, Overflows
<1>5. CASE SendFile
  <2>1. out' \in Seq(Chunk) /\ Len(out') = Len(out) + 1
    BY <1>3, <1>5 DEF SendFile, TypeOK
  <2>2. pc = "file" /\ offset < goal /\ offset' = offset + 1
        /\ UNCHANGED <<pc, back, watch, due, taken, parsed, request, response, served, wbuf, goal>>
        /\ UNCHANGED <<build, script, sent, client, seen, disk, changed>>
    BY <1>5 DEF SendFile
  <2> QED BY <1>0, <2>1, <2>2 DEF TypeOK
<1>6. CASE sendFileReturns
  BY <1>0, <1>6 DEF TypeOK, sendFileReturns, PC
<1>7. CASE SendDir
  <2>1. wbuf' \in Seq(Chunk)
    <3>1. wbuf' \in {Append(wbuf, <<"entry", offset>>), Append(wbuf, <<"text", 0>>)}
      BY <1>7 DEF SendDir
    <3>2. wbuf \in Seq(Chunk)
      BY DEF TypeOK
    <3>3. \A c \in Chunk : Append(wbuf, c) \in Seq(Chunk)
      BY <3>2
    <3> QED BY <1>3, <3>1, <3>2, <3>3, Zenon
  <2>2. pc' \in {"send", "finish"} /\ back' \in {back, "dir", "finish"} /\ pc = "dir"
        /\ ((offset < goal /\ offset' = offset + 1) \/ offset' = offset)
        /\ UNCHANGED <<watch, due, taken, parsed, request, response, served, out, goal>>
        /\ UNCHANGED <<build, script, sent, client, seen, disk, changed>>
    BY <1>7 DEF SendDir, SendUnlessAuto, SendThen
  <2> QED BY <1>0, <2>1, <2>2 DEF TypeOK, PC, Ended
<1> QED BY <1>1, <1>2, <1>4, <1>5, <1>6, <1>7

(* Every step keeps the types.                                             *)
LEMMA TypesStep == TypeOK /\ ControlInv /\ [Next]_vars => TypeOK'
<1> SUFFICES ASSUME TypeOK, ControlInv, [Next]_vars PROVE TypeOK'
  OBVIOUS
<1>1. Returning
  BY DEF ControlInv, Control, WrittenInv
<1>2. CASE UNCHANGED vars
  <2>1. Message' = Message
    BY <1>2, Kept DEF vars
  <2> QED BY <1>2, <2>1 DEF TypeOK, vars, clientVars, diskVars, readVars, replyVars, loopVars, Overflows
<1>3. CASE Next
  BY <1>1, <1>3, TypesEnvironment, TypesParser, TypesScan, TypesAnswer DEF Next, Server
<1> QED BY <1>2, <1>3

-----------------------------------------------------------------------------
(***************************************************************************)
(* Chunks in the write buffer and on the wire.                             *)
(***************************************************************************)
(* The elements of a sequence with one more, and of two sequences.         *)
LEMMA RangeOf ==
  ASSUME NEW S, NEW s \in Seq(S), NEW t \in Seq(S), NEW e \in S
  PROVE  /\ Range(Append(s, e)) = Range(s) \cup {e}
         /\ Range(s \o t) = Range(s) \cup Range(t)
         /\ Append(s, e) # <<>>
<1>1. Len(s) \in Nat /\ Len(t) \in Nat
  OBVIOUS
<1>2. Range(Append(s, e)) = Range(s) \cup {e} /\ Append(s, e) # <<>>
  <2> DEFINE a == Append(s, e)
  <2>1. Len(a) = Len(s) + 1 /\ DOMAIN a = 1 .. Len(s) + 1 /\ DOMAIN s = 1 .. Len(s)
        /\ a[Len(s) + 1] = e /\ \A i \in 1 .. Len(s) : a[i] = s[i]
    BY <1>1
  <2> HIDE DEF a
  <2>2. Range(a) = Range(s) \cup {e}
    <3>1. ASSUME NEW x \in Range(a) PROVE x \in Range(s) \cup {e}
      <4>1. PICK i \in 1 .. Len(s) + 1 : x = a[i]
        BY <2>1, <3>1 DEF Range
      <4> QED BY <1>1, <2>1, <4>1 DEF Range
    <3>2. ASSUME NEW x \in Range(s) \cup {e} PROVE x \in Range(a)
      <4>1. CASE x = e
        <5>1. Len(s) + 1 \in DOMAIN a
          BY <1>1, <2>1
        <5> QED BY <2>1, <4>1, <5>1 DEF Range
      <4>2. CASE x \in Range(s)
        <5>1. PICK i \in 1 .. Len(s) : x = s[i]
          BY <2>1, <4>2 DEF Range
        <5>2. i \in DOMAIN a
          BY <1>1, <2>1
        <5> QED BY <2>1, <5>1, <5>2 DEF Range
      <4> QED BY <3>2, <4>1, <4>2
    <3> QED BY <3>1, <3>2
  <2>3. a # <<>>
    BY <1>1, <2>1
  <2> QED BY <2>2, <2>3 DEF a
<1>3. Range(s \o t) = Range(s) \cup Range(t)
  <2> DEFINE c == s \o t
  <2>1. IsConcat(c, s, t) /\ DOMAIN s = 1 .. Len(s) /\ DOMAIN t = 1 .. Len(t) /\ DOMAIN c = 1 .. Len(c)
    BY ConcatParts, ConcatProperties
  <2> HIDE DEF c
  <2>2. ASSUME NEW x \in Range(c) PROVE x \in Range(s) \cup Range(t)
    <3>1. PICK i \in 1 .. Len(s) + Len(t) : x = c[i]
      BY <2>1, <2>2 DEF Range, IsConcat
    <3>2. CASE i <= Len(s)
      BY <1>1, <2>1, <3>1, <3>2 DEF Range, IsConcat
    <3>3. CASE ~(i <= Len(s))
      <4> DEFINE j == i - Len(s)
      <4>1. j \in 1 .. Len(t) /\ Len(s) + j = i
        BY <1>1, <3>3
      <4> HIDE DEF j
      <4>2. x = t[j]
        BY <2>1, <3>1, <4>1, Zenon DEF IsConcat
      <4> QED BY <2>1, <4>1, <4>2 DEF Range
    <3> QED BY <3>2, <3>3
  <2>3. ASSUME NEW x \in Range(s) \cup Range(t) PROVE x \in Range(c)
    <3>1. CASE x \in Range(s)
      <4>1. PICK i \in 1 .. Len(s) : x = s[i]
        BY <2>1, <3>1 DEF Range
      <4>2. i \in DOMAIN c /\ c[i] = s[i]
        BY <1>1, <2>1, <4>1 DEF IsConcat
      <4> QED BY <4>1, <4>2 DEF Range
    <3>2. CASE x \in Range(t)
      <4>1. PICK i \in 1 .. Len(t) : x = t[i]
        BY <2>1, <3>2 DEF Range
      <4>2. Len(s) + i \in DOMAIN c /\ c[Len(s) + i] = t[i]
        BY <1>1, <2>1, <4>1 DEF IsConcat
      <4> QED BY <4>1, <4>2 DEF Range
    <3> QED BY <2>3, <3>1, <3>2
  <2> QED BY <2>2, <2>3 DEF c
<1> QED BY <1>2, <1>3

(* A chunk that goes from the write buffer to the wire. *)
LEMMA ChunkMoves ==
  ASSUME NEW S, NEW s \in Seq(S), NEW t \in Seq(S), t # <<>>
  PROVE  /\ Append(s, Head(t)) \o Tail(t) = s \o t
         /\ Range(Append(s, Head(t))) \cup Range(Tail(t)) = Range(s) \cup Range(t)
         /\ Range(Tail(t)) \subseteq Range(t)
<1> DEFINE h == Head(t)
           r == Tail(t)
<1>1. h \in S /\ r \in Seq(S) /\ t = <<h>> \o r
  BY HeadTailProperties, ConcatProperties
<1> HIDE DEF h, r
<1>2. <<h>> \in Seq(S) /\ Append(s, h) = s \o <<h>> /\ Append(s, h) \in Seq(S)
  BY <1>1, AppendIsConcat
<1>3. Append(s, h) \o r = s \o t
  BY <1>1, <1>2, ConcatAssociative
<1>4. Range(Append(s, h)) = Range(s) \cup {h}
  BY <1>1, RangeOf
<1>5. Range(t) = {h} \cup Range(r)
  <2>1. Range(t) = Range(<<h>>) \cup Range(r)
    <3> DEFINE u == <<h>>
    <3>1. u \in Seq(S) /\ t = u \o r
      BY <1>1, <1>2
    <3> HIDE DEF u
    <3>2. Range(u \o r) = Range(u) \cup Range(r)
      BY <1>1, <3>1, RangeOf
    <3> QED BY <3>1, <3>2 DEF u
  <2>2. Range(<<h>>) = {h}
    BY DEF Range
  <2> QED BY <2>1, <2>2
<1> QED BY <1>3, <1>4, <1>5 DEF h, r

-----------------------------------------------------------------------------
(***************************************************************************)
(* ControlInv is inductive.                                                *)
(***************************************************************************)
(* What each step of the parser does, without what it reads. *)
ParserMoves ==
  /\ pc = "parse"
  /\ \/ pc' = "undefined" /\ request' = request
     \/ /\ pc' = "parse"
        /\ request.curState = "ParseReqLine" /\ request'.curState = "ParseReqHeaders"
     \/ /\ pc' = "parse"
        /\ request.curState = "ParseReqHeaders" /\ request'.curState = "ParseReqHeaders"
     \/ /\ pc' = "process"
        /\ request.curState = "ParseReqHeaders" /\ request'.curState = "ParseReqDone"
  /\ UNCHANGED <<back, watch, due, taken, response, served, wbuf, out, offset, goal>>
  /\ UNCHANGED <<build, script, sent, client, seen, disk, changed>>

(* ParseLine and ParseHead are such steps.                                 *)
LEMMA ParserMoving ==
  ASSUME TypeOK, ParseLine \/ ParseHead
  PROVE  ParserMoves
<1> USE DEF Fixed, clientVars, diskVars, readVars, replyVars, loopVars
<1>0. request \in HttpRequest
  BY DEF TypeOK
<1>1. CASE ParseLine
  <2>1. /\ \/ pc' = "undefined" /\ UNCHANGED <<parsed, request>>
           \/ request' = parseHttpRequestLine(request, Line(Unread)) /\ UNCHANGED pc
        /\ UNCHANGED <<back, watch, due, taken, response, served, wbuf, out, offset, goal>>
        /\ UNCHANGED <<build, script, sent, client, seen, disk, changed>>
        /\ pc = "parse" /\ request.curState = "ParseReqLine"
    BY <1>1, Zenon DEF ParseLine, Undefined
  <2>2. parseHttpRequestLine(request, Line(Unread)).curState = "ParseReqHeaders"
    BY <1>0 DEF parseHttpRequestLine, HttpRequest
  <2> QED BY <2>1, <2>2 DEF ParserMoves
<1>2. CASE ParseHead
  <2>1. /\ \/ pc' = "undefined" /\ UNCHANGED <<parsed, request>>
           \/ /\ request' = parseHttpRequestHead(request, Line(Unread))
              /\ pc' = IF IsHeader(Line(Unread)) THEN "parse" ELSE "process"
        /\ UNCHANGED <<back, watch, due, taken, response, served, wbuf, out, offset, goal>>
        /\ UNCHANGED <<build, script, sent, client, seen, disk, changed>>
        /\ pc = "parse" /\ request.curState = "ParseReqHeaders"
    BY <1>2, Zenon DEF ParseHead, Undefined
  <2>2. parseHttpRequestHead(request, Line(Unread)).curState =
          IF IsHeader(Line(Unread)) THEN "ParseReqHeaders" ELSE "ParseReqDone"
    BY <1>0, <2>1 DEF parseHttpRequestHead, httpRequestAddHeader, HttpRequest
  <2> QED BY <2>1, <2>2 DEF ParserMoves
<1> QED BY <1>1, <1>2

(* ControlInv holds at the start.                                          *)
LEMMA ControlInit == Init => ControlInv
<1> SUFFICES ASSUME Init PROVE ControlInv
  OBVIOUS
<1>1. Range(out) = {} /\ Range(wbuf) = {}
  BY DEF Init, Range
<1>2. response.sendDataFunc = "NULL" /\ request.curState = "ParseReqLine"
  BY DEF Init, httpResponseInit, httpRequestReset
<1> QED BY <1>1, <1>2 DEF Init, ControlInv, Control, WrittenInv, Returning, At, Answering, Written,
     Ended

(* Nothing but a 400 is written before a request is processed.             *)
LEMMA WrittenStep ==
  ASSUME TypeOK, ControlInv, [Next]_vars
  PROVE  WrittenInv'
<1> USE DEF Fixed, Others, clientVars, diskVars, readVars, replyVars, loopVars
<1>0. WrittenInv /\ wbuf \in Seq(Chunk) /\ out \in Seq(Chunk) /\ served \in Nat
  BY DEF ControlInv, Control, WrittenInv, TypeOK
<1>1. CASE UNCHANGED <<wbuf, out>> /\ (served' = served \/ served' = served + 1)
  BY <1>0, <1>1 DEF WrittenInv, Written
<1>2. CASE ParseFails
  <2>1. Error400 \in Chunk
    BY DEF Error400, Chunk
  <2>2. Range(Append(wbuf, Error400)) = Range(wbuf) \cup {Error400}
    BY <1>0, <2>1, RangeOf
  <2>3. wbuf' = Append(wbuf, Error400) /\ UNCHANGED <<out, served>>
    BY <1>2 DEF ParseFails, Error400
  <2> QED BY <1>0, <2>2, <2>3 DEF WrittenInv, Written
<1>3. CASE SendChunk
  <2>1. wbuf # <<>> /\ out' = Append(out, Head(wbuf)) /\ wbuf' = Tail(wbuf) /\ UNCHANGED served
    BY <1>3 DEF SendChunk
  <2>2. Written' = Written
    BY <1>0, <2>1, ChunkMoves DEF Written
  <2> QED BY <1>0, <2>1, <2>2 DEF WrittenInv
<1>4. CASE PrepareMsg \/ OpenFile \/ SendFile \/ SendDir
  <2>1. pc \in {"prepare", "open", "file", "dir"} /\ served' = served
    BY <1>4 DEF PrepareMsg, OpenFile, SendFile, SendDir
  <2>2. served > 0
    BY <2>1 DEF ControlInv, Control, WrittenInv, At, Answering
  <2> QED BY <1>0, <2>1, <2>2 DEF WrittenInv
<1>5. CASE UNCHANGED vars
  BY <1>1, <1>5 DEF vars
<1>6. CASE ParseLine \/ ParseHead
  <2>1. ParserMoves
    BY <1>6, ParserMoving
  <2> QED BY <1>1, <2>1 DEF ParserMoves
<1>7. CASE ClientSends \/ ClientLeaves \/ ClientReads \/ FileChanges
  BY <1>1, <1>7 DEF ClientSends, ClientLeaves, ClientReads, FileChanges
<1>8. CASE Poll \/ EndScan \/ processRead \/ processReadReturns \/ processWrite \/ processWriteReturns
           \/ processHttpRequest \/ bufferSendDataReturns \/ SendFails \/ sendFileReturns
  BY <1>1, <1>8 DEF Poll, EndScan, processRead, processReadReturns, processWrite, processWriteReturns,
       processHttpRequest, bufferSendDataReturns, SendFails, sendFileReturns
<1> QED BY <1>2, <1>3, <1>4, <1>5, <1>6, <1>7, <1>8 DEF Next, Server

(* Clients and the file system keep Control.                               *)
LEMMA ControlEnvironment ==
  ASSUME TypeOK, Control, ClientSends \/ ClientLeaves \/ ClientReads \/ FileChanges \/ UNCHANGED vars
  PROVE  Control'
<1> USE DEF Fixed, Others, clientVars, diskVars, readVars, replyVars, loopVars
<1>1. /\ UNCHANGED <<pc, back, watch, taken, parsed, request, response, served, wbuf, goal, build>>
  BY DEF ClientSends, ClientLeaves, ClientReads, FileChanges, vars
<1> QED BY <1>1 DEF Control, Returning, At, AutoConn

(* Reading, parsing and the return of processRead keep Control.            *)
LEMMA ControlParser ==
  ASSUME TypeOK, Control, ParseLine \/ ParseHead \/ ParseFails \/ processRead \/ processReadReturns
  PROVE  Control'
<1> USE DEF Fixed, clientVars, diskVars, readVars, replyVars, loopVars
<1>0. request \in HttpRequest /\ wbuf \in Seq(Chunk) /\ served \in Nat /\ due \subseteq watch
      /\ taken \in 0 .. sent /\ sent \in Nat
  <2>1. Len(Message) \in Nat
    BY TypesBuffer, MessagePlaces DEF Buffered
  <2> QED BY <2>1 DEF TypeOK
<1>1. CASE ParseLine \/ ParseHead
  <2>1. ParserMoves
    BY <1>1, ParserMoving
  <2> QED BY <1>0, <2>1 DEF ParserMoves, Control, Returning, At, AutoConn, Answering, Ended
<1>2. CASE ParseFails
  <2>1. wbuf' # <<>>
    <3>1. Error400 \in Chunk /\ wbuf' = Append(wbuf, Error400)
      BY <1>2 DEF Error400, Chunk, ParseFails
    <3> QED BY <1>0, <3>1, RangeOf
  <2>2. pc = "parse" /\ pc' = "finish" /\ request.curState \in {"ParseReqLine", "ParseReqHeaders"}
        /\ UNCHANGED <<back, watch, taken, parsed, request, response, served, goal, build>>
    BY <1>2 DEF ParseFails
  <2> QED BY <1>0, <2>1, <2>2 DEF Control, Returning, At, AutoConn, Answering, Ended
<1>3. CASE processRead
  <2>1. /\ pc = "scan" /\ taken' = sent
        /\ IF sent > taken THEN pc' = "parse" /\ watch' = IF AutoConn THEN watch \cup {"out"} ELSE watch
           ELSE pc' = "finish" /\ watch' = watch
        /\ UNCHANGED <<back, parsed, request, response, served, wbuf, goal, build>>
    BY <1>3 DEF processRead
  <2> QED BY <1>0, <2>1 DEF Control, Returning, At, AutoConn, Answering, Ended
<1>4. CASE processReadReturns
  <2>1. /\ request'.curState = (IF request.curState = "ParseReqDone" THEN "ParseReqLine" ELSE request.curState)
    BY <1>0, <1>4 DEF processReadReturns, HttpRequest
  <2>2. /\ pc = "finish" /\ (AutoConn => pc' = "scan") /\ (~AutoConn => pc' \in {"closed", "stranded"})
        /\ UNCHANGED <<back, watch, taken, parsed, response, served, wbuf, goal, build>>
    BY <1>4 DEF processReadReturns, tcpConnectionDestory
  <2> QED BY <1>0, <2>1, <2>2 DEF Control, Returning, At, AutoConn, Answering, Ended
<1> QED BY <1>1, <1>2, <1>3, <1>4

(* The scan, processWrite and sending keep Control.                        *)
LEMMA ControlSend ==
  ASSUME TypeOK, Control,
         \/ Poll \/ EndScan \/ processWrite \/ processWriteReturns
         \/ SendChunk \/ bufferSendDataReturns \/ SendFails
  PROVE  Control'
<1> USE DEF Fixed, clientVars, diskVars, readVars, replyVars, loopVars
<1>0. served \in Nat /\ due \subseteq watch
  BY DEF TypeOK
<1>1. CASE Poll
  BY <1>0, <1>1 DEF Poll, Control, Returning, At, AutoConn, Answering, Ended
<1>2. CASE EndScan
  BY <1>0, <1>2 DEF EndScan, Control, Returning, At, AutoConn, Answering, Ended
<1>3. CASE processWrite
  BY <1>0, <1>3 DEF processWrite, Control, Returning, At, AutoConn, Answering, Ended
<1>4. CASE processWriteReturns
  <2>1. pc = "written" /\ pc' \in {"scan", "closed", "stranded"}
        /\ UNCHANGED <<back, watch, taken, parsed, request, response, served, wbuf, goal, build>>
    BY <1>4 DEF processWriteReturns, tcpConnectionDestory
  <2> QED BY <1>0, <2>1 DEF Control, Returning, At, AutoConn, Answering, Ended
<1>5. CASE SendChunk
  <2>1. pc = "send" /\ UNCHANGED <<pc, back, watch, taken, parsed, request, response, served, goal, build>>
    BY <1>5 DEF SendChunk
  <2> QED BY <1>0, <2>1 DEF Control, Returning, At, AutoConn, Answering, Ended
<1>6. CASE bufferSendDataReturns
  BY <1>0, <1>6 DEF bufferSendDataReturns, Control, Returning, At, AutoConn, Answering, Ended
<1>7. CASE SendFails
  <2>1. /\ \/ pc = "send" /\ pc' \in {back, "killed"}
           \/ pc = "file" /\ pc' \in {"finish", "killed"}
        /\ UNCHANGED <<back, watch, taken, parsed, request, response, served, wbuf, goal, build>>
    BY <1>7 DEF SendFails
  <2> QED BY <1>0, <2>1 DEF Control, Returning, At, AutoConn, Answering, Ended
<1> QED BY <1>1, <1>2, <1>3, <1>4, <1>5, <1>6, <1>7

(* What an answer is sent with: a file only of the disk.                   *)
LEMMA AnswerCases ==
  ASSUME response \in HttpResponse, disk \in [OnDisk -> Sizes], NEW r
  PROVE  \/ Answer(r) = response
         \/ Answer(r).sendDataFunc = "sendFile" /\ Answer(r).fileName \in OnDisk
         \/ Answer(r).sendDataFunc = "sendDir"
<1> DEFINE f == FileNamed(r.url)
           typed == HttpResponseAddHeader(response, <<"type", 0>>)
           long == HttpResponseAddHeader(typed, <<"length", disk[f]>>)
<1>1. stat(f) \in {"fails", "directory", "file"} /\ (stat(f) = "file" => f \in OnDisk)
  BY DEF stat, FileNamed, OnDisk
<1>2. DOMAIN typed = DOMAIN response /\ DOMAIN long = DOMAIN response
  BY DEF HttpResponseAddHeader
<1>3. DOMAIN response = {"statusCode", "fileName", "headers", "sendDataFunc"}
  BY DEF HttpResponse
<1>4. Answer(r) = IF r.method # <<"GET">> THEN response
                  ELSE IF stat(f) = "fails"
                       THEN [typed EXCEPT !.statusCode = NotFound, !.fileName = "404.html", !.sendDataFunc = "sendFile"]
                  ELSE IF stat(f) = "directory"
                       THEN [typed EXCEPT !.statusCode = OK, !.fileName = f, !.sendDataFunc = "sendDir"]
                  ELSE [long EXCEPT !.statusCode = OK, !.fileName = f, !.sendDataFunc = "sendFile"]
  <2> HIDE DEF f, typed, long
  <2> QED BY <1>1 DEF Answer, f, typed, long
<1> HIDE DEF f, typed, long
<1> QED BY <1>1, <1>2, <1>3, <1>4 DEF OnDisk

(* The steps of the answer keep Control.                                   *)
LEMMA ControlAnswer ==
  ASSUME TypeOK, Control,
         \/ processHttpRequest \/ PrepareMsg
         \/ OpenFile \/ SendFile \/ sendFileReturns \/ SendDir
  PROVE  Control'
<1> USE DEF Fixed, clientVars, diskVars, readVars, replyVars, loopVars
<1>0. served \in Nat /\ response \in HttpResponse /\ disk \in [OnDisk -> Sizes]
  BY DEF TypeOK
<1> USE DEF AutoSend
<1>1. CASE processHttpRequest
  <2>1. /\ pc = "process" /\ pc' \in {"undefined", "prepare"} /\ served' = served + 1
        /\ response' = Answer(request)
        /\ UNCHANGED <<back, watch, taken, parsed, request, wbuf, goal, build>>
    BY <1>1 DEF processHttpRequest
  <2>2. response'.sendDataFunc = "sendFile" => response'.fileName \in OnDisk
    BY <1>0, <2>1, AnswerCases DEF Control
  <2> QED BY <1>0, <2>1, <2>2 DEF Control, Returning, At, AutoConn, Answering, Ended
<1>2. CASE PrepareMsg
  <2>1. /\ pc = "prepare" /\ goal' = DirEntries
        /\ \E next \in {"open", "dir", "finish"} :
             /\ next = "open" => response.sendDataFunc = "sendFile"
             /\ \/ pc' = "send" /\ back' = next
                \/ build = "flag" /\ pc' = next /\ back' = back
        /\ UNCHANGED <<watch, taken, parsed, request, response, served, build>>
    <3> DEFINE next == CASE response.sendDataFunc = "NULL" -> "finish"
                         [] response.sendDataFunc = "sendFile" -> "open"
                         [] response.sendDataFunc = "sendDir" -> "dir"
    <3>1. response.sendDataFunc \in {"NULL", "sendFile", "sendDir"}
      BY <1>0 DEF HttpResponse
    <3>2. next \in {"open", "dir", "finish"} /\ (next = "open" => response.sendDataFunc = "sendFile")
      BY <3>1
    <3>3. /\ SendUnlessAuto(next) /\ pc = "prepare" /\ goal' = DirEntries
          /\ UNCHANGED <<watch, taken, parsed, request, response, served, build>>
      BY <1>2 DEF PrepareMsg
    <3> HIDE DEF next
    <3>4. \/ pc' = "send" /\ back' = next
          \/ build = "flag" /\ pc' = next /\ back' = back
      BY <3>3 DEF SendUnlessAuto, SendThen
    <3> QED BY <3>2, <3>3, <3>4
  <2> QED BY <1>0, <2>1 DEF Control, Returning, At, AutoConn, AutoSend, Answering, Ended
<1>3. CASE OpenFile
  <2>1. /\ pc = "open"
        /\ \/ pc' = "send" /\ back' = "finish"
           \/ build = "flag" /\ pc' = "finish"
           \/ pc' = "file"
        /\ UNCHANGED <<watch, taken, parsed, request, response, served, build>>
    BY <1>3 DEF OpenFile, SendUnlessAuto, SendThen
  <2> QED BY <1>0, <2>1 DEF Control, Returning, At, AutoConn, AutoSend, Answering, Ended
<1>4. CASE SendFile
  <2>1. pc = "file" /\ UNCHANGED <<pc, back, watch, taken, parsed, request, response, served, goal, wbuf, build>>
    BY <1>4 DEF SendFile
  <2> QED BY <1>0, <2>1 DEF Control, Returning, At, AutoConn, Answering, Ended
<1>5. CASE sendFileReturns
  BY <1>0, <1>5 DEF sendFileReturns, Control, Returning, At, AutoConn, Answering, Ended
<1>6. CASE SendDir
  <2>1. /\ pc = "dir"
        /\ \/ pc' = "send" /\ back' \in {"dir", "finish"}
           \/ build = "flag" /\ pc' = "finish"
        /\ UNCHANGED <<watch, taken, parsed, request, response, served, goal, build>>
    BY <1>6 DEF SendDir, SendUnlessAuto, SendThen
  <2> QED BY <1>0, <2>1 DEF Control, Returning, At, AutoConn, AutoSend, Answering, Ended
<1> QED BY <1>1, <1>2, <1>3, <1>4, <1>5, <1>6

(* Every step keeps ControlInv.                                            *)
LEMMA ControlStep == TypeOK /\ ControlInv /\ [Next]_vars => ControlInv'
<1> SUFFICES ASSUME TypeOK, ControlInv, [Next]_vars PROVE ControlInv'
  OBVIOUS
<1>1. Control
  BY DEF ControlInv, Control, WrittenInv
<1>2. Control'
  BY <1>1, ControlEnvironment, ControlParser, ControlSend, ControlAnswer DEF Next, Server
<1>3. WrittenInv'
  BY WrittenStep
<1> QED BY <1>2, <1>3 DEF ControlInv, Control, WrittenInv

-----------------------------------------------------------------------------
(***************************************************************************)
(* ParserInv: of well-formed requests, the parser is at the byte, and      *)
(* holds the headers, that the number of requests processed tells.         *)
(***************************************************************************)
(* Method and URL are those of the request line.                           *)
LineIs(r) == request.method = <<r.line[1]>> /\ request.url = <<r.line[3]>>

(* Between two requests, within the head of one, and behind its head. *)
BeforeRequest == served <= Len(script) /\ parsed = Off(served) /\ request.reqHeaders = Headers(served)

InHead ==
  /\ served < Len(script) /\ LineIs(Current)
  /\ \E j \in 0 .. Len(Current.head) :
        /\ parsed = Off(served) + 7 + 6 * j
        /\ request.reqHeaders = Headers(served) \o SubSeq(HeadersOf(Current), 1, j)

AfterHead ==
  /\ served < Len(script) /\ LineIs(Current)
  /\ parsed = Off(served + 1) /\ request.reqHeaders = Headers(served + 1)

(* The parser is where the number of processed requests tells; and a first *)
(* request that has arrived in full is served, or about to be.             *)
ParserInv ==
  /\ Good(served) => served <= Len(script)
  /\ Good(served) /\ pc # "process" /\ request.curState # "ParseReqHeaders" => BeforeRequest
  /\ Good(served + 1) /\ request.curState = "ParseReqHeaders" => InHead
  /\ Good(served + 1) /\ pc = "process" => AfterHead
  /\ Good(1) /\ served > 0 => parsed >= Off(1)
  /\ Good(1) /\ taken >= Off(1) => served > 0 \/ pc \in {"parse", "process", "undefined"}

(* ParserInv holds at the start.                                           *)
LEMMA NothingParsed ==
  ASSUME Init
  PROVE  ParserInv
<1>1. script \in Seq(Request) /\ script # <<>> /\ served = 0 /\ parsed = 0 /\ taken = 0
      /\ request.reqHeaders = <<>> /\ request.curState = "ParseReqLine" /\ pc = "idle"
  BY HttpExchangeAssumption DEF Init, Request, httpRequestReset
<1>2. Len(script) \in Nat /\ Len(script) # 0
  BY <1>1
<1>3. Off(0) = 0 /\ Headers(0) = <<>>
  BY <1>1, MessagePlaces, HeadersStart DEF Scripted
<1>4. Good(1) => Off(1) > 0
  <2> SUFFICES ASSUME Good(1) PROVE Off(1) > 0
    OBVIOUS
  <2>1. script[1] \in Request /\ WellFormed(script[1])
    <3>1. 1 \in DOMAIN script /\ script[1] \in Request
      BY <1>1, <1>2
    <3> QED BY <3>1 DEF Good
  <2>2. Len(script[1].head) \in Nat /\ Len(Encode(script[1])) = 7 + 6 * Len(script[1].head) + 2
    BY <2>1, EncodePlaces
  <2>3. Off(0 + 1) = Off(0) + Len(Encode(script[0 + 1]))
    <3>1. 0 \in 0 .. Len(script) - 1
      BY <1>2
    <3> QED BY <1>1, <3>1, MessagePlaces DEF Scripted
  <2> QED BY <1>3, <2>2, <2>3
<1>5. BeforeRequest
  BY <1>1, <1>2, <1>3 DEF BeforeRequest
<1>6. Good(1) => ~(taken >= Off(1))
  <2>1. Off(1) \in Nat
    <3>1. 1 \in 0 .. Len(script)
      BY <1>2
    <3> QED BY <1>1, <3>1, MessagePlaces DEF Scripted
  <2> QED BY <1>1, <1>4, <2>1
<1>7. ~(served > 0) /\ request.curState # "ParseReqHeaders" /\ pc # "process"
  BY <1>1
<1> QED BY <1>5, <1>6, <1>7 DEF ParserInv, BeforeRequest

(* If the first k + 1 requests are well formed, so are the first k.        *)
LEMMA GoodSooner ==
  ASSUME Scripted, NEW k \in Nat, Good(k + 1)
  PROVE  Good(k)
BY DEF Scripted, Good

(* If the requests up to the current one are well formed, it is.           *)
LEMMA GoodCurrent ==
  ASSUME Scripted, served \in Nat, served < Len(script), Good(served + 1)
  PROVE  WellFormed(Current)
<1>1. served + 1 \in DOMAIN script /\ served + 1 <= served + 1
  BY DEF Scripted
<1> QED BY <1>1 DEF Good, Current

(* The steps that neither read nor parse. *)
LEMMA ParserStill ==
  ASSUME ParserInv, UNCHANGED <<script, parsed, request, served, taken>>,
         pc' = pc \/ (pc \notin {"parse", "process", "undefined"} /\ pc' # "process")
  PROVE  ParserInv'
<1>1. UNCHANGED <<Off(served), Off(served + 1), Off(1), Headers(served), Headers(served + 1), Current,
                  Good(served), Good(served + 1), Good(1)>>
  BY DEF Off, Headers, Current, Good
<1>2. UNCHANGED <<BeforeRequest, InHead, AfterHead>>
  BY <1>1 DEF BeforeRequest, InHead, AfterHead, LineIs
<1> QED BY <1>1, <1>2 DEF ParserInv

(* After a request, before the next. *)
LEMMA ParserServes ==
  ASSUME TypeOK, ControlInv, ParserInv, processHttpRequest
  PROVE  ParserInv'
<1>1. /\ pc = "process" /\ pc' # "process" /\ served' = served + 1 /\ UNCHANGED <<script, parsed, request, taken>>
      /\ request.curState = "ParseReqDone"
  BY DEF processHttpRequest, Fixed, readVars, ControlInv, Control, WrittenInv
<1>2. served \in Nat /\ Len(script) \in Nat
  BY TypesBuffer DEF TypeOK, Buffered, Scripted
<1>3. /\ Off(served)' = Off(served + 1) /\ Headers(served)' = Headers(served + 1)
      /\ Good(served)' = Good(served + 1) /\ UNCHANGED <<Off(1), Good(1)>>
  BY <1>1 DEF Off, Headers, Good
<1>4. Good(served + 1) => AfterHead
  BY <1>1 DEF ParserInv
<1>5. Good(1) => parsed >= Off(1)
  <2>1. CASE served = 0
    <3>1. parsed \in Nat
      BY TypesBuffer, UnreadBytes
    <3>2. served + 1 = 1
      BY <2>1
    <3> QED BY <1>4, <3>1, <3>2 DEF AfterHead
  <2>2. CASE served # 0
    BY <1>2, <2>2 DEF ParserInv
  <2> QED BY <2>1, <2>2
<1> QED BY <1>1, <1>2, <1>3, <1>4, <1>5 DEF ParserInv, BeforeRequest, AfterHead

(* The return of processRead keeps ParserInv: the state it resets is that  *)
(* of a request that has been served.                                      *)
LEMMA ParserReturns ==
  ASSUME TypeOK, ParserInv, processReadReturns
  PROVE  ParserInv'
<1>1. /\ pc = "finish" /\ pc' \notin {"process", "parse"} /\ UNCHANGED <<script, parsed, taken, served>>
      /\ request' = [request EXCEPT !.curState = IF @ = "ParseReqDone" THEN "ParseReqLine" ELSE @]
  BY DEF processReadReturns, tcpConnectionDestory, Fixed, replyVars
<1>2. /\ UNCHANGED <<request.reqHeaders, request.method, request.url>>
      /\ request.curState = "ParseReqHeaders" <=> request'.curState = "ParseReqHeaders"
  BY <1>1 DEF TypeOK, HttpRequest
<1>3. UNCHANGED <<Off(served), Off(served + 1), Off(1), Headers(served), Headers(served + 1), Current,
                  Good(served), Good(served + 1), Good(1)>>
  BY <1>1 DEF Off, Headers, Current, Good
<1>4. UNCHANGED <<BeforeRequest, InHead>>
  BY <1>1, <1>2, <1>3 DEF BeforeRequest, InHead, LineIs
<1> QED BY <1>1, <1>2, <1>3, <1>4 DEF ParserInv

(* Reading keeps ParserInv.                                                *)
LEMMA ParserReads ==
  ASSUME TypeOK, ParserInv, processRead
  PROVE  ParserInv'
<1>1. /\ pc = "scan" /\ taken' = sent /\ UNCHANGED <<script, parsed, request, served>>
      /\ pc' = "parse" \/ (pc' = "finish" /\ ~(sent > taken))
  BY DEF processRead, Fixed, replyVars
<1>2. taken \in 0 .. sent /\ sent \in Nat
  <2>1. Len(Message) \in Nat
    BY TypesBuffer, MessagePlaces DEF Buffered
  <2> QED BY <2>1 DEF TypeOK
<1>3. UNCHANGED <<Off(served), Off(served + 1), Off(1), Headers(served), Headers(served + 1), Current,
                  Good(served), Good(served + 1), Good(1)>>
  BY <1>1 DEF Off, Headers, Current, Good
<1>4. UNCHANGED <<BeforeRequest, InHead>>
  BY <1>1, <1>3 DEF BeforeRequest, InHead, LineIs
<1>5. pc' = "finish" => taken' = taken
  BY <1>1, <1>2
<1> QED BY <1>1, <1>3, <1>4, <1>5 DEF ParserInv

(* Where a request line is read, one is to come. *)
LEMMA LineToCome ==
  ASSUME TypeOK, ControlInv, ParserInv, pc = "parse", request.curState = "ParseReqLine", Good(served + 1)
  PROVE  /\ BeforeRequest /\ served \in Nat /\ Scripted
         /\ served = Len(script) => LineFails(Unread)
         /\ served < Len(script) => WellFormed(Current)
<1>1. Buffered /\ Scripted /\ served \in Nat /\ Len(script) \in Nat
  BY TypesBuffer DEF TypeOK, Buffered, Scripted
<1>2. BeforeRequest
  BY <1>1, GoodSooner DEF ParserInv
<1>3. ASSUME served = Len(script) PROVE LineFails(Unread)
  <2>1. parsed = Len(Message)
    BY <1>1, <1>2, <1>3, MessagePlaces DEF BeforeRequest
  <2>2. Unread \in Seq(Byte) /\ Len(Unread) = 0
    BY <1>1, <2>1, UnreadBytes
  <2>3. bufferFindCRLF(Unread) = 0
    <3>1. FirstTwo(bufferFindCRLF(Unread), Unread, "CR", "LF")
      BY <2>2, FindTwo DEF bufferFindCRLF
    <3> QED BY <2>2, <3>1 DEF FirstTwo
  <2> QED BY <2>3 DEF LineFails
<1> QED BY <1>1, <1>2, <1>3, GoodCurrent

(* ParseLine finds the line of the current request.                        *)
LEMMA LineWellParsed ==
  ASSUME TypeOK, ControlInv, ParserInv, ParseLine, Good(served + 1)
  PROVE  /\ pc' = "parse" /\ UNCHANGED <<script, served, taken>>
         /\ InHead' /\ request'.curState = "ParseReqHeaders"
<1>1. pc = "parse" /\ request.curState = "ParseReqLine" /\ ~LineFails(Unread)
      /\ UNCHANGED <<script, served, taken>>
  BY DEF ParseLine, Fixed, replyVars
<1>2. Buffered /\ Scripted /\ served \in Nat /\ Len(script) \in Nat
  BY TypesBuffer DEF TypeOK, Buffered, Scripted
<1>3. served < Len(script) /\ WellFormed(Current) /\ parsed = Off(served) /\ request.reqHeaders = Headers(served)
  BY <1>1, <1>2, LineToCome DEF BeforeRequest
<1>4. /\ ~LineUndefined(Line(Unread)) /\ taken - Len(AfterLine(Unread)) = parsed + 7
      /\ parseHttpRequestLine(request, Line(Unread)) =
              [request EXCEPT !.method = <<Current.line[1]>>, !.url = <<Current.line[3]>>,
                              !.curState = "ParseReqHeaders"]
  BY <1>1, <1>2, <1>3, LineParsed
<1>5. /\ request' = [request EXCEPT !.method = <<Current.line[1]>>, !.url = <<Current.line[3]>>,
                              !.curState = "ParseReqHeaders"]
      /\ parsed' = parsed + 7 /\ pc' = "parse"
  BY <1>1, <1>4, Zenon DEF ParseLine
<1>6. LineIs(Current)' /\ request'.reqHeaders = Headers(served) /\ request'.curState = "ParseReqHeaders"
  <2>1. Current' = Current
    BY <1>1 DEF Current
  <2> QED BY <1>3, <1>5, <2>1 DEF LineIs, TypeOK, HttpRequest
<1>7. InHead'
  <2>1. Current' = Current /\ Off(served)' = Off(served) /\ Headers(served)' = Headers(served)
        /\ HeadersOf(Current)' = HeadersOf(Current)
    BY <1>1 DEF Current, Off, Headers, HeadersOf
  <2>2. Current \in Request /\ Off(served) \in Nat
    <3>1. served \in 0 .. Len(script)
      BY <1>2, <1>3
    <3> QED BY <1>2, <1>3, <3>1, CurrentIs, MessagePlaces
  <2>3. HeadersOf(Current) \in Seq(HeaderLine) /\ 0 \in 0 .. Len(Current.head)
    BY <1>3, <2>2, HeadersOfType
  <2>4. Headers(served) \in Seq(HeaderLine)
    BY <1>2, <1>3, HeadersGrow
  <2>5. request'.reqHeaders = Headers(served) \o SubSeq(HeadersOf(Current), 1, 0)
    <3>1. SubSeq(HeadersOf(Current), 1, 0) = <<>>
      BY <2>3, SubSeqEmpty
    <3>2. Headers(served) \o <<>> = Headers(served)
      BY <2>4, ConcatEmptySeq
    <3> QED BY <1>6, <3>1, <3>2
  <2>6. parsed' = Off(served) + 7 + 6 * 0
    BY <1>3, <1>5, <2>2
  <2>7. served' < Len(script') /\ 0 \in 0 .. Len(Current'.head)
    BY <1>1, <1>3, <2>1, <2>3
  <2> DEFINE none == SubSeq(HeadersOf(Current), 1, 0)
  <2>8. none' = none
    BY <2>1
  <2>9. \E j \in 0 .. Len(Current'.head) :
          /\ parsed' = Off(served)' + 7 + 6 * j
          /\ request'.reqHeaders = Headers(served)' \o SubSeq(HeadersOf(Current)', 1, j)
    BY <2>1, <2>5, <2>6, <2>7
  <2> QED BY <1>6, <2>7, <2>9 DEF InHead
<1> QED BY <1>1, <1>5, <1>6, <1>7

(* ParseLine keeps ParserInv.                                              *)
LEMMA ParserParsesLine ==
  ASSUME TypeOK, ControlInv, ParserInv, ParseLine
  PROVE  ParserInv'
<1>1. /\ pc = "parse" /\ request.curState = "ParseReqLine" /\ UNCHANGED <<script, served, taken>>
      /\ \/ pc' = "undefined" /\ UNCHANGED <<parsed, request>>
         \/ pc' = "parse" /\ request' = parseHttpRequestLine(request, Line(Unread))
            /\ parsed' = taken - Len(AfterLine(Unread))
  BY Zenon DEF ParseLine, Undefined, Fixed, replyVars
<1>2. UNCHANGED <<Off(served), Off(1), Headers(served), Good(served), Good(served + 1), Good(1)>>
  BY <1>1 DEF Off, Headers, Good
<1>3. Good(served + 1) => InHead' /\ pc' = "parse"
  BY LineWellParsed
<1>4. parsed' >= parsed
  <2>1. Unread \in Seq(Byte) /\ Len(Unread) = taken - parsed /\ taken \in Nat /\ parsed \in Nat
    BY TypesBuffer, UnreadBytes
  <2>2. Len(AfterLine(Unread)) \in 0 .. Len(Unread)
    BY <2>1, LineType
  <2> QED BY <1>1, <2>1, <2>2
<1>5. pc' = "parse" => request'.curState = "ParseReqHeaders"
  BY <1>1 DEF TypeOK, HttpRequest, parseHttpRequestLine
<1>6. Good(1) /\ served > 0 => parsed' >= Off(1)
  <2> SUFFICES ASSUME Good(1), served > 0 PROVE parsed' >= Off(1)
    OBVIOUS
  <2>1. parsed >= Off(1)
    BY DEF ParserInv
  <2>2. parsed \in Nat /\ parsed' \in Int /\ Off(1) \in Nat
    <3>1. 1 \in 0 .. Len(script) /\ Scripted
      <4>1. script \in Seq(Request) /\ script # <<>>
        BY HttpExchangeAssumption DEF TypeOK, Request
      <4> QED BY <4>1 DEF Scripted
    <3>2. Len(AfterLine(Unread)) \in Nat /\ taken \in Nat /\ parsed \in Nat
      BY TypesBuffer, UnreadBytes, LineType
    <3> QED BY <1>1, <3>1, <3>2, MessagePlaces
  <2> QED BY <1>4, <2>1, <2>2
<1>7. CASE pc' = "undefined" /\ UNCHANGED <<parsed, request>>
  <2>1. BeforeRequest' = BeforeRequest
    BY <1>1, <1>2, <1>7 DEF BeforeRequest
  <2> QED BY <1>1, <1>2, <1>3, <1>6, <1>7, <2>1 DEF ParserInv
<1>8. CASE pc' = "parse"
  BY <1>1, <1>2, <1>3, <1>5, <1>6, <1>8 DEF ParserInv
<1> QED BY <1>1, <1>7, <1>8

(* What ParseHead does, by the line it reads. *)
LEMMA HeadMoves ==
  ASSUME TypeOK, ParseHead
  PROVE  /\ pc = "parse" /\ request.curState = "ParseReqHeaders" /\ ~HeadFails(Unread)
         /\ UNCHANGED <<script, served, taken>>
         /\ pc' \in {"undefined", "parse", "process"}
         /\ pc' = "undefined" => /\ IsHeader(Line(Unread)) /\ Len(request.reqHeaders) >= HeaderSize
                                 /\ UNCHANGED <<parsed, request>>
         /\ pc' = "parse" => /\ IsHeader(Line(Unread))
                             /\ request' = httpRequestAddHeader(request, Line(Unread))
                             /\ parsed' = taken - Len(UnreadAfter(Unread, Line(Unread)))
         /\ pc' = "process" => /\ ~IsHeader(Line(Unread))
                               /\ request' = [request EXCEPT !.curState = "ParseReqDone"]
                               /\ parsed' = taken - Len(UnreadAfter(Unread, Line(Unread)))
<1> DEFINE b == Unread
           line == Line(Unread)
           after == UnreadAfter(Unread, Line(Unread))
<1>1. /\ pc = "parse" /\ request.curState = "ParseReqHeaders" /\ ~HeadFails(b)
      /\ IF HeadUndefined(request, line) THEN Undefined
         ELSE /\ request' = parseHttpRequestHead(request, line)
              /\ parsed' = taken - Len(after)
              /\ pc' = IF IsHeader(line) THEN "parse" ELSE "process"
      /\ UNCHANGED <<script, served, taken>>
  BY DEF ParseHead, Fixed, replyVars
<1> HIDE DEF b, line, after
<1>2. CASE HeadUndefined(request, line)
  BY <1>1, <1>2 DEF Undefined, HeadUndefined, b, line, after
<1>3. CASE ~HeadUndefined(request, line) /\ IsHeader(line)
  BY <1>1, <1>3 DEF parseHttpRequestHead, b, line, after
<1>4. CASE ~HeadUndefined(request, line) /\ ~IsHeader(line)
  BY <1>1, <1>4 DEF parseHttpRequestHead, b, line, after
<1> QED BY <1>2, <1>3, <1>4

(* In the head of a well-formed request, after j of its headers. *)
LEMMA HeadWellParsed ==
  ASSUME TypeOK, ControlInv, ParserInv, ParseHead, Good(served + 1)
  PROVE  /\ pc' = "undefined" => Len(Headers(served + 1)) > HeaderSize
         /\ pc' = "parse" => InHead'
         /\ pc' = "process" => AfterHead'
<1>1. /\ pc = "parse" /\ request.curState = "ParseReqHeaders" /\ ~HeadFails(Unread)
      /\ UNCHANGED <<script, served, taken>>
  BY HeadMoves
<1>2. Buffered /\ Scripted /\ served \in Nat /\ Len(script) \in Nat /\ request \in HttpRequest
  BY TypesBuffer DEF TypeOK, Buffered, Scripted
<1>3. served < Len(script) /\ LineIs(Current)
  BY <1>1 DEF ParserInv, InHead
<1>4. PICK j \in 0 .. Len(Current.head) :
        /\ parsed = Off(served) + 7 + 6 * j
        /\ request.reqHeaders = Headers(served) \o SubSeq(HeadersOf(Current), 1, j)
  BY <1>1 DEF ParserInv, InHead
<1>5. WellFormed(Current) /\ Current \in Request
  BY <1>2, <1>3, GoodCurrent, CurrentIs
<1> DEFINE n == Len(Current.head)
           hs == HeadersOf(Current)
           before == Headers(served)
<1>6. hs \in Seq(HeaderLine) /\ Len(hs) = n /\ n \in Nat
  BY <1>5, HeadersOfType
<1>7. before \in Seq(HeaderLine) /\ Headers(served + 1) = before \o hs
  <2>1. served \in 0 .. Len(script) - 1 /\ Current = script[served + 1]
    BY <1>2, <1>3 DEF Current
  <2> QED BY <1>2, <2>1, HeadersGrow
<1>8. /\ Current' = Current /\ HeadersOf(Current)' = hs /\ Headers(served)' = before
      /\ Headers(served + 1)' = Headers(served + 1) /\ Off(served)' = Off(served) /\ Off(served + 1)' = Off(served + 1)
  BY <1>1 DEF Current, HeadersOf, Headers, Off
<1>9. Off(served) \in Nat
  <2>1. served \in 0 .. Len(script)
    BY <1>2, <1>3
  <2> QED BY <1>2, <2>1, MessagePlaces
<1>10. LineIs(Current)' <=> request'.method = request.method /\ request'.url = request.url
  BY <1>3, <1>8 DEF LineIs
<1> HIDE DEF n, hs, before
<1>11. CASE j < n
  <2>1. j \in 0 .. Len(Current.head) - 1
    BY <1>6, <1>11 DEF n
  <2>2. /\ IsHeader(Line(Unread))
        /\ taken - Len(UnreadAfter(Unread, Line(Unread))) = parsed + 6
        /\ httpRequestAddHeader(request, Line(Unread)) = [request EXCEPT !.reqHeaders = Append(@, hs[j + 1])]
    BY <1>1, <1>2, <1>3, <1>4, <1>5, <2>1, HeaderParsed DEF hs
  <2>3. ASSUME pc' = "undefined" PROVE Len(Headers(served + 1)) > HeaderSize
    <3>1. Len(before \o SubSeq(hs, 1, j)) >= HeaderSize
      BY <1>4, <2>3, HeadMoves DEF before, hs
    <3>2. SubSeq(hs, 1, j) \in Seq(HeaderLine) /\ Len(SubSeq(hs, 1, j)) = j
      <4>1. j \in Nat /\ j <= Len(hs)
        BY <1>6, <1>11
      <4> QED BY <1>6, <4>1
    <3>3. Len(before \o SubSeq(hs, 1, j)) = Len(before) + j /\ Len(before \o hs) = Len(before) + n
          /\ Len(before) \in Nat
      <4> DEFINE u == SubSeq(hs, 1, j)
      <4> HIDE DEF u
      <4>1. u \in Seq(HeaderLine) /\ Len(u) = j
        BY <3>2 DEF u
      <4>2. Len(before \o u) = Len(before) + Len(u)
        BY SMTT(30),<1>7, <4>1
      <4>3. Len(before \o hs) = Len(before) + n /\ Len(before) \in Nat
        <5>1. IsConcat(before \o hs, before, hs)
          BY <1>6, <1>7, ConcatParts
        <5> QED BY <1>6, <5>1 DEF IsConcat
      <4> QED BY <4>1, <4>2, <4>3 DEF u
    <3> QED BY <1>6, <1>7, <1>11, <3>1, <3>3, HttpRequestAssumption
  <2>4. ASSUME pc' = "parse" PROVE InHead'
    <3>1. request' = [request EXCEPT !.reqHeaders = Append(@, hs[j + 1])] /\ parsed' = parsed + 6
      BY <2>2, <2>4, HeadMoves
    <3>2. /\ request'.method = request.method /\ request'.url = request.url
          /\ request'.reqHeaders = Append(request.reqHeaders, hs[j + 1])
      BY <1>2, <3>1 DEF HttpRequest
    <3>3. Append(before \o SubSeq(hs, 1, j), hs[j + 1]) = before \o SubSeq(hs, 1, j + 1)
      <4>1. j \in 0 .. Len(hs) - 1
        BY <1>6, <1>11
      <4> QED BY <1>6, <1>7, <4>1, OneMore
    <3>4. request'.reqHeaders = before \o SubSeq(hs, 1, j + 1)
      BY <1>4, <3>2, <3>3 DEF before, hs
    <3>5. parsed' = Off(served) + 7 + 6 * (j + 1)
      <4>1. j \in Nat
        OBVIOUS
      <4> QED BY <1>4, <1>9, <3>1, <4>1
    <3>6. j + 1 \in 0 .. Len(Current'.head) /\ served' < Len(script')
      BY <1>1, <1>3, <1>6, <1>8, <1>11 DEF n
    <3>7. \E i \in 0 .. Len(Current'.head) :
            /\ parsed' = Off(served)' + 7 + 6 * i
            /\ request'.reqHeaders = Headers(served)' \o SubSeq(HeadersOf(Current)', 1, i)
      BY <1>8, <3>4, <3>5, <3>6
    <3> QED BY <1>10, <3>2, <3>6, <3>7 DEF InHead
  <2>5. pc' # "process"
    BY <2>2, HeadMoves
  <2> QED BY <2>3, <2>4, <2>5
<1>12. CASE j = n
  <2>1. /\ ~IsHeader(Line(Unread))
        /\ taken - Len(UnreadAfter(Unread, Line(Unread))) = parsed + 2
        /\ parsed + 2 = Off(served + 1)
    BY <1>1, <1>2, <1>3, <1>4, <1>5, <1>12, HeadEnds DEF n
  <2>2. pc' = "process" /\ request' = [request EXCEPT !.curState = "ParseReqDone"] /\ parsed' = Off(served + 1)
    BY <2>1, HeadMoves
  <2>3. request'.method = request.method /\ request'.url = request.url /\ request'.reqHeaders = request.reqHeaders
    BY <1>2, <2>2 DEF HttpRequest
  <2>4. SubSeq(hs, 1, j) = hs
    BY <1>6, <1>12, SubSeqFull
  <2>5. request'.reqHeaders = Headers(served + 1)
    BY <1>4, <1>7, <2>3, <2>4 DEF before, hs
  <2>6. AfterHead'
    BY <1>1, <1>3, <1>8, <1>10, <2>2, <2>3, <2>5 DEF AfterHead
  <2> QED BY <2>2, <2>6
<1> QED BY <1>6, <1>11, <1>12 DEF n

(* ParseHead keeps ParserInv.                                              *)
LEMMA ParserParsesHead ==
  ASSUME TypeOK, ControlInv, ParserInv, ParseHead
  PROVE  ParserInv'
<1>1. /\ pc = "parse" /\ request.curState = "ParseReqHeaders" /\ UNCHANGED <<script, served, taken>>
      /\ pc' \in {"undefined", "parse", "process"}
      /\ pc' = "undefined" => UNCHANGED <<parsed, request>>
      /\ pc' = "parse" => request' = httpRequestAddHeader(request, Line(Unread))
      /\ pc' = "process" => request' = [request EXCEPT !.curState = "ParseReqDone"]
      /\ pc' # "undefined" => parsed' = taken - Len(UnreadAfter(Unread, Line(Unread)))
  BY HeadMoves
<1>2. UNCHANGED <<Off(served), Off(served + 1), Off(1), Headers(served), Headers(served + 1), Current,
                  Good(served), Good(served + 1), Good(1)>>
  BY <1>1 DEF Off, Headers, Current, Good
<1>3. Good(served + 1) => (pc' = "parse" => InHead') /\ (pc' = "process" => AfterHead')
  BY HeadWellParsed
<1>4. request'.curState = IF pc' = "process" THEN "ParseReqDone" ELSE "ParseReqHeaders"
  BY <1>1 DEF TypeOK, HttpRequest, httpRequestAddHeader
<1>5. Good(1) /\ served > 0 => parsed' >= Off(1)
  <2> SUFFICES ASSUME Good(1), served > 0 PROVE parsed' >= Off(1)
    OBVIOUS
  <2>1. parsed >= Off(1)
    BY DEF ParserInv
  <2>2. parsed' >= parsed /\ parsed \in Nat /\ parsed' \in Int
    <3>1. Unread \in Seq(Byte) /\ Len(Unread) = taken - parsed /\ taken \in Nat /\ parsed \in Nat
      BY TypesBuffer, UnreadBytes
    <3>2. Len(UnreadAfter(Unread, Line(Unread))) \in 0 .. Len(Unread)
      BY <3>1, LineType
    <3> QED BY <1>1, <3>1, <3>2
  <2>3. Off(1) \in Nat
    <3>1. 1 \in 0 .. Len(script) /\ Scripted
      <4>1. script \in Seq(Request) /\ script # <<>>
        BY HttpExchangeAssumption DEF TypeOK, Request
      <4> QED BY <4>1 DEF Scripted
    <3> QED BY <3>1, MessagePlaces
  <2> QED BY <2>1, <2>2, <2>3
<1>6. CASE pc' = "undefined"
  <2>1. InHead' = InHead
    BY <1>1, <1>2, <1>6 DEF InHead, LineIs
  <2> QED BY <1>1, <1>2, <1>4, <1>5, <1>6, <2>1 DEF ParserInv
<1>7. CASE pc' # "undefined"
  BY <1>1, <1>2, <1>3, <1>4, <1>5, <1>7 DEF ParserInv
<1> QED BY <1>6, <1>7

(* A first request that has arrived and is well formed is not refused. *)
LEMMA FirstNotRefused ==
  ASSUME TypeOK, ControlInv, ParserInv, ParseFails, Good(1), taken >= Off(1)
  PROVE  served > 0
<1> SUFFICES ASSUME served = 0 PROVE FALSE
  BY DEF TypeOK
<1>0. /\ pc = "parse"
      /\ \/ request.curState = "ParseReqLine" /\ LineFails(Unread)
         \/ request.curState = "ParseReqHeaders" /\ HeadFails(Unread)
  BY DEF ParseFails
<1>1. Buffered /\ Scripted /\ Len(script) \in Nat /\ Len(script) # 0 /\ taken \in Nat /\ parsed \in Nat
  <2>1. script \in Seq(Request) /\ script # <<>>
    BY HttpExchangeAssumption DEF TypeOK, Request
  <2>2. Buffered
    BY TypesBuffer
  <2> QED BY <2>1, <2>2, UnreadBytes DEF Scripted
<1>2. served < Len(script) /\ served + 1 = 1
  BY <1>1
<1>3. WellFormed(Current) /\ Current \in Request /\ Len(Current.head) \in Nat
      /\ Len(Encode(Current)) = 7 + 6 * Len(Current.head) + 2
  BY <1>1, <1>2, GoodCurrent, CurrentIs, EncodePlaces
<1>4. Off(1) = Off(served) + Len(Encode(Current)) /\ Off(served) \in Nat
  <2>1. served \in 0 .. Len(script) - 1 /\ served \in 0 .. Len(script)
    BY <1>1, <1>2
  <2> QED BY <1>1, <1>2, <2>1, MessagePlaces DEF Current
<1>5. CASE request.curState = "ParseReqLine"
  <2>1. parsed = Off(served) /\ LineFails(Unread)
    BY <1>0, <1>2, <1>5, LineToCome DEF BeforeRequest
  <2>2. taken < parsed + 7
    BY <1>1, <1>2, <1>3, <2>1, LineArrives
  <2> QED BY <1>1, <1>3, <1>4, <2>1, <2>2
<1>6. CASE request.curState = "ParseReqHeaders"
  <2>1. PICK j \in 0 .. Len(Current.head) : parsed = Off(served) + 7 + 6 * j
    BY <1>2, <1>6 DEF ParserInv, InHead
  <2>2. HeadFails(Unread) /\ j \in Nat
    BY <1>0, <1>6
  <2>3. CASE j < Len(Current.head)
    <3>1. taken < parsed + 6
      <4>1. j \in 0 .. Len(Current.head) - 1
        BY <1>3, <2>3
      <4> QED BY <1>1, <1>2, <1>3, <2>1, <2>2, <4>1, HeaderArrives
    <3> QED BY SMTT(30),<1>1, <1>3, <1>4, <2>1, <2>2, <2>3, <3>1
  <2>4. CASE j = Len(Current.head)
    <3>1. taken < parsed + 2
      BY <1>1, <1>2, <1>3, <2>1, <2>2, <2>4, HeadEnds
    <3> QED BY SMTT(30),<1>1, <1>3, <1>4, <2>1, <2>2, <2>4, <3>1
  <2> QED BY <1>3, <2>3, <2>4
<1> QED BY <1>0, <1>5, <1>6

(* ParseFails keeps ParserInv: what is refused is not a first request that *)
(* has arrived in full.                                                    *)
LEMMA ParserRefuses ==
  ASSUME TypeOK, ControlInv, ParserInv, ParseFails
  PROVE  ParserInv'
<1>1. pc = "parse" /\ pc' = "finish" /\ UNCHANGED <<script, served, taken, parsed, request>>
  BY DEF ParseFails, Fixed, replyVars, readVars
<1>2. UNCHANGED <<Off(served), Off(served + 1), Off(1), Headers(served), Headers(served + 1), Current,
                  Good(served), Good(served + 1), Good(1)>>
  BY <1>1 DEF Off, Headers, Current, Good
<1>3. UNCHANGED <<BeforeRequest, InHead>>
  BY <1>1, <1>2 DEF BeforeRequest, InHead, LineIs
<1>4. Good(1) /\ taken >= Off(1) => served > 0
  BY FirstNotRefused
<1> QED BY <1>1, <1>2, <1>3, <1>4 DEF ParserInv

(* Every step keeps ParserInv.                                             *)
LEMMA ParserStep == TypeOK /\ ControlInv /\ ParserInv /\ [Next]_vars => ParserInv'
<1> SUFFICES ASSUME TypeOK, ControlInv, ParserInv, [Next]_vars PROVE ParserInv'
  OBVIOUS
<1> USE DEF Fixed, Others, clientVars, diskVars, readVars, replyVars, loopVars
<1>1. CASE ClientSends \/ ClientLeaves \/ ClientReads \/ FileChanges \/ UNCHANGED vars
  BY <1>1, ParserStill DEF ClientSends, ClientLeaves, ClientReads, FileChanges, vars
<1>2. CASE Poll \/ EndScan \/ processWrite \/ processWriteReturns \/ SendChunk
  BY <1>2, ParserStill DEF Poll, EndScan, processWrite, processWriteReturns, tcpConnectionDestory, SendChunk
<1>3. CASE bufferSendDataReturns \/ SendFails
  <2>1. Returning
    BY DEF ControlInv, Control, WrittenInv
  <2> QED BY <1>3, <2>1, ParserStill DEF Returning, bufferSendDataReturns, SendFails
<1>4. CASE sendFileReturns \/ SendFile
  BY <1>4, ParserStill DEF sendFileReturns, SendFile
<1>5. CASE PrepareMsg
  <2>1. response.sendDataFunc \in {"NULL", "sendFile", "sendDir"}
    BY DEF TypeOK, HttpResponse
  <2>2. pc = "prepare" /\ pc' \in {"send", "finish", "open", "dir"} /\ UNCHANGED <<script, parsed, request, served, taken>>
    BY <1>5, <2>1 DEF PrepareMsg, SendUnlessAuto, SendThen
  <2> QED BY <2>2, ParserStill
<1>6. CASE OpenFile \/ SendDir
  <2>1. pc \in {"open", "dir"} /\ pc' \in {"send", "finish", "file"} /\ UNCHANGED <<script, parsed, request, served, taken>>
    BY <1>6 DEF OpenFile, SendDir, SendUnlessAuto, SendThen
  <2> QED BY <2>1, ParserStill
<1> QED BY <1>1, <1>2, <1>3, <1>4, <1>5, <1>6, ParserServes, ParserReturns, ParserReads, ParserParsesLine,
           ParserParsesHead, ParserRefuses DEF Next, Server

-----------------------------------------------------------------------------
(***************************************************************************)
(* BufferInv: without the flag, the write buffer is empty whenever a file  *)
(* or a name is sent; a 400 never comes from an answer; in the header's    *)
(* build processWrite sends nothing but 400s.                              *)
(***************************************************************************)
(* What the write buffer may hold, and when.                               *)
BufferInv ==
  /\ Error400 \notin Range(response.headers)
  /\ build # "flag" /\ client # "reset" /\ ~(pc = "send" /\ back # "written") => Range(wbuf) \subseteq {Error400}
  /\ build # "flag" /\ client # "reset" /\ pc \in {"open", "file", "dir"} => wbuf = <<>>
  /\ At = "written" => served > 0 \/ Error400 \in Written
  /\ build = "header" /\ At = "written" /\ (client # "reset" \/ wbuf = <<>>) => Error400 \in Written
  /\ ~AutoConn /\ client # "reset" /\ served > 0 => Error400 \notin Range(wbuf)

(* BufferInv holds at the start.                                           *)
LEMMA BufferInit == Init => BufferInv
<1> SUFFICES ASSUME Init PROVE BufferInv
  OBVIOUS
<1>1. Range(<<>>) = {}
  BY DEF Range
<1>2. response.headers = <<>>
  BY DEF Init, httpResponseInit
<1> QED BY <1>1, <1>2 DEF Init, BufferInv, At

(* The steps that leave the write buffer and the wire alone. *)
LEMMA BufferStill ==
  ASSUME BufferInv, UNCHANGED <<build, wbuf, out, response, served>>, client' = client \/ client' = "reset",
         \/ UNCHANGED <<pc, back>>
         \/ pc # "send" /\ pc' \notin {"send", "open", "file", "dir", "written"}
  PROVE  BufferInv'
<1>1. Written' = Written
  BY DEF Written
<1>2. CASE UNCHANGED <<pc, back>>
  BY <1>1, <1>2 DEF BufferInv, At, AutoConn
<1>3. CASE pc # "send" /\ pc' \notin {"send", "open", "file", "dir", "written"}
  BY <1>1, <1>3 DEF BufferInv, At, AutoConn
<1> QED BY <1>2, <1>3

(* The steps that write nothing keep BufferInv.                            *)
LEMMA BufferScan ==
  ASSUME TypeOK, ControlInv, BufferInv,
         \/ ClientSends \/ ClientLeaves \/ ClientReads \/ FileChanges \/ UNCHANGED vars
         \/ Poll \/ EndScan \/ processRead \/ processReadReturns \/ processWriteReturns
         \/ ParseLine \/ ParseHead \/ sendFileReturns
  PROVE  BufferInv'
<1> USE DEF Fixed, Others, clientVars, diskVars, readVars, replyVars, loopVars
<1>1. CASE ClientSends \/ ClientLeaves \/ ClientReads \/ FileChanges \/ UNCHANGED vars
  <2>1. /\ UNCHANGED <<build, wbuf, out, response, served>> /\ UNCHANGED <<pc, back>>
        /\ client' = client \/ client' = "reset" \/ (pc = "idle" /\ client = "open" /\ client' = "closed")
    BY <1>1 DEF ClientSends, ClientLeaves, ClientReads, FileChanges, vars
  <2>2. CASE client' = client \/ client' = "reset"
    BY <2>1, <2>2, BufferStill
  <2>3. CASE client = "open" /\ client' = "closed"
    <3>1. Written' = Written
      BY <2>1 DEF Written
    <3> QED BY <2>1, <2>3, <3>1 DEF BufferInv, At, AutoConn
  <2> QED BY <2>1, <2>2, <2>3
<1>2. CASE Poll \/ EndScan \/ processRead \/ processReadReturns \/ processWriteReturns \/ sendFileReturns
  <2>1. /\ UNCHANGED <<build, wbuf, out, response, served, client>>
        /\ pc # "send" /\ pc' \notin {"send", "open", "file", "dir", "written"}
    BY <1>2 DEF Poll, EndScan, processRead, processReadReturns, processWriteReturns, tcpConnectionDestory, sendFileReturns
  <2> QED BY <2>1, BufferStill
<1>3. CASE ParseLine \/ ParseHead
  <2>1. /\ UNCHANGED <<build, wbuf, out, response, served, client>>
        /\ pc # "send" /\ pc' \notin {"send", "open", "file", "dir", "written"}
    BY <1>3, ParserMoving DEF ParserMoves
  <2> QED BY <2>1, BufferStill
<1> QED BY <1>1, <1>2, <1>3

(* The 400 keeps BufferInv.                                                *)
LEMMA BufferRefuses ==
  ASSUME TypeOK, ControlInv, BufferInv, ParseFails
  PROVE  BufferInv'
<1>1. wbuf \in Seq(Chunk) /\ Error400 \in Chunk /\ served \in Nat
  BY DEF TypeOK, Error400, Chunk
<1>2. pc = "parse" /\ pc' = "finish" /\ wbuf' = Append(wbuf, Error400)
      /\ UNCHANGED <<build, client, back, response, served, out>>
  BY DEF ParseFails, Fixed, clientVars, replyVars, Error400
<1>3. Range(wbuf') = Range(wbuf) \cup {Error400}
  BY <1>1, <1>2, RangeOf
<1>4. ~AutoConn => served = 0
  BY <1>2 DEF ControlInv, Control, WrittenInv
<1> QED BY <1>1, <1>2, <1>3, <1>4 DEF BufferInv, At, AutoConn

(* A sequence that is not empty has its head among its elements.           *)
LEMMA NotEmpty ==
  ASSUME NEW S, NEW s \in Seq(S), s # <<>>
  PROVE  Head(s) \in Range(s)
<1>1. 1 \in DOMAIN s /\ Head(s) = s[1]
  OBVIOUS
<1> QED BY <1>1 DEF Range

(* Sending keeps BufferInv: bufferSendData returns only when the buffer is *)
(* empty, or to a client that has reset the connection.                    *)
LEMMA BufferSends ==
  ASSUME TypeOK, ControlInv, BufferInv, processWrite \/ SendChunk \/ bufferSendDataReturns \/ SendFails
  PROVE  BufferInv'
<1> USE DEF Fixed, clientVars, readVars, replyVars
<1>0. wbuf \in Seq(Chunk) /\ out \in Seq(Chunk) /\ served \in Nat /\ Returning
  BY DEF TypeOK, ControlInv, Control, WrittenInv
<1>1. CASE processWrite
  <2>1. /\ pc = "scan" /\ UNCHANGED <<build, client, response, served, wbuf, out>>
        /\ IF wbuf # <<>> THEN pc' = "send" /\ back' = "written" ELSE pc' = "scan"
    BY <1>1 DEF processWrite
  <2>2. Written' = Written
    BY <2>1 DEF Written
  <2>3. wbuf # <<>> => Head(wbuf) \in Range(wbuf) /\ Head(wbuf) \in Written
    BY <1>0, NotEmpty DEF Written
  <2>4. wbuf # <<>> /\ served = 0 => Error400 \in Written
    BY <2>3 DEF ControlInv, Control, WrittenInv
  <2>5. wbuf # <<>> /\ build = "header" /\ client # "reset" => Error400 \in Written
    BY <2>1, <2>3 DEF BufferInv
  <2> QED BY <1>0, <2>1, <2>2, <2>4, <2>5 DEF BufferInv, At, AutoConn
<1>2. CASE SendChunk
  <2>1. /\ pc = "send" /\ client # "reset" /\ wbuf # <<>> /\ out' = Append(out, Head(wbuf)) /\ wbuf' = Tail(wbuf)
        /\ UNCHANGED <<build, client, response, served, pc, back>>
    BY <1>2 DEF SendChunk
  <2>2. Written' = Written /\ Range(wbuf') \subseteq Range(wbuf)
    BY <1>0, <2>1, ChunkMoves DEF Written
  <2> QED BY <2>1, <2>2 DEF BufferInv, At, AutoConn
<1>3. CASE bufferSendDataReturns
  <2>1. /\ pc = "send" /\ pc' = back /\ wbuf = <<>> /\ UNCHANGED <<build, client, response, served, wbuf, out, back>>
    BY <1>3 DEF bufferSendDataReturns
  <2>2. Written' = Written /\ Range(wbuf') = {} /\ back # "send"
    BY <1>0, <2>1 DEF Written, Range, Returning
  <2> QED BY <2>1, <2>2 DEF BufferInv, At, AutoConn
<1>4. CASE SendFails
  <2>1. /\ client = "reset" /\ UNCHANGED <<build, client, response, served, wbuf, out, back>>
        /\ \/ pc = "send" /\ wbuf # <<>> /\ pc' \in {back, "killed"}
           \/ pc = "file" /\ pc' \in {"finish", "killed"}
    BY <1>4 DEF SendFails
  <2>2. Written' = Written /\ (pc = "send" => back # "send")
    BY <1>0, <2>1 DEF Written, Returning
  <2> QED BY <2>1, <2>2 DEF BufferInv, At, AutoConn
<1> QED BY <1>1, <1>2, <1>3, <1>4

(* No answer looks like a 400 for what could not be parsed. *)
LEMMA NoError ==
  /\ <<"text", 0>> # Error400 /\ <<"type", 0>> # Error400 /\ <<"blank", 0>> # Error400
  /\ \A n : <<"status", n>> # Error400 /\ <<"length", n>> # Error400 /\ <<"entry", n>> # Error400
            /\ <<"body", n>> # Error400
BY DEF Error400

(* The headers of an answer: those of the last, and one or two. *)
LEMMA AnswerHeaders ==
  ASSUME response \in HttpResponse, disk \in [OnDisk -> Sizes], NEW r
  PROVE  \/ Answer(r) = response
         \/ Answer(r).headers = Append(response.headers, <<"type", 0>>)
         \/ \E n \in Nat : Answer(r).headers = Append(Append(response.headers, <<"type", 0>>), <<"length", n>>)
<1> DEFINE f == FileNamed(r.url)
           typed == HttpResponseAddHeader(response, <<"type", 0>>)
           long == HttpResponseAddHeader(typed, <<"length", disk[f]>>)
<1>1. /\ stat(f) \in {"fails", "directory", "file"}
      /\ stat(f) = "file" => disk[f] \in Nat
  BY HttpExchangeAssumption DEF stat, FileNamed, OnDisk, Sizes
<1>2. typed.headers = Append(response.headers, <<"type", 0>>)
      /\ long.headers = Append(Append(response.headers, <<"type", 0>>), <<"length", disk[f]>>)
  BY DEF HttpResponseAddHeader, HttpResponse
<1>3. Answer(r) = IF r.method # <<"GET">> THEN response
                  ELSE IF stat(f) = "fails"
                       THEN [typed EXCEPT !.statusCode = NotFound, !.fileName = "404.html", !.sendDataFunc = "sendFile"]
                  ELSE IF stat(f) = "directory"
                       THEN [typed EXCEPT !.statusCode = OK, !.fileName = f, !.sendDataFunc = "sendDir"]
                  ELSE [long EXCEPT !.statusCode = OK, !.fileName = f, !.sendDataFunc = "sendFile"]
  <2> HIDE DEF f, typed, long
  <2> QED BY <1>1 DEF Answer, f, typed, long
<1>4. DOMAIN typed = {"statusCode", "fileName", "headers", "sendDataFunc"} /\ DOMAIN long = DOMAIN typed
  BY DEF HttpResponseAddHeader, HttpResponse
<1> DEFINE n == disk[f]
<1> HIDE DEF f, typed, long
<1>5. CASE r.method # <<"GET">>
  BY <1>3, <1>5
<1>6. CASE r.method = <<"GET">> /\ stat(f) \in {"fails", "directory"}
  <2>1. Answer(r).headers = typed.headers
    BY <1>3, <1>4, <1>6
  <2> QED BY <1>2, <2>1
<1>7. CASE r.method = <<"GET">> /\ stat(f) = "file"
  <2>1. Answer(r).headers = long.headers
    BY <1>3, <1>4, <1>7
  <2> QED BY <1>1, <1>2, <1>7, <2>1
<1> QED BY <1>1, <1>5, <1>6, <1>7

(* A sequence of one element.                                              *)
LEMMA RangeOfOne ==
  ASSUME NEW S, NEW e \in S
  PROVE  <<e>> \in Seq(S) /\ Range(<<e>>) = {e} /\ Len(<<e>>) = 1 /\ <<e>>[1] = e
BY DEF Range

(* The chunks of a head: status, headers and blank line.                   *)
LEMMA PrepareRange ==
  ASSUME NEW r \in HttpResponse
  PROVE  Range(httpResponsePrepareMsg(r)) = {<<"status", r.statusCode>>, <<"blank", 0>>} \cup Range(r.headers)
<1>1. r.headers \in Seq(Chunk) /\ r.statusCode \in {Unknown, OK, NotFound}
  BY DEF HttpResponse
<1> DEFINE n == r.statusCode
           s == <<"status", n>>
           e == <<"blank", 0>>
           h == r.headers
<1>2. n \in Int
  BY <1>1 DEF Unknown, OK, NotFound
<1> HIDE DEF n
<1>3. s \in Chunk /\ e \in Chunk
  BY <1>2 DEF Chunk
<1>4. httpResponsePrepareMsg(r) = <<s>> \o h \o <<e>>
  BY DEF httpResponsePrepareMsg, n
<1> HIDE DEF s, e, h
<1> DEFINE a == <<s>>
           z == <<e>>
           ah == a \o h
<1>5. a \in Seq(Chunk) /\ z \in Seq(Chunk) /\ Range(a) = {s} /\ Range(z) = {e} /\ h \in Seq(Chunk)
  BY <1>1, <1>3, RangeOfOne DEF h
<1> HIDE DEF a, z
<1>6. ah \in Seq(Chunk) /\ Range(ah) = Range(a) \cup Range(h)
  BY <1>3, <1>5, RangeOf
<1> HIDE DEF ah
<1>7. Range(ah \o z) = Range(ah) \cup Range(z)
  BY <1>3, <1>5, <1>6, RangeOf
<1>8. httpResponsePrepareMsg(r) = ah \o z
  BY <1>4 DEF a, ah, z
<1> QED BY <1>5, <1>6, <1>7, <1>8 DEF s, e, h, n

(* processHttpRequest keeps BufferInv.                                     *)
LEMMA BufferAnswers ==
  ASSUME TypeOK, ControlInv, BufferInv, processHttpRequest
  PROVE  BufferInv'
<1>1. response \in HttpResponse /\ disk \in [OnDisk -> Sizes] /\ served \in Nat /\ response.headers \in Seq(Chunk)
      /\ wbuf \in Seq(Chunk)
  BY DEF TypeOK, HttpResponse
<1>2. /\ pc = "process" /\ pc' \in {"undefined", "prepare"} /\ response' = Answer(request) /\ served' = served + 1
      /\ UNCHANGED <<build, client, back, wbuf, out>>
  BY DEF processHttpRequest, Fixed, clientVars
<1>3. Error400 \notin Range(response'.headers)
  <2> DEFINE h == response.headers
             t == <<"type", 0>>
  <2>1. h \in Seq(Chunk) /\ t \in Chunk /\ t # Error400 /\ Error400 \notin Range(h)
    BY <1>1, NoError DEF Chunk, BufferInv
  <2>2. /\ \/ Answer(request) = response
           \/ Answer(request).headers = Append(h, t)
           \/ \E n \in Nat : Answer(request).headers = Append(Append(h, t), <<"length", n>>)
    BY <1>1, AnswerHeaders
  <2> HIDE DEF t, h
  <2> DEFINE a == Append(h, t)
  <2>3. Error400 \notin Range(a) /\ a \in Seq(Chunk)
    BY <2>1, RangeOf
  <2> HIDE DEF a
  <2>4. ASSUME NEW n \in Nat PROVE Error400 \notin Range(Append(a, <<"length", n>>))
    <3> DEFINE l == <<"length", n>>
    <3>1. l \in Chunk /\ l # Error400
      BY NoError DEF Chunk
    <3> HIDE DEF l
    <3>2. Range(Append(a, l)) = Range(a) \cup {l}
      BY <2>3, <3>1, RangeOf
    <3> QED BY <2>3, <3>1, <3>2 DEF l
  <2>5. CASE Answer(request) = response
    BY <1>2, <2>1, <2>5 DEF h
  <2>6. CASE Answer(request).headers = a
    BY <1>2, <2>3, <2>6
  <2>7. CASE \E n \in Nat : Answer(request).headers = Append(a, <<"length", n>>)
    BY <1>2, <2>4, <2>7
  <2> QED BY <2>2, <2>5, <2>6, <2>7 DEF a
<1>4. ~AutoConn => wbuf = <<>>
  BY <1>2 DEF ControlInv, Control, WrittenInv
<1>5. Range(<<>>) = {}
  BY DEF Range
<1> QED BY <1>1, <1>2, <1>3, <1>4, <1>5 DEF BufferInv, At, AutoConn

(* httpResponsePrepareMsg keeps BufferInv.                                 *)
LEMMA BufferHead ==
  ASSUME TypeOK, ControlInv, BufferInv, PrepareMsg
  PROVE  BufferInv'
<1>1. response \in HttpResponse /\ served \in Nat /\ wbuf \in Seq(Chunk) /\ Error400 \in Chunk
  BY DEF TypeOK, Error400, Chunk
<1>2. /\ pc = "prepare" /\ wbuf' = wbuf \o httpResponsePrepareMsg(response)
      /\ UNCHANGED <<build, client, response, served, out>>
      /\ \/ pc' = "send" /\ back' \in {"open", "dir", "finish"}
         \/ build = "flag" /\ pc' \in {"open", "dir", "finish"}
  <2>1. response.sendDataFunc \in {"NULL", "sendFile", "sendDir"}
    BY <1>1 DEF HttpResponse
  <2> QED BY <2>1 DEF PrepareMsg, Fixed, clientVars, replyVars, SendUnlessAuto, SendThen, AutoSend
<1>3. Range(wbuf') = Range(wbuf) \cup Range(httpResponsePrepareMsg(response))
  <2> DEFINE m == httpResponsePrepareMsg(response)
  <2>1. m \in Seq(Chunk)
    BY <1>1, PrepareType
  <2> HIDE DEF m
  <2> QED BY <1>1, <1>2, <2>1, RangeOf DEF m
<1>4. Error400 \notin Range(httpResponsePrepareMsg(response))
  BY <1>1, PrepareRange, NoError DEF BufferInv
<1> QED BY <1>2, <1>3, <1>4 DEF BufferInv, At, AutoConn

(* sendFile and sendDir keep BufferInv.                                    *)
LEMMA BufferBody ==
  ASSUME TypeOK, ControlInv, BufferInv, OpenFile \/ SendFile \/ SendDir
  PROVE  BufferInv'
<1> USE DEF Fixed, clientVars, replyVars
<1>1. served \in Nat /\ wbuf \in Seq(Chunk) /\ out \in Seq(Chunk) /\ Error400 \in Chunk
  BY DEF TypeOK, Error400, Chunk
<1> DEFINE t == <<"text", 0>>
           e == <<"entry", offset>>
           b == <<"body", offset>>
<1>2. t \in Chunk /\ e \in Chunk /\ b \in Chunk /\ t # Error400 /\ e # Error400
  BY NoError DEF TypeOK, Chunk
<1> HIDE DEF t, e, b
<1>3. \A c \in {t, e, b} : /\ Range(Append(wbuf, c)) = Range(wbuf) \cup {c}
                           /\ Range(Append(out, c)) = Range(out) \cup {c}
  BY <1>1, <1>2, RangeOf
<1>4. CASE OpenFile
  <2>1. /\ pc = "open" /\ UNCHANGED <<build, client, response, served, out>>
        /\ \/ wbuf' = Append(wbuf, t) /\ pc' = "send" /\ back' = "finish"
           \/ wbuf' = Append(wbuf, t) /\ build = "flag" /\ pc' = "finish"
           \/ wbuf' = wbuf /\ pc' = "file"
    BY <1>4 DEF OpenFile, SendUnlessAuto, SendThen, AutoSend, t
  <2> QED BY <1>2, <1>3, <2>1 DEF BufferInv, At, AutoConn
<1>5. CASE SendFile
  <2>1. /\ pc = "file" /\ UNCHANGED <<pc, back, build, client, response, served, wbuf>>
    BY <1>5 DEF SendFile
  <2> QED BY <2>1 DEF BufferInv, At, AutoConn
<1>6. CASE SendDir
  <2>1. /\ pc = "dir" /\ UNCHANGED <<build, client, response, served, out>>
        /\ \/ wbuf' = Append(wbuf, e) /\ pc' = "send" /\ back' = "dir"
           \/ wbuf' = Append(wbuf, t) /\ pc' = "send" /\ back' = "finish"
           \/ wbuf' = Append(wbuf, t) /\ build = "flag" /\ pc' = "finish"
    BY <1>6 DEF SendDir, SendUnlessAuto, SendThen, AutoSend, t, e
  <2> QED BY <1>2, <1>3, <2>1 DEF BufferInv, At, AutoConn
<1> QED BY <1>4, <1>5, <1>6

(* Every step keeps BufferInv.                                             *)
LEMMA BufferStep == TypeOK /\ ControlInv /\ BufferInv /\ [Next]_vars => BufferInv'
BY BufferScan, BufferRefuses, BufferSends, BufferAnswers, BufferHead, BufferBody DEF Next, Server

-----------------------------------------------------------------------------
(***************************************************************************)
(* Which steps end a connection, and the properties that follow from where *)
(* the parser is.                                                          *)
(***************************************************************************)
(* Where pc goes, but for the parser's, the scan's and the answer's ends. *)
LEMMA WhoEnds ==
  ASSUME TypeOK, ControlInv, Next
  PROVE  /\ pc \notin Ended
         /\ pc' \in {"closed", "stranded"} => /\ processReadReturns \/ processWriteReturns
                                              /\ tcpConnectionDestory
         /\ pc' = "undefined" => ParseLine \/ ParseHead \/ processHttpRequest
<1> USE DEF Fixed, Others, clientVars, diskVars, readVars, replyVars, loopVars, Ended
<1>1. CASE ClientSends \/ ClientLeaves \/ ClientReads \/ FileChanges
  BY <1>1 DEF ClientSends, ClientLeaves, ClientReads, FileChanges
<1>2. CASE Poll \/ EndScan \/ processRead \/ processWrite \/ ParseFails
  BY <1>2 DEF Poll, EndScan, processRead, processWrite, ParseFails
<1>3. CASE processReadReturns
  BY <1>3 DEF processReadReturns, tcpConnectionDestory
<1>4. CASE processWriteReturns
  BY <1>4 DEF processWriteReturns, tcpConnectionDestory
<1>5. CASE ParseLine \/ ParseHead
  BY <1>5, ParserMoving DEF ParserMoves
<1>6. CASE processHttpRequest
  BY <1>6 DEF processHttpRequest
<1>7. CASE SendChunk \/ bufferSendDataReturns \/ SendFails
  <2>1. Returning
    BY DEF ControlInv, Control, WrittenInv
  <2> QED BY <1>7, <2>1 DEF SendChunk, bufferSendDataReturns, SendFails, Returning
<1>8. CASE SendFile \/ sendFileReturns
  BY <1>8 DEF SendFile, sendFileReturns
<1>9. CASE PrepareMsg
  <2>1. response.sendDataFunc \in {"NULL", "sendFile", "sendDir"}
    BY DEF TypeOK, HttpResponse
  <2>2. pc = "prepare" /\ pc' \in {"send", "finish", "open", "dir"}
    BY <1>9, <2>1 DEF PrepareMsg, SendUnlessAuto, SendThen
  <2> QED BY <2>2
<1>10. CASE OpenFile \/ SendDir
  <2>1. pc \in {"open", "dir"} /\ pc' \in {"send", "finish", "file"}
    BY <1>10 DEF OpenFile, SendDir, SendUnlessAuto, SendThen
  <2> QED BY <2>1
<1> QED BY <1>1, <1>2, <1>3, <1>4, <1>5, <1>6, <1>7, <1>8, <1>9, <1>10 DEF Next, Server

(* ParsedAsSent is what ParserInv says of a request about to be processed. *)
LEMMA ParsedByInv == TypeOK /\ ParserInv => ParsedAsSent
<1> SUFFICES ASSUME TypeOK, ParserInv, pc = "process", \A i \in 1 .. served + 1 : WellFormed(script[i])
             PROVE  /\ request.method = <<script[served + 1].line[1]>>
                    /\ request.url = <<script[served + 1].line[3]>>
                    /\ request.reqHeaders = Headers(served + 1)
  BY DEF ParsedAsSent
<1>1. Good(served + 1)
  BY TypesBuffer DEF Good, Buffered, Scripted
<1>2. AfterHead
  BY <1>1 DEF ParserInv
<1> QED BY <1>2 DEF AfterHead, LineIs, Current

(* The first request, and where it ends.                                   *)
LEMMA FirstIs ==
  ASSUME TypeOK
  PROVE  /\ First \in Request /\ Scripted /\ Len(script) \in Nat \ {0}
         /\ Off(1) = Len(Encode(First)) /\ Off(1) \in Nat /\ Off(0) = 0
         /\ WellFormed(First) <=> Good(1)
<1>1. script \in Seq(Request) /\ script # <<>>
  BY HttpExchangeAssumption DEF TypeOK, Request
<1>2. Len(script) \in Nat /\ Len(script) # 0 /\ 1 \in 1 .. Len(script) /\ DOMAIN script = 1 .. Len(script)
  BY <1>1
<1>3. Scripted /\ First \in Request
  BY <1>1, <1>2 DEF Scripted, First
<1>4. Off(0 + 1) = Off(0) + Len(Encode(script[0 + 1])) /\ Off(0) = 0
  <2>1. 0 \in 0 .. Len(script) - 1
    BY <1>2
  <2> QED BY <1>3, <2>1, MessagePlaces
<1>5. Len(Encode(First)) \in Nat
  BY <1>3, EncodeType
<1>6. WellFormed(First) <=> Good(1)
  <2>1. ASSUME NEW i \in DOMAIN script, i <= 1 PROVE i = 1
    BY <1>2, <2>1
  <2> QED BY <1>2, <2>1 DEF Good, First
<1> QED BY <1>2, <1>3, <1>4, <1>5, <1>6 DEF First

(* A sequence without elements is empty.                                   *)
LEMMA EmptyRange ==
  ASSUME NEW S, NEW s \in Seq(S), Range(s) = {}
  PROVE  s = <<>>
<1> SUFFICES ASSUME s # <<>> PROVE FALSE
  OBVIOUS
<1> QED BY NotEmpty

(* Nothing is left of a first request, once it has arrived and no more. *)
LEMMA NothingLeft ==
  ASSUME TypeOK, ParserInv, WellFormed(First), taken = Len(Encode(First)), pc \in {"finish", "written"}
  PROVE  served > 0 /\ Unread = <<>>
<1>1. Good(1) /\ taken = Off(1)
  BY FirstIs
<1>2. served > 0 /\ parsed >= Off(1)
  <2>1. taken >= Off(1)
    BY <1>1, FirstIs
  <2> QED BY <1>1, <2>1 DEF ParserInv
<1>3. Unread \in Seq(Byte) /\ Len(Unread) = taken - parsed /\ taken \in Nat /\ parsed \in Nat /\ parsed <= taken
  BY TypesBuffer, UnreadBytes
<1>4. Len(Unread) = 0
  BY <1>1, <1>2, <1>3
<1> QED BY <1>2, <1>3, <1>4

(* tcpConnectionDestory leaves the connection behind only in the cases     *)
(* StrandedOnlyWhen names.                                                 *)
LEMMA StrandedStep ==
  ASSUME TypeOK, ControlInv, ParserInv, BufferInv, StrandedOnlyWhen, [Next]_vars
  PROVE  StrandedOnlyWhen'
<1>1. CASE UNCHANGED vars
  BY <1>1 DEF vars, clientVars, readVars, StrandedOnlyWhen, First
<1>2. CASE Next
  <2> SUFFICES ASSUME pc' = "stranded", client' # "reset", WellFormed(First)', taken' = Len(Encode(First))'
               PROVE  FALSE
    BY DEF StrandedOnlyWhen
  <2>1. (processReadReturns \/ processWriteReturns) /\ tcpConnectionDestory
    BY <1>2, WhoEnds
  <2>2. UNCHANGED <<script, client, taken, wbuf>> /\ pc \in {"finish", "written"}
    BY <2>1 DEF processReadReturns, processWriteReturns, Fixed, clientVars, readVars
  <2>3. WellFormed(First) /\ taken = Len(Encode(First)) /\ client # "reset"
    BY <2>2 DEF First
  <2>4. served > 0 /\ Unread = <<>>
    BY <2>2, <2>3, NothingLeft
  <2>5. wbuf # <<>>
    BY <2>1, <2>4 DEF tcpConnectionDestory
  <2>6. CASE processWriteReturns
    <3>1. wbuf = <<>>
      BY <2>6 DEF processWriteReturns, Emptied
    <3> QED BY <2>5, <3>1
  <2>7. CASE processReadReturns
    <3>1. ~AutoConn /\ pc = "finish"
      BY <2>7 DEF processReadReturns
    <3>2. Range(wbuf) = {}
      BY <2>3, <2>4, <3>1 DEF BufferInv, AutoConn
    <3> QED BY <2>5, <3>2, EmptyRange DEF TypeOK
  <2> QED BY <2>1, <2>6, <2>7
<1> QED BY <1>1, <1>2

(* The parser and HttpResponseAddHeader leave defined behaviour only in    *)
(* the cases UndefinedOnlyWhen names.                                      *)
LEMMA UndefinedStep ==
  ASSUME TypeOK, ControlInv, ParserInv, UndefinedOnlyWhen, [Next]_vars
  PROVE  UndefinedOnlyWhen'
<1>1. CASE UNCHANGED vars
  <2>1. UNCHANGED <<pc, build, script, response>>
    BY <1>1 DEF vars, replyVars
  <2> QED BY <2>1 DEF UndefinedOnlyWhen, AutoConn, First, Headers, Overflows
<1>2. CASE Next
  <2> SUFFICES ASSUME pc' = "undefined" PROVE UndefinedOnlyWhen'
    BY DEF UndefinedOnlyWhen
  <2>1. ParseLine \/ ParseHead \/ processHttpRequest
    BY <1>2, WhoEnds
  <2>2. UNCHANGED <<build, script>>
    BY <2>1 DEF ParseLine, ParseHead, processHttpRequest, Fixed
  <2>3. served \in Nat /\ Scripted /\ Len(script) \in Nat /\ DOMAIN script = 1 .. Len(script)
    BY FirstIs DEF TypeOK, Scripted
  <2>4. CASE ParseLine
    <3>1. ~Good(served + 1)
      BY <2>4, LineWellParsed
    <3>2. \E i \in DOMAIN script : ~WellFormed(script[i])
      BY <3>1 DEF Good
    <3>3. ~AutoConn => ~WellFormed(First)
      <4>1. ~AutoConn => served = 0
        BY <2>4 DEF ParseLine, ControlInv, Control, WrittenInv
      <4> QED BY <3>1, <4>1, FirstIs
    <3> QED BY <2>2, <3>2, <3>3 DEF UndefinedOnlyWhen, AutoConn, First
  <2>5. CASE ParseHead
    <3>1. Good(served + 1) => Len(Headers(served + 1)) > HeaderSize /\ served < Len(script)
      <4>1. request.curState = "ParseReqHeaders"
        BY <2>5 DEF ParseHead
      <4> QED BY <2>5, <4>1, HeadWellParsed DEF ParserInv, InHead
    <3>2. (\A i \in DOMAIN script : WellFormed(script[i])) => Len(Headers(Len(script))) > HeaderSize
      <4> SUFFICES ASSUME \A i \in DOMAIN script : WellFormed(script[i])
                   PROVE  Len(Headers(Len(script))) > HeaderSize
        OBVIOUS
      <4>1. Good(served + 1) /\ Good(Len(script))
        BY DEF Good
      <4>2. served + 1 \in 0 .. Len(script) /\ Len(script) \in 0 .. Len(script)
        BY <2>3, <3>1, <4>1
      <4>3. Len(Headers(served + 1)) \in Nat /\ Len(Headers(Len(script))) \in Nat
            /\ Len(Headers(served + 1)) <= Len(Headers(Len(script)))
        BY <2>3, <4>1, <4>2, HeadersMonotone
      <4> QED BY <3>1, <4>1, <4>3, HttpRequestAssumption
    <3>3. ~AutoConn /\ WellFormed(First) => Len(First.head) > HeaderSize
      <4> SUFFICES ASSUME ~AutoConn, WellFormed(First) PROVE Len(First.head) > HeaderSize
        OBVIOUS
      <4>1. served = 0 /\ Good(1)
        BY <2>5, FirstIs DEF ParseHead, ControlInv, Control, WrittenInv
      <4>2. Len(Headers(1)) > HeaderSize
        BY <3>1, <4>1
      <4>3. Headers(0) \in Seq(HeaderLine) /\ Headers(0 + 1) = Headers(0) \o HeadersOf(script[0 + 1]) /\ Headers(0) = <<>>
        <5>1. 0 \in 0 .. Len(script) - 1 /\ Good(0 + 1)
          BY <2>3, <4>1, FirstIs
        <5> QED BY <2>3, <5>1, HeadersGrow, HeadersStart
      <4>4. HeadersOf(First) \in Seq(HeaderLine) /\ Len(HeadersOf(First)) = Len(First.head)
        BY FirstIs, HeadersOfType
      <4>5. Headers(1) = HeadersOf(First)
        BY <4>3, <4>4, ConcatEmptySeq DEF First
      <4> QED BY <4>2, <4>4, <4>5
    <3>4. Headers(Len(script))' = Headers(Len(script))
      BY <2>2 DEF Headers
    <3> QED BY <2>2, <3>2, <3>3, <3>4 DEF UndefinedOnlyWhen, AutoConn, First
  <2>6. CASE processHttpRequest
    <3>1. Overflows(response)' /\ response' = Answer(request) /\ pc = "process"
      BY <2>6 DEF processHttpRequest, Overflows
    <3>2. AutoConn
      <4> SUFFICES ASSUME ~AutoConn PROVE FALSE
        OBVIOUS
      <4>1. response = httpResponseInit
        BY <3>1 DEF ControlInv, Control, WrittenInv
      <4>2. response \in HttpResponse /\ disk \in [OnDisk -> Sizes] /\ response.headers = <<>>
        BY <4>1 DEF TypeOK, httpResponseInit
      <4>3. Len(Answer(request).headers) \in 0 .. 2
        <5>1. \/ Answer(request) = response
              \/ Answer(request).headers = Append(<<>>, <<"type", 0>>)
              \/ \E n \in Nat : Answer(request).headers = Append(Append(<<>>, <<"type", 0>>), <<"length", n>>)
          BY <4>2, AnswerHeaders
        <5> QED BY <4>2, <5>1
      <4>4. ResHeaderSize \in Nat /\ ResHeaderSize >= 2
        BY HttpResponseAssumption
      <4>5. Len(response'.headers) > ResHeaderSize /\ Len(response'.headers) \in 0 .. 2
        BY <3>1, <4>3, Zenon DEF Overflows
      <4> DEFINE n == Len(response'.headers)
      <4>6. n > ResHeaderSize /\ n \in 0 .. 2
        BY <4>5
      <4> HIDE DEF n
      <4> QED BY <4>4, <4>6
    <3> QED BY <2>2, <3>1, <3>2 DEF UndefinedOnlyWhen, AutoConn
  <2> QED BY <2>1, <2>4, <2>5, <2>6
<1> QED BY <1>1, <1>2

-----------------------------------------------------------------------------
(***************************************************************************)
(* One sequence at the start of another.                                   *)
(***************************************************************************)
(* c is the first k elements of s. *)
IsStart(c, s, k) == Len(c) = k /\ k <= Len(s) /\ \A i \in 1 .. k : c[i] = s[i]

(* SubSeq from 1 on is such a start.                                       *)
LEMMA StartIs ==
  ASSUME NEW S, NEW s \in Seq(S), NEW c \in Seq(S), NEW k \in 0 .. Len(s)
  PROVE  c = SubSeq(s, 1, k) <=> IsStart(c, s, k)
<1> DEFINE u == SubSeq(s, 1, k)
<1>1. k \in Nat /\ k <= Len(s) /\ Len(s) \in Nat
  OBVIOUS
<1>2. u \in Seq(S) /\ Len(u) = k /\ \A i \in 1 .. k : u[i] = s[i]
  BY <1>1, SubSeqProperties
<1> HIDE DEF u
<1>3. ASSUME c = u PROVE IsStart(c, s, k)
  BY <1>1, <1>2, <1>3 DEF IsStart
<1>4. ASSUME IsStart(c, s, k) PROVE c = u
  <2>1. Len(c) = Len(u) /\ \A i \in 1 .. Len(c) : c[i] = u[i]
    BY <1>2, <1>4 DEF IsStart
  <2> QED BY <1>2, <2>1, SeqEqual
<1> QED BY <1>3, <1>4 DEF u

(* A prefix is a start as long as itself.                                  *)
LEMMA PrefixIs ==
  ASSUME NEW S, NEW s \in Seq(S), NEW t \in Seq(S)
  PROVE  IsPrefix(s, t) <=> IsStart(s, t, Len(s))
<1>1. Len(s) \in Nat /\ Len(t) \in Nat /\ SubSeq(s, 1, Len(s)) = s
  BY SubSeqFull
<1>2. CASE Len(s) <= Len(t)
  <2>1. Len(s) \in 0 .. Len(t)
    BY <1>1, <1>2
  <2>2. s = SubSeq(t, 1, Len(s)) <=> IsStart(s, t, Len(s))
    BY <2>1, StartIs
  <2> QED BY <1>1, <1>2, <2>2 DEF IsPrefix
<1>3. CASE ~(Len(s) <= Len(t))
  BY <1>3 DEF IsPrefix, IsStart
<1> QED BY <1>2, <1>3

(* What starts like s still does with more behind it; one more element. *)
LEMMA PrefixStays ==
  ASSUME NEW S, NEW s \in Seq(S), NEW c \in Seq(S), NEW d \in Seq(S), IsPrefix(s, c)
  PROVE  IsPrefix(s, c \o d)
<1> DEFINE e == c \o d
<1>1. e \in Seq(S) /\ IsConcat(e, c, d)
  BY ConcatParts
<1> HIDE DEF e
<1>2. IsStart(s, c, Len(s)) /\ Len(s) \in Nat /\ Len(c) \in Nat
  BY PrefixIs
<1>3. IsStart(s, e, Len(s))
  BY <1>1, <1>2 DEF IsStart, IsConcat
<1> QED BY <1>1, <1>3, PrefixIs DEF e

(* A start grows by the next element.                                      *)
LEMMA StartGrows ==
  ASSUME NEW S, NEW s \in Seq(S), NEW c \in Seq(S), NEW k \in Nat, k < Len(s), c = SubSeq(s, 1, k)
  PROVE  Append(c, s[k + 1]) = SubSeq(s, 1, k + 1)
<1> DEFINE x == s[k + 1]
           e == Append(c, x)
<1>1. k \in 0 .. Len(s) /\ k + 1 \in 0 .. Len(s) /\ k + 1 \in 1 .. Len(s) /\ x \in S
  OBVIOUS
<1>2. IsStart(c, s, k)
  BY <1>1, StartIs
<1> HIDE DEF x
<1>3. e \in Seq(S) /\ Len(e) = k + 1 /\ e[k + 1] = x /\ \A i \in 1 .. k : e[i] = c[i]
  BY <1>1, <1>2 DEF IsStart
<1> HIDE DEF e
<1>4. IsStart(e, s, k + 1)
  <2>1. ASSUME NEW i \in 1 .. k + 1 PROVE e[i] = s[i]
    <3>1. CASE i \in 1 .. k
      BY <1>2, <1>3, <3>1 DEF IsStart
    <3>2. CASE i = k + 1
      BY <1>3, <3>2 DEF x
    <3> QED BY <3>1, <3>2
  <2> QED BY <1>1, <1>3, <2>1 DEF IsStart
<1> QED BY <1>1, <1>3, <1>4, StartIs DEF e, x

(* Of two parts, the first, and each element of the second. *)
LEMMA StartOfTwo ==
  ASSUME NEW S, NEW m \in Seq(S), NEW r \in Seq(S)
  PROVE  /\ m \o r \in Seq(S) /\ Len(m) \in Nat /\ Len(r) \in Nat
         /\ Len(m \o r) = Len(m) + Len(r)
         /\ m = SubSeq(m \o r, 1, Len(m))
         /\ \A i \in 1 .. Len(m) : (m \o r)[i] = m[i]
         /\ \A i \in 1 .. Len(r) : (m \o r)[Len(m) + i] = r[i]
<1> DEFINE c == m \o r
<1>1. c \in Seq(S) /\ IsConcat(c, m, r)
  BY ConcatParts
<1> HIDE DEF c
<1>2. Len(m) \in 0 .. Len(c) /\ IsStart(m, c, Len(m))
  BY <1>1 DEF IsConcat, IsStart
<1>3. m = SubSeq(c, 1, Len(m))
  BY <1>1, <1>2, StartIs
<1> QED BY <1>1, <1>3 DEF IsConcat, c

(* A 400 in two sequences together is in one of them.                      *)
LEMMA RefusedIs ==
  ASSUME NEW o \in Seq(Chunk), NEW w \in Seq(Chunk)
  PROVE  (\E i \in DOMAIN (o \o w) : (o \o w)[i] = <<"error", 400>>)
           <=> Error400 \in Range(o) \cup Range(w)
<1> DEFINE c == o \o w
<1>1. Range(c) = Range(o) \cup Range(w)
  <2>1. Error400 \in Chunk
    BY DEF Error400, Chunk
  <2> QED BY <2>1, RangeOf
<1> HIDE DEF c
<1> QED BY ZenonT(30),<1>1 DEF Range, Error400, c

(* Refused says that a 400 is among what is written.                       *)
LEMMA RefusedNow == TypeOK => (Refused <=> Error400 \in Written)
BY ZenonT(30),RefusedIs DEF TypeOK, Refused, Written

-----------------------------------------------------------------------------
(***************************************************************************)
(* The reply to the first request, in the parts the answer sends it in.    *)
(***************************************************************************)
(* The file the first request names.                                       *)
FirstFile == FileNamed(<<First.line[3]>>)

(* What processHttpRequest makes of the first request, and what follows    *)
(* the head then.                                                          *)
FirstResponse ==
  LET typed == HttpResponseAddHeader(httpResponseInit, <<"type", 0>>)
  IN  IF First.line[1] # "GET" THEN httpResponseInit
      ELSE CASE stat(FirstFile) = "fails" ->
                  [typed EXCEPT !.statusCode = NotFound, !.fileName = "404.html",
                                !.sendDataFunc = "sendFile"]
             [] stat(FirstFile) = "directory" ->
                  [typed EXCEPT !.statusCode = OK, !.fileName = FirstFile, !.sendDataFunc = "sendDir"]
             [] stat(FirstFile) = "file" ->
                  [HttpResponseAddHeader(typed, <<"length", disk[FirstFile]>>) EXCEPT
                     !.statusCode = OK, !.fileName = FirstFile, !.sendDataFunc = "sendFile"]

(* The line that ends a directory, and that stands for a missing file.     *)
Text    == <<"text", 0>>
Entries == [i \in 1 .. DirEntries |-> <<"entry", i - 1>>]

(* What follows the head.                                                  *)
FirstBody ==
  IF FirstResponse.sendDataFunc = "NULL" THEN <<>>
  ELSE IF FirstResponse.sendDataFunc = "sendDir" THEN Entries \o <<Text>>
  ELSE IF disk[FirstResponse.fileName] = Absent THEN <<Text>>
  ELSE Body(disk[FirstResponse.fileName])

(* The body of a file, byte by byte: as many as an int counts.             *)
LEMMA BodyIs ==
  ASSUME NEW size \in Nat
  PROVE  /\ Body(size) \in Seq(Chunk)
         /\ Len(Body(size)) = IF AsInt(size) < 0 THEN 0 ELSE AsInt(size)
         /\ \A i \in 1 .. Len(Body(size)) : Body(size)[i] = <<"body", i - 1>>
<1> DEFINE n == IF AsInt(size) < 0 THEN 0 ELSE AsInt(size)
<1>1. n \in Nat
  BY AsIntType
<1>2. Body(size) = [i \in 1 .. n |-> <<"body", i - 1>>]
  BY DEF Body
<1> HIDE DEF n
<1>3. \A i \in 1 .. n : <<"body", i - 1>> \in Chunk
  BY DEF Chunk
<1>4. Body(size) \in Seq(Chunk) /\ Len(Body(size)) = n
  BY <1>1, <1>2, <1>3
<1> QED BY <1>2, <1>4 DEF n

(* The names of the directory, one by one.                                 *)
LEMMA EntriesAre ==
  /\ Entries \in Seq(Chunk) /\ Len(Entries) = DirEntries /\ DirEntries \in Nat
  /\ \A i \in 1 .. DirEntries : Entries[i] = <<"entry", i - 1>>
<1>1. DirEntries \in Nat
  BY HttpExchangeAssumption
<1>2. \A i \in 1 .. DirEntries : <<"entry", i - 1>> \in Chunk
  BY DEF Chunk
<1>3. Entries \in Seq(Chunk) /\ Len(Entries) = DirEntries
  BY <1>1, <1>2 DEF Entries
<1> QED BY <1>1, <1>3 DEF Entries

(* The heads of the three answers, chunk by chunk. *)
LEMMA HeadsOfTwo ==
  ASSUME NEW S, NEW s \in S, NEW t \in S, NEW l \in S, NEW e \in S
  PROVE  /\ <<s>> \o <<>> \o <<e>> = <<s, e>>
         /\ <<s>> \o <<t>> \o <<e>> = <<s, t, e>>
         /\ <<s>> \o <<t, l>> \o <<e>> = <<s, t, l, e>>
<1> DEFINE a == <<s>>
           z == <<e>>
<1>1. a \in Seq(S) /\ z \in Seq(S) /\ Len(a) = 1 /\ Len(z) = 1 /\ a[1] = s /\ z[1] = e
  OBVIOUS
<1>2. /\ <<>> \in Seq(S) /\ <<t>> \in Seq(S) /\ <<t, l>> \in Seq(S)
      /\ Len(<<>>) = 0 /\ Len(<<t>>) = 1 /\ Len(<<t, l>>) = 2
      /\ <<t>>[1] = t /\ <<t, l>>[1] = t /\ <<t, l>>[2] = l
  OBVIOUS
<1> HIDE DEF a, z
<1>3. ASSUME NEW m \in Seq(S), Len(m) \in 0 .. 2
      PROVE  /\ a \o m \o z \in Seq(S) /\ Len(a \o m \o z) = Len(m) + 2
             /\ (a \o m \o z)[1] = s /\ (a \o m \o z)[Len(m) + 2] = e
             /\ \A i \in 1 .. Len(m) : (a \o m \o z)[i + 1] = m[i]
  <2> DEFINE am == a \o m
             amz == am \o z
  <2>1. am \in Seq(S) /\ IsConcat(am, a, m)
    BY <1>1, ConcatParts
  <2> HIDE DEF am
  <2>2. amz \in Seq(S) /\ IsConcat(amz, am, z)
    BY <1>1, <2>1, ConcatParts
  <2> HIDE DEF amz
  <2>3. Len(am) = Len(m) + 1 /\ am[1] = s /\ \A i \in 1 .. Len(m) : am[i + 1] = m[i]
    BY <1>1, <2>1 DEF IsConcat
  <2>4. Len(amz) = Len(m) + 2 /\ amz[Len(m) + 2] = e /\ \A i \in 1 .. Len(m) + 1 : amz[i] = am[i]
    <3>1. amz[Len(am) + 1] = e
      BY <1>1, <2>2 DEF IsConcat
    <3>2. (Len(m) + 1) + 1 = Len(m) + 2
      OBVIOUS
    <3> QED BY <1>1, <1>3, <2>2, <2>3, <3>1, <3>2 DEF IsConcat
  <2>5. amz[1] = s /\ \A i \in 1 .. Len(m) : amz[i + 1] = m[i]
    BY <1>3, <2>3, <2>4
  <2> QED BY <2>2, <2>4, <2>5 DEF am, amz
<1>4. a \o <<>> \o z = <<s, e>>
  <2> DEFINE m == <<>>
             c == a \o m \o z
  <2>1. c \in Seq(S) /\ Len(c) = 2 /\ c[1] = s /\ c[2] = e
    <3>1. m \in Seq(S) /\ Len(m) = 0 /\ Len(m) \in 0 .. 2
      BY <1>2
    <3> HIDE DEF m
    <3>2. c \in Seq(S) /\ Len(c) = Len(m) + 2 /\ c[1] = s /\ c[Len(m) + 2] = e
      BY <1>3, <3>1
    <3> HIDE DEF c
    <3> QED BY <3>1, <3>2
  <2> HIDE DEF c
  <2>2. c = <<s, e>>
    BY <2>1
  <2> QED BY <2>2 DEF c
<1>5. a \o <<t>> \o z = <<s, t, e>>
  <2> DEFINE m == <<t>>
             c == a \o m \o z
  <2>1. c \in Seq(S) /\ Len(c) = 3 /\ c[1] = s /\ c[2] = t /\ c[3] = e
    <3>1. m \in Seq(S) /\ Len(m) = 1 /\ m[1] = t
      BY <1>2
    <3> HIDE DEF m
    <3>2. c \in Seq(S) /\ Len(c) = Len(m) + 2 /\ c[1] = s /\ c[Len(m) + 2] = e /\ \A i \in 1 .. Len(m) : c[i + 1] = m[i]
      BY <1>3, <3>1
    <3> HIDE DEF c
    <3> QED BY <3>1, <3>2
  <2> HIDE DEF c
  <2>2. c = <<s, t, e>>
    BY <2>1
  <2> QED BY <2>2 DEF c
<1>6. a \o <<t, l>> \o z = <<s, t, l, e>>
  <2> DEFINE m == <<t, l>>
             c == a \o m \o z
  <2>1. c \in Seq(S) /\ Len(c) = 4 /\ c[1] = s /\ c[2] = t /\ c[3] = l /\ c[4] = e
    <3>1. m \in Seq(S) /\ Len(m) = 2 /\ Len(m) \in 0 .. 2 /\ m[1] = t /\ m[2] = l
      BY <1>2
    <3> HIDE DEF m
    <3>2. c \in Seq(S) /\ Len(c) = Len(m) + 2 /\ c[1] = s /\ c[Len(m) + 2] = e /\ \A i \in 1 .. Len(m) : c[i + 1] = m[i]
      BY <1>3, <3>1
    <3> HIDE DEF c
    <3> QED BY <3>1, <3>2
  <2> HIDE DEF c
  <2>2. c = <<s, t, l, e>>
    BY <2>1
  <2> QED BY <2>2 DEF c
<1> QED BY <1>4, <1>5, <1>6 DEF a, z

(* One header appended to none, and to one.                                *)
LEMMA AppendsOne ==
  ASSUME NEW S, NEW t \in S, NEW l \in S
  PROVE  Append(<<>>, t) = <<t>> /\ Append(<<t>>, l) = <<t, l>>
<1>1. Append(<<>>, t) = <<t>>
  OBVIOUS
<1>2. Append(<<t>>, l) = <<t, l>>
  <2> DEFINE b == <<t>>
             c == Append(b, l)
             d == <<t, l>>
  <2>1. b \in Seq(S) /\ Len(b) = 1 /\ b[1] = t /\ d \in Seq(S) /\ Len(d) = 2 /\ d[1] = t /\ d[2] = l
    OBVIOUS
  <2> HIDE DEF b, d
  <2>2. c \in Seq(S) /\ Len(c) = 2 /\ c[1] = t /\ c[2] = l
    <3>1. /\ c \in Seq(S) /\ Len(c) = Len(b) + 1 /\ \A i \in 1 .. Len(b) : c[i] = b[i]
          /\ c[Len(b) + 1] = l
      <4>1. b \in Seq(S) /\ l \in S
        BY <2>1
      <4> QED BY <4>1, AppendProperties DEF c
    <3> HIDE DEF c
    <3> QED BY <2>1, <3>1
  <2> HIDE DEF c
  <2>3. c = d
    BY <2>1, <2>2, SeqEqual
  <2> QED BY <2>3 DEF b, c, d
<1> QED BY <1>1, <1>2

(* The four responses there can be to a first request, with the files as   *)
(* they are.                                                               *)
LEMMA FirstResponseIs ==
  ASSUME disk \in [OnDisk -> Sizes]
  PROVE  /\ FirstResponse \in HttpResponse
         /\ FirstResponse.sendDataFunc = "NULL" =>
              /\ First.line[1] # "GET" /\ FirstResponse.statusCode = Unknown /\ FirstResponse.headers = <<>>
         /\ FirstResponse.sendDataFunc = "sendDir" =>
              /\ First.line[1] = "GET" /\ stat(FirstFile) = "directory"
              /\ FirstResponse.statusCode = OK /\ FirstResponse.headers = <<<<"type", 0>>>>
         /\ FirstResponse.sendDataFunc = "sendFile" =>
              /\ First.line[1] = "GET" /\ FirstResponse.fileName \in OnDisk
              /\ \/ /\ stat(FirstFile) = "fails" /\ FirstResponse.fileName = "404.html"
                    /\ FirstResponse.statusCode = NotFound /\ FirstResponse.headers = <<<<"type", 0>>>>
                 \/ /\ stat(FirstFile) = "file" /\ FirstResponse.fileName = "file"
                    /\ disk["file"] \in Nat
                    /\ FirstResponse.statusCode = OK
                    /\ FirstResponse.headers = <<<<"type", 0>>, <<"length", disk["file"]>>>>
<1> DEFINE typed == HttpResponseAddHeader(httpResponseInit, <<"type", 0>>)
           long == HttpResponseAddHeader(typed, <<"length", disk["file"]>>)
<1>1. /\ stat(FirstFile) \in {"fails", "directory", "file"}
      /\ stat(FirstFile) = "directory" => FirstFile = "./"
      /\ stat(FirstFile) = "file" => FirstFile = "file" /\ disk["file"] \in Nat
      /\ "./" \in File /\ "file" \in File /\ "404.html" \in File
  BY HttpExchangeAssumption DEF stat, FirstFile, FileNamed, OnDisk, Sizes
<1>2. /\ typed = [statusCode |-> Unknown, fileName |-> "", headers |-> <<<<"type", 0>>>>, sendDataFunc |-> "NULL"]
      /\ long = [statusCode |-> Unknown, fileName |-> "", headers |-> <<<<"type", 0>>, <<"length", disk["file"]>>>>,
                 sendDataFunc |-> "NULL"]
  <2> DEFINE t == <<"type", 0>>
             l == <<"length", disk["file"]>>
  <2>1. Append(<<>>, t) = <<t>> /\ Append(<<t>>, l) = <<t, l>>
    <3> HIDE DEF t, l
    <3> DEFINE U == {t, l}
    <3>1. t \in U /\ l \in U
      OBVIOUS
    <3> HIDE DEF U
    <3> QED BY <3>1, AppendsOne
  <2> HIDE DEF t, l
  <2>2. typed = HttpResponseAddHeader(httpResponseInit, t) /\ long = HttpResponseAddHeader(typed, l)
    BY DEF t, l
  <2> HIDE DEF typed, long
  <2>3. typed = [statusCode |-> Unknown, fileName |-> "", headers |-> <<t>>, sendDataFunc |-> "NULL"]
    BY <2>1, <2>2 DEF HttpResponseAddHeader, httpResponseInit
  <2>4. long = [statusCode |-> Unknown, fileName |-> "", headers |-> <<t, l>>, sendDataFunc |-> "NULL"]
    <3> DEFINE h == <<t>>
               hl == <<t, l>>
    <3>1. typed = [statusCode |-> Unknown, fileName |-> "", headers |-> h, sendDataFunc |-> "NULL"] /\ Append(h, l) = hl
      BY <2>1, <2>3
    <3> HIDE DEF h, hl
    <3>2. long = [typed EXCEPT !.headers = hl]
      <4>1. typed.headers = h
        BY <3>1
      <4>2. long = [typed EXCEPT !.headers = Append(typed.headers, l)]
        BY <2>2 DEF HttpResponseAddHeader
      <4> QED BY <3>1, <4>1, <4>2
    <3>3. long = [statusCode |-> Unknown, fileName |-> "", headers |-> hl, sendDataFunc |-> "NULL"]
      BY <3>1, <3>2
    <3> QED BY <3>3 DEF hl
  <2> QED BY <2>3, <2>4 DEF t, l
<1>3. <<>> \in Seq(Chunk) /\ <<<<"type", 0>>>> \in Seq(Chunk)
      /\ (disk["file"] \in Nat => <<<<"type", 0>>, <<"length", disk["file"]>>>> \in Seq(Chunk))
  BY DEF Chunk
<1> HIDE DEF typed, long
<1>4. FirstResponse = IF First.line[1] # "GET" THEN httpResponseInit
                  ELSE IF stat(FirstFile) = "fails"
                       THEN [typed EXCEPT !.statusCode = NotFound, !.fileName = "404.html", !.sendDataFunc = "sendFile"]
                  ELSE IF stat(FirstFile) = "directory"
                       THEN [typed EXCEPT !.statusCode = OK, !.fileName = FirstFile, !.sendDataFunc = "sendDir"]
                  ELSE [long EXCEPT !.statusCode = OK, !.fileName = FirstFile, !.sendDataFunc = "sendFile"]
  BY <1>1 DEF FirstResponse, typed, long
<1> DEFINE R(s, f, h, d) == [statusCode |-> s, fileName |-> f, headers |-> h, sendDataFunc |-> d]
<1>5. ASSUME NEW s \in {Unknown, OK, NotFound}, NEW f \in File \cup {""}, NEW h \in Seq(Chunk), NEW d \in {"NULL", "sendFile", "sendDir"}
      PROVE  R(s, f, h, d) \in HttpResponse
  BY DEF HttpResponse
<1>6. CASE First.line[1] # "GET"
  <2>1. FirstResponse = R(Unknown, "", <<>>, "NULL")
    BY <1>4, <1>6 DEF httpResponseInit
  <2>2. FirstResponse \in HttpResponse
    BY <1>3, <1>5, <2>1
  <2> QED BY <1>6, <2>1, <2>2
<1>7. CASE First.line[1] = "GET" /\ stat(FirstFile) = "fails"
  <2>1. FirstResponse = R(NotFound, "404.html", <<<<"type", 0>>>>, "sendFile")
    BY <1>2, <1>4, <1>7
  <2>2. FirstResponse \in HttpResponse
    BY <1>1, <1>3, <1>5, <2>1
  <2> QED BY <1>7, <2>1, <2>2 DEF OnDisk
<1>8. CASE First.line[1] = "GET" /\ stat(FirstFile) = "directory"
  <2>1. FirstResponse = R(OK, "./", <<<<"type", 0>>>>, "sendDir")
    BY <1>1, <1>2, <1>4, <1>8
  <2>2. FirstResponse \in HttpResponse
    BY <1>1, <1>3, <1>5, <2>1
  <2> QED BY <1>8, <2>1, <2>2
<1>9. CASE First.line[1] = "GET" /\ stat(FirstFile) = "file"
  <2>1. FirstResponse = R(OK, "file", <<<<"type", 0>>, <<"length", disk["file"]>>>>, "sendFile")
    BY <1>1, <1>2, <1>4, <1>9
  <2>2. FirstResponse \in HttpResponse
    BY <1>1, <1>3, <1>5, <1>9, <2>1
  <2> QED BY <1>1, <1>9, <2>1, <2>2 DEF OnDisk
<1> QED BY <1>1, <1>6, <1>7, <1>8, <1>9

(* The body consists of chunks.                                            *)
LEMMA FirstBodyType ==
  ASSUME disk \in [OnDisk -> Sizes]
  PROVE  FirstBody \in Seq(Chunk)
<1>1. Text \in Chunk
  BY DEF Text, Chunk
<1>2. <<>> \in Seq(Chunk) /\ <<Text>> \in Seq(Chunk)
  BY <1>1
<1>3. Entries \o <<Text>> \in Seq(Chunk)
  BY <1>2, EntriesAre
<1>4. ASSUME FirstResponse.sendDataFunc = "sendFile", disk[FirstResponse.fileName] # Absent
      PROVE  Body(disk[FirstResponse.fileName]) \in Seq(Chunk)
  <2>1. disk[FirstResponse.fileName] \in Nat
    BY <1>4, FirstResponseIs DEF Sizes
  <2> QED BY <2>1, BodyIs
<1>5. FirstResponse.sendDataFunc \in {"NULL", "sendFile", "sendDir"}
  BY FirstResponseIs DEF HttpResponse
<1> QED BY <1>2, <1>3, <1>4, <1>5 DEF FirstBody

(* The reply is its head and its body. *)
LEMMA ReplyShape ==
  ASSUME disk \in [OnDisk -> Sizes]
  PROVE  FirstReply = httpResponsePrepareMsg(FirstResponse) \o FirstBody
<1> DEFINE r == FirstResponse
           m == httpResponsePrepareMsg(FirstResponse)
           t == <<"type", 0>>
           l == <<"length", disk["file"]>>
           e == <<"blank", 0>>
           S(n) == <<"status", n>>
<1>1. r.sendDataFunc \in {"NULL", "sendFile", "sendDir"}
  BY FirstResponseIs DEF HttpResponse
<1>2. FirstReply =
        IF First.line[1] # "GET" THEN <<S(Unknown), e>>
        ELSE CASE stat(FirstFile) = "fails" -> <<S(NotFound), t, e>> \o Page
               [] stat(FirstFile) = "file" -> <<S(OK), t, l, e>> \o Body(disk["file"])
               [] OTHER -> <<S(OK), t, e>> \o Entries \o <<Text>>
  BY Zenon DEF FirstReply, FirstFile, Entries, Text
<1>3. m = <<S(r.statusCode)>> \o r.headers \o <<e>>
  BY DEF httpResponsePrepareMsg
<1> HIDE DEF t, l, e, S, m, r
<1>3a. ASSUME NEW s
       PROVE  /\ <<s>> \o <<>> \o <<e>> = <<s, e>>
              /\ <<s>> \o <<t>> \o <<e>> = <<s, t, e>>
              /\ <<s>> \o <<t, l>> \o <<e>> = <<s, t, l, e>>
  <2> DEFINE U == {s, t, l, e}
  <2>1. s \in U /\ t \in U /\ l \in U /\ e \in U
    OBVIOUS
  <2> HIDE DEF U
  <2> QED BY <2>1, HeadsOfTwo
<1>4. CASE r.sendDataFunc = "NULL"
  <2>1. First.line[1] # "GET" /\ r.statusCode = Unknown /\ r.headers = <<>>
    BY <1>4, FirstResponseIs DEF r
  <2>2. m = <<S(Unknown), e>> /\ FirstBody = <<>>
    <3>1. <<S(Unknown)>> \o <<>> \o <<e>> = <<S(Unknown), e>>
      BY <1>3a
    <3> QED BY <1>3, <1>4, <2>1, <3>1 DEF FirstBody, r
  <2>3. <<S(Unknown), e>> \o <<>> = <<S(Unknown), e>>
    OBVIOUS
  <2> QED BY <1>2, <2>1, <2>2, <2>3, Zenon DEF m
<1>5. CASE r.sendDataFunc = "sendDir"
  <2>1. First.line[1] = "GET" /\ stat(FirstFile) = "directory" /\ r.statusCode = OK /\ r.headers = <<t>>
    BY <1>5, FirstResponseIs DEF r, t
  <2>2. m = <<S(OK), t, e>> /\ FirstBody = Entries \o <<Text>>
    <3>1. <<S(OK)>> \o <<t>> \o <<e>> = <<S(OK), t, e>>
      BY <1>3a
    <3>2. FirstBody = Entries \o <<Text>>
      BY <1>5, Zenon DEF FirstBody, r
    <3> QED BY <1>3, <2>1, <3>1, <3>2
  <2>3. FirstReply = <<S(OK), t, e>> \o Entries \o <<Text>>
    BY <1>2, <2>1
  <2>4. m \in Seq(Chunk) /\ Entries \in Seq(Chunk) /\ <<Text>> \in Seq(Chunk)
    <3>1. Text \in Chunk
      BY DEF Text, Chunk
    <3> QED BY <3>1, FirstResponseIs, PrepareType, EntriesAre DEF m
  <2>5. (m \o Entries) \o <<Text>> = m \o (Entries \o <<Text>>)
    BY <2>4, ConcatAssociative
  <2> QED BY <2>2, <2>3, <2>5, Zenon DEF m
<1>6. CASE r.sendDataFunc = "sendFile" /\ r.fileName = "404.html" /\ stat(FirstFile) = "fails"
  <2>1. First.line[1] = "GET" /\ r.statusCode = NotFound /\ r.headers = <<t>>
    BY <1>6, FirstResponseIs DEF r, t
  <2>2. m = <<S(NotFound), t, e>>
    <3>1. <<S(NotFound)>> \o <<t>> \o <<e>> = <<S(NotFound), t, e>>
      BY <1>3a
    <3> QED BY <1>3, <2>1, <3>1
  <2>3. FirstReply = m \o Page
    BY <1>2, <1>6, <2>1, <2>2
  <2>4. FirstBody = Page
    BY <1>6 DEF FirstBody, Page, r, Text
  <2> QED BY <2>3, <2>4, Zenon DEF m
<1>7. CASE r.sendDataFunc = "sendFile" /\ r.fileName = "file" /\ stat(FirstFile) = "file"
  <2>1. First.line[1] = "GET" /\ r.statusCode = OK /\ r.headers = <<t, l>> /\ disk["file"] \in Nat
    BY <1>7, FirstResponseIs DEF r, t, l
  <2>2. m = <<S(OK), t, l, e>>
    <3>1. <<S(OK)>> \o <<t, l>> \o <<e>> = <<S(OK), t, l, e>>
      BY <1>3a
    <3> QED BY <1>3, <2>1, <3>1
  <2>3. FirstReply = m \o Body(disk["file"])
    BY <1>2, <1>7, <2>1, <2>2
  <2>4. FirstBody = Body(disk["file"])
    BY <1>7, <2>1, HttpExchangeAssumption DEF FirstBody, r
  <2> QED BY <2>3, <2>4, Zenon DEF m
<1> QED BY <1>1, <1>4, <1>5, <1>6, <1>7, FirstResponseIs DEF r

(* The head of the first reply.                                            *)
FirstHead == httpResponsePrepareMsg(FirstResponse)

(* The length of a head.                                                   *)
LEMMA PrepareLen ==
  ASSUME NEW r \in HttpResponse
  PROVE  /\ Len(httpResponsePrepareMsg(r)) = 2 + Len(r.headers)
         /\ Len(r.headers) \in Nat
<1> DEFINE s == <<"status", r.statusCode>>
           e == <<"blank", 0>>
           h == r.headers
<1>1. h \in Seq(Chunk) /\ s \in Chunk /\ e \in Chunk
  <2>1. r.statusCode \in {Unknown, OK, NotFound} /\ h \in Seq(Chunk)
    BY DEF HttpResponse
  <2> DEFINE n == r.statusCode
  <2>2. n \in Int
    BY <2>1 DEF Unknown, OK, NotFound
  <2> HIDE DEF n
  <2>3. <<"status", n>> \in Chunk /\ e \in Chunk
    BY <2>2 DEF Chunk
  <2> QED BY <2>1, <2>3 DEF n
<1>2. httpResponsePrepareMsg(r) = <<s>> \o h \o <<e>>
  BY DEF httpResponsePrepareMsg
<1> HIDE DEF s, e, h
<1> DEFINE a == <<s>>
           z == <<e>>
           ah == a \o h
<1>3. a \in Seq(Chunk) /\ z \in Seq(Chunk) /\ Len(a) = 1 /\ Len(z) = 1
  BY <1>1, RangeOfOne
<1> HIDE DEF a, z
<1>4. ah \in Seq(Chunk) /\ IsConcat(ah, a, h)
  BY <1>1, <1>3, ConcatParts
<1> HIDE DEF ah
<1>5. IsConcat(ah \o z, ah, z)
  BY <1>3, <1>4, ConcatParts
<1>6. Len(ah \o z) = 2 + Len(h) /\ Len(h) \in Nat
  BY <1>3, <1>4, <1>5 DEF IsConcat
<1> QED BY <1>2, <1>6 DEF a, z, ah, h

(* Where head and body are in the reply.                                   *)
LEMMA ReplyParts ==
  ASSUME disk \in [OnDisk -> Sizes]
  PROVE  /\ FirstReply \in Seq(Chunk) /\ FirstHead \in Seq(Chunk) /\ FirstBody \in Seq(Chunk)
         /\ Len(FirstHead) = 2 + Len(FirstResponse.headers)
         /\ Len(FirstHead) \in Nat /\ Len(FirstBody) \in Nat
         /\ Len(FirstReply) = Len(FirstHead) + Len(FirstBody)
         /\ \A i \in 1 .. Len(FirstHead) : FirstReply[i] = FirstHead[i]
         /\ \A i \in 1 .. Len(FirstBody) : FirstReply[Len(FirstHead) + i] = FirstBody[i]
<1>1. FirstReply = FirstHead \o FirstBody
  BY ReplyShape DEF FirstHead
<1>2. FirstHead \in Seq(Chunk) /\ FirstBody \in Seq(Chunk) /\ Len(FirstHead) = 2 + Len(FirstResponse.headers)
  BY FirstResponseIs, FirstBodyType, PrepareType, PrepareLen DEF FirstHead
<1>3. /\ FirstHead \o FirstBody \in Seq(Chunk) /\ Len(FirstHead) \in Nat /\ Len(FirstBody) \in Nat
      /\ Len(FirstHead \o FirstBody) = Len(FirstHead) + Len(FirstBody)
      /\ \A i \in 1 .. Len(FirstHead) : (FirstHead \o FirstBody)[i] = FirstHead[i]
      /\ \A i \in 1 .. Len(FirstBody) : (FirstHead \o FirstBody)[Len(FirstHead) + i] = FirstBody[i]
  <2> DEFINE h == FirstHead
             b == FirstBody
  <2>1. h \in Seq(Chunk) /\ b \in Seq(Chunk)
    BY <1>2
  <2> HIDE DEF h, b
  <2>2. /\ h \o b \in Seq(Chunk) /\ Len(h) \in Nat /\ Len(b) \in Nat
        /\ Len(h \o b) = Len(h) + Len(b)
        /\ \A i \in 1 .. Len(h) : (h \o b)[i] = h[i]
        /\ \A i \in 1 .. Len(b) : (h \o b)[Len(h) + i] = b[i]
    BY <2>1, StartOfTwo
  <2> QED BY <2>2 DEF h, b
<1> QED BY <1>1, <1>2, <1>3, Zenon

(* The body, by what the answer sends it with. *)
LEMMA BodyParts ==
  ASSUME disk \in [OnDisk -> Sizes]
  PROVE  LET f == disk[FirstResponse.fileName] IN
         /\ FirstResponse.sendDataFunc = "NULL" => Len(FirstBody) = 0
         /\ FirstResponse.sendDataFunc = "sendFile" /\ f = Absent => Len(FirstBody) = 1 /\ FirstBody[1] = Text
         /\ FirstResponse.sendDataFunc = "sendFile" /\ f # Absent =>
              /\ AsInt(f) \in Int
              /\ Len(FirstBody) = IF AsInt(f) < 0 THEN 0 ELSE AsInt(f)
              /\ \A i \in 1 .. Len(FirstBody) : FirstBody[i] = <<"body", i - 1>>
         /\ FirstResponse.sendDataFunc = "sendDir" =>
              /\ DirEntries \in Nat /\ Len(FirstBody) = DirEntries + 1
              /\ \A i \in 1 .. DirEntries : FirstBody[i] = <<"entry", i - 1>>
              /\ FirstBody[DirEntries + 1] = Text
<1> DEFINE f == disk[FirstResponse.fileName]
<1>1. CASE FirstResponse.sendDataFunc = "NULL"
  BY <1>1 DEF FirstBody
<1>2. CASE FirstResponse.sendDataFunc = "sendFile" /\ f = Absent
  <2>1. FirstBody = <<Text>>
    BY <1>2 DEF FirstBody
  <2>2. Text \in Chunk
    BY DEF Text, Chunk
  <2> HIDE DEF f
  <2> QED BY <1>2, <2>1, <2>2, RangeOfOne DEF f
<1>3. CASE FirstResponse.sendDataFunc = "sendFile" /\ f # Absent
  <2>1. f \in Nat
    BY <1>3, FirstResponseIs DEF Sizes
  <2>2. FirstBody = Body(f)
    BY <1>3 DEF FirstBody
  <2>3. AsInt(f) \in Int
    BY <2>1, AsIntType
  <2> HIDE DEF f
  <2> QED BY <1>3, <2>1, <2>2, <2>3, BodyIs DEF f
<1>4. CASE FirstResponse.sendDataFunc = "sendDir"
  <2> DEFINE t == <<Text>>
             c == Entries \o t
  <2>1. FirstBody = c
    BY <1>4 DEF FirstBody
  <2>2. Text \in Chunk
    BY DEF Text, Chunk
  <2>3. t \in Seq(Chunk) /\ Len(t) = 1 /\ t[1] = Text
    BY <2>2, RangeOfOne
  <2> HIDE DEF t
  <2>4. c \in Seq(Chunk) /\ IsConcat(c, Entries, t)
    BY <2>3, EntriesAre, ConcatParts
  <2> HIDE DEF c
  <2>5. /\ DirEntries \in Nat /\ Len(c) = DirEntries + 1
        /\ \A i \in 1 .. DirEntries : c[i] = <<"entry", i - 1>>
    BY <2>3, <2>4, EntriesAre DEF IsConcat
  <2>6. c[DirEntries + 1] = Text
    <3>1. 1 \in 1 .. Len(t)
      BY <2>3
    <3>2. c[Len(Entries) + 1] = t[1]
      BY <2>4, <3>1, Zenon DEF IsConcat
    <3> QED BY <2>3, <3>2, EntriesAre
  <2> QED BY <1>4, <2>1, <2>5, <2>6
<1>5. FirstResponse.sendDataFunc \in {"NULL", "sendFile", "sendDir"}
  BY FirstResponseIs DEF HttpResponse
<1> QED BY <1>1, <1>2, <1>3, <1>4, <1>5

-----------------------------------------------------------------------------
(***************************************************************************)
(* FirstInv: the reply to the first request has been written up to a       *)
(* certain place, no more and no less, and in order, unless a 400 or a     *)
(* file that overtook it is in between.                                    *)
(***************************************************************************)
(* The length of the current answer's head; whether the first answer is    *)
(* under way.                                                              *)
HeadLen == 2 + Len(response.headers)
FirstAnswering == served = 1 /\ At \in Answering

(* How much of the first reply has been put into the write buffer or on    *)
(* the wire.                                                               *)
Produced ==
  IF served = 0 \/ (served = 1 /\ At = "prepare") THEN 0
  ELSE IF FirstAnswering THEN HeadLen + IF At = "open" THEN 0 ELSE offset
  ELSE Len(FirstReply)

(* Whom ReplyInOrder and ReleasedWhole promise something.                  *)
Calm == WellFormed(First) /\ ~changed /\ client # "reset"

(* While the first answer is under way, its response is the one the files  *)
(* ask for, and its loop runs to the right end.                            *)
FirstGoes ==
  FirstAnswering =>
    /\ response = FirstResponse
    /\ At = "file" => disk[response.fileName] # Absent /\ goal = AsInt(disk[response.fileName])
    /\ At = "dir" => response.sendDataFunc = "sendDir" /\ offset <= goal

(* What excuses a reply from being in order.                               *)
InPlace == ~Refused /\ (build = "flag" => ~BodySent)

(* The reply is written up to Produced, in order while nothing came in     *)
(* between; once it is complete, everything else is behind it.             *)
FirstInv ==
  Calm =>
    /\ FirstGoes
    /\ \A i \in 1 .. Produced : FirstReply[i] \in Written
    /\ InPlace => IF served = 0 \/ FirstAnswering
                  THEN out \o wbuf = SubSeq(FirstReply, 1, Produced)
                  ELSE IsPrefix(FirstReply, out \o wbuf)

(* A step that leaves the client content changes neither script nor files. *)
LEMMA CalmBefore ==
  ASSUME TypeOK, [Next]_vars, Calm'
  PROVE  Calm /\ UNCHANGED <<build, script, disk>>
<1> USE DEF Fixed, Others, clientVars, diskVars, Calm, First
<1>1. CASE UNCHANGED vars
  BY <1>1 DEF vars
<1>2. CASE ClientSends \/ ClientLeaves \/ ClientReads \/ FileChanges
  BY <1>2 DEF ClientSends, ClientLeaves, ClientReads, FileChanges
<1>3. CASE Server
  <2>1. UNCHANGED <<build, script, client, disk, changed>>
    BY <1>3 DEF Server, Poll, EndScan, processRead, processReadReturns, processWrite, processWriteReturns,
                ParseLine, ParseHead, ParseFails, processHttpRequest, PrepareMsg, SendChunk,
                bufferSendDataReturns, SendFails, OpenFile, SendFile, sendFileReturns, SendDir
  <2> QED BY <2>1
<1> QED BY <1>1, <1>2, <1>3 DEF Next

(* With the same script and files the reply is the same.                   *)
LEMMA SameReply ==
  ASSUME UNCHANGED <<script, disk>>
  PROVE  FirstReply' = FirstReply /\ FirstResponse' = FirstResponse /\ FirstBody' = FirstBody
<1>1. /\ First' = First /\ FirstFile' = FirstFile /\ stat(FirstFile)' = stat(FirstFile)
      /\ disk' = disk /\ Page' = Page
  BY DEF First, FirstFile, stat, Page, Body
<1>2. FirstReply' = FirstReply
  BY <1>1 DEF FirstReply, FirstFile, Body
<1>3. FirstResponse' = FirstResponse
  BY <1>1 DEF FirstResponse
<1> QED BY <1>1, <1>2, <1>3 DEF FirstBody, Body

(* What is produced is counted by a number.                                *)
LEMMA ProducedType ==
  ASSUME TypeOK, FirstGoes
  PROVE  Produced \in Nat
<1>1. FirstAnswering => HeadLen \in Nat
  <2>1. response.headers \in Seq(Chunk)
    BY DEF TypeOK, HttpResponse
  <2> QED BY <2>1 DEF HeadLen
<1>2. FirstReply \in Seq(Chunk)
  BY ReplyParts DEF TypeOK
<1>3. Len(FirstReply) \in Nat
  BY <1>2
<1> QED BY <1>1, <1>3 DEF TypeOK, Produced

(* Steps that add nothing to what is written, and do not go on with the    *)
(* first answer.                                                           *)
LEMMA FirstSame ==
  ASSUME FirstInv, Calm, UNCHANGED <<build, script, disk, response, served, offset, goal>>,
         out' \o wbuf' = out \o wbuf, Written \subseteq Written', BodySent => BodySent',
         At' = At \/ (At \notin Answering /\ At' \notin Answering)
  PROVE  FirstInv'
<1>1. FirstReply' = FirstReply /\ FirstResponse' = FirstResponse
  BY SameReply
<1>2. (FirstAnswering' <=> FirstAnswering) /\ Produced' = Produced
  BY <1>1 DEF Answering, FirstAnswering, Produced, HeadLen
<1>3. FirstGoes'
  BY <1>1, <1>2 DEF FirstInv, FirstGoes, FirstAnswering, AsInt, Answering
<1>4. InPlace' => InPlace
  BY DEF InPlace, Refused
<1>5. ASSUME NEW i \in 1 .. Produced' PROVE FirstReply'[i] \in Written'
  BY <1>1, <1>2, <1>5 DEF FirstInv
<1>6. ASSUME InPlace'
      PROVE  IF served' = 0 \/ FirstAnswering' THEN out' \o wbuf' = SubSeq(FirstReply', 1, Produced')
             ELSE IsPrefix(FirstReply', out' \o wbuf')
  <2>1. IF served = 0 \/ FirstAnswering THEN out \o wbuf = SubSeq(FirstReply, 1, Produced)
        ELSE IsPrefix(FirstReply, out \o wbuf)
    BY <1>4, <1>6 DEF FirstInv
  <2> QED BY <1>1, <1>2, <2>1
<1> QED BY <1>3, <1>5, <1>6 DEF FirstInv

(* The first answer is complete: what comes later stands behind it. *)
LEMMA FirstLater ==
  ASSUME TypeOK, TypeOK', FirstInv, Calm, UNCHANGED <<build, script, disk>>,
         served > 0, ~FirstAnswering, served' > 0, ~FirstAnswering',
         Written \subseteq Written', BodySent => BodySent',
         NEW d \in Seq(Chunk),
         out' \o wbuf' = (out \o wbuf) \o d \/ (build = "flag" /\ BodySent')
  PROVE  FirstInv'
<1>1. FirstReply' = FirstReply /\ FirstResponse' = FirstResponse /\ FirstReply \in Seq(Chunk)
  BY SameReply, ReplyParts DEF TypeOK
<1>2. Produced' = Produced /\ Produced = Len(FirstReply)
  <2>1. served \in Nat /\ served' \in Nat
    BY DEF TypeOK
  <2>2. ~(served = 0 \/ (served = 1 /\ At = "prepare")) /\ ~(served' = 0 \/ (served' = 1 /\ At' = "prepare"))
    BY <2>1 DEF FirstAnswering, Answering
  <2> QED BY <1>1, <2>2 DEF Produced
<1>3. FirstGoes'
  BY DEF FirstGoes
<1>4. ASSUME NEW i \in 1 .. Produced' PROVE FirstReply'[i] \in Written'
  BY <1>1, <1>2, <1>4 DEF FirstInv
<1>5. ASSUME InPlace'
      PROVE  IsPrefix(FirstReply', out' \o wbuf')
  <2>1. out \o wbuf \in Seq(Chunk) /\ (Refused => Refused')
    <3>1. out \in Seq(Chunk) /\ wbuf \in Seq(Chunk) /\ out' \in Seq(Chunk) /\ wbuf' \in Seq(Chunk)
      BY DEF TypeOK
    <3>2. Refused <=> Error400 \in Range(out) \cup Range(wbuf)
      BY ZenonT(30),<3>1, RefusedIs DEF Refused
    <3>3. Refused' <=> Error400 \in Range(out') \cup Range(wbuf')
      BY ZenonT(30),<3>1, RefusedIs DEF Refused
    <3> QED BY <3>1, <3>2, <3>3 DEF Written
  <2>2. InPlace /\ out' \o wbuf' = (out \o wbuf) \o d
    BY <1>5, <2>1 DEF InPlace
  <2>3. IsPrefix(FirstReply, out \o wbuf)
    <3>1. served # 0
      BY DEF TypeOK
    <3> QED BY <2>2, <3>1 DEF FirstInv
  <2> DEFINE c == out \o wbuf
  <2>4. c \in Seq(Chunk) /\ IsPrefix(FirstReply, c)
    BY <2>1, <2>3
  <2> HIDE DEF c
  <2>5. IsPrefix(FirstReply, c \o d)
    BY <1>1, <2>4, PrefixStays
  <2> QED BY <1>1, <2>2, <2>5 DEF c
<1>6. served' # 0
  BY DEF TypeOK
<1> QED BY <1>3, <1>4, <1>5, <1>6 DEF FirstInv

(* A start goes on by the next elements, up to the whole.                  *)
LEMMA StartGoesOn ==
  ASSUME NEW S, NEW s \in Seq(S), NEW c \in Seq(S), NEW d \in Seq(S), NEW k \in Nat,
         c = SubSeq(s, 1, k), k + Len(d) <= Len(s), \A i \in 1 .. Len(d) : s[k + i] = d[i]
  PROVE  /\ c \o d = SubSeq(s, 1, k + Len(d))
         /\ k + Len(d) = Len(s) => IsPrefix(s, c \o d)
<1> DEFINE e == c \o d
<1>1. Len(d) \in Nat /\ Len(s) \in Nat /\ k \in 0 .. Len(s) /\ k + Len(d) \in 0 .. Len(s)
  OBVIOUS
<1>2. IsStart(c, s, k)
  BY <1>1, StartIs
<1>3. e \in Seq(S) /\ IsConcat(e, c, d)
  BY ConcatParts
<1> HIDE DEF e
<1>4. IsStart(e, s, k + Len(d))
  <2>1. Len(e) = k + Len(d)
    BY <1>2, <1>3 DEF IsStart, IsConcat
  <2>2. ASSUME NEW i \in 1 .. k + Len(d) PROVE e[i] = s[i]
    <3>1. CASE i <= k
      BY <1>2, <1>3, <3>1 DEF IsStart, IsConcat
    <3>2. CASE ~(i <= k)
      <4> DEFINE j == i - k
      <4>1. j \in 1 .. Len(d) /\ i = k + j
        BY <1>1, <3>2
      <4> HIDE DEF j
      <4>2. e[Len(c) + j] = d[j] /\ Len(c) = k
        BY <1>2, <1>3, <4>1 DEF IsStart, IsConcat
      <4> QED BY <4>1, <4>2
    <3> QED BY <3>1, <3>2
  <2> QED BY <1>1, <2>1, <2>2 DEF IsStart
<1>5. e = SubSeq(s, 1, k + Len(d))
  BY <1>1, <1>3, <1>4, StartIs
<1>6. ASSUME k + Len(d) = Len(s) PROVE IsPrefix(s, e)
  <2>1. IsStart(s, e, Len(s))
    BY <1>1, <1>4, <1>6 DEF IsStart
  <2> QED BY <1>3, <2>1, PrefixIs
<1> QED BY <1>5, <1>6 DEF e

(* The first answer goes on by d. *)
LEMMA FirstGrows ==
  ASSUME TypeOK, TypeOK', FirstInv, Calm, UNCHANGED <<build, script, disk>>,
         served = 0 \/ FirstAnswering, served' = 1, FirstGoes',
         NEW d \in Seq(Chunk),
         Written \subseteq Written', Range(d) \subseteq Written', BodySent => BodySent',
         out' \o wbuf' = (out \o wbuf) \o d \/ (build = "flag" /\ BodySent'),
         Produced' = Produced + Len(d), Produced' <= Len(FirstReply),
         \A i \in 1 .. Len(d) : FirstReply[Produced + i] = d[i]
  PROVE  FirstInv'
<1>1. FirstReply' = FirstReply /\ FirstReply \in Seq(Chunk) /\ Produced \in Nat /\ Len(d) \in Nat
      /\ Len(FirstReply) \in Nat
  <2>1. Produced \in Nat
    BY ProducedType DEF FirstInv
  <2>2. FirstReply \in Seq(Chunk)
    BY ReplyParts DEF TypeOK
  <2> QED BY <2>1, <2>2, SameReply
<1>2. ASSUME NEW i \in 1 .. Produced' PROVE FirstReply'[i] \in Written'
  <2>1. CASE i <= Produced
    BY <1>1, <1>2, <2>1 DEF FirstInv
  <2>2. CASE ~(i <= Produced)
    <3> DEFINE j == i - Produced
    <3>1. j \in 1 .. Len(d) /\ i = Produced + j
      BY <1>1, <1>2, <2>2
    <3> HIDE DEF j
    <3>2. FirstReply[i] = d[j] /\ j \in DOMAIN d
      BY <3>1
    <3> QED BY <1>1, <3>2 DEF Range
  <2> QED BY <2>1, <2>2
<1>3. ASSUME InPlace'
      PROVE  IF served' = 0 \/ FirstAnswering' THEN out' \o wbuf' = SubSeq(FirstReply', 1, Produced')
             ELSE IsPrefix(FirstReply', out' \o wbuf')
  <2>1. out \o wbuf \in Seq(Chunk) /\ (Refused => Refused')
    <3>1. out \in Seq(Chunk) /\ wbuf \in Seq(Chunk) /\ out' \in Seq(Chunk) /\ wbuf' \in Seq(Chunk)
      BY DEF TypeOK
    <3>2. Refused <=> Error400 \in Range(out) \cup Range(wbuf)
      BY ZenonT(30),<3>1, RefusedIs DEF Refused
    <3>3. Refused' <=> Error400 \in Range(out') \cup Range(wbuf')
      BY ZenonT(30),<3>1, RefusedIs DEF Refused
    <3> QED BY <3>1, <3>2, <3>3 DEF Written
  <2>2. InPlace /\ out' \o wbuf' = (out \o wbuf) \o d
    BY <1>3, <2>1 DEF InPlace
  <2> DEFINE c == out \o wbuf
             p == Produced
             r == FirstReply
  <2>3. c \in Seq(Chunk) /\ c = SubSeq(r, 1, p)
    BY <2>1, <2>2 DEF FirstInv
  <2>4. /\ r \in Seq(Chunk) /\ p \in Nat /\ p + Len(d) <= Len(r)
        /\ \A i \in 1 .. Len(d) : r[p + i] = d[i]
    BY <1>1
  <2>5. ~FirstAnswering' => p + Len(d) = Len(r)
    <3>1. ~FirstAnswering' => Produced' = Len(FirstReply)'
      BY DEF Produced, FirstAnswering, Answering
    <3> QED BY <1>1, <3>1
  <2> HIDE DEF c, p, r
  <2>6. /\ c \o d = SubSeq(r, 1, p + Len(d))
        /\ p + Len(d) = Len(r) => IsPrefix(r, c \o d)
    BY <2>3, <2>4, StartGoesOn
  <2>7. out' \o wbuf' = c \o d /\ Produced' = p + Len(d) /\ FirstReply' = r
    BY <1>1, <2>2 DEF c, p, r
  <2>8. served' # 0
    OBVIOUS
  <2> QED BY <2>5, <2>6, <2>7, <2>8
<1> QED BY <1>2, <1>3 DEF FirstInv

-----------------------------------------------------------------------------
(***************************************************************************)
(* FirstInv is inductive: one lemma for the steps that write nothing of an *)
(* answer, and one for each step that does.                                *)
(***************************************************************************)
LEMMA FirstScan ==
  ASSUME TypeOK, ControlInv, FirstInv, Calm, Calm', UNCHANGED <<build, script, disk>>,
         \/ ClientSends \/ ClientLeaves \/ ClientReads \/ FileChanges \/ UNCHANGED vars
         \/ Poll \/ EndScan \/ processRead \/ processReadReturns \/ processWrite \/ processWriteReturns
         \/ ParseLine \/ ParseHead \/ SendChunk \/ bufferSendDataReturns \/ SendFails
  PROVE  FirstInv'
<1> USE DEF Fixed, Others, clientVars, diskVars, readVars, replyVars, loopVars
<1>1. ASSUME UNCHANGED <<response, served, offset, goal, out, wbuf>>,
             At' = At \/ (At \notin Answering /\ At' \notin Answering)
      PROVE  FirstInv'
  <2>1. out' \o wbuf' = out \o wbuf /\ Written' = Written /\ (BodySent => BodySent')
    BY <1>1 DEF Written, BodySent
  <2> QED BY <1>1, <2>1, FirstSame
<1>2. CASE ClientSends \/ ClientLeaves \/ ClientReads \/ FileChanges \/ UNCHANGED vars
  <2>1. UNCHANGED <<response, served, offset, goal, out, wbuf, pc, back>>
    BY <1>2 DEF ClientSends, ClientLeaves, ClientReads, FileChanges, vars
  <2> QED BY <1>1, <2>1 DEF At
<1>3. CASE Poll \/ EndScan \/ processRead \/ processReadReturns \/ processWrite \/ processWriteReturns
  <2>1. UNCHANGED <<response, served, offset, goal, out, wbuf>>
        /\ pc \in {"idle", "scan", "finish", "written"}
        /\ \/ pc' \in {"idle", "scan", "parse", "finish", "closed", "stranded"}
           \/ pc' = "send" /\ back' = "written"
    BY <1>3 DEF Poll, EndScan, processRead, processReadReturns, processWrite, processWriteReturns, tcpConnectionDestory
  <2> QED BY <1>1, <2>1 DEF At, Answering
<1>4. CASE ParseLine \/ ParseHead
  <2>1. UNCHANGED <<response, served, offset, goal, out, wbuf>> /\ pc = "parse" /\ pc' \in {"undefined", "parse", "process"}
    <3>1. UNCHANGED <<response, served, offset, goal, out, wbuf>>
      BY <1>4 DEF ParseLine, ParseHead
    <3> QED BY <1>4, <3>1, ParserMoving DEF ParserMoves
  <2> QED BY <1>1, <2>1 DEF At, Answering
<1>5. CASE bufferSendDataReturns
  <2>1. UNCHANGED <<response, served, offset, goal, out, wbuf>> /\ pc = "send" /\ pc' = back /\ back # "send"
    BY <1>5 DEF bufferSendDataReturns, ControlInv, Control, WrittenInv, Returning
  <2> QED BY <1>1, <2>1 DEF At
<1>6. CASE SendFails
  BY <1>6 DEF SendFails, Calm
<1>7. CASE SendChunk
  <2>1. /\ pc = "send" /\ wbuf # <<>> /\ out' = Append(out, Head(wbuf)) /\ wbuf' = Tail(wbuf)
        /\ UNCHANGED <<pc, back, response, served, offset, goal>>
    BY <1>7 DEF SendChunk
  <2>2. out \in Seq(Chunk) /\ wbuf \in Seq(Chunk)
    BY DEF TypeOK
  <2>3. out' \o wbuf' = out \o wbuf /\ Written' = Written
    BY <2>1, <2>2, ChunkMoves DEF Written
  <2>4. BodySent => BodySent'
    <3>1. /\ Len(out) \in Nat /\ DOMAIN out = 1 .. Len(out) /\ DOMAIN out' = 1 .. Len(out) + 1
          /\ \A i \in 1 .. Len(out) : out'[i] = out[i]
      <4> DEFINE h == Head(wbuf)
      <4>1. h \in Chunk
        BY <2>1, <2>2
      <4> HIDE DEF h
      <4>2. out' = Append(out, h)
        BY <2>1 DEF h
      <4> QED BY <2>2, <4>1, <4>2
    <3> QED BY <3>1 DEF BodySent
  <2>5. At' = At
    BY <2>1 DEF At
  <2> QED BY <2>1, <2>3, <2>4, <2>5, FirstSame
<1> QED BY <1>2, <1>3, <1>4, <1>5, <1>6, <1>7

(* A 400 keeps FirstInv.                                                   *)
LEMMA FirstRefuses ==
  ASSUME TypeOK, ControlInv, FirstInv, Calm, UNCHANGED <<build, script, disk>>, ParseFails
  PROVE  FirstInv'
<1>1. /\ pc = "parse" /\ pc' = "finish" /\ wbuf' = Append(wbuf, Error400) /\ UNCHANGED <<out, served, response, offset, goal>>
  BY DEF ParseFails, Fixed, clientVars, replyVars, loopVars, Error400
<1>2. out \in Seq(Chunk) /\ wbuf \in Seq(Chunk) /\ Error400 \in Chunk
  BY DEF TypeOK, Error400, Chunk
<1>3. wbuf' \in Seq(Chunk) /\ Range(wbuf') = Range(wbuf) \cup {Error400}
  BY <1>1, <1>2, RangeOf
<1>4. Refused'
  <2>1. out' \in Seq(Chunk) /\ wbuf' \in Seq(Chunk)
    BY <1>1, <1>2, <1>3
  <2>2. Refused' <=> Error400 \in Range(out') \cup Range(wbuf')
    BY ZenonT(30),<2>1, RefusedIs DEF Refused
  <2> QED BY <1>3, <2>2
<1>5. ~FirstAnswering /\ ~FirstAnswering' /\ Produced' = Produced
  <2>1. FirstReply' = FirstReply
    BY SameReply
  <2> QED BY <1>1, <2>1 DEF FirstAnswering, Answering, At, Produced
<1>6. ASSUME NEW i \in 1 .. Produced' PROVE FirstReply'[i] \in Written'
  <2>1. FirstReply' = FirstReply /\ Written \subseteq Written'
    BY <1>1, <1>3, SameReply DEF Written
  <2> QED BY <1>5, <1>6, <2>1 DEF FirstInv
<1> QED BY <1>4, <1>5, <1>6 DEF FirstInv, FirstGoes, InPlace

(* The answer to the first request, as it stands in the model's answer. *)
LEMMA AnswerToFirst ==
  ASSUME response = httpResponseInit, NEW r, r.method = <<First.line[1]>>, r.url = <<First.line[3]>>
  PROVE  Answer(r) = FirstResponse
<1>1. FileNamed(r.url) = FirstFile
  BY DEF FirstFile
<1>2. r.method # <<"GET">> <=> First.line[1] # "GET"
  <2> DEFINE x == First.line[1]
  <2>1. r.method = <<x>>
    OBVIOUS
  <2> HIDE DEF x
  <2>2. <<x>> # <<"GET">> <=> x # "GET"
    OBVIOUS
  <2> QED BY <2>1, <2>2 DEF x
<1> DEFINE g == FirstFile
           typed == HttpResponseAddHeader(httpResponseInit, <<"type", 0>>)
           long == HttpResponseAddHeader(typed, <<"length", disk[g]>>)
           reply == IF stat(g) = "fails"
                    THEN [typed EXCEPT !.statusCode = NotFound, !.fileName = "404.html", !.sendDataFunc = "sendFile"]
                    ELSE IF stat(g) = "directory"
                    THEN [typed EXCEPT !.statusCode = OK, !.fileName = g, !.sendDataFunc = "sendDir"]
                    ELSE [long EXCEPT !.statusCode = OK, !.fileName = g, !.sendDataFunc = "sendFile"]
<1>3. stat(g) \in {"fails", "directory", "file"}
  BY DEF stat
<1>4. Answer(r) = IF r.method # <<"GET">> THEN httpResponseInit ELSE reply
  <2> HIDE DEF g, typed, long
  <2> QED BY <1>1, <1>3 DEF Answer, g, typed, long
<1>5. FirstResponse = IF First.line[1] # "GET" THEN httpResponseInit ELSE reply
  <2> HIDE DEF g, typed, long
  <2> QED BY <1>3 DEF FirstResponse, g, typed, long
<1> HIDE DEF reply
<1> QED BY <1>2, <1>4, <1>5, Zenon

(* processHttpRequest keeps FirstInv: the first request gets the response  *)
(* the files ask for, whose headers fit into their array.                  *)
LEMMA FirstServed ==
  ASSUME TypeOK, TypeOK', ControlInv, ParserInv, FirstInv, Calm, UNCHANGED <<build, script, disk>>,
         processHttpRequest
  PROVE  FirstInv'
<1>1. /\ pc = "process" /\ response' = Answer(request) /\ served' = served + 1
      /\ pc' = IF Overflows(response') THEN "undefined" ELSE "prepare"
      /\ UNCHANGED <<wbuf, out>>
  BY DEF processHttpRequest
<1>2. served \in Nat /\ out \in Seq(Chunk) /\ wbuf \in Seq(Chunk)
  BY DEF TypeOK
<1> DEFINE d == <<>>
           c == out \o wbuf
<1>3. d \in Seq(Chunk) /\ Len(d) = 0 /\ Range(d) = {} /\ c \in Seq(Chunk) /\ c \o d = c
  BY <1>2 DEF Range
<1>4. out' \o wbuf' = (out \o wbuf) \o d /\ Written' = Written /\ (BodySent => BodySent')
  BY <1>1, <1>3 DEF Written, BodySent
<1> HIDE DEF c, d
<1>5. CASE served > 0
  <2>1. served' > 0 /\ ~FirstAnswering /\ ~FirstAnswering'
    BY <1>1, <1>2, <1>5 DEF FirstAnswering, At, Answering
  <2> QED BY <1>3, <1>4, <1>5, <2>1, FirstLater
<1>6. CASE served = 0
  <2>1. response' = FirstResponse
    <3>1. Good(1) /\ served + 1 = 1
      BY <1>6, FirstIs DEF Calm
    <3>2. AfterHead
      BY <1>1, <3>1 DEF ParserInv
    <3>3. request.method = <<First.line[1]>> /\ request.url = <<First.line[3]>>
      BY <3>1, <3>2 DEF AfterHead, LineIs, Current, First
    <3>4. response = httpResponseInit
      BY <1>6 DEF ControlInv, Control, WrittenInv
    <3> QED BY <1>1, <3>3, <3>4, AnswerToFirst
  <2>2. ~Overflows(response')
    <3>1. disk \in [OnDisk -> Sizes] /\ FirstResponse.sendDataFunc \in {"NULL", "sendFile", "sendDir"}
      BY FirstResponseIs DEF TypeOK, HttpResponse
    <3>2. FirstResponse.headers \in {<<>>, <<<<"type", 0>>>>, <<<<"type", 0>>, <<"length", disk["file"]>>>>}
      BY <3>1, FirstResponseIs
    <3>3. Len(FirstResponse.headers) \in 0 .. 2
      BY <3>2
    <3> DEFINE n == Len(FirstResponse.headers)
    <3>4. n \in 0 .. 2 /\ ResHeaderSize \in Nat /\ ResHeaderSize >= 2
      BY <3>3, HttpResponseAssumption
    <3> HIDE DEF n
    <3>5. ~(n > ResHeaderSize)
      BY <3>4
    <3> QED BY <2>1, <3>5 DEF Overflows, n
  <2>3. pc' = "prepare" /\ served' = 1
    BY <1>1, <1>6, <2>2
  <2>4. Produced = 0 /\ Produced' = 0 /\ FirstGoes'
    <3>1. FirstResponse' = FirstResponse
      BY SameReply
    <3> QED BY <1>6, <2>1, <2>3, <3>1 DEF Produced, At, FirstGoes
  <2>5. Len(FirstReply) \in Nat
    <3>1. FirstReply \in Seq(Chunk)
      BY ReplyParts DEF TypeOK
    <3> QED BY <3>1
  <2>6. Produced' = Produced + Len(d) /\ Produced' <= Len(FirstReply) /\ Range(d) \subseteq Written'
    BY <1>3, <2>4, <2>5
  <2>7. \A i \in 1 .. Len(d) : FirstReply[Produced + i] = d[i]
    BY <1>3
  <2> QED BY <1>3, <1>4, <1>6, <2>3, <2>4, <2>6, <2>7, FirstGrows
<1> QED BY <1>2, <1>5, <1>6

(* httpResponsePrepareMsg keeps FirstInv: the head is written first, all   *)
(* of it.                                                                  *)
LEMMA FirstHeadWritten ==
  ASSUME TypeOK, TypeOK', ControlInv, FirstInv, Calm, UNCHANGED <<build, script, disk>>, PrepareMsg
  PROVE  FirstInv'
<1> DEFINE d == httpResponsePrepareMsg(response)
<1>1. /\ pc = "prepare" /\ wbuf' = wbuf \o d
      /\ offset' = 0 /\ goal' = DirEntries /\ UNCHANGED <<response, served, out>>
      /\ At' = CASE response.sendDataFunc = "NULL" -> "finish"
                 [] response.sendDataFunc = "sendFile" -> "open"
                 [] response.sendDataFunc = "sendDir" -> "dir"
  <2>1. response.sendDataFunc \in {"NULL", "sendFile", "sendDir"}
    BY DEF TypeOK, HttpResponse
  <2> QED BY <2>1 DEF PrepareMsg, SendUnlessAuto, SendThen, At, replyVars
<1>2. served \in Nat /\ served > 0 /\ out \in Seq(Chunk) /\ wbuf \in Seq(Chunk) /\ d \in Seq(Chunk)
      /\ response.sendDataFunc \in {"NULL", "sendFile", "sendDir"}
  <2>1. response \in HttpResponse
    BY DEF TypeOK
  <2>2. served > 0
    BY <1>1 DEF ControlInv, Control, WrittenInv, At, Answering
  <2> QED BY <2>1, <2>2, PrepareType DEF TypeOK, HttpResponse
<1>3. out' \o wbuf' = (out \o wbuf) \o d /\ Written' = Written \cup Range(d) /\ (BodySent => BodySent')
  <2> HIDE DEF d
  <2>1. out \o (wbuf \o d) = (out \o wbuf) \o d
    BY <1>2, ConcatAssociative
  <2>2. Range(wbuf \o d) = Range(wbuf) \cup Range(d)
    <3>1. Error400 \in Chunk
      BY DEF Error400, Chunk
    <3> QED BY <1>2, <3>1, RangeOf
  <2> QED BY <1>1, <2>1, <2>2 DEF Written, BodySent
<1>4. CASE served > 1
  <2>1. ~FirstAnswering /\ ~FirstAnswering'
    BY <1>1, <1>2, <1>4 DEF FirstAnswering
  <2> HIDE DEF d
  <2> QED BY <1>1, <1>2, <1>3, <2>1, FirstLater
<1>5. CASE served = 1
  <2>1. FirstAnswering /\ response = FirstResponse /\ Produced = 0
    <3>1. FirstAnswering
      BY <1>1, <1>5 DEF FirstAnswering, At, Answering
    <3> QED BY <1>1, <1>5, <3>1 DEF FirstInv, FirstGoes, Produced, At
  <2>2. d = FirstHead
    BY <2>1 DEF FirstHead
  <2>3. disk \in [OnDisk -> Sizes] /\ DirEntries \in Nat
    BY HttpExchangeAssumption DEF TypeOK
  <2>4. FirstReply' = FirstReply /\ FirstResponse' = FirstResponse
    BY SameReply
  <2>5. FirstGoes'
    BY <1>1, <1>2, <2>1, <2>3, <2>4 DEF FirstGoes
  <2>6. Produced' = Len(d)
    <3>1. Len(d) = HeadLen' /\ Len(d) \in Nat
      BY <1>1, <2>1, <2>2, <2>3, ReplyParts DEF HeadLen
    <3>2. CASE response.sendDataFunc = "NULL"
      <4>1. At' = "finish" /\ Len(FirstBody) = 0
        BY <1>1, <2>1, <2>3, <3>2, BodyParts
      <4>2. Len(FirstReply) = Len(d)
        BY <2>2, <2>3, <4>1, ReplyParts
      <4>3. At' # "prepare" /\ served' = 1 /\ ~FirstAnswering'
        BY <1>1, <1>5, <4>1 DEF FirstAnswering, Answering
      <4>4. Produced' = Len(FirstReply')
        BY <4>3 DEF Produced
      <4> QED BY <2>4, <4>2, <4>4
    <3>3. CASE response.sendDataFunc # "NULL"
      <4>1. At' \in {"open", "dir"}
        BY <1>1, <1>2, <3>3
      <4> HIDE DEF d
      <4>2. At' # "prepare" /\ served' = 1 /\ FirstAnswering' /\ offset' = 0
        BY <1>1, <1>5, <4>1 DEF FirstAnswering, Answering
      <4>3. Produced' = HeadLen' + 0
        BY <4>2 DEF Produced
      <4> QED BY <3>1, <4>3
    <3> QED BY <3>2, <3>3
  <2>7. Len(d) <= Len(FirstReply) /\ Len(d) \in Nat /\ \A i \in 1 .. Len(d) : FirstReply[i] = d[i]
    BY <2>2, <2>3, ReplyParts
  <2> HIDE DEF d
  <2>8. /\ Produced' = Produced + Len(d) /\ Produced' <= Len(FirstReply)
        /\ \A i \in 1 .. Len(d) : FirstReply[Produced + i] = d[i]
    BY <2>1, <2>6, <2>7
  <2>9. served' = 1 /\ Written \subseteq Written' /\ Range(d) \subseteq Written'
    BY <1>1, <1>3, <1>5
  <2> QED BY <1>2, <1>3, <2>1, <2>5, <2>8, <2>9, FirstGrows
<1> QED BY <1>2, <1>4, <1>5

(* One chunk more, behind the write buffer or on the wire. *)
OneChunk(x) ==
  \/ wbuf' = Append(wbuf, x) /\ out' = out
  \/ out' = Append(out, x) /\ wbuf' = wbuf /\ (wbuf = <<>> \/ (build = "flag" /\ x[1] = "body"))

(* One chunk more, at the end of what is written.                          *)
LEMMA ChunkWritten ==
  ASSUME out \in Seq(Chunk), wbuf \in Seq(Chunk), NEW x \in Chunk, OneChunk(x), build' = build
  PROVE  /\ <<x>> \in Seq(Chunk) /\ Len(<<x>>) = 1 /\ <<x>>[1] = x
         /\ Written \subseteq Written' /\ Range(<<x>>) \subseteq Written' /\ (BodySent => BodySent')
         /\ out' \o wbuf' = (out \o wbuf) \o <<x>> \/ (build = "flag" /\ BodySent')
<1> DEFINE d == <<x>>
<1>1. d \in Seq(Chunk) /\ Len(d) = 1 /\ d[1] = x /\ Range(d) = {x}
  BY RangeOfOne
<1>2. /\ Append(wbuf, x) = wbuf \o d /\ Append(out, x) = out \o d
      /\ Range(Append(wbuf, x)) = Range(wbuf) \cup {x} /\ Range(Append(out, x)) = Range(out) \cup {x}
  BY AppendIsConcat, RangeOf
<1>3. CASE wbuf' = Append(wbuf, x) /\ out' = out
  <2> HIDE DEF d
  <2>1. out \o (wbuf \o d) = (out \o wbuf) \o d
    <3>1. out \in Seq(Chunk) /\ wbuf \in Seq(Chunk) /\ d \in Seq(Chunk)
      BY <1>1
    <3> QED BY <3>1, ConcatAssociative
  <2>2. out' \o wbuf' = (out \o wbuf) \o d /\ Written \subseteq Written' /\ x \in Written'
    BY <1>2, <1>3, <2>1 DEF Written
  <2> QED BY <1>1, <1>3, <2>2 DEF BodySent, d
<1>4. CASE out' = Append(out, x) /\ wbuf' = wbuf /\ (wbuf = <<>> \/ (build = "flag" /\ x[1] = "body"))
  <2>1. /\ Len(out) \in Nat /\ DOMAIN out = 1 .. Len(out) /\ DOMAIN out' = 1 .. Len(out) + 1
        /\ out'[Len(out) + 1] = x /\ \A i \in 1 .. Len(out) : out'[i] = out[i]
    BY <1>4
  <2>2. (BodySent => BodySent') /\ (x[1] = "body" => BodySent')
    <3>1. Len(out) + 1 \in 1 .. Len(out) + 1
      BY <2>1
    <3> QED BY <2>1, <3>1 DEF BodySent
  <2>3. Written \subseteq Written' /\ x \in Written'
    BY <1>2, <1>4 DEF Written
  <2>4. wbuf = <<>> => out' \o wbuf' = (out \o wbuf) \o d
    <3> HIDE DEF d
    <3> SUFFICES ASSUME wbuf = <<>> PROVE out' \o wbuf' = (out \o wbuf) \o d
      OBVIOUS
    <3>1. out \o wbuf = out /\ out' \in Seq(Chunk)
      <4>1. Append(out, x) \in Seq(Chunk)
        OBVIOUS
      <4> QED BY <1>4, <4>1, ConcatEmptySeq
    <3>2. out' \o wbuf' = out'
      BY <1>4, <3>1, ConcatEmptySeq
    <3> QED BY <1>2, <1>4, <3>1, <3>2
  <2> QED BY <1>1, <1>4, <2>2, <2>3, <2>4
<1> QED BY <1>3, <1>4 DEF OneChunk

(* One chunk of the body keeps FirstInv, if it is the next, or comes after *)
(* the first reply.                                                        *)
LEMMA FirstChunk ==
  ASSUME TypeOK, TypeOK', FirstInv, Calm, UNCHANGED <<build, script, disk, served>>,
         served > 0, NEW x \in Chunk, OneChunk(x),
         served = 1 =>
           /\ FirstAnswering /\ FirstGoes'
           /\ \E k \in 1 .. Len(FirstBody) :
                /\ Produced + 1 = Len(FirstHead) + k /\ Produced' = Len(FirstHead) + k
                /\ FirstBody[k] = x
  PROVE  FirstInv'
<1> DEFINE d == <<x>>
<1>1. out \in Seq(Chunk) /\ wbuf \in Seq(Chunk) /\ served \in Nat
  BY DEF TypeOK
<1>2. /\ d \in Seq(Chunk) /\ Len(d) = 1 /\ d[1] = x
      /\ Written \subseteq Written' /\ Range(d) \subseteq Written' /\ (BodySent => BodySent')
      /\ out' \o wbuf' = (out \o wbuf) \o d \/ (build = "flag" /\ BodySent')
  BY <1>1, ChunkWritten
<1> HIDE DEF d
<1>3. CASE served > 1
  <2>1. ~FirstAnswering /\ ~FirstAnswering' /\ served' > 0
    BY <1>1, <1>3 DEF FirstAnswering
  <2> QED BY <1>2, <2>1, FirstLater
<1>4. CASE served = 1
  <2>1. PICK k \in 1 .. Len(FirstBody) :
          Produced + 1 = Len(FirstHead) + k /\ Produced' = Len(FirstHead) + k /\ FirstBody[k] = x
    BY <1>4
  <2>2. /\ Len(FirstHead) \in Nat /\ Len(FirstBody) \in Nat /\ Len(FirstReply) = Len(FirstHead) + Len(FirstBody)
        /\ FirstReply[Len(FirstHead) + k] = FirstBody[k]
    BY ReplyParts DEF TypeOK
  <2>3. Produced \in Nat
    BY ProducedType DEF FirstInv
  <2>4. Produced' = Produced + Len(d) /\ Produced' <= Len(FirstReply)
    BY <1>2, <2>1, <2>2, <2>3
  <2>5. \A i \in 1 .. Len(d) : FirstReply[Produced + i] = d[i]
    BY <1>2, <2>1, <2>2
  <2> QED BY <1>2, <1>4, <2>4, <2>5, FirstGrows
<1> QED BY <1>1, <1>3, <1>4

(* Nothing more, and the first answer goes on. *)
LEMMA FirstGoesOn ==
  ASSUME TypeOK, TypeOK', FirstInv, Calm, UNCHANGED <<build, script, disk, served, wbuf, out>>,
         served > 0,
         served = 1 => FirstAnswering /\ FirstGoes' /\ Produced' = Produced /\ Produced <= Len(FirstReply)
  PROVE  FirstInv'
<1> DEFINE d == <<>>
           c == out \o wbuf
<1>1. served \in Nat
  BY DEF TypeOK
<1>2. d \in Seq(Chunk) /\ Len(d) = 0 /\ Range(d) = {} /\ c \in Seq(Chunk) /\ c \o d = c
  <2>1. out \in Seq(Chunk) /\ wbuf \in Seq(Chunk)
    BY DEF TypeOK
  <2> QED BY <2>1 DEF Range
<1>3. out' \o wbuf' = (out \o wbuf) \o d /\ Written' = Written /\ (BodySent => BodySent')
  BY <1>2 DEF Written, BodySent
<1> HIDE DEF c, d
<1>4. CASE served > 1
  <2>1. ~FirstAnswering /\ ~FirstAnswering' /\ served' > 0
    BY <1>1, <1>4 DEF FirstAnswering
  <2> QED BY <1>2, <1>3, <2>1, FirstLater
<1>5. CASE served = 1
  <2>1. Produced \in Nat
    BY ProducedType DEF FirstInv
  <2>2. Produced' = Produced + Len(d) /\ Range(d) \subseteq Written' /\ Produced' <= Len(FirstReply)
        /\ \A i \in 1 .. Len(d) : FirstReply[Produced + i] = d[i]
    BY <1>2, <1>5, <2>1
  <2> QED BY <1>2, <1>3, <1>5, <2>2, FirstGrows
<1> QED BY <1>1, <1>4, <1>5

(* While the first answer is under way. *)
LEMMA FirstNow ==
  ASSUME TypeOK, ControlInv, FirstInv, Calm, served = 1, At \in Answering
  PROVE  /\ FirstAnswering /\ response = FirstResponse /\ HeadLen = Len(FirstHead)
         /\ FirstGoes /\ Len(FirstHead) \in Nat /\ Len(FirstBody) \in Nat
         /\ Len(FirstReply) = Len(FirstHead) + Len(FirstBody)
         /\ At = "open" => Produced = Len(FirstHead)
         /\ At \in {"file", "dir"} => Produced = Len(FirstHead) + offset
<1>1. FirstAnswering /\ FirstGoes /\ response = FirstResponse
  BY DEF FirstAnswering, FirstInv, FirstGoes
<1>2. Len(FirstHead) = 2 + Len(FirstResponse.headers) /\ Len(FirstHead) \in Nat /\ Len(FirstBody) \in Nat
      /\ Len(FirstReply) = Len(FirstHead) + Len(FirstBody)
  BY ReplyParts DEF TypeOK
<1>3. HeadLen = Len(FirstHead)
  BY <1>1, <1>2 DEF HeadLen
<1>4. At = "open" => Produced = HeadLen + 0
  BY <1>1 DEF Produced
<1>5. At \in {"file", "dir"} => Produced = HeadLen + offset
  BY <1>1 DEF Produced
<1> QED BY <1>1, <1>2, <1>3, <1>4, <1>5

(* What is produced after a step that leaves the answer's head alone. *)
LEMMA ProducedThen ==
  ASSUME UNCHANGED <<script, disk, served, response>>, served = 1, At' # "prepare"
  PROVE  /\ At' = "open" => Produced' = HeadLen + 0
         /\ At' \in {"file", "dir"} => Produced' = HeadLen + offset'
         /\ At' \notin Answering => Produced' = Len(FirstReply) /\ ~FirstAnswering'
<1>1. HeadLen' = HeadLen /\ FirstReply' = FirstReply
  BY SameReply DEF HeadLen
<1>2. At' \in Answering => FirstAnswering'
  BY DEF FirstAnswering
<1>3. At' \notin Answering => ~FirstAnswering'
  BY DEF FirstAnswering
<1> QED BY <1>1, <1>2, <1>3 DEF Produced, Answering

(* sendFile's open keeps FirstInv.                                         *)
LEMMA FirstOpens ==
  ASSUME TypeOK, TypeOK', ControlInv, FirstInv, Calm, UNCHANGED <<build, script, disk>>, OpenFile
  PROVE  FirstInv'
<1> DEFINE size == disk[response.fileName]
<1>1. /\ pc = "open" /\ offset' = 0 /\ UNCHANGED <<response, served, out>>
      /\ \/ size = Absent /\ wbuf' = Append(wbuf, Text) /\ At' = "finish"
         \/ size # Absent /\ goal' = AsInt(size) /\ pc' = "file" /\ At' = "file" /\ wbuf' = wbuf
  BY DEF OpenFile, SendUnlessAuto, SendThen, At, Text, SizeFound, replyVars
<1>2. At = "open" /\ At \in Answering /\ served > 0 /\ served \in Nat /\ response.sendDataFunc = "sendFile"
  <2>1. At = "open" /\ At \in Answering
    BY <1>1 DEF At, Answering
  <2> QED BY <2>1 DEF ControlInv, Control, WrittenInv, TypeOK
<1>3. Text \in Chunk
  BY DEF Text, Chunk
<1> HIDE DEF size
<1>4. CASE size = Absent
  <2>1. OneChunk(Text)
    BY <1>1, <1>4 DEF OneChunk
  <2>2. ASSUME served = 1
        PROVE  /\ FirstAnswering /\ FirstGoes'
               /\ \E k \in 1 .. Len(FirstBody) :
                    /\ Produced + 1 = Len(FirstHead) + k /\ Produced' = Len(FirstHead) + k
                    /\ FirstBody[k] = Text
    <3>1. /\ FirstAnswering /\ response = FirstResponse /\ Len(FirstHead) \in Nat /\ Produced = Len(FirstHead)
          /\ Len(FirstReply) = Len(FirstHead) + Len(FirstBody)
      BY <1>2, <2>2, FirstNow
    <3>2. Len(FirstBody) = 1 /\ FirstBody[1] = Text
      <4>1. disk \in [OnDisk -> Sizes]
        BY DEF TypeOK
      <4> QED BY <1>2, <1>4, <3>1, <4>1, BodyParts DEF size
    <3>3. Produced' = Len(FirstReply) /\ ~FirstAnswering'
      <4>1. At' # "prepare" /\ At' \notin Answering
        BY <1>1, <1>4 DEF Answering
      <4> QED BY <1>1, <2>2, <4>1, ProducedThen
    <3>4. 1 \in 1 .. Len(FirstBody) /\ Produced + 1 = Len(FirstHead) + 1 /\ Produced' = Len(FirstHead) + 1
      <4>1. Produced' = Len(FirstHead) + Len(FirstBody) /\ Len(FirstBody) = 1
        BY <3>1, <3>2, <3>3
      <4>2. Produced + 1 = Len(FirstHead) + 1 /\ 1 \in 1 .. 1
        BY <3>1
      <4> QED BY <4>1, <4>2, Zenon
    <3> QED BY <3>1, <3>2, <3>3, <3>4 DEF FirstGoes
  <2> QED BY <1>1, <1>2, <1>3, <2>1, <2>2, FirstChunk
<1>5. CASE size # Absent
  <2>1. ASSUME served = 1
        PROVE  FirstAnswering /\ FirstGoes' /\ Produced' = Produced /\ Produced <= Len(FirstReply)
    <3>1. /\ FirstAnswering /\ response = FirstResponse /\ Len(FirstHead) \in Nat /\ Produced = Len(FirstHead)
          /\ Len(FirstReply) = Len(FirstHead) + Len(FirstBody) /\ HeadLen = Len(FirstHead) /\ Len(FirstBody) \in Nat
      BY <1>2, <2>1, FirstNow
    <3>2. Produced' = HeadLen + offset'
      BY <1>1, <1>5, <2>1, ProducedThen
    <3>3. FirstGoes'
      <4>1. FirstResponse' = FirstResponse
        BY SameReply
      <4>2. response' = FirstResponse' /\ At' = "file"
        BY <1>1, <1>5, <3>1, <4>1
      <4>3. disk'[response'.fileName] = size /\ goal' = AsInt(size)
        BY <1>1, <1>5 DEF size
      <4> QED BY <1>5, <4>2, <4>3 DEF FirstGoes, AsInt
    <3> QED BY <1>1, <3>1, <3>2, <3>3
  <2> QED BY <1>1, <1>2, <1>5, <2>1, FirstGoesOn
<1> QED BY <1>4, <1>5

(* sendfile keeps FirstInv: without the flag the write buffer is empty     *)
(* then, so that the byte stands behind the head.                          *)
LEMMA FirstFileSent ==
  ASSUME TypeOK, TypeOK', ControlInv, BufferInv, FirstInv, Calm, UNCHANGED <<build, script, disk>>, SendFile
  PROVE  FirstInv'
<1> DEFINE x == <<"body", offset>>
<1>1. /\ pc = "file" /\ offset < goal /\ out' = Append(out, x) /\ offset' = offset + 1
      /\ UNCHANGED <<pc, back, response, served, wbuf, goal>>
  BY DEF SendFile, replyVars
<1>2. At = "file" /\ At' = "file" /\ At \in Answering /\ served > 0 /\ served \in Nat /\ response.sendDataFunc = "sendFile"
  <2>1. At = "file" /\ At' = "file" /\ At \in Answering
    BY <1>1 DEF At, Answering
  <2> QED BY <2>1 DEF ControlInv, Control, WrittenInv, TypeOK
<1>3. x \in Chunk /\ x[1] = "body" /\ offset \in Nat /\ goal \in Int
  <2>1. offset \in Nat /\ goal \in Int
    BY DEF TypeOK
  <2> QED BY <2>1 DEF Chunk
<1>4. build # "flag" => wbuf = <<>>
  BY <1>1 DEF BufferInv, Calm
<1> HIDE DEF x
<1>5. OneChunk(x)
  BY <1>1, <1>3, <1>4 DEF OneChunk
<1>6. ASSUME served = 1
      PROVE  /\ FirstAnswering /\ FirstGoes'
             /\ \E k \in 1 .. Len(FirstBody) :
                  /\ Produced + 1 = Len(FirstHead) + k /\ Produced' = Len(FirstHead) + k
                  /\ FirstBody[k] = x
  <2>1. /\ FirstAnswering /\ response = FirstResponse /\ Len(FirstHead) \in Nat /\ Produced = Len(FirstHead) + offset
        /\ HeadLen = Len(FirstHead) /\ FirstGoes
    BY <1>2, <1>6, FirstNow
  <2>2. Produced' = HeadLen + offset'
    BY <1>1, <1>2, <1>6, ProducedThen
  <2> DEFINE size == disk[FirstResponse.fileName]
  <2>3. size # Absent /\ goal = AsInt(size)
    BY <1>2, <2>1 DEF FirstGoes
  <2>4. AsInt(size) \in Int /\ Len(FirstBody) = (IF AsInt(size) < 0 THEN 0 ELSE AsInt(size))
        /\ \A i \in 1 .. Len(FirstBody) : FirstBody[i] = <<"body", i - 1>>
    <3>1. disk \in [OnDisk -> Sizes]
      BY DEF TypeOK
    <3> QED BY <1>2, <2>1, <2>3, <3>1, BodyParts
  <2>5. offset + 1 \in 1 .. Len(FirstBody)
    <3> HIDE DEF size
    <3> QED BY <1>1, <1>3, <2>3, <2>4
  <2>6. FirstBody[offset + 1] = x
    <3>1. FirstBody[offset + 1] = <<"body", (offset + 1) - 1>>
      BY <2>4, <2>5
    <3>2. (offset + 1) - 1 = offset
      BY <1>3
    <3> QED BY <3>1, <3>2 DEF x
  <2>7. FirstGoes'
    <3>1. FirstResponse' = FirstResponse
      BY SameReply
    <3>2. response' = FirstResponse' /\ At' = "file" /\ disk'[response'.fileName] = size /\ goal' = AsInt(size)
      BY <1>1, <1>2, <2>1, <2>3, <3>1
    <3> HIDE DEF size
    <3> QED BY <2>3, <3>2 DEF FirstGoes, AsInt
  <2> DEFINE k == offset + 1
  <2>8. k \in 1 .. Len(FirstBody) /\ Produced + 1 = Len(FirstHead) + k /\ Produced' = Len(FirstHead) + k
        /\ FirstBody[k] = x
    BY <1>1, <1>3, <2>1, <2>2, <2>5, <2>6
  <2> QED BY <2>1, <2>7, <2>8
<1> QED BY <1>1, <1>2, <1>3, <1>5, <1>6, FirstChunk

(* sendFile ends when the whole file, as far as an int counts, has been    *)
(* sent.                                                                   *)
LEMMA FirstFileEnds ==
  ASSUME TypeOK, TypeOK', ControlInv, FirstInv, Calm, UNCHANGED <<build, script, disk>>, sendFileReturns
  PROVE  FirstInv'
<1>1. /\ pc = "file" /\ offset >= goal /\ pc' = "finish" /\ UNCHANGED <<response, served, wbuf, out, offset, goal>>
  BY DEF sendFileReturns, replyVars, loopVars
<1>2. At = "file" /\ At' = "finish" /\ At \in Answering /\ served > 0 /\ served \in Nat
      /\ response.sendDataFunc = "sendFile"
  <2>1. At = "file" /\ At' = "finish" /\ At \in Answering
    BY <1>1 DEF At, Answering
  <2> QED BY <2>1 DEF ControlInv, Control, WrittenInv, TypeOK
<1>3. ASSUME served = 1
      PROVE  FirstAnswering /\ FirstGoes' /\ Produced' = Produced /\ Produced <= Len(FirstReply)
  <2>1. /\ FirstAnswering /\ response = FirstResponse /\ Len(FirstHead) \in Nat /\ Produced = Len(FirstHead) + offset
        /\ Len(FirstReply) = Len(FirstHead) + Len(FirstBody) /\ FirstGoes
    BY <1>2, <1>3, FirstNow
  <2>2. Produced' = Len(FirstReply) /\ ~FirstAnswering'
    <3>1. At' # "prepare" /\ At' \notin Answering
      BY <1>2 DEF Answering
    <3> QED BY <1>1, <1>3, <3>1, ProducedThen
  <2>3. offset = Len(FirstBody)
    <3> DEFINE size == disk[FirstResponse.fileName]
    <3>1. size # Absent /\ goal = AsInt(size)
      BY <1>2, <2>1 DEF FirstGoes
    <3>2. AsInt(size) \in Int /\ Len(FirstBody) = (IF AsInt(size) < 0 THEN 0 ELSE AsInt(size))
      <4>1. disk \in [OnDisk -> Sizes]
        BY DEF TypeOK
      <4> QED BY <1>2, <2>1, <3>1, <4>1, BodyParts
    <3> HIDE DEF size
    <3>3. offset \in Nat /\ (offset > 0 => offset <= goal)
      BY DEF TypeOK
    <3> QED BY <1>1, <3>1, <3>2, <3>3
  <2>4. Produced = Len(FirstReply) /\ Len(FirstReply) \in Nat
    BY <2>1, <2>3 DEF TypeOK
  <2> QED BY <2>1, <2>2, <2>4 DEF FirstGoes
<1> QED BY <1>1, <1>2, <1>3, FirstGoesOn

(* sendDir keeps FirstInv: its names come in order, and the text last.     *)
LEMMA FirstDirSent ==
  ASSUME TypeOK, TypeOK', ControlInv, FirstInv, Calm, UNCHANGED <<build, script, disk>>, SendDir
  PROVE  FirstInv'
<1> DEFINE e == <<"entry", offset>>
<1>1. /\ pc = "dir" /\ UNCHANGED <<response, served, out, goal>>
      /\ \/ offset < goal /\ wbuf' = Append(wbuf, e) /\ At' = "dir" /\ offset' = offset + 1
         \/ ~(offset < goal) /\ wbuf' = Append(wbuf, Text) /\ At' = "finish" /\ offset' = offset
  BY DEF SendDir, SendUnlessAuto, SendThen, At, Text, replyVars
<1>2. At = "dir" /\ At \in Answering /\ served > 0 /\ served \in Nat /\ goal = DirEntries
  <2>1. At = "dir" /\ At \in Answering
    BY <1>1 DEF At, Answering
  <2> QED BY <2>1 DEF ControlInv, Control, WrittenInv, TypeOK
<1>3. Text \in Chunk /\ e \in Chunk /\ offset \in Nat /\ DirEntries \in Nat
  <2>1. offset \in Nat
    BY DEF TypeOK
  <2>2. Text \in Chunk /\ e \in Chunk
    BY <2>1 DEF Text, Chunk
  <2> QED BY <2>1, <2>2, HttpExchangeAssumption
<1> HIDE DEF e
<1>4. ASSUME served = 1
      PROVE  /\ FirstAnswering /\ response = FirstResponse /\ Len(FirstHead) \in Nat /\ HeadLen = Len(FirstHead)
             /\ Produced = Len(FirstHead) + offset /\ offset <= DirEntries
             /\ response.sendDataFunc = "sendDir"
             /\ Len(FirstReply) = Len(FirstHead) + Len(FirstBody)
             /\ Len(FirstBody) = DirEntries + 1
             /\ \A i \in 1 .. DirEntries : FirstBody[i] = <<"entry", i - 1>>
             /\ FirstBody[DirEntries + 1] = Text
  <2>1. /\ FirstAnswering /\ response = FirstResponse /\ Len(FirstHead) \in Nat /\ HeadLen = Len(FirstHead)
        /\ Produced = Len(FirstHead) + offset /\ FirstGoes /\ Len(FirstReply) = Len(FirstHead) + Len(FirstBody)
    BY <1>2, <1>4, FirstNow
  <2>2. response.sendDataFunc = "sendDir" /\ offset <= DirEntries
    BY <1>2, <2>1 DEF FirstGoes
  <2>3. disk \in [OnDisk -> Sizes]
    BY DEF TypeOK
  <2> QED BY <2>1, <2>2, <2>3, BodyParts
<1>5. CASE offset < goal /\ wbuf' = Append(wbuf, e) /\ At' = "dir" /\ offset' = offset + 1
  <2>1. OneChunk(e)
    BY <1>1, <1>5 DEF OneChunk
  <2>2. ASSUME served = 1
        PROVE  /\ FirstAnswering /\ FirstGoes'
               /\ \E k \in 1 .. Len(FirstBody) :
                    /\ Produced + 1 = Len(FirstHead) + k /\ Produced' = Len(FirstHead) + k
                    /\ FirstBody[k] = e
    <3>1. Produced' = HeadLen + offset'
      BY <1>1, <1>5, <2>2, ProducedThen
    <3> DEFINE k == offset + 1
    <3>2. k \in 1 .. DirEntries /\ k \in 1 .. Len(FirstBody)
      BY <1>2, <1>3, <1>4, <1>5, <2>2
    <3>3. FirstBody[k] = e
      <4>1. FirstBody[k] = <<"entry", k - 1>>
        BY <1>4, <2>2, <3>2
      <4>2. k - 1 = offset
        BY <1>3
      <4> QED BY <4>1, <4>2 DEF e
    <3>4. FirstGoes'
      <4>1. FirstResponse' = FirstResponse
        BY SameReply
      <4>2. response' = FirstResponse' /\ response'.sendDataFunc = "sendDir" /\ offset' <= goal'
        BY <1>1, <1>2, <1>3, <1>4, <1>5, <2>2, <4>1
      <4> QED BY <1>5, <4>2 DEF FirstGoes
    <3>5. Produced + 1 = Len(FirstHead) + k /\ Produced' = Len(FirstHead) + k
      <4>1. Len(FirstHead) \in Nat /\ HeadLen = Len(FirstHead) /\ Produced = Len(FirstHead) + offset
        BY <1>4, <2>2
      <4>2. Produced' = Len(FirstHead) + (offset + 1)
        BY <1>5, <3>1, <4>1
      <4> QED BY <1>3, <4>1, <4>2
    <3> QED BY <1>4, <2>2, <3>2, <3>3, <3>4, <3>5
  <2> QED BY <1>1, <1>2, <1>3, <2>1, <2>2, FirstChunk
<1>6. CASE ~(offset < goal) /\ wbuf' = Append(wbuf, Text) /\ At' = "finish" /\ offset' = offset
  <2>1. OneChunk(Text)
    BY <1>1, <1>6 DEF OneChunk
  <2>2. ASSUME served = 1
        PROVE  /\ FirstAnswering /\ FirstGoes'
               /\ \E k \in 1 .. Len(FirstBody) :
                    /\ Produced + 1 = Len(FirstHead) + k /\ Produced' = Len(FirstHead) + k
                    /\ FirstBody[k] = Text
    <3>1. Produced' = Len(FirstReply) /\ ~FirstAnswering'
      <4>1. At' # "prepare" /\ At' \notin Answering
        BY <1>6 DEF Answering
      <4> QED BY <1>1, <2>2, <4>1, ProducedThen
    <3>2. offset = DirEntries
      BY <1>2, <1>3, <1>4, <1>6, <2>2
    <3> DEFINE k == DirEntries + 1
    <3>3. k \in 1 .. Len(FirstBody) /\ FirstBody[k] = Text
      BY <1>3, <1>4, <2>2
    <3>4. Produced + 1 = Len(FirstHead) + k /\ Produced' = Len(FirstHead) + k
      <4>1. Len(FirstReply) = Len(FirstHead) + (DirEntries + 1) /\ Len(FirstHead) \in Nat
            /\ Produced = Len(FirstHead) + DirEntries
        BY <1>4, <2>2, <3>2, Zenon
      <4> DEFINE h == Len(FirstHead)
                 p == Produced
                 q == Len(FirstReply)
                 n == DirEntries
      <4>2. h \in Nat /\ n \in Nat /\ p = h + n /\ q = h + (n + 1) /\ Produced' = q
        BY <1>3, <3>1, <4>1
      <4> HIDE DEF h, p, q, n
      <4>3. p + 1 = h + (n + 1) /\ Produced' = h + (n + 1)
        BY <4>2
      <4> QED BY <4>3 DEF h, p, q, n, k
    <3> QED BY <1>4, <2>2, <3>1, <3>3, <3>4 DEF FirstGoes
  <2> QED BY <1>1, <1>2, <1>3, <2>1, <2>2, FirstChunk
<1> QED BY <1>1, <1>5, <1>6

(* FirstInv holds at the start.                                            *)
LEMMA FirstInit == Init => FirstInv
<1> SUFFICES ASSUME Init PROVE FirstInv
  OBVIOUS
<1>1. pc = "idle" /\ served = 0 /\ out = <<>> /\ wbuf = <<>>
  BY DEF Init
<1>2. Produced = 0 /\ ~FirstAnswering
  BY <1>1 DEF Produced, FirstAnswering
<1>3. FirstReply \in Seq(Chunk)
  BY TypesInit, ReplyParts DEF TypeOK
<1>4. out \o wbuf = SubSeq(FirstReply, 1, Produced)
  <2> DEFINE c == <<>>
             r == FirstReply
  <2>1. r \in Seq(Chunk) /\ c \in Seq(Chunk) /\ Len(c) = 0 /\ c \o c = c
    BY <1>3
  <2> HIDE DEF c, r
  <2>2. 0 \in 0 .. Len(r) /\ IsStart(c, r, 0)
    BY <2>1 DEF IsStart
  <2>3. c = SubSeq(r, 1, 0)
    BY <2>1, <2>2, StartIs
  <2> QED BY <1>1, <1>2, <2>1, <2>3 DEF c, r
<1> QED BY <1>1, <1>2, <1>4 DEF FirstInv, FirstGoes

(* Every step keeps FirstInv.                                              *)
LEMMA FirstStep ==
  ASSUME TypeOK, ControlInv, ParserInv, BufferInv, FirstInv, [Next]_vars
  PROVE  FirstInv'
<1> SUFFICES ASSUME Calm' PROVE FirstInv'
  BY DEF FirstInv
<1>1. TypeOK'
  BY TypesStep
<1>2. Calm /\ UNCHANGED <<build, script, disk>>
  BY CalmBefore
<1>3. CASE \/ ClientSends \/ ClientLeaves \/ ClientReads \/ FileChanges \/ UNCHANGED vars
           \/ Poll \/ EndScan \/ processRead \/ processReadReturns \/ processWrite \/ processWriteReturns
           \/ ParseLine \/ ParseHead \/ SendChunk \/ bufferSendDataReturns \/ SendFails
  BY <1>2, <1>3, FirstScan
<1>4. CASE ParseFails
  BY <1>2, <1>4, FirstRefuses
<1>5. CASE processHttpRequest
  BY <1>1, <1>2, <1>5, FirstServed
<1>6. CASE PrepareMsg
  BY <1>1, <1>2, <1>6, FirstHeadWritten
<1>7. CASE OpenFile
  BY <1>1, <1>2, <1>7, FirstOpens
<1>8. CASE SendFile
  BY <1>1, <1>2, <1>8, FirstFileSent
<1>9. CASE sendFileReturns
  BY <1>1, <1>2, <1>9, FirstFileEnds
<1>10. CASE SendDir
  BY <1>1, <1>2, <1>10, FirstDirSent
<1> QED BY <1>3, <1>4, <1>5, <1>6, <1>7, <1>8, <1>9, <1>10 DEF Next, Server

(* No more is produced than the reply has. *)
LEMMA ProducedFits ==
  ASSUME TypeOK, ControlInv, FirstInv, Calm
  PROVE  Produced \in Nat /\ Produced <= Len(FirstReply) /\ FirstReply \in Seq(Chunk)
<1>1. disk \in [OnDisk -> Sizes] /\ offset \in Nat /\ (offset > 0 => offset <= goal) /\ served \in Nat
  BY DEF TypeOK
<1>2. FirstReply \in Seq(Chunk) /\ Len(FirstReply) \in Nat
  <2>1. FirstReply \in Seq(Chunk)
    BY <1>1, ReplyParts
  <2> QED BY <2>1
<1>3. Produced \in Nat
  BY ProducedType DEF FirstInv
<1>4. CASE ~FirstAnswering \/ At = "prepare"
  <2>1. Produced \in {0, Len(FirstReply)}
    BY <1>4 DEF Produced, FirstAnswering, Answering
  <2> QED BY <1>2, <1>3, <2>1
<1>5. CASE FirstAnswering /\ At # "prepare"
  <2>1. served = 1 /\ At \in {"open", "file", "dir"} /\ At \in Answering
    BY <1>5 DEF FirstAnswering, Answering
  <2>2. /\ response = FirstResponse /\ FirstGoes /\ Len(FirstHead) \in Nat /\ Len(FirstBody) \in Nat /\ FirstAnswering
        /\ Len(FirstReply) = Len(FirstHead) + Len(FirstBody)
        /\ At = "open" => Produced = Len(FirstHead)
        /\ At \in {"file", "dir"} => Produced = Len(FirstHead) + offset
    BY <2>1, FirstNow
  <2>3. At \in {"file", "dir"} => offset <= Len(FirstBody)
    <3>1. CASE At = "file"
      <4> DEFINE size == disk[FirstResponse.fileName]
      <4>1. size # Absent /\ goal = AsInt(size) /\ FirstResponse.sendDataFunc = "sendFile"
        BY <2>2, <3>1 DEF FirstGoes, ControlInv, Control, WrittenInv
      <4>2. AsInt(size) \in Int /\ Len(FirstBody) = (IF AsInt(size) < 0 THEN 0 ELSE AsInt(size))
        BY <1>1, <4>1, BodyParts
      <4> HIDE DEF size
      <4> QED BY <1>1, <4>1, <4>2
    <3>2. CASE At = "dir"
      <4>1. FirstResponse.sendDataFunc = "sendDir" /\ offset <= goal /\ goal = DirEntries
        BY <2>2, <3>2 DEF FirstGoes, ControlInv, Control, WrittenInv
      <4>2. DirEntries \in Nat /\ Len(FirstBody) = DirEntries + 1
        BY <1>1, <4>1, BodyParts
      <4> QED BY <1>1, <4>1, <4>2
    <3> QED BY <3>1, <3>2
  <2>4. CASE At = "open"
    BY <2>2, <2>4, <1>2
  <2>5. CASE At \in {"file", "dir"}
    BY <1>1, <1>3, <1>2, <2>2, <2>3, <2>5
  <2> QED BY <2>1, <2>4, <2>5
<1> QED BY <1>2, <1>3, <1>4, <1>5

(* Of two starts of one sequence, one is a start of the other. *)
LEMMA StartsCompare ==
  ASSUME NEW S, NEW r \in Seq(S), NEW o \in Seq(S), NEW w \in Seq(S),
         IsPrefix(r, o \o w) \/ \E k \in 0 .. Len(r) : o \o w = SubSeq(r, 1, k)
  PROVE  IsPrefix(o, r) \/ IsPrefix(r, o)
<1> DEFINE c == o \o w
<1>1. c \in Seq(S) /\ IsConcat(c, o, w)
  BY ConcatParts
<1>2. IsPrefix(r, c) \/ \E k \in 0 .. Len(r) : c = SubSeq(r, 1, k)
  OBVIOUS
<1> HIDE DEF c
<1>3. Len(r) \in Nat /\ Len(o) \in Nat /\ Len(w) \in Nat
  OBVIOUS
<1>4. CASE IsPrefix(r, c)
  <2>1. IsStart(r, c, Len(r))
    BY <1>1, <1>4, PrefixIs
  <2>2. CASE Len(o) <= Len(r)
    <3>1. IsStart(o, r, Len(o))
      BY <1>1, <1>3, <2>1, <2>2 DEF IsStart, IsConcat
    <3> QED BY <3>1, PrefixIs
  <2>3. CASE ~(Len(o) <= Len(r))
    <3>1. IsStart(r, o, Len(r))
      BY <1>1, <1>3, <2>1, <2>3 DEF IsStart, IsConcat
    <3> QED BY <3>1, PrefixIs
  <2> QED BY <2>2, <2>3
<1>5. CASE \E k \in 0 .. Len(r) : c = SubSeq(r, 1, k)
  <2>1. PICK k \in 0 .. Len(r) : c = SubSeq(r, 1, k)
    BY <1>5
  <2>2. IsStart(c, r, k)
    BY <1>1, <2>1, StartIs
  <2>3. IsStart(o, r, Len(o))
    BY <1>1, <1>3, <2>1, <2>2 DEF IsStart, IsConcat
  <2> QED BY <2>3, PrefixIs
<1> QED BY <1>2, <1>4, <1>5

-----------------------------------------------------------------------------
(***************************************************************************)
(* The order of the reply, and its being whole when the connection is      *)
(* released.                                                               *)
(***************************************************************************)
(* After a reset the wire stays as it is. *)
ReplyInv == client = "reset" => ReplyInOrder

(* ReplyInOrder, with or without a reset.                                  *)
LEMMA ReplyNow == TypeOK /\ ControlInv /\ FirstInv /\ ReplyInv => ReplyInOrder
<1> SUFFICES ASSUME TypeOK, ControlInv, FirstInv, client # "reset",
                    WellFormed(First), ~changed, ~Refused, build = "flag" => ~BodySent
             PROVE  IsPrefix(out, FirstReply) \/ IsPrefix(FirstReply, out)
  BY DEF ReplyInv, ReplyInOrder
<1>1. Calm /\ InPlace
  BY DEF Calm, InPlace
<1>2. Produced \in 0 .. Len(FirstReply) /\ FirstReply \in Seq(Chunk)
  BY <1>1, ProducedFits
<1>3. IsPrefix(FirstReply, out \o wbuf) \/ out \o wbuf = SubSeq(FirstReply, 1, Produced)
  BY <1>1 DEF FirstInv
<1>4. out \in Seq(Chunk) /\ wbuf \in Seq(Chunk)
  BY DEF TypeOK
<1>5. IsPrefix(FirstReply, out \o wbuf) \/ \E k \in 0 .. Len(FirstReply) : out \o wbuf = SubSeq(FirstReply, 1, k)
  BY <1>2, <1>3
<1> DEFINE r == FirstReply
<1>6. r \in Seq(Chunk) /\ (IsPrefix(r, out \o wbuf) \/ \E k \in 0 .. Len(r) : out \o wbuf = SubSeq(r, 1, k))
  BY <1>2, <1>5
<1> HIDE DEF r
<1>7. IsPrefix(out, r) \/ IsPrefix(r, out)
  BY <1>4, <1>6, StartsCompare
<1> QED BY <1>7 DEF r

(* Nothing that is written is taken back; after a reset nothing more goes  *)
(* on the wire.                                                            *)
LEMMA WrittenStays ==
  ASSUME TypeOK, [Next]_vars, client' = "reset"
  PROVE  Written \subseteq Written' /\ out' = out /\ build' = build /\ script' = script /\ (changed => changed')
         /\ (~changed' => disk' = disk)
<1> USE DEF Fixed, Others, clientVars, diskVars, readVars, replyVars, loopVars
<1>1. out \in Seq(Chunk) /\ wbuf \in Seq(Chunk) /\ response \in HttpResponse
  BY DEF TypeOK
<1>2. ASSUME NEW x \in Chunk, wbuf' = Append(wbuf, x), out' = out PROVE Written \subseteq Written'
  <2>1. Range(Append(wbuf, x)) = Range(wbuf) \cup {x}
    BY <1>1, RangeOf
  <2> QED BY <1>2, <2>1 DEF Written
<1>3. CASE ClientSends \/ ClientLeaves \/ ClientReads \/ FileChanges \/ UNCHANGED vars
  <2>1. UNCHANGED <<out, wbuf, build, script>> /\ (changed => changed') /\ (~changed' => disk' = disk)
    BY <1>3 DEF ClientSends, ClientLeaves, ClientReads, FileChanges, vars
  <2> QED BY <2>1 DEF Written
<1>4. CASE Server
  <2>1. UNCHANGED <<build, script, client, disk, changed>>
    BY <1>4 DEF Server, Poll, EndScan, processRead, processReadReturns, processWrite, processWriteReturns,
                ParseLine, ParseHead, ParseFails, processHttpRequest, PrepareMsg, SendChunk,
                bufferSendDataReturns, SendFails, OpenFile, SendFile, sendFileReturns, SendDir
  <2>2. ~SendChunk /\ ~SendFile
    BY <2>1 DEF SendChunk, SendFile
  <2>3. CASE \/ Poll \/ EndScan \/ processRead \/ processReadReturns \/ processWrite \/ processWriteReturns
             \/ ParseLine \/ ParseHead \/ processHttpRequest \/ bufferSendDataReturns \/ SendFails \/ sendFileReturns
    <3>1. UNCHANGED <<out, wbuf>>
      BY <2>3 DEF Poll, EndScan, processRead, processReadReturns, processWrite, processWriteReturns,
                  ParseLine, ParseHead, processHttpRequest, bufferSendDataReturns, SendFails, sendFileReturns
    <3> QED BY <2>1, <3>1 DEF Written
  <2>4. CASE ParseFails
    <3>1. out' = out /\ wbuf' = Append(wbuf, Error400) /\ Error400 \in Chunk
      BY <2>4 DEF ParseFails, Error400, Chunk
    <3> QED BY <1>2, <2>1, <3>1
  <2>5. CASE PrepareMsg
    <3> DEFINE m == httpResponsePrepareMsg(response)
    <3>1. out' = out /\ wbuf' = wbuf \o m /\ m \in Seq(Chunk) /\ Error400 \in Chunk
      BY <1>1, <2>5, PrepareType DEF PrepareMsg, Error400, Chunk
    <3> HIDE DEF m
    <3>2. Range(wbuf \o m) = Range(wbuf) \cup Range(m)
      BY <1>1, <3>1, RangeOf
    <3> QED BY <2>1, <3>1, <3>2 DEF Written
  <2>6. CASE OpenFile
    <3>1. out' = out /\ Text \in Chunk /\ (wbuf' = Append(wbuf, Text) \/ wbuf' = wbuf)
      BY <2>6 DEF OpenFile, Text, Chunk
    <3>2. CASE wbuf' = wbuf
      BY <2>1, <3>1, <3>2 DEF Written
    <3>3. CASE wbuf' = Append(wbuf, Text)
      BY <1>2, <2>1, <3>1, <3>3
    <3> QED BY <3>1, <3>2, <3>3
  <2>7. CASE SendDir
    <3> DEFINE e == <<"entry", offset>>
    <3>1. Text \in Chunk /\ e \in Chunk
      <4>1. offset \in Nat
        BY DEF TypeOK
      <4> QED BY <4>1 DEF Text, Chunk
    <3>2. out' = out /\ (wbuf' = Append(wbuf, Text) \/ wbuf' = Append(wbuf, e))
      BY <2>7 DEF SendDir, Text
    <3> HIDE DEF e
    <3> QED BY <1>2, <2>1, <3>1, <3>2
  <2> QED BY <1>4, <2>2, <2>3, <2>4, <2>5, <2>6, <2>7 DEF Server
<1> QED BY <1>3, <1>4 DEF Next

(* Every step keeps ReplyInv.                                              *)
LEMMA ReplyStep ==
  ASSUME TypeOK, ControlInv, FirstInv, ReplyInv, [Next]_vars
  PROVE  ReplyInv'
<1> SUFFICES ASSUME client' = "reset", WellFormed(First)', ~changed', ~Refused', (build' = "flag" => ~BodySent')
             PROVE  IsPrefix(out', FirstReply') \/ IsPrefix(FirstReply', out')
  BY DEF ReplyInv, ReplyInOrder
<1>1. TypeOK' /\ ReplyInOrder
  BY TypesStep, ReplyNow
<1>2. Written \subseteq Written' /\ UNCHANGED <<out, build, script, disk>> /\ ~changed
  BY WrittenStays
<1>3. ~Refused
  <2>1. out \in Seq(Chunk) /\ wbuf \in Seq(Chunk) /\ out' \in Seq(Chunk) /\ wbuf' \in Seq(Chunk)
    BY <1>1 DEF TypeOK
  <2>2. Refused <=> Error400 \in Range(out) \cup Range(wbuf)
    BY ZenonT(30),<2>1, RefusedIs DEF Refused
  <2>3. Refused' <=> Error400 \in Range(out') \cup Range(wbuf')
    BY ZenonT(30),<2>1, RefusedIs DEF Refused
  <2> QED BY <1>2, <2>2, <2>3 DEF Written
<1>4. WellFormed(First) /\ (build = "flag" => ~BodySent) /\ FirstReply' = FirstReply
  BY <1>2, SameReply DEF First, BodySent
<1> QED BY <1>1, <1>2, <1>3, <1>4 DEF ReplyInOrder

(* A connection is closed only in the cases ReleasedWhole names.           *)
LEMMA ReleasedStep ==
  ASSUME TypeOK, ControlInv, BufferInv, FirstInv, ReleasedWhole, [Next]_vars
  PROVE  ReleasedWhole'
<1>1. CASE UNCHANGED vars
  <2>1. UNCHANGED <<pc, out, served, taken, script, disk, changed, client>>
    BY <1>1 DEF vars, clientVars, diskVars, readVars, replyVars
  <2> QED BY <2>1, SameReply DEF ReleasedWhole, First
<1>2. CASE Next
  <2> SUFFICES ASSUME pc' = "closed" PROVE ReleasedWhole'
    BY DEF ReleasedWhole
  <2>1. (processReadReturns \/ processWriteReturns) /\ tcpConnectionDestory
    BY <1>2, WhoEnds
  <2>2. UNCHANGED <<out, served, taken, script, disk, changed, client>>
    BY <2>1 DEF processReadReturns, processWriteReturns, Fixed, clientVars, diskVars, readVars, replyVars
  <2>3. wbuf = <<>> /\ Written = Range(out) /\ served \in Nat
    <3>1. wbuf = <<>>
      BY <2>1 DEF tcpConnectionDestory
    <3>2. Range(<<>>) = {}
      BY DEF Range
    <3> QED BY <3>1, <3>2 DEF Written, TypeOK
  <2>4. Error400 \in Range(out) \/ served > 0 \/ taken = 0
    <3>1. CASE processWriteReturns
      <4>1. At = "written"
        BY <3>1 DEF processWriteReturns, At
      <4> QED BY <2>3, <4>1 DEF BufferInv
    <3>2. CASE processReadReturns
      <4>1. pc = "finish" /\ ~AutoConn
        BY <2>1, <3>2 DEF processReadReturns
      <4> QED BY <2>3, <4>1 DEF ControlInv, Control, WrittenInv
    <3> QED BY <2>1, <3>1, <3>2
  <2>5. ASSUME served > 0, Calm PROVE Range(FirstReply) \subseteq Range(out)
    <3>1. At \in {"finish", "written"}
      BY <2>1 DEF processReadReturns, processWriteReturns, At
    <3>2. Produced = Len(FirstReply)
      <4>1. served # 0
        BY <2>3, <2>5
      <4> QED BY <3>1, <4>1 DEF Produced, FirstAnswering, Answering
    <3>3. FirstReply \in Seq(Chunk)
      BY ReplyParts DEF TypeOK
    <3>4. \A i \in 1 .. Len(FirstReply) : FirstReply[i] \in Range(out)
      BY <2>3, <2>5, <3>2 DEF FirstInv
    <3> QED BY <3>3, <3>4 DEF Range
  <2>6. \/ Error400 \in Range(out)
        \/ served = 0 /\ taken = 0
        \/ served > 0 /\ (Calm => Range(FirstReply) \subseteq Range(out))
    BY <2>3, <2>4, <2>5
  <2>7. FirstReply' = FirstReply /\ First' = First
    BY <2>2, SameReply DEF First
  <2> QED BY <2>2, <2>6, <2>7 DEF ReleasedWhole, Calm, Error400
<1> QED BY <1>1, <1>2

-----------------------------------------------------------------------------
(***************************************************************************)
(* The theorems.                                                           *)
(***************************************************************************)
(* The inductive invariant.                                                *)
IInv ==
  /\ TypeOK /\ ControlInv /\ ParserInv /\ BufferInv /\ FirstInv
  /\ ReplyInv /\ ReleasedWhole /\ StrandedOnlyWhen /\ UndefinedOnlyWhen

(* IInv holds at the start.                                                *)
LEMMA ExchangeStarts == Init => IInv
<1> SUFFICES ASSUME Init PROVE IInv
  OBVIOUS
<1>1. TypeOK /\ ControlInv /\ ParserInv /\ BufferInv /\ FirstInv
  BY TypesInit, ControlInit, NothingParsed, BufferInit, FirstInit
<1>2. pc = "idle" /\ client = "open"
  BY DEF Init
<1> QED BY <1>1, <1>2 DEF IInv, ReplyInv, ReleasedWhole, StrandedOnlyWhen, UndefinedOnlyWhen

(* Every step keeps IInv.                                                  *)
LEMMA ExchangeGoesOn == IInv /\ [Next]_vars => IInv'
<1> SUFFICES ASSUME IInv, [Next]_vars PROVE IInv'
  OBVIOUS
<1>1. /\ TypeOK /\ ControlInv /\ ParserInv /\ BufferInv /\ FirstInv
      /\ ReplyInv /\ ReleasedWhole /\ StrandedOnlyWhen /\ UndefinedOnlyWhen
  BY DEF IInv
<1>2. TypeOK' /\ ControlInv' /\ ParserInv' /\ BufferInv'
  BY <1>1, TypesStep, ControlStep, ParserStep, BufferStep
<1>3. FirstInv' /\ ReplyInv'
  BY <1>1, FirstStep, ReplyStep
<1>4. ReleasedWhole' /\ StrandedOnlyWhen' /\ UndefinedOnlyWhen'
  BY <1>1, ReleasedStep, StrandedStep, UndefinedStep
<1> QED BY <1>2, <1>3, <1>4 DEF IInv

(* IInv is an invariant of the exchange.                                   *)
THEOREM ExchangeInductive == Spec => []IInv
BY ExchangeStarts, ExchangeGoesOn, PTL DEF Spec

(* Every variable of the exchange keeps its type: no read behind the bytes *)
(* received, no header array overrun without the undefined state, no       *)
(* offset behind the end of the file.                                      *)
THEOREM ExchangeTypes == Spec => []TypeOK
<1>1. IInv => TypeOK
  BY DEF IInv
<1> QED BY <1>1, ExchangeInductive, PTL

(* What parseHttpRequest hands to processHttpRequest is the request that   *)
(* was sent, with all its headers, however its bytes arrive, for any       *)
(* number of well-formed requests of any length.                           *)
THEOREM RequestsParsedAsSent == Spec => []ParsedAsSent
<1>1. IInv => ParsedAsSent
  BY ParsedByInv DEF IInv
<1> QED BY <1>1, ExchangeInductive, PTL

(* What a client gets is its reply in order: head, then body, nothing      *)
(* twice, nothing left out, for any files and any request; in the flag's   *)
(* build, until a file overtakes its head.                                 *)
THEOREM RepliesInOrder == Spec => []ReplyInOrder
<1>1. IInv => ReplyInOrder
  BY ReplyNow DEF IInv
<1> QED BY <1>1, ExchangeInductive, PTL

(* tcpConnectionDestory releases a connection only with its answer on the  *)
(* wire, or with the 400, or before anything was read.                     *)
THEOREM ReleasedWithAnswer == Spec => []ReleasedWhole
<1>1. IInv => ReleasedWhole
  BY DEF IInv
<1> QED BY <1>1, ExchangeInductive, PTL

(* Removed from the dispatcher and not released is only a connection with  *)
(* a request cut in two, or not well formed, with more behind the first    *)
(* request, or one that its client has reset.                              *)
THEOREM StrandedForAReason == Spec => []StrandedOnlyWhen
<1>1. IInv => StrandedOnlyWhen
  BY DEF IInv
<1> QED BY <1>1, ExchangeInductive, PTL

(* The parser leaves defined behaviour only on requests that are not well  *)
(* formed, and on more headers than its arrays hold.                       *)
THEOREM UndefinedForAReason == Spec => []UndefinedOnlyWhen
<1>1. IInv => UndefinedOnlyWhen
  BY DEF IInv
<1> QED BY <1>1, ExchangeInductive, PTL

-----------------------------------------------------------------------------
(***************************************************************************)
(* decodeMsg stays inside its array.  The writing place never overtakes    *)
(* the reading one, so the terminator the loop waits for is not            *)
(* overwritten; and an escape is stepped over only if it ends before it.   *)
(***************************************************************************)
(* Both places are in the array, which ends with its terminator. *)
Inside ==
  /\ msg \in Seq(Nat) /\ Len(msg) \in Nat \ {0}
  /\ msg[Len(msg)] = 0
  /\ from \in 1 .. Len(msg)
  /\ to \in 1 .. from

(* A character before the terminator has a place behind it; an escape has  *)
(* three.                                                                  *)
LEMMA BeforeTheEnd ==
  ASSUME Inside, msg[from] # 0
  PROVE  /\ from + 1 <= Len(msg)
         /\ Escape(msg, from) => from + 3 <= Len(msg)
<1>1. from + 1 <= Len(msg)
  BY DEF Inside
<1>2. ASSUME Escape(msg, from) PROVE from + 3 <= Len(msg)
  <2>1. msg[from + 1] # 0 /\ msg[from + 2] # 0
    BY <1>2 DEF Escape, isxdigit
  <2>2. from + 1 # Len(msg) /\ from + 2 # Len(msg)
    BY <2>1 DEF Inside
  <2> QED BY <1>1, <2>2 DEF Inside
<1> QED BY <1>1, <1>2

(* What an escape stands for is a number. *)
LEMMA EscapedIsNumber ==
  ASSUME Inside, msg[from] # 0, Escape(msg, from)
  PROVE  Escaped(msg, from) \in Nat
<1>1. from + 1 \in 1 .. Len(msg) /\ from + 2 \in 1 .. Len(msg)
  BY BeforeTheEnd DEF Inside
<1>2. msg[from + 1] \in Nat /\ msg[from + 2] \in Nat
  BY <1>1 DEF Inside
<1>3. \A c \in Nat : isxdigit(c) => hexToDec(c) \in Nat
  BY DEF isxdigit, hexToDec
<1> QED BY <1>2, <1>3 DEF Escaped, Escape

(* decodeMsg never reads or writes behind the terminator of the URL, for   *)
(* URLs of any length and any characters.                                  *)
THEOREM StaysInside ==
  ASSUME Char \subseteq Nat, MaxLen \in Nat
  PROVE  DecodeSpec => []Inside
<1>1. DecodeInit => Inside
  <2> SUFFICES ASSUME DecodeInit PROVE Inside
    OBVIOUS
  <2>1. PICK n \in 0 .. MaxLen : text \in [1 .. n -> Char]
    BY DEF DecodeInit
  <2>2. text \in [1 .. n -> Nat] /\ n \in Nat
    <3>1. \A i \in 1 .. n : text[i] \in Nat
      BY <2>1
    <3>2. text = [i \in 1 .. n |-> text[i]] /\ n \in Nat
      BY <2>1
    <3> QED BY <3>1, <3>2
  <2>3. text \in Seq(Nat) /\ Len(text) = n
    BY <2>2, SeqDef, LenProperties
  <2> QED BY <2>2, <2>3 DEF DecodeInit, Inside
<1>2. Inside /\ [Decode]_decodeVars => Inside'
  <2> SUFFICES ASSUME Inside, [Decode]_decodeVars PROVE Inside'
    OBVIOUS
  <2>1. CASE UNCHANGED decodeVars
    BY <2>1 DEF decodeVars, Inside
  <2>2. CASE Decode
    <3>1. msg[from] # 0 /\ from + 1 <= Len(msg) /\ to < Len(msg)
      BY <2>2, BeforeTheEnd DEF Decode, Inside
    <3>2. \E c \in Nat : msg' = [msg EXCEPT ![to] = c]
      <4>1. msg[from] \in Nat
        BY DEF Inside
      <4> QED BY <2>2, <3>1, <4>1, EscapedIsNumber DEF Decode
    <3>3. /\ msg' \in Seq(Nat) /\ Len(msg') = Len(msg)
          /\ msg'[Len(msg)] = msg[Len(msg)]
      BY <3>1, <3>2 DEF Inside
    <3>4. from' \in 1 .. Len(msg) /\ to' \in 1 .. from'
      <4>1. /\ to' = to + 1
            /\ from' \in {from + 1, from + 3}
            /\ from' <= Len(msg)
        BY <2>2, <3>1, BeforeTheEnd DEF Decode
      <4> QED BY <4>1 DEF Inside
    <3> QED BY <3>3, <3>4 DEF Inside
  <2> QED BY <2>1, <2>2
<1> QED BY <1>1, <1>2, PTL DEF DecodeSpec
=============================================================================
