---------------------------- MODULE CodecProofs ----------------------------
(***************************************************************************)
(* What Codecs says of the three formats, proved for every base, width     *)
(* and set of messages, names and responses.                               *)
(*                                                                         *)
(* The models of the formats are built from recursive functions and from   *)
(* FlattenSeq.  Induction is done with sets: what a recursive function     *)
(* computes up to n is a set of numbers that holds 0 and, with a number,   *)
(* the next one (UpTo), and such a function exists (Iteration) because     *)
(* every step stays in one set of values.                                  *)
(***************************************************************************)
EXTENDS Codecs, SequenceTheorems, WellFoundedInduction, TLAPS

-----------------------------------------------------------------------------
(* Induction and recursion.                                                *)

\* A set of numbers has a least one.
LEMMA LeastNat ==
  ASSUME NEW T, T \subseteq Nat, T # {}
  PROVE  \E x \in T : \A y \in T : x <= y
<1>. DEFINE R == OpToRel(<, Nat)
<1>1. IsWellFoundedOn(R, Nat)
  BY NatLessThanWellFounded
<1>2. \A x, y \in Nat : x < y => <<x, y>> \in R
  BY DEF OpToRel
<1>. HIDE DEF R
<1>3. PICK x \in T : \A y \in T : ~(<<y, x>> \in R)
  BY <1>1, WFMin, Zenon
<1>4. \A y \in T : ~(y < x)
  BY <1>2, <1>3
<1>. QED  BY <1>4

\* Induction over the numbers, with a set in the place of a predicate.
LEMMA SetInduction ==
  ASSUME NEW S, 0 \in S, \A n \in Nat : n \in S => n + 1 \in S
  PROVE  Nat \subseteq S
<1>. SUFFICES ASSUME Nat \ S # {} PROVE FALSE
  OBVIOUS
<1>1. PICK x \in Nat \ S : \A y \in Nat \ S : x <= y
  BY LeastNat
<1>2. x # 0 /\ x - 1 \in Nat /\ x - 1 \in S
  BY <1>1
<1>. QED  BY <1>1, <1>2

\* The same up to a bound.
LEMMA UpTo ==
  ASSUME NEW N \in Nat, NEW S, 0 \in S,
         \A n \in 0..(N - 1) : n \in S => n + 1 \in S
  PROVE  0..N \subseteq S
<1>. DEFINE T == {n \in Nat : n <= N => n \in S}
<1>1. 0 \in T
  OBVIOUS
<1>2. \A n \in Nat : n \in T => n + 1 \in T
  OBVIOUS
<1>3. Nat \subseteq T
  <2>. HIDE DEF T
  <2>. QED  BY <1>1, <1>2, SetInduction
<1>. QED  BY <1>3

\* g starts with a and takes a step at every k.
Iterates(g, N, a, step) == g[0] = a /\ \A k \in 1..N : g[k] = step[<<k, g[k - 1]>>]

\* A function defined by recursion over 0..N exists.
LEMMA Iteration ==
  ASSUME NEW N \in Nat, NEW X, NEW a \in X, NEW step \in [(1..N) \X X -> X]
  PROVE  \E g \in [0..N -> X] : Iterates(g, N, a, step)
<1>. DEFINE Upto(n, g) == g[0] = a /\ \A k \in 1..n : g[k] = step[<<k, g[k - 1]>>]
            Good(n) == \E g \in [0..n -> X] : Upto(n, g)
            T == {n \in 0..N : Good(n)}
<1>1. Good(0)
  <2>1. [k \in 0..0 |-> a] \in [0..0 -> X] /\ Upto(0, [k \in 0..0 |-> a])
    OBVIOUS
  <2>. HIDE DEF Upto
  <2>. QED  BY <2>1
<1>2. ASSUME NEW n \in 0..(N - 1), Good(n) PROVE Good(n + 1)
  <2>1. PICK g \in [0..n -> X] : Upto(n, g)
    BY <1>2
  <2>. DEFINE y == step[<<n + 1, g[n]>>]
              h == [k \in 0..(n + 1) |-> IF k = n + 1 THEN y ELSE g[k]]
  <2>2. y \in X
    OBVIOUS
  <2>3. h \in [0..(n + 1) -> X]
    <3>. HIDE DEF y
    <3>. QED  BY <2>2
  <2>4. h[0] = a
    BY <2>1
  <2>5. ASSUME NEW k \in 1..(n + 1) PROVE h[k] = step[<<k, h[k - 1]>>]
    <3>1. CASE k = n + 1
      <4>1. h[n + 1] = y /\ h[n] = g[n]
        OBVIOUS
      <4>2. k - 1 = n
        BY <3>1
      <4>. HIDE DEF h
      <4>. QED  BY <3>1, <4>1, <4>2
    <3>2. CASE k # n + 1
      <4>1. k \in 1..n /\ h[k] = g[k] /\ h[k - 1] = g[k - 1]
        BY <3>2
      <4>. QED  BY <4>1, <2>1
    <3>. QED  BY <3>1, <3>2
  <2>6. Upto(n + 1, h)
    <3>. HIDE DEF h
    <3>. QED  BY <2>4, <2>5
  <2>. HIDE DEF h, Upto
  <2>. QED  BY <2>3, <2>6
<1>3. 0..N \subseteq T
  <2>. HIDE DEF Good
  <2>1. 0 \in T /\ \A n \in 0..(N - 1) : n \in T => n + 1 \in T
    BY <1>1, <1>2
  <2>. HIDE DEF T
  <2>. QED  BY <2>1, UpTo
<1>4. Good(N)
  <2>. HIDE DEF Good
  <2>. QED  BY <1>3
<1>. QED  BY <1>4 DEF Iterates

-----------------------------------------------------------------------------
(* Concatenation.                                                          *)

\* g concatenates the first sequences.
Flattens(g, seqs, N) ==
    /\ g[1] = seqs[1]
    /\ \A i \in 2..N : g[i] = g[i - 1] \o seqs[i]

\* FlattenSeq, sequence by sequence.
LEMMA FlattenNonempty ==
  ASSUME NEW S, NEW seqs \in Seq(Seq(S)), NEW N \in Nat \ {0}, Len(seqs) = N
  PROVE  \E g \in [1..N -> Seq(S)] : Flattens(g, seqs, N) /\ FlattenSeq(seqs) = g[N]
<1>. DEFINE step == [p \in (1..N) \X Seq(S) |->
                        IF p[1] = 1 THEN seqs[1] ELSE p[2] \o seqs[p[1]]]
            F == CHOOSE f : f = [i \in 1..N |-> IF i = 1 THEN seqs[i] ELSE f[i - 1] \o seqs[i]]
<1>1. /\ \A i \in 1..N : seqs[i] \in Seq(S)
      /\ 1 \in 1..N /\ <<>> \in Seq(S)
  OBVIOUS
<1>2. FlattenSeq(seqs) = F[N]
  BY DEF FlattenSeq
<1>3. step \in [(1..N) \X Seq(S) -> Seq(S)]
  BY <1>1
<1>4. PICK G \in [0..N -> Seq(S)] : Iterates(G, N, <<>>, step)
  <2>. HIDE DEF step
  <2>1. N \in Nat
    OBVIOUS
  <2>. QED  BY <1>1, <1>3, <2>1, Iteration, Zenon
<1>. DEFINE g == [i \in 1..N |-> G[i]]
<1>5. ASSUME NEW i \in 1..N
      PROVE  g[i] = IF i = 1 THEN seqs[i] ELSE g[i - 1] \o seqs[i]
  <2>1. G[i] = IF i = 1 THEN seqs[1] ELSE G[i - 1] \o seqs[i]
    <3>1. G[i - 1] \in Seq(S)
      OBVIOUS
    <3>2. G[i] = step[<<i, G[i - 1]>>]
      <4>. HIDE DEF step
      <4>. QED  BY <1>4 DEF Iterates
    <3>. QED  BY <3>1, <3>2
  <2>. QED  BY <2>1
<1>6. g = [i \in 1..N |-> IF i = 1 THEN seqs[i] ELSE g[i - 1] \o seqs[i]]
  <2>1. g = [i \in 1..N |-> g[i]]
    OBVIOUS
  <2>. HIDE DEF g
  <2>. QED  BY <1>5, <2>1
<1>7. F = [i \in 1..N |-> IF i = 1 THEN seqs[i] ELSE F[i - 1] \o seqs[i]]
  <2>. HIDE DEF g
  <2>. QED  BY <1>6, Zenon
<1>. HIDE DEF F
<1>8. ASSUME NEW i \in 1..N
      PROVE  F[i] = IF i = 1 THEN seqs[i] ELSE F[i - 1] \o seqs[i]
  BY <1>7, Zenon
<1>9. F[1] = seqs[1] /\ \A i \in 2..N : F[i] = F[i - 1] \o seqs[i]
  <2>1. F[1] = seqs[1]
    BY <1>8, <1>1
  <2>2. ASSUME NEW i \in 2..N PROVE F[i] = F[i - 1] \o seqs[i]
    <3>1. i \in 1..N /\ i # 1
      OBVIOUS
    <3>. QED  BY <3>1, <1>8
  <2>. QED  BY <2>1, <2>2
<1>10. F \in [1..N -> Seq(S)]
  <2>. DEFINE T == {n \in 0..N : n # 0 => F[n] \in Seq(S)}
  <2>1. 0 \in T
    OBVIOUS
  <2>2. ASSUME NEW n \in 0..(N - 1), n \in T PROVE n + 1 \in T
    <3>1. CASE n = 0
      BY <3>1, <1>9, <1>1
    <3>2. CASE n # 0
      <4>1. F[n] \in Seq(S) /\ n + 1 \in 2..N /\ n + 1 \in 1..N /\ (n + 1) - 1 = n
        BY <3>2, <2>2
      <4>2. F[n + 1] = F[n] \o seqs[n + 1]
        BY <4>1, <1>9
      <4>3. seqs[n + 1] \in Seq(S)
        BY <4>1, <1>1
      <4>4. F[n + 1] \in Seq(S)
        BY <4>1, <4>2, <4>3
      <4>. QED  BY <4>1, <4>4
    <3>. QED  BY <3>1, <3>2
  <2>3. 0..N \subseteq T
    <3>. HIDE DEF T
    <3>. QED  BY <2>1, <2>2, UpTo
  <2>4. \A i \in 1..N : F[i] \in Seq(S)
    BY <2>3
  <2>5. F = [i \in 1..N |-> F[i]]
    BY <1>7
  <2>. QED  BY <2>4, <2>5
<1>. QED  BY <1>2, <1>9, <1>10 DEF Flattens

\* Nothing concatenated is empty.
LEMMA FlattenEmpty == FlattenSeq(<<>>) = <<>>
BY DEF FlattenSeq

\* A concatenation has the elements its parts have.
LEMMA FlattenType ==
  ASSUME NEW S, NEW seqs \in Seq(Seq(S))
  PROVE  FlattenSeq(seqs) \in Seq(S)
<1>1. CASE seqs = <<>>
  <2>1. <<>> \in Seq(S)
    OBVIOUS
  <2>. QED  BY <1>1, <2>1, FlattenEmpty
<1>2. CASE seqs # <<>>
  <2>1. PICK N \in Nat \ {0} : Len(seqs) = N
    BY <1>2, EmptySeq, LenProperties
  <2>2. PICK g \in [1..N -> Seq(S)] : FlattenSeq(seqs) = g[N]
    BY <2>1, FlattenNonempty, ZenonT(40)
  <2>. QED  BY <2>2
<1>. QED  BY <1>1, <1>2

\* The first n elements agree.
SameUpTo(s, t, n) == \A i \in 1..n : s[i] = t[i]

\* Two sequences that agree up to n have the same concatenation up to n.
LEMMA SameFlatten ==
  ASSUME NEW s, NEW t, NEW g, NEW h, NEW n \in Nat \ {0}, NEW m \in Nat, n <= m,
         SameUpTo(s, t, n), Flattens(g, s, m), Flattens(h, t, n)
  PROVE  SameUpTo(g, h, n)
<1>. DEFINE T == {k \in 0..n : k # 0 => g[k] = h[k]}
<1>1. 0 \in T
  OBVIOUS
<1>2. ASSUME NEW k \in 0..(n - 1), k \in T PROVE k + 1 \in T
  <2>1. CASE k = 0
    BY <2>1 DEF Flattens, SameUpTo
  <2>2. CASE k # 0
    <3>1. /\ g[k] = h[k] /\ (k + 1) - 1 = k
          /\ k + 1 \in 1..n /\ k + 1 \in 2..n /\ k + 1 \in 2..m
      BY <2>2, <1>2
    <3>2. s[k + 1] = t[k + 1]
      BY <3>1 DEF SameUpTo
    <3>3. g[k + 1] = g[k] \o s[k + 1] /\ h[k + 1] = h[k] \o t[k + 1]
      BY <3>1 DEF Flattens
    <3>4. g[k + 1] = h[k + 1]
      BY <3>1, <3>2, <3>3, Zenon
    <3>. QED  BY <3>1, <3>4
  <2>. QED  BY <2>1, <2>2
<1>3. 0..n \subseteq T
  <2>. HIDE DEF T
  <2>. QED  BY <1>1, <1>2, UpTo
<1>. QED  BY <1>3 DEF SameUpTo

\* Appending a sequence appends its elements.
LEMMA FlattenAppend ==
  ASSUME NEW S, NEW seqs \in Seq(Seq(S)), NEW s \in Seq(S)
  PROVE  FlattenSeq(Append(seqs, s)) = FlattenSeq(seqs) \o s
<1>1. PICK all \in Seq(Seq(S)) : all = Append(seqs, s)
  BY AppendProperties
<1>2. PICK n \in Nat : Len(seqs) = n
  OBVIOUS
<1>3. /\ Len(all) = n + 1 /\ all[n + 1] = s
      /\ \A i \in 1..n : all[i] = seqs[i]
  BY <1>1, <1>2, AppendProperties
<1>4. PICK g \in [1..(n + 1) -> Seq(S)] :
         Flattens(g, all, n + 1) /\ FlattenSeq(all) = g[n + 1]
  <2>1. PICK m \in Nat \ {0} : m = n + 1
    OBVIOUS
  <2>2. Len(all) = m
    BY <1>3, <2>1
  <2>3. \E g \in [1..m -> Seq(S)] : Flattens(g, all, m) /\ FlattenSeq(all) = g[m]
    BY <2>2, FlattenNonempty, ZenonT(40)
  <2>. QED  BY <2>1, <2>3, Zenon
<1>5. CASE n = 0
  <2>1. FlattenSeq(all) = s
    BY <1>3, <1>4, <1>5 DEF Flattens
  <2>2. seqs = <<>> /\ <<>> \o s = s
    BY <1>2, <1>5, EmptySeq, ConcatEmptySeq
  <2>. QED  BY <2>1, <2>2, <1>1, FlattenEmpty
<1>6. CASE n # 0
  <2>1. n \in Nat \ {0} /\ n \in 1..n /\ n + 1 \in 2..(n + 1) /\ (n + 1) - 1 = n
        /\ n <= n + 1 /\ n + 1 \in Nat
    BY <1>6
  <2>2. PICK h \in [1..n -> Seq(S)] : Flattens(h, seqs, n) /\ FlattenSeq(seqs) = h[n]
    <3>1. n \in Nat \ {0}
      BY <2>1
    <3>. QED  BY <1>2, <3>1, FlattenNonempty
  <2>3. SameUpTo(g, h, n)
    <3>1. n \in Nat \ {0} /\ n + 1 \in Nat /\ n <= n + 1
      BY <2>1
    <3>2. Flattens(g, all, n + 1) /\ Flattens(h, seqs, n) /\ SameUpTo(all, seqs, n)
      BY <2>2, <1>3, <1>4 DEF SameUpTo
    <3>. QED  BY <3>1, <3>2, SameFlatten
  <2>4. g[n + 1] = g[n] \o s
    BY <1>3, <1>4, <2>1 DEF Flattens
  <2>. QED  BY <2>1, <2>2, <2>3, <2>4, <1>1, <1>4 DEF SameUpTo
<1>. QED  BY <1>5, <1>6

\* seqs is s in front of rest.
IsCons(seqs, s, rest) ==
    /\ Len(seqs) = Len(rest) + 1 /\ seqs[1] = s
    /\ \A i \in 1..Len(rest) : seqs[i + 1] = rest[i]

\* The same from the other end.
LEMMA FlattenHead ==
  ASSUME NEW S
  PROVE  \A s \in Seq(S), rest, seqs \in Seq(Seq(S)) :
            IsCons(seqs, s, rest) => FlattenSeq(seqs) = s \o FlattenSeq(rest)
<1>0. \A s, t, u \in Seq(S) : (s \o t) \o u = s \o (t \o u)
  OBVIOUS
<1>. SUFFICES ASSUME NEW s \in Seq(S), NEW rest \in Seq(Seq(S)), NEW seqs \in Seq(Seq(S)),
                     IsCons(seqs, s, rest)
              PROVE  FlattenSeq(seqs) = s \o FlattenSeq(rest)
  OBVIOUS
<1>1. PICK n \in Nat : Len(rest) = n
  BY LenProperties
<1>2. n + 1 \in Nat \ {0} /\ Len(seqs) = n + 1
  BY <1>1 DEF IsCons
<1>3. PICK g \in [1..(n + 1) -> Seq(S)] :
         Flattens(g, seqs, n + 1) /\ FlattenSeq(seqs) = g[n + 1]
  BY <1>2, FlattenNonempty
<1>4. CASE n = 0
  <2>1. FlattenSeq(seqs) = s
    BY <1>3, <1>4 DEF Flattens, IsCons
  <2>2. rest = <<>> /\ s \o <<>> = s
    BY <1>1, <1>4, EmptySeq, ConcatEmptySeq
  <2>. QED  BY <2>1, <2>2, FlattenEmpty
<1>5. CASE n # 0
  <2>1. n \in Nat \ {0} /\ n \in 1..n
    BY <1>5
  <2>2. PICK h \in [1..n -> Seq(S)] : Flattens(h, rest, n) /\ FlattenSeq(rest) = h[n]
    <3>1. n \in Nat \ {0}
      BY <2>1
    <3>. QED  BY <1>1, <3>1, FlattenNonempty
  <2>. DEFINE T == {k \in 0..n : k # 0 => g[k + 1] = s \o h[k]}
  <2>3. 0 \in T
    OBVIOUS
  <2>4. ASSUME NEW k \in 0..(n - 1), k \in T PROVE k + 1 \in T
    <3>1. /\ k + 2 \in 2..(n + 1) /\ (k + 2) - 1 = k + 1 /\ (k + 1) + 1 = k + 2
          /\ k + 1 \in 1..n
      OBVIOUS
    <3>2. g[k + 2] = g[k + 1] \o seqs[k + 2] /\ seqs[k + 2] = rest[k + 1]
      BY <3>1, <1>1, <1>3 DEF Flattens, IsCons
    <3>3. CASE k = 0
      <4>1. g[1] = s /\ h[1] = rest[1]
        BY <1>3, <2>2 DEF Flattens, IsCons
      <4>2. k + 1 = 1
        BY <3>3
      <4>3. g[k + 2] = s \o h[k + 1]
        BY <4>1, <4>2, <3>2, Zenon
      <4>. QED  BY <3>1, <4>3
    <3>4. CASE k # 0
      <4>0. g[k + 1] = s \o h[k]
        BY <2>4, <3>4, Zenon
      <4>1. k + 1 \in 2..n /\ (k + 1) - 1 = k /\ k \in 1..n
        BY <3>4
      <4>2. h[k + 1] = h[k] \o rest[k + 1]
        BY <4>1, <2>2 DEF Flattens
      <4>3. h[k] \in Seq(S) /\ rest[k + 1] \in Seq(S)
        BY <4>1, <3>1, <1>1, ElementOfSeq
      <4>4. (s \o h[k]) \o rest[k + 1] = s \o (h[k] \o rest[k + 1])
        BY <4>3, <1>0, Zenon
      <4>5. g[k + 2] = s \o h[k + 1]
        BY <4>0, <4>2, <4>4, <3>2, Zenon
      <4>. QED  BY <3>1, <4>5
    <3>. QED  BY <3>3, <3>4
  <2>5. 0..n \subseteq T
    <3>. HIDE DEF T
    <3>. QED  BY <2>3, <2>4, UpTo
  <2>6. g[n + 1] = s \o h[n]
    BY <2>5, <2>1
  <2>. QED  BY <2>2, <2>6, <1>3
<1>. QED  BY <1>4, <1>5

-----------------------------------------------------------------------------
(* Numbers and their digits.                                               *)

\* Division with remainder.
LEMMA DivMod ==
  ASSUME NEW m \in Nat, NEW b \in Nat \ {0}
  PROVE  /\ m \div b \in Nat /\ m % b \in 0..(b - 1)
         /\ m = (m \div b) * b + (m % b)
OBVIOUS

\* Quotient and remainder are unique.
LEMMA DivModUnique ==
  ASSUME NEW q \in Nat, NEW b \in Nat \ {0}, NEW r \in 0..(b - 1)
  PROVE  (q * b + r) \div b = q /\ (q * b + r) % b = r
<1>1. PICK n \in Nat : n = q * b + r
  OBVIOUS
<1>2. PICK p \in Nat, s \in 0..(b - 1) : p = n \div b /\ s = n % b /\ n = p * b + s
  BY DivMod
<1>3. (p - q) * b = r - s
  BY <1>1, <1>2
<1>4. ~(p - q >= 1)
  <2>1. p - q >= 1 => (p - q) * b >= b
    OBVIOUS
  <2>. QED  BY <2>1, <1>3
<1>5. ~(q - p >= 1)
  <2>1. q - p >= 1 => (q - p) * b >= b
    OBVIOUS
  <2>2. (q - p) * b = s - r
    BY <1>3
  <2>. QED  BY <2>1, <2>2
<1>6. p = q
  BY <1>4, <1>5
<1>7. s = r
  BY <1>1, <1>2, <1>6
<1>. QED  BY <1>1, <1>2, <1>6, <1>7

\* A number below the modulus is its own remainder.
LEMMA SmallMod ==
  ASSUME NEW b \in Nat \ {0}, NEW n \in 0..(b - 1)
  PROVE  n % b = n
<1>1. n = 0 * b + n
  OBVIOUS
<1>. QED  BY <1>1, DivModUnique

\* A function defined by recursion has the type its base and its step have.
LEMMA IterationType ==
  ASSUME NEW N \in Nat, NEW X, NEW F, F = [k \in 0..N |-> F[k]], F[0] \in X,
         \A k \in 1..N : F[k - 1] \in X => F[k] \in X
  PROVE  F \in [0..N -> X]
<1>. DEFINE T == {k \in 0..N : F[k] \in X}
<1>1. 0 \in T
  OBVIOUS
<1>2. ASSUME NEW k \in 0..(N - 1), k \in T PROVE k + 1 \in T
  <2>1. k + 1 \in 1..N /\ (k + 1) - 1 = k
    OBVIOUS
  <2>2. F[k + 1] \in X
    BY <2>1, <1>2
  <2>. QED  BY <2>1, <2>2
<1>3. 0..N \subseteq T
  <2>. HIDE DEF T
  <2>. QED  BY <1>1, <1>2, UpTo
<1>. QED  BY <1>3

\* The shifts of a number.
LEMMA ShiftedDef ==
  ASSUME NEW n \in Nat, NEW b \in Nat \ {0}, NEW w \in Nat
  PROVE  \E q \in [0..w -> Nat] :
            q = Shifted(n, b, w) /\ q[0] = n /\ \A k \in 1..w : q[k] = q[k - 1] \div b
<1>. DEFINE step == [p \in (1..w) \X Nat |-> p[2] \div b]
            F == CHOOSE f : f = [k \in 0..w |-> IF k = 0 THEN n ELSE f[k - 1] \div b]
<1>1. step \in [(1..w) \X Nat -> Nat]
  BY DivMod
<1>2. PICK g \in [0..w -> Nat] : Iterates(g, w, n, step)
  <2>. HIDE DEF step
  <2>. QED  BY <1>1, Iteration
<1>3. g = [k \in 0..w |-> IF k = 0 THEN n ELSE g[k - 1] \div b]
  <2>1. ASSUME NEW k \in 1..w PROVE g[k] = g[k - 1] \div b
    <3>1. g[k] = step[<<k, g[k - 1]>>] /\ g[k - 1] \in Nat
      <4>. HIDE DEF step
      <4>. QED  BY <1>2 DEF Iterates
    <3>. QED  BY <3>1
  <2>2. g[0] = n
    BY <1>2 DEF Iterates
  <2>. QED  BY <2>1, <2>2
<1>4. F = [k \in 0..w |-> IF k = 0 THEN n ELSE F[k - 1] \div b]
  BY <1>3, Zenon
<1>5. Shifted(n, b, w) = F
  BY DEF Shifted
<1>. HIDE DEF F
<1>6. F[0] = n /\ \A k \in 1..w : F[k] = F[k - 1] \div b
  BY <1>4
<1>7. F = [k \in 0..w |-> F[k]]
  BY <1>4
<1>8. F \in [0..w -> Nat]
  <2>1. \A k \in 1..w : F[k - 1] \in Nat => F[k] \in Nat
    BY <1>6, DivMod
  <2>. QED  BY <1>6, <1>7, <2>1, IterationType
<1>. QED  BY <1>5, <1>6, <1>8

\* The value of a sequence of digits, digit by digit.
LEMMA NumberDef ==
  ASSUME NEW b \in Nat, NEW w \in Nat, NEW d \in [1..w -> Nat]
  PROVE  \E v \in [0..w -> Nat] :
            /\ v[0] = 0 /\ \A k \in 1..w : v[k] = v[k - 1] * b + d[k]
            /\ Number(d, b) = v[w]
<1>. DEFINE step == [p \in (1..w) \X Nat |-> p[2] * b + d[p[1]]]
            F == CHOOSE f : f = [k \in 0..w |-> IF k = 0 THEN 0 ELSE f[k - 1] * b + d[k]]
<1>1. step \in [(1..w) \X Nat -> Nat]
  BY SMTT(30)
<1>2. PICK g \in [0..w -> Nat] : Iterates(g, w, 0, step)
  <2>. HIDE DEF step
  <2>. QED  BY <1>1, Iteration
<1>3. g = [k \in 0..w |-> IF k = 0 THEN 0 ELSE g[k - 1] * b + d[k]]
  <2>1. ASSUME NEW k \in 1..w PROVE g[k] = g[k - 1] * b + d[k]
    <3>1. g[k] = step[<<k, g[k - 1]>>] /\ g[k - 1] \in Nat
      <4>. HIDE DEF step
      <4>. QED  BY <1>2 DEF Iterates
    <3>. QED  BY <3>1
  <2>2. g[0] = 0
    BY <1>2 DEF Iterates
  <2>. QED  BY <2>1, <2>2
<1>4. F = [k \in 0..w |-> IF k = 0 THEN 0 ELSE F[k - 1] * b + d[k]]
  BY <1>3, Zenon
<1>5. Number(d, b) = F[w]
  <2>1. Len(d) = w
    OBVIOUS
  <2>. QED  BY <2>1 DEF Number
<1>. HIDE DEF F
<1>6. F[0] = 0 /\ \A k \in 1..w : F[k] = F[k - 1] * b + d[k]
  BY <1>4
<1>7. F = [k \in 0..w |-> F[k]]
  BY <1>4
<1>8. F \in [0..w -> Nat]
  <2>1. \A k \in 1..w : F[k - 1] \in Nat => F[k] \in Nat
    <3>1. ASSUME NEW k \in 1..w, NEW x \in Nat PROVE x * b + d[k] \in Nat
      OBVIOUS
    <3>. QED  BY <3>1, <1>6
  <2>2. F[0] \in Nat
    BY <1>6
  <2>. QED  BY <1>7, <2>1, <2>2, IterationType
<1>. QED  BY <1>5, <1>6, <1>8

\* Digits are below the base.
LEMMA DigitsType ==
  ASSUME NEW n \in Nat, NEW b \in Nat \ {0}, NEW w \in Nat
  PROVE  Digits(n, b, w) \in [1..w -> 0..(b - 1)]
<1>1. ASSUME NEW k \in 1..w PROVE Shifted(n, b, w)[w - k] \in Nat
  <2>1. w - k \in 0..w
    OBVIOUS
  <2>. QED  BY <2>1, ShiftedDef
<1>. QED  BY <1>1, DivMod DEF Digits

\* Uint32 undoes PutUint32.
LEMMA NumberOfDigits ==
  ASSUME NEW n \in Nat, NEW b \in Nat \ {0}, NEW w \in Nat, FitsIn(n, b, w)
  PROVE  Number(Digits(n, b, w), b) = n
<1>1. PICK q \in [0..w -> Nat] :
         q = Shifted(n, b, w) /\ q[0] = n /\ \A k \in 1..w : q[k] = q[k - 1] \div b
  BY ShiftedDef
<1>2. PICK d \in [1..w -> Nat] :
         d = Digits(n, b, w) /\ \A k \in 1..w : d[k] = q[w - k] % b
  <2>1. Digits(n, b, w) \in [1..w -> Nat]
    <3>1. \A x \in 0..(b - 1) : x \in Nat
      OBVIOUS
    <3>2. Digits(n, b, w) \in [1..w -> 0..(b - 1)]
      BY DigitsType
    <3>. QED  BY <3>1, <3>2
  <2>2. \A k \in 1..w : Digits(n, b, w)[k] = q[w - k] % b
    BY <1>1 DEF Digits
  <2>. QED  BY <2>1, <2>2
<1>3. PICK v \in [0..w -> Nat] :
         /\ v[0] = 0 /\ \A k \in 1..w : v[k] = v[k - 1] * b + d[k]
         /\ Number(d, b) = v[w]
  BY NumberDef, ZenonT(40)
<1>. DEFINE T == {k \in 0..w : v[k] = q[w - k]}
<1>4. 0 \in T
  <2>1. q[w] = 0
    BY <1>1 DEF FitsIn
  <2>. QED  BY <2>1, <1>3
<1>5. ASSUME NEW k \in 0..(w - 1), k \in T PROVE k + 1 \in T
  <2>1. /\ k + 1 \in 1..w /\ (k + 1) - 1 = k
        /\ w - k \in 1..w /\ (w - k) - 1 = w - (k + 1) /\ w - (k + 1) \in 0..w
    OBVIOUS
  <2>2. PICK m \in Nat : m = q[w - (k + 1)]
    BY <2>1
  <2>3. v[k] = m \div b
    BY <1>1, <1>5, <2>1, <2>2
  <2>4. v[k + 1] = v[k] * b + (m % b)
    BY <1>2, <1>3, <2>1, <2>2
  <2>5. v[k + 1] = m
    BY <2>3, <2>4, DivMod
  <2>. QED  BY <2>1, <2>2, <2>5
<1>6. 0..w \subseteq T
  <2>. HIDE DEF T
  <2>. QED  BY <1>4, <1>5, UpTo
<1>7. v[w] = q[0]
  BY <1>6
<1>. QED  BY <1>1, <1>2, <1>3, <1>7

\* And the other way round.
LEMMA DigitsOfNumber ==
  ASSUME NEW b \in Nat \ {0}, NEW w \in Nat, NEW d \in [1..w -> 0..(b - 1)]
  PROVE  Number(d, b) \in Nat /\ Digits(Number(d, b), b, w) = d
<1>1. d \in [1..w -> Nat]
  OBVIOUS
<1>2. PICK v \in [0..w -> Nat] :
         /\ v[0] = 0 /\ \A k \in 1..w : v[k] = v[k - 1] * b + d[k]
         /\ Number(d, b) = v[w]
  BY <1>1, NumberDef, ZenonT(40)
<1>3. PICK n \in Nat : n = v[w] /\ n = Number(d, b)
  BY <1>2
<1>4. PICK q \in [0..w -> Nat] :
         q = Shifted(n, b, w) /\ q[0] = n /\ \A k \in 1..w : q[k] = q[k - 1] \div b
  BY ShiftedDef
<1>. DEFINE T == {k \in 0..w : q[k] = v[w - k]}
<1>5. 0 \in T
  <2>1. w - 0 = w /\ 0 \in 0..w
    OBVIOUS
  <2>. QED  BY <2>1, <1>3, <1>4
<1>6. ASSUME NEW k \in 0..(w - 1), k \in T PROVE k + 1 \in T
  <2>1. /\ k + 1 \in 1..w /\ (k + 1) - 1 = k
        /\ w - k \in 1..w /\ (w - k) - 1 = w - (k + 1) /\ w - (k + 1) \in 0..w
    OBVIOUS
  <2>2. PICK m \in Nat, r \in 0..(b - 1) : m = v[w - (k + 1)] /\ r = d[w - k]
    BY <2>1
  <2>3. q[k] = m * b + r
    BY <1>2, <1>6, <2>1, <2>2
  <2>4. q[k + 1] = q[k] \div b
    BY <1>4, <2>1
  <2>5. q[k + 1] = m
    BY <2>3, <2>4, DivModUnique
  <2>. QED  BY <2>1, <2>2, <2>5
<1>7. 0..w \subseteq T
  <2>. HIDE DEF T
  <2>. QED  BY <1>5, <1>6, UpTo
<1>8. ASSUME NEW k \in 1..w PROVE Digits(n, b, w)[k] = d[k]
  <2>1. w - k \in 0..w /\ w - (w - k) = k /\ k - 1 \in 0..w
    OBVIOUS
  <2>2. q[w - k] = v[k]
    BY <1>7, <2>1
  <2>3. PICK m \in Nat, r \in 0..(b - 1) : m = v[k - 1] /\ r = d[k]
    BY <2>1
  <2>4. v[k] = m * b + r
    BY <1>2, <2>3
  <2>5. (m * b + r) % b = r
    BY DivModUnique
  <2>6. v[k] % b = r
    BY <2>4, <2>5
  <2>7. Digits(n, b, w)[k] = q[w - k] % b
    BY <1>4 DEF Digits
  <2>. QED  BY <2>2, <2>3, <2>6, <2>7
<1>9. Digits(n, b, w) = d
  <2>1. Digits(n, b, w) = [k \in 1..w |-> Digits(n, b, w)[k]]
    BY DEF Digits
  <2>2. d = [k \in 1..w |-> d[k]]
    OBVIOUS
  <2>. QED  BY <2>1, <2>2, <1>8
<1>. QED  BY <1>3, <1>9

-----------------------------------------------------------------------------
(* Positions.                                                              *)

\* Where the elements of two sequences are in their concatenation.
LEMMA ConcatElements ==
  ASSUME NEW S, NEW s \in Seq(S), NEW t \in Seq(S)
  PROVE  /\ s \o t \in Seq(S) /\ Len(s \o t) = Len(s) + Len(t)
         /\ \A j \in 1..Len(s) : (s \o t)[j] = s[j]
         /\ \A j \in 1..Len(t) : (s \o t)[Len(s) + j] = t[j]
OBVIOUS

\* The same for one element in front.
LEMMA ConsElements ==
  ASSUME NEW S, NEW x \in S, NEW s \in Seq(S)
  PROVE  /\ <<x>> \o s \in Seq(S) /\ Len(<<x>> \o s) = 1 + Len(s)
         /\ (<<x>> \o s)[1] = x
         /\ \A j \in 1..Len(s) : (<<x>> \o s)[1 + j] = s[j]
OBVIOUS

\* off says where each of the first n sequences lies in `all`.
Lies(off, seqs, n, all) ==
    /\ off[0] = 0
    /\ \A i \in 1..n :
          /\ off[i] = off[i - 1] + Len(seqs[i]) /\ off[i] <= Len(all)
          /\ \A j \in 1..Len(seqs[i]) : all[off[i - 1] + j] = seqs[i][j]

\* Every sequence lies in the concatenation at the sum of the lengths before it.
LEMMA FlattenOffsets ==
  ASSUME NEW S, NEW seqs \in Seq(Seq(S)), NEW N \in Nat, Len(seqs) = N
  PROVE  \E off \in [0..N -> Nat] :
            Lies(off, seqs, N, FlattenSeq(seqs)) /\ off[N] = Len(FlattenSeq(seqs))
<1>1. CASE N = 0
  <2>1. seqs = <<>>
    BY <1>1, EmptySeq
  <2>2. Len(FlattenSeq(seqs)) = 0
    BY <2>1, FlattenEmpty, EmptySeq
  <2>3. PICK off \in [0..N -> Nat] : off[0] = 0
    <3>1. [i \in 0..N |-> 0] \in [0..N -> Nat] /\ [i \in 0..N |-> 0][0] = 0
      BY <1>1
    <3>. QED  BY <3>1
  <2>. QED  BY <1>1, <2>2, <2>3 DEF Lies
<1>2. CASE N # 0
  <2>1. N \in Nat \ {0}
    BY <1>2
  <2>2. PICK g \in [1..N -> Seq(S)] : Flattens(g, seqs, N) /\ FlattenSeq(seqs) = g[N]
    BY <2>1, FlattenNonempty
  <2>. DEFINE off == [i \in 0..N |-> IF i = 0 THEN 0 ELSE Len(g[i])]
  <2>3. off \in [0..N -> Nat] /\ off[0] = 0 /\ \A i \in 1..N : off[i] = Len(g[i])
    <3>1. \A i \in 1..N : Len(g[i]) \in Nat
      BY LenProperties
    <3>. QED  BY <3>1
  <2>. HIDE DEF off
  <2>. DEFINE T == {k \in 0..N : k # 0 => Lies(off, seqs, k, g[k])}
  <2>4. 0 \in T
    OBVIOUS
  <2>5. ASSUME NEW k \in 0..(N - 1), k \in T PROVE k + 1 \in T
    <3>1. PICK t \in Seq(S) : t = seqs[k + 1]
      BY ElementOfSeq
    <3>2. PICK u \in Seq(S) : u = g[k + 1]
      OBVIOUS
    <3>3. CASE k = 0
      <4>1. u = t
        BY <3>1, <3>2, <3>3, <2>2 DEF Flattens
      <4>2. off[1] = Len(t)
        BY <4>1, <3>2, <3>3, <2>3
      <4>3. Lies(off, seqs, 1, u)
        <5>1. \A i \in 1..1 : i = 1 /\ i - 1 = 0
          OBVIOUS
        <5>2. off[1] = off[0] + Len(t) /\ off[1] <= Len(u) /\ Len(t) \in Nat
          BY <4>1, <4>2, <2>3, LenProperties
        <5>3. \A j \in 1..Len(t) : u[off[0] + j] = t[j]
          BY <4>1, <2>3, <5>2
        <5>4. seqs[1] = t /\ off[0] = 0
          BY <3>1, <3>3, <2>3
        <5>. QED  BY <5>1, <5>2, <5>3, <5>4, Zenon DEF Lies
      <4>. QED  BY <4>3, <3>2, <3>3
    <3>4. CASE k # 0
      <4>1. PICK p \in Seq(S) : p = g[k] /\ Lies(off, seqs, k, p)
        BY <3>4, <2>5
      <4>2. u = p \o t
        <5>1. k + 1 \in 2..N /\ (k + 1) - 1 = k
          BY <3>4
        <5>. QED  BY <5>1, <4>1, <3>1, <3>2, <2>2 DEF Flattens
      <4>3. /\ Len(p) \in Nat /\ Len(t) \in Nat /\ Len(u) = Len(p) + Len(t)
            /\ \A i \in 1..Len(p) : u[i] = p[i]
            /\ \A i \in 1..Len(t) : u[Len(p) + i] = t[i]
        BY <4>2, ConcatProperties, LenProperties
      <4>4. off[k] = Len(p) /\ off[k + 1] = Len(u)
        BY <4>1, <3>2, <3>4, <2>3
      <4>5. ASSUME NEW i \in 1..k
            PROVE  /\ off[i] = off[i - 1] + Len(seqs[i]) /\ off[i] <= Len(u)
                   /\ \A j \in 1..Len(seqs[i]) : u[off[i - 1] + j] = seqs[i][j]
        <5>1. /\ off[i] = off[i - 1] + Len(seqs[i]) /\ off[i] <= Len(p)
              /\ \A j \in 1..Len(seqs[i]) : p[off[i - 1] + j] = seqs[i][j]
          BY <4>1 DEF Lies
        <5>2. off[i - 1] \in Nat /\ Len(seqs[i]) \in Nat
          BY <2>3, ElementOfSeq, LenProperties
        <5>3. \A j \in 1..Len(seqs[i]) : off[i - 1] + j \in 1..Len(p)
          BY <5>1, <5>2, <4>3, SMTT(30)
        <5>4. \A j \in 1..Len(seqs[i]) : u[off[i - 1] + j] = seqs[i][j]
          BY <5>1, <5>3, <4>3, Zenon
        <5>5. off[i] \in Nat
          BY <2>3
        <5>6. off[i] <= Len(u)
          BY <5>1, <5>5, <4>3
        <5>. QED  BY <5>1, <5>4, <5>6
      <4>6. ASSUME NEW i \in 1..(k + 1), i = k + 1
            PROVE  /\ off[i] = off[i - 1] + Len(seqs[i]) /\ off[i] <= Len(u)
                   /\ \A j \in 1..Len(seqs[i]) : u[off[i - 1] + j] = seqs[i][j]
        <5>1. i - 1 = k /\ seqs[i] = t
          BY <4>6, <3>1
        <5>2. off[k + 1] = off[k] + Len(t) /\ off[k + 1] <= Len(u)
          BY <4>3, <4>4
        <5>3. \A j \in 1..Len(t) : u[off[k] + j] = t[j]
          BY <4>3, <4>4, Zenon
        <5>. QED  BY <5>1, <5>2, <5>3, <4>6, Zenon
      <4>7. Lies(off, seqs, k + 1, u)
        <5>1. \A i \in 1..(k + 1) : i \in 1..k \/ i = k + 1
          OBVIOUS
        <5>. QED  BY <5>1, <4>5, <4>6, <4>1, Zenon DEF Lies
      <4>. QED  BY <4>7, <3>2
    <3>. QED  BY <3>3, <3>4
  <2>6. 0..N \subseteq T
    <3>. HIDE DEF T
    <3>. QED  BY <2>4, <2>5, UpTo
  <2>7. Lies(off, seqs, N, g[N])
    BY <2>6, <2>1
  <2>8. off[N] = Len(g[N])
    BY <2>1, <2>3
  <2>. QED  BY <2>2, <2>3, <2>7, <2>8
<1>. QED  BY <1>1, <1>2

-----------------------------------------------------------------------------
(* Frames of the relay.                                                    *)

\* Bytes are numbers below Base.
LEMMA BytesAreNumbers ==
  Byte \subseteq Nat /\ Base \in Nat \ {0} /\ \A n \in Nat : n % Base \in Byte
BY ByteAssumption DEF Byte

\* The message types of the relay are bytes, and distinct where it matters.
LEMMA TagsAreBytes ==
  /\ Data \in Byte /\ Ping \in Byte /\ Pong \in Byte /\ Register \in Byte
  /\ Data # Ping /\ Data # Pong
BY StreamAssumption, ByteAssumption DEF Byte, Data, Register, Ping, Pong, Disconnect

\* The fields of a frame.
LEMMA FrameFields ==
  ASSUME NEW f \in Frames
  PROVE  /\ f \in Message
         /\ f.type \in Byte /\ f.src \in Seq(Byte) /\ f.dst \in Seq(Byte)
         /\ f.payload \in Seq(Byte)
         /\ ~HasNames(f.type) => f.src = <<>> /\ f.dst = <<>>
         /\ f.type # Data => f.payload = <<>>
BY StreamAssumption DEF Message

\* writeString writes bytes.
LEMMA WriteStringType ==
  ASSUME NEW s \in Seq(Byte)
  PROVE  WriteString(s) \in Seq(Byte)
<1>1. Len(s) % Base \in Byte
  <2>1. Len(s) \in Nat
    OBVIOUS
  <2>. QED  BY <2>1, BytesAreNumbers
<1>. QED  BY <1>1, ConsElements DEF WriteString

\* The payload length has LenWidth bytes.
LEMMA PutUintType ==
  ASSUME NEW n \in Nat
  PROVE  /\ PutUint(n) \in Seq(Byte) /\ Len(PutUint(n)) = LenWidth
<1>1. LenWidth \in Nat
  BY StreamAssumption
<1>2. PutUint(n) \in [1..LenWidth -> Byte]
  BY <1>1, BytesAreNumbers, DigitsType DEF PutUint, Byte
<1>. QED  BY <1>1, <1>2

\* The two parts of an encoding after its type.
NamesPart(f) == IF HasNames(f.type) THEN WriteString(f.src) \o WriteString(f.dst) ELSE <<>>
DataPart(f) == IF f.type = Data THEN PutUint(Len(f.payload)) \o f.payload ELSE <<>>

\* Both parts are bytes.
LEMMA PartsType ==
  ASSUME NEW f \in Frames
  PROVE  NamesPart(f) \in Seq(Byte) /\ DataPart(f) \in Seq(Byte)
<1>1. NamesPart(f) \in Seq(Byte)
  <2>1. WriteString(f.src) \in Seq(Byte) /\ WriteString(f.dst) \in Seq(Byte)
    BY FrameFields, WriteStringType
  <2>2. WriteString(f.src) \o WriteString(f.dst) \in Seq(Byte)
    BY <2>1, ConcatProperties
  <2>3. <<>> \in Seq(Byte)
    OBVIOUS
  <2>. QED  BY <2>2, <2>3 DEF NamesPart
<1>2. DataPart(f) \in Seq(Byte)
  <2>1. f.payload \in Seq(Byte)
    BY FrameFields
  <2>2. PutUint(Len(f.payload)) \in Seq(Byte)
    BY <2>1, PutUintType
  <2>3. PutUint(Len(f.payload)) \o f.payload \in Seq(Byte)
    BY <2>1, <2>2, ConcatProperties
  <2>4. <<>> \in Seq(Byte)
    OBVIOUS
  <2>. QED  BY <2>3, <2>4 DEF DataPart
<1>. QED  BY <1>1, <1>2

\* sendMessage writes the type and then the two parts.
LEMMA EncodeParts ==
  ASSUME NEW f \in Frames
  PROVE  Encode(f) = (<<f.type>> \o NamesPart(f)) \o DataPart(f)
BY DEF Encode, NamesPart, DataPart

\* sendMessage writes bytes.
LEMMA EncodeType ==
  ASSUME NEW f \in Frames
  PROVE  Encode(f) \in Seq(Byte)
<1>1. <<f.type>> \in Seq(Byte)
  BY FrameFields
<1>2. <<f.type>> \o NamesPart(f) \in Seq(Byte)
  BY <1>1, PartsType, ConcatProperties
<1>3. (<<f.type>> \o NamesPart(f)) \o DataPart(f) \in Seq(Byte)
  BY <1>2, PartsType, ConcatProperties
<1>. QED  BY <1>3, EncodeParts

\* Where the names and the payload of a frame are in its encoding.
NamesAt(e, f) ==
    /\ Len(e) >= 3 + Len(f.src) + Len(f.dst)
    /\ e[2] = Len(f.src) /\ \A j \in 1..Len(f.src) : e[2 + j] = f.src[j]
    /\ e[3 + Len(f.src)] = Len(f.dst)
    /\ \A j \in 1..Len(f.dst) : e[3 + Len(f.src) + j] = f.dst[j]

\* The payload with its length in an encoding, after p bytes.
DataAt(e, f, p) ==
    /\ Len(e) = p + LenWidth + Len(f.payload)
    /\ \A k \in 1..LenWidth : e[p + k] = PutUint(Len(f.payload))[k]
    /\ \A j \in 1..Len(f.payload) : e[p + LenWidth + j] = f.payload[j]

\* Where sendMessage puts the fields of a frame whose lengths fit.
LEMMA EncodeLayout ==
  ASSUME NEW f \in Frames, Fits(f)
  PROVE  /\ Encode(f)[1] = f.type /\ Len(Encode(f)) >= 1
         /\ ~HasNames(f.type) => Len(Encode(f)) = 1
         /\ HasNames(f.type) => NamesAt(Encode(f), f)
         /\ HasNames(f.type) /\ f.type # Data =>
               Len(Encode(f)) = 3 + Len(f.src) + Len(f.dst)
         /\ f.type = Data => DataAt(Encode(f), f, 3 + Len(f.src) + Len(f.dst))
<1>1. PICK t \in Byte, src \in Seq(Byte), dst \in Seq(Byte), p \in Seq(Byte) :
         t = f.type /\ src = f.src /\ dst = f.dst /\ p = f.payload
  BY FrameFields
<1>2. PICK ls \in Nat, ld \in Nat, lp \in Nat :
         ls = Len(src) /\ ld = Len(dst) /\ lp = Len(p)
  BY LenProperties
<1>3. PICK e \in Seq(Byte), n \in Seq(Byte), d \in Seq(Byte) :
         /\ e = Encode(f) /\ n = NamesPart(f) /\ d = DataPart(f)
         /\ e = (<<t>> \o n) \o d
  BY <1>1, EncodeType, EncodeParts, PartsType
<1>4. PICK ln \in Nat, lt \in Nat : ln = Len(n) /\ lt = Len(d)
  BY LenProperties
<1>5. /\ Len(e) = 1 + ln + lt /\ e[1] = t
      /\ \A j \in 1..ln : e[1 + j] = n[j]
      /\ \A j \in 1..lt : e[1 + ln + j] = d[j]
  <2>1. PICK a \in Seq(Byte) : a = <<t>> \o n
    BY ConsElements
  <2>2. Len(a) = 1 + ln /\ a[1] = t /\ \A j \in 1..ln : a[1 + j] = n[j]
    BY <2>1, <1>4, ConsElements
  <2>3. e = a \o d
    BY <1>3, <2>1
  <2>4. /\ Len(e) = Len(a) + lt /\ \A j \in 1..Len(a) : e[j] = a[j]
        /\ \A j \in 1..lt : e[Len(a) + j] = d[j]
    BY <2>3, <1>4, ConcatElements
  <2>. QED  BY <2>2, <2>4
<1>6. CASE ~HasNames(t)
  <2>1. n = <<>> /\ d = <<>>
    BY <1>1, <1>3, <1>6, TagsAreBytes DEF NamesPart, DataPart, HasNames
  <2>2. ln = 0 /\ lt = 0
    BY <2>1, <1>4, EmptySeq
  <2>3. t # Data
    BY <1>6, TagsAreBytes DEF HasNames
  <2>4. Len(e) = 1
    BY <1>5, <2>2
  <2>5. Len(e) >= 1
    BY <2>4
  <2>. QED  BY <2>3, <2>4, <2>5, <1>1, <1>3, <1>5, <1>6, Zenon
<1>7. CASE HasNames(t)
  <2>1. ls < Base /\ ld < Base
    BY <1>1, <1>2, <1>7 DEF Fits
  <2>2. ls \in Byte /\ ld \in Byte /\ ls % Base = ls /\ ld % Base = ld
    <3>1. ls \in 0..(Base - 1) /\ ld \in 0..(Base - 1) /\ Base \in Nat \ {0}
      BY <2>1, ByteAssumption
    <3>. QED  BY <3>1, SmallMod DEF Byte
  <2>3. n = (<<ls>> \o src) \o (<<ld>> \o dst)
    BY <1>1, <1>2, <1>3, <1>7, <2>2 DEF NamesPart, WriteString
  <2>4. /\ ln = 2 + ls + ld /\ n[1] = ls /\ n[2 + ls] = ld
        /\ \A j \in 1..ls : n[1 + j] = src[j]
        /\ \A j \in 1..ld : n[2 + ls + j] = dst[j]
    <3>1. PICK a \in Seq(Byte), b \in Seq(Byte) : a = <<ls>> \o src /\ b = <<ld>> \o dst
      BY <2>2, ConsElements
    <3>2. Len(a) = 1 + ls /\ a[1] = ls /\ \A j \in 1..ls : a[1 + j] = src[j]
      BY <3>1, <1>2, <2>2, ConsElements
    <3>3. Len(b) = 1 + ld /\ b[1] = ld /\ \A j \in 1..ld : b[1 + j] = dst[j]
      BY <3>1, <1>2, <2>2, ConsElements
    <3>4. n = a \o b
      BY <2>3, <3>1
    <3>5. /\ Len(n) = Len(a) + Len(b) /\ \A j \in 1..Len(a) : n[j] = a[j]
          /\ \A j \in 1..Len(b) : n[Len(a) + j] = b[j]
      BY <3>4, ConcatElements
    <3>6. \A j \in 1..ls : n[1 + j] = src[j]
      BY <3>2, <3>5
    <3>7. n[1 + ls + 1] = ld
      BY <3>2, <3>3, <3>5
    <3>8. \A j \in 1..ld : n[1 + ls + (1 + j)] = dst[j]
      BY <3>2, <3>3, <3>5
    <3>. QED  BY <1>4, <3>2, <3>3, <3>5, <3>6, <3>7, <3>8
  <2>5. NamesAt(e, f)
    <3>1. Len(e) >= 3 + ls + ld
      BY <1>5, <2>4
    <3>2. e[1 + 1] = ls
      BY <1>5, <2>4
    <3>3. \A j \in 1..ls : e[1 + (1 + j)] = src[j]
      BY <1>5, <2>4
    <3>4. e[1 + (2 + ls)] = ld
      BY <1>5, <2>4
    <3>5. \A j \in 1..ld : e[1 + (2 + ls + j)] = dst[j]
      BY <1>5, <2>4
    <3>6. /\ 1 + 1 = 2 /\ 1 + (2 + ls) = 3 + ls
          /\ \A j \in 1..ls : 1 + (1 + j) = 2 + j
          /\ \A j \in 1..ld : 1 + (2 + ls + j) = 3 + ls + j
      OBVIOUS
    <3>7. \A j \in 1..ls : e[2 + j] = src[j]
      BY <3>3, <3>6
    <3>8. \A j \in 1..ld : e[3 + ls + j] = dst[j]
      BY <3>5, <3>6
    <3>9. e[2] = ls /\ e[3 + ls] = ld
      BY <3>2, <3>4, <3>6
    <3>. QED  BY <1>1, <1>2, <3>1, <3>7, <3>8, <3>9, Zenon DEF NamesAt
  <2>6. t # Data => Len(e) = 3 + ls + ld
    <3>1. t # Data => d = <<>>
      BY <1>1, <1>3 DEF DataPart
    <3>2. t # Data => lt = 0
      BY <3>1, <1>4, EmptySeq
    <3>. QED  BY <3>2, <2>4, <1>5
  <2>7. t = Data => DataAt(e, f, 3 + ls + ld)
    <3>. SUFFICES ASSUME t = Data PROVE DataAt(e, f, 3 + ls + ld)
      OBVIOUS
    <3>1. PICK u \in Seq(Byte) : u = PutUint(lp) /\ Len(u) = LenWidth
      BY PutUintType
    <3>2. d = u \o p
      BY <1>1, <1>2, <1>3, <3>1 DEF DataPart
    <3>3. LenWidth \in Nat
      BY StreamAssumption
    <3>4. /\ Len(d) = LenWidth + lp /\ \A j \in 1..LenWidth : d[j] = u[j]
          /\ \A j \in 1..lp : d[LenWidth + j] = p[j]
      <4>1. /\ Len(u \o p) = Len(u) + Len(p) /\ \A j \in 1..Len(u) : (u \o p)[j] = u[j]
            /\ \A j \in 1..Len(p) : (u \o p)[Len(u) + j] = p[j]
        BY ConcatElements
      <4>. QED  BY <4>1, <3>1, <3>2, <1>2, Zenon
    <3>5. Len(e) = 3 + ls + ld + LenWidth + lp
      <4>1. lt = LenWidth + lp
        BY <3>4, <1>4
      <4>. QED  BY <4>1, <3>3, <2>4, <1>5
    <3>6. \A k \in 1..LenWidth : e[3 + ls + ld + k] = u[k]
      BY <3>3, <3>4, <2>4, <1>4, <1>5
    <3>7. ASSUME NEW j \in 1..lp PROVE e[3 + ls + ld + LenWidth + j] = p[j]
      <4>1. LenWidth + j \in 1..lt /\ 1 + ln + (LenWidth + j) = 3 + ls + ld + LenWidth + j
        BY <3>3, <3>4, <2>4, <1>4
      <4>. QED  BY <4>1, <3>4, <1>5
    <3>. QED  BY <1>1, <1>2, <3>1, <3>5, <3>6, <3>7 DEF DataAt
  <2>8. Len(e) >= 1
    BY <1>5
  <2>. QED  BY <1>1, <1>2, <1>3, <1>5, <1>7, <2>5, <2>6, <2>7, <2>8, Zenon
<1>. QED  BY <1>6, <1>7

\* a is s and then t.
IsConcat(a, s, t) ==
    /\ Len(a) = Len(s) + Len(t)
    /\ \A j \in 1..Len(s) : a[j] = s[j]
    /\ \A j \in 1..Len(t) : a[Len(s) + j] = t[j]

\* Concatenation, said of its elements.
LEMMA ConcatIs ==
  ASSUME NEW S, NEW s \in Seq(S), NEW t \in Seq(S)
  PROVE  s \o t \in Seq(S) /\ IsConcat(s \o t, s, t)
BY ConcatElements DEF IsConcat

\* A sequence over a set is one over a wider set.
LEMMA WiderSeq ==
  ASSUME NEW S, NEW T, S \subseteq T, NEW s \in Seq(S)
  PROVE  s \in Seq(T)
<1>1. \A i \in 1..Len(s) : s[i] \in T
  BY ElementOfSeq
<1>2. s = [i \in 1..Len(s) |-> s[i]] /\ Len(s) \in Nat
  BY LenProperties
<1>3. s \in [1..Len(s) -> T]
  BY <1>1, <1>2
<1>. QED  BY <1>2, <1>3

\* What has arrived of a frame, before other bytes.
LEMMA SamePrefix ==
  ASSUME NEW S
  PROVE  \A b, w, e, rest \in Seq(S) : b \o w = e \o rest =>
            /\ \A i \in 1..Len(b) : i <= Len(e) => b[i] = e[i]
            /\ Len(e) <= Len(b) => SubSeq(b, Len(e) + 1, Len(b)) \o w = rest
<1>0. \A s, t \in Seq(S) : s \o t \in Seq(S) /\ IsConcat(s \o t, s, t)
  BY ConcatElements DEF IsConcat
<1>. SUFFICES ASSUME NEW b \in Seq(S), NEW w \in Seq(S), NEW e \in Seq(S),
                     NEW rest \in Seq(S), b \o w = e \o rest
              PROVE  /\ \A i \in 1..Len(b) : i <= Len(e) => b[i] = e[i]
                     /\ Len(e) <= Len(b) => SubSeq(b, Len(e) + 1, Len(b)) \o w = rest
  BY Zenon
<1>1. PICK lb \in Nat, lw \in Nat, le \in Nat, lr \in Nat :
         lb = Len(b) /\ lw = Len(w) /\ le = Len(e) /\ lr = Len(rest)
  OBVIOUS
<1>2. PICK a \in Seq(S) :
         /\ a = b \o w /\ IsConcat(a, b, w)
         /\ a = e \o rest /\ IsConcat(a, e, rest)
  BY <1>0
<1>3. /\ Len(a) = lb + lw /\ \A i \in 1..lb : a[i] = b[i]
      /\ \A i \in 1..lw : a[lb + i] = w[i]
  BY <1>1, <1>2 DEF IsConcat
<1>4. /\ Len(a) = le + lr /\ \A i \in 1..le : a[i] = e[i]
      /\ \A i \in 1..lr : a[le + i] = rest[i]
  BY <1>1, <1>2 DEF IsConcat
<1>5. \A i \in 1..lb : i <= le => b[i] = e[i]
  BY <1>3, <1>4
<1>6. lb + lw = le + lr
  BY <1>3, <1>4
<1>7. ASSUME le <= lb PROVE SubSeq(b, le + 1, lb) \o w = rest
  <2>1. PICK c \in Seq(S) : c = SubSeq(b, le + 1, lb) /\ Len(c) = lb - le
                             /\ \A i \in 1..(lb - le) : c[i] = b[le + i]
    <3>1. \A i \in (le + 1)..lb : b[i] \in S
      BY <1>1, ElementOfSeq
    <3>2. /\ SubSeq(b, le + 1, lb) \in Seq(S)
          /\ Len(SubSeq(b, le + 1, lb)) = IF le + 1 <= lb THEN lb - (le + 1) + 1 ELSE 0
          /\ \A i \in 1..(lb - (le + 1) + 1) : SubSeq(b, le + 1, lb)[i] = b[le + 1 + i - 1]
      BY <3>1, SubSeqProperties
    <3>3. Len(SubSeq(b, le + 1, lb)) = lb - le
      BY <1>7, <3>2
    <3>4. \A i \in 1..(lb - le) : SubSeq(b, le + 1, lb)[i] = b[le + i]
      BY <3>2
    <3>. QED  BY <3>2, <3>3, <3>4
  <2>2. PICK d \in Seq(S) : d = c \o w /\ IsConcat(d, c, w)
    BY <1>0
  <2>a. /\ Len(d) = lb - le + lw /\ \A i \in 1..(lb - le) : d[i] = c[i]
        /\ \A i \in 1..lw : d[lb - le + i] = w[i]
    <3>1. Len(c) = lb - le /\ Len(w) = lw
      BY <2>1, <1>1
    <3>. QED  BY <3>1, <2>2, Zenon DEF IsConcat
  <2>3. Len(d) = lr /\ Len(d) = Len(rest)
    BY <2>a, <1>1, <1>6
  <2>4. ASSUME NEW i \in 1..lr PROVE d[i] = rest[i]
    <3>1. rest[i] = a[le + i]
      BY <1>4
    <3>2. CASE i <= lb - le
      <4>1. i \in 1..(lb - le) /\ le + i \in 1..lb
        BY <1>7, <3>2
      <4>. QED  BY <4>1, <3>1, <2>1, <2>a, <1>3
    <3>3. CASE ~(i <= lb - le)
      <4>1. PICK j \in 1..lw : i = lb - le + j /\ le + i = lb + j
        <5>1. i - (lb - le) \in 1..lw
          BY <1>6, <1>7, <3>3
        <5>. QED  BY <5>1
      <4>. QED  BY <4>1, <3>1, <2>a, <1>3
    <3>. QED  BY <3>2, <3>3
  <2>5. d = rest
    BY <2>3, <2>4, SeqEqual
  <2>. QED  BY <2>1, <2>2, <2>5
<1>. QED  BY <1>1, <1>5, <1>6, <1>7

\* b has the elements of s after position m.
Holds(b, m, s) == \A j \in 1..Len(s) : b[m + j] = s[j]

\* A stretch of a sequence that is, element by element, another sequence.
LEMMA StretchIs ==
  ASSUME NEW S, NEW b, NEW s \in Seq(S), NEW m \in Nat,
         Holds(b, m, s)
  PROVE  SubSeq(b, m + 1, m + Len(s)) = s
<1>1. PICK n \in Nat : n = Len(s)
  OBVIOUS
<1>2. \A i \in (m + 1)..(m + n) : b[i] \in S
  <2>1. ASSUME NEW i \in (m + 1)..(m + n) PROVE b[i] \in S
    <3>1. i - m \in 1..n /\ m + (i - m) = i
      OBVIOUS
    <3>. QED  BY <3>1, <1>1, ElementOfSeq DEF Holds
  <2>. QED  BY <2>1
<1>3. PICK c \in Seq(S) : c = SubSeq(b, m + 1, m + n) /\ Len(c) = n
                           /\ \A i \in 1..n : c[i] = b[m + i]
  <2>1. /\ SubSeq(b, m + 1, m + n) \in Seq(S)
        /\ Len(SubSeq(b, m + 1, m + n)) = IF m + 1 <= m + n THEN m + n - (m + 1) + 1 ELSE 0
        /\ \A i \in 1..(m + n - (m + 1) + 1) : SubSeq(b, m + 1, m + n)[i] = b[m + 1 + i - 1]
    BY <1>2, SubSeqProperties
  <2>2. Len(SubSeq(b, m + 1, m + n)) = n
    BY <2>1
  <2>3. \A i \in 1..n : SubSeq(b, m + 1, m + n)[i] = b[m + i]
    BY <2>1
  <2>. QED  BY <2>1, <2>2, <2>3
<1>4. \A i \in 1..n : c[i] = s[i]
  BY <1>1, <1>3 DEF Holds
<1>5. c = s
  BY <1>1, <1>3, <1>4, SeqEqual
<1>. QED  BY <1>1, <1>3, <1>5

\* readMessage, once it has all it needs of a frame whose lengths fit, returns
\* that frame and consumes its encoding.
LEMMA DecodeEncode ==
  ASSUME NEW f \in Frames, Fits(f), NEW b \in Seq(Byte), NEW w \in Seq(Byte),
         NEW rest \in Seq(Byte), b \o w = Encode(f) \o rest, Complete(b)
  PROVE  Decode(b) = f /\ Size(b) = Len(Encode(f)) /\ Len(Encode(f)) <= Len(b)
<1>1. PICK t \in Byte, src \in Seq(Byte), dst \in Seq(Byte), p \in Seq(Byte) :
         t = f.type /\ src = f.src /\ dst = f.dst /\ p = f.payload
  BY FrameFields
<1>2. PICK ls \in Nat, ld \in Nat, lp \in Nat :
         ls = Len(src) /\ ld = Len(dst) /\ lp = Len(p)
  BY LenProperties
<1>3. PICK e \in Seq(Byte) : e = Encode(f)
  BY EncodeType
<1>4. PICK le \in Nat, lb \in Nat : le = Len(e) /\ lb = Len(b)
  BY LenProperties
<1>5. \A i \in 1..lb : i <= le => b[i] = e[i]
  BY <1>3, <1>4, SamePrefix
<1>6. lb >= 1 /\ le >= 1 /\ e[1] = t
  <2>1. b # <<>>
    BY DEF Complete
  <2>2. lb >= 1
    BY <1>4, <2>1, EmptySeq
  <2>. QED  BY <2>2, <1>1, <1>3, <1>4, EncodeLayout
<1>7. b[1] = t
  BY <1>5, <1>6
<1>8. f = [type |-> t, src |-> src, dst |-> dst, payload |-> p]
  BY <1>1, FrameFields DEF Message
<1>9. CASE ~HasNames(t)
  <2>1. t # Data
    BY <1>9, TagsAreBytes DEF HasNames
  <2>2. src = <<>> /\ dst = <<>> /\ p = <<>>
    BY <1>1, <1>9, <2>1, FrameFields
  <2>3. le = 1
    BY <1>1, <1>3, <1>4, <1>9, EncodeLayout
  <2>4. Decode(b) = f
    BY <1>7, <1>8, <1>9, <2>1, <2>2 DEF Decode
  <2>5. Size(b) = 1
    BY <1>7, <1>9 DEF Size
  <2>. QED  BY <2>3, <2>4, <2>5, <1>3, <1>4, <1>6
<1>10. CASE HasNames(t)
  <2>1. NamesAt(e, f)
    BY <1>1, <1>3, <1>10, EncodeLayout
  <2>2. /\ le >= 3 + ls + ld /\ e[2] = ls /\ e[3 + ls] = ld
        /\ \A j \in 1..ls : e[2 + j] = src[j]
        /\ \A j \in 1..ld : e[3 + ls + j] = dst[j]
    BY <2>1, <1>1, <1>2, <1>4, Zenon DEF NamesAt
  <2>3. NamesHere(b)
    BY <1>7, <1>10 DEF Complete
  <2>4. 2 <= lb /\ b[2] = ls
    <3>1. 2 <= lb
      BY <2>3, <1>4 DEF NamesHere, StringHere
    <3>. QED  BY <3>1, <2>2, <1>5
  <2>5. AfterString(b, 2) = 3 + ls
    BY <2>4 DEF AfterString
  <2>6. 3 + ls <= lb /\ b[3 + ls] = ld
    <3>1. 3 + ls <= lb
      BY <2>3, <2>5, <1>4 DEF NamesHere, StringHere
    <3>. QED  BY <3>1, <2>2, <1>5
  <2>7. LenPos(b) = 4 + ls + ld
    <3>1. AfterString(b, 3 + ls) = 3 + ls + 1 + ld
      BY <2>6 DEF AfterString
    <3>2. LenPos(b) = AfterString(b, 3 + ls)
      BY <2>5 DEF LenPos
    <3>. QED  BY <3>1, <3>2
  <2>8. 3 + ls + ld <= lb
    BY <2>3, <2>5, <2>6, <1>4 DEF NamesHere, StringHere
  <2>9. StringAt(b, 2) = src
    <3>1. \A j \in 1..ls : b[2 + j] = src[j]
      BY <2>2, <2>6, <1>5
    <3>2. SubSeq(b, 2 + 1, 2 + ls) = src
      <4>1. Holds(b, 2, src)
        BY <3>1, <1>2 DEF Holds
      <4>. QED  BY <4>1, <1>2, StretchIs
    <3>. QED  BY <3>2, <2>4 DEF StringAt
  <2>10. StringAt(b, AfterString(b, 2)) = dst
    <3>1. ASSUME NEW j \in 1..ld PROVE b[3 + ls + j] = dst[j]
      <4>1. 3 + ls + j \in 1..lb /\ 3 + ls + j <= le
        BY <2>2, <2>8
      <4>. QED  BY <4>1, <2>2, <1>5
    <3>2. SubSeq(b, (3 + ls) + 1, (3 + ls) + ld) = dst
      <4>1. 3 + ls \in Nat
        OBVIOUS
      <4>2. Holds(b, 3 + ls, dst)
        BY <3>1, <1>2 DEF Holds
      <4>. QED  BY <4>1, <4>2, <1>2, StretchIs
    <3>. QED  BY <3>2, <2>5, <2>6 DEF StringAt
  <2>11. CASE t # Data
    <3>1. p = <<>>
      BY <1>1, <2>11, FrameFields
    <3>2. le = 3 + ls + ld
      BY <1>1, <1>2, <1>3, <1>4, <1>10, <2>11, EncodeLayout
    <3>3. Size(b) = LenPos(b) - 1
      BY <1>7, <1>10, <2>11 DEF Size
    <3>4. Size(b) = le
      BY <3>2, <3>3, <2>7
    <3>5. Decode(b) = f
      BY <3>1, <1>7, <1>8, <1>10, <2>9, <2>10, <2>11 DEF Decode
    <3>. QED  BY <3>2, <3>4, <3>5, <2>8, <1>3, <1>4
  <2>12. CASE t = Data
    <3>1. DataAt(e, f, 3 + ls + ld)
      BY <1>1, <1>2, <1>3, <2>12, EncodeLayout
    <3>2. LenWidth \in Nat \ {0}
      BY StreamAssumption
    <3>3. PICK u \in Seq(Byte) : u = PutUint(lp) /\ Len(u) = LenWidth
      BY PutUintType
    <3>4. PICK m \in Nat : m = 3 + ls + ld
      OBVIOUS
    <3>5. /\ le = m + LenWidth + lp
          /\ \A k \in 1..LenWidth : e[m + k] = u[k]
          /\ \A j \in 1..lp : e[m + LenWidth + j] = p[j]
      BY <3>1, <3>3, <3>4, <1>1, <1>2, <1>4, Zenon DEF DataAt
    <3>6. LenHere(b) /\ Size(b) <= lb
      BY <1>4, <1>7, <2>12 DEF Complete
    <3>7. LenPos(b) = m + 1 /\ m + LenWidth <= lb
      <4>1. LenPos(b) = m + 1
        BY <2>7, <3>4
      <4>. QED  BY <4>1, <3>2, <3>4, <3>6, <1>4 DEF LenHere
    <3>8. SubSeq(b, m + 1, m + LenWidth) = u
      <4>1. ASSUME NEW k \in 1..LenWidth PROVE b[m + k] = u[k]
        <5>1. m + k \in 1..lb /\ m + k <= le
          BY <3>2, <3>5, <3>7, SMTT(30)
        <5>. QED  BY <5>1, <3>5, <1>5
      <4>2. Holds(b, m, u)
        BY <4>1, <3>3 DEF Holds
      <4>. QED  BY <4>2, <3>3, StretchIs
    <3>9. UintAt(b, LenPos(b)) = lp
      <4>1. (m + 1) + LenWidth - 1 = m + LenWidth
        BY <3>2
      <4>2. UintAt(b, LenPos(b)) = Number(u, Base)
        BY <4>1, <3>7, <3>8 DEF UintAt
      <4>3. FitsIn(lp, Base, LenWidth)
        BY <1>1, <1>2, <2>12 DEF Fits
      <4>. QED  BY <4>2, <4>3, <3>2, <3>3, BytesAreNumbers, NumberOfDigits DEF PutUint
    <3>10. Size(b) = le
      <4>1. Size(b) = LenPos(b) + LenWidth - 1 + UintAt(b, LenPos(b))
        BY <1>7, <1>10, <2>12 DEF Size
      <4>. QED  BY <4>1, <3>2, <3>5, <3>7, <3>9
    <3>11. SubSeq(b, LenPos(b) + LenWidth, Size(b)) = p
      <4>1. ASSUME NEW j \in 1..lp PROVE b[m + LenWidth + j] = p[j]
        <5>1. m + LenWidth + j \in 1..lb /\ m + LenWidth + j <= le
          BY <3>2, <3>5, <3>6, <3>10
        <5>. QED  BY <5>1, <3>5, <1>5
      <4>2. m + LenWidth \in Nat
        BY <3>2
      <4>3. SubSeq(b, (m + LenWidth) + 1, (m + LenWidth) + lp) = p
        <5>1. Holds(b, m + LenWidth, p)
          BY <4>1, <1>2 DEF Holds
        <5>. QED  BY <5>1, <4>2, <1>2, StretchIs
      <4>4. LenPos(b) + LenWidth = (m + LenWidth) + 1 /\ Size(b) = (m + LenWidth) + lp
        BY <3>2, <3>5, <3>7, <3>10
      <4>. QED  BY <4>3, <4>4
    <3>12. Decode(b) = f
      BY <3>11, <1>7, <1>8, <1>10, <2>9, <2>10, <2>12 DEF Decode
    <3>. QED  BY <3>6, <3>10, <3>12, <1>3, <1>4
  <2>. QED  BY <2>11, <2>12
<1>. QED  BY <1>9, <1>10

\* The bytes readMessage consumes, whatever they are.
LEMMA SizeInBounds ==
  ASSUME NEW b \in Seq(Byte), Complete(b)
  PROVE  /\ Size(b) \in 1..Len(b) /\ Decode(b) \in Message
<1>1. PICK lb \in Nat : lb = Len(b)
  BY LenProperties
<1>2. lb >= 1
  BY <1>1, EmptySeq DEF Complete
<1>3. \A i \in 1..lb : b[i] \in Byte /\ b[i] \in Nat
  BY <1>1, ElementOfSeq, BytesAreNumbers
<1>4. PICK t \in Byte : t = b[1]
  BY <1>2, <1>3
<1>a. <<>> \in Seq(Byte)
  OBVIOUS
<1>5. CASE ~HasNames(t)
  <2>1. t # Data
    BY <1>5, TagsAreBytes DEF HasNames
  <2>2. Size(b) = 1
    BY <1>4, <1>5 DEF Size
  <2>3. Decode(b) = [type |-> t, src |-> <<>>, dst |-> <<>>, payload |-> <<>>]
    BY <1>4, <1>5, <2>1 DEF Decode
  <2>. QED  BY <1>1, <1>2, <1>a, <2>2, <2>3 DEF Message
<1>6. CASE HasNames(t)
  <2>1. NamesHere(b)
    BY <1>4, <1>6 DEF Complete
  <2>2. 2 <= lb
    BY <2>1, <1>1 DEF NamesHere, StringHere
  <2>3. PICK ls \in Nat : ls = b[2]
    BY <2>2, <1>3
  <2>4. AfterString(b, 2) = 3 + ls
    BY <2>3 DEF AfterString
  <2>5. 3 + ls <= lb
    BY <2>1, <2>4, <1>1 DEF NamesHere, StringHere
  <2>6. PICK ld \in Nat : ld = b[3 + ls]
    BY <2>5, <1>3
  <2>7. 3 + ls + ld <= lb
    BY <2>1, <2>4, <2>6, <1>1 DEF NamesHere, StringHere
  <2>8. LenPos(b) = 4 + ls + ld
    <3>1. AfterString(b, 3 + ls) = 3 + ls + 1 + ld
      BY <2>6 DEF AfterString
    <3>2. LenPos(b) = AfterString(b, 3 + ls)
      BY <2>4 DEF LenPos
    <3>. QED  BY <3>1, <3>2
  <2>9. StringAt(b, 2) \in Seq(Byte)
    <3>1. \A i \in 3..(2 + ls) : b[i] \in Byte
      BY <2>5, <1>3
    <3>2. SubSeq(b, 3, 2 + ls) \in Seq(Byte)
      BY <3>1, SubSeqProperties
    <3>. QED  BY <3>2, <2>3 DEF StringAt
  <2>10. StringAt(b, AfterString(b, 2)) \in Seq(Byte)
    <3>1. \A i \in (3 + ls + 1)..(3 + ls + ld) : b[i] \in Byte
      BY <2>7, <1>3
    <3>2. SubSeq(b, 3 + ls + 1, 3 + ls + ld) \in Seq(Byte)
      BY <3>1, SubSeqProperties
    <3>. QED  BY <3>2, <2>4, <2>6 DEF StringAt
  <2>11. CASE t # Data
    <3>1. Size(b) = 3 + ls + ld
      BY <1>4, <1>6, <2>8, <2>11 DEF Size
    <3>2. Decode(b) = [type |-> t, src |-> StringAt(b, 2),
                       dst |-> StringAt(b, AfterString(b, 2)), payload |-> <<>>]
      BY <1>4, <1>6, <2>11 DEF Decode
    <3>. QED  BY <1>1, <1>a, <2>7, <2>9, <2>10, <3>1, <3>2 DEF Message
  <2>12. CASE t = Data
    <3>1. LenHere(b) /\ Size(b) <= lb
      BY <1>1, <1>4, <2>12 DEF Complete
    <3>2. PICK m \in Nat, w \in Nat \ {0} : m = 3 + ls + ld /\ w = LenWidth
      BY StreamAssumption
    <3>3. LenPos(b) = m + 1 /\ m + w <= lb
      <4>1. LenPos(b) = m + 1
        BY <2>8, <3>2
      <4>. QED  BY <4>1, <3>1, <3>2, <1>1 DEF LenHere
    <3>4. UintAt(b, LenPos(b)) \in Nat
      <4>1. /\ SubSeq(b, m + 1, m + w) \in Seq(Byte)
            /\ Len(SubSeq(b, m + 1, m + w)) = w
        <5>1. \A i \in (m + 1)..(m + w) : b[i] \in Byte
          BY <3>3, <1>3
        <5>2. /\ SubSeq(b, m + 1, m + w) \in Seq(Byte)
              /\ Len(SubSeq(b, m + 1, m + w)) =
                    IF m + 1 <= m + w THEN m + w - (m + 1) + 1 ELSE 0
          BY <5>1, SubSeqProperties
        <5>. QED  BY <5>2
      <4>2. PICK d \in [1..w -> 0..(Base - 1)] : d = SubSeq(b, m + 1, m + w)
        BY <4>1, LenProperties DEF Byte
      <4>3. Number(d, Base) \in Nat
        BY BytesAreNumbers, DigitsOfNumber
      <4>4. (m + 1) + LenWidth - 1 = m + w
        BY <3>2
      <4>. QED  BY <4>2, <4>3, <4>4, <3>3 DEF UintAt
    <3>5. PICK n \in Nat : n = UintAt(b, LenPos(b))
      BY <3>4
    <3>6. Size(b) = m + w + n
      <4>1. Size(b) = LenPos(b) + LenWidth - 1 + UintAt(b, LenPos(b))
        BY <1>4, <1>6, <2>12 DEF Size
      <4>. QED  BY <4>1, <3>2, <3>3, <3>5
    <3>7. SubSeq(b, LenPos(b) + LenWidth, Size(b)) \in Seq(Byte)
      <4>1. \A i \in (m + 1 + w)..(m + w + n) : b[i] \in Byte
        BY <3>1, <3>6, <1>3
      <4>2. SubSeq(b, m + 1 + w, m + w + n) \in Seq(Byte)
        BY <4>1, SubSeqProperties
      <4>. QED  BY <4>2, <3>2, <3>3, <3>6
    <3>8. Decode(b) = [type |-> t, src |-> StringAt(b, 2),
                       dst |-> StringAt(b, AfterString(b, 2)),
                       payload |-> SubSeq(b, LenPos(b) + LenWidth, Size(b))]
      BY <1>4, <1>6, <2>12 DEF Decode
    <3>9. Size(b) \in 1..lb
      BY <3>1, <3>6
    <3>. QED  BY <1>1, <2>9, <2>10, <3>7, <3>8, <3>9 DEF Message
  <2>. QED  BY <2>11, <2>12
<1>. QED  BY <1>5, <1>6

-----------------------------------------------------------------------------
\* The bytes and messages of a connection have their types: readMessage never
\* consumes more than has arrived, whatever the bytes are.
THEOREM StreamTypeCorrect == Spec => []TypeOK
<1>1. Init => TypeOK
  <2>1. <<>> \in Seq(Frames) /\ <<>> \in Seq(Byte) /\ <<>> \in Seq(Message) /\ Len(<<>>) = 0
    OBVIOUS
  <2>2. 0 <= MaxFrames
    BY StreamAssumption
  <2>. QED  BY <2>1, <2>2 DEF Init, TypeOK
<1>2. ASSUME TypeOK, [Next]_vars PROVE TypeOK'
  <2>. USE <1>2
  <2>1. ASSUME NEW f \in Frames, SendMessage(f) PROVE TypeOK'
    <3>1. sent' \in Seq(Frames) /\ Len(sent') <= MaxFrames
      BY <2>1, StreamAssumption DEF SendMessage, TypeOK
    <3>2. wire' \in Seq(Byte)
      BY <2>1, EncodeType, ConcatProperties DEF SendMessage, TypeOK
    <3>. QED  BY <2>1, <3>1, <3>2 DEF SendMessage, TypeOK
  <2>2. CASE Arrive
    <3>1. Head(wire) \in Byte /\ Tail(wire) \in Seq(Byte)
      BY <2>2, HeadTailProperties DEF Arrive, TypeOK
    <3>2. avail' \in Seq(Byte) /\ wire' \in Seq(Byte)
      BY <2>2, <3>1 DEF Arrive, TypeOK
    <3>. QED  BY <2>2, <3>2 DEF Arrive, TypeOK
  <2>3. CASE ReadMessage
    <3>1. avail \in Seq(Byte) /\ Complete(avail) /\ handled \in Seq(Message)
      BY <2>3 DEF ReadMessage, TypeOK
    <3>2. Size(avail) \in 1..Len(avail) /\ Decode(avail) \in Message
      BY <3>1, SizeInBounds
    <3>3. handled' \in Seq(Message)
      BY <2>3, <3>1, <3>2, AppendProperties DEF ReadMessage
    <3>4. avail' \in Seq(Byte)
      <4>1. \A i \in (Size(avail) + 1)..Len(avail) : avail[i] \in Byte
        BY <3>1, <3>2, ElementOfSeq
      <4>2. Size(avail) + 1 \in Int /\ Len(avail) \in Int
        BY <3>1, <3>2
      <4>. QED  BY <4>1, <4>2, <2>3, SubSeqProperties DEF ReadMessage
    <3>5. phase' \in {"first", "loop", "closed"}
      BY <2>3 DEF ReadMessage
    <3>. QED  BY <2>3, <3>3, <3>4, <3>5 DEF ReadMessage, TypeOK
  <2>4. CASE ReadTooLarge
    BY <2>4 DEF ReadTooLarge, TypeOK
  <2>5. CASE ReadDeadline
    BY <2>5 DEF ReadDeadline, TypeOK
  <2>6. CASE UNCHANGED vars
    BY <2>6 DEF vars, TypeOK
  <2>. QED  BY <2>1, <2>2, <2>3, <2>4, <2>5, <2>6 DEF Next
<1>. QED  BY <1>1, <1>2, PTL DEF Spec

-----------------------------------------------------------------------------
(* The frame boundary.                                                     *)

\* The encodings of the frames after the first n.
Encodings(s, n) == [i \in 1..(Len(s) - n) |-> Encode(s[n + i])]

\* The first i frames are there, and their lengths fit.
SoundIn(s, i) == i <= Len(s) /\ \A j \in 1..i : Fits(s[j])

\* Encodings are sequences of bytes.
LEMMA EncodingsType ==
  ASSUME NEW s \in Seq(Frames), NEW n \in 0..Len(s)
  PROVE  Encodings(s, n) \in Seq(Seq(Byte)) /\ Len(Encodings(s, n)) = Len(s) - n
<1>1. PICK m \in Nat : m = Len(s) - n
  OBVIOUS
<1>2. ASSUME NEW i \in 1..m PROVE Encode(s[n + i]) \in Seq(Byte)
  <2>1. s[n + i] \in Frames
    BY <1>1, ElementOfSeq
  <2>. QED  BY <2>1, EncodeType
<1>3. Encodings(s, n) \in [1..m -> Seq(Byte)]
  BY <1>1, <1>2 DEF Encodings
<1>. QED  BY <1>1, <1>3

\* a is s and then x.
IsAppend(a, s, x) ==
    /\ Len(a) = Len(s) + 1 /\ a[Len(s) + 1] = x
    /\ \A i \in 1..Len(s) : a[i] = s[i]

\* Append, said of its elements.
LEMMA AppendIs ==
  ASSUME NEW S, NEW s \in Seq(S), NEW x \in S
  PROVE  Append(s, x) \in Seq(S) /\ IsAppend(Append(s, x), s, x)
BY AppendProperties DEF IsAppend

\* sendMessage adds an encoding at the end.
LEMMA EncodingsAppend ==
  ASSUME NEW s \in Seq(Frames), NEW f \in Frames, NEW n \in 0..Len(s)
  PROVE  FlattenSeq(Encodings(Append(s, f), n)) = FlattenSeq(Encodings(s, n)) \o Encode(f)
<1>1. PICK m \in Nat, l \in Nat : l = Len(s) /\ m = l - n
  OBVIOUS
<1>2. PICK a \in Seq(Frames) : /\ a = Append(s, f) /\ Len(a) = l + 1 /\ a[l + 1] = f
                               /\ \A i \in 1..l : a[i] = s[i]
  <2>1. Append(s, f) \in Seq(Frames) /\ IsAppend(Append(s, f), s, f)
    BY AppendIs
  <2>. QED  BY <2>1, <1>1, Zenon DEF IsAppend
<1>3. PICK old \in Seq(Seq(Byte)) : /\ old = Encodings(s, n) /\ Len(old) = m
                                    /\ \A i \in 1..m : old[i] = Encode(s[n + i])
  BY <1>1, EncodingsType DEF Encodings
<1>4. n \in 0..Len(a)
  BY <1>1, <1>2
<1>5. PICK new \in Seq(Seq(Byte)) : /\ new = Encodings(a, n) /\ Len(new) = m + 1
                                    /\ \A i \in 1..(m + 1) : new[i] = Encode(a[n + i])
  <2>1. Len(a) - n = m + 1
    BY <1>1, <1>2
  <2>. QED  BY <1>4, <2>1, EncodingsType DEF Encodings
<1>6. PICK e \in Seq(Byte) : e = Encode(f)
  BY EncodeType
<1>7. PICK app \in Seq(Seq(Byte)) : /\ app = Append(old, e) /\ Len(app) = m + 1
                                    /\ app[m + 1] = e /\ \A i \in 1..m : app[i] = old[i]
  <2>1. Append(old, e) \in Seq(Seq(Byte)) /\ IsAppend(Append(old, e), old, e)
    BY AppendIs
  <2>. QED  BY <2>1, <1>3, Zenon DEF IsAppend
<1>8. ASSUME NEW i \in 1..(m + 1) PROVE new[i] = app[i]
  <2>1. CASE i = m + 1
    <3>1. n + i = l + 1
      BY <2>1, <1>1
    <3>. QED  BY <3>1, <2>1, <1>2, <1>5, <1>6, <1>7
  <2>2. CASE i # m + 1
    <3>1. i \in 1..m /\ n + i \in 1..l
      BY <2>2, <1>1, SMTT(30)
    <3>2. a[n + i] = s[n + i]
      BY <3>1, <1>2
    <3>. QED  BY <3>1, <3>2, <1>3, <1>5, <1>7
  <2>. QED  BY <2>1, <2>2
<1>9. new = app
  BY <1>5, <1>7, <1>8, SeqEqual
<1>10. FlattenSeq(Append(old, e)) = FlattenSeq(old) \o e
  BY FlattenAppend
<1>. QED  BY <1>2, <1>3, <1>5, <1>6, <1>7, <1>9, <1>10

\* readMessage takes one from the front.
LEMMA EncodingsHead ==
  ASSUME NEW s \in Seq(Frames), NEW n \in Nat, n + 1 <= Len(s)
  PROVE  FlattenSeq(Encodings(s, n)) = Encode(s[n + 1]) \o FlattenSeq(Encodings(s, n + 1))
<1>1. n \in 0..Len(s) /\ n + 1 \in 0..Len(s) /\ Len(s) \in Nat
  OBVIOUS
<1>2. PICK m \in Nat : m = Len(s) - (n + 1)
  <2>1. PICK l \in Nat : l = Len(s)
    BY <1>1
  <2>2. l - (n + 1) \in Nat
    BY <2>1
  <2>. QED  BY <2>1, <2>2
<1>3. PICK all \in Seq(Seq(Byte)) : /\ all = Encodings(s, n) /\ Len(all) = m + 1
                                    /\ \A i \in 1..(m + 1) : all[i] = Encode(s[n + i])
  <2>1. Len(s) - n = m + 1
    BY <1>2
  <2>. QED  BY <1>1, <2>1, EncodingsType DEF Encodings
<1>4. PICK rest \in Seq(Seq(Byte)) : /\ rest = Encodings(s, n + 1) /\ Len(rest) = m
                                     /\ \A i \in 1..m : rest[i] = Encode(s[n + 1 + i])
  BY <1>1, <1>2, EncodingsType DEF Encodings
<1>5. PICK e \in Seq(Byte) : e = Encode(s[n + 1])
  <2>1. s[n + 1] \in Frames
    BY <1>1, ElementOfSeq
  <2>. QED  BY <2>1, EncodeType
<1>6. IsCons(all, e, rest)
  <2>1. all[1] = e
    BY <1>3, <1>5
  <2>2. ASSUME NEW i \in 1..m PROVE all[i + 1] = rest[i]
    <3>1. i + 1 \in 1..(m + 1) /\ n + (i + 1) = n + 1 + i
      OBVIOUS
    <3>. QED  BY <3>1, <1>3, <1>4
  <2>. QED  BY <2>1, <2>2, <1>3, <1>4 DEF IsCons
<1>7. FlattenSeq(all) = e \o FlattenSeq(rest)
  BY <1>6, FlattenHead
<1>. QED  BY <1>3, <1>4, <1>5, <1>7

\* One call of readMessage on a stream that begins at a frame boundary.
LEMMA ReadStep ==
  ASSUME NEW s \in Seq(Frames), NEW n \in Nat, SoundIn(s, n + 1),
         NEW b \in Seq(Byte), NEW w \in Seq(Byte),
         b \o w = FlattenSeq(Encodings(s, n)), Complete(b)
  PROVE  /\ Decode(b) = s[n + 1]
         /\ SubSeq(b, Size(b) + 1, Len(b)) \o w = FlattenSeq(Encodings(s, n + 1))
<1>1. n + 1 <= Len(s) /\ n + 1 \in 1..Len(s) /\ n + 1 \in 0..Len(s)
  BY DEF SoundIn
<1>2. PICK f \in Frames : f = s[n + 1] /\ Fits(f)
  BY <1>1, ElementOfSeq DEF SoundIn
<1>3. PICK rest \in Seq(Byte) : rest = FlattenSeq(Encodings(s, n + 1))
  <2>1. Encodings(s, n + 1) \in Seq(Seq(Byte))
    BY <1>1, EncodingsType
  <2>. QED  BY <2>1, FlattenType
<1>4. b \o w = Encode(f) \o rest
  BY <1>1, <1>2, <1>3, EncodingsHead
<1>5. Decode(b) = f /\ Size(b) = Len(Encode(f)) /\ Len(Encode(f)) <= Len(b)
  BY <1>2, <1>4, DecodeEncode
<1>6. SubSeq(b, Len(Encode(f)) + 1, Len(b)) \o w = rest
  <2>1. PICK e \in Seq(Byte) : e = Encode(f)
    BY EncodeType
  <2>2. b \o w = e \o rest /\ Len(e) <= Len(b)
    BY <2>1, <1>4, <1>5
  <2>3. SubSeq(b, Len(e) + 1, Len(b)) \o w = rest
    BY <2>2, SamePrefix
  <2>. QED  BY <2>1, <2>3
<1>. QED  BY <1>2, <1>3, <1>5, <1>6

\* What CleanPrefix and InSync say of a reader that no deadline has torn.
Clean(s, h) ==
    /\ \A i \in 1..Len(h) : SoundIn(s, i) => h[i] = s[i]
    /\ SoundIn(s, Len(s)) => Len(h) <= Len(s)

\* The bytes ahead of a reader are the frames after the first n.
Synced(s, n, b, w) == SoundIn(s, n) => b \o w = FlattenSeq(Encodings(s, n))

\* A frame more does not change which of the earlier ones are sound.
LEMMA SoundAppend ==
  ASSUME NEW s \in Seq(Frames), NEW f \in Frames, NEW i \in Nat,
         SoundIn(Append(s, f), i)
  PROVE  i <= Len(s) + 1 /\ SoundIn(s, IF i <= Len(s) THEN i ELSE Len(s))
<1>1. PICK l \in Nat : l = Len(s)
  BY LenProperties
<1>2. PICK a : a = Append(s, f) /\ Len(a) = l + 1 /\ \A j \in 1..l : a[j] = s[j]
  <2>1. IsAppend(Append(s, f), s, f)
    BY AppendIs
  <2>. QED  BY <2>1, <1>1, Zenon DEF IsAppend
<1>3. i <= l + 1 /\ \A j \in 1..i : Fits(a[j])
  BY <1>2 DEF SoundIn
<1>4. CASE i <= l
  <2>1. \A j \in 1..i : Fits(s[j])
    BY <1>2, <1>3, <1>4
  <2>. QED  BY <2>1, <1>1, <1>3, <1>4 DEF SoundIn
<1>5. CASE ~(i <= l)
  <2>1. \A j \in 1..l : Fits(s[j])
    BY <1>2, <1>3, <1>5
  <2>. QED  BY <2>1, <1>1, <1>3, <1>5 DEF SoundIn
<1>. QED  BY <1>4, <1>5

\* sendMessage keeps the reader clean and in step.
LEMMA SendKeeps ==
  ASSUME NEW s \in Seq(Frames), NEW f \in Frames, NEW h \in Seq(Message),
         NEW b \in Seq(Byte), NEW w \in Seq(Byte), Clean(s, h)
  PROVE  /\ Clean(Append(s, f), h)
         /\ Synced(s, Len(h), b, w) => Synced(Append(s, f), Len(h), b, w \o Encode(f))
<1>1. PICK l \in Nat, n \in Nat : l = Len(s) /\ n = Len(h)
  BY LenProperties
<1>2. PICK a : a = Append(s, f) /\ Len(a) = l + 1 /\ \A j \in 1..l : a[j] = s[j]
  <2>1. IsAppend(Append(s, f), s, f)
    BY AppendIs
  <2>. QED  BY <2>1, <1>1, Zenon DEF IsAppend
<1>3. /\ \A i \in 1..n : SoundIn(s, i) => h[i] = s[i]
      /\ SoundIn(s, l) => n <= l
  BY <1>1 DEF Clean
<1>4. ASSUME NEW i \in Nat, SoundIn(a, i), i <= n PROVE i <= l /\ SoundIn(s, i)
  <2>1. i <= l + 1 /\ SoundIn(s, IF i <= l THEN i ELSE l)
    BY <1>1, <1>2, <1>4, SoundAppend
  <2>. QED  BY <2>1, <1>3, <1>4
<1>5. Clean(a, h)
  <2>1. ASSUME NEW i \in 1..n, SoundIn(a, i) PROVE h[i] = a[i]
    <3>1. i \in Nat /\ i <= n
      OBVIOUS
    <3>2. i <= l /\ SoundIn(s, i)
      BY <3>1, <2>1, <1>4
    <3>. QED  BY <3>1, <3>2, <1>2, <1>3
  <2>2. ASSUME SoundIn(a, l + 1) PROVE n <= l + 1
    <3>1. l + 1 \in Nat /\ ~(l + 1 <= l)
      OBVIOUS
    <3>. QED  BY <2>2, <3>1, <1>4
  <2>. QED  BY <2>1, <2>2, <1>1, <1>2 DEF Clean
<1>6. ASSUME Synced(s, n, b, w), SoundIn(a, n)
      PROVE  b \o (w \o Encode(f)) = FlattenSeq(Encodings(a, n))
  <2>1. n <= l /\ SoundIn(s, n)
    BY <1>4, <1>6
  <2>2. b \o w = FlattenSeq(Encodings(s, n))
    BY <2>1, <1>6 DEF Synced
  <2>3. PICK e \in Seq(Byte) : e = Encode(f)
    BY EncodeType
  <2>4. b \o (w \o e) = (b \o w) \o e
    OBVIOUS
  <2>5. n \in 0..Len(s)
    BY <2>1, <1>1
  <2>6. FlattenSeq(Encodings(a, n)) = FlattenSeq(Encodings(s, n)) \o Encode(f)
    BY <2>5, <1>2, EncodingsAppend
  <2>. QED  BY <2>2, <2>3, <2>4, <2>6, Zenon
<1>. QED  BY <1>1, <1>2, <1>5, <1>6 DEF Synced

\* So does readMessage.
LEMMA ReadKeeps ==
  ASSUME NEW s \in Seq(Frames), NEW h \in Seq(Message),
         NEW b \in Seq(Byte), NEW w \in Seq(Byte), Clean(s, h),
         Synced(s, Len(h), b, w), Complete(b)
  PROVE  /\ Clean(s, Append(h, Decode(b)))
         /\ Synced(s, Len(h) + 1, SubSeq(b, Size(b) + 1, Len(b)), w)
<1>1. PICK l \in Nat, n \in Nat : l = Len(s) /\ n = Len(h)
  BY LenProperties
<1>2. PICK a : /\ a = Append(h, Decode(b)) /\ Len(a) = n + 1 /\ a[n + 1] = Decode(b)
               /\ \A j \in 1..n : a[j] = h[j]
  <2>1. Decode(b) \in Message
    BY SizeInBounds
  <2>2. IsAppend(Append(h, Decode(b)), h, Decode(b))
    BY <2>1, AppendIs
  <2>. QED  BY <2>2, <1>1, Zenon DEF IsAppend
<1>3. /\ \A i \in 1..n : SoundIn(s, i) => h[i] = s[i]
      /\ SoundIn(s, l) => n <= l
  BY <1>1 DEF Clean
<1>4. ASSUME SoundIn(s, n + 1)
      PROVE  /\ Decode(b) = s[n + 1]
             /\ SubSeq(b, Size(b) + 1, Len(b)) \o w = FlattenSeq(Encodings(s, n + 1))
  <2>1. SoundIn(s, n)
    BY <1>1, <1>4 DEF SoundIn
  <2>2. b \o w = FlattenSeq(Encodings(s, n))
    BY <2>1, <1>1 DEF Synced
  <2>. QED  BY <2>2, <1>4, ReadStep
<1>5. ASSUME SoundIn(s, l) PROVE n + 1 <= l
  <2>1. n <= l
    BY <1>3, <1>5
  <2>2. ASSUME n = l PROVE FALSE
    <3>1. b \o w = FlattenSeq(Encodings(s, n))
      BY <2>2, <1>1, <1>5 DEF Synced
    <3>2. Encodings(s, n) = <<>>
      <4>1. n \in 0..Len(s) /\ Len(s) - n = 0
        BY <1>1, <2>2
      <4>2. Encodings(s, n) \in Seq(Seq(Byte)) /\ Len(Encodings(s, n)) = 0
        BY <4>1, EncodingsType
      <4>. QED  BY <4>2, EmptySeq
    <3>3. b \o w = <<>>
      BY <3>1, <3>2, FlattenEmpty
    <3>4. Len(b \o w) = Len(b) + Len(w) /\ Len(b) \in Nat /\ Len(w) \in Nat
      BY ConcatProperties, LenProperties
    <3>5. Len(b) = 0
      BY <3>3, <3>4
    <3>. QED  BY <3>5, EmptySeq DEF Complete
  <2>. QED  BY <2>1, <2>2
<1>6. Clean(s, a)
  <2>1. ASSUME NEW i \in 1..(n + 1), SoundIn(s, i) PROVE a[i] = s[i]
    <3>1. CASE i = n + 1
      BY <3>1, <2>1, <1>2, <1>4
    <3>2. CASE i # n + 1
      BY <3>2, <2>1, <1>2, <1>3
    <3>. QED  BY <3>1, <3>2
  <2>. QED  BY <2>1, <1>1, <1>2, <1>5 DEF Clean
<1>. QED  BY <1>1, <1>2, <1>4, <1>6 DEF Synced

\* TCP moves a byte from the wire to the reader.
LEMMA ArriveKeeps ==
  ASSUME NEW b \in Seq(Byte), NEW w \in Seq(Byte), w # <<>>
  PROVE  Append(b, Head(w)) \o Tail(w) = b \o w
<1>0. PICK x \in Byte, t \in Seq(Byte) :
         /\ x = Head(w) /\ t = Tail(w) /\ Len(t) = Len(w) - 1
         /\ \A i \in 1..Len(t) : t[i] = w[i + 1]
  <2>1. /\ Head(w) \in Byte /\ Tail(w) \in Seq(Byte) /\ Len(Tail(w)) = Len(w) - 1
        /\ \A i \in 1..Len(Tail(w)) : Tail(w)[i] = w[i + 1]
    BY HeadTailProperties
  <2>. QED  BY <2>1, Zenon
<1>1. w = <<x>> \o t
  <2>1. x = w[1] /\ Len(w) >= 1
    BY <1>0, EmptySeq
  <2>2. PICK c \in Seq(Byte) : c = <<x>> \o t /\ Len(c) = Len(w)
                               /\ c[1] = x /\ \A i \in 2..Len(w) : c[i] = t[i - 1]
    BY <1>0, <2>1
  <2>3. \A i \in 1..Len(w) : w[i] = c[i]
    BY <1>0, <2>1, <2>2
  <2>. QED  BY <2>2, <2>3, SeqEqual
<1>2. Append(b, x) = b \o <<x>>
  OBVIOUS
<1>3. (b \o <<x>>) \o t = b \o (<<x>> \o t)
  OBVIOUS
<1>. QED  BY <1>0, <1>1, <1>2, <1>3, Zenon

\* However TCP cuts the stream, readMessage returns the messages given to
\* sendMessage in order, and between two calls it stands at the boundary of a frame,
\* up to the first length that does not fit its bytes on the wire.
StreamInv == TypeOK /\ CleanPrefix /\ InSync

\* StreamInv, over the state's functions.
LEMMA StreamInvIs ==
  TypeOK =>
      /\ CleanPrefix <=> (~torn => Clean(sent, handled))
      /\ InSync <=> (~torn /\ phase # "closed" => Synced(sent, Len(handled), avail, wire))
<1>. SUFFICES ASSUME TypeOK
              PROVE  /\ CleanPrefix <=> (~torn => Clean(sent, handled))
                     /\ InSync <=> (~torn /\ phase # "closed" =>
                                       Synced(sent, Len(handled), avail, wire))
  OBVIOUS
<1>1. DOMAIN handled = 1..Len(handled)
  BY LenProperties DEF TypeOK
<1>2. \A i : Sound(i) <=> SoundIn(sent, i)
  BY DEF Sound, SoundIn
<1>3. Pending(Len(handled)) = Encodings(sent, Len(handled))
  BY DEF Pending, Encodings
<1>4. CleanPrefix <=> (~torn => Clean(sent, handled))
  BY <1>1, <1>2 DEF CleanPrefix, Clean
<1>. QED  BY <1>2, <1>3, <1>4, Zenon DEF InSync, Synced

\* Every step of the connection preserves the two.
LEMMA StreamStep ==
  ASSUME StreamInv, TypeOK', [Next]_vars
  PROVE  CleanPrefix' /\ InSync'
<1>1. /\ sent \in Seq(Frames) /\ handled \in Seq(Message)
      /\ avail \in Seq(Byte) /\ wire \in Seq(Byte)
  BY DEF StreamInv, TypeOK
<1>2. /\ ~torn => Clean(sent, handled)
      /\ ~torn /\ phase # "closed" => Synced(sent, Len(handled), avail, wire)
  BY StreamInvIs DEF StreamInv
<1>3. /\ CleanPrefix' <=> (~torn' => Clean(sent', handled'))
      /\ InSync' <=> (~torn' /\ phase' # "closed" =>
                         Synced(sent', Len(handled'), avail', wire'))
  <2>1. DOMAIN handled' = 1..Len(handled')
    BY LenProperties DEF TypeOK
  <2>2. \A i : Sound(i)' <=> SoundIn(sent', i)
    BY DEF Sound, SoundIn
  <2>3. Pending(Len(handled))' = Encodings(sent', Len(handled'))
    BY DEF Pending, Encodings
  <2>4. CleanPrefix' <=> (~torn' => Clean(sent', handled'))
    BY <2>1, <2>2 DEF CleanPrefix, Clean
  <2>. QED  BY <2>2, <2>3, <2>4, Zenon DEF InSync, Synced
<1>. SUFFICES /\ ~torn' => Clean(sent', handled')
              /\ ~torn' /\ phase' # "closed" => Synced(sent', Len(handled'), avail', wire')
  BY <1>3
<1>4. ASSUME NEW f \in Frames, SendMessage(f)
      PROVE  /\ ~torn' => Clean(sent', handled')
             /\ ~torn' /\ phase' # "closed" => Synced(sent', Len(handled'), avail', wire')
  <2>1. /\ sent' = Append(sent, f) /\ wire' = wire \o Encode(f)
        /\ avail' = avail /\ handled' = handled /\ phase' = phase /\ torn' = torn
    BY <1>4 DEF SendMessage
  <2>2. ASSUME ~torn
        PROVE  /\ Clean(Append(sent, f), handled)
               /\ Synced(sent, Len(handled), avail, wire) =>
                     Synced(Append(sent, f), Len(handled), avail, wire \o Encode(f))
    BY <1>1, <1>2, <2>2, SendKeeps
  <2>. QED  BY <1>2, <2>1, <2>2, Zenon
<1>5. CASE Arrive
  <2>1. /\ wire # <<>> /\ avail' = Append(avail, Head(wire)) /\ wire' = Tail(wire)
        /\ sent' = sent /\ handled' = handled /\ phase' = phase /\ torn' = torn
    BY <1>5 DEF Arrive
  <2>2. avail' \o wire' = avail \o wire
    BY <1>1, <2>1, ArriveKeeps, Zenon
  <2>. QED  BY <1>2, <2>1, <2>2, Zenon DEF Synced
<1>6. CASE ReadMessage
  <2>1. /\ phase # "closed" /\ Complete(avail)
        /\ handled' = Append(handled, Decode(avail))
        /\ avail' = SubSeq(avail, Size(avail) + 1, Len(avail))
        /\ sent' = sent /\ wire' = wire /\ torn' = torn
    BY <1>6 DEF ReadMessage
  <2>2. Len(handled') = Len(handled) + 1
    <3>1. Decode(avail) \in Message
      BY <1>1, <2>1, SizeInBounds
    <3>. QED  BY <3>1, <1>1, <2>1, AppendIs DEF IsAppend
  <2>3. ASSUME ~torn
        PROVE  /\ Clean(sent, Append(handled, Decode(avail)))
               /\ Synced(sent, Len(handled) + 1,
                         SubSeq(avail, Size(avail) + 1, Len(avail)), wire)
    BY <1>1, <1>2, <2>1, <2>3, ReadKeeps
  <2>. QED  BY <2>1, <2>2, <2>3, Zenon
<1>7. CASE ReadTooLarge
  BY <1>2, <1>7 DEF ReadTooLarge
<1>8. CASE ReadDeadline
  BY <1>8 DEF ReadDeadline
<1>9. CASE UNCHANGED vars
  BY <1>2, <1>9, Zenon DEF vars
<1>. QED  BY <1>4, <1>5, <1>6, <1>7, <1>8, <1>9 DEF Next

\* The invariant holds in every state of a connection.
LEMMA StreamInvariant == Spec => []StreamInv
<1>1. Init => CleanPrefix /\ InSync
  <2>. SUFFICES ASSUME Init PROVE CleanPrefix /\ InSync
    OBVIOUS
  <2>1. sent = <<>> /\ wire = <<>> /\ avail = <<>> /\ handled = <<>>
    BY DEF Init
  <2>2. CleanPrefix
    BY <2>1 DEF CleanPrefix
  <2>3. Pending(Len(handled)) = <<>>
    BY <2>1 DEF Pending
  <2>4. avail \o wire = <<>>
    BY <2>1
  <2>. QED  BY <2>2, <2>3, <2>4, FlattenEmpty DEF InSync
<1>. QED  BY <1>1, StreamStep, StreamTypeCorrect, PTL DEF Spec, StreamInv

\* However TCP cuts the stream, readMessage returns exactly the messages given to
\* sendMessage, in their order, up to the first length that does not fit, unless a
\* read deadline fell inside a frame.
THEOREM StreamCleanPrefix == Spec => []CleanPrefix
BY StreamInvariant, PTL DEF StreamInv

\* Between two calls of readMessage the bytes ahead of it are exactly the encodings
\* of the frames it has not yet returned.
THEOREM StreamInSync == Spec => []InSync
BY StreamInvariant, PTL DEF StreamInv

-----------------------------------------------------------------------------
(* DNS names.                                                              *)

\* The constants of a name.
LEMMA DnsConstants ==
  /\ Pointer \in Nat /\ Pointer \in 1..(Base - 1) /\ Dot \in Byte
  /\ Packets \subseteq Seq(Byte) /\ Header \in Seq(Byte) /\ Trailer \in Seq(Byte)
BY DnsNameAssumption, ByteAssumption

\* The last element of a sequence, replaced.
LEMMA AppendExcept ==
  ASSUME NEW S, NEW front \in Seq(S), NEW x \in S, NEW y \in S
  PROVE  /\ [Append(front, x) EXCEPT ![Len(Append(front, x))] = y] = Append(front, y)
         /\ Append(front, x)[Len(Append(front, x))] = x
<1>1. PICK n \in Nat : n = Len(front)
  BY LenProperties
<1>2. PICK a \in Seq(S), b \in Seq(S) : a = Append(front, x) /\ b = Append(front, y)
  BY AppendProperties
<1>3. Len(a) = n + 1 /\ a[n + 1] = x /\ \A i \in 1..n : a[i] = front[i]
  BY <1>1, <1>2, AppendIs DEF IsAppend
<1>4. Len(b) = n + 1 /\ b[n + 1] = y /\ \A i \in 1..n : b[i] = front[i]
  BY <1>1, <1>2, AppendIs DEF IsAppend
<1>5. PICK c : c = [a EXCEPT ![n + 1] = y]
  OBVIOUS
<1>6. c \in Seq(S) /\ Len(c) = n + 1
  BY <1>3, <1>5
<1>7. \A i \in 1..(n + 1) : c[i] = b[i]
  BY <1>3, <1>4, <1>5
<1>8. c = b
  BY <1>4, <1>6, <1>7, SeqEqual
<1>. QED  BY <1>2, <1>3, <1>5, <1>8

\* A sequence with an element appended is not empty.
LEMMA AppendNonempty ==
  ASSUME NEW S, NEW s \in Seq(S), NEW x \in S
  PROVE  Append(s, x) \in Seq(S) /\ Append(s, x) # <<>>
BY AppendProperties

\* One byte extends the last part, or begins a new one.
LEMMA SplitByteIs ==
  ASSUME NEW front \in Seq(Seq(Byte)), NEW x \in Seq(Byte), NEW b \in Byte
  PROVE  SplitByte(Append(front, x), b) =
            IF b = Dot THEN Append(Append(front, x), <<>>) ELSE Append(front, Append(x, b))
<1>1. PICK y \in Seq(Byte) : y = Append(x, b)
  BY AppendProperties
<1>2. PICK parts : parts = Append(front, x)
  OBVIOUS
<1>3. [parts EXCEPT ![Len(parts)] = y] = Append(front, y) /\ parts[Len(parts)] = x
  BY <1>2, AppendExcept
<1>4. CASE b = Dot
  BY <1>4 DEF SplitByte
<1>5. CASE b # Dot
  <2>1. SplitByte(parts, b) = [parts EXCEPT ![Len(parts)] = Append(parts[Len(parts)], b)]
    BY <1>5, Zenon DEF SplitByte
  <2>2. SplitByte(parts, b) = Append(front, y)
    BY <2>1, <1>1, <1>3, Zenon
  <2>. QED  BY <2>2, <1>1, <1>2, <1>5, Zenon
<1>. QED  BY <1>4, <1>5

\* There is always a last part to extend.
LEMMA SplitByteType ==
  ASSUME NEW parts \in Seq(Seq(Byte)), parts # <<>>, NEW b \in Byte
  PROVE  SplitByte(parts, b) \in Seq(Seq(Byte)) \ {<<>>}
<1>1. PICK front \in Seq(Seq(Byte)), x \in Seq(Byte) : parts = Append(front, x)
  BY SequenceEmptyOrAppend
<1>2. PICK y \in Seq(Byte), e \in Seq(Byte) : y = Append(x, b) /\ e = <<>>
  <2>1. <<>> \in Seq(Byte)
    OBVIOUS
  <2>. QED  BY <2>1, AppendProperties
<1>3. Append(parts, e) \in Seq(Seq(Byte)) /\ Append(parts, e) # <<>>
  BY AppendNonempty
<1>4. Append(front, y) \in Seq(Seq(Byte)) /\ Append(front, y) # <<>>
  BY AppendNonempty
<1>5. SplitByte(parts, b) = IF b = Dot THEN Append(parts, e) ELSE Append(front, y)
  BY <1>1, <1>2, SplitByteIs
<1>. QED  BY <1>3, <1>4, <1>5

\* strings.Split, byte by byte.
Splits(s, name) ==
    /\ s[0] = << <<>> >>
    /\ \A k \in 1..Len(name) : s[k] = SplitByte(s[k - 1], name[k])

\* The parts of the prefixes of a name.
LEMMA SplitDef ==
  ASSUME NEW name \in Seq(Byte)
  PROVE  \E s \in [0..Len(name) -> Seq(Seq(Byte)) \ {<<>>}] :
            Splits(s, name) /\ Split(name) = s[Len(name)]
<1>w. PICK w \in Nat : w = Len(name)
  BY LenProperties
<1>x. PICK X : X = Seq(Seq(Byte)) \ {<<>>}
  OBVIOUS
<1>0. w = Len(name) /\ X = Seq(Seq(Byte)) \ {<<>>}
  BY <1>w, <1>x
<1>. DEFINE step == [p \in (1..w) \X X |-> SplitByte(p[2], name[p[1]])]
            F == CHOOSE f : f = [k \in 0..w |-> IF k = 0 THEN << <<>> >>
                                                ELSE SplitByte(f[k - 1], name[k])]
<1>a. \A k \in 1..w, x \in X : SplitByte(x, name[k]) \in X
  <2>1. ASSUME NEW k \in 1..w, NEW x \in X PROVE SplitByte(x, name[k]) \in X
    <3>1. name[k] \in Byte
      BY <1>0, ElementOfSeq
    <3>2. x \in Seq(Seq(Byte)) /\ x # <<>>
      BY <1>0
    <3>. QED  BY <3>1, <3>2, <1>0, SplitByteType
  <2>. QED  BY <2>1
<1>b. << <<>> >> \in X
  <2>1. <<>> \in Seq(Byte)
    OBVIOUS
  <2>2. << <<>> >> \in Seq(Seq(Byte)) /\ << <<>> >> # <<>>
    BY <2>1
  <2>. QED  BY <2>2, <1>0
<1>1. step \in [(1..w) \X X -> X]
  BY <1>a
<1>2. PICK g \in [0..w -> X] : Iterates(g, w, << <<>> >>, step)
  <2>. HIDE DEF step
  <2>. QED  BY <1>1, <1>b, Iteration
<1>3. g = [k \in 0..w |-> IF k = 0 THEN << <<>> >> ELSE SplitByte(g[k - 1], name[k])]
  <2>1. ASSUME NEW k \in 1..w PROVE g[k] = SplitByte(g[k - 1], name[k])
    <3>1. g[k] = step[<<k, g[k - 1]>>] /\ g[k - 1] \in X
      <4>. HIDE DEF step
      <4>. QED  BY <1>2 DEF Iterates
    <3>. QED  BY <3>1
  <2>2. g[0] = << <<>> >>
    BY <1>2 DEF Iterates
  <2>3. g = [k \in 0..w |-> g[k]] /\ \A k \in 0..w : k = 0 \/ k \in 1..w
    OBVIOUS
  <2>4. 0 \notin 1..w
    OBVIOUS
  <2>5. \A k \in 0..w : g[k] = IF k = 0 THEN << <<>> >> ELSE SplitByte(g[k - 1], name[k])
    BY <2>1, <2>2, <2>3, <2>4, Zenon
  <2>. QED  BY <2>3, <2>5, Zenon
<1>4. F = [k \in 0..w |-> IF k = 0 THEN << <<>> >> ELSE SplitByte(F[k - 1], name[k])]
  BY <1>3, Zenon
<1>5. Split(name) = F[w]
  BY <1>0 DEF Split
<1>. HIDE DEF F
<1>6. F[0] = << <<>> >> /\ \A k \in 1..w : F[k] = SplitByte(F[k - 1], name[k])
  BY <1>4, SMTT(30)
<1>7. F = [k \in 0..w |-> F[k]]
  BY <1>4
<1>8. F \in [0..w -> X]
  <2>1. \A k \in 1..w : F[k - 1] \in X => F[k] \in X
    BY <1>6, <1>a
  <2>2. F[0] \in X
    BY <1>6, <1>b
  <2>. QED  BY <1>7, <2>1, <2>2, IterationType
<1>. QED  BY <1>0, <1>5, <1>6, <1>8 DEF Splits

\* The parts of a name are bytes, and there is at least one.
LEMMA SplitType ==
  ASSUME NEW name \in Seq(Byte)
  PROVE  Split(name) \in Seq(Seq(Byte)) \ {<<>>}
<1>1. PICK w \in Nat : w = Len(name)
  BY LenProperties
<1>2. PICK s \in [0..w -> Seq(Seq(Byte)) \ {<<>>}] : Split(name) = s[w]
  BY <1>1, SplitDef
<1>3. w \in 0..w
  OBVIOUS
<1>. QED  BY <1>2, <1>3, Zenon

\* The parts of a name with the dots between them.
Dotted(parts) == [i \in DOMAIN parts |-> IF i = 1 THEN parts[i] ELSE <<Dot>> \o parts[i]]

\* Parts with dots are bytes.
LEMMA DottedType ==
  ASSUME NEW parts \in Seq(Seq(Byte))
  PROVE  Dotted(parts) \in Seq(Seq(Byte)) /\ Len(Dotted(parts)) = Len(parts)
<1>1. PICK n \in Nat : n = Len(parts) /\ DOMAIN parts = 1..n
  BY LenProperties
<1>2. ASSUME NEW i \in 1..n
      PROVE  (IF i = 1 THEN parts[i] ELSE <<Dot>> \o parts[i]) \in Seq(Byte)
  <2>1. PICK p \in Seq(Byte) : p = parts[i]
    BY <1>1, ElementOfSeq
  <2>2. <<Dot>> \o p \in Seq(Byte)
    BY DnsConstants, ConsElements
  <2>. QED  BY <2>1, <2>2
<1>3. Dotted(parts) \in [1..n -> Seq(Byte)]
  BY <1>1, <1>2 DEF Dotted
<1>. QED  BY <1>1, <1>3

\* A joined name is a sequence of bytes.
LEMMA JoinType ==
  ASSUME NEW parts \in Seq(Seq(Byte))
  PROVE  Join(parts) \in Seq(Byte) /\ Join(parts) = FlattenSeq(Dotted(parts))
<1>1. Join(parts) = FlattenSeq(Dotted(parts))
  BY DEF Join, Dotted
<1>. QED  BY <1>1, DottedType, FlattenType

\* What parseDNSName may return for an offset into L bytes.
Answers(o, L) ==
    {Failed, Endless} \cup [result : {"ok"}, parts : Seq(Seq(Byte)), next : (o + 1)..L]

\* What it returns for all of them.
Tables(L) == {f \in [0..(L - 1) -> UNION {Answers(o, L) : o \in 0..(L - 1)}] :
                 \A o \in 0..(L - 1) : f[o] \in Answers(o, L)}

\* An answer is a name that ends inside the bounds, or it is no name.
LEMMA AnswerCases ==
  ASSUME NEW o, NEW L, NEW r \in Answers(o, L)
  PROVE  /\ r.result = "ok" =>
               /\ r.parts \in Seq(Seq(Byte)) /\ r.next \in (o + 1)..L
               /\ r = Parsed(r.parts, r.next)
         /\ r.result # "ok" => r \in {Failed, Endless}
<1>1. Failed.result # "ok" /\ Endless.result # "ok"
  BY DEF Failed, Endless
<1>3. CASE r \in {Failed, Endless}
  BY <1>1, <1>3
<1>4. CASE r \notin {Failed, Endless}
  <2>1. r \in [result : {"ok"}, parts : Seq(Seq(Byte)), next : (o + 1)..L]
    BY <1>4, Zenon DEF Answers
  <2>. QED  BY <2>1 DEF Parsed
<1>. QED  BY <1>3, <1>4

\* The answers there are.
LEMMA AnswerIn ==
  ASSUME NEW o, NEW L
  PROVE  /\ Failed \in Answers(o, L) /\ Endless \in Answers(o, L)
         /\ \A p \in Seq(Seq(Byte)), n \in (o + 1)..L : Parsed(p, n) \in Answers(o, L)
BY DEF Answers, Parsed

\* What is found at an offset, which may lie outside the data.
LEMMA AtIs ==
  ASSUME NEW data \in Seq(Byte), NEW L \in Nat, L = Len(data), NEW rest \in Tables(L),
         NEW o \in Nat
  PROVE  /\ At(data, rest, o) \in Answers(o, L)
         /\ o < L => At(data, rest, o) = rest[o]
<1>1. CASE o < L
  <2>1. o \in 0..(L - 1)
    BY <1>1
  <2>2. At(data, rest, o) = rest[o]
    BY <1>1 DEF At
  <2>3. rest[o] \in Answers(o, L)
    BY <2>1, Zenon DEF Tables
  <2>. QED  BY <2>2, <2>3
<1>2. CASE ~(o < L)
  <2>1. At(data, rest, o) = Failed
    BY <1>2 DEF At
  <2>. QED  BY <1>2, <2>1, AnswerIn
<1>. QED  BY <1>1, <1>2

\* One round of the loop answers within the bounds when the other offsets do.
LEMMA ParseStepType ==
  ASSUME NEW data \in Seq(Byte), NEW L \in Nat, L = Len(data), NEW rest \in Tables(L),
         NEW o \in 0..(L - 1)
  PROVE  ParseStep(data, rest, o) \in Answers(o, L)
<1>1. \A i \in 1..L : data[i] \in Byte /\ data[i] \in Nat
  BY ElementOfSeq, BytesAreNumbers
<1>2. PICK length \in Nat : length = data[o + 1]
  BY <1>1
<1>3. PICK p \in Nat, B \in Nat : p = Pointer /\ B = Base
  BY DnsConstants, BytesAreNumbers
<1>a. p > 0
  BY <1>3, DnsConstants
<1>4. CASE length = 0
  <2>1. ParseStep(data, rest, o) = Parsed(<<>>, o + 1)
    <3>1. length = 0 /\ ~(length >= Pointer)
      BY <1>3, <1>a, <1>4
    <3>. QED  BY <3>1, <1>2 DEF ParseStep
  <2>2. <<>> \in Seq(Seq(Byte)) /\ o + 1 \in (o + 1)..L
    OBVIOUS
  <2>. QED  BY <2>1, <2>2, AnswerIn, Zenon
<1>5. CASE length >= p /\ o + 1 >= L
  <2>1. ParseStep(data, rest, o) = Failed
    BY <1>2, <1>3, <1>a, <1>5 DEF ParseStep
  <2>. QED  BY <2>1, AnswerIn
<1>6. CASE length >= p /\ ~(o + 1 >= L)
  <2>1. PICK low \in Nat, m \in Nat : low = data[o + 2] /\ m = length - p
    BY <1>1, <1>6
  <2>2. PICK t \in Nat : t = m * B + low
    OBVIOUS
  <2>3. PICK target : target = At(data, rest, t) /\ target \in Answers(t, L)
    BY AtIs
  <2>4. ParseStep(data, rest, o) =
           IF target.result # "ok" THEN target
           ELSE Parsed(Split(Join(target.parts)), AfterPointer(o))
    <3>1. length # 0
      BY <1>a, <1>6
    <3>2. target = At(data, rest, (length - Pointer) * Base + data[o + 2])
      BY <2>1, <2>2, <2>3, <1>3
    <3>3. length >= Pointer /\ ~(o + 1 >= Len(data))
      BY <1>3, <1>6
    <3>. QED  BY <3>1, <3>2, <3>3, <1>2 DEF ParseStep
  <2>5. CASE target.result # "ok"
    <3>1. target \in {Failed, Endless}
      BY <2>3, <2>5, AnswerCases
    <3>. QED  BY <3>1, <2>4, <2>5, AnswerIn, Zenon
  <2>6. CASE target.result = "ok"
    <3>1. target.parts \in Seq(Seq(Byte))
      BY <2>3, <2>6, AnswerCases
    <3>2. PICK q \in Seq(Seq(Byte)) : q = Split(Join(target.parts))
      <4>1. Join(target.parts) \in Seq(Byte)
        BY <3>1, JoinType
      <4>. QED  BY <4>1, SplitType
    <3>3. PICK n \in (o + 1)..L : n = AfterPointer(o)
      BY <1>6 DEF AfterPointer
    <3>4. ParseStep(data, rest, o) = Parsed(q, n)
      BY <2>4, <2>6, <3>2, <3>3
    <3>. QED  BY <3>4, AnswerIn, Zenon
  <2>. QED  BY <2>5, <2>6
<1>7. CASE length # 0 /\ ~(length >= p)
  <2>1. PICK after \in Nat : after = o + 1 + length
    OBVIOUS
  <2>2. PICK later : later = At(data, rest, after) /\ later \in Answers(after, L)
    BY AtIs
  <2>3. ParseStep(data, rest, o) =
           IF after > L THEN Failed
           ELSE IF later.result # "ok" THEN later
           ELSE Parsed(<<SubSeq(data, o + 2, after)>> \o later.parts, later.next)
    <3>1. ~(length >= Pointer) /\ length # 0
      BY <1>3, <1>7
    <3>2. later = At(data, rest, o + 1 + data[o + 1]) /\ after = o + 1 + data[o + 1]
      BY <2>1, <2>2, <1>2
    <3>. QED  BY <3>1, <3>2, <1>2 DEF ParseStep
  <2>4. CASE after > L
    BY <2>3, <2>4, AnswerIn
  <2>5. CASE ~(after > L) /\ later.result # "ok"
    <3>1. later \in {Failed, Endless}
      BY <2>2, <2>5, AnswerCases
    <3>. QED  BY <3>1, <2>3, <2>5, AnswerIn, Zenon
  <2>6. CASE ~(after > L) /\ later.result = "ok"
    <3>1. later.parts \in Seq(Seq(Byte)) /\ later.next \in (after + 1)..L
      BY <2>2, <2>6, AnswerCases
    <3>2. SubSeq(data, o + 2, after) \in Seq(Byte)
      <4>1. \A i \in (o + 2)..after : data[i] \in Byte
        BY <2>6, <1>1
      <4>. QED  BY <4>1, SubSeqProperties
    <3>3. <<SubSeq(data, o + 2, after)>> \o later.parts \in Seq(Seq(Byte))
      BY <3>1, <3>2, ConsElements
    <3>4. later.next \in (o + 1)..L
      BY <3>1, <2>1
    <3>5. ParseStep(data, rest, o) =
             Parsed(<<SubSeq(data, o + 2, after)>> \o later.parts, later.next)
      BY <2>3, <2>6, Zenon
    <3>. QED  BY <3>3, <3>4, <3>5, AnswerIn, Zenon
  <2>. QED  BY <2>4, <2>5, <2>6
<1>. QED  BY <1>4, <1>5, <1>6, <1>7

\* A table is made of one answer for every offset.
LEMMA TableIn ==
  ASSUME NEW L \in Nat, NEW f, f = [o \in 0..(L - 1) |-> f[o]],
         \A o \in 0..(L - 1) : f[o] \in Answers(o, L)
  PROVE  f \in Tables(L)
<1>1. \A o \in 0..(L - 1) : f[o] \in UNION {Answers(x, L) : x \in 0..(L - 1)}
  OBVIOUS
<1>2. f \in [0..(L - 1) -> UNION {Answers(x, L) : x \in 0..(L - 1)}]
  BY <1>1
<1>. QED  BY <1>2 DEF Tables

\* One round at every offset.
Round(data, f, L) == [o \in 0..(L - 1) |-> ParseStep(data, f, o)]

\* A round makes a table of a table.
LEMMA RoundType ==
  ASSUME NEW data \in Seq(Byte), NEW L \in Nat, L = Len(data), NEW f \in Tables(L)
  PROVE  Round(data, f, L) \in Tables(L)
<1>1. PICK r : r = Round(data, f, L)
  OBVIOUS
<1>2. \A o \in 0..(L - 1) : r[o] \in Answers(o, L)
  BY <1>1, ParseStepType DEF Round
<1>3. r = [o \in 0..(L - 1) |-> r[o]]
  BY <1>1 DEF Round
<1>. QED  BY <1>1, <1>2, <1>3, TableIn

\* Parses, round by round.
LEMMA ParsesDef ==
  ASSUME NEW data \in Seq(Byte), NEW L \in Nat, L = Len(data)
  PROVE  \E g \in [0..L -> Tables(L)] :
            /\ \A k \in 1..L : g[k] = Round(data, g[k - 1], L)
            /\ Parses(data) = g[L]
<1>0. PICK zero : zero = [o \in 0..(L - 1) |-> Endless]
  OBVIOUS
<1>. DEFINE X == Tables(L)
            step == [p \in (1..L) \X X |-> Round(data, p[2], L)]
            F == CHOOSE f : f = [k \in 0..L |-> IF k = 0 THEN zero
                                                ELSE Round(data, f[k - 1], L)]
<1>5. Parses(data) = F[L]
  BY <1>0 DEF Parses, Round
<1>a. \A x \in X : Round(data, x, L) \in X
  BY RoundType
<1>b. zero \in X
  <2>1. \A o \in 0..(L - 1) : zero[o] \in Answers(o, L)
    BY <1>0, AnswerIn
  <2>2. zero = [o \in 0..(L - 1) |-> zero[o]]
    BY <1>0
  <2>. QED  BY <2>1, <2>2, TableIn
<1>. HIDE DEF X
<1>1. step \in [(1..L) \X X -> X]
  BY <1>a
<1>2. PICK g \in [0..L -> X] : Iterates(g, L, zero, step)
  <2>. HIDE DEF step
  <2>. QED  BY <1>1, <1>b, Iteration
<1>3. g = [k \in 0..L |-> IF k = 0 THEN zero ELSE Round(data, g[k - 1], L)]
  <2>1. ASSUME NEW k \in 1..L PROVE g[k] = Round(data, g[k - 1], L)
    <3>1. g[k] = step[<<k, g[k - 1]>>] /\ g[k - 1] \in X
      <4>. HIDE DEF step
      <4>. QED  BY <1>2 DEF Iterates
    <3>. QED  BY <3>1
  <2>2. g[0] = zero
    BY <1>2 DEF Iterates
  <2>3. g = [k \in 0..L |-> g[k]] /\ \A k \in 0..L : k = 0 \/ k \in 1..L
    OBVIOUS
  <2>4. 0 \notin 1..L
    OBVIOUS
  <2>5. \A k \in 0..L : g[k] = IF k = 0 THEN zero ELSE Round(data, g[k - 1], L)
    BY <2>1, <2>2, <2>3, <2>4, Zenon
  <2>. QED  BY <2>3, <2>5, Zenon
<1>4. F = [k \in 0..L |-> IF k = 0 THEN zero ELSE Round(data, F[k - 1], L)]
  BY <1>3, Zenon
<1>. HIDE DEF F
<1>6. F[0] = zero /\ \A k \in 1..L : F[k] = Round(data, F[k - 1], L)
  BY <1>4
<1>7. F = [k \in 0..L |-> F[k]]
  BY <1>4
<1>8. F \in [0..L -> X]
  <2>1. \A k \in 1..L : F[k - 1] \in X => F[k] \in X
    BY <1>6, <1>a
  <2>2. F[0] \in X
    BY <1>6, <1>b
  <2>. QED  BY <1>7, <2>1, <2>2, IterationType
<1>. QED  BY <1>5, <1>6, <1>8 DEF X

\* parseDNSName never goes past the slice, and always past the offset it is given.
LEMMA ParsesInside ==
  ASSUME NEW data \in Seq(Byte), NEW offset \in 0..Len(data),
         parseDNSName(data, offset).result = "ok"
  PROVE  parseDNSName(data, offset).next \in (offset + 1)..Len(data)
<1>1. PICK L \in Nat : L = Len(data)
  BY LenProperties
<1>2. Parses(data) \in Tables(L)
  <2>1. PICK g \in [0..L -> Tables(L)] : Parses(data) = g[L]
    BY <1>1, ParsesDef
  <2>2. L \in 0..L
    OBVIOUS
  <2>. QED  BY <2>1, <2>2
<1>3. PICK r : r = At(data, Parses(data), offset) /\ r \in Answers(offset, L)
  <2>1. offset \in Nat
    BY <1>1
  <2>. QED  BY <2>1, <1>1, <1>2, AtIs
<1>4. parseDNSName(data, offset) =
         IF r.result # "ok" THEN r
         ELSE [result |-> "ok", name |-> Join(r.parts), next |-> r.next]
  BY <1>3 DEF parseDNSName
<1>5. r.result = "ok"
  BY <1>4
<1>6. parseDNSName(data, offset).next = r.next
  BY <1>4, <1>5
<1>. QED  BY <1>1, <1>3, <1>5, <1>6, AnswerCases

\* On any bytes and at any offset, a name that parseDNSName accepts ends inside the
\* slice and after its beginning, pointers followed included.
THEOREM DnsParseInBounds == Spec => []ParseInBounds
<1>1. ParseInBounds
  <2>1. \A data \in Packets : data \in Seq(Byte)
    BY DnsConstants
  <2>. QED  BY <2>1, ParsesInside DEF ParseInBounds
<1>. QED  BY <1>1, PTL

\* A prefix of a sequence.
LEMMA PrefixIs ==
  ASSUME NEW S, NEW s \in Seq(S), NEW j \in Nat, j <= Len(s)
  PROVE  /\ SubSeq(s, 1, j) \in Seq(S) /\ Len(SubSeq(s, 1, j)) = j
         /\ \A i \in 1..j : SubSeq(s, 1, j)[i] = s[i]
<1>1. \A i \in 1..j : s[i] \in S
  BY ElementOfSeq
<1>. QED  BY <1>1, SubSeqProperties

\* A prefix and the element after it.
LEMMA AppendPrefix ==
  ASSUME NEW S, NEW s \in Seq(S), NEW j \in Nat, j < Len(s)
  PROVE  Append(SubSeq(s, 1, j), s[j + 1]) = SubSeq(s, 1, j + 1)
<1>1. PICK n \in Nat : n = Len(s)
  BY LenProperties
<1>2. \A i \in 1..n : s[i] \in S
  BY <1>1, ElementOfSeq
<1>3. PICK a \in Seq(S) : /\ a = SubSeq(s, 1, j) /\ Len(a) = j
                          /\ \A i \in 1..j : a[i] = s[i]
  <2>1. j <= Len(s)
    BY <1>1
  <2>2. /\ SubSeq(s, 1, j) \in Seq(S) /\ Len(SubSeq(s, 1, j)) = j
        /\ \A i \in 1..j : SubSeq(s, 1, j)[i] = s[i]
    BY <2>1, PrefixIs
  <2>. QED  BY <2>2, Zenon
<1>4. PICK b \in Seq(S) : /\ b = SubSeq(s, 1, j + 1) /\ Len(b) = j + 1
                          /\ \A i \in 1..(j + 1) : b[i] = s[i]
  <2>1. j + 1 \in Nat /\ j + 1 <= Len(s)
    BY <1>1
  <2>2. /\ SubSeq(s, 1, j + 1) \in Seq(S) /\ Len(SubSeq(s, 1, j + 1)) = j + 1
        /\ \A i \in 1..(j + 1) : SubSeq(s, 1, j + 1)[i] = s[i]
    BY <2>1, PrefixIs
  <2>. QED  BY <2>2, Zenon
<1>5. PICK x \in S : x = s[j + 1]
  BY <1>1, <1>2
<1>6. PICK c \in Seq(S) : /\ c = Append(a, x) /\ Len(c) = j + 1 /\ c[j + 1] = x
                          /\ \A i \in 1..j : c[i] = a[i]
  <2>1. Append(a, x) \in Seq(S) /\ IsAppend(Append(a, x), a, x)
    BY AppendIs
  <2>. QED  BY <2>1, <1>3, Zenon DEF IsAppend
<1>7. \A i \in 1..(j + 1) : c[i] = b[i]
  BY <1>3, <1>4, <1>5, <1>6
<1>8. c = b
  BY <1>4, <1>6, <1>7, SeqEqual
<1>. QED  BY <1>3, <1>4, <1>5, <1>6, <1>8

\* A label without dots.
NoDot(l) == \A j \in 1..Len(l) : l[j] # Dot

\* Before and after the bytes of a label from position m of a name.
LabelAhead(s, name, m, front, l) ==
    /\ m + Len(l) <= Len(name) /\ NoDot(l) /\ Holds(name, m, l)
    /\ s[m] = Append(front, <<>>)

LabelTaken(s, m, front, l) == s[m + Len(l)] = Append(front, l)

\* strings.Split takes the bytes of a label one by one into the last part.
LEMMA SplitLabel ==
  ASSUME NEW name \in Seq(Byte), NEW s, Splits(s, name), NEW m \in Nat,
         NEW front \in Seq(Seq(Byte)), NEW l \in Seq(Byte), LabelAhead(s, name, m, front, l)
  PROVE  LabelTaken(s, m, front, l)
<1>0. PICK w \in Nat : w = Len(name)
  BY LenProperties
<1>z. /\ NoDot(l) /\ m + Len(l) <= w /\ Holds(name, m, l) /\ s[m] = Append(front, <<>>)
  BY <1>0, Zenon DEF LabelAhead
<1>1. PICK n \in Nat : n = Len(l)
  BY LenProperties
<1>a. \A i \in 1..n : l[i] \in Byte
  BY <1>1, ElementOfSeq
<1>2. \A j \in 0..n : SubSeq(l, 1, j) \in Seq(Byte)
  BY <1>1, <1>a, SubSeqProperties
<1>b. SubSeq(l, 1, 0) = <<>> /\ SubSeq(l, 1, n) = l
  BY <1>1
<1>. DEFINE T == {j \in 0..n : s[m + j] = Append(front, SubSeq(l, 1, j))}
<1>3. 0 \in T
  <2>1. m + 0 = m /\ 0 \in 0..n
    OBVIOUS
  <2>2. s[m + 0] = Append(front, SubSeq(l, 1, 0))
    BY <2>1, <1>b, <1>z, Zenon
  <2>. QED  BY <2>1, <2>2, Zenon
<1>4. ASSUME NEW j \in 0..(n - 1), j \in T PROVE j + 1 \in T
  <2>1. /\ m + (j + 1) \in 1..w /\ (m + (j + 1)) - 1 = m + j /\ j + 1 \in 1..n
        /\ j \in Nat /\ j < n /\ j + 1 \in 0..n /\ j \in 0..n
    BY <1>1, <1>z
  <2>2. s[m + (j + 1)] = SplitByte(s[m + j], name[m + (j + 1)])
    BY <2>1, <1>0 DEF Splits
  <2>3. PICK b \in Byte : b = l[j + 1] /\ b = name[m + (j + 1)] /\ b # Dot
    BY <2>1, <1>1, <1>a, <1>z DEF Holds, NoDot
  <2>4. PICK x \in Seq(Byte) : x = SubSeq(l, 1, j)
    BY <2>1, <1>2
  <2>5. s[m + j] = Append(front, x)
    BY <1>4, <2>4
  <2>6. SplitByte(Append(front, x), b) = Append(front, Append(x, b))
    BY <2>3, SplitByteIs
  <2>7. Append(x, b) = SubSeq(l, 1, j + 1)
    BY <2>1, <2>3, <2>4, <1>1, AppendPrefix
  <2>8. s[m + (j + 1)] = Append(front, SubSeq(l, 1, j + 1))
    BY <2>2, <2>3, <2>5, <2>6, <2>7, Zenon
  <2>. QED  BY <2>1, <2>8
<1>5. 0..n \subseteq T
  <2>. HIDE DEF T
  <2>. QED  BY <1>3, <1>4, UpTo
<1>6. n \in 0..n
  OBVIOUS
<1>. QED  BY <1>1, <1>b, <1>5, <1>6 DEF LabelTaken

\* A name, the positions after its labels, and the parts of its prefixes.
JoinAt(labels, N, name, pos, s) ==
    /\ N = Len(labels) /\ name = Join(labels) /\ Splits(s, name)
    /\ Lies(pos, Dotted(labels), N, name) /\ pos[N] = Len(name)

\* They exist, and the last of the parts are what strings.Split returns.
LEMMA JoinLies ==
  ASSUME NEW labels \in Seq(Seq(Byte)), NEW N \in Nat \ {0}, N = Len(labels)
  PROVE  \E name \in Seq(Byte) : \E w \in Nat : \E pos \in [0..N -> Nat] :
            \E s \in [0..w -> Seq(Seq(Byte)) \ {<<>>}] :
               /\ w = Len(name) /\ JoinAt(labels, N, name, pos, s)
               /\ Split(Join(labels)) = s[w]
<1>2. PICK d \in Seq(Seq(Byte)) : d = Dotted(labels) /\ Len(d) = N
  BY DottedType, LenProperties
<1>3. PICK name \in Seq(Byte) : name = Join(labels) /\ name = FlattenSeq(d)
  BY <1>2, JoinType
<1>4. PICK w \in Nat : w = Len(name)
  BY LenProperties
<1>5. PICK pos \in [0..N -> Nat] : Lies(pos, d, N, name) /\ pos[N] = w
  <2>1. N \in Nat
    OBVIOUS
  <2>. QED  BY <2>1, <1>2, <1>3, <1>4, FlattenOffsets
<1>6. PICK s \in [0..w -> Seq(Seq(Byte)) \ {<<>>}] : Splits(s, name) /\ Split(name) = s[w]
  BY <1>4, SplitDef
<1>7. JoinAt(labels, N, name, pos, s)
  BY <1>2, <1>3, <1>4, <1>5, <1>6, Zenon DEF JoinAt
<1>. QED  BY <1>3, <1>4, <1>6, <1>7, Zenon

\* Label i + 1 is ahead at position m, with an empty part open to take it.
Entered(labels, name, pos, s, i, m) ==
    /\ s[m] = Append(SubSeq(labels, 1, i), <<>>)
    /\ Holds(name, m, labels[i + 1])
    /\ pos[i + 1] = m + Len(labels[i + 1]) /\ m + Len(labels[i + 1]) <= Len(name)

\* The dot before a label, or the beginning of the name, opens an empty part for it.
LEMMA SplitEnter ==
  ASSUME NEW labels \in Seq(Seq(Byte)), NEW N \in Nat \ {0}, NEW name \in Seq(Byte),
         NEW pos \in [0..N -> Nat], NEW s, JoinAt(labels, N, name, pos, s),
         NEW i \in 0..(N - 1), i # 0 => s[pos[i]] = SubSeq(labels, 1, i)
  PROVE  \E m \in Nat : Entered(labels, name, pos, s, i, m)
<1>1. N = Len(labels) /\ DOMAIN labels = 1..N
  BY LenProperties DEF JoinAt
<1>2. PICK d \in Seq(Seq(Byte)) : d = Dotted(labels)
  BY DottedType
<1>4. PICK w \in Nat : w = Len(name)
  BY LenProperties
<1>5. Lies(pos, d, N, name) /\ Splits(s, name)
  BY <1>2, Zenon DEF JoinAt
<1>6. /\ i + 1 \in 1..N /\ (i + 1) - 1 = i /\ i \in Nat /\ i < N /\ i \in 0..N
      /\ i + 1 \in 0..N
  OBVIOUS
<1>7. PICK l \in Seq(Byte) : l = labels[i + 1]
  BY <1>1, <1>6, ElementOfSeq
<1>8. PICK front : front = SubSeq(labels, 1, i)
  OBVIOUS
<1>9. PICK m \in Nat, n \in Nat : m = pos[i] /\ n = Len(l)
  BY <1>6, LenProperties
<1>10. pos[i + 1] = m + Len(d[i + 1]) /\ pos[i + 1] <= w /\ Holds(name, m, d[i + 1])
  BY <1>4, <1>5, <1>6, <1>9, Zenon DEF Lies, Holds
<1>11. CASE i = 0
  <2>1. d[i + 1] = l
    BY <1>1, <1>2, <1>6, <1>7, <1>11 DEF Dotted
  <2>2. m = 0
    BY <1>5, <1>9, <1>11 DEF Lies
  <2>3. s[m] = Append(front, <<>>)
    <3>1. front = <<>>
      BY <1>8, <1>11
    <3>2. Append(<<>>, <<>>) = << <<>> >>
      OBVIOUS
    <3>. QED  BY <3>1, <3>2, <2>2, <1>5 DEF Splits
  <2>4. m + Len(l) <= w /\ Holds(name, m, l) /\ pos[i + 1] = m + Len(l)
    BY <1>10, <2>1
  <2>. QED  BY <1>4, <1>7, <1>8, <2>3, <2>4, Zenon DEF Entered
<1>12. CASE i # 0
  <2>1. d[i + 1] = <<Dot>> \o l
    <3>1. i + 1 # 1
      BY <1>12
    <3>. QED  BY <3>1, <1>1, <1>2, <1>6, <1>7, Zenon DEF Dotted
  <2>2. PICK c \in Seq(Byte) : /\ c = <<Dot>> \o l /\ Len(c) = 1 + n /\ c[1] = Dot
                               /\ \A j \in 1..n : c[1 + j] = l[j]
    <3>1. /\ <<Dot>> \o l \in Seq(Byte) /\ Len(<<Dot>> \o l) = 1 + Len(l)
          /\ (<<Dot>> \o l)[1] = Dot
          /\ \A j \in 1..Len(l) : (<<Dot>> \o l)[1 + j] = l[j]
      BY DnsConstants, ConsElements
    <3>. QED  BY <3>1, <1>9, Zenon
  <2>3. /\ pos[i + 1] = (m + 1) + n /\ (m + 1) + n <= w
        /\ \A j \in 1..(1 + n) : name[m + j] = c[j]
    <3>1. pos[i + 1] = m + Len(c) /\ pos[i + 1] <= w /\ Holds(name, m, c)
      BY <1>10, <2>1, <2>2, Zenon
    <3>2. m + (1 + n) = (m + 1) + n
      OBVIOUS
    <3>. QED  BY <3>1, <3>2, <2>2, ZenonT(40) DEF Holds
  <2>4. name[m + 1] = Dot
    <3>1. 1 \in 1..(1 + n)
      OBVIOUS
    <3>. QED  BY <3>1, <2>2, <2>3, Zenon
  <2>5. Holds(name, m + 1, l)
    <3>1. ASSUME NEW j \in 1..n PROVE name[(m + 1) + j] = l[j]
      <4>1. 1 + j \in 1..(1 + n) /\ (m + 1) + j = m + (1 + j)
        OBVIOUS
      <4>. QED  BY <4>1, <2>2, <2>3
    <3>. QED  BY <3>1, <1>9 DEF Holds
  <2>6. s[m + 1] = Append(front, <<>>)
    <3>1. m + 1 \in 1..w /\ (m + 1) - 1 = m
      <4>1. (m + 1) + n <= w
        BY <2>3, Zenon
      <4>. QED  BY <4>1
    <3>2. s[m + 1] = SplitByte(s[m], Dot)
      BY <3>1, <2>4, <1>4, <1>5 DEF Splits
    <3>3. s[m] = front
      BY <1>8, <1>9, <1>12
    <3>. QED  BY <3>2, <3>3 DEF SplitByte
  <2>7. m + 1 \in Nat
    OBVIOUS
  <2>8. Entered(labels, name, pos, s, i, m + 1)
    BY <1>4, <1>7, <1>8, <1>9, <2>3, <2>5, <2>6, Zenon DEF Entered
  <2>. QED  BY <2>7, <2>8
<1>. QED  BY <1>11, <1>12

\* The first K labels have no dots.
Plain(labels, K) == \A i \in 1..K : NoDot(labels[i])

\* strings.Split has left the first K labels behind as they were.
Behind(labels, pos, s, K) == \A i \in 1..K : s[pos[i]] = SubSeq(labels, 1, i)

\* strings.Split takes the labels in front of the first dotted one as they were.
LEMMA SplitFront ==
  ASSUME NEW labels \in Seq(Seq(Byte)), NEW N \in Nat \ {0}, NEW name \in Seq(Byte),
         NEW pos \in [0..N -> Nat], NEW s, JoinAt(labels, N, name, pos, s),
         NEW K \in 0..N, Plain(labels, K)
  PROVE  Behind(labels, pos, s, K)
<1>1. N = Len(labels) /\ DOMAIN labels = 1..N /\ Splits(s, name)
  BY LenProperties DEF JoinAt
<1>2. \A i \in 1..N : labels[i] \in Seq(Byte)
  BY <1>1, ElementOfSeq
<1>3. \A i \in 0..N : SubSeq(labels, 1, i) \in Seq(Seq(Byte))
  BY <1>1, <1>2, SubSeqProperties
<1>. DEFINE T == {i \in 0..K : i # 0 => s[pos[i]] = SubSeq(labels, 1, i)}
<1>4. 0 \in T
  OBVIOUS
<1>5. ASSUME NEW i \in 0..(K - 1), i \in T PROVE i + 1 \in T
  <2>1. /\ i + 1 \in 1..K /\ i \in 0..(N - 1) /\ i \in Nat /\ i < N /\ i \in 0..N
        /\ i + 1 \in 0..K /\ i + 1 \in 1..N
    OBVIOUS
  <2>2. PICK l \in Seq(Byte) : l = labels[i + 1] /\ NoDot(l)
    BY <2>1, <1>2 DEF Plain
  <2>3. PICK front \in Seq(Seq(Byte)) : front = SubSeq(labels, 1, i)
    BY <2>1, <1>3
  <2>4. Append(front, l) = SubSeq(labels, 1, i + 1)
    BY <2>1, <2>2, <2>3, <1>1, AppendPrefix
  <2>5. i # 0 => s[pos[i]] = SubSeq(labels, 1, i)
    BY <1>5
  <2>6. PICK m \in Nat : Entered(labels, name, pos, s, i, m)
    BY <2>1, <2>5, SplitEnter
  <2>7. LabelAhead(s, name, m, front, l) /\ pos[i + 1] = m + Len(l)
    BY <2>2, <2>3, <2>6, Zenon DEF LabelAhead, Entered
  <2>8. LabelTaken(s, m, front, l)
    BY <2>7, <1>1, SplitLabel
  <2>9. s[pos[i + 1]] = SubSeq(labels, 1, i + 1)
    BY <2>4, <2>7, <2>8, Zenon DEF LabelTaken
  <2>. QED  BY <2>9, <2>1
<1>6. 0..K \subseteq T
  <2>. HIDE DEF T
  <2>1. K \in Nat
    OBVIOUS
  <2>. QED  BY <2>1, <1>4, <1>5, UpTo
<1>. QED  BY <1>6 DEF Behind

\* strings.Split undoes strings.Join on labels without dots.
LEMMA SplitJoin ==
  ASSUME NEW labels \in Seq(Seq(Byte)), labels # <<>>,
         Plain(labels, Len(labels))
  PROVE  Split(Join(labels)) = labels
<1>1. PICK N \in Nat \ {0} : N = Len(labels)
  BY EmptySeq, LenProperties
<1>z. PICK name \in Seq(Byte), w \in Nat :
         \E pos \in [0..N -> Nat] : \E s \in [0..w -> Seq(Seq(Byte)) \ {<<>>}] :
            /\ w = Len(name) /\ JoinAt(labels, N, name, pos, s)
            /\ Split(Join(labels)) = s[w]
  BY <1>1, JoinLies
<1>2. PICK pos \in [0..N -> Nat], s \in [0..w -> Seq(Seq(Byte)) \ {<<>>}] :
         /\ w = Len(name) /\ JoinAt(labels, N, name, pos, s) /\ Split(Join(labels)) = s[w]
  BY <1>z
<1>3. pos[N] = w
  BY <1>2, Zenon DEF JoinAt
<1>4. N \in 0..N /\ N \in 1..N
  OBVIOUS
<1>5. s[pos[N]] = SubSeq(labels, 1, N)
  <2>1. Plain(labels, N)
    BY <1>1, Zenon
  <2>2. JoinAt(labels, N, name, pos, s)
    BY <1>2, Zenon
  <2>3. Behind(labels, pos, s, N)
    BY <1>4, <2>1, <2>2, SplitFront
  <2>. QED  BY <2>3, <1>4, Zenon DEF Behind
<1>6. SubSeq(labels, 1, N) = labels
  BY <1>1
<1>. QED  BY <1>2, <1>3, <1>5, <1>6

-----------------------------------------------------------------------------
(* A label with a dot inside comes apart.                                  *)

\* The sequence p goes on after f.
Continues(p, f) == Len(p) > Len(f) /\ \A i \in 1..Len(f) : p[i] = f[i]

\* A part that another one follows is never touched again.
LEMMA PartsStay ==
  ASSUME NEW f \in Seq(Seq(Byte)), NEW p \in Seq(Seq(Byte)), Continues(p, f), NEW b \in Byte
  PROVE  Continues(SplitByte(p, b), f)
<1>1. PICK n \in Nat, k \in Nat : n = Len(f) /\ k = Len(p) /\ k > n
  BY LenProperties DEF Continues
<1>2. p # <<>>
  BY <1>1, EmptySeq
<1>3. PICK front \in Seq(Seq(Byte)), x \in Seq(Byte) : p = Append(front, x)
  BY <1>2, SequenceEmptyOrAppend
<1>4. PICK q \in Nat : q = Len(front)
  BY LenProperties
<1>5. k = q + 1 /\ \A i \in 1..q : p[i] = front[i]
  BY <1>1, <1>3, <1>4, AppendIs DEF IsAppend
<1>6. PICK y \in Seq(Byte), e \in Seq(Byte) : y = Append(x, b) /\ e = <<>>
  <2>1. <<>> \in Seq(Byte)
    OBVIOUS
  <2>. QED  BY <2>1, AppendProperties
<1>7. SplitByte(p, b) = IF b = Dot THEN Append(p, e) ELSE Append(front, y)
  BY <1>3, <1>6, SplitByteIs
<1>8. IsAppend(Append(p, e), p, e) /\ IsAppend(Append(front, y), front, y)
  BY AppendIs
<1>9. Len(Append(p, e)) = k + 1 /\ \A i \in 1..k : Append(p, e)[i] = p[i]
  BY <1>1, <1>8, Zenon DEF IsAppend
<1>10. Len(Append(front, y)) = q + 1 /\ \A i \in 1..q : Append(front, y)[i] = front[i]
  BY <1>4, <1>8, Zenon DEF IsAppend
<1>11. \A i \in 1..n : i \in 1..q /\ i \in 1..k /\ p[i] = f[i]
  BY <1>1, <1>5 DEF Continues
<1>12. CASE b = Dot
  <2>1. Len(Append(p, e)) > n /\ \A i \in 1..n : Append(p, e)[i] = f[i]
    BY <1>1, <1>9, <1>11
  <2>. QED  BY <1>1, <1>7, <1>12, <2>1, Zenon DEF Continues
<1>13. CASE b # Dot
  <2>1. Len(Append(front, y)) > n /\ \A i \in 1..n : Append(front, y)[i] = f[i]
    BY <1>1, <1>5, <1>10, <1>11
  <2>. QED  BY <1>1, <1>7, <1>13, <2>1, Zenon DEF Continues
<1>. QED  BY <1>12, <1>13

\* So strings.Split keeps the parts it has left behind to the end of the name.
LEMMA PartsKept ==
  ASSUME NEW name \in Seq(Byte), NEW w \in Nat, w = Len(name),
         NEW s \in [0..w -> Seq(Seq(Byte)) \ {<<>>}], Splits(s, name),
         NEW f \in Seq(Seq(Byte)), NEW m \in 0..w, Continues(s[m], f)
  PROVE  Continues(s[w], f)
<1>. DEFINE T == {k \in 0..(w - m) : Continues(s[m + k], f)}
<1>1. 0 \in T
  OBVIOUS
<1>2. ASSUME NEW k \in 0..((w - m) - 1), k \in T PROVE k + 1 \in T
  <2>1. /\ m + (k + 1) \in 1..w /\ (m + (k + 1)) - 1 = m + k /\ m + k \in 0..w
        /\ k + 1 \in 0..(w - m)
    OBVIOUS
  <2>2. s[m + (k + 1)] = SplitByte(s[m + k], name[m + (k + 1)])
    BY <2>1 DEF Splits
  <2>3. PICK p \in Seq(Seq(Byte)) : p = s[m + k]
    BY <2>1
  <2>4. PICK b \in Byte : b = name[m + (k + 1)]
    BY <2>1, ElementOfSeq
  <2>5. Continues(p, f)
    BY <1>2, <2>3
  <2>6. Continues(SplitByte(p, b), f)
    BY <2>5, PartsStay
  <2>7. Continues(s[m + (k + 1)], f)
    BY <2>2, <2>3, <2>4, <2>6
  <2>. QED  BY <2>1, <2>7
<1>3. 0..(w - m) \subseteq T
  <2>. HIDE DEF T
  <2>1. w - m \in Nat
    OBVIOUS
  <2>. QED  BY <2>1, <1>1, <1>2, UpTo
<1>4. w - m \in 0..(w - m) /\ m + (w - m) = w
  OBVIOUS
<1>. QED  BY <1>3, <1>4

\* The parts of a name begin with the labels in front of its first dotted label and
\* with what that label has in front of its first dot.
CutAt(parts, labels, N, k) ==
    /\ k + 1 \in 1..N
    /\ \E j \in Nat : /\ j < Len(labels[k + 1])
                      /\ Continues(parts, Append(SubSeq(labels, 1, k),
                                              SubSeq(labels[k + 1], 1, j)))

\* strings.Split cuts the first dotted label short.
LEMMA SplitCuts ==
  ASSUME NEW labels \in Seq(Seq(Byte)), NEW N \in Nat, N = Len(labels),
         ~Plain(labels, N)
  PROVE  \E k \in 0..N : CutAt(Split(Join(labels)), labels, N, k)
<1>0. N \in Nat \ {0} /\ DOMAIN labels = 1..N
  BY LenProperties DEF Plain
<1>z. PICK name \in Seq(Byte), w \in Nat :
         \E pos \in [0..N -> Nat] : \E s \in [0..w -> Seq(Seq(Byte)) \ {<<>>}] :
            /\ w = Len(name) /\ JoinAt(labels, N, name, pos, s)
            /\ Split(Join(labels)) = s[w]
  BY <1>0, JoinLies
<1>1. PICK pos \in [0..N -> Nat], s \in [0..w -> Seq(Seq(Byte)) \ {<<>>}] :
         /\ w = Len(name) /\ JoinAt(labels, N, name, pos, s) /\ Split(Join(labels)) = s[w]
  BY <1>z
<1>2. PICK i \in 1..N : ~NoDot(labels[i]) /\ \A h \in 1..N : h < i => NoDot(labels[h])
  <2>. DEFINE D == {h \in 1..N : ~NoDot(labels[h])}
  <2>1. PICK g \in 1..N : ~NoDot(labels[g])
    BY Zenon DEF Plain
  <2>2. D \in SUBSET Nat /\ D # {}
    <3>1. 1..N \subseteq Nat
      OBVIOUS
    <3>. QED  BY <2>1, <3>1, Zenon
  <2>3. PICK i \in D : \A h \in D : i <= h
    <3>. HIDE DEF D
    <3>. QED  BY <2>2, LeastNat
  <2>4. \A h \in 1..N : h < i => h \notin D
    <3>. HIDE DEF D
    <3>1. i \in 1..N
      BY <2>3 DEF D
    <3>. QED  BY <2>3, <3>1
  <2>. QED  BY <2>3, <2>4, Zenon
<1>3. PICK k \in Nat : k + 1 = i /\ k \in 0..(N - 1) /\ k \in 0..N /\ k + 1 \in 1..N
  <2>1. i - 1 \in Nat /\ (i - 1) + 1 = i /\ i - 1 \in 0..(N - 1) /\ i - 1 \in 0..N
    OBVIOUS
  <2>. QED  BY <2>1
<1>4. PICK l \in Seq(Byte), n \in Nat : l = labels[k + 1] /\ n = Len(l) /\ ~NoDot(l)
  <2>1. labels[k + 1] \in Seq(Byte)
    BY <1>0, <1>3, ElementOfSeq
  <2>. QED  BY <2>1, <1>2, <1>3, LenProperties
<1>5. PICK j \in Nat : /\ j < n /\ l[j + 1] = Dot
                       /\ \A h \in 1..j : l[h] # Dot
  <2>. DEFINE D == {h \in 1..n : l[h] = Dot}
  <2>1. PICK g \in 1..n : l[g] = Dot
    BY <1>4, Zenon DEF NoDot
  <2>2. D \in SUBSET Nat /\ D # {}
    <3>1. 1..n \subseteq Nat
      OBVIOUS
    <3>. QED  BY <2>1, <3>1, Zenon
  <2>3. PICK x \in D : \A h \in D : x <= h
    <3>. HIDE DEF D
    <3>. QED  BY <2>2, LeastNat
  <2>4. x \in 1..n /\ l[x] = Dot
    BY <2>3, Zenon
  <2>5. x - 1 \in Nat /\ x - 1 < n /\ (x - 1) + 1 = x
    BY <2>4
  <2>6. ASSUME NEW h \in 1..(x - 1) PROVE l[h] # Dot
    <3>1. h \in 1..n /\ ~(x <= h)
      BY <2>4
    <3>. QED  BY <3>1, <2>3, Zenon
  <2>. QED  BY <2>4, <2>5, <2>6
<1>6. PICK l1 \in Seq(Byte) : /\ l1 = SubSeq(l, 1, j) /\ Len(l1) = j
                              /\ \A h \in 1..j : l1[h] = l[h]
  <2>1. j <= Len(l)
    BY <1>4, <1>5
  <2>2. /\ SubSeq(l, 1, j) \in Seq(Byte) /\ Len(SubSeq(l, 1, j)) = j
        /\ \A h \in 1..j : SubSeq(l, 1, j)[h] = l[h]
    BY <2>1, PrefixIs
  <2>. QED  BY <2>2, Zenon
<1>7. PICK front \in Seq(Seq(Byte)) : front = SubSeq(labels, 1, k)
  <2>1. k \in Nat /\ k <= Len(labels)
    BY <1>3
  <2>2. SubSeq(labels, 1, k) \in Seq(Seq(Byte))
    BY <2>1, PrefixIs
  <2>. QED  BY <2>2, Zenon
<1>8. k # 0 => s[pos[k]] = SubSeq(labels, 1, k)
  <2>1. Plain(labels, k)
    <3>1. \A h \in 1..k : h \in 1..N /\ h < i
      BY <1>3
    <3>. QED  BY <1>2, <3>1, Zenon DEF Plain
  <2>2. JoinAt(labels, N, name, pos, s)
    BY <1>1, Zenon
  <2>3. Behind(labels, pos, s, k)
    BY <1>0, <1>3, <2>1, <2>2, SplitFront
  <2>4. k # 0 => k \in 1..k
    BY <1>3
  <2>. QED  BY <2>3, <2>4, Zenon DEF Behind
<1>9. PICK m \in Nat : Entered(labels, name, pos, s, k, m)
  BY <1>0, <1>1, <1>3, <1>8, SplitEnter
<1>10. s[m] = Append(front, <<>>) /\ Holds(name, m, l) /\ m + n <= w
  BY <1>1, <1>4, <1>7, <1>9, Zenon DEF Entered
<1>11. Splits(s, name)
  BY <1>1, Zenon DEF JoinAt
<1>12. s[m + j] = Append(front, l1)
  <2>a. \A h \in 1..j : h \in 1..n
    BY <1>5
  <2>b. m + j <= w
    BY <1>5, <1>10
  <2>c. \A h \in 1..n : name[m + h] = l[h]
    BY <1>4, <1>10, Zenon DEF Holds
  <2>1. m + j <= w /\ Holds(name, m, l1) /\ NoDot(l1)
    BY <1>5, <1>6, <2>a, <2>b, <2>c, Zenon DEF Holds, NoDot
  <2>2. LabelAhead(s, name, m, front, l1)
    BY <1>1, <1>6, <1>10, <2>1, Zenon DEF LabelAhead
  <2>3. LabelTaken(s, m, front, l1)
    BY <2>2, <1>11, SplitLabel
  <2>. QED  BY <2>3, <1>6, Zenon DEF LabelTaken
<1>13. PICK f \in Seq(Seq(Byte)) : f = Append(front, l1)
  BY AppendProperties
<1>14. /\ m + (j + 1) \in 1..w /\ (m + (j + 1)) - 1 = m + j /\ m + (j + 1) \in 0..w
       /\ j + 1 \in 1..n
  BY <1>5, <1>10
<1>15. s[m + (j + 1)] = Append(f, <<>>)
  <2>1. s[m + (j + 1)] = SplitByte(s[m + j], name[m + (j + 1)])
    BY <1>1, <1>11, <1>14 DEF Splits
  <2>2. name[m + (j + 1)] = Dot
    BY <1>4, <1>5, <1>10, <1>14 DEF Holds
  <2>. QED  BY <1>12, <1>13, <2>1, <2>2 DEF SplitByte
<1>16. Continues(s[m + (j + 1)], f)
  <2>1. <<>> \in Seq(Byte)
    OBVIOUS
  <2>2. IsAppend(Append(f, <<>>), f, <<>>)
    BY <2>1, AppendIs
  <2>3. Len(f) \in Nat
    BY LenProperties
  <2>4. Len(Append(f, <<>>)) = Len(f) + 1 /\ \A h \in 1..Len(f) : Append(f, <<>>)[h] = f[h]
    BY <2>2, Zenon DEF IsAppend
  <2>5. Len(f) + 1 > Len(f)
    BY <2>3
  <2>. QED  BY <1>15, <2>4, <2>5, Zenon DEF Continues
<1>17. Continues(s[w], f)
  BY <1>1, <1>11, <1>14, <1>16, PartsKept
<1>18. CutAt(s[w], labels, N, k)
  BY <1>3, <1>4, <1>5, <1>6, <1>7, <1>13, <1>17, Zenon DEF CutAt
<1>. QED  BY <1>1, <1>3, <1>18, Zenon

\* The labels a resolver asks for.
LEMMA QuestionLabels ==
  ASSUME NEW labels \in Questions
  PROVE  /\ labels \in Seq(Seq(Byte))
         /\ \A i \in 1..Len(labels) : Len(labels[i]) \in 1..(Pointer - 1)
<1>1. labels \in Seq(Seq(Byte))
  BY DnsNameAssumption
<1>2. DOMAIN labels = 1..Len(labels)
  BY <1>1, LenProperties
<1>. QED  BY <1>1, <1>2, DnsNameAssumption

\* A label lies at position p of a packet, after its length, and q is after it.
LabelAt(data, l, p, q) ==
    /\ q = p + 1 + Len(l) /\ data[p + 1] = Len(l) /\ Holds(data, p + 1, l)

\* The labels of an encoded name, and the zero byte after them.
NameAt(data, labels, off, N) ==
    /\ \A i \in 1..N : LabelAt(data, labels[i], off[i - 1], off[i])
    /\ data[off[N] + 1] = 0

\* The same behind one byte of the length, which is all encodeDNSName writes.
PartAt(data, l, p, q) ==
    /\ q = p + 1 + Len(l) /\ data[p + 1] = Len(l) % Base /\ Holds(data, p + 1, l)

\* A function on 1..N is a sequence.
LEMMA FunctionIsSeq ==
  ASSUME NEW S, NEW N \in Nat, NEW e \in [1..N -> S]
  PROVE  e \in Seq(S) /\ Len(e) = N
OBVIOUS

\* encodeDNSName puts every part behind its length.
LEMMA EncodePartsLie ==
  ASSUME NEW labels \in Seq(Seq(Byte)), NEW N \in Nat, N = Len(labels)
  PROVE  /\ EncodeLabels(labels) \in Seq(Byte)
         /\ \E off \in [0..N -> Nat] :
               /\ off[0] = 0 /\ off[N] = Len(EncodeLabels(labels))
               /\ \A i \in 1..N : /\ off[i] <= off[N]
                                  /\ PartAt(EncodeLabels(labels), labels[i], off[i - 1], off[i])
<1>1. DOMAIN labels = 1..N
  BY LenProperties
<1>2. ASSUME NEW i \in 1..N
      PROVE  /\ labels[i] \in Seq(Byte) /\ Len(labels[i]) \in Nat
             /\ Len(labels[i]) % Base \in Byte
             /\ EncodeLabel(labels[i]) = <<Len(labels[i]) % Base>> \o labels[i]
             /\ EncodeLabel(labels[i]) \in Seq(Byte)
  <2>1. PICK l \in Seq(Byte), n \in Nat : l = labels[i] /\ n = Len(l)
    <3>1. labels[i] \in Seq(Byte)
      BY <1>1, ElementOfSeq
    <3>. QED  BY <3>1, LenProperties
  <2>2. PICK x \in Byte : x = n % Base
    BY BytesAreNumbers
  <2>3. EncodeLabel(l) = <<x>> \o l
    BY <2>1, <2>2 DEF EncodeLabel
  <2>4. <<x>> \o l \in Seq(Byte)
    BY ConsElements
  <2>. QED  BY <2>1, <2>2, <2>3, <2>4
<1>3. PICK encs \in Seq(Seq(Byte)) :
         /\ encs = [i \in DOMAIN labels |-> EncodeLabel(labels[i])] /\ Len(encs) = N
         /\ \A i \in 1..N : encs[i] = EncodeLabel(labels[i])
  <2>. DEFINE e == [i \in DOMAIN labels |-> EncodeLabel(labels[i])]
  <2>1. e \in [1..N -> Seq(Byte)]
    BY <1>1, <1>2
  <2>2. \A i \in 1..N : e[i] = EncodeLabel(labels[i])
    BY <1>1
  <2>3. e \in Seq(Seq(Byte)) /\ Len(e) = N
    <3>. HIDE DEF e
    <3>. QED  BY <2>1, FunctionIsSeq
  <2>. QED  BY <2>2, <2>3, Zenon
<1>4. PICK all \in Seq(Byte) : all = EncodeLabels(labels) /\ all = FlattenSeq(encs)
  <2>1. EncodeLabels(labels) = FlattenSeq(encs)
    BY <1>3 DEF EncodeLabels
  <2>. QED  BY <2>1, FlattenType
<1>5. PICK off \in [0..N -> Nat] : Lies(off, encs, N, all) /\ off[N] = Len(all)
  BY <1>3, <1>4, FlattenOffsets
<1>6. off[0] = 0
  BY <1>5 DEF Lies
<1>7. ASSUME NEW i \in 1..N
      PROVE  off[i] <= off[N] /\ PartAt(all, labels[i], off[i - 1], off[i])
  <2>1. PICK l \in Seq(Byte), n \in Nat, x \in Byte :
           l = labels[i] /\ n = Len(l) /\ x = n % Base
    BY <1>2, Zenon
  <2>2. /\ off[i] = off[i - 1] + Len(encs[i]) /\ off[i] <= Len(all)
        /\ \A j \in 1..Len(encs[i]) : all[off[i - 1] + j] = encs[i][j]
    BY <1>5, Zenon DEF Lies
  <2>3. PICK o \in Nat : o = off[i - 1]
    <3>1. i - 1 \in 0..N
      OBVIOUS
    <3>. QED  BY <3>1
  <2>4. PICK c \in Seq(Byte) : /\ c = encs[i] /\ Len(c) = 1 + n /\ c[1] = x
                               /\ \A j \in 1..n : c[1 + j] = l[j]
    <3>1. /\ <<x>> \o l \in Seq(Byte) /\ Len(<<x>> \o l) = 1 + Len(l)
          /\ (<<x>> \o l)[1] = x
          /\ \A j \in 1..Len(l) : (<<x>> \o l)[1 + j] = l[j]
      BY <2>1, ConsElements
    <3>2. encs[i] = <<x>> \o l
      BY <1>2, <1>3, <2>1, Zenon
    <3>. QED  BY <3>1, <3>2, <2>1, Zenon
  <2>5. \A j \in 1..(1 + n) : all[o + j] = c[j]
    BY <2>2, <2>3, <2>4, Zenon
  <2>6. off[i] = o + 1 + n
    <3>1. off[i] = o + (1 + n)
      BY <2>2, <2>3, <2>4, Zenon
    <3>. QED  BY <3>1
  <2>7. all[o + 1] = x
    <3>1. 1 \in 1..(1 + n)
      OBVIOUS
    <3>. QED  BY <3>1, <2>4, <2>5, Zenon
  <2>8. ASSUME NEW j \in 1..n PROVE all[(o + 1) + j] = l[j]
    <3>1. 1 + j \in 1..(1 + n) /\ (o + 1) + j = o + (1 + j)
      OBVIOUS
    <3>. QED  BY <3>1, <2>4, <2>5
  <2>9. PartAt(all, l, o, off[i])
    BY <2>1, <2>6, <2>7, <2>8 DEF PartAt, Holds
  <2>. QED  BY <2>1, <2>2, <2>3, <2>9, <1>5
<1>. QED  BY <1>4, <1>5, <1>6, <1>7, Zenon

\* The length of a label of a question fits into the byte.
LEMMA EncodeLabelsLie ==
  ASSUME NEW labels \in Questions, NEW N \in Nat, N = Len(labels)
  PROVE  /\ EncodeLabels(labels) \in Seq(Byte)
         /\ \E off \in [0..N -> Nat] :
               /\ off[0] = 0 /\ off[N] = Len(EncodeLabels(labels))
               /\ \A i \in 1..N : /\ off[i] <= off[N]
                                  /\ LabelAt(EncodeLabels(labels), labels[i], off[i - 1], off[i])
<1>1. labels \in Seq(Seq(Byte)) /\ \A i \in 1..N : Len(labels[i]) \in 1..(Pointer - 1)
  BY QuestionLabels
<1>2. ASSUME NEW n \in 1..(Pointer - 1) PROVE n % Base = n
  <2>1. n \in 0..(Base - 1) /\ Base \in Nat \ {0}
    BY DnsConstants, BytesAreNumbers
  <2>. QED  BY <2>1, SmallMod
<1>3. \A i \in 1..N : Len(labels[i]) % Base = Len(labels[i])
  BY <1>1, <1>2, Zenon
<1>4. PICK all \in Seq(Byte) : all = EncodeLabels(labels)
  BY <1>1, EncodePartsLie
<1>5. PICK off \in [0..N -> Nat] :
         /\ off[0] = 0 /\ off[N] = Len(all)
         /\ \A i \in 1..N : off[i] <= off[N] /\ PartAt(all, labels[i], off[i - 1], off[i])
  BY <1>1, <1>4, EncodePartsLie, Zenon
<1>6. \A i \in 1..N : LabelAt(all, labels[i], off[i - 1], off[i])
  BY <1>3, <1>5, Zenon DEF LabelAt, PartAt
<1>. QED  BY <1>4, <1>5, <1>6, Zenon

\* A name that is cut is encoded with a shorter length at the cut.
LEMMA CutEncoded ==
  ASSUME NEW labels \in Questions, NEW N \in Nat, N = Len(labels), NEW k \in 0..N,
         NEW parts \in Seq(Seq(Byte)), CutAt(parts, labels, N, k)
  PROVE  EncodeLabels(parts) # EncodeLabels(labels)
<1>0. labels \in Seq(Seq(Byte)) /\ k + 1 \in 1..N /\ k \in Nat
  <2>1. k \in Nat
    OBVIOUS
  <2>. QED  BY <2>1, QuestionLabels, Zenon DEF CutAt
<1>1. PICK l \in Seq(Byte), n \in 1..(Pointer - 1) : l = labels[k + 1] /\ n = Len(l)
  <2>1. labels[k + 1] \in Seq(Byte)
    BY <1>0, ElementOfSeq
  <2>. QED  BY <2>1, <1>0, QuestionLabels
<1>2. PICK j \in Nat : j < n /\ Continues(parts, Append(SubSeq(labels, 1, k), SubSeq(l, 1, j)))
  BY <1>1, Zenon DEF CutAt
<1>3. PICK l1 \in Seq(Byte) : l1 = SubSeq(l, 1, j) /\ Len(l1) = j
  <2>1. j <= Len(l)
    BY <1>1, <1>2
  <2>2. SubSeq(l, 1, j) \in Seq(Byte) /\ Len(SubSeq(l, 1, j)) = j
    BY <2>1, PrefixIs
  <2>. QED  BY <2>2, Zenon
<1>4. PICK front \in Seq(Seq(Byte)) : /\ front = SubSeq(labels, 1, k) /\ Len(front) = k
                                     /\ \A i \in 1..k : front[i] = labels[i]
  <2>1. k <= Len(labels)
    OBVIOUS
  <2>2. /\ SubSeq(labels, 1, k) \in Seq(Seq(Byte)) /\ Len(SubSeq(labels, 1, k)) = k
        /\ \A i \in 1..k : SubSeq(labels, 1, k)[i] = labels[i]
    BY <2>1, <1>0, PrefixIs
  <2>. QED  BY <2>2, Zenon
<1>5. PICK f \in Seq(Seq(Byte)) : /\ f = Append(front, l1) /\ Len(f) = k + 1
                                 /\ f[k + 1] = l1 /\ \A i \in 1..k : f[i] = front[i]
  <2>1. Append(front, l1) \in Seq(Seq(Byte)) /\ IsAppend(Append(front, l1), front, l1)
    BY AppendIs
  <2>. QED  BY <2>1, <1>4, Zenon DEF IsAppend
<1>6. PICK M \in Nat : M = Len(parts)
  BY LenProperties
<1>7. M > k + 1 /\ \A i \in 1..(k + 1) : parts[i] = f[i]
  <2>1. Continues(parts, f)
    BY <1>2, <1>3, <1>4, <1>5, Zenon
  <2>. QED  BY <2>1, <1>5, <1>6, Zenon DEF Continues
<1>8. parts[k + 1] = l1 /\ \A i \in 1..k : parts[i] = labels[i]
  <2>1. k + 1 \in 1..(k + 1) /\ \A i \in 1..k : i \in 1..(k + 1)
    BY <1>0
  <2>. QED  BY <2>1, <1>4, <1>5, <1>7, Zenon
<1>9. PICK all \in Seq(Byte) : all = EncodeLabels(labels)
  BY EncodeLabelsLie
<1>10. PICK off \in [0..N -> Nat] :
          off[0] = 0 /\ \A i \in 1..N : LabelAt(all, labels[i], off[i - 1], off[i])
  BY <1>9, EncodeLabelsLie, Zenon
<1>11. PICK cut \in Seq(Byte) : cut = EncodeLabels(parts)
  BY <1>6, EncodePartsLie
<1>12. PICK at \in [0..M -> Nat] :
          at[0] = 0 /\ \A i \in 1..M : PartAt(cut, parts[i], at[i - 1], at[i])
  BY <1>6, <1>11, EncodePartsLie, Zenon
<1>. DEFINE T == {i \in 0..k : at[i] = off[i]}
<1>13. 0 \in T
  <2>1. 0 \in 0..k
    BY <1>0
  <2>. QED  BY <2>1, <1>10, <1>12, Zenon
<1>14. ASSUME NEW i \in 0..(k - 1), i \in T PROVE i + 1 \in T
  <2>1. /\ i + 1 \in 1..k /\ (i + 1) - 1 = i /\ i + 1 \in 1..N /\ i + 1 \in 1..M
        /\ i + 1 \in 0..k
    BY <1>7
  <2>2. off[i + 1] = off[i] + 1 + Len(labels[i + 1])
    BY <2>1, <1>10, Zenon DEF LabelAt
  <2>3. at[i + 1] = at[i] + 1 + Len(parts[i + 1])
    BY <2>1, <1>12, Zenon DEF PartAt
  <2>4. parts[i + 1] = labels[i + 1] /\ at[i] = off[i]
    BY <2>1, <1>8, <1>14, Zenon
  <2>. QED  BY <2>1, <2>2, <2>3, <2>4, Zenon
<1>15. 0..k \subseteq T
  <2>. HIDE DEF T
  <2>. QED  BY <1>0, <1>13, <1>14, UpTo
<1>16. at[k] = off[k]
  <2>1. k \in 0..k
    BY <1>0
  <2>. QED  BY <2>1, <1>15, Zenon
<1>17. (k + 1) - 1 = k /\ k + 1 \in 1..M
  BY <1>0, <1>7
<1>18. all[off[k] + 1] = n
  BY <1>0, <1>1, <1>10, <1>17, Zenon DEF LabelAt
<1>19. cut[at[k] + 1] = j % Base
  BY <1>3, <1>8, <1>12, <1>17, Zenon DEF PartAt
<1>20. j % Base = j
  <2>1. j \in 0..(Base - 1) /\ Base \in Nat \ {0}
    BY <1>2, DnsConstants, BytesAreNumbers
  <2>. QED  BY <2>1, SmallMod
<1>21. j # n
  BY <1>2
<1>. QED  BY <1>9, <1>11, <1>16, <1>18, <1>19, <1>20, <1>21, Zenon

\* A name without labels is encoded as nothing, and a name with parts never is.
LEMMA RootEncoded ==
  ASSUME NEW labels \in Seq(Seq(Byte)), labels = <<>>,
         NEW parts \in Seq(Seq(Byte)), parts # <<>>
  PROVE  EncodeLabels(parts) # EncodeLabels(labels)
<1>1. PICK N \in Nat, M \in Nat : N = Len(labels) /\ N = 0 /\ M = Len(parts) /\ M # 0
  BY EmptySeq, LenProperties
<1>2. Len(EncodeLabels(labels)) = 0
  BY <1>1, EncodePartsLie
<1>3. PICK at \in [0..M -> Nat] :
         /\ at[0] = 0 /\ at[M] = Len(EncodeLabels(parts))
         /\ \A i \in 1..M : at[i] <= at[M] /\ PartAt(EncodeLabels(parts), parts[i], at[i - 1], at[i])
  BY <1>1, EncodePartsLie, Zenon
<1>4. 1 \in 1..M /\ 1 - 1 = 0 /\ M \in 0..M /\ 1 \in 0..M
  BY <1>1
<1>5. PICK n \in Nat : n = Len(parts[1])
  BY <1>1, <1>4, ElementOfSeq, LenProperties
<1>6. at[1] = 0 + 1 + n /\ at[1] <= at[M]
  BY <1>3, <1>4, <1>5, Zenon DEF PartAt
<1>7. at[M] # 0
  BY <1>4, <1>6
<1>. QED  BY <1>2, <1>3, <1>7, Zenon

\* The name of a question inside its packet.
Packet(labels) == Header \o (EncodeLabels(labels) \o <<0>>) \o Trailer

\* The labels of a question lie behind the header of the packet.
LEMMA QuestionLies ==
  ASSUME NEW labels \in Questions, NEW N \in Nat, N = Len(labels)
  PROVE  /\ Packet(labels) \in Seq(Byte)
         /\ \E off \in [0..N -> Nat] :
               /\ off[0] = Len(Header) /\ off[N] = Len(Header) + Len(EncodeLabels(labels))
               /\ off[N] + 1 <= Len(Packet(labels))
               /\ \A i \in 0..N : off[i] <= off[N]
               /\ NameAt(Packet(labels), labels, off, N)
<1>1. PICK e \in Seq(Byte), H \in Nat, E \in Nat :
         e = EncodeLabels(labels) /\ H = Len(Header) /\ E = Len(e)
  BY EncodeLabelsLie, DnsConstants, LenProperties
<1>2. PICK rel \in [0..N -> Nat] :
         /\ rel[0] = 0 /\ rel[N] = E
         /\ \A i \in 1..N : rel[i] <= rel[N] /\ LabelAt(e, labels[i], rel[i - 1], rel[i])
  BY <1>1, EncodeLabelsLie, Zenon
<1>3. PICK z \in Seq(Byte) : z = <<0>> /\ Len(z) = 1 /\ z[1] = 0
  <2>1. 0 \in Byte
    BY ByteAssumption DEF Byte
  <2>2. <<0>> \in Seq(Byte) /\ Len(<<0>>) = 1 /\ <<0>>[1] = 0
    BY <2>1
  <2>. QED  BY <2>2, Zenon
<1>4. PICK q \in Seq(Byte) : q = e \o z /\ IsConcat(q, e, z)
  <2>1. e \o z \in Seq(Byte) /\ IsConcat(e \o z, e, z)
    BY ConcatIs
  <2>. QED  BY <2>1, Zenon
<1>5. PICK h \in Seq(Byte) : h = Header \o q /\ IsConcat(h, Header, q)
  <2>1. Header \o q \in Seq(Byte) /\ IsConcat(Header \o q, Header, q)
    BY DnsConstants, ConcatIs
  <2>. QED  BY <2>1, Zenon
<1>6. PICK data \in Seq(Byte) : data = h \o Trailer /\ IsConcat(data, h, Trailer)
  <2>1. h \o Trailer \in Seq(Byte) /\ IsConcat(h \o Trailer, h, Trailer)
    BY DnsConstants, ConcatIs
  <2>. QED  BY <2>1, Zenon
<1>7. data = Packet(labels)
  BY <1>1, <1>3, <1>4, <1>5, <1>6 DEF Packet
<1>8. PICK R \in Nat, L \in Nat : R = Len(Trailer) /\ L = Len(data)
  BY DnsConstants, LenProperties
<1>9. Len(q) = E + 1 /\ (\A j \in 1..E : q[j] = e[j]) /\ q[E + 1] = 0
  <2>1. Len(q) = E + 1 /\ (\A j \in 1..E : q[j] = e[j]) /\ \A j \in 1..1 : q[E + j] = z[j]
    BY <1>1, <1>3, <1>4, Zenon DEF IsConcat
  <2>. QED  BY <2>1, <1>3
<1>10. Len(h) = H + (E + 1) /\ \A j \in 1..(E + 1) : h[H + j] = q[j]
  BY <1>1, <1>5, <1>9, Zenon DEF IsConcat
<1>11. L = H + (E + 1) + R /\ \A j \in 1..(H + (E + 1)) : data[j] = h[j]
  BY <1>6, <1>8, <1>10, Zenon DEF IsConcat
<1>12. ASSUME NEW j \in 1..(E + 1) PROVE data[H + j] = q[j]
  <2>1. H + j \in 1..(H + (E + 1))
    OBVIOUS
  <2>. QED  BY <2>1, <1>10, <1>11, Zenon
<1>13. \A j \in 1..E : data[H + j] = e[j]
  BY <1>9, <1>12
<1>14. data[(H + E) + 1] = 0
  <2>1. E + 1 \in 1..(E + 1) /\ (H + E) + 1 = H + (E + 1)
    OBVIOUS
  <2>. QED  BY <2>1, <1>9, <1>12
<1>. DEFINE off == [i \in 0..N |-> H + rel[i]]
<1>15. off \in [0..N -> Nat] /\ \A i \in 0..N : off[i] = H + rel[i]
  OBVIOUS
<1>. HIDE DEF off
<1>16. off[0] = H /\ off[N] = H + E
  <2>1. 0 \in 0..N /\ N \in 0..N /\ H + 0 = H
    OBVIOUS
  <2>. QED  BY <2>1, <1>2, <1>15, Zenon
<1>17. ASSUME NEW i \in 1..N PROVE LabelAt(data, labels[i], off[i - 1], off[i])
  <2>1. i - 1 \in 0..N /\ i \in 0..N
    OBVIOUS
  <2>2. PICK l \in Seq(Byte), n \in Nat : l = labels[i] /\ n = Len(l)
    <3>1. labels[i] \in Seq(Byte)
      BY QuestionLabels, ElementOfSeq
    <3>. QED  BY <3>1, LenProperties
  <2>3. PICK o \in Nat : o = rel[i - 1] /\ off[i - 1] = H + o
    BY <2>1, <1>15
  <2>4. /\ rel[i] = o + 1 + n /\ rel[i] <= E /\ e[o + 1] = n
        /\ \A j \in 1..n : e[(o + 1) + j] = l[j]
    BY <1>2, <2>2, <2>3, Zenon DEF LabelAt, Holds
  <2>5. off[i] = (H + o) + 1 + n
    BY <2>1, <2>4, <1>15
  <2>6. data[(H + o) + 1] = n
    <3>1. o + 1 \in 1..E /\ (H + o) + 1 = H + (o + 1)
      BY <2>4
    <3>. QED  BY <3>1, <2>4, <1>13
  <2>7. ASSUME NEW j \in 1..n PROVE data[((H + o) + 1) + j] = l[j]
    <3>1. (o + 1) + j \in 1..E /\ ((H + o) + 1) + j = H + ((o + 1) + j)
      BY <2>4
    <3>. QED  BY <3>1, <2>4, <1>13
  <2>8. LabelAt(data, l, H + o, off[i])
    BY <2>2, <2>5, <2>6, <2>7 DEF LabelAt, Holds
  <2>. QED  BY <2>2, <2>3, <2>8
<1>18. \A i \in 0..N : off[i] <= off[N]
  <2>1. ASSUME NEW i \in 0..N PROVE off[i] <= H + E
    <3>1. rel[i] <= E
      <4>1. CASE i = 0
        BY <4>1, <1>2
      <4>2. CASE i # 0
        BY <4>2, <1>2
      <4>. QED  BY <4>1, <4>2
    <3>2. PICK r \in Nat : r = rel[i] /\ off[i] = H + r
      BY <1>15
    <3>. QED  BY <3>1, <3>2
  <2>. QED  BY <2>1, <1>16
<1>19. NameAt(data, labels, off, N)
  BY <1>14, <1>16, <1>17 DEF NameAt
<1>20. off[N] + 1 <= L
  BY <1>11, <1>16
<1>. QED  BY <1>1, <1>7, <1>8, <1>15, <1>16, <1>18, <1>19, <1>20, Zenon

\* One round of parseDNSName at the end of a name, and at a label.
LEMMA StepAtEnd ==
  ASSUME NEW data, NEW rest, NEW o, data[o + 1] = 0
  PROVE  ParseStep(data, rest, o) = Parsed(<<>>, o + 1)
<1>1. ~(0 >= Pointer)
  BY DnsConstants
<1>. QED  BY <1>1 DEF ParseStep

\* At a label the rest of the name decides.
LEMMA StepAtLabel ==
  ASSUME NEW data \in Seq(Byte), NEW L \in Nat, L = Len(data), NEW rest, NEW o \in Nat,
         NEW q \in Nat, q < L, NEW l \in Seq(Byte), Len(l) \in 1..(Pointer - 1),
         LabelAt(data, l, o, q), NEW parts, NEW next, rest[q] = Parsed(parts, next)
  PROVE  ParseStep(data, rest, o) = Parsed(<<l>> \o parts, next)
<1>1. PICK n \in Nat : n = Len(l)
  BY LenProperties
<1>2. n # 0 /\ ~(n >= Pointer)
  BY <1>1, DnsConstants
<1>3. q = o + 1 + n /\ data[o + 1] = n /\ Holds(data, o + 1, l)
  BY <1>1 DEF LabelAt
<1>4. At(data, rest, q) = rest[q]
  BY DEF At
<1>5. PICK later : later = At(data, rest, q) /\ later = Parsed(parts, next)
  BY <1>4
<1>6. later.result = "ok" /\ later.parts = parts /\ later.next = next
  BY <1>5 DEF Parsed
<1>7. SubSeq(data, o + 2, q) = l
  <2>1. o + 1 \in Nat /\ (o + 1) + 1 = o + 2 /\ (o + 1) + n = q
    BY <1>3
  <2>2. SubSeq(data, (o + 1) + 1, (o + 1) + Len(l)) = l
    BY <2>1, <1>3, StretchIs
  <2>. QED  BY <2>1, <2>2, <1>1
<1>8. ~(q > L)
  OBVIOUS
<1>9. ParseStep(data, rest, o) =
         IF q > L THEN Failed
         ELSE IF later.result # "ok" THEN later
         ELSE Parsed(<<SubSeq(data, o + 2, q)>> \o later.parts, later.next)
  BY <1>2, <1>3, <1>5 DEF ParseStep
<1>. QED  BY <1>6, <1>7, <1>8, <1>9, Zenon

\* After n rounds the last n offsets of a name are parsed.
Known(table, labels, off, N, n) ==
    \A i \in 0..N : N - i < n => table[off[i]] = Parsed(SubSeq(labels, i + 1, N), off[N] + 1)

\* A round parses one label more.
LEMMA KnownStep ==
  ASSUME NEW labels \in Questions, NEW N \in Nat, N = Len(labels), NEW data \in Seq(Byte),
         NEW L \in Nat, L = Len(data), NEW off \in [0..N -> Nat], off[N] + 1 <= L,
         \A i \in 0..N : off[i] <= off[N], NameAt(data, labels, off, N),
         NEW rest, NEW n \in Nat, Known(rest, labels, off, N, n)
  PROVE  Known(Round(data, rest, L), labels, off, N, n + 1)
<1>1. \A i \in 0..N : off[i] \in Nat /\ off[i] \in 0..(L - 1) /\ off[i] < L
  <2>1. ASSUME NEW i \in 0..N PROVE off[i] \in Nat /\ off[i] \in 0..(L - 1) /\ off[i] < L
    <3>1. PICK x \in Nat, y \in Nat : x = off[i] /\ y = off[N] /\ x <= y
      OBVIOUS
    <3>2. x \in 0..(L - 1) /\ x < L
      BY <3>1
    <3>. QED  BY <3>1, <3>2
  <2>. QED  BY <2>1
<1>2. \A i \in 0..N : Round(data, rest, L)[off[i]] = ParseStep(data, rest, off[i])
  BY <1>1 DEF Round
<1>a. /\ labels \in Seq(Seq(Byte))
      /\ \A i \in 1..N : Len(labels[i]) \in 1..(Pointer - 1)
  BY QuestionLabels
<1>3. ASSUME NEW i \in 0..N, N - i < n + 1
      PROVE  ParseStep(data, rest, off[i]) = Parsed(SubSeq(labels, i + 1, N), off[N] + 1)
  <2>1. CASE i = N
    <3>1. SubSeq(labels, N + 1, N) = <<>>
      BY <1>a
    <3>2. data[off[N] + 1] = 0
      BY DEF NameAt
    <3>3. ParseStep(data, rest, off[N]) = Parsed(<<>>, off[N] + 1)
      BY <3>2, StepAtEnd
    <3>. QED  BY <2>1, <3>1, <3>3
  <2>2. CASE i # N
    <3>1. /\ i + 1 \in 1..N /\ (i + 1) - 1 = i /\ i + 1 \in 0..N /\ N - (i + 1) < n
          /\ (i + 1) + 1 = i + 2 /\ i + 1 \in 1..Len(labels) /\ N \in (i + 1)..Len(labels)
      BY <2>2, <1>3
    <3>2. PICK l \in Seq(Byte) : l = labels[i + 1]
      BY <3>1, <1>a, ElementOfSeq
    <3>3. Len(l) \in 1..(Pointer - 1)
      BY <3>1, <3>2, <1>a
    <3>4. PICK o \in Nat, q \in Nat : o = off[i] /\ q = off[i + 1] /\ q < L
      BY <3>1, <1>1
    <3>5. LabelAt(data, l, o, q)
      BY <3>1, <3>2, <3>4, Zenon DEF NameAt
    <3>6. rest[q] = Parsed(SubSeq(labels, (i + 1) + 1, N), off[N] + 1)
      BY <3>1, <3>4, Zenon DEF Known
    <3>7. ParseStep(data, rest, o) =
             Parsed(<<l>> \o SubSeq(labels, (i + 1) + 1, N), off[N] + 1)
      BY <3>3, <3>4, <3>5, <3>6, StepAtLabel
    <3>8. SubSeq(labels, i + 1, N) = <<labels[i + 1]>> \o SubSeq(labels, (i + 1) + 1, N)
      BY <3>1, <1>a, SubSeqRecursiveFirst
    <3>. QED  BY <3>2, <3>4, <3>7, <3>8, Zenon
  <2>. QED  BY <2>1, <2>2
<1>. QED  BY <1>2, <1>3, Zenon DEF Known

\* Every label takes a byte at least, so there are fewer of them than bytes.
LEMMA OffsetsGrow ==
  ASSUME NEW labels \in Questions, NEW N \in Nat, N = Len(labels), NEW data,
         NEW off \in [0..N -> Nat], NameAt(data, labels, off, N)
  PROVE  N <= off[N]
<1>. DEFINE T == {i \in 0..N : i <= off[i]}
<1>1. 0 \in T
  <2>1. off[0] \in Nat
    OBVIOUS
  <2>. QED  BY <2>1
<1>2. ASSUME NEW i \in 0..(N - 1), i \in T PROVE i + 1 \in T
  <2>1. i + 1 \in 1..N /\ (i + 1) - 1 = i /\ i \in 0..N
    OBVIOUS
  <2>2. PICK n \in Nat : n = Len(labels[i + 1])
    BY <2>1, QuestionLabels
  <2>3. off[i + 1] = off[i] + 1 + n
    BY <2>1, <2>2, Zenon DEF NameAt, LabelAt
  <2>4. PICK o \in Nat : o = off[i] /\ i <= o
    BY <1>2, <2>1
  <2>. QED  BY <2>1, <2>3, <2>4
<1>3. 0..N \subseteq T
  <2>. HIDE DEF T
  <2>. QED  BY <1>1, <1>2, UpTo
<1>4. N \in 0..N
  OBVIOUS
<1>. QED  BY <1>3, <1>4

\* parseDNSName finds the labels of a question and the offset after them.
LEMMA ParsesQuestion ==
  ASSUME NEW labels \in Questions
  PROVE  parseDNSName(Packet(labels), Len(Header)) =
            [result |-> "ok", name |-> Join(labels),
             next |-> Len(Header) + Len(EncodeLabels(labels)) + 1]
<1>0. /\ labels \in Seq(Seq(Byte)) /\ Len(Header) \in Nat
      /\ Len(EncodeLabels(labels)) \in Nat
  <2>1. Len(labels) \in Nat
    BY QuestionLabels, LenProperties
  <2>2. EncodeLabels(labels) \in Seq(Byte)
    BY <2>1, EncodeLabelsLie
  <2>. QED  BY <2>2, QuestionLabels, DnsConstants, LenProperties
<1>1. PICK N \in Nat, H \in Nat, E \in Nat :
         N = Len(labels) /\ H = Len(Header) /\ E = Len(EncodeLabels(labels))
  BY <1>0, LenProperties
<1>2. PICK data \in Seq(Byte), L \in Nat : data = Packet(labels) /\ L = Len(data)
  BY <1>1, QuestionLies, LenProperties
<1>3. PICK off \in [0..N -> Nat] :
         /\ off[0] = H /\ off[N] = H + E /\ off[N] + 1 <= L
         /\ \A i \in 0..N : off[i] <= off[N]
         /\ NameAt(data, labels, off, N)
  BY <1>1, <1>2, QuestionLies, Zenon
<1>4. PICK g \in [0..L -> Tables(L)] :
         /\ \A k \in 1..L : g[k] = Round(data, g[k - 1], L)
         /\ Parses(data) = g[L]
  BY <1>2, ParsesDef
<1>. DEFINE T == {n \in 0..L : Known(g[n], labels, off, N, n)}
<1>5. 0 \in T
  <2>1. \A i \in 0..N : ~(N - i < 0)
    OBVIOUS
  <2>2. Known(g[0], labels, off, N, 0)
    BY <2>1, Zenon DEF Known
  <2>. QED  BY <2>2
<1>6. ASSUME NEW n \in 0..(L - 1), n \in T PROVE n + 1 \in T
  <2>1. n + 1 \in 1..L /\ (n + 1) - 1 = n /\ n \in Nat /\ n + 1 \in 0..L
    OBVIOUS
  <2>2. Known(Round(data, g[n], L), labels, off, N, n + 1)
    BY <2>1, <1>1, <1>2, <1>3, <1>6, KnownStep
  <2>3. g[n + 1] = Round(data, g[n], L)
    BY <2>1, <1>4
  <2>. QED  BY <2>1, <2>2, <2>3
<1>7. 0..L \subseteq T
  <2>. HIDE DEF T
  <2>. QED  BY <1>5, <1>6, UpTo
<1>8. N - 0 < L /\ H < L
  <2>1. N <= H + E
    BY <1>1, <1>3, OffsetsGrow
  <2>. QED  BY <2>1, <1>3
<1>9. Parses(data)[H] = Parsed(labels, H + E + 1)
  <2>1. L \in 0..L /\ 0 \in 0..N /\ 0 + 1 = 1
    OBVIOUS
  <2>2. Known(g[L], labels, off, N, L)
    BY <2>1, <1>7
  <2>3. g[L][off[0]] = Parsed(SubSeq(labels, 1, N), off[N] + 1)
    BY <2>1, <2>2, <1>8, Zenon DEF Known
  <2>4. SubSeq(labels, 1, N) = labels
    BY <1>0, <1>1
  <2>. QED  BY <2>3, <2>4, <1>3, <1>4, Zenon
<1>10. PICK r : r = At(data, Parses(data), H) /\ r = Parsed(labels, H + E + 1)
  BY <1>2, <1>8, <1>9 DEF At
<1>11. r.result = "ok" /\ r.parts = labels /\ r.next = H + E + 1
  BY <1>10 DEF Parsed
<1>12. parseDNSName(data, H) = [result |-> "ok", name |-> Join(labels), next |-> H + E + 1]
  BY <1>10, <1>11 DEF parseDNSName
<1>. QED  BY <1>1, <1>2, <1>12, Zenon

\* What ends with the same byte is the same in front of it.
LEMMA SameFront ==
  ASSUME NEW a \in Seq(Byte), NEW b \in Seq(Byte), a \o << 0 >> = b \o << 0 >>
  PROVE  a = b
<1>1. PICK z \in Seq(Byte) : z = <<0>> /\ Len(z) = 1
  <2>1. 0 \in Byte
    BY ByteAssumption DEF Byte
  <2>2. <<0>> \in Seq(Byte) /\ Len(<<0>>) = 1
    BY <2>1
  <2>. QED  BY <2>2, Zenon
<1>2. IsConcat(a \o z, a, z) /\ IsConcat(b \o z, b, z)
  BY ConcatIs
<1>3. PICK m \in Nat, n \in Nat : m = Len(a) /\ n = Len(b)
  BY LenProperties
<1>4. PICK c : c = a \o z /\ c = b \o z
  BY <1>1
<1>5. m + 1 = n + 1 /\ (\A i \in 1..m : c[i] = a[i]) /\ (\A i \in 1..n : c[i] = b[i])
  BY <1>1, <1>2, <1>3, <1>4, Zenon DEF IsConcat
<1>6. m = n
  BY <1>5
<1>7. \A i \in 1..Len(a) : a[i] = b[i]
  BY <1>3, <1>5, <1>6, Zenon
<1>. QED  BY <1>3, <1>6, <1>7, SeqEqual

\* The names that come apart as they were put together are those without the root
\* name and without dots.
LEMMA SplittableIs ==
  ASSUME NEW labels \in Seq(Seq(Byte))
  PROVE  Splittable(labels) <=> labels # <<>> /\ Plain(labels, Len(labels))
<1>1. DOMAIN labels = 1..Len(labels)
  BY LenProperties
<1>2. \A i \in 1..Len(labels) : DOMAIN labels[i] = 1..Len(labels[i])
  BY <1>1, ElementOfSeq, LenProperties
<1>. QED  BY <1>1, <1>2, Zenon DEF Splittable, Plain, NoDot

\* encodeDNSName undoes parseDNSName on exactly these names.
LEMMA EncodeSplit ==
  ASSUME NEW labels \in Questions
  PROVE  /\ EncodeLabels(labels) \in Seq(Byte)
         /\ encodeDNSName(Join(labels)) = EncodeLabels(labels) \o <<0>> <=> Splittable(labels)
<1>1. labels \in Seq(Seq(Byte))
  BY QuestionLabels
<1>2. PICK N \in Nat : N = Len(labels)
  BY <1>1, LenProperties
<1>3. PICK parts \in Seq(Seq(Byte)) : parts = Split(Join(labels)) /\ parts # <<>>
  <2>1. Join(labels) \in Seq(Byte)
    BY <1>1, JoinType
  <2>2. Split(Join(labels)) \in Seq(Seq(Byte)) \ {<<>>}
    BY <2>1, SplitType
  <2>3. Split(Join(labels)) \in Seq(Seq(Byte)) /\ Split(Join(labels)) # <<>>
    BY <2>2, Zenon
  <2>. QED  BY <2>3, Zenon
<1>4. EncodeLabels(labels) \in Seq(Byte)
  BY <1>2, EncodeLabelsLie
<1>5. EncodeLabels(parts) \in Seq(Byte)
  <2>1. Len(parts) \in Nat
    BY LenProperties
  <2>. QED  BY <2>1, EncodePartsLie
<1>6. encodeDNSName(Join(labels)) = EncodeLabels(parts) \o <<0>>
  BY <1>3, Zenon DEF encodeDNSName
<1>7. CASE Splittable(labels)
  <2>1. labels # <<>> /\ Plain(labels, Len(labels))
    BY <1>1, <1>7, SplittableIs
  <2>2. parts = labels
    BY <1>1, <1>3, <2>1, SplitJoin
  <2>. QED  BY <1>4, <1>6, <1>7, <2>2, Zenon
<1>8. CASE ~Splittable(labels)
  <2>1. labels = <<>> \/ ~Plain(labels, N)
    BY <1>1, <1>2, <1>8, SplittableIs
  <2>2. labels = <<>> => EncodeLabels(parts) # EncodeLabels(labels)
    <3>0. HAVE labels = <<>>
    <3>1. parts # <<>>
      BY <1>3, Zenon
    <3>. QED  BY <1>1, <3>0, <3>1, RootEncoded
  <2>3. ASSUME ~Plain(labels, N) PROVE EncodeLabels(parts) # EncodeLabels(labels)
    <3>1. \E k \in 0..N : CutAt(Split(Join(labels)), labels, N, k)
      BY <1>1, <1>2, <2>3, SplitCuts
    <3>2. PICK k \in 0..N : CutAt(parts, labels, N, k)
      BY <3>1, <1>3, Zenon
    <3>. QED  BY <1>2, <3>2, CutEncoded
  <2>4. EncodeLabels(parts) # EncodeLabels(labels)
    BY <2>1, <2>2, <2>3, Zenon
  <2>5. EncodeLabels(parts) \o <<0>> # EncodeLabels(labels) \o <<0>>
    BY <1>4, <1>5, <2>4, SameFront
  <2>. QED  BY <1>4, <1>6, <1>8, <2>5, Zenon
<1>. QED  BY <1>7, <1>8

\* parseDNSName reads every question without pointers to its end, and the name that
\* encodeDNSName makes of it is the question, byte for byte, exactly when the name is
\* not the root and none of its labels has a dot inside.
THEOREM DnsQuestionEchoed == Spec => []QuestionEchoed
<1>1. ASSUME NEW labels \in Questions
      PROVE  LET question == EncodeLabels(labels) \o <<0>>
                 r == parseDNSName(Header \o question \o Trailer, Len(Header))
             IN  /\ r.result = "ok" /\ r.next = Len(Header) + Len(question)
                 /\ encodeDNSName(r.name) = question <=> Splittable(labels)
  <2>1. PICK e \in Seq(Byte) : e = EncodeLabels(labels)
    BY EncodeSplit
  <2>2. PICK H \in Nat, E \in Nat : H = Len(Header) /\ E = Len(e)
    BY DnsConstants, LenProperties
  <2>3. PICK question : question = e \o <<0>> /\ Len(question) = E + 1
    <3>1. 0 \in Byte
      BY ByteAssumption DEF Byte
    <3>2. Len(e \o <<0>>) = E + 1
      BY <3>1, <2>2
    <3>. QED  BY <3>2
  <2>4. PICK r : r = parseDNSName(Header \o question \o Trailer, Len(Header))
    OBVIOUS
  <2>5. r = [result |-> "ok", name |-> Join(labels), next |-> H + E + 1]
    BY <2>1, <2>2, <2>3, <2>4, ParsesQuestion, Zenon DEF Packet
  <2>6. r.result = "ok" /\ r.name = Join(labels) /\ r.next = H + E + 1
    BY <2>5
  <2>7. encodeDNSName(Join(labels)) = question <=> Splittable(labels)
    BY <2>1, <2>3, EncodeSplit, Zenon
  <2>8. r.next = H + Len(question)
    BY <2>3, <2>6
  <2>. QED  BY <2>1, <2>2, <2>3, <2>4, <2>6, <2>7, <2>8, Zenon
<1>2. QuestionEchoed
  BY <1>1, Zenon DEF QuestionEchoed
<1>. QED  BY <1>2, PTL

-----------------------------------------------------------------------------
(* STUN responses.                                                         *)

\* The constants of a response.
LEMMA StunConstants ==
  /\ Width \in Nat /\ Align \in Nat \ {0} /\ Base > 4
  /\ XORMapped # MappedAddr /\ XORMapped \in Byte /\ MappedAddr \in Byte
  /\ Bodies \subseteq Seq(Byte)
BY StunMessageAssumption

\* The padding never takes anything away.
LEMMA PaddedIs ==
  ASSUME NEW n \in Nat
  PROVE  /\ Padded(n) \in Nat /\ Padded(n) >= n
         /\ Padded(n) = n + ((Align - (n % Align)) % Align)
<1>1. PICK r \in 0..(Align - 1) : r = n % Align
  BY StunConstants, DivMod
<1>2. CASE r = 0
  <2>1. Align % Align = 0
    <3>1. Align = 1 * Align + 0
      BY StunConstants
    <3>. QED  BY <3>1, StunConstants, DivModUnique
  <2>2. Align - r = Align
    BY <1>2, StunConstants
  <2>. QED  BY <2>1, <2>2, <1>1, <1>2 DEF Padded
<1>3. CASE r # 0
  <2>1. Align - r \in 0..(Align - 1)
    BY <1>3, StunConstants
  <2>2. (Align - r) % Align = Align - r
    BY <2>1, StunConstants, SmallMod
  <2>. QED  BY <2>1, <2>2, <1>1, <1>3 DEF Padded
<1>. QED  BY <1>2, <1>3

\* The offsets of the loop, round by round.
Rounds(q, body, msgLen) ==
    \A k \in 1..Len(body) : q[k] = NextOffset(body, msgLen, q[k - 1])

\* A round of the loop goes forward by a header at least, or stays.
LEMMA NextOffsetType ==
  ASSUME NEW body \in Seq(Nat), NEW msgLen \in Nat, NEW o \in Nat
  PROVE  /\ NextOffset(body, msgLen, o) \in Nat
         /\ GoesOn(body, msgLen, o) => NextOffset(body, msgLen, o) >= o + 2
         /\ ~GoesOn(body, msgLen, o) => NextOffset(body, msgLen, o) = o
         /\ GoesOn(body, msgLen, o) => o + 2 <= Len(body)
<1>1. CASE GoesOn(body, msgLen, o)
  <2>1. o + 2 <= Len(body)
    BY <1>1 DEF GoesOn, AttributeAt, HeaderSize
  <2>2. body[o + 2] \in Nat
    BY <2>1, ElementOfSeq
  <2>3. PICK p \in Nat : p = Padded(body[o + 2])
    BY <2>2, PaddedIs
  <2>4. NextOffset(body, msgLen, o) = o + 2 + p
    BY <1>1, <2>3 DEF NextOffset, HeaderSize
  <2>. QED  BY <1>1, <2>1, <2>4
<1>2. CASE ~GoesOn(body, msgLen, o)
  BY <1>2 DEF NextOffset
<1>. QED  BY <1>1, <1>2

\* The offsets of the loop exist, and LastOffset is the last of them.
LEMMA LastOffsetDef ==
  ASSUME NEW body \in Seq(Nat), NEW msgLen \in Nat
  PROVE  \E q \in [0..Len(body) -> Nat] :
            q[0] = 0 /\ Rounds(q, body, msgLen) /\ LastOffset(body, msgLen) = q[Len(body)]
<1>0. PICK w \in Nat : w = Len(body)
  BY LenProperties
<1>. DEFINE step == [p \in (1..w) \X Nat |-> NextOffset(body, msgLen, p[2])]
            F == CHOOSE f : f = [k \in 0..w |-> IF k = 0 THEN 0
                                                ELSE NextOffset(body, msgLen, f[k - 1])]
<1>1. step \in [(1..w) \X Nat -> Nat]
  BY NextOffsetType
<1>2. PICK g \in [0..w -> Nat] : Iterates(g, w, 0, step)
  <2>. HIDE DEF step
  <2>. QED  BY <1>1, Iteration
<1>3. g = [k \in 0..w |-> IF k = 0 THEN 0 ELSE NextOffset(body, msgLen, g[k - 1])]
  <2>1. ASSUME NEW k \in 1..w PROVE g[k] = NextOffset(body, msgLen, g[k - 1])
    <3>1. g[k] = step[<<k, g[k - 1]>>] /\ g[k - 1] \in Nat
      <4>. HIDE DEF step
      <4>. QED  BY <1>2 DEF Iterates
    <3>. QED  BY <3>1
  <2>2. g[0] = 0
    BY <1>2 DEF Iterates
  <2>. QED  BY <2>1, <2>2
<1>4. F = [k \in 0..w |-> IF k = 0 THEN 0 ELSE NextOffset(body, msgLen, F[k - 1])]
  BY <1>3, Zenon
<1>5. LastOffset(body, msgLen) = F[w]
  BY <1>0 DEF LastOffset
<1>. HIDE DEF F
<1>6. F[0] = 0 /\ \A k \in 1..w : F[k] = NextOffset(body, msgLen, F[k - 1])
  BY <1>4
<1>7. F = [k \in 0..w |-> F[k]]
  BY <1>4
<1>8. F \in [0..w -> Nat]
  <2>1. \A k \in 1..w : F[k - 1] \in Nat => F[k] \in Nat
    BY <1>6, NextOffsetType
  <2>2. F[0] \in Nat
    BY <1>6
  <2>. QED  BY <1>7, <2>1, <2>2, IterationType
<1>. QED  BY <1>0, <1>5, <1>6, <1>8 DEF Rounds

\* The loop of parseBindingResponse ends: every round that goes on takes a header,
\* and a header has to lie inside the data.
LEMMA LoopEnds ==
  ASSUME NEW body \in Seq(Nat), NEW msgLen \in Nat
  PROVE  LastOffset(body, msgLen) \in Nat /\ ~GoesOn(body, msgLen, LastOffset(body, msgLen))
<1>0. PICK w \in Nat : w = Len(body)
  BY LenProperties
<1>1. PICK q \in [0..w -> Nat] :
         q[0] = 0 /\ Rounds(q, body, msgLen) /\ LastOffset(body, msgLen) = q[w]
  BY <1>0, LastOffsetDef
<1>. DEFINE T == {k \in 0..w : GoesOn(body, msgLen, q[k]) => q[k] >= k}
<1>2. 0 \in T
  BY <1>1
<1>3. ASSUME NEW k \in 0..(w - 1), k \in T PROVE k + 1 \in T
  <2>1. k + 1 \in 1..w /\ (k + 1) - 1 = k /\ k \in 0..w
    OBVIOUS
  <2>2. PICK o \in Nat, p \in Nat : o = q[k] /\ p = q[k + 1]
    BY <2>1
  <2>3. p = NextOffset(body, msgLen, o)
    BY <1>0, <1>1, <2>1, <2>2 DEF Rounds
  <2>4. CASE GoesOn(body, msgLen, o)
    <3>1. o >= k
      BY <2>2, <2>4, <1>3
    <3>2. p >= o + 2
      BY <2>3, <2>4, NextOffsetType
    <3>. QED  BY <3>1, <3>2, <2>1, <2>2
  <2>5. CASE ~GoesOn(body, msgLen, o)
    <3>1. p = o
      BY <2>3, <2>5, NextOffsetType
    <3>. QED  BY <3>1, <2>1, <2>2, <2>5
  <2>. QED  BY <2>4, <2>5
<1>4. 0..w \subseteq T
  <2>. HIDE DEF T
  <2>. QED  BY <1>2, <1>3, UpTo
<1>5. PICK o \in Nat : o = q[w]
  OBVIOUS
<1>6. GoesOn(body, msgLen, o) => o >= w
  BY <1>4, <1>5
<1>7. ~GoesOn(body, msgLen, o)
  BY <1>0, <1>6, NextOffsetType
<1>. QED  BY <1>1, <1>5, <1>7

\* What the function returns where the loop stops.
LEMMA ReturnIs ==
  ASSUME NEW body \in Seq(Nat), NEW msgLen \in Nat, NEW o \in Nat,
         ~GoesOn(body, msgLen, o)
  PROVE  ReturnAt(body, msgLen, o).result \in {"ok", "nil", "error"}
<1>1. /\ NoAddress.result = "error" /\ MappedNil.result = "nil"
      /\ \A ip, p : Mapped(ip, p).result = "ok"
  BY DEF NoAddress, MappedNil, Mapped
<1>2. \A v : parseXORMappedAddr(v).result \in {"ok", "nil"}
  BY <1>1 DEF parseXORMappedAddr
<1>3. \A v : parseMappedAddr(v).result \in {"ok", "nil"}
  BY <1>1 DEF parseMappedAddr
<1>4. CASE ~AttributeAt(body, msgLen, o)
  BY <1>1, <1>4 DEF ReturnAt
<1>5. CASE AttributeAt(body, msgLen, o)
  <2>1. body[o + 1] \in {XORMapped, MappedAddr}
    BY <1>5 DEF GoesOn
  <2>2. ~(o + HeaderSize + body[o + 2] > Len(body))
    <3>1. o + 2 <= Len(body) /\ o + 2 + body[o + 2] <= Len(body)
      BY <1>5 DEF AttributeAt, ValueFits, HeaderSize
    <3>2. body[o + 2] \in Nat
      BY <3>1, ElementOfSeq
    <3>. QED  BY <3>1, <3>2 DEF HeaderSize
  <2>3. PICK v : v = SubSeq(body, o + HeaderSize + 1, o + HeaderSize + body[o + 2])
    OBVIOUS
  <2>4. CASE body[o + 1] = XORMapped
    <3>1. ReturnAt(body, msgLen, o) = parseXORMappedAddr(v)
      BY <1>5, <2>2, <2>3, <2>4, StunConstants DEF ReturnAt
    <3>. QED  BY <3>1, <1>2
  <2>5. CASE body[o + 1] = MappedAddr
    <3>1. ReturnAt(body, msgLen, o) = parseMappedAddr(v)
      BY <1>5, <2>2, <2>3, <2>5, StunConstants DEF ReturnAt
    <3>. QED  BY <3>1, <1>3
  <2>. QED  BY <2>1, <2>4, <2>5
<1>. QED  BY <1>4, <1>5

\* However the lengths of a response lie, parseBindingResponse leaves its loop and
\* returns, and no slice goes past the data.
LEMMA NoPanicHolds == NoPanic
<1>1. ASSUME NEW body \in Bodies, NEW msgLen \in Byte
      PROVE  parseBindingResponse([header |-> TRUE, msgLen |-> msgLen, body |-> body]).result
                 \in {"ok", "nil", "error"}
  <2>1. body \in Seq(Nat) /\ msgLen \in Nat
    BY StunConstants, BytesAreNumbers, WiderSeq
  <2>2. PICK r : r = [header |-> TRUE, msgLen |-> msgLen, body |-> body]
    OBVIOUS
  <2>3. r.header = TRUE /\ r.msgLen = msgLen /\ r.body = body
    BY <2>2
  <2>4. ReturnAt(body, msgLen, LastOffset(body, msgLen)).result \in {"ok", "nil", "error"}
    BY <2>1, LoopEnds, ReturnIs
  <2>5. NoAddress.result = "error"
    BY DEF NoAddress
  <2>. QED  BY <2>2, <2>3, <2>4, <2>5 DEF parseBindingResponse
<1>. QED  BY <1>1 DEF NoPanic

\* On any body and message length parseBindingResponse returns an address, a nil
\* address or an error: it terminates and never slices past the data.
THEOREM StunNoPanic == Spec => []NoPanic
BY NoPanicHolds, PTL

\* The client undoes what the server does to an address.
LEMMA XorTwice ==
  ASSUME NEW a \in Byte, NEW b \in Nat
  PROVE  Xor(a, b) \in Nat /\ Xor(Xor(a, b), b) = a
<1>1. PICK w \in Nat : w = Width /\ FitsIn(a, 2, w)
  BY StunMessageAssumption
<1>2. a \in Nat /\ 2 \in Nat \ {0} /\ 0..(2 - 1) = {0, 1}
  BY BytesAreNumbers
<1>3. PICK x \in [1..w -> 0..(2 - 1)], y \in [1..w -> 0..(2 - 1)] :
         x = Digits(a, 2, w) /\ y = Digits(b, 2, w)
  BY <1>2, DigitsType
<1>. DEFINE z == [k \in 1..w |-> (x[k] + y[k]) % 2]
            u == [k \in 1..w |-> (z[k] + y[k]) % 2]
<1>4. ASSUME NEW k \in 1..w PROVE z[k] \in 0..(2 - 1) /\ u[k] = x[k]
  <2>1. x[k] \in {0, 1} /\ y[k] \in {0, 1}
    BY <1>2, <1>3
  <2>2. z[k] = (x[k] + y[k]) % 2 /\ u[k] = (z[k] + y[k]) % 2
    OBVIOUS
  <2>. HIDE DEF z, u
  <2>. QED  BY <2>1, <2>2
<1>5. z \in [1..w -> 0..(2 - 1)]
  BY <1>4
<1>6. u = x
  <2>1. x = [k \in 1..w |-> x[k]] /\ u = [k \in 1..w |-> u[k]]
    OBVIOUS
  <2>. HIDE DEF u
  <2>. QED  BY <2>1, <1>4
<1>7. Xor(a, b) = Number(z, 2)
  BY <1>1, <1>3 DEF Xor
<1>8. Number(z, 2) \in Nat /\ Digits(Number(z, 2), 2, w) = z
  <2>. HIDE DEF z
  <2>. QED  BY <1>2, <1>5, DigitsOfNumber
<1>9. Xor(Number(z, 2), b) = Number(u, 2)
  <2>1. \A m : Xor(m, b) = Number([k \in 1..w |-> (Digits(m, 2, w)[k] + y[k]) % 2], 2)
    BY <1>1, <1>3 DEF Xor
  <2>. QED  BY <2>1, <1>8, Zenon
<1>10. Number(x, 2) = a
  BY <1>1, <1>2, <1>3, NumberOfDigits
<1>. HIDE DEF z, u
<1>. QED  BY <1>6, <1>7, <1>8, <1>9, <1>10

\* An attribute: type, length and value, and no more than their padding.
IsAttribute(s, t, v) ==
    /\ Len(s) = 2 + Padded(Len(v)) /\ s[1] = t /\ s[2] = Len(v)
    /\ \A j \in 1..Len(v) : s[2 + j] = v[j]

\* What a server writes for an attribute.
LEMMA AttributeIs ==
  ASSUME NEW t \in Nat, NEW v \in Seq(Nat)
  PROVE  Attribute(t, v) \in Seq(Nat) /\ IsAttribute(Attribute(t, v), t, v)
<1>1. PICK n \in Nat : n = Len(v)
  BY LenProperties
<1>2. PICK m \in Nat : m = (Align - (n % Align)) % Align /\ Padded(n) = n + m
  <2>1. Align - (n % Align) \in Nat
    <3>1. n % Align \in 0..(Align - 1)
      BY StunConstants, DivMod
    <3>. QED  BY <3>1, StunConstants
  <2>2. (Align - (n % Align)) % Align \in Nat
    BY <2>1, StunConstants, DivMod
  <2>. QED  BY <2>2, PaddedIs
<1>3. PICK p \in Seq(Nat) : p = Padding(v) /\ Len(p) = m
  <2>1. Padding(v) = [i \in 1..m |-> 0]
    BY <1>1, <1>2 DEF Padding
  <2>2. [i \in 1..m |-> 0] \in Seq(Nat) /\ Len([i \in 1..m |-> 0]) = m
    OBVIOUS
  <2>. QED  BY <2>1, <2>2
<1>4. PICK h \in Seq(Nat) : h = <<t, n>> /\ Len(h) = 2 /\ h[1] = t /\ h[2] = n
  <2>1. <<t, n>> \in Seq(Nat) /\ Len(<<t, n>>) = 2 /\ <<t, n>>[1] = t /\ <<t, n>>[2] = n
    OBVIOUS
  <2>. QED  BY <2>1, Zenon
<1>5. PICK a \in Seq(Nat) :
         /\ a = h \o v /\ Len(a) = 2 + n /\ \A j \in 1..2 : a[j] = h[j]
         /\ \A j \in 1..n : a[2 + j] = v[j]
  <2>1. h \o v \in Seq(Nat) /\ IsConcat(h \o v, h, v)
    BY ConcatIs
  <2>. QED  BY <2>1, <1>1, <1>4, Zenon DEF IsConcat
<1>6. PICK c \in Seq(Nat) :
         /\ c = a \o p /\ Len(c) = Len(a) + m
         /\ \A j \in 1..Len(a) : c[j] = a[j]
  <2>1. a \o p \in Seq(Nat) /\ IsConcat(a \o p, a, p)
    BY ConcatIs
  <2>. QED  BY <2>1, <1>3, Zenon DEF IsConcat
<1>7. c = Attribute(t, v)
  BY <1>1, <1>3, <1>4, <1>5, <1>6 DEF Attribute
<1>8. Len(c) = 2 + Padded(n) /\ c[1] = t /\ c[2] = n
  <2>1. Len(c) = 2 + Padded(n)
    BY <1>2, <1>5, <1>6
  <2>2. 1 \in 1..Len(a) /\ 2 \in 1..Len(a) /\ 1 \in 1..2 /\ 2 \in 1..2
    BY <1>5
  <2>. QED  BY <2>1, <2>2, <1>4, <1>5, <1>6, Zenon
<1>9. \A j \in 1..n : c[2 + j] = v[j]
  BY <1>5, <1>6
<1>. QED  BY <1>1, <1>7, <1>8, <1>9 DEF IsAttribute

\* The loop at the offset of an attribute.
LEMMA LoopAtAttribute ==
  ASSUME NEW body \in Seq(Nat), NEW o \in Nat, NEW s \in Seq(Nat), NEW t \in Nat,
         NEW v \in Seq(Nat), IsAttribute(s, t, v), Holds(body, o, s), o + Len(s) <= Len(body)
  PROVE  /\ body[o + 1] = t /\ body[o + 2] = Len(v)
         /\ AttributeAt(body, Len(body), o)
         /\ SubSeq(body, o + HeaderSize + 1, o + HeaderSize + Len(v)) = v
         /\ t \notin {XORMapped, MappedAddr} =>
               /\ GoesOn(body, Len(body), o)
               /\ NextOffset(body, Len(body), o) = o + Len(s)
<1>1. PICK n \in Nat, l \in Nat, m \in Nat, b \in Nat :
         n = Len(v) /\ l = Len(s) /\ m = Padded(n) /\ b = Len(body)
  BY LenProperties, PaddedIs
<1>2. m >= n
  BY <1>1, PaddedIs
<1>3. l = 2 + m /\ s[1] = t /\ s[2] = n /\ \A j \in 1..n : s[2 + j] = v[j]
  BY <1>1 DEF IsAttribute
<1>4. \A j \in 1..l : body[o + j] = s[j]
  BY <1>1 DEF Holds
<1>5. body[o + 1] = t /\ body[o + 2] = n
  <2>1. 1 \in 1..l /\ 2 \in 1..l
    BY <1>3
  <2>. QED  BY <2>1, <1>3, <1>4, Zenon
<1>6. o + l <= b
  BY <1>1
<1>7. AttributeAt(body, b, o)
  <2>1. o < b /\ o + 2 <= b /\ o + 2 + n <= b
    BY <1>2, <1>3, <1>6
  <2>. QED  BY <2>1, <1>1, <1>5, Zenon DEF AttributeAt, ValueFits, HeaderSize
<1>8. SubSeq(body, o + HeaderSize + 1, o + HeaderSize + n) = v
  <2>1. ASSUME NEW j \in 1..n PROVE body[(o + 2) + j] = v[j]
    <3>1. 2 + j \in 1..l /\ (o + 2) + j = o + (2 + j)
      BY <1>2, <1>3
    <3>. QED  BY <3>1, <1>3, <1>4
  <2>2. Holds(body, o + 2, v)
    BY <2>1, <1>1 DEF Holds
  <2>3. SubSeq(body, (o + 2) + 1, (o + 2) + n) = v
    <3>1. o + 2 \in Nat
      OBVIOUS
    <3>. QED  BY <3>1, <2>2, <1>1, StretchIs, Zenon
  <2>. QED  BY <2>3 DEF HeaderSize
<1>9. ASSUME t \notin {XORMapped, MappedAddr}
      PROVE  GoesOn(body, b, o) /\ NextOffset(body, b, o) = o + l
  <2>1. GoesOn(body, b, o)
    BY <1>5, <1>7, <1>9 DEF GoesOn
  <2>2. NextOffset(body, b, o) = o + 2 + m
    BY <2>1, <1>1, <1>5 DEF NextOffset, HeaderSize
  <2>. QED  BY <2>1, <2>2, <1>3
<1>. QED  BY <1>1, <1>5, <1>7, <1>8, <1>9

\* The loop stops at the first offset where it does not go on.
LEMMA StopsAt ==
  ASSUME NEW body \in Seq(Nat), NEW msgLen \in Nat, NEW N \in Nat, NEW off \in [0..N -> Nat],
         off[0] = 0, ~GoesOn(body, msgLen, off[N]),
         \A i \in 1..N : /\ GoesOn(body, msgLen, off[i - 1])
                         /\ NextOffset(body, msgLen, off[i - 1]) = off[i]
  PROVE  LastOffset(body, msgLen) = off[N]
<1>0. PICK w \in Nat : w = Len(body)
  BY LenProperties
<1>1. PICK q \in [0..w -> Nat] :
         q[0] = 0 /\ Rounds(q, body, msgLen) /\ LastOffset(body, msgLen) = q[w]
  BY <1>0, LastOffsetDef
<1>. DEFINE T == {k \in 0..w : \E i \in 0..N : q[k] = off[i]}
<1>2. 0 \in T
  BY <1>1
<1>3. ASSUME NEW k \in 0..(w - 1), k \in T PROVE k + 1 \in T
  <2>1. k + 1 \in 1..w /\ (k + 1) - 1 = k /\ k + 1 \in 0..w
    OBVIOUS
  <2>2. q[k + 1] = NextOffset(body, msgLen, q[k])
    BY <1>0, <1>1, <2>1 DEF Rounds
  <2>3. PICK i \in 0..N : q[k] = off[i]
    BY <1>3
  <2>4. CASE i = N
    <3>1. q[k + 1] = off[N]
      BY <2>2, <2>3, <2>4, NextOffsetType
    <3>. QED  BY <3>1, <2>1
  <2>5. CASE i # N
    <3>1. i + 1 \in 1..N /\ (i + 1) - 1 = i /\ i + 1 \in 0..N
      BY <2>5
    <3>2. NextOffset(body, msgLen, off[i]) = off[i + 1]
      BY <3>1
    <3>3. q[k + 1] = off[i + 1]
      BY <3>2, <2>2, <2>3
    <3>. QED  BY <3>1, <3>3, <2>1
  <2>. QED  BY <2>4, <2>5
<1>4. 0..w \subseteq T
  <2>. HIDE DEF T
  <2>. QED  BY <1>2, <1>3, UpTo
<1>5. PICK i \in 0..N : q[w] = off[i]
  BY <1>4
<1>6. ~GoesOn(body, msgLen, off[i])
  BY <1>1, <1>5, LoopEnds
<1>7. i = N
  <2>1. i # N => i + 1 \in 1..N /\ (i + 1) - 1 = i
    OBVIOUS
  <2>. QED  BY <2>1, <1>6
<1>. QED  BY <1>1, <1>5, <1>7

\* The attribute that holds an address, in either form.
AddressType(kind) == IF kind = "xor" THEN XORMapped ELSE MappedAddr

\* Its value.
AddressValue(kind, a) ==
    IF kind = "xor" THEN <<1, Xor(a[1], CookieByte(1)), Xor(a[2], CookieByte(1)),
                           Xor(a[3], CookieByte(2))>>
    ELSE <<1, a[1], a[2], a[3]>>

\* An address attribute, and what the parser of its form makes of its value.
LEMMA AddressIs ==
  ASSUME NEW kind \in {"xor", "plain"}, NEW a \in Addresses
  PROVE  /\ AddressType(kind) \in Nat /\ AddressType(kind) \in {XORMapped, MappedAddr}
         /\ AddressValue(kind, a) \in Seq(Nat)
         /\ AddressAttribute(kind, a) = Attribute(AddressType(kind), AddressValue(kind, a))
         /\ kind = "xor" =>
               parseXORMappedAddr(AddressValue(kind, a)) = Mapped(<<a[2], a[3]>>, a[1])
         /\ kind = "plain" =>
               parseMappedAddr(AddressValue(kind, a)) = Mapped(<<a[2], a[3]>>, a[1])
<1>1. PICK p \in Byte, x \in Byte, y \in Byte : p = a[1] /\ x = a[2] /\ y = a[3]
  BY StunMessageAssumption
<1>2. PICK c \in Nat, d \in Nat : c = CookieByte(1) /\ d = CookieByte(2)
  <2>1. Digits(Cookie, Base, 2) \in [1..2 -> 0..(Base - 1)]
    BY StunMessageAssumption, BytesAreNumbers, DigitsType
  <2>2. CookieByte(1) \in 0..(Base - 1) /\ CookieByte(2) \in 0..(Base - 1)
    BY <2>1 DEF CookieByte
  <2>. QED  BY <2>2, BytesAreNumbers
<1>3. p \in Nat /\ x \in Nat /\ y \in Nat /\ XORMapped \in Nat /\ MappedAddr \in Nat
  BY StunConstants, BytesAreNumbers
<1>4. CASE kind = "xor"
  <2>1. PICK P \in Nat, X \in Nat, Y \in Nat :
           /\ P = Xor(p, c) /\ X = Xor(x, c) /\ Y = Xor(y, d)
           /\ Xor(P, c) = p /\ Xor(X, c) = x /\ Xor(Y, d) = y
    <3>1. /\ Xor(p, c) \in Nat /\ Xor(Xor(p, c), c) = p
          /\ Xor(x, c) \in Nat /\ Xor(Xor(x, c), c) = x
          /\ Xor(y, d) \in Nat /\ Xor(Xor(y, d), d) = y
      BY XorTwice
    <3>. QED  BY <3>1, Zenon
  <2>2. AddressValue(kind, a) = <<1, P, X, Y>>
    BY <1>1, <1>2, <1>4, <2>1 DEF AddressValue
  <2>3. /\ <<1, P, X, Y>> \in Seq(Nat) /\ Len(<<1, P, X, Y>>) = 4
        /\ <<1, P, X, Y>>[2] = P /\ <<1, P, X, Y>>[3] = X /\ <<1, P, X, Y>>[4] = Y
    BY <1>3
  <2>4. PICK v \in Seq(Nat) : /\ v = <<1, P, X, Y>> /\ Len(v) = 4
                              /\ v[2] = P /\ v[3] = X /\ v[4] = Y
    BY <2>3, Zenon
  <2>5. parseXORMappedAddr(v) =
           Mapped([i \in 1..2 |-> Xor(v[2 + i], CookieByte(i))], Xor(v[2], c))
    BY <2>4, <1>2 DEF parseXORMappedAddr, AddrSize
  <2>6. [i \in 1..2 |-> Xor(v[2 + i], CookieByte(i))] = <<x, y>>
    <3>1. [i \in 1..2 |-> Xor(v[2 + i], CookieByte(i))][1] = x
      BY <2>1, <2>4, <1>2
    <3>2. [i \in 1..2 |-> Xor(v[2 + i], CookieByte(i))][2] = y
      BY <2>1, <2>4, <1>2
    <3>. QED  BY <3>1, <3>2
  <2>7. parseXORMappedAddr(v) = Mapped(<<x, y>>, p)
    BY <2>1, <2>4, <2>5, <2>6
  <2>8. AddressAttribute(kind, a) = Attribute(XORMapped, <<1, P, X, Y>>)
    BY <1>1, <1>2, <1>4, <2>1 DEF AddressAttribute
  <2>9. AddressType(kind) = XORMapped
    BY <1>4 DEF AddressType
  <2>. QED  BY <1>1, <1>3, <1>4, <2>2, <2>4, <2>7, <2>8, <2>9
<1>5. CASE kind = "plain"
  <2>2. AddressValue(kind, a) = <<1, p, x, y>>
    BY <1>1, <1>5 DEF AddressValue
  <2>3. /\ <<1, p, x, y>> \in Seq(Nat) /\ Len(<<1, p, x, y>>) = 4
        /\ <<1, p, x, y>>[2] = p /\ <<1, p, x, y>>[3] = x /\ <<1, p, x, y>>[4] = y
    BY <1>3
  <2>4. PICK v \in Seq(Nat) : /\ v = <<1, p, x, y>> /\ Len(v) = 4
                              /\ v[2] = p /\ v[3] = x /\ v[4] = y
    BY <2>3, Zenon
  <2>5. parseMappedAddr(v) = Mapped(<<x, y>>, p)
    BY <2>4 DEF parseMappedAddr, AddrSize
  <2>8. AddressAttribute(kind, a) = Attribute(MappedAddr, <<1, p, x, y>>)
    BY <1>1, <1>5 DEF AddressAttribute
  <2>9. AddressType(kind) = MappedAddr
    BY <1>5 DEF AddressType
  <2>. QED  BY <1>1, <1>3, <1>5, <2>2, <2>4, <2>5, <2>8, <2>9
<1>. QED  BY <1>4, <1>5

\* The other attributes, as byte sequences.
Others(before) == [i \in DOMAIN before |-> Attribute(before[i].type, before[i].value)]

\* The attributes before the address are of types the client does not know.
LEMMA OthersAre ==
  ASSUME NEW before \in Preambles
  PROVE  /\ Others(before) \in Seq(Seq(Nat)) /\ Len(Others(before)) = Len(before)
         /\ \A i \in 1..Len(before) :
               \E t \in Nat, v \in Seq(Nat) :
                  /\ t \notin {XORMapped, MappedAddr}
                  /\ IsAttribute(Others(before)[i], t, v)
<1>1. PICK n \in Nat : n = Len(before)
  BY StunMessageAssumption, LenProperties
<1>2. DOMAIN before = 1..n
  BY <1>1, StunMessageAssumption, LenProperties
<1>3. ASSUME NEW i \in 1..n
      PROVE  \E t \in Nat, v \in Seq(Nat) :
                /\ t \notin {XORMapped, MappedAddr} /\ t = before[i].type /\ v = before[i].value
  <2>1. before[i] \in [type : Byte \ {XORMapped, MappedAddr}, value : Seq(Byte)]
    BY <1>1, StunMessageAssumption, ElementOfSeq
  <2>2. /\ before[i].type \in Byte /\ before[i].type \notin {XORMapped, MappedAddr}
        /\ before[i].value \in Seq(Byte)
    BY <2>1
  <2>3. before[i].value \in Seq(Nat)
    BY <2>2, BytesAreNumbers, WiderSeq
  <2>. QED  BY <2>2, <2>3, BytesAreNumbers
<1>4. ASSUME NEW i \in 1..n
      PROVE  /\ Others(before)[i] \in Seq(Nat)
             /\ \E t \in Nat, v \in Seq(Nat) :
                   /\ t \notin {XORMapped, MappedAddr}
                   /\ IsAttribute(Others(before)[i], t, v)
  <2>1. PICK t \in Nat, v \in Seq(Nat) :
           /\ t \notin {XORMapped, MappedAddr} /\ t = before[i].type /\ v = before[i].value
    BY <1>3
  <2>2. Others(before)[i] = Attribute(t, v)
    BY <2>1, <1>2 DEF Others
  <2>. QED  BY <2>1, <2>2, AttributeIs
<1>5. Others(before) \in [1..n -> Seq(Nat)]
  BY <1>2, <1>4 DEF Others
<1>. QED  BY <1>1, <1>4, <1>5

\* An address after other attributes is what the function returns.
LEMMA FindsAddress ==
  ASSUME NEW kind \in {"xor", "plain"}, NEW a \in Addresses, NEW before \in Preambles
  PROVE  parseBindingResponse(Response(before, kind, a)) = Mapped(<<a[2], a[3]>>, a[1])
<1>1. PICK t \in Nat, v \in Seq(Nat) :
         t = AddressType(kind) /\ v = AddressValue(kind, a) /\ t \in {XORMapped, MappedAddr}
  BY AddressIs
<1>2. PICK s \in Seq(Nat) : s = AddressAttribute(kind, a) /\ IsAttribute(s, t, v)
  <2>1. AddressAttribute(kind, a) = Attribute(t, v)
    BY <1>1, AddressIs
  <2>. QED  BY <2>1, AttributeIs
<1>3. PICK os \in Seq(Seq(Nat)), N \in Nat : os = Others(before) /\ N = Len(os)
  BY OthersAre, LenProperties
<1>4. ASSUME NEW i \in 1..N
      PROVE  \E u \in Nat, w \in Seq(Nat) :
                u \notin {XORMapped, MappedAddr} /\ IsAttribute(os[i], u, w)
  BY <1>3, OthersAre
<1>5. PICK seqs \in Seq(Seq(Nat)) :
         /\ seqs = Append(os, s) /\ Len(seqs) = N + 1 /\ seqs[N + 1] = s
         /\ \A i \in 1..N : seqs[i] = os[i]
  <2>1. Append(os, s) \in Seq(Seq(Nat)) /\ IsAppend(Append(os, s), os, s)
    BY AppendIs
  <2>. QED  BY <2>1, <1>3, Zenon DEF IsAppend
<1>6. PICK body \in Seq(Nat) : body = FlattenSeq(seqs) /\ body = FlattenSeq(os) \o s
  <2>1. FlattenSeq(seqs) \in Seq(Nat)
    BY FlattenType
  <2>2. FlattenSeq(Append(os, s)) = FlattenSeq(os) \o s
    BY FlattenAppend
  <2>. QED  BY <2>1, <2>2, <1>5
<1>7. PICK pos \in [0..(N + 1) -> Nat] : Lies(pos, seqs, N + 1, body)
  <2>1. N + 1 \in Nat
    OBVIOUS
  <2>. QED  BY <2>1, <1>5, <1>6, FlattenOffsets
<1>8. pos[0] = 0
  BY <1>7 DEF Lies
<1>9. ASSUME NEW i \in 1..(N + 1)
      PROVE  /\ pos[i] = pos[i - 1] + Len(seqs[i]) /\ pos[i] <= Len(body)
             /\ Holds(body, pos[i - 1], seqs[i])
  BY <1>7, Zenon DEF Lies, Holds
<1>10. Len(body) \in Nat
  BY LenProperties
<1>11. ASSUME NEW i \in 1..N
       PROVE  /\ GoesOn(body, Len(body), pos[i - 1])
              /\ NextOffset(body, Len(body), pos[i - 1]) = pos[i]
  <2>1. i \in 1..(N + 1) /\ i - 1 \in 0..(N + 1)
    OBVIOUS
  <2>2. PICK u \in Nat, w \in Seq(Nat) :
           u \notin {XORMapped, MappedAddr} /\ IsAttribute(os[i], u, w)
    BY <1>4
  <2>3. PICK o \in Nat, x \in Seq(Nat) : o = pos[i - 1] /\ x = os[i]
    <3>1. pos[i - 1] \in Nat
      BY <2>1
    <3>2. os[i] \in Seq(Nat)
      BY <1>3, ElementOfSeq
    <3>. QED  BY <3>1, <3>2
  <2>4. pos[i] = o + Len(x) /\ pos[i] <= Len(body) /\ Holds(body, o, x)
    <3>1. seqs[i] = x
      BY <2>3, <1>5
    <3>. QED  BY <2>1, <2>3, <3>1, <1>9, Zenon
  <2>5. o + Len(x) <= Len(body) /\ IsAttribute(x, u, w)
    BY <2>2, <2>3, <2>4, Zenon
  <2>6. GoesOn(body, Len(body), o) /\ NextOffset(body, Len(body), o) = o + Len(x)
    BY <2>2, <2>4, <2>5, LoopAtAttribute
  <2>. QED  BY <2>3, <2>4, <2>6, Zenon
<1>12. PICK o \in Nat : o = pos[N] /\ Holds(body, o, s) /\ o + Len(s) <= Len(body)
  <2>1. N + 1 \in 1..(N + 1) /\ (N + 1) - 1 = N /\ N \in 0..(N + 1)
    OBVIOUS
  <2>2. pos[N] \in Nat
    BY <2>1
  <2>3. /\ pos[N + 1] = pos[N] + Len(s) /\ pos[N + 1] <= Len(body)
        /\ Holds(body, pos[N], s)
    BY <2>1, <1>5, <1>9, Zenon
  <2>. QED  BY <2>2, <2>3, Zenon
<1>13. /\ body[o + 1] = t /\ body[o + 2] = Len(v) /\ AttributeAt(body, Len(body), o)
       /\ SubSeq(body, o + HeaderSize + 1, o + HeaderSize + Len(v)) = v
  BY <1>2, <1>12, LoopAtAttribute
<1>14. ~GoesOn(body, Len(body), o)
  BY <1>1, <1>13 DEF GoesOn
<1>15. LastOffset(body, Len(body)) = o
  <2>. DEFINE off == [i \in 0..N |-> pos[i]]
  <2>1. off \in [0..N -> Nat]
    OBVIOUS
  <2>2. off[0] = 0 /\ off[N] = o
    BY <1>8, <1>12
  <2>3. ASSUME NEW i \in 1..N
        PROVE  /\ GoesOn(body, Len(body), off[i - 1])
               /\ NextOffset(body, Len(body), off[i - 1]) = off[i]
    <3>1. off[i - 1] = pos[i - 1] /\ off[i] = pos[i]
      OBVIOUS
    <3>. HIDE DEF off
    <3>. QED  BY <3>1, <1>11
  <2>. HIDE DEF off
  <2>. QED  BY <2>1, <2>2, <2>3, <1>10, <1>14, StopsAt
<1>16. ~(o + HeaderSize + Len(v) > Len(body))
  <2>1. o + HeaderSize + Len(v) <= Len(body) /\ Len(v) \in Nat
    BY <1>13, LenProperties DEF AttributeAt, ValueFits
  <2>. QED  BY <2>1, <1>10 DEF HeaderSize
<1>17. ReturnAt(body, Len(body), o) = Mapped(<<a[2], a[3]>>, a[1])
  <2>1. CASE kind = "xor"
    <3>1. t = XORMapped
      BY <2>1, <1>1 DEF AddressType
    <3>2. ReturnAt(body, Len(body), o) = parseXORMappedAddr(v)
      BY <3>1, <1>13, <1>16, StunConstants DEF ReturnAt
    <3>. QED  BY <3>2, <2>1, <1>1, AddressIs
  <2>2. CASE kind = "plain"
    <3>1. t = MappedAddr
      BY <2>2, <1>1 DEF AddressType
    <3>2. ReturnAt(body, Len(body), o) = parseMappedAddr(v)
      BY <3>1, <1>13, <1>16, StunConstants DEF ReturnAt
    <3>. QED  BY <3>2, <2>2, <1>1, AddressIs
  <2>. QED  BY <2>1, <2>2
<1>18. PICK r : r = Response(before, kind, a)
  OBVIOUS
<1>19. r = [header |-> TRUE, msgLen |-> Len(body), body |-> body]
  BY <1>18, <1>2, <1>3, <1>6 DEF Response, Others
<1>20. r.header = TRUE /\ r.msgLen = Len(body) /\ r.body = body
  BY <1>19
<1>21. parseBindingResponse(r) = ReturnAt(body, Len(body), LastOffset(body, Len(body)))
  <2>1. ~(Len(body) < Len(body))
    BY <1>10
  <2>. QED  BY <2>1, <1>20 DEF parseBindingResponse
<1>. QED  BY <1>15, <1>17, <1>18, <1>21

\* Whatever attributes with whatever padding come before it, the address a server
\* reports is the one parseBindingResponse returns, in the XOR form and in the plain.
THEOREM StunAddressFound == Spec => []AddressFound
<1>1. AddressFound
  BY FindsAddress DEF AddressFound
<1>. QED  BY <1>1, PTL

=============================================================================
