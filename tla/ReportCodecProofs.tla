-------------------------- MODULE ReportCodecProofs --------------------------
(***************************************************************************)
(* Lemmas about ReportCodec for reports of any texts: what the encoders     *)
(* write, letter by letter, and what the parser makes of it, whole or cut   *)
(* at any letter; what --supporting-data can be read as.                   *)
(***************************************************************************)
EXTENDS ReportCodec, TLAPS, FiniteSetTheorems, WellFoundedInduction, SequenceTheorems

IsSeq(s) == \E S : s \in Seq(S)

-----------------------------------------------------------------------------
(* Numbers and sequences. *)

LEMMA Least ==
    ASSUME NEW S, S \subseteq Nat, S # {}
    PROVE  Min(S) \in S /\ \A k \in S : Min(S) <= k
<1>1. PICK m \in S : \A k \in S : ~(<<k, m>> \in OpToRel(<, Nat))
  BY NatLessThanWellFounded, WFMin, Zenon
<1>2. \A k \in S : m <= k
  <2>1. \A k \in S : ~(k < m) BY <1>1 DEF OpToRel
  <2> QED BY <2>1
<1> QED BY <1>2 DEF Min

(* Induction over 0..m, for a set of numbers. *)
LEMMA UptoInduction ==
    ASSUME NEW m \in Nat, NEW S, 0 \in S, \A k \in 1..m : k - 1 \in S => k \in S
    PROVE  0..m \subseteq S
<1> SUFFICES ASSUME ~(0..m \subseteq S) PROVE FALSE OBVIOUS
<1> DEFINE Bad == {k \in 0..m : k \notin S}
<1>1. Bad # {} /\ Bad \subseteq Nat OBVIOUS
<1>2. PICK n \in Bad : \A k \in Bad : n <= k
  <2> HIDE DEF Bad
  <2> QED BY <1>1, Least
<1>3. n \in 1..m /\ n - 1 \in 0..m /\ ~(n <= n - 1) OBVIOUS
<1>4. n - 1 \in S BY <1>2, <1>3
<1> QED BY <1>3, <1>4

LEMMA Joined ==
    ASSUME NEW s, NEW t, IsSeq(s), IsSeq(t)
    PROVE  IsSeq(s \o t) /\ \A n \in 0..(Len(t) - 1) : IsSeq(SubSeq(t, 1, n))
<1>1. PICK S : s \in Seq(S) BY DEF IsSeq
<1>2. PICK T : t \in Seq(T) BY DEF IsSeq
<1>3. s \in Seq(S \cup T) /\ t \in Seq(S \cup T) BY <1>1, <1>2
<1>4. s \o t \in Seq(S \cup T) BY <1>3
<1>5. \A n \in 0..(Len(t) - 1) : SubSeq(t, 1, n) \in Seq(T) BY <1>2
<1> QED BY <1>4, <1>5 DEF IsSeq

LEMMA EmptyIsSeq == IsSeq(<<>>)
<1>1. <<>> \in Seq({}) OBVIOUS
<1> QED BY <1>1 DEF IsSeq

-----------------------------------------------------------------------------
(* FlattenSeq, which puts what is kept of a sequence together. *)

Flattens(f, seqs, n) ==
    f = [i \in 1..n |-> IF i = 1 THEN seqs[i] ELSE f[i - 1] \o seqs[i]]

(* The recursion has a solution. *)
LEMMA FlattenExists ==
    ASSUME NEW seqs, NEW m \in Nat
    PROVE  \E f : Flattens(f, seqs, m)
<1> DEFINE Good(n) == \E f : Flattens(f, seqs, n)
<1>1. Good(0)
  <2> DEFINE f == [i \in 1..0 |-> 0]
  <2>1. Flattens(f, seqs, 0)
    <3> DEFINE g == [i \in 1..0 |-> IF i = 1 THEN seqs[i] ELSE f[i - 1] \o seqs[i]]
    <3>1. \A i \in 1..0 : f[i] = g[i] OBVIOUS
    <3>2. f = g BY <3>1
    <3> QED BY <3>2 DEF Flattens
  <2> QED BY <2>1
<1>2. ASSUME NEW n \in 1..m, Good(n - 1) PROVE Good(n)
  <2>1. n \in Nat /\ n - 1 \in Nat OBVIOUS
  <2>2. PICK f : Flattens(f, seqs, n - 1) BY <1>2
  <2> DEFINE part == IF n = 1 THEN seqs[n] ELSE f[n - 1] \o seqs[n]
             g == [i \in 1..n |-> IF i = n THEN part ELSE f[i]]
  <2>3. ASSUME NEW i \in 1..n
        PROVE  g[i] = IF i = 1 THEN seqs[i] ELSE g[i - 1] \o seqs[i]
    <3>1. CASE i = n
      <4>1. g[i] = part BY <3>1
      <4>2. n # 1 => g[n - 1] = f[n - 1] BY <2>1
      <4> HIDE DEF g
      <4> QED BY <3>1, <4>1, <4>2
    <3>2. CASE i # n
      <4>1. i \in 1..(n - 1) BY <2>1, <3>2
      <4>2. g[i] = f[i] BY <3>2
      <4>3. i # 1 => g[i - 1] = f[i - 1] BY <2>1, <4>1
      <4>4. f[i] = IF i = 1 THEN seqs[i] ELSE f[i - 1] \o seqs[i]
        BY <2>2, <4>1 DEF Flattens
      <4> HIDE DEF g
      <4> QED BY <4>2, <4>3, <4>4
    <3> QED BY <3>1, <3>2
  <2>4. Flattens(g, seqs, n)
    <3> DEFINE h == [i \in 1..n |-> IF i = 1 THEN seqs[i] ELSE g[i - 1] \o seqs[i]]
    <3>1. \A i \in 1..n : g[i] = h[i] BY <2>3
    <3>2. g = h BY <3>1
    <3> QED BY <3>2 DEF Flattens
  <2> QED BY <2>4
<1>3. 0..m \subseteq {n \in Nat : Good(n)}
  <2> DEFINE S == {n \in Nat : Good(n)}
  <2> HIDE DEF Good
  <2>1. 0 \in S BY <1>1
  <2>2. \A n \in 1..m : n - 1 \in S => n \in S BY <1>2, SMTT(30)
  <2> HIDE DEF S
  <2> QED BY <2>1, <2>2, UptoInduction DEF S
<1> QED BY <1>3

(* A flattened sequence of parts grows part by part. *)
LEMMA FlattenGrows ==
    ASSUME NEW seqs, Len(seqs) \in Nat \ {0}
    PROVE  \E f : Flattens(f, seqs, Len(seqs)) /\ FlattenSeq(seqs) = f[Len(seqs)]
<1> DEFINE m == Len(seqs)
           f == CHOOSE g : g = [i \in 1..m |-> IF i = 1 THEN seqs[i] ELSE g[i - 1] \o seqs[i]]
<1>1. \E g : g = [i \in 1..m |-> IF i = 1 THEN seqs[i] ELSE g[i - 1] \o seqs[i]]
  BY FlattenExists DEF Flattens
<1>2. f = [i \in 1..m |-> IF i = 1 THEN seqs[i] ELSE f[i - 1] \o seqs[i]] BY <1>1
<1>3. FlattenSeq(seqs) = f[m] BY DEF FlattenSeq
<1> QED BY <1>2, <1>3 DEF Flattens

LEMMA SliceIsSeq ==
    ASSUME NEW S, NEW s \in Seq(S), NEW K
    PROVE  Slice(s, K) \in Seq(S)
<1> DEFINE m == Len(s)
           parts == [i \in DOMAIN s |-> IF i \in K THEN <<s[i]>> ELSE <<>>]
<1>1. m \in Nat /\ DOMAIN s = 1..m /\ \A i \in 1..m : s[i] \in S OBVIOUS
<1>2. Len(parts) = m /\ \A i \in 1..m : parts[i] \in Seq(S)
  <2>1. parts \in Seq(Seq(S)) BY <1>1
  <2>2. DOMAIN parts = 1..m BY <1>1
  <2> QED BY <1>1, <2>1, <2>2
<1>3. Slice(s, K) = FlattenSeq(parts) BY DEF Slice
<1>4. CASE m = 0
  <2>1. parts = <<>> BY <1>1, <1>2, <1>4
  <2> HIDE DEF parts
  <2>2. Slice(s, K) = <<>> BY <1>2, <1>3, <1>4, <2>1 DEF FlattenSeq
  <2> QED BY <2>2
<1>5. CASE m # 0
  <2> HIDE DEF parts, m
  <2>1. PICK f : Flattens(f, parts, m) /\ Slice(s, K) = f[m]
    BY <1>1, <1>2, <1>3, <1>5, FlattenGrows
  <2> DEFINE T == {n \in Nat : n # 0 => f[n] \in Seq(S)}
  <2>2. ASSUME NEW n \in 1..m, n - 1 \in T PROVE n \in T
    <3>1. f[n] = IF n = 1 THEN parts[n] ELSE f[n - 1] \o parts[n] BY <2>1 DEF Flattens
    <3>2. n \in Nat /\ parts[n] \in Seq(S) BY <1>1, <1>2
    <3>3. n # 1 => f[n - 1] \in Seq(S) BY <1>1, <2>2
    <3>4. f[n] \in Seq(S) BY <3>1, <3>2, <3>3
    <3> QED BY <3>2, <3>4
  <2>3. 0 \in T OBVIOUS
  <2> HIDE DEF T
  <2>4. 0..m \subseteq T BY <1>1, <2>2, <2>3, UptoInduction
  <2> QED BY <1>1, <1>5, <2>1, <2>4 DEF T
<1> QED BY <1>4, <1>5

-----------------------------------------------------------------------------
(* Sequences, by their letters. *)

LEMMA SeqFacts ==
    ASSUME NEW s, IsSeq(s)
    PROVE  Len(s) \in Nat /\ DOMAIN s = 1..Len(s)
<1>1. PICK S : s \in Seq(S) BY DEF IsSeq
<1> QED BY <1>1

(* A function on 1..n is a sequence. *)
LEMMA SeqByDomain ==
    ASSUME NEW n \in Nat, NEW s, DOMAIN s = 1..n, s = [i \in 1..n |-> s[i]]
    PROVE  IsSeq(s) /\ Len(s) = n
<1> DEFINE S == {s[i] : i \in 1..n}
<1>1. s \in [1..n -> S] OBVIOUS
<1>2. s \in Seq(S) BY <1>1
<1>3. Len(s) = n
  <2> HIDE DEF S
  <2> QED BY <1>2
<1> QED BY <1>2, <1>3 DEF IsSeq

LEMMA SameSeq ==
    ASSUME NEW s, NEW t, IsSeq(s), IsSeq(t), Len(s) = Len(t), \A i \in 1..Len(s) : s[i] = t[i]
    PROVE  s = t
<1>1. PICK S : s \in Seq(S) BY DEF IsSeq
<1>2. PICK T : t \in Seq(T) BY DEF IsSeq
<1>3. s \in Seq(S \cup T) /\ t \in Seq(S \cup T) BY <1>1, <1>2
<1> QED BY <1>3

LEMMA SubFacts ==
    ASSUME NEW s, IsSeq(s), NEW a \in Nat, NEW b \in Nat, a <= b, b <= Len(s)
    PROVE  LET t == SubSeq(s, a + 1, b) IN
           /\ IsSeq(t) /\ Len(t) = b - a
           /\ \A i \in 1..(b - a) : t[i] = s[a + i]
<1>1. PICK S : s \in Seq(S) BY DEF IsSeq
<1>2. SubSeq(s, a + 1, b) \in Seq(S) BY <1>1
<1>3. Len(SubSeq(s, a + 1, b)) = b - a BY <1>1
<1>4. \A i \in 1..(b - a) : SubSeq(s, a + 1, b)[i] = s[a + i] BY <1>1
<1> QED BY <1>2, <1>3, <1>4 DEF IsSeq

LEMMA ConcatFacts ==
    ASSUME NEW s, NEW t, IsSeq(s), IsSeq(t)
    PROVE  /\ IsSeq(s \o t) /\ Len(s \o t) = Len(s) + Len(t)
           /\ \A i \in 1..Len(s) : (s \o t)[i] = s[i]
           /\ \A i \in 1..Len(t) : (s \o t)[Len(s) + i] = t[i]
<1>1. PICK S : s \in Seq(S) BY DEF IsSeq
<1>2. PICK T : t \in Seq(T) BY DEF IsSeq
<1>3. s \in Seq(S \cup T) /\ t \in Seq(S \cup T) BY <1>1, <1>2
<1>4. s \o t \in Seq(S \cup T) BY <1>3
<1>5. Len(s \o t) = Len(s) + Len(t) BY <1>3
<1>6. \A i \in 1..Len(s) : (s \o t)[i] = s[i] BY <1>3
<1>7. \A i \in 1..Len(t) : (s \o t)[Len(s) + i] = t[i] BY <1>3
<1> QED BY <1>4, <1>5, <1>6, <1>7 DEF IsSeq

LEMMA ConcatIs ==
    \A s, t : IsSeq(s) /\ IsSeq(t) =>
       /\ IsSeq(s \o t) /\ Len(s \o t) = Len(s) + Len(t)
       /\ (\A i \in 1..Len(s) : (s \o t)[i] = s[i])
       /\ (\A i \in 1..Len(t) : (s \o t)[Len(s) + i] = t[i])
<1> TAKE s, t
<1> HAVE IsSeq(s) /\ IsSeq(t)
<1>1. IsSeq(s \o t) BY ConcatFacts
<1>2. Len(s \o t) = Len(s) + Len(t) BY ConcatFacts
<1>3. \A i \in 1..Len(s) : (s \o t)[i] = s[i] BY ConcatFacts
<1>4. \A i \in 1..Len(t) : (s \o t)[Len(s) + i] = t[i] BY ConcatFacts
<1> QED BY <1>1, <1>2, <1>3, <1>4

LEMMA OneFacts ==
    ASSUME NEW e
    PROVE  IsSeq(<<e>>) /\ Len(<<e>>) = 1 /\ <<e>>[1] = e
<1>1. <<e>> \in Seq({e}) OBVIOUS
<1> QED BY <1>1 DEF IsSeq

LEMMA TwoFacts ==
    ASSUME NEW e, NEW f
    PROVE  IsSeq(<<e, f>>) /\ Len(<<e, f>>) = 2 /\ <<e, f>>[1] = e /\ <<e, f>>[2] = f
<1>1. <<e, f>> \in Seq({e, f}) OBVIOUS
<1> QED BY <1>1 DEF IsSeq

(* Where each part of a flattened sequence is. *)
PartsAt(whole, seqs, end) ==
    /\ IsSeq(whole)
    /\ end \in [0..Len(seqs) -> Nat] /\ end[0] = 0 /\ Len(whole) = end[Len(seqs)]
    /\ \A i \in 1..Len(seqs) :
          /\ end[i] = end[i - 1] + Len(seqs[i])
          /\ \A k \in 1..Len(seqs[i]) : whole[end[i - 1] + k] = seqs[i][k]

LEMMA FlattenParts ==
    ASSUME NEW seqs, IsSeq(seqs), \A i \in DOMAIN seqs : IsSeq(seqs[i])
    PROVE  \E end : PartsAt(FlattenSeq(seqs), seqs, end)
<1> DEFINE m == Len(seqs)
<1>1. m \in Nat /\ DOMAIN seqs = 1..m BY SeqFacts
<1>2. \A i \in 1..m : IsSeq(seqs[i]) /\ Len(seqs[i]) \in Nat BY <1>1, SeqFacts
<1>3. CASE m = 0
  <2>1. seqs = <<>>
    <3>1. PICK S : seqs \in Seq(S) BY DEF IsSeq
    <3> QED BY <1>3, <3>1
  <2>2. FlattenSeq(seqs) = <<>> BY <1>1, <1>3, <2>1 DEF FlattenSeq
  <2> DEFINE end == [i \in 0..m |-> 0]
  <2>3. end \in [0..m -> Nat] /\ end[0] = 0 /\ end[m] = 0 BY <1>3
  <2>4. IsSeq(<<>>) /\ Len(<<>>) = 0 BY EmptyIsSeq
  <2> HIDE DEF end
  <2>5. PartsAt(FlattenSeq(seqs), seqs, end) BY <1>3, <2>2, <2>3, <2>4 DEF PartsAt
  <2> QED BY <2>5
<1>4. CASE m # 0
  <2>1. PICK f : Flattens(f, seqs, m) /\ FlattenSeq(seqs) = f[m]
    BY <1>1, <1>4, FlattenGrows
  <2> DEFINE h == [n \in 0..m |-> IF n = 0 THEN <<>> ELSE f[n]]
             end == [n \in 0..m |-> Len(h[n])]
             Good(n) == /\ IsSeq(h[n]) /\ end[n] \in Nat
                        /\ \A i \in 1..n :
                              /\ end[i] = end[i - 1] + Len(seqs[i])
                              /\ \A k \in 1..Len(seqs[i]) : /\ h[n][end[i - 1] + k] = seqs[i][k]
                                                            /\ end[i - 1] + k <= end[n]
                                                            /\ end[i - 1] + k \in Nat \ {0}
  <2>2. h[0] = <<>> /\ end[0] = 0 /\ Good(0)
    <3>1. h[0] = <<>> BY <1>1
    <3>2. end[0] = 0 BY <1>1, <3>1
    <3> HIDE DEF h, end
    <3> QED BY <3>1, <3>2, EmptyIsSeq
  <2>3. ASSUME NEW n \in 1..m, Good(n - 1) PROVE Good(n)
    <3>1. n \in Nat /\ n - 1 \in 0..m /\ n \in 0..m /\ n # 0
          /\ 1..n = (1..(n - 1)) \cup {n} /\ \A i \in 1..n : i - 1 \in 0..m /\ i \in 0..m /\ i \in 1..m
      BY <1>1
    <3>2. f[n] = IF n = 1 THEN seqs[n] ELSE f[n - 1] \o seqs[n] BY <2>1 DEF Flattens
    <3>3. IsSeq(seqs[n]) /\ Len(seqs[n]) \in Nat BY <1>2
    <3>4. h[n] = h[n - 1] \o seqs[n]
      <4>1. h[n] = f[n] BY <3>1
      <4>2. n # 1 => h[n - 1] = f[n - 1] BY <3>1
      <4>3. n = 1 => h[n - 1] = <<>> BY <3>1
      <4>4. <<>> \o seqs[n] = seqs[n]
        <5>1. PICK S : seqs[n] \in Seq(S) BY <3>3 DEF IsSeq
        <5> QED BY <5>1
      <4> HIDE DEF h
      <4> QED BY <3>2, <4>1, <4>2, <4>3, <4>4
    <3>5. IsSeq(h[n - 1]) /\ end[n - 1] = Len(h[n - 1]) /\ end[n] = Len(h[n])
          /\ end[n - 1] \in Nat
      BY <2>3, <3>1
    <3> HIDE DEF h, end
    <3>6. /\ IsSeq(h[n]) /\ end[n] = end[n - 1] + Len(seqs[n])
          /\ \A i \in 1..end[n - 1] : h[n][i] = h[n - 1][i]
          /\ \A i \in 1..Len(seqs[n]) : h[n][end[n - 1] + i] = seqs[n][i]
      <4> DEFINE p == seqs[n]
                 q == h[n - 1]
                 r == h[n]
                 e == end[n - 1]
                 x == end[n]
      <4>1. IsSeq(p) /\ IsSeq(q) /\ r = q \o p /\ e = Len(q) /\ x = Len(r) BY <3>3, <3>4, <3>5
      <4> HIDE DEF p, q, r, e, x
      <4>2. /\ IsSeq(r) /\ x = e + Len(p)
            /\ \A i \in 1..e : r[i] = q[i]
            /\ \A i \in 1..Len(p) : r[e + i] = p[i]
        BY <4>1, ConcatFacts
      <4> QED BY <4>2 DEF p, q, r, e, x
    <3>61. end[n] \in Nat /\ end[n - 1] <= end[n]
      <4> DEFINE l == Len(seqs[n])
                 e == end[n - 1]
                 x == end[n]
      <4>1. l \in Nat /\ e \in Nat /\ x = e + l BY <3>3, <3>5, <3>6
      <4> HIDE DEF l, e, x
      <4>2. x \in Nat /\ e <= x BY <4>1
      <4> QED BY <4>2 DEF e, x
    <3>7. ASSUME NEW i \in 1..n
          PROVE  /\ end[i] = end[i - 1] + Len(seqs[i])
                 /\ \A k \in 1..Len(seqs[i]) : /\ h[n][end[i - 1] + k] = seqs[i][k]
                                               /\ end[i - 1] + k <= end[n]
                                               /\ end[i - 1] + k \in Nat \ {0}
      <4>1. CASE i = n
        <5>1. \A k \in 1..Len(seqs[n]) : end[n - 1] + k <= end[n] /\ end[n - 1] + k \in Nat \ {0}
          <6> DEFINE l == Len(seqs[n])
                     e == end[n - 1]
                     x == end[n]
          <6>1. l \in Nat /\ e \in Nat /\ x = e + l BY <3>3, <3>5, <3>6
          <6> HIDE DEF l, e, x
          <6>2. \A k \in 1..l : e + k <= x /\ e + k \in Nat \ {0} BY <6>1
          <6> QED BY <6>2 DEF l, e, x
        <5> QED BY <3>6, <4>1, <5>1
      <4>2. CASE i # n
        <5>1. i \in 1..(n - 1) BY <3>1, <4>2
        <5>2. /\ end[i] = end[i - 1] + Len(seqs[i])
              /\ \A k \in 1..Len(seqs[i]) : /\ h[n - 1][end[i - 1] + k] = seqs[i][k]
                                            /\ end[i - 1] + k <= end[n - 1]
                                            /\ end[i - 1] + k \in Nat \ {0}
          BY <2>3, <5>1
        <5>3. ASSUME NEW k \in 1..Len(seqs[i])
              PROVE  /\ h[n][end[i - 1] + k] = seqs[i][k]
                     /\ end[i - 1] + k <= end[n]
                     /\ end[i - 1] + k \in Nat \ {0}
          <6> DEFINE j == end[i - 1] + k
                     e == end[n - 1]
                     x == end[n]
          <6>1. h[n - 1][j] = seqs[i][k] /\ j <= e /\ j \in Nat \ {0} BY <5>2
          <6>2. \A w \in 1..e : h[n][w] = h[n - 1][w] BY <3>6
          <6>3. x \in Nat /\ e <= x /\ e \in Nat BY <3>61, <3>5
          <6> HIDE DEF j, e, x
          <6>4. j \in 1..e /\ j <= x BY <6>1, <6>3
          <6>5. h[n][j] = seqs[i][k] BY <6>1, <6>2, <6>4
          <6> QED BY <6>1, <6>4, <6>5 DEF j, x
        <5> QED BY <5>2, <5>3
      <4> QED BY <4>1, <4>2
    <3>8. end[n] \in Nat BY <3>61
    <3> QED BY <3>6, <3>7, <3>8
  <2>4. \A n \in 0..m : Good(n)
    <3> DEFINE T == {n \in 0..m : Good(n)}
    <3> HIDE DEF Good
    <3>1. 0 \in T /\ \A n \in 1..m : n - 1 \in T => n \in T BY <1>1, <2>2, <2>3
    <3> HIDE DEF T
    <3>2. 0..m \subseteq T BY <1>1, <3>1, UptoInduction
    <3> QED BY <3>2 DEF T
  <2>5. FlattenSeq(seqs) = h[m] /\ end[m] = Len(h[m]) BY <1>1, <1>4, <2>1
  <2>6. end \in [0..m -> Nat]
    <3>1. \A n \in 0..m : Len(h[n]) = end[n] OBVIOUS
    <3>2. \A n \in 0..m : Len(h[n]) \in Nat BY <2>4, <3>1
    <3> HIDE DEF h
    <3> QED BY <3>2
  <2>7. Good(m)
    <3> HIDE DEF Good, m
    <3>1. m \in 0..m BY <1>1
    <3> QED BY <2>4, <3>1
  <2> HIDE DEF h, end
  <2>8. PartsAt(h[m], seqs, end)
    BY <1>1, <2>2, <2>5, <2>6, <2>7 DEF PartsAt
  <2> QED BY <2>5, <2>8
<1> QED BY <1>3, <1>4

-----------------------------------------------------------------------------
(* A field as csv writes it. *)

(* Where the letters of a field are when its quotes are doubled. *)
DoubledAt(text, field, at) ==
    /\ IsSeq(text)
    /\ at \in [0..Len(field) -> Nat] /\ at[0] = 0 /\ Len(text) = at[Len(field)]
    /\ \A i \in 1..Len(field) :
          /\ at[i] = at[i - 1] + (IF field[i] = Quote THEN 2 ELSE 1)
          /\ text[at[i - 1] + 1] = field[i]
          /\ field[i] = Quote => text[at[i - 1] + 2] = Quote

LEMMA Doubles ==
    ASSUME NEW field, IsSeq(field)
    PROVE  \E at : DoubledAt(Doubled(field), field, at)
<1> DEFINE parts == [i \in DOMAIN field |-> IF field[i] = Quote THEN <<Quote, Quote>> ELSE <<field[i]>>]
           m == Len(field)
<1>1. m \in Nat /\ DOMAIN field = 1..m BY SeqFacts
<1>2. \A i \in 1..m : parts[i] = IF field[i] = Quote THEN <<Quote, Quote>> ELSE <<field[i]>>
  BY <1>1
<1>3. IsSeq(parts) /\ Len(parts) = m /\ DOMAIN parts = 1..m
  <2>1. DOMAIN parts = 1..m /\ parts = [i \in 1..m |-> parts[i]] BY <1>1
  <2> HIDE DEF parts, m
  <2> QED BY <1>1, <2>1, SeqByDomain
<1>4. Doubled(field) = FlattenSeq(parts) BY DEF Doubled
<1> HIDE DEF parts, m
<1>5. ASSUME NEW i \in 1..m
      PROVE  /\ IsSeq(parts[i]) /\ Len(parts[i]) = (IF field[i] = Quote THEN 2 ELSE 1)
             /\ parts[i][1] = field[i]
             /\ field[i] = Quote => parts[i][2] = Quote
  <2>1. CASE field[i] = Quote
    <3>1. parts[i] = <<Quote, Quote>> BY <1>2, <2>1
    <3> QED BY <2>1, <3>1, TwoFacts
  <2>2. CASE field[i] # Quote
    <3>1. parts[i] = <<field[i]>> BY <1>2, <2>2
    <3> QED BY <2>2, <3>1, OneFacts
  <2> QED BY <2>1, <2>2
<1>6. PICK at : PartsAt(FlattenSeq(parts), parts, at)
  <2>1. \A i \in DOMAIN parts : IsSeq(parts[i]) BY <1>3, <1>5
  <2> QED BY <1>3, <2>1, FlattenParts
<1> DEFINE text == FlattenSeq(parts)
<1> HIDE DEF text
<1>7. /\ IsSeq(text) /\ at \in [0..m -> Nat] /\ at[0] = 0 /\ Len(text) = at[m]
      /\ \A i \in 1..m :
          /\ at[i] = at[i - 1] + Len(parts[i])
          /\ \A k \in 1..Len(parts[i]) : text[at[i - 1] + k] = parts[i][k]
  BY <1>3, <1>6 DEF PartsAt, text
<1>8. ASSUME NEW i \in 1..m
      PROVE  /\ at[i] = at[i - 1] + (IF field[i] = Quote THEN 2 ELSE 1)
             /\ text[at[i - 1] + 1] = field[i]
             /\ field[i] = Quote => text[at[i - 1] + 2] = Quote
  <2>1. 1 \in 1..Len(parts[i]) BY <1>5
  <2>2. field[i] = Quote => 2 \in 1..Len(parts[i]) BY <1>5
  <2> QED BY <1>5, <1>7, <2>1, <2>2
<1>9. DoubledAt(text, field, at) BY <1>7, <1>8 DEF DoubledAt, m
<1> QED BY <1>4, <1>9 DEF text

PlainLetters == {"|", Quote, "\r", "\n"}

(* Where the letters of a field are between its quotes. *)
QuotedAt(c, field, at) ==
    /\ IsSeq(c)
    /\ at \in [0..Len(field) -> Nat] /\ at[0] = 0 /\ Len(c) = at[Len(field)] + 2
    /\ c[1] = Quote /\ c[Len(c)] = Quote
    /\ \A i \in 1..Len(field) :
          /\ at[i] = at[i - 1] + (IF field[i] = Quote THEN 2 ELSE 1)
          /\ c[at[i - 1] + 2] = field[i]
          /\ field[i] = Quote => c[at[i - 1] + 3] = Quote
          /\ at[i] <= at[Len(field)]

(* A sum of steps grows. *)
LEMMA Grows ==
    ASSUME NEW m \in Nat, NEW at \in [0..m -> Nat], \A i \in 1..m : at[i - 1] <= at[i]
    PROVE  \A i \in 0..m : \A j \in 0..m : i <= j => at[i] <= at[j]
<1> TAKE i \in 0..m
<1> DEFINE S == {j \in 0..m : i <= j => at[i] <= at[j]}
<1>1. 0 \in S OBVIOUS
<1>2. ASSUME NEW j \in 1..m, j - 1 \in S PROVE j \in S
  <2>1. at[j - 1] <= at[j] /\ at[j] \in Nat /\ at[j - 1] \in Nat /\ at[i] \in Nat
        /\ j - 1 \in 0..m /\ j \in 0..m
    OBVIOUS
  <2>2. i <= j - 1 \/ i = j \/ ~(i <= j) OBVIOUS
  <2>3. i <= j - 1 => at[i] <= at[j - 1] BY <1>2
  <2> QED BY <2>1, <2>2, <2>3
<1>3. 0..m \subseteq S
  <2> HIDE DEF S
  <2> QED BY <1>1, <1>2, UptoInduction
<1> QED BY <1>3

LEMMA Quotes ==
    ASSUME NEW field, IsSeq(field), ToSet(field) \cap PlainLetters # {}
    PROVE  \E at : QuotedAt(csv_field(field), field, at)
<1> DEFINE d == Doubled(field)
           m == Len(field)
           b == <<Quote>> \o d
           c == b \o <<Quote>>
<1>1. csv_field(field) = c BY DEF csv_field, PlainLetters
<1>2. PICK at : DoubledAt(d, field, at) BY Doubles
<1>3. m \in Nat /\ DOMAIN field = 1..m BY SeqFacts
<1> HIDE DEF d, m
<1>4. /\ IsSeq(d) /\ at \in [0..m -> Nat] /\ at[0] = 0 /\ Len(d) = at[m]
      /\ \A i \in 1..m :
            /\ at[i] = at[i - 1] + (IF field[i] = Quote THEN 2 ELSE 1)
            /\ d[at[i - 1] + 1] = field[i]
            /\ field[i] = Quote => d[at[i - 1] + 2] = Quote
  BY <1>2 DEF DoubledAt, m
<1>5. IsSeq(<<Quote>>) /\ Len(<<Quote>>) = 1 /\ <<Quote>>[1] = Quote BY OneFacts
<1>6. /\ IsSeq(b) /\ Len(b) = 1 + Len(d) /\ b[1] = Quote
      /\ \A i \in 1..Len(d) : b[1 + i] = d[i]
  <2> DEFINE q == <<Quote>>
  <2> HIDE DEF q
  <2>1. IsSeq(q) /\ Len(q) = 1 /\ q[1] = Quote BY <1>5 DEF q
  <2>2. b = q \o d BY DEF q
  <2> HIDE DEF b
  <2>3. /\ IsSeq(b) /\ Len(b) = Len(q) + Len(d)
        /\ \A i \in 1..Len(q) : b[i] = q[i]
        /\ \A i \in 1..Len(d) : b[Len(q) + i] = d[i]
    <3>1. IsSeq(q) /\ IsSeq(d) BY <1>4, <2>1
    <3> QED BY <2>2, <3>1, ConcatIs
  <2> QED BY <2>1, <2>3
<1> HIDE DEF b
<1>7. /\ IsSeq(c) /\ Len(c) = Len(b) + 1 /\ c[Len(b) + 1] = Quote
      /\ \A i \in 1..Len(b) : c[i] = b[i]
  <2> DEFINE q == <<Quote>>
  <2> HIDE DEF q
  <2>1. IsSeq(q) /\ Len(q) = 1 /\ q[1] = Quote BY <1>5 DEF q
  <2>2. c = b \o q BY DEF q
  <2> HIDE DEF c
  <2>3. /\ IsSeq(c) /\ Len(c) = Len(b) + Len(q)
        /\ \A i \in 1..Len(b) : c[i] = b[i]
        /\ \A i \in 1..Len(q) : c[Len(b) + i] = q[i]
    <3>1. IsSeq(b) BY <1>6
    <3>2. /\ IsSeq(b \o q) /\ Len(b \o q) = Len(b) + Len(q)
          /\ \A i \in 1..Len(b) : (b \o q)[i] = b[i]
          /\ \A i \in 1..Len(q) : (b \o q)[Len(b) + i] = q[i]
      <4>1. \A s, t : IsSeq(s) /\ IsSeq(t) => 
           /\ IsSeq(s \o t) /\ Len(s \o t) = Len(s) + Len(t)
           /\ \A i \in 1..Len(s) : (s \o t)[i] = s[i]
           /\ \A i \in 1..Len(t) : (s \o t)[Len(s) + i] = t[i]
        BY ConcatFacts
      <4>2. IsSeq(q) BY <2>1
      <4>3. IsSeq(b) BY <3>1
      <4>4. IsSeq(b) /\ IsSeq(q) BY <4>2, <4>3
      <4>5. IsSeq(b \o q) BY <4>1, <4>4
      <4> QED BY <4>4, <4>1
    <3> QED BY <2>2, <3>2
  <2> QED BY <2>1, <2>3
<1> HIDE DEF c
<1>8. /\ Len(c) = at[m] + 2 /\ c[1] = Quote /\ c[Len(c)] = Quote
      /\ \A j \in 1..at[m] : c[j + 1] = d[j]
  <2> DEFINE l == at[m]
  <2>1. l \in Nat BY <1>3, <1>4
  <2> HIDE DEF l
  <2>2. Len(d) = l /\ Len(b) = 1 + l /\ Len(c) = l + 2 BY <1>4, <1>6, <1>7, <2>1 DEF l
  <2>3. c[1] = Quote /\ c[Len(c)] = Quote
    <3>1. 1 \in 1..Len(b) /\ Len(b) + 1 = Len(c) BY <2>1, <2>2
    <3> QED BY <1>6, <1>7, <3>1
  <2>4. ASSUME NEW j \in 1..l PROVE c[j + 1] = d[j]
    <3>1. j + 1 \in 1..Len(b) /\ 1 + j = j + 1 BY <2>1, <2>2
    <3>2. c[j + 1] = b[j + 1] /\ b[1 + j] = d[j] BY <1>6, <1>7, <2>2, <3>1
    <3> QED BY <3>1, <3>2
  <2> QED BY <2>2, <2>3, <2>4 DEF l
<1>9. \A i \in 0..m : at[i] <= at[m]
  <2>1. \A i \in 1..m : at[i - 1] <= at[i]
    <3> TAKE i \in 1..m
    <3> DEFINE x == at[i - 1]
               y == at[i]
    <3>1. i - 1 \in 0..m BY <1>3
    <3>2. x \in Nat BY <1>4, <3>1
    <3>3. y = x + 2 \/ y = x + 1 BY <1>4
    <3> HIDE DEF x, y
    <3>4. x <= y BY <3>2, <3>3
    <3> QED BY <3>4 DEF x, y
  <2>2. \A i, j \in 0..m : i <= j => at[i] <= at[j] BY <1>3, <1>4, <2>1, Grows
  <2> QED BY <1>3, <2>2
<1>10. ASSUME NEW i \in 1..m
       PROVE  /\ at[i] = at[i - 1] + (IF field[i] = Quote THEN 2 ELSE 1)
              /\ c[at[i - 1] + 2] = field[i]
              /\ field[i] = Quote => c[at[i - 1] + 3] = Quote
              /\ at[i] <= at[m]
  <2> DEFINE x == at[i - 1]
             y == at[i]
             l == at[m]
  <2>1. x \in Nat /\ y \in Nat /\ l \in Nat /\ y <= l /\ y = x + (IF field[i] = Quote THEN 2 ELSE 1)
        /\ d[x + 1] = field[i] /\ (field[i] = Quote => d[x + 2] = Quote)
    BY <1>3, <1>4, <1>9
  <2>2. \A j \in 1..l : c[j + 1] = d[j] BY <1>8
  <2> HIDE DEF x, y, l
  <2>3. x + 1 \in 1..l /\ (field[i] = Quote => x + 2 \in 1..l) /\ (x + 1) + 1 = x + 2 /\ (x + 2) + 1 = x + 3
    BY <2>1
  <2>4. c[x + 2] = field[i] /\ (field[i] = Quote => c[x + 3] = Quote) BY <2>1, <2>2, <2>3
  <2> QED BY <2>1, <2>4 DEF x, y, l
<1>11. QuotedAt(c, field, at) BY <1>4, <1>7, <1>8, <1>10 DEF QuotedAt, m
<1> QED BY <1>1, <1>11

(* A field comes out as it is, or between quotes. *)
LEMMA CsvField ==
    ASSUME NEW field, IsSeq(field)
    PROVE  \/ /\ csv_field(field) = field
              /\ \A i \in 1..Len(field) : field[i] \notin PlainLetters
           \/ \E at : QuotedAt(csv_field(field), field, at)
<1>1. CASE ToSet(field) \cap PlainLetters = {}
  <2>1. csv_field(field) = field BY <1>1 DEF csv_field, PlainLetters
  <2>2. \A i \in 1..Len(field) : field[i] \in ToSet(field) BY SeqFacts DEF ToSet
  <2> QED BY <1>1, <2>1, <2>2
<1>2. CASE ToSet(field) \cap PlainLetters # {} BY <1>2, Quotes
<1> QED BY <1>1, <1>2

-----------------------------------------------------------------------------
(* The states of validate_report_quoting. *)

After(state, l) ==
    CASE state = "malformed" \/ l = "NUL" -> "malformed"
      [] state = "quoted" /\ l # "NUL" -> IF l = Quote THEN "closed" ELSE "quoted"
      [] state \in {"start", "closed"} /\ l = Quote -> "quoted"
      [] state \in {"start", "unquoted", "closed"} /\ l = "|" -> "start"
      [] state \in {"start", "unquoted"} /\ l \notin {"|", Quote, "\r", "\n", "NUL"}
            -> "unquoted"
      [] OTHER -> "malformed"

LEMMA Letters ==
    /\ Quote # "|" /\ Quote # "\n" /\ Quote # "\r" /\ Quote # "NUL"
    /\ "|" # "\n" /\ "|" # "\r" /\ "|" # "NUL"
BY Zenon DEF Quote

LEMMA AfterIs ==
    ASSUME NEW l, l # "NUL"
    PROVE  /\ After("quoted", l) = IF l = Quote THEN "closed" ELSE "quoted"
           /\ l = Quote => After("start", l) = "quoted" /\ After("closed", l) = "quoted"
           /\ l = "|" => After("unquoted", l) = "start" /\ After("closed", l) = "start"
           /\ l \notin PlainLetters => After("start", l) = "unquoted" /\ After("unquoted", l) = "unquoted"
<1>1. After("quoted", l) = IF l = Quote THEN "closed" ELSE "quoted" BY Zenon DEF After
<1>2. l = Quote => After("start", l) = "quoted" /\ After("closed", l) = "quoted" BY Letters, Zenon DEF After
<1>3. l = "|" => After("unquoted", l) = "start" /\ After("closed", l) = "start" BY Letters, Zenon DEF After
<1>4. l \notin PlainLetters => After("start", l) = "unquoted" /\ After("unquoted", l) = "unquoted"
  BY Letters, Zenon DEF After, PlainLetters
<1> QED BY <1>1, <1>2, <1>3, <1>4

(* A line end is good between quotes only. *)
LEMMA LineEnds ==
    ASSUME NEW state, NEW l, l = "\n" \/ l = "\r", After(state, l) # "malformed"
    PROVE  state = "quoted" /\ After(state, l) = "quoted"
BY Letters, Zenon DEF After

Runs(q, text, n) == q = [i \in 0..n |-> IF i = 0 THEN "start" ELSE After(q[i - 1], text[i])]

LEMMA RunsExist ==
    ASSUME NEW text, NEW m \in Nat
    PROVE  \E q : Runs(q, text, m)
<1> DEFINE Good(n) == \E q : Runs(q, text, n)
<1>1. Good(0)
  <2> DEFINE f == [i \in 0..0 |-> "start"]
             g == [i \in 0..0 |-> IF i = 0 THEN "start" ELSE After(f[i - 1], text[i])]
  <2>1. \A i \in 0..0 : i = 0 OBVIOUS
  <2>2. \A i \in 0..0 : f[i] = g[i] BY <2>1
  <2>3. f = g BY <2>2
  <2> QED BY <2>3 DEF Runs
<1>2. ASSUME NEW n \in 1..m, Good(n - 1) PROVE Good(n)
  <2>1. n \in Nat /\ n - 1 \in Nat OBVIOUS
  <2>2. PICK f : Runs(f, text, n - 1) BY <1>2
  <2> DEFINE g == [i \in 0..n |-> IF i = n THEN After(f[n - 1], text[n]) ELSE f[i]]
  <2>3. ASSUME NEW i \in 0..n
        PROVE  g[i] = IF i = 0 THEN "start" ELSE After(g[i - 1], text[i])
    <3>1. CASE i = n
      <4>1. g[i] = After(f[n - 1], text[n]) BY <3>1
      <4>2. g[n - 1] = f[n - 1] /\ i # 0 BY <2>1, <3>1
      <4> HIDE DEF g
      <4> QED BY <3>1, <4>1, <4>2
    <3>2. CASE i # n
      <4>1. i \in 0..(n - 1) BY <2>1, <3>2
      <4>2. g[i] = f[i] BY <3>2
      <4>3. i # 0 => g[i - 1] = f[i - 1] BY <2>1, <4>1
      <4>4. f[i] = IF i = 0 THEN "start" ELSE After(f[i - 1], text[i])
        BY <2>2, <4>1 DEF Runs
      <4> HIDE DEF g
      <4> QED BY <4>2, <4>3, <4>4
    <3> QED BY <3>1, <3>2
  <2>4. Runs(g, text, n)
    <3> DEFINE h == [i \in 0..n |-> IF i = 0 THEN "start" ELSE After(g[i - 1], text[i])]
    <3>1. \A i \in 0..n : g[i] = h[i] BY <2>3
    <3>2. g = h BY <3>1
    <3> QED BY <3>2 DEF Runs
  <2> QED BY <2>4
<1>3. 0..m \subseteq {n \in Nat : Good(n)}
  <2> DEFINE S == {n \in Nat : Good(n)}
  <2> HIDE DEF Good
  <2>1. 0 \in S /\ \A n \in 1..m : n - 1 \in S => n \in S BY <1>1, <1>2
  <2> HIDE DEF S
  <2> QED BY <2>1, UptoInduction DEF S
<1> QED BY <1>3

LEMMA QuotingRuns ==
    ASSUME NEW text, IsSeq(text)
    PROVE  LET q == Quoting(text) IN
           /\ q[0] = "start"
           /\ \A i \in 1..Len(text) : q[i] = After(q[i - 1], text[i])
<1> DEFINE m == Len(text)
           q == CHOOSE f : Runs(f, text, m)
<1>1. m \in Nat BY SeqFacts
<1>2. Runs(q, text, m) BY <1>1, RunsExist
<1>3. Quoting(text) = q BY Zenon DEF Quoting, Runs, After
<1> HIDE DEF q, m
<1>4. q[0] = "start" /\ \A i \in 1..m : q[i] = After(q[i - 1], text[i])
  BY <1>1, <1>2 DEF Runs
<1> QED BY <1>3, <1>4 DEF m

(* The states of a beginning of a text are those of the text. *)
LEMMA QuotingBegins ==
    ASSUME NEW text, IsSeq(text), NEW n \in 0..Len(text)
    PROVE  \A i \in 0..n : Quoting(SubSeq(text, 1, n))[i] = Quoting(text)[i]
<1> DEFINE t == SubSeq(text, 0 + 1, n)
           q == Quoting(text)
           r == Quoting(t)
           S == {i \in 0..n : r[i] = q[i]}
<1>1. Len(text) \in Nat /\ n \in Nat /\ n <= Len(text) BY SeqFacts
<1>2. IsSeq(t) /\ Len(t) = n - 0 /\ \A i \in 1..(n - 0) : t[i] = text[0 + i] BY <1>1, SubFacts
<1>3. IsSeq(t) /\ Len(t) = n /\ \A i \in 1..n : t[i] = text[i] BY <1>1, <1>2
<1> HIDE DEF t
<1>4. q[0] = "start" /\ \A i \in 1..Len(text) : q[i] = After(q[i - 1], text[i]) BY QuotingRuns
<1>5. r[0] = "start" /\ \A i \in 1..n : r[i] = After(r[i - 1], t[i]) BY <1>3, QuotingRuns
<1> HIDE DEF q, r
<1>6. 0 \in S /\ \A i \in 1..n : i - 1 \in S => i \in S
  <2>1. 0 \in S BY <1>1, <1>4, <1>5
  <2>2. ASSUME NEW i \in 1..n, i - 1 \in S PROVE i \in S
    <3>1. i \in 1..Len(text) /\ i \in 0..n BY <1>1
    <3>2. r[i - 1] = q[i - 1] /\ t[i] = text[i] BY <1>3, <2>2
    <3>3. r[i] = q[i] BY <1>4, <1>5, <3>1, <3>2
    <3> QED BY <3>1, <3>3
  <2> QED BY <2>1, <2>2
<1>7. 0..n \subseteq S
  <2> HIDE DEF S
  <2> QED BY <1>1, <1>6, UptoInduction
<1>8. SubSeq(text, 1, n) = t BY DEF t
<1> QED BY <1>7, <1>8 DEF q, r

-----------------------------------------------------------------------------
(* The letters of a record between its separators. *)

(* bar[n] is behind field n, where a separator is unless it is the last. *)
TextAt(text, data, bar) ==
    /\ IsSeq(text)
    /\ bar \in [0..Len(data) -> Nat] /\ bar[0] = 0 /\ Len(text) + 1 = bar[Len(data)]
    /\ \A n \in 1..Len(data) :
          /\ bar[n] = bar[n - 1] + Len(csv_field(data[n])) + 1
          /\ \A k \in 1..Len(csv_field(data[n])) : text[bar[n - 1] + k] = csv_field(data[n])[k]
          /\ n < Len(data) => text[bar[n]] = "|"

(* What csv makes of a field is a sequence. *)
LEMMA CsvIsSeq ==
    ASSUME NEW field, IsSeq(field)
    PROVE  IsSeq(csv_field(field)) /\ Len(csv_field(field)) \in Nat
<1>1. IsSeq(csv_field(field)) BY CsvField DEF QuotedAt
<1> QED BY <1>1, SeqFacts

LEMMA TailFacts ==
    ASSUME NEW s, IsSeq(s), Len(s) # 0
    PROVE  /\ IsSeq(Tail(s)) /\ Len(Tail(s)) + 1 = Len(s)
           /\ \A i \in 1..(Len(s) - 1) : Tail(s)[i] = s[i + 1]
<1>1. PICK S : s \in Seq(S) BY DEF IsSeq
<1>2. Tail(s) \in Seq(S) BY <1>1
<1>3. Len(Tail(s)) + 1 = Len(s) BY <1>1
<1>4. \A i \in 1..(Len(s) - 1) : Tail(s)[i] = s[i + 1] BY <1>1
<1> QED BY <1>2, <1>3, <1>4 DEF IsSeq

LEMMA TextParts ==
    ASSUME NEW data, IsSeq(data), Len(data) # 0, \A n \in 1..Len(data) : IsSeq(data[n])
    PROVE  \E bar : TextAt(encode_report(data), data, bar)
<1> DEFINE m == Len(data)
           parts == [i \in DOMAIN data |-> <<"|">> \o csv_field(data[i])]
           whole == FlattenSeq(parts)
           text == Tail(whole)
           c(n) == csv_field(data[n])
<1>1. m \in Nat /\ m # 0 /\ DOMAIN data = 1..m BY SeqFacts
<1>2. \A n \in 1..m : IsSeq(c(n)) /\ Len(c(n)) \in Nat BY CsvIsSeq
<1>3. \A n \in 1..m : parts[n] = <<"|">> \o c(n) BY <1>1
<1>4. IsSeq(parts) /\ Len(parts) = m /\ DOMAIN parts = 1..m
  <2>1. DOMAIN parts = 1..m /\ parts = [i \in 1..m |-> parts[i]] BY <1>1
  <2> HIDE DEF parts, m
  <2> QED BY <1>1, <2>1, SeqByDomain
<1>5. encode_report(data) = text BY DEF encode_report
<1> HIDE DEF parts, m, whole, c
<1>6. ASSUME NEW n \in 1..m
      PROVE  /\ IsSeq(parts[n]) /\ Len(parts[n]) = 1 + Len(c(n)) /\ parts[n][1] = "|"
             /\ \A k \in 1..Len(c(n)) : parts[n][k + 1] = c(n)[k]
  <2> DEFINE p == parts[n]
             b == <<"|">>
             d == c(n)
  <2>1. IsSeq(b) /\ Len(b) = 1 /\ b[1] = "|" BY OneFacts
  <2>2. p = b \o d /\ IsSeq(d) /\ Len(d) \in Nat BY <1>2, <1>3
  <2> HIDE DEF p, b, d
  <2>3. /\ IsSeq(p) /\ Len(p) = Len(b) + Len(d)
        /\ \A i \in 1..Len(b) : p[i] = b[i]
        /\ \A i \in 1..Len(d) : p[Len(b) + i] = d[i]
    <3>1. \A s, t : IsSeq(s) /\ IsSeq(t) =>
             /\ IsSeq(s \o t) /\ Len(s \o t) = Len(s) + Len(t)
             /\ \A i \in 1..Len(s) : (s \o t)[i] = s[i]
             /\ \A i \in 1..Len(t) : (s \o t)[Len(s) + i] = t[i]
      BY ConcatFacts
    <3>2. IsSeq(b) /\ IsSeq(d) BY <2>1, <2>2
    <3>3. p = b \o d BY <2>2
    <3>4. /\ IsSeq(b \o d) /\ Len(b \o d) = Len(b) + Len(d)
          /\ \A i \in 1..Len(b) : (b \o d)[i] = b[i]
          /\ \A i \in 1..Len(d) : (b \o d)[Len(b) + i] = d[i]
      <4>1. IsSeq(b \o d) BY <3>1, <3>2
      <4> QED BY <3>1, <3>2, <4>1
    <3> QED BY <3>3, <3>4
  <2>4. /\ IsSeq(p) /\ Len(p) = 1 + Len(d) /\ p[1] = "|"
        /\ \A k \in 1..Len(d) : p[k + 1] = d[k]
    <3>1. 1 \in 1..Len(b) /\ \A k \in 1..Len(d) : Len(b) + k = k + 1 BY <2>1, <2>2
    <3> QED BY <2>1, <2>2, <2>3, <3>1
  <2> QED BY <2>4 DEF p, d
<1>7. PICK end : PartsAt(whole, parts, end)
  <2>1. \A n \in DOMAIN parts : IsSeq(parts[n]) BY <1>4, <1>6
  <2> QED BY <1>4, <2>1, FlattenParts DEF whole
<1>8. /\ IsSeq(whole) /\ end \in [0..m -> Nat] /\ end[0] = 0 /\ Len(whole) = end[m]
      /\ \A n \in 1..m :
            /\ end[n] = end[n - 1] + 1 + Len(c(n))
            /\ whole[end[n - 1] + 1] = "|"
            /\ \A k \in 1..Len(c(n)) : whole[end[n - 1] + k + 1] = c(n)[k]
            /\ end[n - 1] + Len(c(n)) < end[m] /\ end[n] <= end[m]
  <2>1. /\ IsSeq(whole) /\ end \in [0..m -> Nat] /\ end[0] = 0 /\ Len(whole) = end[m]
        /\ \A n \in 1..m :
              /\ end[n] = end[n - 1] + Len(parts[n])
              /\ \A k \in 1..Len(parts[n]) : whole[end[n - 1] + k] = parts[n][k]
    BY <1>4, <1>7 DEF PartsAt
  <2>2. ASSUME NEW n \in 1..m
        PROVE  /\ end[n] = end[n - 1] + 1 + Len(c(n)) /\ end[n - 1] \in Nat /\ end[n - 1] <= end[n]
               /\ whole[end[n - 1] + 1] = "|"
               /\ \A k \in 1..Len(c(n)) : whole[end[n - 1] + k + 1] = c(n)[k]
    <3> DEFINE l == Len(c(n))
               p == parts[n]
               e == end[n - 1]
               d == c(n)
    <3>1. /\ end[n] = e + Len(p) /\ \A k \in 1..Len(p) : whole[e + k] = p[k]
          /\ l \in Nat /\ e \in Nat /\ Len(p) = 1 + l /\ p[1] = "|"
          /\ \A k \in 1..l : p[k + 1] = d[k]
      BY <1>1, <1>2, <1>6, <2>1, SMTT(30)
    <3> HIDE DEF l, p, e, d
    <3>2. end[n] = e + 1 + l /\ e <= end[n] /\ whole[e + 1] = "|" BY <3>1
    <3>3. \A k \in 1..l : whole[e + k + 1] = d[k]
      <4>1. \A k \in 1..l : k + 1 \in 1..Len(p) /\ e + (k + 1) = e + k + 1 BY <3>1
      <4> QED BY <3>1, <4>1
    <3> QED BY <3>1, <3>2, <3>3 DEF l, p, e, d
  <2>3. \A i \in 0..m : end[i] <= end[m]
    <3>1. \A i, j \in 0..m : i <= j => end[i] <= end[j] BY <1>1, <2>1, <2>2, Grows
    <3> QED BY <1>1, <3>1
  <2>4. ASSUME NEW n \in 1..m PROVE end[n - 1] + Len(c(n)) < end[m] /\ end[n] <= end[m]
    <3> DEFINE l == Len(c(n))
               e == end[n - 1]
               f == end[n]
               g == end[m]
    <3>1. l \in Nat /\ e \in Nat /\ f = e + 1 + l /\ f <= g /\ g \in Nat
      BY <1>1, <1>2, <2>1, <2>2, <2>3
    <3> HIDE DEF l, e, f, g
    <3>2. e + l < g BY <3>1
    <3> QED BY <3>1, <3>2 DEF l, e, f, g
  <2> QED BY <2>1, <2>2, <2>4
<1>9. Len(whole) \in Nat /\ Len(whole) # 0
  <2> DEFINE g == end[m]
             e == end[m - 1]
             l == Len(c(m))
  <2>1. m \in 1..m /\ m - 1 \in 0..m BY <1>1
  <2>2. g = e + 1 + l /\ e \in Nat /\ l \in Nat BY <1>2, <1>8, <2>1
  <2> HIDE DEF g, e, l
  <2>3. g \in Nat /\ g # 0 BY <2>2
  <2> QED BY <1>8, <2>3 DEF g
<1>10. /\ IsSeq(text) /\ Len(text) + 1 = Len(whole)
       /\ \A i \in 1..(Len(whole) - 1) : text[i] = whole[i + 1]
  BY <1>8, <1>9, TailFacts
<1> HIDE DEF text
<1>11. ASSUME NEW n \in 1..m
       PROVE  /\ end[n] = end[n - 1] + Len(c(n)) + 1
              /\ \A k \in 1..Len(c(n)) : text[end[n - 1] + k] = c(n)[k]
              /\ n < m => text[end[n]] = "|"
  <2> DEFINE l == Len(c(n))
             e == end[n - 1]
             w == Len(whole)
             d == c(n)
  <2>1. /\ l \in Nat /\ e \in Nat /\ w \in Nat /\ end[n] = e + 1 + l /\ e + l < w
        /\ \A k \in 1..l : whole[e + k + 1] = d[k]
    <3>1. l \in Nat /\ w \in Nat BY <1>2, <1>9
    <3>2. /\ end[n - 1] \in Nat /\ end[n] = end[n - 1] + 1 + Len(c(n))
          /\ end[n - 1] + Len(c(n)) < Len(whole)
      <4>1. end[n - 1] \in Nat
        <5>1. n - 1 \in 0..m BY <1>1
        <5> QED BY <1>8, <5>1
      <4>2. end[n] = end[n - 1] + 1 + Len(c(n)) BY <1>8
      <4>3. end[n - 1] + Len(c(n)) < end[m] /\ Len(whole) = end[m] BY <1>8
      <4> QED BY <4>1, <4>2, <4>3
    <3>3. e \in Nat /\ end[n] = e + 1 + l /\ e + l < w BY <3>2
    <3>4. \A k \in 1..l : whole[e + k + 1] = d[k] BY <1>8
    <3> QED BY <3>1, <3>3, <3>4
  <2>2. \A i \in 1..(w - 1) : text[i] = whole[i + 1] BY <1>10
  <2> HIDE DEF l, e, w, d
  <2>3. end[n] = e + l + 1 BY <2>1
  <2>4. \A k \in 1..l : text[e + k] = d[k]
    <3>1. \A k \in 1..l : e + k \in 1..(w - 1) /\ (e + k) + 1 = e + k + 1 BY <2>1
    <3> QED BY <2>1, <2>2, <3>1
  <2>5. n < m => text[end[n]] = "|"
    <3> SUFFICES ASSUME n < m PROVE text[end[n]] = "|" OBVIOUS
    <3>1. n + 1 \in 1..m /\ (n + 1) - 1 = n BY <1>1
    <3>2. whole[end[n] + 1] = "|" /\ end[n] + Len(c(n + 1)) < end[m] /\ Len(c(n + 1)) \in Nat
      BY <1>2, <1>8, <3>1
    <3> DEFINE f == end[n]
               h == Len(c(n + 1))
    <3>3. whole[f + 1] = "|" /\ f + h < w /\ h \in Nat BY <1>8, <3>2 DEF w
    <3>4. f \in Nat /\ f # 0 BY <2>1
    <3> HIDE DEF f, h
    <3>5. f \in 1..(w - 1) BY <2>1, <3>3, <3>4
    <3> QED BY <2>2, <3>3, <3>5 DEF f
  <2> QED BY <2>3, <2>4, <2>5 DEF l, e, d
<1>12. TextAt(text, data, end) BY <1>8, <1>10, <1>11 DEF TextAt, m, c
<1> QED BY <1>5, <1>12

(* The places of a growing list, counted. *)
LEMMA GrowingCounted ==
    ASSUME NEW m \in Nat, NEW e \in [0..m -> Nat], \A i \in 1..m : e[i - 1] < e[i]
    PROVE  \A j \in 0..m : /\ IsFiniteSet({e[i] : i \in 0..j})
                           /\ Cardinality({e[i] : i \in 0..j}) = j + 1
<1> DEFINE P(j) == {e[i] : i \in 0..j}
           T == {j \in 0..m : IsFiniteSet(P(j)) /\ Cardinality(P(j)) = j + 1}
<1>1. \A i \in 0..m : \A j \in 0..m : i <= j => e[i] <= e[j]
  <2>1. \A i \in 1..m : e[i - 1] <= e[i]
    <3> TAKE i \in 1..m
    <3>1. e[i - 1] \in Nat /\ e[i] \in Nat /\ e[i - 1] < e[i] OBVIOUS
    <3> QED BY <3>1
  <2> QED BY <2>1, Grows
<1>2. 0 \in T
  <2>1. P(0) = {e[0]} OBVIOUS
  <2>2. IsFiniteSet({e[0]}) /\ Cardinality({e[0]}) = 1 BY FS_Singleton
  <2>3. IsFiniteSet(P(0)) /\ Cardinality(P(0)) = 1 BY <2>1, <2>2, Zenon
  <2>4. 0 \in 0..m /\ 1 = 0 + 1 OBVIOUS
  <2> HIDE DEF P
  <2>5. IsFiniteSet(P(0)) /\ Cardinality(P(0)) = 0 + 1 BY <2>3, <2>4
  <2> QED BY <2>4, <2>5, Zenon
<1>3. ASSUME NEW j \in 1..m, j - 1 \in T PROVE j \in T
  <2>1. P(j) = P(j - 1) \cup {e[j]}
    <3>1. 0..j = (0..(j - 1)) \cup {j} OBVIOUS
    <3> QED BY <3>1
  <2>2. e[j] \notin P(j - 1)
    <3> SUFFICES ASSUME NEW i \in 0..(j - 1), e[j] = e[i] PROVE FALSE OBVIOUS
    <3>1. i \in 0..m /\ j - 1 \in 0..m /\ i <= j - 1 OBVIOUS
    <3>2. e[i] <= e[j - 1] /\ e[j - 1] < e[j] /\ e[i] \in Nat /\ e[j - 1] \in Nat
      BY <1>1, <3>1
    <3> QED BY <3>2
  <2>3. IsFiniteSet(P(j - 1)) /\ Cardinality(P(j - 1)) = (j - 1) + 1 BY <1>3
  <2> HIDE DEF P
  <2>4. IsFiniteSet(P(j)) /\ Cardinality(P(j)) = ((j - 1) + 1) + 1
    <3> DEFINE a == P(j - 1)
               x == e[j]
    <3>1. x \notin a /\ IsFiniteSet(a) /\ Cardinality(a) = (j - 1) + 1 /\ P(j) = a \cup {x}
      BY <2>1, <2>2, <2>3
    <3> HIDE DEF a, x
    <3>2. IsFiniteSet(a \cup {x}) /\ Cardinality(a \cup {x}) = Cardinality(a) + 1
      BY <3>1, FS_AddElement
    <3> QED BY <3>1, <3>2
  <2> QED BY <2>4
<1> HIDE DEF P
<1>4. 0..m \subseteq T
  <2> HIDE DEF T
  <2> QED BY <1>2, <1>3, UptoInduction
<1> QED BY <1>4 DEF P

(* e lists S in ascending order, from place 0 to place m. *)
Ascends(e, m, S) ==
    e \in [0..m -> Nat] /\ (\A i \in 1..m : e[i - 1] < e[i]) /\ S = {e[i] : i \in 0..m}

LEMMA NthIs ==
    ASSUME NEW m \in Nat, NEW e, NEW S, Ascends(e, m, S)
    PROVE  Cardinality(S) = m + 1 /\ \A j \in 0..m : Nth(S, j + 1) = e[j]
<1> USE DEF Ascends
<1>0. \A j \in 0..m : Cardinality({e[i] : i \in 0..j}) = j + 1 BY GrowingCounted
<1>1. Cardinality(S) = m + 1
  <2>1. m \in 0..m OBVIOUS
  <2> QED BY <1>0, <2>1
<1>2. \A i \in 0..m : \A j \in 0..m : (i <= j => e[i] <= e[j]) /\ (i < j => e[i] < e[j])
  <2>1. \A i \in 1..m : e[i - 1] <= e[i]
    <3> TAKE i \in 1..m
    <3>1. e[i - 1] \in Nat /\ e[i] \in Nat /\ e[i - 1] < e[i] OBVIOUS
    <3> QED BY <3>1
  <2>2. \A i \in 0..m : \A j \in 0..m : i <= j => e[i] <= e[j] BY <2>1, Grows
  <2>3. ASSUME NEW i \in 0..m, NEW j \in 0..m, i < j PROVE e[i] < e[j]
    <3>1. j \in 1..m /\ j - 1 \in 0..m /\ i <= j - 1 BY <2>3
    <3>2. e[i] <= e[j - 1] /\ e[j - 1] < e[j] /\ e[i] \in Nat /\ e[j - 1] \in Nat /\ e[j] \in Nat
      BY <2>2, <3>1
    <3> QED BY <3>2, SMTT(30)
  <2> QED BY <2>2, <2>3
<1>3. ASSUME NEW j \in 0..m PROVE Cardinality({y \in S : y <= e[j]}) = j + 1
  <2>1. \A z : z \in {y \in S : y <= e[j]} <=> z \in {e[i] : i \in 0..j}
    <3>1. ASSUME NEW i \in 0..m, e[i] <= e[j] PROVE i \in 0..j
      <4>1. e[i] \in Nat /\ e[j] \in Nat OBVIOUS
      <4>2. ~(j < i) BY <1>2, <3>1, <4>1
      <4> QED BY <4>2
    <3>2. ASSUME NEW i \in 0..j PROVE i \in 0..m /\ e[i] <= e[j] BY <1>2
    <3> QED BY <3>1, <3>2
  <2>2. {y \in S : y <= e[j]} = {e[i] : i \in 0..j} BY <2>1
  <2> QED BY <1>0, <2>2
<1>4. ASSUME NEW j \in 0..m PROVE Nth(S, j + 1) = e[j]
  <2> DEFINE C(x) == Cardinality({y \in S : y <= x})
  <2>1. \A i \in 0..m : C(e[i]) = i + 1 BY <1>3
  <2>2. Nth(S, j + 1) = CHOOSE x \in S : C(x) = j + 1 BY DEF Nth
  <2> HIDE DEF C
  <2>3. e[j] \in S /\ C(e[j]) = j + 1 BY <2>1
  <2>4. ASSUME NEW x \in S, C(x) = j + 1 PROVE x = e[j]
    <3>1. PICK i \in 0..m : x = e[i] OBVIOUS
    <3>2. i + 1 = j + 1 BY <2>1, <2>4, <3>1
    <3>3. i = j BY <3>2
    <3> QED BY <3>1, <3>3
  <2> QED BY <2>2, <2>3, <2>4
<1> QED BY <1>1, <1>4

-----------------------------------------------------------------------------
(* What Slice keeps: end[x] letters are kept of the first x. *)

SlicedAt(whole, s, K, end) ==
    /\ IsSeq(whole)
    /\ end \in [0..Len(s) -> Nat] /\ end[0] = 0 /\ Len(whole) = end[Len(s)]
    /\ \A x \in 1..Len(s) :
          IF x \in K THEN end[x] = end[x - 1] + 1 /\ whole[end[x]] = s[x]
          ELSE end[x] = end[x - 1]

LEMMA Slices ==
    ASSUME NEW s, IsSeq(s), NEW K
    PROVE  \E end : SlicedAt(Slice(s, K), s, K, end)
<1> DEFINE m == Len(s)
           parts == [i \in DOMAIN s |-> IF i \in K THEN <<s[i]>> ELSE <<>>]
           whole == FlattenSeq(parts)
<1>1. m \in Nat /\ DOMAIN s = 1..m BY SeqFacts
<1>2. \A i \in 1..m : parts[i] = IF i \in K THEN <<s[i]>> ELSE <<>> BY <1>1
<1>3. IsSeq(parts) /\ Len(parts) = m /\ DOMAIN parts = 1..m
  <2>1. DOMAIN parts = 1..m /\ parts = [i \in 1..m |-> parts[i]] BY <1>1
  <2> HIDE DEF parts, m
  <2> QED BY <1>1, <2>1, SeqByDomain
<1>4. Slice(s, K) = whole BY DEF Slice
<1> HIDE DEF parts, m, whole
<1>5. ASSUME NEW i \in 1..m
      PROVE  /\ IsSeq(parts[i])
             /\ i \in K => Len(parts[i]) = 1 /\ parts[i][1] = s[i]
             /\ i \notin K => Len(parts[i]) = 0
  <2>1. CASE i \in K
    <3>1. parts[i] = <<s[i]>> BY <1>2, <2>1
    <3> QED BY <2>1, <3>1, OneFacts
  <2>2. CASE i \notin K
    <3>1. parts[i] = <<>> BY <1>2, <2>2
    <3>2. IsSeq(<<>>) /\ Len(<<>>) = 0 BY EmptyIsSeq
    <3> QED BY <2>2, <3>1, <3>2
  <2> QED BY <2>1, <2>2
<1>6. PICK end : PartsAt(whole, parts, end)
  <2>1. \A i \in DOMAIN parts : IsSeq(parts[i]) BY <1>3, <1>5
  <2> QED BY <1>3, <2>1, FlattenParts DEF whole
<1>7. /\ IsSeq(whole) /\ end \in [0..m -> Nat] /\ end[0] = 0 /\ Len(whole) = end[m]
      /\ \A i \in 1..m :
          /\ end[i] = end[i - 1] + Len(parts[i])
          /\ \A k \in 1..Len(parts[i]) : whole[end[i - 1] + k] = parts[i][k]
  BY <1>3, <1>6 DEF PartsAt
<1>8. ASSUME NEW x \in 1..m
      PROVE  IF x \in K THEN end[x] = end[x - 1] + 1 /\ whole[end[x]] = s[x]
             ELSE end[x] = end[x - 1]
  <2>1. CASE x \in K
    <3>1. Len(parts[x]) = 1 /\ parts[x][1] = s[x] BY <1>5, <2>1
    <3>2. 1 \in 1..Len(parts[x]) BY <3>1
    <3>3. end[x] = end[x - 1] + Len(parts[x]) BY <1>7
    <3>4. whole[end[x - 1] + 1] = parts[x][1] BY <1>7, <3>2
    <3>5. end[x] = end[x - 1] + 1 /\ whole[end[x - 1] + 1] = s[x] BY <3>1, <3>3, <3>4
    <3>6. whole[end[x]] = s[x] BY <3>5
    <3> QED BY <2>1, <3>5, <3>6
  <2>2. CASE x \notin K
    <3>1. Len(parts[x]) = 0 /\ end[x - 1] \in Nat BY <1>1, <1>5, <1>7, <2>2
    <3>2. end[x] = end[x - 1] + Len(parts[x]) BY <1>7
    <3> QED BY <2>2, <3>1, <3>2
  <2> QED BY <2>1, <2>2
<1>9. SlicedAt(whole, s, K, end) BY <1>7, <1>8 DEF SlicedAt, m
<1> QED BY <1>4, <1>9

(* How many letters of a kind there are up to a place. *)
UpTo(text, l, n) == {j \in Places(text, l) : j <= n}
LEMMA OneMore ==
    ASSUME NEW text, IsSeq(text), NEW l, NEW x \in 1..Len(text)
    PROVE  /\ Cardinality(UpTo(text, l, x)) =
                Cardinality(UpTo(text, l, x - 1)) + (IF text[x] = l THEN 1 ELSE 0)
           /\ Cardinality(UpTo(text, l, x - 1)) \in Nat
           /\ Cardinality(UpTo(text, l, 0)) = 0
<1> DEFINE P(n) == {j \in Places(text, l) : j <= n}
<1>1. Len(text) \in Nat /\ DOMAIN text = 1..Len(text) BY SeqFacts
<1>2. \A n : n \in Nat => IsFiniteSet(P(n))
  <2> TAKE n
  <2>1. P(n) \subseteq 1..Len(text) BY <1>1 DEF Places
  <2>2. IsFiniteSet(1..Len(text)) BY <1>1, FS_Interval
  <2> HIDE DEF P
  <2> QED BY <2>1, <2>2, FS_Subset
<1>3. x - 1 \in Nat BY <1>1
<1>4. P(0) = {} BY <1>1 DEF Places
<1>5. P(x) = IF text[x] = l THEN P(x - 1) \cup {x} ELSE P(x - 1) BY <1>1 DEF Places
<1>6. x \notin P(x - 1) BY <1>1
<1> HIDE DEF P
<1>7. IsFiniteSet(P(x - 1)) BY <1>2, <1>3
<1>8. Cardinality(P(x - 1)) \in Nat BY <1>7, FS_CardinalityType
<1>9. Cardinality(P(0)) = 0 BY <1>4, FS_EmptySet
<1>10. text[x] = l => Cardinality(P(x)) = Cardinality(P(x - 1)) + 1
  <2> SUFFICES ASSUME text[x] = l PROVE Cardinality(P(x)) = Cardinality(P(x - 1)) + 1 OBVIOUS
  <2> DEFINE a == P(x - 1)
  <2>1. P(x) = a \cup {x} /\ x \notin a /\ IsFiniteSet(a) BY <1>5, <1>6, <1>7
  <2> HIDE DEF a
  <2>2. Cardinality(a \cup {x}) = Cardinality(a) + 1 BY <2>1, FS_AddElement
  <2> QED BY <2>1, <2>2 DEF a
<1>11. text[x] # l => Cardinality(P(x)) = Cardinality(P(x - 1)) BY <1>5
<1>12. Cardinality(P(x)) = Cardinality(P(x - 1)) + (IF text[x] = l THEN 1 ELSE 0)
  BY <1>8, <1>10, <1>11
<1> QED BY <1>8, <1>9, <1>12 DEF P, UpTo

(* A beginning of a sequence, whole or without its first letter. *)
LEMMA BeginIs ==
    ASSUME NEW s, IsSeq(s), NEW b \in Nat, b <= Len(s)
    PROVE  /\ IsSeq(SubSeq(s, 1, b)) /\ Len(SubSeq(s, 1, b)) = b
           /\ \A i \in 1..b : SubSeq(s, 1, b)[i] = s[i]
<1>1. PICK S : s \in Seq(S) BY DEF IsSeq
<1>2. SubSeq(s, 1, b) \in Seq(S) BY <1>1
<1>3. Len(SubSeq(s, 1, b)) = b BY <1>1
<1>4. \A i \in 1..b : SubSeq(s, 1, b)[i] = s[i] BY <1>1
<1> QED BY <1>2, <1>3, <1>4 DEF IsSeq

LEMMA InnerIs ==
    ASSUME NEW s, IsSeq(s), NEW b \in Nat, b + 1 <= Len(s)
    PROVE  /\ IsSeq(SubSeq(s, 2, b + 1)) /\ Len(SubSeq(s, 2, b + 1)) = b
           /\ \A i \in 1..b : SubSeq(s, 2, b + 1)[i] = s[i + 1]
<1>1. PICK S : s \in Seq(S) BY DEF IsSeq
<1>2. SubSeq(s, 2, b + 1) \in Seq(S) BY <1>1
<1>3. Len(SubSeq(s, 2, b + 1)) = b BY <1>1
<1>4. \A i \in 1..b : SubSeq(s, 2, b + 1)[i] = s[i + 1] BY <1>1
<1> QED BY <1>2, <1>3, <1>4 DEF IsSeq

(* The beginning of a quoted field that ends with a quote behind the first  *)
(* i letters says those letters.                                           *)
LEMMA Unquotes ==
    ASSUME NEW field, IsSeq(field), NEW c, NEW at, QuotedAt(c, field, at), NEW i \in 0..Len(field)
    PROVE  Unquoted(SubSeq(c, 1, at[i] + 2)) = SubSeq(field, 1, i)
<1> DEFINE l == at[i]
           w == SubSeq(c, 1, l + 2)
           inner == SubSeq(w, 2, l + 1)
           C(n) == Cardinality(UpTo(inner, Quote, n))
           second == {x \in Places(inner, Quote) : C(x) % 2 = 0}
           K == DOMAIN inner \ second
           m == Len(field)
           size(j) == IF field[j] = Quote THEN 2 ELSE 1
<1>1. /\ IsSeq(c) /\ at \in [0..m -> Nat] /\ at[0] = 0 /\ Len(c) = at[m] + 2 /\ c[1] = Quote
      /\ \A j \in 1..m :
            /\ at[j] = at[j - 1] + size(j)
            /\ c[at[j - 1] + 2] = field[j]
            /\ field[j] = Quote => c[at[j - 1] + 3] = Quote
  BY DEF QuotedAt
<1>2. m \in Nat /\ i \in Nat /\ i <= m BY SeqFacts
<1> HIDE DEF m
<1>3. \A j \in 0..m : \A n \in 0..m : j <= n => at[j] <= at[n]
  <2>1. \A j \in 1..m : at[j - 1] <= at[j]
    <3> TAKE j \in 1..m
    <3>1. at[j - 1] \in Nat /\ at[j] \in Nat /\ at[j] = at[j - 1] + size(j) BY <1>1, <1>2
    <3> QED BY <3>1
  <2> QED BY <1>1, <1>2, <2>1, Grows
<1>4. /\ l \in Nat /\ at[m] \in Nat /\ l <= at[m]
      /\ \A j \in 1..i : /\ at[j - 1] \in Nat /\ at[j] \in Nat /\ at[j - 1] < at[j] /\ at[j] <= l
                         /\ at[j] = at[j - 1] + size(j)
                         /\ c[at[j - 1] + 2] = field[j]
                         /\ field[j] = Quote => c[at[j - 1] + 3] = Quote
  <2>1. l \in Nat /\ at[m] \in Nat /\ l <= at[m] BY <1>1, <1>2, <1>3, m \in 0..m, i \in 0..m
  <2>2. ASSUME NEW j \in 1..i
        PROVE  /\ at[j - 1] \in Nat /\ at[j] \in Nat /\ at[j - 1] < at[j] /\ at[j] <= l
               /\ at[j] = at[j - 1] + size(j)
               /\ c[at[j - 1] + 2] = field[j]
               /\ field[j] = Quote => c[at[j - 1] + 3] = Quote
    <3>1. j \in 1..m /\ j - 1 \in 0..m /\ j \in 0..m /\ i \in 0..m /\ j <= i BY <1>2
    <3>2. at[j - 1] \in Nat /\ at[j] \in Nat /\ at[j] = at[j - 1] + size(j) BY <1>1, <3>1
    <3>3. at[j - 1] < at[j] BY <3>2
    <3> QED BY <1>1, <1>3, <3>1, <3>2, <3>3
  <2> QED BY <2>1, <2>2
<1> HIDE DEF l
<1>5. IsSeq(w) /\ Len(w) = l + 2 /\ \A x \in 1..(l + 2) : w[x] = c[x]
  <2> DEFINE e == l + 2
  <2>1. e \in Nat /\ e <= Len(c) BY <1>1, <1>4
  <2>2. w = SubSeq(c, 1, e) BY DEF w
  <2> HIDE DEF e, w
  <2>3. /\ IsSeq(SubSeq(c, 1, e)) /\ Len(SubSeq(c, 1, e)) = e
        /\ \A x \in 1..e : SubSeq(c, 1, e)[x] = c[x]
    BY <1>1, <2>1, BeginIs
  <2> QED BY <2>2, <2>3 DEF e
<1> HIDE DEF w
<1>6. IsSeq(inner) /\ Len(inner) = l /\ \A x \in 1..l : inner[x] = c[x + 1]
  <2>1. l \in Nat /\ l + 1 <= Len(w) BY <1>4, <1>5
  <2>2. IsSeq(inner) /\ Len(inner) = l /\ \A x \in 1..l : inner[x] = w[x + 1]
    BY <1>5, <2>1, InnerIs
  <2>3. \A x \in 1..l : x + 1 \in 1..(l + 2) BY <1>4
  <2> HIDE DEF inner
  <2> QED BY <1>5, <2>2, <2>3
<1>7. Unquoted(SubSeq(c, 1, at[i] + 2)) = Slice(inner, K)
  <2>1. SubSeq(c, 1, at[i] + 2) = w BY DEF w, l
  <2>2. w # <<>> /\ Head(w) = Quote /\ Len(w) - 1 = l + 1
    <3>1. PICK S : w \in Seq(S) BY <1>5 DEF IsSeq
    <3>2. 1 \in 1..(l + 2) /\ Len(w) - 1 = l + 1 /\ Len(w) # 0 BY <1>4, <1>5
    <3>3. Head(w) = w[1] /\ w # <<>> BY <3>1, <3>2
    <3> QED BY <1>1, <1>5, <3>2, <3>3
  <2>3. inner = SubSeq(w, 2, Len(w) - 1) BY <2>2
  <2> HIDE DEF inner
  <2>4. Unquoted(w) = Slice(inner, K) BY <2>2, <2>3 DEF Unquoted, UpTo
  <2> QED BY <2>1, <2>4
<1> HIDE DEF inner
<1>8. DOMAIN inner = 1..l BY <1>6, SeqFacts
<1>9. /\ C(0) = 0
      /\ \A x \in 1..l : C(x) = C(x - 1) + (IF inner[x] = Quote THEN 1 ELSE 0) /\ C(x - 1) \in Nat
  <2>1. \A x \in 1..l : C(x) = C(x - 1) + (IF inner[x] = Quote THEN 1 ELSE 0) /\ C(x - 1) \in Nat
    <3> TAKE x \in 1..l
    <3>1. IsSeq(inner) /\ x \in 1..Len(inner) BY <1>6
    <3> QED BY <3>1, OneMore, Zenon
  <2>2. UpTo(inner, Quote, 0) = {} BY <1>8 DEF Places, UpTo
  <2> QED BY <2>1, <2>2, FS_EmptySet
<1>10. \A x \in 1..l : x \in K <=> ~(inner[x] = Quote /\ C(x) % 2 = 0)
  BY <1>8 DEF Places
<1> HIDE DEF C, K
<1>11. PICK end : SlicedAt(Slice(inner, K), inner, K, end) BY <1>6, Slices
<1> DEFINE whole == Slice(inner, K)
<1> HIDE DEF whole
<1>12. /\ IsSeq(whole) /\ end \in [0..l -> Nat] /\ end[0] = 0 /\ Len(whole) = end[l]
       /\ \A x \in 1..l : IF x \in K THEN end[x] = end[x - 1] + 1 /\ whole[end[x]] = inner[x]
                          ELSE end[x] = end[x - 1]
  BY <1>6, <1>11 DEF SlicedAt, whole
<1> DEFINE T == {j \in 0..i : C(at[j]) % 2 = 0 /\ C(at[j]) \in Nat /\ end[at[j]] = j
                              /\ \A k \in 1..j : whole[k] = field[k]}
<1>13. 0 \in T BY <1>1, <1>2, <1>9, <1>12
<1>14. ASSUME NEW j \in 1..i, j - 1 \in T PROVE j \in T
  <2> DEFINE a == at[j - 1]
             b == at[j]
  <2>1. /\ C(a) % 2 = 0 /\ C(a) \in Nat /\ end[a] = j - 1 /\ \A k \in 1..(j - 1) : whole[k] = field[k]
    BY <1>14
  <2>2. /\ a \in Nat /\ b \in Nat /\ a < b /\ b <= l /\ b = a + size(j)
        /\ c[a + 2] = field[j] /\ (field[j] = Quote => c[a + 3] = Quote)
    BY <1>4
  <2> HIDE DEF a, b
  <2>3. a + 1 \in 1..l /\ (a + 1) + 1 = a + 2 /\ (a + 1) - 1 = a BY <1>4, <2>2, SMTT(30)
  <2>4. inner[a + 1] = field[j] BY <1>6, <2>2, <2>3
  <2>5. C(a + 1) = C(a) + (IF field[j] = Quote THEN 1 ELSE 0) BY <1>9, <2>3, <2>4
  <2>6. a + 1 \in K
    <3>1. field[j] = Quote => (C(a) + 1) % 2 = 1
      <4> DEFINE g == C(a)
      <4>1. g \in Nat /\ g % 2 = 0 BY <2>1
      <4> HIDE DEF g
      <4>2. (g + 1) % 2 = 1 BY <4>1
      <4> QED BY <4>2 DEF g
    <3> QED BY <1>10, <2>3, <2>4, <2>5, <3>1
  <2>7. end[a + 1] = j /\ whole[j] = field[j] /\ j \in Nat
    <3>1. end[a + 1] = end[a] + 1 /\ whole[end[a + 1]] = inner[a + 1] BY <1>12, <2>3, <2>6
    <3>2. (j - 1) + 1 = j /\ j \in Nat BY <1>2
    <3> QED BY <2>1, <2>4, <3>1, <3>2
  <2>8. C(b) % 2 = 0 /\ C(b) \in Nat /\ end[b] = j
    <3>1. CASE field[j] # Quote
      <4>1. b = a + 1 BY <2>2, <3>1
      <4> QED BY <2>1, <2>5, <2>7, <3>1, <4>1
    <3>2. CASE field[j] = Quote
      <4>1. b = a + 2 /\ b \in 1..l /\ b - 1 = a + 1 /\ b + 1 = a + 3 BY <1>4, <2>2, <3>2
      <4>2. inner[b] = Quote BY <1>6, <2>2, <3>2, <4>1
      <4>3. C(b) = C(a + 1) + 1 /\ C(a + 1) = C(a) + 1 BY <1>9, <2>5, <3>2, <4>1, <4>2
      <4>4. C(b) = C(a) + 2 /\ C(b) \in Nat BY <2>1, <4>3
      <4>5. C(b) % 2 = 0 BY <2>1, <4>4
      <4>6. b \notin K BY <1>10, <4>1, <4>2, <4>5
      <4>7. end[b] = end[b - 1] BY <1>12, <4>1, <4>6
      <4> QED BY <2>7, <4>1, <4>4, <4>5, <4>7
    <3> QED BY <3>1, <3>2
  <2>9. \A k \in 1..j : whole[k] = field[k]
    <3>1. \A k \in 1..j : k \in 1..(j - 1) \/ k = j BY <1>2
    <3> QED BY <2>1, <2>7, <3>1
  <2> QED BY <2>8, <2>9 DEF b
<1> HIDE DEF T
<1>15. 0..i \subseteq T BY <1>2, <1>13, <1>14, UptoInduction
<1>16. end[l] = i /\ \A k \in 1..i : whole[k] = field[k]
  <2>1. i \in T BY <1>2, <1>15
  <2> QED BY <2>1 DEF T, l
<1>17. whole = SubSeq(field, 1, i)
  <2> DEFINE v == SubSeq(field, 1, i)
  <2>1. i \in Nat /\ i <= Len(field) BY <1>2 DEF m
  <2>3. IsSeq(v) /\ Len(v) = i /\ \A k \in 1..i : v[k] = field[k] BY <2>1, BeginIs
  <2> HIDE DEF v
  <2>4. IsSeq(whole) /\ Len(whole) = i BY <1>12, <1>16
  <2>5. \A k \in 1..Len(whole) : whole[k] = v[k] BY <1>16, <2>3, <2>4
  <2>6. whole = v BY <2>3, <2>4, <2>5, SameSeq
  <2> QED BY <2>6 DEF v
<1> QED BY <1>7, <1>17 DEF whole

-----------------------------------------------------------------------------
(* The states within a field. *)

Good(field) == IsSeq(field) /\ \A i \in 1..Len(field) : field[i] # "NUL"

(* k letters of what csv made of a field say a beginning of it. *)
Said(c, field, k) ==
    \E i \in 0..Len(field) :
        Unquoted(SubSeq(c, 1, k)) = SubSeq(field, 1, i) /\ (k = Len(c) => i = Len(field))

Steps(u, c) == u[0] = "start" /\ \A k \in 1..Len(c) : u[k] = After(u[k - 1], c[k])

InField(u, c, field) ==
    /\ \A k \in 0..Len(c) : /\ u[k] # "malformed"
                            /\ k # 0 => u[k] # "start"
                            /\ u[k] # "quoted" => Said(c, field, k)
    /\ u[Len(c)] # "quoted"

LEMMA NoLetters ==
    ASSUME NEW s, IsSeq(s)
    PROVE  SubSeq(s, 1, 0) = <<>>
<1>1. PICK S : s \in Seq(S) BY DEF IsSeq
<1> QED BY <1>1

LEMMA SaidNothing ==
    ASSUME NEW c, IsSeq(c), NEW field, IsSeq(field), Len(c) = 0 => Len(field) = 0
    PROVE  Said(c, field, 0)
<1>1. Unquoted(SubSeq(c, 1, 0)) = SubSeq(field, 1, 0)
  <2>1. SubSeq(c, 1, 0) = <<>> /\ SubSeq(field, 1, 0) = <<>> BY NoLetters
  <2>2. Unquoted(<<>>) = <<>> BY DEF Unquoted
  <2> QED BY <2>1, <2>2
<1>2. 0 \in 0..Len(field) BY SeqFacts
<1>3. 0 = Len(c) => 0 = Len(field) OBVIOUS
<1> QED BY <1>1, <1>2, <1>3, Zenon DEF Said

LEMMA PlainStates ==
    ASSUME NEW field, Good(field), \A i \in 1..Len(field) : field[i] \notin PlainLetters,
           NEW u, Steps(u, field)
    PROVE  InField(u, field, field)
<1> DEFINE m == Len(field)
           T == {k \in 0..m : u[k] = IF k = 0 THEN "start" ELSE "unquoted"}
<1>1. IsSeq(field) /\ m \in Nat BY SeqFacts DEF Good
<1>2. 0 \in T BY <1>1 DEF Steps
<1>3. ASSUME NEW k \in 1..m, k - 1 \in T PROVE k \in T
  <2>1. u[k - 1] = "start" \/ u[k - 1] = "unquoted" BY <1>3
  <2>2. u[k] = After(u[k - 1], field[k]) BY DEF Steps
  <2>3. field[k] # "NUL" /\ field[k] \notin PlainLetters BY DEF Good
  <2>4. u[k] = "unquoted" BY <2>1, <2>2, <2>3, AfterIs
  <2> QED BY <1>1, <2>4
<1>4. 0..m \subseteq T
  <2> HIDE DEF T
  <2> QED BY <1>1, <1>2, <1>3, UptoInduction
<1>5. \A k \in 0..m : u[k] = IF k = 0 THEN "start" ELSE "unquoted" BY <1>4
<1>6. ASSUME NEW k \in 0..m PROVE Said(field, field, k)
  <2>1. CASE k = 0 BY <1>1, <2>1, SaidNothing
  <2>2. CASE k # 0
    <3> DEFINE v == SubSeq(field, 1, k)
    <3>1. k \in Nat /\ k <= Len(field) BY <1>1
    <3>2. IsSeq(v) /\ Len(v) = k /\ \A i \in 1..k : v[i] = field[i] BY <1>1, <3>1, BeginIs
    <3> HIDE DEF v
    <3>3. Head(v) # Quote
      <4>1. PICK S : v \in Seq(S) BY <3>2 DEF IsSeq
      <4>2. 1 \in 1..k /\ 1 \in 1..Len(field) BY <2>2, <3>1
      <4>3. Head(v) = field[1] BY <3>2, <4>1, <4>2
      <4>4. field[1] # Quote BY <4>2 DEF PlainLetters
      <4> QED BY <4>3, <4>4
    <3>4. Unquoted(v) = v BY <3>3 DEF Unquoted
    <3>5. k \in 0..Len(field) /\ (k = Len(field) => k = Len(field)) OBVIOUS
    <3> QED BY <3>4, <3>5, Zenon DEF Said, v
  <2> QED BY <2>1, <2>2
<1>7. \A k \in 0..m : u[k] # "malformed" /\ (k # 0 => u[k] # "start") /\ u[k] # "quoted" BY <1>5
<1>8. u[m] # "quoted" BY <1>1, <1>7
<1> QED BY <1>6, <1>7, <1>8 DEF InField

LEMMA QuotedStates ==
    ASSUME NEW field, Good(field), NEW c, NEW at, QuotedAt(c, field, at), NEW u, Steps(u, c)
    PROVE  InField(u, c, field)
<1> DEFINE m == Len(field)
           size(j) == IF field[j] = Quote THEN 2 ELSE 1
           Closes(k) == \E i \in 0..m : k = at[i] + 2
           T == {j \in 0..m : /\ u[at[j] + 1] = "quoted"
                              /\ \A k \in 1..(at[j] + 1) :
                                    u[k] = "quoted" \/ (u[k] = "closed" /\ Closes(k))}
<1>1. /\ IsSeq(field) /\ m \in Nat /\ IsSeq(c)
      /\ at \in [0..m -> Nat] /\ at[0] = 0 /\ at[m] \in Nat /\ Len(c) = at[m] + 2
      /\ c[1] = Quote /\ c[Len(c)] = Quote
  BY SeqFacts DEF Good, QuotedAt
<1>2. ASSUME NEW j \in 1..m
      PROVE  /\ at[j] = at[j - 1] + size(j) /\ at[j - 1] \in Nat /\ at[j] <= at[m]
             /\ c[at[j - 1] + 2] = field[j] /\ field[j] # "NUL"
             /\ field[j] = Quote => c[at[j - 1] + 3] = Quote
  BY <1>1 DEF QuotedAt, Good
<1> HIDE DEF m, Closes
<1>3. 0 \in T
  <2>1. 1 \in 1..Len(c) /\ 1 - 1 = 0 BY <1>1
  <2>2. u[1] = After("start", Quote) BY <1>1, <2>1 DEF Steps
  <2>3. u[1] = "quoted" BY <2>2, AfterIs, Letters
  <2> QED BY <1>1, <2>3
<1>4. ASSUME NEW j \in 1..m, j - 1 \in T PROVE j \in T
  <2> DEFINE a == at[j - 1]
             b == at[j]
             l == Len(c)
  <2>1. /\ a \in Nat /\ b = a + size(j) /\ l \in Nat /\ b + 2 <= l
        /\ c[a + 2] = field[j] /\ field[j] # "NUL" /\ (field[j] = Quote => c[a + 3] = Quote)
    BY <1>1, <1>2
  <2>2. /\ u[a + 1] = "quoted"
        /\ \A k \in 1..(a + 1) : u[k] = "quoted" \/ (u[k] = "closed" /\ Closes(k))
    BY <1>4
  <2>3. Closes(a + 2) BY <1>1 DEF Closes
  <2>4. \A k \in 1..l : u[k] = After(u[k - 1], c[k]) BY DEF Steps
  <2> HIDE DEF a, b, l
  <2>5. a + 2 \in 1..l /\ (a + 2) - 1 = a + 1 BY <2>1
  <2>6. u[a + 2] = After("quoted", field[j]) BY <2>1, <2>2, <2>4, <2>5
  <2>7. u[a + 2] = IF field[j] = Quote THEN "closed" ELSE "quoted" BY <2>1, <2>6, AfterIs
  <2>8. /\ u[b + 1] = "quoted"
        /\ \A k \in 1..(b + 1) : u[k] = "quoted" \/ (u[k] = "closed" /\ Closes(k))
    <3>1. CASE field[j] # Quote
      <4>1. b = a + 1 BY <2>1, <3>1
      <4>2. b + 1 = a + 2 /\ \A k \in 1..(b + 1) : k \in 1..(a + 1) \/ k = a + 2 BY <2>1, <4>1
      <4> QED BY <2>2, <2>7, <3>1, <4>2
    <3>2. CASE field[j] = Quote
      <4>1. b = a + 2 BY <2>1, <3>2
      <4>2. /\ b + 1 = a + 3 /\ a + 3 \in 1..l /\ (a + 3) - 1 = a + 2
            /\ \A k \in 1..(b + 1) : k \in 1..(a + 1) \/ k = a + 2 \/ k = a + 3
        BY <2>1, <4>1
      <4>3. u[a + 3] = After("closed", Quote) BY <2>1, <2>4, <2>7, <3>2, <4>2
      <4>4. u[a + 3] = "quoted" BY <4>3, AfterIs, Letters
      <4> QED BY <2>2, <2>3, <2>7, <3>2, <4>2, <4>4
    <3> QED BY <3>1, <3>2
  <2> QED BY <2>8 DEF b
<1>5. 0..m \subseteq T
  <2> HIDE DEF T
  <2> QED BY <1>1, <1>3, <1>4, UptoInduction
<1>6. /\ u[at[m] + 1] = "quoted"
      /\ \A k \in 1..(at[m] + 1) : u[k] = "quoted" \/ (u[k] = "closed" /\ Closes(k))
  <2>1. m \in T BY <1>1, <1>5
  <2> QED BY <2>1
<1>7. u[Len(c)] = "closed"
  <2>1. Len(c) \in 1..Len(c) /\ Len(c) - 1 = at[m] + 1 BY <1>1
  <2>2. u[Len(c)] = After("quoted", Quote) BY <1>1, <1>6, <2>1 DEF Steps
  <2> QED BY <2>2, AfterIs, Letters
<1>8. ASSUME NEW k \in 0..Len(c), u[k] # "quoted"
      PROVE  Said(c, field, k)
  <2>1. CASE k = 0 BY <1>1, <2>1, SaidNothing
  <2>2. CASE k = Len(c)
    <3>1. m \in 0..Len(field) BY <1>1 DEF m
    <3>2. Unquoted(SubSeq(c, 1, at[m] + 2)) = SubSeq(field, 1, m) BY <1>1, <3>1, Unquotes, ZenonT(30)
    <3>3. Unquoted(SubSeq(c, 1, k)) = SubSeq(field, 1, m) /\ (k = Len(c) => m = Len(field))
      BY <1>1, <2>2, <3>2 DEF m
    <3> QED BY <3>1, <3>3, Zenon DEF Said
  <2>3. CASE k # 0 /\ k # Len(c)
    <3>1. k \in 1..(at[m] + 1) BY <1>1, <2>3
    <3>2. PICK i \in 0..m : k = at[i] + 2 BY <1>6, <1>8, <3>1 DEF Closes
    <3>3. i \in 0..Len(field) BY DEF m
    <3>4. Unquoted(SubSeq(c, 1, k)) = SubSeq(field, 1, i) BY <1>1, <3>2, <3>3, Unquotes, ZenonT(60)
    <3> QED BY <2>3, <3>3, <3>4, Zenon DEF Said
  <2> QED BY <2>1, <2>2, <2>3
<1>9. ASSUME NEW k \in 0..Len(c)
      PROVE  u[k] # "malformed" /\ (k # 0 => u[k] # "start")
  <2>1. k = 0 \/ k = Len(c) \/ k \in 1..(at[m] + 1) BY <1>1
  <2>2. u[0] = "start" BY DEF Steps
  <2> QED BY <1>6, <1>7, <2>1, <2>2
<1>10. u[Len(c)] # "quoted" BY <1>7
<1> QED BY <1>8, <1>9, <1>10 DEF InField

LEMMA FieldStates ==
    ASSUME NEW field, Good(field), NEW u, Steps(u, csv_field(field))
    PROVE  InField(u, csv_field(field), field)
<1>1. IsSeq(field) BY DEF Good
<1>2. CASE csv_field(field) = field /\ \A i \in 1..Len(field) : field[i] \notin PlainLetters
  <2>1. Steps(u, field) BY <1>2
  <2>2. InField(u, field, field) BY <1>2, <2>1, PlainStates
  <2> QED BY <1>2, <2>2
<1>3. CASE \E at : QuotedAt(csv_field(field), field, at) BY <1>3, QuotedStates
<1> QED BY <1>1, <1>2, <1>3, CsvField

(* Where each letter of a text is. *)
LEMMA Located ==
    ASSUME NEW data, IsSeq(data), \A n \in 1..Len(data) : IsSeq(data[n]),
           NEW text, NEW bar, TextAt(text, data, bar), Len(data) # 0, NEW x \in 0..Len(text)
    PROVE  \E j \in 1..Len(data) : /\ bar[j - 1] <= x /\ x < bar[j]
                                   /\ x - bar[j - 1] \in 0..Len(csv_field(data[j]))
<1> DEFINE m == Len(data)
           S == {j \in 0..m : x < bar[j]}
<1>1. /\ m \in Nat /\ m # 0 /\ Len(text) \in Nat /\ x \in Nat
      /\ bar \in [0..m -> Nat] /\ bar[0] = 0 /\ Len(text) + 1 = bar[m]
      /\ \A j \in 1..m : bar[j] = bar[j - 1] + Len(csv_field(data[j])) + 1
                         /\ Len(csv_field(data[j])) \in Nat
  BY SeqFacts, CsvIsSeq DEF TextAt
<1> HIDE DEF m
<1>2. m \in S /\ S \subseteq Nat BY <1>1, SMTT(30)
<1>3. PICK j \in S : \A k \in S : j <= k
  <2> HIDE DEF S
  <2> QED BY <1>2, Least
<1>4. j \in 1..m /\ j - 1 \in 0..m /\ j - 1 \notin S BY <1>1, <1>3, SMTT(30)
<1> DEFINE a == bar[j - 1]
           b == bar[j]
           l == Len(csv_field(data[j]))
<1>5. a \in Nat /\ b = a + l + 1 /\ l \in Nat /\ x < b /\ ~(x < a) BY <1>1, <1>3, <1>4
<1> HIDE DEF a, b, l
<1>6. a <= x /\ x - a \in 0..l BY <1>1, <1>5
<1> QED BY <1>4, <1>5, <1>6 DEF a, b, l, m

LEMMA Outcomes ==
    \A state, l : After(state, l) \in {"start", "unquoted", "quoted", "closed", "malformed"}
<1> TAKE state, l
<1> DEFINE a == After(state, l)
<1>1. CASE state = "malformed" \/ l = "NUL"
  <2>1. state = "malformed" => a = "malformed" BY Zenon DEF After
  <2>2. l = "NUL" => a = "malformed" BY Letters, Zenon DEF After
  <2> QED BY <1>1, <2>1, <2>2
<1>2. CASE state = "quoted" /\ l # "NUL"
  <2>1. a = IF l = Quote THEN "closed" ELSE "quoted" BY <1>2, AfterIs
  <2> QED BY <2>1
<1>3. CASE state \in {"start", "closed"} /\ l = Quote
  <2>1. a = "quoted" BY <1>3, AfterIs, Letters
  <2> QED BY <2>1
<1>4. CASE state \in {"start", "unquoted", "closed"} /\ l = "|"
  <2>1. state = "start" \/ state = "unquoted" \/ state = "closed" BY <1>4
  <2>2. a = "start" BY <1>4, <2>1, Letters, Zenon DEF After
  <2> QED BY <2>2
<1>5. CASE state \in {"start", "unquoted"} /\ l \notin {"|", Quote, "\r", "\n", "NUL"}
  <2>1. a = "unquoted" BY <1>5, AfterIs DEF PlainLetters
  <2> QED BY <2>1
<1>6. CASE /\ ~(state = "malformed" \/ l = "NUL")
           /\ ~(state = "quoted" /\ l # "NUL")
           /\ ~(state \in {"start", "closed"} /\ l = Quote)
           /\ ~(state \in {"start", "unquoted", "closed"} /\ l = "|")
           /\ ~(state \in {"start", "unquoted"} /\ l \notin {"|", Quote, "\r", "\n", "NUL"})
  <2>1. a = "malformed" BY <1>6, Zenon DEF After
  <2> QED BY <2>1
<1> QED BY <1>1, <1>2, <1>3, <1>4, <1>5, <1>6

LEMMA AfterBar ==
    ASSUME NEW state \in {"start", "unquoted", "quoted", "closed", "malformed"},
           state # "quoted", state # "malformed"
    PROVE  After(state, "|") = "start"
<1>1. state = "start" \/ state = "unquoted" \/ state = "closed" OBVIOUS
<1>2. "|" # "NUL" /\ "|" # Quote BY Letters
<1> QED BY <1>1, <1>2, Zenon DEF After

(* The states in a text, field by field. *)
Ruled(text, data, bar) ==
    \A j \in 1..Len(data) :
        /\ Quoting(text)[bar[j - 1]] = "start"
        /\ InField([k \in 0..Len(csv_field(data[j])) |-> Quoting(text)[bar[j - 1] + k]],
                   csv_field(data[j]), data[j])

LEMMA TextRuled ==
    ASSUME NEW data, IsSeq(data), Len(data) # 0, \A n \in 1..Len(data) : Good(data[n]),
           NEW text, NEW bar, TextAt(text, data, bar)
    PROVE  Ruled(text, data, bar)
<1> DEFINE m == Len(data)
           q == Quoting(text)
           c(j) == csv_field(data[j])
           u(j) == [k \in 0..Len(c(j)) |-> q[bar[j - 1] + k]]
           T == {j \in 0..m : j < m => q[bar[j]] = "start"}
<1>1. /\ m \in Nat /\ m # 0 /\ IsSeq(text) /\ Len(text) \in Nat
      /\ bar \in [0..m -> Nat] /\ bar[0] = 0 /\ Len(text) + 1 = bar[m]
  BY SeqFacts DEF TextAt
<1>2. ASSUME NEW j \in 1..m
      PROVE  /\ Good(data[j]) /\ Len(c(j)) \in Nat /\ bar[j - 1] \in Nat
             /\ bar[j] = bar[j - 1] + Len(c(j)) + 1
             /\ \A k \in 1..Len(c(j)) : text[bar[j - 1] + k] = c(j)[k]
             /\ j < m => text[bar[j]] = "|"
  <2>1. Good(data[j]) OBVIOUS
  <2>2. Len(c(j)) \in Nat BY <2>1, CsvIsSeq DEF Good
  <2>3. j - 1 \in 0..m BY <1>1
  <2> QED BY <1>1, <2>1, <2>2, <2>3 DEF TextAt
<1>3. q[0] = "start" /\ \A i \in 1..Len(text) : q[i] = After(q[i - 1], text[i])
  BY <1>1, QuotingRuns
<1>4. \A j \in 0..m : bar[j] <= Len(text) + 1
  <2>1. \A j \in 1..m : bar[j - 1] <= bar[j]
    <3> TAKE j \in 1..m
    <3> DEFINE a == bar[j - 1]
               l == Len(c(j))
    <3>1. a \in Nat /\ l \in Nat /\ bar[j] = a + l + 1 BY <1>2
    <3> HIDE DEF a, l
    <3>2. a <= bar[j] BY <3>1
    <3> QED BY <3>2 DEF a
  <2> HIDE DEF m
  <2>2. \A j \in 0..m : \A i \in 0..m : j <= i => bar[j] <= bar[i] BY <1>1, <2>1, Grows
  <2>3. m \in 0..m /\ \A j \in 0..m : j <= m BY <1>1
  <2> QED BY <1>1, <2>2, <2>3
<1> HIDE DEF m, c, q
<1>5. ASSUME NEW j \in 1..m, q[bar[j - 1]] = "start"
      PROVE  InField(u(j), c(j), data[j])
  <2> DEFINE a == bar[j - 1]
             l == Len(c(j))
             d == c(j)
             v == u(j)
  <2>1. /\ a \in Nat /\ l \in Nat /\ a + l + 1 <= Len(text) + 1 /\ q[a] = "start"
        /\ \A k \in 1..l : text[a + k] = d[k]
    <3>1. bar[j] <= Len(text) + 1 BY <1>1, <1>4
    <3> QED BY <1>2, <1>5, <3>1
  <2>2. \A k \in 0..l : v[k] = q[a + k] OBVIOUS
  <2> HIDE DEF a, l, d, v
  <2>3. a + 0 = a /\ 0 \in 0..l BY <2>1
  <2>4. v[0] = "start" BY <2>1, <2>2, <2>3
  <2>5. ASSUME NEW k \in 1..l PROVE v[k] = After(v[k - 1], d[k])
    <3>1. /\ k \in 0..l /\ k - 1 \in 0..l /\ a + k \in 1..Len(text) /\ (a + k) - 1 = a + (k - 1)
      BY <1>1, <2>1
    <3>2. v[k] = q[a + k] /\ v[k - 1] = q[a + (k - 1)] /\ text[a + k] = d[k] BY <2>1, <2>2, <3>1
    <3>3. q[a + k] = After(q[(a + k) - 1], text[a + k]) BY <1>3, <3>1
    <3> QED BY <3>1, <3>2, <3>3
  <2>6. Steps(v, d) BY <2>4, <2>5 DEF Steps, l, d
  <2>7. Good(data[j]) BY <1>2
  <2> QED BY <2>6, <2>7, FieldStates DEF v, d, c
<1>6. 0 \in T BY <1>1, <1>3
<1>7. ASSUME NEW j \in 1..m, j - 1 \in T PROVE j \in T
  <2> SUFFICES ASSUME j < m PROVE q[bar[j]] = "start" BY <1>1
  <2> DEFINE a == bar[j - 1]
             l == Len(c(j))
             d == c(j)
             v == u(j)
  <2>1. q[a] = "start" BY <1>1, <1>7
  <2>2. InField(v, d, data[j]) BY <1>5, <2>1
  <2>3. l \in Nat /\ v[l] = q[a + l] BY <1>2
  <2>4. v[l] # "quoted" /\ v[l] # "malformed" BY <2>2, <2>3 DEF InField
  <2>5. a \in Nat /\ bar[j] = a + l + 1 /\ text[bar[j]] = "|" /\ bar[j] <= Len(text) + 1
        /\ bar[j] # Len(text) + 1
    <3>1. /\ a \in Nat /\ bar[j] = a + l + 1 /\ text[bar[j]] = "|" /\ bar[j] <= Len(text) + 1
      BY <1>1, <1>2, <1>4, SMTT(30)
    <3>2. bar[j] # Len(text) + 1
      <4>1. j + 1 \in 1..m /\ (j + 1) - 1 = j BY <1>1
      <4> DEFINE n == Len(c(j + 1))
                 b == bar[j]
                 e == bar[j + 1]
      <4>2. n \in Nat /\ b \in Nat /\ e = b + n + 1 /\ e <= Len(text) + 1 BY <1>1, <1>2, <1>4, <4>1, SMTT(30)
      <4> HIDE DEF n, b, e
      <4>3. b # Len(text) + 1 BY <1>1, <4>2
      <4> QED BY <4>3 DEF b
    <3> QED BY <3>1, <3>2
  <2> HIDE DEF a, l, d, v
  <2>6. bar[j] \in 1..Len(text) /\ bar[j] - 1 = a + l BY <1>1, <2>3, <2>5
  <2>7. q[bar[j]] = After(q[a + l], "|") BY <1>3, <2>5, <2>6
  <2>8. q[a + l] \in {"start", "unquoted", "quoted", "closed", "malformed"}
    <3>1. CASE a + l = 0 BY <1>3, <3>1
    <3>2. CASE a + l # 0
      <4>1. a + l \in 1..Len(text) BY <1>1, <2>3, <2>5, <2>6, <3>2
      <4>2. q[a + l] = After(q[(a + l) - 1], text[a + l]) BY <1>3, <4>1
      <4> QED BY <4>2, Outcomes
    <3> QED BY <3>1, <3>2
  <2> QED BY <2>3, <2>4, <2>7, <2>8, AfterBar
<1>8. 0..m \subseteq T
  <2> HIDE DEF T
  <2> QED BY <1>1, <1>6, <1>7, UptoInduction
<1>9. ASSUME NEW j \in 1..m PROVE q[bar[j - 1]] = "start" /\ InField(u(j), c(j), data[j])
  <2>1. j - 1 \in 0..m /\ j - 1 < m BY <1>1
  <2>2. q[bar[j - 1]] = "start" BY <1>8, <2>1
  <2> QED BY <1>5, <2>2
<1> QED BY <1>9 DEF Ruled, q, c, m

-----------------------------------------------------------------------------
(* The record of a text that is cut behind n letters. *)

(* M fields are read: those before the last are whole, of the last there are *)
(* the first i letters.                                                    *)
CutRecord(cells, data, M, i) ==
    /\ DOMAIN cells = 1..M /\ cells = [j \in 1..M |-> cells[j]]
    /\ \A j \in 1..(M - 1) : cells[j] = data[j]
    /\ cells[M] = SubSeq(data[M], 1, i)

LEMMA WholeBegin ==
    ASSUME NEW s, IsSeq(s)
    PROVE  SubSeq(s, 1, Len(s)) = s
<1>1. PICK S : s \in Seq(S) BY DEF IsSeq
<1> QED BY <1>1

(* A part of a text is a beginning of what csv made of the field there. *)
LEMMA PartIs ==
    ASSUME NEW text, IsSeq(text), NEW c, IsSeq(c), NEW a \in Nat, NEW k \in 0..Len(c),
           a + k <= Len(text), \A x \in 1..k : text[a + x] = c[x]
    PROVE  SubSeq(text, a + 1, a + k) = SubSeq(c, 1, k)
<1> DEFINE s == SubSeq(text, a + 1, a + k)
           t == SubSeq(c, 1, k)
<1>1. k \in Nat /\ k <= Len(c) BY SeqFacts
<1>2. IsSeq(t) /\ Len(t) = k /\ \A x \in 1..k : t[x] = c[x] BY <1>1, BeginIs
<1>3. IsSeq(s) /\ Len(s) = k /\ \A x \in 1..k : s[x] = text[a + x]
  <2>1. PICK S : text \in Seq(S) BY DEF IsSeq
  <2>2. s \in Seq(S) BY <1>1, <2>1
  <2>3. Len(s) = k BY <1>1, <2>1
  <2>4. \A x \in 1..k : s[x] = text[a + x] BY <1>1, <2>1
  <2> QED BY <2>2, <2>3, <2>4 DEF IsSeq
<1> HIDE DEF s, t
<1>4. s = t BY <1>2, <1>3, SameSeq
<1> QED BY <1>4 DEF s, t

(* The separators of a text, with its two ends, are at e. *)
BarsAt(t, e, M) ==
    /\ Cardinality(Bars(t, Quoting(t))) = M + 1
    /\ \A j \in 0..M : Nth(Bars(t, Quoting(t)), j + 1) = e[j]
    /\ e \in [0..M -> Nat] /\ \A j \in 1..M : e[j - 1] < e[j]

(* The separators of a cut text are those of the text before the cut. *)
LEMMA CutBars ==
    ASSUME NEW data, IsSeq(data), Len(data) # 0, \A j \in 1..Len(data) : Good(data[j]),
           NEW text, NEW bar, TextAt(text, data, bar),
           NEW n \in 0..Len(text), NEW M \in 1..Len(data), bar[M - 1] <= n, n < bar[M],
           NEW e, e = [j \in 0..M |-> IF j = M THEN n + 1 ELSE bar[j]]
    PROVE  BarsAt(SubSeq(text, 1, n), e, M)
<1> DEFINE t == SubSeq(text, 1, n)
           q == Quoting(text)
           r == Quoting(t)
           m == Len(data)
           c(j) == csv_field(data[j])
           E == {e[j] : j \in 0..M}
<1>1. /\ m \in Nat /\ m # 0 /\ IsSeq(text) /\ Len(text) \in Nat /\ n \in Nat /\ n <= Len(text)
      /\ bar \in [0..m -> Nat] /\ bar[0] = 0 /\ Len(text) + 1 = bar[m]
  BY SeqFacts DEF TextAt
<1>2. ASSUME NEW j \in 1..m
      PROVE  /\ Len(c(j)) \in Nat /\ bar[j - 1] \in Nat /\ bar[j] = bar[j - 1] + Len(c(j)) + 1
             /\ bar[j - 1] < bar[j]
             /\ j < m => text[bar[j]] = "|"
             /\ q[bar[j - 1]] = "start"
             /\ \A k \in 1..Len(c(j)) : q[bar[j - 1] + k] # "start"
  <2>1. Good(data[j]) OBVIOUS
  <2>2. Len(c(j)) \in Nat BY <2>1, CsvIsSeq DEF Good
  <2>3. j - 1 \in 0..m BY <1>1
  <2>4. bar[j - 1] \in Nat /\ bar[j] = bar[j - 1] + Len(c(j)) + 1 /\ (j < m => text[bar[j]] = "|")
    BY <1>1, <2>3 DEF TextAt
  <2>5. Ruled(text, data, bar) BY TextRuled
  <2> DEFINE u == [k \in 0..Len(c(j)) |-> q[bar[j - 1] + k]]
  <2>6. q[bar[j - 1]] = "start" /\ InField(u, c(j), data[j]) BY <2>5 DEF Ruled
  <2>7. \A k \in 0..Len(c(j)) : u[k] = q[bar[j - 1] + k] OBVIOUS
  <2> HIDE DEF u
  <2>8. \A k \in 0..Len(c(j)) : k # 0 => u[k] # "start" BY <2>6 DEF InField
  <2>9. \A k \in 1..Len(c(j)) : q[bar[j - 1] + k] # "start" BY <2>2, <2>7, <2>8
  <2>10. bar[j - 1] < bar[j]
    <3> DEFINE a == bar[j - 1]
               l == Len(c(j))
    <3>1. a \in Nat /\ l \in Nat /\ bar[j] = a + l + 1 BY <2>2, <2>4
    <3> HIDE DEF a, l
    <3>2. a < bar[j] BY <3>1
    <3> QED BY <3>2 DEF a
  <2> QED BY <2>2, <2>4, <2>6, <2>9, <2>10
<1>3. IsSeq(t) /\ Len(t) = n /\ \A x \in 1..n : t[x] = text[x] BY <1>1, BeginIs
<1>4. \A x \in 0..n : r[x] = q[x] BY <1>1, QuotingBegins
<1>5. DOMAIN t = 1..n BY <1>3, SeqFacts
<1>6. \A i \in 0..m : \A j \in 0..m : i <= j => bar[i] <= bar[j]
  <2>1. \A j \in 1..m : bar[j - 1] <= bar[j]
    <3> TAKE j \in 1..m
    <3>1. j - 1 \in 0..m /\ j \in 0..m BY <1>1
    <3>2. bar[j - 1] \in Nat /\ bar[j] \in Nat /\ bar[j - 1] < bar[j] BY <1>1, <1>2, <3>1
    <3> QED BY <3>2
  <2> HIDE DEF m
  <2> QED BY <1>1, <2>1, Grows
<1>7. M \in Nat /\ M # 0 /\ M <= m /\ M - 1 \in 0..m /\ M \in 0..m BY <1>1
<1>8. Bars(t, r) = {x \in 1..n : t[x] = "|" /\ r[x] = "start"} \cup {0, n + 1}
  BY <1>3, <1>5 DEF Bars, Places
<1> HIDE DEF m, c, q, r, t
<1>9. e \in [0..M -> Nat] /\ \A j \in 1..M : e[j - 1] < e[j]
  <2>1. e \in [0..M -> Nat]
    <3>1. \A j \in 0..M : j \in 0..m BY <1>1, <1>7
    <3>2. \A j \in 0..M : bar[j] \in Nat BY <1>1, <3>1
    <3>3. n + 1 \in Nat BY <1>1
    <3> QED BY <3>2, <3>3
  <2>2. ASSUME NEW j \in 1..M PROVE e[j - 1] < e[j]
    <3>1. j - 1 \in 0..M /\ j \in 0..M /\ j - 1 # M /\ j \in 1..m BY <1>1, <1>7
    <3>2. e[j - 1] = bar[j - 1] BY <3>1
    <3>3. CASE j = M
      <4>1. e[j] = n + 1 /\ bar[j - 1] \in Nat /\ bar[j - 1] <= n BY <1>2, <3>1, <3>3
      <4> QED BY <1>1, <3>2, <4>1
    <3>4. CASE j # M
      <4>1. e[j] = bar[j] BY <3>1, <3>4
      <4> QED BY <1>2, <3>1, <3>2, <4>1
    <3> QED BY <3>3, <3>4
  <2> QED BY <2>1, <2>2
<1>10. Bars(t, r) = E
  <2>1. ASSUME NEW x \in 1..n, t[x] = "|", r[x] = "start" PROVE x \in E
    <3>1. x \in 0..Len(text) /\ q[x] = "start" BY <1>1, <1>4, <2>1, SMTT(30)
    <3>2. \A j \in 1..Len(data) : IsSeq(data[j]) BY DEF Good
    <3>3. PICK j \in 1..Len(data) : /\ bar[j - 1] <= x /\ x < bar[j]
                                    /\ x - bar[j - 1] \in 0..Len(csv_field(data[j]))
      BY <3>1, <3>2, Located
    <3>4. j \in 1..m /\ j - 1 \in 0..m /\ j \in 0..m BY <1>1 DEF m
    <3> DEFINE a == bar[j - 1]
               k == x - a
    <3>5. a \in Nat /\ k \in 0..Len(c(j)) BY <1>1, <3>3, <3>4 DEF c
    <3>6. x = a + k BY <3>5, SMTT(30)
    <3>7. k = 0
      <4> SUFFICES ASSUME k # 0 PROVE FALSE OBVIOUS
      <4>1. k \in 1..Len(c(j)) BY <3>5, SMTT(30)
      <4>2. q[bar[j - 1] + k] # "start" BY <1>2, <3>4, <4>1
      <4> QED BY <3>1, <3>6, <4>2
    <3>8. x = bar[j - 1] BY <3>5, <3>6, <3>7
    <3>9. j - 1 < M
      <4> SUFFICES ASSUME M <= j - 1 PROVE FALSE BY <1>7, <3>4
      <4>1. bar[M] <= bar[j - 1] BY <1>6, <1>7, <3>4
      <4>2. bar[M] \in Nat BY <1>1, <1>7
      <4> QED BY <1>1, <3>8, <4>1, <4>2, SMTT(30)
    <3>10. j - 1 \in 0..M /\ e[j - 1] = bar[j - 1] BY <1>7, <3>4, <3>9
    <3> QED BY <3>8, <3>10
  <2>2. 0 \in E /\ n + 1 \in E
    <3>1. 0 \in 0..M /\ M \in 0..M /\ e[M] = n + 1 /\ e[0] = 0 BY <1>1, <1>7
    <3> QED BY <3>1
  <2>3. ASSUME NEW j \in 0..M PROVE e[j] \in Bars(t, r)
    <3>1. CASE j = M
      <4>1. e[j] = n + 1 BY <3>1
      <4> QED BY <1>8, <4>1
    <3>2. CASE j = 0 /\ j # M
      <4>1. e[j] = 0 BY <1>1, <3>2
      <4> QED BY <1>8, <4>1
    <3>3. CASE j # 0 /\ j # M
      <4>1. e[j] = bar[j] BY <3>3
      <4>2. j \in 1..m /\ j < m /\ j + 1 \in 1..m /\ (j + 1) - 1 = j /\ j - 1 \in 0..m /\ j \in 0..m
            /\ j <= M - 1
        BY <1>1, <1>7, <3>3
      <4>3. text[bar[j]] = "|" /\ q[bar[j]] = "start" BY <1>2, <4>2
      <4>4. bar[j] <= bar[M - 1] BY <1>6, <1>7, <4>2
      <4>5. bar[j - 1] \in Nat /\ bar[j] \in Nat /\ bar[j - 1] < bar[j] /\ bar[M - 1] \in Nat
        BY <1>1, <1>2, <1>7, <4>2
      <4>6. bar[j] \in 1..n /\ bar[j] \in 0..n BY <1>1, <4>4, <4>5, SMTT(30)
      <4>7. t[bar[j]] = "|" /\ r[bar[j]] = "start" BY <1>3, <1>4, <4>3, <4>6
      <4> QED BY <1>8, <4>1, <4>6, <4>7
    <3> QED BY <3>1, <3>2, <3>3
  <2> DEFINE B == Bars(t, r)
  <2>4. \A x \in B : x \in E
    <3> HIDE DEF E
    <3> QED BY <1>8, <2>1, <2>2
  <2>5. \A x \in E : x \in B BY <2>3
  <2> HIDE DEF B, E
  <2>6. B = E BY <2>4, <2>5
  <2> QED BY <2>6 DEF B
<1>11. Cardinality(Bars(t, r)) = M + 1 /\ \A j \in 0..M : Nth(Bars(t, r), j + 1) = e[j]
  <2>1. M \in Nat BY <1>7
  <2> DEFINE S == Bars(t, r)
  <2>2. S = {e[j] : j \in 0..M} BY <1>10
  <2> HIDE DEF S
  <2>3. Ascends(e, M, S) BY <1>9, <2>2 DEF Ascends
  <2> QED BY <2>1, <2>3, NthIs DEF S
<1> QED BY <1>9, <1>11 DEF t, r, BarsAt

(* The states of a text that was encoded, at any place. *)
LEMMA StateAt ==
    ASSUME NEW data, IsSeq(data), Len(data) # 0, \A j \in 1..Len(data) : Good(data[j]),
           NEW text, NEW bar, TextAt(text, data, bar),
           NEW x \in 0..Len(text), NEW j \in 1..Len(data), bar[j - 1] <= x, x < bar[j]
    PROVE  LET k == x - bar[j - 1]
           IN  /\ k \in 0..Len(csv_field(data[j])) /\ x = bar[j - 1] + k /\ bar[j - 1] \in Nat
               /\ Quoting(text)[x] # "malformed"
               /\ Quoting(text)[x] # "quoted" => Said(csv_field(data[j]), data[j], k)
               /\ k = Len(csv_field(data[j])) => Quoting(text)[x] # "quoted"
<1> DEFINE m == Len(data)
           q == Quoting(text)
           c == csv_field(data[j])
           l == Len(c)
           a == bar[j - 1]
           k == x - a
           u == [i \in 0..l |-> q[a + i]]
<1>1. Good(data[j]) OBVIOUS
<1>2. l \in Nat BY <1>1, CsvIsSeq DEF Good
<1>3. m \in Nat /\ Len(text) \in Nat /\ x \in Nat BY SeqFacts DEF TextAt
<1>4. a \in Nat /\ bar[j] = a + l + 1 /\ a <= x /\ x < bar[j]
  <2>1. j - 1 \in 0..m BY <1>3
  <2> QED BY <2>1 DEF TextAt
<1>5. InField(u, c, data[j]) /\ \A i \in 0..l : u[i] = q[a + i]
  <2>1. Ruled(text, data, bar) BY TextRuled
  <2> QED BY <2>1 DEF Ruled
<1> HIDE DEF u, a, l, q
<1>6. k \in 0..l /\ x = a + k BY <1>2, <1>3, <1>4
<1>7. u[k] = q[x] BY <1>5, <1>6
<1>8. q[x] # "malformed" /\ (q[x] # "quoted" => Said(c, data[j], k)) /\ (k = l => q[x] # "quoted")
  BY <1>5, <1>6, <1>7 DEF InField, l
<1> QED BY <1>4, <1>6, <1>8 DEF a, l, q

RecordCut(t, data, n) ==
    \E M \in 1..Len(data) : \E i \in 0..Len(data[M]) :
       /\ CutRecord(csv_record(t), data, M, i)
       /\ n = Len(encode_report(data)) => M = Len(data) /\ i = Len(data[M])

LEMMA RecordOfCut ==
    ASSUME NEW data, IsSeq(data), Len(data) # 0, \A j \in 1..Len(data) : Good(data[j]),
           NEW n \in 0..Len(encode_report(data)),
           NEW t, t = SubSeq(encode_report(data), 1, n), validate_report_quoting(t)
    PROVE  RecordCut(t, data, n)
<1> DEFINE text == encode_report(data)
           m == Len(data)
<1>1. \A j \in 1..Len(data) : IsSeq(data[j]) BY DEF Good
<1>2. PICK bar : TextAt(text, data, bar) BY <1>1, TextParts
<1>3. PICK M \in 1..m : bar[M - 1] <= n /\ n < bar[M] BY <1>1, <1>2, Located
<1> DEFINE c(j) == csv_field(data[j])
           e == [j \in 0..M |-> IF j = M THEN n + 1 ELSE bar[j]]
           bars == Bars(t, Quoting(t))
           k == n - bar[M - 1]
           cell(j) == Unquoted(SubSeq(t, Nth(bars, j) + 1, Nth(bars, j + 1) - 1))
<1>4. /\ m \in Nat /\ m # 0 /\ IsSeq(text) /\ Len(text) \in Nat /\ n \in Nat /\ n <= Len(text)
      /\ bar \in [0..m -> Nat] /\ bar[0] = 0 /\ Len(text) + 1 = bar[m]
      /\ M \in Nat /\ M # 0 /\ M <= m /\ M - 1 \in 0..m /\ M \in 0..m
  BY <1>2, SeqFacts DEF TextAt
<1>5. /\ IsSeq(t) /\ Len(t) = n /\ \A x \in 1..n : t[x] = text[x]
  BY <1>4, BeginIs
<1>6. /\ Cardinality(bars) = M + 1 /\ \A j \in 0..M : Nth(bars, j + 1) = e[j]
      /\ e \in [0..M -> Nat] /\ \A j \in 1..M : e[j - 1] < e[j]
  <2> HIDE DEF text, e
  <2>1. e = [j \in 0..M |-> IF j = M THEN n + 1 ELSE bar[j]] BY DEF e
  <2>2. n \in 0..Len(text) /\ t = SubSeq(text, 1, n) BY DEF text
  <2>3. M \in 1..Len(data) /\ TextAt(text, data, bar) BY <1>2 DEF text
  <2>4. BarsAt(SubSeq(text, 1, n), e, M) BY <1>3, <2>1, <2>2, <2>3, CutBars
  <2>5. BarsAt(t, e, M) BY <2>2, <2>4
  <2> QED BY <2>5 DEF BarsAt
<1>7. csv_record(t) = [j \in 1..M |-> cell(j)]
  <2>1. csv_record(t) = [j \in 1..(Cardinality(bars) - 1) |-> cell(j)] BY DEF csv_record, Cells
  <2>2. Cardinality(bars) - 1 = M BY <1>4, <1>6
  <2> QED BY <2>1, <2>2
<1>8. \A j \in 1..M : cell(j) = Unquoted(SubSeq(t, e[j - 1] + 1, e[j] - 1))
  <2> TAKE j \in 1..M
  <2>1. j - 1 \in 0..M /\ (j - 1) + 1 = j /\ j \in 0..M BY <1>4
  <2>2. Nth(bars, j) = e[j - 1] /\ Nth(bars, j + 1) = e[j] BY <1>6, <2>1
  <2> HIDE DEF bars, e
  <2> QED BY <2>2
<1> HIDE DEF cell, bars, text, m
<1>9. ASSUME NEW j \in 1..(M - 1) PROVE cell(j) = data[j]
  <2> DEFINE a == bar[j - 1]
             l == Len(c(j))
  <2>1. /\ j \in 1..m /\ j \in 1..M /\ j - 1 # M /\ j # M /\ j - 1 \in 0..M /\ j \in 0..M
        /\ j - 1 \in 0..m /\ j \in 0..m
    BY <1>4
  <2>2. Good(data[j]) /\ IsSeq(data[j]) /\ IsSeq(c(j)) /\ l \in Nat
    <3>1. Good(data[j]) BY <2>1 DEF m
    <3> QED BY <3>1, CsvIsSeq DEF Good
  <2>3. /\ a \in Nat /\ bar[j] = a + l + 1 /\ \A x \in 1..l : text[a + x] = c(j)[x]
    BY <1>2, <1>4, <2>1 DEF TextAt, m
  <2>4. e[j - 1] = a /\ e[j] = bar[j] BY <2>1
  <2>5. bar[j] <= bar[M - 1]
    <3>1. \A i \in 1..m : bar[i - 1] <= bar[i]
      <4> TAKE i \in 1..m
      <4> DEFINE b == bar[i - 1]
                 d == Len(c(i))
      <4>1. i - 1 \in 0..m /\ Good(data[i]) BY <1>4 DEF m
      <4>2. b \in Nat /\ d \in Nat /\ bar[i] = b + d + 1
        BY <1>2, <1>4, <4>1, CsvIsSeq DEF TextAt, Good, m
      <4> HIDE DEF b, d
      <4>3. b <= bar[i] BY <4>2
      <4> QED BY <4>3 DEF b
    <3>2. \A x \in 0..m : \A y \in 0..m : x <= y => bar[x] <= bar[y] BY <1>4, <3>1, Grows
    <3>3. j <= M - 1 BY <1>4
    <3> QED BY <1>4, <2>1, <3>2, <3>3
  <2>6. cell(j) = Unquoted(SubSeq(t, a + 1, a + l))
    <3>1. e[j] - 1 = a + l
      <4> HIDE DEF a, l, e
      <4> QED BY <2>2, <2>3, <2>4
    <3>2. cell(j) = Unquoted(SubSeq(t, e[j - 1] + 1, e[j] - 1)) BY <1>8, <2>1
    <3> HIDE DEF e
    <3> QED BY <2>4, <3>1, <3>2
  <2>7. SubSeq(t, a + 1, a + l) = SubSeq(c(j), 1, l)
    <3> HIDE DEF a
    <3>1. a + l <= n
      <4>1. bar[M - 1] \in Nat /\ bar[j] <= n BY <1>3, <1>4, <2>1, <2>5
      <4> HIDE DEF l
      <4> QED BY <1>4, <2>2, <2>3, <4>1, SMTT(30)
    <3>2. \A x \in 1..l : t[a + x] = c(j)[x]
      <4> TAKE x \in 1..l
      <4>1. a + x \in 1..n
        <5> HIDE DEF l
        <5> QED BY <1>4, <2>2, <2>3, <3>1
      <4> QED BY <1>5, <2>3, <4>1
    <3>3. l \in 0..Len(c(j)) BY <2>2
    <3> HIDE DEF l, c
    <3> QED BY <1>5, <2>2, <2>3, <3>1, <3>2, <3>3, PartIs
  <2>8. Said(c(j), data[j], l)
    <3>1. bar[j] - 1 \in 0..Len(text) /\ a <= bar[j] - 1 /\ bar[j] - 1 < bar[j] /\ (bar[j] - 1) - a = l
      <4>1. bar[M - 1] \in Nat BY <1>4
      <4> HIDE DEF a, l
      <4> QED BY <1>3, <1>4, <2>2, <2>3, <2>5, <4>1, SMTT(30)
    <3> DEFINE x == bar[j] - 1
    <3>2. x \in 0..Len(text) /\ a <= x /\ x < bar[j] /\ x - a = l BY <3>1
    <3>3. j \in 1..Len(data) BY <2>1 DEF m
    <3> HIDE DEF x
    <3>4. /\ Quoting(text)[x] # "quoted" => Said(c(j), data[j], x - a)
          /\ x - a = Len(c(j)) => Quoting(text)[x] # "quoted"
      BY <1>2, <3>2, <3>3, StateAt
    <3> QED BY <3>2, <3>4
  <2>9. PICK i \in 0..Len(data[j]) : Unquoted(SubSeq(c(j), 1, l)) = SubSeq(data[j], 1, i)
                                     /\ (l = Len(c(j)) => i = Len(data[j]))
    BY <2>8 DEF Said
  <2>10. SubSeq(data[j], 1, i) = data[j] BY <2>2, <2>9, WholeBegin
  <2> QED BY <2>6, <2>7, <2>9, <2>10
<1>10. \E i \in 0..Len(data[M]) :
          cell(M) = SubSeq(data[M], 1, i) /\ (n = Len(text) => M = m /\ i = Len(data[M]))
  <2> DEFINE a == bar[M - 1]
             d == c(M)
  <2>1. M \in 1..Len(data) /\ Good(data[M]) /\ IsSeq(d) /\ Len(d) \in Nat
    <3>1. M \in 1..Len(data) /\ Good(data[M]) BY DEF m
    <3> QED BY <3>1, CsvIsSeq DEF Good
  <2>2. /\ k \in 0..Len(d) /\ n = a + k /\ a \in Nat
        /\ Quoting(text)[n] # "quoted" => Said(d, data[M], k)
    <3>1. n \in 0..Len(text) /\ a <= n /\ n < bar[M] BY <1>3, <1>4
    <3> QED BY <1>2, <2>1, <3>1, StateAt
  <2>3. Said(d, data[M], k)
    <3>1. Quoting(t)[n] # "quoted" BY <1>5 DEF validate_report_quoting
    <3>2. n \in 0..Len(text) /\ n \in 0..n /\ t = SubSeq(text, 1, n) BY <1>4 DEF text
    <3>3. Quoting(t)[n] = Quoting(text)[n] BY <1>4, <3>2, QuotingBegins
    <3> QED BY <2>2, <3>1, <3>3
  <2>4. PICK i \in 0..Len(data[M]) : Unquoted(SubSeq(d, 1, k)) = SubSeq(data[M], 1, i)
                                     /\ (k = Len(d) => i = Len(data[M]))
    BY <2>3 DEF Said
  <2>5. cell(M) = Unquoted(SubSeq(t, a + 1, n))
    <3>1. M \in 1..M /\ M - 1 \in 0..M /\ M \in 0..M /\ M - 1 # M BY <1>4
    <3>2. e[M - 1] = a /\ e[M] = n + 1 BY <3>1
    <3>3. cell(M) = Unquoted(SubSeq(t, e[M - 1] + 1, e[M] - 1)) BY <1>8, <3>1
    <3> HIDE DEF e, a
    <3>4. e[M] - 1 = n BY <1>4, <3>2
    <3> QED BY <3>2, <3>3, <3>4
  <2>6. SubSeq(t, a + 1, n) = SubSeq(d, 1, k)
    <3>1. \A x \in 1..Len(d) : text[a + x] = d[x] BY <1>2, <2>1 DEF TextAt
    <3> HIDE DEF a, d, k
    <3>2. \A x \in 1..k : t[a + x] = d[x]
      <4> TAKE x \in 1..k
      <4>1. a + x \in 1..n /\ x \in 1..Len(d) BY <1>4, <2>1, <2>2
      <4> QED BY <1>5, <3>1, <4>1
    <3>3. a + k <= Len(t) BY <1>4, <1>5, <2>2
    <3>4. SubSeq(t, a + 1, a + k) = SubSeq(d, 1, k) BY <1>5, <2>1, <2>2, <3>2, <3>3, PartIs
    <3> QED BY <2>2, <3>4
  <2>7. ASSUME n = Len(text) PROVE M = m /\ k = Len(d)
    <3>1. M = m
      <4> SUFFICES ASSUME M # m PROVE FALSE OBVIOUS
      <4>1. M + 1 \in 1..m BY <1>4
      <4>2. \A z \in 1..m : bar[z - 1] <= bar[z] /\ (z = m => bar[z - 1] < bar[z])
        <5> TAKE z \in 1..m
        <5> DEFINE b == bar[z - 1]
                   h == Len(c(z))
        <5>1. z - 1 \in 0..m /\ Good(data[z]) BY <1>4 DEF m
        <5>2. b \in Nat /\ h \in Nat /\ bar[z] = b + h + 1
          BY <1>2, <1>4, <5>1, CsvIsSeq DEF TextAt, Good, m
        <5> HIDE DEF b, h
        <5>3. b <= bar[z] /\ b < bar[z] BY <5>2
        <5> QED BY <5>3 DEF b
      <4>3. \A x \in 0..m : \A y \in 0..m : x <= y => bar[x] <= bar[y] BY <1>4, <4>2, Grows
      <4>4. m - 1 \in 0..m /\ m \in 1..m /\ M <= m - 1 BY <1>4, <4>1
      <4>5. bar[M] <= bar[m - 1] /\ bar[m - 1] < bar[m] BY <1>4, <4>2, <4>3, <4>4
      <4>6. bar[M] \in Nat /\ bar[m - 1] \in Nat /\ bar[m] \in Nat BY <1>4, <4>4
      <4> QED BY <1>3, <1>4, <2>7, <4>5, <4>6
    <3>2. bar[M] = a + Len(d) + 1 BY <1>2, <2>1 DEF TextAt
    <3> HIDE DEF a, d, k
    <3>3. k = Len(d) BY <1>4, <2>1, <2>2, <2>7, <3>1, <3>2
    <3> QED BY <3>1, <3>3
  <2>8. cell(M) = SubSeq(data[M], 1, i) /\ (n = Len(text) => M = m /\ i = Len(data[M]))
    BY <2>4, <2>5, <2>6, <2>7
  <2> QED BY <2>8
<1>11. PICK i \in 0..Len(data[M]) :
          cell(M) = SubSeq(data[M], 1, i) /\ (n = Len(text) => M = m /\ i = Len(data[M]))
  BY <1>10
<1>12. CutRecord(csv_record(t), data, M, i)
  <2> DEFINE r == csv_record(t)
  <2>1. DOMAIN r = 1..M /\ r = [j \in 1..M |-> r[j]] /\ \A j \in 1..M : r[j] = cell(j) BY <1>7
  <2> HIDE DEF r
  <2>2. \A j \in 1..(M - 1) : r[j] = data[j] BY <1>4, <1>9, <2>1, SMTT(30)
  <2>3. r[M] = SubSeq(data[M], 1, i) BY <1>4, <1>11, <2>1, SMTT(30)
  <2>4. CutRecord(r, data, M, i) BY <2>1, <2>2, <2>3, Zenon DEF CutRecord
  <2> QED BY <2>4 DEF r
<1>13. n = Len(encode_report(data)) => M = Len(data) /\ i = Len(data[M]) BY <1>11 DEF text, m
<1>14. M \in 1..Len(data) BY DEF m
<1> QED BY <1>12, <1>13, <1>14 DEF RecordCut

LEMMA WholeValid ==
    ASSUME NEW data, IsSeq(data), Len(data) # 0, \A j \in 1..Len(data) : Good(data[j])
    PROVE  LET text == encode_report(data)
           IN  /\ IsSeq(text) /\ \A x \in 0..Len(text) : Quoting(text)[x] # "malformed"
               /\ Quoting(text)[Len(text)] # "quoted"
<1> DEFINE text == encode_report(data)
           m == Len(data)
<1>1. \A j \in 1..Len(data) : IsSeq(data[j]) BY DEF Good
<1>2. PICK bar : TextAt(text, data, bar) BY <1>1, TextParts
<1> HIDE DEF text
<1>3. IsSeq(text) /\ Len(text) \in Nat BY <1>2, SeqFacts DEF TextAt
<1>4. ASSUME NEW x \in 0..Len(text) PROVE Quoting(text)[x] # "malformed"
  <2>1. PICK j \in 1..Len(data) : bar[j - 1] <= x /\ x < bar[j] BY <1>1, <1>2, Located
  <2> QED BY <1>2, <2>1, StateAt
<1>5. Quoting(text)[Len(text)] # "quoted"
  <2> DEFINE x == Len(text)
             a == bar[m - 1]
             l == Len(csv_field(data[m]))
  <2>1. m \in 1..Len(data) /\ m - 1 \in 0..m /\ m \in 0..m BY SeqFacts
  <2>2. Good(data[m]) BY <2>1
  <2>3. a \in Nat /\ l \in Nat /\ bar[m] = a + l + 1 /\ x + 1 = bar[m] /\ x \in 0..Len(text)
    <3>1. l \in Nat BY <2>2, CsvIsSeq DEF Good
    <3>2. a \in Nat /\ bar[m] = a + l + 1 /\ x + 1 = bar[m] BY <1>2, <2>1 DEF TextAt
    <3>3. x \in 0..Len(text) BY <1>3
    <3> QED BY <3>1, <3>2, <3>3
  <2>4. bar[m - 1] <= x /\ x < bar[m] /\ x - bar[m - 1] = l
    <3> DEFINE b == bar[m]
    <3>1. a \in Nat /\ l \in Nat /\ b = a + l + 1 /\ x + 1 = b /\ x \in Nat BY <1>3, <2>3
    <3> HIDE DEF x, a, l, b
    <3>2. a <= x /\ x < b /\ x - a = l BY <3>1
    <3> QED BY <3>2 DEF a, b
  <2> HIDE DEF x
  <2>5. x - bar[m - 1] = Len(csv_field(data[m])) => Quoting(text)[x] # "quoted"
    <3>1. x \in 0..Len(text) BY <2>3
    <3> HIDE DEF m
    <3> QED BY <1>2, <2>1, <2>4, <3>1, StateAt
  <2> QED BY <2>4, <2>5 DEF x
<1> QED BY <1>3, <1>4, <1>5 DEF text

-----------------------------------------------------------------------------
(* key=value, whole or cut. *)

LEMMA FieldIs ==
    ASSUME NEW key, IsSeq(key), NEW value, IsSeq(value)
    PROVE  /\ IsSeq(Field(key, value)) /\ Len(Field(key, value)) = Len(key) + 1 + Len(value)
           /\ \A x \in 1..Len(key) : Field(key, value)[x] = key[x]
           /\ Field(key, value)[Len(key) + 1] = "="
           /\ \A x \in 1..Len(value) : Field(key, value)[Len(key) + 1 + x] = value[x]
<1>1. PICK S : key \in Seq(S) BY DEF IsSeq
<1>2. PICK T : value \in Seq(T) BY DEF IsSeq
<1> DEFINE U == S \cup T \cup {"="}
           eq == <<"=">>
           a == key \o eq
<1>3. key \in Seq(U) /\ value \in Seq(U) BY <1>1, <1>2
<1>4. eq \in Seq(U) /\ Len(eq) = 1 /\ eq[1] = "="
  <2>1. "=" \in U OBVIOUS
  <2> HIDE DEF U
  <2> QED BY <2>1
<1> HIDE DEF U, eq
<1>5. /\ a \in Seq(U) /\ Len(a) = Len(key) + 1 /\ a[Len(key) + 1] = "="
      /\ \A x \in 1..Len(key) : a[x] = key[x]
  <2>1. a \in Seq(U) BY <1>3, <1>4
  <2>2. IsSeq(eq) BY <1>4 DEF IsSeq
  <2>3. /\ Len(a) = Len(key) + Len(eq)
        /\ \A x \in 1..Len(key) : a[x] = key[x]
        /\ \A x \in 1..Len(eq) : a[Len(key) + x] = eq[x]
    BY <2>2, ConcatFacts
  <2>4. 1 \in 1..Len(eq) BY <1>4
  <2> HIDE DEF a
  <2>5. a[Len(key) + 1] = eq[1] BY <2>3, <2>4
  <2> QED BY <1>4, <2>1, <2>3, <2>5
<1> DEFINE f == a \o value
<1>6. Field(key, value) = f BY DEF Field, eq
<1> HIDE DEF a
<1>7. f \in Seq(U) BY <1>3, <1>5
<1>8. Len(f) = Len(a) + Len(value) BY <1>3, <1>5, SMTT(30)
<1>9. \A x \in 1..Len(a) : f[x] = a[x] BY <1>3, <1>5
<1>10. \A x \in 1..Len(value) : f[Len(a) + x] = value[x] BY <1>3, <1>5
<1>11. Len(key) \in Nat /\ Len(value) \in Nat BY <1>3
<1> HIDE DEF f
<1>12. /\ Len(f) = Len(key) + 1 + Len(value)
       /\ \A x \in 1..Len(key) : f[x] = key[x]
       /\ f[Len(key) + 1] = "="
       /\ \A x \in 1..Len(value) : f[Len(key) + 1 + x] = value[x]
  <2>1. \A x \in 1..Len(key) : x \in 1..Len(a) BY <1>5, <1>11
  <2>2. Len(key) + 1 \in 1..Len(a) BY <1>5, <1>11
  <2> QED BY <1>5, <1>8, <1>9, <1>10, <2>1, <2>2
<1> QED BY <1>6, <1>7, <1>12 DEF IsSeq

(* A key that a field can be split from. *)
BareKey(key) == IsSeq(key) /\ \A x \in 1..Len(key) : key[x] # "="

LEMMA SplitShort ==
    ASSUME NEW f, IsSeq(f), \A x \in 1..Len(f) : f[x] # "="
    PROVE  split_once(f).key = <<>>
<1>1. DOMAIN f = 1..Len(f) BY SeqFacts
<1>2. Places(f, "=") = {} BY <1>1 DEF Places
<1>3. split_once(f) = SplitAt(f, 1) BY <1>2 DEF split_once, FirstOr
<1>4. SplitAt(f, 1).key = SubSeq(f, 1, 1 - 1) BY DEF SplitAt
<1>5. SubSeq(f, 1, 1 - 1) = <<>> BY NoLetters
<1> QED BY <1>3, <1>4, <1>5

LEMMA SplitLong ==
    ASSUME NEW f, IsSeq(f), NEW k \in Nat, k + 1 <= Len(f), f[k + 1] = "=",
           \A x \in 1..k : f[x] # "="
    PROVE  split_once(f) = [key |-> SubSeq(f, 1, k), value |-> SubSeq(f, (k + 1) + 1, Len(f))]
<1> DEFINE P == Places(f, "=")
           at == k + 1
<1>1. DOMAIN f = 1..Len(f) /\ Len(f) \in Nat BY SeqFacts
<1>2. at \in P /\ P \subseteq Nat /\ \A x \in P : at <= x BY <1>1 DEF Places
<1> HIDE DEF P
<1>3. Min(P) \in P /\ \A x \in P : Min(P) <= x BY <1>2, Least
<1>4. Min(P) = at
  <2> DEFINE y == Min(P)
  <2>1. y \in Nat /\ y <= at /\ at <= y BY <1>2, <1>3
  <2> HIDE DEF y
  <2>2. y = at BY <2>1
  <2> QED BY <2>2 DEF y
<1>5. split_once(f) = SplitAt(f, at) BY <1>2, <1>4 DEF split_once, FirstOr, P
<1>6. at - 1 = k OBVIOUS
<1> HIDE DEF at
<1>7. SplitAt(f, at) = [key |-> SubSeq(f, 1, k), value |-> SubSeq(f, at + 1, Len(f))]
  BY <1>6 DEF SplitAt
<1> QED BY <1>5, <1>7 DEF at

(* A field that is cut in its key has no key; cut in its value, it has the   *)
(* beginning of the value.                                                 *)
LEMMA SplitCut ==
    ASSUME NEW key, BareKey(key), NEW value, IsSeq(value), NEW i \in 0..Len(Field(key, value))
    PROVE  LET s == split_once(SubSeq(Field(key, value), 1, i))
           IN  \/ s.key = <<>> /\ i # Len(Field(key, value))
               \/ \E x \in 0..Len(value) :
                     /\ s = [key |-> key, value |-> SubSeq(value, 1, x)]
                     /\ i = Len(Field(key, value)) => x = Len(value)
<1> DEFINE f == Field(key, value)
           g == SubSeq(f, 1, i)
           k == Len(key)
           v == Len(value)
<1>1. IsSeq(key) BY DEF BareKey
<1>2. /\ IsSeq(f) /\ Len(f) = k + 1 + v /\ (\A x \in 1..k : f[x] = key[x] /\ key[x] # "=")
      /\ f[k + 1] = "=" /\ \A x \in 1..v : f[k + 1 + x] = value[x]
  <2>1. \A x \in 1..k : key[x] # "=" BY DEF BareKey
  <2>2. /\ IsSeq(f) /\ Len(f) = k + 1 + v /\ (\A x \in 1..k : f[x] = key[x])
        /\ f[k + 1] = "=" /\ \A x \in 1..v : f[k + 1 + x] = value[x]
    <3>1. IsSeq(f) BY <1>1, FieldIs
    <3>2. Len(f) = k + 1 + v BY <1>1, FieldIs
    <3>3. \A x \in 1..k : f[x] = key[x] BY <1>1, FieldIs
    <3>4. f[k + 1] = "=" BY <1>1, FieldIs
    <3>5. \A x \in 1..v : f[k + 1 + x] = value[x] BY <1>1, FieldIs
    <3> HIDE DEF f, k, v
    <3> QED BY <3>1, <3>2, <3>3, <3>4, <3>5
  <2> HIDE DEF f
  <2> QED BY <2>1, <2>2
<1>3. k \in Nat /\ v \in Nat BY <1>1, SeqFacts
<1> HIDE DEF f, k, v
<1>4. i \in Nat /\ i <= Len(f) BY <1>2, <1>3 DEF f
<1>5. IsSeq(g) /\ Len(g) = i /\ \A x \in 1..i : g[x] = f[x] BY <1>2, <1>4, BeginIs
<1> HIDE DEF g
<1>6. CASE i <= k
  <2>1. \A x \in 1..Len(g) : g[x] # "="
    <3> TAKE x \in 1..Len(g)
    <3>1. x \in 1..i /\ x \in 1..k BY <1>3, <1>4, <1>5, <1>6
    <3> QED BY <1>2, <1>5, <3>1
  <2>2. split_once(g).key = <<>> BY <1>5, <2>1, SplitShort
  <2>3. i # Len(f) BY <1>2, <1>3, <1>4, <1>6
  <2> QED BY <2>2, <2>3 DEF g, f
<1>7. CASE i > k
  <2> DEFINE x == i - k - 1
  <2>1. x \in 0..v /\ k + 1 <= Len(g) /\ k <= Len(f) /\ (i = Len(f) => x = v) /\ i = (k + 1) + x
    BY <1>2, <1>3, <1>4, <1>5, <1>7
  <2>2. g[k + 1] = "="
    <3>1. k + 1 \in 1..i BY <1>3, <1>4, <1>7
    <3> QED BY <1>2, <1>5, <3>1
  <2>3. \A y \in 1..k : g[y] # "="
    <3> TAKE y \in 1..k
    <3>1. y \in 1..i BY <1>3, <1>4, <1>7
    <3> QED BY <1>2, <1>5, <3>1
  <2>4. split_once(g) = [key |-> SubSeq(g, 1, k), value |-> SubSeq(g, (k + 1) + 1, Len(g))]
    BY <1>3, <1>5, <2>1, <2>2, <2>3, SplitLong
  <2>5. SubSeq(g, 1, k) = key
    <3> DEFINE h == SubSeq(g, 1, k)
    <3>1. k <= Len(g) BY <1>3, <1>4, <1>5, <1>7
    <3>2. IsSeq(h) /\ Len(h) = k /\ \A y \in 1..k : h[y] = g[y] BY <1>3, <1>5, <3>1, BeginIs
    <3> HIDE DEF h
    <3>3. \A y \in 1..k : h[y] = key[y]
      <4> TAKE y \in 1..k
      <4>1. y \in 1..i BY <1>3, <1>4, <1>7
      <4> QED BY <1>2, <1>5, <3>2, <4>1
    <3>4. Len(h) = Len(key) /\ \A y \in 1..Len(h) : h[y] = key[y] BY <3>2, <3>3 DEF k
    <3>5. h = key BY <1>1, <3>2, <3>4, SameSeq
    <3> QED BY <3>5 DEF h
  <2>6. SubSeq(g, (k + 1) + 1, Len(g)) = SubSeq(value, 1, x)
    <3> DEFINE a == k + 1
    <3>1. Len(g) = a + x /\ a \in Nat /\ x \in 0..Len(value) BY <1>3, <1>5, <2>1 DEF v
    <3>2. a + x <= Len(g) BY <1>4, <1>5, <3>1
    <3>3. \A y \in 1..x : g[a + y] = value[y]
      <4> TAKE y \in 1..x
      <4>1. y \in 1..v /\ a + y \in 1..i BY <1>3, <1>4, <2>1
      <4> QED BY <1>2, <1>5, <4>1
    <3> HIDE DEF a, x
    <3>4. SubSeq(g, a + 1, a + x) = SubSeq(value, 1, x) BY <1>5, <3>1, <3>2, <3>3, PartIs
    <3> QED BY <3>1, <3>4 DEF a
  <2>7. split_once(g) = [key |-> key, value |-> SubSeq(value, 1, x)] BY <2>4, <2>5, <2>6
  <2>8. x \in 0..Len(value) /\ (i = Len(f) => x = Len(value)) BY <2>1 DEF v
  <2> QED BY <2>7, <2>8 DEF g, f
<1>8. i <= k \/ i > k BY <1>3, <1>4
<1> QED BY <1>6, <1>7, <1>8, Zenon

-----------------------------------------------------------------------------
(* The fields of a text that is cut. *)

OkPair(p) ==
    /\ p = [key |-> p.key, value |-> p.value]
    /\ BareKey(p.key) /\ p.key # <<>> /\ IsSeq(p.value)

(* The texts of the fields of a list of pairs. *)
Listed(data, pairs) ==
    /\ IsSeq(data) /\ IsSeq(pairs) /\ Len(data) = Len(pairs)
    /\ \A j \in 1..Len(pairs) : OkPair(pairs[j]) /\ data[j] = Field(pairs[j].key, pairs[j].value)

(* Of M fields all but the last are whole; the last has no key, or the       *)
(* beginning of its value.                                                 *)
CutFields(F, pairs, M) ==
    /\ IsSeq(F) /\ Len(F) = M
    /\ \A j \in 1..(M - 1) : F[j] = pairs[j]
    /\ \/ F[M].key = <<>>
       \/ \E x \in 0..Len(pairs[M].value) :
             F[M] = [key |-> pairs[M].key, value |-> SubSeq(pairs[M].value, 1, x)]

LEMMA SplitWhole ==
    ASSUME NEW p, OkPair(p)
    PROVE  split_once(Field(p.key, p.value)) = p
<1> DEFINE f == Field(p.key, p.value)
           i == Len(f)
           s == split_once(SubSeq(f, 1, i))
<1>1. BareKey(p.key) /\ IsSeq(p.key) /\ IsSeq(p.value) BY DEF OkPair, BareKey
<1>2. IsSeq(f) BY <1>1, FieldIs
<1>3. i \in 0..Len(f) BY <1>2, SeqFacts
<1>4. \/ s.key = <<>> /\ i # Len(f)
      \/ \E x \in 0..Len(p.value) :
             /\ s = [key |-> p.key, value |-> SubSeq(p.value, 1, x)]
             /\ i = Len(f) => x = Len(p.value)
  BY <1>1, <1>3, SplitCut
<1>5. SubSeq(f, 1, i) = f BY <1>2, WholeBegin
<1>6. SubSeq(p.value, 1, Len(p.value)) = p.value BY <1>1, WholeBegin
<1>7. p = [key |-> p.key, value |-> p.value] BY DEF OkPair
<1>8. s = split_once(f) BY <1>5
<1> HIDE DEF s, f, i
<1>9. s = [key |-> p.key, value |-> p.value] BY <1>4, <1>6 DEF i
<1> QED BY <1>7, <1>8, <1>9 DEF f

FieldsCut(data, pairs, n, t) ==
    \E M \in 1..Len(pairs) : \E F :
       /\ FromRecord(csv_record(t)) = FromFields(F)
       /\ CutFields(F, pairs, M)
       /\ n = Len(encode_report(data)) => F = pairs

LEMMA FieldsOfCut ==
    ASSUME NEW data, NEW pairs, Listed(data, pairs), Len(data) # 0,
           \A j \in 1..Len(data) : Good(data[j]),
           NEW n \in 0..Len(encode_report(data)),
           NEW t, t = SubSeq(encode_report(data), 1, n), validate_report_quoting(t)
    PROVE  FieldsCut(data, pairs, n, t)
<1> DEFINE N == Len(pairs)
           r == csv_record(t)
           F == [j \in DOMAIN r |-> split_once(r[j])]
<1>1. /\ IsSeq(data) /\ IsSeq(pairs) /\ Len(data) = N /\ N \in Nat
      /\ \A j \in 1..N : OkPair(pairs[j]) /\ data[j] = Field(pairs[j].key, pairs[j].value)
  BY SeqFacts DEF Listed
<1>a. PICK M \in 1..N : \E i \in 0..Len(data[M]) :
              /\ CutRecord(r, data, M, i)
              /\ n = Len(encode_report(data)) => M = Len(data) /\ i = Len(data[M])
  <2>1. \E m \in 1..Len(data) : \E i \in 0..Len(data[m]) :
              /\ CutRecord(r, data, m, i)
              /\ n = Len(encode_report(data)) => m = Len(data) /\ i = Len(data[m])
    <3>1. RecordCut(t, data, n) BY <1>1, RecordOfCut
    <3> QED BY <3>1 DEF RecordCut
  <2> HIDE DEF r
  <2> QED BY <1>1, <2>1
<1>2. PICK i \in 0..Len(data[M]) :
              /\ CutRecord(r, data, M, i)
              /\ n = Len(encode_report(data)) => M = Len(data) /\ i = Len(data[M])
  BY <1>a
<1>3. FromRecord(r) = FromFields(F) BY DEF FromRecord
<1>4. /\ DOMAIN r = 1..M /\ (\A j \in 1..(M - 1) : r[j] = data[j])
      /\ r[M] = SubSeq(data[M], 1, i) /\ M \in Nat /\ M # 0
  BY <1>1, <1>2 DEF CutRecord
<1> HIDE DEF N, r
<1>5. DOMAIN F = 1..M /\ F = [j \in 1..M |-> F[j]] /\ \A j \in 1..M : F[j] = split_once(r[j])
  BY <1>4
<1> HIDE DEF F
<1>6. IsSeq(F) /\ Len(F) = M BY <1>4, <1>5, SeqByDomain
<1>7. ASSUME NEW j \in 1..(M - 1) PROVE F[j] = pairs[j]
  <2>1. j \in 1..M /\ j \in 1..N BY <1>1, <1>4, <1>2
  <2>2. F[j] = split_once(Field(pairs[j].key, pairs[j].value)) BY <1>1, <1>4, <1>5, <2>1
  <2>3. OkPair(pairs[j]) BY <1>1, <2>1
  <2> QED BY <2>2, <2>3, SplitWhole
<1> DEFINE p == pairs[M]
           f == Field(p.key, p.value)
<1>8. OkPair(p) /\ data[M] = f BY <1>1, <1>2
<1>9. F[M] = split_once(SubSeq(f, 1, i)) /\ i \in 0..Len(f)
  <2>1. M \in 1..M BY <1>4
  <2> QED BY <1>2, <1>4, <1>5, <1>8, <2>1
<1>10. \/ F[M].key = <<>> /\ i # Len(f)
       \/ \E x \in 0..Len(p.value) :
             /\ F[M] = [key |-> p.key, value |-> SubSeq(p.value, 1, x)]
             /\ i = Len(f) => x = Len(p.value)
  <2>1. BareKey(p.key) /\ IsSeq(p.value) BY <1>8 DEF OkPair
  <2> DEFINE s == split_once(SubSeq(f, 1, i))
  <2>2. \/ s.key = <<>> /\ i # Len(f)
        \/ \E x \in 0..Len(p.value) :
             /\ s = [key |-> p.key, value |-> SubSeq(p.value, 1, x)]
             /\ i = Len(f) => x = Len(p.value)
    BY <1>9, <2>1, SplitCut
  <2>3. F[M] = s BY <1>9
  <2> HIDE DEF s, f, p
  <2> QED BY <2>2, <2>3
<1>11. CutFields(F, pairs, M)
  <2>1. \/ F[M].key = <<>>
        \/ \E x \in 0..Len(p.value) : F[M] = [key |-> p.key, value |-> SubSeq(p.value, 1, x)]
    BY <1>10
  <2> QED BY <1>6, <1>7, <2>1, Zenon DEF CutFields
<1>12. ASSUME n = Len(encode_report(data)) PROVE F = pairs
  <2>1. M = N /\ i = Len(f) BY <1>1, <1>2, <1>8, <1>12
  <2>2. F[M] = split_once(f)
    <3>1. IsSeq(f)
      <4>1. IsSeq(p.key) /\ IsSeq(p.value) BY <1>8 DEF OkPair, BareKey
      <4> QED BY <4>1, FieldIs
    <3>2. SubSeq(f, 1, i) = f BY <2>1, <3>1, WholeBegin
    <3> QED BY <1>9, <3>2
  <2>3. F[M] = pairs[M] BY <1>8, <2>2, SplitWhole
  <2>4. \A j \in 1..M : j \in 1..(M - 1) \/ j = M BY <1>4
  <2>5. \A j \in 1..Len(F) : F[j] = pairs[j] BY <1>6, <1>7, <2>3, <2>4
  <2>6. Len(F) = Len(pairs) BY <1>6, <2>1 DEF N
  <2> QED BY <1>1, <1>6, <2>5, <2>6, SameSeq
<1> QED BY <1>2, <1>3, <1>11, <1>12 DEF N, r, FieldsCut

-----------------------------------------------------------------------------
(* A line end that from_str strips was cut within quotes: what is left is no *)
(* report.                                                                 *)

LEMMA LastIs ==
    ASSUME NEW t, IsSeq(t), Len(t) # 0
    PROVE  /\ t # <<>> /\ Last(t) = t[Len(t)] /\ Front(t) = SubSeq(t, 1, Len(t) - 1)
<1>1. PICK S : t \in Seq(S) BY DEF IsSeq
<1> QED BY <1>1 DEF Last, Front

LEMMA QuotedIsMalformed ==
    ASSUME NEW t, IsSeq(t), NEW k \in 0..Len(t), Quoting(t)[k] = "quoted"
    PROVE  FromText(SubSeq(t, 1, k)) = Malformed
<1> DEFINE s == SubSeq(t, 1, k)
<1>1. Len(t) \in Nat /\ k \in Nat /\ k <= Len(t) BY SeqFacts
<1>2. Len(s) = k BY <1>1, BeginIs
<1>3. \A i \in 0..k : Quoting(s)[i] = Quoting(t)[i] BY QuotingBegins
<1> HIDE DEF s
<1>4. Quoting(s)[Len(s)] = "quoted" BY <1>1, <1>2, <1>3
<1>5. ~validate_report_quoting(s) BY <1>4 DEF validate_report_quoting
<1>6. FromText(s) = Malformed BY <1>5 DEF FromText
<1> QED BY <1>6 DEF s

LEMMA StrippedIsMalformed ==
    ASSUME NEW t, IsSeq(t), Len(t) # 0, Last(t) = "\n",
           \A x \in 0..Len(t) : Quoting(t)[x] # "malformed"
    PROVE  from_str(t) = Malformed
<1> DEFINE n == Len(t)
           q == Quoting(t)
<1>1. n \in Nat /\ n # 0 BY SeqFacts
<1>2. t # <<>> /\ Last(t) = t[n] /\ Front(t) = SubSeq(t, 1, n - 1) BY LastIs
<1>3. q[0] = "start" /\ \A i \in 1..n : q[i] = After(q[i - 1], t[i]) BY QuotingRuns
<1>4. \A x \in 0..n : q[x] # "malformed" OBVIOUS
<1> HIDE DEF n, q
<1>5. q[n - 1] = "quoted"
  <2>1. n \in 1..n /\ n \in 0..n BY <1>1
  <2>2. After(q[n - 1], t[n]) # "malformed" BY <1>3, <1>4, <2>1
  <2> QED BY <1>2, <2>2, LineEnds
<1>6. n - 1 \in 0..n BY <1>1
<1>7. CASE n > 1 /\ t[n - 1] = "\r"
  <2>1. n - 1 \in 1..n /\ n - 2 \in 0..n /\ (n - 1) - 1 = n - 2 BY <1>1, <1>7
  <2>2. After(q[n - 2], t[n - 1]) # "malformed" BY <1>3, <1>4, <1>6, <2>1
  <2>3. q[n - 2] = "quoted" BY <1>7, <2>2, LineEnds
  <2>4. FromText(SubSeq(t, 1, n - 2)) = Malformed BY <2>1, <2>3, QuotedIsMalformed DEF n, q
  <2>5. Stripped(t) = SubSeq(t, 1, n - 2) BY <1>2, <1>7 DEF Stripped, n
  <2> QED BY <2>4, <2>5 DEF from_str
<1>8. CASE ~(n > 1 /\ t[n - 1] = "\r")
  <2>1. FromText(SubSeq(t, 1, n - 1)) = Malformed BY <1>5, <1>6, QuotedIsMalformed DEF n, q
  <2>2. Stripped(t) = Front(t) BY <1>2, <1>8 DEF Stripped, n
  <2> QED BY <1>2, <2>1, <2>2 DEF from_str
<1> QED BY <1>7, <1>8

LEMMA MalformedIsNot == Malformed.ok = FALSE
BY DEF Malformed

(* What is read of a cut text, if anything is. *)
LEMMA ReadCut ==
    ASSUME NEW data, IsSeq(data), Len(data) # 0, \A j \in 1..Len(data) : Good(data[j]),
           NEW n \in 0..Len(encode_report(data)),
           NEW t, t = SubSeq(encode_report(data), 1, n), from_str(t).ok
    PROVE  validate_report_quoting(t) /\ from_str(t) = FromRecord(csv_record(t))
<1> DEFINE text == encode_report(data)
<1>1. IsSeq(text) /\ \A x \in 0..Len(text) : Quoting(text)[x] # "malformed" BY WholeValid
<1> HIDE DEF text
<1>2. Len(text) \in Nat /\ n \in 0..Len(text) /\ t = SubSeq(text, 1, n) BY <1>1, SeqFacts DEF text
<1>3. IsSeq(t) /\ Len(t) = n
  <2>1. n \in Nat /\ n <= Len(text) BY <1>2
  <2> QED BY <1>1, <1>2, <2>1, BeginIs
<1>4. \A x \in 0..n : Quoting(t)[x] = Quoting(text)[x] BY <1>1, <1>2, QuotingBegins
<1>5. \A x \in 0..Len(t) : Quoting(t)[x] # "malformed"
  <2> TAKE x \in 0..Len(t)
  <2>1. x \in 0..n /\ x \in 0..Len(text) BY <1>2, <1>3
  <2> QED BY <1>1, <1>4, <2>1
<1>6. t = <<>> \/ Last(t) # "\n"
  <2> SUFFICES ASSUME t # <<>>, Last(t) = "\n" PROVE FALSE OBVIOUS
  <2>1. Len(t) # 0
    <3>1. PICK S : t \in Seq(S) BY <1>3 DEF IsSeq
    <3> QED BY <3>1
  <2>2. from_str(t) = Malformed BY <1>3, <1>5, <2>1, StrippedIsMalformed
  <2> QED BY <2>2, MalformedIsNot
<1>7. from_str(t) = FromText(t) BY <1>6 DEF from_str, Stripped
<1>8. ~(t = <<>> \/ ~validate_report_quoting(t))
  <2> SUFFICES ASSUME t = <<>> \/ ~validate_report_quoting(t) PROVE FALSE OBVIOUS
  <2>1. FromText(t) = Malformed BY DEF FromText
  <2> QED BY <1>7, <2>1, MalformedIsNot
<1> QED BY <1>7, <1>8 DEF FromText

LEMMA ReadWhole ==
    ASSUME NEW data, IsSeq(data), Len(data) # 0, \A j \in 1..Len(data) : Good(data[j]),
           encode_report(data) # <<>>
    PROVE  LET text == encode_report(data)
           IN  validate_report_quoting(text) /\ from_str(text) = FromRecord(csv_record(text))
<1> DEFINE text == encode_report(data)
<1>1. /\ IsSeq(text) /\ \A x \in 0..Len(text) : Quoting(text)[x] # "malformed"
      /\ Quoting(text)[Len(text)] # "quoted"
  BY WholeValid
<1> HIDE DEF text
<1>2. text # <<>> BY DEF text
<1>3. Len(text) \in Nat /\ Len(text) # 0
  <2>1. PICK S : text \in Seq(S) BY <1>1 DEF IsSeq
  <2> QED BY <1>2, <2>1
<1>4. validate_report_quoting(text)
  <2>1. Len(text) \in 0..Len(text) BY <1>3
  <2>2. Quoting(text)[Len(text)] # "malformed" BY <1>1, <2>1
  <2> QED BY <1>1, <2>2 DEF validate_report_quoting
<1>5. Last(text) # "\n"
  <2> SUFFICES ASSUME Last(text) = "\n" PROVE FALSE OBVIOUS
  <2> DEFINE n == Len(text)
  <2>1. n \in 1..n /\ n \in 0..n BY <1>3
  <2>2. Quoting(text)[n] = After(Quoting(text)[n - 1], text[n]) BY <1>1, <2>1, QuotingRuns
  <2>3. text[n] = "\n" BY <1>1, <1>3, LastIs
  <2>4. After(Quoting(text)[n - 1], text[n]) # "malformed" BY <1>1, <2>1, <2>2
  <2>5. After(Quoting(text)[n - 1], text[n]) = "quoted" BY <2>3, <2>4, LineEnds
  <2> QED BY <1>1, <2>2, <2>5
<1>6. from_str(text) = FromText(text) BY <1>2, <1>5 DEF from_str, Stripped
<1>7. from_str(text) = FromRecord(csv_record(text)) BY <1>2, <1>4, <1>6 DEF FromText
<1> QED BY <1>4, <1>7 DEF text

LEMMA TextNotEmpty ==
    ASSUME NEW data, IsSeq(data), Len(data) # 0, \A j \in 1..Len(data) : IsSeq(data[j]),
           Len(data[1]) # 0
    PROVE  encode_report(data) # <<>>
<1> DEFINE text == encode_report(data)
           m == Len(data)
           c(j) == csv_field(data[j])
<1>1. PICK bar : TextAt(text, data, bar) BY TextParts
<1>2. m \in Nat /\ m # 0 /\ 1 \in 1..m BY SeqFacts
<1>3. Len(c(1)) \in Nat /\ Len(c(1)) # 0
  <2>1. IsSeq(data[1]) BY <1>2
  <2>2. Len(c(1)) \in Nat BY <2>1, CsvIsSeq
  <2>3. CASE c(1) = data[1] BY <2>2, <2>3
  <2>4. CASE \E at : QuotedAt(c(1), data[1], at)
    <3>1. PICK at : QuotedAt(c(1), data[1], at) BY <2>4
    <3> DEFINE x == at[Len(data[1])]
    <3>2. x \in Nat /\ Len(c(1)) = x + 2
      <4>1. Len(data[1]) \in 0..Len(data[1]) BY <2>1, SeqFacts
      <4> QED BY <3>1, <4>1 DEF QuotedAt
    <3> HIDE DEF x
    <3> QED BY <3>2
  <2> QED BY <2>1, <2>3, <2>4, CsvField
<1> HIDE DEF text, c
<1>4. /\ bar \in [0..m -> Nat] /\ bar[0] = 0 /\ Len(text) + 1 = bar[m] /\ IsSeq(text)
      /\ \A j \in 1..m : bar[j] = bar[j - 1] + Len(c(j)) + 1
  BY <1>1 DEF TextAt, c
<1>5. bar[1] <= bar[m]
  <2>1. \A j \in 1..m : bar[j - 1] <= bar[j]
    <3> TAKE j \in 1..m
    <3> DEFINE a == bar[j - 1]
               l == Len(c(j))
    <3>1. j - 1 \in 0..m /\ IsSeq(data[j]) BY <1>2
    <3>2. a \in Nat /\ l \in Nat /\ bar[j] = a + l + 1 BY <1>4, <3>1, CsvIsSeq DEF c
    <3> HIDE DEF a, l
    <3>3. a <= bar[j] BY <3>2
    <3> QED BY <3>3 DEF a
  <2> HIDE DEF m
  <2>2. \A i \in 0..m : \A j \in 0..m : i <= j => bar[i] <= bar[j] BY <1>2, <1>4, <2>1, Grows
  <2> QED BY <1>2, <2>2
<1>6. Len(text) # 0
  <2>1. bar[1] = bar[0] + Len(c(1)) + 1
    <3>1. bar[1] = bar[1 - 1] + Len(c(1)) + 1 BY <1>2, <1>4
    <3> QED BY <3>1
  <2>2. bar[m] \in Nat /\ bar[1] \in Nat BY <1>2, <1>4
  <2> HIDE DEF m
  <2> QED BY <1>3, <1>4, <1>5, <2>1, <2>2
<1>7. text # <<>> BY <1>6, EmptyIsSeq
<1> QED BY <1>7 DEF text

(* The letters of the fields are letters of the text. *)
LEMMA LettersInText ==
    ASSUME NEW data, IsSeq(data), Len(data) # 0, \A j \in 1..Len(data) : IsSeq(data[j]),
           "NUL" \notin ToSet(encode_report(data))
    PROVE  \A j \in 1..Len(data) : Good(data[j])
<1> DEFINE text == encode_report(data)
           m == Len(data)
<1>1. PICK bar : TextAt(text, data, bar) BY TextParts
<1> HIDE DEF text
<1>2. m \in Nat /\ IsSeq(text) /\ Len(text) \in Nat BY <1>1, SeqFacts DEF TextAt
<1>3. \A x \in 1..Len(text) : text[x] # "NUL"
  <2>1. DOMAIN text = 1..Len(text) BY <1>2, SeqFacts
  <2>2. "NUL" \notin ToSet(text) BY DEF text
  <2> QED BY <2>1, <2>2 DEF ToSet
<1>4. ASSUME NEW j \in 1..m, NEW i \in 1..Len(data[j]) PROVE data[j][i] # "NUL"
  <2> DEFINE field == data[j]
             c == csv_field(field)
             a == bar[j - 1]
  <2>1. IsSeq(field) /\ Len(field) \in Nat /\ IsSeq(c) /\ Len(c) \in Nat BY SeqFacts, CsvIsSeq
  <2>2. j - 1 \in 0..m /\ j \in 0..m BY <1>2
  <2>3. /\ a \in Nat /\ bar[j] = a + Len(c) + 1 /\ \A k \in 1..Len(c) : text[a + k] = c[k]
        /\ bar \in [0..m -> Nat] /\ Len(text) + 1 = bar[m]
    BY <1>1, <2>2 DEF TextAt
  <2>4. bar[j] <= bar[m]
    <3>1. \A y \in 1..m : bar[y - 1] <= bar[y]
      <4> TAKE y \in 1..m
      <4> DEFINE b == bar[y - 1]
                 l == Len(csv_field(data[y]))
      <4>1. y - 1 \in 0..m /\ IsSeq(data[y]) BY <1>2
      <4>2. b \in Nat /\ l \in Nat /\ bar[y] = b + l + 1 BY <1>1, <4>1, CsvIsSeq DEF TextAt
      <4> HIDE DEF b, l
      <4>3. b <= bar[y] BY <4>2
      <4> QED BY <4>3 DEF b
    <3> HIDE DEF m
    <3>2. \A y \in 0..m : \A z \in 0..m : y <= z => bar[y] <= bar[z] BY <1>2, <2>3, <3>1, Grows
    <3>3. m \in 0..m /\ j <= m BY <1>2
    <3> QED BY <2>2, <3>2, <3>3
  <2>5. \E k \in 1..Len(c) : c[k] = field[i]
    <3>1. CASE c = field BY <3>1
    <3>2. CASE \E at : QuotedAt(c, field, at)
      <4>1. PICK at : QuotedAt(c, field, at) BY <3>2
      <4> DEFINE x == at[i - 1]
                 y == at[Len(field)]
                 w == at[i]
      <4>2. i - 1 \in 0..Len(field) /\ i \in 0..Len(field) /\ Len(field) \in 0..Len(field) BY <2>1
      <4>3. /\ x \in Nat /\ y \in Nat /\ w \in Nat /\ Len(c) = y + 2 /\ c[x + 2] = field[i]
            /\ w = x + (IF field[i] = Quote THEN 2 ELSE 1) /\ w <= y
        BY <4>1, <4>2 DEF QuotedAt
      <4> HIDE DEF x, y, w, c
      <4>4. x + 2 \in 1..Len(c) BY <4>3
      <4> QED BY <4>3, <4>4
    <3> QED BY <2>1, <3>1, <3>2, CsvField
  <2>6. PICK k \in 1..Len(c) : c[k] = field[i] BY <2>5
  <2> HIDE DEF a, c, field
  <2>7. a + k \in 1..Len(text)
    <3>1. bar[j] \in Nat /\ bar[m] \in Nat
      <4>1. m \in 0..m BY <1>2
      <4> QED BY <2>2, <2>3, <4>1
    <3> HIDE DEF m
    <3> QED BY <1>2, <2>1, <2>3, <2>4, <3>1
  <2>8. text[a + k] = field[i] BY <2>3, <2>6
  <2> QED BY <1>3, <2>7, <2>8 DEF field
<1> QED BY <1>4 DEF Good

-----------------------------------------------------------------------------
(* From the fields to the report. *)

LEMMA OneIs == \A x, y : <<x>> = <<y>> <=> x = y
<1> TAKE x, y
<1>1. <<x>>[1] = x /\ <<y>>[1] = y OBVIOUS
<1> QED BY <1>1

(* The places a+1..b of a sequence, sliced. *)
LEMMA SliceBetween ==
    ASSUME NEW s, IsSeq(s), NEW a \in Nat, NEW b \in Nat, a <= b, b <= Len(s),
           NEW K, \A x \in 1..Len(s) : x \in K <=> a < x /\ x <= b
    PROVE  /\ IsSeq(Slice(s, K)) /\ Len(Slice(s, K)) = b - a
           /\ \A x \in 1..(b - a) : Slice(s, K)[x] = s[a + x]
<1> DEFINE w == Slice(s, K)
           n == Len(s)
           Of(x) == IF x <= a THEN 0 ELSE IF x <= b THEN x - a ELSE b - a
<1>1. PICK end : SlicedAt(w, s, K, end) BY Slices
<1> HIDE DEF w
<1>2. /\ IsSeq(w) /\ end \in [0..n -> Nat] /\ end[0] = 0 /\ Len(w) = end[n] /\ n \in Nat
      /\ \A x \in 1..n : IF x \in K THEN end[x] = end[x - 1] + 1 /\ w[end[x]] = s[x]
                         ELSE end[x] = end[x - 1]
  BY <1>1, SeqFacts DEF SlicedAt
<1> HIDE DEF n
<1>3. a <= n /\ b <= n BY DEF n
<1>4. \A x \in 1..n : x \in K <=> a < x /\ x <= b BY DEF n
<1> DEFINE S == {x \in Nat : end[x] = Of(x)}
<1>5. 0 \in S BY <1>2
<1>6. ASSUME NEW x \in 1..n, x - 1 \in S PROVE x \in S
  <2>1. end[x - 1] = Of(x - 1) BY <1>6
  <2>2. CASE x \in K
    <3>1. end[x] = end[x - 1] + 1 BY <1>2, <2>2
    <3>2. a < x /\ x <= b BY <1>4, <2>2
    <3> QED BY <1>2, <2>1, <3>1, <3>2
  <2>3. CASE x \notin K
    <3>1. end[x] = end[x - 1] BY <1>2, <2>3
    <3>2. ~(a < x /\ x <= b) BY <1>4, <2>3
    <3> QED BY <1>2, <2>1, <3>1, <3>2
  <2> QED BY <2>2, <2>3
<1>7. 0..n \subseteq S
  <2> HIDE DEF S
  <2> QED BY <1>2, <1>5, <1>6, UptoInduction
<1>8. Len(w) = b - a
  <2>1. n \in S BY <1>2, <1>7
  <2>2. end[n] = Of(n) BY <2>1
  <2> QED BY <1>2, <1>3, <2>2
<1>9. ASSUME NEW x \in 1..(b - a) PROVE w[x] = s[a + x]
  <2> DEFINE y == a + x
  <2>1. y \in 1..n /\ a < y /\ y <= b /\ y - a = x BY <1>2, <1>3
  <2>2. y \in S /\ y \in K BY <1>4, <1>7, <2>1
  <2>3. end[y] = Of(y) BY <2>2
  <2>4. end[y] = x BY <2>1, <2>3
  <2>5. w[end[y]] = s[y] BY <1>2, <2>1, <2>2
  <2> QED BY <2>4, <2>5
<1> QED BY <1>2, <1>8, <1>9 DEF w

Stretch(K, n, a, b) == \A x \in 1..n : x \in K <=> a < x /\ x <= b
Part(w, s, a, b) == IsSeq(w) /\ Len(w) = b - a /\ \A x \in 1..(b - a) : w[x] = s[a + x]

LEMMA SliceIsPart ==
    \A s, a, b, K :
       IsSeq(s) /\ a \in Nat /\ b \in Nat /\ a <= b /\ b <= Len(s) /\ Stretch(K, Len(s), a, b)
       => Part(Slice(s, K), s, a, b)
<1> TAKE s, a, b, K
<1> HAVE IsSeq(s) /\ a \in Nat /\ b \in Nat /\ a <= b /\ b <= Len(s) /\ Stretch(K, Len(s), a, b)
<1>1. \A x \in 1..Len(s) : x \in K <=> a < x /\ x <= b BY DEF Stretch
<1>2. IsSeq(Slice(s, K)) BY <1>1, SliceBetween
<1>3. Len(Slice(s, K)) = b - a BY <1>1, SliceBetween
<1>4. \A x \in 1..(b - a) : Slice(s, K)[x] = s[a + x] BY <1>1, SliceBetween
<1> QED BY <1>2, <1>3, <1>4 DEF Part

(* The field of a name that one place at most has. *)
LEMMA NamedIs ==
    ASSUME NEW F, IsSeq(F), NEW name, NEW p \in Nat \ {0},
           \A j \in 1..Len(F) : F[j].key = <<name>> <=> j = p
    PROVE  /\ p <= Len(F) => Named(F, name) = {p} /\ take_field(F, name) = <<F[p].value>>
           /\ p > Len(F) => Named(F, name) = {} /\ take_field(F, name) = <<>>
<1>1. DOMAIN F = 1..Len(F) /\ Len(F) \in Nat BY SeqFacts
<1>2. ASSUME p <= Len(F) PROVE Named(F, name) = {p} /\ take_field(F, name) = <<F[p].value>>
  <2>1. p \in 1..Len(F) BY <1>1, <1>2
  <2>2. Named(F, name) = {p} BY <1>1, <2>1 DEF Named
  <2>3. Min({p}) = p
    <3>1. Min({p}) \in {p} BY Least
    <3> QED BY <3>1
  <2> QED BY <2>2, <2>3 DEF take_field
<1>3. ASSUME p > Len(F) PROVE Named(F, name) = {} /\ take_field(F, name) = <<>>
  <2>1. p \notin 1..Len(F) BY <1>1, <1>3
  <2>2. Named(F, name) = {} BY <1>1, <2>1 DEF Named
  <2> QED BY <2>2 DEF take_field
<1> QED BY <1>2, <1>3

(* Each standard field has one place at most. *)
Placed(F, S, at) ==
    /\ IsSeq(F) /\ {"agent", "vm_id", "timestamp", "pps_type"} \subseteq S
    /\ \A name \in S : /\ at[name] \in Nat \ {0}
                       /\ \A j \in 1..Len(F) : F[j].key = <<name>> <=> j = at[name]

Own(F, S, at, name) == IF name \in S /\ at[name] <= Len(F) THEN <<F[at[name]].value>> ELSE <<>>
OthersIn(F, S) == {n \in DOMAIN F : ~\E name \in S : F[n].key = <<name>>}

Full(F, S, at, result) ==
    /\ \A j \in 1..Len(F) : F[j].key # <<>>
    /\ \A name \in S \ {"documentation_url"} : at[name] <= Len(F)
    /\ F[at["timestamp"]].value = <<Timestamp>>
    /\ \E t \in PpsTypes : F[at["pps_type"]].value = <<t>>
    /\ result \in {<<<<"success">>>>, <<<<"error">>>>}

ReportIn(F, S, at, result) ==
    [ok |-> TRUE,
     of |-> Report(result[1][1], F[at["agent"]].value, F[at["vm_id"]].value, <<Timestamp>>,
                   F[at["pps_type"]].value[1], Own(F, S, at, "reason"),
                   Own(F, S, at, "documentation_url"), Slice(F, OthersIn(F, S)))]

(* What makes Typed refuse the fields, and what it makes of them if not. *)
Refuses(F, S, result) ==
    \/ \E n \in DOMAIN F : F[n].key = <<>>
    \/ \E name \in S : Cardinality(Named(F, name)) > 1
    \/ \E name \in S \ {"documentation_url"} : Named(F, name) = {}
    \/ result \notin {<<<<"success">>>>, <<<<"error">>>>}
    \/ take_field(F, "timestamp") # <<<<Timestamp>>>>
    \/ take_field(F, "pps_type") \notin {<<<<t>>>> : t \in PpsTypes}
Accepted(F, S, result) ==
    [ok |-> TRUE,
     of |-> Report(result[1][1], take_field(F, "agent")[1], take_field(F, "vm_id")[1],
                   take_field(F, "timestamp")[1], take_field(F, "pps_type")[1][1],
                   (IF "reason" \in S THEN take_field(F, "reason") ELSE <<>>),
                   (IF "documentation_url" \in S THEN take_field(F, "documentation_url") ELSE <<>>),
                   Slice(F, OthersIn(F, S)))]

LEMMA TypedBy ==
    ASSUME NEW F, NEW S, NEW result
    PROVE  Typed(F, S, result) = IF Refuses(F, S, result) THEN Malformed ELSE Accepted(F, S, result)
BY Zenon DEF Typed, Refuses, Accepted, OthersIn

LEMMA TypedIs ==
    ASSUME NEW F, NEW S, NEW at, Placed(F, S, at), NEW result
    PROVE  Typed(F, S, result) =
              IF Full(F, S, at, result) THEN ReportIn(F, S, at, result) ELSE Malformed
<1>1. IsSeq(F) /\ DOMAIN F = 1..Len(F) /\ Len(F) \in Nat BY SeqFacts DEF Placed
<1>2. ASSUME NEW name \in S
      PROVE  /\ at[name] \in Nat \ {0}
             /\ at[name] <= Len(F) =>
                   Named(F, name) = {at[name]} /\ take_field(F, name) = <<F[at[name]].value>>
             /\ at[name] > Len(F) => Named(F, name) = {} /\ take_field(F, name) = <<>>
  <2> DEFINE p == at[name]
  <2>1. p \in Nat \ {0} /\ \A j \in 1..Len(F) : F[j].key = <<name>> <=> j = p BY DEF Placed
  <2> HIDE DEF p
  <2>2. /\ p <= Len(F) => Named(F, name) = {p} /\ take_field(F, name) = <<F[p].value>>
        /\ p > Len(F) => Named(F, name) = {} /\ take_field(F, name) = <<>>
    BY <1>1, <2>1, NamedIs
  <2> QED BY <2>1, <2>2 DEF p
<1>3. "agent" \in S /\ "vm_id" \in S /\ "timestamp" \in S /\ "pps_type" \in S BY DEF Placed
<1>4. ~Full(F, S, at, result) => Refuses(F, S, result)
  <2> SUFFICES ASSUME ~Refuses(F, S, result) PROVE Full(F, S, at, result) OBVIOUS
  <2>1. /\ \A n \in DOMAIN F : F[n].key # <<>>
        /\ \A name \in S \ {"documentation_url"} : Named(F, name) # {}
        /\ result \in {<<<<"success">>>>, <<<<"error">>>>}
        /\ take_field(F, "timestamp") = <<<<Timestamp>>>>
        /\ take_field(F, "pps_type") \in {<<<<t>>>> : t \in PpsTypes}
    BY Zenon DEF Refuses
  <2>2. \A name \in S \ {"documentation_url"} : at[name] <= Len(F)
    <3> TAKE name \in S \ {"documentation_url"}
    <3>1. name \in S /\ Named(F, name) # {} BY <2>1
    <3>2. ~(at[name] > Len(F)) /\ at[name] \in Nat BY <1>2, <3>1
    <3> QED BY <1>1, <3>2
  <2>3. at["timestamp"] <= Len(F) /\ at["pps_type"] <= Len(F) BY <1>3, <2>2
  <2>4. take_field(F, "timestamp") = <<F[at["timestamp"]].value>> BY <1>2, <1>3, <2>3
  <2>5. take_field(F, "pps_type") = <<F[at["pps_type"]].value>> BY <1>2, <1>3, <2>3
  <2>6. F[at["timestamp"]].value = <<Timestamp>> BY <2>1, <2>4, OneIs
  <2>7. PICK t \in PpsTypes : take_field(F, "pps_type") = <<<<t>>>> BY <2>1
  <2>8. F[at["pps_type"]].value = <<t>> BY <2>5, <2>7, OneIs
  <2>9. \A j \in 1..Len(F) : F[j].key # <<>> BY <1>1, <2>1
  <2> QED BY <2>1, <2>2, <2>6, <2>8, <2>9, Zenon DEF Full
<1>5. ASSUME Full(F, S, at, result)
      PROVE  ~Refuses(F, S, result) /\ Accepted(F, S, result) = ReportIn(F, S, at, result)
  <2>1. /\ \A j \in 1..Len(F) : F[j].key # <<>>
        /\ \A name \in S \ {"documentation_url"} : at[name] <= Len(F)
        /\ F[at["timestamp"]].value = <<Timestamp>>
        /\ \E t \in PpsTypes : F[at["pps_type"]].value = <<t>>
        /\ result \in {<<<<"success">>>>, <<<<"error">>>>}
    BY <1>5 DEF Full
  <2>2. ASSUME NEW name \in {"agent", "vm_id", "timestamp", "pps_type"}
        PROVE  take_field(F, name) = <<F[at[name]].value>>
    <3>1. name \in S /\ name \in S \ {"documentation_url"} BY <1>3
    <3> QED BY <1>2, <2>1, <3>1
  <2>3. ASSUME NEW name \in S
        PROVE  /\ ~(Cardinality(Named(F, name)) > 1)
               /\ name # "documentation_url" => Named(F, name) # {}
               /\ take_field(F, name) = Own(F, S, at, name)
    <3>1. at[name] \in Nat BY <1>2
    <3>2. CASE at[name] <= Len(F)
      <4>1. Named(F, name) = {at[name]} /\ take_field(F, name) = <<F[at[name]].value>> BY <1>2, <3>2
      <4>2. Cardinality({at[name]}) = 1 BY FS_Singleton
      <4>3. take_field(F, name) = Own(F, S, at, name) BY <3>2, <4>1 DEF Own
      <4> QED BY <4>1, <4>2, <4>3
    <3>3. CASE at[name] > Len(F)
      <4>1. Named(F, name) = {} /\ take_field(F, name) = <<>> BY <1>2, <3>3
      <4>2. Cardinality({}) = 0 BY FS_EmptySet
      <4>3. ~(at[name] <= Len(F)) BY <1>1, <3>1, <3>3
      <4>4. name = "documentation_url" BY <2>1, <4>3
      <4>5. take_field(F, name) = Own(F, S, at, name) BY <4>1, <4>3 DEF Own
      <4> QED BY <4>1, <4>2, <4>4, <4>5
    <3> QED BY <1>1, <3>1, <3>2, <3>3
  <2>4. ~Refuses(F, S, result)
    <3>1. take_field(F, "timestamp") = <<<<Timestamp>>>> BY <2>1, <2>2
    <3>2. take_field(F, "pps_type") \in {<<<<t>>>> : t \in PpsTypes} BY <2>1, <2>2
    <3>3. \A n \in DOMAIN F : F[n].key # <<>> BY <1>1, <2>1
    <3> QED BY <2>1, <2>3, <3>1, <3>2, <3>3, Zenon DEF Refuses
  <2>5. Accepted(F, S, result) = ReportIn(F, S, at, result)
    <3>1. /\ take_field(F, "agent")[1] = F[at["agent"]].value
          /\ take_field(F, "vm_id")[1] = F[at["vm_id"]].value
          /\ take_field(F, "timestamp")[1] = <<Timestamp>>
          /\ take_field(F, "pps_type")[1] = F[at["pps_type"]].value
      BY <2>1, <2>2
    <3>2. \A name : (IF name \in S THEN take_field(F, name) ELSE <<>>) = Own(F, S, at, name)
      BY <2>3 DEF Own
    <3>3. /\ (IF "reason" \in S THEN take_field(F, "reason") ELSE <<>>) = Own(F, S, at, "reason")
          /\ (IF "documentation_url" \in S THEN take_field(F, "documentation_url") ELSE <<>>)
                = Own(F, S, at, "documentation_url")
      BY <3>2
    <3> QED BY <3>1, <3>3, Zenon DEF Accepted, ReportIn
  <2> QED BY <2>4, <2>5
<1> QED BY <1>4, <1>5, TypedBy

-----------------------------------------------------------------------------
(* The fields of a report, one after the other. *)

Stated(name, value) == [key |-> <<name>>, value |-> value]
Links(url) == IF url = <<>> THEN <<>> ELSE <<Stated("documentation_url", url[1])>>
SuccessHead(agent, vm_id) ==
    <<Stated("result", <<"success">>), Stated("agent", agent), Stated("pps_type", <<"None">>),
      Stated("vm_id", vm_id), Stated("timestamp", <<Timestamp>>)>>
FailureHead(agent, reason) ==
    <<Stated("result", <<"error">>), Stated("reason", reason), Stated("agent", agent)>>
FailureEnd(vm_id) ==
    <<Stated("pps_type", <<"None">>), Stated("vm_id", vm_id), Stated("timestamp", <<Timestamp>>)>>
SuccessPairs(agent, vm_id, extra) == SuccessHead(agent, vm_id) \o extra
FailurePairs(agent, vm_id, reason, url, extra) ==
    ((FailureHead(agent, reason) \o extra) \o FailureEnd(vm_id)) \o Links(url)

LEMMA ThreeFacts ==
    ASSUME NEW a, NEW b, NEW c
    PROVE  LET t == <<a, b, c>>
           IN  IsSeq(t) /\ Len(t) = 3 /\ t[1] = a /\ t[2] = b /\ t[3] = c
<1>1. <<a, b, c>> \in Seq({a, b, c}) OBVIOUS
<1> QED BY <1>1 DEF IsSeq

LEMMA FiveFacts ==
    ASSUME NEW a, NEW b, NEW c, NEW d, NEW e
    PROVE  LET t == <<a, b, c, d, e>>
           IN  /\ IsSeq(t) /\ Len(t) = 5
               /\ t[1] = a /\ t[2] = b /\ t[3] = c /\ t[4] = d /\ t[5] = e
<1>1. <<a, b, c, d, e>> \in Seq({a, b, c, d, e}) OBVIOUS
<1> QED BY <1>1 DEF IsSeq

LEMMA SuccessPairsAre ==
    ASSUME NEW agent, NEW vm_id, NEW extra, IsSeq(extra), NEW P, P = SuccessPairs(agent, vm_id, extra)
    PROVE  /\ IsSeq(P) /\ Len(P) = 5 + Len(extra)
           /\ P[1] = Stated("result", <<"success">>) /\ P[2] = Stated("agent", agent)
           /\ P[3] = Stated("pps_type", <<"None">>) /\ P[4] = Stated("vm_id", vm_id)
           /\ P[5] = Stated("timestamp", <<Timestamp>>)
           /\ \A x \in 1..Len(extra) : P[5 + x] = extra[x]
<1> DEFINE H == SuccessHead(agent, vm_id)
<1>1. /\ IsSeq(H) /\ Len(H) = 5
      /\ H[1] = Stated("result", <<"success">>) /\ H[2] = Stated("agent", agent)
      /\ H[3] = Stated("pps_type", <<"None">>) /\ H[4] = Stated("vm_id", vm_id)
      /\ H[5] = Stated("timestamp", <<Timestamp>>)
  BY FiveFacts DEF SuccessHead
<1>2. P = H \o extra BY DEF SuccessPairs
<1> HIDE DEF H
<1>3. /\ IsSeq(P) /\ Len(P) = Len(H) + Len(extra)
      /\ (\A i \in 1..Len(H) : P[i] = H[i]) /\ (\A i \in 1..Len(extra) : P[Len(H) + i] = extra[i])
  <2>1. IsSeq(H) BY <1>1
  <2> QED BY <1>2, <2>1, ConcatIs
<1>4. \A i \in 1..5 : P[i] = H[i] BY <1>1, <1>3
<1>5. P[1] = H[1] /\ P[2] = H[2] /\ P[3] = H[3] /\ P[4] = H[4] /\ P[5] = H[5] BY <1>4
<1> QED BY <1>1, <1>3, <1>5

LEMMA FailurePairsAre ==
    ASSUME NEW agent, NEW vm_id, NEW reason, NEW url, NEW extra, IsSeq(extra),
           NEW P, P = FailurePairs(agent, vm_id, reason, url, extra)
    PROVE  /\ IsSeq(P) /\ Len(extra) \in Nat
           /\ Len(P) = Len(extra) + (IF url = <<>> THEN 6 ELSE 7)
           /\ P[1] = Stated("result", <<"error">>) /\ P[2] = Stated("reason", reason)
           /\ P[3] = Stated("agent", agent)
           /\ \A x \in 1..Len(extra) : P[3 + x] = extra[x]
           /\ P[Len(extra) + 4] = Stated("pps_type", <<"None">>)
           /\ P[Len(extra) + 5] = Stated("vm_id", vm_id)
           /\ P[Len(extra) + 6] = Stated("timestamp", <<Timestamp>>)
           /\ url # <<>> => P[Len(extra) + 7] = Stated("documentation_url", url[1])
<1> DEFINE H == FailureHead(agent, reason)
           A == H \o extra
           T == FailureEnd(vm_id)
           B == A \o T
           L == Links(url)
           E == Len(extra)
<1>1. /\ IsSeq(H) /\ Len(H) = 3
      /\ H[1] = Stated("result", <<"error">>) /\ H[2] = Stated("reason", reason)
      /\ H[3] = Stated("agent", agent)
  BY ThreeFacts DEF FailureHead
<1>2. /\ IsSeq(T) /\ Len(T) = 3
      /\ T[1] = Stated("pps_type", <<"None">>) /\ T[2] = Stated("vm_id", vm_id)
      /\ T[3] = Stated("timestamp", <<Timestamp>>)
  BY ThreeFacts DEF FailureEnd
<1>3. /\ IsSeq(L) /\ Len(L) = (IF url = <<>> THEN 0 ELSE 1)
      /\ url # <<>> => L[1] = Stated("documentation_url", url[1])
  <2>1. IsSeq(<<>>) /\ Len(<<>>) = 0 BY EmptyIsSeq
  <2> QED BY <2>1, OneFacts DEF Links
<1>4. P = B \o L BY DEF FailurePairs
<1>5. E \in Nat BY SeqFacts
<1> HIDE DEF H, T, L
<1>6. /\ IsSeq(A) /\ Len(A) = Len(H) + Len(extra)
      /\ (\A i \in 1..Len(H) : A[i] = H[i]) /\ (\A i \in 1..Len(extra) : A[Len(H) + i] = extra[i])
  <2>1. IsSeq(H) BY <1>1
  <2> QED BY <2>1, ConcatIs
<1> HIDE DEF A
<1>7. /\ IsSeq(B) /\ Len(B) = Len(A) + Len(T)
      /\ (\A i \in 1..Len(A) : B[i] = A[i]) /\ (\A i \in 1..Len(T) : B[Len(A) + i] = T[i])
  <2>1. IsSeq(A) /\ IsSeq(T) BY <1>2, <1>6
  <2> QED BY <2>1, ConcatIs
<1> HIDE DEF B
<1>8. /\ IsSeq(P) /\ Len(P) = Len(B) + Len(L)
      /\ (\A i \in 1..Len(B) : P[i] = B[i]) /\ (\A i \in 1..Len(L) : P[Len(B) + i] = L[i])
  <2> DEFINE Q == B \o L
  <2>1. IsSeq(B) /\ IsSeq(L) BY <1>3, <1>7
  <2>2. /\ IsSeq(Q) /\ Len(Q) = Len(B) + Len(L)
        /\ (\A i \in 1..Len(B) : Q[i] = B[i]) /\ (\A i \in 1..Len(L) : Q[Len(B) + i] = L[i])
    BY <2>1, ConcatIs
  <2>3. P = Q BY <1>4
  <2> HIDE DEF Q
  <2> QED BY <2>2, <2>3
<1> HIDE DEF E
<1>a. /\ Len(A) = 3 + E /\ Len(B) = 6 + E /\ (\A i \in 1..3 : A[i] = H[i])
      /\ (\A i \in 1..E : A[3 + i] = extra[i])
  BY <1>1, <1>2, <1>5, <1>6, <1>7 DEF E
<1>9. \A i \in 1..3 : P[i] = H[i]
  <2> TAKE i \in 1..3
  <2>1. i \in 1..Len(A) /\ i \in 1..Len(B) BY <1>5, <1>a
  <2> QED BY <1>7, <1>8, <1>a, <2>1
<1>10. \A x \in 1..E : P[3 + x] = extra[x]
  <2> TAKE x \in 1..E
  <2>1. 3 + x \in 1..Len(A) /\ 3 + x \in 1..Len(B) BY <1>5, <1>a
  <2> QED BY <1>7, <1>8, <1>a, <2>1
<1>11. \A i \in 1..3 : P[E + 3 + i] = T[i]
  <2> TAKE i \in 1..3
  <2>1. Len(A) + i \in 1..Len(B) /\ Len(A) + i = E + 3 + i BY <1>5, <1>a
  <2>2. i \in 1..Len(T) BY <1>2
  <2> QED BY <1>7, <1>8, <2>1, <2>2
<1>12. P[1] = H[1] /\ P[2] = H[2] /\ P[3] = H[3] BY <1>9
<1>13. P[E + 4] = T[1] /\ P[E + 5] = T[2] /\ P[E + 6] = T[3]
  <2>1. E + 3 + 1 = E + 4 /\ E + 3 + 2 = E + 5 /\ E + 3 + 3 = E + 6 BY <1>5
  <2> QED BY <1>11, <2>1
<1>14. Len(P) = E + (IF url = <<>> THEN 6 ELSE 7) BY <1>3, <1>5, <1>8, <1>a
<1>15. url # <<>> => P[E + 7] = L[1]
  <2> SUFFICES ASSUME url # <<>> PROVE P[E + 7] = L[1] OBVIOUS
  <2>1. 1 \in 1..Len(L) /\ Len(B) + 1 = E + 7 BY <1>3, <1>5, <1>a
  <2> QED BY <1>8, <2>1
<1>16. P[1] = Stated("result", <<"error">>) /\ P[2] = Stated("reason", reason)
       /\ P[3] = Stated("agent", agent)
  BY <1>1, <1>12
<1>17. /\ P[E + 4] = Stated("pps_type", <<"None">>) /\ P[E + 5] = Stated("vm_id", vm_id)
       /\ P[E + 6] = Stated("timestamp", <<Timestamp>>)
  BY <1>2, <1>13
<1>18. url # <<>> => P[E + 7] = Stated("documentation_url", url[1]) BY <1>3, <1>15
<1> QED BY <1>5, <1>8, <1>10, <1>14, <1>16, <1>17, <1>18 DEF E

(* Their texts: Extras is one field for each pair. *)
LEMMA ExtrasAre ==
    \A pairs : IsSeq(pairs) =>
       /\ IsSeq(Extras(pairs)) /\ Len(Extras(pairs)) = Len(pairs)
       /\ \A j \in 1..Len(pairs) : Extras(pairs)[j] = Field(pairs[j].key, pairs[j].value)
<1> TAKE pairs
<1> HAVE IsSeq(pairs)
<1> DEFINE X == Extras(pairs)
           n == Len(pairs)
<1>1. n \in Nat /\ DOMAIN pairs = 1..n BY SeqFacts
<1>2. X = [j \in 1..n |-> Field(pairs[j].key, pairs[j].value)] BY <1>1 DEF Extras
<1> HIDE DEF n, X
<1>3. DOMAIN X = 1..n /\ X = [j \in 1..n |-> X[j]]
      /\ \A j \in 1..n : X[j] = Field(pairs[j].key, pairs[j].value)
  BY <1>2
<1>4. IsSeq(X) /\ Len(X) = n BY <1>1, <1>3, SeqByDomain
<1> QED BY <1>3, <1>4 DEF n, X

LEMMA ExtrasJoin ==
    ASSUME NEW p, IsSeq(p), NEW q, IsSeq(q)
    PROVE  Extras(p \o q) = Extras(p) \o Extras(q)
<1> DEFINE w == p \o q
           X == Extras(w)
           P == Extras(p)
           Q == Extras(q)
           Y == P \o Q
           m == Len(p)
           n == Len(q)
<1>1. /\ IsSeq(w) /\ Len(w) = m + n /\ (\A i \in 1..m : w[i] = p[i])
      /\ \A i \in 1..n : w[m + i] = q[i]
  BY ConcatIs
<1>2. m \in Nat /\ n \in Nat BY SeqFacts
<1>3. IsSeq(P) /\ Len(P) = m /\ \A j \in 1..m : P[j] = Field(p[j].key, p[j].value) BY ExtrasAre
<1>4. IsSeq(Q) /\ Len(Q) = n /\ \A j \in 1..n : Q[j] = Field(q[j].key, q[j].value) BY ExtrasAre
<1> HIDE DEF w, P, Q
<1>5. IsSeq(X) /\ Len(X) = m + n /\ \A j \in 1..(m + n) : X[j] = Field(w[j].key, w[j].value)
  BY <1>1, ExtrasAre
<1>6. /\ IsSeq(Y) /\ Len(Y) = m + n /\ (\A i \in 1..m : Y[i] = P[i])
      /\ \A i \in 1..n : Y[m + i] = Q[i]
  <2>1. IsSeq(P) /\ IsSeq(Q) BY <1>3, <1>4
  <2>2. /\ IsSeq(Y) /\ Len(Y) = Len(P) + Len(Q) /\ (\A i \in 1..Len(P) : Y[i] = P[i])
        /\ \A i \in 1..Len(Q) : Y[Len(P) + i] = Q[i]
    BY <2>1, ConcatIs
  <2>3. Len(P) = m /\ Len(Q) = n BY <1>3, <1>4
  <2> HIDE DEF Y, m, n
  <2> QED BY <2>2, <2>3
<1> HIDE DEF X, Y, m, n
<1>7. ASSUME NEW j \in 1..Len(X) PROVE X[j] = Y[j]
  <2>1. j \in 1..(m + n) BY <1>5
  <2>2. CASE j \in 1..m
    <3>1. w[j] = p[j] BY <1>1, <2>2 DEF m, n
    <3>2. X[j] = Field(p[j].key, p[j].value) BY <1>5, <2>1, <3>1
    <3> QED BY <1>3, <1>6, <2>2, <3>2
  <2>3. CASE j \notin 1..m
    <3> DEFINE i == j - m
    <3>1. i \in 1..n /\ j = m + i BY <1>2, <2>1, <2>3
    <3> HIDE DEF i
    <3>2. w[j] = q[i] BY <1>1, <3>1 DEF m, n
    <3>3. X[j] = Field(q[i].key, q[i].value) BY <1>5, <2>1, <3>2
    <3> QED BY <1>4, <1>6, <3>1, <3>3
  <2> QED BY <2>2, <2>3
<1>8. X = Y
  <2>1. Len(X) = Len(Y) BY <1>5, <1>6
  <2>2. IsSeq(X) /\ IsSeq(Y) BY <1>5, <1>6
  <2>3. \A j \in 1..Len(X) : X[j] = Y[j] BY <1>7
  <2> QED BY <2>1, <2>2, <2>3, SameSeq
<1> QED BY <1>8 DEF X, Y, w, P, Q

LEMMA PairOf == \A a, b : <<a>> \o <<b>> = <<a, b>>
<1> TAKE a, b
<1> DEFINE t == <<a>> \o <<b>>
<1>1. IsSeq(<<a>>) /\ IsSeq(<<b>>) /\ Len(<<a>>) = 1 /\ Len(<<b>>) = 1
      /\ <<a>>[1] = a /\ <<b>>[1] = b
  BY OneFacts
<1>2. IsSeq(t) BY <1>1, ConcatIs
<1>3. /\ Len(t) = 2 /\ t[1] = a /\ t[2] = b
  <2> DEFINE s == <<a>>
             u == <<b>>
  <2>1. IsSeq(s) /\ IsSeq(u) /\ Len(s) = 1 /\ Len(u) = 1 /\ s[1] = a /\ u[1] = b BY <1>1
  <2>2. t = s \o u OBVIOUS
  <2> HIDE DEF s, u, t
  <2>3. /\ Len(t) = Len(s) + Len(u) /\ (\A i \in 1..Len(s) : t[i] = s[i])
        /\ \A i \in 1..Len(u) : t[Len(s) + i] = u[i]
    <3>1. IsSeq(s) /\ IsSeq(u) BY <2>1
    <3> QED BY <2>2, <3>1, ConcatIs
  <2>4. 1 \in 1..Len(s) /\ 1 \in 1..Len(u) /\ Len(s) + 1 = 2 BY <2>1
  <2> QED BY <2>1, <2>3, <2>4
<1>4. IsSeq(<<a, b>>) /\ Len(<<a, b>>) = 2 /\ <<a, b>>[1] = a /\ <<a, b>>[2] = b BY TwoFacts
<1>5. \A i \in 1..Len(t) : t[i] = <<a, b>>[i]
  <2> TAKE i \in 1..Len(t)
  <2>1. i = 1 \/ i = 2 BY <1>3
  <2> HIDE DEF t
  <2> QED BY <1>3, <1>4, <2>1
<1> HIDE DEF t
<1>6. t = <<a, b>>
  <2>1. IsSeq(t) /\ IsSeq(<<a, b>>) /\ Len(t) = Len(<<a, b>>) BY <1>2, <1>3, <1>4
  <2> QED BY <1>5, <2>1, SameSeq
<1> QED BY <1>6 DEF t

LEMMA SameJoin ==
    ASSUME NEW s, IsSeq(s), NEW t, IsSeq(t), NEW w, IsSeq(w), Len(w) = Len(s) + Len(t),
           \A i \in 1..Len(s) : w[i] = s[i], \A i \in 1..Len(t) : w[Len(s) + i] = t[i]
    PROVE  s \o t = w
<1> DEFINE v == s \o t
           m == Len(s)
           n == Len(t)
<1>1. m \in Nat /\ n \in Nat BY SeqFacts
<1>2. /\ IsSeq(v) /\ Len(v) = m + n /\ (\A i \in 1..m : v[i] = s[i])
      /\ \A i \in 1..n : v[m + i] = t[i]
  BY ConcatIs
<1>3. Len(w) = m + n /\ (\A i \in 1..m : w[i] = s[i]) /\ \A i \in 1..n : w[m + i] = t[i] OBVIOUS
<1> HIDE DEF v, m, n
<1>4. ASSUME NEW j \in 1..Len(v) PROVE v[j] = w[j]
  <2>1. j \in 1..(m + n) BY <1>2
  <2>2. CASE j \in 1..m BY <1>2, <1>3, <2>2
  <2>3. CASE j \notin 1..m
    <3> DEFINE i == j - m
    <3>1. i \in 1..n /\ j = m + i BY <1>1, <2>1, <2>3
    <3> HIDE DEF i
    <3> QED BY <1>2, <1>3, <3>1
  <2> QED BY <2>2, <2>3
<1>5. v = w
  <2>1. IsSeq(v) /\ Len(v) = Len(w) BY <1>2, <1>3
  <2> QED BY <1>4, <2>1, SameSeq
<1> QED BY <1>5 DEF v

LEMMA Tuples ==
    \A a, b, c, d, e :
       /\ (<<a>> \o <<b>>) \o <<c, d, e>> = <<a, b, c, d, e>>
       /\ (<<a>> \o <<b>>) \o <<c>> = <<a, b, c>>
       /\ <<a, b, c>> \o <<d>> = <<a, b, c, d>>
<1> TAKE a, b, c, d, e
<1>1. <<a>> \o <<b>> = <<a, b>> BY PairOf
<1> DEFINE two == <<a, b>>
           three == <<c, d, e>>
           five == <<a, b, c, d, e>>
           one == <<c>>
           abc == <<a, b, c>>
           last1 == <<d>>
           four == <<a, b, c, d>>
<1>a. IsSeq(two) /\ Len(two) = 2 /\ two[1] = a /\ two[2] = b BY TwoFacts
<1>b. IsSeq(three) /\ Len(three) = 3 /\ three[1] = c /\ three[2] = d /\ three[3] = e BY ThreeFacts
<1>c. /\ IsSeq(five) /\ Len(five) = 5
      /\ five[1] = a /\ five[2] = b /\ five[3] = c /\ five[4] = d /\ five[5] = e
  BY FiveFacts
<1>d. IsSeq(one) /\ Len(one) = 1 /\ one[1] = c BY OneFacts
<1>e. IsSeq(abc) /\ Len(abc) = 3 /\ abc[1] = a /\ abc[2] = b /\ abc[3] = c BY ThreeFacts
<1>f. IsSeq(last1) /\ Len(last1) = 1 /\ last1[1] = d BY OneFacts
<1>g. IsSeq(four) /\ Len(four) = 4 /\ four[1] = a /\ four[2] = b /\ four[3] = c /\ four[4] = d
  <2>1. <<a, b, c, d>> \in Seq({a, b, c, d}) OBVIOUS
  <2> QED BY <2>1 DEF IsSeq
<1> HIDE DEF two, three, five, one, abc, last1, four
<1>2. two \o three = five
  <2>1. IsSeq(two) /\ IsSeq(three) /\ IsSeq(five) BY <1>a, <1>b, <1>c
  <2>2. Len(five) = Len(two) + Len(three) BY <1>a, <1>b, <1>c
  <2>3. \A i \in 1..Len(two) : five[i] = two[i]
    <3> TAKE i \in 1..Len(two)
    <3>1. i = 1 \/ i = 2 BY <1>a
    <3> QED BY <1>a, <1>c, <3>1
  <2>4. \A i \in 1..Len(three) : five[Len(two) + i] = three[i]
    <3> TAKE i \in 1..Len(three)
    <3>1. i = 1 \/ i = 2 \/ i = 3 BY <1>b
    <3>2. Len(two) + 1 = 3 /\ Len(two) + 2 = 4 /\ Len(two) + 3 = 5 BY <1>a
    <3> QED BY <1>b, <1>c, <3>1, <3>2
  <2> QED BY <2>1, <2>2, <2>3, <2>4, SameJoin
<1>3. two \o one = abc
  <2>1. IsSeq(two) /\ IsSeq(one) /\ IsSeq(abc) BY <1>a, <1>d, <1>e
  <2>2. Len(abc) = Len(two) + Len(one) BY <1>a, <1>d, <1>e
  <2>3. \A i \in 1..Len(two) : abc[i] = two[i]
    <3> TAKE i \in 1..Len(two)
    <3>1. i = 1 \/ i = 2 BY <1>a
    <3> QED BY <1>a, <1>e, <3>1
  <2>4. \A i \in 1..Len(one) : abc[Len(two) + i] = one[i]
    <3> TAKE i \in 1..Len(one)
    <3>1. i = 1 /\ Len(two) + 1 = 3 BY <1>a, <1>d
    <3> QED BY <1>d, <1>e, <3>1
  <2> QED BY <2>1, <2>2, <2>3, <2>4, SameJoin
<1>4. abc \o last1 = four
  <2>1. IsSeq(abc) /\ IsSeq(last1) /\ IsSeq(four) BY <1>e, <1>f, <1>g
  <2>2. Len(four) = Len(abc) + Len(last1) BY <1>e, <1>f, <1>g
  <2>3. \A i \in 1..Len(abc) : four[i] = abc[i]
    <3> TAKE i \in 1..Len(abc)
    <3>1. i = 1 \/ i = 2 \/ i = 3 BY <1>e
    <3> QED BY <1>e, <1>g, <3>1
  <2>4. \A i \in 1..Len(last1) : four[Len(abc) + i] = last1[i]
    <3> TAKE i \in 1..Len(last1)
    <3>1. i = 1 /\ Len(abc) + 1 = 4 BY <1>e, <1>f
    <3> QED BY <1>f, <1>g, <3>1
  <2> QED BY <2>1, <2>2, <2>3, <2>4, SameJoin
<1>5. /\ <<a, b>> \o <<c, d, e>> = <<a, b, c, d, e>> /\ <<a, b>> \o <<c>> = <<a, b, c>>
      /\ <<a, b, c>> \o <<d>> = <<a, b, c, d>>
  BY <1>2, <1>3, <1>4 DEF two, three, five, one, abc, last1, four
<1> QED BY <1>1, <1>5

LEMMA Regroup ==
    ASSUME NEW a, IsSeq(a), NEW b, IsSeq(b), NEW c, IsSeq(c)
    PROVE  (a \o b) \o c = a \o (b \o c)
<1>1. PICK A : a \in Seq(A) BY DEF IsSeq
<1>2. PICK B : b \in Seq(B) BY DEF IsSeq
<1>3. PICK C : c \in Seq(C) BY DEF IsSeq
<1> DEFINE S == A \cup (B \cup C)
<1>4. a \in Seq(S) /\ b \in Seq(S) /\ c \in Seq(S)
  <2>1. A \subseteq S /\ B \subseteq S /\ C \subseteq S OBVIOUS
  <2> HIDE DEF S
  <2> QED BY <1>1, <1>2, <1>3, <2>1
<1> HIDE DEF S
<1> QED BY <1>4

TextOf(p) == Field(p.key, p.value)

LEMMA TextsOf ==
    \A a, b, c, d, e :
       /\ Extras(<<a>>) = <<TextOf(a)>>
       /\ Extras(<<a, b, c>>) = <<TextOf(a), TextOf(b), TextOf(c)>>
       /\ Extras(<<a, b, c, d, e>>) = <<TextOf(a), TextOf(b), TextOf(c), TextOf(d), TextOf(e)>>
       /\ Extras(<<>>) = <<>>
<1> TAKE a, b, c, d, e
<1> DEFINE one == <<a>>
           three == <<a, b, c>>
           five == <<a, b, c, d, e>>
           t1 == <<TextOf(a)>>
           t3 == <<TextOf(a), TextOf(b), TextOf(c)>>
           t5 == <<TextOf(a), TextOf(b), TextOf(c), TextOf(d), TextOf(e)>>
<1>1. IsSeq(one) /\ Len(one) = 1 /\ one[1] = a BY OneFacts
<1>2. IsSeq(three) /\ Len(three) = 3 /\ three[1] = a /\ three[2] = b /\ three[3] = c BY ThreeFacts
<1>3. /\ IsSeq(five) /\ Len(five) = 5
      /\ five[1] = a /\ five[2] = b /\ five[3] = c /\ five[4] = d /\ five[5] = e
  BY FiveFacts
<1>4. IsSeq(t1) /\ Len(t1) = 1 /\ t1[1] = TextOf(a) BY OneFacts
<1>5. IsSeq(t3) /\ Len(t3) = 3 /\ t3[1] = TextOf(a) /\ t3[2] = TextOf(b) /\ t3[3] = TextOf(c)
  BY ThreeFacts
<1>6. /\ IsSeq(t5) /\ Len(t5) = 5 /\ t5[1] = TextOf(a) /\ t5[2] = TextOf(b) /\ t5[3] = TextOf(c)
      /\ t5[4] = TextOf(d) /\ t5[5] = TextOf(e)
  BY FiveFacts
<1> HIDE DEF one, three, five, t1, t3, t5
<1>7. \A p : IsSeq(p) => /\ IsSeq(Extras(p)) /\ Len(Extras(p)) = Len(p)
                         /\ \A j \in 1..Len(p) : Extras(p)[j] = TextOf(p[j])
  BY ExtrasAre, Zenon DEF TextOf
<1>8. Extras(one) = t1
  <2>1. /\ IsSeq(Extras(one)) /\ Len(Extras(one)) = 1
        /\ \A j \in 1..Len(one) : Extras(one)[j] = TextOf(one[j])
    BY <1>1, <1>7
  <2>2. \A j \in 1..Len(one) : Extras(one)[j] = t1[j]
    <3> TAKE j \in 1..Len(one)
    <3>1. j = 1 BY <1>1
    <3> QED BY <1>1, <1>4, <2>1, <3>1
  <2>3. Len(Extras(one)) = Len(one) /\ Len(Extras(one)) = Len(t1) BY <1>1, <1>4, <2>1
  <2> QED BY <1>4, <2>1, <2>2, <2>3, SameSeq
<1>9. Extras(three) = t3
  <2>1. /\ IsSeq(Extras(three)) /\ Len(Extras(three)) = 3
        /\ \A j \in 1..Len(three) : Extras(three)[j] = TextOf(three[j])
    BY <1>2, <1>7
  <2>2. \A j \in 1..Len(three) : Extras(three)[j] = t3[j]
    <3> TAKE j \in 1..Len(three)
    <3>1. j = 1 \/ j = 2 \/ j = 3 BY <1>2
    <3> QED BY <1>2, <1>5, <2>1, <3>1
  <2>3. Len(Extras(three)) = Len(three) /\ Len(Extras(three)) = Len(t3) BY <1>2, <1>5, <2>1
  <2> QED BY <1>5, <2>1, <2>2, <2>3, SameSeq
<1>10. Extras(five) = t5
  <2>1. /\ IsSeq(Extras(five)) /\ Len(Extras(five)) = 5
        /\ \A j \in 1..Len(five) : Extras(five)[j] = TextOf(five[j])
    BY <1>3, <1>7
  <2>2. \A j \in 1..Len(five) : Extras(five)[j] = t5[j]
    <3> TAKE j \in 1..Len(five)
    <3>1. j = 1 \/ j = 2 \/ j = 3 \/ j = 4 \/ j = 5 BY <1>3
    <3> QED BY <1>3, <1>6, <2>1, <3>1
  <2>3. Len(Extras(five)) = Len(five) /\ Len(Extras(five)) = Len(t5) BY <1>3, <1>6, <2>1
  <2> QED BY <1>6, <2>1, <2>2, <2>3, SameSeq
<1>11. Extras(<<>>) = <<>>
  <2>1. IsSeq(<<>>) /\ Len(<<>>) = 0 BY EmptyIsSeq
  <2>2. IsSeq(Extras(<<>>)) /\ Len(Extras(<<>>)) = 0 BY <1>7, <2>1
  <2> QED BY <2>1, <2>2, SameSeq
<1> QED BY <1>8, <1>9, <1>10, <1>11 DEF one, three, five, t1, t3, t5

LEMMA StatedText ==
    \A name, value : TextOf(Stated(name, value)) = Field(<<name>>, value)
BY DEF TextOf, Stated

LEMMA EncodedSuccess ==
    ASSUME NEW agent, NEW vm_id, NEW extra, IsSeq(extra)
    PROVE  LET text == encode_report(Extras(SuccessPairs(agent, vm_id, extra)))
           IN  /\ encode(success(agent, vm_id, extra)) = text
               /\ encoded_success_report(agent, vm_id, extra) = text
<1> DEFINE r == success(agent, vm_id, extra)
           H == SuccessHead(agent, vm_id)
           h == <<Field(<<"result">>, <<"success">>), Field(<<"agent">>, agent),
                  Field(<<"pps_type">>, <<"None">>), Field(<<"vm_id">>, vm_id),
                  Field(<<"timestamp">>, <<Timestamp>>)>>
<1>1. Extras(H) = h BY TextsOf, StatedText DEF SuccessHead
<1>2. IsSeq(H) BY FiveFacts DEF SuccessHead
<1> HIDE DEF H
<1>3. Extras(SuccessPairs(agent, vm_id, extra)) = h \o Extras(extra)
  BY <1>1, <1>2, ExtrasJoin DEF SuccessPairs, H
<1>4. encoded_success_report(agent, vm_id, extra) = encode_report(h \o Extras(extra))
  BY DEF encoded_success_report
<1>5. /\ r.result = "success" /\ r.agent = agent /\ r.vm_id = vm_id /\ r.extra = extra
      /\ r.timestamp = <<Timestamp>> /\ r.pps_type = "None"
  BY DEF success, Report
<1> HIDE DEF r
<1>6. encode(r) = encode_report(
            ((<<Field(<<"result">>, <<"success">>)>> \o <<Field(<<"agent">>, agent)>>)
             \o <<Field(<<"pps_type">>, <<"None">>), Field(<<"vm_id">>, vm_id),
                  Field(<<"timestamp">>, <<Timestamp>>)>>) \o Extras(extra))
  BY <1>5, Zenon DEF encode
<1>7. (<<Field(<<"result">>, <<"success">>)>> \o <<Field(<<"agent">>, agent)>>)
      \o <<Field(<<"pps_type">>, <<"None">>), Field(<<"vm_id">>, vm_id),
           Field(<<"timestamp">>, <<Timestamp>>)>> = h
  <2> DEFINE a == Field(<<"result">>, <<"success">>)
             b == Field(<<"agent">>, agent)
             c == Field(<<"pps_type">>, <<"None">>)
             d == Field(<<"vm_id">>, vm_id)
             e == Field(<<"timestamp">>, <<Timestamp>>)
  <2> HIDE DEF a, b, c, d, e
  <2>1. (<<a>> \o <<b>>) \o <<c, d, e>> = <<a, b, c, d, e>> BY Tuples
  <2> QED BY <2>1 DEF a, b, c, d, e
<1> HIDE DEF h
<1>8. encode(r) = encode_report(h \o Extras(extra)) BY <1>6, <1>7
<1> QED BY <1>3, <1>4, <1>8 DEF r

LEMMA EncodedFailure ==
    ASSUME NEW agent, NEW vm_id, NEW reason, NEW url, NEW extra, IsSeq(extra)
    PROVE  encode(failure(agent, vm_id, reason, url, extra)) =
           encode_report(Extras(FailurePairs(agent, vm_id, reason, url, extra)))
<1> DEFINE r == failure(agent, vm_id, reason, url, extra)
           H == FailureHead(agent, reason)
           T == FailureEnd(vm_id)
           L == Links(url)
           h == <<Field(<<"result">>, <<"error">>), Field(<<"reason">>, reason),
                  Field(<<"agent">>, agent)>>
           t == <<Field(<<"pps_type">>, <<"None">>), Field(<<"vm_id">>, vm_id),
                  Field(<<"timestamp">>, <<Timestamp>>)>>
           l == Fields(<<"documentation_url">>, url)
<1>1. Extras(H) = h /\ IsSeq(H) BY TextsOf, StatedText, ThreeFacts DEF FailureHead
<1>2. Extras(T) = t /\ IsSeq(T) BY TextsOf, StatedText, ThreeFacts DEF FailureEnd
<1>3. Extras(L) = l /\ IsSeq(L)
  <2>1. Extras(<<>>) = <<>> BY TextsOf
  <2>2. Extras(<<Stated("documentation_url", url[1])>>) = <<Field(<<"documentation_url">>, url[1])>>
    BY TextsOf, StatedText
  <2> QED BY <2>1, <2>2, EmptyIsSeq, OneFacts DEF Links, Fields
<1> HIDE DEF H, T, L
<1>4. Extras(FailurePairs(agent, vm_id, reason, url, extra)) = ((h \o Extras(extra)) \o t) \o l
  <2>1. Extras(H \o extra) = h \o Extras(extra) /\ IsSeq(H \o extra)
    BY <1>1, ExtrasJoin, ConcatIs
  <2> DEFINE A == H \o extra
  <2> HIDE DEF A
  <2>2. Extras(A \o T) = Extras(A) \o t /\ IsSeq(A \o T)
    BY <1>2, <2>1, ExtrasJoin, ConcatIs, Zenon DEF A
  <2> DEFINE B == A \o T
  <2> HIDE DEF B
  <2>3. Extras(B \o L) = Extras(B) \o l BY <1>3, <2>2, ExtrasJoin DEF B
  <2>4. FailurePairs(agent, vm_id, reason, url, extra) = B \o L BY DEF FailurePairs, A, B, H, T, L
  <2> QED BY <2>1, <2>2, <2>3, <2>4 DEF A, B
<1>5. /\ r.result = "error" /\ r.agent = agent /\ r.vm_id = vm_id /\ r.extra = extra
      /\ r.timestamp = <<Timestamp>> /\ r.pps_type = "None" /\ r.reason = <<reason>>
      /\ r.documentation_url = url
  BY DEF failure, Report
<1> HIDE DEF r
<1>6. r.result # "success" BY <1>5
<1>7. Fields(<<"reason">>, r.reason) = <<Field(<<"reason">>, reason)>>
  <2>1. r.reason # <<>> /\ r.reason[1] = reason
    <3>1. Len(<<reason>>) # Len(<<>>) BY OneFacts, EmptyIsSeq
    <3>2. <<reason>> # <<>> BY <3>1
    <3> QED BY <1>5, <3>2, OneFacts
  <2> QED BY <2>1 DEF Fields
<1>8. encode(r) = encode_report(
            ((((<<Field(<<"result">>, <<"error">>)>> \o <<Field(<<"reason">>, reason)>>)
               \o <<Field(<<"agent">>, agent)>>) \o Extras(extra)) \o t) \o l)
  BY <1>5, <1>6, <1>7, Zenon DEF encode
<1>9. (<<Field(<<"result">>, <<"error">>)>> \o <<Field(<<"reason">>, reason)>>)
      \o <<Field(<<"agent">>, agent)>> = h
  <2>1. \A a, b, c : (<<a>> \o <<b>>) \o <<c>> = <<a, b, c>> BY Tuples
  <2> QED BY <2>1, Zenon
<1> HIDE DEF h, t, l
<1>10. encode(r) = encode_report(((h \o Extras(extra)) \o t) \o l) BY <1>8, <1>9
<1> QED BY <1>4, <1>10 DEF r

(* libazureinit's encoder of failures writes what the other one does. *)
LEMMA EncodedElsewhere ==
    ASSUME NEW agent, NEW vm_id, NEW reason, NEW extra, IsSeq(extra)
    PROVE  as_encoded_report(agent, vm_id, reason, extra) =
           encode_report(Extras(FailurePairs(agent, vm_id, reason, <<DocumentationUrl>>, extra)))
<1> DEFINE H == FailureHead(agent, reason)
           T == FailureEnd(vm_id)
           L == Links(<<DocumentationUrl>>)
           h == <<Field(<<"result">>, <<"error">>), Field(<<"reason">>, reason),
                  Field(<<"agent">>, agent)>>
           t == <<Field(<<"pps_type">>, <<"None">>), Field(<<"vm_id">>, vm_id),
                  Field(<<"timestamp">>, <<Timestamp>>)>>
           l == <<Field(<<"documentation_url">>, DocumentationUrl)>>
           tl == <<Field(<<"pps_type">>, <<"None">>), Field(<<"vm_id">>, vm_id),
                  Field(<<"timestamp">>, <<Timestamp>>),
                  Field(<<"documentation_url">>, DocumentationUrl)>>
           X == Extras(extra)
<1>1. Extras(H) = h /\ IsSeq(H) BY TextsOf, StatedText, ThreeFacts DEF FailureHead
<1>2. Extras(T) = t /\ IsSeq(T) BY TextsOf, StatedText, ThreeFacts DEF FailureEnd
<1>3. Extras(L) = l /\ IsSeq(L)
  <2> DEFINE url == <<DocumentationUrl>>
  <2>1. Len(<<DocumentationUrl>>) # Len(<<>>) BY OneFacts, EmptyIsSeq
  <2>2. url # <<>> /\ url[1] = DocumentationUrl BY <2>1, OneFacts
  <2> HIDE DEF url
  <2>3. Links(url) = <<Stated("documentation_url", DocumentationUrl)>> BY <2>2 DEF Links
  <2>4. L = <<Stated("documentation_url", DocumentationUrl)>> BY <2>3 DEF url
  <2> HIDE DEF L
  <2> QED BY <2>4, TextsOf, StatedText, OneFacts
<1>4. IsSeq(h) /\ IsSeq(t) /\ IsSeq(l) BY ThreeFacts, OneFacts
<1>5. t \o l = tl
  <2>1. \A a, b, c, d : <<a, b, c>> \o <<d>> = <<a, b, c, d>> BY Tuples
  <2> QED BY <2>1, Zenon
<1>6. as_encoded_report(agent, vm_id, reason, extra) = encode_report((h \o X) \o tl)
  BY DEF as_encoded_report
<1>7. IsSeq(X) BY ExtrasAre
<1> HIDE DEF H, T, L, h, t, l, tl, X
<1>8. Extras(FailurePairs(agent, vm_id, reason, <<DocumentationUrl>>, extra)) = ((h \o X) \o t) \o l
  <2>1. Extras(H \o extra) = h \o X /\ IsSeq(H \o extra)
    BY <1>1, ExtrasJoin, ConcatIs DEF X
  <2> DEFINE A == H \o extra
  <2> HIDE DEF A
  <2>2. Extras(A \o T) = Extras(A) \o t /\ IsSeq(A \o T)
    BY <1>2, <2>1, ExtrasJoin, ConcatIs DEF A
  <2> DEFINE B == A \o T
  <2> HIDE DEF B
  <2>3. Extras(B \o L) = Extras(B) \o l BY <1>3, <2>2, ExtrasJoin DEF B
  <2>4. FailurePairs(agent, vm_id, reason, <<DocumentationUrl>>, extra) = B \o L
    BY DEF FailurePairs, A, B, H, T, L
  <2> QED BY <2>1, <2>2, <2>3, <2>4 DEF A, B
<1>9. IsSeq(h \o X) BY <1>4, <1>7, ConcatIs
<1>10. ((h \o X) \o t) \o l = (h \o X) \o tl
  <2> DEFINE a == h \o X
  <2> HIDE DEF a
  <2>1. IsSeq(a) /\ IsSeq(t) /\ IsSeq(l) BY <1>4, <1>9 DEF a
  <2>2. (a \o t) \o l = a \o (t \o l) BY <2>1, Regroup
  <2> QED BY <1>5, <2>2 DEF a
<1> QED BY <1>6, <1>8, <1>10

-----------------------------------------------------------------------------
(* What a parser makes of the fields of a text that was cut. *)

GoodExtra(extra) == IsSeq(extra) /\ \A i \in 1..Len(extra) : OkPair(extra[i])
PlainExtra(extra) == \A i \in 1..Len(extra) : \A name \in Standard : extra[i].key # <<name>>
Core == Standard \ {"reason", "documentation_url"}

LEMMA StatedOk ==
    ASSUME NEW name \in Standard, NEW value, IsSeq(value)
    PROVE  OkPair(Stated(name, value))
<1>1. name # "=" BY DEF Standard
<1>2. IsSeq(<<name>>) /\ Len(<<name>>) = 1 /\ <<name>>[1] = name BY OneFacts
<1>3. <<name>> # <<>> BY <1>2, EmptyIsSeq
<1>4. BareKey(<<name>>) BY <1>1, <1>2 DEF BareKey
<1> QED BY <1>3, <1>4 DEF OkPair, Stated

LEMMA ListedExtras ==
    ASSUME NEW pairs, IsSeq(pairs), \A j \in 1..Len(pairs) : OkPair(pairs[j])
    PROVE  Listed(Extras(pairs), pairs)
BY ExtrasAre, Zenon DEF Listed

LEMMA ListedSuccess ==
    ASSUME NEW agent, IsSeq(agent), NEW vm_id, IsSeq(vm_id), NEW extra, GoodExtra(extra),
           NEW P, P = SuccessPairs(agent, vm_id, extra)
    PROVE  Listed(Extras(P), P)
<1> DEFINE E == Len(extra)
<1>1. IsSeq(extra) /\ E \in Nat BY SeqFacts DEF GoodExtra
<1>2. /\ IsSeq(P) /\ Len(P) = 5 + E
      /\ P[1] = Stated("result", <<"success">>) /\ P[2] = Stated("agent", agent)
      /\ P[3] = Stated("pps_type", <<"None">>) /\ P[4] = Stated("vm_id", vm_id)
      /\ P[5] = Stated("timestamp", <<Timestamp>>)
      /\ \A x \in 1..E : P[5 + x] = extra[x]
  BY <1>1, SuccessPairsAre
<1>3. \A l : IsSeq(<<l>>) BY OneFacts
<1>4. /\ "result" \in Standard /\ "agent" \in Standard /\ "pps_type" \in Standard
      /\ "vm_id" \in Standard /\ "timestamp" \in Standard
  BY DEF Standard
<1>5. OkPair(P[1]) /\ OkPair(P[2]) /\ OkPair(P[3]) /\ OkPair(P[4]) /\ OkPair(P[5])
  BY <1>2, <1>3, <1>4, StatedOk
<1>6. ASSUME NEW j \in 1..Len(P) PROVE OkPair(P[j])
  <2>1. CASE j > 5
    <3> DEFINE x == j - 5
    <3>1. x \in 1..E /\ 5 + x = j BY <1>1, <1>2, <2>1
    <3> HIDE DEF x
    <3>2. P[j] = extra[x] BY <1>2, <3>1
    <3> QED BY <3>1, <3>2 DEF GoodExtra, E
  <2>2. j = 1 \/ j = 2 \/ j = 3 \/ j = 4 \/ j = 5 \/ j > 5 BY <1>1, <1>2
  <2> QED BY <1>5, <2>1, <2>2
<1> QED BY <1>2, <1>6, ListedExtras

LEMMA ListedFailure ==
    ASSUME NEW agent, IsSeq(agent), NEW vm_id, IsSeq(vm_id), NEW reason, IsSeq(reason),
           NEW url, url # <<>> => IsSeq(url[1]), NEW extra, GoodExtra(extra),
           NEW P, P = FailurePairs(agent, vm_id, reason, url, extra)
    PROVE  Listed(Extras(P), P)
<1> DEFINE E == Len(extra)
<1>1. IsSeq(extra) /\ E \in Nat BY SeqFacts DEF GoodExtra
<1>2. /\ IsSeq(P) /\ Len(P) = E + (IF url = <<>> THEN 6 ELSE 7)
      /\ P[1] = Stated("result", <<"error">>) /\ P[2] = Stated("reason", reason)
      /\ P[3] = Stated("agent", agent)
      /\ \A x \in 1..E : P[3 + x] = extra[x]
      /\ P[E + 4] = Stated("pps_type", <<"None">>) /\ P[E + 5] = Stated("vm_id", vm_id)
      /\ P[E + 6] = Stated("timestamp", <<Timestamp>>)
      /\ url # <<>> => P[E + 7] = Stated("documentation_url", url[1])
  BY <1>1, FailurePairsAre, SMTT(30)
<1>3. \A l : IsSeq(<<l>>) BY OneFacts
<1>4. /\ "result" \in Standard /\ "agent" \in Standard /\ "pps_type" \in Standard
      /\ "vm_id" \in Standard /\ "timestamp" \in Standard /\ "reason" \in Standard
      /\ "documentation_url" \in Standard
  BY DEF Standard
<1>5. /\ OkPair(P[1]) /\ OkPair(P[2]) /\ OkPair(P[3]) /\ OkPair(P[E + 4]) /\ OkPair(P[E + 5])
      /\ OkPair(P[E + 6]) /\ (url # <<>> => OkPair(P[E + 7]))
  BY <1>2, <1>3, <1>4, StatedOk
<1>6. ASSUME NEW j \in 1..Len(P) PROVE OkPair(P[j])
  <2>1. CASE j > 3 /\ j <= E + 3
    <3> DEFINE x == j - 3
    <3>1. x \in 1..E /\ 3 + x = j BY <1>1, <1>2, <2>1
    <3> HIDE DEF x
    <3>2. P[j] = extra[x] BY <1>2, <3>1
    <3> QED BY <3>1, <3>2 DEF GoodExtra, E
  <2>2. \/ j = 1 \/ j = 2 \/ j = 3 \/ (j > 3 /\ j <= E + 3) \/ j = E + 4 \/ j = E + 5 \/ j = E + 6
        \/ (j = E + 7 /\ url # <<>>)
    <3> HIDE DEF E
    <3> QED BY <1>1, <1>2
  <2> QED BY <1>5, <2>1, <2>2
<1> QED BY <1>2, <1>6, ListedExtras

(* A cut that is not malformed for want of a key. *)
Keyed(F, P, M) ==
    /\ IsSeq(F) /\ Len(F) = M /\ M \in Nat /\ M # 0
    /\ \A j \in 1..M : F[j].key = P[j].key
    /\ \A j \in 1..(M - 1) : F[j] = P[j]
    /\ \E x \in 0..Len(P[M].value) :
          F[M] = [key |-> P[M].key, value |-> SubSeq(P[M].value, 1, x)]

LEMMA RefusedFields ==
    ASSUME NEW F, \A S, result : {"agent", "vm_id"} \subseteq S => Refuses(F, S, result)
    PROVE  FromFields(F) = Malformed
<1> DEFINE result == take_field(F, "result")
           S == IF result = <<<<"error">>>> THEN Standard ELSE Standard \ {"reason", "documentation_url"}
<1>1. FromFields(F) = Typed(F, S, result) BY DEF FromFields
<1>2. {"agent", "vm_id"} \subseteq S BY DEF Standard
<1> HIDE DEF S, result
<1> QED BY <1>1, <1>2, TypedBy

LEMMA CutIsKeyed ==
    ASSUME NEW P, NEW M \in Nat, M # 0, NEW F, CutFields(F, P, M), FromFields(F).ok
    PROVE  Keyed(F, P, M) /\ \A j \in 1..M : F[j].key # <<>>
<1>1. IsSeq(F) /\ Len(F) = M /\ DOMAIN F = 1..M BY SeqFacts DEF CutFields
<1>2. \A j \in 1..M : F[j].key # <<>>
  <2> SUFFICES ASSUME NEW n \in 1..M, F[n].key = <<>> PROVE FALSE OBVIOUS
  <2>1. \A S, result : Refuses(F, S, result)
    <3>1. \E m \in DOMAIN F : F[m].key = <<>> BY <1>1
    <3> QED BY <3>1, Zenon DEF Refuses
  <2>2. FromFields(F) = Malformed BY <2>1, RefusedFields
  <2> QED BY <2>2, MalformedIsNot
<1>3. \A j \in 1..(M - 1) : F[j] = P[j] BY DEF CutFields
<1>4. \E x \in 0..Len(P[M].value) :
          F[M] = [key |-> P[M].key, value |-> SubSeq(P[M].value, 1, x)]
  <2>1. M \in 1..M OBVIOUS
  <2>2. F[M].key # <<>> BY <1>2, <2>1
  <2> QED BY <2>2, Zenon DEF CutFields
<1>5. \A j \in 1..M : F[j].key = P[j].key
  <2> TAKE j \in 1..M
  <2>1. j \in 1..(M - 1) \/ j = M OBVIOUS
  <2>2. F[M].key = P[M].key BY <1>4
  <2> QED BY <1>3, <2>1, <2>2
<1> QED BY <1>1, <1>2, <1>3, <1>4, <1>5, Zenon DEF Keyed

(* One field is too few. *)
LEMMA OneIsTooFew ==
    ASSUME NEW F, IsSeq(F), F[1].key = <<"result">>, FromFields(F).ok
    PROVE  Len(F) # 1
<1> SUFFICES ASSUME Len(F) = 1 PROVE FALSE OBVIOUS
<1>1. DOMAIN F = 1..1 BY SeqFacts
<1>2. <<"result">> # <<"agent">> BY OneIs
<1>3. Named(F, "agent") = {}
  <2>1. \A j \in DOMAIN F : j = 1 BY <1>1
  <2> QED BY <1>2, <2>1 DEF Named
<1>4. ASSUME NEW S, NEW result, {"agent", "vm_id"} \subseteq S PROVE Refuses(F, S, result)
  <2>1. "agent" \in S \ {"documentation_url"} BY <1>4
  <2>2. \E name \in S \ {"documentation_url"} : Named(F, name) = {} BY <1>3, <2>1
  <2> QED BY <2>2, Zenon DEF Refuses
<1>5. FromFields(F) = Malformed BY <1>4, RefusedFields
<1> QED BY <1>5, MalformedIsNot

LEMMA SuccessRead ==
    ASSUME NEW agent, IsSeq(agent), NEW vm_id, IsSeq(vm_id), NEW extra, GoodExtra(extra),
           PlainExtra(extra), NEW P, P = SuccessPairs(agent, vm_id, extra),
           NEW M \in 1..Len(P), NEW F, Keyed(F, P, M), \A j \in 1..M : F[j].key # <<>>
    PROVE  /\ FromFields(F).ok =>
                 /\ 5 <= M
                 /\ \E ex : /\ FromFields(F) = [ok |-> TRUE, of |-> success(agent, vm_id, ex)]
                            /\ IsSeq(ex) /\ Len(ex) = M - 5
                            /\ \A x \in 1..(M - 5) : ex[x] = F[5 + x]
           /\ F = P => FromFields(F).ok
<1> DEFINE E == Len(extra)
           at == [name \in Core |-> IF name = "result" THEN 1 ELSE IF name = "agent" THEN 2
                                    ELSE IF name = "pps_type" THEN 3 ELSE IF name = "vm_id" THEN 4
                                    ELSE 5]
           res == <<<<"success">>>>
<1>1. IsSeq(extra) /\ E \in Nat BY SeqFacts DEF GoodExtra
<1>2. /\ IsSeq(P) /\ Len(P) = 5 + E
      /\ P[1] = Stated("result", <<"success">>) /\ P[2] = Stated("agent", agent)
      /\ P[3] = Stated("pps_type", <<"None">>) /\ P[4] = Stated("vm_id", vm_id)
      /\ P[5] = Stated("timestamp", <<Timestamp>>)
      /\ \A x \in 1..E : P[5 + x] = extra[x]
  BY <1>1, SuccessPairsAre
<1>3. Core = {"result", "agent", "vm_id", "timestamp", "pps_type"} BY DEF Core, Standard
<1>4. /\ at["result"] = 1 /\ at["agent"] = 2 /\ at["pps_type"] = 3 /\ at["vm_id"] = 4
      /\ at["timestamp"] = 5 /\ \A name \in Core : at[name] \in Nat \ {0} /\ at[name] <= 5
  BY <1>3
<1>5. /\ P[1].key = <<"result">> /\ P[2].key = <<"agent">> /\ P[3].key = <<"pps_type">>
      /\ P[4].key = <<"vm_id">> /\ P[5].key = <<"timestamp">>
      /\ P[1].value = <<"success">> /\ P[2].value = agent /\ P[3].value = <<"None">>
      /\ P[4].value = vm_id /\ P[5].value = <<Timestamp>>
  BY <1>2 DEF Stated
<1> HIDE DEF at, E
<1>6. /\ IsSeq(F) /\ Len(F) = M /\ M \in Nat /\ M # 0 /\ M <= 5 + E
      /\ \A j \in 1..M : F[j].key = P[j].key
      /\ \A j \in 1..(M - 1) : F[j] = P[j]
  BY <1>1, <1>2 DEF Keyed
<1>7. ASSUME NEW j \in 1..M, j > 5, NEW name \in Standard PROVE P[j].key # <<name>>
  <2> DEFINE x == j - 5
  <2>1. x \in 1..E /\ 5 + x = j BY <1>1, <1>6, <1>7
  <2> HIDE DEF x
  <2>2. P[j] = extra[x] BY <1>2, <2>1
  <2> QED BY <2>1, <2>2 DEF PlainExtra, E
<1>8. ASSUME NEW name \in Core, NEW j \in 1..M PROVE P[j].key = <<name>> <=> j = at[name]
  <2>1. CASE j > 5
    <3>1. name \in Standard BY DEF Core
    <3>2. P[j].key # <<name>> BY <1>7, <2>1, <3>1
    <3>3. j # at[name] BY <1>4, <2>1
    <3> QED BY <3>2, <3>3
  <2>2. j = 1 \/ j = 2 \/ j = 3 \/ j = 4 \/ j = 5 \/ j > 5 BY <1>6
  <2>3. name = "result" \/ name = "agent" \/ name = "vm_id" \/ name = "timestamp" \/ name = "pps_type"
    BY <1>3
  <2>4. j = 1 => (P[j].key = <<name>> <=> name = "result") BY <1>5, OneIs
  <2>5. j = 2 => (P[j].key = <<name>> <=> name = "agent") BY <1>5, OneIs
  <2>6. j = 3 => (P[j].key = <<name>> <=> name = "pps_type") BY <1>5, OneIs
  <2>7. j = 4 => (P[j].key = <<name>> <=> name = "vm_id") BY <1>5, OneIs
  <2>8. j = 5 => (P[j].key = <<name>> <=> name = "timestamp") BY <1>5, OneIs
  <2>9. ASSUME j <= 5 PROVE P[j].key = <<name>> <=> j = at[name]
    <3>1. CASE name = "result" BY <1>4, <2>2, <2>4, <2>5, <2>6, <2>7, <2>8, <2>9, <3>1
    <3>2. CASE name = "agent" BY <1>4, <2>2, <2>4, <2>5, <2>6, <2>7, <2>8, <2>9, <3>2
    <3>3. CASE name = "pps_type" BY <1>4, <2>2, <2>4, <2>5, <2>6, <2>7, <2>8, <2>9, <3>3
    <3>4. CASE name = "vm_id" BY <1>4, <2>2, <2>4, <2>5, <2>6, <2>7, <2>8, <2>9, <3>4
    <3>5. CASE name = "timestamp" BY <1>4, <2>2, <2>4, <2>5, <2>6, <2>7, <2>8, <2>9, <3>5
    <3> QED BY <2>3, <3>1, <3>2, <3>3, <3>4, <3>5
  <2> QED BY <2>1, <2>2, <2>9
<1>9. Placed(F, Core, at)
  <2>1. {"agent", "vm_id", "timestamp", "pps_type"} \subseteq Core BY <1>3
  <2>2. \A name \in Core : /\ at[name] \in Nat \ {0}
                           /\ \A j \in 1..Len(F) : F[j].key = <<name>> <=> j = at[name]
    BY <1>4, <1>6, <1>8
  <2> QED BY <1>6, <2>1, <2>2 DEF Placed
<1>10. F[1].key = <<"result">> BY <1>5, <1>6
<1>11. take_field(F, "result") = <<F[1].value>>
  <2> DEFINE p == at["result"]
  <2>1. p = 1 /\ "result" \in Core BY <1>3, <1>4
  <2>2. \A j \in 1..Len(F) : F[j].key = <<"result">> <=> j = p BY <1>9, <2>1 DEF Placed
  <2>3. p \in Nat \ {0} /\ p <= Len(F) BY <1>6, <2>1
  <2> HIDE DEF p
  <2>4. IsSeq(F) BY <1>6
  <2>5. p <= Len(F) => Named(F, "result") = {p} /\ take_field(F, "result") = <<F[p].value>>
    BY <2>2, <2>3, <2>4, NamedIs
  <2> QED BY <2>1, <2>3, <2>5
<1>12. ASSUME M > 1 PROVE FromFields(F) = Typed(F, Core, res)
  <2>1. 1 \in 1..(M - 1) BY <1>6, <1>12
  <2>2. F[1].value = <<"success">> BY <1>5, <1>6, <2>1
  <2>3. take_field(F, "result") = res BY <1>11, <2>2
  <2>4. res # <<<<"error">>>> BY OneIs
  <2> QED BY <2>3, <2>4 DEF FromFields, Core
<1>13. M > 1 => FromFields(F) =
          IF Full(F, Core, at, res) THEN ReportIn(F, Core, at, res) ELSE Malformed
  BY <1>9, <1>12, TypedIs
<1>14. ASSUME FromFields(F).ok
       PROVE  /\ 5 <= M
              /\ \E ex : /\ FromFields(F) = [ok |-> TRUE, of |-> success(agent, vm_id, ex)]
                         /\ IsSeq(ex) /\ Len(ex) = M - 5
                         /\ \A x \in 1..(M - 5) : ex[x] = F[5 + x]
  <2>1. M > 1
    <3>1. IsSeq(F) BY <1>6
    <3>2. Len(F) # 1 BY <1>10, <1>14, <3>1, OneIsTooFew
    <3> QED BY <1>6, <3>2
  <2>2. Full(F, Core, at, res) /\ FromFields(F) = ReportIn(F, Core, at, res)
    BY <1>13, <1>14, <2>1, MalformedIsNot
  <2>3. 5 <= M
    <3>1. "timestamp" \in Core \ {"documentation_url"} BY <1>3
    <3>2. at["timestamp"] <= Len(F) BY <2>2, <3>1 DEF Full
    <3> QED BY <1>4, <1>6, <3>2
  <2> DEFINE K == OthersIn(F, Core)
             ex == Slice(F, K)
  <2>4. \A x \in 1..Len(F) : x \in K <=> 5 < x /\ x <= M
    <3> TAKE x \in 1..Len(F)
    <3>1. x \in 1..M /\ DOMAIN F = 1..M BY <1>6, SeqFacts
    <3>2. x \in K <=> ~\E name \in Core : F[x].key = <<name>> BY <3>1 DEF OthersIn
    <3>3. F[x].key = P[x].key BY <1>6, <3>1
    <3>4. CASE x > 5
      <4>1. \A name \in Core : P[x].key # <<name>> BY <1>7, <3>1, <3>4 DEF Core
      <4> QED BY <1>6, <3>1, <3>2, <3>3, <3>4, <4>1
    <3>5. CASE ~(x > 5)
      <4>1. x = 1 \/ x = 2 \/ x = 3 \/ x = 4 \/ x = 5 BY <3>1, <3>5
      <4>2. \E name \in Core : P[x].key = <<name>> BY <1>3, <1>5, <4>1
      <4>3. x \notin K BY <3>2, <3>3, <4>2
      <4> QED BY <3>1, <3>5, <4>3
    <3> QED BY <3>4, <3>5
  <2> HIDE DEF K
  <2>5. IsSeq(ex) /\ Len(ex) = M - 5 /\ \A x \in 1..(M - 5) : ex[x] = F[5 + x]
    <3> DEFINE a == 5
    <3>1. IsSeq(F) /\ a \in Nat /\ M \in Nat /\ a <= M /\ M <= Len(F) BY <1>6, <2>3
    <3>2. \A x \in 1..Len(F) : x \in K <=> a < x /\ x <= M BY <2>4
    <3> HIDE DEF a, ex
    <3>3. Stretch(K, Len(F), a, M) BY <3>2 DEF Stretch
    <3>4. Part(Slice(F, K), F, a, M) BY <3>1, <3>3, SliceIsPart
    <3> QED BY <3>4 DEF a, ex, Part
  <2>6. ReportIn(F, Core, at, res) = [ok |-> TRUE, of |-> success(agent, vm_id, ex)]
    <3>1. F[2].value = agent /\ F[3].value = <<"None">> /\ F[4].value = vm_id
      <4>1. 2 \in 1..(M - 1) /\ 3 \in 1..(M - 1) /\ 4 \in 1..(M - 1) BY <1>6, <2>3
      <4> QED BY <1>5, <1>6, <4>1
    <3>2. Own(F, Core, at, "reason") = <<>> /\ Own(F, Core, at, "documentation_url") = <<>>
      BY <1>3 DEF Own
    <3>3. res[1][1] = "success" OBVIOUS
    <3>4. <<"None">>[1] = "None" OBVIOUS
    <3>5. /\ F[at["agent"]].value = agent /\ F[at["vm_id"]].value = vm_id
          /\ F[at["pps_type"]].value[1] = "None"
      BY <1>4, <3>1, <3>4
    <3> HIDE DEF res, ex
    <3>6. ReportIn(F, Core, at, res) =
            [ok |-> TRUE, of |-> Report("success", agent, vm_id, <<Timestamp>>, "None", <<>>, <<>>, ex)]
      BY <3>2, <3>3, <3>5, Zenon DEF ReportIn, ex, K
    <3> QED BY <3>6 DEF success
  <2> HIDE DEF ex
  <2> QED BY <2>2, <2>3, <2>5, <2>6
<1>15. ASSUME F = P PROVE FromFields(F).ok
  <2>1. M = 5 + E /\ M > 1 BY <1>1, <1>2, <1>6, <1>15
  <2>2. Full(F, Core, at, res)
    <3>1. \A j \in 1..Len(F) : F[j].key # <<>> BY <1>6
    <3>2. \A name \in Core \ {"documentation_url"} : at[name] <= Len(F) BY <1>1, <1>4, <1>6, <2>1
    <3>3. F[at["timestamp"]].value = <<Timestamp>> BY <1>4, <1>5, <1>15
    <3>4. F[at["pps_type"]].value = <<"None">> BY <1>4, <1>5, <1>15
    <3>5. \E t \in PpsTypes : F[at["pps_type"]].value = <<t>> BY <3>4 DEF PpsTypes
    <3> QED BY <3>1, <3>2, <3>3, <3>5, Zenon DEF Full
  <2>3. FromFields(F) = ReportIn(F, Core, at, res) BY <1>13, <2>1, <2>2
  <2> QED BY <2>3 DEF ReportIn
<1> QED BY <1>14, <1>15

LEMMA FailureRead ==
    ASSUME NEW agent, IsSeq(agent), NEW vm_id, IsSeq(vm_id), NEW reason, IsSeq(reason),
           NEW url, NEW extra, GoodExtra(extra),
           PlainExtra(extra), NEW P, P = FailurePairs(agent, vm_id, reason, url, extra),
           NEW M \in 1..Len(P), NEW F, Keyed(F, P, M), \A j \in 1..M : F[j].key # <<>>
    PROVE  /\ FromFields(F).ok =>
                 \E u : /\ FromFields(F) = [ok |-> TRUE, of |-> failure(agent, vm_id, reason, u, extra)]
                        /\ \/ u = <<>> /\ (url = <<>> \/ M < Len(P))
                           \/ url # <<>> /\ M = Len(P) /\ u = <<F[M].value>>
           /\ F = P => FromFields(F).ok
<1> DEFINE E == Len(extra)
           at == [name \in Standard |->
                    IF name = "result" THEN 1 ELSE IF name = "reason" THEN 2
                    ELSE IF name = "agent" THEN 3 ELSE IF name = "pps_type" THEN E + 4
                    ELSE IF name = "vm_id" THEN E + 5 ELSE IF name = "timestamp" THEN E + 6
                    ELSE E + 7]
           res == <<<<"error">>>>
<1>1. IsSeq(extra) /\ E \in Nat BY SeqFacts DEF GoodExtra
<1>2. /\ IsSeq(P) /\ Len(P) = E + (IF url = <<>> THEN 6 ELSE 7)
      /\ P[1] = Stated("result", <<"error">>) /\ P[2] = Stated("reason", reason)
      /\ P[3] = Stated("agent", agent)
      /\ \A x \in 1..E : P[3 + x] = extra[x]
      /\ P[E + 4] = Stated("pps_type", <<"None">>) /\ P[E + 5] = Stated("vm_id", vm_id)
      /\ P[E + 6] = Stated("timestamp", <<Timestamp>>)
      /\ url # <<>> => P[E + 7] = Stated("documentation_url", url[1])
  BY <1>1, FailurePairsAre, SMTT(30)
<1>3. Standard = {"result", "agent", "vm_id", "timestamp", "pps_type", "reason", "documentation_url"}
  BY DEF Standard
<1> HIDE DEF E
<1>4. /\ at["result"] = 1 /\ at["reason"] = 2 /\ at["agent"] = 3 /\ at["pps_type"] = E + 4
      /\ at["vm_id"] = E + 5 /\ at["timestamp"] = E + 6 /\ at["documentation_url"] = E + 7
      /\ \A name \in Standard : at[name] \in Nat \ {0} /\ (at[name] <= 3 \/ at[name] > E + 3)
  BY <1>1, <1>3
<1>5. /\ P[1].key = <<"result">> /\ P[2].key = <<"reason">> /\ P[3].key = <<"agent">>
      /\ P[E + 4].key = <<"pps_type">> /\ P[E + 5].key = <<"vm_id">>
      /\ P[E + 6].key = <<"timestamp">>
      /\ (url # <<>> => P[E + 7].key = <<"documentation_url">>)
      /\ P[1].value = <<"error">> /\ P[2].value = reason /\ P[3].value = agent
      /\ P[E + 4].value = <<"None">> /\ P[E + 5].value = vm_id /\ P[E + 6].value = <<Timestamp>>
  BY <1>2 DEF Stated
<1> HIDE DEF at
<1>6. /\ IsSeq(F) /\ Len(F) = M /\ M \in Nat /\ M # 0 /\ M <= E + 7 /\ (url = <<>> => M <= E + 6)
      /\ \A j \in 1..M : F[j].key = P[j].key
      /\ \A j \in 1..(M - 1) : F[j] = P[j]
  BY <1>1, <1>2 DEF Keyed
<1>7. ASSUME NEW j \in 1..M, j > 3, j <= E + 3, NEW name \in Standard PROVE P[j].key # <<name>>
  <2> DEFINE x == j - 3
  <2>1. x \in 1..E /\ 3 + x = j BY <1>1, <1>6, <1>7
  <2> HIDE DEF x
  <2>2. P[j] = extra[x] BY <1>2, <2>1
  <2> QED BY <2>1, <2>2 DEF PlainExtra, E
<1>a. ASSUME NEW j \in 1..M
      PROVE  \/ j = 1 \/ j = 2 \/ j = 3 \/ (j > 3 /\ j <= E + 3) \/ j = E + 4 \/ j = E + 5
             \/ j = E + 6 \/ (j = E + 7 /\ url # <<>>)
  BY <1>1, <1>6
<1>8. ASSUME NEW name \in Standard, NEW j \in 1..M PROVE P[j].key = <<name>> <=> j = at[name]
  <2>1. CASE j > 3 /\ j <= E + 3
    <3>1. P[j].key # <<name>> BY <1>7, <2>1
    <3>2. j # at[name] BY <1>1, <1>4, <2>1
    <3> QED BY <3>1, <3>2
  <2>3. \/ name = "result" \/ name = "agent" \/ name = "vm_id" \/ name = "timestamp"
        \/ name = "pps_type" \/ name = "reason" \/ name = "documentation_url"
    BY <1>3
  <2>4. /\ j = 1 => (P[j].key = <<name>> <=> name = "result")
        /\ j = 2 => (P[j].key = <<name>> <=> name = "reason")
        /\ j = 3 => (P[j].key = <<name>> <=> name = "agent")
    BY <1>5, OneIs, SMTT(30)
  <2>5. /\ j = E + 4 => (P[j].key = <<name>> <=> name = "pps_type")
        /\ j = E + 5 => (P[j].key = <<name>> <=> name = "vm_id")
        /\ j = E + 6 => (P[j].key = <<name>> <=> name = "timestamp")
        /\ (j = E + 7 /\ url # <<>>) => (P[j].key = <<name>> <=> name = "documentation_url")
    BY <1>5, OneIs, SMTT(30)
  <2>6. ASSUME NEW n \in {"result", "reason", "agent", "pps_type", "vm_id", "timestamp",
                          "documentation_url"}, name = n, ~(j > 3 /\ j <= E + 3)
        PROVE  P[j].key = <<name>> <=> j = at[name]
    <3>1. CASE n = "result" BY <1>1, <1>4, <1>a, <2>4, <2>5, <2>6, <3>1
    <3>2. CASE n = "reason" BY <1>1, <1>4, <1>a, <2>4, <2>5, <2>6, <3>2
    <3>3. CASE n = "agent" BY <1>1, <1>4, <1>a, <2>4, <2>5, <2>6, <3>3
    <3>4. CASE n = "pps_type" BY <1>1, <1>4, <1>a, <2>4, <2>5, <2>6, <3>4
    <3>5. CASE n = "vm_id" BY <1>1, <1>4, <1>a, <2>4, <2>5, <2>6, <3>5
    <3>6. CASE n = "timestamp" BY <1>1, <1>4, <1>a, <2>4, <2>5, <2>6, <3>6
    <3>7. CASE n = "documentation_url"
      <4>1. at[name] = E + 7 BY <1>4, <2>6, <3>7
      <4>2. CASE j = E + 7
        <5>1. url # <<>> BY <1>1, <1>a, <4>2
        <5> QED BY <2>5, <2>6, <3>7, <4>1, <4>2, <5>1
      <4>3. CASE j # E + 7
        <5>1. j = 1 \/ j = 2 \/ j = 3 \/ j = E + 4 \/ j = E + 5 \/ j = E + 6
          BY <1>a, <2>6, <4>3
        <5>2. P[j].key # <<name>> BY <2>4, <2>5, <2>6, <3>7, <5>1
        <5> QED BY <4>1, <4>3, <5>2
      <4> QED BY <4>2, <4>3
    <3> QED BY <3>1, <3>2, <3>3, <3>4, <3>5, <3>6, <3>7
  <2> QED BY <2>1, <2>3, <2>6
<1>9. Placed(F, Standard, at)
  <2>1. {"agent", "vm_id", "timestamp", "pps_type"} \subseteq Standard BY <1>3
  <2>2. \A name \in Standard : /\ at[name] \in Nat \ {0}
                               /\ \A j \in 1..Len(F) : F[j].key = <<name>> <=> j = at[name]
    BY <1>4, <1>6, <1>8, SMTT(30)
  <2> QED BY <1>6, <2>1, <2>2 DEF Placed
<1>10. F[1].key = <<"result">> BY <1>5, <1>6
<1>11. take_field(F, "result") = <<F[1].value>>
  <2> DEFINE p == at["result"]
  <2>1. p = 1 /\ "result" \in Standard BY <1>3, <1>4
  <2>2. \A j \in 1..Len(F) : F[j].key = <<"result">> <=> j = p BY <1>9, <2>1 DEF Placed
  <2>3. p \in Nat \ {0} /\ p <= Len(F) BY <1>6, <2>1
  <2> HIDE DEF p
  <2>4. IsSeq(F) BY <1>6
  <2>5. p <= Len(F) => Named(F, "result") = {p} /\ take_field(F, "result") = <<F[p].value>>
    BY <2>2, <2>3, <2>4, NamedIs
  <2> QED BY <2>1, <2>3, <2>5
<1>12. ASSUME M > 1 PROVE FromFields(F) = Typed(F, Standard, res)
  <2>1. 1 \in 1..(M - 1) BY <1>6, <1>12
  <2>2. F[1].value = <<"error">> BY <1>5, <1>6, <2>1
  <2>3. take_field(F, "result") = res BY <1>11, <2>2
  <2> QED BY <2>3 DEF FromFields
<1>13. M > 1 => FromFields(F) =
          IF Full(F, Standard, at, res) THEN ReportIn(F, Standard, at, res) ELSE Malformed
  BY <1>9, <1>12, TypedIs
<1>14. ASSUME FromFields(F).ok
       PROVE  \E u : /\ FromFields(F) = [ok |-> TRUE, of |-> failure(agent, vm_id, reason, u, extra)]
                     /\ \/ u = <<>> /\ (url = <<>> \/ M < Len(P))
                        \/ url # <<>> /\ M = Len(P) /\ u = <<F[M].value>>
  <2>1. M > 1
    <3>1. IsSeq(F) BY <1>6
    <3>2. Len(F) # 1 BY <1>10, <1>14, <3>1, OneIsTooFew
    <3> QED BY <1>6, <3>2
  <2>2. Full(F, Standard, at, res) /\ FromFields(F) = ReportIn(F, Standard, at, res)
    BY <1>13, <1>14, <2>1, MalformedIsNot
  <2>3. E + 6 <= M
    <3>1. "timestamp" \in Standard \ {"documentation_url"} BY <1>3
    <3>2. at["timestamp"] <= Len(F) BY <2>2, <3>1 DEF Full
    <3> QED BY <1>4, <1>6, <3>2
  <2> DEFINE K == OthersIn(F, Standard)
             ex == Slice(F, K)
             b == E + 3
             u == Own(F, Standard, at, "documentation_url")
  <2>4. Stretch(K, Len(F), 3, b)
    <3> SUFFICES ASSUME NEW x \in 1..Len(F) PROVE x \in K <=> 3 < x /\ x <= b BY DEF Stretch
    <3>1. x \in 1..M /\ DOMAIN F = 1..M BY <1>6, SeqFacts
    <3>2. x \in K <=> ~\E name \in Standard : F[x].key = <<name>> BY <3>1 DEF OthersIn
    <3>3. F[x].key = P[x].key BY <1>6, <3>1
    <3>4. CASE x > 3 /\ x <= E + 3
      <4>1. \A name \in Standard : P[x].key # <<name>> BY <1>7, <3>1, <3>4
      <4> QED BY <3>2, <3>3, <3>4, <4>1
    <3>5. CASE ~(x > 3 /\ x <= E + 3)
      <4>1. \/ x = 1 \/ x = 2 \/ x = 3 \/ x = E + 4 \/ x = E + 5 \/ x = E + 6
            \/ (x = E + 7 /\ url # <<>>)
        BY <1>a, <3>1, <3>5
      <4>2. \E name \in Standard : P[x].key = <<name>> BY <1>3, <1>5, <4>1
      <4>3. x \notin K BY <3>2, <3>3, <4>2
      <4> QED BY <3>5, <4>3
    <3> QED BY <3>4, <3>5
  <2>5. Part(ex, F, 3, b)
    <3> HIDE DEF K
    <3> DEFINE a == 3
    <3>1. IsSeq(F) /\ a \in Nat /\ b \in Nat /\ a <= b /\ b <= Len(F) BY <1>1, <1>6, <2>3
    <3>2. Stretch(K, Len(F), a, b) BY <2>4
    <3> HIDE DEF a, b
    <3>3. Part(ex, F, a, b) BY <3>1, <3>2, SliceIsPart
    <3> QED BY <3>3 DEF a
  <2>6. ex = extra
    <3>1. IsSeq(ex) /\ Len(ex) = E /\ \A x \in 1..E : ex[x] = F[3 + x] BY <1>1, <2>5 DEF Part
    <3>2. \A x \in 1..E : F[3 + x] = extra[x]
      <4> TAKE x \in 1..E
      <4>1. 3 + x \in 1..(M - 1) BY <1>1, <1>6, <2>3
      <4> QED BY <1>2, <1>6, <4>1
    <3> HIDE DEF ex
    <3>3. \A x \in 1..Len(ex) : ex[x] = extra[x] BY <3>1, <3>2
    <3>4. Len(ex) = Len(extra) BY <3>1 DEF E
    <3> QED BY <1>1, <3>1, <3>3, <3>4, SameSeq
  <2>7. ReportIn(F, Standard, at, res) = [ok |-> TRUE, of |-> failure(agent, vm_id, reason, u, extra)]
    <3>1. /\ F[2].value = reason /\ F[3].value = agent /\ F[E + 4].value = <<"None">>
          /\ F[E + 5].value = vm_id
      <4>1. /\ 2 \in 1..(M - 1) /\ 3 \in 1..(M - 1) /\ E + 4 \in 1..(M - 1)
            /\ E + 5 \in 1..(M - 1)
        BY <1>1, <1>6, <2>3
      <4> QED BY <1>5, <1>6, <4>1
    <3>2. Own(F, Standard, at, "reason") = <<reason>>
      <4>1. at["reason"] <= Len(F) BY <1>1, <1>4, <1>6, <2>3
      <4> QED BY <1>3, <1>4, <3>1, <4>1 DEF Own
    <3>3. res[1][1] = "error" OBVIOUS
    <3>4. <<"None">>[1] = "None" OBVIOUS
    <3>5. /\ F[at["agent"]].value = agent /\ F[at["vm_id"]].value = vm_id
          /\ F[at["pps_type"]].value[1] = "None"
      BY <1>4, <3>1, <3>4
    <3>6. Slice(F, OthersIn(F, Standard)) = extra BY <2>6
    <3> HIDE DEF res, ex, u
    <3>7. ReportIn(F, Standard, at, res) =
            [ok |-> TRUE,
             of |-> Report("error", agent, vm_id, <<Timestamp>>, "None", <<reason>>, u, extra)]
      BY <3>2, <3>3, <3>5, <3>6, Zenon DEF ReportIn, u
    <3> QED BY <3>7 DEF failure
  <2>8. \/ u = <<>> /\ (url = <<>> \/ M < Len(P))
        \/ url # <<>> /\ M = Len(P) /\ u = <<F[M].value>>
    <3>1. CASE M = E + 7
      <4>1. url # <<>> /\ M = Len(P) BY <1>1, <1>2, <1>6, <3>1
      <4>2. at["documentation_url"] = M /\ "documentation_url" \in Standard BY <1>3, <1>4, <3>1
      <4>3. u = <<F[M].value>> BY <1>6, <4>2 DEF Own
      <4> QED BY <4>1, <4>3
    <3>2. CASE M = E + 6
      <4>1. ~(at["documentation_url"] <= Len(F)) BY <1>1, <1>4, <1>6, <3>2
      <4>2. u = <<>> BY <4>1 DEF Own
      <4>3. url = <<>> \/ M < Len(P) BY <1>1, <1>2, <3>2
      <4> QED BY <4>2, <4>3
    <3> QED BY <1>1, <1>6, <2>3, <3>1, <3>2
  <2> HIDE DEF u
  <2> QED BY <2>2, <2>7, <2>8
<1>15. ASSUME F = P PROVE FromFields(F).ok
  <2>1. E + 6 <= M /\ M > 1 BY <1>1, <1>2, <1>6, <1>15
  <2>2. Full(F, Standard, at, res)
    <3>1. \A j \in 1..Len(F) : F[j].key # <<>> BY <1>6
    <3>2. \A name \in Standard \ {"documentation_url"} : at[name] <= Len(F)
      <4> TAKE name \in Standard \ {"documentation_url"}
      <4>1. \/ name = "result" \/ name = "agent" \/ name = "vm_id" \/ name = "timestamp"
            \/ name = "pps_type" \/ name = "reason"
        BY <1>3
      <4> QED BY <1>1, <1>4, <1>6, <2>1, <4>1
    <3>3. F[at["timestamp"]].value = <<Timestamp>> BY <1>4, <1>5, <1>15
    <3>4. F[at["pps_type"]].value = <<"None">> BY <1>4, <1>5, <1>15
    <3>5. \E t \in PpsTypes : F[at["pps_type"]].value = <<t>> BY <3>4 DEF PpsTypes
    <3> QED BY <3>1, <3>2, <3>3, <3>5, Zenon DEF Full
  <2>3. FromFields(F) = ReportIn(F, Standard, at, res) BY <1>13, <2>1, <2>2
  <2> QED BY <2>3 DEF ReportIn
<1> QED BY <1>14, <1>15

-----------------------------------------------------------------------------
(* From the text to the fields. *)

LEMMA WholeIsKeyed ==
    ASSUME NEW data, NEW P, Listed(data, P), Len(P) # 0
    PROVE  Keyed(P, P, Len(P)) /\ \A j \in 1..Len(P) : P[j].key # <<>>
<1> DEFINE M == Len(P)
           p == P[M]
<1>1. IsSeq(P) /\ M \in Nat /\ M # 0 /\ \A j \in 1..M : OkPair(P[j]) BY SeqFacts DEF Listed
<1>2. \A j \in 1..M : P[j].key # <<>> BY <1>1 DEF OkPair
<1>3. M \in 1..M BY <1>1
<1>4. OkPair(p) BY <1>1, <1>3
<1> HIDE DEF p
<1>5. IsSeq(p.value) /\ p = [key |-> p.key, value |-> p.value] BY <1>4 DEF OkPair
<1>6. SubSeq(p.value, 1, Len(p.value)) = p.value /\ Len(p.value) \in 0..Len(p.value)
  BY <1>5, WholeBegin, SeqFacts
<1>7. \E x \in 0..Len(p.value) : p = [key |-> p.key, value |-> SubSeq(p.value, 1, x)]
  BY <1>5, <1>6, Zenon
<1>8. \E x \in 0..Len(P[M].value) : P[M] = [key |-> P[M].key, value |-> SubSeq(P[M].value, 1, x)]
  BY <1>7 DEF p
<1> QED BY <1>1, <1>2, <1>8, Zenon DEF Keyed

(* What is read of a text is read of the first fields of P. *)
ReadFrom(t, P) ==
    \E M \in 1..Len(P) : \E F : /\ from_str(t) = FromFields(F)
                                /\ Keyed(F, P, M) /\ \A j \in 1..M : F[j].key # <<>>

LEMMA CutRead ==
    ASSUME NEW data, NEW P, Listed(data, P), Len(data) # 0, \A j \in 1..Len(data) : Good(data[j]),
           NEW n \in 0..Len(encode_report(data)),
           NEW t, t = SubSeq(encode_report(data), 1, n), from_str(t).ok
    PROVE  ReadFrom(t, P)
<1>1. IsSeq(data) /\ IsSeq(P) /\ Len(P) \in Nat BY SeqFacts DEF Listed
<1>2. validate_report_quoting(t) /\ from_str(t) = FromRecord(csv_record(t)) BY <1>1, ReadCut
<1>3. PICK M \in 1..Len(P) : \E F : /\ FromRecord(csv_record(t)) = FromFields(F)
                                    /\ CutFields(F, P, M)
  <2>1. FieldsCut(data, P, n, t) BY <1>2, FieldsOfCut
  <2> QED BY <2>1 DEF FieldsCut
<1>4. PICK F : FromRecord(csv_record(t)) = FromFields(F) /\ CutFields(F, P, M) BY <1>3
<1>5. M \in Nat /\ M # 0 BY <1>1
<1>6. from_str(t) = FromFields(F) BY <1>2, <1>4
<1>7. FromFields(F).ok BY <1>6
<1>8. Keyed(F, P, M) /\ \A j \in 1..M : F[j].key # <<>> BY <1>4, <1>5, <1>7, CutIsKeyed
<1> QED BY <1>6, <1>8, Zenon DEF ReadFrom

LEMMA WholeRead ==
    ASSUME NEW data, NEW P, Listed(data, P), Len(data) # 0, \A j \in 1..Len(data) : Good(data[j])
    PROVE  from_str(encode_report(data)) = FromFields(P)
<1> DEFINE text == encode_report(data)
<1>1. IsSeq(data) /\ IsSeq(P) /\ Len(data) = Len(P) /\ Len(data) \in Nat BY SeqFacts DEF Listed
<1>2. \A j \in 1..Len(data) : IsSeq(data[j]) BY DEF Good
<1>3. Len(data[1]) # 0
  <2>1. 1 \in 1..Len(P) BY <1>1
  <2> DEFINE p == P[1]
  <2>2. OkPair(p) /\ data[1] = Field(p.key, p.value) BY <2>1 DEF Listed
  <2> HIDE DEF p
  <2>3. IsSeq(p.key) /\ IsSeq(p.value) BY <2>2 DEF OkPair, BareKey
  <2> DEFINE a == Len(p.key)
             b == Len(p.value)
  <2>4. Len(data[1]) = a + 1 + b
    <3>1. Len(Field(p.key, p.value)) = Len(p.key) + 1 + Len(p.value) BY <2>3, FieldIs
    <3> QED BY <2>2, <3>1
  <2>5. a \in Nat /\ b \in Nat BY <2>3, SeqFacts
  <2> HIDE DEF a, b
  <2> QED BY <2>4, <2>5
<1>4. text # <<>> BY <1>1, <1>2, <1>3, TextNotEmpty
<1>5. validate_report_quoting(text) /\ from_str(text) = FromRecord(csv_record(text))
  BY <1>1, <1>4, ReadWhole
<1>6. IsSeq(text) /\ Len(text) \in 0..Len(text)
  <2>1. IsSeq(text) BY <1>1, WholeValid
  <2> HIDE DEF text
  <2> QED BY <2>1, SeqFacts
<1> HIDE DEF text
<1>7. text = SubSeq(text, 1, Len(text)) BY <1>6, WholeBegin
<1>8. FieldsCut(data, P, Len(text), text) BY <1>5, <1>6, <1>7, FieldsOfCut DEF text
<1>9. FromRecord(csv_record(text)) = FromFields(P) BY <1>8 DEF text, FieldsCut
<1> QED BY <1>5, <1>9 DEF text

-----------------------------------------------------------------------------
(* The pairs of --supporting-data. *)

LEMMA FirstIs ==
    ASSUME NEW raw, IsSeq(raw), NEW from \in Nat, NEW letters, NEW other
    PROVE  LET first == FirstOr(Behind(raw, from, letters), other)
           IN  first = other \/ (first \in Nat /\ from <= first /\ first <= Len(raw))
<1> DEFINE B == Behind(raw, from, letters)
<1>1. Len(raw) \in Nat BY SeqFacts
<1>2. B \subseteq Nat /\ \A i \in B : from <= i /\ i <= Len(raw) BY <1>1 DEF Behind
<1> HIDE DEF B
<1>3. B # {} => Min(B) \in B BY <1>2, Least
<1>4. B = {} => FirstOr(B, other) = other BY DEF FirstOr
<1>5. B # {} => FirstOr(B, other) = Min(B) BY DEF FirstOr
<1> QED BY <1>2, <1>3, <1>4, <1>5 DEF B

(* Where a field ends. *)
LEMMA FieldEnds ==
    ASSUME NEW raw, IsSeq(raw), NEW from \in Nat, from <= Len(raw) + 1
    PROVE  LET end == FieldEnd(raw, from)
           IN  end = 0 \/ (end \in Nat /\ from <= end /\ end <= Len(raw) + 1)
<1> DEFINE l == Len(raw)
           equals == FirstOr(Behind(raw, from, {"=", ","}), Len(raw) + 1)
           bare == FirstOr(Behind(raw, equals + 1, {","}), Len(raw) + 1)
           closed == FirstOr(Behind(raw, equals + 2, {raw[equals + 1]}), 0)
           end == FieldEnd(raw, from)
<1>1. l \in Nat BY SeqFacts
<1>2. equals = l + 1 \/ (equals \in Nat /\ from <= equals /\ equals <= l) BY FirstIs
<1>3. end = equals \/ end = bare \/ end = 0 \/ (end = closed + 1 /\ closed # 0)
  <2> DEFINE c1 == equals > Len(raw) \/ raw[equals] = ","
             c2 == equals = Len(raw) \/ raw[equals + 1] \notin QuoteSigns
             c3 == closed = 0 \/ (closed < Len(raw) /\ raw[closed + 1] # ",")
  <2>1. end = IF c1 THEN equals ELSE IF c2 THEN bare ELSE IF c3 THEN 0 ELSE closed + 1
    BY DEF FieldEnd
  <2> HIDE DEF c2, c1, end, bare, equals
  <2>2. c3 \/ closed # 0 OBVIOUS
  <2> HIDE DEF c3, closed
  <2> QED BY <2>1, <2>2
<1> HIDE DEF end
<1>a. from <= l + 1 OBVIOUS
<1> HIDE DEF equals, l
<1>4. equals \in Nat /\ from <= equals /\ equals <= l + 1 BY <1>1, <1>2, <1>a
<1>5. equals + 1 \in Nat /\ equals + 2 \in Nat BY <1>4
<1>6. bare = l + 1 \/ (bare \in Nat /\ equals + 1 <= bare /\ bare <= l) BY <1>5, FirstIs DEF l
<1>7. closed = 0 \/ (closed \in Nat /\ equals + 2 <= closed /\ closed <= l) BY <1>5, FirstIs DEF l
<1> HIDE DEF bare, closed
<1>8. end = 0 \/ (end \in Nat /\ from <= end /\ end <= l + 1)
  BY <1>1, <1>3, <1>4, <1>6, <1>7
<1> QED BY <1>8 DEF end, l

NextSpans(raw, spans) ==
    IF Last(spans).to \notin DOMAIN raw THEN spans
    ELSE Append(spans, Span(raw, Last(spans).to + 1))
Spanning(f, raw, n) ==
    f = [i \in 0..n |-> IF i = 0 THEN <<Span(raw, 1)>> ELSE NextSpans(raw, f[i - 1])]

LEMMA SpansExist ==
    ASSUME NEW raw, NEW m \in Nat
    PROVE  \E f : Spanning(f, raw, m)
<1> DEFINE Found(n) == \E f : Spanning(f, raw, n)
<1>1. Found(0)
  <2> DEFINE f == [i \in 0..0 |-> <<Span(raw, 1)>>]
             g == [i \in 0..0 |-> IF i = 0 THEN <<Span(raw, 1)>> ELSE NextSpans(raw, f[i - 1])]
  <2>1. \A i \in 0..0 : i = 0 OBVIOUS
  <2>2. \A i \in 0..0 : f[i] = g[i] BY <2>1
  <2>3. f = g BY <2>2
  <2> QED BY <2>3 DEF Spanning
<1>2. ASSUME NEW n \in 1..m, Found(n - 1) PROVE Found(n)
  <2>1. n \in Nat /\ n - 1 \in Nat OBVIOUS
  <2>2. PICK f : Spanning(f, raw, n - 1) BY <1>2
  <2> DEFINE g == [i \in 0..n |-> IF i = n THEN NextSpans(raw, f[n - 1]) ELSE f[i]]
  <2>3. ASSUME NEW i \in 0..n
        PROVE  g[i] = IF i = 0 THEN <<Span(raw, 1)>> ELSE NextSpans(raw, g[i - 1])
    <3>1. CASE i = n
      <4>1. g[i] = NextSpans(raw, f[n - 1]) BY <3>1
      <4>2. g[n - 1] = f[n - 1] /\ i # 0 BY <2>1, <3>1
      <4> HIDE DEF g
      <4> QED BY <3>1, <4>1, <4>2
    <3>2. CASE i # n
      <4>1. i \in 0..(n - 1) BY <2>1, <3>2
      <4>2. g[i] = f[i] BY <3>2
      <4>3. i # 0 => g[i - 1] = f[i - 1] BY <2>1, <4>1
      <4>4. f[i] = IF i = 0 THEN <<Span(raw, 1)>> ELSE NextSpans(raw, f[i - 1])
        BY <2>2, <4>1 DEF Spanning
      <4> HIDE DEF g
      <4> QED BY <4>2, <4>3, <4>4
    <3> QED BY <3>1, <3>2
  <2>4. Spanning(g, raw, n)
    <3> DEFINE h == [i \in 0..n |-> IF i = 0 THEN <<Span(raw, 1)>> ELSE NextSpans(raw, g[i - 1])]
    <3>1. \A i \in 0..n : g[i] = h[i] BY <2>3
    <3>2. g = h BY <3>1
    <3> QED BY <3>2 DEF Spanning
  <2> QED BY <2>4
<1>3. 0..m \subseteq {n \in Nat : Found(n)}
  <2> DEFINE S == {n \in Nat : Found(n)}
  <2> HIDE DEF Found
  <2>1. 0 \in S /\ \A n \in 1..m : n - 1 \in S => n \in S BY <1>1, <1>2
  <2> HIDE DEF S
  <2> QED BY <2>1, UptoInduction DEF S
<1> QED BY <1>3

(* The fields lie in the text, and no field but the last is an error. *)
InText(raw, from, to) ==
    /\ from \in Nat /\ from # 0
    /\ to = 0 \/ (to \in Nat /\ from <= to /\ to <= Len(raw) + 1)
OkSpans(raw, spans) ==
    /\ IsSeq(spans) /\ Len(spans) # 0
    /\ \A i \in 1..Len(spans) : InText(raw, spans[i].from, spans[i].to)
    /\ \A i \in 1..Len(spans) : i # Len(spans) => spans[i].to # 0

LEMMA SpanInText ==
    \A raw, from : IsSeq(raw) /\ from \in Nat /\ from # 0 /\ from <= Len(raw) + 1
                   => InText(raw, Span(raw, from).from, Span(raw, from).to)
BY FieldEnds DEF InText, Span

LEMMA AppendFacts ==
    ASSUME NEW s, IsSeq(s), NEW e
    PROVE  /\ IsSeq(Append(s, e)) /\ Len(Append(s, e)) = Len(s) + 1
           /\ Append(s, e)[Len(s) + 1] = e /\ \A i \in 1..Len(s) : Append(s, e)[i] = s[i]
<1>1. PICK S : s \in Seq(S) BY DEF IsSeq
<1>2. s \in Seq(S \cup {e}) /\ e \in S \cup {e} BY <1>1
<1>3. Append(s, e) \in Seq(S \cup {e}) BY <1>2
<1>4. Len(Append(s, e)) = Len(s) + 1 BY <1>2
<1>5. Append(s, e)[Len(s) + 1] = e BY <1>2
<1>6. \A i \in 1..Len(s) : Append(s, e)[i] = s[i] BY <1>2
<1> QED BY <1>3, <1>4, <1>5, <1>6 DEF IsSeq

LEMMA NextOk ==
    ASSUME NEW raw, IsSeq(raw), NEW spans, OkSpans(raw, spans)
    PROVE  OkSpans(raw, NextSpans(raw, spans))
<1> DEFINE n == Len(spans)
           to == spans[n].to
           e == Span(raw, to + 1)
           t == Append(spans, e)
<1>1. IsSeq(spans) /\ n \in Nat /\ n # 0 BY SeqFacts DEF OkSpans
<1>2. Last(spans) = spans[n] BY DEF Last
<1>3. CASE to \notin DOMAIN raw BY <1>2, <1>3 DEF NextSpans
<1>4. CASE to \in DOMAIN raw
  <2>1. to \in 1..Len(raw) /\ Len(raw) \in Nat BY <1>4, SeqFacts
  <2>2. NextSpans(raw, spans) = t BY <1>2, <1>4 DEF NextSpans
  <2> DEFINE from == to + 1
  <2>3. from \in Nat /\ from # 0 /\ from <= Len(raw) + 1
    <3> HIDE DEF to
    <3> QED BY <2>1
  <2> HIDE DEF from
  <2>4. InText(raw, Span(raw, from).from, Span(raw, from).to) BY <2>3, SpanInText
  <2>5. e = Span(raw, from) BY DEF from
  <2>6. to # 0 BY <2>1
  <2>7. to = spans[n].to OBVIOUS
  <2> HIDE DEF e, to
  <2>8. /\ IsSeq(t) /\ Len(t) = n + 1 /\ t[n + 1] = e
        /\ \A i \in 1..n : t[i] = spans[i]
    BY <1>1, AppendFacts
  <2> HIDE DEF t
  <2>9. /\ \A i \in 1..n : InText(raw, spans[i].from, spans[i].to)
        /\ \A i \in 1..n : i # n => spans[i].to # 0
    BY DEF OkSpans
  <2> HIDE DEF n
  <2>10. \A i \in 1..(n + 1) : i \in 1..n \/ i = n + 1 BY <1>1
  <2>11. ASSUME NEW i \in 1..(n + 1) PROVE InText(raw, t[i].from, t[i].to)
    <3>1. CASE i \in 1..n BY <2>8, <2>9, <3>1
    <3>2. CASE i = n + 1 BY <2>4, <2>5, <2>8, <3>2
    <3> QED BY <2>10, <3>1, <3>2
  <2>12. ASSUME NEW i \in 1..(n + 1), i # n + 1 PROVE t[i].to # 0
    <3>1. i \in 1..n BY <2>10, <2>12
    <3>2. t[i] = spans[i] BY <2>8, <3>1
    <3> QED BY <2>6, <2>7, <2>9, <3>1, <3>2
  <2>13. Len(t) # 0 BY <1>1, <2>8
  <2>14. OkSpans(raw, t) BY <2>8, <2>11, <2>12, <2>13, Zenon DEF OkSpans
  <2> QED BY <2>2, <2>14
<1> QED BY <1>3, <1>4

LEMMA SplitSpans ==
    ASSUME NEW raw, IsSeq(raw)
    PROVE  OkSpans(raw, split_supporting_data_fields(raw))
<1> DEFINE m == Len(raw)
           f == CHOOSE g : Spanning(g, raw, m)
<1>1. m \in Nat BY SeqFacts
<1>2. Spanning(f, raw, m) BY <1>1, SpansExist
<1>3. split_supporting_data_fields(raw) = f[m]
  BY Zenon DEF split_supporting_data_fields, Spanning, NextSpans
<1> HIDE DEF f, m
<1>4. f[0] = <<Span(raw, 1)>> /\ \A i \in 1..m : f[i] = NextSpans(raw, f[i - 1])
  BY <1>1, <1>2 DEF Spanning
<1>5. OkSpans(raw, <<Span(raw, 1)>>)
  <2> DEFINE e == Span(raw, 1)
             s == <<e>>
             one == 1
  <2>1. one \in Nat /\ one # 0 /\ one <= Len(raw) + 1
    <3>1. Len(raw) \in Nat BY SeqFacts
    <3> QED BY <3>1
  <2> HIDE DEF one
  <2>2. InText(raw, Span(raw, one).from, Span(raw, one).to) BY <2>1, SpanInText
  <2>3. InText(raw, e.from, e.to) BY <2>2 DEF one
  <2> HIDE DEF e
  <2>4. IsSeq(s) /\ Len(s) = 1 /\ s[1] = e BY OneFacts
  <2> HIDE DEF s
  <2>5. \A i \in 1..1 : i = 1 OBVIOUS
  <2>6. 1 # 0 OBVIOUS
  <2>7. OkSpans(raw, s) BY <2>3, <2>4, <2>5, <2>6 DEF OkSpans
  <2> QED BY <2>7 DEF s, e
<1> DEFINE S == {i \in Nat : OkSpans(raw, f[i])}
<1>6. 0 \in S BY <1>4, <1>5
<1>7. ASSUME NEW i \in 1..m, i - 1 \in S PROVE i \in S
  <2>1. OkSpans(raw, f[i - 1]) /\ i \in Nat BY <1>1, <1>7
  <2>2. OkSpans(raw, f[i]) BY <1>4, <2>1, NextOk
  <2> QED BY <2>1, <2>2
<1>8. 0..m \subseteq S
  <2> HIDE DEF S
  <2> QED BY <1>1, <1>6, <1>7, UptoInduction
<1>9. m \in 0..m BY <1>1
<1> QED BY <1>3, <1>8, <1>9

LEMMA SubIsSeq ==
    \A s, a, b : IsSeq(s) /\ a \in Nat /\ a # 0 /\ b \in Nat /\ a <= b /\ b <= Len(s) + 1
                 => IsSeq(SubSeq(s, a, b - 1))
<1> TAKE s, a, b
<1> HAVE IsSeq(s) /\ a \in Nat /\ a # 0 /\ b \in Nat /\ a <= b /\ b <= Len(s) + 1
<1> DEFINE x == a - 1
           y == b - 1
<1>1. Len(s) \in Nat BY SeqFacts
<1>2. x \in Nat /\ y \in Nat /\ x <= y /\ y <= Len(s) /\ x + 1 = a BY <1>1
<1> HIDE DEF x, y
<1>3. IsSeq(SubSeq(s, x + 1, y)) BY <1>2, SubFacts
<1> QED BY <1>2, <1>3 DEF y

LEMMA UnquotedIsSeq ==
    \A value : IsSeq(value) => IsSeq(unquote(value))
<1> TAKE value
<1> HAVE IsSeq(value)
<1> DEFINE n == Len(value)
<1>1. n \in Nat BY SeqFacts
<1>2. CASE unquote(value) = value BY <1>2
<1>3. CASE unquote(value) # value
  <2>1. n >= 2 /\ unquote(value) = SubSeq(value, 2, n - 1) BY <1>3 DEF unquote
  <2> DEFINE a == 2
  <2>2. a \in Nat /\ a # 0 /\ n \in Nat /\ a <= n /\ n <= n + 1 BY <1>1, <2>1
  <2>3. unquote(value) = SubSeq(value, a, n - 1) BY <2>1
  <2> HIDE DEF a
  <2>4. IsSeq(SubSeq(value, a, n - 1)) BY <2>2, SubIsSeq
  <2> QED BY <2>3, <2>4
<1> QED BY <1>2, <1>3

(* A field that has a key is one that has a value. *)
LEMMA FieldIsPair ==
    ASSUME NEW f, IsSeq(f), split_once(f).key # <<>>
    PROVE  OkPair(Unquote(split_once(f)))
<1> DEFINE E == {x \in 1..Len(f) : f[x] = "="}
<1>1. Len(f) \in Nat /\ E \subseteq Nat BY SeqFacts
<1>2. E # {} BY SplitShort
<1> DEFINE at == Min(E)
           k == at - 1
<1>3. at \in E /\ \A x \in E : at <= x
  <2> HIDE DEF E
  <2> QED BY <1>1, <1>2, Least
<1>4. at \in 1..Len(f) /\ f[at] = "=" BY <1>3
<1>5. \A x \in 1..Len(f) : f[x] = "=" => at <= x BY <1>3
<1> HIDE DEF at, E
<1>6. k \in Nat /\ k + 1 <= Len(f) /\ k + 1 = at BY <1>1, <1>4
<1>7. \A x \in 1..k : f[x] # "=" BY <1>1, <1>5, <1>6
<1> HIDE DEF k
<1> DEFINE key == SubSeq(f, 1, k)
           value == SubSeq(f, (k + 1) + 1, Len(f))
<1>8. f[k + 1] = "=" BY <1>4, <1>6
<1>9. split_once(f) = [key |-> key, value |-> value] BY <1>6, <1>7, <1>8, SplitLong
<1>10. IsSeq(key) /\ Len(key) = k /\ \A x \in 1..k : key[x] = f[x]
  <2>1. k <= Len(f) BY <1>1, <1>6
  <2> QED BY <1>6, <2>1, BeginIs
<1>11. IsSeq(value)
  <2> DEFINE a == (k + 1) + 1
             b == Len(f) + 1
  <2>1. a \in Nat /\ a # 0 /\ b \in Nat /\ a <= b /\ b <= Len(f) + 1 /\ b - 1 = Len(f)
    BY <1>1, <1>6
  <2> HIDE DEF a, b
  <2>2. IsSeq(SubSeq(f, a, b - 1)) BY <2>1, SubIsSeq
  <2> QED BY <2>1, <2>2 DEF a
<1>12. key # <<>> BY <1>9
<1>13. BareKey(key) BY <1>7, <1>10 DEF BareKey
<1> HIDE DEF key, value
<1> DEFINE u == unquote(value)
<1>14. IsSeq(u) BY <1>11, UnquotedIsSeq
<1> HIDE DEF u
<1>15. Unquote(split_once(f)) = [key |-> key, value |-> u]
  <2>1. [[key |-> key, value |-> value] EXCEPT !.value = u] = [key |-> key, value |-> u] OBVIOUS
  <2> QED BY <1>9, <2>1 DEF Unquote, u
<1>16. OkPair([key |-> key, value |-> u]) BY <1>12, <1>13, <1>14 DEF OkPair
<1> QED BY <1>15, <1>16

(* What --supporting-data is read as can be written in a report. *)
LEMMA DataIsGood ==
    ASSUME NEW raw, IsSeq(raw), parse_supporting_data(raw).ok
    PROVE  GoodExtra(parse_supporting_data(raw).pairs)
<1> DEFINE spans == split_supporting_data_fields(raw)
           fields == [i \in DOMAIN spans |-> SubSeq(raw, spans[i].from, spans[i].to - 1)]
           kept == Slice(fields, {i \in DOMAIN fields : fields[i] # <<>>})
           n == Len(spans)
           All == {fields[i] : i \in 1..n}
<1>1. OkSpans(raw, spans) BY SplitSpans
<1>2. parse_supporting_data(raw) =
          IF Last(spans).to = 0 THEN [ok |-> FALSE, pairs |-> <<>>] ELSE Pairs(kept)
  BY Zenon DEF parse_supporting_data, FromSpans
<1> HIDE DEF spans, kept
<1>3. IsSeq(spans) /\ n \in Nat /\ n # 0 /\ DOMAIN spans = 1..n BY <1>1, SeqFacts DEF OkSpans
<1>4. Last(spans) = spans[n] BY DEF Last
<1>5. spans[n].to # 0 /\ parse_supporting_data(raw) = Pairs(kept) BY <1>2, <1>4
<1>6. ASSUME NEW i \in 1..n PROVE IsSeq(fields[i])
  <2> DEFINE a == spans[i].from
             b == spans[i].to
  <2>1. b # 0 BY <1>1, <1>5 DEF OkSpans
  <2>2. InText(raw, a, b) BY <1>1 DEF OkSpans
  <2>3. fields[i] = SubSeq(raw, a, b - 1) BY <1>3
  <2> HIDE DEF a, b, fields
  <2>4. a \in Nat /\ a # 0 /\ b \in Nat /\ a <= b /\ b <= Len(raw) + 1 BY <2>1, <2>2 DEF InText
  <2>5. IsSeq(SubSeq(raw, a, b - 1)) BY <2>4, SubIsSeq
  <2> QED BY <2>3, <2>5
<1>7. fields \in Seq(All)
  <2>1. fields = [i \in 1..n |-> fields[i]] BY <1>3
  <2> HIDE DEF fields, n
  <2>2. fields \in [1..n -> All] BY <2>1
  <2> HIDE DEF All
  <2> QED BY <1>3, <2>2
<1>8. kept \in Seq(All)
  <2> HIDE DEF All, fields
  <2> QED BY <1>7, SliceIsSeq DEF kept
<1> DEFINE m == Len(kept)
<1>9. IsSeq(kept) /\ m \in Nat /\ DOMAIN kept = 1..m BY <1>8, SeqFacts DEF IsSeq
<1>10. \A i \in 1..m : IsSeq(kept[i])
  <2> TAKE i \in 1..m
  <2>1. kept[i] \in All
    <3> HIDE DEF All
    <3> QED BY <1>8
  <2> HIDE DEF fields
  <2> QED BY <1>6, <2>1
<1> HIDE DEF fields, All, n
<1> DEFINE pairs == [i \in DOMAIN kept |-> Unquote(split_once(kept[i]))]
<1>11. /\ \A i \in 1..m : split_once(kept[i]).key # <<>>
       /\ parse_supporting_data(raw).pairs = pairs
  <2>1. Pairs(kept).ok BY <1>5
  <2>2. Pairs(kept) = IF \E i \in DOMAIN kept : split_once(kept[i]).key = <<>>
                      THEN [ok |-> FALSE, pairs |-> <<>>]
                      ELSE [ok |-> TRUE, pairs |-> pairs]
    BY DEF Pairs
  <2> HIDE DEF pairs
  <2> QED BY <1>5, <1>9, <2>1, <2>2
<1>12. \A i \in 1..m : OkPair(pairs[i])
  <2> TAKE i \in 1..m
  <2>1. OkPair(Unquote(split_once(kept[i]))) BY <1>10, <1>11, FieldIsPair
  <2>2. pairs[i] = Unquote(split_once(kept[i])) BY <1>9
  <2> QED BY <2>1, <2>2
<1>13. IsSeq(pairs) /\ Len(pairs) = m
  <2>1. DOMAIN pairs = 1..m /\ pairs = [i \in 1..m |-> pairs[i]] BY <1>9
  <2> HIDE DEF pairs, m
  <2> QED BY <1>9, <2>1, SeqByDomain
<1> QED BY <1>11, <1>12, <1>13 DEF GoodExtra

-----------------------------------------------------------------------------
(* A cut is a beginning. *)

LEMMA Greatest ==
    ASSUME NEW S, NEW m \in Nat, S \subseteq 0..m, S # {}
    PROVE  Max(S) \in S /\ \A k \in S : k <= Max(S)
<1> DEFINE U == {u \in Nat : \A k \in S : k <= u}
<1>1. U \subseteq Nat /\ U # {} BY DEF U
<1> DEFINE top == Min(U)
<1>2. top \in U /\ \A u \in U : top <= u
  <2> HIDE DEF U
  <2> QED BY <1>1, Least
<1> HIDE DEF top
<1>3. top \in Nat /\ \A k \in S : k <= top BY <1>2
<1>4. top \in S
  <2> SUFFICES ASSUME top \notin S PROVE FALSE OBVIOUS
  <2>1. PICK k \in S : TRUE OBVIOUS
  <2>2. k \in Nat /\ k <= top /\ k # top BY <1>3, <2>1
  <2>3. top - 1 \in Nat BY <1>3, <2>2
  <2>4. \A j \in S : j <= top - 1
    <3> TAKE j \in S
    <3>1. j \in Nat /\ j <= top /\ j # top BY <1>3
    <3> QED BY <1>3, <3>1
  <2>5. top - 1 \in U BY <2>3, <2>4
  <2>6. top <= top - 1 BY <1>2, <2>5
  <2> QED BY <1>3, <2>6
<1> HIDE DEF U
<1>5. top \in S /\ \A k \in S : top >= k BY <1>3, <1>4
<1>6. Max(S) \in S /\ \A k \in S : Max(S) >= k BY <1>5, Zenon DEF Max
<1> QED
  <2> DEFINE x == Max(S)
  <2>1. x \in S /\ \A k \in S : x >= k BY <1>6
  <2> HIDE DEF x
  <2>2. \A k \in S : k <= x BY <2>1
  <2> QED BY <2>1, <2>2 DEF x

LEMMA TruncatedBegins ==
    ASSUME NEW text, IsSeq(text), NEW max \in Nat
    PROVE  \E n \in 0..Len(text) : Truncated(text, max) = SubSeq(text, 1, n)
<1> DEFINE fit == {n \in 0..Len(text) : Size(SubSeq(text, 1, n)) <= max}
<1>1. Len(text) \in Nat /\ fit \subseteq 0..Len(text) BY SeqFacts
<1>2. SubSeq(text, 1, 0) = <<>>
  <2>1. SubSeq(text, 1, 1 - 1) = <<>> BY NoLetters
  <2>2. 1 - 1 = 0 OBVIOUS
  <2> QED BY <2>1, <2>2
<1>3. Size(<<>>) = 0
  <2> DEFINE P == Places(<<>>, "é")
  <2>1. P = {} BY DEF Places
  <2>2. Size(<<>>) = Len(<<>>) + Cardinality(P) BY DEF Size
  <2> HIDE DEF P
  <2>3. Len(<<>>) = 0 /\ Cardinality({}) = 0 BY FS_EmptySet
  <2> QED BY <2>1, <2>2, <2>3
<1>4. 0 \in fit
  <2>1. 0 \in 0..Len(text) BY <1>1
  <2> DEFINE size == Size(SubSeq(text, 1, 0))
  <2>2. size = 0 BY <1>2, <1>3
  <2> HIDE DEF size
  <2>3. size <= max BY <2>2
  <2> QED BY <2>1, <2>3 DEF size
<1> DEFINE n == Max(fit)
<1>5. n \in fit
  <2> HIDE DEF fit
  <2> QED BY <1>1, <1>4, Greatest
<1>6. Truncated(text, max) = SubSeq(text, 1, n) BY DEF Truncated
<1> QED BY <1>5, <1>6
=============================================================================
