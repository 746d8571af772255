------------------------- MODULE DiagnosticsProofs -------------------------
(***************************************************************************)
(* Proofs about Diagnostics for any emissions, messages, other records and *)
(* limits: what the reader answers stands for what is in the pool, and     *)
(* what the writer and cloud-init write is what is read.                   *)
(***************************************************************************)
EXTENDS Diagnostics, TLAPS, FiniteSetTheorems, WellFoundedInduction, SequenceTheorems

IsSeq(s) == \E S : s \in Seq(S)

-----------------------------------------------------------------------------
(* Numbers and sequences. *)

(* A set of numbers that is not empty has a least one. *)
LEMMA Least ==
    ASSUME NEW S, S \subseteq Nat, S # {}
    PROVE  \E m \in S : \A k \in S : m <= k
<1>1. PICK m \in S : \A k \in S : ~(<<k, m>> \in OpToRel(<, Nat))
  BY NatLessThanWellFounded, WFMin, Zenon
<1>2. \A k \in S : m <= k
  <2>1. \A k \in S : ~(k < m) BY <1>1 DEF OpToRel
  <2> QED BY <2>1
<1> QED BY <1>2

(* Induction over 0..m, for a set of numbers. *)
LEMMA UptoInduction ==
    ASSUME NEW m \in Nat, NEW S, 0 \in S, \A k \in 1..m : k - 1 \in S => k \in S
    PROVE  0..m \subseteq S
<1> SUFFICES ASSUME ~(0..m \subseteq S) PROVE FALSE OBVIOUS
<1> DEFINE Bad == {k \in 0..m : k \notin S}
<1>1. Bad # {} /\ Bad \subseteq Nat OBVIOUS
<1>2. PICK n \in Bad : \A k \in Bad : n <= k
  <2> HIDE DEF Bad
  <2> QED BY <1>1, Least
<1>3. n \in 1..m /\ n - 1 \in 0..m /\ ~(n <= n - 1) OBVIOUS
<1>4. n - 1 \in S BY <1>2, <1>3
<1> QED BY <1>3, <1>4

(* What a sequence is made of. *)
LEMMA SeqFacts ==
    ASSUME NEW s, IsSeq(s)
    PROVE  Len(s) \in Nat /\ DOMAIN s = 1..Len(s)
<1>1. PICK S : s \in Seq(S) BY DEF IsSeq
<1> QED BY <1>1, LenProperties

(* A function on 1..n is a sequence. *)
LEMMA SeqByDomain ==
    ASSUME NEW n \in Nat, NEW s, DOMAIN s = 1..n, s = [i \in 1..n |-> s[i]]
    PROVE  IsSeq(s) /\ Len(s) = n
<1> DEFINE S == {s[i] : i \in 1..n}
<1>1. s \in [1..n -> S] OBVIOUS
<1>2. s \in Seq(S) BY <1>1
<1>3. Len(s) = n
  <2> HIDE DEF S
  <2>1. Len(s) \in Nat /\ 1..Len(s) = 1..n BY <1>2, LenProperties
  <2> QED BY <2>1
<1> QED BY <1>2, <1>3 DEF IsSeq

LEMMA AppendFacts ==
    ASSUME NEW s, IsSeq(s), NEW e
    PROVE  /\ IsSeq(Append(s, e)) /\ Len(Append(s, e)) = Len(s) + 1
           /\ \A i \in 1..Len(s) : Append(s, e)[i] = s[i]
           /\ Append(s, e)[Len(s) + 1] = e
           /\ Front(Append(s, e)) = s /\ Last(Append(s, e)) = e
<1>1. PICK S : s \in Seq(S) BY DEF IsSeq
<1>2. s \in Seq(S \cup {e}) /\ e \in S \cup {e} BY <1>1
<1>3. Append(s, e) \in Seq(S \cup {e}) BY <1>2
<1>4. Front(Append(s, e)) = s BY <1>2, <1>3 DEF Front
<1>5. Last(Append(s, e)) = e BY <1>2, <1>3 DEF Last
<1> QED BY <1>2, <1>3, <1>4, <1>5 DEF IsSeq

-----------------------------------------------------------------------------
(* FlattenSeq, which puts the parts of a pool's answer, and of a text,     *)
(* together.                                                               *)

Flattens(f, seqs, n) ==
    f = [i \in 1..n |-> IF i = 1 THEN seqs[i] ELSE f[i - 1] \o seqs[i]]

(* The recursion has a solution. *)
LEMMA FlattenExists ==
    ASSUME NEW seqs, NEW m \in Nat
    PROVE  \E f : Flattens(f, seqs, m)
<1> DEFINE Good(n) == \E f : Flattens(f, seqs, n)
<1>1. Good(0)
  <2> DEFINE f == [i \in 1..0 |-> 0]
  <2>1. Flattens(f, seqs, 0)
    <3> DEFINE g == [i \in 1..0 |-> IF i = 1 THEN seqs[i] ELSE f[i - 1] \o seqs[i]]
    <3>1. \A i \in 1..0 : f[i] = g[i] OBVIOUS
    <3>2. f = g BY <3>1
    <3> QED BY <3>2 DEF Flattens
  <2> QED BY <2>1
<1>2. ASSUME NEW n \in 1..m, Good(n - 1) PROVE Good(n)
  <2>1. n \in Nat /\ n - 1 \in Nat OBVIOUS
  <2>2. PICK f : Flattens(f, seqs, n - 1) BY <1>2
  <2> DEFINE part == IF n = 1 THEN seqs[n] ELSE f[n - 1] \o seqs[n]
             g == [i \in 1..n |-> IF i = n THEN part ELSE f[i]]
  <2>3. ASSUME NEW i \in 1..n
        PROVE  g[i] = IF i = 1 THEN seqs[i] ELSE g[i - 1] \o seqs[i]
    <3>1. CASE i = n
      <4>1. g[i] = part BY <3>1
      <4>2. n # 1 => g[n - 1] = f[n - 1] BY <2>1
      <4> HIDE DEF g
      <4> QED BY <3>1, <4>1, <4>2
    <3>2. CASE i # n
      <4>1. i \in 1..(n - 1) BY <2>1, <3>2
      <4>2. g[i] = f[i] BY <3>2
      <4>3. i # 1 => g[i - 1] = f[i - 1] BY <2>1, <4>1
      <4>4. f[i] = IF i = 1 THEN seqs[i] ELSE f[i - 1] \o seqs[i]
        BY <2>2, <4>1 DEF Flattens
      <4> HIDE DEF g
      <4> QED BY <4>2, <4>3, <4>4
    <3> QED BY <3>1, <3>2
  <2>4. Flattens(g, seqs, n)
    <3> DEFINE h == [i \in 1..n |-> IF i = 1 THEN seqs[i] ELSE g[i - 1] \o seqs[i]]
    <3>1. \A i \in 1..n : g[i] = h[i] BY <2>3
    <3>2. g = h BY <3>1
    <3> QED BY <3>2 DEF Flattens
  <2> QED BY <2>4
<1>3. 0..m \subseteq {n \in Nat : Good(n)}
  <2> DEFINE S == {n \in Nat : Good(n)}
  <2> HIDE DEF Good
  <2>1. 0 \in S /\ \A n \in 1..m : n - 1 \in S => n \in S BY <1>1, <1>2
  <2> HIDE DEF S
  <2> QED BY <2>1, UptoInduction DEF S
<1> QED BY <1>3

(* What the first n parts make. *)
Upto(f, n) == IF n = 0 THEN <<>> ELSE f[n]

(* A flattened sequence of parts grows part by part. *)
LEMMA FlattenGrows ==
    ASSUME NEW seqs, IsSeq(seqs), \A i \in DOMAIN seqs : IsSeq(seqs[i])
    PROVE  \E f : /\ FlattenSeq(seqs) = Upto(f, Len(seqs))
                  /\ \A n \in 1..Len(seqs) : Upto(f, n) = Upto(f, n - 1) \o seqs[n]
<1> DEFINE m == Len(seqs)
           f == CHOOSE g : g = [i \in 1..m |-> IF i = 1 THEN seqs[i] ELSE g[i - 1] \o seqs[i]]
<1>1. m \in Nat /\ DOMAIN seqs = 1..m BY SeqFacts
<1>2. \E g : g = [i \in 1..m |-> IF i = 1 THEN seqs[i] ELSE g[i - 1] \o seqs[i]]
  BY <1>1, FlattenExists DEF Flattens
<1>3. f = [i \in 1..m |-> IF i = 1 THEN seqs[i] ELSE f[i - 1] \o seqs[i]] BY <1>2
<1>4. FlattenSeq(seqs) = Upto(f, m)
  <2>1. CASE m = 0
    <3>1. seqs = <<>> BY <2>1 DEF IsSeq
    <3> QED BY <2>1, <3>1 DEF FlattenSeq, Upto
  <2>2. CASE m # 0 BY <2>2 DEF FlattenSeq, Upto
  <2> QED BY <2>1, <2>2
<1> HIDE DEF f
<1>5. ASSUME NEW n \in 1..m PROVE Upto(f, n) = Upto(f, n - 1) \o seqs[n]
  <2>1. n \in Nat /\ n # 0 /\ (n - 1 = 0 <=> n = 1) BY <1>1
  <2>2. f[n] = IF n = 1 THEN seqs[n] ELSE f[n - 1] \o seqs[n] BY <1>3
  <2>3. PICK S : seqs[n] \in Seq(S) BY <1>1 DEF IsSeq
  <2>4. <<>> \o seqs[n] = seqs[n] BY <2>3
  <2>5. CASE n = 1 BY <2>1, <2>2, <2>4, <2>5 DEF Upto
  <2>6. CASE n # 1 BY <2>1, <2>2, <2>6 DEF Upto
  <2> QED BY <2>5, <2>6
<1> QED BY <1>4, <1>5

(* s is what the first n parts hold, in their order: each of its places     *)
(* comes from one part, which at tells.                                    *)
Gathers(s, parts, n, at) ==
    /\ IsSeq(s) /\ at \in [1..Len(s) -> 1..n]
    /\ \A k \in 1..Len(s) : parts[at[k]] = <<s[k]>>
    /\ \A k, l \in 1..Len(s) : k < l => at[k] < at[l]
    /\ \A i \in 1..n : parts[i] # <<>> => \E k \in 1..Len(s) : at[k] = i

LEMMA Gathered ==
    ASSUME NEW parts, IsSeq(parts),
           \A i \in DOMAIN parts : parts[i] = <<>> \/ \E e : parts[i] = <<e>>
    PROVE  \E at : Gathers(FlattenSeq(parts), parts, Len(parts), at)
<1> DEFINE m == Len(parts)
<1>1. m \in Nat /\ DOMAIN parts = 1..m BY SeqFacts
<1>2. \A e : IsSeq(<<e>>) /\ IsSeq(<<>>)
  <2>1. ASSUME NEW e PROVE <<e>> \in Seq({e}) /\ <<>> \in Seq({e}) OBVIOUS
  <2> QED BY <2>1 DEF IsSeq
<1>3. \A i \in DOMAIN parts : IsSeq(parts[i]) BY <1>2
<1>4. PICK f : /\ FlattenSeq(parts) = Upto(f, m)
               /\ \A n \in 1..m : Upto(f, n) = Upto(f, n - 1) \o parts[n]
  BY <1>3, FlattenGrows
<1> HIDE DEF m
<1> DEFINE Good(n) == \E at : Gathers(Upto(f, n), parts, n, at)
<1>5. Good(0)
  <2> DEFINE at == [k \in 1..0 |-> 0]
  <2>1. Upto(f, 0) = <<>> BY DEF Upto
  <2>2. Len(<<>>) = 0 /\ \A k \in 1..0 : FALSE OBVIOUS
  <2>3. at \in [1..0 -> 1..0] OBVIOUS
  <2> DEFINE none == <<>>
  <2>4. IsSeq(none) /\ Len(none) = 0 BY <1>2, <2>2
  <2> HIDE DEF none, at
  <2>5. Gathers(none, parts, 0, at) BY <2>2, <2>3, <2>4 DEF Gathers
  <2> QED BY <2>1, <2>5 DEF none
<1>6. ASSUME NEW n \in 1..m, Good(n - 1) PROVE Good(n)
  <2> DEFINE s == Upto(f, n - 1)
             t == Upto(f, n)
  <2>1. n \in Nat /\ n - 1 \in Nat /\ 1..n = (1..(n - 1)) \cup {n} /\ n \notin 1..(n - 1) BY <1>1
  <2>2. t = s \o parts[n] BY <1>4
  <2>3. PICK at : Gathers(s, parts, n - 1, at) BY <1>6
  <2> HIDE DEF s, t
  <2>4. IsSeq(s) /\ Len(s) \in Nat BY <2>3, SeqFacts DEF Gathers
  <2>5. CASE parts[n] = <<>>
    <3>1. t = s
      <4>1. PICK S : s \in Seq(S) BY <2>4 DEF IsSeq
      <4> QED BY <2>2, <2>5, <4>1
    <3>2. Gathers(s, parts, n, at) BY <2>1, <2>3, <2>5 DEF Gathers
    <3> QED BY <3>1, <3>2 DEF t
  <2>6. CASE parts[n] # <<>>
    <3>1. PICK e : parts[n] = <<e>> BY <1>1, <2>6
    <3>2. t = Append(s, e)
      <4>1. PICK S : s \in Seq(S) BY <2>4 DEF IsSeq
      <4>2. s \in Seq(S \cup {e}) /\ e \in S \cup {e} BY <4>1
      <4> QED BY <2>2, <3>1, <4>2
    <3> DEFINE l == Len(s)
               new == [k \in 1..(l + 1) |-> IF k = l + 1 THEN n ELSE at[k]]
    <3>3. IsSeq(t) /\ Len(t) = l + 1 /\ (\A k \in 1..l : t[k] = s[k]) /\ t[l + 1] = e
      BY <2>4, <3>2, AppendFacts
    <3>4. 1..(l + 1) = (1..l) \cup {l + 1} /\ l + 1 \notin 1..l BY <2>4
    <3>5. new[l + 1] = n /\ \A k \in 1..l : new[k] = at[k] BY <3>4
    <3>6. new \in [1..(l + 1) -> 1..n] BY <2>1, <2>3, <3>4 DEF Gathers
    <3> HIDE DEF new
    <3>7. \A k \in 1..(l + 1) : parts[new[k]] = <<t[k]>> BY <2>3, <3>1, <3>3, <3>4, <3>5 DEF Gathers
    <3>8. \A k, j \in 1..(l + 1) : k < j => new[k] < new[j]
      <4>1. \A k \in 1..l : at[k] \in 1..(n - 1) /\ at[k] < n BY <2>1, <2>3 DEF Gathers
      <4>2. \A k, j \in 1..l : k < j => at[k] < at[j] BY <2>3 DEF Gathers
      <4>3. ASSUME NEW k \in 1..(l + 1), NEW j \in 1..(l + 1), k < j PROVE new[k] < new[j]
        <5>1. k \in 1..l BY <2>4, <4>3
        <5>2. CASE j = l + 1 BY <3>5, <4>1, <5>1, <5>2
        <5>3. CASE j # l + 1 BY <3>4, <3>5, <4>2, <4>3, <5>1, <5>3
        <5> QED BY <5>2, <5>3
      <4> QED BY <4>3
    <3>9. \A i \in 1..n : parts[i] # <<>> => \E k \in 1..(l + 1) : new[k] = i
      BY <2>1, <2>3, <3>4, <3>5 DEF Gathers
    <3> HIDE DEF l
    <3>10. Gathers(t, parts, n, new) BY <3>3, <3>6, <3>7, <3>8, <3>9 DEF Gathers
    <3> QED BY <3>10 DEF t
  <2> QED BY <2>5, <2>6
<1>7. Good(m)
  <2> DEFINE T == {n \in Nat : Good(n)}
  <2> HIDE DEF Good
  <2>1. 0 \in T /\ \A n \in 1..m : n - 1 \in T => n \in T BY <1>1, <1>5, <1>6
  <2> HIDE DEF T
  <2>2. 0..m \subseteq T BY <1>1, <2>1, UptoInduction
  <2> QED BY <1>1, <2>2 DEF T
<1> QED BY <1>4, <1>7 DEF m

-----------------------------------------------------------------------------
(* What each record of a pool leaves in the answer. *)

Members(pl, base) == {i \in DOMAIN pl : Place(pl[i]).as = "chunk" /\ Place(pl[i]).base = base}
Read(pl, base) == decode_group(base, Chunks(pl, Members(pl, base)))

EntryAt(pl, i) ==
    IF Place(pl[i]).as = "chunk"
    THEN Group(pl, Place(pl[i]).base, Members(pl, Place(pl[i]).base))[i]
    ELSE <<Single(pl[i], i, Place(pl[i]))>>

LEMMA Decodes ==
    ASSUME NEW pl
    PROVE  decode_entries(pl) = FlattenSeq([i \in DOMAIN pl |-> EntryAt(pl, i)])
<1> DEFINE place == [i \in DOMAIN pl |-> Place(pl[i])]
           members(base) == {i \in DOMAIN pl : place[i].as = "chunk" /\ place[i].base = base}
           bases == {place[i].base : i \in {j \in DOMAIN pl : place[j].as = "chunk"}}
           group == [base \in bases |-> Group(pl, base, members(base))]
           parts == [i \in DOMAIN pl |-> IF place[i].as = "chunk" THEN group[place[i].base][i]
                                         ELSE <<Single(pl[i], i, place[i])>>]
<1>1. \A i \in DOMAIN pl : place[i] = Place(pl[i]) OBVIOUS
<1>2. \A base : members(base) = Members(pl, base) BY <1>1 DEF Members
<1>3. ASSUME NEW i \in DOMAIN pl PROVE parts[i] = EntryAt(pl, i)
  <2>1. CASE place[i].as = "chunk"
    <3>1. place[i].base \in bases BY <2>1
    <3>2. group[place[i].base] = Group(pl, place[i].base, members(place[i].base)) BY <3>1
    <3>3. parts[i] = group[place[i].base][i] BY <2>1
    <3>4. members(place[i].base) = Members(pl, place[i].base) BY <1>2
    <3>5. EntryAt(pl, i) = Group(pl, Place(pl[i]).base, Members(pl, Place(pl[i]).base))[i]
      BY <1>1, <2>1 DEF EntryAt
    <3> HIDE DEF group, parts, members, place
    <3> QED BY <1>1, <3>2, <3>3, <3>4, <3>5
  <2>2. CASE place[i].as # "chunk"
    <3>1. parts[i] = <<Single(pl[i], i, place[i])>> BY <2>2
    <3>2. EntryAt(pl, i) = <<Single(pl[i], i, Place(pl[i]))>> BY <1>1, <2>2 DEF EntryAt
    <3> HIDE DEF parts, place
    <3> QED BY <1>1, <3>1, <3>2
  <2> QED BY <2>1, <2>2
<1>4. parts = [i \in DOMAIN pl |-> EntryAt(pl, i)]
  <2>1. DOMAIN parts = DOMAIN pl /\ parts = [i \in DOMAIN pl |-> parts[i]] OBVIOUS
  <2> HIDE DEF parts
  <2> QED BY <1>3, <2>1
<1>5. decode_entries(pl) = FlattenSeq(parts) BY Zenon DEF decode_entries
<1> QED BY <1>4, <1>5

(* A group leaves a diagnostic at its first record, or each record. *)
LEMMA GroupEntry ==
    ASSUME NEW pl, NEW i \in DOMAIN pl, Place(pl[i]).as = "chunk"
    PROVE  LET base == Place(pl[i]).base
               first == \A j \in Members(pl, base) : i <= j
           IN  /\ i \in Members(pl, base)
               /\ ~Read(pl, base).ok => EntryAt(pl, i) = <<RawEntry(i, Read(pl, base).error)>>
               /\ Read(pl, base).ok /\ first => EntryAt(pl, i) = <<DiagnosticEntry(Read(pl, base).of)>>
               /\ Read(pl, base).ok /\ ~first => EntryAt(pl, i) = <<>>
<1> DEFINE base == Place(pl[i]).base
           members == Members(pl, base)
           decoded == Read(pl, base)
<1>1. i \in members BY DEF Members
<1>2. EntryAt(pl, i) = Group(pl, base, members)[i] BY DEF EntryAt
<1>3. Group(pl, base, members) =
        [k \in members |-> IF ~decoded.ok THEN <<RawEntry(k, decoded.error)>>
            ELSE IF \A j \in members : k <= j THEN <<DiagnosticEntry(decoded.of)>> ELSE <<>>]
  BY Zenon DEF Group, Read
<1> HIDE DEF members, decoded, base
<1>4. EntryAt(pl, i) = IF ~decoded.ok THEN <<RawEntry(i, decoded.error)>>
            ELSE IF \A j \in members : i <= j THEN <<DiagnosticEntry(decoded.of)>> ELSE <<>>
  BY <1>1, <1>2, <1>3
<1> QED BY <1>1, <1>4 DEF members, decoded, base

LEMMA OneEntry ==
    ASSUME NEW pl, NEW i \in DOMAIN pl
    PROVE  EntryAt(pl, i) = <<>> \/ \E e : EntryAt(pl, i) = <<e>>
<1>1. CASE Place(pl[i]).as = "chunk" BY <1>1, GroupEntry, Zenon
<1>2. CASE Place(pl[i]).as # "chunk" BY <1>2, Zenon DEF EntryAt
<1> QED BY <1>1, <1>2

(* Where each entry of the answer comes from. *)
Stands(answer, pl, at) ==
    /\ IsSeq(answer) /\ at \in [1..Len(answer) -> DOMAIN pl]
    /\ \A k \in 1..Len(answer) : EntryAt(pl, at[k]) = <<answer[k]>>
    /\ \A k, l \in 1..Len(answer) : k < l => at[k] < at[l]
    /\ \A i \in DOMAIN pl : EntryAt(pl, i) # <<>> => \E k \in 1..Len(answer) : at[k] = i

LEMMA AnswerStands ==
    ASSUME NEW pl, IsSeq(pl)
    PROVE  \E at : Stands(decode_entries(pl), pl, at)
<1> DEFINE parts == [i \in DOMAIN pl |-> EntryAt(pl, i)]
           m == Len(pl)
<1>1. m \in Nat /\ DOMAIN pl = 1..m BY SeqFacts
<1>2. \A i \in 1..m : parts[i] = EntryAt(pl, i) BY <1>1
<1>3. IsSeq(parts) /\ Len(parts) = m /\ DOMAIN parts = 1..m
  <2>1. DOMAIN parts = 1..m /\ parts = [i \in 1..m |-> parts[i]] BY <1>1
  <2> HIDE DEF parts, m
  <2> QED BY <1>1, <2>1, SeqByDomain
<1>4. decode_entries(pl) = FlattenSeq(parts) BY Decodes
<1> HIDE DEF parts, m
<1>5. \A i \in DOMAIN parts : parts[i] = <<>> \/ \E e : parts[i] = <<e>>
  BY <1>1, <1>2, <1>3, OneEntry
<1>6. PICK at : Gathers(decode_entries(pl), parts, m, at) BY <1>3, <1>4, <1>5, Gathered
<1>7. Stands(decode_entries(pl), pl, at)
  <2> DEFINE answer == decode_entries(pl)
  <2> HIDE DEF answer
  <2>1. Gathers(answer, parts, m, at) BY <1>6 DEF answer
  <2>2. Stands(answer, pl, at) BY <1>1, <1>2, <2>1 DEF Gathers, Stands
  <2> QED BY <2>2 DEF answer
<1> QED BY <1>7

-----------------------------------------------------------------------------
(* What a record is, and what a group or a single record stands for.       *)

LEMMA SplitChunkKey ==
    ASSUME NEW key
    PROVE  \/ /\ split_chunk_key(key) = InGroup(Front(key), Unsigned(Last(key)))
              /\ Len(key) > 1 /\ IsUnsigned(Last(key))
           \/ /\ split_chunk_key(key) = Raw("malformed")
              /\ ~(Len(key) > 1 /\ IsUnsigned(Last(key)))
BY Zenon DEF split_chunk_key

LEMMA CloudInitSplitKey ==
    ASSUME NEW key
    PROVE  \/ cloud_init_split_key(key) = Raw("malformed")
           \/ /\ cloud_init_split_key(key) = InGroup(Front(key), Unsigned(Last(key)))
              /\ IsUnsigned(Last(key)) /\ CloudInitKeyOk(Front(key))
              /\ Len(key) \in 5..7
           \/ /\ cloud_init_split_key(key) = Alone(key, "cloud-init")
              /\ CloudInitKeyOk(key)
BY Zenon DEF cloud_init_split_key

LEMMA PlaceBy ==
    ASSUME NEW r
    PROVE  /\ Head(r.key) = "DIAG" => Place(r) = split_chunk_key(r.key)
           /\ Head(r.key) = "CLOUD_INIT" => Place(r) = cloud_init_split_key(r.key)
           /\ Head(r.key) \notin {"DIAG", "CLOUD_INIT"} =>
                 Place(r) \in {Alone(r.key, "report"), Raw("unsupported_version"), Raw("none")}
<1>4. /\ "DIAG" \notin Unsupported /\ "CLOUD_INIT" \notin Unsupported /\ "DIAG" # "CLOUD_INIT"
      /\ Head(<<"PROVISIONING_REPORT">>) \notin {"DIAG", "CLOUD_INIT"}
  BY DEF Unsupported
<1>1. Head(r.key) = "DIAG" => Place(r) = split_chunk_key(r.key) BY <1>4, Zenon DEF Place
<1>2. Head(r.key) = "CLOUD_INIT" => Place(r) = cloud_init_split_key(r.key) BY <1>4, Zenon DEF Place
<1>3. Head(r.key) \notin {"DIAG", "CLOUD_INIT"} =>
                 Place(r) \in {Alone(r.key, "report"), Raw("unsupported_version"), Raw("none")}
  BY Zenon DEF Place
<1> QED BY <1>1, <1>2, <1>3

(* A record of a group has the base of the group in front of its index. *)
LEMMA PlaceFacts ==
    ASSUME NEW r, IsSeq(r.key)
    PROVE  LET place == Place(r) IN
           /\ place.as \in {"raw", "chunk", "cloud-init", "report"}
           /\ place.as = "chunk" =>
                 /\ Len(r.key) > 1 /\ IsUnsigned(Last(r.key))
                 /\ place = InGroup(Front(r.key), Unsigned(Last(r.key)))
                 /\ place.base[1] = r.key[1] /\ r.key[1] \in {"DIAG", "CLOUD_INIT"}
                 /\ place.base = Front(r.key) /\ place.index = Unsigned(Last(r.key))
           /\ place.as = "cloud-init" => place.base = r.key /\ r.key[1] = "CLOUD_INIT"
<1>1. PICK S : r.key \in Seq(S) BY DEF IsSeq
<1>2. Len(r.key) \in Nat /\ Head(r.key) = r.key[1] /\ (Len(r.key) > 1 => Front(r.key)[1] = r.key[1])
  BY <1>1 DEF Front
<1>3. CloudInitKeyOk(Front(r.key)) => Len(r.key) > 1
  <2>1. Len(Front(r.key)) \in {5, 6} => Len(r.key) > 1
    <3>1. Len(Front(r.key)) = 5 \/ Len(Front(r.key)) = 6 => Len(r.key) > 1 BY <1>1 DEF Front
    <3> QED BY <3>1
  <2> QED BY <2>1 DEF CloudInitKeyOk
<1> DEFINE key == r.key
           group == InGroup(Front(key), Unsigned(Last(key)))
<1>4. /\ group.as = "chunk" /\ group.base = Front(key) /\ group.index = Unsigned(Last(key))
      /\ Alone(key, "cloud-init").as = "cloud-init" /\ Alone(key, "cloud-init").base = key
      /\ Alone(key, "report").as = "report" /\ \A e : Raw(e).as = "raw"
  BY DEF InGroup, Alone, Raw
<1>5. CASE key[1] = "DIAG"
  <2>1. Place(r) = split_chunk_key(key) BY <1>2, <1>5, PlaceBy
  <2>2. CASE Place(r) = group /\ Len(key) > 1 /\ IsUnsigned(Last(key))
    <3> HIDE DEF group
    <3> QED BY <1>2, <1>4, <1>5, <2>2 DEF group
  <2>3. CASE Place(r) = Raw("malformed") BY <1>4, <2>3
  <2> QED BY <2>1, <2>2, <2>3, SplitChunkKey
<1>6. CASE key[1] = "CLOUD_INIT"
  <2>1. Place(r) = cloud_init_split_key(key) BY <1>2, <1>6, PlaceBy
  <2>2. CASE Place(r) = group /\ IsUnsigned(Last(key)) /\ CloudInitKeyOk(Front(key))
    <3> HIDE DEF group
    <3> QED BY <1>2, <1>3, <1>4, <1>6, <2>2 DEF group
  <2>3. CASE Place(r) = Raw("malformed") BY <1>4, <2>3
  <2>4. CASE Place(r) = Alone(key, "cloud-init") BY <1>4, <1>6, <2>4
  <2> QED BY <2>1, <2>2, <2>3, <2>4, CloudInitSplitKey
<1>7. CASE key[1] \notin {"DIAG", "CLOUD_INIT"}
  <2>1. Place(r) \in {Alone(key, "report"), Raw("unsupported_version"), Raw("none")}
    BY <1>2, <1>7, PlaceBy
  <2> QED BY <1>4, <2>1
<1> QED BY <1>5, <1>6, <1>7

(* A native record with an unsigned index is in the group of its base. *)
LEMMA PlaceNative ==
    ASSUME NEW r, IsSeq(r.key), r.key[1] = "DIAG", Len(r.key) > 1, IsUnsigned(Last(r.key))
    PROVE  Place(r) = InGroup(Front(r.key), Unsigned(Last(r.key)))
<1>1. PICK S : r.key \in Seq(S) BY DEF IsSeq
<1>2. Head(r.key) = r.key[1] BY <1>1
<1>3. Place(r) = split_chunk_key(r.key) BY <1>2, PlaceBy
<1> QED BY <1>3, SplitChunkKey

Failed == Error(Blank).of

LEMMA DiagGroup ==
    ASSUME NEW base, NEW chunks
    PROVE  LET decoded == decode_payload(Joined(chunks), base[8])
           IN  \/ /\ DiagKeyOk(base) /\ ChunkError(chunks) = "none" /\ decoded.ok
                  /\ decode_diag_group(base, chunks) =
                        Ok(Diagnostic(base[4], base[2], base[3], base[5], base[6], base[7], base[8],
                                      decoded.payload, base[9], base[10]))
               \/ /\ ~(DiagKeyOk(base) /\ ChunkError(chunks) = "none" /\ decoded.ok)
                  /\ ~decode_diag_group(base, chunks).ok
<1>1. \A e : ~Error(e).ok BY DEF Error
<1> QED BY <1>1, Zenon DEF decode_diag_group

LEMMA CloudInitOf ==
    ASSUME NEW base, NEW meta, NEW text, cloud_init_diagnostic(base, meta, text).ok
    PROVE  LET message == decode_message(text, base[3] = "compressed")
               d == cloud_init_diagnostic(base, meta, text).of
           IN  /\ message.error = "none"
               /\ d.agent = "CLOUD_INIT" /\ d.name = base[4] /\ d.id = Last(base)
               /\ d.payload = message.payload
<1> DEFINE kind == base[3]
           result == CASE meta.result = "SUCCESS" -> "ok" [] meta.result = "FAIL" -> "error" [] OTHER -> Blank
           message == decode_message(text, kind = "compressed")
           normal == IF kind \in Kinds THEN kind ELSE "event"
           bad == \/ meta.name # base[4] \/ meta.type # kind
                  \/ ~IsUnsigned(meta.ts)
                  \/ ~Unescapes(text)
           late == \/ kind = "start" /\ (meta.result # Blank \/ meta.duration # Blank)
                   \/ kind = "finish" /\ (result = Blank \/ ~IsUnsigned(meta.duration))
           vm == IF Len(base) = 6 THEN base[5] ELSE Blank
           outcome == IF kind = "finish" THEN result ELSE Blank
           took == IF kind = "finish" THEN meta.duration ELSE Blank
           good == Diagnostic(normal, "CLOUD_INIT", vm, base[4],
                           Last(base), meta.ts, message.encoding, message.payload,
                           outcome, took)
<1>1. cloud_init_diagnostic(base, meta, text) =
        IF bad THEN Error("malformed")
        ELSE IF message.error # "none" THEN Error(message.error)
        ELSE IF late THEN Error("malformed") ELSE Ok(good)
  BY Zenon DEF cloud_init_diagnostic
<1> HIDE DEF bad, late, normal, vm, outcome, took, message
<1>2. \A e : ~Error(e).ok BY DEF Error
<1>3. ~bad /\ ~late /\ message.error = "none" /\ cloud_init_diagnostic(base, meta, text) = Ok(good)
  <2> HIDE DEF good
  <2>1. CASE bad BY <1>1, <1>2, <2>1
  <2>2. CASE ~bad /\ message.error # "none" BY <1>1, <1>2, <2>2
  <2>3. CASE ~bad /\ message.error = "none" /\ late BY <1>1, <1>2, <2>3
  <2> QED BY <1>1, <2>1, <2>2, <2>3
<1>4. Ok(good).of = good BY DEF Ok
<1>5. /\ good.agent = "CLOUD_INIT" /\ good.name = base[4] /\ good.id = Last(base)
      /\ good.payload = message.payload
  BY DEF Diagnostic
<1> HIDE DEF good
<1> QED BY <1>3, <1>4, <1>5 DEF message

LEMMA DecodeChunks ==
    ASSUME NEW base, NEW chunks
    PROVE  LET metas == {[c.value.meta EXCEPT !.msg_i = Blank] : c \in chunks}
           IN  \/ ~decode_chunks(base, chunks).ok
               \/ /\ ChunkError(chunks) = "none"
                  /\ decode_chunks(base, chunks) =
                       cloud_init_diagnostic(base, CHOOSE m \in metas : TRUE, Joined(chunks))
<1>1. \A e : ~Error(e).ok BY DEF Error
<1> QED BY <1>1, Zenon DEF decode_chunks

(* The diagnostic of a group has what the base key says, and every index is *)
(* there once.                                                             *)
LEMMA ReadCovers ==
    ASSUME NEW pl, NEW base, base[1] \in {"DIAG", "CLOUD_INIT"}, Read(pl, base).ok
    PROVE  /\ ChunkError(Chunks(pl, Members(pl, base))) = "none"
           /\ Covers(base, Read(pl, base).of)
<1> DEFINE chunks == Chunks(pl, Members(pl, base))
<1>1. CASE base[1] = "DIAG"
  <2>1. Read(pl, base) = decode_diag_group(base, chunks) BY <1>1 DEF Read, decode_group
  <2> HIDE DEF chunks
  <2> DEFINE d == Diagnostic(base[4], base[2], base[3], base[5], base[6], base[7], base[8],
                             decode_payload(Joined(chunks), base[8]).payload, base[9], base[10])
  <2>2. ChunkError(chunks) = "none" /\ Read(pl, base) = Ok(d) BY <2>1, DiagGroup
  <2>3. Ok(d).of = d BY DEF Ok
  <2>4. /\ d.agent = base[2] /\ d.vm_id = base[3] /\ d.kind = base[4] /\ d.name = base[5]
        /\ d.id = base[6] /\ d.ts = base[7]
    BY DEF Diagnostic
  <2> HIDE DEF d
  <2>5. Covers(base, d) BY <1>1, <2>4 DEF Covers
  <2> QED BY <2>2, <2>3, <2>5 DEF chunks
<1>2. CASE base[1] = "CLOUD_INIT"
  <2>1. Read(pl, base) = decode_chunks(base, chunks) BY <1>2 DEF Read, decode_group
  <2> HIDE DEF chunks
  <2>2. PICK meta : /\ ChunkError(chunks) = "none"
                    /\ Read(pl, base) = cloud_init_diagnostic(base, meta, Joined(chunks))
    BY <2>1, DecodeChunks
  <2>3. Covers(base, Read(pl, base).of) BY <1>2, <2>2, CloudInitOf DEF Covers
  <2> QED BY <2>2, <2>3 DEF chunks
<1> QED BY <1>1, <1>2

-----------------------------------------------------------------------------
(* Removing records: remove_current moves the last ones into the holes, so  *)
(* what is kept is there once, though not in the order it had.             *)

(* Counting what is not behind an element ranks a finite set. *)
LEMMA Ranked ==
    ASSUME NEW T, IsFiniteSet(T), NEW g \in [T -> SUBSET T], \A t \in T : t \in g[t],
           \A t, u \in T : t # u => \/ g[t] \subseteq g[u] /\ u \notin g[t]
                                    \/ g[u] \subseteq g[t] /\ t \notin g[u]
    PROVE  /\ Cardinality(T) \in Nat
           /\ \A t \in T : Cardinality(g[t]) \in 1..Cardinality(T)
           /\ \A t, u \in T : Cardinality(g[t]) = Cardinality(g[u]) => t = u
           /\ \A r \in 1..Cardinality(T) : \E t \in T : Cardinality(g[t]) = r
<1> DEFINE n == Cardinality(T)
           f == [t \in T |-> Cardinality(g[t])]
<1>1. n \in Nat BY FS_CardinalityType
<1>2. ASSUME NEW t \in T
      PROVE  IsFiniteSet(g[t]) /\ Cardinality(g[t]) \in Nat /\ Cardinality(g[t]) \in 1..n
  <2>1. g[t] \in SUBSET T OBVIOUS
  <2>2. IsFiniteSet(g[t]) /\ Cardinality(g[t]) <= n BY <2>1, FS_Subset
  <2>3. Cardinality(g[t]) \in Nat BY <2>2, FS_CardinalityType
  <2>4. g[t] # {} OBVIOUS
  <2>5. Cardinality(g[t]) # 0 BY <2>2, <2>4, FS_EmptySet, Zenon
  <2> HIDE DEF n
  <2> QED BY <1>1, <2>2, <2>3, <2>5
<1>3. ASSUME NEW t \in T, NEW u \in T, g[t] \subseteq g[u], u \notin g[t]
      PROVE  Cardinality(g[t]) # Cardinality(g[u])
  <2>1. g[t] \in SUBSET g[u] /\ g[t] # g[u] BY <1>3
  <2> QED BY <1>2, <2>1, FS_Subset
<1>4. \A t, u \in T : Cardinality(g[t]) = Cardinality(g[u]) => t = u BY <1>3, Zenon
<1>5. f \in Injection(T, 1..n)
  <2>1. f \in [T -> 1..n] BY <1>2
  <2>2. \A t, u \in T : f[t] = f[u] => t = u BY <1>4
  <2> HIDE DEF f, n
  <2> QED BY <2>1, <2>2 DEF Injection, IsInjective
<1>6. IsFiniteSet(1..n) /\ Cardinality(1..n) = n
  <2> HIDE DEF n
  <2> QED BY <1>1, FS_Interval
<1>7. f \in Surjection(T, 1..n)
  <2> HIDE DEF f
  <2> QED BY <1>5, <1>6, FS_Injection
<1>8. \A r \in 1..n : \E t \in T : f[t] = r
  <2> HIDE DEF f, n
  <2> QED BY <1>7 DEF Surjection
<1> QED BY <1>1, <1>2, <1>4, <1>8

(* new is old without some records, in any order: from is where each record *)
(* comes from.                                                             *)
Moved(new, old, kept, from) ==
    /\ IsSeq(new) /\ from \in [1..Len(new) -> kept]
    /\ \A i \in 1..Len(new) : new[i] = old[from[i]]
    /\ \A i, j \in 1..Len(new) : from[i] = from[j] => i = j
    /\ \A k \in kept : \E i \in 1..Len(new) : from[i] = k

LEMMA KeepingMoves ==
    ASSUME IsSeq(pool), NEW kept \in SUBSET DOMAIN pool
    PROVE  \E from : Moved(Keeping(kept), pool, kept, from)
<1> DEFINE m == Len(pool)
           size == Cardinality(kept)
           T == kept \ (1..size)
           H == (1..size) \ kept
           rank(i) == Cardinality((1..i) \ kept)
           above(t) == {u \in kept : u >= t}
           filler(i) == CHOOSE t \in kept \ (1..size) : Cardinality({u \in kept : u >= t}) = rank(i)
           from == [i \in 1..size |-> IF i \in kept THEN i ELSE filler(i)]
<1>1. m \in Nat /\ DOMAIN pool = 1..m /\ kept \subseteq 1..m BY SeqFacts
<1>2. IsFiniteSet(kept) /\ size \in Nat
  <2>1. IsFiniteSet(1..m) BY <1>1, FS_Interval
  <2>2. IsFiniteSet(kept) BY <1>1, <2>1, FS_Subset
  <2> QED BY <2>2, FS_CardinalityType
<1>3. IsFiniteSet(T) /\ IsFiniteSet(H) /\ Cardinality(T) = Cardinality(H)
  <2>1. IsFiniteSet(1..size) /\ Cardinality(1..size) = size
    <3> HIDE DEF size
    <3> QED BY <1>2, FS_Interval
  <2>2. Cardinality(T) = size - Cardinality(kept \cap (1..size)) /\ IsFiniteSet(T)
    BY <1>2, FS_Difference
  <2>3. Cardinality(H) = size - Cardinality((1..size) \cap kept) /\ IsFiniteSet(H)
    <3> HIDE DEF size
    <3> QED BY <2>1, FS_Difference
  <2>4. kept \cap (1..size) = (1..size) \cap kept OBVIOUS
  <2> QED BY <2>2, <2>3, <2>4
<1> HIDE DEF size
<1>4. \A t \in T : t \in 1..m /\ t > size /\ above(t) \in SUBSET T /\ t \in above(t)
  <2> HIDE DEF m
  <2> QED BY <1>1, <1>2
<1>5. /\ \A t \in T : Cardinality(above(t)) \in 1..Cardinality(T)
      /\ \A t, u \in T : Cardinality(above(t)) = Cardinality(above(u)) => t = u
      /\ \A r \in 1..Cardinality(T) : \E t \in T : Cardinality(above(t)) = r
  <2> DEFINE g == [t \in T |-> above(t)]
  <2>1. g \in [T -> SUBSET T] /\ \A t \in T : g[t] = above(t) /\ t \in g[t] BY <1>4
  <2>2. \A t, u \in T : t # u => \/ above(t) \subseteq above(u) /\ u \notin above(t)
                                 \/ above(u) \subseteq above(t) /\ t \notin above(u)
    <3> HIDE DEF m
    <3> QED BY <1>1, <1>4
  <2> HIDE DEF g, above, T
  <2>3. \A t, u \in T : t # u => \/ g[t] \subseteq g[u] /\ u \notin g[t]
                                 \/ g[u] \subseteq g[t] /\ t \notin g[u]
    BY <2>1, <2>2
  <2>4. g \in [T -> SUBSET T] /\ \A t \in T : t \in g[t] BY <2>1
  <2>5. /\ \A t \in T : Cardinality(g[t]) \in 1..Cardinality(T)
        /\ \A t, u \in T : Cardinality(g[t]) = Cardinality(g[u]) => t = u
        /\ \A r \in 1..Cardinality(T) : \E t \in T : Cardinality(g[t]) = r
    BY <1>3, <2>3, <2>4, Ranked
  <2>6. \A t \in T : Cardinality(g[t]) = Cardinality(above(t)) BY <2>1
  <2> QED BY <2>5, <2>6
<1>6. /\ \A h \in H : rank(h) \in 1..Cardinality(H)
      /\ \A h, k \in H : rank(h) = rank(k) => h = k
      /\ \A r \in 1..Cardinality(H) : \E h \in H : rank(h) = r
  <2> DEFINE g == [h \in H |-> (1..h) \ kept]
  <2>1. g \in [H -> SUBSET H] /\ \A h \in H : g[h] = (1..h) \ kept /\ h \in g[h]
    BY <1>2
  <2>2. \A h, k \in H : h # k => \/ g[h] \subseteq g[k] /\ k \notin g[h]
                                 \/ g[k] \subseteq g[h] /\ h \notin g[k]
    <3>1. \A h, k \in H : h < k => (1..h) \ kept \subseteq (1..k) \ kept /\ k \notin 1..h
      BY <1>2
    <3>2. \A h, k \in H : h # k => h < k \/ k < h BY <1>2
    <3>3. ASSUME NEW h \in H, NEW k \in H, h < k PROVE g[h] \subseteq g[k] /\ k \notin g[h]
      BY <2>1, <3>1, <3>3
    <3> HIDE DEF g, H
    <3> QED BY <3>2, <3>3
  <2>3. \A h \in H : Cardinality(g[h]) = rank(h) BY <2>1
  <2>4. g \in [H -> SUBSET H] /\ \A h \in H : h \in g[h] BY <2>1
  <2> HIDE DEF g, H, rank
  <2>5. /\ \A h \in H : Cardinality(g[h]) \in 1..Cardinality(H)
        /\ \A h, k \in H : Cardinality(g[h]) = Cardinality(g[k]) => h = k
        /\ \A r \in 1..Cardinality(H) : \E h \in H : Cardinality(g[h]) = r
    BY <1>3, <2>2, <2>4, Ranked
  <2> QED BY <2>3, <2>5
<1>7. ASSUME NEW i \in H
      PROVE  filler(i) \in T /\ Cardinality(above(filler(i))) = rank(i)
  <2>1. \E t \in T : Cardinality(above(t)) = rank(i)
    <3> HIDE DEF T, H, above, rank
    <3> QED BY <1>3, <1>5, <1>6
  <2> HIDE DEF rank
  <2> QED BY <2>1
<1> DEFINE new == Keeping(kept)
<1>8. new = [i \in 1..size |-> IF i \in kept THEN pool[i] ELSE pool[filler(i)]]
  BY DEF Keeping, size
<1>9. IsSeq(new) /\ Len(new) = size
  <2>1. DOMAIN new = 1..size /\ new = [i \in 1..size |-> new[i]] BY <1>8
  <2> HIDE DEF new
  <2> QED BY <1>2, <2>1, SeqByDomain
<1>10. \A i \in 1..size : from[i] = (IF i \in kept THEN i ELSE filler(i)) OBVIOUS
<1>11. \A i \in 1..size : (i \notin kept <=> i \in H) OBVIOUS
<1>12. DOMAIN from = 1..size /\ from = [i \in 1..size |-> from[i]] OBVIOUS
<1> HIDE DEF filler, from, new
<1>13. from \in [1..size -> kept]
  <2>1. ASSUME NEW i \in 1..size PROVE from[i] \in kept
    <3>1. CASE i \in kept BY <1>10, <3>1
    <3>2. CASE i \in H
      <4>1. from[i] = filler(i) /\ filler(i) \in T BY <1>7, <1>10, <1>11, <3>2
      <4> QED BY <4>1
    <3> QED BY <1>11, <3>1, <3>2
  <2> QED BY <1>12, <2>1
<1>14. \A i \in 1..size : new[i] = pool[from[i]] BY <1>8, <1>10
<1>15. ASSUME NEW i \in 1..size, NEW j \in 1..size, from[i] = from[j] PROVE i = j
  <2>1. CASE i \in kept /\ j \in kept BY <1>10, <1>15, <2>1
  <2>2. CASE i \in H /\ j \in H
    <3>1. from[i] = filler(i) /\ from[j] = filler(j) BY <1>10, <1>11, <2>2
    <3>2. rank(i) = rank(j) BY <1>7, <1>15, <2>2, <3>1
    <3> HIDE DEF H, rank
    <3> QED BY <1>6, <2>2, <3>2
  <2>3. ASSUME NEW h \in H, NEW k \in 1..size, k \in kept, from[k] = from[h] PROVE FALSE
    <3>1. from[k] = k /\ from[h] = filler(h) /\ filler(h) \in T BY <1>7, <1>10, <1>11, <2>3
    <3>2. k \notin T OBVIOUS
    <3> QED BY <2>3, <3>1, <3>2
  <2>4. CASE i \in H /\ j \in kept BY <1>15, <2>3, <2>4
  <2>5. CASE j \in H /\ i \in kept BY <1>15, <2>3, <2>5
  <2> QED BY <1>11, <2>1, <2>2, <2>4, <2>5
<1>16. ASSUME NEW k \in kept PROVE \E i \in 1..size : from[i] = k
  <2>1. CASE k \in 1..size BY <1>10, <2>1
  <2>2. CASE k \in T
    <3>1. PICK h \in H : rank(h) = Cardinality(above(k))
      <4> HIDE DEF H, T, rank, above
      <4> QED BY <1>3, <1>5, <1>6, <2>2
    <3>2. filler(h) = k
      <4>1. filler(h) \in T /\ Cardinality(above(filler(h))) = Cardinality(above(k)) BY <1>7, <3>1
      <4> HIDE DEF T, above
      <4> QED BY <1>5, <2>2, <4>1
    <3> QED BY <1>10, <1>11, <3>2
  <2> QED BY <2>1, <2>2
<1>17. Moved(new, pool, kept, from)
  <2> HIDE DEF T, H, m
  <2> QED BY <1>9, <1>13, <1>14, <1>15, <1>16 DEF Moved
<1> QED BY <1>17 DEF new

-----------------------------------------------------------------------------
(* Groups without an error. *)

(* Every index from 0 on is there, once. *)
LEMMA IndexOnce ==
    ASSUME NEW chunks, IsFiniteSet(chunks), ChunkError(chunks) = "none"
    PROVE  /\ Cardinality(chunks) \in Nat
           /\ \A c, d \in chunks : c.index = d.index => c = d
           /\ {c.index : c \in chunks} = 0..(Cardinality(chunks) - 1)
<1> DEFINE indices == {c.index : c \in chunks}
           f == [c \in chunks |-> c.index]
<1>1. f \in Surjection(chunks, indices)
  <2>1. f \in [chunks -> indices] /\ \A x \in indices : \E c \in chunks : f[c] = x OBVIOUS
  <2> HIDE DEF f, indices
  <2> QED BY <2>1 DEF Surjection
<1>2. \A c \in chunks : f[c] = c.index OBVIOUS
<1>3. ~(Cardinality(indices) < Cardinality(chunks)) /\ indices = 0..(Cardinality(chunks) - 1)
  <2>1. "duplicate_chunk" # "none" /\ "incomplete_group" # "none" OBVIOUS
  <2> QED BY <2>1, Zenon DEF ChunkError
<1> HIDE DEF f, indices
<1>4. /\ Cardinality(chunks) \in Nat /\ IsFiniteSet(indices) /\ Cardinality(indices) <= Cardinality(chunks)
      /\ Cardinality(indices) = Cardinality(chunks) => f \in Injection(chunks, indices)
  BY <1>1, FS_CardinalityType, FS_Surjection
<1>5. Cardinality(indices) \in Nat BY <1>4, FS_CardinalityType
<1>6. f \in Injection(chunks, indices) BY <1>3, <1>4, <1>5
<1>7. \A c, d \in chunks : f[c] = f[d] => c = d BY <1>6 DEF Injection, IsInjective
<1> QED BY <1>2, <1>3, <1>4, <1>7 DEF indices

LEMMA ChunksOf ==
    ASSUME NEW pl, IsSeq(pl), NEW members \in SUBSET DOMAIN pl
    PROVE  /\ IsFiniteSet(members) /\ IsFiniteSet(Chunks(pl, members))
           /\ Cardinality(Chunks(pl, members)) = Cardinality(members)
           /\ Cardinality(members) \in Nat
<1> DEFINE f == [i \in members |-> [position |-> i, index |-> Unsigned(Last(pl[i].key)), value |-> pl[i].value]]
           chunks == Chunks(pl, members)
<1>1. IsFiniteSet(members) /\ Cardinality(members) \in Nat
  <2>1. Len(pl) \in Nat /\ DOMAIN pl = 1..Len(pl) BY SeqFacts
  <2>2. IsFiniteSet(1..Len(pl)) BY <2>1, FS_Interval
  <2>3. IsFiniteSet(members) BY <2>1, <2>2, FS_Subset
  <2> QED BY <2>3, FS_CardinalityType
<1>2. f \in Surjection(members, chunks) /\ f \in Injection(members, chunks)
  <2>1. f \in [members -> chunks] BY DEF Chunks
  <2>2. \A c \in chunks : \E i \in members : f[i] = c BY DEF Chunks
  <2>3. \A i \in members : f[i].position = i OBVIOUS
  <2> HIDE DEF f, chunks
  <2> QED BY <2>1, <2>2, <2>3 DEF Surjection, Injection, IsInjective
<1> HIDE DEF f
<1>3. IsFiniteSet(chunks) /\ Cardinality(chunks) = Cardinality(members)
  BY <1>1, <1>2, FS_Surjection
<1> QED BY <1>1, <1>3

(* Two records of a group without an error differ in their index. *)
LEMMA MembersOnce ==
    ASSUME NEW pl, IsSeq(pl), NEW members \in SUBSET DOMAIN pl,
           ChunkError(Chunks(pl, members)) = "none", NEW i \in members, NEW j \in members,
           Unsigned(Last(pl[i].key)) = Unsigned(Last(pl[j].key))
    PROVE  i = j
<1> DEFINE chunk(k) == [position |-> k, index |-> Unsigned(Last(pl[k].key)), value |-> pl[k].value]
<1>1. chunk(i) \in Chunks(pl, members) /\ chunk(j) \in Chunks(pl, members) BY DEF Chunks
<1>2. chunk(i).index = chunk(j).index /\ chunk(i).position = i /\ chunk(j).position = j OBVIOUS
<1> HIDE DEF chunk
<1>3. chunk(i) = chunk(j) BY <1>1, <1>2, ChunksOf, IndexOnce
<1> QED BY <1>2, <1>3

-----------------------------------------------------------------------------
(* NothingLost. *)

(* A record is in the answer itself, or it is a diagnostic of its own, or  *)
(* its group is one.                                                       *)
LEMMA EntryRecord ==
    ASSUME NEW pl, NEW i \in DOMAIN pl, IsSeq(pl[i].key)
    PROVE  LET place == Place(pl[i]) IN
           \/ \E e : EntryAt(pl, i) = <<e>> /\ e.record = i /\ e.is # "diagnostic"
           \/ /\ place.as = "cloud-init"
              /\ \E d : /\ EntryAt(pl, i) = <<DiagnosticEntry(d)>>
                        /\ Covers(place.base, d)
           \/ /\ place.as = "chunk" /\ Read(pl, place.base).ok
              /\ EntryAt(pl, i) \in {<<>>, <<DiagnosticEntry(Read(pl, place.base).of)>>}
<1> DEFINE place == Place(pl[i])
           decoded == decode_single(place.base, pl[i].value)
<1>1. /\ \A e : RawEntry(i, e).record = i /\ RawEntry(i, e).is # "diagnostic"
      /\ ReportEntry(i).record = i /\ ReportEntry(i).is # "diagnostic"
  <2>1. "raw" # "diagnostic" /\ "report" # "diagnostic" OBVIOUS
  <2> QED BY <2>1 DEF RawEntry, ReportEntry, Entry
<1>2. CASE place.as = "chunk"
  <2>1. CASE ~Read(pl, place.base).ok
    <3>1. EntryAt(pl, i) = <<RawEntry(i, Read(pl, place.base).error)>> BY <1>2, <2>1, GroupEntry, Zenon
    <3> QED BY <1>1, <3>1, Zenon
  <2>2. CASE Read(pl, place.base).ok BY <1>2, <2>2, GroupEntry, Zenon
  <2> QED BY <2>1, <2>2
<1>3. CASE place.as # "chunk"
  <2>1. EntryAt(pl, i) = <<Single(pl[i], i, place)>> BY <1>3, Zenon DEF EntryAt
  <2>2. \/ \E e : Single(pl[i], i, place) = RawEntry(i, e)
        \/ Single(pl[i], i, place) = ReportEntry(i)
        \/ /\ place.as \notin {"raw", "report"} /\ decoded.ok
           /\ Single(pl[i], i, place) = DiagnosticEntry(decoded.of)
    BY Zenon DEF Single
  <2>3. CASE (\E e : Single(pl[i], i, place) = RawEntry(i, e)) \/ Single(pl[i], i, place) = ReportEntry(i)
    <3> HIDE DEF place
    <3> QED BY <1>1, <2>1, <2>3 DEF place
  <2>4. CASE /\ place.as \notin {"raw", "report"} /\ decoded.ok
             /\ Single(pl[i], i, place) = DiagnosticEntry(decoded.of)
    <3>1. place.as = "cloud-init" /\ place.base[1] = "CLOUD_INIT" BY <1>3, <2>4, PlaceFacts
    <3>2. decoded = cloud_init_diagnostic(place.base, pl[i].value.meta, pl[i].value.text)
      <4>1. \A e : ~Error(e).ok BY DEF Error
      <4> QED BY <2>4, <4>1, Zenon DEF decode_single
    <3> HIDE DEF decoded, place
    <3>3. Covers(place.base, decoded.of) BY <2>4, <3>1, <3>2, CloudInitOf DEF Covers
    <3> QED BY <2>1, <2>4, <3>1, <3>3 DEF place
  <2> QED BY <2>2, <2>3, <2>4
<1> QED BY <1>2, <1>3

(* A group that is read is in the answer. *)
LEMMA ReadIsDecoded ==
    ASSUME IsSeq(pool), NEW at, Stands(entries, pool, at), NEW base, Members(pool, base) # {},
           Read(pool, base).ok
    PROVE  Read(pool, base).of \in Decoded
<1>1. Members(pool, base) \subseteq Nat /\ Members(pool, base) \subseteq DOMAIN pool
  <2>1. Len(pool) \in Nat /\ DOMAIN pool = 1..Len(pool) BY SeqFacts
  <2> QED BY <2>1 DEF Members
<1>2. PICK i \in Members(pool, base) : \A j \in Members(pool, base) : i <= j BY <1>1, Least
<1>3. i \in DOMAIN pool /\ Place(pool[i]).as = "chunk" /\ Place(pool[i]).base = base BY DEF Members
<1>4. EntryAt(pool, i) = <<DiagnosticEntry(Read(pool, base).of)>> BY <1>2, <1>3, GroupEntry, Zenon
<1>5. PICK k \in 1..Len(entries) : at[k] = i
  <2>1. \A e : <<e>> # <<>> OBVIOUS
  <2> QED BY <1>3, <1>4, <2>1, Zenon DEF Stands
<1>6. <<entries[k]>> = <<DiagnosticEntry(Read(pool, base).of)>> BY <1>4, <1>5 DEF Stands
<1>7. entries[k] = DiagnosticEntry(Read(pool, base).of) BY <1>6
<1>8. entries[k].is = "diagnostic" /\ entries[k].of = Read(pool, base).of
  BY <1>7 DEF DiagnosticEntry, Entry
<1>9. DOMAIN entries = 1..Len(entries) BY SeqFacts DEF Stands
<1> QED BY <1>8, <1>9 DEF Decoded

LEMMA NothingLostHere ==
    ASSUME IsSeq(pool), \A i \in DOMAIN pool : IsSeq(pool[i].key), entries = decode_entries(pool)
    PROVE  NothingLost
<1>1. PICK at : Stands(entries, pool, at) BY AnswerStands
<1>2. DOMAIN entries = 1..Len(entries) /\ Len(entries) \in Nat BY <1>1, SeqFacts DEF Stands
<1>3. DOMAIN pool = 1..Len(pool) /\ Len(pool) \in Nat BY SeqFacts
<1>4. \A d : DiagnosticEntry(d).is = "diagnostic" /\ DiagnosticEntry(d).record = 0 /\ DiagnosticEntry(d).of = d
  BY DEF DiagnosticEntry, Entry
<1> DEFINE kept == {entries[i].record : i \in DOMAIN entries} \ {0}
<1>5. ASSUME NEW k \in DOMAIN entries, entries[k].record # 0 PROVE entries[k].record = at[k]
  <2>1. at[k] \in DOMAIN pool /\ EntryAt(pool, at[k]) = <<entries[k]>> BY <1>1, <1>2 DEF Stands
  <2>2. \A d : <<entries[k]>> # <<DiagnosticEntry(d)>>
    <3>1. \A d : entries[k] # DiagnosticEntry(d) BY <1>4, <1>5
    <3> QED BY <3>1
  <2>3. <<entries[k]>> # <<>> OBVIOUS
  <2>4. PICK e : EntryAt(pool, at[k]) = <<e>> /\ e.record = at[k]
    BY <2>1, <2>2, <2>3, EntryRecord
  <2>5. e = entries[k] BY <2>1, <2>4
  <2> QED BY <2>4, <2>5
<1>6. \A i, j \in DOMAIN entries : i # j /\ entries[i].record # 0 => entries[i].record # entries[j].record
  <2>1. \A i, j \in DOMAIN entries : i < j \/ j < i \/ i = j BY <1>2
  <2>2. \A i, j \in DOMAIN entries : i < j => at[i] < at[j] BY <1>1, <1>2 DEF Stands
  <2>3. \A i \in DOMAIN entries : at[i] \in Nat BY <1>1, <1>2, <1>3 DEF Stands
  <2>4. \A i, j \in DOMAIN entries : i # j => at[i] # at[j]
    <3>1. ASSUME NEW i \in DOMAIN entries, NEW j \in DOMAIN entries, i < j PROVE at[i] # at[j]
      BY <2>2, <2>3, <3>1
    <3> QED BY <2>1, <3>1
  <2> QED BY <1>5, <2>4
<1>7. ASSUME NEW i \in DOMAIN pool \ kept
      PROVE  /\ Place(pool[i]).as \in {"chunk", "cloud-init"}
             /\ \E d \in Decoded : Covers(Place(pool[i]).base, d)
             /\ Place(pool[i]).as = "chunk" =>
                   \A j \in DOMAIN pool \ {i} : pool[i].key # pool[j].key
  <2> DEFINE place == Place(pool[i])
  <2>1. i \in DOMAIN pool /\ i # 0 /\ IsSeq(pool[i].key) BY <1>3
  <2>2. ASSUME NEW e, EntryAt(pool, i) = <<e>> PROVE \E k \in DOMAIN entries : entries[k] = e
    <3>1. <<e>> # <<>> OBVIOUS
    <3>2. PICK k \in 1..Len(entries) : at[k] = i BY <1>1, <2>1, <2>2, <3>1 DEF Stands
    <3>3. <<entries[k]>> = <<e>> BY <1>1, <2>2, <3>2 DEF Stands
    <3> QED BY <1>2, <3>3
  <2>3. ~ \E e : EntryAt(pool, i) = <<e>> /\ e.record = i
    <3>1. \A k \in DOMAIN entries : entries[k].record # i BY <2>1
    <3> QED BY <2>2, <3>1
  <2>4. CASE /\ place.as = "cloud-init"
             /\ \E d : EntryAt(pool, i) = <<DiagnosticEntry(d)>> /\ Covers(place.base, d)
    <3>1. PICK d : EntryAt(pool, i) = <<DiagnosticEntry(d)>> /\ Covers(place.base, d) BY <2>4
    <3>2. PICK k \in DOMAIN entries : entries[k] = DiagnosticEntry(d) BY <2>2, <3>1
    <3>3. d \in Decoded BY <1>4, <3>2 DEF Decoded
    <3>4. "cloud-init" # "chunk" OBVIOUS
    <3> QED BY <2>4, <3>1, <3>3, <3>4
  <2>5. CASE place.as = "chunk" /\ Read(pool, place.base).ok
    <3> DEFINE base == place.base
               members == Members(pool, base)
    <3>1. base[1] \in {"DIAG", "CLOUD_INIT"} BY <2>1, <2>5, PlaceFacts
    <3>2. i \in members /\ members \in SUBSET DOMAIN pool BY <2>5 DEF Members
    <3> HIDE DEF place, base
    <3>3. ChunkError(Chunks(pool, members)) = "none" /\ Covers(base, Read(pool, base).of)
      BY <2>5, <3>1, ReadCovers DEF base
    <3>4. Read(pool, base).of \in Decoded BY <1>1, <2>5, <3>2, ReadIsDecoded DEF base
    <3>5. ASSUME NEW j \in DOMAIN pool \ {i}, pool[i].key = pool[j].key PROVE FALSE
      <4>1. Place(pool[j]) = Place(pool[i])
        <5>1. \A r, s : r.key = s.key => Place(r) = Place(s) BY Zenon DEF Place
        <5> QED BY <3>5, <5>1
      <4>2. j \in members BY <2>5, <4>1 DEF Members, base, place
      <4> HIDE DEF members
      <4> QED BY <3>2, <3>3, <3>5, <4>2, MembersOnce
    <3> QED BY <2>5, <3>3, <3>4, <3>5 DEF base, place
  <2> QED BY <2>1, <2>3, <2>4, <2>5, EntryRecord
<1> HIDE DEF kept
<1> QED BY <1>6, <1>7 DEF NothingLost, kept

-----------------------------------------------------------------------------
(* Texts and their chunks. *)

LEMMA Greatest ==
    ASSUME NEW n \in Nat, NEW S, S \subseteq 0..n, S # {}
    PROVE  \E m \in S : \A k \in S : k <= m
<1> DEFINE R == {n - k : k \in S}
<1>1. R \subseteq Nat /\ R # {}
  <2>1. \A k \in S : n - k \in Nat OBVIOUS
  <2> QED BY <2>1
<1>2. PICK r \in R : \A k \in R : r <= k
  <2> HIDE DEF R
  <2> QED BY <1>1, Least
<1>3. PICK m \in S : r = n - m OBVIOUS
<1>4. ASSUME NEW k \in S PROVE k <= m
  <2>1. n - k \in R /\ r <= n - k BY <1>2
  <2>2. k \in Nat /\ m \in Nat OBVIOUS
  <2> HIDE DEF R
  <2> QED BY <1>3, <2>1, <2>2
<1> QED BY <1>4

LEMMA TextIs ==
    ASSUME NEW t
    PROVE  IsText(t) <=> IsSeq(t) /\ \A i \in DOMAIN t : t[i].bytes \in 1..MaxChunkBytes
<1>1. ASSUME NEW S, t \in Seq(S) PROVE t \in Seq(ToSet(t))
  <2>1. \A i \in 1..Len(t) : t[i] \in ToSet(t) BY <1>1 DEF ToSet
  <2>2. Len(t) \in Nat /\ t = [i \in 1..Len(t) |-> t[i]] BY <1>1
  <2>3. t \in [1..Len(t) -> ToSet(t)] BY <2>1, <2>2
  <2> QED BY <2>2, <2>3
<1> QED BY <1>1, Zenon DEF IsText, IsSeq

(* A part of a text. *)
LEMMA SubText ==
    ASSUME NEW t, IsText(t), NEW a \in Nat, NEW b \in 0..Len(t), a <= b
    PROVE  LET s == SubSeq(t, a + 1, b) IN
           /\ IsText(s) /\ Len(s) = b - a
           /\ \A i \in 1..(b - a) : s[i] = t[a + i]
<1>1. PICK S : t \in Seq(S) BY DEF IsText
<1>2. Len(t) \in Nat BY <1>1
<1> DEFINE s == SubSeq(t, a + 1, b)
<1>3. /\ s \in Seq(S) /\ Len(s) = b - a /\ DOMAIN s = 1..(b - a)
      /\ \A i \in 1..(b - a) : s[i] = t[a + i]
  BY <1>1, <1>2
<1>4. DOMAIN t = 1..Len(t) BY <1>1
<1> HIDE DEF s
<1>5. ASSUME NEW i \in DOMAIN s PROVE s[i].bytes \in 1..MaxChunkBytes
  <2>1. a + i \in DOMAIN t /\ s[i] = t[a + i] BY <1>2, <1>3, <1>4
  <2> QED BY <2>1, TextIs
<1>6. IsText(s) BY <1>3, <1>5, TextIs DEF IsSeq
<1> QED BY <1>3, <1>6 DEF s

LEMMA FirstBytes ==
    ASSUME NEW t, IsSeq(t)
    PROVE  /\ Len(t) = 0 => Bytes(t) = 0
           /\ Len(t) = 1 /\ t[1].bytes \in Nat => Bytes(t) = t[1].bytes
<1> DEFINE Sums(f, n) == f = [i \in 0..n |-> IF i = 0 THEN 0 ELSE f[i - 1] + t[i].bytes]
<1>1. Bytes(t) = (CHOOSE f : Sums(f, Len(t)))[Len(t)] BY DEF Bytes
<1>2. ASSUME Len(t) = 0 PROVE Bytes(t) = 0
  <2> DEFINE z == [i \in 0..0 |-> 0]
             y == [i \in 0..0 |-> IF i = 0 THEN 0 ELSE z[i - 1] + t[i].bytes]
  <2>1. \A i \in 0..0 : z[i] = y[i] OBVIOUS
  <2>2. z = y BY <2>1
  <2>3. Sums(z, 0) BY <2>2
  <2>4. PICK f : Sums(f, 0) /\ Bytes(t) = f[0] BY <1>1, <1>2, <2>3
  <2> QED BY <2>4
<1>3. ASSUME Len(t) = 1, t[1].bytes \in Nat PROVE Bytes(t) = t[1].bytes
  <2> DEFINE z == [i \in 0..1 |-> IF i = 0 THEN 0 ELSE t[1].bytes]
             y == [i \in 0..1 |-> IF i = 0 THEN 0 ELSE z[i - 1] + t[i].bytes]
  <2>1. \A i \in 0..1 : z[i] = y[i]
    <3>1. z[0] = 0 /\ z[1] = t[1].bytes OBVIOUS
    <3>2. y[0] = 0 /\ y[1] = z[0] + t[1].bytes OBVIOUS
    <3>3. 0..1 = {0, 1} OBVIOUS
    <3> HIDE DEF z, y
    <3> QED BY <1>3, <3>1, <3>2, <3>3
  <2>2. z = y BY <2>1
  <2>3. Sums(z, 1) BY <2>2
  <2> HIDE DEF z, y
  <2>4. PICK f : Sums(f, 1) /\ Bytes(t) = f[1] BY <1>1, <1>3, <2>3
  <2>5. f[0] = 0 /\ f[1] = f[0] + t[1].bytes BY <2>4
  <2> QED BY <1>3, <2>4, <2>5
<1> QED BY <1>2, <1>3

(* A chunk fits, and takes a letter if there is one. *)
LEMMA CutFacts ==
    ASSUME NEW t, IsText(t)
    PROVE  /\ Cut(t) \in 0..Len(t) /\ Bytes(SubSeq(t, 1, Cut(t))) <= MaxChunkBytes
           /\ Len(t) > 0 => Cut(t) > 0
<1>1. Len(t) \in Nat /\ DOMAIN t = 1..Len(t) BY TextIs, SeqFacts
<1> DEFINE fits == {n \in 0..Len(t) : Bytes(SubSeq(t, 1, n)) <= MaxChunkBytes}
<1>2. 0 \in fits
  <2>1. IsText(SubSeq(t, 1, 0)) /\ Len(SubSeq(t, 1, 0)) = 0
    <3>1. 0 \in Nat /\ 0 \in 0..Len(t) /\ 0 <= 0 BY <1>1
    <3>2. IsText(SubSeq(t, 0 + 1, 0)) /\ Len(SubSeq(t, 0 + 1, 0)) = 0 - 0 BY <3>1, SubText
    <3>3. 0 + 1 = 1 /\ 0 - 0 = 0 OBVIOUS
    <3> QED BY <3>2, <3>3
  <2>2. Bytes(SubSeq(t, 1, 0)) = 0 BY <2>1, TextIs, FirstBytes
  <2>3. 0 \in 0..Len(t) BY <1>1
  <2>4. 0 <= MaxChunkBytes
    <3>1. MaxChunkBytes \in Nat BY LimitsAssumption
    <3> QED BY <3>1
  <2> QED BY <2>2, <2>3, <2>4
<1>3. Len(t) > 0 => 1 \in fits
  <2> SUFFICES ASSUME Len(t) > 0 PROVE 1 \in fits OBVIOUS
  <2> DEFINE s == SubSeq(t, 1, 1)
  <2>1. IsText(s) /\ Len(s) = 1
    <3>1. IsText(SubSeq(t, 0 + 1, 1)) /\ Len(SubSeq(t, 0 + 1, 1)) = 1 - 0 BY <1>1, SubText
    <3> QED BY <3>1
  <2> HIDE DEF s
  <2>2. IsSeq(s) /\ s[1].bytes \in 1..MaxChunkBytes
    <3>1. IsSeq(s) /\ \A i \in DOMAIN s : s[i].bytes \in 1..MaxChunkBytes BY <2>1, TextIs
    <3>2. 1 \in DOMAIN s BY <2>1, <3>1, SeqFacts
    <3> QED BY <3>1, <3>2
  <2>3. MaxChunkBytes \in Nat BY LimitsAssumption
  <2>4. Bytes(s) <= MaxChunkBytes BY <2>1, <2>2, <2>3, FirstBytes
  <2> QED BY <1>1, <2>4 DEF s
<1>4. Cut(t) = CHOOSE n \in fits : \A m \in fits : m <= n BY DEF Cut
<1>5. \A n \in fits : n \in 0..Len(t) /\ Bytes(SubSeq(t, 1, n)) <= MaxChunkBytes OBVIOUS
<1>6. \E n \in fits : \A m \in fits : m <= n
  <2>1. fits \subseteq 0..Len(t) /\ fits # {} BY <1>2
  <2> HIDE DEF fits
  <2> QED BY <1>1, <2>1, Greatest
<1> HIDE DEF fits
<1>7. Cut(t) \in fits /\ \A m \in fits : m <= Cut(t) BY <1>4, <1>6
<1>8. Len(t) > 0 => Cut(t) > 0
  <2>1. Len(t) > 0 => 1 <= Cut(t) /\ Cut(t) \in Nat BY <1>1, <1>3, <1>5, <1>7
  <2> QED BY <2>1
<1> QED BY <1>5, <1>7, <1>8

(* The recursion of ChunkStarts has a solution. *)
Starts(f, t, n) ==
    f = [i \in 0..n |-> IF i = 0 THEN 0 ELSE f[i - 1] + Cut(SubSeq(t, f[i - 1] + 1, Len(t)))]

LEMMA StartsExist ==
    ASSUME NEW t, NEW m \in Nat
    PROVE  \E f : Starts(f, t, m)
<1> DEFINE Good(n) == \E f : Starts(f, t, n)
           Next1(v) == v + Cut(SubSeq(t, v + 1, Len(t)))
<1>1. Good(0)
  <2> DEFINE f == [i \in 0..0 |-> 0]
             g == [i \in 0..0 |-> IF i = 0 THEN 0 ELSE f[i - 1] + Cut(SubSeq(t, f[i - 1] + 1, Len(t)))]
  <2>1. \A i \in 0..0 : f[i] = g[i] OBVIOUS
  <2>2. f = g BY <2>1
  <2>3. Starts(f, t, 0) BY <2>2 DEF Starts
  <2> QED BY <2>3
<1>2. ASSUME NEW n \in 1..m, Good(n - 1) PROVE Good(n)
  <2>1. n \in Nat /\ n - 1 \in Nat /\ n # 0 /\ n - 1 \in 0..(n - 1) OBVIOUS
  <2>2. PICK f : Starts(f, t, n - 1) BY <1>2
  <2> DEFINE g == [i \in 0..n |-> IF i = n THEN Next1(f[n - 1]) ELSE f[i]]
             h == [i \in 0..n |-> IF i = 0 THEN 0 ELSE Next1(g[i - 1])]
  <2>3. g[n] = Next1(f[n - 1]) /\ \A i \in 0..(n - 1) : g[i] = f[i] BY <2>1
  <2>4. \A i \in 0..(n - 1) : f[i] = IF i = 0 THEN 0 ELSE Next1(f[i - 1]) BY <2>2 DEF Starts
  <2>5. \A i \in 0..n : h[i] = IF i = 0 THEN 0 ELSE Next1(g[i - 1]) OBVIOUS
  <2>6. DOMAIN g = 0..n /\ DOMAIN h = 0..n /\ g = [i \in 0..n |-> g[i]] /\ h = [i \in 0..n |-> h[i]] OBVIOUS
  <2> HIDE DEF g, h, Next1
  <2>7. ASSUME NEW i \in 0..n PROVE g[i] = h[i]
    <3>1. CASE i = n BY <2>1, <2>3, <2>5, <3>1
    <3>2. CASE i # n
      <4>1. i \in 0..(n - 1) /\ (i # 0 => i - 1 \in 0..(n - 1)) BY <2>1, <3>2
      <4> QED BY <2>3, <2>4, <2>5, <4>1
    <3> QED BY <3>1, <3>2
  <2>8. g = h BY <2>6, <2>7
  <2>9. Starts(g, t, n) BY <2>8 DEF Starts, h, Next1
  <2> QED BY <2>9
<1>3. 0..m \subseteq {n \in Nat : Good(n)}
  <2> DEFINE S == {n \in Nat : Good(n)}
  <2> HIDE DEF Good
  <2>1. 0 \in S /\ \A n \in 1..m : n - 1 \in S => n \in S BY <1>1, <1>2
  <2> HIDE DEF S
  <2> QED BY <2>1, UptoInduction DEF S
<1> QED BY <1>3

(* Each chunk begins where the one before it ends, and further on as long  *)
(* as there is text.                                                       *)
LEMMA StartsFacts ==
    ASSUME NEW t, IsText(t)
    PROVE  LET start == ChunkStarts(t)
               n == Len(t)
           IN  /\ n \in Nat /\ start[0] = 0
               /\ \A i \in 0..n : start[i] \in 0..n
               /\ \A i \in 1..n : /\ start[i - 1] <= start[i]
                                  /\ start[i - 1] < n => start[i - 1] < start[i]
                                  /\ Bytes(SubSeq(t, start[i - 1] + 1, start[i])) <= MaxChunkBytes
<1> DEFINE n == Len(t)
           start == ChunkStarts(t)
<1>1. n \in Nat BY TextIs, SeqFacts
<1>2. Starts(start, t, n)
  <2>1. \E f : Starts(f, t, n) BY <1>1, StartsExist
  <2>2. start = CHOOSE f : Starts(f, t, n) BY DEF ChunkStarts, Starts
  <2> QED BY <2>1, <2>2
<1> HIDE DEF start, n
<1>3. /\ start[0] = 0
      /\ \A i \in 1..n : start[i] = start[i - 1] + Cut(SubSeq(t, start[i - 1] + 1, n))
  <2>1. \A i \in 0..n : start[i] = IF i = 0 THEN 0 ELSE start[i - 1] + Cut(SubSeq(t, start[i - 1] + 1, n))
    BY <1>2 DEF Starts, n
  <2>2. 0 \in 0..n /\ \A i \in 1..n : i \in 0..n /\ i # 0 BY <1>1
  <2> QED BY <2>1, <2>2
<1>4. ASSUME NEW i \in 1..n, start[i - 1] \in 0..n
      PROVE  /\ start[i] \in 0..n /\ start[i - 1] <= start[i]
             /\ start[i - 1] < n => start[i - 1] < start[i]
             /\ Bytes(SubSeq(t, start[i - 1] + 1, start[i])) <= MaxChunkBytes
  <2> DEFINE a == start[i - 1]
             rest == SubSeq(t, a + 1, n)
             c == Cut(rest)
  <2>1. IsText(rest) /\ Len(rest) = n - a /\ \A k \in 1..(n - a) : rest[k] = t[a + k]
    <3>1. a \in Nat /\ n \in 0..n /\ a <= n BY <1>1, <1>4
    <3> HIDE DEF a
    <3> QED BY <3>1, SubText DEF n
  <2>2. c \in 0..(n - a) /\ Bytes(SubSeq(rest, 1, c)) <= MaxChunkBytes /\ (n - a > 0 => c > 0)
    BY <2>1, CutFacts
  <2>3. start[i] = a + c BY <1>3
  <2>4. a \in 0..n BY <1>4
  <2> HIDE DEF a, c, rest
  <2>5. SubSeq(rest, 1, c) = SubSeq(t, a + 1, a + c)
    <3> DEFINE u == SubSeq(rest, 0 + 1, c)
               v == SubSeq(t, a + 1, a + c)
    <3>1. a + c \in 0..n /\ a <= a + c /\ c \in 0..Len(rest) /\ a \in Nat /\ c \in Nat /\ 0 \in Nat /\ 0 <= c
      BY <1>1, <2>1, <2>2, <2>4
    <3>2. IsText(u) /\ Len(u) = c - 0 /\ \A k \in 1..(c - 0) : u[k] = rest[0 + k]
      BY <2>1, <3>1, SubText, ZenonT(60)
    <3>3. IsText(v) /\ Len(v) = (a + c) - a /\ \A k \in 1..((a + c) - a) : v[k] = t[a + k]
      BY <3>1, SubText DEF n
    <3>4. c - 0 = c /\ (a + c) - a = c BY <3>1
    <3>5. \A k \in 1..c : k \in 1..(n - a) /\ 0 + k = k BY <1>1, <2>2, <2>4
    <3>6. \A k \in 1..c : u[k] = v[k] BY <2>1, <3>2, <3>3, <3>4, <3>5, ZenonT(60)
    <3>7. DOMAIN u = 1..c /\ DOMAIN v = 1..c BY <3>2, <3>3, <3>4, TextIs, SeqFacts
    <3>8. IsSeq(u) /\ IsSeq(v) BY <3>2, <3>3, TextIs
    <3> HIDE DEF u, v
    <3>9. u = v
      <4>1. PICK U : u \in Seq(U) BY <3>8 DEF IsSeq
      <4>2. PICK V : v \in Seq(V) BY <3>8 DEF IsSeq
      <4>3. u = [k \in DOMAIN u |-> u[k]] /\ v = [k \in DOMAIN v |-> v[k]] BY <4>1, <4>2
      <4> QED BY <3>6, <3>7, <4>3
    <3>10. 0 + 1 = 1 OBVIOUS
    <3> QED BY <3>9, <3>10 DEF u, v
  <2>6. Bytes(SubSeq(t, a + 1, a + c)) <= MaxChunkBytes BY <2>2, <2>5
  <2>7. a + c \in 0..n /\ a <= a + c /\ (a < n => a < a + c) BY <1>1, <2>2, <2>4
  <2> QED BY <2>3, <2>6, <2>7 DEF a
<1>5. \A i \in 0..n : start[i] \in 0..n
  <2> DEFINE T == {i \in Nat : start[i] \in 0..n}
  <2>1. 0 \in T BY <1>1, <1>3
  <2>2. ASSUME NEW i \in 1..n, i - 1 \in T PROVE i \in T BY <1>4, <2>2
  <2>3. \A i \in T : start[i] \in 0..n OBVIOUS
  <2> HIDE DEF T
  <2>4. 0..n \subseteq T BY <1>1, <2>1, <2>2, UptoInduction
  <2> QED BY <2>3, <2>4
<1>6. \A i \in 1..n : start[i - 1] \in 0..n
  <2>1. \A i \in 1..n : i - 1 \in 0..n BY <1>1
  <2> QED BY <1>5, <2>1
<1> QED BY <1>1, <1>3, <1>4, <1>5, <1>6 DEF start, n

(* The chunks are numbered without a gap, and the last one ends the text.  *)
LEMMA CountFacts ==
    ASSUME NEW t, IsText(t)
    PROVE  LET start == ChunkStarts(t)
               n == Len(t)
               c == ChunkCount(t, start)
           IN  /\ n = 0 => c = 1
               /\ n > 0 => c \in 1..n /\ start[c] = n /\ \A i \in 0..(c - 1) : start[i] < n
<1> DEFINE start == ChunkStarts(t)
           n == Len(t)
           D == {i \in 0..n : i = 0 \/ start[i] < n}
<1>1. /\ n \in Nat /\ start[0] = 0
      /\ \A i \in 0..n : start[i] \in 0..n
      /\ \A i \in 1..n : start[i - 1] <= start[i] /\ (start[i - 1] < n => start[i - 1] < start[i])
  BY StartsFacts
<1>2. ChunkCount(t, start) = Cardinality(D) BY DEF ChunkCount
<1> HIDE DEF start, n
<1>3. ASSUME NEW i \in 1..n, i \in D PROVE i - 1 \in D
  <2>1. i - 1 \in 0..n /\ start[i - 1] \in 0..n /\ start[i] \in 0..n /\ start[i] < n BY <1>1, <1>3
  <2>2. start[i - 1] <= start[i] BY <1>1
  <2> QED BY <1>1, <2>1, <2>2
<1>4. 0 \in D /\ D \subseteq 0..n BY <1>1
<1>5. PICK g \in D : \A k \in D : k <= g
  <2> HIDE DEF D
  <2> QED BY <1>1, <1>4, Greatest
<1>6. g \in 0..n BY <1>4
<1>7. 0..g \subseteq D
  <2> DEFINE T == {k \in Nat : k <= g => g - k \in D}
  <2> HIDE DEF D
  <2>1. 0 \in T BY <1>5, <1>6
  <2>2. ASSUME NEW k \in 1..g, k - 1 \in T PROVE k \in T
    <3>1. g - (k - 1) \in D BY <1>1, <1>6, <2>2
    <3>2. g - (k - 1) \in 1..n /\ (g - (k - 1)) - 1 = g - k BY <1>1, <1>6
    <3>3. g - k \in D BY <1>3, <3>1, <3>2
    <3> QED BY <3>3
  <2>3. \A k \in T : k \in Nat /\ (k <= g => g - k \in D) OBVIOUS
  <2> HIDE DEF T
  <2>4. g \in Nat BY <1>1, <1>6
  <2>5. 0..g \subseteq T BY <2>1, <2>2, <2>4, UptoInduction
  <2>6. ASSUME NEW j \in 0..g PROVE j \in D
    <3>1. g - j \in 0..g /\ g - (g - j) = j /\ g - j <= g BY <2>4
    <3>2. g - j \in T BY <2>5, <3>1
    <3> QED BY <2>3, <3>1, <3>2
  <2> QED BY <2>6
<1>8. D = 0..g
  <2>1. \A k \in D : k \in 0..g
    <3>1. \A k \in D : k \in 0..n /\ k <= g BY <1>4, <1>5
    <3> HIDE DEF D
    <3> QED BY <1>1, <1>6, <3>1
  <2> HIDE DEF D
  <2> QED BY <1>7, <2>1
<1>9. Cardinality(D) = g + 1
  <2> HIDE DEF D
  <2>1. g \in Int /\ 0 \in Int /\ ~(0 > g) /\ g - 0 + 1 = g + 1 BY <1>1, <1>6
  <2>2. Cardinality(0..g) = IF 0 > g THEN 0 ELSE g - 0 + 1 BY <2>1, FS_Interval
  <2> QED BY <1>8, <2>1, <2>2
<1>10. n = 0 => Cardinality(D) = 1
  <2> HIDE DEF D
  <2> QED BY <1>6, <1>9
<1>11. ASSUME n > 0
       PROVE  Cardinality(D) \in 1..n /\ start[Cardinality(D)] = n /\ \A i \in 0..(Cardinality(D) - 1) : start[i] < n
  <2>1. \A i \in D : start[i] < n BY <1>1, <1>11
  <2>2. g # n
    (* Each chunk so far took a letter, so chunk i begins at letter i or later. *)
    <3> DEFINE T == {i \in Nat : i <= g => start[i] >= i}
    <3>1. 0 \in T BY <1>1
    <3>2. ASSUME NEW i \in 1..g, i - 1 \in T PROVE i \in T
      <4>1. i - 1 \in 0..g /\ i \in 1..n /\ i - 1 <= g /\ i - 1 \in 0..n /\ i \in 0..n BY <1>1, <1>6
      <4>2. start[i - 1] >= i - 1 BY <3>2, <4>1
      <4>3. start[i - 1] < n BY <1>7, <2>1, <4>1
      <4>4. start[i - 1] < start[i] BY <1>1, <4>1, <4>3
      <4>5. start[i - 1] \in 0..n /\ start[i] \in 0..n BY <1>1, <4>1
      <4> HIDE DEF D
      <4> QED BY <1>1, <4>1, <4>2, <4>4, <4>5
    <3>3. \A i \in T : i <= g => start[i] >= i OBVIOUS
    <3> HIDE DEF T, D
    <3>8. g \in Nat BY <1>1, <1>6
    <3>4. 0..g \subseteq T BY <3>1, <3>2, <3>8, UptoInduction
    <3>5. g \in 0..g /\ g <= g BY <1>1, <1>6
    <3>6. start[g] >= g BY <3>3, <3>4, <3>5
    <3>7. start[g] < n /\ start[g] \in 0..n BY <1>1, <1>5, <1>6, <2>1
    <3> QED BY <1>1, <1>6, <3>6, <3>7
  <2>3. g + 1 \in 1..n /\ g + 1 \in 0..n /\ g + 1 \notin 0..g /\ g + 1 # 0 /\ (g + 1) - 1 = g
    BY <1>1, <1>6, <2>2
  <2>4. ~(start[g + 1] < n) BY <1>8, <2>3
  <2>5. start[g + 1] \in 0..n BY <1>1, <2>3
  <2> HIDE DEF D
  <2>6. start[g + 1] = n BY <1>1, <2>4, <2>5
  <2> QED BY <1>8, <1>9, <2>1, <2>3, <2>6
<1> HIDE DEF D
<1> QED BY <1>2, <1>10, <1>11 DEF start, n

(* The records that carry a text under a base key, cut at these places.    *)
Framing(framed, base, text, cut) ==
    LET count == Len(framed.records)
    IN  /\ IsSeq(framed.records) /\ count \in Nat \ {0}
        /\ cut[0] = 0 /\ cut[count] = Len(text)
        /\ \A i \in 0..count : cut[i] \in 0..Len(text)
        /\ \A i \in 1..count :
              /\ cut[i - 1] <= cut[i] /\ (count > 1 => cut[i - 1] < cut[i])
              /\ Bytes(SubSeq(text, cut[i - 1] + 1, cut[i])) <= MaxChunkBytes
              /\ framed.records[i].key = Append(base, format(i - 1))
              /\ framed.records[i].value = Plain(SubSeq(text, cut[i - 1] + 1, cut[i]))
        /\ framed.fits => count <= MaxChunks /\ \A i \in 0..(count - 1) : KeyBytes(base, i) <= MaxKeyBytes

LEMMA FrameFacts ==
    ASSUME NEW base, NEW text, IsText(text)
    PROVE  \E cut : Framing(frame_records(base, text), base, text, cut)
<1> DEFINE start == ChunkStarts(text)
           n == Len(text)
           c == ChunkCount(text, start)
           end(i) == IF i = c THEN n ELSE start[i]
           framed == frame_records(base, text)
           records == framed.records
           cut == [i \in 0..c |-> IF i = c THEN n ELSE start[i]]
<1>1. /\ n \in Nat /\ start[0] = 0
      /\ \A i \in 0..n : start[i] \in 0..n
      /\ \A i \in 1..n : /\ start[i - 1] <= start[i]
                         /\ start[i - 1] < n => start[i - 1] < start[i]
                         /\ Bytes(SubSeq(text, start[i - 1] + 1, start[i])) <= MaxChunkBytes
  BY StartsFacts
<1>2. /\ n = 0 => c = 1
      /\ n > 0 => c \in 1..n /\ start[c] = n /\ \A i \in 0..(c - 1) : start[i] < n
  BY CountFacts
<1>3. /\ framed.fits <=> c <= MaxChunks /\ \A i \in 0..(c - 1) : KeyBytes(base, i) <= MaxKeyBytes
      /\ records = [i \in 1..c |-> [key   |-> Append(base, format(i - 1)),
                                    value |-> Plain(SubSeq(text, start[i - 1] + 1, end(i)))]]
  BY DEF frame_records
<1> HIDE DEF start, n, c, framed
<1>4. c \in Nat \ {0} /\ c <= n + 1 BY <1>1, <1>2
<1>5. IsSeq(records) /\ Len(records) = c
  <2>1. DOMAIN records = 1..c /\ records = [i \in 1..c |-> records[i]] BY <1>3
  <2> HIDE DEF records
  <2> QED BY <1>4, <2>1, SeqByDomain
<1>6. \A i \in 1..c : /\ records[i].key = Append(base, format(i - 1))
                      /\ records[i].value = Plain(SubSeq(text, start[i - 1] + 1, end(i)))
  BY <1>3
<1>7. \A i \in 0..c : cut[i] = end(i) OBVIOUS
<1>8. \A i \in 1..c : i - 1 \in 0..c /\ cut[i - 1] = start[i - 1] /\ i \in 0..c /\ cut[i] = end(i)
  BY <1>4
<1>9. cut[0] = 0 /\ cut[c] = n
  <2>1. 0 \in 0..c /\ c \in 0..c /\ c # 0 BY <1>4
  <2> QED BY <1>1, <2>1
<1> HIDE DEF records, cut
<1>10. ASSUME NEW i \in 1..c
       PROVE  /\ cut[i - 1] \in 0..n /\ cut[i] \in 0..n
              /\ cut[i - 1] <= cut[i] /\ (c > 1 => cut[i - 1] < cut[i])
              /\ Bytes(SubSeq(text, cut[i - 1] + 1, cut[i])) <= MaxChunkBytes
  <2>1. CASE n = 0
    <3>1. c = 1 /\ i = 1 /\ start[i - 1] = 0 /\ end(i) = 0 BY <1>1, <1>2, <2>1
    <3>2. cut[i - 1] = 0 /\ cut[i] = 0 BY <1>8, <3>1
    <3>3. Bytes(SubSeq(text, 0 + 1, 0)) <= MaxChunkBytes
      <4>1. 0 \in Nat /\ 0 \in 0..Len(text) /\ 0 <= 0 /\ 0 - 0 = 0 BY <1>1 DEF n
      <4>2. IsText(SubSeq(text, 0 + 1, 0)) /\ Len(SubSeq(text, 0 + 1, 0)) = 0 - 0 BY <4>1, SubText
      <4>3. Bytes(SubSeq(text, 0 + 1, 0)) = 0 BY <4>1, <4>2, TextIs, FirstBytes
      <4>4. MaxChunkBytes \in Nat BY LimitsAssumption
      <4> QED BY <4>3, <4>4
    <3> QED BY <2>1, <3>1, <3>2, <3>3
  <2>2. CASE n > 0
    <3>1. i \in 1..n /\ i - 1 \in 0..(c - 1) /\ end(i) = start[i] /\ i - 1 \in 0..n /\ i \in 0..n
      BY <1>1, <1>2, <1>4, <2>2
    <3>2. cut[i - 1] = start[i - 1] /\ cut[i] = start[i] BY <1>8, <3>1
    <3>3. start[i - 1] < n /\ start[i - 1] \in 0..n /\ start[i] \in 0..n BY <1>1, <1>2, <2>2, <3>1
    <3> QED BY <1>1, <3>1, <3>2, <3>3
  <2> QED BY <1>1, <2>1, <2>2
<1>11. \A i \in 0..c : cut[i] \in 0..n
  <2>1. \A i \in 0..c : i = 0 \/ i \in 1..c BY <1>4
  <2>2. 0 \in 0..n BY <1>1
  <2> QED BY <1>9, <1>10, <2>1, <2>2
<1>12. \A i \in 1..c : records[i].value = Plain(SubSeq(text, cut[i - 1] + 1, cut[i]))
  BY <1>6, <1>8
<1>13. Framing(framed, base, text, cut)
  <2> HIDE DEF end
  <2> QED BY <1>3, <1>4, <1>5, <1>6, <1>9, <1>10, <1>11, <1>12 DEF Framing, records, n
<1> QED BY <1>13 DEF framed

(* The first chunks put together are the text up to the last of their cuts. *)
JoinAt(framed, text, cut, k) ==
    FlattenSeq([i \in 1..k |-> framed.records[i].value.text]) = SubSeq(text, 1, cut[k])

LEMMA ChunksJoin ==
    ASSUME NEW framed, NEW base, NEW text, IsText(text), NEW cut, Framing(framed, base, text, cut),
           NEW k \in 1..Len(framed.records)
    PROVE  JoinAt(framed, text, cut, k)
<1> DEFINE c == Len(framed.records)
           n == Len(text)
           parts == [i \in 1..k |-> framed.records[i].value.text]
           piece(i) == SubSeq(text, cut[i - 1] + 1, cut[i])
<1>1. c \in Nat /\ k \in Nat /\ k <= c /\ n \in Nat BY TextIs, SeqFacts DEF Framing
<1>2. \A i \in 1..k : parts[i] = piece(i)
  <2>1. \A i \in 1..k : i \in 1..c BY <1>1
  <2>2. \A i \in 1..c : framed.records[i].value = Plain(piece(i)) BY DEF Framing
  <2>3. \A x : Plain(x).text = x BY DEF Plain
  <2> HIDE DEF piece, c
  <2> QED BY <2>1, <2>2, <2>3
<1>3. /\ cut[0] = 0
      /\ \A i \in 1..k : /\ cut[i - 1] \in Nat /\ cut[i] \in 0..n /\ cut[i - 1] <= cut[i]
                         /\ cut[i - 1] \in 0..n
  <2>1. \A i \in 1..k : i \in 1..c /\ i - 1 \in 0..c /\ i \in 0..c BY <1>1
  <2>2. \A i \in 0..c : cut[i] \in 0..n BY DEF Framing
  <2>3. \A i \in 1..c : cut[i - 1] <= cut[i] BY DEF Framing
  <2>4. cut[0] = 0 BY DEF Framing
  <2> HIDE DEF c, n
  <2> QED BY <1>1, <2>1, <2>2, <2>3, <2>4
<1>4. IsSeq(parts) /\ Len(parts) = k /\ DOMAIN parts = 1..k
  <2>1. DOMAIN parts = 1..k /\ parts = [i \in 1..k |-> parts[i]] OBVIOUS
  <2> HIDE DEF parts
  <2> QED BY <1>1, <2>1, SeqByDomain
<1> HIDE DEF parts, piece, n, c
<1>5. \A i \in 1..k : IsText(piece(i)) /\ Len(piece(i)) = cut[i] - cut[i - 1]
                      /\ \A j \in 1..(cut[i] - cut[i - 1]) : piece(i)[j] = text[cut[i - 1] + j]
  BY <1>3, SubText DEF piece, n
<1>6. PICK f : /\ FlattenSeq(parts) = Upto(f, k)
               /\ \A i \in 1..k : Upto(f, i) = Upto(f, i - 1) \o parts[i]
  <2>1. \A i \in DOMAIN parts : IsSeq(parts[i]) BY <1>2, <1>4, <1>5, TextIs
  <2> QED BY <1>4, <2>1, FlattenGrows
<1> DEFINE head(i) == SubSeq(text, 0 + 1, cut[i])
           T == {i \in Nat : i <= k => Upto(f, i) = head(i)}
<1>7. \A i \in 0..k : IsText(head(i)) /\ Len(head(i)) = cut[i] /\ \A j \in 1..cut[i] : head(i)[j] = text[j]
  <2>1. ASSUME NEW i \in 0..k
        PROVE  IsText(head(i)) /\ Len(head(i)) = cut[i] /\ \A j \in 1..cut[i] : head(i)[j] = text[j]
    <3>1. cut[i] \in 0..n
      <4>1. i = 0 \/ i \in 1..k BY <1>1
      <4> QED BY <1>1, <1>3, <4>1
    <3>2. 0 \in Nat /\ 0 <= cut[i] /\ cut[i] - 0 = cut[i] /\ \A j \in 1..cut[i] : 0 + j = j BY <1>1, <3>1
    <3>3. IsText(head(i)) /\ Len(head(i)) = cut[i] - 0 /\ \A j \in 1..(cut[i] - 0) : head(i)[j] = text[0 + j]
      BY <3>1, <3>2, SubText DEF n
    <3> HIDE DEF head
    <3> QED BY <3>2, <3>3
  <2> QED BY <2>1
<1>8. 0 \in T
  <2>1. head(0) = <<>>
    <3>1. 0 \in 0..k BY <1>1
    <3>2. IsSeq(head(0)) /\ Len(head(0)) = 0 BY <1>3, <1>7, <3>1, TextIs
    <3> HIDE DEF head
    <3> QED BY <3>2 DEF IsSeq
  <2> QED BY <2>1 DEF Upto
<1>9. ASSUME NEW i \in 1..k, i - 1 \in T PROVE i \in T
  <2>1. i \in Nat /\ i - 1 \in 0..k /\ i - 1 <= k /\ i \in 0..k BY <1>1
  <2>2. Upto(f, i) = head(i - 1) \o piece(i) BY <1>2, <1>6, <1>9, <2>1
  <2> HIDE DEF T
  <2> DEFINE a == cut[i - 1]
             b == cut[i]
             u == head(i - 1)
             v == piece(i)
             w == head(i)
  <2>3. a \in Nat /\ b \in Nat /\ a <= b BY <1>1, <1>3
  <2>4. /\ IsSeq(u) /\ Len(u) = a /\ \A j \in 1..a : u[j] = text[j]
        /\ IsSeq(v) /\ Len(v) = b - a /\ \A j \in 1..(b - a) : v[j] = text[a + j]
        /\ IsSeq(w) /\ Len(w) = b /\ \A j \in 1..b : w[j] = text[j]
    BY <1>5, <1>7, <2>1, TextIs
  <2> HIDE DEF a, b, u, v, w, head
  <2>5. u \o v = w
    <3>1. PICK U : u \in Seq(U) BY <2>4 DEF IsSeq
    <3>2. PICK V : v \in Seq(V) BY <2>4 DEF IsSeq
    <3>3. PICK W : w \in Seq(W) BY <2>4 DEF IsSeq
    <3>4. DOMAIN w = 1..b BY <2>4, <3>3
    <3>5. u \in Seq(U \cup V) /\ v \in Seq(U \cup V) BY <3>1, <3>2
    <3> DEFINE x == u \o v
    <3>12. x \in Seq(U \cup V) /\ Len(x) = Len(u) + Len(v) BY <3>5
    <3>6. x \in Seq(U \cup V) /\ Len(x) = a + (b - a)
      <4> HIDE DEF x
      <4> QED BY <2>4, <3>12
    <3>7. \A j \in 1..b : x[j] = IF j <= a THEN u[j] ELSE v[j - a]
      BY <2>3, <2>4, <3>5, SMTT(30)
    <3> HIDE DEF x
    <3>8. DOMAIN x = 1..b /\ x = [j \in 1..b |-> x[j]]
      <4>1. Len(x) = b BY <2>3, <3>6
      <4> QED BY <3>6, <4>1
    <3>9. w = [j \in 1..b |-> w[j]] BY <3>3, <3>4
    <3>10. ASSUME NEW j \in 1..b PROVE x[j] = w[j]
      <4>1. CASE j <= a
        <5>1. j \in 1..a BY <2>3, <4>1
        <5> QED BY <2>4, <3>7, <4>1, <5>1
      <4>2. CASE ~(j <= a)
        <5>1. j - a \in 1..(b - a) /\ a + (j - a) = j BY <2>3, <4>2
        <5> QED BY <2>4, <3>7, <4>2, <5>1
      <4> QED BY <4>1, <4>2
    <3>11. x = w BY <3>8, <3>9, <3>10
    <3> QED BY <3>11 DEF x
  <2> QED BY <2>1, <2>2, <2>5 DEF u, v, w, T
<1>10. \A i \in T : i <= k => Upto(f, i) = head(i) OBVIOUS
<1> HIDE DEF T
<1>11. 0..k \subseteq T BY <1>1, <1>8, <1>9, UptoInduction
<1>12. k \in 0..k /\ k <= k /\ 0 + 1 = 1 BY <1>1
<1>13. Upto(f, k) = SubSeq(text, 0 + 1, cut[k]) BY <1>10, <1>11, <1>12
<1>14. FlattenSeq(parts) = SubSeq(text, 1, cut[k]) BY <1>6, <1>12, <1>13
<1> QED BY <1>14, Zenon DEF parts, JoinAt

-----------------------------------------------------------------------------
(* Numerals and times. *)

LEMMA LargestFacts ==
    /\ Largest \in Nat /\ MaxChunks \in 1..Largest
    /\ 0 \in 0..Largest
<1>1. Len(Numeral) \in Nat /\ Len(Numeral) # 0 BY NumeralAssumption
<1>2. Largest \in Nat BY <1>1 DEF Largest
<1> QED BY <1>2, LimitsAssumption

LEMMA Numerals ==
    ASSUME NEW n \in 0..Largest
    PROVE  /\ IsUnsigned(format(n)) /\ Unsigned(format(n)) = n /\ format(n) # Blank
           /\ \A m \in 0..Largest : format(m) = format(n) => m = n
<1>1. \A m \in 0..Largest : m + 1 \in DOMAIN Numeral
  <2>1. DOMAIN Numeral = 1..Len(Numeral) /\ Len(Numeral) \in Nat BY NumeralAssumption
  <2> QED BY <2>1 DEF Largest
<1>2. format(n) # "00" /\ format(n) # Blank BY <1>1, NumeralAssumption, Zenon DEF format
<1>3. ASSUME NEW m \in 0..Largest, format(m) = format(n) PROVE m = n
  <2>1. m + 1 = n + 1 BY <1>1, <1>3, NumeralAssumption, Zenon DEF format
  <2> QED BY <2>1, LargestFacts
<1>4. IsUnsigned(format(n)) BY Zenon DEF IsUnsigned
<1>5. (CHOOSE m \in 0..Largest : format(m) = format(n)) = n BY <1>3, Zenon
<1>6. Unsigned(format(n)) = n BY <1>2, <1>5, Zenon DEF Unsigned
<1> QED BY <1>2, <1>3, <1>4, <1>6

LEMMA Units ==
    ASSUME NEW a \in Nat, NEW b \in Nat, a <= b, NEW u \in Nat \ {0}
    PROVE  a \div u \in Nat /\ b \div u \in Nat /\ a \div u <= b \div u
OBVIOUS

-----------------------------------------------------------------------------
(* The records of a call. *)

Base(d, now) == base_key(Agent, VmId, d, now)
Text(d) == encode_payload(d.payload, d.encoding)

LEMMA CallText ==
    ASSUME NEW d \in Emissions
    PROVE  /\ IsText(Text(d)) /\ IsText(d.payload)
           /\ d.encoding = "none" => Text(d) = d.payload
           /\ d.encoding # "none" =>
                 /\ Text(d) = Base64(d.encoding, d.payload)
                 /\ \A n \in 1..Len(Text(d)) : Text(d)[n].of = d.payload
                 /\ Len(Text(d)) > 0
<1>1. IsText(d.payload) /\ IsSeq(d.payload) /\ Len(d.payload) \in Nat
  BY EmissionsAssumption, TextIs, SeqFacts
<1>2. CASE d.encoding = "none" BY <1>1, <1>2 DEF Text, encode_payload
<1>3. CASE d.encoding # "none"
  <2> DEFINE size == Len(d.payload) + 1
             t == Base64(d.encoding, d.payload)
  <2>1. size \in Nat /\ size > 0 BY <1>1
  <2>2. Text(d) = t BY <1>3 DEF Text, encode_payload
  <2>3. t = [n \in 1..size |-> [c |-> d.encoding, bytes |-> 1, of |-> d.payload, n |-> n, whole |-> size]]
    BY DEF Base64
  <2> HIDE DEF t, size
  <2>4. IsSeq(t) /\ Len(t) = size BY <2>1, <2>3, SeqByDomain
  <2>5. \A n \in 1..size : t[n].bytes = 1 /\ t[n].of = d.payload BY <2>3
  <2>6. 1 \in 1..MaxChunkBytes BY LimitsAssumption
  <2>7. IsText(t) BY <2>3, <2>4, <2>5, <2>6, TextIs
  <2> QED BY <1>1, <1>3, <2>1, <2>2, <2>4, <2>5, <2>7 DEF t
<1> QED BY <1>2, <1>3

LEMMA BaseFacts ==
    ASSUME NEW d \in Emissions, NEW now \in 0..MaxClock
    PROVE  LET b == Base(d, now) IN
           /\ IsSeq(b) /\ Len(b) = 10
           /\ b[1] = "DIAG" /\ b[2] = Agent /\ b[3] = VmId /\ b[4] = d.kind /\ b[5] = d.name
           /\ b[6] = d.id /\ b[7] = format(now \div TimestampUnit) /\ b[8] = d.encoding
           /\ b[9] = d.result
           /\ b[10] = IF d.duration = 0 THEN Blank ELSE format((d.duration - 1) \div DurationUnit)
           /\ now \div TimestampUnit \in 0..Largest
           /\ b = <<"DIAG", b[2], b[3], b[4], b[5], b[6], b[7], b[8], b[9], b[10]>>
<1> DEFINE b == Base(d, now)
<1>1. b = <<"DIAG", Agent, VmId, d.kind, d.name, d.id, format(now \div TimestampUnit), d.encoding,
            d.result, IF d.duration = 0 THEN Blank ELSE format((d.duration - 1) \div DurationUnit)>>
  BY DEF Base, base_key
<1>2. IsSeq(b) /\ Len(b) = 10
  <2> DEFINE S == {b[i] : i \in 1..10}
  <2>1. b \in Seq(S) BY <1>1
  <2> QED BY <1>1, <2>1 DEF IsSeq
<1>3. now \in Nat /\ MaxClock \in Nat /\ now <= MaxClock BY EmissionsAssumption
<1>4. TimestampUnit \in Nat \ {0} BY LimitsAssumption
<1>5. now \div TimestampUnit \in Nat /\ now \div TimestampUnit <= MaxClock \div TimestampUnit
  BY <1>3, <1>4, Units
<1>6. now \div TimestampUnit \in 0..Largest /\ MaxClock \div TimestampUnit \in Nat
  BY <1>3, <1>4, <1>5, Units, EmissionsAssumption, LargestFacts
<1> QED BY <1>1, <1>2, <1>6

LEMMA AppendIs ==
    ASSUME NEW s, IsSeq(s), NEW e, NEW k, k = Append(s, e)
    PROVE  /\ IsSeq(k) /\ Len(k) = Len(s) + 1 /\ \A i \in 1..Len(s) : k[i] = s[i]
           /\ Front(k) = s /\ Last(k) = e
<1>1. /\ IsSeq(Append(s, e)) /\ Len(Append(s, e)) = Len(s) + 1
      /\ \A i \in 1..Len(s) : Append(s, e)[i] = s[i]
      /\ Append(s, e)[Len(s) + 1] = e
      /\ Front(Append(s, e)) = s /\ Last(Append(s, e)) = e
  BY AppendFacts
<1> QED BY <1>1

(* r is number n of the records under b. *)
IsChunk(r, b, n) ==
    /\ r.key = Append(b, format(n))
    /\ IsSeq(r.key) /\ Len(r.key) = 11 /\ Front(r.key) = b /\ Last(r.key) = format(n)
    /\ \A i \in 1..10 : r.key[i] = b[i]
    /\ Place(r) = InGroup(b, n) /\ Place(r).as = "chunk" /\ Place(r).base = b

LEMMA ChunkKey ==
    ASSUME NEW b, IsSeq(b), Len(b) = 10, b[1] = "DIAG", NEW n \in 0..Largest,
           NEW r, r.key = Append(b, format(n))
    PROVE  IsChunk(r, b, n)
<1>1. /\ IsSeq(r.key) /\ Len(r.key) = 11 /\ Front(r.key) = b /\ Last(r.key) = format(n)
      /\ \A i \in 1..10 : r.key[i] = b[i]
  <2> DEFINE x == format(n)
             k == Append(b, x)
  <2> HIDE DEF x
  <2>1. /\ IsSeq(k) /\ Len(k) = Len(b) + 1 /\ \A i \in 1..Len(b) : k[i] = b[i]
        /\ Front(k) = b /\ Last(k) = x
    BY AppendIs, Zenon
  <2>2. r.key = k BY DEF x
  <2> HIDE DEF k
  <2>3. 10 + 1 = 11 OBVIOUS
  <2> QED BY <2>1, <2>2, <2>3 DEF x
<1>2. IsUnsigned(format(n)) /\ Unsigned(format(n)) = n BY Numerals
<1>3. r.key[1] = "DIAG" /\ Len(r.key) > 1 /\ IsUnsigned(Last(r.key)) BY <1>1, <1>2
<1>4. Place(r) = InGroup(b, n) BY <1>1, <1>2, <1>3, PlaceNative
<1>5. Place(r).as = "chunk" /\ Place(r).base = b BY <1>4 DEF InGroup
<1> QED BY <1>1, <1>4, <1>5 DEF IsChunk

(* What a call wrote, or was to write, at a time. *)
Frames(e, now, cut) ==
    /\ e.d \in Emissions /\ Valid(e.d) /\ now \in 0..clock
    /\ e.records = prepare_records(e.d, now).records
    /\ Framing(prepare_records(e.d, now), Base(e.d, now), Text(e.d), cut)
    /\ Len(e.records) \in 1..MaxChunks /\ Len(e.records) \in 1..Largest
    /\ \A i \in 0..(Len(e.records) - 1) : KeyBytes(Base(e.d, now), i) <= MaxKeyBytes
    /\ DOMAIN e.records = 1..Len(e.records)
    /\ \A j \in 1..Len(e.records) : IsChunk(e.records[j], Base(e.d, now), j - 1)

LEMMA AtMost ==
    ASSUME NEW l \in Nat \ {0}, NEW m \in 1..Largest, l <= m
    PROVE  l \in 1..m /\ l \in 1..Largest
BY LargestFacts

(* Such a record is one of the writer's. *)
LEMMA ChunkIsOwn ==
    ASSUME NEW d \in Emissions, NEW now \in 0..MaxClock, NEW n, NEW r, IsChunk(r, Base(d, now), n)
    PROVE  Own(r)
BY BaseFacts DEF IsChunk, Own

LEMMA CallFrames ==
    ASSUME clock \in 0..MaxClock, NEW e, e.d \in Emissions, Valid(e.d), NEW now \in 0..clock,
           prepare_records(e.d, now).fits, e.records = prepare_records(e.d, now).records
    PROVE  \E cut : Frames(e, now, cut)
<1> DEFINE framed == prepare_records(e.d, now)
           b == Base(e.d, now)
           t == Text(e.d)
<1>1. now \in 0..MaxClock BY EmissionsAssumption
<1>2. IsText(t) BY CallText
<1>3. framed = frame_records(b, t) BY DEF prepare_records, Base, Text
<1>4. PICK cut : Framing(framed, b, t, cut) BY <1>2, <1>3, FrameFacts
<1>5. /\ IsSeq(b) /\ Len(b) = 10 /\ b[1] = "DIAG" BY <1>1, BaseFacts
<1> HIDE DEF framed, b, t
<1>6. framed.fits BY DEF framed
<1>7. /\ IsSeq(framed.records) /\ Len(framed.records) \in Nat \ {0}
      /\ Len(framed.records) <= MaxChunks
      /\ \A i \in 0..(Len(framed.records) - 1) : KeyBytes(b, i) <= MaxKeyBytes
      /\ \A i \in 1..Len(framed.records) : framed.records[i].key = Append(b, format(i - 1))
  BY <1>4, <1>6 DEF Framing
<1>8. MaxChunks \in 1..Largest BY LimitsAssumption
<1>9. /\ Len(framed.records) \in 1..MaxChunks /\ Len(framed.records) \in 1..Largest
      /\ DOMAIN framed.records = 1..Len(framed.records)
  <2> DEFINE s == framed.records
  <2>1. IsSeq(s) /\ Len(s) \in Nat \ {0} /\ Len(s) <= MaxChunks BY <1>7
  <2> HIDE DEF s
  <2>2. DOMAIN s = 1..Len(s) BY <2>1, SeqFacts
  <2>3. Len(s) \in 1..MaxChunks /\ Len(s) \in 1..Largest BY <2>1, <1>8, AtMost
  <2> QED BY <2>2, <2>3 DEF s
<1>10. ASSUME NEW j \in 1..Len(framed.records)
       PROVE  IsChunk(framed.records[j], b, j - 1)
  <2> DEFINE r == framed.records[j]
             n == j - 1
  <2>1. n \in 0..Largest
    <3> DEFINE l == Len(framed.records)
    <3>1. l \in 1..Largest /\ j \in 1..l BY <1>9
    <3> HIDE DEF l
    <3> QED BY <3>1, LargestFacts
  <2>2. r.key = Append(b, format(n)) BY <1>7
  <2>3. IsSeq(b) /\ Len(b) = 10 /\ b[1] = "DIAG" BY <1>5
  <2> HIDE DEF r, n
  <2>4. IsChunk(r, b, n) BY <2>1, <2>2, <2>3, ChunkKey
  <2> QED BY <2>4 DEF r, n
<1>11. Frames(e, now, cut)
  <2>1. e.records = framed.records BY DEF framed
  <2>2. Framing(framed, Base(e.d, now), Text(e.d), cut) BY <1>4 DEF b, t
  <2>3. /\ e.records = prepare_records(e.d, now).records
        /\ Framing(prepare_records(e.d, now), Base(e.d, now), Text(e.d), cut)
    BY <2>2 DEF framed
  <2>4. /\ Len(e.records) \in 1..MaxChunks /\ Len(e.records) \in 1..Largest
        /\ DOMAIN e.records = 1..Len(e.records)
    BY <1>9, <2>1
  <2>5. \A i \in 0..(Len(e.records) - 1) : KeyBytes(Base(e.d, now), i) <= MaxKeyBytes
    BY <1>7, <2>1 DEF b
  <2>6. \A j \in 1..Len(e.records) : IsChunk(e.records[j], Base(e.d, now), j - 1)
    BY <1>10, <2>1, Zenon DEF b
  <2> QED BY <2>3, <2>4, <2>5, <2>6, Zenon DEF Frames
<1> QED BY <1>11

LEMMA CallsFrame ==
    ASSUME clock \in 0..MaxClock, CallInv, NEW i \in DOMAIN emitted
    PROVE  \E now, cut : Frames(emitted[i], now, cut)
<1>1. PICK now \in 0..clock : /\ prepare_records(emitted[i].d, now).fits
                              /\ emitted[i].records = prepare_records(emitted[i].d, now).records
  BY DEF CallInv
<1>2. emitted[i].d \in Emissions /\ Valid(emitted[i].d) BY DEF CallInv
<1> QED BY <1>1, <1>2, CallFrames

-----------------------------------------------------------------------------
(* What a step does to the pool: records come behind the others, or some   *)
(* go, or the report is overwritten.                                       *)

SeqInv ==
    /\ IsSeq(pool) /\ \A p \in DOMAIN pool : IsSeq(pool[p].key)
    /\ IsSeq(emitted) /\ clock \in 0..MaxClock /\ deletes \in Nat
    /\ sent \in [Messages -> Nat]
    /\ entries = decode_entries(pool)

ReportKey == <<"PROVISIONING_REPORT">>

Grows(t, n) ==
    /\ IsSeq(pool') /\ Len(pool') = Len(pool) + n
    /\ \A i \in 1..Len(pool) : pool'[i] = pool[i]
    /\ \A k \in 1..n : pool'[Len(pool) + k] = t[k]

Leaves(gone) ==
    /\ IsSeq(pool')
    /\ gone # ReportKey => \A i \in 1..Len(pool') : pool'[i].key # gone
    /\ \E from \in [1..Len(pool') -> DOMAIN pool] :
          /\ \A i \in 1..Len(pool') : /\ pool'[i].key = pool[from[i]].key
                                      /\ pool'[i] = pool[from[i]] \/ pool'[i].key = ReportKey
          /\ \A i, j \in 1..Len(pool') : from[i] = from[j] => i = j
          /\ \A k \in DOMAIN pool : pool[k].key # gone => \E i \in 1..Len(pool') : from[i] = k

Stays ==
    /\ IsSeq(pool') /\ Len(pool') = Len(pool)
    /\ \A i \in 1..Len(pool) : /\ pool'[i].key = pool[i].key
                               /\ pool'[i] = pool[i] \/ pool'[i].key = ReportKey

Emitting(d, n) ==
    LET framed == prepare_records(d, clock)
    IN  /\ d \in Emissions /\ Valid(d) /\ framed.fits /\ n \in 1..Len(framed.records)
        /\ Grows(framed.records, n)
        /\ emitted' = Append(emitted, [d |-> d, records |-> framed.records,
                                       ok |-> n = Len(framed.records)])
        /\ UNCHANGED <<clock, sent, deletes>>

Sending(m) ==
    /\ m \in Messages /\ sent[m] < Len(m)
    /\ Grows(<<m[sent[m] + 1]>>, 1)
    /\ sent' = [sent EXCEPT ![m] = sent[m] + 1]
    /\ UNCHANGED <<clock, emitted, deletes>>

Foreign(r) ==
    /\ r \in Others \/ r.key = ReportKey
    /\ Grows(<<r>>, 1)
    /\ UNCHANGED <<clock, emitted, sent, deletes>>

Removing(gone) ==
    /\ Settled(gone) /\ Leaves(gone)
    /\ deletes' = deletes + 1 /\ UNCHANGED <<clock, emitted, sent>>

Overwriting == Stays /\ UNCHANGED <<clock, emitted, sent, deletes>>

Ticking == Stays /\ clock' = clock + 1 /\ clock < MaxClock /\ UNCHANGED <<emitted, sent, deletes>>

LEMMA AppendGrows ==
    ASSUME IsSeq(pool), NEW e, pool' = Append(pool, e)
    PROVE  Grows(<<e>>, 1)
<1> DEFINE new == Append(pool, e)
<1>1. /\ IsSeq(new) /\ Len(new) = Len(pool) + 1 /\ \A i \in 1..Len(pool) : new[i] = pool[i]
      /\ new[Len(pool) + 1] = e
  BY AppendFacts
<1>2. pool' = new OBVIOUS
<1> HIDE DEF new
<1>3. \A k \in 1..1 : k = 1 OBVIOUS
<1>4. <<e>>[1] = e OBVIOUS
<1>5. \A k \in 1..1 : pool'[Len(pool) + k] = <<e>>[k] BY <1>1, <1>2, <1>3, <1>4, Zenon
<1> QED BY <1>1, <1>2, <1>5, Zenon DEF Grows

LEMMA BatchGrows ==
    ASSUME IsSeq(pool), NEW t, IsSeq(t), NEW n \in 1..Len(t), pool' = pool \o SubSeq(t, 1, n)
    PROVE  Grows(t, n)
<1> DEFINE u == SubSeq(t, 1, n)
<1>1. PICK S : pool \in Seq(S) BY DEF IsSeq
<1>2. PICK T : t \in Seq(T) BY DEF IsSeq
<1>3. u \in Seq(T) /\ Len(u) = n /\ \A k \in 1..n : u[k] = t[k]
  BY <1>2
<1>4. pool' = pool \o u OBVIOUS
<1> HIDE DEF u
<1>5. pool \in Seq(S \cup T) /\ u \in Seq(S \cup T) BY <1>1, <1>3
<1>6. n \in Nat /\ Len(pool) \in Nat BY <1>1, <1>3
<1>7. /\ pool' \in Seq(S \cup T) /\ Len(pool') = Len(pool) + n
      /\ \A i \in 1..Len(pool) : pool'[i] = pool[i]
      /\ \A k \in 1..n : pool'[Len(pool) + k] = u[k]
  BY <1>3, <1>4, <1>5, <1>6
<1> QED BY <1>3, <1>7 DEF Grows, IsSeq

(* A record of the front that is kept stays where it is. *)
LEMMA KeptInFront ==
    ASSUME NEW kept, NEW i \in kept, i \in 1..Cardinality(kept)
    PROVE  Keeping(kept)[i] = pool[i]
BY DEF Keeping

LEMMA UptoSize ==
    ASSUME NEW n \in Nat
    PROVE  IsFiniteSet(1..n) /\ Cardinality(1..n) = n
<1>1. 1 \in Int /\ n \in Int OBVIOUS
<1>2. IsFiniteSet(1..n) /\ Cardinality(1..n) = IF 1 > n THEN 0 ELSE n - 1 + 1 BY <1>1, FS_Interval
<1>3. 1 > n => n = 0 OBVIOUS
<1>4. n - 1 + 1 = n OBVIOUS
<1> QED BY <1>2, <1>3, <1>4

LEMMA PartSize ==
    ASSUME NEW n \in Nat, NEW S, S \subseteq 1..n
    PROVE  IsFiniteSet(S) /\ Cardinality(S) \in Nat /\ Cardinality(S) <= n
<1>1. S \in SUBSET (1..n) OBVIOUS
<1>2. IsFiniteSet(S) /\ Cardinality(S) <= Cardinality(1..n) BY <1>1, UptoSize, FS_Subset
<1> QED BY <1>2, UptoSize, FS_CardinalityType

LEMMA TwoMembers ==
    ASSUME NEW S, IsFiniteSet(S), NEW x \in S, NEW y \in S, x # y
    PROVE  Cardinality(S) > 1
<1>1. IsFiniteSet({x}) /\ Cardinality({x}) = 1 BY FS_Singleton
<1>2. y \notin {x} OBVIOUS
<1>3. Cardinality({x} \cup {y}) = Cardinality({x}) + 1 BY <1>1, <1>2, FS_AddElement
<1>4. {x} \cup {y} \in SUBSET S OBVIOUS
<1>5. Cardinality({x} \cup {y}) <= Cardinality(S) BY <1>4, FS_Subset
<1>6. Cardinality(S) \in Nat BY FS_CardinalityType
<1>7. Cardinality({x} \cup {y}) = 2 BY <1>1, <1>3
<1> QED BY <1>5, <1>6, <1>7

LEMMA KeepingSize ==
    ASSUME IsSeq(pool), NEW kept \in SUBSET DOMAIN pool
    PROVE  /\ IsFiniteSet(kept) /\ Cardinality(kept) \in Nat
           /\ DOMAIN Keeping(kept) = 1..Cardinality(kept)
           /\ IsSeq(Keeping(kept)) /\ Len(Keeping(kept)) = Cardinality(kept)
<1>1. Len(pool) \in Nat /\ DOMAIN pool = 1..Len(pool) BY SeqFacts
<1>2. IsFiniteSet(kept) /\ Cardinality(kept) \in Nat BY <1>1, PartSize
<1> DEFINE size == Cardinality(kept)
           new == Keeping(kept)
<1>3. DOMAIN new = 1..size /\ new = [i \in 1..size |-> new[i]] BY DEF Keeping
<1>4. size \in Nat BY <1>2
<1> HIDE DEF size, new
<1>5. IsSeq(new) /\ Len(new) = size BY <1>3, <1>4, SeqByDomain
<1> QED BY <1>2, <1>3, <1>5 DEF size, new

LEMMA DeleteLeaves ==
    ASSUME IsSeq(pool), NEW key, pool' = Deleted(key)
    PROVE  Leaves(key)
<1> DEFINE kept == {i \in DOMAIN pool : pool[i].key # key}
           new == Keeping(kept)
<1>1. kept \in SUBSET DOMAIN pool OBVIOUS
<1>2. \A i \in DOMAIN pool : pool[i].key # key <=> i \in kept OBVIOUS
<1>3. pool' = new BY DEF Deleted
<1> HIDE DEF kept
<1>4. PICK from : Moved(new, pool, kept, from) BY <1>1, KeepingMoves
<1> HIDE DEF new
<1>5. /\ IsSeq(new) /\ from \in [1..Len(new) -> DOMAIN pool]
      /\ \A i \in 1..Len(new) : from[i] \in kept /\ new[i] = pool[from[i]]
      /\ \A i, j \in 1..Len(new) : from[i] = from[j] => i = j
      /\ \A k \in kept : \E i \in 1..Len(new) : from[i] = k
  BY <1>1, <1>4 DEF Moved
<1>6. \A i \in 1..Len(new) : from[i] \in DOMAIN pool /\ new[i].key # key BY <1>2, <1>5
<1>7. \A k \in DOMAIN pool : pool[k].key # key => \E i \in 1..Len(new) : from[i] = k
  BY <1>2, <1>5
<1> QED BY <1>3, <1>5, <1>6, <1>7 DEF Leaves

LEMMA ReportStep ==
    ASSUME IsSeq(pool), NEW v,
           NEW at, at = {i \in DOMAIN pool : pool[i].key = ReportKey}, at # {},
           NEW first, first = (CHOOSE i \in at : \A j \in at : i <= j),
           NEW report, report = [key |-> ReportKey, value |-> v],
           pool' = [Keeping((DOMAIN pool \ at) \cup {first}) EXCEPT ![first] = report]
    PROVE  IF Cardinality(at) > 1 THEN Leaves(ReportKey) ELSE Stays
<1> DEFINE kept == (DOMAIN pool \ at) \cup {first}
           size == Cardinality(kept)
           old == Keeping(kept)
           n == Len(pool)
<1>1. n \in Nat /\ DOMAIN pool = 1..n BY SeqFacts
<1>2. at \subseteq 1..n /\ at \subseteq Nat BY <1>1
<1>3. \E m \in at : \A k \in at : m <= k BY <1>2, Least
<1>4. first \in at /\ \A j \in at : first <= j BY <1>3
<1>5. \A i \in DOMAIN pool : i \in at <=> pool[i].key = ReportKey OBVIOUS
<1>6. kept \in SUBSET DOMAIN pool /\ first \in kept /\ first \in 1..n /\ first \in DOMAIN pool
      /\ \A i \in DOMAIN pool : i \in kept <=> i \notin at \/ i = first
  BY <1>1, <1>2, <1>4
<1>7. /\ IsFiniteSet(kept) /\ size \in Nat /\ DOMAIN old = 1..size /\ IsSeq(old) /\ Len(old) = size
  BY <1>6, KeepingSize
<1>8. first \in 1..size
  <2>1. 1..first \subseteq kept
    <3>1. ASSUME NEW i \in 1..first PROVE i \in kept
      <4>1. i \in DOMAIN pool BY <1>1, <1>6
      <4>2. i \in at => i = first BY <1>2, <1>4, <1>6
      <4> QED BY <1>6, <4>1, <4>2
    <3> QED BY <3>1
  <2>2. first \in Nat /\ 1 \in Nat /\ first >= 1 BY <1>1, <1>6
  <2>3. Cardinality(1..first) = first BY <2>2, UptoSize
  <2>4. first <= size
    <3>1. 1..first \in SUBSET kept BY <2>1
    <3>2. Cardinality(1..first) <= Cardinality(kept) BY <1>7, <3>1, FS_Subset
    <3> QED BY <2>3, <3>2 DEF size
  <2> QED BY <1>7, <2>2, <2>4
<1>9. old[first] = pool[first] BY <1>6, <1>8, KeptInFront
<1>10. report.key = ReportKey OBVIOUS
<1>11. pool' = [old EXCEPT ![first] = report] OBVIOUS
<1>12. PICK from : Moved(old, pool, kept, from) BY <1>6, KeepingMoves
<1> HIDE DEF kept, size, old, n
<1>13. /\ DOMAIN pool' = 1..size /\ pool' = [i \in 1..size |-> pool'[i]]
       /\ pool'[first] = report /\ \A i \in 1..size : i # first => pool'[i] = old[i]
  BY <1>7, <1>8, <1>11
<1>14. IsSeq(pool') /\ Len(pool') = size BY <1>7, <1>13, SeqByDomain
<1>15. pool[first].key = ReportKey BY <1>4, <1>5, <1>6
<1>16. CASE Cardinality(at) > 1
  <2>1. /\ from \in [1..size -> DOMAIN pool]
        /\ \A i \in 1..size : old[i] = pool[from[i]]
        /\ \A i, j \in 1..size : from[i] = from[j] => i = j
        /\ \A k \in kept : \E i \in 1..size : from[i] = k
    BY <1>6, <1>7, <1>12 DEF Moved
  <2>2. ASSUME NEW i \in 1..size
        PROVE  /\ pool'[i].key = pool[from[i]].key
               /\ pool'[i] = pool[from[i]] \/ pool'[i].key = ReportKey
    <3>1. CASE i = first BY <1>9, <1>10, <1>13, <1>15, <2>1, <3>1
    <3>2. CASE i # first BY <1>13, <2>1, <3>2
    <3> QED BY <3>1, <3>2, SMTT(30)
  <2>3. \A k \in DOMAIN pool : pool[k].key # ReportKey => \E i \in 1..size : from[i] = k
    BY <1>5, <1>6, <2>1
  <2>4. /\ from \in [1..Len(pool') -> DOMAIN pool]
        /\ \A i \in 1..Len(pool') : /\ pool'[i].key = pool[from[i]].key
                                    /\ pool'[i] = pool[from[i]] \/ pool'[i].key = ReportKey
        /\ \A i, j \in 1..Len(pool') : from[i] = from[j] => i = j
        /\ \A k \in DOMAIN pool : pool[k].key # ReportKey => \E i \in 1..Len(pool') : from[i] = k
    <3>1. size = Len(pool') BY <1>14
    <3>2. from \in [1..Len(pool') -> DOMAIN pool] BY <2>1, <3>1
    <3>3. \A i \in 1..Len(pool') : /\ pool'[i].key = pool[from[i]].key
                                   /\ pool'[i] = pool[from[i]] \/ pool'[i].key = ReportKey
      BY <2>2, <3>1
    <3>4. \A i, j \in 1..Len(pool') : from[i] = from[j] => i = j BY <2>1, <3>1
    <3>5. \A k \in DOMAIN pool : pool[k].key # ReportKey => \E i \in 1..Len(pool') : from[i] = k
      BY <2>3, <3>1
    <3> QED BY <3>2, <3>3, <3>4, <3>5
  <2>5. Leaves(ReportKey) BY <1>14, <2>4, Zenon DEF Leaves
  <2> QED BY <1>16, <2>5
<1>17. CASE ~(Cardinality(at) > 1)
  <2>1. IsFiniteSet(at) /\ Cardinality(at) \in Nat BY <1>1, <1>2, PartSize DEF n
  <2>2. ASSUME NEW x \in at PROVE x = first
    BY <1>4, <1>17, <2>1, TwoMembers
  <2>3. kept = DOMAIN pool BY <1>6, <2>2
  <2>4. size = n
    BY <1>1, <2>3, UptoSize DEF size
  <2>5. ASSUME NEW i \in 1..n
        PROVE  /\ pool'[i].key = pool[i].key
               /\ pool'[i] = pool[i] \/ pool'[i].key = ReportKey
    <3>1. i \in kept /\ i \in 1..Cardinality(kept) BY <1>1, <2>3, <2>4 DEF size
    <3>2. old[i] = pool[i] BY <3>1, KeptInFront DEF old
    <3>3. CASE i = first BY <1>10, <1>13, <1>15, <3>3
    <3>4. CASE i # first BY <1>13, <2>4, <3>2, <3>4
    <3> QED BY <3>3, <3>4
  <2>6. Stays BY <1>14, <2>4, <2>5 DEF Stays, n
  <2> QED BY <1>17, <2>6
<1> QED BY <1>16, <1>17

LEMMA OneIsSeq == \A x : IsSeq(<<x>>)
<1> TAKE x
<1>1. <<x>> \in Seq({x}) OBVIOUS
<1> QED BY <1>1 DEF IsSeq

LEMMA StaysAlone ==
    ASSUME IsSeq(pool), pool' = pool
    PROVE  Stays
BY DEF Stays

(* Every step is one of these. *)
LEMMA StepShapes ==
    ASSUME SeqInv, [Next]_vars
    PROVE  \/ \E d, n : Emitting(d, n)
           \/ \E m : Sending(m)
           \/ \E r : IsSeq(r.key) /\ Foreign(r)
           \/ \E gone : Removing(gone)
           \/ Overwriting
           \/ Ticking
<1>1. IsSeq(pool) BY DEF SeqInv
<1>2. CASE UNCHANGED vars BY <1>1, <1>2, StaysAlone DEF vars, Overwriting
<1>3. ASSUME NEW d \in Emissions, emit(d)
      PROVE  (\E n : Emitting(d, n)) \/ Overwriting
  <2> DEFINE framed == prepare_records(d, clock)
  <2>1. UNCHANGED <<clock, sent, deletes>> BY <1>3 DEF emit
  <2>2. CASE UNCHANGED <<pool, emitted>>
    BY <1>1, <2>1, <2>2, StaysAlone DEF Overwriting
  <2>3. CASE ~UNCHANGED <<pool, emitted>>
    <3>1. /\ Valid(d) /\ framed.fits
          /\ \E n \in 1..Len(framed.records) :
                /\ pool' = pool \o SubSeq(framed.records, 1, n)
                /\ emitted' = Append(emitted, [d |-> d, records |-> framed.records,
                                               ok |-> n = Len(framed.records)])
      BY <1>3, <2>3 DEF emit
    <3>2. PICK n \in 1..Len(framed.records) :
                /\ pool' = pool \o SubSeq(framed.records, 1, n)
                /\ emitted' = Append(emitted, [d |-> d, records |-> framed.records,
                                               ok |-> n = Len(framed.records)])
      BY <3>1
    <3>3. IsSeq(framed.records)
      <4>1. framed = frame_records(Base(d, clock), Text(d)) BY DEF prepare_records, Base, Text
      <4>2. IsText(Text(d)) BY CallText
      <4>3. \E cut : Framing(framed, Base(d, clock), Text(d), cut) BY <4>1, <4>2, FrameFacts
      <4> HIDE DEF framed
      <4> QED BY <4>3 DEF Framing
    <3> DEFINE records == framed.records
    <3>4. pool' = pool \o SubSeq(records, 1, n) /\ n \in 1..Len(records) /\ IsSeq(records)
      BY <3>2, <3>3
    <3> HIDE DEF records
    <3>5. Grows(records, n) BY <1>1, <3>4, BatchGrows
    <3>6. Emitting(d, n) BY <2>1, <3>1, <3>2, <3>5 DEF Emitting, records
    <3> QED BY <3>6
  <2> QED BY <2>2, <2>3
<1>4. ASSUME NEW m \in Messages, CloudInit(m) PROVE Sending(m)
  <2>1. /\ sent[m] < Len(m) /\ pool' = Append(pool, m[sent[m] + 1])
        /\ sent' = [sent EXCEPT ![m] = sent[m] + 1] /\ UNCHANGED <<clock, emitted, deletes>>
    BY <1>4 DEF CloudInit
  <2>2. Grows(<<m[sent[m] + 1]>>, 1) BY <1>1, <2>1, AppendGrows
  <2> QED BY <2>1, <2>2, Zenon DEF Sending
<1>5. ASSUME NEW r \in Others, AppendOther(r) PROVE IsSeq(r.key) /\ Foreign(r)
  <2>1. pool' = Append(pool, r) /\ UNCHANGED <<clock, emitted, sent, deletes>> BY <1>5 DEF AppendOther
  <2>2. Grows(<<r>>, 1) BY <1>1, <2>1, AppendGrows
  <2>3. IsSeq(r.key)
    <3>1. r.key \in Seq(STRING) BY OthersAssumption
    <3> QED BY <3>1 DEF IsSeq
  <2> QED BY <2>1, <2>2, <2>3, Zenon DEF Foreign
<1>6. ASSUME NEW key, delete(key) PROVE Removing(key)
  <2>1. /\ Settled(key) /\ pool' = Deleted(key) /\ deletes' = deletes + 1
        /\ UNCHANGED <<clock, emitted, sent>>
    BY <1>6 DEF delete
  <2>2. Leaves(key) BY <1>1, <2>1, DeleteLeaves
  <2> QED BY <2>1, <2>2 DEF Removing
<1>7. ASSUME NEW v, write_report(v)
      PROVE  \/ \E r : IsSeq(r.key) /\ Foreign(r)
             \/ \E gone : Removing(gone)
             \/ Overwriting
  <2> DEFINE at == {i \in DOMAIN pool : pool[i].key = ReportKey}
             report == [key |-> ReportKey, value |-> v]
             first == CHOOSE i \in at : \A j \in at : i <= j
  <2>1. /\ pool' = IF at = {} THEN Append(pool, report)
                   ELSE [Keeping((DOMAIN pool \ at) \cup {first}) EXCEPT ![first] = report]
        /\ deletes' = IF Cardinality(at) > 1 THEN deletes + 1 ELSE deletes
        /\ UNCHANGED <<clock, emitted, sent>>
    BY <1>7 DEF write_report, ReportKey
  <2>2. CASE at = {}
    <3>1. Cardinality(at) = 0 BY <2>2, FS_EmptySet
    <3>2. deletes' = deletes BY <2>1, <3>1
    <3>3. pool' = Append(pool, report) BY <2>1, <2>2
    <3>4. Grows(<<report>>, 1) BY <1>1, <3>3, AppendGrows
    <3>5. report.key = ReportKey OBVIOUS
    <3>6. IsSeq(report.key)
      <4>1. report.key = <<"PROVISIONING_REPORT">> BY <3>5 DEF ReportKey
      <4> HIDE DEF report
      <4> QED BY <4>1, OneIsSeq
    <3>7. UNCHANGED <<clock, emitted, sent, deletes>> BY <2>1, <3>2
    <3> HIDE DEF report
    <3>8. Foreign(report) BY <3>4, <3>5, <3>7, Zenon DEF Foreign
    <3> QED BY <3>6, <3>8
  <2>3. CASE at # {}
    <3>1. pool' = [Keeping((DOMAIN pool \ at) \cup {first}) EXCEPT ![first] = report]
      BY <2>1, <2>3
    <3>2. IF Cardinality(at) > 1 THEN Leaves(ReportKey) ELSE Stays
      BY <1>1, <2>3, <3>1, ReportStep, Zenon
    <3>3. Settled(ReportKey)
      <4>1. ReportKey[1] # "DIAG" BY DEF ReportKey
      <4> QED BY <4>1 DEF Settled
    <3>4. CASE Cardinality(at) > 1
      <4>1. Removing(ReportKey) BY <2>1, <3>2, <3>3, <3>4 DEF Removing
      <4> QED BY <4>1
    <3>5. CASE ~(Cardinality(at) > 1)
      BY <2>1, <3>2, <3>5 DEF Overwriting
    <3> QED BY <3>4, <3>5
  <2> QED BY <2>2, <2>3
<1>8. CASE Tick
  BY <1>1, <1>8, StaysAlone DEF Tick, Ticking
<1> QED BY <1>2, <1>3, <1>4, <1>5, <1>6, <1>7, <1>8, Zenon DEF Next, Step

-----------------------------------------------------------------------------
(* Keys and the answer. *)

(* Where a record is from. *)
LEMMA GrownFrom ==
    ASSUME IsSeq(pool), NEW t, NEW n \in Nat, Grows(t, n)
    PROVE  /\ Len(pool) \in Nat /\ DOMAIN pool = 1..Len(pool)
           /\ IsSeq(pool') /\ DOMAIN pool' = 1..(Len(pool) + n)
           /\ DOMAIN pool \subseteq DOMAIN pool'
           /\ \A p \in DOMAIN pool : pool'[p] = pool[p]
           /\ \A k \in 1..n : Len(pool) + k \in DOMAIN pool' /\ Len(pool) + k \notin DOMAIN pool
                              /\ pool'[Len(pool) + k] = t[k]
           /\ \A p \in DOMAIN pool' : \/ p \in DOMAIN pool
                                      \/ \E k \in 1..n : p = Len(pool) + k
<1>1. IsSeq(pool') /\ Len(pool') = Len(pool) + n BY DEF Grows
<1>2. Len(pool) \in Nat /\ DOMAIN pool = 1..Len(pool) BY SeqFacts
<1>3. DOMAIN pool' = 1..(Len(pool) + n) BY <1>1, SeqFacts
<1>4. DOMAIN pool \subseteq DOMAIN pool' BY <1>2, <1>3
<1>5. \A p \in DOMAIN pool : pool'[p] = pool[p] BY <1>2 DEF Grows
<1>6. ASSUME NEW k \in 1..n
      PROVE  /\ Len(pool) + k \in DOMAIN pool' /\ Len(pool) + k \notin DOMAIN pool
             /\ pool'[Len(pool) + k] = t[k]
  BY <1>2, <1>3 DEF Grows
<1>7. ASSUME NEW p \in DOMAIN pool', p \notin DOMAIN pool PROVE \E k \in 1..n : p = Len(pool) + k
  <2>1. p \in 1..(Len(pool) + n) /\ ~(p \in 1..Len(pool)) BY <1>2, <1>3, <1>7
  <2>2. p - Len(pool) \in 1..n /\ p = Len(pool) + (p - Len(pool)) BY <1>2, <2>1
  <2> QED BY <2>2
<1> QED BY <1>1, <1>2, <1>3, <1>4, <1>5, <1>6, <1>7

LEMMA LeavesFrom ==
    ASSUME IsSeq(pool), NEW gone, Leaves(gone)
    PROVE  /\ IsSeq(pool') /\ DOMAIN pool' = 1..Len(pool')
           /\ gone # ReportKey => \A p \in DOMAIN pool' : pool'[p].key # gone
           /\ \E from \in [DOMAIN pool' -> DOMAIN pool] :
                 /\ \A p \in DOMAIN pool' : /\ pool'[p].key = pool[from[p]].key
                                            /\ pool'[p] = pool[from[p]] \/ pool'[p].key = ReportKey
                 /\ \A p, q \in DOMAIN pool' : p # q => from[p] # from[q]
                 /\ \A k \in DOMAIN pool : pool[k].key # gone => \E p \in DOMAIN pool' : from[p] = k
<1>1. IsSeq(pool') /\ (gone # ReportKey => \A i \in 1..Len(pool') : pool'[i].key # gone) BY DEF Leaves
<1>2. DOMAIN pool' = 1..Len(pool') BY <1>1, SeqFacts
<1>3. PICK from \in [1..Len(pool') -> DOMAIN pool] :
          /\ \A i \in 1..Len(pool') : /\ pool'[i].key = pool[from[i]].key
                                      /\ pool'[i] = pool[from[i]] \/ pool'[i].key = ReportKey
          /\ \A i, j \in 1..Len(pool') : from[i] = from[j] => i = j
          /\ \A k \in DOMAIN pool : pool[k].key # gone => \E i \in 1..Len(pool') : from[i] = k
  BY Zenon DEF Leaves
<1>4. /\ from \in [DOMAIN pool' -> DOMAIN pool]
      /\ \A p \in DOMAIN pool' : /\ pool'[p].key = pool[from[p]].key
                                 /\ pool'[p] = pool[from[p]] \/ pool'[p].key = ReportKey
      /\ \A p, q \in DOMAIN pool' : p # q => from[p] # from[q]
      /\ \A k \in DOMAIN pool : pool[k].key # gone => \E p \in DOMAIN pool' : from[p] = k
  BY <1>2, <1>3
<1> QED BY <1>1, <1>2, <1>4

LEMMA StaysFrom ==
    ASSUME IsSeq(pool), Stays
    PROVE  /\ IsSeq(pool') /\ DOMAIN pool' = DOMAIN pool
           /\ \A p \in DOMAIN pool : /\ pool'[p].key = pool[p].key
                                     /\ pool'[p] = pool[p] \/ pool'[p].key = ReportKey
BY SeqFacts DEF Stays

LEMMA AnswerOfNothing == decode_entries(<<>>) = <<>>
<1>1. IsSeq(<<>>)
  <2>1. <<>> \in Seq({}) OBVIOUS
  <2> QED BY <2>1 DEF IsSeq
<1> DEFINE answer == decode_entries(<<>>)
<1>2. PICK at : Stands(answer, <<>>, at) BY <1>1, AnswerStands
<1>3. IsSeq(answer) /\ at \in [1..Len(answer) -> DOMAIN <<>>] BY <1>2 DEF Stands
<1>4. Len(answer) \in Nat BY <1>3, SeqFacts
<1>5. PICK S : answer \in Seq(S) BY <1>3 DEF IsSeq
<1> HIDE DEF answer
<1>6. DOMAIN <<>> = {} OBVIOUS
<1>7. ~(1 \in 1..Len(answer)) BY <1>3, <1>6
<1>8. Len(answer) = 0 BY <1>4, <1>7
<1>9. answer = <<>> BY <1>5, <1>8
<1> QED BY <1>9 DEF answer

LEMMA SeqInit == Init => SeqInv
<1> SUFFICES ASSUME Init PROVE SeqInv OBVIOUS
<1>1. IsSeq(<<>>)
  <2>1. <<>> \in Seq({}) OBVIOUS
  <2> QED BY <2>1 DEF IsSeq
<1>2. pool = <<>> /\ entries = <<>> /\ clock = 0 /\ emitted = <<>> /\ deletes = 0
      /\ sent = [m \in Messages |-> 0]
  BY DEF Init
<1>3. DOMAIN pool = {} BY <1>2
<1>4. clock \in 0..MaxClock BY <1>2, EmissionsAssumption
<1>5. sent \in [Messages -> Nat] BY <1>2
<1> QED BY <1>1, <1>2, <1>3, <1>4, <1>5, AnswerOfNothing DEF SeqInv

LEMMA SeqNext == SeqInv /\ [Next]_vars => SeqInv'
<1> SUFFICES ASSUME SeqInv, [Next]_vars PROVE SeqInv' OBVIOUS
<1>1. /\ IsSeq(pool) /\ \A p \in DOMAIN pool : IsSeq(pool[p].key)
      /\ IsSeq(emitted) /\ clock \in 0..MaxClock /\ deletes \in Nat
      /\ sent \in [Messages -> Nat]
  BY DEF SeqInv
<1>2. entries' = decode_entries(pool')
  <2>1. entries = decode_entries(pool) BY DEF SeqInv
  <2>2. CASE UNCHANGED vars BY <2>1, <2>2, Zenon DEF vars
  <2>3. CASE Next BY <2>3 DEF Next
  <2> QED BY <2>2, <2>3
<1> DEFINE Keyed == IsSeq(pool') /\ \A p \in DOMAIN pool' : IsSeq(pool'[p].key)
<1>3. ASSUME NEW t, NEW n \in Nat, Grows(t, n), \A k \in 1..n : IsSeq(t[k].key)
      PROVE  Keyed
  <2>1. IsSeq(pool') BY <1>1, <1>3, GrownFrom
  <2>2. ASSUME NEW p \in DOMAIN pool' PROVE IsSeq(pool'[p].key)
    <3>1. CASE p \in DOMAIN pool BY <1>1, <1>3, <3>1, GrownFrom
    <3>2. CASE p \notin DOMAIN pool
      <4>1. PICK k \in 1..n : p = Len(pool) + k BY <1>1, <1>3, <3>2, GrownFrom
      <4>2. pool'[p] = t[k] BY <1>1, <1>3, <4>1, GrownFrom
      <4> QED BY <1>3, <4>2
    <3> QED BY <3>1, <3>2
  <2> QED BY <2>1, <2>2
<1>4. ASSUME Stays PROVE Keyed BY <1>1, <1>4, StaysFrom
<1>5. ASSUME NEW d, NEW n, Emitting(d, n) PROVE SeqInv'
  <2> DEFINE framed == prepare_records(d, clock)
             e == [d |-> d, records |-> framed.records, ok |-> n = Len(framed.records)]
  <2>1. /\ d \in Emissions /\ Valid(d) /\ framed.fits /\ n \in 1..Len(framed.records)
        /\ Grows(framed.records, n) /\ emitted' = Append(emitted, e)
        /\ UNCHANGED <<clock, sent, deletes>>
    BY <1>5, Zenon DEF Emitting
  <2>2. e.d = d /\ e.records = framed.records OBVIOUS
  <2>3. clock \in 0..clock BY <1>1, EmissionsAssumption
  <2>4. PICK cut : Frames(e, clock, cut) BY <1>1, <2>1, <2>2, <2>3, CallFrames
  <2>5. \A j \in 1..Len(framed.records) : IsSeq(framed.records[j].key)
    BY <2>2, <2>4, Zenon DEF Frames, IsChunk
  <2>6. Len(framed.records) \in 1..Largest BY <2>2, <2>4, Zenon DEF Frames
  <2>7. n \in Nat /\ \A k \in 1..n : k \in 1..Len(framed.records) BY <2>1, <2>6
  <2>8. \A k \in 1..n : IsSeq(framed.records[k].key) BY <2>5, <2>7
  <2> HIDE DEF e
  <2>9. IsSeq(emitted') BY <1>1, <2>1, AppendFacts
  <2>10. Keyed BY <1>3, <2>1, <2>7, <2>8
  <2> QED BY <1>1, <1>2, <2>1, <2>9, <2>10 DEF SeqInv
<1>6. ASSUME NEW m, Sending(m) PROVE SeqInv'
  <2>1. /\ m \in Messages /\ sent[m] < Len(m) /\ Grows(<<m[sent[m] + 1]>>, 1)
        /\ sent' = [sent EXCEPT ![m] = sent[m] + 1] /\ UNCHANGED <<clock, emitted, deletes>>
    BY <1>6, Zenon DEF Sending
  <2>2. m \in Seq(ToSet(m)) /\ \A i \in DOMAIN m : m[i].key \in Seq(STRING)
    BY <2>1, MessagesAssumption, Zenon
  <2>3. sent[m] \in Nat /\ sent[m] + 1 \in DOMAIN m
    <3>1. sent[m] \in Nat BY <1>1, <2>1
    <3>2. Len(m) \in Nat /\ DOMAIN m = 1..Len(m) BY <2>2, LenProperties
    <3> QED BY <2>1, <3>1, <3>2
  <2>4. IsSeq(m[sent[m] + 1].key) BY <2>2, <2>3 DEF IsSeq
  <2>5. \A k \in 1..1 : k = 1 OBVIOUS
  <2>6. \A k \in 1..1 : IsSeq(<<m[sent[m] + 1]>>[k].key) BY <2>4, <2>5
  <2>7. Keyed BY <1>3, <2>1, <2>6
  <2>8. sent' \in [Messages -> Nat] BY <1>1, <2>1, <2>3
  <2> QED BY <1>1, <1>2, <2>1, <2>7, <2>8 DEF SeqInv
<1>7. ASSUME NEW r, IsSeq(r.key), Foreign(r) PROVE SeqInv'
  <2>1. Grows(<<r>>, 1) /\ UNCHANGED <<clock, emitted, sent, deletes>> BY <1>7, Zenon DEF Foreign
  <2>2. \A k \in 1..1 : k = 1 OBVIOUS
  <2>3. \A k \in 1..1 : IsSeq(<<r>>[k].key) BY <1>7, <2>2
  <2>4. Keyed BY <1>3, <2>1, <2>3
  <2> QED BY <1>1, <1>2, <2>1, <2>4 DEF SeqInv
<1>8. ASSUME NEW gone, Removing(gone) PROVE SeqInv'
  <2>1. Leaves(gone) /\ deletes' = deletes + 1 /\ UNCHANGED <<clock, emitted, sent>>
    BY <1>8 DEF Removing
  <2>2. Keyed
    <3>1. PICK from \in [DOMAIN pool' -> DOMAIN pool] :
              \A p \in DOMAIN pool' : pool'[p].key = pool[from[p]].key
      BY <1>1, <2>1, LeavesFrom
    <3>2. IsSeq(pool') BY <1>1, <2>1, LeavesFrom
    <3> QED BY <1>1, <3>1, <3>2
  <2>3. deletes' \in Nat BY <1>1, <2>1
  <2> QED BY <1>1, <1>2, <2>1, <2>2, <2>3 DEF SeqInv
<1>9. CASE Overwriting BY <1>1, <1>2, <1>4, <1>9 DEF SeqInv, Overwriting
<1>10. CASE Ticking
  <2>1. Stays /\ clock' = clock + 1 /\ clock < MaxClock /\ UNCHANGED <<emitted, sent, deletes>>
    BY <1>10 DEF Ticking
  <2>2. clock' \in 0..MaxClock BY <1>1, <2>1, EmissionsAssumption
  <2> QED BY <1>1, <1>2, <1>4, <2>1, <2>2 DEF SeqInv
<1> QED BY <1>5, <1>6, <1>7, <1>8, <1>9, <1>10, StepShapes, Zenon

(* The reader answers from the pool as it is, which is a sequence of        *)
(* records with keys.                                                      *)
THEOREM PoolIsRead == Spec => []SeqInv
BY SeqInit, SeqNext, PTL DEF Spec

(* No record of the pool is lost or returned twice. *)
THEOREM NothingIsLost == Spec => []NothingLost
<1>1. SeqInv => NothingLost BY NothingLostHere DEF SeqInv
<1> QED BY <1>1, PoolIsRead, PTL

-----------------------------------------------------------------------------
(* What the writer wrote. *)

(* A call that writes is the last of the calls, its records behind those   *)
(* of the pool.                                                            *)
LEMMA EmittingFrom ==
    ASSUME SeqInv, NEW d, NEW n, Emitting(d, n)
    PROVE  LET e == emitted'[Len(emitted) + 1] IN
           /\ Len(emitted) \in Nat /\ DOMAIN emitted = 1..Len(emitted)
           /\ IsSeq(emitted') /\ DOMAIN emitted' = 1..(Len(emitted) + 1)
           /\ \A i \in DOMAIN emitted : i \in DOMAIN emitted' /\ emitted'[i] = emitted[i]
           /\ \A i \in DOMAIN emitted' : i \in DOMAIN emitted \/ i = Len(emitted) + 1
           /\ Len(emitted) + 1 \in DOMAIN emitted' /\ Len(emitted) + 1 \notin DOMAIN emitted
           /\ e.d = d /\ e.records = prepare_records(d, clock).records
           /\ \E cut : Frames(e, clock, cut)
           /\ n \in 1..Len(e.records) /\ n \in Nat /\ Grows(e.records, n)
           /\ clock' = clock /\ sent' = sent /\ deletes' = deletes
<1> DEFINE framed == prepare_records(d, clock)
           e == [d |-> d, records |-> framed.records, ok |-> n = Len(framed.records)]
           l == Len(emitted)
<1>1. IsSeq(emitted) /\ clock \in 0..MaxClock BY DEF SeqInv
<1>2. /\ d \in Emissions /\ Valid(d) /\ framed.fits /\ n \in 1..Len(framed.records)
      /\ Grows(framed.records, n) /\ emitted' = Append(emitted, e)
      /\ UNCHANGED <<clock, sent, deletes>>
  BY Zenon DEF Emitting
<1>3. e.d = d /\ e.records = framed.records OBVIOUS
<1>4. clock \in 0..clock BY <1>1, EmissionsAssumption
<1>5. PICK cut : Frames(e, clock, cut) BY <1>1, <1>2, <1>3, <1>4, CallFrames
<1>6. Len(framed.records) \in 1..Largest BY <1>3, <1>5, Zenon DEF Frames
<1>7. n \in Nat BY <1>2, <1>6
<1>8. l \in Nat /\ DOMAIN emitted = 1..l BY <1>1, SeqFacts
<1> HIDE DEF e
<1>9. IsSeq(emitted') /\ Len(emitted') = l + 1 /\ \A i \in 1..l : emitted'[i] = emitted[i]
  BY <1>1, <1>2, AppendFacts
<1>10. emitted'[l + 1] = e BY <1>1, <1>2, AppendFacts
<1>11. DOMAIN emitted' = 1..(l + 1) BY <1>9, SeqFacts
<1> HIDE DEF l, framed
<1>12. /\ \A i \in DOMAIN emitted : i \in DOMAIN emitted' /\ emitted'[i] = emitted[i]
       /\ \A i \in DOMAIN emitted' : i \in DOMAIN emitted \/ i = l + 1
       /\ l + 1 \in DOMAIN emitted' /\ l + 1 \notin DOMAIN emitted
  BY <1>8, <1>9, <1>11
<1> QED BY <1>2, <1>3, <1>5, <1>7, <1>8, <1>9, <1>10, <1>11, <1>12, Zenon DEF l, framed

LEMMA CallInit == Init => CallInv
BY DEF Init, CallInv

(* The calls before a step are still there after it. *)
CallsKept == emitted' = emitted /\ clock' \in Nat /\ clock <= clock'

LEMMA CallsStay ==
    ASSUME SeqInv, [Next]_vars
    PROVE  (\E d, n : Emitting(d, n)) \/ CallsKept
<1>1. clock \in Nat BY EmissionsAssumption DEF SeqInv
<1>2. ASSUME NEW m, Sending(m) PROVE CallsKept BY <1>1, <1>2 DEF Sending, CallsKept
<1>3. ASSUME NEW r, Foreign(r) PROVE CallsKept BY <1>1, <1>3 DEF Foreign, CallsKept
<1>4. ASSUME NEW gone, Removing(gone) PROVE CallsKept BY <1>1, <1>4 DEF Removing, CallsKept
<1>5. CASE Overwriting BY <1>1, <1>5 DEF Overwriting, CallsKept
<1>6. CASE Ticking BY <1>1, <1>6 DEF Ticking, CallsKept
<1> QED BY <1>2, <1>3, <1>4, <1>5, <1>6, StepShapes, Zenon

LEMMA CallNext == SeqInv /\ CallInv /\ [Next]_vars => CallInv'
<1> SUFFICES ASSUME SeqInv, CallInv, [Next]_vars PROVE CallInv' OBVIOUS
<1> DEFINE Called(e, now) == /\ prepare_records(e.d, now).fits
                             /\ e.records = prepare_records(e.d, now).records
<1>1. \A i \in DOMAIN emitted : /\ emitted[i].d \in Emissions /\ Valid(emitted[i].d)
                                /\ \E now \in 0..clock : Called(emitted[i], now)
  BY DEF CallInv
<1>2. clock \in Nat BY EmissionsAssumption DEF SeqInv
<1>3. SUFFICES \A i \in DOMAIN emitted' : /\ emitted'[i].d \in Emissions /\ Valid(emitted'[i].d)
                                         /\ \E now \in 0..clock' : Called(emitted'[i], now)
  BY DEF CallInv
<1>4. CASE CallsKept
  <2>1. \A now \in 0..clock : now \in 0..clock' BY <1>2, <1>4 DEF CallsKept
  <2> HIDE DEF Called
  <2> QED BY <1>1, <1>4, <2>1 DEF CallsKept
<1>5. ASSUME NEW d, NEW n, Emitting(d, n)
      PROVE  \A i \in DOMAIN emitted' : /\ emitted'[i].d \in Emissions /\ Valid(emitted'[i].d)
                                        /\ \E now \in 0..clock' : Called(emitted'[i], now)
  <2> DEFINE l == Len(emitted)
  <2>1. /\ \A i \in DOMAIN emitted' : i \in DOMAIN emitted \/ i = l + 1
        /\ \A i \in DOMAIN emitted : emitted'[i] = emitted[i]
        /\ clock' = clock
    BY <1>5, EmittingFrom, Zenon
  <2>2. emitted'[l + 1].d = d /\ emitted'[l + 1].records = prepare_records(d, clock).records
    BY <1>5, EmittingFrom, Zenon
  <2>3. d \in Emissions /\ Valid(d) /\ prepare_records(d, clock).fits BY <1>5, Zenon DEF Emitting
  <2>4. Called(emitted'[l + 1], clock) BY <2>2, <2>3, Zenon
  <2>5. clock \in 0..clock' BY <1>2, <2>1
  <2> HIDE DEF Called, l
  <2> QED BY <1>1, <2>1, <2>2, <2>3, <2>4, <2>5
<1> QED BY <1>4, <1>5, CallsStay, Zenon

THEOREM CallsAreFrames == Spec => []CallInv
<1>1. SeqInv /\ CallInv /\ [Next]_vars => CallInv' BY CallNext
<1> QED BY <1>1, CallInit, PoolIsRead, PTL DEF Spec

(* A record of a call fits the pool and the format. *)
LEMMA FramesFit ==
    ASSUME NEW e, NEW now, NEW cut, Frames(e, now, cut)
    PROVE  /\ Len(e.records) \in 1..MaxChunks
           /\ \A j \in DOMAIN e.records :
                 /\ Bytes(e.records[j].value.text) <= MaxChunkBytes
                 /\ KeyBytes(Front(e.records[j].key), j - 1) <= MaxKeyBytes
                 /\ e.records[j].value.text = <<>> => Len(e.records) = 1
<1> DEFINE framed == prepare_records(e.d, now)
           b == Base(e.d, now)
           t == Text(e.d)
           c == Len(e.records)
<1>1. /\ e.d \in Emissions /\ e.records = framed.records /\ Framing(framed, b, t, cut)
      /\ c \in 1..MaxChunks /\ c \in 1..Largest
      /\ \A i \in 0..(c - 1) : KeyBytes(b, i) <= MaxKeyBytes
      /\ DOMAIN e.records = 1..c
      /\ \A j \in 1..c : IsChunk(e.records[j], b, j - 1)
  BY Zenon DEF Frames
<1>2. IsText(t) BY <1>1, CallText
<1>3. IsSeq(t) /\ Len(t) \in Nat BY <1>2, TextIs, SeqFacts
<1> HIDE DEF framed, b, t
<1>4. ASSUME NEW j \in 1..c
      PROVE  /\ Bytes(e.records[j].value.text) <= MaxChunkBytes
             /\ KeyBytes(Front(e.records[j].key), j - 1) <= MaxKeyBytes
             /\ e.records[j].value.text = <<>> => c = 1
  <2> DEFINE part == SubSeq(t, cut[j - 1] + 1, cut[j])
  <2>1. j - 1 \in 0..(c - 1) /\ j - 1 \in 0..c /\ j \in 0..c BY <1>1
  <2>2. /\ Bytes(part) <= MaxChunkBytes /\ e.records[j].value = Plain(part)
        /\ cut[j - 1] <= cut[j] /\ (c > 1 => cut[j - 1] < cut[j])
        /\ cut[j - 1] \in 0..Len(t) /\ cut[j] \in 0..Len(t)
    BY <1>1, <2>1 DEF Framing
  <2>3. e.records[j].value.text = part
    <3>1. e.records[j].value = Plain(part) BY <2>2
    <3> HIDE DEF part
    <3> QED BY <3>1 DEF Plain
  <2>4. Front(e.records[j].key) = b BY <1>1, Zenon DEF IsChunk
  <2>5. Len(part) = cut[j] - cut[j - 1]
    <3> DEFINE x == cut[j - 1]
               y == cut[j]
    <3>1. x \in Nat /\ y \in 0..Len(t) /\ x <= y BY <1>3, <2>2
    <3> HIDE DEF x, y
    <3>2. Len(SubSeq(t, x + 1, y)) = y - x BY <1>2, <3>1, SubText
    <3> QED BY <3>2 DEF x, y
  <2>6. part = <<>> => c = 1
    <3>1. Len(<<>>) = 0 OBVIOUS
    <3>2. part = <<>> => cut[j] - cut[j - 1] = 0 BY <2>5, <3>1
    <3>3. c > 1 => cut[j] - cut[j - 1] # 0 BY <1>3, <2>2
    <3>4. part = <<>> => ~(c > 1) BY <3>2, <3>3
    <3>5. c \in 1..Largest BY <1>1
    <3> HIDE DEF c, part
    <3> QED BY <3>4, <3>5
  <2> QED BY <1>1, <2>1, <2>2, <2>3, <2>4, <2>6
<1> QED BY <1>1, <1>4

(* Every record a call writes fits the pool and the format. *)
THEOREM WrittenRecordsFit == Spec => []RecordsFit
<1>1. SeqInv /\ CallInv => RecordsFit
  <2> SUFFICES ASSUME SeqInv, CallInv, NEW i \in DOMAIN emitted
               PROVE  LET records == emitted[i].records
                      IN  /\ Len(records) \in 1..MaxChunks
                          /\ \A j \in DOMAIN records :
                                /\ Bytes(records[j].value.text) <= MaxChunkBytes
                                /\ KeyBytes(Front(records[j].key), j - 1) <= MaxKeyBytes
                                /\ records[j].value.text = <<>> => Len(records) = 1
    BY DEF RecordsFit
  <2>1. clock \in 0..MaxClock BY DEF SeqInv
  <2>2. PICK now, cut : Frames(emitted[i], now, cut) BY <2>1, CallsFrame
  <2> QED BY <2>2, FramesFit, Zenon
<1> QED BY <1>1, PoolIsRead, CallsAreFrames, PTL

-----------------------------------------------------------------------------
(* Whose records are whose. *)

MessageAlone(m) ==
    /\ Len(m) = 1 /\ Place(m[1]) = Alone(m[1].key, "cloud-init")
    /\ [m[1].value.meta EXCEPT !.msg_i = Blank] = m[1].value.meta
MessageGroup(m) ==
    \A i \in DOMAIN m :
        /\ Place(m[i]) = InGroup(Place(m[1]).base, i - 1)
        /\ m[i].value.meta = [[m[1].value.meta EXCEPT !.msg_i = Blank] EXCEPT !.msg_i = format(i - 1)]

LEMMA MessageIs ==
    ASSUME NEW m \in Messages
    PROVE  /\ IsSeq(m) /\ m # <<>>
           /\ \A i \in DOMAIN m : /\ IsSeq(m[i].key) /\ m[i].key[1] = "CLOUD_INIT"
                                  /\ m[i].value.meta \in [DOMAIN NoMeta -> STRING]
                                  /\ IsText(m[i].value.text)
           /\ MessageAlone(m) \/ MessageGroup(m)
           /\ cloud_init_diagnostic(Place(m[1]).base, [m[1].value.meta EXCEPT !.msg_i = Blank], Whole(m)).ok
<1>1. /\ m \in Seq(ToSet(m)) /\ m # <<>>
      /\ \A i \in DOMAIN m :
            /\ m[i].key \in Seq(STRING) /\ m[i].key[1] = "CLOUD_INIT"
            /\ m[i].value.meta \in [DOMAIN NoMeta -> STRING] /\ IsText(m[i].value.text)
      /\ MessageAlone(m) \/ MessageGroup(m)
      /\ cloud_init_diagnostic(Place(m[1]).base, [m[1].value.meta EXCEPT !.msg_i = Blank], Whole(m)).ok
  BY MessagesAssumption, Zenon DEF MessageAlone, MessageGroup
<1> QED BY <1>1, Zenon DEF IsSeq

LEMMA MessageRecords ==
    ASSUME NEW m \in Messages
    PROVE  /\ Len(m) \in Nat \ {0} /\ DOMAIN m = 1..Len(m) /\ 1 \in DOMAIN m
           /\ Place(m[1]).base[1] = "CLOUD_INIT"
           /\ \A i \in DOMAIN m :
                 /\ ~Own(m[i])
                 /\ Place(m[i]).as = "chunk" => /\ Place(m[i]).base = Place(m[1]).base
                                                /\ Place(m[i]).index = i - 1
<1>1. /\ IsSeq(m) /\ m # <<>>
      /\ \A i \in DOMAIN m : IsSeq(m[i].key) /\ m[i].key[1] = "CLOUD_INIT"
      /\ MessageAlone(m) \/ MessageGroup(m)
  BY MessageIs, Zenon
<1>2. Len(m) \in Nat /\ DOMAIN m = 1..Len(m) BY <1>1, SeqFacts
<1>3. Len(m) # 0
  <2>1. PICK S : m \in Seq(S) BY <1>1 DEF IsSeq
  <2> QED BY <1>1, <2>1
<1>4. 1 \in DOMAIN m BY <1>2, <1>3
<1>5. ASSUME NEW i \in DOMAIN m PROVE Place(m[i]).as = "chunk" => Place(m[i]).base[1] = "CLOUD_INIT"
  BY <1>1, PlaceFacts
<1>6. \A i \in DOMAIN m : ~Own(m[i])
  <2>1. "CLOUD_INIT" # "DIAG" OBVIOUS
  <2> QED BY <1>5, <2>1 DEF Own
<1>7. CASE MessageAlone(m)
  <2>1. Place(m[1]) = Alone(m[1].key, "cloud-init") /\ Len(m) = 1 BY <1>7 DEF MessageAlone
  <2>2. Place(m[1]).as = "cloud-init" /\ Place(m[1]).base = m[1].key BY <2>1 DEF Alone
  <2>3. \A i \in DOMAIN m : i = 1 BY <1>2, <2>1
  <2>4. "cloud-init" # "chunk" OBVIOUS
  <2>5. \A i \in DOMAIN m : Place(m[i]).as # "chunk" BY <2>2, <2>3, <2>4
  <2> QED BY <1>1, <1>2, <1>3, <1>4, <1>6, <2>2, <2>5
<1>8. CASE MessageGroup(m)
  <2>1. \A i \in DOMAIN m : Place(m[i]) = InGroup(Place(m[1]).base, i - 1) BY <1>8 DEF MessageGroup
  <2>2. \A i \in DOMAIN m : /\ Place(m[i]).as = "chunk" /\ Place(m[i]).base = Place(m[1]).base
                            /\ Place(m[i]).index = i - 1
    BY <2>1 DEF InGroup
  <2>3. Place(m[1]).base[1] = "CLOUD_INIT" BY <1>4, <1>5, <2>2
  <2> QED BY <1>1, <1>2, <1>3, <1>4, <1>6, <2>2, <2>3
<1> QED BY <1>1, <1>7, <1>8

LEMMA MessageBases ==
    ASSUME NEW m \in Messages, NEW n \in Messages, Place(m[1]).base = Place(n[1]).base
    PROVE  m = n
BY MessagesAssumption, Zenon

LEMMA ReportPlace ==
    ASSUME NEW r, r.key = ReportKey
    PROVE  Place(r).as # "chunk"
<1>1. Head(r.key) \notin {"DIAG", "CLOUD_INIT"}
  <2>1. Head(<<"PROVISIONING_REPORT">>) = "PROVISIONING_REPORT" OBVIOUS
  <2> QED BY <2>1 DEF ReportKey
<1>2. Place(r) \in {Alone(r.key, "report"), Raw("unsupported_version"), Raw("none")} BY <1>1, PlaceBy
<1> QED BY <1>2 DEF Alone, Raw

LEMMA ForeignPlace ==
    ASSUME NEW r, Foreign(r)
    PROVE  /\ ~Own(r)
           /\ \A m \in Messages : Place(r).as = "chunk" => Place(r).base # Place(m[1]).base
<1>1. CASE r.key = ReportKey
  <2>1. Place(r).as # "chunk" BY <1>1, ReportPlace
  <2> QED BY <2>1 DEF Own
<1>2. CASE r \in Others
  <2>1. /\ Place(r).as = "chunk" =>
              /\ Place(r).base[1] = "DIAG" => Place(r).base[2] # Agent
              /\ \A m \in Messages : Place(r).base # Place(m[1]).base
    BY <1>2, OthersAssumption, Zenon
  <2> QED BY <2>1, Zenon DEF Own
<1> QED BY <1>1, <1>2 DEF Foreign

(* A record of a call has no message's key. *)
LEMMA FramePlace ==
    ASSUME clock \in 0..MaxClock, NEW e, NEW now, NEW cut, Frames(e, now, cut), NEW j \in DOMAIN e.records
    PROVE  /\ Own(e.records[j]) /\ IsChunk(e.records[j], Base(e.d, now), j - 1)
           /\ j \in 1..Largest /\ DOMAIN e.records = 1..Len(e.records) /\ 1 \in DOMAIN e.records
           /\ now \in 0..MaxClock /\ e.d \in Emissions
           /\ \A m \in Messages : Place(e.records[j]).base # Place(m[1]).base
<1>1. /\ e.d \in Emissions /\ now \in 0..clock
      /\ Len(e.records) \in 1..Largest
      /\ DOMAIN e.records = 1..Len(e.records)
      /\ \A i \in 1..Len(e.records) : IsChunk(e.records[i], Base(e.d, now), i - 1)
  BY Zenon DEF Frames
<1> DEFINE c == Len(e.records)
<1>2. c \in 1..Largest /\ DOMAIN e.records = 1..c BY <1>1
<1> HIDE DEF c
<1>3. j \in 1..c /\ j \in 1..Largest /\ 1 \in 1..c BY <1>2, LargestFacts
<1>4. now \in 0..MaxClock BY <1>1, EmissionsAssumption
<1>5. IsChunk(e.records[j], Base(e.d, now), j - 1) BY <1>1, <1>3 DEF c
<1>6. Own(e.records[j]) BY <1>1, <1>4, <1>5, ChunkIsOwn
<1>7. ASSUME NEW m \in Messages PROVE Place(e.records[j]).base # Place(m[1]).base
  <2>1. Place(m[1]).base[1] = "CLOUD_INIT" BY MessageRecords
  <2>2. Place(e.records[j]).base[1] = "DIAG" BY <1>6 DEF Own
  <2> QED BY <2>1, <2>2
<1> QED BY <1>1, <1>2, <1>3, <1>4, <1>5, <1>6, <1>7 DEF c

(* r is a record that a call wrote. *)
ByCall(r, calls) == \E i \in DOMAIN calls : \E j \in DOMAIN calls[i].records : r = calls[i].records[j]

LEMMA ByCallStays ==
    ASSUME SeqInv, [Next]_vars, NEW r, ByCall(r, emitted)
    PROVE  ByCall(r, emitted')
<1>1. PICK i \in DOMAIN emitted : \E j \in DOMAIN emitted[i].records : r = emitted[i].records[j]
  BY DEF ByCall
<1>2. i \in DOMAIN emitted' /\ emitted'[i] = emitted[i]
  <2>1. CASE CallsKept BY <2>1 DEF CallsKept
  <2>2. ASSUME NEW d, NEW n, Emitting(d, n) PROVE i \in DOMAIN emitted' /\ emitted'[i] = emitted[i]
    BY <2>2, EmittingFrom, Zenon
  <2> QED BY <2>1, <2>2, CallsStay, Zenon
<1> QED BY <1>1, <1>2 DEF ByCall

LEMMA OwnNext == SeqInv /\ OwnInv /\ [Next]_vars => OwnInv'
<1> SUFFICES ASSUME SeqInv, OwnInv, [Next]_vars, NEW p \in DOMAIN pool', Own(pool'[p])
             PROVE  ByCall(pool'[p], emitted')
  BY DEF OwnInv, ByCall
<1>1. \A q \in DOMAIN pool : Own(pool[q]) => ByCall(pool[q], emitted) BY DEF OwnInv, ByCall
<1>2. IsSeq(pool) /\ clock \in 0..MaxClock BY DEF SeqInv
<1>3. SUFFICES ASSUME \A q \in DOMAIN pool : pool'[p] # pool[q] PROVE ByCall(pool'[p], emitted')
  BY <1>1, ByCallStays
<1>4. ASSUME NEW t, NEW n \in Nat, Grows(t, n) PROVE \E k \in 1..n : pool'[p] = t[k]
  <2>1. p \notin DOMAIN pool BY <1>2, <1>3, <1>4, GrownFrom
  <2>2. PICK k \in 1..n : p = Len(pool) + k BY <1>2, <1>4, <2>1, GrownFrom
  <2> QED BY <1>2, <1>4, <2>2, GrownFrom, ZenonT(60)
<1>5. pool'[p].key # ReportKey BY ReportPlace DEF Own
<1>6. ASSUME NEW d, NEW n, Emitting(d, n) PROVE ByCall(pool'[p], emitted')
  <2> DEFINE l == Len(emitted) + 1
             e == emitted'[l]
  <2>1. /\ l \in DOMAIN emitted' /\ n \in 1..Len(e.records) /\ n \in Nat /\ Grows(e.records, n)
        /\ \E cut : Frames(e, clock, cut)
    BY <1>6, EmittingFrom, Zenon
  <2>2. PICK cut : Frames(e, clock, cut) BY <2>1
  <2>3. DOMAIN e.records = 1..Len(e.records) /\ Len(e.records) \in 1..Largest BY <2>2, Zenon DEF Frames
  <2> DEFINE c == Len(e.records)
  <2>4. c \in 1..Largest /\ n \in 1..c BY <2>1, <2>3
  <2> HIDE DEF c, e
  <2>5. PICK k \in 1..n : pool'[p] = e.records[k] BY <1>4, <2>1
  <2>6. k \in 1..c BY <2>4
  <2>7. k \in DOMAIN e.records BY <2>3, <2>6 DEF c
  <2> QED BY <2>1, <2>5, <2>7 DEF ByCall, e
<1>7. ASSUME NEW m, Sending(m) PROVE FALSE
  <2>1. /\ m \in Messages /\ sent[m] < Len(m) /\ Grows(<<m[sent[m] + 1]>>, 1)
    BY <1>7, Zenon DEF Sending
  <2>2. sent[m] \in Nat BY <2>1 DEF SeqInv
  <2>3. Len(m) \in Nat \ {0} /\ DOMAIN m = 1..Len(m) BY <2>1, MessageRecords
  <2>4. sent[m] + 1 \in DOMAIN m BY <2>1, <2>2, <2>3
  <2>5. ~Own(m[sent[m] + 1]) BY <2>1, <2>4, MessageRecords
  <2>6. PICK k \in 1..1 : pool'[p] = <<m[sent[m] + 1]>>[k] BY <1>4, <2>1
  <2>7. k = 1 OBVIOUS
  <2> QED BY <2>5, <2>6, <2>7
<1>8. ASSUME NEW r, Foreign(r) PROVE FALSE
  <2>1. ~Own(r) BY <1>8, ForeignPlace
  <2>2. PICK k \in 1..1 : pool'[p] = <<r>>[k] BY <1>4, <1>8 DEF Foreign
  <2>3. k = 1 OBVIOUS
  <2> QED BY <2>1, <2>2, <2>3
<1>9. ASSUME NEW gone, Removing(gone) PROVE FALSE
  <2>1. Leaves(gone) BY <1>9 DEF Removing
  <2>2. PICK from \in [DOMAIN pool' -> DOMAIN pool] :
            \A q \in DOMAIN pool' : pool'[q] = pool[from[q]] \/ pool'[q].key = ReportKey
    BY <1>2, <2>1, LeavesFrom
  <2> QED BY <1>3, <1>5, <2>2
<1>10. ASSUME Stays PROVE FALSE BY <1>2, <1>3, <1>5, <1>10, StaysFrom
<1> QED BY <1>6, <1>7, <1>8, <1>9, <1>10, StepShapes, Zenon DEF Overwriting, Ticking

LEMMA OwnInit == Init => OwnInv
BY DEF Init, OwnInv

(* Whatever bears the writer's name is a record of a call. *)
THEOREM OwnAreCalls == Spec => []OwnInv
BY OwnInit, OwnNext, PoolIsRead, PTL DEF Spec

(* r is a chunk under the key of message m. *)
OfMessage(r, m) == Place(r).as = "chunk" /\ Place(r).base = Place(m[1]).base
SentOnce(pl, m, n) ==
    /\ \A p \in DOMAIN pl : OfMessage(pl[p], m) => \E i \in 1..n : pl[p] = m[i]
    /\ \A p, q \in DOMAIN pl : OfMessage(pl[p], m) /\ OfMessage(pl[q], m) /\ p # q => pl[p] # pl[q]

LEMMA MessageInvIs ==
    MessageInv <=> \A m \in Messages : sent[m] \in 0..Len(m) /\ SentOnce(pool, m, sent[m])
BY Zenon DEF MessageInv, SentOnce, OfMessage

LEMMA SentStays ==
    ASSUME IsSeq(pool), NEW m \in Messages, NEW n \in Nat, SentOnce(pool, m, n)
    PROVE  /\ \A t : \A k \in Nat : Grows(t, k) /\ (\A i \in 1..k : ~OfMessage(t[i], m)) => SentOnce(pool', m, n)
           /\ \A gone : Leaves(gone) => SentOnce(pool', m, n)
           /\ Stays => SentOnce(pool', m, n)
<1>1. ASSUME NEW t, NEW k \in Nat, Grows(t, k), \A i \in 1..k : ~OfMessage(t[i], m)
      PROVE  SentOnce(pool', m, n)
  <2>1. \A p \in DOMAIN pool' : OfMessage(pool'[p], m) => p \in DOMAIN pool /\ pool'[p] = pool[p]
    <3> SUFFICES ASSUME NEW p \in DOMAIN pool', OfMessage(pool'[p], m)
                 PROVE  p \in DOMAIN pool /\ pool'[p] = pool[p]
      OBVIOUS
    <3>1. CASE p \in DOMAIN pool BY <1>1, <3>1, GrownFrom
    <3>2. CASE p \notin DOMAIN pool
      <4>1. PICK i \in 1..k : p = Len(pool) + i BY <1>1, <3>2, GrownFrom
      <4>2. pool'[p] = t[i] BY <1>1, <4>1, GrownFrom
      <4> QED BY <1>1, <4>2
    <3> QED BY <3>1, <3>2
  <2> QED BY <2>1 DEF SentOnce
<1>2. ASSUME NEW gone, Leaves(gone) PROVE SentOnce(pool', m, n)
  <2>1. PICK from \in [DOMAIN pool' -> DOMAIN pool] :
            /\ \A p \in DOMAIN pool' : pool'[p] = pool[from[p]] \/ pool'[p].key = ReportKey
            /\ \A p, q \in DOMAIN pool' : p # q => from[p] # from[q]
    BY <1>2, LeavesFrom
  <2>2. \A p \in DOMAIN pool' : OfMessage(pool'[p], m) => pool'[p] = pool[from[p]]
    BY <2>1, ReportPlace DEF OfMessage
  <2> QED BY <2>1, <2>2 DEF SentOnce
<1>3. ASSUME Stays PROVE SentOnce(pool', m, n)
  <2>1. /\ DOMAIN pool' = DOMAIN pool
        /\ \A p \in DOMAIN pool : pool'[p] = pool[p] \/ pool'[p].key = ReportKey
    BY <1>3, StaysFrom
  <2>2. \A p \in DOMAIN pool' : OfMessage(pool'[p], m) => pool'[p] = pool[p]
    BY <2>1, ReportPlace DEF OfMessage
  <2> QED BY <2>1, <2>2 DEF SentOnce
<1> QED BY <1>1, <1>2, <1>3, Zenon

LEMMA MessageNext == SeqInv /\ MessageInv /\ [Next]_vars => MessageInv'
<1> SUFFICES ASSUME SeqInv, MessageInv, [Next]_vars, NEW m \in Messages
             PROVE  sent'[m] \in 0..Len(m) /\ SentOnce(pool', m, sent'[m])
  BY Zenon DEF MessageInv, SentOnce, OfMessage
<1> DEFINE s == sent[m]
<1>1. IsSeq(pool) /\ clock \in 0..MaxClock /\ sent \in [Messages -> Nat] BY DEF SeqInv
<1>2. s \in 0..Len(m) /\ SentOnce(pool, m, s) /\ s \in Nat BY <1>1, MessageInvIs
<1>3. Len(m) \in Nat \ {0} /\ DOMAIN m = 1..Len(m) BY MessageRecords
<1>4. /\ \A t : \A k \in Nat : Grows(t, k) /\ (\A i \in 1..k : ~OfMessage(t[i], m)) => SentOnce(pool', m, s)
      /\ \A gone : Leaves(gone) => SentOnce(pool', m, s)
      /\ Stays => SentOnce(pool', m, s)
  BY <1>1, <1>2, SentStays, Zenon
<1>5. ASSUME NEW d, NEW n, Emitting(d, n) PROVE sent' = sent /\ SentOnce(pool', m, s)
  <2> DEFINE e == emitted'[Len(emitted) + 1]
             c == Len(e.records)
  <2>1. /\ n \in 1..c /\ n \in Nat /\ Grows(e.records, n) /\ sent' = sent
        /\ \E cut : Frames(e, clock, cut)
    BY <1>5, EmittingFrom, Zenon
  <2>2. PICK cut : Frames(e, clock, cut) BY <2>1
  <2>3. DOMAIN e.records = 1..c /\ c \in 1..Largest BY <2>2, Zenon DEF Frames
  <2> HIDE DEF c, e
  <2>4. \A i \in 1..n : i \in DOMAIN e.records BY <2>1, <2>3
  <2>5. \A i \in DOMAIN e.records : ~OfMessage(e.records[i], m)
    BY <1>1, <2>2, FramePlace, Zenon DEF OfMessage
  <2> QED BY <1>4, <2>1, <2>4, <2>5
<1>6. ASSUME NEW m2, Sending(m2), m2 # m PROVE sent'[m] = s /\ SentOnce(pool', m, s)
  <2> DEFINE k == sent[m2] + 1
  <2>1. /\ m2 \in Messages /\ sent[m2] < Len(m2) /\ Grows(<<m2[k]>>, 1)
        /\ sent' = [sent EXCEPT ![m2] = k]
    BY <1>6, Zenon DEF Sending
  <2>2. sent[m2] \in Nat BY <1>1, <2>1
  <2>3. Len(m2) \in Nat \ {0} /\ DOMAIN m2 = 1..Len(m2) BY <2>1, MessageRecords
  <2>4. k \in DOMAIN m2 BY <2>1, <2>2, <2>3
  <2> HIDE DEF k
  <2>5. ~OfMessage(m2[k], m)
    <3>1. Place(m2[k]).as = "chunk" => Place(m2[k]).base = Place(m2[1]).base
      BY <2>1, <2>4, MessageRecords
    <3>2. Place(m2[1]).base # Place(m[1]).base BY <1>6, <2>1, MessageBases
    <3> QED BY <3>1, <3>2 DEF OfMessage
  <2>6. \A i \in 1..1 : i = 1 OBVIOUS
  <2>7. \A i \in 1..1 : ~OfMessage(<<m2[k]>>[i], m) BY <2>5, <2>6
  <2>8. SentOnce(pool', m, s) BY <1>4, <2>1, <2>7
  <2>9. sent'[m] = s BY <1>1, <1>6, <2>1
  <2> QED BY <2>8, <2>9
<1>7. ASSUME Sending(m) PROVE sent'[m] = s + 1 /\ s < Len(m) /\ SentOnce(pool', m, s + 1)
  <2> DEFINE k == s + 1
  <2>1. s < Len(m) /\ Grows(<<m[k]>>, 1) /\ sent' = [sent EXCEPT ![m] = k]
    BY <1>7, Zenon DEF Sending
  <2>2. sent'[m] = k BY <1>1, <2>1
  <2>3. k \in DOMAIN m /\ k \in 1..k /\ \A i \in 1..s : i \in 1..k /\ i \in DOMAIN m /\ i # k
    BY <1>2, <1>3, <2>1
  <2> HIDE DEF k
  <2>4. \A p \in DOMAIN pool' : \/ p \in DOMAIN pool /\ pool'[p] = pool[p]
                                \/ p = Len(pool) + 1 /\ pool'[p] = m[k]
    <3>1. <<m[k]>>[1] = m[k] OBVIOUS
    <3>2. \A i \in 1..1 : i = 1 OBVIOUS
    <3>3. \A p \in DOMAIN pool' : p \in DOMAIN pool \/ \E i \in 1..1 : p = Len(pool) + i
      BY <1>1, <2>1, GrownFrom
    <3>4. \A p \in DOMAIN pool : pool'[p] = pool[p] BY <1>1, <2>1, GrownFrom
    <3>5. pool'[Len(pool) + 1] = m[k]
      <4>1. 1 \in 1..1 OBVIOUS
      <4>2. pool'[Len(pool) + 1] = <<m[k]>>[1] BY <1>1, <2>1, <4>1, GrownFrom
      <4> QED BY <3>1, <4>2
    <3> QED BY <3>2, <3>3, <3>4, <3>5
  <2>5. \A p \in DOMAIN pool : OfMessage(pool[p], m) => \E i \in 1..s : pool[p] = m[i]
    BY <1>2 DEF SentOnce
  <2>6. \A p \in DOMAIN pool : OfMessage(pool[p], m) /\ OfMessage(m[k], m) => pool[p] # m[k]
    <3> SUFFICES ASSUME NEW p \in DOMAIN pool, OfMessage(pool[p], m), OfMessage(m[k], m), pool[p] = m[k]
                 PROVE  FALSE
      OBVIOUS
    <3>1. PICK i \in 1..s : pool[p] = m[i] BY <2>5
    <3>2. i \in DOMAIN m /\ k \in DOMAIN m /\ i # k BY <2>3
    <3>3. Place(m[k]).index = k - 1 BY <3>2, MessageRecords DEF OfMessage
    <3>4. Place(m[i]).index = i - 1 BY <3>1, <3>2, MessageRecords DEF OfMessage
    <3>5. i - 1 = k - 1 BY <3>1, <3>3, <3>4
    <3>6. i \in Nat /\ k \in Nat BY <1>3, <3>2
    <3> QED BY <3>2, <3>5, <3>6
  <2>7. \A p \in DOMAIN pool' : OfMessage(pool'[p], m) => \E i \in 1..k : pool'[p] = m[i]
    BY <2>3, <2>4, <2>5
  <2>8. ASSUME NEW p \in DOMAIN pool', NEW q \in DOMAIN pool', OfMessage(pool'[p], m),
               OfMessage(pool'[q], m), p # q
        PROVE  pool'[p] # pool'[q]
    <3>1. CASE p \in DOMAIN pool /\ pool'[p] = pool[p] /\ q \in DOMAIN pool /\ pool'[q] = pool[q]
      BY <1>2, <2>8, <3>1 DEF SentOnce
    <3>2. CASE p \in DOMAIN pool /\ pool'[p] = pool[p] /\ pool'[q] = m[k] BY <2>6, <2>8, <3>2
    <3>3. CASE q \in DOMAIN pool /\ pool'[q] = pool[q] /\ pool'[p] = m[k] BY <2>6, <2>8, <3>3
    <3>4. /\ (p \in DOMAIN pool /\ pool'[p] = pool[p]) \/ (p = Len(pool) + 1 /\ pool'[p] = m[k])
          /\ (q \in DOMAIN pool /\ pool'[q] = pool[q]) \/ (q = Len(pool) + 1 /\ pool'[q] = m[k])
      BY <2>4, Zenon
    <3> QED BY <2>8, <3>1, <3>2, <3>3, <3>4
  <2>9. SentOnce(pool', m, k) BY <2>7, <2>8 DEF SentOnce
  <2> QED BY <2>1, <2>2, <2>9 DEF k
<1>8. ASSUME NEW r, Foreign(r) PROVE sent' = sent /\ SentOnce(pool', m, s)
  <2>1. Grows(<<r>>, 1) /\ sent' = sent BY <1>8, Zenon DEF Foreign
  <2>2. ~OfMessage(r, m) BY <1>8, ForeignPlace DEF OfMessage
  <2>3. \A i \in 1..1 : i = 1 OBVIOUS
  <2>4. \A i \in 1..1 : ~OfMessage(<<r>>[i], m) BY <2>2, <2>3
  <2> QED BY <1>4, <2>1, <2>4
<1>9. ASSUME NEW gone, Removing(gone) PROVE sent' = sent /\ SentOnce(pool', m, s)
  BY <1>4, <1>9 DEF Removing
<1>10. ASSUME Overwriting \/ Ticking PROVE sent' = sent /\ SentOnce(pool', m, s)
  BY <1>4, <1>10 DEF Overwriting, Ticking
<1>11. CASE sent'[m] = s /\ SentOnce(pool', m, s) BY <1>2, <1>11
<1>12. CASE Sending(m)
  <2>1. s + 1 \in 0..Len(m) BY <1>2, <1>3, <1>7, <1>12
  <2> QED BY <1>7, <1>12, <2>1
<1> QED BY <1>5, <1>6, <1>8, <1>9, <1>10, <1>11, <1>12, StepShapes, Zenon

LEMMA MessageInit == Init => MessageInv
<1> SUFFICES ASSUME Init PROVE \A m \in Messages : sent[m] \in 0..Len(m) /\ SentOnce(pool, m, sent[m])
  BY MessageInvIs
<1>1. pool = <<>> /\ sent = [m \in Messages |-> 0] BY DEF Init
<1>2. DOMAIN pool = {} BY <1>1
<1> TAKE m \in Messages
<1>3. sent[m] \in 0..Len(m) BY <1>1, MessageRecords
<1>4. SentOnce(pool, m, sent[m]) BY <1>2 DEF SentOnce
<1> QED BY <1>3, <1>4

(* A chunk under a message's key is one of the message's, sent once. *)
THEOREM MessagesAreSent == Spec => []MessageInv
BY MessageInit, MessageNext, PoolIsRead, PTL DEF Spec

-----------------------------------------------------------------------------
(* First records. *)

FirstOf(e) == e.records[1].key
Present(pl, k) == \E p \in DOMAIN pl : pl[p].key = k
Twice(pl, k) ==
    \A p \in DOMAIN pl : pl[p].key = k => \E q \in DOMAIN pl : q # p /\ pl[q].key = k
Late(k, now) ==
    /\ k[1] = "DIAG" /\ Len(k) = 11 /\ IsUnsigned(k[7])
    /\ ~(Unsigned(k[7]) < now \div TimestampUnit)
FirstAt(pl, calls, now) ==
    /\ \A i, j \in DOMAIN calls : i # j /\ FirstOf(calls[i]) = FirstOf(calls[j]) =>
          Twice(pl, FirstOf(calls[i]))
    /\ \A i \in DOMAIN calls : Late(FirstOf(calls[i]), now) => Present(pl, FirstOf(calls[i]))

LEMMA FirstInvIs == FirstInv <=> FirstAt(pool, emitted, clock)
<1>1. \A k : Late(k, clock) <=> ~Settled(k) BY Zenon DEF Late, Settled
<1> QED BY <1>1, Zenon DEF FirstInv, FirstAt, FirstOf, First, Present, Twice

(* The key of a call's first record. *)
LEMMA FirstKey ==
    ASSUME clock \in 0..MaxClock, NEW e, NEW now, NEW cut, Frames(e, now, cut)
    PROVE  LET k == FirstOf(e) IN
           /\ k # ReportKey /\ k = Append(Base(e.d, now), format(0))
           /\ now \div TimestampUnit \in 0..Largest /\ k[7] = format(now \div TimestampUnit)
           /\ \A c : Late(k, c) <=> ~(now \div TimestampUnit < c \div TimestampUnit)
           /\ \A r : r.key = k => Own(r) /\ IsChunk(r, Base(e.d, now), 0)
           /\ \A j \in DOMAIN e.records : e.records[j].key = k => j = 1
<1> DEFINE r1 == e.records[1]
           k == FirstOf(e)
           b == Base(e.d, now)
           u == now \div TimestampUnit
<1>1. /\ e.d \in Emissions /\ now \in 0..MaxClock /\ 1 \in DOMAIN e.records
      /\ DOMAIN e.records = 1..Len(e.records)
      /\ \A j \in DOMAIN e.records : j \in 1..Largest /\ IsChunk(e.records[j], b, j - 1)
  <2>1. Len(e.records) \in 1..Largest /\ DOMAIN e.records = 1..Len(e.records) BY Zenon DEF Frames
  <2>2. 1 \in DOMAIN e.records
    <3> DEFINE c == Len(e.records)
    <3>1. c \in 1..Largest /\ DOMAIN e.records = 1..c BY <2>1
    <3> HIDE DEF c
    <3> QED BY <3>1
  <2> QED BY <2>2, FramePlace, Zenon
<1>2. IsSeq(b) /\ Len(b) = 10 /\ b[1] = "DIAG" /\ b[7] = format(u) /\ u \in 0..Largest
  BY <1>1, BaseFacts
<1>3. 1 - 1 = 0 OBVIOUS
<1>4. IsChunk(r1, b, 0) BY <1>1, <1>3
<1>5. k = r1.key BY DEF FirstOf
<1> HIDE DEF r1, k, b, u
<1>6. k = Append(b, format(0)) /\ Len(k) = 11 /\ k[1] = "DIAG" /\ k[7] = format(u)
  <2>1. k = Append(b, format(0)) /\ Len(k) = 11 BY <1>4, <1>5, Zenon DEF IsChunk
  <2>2. \A i \in 1..10 : k[i] = b[i] BY <1>4, <1>5, Zenon DEF IsChunk
  <2>3. 1 \in 1..10 /\ 7 \in 1..10 OBVIOUS
  <2> QED BY <1>2, <2>1, <2>2, <2>3
<1>7. k # ReportKey
  <2>1. ReportKey[1] # "DIAG" BY DEF ReportKey
  <2> QED BY <1>6, <2>1
<1>8. IsUnsigned(format(u)) /\ Unsigned(format(u)) = u BY <1>2, Numerals
<1>9. \A c : Late(k, c) <=> ~(u < c \div TimestampUnit) BY <1>6, <1>8, Zenon DEF Late
<1>10. ASSUME NEW r, r.key = k PROVE Own(r) /\ IsChunk(r, b, 0)
  <2>1. 0 \in 0..Largest BY LargestFacts
  <2>2. r.key = Append(b, format(0)) BY <1>6, <1>10
  <2>3. IsChunk(r, b, 0) BY <1>2, <2>1, <2>2, ChunkKey
  <2>4. Own(r) BY <1>1, <2>3, ChunkIsOwn DEF b
  <2> QED BY <2>3, <2>4
<1>11. ASSUME NEW j \in DOMAIN e.records, e.records[j].key = k PROVE j = 1
  <2>1. IsChunk(e.records[j], b, j - 1) /\ j \in 1..Largest BY <1>1
  <2>2. Last(e.records[j].key) = format(j - 1) BY <2>1, Zenon DEF IsChunk
  <2>3. Last(k) = format(0) BY <1>4, <1>5, Zenon DEF IsChunk
  <2>4. format(j - 1) = format(0) BY <1>11, <2>2, <2>3
  <2>5. j - 1 \in 0..Largest /\ 0 \in 0..Largest BY <2>1, LargestFacts
  <2>6. j - 1 = 0 BY <2>4, <2>5, Numerals
  <2> QED BY <2>1, <2>6
<1> QED BY <1>2, <1>6, <1>7, <1>9, <1>10, <1>11, Zenon DEF k, b, u

(* What a step does to the records under a key. *)
LEMMA KeyStays ==
    ASSUME IsSeq(pool), NEW k, k # ReportKey
    PROVE  /\ \A t : \A n \in Nat : Grows(t, n) =>
                 /\ Present(pool, k) => Present(pool', k)
                 /\ (\A j \in 1..n : t[j].key # k) /\ Twice(pool, k) => Twice(pool', k)
           /\ \A gone : Leaves(gone) =>
                 /\ k # gone /\ Present(pool, k) => Present(pool', k)
                 /\ Twice(pool, k) => Twice(pool', k)
           /\ Stays => /\ Present(pool, k) => Present(pool', k)
                       /\ Twice(pool, k) => Twice(pool', k)
<1>1. ASSUME NEW t, NEW n \in Nat, Grows(t, n)
      PROVE  /\ Present(pool, k) => Present(pool', k)
             /\ (\A j \in 1..n : t[j].key # k) /\ Twice(pool, k) => Twice(pool', k)
  <2>1. DOMAIN pool \subseteq DOMAIN pool' /\ \A p \in DOMAIN pool : pool'[p] = pool[p]
    BY <1>1, GrownFrom
  <2>2. Present(pool, k) => Present(pool', k) BY <2>1 DEF Present
  <2>3. ASSUME \A j \in 1..n : t[j].key # k, Twice(pool, k) PROVE Twice(pool', k)
    <3>1. ASSUME NEW p \in DOMAIN pool', pool'[p].key = k PROVE p \in DOMAIN pool
      <4>1. SUFFICES ASSUME p \notin DOMAIN pool PROVE FALSE OBVIOUS
      <4>2. PICK j \in 1..n : p = Len(pool) + j BY <1>1, <4>1, GrownFrom
      <4>3. pool'[p] = t[j] BY <1>1, <4>2, GrownFrom
      <4> QED BY <2>3, <3>1, <4>3
    <3> QED BY <2>1, <2>3, <3>1 DEF Twice
  <2> QED BY <2>2, <2>3
<1>2. ASSUME NEW gone, Leaves(gone)
      PROVE  /\ k # gone /\ Present(pool, k) => Present(pool', k)
             /\ Twice(pool, k) => Twice(pool', k)
  <2>1. PICK from \in [DOMAIN pool' -> DOMAIN pool] :
            /\ \A p \in DOMAIN pool' : pool'[p].key = pool[from[p]].key
            /\ \A p, q \in DOMAIN pool' : p # q => from[p] # from[q]
            /\ \A l \in DOMAIN pool : pool[l].key # gone => \E p \in DOMAIN pool' : from[p] = l
    BY <1>2, LeavesFrom
  <2>2. gone # ReportKey => \A p \in DOMAIN pool' : pool'[p].key # gone BY <1>2, LeavesFrom
  <2>3. ASSUME k # gone, Present(pool, k) PROVE Present(pool', k)
    <3>1. PICK l \in DOMAIN pool : pool[l].key = k BY <2>3 DEF Present
    <3>2. PICK p \in DOMAIN pool' : from[p] = l BY <2>1, <2>3, <3>1
    <3> QED BY <2>1, <3>1, <3>2 DEF Present
  <2>4. ASSUME Twice(pool, k) PROVE Twice(pool', k)
    <3> SUFFICES ASSUME NEW p \in DOMAIN pool', pool'[p].key = k
                 PROVE  \E q \in DOMAIN pool' : q # p /\ pool'[q].key = k
      BY DEF Twice
    <3>1. gone # k BY <2>2
    <3>2. from[p] \in DOMAIN pool /\ pool[from[p]].key = k BY <2>1
    <3>3. PICK l \in DOMAIN pool : l # from[p] /\ pool[l].key = k BY <2>4, <3>2 DEF Twice
    <3>4. PICK q \in DOMAIN pool' : from[q] = l BY <2>1, <3>1, <3>3
    <3>5. pool'[q].key = k BY <2>1, <3>3, <3>4
    <3> QED BY <3>3, <3>4, <3>5
  <2> QED BY <2>3, <2>4
<1>3. ASSUME Stays
      PROVE  /\ Present(pool, k) => Present(pool', k)
             /\ Twice(pool, k) => Twice(pool', k)
  BY <1>3, StaysFrom DEF Present, Twice
<1> QED BY <1>1, <1>2, <1>3, Zenon

LEMMA FirstNext == SeqInv /\ SeqInv' /\ CallInv /\ FirstInv /\ [Next]_vars => FirstInv'
<1> SUFFICES ASSUME SeqInv, SeqInv', CallInv, FirstInv, [Next]_vars
             PROVE  FirstAt(pool', emitted', clock')
  <2>1. (FirstInv <=> FirstAt(pool, emitted, clock))' BY FirstInvIs, PTL
  <2> QED BY <2>1, Zenon DEF FirstAt
<1> DEFINE K(i) == FirstOf(emitted[i])
<1>1. IsSeq(pool) /\ clock \in 0..MaxClock /\ clock' \in 0..MaxClock BY DEF SeqInv
<1>2. /\ \A i, j \in DOMAIN emitted : i # j /\ K(i) = K(j) => Twice(pool, K(i))
      /\ \A i \in DOMAIN emitted : Late(K(i), clock) => Present(pool, K(i))
  BY FirstInvIs, Zenon DEF FirstAt
<1>3. ASSUME NEW i \in DOMAIN emitted
      PROVE  \E now, cut : Frames(emitted[i], now, cut)
  BY <1>1, CallsFrame
<1>4. \A i \in DOMAIN emitted : /\ K(i) # ReportKey
                                /\ \A r : r.key = K(i) => Own(r)
  BY <1>1, <1>3, FirstKey, Zenon
<1>5. ASSUME NEW i \in DOMAIN emitted, clock <= clock', Late(K(i), clock') PROVE Late(K(i), clock)
  <2>1. PICK now, cut : Frames(emitted[i], now, cut) BY <1>3
  <2> DEFINE u == now \div TimestampUnit
             a == clock \div TimestampUnit
             b == clock' \div TimestampUnit
  <2>2. /\ u \in 0..Largest /\ (Late(K(i), clock) <=> ~(u < a)) /\ (Late(K(i), clock') <=> ~(u < b))
    BY <1>1, <2>1, FirstKey, Zenon
  <2>3. a \in Nat /\ b \in Nat /\ a <= b
    <3>1. clock \in Nat /\ clock' \in Nat BY <1>1, EmissionsAssumption
    <3>2. TimestampUnit \in Nat \ {0} BY LimitsAssumption
    <3> QED BY <1>5, <3>1, <3>2, Units
  <2> HIDE DEF u, a, b
  <2> QED BY <1>5, <2>2, <2>3
<1>6. ASSUME CallsKept,
             \A i \in DOMAIN emitted :
                /\ Twice(pool, K(i)) => Twice(pool', K(i))
                /\ Late(K(i), clock) /\ Present(pool, K(i)) => Present(pool', K(i))
      PROVE  FirstAt(pool', emitted', clock')
  <2>1. emitted' = emitted /\ clock <= clock' BY <1>6 DEF CallsKept
  <2>2. \A i, j \in DOMAIN emitted : i # j /\ K(i) = K(j) => Twice(pool', K(i)) BY <1>2, <1>6
  <2>3. \A i \in DOMAIN emitted : Late(K(i), clock') => Present(pool', K(i))
    BY <1>2, <1>5, <1>6, <2>1, Zenon
  <2> QED BY <2>1, <2>2, <2>3, Zenon DEF FirstAt
<1>7. ASSUME NEW t, NEW n \in Nat, Grows(t, n), \A j \in 1..n : ~Own(t[j]), CallsKept
      PROVE  FirstAt(pool', emitted', clock')
  <2>1. ASSUME NEW i \in DOMAIN emitted
        PROVE  /\ Twice(pool, K(i)) => Twice(pool', K(i))
               /\ Present(pool, K(i)) => Present(pool', K(i))
    <3>1. K(i) # ReportKey /\ \A j \in 1..n : t[j].key # K(i) BY <1>4, <1>7, Zenon
    <3> QED BY <1>1, <1>7, <3>1, KeyStays, Zenon
  <2> QED BY <1>6, <1>7, <2>1
<1>8. ASSUME NEW d, NEW n, Emitting(d, n) PROVE FirstAt(pool', emitted', clock')
  <2> DEFINE l == Len(emitted) + 1
             e == emitted'[l]
             kn == FirstOf(e)
  <2>1. /\ \A i \in DOMAIN emitted : i \in DOMAIN emitted' /\ emitted'[i] = emitted[i]
        /\ \A i \in DOMAIN emitted' : i \in DOMAIN emitted \/ i = l
        /\ n \in 1..Len(e.records) /\ n \in Nat /\ Grows(e.records, n) /\ clock' = clock
        /\ \E cut : Frames(e, clock, cut)
    BY <1>8, EmittingFrom, Zenon
  <2>2. PICK cut : Frames(e, clock, cut) BY <2>1
  <2>3. /\ kn # ReportKey /\ Late(kn, clock)
        /\ \A j \in DOMAIN e.records : e.records[j].key = kn => j = 1
    <3> DEFINE a == clock \div TimestampUnit
    <3>1. /\ kn # ReportKey /\ a \in 0..Largest /\ (Late(kn, clock) <=> ~(a < a))
          /\ \A j \in DOMAIN e.records : e.records[j].key = kn => j = 1
      BY <1>1, <2>2, FirstKey, Zenon
    <3> HIDE DEF a
    <3>2. ~(a < a) BY <3>1
    <3> QED BY <3>1, <3>2
  <2>4. /\ \A j \in 1..n : j \in DOMAIN e.records
        /\ 1 \in 1..n
    <3> DEFINE c == Len(e.records)
    <3>1. DOMAIN e.records = 1..c /\ c \in 1..Largest /\ n \in 1..c BY <2>1, <2>2, Zenon DEF Frames
    <3> HIDE DEF c
    <3> QED BY <3>1
  <2>5. ASSUME NEW i \in DOMAIN emitted, K(i) # kn, NEW j \in DOMAIN e.records
        PROVE  e.records[j].key # K(i)
    <3> SUFFICES ASSUME e.records[j].key = K(i) PROVE FALSE OBVIOUS
    <3>1. PICK now, cut1 : Frames(emitted[i], now, cut1) BY <1>3
    <3>2. IsChunk(e.records[j], Base(emitted[i].d, now), 0) BY <1>1, <3>1, FirstKey, Zenon
    <3>3. IsChunk(e.records[j], Base(e.d, clock), j - 1) /\ j \in 1..Largest
      BY <1>1, <2>2, FramePlace, Zenon
    <3>4. format(0) = format(j - 1) BY <3>2, <3>3, Zenon DEF IsChunk
    <3>5. 0 \in 0..Largest /\ j - 1 \in 0..Largest BY <3>3, LargestFacts
    <3>6. j - 1 = 0 BY <3>4, <3>5, Numerals
    <3>7. j = 1 BY <3>3, <3>6
    <3> QED BY <2>5, <3>7 DEF FirstOf
  <2>6. Len(pool) + 1 \in DOMAIN pool' /\ Len(pool) + 1 \notin DOMAIN pool
        /\ pool'[Len(pool) + 1] = e.records[1]
    <3> DEFINE t == e.records
    <3>1. Grows(t, n) /\ n \in Nat /\ 1 \in 1..n BY <2>1, <2>4
    <3> HIDE DEF t
    <3>2. \A k \in 1..n : Len(pool) + k \in DOMAIN pool' /\ Len(pool) + k \notin DOMAIN pool
                          /\ pool'[Len(pool) + k] = t[k]
      BY <1>1, <3>1, GrownFrom
    <3> QED BY <3>1, <3>2 DEF t
  <2> DEFINE new == Len(pool) + 1
  <2>7. new \in DOMAIN pool' /\ new \notin DOMAIN pool /\ pool'[new].key = kn
    BY <2>6 DEF FirstOf
  <2>8. DOMAIN pool \subseteq DOMAIN pool' /\ \A p \in DOMAIN pool : pool'[p] = pool[p]
    BY <1>1, <2>1, GrownFrom
  <2> HIDE DEF new, l, e, kn
  <2>9. Present(pool', kn) BY <2>7 DEF Present
  <2>10. ASSUME NEW i \in DOMAIN emitted, K(i) = kn PROVE Twice(pool', kn)
    <3>1. Present(pool, kn) BY <1>2, <2>3, <2>10
    <3>2. PICK q \in DOMAIN pool : pool[q].key = kn BY <3>1 DEF Present
    <3>3. q \in DOMAIN pool' /\ pool'[q].key = kn /\ q # new BY <2>7, <2>8, <3>2
    <3> QED BY <2>7, <3>3 DEF Twice
  <2>11. ASSUME NEW i \in DOMAIN emitted, K(i) # kn
         PROVE  Twice(pool, K(i)) => Twice(pool', K(i))
    <3>1. \A j \in 1..n : e.records[j].key # K(i) BY <2>4, <2>5, <2>11
    <3> QED BY <1>1, <1>4, <2>1, <3>1, KeyStays, Zenon DEF e, l
  <2>12. ASSUME NEW i \in DOMAIN emitted PROVE Present(pool, K(i)) => Present(pool', K(i))
    BY <1>1, <1>4, <2>1, KeyStays, Zenon DEF e, l
  <2>13. ASSUME NEW i \in DOMAIN emitted', NEW j \in DOMAIN emitted', i # j,
                FirstOf(emitted'[i]) = FirstOf(emitted'[j])
         PROVE  Twice(pool', FirstOf(emitted'[i]))
    <3>1. CASE i \in DOMAIN emitted /\ j \in DOMAIN emitted
      <4>1. FirstOf(emitted'[i]) = K(i) /\ K(i) = K(j) BY <2>1, <2>13, <3>1
      <4>2. CASE K(i) = kn BY <2>10, <3>1, <4>1, <4>2
      <4>3. CASE K(i) # kn
        <5>1. Twice(pool, K(i)) BY <1>2, <2>13, <3>1, <4>1
        <5> QED BY <2>11, <3>1, <4>1, <4>3, <5>1
      <4> QED BY <4>2, <4>3
    <3>2. CASE i \in DOMAIN emitted /\ j = l
      <4>1. K(i) = kn /\ FirstOf(emitted'[i]) = kn BY <2>1, <2>13, <3>2 DEF kn, e
      <4> QED BY <2>10, <3>2, <4>1
    <3>3. CASE i = l /\ j \in DOMAIN emitted
      <4>1. K(j) = kn /\ FirstOf(emitted'[i]) = kn BY <2>1, <2>13, <3>3 DEF kn, e
      <4> QED BY <2>10, <3>3, <4>1
    <3> QED BY <2>1, <2>13, <3>1, <3>2, <3>3
  <2>14. ASSUME NEW i \in DOMAIN emitted', Late(FirstOf(emitted'[i]), clock')
         PROVE  Present(pool', FirstOf(emitted'[i]))
    <3>1. CASE i \in DOMAIN emitted
      <4>1. FirstOf(emitted'[i]) = K(i) BY <2>1, <3>1
      <4>2. Present(pool, K(i)) BY <1>2, <2>1, <2>14, <3>1, <4>1
      <4> QED BY <2>12, <3>1, <4>1, <4>2
    <3>2. CASE i = l BY <2>9, <3>2 DEF kn, e
    <3> QED BY <2>1, <3>1, <3>2
  <2> QED BY <2>13, <2>14 DEF FirstAt
<1>9. ASSUME NEW m, Sending(m) PROVE FirstAt(pool', emitted', clock')
  <2> DEFINE k == sent[m] + 1
  <2>1. m \in Messages /\ sent[m] < Len(m) /\ Grows(<<m[k]>>, 1) BY <1>9, Zenon DEF Sending
  <2>2. sent[m] \in Nat BY <2>1 DEF SeqInv
  <2>3. Len(m) \in Nat \ {0} /\ DOMAIN m = 1..Len(m) BY <2>1, MessageRecords
  <2>4. k \in DOMAIN m BY <2>1, <2>2, <2>3
  <2>5. ~Own(m[k]) BY <2>1, <2>4, MessageRecords
  <2>6. \A j \in 1..1 : j = 1 OBVIOUS
  <2> HIDE DEF k
  <2>7. \A j \in 1..1 : ~Own(<<m[k]>>[j]) BY <2>5, <2>6
  <2>8. CallsKept
    <3>1. clock \in Nat BY <1>1, EmissionsAssumption
    <3> QED BY <1>9, <3>1 DEF Sending, CallsKept
  <2> QED BY <1>7, <2>1, <2>7, <2>8
<1>10. ASSUME NEW r, Foreign(r) PROVE FirstAt(pool', emitted', clock')
  <2>1. Grows(<<r>>, 1) BY <1>10, Zenon DEF Foreign
  <2>2. ~Own(r) BY <1>10, ForeignPlace
  <2>3. \A j \in 1..1 : j = 1 OBVIOUS
  <2>4. \A j \in 1..1 : ~Own(<<r>>[j]) BY <2>2, <2>3
  <2>5. CallsKept
    <3>1. clock \in Nat BY <1>1, EmissionsAssumption
    <3> QED BY <1>10, <3>1 DEF Foreign, CallsKept
  <2> QED BY <1>7, <2>1, <2>4, <2>5
<1>11. ASSUME NEW gone, Removing(gone) PROVE FirstAt(pool', emitted', clock')
  <2>1. Settled(gone) /\ Leaves(gone) BY <1>11 DEF Removing
  <2>2. CallsKept
    <3>1. clock \in Nat BY <1>1, EmissionsAssumption
    <3> QED BY <1>11, <3>1 DEF Removing, CallsKept
  <2>3. \A k : Late(k, clock) => k # gone BY <2>1, Zenon DEF Late, Settled
  <2>4. \A i \in DOMAIN emitted :
                /\ Twice(pool, K(i)) => Twice(pool', K(i))
                /\ Late(K(i), clock) /\ Present(pool, K(i)) => Present(pool', K(i))
    BY <1>1, <1>4, <2>1, <2>3, KeyStays, Zenon
  <2> QED BY <1>6, <2>2, <2>4
<1>12. ASSUME Overwriting \/ Ticking PROVE FirstAt(pool', emitted', clock')
  <2>1. Stays BY <1>12 DEF Overwriting, Ticking
  <2>2. CallsKept
    <3>1. clock \in Nat BY <1>1, EmissionsAssumption
    <3> QED BY <1>12, <3>1 DEF Overwriting, Ticking, CallsKept
  <2>3. \A i \in DOMAIN emitted :
                /\ Twice(pool, K(i)) => Twice(pool', K(i))
                /\ Late(K(i), clock) /\ Present(pool, K(i)) => Present(pool', K(i))
    BY <1>1, <1>4, <2>1, KeyStays, Zenon
  <2> QED BY <1>6, <2>2, <2>3
<1> QED BY <1>8, <1>9, <1>10, <1>11, <1>12, StepShapes, Zenon

LEMMA FirstInit == Init => FirstInv
BY DEF Init, FirstInv

(* The first records of the calls under one base key are never left alone. *)
THEOREM FirstsTogether == Spec => []FirstInv
BY FirstInit, FirstNext, PoolIsRead, CallsAreFrames, PTL DEF Spec

-----------------------------------------------------------------------------
(* Diagnostics that are read. *)

(* A diagnostic of the answer is what a group stands for, at its first     *)
(* record, or it is one of cloud-init's.                                   *)
LEMMA DiagnosticFrom ==
    ASSUME SeqInv, NEW at, Stands(entries, pool, at), NEW n \in DOMAIN entries,
           entries[n].is = "diagnostic", entries[n].of.agent # "CLOUD_INIT"
    PROVE  LET base == Place(pool[at[n]]).base IN
           /\ at[n] \in Members(pool, base) /\ Read(pool, base).ok
           /\ entries[n].of = Read(pool, base).of
           /\ \A j \in Members(pool, base) : at[n] <= j
<1> DEFINE i == at[n]
           base == Place(pool[i]).base
<1>1. IsSeq(pool) /\ \A p \in DOMAIN pool : IsSeq(pool[p].key) BY DEF SeqInv
<1>2. i \in DOMAIN pool /\ EntryAt(pool, i) = <<entries[n]>>
  <2>1. IsSeq(entries) BY DEF Stands
  <2>2. DOMAIN entries = 1..Len(entries) BY <2>1, SeqFacts
  <2> QED BY <2>2 DEF Stands
<1>3. \A d : DiagnosticEntry(d).of = d BY DEF DiagnosticEntry, Entry
<1>4. \A a, b : <<a>> = <<b>> => a = b OBVIOUS
<1>5. \A a : <<a>> # <<>> OBVIOUS
<1>6. ASSUME \E e : EntryAt(pool, i) = <<e>> /\ e.record = i /\ e.is # "diagnostic" PROVE FALSE
  BY <1>2, <1>4, <1>6, Zenon
<1>7. ASSUME NEW d, EntryAt(pool, i) = <<DiagnosticEntry(d)>>, Covers(base, d),
             Place(pool[i]).as = "cloud-init"
      PROVE  FALSE
  <2>1. base[1] = "CLOUD_INIT" BY <1>1, <1>2, <1>7, PlaceFacts
  <2>2. entries[n].of = d BY <1>2, <1>3, <1>4, <1>7, Zenon
  <2>3. base[1] # "DIAG" BY <2>1
  <2>4. d.agent = "CLOUD_INIT" BY <1>7, <2>1, <2>3, Zenon DEF Covers
  <2> QED BY <2>2, <2>4
<1>8. /\ Place(pool[i]).as = "chunk" /\ Read(pool, base).ok
      /\ EntryAt(pool, i) = <<>> \/ EntryAt(pool, i) = <<DiagnosticEntry(Read(pool, base).of)>>
  <2>1. \/ \E e : EntryAt(pool, i) = <<e>> /\ e.record = i /\ e.is # "diagnostic"
        \/ /\ Place(pool[i]).as = "cloud-init"
           /\ \E d : EntryAt(pool, i) = <<DiagnosticEntry(d)>> /\ Covers(base, d)
        \/ /\ Place(pool[i]).as = "chunk" /\ Read(pool, base).ok
           /\ EntryAt(pool, i) \in {<<>>, <<DiagnosticEntry(Read(pool, base).of)>>}
    <3>1. IsSeq(pool[i].key) BY <1>1, <1>2
    <3> QED BY <1>2, <3>1, EntryRecord, Zenon
  <2>2. EntryAt(pool, i) \in {<<>>, <<DiagnosticEntry(Read(pool, base).of)>>} =>
           EntryAt(pool, i) = <<>> \/ EntryAt(pool, i) = <<DiagnosticEntry(Read(pool, base).of)>>
    OBVIOUS
  <2> QED BY <1>6, <1>7, <2>1, <2>2, Zenon
<1>9. i \in Members(pool, base) /\ \A j \in Members(pool, base) : i <= j
  BY <1>2, <1>5, <1>8, GroupEntry, Zenon
<1>10. entries[n].of = Read(pool, base).of
  <2>1. EntryAt(pool, i) = <<DiagnosticEntry(Read(pool, base).of)>>
    <3>1. EntryAt(pool, i) # <<>> BY <1>2
    <3> QED BY <1>8, <3>1, Zenon
  <2> QED BY <1>2, <1>3, <1>4, <2>1, Zenon
<1> QED BY <1>8, <1>9, <1>10

(* The text of a group without an error, by the indices of its chunks. *)
LEMMA JoinedIs ==
    ASSUME NEW chunks, IsFiniteSet(chunks), ChunkError(chunks) = "none", NEW texts,
           \A c \in chunks : \A i \in Nat : c.index = i - 1 => c.value.text = texts[i]
    PROVE  Joined(chunks) = FlattenSeq([i \in 1..Cardinality(chunks) |-> texts[i]])
<1> DEFINE k == Cardinality(chunks)
           chosen(i) == CHOOSE c \in chunks : c.index = i - 1
<1>1. k \in Nat /\ {c.index : c \in chunks} = 0..(k - 1) BY IndexOnce
<1>2. ASSUME NEW i \in 1..k PROVE chosen(i).value.text = texts[i]
  <2>1. i - 1 \in 0..(k - 1) /\ i \in Nat BY <1>1
  <2>2. \E c \in chunks : c.index = i - 1 BY <1>1, <2>1
  <2>3. chosen(i) \in chunks /\ chosen(i).index = i - 1 BY <2>2
  <2> QED BY <2>1, <2>3
<1>3. [i \in 1..k |-> chosen(i).value.text] = [i \in 1..k |-> texts[i]] BY <1>2
<1> QED BY <1>3 DEF Joined

(* Records of one call that make a group without an error are its first     *)
(* ones, and their text is the beginning of the call's.                    *)
LEMMA CallGroup ==
    ASSUME SeqInv, NEW e, NEW now, NEW cut, Frames(e, now, cut),
           NEW members \in SUBSET DOMAIN pool, members # {},
           \A p \in members : \E j \in DOMAIN e.records : pool[p] = e.records[j],
           ChunkError(Chunks(pool, members)) = "none"
    PROVE  \E k \in 1..Len(e.records) :
              /\ k = Cardinality(members) /\ cut[k] \in 0..Len(Text(e.d))
              /\ Joined(Chunks(pool, members)) = SubSeq(Text(e.d), 1, cut[k])
<1> DEFINE chunks == Chunks(pool, members)
           k == Cardinality(members)
           b == Base(e.d, now)
           framed == prepare_records(e.d, now)
           l == Len(e.records)
           texts == [i \in 1..l |-> e.records[i].value.text]
<1>1. IsSeq(pool) /\ clock \in 0..MaxClock BY DEF SeqInv
<1>2. /\ IsFiniteSet(members) /\ IsFiniteSet(chunks) /\ Cardinality(chunks) = k /\ k \in Nat
  BY <1>1, ChunksOf
<1>3. /\ e.d \in Emissions /\ Framing(framed, b, Text(e.d), cut) /\ e.records = framed.records
      /\ l \in 1..Largest /\ DOMAIN e.records = 1..l
      /\ \A j \in 1..l : IsChunk(e.records[j], b, j - 1)
  BY Zenon DEF Frames
<1>4. /\ \A c, d \in chunks : c.index = d.index => c = d
      /\ {c.index : c \in chunks} = 0..(k - 1)
  BY <1>2, IndexOnce
<1>5. ASSUME NEW c \in chunks
      PROVE  \E j \in 1..l : c.index = j - 1 /\ c.value = e.records[j].value
  <2>1. PICK p \in members : c = [position |-> p, index |-> Unsigned(Last(pool[p].key)), value |-> pool[p].value]
    BY DEF Chunks
  <2>2. PICK j \in 1..l : pool[p] = e.records[j] BY <1>3
  <2>3. Last(e.records[j].key) = format(j - 1) BY <1>3, Zenon DEF IsChunk
  <2>4. j - 1 \in 0..Largest
    <3>1. l \in 1..Largest /\ j \in 1..l BY <1>3
    <3> HIDE DEF l
    <3> QED BY <3>1, LargestFacts
  <2>5. Unsigned(format(j - 1)) = j - 1 BY <2>4, Numerals
  <2>6. c.index = Unsigned(Last(pool[p].key)) /\ c.value = pool[p].value BY <2>1
  <2> QED BY <2>2, <2>3, <2>5, <2>6
<1> HIDE DEF chunks, k, b, l, framed
<1>6. k > 0
  <2>1. PICK p \in members : TRUE OBVIOUS
  <2>2. k # 0 BY <1>2, <2>1, FS_EmptySet DEF k
  <2> QED BY <1>2, <2>2
<1>7. k \in 1..l
  <2>1. k - 1 \in 0..(k - 1) BY <1>2, <1>6
  <2>2. PICK c \in chunks : c.index = k - 1 BY <1>4, <2>1
  <2>3. PICK j \in 1..l : k - 1 = j - 1 BY <1>5, <2>2
  <2>4. j \in Nat BY <1>3
  <2>5. k = j BY <1>2, <2>3, <2>4
  <2> QED BY <2>5
<1>8. \A c \in chunks : \A i \in Nat : c.index = i - 1 => c.value.text = texts[i]
  <2> SUFFICES ASSUME NEW c \in chunks, NEW i \in Nat, c.index = i - 1 PROVE c.value.text = texts[i]
    OBVIOUS
  <2>1. PICK j \in 1..l : c.index = j - 1 /\ c.value = e.records[j].value BY <1>5
  <2>2. j \in Nat /\ i - 1 = j - 1 BY <1>3, <2>1
  <2>3. i = j BY <2>2
  <2> QED BY <2>1, <2>3
<1>9. ChunkError(chunks) = "none" BY DEF chunks
<1>10. Joined(chunks) = FlattenSeq([i \in 1..k |-> texts[i]])
  <2> HIDE DEF texts
  <2>1. Joined(chunks) = FlattenSeq([i \in 1..Cardinality(chunks) |-> texts[i]])
    BY <1>2, <1>8, <1>9, JoinedIs
  <2> QED BY <1>2, <2>1
<1>11. [i \in 1..k |-> texts[i]] = [i \in 1..k |-> framed.records[i].value.text]
  <2>1. \A i \in 1..k : i \in 1..l BY <1>3, <1>7
  <2> QED BY <1>3, <2>1
<1>12. k \in 1..Len(framed.records) BY <1>3, <1>7 DEF l
<1>13. IsText(Text(e.d)) BY <1>3, CallText
<1>14. FlattenSeq([i \in 1..k |-> framed.records[i].value.text]) = SubSeq(Text(e.d), 1, cut[k])
  <2>1. JoinAt(framed, Text(e.d), cut, k) BY <1>3, <1>12, <1>13, ChunksJoin
  <2> QED BY <2>1 DEF JoinAt
<1>15. cut[k] \in 0..Len(Text(e.d))
  <2>1. k \in 0..Len(framed.records) BY <1>12
  <2> QED BY <1>3, <2>1 DEF Framing
<1>16. Joined(chunks) = SubSeq(Text(e.d), 1, cut[k]) BY <1>10, <1>11, <1>14
<1> HIDE DEF texts
<1> QED BY <1>7, <1>15, <1>16, Zenon DEF chunks, k, l

(* What the beginning of a call's text is decoded to. *)
LEMMA DecodedText ==
    ASSUME NEW d \in Emissions, Valid(d), NEW x \in 0..Len(Text(d)),
           decode_payload(SubSeq(Text(d), 1, x), d.encoding).ok
    PROVE  decode_payload(SubSeq(Text(d), 1, x), d.encoding).payload =
              IF d.encoding = "none" THEN Payload("text", SubSeq(d.payload, 1, x))
              ELSE Payload("bytes", d.payload)
<1> DEFINE t == Text(d)
           s == SubSeq(t, 1, x)
<1>1. d.encoding \in {"none", "gz+b64", "zlib+b64"} BY Zenon DEF Valid, Encodable, Encodings
<1>2. IsText(t) /\ IsSeq(t) /\ Len(t) \in Nat BY CallText, TextIs, SeqFacts
<1>3. CASE d.encoding = "none"
  <2>1. t = d.payload BY <1>3, CallText
  <2>2. decode_payload(s, d.encoding) = [ok |-> TRUE, payload |-> Payload("text", s)]
    BY <1>3, Zenon DEF decode_payload
  <2> HIDE DEF t
  <2>3. decode_payload(s, d.encoding).payload = Payload("text", s) BY <2>2
  <2> QED BY <1>3, <2>1, <2>3 DEF t
<1>4. CASE d.encoding # "none"
  <2>1. \A n \in 1..Len(t) : t[n].of = d.payload BY <1>4, CallText
  <2>2. d.encoding \in {"gz+b64", "zlib+b64"} BY <1>1, <1>4
  <2>3. /\ Decompresses(s, d.encoding)
        /\ decode_payload(s, d.encoding) = [ok |-> TRUE, payload |-> Payload("bytes", Head(s).of)]
    <3>1. CASE Decompresses(s, d.encoding)
      <4>1. decode_payload(s, d.encoding) = [ok |-> TRUE, payload |-> Payload("bytes", Head(s).of)]
        BY <1>4, <2>2, <3>1, Zenon DEF decode_payload
      <4> QED BY <3>1, <4>1
    <3>2. CASE ~Decompresses(s, d.encoding)
      <4>1. decode_payload(s, d.encoding) = [ok |-> FALSE, payload |-> Payload(Blank, <<>>)]
        BY <1>4, <2>2, <3>2, Zenon DEF decode_payload
      <4>2. ~decode_payload(s, d.encoding).ok BY <4>1
      <4> QED BY <4>2
    <3> QED BY <3>1, <3>2
  <2>4. s # <<>> BY <2>3 DEF Decompresses
  <2> HIDE DEF t
  <2>5. PICK S : t \in Seq(S) BY <1>2 DEF IsSeq
  <2>6. x \in 0..Len(t) BY DEF t
  <2>7. x # 0 BY <1>2, <2>4, <2>5, <2>6
  <2>8. Head(s) = t[1] /\ 1 \in 1..Len(t) BY <1>2, <2>5, <2>6, <2>7
  <2>9. Head(s).of = d.payload BY <2>1, <2>8
  <2>10. decode_payload(s, d.encoding).payload = Payload("bytes", d.payload)
    <3> HIDE DEF s
    <3> QED BY <2>3, <2>9
  <2> QED BY <1>4, <2>10 DEF t
<1> QED BY <1>3, <1>4

-----------------------------------------------------------------------------
(* OnlyEmitted. *)

(* Record p of the pool is one of call i, which wrote under base at a time. *)
LEMMA OwnRecord ==
    ASSUME SeqInv, CallInv, OwnInv, NEW base, base[1] = "DIAG", base[2] = Agent,
           NEW p \in Members(pool, base)
    PROVE  \E i \in DOMAIN emitted : \E j \in DOMAIN emitted[i].records : \E now, cut :
              /\ pool[p] = emitted[i].records[j] /\ Frames(emitted[i], now, cut)
              /\ base = Base(emitted[i].d, now) /\ IsChunk(pool[p], base, j - 1) /\ j \in 1..Largest
              /\ FirstOf(emitted[i]) = Append(base, format(0))
<1>1. p \in DOMAIN pool /\ Place(pool[p]).as = "chunk" /\ Place(pool[p]).base = base BY DEF Members
<1>2. Own(pool[p]) BY <1>1 DEF Own
<1>3. PICK i \in DOMAIN emitted : \E j \in DOMAIN emitted[i].records : pool[p] = emitted[i].records[j]
  BY <1>1, <1>2 DEF OwnInv
<1>4. PICK j \in DOMAIN emitted[i].records : pool[p] = emitted[i].records[j] BY <1>3
<1>5. clock \in 0..MaxClock BY DEF SeqInv
<1>6. PICK now, cut : Frames(emitted[i], now, cut) BY <1>5, CallsFrame
<1>7. IsChunk(pool[p], Base(emitted[i].d, now), j - 1) /\ j \in 1..Largest
  BY <1>4, <1>5, <1>6, FramePlace
<1>8. base = Base(emitted[i].d, now) BY <1>1, <1>7, Zenon DEF IsChunk
<1>9. FirstOf(emitted[i]) = Append(Base(emitted[i].d, now), format(0)) BY <1>5, <1>6, FirstKey
<1> QED BY <1>4, <1>6, <1>7, <1>8, <1>9, Zenon

(* A group of the writer's that is read comes from one call. *)
LEMMA OwnGroup ==
    ASSUME SeqInv, CallInv, OwnInv, FirstInv, NEW base, base[1] = "DIAG", base[2] = Agent,
           Members(pool, base) # {}, Read(pool, base).ok
    PROVE  \E i \in DOMAIN emitted : \E now, cut :
              /\ Frames(emitted[i], now, cut) /\ base = Base(emitted[i].d, now)
              /\ \A p \in Members(pool, base) : \E j \in DOMAIN emitted[i].records :
                    pool[p] = emitted[i].records[j]
<1> DEFINE M == Members(pool, base)
           chunks == Chunks(pool, M)
           K == Append(base, format(0))
<1>1. IsSeq(pool) /\ clock \in 0..MaxClock BY DEF SeqInv
<1>2. M \in SUBSET DOMAIN pool BY DEF Members
<1>3. ChunkError(chunks) = "none" BY ReadCovers
<1>4. IsFiniteSet(chunks) /\ IsFiniteSet(M) /\ Cardinality(chunks) = Cardinality(M) BY <1>1, <1>2, ChunksOf
<1>5. Cardinality(chunks) \in Nat /\ {c.index : c \in chunks} = 0..(Cardinality(chunks) - 1)
  BY <1>3, <1>4, IndexOnce
<1>6. Cardinality(chunks) # 0
  <2>1. M # {} OBVIOUS
  <2>2. Cardinality(M) # 0 BY <1>4, <2>1, FS_EmptySet
  <2> QED BY <1>4, <2>2
<1>7. ASSUME NEW p \in M, NEW j \in 1..Largest, IsChunk(pool[p], base, j - 1)
      PROVE  Unsigned(Last(pool[p].key)) = j - 1
  <2>1. Last(pool[p].key) = format(j - 1) BY <1>7, Zenon DEF IsChunk
  <2>2. j - 1 \in 0..Largest BY LargestFacts
  <2> QED BY <2>1, <2>2, Numerals
<1>8. PICK p0 \in M : Unsigned(Last(pool[p0].key)) = 0
  <2> DEFINE k == Cardinality(chunks)
  <2>1. k \in Nat /\ k # 0 /\ {c.index : c \in chunks} = 0..(k - 1) BY <1>5, <1>6
  <2> HIDE DEF k
  <2>2. 0 \in 0..(k - 1) BY <2>1
  <2>3. PICK c \in chunks : c.index = 0 BY <2>1, <2>2
  <2>4. PICK p \in M : c = [position |-> p, index |-> Unsigned(Last(pool[p].key)), value |-> pool[p].value]
    BY DEF Chunks
  <2>5. c.index = Unsigned(Last(pool[p].key)) BY <2>4
  <2> QED BY <2>3, <2>5
<1>9. PICK i \in DOMAIN emitted : \E j \in DOMAIN emitted[i].records : \E now, cut :
          /\ pool[p0] = emitted[i].records[j] /\ Frames(emitted[i], now, cut)
          /\ base = Base(emitted[i].d, now) /\ IsChunk(pool[p0], base, j - 1) /\ j \in 1..Largest
          /\ FirstOf(emitted[i]) = K
  BY OwnRecord, Zenon
<1>10. PICK j, now, cut :
          /\ pool[p0] = emitted[i].records[j] /\ Frames(emitted[i], now, cut)
          /\ base = Base(emitted[i].d, now) /\ IsChunk(pool[p0], base, j - 1) /\ j \in 1..Largest
          /\ FirstOf(emitted[i]) = K
  BY <1>9
<1>11. pool[p0].key = K
  <2>1. j - 1 = 0 BY <1>7, <1>8, <1>10
  <2> QED BY <1>10, <2>1, Zenon DEF IsChunk
<1> HIDE DEF M, chunks, K
<1>12. ASSUME NEW p \in M PROVE \E j1 \in DOMAIN emitted[i].records : pool[p] = emitted[i].records[j1]
  <2>1. PICK i1 \in DOMAIN emitted : \E j1 \in DOMAIN emitted[i1].records : \E now1, cut1 :
          /\ pool[p] = emitted[i1].records[j1] /\ Frames(emitted[i1], now1, cut1)
          /\ base = Base(emitted[i1].d, now1) /\ IsChunk(pool[p], base, j1 - 1) /\ j1 \in 1..Largest
          /\ FirstOf(emitted[i1]) = K
    BY OwnRecord, Zenon DEF M, K
  <2>2. ASSUME i1 # i PROVE FALSE
    <3>1. FirstOf(emitted[i1]) = K /\ FirstOf(emitted[i]) = K BY <1>10, <2>1
    <3>2. Twice(pool, K) BY <2>2, <3>1, FirstInvIs, Zenon DEF FirstAt
    <3>3. p0 \in DOMAIN pool BY <1>2
    <3>4. PICK q \in DOMAIN pool : q # p0 /\ pool[q].key = K BY <1>11, <3>2, <3>3 DEF Twice
    <3>5. IsChunk(pool[q], base, 0)
      <4>1. FirstOf(emitted[i]) = K /\ Frames(emitted[i], now, cut) /\ base = Base(emitted[i].d, now)
        BY <1>10
      <4>2. \A r : r.key = K => IsChunk(r, base, 0) BY <1>1, <4>1, FirstKey, Zenon
      <4> QED BY <3>4, <4>2
    <3>6. q \in M BY <3>5, Zenon DEF IsChunk, M, Members
    <3>7. Unsigned(Last(pool[q].key)) = 0
      <4>1. Last(pool[q].key) = format(0) BY <3>5, Zenon DEF IsChunk
      <4>2. 0 \in 0..Largest BY LargestFacts
      <4> QED BY <4>1, <4>2, Numerals
    <3>8. q = p0
      <4>1. Unsigned(Last(pool[q].key)) = Unsigned(Last(pool[p0].key)) BY <1>8, <3>7
      <4> QED BY <1>1, <1>2, <1>3, <3>6, <4>1, MembersOnce DEF chunks
    <3> QED BY <3>4, <3>8
  <2> QED BY <2>1, <2>2
<1> QED BY <1>10, <1>12, Zenon DEF M

(* The reader's diagnostic of a group of the writer's is what a call meant. *)
LEMMA OwnRead ==
    ASSUME SeqInv, NEW e, NEW now, NEW cut, Frames(e, now, cut),
           LET M == Members(pool, Base(e.d, now)) IN
              /\ M # {} /\ \A p \in M : \E j \in DOMAIN e.records : pool[p] = e.records[j],
           Read(pool, Base(e.d, now)).ok
    PROVE  \E to \in 0..Len(e.d.payload) : Read(pool, Base(e.d, now)).of = Meant(e, to)
<1> DEFINE b == Base(e.d, now)
           M == Members(pool, b)
           chunks == Chunks(pool, M)
           t == Text(e.d)
           text == Joined(chunks)
           decoded == decode_payload(text, b[8])
<1>1. /\ e.d \in Emissions /\ Valid(e.d) /\ clock \in 0..MaxClock /\ now \in 0..MaxClock
      /\ 1 \in DOMAIN e.records
  <2>1. e.d \in Emissions /\ Valid(e.d) BY Zenon DEF Frames
  <2>2. clock \in 0..MaxClock BY DEF SeqInv
  <2>3. PICK p \in M : TRUE OBVIOUS
  <2>4. PICK j \in DOMAIN e.records : pool[p] = e.records[j] OBVIOUS
  <2> QED BY <2>1, <2>2, <2>4, FramePlace
<1>2. /\ b[1] = "DIAG" /\ b[2] = Agent /\ b[3] = VmId /\ b[4] = e.d.kind /\ b[5] = e.d.name
      /\ b[6] = e.d.id /\ b[8] = e.d.encoding
  BY <1>1, BaseFacts
<1>3. b = Front(e.records[1].key)
  <2>1. \E n : IsChunk(e.records[1], b, n) BY <1>1, FramePlace
  <2> QED BY <2>1, Zenon DEF IsChunk
<1>4. ChunkError(chunks) = "none" /\ M \in SUBSET DOMAIN pool BY <1>2, ReadCovers DEF Members
<1>5. \E k \in 1..Len(e.records) : cut[k] \in 0..Len(t) /\ text = SubSeq(t, 1, cut[k])
  BY <1>4, CallGroup
<1>6. PICK x \in 0..Len(t) : text = SubSeq(t, 1, x) BY <1>5
<1>7. decoded.ok /\ Read(pool, b).of = Diagnostic(b[4], b[2], b[3], b[5], b[6], b[7], b[8],
                                                  decoded.payload, b[9], b[10])
  <2>1. b[1] # "CLOUD_INIT" BY <1>2
  <2>2. Read(pool, b) = decode_diag_group(b, chunks) BY <2>1, Zenon DEF Read, decode_group
  <2>3. decode_diag_group(b, chunks).ok BY <2>2
  <2>4. \A d : Ok(d).of = d BY DEF Ok
  <2> HIDE DEF b, chunks
  <2> QED BY <2>2, <2>3, <2>4, DiagGroup, Zenon DEF b, chunks
<1>8. decoded.payload = IF e.d.encoding = "none" THEN Payload("text", SubSeq(e.d.payload, 1, x))
                        ELSE Payload("bytes", e.d.payload)
  <2>1. decoded = decode_payload(SubSeq(Text(e.d), 1, x), e.d.encoding) BY <1>2, <1>6
  <2>2. decode_payload(SubSeq(Text(e.d), 1, x), e.d.encoding).ok BY <1>7, <2>1
  <2>3. x \in 0..Len(Text(e.d)) BY <1>6
  <2>4. e.d \in Emissions /\ Valid(e.d) BY <1>1
  <2> HIDE DEF decoded, t, b
  <2>5. decode_payload(SubSeq(Text(e.d), 1, x), e.d.encoding).payload =
          IF e.d.encoding = "none" THEN Payload("text", SubSeq(e.d.payload, 1, x))
          ELSE Payload("bytes", e.d.payload)
    BY <2>2, <2>3, <2>4, DecodedText
  <2> QED BY <2>1, <2>5, Zenon
<1>9. ASSUME NEW to \in 0..Len(e.d.payload), e.d.encoding = "none" => to = x
      PROVE  Read(pool, b).of = Meant(e, to)
  <2>1. decoded.payload = IF e.d.encoding = "none" THEN Payload("text", SubSeq(e.d.payload, 1, to))
                          ELSE Payload("bytes", e.d.payload)
    BY <1>8, <1>9
  <2> HIDE DEF b, decoded
  <2> QED BY <1>2, <1>3, <1>7, <2>1 DEF Meant
<1>10. CASE e.d.encoding = "none"
  <2>1. x \in 0..Len(e.d.payload) BY <1>1, <1>6, <1>10, CallText
  <2> QED BY <1>9, <1>10, <2>1
<1>11. CASE e.d.encoding # "none"
  <2>1. 0 \in 0..Len(e.d.payload) BY <1>1, CallText, TextIs, SeqFacts
  <2> QED BY <1>9, <1>11, <2>1
<1> QED BY <1>10, <1>11

(* A native diagnostic of the answer is what a call meant. *)
LEMMA OnlyEmittedHere ==
    ASSUME SeqInv, CallInv, OwnInv, FirstInv
    PROVE  OnlyEmitted
<1> SUFFICES ASSUME NEW d \in Decoded, d.agent = Agent
             PROVE  \E i \in DOMAIN emitted : \E to \in 0..Len(emitted[i].d.payload) :
                        d = Meant(emitted[i], to)
  BY DEF OnlyEmitted
<1>1. PICK n \in DOMAIN entries : entries[n].is = "diagnostic" /\ entries[n].of = d BY DEF Decoded
<1>2. IsSeq(pool) /\ entries = decode_entries(pool) /\ \A p \in DOMAIN pool : IsSeq(pool[p].key)
  BY DEF SeqInv
<1>3. PICK at : Stands(entries, pool, at) BY <1>2, AnswerStands
<1>4. Agent # "CLOUD_INIT" BY IdentityAssumption
<1> DEFINE base == Place(pool[at[n]]).base
<1>5. /\ at[n] \in Members(pool, base) /\ Read(pool, base).ok
      /\ d = Read(pool, base).of
  BY <1>1, <1>3, <1>4, DiagnosticFrom
<1>6. at[n] \in DOMAIN pool /\ Place(pool[at[n]]).as = "chunk" BY <1>5 DEF Members
<1>7. base[1] \in {"DIAG", "CLOUD_INIT"} BY <1>2, <1>6, PlaceFacts
<1> HIDE DEF base
<1>8. Covers(base, d) BY <1>5, <1>7, ReadCovers
<1>9. base[1] = "DIAG" /\ base[2] = Agent BY <1>4, <1>7, <1>8 DEF Covers
<1>10. Members(pool, base) # {} BY <1>5
<1>11. PICK i \in DOMAIN emitted : \E now, cut :
              /\ Frames(emitted[i], now, cut) /\ base = Base(emitted[i].d, now)
              /\ \A p \in Members(pool, base) : \E j \in DOMAIN emitted[i].records :
                    pool[p] = emitted[i].records[j]
  BY <1>5, <1>9, <1>10, OwnGroup
<1>12. PICK now, cut :
              /\ Frames(emitted[i], now, cut) /\ base = Base(emitted[i].d, now)
              /\ \A p \in Members(pool, base) : \E j \in DOMAIN emitted[i].records :
                    pool[p] = emitted[i].records[j]
  BY <1>11
<1>13. \E to \in 0..Len(emitted[i].d.payload) : Read(pool, base).of = Meant(emitted[i], to)
  BY <1>5, <1>10, <1>12, OwnRead
<1> QED BY <1>5, <1>13

(* What the reader returns as the writer's was emitted. *)
THEOREM ReadWasEmitted == Spec => []OnlyEmitted
<1>1. SeqInv /\ CallInv /\ OwnInv /\ FirstInv => OnlyEmitted BY OnlyEmittedHere
<1> QED BY <1>1, PoolIsRead, CallsAreFrames, OwnAreCalls, FirstsTogether, PTL

-----------------------------------------------------------------------------
(* What is written is read. *)

(* A group in which every index below n is once has no error. *)
LEMMA Numbered ==
    ASSUME NEW pl, IsSeq(pl), NEW members \in SUBSET DOMAIN pl, NEW n \in Nat,
           \A p \in members : \E j \in 1..n : Unsigned(Last(pl[p].key)) = j - 1,
           \A j \in 1..n : \E p \in members : Unsigned(Last(pl[p].key)) = j - 1,
           \A p, q \in members : Unsigned(Last(pl[p].key)) = Unsigned(Last(pl[q].key)) => p = q
    PROVE  Cardinality(members) = n /\ ChunkError(Chunks(pl, members)) = "none"
<1> DEFINE index(p) == Unsigned(Last(pl[p].key))
           f == [p \in members |-> index(p)]
           I == 0..(n - 1)
           chunks == Chunks(pl, members)
<1>1. IsFiniteSet(I) /\ Cardinality(I) = n
  <2>1. n - 1 \in Int /\ 0 \in Int OBVIOUS
  <2> QED BY <2>1, FS_Interval
<1>2. \A p \in members : index(p) \in I
  <2> SUFFICES ASSUME NEW p \in members PROVE index(p) \in I OBVIOUS
  <2>1. PICK j \in 1..n : index(p) = j - 1 OBVIOUS
  <2>2. j - 1 \in I OBVIOUS
  <2> QED BY <2>1, <2>2
<1>3. \A x \in I : \E p \in members : index(p) = x
  <2> SUFFICES ASSUME NEW x \in I PROVE \E p \in members : index(p) = x OBVIOUS
  <2>1. x + 1 \in 1..n /\ (x + 1) - 1 = x OBVIOUS
  <2> QED BY <2>1
<1>4. IsFiniteSet(members) /\ IsFiniteSet(chunks) /\ Cardinality(chunks) = Cardinality(members)
  BY ChunksOf
<1>5. {c.index : c \in chunks} = I
  <2>1. ASSUME NEW c \in chunks PROVE c.index \in I
    <3>1. PICK p \in members : c = [position |-> p, index |-> index(p), value |-> pl[p].value]
      BY DEF Chunks
    <3> QED BY <1>2, <3>1
  <2>2. ASSUME NEW x \in I PROVE \E c \in chunks : c.index = x
    <3>1. PICK p \in members : index(p) = x BY <1>3
    <3>2. [position |-> p, index |-> index(p), value |-> pl[p].value] \in chunks BY DEF Chunks
    <3> QED BY <3>1, <3>2
  <2> HIDE DEF I, chunks
  <2> QED BY <2>1, <2>2
<1>6. Cardinality(members) = n
  <2>1. f \in [members -> I] /\ \A p \in members : f[p] = index(p) BY <1>2
  <2>2. \A p, q \in members : f[p] = f[q] => p = q BY <2>1
  <2>3. \A x \in I : \E p \in members : f[p] = x BY <1>3, <2>1
  <2> HIDE DEF f, I, index
  <2>4. f \in Bijection(members, I)
    BY <2>1, <2>2, <2>3 DEF Bijection, Injection, Surjection, IsInjective
  <2>5. ExistsBijection(members, I) BY <2>4 DEF ExistsBijection
  <2>6. Cardinality(I) = Cardinality(members) BY <1>4, <2>5, FS_Bijection
  <2> QED BY <1>1, <2>6
<1>7. Cardinality(chunks) = n BY <1>4, <1>6
<1>8. ~(n < n) OBVIOUS
<1> HIDE DEF chunks
<1>9. ChunkError(chunks) = "none" BY <1>1, <1>5, <1>7, <1>8, Zenon DEF ChunkError, I
<1> QED BY <1>6, <1>9 DEF chunks

(* The whole text of a call can be decoded. *)
LEMMA WholeDecodes ==
    ASSUME NEW d \in Emissions, Valid(d)
    PROVE  decode_payload(Text(d), d.encoding) =
              [ok |-> TRUE, payload |-> IF d.encoding = "none" THEN Payload("text", d.payload)
                                        ELSE Payload("bytes", d.payload)]
<1>1. d.encoding \in {"none", "gz+b64", "zlib+b64"} BY Zenon DEF Valid, Encodable, Encodings
<1>2. CASE d.encoding = "none"
  <2>1. Text(d) = d.payload BY <1>2, CallText
  <2>2. decode_payload(Text(d), d.encoding) = [ok |-> TRUE, payload |-> Payload("text", Text(d))]
    BY <1>2, Zenon DEF decode_payload
  <2> QED BY <1>2, <2>1, <2>2
<1>3. CASE d.encoding # "none"
  <2> DEFINE t == Text(d)
  <2>1. t = Base64(d.encoding, d.payload) /\ Len(t) > 0 /\ IsSeq(t)
        /\ \A n \in 1..Len(t) : t[n].of = d.payload
    BY <1>3, CallText, TextIs
  <2> HIDE DEF t
  <2>2. PICK S : t \in Seq(S) BY <2>1 DEF IsSeq
  <2>3. t # <<>> /\ Head(t) = t[1] /\ 1 \in 1..Len(t) BY <2>1, <2>2
  <2>4. Head(t).of = d.payload BY <2>1, <2>3
  <2>5. Decompresses(t, d.encoding) BY <2>1, <2>3, <2>4 DEF Decompresses
  <2>6. d.encoding \in {"gz+b64", "zlib+b64"} BY <1>1, <1>3
  <2>7. decode_payload(t, d.encoding) = [ok |-> TRUE, payload |-> Payload("bytes", Head(t).of)]
    BY <1>3, <2>5, <2>6, Zenon DEF decode_payload
  <2> QED BY <1>3, <2>4, <2>7 DEF t
<1> QED BY <1>2, <1>3

(* The base key of a call is one the reader takes. *)
LEMMA CallKeyOk ==
    ASSUME NEW d \in Emissions, Valid(d), NEW now \in 0..MaxClock
    PROVE  DiagKeyOk(Base(d, now))
<1> DEFINE b == Base(d, now)
           span == (d.duration - 1) \div DurationUnit
<1>1. /\ Len(b) = 10 /\ b[2] = Agent /\ b[3] = VmId /\ b[4] = d.kind /\ b[5] = d.name
      /\ b[6] = d.id /\ b[7] = format(now \div TimestampUnit) /\ b[8] = d.encoding
      /\ b[9] = d.result /\ now \div TimestampUnit \in 0..Largest
      /\ b[10] = IF d.duration = 0 THEN Blank ELSE format(span)
  BY BaseFacts
<1>2. Blank \in Unfit /\ Blank \notin Uuid BY LimitsAssumption
<1>3. Agent # Blank /\ VmId # Blank /\ VmId \in Uuid BY <1>2, IdentityAssumption
<1>4. d.name # Blank /\ d.id # Blank BY <1>2, Zenon DEF Valid
<1>5. d.encoding # Blank
  <2>1. d.encoding = "none" \/ d.encoding = "gz+b64" \/ d.encoding = "zlib+b64"
    BY Zenon DEF Valid, Encodable, Encodings
  <2>2. "none" # Blank /\ "gz+b64" # Blank /\ "zlib+b64" # Blank BY Zenon DEF Blank
  <2> QED BY <2>1, <2>2
<1>6. format(now \div TimestampUnit) # Blank /\ IsUnsigned(format(now \div TimestampUnit))
  BY <1>1, Numerals
<1>7. d.duration # 0 => format(span) # Blank /\ IsUnsigned(format(span))
  <2> SUFFICES ASSUME d.duration # 0 PROVE format(span) # Blank /\ IsUnsigned(format(span))
    OBVIOUS
  <2>1. d.duration - 1 \in Nat /\ DurationUnit \in Nat \ {0} /\ span <= Largest
    <3>1. d.duration \in Nat /\ DurationUnit \in Nat \ {0} /\ span <= Largest
      BY EmissionsAssumption, LimitsAssumption
    <3>2. d.duration - 1 \in Nat BY <3>1
    <3> QED BY <3>1, <3>2
  <2>2. span \in Nat
    <3> DEFINE m == d.duration - 1
    <3>1. m \in Nat /\ DurationUnit \in Nat \ {0} BY <2>1
    <3> HIDE DEF m
    <3>2. m \div DurationUnit \in Nat BY <3>1
    <3> QED BY <3>2 DEF m
  <2> HIDE DEF span
  <2>3. span \in 0..Largest BY <2>1, <2>2
  <2> QED BY <2>3, Numerals
<1> HIDE DEF b, span
<1>8. /\ d.kind \in {"start", "finish", "event"} /\ d.result \in {Blank, "ok", "error"}
      /\ d.kind = "start" => d.result = Blank /\ d.duration = 0
      /\ d.kind = "finish" => d.result # Blank /\ d.duration # 0
  BY EmissionsAssumption DEF Kinds
<1>9. b[10] = Blank \/ IsUnsigned(b[10])
  <2>1. CASE d.duration = 0 BY <1>1, <2>1
  <2>2. CASE d.duration # 0 BY <1>1, <1>7, <2>2
  <2> QED BY <2>1, <2>2
<1>10. \/ b[4] = "start" /\ b[9] = Blank /\ b[10] = Blank
       \/ b[4] = "finish" /\ b[9] # Blank /\ b[10] # Blank
       \/ b[4] = "event"
  <2>1. CASE d.kind = "start" BY <1>1, <1>8, <2>1
  <2>2. CASE d.kind = "finish" BY <1>1, <1>7, <1>8, <2>2
  <2>3. CASE d.kind = "event" BY <1>1, <2>3
  <2> QED BY <1>8, <2>1, <2>2, <2>3
<1>11. \A i \in {2, 3, 5, 6, 7, 8} : b[i] # Blank BY <1>1, <1>3, <1>4, <1>5, <1>6
<1> QED BY <1>1, <1>3, <1>6, <1>8, <1>9, <1>10, <1>11 DEF DiagKeyOk, b

(* One record of the pool, and only one, has the key. *)
Holders(pl, k) == {j \in DOMAIN pl : pl[j].key = k}
LEMMA OneRecord ==
    ASSUME NEW pl, IsSeq(pl), NEW k, Cardinality(Holders(pl, k)) = 1
    PROVE  \E p \in DOMAIN pl : pl[p].key = k /\ \A q \in DOMAIN pl : pl[q].key = k => q = p
<1> DEFINE S == Holders(pl, k)
<1>1. Len(pl) \in Nat /\ DOMAIN pl = 1..Len(pl) BY SeqFacts
<1>2. S \subseteq 1..Len(pl) BY <1>1 DEF Holders
<1>3. Cardinality(S) = 1 OBVIOUS
<1> HIDE DEF S
<1>4. IsFiniteSet(S) BY <1>1, <1>2, PartSize
<1>5. PICK x : S = {x} BY <1>3, <1>4, FS_Singleton
<1> QED BY <1>5 DEF S, Holders

(* The records of a call, while they are intact, are the group of its base  *)
(* key.                                                                    *)
LEMMA IntactGroup ==
    ASSUME SeqInv, NEW e, NEW now, NEW cut, Frames(e, now, cut), Intact(e.records)
    PROVE  LET M == Members(pool, Base(e.d, now)) IN
           /\ \A p \in M : \E j \in DOMAIN e.records : pool[p] = e.records[j]
           /\ Cardinality(M) = Len(e.records) /\ ChunkError(Chunks(pool, M)) = "none"
<1> DEFINE b == Base(e.d, now)
           M == Members(pool, b)
           l == Len(e.records)
           index(p) == Unsigned(Last(pool[p].key))
<1>1. /\ IsSeq(pool) /\ \A p \in DOMAIN pool : IsSeq(pool[p].key) BY DEF SeqInv
<1>2. /\ l \in 1..Largest /\ DOMAIN e.records = 1..l
      /\ \A j \in 1..l : IsChunk(e.records[j], b, j - 1)
  BY Zenon DEF Frames
<1>3. M \in SUBSET DOMAIN pool BY DEF Members
<1>4. b = Front(e.records[1].key)
  <2>1. 1 \in 1..l
    <3>1. l \in 1..Largest BY <1>2
    <3> HIDE DEF l
    <3> QED BY <3>1
  <2> QED BY <1>2, <2>1, Zenon DEF IsChunk
<1>5. /\ \A i \in DOMAIN e.records :
            Cardinality({j \in DOMAIN pool : pool[j].key = e.records[i].key}) = 1
      /\ \A i \in DOMAIN pool :
            (Len(pool[i].key) > 1 /\ Front(pool[i].key) = b) => pool[i] \in ToSet(e.records)
  BY <1>4, Zenon DEF Intact
<1>6. ASSUME NEW p \in M PROVE \E j \in 1..l : pool[p] = e.records[j]
  <2>1. p \in DOMAIN pool /\ Place(pool[p]).as = "chunk" /\ Place(pool[p]).base = b BY DEF Members
  <2>2. Len(pool[p].key) > 1 /\ Front(pool[p].key) = b BY <1>1, <2>1, PlaceFacts
  <2>3. pool[p] \in ToSet(e.records) BY <1>5, <2>1, <2>2
  <2> QED BY <1>2, <2>3 DEF ToSet
<1>7. ASSUME NEW p \in M, NEW j \in 1..l, pool[p].key = e.records[j].key
      PROVE  index(p) = j - 1
  <2>1. Last(e.records[j].key) = format(j - 1) BY <1>2, Zenon DEF IsChunk
  <2>2. j - 1 \in 0..Largest
    <3>1. l \in 1..Largest /\ j \in 1..l BY <1>2
    <3> HIDE DEF l
    <3> QED BY <3>1, LargestFacts
  <2>3. Unsigned(format(j - 1)) = j - 1 BY <2>2, Numerals
  <2> QED BY <1>7, <2>1, <2>3
<1> HIDE DEF b, M, l
<1>8. \A p \in M : \E j \in 1..l : index(p) = j - 1 BY <1>6, <1>7
<1>9. ASSUME NEW j \in 1..l
       PROVE  \E x \in DOMAIN pool :
                 /\ pool[x].key = e.records[j].key
                 /\ \A y \in DOMAIN pool : pool[y].key = e.records[j].key => y = x
  <2> DEFINE k == e.records[j].key
  <2>1. j \in DOMAIN e.records BY <1>2
  <2>2. Cardinality(Holders(pool, k)) = 1 BY <1>5, <2>1, Zenon DEF Holders
  <2>3. IsSeq(pool) BY <1>1
  <2> HIDE DEF k
  <2>4. \E x \in DOMAIN pool : pool[x].key = k /\ \A y \in DOMAIN pool : pool[y].key = k => y = x
    BY <2>2, <2>3, OneRecord
  <2> QED BY <2>4, Zenon DEF k
<1>10. ASSUME NEW j \in 1..l PROVE \E p \in M : index(p) = j - 1
  <2>1. PICK p \in DOMAIN pool : pool[p].key = e.records[j].key BY <1>9
  <2>2. j - 1 \in 0..Largest BY <1>2, LargestFacts
  <2>3. /\ IsSeq(b) /\ Len(b) = 10 /\ b[1] = "DIAG"
    <3>1. clock \in 0..MaxClock /\ now \in 0..clock /\ e.d \in Emissions
      BY Zenon DEF SeqInv, Frames
    <3>2. now \in 0..MaxClock BY <3>1, EmissionsAssumption
    <3> QED BY <3>1, <3>2, BaseFacts DEF b
  <2>4. pool[p].key = Append(b, format(j - 1)) BY <1>2, <2>1, Zenon DEF IsChunk
  <2>5. IsChunk(pool[p], b, j - 1) BY <2>2, <2>3, <2>4, ChunkKey
  <2>6. p \in M BY <2>5, Zenon DEF IsChunk, M, Members
  <2> QED BY <1>7, <2>1, <2>6
<1>11. ASSUME NEW p \in M, NEW q \in M, index(p) = index(q) PROVE p = q
  <2>1. PICK j \in 1..l : pool[p] = e.records[j] BY <1>6
  <2>2. PICK i \in 1..l : pool[q] = e.records[i] BY <1>6
  <2>3. index(p) = j - 1 /\ index(q) = i - 1 BY <1>7, <2>1, <2>2
  <2>4. i = j
    <3>1. i - 1 = j - 1 BY <1>11, <2>3
    <3>2. l \in Nat BY <1>2
    <3>3. i \in Nat /\ j \in Nat BY <3>2
    <3> QED BY <3>1, <3>3
  <2>5. PICK x \in DOMAIN pool : \A y \in DOMAIN pool : pool[y].key = e.records[j].key => y = x
    BY <1>9
  <2>6. p = x BY <1>3, <2>1, <2>5
  <2>7. q = x BY <1>3, <2>2, <2>4, <2>5
  <2> QED BY <2>6, <2>7
<1>12. l \in Nat BY <1>2
<1> HIDE DEF index
<1>13. Cardinality(M) = l /\ ChunkError(Chunks(pool, M)) = "none"
  BY <1>1, <1>3, <1>8, <1>10, <1>11, <1>12, Numbered DEF index
<1> QED BY <1>2, <1>6, <1>13 DEF M, b, l

(* A call whose records are intact is read in full. *)
LEMMA IntactIsRead ==
    ASSUME SeqInv, NEW e, NEW now, NEW cut, Frames(e, now, cut), Intact(e.records)
    PROVE  LET b == Base(e.d, now) IN
           Members(pool, b) # {} /\ Read(pool, b).ok /\ Read(pool, b).of = InFull(e)
<1> DEFINE b == Base(e.d, now)
           M == Members(pool, b)
           chunks == Chunks(pool, M)
           t == Text(e.d)
           decoded == decode_payload(Joined(chunks), b[8])
<1>1. /\ e.d \in Emissions /\ Valid(e.d) /\ now \in 0..clock /\ clock \in 0..MaxClock
      /\ Framing(prepare_records(e.d, now), b, t, cut)
      /\ e.records = prepare_records(e.d, now).records
      /\ Len(e.records) \in 1..Largest /\ DOMAIN e.records = 1..Len(e.records)
  BY Zenon DEF SeqInv, Frames
<1>2. now \in 0..MaxClock BY <1>1, EmissionsAssumption
<1>3. /\ \A p \in M : \E j \in DOMAIN e.records : pool[p] = e.records[j]
      /\ Cardinality(M) = Len(e.records) /\ ChunkError(chunks) = "none"
  BY IntactGroup
<1>4. M # {}
  <2>1. Len(e.records) # 0 BY <1>1
  <2> HIDE DEF M
  <2> QED BY <1>3, <2>1, FS_EmptySet
<1>5. M \in SUBSET DOMAIN pool BY DEF Members
<1>6. Joined(chunks) = t
  <2>1. PICK k \in 1..Len(e.records) :
              k = Cardinality(M) /\ Joined(chunks) = SubSeq(t, 1, cut[k])
    BY <1>3, <1>4, <1>5, CallGroup
  <2>2. cut[k] = Len(t) BY <1>1, <1>3, <2>1 DEF Framing
  <2>3. IsSeq(t) BY <1>1, CallText, TextIs
  <2> HIDE DEF t, chunks
  <2>4. PICK S : t \in Seq(S) BY <2>3 DEF IsSeq
  <2>5. SubSeq(t, 1, Len(t)) = t BY <2>4
  <2> QED BY <2>1, <2>2, <2>5
<1>7. /\ b[1] = "DIAG" /\ b[2] = Agent /\ b[3] = VmId /\ b[4] = e.d.kind /\ b[5] = e.d.name
      /\ b[6] = e.d.id /\ b[8] = e.d.encoding
  BY <1>1, <1>2, BaseFacts
<1>8. decoded = [ok |-> TRUE, payload |-> IF e.d.encoding = "none" THEN Payload("text", e.d.payload)
                                        ELSE Payload("bytes", e.d.payload)]
  <2>1. decoded = decode_payload(Text(e.d), e.d.encoding) BY <1>6, <1>7
  <2> HIDE DEF decoded
  <2> QED BY <1>1, <2>1, WholeDecodes
<1>9. DiagKeyOk(b) BY <1>1, <1>2, CallKeyOk
<1>10. b = Front(e.records[1].key)
  <2> DEFINE l == Len(e.records)
  <2>1. l \in 1..Largest BY <1>1
  <2> HIDE DEF l
  <2>2. 1 \in 1..l BY <2>1
  <2> QED BY <2>2, Zenon DEF Frames, IsChunk, l
<1>11. Read(pool, b) = Ok(Diagnostic(b[4], b[2], b[3], b[5], b[6], b[7], b[8],
                                     decoded.payload, b[9], b[10]))
  <2>1. b[1] # "CLOUD_INIT" BY <1>7
  <2>2. Read(pool, b) = decode_diag_group(b, chunks) BY <2>1, Zenon DEF Read, decode_group
  <2>3. decoded.ok BY <1>8
  <2> HIDE DEF b, chunks
  <2> QED BY <1>3, <1>9, <2>2, <2>3, DiagGroup, Zenon DEF b, chunks
<1>12. decoded.payload = IF e.d.encoding = "none" THEN Payload("text", SubSeq(e.d.payload, 1, Len(e.d.payload)))
                         ELSE Payload("bytes", e.d.payload)
  <2>1. SubSeq(e.d.payload, 1, Len(e.d.payload)) = e.d.payload
    <3>1. IsSeq(e.d.payload) BY <1>1, CallText, TextIs
    <3>2. PICK S : e.d.payload \in Seq(S) BY <3>1 DEF IsSeq
    <3> QED BY <3>2
  <2> HIDE DEF decoded
  <2> QED BY <1>8, <2>1
<1>13. Read(pool, b).ok /\ Read(pool, b).of = InFull(e)
  <2> HIDE DEF b, decoded
  <2>1. Read(pool, b).ok /\ Read(pool, b).of = Diagnostic(b[4], b[2], b[3], b[5], b[6], b[7], b[8],
                                     decoded.payload, b[9], b[10])
    BY <1>11 DEF Ok
  <2> QED BY <1>7, <1>10, <1>12, <2>1 DEF InFull, Meant
<1> QED BY <1>4, <1>13

LEMMA EmittedIsReadHere ==
    ASSUME SeqInv, CallInv
    PROVE  EmittedIsRead
<1> SUFFICES ASSUME NEW i \in DOMAIN emitted, Intact(emitted[i].records)
             PROVE  InFull(emitted[i]) \in Decoded
  BY DEF EmittedIsRead
<1>1. IsSeq(pool) /\ clock \in 0..MaxClock /\ entries = decode_entries(pool) BY DEF SeqInv
<1>2. PICK now, cut : Frames(emitted[i], now, cut) BY <1>1, CallsFrame
<1>3. PICK at : Stands(entries, pool, at) BY <1>1, AnswerStands
<1> DEFINE b == Base(emitted[i].d, now)
<1>4. Members(pool, b) # {} /\ Read(pool, b).ok /\ Read(pool, b).of = InFull(emitted[i])
  BY <1>2, IntactIsRead
<1> HIDE DEF b
<1>5. Read(pool, b).of \in Decoded BY <1>1, <1>3, <1>4, ReadIsDecoded
<1> QED BY <1>4, <1>5

(* A call that answered Ok is read in full while its records are there. *)
THEOREM EmittedAreRead == Spec => []EmittedIsRead
<1>1. SeqInv /\ CallInv => EmittedIsRead BY EmittedIsReadHere
<1> QED BY <1>1, PoolIsRead, CallsAreFrames, PTL

-----------------------------------------------------------------------------
(* What cloud-init writes is read. *)

(* The name of a message is in its key. *)
LEMMA MessageName ==
    ASSUME NEW m \in Messages
    PROVE  Place(m[1]).base[4] = m[1].key[4]
<1> DEFINE key == m[1].key
           place == Place(m[1])
<1>1. 1 \in DOMAIN m /\ DOMAIN m = 1..Len(m) BY MessageRecords
<1>2. IsSeq(key) /\ key[1] = "CLOUD_INIT" BY <1>1, MessageIs
<1>3. MessageAlone(m) \/ MessageGroup(m) BY MessageIs
<1>4. PICK S : key \in Seq(S) BY <1>2 DEF IsSeq
<1>5. Head(key) = key[1] BY <1>4
<1>6. place = cloud_init_split_key(key) BY <1>2, <1>5, PlaceBy
<1>7. CASE MessageAlone(m)
  <2>1. place = Alone(key, "cloud-init") BY <1>7 DEF MessageAlone
  <2> QED BY <2>1 DEF Alone
<1>8. CASE MessageGroup(m)
  <2>1. place.as = "chunk"
    <3>1. place = InGroup(place.base, 1 - 1) BY <1>1, <1>8, Zenon DEF MessageGroup
    <3>2. InGroup(place.base, 1 - 1).as = "chunk" BY DEF InGroup
    <3> HIDE DEF place
    <3> QED BY <3>1, <3>2
  <2>2. Raw("malformed").as # "chunk" /\ Alone(key, "cloud-init").as # "chunk" BY DEF Raw, Alone
  <2>3. place = InGroup(Front(key), Unsigned(Last(key))) /\ Len(key) \in 5..7
    <3> HIDE DEF place, key
    <3> QED BY <1>6, <2>1, <2>2, CloudInitSplitKey
  <2>4. place.base = Front(key) BY <2>3 DEF InGroup
  <2>5. Front(key)[4] = key[4]
    <3> HIDE DEF key
    <3> DEFINE l == Len(key)
               n == l - 1
    <3>1. l \in 5..7 BY <2>3
    <3>2. Front(key) = SubSeq(key, 1, n) BY DEF Front
    <3> HIDE DEF l
    <3>3. n \in Nat /\ 4 \in 1..n /\ n <= l BY <3>1
    <3> HIDE DEF n
    <3>4. SubSeq(key, 1, n)[4] = key[4] BY <1>4, <3>3 DEF l
    <3> QED BY <3>2, <3>4
  <2> QED BY <2>4, <2>5
<1> QED BY <1>3, <1>7, <1>8

(* The diagnostic a message stands for. *)
Reported(m) ==
    cloud_init_diagnostic(Place(m[1]).base, [m[1].value.meta EXCEPT !.msg_i = Blank], Whole(m))
LEMMA MessageMeans ==
    ASSUME NEW m \in Messages
    PROVE  LET d == Reported(m).of IN
           /\ Reported(m).ok /\ d.agent = "CLOUD_INIT" /\ d.name = m[1].key[4]
           /\ d.payload.of = IF IsEnvelope(Whole(m)) THEN Whole(m)[1].of ELSE Whole(m)
<1> DEFINE base == Place(m[1]).base
           meta == [m[1].value.meta EXCEPT !.msg_i = Blank]
           text == Whole(m)
           message == decode_message(text, base[3] = "compressed")
<1>1. cloud_init_diagnostic(base, meta, text).ok BY MessageIs
<1>2. base[4] = m[1].key[4] BY MessageName
<1> HIDE DEF base, meta, text
<1>3. LET d == cloud_init_diagnostic(base, meta, text).of
      IN  /\ message.error = "none" /\ d.agent = "CLOUD_INIT" /\ d.name = base[4]
          /\ d.payload = message.payload
  BY <1>1, CloudInitOf
<1>4. message.payload.of = IF IsEnvelope(text) THEN text[1].of ELSE text
  <2>1. CASE IsEnvelope(text)
    <3>1. CASE text[1].c = "gz+b64"
      <4>1. message = [error |-> "none", payload |-> Payload("bytes", text[1].of), encoding |-> "gz+b64"]
        BY <2>1, <3>1, Zenon DEF decode_message
      <4> HIDE DEF message
      <4>2. message.payload = Payload("bytes", text[1].of) BY <4>1
      <4> QED BY <2>1, <4>2 DEF Payload
    <3>2. CASE text[1].c # "gz+b64"
      <4>1. message = [error |-> "undecodable", payload |-> Payload(Blank, <<>>), encoding |-> Blank]
        BY <2>1, <3>2, Zenon DEF decode_message
      <4>2. message.error # "none"
        <5> HIDE DEF message
        <5> QED BY <4>1
      <4> QED BY <1>3, <4>2
    <3> QED BY <3>1, <3>2
  <2>2. CASE ~IsEnvelope(text)
    <3>1. message = [error |-> IF base[3] = "compressed" THEN "malformed" ELSE "none",
                     payload |-> Payload("text", text), encoding |-> "none"]
      BY <2>2, Zenon DEF decode_message
    <3> HIDE DEF message
    <3>2. message.payload = Payload("text", text) BY <3>1
    <3> QED BY <2>2, <3>2 DEF Payload
  <2> QED BY <2>1, <2>2
<1> HIDE DEF message
<1> QED BY <1>1, <1>2, <1>3, <1>4 DEF Reported, base, meta, text

(* A message of one record is read. *)
LEMMA AloneIsRead ==
    ASSUME SeqInv, NEW m \in Messages, MessageAlone(m), NEW p \in DOMAIN pool, pool[p] = m[1]
    PROVE  Reported(m).of \in Decoded
<1> DEFINE key == m[1].key
           value == m[1].value
           place == Alone(key, "cloud-init")
<1>1. Reported(m).ok BY MessageMeans
<1>2. Len(m) = 1 /\ Place(m[1]) = place /\ [value.meta EXCEPT !.msg_i = Blank] = value.meta
  BY DEF MessageAlone
<1>3. place.as = "cloud-init" /\ place.base = key BY DEF Alone
<1>4. 1 \in DOMAIN m /\ IsSeq(m) /\ value.meta \in [DOMAIN NoMeta -> STRING] /\ IsText(value.text)
  BY MessageRecords, MessageIs
<1>5. Whole(m) = value.text
  <2> DEFINE parts == [i \in DOMAIN m |-> m[i].value.text]
  <2>1. DOMAIN m = 1..1 BY <1>2, <1>4, SeqFacts
  <2>2. parts = [i \in 1..1 |-> parts[i]] /\ DOMAIN parts = 1..1 /\ parts[1] = value.text BY <2>1
  <2>3. IsSeq(value.text) BY <1>4, TextIs
  <2> HIDE DEF parts
  <2>4. IsSeq(parts) /\ Len(parts) = 1 BY <2>2, SeqByDomain
  <2>5. \A i \in DOMAIN parts : i = 1 BY <2>2
  <2>6. \A i \in DOMAIN parts : IsSeq(parts[i]) BY <2>2, <2>3, <2>5
  <2>7. PICK f : /\ FlattenSeq(parts) = Upto(f, Len(parts))
                 /\ \A n \in 1..Len(parts) : Upto(f, n) = Upto(f, n - 1) \o parts[n]
    BY <2>4, <2>6, FlattenGrows
  <2>8. FlattenSeq(parts) = Upto(f, 1) /\ Upto(f, 1) = Upto(f, 0) \o value.text
    <3>1. 1 \in 1..Len(parts) /\ 1 - 1 = 0 BY <2>4
    <3> QED BY <2>2, <2>4, <2>7, <3>1
  <2>9. Upto(f, 0) = <<>> BY DEF Upto
  <2>10. <<>> \o value.text = value.text
    <3>1. PICK S : value.text \in Seq(S) BY <2>3 DEF IsSeq
    <3> QED BY <3>1
  <2> QED BY <2>8, <2>9, <2>10 DEF Whole, parts
<1>6. value.meta.msg_i = Blank
  <2> DEFINE meta == value.meta
  <2>1. "msg_i" \in DOMAIN meta BY <1>4 DEF NoMeta
  <2>2. [meta EXCEPT !.msg_i = Blank] = meta BY <1>2
  <2> HIDE DEF meta
  <2>3. [meta EXCEPT !.msg_i = Blank].msg_i = Blank BY <2>1
  <2>4. meta.msg_i = Blank BY <2>2, <2>3
  <2> QED BY <2>4 DEF meta
<1>7. decode_single(key, value) = Reported(m)
  <2>1. decode_single(key, value) = cloud_init_diagnostic(key, value.meta, value.text)
    BY <1>6, Zenon DEF decode_single
  <2>2. Place(m[1]).base = key BY <1>2, <1>3
  <2> QED BY <1>2, <1>5, <2>1, <2>2, Zenon DEF Reported
<1>8. EntryAt(pool, p) = <<DiagnosticEntry(Reported(m).of)>>
  <2>1. Place(pool[p]) = place BY <1>2
  <2> HIDE DEF place
  <2>2. place.as # "chunk" /\ place.as # "raw" /\ place.as # "report" BY <1>3
  <2>3. EntryAt(pool, p) = <<Single(pool[p], p, place)>> BY <2>1, <2>2, Zenon DEF EntryAt
  <2>4. Single(pool[p], p, place) = DiagnosticEntry(Reported(m).of)
    BY <1>1, <1>3, <1>7, <2>2, Zenon DEF Single
  <2> QED BY <2>3, <2>4
<1>9. IsSeq(pool) /\ entries = decode_entries(pool) BY DEF SeqInv
<1>10. PICK at : Stands(entries, pool, at) BY <1>9, AnswerStands
<1>11. PICK k \in 1..Len(entries) : at[k] = p
  <2>1. \A e : <<e>> # <<>> OBVIOUS
  <2> QED BY <1>8, <1>10, <2>1, Zenon DEF Stands
<1>12. <<entries[k]>> = <<DiagnosticEntry(Reported(m).of)>> BY <1>8, <1>10, <1>11 DEF Stands
<1>13. entries[k] = DiagnosticEntry(Reported(m).of) BY <1>12
<1>14. entries[k].is = "diagnostic" /\ entries[k].of = Reported(m).of
  BY <1>13 DEF DiagnosticEntry, Entry
<1>15. DOMAIN entries = 1..Len(entries) BY <1>10, SeqFacts DEF Stands
<1> QED BY <1>14, <1>15 DEF Decoded

LEMMA MetaFacts ==
    ASSUME NEW meta \in [DOMAIN NoMeta -> STRING], NEW x
    PROVE  LET m == [meta EXCEPT !.msg_i = Blank] IN
           /\ [m EXCEPT !.msg_i = x].msg_i = x
           /\ [[m EXCEPT !.msg_i = x] EXCEPT !.msg_i = Blank] = m
<1> DEFINE m == [meta EXCEPT !.msg_i = Blank]
           n == [m EXCEPT !.msg_i = x]
           o == [n EXCEPT !.msg_i = Blank]
<1>1. "msg_i" \in DOMAIN meta BY DEF NoMeta
<1>2. DOMAIN m = DOMAIN meta /\ m.msg_i = Blank BY <1>1
<1>3. /\ DOMAIN n = DOMAIN meta /\ n.msg_i = x
      /\ \A y \in DOMAIN meta : y # "msg_i" => n[y] = m[y]
  <2> HIDE DEF m
  <2> QED BY <1>1, <1>2
<1>4. o = m
  <2> HIDE DEF m, n
  <2>1. DOMAIN o = DOMAIN m /\ o.msg_i = m.msg_i BY <1>1, <1>2, <1>3
  <2>2. \A y \in DOMAIN m : y # "msg_i" => o[y] = m[y] BY <1>2, <1>3
  <2>3. \A y \in DOMAIN m : o[y] = m[y] BY <2>1, <2>2
  <2>4. o = [y \in DOMAIN o |-> o[y]] /\ m = [y \in DOMAIN m |-> m[y]]
    <3>1. o = [y \in DOMAIN o |-> o[y]] OBVIOUS
    <3>2. m = [y \in DOMAIN m |-> m[y]] BY DEF m
    <3> QED BY <3>1, <3>2
  <2> HIDE DEF o
  <2> QED BY <2>1, <2>3, <2>4
<1> QED BY <1>3, <1>4

(* The chunks of a message that are all there are the group of its key. *)
LEMMA MessageMembers ==
    ASSUME SeqInv, MessageInv, NEW m \in Messages, MessageGroup(m), ToSet(m) \subseteq ToSet(pool)
    PROVE  LET M == Members(pool, Place(m[1]).base) IN
           /\ \A p \in M : \E i \in DOMAIN m : pool[p] = m[i] /\ Unsigned(Last(pool[p].key)) = i - 1
           /\ M # {} /\ Cardinality(M) = Len(m) /\ ChunkError(Chunks(pool, M)) = "none"
<1> DEFINE base == Place(m[1]).base
           M == Members(pool, base)
           index(p) == Unsigned(Last(pool[p].key))
           n == Len(m)
<1>1. IsSeq(pool) BY DEF SeqInv
<1>2. n \in Nat \ {0} /\ DOMAIN m = 1..n BY MessageRecords
<1>3. sent[m] \in 0..Len(m) /\ SentOnce(pool, m, sent[m]) BY MessageInvIs
<1>4. M \in SUBSET DOMAIN pool /\ \A p \in M : OfMessage(pool[p], m) BY DEF Members, OfMessage
<1>5. ASSUME NEW i \in 1..n, NEW p, pool[p] = m[i] PROVE index(p) = i - 1
  <2>1. Place(m[i]) = InGroup(base, i - 1) BY <1>2, <1>5, Zenon DEF MessageGroup
  <2>2. Place(m[i]).as = "chunk" /\ Place(m[i]).index = i - 1 BY <2>1 DEF InGroup
  <2>3. IsSeq(m[i].key) BY <1>2, MessageIs
  <2>4. Place(m[i]).index = Unsigned(Last(m[i].key)) BY <2>2, <2>3, PlaceFacts
  <2> QED BY <1>5, <2>2, <2>4
<1>6. ASSUME NEW p \in M PROVE \E i \in 1..n : pool[p] = m[i] /\ index(p) = i - 1
  <2>1. PICK i \in 1..sent[m] : pool[p] = m[i] BY <1>3, <1>4 DEF SentOnce
  <2>2. i \in 1..n BY <1>2, <1>3
  <2> QED BY <1>5, <2>1, <2>2
<1>7. ASSUME NEW i \in 1..n PROVE \E p \in M : index(p) = i - 1
  <2>1. m[i] \in ToSet(m) BY <1>2 DEF ToSet
  <2>2. PICK p \in DOMAIN pool : pool[p] = m[i] BY <2>1 DEF ToSet
  <2>3. Place(m[i]) = InGroup(base, i - 1) BY <1>2, <1>7, Zenon DEF MessageGroup
  <2>4. Place(pool[p]).as = "chunk" /\ Place(pool[p]).base = base BY <2>2, <2>3 DEF InGroup
  <2>5. p \in M BY <2>4 DEF Members
  <2> QED BY <1>5, <2>2, <2>5
<1>8. ASSUME NEW p \in M, NEW q \in M, index(p) = index(q) PROVE p = q
  <2>1. PICK i \in 1..n : pool[p] = m[i] /\ index(p) = i - 1 BY <1>6
  <2>2. PICK j \in 1..n : pool[q] = m[j] /\ index(q) = j - 1 BY <1>6
  <2>3. i = j
    <3>1. i - 1 = j - 1 BY <1>8, <2>1, <2>2
    <3>2. i \in Nat /\ j \in Nat BY <1>2
    <3> QED BY <3>1, <3>2
  <2>4. pool[p] = pool[q] BY <2>1, <2>2, <2>3
  <2> QED BY <1>3, <1>4, <2>4 DEF SentOnce
<1> HIDE DEF M, index, n
<1>9. \A p \in M : \E i \in 1..n : index(p) = i - 1 BY <1>6
<1>10. Cardinality(M) = n /\ ChunkError(Chunks(pool, M)) = "none"
  <2>1. n \in Nat BY <1>2
  <2> QED BY <1>1, <1>4, <1>7, <1>8, <1>9, <2>1, Numbered DEF index
<1>11. M # {}
  <2>1. 1 \in 1..n BY <1>2
  <2> QED BY <1>7, <2>1
<1> QED BY <1>2, <1>6, <1>10, <1>11 DEF M, index, n

(* A message in chunks is read. *)
LEMMA GroupIsRead ==
    ASSUME SeqInv, MessageInv, NEW m \in Messages, MessageGroup(m), ToSet(m) \subseteq ToSet(pool)
    PROVE  Reported(m).of \in Decoded
<1> DEFINE base == Place(m[1]).base
           meta == [m[1].value.meta EXCEPT !.msg_i = Blank]
           M == Members(pool, base)
           chunks == Chunks(pool, M)
           metas == {[c.value.meta EXCEPT !.msg_i = Blank] : c \in chunks}
           texts == [i \in DOMAIN m |-> m[i].value.text]
<1>1. IsSeq(pool) /\ entries = decode_entries(pool) BY DEF SeqInv
<1>2. DOMAIN m = 1..Len(m) /\ Len(m) \in Nat \ {0} /\ base[1] = "CLOUD_INIT" BY MessageRecords
<1>3. /\ \A p \in M : \E i \in DOMAIN m : pool[p] = m[i] /\ Unsigned(Last(pool[p].key)) = i - 1
      /\ M # {} /\ Cardinality(M) = Len(m) /\ ChunkError(chunks) = "none"
  BY MessageMembers
<1>4. M \in SUBSET DOMAIN pool BY DEF Members
<1> HIDE DEF M
<1>5. IsFiniteSet(chunks) /\ Cardinality(chunks) = Len(m) BY <1>1, <1>3, <1>4, ChunksOf
<1>6. ASSUME NEW c \in chunks
      PROVE  \E i \in DOMAIN m : c.index = i - 1 /\ c.value = m[i].value
  <2>1. PICK p \in M : c = [position |-> p, index |-> Unsigned(Last(pool[p].key)), value |-> pool[p].value]
    BY DEF Chunks
  <2>2. PICK i \in DOMAIN m : pool[p] = m[i] /\ Unsigned(Last(pool[p].key)) = i - 1 BY <1>3
  <2> QED BY <2>1, <2>2
<1>7. ASSUME NEW c \in chunks
      PROVE  c.value.meta.msg_i = format(c.index) /\ [c.value.meta EXCEPT !.msg_i = Blank] = meta
  <2>1. PICK i \in DOMAIN m : c.index = i - 1 /\ c.value = m[i].value BY <1>6
  <2>2. c.value.meta = [meta EXCEPT !.msg_i = format(i - 1)] BY <2>1, Zenon DEF MessageGroup
  <2>3. m[1].value.meta \in [DOMAIN NoMeta -> STRING] BY <1>2, MessageRecords, MessageIs
  <2>4. /\ [meta EXCEPT !.msg_i = format(i - 1)].msg_i = format(i - 1)
        /\ [[meta EXCEPT !.msg_i = format(i - 1)] EXCEPT !.msg_i = Blank] = meta
    BY <2>3, MetaFacts
  <2> HIDE DEF meta
  <2> QED BY <2>1, <2>2, <2>4
<1>8. metas = {meta}
  <2>1. \A x \in metas : x = meta BY <1>7
  <2>2. PICK p \in M : TRUE BY <1>3
  <2>3. \E c \in chunks : TRUE BY <2>2 DEF Chunks
  <2>4. metas # {} BY <2>3
  <2> HIDE DEF metas, meta
  <2> QED BY <2>1, <2>4
<1>9. Cardinality(metas) = 1 /\ (CHOOSE x \in metas : TRUE) = meta
  <2> HIDE DEF metas, meta
  <2>1. Cardinality({meta}) = 1 BY FS_Singleton
  <2> QED BY <1>8, <2>1
<1>10. Joined(chunks) = Whole(m)
  <2>1. ASSUME NEW c \in chunks, NEW i \in Nat, c.index = i - 1 PROVE c.value.text = texts[i]
    <3>1. PICK j \in DOMAIN m : c.index = j - 1 /\ c.value = m[j].value BY <1>6
    <3>2. i = j
      <4>1. j \in Nat /\ i - 1 = j - 1 BY <1>2, <2>1, <3>1
      <4> QED BY <4>1
    <3> QED BY <3>1, <3>2
  <2>2. texts = [i \in 1..Len(m) |-> texts[i]] BY <1>2
  <2> HIDE DEF texts, chunks
  <2>3. Joined(chunks) = FlattenSeq([i \in 1..Cardinality(chunks) |-> texts[i]])
    BY <1>3, <1>5, <2>1, JoinedIs
  <2> QED BY <1>5, <2>2, <2>3 DEF Whole, texts
<1> HIDE DEF chunks, meta
<1>11. decode_chunks(base, chunks) = cloud_init_diagnostic(base, meta, Joined(chunks))
  <2>1. ~ \E c \in chunks : c.value.meta.msg_i # format(c.index) BY <1>7
  <2> QED BY <1>3, <1>9, <2>1, Zenon DEF decode_chunks
<1>12. Read(pool, base) = Reported(m)
  <2>1. Read(pool, base) = decode_chunks(base, chunks) BY <1>2, Zenon DEF Read, decode_group, chunks, M
  <2> QED BY <1>10, <1>11, <2>1, Zenon DEF Reported, meta
<1>13. PICK at : Stands(entries, pool, at) BY <1>1, AnswerStands
<1>14. Reported(m).ok BY MessageMeans
<1> HIDE DEF base
<1> QED BY <1>1, <1>3, <1>12, <1>13, <1>14, ReadIsDecoded DEF M

LEMMA CloudInitIsReadHere ==
    ASSUME SeqInv, MessageInv
    PROVE  CloudInitIsRead
<1> SUFFICES ASSUME NEW m \in Messages, ToSet(m) \subseteq ToSet(pool)
             PROVE  \E d \in Decoded :
                      /\ d.agent = "CLOUD_INIT" /\ d.name = m[1].key[4]
                      /\ d.payload.of = IF IsEnvelope(Whole(m)) THEN Whole(m)[1].of ELSE Whole(m)
  BY DEF CloudInitIsRead
<1>1. Reported(m).of \in Decoded
  <2>1. CASE MessageAlone(m)
    <3>1. 1 \in DOMAIN m BY MessageRecords
    <3>2. m[1] \in ToSet(m) BY <3>1 DEF ToSet
    <3>3. PICK p \in DOMAIN pool : pool[p] = m[1] BY <3>2 DEF ToSet
    <3> QED BY <2>1, <3>3, AloneIsRead
  <2>2. CASE MessageGroup(m) BY <2>2, GroupIsRead
  <2> QED BY <2>1, <2>2, MessageIs
<1> QED BY <1>1, MessageMeans

(* What is written is read in full while its records are there. *)
THEOREM WrittenAreRead == Spec => []WrittenIsRead
<1>1. SeqInv /\ CallInv => EmittedIsRead BY EmittedIsReadHere
<1>2. SeqInv /\ MessageInv => CloudInitIsRead BY CloudInitIsReadHere
<1>3. RecordsFit /\ EmittedIsRead /\ CloudInitIsRead => WrittenIsRead BY DEF WrittenIsRead
<1> QED BY <1>1, <1>2, <1>3, PoolIsRead, CallsAreFrames, WrittenRecordsFit, MessagesAreSent, PTL

-----------------------------------------------------------------------------
(* The order of the calls. *)

(* pos tells where the first record of each call is. *)
OrderAt(pl, calls, pos) ==
    /\ pos \in [DOMAIN calls -> DOMAIN pl]
    /\ \A i, j \in DOMAIN calls : i < j => pos[i] < pos[j]
    /\ \A i \in DOMAIN calls : pl[pos[i]].key = FirstOf(calls[i])
    /\ \A p \in DOMAIN pl : Own(pl[p]) =>
          \E i \in DOMAIN calls : Front(pl[p].key) = Front(FirstOf(calls[i])) /\ pos[i] <= p

LEMMA OrderInvIs == OrderInv <=> (deletes = 0 => \E pos : OrderAt(pool, emitted, pos))
BY Zenon DEF OrderInv, OrderAt, First, FirstOf

(* The records of the calls stay where they are while others come behind    *)
(* them or a report is overwritten.                                        *)
LEMMA OrderStays ==
    ASSUME IsSeq(pool), NEW pos, OrderAt(pool, emitted, pos)
    PROVE  /\ \A t : \A n \in Nat : Grows(t, n) /\ (\A k \in 1..n : ~Own(t[k])) =>
                 OrderAt(pool', emitted, pos)
           /\ Stays => OrderAt(pool', emitted, pos)
<1>1. /\ pos \in [DOMAIN emitted -> DOMAIN pool]
      /\ \A i, j \in DOMAIN emitted : i < j => pos[i] < pos[j]
      /\ \A i \in DOMAIN emitted : pool[pos[i]].key = FirstOf(emitted[i])
      /\ \A p \in DOMAIN pool : Own(pool[p]) =>
            \E i \in DOMAIN emitted : Front(pool[p].key) = Front(FirstOf(emitted[i])) /\ pos[i] <= p
  BY Zenon DEF OrderAt
<1>2. ASSUME DOMAIN pool \subseteq DOMAIN pool',
             \A p \in DOMAIN pool : pool'[p].key = pool[p].key,
             \A p \in DOMAIN pool' : Own(pool'[p]) => p \in DOMAIN pool /\ Own(pool[p])
      PROVE  OrderAt(pool', emitted, pos)
  <2>1. pos \in [DOMAIN emitted -> DOMAIN pool'] BY <1>1, <1>2
  <2>2. \A i \in DOMAIN emitted : pool'[pos[i]].key = FirstOf(emitted[i]) BY <1>1, <1>2
  <2>3. \A p \in DOMAIN pool' : Own(pool'[p]) =>
            \E i \in DOMAIN emitted : Front(pool'[p].key) = Front(FirstOf(emitted[i])) /\ pos[i] <= p
    BY <1>1, <1>2
  <2> QED BY <1>1, <2>1, <2>2, <2>3, Zenon DEF OrderAt
<1>3. ASSUME NEW t, NEW n \in Nat, Grows(t, n), \A k \in 1..n : ~Own(t[k])
      PROVE  OrderAt(pool', emitted, pos)
  <2>1. /\ DOMAIN pool \subseteq DOMAIN pool'
        /\ \A p \in DOMAIN pool : pool'[p] = pool[p]
        /\ \A k \in 1..n : pool'[Len(pool) + k] = t[k]
        /\ \A p \in DOMAIN pool' : p \in DOMAIN pool \/ \E k \in 1..n : p = Len(pool) + k
    BY <1>3, GrownFrom
  <2>2. \A p \in DOMAIN pool' : Own(pool'[p]) => p \in DOMAIN pool BY <1>3, <2>1
  <2> QED BY <1>2, <2>1, <2>2
<1>4. ASSUME Stays PROVE OrderAt(pool', emitted, pos)
  <2>1. /\ DOMAIN pool' = DOMAIN pool
        /\ \A p \in DOMAIN pool : /\ pool'[p].key = pool[p].key
                                  /\ pool'[p] = pool[p] \/ pool'[p].key = ReportKey
    BY <1>4, StaysFrom
  <2>2. \A p \in DOMAIN pool : Own(pool'[p]) => pool'[p].key # ReportKey BY ReportPlace DEF Own
  <2> QED BY <1>2, <2>1, <2>2
<1> QED BY <1>3, <1>4

LEMMA OrderNext == SeqInv /\ SeqInv' /\ CallInv /\ OrderInv /\ [Next]_vars => OrderInv'
<1> SUFFICES ASSUME SeqInv, SeqInv', CallInv, OrderInv, [Next]_vars, deletes' = 0
             PROVE  \E pos : OrderAt(pool', emitted', pos)
  <2>1. (OrderInv <=> (deletes = 0 => \E pos : OrderAt(pool, emitted, pos)))' BY OrderInvIs, PTL
  <2> QED BY <2>1, Zenon DEF OrderAt
<1>1. IsSeq(pool) /\ clock \in 0..MaxClock /\ deletes \in Nat BY DEF SeqInv
<1>2. ASSUME deletes' = deletes PROVE \E pos : OrderAt(pool, emitted, pos)
  BY <1>2, OrderInvIs
<1>3. ASSUME NEW d, NEW n, Emitting(d, n) PROVE \E pos : OrderAt(pool', emitted', pos)
  <2> DEFINE l == Len(emitted) + 1
             e == emitted'[l]
             s == Len(pool) + 1
             b == Base(d, clock)
  <2>1. /\ DOMAIN emitted = 1..Len(emitted) /\ Len(emitted) \in Nat
        /\ \A i \in DOMAIN emitted : i \in DOMAIN emitted' /\ emitted'[i] = emitted[i]
        /\ \A i \in DOMAIN emitted' : i \in DOMAIN emitted \/ i = l
        /\ l \in DOMAIN emitted'
        /\ n \in 1..Len(e.records) /\ n \in Nat /\ Grows(e.records, n) /\ deletes' = deletes
        /\ \E cut : Frames(e, clock, cut) /\ e.d = d
    BY <1>3, EmittingFrom, Zenon
  <2>2. PICK cut : Frames(e, clock, cut) /\ e.d = d BY <2>1
  <2>3. PICK pos : OrderAt(pool, emitted, pos) BY <1>2, <2>1
  <2>4. /\ pos \in [DOMAIN emitted -> DOMAIN pool]
        /\ \A i, j \in DOMAIN emitted : i < j => pos[i] < pos[j]
        /\ \A i \in DOMAIN emitted : pool[pos[i]].key = FirstOf(emitted[i])
        /\ \A p \in DOMAIN pool : Own(pool[p]) =>
              \E i \in DOMAIN emitted : Front(pool[p].key) = Front(FirstOf(emitted[i])) /\ pos[i] <= p
    BY <2>3, Zenon DEF OrderAt
  <2>5. /\ Len(pool) \in Nat /\ DOMAIN pool = 1..Len(pool)
        /\ DOMAIN pool \subseteq DOMAIN pool' /\ \A p \in DOMAIN pool : pool'[p] = pool[p]
        /\ \A k \in 1..n : Len(pool) + k \in DOMAIN pool' /\ pool'[Len(pool) + k] = e.records[k]
        /\ \A p \in DOMAIN pool' : p \in DOMAIN pool \/ \E k \in 1..n : p = Len(pool) + k
    <3> DEFINE t == e.records
    <3>1. IsSeq(pool) /\ n \in Nat /\ Grows(t, n) BY <1>1, <2>1
    <3> HIDE DEF e, t
    <3>2. /\ Len(pool) \in Nat /\ DOMAIN pool = 1..Len(pool)
          /\ DOMAIN pool \subseteq DOMAIN pool' /\ \A p \in DOMAIN pool : pool'[p] = pool[p]
          /\ \A k \in 1..n : Len(pool) + k \in DOMAIN pool' /\ pool'[Len(pool) + k] = t[k]
          /\ \A p \in DOMAIN pool' : p \in DOMAIN pool \/ \E k \in 1..n : p = Len(pool) + k
      BY <3>1, GrownFrom
    <3> QED BY <3>2 DEF t
  <2>6. 1 \in 1..n /\ \A k \in 1..n : k \in DOMAIN e.records
    <3> DEFINE c == Len(e.records)
    <3>1. DOMAIN e.records = 1..c /\ c \in 1..Largest /\ n \in 1..c BY <2>1, <2>2, Zenon DEF Frames
    <3> HIDE DEF c
    <3> QED BY <3>1
  <2>7. \A k \in 1..n : Front(e.records[k].key) = b
    <3>1. \A k \in DOMAIN e.records : IsChunk(e.records[k], Base(e.d, clock), k - 1)
      BY <1>1, <2>2, FramePlace, Zenon
    <3> QED BY <2>2, <2>6, <3>1, Zenon DEF IsChunk
  <2>8. Front(FirstOf(e)) = b BY <2>6, <2>7 DEF FirstOf
  <2> DEFINE q == [i \in DOMAIN emitted' |-> IF i \in DOMAIN emitted THEN pos[i] ELSE s]
  <2>9. s \in DOMAIN pool' /\ pool'[s] = e.records[1] BY <2>5, <2>6
  <2>10. l \notin DOMAIN emitted BY <2>1
  <2>11. (\A i \in DOMAIN emitted : q[i] = pos[i]) /\ q[l] = s BY <2>1, <2>10
  <2>12. \A i \in DOMAIN emitted : pos[i] \in DOMAIN pool /\ pos[i] < s BY <2>4, <2>5
  <2>13. q \in [DOMAIN emitted' -> DOMAIN pool'] BY <2>5, <2>9, <2>12
  <2> HIDE DEF q, e, b
  <2>14. \A i, j \in DOMAIN emitted' : i < j => q[i] < q[j]
    <3> SUFFICES ASSUME NEW i \in DOMAIN emitted', NEW j \in DOMAIN emitted', i < j
                 PROVE  q[i] < q[j]
      OBVIOUS
    <3>1. i \in DOMAIN emitted
      <4>1. i = l => j \in DOMAIN emitted BY <2>1
      <4>2. i # l BY <2>1, <4>1
      <4> QED BY <2>1, <4>2
    <3>2. CASE j \in DOMAIN emitted BY <2>4, <2>11, <3>1, <3>2
    <3>3. CASE j = l BY <2>11, <2>12, <3>1, <3>3
    <3> QED BY <2>1, <3>2, <3>3
  <2>15. \A i \in DOMAIN emitted' : pool'[q[i]].key = FirstOf(emitted'[i])
    <3> SUFFICES ASSUME NEW i \in DOMAIN emitted' PROVE pool'[q[i]].key = FirstOf(emitted'[i])
      OBVIOUS
    <3>1. CASE i \in DOMAIN emitted BY <2>1, <2>4, <2>5, <2>11, <2>12, <3>1
    <3>2. CASE i = l BY <2>9, <2>11, <3>2 DEF FirstOf, e
    <3> QED BY <2>1, <3>1, <3>2
  <2>16. ASSUME NEW p \in DOMAIN pool', Own(pool'[p])
         PROVE  \E i \in DOMAIN emitted' : Front(pool'[p].key) = Front(FirstOf(emitted'[i])) /\ q[i] <= p
    <3>1. CASE p \in DOMAIN pool
      <4>1. PICK i \in DOMAIN emitted : Front(pool[p].key) = Front(FirstOf(emitted[i])) /\ pos[i] <= p
        BY <2>4, <2>5, <2>16, <3>1
      <4> QED BY <2>1, <2>5, <2>11, <3>1, <4>1
    <3>2. CASE \E k \in 1..n : p = Len(pool) + k
      <4>1. PICK k \in 1..n : p = Len(pool) + k BY <3>2
      <4>2. Front(pool'[p].key) = b BY <2>5, <2>7, <4>1
      <4>3. s <= p BY <2>1, <2>5, <4>1
      <4> QED BY <2>1, <2>8, <2>11, <4>2, <4>3 DEF e
    <3> QED BY <2>5, <3>1, <3>2
  <2>17. OrderAt(pool', emitted', q) BY <2>13, <2>14, <2>15, <2>16, Zenon DEF OrderAt
  <2> QED BY <2>17
<1>4. ASSUME NEW m, Sending(m) PROVE \E pos : OrderAt(pool', emitted', pos)
  <2>1. /\ m \in Messages /\ sent[m] < Len(m) /\ Grows(<<m[sent[m] + 1]>>, 1)
        /\ emitted' = emitted /\ deletes' = deletes
    BY <1>4, Zenon DEF Sending
  <2>2. sent[m] \in Nat BY <2>1 DEF SeqInv
  <2>3. Len(m) \in Nat \ {0} /\ DOMAIN m = 1..Len(m) BY <2>1, MessageRecords
  <2>4. sent[m] + 1 \in DOMAIN m BY <2>1, <2>2, <2>3
  <2>5. ~Own(m[sent[m] + 1]) BY <2>1, <2>4, MessageRecords
  <2>6. PICK pos : OrderAt(pool, emitted, pos) BY <1>2, <2>1
  <2>7. \A k \in 1..1 : ~Own(<<m[sent[m] + 1]>>[k])
    <3>1. \A k \in 1..1 : k = 1 OBVIOUS
    <3> QED BY <2>5, <3>1
  <2>8. 1 \in Nat OBVIOUS
  <2>9. OrderAt(pool', emitted, pos) BY <1>1, <2>1, <2>6, <2>7, <2>8, OrderStays, Zenon
  <2> QED BY <2>1, <2>9
<1>5. ASSUME NEW r, Foreign(r) PROVE \E pos : OrderAt(pool', emitted', pos)
  <2>1. Grows(<<r>>, 1) /\ emitted' = emitted /\ deletes' = deletes BY <1>5, Zenon DEF Foreign
  <2>2. ~Own(r) BY <1>5, ForeignPlace
  <2>3. PICK pos : OrderAt(pool, emitted, pos) BY <1>2, <2>1
  <2>4. \A k \in 1..1 : ~Own(<<r>>[k])
    <3>1. \A k \in 1..1 : k = 1 OBVIOUS
    <3> QED BY <2>2, <3>1
  <2>5. 1 \in Nat OBVIOUS
  <2>6. OrderAt(pool', emitted, pos) BY <1>1, <2>1, <2>3, <2>4, <2>5, OrderStays, Zenon
  <2> QED BY <2>1, <2>6
<1>6. ASSUME NEW gone, Removing(gone) PROVE FALSE
  <2>1. deletes' = deletes + 1 BY <1>6, Zenon DEF Removing
  <2> QED BY <1>1, <2>1
<1>7. ASSUME Overwriting \/ Ticking PROVE \E pos : OrderAt(pool', emitted', pos)
  <2>1. Stays /\ emitted' = emitted /\ deletes' = deletes BY <1>7, Zenon DEF Overwriting, Ticking
  <2>2. PICK pos : OrderAt(pool, emitted, pos) BY <1>2, <2>1
  <2>3. OrderAt(pool', emitted, pos) BY <1>1, <2>1, <2>2, OrderStays, Zenon
  <2> QED BY <2>1, <2>3
<1> QED BY <1>3, <1>4, <1>5, <1>6, <1>7, StepShapes

LEMMA OrderInit == Init => OrderInv
<1> SUFFICES ASSUME Init PROVE \E pos : OrderAt(pool, emitted, pos) BY OrderInvIs
<1>1. pool = <<>> /\ emitted = <<>> BY DEF Init
<1>2. DOMAIN pool = {} /\ DOMAIN emitted = {} BY <1>1
<1>3. \E pos : pos \in [DOMAIN emitted -> DOMAIN pool]
  <2>1. [i \in {} |-> 0] \in [{} -> {}] OBVIOUS
  <2> QED BY <1>2, <2>1
<1>4. PICK pos : pos \in [DOMAIN emitted -> DOMAIN pool] BY <1>3
<1>5. OrderAt(pool, emitted, pos) BY <1>2, <1>4 DEF OrderAt
<1> QED BY <1>5

(* While nothing was removed, the first records of the calls are in the     *)
(* order of the calls.                                                     *)
THEOREM CallsInOrder == Spec => []OrderInv
BY OrderInit, OrderNext, PoolIsRead, CallsAreFrames, PTL DEF Spec

(* A diagnostic the reader returns for a call comes from the group of its   *)
(* base key.                                                               *)
LEMMA MeantBase ==
    ASSUME SeqInv, NEW e, NEW now, NEW cut, Frames(e, now, cut),
           NEW p \in DOMAIN pool, NEW base, Place(pool[p]).as = "chunk", base = Place(pool[p]).base,
           Read(pool, base).ok, Read(pool, base).of = InFull(e)
    PROVE  base = Base(e.d, now)
<1> DEFINE b == Base(e.d, now)
           chunks == Chunks(pool, Members(pool, base))
           payload == decode_payload(Joined(chunks), base[8]).payload
           d == Diagnostic(base[4], base[2], base[3], base[5], base[6], base[7], base[8],
                           payload, base[9], base[10])
<1>1. /\ e.d \in Emissions /\ now \in 0..clock /\ clock \in 0..MaxClock
      /\ Len(e.records) \in 1..Largest /\ DOMAIN e.records = 1..Len(e.records)
      /\ \A q \in DOMAIN pool : IsSeq(pool[q].key)
  BY Zenon DEF SeqInv, Frames
<1>2. now \in 0..MaxClock BY <1>1, EmissionsAssumption
<1>3. /\ b[2] = Agent /\ b[3] = VmId /\ b[4] = e.d.kind /\ b[5] = e.d.name
      /\ b[6] = e.d.id /\ b[8] = e.d.encoding
      /\ b = <<"DIAG", b[2], b[3], b[4], b[5], b[6], b[7], b[8], b[9], b[10]>>
  BY <1>1, <1>2, BaseFacts
<1>4. b = Front(e.records[1].key)
  <2> DEFINE l == Len(e.records)
  <2>1. l \in 1..Largest BY <1>1
  <2> HIDE DEF l
  <2>2. 1 \in 1..l BY <2>1
  <2> QED BY <2>2, Zenon DEF Frames, IsChunk, l
<1>5. InFull(e).agent = Agent BY DEF InFull, Meant, Diagnostic
<1>6. base = Front(pool[p].key) /\ base[1] \in {"DIAG", "CLOUD_INIT"} /\ Len(pool[p].key) > 1
      /\ IsSeq(pool[p].key)
  BY <1>1, PlaceFacts
<1> HIDE DEF b
<1>7. base[1] = "DIAG"
  <2>1. Covers(base, InFull(e)) BY <1>6, ReadCovers
  <2>2. Agent # "CLOUD_INIT" BY IdentityAssumption
  <2> QED BY <1>5, <1>6, <2>1, <2>2 DEF Covers
<1>8. Read(pool, base) = decode_diag_group(base, chunks)
  <2>1. base[1] # "CLOUD_INIT" BY <1>7
  <2> QED BY <2>1, Zenon DEF Read, decode_group
<1>9. DiagKeyOk(base) /\ InFull(e) = d
  <2>1. decode_diag_group(base, chunks).ok BY <1>8
  <2>2. \A x : Ok(x).of = x BY DEF Ok
  <2>3. decode_diag_group(base, chunks).of = InFull(e) BY <1>8
  <2> HIDE DEF chunks
  <2> QED BY <2>1, <2>2, <2>3, DiagGroup, Zenon
<1>10. Len(base) = 10 BY <1>9, Zenon DEF DiagKeyOk
<1>11. base = <<base[1], base[2], base[3], base[4], base[5], base[6], base[7], base[8], base[9], base[10]>>
  <2>1. PICK S : pool[p].key \in Seq(S) BY <1>6 DEF IsSeq
  <2> DEFINE key == pool[p].key
             n == Len(key) - 1
  <2>2. Front(key) = SubSeq(key, 1, n) BY DEF Front
  <2>3. Len(key) \in Nat /\ n \in Nat /\ n <= Len(key) BY <1>6, <2>1
  <2> HIDE DEF n
  <2>4. SubSeq(key, 1, n) \in Seq(S) BY <2>1, <2>3
  <2>5. base \in Seq(S) BY <1>6, <2>2, <2>4
  <2> HIDE DEF key
  <2> QED BY <1>10, <2>5
<1>12. /\ b[4] = base[4] /\ b[2] = base[2] /\ b[3] = base[3] /\ b[5] = base[5] /\ b[6] = base[6]
       /\ b[7] = base[7] /\ b[8] = base[8] /\ b[9] = base[9] /\ b[10] = base[10]
  <2> DEFINE x == InFull(e)
  <2>1. /\ x.kind = e.d.kind /\ x.agent = Agent /\ x.vm_id = VmId /\ x.name = e.d.name
        /\ x.id = e.d.id /\ x.ts = b[7] /\ x.encoding = e.d.encoding
        /\ x.result = b[9] /\ x.duration = b[10]
    BY <1>4 DEF InFull, Meant, Diagnostic
  <2> HIDE DEF x, payload
  <2>2. x = d BY <1>9 DEF x
  <2>3. /\ d.kind = base[4] /\ d.agent = base[2] /\ d.vm_id = base[3] /\ d.name = base[5]
        /\ d.id = base[6] /\ d.ts = base[7] /\ d.encoding = base[8]
        /\ d.result = base[9] /\ d.duration = base[10]
    BY DEF Diagnostic
  <2> HIDE DEF d
  <2> QED BY <1>3, <2>1, <2>2, <2>3
<1>13. base = <<"DIAG", b[2], b[3], b[4], b[5], b[6], b[7], b[8], b[9], b[10]>>
  <2>1. base = <<"DIAG", base[2], base[3], base[4], base[5], base[6], base[7], base[8], base[9], base[10]>>
    BY <1>7, <1>11
  <2> QED BY <1>12, <2>1
<1>14. base = b BY <1>3, <1>13
<1> QED BY <1>14 DEF b

(* While nothing was removed, the diagnostic of a call stands where the     *)
(* call's first record is.                                                 *)
LEMMA FoundAt ==
    ASSUME SeqInv, CallInv, NEW pos, OrderAt(pool, emitted, pos),
           NEW at, Stands(entries, pool, at), NEW i \in DOMAIN emitted,
           NEW n \in DOMAIN entries, entries[n].is = "diagnostic", entries[n].of = InFull(emitted[i])
    PROVE  at[n] = pos[i]
<1> DEFINE e == emitted[i]
           p == at[n]
           base == Place(pool[p]).base
           M == Members(pool, base)
           K == Append(base, format(0))
<1>1. IsSeq(pool) /\ clock \in 0..MaxClock BY DEF SeqInv
<1>2. PICK now, cut : Frames(e, now, cut) BY <1>1, CallsFrame
<1>3. entries[n].of.agent # "CLOUD_INIT"
  <2>1. InFull(e).agent = Agent BY DEF InFull, Meant, Diagnostic
  <2>2. Agent # "CLOUD_INIT" BY IdentityAssumption
  <2> QED BY <2>1, <2>2
<1>4. /\ p \in M /\ Read(pool, base).ok /\ entries[n].of = Read(pool, base).of
      /\ \A j \in M : p <= j
  BY <1>3, DiagnosticFrom
<1>5. M \in SUBSET DOMAIN pool /\ Place(pool[p]).as = "chunk" BY <1>4 DEF Members
<1> HIDE DEF M, e
<1>6. base = Base(e.d, now)
  <2>1. Read(pool, base).of = InFull(e) BY <1>4 DEF e
  <2>2. p \in DOMAIN pool BY <1>4, <1>5
  <2> HIDE DEF p
  <2> QED BY <1>2, <1>4, <1>5, <2>1, <2>2, MeantBase DEF p
<1>7. /\ FirstOf(e) = K /\ \A r : r.key = K => IsChunk(r, base, 0)
  BY <1>1, <1>2, <1>6, FirstKey, Zenon
<1>8. /\ pos[i] \in DOMAIN pool /\ pool[pos[i]].key = FirstOf(emitted[i])
      /\ \A j, k \in DOMAIN emitted : j < k => pos[j] < pos[k]
      /\ \A q \in DOMAIN pool : Own(pool[q]) =>
            \E j \in DOMAIN emitted : Front(pool[q].key) = Front(FirstOf(emitted[j])) /\ pos[j] <= q
      /\ \A j \in DOMAIN emitted : pos[j] \in DOMAIN pool /\ pool[pos[j]].key = FirstOf(emitted[j])
  BY DEF OrderAt
<1>9. ASSUME NEW q \in DOMAIN pool, pool[q].key = K PROVE q \in M /\ Unsigned(Last(pool[q].key)) = 0
  <2>1. IsChunk(pool[q], base, 0) BY <1>7, <1>9
  <2>2. q \in M BY <2>1, Zenon DEF IsChunk, M, Members
  <2>3. Last(pool[q].key) = format(0) BY <2>1, Zenon DEF IsChunk
  <2>4. 0 \in 0..Largest BY LargestFacts
  <2> QED BY <2>2, <2>3, <2>4, Numerals
<1>10. ChunkError(Chunks(pool, M)) = "none"
  <2>1. base[1] \in {"DIAG", "CLOUD_INIT"}
    <3>1. e.d \in Emissions /\ now \in 0..clock BY <1>2, Zenon DEF Frames
    <3>2. now \in 0..MaxClock BY <1>1, <3>1, EmissionsAssumption
    <3>3. Base(e.d, now)[1] = "DIAG" BY <3>1, <3>2, BaseFacts
    <3> QED BY <1>6, <3>3
  <2> HIDE DEF base
  <2> QED BY <1>4, <2>1, ReadCovers DEF M
<1>11. Own(pool[p])
  <2>1. e.d \in Emissions /\ now \in 0..clock BY <1>2, Zenon DEF Frames
  <2>2. now \in 0..MaxClock BY <1>1, <2>1, EmissionsAssumption
  <2>3. Base(e.d, now)[1] = "DIAG" /\ Base(e.d, now)[2] = Agent BY <2>1, <2>2, BaseFacts
  <2> QED BY <1>5, <1>6, <2>3 DEF Own
<1>12. PICK j \in DOMAIN emitted : Front(pool[p].key) = Front(FirstOf(emitted[j])) /\ pos[j] <= p
  BY <1>4, <1>5, <1>8, <1>11
<1>13. FirstOf(emitted[j]) = K
  <2>1. PICK now1, cut1 : Frames(emitted[j], now1, cut1) BY <1>1, CallsFrame
  <2>2. /\ FirstOf(emitted[j]) = Append(Base(emitted[j].d, now1), format(0))
        /\ \A r : r.key = FirstOf(emitted[j]) => IsChunk(r, Base(emitted[j].d, now1), 0)
    BY <1>1, <2>1, FirstKey, Zenon
  <2>3. Front(FirstOf(emitted[j])) = Base(emitted[j].d, now1)
    <3>1. emitted[j].records[1].key = FirstOf(emitted[j]) BY DEF FirstOf
    <3> QED BY <2>2, <3>1, Zenon DEF IsChunk
  <2>4. Front(pool[p].key) = base
    <3>1. p \in DOMAIN pool /\ IsSeq(pool[p].key) BY <1>4, <1>5 DEF SeqInv
    <3> QED BY <1>5, <3>1, PlaceFacts
  <2> QED BY <1>12, <2>2, <2>3, <2>4
<1> HIDE DEF base, p, K
<1>14. pos[i] \in M /\ pos[j] \in M /\ pos[i] = pos[j]
  <2>1. pos[i] \in M /\ Unsigned(Last(pool[pos[i]].key)) = 0 BY <1>7, <1>8, <1>9 DEF e
  <2>2. pos[j] \in M /\ Unsigned(Last(pool[pos[j]].key)) = 0 BY <1>8, <1>9, <1>13
  <2> QED BY <1>1, <1>5, <1>10, <2>1, <2>2, MembersOnce
<1>15. p <= pos[i] /\ pos[i] <= p BY <1>4, <1>12, <1>14
<1>16. p \in Nat /\ pos[i] \in Nat
  <2>1. DOMAIN pool = 1..Len(pool) /\ Len(pool) \in Nat BY <1>1, SeqFacts
  <2> QED BY <1>4, <1>5, <1>14, <2>1
<1> QED BY <1>15, <1>16 DEF p

LEMMA ReadInOrderHere ==
    ASSUME SeqInv, CallInv, OrderInv
    PROVE  ReadInOrder
<1> DEFINE found == {i \in DOMAIN emitted : InFull(emitted[i]) \in Decoded}
           isAt(i, n) == entries[n].is = "diagnostic" /\ entries[n].of = InFull(emitted[i])
           position(i) == CHOOSE n \in DOMAIN entries : isAt(i, n)
<1> SUFFICES ASSUME deletes = 0, NEW i \in found, NEW j \in found, i < j
             PROVE  position(i) < position(j)
  BY Zenon DEF ReadInOrder
<1>1. IsSeq(pool) /\ entries = decode_entries(pool) BY DEF SeqInv
<1>2. PICK at : Stands(entries, pool, at) BY <1>1, AnswerStands
<1>3. PICK pos : OrderAt(pool, emitted, pos) BY OrderInvIs
<1>4. ASSUME NEW k \in found
      PROVE  position(k) \in DOMAIN entries /\ isAt(k, position(k))
  <2>1. InFull(emitted[k]) \in Decoded OBVIOUS
  <2>2. \E n \in DOMAIN entries : isAt(k, n) BY <2>1 DEF Decoded
  <2> HIDE DEF isAt
  <2> QED BY <2>2
<1> HIDE DEF position
<1>5. ASSUME NEW k \in found PROVE at[position(k)] = pos[k]
  <2>1. k \in DOMAIN emitted OBVIOUS
  <2> QED BY <1>2, <1>3, <1>4, <2>1, FoundAt
<1>6. pos[i] < pos[j] /\ pos[i] \in Nat /\ pos[j] \in Nat
  <2>1. DOMAIN pool = 1..Len(pool) /\ Len(pool) \in Nat BY <1>1, SeqFacts
  <2> QED BY <1>3, <2>1 DEF OrderAt
<1>7. at[position(i)] < at[position(j)] BY <1>5, <1>6
<1>8. /\ DOMAIN entries = 1..Len(entries) /\ Len(entries) \in Nat
      /\ \A k, l \in 1..Len(entries) : k < l => at[k] < at[l]
  BY <1>2, SeqFacts DEF Stands
<1>9. position(i) \in 1..Len(entries) /\ position(j) \in 1..Len(entries) BY <1>4, <1>8
<1>10. ~(position(j) < position(i))
  <2>1. position(j) < position(i) => at[position(j)] < at[position(i)] BY <1>8, <1>9
  <2> QED BY <1>5, <1>6, <1>7, <2>1
<1>11. position(j) # position(i) BY <1>5, <1>6, <1>7
<1> QED BY <1>8, <1>9, <1>10, <1>11

(* What is read stands for the whole pool, record by record and in order. *)
THEOREM EntriesAreThePool == Spec => []EntriesStandForPool
<1>1. SeqInv /\ CallInv /\ OrderInv => ReadInOrder BY ReadInOrderHere
<1>2. NothingLost /\ ReadInOrder => EntriesStandForPool BY DEF EntriesStandForPool
<1> QED BY <1>1, <1>2, PoolIsRead, CallsAreFrames, CallsInOrder, NothingIsLost, PTL
=============================================================================
