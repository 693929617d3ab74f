--------------------------- MODULE Boundary_proofs ---------------------------
(* Theorems about Boundary, for lists of any length, any number of tasks   *)
(* and any number of saves at a time.                                      *)
EXTENDS Boundary, SequenceTheorems, WellFoundedInduction, TLAPS

USE MaxItemsIsPositive, MaxIdsIsNatural, MaxSavesIsPositive

-----------------------------------------------------------------------------
(* Induction.  It is stated over sets, not over operators: a set of        *)
(* numbers, or of sequences, is a term the provers can be given.           *)

LEMMA SmallestNat ==
  ASSUME NEW S, S \subseteq Nat, S # {}
  PROVE  \E m \in S : \A n \in S : m <= n
<1> DEFINE R == OpToRel(<, Nat)
<1>1. IsWellFoundedOn(R, Nat)
  BY NatLessThanWellFounded
<1> HIDE DEF R
<1>2. PICK m \in S : \A n \in S : ~(<<n, m>> \in R)
  BY <1>1, WFMin
<1>3. \A n \in S : <<n, m>> \in R <=> n < m
  BY DEF R, OpToRel
<1>4. \A n \in S : ~(n < m)
  BY <1>2, <1>3
<1>5. m \in Nat /\ \A n \in S : n \in Nat
  OBVIOUS
<1> QED BY <1>4, <1>5

LEMMA Induction ==
  ASSUME NEW S, 0 \in S, \A n \in Nat : n \in S => n + 1 \in S
  PROVE  \A n \in Nat : n \in S
<1> SUFFICES ASSUME Nat \ S # {} PROVE FALSE
  OBVIOUS
<1>1. PICK m \in Nat \ S : \A n \in Nat \ S : m <= n
  BY SmallestNat
<1>2. m # 0
  OBVIOUS
<1>3. m - 1 \in Nat /\ m - 1 < m /\ (m - 1) + 1 = m
  BY <1>2
<1>4. m - 1 \in S
  BY <1>1, <1>3
<1> QED BY <1>3, <1>4

LEMMA SeqInduction ==
  ASSUME NEW S, NEW P, <<>> \in P,
         \A s \in Seq(S), e \in S : s \in P => Append(s, e) \in P
  PROVE  \A s \in Seq(S) : s \in P
<1> DEFINE N == {n \in Nat : \A s \in Seq(S) : Len(s) = n => s \in P}
<1>1. 0 \in N
  <2>1. \A s \in Seq(S) : Len(s) = 0 => s = <<>>
    BY EmptySeq
  <2> QED BY <2>1
<1>2. ASSUME NEW n \in Nat, n \in N PROVE n + 1 \in N
  <2> SUFFICES ASSUME NEW s \in Seq(S), Len(s) = n + 1 PROVE s \in P
    OBVIOUS
  <2>1. s # <<>>
    BY EmptySeq
  <2>2. PICK t \in Seq(S), e \in S : s = Append(t, e)
    BY <2>1, SequenceEmptyOrAppend
  <2>3. Len(t) = n
    BY <2>2, LenProperties, AppendProperties
  <2>4. t \in P
    BY <1>2, <2>3
  <2> QED BY <2>2, <2>4
<1> HIDE DEF N
<1>3. \A n \in Nat : n \in N
  BY <1>1, <1>2, Induction
<1>4. \A s \in Seq(S) : Len(s) \in N
  BY <1>3, LenProperties
<1> QED BY <1>4 DEF N

-----------------------------------------------------------------------------
(* What Kept computes.                                                     *)

(* One step of the recursion in Kept.                                      *)
Next1(list, ids, f, i) ==
  IF i = 0 THEN <<>>
  ELSE IF list[i] \in ids THEN Append(f[i - 1], list[i]) ELSE f[i - 1]

LEMMA RecursionIsDefined ==
  ASSUME NEW list, NEW ids
  PROVE  \A n \in Nat : \E f : f = [i \in 0..n |-> Next1(list, ids, f, i)]
<1> DEFINE S == {n \in Nat : \E f : f = [i \in 0..n |-> Next1(list, ids, f, i)]}
<1>1. 0 \in S
  <2> DEFINE g == [i \in 0..0 |-> <<>>]
  <2>1. \A i \in 0..0 : Next1(list, ids, g, i) = <<>>
    BY DEF Next1
  <2>2. g = [i \in 0..0 |-> Next1(list, ids, g, i)]
    BY <2>1
  <2> QED BY <2>2
<1>2. ASSUME NEW n \in Nat, n \in S PROVE n + 1 \in S
  <2>1. PICK g : g = [i \in 0..n |-> Next1(list, ids, g, i)]
    BY <1>2
  <2> DEFINE h == [i \in 0..(n + 1) |-> IF i = n + 1 THEN Next1(list, ids, g, i) ELSE g[i]]
  <2>2. /\ \A i \in 0..n : h[i] = g[i]
        /\ h[n + 1] = Next1(list, ids, g, n + 1)
        /\ h = [i \in 0..(n + 1) |-> h[i]]
    OBVIOUS
  <2> HIDE DEF h
  <2>3. \A i \in 0..(n + 1) : Next1(list, ids, h, i) = Next1(list, ids, g, i)
    <3>1. \A i \in 0..(n + 1) : i # 0 => i - 1 \in 0..n
      OBVIOUS
    <3> QED BY <2>2, <3>1 DEF Next1
  <2>4. \A i \in 0..n : g[i] = Next1(list, ids, g, i)
    BY <2>1
  <2>5. \A i \in 0..(n + 1) : h[i] = Next1(list, ids, h, i)
    <3>1. \A i \in 0..(n + 1) : i = n + 1 \/ i \in 0..n
      OBVIOUS
    <3> QED BY <2>2, <2>3, <2>4, <3>1
  <2>6. h = [i \in 0..(n + 1) |-> Next1(list, ids, h, i)]
    BY <2>2, <2>5
  <2> QED BY <2>6
<1> HIDE DEF S
<1>3. \A n \in Nat : n \in S
  BY <1>1, <1>2, Induction
<1> QED BY <1>3 DEF S

LEMMA KeptByPrefix ==
  ASSUME NEW list, NEW ids, Len(list) \in Nat
  PROVE  \E f : /\ \A i \in 0..Len(list) : f[i] = Next1(list, ids, f, i)
                /\ Kept(list, ids) = f[Len(list)]
<1> DEFINE F == CHOOSE f : f = [i \in 0..Len(list) |->
                  IF i = 0 THEN <<>>
                  ELSE IF list[i] \in ids THEN Append(f[i - 1], list[i]) ELSE f[i - 1]]
<1>1. Kept(list, ids) = F[Len(list)]
  BY Zenon DEF Kept
<1>2. \E f : f = [i \in 0..Len(list) |-> Next1(list, ids, f, i)]
  BY RecursionIsDefined
<1>3. \E f : f = [i \in 0..Len(list) |->
               IF i = 0 THEN <<>>
               ELSE IF list[i] \in ids THEN Append(f[i - 1], list[i]) ELSE f[i - 1]]
  BY <1>2, Zenon DEF Next1
<1>4. F = [i \in 0..Len(list) |->
             IF i = 0 THEN <<>>
             ELSE IF list[i] \in ids THEN Append(F[i - 1], list[i]) ELSE F[i - 1]]
  BY <1>3, Zenon
<1>5. F = [i \in 0..Len(list) |-> Next1(list, ids, F, i)]
  BY <1>4, Zenon DEF Next1
<1> HIDE DEF F
<1>6. \A i \in 0..Len(list) : F[i] = Next1(list, ids, F, i)
  BY <1>5
<1> QED BY <1>1, <1>6

LEMMA KeptEmpty == \A ids : Kept(<<>>, ids) = <<>>
<1> TAKE ids
<1>1. Len(<<>>) = 0
  OBVIOUS
<1>2. PICK f : /\ \A i \in 0..Len(<<>>) : f[i] = Next1(<<>>, ids, f, i)
               /\ Kept(<<>>, ids) = f[Len(<<>>)]
  BY <1>1, KeptByPrefix
<1>3. f[0] = Next1(<<>>, ids, f, 0)
  BY <1>1, <1>2
<1> QED BY <1>1, <1>2, <1>3 DEF Next1

LEMMA KeptAppend ==
  ASSUME NEW S, NEW s \in Seq(S), NEW e \in S, NEW ids
  PROVE  Kept(Append(s, e), ids) = IF e \in ids THEN Append(Kept(s, ids), e) ELSE Kept(s, ids)
<1> DEFINE t == Append(s, e)
<1>1. /\ Len(s) \in Nat /\ Len(t) = Len(s) + 1 /\ Len(t) \in Nat
      /\ \A i \in 1..Len(s) : t[i] = s[i]
      /\ t[Len(s) + 1] = e
  BY LenProperties, AppendProperties
<1> HIDE DEF t
<1>2. PICK f : /\ \A i \in 0..Len(s) : f[i] = Next1(s, ids, f, i)
               /\ Kept(s, ids) = f[Len(s)]
  BY <1>1, KeptByPrefix
<1>3. PICK g : /\ \A i \in 0..Len(t) : g[i] = Next1(t, ids, g, i)
               /\ Kept(t, ids) = g[Len(t)]
  BY <1>1, KeptByPrefix
<1> DEFINE N == {n \in Nat : n <= Len(s) => g[n] = f[n]}
<1>4. 0 \in N
  <2>1. f[0] = Next1(s, ids, f, 0) /\ g[0] = Next1(t, ids, g, 0)
    BY <1>1, <1>2, <1>3
  <2> QED BY <2>1 DEF Next1
<1>5. ASSUME NEW n \in Nat, n \in N PROVE n + 1 \in N
  <2> SUFFICES ASSUME n + 1 <= Len(s) PROVE g[n + 1] = f[n + 1]
    OBVIOUS
  <2>1. /\ n + 1 \in 0..Len(s) /\ n + 1 \in 0..Len(t) /\ n + 1 \in 1..Len(s)
        /\ n <= Len(s) /\ n + 1 # 0 /\ (n + 1) - 1 = n
    BY <1>1
  <2>2. f[n + 1] = Next1(s, ids, f, n + 1) /\ g[n + 1] = Next1(t, ids, g, n + 1)
    BY <1>2, <1>3, <2>1
  <2>3. t[n + 1] = s[n + 1] /\ g[n] = f[n]
    BY <1>1, <1>5, <2>1
  <2> HIDE DEF N
  <2> QED BY <2>1, <2>2, <2>3 DEF Next1
<1>6. g[Len(s)] = f[Len(s)]
  <2> HIDE DEF N
  <2>1. Len(s) \in N
    BY <1>1, <1>4, <1>5, Induction
  <2> QED BY <1>1, <2>1 DEF N
<1>7. g[Len(t)] = IF e \in ids THEN Append(g[Len(s)], e) ELSE g[Len(s)]
  <2>1. Len(t) \in 0..Len(t) /\ Len(t) # 0 /\ Len(t) - 1 = Len(s) /\ t[Len(t)] = e
    BY <1>1
  <2>2. g[Len(t)] = Next1(t, ids, g, Len(t))
    BY <1>3, <2>1
  <2> QED BY <2>1, <2>2 DEF Next1
<1> QED BY <1>2, <1>3, <1>6, <1>7 DEF t

LEMMA KeptType ==
  ASSUME NEW S, NEW ids
  PROVE  \A s \in Seq(S) : Kept(s, ids) \in Seq(S)
<1> DEFINE P == {s \in Seq(S) : Kept(s, ids) \in Seq(S)}
<1>1. <<>> \in P
  BY KeptEmpty, EmptySeq
<1>2. ASSUME NEW s \in Seq(S), NEW e \in S, s \in P PROVE Append(s, e) \in P
  <2>1. Kept(Append(s, e), ids) = IF e \in ids THEN Append(Kept(s, ids), e) ELSE Kept(s, ids)
    BY KeptAppend
  <2>2. Kept(s, ids) \in Seq(S)
    BY <1>2
  <2>3. Append(Kept(s, ids), e) \in Seq(S) /\ Append(s, e) \in Seq(S)
    BY <2>2, AppendProperties
  <2> QED BY <2>1, <2>2, <2>3
<1> HIDE DEF P
<1>3. \A s \in Seq(S) : s \in P
  BY <1>1, <1>2, SeqInduction
<1> QED BY <1>3 DEF P

LEMMA KeptConcat ==
  ASSUME NEW S, NEW ids, NEW s \in Seq(S)
  PROVE  \A t \in Seq(S) : Kept(s \o t, ids) = Kept(s, ids) \o Kept(t, ids)
<1> DEFINE P == {t \in Seq(S) : Kept(s \o t, ids) = Kept(s, ids) \o Kept(t, ids)}
<1>1. <<>> \in P
  <2>1. Kept(s, ids) \in Seq(S)
    BY KeptType
  <2>2. s \o <<>> = s /\ Kept(s, ids) \o <<>> = Kept(s, ids)
    BY <2>1, ConcatEmptySeq
  <2> QED BY <2>2, KeptEmpty, EmptySeq
<1>2. ASSUME NEW t \in Seq(S), NEW e \in S, t \in P PROVE Append(t, e) \in P
  <2> DEFINE k == Kept(s, ids)
             l == Kept(t, ids)
  <2>1. k \in Seq(S) /\ l \in Seq(S)
    BY KeptType
  <2>2. Kept(s \o t, ids) = k \o l
    BY <1>2
  <2>3. Kept(Append(t, e), ids) = IF e \in ids THEN Append(l, e) ELSE l
    BY KeptAppend
  <2> HIDE DEF k, l
  <2>4. \A u, v \in Seq(S) : u \o v \in Seq(S) /\ u \o Append(v, e) = Append(u \o v, e)
    <3> TAKE u, v \in Seq(S)
    <3>1. u \o v \in Seq(S) /\ <<e>> \in Seq(S)
      BY ConcatProperties
    <3>2. Append(v, e) = v \o <<e>> /\ Append(u \o v, e) = (u \o v) \o <<e>>
      BY <3>1, AppendIsConcat
    <3>3. (u \o v) \o <<e>> = u \o (v \o <<e>>)
      BY <3>1, ConcatAssociative
    <3> QED BY <3>1, <3>2, <3>3
  <2>5. s \o Append(t, e) = Append(s \o t, e) /\ s \o t \in Seq(S)
    BY <2>4
  <2>6. Kept(s \o Append(t, e), ids) = IF e \in ids THEN Append(k \o l, e) ELSE k \o l
    <3> DEFINE st == s \o t
    <3>1. st \in Seq(S) /\ s \o Append(t, e) = Append(st, e) /\ Kept(st, ids) = k \o l
      BY <2>2, <2>5
    <3> HIDE DEF st
    <3>2. Kept(Append(st, e), ids) = IF e \in ids THEN Append(Kept(st, ids), e) ELSE Kept(st, ids)
      BY <3>1, KeptAppend
    <3> QED BY <3>1, <3>2
  <2>7. k \o Append(l, e) = Append(k \o l, e)
    BY <2>1, <2>4
  <2>8. Kept(s \o Append(t, e), ids) = k \o Kept(Append(t, e), ids)
    BY <2>3, <2>6, <2>7
  <2>9. Append(t, e) \in Seq(S)
    BY AppendProperties
  <2> QED BY <2>8, <2>9 DEF k
<1> HIDE DEF P
<1>3. \A t \in Seq(S) : t \in P
  BY <1>1, <1>2, SeqInduction
<1> QED BY <1>3 DEF P

LEMMA KeptTwice ==
  ASSUME NEW S, NEW A, NEW B
  PROVE  \A s \in Seq(S) : Kept(Kept(s, A), B) = Kept(s, A \cap B)
<1> DEFINE P == {s \in Seq(S) : Kept(Kept(s, A), B) = Kept(s, A \cap B)}
<1>1. <<>> \in P
  BY KeptEmpty, EmptySeq
<1>2. ASSUME NEW s \in Seq(S), NEW e \in S, s \in P PROVE Append(s, e) \in P
  <2>1. Kept(s, A) \in Seq(S) /\ Append(s, e) \in Seq(S)
    BY KeptType, AppendProperties
  <2>2. Kept(Append(s, e), A) = IF e \in A THEN Append(Kept(s, A), e) ELSE Kept(s, A)
    BY KeptAppend
  <2>3. Kept(Append(s, e), A \cap B)
          = IF e \in A \cap B THEN Append(Kept(s, A \cap B), e) ELSE Kept(s, A \cap B)
    BY KeptAppend
  <2>4. Kept(Append(Kept(s, A), e), B)
          = IF e \in B THEN Append(Kept(Kept(s, A), B), e) ELSE Kept(Kept(s, A), B)
    BY <2>1, KeptAppend
  <2>5. Kept(Kept(s, A), B) = Kept(s, A \cap B)
    BY <1>2
  <2>6. CASE e \in A
    <3>1. Kept(Append(s, e), A) = Append(Kept(s, A), e) /\ (e \in A \cap B <=> e \in B)
      BY <2>2, <2>6
    <3> DEFINE k == Kept(Kept(s, A), B)
               C == A \cap B
    <3>2. Kept(Append(Kept(s, A), e), B) = IF e \in B THEN Append(k, e) ELSE k
      BY <2>4
    <3>3. Kept(Append(s, e), C) = IF e \in B THEN Append(k, e) ELSE k
      BY <2>3, <2>5, <3>1
    <3> QED BY <2>1, <3>1, <3>2, <3>3
  <2>7. CASE e \notin A
    <3>1. Kept(Append(s, e), A) = Kept(s, A)
      BY <2>2, <2>7
    <3>2. Kept(Append(s, e), A \cap B) = Kept(s, A \cap B)
      BY <2>3, <2>7
    <3>3. Kept(Kept(Append(s, e), A), B) = Kept(Append(s, e), A \cap B)
      BY <2>5, <3>1, <3>2
    <3> QED BY <2>1, <3>3
  <2> QED BY <2>6, <2>7
<1> HIDE DEF P
<1>3. \A s \in Seq(S) : s \in P
  BY <1>1, <1>2, SeqInduction
<1> QED BY <1>3 DEF P

(* Only the elements that are there matter.                                *)
LEMMA KeptAgree ==
  ASSUME NEW S, NEW A, NEW B
  PROVE  \A s \in Seq(S) :
           (\A i \in 1..Len(s) : s[i] \in A <=> s[i] \in B) => Kept(s, A) = Kept(s, B)
<1> DEFINE P == {s \in Seq(S) :
           (\A i \in 1..Len(s) : s[i] \in A <=> s[i] \in B) => Kept(s, A) = Kept(s, B)}
<1>1. <<>> \in P
  BY KeptEmpty, EmptySeq
<1>2. ASSUME NEW s \in Seq(S), NEW e \in S, s \in P PROVE Append(s, e) \in P
  <2>1. /\ Append(s, e) \in Seq(S) /\ Len(Append(s, e)) = Len(s) + 1 /\ Len(s) \in Nat
        /\ \A i \in 1..Len(s) : Append(s, e)[i] = s[i]
        /\ Append(s, e)[Len(s) + 1] = e
    BY AppendProperties, LenProperties
  <2> SUFFICES ASSUME \A i \in 1..Len(Append(s, e)) :
                        Append(s, e)[i] \in A <=> Append(s, e)[i] \in B
               PROVE  Kept(Append(s, e), A) = Kept(Append(s, e), B)
    BY <2>1
  <2>2. \A i \in 1..Len(s) : s[i] \in A <=> s[i] \in B
    BY <2>1
  <2>3. e \in A <=> e \in B
    BY <2>1
  <2>4. Kept(s, A) = Kept(s, B)
    BY <1>2, <2>2
  <2>5. /\ Kept(Append(s, e), A) = IF e \in A THEN Append(Kept(s, A), e) ELSE Kept(s, A)
        /\ Kept(Append(s, e), B) = IF e \in B THEN Append(Kept(s, B), e) ELSE Kept(s, B)
    BY KeptAppend
  <2> QED BY <2>3, <2>4, <2>5
<1> HIDE DEF P
<1>3. \A s \in Seq(S) : s \in P
  BY <1>1, <1>2, SeqInduction
<1> QED BY <1>3 DEF P

LEMMA KeptNothing ==
  ASSUME NEW S
  PROVE  \A s \in Seq(S) : Kept(s, {}) = <<>>
<1> DEFINE P == {s \in Seq(S) : Kept(s, {}) = <<>>}
<1>1. <<>> \in P
  BY KeptEmpty, EmptySeq
<1>2. ASSUME NEW s \in Seq(S), NEW e \in S, s \in P PROVE Append(s, e) \in P
  BY <1>2, KeptAppend, AppendProperties
<1> HIDE DEF P
<1>3. \A s \in Seq(S) : s \in P
  BY <1>1, <1>2, SeqInduction
<1> QED BY <1>3 DEF P

(* A task that is in a list is kept by a set it is in.                     *)
LEMMA KeptSome ==
  ASSUME NEW S, NEW A
  PROVE  \A s \in Seq(S) : (\E i \in 1..Len(s) : s[i] \in A) => Kept(s, A) # <<>>
<1> DEFINE P == {s \in Seq(S) : (\E i \in 1..Len(s) : s[i] \in A) => Kept(s, A) # <<>>}
<1>1. <<>> \in P
  BY EmptySeq
<1>2. ASSUME NEW s \in Seq(S), NEW e \in S, s \in P PROVE Append(s, e) \in P
  <2>1. /\ Append(s, e) \in Seq(S) /\ Len(Append(s, e)) = Len(s) + 1 /\ Len(s) \in Nat
        /\ \A i \in 1..Len(s) : Append(s, e)[i] = s[i]
        /\ Append(s, e)[Len(s) + 1] = e
    BY AppendProperties, LenProperties
  <2> SUFFICES ASSUME NEW i \in 1..Len(Append(s, e)), Append(s, e)[i] \in A
               PROVE  Kept(Append(s, e), A) # <<>>
    BY <2>1
  <2>2. Kept(Append(s, e), A) = IF e \in A THEN Append(Kept(s, A), e) ELSE Kept(s, A)
    BY KeptAppend
  <2>3. CASE e \in A
    <3>1. Kept(s, A) \in Seq(S)
      BY KeptType
    <3> QED BY <2>2, <2>3, <3>1, AppendProperties
  <2>4. CASE e \notin A
    <3>1. i \in 1..Len(s) /\ s[i] \in A
      BY <2>1, <2>4
    <3> QED BY <1>2, <2>2, <2>4, <3>1
  <2> QED BY <2>3, <2>4
<1> HIDE DEF P
<1>3. \A s \in Seq(S) : s \in P
  BY <1>1, <1>2, SeqInduction
<1> QED BY <1>3 DEF P

(* Fit drops a beginning of the list and nothing else.                     *)
LEMMA FitIsSuffix ==
  ASSUME NEW S, NEW s \in Seq(S), NEW e \in S
  PROVE  \E pre, rest \in Seq(S) : s = pre \o rest /\ Fit(Append(s, e)) = Append(rest, e)
<1> DEFINE n == Len(s)
           t == Append(s, e)
           m == n + 1 - MaxItems + 1
<1>1. /\ n \in Nat /\ t \in Seq(S) /\ Len(t) = n + 1
      /\ \A i \in 1..n : t[i] = s[i] /\ s[i] \in S
      /\ t[n + 1] = e
  BY LenProperties, AppendProperties, ElementOfSeq
<1>2. CASE Len(t) <= MaxItems
  <2>1. Fit(t) = t
    BY <1>1, <1>2 DEF Fit
  <2>2. <<>> \in Seq(S) /\ <<>> \o s = s
    BY EmptySeq, ConcatEmptySeq
  <2> QED BY <2>1, <2>2
<1>3. CASE Len(t) > MaxItems
  <2>1. Fit(t) = SubSeq(t, m, n + 1)
    BY <1>1, <1>3 DEF Fit
  <2>2. m \in 2..(n + 1) /\ n + 1 \in m..Len(t)
    BY <1>1, <1>3
  <2> HIDE DEF m, t
  <2> DEFINE pre == SubSeq(s, 1, m - 1)
             rest == SubSeq(s, m, n)
  <2>3. pre \o rest = s
    <3>1. m - 1 \in 0..n /\ (m - 1) + 1 = m /\ 1 \in 1..(n + 1) /\ 0 = 1 - 1 /\ n \in (m - 1)..n
      BY <1>1, <2>2
    <3>2. SubSeq(s, 1, m - 1) \o SubSeq(s, (m - 1) + 1, n) = SubSeq(s, 1, n)
      BY <3>1, ConcatAdjacentSubSeq
    <3> QED BY <3>1, <3>2, SubSeqFull
  <2>4. pre \in Seq(S)
    <3>1. m - 1 \in Int /\ 1 \in Int /\ \A i \in 1..(m - 1) : s[i] \in S
      BY <1>1, <2>2
    <3> QED BY <3>1, SubSeqProperties
  <2>5. /\ rest \in Seq(S) /\ Len(rest) = n - m + 1
        /\ \A i \in 1..(n - m + 1) : rest[i] = s[m + i - 1]
    <3>1. m \in Int /\ n \in Int /\ \A i \in m..n : s[i] \in S
      BY <1>1, <2>2
    <3>2. /\ rest \in Seq(S) /\ Len(rest) = IF m <= n THEN n - m + 1 ELSE 0
          /\ \A i \in 1..(n - m + 1) : rest[i] = s[m + i - 1]
      BY <3>1, SubSeqProperties
    <3>3. m <= n \/ n - m + 1 = 0
      BY <1>1, <2>2
    <3> QED BY <3>2, <3>3
  <2>6. /\ SubSeq(t, m, n + 1) \in Seq(S) /\ Len(SubSeq(t, m, n + 1)) = n - m + 2
        /\ \A i \in 1..(n - m + 2) : SubSeq(t, m, n + 1)[i] = t[m + i - 1]
    <3>1. m \in Int /\ n + 1 \in Int /\ m <= n + 1 /\ \A i \in m..(n + 1) : t[i] \in S
      BY <1>1, <2>2
    <3>2. /\ SubSeq(t, m, n + 1) \in Seq(S)
          /\ Len(SubSeq(t, m, n + 1)) = IF m <= n + 1 THEN (n + 1) - m + 1 ELSE 0
          /\ \A i \in 1..((n + 1) - m + 1) : SubSeq(t, m, n + 1)[i] = t[m + i - 1]
      BY <3>1, SubSeqProperties
    <3>3. (n + 1) - m + 1 = n - m + 2
      BY <1>1, <2>2
    <3> QED BY <3>1, <3>2, <3>3
  <2> HIDE DEF pre, rest
  <2>7. Append(rest, e) = SubSeq(t, m, n + 1)
    <3> DEFINE a == Append(rest, e)
               u == SubSeq(t, m, n + 1)
    <3>1. /\ a \in Seq(S) /\ Len(a) = n - m + 2
          /\ \A i \in 1..(n - m + 1) : a[i] = rest[i]
          /\ a[n - m + 2] = e
      <4>1. /\ a \in Seq(S) /\ Len(a) = Len(rest) + 1
            /\ \A i \in 1..Len(rest) : a[i] = rest[i]
            /\ a[Len(rest) + 1] = e
        BY <2>5, AppendProperties
      <4>2. (n - m + 1) + 1 = n - m + 2
        BY <1>1, <2>2
      <4> QED BY <2>5, <4>1, <4>2
    <3>2. \A i \in 1..(n - m + 2) : u[i] = t[m + i - 1]
      BY <2>6
    <3> HIDE DEF a, u
    <3>3. ASSUME NEW i \in 1..(n - m + 2) PROVE a[i] = u[i]
      <4>1. CASE i = n - m + 2
        <5>1. m + i - 1 = n + 1
          BY <1>1, <2>2, <4>1
        <5> QED BY <1>1, <3>1, <3>2, <4>1, <5>1
      <4>2. CASE i # n - m + 2
        <5>1. i \in 1..(n - m + 1) /\ m + i - 1 \in 1..n
          BY <1>1, <2>2, <4>2
        <5> QED BY <1>1, <2>5, <3>1, <3>2, <5>1
      <4> QED BY <4>1, <4>2
    <3>4. u \in Seq(S) /\ Len(u) = n - m + 2
      BY <2>6 DEF u
    <3>5. a = u
      BY <3>1, <3>3, <3>4, SeqEqual
    <3> QED BY <3>5 DEF a, u
  <2>8. rest \in Seq(S)
    BY <2>5
  <2>9. Fit(t) = Append(rest, e)
    BY <2>1, <2>7
  <2> QED BY <2>3, <2>4, <2>8, <2>9 DEF t
<1>4. Len(t) \in Nat /\ MaxItems \in Nat
  BY <1>1
<1> QED BY <1>2, <1>3, <1>4

LEMMA FitType ==
  ASSUME NEW S, NEW s \in Seq(S), NEW e \in S
  PROVE  /\ Fit(Append(s, e)) \in Seq(S)
         /\ Only(Fit(Append(s, e)), e) # <<>>
<1>1. PICK pre, rest \in Seq(S) : s = pre \o rest /\ Fit(Append(s, e)) = Append(rest, e)
  BY FitIsSuffix
<1>2. Append(rest, e) \in Seq(S)
  BY AppendProperties
<1>3. Kept(Append(rest, e), {e}) = Append(Kept(rest, {e}), e)
  <2> DEFINE B == {e}
  <2>1. e \in B
    OBVIOUS
  <2> HIDE DEF B
  <2>2. Kept(Append(rest, e), B) = IF e \in B THEN Append(Kept(rest, B), e) ELSE Kept(rest, B)
    BY KeptAppend
  <2> QED BY <2>1, <2>2 DEF B
<1>4. Kept(rest, {e}) \in Seq(S)
  BY KeptType
<1>5. Append(Kept(rest, {e}), e) # <<>>
  BY <1>4, AppendProperties
<1> QED BY <1>1, <1>2, <1>3, <1>5 DEF Only

(* A set none of whose tasks a Fit changed sees the same list.             *)
LEMMA FitAgree ==
  ASSUME NEW S, NEW s \in Seq(S), NEW e \in S, NEW A, e \notin A,
         \A d \in A \cap S : Only(s, d) = Only(Fit(Append(s, e)), d)
  PROVE  Kept(s, A) = Kept(Fit(Append(s, e)), A)
<1>1. PICK pre, rest \in Seq(S) : s = pre \o rest /\ Fit(Append(s, e)) = Append(rest, e)
  BY FitIsSuffix
<1>2. ASSUME NEW B PROVE Kept(s, B) = Kept(pre, B) \o Kept(rest, B)
  <2>1. Kept(pre \o rest, B) = Kept(pre, B) \o Kept(rest, B)
    BY KeptConcat
  <2> QED BY <1>1, <2>1
<1>3. Kept(Append(rest, e), A) = Kept(rest, A)
  BY KeptAppend
<1>4. ASSUME NEW d, d # e PROVE Only(Append(rest, e), d) = Only(rest, d)
  <2>1. e \notin {d}
    BY <1>4
  <2> QED BY <2>1, KeptAppend DEF Only
<1>5. ASSUME NEW d \in A \cap S PROVE Only(pre, d) = <<>>
  <2>1. d # e
    BY <1>5
  <2>2. Only(pre, d) \o Only(rest, d) = Only(rest, d)
    <3>1. Only(s, d) = Only(pre, d) \o Only(rest, d)
      BY <1>2 DEF Only
    <3>2. Only(s, d) = Only(Append(rest, e), d)
      BY <1>1, <1>5
    <3> QED BY <1>4, <2>1, <3>1, <3>2
  <2>3. Only(pre, d) \in Seq(S) /\ Only(rest, d) \in Seq(S)
    BY KeptType DEF Only
  <2> QED BY <2>2, <2>3, ConcatEqualIffEmpty
<1>6. \A i \in 1..Len(pre) : pre[i] \notin A
  <2> SUFFICES ASSUME NEW i \in 1..Len(pre), pre[i] \in A PROVE FALSE
    OBVIOUS
  <2>1. pre[i] \in A \cap S
    BY ElementOfSeq
  <2>2. Only(pre, pre[i]) = <<>>
    BY <1>5, <2>1
  <2>3. \E j \in 1..Len(pre) : pre[j] \in {pre[i]}
    OBVIOUS
  <2>4. Kept(pre, {pre[i]}) # <<>>
    BY <2>3, KeptSome
  <2> QED BY <2>2, <2>4 DEF Only
<1>7. Kept(pre, A) = <<>>
  <2>1. \A i \in 1..Len(pre) : pre[i] \in A <=> pre[i] \in {}
    BY <1>6
  <2>2. Kept(pre, A) = Kept(pre, {})
    BY <2>1, KeptAgree
  <2> QED BY <2>2, KeptNothing
<1>8. Kept(rest, A) \in Seq(S)
  BY KeptType
<1>9. Kept(s, A) = Kept(rest, A)
  BY <1>2, <1>7, <1>8, ConcatEmptySeq
<1> QED BY <1>1, <1>3, <1>9

-----------------------------------------------------------------------------
(* The invariant.                                                          *)

TypeInv ==
  /\ lastId \in 0..MaxIds
  /\ lists \in [Buckets -> Seq(1..lastId)]
  /\ stored \in [Buckets -> Seq(1..lastId)]
  /\ saves \in [Steps -> Nat]
  /\ moved \subseteq 1..lastId /\ adopted \subseteq 1..lastId
  /\ typed \in BOOLEAN /\ draft \in BOOLEAN /\ legacy \in BOOLEAN
  /\ open \in BOOLEAN /\ loaded \in BOOLEAN

\* The steps that a save which has not written the list yet may wait at.
UpTo(b) ==
  CASE b = "my" -> {"my"} [] b = "other" -> {"my", "other"}
    [] b = "pending" -> {"my", "other", "pending"}

\* Before the load a save comes to its second step and no further.
FewStepsBeforeTheLoad ==
  ~loaded => saves["pending"] = 0 /\ saves["legacy"] = 0 /\ saves["draft"] = 0

\* While saves run, a list that no save is still to write is stored.
WrittenIsStored ==
  loaded /\ saves # NoSaves =>
    \A b \in Buckets : (\A s \in UpTo(b) : saves[s] = 0) => stored[b] = lists[b]

IInv == TypeInv /\ FewStepsBeforeTheLoad /\ WrittenIsStored /\ OthersAreStored

\* A step makes no difference to the tasks that it does not move.
ChangeAgrees ==
  \A b \in Buckets : Kept(lists[b], Ids \ moved') = Kept(lists'[b], Ids \ moved')

LEMMA SeqGrows ==
  ASSUME NEW m \in Nat, NEW n \in Nat, m <= n
  PROVE  Seq(1..m) \subseteq Seq(1..n)
<1> SUFFICES ASSUME NEW s \in Seq(1..m) PROVE s \in Seq(1..n)
  OBVIOUS
<1>1. Len(s) \in Nat /\ s \in [1..Len(s) -> 1..m]
  BY LenProperties
<1>2. s \in [1..Len(s) -> 1..n]
  BY <1>1
<1> QED BY <1>1, <1>2

LEMMA ChangeIs ==
  ASSUME NEW new, Change(new)
  PROVE  /\ lists' = new /\ saves' = Begun(saves)
         /\ moved' = moved \cup {id \in 1..lastId' :
                        \E b \in Buckets : Only(lists[b], id) # Only(lists'[b], id)}
         /\ stored' = stored /\ draft' = draft /\ legacy' = legacy
         /\ open' = open /\ loaded' = loaded /\ adopted' = adopted
<1>1. lists' = new /\ saves' = Begun(saves) /\ moved' = moved \cup Touched(new)
  BY DEF Change, Save
<1>2. moved' = moved \cup Touched(lists')
  BY <1>1
<1>3. UNCHANGED <<preferences, open, loaded, adopted>>
  BY DEF Change
<1> QED BY <1>1, <1>2, <1>3 DEF Touched, preferences

LEMMA BegunSaves ==
  ASSUME saves \in [Steps -> Nat], saves' = Begun(saves)
  PROVE  /\ saves' \in [Steps -> Nat]
         /\ saves'["my"] # 0
         /\ \A s \in Steps \ {"my"} : saves'[s] = saves[s]
BY DEF Begun, Steps

(* A change that starts a save keeps the invariant if it moves the tasks   *)
(* that it touches, and no others.                                         *)
LEMMA ChangeStep ==
  ASSUME IInv, NEW new, Change(new), typed' \in BOOLEAN,
         lastId' \in lastId..MaxIds, lists' \in [Buckets -> Seq(1..lastId')], ChangeAgrees
  PROVE  IInv'
<1>1. /\ saves' = Begun(saves)
      /\ moved' = moved \cup {id \in 1..lastId' :
                     \E b \in Buckets : Only(lists[b], id) # Only(lists'[b], id)}
      /\ stored' = stored /\ draft' = draft /\ legacy' = legacy
      /\ open' = open /\ loaded' = loaded /\ adopted' = adopted
  BY ChangeIs
<1>2. lastId \in Nat /\ lastId' \in Nat /\ lastId <= lastId' /\ lastId' <= MaxIds
  BY DEF IInv, TypeInv
<1>3. /\ saves' \in [Steps -> Nat] /\ saves'["my"] # 0
      /\ \A s \in Steps \ {"my"} : saves'[s] = saves[s]
  BY <1>1, BegunSaves DEF IInv, TypeInv
<1>4. TypeInv'
  <2>1. Seq(1..lastId) \subseteq Seq(1..lastId')
    BY <1>2, SeqGrows
  <2>2. stored' \in [Buckets -> Seq(1..lastId')]
    BY <1>1, <2>1 DEF IInv, TypeInv
  <2>3. moved \subseteq 1..lastId' /\ adopted \subseteq 1..lastId'
    BY <1>2 DEF IInv, TypeInv
  <2>4. moved' \subseteq 1..lastId' /\ adopted' \subseteq 1..lastId'
    BY <1>1, <2>3
  <2>5. /\ draft' \in BOOLEAN /\ legacy' \in BOOLEAN
        /\ open' \in BOOLEAN /\ loaded' \in BOOLEAN
    BY <1>1 DEF IInv, TypeInv
  <2>6. lastId' \in 0..MaxIds
    BY <1>2
  <2> QED BY <1>3, <2>2, <2>4, <2>5, <2>6 DEF TypeInv
<1>5. FewStepsBeforeTheLoad'
  <2>1. /\ saves'["pending"] = saves["pending"] /\ saves'["legacy"] = saves["legacy"]
        /\ saves'["draft"] = saves["draft"]
    BY <1>3 DEF Steps
  <2> QED BY <1>1, <2>1 DEF IInv, FewStepsBeforeTheLoad
<1>6. WrittenIsStored'
  <2>1. \A b \in Buckets : "my" \in UpTo(b)
    BY DEF UpTo, Buckets
  <2>2. ~ \E b \in Buckets : \A s \in UpTo(b) : saves'[s] = 0
    BY <1>3, <2>1
  <2> QED BY <2>2 DEF WrittenIsStored
<1>7. OthersAreStored'
  <2> SUFFICES ASSUME loaded', NEW b \in Buckets
               PROVE  Kept(stored'[b], Ids \ Unstored(b)') = Kept(lists'[b], Ids \ Unstored(b)')
    BY DEF OthersAreStored, Others
  <2> DEFINE U == Unstored(b)
             V == Unstored(b)'
             M == moved'
             S == 1..lastId
  <2>1. U \subseteq V /\ M \subseteq V
    BY <1>1 DEF Unstored
  <2>2. Kept(stored[b], Ids \ U) = Kept(lists[b], Ids \ U)
    BY <1>1 DEF IInv, OthersAreStored, Others
  <2>3. stored[b] \in Seq(S) /\ lists[b] \in Seq(S)
    BY DEF IInv, TypeInv
  <2>4. Kept(lists[b], Ids \ M) = Kept(lists'[b], Ids \ M)
    BY DEF ChangeAgrees
  <2>5. lists'[b] \in Seq(1..lastId')
    OBVIOUS
  <2> HIDE DEF U, V, M, S
  <2>6. (Ids \ U) \cap (Ids \ V) = Ids \ V /\ (Ids \ M) \cap (Ids \ V) = Ids \ V
    BY <2>1
  <2>7. /\ Kept(Kept(stored[b], Ids \ U), Ids \ V) = Kept(stored[b], (Ids \ U) \cap (Ids \ V))
        /\ Kept(Kept(lists[b], Ids \ U), Ids \ V) = Kept(lists[b], (Ids \ U) \cap (Ids \ V))
        /\ Kept(Kept(lists[b], Ids \ M), Ids \ V) = Kept(lists[b], (Ids \ M) \cap (Ids \ V))
    <3>1. \A A, B : \A t \in Seq(S) : Kept(Kept(t, A), B) = Kept(t, A \cap B)
      BY KeptTwice
    <3> QED BY <2>3, <3>1
  <2>8. Kept(Kept(lists'[b], Ids \ M), Ids \ V) = Kept(lists'[b], (Ids \ M) \cap (Ids \ V))
    BY <2>5, KeptTwice
  <2>9. Kept(stored[b], Ids \ V) = Kept(lists[b], Ids \ V)
    BY <2>2, <2>6, <2>7
  <2>10. Kept(lists[b], Ids \ V) = Kept(lists'[b], Ids \ V)
    BY <2>4, <2>6, <2>7, <2>8
  <2> QED BY <1>1, <2>9, <2>10 DEF V
<1> QED BY <1>4, <1>5, <1>6, <1>7 DEF IInv

-----------------------------------------------------------------------------
(* The operations.                                                         *)

(* A task that is not in a list is kept out of what is kept of it.         *)
LEMMA NewIsNotThere ==
  ASSUME NEW n \in Nat, NEW s \in Seq(1..n)
  PROVE  Only(s, n + 1) = <<>>
<1>1. \A i \in 1..Len(s) : s[i] \in 1..n
  BY ElementOfSeq
<1>2. \A i \in 1..Len(s) : s[i] \in {n + 1} <=> s[i] \in {}
  BY <1>1
<1>3. Kept(s, {n + 1}) = Kept(s, {})
  BY <1>2, KeptAgree
<1> QED BY <1>3, KeptNothing DEF Only

LEMMA ThereIsKept ==
  ASSUME NEW S, NEW s \in Seq(S), NEW id, \E i \in DOMAIN s : s[i] = id
  PROVE  Only(s, id) # <<>> /\ id \in S
<1>1. DOMAIN s = 1..Len(s)
  BY LenProperties
<1>2. PICK i \in 1..Len(s) : s[i] = id
  BY <1>1
<1>3. id \in S
  BY <1>2, ElementOfSeq
<1>4. \E j \in 1..Len(s) : s[j] \in {id}
  BY <1>2
<1>5. Kept(s, {id}) # <<>>
  BY <1>4, KeptSome
<1> QED BY <1>3, <1>5 DEF Only

LEMMA WithoutIt ==
  ASSUME NEW S, NEW s \in Seq(S), NEW id \in Ids
  PROVE  /\ Without(s, id) \in Seq(S)
         /\ Only(Without(s, id), id) = <<>>
         /\ \A M : id \in M => Kept(s, Ids \ M) = Kept(Without(s, id), Ids \ M)
<1>1. Without(s, id) \in Seq(S)
  BY KeptType DEF Without
<1>2. \A A : Kept(Without(s, id), A) = Kept(s, (Ids \ {id}) \cap A)
  BY KeptTwice DEF Without
<1>3. (Ids \ {id}) \cap {id} = {}
  OBVIOUS
<1>4. Only(Without(s, id), id) = <<>>
  BY <1>2, <1>3, KeptNothing DEF Only
<1>5. ASSUME NEW M, id \in M PROVE Kept(s, Ids \ M) = Kept(Without(s, id), Ids \ M)
  <2>1. (Ids \ {id}) \cap (Ids \ M) = Ids \ M
    BY <1>5
  <2> QED BY <1>2, <2>1
<1> QED BY <1>1, <1>4, <1>5

LEMMA UntouchedOrMoved ==
  ASSUME NEW new, Change(new), NEW d \in 1..lastId', NEW b \in Buckets
  PROVE  /\ d \notin moved' => Only(lists[b], d) = Only(lists'[b], d)
         /\ Only(lists[b], d) # Only(lists'[b], d) => d \in moved'
<1>1. moved' = moved \cup {id \in 1..lastId' :
                 \E c \in Buckets : Only(lists[c], id) # Only(lists'[c], id)}
  BY ChangeIs
<1> QED BY <1>1

(* A list that gets a task, which may push the oldest ones out.            *)
LEMMA AppendAgrees ==
  ASSUME NEW new, Change(new), NEW b \in Buckets, lastId' \in Nat,
         lists[b] \in Seq(1..lastId'), NEW e \in 1..lastId', e \in moved',
         lists'[b] = Fit(Append(lists[b], e))
  PROVE  /\ lists'[b] \in Seq(1..lastId')
         /\ Kept(lists[b], Ids \ moved') = Kept(lists'[b], Ids \ moved')
<1> DEFINE S == 1..lastId'
           A == Ids \ moved'
<1>1. \A d \in A \cap S : Only(lists[b], d) = Only(lists'[b], d)
  BY UntouchedOrMoved
<1>2. e \notin A /\ e \in S /\ lists[b] \in Seq(S)
  OBVIOUS
<1> HIDE DEF S, A
<1>3. \A d \in A \cap S : Only(lists[b], d) = Only(Fit(Append(lists[b], e)), d)
  BY <1>1
<1>4. Kept(lists[b], A) = Kept(Fit(Append(lists[b], e)), A)
  BY <1>2, <1>3, FitAgree
<1>5. Fit(Append(lists[b], e)) \in Seq(S)
  BY <1>2, FitType
<1> QED BY <1>4, <1>5 DEF S, A

LEMMA SubmitKeeps ==
  ASSUME IInv, _submitTask PROVE IInv'
<1> DEFINE new == [lists EXCEPT !["pending"] = Fit(Append(@, lastId + 1))]
<1>1. /\ Change(new) /\ lastId' = lastId + 1 /\ lastId < MaxIds /\ typed' = FALSE
  BY DEF _submitTask
<1>2. lastId \in Nat /\ lists \in [Buckets -> Seq(1..lastId)]
  BY DEF IInv, TypeInv
<1>3. lists' = new
  BY <1>1, ChangeIs
<1>4. /\ lists'["pending"] = Fit(Append(lists["pending"], lastId + 1))
      /\ \A b \in Buckets \ {"pending"} : lists'[b] = lists[b]
      /\ lists' = [b \in Buckets |-> lists'[b]]
  BY <1>2, <1>3 DEF Buckets
<1> HIDE DEF new
<1>5. /\ lastId' \in Nat /\ lastId + 1 \in 1..lastId' /\ lastId' \in lastId..MaxIds
      /\ Seq(1..lastId) \subseteq Seq(1..lastId')
  BY <1>1, <1>2, SeqGrows
<1>6. /\ "pending" \in Buckets /\ lists["pending"] \in Seq(1..lastId)
      /\ lists["pending"] \in Seq(1..lastId')
  BY <1>2, <1>5 DEF Buckets
<1>7. lastId + 1 \in moved'
  <2>1. Only(lists["pending"], lastId + 1) = <<>>
    BY <1>2, <1>6, NewIsNotThere
  <2>2. Only(lists'["pending"], lastId + 1) # <<>>
    BY <1>4, <1>5, <1>6, FitType
  <2> QED BY <1>1, <1>5, <1>6, <2>1, <2>2, UntouchedOrMoved
<1>8. /\ lists'["pending"] \in Seq(1..lastId')
      /\ Kept(lists["pending"], Ids \ moved') = Kept(lists'["pending"], Ids \ moved')
  BY <1>1, <1>4, <1>5, <1>6, <1>7, AppendAgrees
<1>9. \A b \in Buckets : lists'[b] \in Seq(1..lastId')
  BY <1>2, <1>4, <1>5, <1>8
<1>10. ChangeAgrees
  BY <1>4, <1>8 DEF ChangeAgrees
<1> QED BY <1>1, <1>4, <1>5, <1>9, <1>10, ChangeStep

LEMMA ClassifyKeeps ==
  ASSUME IInv, NEW id \in Ids, NEW bucket \in {"my", "other"},
         _classifyPendingTask(id, bucket)
  PROVE  IInv'
<1> DEFINE new == [lists EXCEPT ![bucket] = Fit(Append(@, lastId + 1)),
                                !["pending"] = Without(@, id)]
<1>1. /\ Change(new) /\ lastId' = lastId + 1 /\ lastId < MaxIds /\ typed' = typed
      /\ \E i \in DOMAIN lists["pending"] : lists["pending"][i] = id
  BY DEF _classifyPendingTask
<1>2. /\ lastId \in Nat /\ lists \in [Buckets -> Seq(1..lastId)] /\ typed' \in BOOLEAN
      /\ bucket \in Buckets /\ "pending" \in Buckets /\ bucket # "pending"
  BY <1>1 DEF IInv, TypeInv, Buckets
<1>3. lists' = new
  BY <1>1, ChangeIs
<1>4. /\ lists'[bucket] = Fit(Append(lists[bucket], lastId + 1))
      /\ lists'["pending"] = Without(lists["pending"], id)
      /\ \A b \in Buckets : b # bucket /\ b # "pending" => lists'[b] = lists[b]
      /\ lists' = [b \in Buckets |-> lists'[b]]
  BY <1>2, <1>3
<1> HIDE DEF new
<1>5. /\ lastId' \in Nat /\ lastId + 1 \in 1..lastId' /\ lastId' \in lastId..MaxIds
      /\ Seq(1..lastId) \subseteq Seq(1..lastId')
  BY <1>1, <1>2, SeqGrows
<1>6. /\ lists[bucket] \in Seq(1..lastId) /\ lists[bucket] \in Seq(1..lastId')
      /\ lists["pending"] \in Seq(1..lastId) /\ lists["pending"] \in Seq(1..lastId')
  BY <1>2, <1>5
<1>7. lastId + 1 \in moved'
  <2>1. Only(lists[bucket], lastId + 1) = <<>>
    BY <1>2, <1>6, NewIsNotThere
  <2>2. Only(lists'[bucket], lastId + 1) # <<>>
    BY <1>4, <1>5, <1>6, FitType
  <2> QED BY <1>1, <1>2, <1>5, <2>1, <2>2, UntouchedOrMoved
<1>8. /\ lists'[bucket] \in Seq(1..lastId')
      /\ Kept(lists[bucket], Ids \ moved') = Kept(lists'[bucket], Ids \ moved')
  BY <1>1, <1>2, <1>4, <1>5, <1>6, <1>7, AppendAgrees
<1>9. /\ lists'["pending"] \in Seq(1..lastId')
      /\ Only(lists'["pending"], id) = <<>>
      /\ \A M : id \in M =>
           Kept(lists["pending"], Ids \ M) = Kept(lists'["pending"], Ids \ M)
  BY <1>4, <1>6, WithoutIt
<1>10. id \in moved'
  <2>1. Only(lists["pending"], id) # <<>> /\ id \in 1..lastId'
    BY <1>1, <1>2, <1>5, <1>6, ThereIsKept
  <2> QED BY <1>1, <1>2, <1>9, <2>1, UntouchedOrMoved
<1>11. \A b \in Buckets : lists'[b] \in Seq(1..lastId')
  BY <1>2, <1>4, <1>5, <1>8, <1>9
<1>12. ChangeAgrees
  BY <1>4, <1>8, <1>9, <1>10 DEF ChangeAgrees
<1> QED BY <1>1, <1>2, <1>4, <1>5, <1>11, <1>12, ChangeStep

LEMMA MoveKeeps ==
  ASSUME IInv, NEW id \in Ids, NEW from \in {"my", "other"}, NEW to \in {"my", "other"},
         _moveTaskToBucket(id, from, to)
  PROVE  IInv'
<1> DEFINE new == [lists EXCEPT ![from] = Without(@, id), ![to] = Fit(Append(@, id))]
<1>1. /\ Change(new) /\ lastId' = lastId /\ typed' = typed /\ from # to
      /\ \E i \in DOMAIN lists[from] : lists[from][i] = id
  BY DEF _moveTaskToBucket
<1>2. /\ lastId \in 0..MaxIds /\ lists \in [Buckets -> Seq(1..lastId)]
      /\ typed' \in BOOLEAN /\ from \in Buckets /\ to \in Buckets
  BY <1>1 DEF IInv, TypeInv, Buckets
<1>3. lists' = new
  BY <1>1, ChangeIs
<1>4. /\ lists'[from] = Without(lists[from], id)
      /\ lists'[to] = Fit(Append(lists[to], id))
      /\ \A b \in Buckets : b # from /\ b # to => lists'[b] = lists[b]
      /\ lists' = [b \in Buckets |-> lists'[b]]
  BY <1>1, <1>2, <1>3
<1> HIDE DEF new
<1>5. /\ lastId' \in Nat /\ lastId' \in lastId..MaxIds
      /\ lists[from] \in Seq(1..lastId') /\ lists[to] \in Seq(1..lastId')
  BY <1>1, <1>2
<1>6. Only(lists[from], id) # <<>> /\ id \in 1..lastId'
  BY <1>1, <1>2, <1>5, ThereIsKept
<1>7. /\ lists'[from] \in Seq(1..lastId')
      /\ Only(lists'[from], id) = <<>>
      /\ \A M : id \in M => Kept(lists[from], Ids \ M) = Kept(lists'[from], Ids \ M)
  BY <1>4, <1>5, WithoutIt
<1>8. id \in moved'
  BY <1>1, <1>2, <1>6, <1>7, UntouchedOrMoved
<1>9. /\ lists'[to] \in Seq(1..lastId')
      /\ Kept(lists[to], Ids \ moved') = Kept(lists'[to], Ids \ moved')
  BY <1>1, <1>2, <1>4, <1>5, <1>6, <1>8, AppendAgrees
<1>10. \A b \in Buckets : lists'[b] \in Seq(1..lastId')
  BY <1>1, <1>2, <1>4, <1>7, <1>9
<1>11. ChangeAgrees
  BY <1>4, <1>7, <1>8, <1>9 DEF ChangeAgrees
<1> QED BY <1>1, <1>2, <1>4, <1>5, <1>10, <1>11, ChangeStep

LEMMA DeleteKeeps ==
  ASSUME IInv, NEW id \in Ids, NEW bucket \in Buckets, _deleteTask(id, bucket)
  PROVE  IInv'
<1> DEFINE new == [lists EXCEPT ![bucket] = Without(@, id)]
<1>1. /\ Change(new) /\ lastId' = lastId /\ typed' = typed
      /\ \E i \in DOMAIN lists[bucket] : lists[bucket][i] = id
  BY DEF _deleteTask
<1>2. /\ lastId \in 0..MaxIds /\ lists \in [Buckets -> Seq(1..lastId)]
      /\ typed' \in BOOLEAN
  BY <1>1 DEF IInv, TypeInv
<1>3. lists' = new
  BY <1>1, ChangeIs
<1>4. /\ lists'[bucket] = Without(lists[bucket], id)
      /\ \A b \in Buckets : b # bucket => lists'[b] = lists[b]
      /\ lists' = [b \in Buckets |-> lists'[b]]
  BY <1>2, <1>3
<1> HIDE DEF new
<1>5. /\ lastId' \in Nat /\ lastId' \in lastId..MaxIds
      /\ lists[bucket] \in Seq(1..lastId')
  BY <1>1, <1>2
<1>6. Only(lists[bucket], id) # <<>> /\ id \in 1..lastId'
  BY <1>1, <1>5, ThereIsKept
<1>7. /\ lists'[bucket] \in Seq(1..lastId')
      /\ Only(lists'[bucket], id) = <<>>
      /\ \A M : id \in M => Kept(lists[bucket], Ids \ M) = Kept(lists'[bucket], Ids \ M)
  BY <1>4, <1>5, WithoutIt
<1>8. id \in moved'
  BY <1>1, <1>6, <1>7, UntouchedOrMoved
<1>9. \A b \in Buckets : lists'[b] \in Seq(1..lastId')
  BY <1>1, <1>2, <1>4, <1>7
<1>10. ChangeAgrees
  BY <1>4, <1>7, <1>8 DEF ChangeAgrees
<1> QED BY <1>1, <1>2, <1>4, <1>5, <1>9, <1>10, ChangeStep

LEMMA ClearKeeps ==
  ASSUME IInv, _clearAll PROVE IInv'
<1>1. Change(NoTasks) /\ lastId' = lastId /\ typed' = typed
  BY DEF _clearAll
<1>2. /\ lastId \in 0..MaxIds /\ lists \in [Buckets -> Seq(1..lastId)]
      /\ typed' \in BOOLEAN
  BY <1>1 DEF IInv, TypeInv
<1>3. lists' = NoTasks
  BY <1>1, ChangeIs
<1>4. \A b \in Buckets : lists'[b] = <<>>
  BY <1>3 DEF NoTasks
<1>5. ASSUME NEW b \in Buckets PROVE Kept(lists[b], Ids \ moved') = Kept(lists'[b], Ids \ moved')
  <2>1. lists[b] \in Seq(1..lastId')
    BY <1>1, <1>2
  <2>2. \A i \in 1..Len(lists[b]) : lists[b][i] \in moved'
    <3> TAKE i \in 1..Len(lists[b])
    <3> DEFINE id == lists[b][i]
    <3>1. Only(lists[b], id) # <<>> /\ id \in 1..lastId'
      BY <2>1, LenProperties, ThereIsKept
    <3>2. Only(lists'[b], id) = <<>>
      BY <1>4, KeptEmpty DEF Only
    <3> QED BY <1>1, <3>1, <3>2, UntouchedOrMoved
  <2>3. \A i \in 1..Len(lists[b]) : lists[b][i] \in Ids \ moved' <=> lists[b][i] \in {}
    BY <2>2
  <2>4. Kept(lists[b], Ids \ moved') = Kept(lists[b], {})
    BY <2>1, <2>3, KeptAgree
  <2> QED BY <1>4, <2>1, <2>4, KeptNothing, KeptEmpty
<1>6. ChangeAgrees
  BY <1>5 DEF ChangeAgrees
<1>7. lists' \in [Buckets -> Seq(1..lastId')]
  BY <1>3, EmptySeq DEF NoTasks
<1>8. lastId' \in lastId..MaxIds
  BY <1>1, <1>2
<1> QED BY <1>1, <1>2, <1>6, <1>7, <1>8, ChangeStep

LEMMA TypingKeeps ==
  ASSUME IInv, onChanged PROVE IInv'
<1>1. /\ typed' \in BOOLEAN /\ saves' = Begun(saves)
      /\ UNCHANGED <<lists, preferences, lastId, open, loaded, historyVars>>
  BY DEF onChanged, Save
<1>2. /\ lists' = lists /\ stored' = stored /\ draft' = draft /\ legacy' = legacy
      /\ lastId' = lastId /\ open' = open /\ loaded' = loaded
      /\ moved' = moved /\ adopted' = adopted
  BY <1>1 DEF preferences, historyVars
<1>3. /\ saves' \in [Steps -> Nat] /\ saves'["my"] # 0
      /\ \A s \in Steps \ {"my"} : saves'[s] = saves[s]
  BY <1>1, BegunSaves DEF IInv, TypeInv
<1>4. TypeInv'
  BY <1>1, <1>2, <1>3 DEF IInv, TypeInv
<1>5. FewStepsBeforeTheLoad'
  <2>1. /\ saves'["pending"] = saves["pending"] /\ saves'["legacy"] = saves["legacy"]
        /\ saves'["draft"] = saves["draft"]
    BY <1>3 DEF Steps
  <2> QED BY <1>2, <2>1 DEF IInv, FewStepsBeforeTheLoad
<1>6. WrittenIsStored'
  <2>1. \A b \in Buckets : "my" \in UpTo(b)
    BY DEF UpTo, Buckets
  <2>2. ~ \E b \in Buckets : \A s \in UpTo(b) : saves'[s] = 0
    BY <1>3, <2>1
  <2> QED BY <2>2 DEF WrittenIsStored
<1>7. OthersAreStored'
  BY <1>2 DEF IInv, OthersAreStored, Others, Unstored
<1> QED BY <1>4, <1>5, <1>6, <1>7 DEF IInv

LEMMA LoadKeeps ==
  ASSUME IInv, _loadTasks PROVE IInv'
<1>1. /\ ~loaded /\ loaded' = TRUE /\ open' = open /\ saves' = saves
      /\ stored' = stored /\ draft' = draft /\ typed' = draft /\ legacy' = FALSE
      /\ moved' = moved
  BY DEF _loadTasks
<1>2. /\ lastId \in 0..MaxIds /\ stored \in [Buckets -> Seq(1..lastId)]
      /\ moved \subseteq 1..lastId /\ saves \in [Steps -> Nat]
  BY DEF IInv, TypeInv
<1>3. "pending" \in Buckets
  BY DEF Buckets
<1>4. /\ lastId' \in 0..MaxIds
      /\ lists' \in [Buckets -> Seq(1..lastId')]
      /\ stored' \in [Buckets -> Seq(1..lastId')]
      /\ moved' \subseteq 1..lastId' /\ adopted' \subseteq 1..lastId'
      /\ \A b \in Buckets \ {"pending"} : lists'[b] = stored[b]
      /\ \A M : Kept(stored["pending"], Ids \ (M \cup adopted'))
                 = Kept(lists'["pending"], Ids \ (M \cup adopted'))
  <2>1. CASE ~legacy
    <3>1. lastId' = lastId /\ lists' = stored /\ adopted' = {}
      BY <2>1 DEF _loadTasks
    <3> QED BY <1>1, <1>2, <3>1
  <2>2. CASE legacy
    <3>1. /\ lastId' = lastId + 1 /\ lastId < MaxIds /\ adopted' = {lastId + 1}
          /\ lists' = [stored EXCEPT !["pending"] = Append(@, lastId + 1)]
      BY <2>2 DEF _loadTasks
    <3>2. /\ lastId' \in 0..MaxIds /\ lastId \in Nat /\ lastId' \in Nat /\ lastId <= lastId'
          /\ lastId + 1 \in 1..lastId' /\ moved' \subseteq 1..lastId'
          /\ adopted' \subseteq 1..lastId'
      BY <1>1, <1>2, <3>1
    <3>3. Seq(1..lastId) \subseteq Seq(1..lastId')
      BY <3>2, SeqGrows
    <3>4. stored' \in [Buckets -> Seq(1..lastId')]
      BY <1>1, <1>2, <3>3
    <3>5. /\ lists'["pending"] = Append(stored["pending"], lastId + 1)
          /\ \A b \in Buckets \ {"pending"} : lists'[b] = stored[b]
          /\ lists' = [b \in Buckets |-> lists'[b]]
      BY <1>2, <1>3, <3>1
    <3>6. stored["pending"] \in Seq(1..lastId')
      BY <1>2, <1>3, <3>3
    <3>7. lists'["pending"] \in Seq(1..lastId')
      BY <3>2, <3>5, <3>6, AppendProperties
    <3>8. \A b \in Buckets : lists'[b] \in Seq(1..lastId')
      BY <1>2, <3>3, <3>5, <3>7
    <3>9. ASSUME NEW M
          PROVE  Kept(stored["pending"], Ids \ (M \cup adopted'))
                   = Kept(lists'["pending"], Ids \ (M \cup adopted'))
      <4> DEFINE A == Ids \ (M \cup adopted')
                 n == lastId + 1
      <4>1. n \notin A
        BY <3>1
      <4> HIDE DEF A, n
      <4>2. n \in 1..lastId'
        BY <3>2 DEF n
      <4> DEFINE p == stored["pending"]
                 S == 1..lastId'
      <4>3. p \in Seq(S) /\ n \in S
        BY <3>6, <4>2
      <4> HIDE DEF p, S
      <4>4. Kept(Append(p, n), A) = Kept(p, A)
        BY <4>1, <4>3, KeptAppend
      <4> QED BY <3>5, <4>4 DEF A, n, p
    <3> QED BY <3>2, <3>4, <3>5, <3>8, <3>9
  <2> QED BY <2>1, <2>2
<1>5. TypeInv'
  BY <1>1, <1>4 DEF IInv, TypeInv
<1>6. FewStepsBeforeTheLoad'
  BY <1>1 DEF FewStepsBeforeTheLoad
<1>7. WrittenIsStored'
  <2> SUFFICES ASSUME saves # NoSaves, NEW b \in Buckets, \A s \in UpTo(b) : saves[s] = 0
               PROVE  stored[b] = lists'[b]
    BY <1>1 DEF WrittenIsStored
  <2>1. saves["pending"] = 0 /\ saves["legacy"] = 0 /\ saves["draft"] = 0
    BY <1>1 DEF IInv, FewStepsBeforeTheLoad
  <2>2. b # "pending"
    <3> SUFFICES ASSUME b = "pending" PROVE FALSE
      OBVIOUS
    <3>1. UpTo(b) = {"my", "other", "pending"}
      BY DEF UpTo
    <3>2. saves["my"] = 0 /\ saves["other"] = 0
      BY <3>1
    <3>3. \A s \in Steps : saves[s] = 0
      BY <2>1, <3>2 DEF Steps
    <3>4. saves = NoSaves
      BY <1>2, <3>3 DEF NoSaves
    <3> QED BY <3>4
  <2> QED BY <1>4, <2>2
<1>8. OthersAreStored'
  <2> SUFFICES ASSUME NEW b \in Buckets
               PROVE  Kept(stored'[b], Ids \ Unstored(b)') = Kept(lists'[b], Ids \ Unstored(b)')
    BY DEF OthersAreStored, Others
  <2>1. CASE b = "pending"
    <3>1. Unstored(b)' = moved' \cup adopted'
      BY <2>1 DEF Unstored
    <3> QED BY <1>1, <1>4, <2>1, <3>1
  <2>2. CASE b # "pending"
    BY <1>1, <1>4, <2>2
  <2> QED BY <2>1, <2>2
<1> QED BY <1>5, <1>6, <1>7, <1>8 DEF IInv

LEMMA SaveStepKeeps ==
  ASSUME IInv, NEW s \in Steps, SaveStep(s) PROVE IInv'
<1> DEFINE left == [t \in Steps |->
                 IF t = s THEN saves[t] - 1
                 ELSE IF t \in After(s) THEN saves[t] + 1 ELSE saves[t]]
<1>1. /\ saves[s] > 0 /\ (loaded \/ s = "my") /\ saves' = left
      /\ moved' = IF saves' = NoSaves THEN {} ELSE moved
      /\ adopted' = IF s = "pending" THEN {} ELSE adopted
  BY Zenon DEF SaveStep
<1>2. /\ stored' = IF s \in Buckets THEN [stored EXCEPT ![s] = lists[s]] ELSE stored
      /\ legacy' = (legacy /\ s # "legacy")
      /\ draft' = IF s = "draft" THEN typed ELSE draft
      /\ lists' = lists /\ typed' = typed /\ lastId' = lastId
      /\ open' = open /\ loaded' = loaded
  BY Zenon DEF SaveStep
<1>3. /\ lastId \in 0..MaxIds /\ lists \in [Buckets -> Seq(1..lastId)]
      /\ stored \in [Buckets -> Seq(1..lastId)] /\ saves \in [Steps -> Nat]
      /\ moved \subseteq 1..lastId /\ adopted \subseteq 1..lastId
  BY DEF IInv, TypeInv
<1>4. /\ saves' \in [Steps -> Nat]
      /\ saves'[s] = saves[s] - 1
      /\ \A t \in Steps : t # s => saves'[t] >= saves[t]
      /\ \A t \in After(s) : saves'[t] # 0
  <2>1. s \notin After(s) /\ After(s) \subseteq Steps
    BY DEF After, Steps
  <2> QED BY <1>1, <1>3, <2>1
<1> HIDE DEF left
<1>5. \A b \in Buckets : stored'[b] = IF b = s THEN lists[b] ELSE stored[b]
  BY <1>2, <1>3
<1>6. TypeInv'
  <2>1. stored' \in [Buckets -> Seq(1..lastId)]
    BY <1>2, <1>3
  <2>2. moved' \subseteq 1..lastId /\ adopted' \subseteq 1..lastId
    BY <1>1, <1>3
  <2>3. legacy' \in BOOLEAN /\ draft' \in BOOLEAN
    BY <1>2 DEF IInv, TypeInv
  <2> QED BY <1>2, <1>4, <2>1, <2>2, <2>3 DEF IInv, TypeInv
<1>7. FewStepsBeforeTheLoad'
  <2> SUFFICES ASSUME ~loaded
               PROVE  saves'["pending"] = 0 /\ saves'["legacy"] = 0 /\ saves'["draft"] = 0
    BY <1>2 DEF FewStepsBeforeTheLoad
  <2>1. s = "my" /\ After(s) = {"other"}
    BY <1>1 DEF After
  <2>2. saves["pending"] = 0 /\ saves["legacy"] = 0 /\ saves["draft"] = 0
    BY DEF IInv, FewStepsBeforeTheLoad
  <2> QED BY <1>1, <2>1, <2>2 DEF left, Steps
<1>8. ASSUME loaded, saves' # NoSaves \/ s = "draft",
             NEW b \in Buckets, \A t \in UpTo(b) : saves'[t] = 0
      PROVE  stored'[b] = lists[b]
  <2>1. CASE b = s
    BY <1>5, <2>1
  <2>2. CASE b # s
    <3>1. s \notin UpTo(b)
      <4> SUFFICES ASSUME s \in UpTo(b) PROVE FALSE
        OBVIOUS
      <4>1. \E t \in After(s) : t \in UpTo(b)
        BY <2>2 DEF UpTo, After, Buckets
      <4> QED BY <1>4, <1>8, <4>1
    <3>2. \A t \in UpTo(b) : saves[t] = 0
      <4>1. UpTo(b) \subseteq Steps
        BY DEF UpTo, Buckets, Steps
      <4> TAKE t \in UpTo(b)
      <4>2. t \in Steps /\ t # s
        BY <3>1, <4>1
      <4>3. saves[t] \in Nat /\ saves'[t] >= saves[t] /\ saves'[t] = 0
        BY <1>3, <1>4, <1>8, <4>2
      <4> QED BY <4>3
    <3>3. saves # NoSaves
      BY <1>1, <1>3 DEF NoSaves
    <3>4. stored[b] = lists[b]
      BY <1>8, <3>2, <3>3 DEF IInv, WrittenIsStored
    <3> QED BY <1>5, <2>2, <3>4
  <2> QED BY <2>1, <2>2
<1>9. WrittenIsStored'
  BY <1>2, <1>8 DEF WrittenIsStored
<1>10. OthersAreStored'
  <2> SUFFICES ASSUME loaded, NEW b \in Buckets
               PROVE  Kept(stored'[b], Ids \ Unstored(b)') = Kept(lists[b], Ids \ Unstored(b)')
    BY <1>2 DEF OthersAreStored, Others
  <2>1. CASE saves' = NoSaves
    \* The last save is through: every list is stored.
    <3>1. s = "draft"
      <4>1. \A t \in Steps : saves'[t] = 0
        BY <2>1 DEF NoSaves
      <4>2. ~ \E t \in After(s) : t \in Steps
        BY <1>4, <4>1
      <4> QED BY <4>2 DEF After, Steps
    <3>2. \A t \in UpTo(b) : saves'[t] = 0
      BY <2>1 DEF NoSaves, UpTo, Buckets, Steps
    <3> QED BY <1>8, <3>1, <3>2
  <2>2. CASE saves' # NoSaves
    <3>1. CASE b = s
      BY <1>5, <3>1
    <3>2. CASE b # s
      <4>1. Unstored(b)' = Unstored(b)
        BY <1>1, <2>2, <3>2 DEF Unstored
      <4>2. Kept(stored[b], Ids \ Unstored(b)) = Kept(lists[b], Ids \ Unstored(b))
        BY <1>2, <2>2 DEF IInv, OthersAreStored, Others
      <4> QED BY <1>5, <3>2, <4>1, <4>2
    <3> QED BY <3>1, <3>2
  <2> QED BY <2>1, <2>2
<1> QED BY <1>6, <1>7, <1>9, <1>10 DEF IInv

LEMMA DieKeeps ==
  ASSUME IInv, Die PROVE IInv'
<1>1. /\ open' = FALSE /\ loaded' = FALSE /\ lists' = NoTasks /\ typed' = FALSE
      /\ saves' = NoSaves /\ moved' = {} /\ adopted' = {} /\ lastId' = lastId
      /\ stored' = stored /\ draft' = draft /\ legacy' = legacy
  BY DEF Die, preferences
<1>2. NoTasks \in [Buckets -> Seq(1..lastId)] /\ NoSaves \in [Steps -> Nat]
  BY EmptySeq DEF NoTasks, NoSaves
<1>3. TypeInv'
  BY <1>1, <1>2 DEF IInv, TypeInv
<1>4. FewStepsBeforeTheLoad'
  BY <1>1 DEF FewStepsBeforeTheLoad, NoSaves, Steps
<1>5. WrittenIsStored' /\ OthersAreStored'
  BY <1>1 DEF WrittenIsStored, OthersAreStored
<1> QED BY <1>3, <1>4, <1>5 DEF IInv

LEMMA OpenKeeps ==
  ASSUME IInv, Open PROVE IInv'
<1>1. /\ open' = TRUE /\ loaded' = loaded /\ lists' = lists /\ typed' = typed
      /\ saves' = saves /\ moved' = moved /\ adopted' = adopted /\ lastId' = lastId
      /\ stored' = stored /\ draft' = draft /\ legacy' = legacy
  BY DEF Open, preferences, historyVars
<1>2. TypeInv'
  BY <1>1 DEF IInv, TypeInv
<1>3. FewStepsBeforeTheLoad' /\ WrittenIsStored' /\ OthersAreStored'
  BY <1>1 DEF IInv, FewStepsBeforeTheLoad, WrittenIsStored, OthersAreStored, Others, Unstored
<1> QED BY <1>2, <1>3 DEF IInv

-----------------------------------------------------------------------------
(* The theorems.                                                           *)

LEMMA Invariant == Spec => []IInv
<1>1. Init => IInv
  <2> SUFFICES ASSUME Init PROVE IInv
    OBVIOUS
  <2>1. NoTasks \in [Buckets -> Seq(1..lastId)] /\ NoSaves \in [Steps -> Nat]
    BY EmptySeq DEF NoTasks, NoSaves
  <2>2. TypeInv
    <3>1. lists = NoTasks /\ stored = NoTasks /\ saves = NoSaves /\ lastId = 0
          /\ moved = {} /\ adopted = {}
      BY DEF Init
    <3>2. /\ typed \in BOOLEAN /\ draft \in BOOLEAN /\ legacy \in BOOLEAN
          /\ open \in BOOLEAN /\ loaded \in BOOLEAN
      BY Zenon DEF Init
    <3>3. lists \in [Buckets -> Seq(1..lastId)] /\ stored \in [Buckets -> Seq(1..lastId)]
      BY <2>1, <3>1, Zenon
    <3>4. /\ lastId \in 0..MaxIds
          /\ moved \subseteq 1..lastId /\ adopted \subseteq 1..lastId
      BY <3>1
    <3>5. saves \in [Steps -> Nat]
      BY <2>1, <3>1
    <3> QED BY <3>2, <3>3, <3>4, <3>5, Zenon DEF TypeInv
  <2>3. FewStepsBeforeTheLoad
    BY DEF Init, FewStepsBeforeTheLoad, NoSaves, Steps
  <2>4. WrittenIsStored /\ OthersAreStored
    BY DEF Init, WrittenIsStored, OthersAreStored
  <2> QED BY <2>2, <2>3, <2>4 DEF IInv
<1>2. IInv /\ [Next]_vars => IInv'
  <2> SUFFICES ASSUME IInv, [Next]_vars PROVE IInv'
    OBVIOUS
  <2>1. CASE Open
    BY <2>1, OpenKeeps
  <2>2. CASE _loadTasks
    BY <2>2, LoadKeeps
  <2>3. CASE Die
    BY <2>3, DieKeeps
  <2>4. CASE Use
    <3>1. CASE onChanged
      BY <3>1, TypingKeeps
    <3>2. CASE _submitTask
      BY <3>2, SubmitKeeps
    <3>3. CASE _clearAll
      BY <3>3, ClearKeeps
    <3>4. CASE \E id \in Ids, b \in {"my", "other"} : _classifyPendingTask(id, b)
      BY <3>4, ClassifyKeeps
    <3>5. CASE \E id \in Ids, from, to \in {"my", "other"} : _moveTaskToBucket(id, from, to)
      BY <3>5, MoveKeeps
    <3>6. CASE \E id \in Ids, b \in Buckets : _deleteTask(id, b)
      BY <3>6, DeleteKeeps
    <3> QED BY <2>4, <3>1, <3>2, <3>3, <3>4, <3>5, <3>6 DEF Use
  <2>5. CASE \E s \in Steps : SaveStep(s)
    BY <2>5, SaveStepKeeps
  <2>6. CASE UNCHANGED vars
    <3>1. /\ open' = open /\ loaded' = loaded /\ lists' = lists /\ typed' = typed
          /\ saves' = saves /\ lastId' = lastId
          /\ moved' = moved /\ adopted' = adopted
          /\ stored' = stored /\ draft' = draft /\ legacy' = legacy
      BY <2>6 DEF vars, preferences, historyVars
    <3> QED BY <3>1 DEF IInv, TypeInv, FewStepsBeforeTheLoad, WrittenIsStored,
                        OthersAreStored, Others, Unstored
  <2> QED BY <2>1, <2>2, <2>3, <2>4, <2>5, <2>6 DEF Next
<1> QED BY <1>1, <1>2, PTL DEF Spec

(* However the saves overlap and whenever the process dies, the            *)
(* preferences hold every task that no running save is moving, in its list *)
(* and in its order (main.dart:193, _saveTasks); but for the task of an    *)
(* earlier version, which no preference holds from the load that removes   *)
(* its own (main.dart:186) to the next write of the pending list.          *)
THEOREM OthersAreStoredHolds == Spec => []OthersAreStored
<1>1. IInv => OthersAreStored
  BY DEF IInv
<1> QED BY <1>1, Invariant, PTL

(* A preference whose turn every running save has passed holds its list:   *)
(* when a save runs, only the lists that it is still to write may differ   *)
(* from what a restart would read (main.dart:193, _saveTasks).             *)
THEOREM WrittenIsStoredHolds == Spec => []WrittenIsStored
<1>1. IInv => WrittenIsStored
  BY DEF IInv
<1> QED BY <1>1, Invariant, PTL
=============================================================================
