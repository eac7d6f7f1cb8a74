--------------------------- MODULE SequenceFacts ---------------------------
(***************************************************************************)
(* Induction, and what becomes of a sequence that is projected, joined or  *)
(* cut into pieces.                                                        *)
(*                                                                         *)
(* The induction theorems of the library are about operators; here they    *)
(* are stated of sets, a property being the set of the values that have it.*)
(* They follow from the well-foundedness of the natural numbers.           *)
(***************************************************************************)
EXTENDS Projection, Integers, SequencesExt, SequenceTheorems, WellFoundedInduction, TLAPS

(* A set of natural numbers that is not empty has a smallest member.       *)
LEMMA Smallest ==
  ASSUME NEW T \in SUBSET Nat, T # {}
  PROVE  \E x \in T : \A y \in T : ~ (y < x)
<1> DEFINE R == OpToRel(<, Nat)
<1>1. IsWellFoundedOn(R, Nat)
  BY NatLessThanWellFounded
<1>2. T \subseteq Nat
  OBVIOUS
<1>3. \E x \in T : \A y \in T : ~ (<<y, x>> \in R)
  BY <1>1, <1>2, WFMin
<1>4. \A x, y \in Nat : y < x => <<y, x>> \in R
  BY DEF OpToRel
<1> QED BY <1>3, <1>4

(* Induction over the natural numbers.                                     *)
LEMMA Induction ==
  ASSUME NEW T \in SUBSET Nat, 0 \in T, \A n \in T : n + 1 \in T
  PROVE  T = Nat
<1> SUFFICES ASSUME T # Nat PROVE FALSE
  OBVIOUS
<1> DEFINE U == Nat \ T
<1>1. U \in SUBSET Nat /\ U # {}
  OBVIOUS
<1>2. PICK x \in U : \A y \in U : ~ (y < x)
  BY <1>1, Smallest
<1>3. x # 0
  OBVIOUS
<1>4. x - 1 \in Nat /\ x - 1 < x
  BY <1>3
<1>5. x - 1 \in T
  BY <1>2, <1>4
<1> QED BY <1>5

(* Induction over sequences: a set that has the empty sequence and that    *)
(* Append does not leave has them all.                                     *)
LEMMA SeqInduction ==
  ASSUME NEW A, NEW T \in SUBSET Seq(A), <<>> \in T,
         \A s \in T, e \in A : Append(s, e) \in T
  PROVE  T = Seq(A)
<1> DEFINE N == {n \in Nat : \A s \in Seq(A) : Len(s) = n => s \in T}
<1>1. 0 \in N
  BY EmptySeq
<1>2. ASSUME NEW n \in N PROVE n + 1 \in N
  <2> SUFFICES ASSUME NEW s \in Seq(A), Len(s) = n + 1 PROVE s \in T
    OBVIOUS
  <2>1. s # <<>>
    BY EmptySeq
  <2>2. PICK r \in Seq(A), e \in A : s = Append(r, e)
    BY <2>1, SequenceEmptyOrAppend
  <2>3. Len(r) = n
    BY <2>2
  <2> QED BY <2>2, <2>3
<1> HIDE DEF N
<1>3. N = Nat
  BY <1>1, <1>2, Induction DEF N
<1>4. \A s \in Seq(A) : Len(s) \in Nat
  OBVIOUS
<1> QED BY <1>3, <1>4 DEF N

(* Concatenation.                                                          *)
LEMMA ConcatFacts ==
  ASSUME NEW A
  PROVE  /\ \A a, b \in Seq(A) : a \o b \in Seq(A)
         /\ \A a, b, c \in Seq(A) : (a \o b) \o c = a \o (b \o c)
         /\ \A a \in Seq(A) : a \o <<>> = a /\ <<>> \o a = a
         /\ \A a \in Seq(A), e \in A :
              Append(a, e) = a \o <<e>> /\ <<e>> \in Seq(A)
         /\ \A a \in Seq(A) : a # <<>> =>
              /\ Head(a) \in A /\ Tail(a) \in Seq(A)
              /\ a = <<Head(a)>> \o Tail(a)
<1>1. \A a, b, c \in Seq(A) : (a \o b) \o c = a \o (b \o c)
  BY ConcatAssociative
<1>2. \A a \in Seq(A) : a \o <<>> = a /\ <<>> \o a = a
  BY ConcatEmptySeq
<1> QED BY <1>1, <1>2

(* An element in the middle of a concatenation.                            *)
LEMMA Middle ==
  ASSUME NEW A, NEW a \in Seq(A), NEW b \in Seq(A), NEW c \in Seq(A),
         NEW i \in DOMAIN b
  PROVE  Len(a) + i \in DOMAIN (a \o b \o c) /\ (a \o b \o c)[Len(a) + i] = b[i]
<1>1. /\ a \o b \in Seq(A) /\ Len(a) + i \in 1..Len(a \o b)
      /\ (a \o b)[Len(a) + i] = b[i]
  OBVIOUS
<1> DEFINE d == a \o b
<1> HIDE DEF d
<1>2. d \in Seq(A) /\ Len(a) + i \in 1..Len(d) /\ d[Len(a) + i] = b[i]
  BY <1>1 DEF d
<1>3. Len(a) + i \in DOMAIN (d \o c) /\ (d \o c)[Len(a) + i] = d[Len(a) + i]
  BY <1>2
<1> QED BY <1>2, <1>3 DEF d

(* The numbers up to n, and the next one.                                  *)
LEMMA NextNumber ==
  ASSUME NEW n \in Nat
  PROVE  Append([i \in 1..n |-> i], n + 1) = [i \in 1..(n + 1) |-> i]
<1> DEFINE s == [i \in 1..n |-> i]
           t == [i \in 1..(n + 1) |-> i]
<1>1. s \in Seq(Nat) /\ t \in Seq(Nat) /\ Len(s) = n /\ Len(t) = n + 1
  OBVIOUS
<1>2. Append(s, n + 1) \in Seq(Nat) /\ Len(Append(s, n + 1)) = n + 1
  BY <1>1
<1>3. \A i \in 1..(n + 1) : Append(s, n + 1)[i] = t[i]
  <2> TAKE i \in 1..(n + 1)
  <2>1. CASE i = n + 1
    BY <1>1, <2>1
  <2>2. CASE i \in 1..n
    BY <1>1, <2>2
  <2> QED BY <2>1, <2>2
<1> HIDE DEF s, t
<1> QED BY <1>1, <1>2, <1>3, SeqEqual DEF s, t
-----------------------------------------------------------------------------
(* The recursion of Only, for the first n elements.                        *)
Keeps(kept, s, S, n) ==
  kept = [i \in 0..n |->
            IF i = 0 THEN <<>>
            ELSE IF s[i] \in S THEN Append(kept[i - 1], s[i]) ELSE kept[i - 1]]

(* A recursive function is a CHOOSE: that there is one has to be proved.   *)
LEMMA KeepsExists ==
  ASSUME NEW s, NEW S
  PROVE  \A n \in Nat : \E kept : Keeps(kept, s, S, n)
<1> DEFINE T == {n \in Nat : \E kept : Keeps(kept, s, S, n)}
<1>1. 0 \in T
  <2> DEFINE k == [i \in 0..0 |-> <<>>]
  <2>1. Keeps(k, s, S, 0)
    BY DEF Keeps
  <2> QED BY <2>1
<1>2. ASSUME NEW n \in T PROVE n + 1 \in T
  <2>1. PICK k : Keeps(k, s, S, n)
    OBVIOUS
  <2> DEFINE last == IF s[n + 1] \in S THEN Append(k[n], s[n + 1]) ELSE k[n]
             l    == [i \in 0..(n + 1) |-> IF i = n + 1 THEN last ELSE k[i]]
  <2>2. Keeps(l, s, S, n + 1)
    <3> SUFFICES ASSUME NEW i \in 0..(n + 1)
                 PROVE  l[i] = IF i = 0 THEN <<>>
                               ELSE IF s[i] \in S THEN Append(l[i - 1], s[i])
                                    ELSE l[i - 1]
      BY DEF Keeps
    <3>1. CASE i = n + 1
      <4>1. n \in 0..(n + 1) /\ n # n + 1
        OBVIOUS
      <4>2. l[n] = k[n]
        BY <4>1
      <4>3. l[i] = last
        BY <3>1
      <4>4. i # 0 /\ i - 1 = n
        BY <3>1
      <4> QED BY <3>1, <4>2, <4>3, <4>4
    <3>2. CASE i \in 0..n
      <4>1. l[i] = k[i]
        BY <3>2
      <4>2. i # 0 => l[i - 1] = k[i - 1]
        BY <3>2
      <4>3. k[i] = IF i = 0 THEN <<>>
                   ELSE IF s[i] \in S THEN Append(k[i - 1], s[i]) ELSE k[i - 1]
        BY <2>1, <3>2 DEF Keeps
      <4> QED BY <4>1, <4>2, <4>3
    <3> QED BY <3>1, <3>2
  <2> HIDE DEF l
  <2> QED BY <2>2
<1> HIDE DEF T
<1>3. T = Nat
  BY <1>1, <1>2, Induction DEF T
<1> QED BY <1>3 DEF T

(* Only is the last value of the recursion.                                *)
LEMMA OnlyKept ==
  ASSUME NEW A, NEW s \in Seq(A), NEW S
  PROVE  \E kept : Keeps(kept, s, S, Len(s)) /\ Only(s, S) = kept[Len(s)]
<1>1. Len(s) \in Nat
  OBVIOUS
<1>2. \E kept : Keeps(kept, s, S, Len(s))
  BY <1>1, KeepsExists
<1> QED BY <1>2, Zenon DEF Only, Keeps

(* One step of the recursion.                                              *)
LEMMA KeepsStep ==
  ASSUME NEW s, NEW S, NEW n \in Nat, NEW k, Keeps(k, s, S, n),
         NEW i \in Nat, i < n
  PROVE  k[i + 1] = IF s[i + 1] \in S THEN Append(k[i], s[i + 1]) ELSE k[i]
<1>1. i + 1 \in 0..n /\ i + 1 # 0 /\ (i + 1) - 1 = i
  OBVIOUS
<1>2. k[i + 1] = IF s[i + 1] \in S THEN Append(k[(i + 1) - 1], s[i + 1])
                 ELSE k[(i + 1) - 1]
  BY <1>1 DEF Keeps
<1> QED BY <1>1, <1>2

(* What is kept are members of the set.                                    *)
LEMMA KeepsType ==
  ASSUME NEW A, NEW s \in Seq(A), NEW S, NEW kept, Keeps(kept, s, S, Len(s))
  PROVE  \A n \in 0..Len(s) : kept[n] \in Seq(A \cap S)
<1> DEFINE T == {n \in Nat : n <= Len(s) => kept[n] \in Seq(A \cap S)}
<1>1. 0 \in T
  BY DEF Keeps
<1>2. ASSUME NEW n \in T PROVE n + 1 \in T
  <2> SUFFICES ASSUME n + 1 <= Len(s) PROVE kept[n + 1] \in Seq(A \cap S)
    OBVIOUS
  <2>1. kept[n + 1] = IF s[n + 1] \in S THEN Append(kept[n], s[n + 1])
                      ELSE kept[n]
    BY KeepsStep
  <2>2. kept[n] \in Seq(A \cap S)
    OBVIOUS
  <2>3. s[n + 1] \in A
    BY ElementOfSeq
  <2> QED BY <2>1, <2>2, <2>3
<1> HIDE DEF T
<1>3. T = Nat
  BY <1>1, <1>2, Induction DEF T
<1> QED BY <1>3 DEF T

(* Two sequences that agree on their first n elements.                     *)
LEMMA KeepsAgree ==
  ASSUME NEW s, NEW t, NEW S, NEW n \in Nat, NEW m \in Nat, n <= m,
         NEW k, NEW l, Keeps(k, s, S, n), Keeps(l, t, S, m),
         \A i \in 1..n : s[i] = t[i]
  PROVE  k[n] = l[n]
<1> DEFINE T == {i \in Nat : i <= n => k[i] = l[i]}
<1>1. 0 \in T
  BY DEF Keeps
<1>2. ASSUME NEW i \in T PROVE i + 1 \in T
  <2> SUFFICES ASSUME i + 1 <= n PROVE k[i + 1] = l[i + 1]
    OBVIOUS
  <2>1. k[i + 1] = IF s[i + 1] \in S THEN Append(k[i], s[i + 1]) ELSE k[i]
    BY KeepsStep
  <2>2. l[i + 1] = IF t[i + 1] \in S THEN Append(l[i], t[i + 1]) ELSE l[i]
    BY KeepsStep
  <2> QED BY <2>1, <2>2
<1> HIDE DEF T
<1>3. T = Nat
  BY <1>1, <1>2, Induction DEF T
<1> QED BY <1>3 DEF T
-----------------------------------------------------------------------------
(* What Only keeps: members of the set, among those of the sequence.       *)
LEMMA OnlyType ==
  ASSUME NEW A, NEW s \in Seq(A), NEW S
  PROVE  Only(s, S) \in Seq(A \cap S)
<1>1. PICK k : Keeps(k, s, S, Len(s)) /\ Only(s, S) = k[Len(s)]
  BY OnlyKept
<1>2. Len(s) \in 0..Len(s)
  OBVIOUS
<1> QED BY <1>1, <1>2, KeepsType

(* It is a sequence of either kind.                                        *)
LEMMA OnlyIn ==
  ASSUME NEW A, NEW s \in Seq(A), NEW S
  PROVE  Only(s, S) \in Seq(A) /\ Only(s, S) \in Seq(S)
<1>1. Only(s, S) \in Seq(A \cap S)
  BY OnlyType
<1>2. A \cap S \subseteq A /\ A \cap S \subseteq S
  OBVIOUS
<1> QED BY <1>1, <1>2, SeqMonotonic

(* A function of the elements of a sequence.                               *)
LEMMA Mapped ==
  ASSUME NEW A, NEW B, NEW s \in Seq(A), NEW f, DOMAIN f = DOMAIN s,
         f = [i \in DOMAIN s |-> f[i]], \A i \in DOMAIN s : f[i] \in B
  PROVE  f \in Seq(B) /\ Len(f) = Len(s)
<1>1. DOMAIN s = 1..Len(s) /\ Len(s) \in Nat
  OBVIOUS
<1>2. f \in [1..Len(s) -> B]
  BY <1>1
<1> QED BY <1>1, <1>2

(* Nothing is kept of nothing.                                             *)
LEMMA OnlyEmpty ==
  ASSUME NEW S PROVE Only(<<>>, S) = <<>>
<1>1. <<>> \in Seq({}) /\ Len(<<>>) = 0
  OBVIOUS
<1>2. PICK k : Keeps(k, <<>>, S, Len(<<>>)) /\ Only(<<>>, S) = k[Len(<<>>)]
  BY <1>1, OnlyKept
<1> QED BY <1>1, <1>2 DEF Keeps

(* Only of a sequence with one more element,                               *)
LEMMA OnlyAppend ==
  ASSUME NEW A, NEW s \in Seq(A), NEW e \in A, NEW S
  PROVE  Only(Append(s, e), S) =
           IF e \in S THEN Append(Only(s, S), e) ELSE Only(s, S)
<1> DEFINE t == Append(s, e)
<1>0. /\ t \in Seq(A) /\ Len(t) = Len(s) + 1 /\ t[Len(s) + 1] = e
      /\ \A i \in 1..Len(s) : s[i] = t[i]
  OBVIOUS
<1> HIDE DEF t
<1>1. PICK k : Keeps(k, s, S, Len(s)) /\ Only(s, S) = k[Len(s)]
  BY OnlyKept
<1>2. PICK l : Keeps(l, t, S, Len(t)) /\ Only(t, S) = l[Len(t)]
  BY OnlyKept, <1>0
<1>3. k[Len(s)] = l[Len(s)]
  BY <1>0, <1>1, <1>2, KeepsAgree
<1>4. l[Len(t)] = IF e \in S THEN Append(l[Len(s)], e) ELSE l[Len(s)]
  <2>1. Len(t) \in 0..Len(t) /\ Len(t) # 0 /\ Len(t) - 1 = Len(s)
        /\ t[Len(t)] = e
    BY <1>0
  <2>2. l[Len(t)] = IF t[Len(t)] \in S THEN Append(l[Len(t) - 1], t[Len(t)])
                    ELSE l[Len(t) - 1]
    BY <1>2, <2>1 DEF Keeps
  <2> QED BY <2>1, <2>2
<1> QED BY <1>1, <1>2, <1>3, <1>4 DEF t

(* of two sequences in a row,                                              *)
LEMMA OnlyConcat ==
  ASSUME NEW A, NEW s \in Seq(A), NEW t \in Seq(A), NEW S
  PROVE  Only(s \o t, S) = Only(s, S) \o Only(t, S)
<1> DEFINE T == {r \in Seq(A) : Only(s \o r, S) = Only(s, S) \o Only(r, S)}
<1>0. \A r \in Seq(A) : Only(r, S) \in Seq(A)
  <2> TAKE r \in Seq(A)
  <2>1. Only(r, S) \in Seq(A \cap S)
    BY OnlyType
  <2> QED BY <2>1, SeqMonotonic
<1>1. <<>> \in T
  BY OnlyEmpty, <1>0, ConcatEmptySeq, EmptySeq
<1>2. ASSUME NEW r \in T, NEW e \in A PROVE Append(r, e) \in T
  <2>0. s \o r \in Seq(A)
    OBVIOUS
  <2>1. s \o Append(r, e) = Append(s \o r, e)
    OBVIOUS
  <2>2. \A q \in Seq(A) : Only(Append(q, e), S) =
          IF e \in S THEN Append(Only(q, S), e) ELSE Only(q, S)
    BY OnlyAppend
  <2>3. Only(Append(s \o r, e), S) =
          IF e \in S THEN Append(Only(s \o r, S), e) ELSE Only(s \o r, S)
    BY <2>0, <2>2
  <2>4. Only(Append(r, e), S) =
          IF e \in S THEN Append(Only(r, S), e) ELSE Only(r, S)
    BY <2>2
  <2>5. Only(s, S) \o Append(Only(r, S), e) = Append(Only(s, S) \o Only(r, S), e)
    BY <1>0
  <2>6. Append(r, e) \in Seq(A)
    OBVIOUS
  <2> QED BY <2>1, <2>3, <2>4, <2>5, <2>6
<1> HIDE DEF T
<1>3. T = Seq(A)
  BY <1>1, <1>2, SeqInduction DEF T
<1> QED BY <1>3 DEF T

(* of one element,                                                         *)
LEMMA OnlySingle ==
  ASSUME NEW e, NEW S PROVE Only(<<e>>, S) = IF e \in S THEN <<e>> ELSE <<>>
<1>1. <<e>> = Append(<<>>, e) /\ <<>> \in Seq({e}) /\ e \in {e}
  OBVIOUS
<1>2. Only(Append(<<>>, e), S) =
        IF e \in S THEN Append(Only(<<>>, S), e) ELSE Only(<<>>, S)
  BY <1>1, OnlyAppend
<1> QED BY <1>1, <1>2, OnlyEmpty

(* and of a sequence with one element less.                                *)
LEMMA OnlyTail ==
  ASSUME NEW A, NEW s \in Seq(A), s # <<>>, NEW S
  PROVE  Only(s, S) = IF Head(s) \in S THEN <<Head(s)>> \o Only(Tail(s), S)
                      ELSE Only(Tail(s), S)
<1>1. s = <<Head(s)>> \o Tail(s) /\ <<Head(s)>> \in Seq(A) /\ Tail(s) \in Seq(A)
  OBVIOUS
<1>2. Only(<<Head(s)>> \o Tail(s), S) = Only(<<Head(s)>>, S) \o Only(Tail(s), S)
  <2>1. \A q, r \in Seq(A) : Only(q \o r, S) = Only(q, S) \o Only(r, S)
    BY OnlyConcat
  <2> QED BY <1>1, <2>1
<1>3. Only(Tail(s), S) \in Seq(A \cap S)
  BY <1>1, OnlyType
<1>4. Only(<<Head(s)>>, S) = IF Head(s) \in S THEN <<Head(s)>> ELSE <<>>
  BY OnlySingle
<1>5. <<>> \o Only(Tail(s), S) = Only(Tail(s), S)
  BY <1>3
<1> QED BY <1>1, <1>2, <1>4, <1>5

(* A sequence of whatever. *)
IsSequence(s) == \E A : s \in Seq(A)

(* What a sequence is, and how they are made. *)
LEMMA SequencesAre ==
  /\ \A s : IsSequence(s) => Len(s) \in Nat /\ DOMAIN s = 1..Len(s)
  /\ \A s, t : IsSequence(s) /\ IsSequence(t) => IsSequence(s \o t)
  /\ \A n \in Nat : \A f : DOMAIN f = 1..n /\ f = [i \in DOMAIN f |-> f[i]] => IsSequence(f)
<1>1. ASSUME NEW s, IsSequence(s) PROVE Len(s) \in Nat /\ DOMAIN s = 1..Len(s)
  <2>1. PICK A : s \in Seq(A)
    BY <1>1 DEF IsSequence
  <2> QED BY <2>1
<1>2. ASSUME NEW s, NEW t, IsSequence(s), IsSequence(t) PROVE IsSequence(s \o t)
  <2>1. PICK A : s \in Seq(A)
    BY <1>2 DEF IsSequence
  <2>2. PICK B : t \in Seq(B)
    BY <1>2 DEF IsSequence
  <2>3. s \in Seq(A \cup B) /\ t \in Seq(A \cup B)
    BY <2>1, <2>2, SeqMonotonic
  <2>4. s \o t \in Seq(A \cup B)
    BY <2>3
  <2> QED BY <2>4 DEF IsSequence
<1>3. ASSUME NEW n \in Nat, NEW f, DOMAIN f = 1..n, f = [i \in DOMAIN f |-> f[i]]
      PROVE  IsSequence(f)
  <2> DEFINE A == {f[i] : i \in 1..n}
  <2>1. f \in [1..n -> A]
    BY <1>3
  <2>2. f \in Seq(A)
    BY <2>1
  <2> QED BY <2>2 DEF IsSequence
<1> QED BY <1>1, <1>2, <1>3

(* Sequences of nothing, of one and of two. *)
LEMMA ShortSequences ==
  \A x, y : IsSequence(<<>>) /\ IsSequence(<<x>>) /\ IsSequence(<<x, y>>)
<1> SUFFICES ASSUME NEW x, NEW y
             PROVE  IsSequence(<<>>) /\ IsSequence(<<x>>) /\ IsSequence(<<x, y>>)
  OBVIOUS
<1>1. <<>> \in Seq({x, y}) /\ <<x>> \in Seq({x, y}) /\ <<x, y>> \in Seq({x, y})
  OBVIOUS
<1> QED BY <1>1 DEF IsSequence

(* What a sequence becomes by one element more. *)
LEMMA AppendSequence ==
  ASSUME NEW s, NEW e, IsSequence(s)
  PROVE  /\ IsSequence(Append(s, e)) /\ Len(Append(s, e)) = Len(s) + 1
         /\ \A i \in 1..Len(s) : Append(s, e)[i] = s[i]
         /\ Append(s, e)[Len(s) + 1] = e
<1>1. PICK A : s \in Seq(A)
  BY DEF IsSequence
<1>2. s \in Seq(A \cup {e})
  BY <1>1, SeqMonotonic
<1>3. Append(s, e) \in Seq(A \cup {e})
  BY <1>2
<1> QED BY <1>1, <1>2, <1>3 DEF IsSequence
-----------------------------------------------------------------------------
(* The elements of a sequence,                                           *)
LEMMA RangeIn ==
  ASSUME NEW A, NEW s \in Seq(A)
  PROVE  Range(s) \subseteq A
BY DEF Range

(* and of one element more.                                                *)
LEMMA RangeAppend ==
  ASSUME NEW A, NEW s \in Seq(A), NEW e \in A
  PROVE  Range(Append(s, e)) = Range(s) \cup {e}
<1> DEFINE t == Append(s, e)
<1>1. /\ t \in Seq(A) /\ Len(t) = Len(s) + 1 /\ t[Len(s) + 1] = e
      /\ \A i \in 1..Len(s) : t[i] = s[i]
  OBVIOUS
<1>2. DOMAIN s = 1..Len(s) /\ DOMAIN t = 1..(Len(s) + 1) /\ Len(s) \in Nat
  BY <1>1
<1> HIDE DEF t
<1>3. ASSUME NEW i \in 1..(Len(s) + 1) PROVE t[i] \in Range(s) \cup {e}
  <2>1. i \in 1..Len(s) \/ i = Len(s) + 1
    BY <1>2
  <2> QED BY <1>1, <1>2, <2>1 DEF Range
<1>4. ASSUME NEW i \in 1..Len(s) PROVE s[i] \in Range(t)
  <2>1. i \in 1..(Len(s) + 1) /\ t[i] = s[i]
    BY <1>1, <1>2
  <2> QED BY <1>2, <2>1 DEF Range
<1>5. e \in Range(t)
  <2>1. Len(s) + 1 \in 1..(Len(s) + 1)
    BY <1>2
  <2> QED BY <1>1, <1>2, <2>1 DEF Range
<1> QED BY <1>2, <1>3, <1>4, <1>5 DEF Range, t

(* What is kept depends on the elements only. *)
LEMMA OnlyAll ==
  ASSUME NEW s, IsSequence(s), NEW S
  PROVE  /\ Only(s, S) = Only(s, S \cap Range(s))
         /\ Only(s, Range(s)) = s /\ Only(s, {}) = <<>>
<1> DEFINE A == Range(s)
           T == {t \in Seq(A) : Only(t, S) = Only(t, S \cap A) /\ Only(t, A) = t}
<1>1. s \in Seq(A)
  <2>1. PICK B : s \in Seq(B)
    BY DEF IsSequence
  <2>2. s \in [1..Len(s) -> A] /\ Len(s) \in Nat
    BY <2>1 DEF Range
  <2> QED BY <2>2
<1> HIDE DEF A
<1>2. <<>> \in T
  BY OnlyEmpty
<1>3. ASSUME NEW t \in T, NEW e \in A PROVE Append(t, e) \in T
  <2>0. t \in Seq(A) /\ Append(t, e) \in Seq(A)
    OBVIOUS
  <2>1. \A R : Only(Append(t, e), R) = IF e \in R THEN Append(Only(t, R), e) ELSE Only(t, R)
    BY <2>0, OnlyAppend
  <2>2. Only(Append(t, e), A) = Append(t, e)
    BY <2>1
  <2>3. Only(Append(t, e), S) = Only(Append(t, e), S \cap A)
    BY <2>1
  <2> QED BY <2>0, <2>2, <2>3
<1>4. T = Seq(A)
  <2>1. T \in SUBSET Seq(A)
    OBVIOUS
  <2> HIDE DEF T
  <2> QED BY <1>2, <1>3, <2>1, SeqInduction
<1>5. Only(s, {}) \in Seq({})
  BY <1>1, OnlyIn
<1>6. Only(s, {}) = <<>>
  BY <1>5
<1> QED BY <1>1, <1>4, <1>6 DEF A

(* The recursion of FlattenSeq, for the first n sequences. *)
Flattens(f, seqs, n) ==
  f = [i \in 1..n |-> IF i = 1 THEN seqs[i] ELSE f[i - 1] \o seqs[i]]

(* There is such a function, as with Only. *)
LEMMA FlattensExists ==
  ASSUME NEW seqs
  PROVE  \A n \in Nat : \E f : Flattens(f, seqs, n)
<1> DEFINE T == {n \in Nat : \E f : Flattens(f, seqs, n)}
<1>1. 0 \in T
  <2> DEFINE f == [i \in 1..0 |-> <<>>]
  <2>1. Flattens(f, seqs, 0)
    BY DEF Flattens
  <2> QED BY <2>1
<1>2. ASSUME NEW n \in T PROVE n + 1 \in T
  <2>1. PICK f : Flattens(f, seqs, n)
    OBVIOUS
  <2> DEFINE last == IF n = 0 THEN seqs[n + 1] ELSE f[n] \o seqs[n + 1]
             g    == [i \in 1..(n + 1) |-> IF i = n + 1 THEN last ELSE f[i]]
  <2>2. ASSUME NEW i \in 1..(n + 1)
        PROVE  g[i] = IF i = 1 THEN seqs[i] ELSE g[i - 1] \o seqs[i]
    <3>1. CASE i = n + 1
      <4>1. g[i] = last
        BY <3>1
      <4>2. CASE n = 0
        BY <3>1, <4>1, <4>2
      <4>3. CASE n # 0
        <5>1. n \in 1..(n + 1) /\ n # n + 1 /\ i - 1 = n /\ i # 1
          BY <3>1, <4>3
        <5>2. g[n] = f[n]
          BY <5>1
        <5> QED BY <3>1, <4>1, <4>3, <5>1, <5>2
      <4> QED BY <4>2, <4>3
    <3>2. CASE i # n + 1
      <4>1. i \in 1..n /\ g[i] = f[i]
        BY <3>2
      <4>2. f[i] = IF i = 1 THEN seqs[i] ELSE f[i - 1] \o seqs[i]
        BY <2>1, <4>1 DEF Flattens
      <4>3. i # 1 => g[i - 1] = f[i - 1]
        BY <4>1
      <4> QED BY <4>1, <4>2, <4>3
    <3> QED BY <3>1, <3>2
  <2>3. Flattens(g, seqs, n + 1)
    BY <2>2 DEF Flattens
  <2> HIDE DEF g
  <2> QED BY <2>3
<1> HIDE DEF T
<1>3. T = Nat
  BY <1>1, <1>2, Induction DEF T
<1> QED BY <1>3 DEF T

(* It is the same for sequences that agree. *)
LEMMA FlattensAgree ==
  ASSUME NEW s, NEW t, NEW n \in Nat, NEW m \in Nat, n <= m, n # 0,
         NEW f, NEW g, Flattens(f, s, n), Flattens(g, t, m),
         \A i \in 1..n : s[i] = t[i]
  PROVE  f[n] = g[n]
<1> DEFINE T == {i \in Nat : i + 1 <= n => f[i + 1] = g[i + 1]}
<1>1. 0 \in T
  <2> SUFFICES ASSUME 1 <= n PROVE f[1] = g[1]
    OBVIOUS
  <2>1. 1 \in 1..n /\ 1 \in 1..m
    OBVIOUS
  <2> QED BY <2>1 DEF Flattens
<1>2. ASSUME NEW i \in T PROVE i + 1 \in T
  <2> SUFFICES ASSUME (i + 1) + 1 <= n PROVE f[(i + 1) + 1] = g[(i + 1) + 1]
    OBVIOUS
  <2>1. /\ (i + 1) + 1 \in 1..n /\ (i + 1) + 1 \in 1..m
        /\ (i + 1) + 1 # 1 /\ ((i + 1) + 1) - 1 = i + 1
    OBVIOUS
  <2>2. f[(i + 1) + 1] = f[i + 1] \o s[(i + 1) + 1]
    BY ZenonT(30), <2>1 DEF Flattens
  <2>3. g[(i + 1) + 1] = g[i + 1] \o t[(i + 1) + 1]
    BY <2>1 DEF Flattens
  <2>4. f[i + 1] = g[i + 1]
    OBVIOUS
  <2> QED BY <2>1, <2>2, <2>3, <2>4
<1> HIDE DEF T
<1>3. T = Nat
  BY <1>1, <1>2, Induction DEF T
<1>4. n - 1 \in T /\ (n - 1) + 1 = n
  BY <1>3
<1> QED BY <1>4 DEF T
-----------------------------------------------------------------------------
(* What a function has for the elements of a sequence, one after the      *)
(* other, and pieces of sequences.                                         *)

(* Sequences one after the other: of none, of one more, of two lists. *)
LEMMA FlatEmpty == FlattenSeq(<<>>) = <<>>
<1>1. Len(<<>>) = 0
  OBVIOUS
<1> QED BY <1>1 DEF FlattenSeq

(* The joined sequences are the last step of the recursion.                *)
LEMMA FlatLast ==
  ASSUME NEW B, NEW seqs \in Seq(Seq(B)), seqs # <<>>
  PROVE  \E f : /\ Flattens(f, seqs, Len(seqs))
                /\ FlattenSeq(seqs) = f[Len(seqs)]
<1>1. Len(seqs) \in Nat /\ Len(seqs) # 0
  BY EmptySeq
<1>2. \E f : Flattens(f, seqs, Len(seqs))
  BY <1>1, FlattensExists
<1> QED BY <1>1, <1>2, Zenon DEF FlattenSeq, Flattens

(* A sequence that is added to the list stands at the end of the joined    *)
(* one.                                                                    *)
LEMMA FlatAppend ==
  ASSUME NEW B, NEW seqs \in Seq(Seq(B)), NEW x \in Seq(B),
         FlattenSeq(seqs) \in Seq(B)
  PROVE  /\ FlattenSeq(Append(seqs, x)) = FlattenSeq(seqs) \o x
         /\ FlattenSeq(Append(seqs, x)) \in Seq(B)
<1> DEFINE more == Append(seqs, x)
           n    == Len(seqs)
<1>1. /\ more \in Seq(Seq(B)) /\ Len(more) = n + 1 /\ more[n + 1] = x
      /\ \A i \in 1..n : seqs[i] = more[i]
      /\ n \in Nat /\ n + 1 \in Nat /\ n <= n + 1 /\ more # <<>>
  BY AppendProperties, LenProperties
<1>0. n = Len(seqs)
  OBVIOUS
<1> HIDE DEF more, n
<1>2. PICK g : Flattens(g, more, n + 1) /\ FlattenSeq(more) = g[n + 1]
  BY <1>1, FlatLast
<1>3. n + 1 \in 1..(n + 1)
  BY <1>1
<1>4. CASE seqs = <<>>
  <2>1. n = 0
    BY <1>0, <1>4
  <2>2. g[n + 1] = x
    BY <1>1, <1>2, <1>3, <2>1 DEF Flattens
  <2>3. FlattenSeq(seqs) \o x = x
    BY <1>4, FlatEmpty
  <2> QED BY <1>2, <2>2, <2>3 DEF more
<1>5. CASE seqs # <<>>
  <2>1. PICK f : Flattens(f, seqs, n) /\ FlattenSeq(seqs) = f[n]
    BY <1>0, <1>5, FlatLast
  <2>2. n # 0
    BY <1>0, <1>5, EmptySeq
  <2>3. f[n] = g[n]
    BY <1>1, <1>2, <2>1, <2>2, FlattensAgree
  <2>4. g[n + 1] = g[n] \o x
    <3>1. n + 1 # 1 /\ (n + 1) - 1 = n
      BY <1>1, <2>2
    <3> QED BY <1>1, <1>2, <1>3, <3>1 DEF Flattens
  <2> QED BY <1>2, <2>1, <2>3, <2>4 DEF more
<1> QED BY <1>4, <1>5

(* Sequences over B join to a sequence over B.                             *)
LEMMA FlatType ==
  ASSUME NEW B PROVE \A seqs \in Seq(Seq(B)) : FlattenSeq(seqs) \in Seq(B)
<1> DEFINE T == {seqs \in Seq(Seq(B)) : FlattenSeq(seqs) \in Seq(B)}
<1>1. <<>> \in T
  BY FlatEmpty, EmptySeq
<1>2. ASSUME NEW seqs \in T, NEW x \in Seq(B) PROVE Append(seqs, x) \in T
  <2>1. seqs \in Seq(Seq(B)) /\ FlattenSeq(seqs) \in Seq(B)
    OBVIOUS
  <2>2. FlattenSeq(Append(seqs, x)) \in Seq(B)
    BY <2>1, FlatAppend
  <2>3. Append(seqs, x) \in Seq(Seq(B))
    BY <2>1
  <2> QED BY <2>2, <2>3
<1> HIDE DEF T
<1>3. T = Seq(Seq(B))
  <2>1. T \in SUBSET Seq(Seq(B))
    BY DEF T
  <2> QED BY <1>1, <1>2, <2>1, SeqInduction
<1> QED BY <1>3 DEF T

(* What stands where in a concatenation. *)
LEMMA InConcat ==
  ASSUME NEW A, NEW s \in Seq(A), NEW t \in Seq(A)
  PROVE  /\ s \o t \in Seq(A) /\ Len(s \o t) = Len(s) + Len(t)
         /\ Len(s) \in Nat /\ Len(t) \in Nat
         /\ \A i \in 1..Len(s) : (s \o t)[i] = s[i]
         /\ \A i \in 1..Len(t) : (s \o t)[Len(s) + i] = t[i]
OBVIOUS

(* The sequences that f has for the elements of s, one after the other.    *)
Through(f, s)  == [i \in DOMAIN s |-> f[s[i]]]
Gathered(f, s) == FlattenSeq(Through(f, s))
Gives(f, D, B) == f \in [D -> Seq(B)]

(* What f has for each element, in their order.                            *)
LEMMA ThroughIs ==
  ASSUME NEW D, NEW B, NEW f, Gives(f, D, B), NEW s \in Seq(D)
  PROVE  /\ Through(f, s) \in Seq(Seq(B)) /\ Len(Through(f, s)) = Len(s)
         /\ \A i \in 1..Len(s) : Through(f, s)[i] = f[s[i]]
<1>1. Through(f, s) \in [1..Len(s) -> Seq(B)] /\ Len(s) \in Nat
  BY DEF Gives, Through
<1>2. \A i \in 1..Len(s) : Through(f, s)[i] = f[s[i]]
  BY DEF Through
<1> QED BY <1>1, <1>2

(* All together is a sequence over B.                                      *)
LEMMA GatheredIn ==
  ASSUME NEW D, NEW B, NEW f, Gives(f, D, B), NEW s \in Seq(D)
  PROVE  Gathered(f, s) \in Seq(B)
<1>1. Through(f, s) \in Seq(Seq(B))
  BY ThroughIs
<1> QED BY <1>1, FlatType DEF Gathered

(* Nothing is gathered from no element.                                    *)
LEMMA GatheredEmpty ==
  ASSUME NEW f PROVE Gathered(f, <<>>) = <<>>
<1>1. Through(f, <<>>) = <<>>
  BY DEF Through
<1> QED BY <1>1, FlatEmpty DEF Gathered

(* The last element comes last.                                            *)
LEMMA GatheredAppend ==
  ASSUME NEW D, NEW B, NEW f, Gives(f, D, B), NEW s \in Seq(D), NEW d \in D
  PROVE  Gathered(f, Append(s, d)) = Gathered(f, s) \o f[d]
<1> DEFINE g == Through(f, s)
           t == Append(s, d)
           h == Through(f, t)
           C == Seq(B)
<1>1. /\ t \in Seq(D) /\ Len(t) = Len(s) + 1 /\ t[Len(s) + 1] = d
      /\ \A i \in 1..Len(s) : t[i] = s[i]
      /\ Len(s) \in Nat
  BY AppendProperties, LenProperties
<1> HIDE DEF t
<1>3. g \in Seq(C) /\ Len(g) = Len(s) /\ \A i \in 1..Len(s) : g[i] = f[s[i]]
  BY ThroughIs
<1>4. h \in Seq(C) /\ Len(h) = Len(s) + 1 /\ \A i \in 1..(Len(s) + 1) : h[i] = f[t[i]]
  BY <1>1, ThroughIs
<1>5. f[d] \in C
  BY DEF Gives
<1>7. /\ Gathered(f, s) = FlattenSeq(g) /\ Gathered(f, t) = FlattenSeq(h)
      /\ Gathered(f, s) \in C
  BY GatheredIn DEF Gathered
<1> HIDE DEF g, h, C
<1>8. h = Append(g, f[d])
  <2>1. /\ Append(g, f[d]) \in Seq(C) /\ Len(Append(g, f[d])) = Len(g) + 1
        /\ \A i \in 1..Len(g) : Append(g, f[d])[i] = g[i]
        /\ Append(g, f[d])[Len(g) + 1] = f[d]
    BY <1>3, <1>5, AppendProperties
  <2>2. \A i \in 1..(Len(s) + 1) : Append(g, f[d])[i] = h[i]
    BY <1>1, <1>3, <1>4, <2>1
  <2> QED BY <1>3, <1>4, <2>1, <2>2, SeqEqual
<1>9. FlattenSeq(Append(g, f[d])) = FlattenSeq(g) \o f[d]
  BY <1>3, <1>5, <1>7, FlatAppend DEF C
<1> QED BY <1>7, <1>8, <1>9 DEF C, t

(* Two sequences, one after the other.                                     *)
LEMMA GatheredConcat ==
  ASSUME NEW D, NEW B, NEW f, Gives(f, D, B), NEW s \in Seq(D), NEW t \in Seq(D)
  PROVE  Gathered(f, s \o t) = Gathered(f, s) \o Gathered(f, t)
<1> DEFINE T == {r \in Seq(D) : Gathered(f, s \o r) = Gathered(f, s) \o Gathered(f, r)}
<1>0. /\ \A r \in Seq(D) : Gathered(f, r) \in Seq(B)
      /\ \A r \in Seq(D), d \in D : Gathered(f, Append(r, d)) = Gathered(f, r) \o f[d]
  <2>1. ASSUME NEW r \in Seq(D) PROVE Gathered(f, r) \in Seq(B)
    BY GatheredIn
  <2>2. ASSUME NEW r \in Seq(D), NEW d \in D
        PROVE  Gathered(f, Append(r, d)) = Gathered(f, r) \o f[d]
    BY GatheredAppend
  <2> QED BY <2>1, <2>2
<1>1. <<>> \in T
  <2>1. s \o <<>> = s /\ Gathered(f, s) \o <<>> = Gathered(f, s) /\ <<>> \in Seq(D)
    BY <1>0, ConcatEmptySeq, EmptySeq
  <2> QED BY <2>1, GatheredEmpty
<1>2. ASSUME NEW r \in T, NEW d \in D PROVE Append(r, d) \in T
  <2>1. r \in Seq(D) /\ Gathered(f, s \o r) = Gathered(f, s) \o Gathered(f, r)
    OBVIOUS
  <2>2. s \o Append(r, d) = Append(s \o r, d) /\ s \o r \in Seq(D) /\ Append(r, d) \in Seq(D)
    BY <2>1
  <2>3. Gathered(f, Append(s \o r, d)) = Gathered(f, s \o r) \o f[d]
    BY <1>0, <2>2
  <2>4. Gathered(f, Append(r, d)) = Gathered(f, r) \o f[d]
    BY <1>0, <2>1
  <2>5. (Gathered(f, s) \o Gathered(f, r)) \o f[d] = Gathered(f, s) \o (Gathered(f, r) \o f[d])
    <3>1. Gathered(f, s) \in Seq(B) /\ Gathered(f, r) \in Seq(B) /\ f[d] \in Seq(B)
      BY <1>0, <2>1 DEF Gives
    <3> DEFINE x == Gathered(f, s)
               y == Gathered(f, r)
               z == f[d]
    <3> HIDE DEF x, y, z
    <3>2. x \in Seq(B) /\ y \in Seq(B) /\ z \in Seq(B)
      BY <3>1 DEF x, y, z
    <3>3. (x \o y) \o z = x \o (y \o z)
      BY <3>2, ConcatAssociative
    <3> QED BY <3>3 DEF x, y, z
  <2> QED BY <2>1, <2>2, <2>3, <2>4, <2>5
<1>3. T = Seq(D)
  <2>1. T \in SUBSET Seq(D)
    OBVIOUS
  <2> HIDE DEF T
  <2> QED BY <1>1, <1>2, <2>1, SeqInduction
<1> QED BY <1>3

(* A single element.                                                       *)
LEMMA GatheredOne ==
  ASSUME NEW D, NEW B, NEW f, Gives(f, D, B), NEW d \in D
  PROVE  Gathered(f, <<d>>) = f[d]
<1>1. Append(<<>>, d) = <<d>> /\ <<>> \in Seq(D)
  OBVIOUS
<1>2. Gathered(f, Append(<<>>, d)) = Gathered(f, <<>>) \o f[d]
  BY <1>1, GatheredAppend
<1>3. <<>> \o f[d] = f[d]
  <2>1. f[d] \in Seq(B)
    BY DEF Gives
  <2> QED BY <2>1, ConcatEmptySeq
<1> QED BY <1>1, <1>2, <1>3, GatheredEmpty

(* What is left of a sequence. *)
LEMMA Rest ==
  ASSUME NEW A, NEW w \in Seq(A), NEW x \in Nat, NEW y \in Nat, x <= y, y <= Len(w)
  PROVE  /\ SubSeq(w, x + 1, y) \in Seq(A) /\ Len(SubSeq(w, x + 1, y)) = y - x
         /\ \A i \in 1..(y - x) : SubSeq(w, x + 1, y)[i] = w[x + i]
<1>1. x + 1 \in Int /\ y \in Int /\ \A i \in (x + 1)..y : w[i] \in A
  OBVIOUS
<1> DEFINE s == SubSeq(w, x + 1, y)
<1>2. /\ s \in Seq(A) /\ Len(s) = IF x + 1 <= y THEN y - (x + 1) + 1 ELSE 0
      /\ \A i \in 1..(y - (x + 1) + 1) : s[i] = w[(x + 1) + i - 1]
  BY <1>1, SubSeqProperties
<1> HIDE DEF s
<1>3. Len(s) = y - x
  BY <1>2
<1>4. y - (x + 1) + 1 = y - x /\ \A i \in 1..(y - x) : (x + 1) + i - 1 = x + i
  OBVIOUS
<1>5. \A i \in 1..(y - x) : s[i] = w[x + i]
  BY <1>2, <1>4
<1> QED BY <1>2, <1>3, <1>5 DEF s

(* What is left of what is left.                                           *)
LEMMA RestOfRest ==
  ASSUME NEW A, NEW w \in Seq(A), NEW x \in Nat, NEW y \in Nat, x <= y, y <= Len(w),
         NEW d \in Nat, d <= y - x
  PROVE  SubSeq(SubSeq(w, x + 1, y), d + 1, y - x) = SubSeq(w, (x + d) + 1, y)
<1> DEFINE s == SubSeq(w, x + 1, y)
           t == SubSeq(s, d + 1, y - x)
           u == SubSeq(w, (x + d) + 1, y)
<1>1. s \in Seq(A) /\ Len(s) = y - x /\ \A i \in 1..(y - x) : s[i] = w[x + i]
  BY Rest
<1> HIDE DEF s
<1>2. y - x \in Nat /\ x + d \in Nat /\ x + d <= y
  OBVIOUS
<1>3. t \in Seq(A) /\ Len(t) = (y - x) - d /\ \A i \in 1..((y - x) - d) : t[i] = s[d + i]
  BY <1>1, <1>2, Rest
<1>4. u \in Seq(A) /\ Len(u) = y - (x + d) /\ \A i \in 1..(y - (x + d)) : u[i] = w[(x + d) + i]
  BY <1>2, Rest
<1> HIDE DEF t, u
<1>5. (y - x) - d = y - (x + d)
  OBVIOUS
<1>6. ASSUME NEW i \in 1..((y - x) - d) PROVE t[i] = u[i]
  <2>1. d + i \in 1..(y - x) /\ x + (d + i) = (x + d) + i
    OBVIOUS
  <2> QED BY <1>1, <1>3, <1>4, <1>5, <2>1
<1>7. t = u
  BY <1>3, <1>4, <1>5, <1>6, SeqEqual
<1> QED BY <1>7 DEF s, t, u

(* Two pieces that touch are one.                                          *)
LEMMA Adjacent ==
  ASSUME NEW A, NEW w \in Seq(A), NEW x \in Nat, NEW y \in Nat, NEW z \in Nat,
         x <= y, y <= z, z <= Len(w)
  PROVE  SubSeq(w, x + 1, y) \o SubSeq(w, y + 1, z) = SubSeq(w, x + 1, z)
<1>1. /\ x + 1 \in 1..(Len(w) + 1) /\ y \in ((x + 1) - 1)..Len(w) /\ z \in y..Len(w)
  OBVIOUS
<1> QED BY <1>1, ConcatAdjacentSubSeq

(* What stands before a place in a sequence, one place further, and all.   *)
LEMMA Beginnings ==
  ASSUME NEW A, NEW s \in Seq(A)
  PROVE  /\ SubSeq(s, 1, 0) = <<>>
         /\ \A i \in 0..Len(s) : SubSeq(s, 1, i) \in Seq(A)
         /\ \A i \in Nat : i + 1 <= Len(s) => SubSeq(s, 1, i + 1) = Append(SubSeq(s, 1, i), s[i + 1])
<1>1. Len(s) \in Nat /\ \A i \in 1..Len(s) : s[i] \in A
  OBVIOUS
<1>2. \A i \in 0..Len(s) : /\ SubSeq(s, 1, i) \in Seq(A) /\ Len(SubSeq(s, 1, i)) = i
                           /\ \A j \in 1..i : SubSeq(s, 1, i)[j] = s[j]
  <2> TAKE i \in 0..Len(s)
  <2>1. 0 \in Nat /\ i \in Nat /\ 0 <= i /\ i <= Len(s) /\ 0 + 1 = 1 /\ i - 0 = i
        /\ \A j \in 1..i : 0 + j = j
    BY <1>1
  <2> QED BY <2>1, Rest
<1>3. SubSeq(s, 1, 0) = <<>>
  <2>1. 0 \in 0..Len(s)
    BY <1>1
  <2>2. SubSeq(s, 1, 0) \in Seq(A) /\ Len(SubSeq(s, 1, 0)) = 0
    BY <1>2, <2>1
  <2> QED BY <2>2, EmptySeq
<1>4. ASSUME NEW i \in Nat, i + 1 <= Len(s)
      PROVE  SubSeq(s, 1, i + 1) = Append(SubSeq(s, 1, i), s[i + 1])
  <2> DEFINE t == SubSeq(s, 1, i)
             u == SubSeq(s, 1, i + 1)
             e == s[i + 1]
  <2>1. /\ t \in Seq(A) /\ Len(t) = i /\ (\A j \in 1..i : t[j] = s[j])
        /\ u \in Seq(A) /\ Len(u) = i + 1 /\ (\A j \in 1..(i + 1) : u[j] = s[j])
        /\ e \in A /\ e = s[i + 1]
    <3>1. i \in 0..Len(s) /\ i + 1 \in 0..Len(s) /\ i + 1 \in 1..Len(s)
      BY <1>1, <1>4
    <3> QED BY <1>1, <1>2, <3>1
  <2> HIDE DEF t, u, e
  <2>2. /\ Append(t, e) \in Seq(A) /\ Len(Append(t, e)) = Len(t) + 1
        /\ (\A j \in 1..Len(t) : Append(t, e)[j] = t[j]) /\ Append(t, e)[Len(t) + 1] = e
    BY <2>1, AppendProperties
  <2>3. \A j \in 1..(i + 1) : u[j] = Append(t, e)[j]
    BY <2>1, <2>2
  <2>4. u = Append(t, e)
    BY <2>1, <2>2, <2>3, SeqEqual
  <2> QED BY <2>4 DEF t, u, e
<1> QED BY <1>2, <1>3, <1>4

(* Concatenation. *)
LEMMA Regroup ==
  ASSUME NEW B
  PROVE  \A p, q, r \in Seq(B) : (p \o q) \o r = p \o (q \o r) /\ q \o r \in Seq(B)
<1> TAKE p, q, r \in Seq(B)
<1>1. (p \o q) \o r = p \o (q \o r)
  BY ConcatAssociative
<1> QED BY <1>1, ConcatProperties

(* A sequence is the beginning of what it is continued to. *)
LEMMA PrefixOfConcat ==
  ASSUME NEW B, NEW s \in Seq(B), NEW u \in Seq(B)
  PROVE  IsPrefix(s, s \o u)
<1> DEFINE t == s \o u
           n == Len(s)
<1>1. /\ t \in Seq(B) /\ Len(t) = Len(s) + Len(u) /\ Len(s) \in Nat /\ Len(u) \in Nat
      /\ \A i \in 1..Len(s) : t[i] = s[i]
  BY InConcat
<1> HIDE DEF t
<1>2. n \in Nat /\ 0 \in Nat /\ 0 <= n /\ n <= Len(s) /\ n <= Len(t)
      /\ 0 + 1 = 1 /\ n - 0 = n /\ \A i \in 1..n : 0 + i = i
  BY <1>1
<1> HIDE DEF n
<1>3. SubSeq(s, 1, n) \in Seq(B) /\ Len(SubSeq(s, 1, n)) = n
      /\ \A i \in 1..n : SubSeq(s, 1, n)[i] = s[i]
  BY <1>2, Rest
<1>4. SubSeq(t, 1, n) \in Seq(B) /\ Len(SubSeq(t, 1, n)) = n
      /\ \A i \in 1..n : SubSeq(t, 1, n)[i] = t[i]
  BY <1>1, <1>2, Rest
<1>5. \A i \in 1..n : SubSeq(s, 1, n)[i] = SubSeq(t, 1, n)[i]
  BY <1>1, <1>3, <1>4 DEF n
<1>6. SubSeq(s, 1, n) = SubSeq(t, 1, n)
  BY <1>3, <1>4, <1>5, SeqEqual
<1> QED BY <1>2, <1>6 DEF IsPrefix, n, t
=============================================================================
