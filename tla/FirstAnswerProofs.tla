------------------------- MODULE FirstAnswerProofs -------------------------
(***************************************************************************)
(* The beginning of a turn, for every workspace, every list of items,      *)
(* every budget and every answer of the provider: the manifest of an       *)
(* undisturbed workspace depends on its files only (PrefixIsStable), a     *)
(* capsule has its sections in order and no source twice                   *)
(* (CapsuleIsWellFormed) and leaves out nothing that would fit             *)
(* (OmissionIsJustified), what is shown of an answer is the text of its    *)
(* first blocks, wherever the network cuts it (FramingIsInvisible), an     *)
(* answer that counts as complete is what its blocks mean                  *)
(* (CompletedIsTheAnswer), and one that fails has failed for a reason      *)
(* (FailuresHaveCauses).                                                   *)
(*                                                                         *)
(* OmissionIsJustified needs that the cost of a list grows with the list:  *)
(* an item is left out when it does not fit behind those that were         *)
(* included so far, and the property asks whether it would fit into the    *)
(* capsule that is built in the end.  Items are taken by placement         *)
(* (OrderInv), so that later ones come behind it or beside it, and neither *)
(* makes room.                                                             *)
(*                                                                         *)
(* The three properties of the answer need where the parser stands between *)
(* two pieces (AnswerInv): it has what is left of the wire behind some     *)
(* block m, and the accumulator has taken the choices of the blocks up to  *)
(* m except those that wait in pending (Hearing).  A piece keeps this      *)
(* because the first separator in what is left ends block m + 1            *)
(* (FindsTheNext), which is read as that block, as none if it is a         *)
(* comment, or as a failure (ParsedIs); [DONE] is the last block, so that  *)
(* a stream that is ending has heard all of them (EndsAt).                 *)
(*                                                                         *)
(* What was taken is then what the blocks mean.  The accumulator extends   *)
(* one entry per number, piece by piece, and the meaning of an answer      *)
(* gathers the pieces of a number: that the two agree goes by induction    *)
(* over the choices (Heard, TakenMeans).                                   *)
(***************************************************************************)
EXTENDS FirstAnswer, SequenceFacts, FiniteSetTheorems

(* Lists of items, and what they cost. *)

(* Products and quotients grow with their first argument. *)
LEMMA ProductGrows ==
  ASSUME NEW a \in Nat, NEW b \in Nat, a <= b, NEW c \in Nat
  PROVE  a * c \in Nat /\ b * c \in Nat /\ a * c <= b * c
<1>1. b - a \in Nat /\ b = a + (b - a)
  OBVIOUS
<1>2. (b - a) * c \in Nat /\ a * c \in Nat
  BY <1>1
<1>3. b * c = a * c + (b - a) * c
  BY <1>1
<1> QED BY <1>2, <1>3

(* So do quotients.                                                        *)
LEMMA QuotientGrows ==
  ASSUME NEW a \in Nat, NEW b \in Nat, a <= b, NEW d \in Nat, d > 0
  PROVE  a \div d \in Nat /\ b \div d \in Nat /\ a \div d <= b \div d
<1>1. a \div d \in Nat /\ b \div d \in Nat
  OBVIOUS
<1>2. a \div d <= b \div d
  OBVIOUS
<1> QED BY <1>1, <1>2

(* More bytes are not fewer tokens.                                        *)
LEMMA EstimateGrows ==
  ASSUME NEW a \in Nat, NEW b \in Nat, a <= b
  PROVE  Estimate(a) \in Nat /\ Estimate(b) \in Nat /\ Estimate(a) <= Estimate(b)
<1>1. Slope \in Nat /\ SlopeScale \in Nat /\ SlopeScale > 0 /\ Intercept \in Int
  BY CapsuleAssumption
<1> DEFINE x == a * Slope
           y == b * Slope
<1>2. x \in Nat /\ y \in Nat /\ x <= y
  BY <1>1, ProductGrows
<1> HIDE DEF x, y
<1> DEFINE p == x \div SlopeScale
           q == y \div SlopeScale
<1>3. p \in Nat /\ q \in Nat /\ p <= q
  BY <1>1, <1>2, QuotientGrows
<1>4. Estimate(a) = IF p + Intercept > 0 THEN p + Intercept ELSE 0
  BY DEF Estimate, x
<1>5. Estimate(b) = IF q + Intercept > 0 THEN q + Intercept ELSE 0
  BY DEF Estimate, y
<1> HIDE DEF p, q
<1> QED BY <1>1, <1>3, <1>4, <1>5
-----------------------------------------------------------------------------
IsItem(item) == Placement(item) \in 0..2 /\ item.size \in Nat

(* A list that a capsule may hold. *)
IsList(list) == IsSequence(list) /\ \A i \in DOMAIN list : IsItem(list[i])

ByPlacement(list) ==
  \A i, j \in DOMAIN list : i < j => Placement(list[i]) <= Placement(list[j])

(* A list with an item more. *)
LEMMA AppendItem ==
  ASSUME NEW list, IsList(list), NEW item, IsItem(item)
  PROVE  /\ IsList(Append(list, item)) /\ Len(list) \in Nat
         /\ DOMAIN list = 1..Len(list) /\ DOMAIN Append(list, item) = 1..(Len(list) + 1)
         /\ Len(Append(list, item)) = Len(list) + 1
         /\ \A i \in 1..Len(list) : Append(list, item)[i] = list[i]
         /\ Append(list, item)[Len(list) + 1] = item
<1>1. IsSequence(list) /\ \A i \in DOMAIN list : IsItem(list[i])
  BY DEF IsList
<1>2. Len(list) \in Nat /\ DOMAIN list = 1..Len(list)
  BY <1>1, SequencesAre
<1> DEFINE more == Append(list, item)
<1>3. /\ IsSequence(more) /\ Len(more) = Len(list) + 1
      /\ \A i \in 1..Len(list) : more[i] = list[i]
      /\ more[Len(list) + 1] = item
  BY <1>1, AppendSequence
<1> HIDE DEF more
<1>4. DOMAIN more = 1..(Len(list) + 1)
  BY <1>3, SequencesAre
<1>5. \A i \in DOMAIN more : IsItem(more[i])
  <2> TAKE i \in DOMAIN more
  <2>1. CASE i \in 1..Len(list)
    BY <1>1, <1>2, <1>3, <2>1
  <2>2. CASE i = Len(list) + 1
    BY <1>3, <2>2
  <2> QED BY <1>2, <1>4, <2>1, <2>2
<1> QED BY <1>2, <1>3, <1>4, <1>5 DEF more, IsList

(* The sum of the sizes. *)
Sums(bytes, list, m) ==
  bytes = [n \in 0..m |-> IF n = 0 THEN 0 ELSE bytes[n - 1] + 1 + list[n].size]

(* There is such a sum of every list,                                      *)
LEMMA SumsExist ==
  ASSUME NEW list
  PROVE  \A m \in Nat : \E bytes : Sums(bytes, list, m)
<1> DEFINE T == {m \in Nat : \E bytes : Sums(bytes, list, m)}
<1>1. 0 \in T
  <2> DEFINE b == [n \in 0..0 |-> 0]
  <2>1. Sums(b, list, 0)
    BY DEF Sums
  <2> QED BY <2>1
<1>2. ASSUME NEW m \in T PROVE m + 1 \in T
  <2>1. PICK b : Sums(b, list, m)
    OBVIOUS
  <2> DEFINE c == [n \in 0..(m + 1) |-> IF n = m + 1 THEN b[m] + 1 + list[m + 1].size ELSE b[n]]
  <2>2. ASSUME NEW n \in 0..(m + 1)
        PROVE  c[n] = IF n = 0 THEN 0 ELSE c[n - 1] + 1 + list[n].size
    <3>1. CASE n = m + 1
      <4>1. n # 0 /\ n - 1 = m /\ m \in 0..(m + 1) /\ m # m + 1
        BY <3>1
      <4>2. c[n - 1] = b[m]
        BY <4>1
      <4> QED BY <3>1, <4>1, <4>2
    <3>2. CASE n # m + 1
      <4>1. n \in 0..m
        BY <3>2
      <4>2. b[n] = IF n = 0 THEN 0 ELSE b[n - 1] + 1 + list[n].size
        BY <2>1, <4>1 DEF Sums
      <4>3. n # 0 => n - 1 \in 0..(m + 1) /\ n - 1 # m + 1
        BY <4>1
      <4>4. n # 0 => c[n - 1] = b[n - 1]
        BY <4>3
      <4>5. c[n] = b[n]
        BY <3>2
      <4> QED BY <4>2, <4>4, <4>5
    <3> QED BY <3>1, <3>2
  <2>3. Sums(c, list, m + 1)
    BY <2>2 DEF Sums
  <2> HIDE DEF c
  <2>4. \E bytes : Sums(bytes, list, m + 1)
    BY <2>3
  <2> QED BY <2>4
<1>3. T = Nat
  <2>1. T \in SUBSET Nat
    OBVIOUS
  <2> HIDE DEF T
  <2> QED BY <1>1, <1>2, <2>1, Induction
<1> QED BY <1>3

(* and it is what ItemBytes is.                                            *)
LEMMA BytesAre ==
  ASSUME NEW list, IsSequence(list)
  PROVE  \E bytes : Sums(bytes, list, Len(list)) /\ ItemBytes(list) = bytes[Len(list)]
<1>1. Len(list) \in Nat
  BY SequencesAre
<1>2. \E bytes : Sums(bytes, list, Len(list))
  BY <1>1, SumsExist
<1> QED BY <1>2, Zenon DEF Sums, ItemBytes

(* One item more adds its size and a blank line. *)
LEMMA BytesOfAppend ==
  ASSUME NEW list, IsList(list), NEW item, IsItem(item)
  PROVE  /\ ItemBytes(list) \in Nat
         /\ ItemBytes(Append(list, item)) = ItemBytes(list) + 1 + item.size
<1> DEFINE more == Append(list, item)
           m == Len(list)
<1>1. /\ IsList(more) /\ m \in Nat /\ DOMAIN list = 1..m /\ Len(more) = m + 1
      /\ \A i \in 1..m : more[i] = list[i]
      /\ more[m + 1] = item
  BY AppendItem
<1>2. IsSequence(list) /\ IsSequence(more)
  BY <1>1 DEF IsList
<1>3. \A i \in 1..m : list[i].size \in Nat
  BY <1>1 DEF IsList, IsItem
<1>4. PICK b : Sums(b, list, m) /\ ItemBytes(list) = b[m]
  BY <1>2, BytesAre
<1> HIDE DEF more
<1>5. PICK c : Sums(c, more, m + 1) /\ ItemBytes(more) = c[m + 1]
  BY <1>1, <1>2, BytesAre
<1> HIDE DEF m
<1> DEFINE T == {n \in Nat : n <= m => b[n] \in Nat /\ c[n] = b[n]}
<1>6. 0 \in T
  <2>1. 0 \in 0..m /\ 0 \in 0..(m + 1)
    BY <1>1
  <2>2. b[0] = 0 /\ c[0] = 0
    BY <1>4, <1>5, <2>1 DEF Sums
  <2> QED BY <2>2
<1>7. ASSUME NEW n \in T PROVE n + 1 \in T
  <2> SUFFICES ASSUME n + 1 <= m PROVE b[n + 1] \in Nat /\ c[n + 1] = b[n + 1]
    OBVIOUS
  <2>1. n + 1 \in 0..m /\ n + 1 \in 0..(m + 1) /\ n + 1 \in 1..m /\ (n + 1) - 1 = n
        /\ n + 1 # 0 /\ n <= m
    BY <1>1
  <2>2. b[n + 1] = b[(n + 1) - 1] + 1 + list[n + 1].size
    BY <1>4, <2>1 DEF Sums
  <2>3. c[n + 1] = c[(n + 1) - 1] + 1 + more[n + 1].size
    BY <1>5, <2>1 DEF Sums
  <2>4. b[n] \in Nat /\ c[n] = b[n]
    BY <2>1
  <2>5. list[n + 1].size \in Nat /\ more[n + 1] = list[n + 1]
    BY <1>1, <1>3, <2>1
  <2> QED BY <2>1, <2>2, <2>3, <2>4, <2>5
<1>8. T = Nat
  <2>1. T \in SUBSET Nat
    OBVIOUS
  <2> HIDE DEF T
  <2> QED BY <1>6, <1>7, <2>1, Induction
<1>9. b[m] \in Nat /\ c[m] = b[m]
  <2>1. m \in T
    BY <1>1, <1>8
  <2> QED BY <1>1, <2>1
<1>10. c[m + 1] = c[m] + 1 + item.size
  <2>1. m + 1 \in 0..(m + 1) /\ m + 1 # 0 /\ (m + 1) - 1 = m
    BY <1>1
  <2>2. c[m + 1] = c[(m + 1) - 1] + 1 + more[m + 1].size
    BY <1>5, <2>1 DEF Sums
  <2> QED BY <1>1, <2>1, <2>2
<1> QED BY <1>4, <1>5, <1>9, <1>10 DEF more

(* The starts of sections do not move when an item is added, *)
LEMMA StartsOfAppend ==
  ASSUME NEW list, IsList(list), NEW item, IsItem(item)
  PROVE  /\ IsFiniteSet(SectionStarts(list)) /\ Cardinality(SectionStarts(list)) \in Nat
         /\ SectionStarts(list) \subseteq 1..Len(list)
         /\ SectionStarts(Append(list, item)) =
              SectionStarts(list) \cup
                IF list = <<>> THEN {1}
                ELSE IF Placement(item) # Placement(list[Len(list)])
                THEN {Len(list) + 1} ELSE {}
<1> DEFINE more == Append(list, item)
           m == Len(list)
<1>1. /\ m \in Nat /\ DOMAIN list = 1..m /\ DOMAIN more = 1..(m + 1)
      /\ \A i \in 1..m : more[i] = list[i]
      /\ more[m + 1] = item
  BY AppendItem
<1>2. (list = <<>>) <=> (m = 0)
  <2>1. PICK A : list \in Seq(A)
    BY DEF IsList, IsSequence
  <2> QED BY <2>1
<1> HIDE DEF more
<1>3. SectionStarts(list) \subseteq 1..m
  BY <1>1 DEF SectionStarts
<1>4. IsFiniteSet(1..m)
  BY <1>1, FS_Interval
<1>5. IsFiniteSet(SectionStarts(list)) /\ Cardinality(SectionStarts(list)) \in Nat
  BY <1>3, <1>4, FS_Subset, FS_CardinalityType
<1> HIDE DEF m
<1>6. ASSUME NEW i \in 1..(m + 1), i # m + 1
      PROVE  i \in SectionStarts(more) <=> i \in SectionStarts(list)
  <2>1. i \in 1..m /\ (i # 1 => i - 1 \in 1..m)
    BY <1>1, <1>6
  <2> QED BY <1>1, <2>1 DEF SectionStarts
<1>7. m + 1 \in SectionStarts(more) <=> m = 0 \/ Placement(item) # Placement(list[m])
  <2>1. m + 1 \in 1..(m + 1) /\ (m + 1) - 1 = m /\ (m + 1 = 1 <=> m = 0)
    BY <1>1
  <2>2. m # 0 => more[m] = list[m]
    BY <1>1
  <2> QED BY <1>1, <2>1, <2>2 DEF SectionStarts
<1>8. SectionStarts(more) \subseteq 1..(m + 1)
  BY <1>1 DEF SectionStarts
<1>9. m + 1 \notin 1..m
  BY <1>1
<1>10. SectionStarts(more) = SectionStarts(list) \cup
          IF m = 0 THEN {1} ELSE IF Placement(item) # Placement(list[m]) THEN {m + 1} ELSE {}
  BY <1>1, <1>3, <1>6, <1>7, <1>8, <1>9
<1> QED BY <1>2, <1>3, <1>5, <1>10 DEF m, more

(* Min of a set of numbers is its smallest member.                         *)
LEMMA MinIs ==
  ASSUME NEW S \in SUBSET Nat, S # {}
  PROVE  /\ Min(S) \in S /\ \A x \in S : Min(S) <= x
         /\ \A m \in S : (\A x \in S : m <= x) => Min(S) = m
<1>1. PICK m \in S : \A x \in S : ~(x < m)
  BY Smallest
<1>2. m \in S /\ \A x \in S : m <= x
  BY <1>1
<1>3. Min(S) \in S /\ \A x \in S : Min(S) <= x
  BY <1>2 DEF Min
<1>4. ASSUME NEW k \in S, \A x \in S : k <= x PROVE Min(S) = k
  <2>1. Min(S) <= k /\ k <= Min(S) /\ k \in Nat /\ Min(S) \in Nat
    BY <1>3, <1>4
  <2> QED BY <2>1
<1> QED BY <1>3, <1>4

(* A list that is longer than another, and has its sections, costs no less. *)
LEMMA RenderedGrows ==
  ASSUME NEW s, NEW t, s # <<>>, t # <<>>,
         ItemBytes(s) \in Nat, ItemBytes(t) \in Nat, ItemBytes(s) <= ItemBytes(t),
         IsFiniteSet(SectionStarts(t)), SectionStarts(s) \subseteq SectionStarts(t)
  PROVE  /\ RenderedBytes(s) \in Nat /\ RenderedBytes(t) \in Nat
         /\ InputTokens(s) <= InputTokens(t)
         /\ InputTokens(s) \in Nat /\ InputTokens(t) \in Nat
<1> DEFINE m == Cardinality(SectionStarts(s))
           n == Cardinality(SectionStarts(t))
           h == 1 + SectionHeader
<1>1. m \in Nat /\ n \in Nat /\ m <= n
  BY FS_Subset, FS_CardinalityType
<1>2. h \in Nat /\ CapsuleHeader \in Nat
  BY CapsuleAssumption
<1> HIDE DEF m, n, h
<1>3. m * h \in Nat /\ n * h \in Nat /\ m * h <= n * h
  BY <1>1, <1>2, ProductGrows
<1> DEFINE a == m * h
           b == n * h
<1>4. RenderedBytes(s) = CapsuleHeader + ItemBytes(s) + a
  BY DEF RenderedBytes, m, h
<1>5. RenderedBytes(t) = CapsuleHeader + ItemBytes(t) + b
  BY DEF RenderedBytes, n, h
<1>6. a \in Nat /\ b \in Nat /\ a <= b
  BY <1>3
<1> HIDE DEF a, b
<1>7. RenderedBytes(s) \in Nat /\ RenderedBytes(t) \in Nat
      /\ RenderedBytes(s) <= RenderedBytes(t)
  BY <1>2, <1>4, <1>5, <1>6
<1> QED BY <1>7, EstimateGrows DEF InputTokens

(* A list whose items are all of the stable prefix is one section. *)
LEMMA StableIsWhole ==
  ASSUME NEW list, IsList(list), list # <<>>,
         \A i \in DOMAIN list : Placement(list[i]) = StablePrefix
  PROVE  StableTokens(list) = Estimate(SectionHeader + ItemBytes(list))
<1> DEFINE m == Len(list)
<1>1. PICK A : list \in Seq(A)
  BY DEF IsList, IsSequence
<1>2. m \in Nat /\ m # 0 /\ DOMAIN list = 1..m
  BY <1>1
<1>3. SectionStarts(list) = {1}
  <2>1. \A i \in 1..m : i # 1 => i - 1 \in 1..m
    BY <1>2
  <2>2. \A i \in 1..m : i # 1 => Placement(list[i]) = Placement(list[i - 1])
    BY <1>2, <2>1
  <2> QED BY <1>2, <2>2 DEF SectionStarts
<1>4. {i \in SectionStarts(list) : Placement(list[i]) = StablePrefix} = {1}
  BY <1>2, <1>3
<1>5. Min({1}) = 1
  BY MinIs
<1>6. {j \in SectionStarts(list) : j > 1} = {}
  BY <1>3
<1>7. SectionFrom(list, 1) = list
  <2>1. SectionFrom(list, 1) = SubSeq(list, 1, m)
    BY <1>6 DEF SectionFrom
  <2>2. SubSeq(list, 1, m) = list
    BY <1>1
  <2> QED BY <2>1, <2>2
<1> QED BY <1>4, <1>5, <1>7 DEF StableTokens

(* The section after m ends before the next start, or with the list. *)
LEMMA SectionIs ==
  ASSUME NEW list, NEW m, NEW after, after = {j \in SectionStarts(list) : j > m}
  PROVE  /\ after = {} => SectionFrom(list, m) = SubSeq(list, m, Len(list))
         /\ after # {} => SectionFrom(list, m) = SubSeq(list, m, Min(after) - 1)
BY DEF SectionFrom

(* The stable prefix is the first section of its placement. *)
LEMMA StableIs ==
  ASSUME NEW list, NEW S, S = {i \in SectionStarts(list) : Placement(list[i]) = StablePrefix}
  PROVE  /\ S = {} => StableTokens(list) = 0
         /\ S # {} => StableTokens(list) =
                        Estimate(SectionHeader + ItemBytes(SectionFrom(list, Min(S))))
BY DEF StableTokens

(* The section that an item starts does not change what came before it. *)
LEMMA SectionOfAppend ==
  ASSUME NEW list, IsList(list), NEW item, IsItem(item),
         NEW m \in SectionStarts(list), Placement(item) # Placement(list[m])
  PROVE  SectionFrom(Append(list, item), m) = SectionFrom(list, m)
<1> DEFINE more   == Append(list, item)
           n      == Len(list)
           starts == SectionStarts(list)
           later  == {j \in starts : j > m}
           after  == {j \in SectionStarts(more) : j > m}
<1>1. PICK A : list \in Seq(A)
  BY DEF IsList, IsSequence
<1>2. /\ n \in Nat /\ DOMAIN list = 1..n /\ starts \subseteq 1..n
      /\ m \in 1..n /\ list # <<>>
  <2>1. starts \subseteq 1..n
    BY StartsOfAppend
  <2> QED BY <1>1, <2>1
<1>3. SectionStarts(more) =
        starts \cup IF Placement(item) # Placement(list[n]) THEN {n + 1} ELSE {}
  BY <1>2, StartsOfAppend
<1>4. \A i \in 0..n : SubSeq(more, m, i) = SubSeq(list, m, i)
  <2> TAKE i \in 0..n
  <2>1. list \in Seq(A \cup {item})
    BY <1>1, SeqMonotonic
  <2>2. more \in Seq(A \cup {item}) /\ \A j \in 1..n : more[j] = list[j]
    BY <2>1
  <2> HIDE DEF more
  <2>3. Len(more) = n + 1
    BY AppendItem DEF more
  <2>4. /\ SubSeq(list, m, i) \in Seq(A \cup {item})
        /\ SubSeq(more, m, i) \in Seq(A \cup {item})
        /\ Len(SubSeq(list, m, i)) = IF m <= i THEN i - m + 1 ELSE 0
        /\ Len(SubSeq(more, m, i)) = IF m <= i THEN i - m + 1 ELSE 0
    BY <1>2, <2>1, <2>2, <2>3
  <2>5. \A j \in 1..(i - m + 1) : /\ SubSeq(list, m, i)[j] = list[m + j - 1]
                                 /\ SubSeq(more, m, i)[j] = more[m + j - 1]
                                 /\ m + j - 1 \in 1..n
    BY <1>2, <2>1, <2>2, <2>3
  <2> DEFINE a == SubSeq(list, m, i)
             b == SubSeq(more, m, i)
  <2>6. Len(a) = Len(b) /\ \A j \in 1..Len(a) : j \in 1..(i - m + 1)
    BY <1>2, <2>4
  <2>7. \A j \in 1..Len(a) : a[j] = b[j]
    BY <2>2, <2>5, <2>6
  <2> HIDE DEF a, b
  <2>8. a = b
    BY <2>4, <2>6, <2>7, SeqEqual DEF a, b
  <2> QED BY <2>8 DEF a, b
<1> HIDE DEF more
<1>0. /\ after = {} => SectionFrom(more, m) = SubSeq(more, m, Len(more))
      /\ after # {} => SectionFrom(more, m) = SubSeq(more, m, Min(after) - 1)
  <2> DEFINE B == after
  <2>1. B = {j \in SectionStarts(more) : j > m}
    OBVIOUS
  <2> HIDE DEF after
  <2>2. /\ B = {} => SectionFrom(more, m) = SubSeq(more, m, Len(more))
        /\ B # {} => SectionFrom(more, m) = SubSeq(more, m, Min(B) - 1)
    BY <2>1, SectionIs
  <2> QED BY <2>2 DEF after
<1>5. CASE later # {}
  <2>1. later \in SUBSET Nat /\ after \in SUBSET Nat /\ later \subseteq after /\ after # {}
    BY <1>2, <1>3, <1>5
  <2> DEFINE q == Min(later)
  <2>2. q \in later /\ \A x \in later : q <= x
    BY <1>5, <2>1, MinIs
  <2> HIDE DEF q
  <2>3. q \in after /\ \A x \in after : q <= x
    BY <1>2, <1>3, <2>1, <2>2
  <2>4. Min(after) = q
    <3> HIDE DEF after
    <3> QED BY <2>1, <2>3, MinIs
  <2>5. q - 1 \in 0..n
    BY <1>2, <2>2
  <2>6. SectionFrom(list, m) = SubSeq(list, m, q - 1)
    BY <1>5 DEF SectionFrom, q
  <2>7. SectionFrom(more, m) = SubSeq(more, m, q - 1)
    <3> HIDE DEF after
    <3> QED BY <1>0, <2>1, <2>4
  <2> QED BY <1>4, <2>5, <2>6, <2>7 DEF more
<1>6. CASE later = {}
  <2> DEFINE T == {i \in Nat : m + i <= n => Placement(list[m + i]) = Placement(list[m])}
  <2>1. 0 \in T
    BY <1>2
  <2>2. ASSUME NEW i \in T PROVE i + 1 \in T
    <3> SUFFICES ASSUME m + (i + 1) <= n
                 PROVE  Placement(list[m + (i + 1)]) = Placement(list[m])
      OBVIOUS
    <3>1. /\ m + (i + 1) \in 1..n /\ m + (i + 1) > m /\ m + i <= n
          /\ (m + (i + 1)) - 1 = m + i /\ m + (i + 1) # 1
      BY <1>2
    <3>2. m + (i + 1) \notin starts
      BY <1>6, <3>1
    <3>3. Placement(list[m + (i + 1)]) = Placement(list[m + i])
      BY <1>2, <3>1, <3>2 DEF SectionStarts
    <3> QED BY <3>1, <3>3
  <2>3. T = Nat
    <3>1. T \in SUBSET Nat
      OBVIOUS
    <3> HIDE DEF T
    <3> QED BY <2>1, <2>2, <3>1, Induction
  <2>4. Placement(list[n]) = Placement(list[m])
    <3>1. n - m \in T /\ m + (n - m) = n
      <4> HIDE DEF T
      <4> QED BY <1>2, <2>3
    <3> QED BY <1>2, <3>1
  <2>5. after = {n + 1}
    BY <1>2, <1>3, <1>6, <2>4
  <2>6. Min(after) = n + 1
    BY <1>2, <2>5, MinIs
  <2>7. SectionFrom(list, m) = SubSeq(list, m, n)
    BY <1>6 DEF SectionFrom
  <2>8. SectionFrom(more, m) = SubSeq(more, m, n)
    <3>1. after # {}
      BY <2>5
    <3> HIDE DEF after
    <3>2. SectionFrom(more, m) = SubSeq(more, m, (n + 1) - 1)
      BY <1>0, <2>6, <3>1
    <3>3. (n + 1) - 1 = n
      BY <1>2
    <3> QED BY <3>2, <3>3
  <2> QED BY <1>2, <1>4, <2>7, <2>8 DEF more
<1> QED BY <1>5, <1>6 DEF more

(* An item behind the stable prefix does not make it longer. *)
LEMMA StableOfAppend ==
  ASSUME NEW list, IsList(list), NEW item, IsItem(item), Placement(item) # StablePrefix
  PROVE  StableTokens(Append(list, item)) = StableTokens(list)
<1> DEFINE more   == Append(list, item)
           n      == Len(list)
           Stable(l) == {i \in SectionStarts(l) : Placement(l[i]) = StablePrefix}
<1>1. /\ n \in Nat /\ SectionStarts(list) \subseteq 1..n
      /\ \A i \in 1..n : more[i] = list[i]
      /\ more[n + 1] = item
      /\ SectionStarts(list) \subseteq SectionStarts(more)
      /\ SectionStarts(more) \subseteq SectionStarts(list) \cup {n + 1}
  <2>1. list = <<>> => n + 1 = 1
    OBVIOUS
  <2> QED BY <2>1, AppendItem, StartsOfAppend
<1> HIDE DEF more
<1>2. Stable(more) = Stable(list)
  BY <1>1
<1> DEFINE S == Stable(list)
<1>3. S = Stable(list) /\ S = Stable(more)
  BY <1>2
<1>4. CASE S = {}
  <2> HIDE DEF S
  <2>1. StableTokens(list) = 0
    BY <1>3, <1>4, StableIs
  <2>2. StableTokens(more) = 0
    BY <1>3, <1>4, StableIs
  <2> QED BY <2>1, <2>2 DEF more
<1>5. CASE S # {}
  <2>0. S \in SUBSET Nat
    BY <1>1
  <2> DEFINE m == Min(S)
  <2>1. m \in SectionStarts(list) /\ Placement(list[m]) = StablePrefix
    <3>1. m \in S
      <4> HIDE DEF S
      <4> QED BY <1>5, <2>0, MinIs
    <3> HIDE DEF m
    <3> QED BY <3>1
  <2> HIDE DEF S
  <2>2. StableTokens(list) = Estimate(SectionHeader + ItemBytes(SectionFrom(list, m)))
    BY <1>3, <1>5, StableIs
  <2>3. StableTokens(more) = Estimate(SectionHeader + ItemBytes(SectionFrom(more, m)))
    BY <1>3, <1>5, StableIs
  <2> HIDE DEF m
  <2>4. SectionFrom(more, m) = SectionFrom(list, m)
    BY <2>1, SectionOfAppend DEF more
  <2> QED BY <2>2, <2>3, <2>4 DEF more
<1> QED BY <1>4, <1>5

(* Lists one after the other. *)
LEMMA ConcatLists ==
  ASSUME NEW s, NEW t, IsList(s), IsList(t)
  PROVE  /\ IsList(s \o t)
         /\ \A i \in DOMAIN s : i \in DOMAIN (s \o t) /\ (s \o t)[i] = s[i]
         /\ \A i \in DOMAIN t : /\ Len(s) + i \in DOMAIN (s \o t)
                                /\ (s \o t)[Len(s) + i] = t[i]
<1>1. PICK A : s \in Seq(A)
  BY DEF IsList, IsSequence
<1>2. PICK B : t \in Seq(B)
  BY DEF IsList, IsSequence
<1>3. s \in Seq(A \cup B) /\ t \in Seq(A \cup B)
  BY <1>1, <1>2, SeqMonotonic
<1> DEFINE u == s \o t
<1>4. /\ u \in Seq(A \cup B) /\ Len(u) = Len(s) + Len(t) /\ Len(s) \in Nat /\ Len(t) \in Nat
      /\ \A i \in 1..Len(s) : u[i] = s[i]
      /\ \A i \in 1..Len(t) : u[Len(s) + i] = t[i]
  BY <1>3
<1>5. DOMAIN s = 1..Len(s) /\ DOMAIN t = 1..Len(t) /\ DOMAIN u = 1..Len(u)
  BY <1>3, <1>4
<1> HIDE DEF u
<1>6. \A i \in DOMAIN s : i \in DOMAIN u /\ u[i] = s[i]
  BY <1>4, <1>5
<1>7. \A i \in DOMAIN t : Len(s) + i \in DOMAIN u /\ u[Len(s) + i] = t[i]
  BY <1>4, <1>5
<1>8. ASSUME NEW i \in DOMAIN u PROVE IsItem(u[i])
  <2>1. CASE i \in 1..Len(s)
    BY <1>4, <1>5, <2>1 DEF IsList
  <2>2. CASE i \notin 1..Len(s)
    <3>1. i - Len(s) \in 1..Len(t) /\ Len(s) + (i - Len(s)) = i
      BY <1>4, <1>5, <2>2
    <3>2. u[i] = t[i - Len(s)]
      BY <1>4, <3>1
    <3> QED BY <1>5, <3>1, <3>2 DEF IsList
  <2> QED BY <2>1, <2>2
<1> QED BY <1>4, <1>6, <1>7, <1>8 DEF u, IsList, IsSequence

(* A list of one item. *)
LEMMA SingleList ==
  ASSUME NEW item, IsItem(item)
  PROVE  IsList(<<item>>)
<1>1. \A x, y : IsSequence(<<x>>)
  BY ShortSequences
<1>2. DOMAIN <<item>> = {1} /\ <<item>>[1] = item
  OBVIOUS
<1>3. IsSequence(<<item>>)
  BY <1>1
<1> QED BY <1>2, <1>3 DEF IsList

(* The empty list.                                                         *)
LEMMA NoItems == IsList(<<>>)
<1>1. \A x, y : IsSequence(<<>>)
  BY ShortSequences, Zenon
<1>2. DOMAIN <<>> = {}
  OBVIOUS
<1> QED BY <1>1, <1>2, Zenon DEF IsList

(* The items of a list with an item more. *)
LEMMA RangeOfAppend ==
  ASSUME NEW list, IsList(list), NEW item, IsItem(item)
  PROVE  Range(Append(list, item)) = Range(list) \cup {item}
<1> DEFINE more == Append(list, item)
<1>1. /\ Len(list) \in Nat /\ DOMAIN list = 1..Len(list)
      /\ DOMAIN more = 1..(Len(list) + 1)
      /\ \A i \in 1..Len(list) : more[i] = list[i]
      /\ more[Len(list) + 1] = item
  BY AppendItem
<1> HIDE DEF more
<1>2. \A i \in DOMAIN more : more[i] \in Range(list) \cup {item}
  <2> TAKE i \in DOMAIN more
  <2>1. i \in 1..Len(list) \/ i = Len(list) + 1
    BY <1>1
  <2> QED BY <1>1, <2>1 DEF Range
<1>3. \A x \in Range(list) : \E i \in DOMAIN more : more[i] = x
  <2> TAKE x \in Range(list)
  <2>1. PICK i \in DOMAIN list : list[i] = x
    BY DEF Range
  <2>2. i \in DOMAIN more /\ more[i] = x
    BY <1>1, <2>1
  <2> QED BY <2>2
<1>4. Len(list) + 1 \in DOMAIN more
  BY <1>1
<1>5. Range(more) = {more[i] : i \in DOMAIN more}
  BY DEF Range
<1> QED BY <1>1, <1>2, <1>3, <1>4, <1>5 DEF more

(* Behind a list that has only such items comes the new one at the end. *)
LEMMA WithLast ==
  ASSUME NEW list, IsList(list), NEW item,
         \A k \in DOMAIN list : Placement(list[k]) <= Placement(item)
  PROVE  With(list, item) = Append(list, item)
<1> DEFINE first == {x \in Range(list) : Placement(x) <= Placement(item)}
<1>1. PICK A : list \in Seq(A)
  BY DEF IsList, IsSequence
<1>2. first = Range(list) /\ Range(list) \ first = {}
  BY DEF Range
<1>3. With(list, item) = Only(list, first) \o <<item>> \o Only(list, Range(list) \ first)
  BY DEF With
<1>4. Only(list, Range(list)) = list /\ Only(list, {}) = <<>>
  BY <1>1, OnlyAll DEF IsSequence
<1>5. With(list, item) = list \o <<item>> \o <<>>
  <2> HIDE DEF first
  <2> QED BY <1>2, <1>3, <1>4
<1>6. list \in Seq(A \cup {item}) /\ <<item>> \in Seq(A \cup {item})
  BY <1>1, SeqMonotonic
<1>7. list \o <<item>> \o <<>> = Append(list, item)
  BY <1>6
<1> QED BY <1>5, <1>7

(* An item of a later placement comes behind both. *)
LEMMA WithBefore ==
  ASSUME NEW list, IsList(list), NEW x, NEW item, Placement(item) \in Nat,
         Placement(x) \in Nat, Placement(item) < Placement(x), IsItem(x)
  PROVE  With(Append(list, x), item) = Append(With(list, item), x)
<1> DEFINE R     == Range(list)
           first == {y \in R : Placement(y) <= Placement(item)}
           more  == Append(list, x)
           Q     == R \cup {x}
           rest  == R \ first
<1>1. PICK A : list \in Seq(A)
  BY DEF IsList, IsSequence
<1>2. Range(more) = Q
  BY RangeOfAppend
<1>3. {y \in Q : Placement(y) <= Placement(item)} = first
  OBVIOUS
<1>4. x \notin first /\ Q \ first = rest \cup {x}
  OBVIOUS
<1>5. With(more, item) = Only(more, first) \o <<item>> \o Only(more, Q \ first)
  <2> HIDE DEF more, Q, R
  <2> QED BY <1>2, <1>3 DEF With
<1>6. With(list, item) = Only(list, first) \o <<item>> \o Only(list, rest)
  BY DEF With
<1>7. \A S : Only(more, S) = IF x \in S THEN Append(Only(list, S), x) ELSE Only(list, S)
  <2> TAKE S
  <2>1. list \in Seq(A \cup {x}) /\ x \in A \cup {x}
    BY <1>1, SeqMonotonic
  <2> QED BY <2>1, OnlyAppend
<1>8. Only(list, rest \cup {x}) = Only(list, rest)
  <2>1. \A S : Only(list, S) = Only(list, S \cap R)
    BY OnlyAll DEF IsList
  <2>2. rest \cap R = (rest \cup {x}) \cap R
    <3>1. x \in R => x \in rest
      OBVIOUS
    <3> QED BY <3>1
  <2> HIDE DEF rest, R
  <2>3. Only(list, rest) = Only(list, rest \cap R)
        /\ Only(list, rest \cup {x}) = Only(list, (rest \cup {x}) \cap R)
    BY <2>1
  <2> QED BY <2>2, <2>3
<1>9. \A S : Only(list, S) \in Seq(A)
  BY <1>1, OnlyIn
<1> DEFINE a == Only(list, first)
           b == Only(list, rest)
<1>10. a \in Seq(A \cup {x, item}) /\ b \in Seq(A \cup {x, item})
  <2>1. \A s \in Seq(A) : s \in Seq(A \cup {x, item})
    BY SeqMonotonic
  <2> QED BY <1>9, <2>1
<1>11. With(more, item) = a \o <<item>> \o Append(b, x)
  <2> HIDE DEF first, rest, R, Q, more
  <2>1. Only(more, first) = a /\ Only(more, rest \cup {x}) = Append(b, x)
    BY <1>4, <1>7, <1>8
  <2> QED BY <1>4, <1>5, <2>1
<1> HIDE DEF a, b
<1>12. a \o <<item>> \o Append(b, x) = Append(a \o <<item>> \o b, x)
  BY <1>10
<1> QED BY <1>6, <1>11, <1>12 DEF a, b

(* It is a list. *)
LEMMA WithIsList ==
  ASSUME NEW list, IsList(list), NEW item, IsItem(item)
  PROVE  IsList(With(list, item)) /\ With(list, item) # <<>>
<1> DEFINE first == {x \in Range(list) : Placement(x) <= Placement(item)}
           a == Only(list, first)
           b == Only(list, Range(list) \ first)
           D == {y \in Range(list) : IsItem(y)}
<1>1. list \in Seq(D)
  <2>1. PICK B : list \in Seq(B)
    BY DEF IsList, IsSequence
  <2>2. list \in [1..Len(list) -> D] /\ Len(list) \in Nat
    BY <2>1 DEF Range, IsList
  <2> HIDE DEF D
  <2> QED BY <2>2
<1>2. \A s \in Seq(D) : IsList(s)
  BY DEF IsList, IsSequence
<1>3. IsList(a) /\ IsList(b)
  <2> HIDE DEF first, D
  <2>1. \A S : Only(list, S) \in Seq(D)
    BY <1>1, OnlyIn
  <2> QED BY <1>2, <2>1
<1> HIDE DEF a, b
<1>4. IsList(<<item>>)
  BY SingleList
<1>5. IsList(a \o <<item>>) /\ \A i \in DOMAIN <<item>> : Len(a) + i \in DOMAIN (a \o <<item>>)
  BY <1>3, <1>4, ConcatLists
<1> DEFINE c == a \o <<item>>
<1>6. 1 \in DOMAIN <<item>>
  OBVIOUS
<1>7. IsList(c) /\ \E j : j \in DOMAIN c
  BY <1>5, <1>6
<1> HIDE DEF c
<1>8. IsList(c \o b) /\ \E j : j \in DOMAIN (c \o b)
  BY <1>3, <1>7, ConcatLists
<1> DEFINE d == c \o b
<1>9. IsList(d) /\ d # <<>>
  <2> HIDE DEF d
  <2>1. DOMAIN <<>> = {}
    OBVIOUS
  <2> QED BY <1>8, <2>1 DEF d
<1>10. With(list, item) = d
  BY DEF With, a, b, c
<1> QED BY <1>9, <1>10

(* What a list with items costs is a number. *)
LEMMA TokensAre ==
  ASSUME NEW list, IsList(list), NEW x, IsItem(x)
  PROVE  /\ InputTokens(Append(list, x)) \in Nat
         /\ list # <<>> => InputTokens(list) \in Nat
                           /\ InputTokens(list) <= InputTokens(Append(list, x))
<1> DEFINE more == Append(list, x)
<1>0. more # <<>>
  <2>1. Len(more) = Len(list) + 1 /\ Len(list) \in Nat
    BY AppendItem
  <2> HIDE DEF more
  <2> QED BY <2>1
<1>1. IsList(more)
  BY AppendItem
<1>2. ItemBytes(list) \in Nat /\ ItemBytes(more) = ItemBytes(list) + 1 + x.size /\ x.size \in Nat
  BY BytesOfAppend DEF IsItem
<1>3. SectionStarts(list) \subseteq SectionStarts(more)
  BY StartsOfAppend
<1>4. IsFiniteSet(SectionStarts(more))
  BY <1>1, StartsOfAppend
<1> HIDE DEF more
<1>5. ItemBytes(more) \in Nat /\ ItemBytes(list) <= ItemBytes(more)
  BY <1>2
<1>6. InputTokens(more) \in Nat
  BY <1>0, <1>4, <1>5, RenderedGrows
<1>7. list # <<>> => InputTokens(list) \in Nat /\ InputTokens(list) <= InputTokens(more)
  BY <1>0, <1>2, <1>3, <1>4, <1>5, RenderedGrows
<1> QED BY <1>6, <1>7 DEF more

(* A longer list does not make room for an item. *)
LEMMA TokensGrow ==
  ASSUME NEW list, IsList(list), NEW x, IsItem(x), NEW item, IsItem(item),
         Placement(item) <= Placement(x),
         \A k \in DOMAIN list : Placement(list[k]) <= Placement(x)
  PROVE  /\ InputTokens(With(list, item)) \in Nat
         /\ InputTokens(With(Append(list, x), item)) \in Nat
         /\ InputTokens(With(list, item)) <= InputTokens(With(Append(list, x), item))
<1> DEFINE more == Append(list, x)
           s    == With(list, item)
           t    == With(more, item)
<1>0. Placement(x) \in Nat /\ Placement(item) \in Nat /\ item.size \in Nat /\ x.size \in Nat
  BY DEF IsItem
<1>1. IsList(s) /\ s # <<>> /\ IsList(more)
  BY WithIsList, AppendItem
<1>2. CASE Placement(item) < Placement(x)
  <2>1. t = Append(s, x)
    BY <1>0, <1>2, WithBefore
  <2> HIDE DEF s, t
  <2>2. InputTokens(s) \in Nat /\ InputTokens(t) \in Nat /\ InputTokens(s) <= InputTokens(t)
    BY <1>1, <2>1, TokensAre
  <2> QED BY <2>2 DEF s, t
<1>3. CASE Placement(item) = Placement(x)
  <2> DEFINE n == Len(list)
  <2>1. /\ n \in Nat /\ DOMAIN list = 1..n /\ DOMAIN more = 1..(n + 1) /\ Len(more) = n + 1
        /\ \A i \in 1..n : more[i] = list[i]
        /\ more[n + 1] = x
    BY AppendItem
  <2>2. more # <<>>
    <3> HIDE DEF more
    <3> QED BY <2>1
  <2>3. \A k \in DOMAIN more : Placement(more[k]) <= Placement(item)
    <3> HIDE DEF more
    <3> TAKE k \in DOMAIN more
    <3>1. k \in 1..n \/ k = n + 1
      BY <2>1
    <3> QED BY <1>0, <1>3, <2>1, <3>1
  <2>4. s = Append(list, item)
    BY <1>3, WithLast
  <2>5. t = Append(more, item)
    <3> HIDE DEF more
    <3> QED BY <1>1, <2>3, WithLast DEF t
  <2> HIDE DEF s, t, n
  <2>6. SectionStarts(s) = SectionStarts(list) \cup
          IF list = <<>> THEN {1} ELSE IF Placement(item) # Placement(list[n]) THEN {n + 1} ELSE {}
    BY <2>4, StartsOfAppend DEF n
  <2>7. SectionStarts(more) = SectionStarts(list) \cup
          IF list = <<>> THEN {1} ELSE IF Placement(x) # Placement(list[n]) THEN {n + 1} ELSE {}
    BY StartsOfAppend DEF n
  <2> HIDE DEF more
  <2>8. SectionStarts(t) = SectionStarts(more)
    <3>1. SectionStarts(t) = SectionStarts(more) \cup
            IF more = <<>> THEN {1}
            ELSE IF Placement(item) # Placement(more[Len(more)]) THEN {Len(more) + 1} ELSE {}
      BY <1>1, <2>5, StartsOfAppend
    <3>2. Placement(more[Len(more)]) = Placement(item)
      BY <1>3, <2>1
    <3> QED BY <2>2, <3>1, <3>2
  <2>9. SectionStarts(s) = SectionStarts(t)
    BY <1>3, <2>6, <2>7, <2>8
  <2>10. /\ ItemBytes(list) \in Nat /\ ItemBytes(s) = ItemBytes(list) + 1 + item.size
         /\ ItemBytes(more) = ItemBytes(list) + 1 + x.size
         /\ ItemBytes(t) = ItemBytes(more) + 1 + item.size
    BY <1>1, <2>4, <2>5, BytesOfAppend DEF more
  <2>11. ItemBytes(s) \in Nat /\ ItemBytes(t) \in Nat /\ ItemBytes(s) <= ItemBytes(t)
    BY <1>0, <2>10
  <2>12. t # <<>> /\ IsFiniteSet(SectionStarts(t))
    <3>1. \A l : IsList(l) => IsFiniteSet(SectionStarts(l))
      <4> TAKE l
      <4> HAVE IsList(l)
      <4> QED BY StartsOfAppend
    <3>2. IsList(t) /\ t # <<>>
      BY <1>1, WithIsList DEF t
    <3> QED BY <3>1, <3>2
  <2>13. InputTokens(s) \in Nat /\ InputTokens(t) \in Nat /\ InputTokens(s) <= InputTokens(t)
    BY <1>1, <2>9, <2>11, <2>12, RenderedGrows
  <2> QED BY <2>13 DEF s, t, more
<1> QED BY <1>0, <1>2, <1>3

(* Nor does it make room in the stable prefix. *)
LEMMA StableGrows ==
  ASSUME NEW list, IsList(list), NEW x, IsItem(x), NEW item, IsItem(item),
         Placement(item) = StablePrefix,
         \A k \in DOMAIN list : Placement(list[k]) <= Placement(x),
         StableTokens(With(list, item)) > StableBudget
  PROVE  StableTokens(With(Append(list, x), item)) > StableBudget
<1> DEFINE more == Append(list, x)
           s    == With(list, item)
           t    == With(more, item)
<1>0. /\ Placement(x) \in Nat /\ Placement(item) \in Nat /\ StablePrefix = 0
      /\ item.size \in Nat /\ x.size \in Nat
  BY DEF IsItem, StablePrefix
<1>1. IsList(s) /\ s # <<>> /\ IsList(more) /\ IsList(t) /\ t # <<>>
  <2>1. IsList(more) /\ IsList(s) /\ s # <<>>
    BY AppendItem, WithIsList
  <2> HIDE DEF more
  <2> QED BY <2>1, WithIsList
<1>2. CASE Placement(x) # StablePrefix
  <2>1. t = Append(s, x)
    BY <1>0, <1>2, WithBefore
  <2> HIDE DEF s, t
  <2>2. StableTokens(t) = StableTokens(s)
    BY <1>1, <1>2, <2>1, StableOfAppend
  <2> QED BY <2>2 DEF s, t
<1>3. CASE Placement(x) = StablePrefix
  <2> DEFINE n == Len(list)
  <2>1. /\ n \in Nat /\ DOMAIN list = 1..n /\ DOMAIN more = 1..(n + 1) /\ Len(more) = n + 1
        /\ \A i \in 1..n : more[i] = list[i]
        /\ more[n + 1] = x
    BY AppendItem
  <2>2. \A k \in DOMAIN list : Placement(list[k]) = StablePrefix
    <3> TAKE k \in DOMAIN list
    <3>1. Placement(list[k]) <= 0 /\ Placement(list[k]) \in 0..2
      BY <1>0, <1>3 DEF IsList, IsItem
    <3> QED BY <1>0, <3>1
  <2> HIDE DEF n, more
  <2>3. \A k \in DOMAIN more : Placement(more[k]) = StablePrefix
    <3> TAKE k \in DOMAIN more
    <3>1. k \in 1..n \/ k = n + 1
      BY <2>1
    <3> QED BY <1>3, <2>1, <2>2, <3>1
  <2>4. s = Append(list, item) /\ t = Append(more, item)
    <3>1. \A l : IsList(l) /\ (\A k \in DOMAIN l : Placement(l[k]) = StablePrefix)
                 => With(l, item) = Append(l, item)
      BY <1>0, WithLast
    <3> QED BY <1>1, <2>2, <2>3, <3>1
  <2>5. \A l : IsList(l) /\ (\A k \in DOMAIN l : Placement(l[k]) = StablePrefix)
          => StableTokens(Append(l, item)) = Estimate(SectionHeader + ItemBytes(Append(l, item)))
    <3> TAKE l
    <3> HAVE IsList(l) /\ \A k \in DOMAIN l : Placement(l[k]) = StablePrefix
    <3> DEFINE m == Append(l, item)
    <3>1. /\ Len(l) \in Nat /\ DOMAIN l = 1..Len(l) /\ DOMAIN m = 1..(Len(l) + 1)
          /\ \A i \in 1..Len(l) : m[i] = l[i]
          /\ m[Len(l) + 1] = item /\ IsList(m)
      BY AppendItem
    <3> HIDE DEF m
    <3>2. \A k \in DOMAIN m : Placement(m[k]) = StablePrefix
      <4> TAKE k \in DOMAIN m
      <4>1. k \in 1..Len(l) \/ k = Len(l) + 1
        BY <3>1
      <4> QED BY <3>1, <4>1
    <3>3. m # <<>>
      <4>1. Len(l) + 1 \in DOMAIN m /\ DOMAIN <<>> = {}
        BY <3>1
      <4> QED BY <4>1
    <3>4. StableTokens(m) = Estimate(SectionHeader + ItemBytes(m))
      BY <3>1, <3>2, <3>3, StableIsWhole
    <3> QED BY <3>4 DEF m
  <2> HIDE DEF s, t
  <2>6. /\ StableTokens(s) = Estimate(SectionHeader + ItemBytes(s))
        /\ StableTokens(t) = Estimate(SectionHeader + ItemBytes(t))
    BY <1>1, <2>2, <2>3, <2>4, <2>5
  <2>7. /\ ItemBytes(list) \in Nat /\ ItemBytes(s) = ItemBytes(list) + 1 + item.size
        /\ ItemBytes(more) = ItemBytes(list) + 1 + x.size
        /\ ItemBytes(t) = ItemBytes(more) + 1 + item.size
    BY <1>1, <2>4, BytesOfAppend DEF more
  <2> DEFINE a == SectionHeader + ItemBytes(s)
             b == SectionHeader + ItemBytes(t)
  <2>8. a \in Nat /\ b \in Nat /\ a <= b
    BY <1>0, <2>7, CapsuleAssumption
  <2> HIDE DEF a, b
  <2>9. Estimate(a) \in Nat /\ Estimate(b) \in Nat /\ Estimate(a) <= Estimate(b)
    BY <2>8, EstimateGrows
  <2>10. StableBudget \in Int
    <3>1. /\ MaxInputTokens \in Nat /\ StableRatio \in Nat /\ Scale \in Nat /\ Scale > 0
      BY CapsuleAssumption
    <3> DEFINE p == MaxInputTokens * StableRatio
    <3>2. p \in Nat
      BY <3>1, ProductGrows
    <3> HIDE DEF p
    <3>3. p \div Scale \in Nat
      BY <3>1, <3>2, QuotientGrows
    <3> QED BY <3>3 DEF p, StableBudget
  <2> QED BY <2>6, <2>9, <2>10 DEF a, b, s, t, more
<1> QED BY <1>2, <1>3

(* Sections are of different placements, and in their order. *)
LEMMA SectionsAreSorted ==
  ASSUME NEW list, IsList(list), ByPlacement(list),
         NEW i \in SectionStarts(list), NEW j \in SectionStarts(list), i < j
  PROVE  Placement(list[i]) < Placement(list[j])
<1>1. IsSequence(list) /\ \A k \in DOMAIN list : Placement(list[k]) \in Int
  BY DEF IsList, IsItem
<1>2. Len(list) \in Nat /\ DOMAIN list = 1..Len(list)
  BY <1>1, SequencesAre
<1>3. /\ i \in 1..Len(list) /\ j \in 1..Len(list) /\ j # 1
      /\ Placement(list[j]) # Placement(list[j - 1])
  BY <1>2 DEF SectionStarts
<1>4. j - 1 \in 1..Len(list) /\ j - 1 < j /\ (i = j - 1 \/ i < j - 1)
  BY <1>2, <1>3
<1>5. Placement(list[j - 1]) <= Placement(list[j])
      /\ Placement(list[i]) <= Placement(list[j - 1])
  BY <1>1, <1>2, <1>3, <1>4 DEF ByPlacement
<1> QED BY <1>1, <1>2, <1>3, <1>4, <1>5

-----------------------------------------------------------------------------
(* The steps of a turn, for its context. *)
LEMMA ContextSteps ==
  [Next]_vars =>
    \/ Walk \/ CollectItems \/ Attach \/ AttachmentsDone \/ BuildCapsule
    \/ contextPc = "built" /\ ForgetContext
    \/ \E p \in Range(Paths), c \in Contents \cup {Missing} :
         Touch(p, c) /\ UNCHANGED <<capsuleVars, turnVars>>
    \/ UNCHANGED contextVars
BY DEF Next, vars, Turn, BuildContext, Dispatch, Collect, Answering, Others, Stop,
       ContextStep

-----------------------------------------------------------------------------
(* The manifest. *)

(* What was walked is what an undisturbed workspace holds. *)
WalkInv ==
  ~touched /\ manifestPc # "idle" =>
    /\ files = scanned
    /\ states = [p \in Range(Paths) |-> GitState(files, p)]
    /\ \A i \in DOMAIN entries :
         /\ files[entries[i].path] # Missing
         /\ entries[i] = Entry(entries[i].path, files[entries[i].path])

ManifestTypeOK ==
  /\ files \in [Range(Paths) -> Contents \cup {Missing}]
  /\ IsSequence(entries) /\ IsSequence(manifest.entries)
  /\ Walked \subseteq Visible
  /\ manifestPc = "idle" => entries = <<>>

ManifestInv == ManifestTypeOK /\ WalkInv /\ PrefixIsStable

(* The invariant of the manifest holds at the start,                       *)
LEMMA InitManifestInv == ManifestInit => ManifestInv
<1> SUFFICES ASSUME ManifestInit PROVE ManifestInv
  OBVIOUS
<1>1. /\ files \in Workspaces /\ entries = <<>> /\ manifest = NoManifest
      /\ manifestPc = "idle"
  BY DEF ManifestInit
<1>2. IsSequence(<<>>)
  BY ShortSequences, Zenon
<1>3. IsSequence(entries) /\ IsSequence(manifest.entries)
  <2>1. manifest.entries = <<>>
    BY <1>1 DEF NoManifest
  <2> QED BY <1>1, <1>2, <2>1, Zenon
<1>4. files \in [Range(Paths) -> Contents \cup {Missing}]
  BY <1>1, ManifestAssumption
<1>5. Walked \subseteq Visible
  BY <1>1 DEF Walked
<1> QED BY <1>1, <1>3, <1>4, <1>5 DEF ManifestInv, ManifestTypeOK, WalkInv, PrefixIsStable

(* The paths that are listed, in byte order. *)
LEMMA ListedPaths ==
  ASSUME NEW S, S \subseteq Range(Paths)
  PROVE  /\ Only(Paths, S) \in Seq(S)
         /\ Len(Only(Paths, S)) \in Nat
         /\ DOMAIN Only(Paths, S) = 1..Len(Only(Paths, S))
         /\ \A i \in DOMAIN Only(Paths, S) : Only(Paths, S)[i] \in S
<1>1. Paths \in Seq(Range(Paths))
  BY ManifestAssumption
<1>2. Only(Paths, S) \in Seq(S)
  BY <1>1, OnlyIn
<1> DEFINE s == Only(Paths, S)
<1> HIDE DEF s
<1>3. s \in Seq(S) => /\ Len(s) \in Nat /\ DOMAIN s = 1..Len(s)
                      /\ \A i \in DOMAIN s : s[i] \in S
  OBVIOUS
<1> QED BY <1>2, <1>3 DEF s

(* The first elements of a sequence whose elements are made of others. *)
LEMMA FirstOfMapped ==
  ASSUME NEW s, NEW n \in Nat, DOMAIN s = 1..n, s = [i \in 1..n |-> s[i]],
         NEW k \in 0..n
  PROVE  /\ SubSeq(s, 1, k) = [i \in 1..k |-> s[i]]
         /\ IsSequence(SubSeq(s, 1, k))
         /\ Len(s) = n /\ Len(SubSeq(s, 1, k)) = k
<1>1. IsSequence(s)
  BY SequencesAre
<1>2. PICK A : s \in Seq(A)
  BY <1>1 DEF IsSequence
<1>3. Len(s) = n
  BY <1>2
<1>4. SubSeq(s, 1, k) \in Seq(A) /\ Len(SubSeq(s, 1, k)) = k
      /\ \A i \in 1..k : SubSeq(s, 1, k)[i] = s[i]
  BY <1>2, <1>3
<1>5. SubSeq(s, 1, k) = [i \in 1..k |-> s[i]]
  BY <1>4
<1> QED BY <1>3, <1>4, <1>5 DEF IsSequence

(* Sorted entries are a sequence, of which the first are kept. *)
LEMMA SortedAre ==
  ASSUME ManifestTypeOK
  PROVE  LET n == Len(Only(Paths, Walked))
         IN  /\ n \in Nat /\ DOMAIN SortedEntries = 1..n
             /\ SortedEntries = [i \in 1..n |-> SortedEntries[i]]
             /\ \A i \in 1..n :
                  \E m \in DOMAIN entries :
                    /\ entries[m].path = Only(Paths, Walked)[i]
                    /\ SortedEntries[i] = entries[m]
<1> DEFINE listed == Only(Paths, Walked)
<1>1. Walked \subseteq Range(Paths)
  BY DEF ManifestTypeOK, Visible
<1>2. /\ Len(listed) \in Nat /\ DOMAIN listed = 1..Len(listed)
      /\ \A i \in DOMAIN listed : listed[i] \in Walked
  <2>1. \A S : S \subseteq Range(Paths) =>
          /\ Len(Only(Paths, S)) \in Nat
          /\ DOMAIN Only(Paths, S) = 1..Len(Only(Paths, S))
          /\ \A i \in DOMAIN Only(Paths, S) : Only(Paths, S)[i] \in S
    BY ListedPaths
  <2> QED BY <1>1, <2>1
<1> HIDE DEF listed
<1>3. SortedEntries = [i \in DOMAIN listed |->
         entries[CHOOSE n \in DOMAIN entries : entries[n].path = listed[i]]]
  BY DEF SortedEntries, listed
<1>4. ASSUME NEW i \in 1..Len(listed)
      PROVE  \E m \in DOMAIN entries :
               entries[m].path = listed[i] /\ SortedEntries[i] = entries[m]
  <2>1. \E m \in DOMAIN entries : entries[m].path = listed[i]
    BY <1>2 DEF Walked
  <2> DEFINE m == CHOOSE n \in DOMAIN entries : entries[n].path = listed[i]
  <2>2. m \in DOMAIN entries /\ entries[m].path = listed[i]
    BY <2>1
  <2>3. SortedEntries[i] = entries[m]
    BY <1>2, <1>3
  <2> QED BY <2>2, <2>3
<1>5. DOMAIN SortedEntries = 1..Len(listed)
      /\ SortedEntries = [i \in 1..Len(listed) |-> SortedEntries[i]]
  BY <1>2, <1>3
<1> QED BY <1>2, <1>4, <1>5 DEF listed

(* What is kept of the sorted entries. *)
LEMMA FirstAre ==
  ASSUME ManifestTypeOK
  PROVE  LET n == Len(Only(Paths, Walked))
             k == IF n > MaxEntries THEN MaxEntries ELSE n
         IN  /\ k \in 0..n
             /\ FirstOf(SortedEntries) =
                  [total |-> n, entries |-> [i \in 1..k |-> SortedEntries[i]],
                   omitted |-> n - k]
             /\ IsSequence(FirstOf(SortedEntries).entries)
<1> DEFINE n == Len(Only(Paths, Walked))
           k == IF n > MaxEntries THEN MaxEntries ELSE n
           s == SortedEntries
<1>1. n \in Nat /\ DOMAIN s = 1..n /\ s = [i \in 1..n |-> s[i]]
  BY SortedAre
<1>2. k \in 0..n
  BY <1>1, ManifestAssumption
<1> HIDE DEF n, s
<1>3. /\ SubSeq(s, 1, k) = [i \in 1..k |-> s[i]] /\ IsSequence(SubSeq(s, 1, k))
      /\ Len(s) = n
  BY <1>1, <1>2, FirstOfMapped
<1>4. FirstOf(s) = [total |-> n, entries |-> SubSeq(s, 1, k), omitted |-> n - k]
  BY <1>3 DEF FirstOf
<1> QED BY SMTT(30), <1>2, <1>3, <1>4 DEF n, s

(* The walk of a workspace nobody wrote to lists its files. *)
LEMMA FinishIsStable ==
  ASSUME ManifestInv, FinishWalk, ~touched
  PROVE  manifest' = ManifestOf(files)
<1> DEFINE V == {p \in Visible : files[p] # Missing}
<1>1. /\ files = scanned /\ states = [p \in Range(Paths) |-> GitState(files, p)]
      /\ \A i \in DOMAIN entries :
           /\ files[entries[i].path] # Missing
           /\ entries[i] = Entry(entries[i].path, files[entries[i].path])
  BY DEF ManifestInv, WalkInv, FinishWalk
<1>2. ManifestTypeOK
  BY DEF ManifestInv
<1>3. Walked = V
  <2>1. Walked \subseteq V
    BY <1>1, <1>2 DEF ManifestTypeOK, Walked
  <2>2. V \subseteq Walked
    BY <1>1 DEF FinishWalk
  <2> QED BY <2>1, <2>2
<1> DEFINE listed == Only(Paths, Walked)
           n == Len(listed)
           k == IF n > MaxEntries THEN MaxEntries ELSE n
<1>4. /\ k \in 0..n
      /\ FirstOf(SortedEntries) =
           [total |-> n, entries |-> [i \in 1..k |-> SortedEntries[i]], omitted |-> n - k]
  BY <1>2, FirstAre
<1>5. /\ n \in Nat
      /\ \A i \in 1..n : \E m \in DOMAIN entries :
           entries[m].path = listed[i] /\ SortedEntries[i] = entries[m]
  BY <1>2, SortedAre
<1>6. DOMAIN listed = 1..n /\ listed = [i \in 1..n |-> listed[i]]
      /\ \A i \in 1..n : listed[i] \in Walked
  <2>0. Walked \subseteq Range(Paths)
    BY <1>2 DEF ManifestTypeOK, Visible
  <2>1. \A S : S \subseteq Range(Paths) =>
          /\ Only(Paths, S) \in Seq(S)
          /\ DOMAIN Only(Paths, S) = 1..Len(Only(Paths, S))
          /\ \A i \in DOMAIN Only(Paths, S) : Only(Paths, S)[i] \in S
    BY ListedPaths
  <2>2. listed \in Seq(Walked) /\ DOMAIN listed = 1..n
        /\ \A i \in DOMAIN listed : listed[i] \in Walked
    BY <2>0, <2>1
  <2> QED BY <2>2
<1> HIDE DEF listed
<1>7. ASSUME NEW i \in 1..n
      PROVE  SortedEntries[i] = Entry(listed[i], files[listed[i]])
  BY <1>1, <1>5
<1> DEFINE kept == SubSeq(listed, 1, k)
<1>8. kept = [i \in 1..k |-> listed[i]] /\ Len(kept) = k
  BY <1>4, <1>5, <1>6, FirstOfMapped
<1>9. \A i \in 1..k :
        Entry(listed[i], files[listed[i]]) =
          [path |-> kept[i], contents |-> files[kept[i]],
           git |-> GitState(files, kept[i]),
           object |-> IF IsRepository THEN Committed[kept[i]] ELSE Missing]
  <2> TAKE i \in 1..k
  <2>1. i \in 1..n /\ kept[i] = listed[i]
    BY <1>4, <1>8
  <2>2. listed[i] \in Range(Paths)
    BY <1>2, <1>6, <2>1 DEF ManifestTypeOK, Visible
  <2>3. states[listed[i]] = GitState(files, listed[i])
    BY <1>1, <2>2
  <2> QED BY <2>1, <2>3 DEF Entry
<1>10. [i \in 1..k |-> SortedEntries[i]] =
        [i \in 1..k |->
           [path |-> kept[i], contents |-> files[kept[i]],
            git |-> GitState(files, kept[i]),
            object |-> IF IsRepository THEN Committed[kept[i]] ELSE Missing]]
  <2>1. \A i \in 1..k : i \in 1..n
    BY <1>4
  <2> HIDE DEF kept, k
  <2> QED BY <1>7, <1>9, <2>1
<1>11. DOMAIN kept = 1..k
  BY <1>8
<1>12. ManifestOf(files) =
         [total |-> n, omitted |-> n - Len(kept),
          entries |-> [i \in DOMAIN kept |->
            [path |-> kept[i], contents |-> files[kept[i]],
             git |-> GitState(files, kept[i]),
             object |-> IF IsRepository THEN Committed[kept[i]] ELSE Missing]]]
  BY <1>3 DEF ManifestOf, listed
<1>13. manifest' = FirstOf(SortedEntries)
  BY DEF FinishWalk
<1> QED
  <2> HIDE DEF kept, k
  <2> QED BY <1>4, <1>8, <1>10, <1>11, <1>12, <1>13

(* and every step of a turn keeps it.                                      *)
LEMMA StepManifestInv == ManifestInv /\ [Next]_vars => ManifestInv'
<1> SUFFICES ASSUME ManifestInv, [Next]_vars PROVE ManifestInv'
  OBVIOUS
<1>0. ManifestTypeOK /\ WalkInv /\ PrefixIsStable
  BY DEF ManifestInv
<1>1. ASSUME BeginWalk PROVE ManifestInv'
  <2>1. /\ manifestPc = "idle" /\ manifestPc' \in {"canceled", "failed", "walking"}
        /\ files' = files /\ scanned' = files /\ UNCHANGED <<entries, manifest, touched>>
        /\ states' = [p \in Range(Paths) |-> GitState(files, p)]
    BY <1>1 DEF BeginWalk
  <2>2. ManifestTypeOK'
    BY <1>0, <2>1 DEF ManifestTypeOK, Walked
  <2>3. entries' = <<>>
    BY <1>0, <2>1 DEF ManifestTypeOK
  <2>4. WalkInv'
    BY <2>1, <2>3 DEF WalkInv
  <2>5. PrefixIsStable'
    BY <2>1 DEF PrefixIsStable
  <2> QED BY <2>2, <2>4, <2>5 DEF ManifestInv
<1>2. ASSUME CancelWalk PROVE ManifestInv'
  <2>1. /\ manifestPc = "walking" /\ manifestPc' = "canceled"
        /\ UNCHANGED <<files, states, scanned, touched, entries, manifest>>
    BY <1>2 DEF CancelWalk, walkFrame
  <2>2. ManifestTypeOK'
    BY <1>0, <2>1 DEF ManifestTypeOK, Walked
  <2>3. WalkInv'
    BY <1>0, <2>1 DEF WalkInv, Entry
  <2>4. PrefixIsStable'
    BY <2>1 DEF PrefixIsStable
  <2> QED BY <2>2, <2>3, <2>4 DEF ManifestInv
<1>3. ASSUME NEW p \in Range(Paths), EntryVanished(p) PROVE ManifestInv'
  <2>1. /\ manifestPc = "walking" /\ manifestPc' = "failed"
        /\ UNCHANGED <<files, states, scanned, touched, entries, manifest>>
    BY <1>3 DEF EntryVanished, walkFrame
  <2>2. ManifestTypeOK'
    BY <1>0, <2>1 DEF ManifestTypeOK, Walked
  <2>3. WalkInv'
    BY <1>0, <2>1 DEF WalkInv, Entry
  <2>4. PrefixIsStable'
    BY <2>1 DEF PrefixIsStable
  <2> QED BY <2>2, <2>3, <2>4 DEF ManifestInv
<1>4. ASSUME NEW p \in Range(Paths), ReadEntry(p) PROVE ManifestInv'
  <2>1. /\ manifestPc = "walking" /\ manifestPc' = "walking"
        /\ UNCHANGED <<files, states, scanned, touched, manifest>>
        /\ p \in Visible /\ files[p] # Missing
        /\ entries' = Append(entries, Entry(p, files[p]))
    BY <1>4 DEF ReadEntry, walkFrame
  <2> DEFINE e == Entry(p, files[p])
  <2>2. e.path = p
    BY DEF Entry
  <2>3. IsSequence(entries) /\ Len(entries) \in Nat /\ DOMAIN entries = 1..Len(entries)
    BY <1>0, SequencesAre DEF ManifestTypeOK
  <2>4. /\ IsSequence(entries') /\ Len(entries') = Len(entries) + 1
        /\ \A i \in 1..Len(entries) : entries'[i] = entries[i]
        /\ entries'[Len(entries) + 1] = e
    BY <2>1, <2>3, AppendSequence
  <2>5. DOMAIN entries' = 1..(Len(entries) + 1)
    BY <2>4, SequencesAre
  <2> HIDE DEF e
  <2>6. \A i \in DOMAIN entries' :
          entries'[i] = e \/ \E j \in DOMAIN entries : entries'[i] = entries[j]
    BY <2>3, <2>4, <2>5
  <2>7. ManifestTypeOK'
    <3>1. Walked' \subseteq Visible
      BY <1>0, <2>1, <2>2, <2>6 DEF ManifestTypeOK, Walked
    <3> QED BY <1>0, <2>1, <2>4, <3>1 DEF ManifestTypeOK
  <2>8. WalkInv'
    <3> SUFFICES ASSUME ~touched PROVE
          /\ files = scanned
          /\ states = [q \in Range(Paths) |-> GitState(files, q)]
          /\ \A i \in DOMAIN entries' :
               /\ files[entries'[i].path] # Missing
               /\ entries'[i] = Entry(entries'[i].path, files[entries'[i].path])
      BY <2>1 DEF WalkInv, Entry
    <3>1. /\ files = scanned
          /\ states = [q \in Range(Paths) |-> GitState(files, q)]
          /\ \A i \in DOMAIN entries :
               /\ files[entries[i].path] # Missing
               /\ entries[i] = Entry(entries[i].path, files[entries[i].path])
      BY <1>0, <2>1 DEF WalkInv
    <3>2. files[e.path] # Missing /\ e = Entry(e.path, files[e.path])
      BY <2>1, <2>2 DEF e
    <3> QED BY <2>6, <3>1, <3>2
  <2>9. PrefixIsStable'
    BY <2>1 DEF PrefixIsStable
  <2> QED BY <2>7, <2>8, <2>9 DEF ManifestInv
<1>5. ASSUME FinishWalk PROVE ManifestInv'
  <2>1. /\ manifestPc = "walking" /\ manifestPc' = "built"
        /\ UNCHANGED <<files, states, scanned, touched, entries>>
        /\ manifest' = FirstOf(SortedEntries)
    BY <1>5 DEF FinishWalk, walkFrame
  <2>2. IsSequence(manifest'.entries)
    BY <1>0, <2>1, FirstAre
  <2>3. ManifestTypeOK'
    BY <1>0, <2>1, <2>2 DEF ManifestTypeOK, Walked
  <2>4. WalkInv'
    BY <1>0, <2>1 DEF WalkInv, Entry
  <2>5. PrefixIsStable'
    <3>1. ~touched => manifest' = ManifestOf(files)
      BY <1>5, FinishIsStable
    <3> QED BY <2>1, <3>1 DEF PrefixIsStable
  <2> QED BY <2>3, <2>4, <2>5 DEF ManifestInv
<1>6. ASSUME NEW p \in Range(Paths), NEW c \in Contents \cup {Missing}, Touch(p, c)
      PROVE  ManifestInv'
  <2>1. /\ manifestPc = "walking" /\ manifestPc' = "walking" /\ touched' = TRUE
        /\ files' = [files EXCEPT ![p] = c]
        /\ UNCHANGED <<entries, manifest>>
    BY <1>6 DEF Touch
  <2>2. ManifestTypeOK'
    BY <1>0, <2>1 DEF ManifestTypeOK, Walked
  <2> QED BY <2>1, <2>2 DEF ManifestInv, WalkInv, PrefixIsStable
<1>7. ASSUME ForgetContext PROVE ManifestInv'
  <2>1. /\ manifestPc' = "idle" /\ entries' = <<>> /\ manifest' = NoManifest
        /\ files' = CHOOSE workspace \in Workspaces : TRUE
    BY <1>7 DEF ForgetContext
  <2>2. files' \in [Range(Paths) -> Contents \cup {Missing}]
    <3>1. (CHOOSE workspace \in Workspaces : TRUE) \in Workspaces
      BY ManifestAssumption
    <3> QED BY <2>1, <3>1, ManifestAssumption
  <2>3. IsSequence(<<>>)
    BY ShortSequences, Zenon
  <2>4. manifest'.entries = <<>>
    BY <2>1 DEF NoManifest
  <2>5. IsSequence(entries') /\ IsSequence(manifest'.entries)
    BY <2>1, <2>3, <2>4, Zenon
  <2>6. Walked' = {}
    BY <2>1 DEF Walked
  <2> QED BY <2>1, <2>2, <2>5, <2>6
          DEF ManifestInv, ManifestTypeOK, WalkInv, PrefixIsStable
<1>8. ASSUME UNCHANGED manifestVars PROVE ManifestInv'
  <2>1. UNCHANGED <<files, states, entries, manifest, manifestPc, scanned, touched>>
    BY <1>8 DEF manifestVars
  <2>2. ManifestTypeOK'
    BY <1>0, <2>1 DEF ManifestTypeOK, Walked
  <2>3. WalkInv'
    BY <1>0, <2>1 DEF WalkInv, Entry
  <2>4. PrefixIsStable'
    BY <1>0, <2>1 DEF PrefixIsStable
  <2> QED BY <2>2, <2>3, <2>4 DEF ManifestInv
<1>9. Walk => WalkStep
  BY DEF Walk
<1>10. CollectItems \/ Attach \/ AttachmentsDone \/ BuildCapsule \/ UNCHANGED contextVars
         => UNCHANGED manifestVars
  BY DEF CollectItems, Attach, AttachmentsDone, BuildCapsule, contextVars
<1> QED
  BY <1>1, <1>2, <1>3, <1>4, <1>5, <1>6, <1>7, <1>8, <1>9, <1>10, ContextSteps DEF WalkStep

-----------------------------------------------------------------------------
(* The capsule. *)

(* What is known of the items and of the capsule that is built of them. *)
ItemsInv ==
  /\ turn \in Turns /\ attached \in Nat
  /\ IsList(items) /\ IsList(included) /\ IsSequence(omitted)
  /\ taken \subseteq DOMAIN items
  /\ capsulePc \in {"adding", "building", "built", "failed"}
  /\ capsulePc = "adding" => taken = {} /\ included = <<>> /\ omitted = <<>>
  /\ capsulePc = "built" => taken = DOMAIN items
  /\ contextPc \in {"attaching", "building"} \/ capsulePc \in {"building", "built"}
       => \E i \in DOMAIN items : items[i].required

(* The capsule holds items that were taken, and all that are required. *)
SourceInv ==
  /\ \A k \in DOMAIN included : \E i \in taken : included[k] = items[i]
  /\ \A i \in taken : items[i].required => items[i] \in Range(included)

(* Items are taken by placement. *)
OrderInv ==
  /\ ByPlacement(included)
  /\ \A i \in taken, j \in DOMAIN items \ taken : Placement(items[i]) <= Placement(items[j])

UniqueInv ==
  \A k, l \in DOMAIN included :
    k # l => /\ included[k].kind \in Singletons => included[k].kind # included[l].kind
             /\ included[k].kind = "file" /\ included[l].kind = "file"
                  => included[k].path = None \/ included[k].path # included[l].path

FitInv == included # <<>> => InputTokens(included) <= MaxInputTokens

(* What was left out does not fit any more, however the capsule grew. *)
TooLong(list, item) == InputTokens(With(list, item)) > MaxInputTokens
TooStable(list, item) ==
  Placement(item) = StablePrefix /\ StableTokens(With(list, item)) > StableBudget

OmitInv ==
  \A n \in DOMAIN omitted :
    LET item == omitted[n].item
    IN  /\ \E i \in taken : item = items[i]
        /\ IF omitted[n].reason = "token_budget"
           THEN TooLong(included, item) ELSE TooStable(included, item)

CapsuleInv ==
  /\ ItemsInv
  /\ capsulePc # "failed" =>
       SourceInv /\ OrderInv /\ UniqueInv /\ FitInv /\ OmitInv

(* The invariant of the capsule holds at the start.                        *)
LEMMA InitCapsuleInv == ContextInit => CapsuleInv
<1> SUFFICES ASSUME ContextInit PROVE CapsuleInv
  OBVIOUS
<1>1. /\ items = <<>> /\ taken = {} /\ included = <<>> /\ omitted = <<>>
      /\ capsulePc = "adding" /\ turn \in Turns /\ attached = 0 /\ contextPc = "manifest"
  BY DEF ContextInit, CapsuleInit
<1>2. IsList(items) /\ IsList(included)
  BY <1>1, NoItems, Zenon
<1>3. IsSequence(omitted)
  BY <1>1, ShortSequences, Zenon
<1>4. DOMAIN included = {} /\ DOMAIN omitted = {}
  BY <1>1
<1>5. ItemsInv
  BY <1>1, <1>2, <1>3 DEF ItemsInv
<1> QED BY <1>1, <1>4, <1>5
        DEF CapsuleInv, SourceInv, OrderInv, ByPlacement, UniqueInv, FitInv, OmitInv

(* Before the capsule is built, nothing is known but that it is empty. *)
LEMMA AddItemsKeeps ==
  ASSUME CapsuleInv, NEW more, IsList(more), AddItems(more),
         turn' \in Turns, attached' \in Nat,
         contextPc' \in {"attaching", "building"} =>
           contextPc \in {"attaching", "building"}
           \/ \E i \in DOMAIN more : more[i].required
  PROVE  CapsuleInv'
<1>1. /\ IsList(items) /\ items' = items \o more /\ capsulePc = "adding"
      /\ UNCHANGED <<taken, included, omitted, capsulePc>>
      /\ taken = {} /\ included = <<>> /\ omitted = <<>>
      /\ IsList(included) /\ IsSequence(omitted)
  BY DEF AddItems, CapsuleInv, ItemsInv
<1>2. /\ IsList(items')
      /\ \A i \in DOMAIN items : i \in DOMAIN items' /\ items'[i] = items[i]
      /\ \A i \in DOMAIN more : \E j \in DOMAIN items' : items'[j] = more[i]
  <2> DEFINE all == items \o more
  <2>1. /\ IsList(all)
        /\ \A i \in DOMAIN items : i \in DOMAIN all /\ all[i] = items[i]
        /\ \A i \in DOMAIN more : Len(items) + i \in DOMAIN all /\ all[Len(items) + i] = more[i]
    BY <1>1, ConcatLists
  <2>2. items' = all
    BY <1>1
  <2> HIDE DEF all
  <2> QED BY <2>1, <2>2
<1>3. contextPc' \in {"attaching", "building"} => \E i \in DOMAIN items' : items'[i].required
  <2> HAVE contextPc' \in {"attaching", "building"}
  <2>1. CASE contextPc \in {"attaching", "building"}
    <3>1. PICK i \in DOMAIN items : items[i].required
      BY <2>1 DEF CapsuleInv, ItemsInv
    <3> QED BY <1>2, <3>1
  <2>2. CASE \E i \in DOMAIN more : more[i].required
    <3>1. PICK i \in DOMAIN more : more[i].required
      BY <2>2
    <3>2. PICK j \in DOMAIN items' : items'[j] = more[i]
      BY <1>2
    <3>3. items'[j].required
      BY <3>1, <3>2, Zenon
    <3> QED BY <3>3
  <2> QED BY <2>1, <2>2
<1>4. IsList(included') /\ IsSequence(omitted')
  BY <1>1
<1>5. ItemsInv'
  BY <1>1, <1>2, <1>3, <1>4 DEF ItemsInv
<1>6. DOMAIN included' = {} /\ DOMAIN omitted' = {}
  BY <1>1
<1> QED BY <1>1, <1>5, <1>6
        DEF CapsuleInv, SourceInv, OrderInv, ByPlacement, UniqueInv, FitInv, OmitInv

(* What comes first has no later placement. *)
LEMMA FirstByPlacement ==
  ASSUME NEW i, NEW j, Precedes(i, j),
         Placement(items[i]) \in Nat, Placement(items[j]) \in Nat
  PROVE  Placement(items[i]) <= Placement(items[j])
<1> DEFINE k == <<Placement(items[i]), Priority(items[i].kind), i>>
           m == <<Placement(items[j]), Priority(items[j].kind), j>>
<1>1. PICK d \in 1..3 : k[d] < m[d] /\ \A e \in 1..(d - 1) : k[e] = m[e]
  BY DEF Precedes
<1>2. k[1] = Placement(items[i]) /\ m[1] = Placement(items[j])
  OBVIOUS
<1> HIDE DEF k, m
<1>3. CASE d = 1
  BY <1>1, <1>2, <1>3
<1>4. CASE d # 1
  <2>1. 1 \in 1..(d - 1)
    BY <1>4
  <2> QED BY <1>1, <1>2, <2>1
<1> QED BY <1>3, <1>4

(* An item that is taken is refused, left out, or added; what was left out *)
(* before still does not fit.                                              *)
LEMMA TakeItemKeeps ==
  ASSUME CapsuleInv, NEW i, TakeItem(i), turn' \in Turns, attached' \in Nat
  PROVE  CapsuleInv'
<1> DEFINE item      == items[i]
           candidate == Append(included, item)
<1>0. /\ ItemsInv /\ capsulePc = "building" /\ i \in DOMAIN items \ taken
      /\ taken' = taken \cup {i} /\ items' = items
      /\ \A j \in DOMAIN items \ (taken \cup {i}) : Precedes(i, j)
      /\ SourceInv /\ OrderInv /\ UniqueInv /\ FitInv /\ OmitInv
  BY DEF CapsuleInv, TakeItem
<1>1. /\ IsList(items) /\ IsList(included) /\ IsSequence(omitted) /\ taken \subseteq DOMAIN items
      /\ \A j \in DOMAIN items : IsItem(items[j])
      /\ \E j \in DOMAIN items : items[j].required
  BY <1>0 DEF ItemsInv, IsList
<1>2. IsItem(item) /\ \A j \in DOMAIN items : Placement(items[j]) \in Nat
  BY <1>0, <1>1 DEF IsItem
<1>3. \A k \in DOMAIN included : Placement(included[k]) <= Placement(item)
  BY <1>0 DEF SourceInv, OrderInv
<1>4. \A a \in taken', b \in DOMAIN items' \ taken' : Placement(items'[a]) <= Placement(items'[b])
  <2> TAKE a \in taken', b \in DOMAIN items' \ taken'
  <2>1. CASE a = i
    <3>1. Precedes(i, b) /\ b \in DOMAIN items
      BY <1>0
    <3> QED BY <1>0, <1>2, <2>1, <3>1, FirstByPlacement
  <2>2. CASE a # i
    BY <1>0, <2>2 DEF OrderInv
  <2> QED BY <2>1, <2>2
<1>5. With(included, item) = candidate
  BY <1>1, <1>3, WithLast
<1>6. /\ IsList(candidate) /\ Len(included) \in Nat /\ DOMAIN included = 1..Len(included)
      /\ DOMAIN candidate = 1..(Len(included) + 1)
      /\ \A k \in 1..Len(included) : candidate[k] = included[k]
      /\ candidate[Len(included) + 1] = item
      /\ Range(candidate) = Range(included) \cup {item}
  BY <1>1, <1>2, AppendItem, RangeOfAppend, ZenonT(30)
<1>7. InputTokens(candidate) \in Nat /\ MaxInputTokens \in Nat
  BY <1>1, <1>2, TokensAre, CapsuleAssumption
<1>8. CASE Fail
  <2>1. capsulePc' = "failed" /\ included' = included /\ omitted' = omitted
    BY <1>8 DEF Fail
  <2>2. ItemsInv'
    BY <1>0, <1>1, <2>1 DEF ItemsInv
  <2> QED BY <2>1, <2>2 DEF CapsuleInv
<1>9. ASSUME NEW reason, Omit(item, reason), ~item.required,
             IF reason = "token_budget" THEN InputTokens(candidate) > MaxInputTokens
             ELSE Placement(item) = StablePrefix /\ StableTokens(candidate) > StableBudget
      PROVE  CapsuleInv'
  <2> DEFINE o == [item |-> item, reason |-> reason]
  <2>1. omitted' = Append(omitted, o) /\ included' = included /\ capsulePc' = capsulePc
    BY <1>9 DEF Omit
  <2>2. /\ IsSequence(omitted') /\ Len(omitted') = Len(omitted) + 1
        /\ \A n \in 1..Len(omitted) : omitted'[n] = omitted[n]
        /\ omitted'[Len(omitted) + 1] = o
        /\ Len(omitted) \in Nat /\ DOMAIN omitted = 1..Len(omitted)
        /\ DOMAIN omitted' = 1..(Len(omitted) + 1)
    <3> HIDE DEF o
    <3>1. /\ IsSequence(omitted') /\ Len(omitted') = Len(omitted) + 1
          /\ \A n \in 1..Len(omitted) : omitted'[n] = omitted[n]
          /\ omitted'[Len(omitted) + 1] = o
      BY <1>1, <2>1, AppendSequence
    <3> QED BY <1>1, <3>1, SequencesAre
  <2>3. ItemsInv'
    BY <1>0, <1>1, <2>1, <2>2 DEF ItemsInv
  <2>4. SourceInv'
    <3>1. \A a \in taken' : items'[a].required => items'[a] \in Range(included')
      <4> TAKE a \in taken'
      <4>1. CASE a = i
        <5>1. ~items'[a].required
          BY <1>0, <1>9, <4>1, Zenon
        <5> QED BY <5>1
      <4>2. CASE a # i
        BY <1>0, <2>1, <4>2 DEF SourceInv
      <4> QED BY <4>1, <4>2
    <3> QED BY <1>0, <2>1, <3>1 DEF SourceInv
  <2>5. OrderInv'
    BY <1>0, <1>4, <2>1 DEF OrderInv, ByPlacement
  <2>6. UniqueInv' /\ FitInv'
    BY <1>0, <2>1 DEF UniqueInv, FitInv
  <2>7. OmitInv'
    <3> SUFFICES ASSUME NEW n \in DOMAIN omitted'
                 PROVE  /\ \E a \in taken' : omitted'[n].item = items'[a]
                        /\ IF omitted'[n].reason = "token_budget"
                           THEN TooLong(included', omitted'[n].item)
                           ELSE TooStable(included', omitted'[n].item)
      BY DEF OmitInv
    <3>1. CASE n \in 1..Len(omitted)
      <4>1. omitted'[n] = omitted[n] /\ n \in DOMAIN omitted
        BY <2>2, <3>1
      <4>2. /\ \E a \in taken : omitted[n].item = items[a]
            /\ IF omitted[n].reason = "token_budget"
               THEN TooLong(included, omitted[n].item) ELSE TooStable(included, omitted[n].item)
        BY <1>0, <4>1 DEF OmitInv
      <4> QED BY <1>0, <2>1, <4>1, <4>2 DEF TooLong, TooStable
    <3>2. CASE n = Len(omitted) + 1
      <4>1. omitted'[n].item = item /\ omitted'[n].reason = reason
        BY <2>2, <3>2
      <4>2. With(included', item) = candidate
        BY <1>5, <2>1
      <4> HIDE DEF item, candidate
      <4>3. IF reason = "token_budget" THEN TooLong(included', item) ELSE TooStable(included', item)
        BY <1>0, <1>9, <4>2 DEF TooLong, TooStable, item
      <4> QED BY <1>0, <4>1, <4>3 DEF item
    <3> QED BY <2>2, <3>1, <3>2
  <2> QED BY <2>3, <2>4, <2>5, <2>6, <2>7 DEF CapsuleInv
<1>10. ASSUME included' = candidate, UNCHANGED <<omitted, capsulePc>>,
              ~IsDuplicate(item), ~(InputTokens(candidate) > MaxInputTokens)
       PROVE  CapsuleInv'
  <2>1. ItemsInv'
    <3>1. IsList(included')
      BY <1>6, <1>10
    <3> QED BY <1>0, <1>1, <1>10, <3>1 DEF ItemsInv
  <2> DEFINE n == Len(included)
  <2>2. /\ DOMAIN included' = 1..(n + 1) /\ n \in Nat /\ DOMAIN included = 1..n
        /\ \A k \in 1..n : included'[k] = included[k]
        /\ included'[n + 1] = items[i]
        /\ Range(included') = Range(included) \cup {items[i]}
    BY <1>6, <1>10
  <2> HIDE DEF n, candidate
  <2>3. SourceInv'
    <3>1. ASSUME NEW k \in DOMAIN included' PROVE \E a \in taken' : included'[k] = items'[a]
      <4>1. k \in 1..n \/ k = n + 1
        BY <2>2
      <4> QED BY <1>0, <2>2, <4>1 DEF SourceInv
    <3>2. ASSUME NEW a \in taken', items'[a].required PROVE items'[a] \in Range(included')
      <4>1. CASE a = i
        BY <1>0, <2>2, <4>1
      <4>2. CASE a # i
        BY <1>0, <2>2, <3>2, <4>2 DEF SourceInv
      <4> QED BY <4>1, <4>2
    <3> QED BY <3>1, <3>2 DEF SourceInv
  <2>4. OrderInv'
    <3>1. \A k, l \in DOMAIN included' :
            k < l => Placement(included'[k]) <= Placement(included'[l])
      <4> TAKE k, l \in DOMAIN included'
      <4> HAVE k < l
      <4>1. k \in 1..n /\ (l \in 1..n \/ l = n + 1)
        BY <2>2
      <4> QED BY <1>0, <1>3, <2>2, <4>1 DEF OrderInv, ByPlacement
    <3> QED BY <1>4, <3>1 DEF OrderInv, ByPlacement
  <2>5. UniqueInv'
    <3>1. ASSUME NEW k \in 1..n
          PROVE  /\ included[k].kind \in Singletons => included[k].kind # item.kind
                 /\ item.kind \in Singletons => included[k].kind # item.kind
                 /\ included[k].kind = "file" /\ item.kind = "file"
                      => /\ included[k].path = None \/ included[k].path # item.path
                         /\ item.path = None \/ included[k].path # item.path
      <4>1. PICK a \in taken : included[k] = items[a]
        BY <1>0, <2>2 DEF SourceInv
      <4> QED BY <1>10, <4>1 DEF IsDuplicate
    <3> SUFFICES ASSUME NEW k \in DOMAIN included', NEW l \in DOMAIN included', k # l
                 PROVE  /\ included'[k].kind \in Singletons => included'[k].kind # included'[l].kind
                        /\ included'[k].kind = "file" /\ included'[l].kind = "file"
                             => included'[k].path = None \/ included'[k].path # included'[l].path
      BY DEF UniqueInv
    <3>2. CASE k \in 1..n /\ l \in 1..n
      BY <1>0, <2>2, <3>2 DEF UniqueInv
    <3>3. CASE k \in 1..n /\ l = n + 1
      BY <2>2, <3>1, <3>3
    <3>4. CASE k = n + 1 /\ l \in 1..n
      BY <2>2, <3>1, <3>4
    <3> QED BY <2>2, <3>2, <3>3, <3>4
  <2>6. FitInv'
    <3>1. InputTokens(candidate) <= MaxInputTokens
      BY <1>7, <1>10
    <3> QED BY <1>10, <3>1 DEF FitInv
  <2>7. OmitInv'
    <3> SUFFICES ASSUME NEW m \in DOMAIN omitted
                 PROVE  /\ \E a \in taken' : omitted[m].item = items[a]
                        /\ IF omitted[m].reason = "token_budget"
                           THEN TooLong(included', omitted[m].item)
                           ELSE TooStable(included', omitted[m].item)
      BY <1>0, <1>10 DEF OmitInv, TooLong, TooStable
    <3> DEFINE o == omitted[m].item
    <3>1. PICK a \in taken : o = items[a]
      BY <1>0 DEF OmitInv
    <3>2. IsItem(o) /\ Placement(o) <= Placement(item)
      BY <1>0, <1>1, <3>1 DEF OrderInv
    <3>3. IF omitted[m].reason = "token_budget" THEN TooLong(included, o)
          ELSE TooStable(included, o)
      BY <1>0 DEF OmitInv
    <3>4. included' = Append(included, item)
      BY <1>10 DEF candidate
    <3> HIDE DEF o, item
    <3>5. TooLong(included, o) => TooLong(included', o)
      <4>1. /\ InputTokens(With(included, o)) \in Nat
            /\ InputTokens(With(Append(included, item), o)) \in Nat
            /\ InputTokens(With(included, o)) <= InputTokens(With(Append(included, item), o))
        BY <1>1, <1>2, <1>3, <3>2, TokensGrow
      <4> QED BY <1>7, <1>10, <3>4, <4>1 DEF TooLong, o
    <3>6. TooStable(included, o) => TooStable(included', o)
      <4> HAVE TooStable(included, o)
      <4>1. StableTokens(With(Append(included, item), o)) > StableBudget
        BY <1>1, <1>2, <1>3, <3>2, StableGrows DEF TooStable
      <4> QED BY <1>10, <3>4, <4>1 DEF TooStable, o
    <3> QED BY <1>0, <3>1, <3>3, <3>5, <3>6 DEF o
  <2> QED BY <2>1, <2>3, <2>4, <2>5, <2>6, <2>7 DEF CapsuleInv
<1> QED
  <2>1. \/ Fail
        \/ Omit(item, "token_budget") /\ ~item.required /\ InputTokens(candidate) > MaxInputTokens
        \/ /\ Omit(item, "stable_prefix_budget") /\ ~item.required
           /\ Placement(item) = StablePrefix /\ StableTokens(candidate) > StableBudget
        \/ /\ included' = candidate /\ UNCHANGED <<omitted, capsulePc>>
           /\ ~IsDuplicate(item) /\ ~(InputTokens(candidate) > MaxInputTokens)
    BY DEF TakeItem
  <2> HIDE DEF item, candidate
  <2> QED BY <1>8, <1>9, <1>10, <2>1

(* A step that leaves the capsule alone. *)
LEMMA CapsuleFrame ==
  ASSUME CapsuleInv, UNCHANGED capsuleVars, turn' = turn, attached' \in Nat,
         contextPc' \in {"attaching", "building"} =>
           \E i \in DOMAIN items : items[i].required
  PROVE  CapsuleInv'
<1>1. UNCHANGED <<items, taken, included, omitted, capsulePc>>
  BY DEF capsuleVars
<1>2. ItemsInv'
  BY <1>1 DEF CapsuleInv, ItemsInv
<1>3. SourceInv => SourceInv'
  BY <1>1 DEF SourceInv
<1>4. OrderInv => OrderInv'
  BY <1>1 DEF OrderInv, ByPlacement
<1>5. UniqueInv => UniqueInv'
  BY <1>1 DEF UniqueInv
<1>6. FitInv => FitInv'
  BY <1>1 DEF FitInv
<1>7. OmitInv => OmitInv'
  BY <1>1 DEF OmitInv
<1> QED BY <1>1, <1>2, <1>3, <1>4, <1>5, <1>6, <1>7 DEF CapsuleInv

(* The items that a turn adds. *)
LEMMA ItemIsItem ==
  ASSUME NEW kind, NEW required, NEW path, NEW size \in Nat
  PROVE  IsItem(Item(kind, required, path, size))
         /\ Item(kind, required, path, size).required = required
<1> DEFINE item == Item(kind, required, path, size)
<1>1. item.placement = None /\ item.size = size /\ item.required = required
  BY DEF Item
<1>2. DefaultPlacement(item.kind) \in 0..2
  BY DEF DefaultPlacement
<1>3. Placement(item) = DefaultPlacement(item.kind)
  BY <1>1 DEF Placement
<1> HIDE DEF item
<1>4. IsItem(item)
  BY <1>1, <1>2, <1>3 DEF IsItem
<1> QED BY <1>1, <1>4 DEF item

(* The manifest's,                                                         *)
LEMMA ManifestIsItem ==
  ASSUME ManifestTypeOK
  PROVE  IsItem(ManifestItem)
<1>1. Len(manifest.entries) \in Nat
  BY SequencesAre DEF ManifestTypeOK
<1>2. ManifestHeader + Len(manifest.entries) \in Nat
  BY <1>1, TurnAssumption
<1> DEFINE item == ManifestItem
<1>3. item.placement = 0 /\ item.size = ManifestHeader + Len(manifest.entries)
  BY DEF ManifestItem, Item, StablePrefix
<1>4. DefaultPlacement(item.kind) \in 0..2
  BY DEF DefaultPlacement
<1> HIDE DEF item
<1>5. Placement(item) \in 0..2
  BY <1>3, <1>4 DEF Placement
<1>6. IsItem(item)
  BY <1>2, <1>3, <1>5 DEF IsItem
<1> QED BY <1>6 DEF item

(* the rules',                                                             *)
LEMMA RulesAreList ==
  IsList([i \in DOMAIN RuleSizes |-> Item("project_rules", TRUE, None, RuleSizes[i])])
<1> DEFINE f == [i \in DOMAIN RuleSizes |-> Item("project_rules", TRUE, None, RuleSizes[i])]
<1>1. /\ RuleSizes \in Seq(Nat) /\ Len(RuleSizes) \in Nat
      /\ DOMAIN RuleSizes = 1..Len(RuleSizes)
      /\ \A i \in DOMAIN RuleSizes : RuleSizes[i] \in Nat
  <2>1. RuleSizes \in Seq(Nat)
    BY TurnAssumption
  <2> QED BY <2>1
<1>2. DOMAIN f = 1..Len(RuleSizes) /\ f = [i \in DOMAIN f |-> f[i]]
  BY <1>1
<1>3. \A i \in DOMAIN f : IsItem(f[i])
  <2>1. \A size \in Nat : IsItem(Item("project_rules", TRUE, None, size))
    BY ItemIsItem
  <2> QED BY <1>1, <2>1
<1> HIDE DEF f
<1>4. IsSequence(f)
  BY <1>1, <1>2, SequencesAre
<1>5. IsList(f)
  BY <1>3, <1>4 DEF IsList
<1> QED BY <1>5 DEF f

(* and those that the client sends.                                        *)
LEMMA TurnItems ==
  ASSUME NEW t \in Turns
  PROVE  /\ IsList(t.items) /\ t.task \in Nat
         /\ IsSequence(t.attachments)
         /\ \A n \in DOMAIN t.attachments :
              LET a == t.attachments[n]
              IN  /\ a.text \in {None} \cup Nat
                  /\ a.range # None => \A i \in 1..4 : a.range[i] \in Nat
<1>1. /\ t.task \in Nat
      /\ t.items \in Seq(Range(t.items)) /\ t.attachments \in Seq(Range(t.attachments))
      /\ \A item \in Range(t.items) : item.placement \in {None} \cup 0..2 /\ item.size \in Nat
      /\ \A a \in Range(t.attachments) :
           /\ a.text \in {None} \cup Nat
           /\ a.range # None => \A i \in 1..4 : a.range[i] \in Nat
  BY TurnAssumption
<1>2. ASSUME NEW item, item.placement \in {None} \cup 0..2, item.size \in Nat
      PROVE  IsItem(item)
  <2>1. DefaultPlacement(item.kind) \in 0..2
    BY DEF DefaultPlacement
  <2> QED BY <1>2, <2>1 DEF IsItem, Placement
<1>3. \A i \in DOMAIN t.items : t.items[i] \in Range(t.items)
  BY DEF Range
<1>4. \A n \in DOMAIN t.attachments : t.attachments[n] \in Range(t.attachments)
  BY DEF Range
<1>5. IsList(t.items)
  BY <1>1, <1>2, <1>3 DEF IsList, IsSequence
<1> QED BY <1>1, <1>4, <1>5 DEF IsSequence

(* An attachment that was accepted has a size. *)
LEMMA AttachmentIsItem ==
  ASSUME NEW a,
         files \in [Range(Paths) -> Contents \cup {Missing}],
         a.text \in {None} \cup Nat,
         a.range # None => \A i \in 1..4 : a.range[i] \in Nat,
         IF a.kind = "file" THEN FileIsAcceptable(a) ELSE TextIsAcceptable(a)
  PROVE  IsItem(AttachmentItem(a))
<1> DEFINE bytes == IF a.kind = "file" THEN SelectedLines(a.path, a.range) ELSE a.text
<1>0. AttachmentHeader \in Nat /\ MaxAttachmentBytes \in Nat /\ LinesOf \in [Contents -> Nat]
  BY TurnAssumption
<1>1. ASSUME a.kind = "file" PROVE bytes \in Nat
  <2>1. FileIsAcceptable(a)
    BY <1>1
  <2>2. CASE a.range = None
    <3>1. a.path \in Range(Paths) /\ files[a.path] # Missing
      BY <2>1 DEF FileIsAcceptable, Readable
    <3>2. files[a.path] \in Contents
      BY <3>1
    <3>3. SelectedLines(a.path, a.range) = LinesOf[files[a.path]]
      BY <2>2 DEF SelectedLines
    <3> QED BY <1>0, <1>1, <3>2, <3>3
  <2>3. CASE a.range # None
    <3>1. RangeIsValid(a.range)
      BY <2>1, <2>3 DEF FileIsAcceptable
    <3>2. \A i \in 1..4 : a.range[i] \in Nat
      BY <2>3
    <3>3. 1 \in 1..4 /\ 3 \in 1..4
      OBVIOUS
    <3>4. a.range[1] \in Nat /\ a.range[3] \in Nat
      BY <3>2, <3>3
    <3>5. a.range[3] >= a.range[1]
      BY <3>1, <3>4 DEF RangeIsValid
    <3>6. SelectedLines(a.path, a.range) = a.range[3] - a.range[1] + 1
      BY <2>3 DEF SelectedLines
    <3> QED BY <1>1, <3>4, <3>5, <3>6
  <2> QED BY <2>2, <2>3
<1>2. ASSUME a.kind # "file" PROVE bytes \in Nat
  <2>1. a.text \in 1..MaxAttachmentBytes
    BY <1>2 DEF TextIsAcceptable
  <2> QED BY <1>0, <1>2, <2>1
<1>3. bytes \in Nat
  BY <1>1, <1>2
<1> HIDE DEF bytes
<1>4. AttachmentHeader + bytes \in Nat
  BY <1>0, <1>3
<1>5. AttachmentItem(a) = Item(a.kind, TRUE, a.path, AttachmentHeader + bytes)
  BY DEF AttachmentItem, bytes
<1>6. \A size \in Nat : IsItem(Item(a.kind, TRUE, a.path, size))
  BY ItemIsItem
<1> QED BY <1>4, <1>5, <1>6

(* The items of a turn, of which the task is required.                     *)
LEMMA CollectItemsKeeps ==
  ASSUME ManifestInv, CapsuleInv, CollectItems
  PROVE  CapsuleInv'
<1> DEFINE manifestList == IF BringsManifest THEN <<>> ELSE <<ManifestItem>>
           rules == [i \in DOMAIN RuleSizes |-> Item("project_rules", TRUE, None, RuleSizes[i])]
           task  == Item("user_task", TRUE, None, turn.task)
           a     == manifestList \o rules
           b     == a \o <<task>>
           c     == b \o turn.items
<1>0. turn \in Turns /\ attached \in Nat
  BY DEF CapsuleInv, ItemsInv
<1>1. AddItems(c) /\ UNCHANGED <<turn, attached>>
  BY DEF CollectItems
<1>2. IsList(manifestList)
  <2>1. CASE BringsManifest
    BY <2>1, NoItems, Zenon
  <2>2. CASE ~BringsManifest
    <3>1. IsItem(ManifestItem)
      BY ManifestIsItem DEF ManifestInv
    <3> HIDE DEF manifestList
    <3>2. IsList(<<ManifestItem>>)
      BY <3>1, SingleList
    <3> QED BY <2>2, <3>2 DEF manifestList
  <2> QED BY <2>1, <2>2
<1>3. IsList(rules)
  BY RulesAreList
<1>4. IsList(turn.items) /\ turn.task \in Nat
  BY <1>0, TurnItems
<1>5. IsItem(task) /\ task.required = TRUE
  BY <1>4, ItemIsItem
<1> HIDE DEF manifestList, rules, task
<1>6. IsList(<<task>>) /\ 1 \in DOMAIN <<task>> /\ <<task>>[1] = task
  BY <1>5, SingleList
<1>7. IsList(a)
  BY <1>2, <1>3, ConcatLists
<1> HIDE DEF a
<1>8. IsList(b) /\ Len(a) + 1 \in DOMAIN b /\ b[Len(a) + 1] = task
  <2> DEFINE one == <<task>>
  <2>1. IsList(one) /\ 1 \in DOMAIN one /\ one[1] = task
    BY <1>6
  <2> HIDE DEF one
  <2>2. IsList(a \o one) /\ Len(a) + 1 \in DOMAIN (a \o one) /\ (a \o one)[Len(a) + 1] = task
    BY <1>7, <2>1, ConcatLists
  <2> QED BY <2>2 DEF one
<1> HIDE DEF b
<1>9. IsList(c) /\ Len(a) + 1 \in DOMAIN c /\ c[Len(a) + 1] = task
  BY <1>4, <1>8, ConcatLists
<1> HIDE DEF c
<1>10. \E i \in DOMAIN c : c[i].required
  <2>1. c[Len(a) + 1].required
    BY <1>5, <1>9, Zenon
  <2> QED BY <1>9, <2>1
<1> QED BY <1>0, <1>1, <1>9, <1>10, AddItemsKeeps

(* An attachment is refused or added.                                      *)
LEMMA AttachKeeps ==
  ASSUME ManifestInv, CapsuleInv, Attach
  PROVE  CapsuleInv'
<1>0. turn \in Turns /\ attached \in Nat
  BY DEF CapsuleInv, ItemsInv
<1> DEFINE a == Attachments[attached + 1]
           acceptable == /\ ~IsRepeated(attached + 1)
                         /\ IF a.kind = "file" THEN FileIsAcceptable(a)
                                               ELSE TextIsAcceptable(a)
<1>1. turn' = turn /\ contextPc = "attaching" /\ attached < Len(Attachments)
  BY DEF Attach
<1>2. CASE canceled \/ ~acceptable
  <2>1. UNCHANGED <<capsuleVars, attached>> /\ contextPc' \in {"canceled", "failed"}
    BY <1>2 DEF Attach, End
  <2> QED BY <1>0, <1>1, <2>1, CapsuleFrame
<1>3. CASE ~(canceled \/ ~acceptable)
  <2>1. AddItems(<<AttachmentItem(a)>>) /\ attached' = attached + 1 /\ contextPc' = contextPc
    BY <1>3 DEF Attach
  <2>2. IsSequence(Attachments)
        /\ \A n \in DOMAIN Attachments :
             /\ Attachments[n].text \in {None} \cup Nat
             /\ Attachments[n].range # None => \A i \in 1..4 : Attachments[n].range[i] \in Nat
    BY <1>0, TurnItems DEF Attachments
  <2>3. attached + 1 \in DOMAIN Attachments
    <3>1. Len(Attachments) \in Nat /\ DOMAIN Attachments = 1..Len(Attachments)
      BY <2>2, SequencesAre
    <3> QED BY <1>0, <1>1, <3>1
  <2>4. /\ a.text \in {None} \cup Nat
        /\ a.range # None => \A i \in 1..4 : a.range[i] \in Nat
    BY <2>2, <2>3
  <2>5. IF a.kind = "file" THEN FileIsAcceptable(a) ELSE TextIsAcceptable(a)
    BY <1>3
  <2>6. files \in [Range(Paths) -> Contents \cup {Missing}]
    BY DEF ManifestInv, ManifestTypeOK
  <2> HIDE DEF a
  <2>7. IsItem(AttachmentItem(a))
    BY <2>4, <2>5, <2>6, AttachmentIsItem
  <2> DEFINE more == <<AttachmentItem(a)>>
  <2>8. IsList(more) /\ AddItems(more)
    BY <2>1, <2>7, SingleList
  <2> HIDE DEF more
  <2>9. attached' \in Nat
    BY <1>0, <2>1
  <2> QED BY <1>0, <1>1, <2>1, <2>8, <2>9, AddItemsKeeps
<1> QED BY <1>2, <1>3

(* Every step of a turn keeps the invariant of the capsule.                *)
LEMMA StepCapsuleInv == ManifestInv /\ CapsuleInv /\ [Next]_vars => CapsuleInv'
<1> SUFFICES ASSUME ManifestInv, CapsuleInv, [Next]_vars PROVE CapsuleInv'
  OBVIOUS
<1>0. /\ turn \in Turns /\ attached \in Nat
      /\ contextPc \in {"attaching", "building"} => \E i \in DOMAIN items : items[i].required
  BY DEF CapsuleInv, ItemsInv
<1>1. CASE Walk
  <2>1. UNCHANGED <<capsuleVars, turn, attached>>
        /\ contextPc' \in {"failed", "canceled", "manifest"}
    BY <1>1 DEF Walk, End
  <2> QED BY <1>0, <2>1, CapsuleFrame
<1>2. CASE CollectItems
  BY <1>2, CollectItemsKeeps
<1>3. CASE Attach
  BY <1>3, AttachKeeps
<1>4. CASE AttachmentsDone
  <2>1. UNCHANGED <<capsuleVars, turn, attached>> /\ contextPc = "attaching"
    BY <1>4 DEF AttachmentsDone
  <2> QED BY <1>0, <2>1, CapsuleFrame
<1>5. CASE BuildCapsule
  <2>1. contextPc = "building" /\ BuildStep /\ turn' = turn /\ attached' = attached
    BY <1>5 DEF BuildCapsule
  <2>2. ASSUME NEW i \in DOMAIN items, TakeItem(i) PROVE CapsuleInv'
    BY <1>0, <2>1, <2>2, TakeItemKeeps
  <2>3. CASE BeginBuild \/ FinishBuild
    <3>1. /\ UNCHANGED <<items, taken, included, omitted>>
          /\ capsulePc' = "built" => taken = DOMAIN items
          /\ capsulePc \in {"adding", "building"}
          /\ capsulePc' \in {"failed", "building", "built"}
      BY <2>3 DEF BeginBuild, FinishBuild
    <3>2. ItemsInv'
      BY <1>0, <2>1, <3>1 DEF CapsuleInv, ItemsInv
    <3>3. SourceInv' /\ OrderInv' /\ UniqueInv' /\ FitInv' /\ OmitInv'
      <4>1. SourceInv /\ OrderInv /\ UniqueInv /\ FitInv /\ OmitInv
        BY <3>1 DEF CapsuleInv
      <4>2. SourceInv'
        BY <3>1, <4>1 DEF SourceInv
      <4>3. OrderInv'
        BY <3>1, <4>1 DEF OrderInv, ByPlacement
      <4>4. UniqueInv'
        BY <3>1, <4>1 DEF UniqueInv
      <4>5. FitInv' /\ OmitInv'
        BY <3>1, <4>1 DEF FitInv, OmitInv
      <4> QED BY <4>2, <4>3, <4>4, <4>5
    <3> QED BY <3>2, <3>3 DEF CapsuleInv
  <2> QED BY <2>1, <2>2, <2>3 DEF BuildStep
<1>6. CASE contextPc = "built" /\ ForgetContext
  <2>1. /\ items' = <<>> /\ taken' = {} /\ included' = <<>> /\ omitted' = <<>>
        /\ capsulePc' = "adding" /\ contextPc' = "built" /\ attached' = 0
        /\ turn' = CHOOSE t \in Turns : TRUE
    BY <1>6 DEF ForgetContext
  <2>2. turn' \in Turns
    <3>1. (CHOOSE t \in Turns : TRUE) \in Turns
      BY TurnAssumption
    <3> QED BY <2>1, <3>1
  <2>3. IsList(items') /\ IsList(included')
    BY <2>1, NoItems, Zenon
  <2>4. IsSequence(omitted')
    BY <2>1, ShortSequences, Zenon
  <2>5. ItemsInv'
    BY <2>1, <2>2, <2>3, <2>4 DEF ItemsInv
  <2>6. DOMAIN included' = {} /\ DOMAIN omitted' = {}
    BY <2>1
  <2> QED BY <2>1, <2>5, <2>6
          DEF CapsuleInv, SourceInv, OrderInv, ByPlacement, UniqueInv, FitInv, OmitInv
<1>7. CASE UNCHANGED <<capsuleVars, turnVars>>
  <2>1. UNCHANGED <<capsuleVars, turn, attached, contextPc>>
    BY <1>7 DEF turnVars
  <2> QED BY <1>0, <2>1, CapsuleFrame
<1>8. UNCHANGED contextVars => UNCHANGED <<capsuleVars, turnVars>>
  BY DEF contextVars
<1> QED BY <1>1, <1>2, <1>3, <1>4, <1>5, <1>6, <1>7, <1>8, ContextSteps

-----------------------------------------------------------------------------
(* The invariant of a turn's context. *)
IInv == ManifestInv /\ CapsuleInv

(* It holds in every state of a turn (AgentTurnLoop::build_context).       *)
THEOREM Invariance == Spec => []IInv
<1>1. Init => IInv
  BY InitManifestInv, InitCapsuleInv DEF Init, ContextInit, IInv
<1>2. IInv /\ [Next]_vars => IInv'
  BY StepManifestInv, StepCapsuleInv DEF IInv
<1> QED BY <1>1, <1>2, PTL DEF Spec

(* The manifest of a workspace that nobody wrote to during the walk is     *)
(* determined by its files, in whatever order the directories listed them  *)
(* (build_workspace_manifest).                                             *)
THEOREM PrefixesAreStable == Spec => []PrefixIsStable
<1>1. IInv => PrefixIsStable
  BY DEF IInv, ManifestInv
<1> QED BY <1>1, Invariance, PTL

(* A capsule has one section for each placement, in their order, and no    *)
(* source twice (ContextBuilder::build, validate_unique_source).           *)
THEOREM CapsulesAreWellFormed == Spec => []CapsuleIsWellFormed
<1>1. IInv => CapsuleIsWellFormed
  <2> SUFFICES ASSUME IInv, capsulePc = "built" PROVE CapsuleIsWellFormed
    BY DEF CapsuleIsWellFormed
  <2>1. IsList(included) /\ ByPlacement(included) /\ UniqueInv
    BY DEF IInv, CapsuleInv, ItemsInv, OrderInv
  <2>2. \A i, j \in SectionStarts(included) :
          i < j => Placement(included[i]) < Placement(included[j])
    BY <2>1, SectionsAreSorted
  <2> QED BY <2>1, <2>2 DEF CapsuleIsWellFormed, UniqueInv
<1> QED BY <1>1, Invariance, PTL

(* A capsule fits the budget and holds every required item, and what was   *)
(* left out would not fit into it, for the reason reported                 *)
(* (ContextBuilder::build).                                                *)
THEOREM OmissionsAreJustified == Spec => []OmissionIsJustified
<1>1. IInv => OmissionIsJustified
  <2> SUFFICES ASSUME CapsuleInv, capsulePc = "built" PROVE OmissionIsJustified
    BY DEF OmissionIsJustified, IInv
  <2>1. SourceInv /\ OrderInv /\ FitInv /\ OmitInv /\ ItemsInv
    BY DEF CapsuleInv
  <2>2. \A i \in DOMAIN items : items[i].required => items[i] \in Range(included)
    BY <2>1 DEF ItemsInv, SourceInv
  <2>3. PICK i \in DOMAIN items : items[i].required
    BY <2>1 DEF ItemsInv
  <2>4. included # <<>>
    <3>1. items[i] \in Range(included)
      BY <2>2, <2>3, Zenon
    <3> QED BY <3>1 DEF Range
  <2>5. Estimate(RenderedBytes(included)) <= MaxInputTokens
    BY <2>1, <2>4 DEF FitInv, InputTokens
  <2>6. \A n \in DOMAIN omitted :
          IF omitted[n].reason = "token_budget"
          THEN Estimate(RenderedBytes(With(included, omitted[n].item))) > MaxInputTokens
          ELSE StableTokens(With(included, omitted[n].item)) > StableBudget
    BY <2>1 DEF OmitInv, TooLong, TooStable, InputTokens
  <2> QED BY <2>2, <2>5, <2>6 DEF OmissionIsJustified
<1> QED BY <1>1, Invariance, PTL

-----------------------------------------------------------------------------
(* The wire. *)

First(n)  == <<"first", n>>
Second(n) == <<"second", n>>
Symbols == {Lf, Cr, Colon, Data} \cup {First(n) : n \in Nat} \cup {Second(n) : n \in Nat}
Parts(n) == {Lf, Cr, Colon, Data, First(n), Second(n)}

(* The symbols differ. *)
LEMMA SymbolsDiffer ==
  ASSUME NEW n \in Nat
  PROVE  /\ Parts(n) \subseteq Symbols
         /\ Lf # Cr /\ Lf # Colon /\ Lf # Data /\ Cr # Colon /\ Cr # Data /\ Colon # Data
         /\ {First(n), Second(n)} \cap {Lf, Cr, Colon, Data} = {}
         /\ \A m : First(m) \notin {Lf, Cr, Colon, Data, Second(n)}
         /\ \A m : First(m) = First(n) => m = n
<1>1. Parts(n) \subseteq Symbols
  BY DEF Parts, Symbols
<1>2. Lf # Cr /\ Lf # Colon /\ Lf # Data /\ Cr # Colon /\ Cr # Data /\ Colon # Data
  BY DEF Lf, Cr, Colon, Data
<1>3. {First(n), Second(n)} \cap {Lf, Cr, Colon, Data} = {}
  BY DEF First, Second, Lf, Cr, Colon, Data
<1>4. \A m : First(m) \notin {Lf, Cr, Colon, Data, Second(n)}
  BY DEF First, Second, Lf, Cr, Colon, Data
<1>5. \A m : First(m) = First(n) => m = n
  BY DEF First
<1> QED BY <1>1, <1>2, <1>3, <1>4, <1>5

(* A separator of k symbols starts at p. *)
SepAt(s, p, k) ==
  /\ p + k - 1 <= Len(s)
  /\ \/ k = 2 /\ s[p] = Lf /\ s[p + 1] = Lf
     \/ k = 3 /\ s[p] = Lf /\ s[p + 1] = Cr /\ s[p + 2] = Lf
     \/ k = 4 /\ s[p] = Cr /\ s[p + 1] = Lf /\ s[p + 2] = Cr /\ s[p + 3] = Lf

SepOf(k) == IF k = 2 THEN <<Lf, Lf>> ELSE IF k = 3 THEN <<Lf, Cr, Lf>> ELSE <<Cr, Lf, Cr, Lf>>

(* No separator starts at p, whatever follows. *)
Clear(s, p) ==
  /\ ~(s[p] = Lf /\ s[p + 1] = Lf)
  /\ ~(s[p] = Lf /\ s[p + 1] = Cr /\ s[p + 2] = Lf)
  /\ ~(s[p] = Cr /\ s[p + 1] = Lf /\ s[p + 2] = Cr)

Framed(s, q, k) ==
  /\ s \in Seq(Symbols) /\ q \in Nat /\ q >= 2 /\ k \in 2..4
  /\ Len(s) = q + k - 1 /\ SepAt(s, q, k)
  /\ \A p \in 1..(q - 1) : Clear(s, p)

(* What may stand before the separator. *)
IsHead(s) ==
  /\ s \in Seq(Symbols) /\ Len(s) \in Nat \ {0} /\ s[Len(s)] \notin {Lf, Cr}
  /\ \A p \in 1..(Len(s) - 1) :
       /\ ~(s[p] = Lf /\ s[p + 1] \in {Lf, Cr})
       /\ ~(s[p] = Cr /\ s[p + 1] = Lf /\ p + 2 <= Len(s) /\ s[p + 2] = Cr)

(* A carriage return before two line feeds would be read as the end of the *)
(* payload: no separator has it.                                           *)
EndsAreClean == <<<<Cr, Lf>>, <<Lf>>>> \notin LineEnds

(* A block ends where its separator starts.                                *)
LEMMA HeadsAreFramed ==
  ASSUME NEW s, IsHead(s), NEW e \in LineEnds
  PROVE  \E q, k : Framed(s \o e[1] \o e[2], q, k) /\ q > Len(s)
                   /\ (EndsAreClean => q = Len(s) + 1)
<1> DEFINE h == Len(s)
<1>1. /\ s \in Seq(Symbols) /\ h \in Nat \ {0} /\ s[h] \notin {Lf, Cr}
      /\ \A p \in 1..(h - 1) :
           /\ ~(s[p] = Lf /\ s[p + 1] \in {Lf, Cr})
           /\ ~(s[p] = Cr /\ s[p + 1] = Lf /\ p + 2 <= h /\ s[p + 2] = Cr)
  BY DEF IsHead
<1>2. Lf \in Symbols /\ Cr \in Symbols /\ Lf # Cr
  BY 0 \in Nat, SymbolsDiffer DEF Parts
<1> HIDE DEF h
<1>3. h = Len(s)
  BY DEF h
<1>4. CASE e = <<<<Lf>>, <<Lf>>>>
  <2> DEFINE r == s \o <<Lf>> \o <<Lf>>
  <2>1. /\ r \in Seq(Symbols) /\ Len(r) = h + 2
        /\ \A i \in 1..h : r[i] = s[i]
        /\ r[h + 1] = Lf /\ r[h + 2] = Lf
    BY <1>1, <1>2, <1>3
  <2> HIDE DEF r
  <2>2. \A p \in 1..h : Clear(r, p)
    BY <1>1, <1>2, <2>1 DEF Clear
  <2>3. Framed(r, h + 1, 2)
    BY <1>1, <2>1, <2>2 DEF Framed, SepAt
  <2> QED BY <1>1, <1>3, <1>4, <2>3 DEF r
<1>5. CASE e = <<<<Lf>>, <<Cr, Lf>>>>
  <2> DEFINE r == s \o <<Lf>> \o <<Cr, Lf>>
  <2>1. /\ r \in Seq(Symbols) /\ Len(r) = h + 3
        /\ \A i \in 1..h : r[i] = s[i]
        /\ r[h + 1] = Lf /\ r[h + 2] = Cr /\ r[h + 3] = Lf
    BY <1>1, <1>2, <1>3
  <2> HIDE DEF r
  <2>2. \A p \in 1..h : Clear(r, p)
    BY <1>1, <1>2, <2>1 DEF Clear
  <2>3. Framed(r, h + 1, 3)
    BY <1>1, <2>1, <2>2 DEF Framed, SepAt
  <2> QED BY <1>1, <1>3, <1>5, <2>3 DEF r
<1>6. CASE e = <<<<Cr, Lf>>, <<Cr, Lf>>>>
  <2> DEFINE r == s \o <<Cr, Lf>> \o <<Cr, Lf>>
  <2>1. /\ r \in Seq(Symbols) /\ Len(r) = h + 4
        /\ \A i \in 1..h : r[i] = s[i]
        /\ r[h + 1] = Cr /\ r[h + 2] = Lf /\ r[h + 3] = Cr /\ r[h + 4] = Lf
    BY <1>1, <1>2, <1>3
  <2> HIDE DEF r
  <2>2. \A p \in 1..h : Clear(r, p)
    BY <1>1, <1>2, <2>1 DEF Clear
  <2>3. Framed(r, h + 1, 4)
    BY <1>1, <2>1, <2>2 DEF Framed, SepAt
  <2> QED BY <1>1, <1>3, <1>6, <2>3 DEF r
<1>7. CASE e = <<<<Cr, Lf>>, <<Lf>>>>
  <2> DEFINE r == s \o <<Cr, Lf>> \o <<Lf>>
  <2>1. /\ r \in Seq(Symbols) /\ Len(r) = h + 3
        /\ \A i \in 1..h : r[i] = s[i]
        /\ r[h + 1] = Cr /\ r[h + 2] = Lf /\ r[h + 3] = Lf
    BY <1>1, <1>2, <1>3
  <2> HIDE DEF r
  <2>2. \A p \in 1..(h + 1) : Clear(r, p)
    BY <1>1, <1>2, <2>1 DEF Clear
  <2>3. Framed(r, h + 2, 2)
    BY <1>1, <2>1, <2>2 DEF Framed, SepAt
  <2> QED BY <1>1, <1>3, <1>7, <2>3 DEF r, EndsAreClean
<1>8. e \in {<<Lf>>, <<Cr, Lf>>} \X {<<Lf>>, <<Cr, Lf>>}
  BY StreamAssumption
<1> QED BY <1>4, <1>5, <1>6, <1>7, <1>8

(* What may stand before the separator of block n.                         *)
HeadsOf(n) ==
  IF answer[n].kind = "comment" THEN {<<Colon>>}
  ELSE IF answer[n].lines = 1 THEN {<<Data, First(n), Second(n)>>}
  ELSE {<<Data, First(n), Lf, Data, Second(n)>>, <<Data, First(n), Cr, Lf, Data, Second(n)>>}

(* Exactly that stands before place q of the block.                        *)
IsCutAt(n, q) ==
  \E head \in HeadsOf(n) :
    /\ head \in Seq(Symbols) /\ Len(head) = q - 1
    /\ \A i \in 1..(q - 1) : Rendered(n)[i] = head[i]

(* Only the block's own number and the marks stand in it.                  *)
LEMMA BlocksAreFramed ==
  ASSUME NEW n \in Nat, ends \in LineEnds
  PROVE  /\ Rendered(n) \in Seq(Parts(n))
         /\ \E q, k : Framed(Rendered(n), q, k) /\ (EndsAreClean => IsCutAt(n, q))
         /\ answer[n].kind # "comment" => Rendered(n)[1] = Data
<1> DEFINE F == First(n)
           S == Second(n)
<1>1. /\ Parts(n) = {Lf, Cr, Colon, Data, F, S} /\ Parts(n) \subseteq Symbols
      /\ Lf # Cr /\ Lf # Colon /\ Cr # Colon /\ Lf # Data /\ Cr # Data
      /\ F \notin {Lf, Cr, Data} /\ S \notin {Lf, Cr, Data}
  BY SymbolsDiffer DEF Parts
<1>2. Half(n) = <<F, S>>
  BY DEF Half, First, Second
<1> HIDE DEF F, S
<1>3. /\ ends[1] \in {<<Lf>>, <<Cr, Lf>>} /\ ends[2] \in {<<Lf>>, <<Cr, Lf>>}
      /\ ends[1] \in Seq(Parts(n)) /\ ends[2] \in Seq(Parts(n))
  <2>1. ends \in {<<Lf>>, <<Cr, Lf>>} \X {<<Lf>>, <<Cr, Lf>>}
    BY StreamAssumption
  <2>2. <<Lf>> \in Seq(Parts(n)) /\ <<Cr, Lf>> \in Seq(Parts(n))
    BY <1>1
  <2> QED BY <2>1, <2>2
<1>9. ASSUME NEW head \in HeadsOf(n), IsHead(head), head \in Seq(Parts(n)),
             Rendered(n) = head \o ends[1] \o ends[2]
      PROVE  \E q, k : Framed(Rendered(n), q, k) /\ (EndsAreClean => IsCutAt(n, q))
  <2>1. PICK q, k : /\ Framed(head \o ends[1] \o ends[2], q, k) /\ q > Len(head)
                    /\ EndsAreClean => q = Len(head) + 1
    BY <1>9, HeadsAreFramed
  <2>2. ASSUME EndsAreClean PROVE IsCutAt(n, q)
    <3>1. head \in Seq(Symbols) /\ Len(head) \in Nat
      BY <1>9 DEF IsHead
    <3>2. Len(head) = q - 1
      BY <2>1, <2>2, <3>1
    <3>3. ends[1] \in Seq(Symbols) /\ ends[2] \in Seq(Symbols)
      BY <1>1, <1>3, SeqMonotonic
    <3> DEFINE first == head \o ends[1]
    <3>4. first \in Seq(Symbols) /\ Len(first) >= Len(head) /\ Len(first) \in Nat
          /\ \A i \in 1..Len(head) : first[i] = head[i]
      BY <3>1, <3>3, InConcat
    <3> HIDE DEF first
    <3>5. \A i \in 1..Len(first) : (first \o ends[2])[i] = first[i]
      BY <3>3, <3>4, InConcat
    <3>6. \A i \in 1..Len(head) : (first \o ends[2])[i] = head[i]
      BY <3>1, <3>4, <3>5
    <3>7. Rendered(n) = first \o ends[2]
      BY <1>9 DEF first
    <3> QED BY <3>1, <3>2, <3>6, <3>7 DEF IsCutAt
  <2> QED BY <1>9, <2>1, <2>2
<1>4. ASSUME NEW head \in HeadsOf(n), IsHead(head), head \in Seq(Parts(n)), head[1] = Data,
             Rendered(n) = head \o ends[1] \o ends[2]
      PROVE  /\ Rendered(n) \in Seq(Parts(n))
             /\ \E q, k : Framed(Rendered(n), q, k) /\ (EndsAreClean => IsCutAt(n, q))
             /\ Rendered(n)[1] = Data
  <2>1. Rendered(n) \in Seq(Parts(n))
    BY <1>3, <1>4
  <2>2. Rendered(n)[1] = Data
    <3>1. Len(head) \in Nat \ {0}
      BY <1>4 DEF IsHead
    <3>2. /\ (head \o ends[1])[1] = Data /\ Len(head \o ends[1]) >= 1
          /\ head \o ends[1] \in Seq(Parts(n))
      BY <1>3, <1>4, <3>1
    <3> DEFINE first == head \o ends[1]
    <3> HIDE DEF first
    <3>3. (first \o ends[2])[1] = first[1]
      <4>1. first \in Seq(Parts(n)) /\ ends[2] \in Seq(Parts(n)) /\ 1 \in 1..Len(first)
        BY <1>3, <3>2 DEF first
      <4> QED BY <4>1, InConcat
    <3> QED BY <1>4, <3>2, <3>3 DEF first
  <2> QED BY <1>4, <1>9, <2>1, <2>2
<1>5. CASE answer[n].kind = "comment"
  <2>1. Rendered(n) = <<Colon>> \o ends[1] \o ends[2]
    BY <1>5 DEF Rendered
  <2>2. IsHead(<<Colon>>)
    BY <1>1 DEF IsHead
  <2>3. Rendered(n) \in Seq(Parts(n)) /\ <<Colon>> \in Seq(Parts(n))
    <3>1. <<Colon>> \in Seq(Parts(n))
      BY <1>1
    <3> QED BY <1>3, <2>1, <3>1
  <2>4. <<Colon>> \in HeadsOf(n)
    BY <1>5 DEF HeadsOf
  <2> QED BY <1>5, <1>9, <2>1, <2>2, <2>3, <2>4
<1>6. CASE answer[n].kind # "comment" /\ answer[n].lines = 1
  <2> DEFINE head == <<Data>> \o Half(n)
  <2>1. head = <<Data, F, S>>
    <3>1. /\ <<Data>> \o <<F, S>> \in Seq(Symbols) /\ <<Data, F, S>> \in Seq(Symbols)
          /\ Len(<<Data>> \o <<F, S>>) = 3 /\ Len(<<Data, F, S>>) = 3
      BY <1>1
    <3>2. \A i \in 1..3 : (<<Data>> \o <<F, S>>)[i] = <<Data, F, S>>[i]
      OBVIOUS
    <3> QED BY <1>2, <3>1, <3>2, SeqEqual
  <2>2. Rendered(n) = head \o ends[1] \o ends[2]
    BY <1>6 DEF Rendered
  <2> HIDE DEF head
  <2>3. head \in Seq(Parts(n)) /\ head[1] = Data
    BY <1>1, <2>1
  <2>4. IsHead(head)
    BY <1>1, <2>1 DEF IsHead
  <2>5. head \in HeadsOf(n)
    BY <1>6, <2>1 DEF HeadsOf, F, S
  <2> QED BY <1>4, <2>2, <2>3, <2>4, <2>5
<1>7. CASE answer[n].kind # "comment" /\ answer[n].lines # 1
  <2> DEFINE head == <<Data, F>> \o ends[1] \o <<Data, S>>
  <2>1. Rendered(n) = head \o ends[1] \o ends[2]
    <3>1. Half(n)[1] = F /\ Half(n)[2] = S
      BY <1>2
    <3>2. Rendered(n)
            = <<Data, Half(n)[1]>> \o ends[1] \o <<Data, Half(n)[2]>> \o ends[1] \o ends[2]
      BY <1>7 DEF Rendered
    <3> QED BY <3>1, <3>2
  <2>2. head = <<Data, F, Lf, Data, S>> \/ head = <<Data, F, Cr, Lf, Data, S>>
    <3>1. <<Data, F>> \o <<Lf>> \o <<Data, S>> = <<Data, F, Lf, Data, S>>
      <4> DEFINE two == <<Data, F>> \o <<Lf>>
      <4>1. two \in Seq(Symbols) /\ Len(two) = 3 /\ two[1] = Data /\ two[2] = F /\ two[3] = Lf
        BY <1>1
      <4> HIDE DEF two
      <4> DEFINE rest == <<Data, S>>
                 all  == two \o rest
      <4>0. rest \in Seq(Symbols) /\ Len(rest) = 2 /\ rest[1] = Data /\ rest[2] = S
        BY <1>1
      <4> HIDE DEF rest
      <4>2. /\ all \in Seq(Symbols) /\ Len(all) = 5
            /\ all[1] = Data /\ all[2] = F /\ all[3] = Lf /\ all[4] = Data /\ all[5] = S
        <5>0. two \in Seq(Symbols) /\ rest \in Seq(Symbols)
          BY <4>0, <4>1
        <5>1. all \in Seq(Symbols) /\ Len(all) = Len(two) + Len(rest)
          BY <5>0
        <5>2. \A i \in 1..Len(two) : all[i] = two[i]
          BY <5>0
        <5>3. \A i \in 1..Len(rest) : all[Len(two) + i] = rest[i]
          BY <5>0
        <5> HIDE DEF all
        <5>4. all[3 + 1] = rest[1] /\ all[3 + 2] = rest[2]
          BY <4>0, <4>1, <5>3
        <5> QED BY <4>0, <4>1, <5>1, <5>2, <5>4
      <4> HIDE DEF all
      <4>3. <<Data, F, Lf, Data, S>> \in Seq(Symbols) /\ Len(<<Data, F, Lf, Data, S>>) = 5
        BY <1>1
      <4>4. \A i \in 1..5 : all[i] = <<Data, F, Lf, Data, S>>[i]
        BY <4>2
      <4>5. all = <<Data, F, Lf, Data, S>>
        BY <4>2, <4>3, <4>4, SeqEqual
      <4> QED BY <4>5 DEF all, two, rest
    <3>2. <<Data, F>> \o <<Cr, Lf>> \o <<Data, S>> = <<Data, F, Cr, Lf, Data, S>>
      <4> DEFINE two == <<Data, F>> \o <<Cr, Lf>>
      <4>1. /\ two \in Seq(Symbols) /\ Len(two) = 4
            /\ two[1] = Data /\ two[2] = F /\ two[3] = Cr /\ two[4] = Lf
        BY <1>1
      <4> HIDE DEF two
      <4> DEFINE rest == <<Data, S>>
                 all  == two \o rest
      <4>0. rest \in Seq(Symbols) /\ Len(rest) = 2 /\ rest[1] = Data /\ rest[2] = S
        BY <1>1
      <4> HIDE DEF rest
      <4>2. /\ all \in Seq(Symbols) /\ Len(all) = 6
            /\ all[1] = Data /\ all[2] = F /\ all[3] = Cr /\ all[4] = Lf
            /\ all[5] = Data /\ all[6] = S
        <5>0. two \in Seq(Symbols) /\ rest \in Seq(Symbols)
          BY <4>0, <4>1
        <5>1. all \in Seq(Symbols) /\ Len(all) = Len(two) + Len(rest)
          BY <5>0
        <5>2. \A i \in 1..Len(two) : all[i] = two[i]
          BY <5>0
        <5>3. \A i \in 1..Len(rest) : all[Len(two) + i] = rest[i]
          BY <5>0
        <5> HIDE DEF all
        <5>4. all[4 + 1] = rest[1] /\ all[4 + 2] = rest[2]
          BY <4>0, <4>1, <5>3
        <5> QED BY <4>0, <4>1, <5>1, <5>2, <5>4
      <4> HIDE DEF all
      <4>3. /\ <<Data, F, Cr, Lf, Data, S>> \in Seq(Symbols)
            /\ Len(<<Data, F, Cr, Lf, Data, S>>) = 6
        BY <1>1
      <4>4. \A i \in 1..6 : all[i] = <<Data, F, Cr, Lf, Data, S>>[i]
        BY <4>2
      <4>5. all = <<Data, F, Cr, Lf, Data, S>>
        BY <4>2, <4>3, <4>4, SeqEqual
      <4> QED BY <4>5 DEF all, two, rest
    <3> QED BY <1>3, <3>1, <3>2
  <2> HIDE DEF head
  <2>3. head \in Seq(Parts(n)) /\ head[1] = Data
    <3>1. CASE head = <<Data, F, Lf, Data, S>>
      BY <1>1, <3>1
    <3>2. CASE head = <<Data, F, Cr, Lf, Data, S>>
      BY <1>1, <3>2
    <3> QED BY <2>2, <3>1, <3>2
  <2>4. IsHead(head)
    <3>0. Parts(n) \subseteq Symbols /\ head \in Seq(Symbols)
      BY <1>1, <2>3, SeqMonotonic
    <3>1. CASE head = <<Data, F, Lf, Data, S>>
      <4>1. /\ Len(head) = 5
            /\ head[1] = Data /\ head[2] = F /\ head[3] = Lf /\ head[4] = Data /\ head[5] = S
        BY <3>1
      <4> QED BY <1>1, <3>0, <4>1 DEF IsHead
    <3>2. CASE head = <<Data, F, Cr, Lf, Data, S>>
      <4>1. /\ Len(head) = 6
            /\ head[1] = Data /\ head[2] = F /\ head[3] = Cr /\ head[4] = Lf
            /\ head[5] = Data /\ head[6] = S
        BY <3>2
      <4> QED BY <1>1, <3>0, <4>1 DEF IsHead
    <3> QED BY <2>2, <3>1, <3>2
  <2>5. head \in HeadsOf(n)
    BY <1>7, <2>2 DEF HeadsOf, F, S
  <2> QED BY <1>4, <2>1, <2>3, <2>4, <2>5
<1> QED BY <1>5, <1>6, <1>7

(* What a boundary is, symbol by symbol. *)
LEMMA BoundariesAre ==
  ASSUME NEW s \in Seq(Symbols)
  PROVE  /\ \A b \in Boundaries(s) :
              \E p \in 1..Len(s), k \in 2..4 : b = <<p, SepOf(k)>> /\ SepAt(s, p, k)
         /\ \A p \in 1..Len(s), k \in 2..4 :
              SepAt(s, p, k) => <<p, SepOf(k)>> \in Boundaries(s)
<1>0. /\ SepOf(2) = <<Lf, Lf>> /\ SepOf(3) = <<Lf, Cr, Lf>> /\ SepOf(4) = <<Cr, Lf, Cr, Lf>>
      /\ Len(SepOf(2)) = 2 /\ Len(SepOf(3)) = 3 /\ Len(SepOf(4)) = 4
      /\ Separators = {SepOf(2), SepOf(3), SepOf(4)}
  BY DEF SepOf, Separators
<1>1. \A k \in 2..4 : SepOf(k) \in Seq(Symbols) /\ Len(SepOf(k)) = k /\ SepOf(k) \in Separators
  <2>0. Lf \in Symbols /\ Cr \in Symbols
    BY DEF Symbols
  <2>1. /\ <<Lf, Lf>> \in Seq(Symbols) /\ <<Lf, Cr, Lf>> \in Seq(Symbols)
        /\ <<Cr, Lf, Cr, Lf>> \in Seq(Symbols)
    BY <2>0
  <2>2. SepOf(2) \in Seq(Symbols) /\ SepOf(3) \in Seq(Symbols) /\ SepOf(4) \in Seq(Symbols)
    BY <1>0, <2>1
  <2>3. \A k \in 2..4 : k = 2 \/ k = 3 \/ k = 4
    OBVIOUS
  <2> QED BY <1>0, <2>2, <2>3
<1>2. Len(s) \in Nat /\ DOMAIN s = 1..Len(s)
  OBVIOUS
<1>3. ASSUME NEW p \in 1..Len(s), NEW k \in 2..4, p + k - 1 <= Len(s)
      PROVE  SubSeq(s, p, p + k - 1) = SepOf(k) <=> SepAt(s, p, k)
  <2> DEFINE t == SubSeq(s, p, p + k - 1)
             u == SepOf(k)
  <2>1. t \in Seq(Symbols) /\ Len(t) = k /\ \A i \in 1..k : t[i] = s[p + i - 1]
    <3>1. \A i \in p..(p + k - 1) : s[i] \in Symbols
      BY <1>2, <1>3
    <3>2. p \in Int /\ p + k - 1 \in Int /\ p <= p + k - 1 /\ (p + k - 1) - p + 1 = k
      BY <1>2
    <3> QED BY <3>1, <3>2, SubSeqProperties
  <2>2. u \in Seq(Symbols) /\ Len(u) = k
    BY <1>1
  <2> HIDE DEF t, u
  <2>3. t = u <=> \A i \in 1..k : t[i] = u[i]
    BY <2>1, <2>2, SeqEqual
  <2>4. CASE k = 2
    <3>1. u[1] = Lf /\ u[2] = Lf
      BY <1>0, <2>4 DEF u
    <3>2. t[1] = s[p] /\ t[2] = s[p + 1]
      BY <1>2, <2>1, <2>4
    <3>3. t = u <=> t[1] = u[1] /\ t[2] = u[2]
      <4>1. 1 \in 1..k /\ 2 \in 1..k /\ \A i \in 1..k : i = 1 \/ i = 2
        BY <2>4
      <4> QED BY <2>3, <4>1
    <3>4. SepAt(s, p, k) <=> u[1] = s[p] /\ u[2] = s[p + 1]
      BY <1>3, <2>4, <3>1 DEF SepAt
    <3>5. t = u <=> SepAt(s, p, k)
      BY <3>2, <3>3, <3>4
    <3> QED BY <3>5 DEF t, u
  <2>5. CASE k = 3
    <3>1. u[1] = Lf /\ u[2] = Cr /\ u[3] = Lf
      BY <1>0, <2>5 DEF u
    <3>2. t[1] = s[p] /\ t[2] = s[p + 1] /\ t[3] = s[p + 2]
      BY <1>2, <2>1, <2>5
    <3>3. t = u <=> t[1] = u[1] /\ t[2] = u[2] /\ t[3] = u[3]
      <4>1. 1 \in 1..k /\ 2 \in 1..k /\ 3 \in 1..k /\ \A i \in 1..k : i = 1 \/ i = 2 \/ i = 3
        BY <2>5
      <4> QED BY <2>3, <4>1
    <3>4. SepAt(s, p, k) <=> u[1] = s[p] /\ u[2] = s[p + 1] /\ u[3] = s[p + 2]
      BY <1>3, <2>5, <3>1 DEF SepAt
    <3>5. t = u <=> SepAt(s, p, k)
      BY <3>2, <3>3, <3>4
    <3> QED BY <3>5 DEF t, u
  <2>6. CASE k = 4
    <3>1. u[1] = Cr /\ u[2] = Lf /\ u[3] = Cr /\ u[4] = Lf
      BY <1>0, <2>6 DEF u
    <3>2. t[1] = s[p] /\ t[2] = s[p + 1] /\ t[3] = s[p + 2] /\ t[4] = s[p + 3]
      BY <1>2, <2>1, <2>6
    <3>3. t = u <=> t[1] = u[1] /\ t[2] = u[2] /\ t[3] = u[3] /\ t[4] = u[4]
      <4>1. /\ 1 \in 1..k /\ 2 \in 1..k /\ 3 \in 1..k /\ 4 \in 1..k
            /\ \A i \in 1..k : i = 1 \/ i = 2 \/ i = 3 \/ i = 4
        BY <2>6
      <4> QED BY <2>3, <4>1
    <3>4. SepAt(s, p, k) <=> u[1] = s[p] /\ u[2] = s[p + 1] /\ u[3] = s[p + 2] /\ u[4] = s[p + 3]
      BY <1>3, <2>6, <3>1 DEF SepAt
    <3>5. t = u <=> SepAt(s, p, k)
      BY <3>2, <3>3, <3>4
    <3> QED BY <3>5 DEF t, u
  <2> QED BY <2>4, <2>5, <2>6
<1>4. ASSUME NEW b \in Boundaries(s)
      PROVE  \E p \in 1..Len(s), k \in 2..4 : b = <<p, SepOf(k)>> /\ SepAt(s, p, k)
  <2>1. /\ b = <<b[1], b[2]>> /\ b[1] \in 1..Len(s) /\ b[2] \in Separators
        /\ b[1] + Len(b[2]) - 1 <= Len(s)
        /\ SubSeq(s, b[1], b[1] + Len(b[2]) - 1) = b[2]
    BY <1>2, <1>4 DEF Boundaries
  <2>2. PICK k \in 2..4 : b[2] = SepOf(k) /\ Len(SepOf(k)) = k
    BY <1>0, <2>1
  <2> QED BY <1>3, <2>1, <2>2
<1>5. ASSUME NEW p \in 1..Len(s), NEW k \in 2..4, SepAt(s, p, k)
      PROVE  <<p, SepOf(k)>> \in Boundaries(s)
  <2>1. p + k - 1 <= Len(s)
    BY <1>5 DEF SepAt
  <2>2. SepOf(k) \in Separators /\ Len(SepOf(k)) = k
    BY <1>1
  <2>3. SubSeq(s, p, p + k - 1) = SepOf(k)
    BY <1>3, <1>5, <2>1
  <2> QED BY <1>2, <2>1, <2>2, <2>3 DEF Boundaries
<1> QED BY <1>4, <1>5

(* Of a framed block and what follows, as much as has arrived, the first   *)
(* boundary is the block's own, and it is found when it is there.          *)
LEMMA FindsTheEnd ==
  ASSUME NEW r, NEW q, NEW k, Framed(r, q, k), NEW s \in Seq(Symbols),
         \A i \in 1..Len(r) : i <= Len(s) => s[i] = r[i],
         Boundaries(s) # {}
  PROVE  Len(r) <= Len(s) /\ FirstBoundary(s) = <<q, SepOf(k)>>
<1>1. /\ r \in Seq(Symbols) /\ q \in Nat /\ q >= 2 /\ k \in 2..4 /\ Len(r) = q + k - 1
      /\ SepAt(r, q, k) /\ \A p \in 1..(q - 1) : Clear(r, p)
  BY DEF Framed
<1>2. Lf # Cr
  BY 0 \in Nat, SymbolsDiffer
<1>3. ASSUME NEW p \in 1..Len(s), NEW j \in 2..4, SepAt(s, p, j)
      PROVE  q <= p /\ Len(r) <= p + j - 1 /\ (p = q => j = k)
  <2>1. p + j - 1 <= Len(s) /\ Len(s) \in Nat
    BY <1>3 DEF SepAt
  <2>2. q <= p
    <3> SUFFICES ASSUME p \in 1..(q - 1) PROVE FALSE
      BY <1>1, <2>1
    <3>1. p + 1 <= Len(r) /\ p + 2 <= Len(r) + 1 /\ (k # 2 \/ p # q - 1 => p + 2 <= Len(r))
      BY <1>1
    <3>2. s[p] = r[p] /\ s[p + 1] = r[p + 1] /\ (j > 2 /\ p + 2 <= Len(r) => s[p + 2] = r[p + 2])
      BY <1>1, <2>1, <3>1
    <3>3. Clear(r, p)
      BY <1>1
    <3>4. p + 2 <= Len(r)
      BY <1>1, <3>1
    <3> QED BY <1>2, <1>3, <3>2, <3>3, <3>4 DEF SepAt, Clear
  <2>3. p = q => j = k
    BY SMTT(30), <1>1, <1>2, <1>3, <2>1 DEF SepAt
  <2>4. Len(r) <= p + j - 1
    <3>1. ~(p = q + 1 /\ j = 2 /\ k = 4)
      <4> SUFFICES ASSUME p = q + 1, j = 2, k = 4 PROVE FALSE
        OBVIOUS
      <4>1. s[q + 2] = Lf /\ q + 2 <= Len(s) /\ q + 2 \in 1..Len(r)
        <5>1. p + 1 = q + 2 /\ s[p + 1] = Lf
          BY <1>1, <1>3 DEF SepAt
        <5> QED BY <1>1, <2>1, <5>1
      <4>2. r[q + 2] = Cr
        BY <1>1 DEF SepAt
      <4> QED BY <1>2, <4>1, <4>2
    <3> QED BY <1>1, <2>2, <2>3, <3>1
  <2> QED BY <2>2, <2>3, <2>4
<1>4. Len(r) <= Len(s)
  <2>1. PICK b \in Boundaries(s) : TRUE
    OBVIOUS
  <2>2. PICK p \in 1..Len(s), j \in 2..4 : SepAt(s, p, j)
    BY <2>1, BoundariesAre
  <2>3. p + j - 1 <= Len(s)
    BY <2>2 DEF SepAt
  <2> QED BY <1>1, <1>3, <2>2, <2>3
<1>5. SepAt(s, q, k) /\ q \in 1..Len(s)
  BY <1>1, <1>4 DEF SepAt
<1> DEFINE b == FirstBoundary(s)
<1>6. <<q, SepOf(k)>> \in Boundaries(s) /\ <<q, SepOf(k)>>[1] = q
  BY <1>1, <1>5, BoundariesAre
<1>7. \A c \in Boundaries(s) : q <= c[1]
  BY <1>3, BoundariesAre
<1>8. b \in Boundaries(s) /\ \A c \in Boundaries(s) : b[1] <= c[1]
  <2>1. \E d \in Boundaries(s) : \A c \in Boundaries(s) : d[1] <= c[1]
    BY <1>6, <1>7
  <2> QED BY <2>1 DEF FirstBoundary
<1> HIDE DEF b
<1>9. PICK p \in 1..Len(s), j \in 2..4 : b = <<p, SepOf(j)>> /\ SepAt(s, p, j)
  BY <1>8, BoundariesAre
<1>10. p = q
  <2>1. b[1] = p /\ p <= q
    BY <1>6, <1>8, <1>9
  <2> QED BY <1>1, <1>3, <1>9, <2>1
<1>11. j = k
  BY <1>3, <1>9, <1>10
<1> QED BY <1>4, <1>9, <1>10, <1>11 DEF b
-----------------------------------------------------------------------------
(* The parser of a block. *)

(* The recursion of Lines. *)
Reads(f, block, n) ==
  f = [i \in 0..n |->
         IF i = 0 THEN [lines |-> <<>>, line |-> <<>>] ELSE Read(f[i - 1], block[i])]

(* Every block can be read line by line.                                   *)
LEMMA ReadsExist ==
  ASSUME NEW block
  PROVE  \A n \in Nat : \E f : Reads(f, block, n)
<1> DEFINE T == {n \in Nat : \E f : Reads(f, block, n)}
<1>1. 0 \in T
  <2> DEFINE f == [i \in 0..0 |-> [lines |-> <<>>, line |-> <<>>]]
  <2>1. Reads(f, block, 0)
    BY DEF Reads
  <2> QED BY <2>1
<1>2. ASSUME NEW n \in T PROVE n + 1 \in T
  <2>1. PICK f : Reads(f, block, n)
    OBVIOUS
  <2> DEFINE next == Read(f[n], block[n + 1])
             g    == [i \in 0..(n + 1) |-> IF i = n + 1 THEN next ELSE f[i]]
  <2>2. g[n + 1] = next /\ \A i \in 0..n : g[i] = f[i]
    OBVIOUS
  <2>3. ASSUME NEW i \in 0..(n + 1)
        PROVE  g[i] = IF i = 0 THEN [lines |-> <<>>, line |-> <<>>]
                      ELSE Read(g[i - 1], block[i])
    <3>1. CASE i = n + 1
      <4>1. i # 0 /\ i - 1 = n /\ g[n] = f[n]
        BY <2>2, <3>1
      <4> QED BY <2>2, <3>1, <4>1
    <3>2. CASE i # n + 1
      <4>1. i \in 0..n /\ (i # 0 => i - 1 \in 0..n)
        BY <3>2
      <4>2. f[i] = IF i = 0 THEN [lines |-> <<>>, line |-> <<>>]
                   ELSE Read(f[i - 1], block[i])
        BY <2>1, <4>1 DEF Reads
      <4> QED BY <2>2, <4>1, <4>2
    <3> QED BY <3>1, <3>2
  <2>4. Reads(g, block, n + 1)
    BY <2>3 DEF Reads
  <2> HIDE DEF g
  <2> QED BY <2>4
<1> HIDE DEF T
<1>3. T = Nat
  BY <1>1, <1>2, Induction DEF T
<1> QED BY <1>3 DEF T

(* The lines of a block come from that recursion.                          *)
LEMMA LinesRead ==
  ASSUME NEW A, NEW block \in Seq(A)
  PROVE  \E f : /\ Reads(f, block, Len(block))
                /\ Lines(block) = IF f[Len(block)].line = <<>> THEN f[Len(block)].lines
                                  ELSE Append(f[Len(block)].lines, f[Len(block)].line)
<1>1. Len(block) \in Nat
  OBVIOUS
<1>2. \E f : Reads(f, block, Len(block))
  BY <1>1, ReadsExist
<1> QED BY <1>2, Zenon DEF Lines, Reads

(* The first line that was read begins with Data. *)
Begun(s) ==
  IF s.lines = <<>> THEN s.line # <<>> /\ Head(s.line) = Data
  ELSE s.lines[1] # <<>> /\ Head(s.lines[1]) = Data

(* Reading one symbol more keeps the lines well-formed, and a first line   *)
(* that begins with Data.                                                  *)
LEMMA ReadStep ==
  ASSUME NEW A, NEW s \in [lines : Seq(Seq(A)), line : Seq(A)], NEW symbol \in A
  PROVE  /\ Read(s, symbol) \in [lines : Seq(Seq(A)), line : Seq(A)]
         /\ Begun(s) => Begun(Read(s, symbol))
         /\ s.lines = <<>> /\ s.line = <<>> /\ symbol = Data => Begun(Read(s, symbol))
<1>0. Lf # Data /\ Cr # Data
  BY 0 \in Nat, SymbolsDiffer
<1> DEFINE lines == s.lines
           line  == s.line
           whole == IF line # <<>> /\ Last(line) = Cr THEN Front(line) ELSE line
<1>1. lines \in Seq(Seq(A)) /\ line \in Seq(A) /\ s = [lines |-> lines, line |-> line]
  OBVIOUS
<1>2. /\ whole \in Seq(A)
      /\ line # <<>> /\ Head(line) = Data => whole # <<>> /\ Head(whole) = Data
  <2>1. CASE line # <<>> /\ Last(line) = Cr
    <3> DEFINE n == Len(line)
    <3>1. n \in Nat /\ n # 0 /\ line[n] = Cr /\ \A i \in 1..n : line[i] \in A
      BY <1>1, <2>1, EmptySeq DEF Last
    <3>2. Front(line) = SubSeq(line, 1, n - 1)
      BY DEF Front
    <3> HIDE DEF n
    <3> DEFINE front == SubSeq(line, 1, n - 1)
    <3>4. 1 \in Int /\ n - 1 \in Int /\ \A i \in 1..(n - 1) : line[i] \in A
      BY <3>1
    <3>5. /\ front \in Seq(A)
          /\ Len(front) = IF 1 <= n - 1 THEN (n - 1) - 1 + 1 ELSE 0
          /\ \A i \in 1..((n - 1) - 1 + 1) : front[i] = line[1 + i - 1]
      BY <3>4, SubSeqProperties
    <3> HIDE DEF front
    <3>6. Len(front) = n - 1 /\ \A i \in 1..(n - 1) : front[i] = line[i]
      BY <3>1, <3>5
    <3>3. ASSUME Head(line) = Data PROVE front # <<>> /\ Head(front) = Data
      <4>1. line[1] = Data
        BY <1>1, <2>1, <3>3
      <4>2. n # 1
        BY <1>0, <3>1, <4>1
      <4>3. 1 \in 1..(n - 1) /\ Len(front) # 0
        BY <3>1, <3>6, <4>2
      <4>4. front # <<>> /\ front[1] = Data
        BY <3>6, <4>1, <4>3
      <4> QED BY <3>5, <4>4
    <3> QED BY <2>1, <3>2, <3>3, <3>5 DEF front
  <2>2. CASE ~ (line # <<>> /\ Last(line) = Cr)
    BY <1>1, <2>2
  <2> QED BY <2>1, <2>2
<1> HIDE DEF lines, line, whole
<1>3. CASE symbol # Lf
  <2>1. Read(s, symbol) = [lines |-> lines, line |-> Append(line, symbol)]
    BY <1>1, <1>3 DEF Read, lines, line
  <2>2. /\ Append(line, symbol) \in Seq(A) /\ Append(line, symbol) # <<>>
        /\ line # <<>> => Head(Append(line, symbol)) = Head(line)
        /\ line = <<>> => Head(Append(line, symbol)) = symbol
    <3>1. /\ Append(line, symbol) \in Seq(A) /\ Len(Append(line, symbol)) = Len(line) + 1
          /\ \A i \in 1..Len(line) : Append(line, symbol)[i] = line[i]
          /\ Append(line, symbol)[Len(line) + 1] = symbol
          /\ Append(line, symbol) # <<>> /\ Len(line) \in Nat
      BY <1>1, AppendProperties, LenProperties
    <3>2. Head(Append(line, symbol)) = Append(line, symbol)[1]
      BY <3>1
    <3>3. ASSUME line # <<>> PROVE Head(Append(line, symbol)) = Head(line)
      <4>1. 1 \in 1..Len(line) /\ Head(line) = line[1]
        BY <1>1, <3>1, <3>3, EmptySeq
      <4> QED BY <3>1, <3>2, <4>1
    <3>4. ASSUME line = <<>> PROVE Head(Append(line, symbol)) = symbol
      <4>1. Len(line) = 0
        BY <3>4
      <4> QED BY <3>1, <3>2, <4>1
    <3> QED BY <3>1, <3>3, <3>4
  <2>3. Begun(s) => Begun(Read(s, symbol))
    BY <2>1, <2>2 DEF Begun, lines, line
  <2> QED BY <1>1, <2>1, <2>2, <2>3 DEF Begun, lines, line
<1>4. CASE symbol = Lf
  <2>1. Read(s, symbol) = [lines |-> Append(lines, whole), line |-> <<>>]
    BY <1>4 DEF Read, lines, line, whole
  <2>2. /\ Append(lines, whole) \in Seq(Seq(A)) /\ Append(lines, whole) # <<>>
        /\ lines # <<>> => Append(lines, whole)[1] = lines[1]
        /\ lines = <<>> => Append(lines, whole)[1] = whole
    <3> DEFINE B == Seq(A)
    <3>1. lines \in Seq(B) /\ whole \in B
      BY <1>1, <1>2
    <3> HIDE DEF B
    <3>2. /\ Append(lines, whole) \in Seq(B) /\ Append(lines, whole) # <<>>
          /\ \A i \in 1..Len(lines) : Append(lines, whole)[i] = lines[i]
          /\ Append(lines, whole)[Len(lines) + 1] = whole /\ Len(lines) \in Nat
      BY <3>1, AppendProperties, LenProperties
    <3>3. lines # <<>> => 1 \in 1..Len(lines)
      BY <3>1, <3>2, EmptySeq
    <3>4. lines = <<>> => Len(lines) + 1 = 1
      OBVIOUS
    <3> QED BY <3>2, <3>3, <3>4 DEF B
  <2>3. Begun(s) => Begun(Read(s, symbol))
    BY <1>2, <2>1, <2>2 DEF Begun, lines, line
  <2>4. <<>> \in Seq(A)
    OBVIOUS
  <2> QED BY <1>0, <1>4, <2>1, <2>2, <2>3, <2>4
<1> QED BY <1>3, <1>4

(* A block that begins with Data has a first line that does.               *)
LEMMA LinesAre ==
  ASSUME NEW A, NEW block \in Seq(A)
  PROVE  /\ Lines(block) \in Seq(Seq(A))
         /\ block # <<>> /\ block[1] = Data =>
              Lines(block) # <<>> /\ Lines(block)[1] # <<>> /\ Head(Lines(block)[1]) = Data
<1> DEFINE m == Len(block)
<1>1. m \in Nat /\ (block # <<>> => m # 0) /\ \A i \in 1..m : block[i] \in A
  BY EmptySeq
<1>2. PICK f : /\ Reads(f, block, m)
               /\ Lines(block) = IF f[m].line = <<>> THEN f[m].lines
                                 ELSE Append(f[m].lines, f[m].line)
  BY LinesRead
<1> HIDE DEF m
<1> DEFINE States == [lines : Seq(Seq(A)), line : Seq(A)]
           T == {n \in Nat : n <= m =>
                   /\ f[n] \in States
                   /\ n # 0 /\ block[1] = Data => Begun(f[n])}
<1>3. f[0] = [lines |-> <<>>, line |-> <<>>] /\ f[0] \in States
  BY <1>1, <1>2 DEF Reads
<1>4. 0 \in T
  BY <1>3
<1>5. ASSUME NEW n \in T PROVE n + 1 \in T
  <2> SUFFICES ASSUME n + 1 <= m
               PROVE  /\ f[n + 1] \in States
                      /\ block[1] = Data => Begun(f[n + 1])
    OBVIOUS
  <2>1. f[n + 1] = Read(f[n], block[n + 1])
    <3>1. n + 1 \in 0..m /\ n + 1 # 0 /\ (n + 1) - 1 = n
      BY <1>1
    <3> QED BY <1>2, <3>1 DEF Reads
  <2>2. f[n] \in States /\ (n # 0 /\ block[1] = Data => Begun(f[n])) /\ block[n + 1] \in A
    BY <1>1
  <2> HIDE DEF T
  <2>3. f[n + 1] \in States /\ (Begun(f[n]) => Begun(f[n + 1]))
    BY <2>1, <2>2, ReadStep
  <2>4. CASE n # 0
    BY <2>2, <2>3, <2>4
  <2>5. CASE n = 0
    <3>1. f[n].lines = <<>> /\ f[n].line = <<>>
      BY <1>3, <2>5
    <3>2. block[1] = Data => Begun(Read(f[n], block[n + 1]))
      <4>1. block[n + 1] = block[1]
        BY <2>5
      <4> QED BY <2>2, <3>1, <4>1, ReadStep
    <3> QED BY <2>1, <2>3, <3>2
  <2> QED BY <2>4, <2>5
<1>6. m \in T
  <2> HIDE DEF T
  <2>1. T \in SUBSET Nat
    BY DEF T
  <2> QED BY <1>1, <1>4, <1>5, <2>1, Induction
<1>7. f[m] \in States /\ (m # 0 /\ block[1] = Data => Begun(f[m]))
  BY <1>1, <1>6
<1> DEFINE lines == f[m].lines
           line  == f[m].line
           B     == Seq(A)
<1>8. lines \in Seq(B) /\ line \in B
  BY <1>7
<1> HIDE DEF B, T
<1>9. /\ Append(lines, line) \in Seq(B) /\ Append(lines, line) # <<>>
      /\ lines # <<>> => Append(lines, line)[1] = lines[1]
      /\ lines = <<>> => Append(lines, line)[1] = line
  <2>0. lines \in Seq(B) /\ line \in B
    BY <1>8
  <2> HIDE DEF lines, line
  <2>1. /\ Append(lines, line) \in Seq(B) /\ Append(lines, line) # <<>>
        /\ \A i \in 1..Len(lines) : Append(lines, line)[i] = lines[i]
        /\ Append(lines, line)[Len(lines) + 1] = line /\ Len(lines) \in Nat
    BY <2>0, AppendProperties, LenProperties
  <2>2. lines # <<>> => 1 \in 1..Len(lines)
    BY <2>0, <2>1, EmptySeq
  <2>3. lines = <<>> => Len(lines) + 1 = 1
    OBVIOUS
  <2> QED BY <2>1, <2>2, <2>3
<1>10. Lines(block) = IF line = <<>> THEN lines ELSE Append(lines, line)
  BY <1>2
<1>11. Lines(block) \in Seq(B)
  BY <1>8, <1>9, <1>10
<1>12. ASSUME block # <<>>, block[1] = Data
       PROVE  Lines(block) # <<>> /\ Lines(block)[1] # <<>> /\ Head(Lines(block)[1]) = Data
  <2>1. IF lines = <<>> THEN line # <<>> /\ Head(line) = Data
        ELSE lines[1] # <<>> /\ Head(lines[1]) = Data
    BY <1>1, <1>7, <1>12 DEF Begun
  <2> HIDE DEF lines, line
  <2> QED BY <1>9, <1>10, <2>1
<1> QED BY <1>11, <1>12 DEF B

(* The recursion of Joined. *)
Joins(f, lines, n) ==
  f = [i \in 0..n |->
         IF i = 0 THEN <<>>
         ELSE IF f[i - 1] = <<>> THEN Tail(lines[i])
         ELSE f[i - 1] \o <<Lf>> \o Tail(lines[i])]

(* All lines can be joined.                                                *)
LEMMA JoinsExist ==
  ASSUME NEW lines
  PROVE  \A n \in Nat : \E f : Joins(f, lines, n)
<1> DEFINE T == {n \in Nat : \E f : Joins(f, lines, n)}
<1>1. 0 \in T
  <2> DEFINE f == [i \in 0..0 |-> <<>>]
  <2>1. Joins(f, lines, 0)
    BY DEF Joins
  <2> QED BY <2>1
<1>2. ASSUME NEW n \in T PROVE n + 1 \in T
  <2>1. PICK f : Joins(f, lines, n)
    OBVIOUS
  <2> DEFINE next == IF f[n] = <<>> THEN Tail(lines[n + 1])
                     ELSE f[n] \o <<Lf>> \o Tail(lines[n + 1])
  <2> HIDE DEF next
  <2> DEFINE g == [i \in 0..(n + 1) |-> IF i = n + 1 THEN next ELSE f[i]]
  <2>2. g[n + 1] = next /\ \A i \in 0..n : g[i] = f[i]
    OBVIOUS
  <2>3. ASSUME NEW i \in 0..(n + 1)
        PROVE  g[i] = IF i = 0 THEN <<>>
                      ELSE IF g[i - 1] = <<>> THEN Tail(lines[i])
                      ELSE g[i - 1] \o <<Lf>> \o Tail(lines[i])
    <3>1. CASE i = n + 1
      <4>1. i # 0 /\ i - 1 = n /\ g[n] = f[n]
        BY <2>2, <3>1
      <4> QED BY <2>2, <3>1, <4>1 DEF next
    <3>2. CASE i # n + 1
      <4>1. i \in 0..n /\ (i # 0 => i - 1 \in 0..n)
        BY <3>2
      <4>2. f[i] = IF i = 0 THEN <<>>
                   ELSE IF f[i - 1] = <<>> THEN Tail(lines[i])
                   ELSE f[i - 1] \o <<Lf>> \o Tail(lines[i])
        BY <2>1, <4>1 DEF Joins
      <4> QED BY <2>2, <4>1, <4>2
    <3> QED BY <3>1, <3>2
  <2>4. Joins(g, lines, n + 1)
    BY <2>3 DEF Joins
  <2> HIDE DEF g
  <2> QED BY <2>4
<1> HIDE DEF T
<1>3. T = Nat
  BY <1>1, <1>2, Induction DEF T
<1> QED BY <1>3 DEF T

(* What the data lines carry are symbols of the block.                     *)
LEMMA JoinedIs ==
  ASSUME NEW A, Lf \in A, NEW lines \in Seq(Seq(A)), \A i \in DOMAIN lines : lines[i] # <<>>
  PROVE  Joined(lines) \in Seq(A)
<1> DEFINE m == Len(lines)
<1>1. m \in Nat /\ \A i \in 1..m : lines[i] \in Seq(A) /\ lines[i] # <<>>
  OBVIOUS
<1>2. PICK f : Joins(f, lines, m) /\ Joined(lines) = f[m]
  <2>1. \E f : Joins(f, lines, m)
    BY <1>1, JoinsExist
  <2> QED BY <2>1, Zenon DEF Joined, Joins
<1> HIDE DEF m
<1> DEFINE T == {n \in Nat : n <= m => f[n] \in Seq(A)}
<1>3. 0 \in T
  <2>1. 0 \in 0..m
    BY <1>1
  <2>2. f[0] = <<>>
    BY <1>2, <2>1 DEF Joins
  <2>3. <<>> \in Seq(A)
    OBVIOUS
  <2>4. f[0] \in Seq(A)
    BY <2>2, <2>3, Zenon
  <2> QED BY <2>4
<1>4. ASSUME NEW n \in T PROVE n + 1 \in T
  <2> SUFFICES ASSUME n + 1 <= m PROVE f[n + 1] \in Seq(A)
    OBVIOUS
  <2>1. n + 1 \in 1..m /\ n + 1 \in 0..m /\ n + 1 # 0 /\ (n + 1) - 1 = n
    BY <1>1
  <2>2. f[n + 1] = IF f[n] = <<>> THEN Tail(lines[n + 1])
                   ELSE f[n] \o <<Lf>> \o Tail(lines[n + 1])
    BY <1>2, <2>1 DEF Joins
  <2>3. f[n] \in Seq(A) /\ Tail(lines[n + 1]) \in Seq(A)
    BY <1>1, <2>1
  <2>4. f[n] \o <<Lf>> \o Tail(lines[n + 1]) \in Seq(A)
    BY <2>3
  <2> QED BY <2>2, <2>3, <2>4
<1>5. T = Nat
  <2> HIDE DEF T
  <2>1. T \in SUBSET Nat
    BY DEF T
  <2> QED BY <1>3, <1>4, <2>1, Induction
<1> QED BY <1>1, <1>2, <1>5

(* A block is read as its own event, or as none, or cannot be read.        *)
LEMMA ParsedIs ==
  ASSUME NEW n \in Nat, NEW block \in Seq(Parts(n))
  PROVE  /\ ParseBlock(block) \in {0, n, Malformed}
         /\ block # <<>> /\ block[1] = Data => ParseBlock(block) \in {n, Malformed}
         /\ ParseBlock(block) = n /\ n # 0 => answer[n].kind \in {"chunk", "done"}
<1> DEFINE A     == Parts(n)
           data_ == {line \in Range(Lines(block)) : line # <<>> /\ Head(line) = Data}
           lines == Only(Lines(block), data_)
           data  == Joined(lines)
           json  == Only(data, Range(data) \ {Cr, Lf})
           k     == json[1][2]
<1>1. Lines(block) \in Seq(Seq(A))
  BY LinesAre
<1>2. lines \in Seq(Seq(A)) /\ lines \in Seq(data_)
  BY <1>1, OnlyIn
<1>3. \A i \in DOMAIN lines : lines[i] # <<>>
  BY <1>2
<1>4. Lf \in A
  BY DEF Parts
<1>5. data \in Seq(A)
  <2> HIDE DEF A, lines
  <2> QED BY <1>2, <1>3, <1>4, JoinedIs
<1>6. json \in Seq(A)
  <2> HIDE DEF A, data
  <2> QED BY <1>5, OnlyIn
<1>7. ASSUME json # <<>>, json = Half(k) PROVE k = n
  <2> HIDE DEF lines, data, json, k
  <2>1. json[1] \in A
    BY <1>6, <1>7
  <2>2. json[1] = First(k)
    BY <1>7 DEF Half, First
  <2>3. First(k) \in {Lf, Cr, Colon, Data, First(n), Second(n)}
    BY <2>1, <2>2 DEF Parts
  <2> QED BY <2>3, SymbolsDiffer
<1>8. ASSUME block # <<>>, block[1] = Data PROVE lines # <<>>
  <2> DEFINE all == Lines(block)
  <2>1. all # <<>> /\ all[1] # <<>> /\ Head(all[1]) = Data
    BY <1>8, LinesAre
  <2>2. all \in Seq(Seq(A))
    BY <1>1
  <2> HIDE DEF all, A
  <2>3. all[1] \in Range(all) /\ Head(all) = all[1]
    BY <2>1, <2>2, EmptySeq DEF Range
  <2>4. Head(all) \in data_
    BY <2>1, <2>3 DEF all
  <2>5. Only(all, data_) = <<Head(all)>> \o Only(Tail(all), data_)
    <3> HIDE DEF data_
    <3> QED BY <2>1, <2>2, <2>4, OnlyTail
  <2>6. Only(Tail(all), data_) \in Seq(Seq(A)) /\ Head(all) \in Seq(A)
    <3>1. Tail(all) \in Seq(Seq(A)) /\ Head(all) \in Seq(A)
      BY <2>1, <2>2
    <3> HIDE DEF data_
    <3> QED BY <3>1, OnlyIn
  <2>7. <<Head(all)>> \o Only(Tail(all), data_) # <<>>
    <3> DEFINE rest == Only(Tail(all), data_)
               B    == Seq(A)
    <3>1. rest \in Seq(B) /\ <<Head(all)>> \in Seq(B) /\ <<Head(all)>> # <<>>
      BY <2>6
    <3> HIDE DEF rest, B
    <3> QED BY <3>1, ConcatEqualIffEmpty DEF rest
  <2> QED BY <2>5, <2>7 DEF all
<1>9. ParseBlock(block) =
        IF lines = <<>> THEN 0
        ELSE IF json = <<>> \/ json # Half(k) THEN Malformed
        ELSE IF answer[k].kind = "done" /\ data = json THEN k
        ELSE IF answer[k].kind = "chunk" THEN k
        ELSE Malformed
  BY Zenon DEF ParseBlock
<1>10. Malformed \notin Nat
  BY StreamAssumption
<1> HIDE DEF lines, data, json, k
<1> QED BY <1>7, <1>8, <1>9, <1>10
(* Short sequences grow. *)
LEMMA ShortAppends ==
  /\ \A a : Append(<<>>, a) = <<a>>
  /\ \A a, b : Append(<<a>>, b) = <<a, b>>
  /\ \A a, b, c : Append(<<a, b>>, c) = <<a, b, c>>
<1>1. \A a : Append(<<>>, a) = <<a>>
  OBVIOUS
<1>3. ASSUME NEW a, NEW b PROVE Append(<<a>>, b) = <<a, b>>
  <2> DEFINE A == {a, b}
             s == <<a>>
             t == <<a, b>>
             u == Append(s, b)
  <2>1. /\ s \in Seq(A) /\ Len(s) = 1 /\ s[1] = a /\ b \in A
        /\ t \in Seq(A) /\ Len(t) = 2 /\ t[1] = a /\ t[2] = b
    OBVIOUS
  <2> HIDE DEF A, s, t
  <2>2. /\ u \in Seq(A) /\ Len(u) = Len(s) + 1 /\ u[Len(s) + 1] = b
        /\ \A i \in 1..Len(s) : u[i] = s[i]
    <3>1. s \in Seq(A) /\ b \in A
      BY <2>1
    <3> QED BY <3>1, AppendProperties
  <2> HIDE DEF u
  <2>3. Len(u) = 2 /\ u[1] = a /\ u[2] = b
    BY <2>1, <2>2
  <2>4. \A i \in 1..2 : u[i] = t[i]
    BY <2>1, <2>3
  <2>5. u = t
    BY <2>1, <2>2, <2>3, <2>4, SeqEqual
  <2> QED BY <2>5 DEF s, t, u
<1>2. ASSUME NEW a, NEW b, NEW c PROVE Append(<<a, b>>, c) = <<a, b, c>>
  <2> DEFINE A == {a, b, c}
             s == <<a, b>>
             t == <<a, b, c>>
             u == Append(s, c)
  <2>1. /\ s \in Seq(A) /\ Len(s) = 2 /\ s[1] = a /\ s[2] = b /\ c \in A
        /\ t \in Seq(A) /\ Len(t) = 3 /\ t[1] = a /\ t[2] = b /\ t[3] = c
    OBVIOUS
  <2> HIDE DEF A, s, t
  <2>2. /\ u \in Seq(A) /\ Len(u) = Len(s) + 1 /\ u[Len(s) + 1] = c
        /\ \A i \in 1..Len(s) : u[i] = s[i]
    <3>1. s \in Seq(A) /\ c \in A
      BY <2>1
    <3> QED BY <3>1, AppendProperties
  <2> HIDE DEF u
  <2>3. Len(u) = 3 /\ u[1] = a /\ u[2] = b /\ u[3] = c
    BY <2>1, <2>2
  <2>4. \A i \in 1..3 : u[i] = t[i]
    BY <2>1, <2>3
  <2>5. u = t
    BY <2>1, <2>2, <2>3, <2>4, SeqEqual
  <2> QED BY <2>5 DEF s, t, u
<1> QED BY <1>1, <1>2, <1>3

(* The lines of a block that has no line feed. *)
LEMMA OneLine ==
  ASSUME NEW block, NEW A, block \in Seq(A), block # <<>>, \A i \in DOMAIN block : block[i] # Lf
  PROVE  Lines(block) = <<block>>
<1> DEFINE m == Len(block)
<1>1. m \in Nat /\ m # 0 /\ \A i \in 1..m : block[i] # Lf
  BY EmptySeq
<1>2. PICK f : /\ Reads(f, block, m)
               /\ Lines(block) = IF f[m].line = <<>> THEN f[m].lines
                                 ELSE Append(f[m].lines, f[m].line)
  BY LinesRead
<1>3. /\ SubSeq(block, 1, 0) = <<>> /\ SubSeq(block, 1, m) = block
      /\ \A i \in Nat :
           i + 1 <= m => SubSeq(block, 1, i + 1) = Append(SubSeq(block, 1, i), block[i + 1])
  BY Beginnings
<1> HIDE DEF m
<1> DEFINE T == {i \in Nat : i <= m => f[i] = [lines |-> <<>>, line |-> SubSeq(block, 1, i)]}
<1>4. 0 \in T
  <2>1. 0 \in 0..m
    BY <1>1
  <2>2. f[0] = [lines |-> <<>>, line |-> <<>>]
    BY <1>2, <2>1 DEF Reads
  <2> QED BY <1>3, <2>2
<1>5. ASSUME NEW i \in T PROVE i + 1 \in T
  <2> SUFFICES ASSUME i + 1 <= m
               PROVE  f[i + 1] = [lines |-> <<>>, line |-> SubSeq(block, 1, i + 1)]
    OBVIOUS
  <2>1. i + 1 \in 0..m /\ i + 1 # 0 /\ (i + 1) - 1 = i /\ i + 1 \in 1..m /\ i \in Nat
    BY <1>1
  <2>2. f[i + 1] = Read(f[i], block[i + 1])
    BY <1>2, <2>1 DEF Reads
  <2>3. f[i] = [lines |-> <<>>, line |-> SubSeq(block, 1, i)]
    BY <1>1
  <2>4. SubSeq(block, 1, i + 1) = Append(SubSeq(block, 1, i), block[i + 1]) /\ block[i + 1] # Lf
    BY <1>1, <1>3, <2>1
  <2> DEFINE l == SubSeq(block, 1, i)
             x == block[i + 1]
  <2> HIDE DEF T, l, x
  <2>5. Read([lines |-> <<>>, line |-> l], x) = [lines |-> <<>>, line |-> Append(l, x)]
    BY <2>4 DEF Read, x
  <2> QED BY <2>2, <2>3, <2>4, <2>5 DEF l, x
<1>6. m \in T
  <2>1. T \in SUBSET Nat
    OBVIOUS
  <2> HIDE DEF T
  <2> QED BY <1>1, <1>4, <1>5, <2>1, Induction
<1>7. f[m] = [lines |-> <<>>, line |-> block]
  BY <1>1, <1>3, <1>6
<1> QED BY <1>2, <1>7, ShortAppends

(* The lines of a payload on two data lines. *)
LEMMA TwoLines ==
  ASSUME NEW F, NEW S, F \notin {Lf, Cr}, S \notin {Lf, Cr}
  PROVE  /\ Lines(<<Data, F, Lf, Data, S>>) = <<<<Data, F>>, <<Data, S>>>>
         /\ Lines(<<Data, F, Cr, Lf, Data, S>>) = <<<<Data, F>>, <<Data, S>>>>
<1> DEFINE A == {Data, F, S, Lf, Cr}
           p == <<Data, F, Lf, Data, S>>
           q == <<Data, F, Cr, Lf, Data, S>>
           s(lines, line) == [lines |-> lines, line |-> line]
<1>0. Lf # Cr /\ Lf # Data /\ Cr # Data
  BY 0 \in Nat, SymbolsDiffer
<1>1. \A lines, line : /\ Read(s(lines, line), Data) = s(lines, Append(line, Data))
                       /\ Read(s(lines, line), F) = s(lines, Append(line, F))
                       /\ Read(s(lines, line), S) = s(lines, Append(line, S))
                       /\ Read(s(lines, line), Cr) = s(lines, Append(line, Cr))
  <2>1. ASSUME NEW lines, NEW line, NEW x, x # Lf
        PROVE  Read(s(lines, line), x) = s(lines, Append(line, x))
    BY <2>1 DEF Read
  <2>2. Data # Lf /\ F # Lf /\ S # Lf /\ Cr # Lf
    BY <1>0
  <2> HIDE DEF s
  <2> QED BY <2>1, <2>2
<1>2. Read(s(<<>>, <<Data, F>>), Lf) = s(<<<<Data, F>>>>, <<>>)
  <2>1. Last(<<Data, F>>) = F
    BY DEF Last
  <2> QED BY <2>1, ShortAppends DEF Read
<1>3. Read(s(<<>>, <<Data, F, Cr>>), Lf) = s(<<<<Data, F>>>>, <<>>)
  <2>1. Last(<<Data, F, Cr>>) = Cr
    BY DEF Last
  <2>2. Front(<<Data, F, Cr>>) = <<Data, F>>
    <3> DEFINE t == <<Data, F, Cr>>
               u == SubSeq(t, 1, 2)
    <3>1. t \in Seq(A) /\ Len(t) = 3 /\ t[1] = Data /\ t[2] = F
      OBVIOUS
    <3> HIDE DEF t, A
    <3>2. u \in Seq(A) /\ Len(u) = 2 /\ \A i \in 1..2 : u[i] = t[i]
      <4>1. 1 \in Int /\ 2 \in Int /\ \A i \in 1..2 : t[i] \in A
        <5>1. \A i \in 1..2 : i = 1 \/ i = 2
          OBVIOUS
        <5>2. Data \in A /\ F \in A
          BY DEF A
        <5> QED BY <3>1, <5>1, <5>2
      <4>2. /\ u \in Seq(A) /\ Len(u) = IF 1 <= 2 THEN 2 - 1 + 1 ELSE 0
            /\ \A i \in 1..(2 - 1 + 1) : u[i] = t[1 + i - 1]
        BY <4>1, SubSeqProperties
      <4> QED BY <4>2
    <3> HIDE DEF u
    <3>3. u[1] = Data /\ u[2] = F
      BY <3>1, <3>2
    <3>4. <<Data, F>> \in Seq(A) /\ Len(<<Data, F>>) = 2
      BY DEF A
    <3>5. \A i \in 1..2 : u[i] = <<Data, F>>[i]
      BY <3>3
    <3>6. u = <<Data, F>>
      BY <3>2, <3>4, <3>5, SeqEqual
    <3> QED BY <3>1, <3>6 DEF Front, t, u
  <2>3. <<Data, F, Cr>> # <<>>
    OBVIOUS
  <2> QED BY <2>1, <2>2, <2>3, ShortAppends DEF Read
<1>4. \A lines : lines = <<<<Data, F>>>> =>
        Append(lines, <<Data, S>>) = <<<<Data, F>>, <<Data, S>>>>
  BY ShortAppends
<1> HIDE DEF s
<1>5. Lines(p) = <<<<Data, F>>, <<Data, S>>>>
  <2>1. p \in Seq(A) /\ Len(p) = 5
    OBVIOUS
  <2>2. PICK f : Reads(f, p, 5) /\ Lines(p) = IF f[5].line = <<>> THEN f[5].lines
                                            ELSE Append(f[5].lines, f[5].line)
    BY <2>1, LinesRead
  <2>3. /\ f[0] = s(<<>>, <<>>) /\ f[1] = Read(f[0], Data) /\ f[2] = Read(f[1], F)
        /\ f[3] = Read(f[2], Lf) /\ f[4] = Read(f[3], Data) /\ f[5] = Read(f[4], S)
    <3>1. \A i \in 1..5 : f[i] = Read(f[i - 1], p[i])
      BY <2>2 DEF Reads
    <3>2. f[0] = s(<<>>, <<>>)
      BY <2>2 DEF Reads, s
    <3>3. p[1] = Data /\ p[2] = F /\ p[3] = Lf /\ p[4] = Data /\ p[5] = S
      OBVIOUS
    <3> HIDE DEF p
    <3> QED BY <3>1, <3>2, <3>3
  <2>4. f[2] = s(<<>>, <<Data, F>>)
    <3>1. f[1] = s(<<>>, Append(<<>>, Data))
      BY <1>1, <2>3
    <3>2. f[2] = s(<<>>, Append(<<Data>>, F))
      <4>1. f[1] = s(<<>>, <<Data>>)
        BY <3>1, ShortAppends
      <4> QED BY <1>1, <2>3, <4>1
    <3> QED BY <3>2, ShortAppends
  <2>5. f[3] = s(<<<<Data, F>>>>, <<>>)
    BY <1>2, <2>3, <2>4
  <2>6. f[5] = s(<<<<Data, F>>>>, <<Data, S>>)
    <3> DEFINE l == <<<<Data, F>>>>
    <3> HIDE DEF l
    <3>1. f[3] = s(l, <<>>)
      BY <2>5 DEF l
    <3>2. f[5] = s(l, <<Data, S>>)
      <4>1. f[4] = s(l, Append(<<>>, Data))
        BY <1>1, <2>3, <3>1
      <4>2. f[4] = s(l, <<Data>>)
        BY <4>1, ShortAppends
      <4>3. f[5] = s(l, Append(<<Data>>, S))
        BY <1>1, <2>3, <4>2
      <4> QED BY <4>3, ShortAppends
    <3> QED BY <3>2 DEF l
  <2>7. f[5].lines = <<<<Data, F>>>> /\ f[5].line = <<Data, S>> /\ <<Data, S>> # <<>>
    BY <2>6 DEF s
  <2> QED BY <1>4, <2>2, <2>7
<1>6. Lines(q) = <<<<Data, F>>, <<Data, S>>>>
  <2>1. q \in Seq(A) /\ Len(q) = 6
    OBVIOUS
  <2>2. PICK f : Reads(f, q, 6) /\ Lines(q) = IF f[6].line = <<>> THEN f[6].lines
                                            ELSE Append(f[6].lines, f[6].line)
    BY <2>1, LinesRead
  <2>3. /\ f[0] = s(<<>>, <<>>) /\ f[1] = Read(f[0], Data) /\ f[2] = Read(f[1], F)
        /\ f[3] = Read(f[2], Cr) /\ f[4] = Read(f[3], Lf) /\ f[5] = Read(f[4], Data)
        /\ f[6] = Read(f[5], S)
    <3>1. \A i \in 1..6 : f[i] = Read(f[i - 1], q[i])
      BY <2>2 DEF Reads
    <3>2. f[0] = s(<<>>, <<>>)
      BY <2>2 DEF Reads, s
    <3>3. q[1] = Data /\ q[2] = F /\ q[3] = Cr /\ q[4] = Lf /\ q[5] = Data /\ q[6] = S
      OBVIOUS
    <3> HIDE DEF q
    <3> QED BY <3>1, <3>2, <3>3
  <2>4. f[3] = s(<<>>, <<Data, F, Cr>>)
    <3>1. f[1] = s(<<>>, Append(<<>>, Data))
      BY <1>1, <2>3
    <3>2. f[2] = s(<<>>, Append(<<Data>>, F))
      <4>1. f[1] = s(<<>>, <<Data>>)
        BY <3>1, ShortAppends
      <4> QED BY <1>1, <2>3, <4>1
    <3>3. f[3] = s(<<>>, Append(<<Data, F>>, Cr))
      <4>1. f[2] = s(<<>>, <<Data, F>>)
        BY <3>2, ShortAppends
      <4> QED BY <1>1, <2>3, <4>1
    <3> QED BY <3>3, ShortAppends
  <2>5. f[4] = s(<<<<Data, F>>>>, <<>>)
    BY <1>3, <2>3, <2>4
  <2>6. f[6] = s(<<<<Data, F>>>>, <<Data, S>>)
    <3> DEFINE l == <<<<Data, F>>>>
    <3> HIDE DEF l
    <3>1. f[4] = s(l, <<>>)
      BY <2>5 DEF l
    <3>2. f[6] = s(l, <<Data, S>>)
      <4>1. f[5] = s(l, Append(<<>>, Data))
        BY <1>1, <2>3, <3>1
      <4>2. f[5] = s(l, <<Data>>)
        BY <4>1, ShortAppends
      <4>3. f[6] = Read(f[5], S)
        BY <2>3
      <4>4. f[6] = s(l, Append(<<Data>>, S))
        BY <1>1, <4>2, <4>3
      <4> QED BY <4>4, ShortAppends
    <3> QED BY <3>2 DEF l
  <2>7. f[6].lines = <<<<Data, F>>>> /\ f[6].line = <<Data, S>> /\ <<Data, S>> # <<>>
    BY <2>6 DEF s
  <2> QED BY <1>4, <2>2, <2>7
<1> QED BY <1>5, <1>6

(* One data line, and two of them. *)
LEMMA JoinedShort ==
  ASSUME NEW A, NEW k \in Seq(A), NEW l \in Seq(A)
  PROVE  /\ Joined(<<k>>) = Tail(k)
         /\ Tail(k) # <<>> => Joined(<<k, l>>) = Tail(k) \o <<Lf>> \o Tail(l)
<1>1. Joined(<<k>>) = Tail(k)
  <2> DEFINE s == <<k>>
  <2>1. Len(s) = 1 /\ s[1] = k
    OBVIOUS
  <2> HIDE DEF s
  <2>2. PICK f : Joins(f, s, 1) /\ Joined(s) = f[1]
    <3>1. \E f : Joins(f, s, 1)
      BY 1 \in Nat, JoinsExist
    <3>2. \E f : Joins(f, s, Len(s)) /\ Joined(s) = f[Len(s)]
      <4>1. \E f : Joins(f, s, Len(s))
        BY <2>1, <3>1
      <4> QED BY <4>1, Zenon DEF Joined, Joins
    <3> QED BY <2>1, <3>2
  <2>3. f[0] = <<>> /\ f[1] = IF f[0] = <<>> THEN Tail(s[1]) ELSE f[0] \o <<Lf>> \o Tail(s[1])
    BY <2>2 DEF Joins
  <2> QED BY <2>1, <2>2, <2>3 DEF s
<1>2. ASSUME Tail(k) # <<>> PROVE Joined(<<k, l>>) = Tail(k) \o <<Lf>> \o Tail(l)
  <2> DEFINE s == <<k, l>>
  <2>1. Len(s) = 2 /\ s[1] = k /\ s[2] = l
    OBVIOUS
  <2> HIDE DEF s
  <2>2. PICK f : Joins(f, s, 2) /\ Joined(s) = f[2]
    <3>1. \E f : Joins(f, s, 2)
      BY 2 \in Nat, JoinsExist
    <3>2. \E f : Joins(f, s, Len(s)) /\ Joined(s) = f[Len(s)]
      <4>1. \E f : Joins(f, s, Len(s))
        BY <2>1, <3>1
      <4> QED BY <4>1, Zenon DEF Joined, Joins
    <3> QED BY <2>1, <3>2
  <2>3. /\ f[0] = <<>> /\ f[1] = IF f[0] = <<>> THEN Tail(s[1]) ELSE f[0] \o <<Lf>> \o Tail(s[1])
        /\ f[2] = IF f[1] = <<>> THEN Tail(s[2]) ELSE f[1] \o <<Lf>> \o Tail(s[2])
    <3>1. \A i \in 0..2 : f[i] = IF i = 0 THEN <<>>
                               ELSE IF f[i - 1] = <<>> THEN Tail(s[i])
                               ELSE f[i - 1] \o <<Lf>> \o Tail(s[i])
      BY <2>2 DEF Joins
    <3>2. /\ 0 \in 0..2 /\ 1 \in 0..2 /\ 2 \in 0..2 /\ 1 # 0 /\ 2 # 0 /\ 1 - 1 = 0 /\ 2 - 1 = 1
      OBVIOUS
    <3>3. f[0] = <<>>
      BY <3>1, <3>2
    <3>4. f[1] = IF f[0] = <<>> THEN Tail(s[1]) ELSE f[0] \o <<Lf>> \o Tail(s[1])
      BY <3>1, <3>2, SMTT(30)
    <3>5. f[2] = IF f[1] = <<>> THEN Tail(s[2]) ELSE f[1] \o <<Lf>> \o Tail(s[2])
      BY <3>1, <3>2, SMTT(30)
    <3> QED BY <3>3, <3>4, <3>5
  <2>4. f[1] = Tail(k)
    BY <2>1, <2>3
  <2>5. f[2] = Tail(k) \o <<Lf>> \o Tail(l)
    BY <1>2, <2>1, <2>3, <2>4
  <2> QED BY <2>2, <2>5 DEF s
<1> QED BY <1>1, <1>2

(* Short sequences without their first element, and in a row. *)
LEMMA ShortTails ==
  \A a, b, c : /\ Tail(<<a, b>>) = <<b>> /\ Tail(<<a, b, c>>) = <<b, c>>
               /\ <<a>> \o <<b>> \o <<c>> = <<a, b, c>>
<1> SUFFICES ASSUME NEW a, NEW b, NEW c
             PROVE  /\ Tail(<<a, b>>) = <<b>> /\ Tail(<<a, b, c>>) = <<b, c>>
                    /\ <<a>> \o <<b>> \o <<c>> = <<a, b, c>>
  OBVIOUS
<1> DEFINE A == {a, b, c}
<1>1. Tail(<<a, b>>) = <<b>>
  OBVIOUS
<1>2. Tail(<<a, b, c>>) = <<b, c>>
  <2> DEFINE s == <<a, b, c>>
             t == Tail(s)
             u == <<b, c>>
  <2>1. /\ s \in Seq(A) /\ Len(s) = 3 /\ s[1] = a /\ s[2] = b /\ s[3] = c /\ s # <<>>
        /\ u \in Seq(A) /\ Len(u) = 2 /\ u[1] = b /\ u[2] = c
    OBVIOUS
  <2> HIDE DEF A, s, u
  <2>2. t \in Seq(A) /\ Len(t) = Len(s) - 1 /\ \A i \in 1..(Len(s) - 1) : t[i] = s[i + 1]
    BY <2>1
  <2> HIDE DEF t
  <2>3. Len(t) = 2 /\ t[1] = b /\ t[2] = c
    BY <2>1, <2>2
  <2>4. \A i \in 1..2 : t[i] = u[i]
    BY <2>1, <2>3
  <2>5. t = u
    BY <2>1, <2>2, <2>3, <2>4, SeqEqual
  <2> QED BY <2>5 DEF s, t, u
<1>3. <<a>> \o <<b>> \o <<c>> = <<a, b, c>>
  <2>1. <<a>> \in Seq(A) /\ a \in A /\ b \in A /\ c \in A /\ <<a, b>> \in Seq(A)
    OBVIOUS
  <2> HIDE DEF A
  <2>2. <<a>> \o <<b>> = Append(<<a>>, b)
    <3> DEFINE s == <<a>>
    <3>1. s \in Seq(A)
      BY <2>1
    <3> HIDE DEF s
    <3>2. Append(s, b) = s \o <<b>>
      BY <2>1, <3>1, ConcatFacts
    <3> QED BY <3>2 DEF s
  <2>3. <<a, b>> \o <<c>> = Append(<<a, b>>, c)
    <3> DEFINE s == <<a, b>>
    <3>1. s \in Seq(A)
      BY <2>1
    <3> HIDE DEF s
    <3>2. Append(s, c) = s \o <<c>>
      BY <2>1, <3>1, ConcatFacts
    <3> QED BY <3>2 DEF s
  <2> QED BY <2>2, <2>3, ShortAppends
<1> QED BY <1>1, <1>2, <1>3

(* What is kept of two elements, or of three without the second. *)
LEMMA OnlyShort ==
  ASSUME NEW a, NEW b, NEW c, NEW S, a \in S, c \in S
  PROVE  /\ Only(<<a, c>>, S) = <<a, c>>
         /\ b \notin S => Only(<<a, b, c>>, S) = <<a, c>>
<1> DEFINE A == {a, b, c}
<1>1. <<a>> \in Seq(A) /\ <<a, b>> \in Seq(A) /\ a \in A /\ b \in A /\ c \in A
  OBVIOUS
<1> HIDE DEF A
<1>2. Only(<<a>>, S) = <<a>>
  BY OnlySingle
<1>3. \A s \in Seq(A), e \in A :
        Only(Append(s, e), S) = IF e \in S THEN Append(Only(s, S), e) ELSE Only(s, S)
  BY OnlyAppend
<1>4. Only(Append(<<a>>, c), S) = Append(<<a>>, c)
  BY <1>1, <1>2, <1>3
<1>5. b \notin S => Only(Append(<<a>>, b), S) = <<a>>
  BY <1>1, <1>2, <1>3
<1>6. b \notin S => Only(<<a, b>>, S) = <<a>>
  BY <1>5, ShortAppends
<1>7. b \notin S => Only(Append(<<a, b>>, c), S) = Append(<<a>>, c)
  BY <1>1, <1>3, <1>6
<1> QED BY <1>4, <1>7, ShortAppends

(* What a block is read as. *)
ReadAs(n) == IF answer[n].kind = "comment" THEN 0
             ELSE IF answer[n].kind \in {"chunk", "done"} THEN n ELSE Malformed

(* A block whose separator was recognised is read as what it is. *)
LEMMA HeadsAreRead ==
  ASSUME answer \in Answers, NEW n \in DOMAIN answer, NEW head \in HeadsOf(n)
  PROVE  ParseBlock(head) = ReadAs(n)
<1> DEFINE F == First(n)
           S == Second(n)
           data_(block) == {line \in Range(Lines(block)) : line # <<>> /\ Head(line) = Data}
           lines(block) == Only(Lines(block), data_(block))
           data(block)  == Joined(lines(block))
           json(block)  == Only(data(block), Range(data(block)) \ {Cr, Lf})
           k(block)     == json(block)[1][2]
<1>0. /\ n \in Nat /\ Lf # Cr /\ Lf # Colon /\ Lf # Data /\ Cr # Data /\ Colon # Data
      /\ F \notin {Lf, Cr, Colon, Data} /\ S \notin {Lf, Cr, Colon, Data}
  <2>1. n \in Nat
    BY StreamAssumption
  <2> QED BY <2>1, SymbolsDiffer
<1>1. Half(n) = <<F, S>> /\ Half(n)[1][2] = n /\ <<F, S>> # <<>>
  BY DEF Half, First, Second
<1>2. /\ answer[n].kind \in {"chunk", "comment", "invalid", "done"}
      /\ answer[n].kind = "done" => answer[n].lines = 1
  BY StreamAssumption
<1>3. \A block : ParseBlock(block) =
        IF lines(block) = <<>> THEN 0
        ELSE IF json(block) = <<>> \/ json(block) # Half(k(block)) THEN Malformed
        ELSE IF answer[k(block)].kind = "done" /\ data(block) = json(block) THEN k(block)
        ELSE IF answer[k(block)].kind = "chunk" THEN k(block)
        ELSE Malformed
  BY Zenon DEF ParseBlock
<1> HIDE DEF F, S
<1>4. CASE answer[n].kind = "comment"
  <2>1. head = <<Colon>>
    BY <1>4 DEF HeadsOf
  <2>2. Lines(head) = <<head>>
    <3>1. head \in Seq({Colon}) /\ head # <<>> /\ \A i \in DOMAIN head : head[i] # Lf
      BY <1>0, <2>1
    <3> QED BY <3>1, OneLine
  <2>3. head \notin data_(head)
    BY <1>0, <2>1
  <2>4. lines(head) = <<>>
    <3> DEFINE d == data_(head)
    <3>1. head \notin d
      BY <2>3
    <3> HIDE DEF d
    <3>2. Only(<<head>>, d) = <<>>
      BY <3>1, OnlySingle
    <3> QED BY <2>2, <3>2 DEF d
  <2> QED BY <1>3, <1>4, <2>4 DEF ReadAs
<1>5. ASSUME answer[n].kind # "comment", lines(head) # <<>>, json(head) = <<F, S>>,
             answer[n].kind = "done" => data(head) = json(head)
      PROVE  ParseBlock(head) = ReadAs(n)
  <2>1. json(head) # <<>> /\ k(head) = n /\ json(head) = Half(k(head))
    BY <1>1, <1>5
  <2> HIDE DEF json, k, data, lines
  <2> QED BY <1>2, <1>3, <1>5, <2>1 DEF ReadAs
<1>6. CASE answer[n].kind # "comment" /\ answer[n].lines = 1
  <2>1. head = <<Data, F, S>>
    BY <1>6 DEF HeadsOf, F, S
  <2>2. Lines(head) = <<head>>
    <3>1. head \in Seq({Data, F, S}) /\ head # <<>> /\ \A i \in DOMAIN head : head[i] # Lf
      BY <1>0, <2>1
    <3> QED BY <3>1, OneLine
  <2>3. lines(head) = <<head>>
    <3> DEFINE d == data_(head)
    <3>1. head \in d
      <4>1. head # <<>> /\ Head(head) = Data
        BY <2>1
      <4>2. head \in Range(<<head>>)
        <5>1. 1 \in DOMAIN <<head>> /\ <<head>>[1] = head
          OBVIOUS
        <5> QED BY <5>1 DEF Range
      <4> QED BY <2>2, <4>1, <4>2
    <3> HIDE DEF d
    <3>2. Only(<<head>>, d) = <<head>>
      BY <3>1, OnlySingle
    <3> QED BY <2>2, <3>2 DEF d
  <2>4. data(head) = <<F, S>>
    <3>1. head \in Seq({Data, F, S})
      BY <2>1
    <3>2. Joined(<<head>>) = Tail(head)
      BY <3>1, JoinedShort
    <3> QED BY <2>1, <2>3, <3>2, ShortTails
  <2>5. json(head) = <<F, S>>
    <3>1. F \in Range(<<F, S>>) \ {Cr, Lf} /\ S \in Range(<<F, S>>) \ {Cr, Lf}
      <4>1. 1 \in DOMAIN <<F, S>> /\ 2 \in DOMAIN <<F, S>> /\ <<F, S>>[1] = F /\ <<F, S>>[2] = S
        OBVIOUS
      <4> QED BY <1>0, <4>1 DEF Range
    <3> DEFINE d == Range(<<F, S>>) \ {Cr, Lf}
    <3> HIDE DEF d
    <3>2. Only(<<F, S>>, d) = <<F, S>>
      <4>1. F \in d /\ S \in d
        BY <3>1 DEF d
      <4> QED BY <4>1, OnlyShort
    <3> QED BY <2>4, <3>2 DEF d
  <2>6. lines(head) # <<>>
    BY <2>3
  <2> QED BY <1>5, <1>6, <2>4, <2>5, <2>6
<1>7. CASE answer[n].kind # "comment" /\ answer[n].lines # 1
  <2>1. head = <<Data, F, Lf, Data, S>> \/ head = <<Data, F, Cr, Lf, Data, S>>
    BY <1>7 DEF HeadsOf, F, S
  <2> DEFINE x == <<Data, F>>
             y == <<Data, S>>
  <2>2. Lines(head) = <<x, y>>
    BY <1>0, <2>1, TwoLines
  <2>3. lines(head) = <<x, y>>
    <3> DEFINE d == data_(head)
    <3>1. x \in d /\ y \in d
      <4>1. x # <<>> /\ Head(x) = Data /\ y # <<>> /\ Head(y) = Data
        OBVIOUS
      <4> HIDE DEF x, y
      <4>2. x \in Range(<<x, y>>) /\ y \in Range(<<x, y>>)
        <5>1. 1 \in DOMAIN <<x, y>> /\ 2 \in DOMAIN <<x, y>> /\ <<x, y>>[1] = x /\ <<x, y>>[2] = y
          OBVIOUS
        <5> QED BY <5>1 DEF Range
      <4> QED BY <2>2, <4>1, <4>2
    <3> HIDE DEF d, x, y
    <3>2. Only(<<x, y>>, d) = <<x, y>>
      BY <3>1, OnlyShort
    <3> QED BY <2>2, <3>2 DEF d
  <2>4. data(head) = <<F, Lf, S>>
    <3>1. x \in Seq({Data, F, S}) /\ y \in Seq({Data, F, S}) /\ Tail(x) = <<F>> /\ Tail(y) = <<S>>
          /\ <<F>> # <<>>
      BY ShortTails
    <3> DEFINE A == {Data, F, S}
    <3> HIDE DEF x, y
    <3>2. Joined(<<x, y>>) = Tail(x) \o <<Lf>> \o Tail(y)
      <4>1. x \in Seq(A) /\ y \in Seq(A) /\ Tail(x) # <<>>
        BY <3>1
      <4> HIDE DEF A
      <4> QED BY <4>1, JoinedShort
    <3> QED BY <2>3, <3>1, <3>2, ShortTails
  <2>5. json(head) = <<F, S>>
    <3> DEFINE d == Range(<<F, Lf, S>>) \ {Cr, Lf}
    <3>1. F \in d /\ S \in d /\ Lf \notin d
      <4>1. 1 \in DOMAIN <<F, Lf, S>> /\ 3 \in DOMAIN <<F, Lf, S>>
            /\ <<F, Lf, S>>[1] = F /\ <<F, Lf, S>>[3] = S
        OBVIOUS
      <4> QED BY <1>0, <4>1 DEF Range
    <3> HIDE DEF d
    <3>2. Only(<<F, Lf, S>>, d) = <<F, S>>
      BY <3>1, OnlyShort
    <3> QED BY <2>4, <3>2 DEF d
  <2>6. lines(head) # <<>>
    BY <2>3
  <2>7. answer[n].kind # "done"
    BY <1>2, <1>7
  <2> QED BY <1>5, <1>7, <2>5, <2>6, <2>7
<1> QED BY <1>4, <1>6, <1>7
-----------------------------------------------------------------------------
(* The accumulator of tool calls, and the stream of the CLI. *)

(* The recursion of AppendDeltas. *)
Appends(f, calls, deltas, n) ==
  f = [i \in 0..n |-> IF i = 0 THEN calls ELSE AppendDelta(f[i - 1], deltas[i])]

(* Every list of pieces can be accumulated.                              *)
LEMMA AppendsExist ==
  ASSUME NEW calls, NEW deltas
  PROVE  \A n \in Nat : \E f : Appends(f, calls, deltas, n)
<1> DEFINE T == {n \in Nat : \E f : Appends(f, calls, deltas, n)}
<1>1. 0 \in T
  <2> DEFINE f == [i \in 0..0 |-> calls]
  <2>1. Appends(f, calls, deltas, 0)
    BY DEF Appends
  <2> QED BY <2>1
<1>2. ASSUME NEW n \in T PROVE n + 1 \in T
  <2>1. PICK f : Appends(f, calls, deltas, n)
    OBVIOUS
  <2> DEFINE next == AppendDelta(f[n], deltas[n + 1])
  <2>0. next = AppendDelta(f[n], deltas[n + 1])
    OBVIOUS
  <2> HIDE DEF next
  <2> DEFINE g == [i \in 0..(n + 1) |-> IF i = n + 1 THEN next ELSE f[i]]
  <2>2. g[n + 1] = next /\ \A i \in 0..n : g[i] = f[i]
    OBVIOUS
  <2>3. ASSUME NEW i \in 0..(n + 1)
        PROVE  g[i] = IF i = 0 THEN calls ELSE AppendDelta(g[i - 1], deltas[i])
    <3>1. CASE i = n + 1
      <4>1. i # 0 /\ i - 1 = n /\ g[n] = f[n]
        BY <2>2, <3>1
      <4> QED BY <2>0, <2>2, <3>1, <4>1
    <3>2. CASE i # n + 1
      <4>1. i \in 0..n /\ (i # 0 => i - 1 \in 0..n)
        BY <3>2
      <4>2. f[i] = IF i = 0 THEN calls ELSE AppendDelta(f[i - 1], deltas[i])
        BY <2>1, <4>1 DEF Appends
      <4> QED BY <2>2, <4>1, <4>2
    <3> QED BY <3>1, <3>2
  <2>4. Appends(g, calls, deltas, n + 1)
    BY <2>3 DEF Appends
  <2> HIDE DEF g
  <2> QED BY <2>4
<1> HIDE DEF T
<1>3. T = Nat
  BY <1>1, <1>2, Induction DEF T
<1> QED BY <1>3 DEF T

(* The first pieces decide what is accumulated of them.                  *)
LEMMA AppendsAgree ==
  ASSUME NEW calls, NEW s, NEW t, NEW n \in Nat, NEW m \in Nat, n <= m,
         NEW f, NEW g, Appends(f, calls, s, n), Appends(g, calls, t, m),
         \A i \in 1..n : s[i] = t[i]
  PROVE  f[n] = g[n]
<1> DEFINE T == {i \in Nat : i <= n => f[i] = g[i]}
<1>1. 0 \in T
  BY DEF Appends
<1>2. ASSUME NEW i \in T PROVE i + 1 \in T
  <2> SUFFICES ASSUME i + 1 <= n PROVE f[i + 1] = g[i + 1]
    OBVIOUS
  <2>1. /\ i \in Nat /\ i + 1 \in 0..n /\ i + 1 \in 0..m /\ i + 1 # 0 /\ (i + 1) - 1 = i
        /\ f[i] = g[i] /\ s[i + 1] = t[i + 1]
    OBVIOUS
  <2>2. f[i + 1] = AppendDelta(f[i], s[i + 1]) /\ g[i + 1] = AppendDelta(g[i], t[i + 1])
    BY <2>1 DEF Appends
  <2> QED BY <2>1, <2>2
<1> HIDE DEF T
<1>3. T = Nat
  BY <1>1, <1>2, Induction DEF T
<1> QED BY <1>3 DEF T

(* The accumulator is the last value of the recursion.                   *)
LEMMA AppendDeltasIs ==
  ASSUME NEW A, NEW deltas \in Seq(A), NEW calls
  PROVE  \E f : /\ Appends(f, calls, deltas, Len(deltas))
                /\ AppendDeltas(calls, deltas) = f[Len(deltas)]
<1>1. \E f : Appends(f, calls, deltas, Len(deltas))
  <2>1. Len(deltas) \in Nat
    OBVIOUS
  <2> QED BY <2>1, AppendsExist
<1> QED BY <1>1, Zenon DEF AppendDeltas, Appends

(* One piece more.                                                       *)
LEMMA AppendDeltasNext ==
  ASSUME NEW A, NEW s \in Seq(A), NEW e \in A, NEW calls
  PROVE  /\ AppendDeltas(calls, <<>>) = calls
         /\ AppendDeltas(calls, Append(s, e)) = AppendDelta(AppendDeltas(calls, s), e)
<1> DEFINE t == Append(s, e)
<1>0. /\ t \in Seq(A) /\ Len(t) = Len(s) + 1 /\ t[Len(s) + 1] = e /\ Len(s) \in Nat
      /\ \A i \in 1..Len(s) : s[i] = t[i]
  OBVIOUS
<1> HIDE DEF t
<1>1. PICK f : Appends(f, calls, s, Len(s)) /\ AppendDeltas(calls, s) = f[Len(s)]
  BY AppendDeltasIs
<1>2. PICK g : Appends(g, calls, t, Len(t)) /\ AppendDeltas(calls, t) = g[Len(t)]
  BY AppendDeltasIs, <1>0
<1>3. f[Len(s)] = g[Len(s)]
  <2>1. Len(s) \in Nat /\ Len(t) \in Nat /\ Len(s) <= Len(t)
    BY <1>0
  <2> QED BY <1>0, <1>1, <1>2, <2>1, AppendsAgree
<1>4. g[Len(t)] = AppendDelta(g[Len(s)], e)
  <2>1. Len(t) \in 0..Len(t) /\ Len(t) # 0 /\ Len(t) - 1 = Len(s) /\ t[Len(t)] = e
    BY <1>0
  <2> QED BY <1>2, <2>1 DEF Appends
<1>5. AppendDeltas(calls, <<>>) = calls
  <2>1. <<>> \in Seq(A) /\ Len(<<>>) = 0 /\ 0 \in 0..0
    OBVIOUS
  <2>2. PICK h : Appends(h, calls, <<>>, Len(<<>>)) /\ AppendDeltas(calls, <<>>) = h[Len(<<>>)]
    BY <2>1, AppendDeltasIs
  <2> QED BY <2>1, <2>2 DEF Appends
<1> QED BY <1>1, <1>2, <1>3, <1>4, <1>5 DEF t

(* The recursion of TakeChoices. *)
Takes(f, r, choices, n) ==
  f = [i \in 0..n |-> IF i = 0 THEN r ELSE TakeChoice(f[i - 1], choices[i])]

(* Every list of choices can be taken.                                   *)
LEMMA TakesExist ==
  ASSUME NEW r, NEW choices
  PROVE  \A n \in Nat : \E f : Takes(f, r, choices, n)
<1> DEFINE T == {n \in Nat : \E f : Takes(f, r, choices, n)}
<1>1. 0 \in T
  <2> DEFINE f == [i \in 0..0 |-> r]
  <2>1. Takes(f, r, choices, 0)
    BY DEF Takes
  <2> QED BY <2>1
<1>2. ASSUME NEW n \in T PROVE n + 1 \in T
  <2>1. PICK f : Takes(f, r, choices, n)
    OBVIOUS
  <2> DEFINE next == TakeChoice(f[n], choices[n + 1])
  <2>0. next = TakeChoice(f[n], choices[n + 1])
    OBVIOUS
  <2> HIDE DEF next
  <2> DEFINE g == [i \in 0..(n + 1) |-> IF i = n + 1 THEN next ELSE f[i]]
  <2>2. g[n + 1] = next /\ \A i \in 0..n : g[i] = f[i]
    OBVIOUS
  <2>3. ASSUME NEW i \in 0..(n + 1)
        PROVE  g[i] = IF i = 0 THEN r ELSE TakeChoice(g[i - 1], choices[i])
    <3>1. CASE i = n + 1
      <4>1. i # 0 /\ i - 1 = n /\ g[n] = f[n]
        BY <2>2, <3>1
      <4> QED BY <2>0, <2>2, <3>1, <4>1
    <3>2. CASE i # n + 1
      <4>1. i \in 0..n /\ (i # 0 => i - 1 \in 0..n)
        BY <3>2
      <4>2. f[i] = IF i = 0 THEN r ELSE TakeChoice(f[i - 1], choices[i])
        BY <2>1, <4>1 DEF Takes
      <4> QED BY <2>2, <4>1, <4>2
    <3> QED BY <3>1, <3>2
  <2>4. Takes(g, r, choices, n + 1)
    BY <2>3 DEF Takes
  <2> HIDE DEF g
  <2> QED BY <2>4
<1> HIDE DEF T
<1>3. T = Nat
  BY <1>1, <1>2, Induction DEF T
<1> QED BY <1>3 DEF T

(* The first choices decide what is taken of them.                       *)
LEMMA TakesAgree ==
  ASSUME NEW r, NEW s, NEW t, NEW n \in Nat, NEW m \in Nat, n <= m,
         NEW f, NEW g, Takes(f, r, s, n), Takes(g, r, t, m),
         \A i \in 1..n : s[i] = t[i]
  PROVE  f[n] = g[n]
<1> DEFINE T == {i \in Nat : i <= n => f[i] = g[i]}
<1>1. 0 \in T
  BY DEF Takes
<1>2. ASSUME NEW i \in T PROVE i + 1 \in T
  <2> SUFFICES ASSUME i + 1 <= n PROVE f[i + 1] = g[i + 1]
    OBVIOUS
  <2>1. /\ i \in Nat /\ i + 1 \in 0..n /\ i + 1 \in 0..m /\ i + 1 # 0 /\ (i + 1) - 1 = i
        /\ f[i] = g[i] /\ s[i + 1] = t[i + 1]
    OBVIOUS
  <2>2. f[i + 1] = TakeChoice(f[i], s[i + 1]) /\ g[i + 1] = TakeChoice(g[i], t[i + 1])
    BY <2>1 DEF Takes
  <2> QED BY <2>1, <2>2
<1> HIDE DEF T
<1>3. T = Nat
  BY <1>1, <1>2, Induction DEF T
<1> QED BY <1>3 DEF T

(* What is taken is the last value of the recursion.                     *)
LEMMA TakeChoicesIs ==
  ASSUME NEW A, NEW choices \in Seq(A), NEW r
  PROVE  \E f : Takes(f, r, choices, Len(choices)) /\ TakeChoices(r, choices) = f[Len(choices)]
<1>1. \E f : Takes(f, r, choices, Len(choices))
  <2>1. Len(choices) \in Nat
    OBVIOUS
  <2> QED BY <2>1, TakesExist
<1> QED BY <1>1, Zenon DEF TakeChoices, Takes

(* One choice more.                                                      *)
LEMMA TakeChoicesNext ==
  ASSUME NEW A, NEW s \in Seq(A), NEW e \in A, NEW r
  PROVE  /\ TakeChoices(r, <<>>) = r
         /\ TakeChoices(r, Append(s, e)) = TakeChoice(TakeChoices(r, s), e)
<1> DEFINE t == Append(s, e)
<1>0. /\ t \in Seq(A) /\ Len(t) = Len(s) + 1 /\ t[Len(s) + 1] = e /\ Len(s) \in Nat
      /\ \A i \in 1..Len(s) : s[i] = t[i]
  OBVIOUS
<1> HIDE DEF t
<1>1. PICK f : Takes(f, r, s, Len(s)) /\ TakeChoices(r, s) = f[Len(s)]
  BY TakeChoicesIs
<1>2. PICK g : Takes(g, r, t, Len(t)) /\ TakeChoices(r, t) = g[Len(t)]
  BY TakeChoicesIs, <1>0
<1>3. f[Len(s)] = g[Len(s)]
  <2>1. Len(s) \in Nat /\ Len(t) \in Nat /\ Len(s) <= Len(t)
    BY <1>0
  <2> QED BY <1>0, <1>1, <1>2, <2>1, TakesAgree
<1>4. g[Len(t)] = TakeChoice(g[Len(s)], e)
  <2>1. Len(t) \in 0..Len(t) /\ Len(t) # 0 /\ Len(t) - 1 = Len(s) /\ t[Len(t)] = e
    BY <1>0
  <2> QED BY <1>2, <2>1 DEF Takes
<1>5. TakeChoices(r, <<>>) = r
  <2>1. <<>> \in Seq(A) /\ Len(<<>>) = 0 /\ 0 \in 0..0
    OBVIOUS
  <2>2. PICK h : Takes(h, r, <<>>, Len(<<>>)) /\ TakeChoices(r, <<>>) = h[Len(<<>>)]
    BY <2>1, TakeChoicesIs
  <2> QED BY <2>1, <2>2 DEF Takes
<1> QED BY <1>1, <1>2, <1>3, <1>4, <1>5 DEF t

(* A call of which pieces were heard: what they say of a field, and what   *)
(* the accumulator makes of it.                                            *)
Fields == {"id", "kind", "name"}
PiecesFor(ps, k)      == Only(ps, {p \in Range(ps) : p.index = k})
ValuesFor(ps, k, f)   == {p[f] : p \in Range(PiecesFor(ps, k))} \ {NoValue}
IsOneValue(set)       == \E x \in set \ {""} : set = {x}
ValueOf(set)          == IF set = {} THEN NoValue
                         ELSE IF IsOneValue(set) THEN CHOOSE x \in set : TRUE ELSE Malformed
ArgumentsIn(ps)       == FlattenSeq([i \in DOMAIN ps |-> ps[i].arguments])
CallFor(ps, k) ==
  [id   |-> ValueOf(ValuesFor(ps, k, "id")), kind |-> ValueOf(ValuesFor(ps, k, "kind")),
   name |-> ValueOf(ValuesFor(ps, k, "name")),
   arguments |-> ArgumentsIn(PiecesFor(ps, k))]
NumbersIn(ps) == {p.index : p \in Range(ps)}
CallsFor(ps)  == [k \in NumbersIn(ps) |-> CallFor(ps, k)]

(* Pieces with arguments over A. *)
ArePieces(P, A) ==
  \A p \in P : p.arguments \in Seq(A) /\ Malformed \notin {p.id, p.kind, p.name}

(* A value is merged with what was said before. *)
LEMMA MergedValue ==
  ASSUME NEW V, NEW x, Malformed \notin V, Malformed # NoValue, x # Malformed, NoValue \notin V
  PROVE  Merged(ValueOf(V), x) = ValueOf((V \cup {x}) \ {NoValue})
<1>1. CASE x = NoValue
  <2>1. (V \cup {x}) \ {NoValue} = V
    BY <1>1
  <2> QED BY <1>1, <2>1 DEF Merged
<1>2. CASE x # NoValue
  <2>1. (V \cup {x}) \ {NoValue} = V \cup {x}
    BY <1>2
  <2> DEFINE W == V \cup {x}
  <2>2. W # {} /\ x \in W
    OBVIOUS
  <2>3. CASE x = ""
    <3>1. ~IsOneValue(W)
      BY <2>2, <2>3 DEF IsOneValue
    <3> QED BY <1>2, <2>1, <2>2, <2>3, <3>1 DEF Merged, ValueOf
  <2>4. CASE x # "" /\ V = {}
    <3>1. W = {x}
      BY <2>4
    <3>2. IsOneValue(W) /\ (CHOOSE y \in W : TRUE) = x
      BY <2>4, <3>1 DEF IsOneValue
    <3> QED BY <1>2, <2>1, <2>2, <2>4, <3>2 DEF Merged, ValueOf
  <2>5. CASE x # "" /\ V # {} /\ IsOneValue(V)
    <3>1. PICK y \in V \ {""} : V = {y}
      BY <2>5 DEF IsOneValue
    <3>2. ValueOf(V) = y
      BY <2>5, <3>1 DEF ValueOf
    <3>3. y # NoValue
      BY <3>1
    <3>4. CASE x = y
      <4>1. W = V
        BY <3>1, <3>4
      <4> QED BY <1>2, <2>1, <2>5, <3>2, <3>4, <4>1 DEF Merged
    <3>5. CASE x # y
      <4>1. ~IsOneValue(W)
        BY <3>1, <3>5 DEF IsOneValue
      <4> QED BY <1>2, <2>1, <2>2, <2>5, <3>2, <3>3, <3>5, <4>1 DEF Merged, ValueOf
    <3> QED BY <3>4, <3>5
  <2>6. CASE x # "" /\ V # {} /\ ~IsOneValue(V)
    <3>1. ValueOf(V) = Malformed
      BY <2>6 DEF ValueOf
    <3>2. ~IsOneValue(W)
      <4> SUFFICES ASSUME NEW y \in W \ {""}, W = {y} PROVE FALSE
        BY DEF IsOneValue
      <4>1. V = {y}
        BY <2>6
      <4> QED BY <2>6, <4>1 DEF IsOneValue
    <3> QED BY <1>2, <2>1, <2>2, <2>6, <3>1, <3>2 DEF Merged, ValueOf
  <2> QED BY <2>3, <2>4, <2>5, <2>6
<1> QED BY <1>1, <1>2

(* The pieces of one call, and of one piece more. *)
LEMMA PiecesAppend ==
  ASSUME NEW P, NEW ps \in Seq(P), NEW p \in P, NEW k
  PROVE  /\ PiecesFor(ps, k) \in Seq(P) /\ PiecesFor(Append(ps, p), k) \in Seq(P)
         /\ PiecesFor(Append(ps, p), k) =
              IF p.index = k THEN Append(PiecesFor(ps, k), p) ELSE PiecesFor(ps, k)
         /\ k \notin NumbersIn(ps) => PiecesFor(ps, k) = <<>>
         /\ NumbersIn(Append(ps, p)) = NumbersIn(ps) \cup {p.index}
<1> DEFINE qs == Append(ps, p)
           S == {x \in Range(ps) : x.index = k}
           T == {x \in Range(qs) : x.index = k}
<1>1. qs \in Seq(P) /\ Range(qs) = Range(ps) \cup {p}
  BY RangeAppend
<1>2. T \cap Range(ps) = S
  BY <1>1
<1>3. Only(ps, T) = Only(ps, S)
  <2>1. IsSequence(ps)
    BY DEF IsSequence
  <2> HIDE DEF S, T
  <2>2. Only(ps, T) = Only(ps, T \cap Range(ps))
    BY <2>1, OnlyAll
  <2> QED BY <1>2, <2>2
<1>4. p \in T <=> p.index = k
  BY <1>1
<1>5. Only(ps, S) \in Seq(P) /\ Only(qs, T) \in Seq(P)
  <2> HIDE DEF S, T, qs
  <2> QED BY <1>1, OnlyIn
<1>6. Only(qs, T) = IF p \in T THEN Append(Only(ps, T), p) ELSE Only(ps, T)
  <2> HIDE DEF T
  <2> QED BY OnlyAppend
<1>7. k \notin NumbersIn(ps) => PiecesFor(ps, k) = <<>>
  <2> SUFFICES ASSUME k \notin NumbersIn(ps) PROVE Only(ps, S) = <<>>
    BY DEF PiecesFor
  <2>1. S = {}
    BY DEF NumbersIn
  <2>2. IsSequence(ps)
    BY DEF IsSequence
  <2> HIDE DEF S
  <2> QED BY <2>1, <2>2, OnlyAll
<1>8. NumbersIn(qs) = NumbersIn(ps) \cup {p.index}
  BY <1>1 DEF NumbersIn
<1> QED BY <1>3, <1>4, <1>5, <1>6, <1>7, <1>8 DEF PiecesFor

(* One value more is said of a field. *)
LEMMA ValuesAppend ==
  ASSUME NEW P, NEW ps \in Seq(P), NEW p \in P, NEW k, NEW f
  PROVE  /\ NoValue \notin ValuesFor(ps, k, f)
         /\ ValuesFor(Append(ps, p), k, f) =
              IF p.index = k THEN (ValuesFor(ps, k, f) \cup {p[f]}) \ {NoValue}
                             ELSE ValuesFor(ps, k, f)
<1> DEFINE s == PiecesFor(ps, k)
           t == PiecesFor(Append(ps, p), k)
<1>1. s \in Seq(P) /\ t = IF p.index = k THEN Append(s, p) ELSE s
  BY PiecesAppend
<1> HIDE DEF s, t
<1>2. Range(Append(s, p)) = Range(s) \cup {p}
  BY <1>1, RangeAppend
<1>3. {q[f] : q \in Range(s) \cup {p}} \ {NoValue}
        = (({q[f] : q \in Range(s)} \ {NoValue}) \cup {p[f]}) \ {NoValue}
  OBVIOUS
<1>4. CASE p.index = k
  BY <1>1, <1>2, <1>3, <1>4 DEF ValuesFor, s, t
<1>5. CASE p.index # k
  BY <1>1, <1>5 DEF ValuesFor, s, t
<1>6. NoValue \notin ValuesFor(ps, k, f)
  BY DEF ValuesFor
<1> QED BY <1>4, <1>5, <1>6

(* Nobody says "failed". *)
LEMMA NoneMalformed ==
  ASSUME NEW A, NEW P, ArePieces(P, A), NEW ps \in Seq(P), NEW k, NEW f \in Fields
  PROVE  Malformed \notin ValuesFor(ps, k, f)
<1>1. PiecesFor(ps, k) \in Seq(P)
  <2> DEFINE S == {p \in Range(ps) : p.index = k}
  <2> HIDE DEF S
  <2>1. Only(ps, S) \in Seq(P)
    BY OnlyIn
  <2> QED BY <2>1 DEF PiecesFor, S
<1>2. \A q \in Range(PiecesFor(ps, k)) : q \in P
  BY <1>1, RangeIn
<1>3. \A q \in P : q[f] # Malformed
  BY DEF ArePieces, Fields
<1> QED BY <1>2, <1>3 DEF ValuesFor

(* The arguments of one piece more. *)
LEMMA ArgumentsAppend ==
  ASSUME NEW A, NEW P, ArePieces(P, A), NEW s \in Seq(P), NEW p \in P
  PROVE  /\ ArgumentsIn(<<>>) = <<>> /\ ArgumentsIn(s) \in Seq(A)
         /\ ArgumentsIn(Append(s, p)) = ArgumentsIn(s) \o p.arguments
<1> DEFINE g == [q \in P |-> q.arguments]
<1>1. Gives(g, P, A)
  BY DEF Gives, ArePieces
<1>2. \A t \in Seq(P) : ArgumentsIn(t) = Gathered(g, t)
  <2> TAKE t \in Seq(P)
  <2>1. \A i \in DOMAIN t : t[i] \in P
    OBVIOUS
  <2>2. [i \in DOMAIN t |-> t[i].arguments] = Through(g, t)
    BY <2>1 DEF Through
  <2> QED BY <2>2 DEF ArgumentsIn, Gathered
<1>3. g[p] = p.arguments
  OBVIOUS
<1> HIDE DEF g
<1>4. Append(s, p) \in Seq(P) /\ <<>> \in Seq(P)
  OBVIOUS
<1>5. Gathered(g, Append(s, p)) = Gathered(g, s) \o g[p]
  BY <1>1, GatheredAppend
<1>6. Gathered(g, s) \in Seq(A)
  BY <1>1, GatheredIn
<1>7. Gathered(g, <<>>) = <<>>
  BY GatheredEmpty
<1> QED BY <1>2, <1>3, <1>4, <1>5, <1>6, <1>7

(* A piece extends the call of its number, and no other. *)
LEMMA CallAppend ==
  ASSUME NEW A, NEW P, ArePieces(P, A), NEW ps \in Seq(P), NEW p \in P, NEW k,
         Malformed # NoValue
  PROVE  CallFor(Append(ps, p), k) =
           IF p.index = k THEN Extended(CallFor(ps, k), p) ELSE CallFor(ps, k)
<1> DEFINE qs == Append(ps, p)
           V(f) == ValuesFor(ps, k, f)
           W(f) == ValuesFor(qs, k, f)
           s == PiecesFor(ps, k)
           t == PiecesFor(qs, k)
<1>1. \A f \in Fields : /\ NoValue \notin V(f) /\ Malformed \notin V(f)
                        /\ W(f) = IF p.index = k THEN (V(f) \cup {p[f]}) \ {NoValue} ELSE V(f)
  BY ValuesAppend, NoneMalformed
<1>2. s \in Seq(P) /\ t = IF p.index = k THEN Append(s, p) ELSE s
  BY PiecesAppend
<1>3. p.id # Malformed /\ p.kind # Malformed /\ p.name # Malformed
  BY DEF ArePieces
<1>4. "id" \in Fields /\ "kind" \in Fields /\ "name" \in Fields
  BY DEF Fields
<1> HIDE DEF s, t, V, W, qs
<1>5. CASE p.index # k
  <2>1. W("id") = V("id") /\ W("kind") = V("kind") /\ W("name") = V("name") /\ t = s
    BY <1>1, <1>2, <1>4, <1>5
  <2> QED BY <1>5, <2>1 DEF CallFor, s, t, V, W, qs
<1>6. CASE p.index = k
  <2>1. /\ W("id") = (V("id") \cup {p.id}) \ {NoValue}
        /\ W("kind") = (V("kind") \cup {p.kind}) \ {NoValue}
        /\ W("name") = (V("name") \cup {p.name}) \ {NoValue}
    BY <1>1, <1>4, <1>6
  <2>2. Merged(ValueOf(V("id")), p.id) = ValueOf(W("id"))
    BY <1>1, <1>3, <1>4, <2>1, MergedValue
  <2>3. Merged(ValueOf(V("kind")), p.kind) = ValueOf(W("kind"))
    BY <1>1, <1>3, <1>4, <2>1, MergedValue
  <2>4. Merged(ValueOf(V("name")), p.name) = ValueOf(W("name"))
    BY <1>1, <1>3, <1>4, <2>1, MergedValue
  <2>5. ArgumentsIn(t) = ArgumentsIn(s) \o p.arguments
    BY <1>2, <1>6, ArgumentsAppend
  <2> DEFINE c == CallFor(ps, k)
  <2>6. /\ c.id = ValueOf(V("id")) /\ c.kind = ValueOf(V("kind")) /\ c.name = ValueOf(V("name"))
        /\ c.arguments = ArgumentsIn(s)
    BY DEF CallFor, V, s
  <2>7. CallFor(qs, k) = [id |-> ValueOf(W("id")), kind |-> ValueOf(W("kind")),
                          name |-> ValueOf(W("name")), arguments |-> ArgumentsIn(t)]
    BY DEF CallFor, W, t
  <2> HIDE DEF c
  <2>8. Extended(c, p) = [id |-> ValueOf(W("id")), kind |-> ValueOf(W("kind")),
                          name |-> ValueOf(W("name")), arguments |-> ArgumentsIn(t)]
    BY <2>2, <2>3, <2>4, <2>5, <2>6 DEF Extended
  <2> QED BY <1>6, <2>7, <2>8 DEF c, qs
<1> QED BY <1>5, <1>6

(* Of no pieces there is no call. *)
LEMMA NoPieces ==
  /\ NumbersIn(<<>>) = {} /\ CallsFor(<<>>) = <<>>
<1>1. Range(<<>>) = {}
  BY DEF Range
<1>2. NumbersIn(<<>>) = {}
  BY <1>1 DEF NumbersIn
<1> QED BY <1>2 DEF CallsFor

(* What the accumulator holds is what the pieces say, call by call. *)
LEMMA Accumulated ==
  ASSUME NEW A, NEW P, ArePieces(P, A), Malformed # NoValue, NEW ps \in Seq(P)
  PROVE  AppendDeltas(<<>>, ps) = CallsFor(ps)
<1> DEFINE T == {s \in Seq(P) : AppendDeltas(<<>>, s) = CallsFor(s)}
<1>1. <<>> \in T
  <2>2. AppendDeltas(<<>>, <<>>) = <<>>
    <3>1. 0 \in {0} /\ <<>> \in Seq({0})
      OBVIOUS
    <3> QED BY <3>1, AppendDeltasNext
  <2> QED BY <2>2, NoPieces
<1>2. ASSUME NEW s \in T, NEW p \in P PROVE Append(s, p) \in T
  <2> DEFINE t == Append(s, p)
             c == CallsFor(s)
  <2>1. s \in Seq(P) /\ t \in Seq(P) /\ AppendDeltas(<<>>, s) = c
    OBVIOUS
  <2>2. AppendDeltas(<<>>, t) = AppendDelta(c, p)
    BY <2>1, AppendDeltasNext
  <2>3. NumbersIn(t) = NumbersIn(s) \cup {p.index} /\ DOMAIN c = NumbersIn(s)
    BY <2>1, PiecesAppend DEF CallsFor
  <2>4. \A k : CallFor(t, k) = IF p.index = k THEN Extended(CallFor(s, k), p) ELSE CallFor(s, k)
    BY <2>1, CallAppend
  <2>5. EntryOf(c, p.index) = CallFor(s, p.index)
    <3>1. CASE p.index \in NumbersIn(s)
      BY <2>3, <3>1 DEF EntryOf, CallsFor
    <3>2. CASE p.index \notin NumbersIn(s)
      <4>1. PiecesFor(s, p.index) = <<>>
        BY <2>1, <3>2, PiecesAppend
      <4>2. Range(<<>>) = {}
        BY DEF Range
      <4>3. \A f : ValuesFor(s, p.index, f) = {}
        BY <4>1, <4>2 DEF ValuesFor
      <4>4. ValueOf({}) = NoValue
        BY DEF ValueOf
      <4>5. ArgumentsIn(<<>>) = <<>>
        BY <2>1, ArgumentsAppend
      <4>6. CallFor(s, p.index) = NoEntry
        BY <4>1, <4>3, <4>4, <4>5 DEF CallFor, NoEntry
      <4> QED BY <2>3, <3>2, <4>6 DEF EntryOf
    <3> QED BY <3>1, <3>2
  <2>6. \A k \in NumbersIn(s) : c[k] = CallFor(s, k)
    BY DEF CallsFor
  <2> HIDE DEF c, t
  <2>7. ASSUME NEW k \in NumbersIn(t)
        PROVE  (IF k = p.index THEN Extended(EntryOf(c, k), p) ELSE c[k]) = CallFor(t, k)
    BY <2>3, <2>4, <2>5, <2>6
  <2>8. AppendDelta(c, p) = CallsFor(t)
    BY <2>3, <2>7 DEF AppendDelta, CallsFor
  <2> QED BY <2>1, <2>2, <2>8 DEF t
<1>3. T = Seq(P)
  <2>1. T \in SUBSET Seq(P)
    OBVIOUS
  <2> HIDE DEF T
  <2> QED BY <1>1, <1>2, <2>1, SeqInduction
<1> QED BY <1>3

(* What a list of choices says. *)
ContentsIn(cs) == FlattenSeq([i \in DOMAIN cs |-> Text(cs[i].content)])
ThoughtsIn(cs) == FlattenSeq([i \in DOMAIN cs |-> Text(cs[i].reasoning)])
DeltasIn(cs)   == FlattenSeq([i \in DOMAIN cs |-> cs[i].calls])

(* Choices with texts of W and pieces of P. *)
AreChoices(C, W, P) == \A c \in C : c.content \in W /\ c.reasoning \in W /\ c.calls \in Seq(P)

ContentFrom(C)  == [c \in C |-> Text(c.content)]
ThoughtFrom(C)  == [c \in C |-> Text(c.reasoning)]
DeltasFrom(C)   == [c \in C |-> c.calls]

(* What the choices say, one after the other. *)
LEMMA ChoicesSay ==
  ASSUME NEW C, NEW W, NEW P, AreChoices(C, W, P)
  PROVE  /\ Gives(ContentFrom(C), C, W) /\ Gives(ThoughtFrom(C), C, W)
         /\ Gives(DeltasFrom(C), C, P)
         /\ \A s \in Seq(C) : /\ ContentsIn(s) = Gathered(ContentFrom(C), s)
                              /\ ThoughtsIn(s) = Gathered(ThoughtFrom(C), s)
                              /\ DeltasIn(s) = Gathered(DeltasFrom(C), s)
<1> DEFINE g == ContentFrom(C)
           h == ThoughtFrom(C)
           d == DeltasFrom(C)
<1>1. \A x \in W : Text(x) \in Seq(W)
  BY DEF Text
<1>2. Gives(g, C, W) /\ Gives(h, C, W) /\ Gives(d, C, P)
  BY <1>1 DEF Gives, AreChoices, ContentFrom, ThoughtFrom, DeltasFrom
<1>3. ASSUME NEW s \in Seq(C)
      PROVE  /\ ContentsIn(s) = Gathered(g, s) /\ ThoughtsIn(s) = Gathered(h, s)
             /\ DeltasIn(s) = Gathered(d, s)
  <2>1. \A i \in DOMAIN s : s[i] \in C
    OBVIOUS
  <2>2. /\ [i \in DOMAIN s |-> Text(s[i].content)] = Through(g, s)
        /\ [i \in DOMAIN s |-> Text(s[i].reasoning)] = Through(h, s)
        /\ [i \in DOMAIN s |-> s[i].calls] = Through(d, s)
    BY <2>1 DEF Through, ContentFrom, ThoughtFrom, DeltasFrom
  <2> QED BY <2>2 DEF ContentsIn, ThoughtsIn, DeltasIn, Gathered
<1> QED BY <1>2, <1>3

(* One choice more. *)
LEMMA SayAppend ==
  ASSUME NEW C, NEW W, NEW P, AreChoices(C, W, P), NEW s \in Seq(C), NEW c \in C
  PROVE  /\ ContentsIn(s) \in Seq(W) /\ ThoughtsIn(s) \in Seq(W) /\ DeltasIn(s) \in Seq(P)
         /\ ContentsIn(Append(s, c)) = ContentsIn(s) \o Text(c.content)
         /\ ThoughtsIn(Append(s, c)) = ThoughtsIn(s) \o Text(c.reasoning)
         /\ DeltasIn(Append(s, c)) = DeltasIn(s) \o c.calls
<1> DEFINE g == ContentFrom(C)
           h == ThoughtFrom(C)
           d == DeltasFrom(C)
<1>1. /\ Gives(g, C, W) /\ Gives(h, C, W) /\ Gives(d, C, P)
      /\ \A t \in Seq(C) : /\ ContentsIn(t) = Gathered(g, t)
                           /\ ThoughtsIn(t) = Gathered(h, t)
                           /\ DeltasIn(t) = Gathered(d, t)
  BY ChoicesSay
<1>2. g[c] = Text(c.content) /\ h[c] = Text(c.reasoning) /\ d[c] = c.calls
  BY DEF ContentFrom, ThoughtFrom, DeltasFrom
<1> HIDE DEF g, h, d
<1>3. Append(s, c) \in Seq(C)
  OBVIOUS
<1>4. /\ Gathered(g, Append(s, c)) = Gathered(g, s) \o g[c]
      /\ Gathered(h, Append(s, c)) = Gathered(h, s) \o h[c]
      /\ Gathered(d, Append(s, c)) = Gathered(d, s) \o d[c]
  BY <1>1, GatheredAppend
<1>5. Gathered(g, s) \in Seq(W) /\ Gathered(h, s) \in Seq(W) /\ Gathered(d, s) \in Seq(P)
  BY <1>1, GatheredIn
<1> QED BY <1>1, <1>2, <1>3, <1>4, <1>5

(* Two lists of choices. *)
LEMMA SayConcat ==
  ASSUME NEW C, NEW W, NEW P, AreChoices(C, W, P), NEW s \in Seq(C), NEW t \in Seq(C)
  PROVE  /\ DeltasIn(s) \in Seq(P) /\ DeltasIn(t) \in Seq(P)
         /\ DeltasIn(s \o t) = DeltasIn(s) \o DeltasIn(t)
         /\ ContentsIn(t) \in Seq(W) /\ ContentsIn(s \o t) = ContentsIn(s) \o ContentsIn(t)
<1> DEFINE d == DeltasFrom(C)
           g == ContentFrom(C)
<1>1. /\ Gives(d, C, P) /\ \A x \in Seq(C) : DeltasIn(x) = Gathered(d, x)
      /\ Gives(g, C, W) /\ \A x \in Seq(C) : ContentsIn(x) = Gathered(g, x)
  BY ChoicesSay
<1> HIDE DEF d, g
<1>2. s \o t \in Seq(C)
  OBVIOUS
<1>3. Gathered(d, s \o t) = Gathered(d, s) \o Gathered(d, t)
  BY <1>1, GatheredConcat
<1>4. Gathered(d, s) \in Seq(P) /\ Gathered(d, t) \in Seq(P)
  BY <1>1, GatheredIn
<1>5. Gathered(g, t) \in Seq(W)
  BY <1>1, GatheredIn
<1>6. Gathered(g, s \o t) = Gathered(g, s) \o Gathered(g, t)
  BY <1>1, GatheredConcat
<1> QED BY <1>1, <1>2, <1>3, <1>4, <1>5, <1>6

(* The accumulator goes on where it stopped. *)
LEMMA DeltasConcat ==
  ASSUME NEW P, NEW c, NEW s \in Seq(P), NEW t \in Seq(P)
  PROVE  AppendDeltas(c, s \o t) = AppendDeltas(AppendDeltas(c, s), t)
<1> DEFINE d == AppendDeltas(c, s)
           T == {u \in Seq(P) : AppendDeltas(c, s \o u) = AppendDeltas(d, u)}
<1> HIDE DEF d
<1>1. <<>> \in T
  <2>1. s \o <<>> = s /\ <<>> \in Seq(P)
    OBVIOUS
  <2>2. AppendDeltas(d, <<>>) = d
    <3>1. <<>> \in Seq({0}) /\ 0 \in {0}
      OBVIOUS
    <3> QED BY <3>1, AppendDeltasNext
  <2> QED BY <2>1, <2>2 DEF d
<1>2. ASSUME NEW u \in T, NEW p \in P PROVE Append(u, p) \in T
  <2>1. u \in Seq(P) /\ Append(u, p) \in Seq(P) /\ s \o u \in Seq(P)
        /\ AppendDeltas(c, s \o u) = AppendDeltas(d, u)
    OBVIOUS
  <2>2. s \o Append(u, p) = Append(s \o u, p)
    BY <2>1
  <2>3. AppendDeltas(c, Append(s \o u, p)) = AppendDelta(AppendDeltas(c, s \o u), p)
    BY <2>1, AppendDeltasNext
  <2>4. AppendDeltas(d, Append(u, p)) = AppendDelta(AppendDeltas(d, u), p)
    BY <2>1, AppendDeltasNext
  <2> QED BY <2>1, <2>2, <2>3, <2>4
<1>3. T = Seq(P)
  <2>1. T \in SUBSET Seq(P)
    OBVIOUS
  <2> HIDE DEF T
  <2> QED BY <1>1, <1>2, <2>1, SeqInduction
<1> QED BY <1>3 DEF d

(* What cannot be read does not become readable by one piece more, *)
LEMMA BrokenStays ==
  ASSUME NEW A, NEW P, ArePieces(P, A), Malformed # NoValue, NEW ps \in Seq(P), NEW p \in P,
         IsBroken(CallsFor(ps))
  PROVE  IsBroken(CallsFor(Append(ps, p)))
<1> DEFINE c == CallsFor(ps)
           d == CallsFor(Append(ps, p))
<1>1. DOMAIN c = NumbersIn(ps) /\ DOMAIN d = NumbersIn(ps) \cup {p.index}
  BY PiecesAppend DEF CallsFor
<1>2. PICK k \in NumbersIn(ps) : Malformed \in {c[k].id, c[k].kind, c[k].name}
  BY <1>1 DEF IsBroken
<1>3. c[k] = CallFor(ps, k) /\ d[k] = CallFor(Append(ps, p), k)
  BY <1>1 DEF CallsFor
<1>4. d[k] = IF p.index = k THEN Extended(c[k], p) ELSE c[k]
  BY <1>3, CallAppend
<1>5. p.id # Malformed /\ p.kind # Malformed /\ p.name # Malformed
  BY DEF ArePieces
<1>6. \A x : x # Malformed => Merged(Malformed, x) = Malformed
  BY DEF Merged
<1> HIDE DEF c, d
<1>7. /\ Extended(c[k], p).id = Merged(c[k].id, p.id)
      /\ Extended(c[k], p).kind = Merged(c[k].kind, p.kind)
      /\ Extended(c[k], p).name = Merged(c[k].name, p.name)
  BY DEF Extended
<1>8. Malformed \in {d[k].id, d[k].kind, d[k].name}
  <2>1. CASE p.index = k
    BY <1>2, <1>4, <1>5, <1>6, <1>7, <2>1
  <2>2. CASE p.index # k
    BY <1>2, <1>4, <2>2
  <2> QED BY <2>1, <2>2
<1> QED BY <1>1, <1>8 DEF IsBroken, d

(* or by many. *)
LEMMA BrokenGrows ==
  ASSUME NEW A, NEW P, ArePieces(P, A), Malformed # NoValue, NEW ps \in Seq(P), NEW qs \in Seq(P),
         IsBroken(CallsFor(ps))
  PROVE  IsBroken(CallsFor(ps \o qs))
<1> DEFINE T == {u \in Seq(P) : IsBroken(CallsFor(ps \o u))}
<1>1. <<>> \in T
  <2>1. ps \o <<>> = ps /\ <<>> \in Seq(P)
    OBVIOUS
  <2> QED BY <2>1
<1>2. ASSUME NEW u \in T, NEW p \in P PROVE Append(u, p) \in T
  <2>1. u \in Seq(P) /\ Append(u, p) \in Seq(P) /\ ps \o u \in Seq(P) /\ IsBroken(CallsFor(ps \o u))
    OBVIOUS
  <2>2. ps \o Append(u, p) = Append(ps \o u, p)
    BY <2>1
  <2>3. IsBroken(CallsFor(Append(ps \o u, p)))
    BY <2>1, BrokenStays
  <2> QED BY <2>1, <2>2, <2>3
<1>3. T = Seq(P)
  <2>1. T \in SUBSET Seq(P)
    OBVIOUS
  <2> HIDE DEF T
  <2> QED BY <1>1, <1>2, <2>1, SeqInduction
<1> QED BY <1>3

(* What the stream of the CLI has heard: everything, unless the accumulator *)
(* failed. *)
Hears(h, cs) ==
  /\ IsBroken(h.calls) <=> IsBroken(CallsFor(DeltasIn(cs)))
  /\ ~IsBroken(h.calls) =>
       /\ h.content = ContentsIn(cs) /\ h.reasoning = ThoughtsIn(cs)
       /\ h.calls = CallsFor(DeltasIn(cs))

(* The stream of the CLI hears what the choices say: texts and calls are   *)
(* taken together, until a call is malformed.                              *)
LEMMA Heard ==
  ASSUME NEW C, NEW W, NEW P, AreChoices(C, W, P), NEW A, ArePieces(P, A), Malformed # NoValue
  PROVE  \A cs \in Seq(C) : Hears(TakeChoices(NoResponse, cs), cs)
<1> DEFINE T == {s \in Seq(C) : Hears(TakeChoices(NoResponse, s), s)}
<1>1. <<>> \in T
  <2>1. TakeChoices(NoResponse, <<>>) = NoResponse
    <3>1. <<>> \in Seq({0}) /\ 0 \in {0}
      OBVIOUS
    <3> QED BY <3>1, TakeChoicesNext
  <2>2. ContentsIn(<<>>) = <<>> /\ ThoughtsIn(<<>>) = <<>> /\ DeltasIn(<<>>) = <<>>
    <3>1. FlattenSeq(<<>>) = <<>>
      BY FlatEmpty
    <3>2. /\ [i \in DOMAIN <<>> |-> Text(<<>>[i].content)] = <<>>
          /\ [i \in DOMAIN <<>> |-> Text(<<>>[i].reasoning)] = <<>>
          /\ [i \in DOMAIN <<>> |-> <<>>[i].calls] = <<>>
      OBVIOUS
    <3> QED BY <3>1, <3>2 DEF ContentsIn, ThoughtsIn, DeltasIn
  <2>3. CallsFor(<<>>) = <<>>
    BY NoPieces
  <2>4. NoResponse.calls = <<>> /\ NoResponse.content = <<>> /\ NoResponse.reasoning = <<>>
    BY DEF NoResponse
  <2> QED BY <2>1, <2>2, <2>3, <2>4 DEF Hears
<1>2. ASSUME NEW s \in T, NEW c \in C PROVE Append(s, c) \in T
  <2> DEFINE t == Append(s, c)
             h == TakeChoices(NoResponse, s)
             x == h.content \o Text(c.content)
             y == h.reasoning \o Text(c.reasoning)
             z == AppendDeltas(h.calls, c.calls)
             w == IF c.finish = NoValue THEN h.finish ELSE c.finish
             ps == DeltasIn(s)
             qs == c.calls
  <2>1. s \in Seq(C) /\ t \in Seq(C) /\ Hears(h, s)
    OBVIOUS
  <2>2. TakeChoices(NoResponse, t) = TakeChoice(h, c)
    BY <2>1, TakeChoicesNext
  <2>3. /\ ContentsIn(t) = ContentsIn(s) \o Text(c.content)
        /\ ThoughtsIn(t) = ThoughtsIn(s) \o Text(c.reasoning)
        /\ DeltasIn(t) = ps \o qs /\ ps \in Seq(P)
    BY <2>1, SayAppend
  <2>4. qs \in Seq(P)
    BY DEF AreChoices
  <2>5. CASE IsBroken(h.calls)
    <3>1. TakeChoice(h, c) = h
      BY <2>5 DEF TakeChoice
    <3>2. IsBroken(CallsFor(ps))
      BY <2>1, <2>5 DEF Hears
    <3> HIDE DEF h, t, ps, qs
    <3>3. IsBroken(CallsFor(ps \o qs))
      BY <2>3, <2>4, <3>2, BrokenGrows
    <3>4. Hears(h, t)
      BY <2>3, <2>5, <3>3 DEF Hears
    <3> QED BY <2>1, <2>2, <3>1, <3>4 DEF t, h
  <2>6. CASE ~IsBroken(h.calls)
    <3>1. TakeChoice(h, c) = [content |-> x, reasoning |-> y, calls |-> z, finish |-> w]
      BY <2>6 DEF TakeChoice
    <3>2. h.content = ContentsIn(s) /\ h.reasoning = ThoughtsIn(s) /\ h.calls = CallsFor(ps)
      BY <2>1, <2>6 DEF Hears
    <3>3. z = CallsFor(ps \o qs)
      <4> HIDE DEF h, ps, qs
      <4>1. CallsFor(ps) = AppendDeltas(<<>>, ps)
        BY <2>3, Accumulated
      <4>2. AppendDeltas(<<>>, ps \o qs) = AppendDeltas(AppendDeltas(<<>>, ps), qs)
        BY <2>3, <2>4, DeltasConcat
      <4>3. ps \o qs \in Seq(P)
        BY <2>3, <2>4, ConcatProperties
      <4>4. AppendDeltas(<<>>, ps \o qs) = CallsFor(ps \o qs)
        BY <4>3, Accumulated
      <4>5. z = AppendDeltas(AppendDeltas(<<>>, ps), qs)
        BY <3>2, <4>1 DEF qs
      <4> QED BY <4>2, <4>4, <4>5
    <3> DEFINE r == [content |-> x, reasoning |-> y, calls |-> z, finish |-> w]
    <3>4. r.content = x /\ r.reasoning = y /\ r.calls = z
      OBVIOUS
    <3>5. x = ContentsIn(t) /\ y = ThoughtsIn(t) /\ z = CallsFor(DeltasIn(t))
      BY <2>3, <3>2, <3>3
    <3> HIDE DEF r, x, y, z, w, h, t
    <3>6. Hears(r, t)
      BY <3>4, <3>5 DEF Hears
    <3> QED BY <2>1, <2>2, <3>1, <3>6 DEF r, t, h
  <2> QED BY <2>5, <2>6
<1>3. T = Seq(C)
  <2>1. T \in SUBSET Seq(C)
    OBVIOUS
  <2> HIDE DEF T
  <2> QED BY <1>1, <1>2, <2>1, SeqInduction
<1> QED BY <1>3

(* The accumulator can be finished if each field of each call has one      *)
(* value.                                                                  *)
LEMMA OneValueEach ==
  ASSUME NEW A, NEW P, ArePieces(P, A), Malformed # NoValue, NEW ps \in Seq(P)
  PROVE  /\ ~IsBroken(CallsFor(ps)) /\ IsFinished(CallsFor(ps))
              <=> \A k \in NumbersIn(ps), f \in Fields : IsOneValue(ValuesFor(ps, k, f))
         /\ \A k \in NumbersIn(ps), f \in Fields :
              IsOneValue(ValuesFor(ps, k, f)) =>
                ValueOf(ValuesFor(ps, k, f)) = CHOOSE x \in ValuesFor(ps, k, f) : TRUE
<1> DEFINE c == CallsFor(ps)
           V(k, f) == ValuesFor(ps, k, f)
<1>1. \A k, f : f \in Fields => Malformed \notin V(k, f) /\ NoValue \notin V(k, f)
  <2>1. \A k, f : NoValue \notin V(k, f)
    BY DEF ValuesFor
  <2> QED BY <2>1, NoneMalformed
<1>2. \A S : Malformed \notin S /\ NoValue \notin S =>
        /\ IsOneValue(S) <=> ValueOf(S) \notin {NoValue, Malformed}
        /\ IsOneValue(S) => ValueOf(S) = CHOOSE x \in S : TRUE
  <2> SUFFICES ASSUME NEW S, Malformed \notin S, NoValue \notin S
               PROVE  /\ IsOneValue(S) <=> ValueOf(S) \notin {NoValue, Malformed}
                      /\ IsOneValue(S) => ValueOf(S) = CHOOSE x \in S : TRUE
    OBVIOUS
  <2>1. CASE IsOneValue(S)
    <3>1. PICK x \in S \ {""} : S = {x}
      BY <2>1 DEF IsOneValue
    <3>2. ValueOf(S) = CHOOSE y \in S : TRUE
      BY <2>1, <3>1 DEF ValueOf
    <3>3. (CHOOSE y \in S : TRUE) \in S
      BY <3>1
    <3> QED BY <2>1, <3>2, <3>3
  <2>2. CASE ~IsOneValue(S)
    BY <2>2 DEF ValueOf
  <2> QED BY <2>1, <2>2
<1>3. DOMAIN c = NumbersIn(ps) /\ \A k \in NumbersIn(ps) : c[k] = CallFor(ps, k)
  BY DEF CallsFor
<1>4. \A k \in NumbersIn(ps) : /\ c[k].id = ValueOf(V(k, "id")) /\ c[k].kind = ValueOf(V(k, "kind"))
                               /\ c[k].name = ValueOf(V(k, "name"))
  BY <1>3 DEF CallFor
<1> HIDE DEF c, V
<1>5. ~IsBroken(c) /\ IsFinished(c)
        <=> \A k \in NumbersIn(ps) : /\ ValueOf(V(k, "id")) \notin {NoValue, Malformed}
                                     /\ ValueOf(V(k, "kind")) \notin {NoValue, Malformed}
                                     /\ ValueOf(V(k, "name")) \notin {NoValue, Malformed}
  BY <1>3, <1>4 DEF IsBroken, IsFinished
<1>6. \A k \in NumbersIn(ps) :
        /\ ValueOf(V(k, "id")) \notin {NoValue, Malformed} <=> IsOneValue(V(k, "id"))
        /\ ValueOf(V(k, "kind")) \notin {NoValue, Malformed} <=> IsOneValue(V(k, "kind"))
        /\ ValueOf(V(k, "name")) \notin {NoValue, Malformed} <=> IsOneValue(V(k, "name"))
  BY <1>1, <1>2 DEF Fields
<1>7. ~IsBroken(c) /\ IsFinished(c)
        <=> \A k \in NumbersIn(ps), f \in Fields : IsOneValue(V(k, f))
  BY <1>5, <1>6 DEF Fields
<1>8. \A k \in NumbersIn(ps), f \in Fields :
        IsOneValue(V(k, f)) => ValueOf(V(k, f)) = CHOOSE x \in V(k, f) : TRUE
  BY <1>1, <1>2
<1> QED BY <1>7, <1>8 DEF c, V

(* The numbers of the calls are bounded. *)
LEMMA NumbersAreBounded ==
  ASSUME NEW P, \A p \in P : p.index \in Nat, NEW ps \in Seq(P)
  PROVE  NumbersIn(ps) \subseteq Nat /\ \E m \in Nat : \A k \in NumbersIn(ps) : k <= m
<1> DEFINE T == {s \in Seq(P) : /\ NumbersIn(s) \subseteq Nat
                                /\ \E m \in Nat : \A k \in NumbersIn(s) : k <= m}
<1>1. <<>> \in T
  BY NoPieces
<1>2. ASSUME NEW s \in T, NEW p \in P PROVE Append(s, p) \in T
  <2>1. s \in Seq(P) /\ Append(s, p) \in Seq(P) /\ NumbersIn(s) \subseteq Nat /\ p.index \in Nat
    OBVIOUS
  <2>2. PICK m \in Nat : \A k \in NumbersIn(s) : k <= m
    OBVIOUS
  <2>3. NumbersIn(Append(s, p)) = NumbersIn(s) \cup {p.index}
    BY <2>1, PiecesAppend
  <2>4. m + p.index \in Nat /\ \A k \in NumbersIn(s) \cup {p.index} : k <= m + p.index
    BY <2>1, <2>2
  <2> QED BY <2>1, <2>3, <2>4
<1>3. T = Seq(P)
  <2>1. T \in SUBSET Seq(P)
    OBVIOUS
  <2> HIDE DEF T
  <2> QED BY <1>1, <1>2, <2>1, SeqInduction
<1> QED BY <1>3

(* A bounded set of numbers that is not empty has a greatest. *)
LEMMA Greatest ==
  ASSUME NEW S \in SUBSET Nat, S # {}, NEW m \in Nat, \A k \in S : k <= m
  PROVE  Max(S) \in S /\ \A k \in S : k <= Max(S)
<1> DEFINE B == {b \in Nat : \A k \in S : k <= b}
<1>1. PICK b \in B : \A c \in B : ~(c < b)
  <2>1. B \in SUBSET Nat /\ B # {}
    OBVIOUS
  <2> HIDE DEF B
  <2> QED BY <2>1, Smallest
<1>2. b \in S
  <2> SUFFICES ASSUME b \notin S PROVE FALSE
    OBVIOUS
  <2>1. b \in Nat /\ \A k \in S : k \in Nat /\ k <= b /\ k # b
    OBVIOUS
  <2>2. \A k \in S : k <= b - 1
    BY <2>1
  <2>3. b # 0
    <3>1. PICK k \in S : TRUE
      OBVIOUS
    <3>2. k \in Nat /\ k <= b /\ k # b
      BY <2>1
    <3> QED BY <2>1, <3>2
  <2>4. b - 1 \in Nat /\ b - 1 < b
    BY <2>1, <2>3
  <2> QED BY <1>1, <2>2, <2>4
<1>3. \E x \in S : \A y \in S : x >= y
  <2>1. \A y \in S : b \in Nat /\ y \in Nat /\ b >= y
    OBVIOUS
  <2> QED BY <1>2, <2>1
<1>4. Max(S) \in S /\ \A y \in S : Max(S) >= y
  BY <1>3 DEF Max
<1> QED BY <1>4

(* The numbers in their order. *)
LEMMA AscendingIn ==
  ASSUME NEW S \in SUBSET Nat, NEW m \in Nat, \A k \in S : k <= m
  PROVE  Ascending(S) \in Seq(S)
<1> DEFINE U == S \cup {0}
           M == Max(U)
<1>1. M \in Nat
  <2>1. U \in SUBSET Nat /\ U # {} /\ \A k \in U : k <= m
    OBVIOUS
  <2> HIDE DEF U
  <2>2. M \in U
    BY <2>1, Greatest
  <2> QED BY <2>1, <2>2
<1> HIDE DEF M, U
<1>2. [k \in 1..(M + 1) |-> k - 1] \in Seq(Nat)
  <2>1. M + 1 \in Nat /\ \A k \in 1..(M + 1) : k - 1 \in Nat
    BY <1>1
  <2>2. [k \in 1..(M + 1) |-> k - 1] \in [1..(M + 1) -> Nat]
    BY <2>1
  <2> QED BY <2>1, <2>2
<1> DEFINE s == [k \in 1..(M + 1) |-> k - 1]
<1> HIDE DEF s
<1>3. Only(s, S) \in Seq(S)
  <2>1. s \in Seq(Nat)
    BY <1>2 DEF s
  <2> QED BY <2>1, OnlyIn
<1> QED BY <1>3 DEF Ascending, s, M, U

(* Nothing was taken. *)
LEMMA NothingTaken == TakeChoices(NoResponse, <<>>) = NoResponse
<1>1. <<>> \in Seq({0}) /\ 0 \in {0}
  OBVIOUS
<1> QED BY <1>1, TakeChoicesNext

(* What was taken of some choices is the beginning of what they say.       *)
LEMMA HeardIsShown ==
  ASSUME NEW C, NEW W, NEW P, AreChoices(C, W, P), NEW A, ArePieces(P, A), Malformed # NoValue
  PROVE  \A cs \in Seq(C) :
           /\ TakeChoices(NoResponse, cs).content \in Seq(W)
           /\ \E v \in Seq(W) : TakeChoices(NoResponse, cs).content \o v = ContentsIn(cs)
<1> DEFINE x(s) == TakeChoices(NoResponse, s).content
           T == {s \in Seq(C) : x(s) \in Seq(W) /\ \E v \in Seq(W) : x(s) \o v = ContentsIn(s)}
<1>1. <<>> \in T
  <2>1. x(<<>>) = <<>>
    BY NothingTaken DEF NoResponse
  <2>2. ContentsIn(<<>>) = <<>>
    <3>1. [i \in DOMAIN <<>> |-> Text(<<>>[i].content)] = <<>>
      OBVIOUS
    <3> QED BY <3>1, FlatEmpty DEF ContentsIn
  <2>3. <<>> \in Seq(W) /\ <<>> \o <<>> = <<>> /\ <<>> \in Seq(C)
    OBVIOUS
  <2> HIDE DEF x
  <2> QED BY <2>1, <2>2, <2>3
<1>2. ASSUME NEW s \in T, NEW c \in C PROVE Append(s, c) \in T
  <2> DEFINE h == TakeChoices(NoResponse, s)
             t == Append(s, c)
             d == Text(c.content)
  <2>1. s \in Seq(C) /\ t \in Seq(C) /\ h.content \in Seq(W) /\ d \in Seq(W)
    BY DEF AreChoices, Text
  <2>2. PICK v \in Seq(W) : h.content \o v = ContentsIn(s)
    OBVIOUS
  <2>3. TakeChoices(NoResponse, t) = TakeChoice(h, c)
    BY <2>1, TakeChoicesNext
  <2>4. ContentsIn(t) = ContentsIn(s) \o d /\ ContentsIn(s) \in Seq(W)
    BY <2>1, SayAppend
  <2>5. CASE IsBroken(h.calls)
    <3>1. x(t) = h.content
      BY <2>3, <2>5 DEF TakeChoice
    <3> DEFINE y == h.content
    <3> HIDE DEF x, h, t, d
    <3>2. y \in Seq(W)
      BY <2>1
    <3> HIDE DEF y
    <3>3. (y \o v) \o d = y \o (v \o d) /\ v \o d \in Seq(W)
      <4>1. \A p, q, r \in Seq(W) : (p \o q) \o r = p \o (q \o r) /\ q \o r \in Seq(W)
        BY Regroup, Zenon
      <4> QED BY <2>1, <3>2, <4>1, Zenon
    <3>4. x(t) \in Seq(W) /\ x(t) \o (v \o d) = ContentsIn(t)
      BY <2>2, <2>4, <3>1, <3>2, <3>3 DEF y
    <3> QED BY <2>1, <3>3, <3>4 DEF t
  <2>6. CASE ~IsBroken(h.calls)
    <3>1. x(t) = h.content \o d
      <4>1. TakeChoice(h, c).content = h.content \o d
        <5> HIDE DEF h, d
        <5> QED BY <2>6 DEF TakeChoice, d
      <4> QED BY <2>3, <4>1
    <3>2. h.content = ContentsIn(s)
      BY <2>1, <2>6, Heard DEF Hears
    <3> HIDE DEF x, h, t, d
    <3>3. x(t) = ContentsIn(t) /\ ContentsIn(t) \in Seq(W)
      BY <2>1, <2>4, <3>1, <3>2, ConcatProperties
    <3>4. x(t) \o <<>> = ContentsIn(t) /\ <<>> \in Seq(W)
      BY <3>3, ConcatEmptySeq
    <3> QED BY <2>1, <3>3, <3>4 DEF t
  <2> QED BY <2>5, <2>6
<1>3. T = Seq(C)
  <2>1. T \in SUBSET Seq(C)
    OBVIOUS
  <2> HIDE DEF T
  <2> QED BY <1>1, <1>2, <2>1, SeqInduction
<1> QED BY <1>3
-----------------------------------------------------------------------------
(* What the choices of an answer say. *)

ChoicesIn(a) == UNION {Range(a[n].choices) : n \in DOMAIN a}
UpTo(n)      == [m \in 1..n |-> m]

(* The choices of a block, and the first blocks. *)
LEMMA AnswersAre ==
  ASSUME NEW a \in Answers
  PROVE  /\ Len(a) \in Nat /\ DOMAIN a = 1..Len(a)
         /\ \A n \in DOMAIN a : a[n].choices \in Seq(ChoicesIn(a))
         /\ \A n \in 0..Len(a) : UpTo(n) \in Seq(DOMAIN a)
<1> DEFINE D == DOMAIN a
<1>1. Len(a) \in Nat /\ D = 1..Len(a)
  BY StreamAssumption
<1>2. ASSUME NEW n \in DOMAIN a PROVE a[n].choices \in Seq(ChoicesIn(a))
  <2>1. a[n].choices \in Seq(Range(a[n].choices))
    BY StreamAssumption
  <2>2. Range(a[n].choices) \subseteq ChoicesIn(a)
    BY DEF ChoicesIn
  <2> QED BY <2>1, <2>2, SeqMonotonic
<1>3. ASSUME NEW n \in 0..Len(a) PROVE UpTo(n) \in Seq(D)
  <2>1. n \in Nat /\ \A i \in 1..n : i \in D
    BY <1>1
  <2> HIDE DEF D
  <2>2. [i \in 1..n |-> i] \in [1..n -> D]
    BY <2>1
  <2> QED BY <2>1, <2>2 DEF UpTo
<1> QED BY <1>1, <1>2, <1>3

PiecesIn(a)      == UNION {Range(c.calls) : c \in ChoicesIn(a)}
ArgumentWords(a) == UNION {Range(p.arguments) : p \in PiecesIn(a)}
Phrases(a)       == {c.content : c \in ChoicesIn(a)} \cup {c.reasoning : c \in ChoicesIn(a)}

(* The choices of an answer are choices, and the pieces of its calls pieces. *)
LEMMA AnswersSpeak ==
  ASSUME NEW a \in Answers
  PROVE  /\ AreChoices(ChoicesIn(a), Phrases(a), PiecesIn(a))
         /\ ArePieces(PiecesIn(a), ArgumentWords(a)) /\ Malformed # NoValue
         /\ \A p \in PiecesIn(a) : p.index \in Nat
<1>1. ASSUME NEW c \in ChoicesIn(a)
      PROVE  /\ c.calls \in Seq(Range(c.calls))
             /\ \A p \in Range(c.calls) :
                  /\ p.index \in Nat /\ p.arguments \in Seq(Range(p.arguments))
                                          /\ Malformed \notin {p.id, p.kind, p.name}
  <2>1. PICK i \in DOMAIN a : c \in Range(a[i].choices)
    BY DEF ChoicesIn
  <2> QED BY <2>1, StreamAssumption
<1>2. AreChoices(ChoicesIn(a), Phrases(a), PiecesIn(a))
  <2> SUFFICES ASSUME NEW c \in ChoicesIn(a)
               PROVE  /\ c.content \in Phrases(a) /\ c.reasoning \in Phrases(a)
                      /\ c.calls \in Seq(PiecesIn(a))
    BY DEF AreChoices
  <2>1. Range(c.calls) \subseteq PiecesIn(a)
    BY DEF PiecesIn
  <2>2. c.calls \in Seq(PiecesIn(a))
    BY <1>1, <2>1, SeqMonotonic
  <2> QED BY <2>2 DEF Phrases
<1>3. ASSUME NEW p \in PiecesIn(a)
      PROVE  /\ p.index \in Nat /\ p.arguments \in Seq(ArgumentWords(a))
             /\ Malformed \notin {p.id, p.kind, p.name}
  <2>1. PICK c \in ChoicesIn(a) : p \in Range(c.calls)
    BY DEF PiecesIn
  <2>2. /\ p.index \in Nat /\ p.arguments \in Seq(Range(p.arguments))
        /\ Malformed \notin {p.id, p.kind, p.name}
    BY <1>1, <2>1
  <2>3. Range(p.arguments) \subseteq ArgumentWords(a)
    BY DEF ArgumentWords
  <2>4. p.arguments \in Seq(ArgumentWords(a))
    BY <2>2, <2>3, SeqMonotonic
  <2> QED BY <2>2, <2>4
<1>4. Malformed # NoValue
  BY StreamAssumption
<1> QED BY <1>2, <1>3, <1>4 DEF ArePieces

(* The choices of some blocks, one after the other. *)
ChoiceLists(a) == [n \in DOMAIN a |-> a[n].choices]
Chosen(a, s)   == Gathered(ChoiceLists(a), s)

(* The choices of the first blocks come first. *)
LEMMA ChoicesAreChosen ==
  ASSUME answer \in Answers
  PROVE  /\ Gives(ChoiceLists(answer), DOMAIN answer, ChoicesIn(answer))
         /\ \A n \in 0..Len(answer) :
              ChoicesOf(n) = Chosen(answer, UpTo(n)) /\ ChoicesOf(n) \in Seq(ChoicesIn(answer))
<1> DEFINE N == Len(answer)
           C == ChoicesIn(answer)
           c == ChoiceLists(answer)
           D == DOMAIN answer
<1>1. N \in Nat /\ D = 1..N /\ Gives(c, D, C)
  BY AnswersAre DEF Gives, ChoiceLists
<1>2. ASSUME NEW n \in 0..N
      PROVE  ChoicesOf(n) = Gathered(c, UpTo(n)) /\ ChoicesOf(n) \in Seq(C)
  <2>1. UpTo(n) \in Seq(D) /\ DOMAIN UpTo(n) = 1..n /\ \A m \in 1..n : UpTo(n)[m] = m /\ m \in D
    <3>1. UpTo(n) \in Seq(D)
      BY AnswersAre
    <3> QED BY <1>1, <3>1 DEF UpTo
  <2>2. [m \in 1..n |-> answer[m].choices] = Through(c, UpTo(n))
    BY <2>1 DEF Through, ChoiceLists
  <2>3. ChoicesOf(n) = Gathered(c, UpTo(n))
    BY <2>2 DEF ChoicesOf, Gathered
  <2> HIDE DEF c, C, D
  <2>4. Gathered(c, UpTo(n)) \in Seq(C)
    BY <1>1, <2>1, GatheredIn
  <2> QED BY <2>3, <2>4
<1> QED BY <1>1, <1>2 DEF Chosen

(* One block more. *)
LEMMA ChoicesNext ==
  ASSUME answer \in Answers, NEW n \in Nat, n + 1 \in DOMAIN answer
  PROVE  /\ ChoicesOf(n) \in Seq(ChoicesIn(answer))
         /\ answer[n + 1].choices \in Seq(ChoicesIn(answer))
         /\ ChoicesOf(n + 1) = ChoicesOf(n) \o answer[n + 1].choices
<1> DEFINE C == ChoicesIn(answer)
           c == ChoiceLists(answer)
           D == DOMAIN answer
           u == UpTo(n)
           e == n + 1
<1>1. /\ Gives(c, D, C) /\ D = 1..Len(answer) /\ Len(answer) \in Nat
      /\ n \in 0..Len(answer) /\ e \in 0..Len(answer)
      /\ ChoicesOf(n) = Gathered(c, u) /\ ChoicesOf(e) = Gathered(c, UpTo(e))
      /\ ChoicesOf(n) \in Seq(C)
  BY AnswersAre, ChoicesAreChosen DEF Chosen
<1>2. u \in Seq(D) /\ e \in D /\ UpTo(e) = Append(u, e)
  BY <1>1, NextNumber, AnswersAre DEF UpTo
<1>3. c[e] = answer[e].choices /\ c[e] \in Seq(C)
  BY <1>1, <1>2 DEF ChoiceLists, Gives
<1> HIDE DEF c, C, D, u
<1>4. Gathered(c, Append(u, e)) = Gathered(c, u) \o c[e]
  BY <1>1, <1>2, GatheredAppend
<1> QED BY <1>1, <1>2, <1>3, <1>4 DEF C, c

(* The choices of more blocks begin with those of the first. *)
LEMMA ChoicesGrow ==
  ASSUME answer \in Answers, NEW m \in Nat
  PROVE  \A n \in Nat : m <= n /\ n <= Len(answer) =>
           \E rest \in Seq(ChoicesIn(answer)) : ChoicesOf(n) = ChoicesOf(m) \o rest
<1> DEFINE C == ChoicesIn(answer)
           P(n) == \E rest \in Seq(C) : ChoicesOf(n) = ChoicesOf(m) \o rest
           T == {d \in Nat : m + d <= Len(answer) => P(m + d)}
<1> HIDE DEF P
<1>0. Len(answer) \in Nat /\ DOMAIN answer = 1..Len(answer)
  BY AnswersAre
<1>1. 0 \in T
  <2> SUFFICES ASSUME m <= Len(answer) PROVE P(m)
    OBVIOUS
  <2>1. ChoicesOf(m) \in Seq(C)
    BY <1>0, ChoicesAreChosen
  <2>2. ChoicesOf(m) \o <<>> = ChoicesOf(m) /\ <<>> \in Seq(C)
    <3> HIDE DEF C
    <3>1. <<>> \in Seq(C)
      OBVIOUS
    <3> QED BY <2>1, <3>1, ConcatEmptySeq
  <2> QED BY <2>2 DEF P
<1>2. ASSUME NEW d \in T PROVE d + 1 \in T
  <2> SUFFICES ASSUME m + (d + 1) <= Len(answer) PROVE P(m + (d + 1))
    OBVIOUS
  <2> DEFINE n == m + d
  <2>1. n \in Nat /\ n + 1 \in DOMAIN answer /\ n + 1 = m + (d + 1) /\ P(n)
    BY <1>0
  <2> HIDE DEF n
  <2>2. PICK rest \in Seq(C) : ChoicesOf(n) = ChoicesOf(m) \o rest
    BY <2>1 DEF P
  <2>3. /\ answer[n + 1].choices \in Seq(C)
        /\ ChoicesOf(n + 1) = ChoicesOf(n) \o answer[n + 1].choices
    BY <2>1, ChoicesNext
  <2>4. ChoicesOf(m) \in Seq(C)
    <3>1. m \in 0..Len(answer)
      BY <1>0
    <3> QED BY <3>1, ChoicesAreChosen
  <2> DEFINE s == ChoicesOf(m)
             t == answer[n + 1].choices
  <2>5. s \in Seq(C) /\ t \in Seq(C) /\ rest \in Seq(C)
    BY <2>3, <2>4
  <2>6. ChoicesOf(n + 1) = (s \o rest) \o t
    BY <2>2, <2>3
  <2> HIDE DEF C, s, t
  <2>7. (s \o rest) \o t = s \o (rest \o t) /\ rest \o t \in Seq(C)
    <3>1. \A p, q, r \in Seq(C) : (p \o q) \o r = p \o (q \o r) /\ q \o r \in Seq(C)
      BY Regroup, Zenon
    <3> QED BY <2>5, <3>1, Zenon
  <2>8. \E more \in Seq(C) : ChoicesOf(n + 1) = s \o more
    BY <2>6, <2>7, Zenon
  <2> QED BY <2>1, <2>8 DEF s, P
<1>3. T = Nat
  <2>1. T \in SUBSET Nat
    OBVIOUS
  <2> HIDE DEF T
  <2> QED BY <1>1, <1>2, <2>1, Induction
<1> SUFFICES ASSUME NEW n \in Nat, m <= n, n <= Len(answer) PROVE P(n)
  BY DEF P
<1>4. n - m \in Nat /\ m + (n - m) = n
  OBVIOUS
<1>5. n - m \in T
  BY <1>3, <1>4
<1> QED BY <1>4, <1>5

(* Choices can be taken in parts.                                          *)
LEMMA TakesConcat ==
  ASSUME NEW C, NEW r, NEW s \in Seq(C), NEW t \in Seq(C)
  PROVE  TakeChoices(r, s \o t) = TakeChoices(TakeChoices(r, s), t)
<1> DEFINE d == TakeChoices(r, s)
           T == {u \in Seq(C) : TakeChoices(r, s \o u) = TakeChoices(d, u)}
<1> HIDE DEF d
<1>1. <<>> \in T
  <2>1. s \o <<>> = s /\ <<>> \in Seq(C)
    OBVIOUS
  <2>2. TakeChoices(d, <<>>) = d
    <3>1. <<>> \in Seq({0}) /\ 0 \in {0}
      OBVIOUS
    <3> QED BY <3>1, TakeChoicesNext
  <2> QED BY <2>1, <2>2 DEF d
<1>2. ASSUME NEW u \in T, NEW p \in C PROVE Append(u, p) \in T
  <2>1. u \in Seq(C) /\ Append(u, p) \in Seq(C) /\ s \o u \in Seq(C)
        /\ TakeChoices(r, s \o u) = TakeChoices(d, u)
    OBVIOUS
  <2>2. s \o Append(u, p) = Append(s \o u, p)
    BY <2>1
  <2>3. TakeChoices(r, Append(s \o u, p)) = TakeChoice(TakeChoices(r, s \o u), p)
    BY <2>1, TakeChoicesNext
  <2>4. TakeChoices(d, Append(u, p)) = TakeChoice(TakeChoices(d, u), p)
    BY <2>1, TakeChoicesNext
  <2> QED BY <2>1, <2>2, <2>3, <2>4
<1>3. T = Seq(C)
  <2>1. T \in SUBSET Seq(C)
    OBVIOUS
  <2> HIDE DEF T
  <2> QED BY <1>1, <1>2, <2>1, SeqInduction
<1> QED BY <1>3 DEF d

(* What the choices of an answer come to when they are taken one by one.   *)
LEMMA AnswerIsHeard ==
  ASSUME answer \in Answers
  PROVE  \A cs \in Seq(ChoicesIn(answer)) :
           /\ Hears(TakeChoices(NoResponse, cs), cs)
           /\ DeltasIn(cs) \in Seq(PiecesIn(answer))
<1> DEFINE C == ChoicesIn(answer)
           W == Phrases(answer)
           P == PiecesIn(answer)
           A == ArgumentWords(answer)
<1>1. AreChoices(C, W, P) /\ ArePieces(P, A) /\ Malformed # NoValue
  BY AnswersSpeak
<1> HIDE DEF C, W, P, A
<1>2. \A cs \in Seq(C) : Hears(TakeChoices(NoResponse, cs), cs)
  BY <1>1, Heard
<1>3. \A cs \in Seq(C) : DeltasIn(cs) \in Seq(P)
  BY <1>1, SayConcat
<1> QED BY <1>2, <1>3 DEF C, P

(* What was broken stays so. *)
LEMMA BrokenForGood ==
  ASSUME answer \in Answers, NEW s \in Seq(ChoicesIn(answer)), NEW t \in Seq(ChoicesIn(answer)),
         IsBroken(CallsFor(DeltasIn(s)))
  PROVE  IsBroken(CallsFor(DeltasIn(s \o t)))
<1> DEFINE C == ChoicesIn(answer)
           W == Phrases(answer)
           P == PiecesIn(answer)
           A == ArgumentWords(answer)
<1>1. AreChoices(C, W, P) /\ ArePieces(P, A) /\ Malformed # NoValue /\ s \in Seq(C) /\ t \in Seq(C)
  BY AnswersSpeak
<1> HIDE DEF C, W, P, A
<1>2. /\ DeltasIn(s) \in Seq(P) /\ DeltasIn(t) \in Seq(P)
      /\ DeltasIn(s \o t) = DeltasIn(s) \o DeltasIn(t)
  BY <1>1, SayConcat
<1> QED BY <1>1, <1>2, BrokenGrows

(* What blocks mean, in terms of what the accumulator holds.               *)
LEMMA SaidIs ==
  \A n : /\ PiecesOf(n) = DeltasIn(ChoicesOf(n)) /\ CallNumbers(n) = NumbersIn(PiecesOf(n))
         /\ \A k : Pieces(n, k) = PiecesFor(PiecesOf(n), k)
         /\ \A k, f : Said(n, k, f) = ValuesFor(PiecesOf(n), k, f)
         /\ Texts(n) = ContentsIn(ChoicesOf(n)) /\ Thoughts(n) = ThoughtsIn(ChoicesOf(n))
<1> TAKE n
<1>1. PiecesOf(n) = DeltasIn(ChoicesOf(n)) /\ CallNumbers(n) = NumbersIn(PiecesOf(n))
  BY DEF PiecesOf, DeltasIn, CallNumbers, NumbersIn
<1>2. \A k : Pieces(n, k) = PiecesFor(PiecesOf(n), k)
  BY DEF Pieces, PiecesFor
<1>3. \A k, f : Said(n, k, f) = ValuesFor(PiecesOf(n), k, f)
  BY <1>2 DEF Said, ValuesFor
<1>4. Texts(n) = ContentsIn(ChoicesOf(n)) /\ Thoughts(n) = ThoughtsIn(ChoicesOf(n))
  BY DEF Texts, ContentsIn, Thoughts, ThoughtsIn
<1> QED BY <1>1, <1>2, <1>3, <1>4

CanBeRead(n) == \A m \in 1..n : answer[m].kind # "invalid"

(* Blocks are well-formed if they can be read and the accumulator can be   *)
(* finished after them.                                                    *)
LEMMA WellFormedIs ==
  ASSUME answer \in Answers, NEW n \in 0..Len(answer)
  PROVE  /\ PiecesOf(n) \in Seq(PiecesIn(answer))
         /\ IsWellFormed(n) <=> /\ CanBeRead(n)
                                /\ ~IsBroken(CallsFor(PiecesOf(n)))
                                /\ IsFinished(CallsFor(PiecesOf(n)))
<1> DEFINE P == PiecesIn(answer)
           A == ArgumentWords(answer)
           ps == PiecesOf(n)
<1>1. ArePieces(P, A) /\ Malformed # NoValue
  BY AnswersSpeak
<1>2. ps \in Seq(P)
  BY AnswerIsHeard, ChoicesAreChosen, SaidIs
<1>3. IsWellFormed(n) <=>
        CanBeRead(n) /\ \A k \in NumbersIn(ps), f \in Fields : IsOneValue(ValuesFor(ps, k, f))
  <2>1. \A k, f : IsOneValue(ValuesFor(ps, k, f))
                    <=> \E said \in Said(n, k, f) \ {""} : Said(n, k, f) = {said}
    BY SaidIs DEF IsOneValue
  <2>2. CallNumbers(n) = NumbersIn(ps)
    BY SaidIs
  <2>3. IsWellFormed(n) <=>
          /\ CanBeRead(n)
          /\ \A k \in CallNumbers(n), f \in Fields :
               \E said \in Said(n, k, f) \ {""} : Said(n, k, f) = {said}
    BY Zenon DEF IsWellFormed, CanBeRead, Fields
  <2>4. (\A k \in CallNumbers(n), f \in Fields :
           \E said \in Said(n, k, f) \ {""} : Said(n, k, f) = {said})
        <=> \A k \in CallNumbers(n), f \in Fields : IsOneValue(ValuesFor(ps, k, f))
    BY <2>1, Zenon
  <2> HIDE DEF ps
  <2> QED BY <2>2, <2>3, <2>4
<1> HIDE DEF P, A, ps
<1>4. ~IsBroken(CallsFor(ps)) /\ IsFinished(CallsFor(ps))
        <=> \A k \in NumbersIn(ps), f \in Fields : IsOneValue(ValuesFor(ps, k, f))
  BY <1>1, <1>2, OneValueEach
<1> QED BY <1>2, <1>3, <1>4 DEF ps, P

(* What well-formed blocks mean is what the accumulator finishes with.     *)
LEMMA MeaningIs ==
  ASSUME answer \in Answers, NEW n \in 0..Len(answer), IsWellFormed(n)
  PROVE  Meaning(n) = [content |-> ContentsIn(ChoicesOf(n)), reasoning |-> ThoughtsIn(ChoicesOf(n)),
                       calls |-> FinishCalls(CallsFor(PiecesOf(n)))]
<1> DEFINE ps == PiecesOf(n)
           c  == CallsFor(ps)
           order == Ascending(CallNumbers(n))
           The(set) == CHOOSE x \in set : TRUE
           Call(k) ==
             [id   |-> The(Said(n, k, "id")), kind |-> The(Said(n, k, "kind")),
              name |-> The(Said(n, k, "name")),
              arguments |-> FlattenSeq([i \in DOMAIN Pieces(n, k) |-> Pieces(n, k)[i].arguments])]
<1>1. \A k \in CallNumbers(n), f \in Fields :
        ValueOf(ValuesFor(ps, k, f)) = The(Said(n, k, f))
  <2> DEFINE P == PiecesIn(answer)
             A == ArgumentWords(answer)
  <2>1. ArePieces(P, A) /\ Malformed # NoValue /\ ps \in Seq(P)
    BY AnswersSpeak, WellFormedIs
  <2>2. \A k \in NumbersIn(ps), f \in Fields : IsOneValue(ValuesFor(ps, k, f))
    <3>1. ~IsBroken(c) /\ IsFinished(c)
      BY WellFormedIs
    <3> HIDE DEF P, A, ps
    <3> QED BY <2>1, <3>1, OneValueEach
  <2>3. \A k \in NumbersIn(ps), f \in Fields :
          IsOneValue(ValuesFor(ps, k, f)) =>
            ValueOf(ValuesFor(ps, k, f)) = CHOOSE x \in ValuesFor(ps, k, f) : TRUE
    <3> HIDE DEF P, A, ps
    <3> QED BY <2>1, OneValueEach
  <2> QED BY <2>2, <2>3, SaidIs
<1>2. \A k \in CallNumbers(n) : c[k] = Call(k)
  <2> TAKE k \in CallNumbers(n)
  <2>1. c[k] = CallFor(ps, k)
    BY SaidIs DEF CallsFor
  <2>2. CallFor(ps, k) = Call(k)
    <3>1. /\ ValueOf(ValuesFor(ps, k, "id")) = The(Said(n, k, "id"))
          /\ ValueOf(ValuesFor(ps, k, "kind")) = The(Said(n, k, "kind"))
          /\ ValueOf(ValuesFor(ps, k, "name")) = The(Said(n, k, "name"))
      BY <1>1 DEF Fields
    <3>2. ArgumentsIn(PiecesFor(ps, k))
            = FlattenSeq([i \in DOMAIN Pieces(n, k) |-> Pieces(n, k)[i].arguments])
      BY SaidIs DEF ArgumentsIn
    <3> QED BY <3>1, <3>2, Zenon DEF CallFor
  <2> QED BY <2>1, <2>2
<1>3. order \in Seq(CallNumbers(n))
  <2>1. \A p \in PiecesIn(answer) : p.index \in Nat
    BY AnswersSpeak
  <2>2. ps \in Seq(PiecesIn(answer))
    BY WellFormedIs
  <2>3. NumbersIn(ps) \subseteq Nat /\ \E m \in Nat : \A k \in NumbersIn(ps) : k <= m
    <3> DEFINE P == PiecesIn(answer)
    <3> HIDE DEF P, ps
    <3> QED BY <2>1, <2>2, NumbersAreBounded DEF P
  <2>4. CallNumbers(n) \in SUBSET Nat /\ \E m \in Nat : \A k \in CallNumbers(n) : k <= m
    BY <2>3, SaidIs
  <2>5. PICK m \in Nat : \A k \in CallNumbers(n) : k <= m
    BY <2>4
  <2> QED BY <2>4, <2>5, AscendingIn
<1>4. DOMAIN c = CallNumbers(n)
  BY SaidIs DEF CallsFor
<1>5. FinishCalls(c) = [i \in DOMAIN order |-> Call(order[i])]
  <2>1. FinishCalls(c) = [i \in DOMAIN order |-> c[order[i]]]
    BY <1>4 DEF FinishCalls
  <2>2. \A i \in DOMAIN order : order[i] \in CallNumbers(n)
    BY <1>3
  <2> HIDE DEF order, c, Call
  <2> QED BY <1>2, <2>1, <2>2
<1>6. Meaning(n) = [content |-> Texts(n), reasoning |-> Thoughts(n),
                    calls |-> [i \in DOMAIN order |-> Call(order[i])]]
  BY Zenon DEF Meaning
<1> QED BY <1>5, <1>6, SaidIs

(* What the stream of the CLI took of the first blocks. *)
TakenOf(n) == TakeChoices(NoResponse, ChoicesOf(n))

(* What was taken of the first n blocks is what they mean, and the         *)
(* accumulator can finish exactly when they are well-formed.               *)
LEMMA TakenMeans ==
  ASSUME answer \in Answers, NEW n \in 0..Len(answer), CanBeRead(n), ~IsBroken(TakenOf(n).calls)
  PROVE  /\ IsWellFormed(n) <=> IsFinished(TakenOf(n).calls)
         /\ IsWellFormed(n) =>
              Meaning(n) = [content |-> TakenOf(n).content, reasoning |-> TakenOf(n).reasoning,
                            calls |-> FinishCalls(TakenOf(n).calls)]
<1>1. Hears(TakenOf(n), ChoicesOf(n))
  BY AnswerIsHeard, ChoicesAreChosen DEF TakenOf
<1>2. /\ ~IsBroken(CallsFor(PiecesOf(n))) /\ TakenOf(n).calls = CallsFor(PiecesOf(n))
      /\ TakenOf(n).content = ContentsIn(ChoicesOf(n))
      /\ TakenOf(n).reasoning = ThoughtsIn(ChoicesOf(n))
  BY <1>1, SaidIs DEF Hears
<1> QED BY <1>2, WellFormedIs, MeaningIs
-----------------------------------------------------------------------------
(* Block after block. *)

(* The next block stands on the wire behind those before it.               *)
LEMMA WireGrows ==
  ASSUME ends \in LineEnds, NEW n \in Nat
  PROVE  /\ Wire(n) \in Seq(Symbols) /\ Wire(n + 1) \in Seq(Symbols)
         /\ Rendered(n + 1) \in Seq(Symbols)
         /\ Wire(n + 1) = Wire(n) \o Rendered(n + 1)
<1> DEFINE blocks(m) == [i \in 1..m |-> Rendered(i)]
           B == Seq(Symbols)
<1>1. \A i \in Nat : Rendered(i) \in B
  BY BlocksAreFramed DEF Framed
<1>2. \A m \in Nat : blocks(m) \in Seq(B) /\ Len(blocks(m)) = m
                     /\ \A i \in 1..m : blocks(m)[i] = Rendered(i)
  <2> TAKE m \in Nat
  <2>1. blocks(m) \in [1..m -> B]
    BY <1>1
  <2> HIDE DEF B
  <2> QED BY <2>1
<1> HIDE DEF B
<1>3. blocks(n + 1) = Append(blocks(n), Rendered(n + 1))
  <2> DEFINE s == blocks(n)
             t == blocks(n + 1)
             e == Rendered(n + 1)
  <2>1. /\ s \in Seq(B) /\ Len(s) = n /\ \A i \in 1..n : s[i] = Rendered(i)
        /\ t \in Seq(B) /\ Len(t) = n + 1 /\ \A i \in 1..(n + 1) : t[i] = Rendered(i)
        /\ e \in B /\ e = Rendered(n + 1)
    BY <1>1, <1>2
  <2> HIDE DEF s, t, e
  <2>2. /\ Append(s, e) \in Seq(B) /\ Len(Append(s, e)) = Len(s) + 1
        /\ \A i \in 1..Len(s) : Append(s, e)[i] = s[i]
        /\ Append(s, e)[Len(s) + 1] = e
    BY <2>1, AppendProperties
  <2>3. \A i \in 1..(n + 1) : Append(s, e)[i] = t[i]
    BY <2>1, <2>2
  <2>4. t = Append(s, e)
    BY <2>1, <2>2, <2>3, SeqEqual
  <2> QED BY <2>4 DEF s, t, e
<1>4. Wire(n) = FlattenSeq(blocks(n)) /\ Wire(n + 1) = FlattenSeq(blocks(n + 1))
  BY DEF Wire
<1> HIDE DEF blocks
<1>5. blocks(n) \in Seq(B) /\ blocks(n + 1) \in Seq(B) /\ Rendered(n + 1) \in B
  BY <1>1, <1>2
<1>6. FlattenSeq(blocks(n)) \in B /\ FlattenSeq(blocks(n + 1)) \in B
  BY <1>5, FlatType DEF B
<1>7. FlattenSeq(Append(blocks(n), Rendered(n + 1))) = FlattenSeq(blocks(n)) \o Rendered(n + 1)
  BY <1>5, <1>6, FlatAppend DEF B
<1> QED BY <1>3, <1>4, <1>5, <1>6, <1>7 DEF B

(* No block, no bytes.                                                     *)
LEMMA WireStarts ==
  Wire(0) = <<>>
<1>1. [m \in 1..0 |-> Rendered(m)] = <<>>
  OBVIOUS
<1> QED BY <1>1, FlatEmpty DEF Wire

(* What the first n blocks are does not depend on those behind them.       *)
LEMMA WirePrefix ==
  ASSUME ends \in LineEnds, NEW n \in Nat
  PROVE  \A m \in Nat : n <= m =>
           /\ Len(Wire(n)) <= Len(Wire(m))
           /\ \A i \in 1..Len(Wire(n)) : Wire(m)[i] = Wire(n)[i]
<1> DEFINE P(d) == /\ Len(Wire(n)) <= Len(Wire(n + d))
                   /\ \A i \in 1..Len(Wire(n)) : Wire(n + d)[i] = Wire(n)[i]
           T == {d \in Nat : P(d)}
<1>0. \A m \in Nat : Len(Wire(m)) \in Nat
  <2> TAKE m \in Nat
  <2>1. Wire(m) \in Seq(Symbols)
    BY WireGrows
  <2> QED BY <2>1
<1>1. 0 \in T
  <2>1. n + 0 = n
    OBVIOUS
  <2> QED BY <1>0, <2>1
<1>2. ASSUME NEW d \in T PROVE d + 1 \in T
  <2>1. d \in Nat /\ P(d) /\ n + d \in Nat /\ n + (d + 1) = (n + d) + 1
    OBVIOUS
  <2> DEFINE w == Wire(n + d)
             r == Rendered((n + d) + 1)
             v == Wire((n + d) + 1)
  <2>2. w \in Seq(Symbols) /\ r \in Seq(Symbols) /\ v = w \o r
    BY <2>1, WireGrows
  <2>3. Len(Wire(n)) <= Len(w) /\ (\A i \in 1..Len(Wire(n)) : w[i] = Wire(n)[i])
        /\ Len(Wire(n)) \in Nat
    BY <1>0, <2>1
  <2> HIDE DEF w, r, v
  <2>4. Len(v) = Len(w) + Len(r) /\ Len(w) \in Nat /\ Len(r) \in Nat
        /\ \A i \in 1..Len(w) : v[i] = w[i]
    BY <2>2
  <2>5. Len(Wire(n)) <= Len(v) /\ \A i \in 1..Len(Wire(n)) : v[i] = Wire(n)[i]
    BY <2>3, <2>4
  <2>6. P(d + 1)
    BY <2>1, <2>5 DEF v
  <2> QED BY <2>1, <2>6
<1>3. T = Nat
  <2>1. T \in SUBSET Nat
    OBVIOUS
  <2> HIDE DEF T
  <2> QED BY <1>1, <1>2, <2>1, Induction
<1>4. ASSUME NEW m \in Nat, n <= m PROVE P(m - n)
  <2>0. m - n \in Nat
    BY <1>4
  <2>1. m - n \in T
    BY <1>3, <2>0
  <2> QED BY <2>1
<1>5. \A m \in Nat : n + (m - n) = m
  OBVIOUS
<1> QED BY <1>4, <1>5

(* The wire of an answer does not change. *)
LEMMA WireSame ==
  ASSUME answer' = answer, ends' = ends, NEW n
  PROVE  Wire(n)' = Wire(n)
<1>1. ASSUME NEW m PROVE Rendered(m)' = Rendered(m)
  BY DEF Rendered
<1>2. [m \in 1..n |-> Rendered(m)]' = [m \in 1..n |-> Rendered(m)]
  BY <1>1
<1> QED BY <1>2 DEF Wire
-----------------------------------------------------------------------------
(* The rounds of the parser. *)

(* The parser has what is left of the wire from block m + 1 on, up to x.   *)
Left(bytes, m, x) ==
  /\ m \in 0..Len(answer) /\ x \in Nat
  /\ Len(Wire(m)) <= x /\ x <= Len(Wire(Len(answer)))
  /\ bytes = SubSeq(Wire(Len(answer)), Len(Wire(m)) + 1, x)

(* What a round finds, and what it leaves. *)
EventOf(bytes) == ParseBlock(SubSeq(bytes, 1, FirstBoundary(bytes)[1] - 1))

LeftOver(bytes) ==
  SubSeq(bytes, FirstBoundary(bytes)[1] + Len(FirstBoundary(bytes)[2]), Len(bytes))

(* A round finds no end of a block, or the end of the next block.          *)
LEMMA FindsTheNext ==
  ASSUME answer \in Answers, ends \in LineEnds, NEW bytes, NEW m, NEW x, Left(bytes, m, x),
         Boundaries(bytes) # {}
  PROVE  /\ m + 1 \in 1..Len(answer)
         /\ Left(LeftOver(bytes), m + 1, x)
         /\ EventOf(bytes) \in {0, m + 1, Malformed}
         /\ answer[m + 1].kind # "comment" => EventOf(bytes) \in {m + 1, Malformed}
         /\ EventOf(bytes) = m + 1 => answer[m + 1].kind \in {"chunk", "done"}
         /\ EndsAreClean => EventOf(bytes) = ReadAs(m + 1)
<1> DEFINE N == Len(answer)
           w == Wire(N)
           v == Wire(m)
           r == Rendered(m + 1)
           b == FirstBoundary(bytes)
<1>1. N \in Nat
  BY AnswersAre
<1>2. /\ m \in 0..N /\ m \in Nat /\ x \in Nat /\ Len(v) <= x /\ x <= Len(w)
      /\ bytes = SubSeq(w, Len(v) + 1, x)
  BY <1>1 DEF Left
<1>3. w \in Seq(Symbols) /\ v \in Seq(Symbols)
  BY <1>1, <1>2, WireGrows
<1>4. Len(v) \in Nat /\ Len(w) \in Nat
  BY <1>3
<1>5. /\ bytes \in Seq(Symbols) /\ Len(bytes) = x - Len(v)
      /\ \A i \in 1..(x - Len(v)) : bytes[i] = w[Len(v) + i]
  BY <1>2, <1>3, <1>4, Rest
<1>6. m < N
  <2> SUFFICES ASSUME m = N PROVE FALSE
    BY <1>1, <1>2
  <2>1. x = Len(v)
    BY <1>2, <1>4
  <2>2. Len(bytes) = 0
    BY <1>2, <1>4, <1>5, <2>1
  <2>3. Boundaries(bytes) = {}
    BY <2>2, <1>5 DEF Boundaries
  <2> QED BY <2>3
<1>6a. m + 1 \in Nat /\ ends \in LineEnds
  BY <1>2
<1>7. /\ r \in Seq(Symbols) /\ r \in Seq(Parts(m + 1)) /\ Wire(m + 1) = v \o r
      /\ answer[m + 1].kind # "comment" => r[1] = Data
  <2>1. r \in Seq(Symbols) /\ Wire(m + 1) = v \o r
    BY <1>2, WireGrows
  <2>2. r \in Seq(Parts(m + 1)) /\ (answer[m + 1].kind # "comment" => r[1] = Data)
    BY <1>6a, BlocksAreFramed
  <2> QED BY <2>1, <2>2
<1>8. PICK q, k : Framed(r, q, k) /\ (EndsAreClean => IsCutAt(m + 1, q))
  BY <1>6a, BlocksAreFramed
<1>9. /\ Len(Wire(m + 1)) = Len(v) + Len(r) /\ Len(r) \in Nat
      /\ \A i \in 1..Len(r) : Wire(m + 1)[Len(v) + i] = r[i]
  <2> HIDE DEF v, r
  <2> QED BY <1>3, <1>7
<1>10. /\ Len(Wire(m + 1)) <= Len(w)
       /\ \A i \in 1..Len(Wire(m + 1)) : w[i] = Wire(m + 1)[i]
  <2>1. m + 1 \in Nat /\ m + 1 <= N
    BY <1>1, <1>2, <1>6
  <2> QED BY <1>1, <2>1, WirePrefix
<1>8a. ASSUME EndsAreClean
       PROVE  \E head \in HeadsOf(m + 1) : /\ head \in Seq(Symbols) /\ Len(head) = q - 1
                                           /\ \A i \in 1..(q - 1) : r[i] = head[i]
  BY <1>8, <1>8a, Zenon DEF IsCutAt
<1> HIDE DEF w, v, r, N
<1>11. \A i \in 1..Len(r) : i <= Len(bytes) => bytes[i] = r[i]
  <2> TAKE i \in 1..Len(r)
  <2> HAVE i <= Len(bytes)
  <2>1. Len(v) + i \in 1..Len(Wire(m + 1)) /\ i \in 1..(x - Len(v))
    BY <1>2, <1>4, <1>5, <1>9
  <2> QED BY <1>5, <1>9, <1>10, <2>1
<1>12. Len(r) <= Len(bytes) /\ b = <<q, SepOf(k)>>
  BY <1>5, <1>8, <1>11, FindsTheEnd
<1>13. q \in Nat /\ q >= 2 /\ k \in 2..4 /\ Len(r) = q + k - 1
  BY <1>8 DEF Framed
<1>14. b[1] = q /\ Len(b[2]) = k
  <2>1. Len(SepOf(k)) = k
    <3>1. Len(<<Lf, Lf>>) = 2 /\ Len(<<Lf, Cr, Lf>>) = 3 /\ Len(<<Cr, Lf, Cr, Lf>>) = 4
      OBVIOUS
    <3>2. k = 2 \/ k = 3 \/ k = 4
      BY <1>13
    <3> QED BY <3>1, <3>2 DEF SepOf
  <2> QED BY <1>12, <2>1
<1> HIDE DEF b
<1> DEFINE block == SubSeq(bytes, 1, q - 1)
<1>15. block \in Seq(Parts(m + 1)) /\ block # <<>> /\ block[1] = r[1]
  <2>1. ASSUME NEW i \in 1..(q - 1) PROVE bytes[i] \in Parts(m + 1)
    <3>1. i \in 1..Len(r) /\ i <= Len(bytes)
      BY <1>5, <1>12, <1>13
    <3>2. r[i] \in Parts(m + 1)
      <4> DEFINE P == Parts(m + 1)
      <4>1. r \in Seq(P)
        BY <1>7
      <4> HIDE DEF P
      <4>2. r[i] \in P
        BY <3>1, <4>1
      <4> QED BY <4>2 DEF P
    <3>3. bytes[i] = r[i]
      BY <1>11, <3>1
    <3> QED BY <3>2, <3>3
  <2>2. /\ block \in Seq(Parts(m + 1)) /\ Len(block) = IF 1 <= q - 1 THEN (q - 1) - 1 + 1 ELSE 0
        /\ \A i \in 1..((q - 1) - 1 + 1) : block[i] = bytes[1 + i - 1]
    <3>1. 1 \in Int /\ q - 1 \in Int /\ \A i \in 1..(q - 1) : bytes[i] \in Parts(m + 1)
      BY <1>13, <2>1
    <3> QED BY <3>1, SubSeqProperties
  <2> HIDE DEF block
  <2>3. Len(block) = q - 1 /\ 1 \in 1..((q - 1) - 1 + 1) /\ 1 + 1 - 1 = 1
    BY <1>13, <2>2
  <2>4. block[1] = bytes[1]
    BY <2>2, <2>3
  <2>5. 1 \in 1..Len(r) /\ 1 <= Len(bytes)
    BY <1>12, <1>13, <1>5
  <2>6. Len(block) # 0
    BY <1>13, <2>3
  <2> QED BY <1>11, <2>2, <2>4, <2>5, <2>6
<1>15a. block \in Seq(Symbols) /\ Len(block) = q - 1 /\ \A i \in 1..(q - 1) : block[i] = r[i]
  <2>1. 0 \in Nat /\ q - 1 \in Nat /\ 0 <= q - 1 /\ q - 1 <= Len(bytes) /\ q - 1 <= Len(r)
        /\ 0 + 1 = 1 /\ (q - 1) - 0 = q - 1 /\ \A i \in 1..(q - 1) : 0 + i = i
    BY <1>5, <1>12, <1>13
  <2> DEFINE d == q - 1
  <2> HIDE DEF d
  <2>2. 0 \in Nat /\ d \in Nat /\ 0 <= d /\ d <= Len(bytes) /\ d <= Len(r) /\ 0 + 1 = 1 /\ d - 0 = d
        /\ \A i \in 1..d : 0 + i = i
    BY <2>1 DEF d
  <2>3. /\ SubSeq(bytes, 1, d) \in Seq(Symbols) /\ Len(SubSeq(bytes, 1, d)) = d
        /\ \A i \in 1..d : SubSeq(bytes, 1, d)[i] = bytes[i]
    BY <1>5, <2>2, Rest
  <2>4. \A i \in 1..d : bytes[i] = r[i]
    <3>1. \A i \in 1..d : i \in 1..Len(r) /\ i <= Len(bytes)
      BY <1>5, <1>9, <2>2
    <3> QED BY <1>11, <3>1
  <2> QED BY <2>3, <2>4 DEF d
<1> HIDE DEF block
<1>16. m + 1 \in Nat /\ m + 1 \in 1..N /\ m + 1 \in 0..N
  BY <1>1, <1>2, <1>6
<1>17. /\ ParseBlock(block) \in {0, m + 1, Malformed}
       /\ answer[m + 1].kind # "comment" => ParseBlock(block) \in {m + 1, Malformed}
       /\ ParseBlock(block) = m + 1 => answer[m + 1].kind \in {"chunk", "done"}
  <2>1. /\ ParseBlock(block) \in {0, m + 1, Malformed}
        /\ block # <<>> /\ block[1] = Data => ParseBlock(block) \in {m + 1, Malformed}
        /\ ParseBlock(block) = m + 1 => answer[m + 1].kind \in {"chunk", "done"}
    BY <1>15, <1>16, ParsedIs
  <2> QED BY <1>7, <1>15, <2>1
<1>17a. ASSUME EndsAreClean PROVE ParseBlock(block) = ReadAs(m + 1)
  <2>1. PICK head \in HeadsOf(m + 1) : /\ head \in Seq(Symbols) /\ Len(head) = q - 1
                                       /\ \A i \in 1..(q - 1) : r[i] = head[i]
    BY <1>8a, <1>17a
  <2>2. \A i \in 1..(q - 1) : block[i] = head[i]
    BY <1>15a, <2>1
  <2>3. block = head
    BY <1>15a, <2>1, <2>2, SeqEqual
  <2>4. m + 1 \in DOMAIN answer
    BY <1>16, AnswersAre DEF N
  <2> QED BY <2>1, <2>3, <2>4, HeadsAreRead
<1>18. Left(SubSeq(bytes, q + k, Len(bytes)), m + 1, x)
  <2>1. Len(r) \in Nat /\ Len(r) <= x - Len(v) /\ q + k = Len(r) + 1
    BY <1>5, <1>9, <1>12, <1>13
  <2>2. SubSeq(bytes, Len(r) + 1, x - Len(v)) = SubSeq(w, (Len(v) + Len(r)) + 1, x)
    BY <1>2, <1>3, <1>4, <2>1, RestOfRest
  <2>3. SubSeq(bytes, q + k, Len(bytes)) = SubSeq(w, Len(Wire(m + 1)) + 1, x)
    BY <1>5, <1>9, <2>1, <2>2
  <2>4. Len(Wire(m + 1)) <= x
    BY <1>2, <1>4, <1>9, <2>1
  <2> QED BY <1>2, <1>16, <2>3, <2>4 DEF Left, N, w
<1>19. EventOf(bytes) = ParseBlock(block) /\ LeftOver(bytes) = SubSeq(bytes, q + k, Len(bytes))
  BY <1>14 DEF EventOf, LeftOver, b, block
<1> QED BY <1>16, <1>17, <1>17a, <1>18, <1>19 DEF N

(* Before the first byte nothing is left. *)
LEMMA NothingRead ==
  ASSUME answer \in Answers, ends \in LineEnds
  PROVE  0 \in 0..Len(answer) /\ Left(<<>>, 0, 0)
<1> DEFINE w == Wire(Len(answer))
<1>1. Len(answer) \in Nat
  BY AnswersAre
<1>2. w \in Seq(Symbols)
  BY <1>1, WireGrows
<1>3. Len(Wire(0)) = 0
  BY WireStarts, EmptySeq
<1> HIDE DEF w
<1>4. SubSeq(w, 1, 0) = <<>> /\ Len(w) \in Nat
  BY <1>2, Beginnings
<1>5. 0 \in 0..Len(answer) /\ 0 \in Nat /\ 0 + 1 = 1 /\ 0 <= 0 /\ 0 <= Len(w)
  BY <1>1, <1>4
<1> QED BY <1>3, <1>4, <1>5 DEF Left, w

(* Of what is left, the next block shows when it has arrived, and its      *)
(* first byte is not the end of a line.                                    *)
LEMMA LeftBegins ==
  ASSUME answer \in Answers, ends \in LineEnds, NEW bytes, NEW m, NEW x, Left(bytes, m, x)
  PROVE  /\ m \in Nat /\ x \in Nat /\ Len(answer) \in Nat /\ m <= Len(answer)
         /\ bytes \in Seq(Symbols) /\ Len(bytes) = x - Len(Wire(m)) /\ Len(Wire(m)) \in Nat
         /\ m < Len(answer) => Len(Wire(m)) < Len(Wire(m + 1))
         /\ m < Len(answer) /\ Len(Wire(m + 1)) <= x => Boundaries(bytes) # {}
         /\ bytes # <<>> => IsIncomplete(bytes)
<1> DEFINE N == Len(answer)
           w == Wire(N)
           v == Wire(m)
           r == Rendered(m + 1)
<1>1. N \in Nat
  BY AnswersAre
<1>2. /\ m \in Nat /\ m <= N /\ x \in Nat /\ Len(v) <= x /\ x <= Len(w)
      /\ bytes = SubSeq(w, Len(v) + 1, x)
  BY <1>1 DEF Left
<1>3. w \in Seq(Symbols) /\ v \in Seq(Symbols) /\ r \in Seq(Symbols) /\ Wire(m + 1) = v \o r
  BY <1>1, <1>2, WireGrows
<1>4. Len(v) \in Nat /\ Len(w) \in Nat /\ Len(r) \in Nat
  BY <1>3
<1>5. /\ bytes \in Seq(Symbols) /\ Len(bytes) = x - Len(v)
      /\ \A i \in 1..(x - Len(v)) : bytes[i] = w[Len(v) + i]
  <2> DEFINE y == Len(v)
  <2>1. w \in Seq(Symbols) /\ y \in Nat /\ x \in Nat /\ y <= x /\ x <= Len(w)
        /\ bytes = SubSeq(w, y + 1, x)
    BY <1>2, <1>3, <1>4
  <2> HIDE DEF w, y
  <2>2. /\ bytes \in Seq(Symbols) /\ Len(bytes) = x - y
        /\ \A i \in 1..(x - y) : bytes[i] = w[y + i]
    BY <2>1, Rest
  <2> QED BY <2>2 DEF y
<1>6. m + 1 \in Nat /\ r[1] \notin {Lf, Cr}
  <2>1. m + 1 \in Nat /\ (answer[m + 1].kind # "comment" => r[1] = Data)
    <3>1. \A n \in Nat : answer[n].kind # "comment" => Rendered(n)[1] = Data
      BY BlocksAreFramed
    <3>2. m + 1 \in Nat
      BY <1>2
    <3> QED BY <3>1, <3>2, Zenon
  <2>2. answer[m + 1].kind = "comment" => r[1] = Colon
    <3>1. answer[m + 1].kind = "comment" => r = <<Colon>> \o ends[1] \o ends[2]
      BY DEF Rendered
    <3>2. ends[1] \in Seq(Symbols) /\ ends[2] \in Seq(Symbols) /\ <<Colon>> \in Seq(Symbols)
      <4>1. ends \in {<<Lf>>, <<Cr, Lf>>} \X {<<Lf>>, <<Cr, Lf>>}
        BY StreamAssumption
      <4>2. Lf \in Symbols /\ Cr \in Symbols /\ Colon \in Symbols
        BY DEF Symbols
      <4>3. <<Lf>> \in Seq(Symbols) /\ <<Cr, Lf>> \in Seq(Symbols) /\ <<Colon>> \in Seq(Symbols)
        BY <4>2
      <4> QED BY <4>1, <4>3
    <3> DEFINE e == ends[1]
               f == ends[2]
               c == <<Colon>>
    <3>3. /\ e \in Seq(Symbols) /\ f \in Seq(Symbols)
          /\ c \in Seq(Symbols) /\ Len(c) = 1 /\ c[1] = Colon
      BY <3>2
    <3> HIDE DEF e, f, c
    <3>4. \A s, t \in Seq(Symbols) : Len(s) >= 1 => /\ s \o t \in Seq(Symbols)
                                                   /\ (s \o t)[1] = s[1] /\ Len(s \o t) >= 1
      <4> SUFFICES ASSUME NEW s \in Seq(Symbols), NEW t \in Seq(Symbols), Len(s) >= 1
                   PROVE  s \o t \in Seq(Symbols) /\ (s \o t)[1] = s[1] /\ Len(s \o t) >= 1
        OBVIOUS
      <4>1. /\ s \o t \in Seq(Symbols) /\ Len(s \o t) = Len(s) + Len(t)
            /\ Len(s) \in Nat /\ Len(t) \in Nat /\ \A i \in 1..Len(s) : (s \o t)[i] = s[i]
        BY InConcat
      <4> QED BY <4>1
    <3>5. c \o e \in Seq(Symbols) /\ (c \o e)[1] = Colon /\ Len(c \o e) >= 1
      <4>1. Len(c) >= 1 /\ c[1] = Colon
        BY <3>3
      <4>2. c \o e \in Seq(Symbols) /\ (c \o e)[1] = c[1] /\ Len(c \o e) >= 1
        BY <3>3, <3>4, <4>1, Zenon
      <4> QED BY <4>1, <4>2
    <3>6. (c \o e \o f)[1] = Colon
      BY <3>3, <3>4, <3>5
    <3> QED BY <3>1, <3>6 DEF e, f, c
  <2> QED BY <2>1, <2>2, SymbolsDiffer
<1>7. PICK q, k : Framed(r, q, k)
  BY <1>2, <1>6, BlocksAreFramed
<1>8. /\ q \in Nat /\ q >= 2 /\ k \in 2..4 /\ Len(r) = q + k - 1 /\ SepAt(r, q, k)
  BY <1>7 DEF Framed
<1> HIDE DEF r, v
<1>9. /\ Len(Wire(m + 1)) = Len(v) + Len(r) /\ Len(r) > 0
      /\ \A i \in 1..Len(r) : Wire(m + 1)[Len(v) + i] = r[i]
  <2>1. Len(v \o r) = Len(v) + Len(r) /\ \A i \in 1..Len(r) : (v \o r)[Len(v) + i] = r[i]
    BY <1>3, InConcat
  <2> DEFINE z == v \o r
  <2>2. Len(z) = Len(v) + Len(r) /\ \A i \in 1..Len(r) : z[Len(v) + i] = r[i]
    BY <2>1
  <2>3. Len(r) > 0
    BY <1>8
  <2>4. Wire(m + 1) = z
    BY <1>3
  <2> HIDE DEF z
  <2> QED BY <2>2, <2>3, <2>4
<1> HIDE DEF w, N
<1>10. ASSUME m < N
       PROVE  /\ Len(Wire(m + 1)) <= Len(w)
              /\ \A i \in 1..Len(Wire(m + 1)) : w[i] = Wire(m + 1)[i]
  <2>1. m + 1 \in Nat /\ m + 1 <= N
    BY <1>1, <1>2, <1>10
  <2> QED BY <1>1, <2>1, WirePrefix DEF w
<1>11. ASSUME m < N PROVE \A i \in 1..Len(r) : i <= Len(bytes) => bytes[i] = r[i]
  <2> TAKE i \in 1..Len(r)
  <2> HAVE i <= Len(bytes)
  <2>1. Len(v) + i \in 1..Len(Wire(m + 1)) /\ i \in 1..(x - Len(v))
    BY <1>2, <1>4, <1>5, <1>9
  <2> QED BY <1>5, <1>9, <1>10, <1>11, <2>1
<1>12. ASSUME m < N, Len(Wire(m + 1)) <= x PROVE Boundaries(bytes) # {}
  <2>1. Len(r) <= Len(bytes)
    BY <1>2, <1>4, <1>5, <1>9, <1>12
  <2>2. \A i \in 1..Len(r) : bytes[i] = r[i]
    BY <1>4, <1>5, <1>11, <1>12, <2>1
  <2>3. q \in 1..Len(bytes) /\ \A i \in q..(q + k - 1) : i \in 1..Len(r)
    BY <1>4, <1>5, <1>8, <2>1
  <2>4. \A i \in q..(q + k - 1) : bytes[i] = r[i]
    BY <2>2, <2>3
  <2>5. SepAt(bytes, q, k)
    <3>1. q \in Nat /\ q + k - 1 <= Len(bytes) /\ Len(bytes) \in Nat
      BY <1>4, <1>5, <1>8, <2>1
    <3>2. k = 2 \/ k = 3 \/ k = 4
      BY <1>8
    <3>3. CASE k = 2
      <4>1. bytes[q] = r[q] /\ bytes[q + 1] = r[q + 1]
        BY <1>8, <2>4, <3>3
      <4> QED BY <1>8, <3>1, <3>3, <4>1 DEF SepAt
    <3>4. CASE k = 3
      <4>1. bytes[q] = r[q] /\ bytes[q + 1] = r[q + 1] /\ bytes[q + 2] = r[q + 2]
        BY <1>8, <2>4, <3>4
      <4> QED BY <1>8, <3>1, <3>4, <4>1 DEF SepAt
    <3>5. CASE k = 4
      <4>1. /\ bytes[q] = r[q] /\ bytes[q + 1] = r[q + 1]
            /\ bytes[q + 2] = r[q + 2] /\ bytes[q + 3] = r[q + 3]
        BY <1>8, <2>4, <3>5
      <4> QED BY <1>8, <3>1, <3>5, <4>1 DEF SepAt
    <3> QED BY <3>2, <3>3, <3>4, <3>5
  <2>6. <<q, SepOf(k)>> \in Boundaries(bytes)
    BY <1>5, <1>8, <2>3, <2>5, BoundariesAre
  <2> QED BY <2>6
<1>13. ASSUME bytes # <<>> PROVE IsIncomplete(bytes)
  <2>1. Len(bytes) \in Nat /\ Len(bytes) >= 1 /\ 1 \in DOMAIN bytes
    BY <1>5, <1>13
  <2>2. m < N
    <3> SUFFICES ASSUME m = N PROVE FALSE
      BY <1>1, <1>2
    <3>1. Len(v) = Len(w)
      BY DEF v, w
    <3> QED BY <1>2, <1>4, <1>5, <2>1, <3>1
  <2>3. bytes[1] = r[1]
    BY <1>4, <1>9, <1>11, <2>1, <2>2
  <2> QED BY <1>6, <2>1, <2>3 DEF IsIncomplete, r
<1> QED BY <1>1, <1>2, <1>4, <1>5, <1>9, <1>12, <1>13 DEF N, v

(* [DONE] is the last of the events. *)
DoneLast(s) == s # <<>> /\ IsDone(Last(s))

(* [DONE] is an event behind which there are no others. *)
DoneIsLast(s) == \A i \in DOMAIN s : IsDone(s[i]) => i = Len(s)

(* The rounds have read the blocks behind n up to m.                       *)
ReadsTo(s, n, m, x) ==
  /\ Left(s.bytes, m, x) /\ s.events \in Seq(DOMAIN answer)
  /\ ChoicesOf(n) \o Chosen(answer, s.events) = ChoicesOf(m)
  /\ CanBeRead(n) => CanBeRead(m)
  /\ DoneIsLast(s.events)
  /\ DoneLast(s.events) <=> m > n /\ IsDone(m)

(* Blocks that cannot be read are the answer's own fault.                  *)
ReadsFrom(s, n, x) ==
  IF s.events = Malformed THEN EndsAreClean => ~CanBeRead(Len(answer))
  ELSE \E m \in n..Len(answer) : ReadsTo(s, n, m, x)

(* No round changes anything any more. *)
Stopped(s) == s.events = Malformed \/ Boundaries(s.bytes) = {} \/ DoneLast(s.events)

(* One event more.                                                         *)
LEMMA EventAdded ==
  ASSUME NEW s \in Seq(DOMAIN answer), answer \in Answers, NEW e \in DOMAIN answer,
         DoneIsLast(s), ~DoneLast(s)
  PROVE  /\ Append(s, e) \in Seq(DOMAIN answer) /\ DoneIsLast(Append(s, e))
         /\ DoneLast(Append(s, e)) <=> IsDone(e)
         /\ Chosen(answer, s) \in Seq(ChoicesIn(answer))
         /\ Chosen(answer, Append(s, e)) = Chosen(answer, s) \o answer[e].choices
<1> DEFINE D == DOMAIN answer
           c == ChoiceLists(answer)
           C == ChoicesIn(answer)
           t == Append(s, e)
<1>1. Gives(c, D, C) /\ c[e] = answer[e].choices
  BY ChoicesAreChosen DEF ChoiceLists
<1>2. s \in Seq(D) /\ e \in D
  OBVIOUS
<1> HIDE DEF D, c, C
<1>3. Gathered(c, s) \in Seq(C) /\ Gathered(c, Append(s, e)) = Gathered(c, s) \o c[e]
  <2>1. Gathered(c, s) \in Seq(C)
    BY <1>1, <1>2, GatheredIn
  <2>2. Gathered(c, Append(s, e)) = Gathered(c, s) \o c[e]
    BY <1>1, <1>2, GatheredAppend
  <2> QED BY <2>1, <2>2
<1>4. /\ t \in Seq(D) /\ Len(t) = Len(s) + 1 /\ Len(s) \in Nat /\ t[Len(s) + 1] = e
      /\ DOMAIN t = 1..(Len(s) + 1) /\ DOMAIN s = 1..Len(s)
      /\ \A i \in 1..Len(s) : t[i] = s[i]
  BY <1>2, AppendProperties
<1> HIDE DEF t
<1>5. \A i \in 1..Len(s) : ~IsDone(s[i])
  <2> SUFFICES ASSUME NEW i \in 1..Len(s), IsDone(s[i]) PROVE FALSE
    OBVIOUS
  <2>1. i = Len(s)
    BY <1>4 DEF DoneIsLast
  <2>2. s # <<>> /\ Last(s) = s[i]
    BY <1>4, <2>1 DEF Last
  <2> QED BY <2>2 DEF DoneLast
<1>6. DoneIsLast(t)
  <2> SUFFICES ASSUME NEW i \in 1..(Len(s) + 1), IsDone(t[i]) PROVE i = Len(t)
    BY <1>4 DEF DoneIsLast
  <2>1. CASE i \in 1..Len(s)
    BY <1>4, <1>5, <2>1
  <2>2. CASE i \notin 1..Len(s)
    BY <1>4, <2>2
  <2> QED BY <2>1, <2>2
<1>7. DoneLast(t) <=> IsDone(e)
  <2>1. t # <<>> /\ Last(t) = e
    BY <1>4 DEF Last
  <2> QED BY <2>1 DEF DoneLast
<1> QED BY <1>1, <1>3, <1>4, <1>6, <1>7 DEF Chosen, D, c, C, t

(* A round reads one block more, or stands still. *)
LEMMA RoundReadsOn ==
  ASSUME answer \in Answers, ends \in LineEnds, NEW n \in 0..Len(answer), NEW x, NEW s,
         ReadsFrom(s, n, x)
  PROVE  /\ ReadsFrom(Extract(s), n, x)
         /\ Stopped(s) => Extract(s) = s
         /\ ~Stopped(s) => Len(s.bytes) \in Nat /\ Len(Extract(s).bytes) \in Nat
                           /\ Len(Extract(s).bytes) < Len(s.bytes)
<1> DEFINE t == Extract(s)
           event == EventOf(s.bytes)
<1>1. CASE Stopped(s)
  <2>1. t = s
    BY <1>1 DEF Extract, Stopped, DoneLast
  <2> QED BY <1>1, <2>1
<1>2. CASE ~Stopped(s)
  <2>1. t = [bytes  |-> LeftOver(s.bytes),
             events |-> CASE event = Malformed -> Malformed
                          [] event = 0         -> s.events
                          [] OTHER             -> Append(s.events, event)]
    BY <1>2 DEF Extract, EventOf, LeftOver, Stopped, DoneLast
  <2>2. /\ t.bytes = LeftOver(s.bytes)
        /\ event = Malformed => t.events = Malformed
        /\ event = 0 /\ event # Malformed => t.events = s.events
        /\ event # 0 /\ event # Malformed => t.events = Append(s.events, event)
    <3> HIDE DEF t, event
    <3>1. Malformed # 0
      BY StreamAssumption
    <3> QED BY <2>1, <3>1
  <2>3. PICK m \in n..Len(answer) : ReadsTo(s, n, m, x)
    BY <1>2 DEF ReadsFrom, Stopped
  <2>4. /\ Left(s.bytes, m, x) /\ s.events \in Seq(DOMAIN answer) /\ s.events # Malformed
        /\ Boundaries(s.bytes) # {} /\ DoneIsLast(s.events) /\ ~DoneLast(s.events)
    BY <1>2, <2>3 DEF ReadsTo, Stopped
  <2>5. /\ m + 1 \in 1..Len(answer) /\ Left(LeftOver(s.bytes), m + 1, x)
        /\ event \in {0, m + 1, Malformed}
        /\ answer[m + 1].kind # "comment" => event \in {m + 1, Malformed}
        /\ event = m + 1 => answer[m + 1].kind \in {"chunk", "done"}
        /\ EndsAreClean => event = ReadAs(m + 1)
    BY <2>4, FindsTheNext
  <2>6. /\ Len(answer) \in Nat /\ DOMAIN answer = 1..Len(answer) /\ Malformed \notin Nat
        /\ answer[m + 1].kind = "comment" => answer[m + 1].choices = <<>>
        /\ answer[m + 1].kind \in {"chunk", "comment", "invalid", "done"}
    BY <2>5, AnswersAre, StreamAssumption
  <2>7. /\ m \in Nat /\ m + 1 \in Nat /\ m + 1 \in DOMAIN answer /\ m + 1 \in n..Len(answer)
        /\ n \in Nat /\ m + 1 # 0 /\ m < Len(answer) /\ m + 1 > n
    BY <2>3, <2>5, <2>6
  <2> HIDE DEF event, t
  <2>8. /\ Len(s.bytes) \in Nat /\ Len(t.bytes) \in Nat /\ Len(t.bytes) < Len(s.bytes)
    <3>1. /\ s.bytes \in Seq(Symbols) /\ Len(s.bytes) = x - Len(Wire(m)) /\ x \in Nat
          /\ Len(Wire(m)) \in Nat /\ Len(Wire(m)) < Len(Wire(m + 1))
      BY <2>4, <2>7, LeftBegins
    <3>2. /\ t.bytes \in Seq(Symbols) /\ Len(t.bytes) = x - Len(Wire(m + 1))
          /\ Len(Wire(m + 1)) \in Nat
      BY <2>2, <2>5, LeftBegins
    <3>3. Len(s.bytes) \in Nat /\ Len(t.bytes) \in Nat
      BY <3>1, <3>2, LenProperties
    <3> QED BY <3>1, <3>2, <3>3
  <2>9. /\ ChoicesOf(m) \in Seq(ChoicesIn(answer))
        /\ answer[m + 1].choices \in Seq(ChoicesIn(answer))
        /\ ChoicesOf(m + 1) = ChoicesOf(m) \o answer[m + 1].choices
    BY <2>7, ChoicesNext
  <2>10. CanBeRead(m) /\ answer[m + 1].kind # "invalid" => CanBeRead(m + 1)
    <3>1. \A i \in 1..(m + 1) : i \in 1..m \/ i = m + 1
      BY <2>7
    <3> QED BY <3>1 DEF CanBeRead
  <2>11. CASE event = Malformed
    <3>1. t.events = Malformed
      BY <2>2, <2>11
    <3>2. EndsAreClean => ~CanBeRead(Len(answer))
      <4> SUFFICES ASSUME EndsAreClean PROVE answer[m + 1].kind = "invalid"
        BY <2>5 DEF CanBeRead
      <4> QED BY <2>5, <2>6, <2>7, <2>11 DEF ReadAs
    <3>3. ReadsFrom(t, n, x)
      BY <3>1, <3>2 DEF ReadsFrom
    <3> QED BY <1>2, <2>8, <3>3 DEF t
  <2>12. CASE event = 0
    <3>1. t.events = s.events /\ t.bytes = LeftOver(s.bytes)
      BY <2>2, <2>6, <2>12
    <3>2. answer[m + 1].kind = "comment" /\ answer[m + 1].choices = <<>> /\ ~IsDone(m + 1)
      BY <2>5, <2>6, <2>7, <2>12 DEF IsDone
    <3>3. ChoicesOf(m + 1) = ChoicesOf(m)
      BY <2>9, <3>2, ConcatEmptySeq
    <3>4. ReadsTo(t, n, m + 1, x)
      <4>1. Left(t.bytes, m + 1, x) /\ t.events \in Seq(DOMAIN answer) /\ DoneIsLast(t.events)
        BY <2>4, <2>5, <3>1
      <4>2. ChoicesOf(n) \o Chosen(answer, t.events) = ChoicesOf(m + 1)
        BY <2>3, <3>1, <3>3 DEF ReadsTo
      <4>3. CanBeRead(n) => CanBeRead(m + 1)
        BY <2>3, <2>10, <3>2 DEF ReadsTo
      <4>4. ~DoneLast(t.events)
        BY <2>4, <3>1
      <4> QED BY <3>2, <4>1, <4>2, <4>3, <4>4 DEF ReadsTo
    <3>5. t.events # Malformed
      BY <2>4, <3>1
    <3>6. ReadsFrom(t, n, x)
      BY <2>7, <3>4, <3>5 DEF ReadsFrom
    <3> QED BY <1>2, <2>8, <3>6 DEF t
  <2>13. CASE event = m + 1
    <3>1. t.events = Append(s.events, m + 1) /\ t.bytes = LeftOver(s.bytes)
      <4>1. event # Malformed /\ event # 0
        BY <2>6, <2>7, <2>13
      <4> QED BY <2>2, <2>13, <4>1
    <3>2. /\ t.events \in Seq(DOMAIN answer) /\ DoneIsLast(t.events)
          /\ DoneLast(t.events) <=> IsDone(m + 1)
          /\ Chosen(answer, s.events) \in Seq(ChoicesIn(answer))
          /\ Chosen(answer, t.events) = Chosen(answer, s.events) \o answer[m + 1].choices
      BY <2>4, <2>7, <3>1, EventAdded
    <3>3. ChoicesOf(n) \o Chosen(answer, t.events) = ChoicesOf(m + 1)
      <4> DEFINE u == ChoicesOf(n)
                 v == Chosen(answer, s.events)
                 z == answer[m + 1].choices
                 B == ChoicesIn(answer)
      <4>1. u \in Seq(B) /\ v \in Seq(B) /\ z \in Seq(B)
        BY <2>9, <3>2, ChoicesAreChosen
      <4>2. u \o v = ChoicesOf(m)
        BY <2>3 DEF ReadsTo
      <4> HIDE DEF u, v, z, B
      <4>3. (u \o v) \o z = u \o (v \o z)
        <5>1. \A p, q, r \in Seq(B) : (p \o q) \o r = p \o (q \o r) /\ q \o r \in Seq(B)
          BY Regroup, Zenon
        <5> QED BY <4>1, <5>1, Zenon
      <4>4. u \o (v \o z) = ChoicesOf(m + 1)
        BY <2>9, <4>2, <4>3, Zenon DEF z
      <4> QED BY <3>2, <4>4, Zenon DEF u, v, z
    <3>4. ReadsTo(t, n, m + 1, x)
      <4>1. Left(t.bytes, m + 1, x)
        BY <2>5, <3>1
      <4>2. CanBeRead(n) => CanBeRead(m + 1)
        BY <2>3, <2>5, <2>10, <2>13 DEF ReadsTo
      <4> QED BY <2>7, <3>2, <3>3, <4>1, <4>2 DEF ReadsTo
    <3>5. t.events # Malformed
      <4>1. t.events \in Seq(Nat)
        <5>1. DOMAIN answer \subseteq Nat
          BY <2>6
        <5> QED BY <3>2, <5>1, SeqMonotonic
      <4> QED BY <4>1, StreamAssumption
    <3>6. ReadsFrom(t, n, x)
      BY <2>7, <3>4, <3>5 DEF ReadsFrom
    <3> QED BY <1>2, <2>8, <3>6 DEF t
  <2> QED BY <2>5, <2>11, <2>12, <2>13
<1> QED BY <1>1, <1>2

(* The recursion of ExtractAll. *)
Rounds(f, bytes, n) ==
  f = [i \in 0..n |-> IF i = 0 THEN [bytes |-> bytes, events |-> <<>>] ELSE Extract(f[i - 1])]

(* The parser has as many rounds as it needs.                              *)
LEMMA RoundsExist ==
  ASSUME NEW bytes
  PROVE  \A n \in Nat : \E f : Rounds(f, bytes, n)
<1> DEFINE T == {n \in Nat : \E f : Rounds(f, bytes, n)}
           start == [bytes |-> bytes, events |-> <<>>]
<1>1. 0 \in T
  <2> DEFINE f == [i \in 0..0 |-> start]
  <2>1. Rounds(f, bytes, 0)
    BY DEF Rounds
  <2> QED BY <2>1
<1>2. ASSUME NEW n \in T PROVE n + 1 \in T
  <2>1. PICK f : Rounds(f, bytes, n)
    OBVIOUS
  <2> DEFINE next == Extract(f[n])
  <2>0. next = Extract(f[n])
    OBVIOUS
  <2> HIDE DEF next
  <2> DEFINE g == [i \in 0..(n + 1) |-> IF i = n + 1 THEN next ELSE f[i]]
  <2>2. g[n + 1] = next /\ \A i \in 0..n : g[i] = f[i]
    OBVIOUS
  <2>3. ASSUME NEW i \in 0..(n + 1)
        PROVE  g[i] = IF i = 0 THEN start ELSE Extract(g[i - 1])
    <3>1. CASE i = n + 1
      <4>1. i # 0 /\ i - 1 = n /\ g[n] = f[n]
        BY <2>2, <3>1
      <4> QED BY <2>0, <2>2, <3>1, <4>1
    <3>2. CASE i # n + 1
      <4>1. i \in 0..n /\ (i # 0 => i - 1 \in 0..n)
        BY <3>2
      <4>2. f[i] = IF i = 0 THEN start ELSE Extract(f[i - 1])
        BY <2>1, <4>1 DEF Rounds
      <4> QED BY <2>2, <4>1, <4>2
    <3> QED BY <3>1, <3>2
  <2>4. Rounds(g, bytes, n + 1)
    BY <2>3 DEF Rounds
  <2> HIDE DEF g
  <2> QED BY <2>4
<1> HIDE DEF T
<1>3. T = Nat
  BY <1>1, <1>2, Induction DEF T
<1> QED BY <1>3 DEF T

(* All rounds together read what there is to read. *)
LEMMA AllIsRead ==
  ASSUME answer \in Answers, ends \in LineEnds, NEW n \in 0..Len(answer), NEW x, NEW bytes,
         Left(bytes, n, x)
  PROVE  ReadsFrom(ExtractAll(bytes), n, x) /\ Stopped(ExtractAll(bytes))
<1> DEFINE last == Len(bytes)
<1>1. last \in Nat /\ n \in Nat /\ Len(answer) \in Nat
  <2>1. bytes \in Seq(Symbols) /\ n \in Nat /\ Len(answer) \in Nat
    BY LeftBegins
  <2> QED BY <2>1
<1>2. PICK f : Rounds(f, bytes, last) /\ ExtractAll(bytes) = f[last]
  <2>1. \E f : Rounds(f, bytes, last)
    BY <1>1, RoundsExist
  <2> QED BY <2>1, Zenon DEF ExtractAll, Rounds
<1> DEFINE P(i) == /\ ReadsFrom(f[i], n, x)
                   /\ Stopped(f[i]) \/ (Len(f[i].bytes) \in Nat /\ Len(f[i].bytes) <= last - i)
           T == {i \in Nat : i <= last => P(i)}
<1>3. 0 \in T
  <2>1. f[0].bytes = bytes /\ f[0].events = <<>>
    <3>1. 0 \in 0..last
      BY <1>1
    <3>2. f[0] = [bytes |-> bytes, events |-> <<>>]
      BY <1>2, <3>1 DEF Rounds
    <3> QED BY <3>2
  <2>2. /\ Chosen(answer, <<>>) = <<>> /\ ChoicesOf(n) \in Seq(ChoicesIn(answer))
        /\ ChoicesOf(n) \o Chosen(answer, <<>>) = ChoicesOf(n)
    <3>1. Chosen(answer, <<>>) = <<>>
      BY GatheredEmpty DEF Chosen
    <3>2. ChoicesOf(n) \in Seq(ChoicesIn(answer))
      BY ChoicesAreChosen
    <3> QED BY <3>1, <3>2, ConcatEmptySeq
  <2>3. /\ <<>> \in Seq(DOMAIN answer) /\ DoneIsLast(<<>>) /\ n \in n..Len(answer)
        /\ ~(n > n) /\ <<>> # Malformed /\ ~DoneLast(<<>>)
    <3>1. <<>> \in Seq(DOMAIN answer) /\ <<>> \in Seq(Nat)
      OBVIOUS
    <3>2. <<>> # Malformed
      BY <3>1, StreamAssumption
    <3> QED BY <1>1, <3>1, <3>2 DEF DoneIsLast, DoneLast
  <2>4. ReadsTo(f[0], n, n, x)
    BY <2>1, <2>2, <2>3 DEF ReadsTo
  <2>5. ReadsFrom(f[0], n, x)
    BY <2>1, <2>3, <2>4 DEF ReadsFrom
  <2> QED BY <1>1, <2>1, <2>5
<1>4. ASSUME NEW i \in T PROVE i + 1 \in T
  <2> SUFFICES ASSUME i + 1 <= last PROVE P(i + 1)
    OBVIOUS
  <2>1. f[i + 1] = Extract(f[i]) /\ i \in Nat /\ P(i)
    <3>1. i + 1 \in 0..last /\ i + 1 # 0 /\ (i + 1) - 1 = i /\ i <= last
      BY <1>1
    <3> QED BY <1>2, <3>1 DEF Rounds
  <2>2. /\ ReadsFrom(Extract(f[i]), n, x)
        /\ Stopped(f[i]) => Extract(f[i]) = f[i]
        /\ ~Stopped(f[i]) => Len(f[i].bytes) \in Nat /\ Len(Extract(f[i]).bytes) \in Nat
                             /\ Len(Extract(f[i]).bytes) < Len(f[i].bytes)
    BY <2>1, RoundReadsOn
  <2>3. CASE Stopped(f[i])
    BY <2>1, <2>2, <2>3
  <2>4. CASE ~Stopped(f[i])
    <3>1. /\ Len(f[i].bytes) \in Nat /\ Len(f[i + 1].bytes) \in Nat
          /\ Len(f[i + 1].bytes) < Len(f[i].bytes) /\ Len(f[i].bytes) <= last - i
      BY <2>1, <2>2, <2>4
    <3>2. Len(f[i + 1].bytes) <= last - (i + 1)
      BY <1>1, <2>1, <3>1
    <3> QED BY <2>1, <2>2, <3>1, <3>2
  <2> QED BY <2>3, <2>4
<1>5. T = Nat
  <2>1. T \in SUBSET Nat
    OBVIOUS
  <2> HIDE DEF T
  <2> QED BY <1>3, <1>4, <2>1, Induction
<1>6. P(last)
  <2>1. last \in T
    BY <1>1, <1>5
  <2> HIDE DEF P
  <2> QED BY <1>1, <2>1
<1>7. Stopped(f[last])
  <2> DEFINE b == f[last].bytes
  <2> SUFFICES ASSUME f[last].events # Malformed, Len(b) \in Nat, Len(b) <= last - last
               PROVE  Boundaries(b) = {}
    BY <1>6 DEF Stopped
  <2>1. PICK m \in n..Len(answer) : ReadsTo(f[last], n, m, x)
    BY <1>6 DEF ReadsFrom
  <2>2. b \in Seq(Symbols)
    BY <2>1, LeftBegins DEF ReadsTo
  <2> HIDE DEF b
  <2>3. Len(b) = 0
    BY <1>1
  <2>4. b = <<>>
    BY <2>2, <2>3
  <2> QED BY <2>2, <2>4 DEF Boundaries
<1> QED BY <1>2, <1>6, <1>7
-----------------------------------------------------------------------------
(* The stream, step by step. *)

(* What blocks say does not change as long as the answer does not.         *)
LEMMA AnswerSame ==
  ASSUME answer' = answer, ends' = ends, NEW n
  PROVE  /\ ChoicesOf(n)' = ChoicesOf(n) /\ Meaning(n)' = Meaning(n) /\ Wire(n)' = Wire(n)
         /\ Texts(n)' = Texts(n)
         /\ CanBeRead(n)' = CanBeRead(n) /\ IsDone(n)' = IsDone(n)
         /\ IsWellFormed(n)' = IsWellFormed(n)
<1>1. ChoicesOf(n)' = ChoicesOf(n)
  BY DEF ChoicesOf
<1>2. PiecesOf(n)' = PiecesOf(n) /\ Texts(n)' = Texts(n) /\ Thoughts(n)' = Thoughts(n)
  BY <1>1 DEF PiecesOf, Texts, Thoughts
<1>3. CallNumbers(n)' = CallNumbers(n)
  BY <1>2 DEF CallNumbers
<1>4. ASSUME NEW k PROVE Pieces(n, k)' = Pieces(n, k)
  BY <1>2 DEF Pieces
<1>5. ASSUME NEW k, NEW f PROVE Said(n, k, f)' = Said(n, k, f)
  BY <1>4 DEF Said
<1>6. IsDone(n)' = IsDone(n)
  BY DEF IsDone
<1>7. CanBeRead(n)' = CanBeRead(n)
  BY DEF CanBeRead
<1>8. IsWellFormed(n)' = IsWellFormed(n)
  <2> DEFINE One(k, f) == \E said \in Said(n, k, f) \ {""} : Said(n, k, f) = {said}
             All(k) == \A f \in {"id", "kind", "name"} : One(k, f)
             each == \A k \in CallNumbers(n) : All(k)
  <2>1. ASSUME NEW k, NEW f PROVE One(k, f)' = One(k, f)
    BY <1>5
  <2> HIDE DEF One
  <2>2. ASSUME NEW k PROVE All(k)' = All(k)
    BY <2>1, Zenon
  <2> HIDE DEF All
  <2>3. each' = each
    <3>1. each => each'
      BY <1>3, <2>2
    <3>2. each' => each
      BY <1>3, <2>2
    <3> QED BY <3>1, <3>2
  <2>4. (IsWellFormed(n) <=> CanBeRead(n) /\ each) /\ (IsWellFormed(n) <=> CanBeRead(n) /\ each)'
    BY DEF IsWellFormed, CanBeRead, All, One
  <2> HIDE DEF each
  <2>5. IsWellFormed(n) \in BOOLEAN /\ (IsWellFormed(n) \in BOOLEAN)'
    BY DEF IsWellFormed
  <2> QED BY <1>7, <2>3, <2>4, <2>5
<1>9. Meaning(n)' = Meaning(n)
  BY <1>2, <1>3, <1>4, <1>5 DEF Meaning
<1> QED BY <1>1, <1>2, <1>6, <1>7, <1>8, <1>9, WireSame

(* The parser has read the blocks up to m; r holds the choices of those    *)
(* that were asked for, and events is what was not.                        *)
Hearing(m, bytes, events, x, r) ==
  /\ Left(bytes, m, x) /\ events \in Seq(DOMAIN answer)
  /\ \E cs \in Seq(ChoicesIn(answer)) : /\ cs \o Chosen(answer, events) = ChoicesOf(m)
                                        /\ r = TakeChoices(NoResponse, cs)
  /\ CanBeRead(m) /\ ~IsBroken(r.calls)
  /\ DoneIsLast(events) /\ (DoneLast(events) <=> m > 0 /\ IsDone(m))
  /\ Boundaries(bytes) = {} \/ DoneLast(events)

HeardUpTo(m) == Hearing(m, buffer, pending, arrived, response)

(* The answer ends with block n. *)
EndsAt(n) ==
  /\ (n > 0 /\ IsDone(n)) \/ arrived = Len(Wire(n))
  /\ CanBeRead(n) /\ response = TakenOf(n) /\ ~IsBroken(response.calls)

NothingCame == arrived = 0 /\ buffer = <<>> /\ pending = <<>> /\ response = NoResponse

(* What is shown is the beginning of what the answer says. *)
Shown == response = NoResponse \/ FramingIsInvisible

AnswerInv ==
  /\ answer \in Answers /\ ends \in LineEnds
  /\ streamPc \in {"waiting", "sending"} => NothingCame
  /\ streamPc = "open" => \E m \in 0..Len(answer) : HeardUpTo(m)
  /\ streamPc = "ending" => \E n \in 0..Len(answer) : EndsAt(n)
  /\ streamPc # "ended" => outcome = "none"
  /\ Shown /\ CompletedIsTheAnswer
  /\ EndsAreClean => FailuresHaveCauses

(* What was heard stays so. *)
LEMMA HearingStays ==
  ASSUME answer' = answer, ends' = ends, NEW m \in 0..Len(answer),
         NEW b, NEW p, NEW x, NEW r, Hearing(m, b, p, x, r),
         buffer' = b, pending' = p, arrived' = x, response' = r
  PROVE  (\E k \in 0..Len(answer) : HeardUpTo(k))'
<1>1. /\ ChoicesOf(m)' = ChoicesOf(m) /\ Wire(m)' = Wire(m)
      /\ CanBeRead(m)' = CanBeRead(m) /\ IsDone(m)' = IsDone(m)
  BY AnswerSame
<1>2. Wire(Len(answer))' = Wire(Len(answer))
  <2> DEFINE j == Len(answer)
  <2> QED BY WireSame
<1>3. Left(buffer, m, arrived)'
  BY <1>1, <1>2 DEF Hearing, Left
<1>4. (\E cs \in Seq(ChoicesIn(answer)) : /\ cs \o Chosen(answer, pending) = ChoicesOf(m)
                                          /\ response = TakeChoices(NoResponse, cs))'
  BY <1>1 DEF Hearing
<1>5. DoneIsLast(pending)' /\ (DoneLast(pending)' <=> DoneLast(p))
  BY DEF Hearing, DoneIsLast, DoneLast, IsDone
<1>6. HeardUpTo(m)'
  BY <1>1, <1>3, <1>4, <1>5 DEF HeardUpTo, Hearing
<1> QED BY <1>6

(* What is shown is the beginning of what the answer says. *)
LEMMA TakenIsShown ==
  ASSUME answer \in Answers, NEW s \in Seq(ChoicesIn(answer)), NEW u \in Seq(ChoicesIn(answer)),
         ChoicesOf(Len(answer)) = s \o u
  PROVE  IsPrefix(TakeChoices(NoResponse, s).content, Texts(Len(answer)))
<1> DEFINE C == ChoicesIn(answer)
           W == Phrases(answer)
           x == TakeChoices(NoResponse, s).content
           t == Texts(Len(answer))
<1>1. AreChoices(C, W, PiecesIn(answer)) /\ ArePieces(PiecesIn(answer), ArgumentWords(answer))
      /\ Malformed # NoValue /\ s \in Seq(C) /\ u \in Seq(C)
  BY AnswersSpeak
<1> HIDE DEF C, W
<1>2. x \in Seq(W) /\ \E v \in Seq(W) : x \o v = ContentsIn(s)
  BY <1>1, HeardIsShown
<1>3. /\ ContentsIn(u) \in Seq(W) /\ t = ContentsIn(s) \o ContentsIn(u)
  <2>1. ContentsIn(s \o u) = ContentsIn(s) \o ContentsIn(u) /\ ContentsIn(u) \in Seq(W)
    BY <1>1, SayConcat
  <2> QED BY <2>1, SaidIs
<1>4. PICK v \in Seq(W) : x \o v = ContentsIn(s)
  BY <1>2
<1> DEFINE y == ContentsIn(u)
<1> HIDE DEF x, t, y
<1>5. v \o y \in Seq(W) /\ t = x \o (v \o y)
  <2>1. y \in Seq(W) /\ t = (x \o v) \o y
    BY <1>3, <1>4 DEF y
  <2>2. (x \o v) \o y = x \o (v \o y) /\ v \o y \in Seq(W)
    <3>1. \A p, q, r \in Seq(W) : (p \o q) \o r = p \o (q \o r) /\ q \o r \in Seq(W)
      BY Regroup, Zenon
    <3> QED BY <1>2, <2>1, <3>1, Zenon
  <2> QED BY <2>1, <2>2
<1>6. IsPrefix(x, t)
  BY <1>2, <1>5, PrefixOfConcat
<1> QED BY <1>6 DEF x, t

(* Before the first choice nothing is shown. *)
LEMMA FramingHolds ==
  ASSUME answer \in Answers, Shown
  PROVE  FramingIsInvisible
<1>1. CASE response = NoResponse
  <2> DEFINE C == ChoicesIn(answer)
             u == ChoicesOf(Len(answer))
  <2>1. u \in Seq(C)
    <3>1. Len(answer) \in 0..Len(answer)
      BY AnswersAre
    <3> QED BY <3>1, ChoicesAreChosen
  <2>2. <<>> \in Seq(C) /\ <<>> \o u = u
    <3> HIDE DEF C, u
    <3>1. <<>> \in Seq(C)
      OBVIOUS
    <3> QED BY <2>1, <3>1, ConcatEmptySeq
  <2>3. IsPrefix(TakeChoices(NoResponse, <<>>).content, Texts(Len(answer)))
    BY <2>1, <2>2, TakenIsShown
  <2>4. TakeChoices(NoResponse, <<>>) = NoResponse
    BY NothingTaken
  <2> QED BY <1>1, <2>3, <2>4 DEF FramingIsInvisible
<1> QED BY <1>1 DEF Shown

(* Nothing more is shown. *)
LEMMA ShownStays ==
  ASSUME answer \in Answers, Shown, answer' = answer, ends' = ends,
         response'.content = response.content
  PROVE  Shown'
<1>1. FramingIsInvisible
  BY FramingHolds
<1>2. (Texts(Len(answer)))' = Texts(Len(answer))
  <2> DEFINE j == Len(answer)
  <2> QED BY AnswerSame
<1> QED BY <1>1, <1>2 DEF Shown, FramingIsInvisible

(* An end that says nothing of the provider. *)
LEMMA AnswerEnds ==
  ASSUME AnswerInv, answer' = answer, ends' = ends, streamPc' = "ended", Shown',
         outcome' \notin {"completed", "fatal", "transient"}
  PROVE  AnswerInv'
BY DEF AnswerInv, CompletedIsTheAnswer, FailuresHaveCauses

(* An error that has a cause. *)
LEMMA FatalEnds ==
  ASSUME AnswerInv, answer' = answer, ends' = ends, streamPc' = "ended", Shown',
         outcome' = "fatal",
         EndsAreClean => \/ refused' \/ ~IsWellFormed(Len(answer))
                         \/ \E n \in 1..Len(answer) - 1 : arrived' = Len(Wire(n)) /\ ~IsWellFormed(n)
  PROVE  AnswerInv'
<1>1. CompletedIsTheAnswer'
  BY DEF CompletedIsTheAnswer
<1>2. (IsWellFormed(Len(answer)))' = IsWellFormed(Len(answer))
  <2> DEFINE j == Len(answer)
  <2> QED BY AnswerSame
<1>3. ASSUME NEW n PROVE Wire(n)' = Wire(n) /\ IsWellFormed(n)' = IsWellFormed(n)
  BY AnswerSame
<1>4. EndsAreClean => FailuresHaveCauses'
  BY <1>2, <1>3 DEF FailuresHaveCauses
<1>5. answer' \in Answers /\ ends' \in LineEnds
  BY DEF AnswerInv
<1> QED BY <1>1, <1>4, <1>5 DEF AnswerInv

(* The connection is lost before [DONE] has arrived. *)
LEMMA TransientEnds ==
  ASSUME AnswerInv, answer' = answer, ends' = ends, streamPc' = "ended", Shown',
         outcome' = "transient",
         arrived' = arrived,
         ~\E n \in DOMAIN answer : IsDone(n) /\ arrived >= Len(Wire(n))
  PROVE  AnswerInv'
<1>1. CompletedIsTheAnswer'
  BY DEF CompletedIsTheAnswer
<1>2. ASSUME NEW n PROVE Wire(n)' = Wire(n) /\ IsDone(n)' = IsDone(n)
  BY AnswerSame
<1>3. FailuresHaveCauses'
  BY <1>2 DEF FailuresHaveCauses
<1>4. answer' \in Answers /\ ends' \in LineEnds
  BY DEF AnswerInv
<1> QED BY <1>1, <1>3, <1>4 DEF AnswerInv

(* A response has all its parts.                                           *)
LEMMA TakenKeys ==
  ASSUME NEW C
  PROVE  \A cs \in Seq(C) :
           {"content", "reasoning", "calls"} \subseteq DOMAIN TakeChoices(NoResponse, cs)
<1> DEFINE K(r) == {"content", "reasoning", "calls"} \subseteq DOMAIN r
           T == {s \in Seq(C) : K(TakeChoices(NoResponse, s))}
<1>1. TakeChoices(NoResponse, <<>>) = NoResponse
  BY NothingTaken
<1>2. <<>> \in T
  <2>1. K(NoResponse)
    BY DEF NoResponse
  <2> QED BY <1>1, <2>1
<1>3. \A r, c : K(r) => K(TakeChoice(r, c))
  BY DEF TakeChoice
<1>4. ASSUME NEW s \in T, NEW c \in C PROVE Append(s, c) \in T
  <2>1. /\ s \in Seq(C) /\ Append(s, c) \in Seq(C) /\ K(TakeChoices(NoResponse, s))
    OBVIOUS
  <2>2. TakeChoices(NoResponse, Append(s, c)) = TakeChoice(TakeChoices(NoResponse, s), c)
    BY <2>1, TakeChoicesNext
  <2> HIDE DEF K
  <2> QED BY <1>3, <2>1, <2>2
<1>5. T = Seq(C)
  <2>1. T \in SUBSET Seq(C)
    OBVIOUS
  <2> HIDE DEF T
  <2> QED BY <1>2, <1>4, <2>1, SeqInduction
<1> QED BY <1>5

(* Before the first byte nothing was heard. *)
LEMMA NothingHeard ==
  ASSUME answer \in Answers, ends \in LineEnds
  PROVE  /\ 0 \in 0..Len(answer) /\ Hearing(0, <<>>, <<>>, 0, NoResponse)
         /\ TakenOf(0) = NoResponse /\ IsFinished(TakenOf(0).calls)
<1>1. 0 \in 0..Len(answer) /\ Left(<<>>, 0, 0)
  BY NothingRead
<1>2. TakeChoices(NoResponse, <<>>) = NoResponse
  BY NothingTaken
<1>3. ChoicesOf(0) = <<>>
  <2>1. [m \in 1..0 |-> answer[m].choices] = <<>>
    OBVIOUS
  <2> QED BY <2>1, FlatEmpty DEF ChoicesOf
<1>4. Chosen(answer, <<>>) = <<>> /\ <<>> \in Seq(ChoicesIn(answer)) /\ <<>> \in Seq(DOMAIN answer)
      /\ <<>> \o <<>> = <<>>
  <2>1. Chosen(answer, <<>>) = <<>>
    BY GatheredEmpty DEF Chosen
  <2>2. <<>> \in Seq(ChoicesIn(answer)) /\ <<>> \in Seq(DOMAIN answer) /\ <<>> \o <<>> = <<>>
    OBVIOUS
  <2> QED BY <2>1, <2>2
<1>5. \E cs \in Seq(ChoicesIn(answer)) : /\ cs \o Chosen(answer, <<>>) = ChoicesOf(0)
                                         /\ NoResponse = TakeChoices(NoResponse, cs)
  BY <1>2, <1>3, <1>4
<1>6. /\ NoResponse.calls = <<>> /\ ~IsBroken(<<>>) /\ IsFinished(<<>>)
  BY DEF NoResponse, IsBroken, IsFinished
<1>7. CanBeRead(0) /\ DoneIsLast(<<>>) /\ ~DoneLast(<<>>) /\ Boundaries(<<>>) = {}
  BY DEF CanBeRead, DoneIsLast, DoneLast, Boundaries
<1>8. Hearing(0, <<>>, <<>>, 0, NoResponse)
  BY <1>1, <1>4, <1>5, <1>6, <1>7 DEF Hearing
<1> QED BY <1>1, <1>2, <1>3, <1>6, <1>8 DEF TakenOf

(* When no event waits, everything was heard. *)
LEMMA AllHeard ==
  ASSUME answer \in Answers, ends \in LineEnds, NEW m \in 0..Len(answer),
         HeardUpTo(m), pending = <<>>
  PROVE  /\ response = TakenOf(m) /\ CanBeRead(m) /\ ~IsBroken(response.calls)
         /\ Boundaries(buffer) = {} /\ ~(m > 0 /\ IsDone(m))
         /\ ~\E n \in DOMAIN answer : IsDone(n) /\ arrived >= Len(Wire(n))
         /\ ~IsIncomplete(buffer) => arrived = Len(Wire(m))
<1>1. /\ Left(buffer, m, arrived) /\ CanBeRead(m) /\ ~IsBroken(response.calls)
      /\ Boundaries(buffer) = {} /\ ~(m > 0 /\ IsDone(m))
  BY DEF HeardUpTo, Hearing, DoneLast
<1>2. response = TakenOf(m)
  <2>1. PICK cs \in Seq(ChoicesIn(answer)) : /\ cs \o Chosen(answer, <<>>) = ChoicesOf(m)
                                             /\ response = TakeChoices(NoResponse, cs)
    BY DEF HeardUpTo, Hearing
  <2>2. Chosen(answer, <<>>) = <<>> /\ cs \o <<>> = cs
    <3>1. Chosen(answer, <<>>) = <<>>
      BY GatheredEmpty DEF Chosen
    <3> QED BY <3>1, ConcatEmptySeq
  <2> QED BY <2>1, <2>2 DEF TakenOf
<1>3. /\ m \in Nat /\ arrived \in Nat /\ Len(answer) \in Nat /\ m <= Len(answer)
      /\ buffer \in Seq(Symbols) /\ Len(buffer) = arrived - Len(Wire(m)) /\ Len(Wire(m)) \in Nat
      /\ m < Len(answer) /\ Len(Wire(m + 1)) <= arrived => Boundaries(buffer) # {}
      /\ buffer # <<>> => IsIncomplete(buffer)
  BY <1>1, LeftBegins
<1>4. ASSUME NEW n \in DOMAIN answer, IsDone(n), arrived >= Len(Wire(n)) PROVE FALSE
  <2>1. n = Len(answer) /\ n \in Nat /\ n > 0
    <3>1. n \in 1..Len(answer)
      BY AnswersAre
    <3>2. n = Len(answer)
      BY <1>4, StreamAssumption DEF IsDone
    <3> QED BY <1>3, <3>1, <3>2
  <2>2. m < Len(answer)
    <3>1. m # n
      BY <1>1, <1>4, <2>1
    <3> QED BY <1>3, <2>1, <3>1
  <2>3. m + 1 \in Nat /\ m + 1 <= n
    BY <1>3, <2>1, <2>2
  <2>4. Len(Wire(m + 1)) <= Len(Wire(n)) /\ Len(Wire(m + 1)) \in Nat /\ Len(Wire(n)) \in Nat
    <3>1. Len(Wire(m + 1)) <= Len(Wire(n))
      BY <2>1, <2>3, WirePrefix
    <3>2. Wire(m + 1) \in Seq(Symbols) /\ Wire(n) \in Seq(Symbols)
      BY <2>1, <2>3, WireGrows
    <3> QED BY <3>1, <3>2
  <2>5. Len(Wire(m + 1)) <= arrived
    BY <1>3, <1>4, <2>4
  <2> QED BY <1>1, <1>3, <2>2, <2>5
<1>5. ASSUME ~IsIncomplete(buffer) PROVE arrived = Len(Wire(m))
  <2>1. buffer = <<>>
    BY <1>3, <1>5
  <2>2. Len(buffer) = 0
    BY <2>1
  <2> QED BY <1>3, <2>2
<1> QED BY <1>1, <1>2, <1>4, <1>5

(* Before the request. *)
LEMMA InitAnswerInv == StreamInit => AnswerInv
<1> SUFFICES ASSUME StreamInit PROVE AnswerInv
  OBVIOUS
<1>1. answer \in Answers /\ ends \in LineEnds
  BY StreamAssumption DEF StreamInit
<1>2. /\ streamPc = "waiting" /\ outcome = "none" /\ NothingCame
  BY DEF StreamInit, NothingCame
<1>3. CompletedIsTheAnswer /\ FailuresHaveCauses
  BY <1>2 DEF CompletedIsTheAnswer, FailuresHaveCauses
<1> QED BY <1>1, <1>2, <1>3 DEF AnswerInv, Shown, NothingCame

(* A step that leaves the stream alone. *)
LEMMA AnswerStays == AnswerInv /\ UNCHANGED streamVars => AnswerInv'
<1> SUFFICES ASSUME AnswerInv, UNCHANGED streamVars PROVE AnswerInv'
  OBVIOUS
<1>1. /\ answer' = answer /\ ends' = ends /\ streamPc' = streamPc /\ outcome' = outcome
      /\ arrived' = arrived /\ buffer' = buffer /\ pending' = pending /\ response' = response
      /\ refused' = refused /\ answer \in Answers /\ ends \in LineEnds
  BY DEF streamVars, wireVars, AnswerInv
<1>2. NothingCame => NothingCame'
  BY <1>1 DEF NothingCame
<1>3. (\E m \in 0..Len(answer) : HeardUpTo(m)) => (\E m \in 0..Len(answer) : HeardUpTo(m))'
  <2> SUFFICES ASSUME NEW m \in 0..Len(answer), HeardUpTo(m)
               PROVE  (\E k \in 0..Len(answer) : HeardUpTo(k))'
    OBVIOUS
  <2>1. Hearing(m, buffer, pending, arrived, response)
    BY DEF HeardUpTo
  <2> QED BY <1>1, <2>1, HearingStays
<1>4. ASSUME NEW n
      PROVE  /\ Wire(n)' = Wire(n) /\ IsDone(n)' = IsDone(n) /\ CanBeRead(n)' = CanBeRead(n)
             /\ ChoicesOf(n)' = ChoicesOf(n) /\ Meaning(n)' = Meaning(n)
             /\ IsWellFormed(n)' = IsWellFormed(n)
  BY <1>1, AnswerSame
<1>5. ASSUME NEW n PROVE EndsAt(n) => EndsAt(n)'
  <2>1. TakenOf(n)' = TakenOf(n)
    BY <1>4 DEF TakenOf
  <2> QED BY <1>1, <1>4, <2>1 DEF EndsAt
<1>6. CompletedIsTheAnswer => CompletedIsTheAnswer'
  BY <1>1, <1>4 DEF CompletedIsTheAnswer
<1>7. FailuresHaveCauses => FailuresHaveCauses'
  <2>1. (IsWellFormed(Len(answer)))' = IsWellFormed(Len(answer))
    <3> DEFINE j == Len(answer)
    <3> QED BY <1>1, AnswerSame
  <2> QED BY <1>1, <1>4, <2>1 DEF FailuresHaveCauses
<1>8. (\E n \in 0..Len(answer) : EndsAt(n)) => (\E n \in 0..Len(answer) : EndsAt(n))'
  BY <1>1, <1>5
<1>9. Shown'
  BY <1>1, ShownStays DEF AnswerInv
<1> QED BY <1>1, <1>2, <1>3, <1>6, <1>7, <1>8, <1>9 DEF AnswerInv

(* The request. *)
LEMMA AnswerBegins == AnswerInv /\ BeginSend => AnswerInv'
<1> SUFFICES ASSUME AnswerInv, BeginSend PROVE AnswerInv'
  OBVIOUS
<1>1. /\ NothingCame /\ answer' \in Answers /\ ends' \in LineEnds
      /\ UNCHANGED <<arrived, buffer, pending, response>>
      /\ outcome = "none"
      /\ \/ streamPc' = "sending" /\ outcome' = outcome
         \/ streamPc' = "ended" /\ outcome' = "canceled"
  BY DEF AnswerInv, BeginSend, Fails
<1>2. NothingCame'
  BY <1>1 DEF NothingCame
<1>3. CompletedIsTheAnswer' /\ FailuresHaveCauses'
  BY <1>1 DEF CompletedIsTheAnswer, FailuresHaveCauses
<1>4. Shown'
  BY <1>2 DEF Shown, NothingCame
<1> QED BY <1>1, <1>2, <1>3, <1>4 DEF AnswerInv

(* The headers of the answer. *)
LEMMA AnswerOpens == AnswerInv /\ SendSucceeds => AnswerInv'
<1> SUFFICES ASSUME AnswerInv, SendSucceeds PROVE AnswerInv'
  OBVIOUS
<1>1. /\ NothingCame /\ answer' = answer /\ ends' = ends /\ answer \in Answers /\ ends \in LineEnds
      /\ UNCHANGED <<arrived, buffer, pending, response>>
      /\ outcome = "none"
      /\ \/ streamPc' = "open" /\ outcome' = outcome
         \/ streamPc' = "ended" /\ outcome' = "canceled"
  BY DEF AnswerInv, SendSucceeds, Fails, wireVars
<1>1a. Shown'
  BY <1>1, ShownStays DEF AnswerInv
<1>2. CASE streamPc' = "ended"
  BY <1>1, <1>1a, <1>2, AnswerEnds
<1>3. CASE streamPc' = "open"
  <2>1. 0 \in 0..Len(answer) /\ Hearing(0, <<>>, <<>>, 0, NoResponse)
    BY <1>1, NothingHeard
  <2>2. buffer' = <<>> /\ pending' = <<>> /\ arrived' = 0 /\ response' = NoResponse
    BY <1>1 DEF NothingCame
  <2>3. (\E m \in 0..Len(answer) : HeardUpTo(m))'
    BY <1>1, <2>1, <2>2, HearingStays
  <2>4. CompletedIsTheAnswer' /\ FailuresHaveCauses'
    BY <1>1, <1>3 DEF CompletedIsTheAnswer, FailuresHaveCauses
  <2> QED BY <1>1, <1>1a, <1>3, <2>3, <2>4 DEF AnswerInv
<1> QED BY <1>1, <1>2, <1>3

(* A request that does not arrive is made again: nothing has come.         *)
LEMMA AnswerBreaks == AnswerInv /\ SendBreaks => AnswerInv'
<1> SUFFICES ASSUME AnswerInv, SendBreaks PROVE AnswerInv'
  OBVIOUS
<1>1. /\ NothingCame /\ answer' = answer /\ ends' = ends /\ answer \in Answers /\ ends \in LineEnds
      /\ UNCHANGED <<arrived, buffer, pending, response>>
      /\ outcome = "none" /\ streamPc = "sending"
      /\ \/ streamPc' = streamPc /\ outcome' = outcome
         \/ streamPc' = "ended" /\ outcome' \in {"canceled", "transient"}
  BY DEF AnswerInv, SendBreaks, Fails, wireVars
<1>1a. Shown'
  BY <1>1, ShownStays DEF AnswerInv
<1>2. CASE streamPc' = streamPc /\ outcome' = outcome
  <2>1. NothingCame'
    BY <1>1 DEF NothingCame
  <2>2. CompletedIsTheAnswer' /\ FailuresHaveCauses'
    BY <1>1, <1>2 DEF CompletedIsTheAnswer, FailuresHaveCauses
  <2> QED BY <1>1, <1>1a, <1>2, <2>1, <2>2 DEF AnswerInv
<1>3. CASE streamPc' = "ended" /\ outcome' = "canceled"
  BY <1>1, <1>1a, <1>3, AnswerEnds
<1>4. CASE streamPc' = "ended" /\ outcome' = "transient"
  <2>1. ASSUME NEW n \in DOMAIN answer, arrived >= Len(Wire(n)) PROVE FALSE
    <3>1. Left(<<>>, 0, 0) /\ arrived = 0
      BY <1>1, NothingRead DEF NothingCame
    <3>2. n \in 1..Len(answer) /\ Len(answer) \in Nat
      BY <1>1, AnswersAre
    <3>3. 0 < Len(answer) /\ n \in Nat /\ 1 <= n /\ 1 \in Nat /\ 0 + 1 = 1
      BY <3>2
    <3>4. Len(Wire(0)) < Len(Wire(1)) /\ Len(Wire(0)) \in Nat
      BY <1>1, <3>1, <3>3, LeftBegins
    <3>5. Len(Wire(1)) <= Len(Wire(n))
      BY <1>1, <3>3, WirePrefix
    <3>6. Len(Wire(1)) \in Nat /\ Len(Wire(n)) \in Nat
      <4>1. Wire(1) \in Seq(Symbols) /\ Wire(n) \in Seq(Symbols)
        BY <1>1, <3>3, WireGrows
      <4> QED BY <4>1
    <3> QED BY <2>1, <3>1, <3>4, <3>5, <3>6
  <2> QED BY <1>1, <1>1a, <1>4, <2>1, TransientEnds
<1> QED BY <1>1, <1>2, <1>3, <1>4

(* A piece comes behind what is left of those before it.                   *)
LEMMA PieceJoins ==
  ASSUME answer \in Answers, ends \in LineEnds, NEW m, Left(buffer, m, arrived),
         NEW n \in Nat, arrived + n <= Len(Wire(Len(answer)))
  PROVE  Left(buffer \o SubSeq(Wire(Len(answer)), arrived + 1, arrived + n), m, arrived + n)
<1> DEFINE w == Wire(Len(answer))
           v == Wire(m)
           x == Len(v)
           z == arrived + n
<1>1. /\ Len(answer) \in Nat /\ m \in 0..Len(answer) /\ m \in Nat /\ arrived \in Nat
      /\ x <= arrived /\ buffer = SubSeq(w, x + 1, arrived)
  BY AnswersAre DEF Left
<1>2. w \in Seq(Symbols) /\ v \in Seq(Symbols)
  BY <1>1, WireGrows
<1>3. x \in Nat
  BY <1>2
<1>4. z \in Nat /\ arrived <= z /\ z <= Len(w) /\ x <= z
  BY <1>1, <1>3
<1> HIDE DEF w, v, x, z
<1>5. SubSeq(w, x + 1, arrived) \o SubSeq(w, arrived + 1, z) = SubSeq(w, x + 1, z)
  <2> DEFINE y == arrived
  <2>1. /\ w \in Seq(Symbols) /\ x \in Nat /\ y \in Nat /\ z \in Nat
        /\ x <= y /\ y <= z /\ z <= Len(w)
    BY <1>1, <1>2, <1>3, <1>4
  <2> HIDE DEF y
  <2>2. SubSeq(w, x + 1, y) \o SubSeq(w, y + 1, z) = SubSeq(w, x + 1, z)
    BY <2>1, Adjacent
  <2> QED BY <2>2 DEF y
<1>6. buffer \o SubSeq(w, arrived + 1, z) = SubSeq(w, x + 1, z)
  BY <1>1, <1>5
<1> QED BY <1>1, <1>4, <1>6 DEF Left, w, v, x, z

(* A piece of the answer. *)
LEMMA AnswerReceives ==
  ASSUME AnswerInv, NEW n \in Nat, Receive(n)
  PROVE  AnswerInv'
<1> DEFINE piece  == SubSeq(Wire(Len(answer)), arrived + 1, arrived + n)
           pushed == PushBytes(piece)
<1>1. /\ streamPc = "open" /\ pending = <<>> /\ arrived + n <= Len(Wire(Len(answer)))
      /\ arrived' = arrived + n /\ answer' = answer /\ ends' = ends /\ response' = response
      /\ answer \in Answers /\ ends \in LineEnds /\ outcome = "none"
      /\ Len(answer) \in Nat
  BY AnswersAre DEF Receive, Awaits, AnswerInv, wireVars
<1>2. \/ pushed.events = Malformed /\ Fails("fatal")
      \/ /\ pushed.events # Malformed /\ buffer' = pushed.bytes /\ pending' = pushed.events
         /\ streamPc' = streamPc /\ outcome' = outcome
  BY DEF Receive
<1>2a. Shown'
  BY <1>1, ShownStays DEF AnswerInv
<1>3. PICK m \in 0..Len(answer) : HeardUpTo(m)
  BY <1>1 DEF AnswerInv
<1>4. /\ response = TakenOf(m) /\ CanBeRead(m) /\ ~IsBroken(response.calls)
      /\ ~(m > 0 /\ IsDone(m))
  BY <1>1, <1>3, AllHeard
<1>5. Left(buffer \o piece, m, arrived + n)
  <2>1. Left(buffer, m, arrived)
    BY <1>3 DEF HeardUpTo, Hearing
  <2> QED BY <1>1, <2>1, PieceJoins
<1>6. ReadsFrom(pushed, m, arrived + n) /\ Stopped(pushed)
  <2>1. pushed = ExtractAll(buffer \o piece)
    BY DEF PushBytes
  <2> HIDE DEF pushed, piece
  <2>2. /\ ReadsFrom(ExtractAll(buffer \o piece), m, arrived + n)
        /\ Stopped(ExtractAll(buffer \o piece))
    BY <1>1, <1>5, AllIsRead
  <2> QED BY <2>1, <2>2
<1> HIDE DEF pushed
<1>7. CASE pushed.events = Malformed
  <2>1. streamPc' = "ended" /\ outcome' \in {"canceled", "fatal"}
    BY <1>2, <1>7 DEF Fails
  <2>2. EndsAreClean => ~IsWellFormed(Len(answer))
    BY <1>6, <1>7 DEF ReadsFrom, CanBeRead, IsWellFormed
  <2>3. CASE outcome' = "canceled"
    BY <1>1, <1>2a, <2>1, <2>3, AnswerEnds
  <2>4. CASE outcome' = "fatal"
    BY <1>1, <1>2a, <2>1, <2>2, <2>4, FatalEnds
  <2> QED BY <2>1, <2>3, <2>4
<1>8. CASE pushed.events # Malformed
  <2>1. /\ buffer' = pushed.bytes /\ pending' = pushed.events /\ streamPc' = "open"
        /\ outcome' = "none"
    BY <1>1, <1>2, <1>8
  <2>2. PICK k \in m..Len(answer) : ReadsTo(pushed, m, k, arrived + n)
    BY <1>6, <1>8 DEF ReadsFrom
  <2>3. /\ k \in 0..Len(answer) /\ k \in Nat /\ m \in Nat /\ (k > m \/ k = m)
    BY <1>1, <2>2
  <2>4. DoneLast(pushed.events) <=> k > 0 /\ IsDone(k)
    BY <1>4, <2>2, <2>3 DEF ReadsTo
  <2>5. \E cs \in Seq(ChoicesIn(answer)) :
          /\ cs \o Chosen(answer, pushed.events) = ChoicesOf(k)
          /\ response = TakeChoices(NoResponse, cs)
    <3>1. ChoicesOf(m) \in Seq(ChoicesIn(answer))
      BY <1>1, ChoicesAreChosen
    <3> QED BY <1>4, <2>2, <3>1 DEF ReadsTo, TakenOf
  <2>6. Hearing(k, pushed.bytes, pushed.events, arrived + n, response)
    BY <1>4, <1>6, <1>8, <2>2, <2>4, <2>5 DEF Hearing, ReadsTo, Stopped
  <2>7. (\E i \in 0..Len(answer) : HeardUpTo(i))'
    BY <1>1, <2>1, <2>3, <2>6, HearingStays
  <2>8. CompletedIsTheAnswer' /\ FailuresHaveCauses'
    BY <2>1 DEF CompletedIsTheAnswer, FailuresHaveCauses
  <2> QED BY <1>1, <1>2a, <2>1, <2>7, <2>8 DEF AnswerInv
<1> QED BY <1>7, <1>8

(* The first event, and those behind it. *)
LEMMA FirstChosen ==
  ASSUME answer \in Answers, NEW s \in Seq(DOMAIN answer), s # <<>>, DoneIsLast(s)
  PROVE  /\ Head(s) \in DOMAIN answer /\ Tail(s) \in Seq(DOMAIN answer)
         /\ answer[Head(s)].choices \in Seq(ChoicesIn(answer))
         /\ Chosen(answer, Tail(s)) \in Seq(ChoicesIn(answer))
         /\ Chosen(answer, s) = answer[Head(s)].choices \o Chosen(answer, Tail(s))
         /\ DoneIsLast(Tail(s)) /\ (IsDone(Head(s)) => Tail(s) = <<>> /\ DoneLast(s))
         /\ ~IsDone(Head(s)) => (DoneLast(Tail(s)) <=> DoneLast(s))
<1> DEFINE D == DOMAIN answer
           C == ChoicesIn(answer)
           c == ChoiceLists(answer)
           h == Head(s)
           t == Tail(s)
           one == <<h>>
<1>1. Gives(c, D, C) /\ s \in Seq(D) /\ s # <<>>
  BY ChoicesAreChosen
<1>2. \A d \in D : c[d] = answer[d].choices
  BY DEF ChoiceLists
<1> HIDE DEF D, C, c
<1>3. /\ h \in D /\ t \in Seq(D) /\ s = one \o t /\ one \in Seq(D)
      /\ Len(t) = Len(s) - 1 /\ Len(s) \in Nat /\ Len(s) >= 1 /\ h = s[1]
      /\ DOMAIN t = 1..(Len(s) - 1) /\ DOMAIN s = 1..Len(s)
      /\ \A i \in 1..(Len(s) - 1) : t[i] = s[i + 1]
  BY <1>1
<1> HIDE DEF h, t, one
<1>4. Gathered(c, one \o t) = Gathered(c, one) \o Gathered(c, t)
  BY <1>1, <1>3, GatheredConcat
<1>5. Gathered(c, one) = c[h]
  BY <1>1, <1>3, GatheredOne DEF one
<1>6. Gathered(c, t) \in Seq(C) /\ c[h] \in Seq(C)
  <2>1. Gathered(c, t) \in Seq(C)
    BY <1>1, <1>3, GatheredIn
  <2>2. c[h] \in Seq(C)
    BY <1>1, <1>3 DEF Gives
  <2> QED BY <2>1, <2>2
<1>7. DoneIsLast(t)
  <2> SUFFICES ASSUME NEW i \in 1..(Len(s) - 1), IsDone(t[i]) PROVE i = Len(t)
    BY <1>3 DEF DoneIsLast
  <2>1. i + 1 \in DOMAIN s /\ IsDone(s[i + 1])
    BY <1>3
  <2>2. i + 1 = Len(s)
    BY <2>1 DEF DoneIsLast
  <2> QED BY <1>3, <2>2
<1>8. ASSUME IsDone(h) PROVE t = <<>> /\ DoneLast(s)
  <2>1. 1 \in DOMAIN s /\ IsDone(s[1])
    BY <1>3, <1>8
  <2>2. Len(s) = 1
    BY <2>1 DEF DoneIsLast
  <2>3. t = <<>>
    BY <1>3, <2>2
  <2>4. Last(s) = h
    BY <1>3, <2>2 DEF Last
  <2> QED BY <1>1, <1>8, <2>3, <2>4 DEF DoneLast
<1>9. ASSUME ~IsDone(h) PROVE DoneLast(t) <=> DoneLast(s)
  <2>1. CASE Len(s) = 1
    <3>1. t = <<>> /\ Last(s) = h
      BY <1>3, <2>1 DEF Last
    <3> QED BY <1>9, <3>1 DEF DoneLast
  <2>2. CASE Len(s) # 1
    <3>1. /\ t # <<>> /\ Len(s) - 1 \in 1..(Len(s) - 1) /\ (Len(s) - 1) + 1 = Len(s)
      BY <1>3, <2>2
    <3>2. Last(t) = Last(s)
      BY <1>3, <3>1 DEF Last
    <3> QED BY <1>1, <3>1, <3>2 DEF DoneLast
  <2> QED BY <2>1, <2>2
<1> QED BY <1>2, <1>3, <1>4, <1>5, <1>6, <1>7, <1>8, <1>9 DEF Chosen, D, C, c, h, t

(* The next event: its choices come behind those that were heard before.   *)
LEMMA AnswerTakes == AnswerInv /\ TakeEvent => AnswerInv'
<1> SUFFICES ASSUME AnswerInv, TakeEvent PROVE AnswerInv'
  OBVIOUS
<1> DEFINE h     == Head(pending)
           rest  == Tail(pending)
           said  == answer[h].choices
           heard == TakeChoices(response, said)
           C     == ChoicesIn(answer)
<1>1. /\ streamPc = "open" /\ pending # <<>> /\ pending' = rest /\ outcome = "none"
      /\ answer' = answer /\ ends' = ends /\ arrived' = arrived /\ buffer' = buffer
      /\ answer \in Answers /\ ends \in LineEnds /\ Len(answer) \in Nat
  BY AnswersAre DEF TakeEvent, AnswerInv, wireVars
<1>2. \/ streamPc' = "ended" /\ outcome' = "canceled" /\ response' = response
      \/ IsDone(h) /\ streamPc' = "ending" /\ outcome' = outcome /\ response' = response
      \/ IsBroken(heard.calls) /\ streamPc' = "ended" /\ outcome' = "fatal" /\ response' = heard
      \/ /\ ~IsDone(h) /\ ~IsBroken(heard.calls) /\ response' = heard
         /\ streamPc' = streamPc /\ outcome' = outcome
  <2> HIDE DEF heard
  <2> QED BY DEF TakeEvent, Fails, IsDone, heard
<1>3. PICK m \in 0..Len(answer) : Hearing(m, buffer, pending, arrived, response)
  BY <1>1 DEF AnswerInv, HeardUpTo
<1>4. PICK cs \in Seq(C) : /\ cs \o Chosen(answer, pending) = ChoicesOf(m)
                           /\ response = TakeChoices(NoResponse, cs)
  BY <1>3 DEF Hearing
<1>5. /\ Left(buffer, m, arrived) /\ pending \in Seq(DOMAIN answer) /\ CanBeRead(m)
      /\ DoneIsLast(pending) /\ (DoneLast(pending) <=> m > 0 /\ IsDone(m))
      /\ Boundaries(buffer) = {} \/ DoneLast(pending)
      /\ ~IsBroken(response.calls) /\ m \in Nat
  BY <1>1, <1>3 DEF Hearing
<1>6. /\ h \in DOMAIN answer /\ rest \in Seq(DOMAIN answer) /\ said \in Seq(C)
      /\ Chosen(answer, rest) \in Seq(C)
      /\ Chosen(answer, pending) = said \o Chosen(answer, rest)
      /\ DoneIsLast(rest) /\ (IsDone(h) => rest = <<>> /\ DoneLast(pending))
      /\ ~IsDone(h) => (DoneLast(rest) <=> DoneLast(pending))
  BY <1>1, <1>5, FirstChosen
<1>7. heard = TakeChoices(NoResponse, cs \o said)
  <2> HIDE DEF said, C
  <2>1. TakeChoices(NoResponse, cs \o said) = TakeChoices(TakeChoices(NoResponse, cs), said)
    BY <1>4, <1>6, TakesConcat
  <2> QED BY <1>4, <2>1
<1> DEFINE more == Chosen(answer, rest)
<1>8. cs \o said \in Seq(C) /\ (cs \o said) \o more = ChoicesOf(m)
  <2>1. more \in Seq(C) /\ said \in Seq(C) /\ cs \in Seq(C) /\ cs \o (said \o more) = ChoicesOf(m)
    BY <1>4, <1>6
  <2> HIDE DEF more, said, C
  <2>2. (cs \o said) \o more = cs \o (said \o more)
    <3>1. \A p, q, r \in Seq(C) : (p \o q) \o r = p \o (q \o r) /\ q \o r \in Seq(C)
      BY Regroup, Zenon
    <3> QED BY <2>1, <3>1, Zenon
  <2>3. cs \o said \in Seq(C)
    BY <2>1, ConcatProperties
  <2> QED BY <2>1, <2>2, <2>3
<1>8a. PICK u \in Seq(C) : ChoicesOf(Len(answer)) = ChoicesOf(m) \o u
  <2> DEFINE N == Len(answer)
  <2>1. N \in Nat /\ m <= N /\ N <= Len(answer)
    BY <1>1, <1>3
  <2> QED BY <1>1, <1>5, <2>1, ChoicesGrow
<1>8b. more \o u \in Seq(C) /\ ChoicesOf(Len(answer)) = (cs \o said) \o (more \o u)
  <2> DEFINE s == cs \o said
  <2>1. more \in Seq(C) /\ s \in Seq(C) /\ ChoicesOf(m) = s \o more
    BY <1>6, <1>8
  <2> HIDE DEF s, more, C
  <2>2. (s \o more) \o u = s \o (more \o u) /\ more \o u \in Seq(C)
    <3>1. \A p, q, r \in Seq(C) : (p \o q) \o r = p \o (q \o r) /\ q \o r \in Seq(C)
      BY Regroup, Zenon
    <3> QED BY <2>1, <3>1, Zenon
  <2> QED BY <1>8a, <2>1, <2>2 DEF s
<1>8c. response' \in {response, heard} => Shown'
  <2>1. response' = response => Shown'
    BY <1>1, ShownStays DEF AnswerInv
  <2>2. ASSUME response' = heard PROVE Shown'
    <3> DEFINE s == cs \o said
               v == more \o u
    <3>1. /\ s \in Seq(ChoicesIn(answer)) /\ v \in Seq(ChoicesIn(answer))
          /\ ChoicesOf(Len(answer)) = s \o v /\ heard = TakeChoices(NoResponse, s)
      BY <1>7, <1>8, <1>8b
    <3> HIDE DEF s, v, heard
    <3>2. IsPrefix(heard.content, Texts(Len(answer)))
      BY <1>1, <3>1, TakenIsShown
    <3>3. (Texts(Len(answer)))' = Texts(Len(answer))
      <4> DEFINE j == Len(answer)
      <4> QED BY <1>1, AnswerSame
    <3> QED BY <2>2, <3>2, <3>3 DEF Shown, FramingIsInvisible
  <2> QED BY <2>1, <2>2
<1>9. CASE streamPc' = "ended" /\ outcome' = "canceled" /\ response' = response
  BY <1>1, <1>8c, <1>9, AnswerEnds
<1>10. CASE IsDone(h) /\ streamPc' = "ending" /\ outcome' = outcome /\ response' = response
  <2>1. rest = <<>> /\ m > 0 /\ IsDone(m)
    BY <1>5, <1>6, <1>10
  <2>2. response = TakenOf(m)
    <3>1. said = <<>>
      BY <1>1, <1>6, <1>10, StreamAssumption DEF IsDone
    <3>2. more = <<>>
      <4>1. more = Chosen(answer, <<>>)
        BY <2>1
      <4> HIDE DEF more
      <4> QED BY <4>1, GatheredEmpty DEF Chosen
    <3>3. cs \o Chosen(answer, pending) = ChoicesOf(m) /\ Chosen(answer, pending) = <<>> \o <<>>
      BY <1>4, <1>6, <3>1, <3>2
    <3>4. cs \o <<>> = cs /\ <<>> \o <<>> = <<>>
      <4>1. cs \o <<>> = cs
        BY <1>4, ConcatEmptySeq
      <4> QED BY <4>1
    <3> QED BY <1>4, <3>3, <3>4 DEF TakenOf
  <2>3. EndsAt(m)
    BY <1>5, <2>1, <2>2 DEF EndsAt
  <2>4. EndsAt(m)'
    <3>1. /\ Wire(m)' = Wire(m) /\ IsDone(m)' = IsDone(m) /\ CanBeRead(m)' = CanBeRead(m)
          /\ ChoicesOf(m)' = ChoicesOf(m)
      BY <1>1, AnswerSame
    <3>2. TakenOf(m)' = TakenOf(m)
      BY <3>1 DEF TakenOf
    <3> QED BY <1>1, <1>10, <2>3, <3>1, <3>2 DEF EndsAt
  <2>5. (\E n \in 0..Len(answer) : EndsAt(n))'
    BY <1>1, <1>3, <2>4
  <2>6. CompletedIsTheAnswer' /\ FailuresHaveCauses'
    BY <1>1, <1>10 DEF CompletedIsTheAnswer, FailuresHaveCauses
  <2> QED BY <1>1, <1>8c, <1>10, <2>5, <2>6 DEF AnswerInv
<1>11. CASE IsBroken(heard.calls) /\ streamPc' = "ended" /\ outcome' = "fatal" /\ response' = heard
  <2> DEFINE s == cs \o said
             N == Len(answer)
  <2>1. s \in Seq(C) /\ more \o u \in Seq(C) /\ ChoicesOf(N) = s \o (more \o u)
    BY <1>8, <1>8b
  <2>2. Hears(heard, s)
    BY <1>1, <1>7, <2>1, AnswerIsHeard
  <2>3. IsBroken(CallsFor(DeltasIn(s)))
    BY <1>11, <2>2 DEF Hears
  <2> HIDE DEF s, more, heard
  <2>4. IsBroken(CallsFor(DeltasIn(s \o (more \o u))))
    <3> DEFINE v == more \o u
    <3>1. v \in Seq(ChoicesIn(answer)) /\ s \in Seq(ChoicesIn(answer))
      BY <2>1
    <3> HIDE DEF v
    <3>2. IsBroken(CallsFor(DeltasIn(s \o v)))
      BY <1>1, <2>3, <3>1, BrokenForGood
    <3> QED BY <3>2 DEF v
  <2>5. IsBroken(CallsFor(PiecesOf(N)))
    BY <2>1, <2>4, SaidIs
  <2>6. ~IsWellFormed(N)
    <3>1. N \in 0..Len(answer)
      BY <1>1
    <3> QED BY <1>1, <2>5, <3>1, WellFormedIs
  <2> QED BY <1>1, <1>8c, <1>11, <2>6, FatalEnds
<1>12. CASE /\ ~IsDone(h) /\ ~IsBroken(heard.calls) /\ response' = heard
            /\ streamPc' = streamPc /\ outcome' = outcome
  <2>1. \E s \in Seq(ChoicesIn(answer)) : /\ s \o Chosen(answer, rest) = ChoicesOf(m)
                                          /\ heard = TakeChoices(NoResponse, s)
    BY <1>7, <1>8
  <2>2. Hearing(m, buffer, rest, arrived, heard)
    <3> HIDE DEF heard, rest, h
    <3> QED BY <1>5, <1>6, <1>12, <2>1 DEF Hearing
  <2> HIDE DEF heard, rest, h
  <2>3. (\E i \in 0..Len(answer) : HeardUpTo(i))'
    BY <1>1, <1>12, <2>2, HearingStays
  <2>4. CompletedIsTheAnswer' /\ FailuresHaveCauses'
    BY <1>1, <1>12 DEF CompletedIsTheAnswer, FailuresHaveCauses
  <2> QED BY <1>1, <1>8c, <1>12, <2>3, <2>4 DEF AnswerInv
<1> QED BY <1>2, <1>9, <1>10, <1>11, <1>12

(* The connection is closed, or breaks.                                    *)
LEMMA AnswerCloses == AnswerInv /\ (Close \/ Break) => AnswerInv'
<1> SUFFICES ASSUME AnswerInv, Close \/ Break PROVE AnswerInv'
  OBVIOUS
<1>1. /\ streamPc = "open" /\ pending = <<>> /\ outcome = "none"
      /\ answer' = answer /\ ends' = ends /\ arrived' = arrived /\ response' = response
      /\ answer \in Answers /\ ends \in LineEnds
      /\ \/ streamPc' = "ended" /\ outcome' \in {"canceled", "transient"}
         \/ ~IsIncomplete(buffer) /\ streamPc' = "ending" /\ outcome' = outcome
  BY DEF Close, Break, Awaits, Fails, AnswerInv, wireVars
<1>1a. Shown'
  BY <1>1, ShownStays DEF AnswerInv
<1>2. PICK m \in 0..Len(answer) : HeardUpTo(m)
  BY <1>1 DEF AnswerInv
<1>3. /\ response = TakenOf(m) /\ CanBeRead(m) /\ ~IsBroken(response.calls)
      /\ ~\E n \in DOMAIN answer : IsDone(n) /\ arrived >= Len(Wire(n))
      /\ ~IsIncomplete(buffer) => arrived = Len(Wire(m))
  BY <1>1, <1>2, AllHeard
<1>4. CASE streamPc' = "ended" /\ outcome' = "canceled"
  BY <1>1, <1>1a, <1>4, AnswerEnds
<1>5. CASE streamPc' = "ended" /\ outcome' = "transient"
  BY <1>1, <1>1a, <1>3, <1>5, TransientEnds
<1>6. CASE ~IsIncomplete(buffer) /\ streamPc' = "ending" /\ outcome' = outcome
  <2>1. EndsAt(m)
    BY <1>3, <1>6 DEF EndsAt
  <2>2. /\ Wire(m)' = Wire(m) /\ IsDone(m)' = IsDone(m) /\ CanBeRead(m)' = CanBeRead(m)
        /\ ChoicesOf(m)' = ChoicesOf(m)
    BY <1>1, AnswerSame
  <2>3. TakenOf(m)' = TakenOf(m)
    BY <2>2 DEF TakenOf
  <2>4. EndsAt(m)'
    BY <1>1, <2>1, <2>2, <2>3 DEF EndsAt
  <2>5. (\E n \in 0..Len(answer) : EndsAt(n))'
    BY <1>1, <2>4
  <2>6. CompletedIsTheAnswer' /\ FailuresHaveCauses'
    BY <1>1, <1>6 DEF CompletedIsTheAnswer, FailuresHaveCauses
  <2> QED BY <1>1, <1>1a, <1>6, <2>5, <2>6 DEF AnswerInv
<1> QED BY <1>1, <1>4, <1>5, <1>6

(* The answer is complete, or a call in it is not. *)
LEMMA AnswerCompletes == AnswerInv /\ Complete => AnswerInv'
<1> SUFFICES ASSUME AnswerInv, Complete PROVE AnswerInv'
  OBVIOUS
<1> DEFINE calls == FinishCalls(response.calls)
           reason == FinishReason(response.finish, calls)
<1>1. /\ streamPc = "ending" /\ streamPc' = "ended"
      /\ answer' = answer /\ ends' = ends /\ arrived' = arrived
      /\ answer \in Answers /\ ends \in LineEnds /\ Len(answer) \in Nat
  BY AnswersAre DEF Complete, Fails, AnswerInv, wireVars
<1>2. \/ outcome' = "canceled" /\ response' = response
      \/ outcome' = "fatal" /\ ~IsFinished(response.calls) /\ response' = response
      \/ /\ outcome' = "completed" /\ IsFinished(response.calls)
         /\ response' = [response EXCEPT !.calls = calls, !.finish = reason]
  BY DEF Complete, Fails
<1>3. PICK n \in 0..Len(answer) : EndsAt(n)
  BY <1>1 DEF AnswerInv
<1>4. /\ (n > 0 /\ IsDone(n)) \/ arrived = Len(Wire(n))
      /\ CanBeRead(n) /\ response = TakenOf(n) /\ ~IsBroken(response.calls) /\ n \in Nat
  BY <1>1, <1>3 DEF EndsAt
<1>5. /\ IsWellFormed(n) <=> IsFinished(response.calls)
      /\ IsWellFormed(n) => Meaning(n) = [content |-> response.content,
                                          reasoning |-> response.reasoning, calls |-> calls]
  BY <1>1, <1>4, TakenMeans
<1>5a. response'.content = response.content => Shown'
  BY <1>1, ShownStays DEF AnswerInv
<1>6. CASE outcome' = "canceled" /\ response' = response
  BY <1>1, <1>5a, <1>6, AnswerEnds
<1>7. CASE outcome' = "fatal" /\ ~IsFinished(response.calls) /\ response' = response
  <2>1. ~IsWellFormed(n)
    BY <1>5, <1>7
  <2>2. n # 0
    BY <1>1, <1>4, <1>7, NothingHeard
  <2>3. n = Len(answer) \/ (n \in 1..Len(answer) - 1 /\ arrived = Len(Wire(n)))
    <3> SUFFICES ASSUME n # Len(answer) PROVE n \in 1..Len(answer) - 1 /\ arrived = Len(Wire(n))
      OBVIOUS
    <3>1. n \in 1..Len(answer) - 1
      BY <1>1, <1>4, <2>2
    <3>2. n \in DOMAIN answer
      BY <1>1, <3>1, AnswersAre
    <3>3. ~IsDone(n)
      BY <1>1, <3>2, StreamAssumption DEF IsDone
    <3> QED BY <1>4, <3>1, <3>3
  <2> QED BY <1>1, <1>5a, <1>7, <2>1, <2>3, FatalEnds
<1>8. CASE /\ outcome' = "completed" /\ IsFinished(response.calls)
           /\ response' = [response EXCEPT !.calls = calls, !.finish = reason]
  <2>1. {"content", "reasoning", "calls"} \subseteq DOMAIN response
    BY <1>1, <1>4, ChoicesAreChosen, TakenKeys DEF TakenOf
  <2> HIDE DEF calls, reason
  <2>2. /\ response'.content = response.content /\ response'.reasoning = response.reasoning
        /\ response'.calls = calls
    BY <1>8, <2>1
  <2>3. [f \in {"content", "reasoning", "calls"} |-> response'[f]]
          = [content |-> response.content, reasoning |-> response.reasoning, calls |-> calls]
    BY <2>2
  <2>4. IsWellFormed(n)' /\ Meaning(n)' = Meaning(n) /\ Wire(n)' = Wire(n) /\ IsDone(n)' = IsDone(n)
    BY <1>1, <1>5, <1>8, AnswerSame
  <2>5. CompletedIsTheAnswer'
    BY <1>1, <1>4, <1>5, <1>8, <2>3, <2>4 DEF CompletedIsTheAnswer
  <2>6. FailuresHaveCauses'
    BY <1>8 DEF FailuresHaveCauses
  <2> QED BY <1>1, <1>5a, <2>2, <2>5, <2>6 DEF AnswerInv
<1> QED BY <1>2, <1>6, <1>7, <1>8

(* Everything that happens in a turn. *)
LEMMA AnswerNext == AnswerInv /\ [Next]_vars => AnswerInv'
<1> SUFFICES ASSUME AnswerInv, [Next]_vars PROVE AnswerInv'
  OBVIOUS
<1>1. CASE UNCHANGED streamVars
  BY <1>1, AnswerStays
<1>2. CASE BeginSend
  BY <1>2, AnswerBegins
<1>3. CASE SendSucceeds
  BY <1>3, AnswerOpens
<1>4. CASE SendBreaks
  BY <1>4, AnswerBreaks
<1>5. CASE SendIsRefused
  <2>1. /\ answer' = answer /\ ends' = ends /\ streamPc' = "ended" /\ refused'
        /\ outcome' \in {"canceled", "fatal"} /\ Shown'
    <3>1. /\ answer' = answer /\ ends' = ends /\ streamPc' = "ended" /\ refused'
          /\ outcome' \in {"canceled", "fatal"} /\ response' = response
      BY <1>5 DEF SendIsRefused, Fails, wireVars
    <3> QED BY <3>1, ShownStays DEF AnswerInv
  <2>2. CASE outcome' = "canceled"
    BY <2>1, <2>2, AnswerEnds
  <2>3. CASE outcome' = "fatal"
    BY <2>1, <2>3, FatalEnds
  <2> QED BY <2>1, <2>2, <2>3
<1>6. CASE IdleTimeout
  <2>1. answer' = answer /\ ends' = ends /\ streamPc' = "ended" /\ outcome' = "idle"
        /\ response' = response
    BY <1>6 DEF IdleTimeout, wireVars
  <2>2. Shown'
    BY <2>1, ShownStays DEF AnswerInv
  <2> QED BY <2>1, <2>2, AnswerEnds
<1>7. CASE Close \/ Break
  BY <1>7, AnswerCloses
<1>8. CASE \E n \in 1..Len(Wire(Len(answer))) : Receive(n)
  BY <1>8, AnswerReceives
<1>9. CASE TakeEvent
  BY <1>9, AnswerTakes
<1>10. CASE Complete
  BY <1>10, AnswerCompletes
<1>11. \/ UNCHANGED streamVars \/ BeginSend \/ Network \/ ReadStream
  BY DEF Next, vars, Turn, BuildContext, Dispatch, Collect, Answering, Others, Stop
<1> QED BY <1>1, <1>2, <1>3, <1>4, <1>5, <1>6, <1>7, <1>8, <1>9, <1>10, <1>11
        DEF Network, ReadStream

(* The invariant of the answer holds in every state                        *)
(* (decode_chat_completion_stream, ChatToolCallAccumulator).               *)
THEOREM AnswerInvariance == Spec => []AnswerInv
<1>1. Init => AnswerInv
  BY InitAnswerInv DEF Init
<1> QED BY <1>1, AnswerNext, PTL DEF Spec

(* However the network cuts the answer into pieces, what is shown is the   *)
(* text of its first blocks (SseEventParser::push_bytes).                  *)
THEOREM FramingCannotBeSeen == Spec => []FramingIsInvisible
<1>1. AnswerInv => FramingIsInvisible
  BY FramingHolds DEF AnswerInv
<1> QED BY <1>1, AnswerInvariance, PTL

(* An answer that counts as complete is well-formed, and it is what its    *)
(* blocks say, however the network cuts it and wherever it closes the      *)
(* connection (deepseek_chat_stream_to_turn_provider_stream).              *)
THEOREM CompletedAnswersAreTheAnswer == Spec => []CompletedIsTheAnswer
<1>1. AnswerInv => CompletedIsTheAnswer
  BY DEF AnswerInv
<1> QED BY <1>1, AnswerInvariance, PTL

(* A well-formed answer is no error of the provider, and one that arrived  *)
(* up to [DONE] is not asked for again (is_transient_transport_error).     *)
THEOREM FailuresAreCaused ==
  ASSUME EndsAreClean
  PROVE  Spec => []FailuresHaveCauses
<1>1. AnswerInv => FailuresHaveCauses
  BY DEF AnswerInv
<1> QED BY <1>1, AnswerInvariance, PTL
=============================================================================
