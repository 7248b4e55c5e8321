----------------------------- MODULE TextLemmas -----------------------------
(***************************************************************************)
(* Cutting a text at an index and putting texts together, counting up and  *)
(* the largest number of a set: what the proofs about the line being       *)
(* edited and about the bytes being read use.                              *)
(***************************************************************************)
EXTENDS Integers, Sequences, SequencesExt, SequenceTheorems, WellFoundedInduction, TLAPS

Upto(s, i)  == SubSeq(s, 1, i)
Beyond(s, i) == SubSeq(s, i + 1, Len(s))

(* Cutting at an index gives two texts whose lengths add up. *)
LEMMA CutType ==
  ASSUME NEW S, NEW s \in Seq(S), NEW i \in 0..Len(s)
  PROVE  /\ Upto(s, i) \in Seq(S)
         /\ Len(Upto(s, i)) = i
         /\ Beyond(s, i) \in Seq(S)
         /\ Len(Beyond(s, i)) = Len(s) - i
<1>1. Len(s) \in Nat /\ \A j \in 1..Len(s) : s[j] \in S
  BY LenProperties, ElementOfSeq
<1>2. \A j \in 1..i : s[j] \in S
  BY <1>1
<1>3. \A j \in (i + 1)..Len(s) : s[j] \in S
  BY <1>1
<1>4. i \in Int /\ i + 1 \in Int /\ Len(s) \in Int
  BY <1>1
<1>5. /\ SubSeq(s, 1, i) \in Seq(S)
      /\ Len(SubSeq(s, 1, i)) = IF 1 <= i THEN i - 1 + 1 ELSE 0
  BY <1>2, <1>4, SubSeqProperties
<1>6. /\ SubSeq(s, i + 1, Len(s)) \in Seq(S)
      /\ Len(SubSeq(s, i + 1, Len(s))) = IF i + 1 <= Len(s) THEN Len(s) - (i + 1) + 1 ELSE 0
  BY <1>3, <1>4, SubSeqProperties
<1> QED BY <1>1, <1>5, <1>6 DEF Upto, Beyond

(* Putting the two parts together again gives the text. *)
LEMMA CutJoin ==
  ASSUME NEW S, NEW s \in Seq(S), NEW i \in 0..Len(s)
  PROVE  Upto(s, i) \o Beyond(s, i) = s
<1>1. Len(s) \in Nat
  BY LenProperties
<1>2. /\ 1 \in 1..(Len(s) + 1)
      /\ i \in (1 - 1)..Len(s)
      /\ Len(s) \in i..Len(s)
  BY <1>1
<1>3. SubSeq(s, 1, i) \o SubSeq(s, i + 1, Len(s)) = SubSeq(s, 1, Len(s))
  BY <1>2, ConcatAdjacentSubSeq
<1> QED BY <1>3, SubSeqFull DEF Upto, Beyond

(* Two texts put together are found again by cutting where they meet. *)
LEMMA JoinCut ==
  ASSUME NEW S, NEW x \in Seq(S), NEW y \in Seq(S)
  PROVE  /\ Upto(x \o y, Len(x)) = x
         /\ Beyond(x \o y, Len(x)) = y
<1>1. /\ Len(x) \in Nat /\ Len(y) \in Nat
      /\ x \o y \in Seq(S)
      /\ Len(x \o y) = Len(x) + Len(y)
  BY LenProperties, ConcatProperties
<1>2. Upto(x \o y, Len(x)) = x
  <2>1. CASE Len(x) = 0
    BY <2>1, <1>1, EmptySeq, SubSeqEmpty DEF Upto
  <2>2. CASE Len(x) > 0
    <3>1. 1 \in 1..Len(x) /\ Len(x) \in 1..Len(x)
      BY <2>2, <1>1
    <3> QED BY <3>1, SubSeqOfConcat1, SubSeqFull DEF Upto
  <2> QED BY <2>1, <2>2, <1>1
<1>3. Beyond(x \o y, Len(x)) = y
  <2>1. CASE Len(y) = 0
    BY <2>1, <1>1, EmptySeq, SubSeqEmpty DEF Beyond
  <2>2. CASE Len(y) > 0
    <3>1. /\ Len(x) + 1 \in (Len(x) + 1)..(Len(x) + Len(y))
          /\ Len(x) + Len(y) \in (Len(x) + 1)..(Len(x) + Len(y))
      BY <2>2, <1>1
    <3>2. SubSeq(x \o y, Len(x) + 1, Len(x) + Len(y))
            = SubSeq(y, Len(x) + 1 - Len(x), Len(x) + Len(y) - Len(x))
      BY <3>1, SubSeqOfConcat2
    <3>3. Len(x) + 1 - Len(x) = 1 /\ Len(x) + Len(y) - Len(x) = Len(y)
      BY <1>1
    <3> QED BY <3>2, <3>3, <1>1, SubSeqFull DEF Beyond
  <2> QED BY <2>1, <2>2, <1>1
<1> QED BY <1>2, <1>3

(* One character further on, the first part gains what the second loses. *)
LEMMA CutNext ==
  ASSUME NEW S, NEW s \in Seq(S), NEW i \in 0..(Len(s) - 1)
  PROVE  /\ Beyond(s, i) # <<>>
         /\ Upto(s, i + 1) = Append(Upto(s, i), Head(Beyond(s, i)))
         /\ Beyond(s, i + 1) = Tail(Beyond(s, i))
         /\ Upto(s, i + 1) # <<>>
         /\ Front(Upto(s, i + 1)) = Upto(s, i)
         /\ <<Last(Upto(s, i + 1))>> \o Beyond(s, i + 1) = Beyond(s, i)
<1> DEFINE e == s[i + 1]
           x == Upto(s, i)
           y == Beyond(s, i + 1)
<1>1. /\ Len(s) \in Nat
      /\ i \in 0..Len(s) /\ i + 1 \in 1..Len(s)
      /\ (i + 1) + 1 = i + 2 /\ (i + 1) - 1 = i
      /\ 1 \in 1..Len(s) /\ Len(s) \in (i + 1)..Len(s)
  BY LenProperties
<1>2. e \in S
  BY <1>1, ElementOfSeq
<1>3. /\ x \in Seq(S) /\ Len(x) = i
      /\ y \in Seq(S)
  BY <1>1, CutType
<1>4. Head(Beyond(s, i)) = e /\ Tail(Beyond(s, i)) = y
  BY <1>1, HeadTailOfSubSeq DEF Beyond
<1>5. Beyond(s, i) = <<e>> \o y
  BY <1>1, SubSeqRecursiveFirst DEF Beyond
<1>6. Len(Beyond(s, i)) = Len(s) - i /\ Len(Beyond(s, i)) # 0
  BY <1>1, CutType
<1>7. Beyond(s, i) # <<>>
  BY <1>6, EmptySeq
<1>8. Upto(s, i + 1) = x \o <<e>>
  <2>1. i + 1 \in 1..Len(s)
    BY <1>1
  <2>2. SubSeq(s, 1, i + 1) = SubSeq(s, 1, (i + 1) - 1) \o <<s[i + 1]>>
    BY <1>1, <2>1, SubSeqRecursiveSecond
  <2> QED BY <2>2, <1>1 DEF Upto
<1>9. Upto(s, i + 1) = Append(x, e)
  BY <1>2, <1>3, <1>8, AppendIsConcat
<1>10. /\ Len(Upto(s, i + 1)) = i + 1
       /\ Upto(s, i + 1)[i + 1] = e
       /\ Upto(s, i + 1) # <<>>
  BY <1>2, <1>3, <1>9, AppendProperties
<1>11. Front(Upto(s, i + 1)) = x
  <2>1. <<e>> \in Seq(S)
    BY <1>2
  <2>2. Upto(x \o <<e>>, Len(x)) = x
    BY <1>3, <2>1, JoinCut
  <2>3. Front(Upto(s, i + 1)) = SubSeq(x \o <<e>>, 1, i)
    BY <1>1, <1>8, <1>10 DEF Front
  <2> QED BY <2>2, <2>3, <1>3 DEF Upto
<1>12. Last(Upto(s, i + 1)) = e
  BY <1>10 DEF Last
<1> QED BY <1>4, <1>5, <1>7, <1>9, <1>10, <1>11, <1>12

-----------------------------------------------------------------------------
(* A set of natural numbers has a least one. *)
LEMMA LeastOfSome ==
  ASSUME NEW I \in SUBSET Nat, I # {}
  PROVE  \E x \in I : \A y \in I : x <= y
<1>1. IsWellFoundedOn(OpToRel(<, Nat), Nat)
  BY NatLessThanWellFounded
<1>2. PICK x \in I : \A y \in I : ~ (<<y, x>> \in OpToRel(<, Nat))
  BY <1>1, WFMin
<1>3. ASSUME NEW y \in I PROVE x <= y
  <2>1. x \in Nat /\ y \in Nat
    OBVIOUS
  <2>2. ~ (y < x)
    BY <1>2, <2>1 DEF OpToRel
  <2> QED BY <2>1, <2>2
<1> QED BY <1>3

(* A set that holds 0, and n + 1 where it holds n, holds all up to a bound. *)
LEMMA Counting ==
  ASSUME NEW m \in Nat, NEW S, 0 \in S, \A n \in 0..m : n \in S /\ n < m => n + 1 \in S
  PROVE  \A n \in 0..m : n \in S
<1> DEFINE Bad == {n \in 0..m : n \notin S}
<1> SUFFICES ASSUME Bad # {} PROVE FALSE
  OBVIOUS
<1>1. Bad \in SUBSET Nat
  OBVIOUS
<1>2. PICK x \in Bad : \A y \in Bad : x <= y
  <2> HIDE DEF Bad
  <2> QED BY <1>1, LeastOfSome
<1>3. x \in 1..m /\ x \notin S
  BY <1>2
<1>4. x - 1 \in 0..m /\ x - 1 < m /\ (x - 1) + 1 = x
  BY <1>3
<1>5. x - 1 \in Bad
  BY <1>3, <1>4
<1> QED BY <1>2, <1>3, <1>5

(* Max is the largest of a set that has one. *)
LEMMA LargestIs ==
  ASSUME NEW X \in SUBSET Int, NEW x \in X, \A y \in X : y <= x
  PROVE  Max(X) = x
<1>1. \E z \in X : \A y \in X : z >= y
  <2>1. \A y \in X : x >= y
    OBVIOUS
  <2> QED BY <2>1
<1>2. Max(X) \in X /\ \A y \in X : Max(X) >= y
  BY <1>1 DEF Max
<1>3. Max(X) \in Int /\ x \in Int /\ Max(X) >= x /\ Max(X) <= x
  BY <1>2
<1> HIDE DEF Max
<1> QED BY <1>3

(* A set of numbers up to a bound has one. *)
LEMMA LargestOf ==
  ASSUME NEW m \in Nat, NEW X \in SUBSET (1..m), X # {}
  PROVE  Max(X) \in X /\ \A y \in X : y <= Max(X)
<1> DEFINE I == {m - y : y \in X}
<1>1. I \in SUBSET Nat /\ I # {}
  <2>1. \A y \in X : m - y \in Nat
    OBVIOUS
  <2>2. PICK y \in X : TRUE
    OBVIOUS
  <2>3. m - y \in I
    BY <2>2
  <2> QED BY <2>1, <2>3
<1>2. PICK d \in I : \A e \in I : d <= e
  <2> HIDE DEF I
  <2> QED BY <1>1, LeastOfSome
<1>3. PICK x \in X : d = m - x
  BY <1>2
<1>4. ASSUME NEW y \in X PROVE y <= x
  <2>1. m - y \in I /\ x \in 1..m /\ y \in 1..m
    BY <1>3
  <2>2. m - x <= m - y
    BY <1>2, <1>3, <2>1
  <2> QED BY <2>1, <2>2
<1>5. Max(X) = x
  <2>1. X \in SUBSET Int
    OBVIOUS
  <2> QED BY <1>4, <2>1, LargestIs
<1> QED BY <1>4, <1>5
=============================================================================
