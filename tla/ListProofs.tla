------------------------------ MODULE ListProofs ------------------------------
(***************************************************************************)
(* What the operators on sequences that the models use for the linked      *)
(* lists of threads return: the first index of a search, membership after  *)
(* an insertion at the head and after the removal of a node.               *)
(***************************************************************************)
EXTENDS Integers, FiniteSets, SequencesExt, WellFoundedInduction, SequenceTheorems, TLAPS

(* Min of a set of numbers that is not empty is its least element.         *)
LEMMA LeastIndex ==
  ASSUME NEW I \in SUBSET Nat, I # {}
  PROVE  Min(I) \in I /\ \A i \in I : Min(I) <= i
<1> DEFINE Less == {p \in Nat \X Nat : p[1] < p[2]}
<1>1. IsWellFoundedOn(Less, Nat)
  BY NatLessThanWellFounded DEF OpToRel
<1>2. PICK m \in I : \A i \in I : ~ (<<i, m>> \in Less)
  <2> HIDE DEF Less
  <2>1. QED
    BY <1>1, WFMin
<1>3. ASSUME NEW i \in I PROVE m <= i
  <2>1. i \in Nat /\ m \in Nat /\ <<i, m>> \notin Less
    BY <1>2
  <2>2. ~ (i < m)
    BY <2>1
  <2> HIDE DEF Less
  <2>3. QED
    BY <2>1, <2>2
<1>4. QED
  BY <1>3 DEF Min

(* s without one of its e is a and b.                                      *)
Cut(s, e, a, b) ==
  \E m \in 1 .. Len(s) :
    /\ s[m] = e
    /\ Len(a) = m - 1 /\ \A j \in 1 .. m - 1 : a[j] = s[j]
    /\ Len(b) = Len(s) - m /\ \A j \in 1 .. Len(s) - m : b[j] = s[m + j]

(* RemoveFirst leaves out one position, if it finds the element.           *)
LEMMA RemoveFirstCuts ==
  ASSUME NEW S, NEW s \in Seq(S), NEW e, Contains(s, e)
  PROVE  \E a, b \in Seq(S) : Cut(s, e, a, b) /\ RemoveFirst(s, e) = a \o b
<1> DEFINE I == {i \in 1 .. Len(s) : s[i] = e}
<1>1. I # {} /\ I \in SUBSET Nat /\ I \subseteq 1 .. Len(s) /\ Len(s) \in Nat
  BY DEF Contains
<1>2. Min(I) \in I
  BY <1>1, LeastIndex
<1>3. s[Min(I)] = e
  BY <1>2
<1>4. RemoveFirst(s, e) = RemoveAt(s, Min(I))
  BY <1>1 DEF RemoveFirst, SelectInSeq
<1>5. PICK m : m = Min(I)
  OBVIOUS
<1> HIDE DEF I
<1>6. m \in 1 .. Len(s) /\ m \in Nat
  BY <1>1, <1>2, <1>5
<1> DEFINE a == SubSeq(s, 1, m - 1)  b == SubSeq(s, m + 1, Len(s))
<1>7. a \in Seq(S) /\ b \in Seq(S)
  BY <1>1, <1>6, ElementOfSeq, SubSeqProperties
<1>8. Len(a) = m - 1 /\ \A j \in 1 .. m - 1 : a[j] = s[j]
  BY <1>1, <1>6
<1>9. Len(b) = Len(s) - m /\ \A j \in 1 .. Len(s) - m : b[j] = s[m + j]
  BY <1>1, <1>6
<1>10. RemoveFirst(s, e) = a \o b
  BY <1>4, <1>5 DEF RemoveAt
<1> HIDE DEF a, b
<1>11. s[m] = e
  BY <1>3, <1>5
<1>12. Cut(s, e, a, b)
  BY <1>6, <1>8, <1>9, <1>11 DEF Cut
<1>13. QED
  BY <1>7, <1>10, <1>12

(* RemoveFirst of a list of some elements is a list of them.               *)
LEMMA RemoveFirstType ==
  ASSUME NEW S, NEW s \in Seq(S), NEW e
  PROVE  RemoveFirst(s, e) \in Seq(S)
<1>1. CASE ~ Contains(s, e)
  BY <1>1 DEF RemoveFirst, Contains
<1>2. CASE Contains(s, e)
  <2>1. PICK a, b \in Seq(S) : RemoveFirst(s, e) = a \o b
    BY <1>2, RemoveFirstCuts, SMTT(30)
  <2>2. QED
    BY <2>1, ConcatProperties
<1>3. QED
  BY <1>1, <1>2

(* What is in a list stays in it when something else is removed.           *)
LEMMA RemoveFirstKeeps ==
  ASSUME NEW S, NEW s \in Seq(S), NEW e, NEW x, x # e, Contains(s, x)
  PROVE  Contains(RemoveFirst(s, e), x)
<1>1. CASE ~ Contains(s, e)
  BY <1>1 DEF RemoveFirst, Contains
<1>2. CASE Contains(s, e)
  <2>0. PICK a, b \in Seq(S) : Cut(s, e, a, b) /\ RemoveFirst(s, e) = a \o b
    BY <1>2, RemoveFirstCuts, ZenonT(40)
  <2>1. PICK m \in 1 .. Len(s) :
          /\ s[m] = e
          /\ Len(a) = m - 1 /\ \A j \in 1 .. m - 1 : a[j] = s[j]
          /\ Len(b) = Len(s) - m /\ \A j \in 1 .. Len(s) - m : b[j] = s[m + j]
    BY <2>0 DEF Cut
  <2>2. PICK i \in 1 .. Len(s) : s[i] = x
    BY DEF Contains
  <2>3. Len(s) \in Nat /\ m \in Nat /\ i \in Nat /\ i # m
    BY <2>1, <2>2
  <2>4. /\ Len(a \o b) = Len(a) + Len(b)
        /\ \A j \in 1 .. Len(a) : (a \o b)[j] = a[j]
        /\ \A j \in Len(a) + 1 .. Len(a) + Len(b) : (a \o b)[j] = b[j - Len(a)]
    BY ConcatProperties
  <2>5. CASE i < m
    <3>1. i \in 1 .. Len(a) /\ i \in 1 .. Len(a) + Len(b) /\ i \in 1 .. m - 1
      BY <2>1, <2>3, <2>5
    <3>2. (a \o b)[i] = x
      BY <2>1, <2>2, <2>4, <3>1
    <3>3. QED
      BY <2>0, <2>1, <2>4, <3>1, <3>2 DEF Contains
  <2>6. CASE i > m
    <3>1. /\ i - 1 \in Len(a) + 1 .. Len(a) + Len(b) /\ i - 1 \in 1 .. Len(a) + Len(b)
          /\ i - m \in 1 .. Len(s) - m /\ (i - 1) - Len(a) = i - m /\ m + (i - m) = i
      BY <2>1, <2>3, <2>6
    <3>2. (a \o b)[i - 1] = x
      BY <2>1, <2>2, <2>4, <3>1
    <3>3. QED
      BY <2>0, <2>1, <2>4, <3>1, <3>2 DEF Contains
  <2>7. QED
    BY <2>3, <2>5, <2>6
<1>3. QED
  BY <1>1, <1>2

(* What is in a list stays in it when a node is inserted at the head.      *)
LEMMA ConsKeeps ==
  ASSUME NEW S, NEW s \in Seq(S), NEW e \in S, NEW x, Contains(s, x)
  PROVE  Contains(<<e>> \o s, x)
<1>1. PICK i \in 1 .. Len(s) : s[i] = x
  BY DEF Contains
<1>2. <<e>> \in Seq(S) /\ Len(<<e>>) = 1
  OBVIOUS
<1>3. /\ Len(<<e>> \o s) = 1 + Len(s)
      /\ \A j \in 1 + 1 .. 1 + Len(s) : (<<e>> \o s)[j] = s[j - 1]
  BY <1>2, ConcatProperties
<1>4. Len(s) \in Nat /\ i + 1 \in 1 + 1 .. 1 + Len(s) /\ i + 1 \in 1 .. 1 + Len(s) /\ (i + 1) - 1 = i
  OBVIOUS
<1>5. (<<e>> \o s)[i + 1] = x
  BY <1>1, <1>3, <1>4
<1>6. QED
  BY <1>3, <1>4, <1>5 DEF Contains

(* A node inserted at the head is in the list.                             *)
LEMMA ConsContains ==
  ASSUME NEW S, NEW s \in Seq(S), NEW e \in S
  PROVE  Contains(<<e>> \o s, e)
<1>1. <<e>> \in Seq(S) /\ Len(<<e>>) = 1 /\ <<e>>[1] = e
  OBVIOUS
<1>2. Len(<<e>> \o s) = 1 + Len(s) /\ (<<e>> \o s)[1] = e
  BY <1>1, ConcatProperties
<1>3. QED
  BY <1>2 DEF Contains

(* No element is in the list twice.                                        *)
Once(s) == \A i, j \in 1 .. Len(s) : s[i] = s[j] => i = j

(* The elements behind the one that is removed move up by one.             *)
LEMMA RemoveFirstMoves ==
  ASSUME NEW S, NEW s \in Seq(S), NEW e, Contains(s, e)
  PROVE  \E m \in 1 .. Len(s) :
           /\ s[m] = e
           /\ Len(RemoveFirst(s, e)) = Len(s) - 1
           /\ \A i \in 1 .. Len(s) - 1 :
                RemoveFirst(s, e)[i] = IF i < m THEN s[i] ELSE s[i + 1]
<1>1. PICK a, b \in Seq(S) : Cut(s, e, a, b) /\ RemoveFirst(s, e) = a \o b
  BY RemoveFirstCuts
<1>2. PICK m \in 1 .. Len(s) :
        /\ s[m] = e
        /\ Len(a) = m - 1 /\ \A j \in 1 .. m - 1 : a[j] = s[j]
        /\ Len(b) = Len(s) - m /\ \A j \in 1 .. Len(s) - m : b[j] = s[m + j]
  BY <1>1 DEF Cut
<1>3. /\ Len(a \o b) = Len(a) + Len(b)
      /\ \A j \in 1 .. Len(a) : (a \o b)[j] = a[j]
      /\ \A j \in Len(a) + 1 .. Len(a) + Len(b) : (a \o b)[j] = b[j - Len(a)]
  BY ConcatProperties
<1>4. Len(s) \in Nat /\ m \in Nat /\ Len(a \o b) = Len(s) - 1
  BY <1>2, <1>3
<1>5. ASSUME NEW i \in 1 .. Len(s) - 1
      PROVE  (a \o b)[i] = IF i < m THEN s[i] ELSE s[i + 1]
  <2>1. CASE i < m
    <3>1. i \in 1 .. Len(a) /\ i \in 1 .. m - 1
      BY <1>2, <1>4, <2>1
    <3>2. QED
      BY <1>2, <1>3, <2>1, <3>1
  <2>2. CASE ~ (i < m)
    <3>1. /\ i \in Len(a) + 1 .. Len(a) + Len(b) /\ i - Len(a) \in 1 .. Len(s) - m
          /\ m + (i - Len(a)) = i + 1
      BY <1>2, <1>4, <2>2
    <3>2. QED
      BY <1>2, <1>3, <2>2, <3>1
  <2>3. QED
    BY <2>1, <2>2
<1>6. QED
  BY <1>1, <1>2, <1>4, <1>5

(* A list that has nothing twice has one e less, and no other.             *)
LEMMA RemoveFirstOnce ==
  ASSUME NEW S, NEW s \in Seq(S), NEW e, Once(s)
  PROVE  Once(RemoveFirst(s, e)) /\ ~ Contains(RemoveFirst(s, e), e)
<1>1. CASE ~ Contains(s, e)
  BY <1>1 DEF RemoveFirst, Contains
<1>2. CASE Contains(s, e)
  <2>1. PICK r : r = RemoveFirst(s, e)
    OBVIOUS
  <2>2. PICK m \in 1 .. Len(s) :
          /\ s[m] = e /\ Len(r) = Len(s) - 1
          /\ \A i \in 1 .. Len(s) - 1 : r[i] = IF i < m THEN s[i] ELSE s[i + 1]
    BY <1>2, <2>1, RemoveFirstMoves
  <2>3. Len(s) \in Nat
    OBVIOUS
  <2>4. Once(r)
    <3> SUFFICES ASSUME NEW i \in 1 .. Len(s) - 1, NEW j \in 1 .. Len(s) - 1, r[i] = r[j]
                 PROVE  i = j
      BY <2>2 DEF Once
    <3>1. PICK p \in 1 .. Len(s) : p = (IF i < m THEN i ELSE i + 1) /\ s[p] = r[i]
      BY <2>2, <2>3
    <3>2. PICK q \in 1 .. Len(s) : q = (IF j < m THEN j ELSE j + 1) /\ s[q] = r[j]
      BY <2>2, <2>3
    <3>3. p = q
      BY <3>1, <3>2 DEF Once
    <3>4. QED
      BY <2>3, <3>1, <3>2, <3>3
  <2>5. ~ Contains(r, e)
    <3> SUFFICES ASSUME NEW i \in 1 .. Len(s) - 1, r[i] = e PROVE FALSE
      BY <2>2 DEF Contains
    <3>1. i \in 1 .. Len(s) /\ i + 1 \in 1 .. Len(s)
      BY <2>3
    <3>2. s[m] = IF i < m THEN s[i] ELSE s[i + 1]
      BY <2>2
    <3>3. QED
      BY <2>3, <3>1, <3>2 DEF Once
  <2>6. QED
    BY <2>1, <2>4, <2>5
<1>3. QED
  BY <1>1, <1>2

(* Nothing comes into a list when something is removed.                    *)
LEMMA RemoveFirstOnly ==
  ASSUME NEW S, NEW s \in Seq(S), NEW e, NEW x, Contains(RemoveFirst(s, e), x)
  PROVE  Contains(s, x)
<1>1. CASE ~ Contains(s, e)
  BY <1>1 DEF RemoveFirst, Contains
<1>2. CASE Contains(s, e)
  <2>1. PICK r : r = RemoveFirst(s, e)
    OBVIOUS
  <2>2. PICK m \in 1 .. Len(s) :
          /\ s[m] = e /\ Len(r) = Len(s) - 1
          /\ \A i \in 1 .. Len(s) - 1 : r[i] = IF i < m THEN s[i] ELSE s[i + 1]
    BY <1>2, <2>1, RemoveFirstMoves
  <2>3. PICK i \in 1 .. Len(s) - 1 : r[i] = x
    BY <2>1, <2>2 DEF Contains
  <2>4. Len(s) \in Nat
    OBVIOUS
  <2>5. i \in 1 .. Len(s) /\ i + 1 \in 1 .. Len(s)
    BY <2>4
  <2>6. x = IF i < m THEN s[i] ELSE s[i + 1]
    BY <2>2, <2>3
  <2>7. QED
    BY <2>5, <2>6 DEF Contains
<1>3. QED
  BY <1>1, <1>2

(* What an insertion at the head leaves alone.                             *)
LEMMA ConsOnly ==
  ASSUME NEW S, NEW s \in Seq(S), NEW e \in S
  PROVE  /\ \A x : Contains(<<e>> \o s, x) => x = e \/ Contains(s, x)
         /\ Once(s) /\ ~ Contains(s, e) => Once(<<e>> \o s)
<1>1. <<e>> \in Seq(S) /\ Len(<<e>>) = 1 /\ <<e>>[1] = e
  OBVIOUS
<1>2. PICK r : r = <<e>> \o s
  OBVIOUS
<1>3. /\ Len(r) = 1 + Len(s) /\ r[1] = e
      /\ \A j \in 1 + 1 .. 1 + Len(s) : r[j] = s[j - 1]
  BY <1>1, <1>2, ConcatProperties
<1>4. Len(s) \in Nat
  OBVIOUS
<1>5. ASSUME NEW i \in 1 .. 1 + Len(s), i # 1 PROVE i - 1 \in 1 .. Len(s) /\ r[i] = s[i - 1]
  <2>1. i \in 1 + 1 .. 1 + Len(s) /\ i - 1 \in 1 .. Len(s)
    BY <1>4, <1>5
  <2>2. QED
    BY <1>3, <2>1
<1>6. ASSUME NEW x, Contains(r, x) PROVE x = e \/ Contains(s, x)
  <2>1. PICK i \in 1 .. 1 + Len(s) : r[i] = x
    BY <1>3, <1>6 DEF Contains
  <2>2. QED
    BY <1>3, <1>5, <2>1 DEF Contains
<1>7. ASSUME Once(s), ~ Contains(s, e) PROVE Once(r)
  <2> SUFFICES ASSUME NEW i \in 1 .. 1 + Len(s), NEW j \in 1 .. 1 + Len(s), r[i] = r[j]
               PROVE  i = j
    BY <1>3 DEF Once
  <2>1. ASSUME NEW n \in 1 .. 1 + Len(s), n # 1 PROVE r[n] # e
    <3>1. n - 1 \in 1 .. Len(s) /\ r[n] = s[n - 1]
      BY <1>5, <2>1
    <3>2. QED
      BY <1>7, <3>1 DEF Contains
  <2>2. CASE i = 1 \/ j = 1
    BY <1>3, <2>1, <2>2
  <2>3. CASE i # 1 /\ j # 1
    <3>1. /\ i - 1 \in 1 .. Len(s) /\ r[i] = s[i - 1]
          /\ j - 1 \in 1 .. Len(s) /\ r[j] = s[j - 1]
      BY <1>5, <2>3
    <3>2. i - 1 = j - 1
      BY <1>7, <3>1 DEF Once
    <3>3. QED
      BY <1>4, <3>2
  <2>4. QED
    BY <2>2, <2>3
<1>8. QED
  BY <1>2, <1>6, <1>7
===============================================================================
