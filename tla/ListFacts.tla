------------------------------ MODULE ListFacts ------------------------------
(***************************************************************************)
(* What AddTail, GetMsg and Remove do to an Exec list, as facts about the  *)
(* operators on sequences that model them.                                 *)
(***************************************************************************)
EXTENDS SequencesExt, SequenceTheorems, WellFoundedInduction, TLAPS

\* Append puts one element behind: the set grows by it, and a list without
\* repetitions stays one if the element is new.
LEMMA AppendFacts ==
  ASSUME NEW R, NEW s \in Seq(R), NEW r \in R
  PROVE  /\ Append(s, r) \in Seq(R)
         /\ ToSet(Append(s, r)) = ToSet(s) \cup {r}
         /\ IsInjective(s) /\ r \notin ToSet(s) => IsInjective(Append(s, r))
<1>. DEFINE a == Append(s, r)
<1>1. /\ a \in Seq(R)
      /\ Len(a) = Len(s) + 1
      /\ DOMAIN a = 1 .. Len(s) + 1
      /\ DOMAIN s = 1 .. Len(s)
      /\ Len(s) \in Nat
      /\ \A i \in 1 .. Len(s) : a[i] = s[i]
      /\ a[Len(s) + 1] = r
  OBVIOUS
<1>. HIDE DEF a
<1>2. ToSet(a) = ToSet(s) \cup {r}
  BY <1>1 DEF ToSet
<1>3. ASSUME IsInjective(s), r \notin ToSet(s)
      PROVE  IsInjective(a)
  BY <1>1, <1>3 DEF IsInjective, ToSet
<1>. QED
  BY <1>1, <1>2, <1>3 DEF a

\* GetMsg takes the first element, which is then no longer on the list.
LEMMA TailFacts ==
  ASSUME NEW R, NEW s \in Seq(R), s # <<>>
  PROVE  /\ Head(s) \in ToSet(s)
         /\ Head(s) \in R
         /\ Tail(s) \in Seq(R)
         /\ IsInjective(s) => /\ IsInjective(Tail(s))
                              /\ ToSet(Tail(s)) = ToSet(s) \ {Head(s)}
<1>. DEFINE a == Tail(s)
<1>1. /\ a \in Seq(R)
      /\ DOMAIN a = 1 .. Len(s) - 1
      /\ DOMAIN s = 1 .. Len(s)
      /\ Len(s) \in Nat \ {0}
      /\ \A i \in 1 .. Len(s) - 1 : a[i] = s[i + 1]
      /\ Head(s) = s[1]
      /\ \A i \in 1 .. Len(s) : s[i] \in R
  BY HeadTailProperties
<1>. HIDE DEF a
<1>2. ASSUME IsInjective(s)
      PROVE  IsInjective(a) /\ ToSet(a) = ToSet(s) \ {Head(s)}
  <2>1. ASSUME NEW j \in DOMAIN a, NEW k \in DOMAIN a, a[j] = a[k]
        PROVE  j = k
    <3>1. /\ j + 1 \in DOMAIN s /\ k + 1 \in DOMAIN s
          /\ s[j + 1] = s[k + 1]
      BY <1>1, <2>1
    <3>2. j + 1 = k + 1
      BY <1>2, <3>1 DEF IsInjective
    <3>. QED
      BY <1>1, <3>2
  <2>2. ASSUME NEW x \in ToSet(s) \ {Head(s)}
        PROVE  x \in ToSet(a)
    <3>1. PICK i \in 1 .. Len(s) : s[i] = x
      BY <1>1, <2>2 DEF ToSet
    <3>2. i - 1 \in 1 .. Len(s) - 1 /\ a[i - 1] = x
      BY <1>1, <2>2, <3>1
    <3>. QED
      BY <1>1, <3>2 DEF ToSet
  <2>3. ASSUME NEW x \in ToSet(a)
        PROVE  x \in ToSet(s) \ {Head(s)}
    <3>1. PICK j \in 1 .. Len(s) - 1 : a[j] = x
      BY <1>1 DEF ToSet
    <3>2. j + 1 \in DOMAIN s /\ 1 \in DOMAIN s /\ j + 1 # 1 /\ s[j + 1] = x
      BY <1>1, <3>1
    <3>3. s[j + 1] # s[1]
      BY <1>2, <3>2 DEF IsInjective
    <3>. QED
      BY <1>1, <3>2, <3>3 DEF ToSet
  <2>. QED
    BY <2>1, <2>2, <2>3 DEF IsInjective
<1>. QED
  BY <1>1, <1>2 DEF a, ToSet

\* Remove() takes one element out of the middle.
LEMMA RemoveAtFacts ==
  ASSUME NEW R, NEW s \in Seq(R), NEW i \in DOMAIN s, IsInjective(s)
  PROVE  /\ RemoveAt(s, i) \in Seq(R)
         /\ IsInjective(RemoveAt(s, i))
         /\ ToSet(RemoveAt(s, i)) = ToSet(s) \ {s[i]}
<1>. DEFINE a == SubSeq(s, 1, i - 1)
            b == SubSeq(s, i + 1, Len(s))
            t == a \o b
<1>1. /\ DOMAIN s = 1 .. Len(s)
      /\ Len(s) \in Nat
      /\ i \in 1 .. Len(s)
  OBVIOUS
<1>2. /\ a \in Seq(R)
      /\ Len(a) = i - 1
      /\ \A j \in 1 .. i - 1 : a[j] = s[j]
  BY <1>1, SubSeqProperties, LenProperties
<1>3. /\ b \in Seq(R)
      /\ Len(b) = Len(s) - i
      /\ \A j \in 1 .. Len(s) - i : b[j] = s[j + i]
  <2>1. /\ i + 1 \in Int /\ Len(s) \in Int
        /\ \A j \in i + 1 .. Len(s) : s[j] \in R
    BY <1>1
  <2>2. /\ b \in Seq(R)
        /\ Len(b) = IF i + 1 <= Len(s) THEN Len(s) - (i + 1) + 1 ELSE 0
        /\ \A j \in 1 .. Len(s) - (i + 1) + 1 : b[j] = s[(i + 1) + j - 1]
    BY <2>1, SubSeqProperties
  <2>3. Len(s) - (i + 1) + 1 = Len(s) - i
    BY <1>1
  <2>4. ASSUME NEW j \in 1 .. Len(s) - i
        PROVE  b[j] = s[j + i]
    <3>1. (i + 1) + j - 1 = j + i
      BY <1>1
    <3>. QED
      BY <2>2, <2>3, <3>1
  <2>. QED
    BY <1>1, <2>2, <2>3, <2>4
<1>. HIDE DEF a, b
<1>4. /\ t \in Seq(R)
      /\ DOMAIN t = 1 .. Len(s) - 1
      /\ \A j \in 1 .. i - 1 : t[j] = s[j]
      /\ \A j \in i .. Len(s) - 1 : t[j] = s[j + 1]
  <2>1. /\ t \in Seq(R)
        /\ Len(t) = Len(s) - 1
        /\ \A j \in 1 .. Len(s) - 1 :
             t[j] = IF j <= i - 1 THEN a[j] ELSE b[j - (i - 1)]
    <3>1. /\ t \in Seq(R)
          /\ Len(t) = Len(a) + Len(b)
          /\ \A j \in 1 .. Len(a) + Len(b) :
               t[j] = IF j <= Len(a) THEN a[j] ELSE b[j - Len(a)]
      BY <1>2, <1>3, ConcatProperties
    <3>2. Len(a) + Len(b) = Len(s) - 1
      BY <1>1, <1>2, <1>3
    <3>. QED
      BY <1>2, <3>1, <3>2
  <2>2. DOMAIN t = 1 .. Len(s) - 1
    BY <2>1, LenProperties
  <2>3. ASSUME NEW j \in i .. Len(s) - 1
        PROVE  t[j] = s[j + 1]
    <3>1. t[j] = b[j - (i - 1)]
      BY <1>1, <2>1
    <3>2. b[j - (i - 1)] = s[(j - (i - 1)) + i]
      BY <1>1, <1>3
    <3>. QED
      BY <1>1, <3>1, <3>2
  <2>4. ASSUME NEW j \in 1 .. i - 1
        PROVE  t[j] = s[j]
    BY <1>1, <1>2, <2>1
  <2>. QED
    BY <2>1, <2>2, <2>3, <2>4
<1>. HIDE DEF t
<1>5. IsInjective(t)
  <2>. DEFINE from(j) == IF j < i THEN j ELSE j + 1
  <2>1. \A j \in DOMAIN t : from(j) \in DOMAIN s /\ t[j] = s[from(j)]
    BY <1>1, <1>4
  <2>2. \A j, k \in DOMAIN t : from(j) = from(k) => j = k
    BY <1>1, <1>4
  <2>. HIDE DEF from
  <2>. QED
    BY <2>1, <2>2 DEF IsInjective
<1>6. ToSet(t) \subseteq ToSet(s) \ {s[i]}
  BY <1>1, <1>4 DEF IsInjective, ToSet
<1>7. ASSUME NEW x \in ToSet(s) \ {s[i]}
      PROVE  x \in ToSet(t)
  <2>1. PICK j \in 1 .. Len(s) : s[j] = x
    BY <1>1 DEF ToSet
  <2>2. CASE j < i
    <3>1. j \in DOMAIN t /\ t[j] = x
      BY <1>1, <1>4, <2>1, <2>2
    <3>. QED
      BY <3>1 DEF ToSet
  <2>3. CASE j > i
    <3>1. j - 1 \in i .. Len(s) - 1 /\ t[j - 1] = x
      BY <1>1, <1>4, <2>1, <2>3
    <3>. QED
      BY <1>1, <1>4, <3>1 DEF ToSet
  <2>. QED
    BY <1>1, <2>1, <2>2, <2>3
<1>. QED
  BY <1>4, <1>5, <1>6, <1>7 DEF t, a, b, RemoveAt

\* A search from the head of a list finds a first hit if there is a hit.
LEMMA FirstExists ==
  ASSUME NEW T \in SUBSET Nat, T # {}
  PROVE  \E i \in T : \A j \in T : i <= j
<1>. DEFINE less == {ss \in Nat \X Nat : ss[1] < ss[2]}
<1>1. IsWellFoundedOn(less, Nat)
  BY NatLessThanWellFounded DEF OpToRel
<1>2. PICK i \in T : \A j \in T : <<j, i>> \notin less
  <2>. HIDE DEF less
  <2>. QED
    BY <1>1, WFMin
<1>3. \A j \in T : ~ (j < i)
  BY <1>2
<1>. QED
  BY <1>2, <1>3
=============================================================================
