-------------------------- MODULE PackageTextProofs --------------------------
(***************************************************************************)
(* What is read of the lines that were written: paragraphs of any fields   *)
(* and values, versions and dependencies of any length.                    *)
(*                                                                         *)
(* The recursive functions of PackageText are shown to satisfy the         *)
(* equations that define them, by induction stated for a set of numbers;   *)
(* what they return follows by another induction.                          *)
(***************************************************************************)
EXTENDS PackageText, SequenceTheorems, WellFoundedInduction, TLAPS

-----------------------------------------------------------------------------
(* Numbers.                                                                *)

\* Induction: a set with 0 and the successors of its numbers has all of them.
LEMMA SetInduction ==
  ASSUME NEW S, 0 \in S, \A n \in Nat : n \in S => n + 1 \in S
  PROVE  \A n \in Nat : n \in S
<1> DEFINE T == Nat \ S
           R == OpToRel(<, Nat)
<1> SUFFICES ASSUME T # {}
             PROVE  FALSE
  OBVIOUS
<1>1. \A y \in Nat : <<y, y + 1>> \in R
  BY DEF OpToRel
<1>2. IsWellFoundedOn(R, Nat)
  BY NatLessThanWellFounded
<1> HIDE DEF R
<1>3. PICK x \in T : \A y \in T : ~(<<y, x>> \in R)
  BY <1>2, WFMin
<1>4. x # 0 /\ x - 1 \in Nat /\ (x - 1) + 1 = x
  OBVIOUS
<1>5. x - 1 \notin T
  BY <1>1, <1>3, <1>4
<1> QED
  BY <1>4, <1>5

LEMMA LargestNumber ==
  ASSUME NEW N \in Nat, NEW C \in SUBSET (1 .. N), C # {}
  PROVE  \E m \in C : \A k \in C : k <= m
<1> DEFINE Upto(n) == {k \in C : k <= n}
           T == {n \in Nat : Upto(n) # {} => \E m \in Upto(n) : \A k \in Upto(n) : k <= m}
<1>1. \A k \in C : k \in Nat /\ 1 <= k /\ k <= N
  OBVIOUS
<1>2. 0 \in T
  <2>1. \A k \in C : ~(k <= 0)
    BY <1>1
  <2>2. Upto(0) = {}
    BY <2>1
  <2> QED
    BY <2>2
<1>3. ASSUME NEW n \in Nat, n \in T
      PROVE  n + 1 \in T
  <2>1. CASE n + 1 \in C
    BY <2>1
  <2>2. CASE n + 1 \notin C
    <3>1. \A k \in C : k <= n + 1 <=> k <= n
      BY <1>1, <2>2
    <3>2. Upto(n + 1) = Upto(n)
      BY <3>1
    <3> QED
      BY <1>3, <3>2
  <2> QED
    BY <2>1, <2>2
<1>4. N \in T
  <2> HIDE DEF T
  <2> QED
    BY <1>2, <1>3, SetInduction
<1>5. Upto(N) = C
  BY <1>1
<1> QED
  BY <1>4, <1>5

LEMMA SmallestNumber ==
  ASSUME NEW C \in SUBSET Nat, C # {}
  PROVE  \E m \in C : \A k \in C : m <= k
<1> DEFINE R == OpToRel(<, Nat)
<1>1. \A x, y \in Nat : x < y => <<x, y>> \in R
  BY DEF OpToRel
<1>2. IsWellFoundedOn(R, Nat)
  BY NatLessThanWellFounded
<1> HIDE DEF R
<1>3. PICK m \in C : \A k \in C : ~(<<k, m>> \in R)
  BY <1>2, WFMin
<1>4. \A k \in C : ~(k < m)
  BY <1>1, <1>3
<1>5. \A k \in C : m <= k
  BY <1>4
<1> QED
  BY <1>5

-----------------------------------------------------------------------------
(* Lists of anything.                                                      *)

IsList(s) == \E S : s \in Seq(S)

LEMMA ListFacts ==
  ASSUME NEW s, IsList(s)
  PROVE  /\ Len(s) \in Nat /\ DOMAIN s = 1 .. Len(s)
         /\ s = [n \in 1 .. Len(s) |-> s[n]]
         /\ s = <<>> <=> Len(s) = 0
<1>1. PICK S : s \in Seq(S)
  BY DEF IsList
<1>2. Len(s) \in Nat /\ DOMAIN s = 1 .. Len(s) /\ s = [n \in 1 .. Len(s) |-> s[n]]
  BY <1>1
<1>3. s = <<>> <=> Len(s) = 0
  BY <1>1, EmptySeq
<1> QED
  BY <1>2, <1>3

\* A function on an initial interval is a list.
LEMMA FunctionIsList ==
  ASSUME NEW n \in Nat, NEW s, s = [k \in 1 .. n |-> s[k]]
  PROVE  IsList(s) /\ Len(s) = n /\ DOMAIN s = 1 .. n
<1> DEFINE S == {s[k] : k \in 1 .. n}
<1>1. s \in [1 .. n -> S]
  OBVIOUS
<1>2. s \in Seq(S)
  BY <1>1, SeqDef
<1>3. Len(s) = n /\ DOMAIN s = 1 .. n
  BY <1>1, <1>2
<1> HIDE DEF S
<1> QED
  BY <1>2, <1>3 DEF IsList

LEMMA ListEqual ==
  ASSUME NEW s, IsList(s), NEW t, IsList(t), Len(s) = Len(t),
         \A n \in 1 .. Len(s) : s[n] = t[n]
  PROVE  s = t
BY ListFacts

LEMMA SmallLists ==
  /\ IsList(<<>>) /\ Len(<<>>) = 0
  /\ \A x : IsList(<<x>>) /\ Len(<<x>>) = 1 /\ <<x>>[1] = x /\ DOMAIN <<x>> = 1 .. 1 /\ <<x>> # <<>>
<1>1. IsList(<<>>) /\ Len(<<>>) = 0
  BY EmptySeq DEF IsList
<1>2. ASSUME NEW x
      PROVE  IsList(<<x>>) /\ Len(<<x>>) = 1 /\ <<x>>[1] = x /\ DOMAIN <<x>> = 1 .. 1 /\ <<x>> # <<>>
  <2>1. /\ <<x>> \in Seq({x}) /\ Len(<<x>>) = 1 /\ <<x>>[1] = x
        /\ DOMAIN <<x>> = 1 .. 1 /\ <<x>> # <<>>
    OBVIOUS
  <2> DEFINE s == <<x>>
             S == {x}
  <2>2. s \in Seq(S)
    BY <2>1
  <2> HIDE DEF s, S
  <2>3. IsList(s)
    BY <2>2 DEF IsList
  <2> QED
    BY <2>1, <2>3 DEF s
<1> QED
  BY <1>1, <1>2

LEMMA AppendList ==
  ASSUME NEW s, IsList(s), NEW e
  PROVE  /\ IsList(Append(s, e)) /\ Len(Append(s, e)) = Len(s) + 1
         /\ Append(s, e) # <<>>
         /\ \A i \in 1 .. Len(s) : Append(s, e)[i] = s[i]
         /\ Append(s, e)[Len(s) + 1] = e
<1>1. PICK S : s \in Seq(S)
  BY DEF IsList
<1> DEFINE T == S \cup {e}
<1>2. s \in Seq(T) /\ e \in T
  BY <1>1, SeqMonotonic
<1> HIDE DEF T
<1> QED
  BY <1>2, AppendProperties DEF IsList

LEMMA Pairs ==
  ASSUME NEW x, NEW y
  PROVE  /\ IsList(<<x, y>>) /\ Len(<<x, y>>) = 2 /\ <<x, y>>[1] = x /\ <<x, y>>[2] = y
         /\ Append(<<x>>, y) = <<x, y>>
<1> DEFINE p == <<x, y>>
           one == <<x>>
           a == Append(one, y)
           S == {x, y}
<1>1. p \in Seq(S) /\ Len(p) = 2 /\ p[1] = x /\ p[2] = y
  OBVIOUS
<1>2. IsList(one) /\ Len(one) = 1 /\ one[1] = x
  BY SmallLists
<1> HIDE DEF p, one, S
<1>3. IsList(p)
  BY <1>1 DEF IsList
<1>4. IsList(a) /\ Len(a) = Len(one) + 1 /\ (\A i \in 1 .. Len(one) : a[i] = one[i]) /\ a[Len(one) + 1] = y
  <2>1. IsList(one)
    BY <1>2
  <2> QED
    BY <2>1, AppendList
<1> HIDE DEF a
<1>5. Len(a) = 2 /\ a[1] = x /\ a[2] = y
  BY <1>2, <1>4
<1>6. a = p
  <2>1. \A i \in 1 .. Len(a) : i = 1 \/ i = 2
    BY <1>5
  <2>2. \A i \in 1 .. Len(a) : a[i] = p[i]
    BY <1>1, <1>5, <2>1
  <2> QED
    BY <1>1, <1>3, <1>4, <1>5, <2>2, ListEqual
<1> QED
  BY <1>1, <1>3, <1>6 DEF p, a, one

LEMMA ConcatList ==
  ASSUME NEW s, IsList(s), NEW t, IsList(t)
  PROVE  /\ IsList(s \o t) /\ Len(s \o t) = Len(s) + Len(t)
         /\ \A i \in 1 .. Len(s) : (s \o t)[i] = s[i]
         /\ \A i \in 1 .. Len(t) : (s \o t)[Len(s) + i] = t[i]
         /\ s \o <<>> = s /\ <<>> \o s = s
<1>1. PICK S : s \in Seq(S)
  BY DEF IsList
<1>2. PICK T : t \in Seq(T)
  BY DEF IsList
<1> DEFINE U == S \cup T
<1>3. s \in Seq(U) /\ t \in Seq(U)
  BY <1>1, <1>2, SeqMonotonic
<1> HIDE DEF U
<1>4. /\ s \o t \in Seq(U) /\ Len(s \o t) = Len(s) + Len(t)
      /\ \A i \in 1 .. Len(s) + Len(t) :
           (s \o t)[i] = IF i <= Len(s) THEN s[i] ELSE t[i - Len(s)]
  BY <1>3, ConcatProperties
<1>5. Len(s) \in Nat /\ Len(t) \in Nat
  BY ListFacts
<1>6. s \o <<>> = s /\ <<>> \o s = s
  BY <1>1, ConcatEmptySeq
<1>7. ASSUME NEW i \in 1 .. Len(t)
      PROVE  (s \o t)[Len(s) + i] = t[i]
  <2>1. /\ Len(s) + i \in 1 .. Len(s) + Len(t) /\ ~(Len(s) + i <= Len(s))
        /\ (Len(s) + i) - Len(s) = i
    BY <1>5
  <2> QED
    BY <1>4, <2>1
<1>8. \A i \in 1 .. Len(s) : (s \o t)[i] = s[i]
  BY <1>4, <1>5
<1> QED
  BY <1>4, <1>6, <1>7, <1>8 DEF IsList

LEMMA PrefixList ==
  ASSUME NEW s, IsList(s), NEW n \in 0 .. Len(s)
  PROVE  LET p == SubSeq(s, 1, n) IN
         IsList(p) /\ Len(p) = n /\ \A i \in 1 .. n : p[i] = s[i]
<1>1. PICK S : s \in Seq(S)
  BY DEF IsList
<1>2. n \in Int /\ \A i \in 1 .. n : s[i] \in S
  BY <1>1, ListFacts, ElementOfSeq
<1>3. /\ SubSeq(s, 1, n) \in Seq(S)
      /\ Len(SubSeq(s, 1, n)) = IF 1 <= n THEN n - 1 + 1 ELSE 0
      /\ \A i \in 1 .. n - 1 + 1 : SubSeq(s, 1, n)[i] = s[1 + i - 1]
  BY <1>2, SubSeqProperties
<1> QED
  BY <1>2, <1>3 DEF IsList

LEMMA SuffixList ==
  ASSUME NEW s, IsList(s), NEW m \in Nat, 1 <= m, m <= Len(s) + 1
  PROVE  LET p == SubSeq(s, m, Len(s)) IN
         IsList(p) /\ Len(p) = Len(s) + 1 - m /\ \A i \in 1 .. Len(p) : p[i] = s[m - 1 + i]
<1>1. PICK S : s \in Seq(S)
  BY DEF IsList
<1>2. Len(s) \in Nat
  BY ListFacts
<1>3. \A i \in m .. Len(s) : s[i] \in S
  BY <1>1, <1>2, ElementOfSeq
<1>4. /\ SubSeq(s, m, Len(s)) \in Seq(S)
      /\ Len(SubSeq(s, m, Len(s))) = IF m <= Len(s) THEN Len(s) - m + 1 ELSE 0
      /\ \A i \in 1 .. Len(s) - m + 1 : SubSeq(s, m, Len(s))[i] = s[m + i - 1]
  BY <1>2, <1>3, SubSeqProperties
<1>5. \A i \in 1 .. Len(s) + 1 - m : SubSeq(s, m, Len(s))[i] = s[m - 1 + i]
  <2> TAKE i \in 1 .. Len(s) + 1 - m
  <2>1. i \in 1 .. Len(s) - m + 1 /\ m + i - 1 = m - 1 + i
    BY <1>2
  <2> QED
    BY <1>4, <2>1
<1> QED
  BY <1>2, <1>4, <1>5 DEF IsList

LEMMA TailList ==
  ASSUME NEW s, IsList(s), s # <<>>
  PROVE  /\ IsList(Tail(s)) /\ Len(Tail(s)) = Len(s) - 1
         /\ \A i \in 1 .. Len(s) - 1 : Tail(s)[i] = s[i + 1]
<1>1. PICK S : s \in Seq(S)
  BY DEF IsList
<1> QED
  BY <1>1, HeadTailProperties DEF IsList

-----------------------------------------------------------------------------
(* Flattened lists.                                                        *)

LEMMA FlattenUnfolds ==
  ASSUME NEW ss, IsList(ss), \A n \in 1 .. Len(ss) : IsList(ss[n])
  PROVE  \E flat : /\ FlattenSeq(ss) = flat[Len(ss)]
                   /\ flat[0] = <<>>
                   /\ \A n \in 1 .. Len(ss) : flat[n] = flat[n - 1] \o ss[n]
                   /\ \A n \in 0 .. Len(ss) : IsList(flat[n])
<1> DEFINE N == Len(ss)
           More(n, b) == b \o ss[n]
           Rec(g, k) == g = [i \in 1 .. k |-> IF i = 1 THEN ss[i] ELSE More(i, g[i - 1])]
           S == {k \in Nat : \E g : Rec(g, k)}
           flatten == CHOOSE g : Rec(g, N)
           flat == [n \in 0 .. N |-> IF n = 0 THEN <<>> ELSE flatten[n]]
<1>1. N \in Nat
  BY ListFacts
<1>2. FlattenSeq(ss) = IF N = 0 THEN ss ELSE flatten[N]
  BY DEF FlattenSeq
<1> HIDE DEF More
<1>3. 0 \in S
  <2> DEFINE g == [n \in 1 .. 0 |-> 0]
  <2>1. Rec(g, 0)
    OBVIOUS
  <2> HIDE DEF g, Rec
  <2> QED
    BY <2>1
<1>4. ASSUME NEW k \in Nat, k \in S
      PROVE  k + 1 \in S
  <2>1. PICK g : Rec(g, k)
    BY <1>4
  <2> DEFINE h == [n \in 1 .. k + 1 |-> IF n = k + 1
                                        THEN IF n = 1 THEN ss[n] ELSE More(n, g[k])
                                        ELSE g[n]]
  <2> HIDE DEF N
  <2>2. Rec(h, k + 1)
    BY <2>1, SMTT(60)
  <2> HIDE DEF h, Rec
  <2> QED
    BY <2>2
<1>5. N \in S
  <2> HIDE DEF S
  <2> QED
    BY <1>1, <1>3, <1>4, SetInduction
<1>6. Rec(flatten, N)
  BY <1>5
<1> HIDE DEF flatten, N
<1>7. /\ 1 <= N => flatten[1] = ss[1]
      /\ \A n \in 2 .. N : flatten[n] = More(n, flatten[n - 1])
  BY <1>1, <1>6
<1>8. FlattenSeq(ss) = flat[N] /\ flat[0] = <<>>
  <2>1. N = 0 => ss = <<>>
    BY ListFacts DEF N
  <2> QED
    BY <1>1, <1>2, <2>1
<1>9. ASSUME NEW n \in 1 .. N
      PROVE  flat[n] = flat[n - 1] \o ss[n]
  <2>1. CASE n = 1
    <3>1. flat[1] = ss[1] /\ flat[1 - 1] = <<>>
      BY <1>1, <1>7, <2>1
    <3>2. <<>> \o ss[1] = ss[1]
      BY <1>1, <2>1, ConcatList DEF N
    <3> QED
      BY <2>1, <3>1, <3>2
  <2>2. CASE n # 1
    <3>1. n \in 2 .. N /\ n - 1 \in 0 .. N /\ n - 1 # 0 /\ n # 0 /\ n \in 0 .. N
      BY <1>1, <2>2
    <3>2. flatten[n] = More(n, flatten[n - 1])
      BY <1>7, <3>1
    <3> QED
      BY <3>1, <3>2 DEF More
  <2> QED
    BY <2>1, <2>2
<1> HIDE DEF flat
<1> DEFINE G == {n \in Nat : n <= N => IsList(flat[n])}
<1>10. 0 \in G
  BY <1>8, SmallLists
<1>11. ASSUME NEW n \in Nat, n \in G
       PROVE  n + 1 \in G
  <2> SUFFICES ASSUME n + 1 <= N
               PROVE  IsList(flat[n + 1])
    OBVIOUS
  <2>1. IsList(flat[n]) /\ n + 1 \in 1 .. N /\ (n + 1) - 1 = n
    BY <1>1, <1>11
  <2>2. flat[n + 1] = flat[n] \o ss[n + 1]
    BY <1>9, <2>1
  <2>3. IsList(ss[n + 1])
    BY <2>1 DEF N
  <2> QED
    BY <2>1, <2>2, <2>3, ConcatList
<1>12. \A n \in 0 .. N : IsList(flat[n])
  <2>1. \A n \in Nat : n \in G
    <3> HIDE DEF G
    <3> QED
      BY <1>10, <1>11, SetInduction
  <2> QED
    BY <1>1, <2>1
<1> QED
  BY <1>8, <1>9, <1>12 DEF N

-----------------------------------------------------------------------------
(* Values.                                                                 *)

\* The trailing blanks of a value, and nothing else, are cut off.
LEMMA TrimmedValue ==
  ASSUME NEW value, IsList(value), value # <<>>
  PROVE  LET texts == WithoutTrailingBlanks(value) IN
         /\ IsList(texts) /\ texts # <<>> /\ Len(texts) \in 1 .. Len(value)
         /\ \A n \in 1 .. Len(texts) : texts[n] = value[n]
         /\ Len(texts) > 1 => texts[Len(texts)] # Blank
         /\ \A n \in Len(texts) + 1 .. Len(value) : value[n] = Blank
<1> DEFINE C == {1} \cup {n \in DOMAIN value : value[n] # Blank}
           m == Max(C)
<1>1. Len(value) \in Nat \ {0} /\ DOMAIN value = 1 .. Len(value)
  BY ListFacts
<1>2. C \in SUBSET (1 .. Len(value)) /\ 1 \in C
  BY <1>1
<1>3. m \in C /\ \A k \in C : m >= k
  <2>1. \E x \in C : \A k \in C : k <= x
    <3> HIDE DEF C
    <3> QED
      BY <1>1, <1>2, LargestNumber
  <2>2. \E x \in C : \A k \in C : x >= k
    <3> HIDE DEF C
    <3> QED
      BY <1>1, <1>2, <2>1
  <2> HIDE DEF C
  <2> QED
    BY <2>2 DEF Max
<1> HIDE DEF m
<1>4. WithoutTrailingBlanks(value) = SubSeq(value, 1, m)
  BY DEF WithoutTrailingBlanks, m
<1>5. m \in 1 .. Len(value) /\ m \in 0 .. Len(value)
  BY <1>1, <1>2, <1>3
<1>6. /\ IsList(SubSeq(value, 1, m)) /\ Len(SubSeq(value, 1, m)) = m
      /\ \A n \in 1 .. m : SubSeq(value, 1, m)[n] = value[n]
  BY <1>5, PrefixList
<1>7. m > 1 => value[m] # Blank
  BY <1>1, <1>3
<1>8. \A n \in m + 1 .. Len(value) : value[n] = Blank
  BY <1>1, <1>3, <1>5
<1>9. SubSeq(value, 1, m) # <<>>
  BY <1>5, <1>6, ListFacts
<1> QED
  BY <1>4, <1>5, <1>6, <1>7, <1>8, <1>9

LEMMA TrimmedAgain ==
  ASSUME NEW value, IsList(value), value # <<>>
  PROVE  WithoutTrailingBlanks(WithoutTrailingBlanks(value)) = WithoutTrailingBlanks(value)
<1> DEFINE t == WithoutTrailingBlanks(value)
           u == WithoutTrailingBlanks(t)
<1>1. /\ IsList(t) /\ t # <<>> /\ Len(t) \in 1 .. Len(value)
      /\ Len(t) > 1 => t[Len(t)] # Blank
  BY TrimmedValue
<1> HIDE DEF t
<1>2. /\ IsList(u) /\ Len(u) \in 1 .. Len(t)
      /\ \A n \in 1 .. Len(u) : u[n] = t[n]
      /\ \A n \in Len(u) + 1 .. Len(t) : t[n] = Blank
  BY <1>1, TrimmedValue
<1>3. Len(u) = Len(t)
  <2>1. Len(t) \in Nat /\ Len(u) \in Nat
    BY <1>1, <1>2, ListFacts
  <2> QED
    BY <1>1, <1>2, <2>1
<1> HIDE DEF u
<1>4. u = t
  BY <1>1, <1>2, <1>3, ListEqual
<1> QED
  BY <1>4 DEF u, t

LEMMA TrimmedOne ==
  ASSUME NEW text
  PROVE  WithoutTrailingBlanks(<<text>>) = <<text>>
<1> DEFINE value == <<text>>
           t == WithoutTrailingBlanks(value)
<1>1. IsList(value) /\ value # <<>> /\ Len(value) = 1
  BY SmallLists
<1> HIDE DEF value
<1>2. /\ IsList(t) /\ Len(t) \in 1 .. Len(value)
      /\ \A n \in 1 .. Len(t) : t[n] = value[n]
  BY <1>1, TrimmedValue
<1> HIDE DEF t
<1>3. t = value
  BY <1>1, <1>2, ListEqual
<1> QED
  BY <1>3 DEF t, value

\* Texts and the absence of a field are no lists.
NoLists == ~IsList(Absent) /\ ~IsList(Blank) /\ ~IsList(Dot) /\ Blank # Dot

\* A value has a text, and maybe more on lines of their own.
Texts(value) == IsList(value) /\ value # <<>>

\* A value that is read as it was written: a line of a period alone would become
\* an empty one, and an empty first line is lost if the next is not empty.
Readable(value) ==
  /\ IsList(value) /\ value # <<>>
  /\ \A n \in 2 .. Len(value) : value[n] # Dot
  /\ Len(value) > 1 /\ value[1] = Blank => value[2] = Blank

LEMMA ReadableTrimmed ==
  ASSUME NEW value, Readable(value)
  PROVE  Readable(WithoutTrailingBlanks(value))
<1> DEFINE t == WithoutTrailingBlanks(value)
<1>1. /\ IsList(t) /\ t # <<>> /\ Len(t) \in 1 .. Len(value)
      /\ \A n \in 1 .. Len(t) : t[n] = value[n]
  BY TrimmedValue DEF Readable
<1> HIDE DEF t
<1>2. Len(value) \in Nat /\ Len(t) \in Nat
  BY <1>1, ListFacts DEF Readable
<1>3. Readable(t)
  BY <1>1, <1>2 DEF Readable
<1> QED
  BY <1>3 DEF t

LEMMA ReadableOne ==
  ASSUME NEW text
  PROVE  Readable(<<text>>)
BY SmallLists DEF Readable

-----------------------------------------------------------------------------
(* Lines that are read.                                                    *)

\* ReadLines satisfies its equation.
LEMMA ReadLinesUnfold ==
  ASSUME NEW p, NEW lines, IsList(lines)
  PROVE  \E read : /\ ReadLines(p, lines) = read[Len(lines)]
                   /\ read[0] = p
                   /\ \A n \in 1 .. Len(lines) : read[n] = ReadLine(read[n - 1], lines[n])
<1> DEFINE Rec(g, k) == g = [n \in 0 .. k |-> IF n = 0 THEN p ELSE ReadLine(g[n - 1], lines[n])]
           S == {k \in Nat : \E g : Rec(g, k)}
           read == CHOOSE g : Rec(g, Len(lines))
<1>1. ReadLines(p, lines) = read[Len(lines)]
  BY DEF ReadLines
<1>2. 0 \in S
  <2> DEFINE g == [n \in 0 .. 0 |-> p]
  <2>1. Rec(g, 0)
    OBVIOUS
  <2> HIDE DEF g, Rec
  <2> QED
    BY <2>1
<1>3. ASSUME NEW k \in Nat, k \in S
      PROVE  k + 1 \in S
  <2>1. PICK g : Rec(g, k)
    BY <1>3
  <2> DEFINE h == [n \in 0 .. k + 1 |-> IF n = k + 1 THEN ReadLine(g[k], lines[n]) ELSE g[n]]
  <2>2. Rec(h, k + 1)
    BY <2>1
  <2> HIDE DEF h, Rec
  <2> QED
    BY <2>2
<1>4. Len(lines) \in Nat
  BY ListFacts
<1>5. Len(lines) \in S
  <2> HIDE DEF S
  <2> QED
    BY <1>2, <1>3, <1>4, SetInduction
<1>6. Rec(read, Len(lines))
  BY <1>5
<1> HIDE DEF read
<1>7. read[0] = p /\ \A n \in 1 .. Len(lines) : read[n] = ReadLine(read[n - 1], lines[n])
  BY <1>4, <1>6
<1> QED
  BY <1>1, <1>7

LEMMA ReadNothing ==
  ASSUME NEW p
  PROVE  ReadLines(p, <<>>) = p
BY SmallLists, ReadLinesUnfold

\* Lines are read one after the other.
LEMMA ReadLinesConcat ==
  ASSUME NEW p, NEW a, IsList(a), NEW b, IsList(b)
  PROVE  ReadLines(p, a \o b) = ReadLines(ReadLines(p, a), b)
<1> DEFINE q == ReadLines(p, a)
           c == a \o b
<1>1. /\ IsList(c) /\ Len(c) = Len(a) + Len(b)
      /\ \A i \in 1 .. Len(a) : c[i] = a[i]
      /\ \A i \in 1 .. Len(b) : c[Len(a) + i] = b[i]
  BY ConcatList
<1>2. Len(a) \in Nat /\ Len(b) \in Nat
  BY ListFacts
<1> HIDE DEF c
<1>3. PICK ra : /\ q = ra[Len(a)] /\ ra[0] = p
                /\ \A n \in 1 .. Len(a) : ra[n] = ReadLine(ra[n - 1], a[n])
  BY ReadLinesUnfold
<1> HIDE DEF q
<1>4. PICK rb : /\ ReadLines(q, b) = rb[Len(b)] /\ rb[0] = q
                /\ \A n \in 1 .. Len(b) : rb[n] = ReadLine(rb[n - 1], b[n])
  BY ReadLinesUnfold
<1>5. PICK rc : /\ ReadLines(p, c) = rc[Len(c)] /\ rc[0] = p
                /\ \A n \in 1 .. Len(c) : rc[n] = ReadLine(rc[n - 1], c[n])
  <2>1. IsList(c)
    BY <1>1
  <2> QED
    BY <2>1, ReadLinesUnfold
<1> DEFINE S == {n \in Nat : n <= Len(a) => rc[n] = ra[n]}
           T == {n \in Nat : n <= Len(b) => rc[Len(a) + n] = rb[n]}
<1>6. Len(a) \in S
  <2>1. 0 \in S
    BY <1>3, <1>5
  <2>2. ASSUME NEW n \in Nat, n \in S
        PROVE  n + 1 \in S
    <3> SUFFICES ASSUME n + 1 <= Len(a)
                 PROVE  rc[n + 1] = ra[n + 1]
      OBVIOUS
    <3>1. n + 1 \in 1 .. Len(a) /\ n + 1 \in 1 .. Len(c) /\ (n + 1) - 1 = n /\ rc[n] = ra[n]
      BY <1>1, <1>2, <2>2
    <3> QED
      BY <1>1, <1>3, <1>5, <3>1
  <2> HIDE DEF S
  <2> QED
    BY <1>2, <2>1, <2>2, SetInduction
<1>7. Len(b) \in T
  <2>1. 0 \in T
    BY <1>2, <1>3, <1>4, <1>6
  <2>2. ASSUME NEW n \in Nat, n \in T
        PROVE  n + 1 \in T
    <3> SUFFICES ASSUME n + 1 <= Len(b)
                 PROVE  rc[Len(a) + (n + 1)] = rb[n + 1]
      OBVIOUS
    <3> DEFINE m == Len(a) + (n + 1)
    <3>1. n + 1 \in 1 .. Len(b) /\ m \in 1 .. Len(c) /\ (n + 1) - 1 = n /\ m - 1 = Len(a) + n
      BY <1>1, <1>2, <2>2
    <3>2. rc[m - 1] = rb[n] /\ c[m] = b[n + 1]
      BY <1>1, <1>2, <2>2, <3>1
    <3> HIDE DEF m
    <3>3. rc[m] = rb[n + 1]
      BY <1>4, <1>5, <3>1, <3>2
    <3> QED
      BY <3>3 DEF m
  <2> HIDE DEF T
  <2> QED
    BY <1>2, <2>1, <2>2, SetInduction
<1>8. ReadLines(p, c) = ReadLines(q, b)
  BY <1>1, <1>2, <1>4, <1>5, <1>7
<1> QED
  BY <1>8 DEF q, c

-----------------------------------------------------------------------------
(* A field that was written.                                               *)

\* A name that a field line can have.
FieldName(name) == name # Absent /\ name # <<"">>

LEMMA FieldLines ==
  ASSUME NEW name, NEW value, IsList(value), value # <<>>
  PROVE  LET texts == WithoutTrailingBlanks(value)
             more == Mapped(Tail(texts), LAMBDA text : MoreLine(1, IF text = Blank THEN Dot ELSE text))
         IN /\ WriteField(name, value) = <<FieldLine(name, texts[1])>> \o more
            /\ IsList(more) /\ Len(more) = Len(texts) - 1
            /\ \A n \in 1 .. Len(more) :
                 more[n] = MoreLine(1, IF texts[n + 1] = Blank THEN Dot ELSE texts[n + 1])
            /\ IsList(WriteField(name, value))
<1> DEFINE texts == WithoutTrailingBlanks(value)
           tail == Tail(texts)
           more == Mapped(tail, LAMBDA text : MoreLine(1, IF text = Blank THEN Dot ELSE text))
<1>1. IsList(texts) /\ texts # <<>>
  BY TrimmedValue
<1>2. WriteField(name, value) = <<FieldLine(name, texts[1])>> \o more
  BY DEF WriteField
<1> HIDE DEF texts
<1>3. /\ IsList(tail) /\ Len(tail) = Len(texts) - 1
      /\ \A i \in 1 .. Len(texts) - 1 : tail[i] = texts[i + 1]
  BY <1>1, TailList
<1> HIDE DEF tail
<1>4. Len(tail) \in Nat /\ DOMAIN tail = 1 .. Len(tail)
  BY <1>3, ListFacts
<1>5. more = [n \in 1 .. Len(tail) |-> MoreLine(1, IF tail[n] = Blank THEN Dot ELSE tail[n])]
  BY <1>4 DEF Mapped
<1> HIDE DEF more
<1>6. IsList(more) /\ Len(more) = Len(tail)
  BY <1>4, <1>5, FunctionIsList
<1>7. \A n \in 1 .. Len(more) :
        more[n] = MoreLine(1, IF texts[n + 1] = Blank THEN Dot ELSE texts[n + 1])
  BY <1>3, <1>5, <1>6
<1>8. IsList(WriteField(name, value))
  BY <1>2, <1>6, SmallLists, ConcatList
<1> QED
  BY <1>2, <1>3, <1>6, <1>7, <1>8 DEF texts, tail, more

\* What was cut off is not written: the rest is written to the same lines.
LEMMA WrittenTrimmed ==
  ASSUME NEW name, NEW value, IsList(value), value # <<>>
  PROVE  WriteField(name, WithoutTrailingBlanks(value)) = WriteField(name, value)
BY TrimmedAgain DEF WriteField

\* Continuation lines add their texts to a value, one by one.
LEMMA ContinuedText ==
  ASSUME NEW value, IsList(value), value # <<>>, NEW text, text # Dot,
         value = <<Blank>> => text = Blank
  PROVE  Continued(value, MoreLine(1, IF text = Blank THEN Dot ELSE text)) = Append(value, text)
BY DEF Continued, MoreLine, EmptyValue

\* A field that is read after it was written, behind others.
LEMMA FieldIsRead ==
  ASSUME NEW p, NEW name, FieldName(name), NEW value, Readable(value)
  PROVE  ReadLines(p, WriteField(name, value)) =
           [fields |-> Committed(p), name |-> name, value |-> WithoutTrailingBlanks(value)]
<1> DEFINE t == WithoutTrailingBlanks(value)
           more == Mapped(Tail(t), LAMBDA text : MoreLine(1, IF text = Blank THEN Dot ELSE text))
           first == FieldLine(name, t[1])
           After(n) == [fields |-> Committed(p), name |-> name, value |-> SubSeq(t, 1, n)]
<1>1. /\ WriteField(name, value) = <<first>> \o more
      /\ IsList(more) /\ Len(more) = Len(t) - 1
      /\ \A n \in 1 .. Len(more) : more[n] = MoreLine(1, IF t[n + 1] = Blank THEN Dot ELSE t[n + 1])
  BY FieldLines DEF Readable
<1>2. Readable(t)
  BY ReadableTrimmed
<1> HIDE DEF t, more
<1>3. Len(t) \in Nat \ {0} /\ Len(more) \in Nat /\ IsList(t)
  BY <1>1, <1>2, ListFacts DEF Readable
<1>4. ASSUME NEW n \in 1 .. Len(t)
      PROVE  /\ IsList(SubSeq(t, 1, n)) /\ Len(SubSeq(t, 1, n)) = n /\ SubSeq(t, 1, n) # <<>>
             /\ \A i \in 1 .. n : SubSeq(t, 1, n)[i] = t[i]
  <2>1. n \in 0 .. Len(t) /\ n # 0
    BY <1>3
  <2>2. /\ IsList(SubSeq(t, 1, n)) /\ Len(SubSeq(t, 1, n)) = n
        /\ \A i \in 1 .. n : SubSeq(t, 1, n)[i] = t[i]
    BY <1>3, <2>1, PrefixList
  <2> QED
    BY <2>1, <2>2, ListFacts
<1>5. SubSeq(t, 1, 1) = <<t[1]>>
  <2> DEFINE s == SubSeq(t, 1, 1)
             u == <<t[1]>>
  <2>1. IsList(s) /\ Len(s) = 1 /\ s[1] = t[1]
    BY <1>3, <1>4
  <2>2. IsList(u) /\ Len(u) = 1 /\ u[1] = t[1]
    BY SmallLists
  <2> HIDE DEF s, u
  <2>3. s = u
    BY <2>1, <2>2, ListEqual
  <2> QED
    BY <2>3 DEF s, u
<1>6. ReadLines(p, <<first>>) = After(1)
  <2>1. ReadLine(p, first) = [fields |-> Committed(p), name |-> name, value |-> <<t[1]>>]
    BY DEF ReadLine, IsField, FieldLine, FieldName
  <2>2. ReadLines(p, <<first>>) = ReadLine(p, first)
    <3> HIDE DEF first
    <3> QED
      BY SmallLists, ReadLinesUnfold
  <2> QED
    BY <1>5, <2>1, <2>2
<1>7. PICK read : /\ ReadLines(After(1), more) = read[Len(more)] /\ read[0] = After(1)
                  /\ \A n \in 1 .. Len(more) : read[n] = ReadLine(read[n - 1], more[n])
  <2>1. IsList(more)
    BY <1>1
  <2> HIDE DEF After
  <2> QED
    BY <2>1, ReadLinesUnfold
<1> DEFINE S == {n \in Nat : n <= Len(more) => read[n] = After(n + 1)}
<1>8. 0 \in S
  BY <1>7
<1>9. ASSUME NEW n \in Nat, n \in S
      PROVE  n + 1 \in S
  <2> SUFFICES ASSUME n + 1 <= Len(more)
               PROVE  read[n + 1] = After((n + 1) + 1)
    OBVIOUS
  <2> DEFINE k == n + 1
             s == SubSeq(t, 1, k)
             line == MoreLine(1, IF t[k + 1] = Blank THEN Dot ELSE t[k + 1])
  <2>1. /\ k \in 1 .. Len(more) /\ k - 1 = n /\ k \in 1 .. Len(t) /\ k + 1 \in 1 .. Len(t)
        /\ k + 1 \in 2 .. Len(t) /\ k \in Nat
    BY <1>1, <1>3
  <2>2. read[n] = After(k)
    BY <1>9, <2>1
  <2> HIDE DEF k
  <2>3. read[k] = ReadLine(After(k), line)
    BY <1>1, <1>7, <2>1, <2>2
  <2>4. ReadLine(After(k), line) =
          [fields |-> Committed(p), name |-> name, value |-> Continued(s, line)]
    BY DEF ReadLine, MoreLine, FieldName
  <2>5. IsList(s) /\ Len(s) = k /\ s # <<>> /\ \A i \in 1 .. k : s[i] = t[i]
    BY <1>4, <2>1
  <2> HIDE DEF s
  <2>6. Continued(s, line) = Append(s, t[k + 1])
    <3>1. t[k + 1] # Dot
      BY <1>2, <2>1 DEF Readable
    <3>2. ASSUME s = <<Blank>>
          PROVE  t[k + 1] = Blank
      <4>1. k = 1 /\ s[1] = Blank
        BY <2>5, <3>2, SmallLists
      <4> QED
        BY <1>2, <1>3, <2>1, <2>5, <4>1 DEF Readable
    <3> QED
      BY <2>5, <3>1, <3>2, ContinuedText
  <2>7. Append(s, t[k + 1]) = SubSeq(t, 1, k + 1)
    <3> DEFINE a == Append(s, t[k + 1])
               b == SubSeq(t, 1, k + 1)
    <3>1. /\ IsList(a) /\ Len(a) = k + 1
          /\ \A i \in 1 .. k : a[i] = t[i]
          /\ a[k + 1] = t[k + 1]
      BY <2>5, AppendList
    <3>2. IsList(b) /\ Len(b) = k + 1 /\ \A i \in 1 .. k + 1 : b[i] = t[i]
      BY <1>4, <2>1
    <3> HIDE DEF a, b
    <3>3. \A i \in 1 .. k + 1 : a[i] = b[i]
      BY <2>1, <3>1, <3>2
    <3>4. a = b
      BY <3>1, <3>2, <3>3, ListEqual
    <3> QED
      BY <3>4 DEF a, b
  <2> QED
    BY <2>3, <2>4, <2>6, <2>7 DEF k
<1>10. read[Len(more)] = After(Len(t))
  <2>1. Len(more) \in S
    <3> HIDE DEF S
    <3> QED
      BY <1>3, <1>8, <1>9, SetInduction
  <2> QED
    BY <1>1, <1>3, <2>1
<1>11. SubSeq(t, 1, Len(t)) = t
  <2> DEFINE s == SubSeq(t, 1, Len(t))
  <2>1. IsList(s) /\ Len(s) = Len(t) /\ \A i \in 1 .. Len(t) : s[i] = t[i]
    BY <1>3, <1>4
  <2> HIDE DEF s
  <2>2. s = t
    BY <1>3, <2>1, ListEqual
  <2> QED
    BY <2>2 DEF s
<1>12. ReadLines(p, <<first>> \o more) = ReadLines(ReadLines(p, <<first>>), more)
  <2> HIDE DEF first
  <2>1. IsList(<<first>>) /\ IsList(more)
    BY <1>1, SmallLists
  <2> QED
    BY <2>1, ReadLinesConcat
<1> HIDE DEF first
<1>13. ReadLines(p, WriteField(name, value)) = After(Len(t))
  BY <1>1, <1>6, <1>7, <1>10, <1>12
<1> QED
  BY <1>11, <1>13 DEF t

\* The texts of a value are lists of dependencies; the first line of a folded one
\* may be empty.
AllLists(value) == value = EmptyValue \/ \A n \in 1 .. Len(value) : IsList(value[n])
FoldedLists(value) ==
  \A n \in 1 .. Len(value) : IsList(value[n]) \/ (n = 1 /\ value[1] = Blank)

\* What a value may be read as after it was written: one that is readable as it is
\* but for trailing blanks, and one of lists as lists.
ReadsAs(value, read) ==
  /\ Texts(read)
  /\ Readable(value) => read = WithoutTrailingBlanks(value)
  /\ FoldedLists(value) => AllLists(read)

\* A line is added to any value.
LEMMA AnyContinued ==
  ASSUME NoLists, NEW value, Texts(value), NEW line
  PROVE  /\ Texts(Continued(value, line))
         /\ AllLists(value) /\ IsList(line.text) => AllLists(Continued(value, line))
<1>1. /\ IsList(value) /\ Len(value) \in Nat
      /\ \A text : Texts(<<text>>) /\ Len(<<text>>) = 1 /\ <<text>>[1] = text
  BY ListFacts, SmallLists DEF Texts
<1>2. ASSUME NEW text
      PROVE  LET new == Append(value, text) IN
             /\ Texts(new) /\ Len(new) = Len(value) + 1 /\ new[Len(value) + 1] = text
             /\ \A n \in 1 .. Len(value) : new[n] = value[n]
  BY <1>1, AppendList DEF Texts
<1>3. Texts(Continued(value, line))
  BY <1>1, <1>2 DEF Continued
<1>4. ASSUME AllLists(value), IsList(line.text)
      PROVE  AllLists(Continued(value, line))
  <2> DEFINE text == line.text
  <2>1. text # Dot
    BY <1>4 DEF NoLists
  <2>2. CASE value = EmptyValue
    <3>1. Continued(value, line) = <<text>>
      BY <2>1, <2>2 DEF Continued
    <3>2. \A n \in 1 .. Len(<<text>>) : IsList(<<text>>[n])
      BY <1>1, <1>4
    <3> QED
      BY <3>1, <3>2 DEF AllLists
  <2>3. CASE value # EmptyValue
    <3> DEFINE new == Append(value, text)
    <3>1. Continued(value, line) = new
      BY <2>1, <2>3 DEF Continued
    <3>2. \A n \in 1 .. Len(value) : IsList(value[n])
      BY <1>4, <2>3 DEF AllLists
    <3>3. \A n \in 1 .. Len(value) + 1 : n \in 1 .. Len(value) \/ n = Len(value) + 1
      BY <1>1
    <3>4. /\ Len(new) = Len(value) + 1 /\ new[Len(value) + 1] = text
          /\ \A n \in 1 .. Len(value) : new[n] = value[n]
      BY <1>2
    <3> HIDE DEF new, text
    <3>5. \A n \in 1 .. Len(new) : IsList(new[n])
      BY <1>4, <3>2, <3>3, <3>4 DEF text
    <3> QED
      BY <3>1, <3>5 DEF AllLists
  <2> QED
    BY <2>2, <2>3
<1> QED
  BY <1>3, <1>4

\* A field with any value that is read after it was written, behind others.
LEMMA AnyFieldIsRead ==
  ASSUME NoLists, NEW p, NEW name, FieldName(name), NEW value, Texts(value)
  PROVE  \E read :
           /\ ReadsAs(value, read)
           /\ ReadLines(p, WriteField(name, value)) =
                [fields |-> Committed(p), name |-> name, value |-> read]
<1> DEFINE t == WithoutTrailingBlanks(value)
           more == Mapped(Tail(t), LAMBDA text : MoreLine(1, IF text = Blank THEN Dot ELSE text))
           first == FieldLine(name, t[1])
           After(read) == [fields |-> Committed(p), name |-> name, value |-> read]
           Good(q) == \E read : /\ q = After(read) /\ Texts(read)
                                /\ FoldedLists(value) => AllLists(read)
<1>1. /\ WriteField(name, value) = <<first>> \o more
      /\ IsList(more) /\ Len(more) = Len(t) - 1
      /\ \A n \in 1 .. Len(more) : more[n] = MoreLine(1, IF t[n + 1] = Blank THEN Dot ELSE t[n + 1])
  BY FieldLines DEF Texts
<1>2. /\ IsList(t) /\ t # <<>> /\ Len(t) \in 1 .. Len(value)
      /\ \A n \in 1 .. Len(t) : t[n] = value[n]
  BY TrimmedValue DEF Texts
<1> HIDE DEF t, more
<1>3. Len(value) \in Nat /\ Len(t) \in Nat \ {0} /\ Len(more) \in Nat
  BY <1>1, <1>2, ListFacts DEF Texts
<1>4. FoldedLists(value) =>
        /\ IsList(t[1]) \/ t[1] = Blank
        /\ \A n \in 2 .. Len(t) : IsList(t[n])
  <2> SUFFICES ASSUME FoldedLists(value)
               PROVE  /\ IsList(t[1]) \/ t[1] = Blank
                      /\ \A n \in 2 .. Len(t) : IsList(t[n])
    OBVIOUS
  <2>1. \A n \in 1 .. Len(t) : IsList(t[n]) \/ (n = 1 /\ t[1] = Blank)
    <3>1. \A n \in 1 .. Len(t) : n \in 1 .. Len(value)
      BY <1>2, <1>3
    <3> QED
      BY <1>2, <3>1 DEF FoldedLists
  <2>2. 1 \in 1 .. Len(t) /\ \A n \in 2 .. Len(t) : n \in 1 .. Len(t) /\ n # 1
    BY <1>3
  <2> QED
    BY <2>1, <2>2
<1>5. Good(ReadLines(p, <<first>>))
  <2>1. ReadLine(p, first) = After(<<t[1]>>)
    BY DEF ReadLine, IsField, FieldLine, FieldName
  <2>2. ReadLines(p, <<first>>) = ReadLine(p, first)
    <3> HIDE DEF first
    <3> QED
      BY SmallLists, ReadLinesUnfold
  <2> DEFINE one == <<t[1]>>
  <2>3. Texts(one) /\ Len(one) = 1 /\ one[1] = t[1]
    BY SmallLists DEF Texts
  <2>4. t[1] = Blank => one = EmptyValue
    BY DEF EmptyValue
  <2> HIDE DEF one
  <2>5. FoldedLists(value) => AllLists(one)
    <3>1. IsList(t[1]) => \A n \in 1 .. Len(one) : IsList(one[n])
      BY <2>3
    <3> QED
      BY <1>4, <2>4, <3>1 DEF AllLists
  <2> HIDE DEF After
  <2> QED
    BY <2>1, <2>2, <2>3, <2>5 DEF one
<1>6. PICK read : /\ ReadLines(ReadLines(p, <<first>>), more) = read[Len(more)]
                  /\ read[0] = ReadLines(p, <<first>>)
                  /\ \A n \in 1 .. Len(more) : read[n] = ReadLine(read[n - 1], more[n])
  <2> DEFINE q == ReadLines(p, <<first>>)
  <2>1. IsList(more)
    BY <1>1
  <2> HIDE DEF q
  <2> QED
    BY <2>1, ReadLinesUnfold DEF q
<1>7. ASSUME NEW n \in 1 .. Len(more), NEW q, Good(q)
      PROVE  Good(ReadLine(q, more[n]))
  <2>1. PICK was : q = After(was) /\ Texts(was) /\ (FoldedLists(value) => AllLists(was))
    BY <1>7
  <2> DEFINE line == MoreLine(1, IF t[n + 1] = Blank THEN Dot ELSE t[n + 1])
  <2>2. more[n] = line
    BY <1>1
  <2>3. ReadLine(q, line) = After(Continued(was, line))
    BY <2>1 DEF ReadLine, MoreLine, FieldName
  <2>4. FoldedLists(value) => IsList(line.text)
    <3>1. n + 1 \in 2 .. Len(t)
      BY <1>1, <1>3
    <3>2. FoldedLists(value) => IsList(t[n + 1]) /\ t[n + 1] # Blank
      BY <1>4, <3>1 DEF NoLists
    <3> QED
      BY <3>2 DEF MoreLine
  <2> HIDE DEF line, After
  <2>5. /\ Texts(Continued(was, line))
        /\ FoldedLists(value) => AllLists(Continued(was, line))
    BY <2>1, <2>4, AnyContinued
  <2> QED
    BY <2>2, <2>3, <2>5
<1>8. Good(read[Len(more)])
  <2> HIDE DEF Good
  <2> DEFINE S == {n \in Nat : n <= Len(more) => Good(read[n])}
  <2>1. 0 \in S
    BY <1>5, <1>6
  <2>2. ASSUME NEW n \in Nat, n \in S
        PROVE  n + 1 \in S
    <3> SUFFICES ASSUME n + 1 <= Len(more)
                 PROVE  Good(read[n + 1])
      OBVIOUS
    <3>1. n + 1 \in 1 .. Len(more) /\ (n + 1) - 1 = n /\ Good(read[n])
      BY <1>3, <2>2
    <3> QED
      BY <1>6, <1>7, <3>1
  <2>3. Len(more) \in S
    <3> HIDE DEF S
    <3> QED
      BY <1>3, <2>1, <2>2, SetInduction
  <2> QED
    BY <1>3, <2>3
<1>9. ReadLines(p, WriteField(name, value)) = read[Len(more)]
  <2> HIDE DEF first
  <2>1. IsList(<<first>>) /\ IsList(more)
    BY <1>1, SmallLists
  <2>2. ReadLines(p, <<first>> \o more) = ReadLines(ReadLines(p, <<first>>), more)
    BY <2>1, ReadLinesConcat
  <2> QED
    BY <1>1, <1>6, <2>2
<1>10. PICK final : /\ ReadLines(p, WriteField(name, value)) = After(final) /\ Texts(final)
                    /\ FoldedLists(value) => AllLists(final)
  BY <1>8, <1>9
<1>11. ASSUME Readable(value)
       PROVE  final = WithoutTrailingBlanks(value)
  <2>1. After(final) = After(WithoutTrailingBlanks(value))
    BY <1>10, <1>11, FieldIsRead
  <2>2. After(final).value = final /\ After(WithoutTrailingBlanks(value)).value = WithoutTrailingBlanks(value)
    OBVIOUS
  <2> HIDE DEF After
  <2> QED
    BY <2>1, <2>2
<1>12. ReadsAs(value, final)
  BY <1>10, <1>11 DEF ReadsAs
<1> QED
  BY <1>10, <1>12

-----------------------------------------------------------------------------
(* Fields.                                                                 *)

Distinct(fields) ==
  \A m, n \in 1 .. Len(fields) : fields[m].name = fields[n].name => m = n

LEMMA PlaceFacts ==
  ASSUME NEW fields, IsList(fields), NEW name, Has(fields, name)
  PROVE  /\ PlaceOf(fields, name) \in 1 .. Len(fields)
         /\ fields[PlaceOf(fields, name)].name = name
         /\ ValueOf(fields, name) = fields[PlaceOf(fields, name)].value
<1>1. \E n \in DOMAIN fields : fields[n].name = name
  BY DEF Has
<1>2. PlaceOf(fields, name) \in DOMAIN fields /\ fields[PlaceOf(fields, name)].name = name
  BY <1>1 DEF PlaceOf
<1> QED
  BY <1>2, ListFacts DEF ValueOf

\* A field is set in its place or at the end, and no other is touched.
LEMMA FieldIsSet ==
  ASSUME NEW fields, IsList(fields), NEW name, NEW value
  PROVE  LET new == SetField(fields, name, value)
             field == [name |-> name, value |-> value]
         IN /\ IsList(new) /\ Len(new) \in {Len(fields), Len(fields) + 1} /\ new # <<>>
            /\ \A n \in 1 .. Len(new) : new[n] = field \/ (n \in 1 .. Len(fields) /\ new[n] = fields[n])
            /\ \A n \in 1 .. Len(fields) : new[n].name = fields[n].name
            /\ \E n \in 1 .. Len(new) : new[n] = field
            /\ ~Has(fields, name) => new = Append(fields, field)
            /\ Distinct(fields) => Distinct(new)
<1> DEFINE new == SetField(fields, name, value)
           field == [name |-> name, value |-> value]
<1>1. Len(fields) \in Nat /\ DOMAIN fields = 1 .. Len(fields)
  BY ListFacts
<1>2. CASE Has(fields, name)
  <2> DEFINE place == PlaceOf(fields, name)
  <2>1. place \in 1 .. Len(fields) /\ fields[place].name = name
    BY <1>2, PlaceFacts
  <2>2. new = [fields EXCEPT ![place] = field]
    BY <1>2 DEF SetField
  <2>3. field.name = name
    OBVIOUS
  <2> HIDE DEF place, new, field
  <2>4. /\ new = [n \in 1 .. Len(fields) |-> new[n]]
        /\ new[place] = field
        /\ \A n \in 1 .. Len(fields) : n # place => new[n] = fields[n]
    BY <1>1, <2>1, <2>2
  <2>5. IsList(new) /\ Len(new) = Len(fields)
    BY <1>1, <2>4, FunctionIsList
  <2>6. \A n \in 1 .. Len(fields) : new[n].name = fields[n].name
    BY <2>1, <2>3, <2>4
  <2>7. Distinct(fields) => Distinct(new)
    BY <2>5, <2>6 DEF Distinct
  <2>8. new # <<>>
    BY <1>1, <2>1, <2>5, SmallLists
  <2>9. ASSUME NEW n \in 1 .. Len(new)
        PROVE  new[n] = field \/ (n \in 1 .. Len(fields) /\ new[n] = fields[n])
    <3>1. n \in 1 .. Len(fields)
      BY <2>5
    <3> QED
      BY <2>4, <3>1
  <2> QED
    BY <1>2, <2>1, <2>4, <2>5, <2>6, <2>7, <2>8, <2>9 DEF new, field
<1>3. CASE ~Has(fields, name)
  <2>1. new = Append(fields, field)
    BY <1>3 DEF SetField
  <2>2. field.name = name
    OBVIOUS
  <2> HIDE DEF new, field
  <2>3. /\ IsList(new) /\ Len(new) = Len(fields) + 1 /\ new # <<>>
        /\ \A n \in 1 .. Len(fields) : new[n] = fields[n]
        /\ new[Len(fields) + 1] = field
    BY <2>1, AppendList
  <2>4. \A n \in 1 .. Len(new) : n = Len(fields) + 1 \/ n \in 1 .. Len(fields)
    BY <1>1, <2>3
  <2>5. \A n \in 1 .. Len(fields) : fields[n].name # name
    BY <1>1, <1>3 DEF Has
  <2>6. Distinct(fields) => Distinct(new)
    BY <2>2, <2>3, <2>4, <2>5 DEF Distinct
  <2>7. Len(fields) + 1 \in 1 .. Len(new)
    BY <1>1, <2>3
  <2>8. ASSUME NEW n \in 1 .. Len(new)
        PROVE  new[n] = field \/ (n \in 1 .. Len(fields) /\ new[n] = fields[n])
    <3>1. n = Len(fields) + 1 \/ n \in 1 .. Len(fields)
      BY <2>4
    <3> QED
      BY <2>3, <3>1
  <2> QED
    BY <1>3, <2>1, <2>3, <2>6, <2>7, <2>8 DEF new, field
<1> QED
  BY <1>2, <1>3

-----------------------------------------------------------------------------
(* Paragraphs that were written.                                           *)

Nothing == [fields |-> <<>>, name |-> Absent, value |-> EmptyValue]

LEMMA FieldIsCommitted ==
  ASSUME NoLists, NEW p, NEW name, FieldName(name), NEW value, Texts(value)
  PROVE  /\ IsList(WriteField(name, value))
         /\ \E read :
              /\ ReadsAs(value, read)
              /\ Committed(ReadLines(p, WriteField(name, value))) =
                   SetField(Committed(p), name, read)
<1>1. PICK read :
        /\ ReadsAs(value, read)
        /\ ReadLines(p, WriteField(name, value)) =
             [fields |-> Committed(p), name |-> name, value |-> read]
  BY AnyFieldIsRead
<1> DEFINE q == [fields |-> Committed(p), name |-> name, value |-> read]
<1>2. Committed(q) = SetField(Committed(p), name, read)
  BY DEF Committed, FieldName
<1> QED
  BY <1>1, <1>2, FieldLines DEF Texts

\* What is read of the fields that are written in an order, those of them that are
\* there: each has the value it was written with.
IsOneOf(field, order, R) ==
  \E i \in 1 .. Len(order) :
    /\ R[order[i]] # Absent
    /\ \E read : ReadsAs(R[order[i]], read) /\ field = [name |-> order[i], value |-> read]
Holds(fields, order, R) ==
  IsList(fields) /\ \A n \in 1 .. Len(fields) : IsOneOf(fields[n], order, R)

LEMMA OrderIsRead ==
  ASSUME NoLists, NEW order, IsList(order), NEW R,
         \A i \in 1 .. Len(order) : FieldName(order[i]),
         \A i \in 1 .. Len(order) : R[order[i]] = Absent \/ Texts(R[order[i]]),
         NEW blocks, blocks = [i \in 1 .. Len(order) |-> Optional(order[i], R[order[i]])]
  PROVE  LET fields == Committed(ReadLines(Nothing, FlattenSeq(blocks))) IN
         /\ IsList(FlattenSeq(blocks)) /\ Holds(fields, order, R)
         /\ \A i \in 1 .. Len(order) : R[order[i]] # Absent => Has(fields, order[i])
<1>1. Len(order) \in Nat
  BY ListFacts
<1>2. IsList(blocks) /\ Len(blocks) = Len(order)
  BY <1>1, FunctionIsList
<1>3. \A i \in 1 .. Len(order) : IsList(blocks[i])
  BY FieldIsCommitted, SmallLists DEF Optional
<1>4. PICK flat : /\ FlattenSeq(blocks) = flat[Len(blocks)]
                  /\ flat[0] = <<>>
                  /\ \A n \in 1 .. Len(blocks) : flat[n] = flat[n - 1] \o blocks[n]
                  /\ \A n \in 0 .. Len(blocks) : IsList(flat[n])
  BY <1>2, <1>3, FlattenUnfolds
<1> DEFINE Read(n) == Committed(ReadLines(Nothing, flat[n]))
           Good(n) == /\ Holds(Read(n), order, R)
                      /\ \A i \in 1 .. n : R[order[i]] # Absent => Has(Read(n), order[i])
           S == {n \in Nat : n <= Len(order) => Good(n)}
<1>5. 0 \in S
  <2>1. Read(0) = <<>>
    BY <1>4, ReadNothing DEF Nothing, Committed
  <2>2. Holds(Read(0), order, R)
    BY <2>1, SmallLists DEF Holds
  <2> QED
    BY <2>2
<1>6. ASSUME NEW n \in Nat, n \in S
      PROVE  n + 1 \in S
  <2> SUFFICES ASSUME n + 1 <= Len(order)
               PROVE  Good(n + 1)
    OBVIOUS
  <2> DEFINE m == n + 1
             name == order[m]
             old == Read(n)
  <2>1. m \in 1 .. Len(order) /\ n \in 0 .. Len(order) /\ m - 1 = n /\ Good(n)
    BY <1>1, <1>6
  <2>2. 1 .. m = 1 .. n \cup {m}
    OBVIOUS
  <2> HIDE DEF m
  <2>3. flat[m] = flat[n] \o blocks[m] /\ IsList(flat[n]) /\ IsList(blocks[m])
    BY <1>2, <1>3, <1>4, <2>1
  <2>4. CASE R[name] = Absent
    <3>1. flat[m] = flat[n]
      BY <2>1, <2>3, <2>4, ConcatList DEF Optional
    <3>2. Good(m)
      BY <2>1, <2>2, <2>4, <3>1
    <3> QED
      BY <3>2 DEF m
  <2>5. CASE R[name] # Absent
    <3>1. PICK value : ReadsAs(R[name], value) /\ Read(m) = SetField(old, name, value)
      <4>1. blocks[m] = WriteField(name, R[name])
        BY <2>1, <2>5 DEF Optional
      <4>2. ReadLines(Nothing, flat[m]) = ReadLines(ReadLines(Nothing, flat[n]), blocks[m])
        BY <2>3, ReadLinesConcat
      <4>3. FieldName(name) /\ Texts(R[name])
        BY <2>1, <2>5
      <4> DEFINE q == ReadLines(Nothing, flat[n])
                 text == R[name]
      <4>4. FieldName(name) /\ Texts(text) /\ Read(m) = Committed(ReadLines(q, WriteField(name, text)))
        BY <4>1, <4>2, <4>3
      <4> HIDE DEF q, text, name
      <4>5. \E read : /\ ReadsAs(text, read)
                      /\ Committed(ReadLines(q, WriteField(name, text))) = SetField(Committed(q), name, read)
        BY <4>4, FieldIsCommitted
      <4> QED
        BY <4>4, <4>5 DEF q, text
    <3> DEFINE field == [name |-> name, value |-> value]
               new == SetField(old, name, value)
    <3>2. IsList(old)
      BY <2>1 DEF Holds
    <3>3. /\ IsList(new)
          /\ \A k \in 1 .. Len(new) : new[k] = field \/ (k \in 1 .. Len(old) /\ new[k] = old[k])
          /\ \A k \in 1 .. Len(old) : new[k].name = old[k].name
          /\ \E k \in 1 .. Len(new) : new[k] = field
          /\ Len(new) \in {Len(old), Len(old) + 1}
      BY <3>2, FieldIsSet
    <3>4. \A k \in 1 .. Len(old) : IsOneOf(old[k], order, R)
      BY <2>1 DEF Holds
    <3>5. field.name = name /\ Read(m) = new
      BY <3>1
    <3>6. DOMAIN old = 1 .. Len(old) /\ DOMAIN new = 1 .. Len(new) /\ Len(old) \in Nat
      BY <3>2, <3>3, ListFacts
    <3> HIDE DEF old, new
    <3>7. Holds(new, order, R)
      <4>1. ASSUME NEW k \in 1 .. Len(new)
            PROVE  IsOneOf(new[k], order, R)
        <5>1. CASE new[k] = field
          BY <2>1, <2>5, <3>1, <5>1 DEF IsOneOf
        <5>2. CASE k \in 1 .. Len(old) /\ new[k] = old[k]
          BY <3>4, <5>2
        <5> QED
          BY <3>3, <5>1, <5>2
      <4> QED
        BY <3>3, <4>1 DEF Holds
    <3> HIDE DEF field
    <3>8. Has(new, name)
      BY <3>3, <3>5, <3>6 DEF Has
    <3>9. ASSUME NEW i \in 1 .. n, R[order[i]] # Absent
          PROVE  Has(new, order[i])
      <4>1. PICK k \in 1 .. Len(old) : old[k].name = order[i]
        BY <2>1, <3>6, <3>9 DEF Has, old
      <4>2. k \in 1 .. Len(new)
        <5>1. Len(new) = Len(old) \/ Len(new) = Len(old) + 1
          BY <3>3
        <5>2. Len(old) \in Nat
          BY <3>6
        <5> HIDE DEF old, new
        <5> QED
          BY <4>1, <5>1, <5>2
      <4>3. new[k].name = order[i]
        BY <3>3, <4>1
      <4> QED
        BY <3>6, <4>2, <4>3 DEF Has
    <3>10. Good(m)
      <4> HIDE DEF name
      <4> QED
        BY <2>2, <3>5, <3>7, <3>8, <3>9 DEF name
    <3> QED
      BY <3>10 DEF m
  <2> QED
    BY <2>4, <2>5
<1>7. Good(Len(order))
  <2>1. Len(order) \in S
    <3> HIDE DEF S
    <3> QED
      BY <1>1, <1>5, <1>6, SetInduction
  <2> QED
    BY <1>1, <2>1
<1> QED
  BY <1>1, <1>2, <1>4, <1>7

IsReadOf(field, of) ==
  \E read : ReadsAs(of.value, read) /\ field = [name |-> of.name, value |-> read]

\* Fields that were not there are read to the end of those that were, in their order.
LEMMA MoreIsRead ==
  ASSUME NoLists, NEW p, IsList(Committed(p)), NEW more, IsList(more), Distinct(more),
         \A i \in 1 .. Len(more) : FieldName(more[i].name) /\ Texts(more[i].value)
                                     /\ ~Has(Committed(p), more[i].name),
         NEW blocks, blocks = [i \in 1 .. Len(more) |-> WriteField(more[i].name, more[i].value)]
  PROVE  LET old == Committed(p)
             new == Committed(ReadLines(p, FlattenSeq(blocks)))
         IN /\ IsList(FlattenSeq(blocks)) /\ IsList(new) /\ Len(new) = Len(old) + Len(more)
            /\ \A i \in 1 .. Len(old) : new[i] = old[i]
            /\ \A i \in 1 .. Len(more) : IsReadOf(new[Len(old) + i], more[i])
<1> DEFINE old == Committed(p)
<1>1. Len(more) \in Nat /\ Len(old) \in Nat /\ IsList(old) /\ DOMAIN old = 1 .. Len(old)
  BY ListFacts
<1>2. IsList(blocks) /\ Len(blocks) = Len(more)
  BY <1>1, FunctionIsList
<1>3. \A i \in 1 .. Len(more) : IsList(blocks[i])
  BY FieldIsCommitted
<1>4. PICK flat : /\ FlattenSeq(blocks) = flat[Len(blocks)]
                  /\ flat[0] = <<>>
                  /\ \A n \in 1 .. Len(blocks) : flat[n] = flat[n - 1] \o blocks[n]
                  /\ \A n \in 0 .. Len(blocks) : IsList(flat[n])
  BY <1>2, <1>3, FlattenUnfolds
<1>5. \A i \in 1 .. Len(more), k \in 1 .. Len(old) : old[k].name # more[i].name
  BY <1>1 DEF Has
<1>6. \A i \in 1 .. Len(more) : \A field : IsReadOf(field, more[i]) => field.name = more[i].name
  BY DEF IsReadOf
<1> HIDE DEF old
<1> DEFINE Read(n) == Committed(ReadLines(p, flat[n]))
           Good(n) == /\ IsList(Read(n)) /\ Len(Read(n)) = Len(old) + n
                      /\ \A i \in 1 .. Len(old) : Read(n)[i] = old[i]
                      /\ \A i \in 1 .. n : IsReadOf(Read(n)[Len(old) + i], more[i])
           S == {n \in Nat : n <= Len(more) => Good(n)}
<1>7. 0 \in S
  <2>1. Read(0) = old
    BY <1>4, ReadNothing DEF old
  <2> QED
    BY <1>1, <2>1
<1>8. ASSUME NEW n \in Nat, n \in S
      PROVE  n + 1 \in S
  <2> SUFFICES ASSUME n + 1 <= Len(more)
               PROVE  Good(n + 1)
    OBVIOUS
  <2> DEFINE m == n + 1
             was == Read(n)
             name == more[m].name
  <2>1. m \in 1 .. Len(more) /\ m - 1 = n /\ Good(n) /\ n \in 0 .. Len(more)
    BY <1>1, <1>8
  <2>2. \A i \in 1 .. m : i = m \/ i \in 1 .. n
    OBVIOUS
  <2>3. Len(old) + m = (Len(old) + n) + 1 /\ Len(old) + n \in Nat
    BY <1>1
  <2>4. \A k \in 1 .. Len(old) + n : k \in 1 .. Len(old) \/ \E i \in 1 .. n : k = Len(old) + i
    <3> TAKE k \in 1 .. Len(old) + n
    <3>1. k - Len(old) \in 1 .. n \/ k \in 1 .. Len(old)
      BY <1>1
    <3>2. k = Len(old) + (k - Len(old))
      BY <1>1
    <3> QED
      BY <3>1, <3>2
  <2>5. \A i \in 1 .. n : i # m /\ i \in 1 .. Len(more)
    BY <2>1
  <2> HIDE DEF m
  <2>6. PICK value : ReadsAs(more[m].value, value) /\ Read(m) = SetField(was, name, value)
    <3>1. ReadLines(p, flat[m]) = ReadLines(ReadLines(p, flat[n]), blocks[m])
      <4>1. flat[m] = flat[n] \o blocks[m] /\ IsList(flat[n]) /\ IsList(blocks[m])
        BY <1>2, <1>3, <1>4, <2>1
      <4> QED
        BY <4>1, ReadLinesConcat
    <3>2. blocks[m] = WriteField(name, more[m].value)
      BY <2>1
    <3>3. FieldName(name) /\ Texts(more[m].value)
      BY <2>1
    <3> DEFINE q == ReadLines(p, flat[n])
               text == more[m].value
    <3>4. FieldName(name) /\ Texts(text) /\ Read(m) = Committed(ReadLines(q, WriteField(name, text)))
      BY <3>1, <3>2, <3>3
    <3> HIDE DEF q, text, name
    <3>5. \E read : /\ ReadsAs(text, read)
                    /\ Committed(ReadLines(q, WriteField(name, text))) = SetField(Committed(q), name, read)
      BY <3>4, FieldIsCommitted
    <3> QED
      BY <3>4, <3>5 DEF q, text
  <2> DEFINE is == SetField(was, name, value)
             field == [name |-> name, value |-> value]
  <2>7. /\ IsList(was) /\ Len(was) = Len(old) + n /\ DOMAIN was = 1 .. Len(old) + n
        /\ Read(m) = is
    BY <2>1, <2>6, ListFacts
  <2>8. ~Has(was, name)
    <3>1. ASSUME NEW k \in 1 .. Len(old) + n, was[k].name = name
          PROVE  FALSE
      <4>1. CASE k \in 1 .. Len(old)
        BY <1>5, <2>1, <3>1, <4>1
      <4>2. CASE \E i \in 1 .. n : k = Len(old) + i
        <5>1. PICK i \in 1 .. n : k = Len(old) + i
          BY <4>2
        <5>2. was[k].name = more[i].name
          BY <1>6, <2>1, <2>5, <5>1
        <5> QED
          BY <2>1, <2>5, <3>1, <5>2 DEF Distinct
      <4> QED
        BY <2>4, <4>1, <4>2
    <3> HIDE DEF was, name
    <3> QED
      BY <2>7, <3>1 DEF Has
  <2>9. is = Append(was, field) /\ IsReadOf(field, more[m])
    <3>1. IsReadOf(field, more[m])
      BY <2>6 DEF IsReadOf
    <3> HIDE DEF was, name
    <3>2. is = Append(was, field)
      BY <2>7, <2>8, FieldIsSet
    <3> QED
      BY <3>1, <3>2
  <2>10. /\ IsList(is) /\ Len(is) = Len(old) + m
         /\ \A i \in 1 .. Len(old) + n : is[i] = was[i]
         /\ is[Len(old) + m] = field
    <3> HIDE DEF is, was, field
    <3> QED
      BY <2>3, <2>7, <2>9, AppendList
  <2>11. \A i \in 1 .. Len(old) : is[i] = old[i]
    <3>1. \A i \in 1 .. Len(old) : i \in 1 .. Len(old) + n
      BY <1>1, <2>1
    <3> HIDE DEF is
    <3> QED
      BY <2>1, <2>10, <3>1
  <2>12. \A i \in 1 .. m : IsReadOf(is[Len(old) + i], more[i])
    <3>1. \A i \in 1 .. n : Len(old) + i \in 1 .. Len(old) + n
      BY <1>1, <2>1
    <3> HIDE DEF is, field
    <3> QED
      BY <2>1, <2>2, <2>9, <2>10, <3>1
  <2>13. Good(m)
    <3> HIDE DEF is
    <3> QED
      BY <2>7, <2>10, <2>11, <2>12
  <2> QED
    BY <2>13 DEF m
<1>9. Good(Len(more))
  <2>1. Len(more) \in S
    <3> HIDE DEF S
    <3> QED
      BY <1>1, <1>7, <1>8, SetInduction
  <2> QED
    BY <1>1, <2>1
<1>10. flat[Len(more)] = FlattenSeq(blocks) /\ IsList(FlattenSeq(blocks))
  <2>1. Len(more) \in 0 .. Len(more)
    BY <1>1
  <2> QED
    BY <1>2, <1>4, <2>1
<1> QED
  BY <1>9, <1>10 DEF old

-----------------------------------------------------------------------------
(* Paragraphs of any lines.                                                *)

\* Fields of some names that have texts, and if "exact" are read as they are written;
\* in a paragraph no name is there twice.
Fields(fields, Names, exact) ==
  /\ IsList(fields)
  /\ \A n \in 1 .. Len(fields) :
       /\ fields[n].name \in Names /\ Texts(fields[n].value)
       /\ exact => Readable(fields[n].value)
Paragraph(fields, Names, exact) == Distinct(fields) /\ Fields(fields, Names, exact)

LEMMA ParagraphSet ==
  ASSUME NEW Names, NEW exact, NEW fields, Paragraph(fields, Names, exact),
         NEW name \in Names, NEW value, Texts(value), exact => Readable(value)
  PROVE  Paragraph(SetField(fields, name, value), Names, exact)
<1> DEFINE new == SetField(fields, name, value)
           field == [name |-> name, value |-> value]
<1>1. /\ IsList(new) /\ Distinct(new)
      /\ \A n \in 1 .. Len(new) : new[n] = field \/ (n \in 1 .. Len(fields) /\ new[n] = fields[n])
  BY FieldIsSet DEF Paragraph, Fields
<1>2. field.name = name /\ field.value = value
  OBVIOUS
<1> HIDE DEF new, field
<1>3. ASSUME NEW n \in 1 .. Len(new)
      PROVE  /\ new[n].name \in Names /\ Texts(new[n].value)
             /\ exact => Readable(new[n].value)
  <2>1. CASE new[n] = field
    BY <1>2, <2>1
  <2>2. CASE n \in 1 .. Len(fields) /\ new[n] = fields[n]
    BY <2>2 DEF Paragraph, Fields
  <2> QED
    BY <1>1, <2>1, <2>2
<1>4. Paragraph(new, Names, exact)
  BY <1>1, <1>3 DEF Paragraph, Fields
<1> QED
  BY <1>4 DEF new

LEMMA ParagraphValue ==
  ASSUME NEW Names, NEW exact, NEW fields, Fields(fields, Names, exact), NEW name
  PROVE  /\ ~Has(fields, name) => ValueOf(fields, name) = Absent
         /\ Has(fields, name) => /\ name \in Names /\ Texts(ValueOf(fields, name))
                                 /\ exact => Readable(ValueOf(fields, name))
<1>1. ~Has(fields, name) => ValueOf(fields, name) = Absent
  BY DEF ValueOf
<1>2. ASSUME Has(fields, name)
      PROVE  /\ name \in Names /\ Texts(ValueOf(fields, name))
             /\ exact => Readable(ValueOf(fields, name))
  <2>1. /\ PlaceOf(fields, name) \in 1 .. Len(fields)
        /\ fields[PlaceOf(fields, name)].name = name
        /\ ValueOf(fields, name) = fields[PlaceOf(fields, name)].value
    BY <1>2, PlaceFacts DEF Fields
  <2> QED
    BY <2>1 DEF Fields
<1> QED
  BY <1>1, <1>2

\* Only a line of a period alone that is indented further is not read as it is written.
LEMMA ReadableContinued ==
  ASSUME NEW value, Readable(value), NEW line, line.text = Dot => line.indent = 1, Blank # Dot
  PROVE  Readable(Continued(value, line))
<1>1. IsList(value) /\ Len(value) \in Nat \ {0}
  BY ListFacts DEF Readable
<1>2. ASSUME NEW text, text # Dot, value = EmptyValue => text = Blank
      PROVE  Readable(Append(value, text))
  <2> DEFINE new == Append(value, text)
  <2>1. /\ IsList(new) /\ Len(new) = Len(value) + 1 /\ new # <<>>
        /\ \A i \in 1 .. Len(value) : new[i] = value[i]
        /\ new[Len(value) + 1] = text
    BY <1>1, AppendList
  <2> HIDE DEF new
  <2>2. ASSUME NEW n \in 2 .. Len(new)
        PROVE  new[n] # Dot
    <3>1. n = Len(value) + 1 \/ (n \in 1 .. Len(value) /\ n \in 2 .. Len(value))
      BY <1>1, <2>1
    <3> QED
      BY <1>2, <2>1, <3>1 DEF Readable
  <2>3. ASSUME new[1] = Blank
        PROVE  new[2] = Blank
    <3>1. value[1] = Blank
      BY <1>1, <2>1, <2>3
    <3>2. CASE Len(value) = 1
      <4>1. value = EmptyValue
        <5> DEFINE e == EmptyValue
        <5>1. IsList(e) /\ Len(e) = 1 /\ e[1] = Blank
          BY SmallLists DEF EmptyValue
        <5> HIDE DEF e
        <5>2. value = e
          BY <1>1, <3>1, <3>2, <5>1, ListEqual
        <5> QED
          BY <5>2 DEF e
      <4> QED
        BY <1>2, <2>1, <3>2, <4>1
    <3>3. CASE Len(value) # 1
      <4>1. Len(value) > 1 /\ 2 \in 1 .. Len(value)
        <5> DEFINE N == Len(value)
        <5>1. N \in Nat \ {0} /\ N # 1
          BY <1>1, <3>3
        <5> HIDE DEF N
        <5>2. N > 1 /\ 2 \in 1 .. N
          BY <5>1
        <5> QED
          BY <5>2 DEF N
      <4>2. value[2] = Blank
        BY <3>1, <4>1 DEF Readable
      <4> QED
        BY <2>1, <4>1, <4>2
    <3> QED
      BY <3>2, <3>3
  <2>4. Readable(new)
    BY <2>1, <2>2, <2>3 DEF Readable
  <2> QED
    BY <2>4 DEF new
<1>3. CASE line.indent = 1 /\ line.text = Dot
  BY <1>2, <1>3 DEF Continued
<1>4. CASE ~(line.indent = 1 /\ line.text = Dot) /\ value = EmptyValue
  BY <1>4, ReadableOne DEF Continued
<1>5. CASE ~(line.indent = 1 /\ line.text = Dot) /\ value # EmptyValue
  <2>1. line.text # Dot
    BY <1>5
  <2>2. Continued(value, line) = Append(value, line.text)
    BY <1>5 DEF Continued
  <2> QED
    BY <1>2, <1>5, <2>1, <2>2
<1> QED
  BY <1>3, <1>4, <1>5

FieldNames(lines) == {lines[n].name : n \in {n \in 1 .. Len(lines) : IsField(lines[n])}}

\* What is read of lines is a paragraph.
LEMMA LinesAreRead ==
  ASSUME NoLists, NEW lines, IsList(lines), Absent \notin FieldNames(lines), NEW exact,
         exact => \A n \in 1 .. Len(lines) :
                    lines[n].kind = "more" /\ lines[n].text = Dot => lines[n].indent = 1
  PROVE  Paragraph(ParseParagraph(lines), FieldNames(lines), exact)
<1> DEFINE Names == FieldNames(lines)
           Good(p) == /\ p = [fields |-> p.fields, name |-> p.name, value |-> p.value]
                      /\ Paragraph(p.fields, Names, exact)
                      /\ Texts(p.value) /\ (exact => Readable(p.value))
                      /\ p.name # Absent => p.name \in Names
<1>1. \A n \in 1 .. Len(lines) : IsField(lines[n]) => lines[n].name \in Names
  BY DEF FieldNames
<1>2. Absent \notin Names
  OBVIOUS
<1> HIDE DEF Names
<1>3. PICK read : /\ ReadLines(Nothing, lines) = read[Len(lines)]
                  /\ read[0] = Nothing
                  /\ \A n \in 1 .. Len(lines) : read[n] = ReadLine(read[n - 1], lines[n])
  BY ReadLinesUnfold
<1>4. Len(lines) \in Nat
  BY ListFacts
<1>5. ASSUME NEW p, Good(p)
      PROVE  Paragraph(Committed(p), Names, exact)
  <2>1. CASE p.name = Absent
    BY <1>5, <2>1 DEF Committed
  <2>2. CASE p.name # Absent
    <3>1. Committed(p) = SetField(p.fields, p.name, p.value)
      BY <2>2 DEF Committed
    <3> QED
      BY <1>5, <2>2, <3>1, ParagraphSet
  <2> QED
    BY <2>1, <2>2
<1>6. Good(Nothing)
  <2>1. Paragraph(<<>>, Names, exact)
    BY SmallLists DEF Paragraph, Fields, Distinct
  <2>2. Readable(EmptyValue) /\ Texts(EmptyValue)
    BY ReadableOne DEF EmptyValue, Readable, Texts
  <2>3. Nothing.fields = <<>> /\ Nothing.name = Absent /\ Nothing.value = EmptyValue
    BY DEF Nothing
  <2>4. Nothing = [fields |-> <<>>, name |-> Absent, value |-> EmptyValue]
    BY DEF Nothing
  <2> QED
    BY <2>1, <2>2, <2>3, <2>4
<1>7. ASSUME NEW p, Good(p), NEW n \in 1 .. Len(lines)
      PROVE  Good(ReadLine(p, lines[n]))
  <2> DEFINE line == lines[n]
             q == ReadLine(p, line)
  <2>1. CASE line.kind = "more" /\ p.name # Absent
    <3>1. q = [p EXCEPT !.value = Continued(p.value, line)]
      BY <2>1 DEF ReadLine
    <3>2. exact => (line.text = Dot => line.indent = 1)
      BY <2>1
    <3> HIDE DEF line, q
    <3>3. q = [fields |-> p.fields, name |-> p.name, value |-> Continued(p.value, line)]
      BY <1>7, <3>1
    <3>4. Texts(Continued(p.value, line)) /\ (exact => Readable(Continued(p.value, line)))
      BY <1>7, <3>2, ReadableContinued, AnyContinued DEF NoLists
    <3>5. q.fields = p.fields /\ q.name = p.name /\ q.value = Continued(p.value, line)
      BY <3>3
    <3>6. Good(q)
      BY <1>7, <3>3, <3>4, <3>5
    <3> QED
      BY <3>6 DEF q, line
  <2>2. CASE ~(line.kind = "more" /\ p.name # Absent) /\ IsField(line)
    <3>1. q = [fields |-> Committed(p), name |-> line.name, value |-> <<line.text>>]
      BY <2>2 DEF ReadLine
    <3>2. line.name \in Names
      BY <1>1, <2>2
    <3> HIDE DEF line, q
    <3>3. q.fields = Committed(p) /\ q.name = line.name /\ q.value = <<line.text>>
      BY <3>1
    <3>4. Readable(<<line.text>>) /\ Texts(<<line.text>>)
      BY ReadableOne DEF Readable, Texts
    <3>5. Good(q)
      BY <1>5, <1>7, <3>1, <3>2, <3>3, <3>4
    <3> QED
      BY <3>5 DEF q, line
  <2>3. CASE ~(line.kind = "more" /\ p.name # Absent) /\ ~IsField(line)
    BY <1>7, <2>3 DEF ReadLine
  <2> QED
    BY <2>1, <2>2, <2>3
<1> HIDE DEF Good
<1> DEFINE S == {n \in Nat : n <= Len(lines) => Good(read[n])}
<1>8. Good(read[Len(lines)])
  <2>1. 0 \in S
    BY <1>3, <1>6
  <2>2. ASSUME NEW n \in Nat, n \in S
        PROVE  n + 1 \in S
    <3> SUFFICES ASSUME n + 1 <= Len(lines)
                 PROVE  Good(read[n + 1])
      OBVIOUS
    <3>1. n + 1 \in 1 .. Len(lines) /\ (n + 1) - 1 = n /\ Good(read[n])
      BY <1>4, <2>2
    <3>2. read[n + 1] = ReadLine(read[n], lines[n + 1])
      BY <1>3, <3>1
    <3> QED
      BY <1>7, <3>1, <3>2
  <2>3. Len(lines) \in S
    <3> HIDE DEF S
    <3> QED
      BY <1>4, <2>1, <2>2, SetInduction
  <2> QED
    BY <1>4, <2>3
<1>9. ParseParagraph(lines) = Committed(ReadLines(Nothing, lines))
  BY DEF ParseParagraph, Nothing
<1>10. Paragraph(ParseParagraph(lines), Names, exact)
  BY <1>3, <1>5, <1>8, <1>9
<1> QED
  BY <1>10 DEF Names

-----------------------------------------------------------------------------
(* User-defined fields.                                                    *)

\* ExtraFields satisfies its equation.
LEMMA ExtraFieldsUnfold ==
  ASSUME NEW fields, IsList(fields)
  PROVE  \E extra : /\ ExtraFields(fields) = extra[Len(fields)]
                    /\ extra[0] = <<>>
                    /\ \A n \in 1 .. Len(fields) :
                         extra[n] = IF fields[n].name \in Known THEN extra[n - 1]
                                    ELSE SetField(extra[n - 1], ExtraName(fields[n].name),
                                                  fields[n].value)
<1> DEFINE More(n, b) == IF fields[n].name \in Known THEN b
                         ELSE SetField(b, ExtraName(fields[n].name), fields[n].value)
           Rec(g, k) == g = [n \in 0 .. k |-> IF n = 0 THEN <<>> ELSE More(n, g[n - 1])]
           S == {k \in Nat : \E g : Rec(g, k)}
           extra == CHOOSE g : Rec(g, Len(fields))
<1>1. ExtraFields(fields) = extra[Len(fields)]
  BY DEF ExtraFields
<1> HIDE DEF More
<1>2. 0 \in S
  <2> DEFINE g == [n \in 0 .. 0 |-> <<>>]
  <2>1. Rec(g, 0)
    OBVIOUS
  <2> HIDE DEF g, Rec
  <2> QED
    BY <2>1
<1>3. ASSUME NEW k \in Nat, k \in S
      PROVE  k + 1 \in S
  <2>1. PICK g : Rec(g, k)
    BY <1>3
  <2> DEFINE h == [n \in 0 .. k + 1 |-> IF n = k + 1 THEN More(n, g[k]) ELSE g[n]]
  <2>2. Rec(h, k + 1)
    BY <2>1
  <2> HIDE DEF h, Rec
  <2> QED
    BY <2>2
<1>4. Len(fields) \in Nat
  BY ListFacts
<1>5. Len(fields) \in S
  <2> HIDE DEF S
  <2> QED
    BY <1>2, <1>3, <1>4, SetInduction
<1>6. Rec(extra, Len(fields))
  BY <1>5
<1> HIDE DEF extra
<1>7. extra[0] = <<>> /\ \A n \in 1 .. Len(fields) : extra[n] = More(n, extra[n - 1])
  BY <1>4, <1>6
<1> QED
  BY <1>1, <1>7 DEF More

LEMMA ExtraIsParagraph ==
  ASSUME NEW Names, NEW exact, NEW fields, Fields(fields, Names, exact)
  PROVE  Paragraph(ExtraFields(fields), {ExtraName(name) : name \in Names \ Known}, exact)
<1> DEFINE Extras == {ExtraName(name) : name \in Names \ Known}
<1>1. PICK extra : /\ ExtraFields(fields) = extra[Len(fields)]
                   /\ extra[0] = <<>>
                   /\ \A n \in 1 .. Len(fields) :
                        extra[n] = IF fields[n].name \in Known THEN extra[n - 1]
                                   ELSE SetField(extra[n - 1], ExtraName(fields[n].name),
                                                 fields[n].value)
  BY ExtraFieldsUnfold DEF Fields
<1>2. Len(fields) \in Nat
  BY ListFacts DEF Fields
<1> DEFINE S == {n \in Nat : n <= Len(fields) => Paragraph(extra[n], Extras, exact)}
<1>3. 0 \in S
  BY <1>1, SmallLists DEF Paragraph, Fields, Distinct
<1>4. ASSUME NEW n \in Nat, n \in S
      PROVE  n + 1 \in S
  <2> SUFFICES ASSUME n + 1 <= Len(fields)
               PROVE  Paragraph(extra[n + 1], Extras, exact)
    OBVIOUS
  <2>1. n + 1 \in 1 .. Len(fields) /\ (n + 1) - 1 = n /\ Paragraph(extra[n], Extras, exact)
    BY <1>2, <1>4
  <2>2. extra[n + 1] = IF fields[n + 1].name \in Known THEN extra[n]
                       ELSE SetField(extra[n], ExtraName(fields[n + 1].name), fields[n + 1].value)
    BY <1>1, <2>1
  <2>3. /\ fields[n + 1].name \in Names /\ Texts(fields[n + 1].value)
        /\ exact => Readable(fields[n + 1].value)
    BY <2>1 DEF Fields
  <2>4. CASE fields[n + 1].name \in Known
    BY <2>1, <2>2, <2>4
  <2>5. CASE fields[n + 1].name \notin Known
    <3>1. ExtraName(fields[n + 1].name) \in Extras
      BY <2>3, <2>5
    <3> HIDE DEF Extras
    <3> QED
      BY <2>1, <2>2, <2>3, <2>5, <3>1, ParagraphSet
  <2> QED
    BY <2>4, <2>5
<1>5. Len(fields) \in S
  <2> HIDE DEF S
  <2> QED
    BY <1>2, <1>3, <1>4, SetInduction
<1> QED
  BY <1>1, <1>2, <1>5

\* Of an index entry, the fields behind those of a Package are kept as they are.
LEMMA ExtraKept ==
  ASSUME NEW fields, IsList(fields), NEW K \in 0 .. Len(fields),
         \A n \in 1 .. K : fields[n].name \in Known,
         \A n \in K + 1 .. Len(fields) :
           /\ fields[n].name \notin Known /\ ExtraName(fields[n].name) = fields[n].name
           /\ fields[n] = [name |-> fields[n].name, value |-> fields[n].value]
           /\ \A m \in K + 1 .. Len(fields) : fields[m].name = fields[n].name => m = n
  PROVE  /\ IsList(ExtraFields(fields)) /\ Len(ExtraFields(fields)) = Len(fields) - K
         /\ \A i \in 1 .. Len(fields) - K : ExtraFields(fields)[i] = fields[K + i]
<1>1. PICK extra : /\ ExtraFields(fields) = extra[Len(fields)]
                   /\ extra[0] = <<>>
                   /\ \A n \in 1 .. Len(fields) :
                        extra[n] = IF fields[n].name \in Known THEN extra[n - 1]
                                   ELSE SetField(extra[n - 1], ExtraName(fields[n].name),
                                                 fields[n].value)
  BY ExtraFieldsUnfold
<1>2. Len(fields) \in Nat /\ K \in Nat /\ K <= Len(fields)
  BY ListFacts
<1> DEFINE S == {n \in Nat : n <= K => extra[n] = <<>>}
           Good(m) == /\ IsList(extra[K + m]) /\ Len(extra[K + m]) = m
                      /\ \A i \in 1 .. m : extra[K + m][i] = fields[K + i]
           T == {m \in Nat : m <= Len(fields) - K => Good(m)}
<1>3. extra[K] = <<>>
  <2>1. 0 \in S
    BY <1>1
  <2>2. ASSUME NEW n \in Nat, n \in S
        PROVE  n + 1 \in S
    <3> SUFFICES ASSUME n + 1 <= K
                 PROVE  extra[n + 1] = <<>>
      OBVIOUS
    <3>1. n + 1 \in 1 .. K /\ n + 1 \in 1 .. Len(fields) /\ (n + 1) - 1 = n /\ extra[n] = <<>>
      BY <1>2, <2>2
    <3> QED
      BY <1>1, <3>1
  <2>3. K \in S
    <3> HIDE DEF S
    <3> QED
      BY <1>2, <2>1, <2>2, SetInduction
  <2> QED
    BY <1>2, <2>3
<1>4. 0 \in T
  <2>1. K + 0 = K
    BY <1>2
  <2>2. Good(0)
    BY <1>3, <2>1, SmallLists
  <2> QED
    BY <2>2
<1>5. ASSUME NEW m \in Nat, m \in T
      PROVE  m + 1 \in T
  <2> SUFFICES ASSUME m + 1 <= Len(fields) - K
               PROVE  Good(m + 1)
    OBVIOUS
  <2> DEFINE n == K + (m + 1)
             was == extra[K + m]
             f == fields[n]
  <2>1. /\ n \in K + 1 .. Len(fields) /\ n \in 1 .. Len(fields) /\ n - 1 = K + m
        /\ Good(m)
    BY <1>2, <1>5
  <2>2. \A i \in 1 .. m : K + i \in K + 1 .. Len(fields) /\ K + i # n
    BY <1>2, <2>1
  <2> HIDE DEF n
  <2>3. f.name \notin Known /\ ExtraName(f.name) = f.name /\ f = [name |-> f.name, value |-> f.value]
    BY <2>1
  <2>4. extra[n] = SetField(was, f.name, f.value)
    BY <1>1, <2>1, <2>3
  <2>5. IsList(was) /\ Len(was) = m /\ DOMAIN was = 1 .. m
    BY <2>1, ListFacts
  <2>6. ~Has(was, f.name)
    <3>1. ASSUME NEW i \in 1 .. m, was[i].name = f.name
          PROVE  FALSE
      <4>1. was[i] = fields[K + i]
        BY <2>1
      <4> DEFINE k == K + i
      <4>2. k \in K + 1 .. Len(fields) /\ k # n
        BY <2>2
      <4>3. fields[k].name = fields[n].name
        BY <3>1, <4>1
      <4> HIDE DEF k
      <4> QED
        BY <2>1, <4>2, <4>3
    <3> HIDE DEF was, f
    <3> QED
      BY <2>5, <3>1 DEF Has
  <2>7. extra[n] = Append(was, f)
    <3> HIDE DEF was, f
    <3> QED
      BY <2>3, <2>4, <2>5, <2>6, FieldIsSet
  <2>8. /\ IsList(extra[n]) /\ Len(extra[n]) = m + 1
        /\ \A i \in 1 .. m : extra[n][i] = was[i]
        /\ extra[n][m + 1] = f
    <3> HIDE DEF was, f
    <3> QED
      BY <2>5, <2>7, AppendList
  <2>9. ASSUME NEW i \in 1 .. m + 1
        PROVE  extra[n][i] = fields[K + i]
    <3>1. i = m + 1 \/ i \in 1 .. m
      OBVIOUS
    <3>2. CASE i = m + 1
      BY <2>8, <3>2 DEF n
    <3>3. CASE i \in 1 .. m
      BY <2>1, <2>8, <3>3
    <3> QED
      BY <3>1, <3>2, <3>3
  <2> QED
    BY <2>8, <2>9 DEF n
<1>6. Good(Len(fields) - K)
  <2>1. Len(fields) - K \in Nat
    BY <1>2
  <2>2. Len(fields) - K \in T
    <3> HIDE DEF T
    <3> QED
      BY <1>4, <1>5, <2>1, SetInduction
  <2> QED
    BY <2>1, <2>2
<1>7. K + (Len(fields) - K) = Len(fields)
  BY <1>2
<1> QED
  BY <1>1, <1>6, <1>7

-----------------------------------------------------------------------------
(* Versions.                                                               *)

LEMMA ConcatAgain ==
  ASSUME NEW s, IsList(s), NEW t, IsList(t), NEW u, IsList(u)
  PROVE  (s \o t) \o u = s \o (t \o u)
<1>1. PICK S : s \in Seq(S)
  BY DEF IsList
<1>2. PICK T : t \in Seq(T)
  BY DEF IsList
<1>3. PICK U : u \in Seq(U)
  BY DEF IsList
<1> DEFINE V == S \cup T \cup U
<1>4. s \in Seq(V) /\ t \in Seq(V) /\ u \in Seq(V)
  BY <1>1, <1>2, <1>3, SeqMonotonic
<1> HIDE DEF V
<1> QED
  BY <1>4, ConcatAssociative

\* What is left behind the epoch: its dashes but a first one, the version before the
\* first of them, and the iteration after it.
Dashes(rest) == {n \in 2 .. Len(rest) : rest[n] = "-"}
VersionOf(rest) ==
  IF Dashes(rest) = {} THEN rest ELSE SubSeq(rest, 1, Min(Dashes(rest)) - 1)
IterationOf(rest) ==
  (IF Contains(rest, "-")
   THEN <<"-">> \o (IF Dashes(rest) = {} THEN <<>>
                    ELSE SubSeq(rest, Min(Dashes(rest)) + 1, Len(rest)))
   ELSE <<>>)

LEMMA RestWithDashes ==
  ASSUME NEW rest, IsList(rest), Dashes(rest) # {}
  PROVE  /\ IsList(VersionOf(rest)) /\ IsList(IterationOf(rest))
         /\ VersionOf(rest) \o IterationOf(rest) = rest
<1> DEFINE D == Dashes(rest)
           m == Min(D)
           a == SubSeq(rest, 1, m - 1)
           b == SubSeq(rest, m + 1, Len(rest))
           c == <<"-">> \o b
           d == a \o c
<1>1. Len(rest) \in Nat /\ D \subseteq 2 .. Len(rest) /\ D \in SUBSET Nat
  BY ListFacts DEF Dashes
<1>2. m \in D
  <2>1. \E x \in D : \A y \in D : x <= y
    <3> HIDE DEF D
    <3> QED
      BY <1>1, SmallestNumber DEF D
  <2> HIDE DEF D
  <2> QED
    BY <2>1 DEF Min
<1>3. m \in 2 .. Len(rest) /\ rest[m] = "-"
  BY <1>1, <1>2 DEF Dashes
<1>4. VersionOf(rest) = a /\ IterationOf(rest) = c
  <2>1. Contains(rest, "-")
    BY <1>1, <1>3 DEF Contains
  <2> QED
    BY <2>1 DEF VersionOf, IterationOf
<1> HIDE DEF m
<1>5. IsList(a) /\ Len(a) = m - 1 /\ \A i \in 1 .. m - 1 : a[i] = rest[i]
  <2>1. m - 1 \in 0 .. Len(rest)
    BY <1>1, <1>3
  <2> QED
    BY <2>1, PrefixList
<1>6. IsList(b) /\ Len(b) = Len(rest) - m /\ \A i \in 1 .. Len(b) : b[i] = rest[m + i]
  <2>1. m + 1 \in Nat /\ 1 <= m + 1 /\ m + 1 <= Len(rest) + 1 /\ (m + 1) - 1 = m
    BY <1>1, <1>3
  <2>2. Len(rest) + 1 - (m + 1) = Len(rest) - m
    BY <1>1, <1>3
  <2> QED
    BY <2>1, <2>2, SuffixList
<1> HIDE DEF a, b
<1>7. /\ IsList(c) /\ Len(c) = 1 + Len(b) /\ c[1] = "-"
      /\ \A i \in 1 .. Len(b) : c[1 + i] = b[i]
  <2> DEFINE one == <<"-">>
  <2>1. IsList(one) /\ Len(one) = 1 /\ one[1] = "-"
    BY SmallLists
  <2> HIDE DEF one
  <2>2. /\ IsList(one \o b) /\ Len(one \o b) = Len(one) + Len(b)
        /\ \A i \in 1 .. Len(one) : (one \o b)[i] = one[i]
        /\ \A i \in 1 .. Len(b) : (one \o b)[Len(one) + i] = b[i]
    <3>1. IsList(one) /\ IsList(b)
      BY <1>6, <2>1
    <3> QED
      BY <3>1, ConcatList
  <2> QED
    BY <2>1, <2>2 DEF one
<1> HIDE DEF c
<1>8. /\ IsList(d) /\ Len(d) = Len(a) + Len(c)
      /\ \A i \in 1 .. Len(a) : d[i] = a[i]
      /\ \A i \in 1 .. Len(c) : d[Len(a) + i] = c[i]
  <2>1. IsList(a) /\ IsList(c)
    BY <1>5, <1>7
  <2> QED
    BY <2>1, ConcatList
<1> HIDE DEF d
<1>9. ASSUME NEW i \in 1 .. Len(rest)
      PROVE  d[i] = rest[i]
  <2>1. CASE i < m
    <3>1. i \in 1 .. m - 1
      BY <1>1, <1>3, <2>1
    <3> QED
      BY <1>5, <1>8, <3>1
  <2>2. CASE i = m
    <3>1. 1 \in 1 .. Len(c) /\ (m - 1) + 1 = m
      BY <1>1, <1>3, <1>6, <1>7
    <3>2. d[m] = c[1]
      BY <1>5, <1>8, <3>1
    <3> QED
      BY <1>3, <1>7, <2>2, <3>2
  <2>3. CASE i > m
    <3> DEFINE k == i - m
    <3>1. k \in 1 .. Len(b) /\ m + k = i /\ 1 + k \in 1 .. Len(c) /\ (m - 1) + (1 + k) = i
      BY <1>1, <1>3, <1>6, <1>7, <2>3
    <3> HIDE DEF k
    <3>2. d[i] = c[1 + k]
      BY <1>5, <1>8, <3>1
    <3> QED
      BY <1>6, <1>7, <3>1, <3>2
  <2> QED
    BY <1>1, <1>3, <2>1, <2>2, <2>3
<1>10. Len(d) = Len(rest)
  BY <1>1, <1>3, <1>5, <1>6, <1>7, <1>8
<1>11. d = rest
  BY <1>8, <1>9, <1>10, ListEqual
<1> QED
  BY <1>4, <1>5, <1>7, <1>11 DEF d

LEMMA RestWithoutDashes ==
  ASSUME NEW rest, IsList(rest), Dashes(rest) = {}
  PROVE  /\ VersionOf(rest) = rest
         /\ rest # <<>> /\ rest[1] = "-" => IterationOf(rest) = <<"-">>
         /\ ~(rest # <<>> /\ rest[1] = "-") => IterationOf(rest) = <<>>
<1>1. Len(rest) \in Nat /\ (rest = <<>> <=> Len(rest) = 0)
  BY ListFacts
<1>2. \A n \in 2 .. Len(rest) : rest[n] # "-"
  BY DEF Dashes
<1>3. Contains(rest, "-") <=> rest # <<>> /\ rest[1] = "-"
  BY <1>1, <1>2 DEF Contains
<1>4. <<"-">> \o <<>> = <<"-">>
  BY SmallLists, ConcatList
<1> QED
  BY <1>3, <1>4 DEF VersionOf, IterationOf

HasEpoch(v) == Len(v) > 2 /\ v[1] = "1" /\ v[2] = ":"
RestOf(v) == IF HasEpoch(v) THEN SubSeq(v, 3, Len(v)) ELSE v

LEMMA VersionForm ==
  ASSUME NEW v, IsList(v)
  PROVE  /\ ParseVersion(v) =
              [epoch |-> IF HasEpoch(v) THEN <<"1">> ELSE <<>>,
               version |-> VersionOf(RestOf(v)),
               iteration |-> IF Dashes(RestOf(v)) = {} THEN <<>>
                             ELSE SubSeq(RestOf(v), Min(Dashes(RestOf(v))) + 1, Len(RestOf(v))),
               iterationPresent |-> Contains(RestOf(v), "-")]
         /\ FullVersion(ParseVersion(v)) =
              ((IF HasEpoch(v) THEN <<"1", ":">> ELSE <<>>) \o VersionOf(RestOf(v)))
                \o IterationOf(RestOf(v))
<1> DEFINE epoch == IF HasEpoch(v) THEN <<v[1]>> ELSE <<>>
           rest == RestOf(v)
           dashes == Dashes(rest)
           parsed == [epoch |-> epoch,
                      version |-> VersionOf(rest),
                      iteration |-> IF dashes = {} THEN <<>>
                                    ELSE SubSeq(rest, Min(dashes) + 1, Len(rest)),
                      iterationPresent |-> Contains(rest, "-")]
<1>1. epoch = <<>> <=> ~HasEpoch(v)
  BY SmallLists
<1>2. ParseVersion(v) = parsed
  <2>1. ParseVersion(v) =
          LET e == IF HasEpoch(v) THEN <<v[1]>> ELSE <<>>
              r == IF e = <<>> THEN v ELSE SubSeq(v, 3, Len(v))
              d == Dashes(r)
          IN [epoch |-> e,
              version |-> IF d = {} THEN r ELSE SubSeq(r, 1, Min(d) - 1),
              iteration |-> IF d = {} THEN <<>> ELSE SubSeq(r, Min(d) + 1, Len(r)),
              iterationPresent |-> Contains(r, "-")]
    BY DEF ParseVersion, HasEpoch, Dashes
  <2> HIDE DEF HasEpoch
  <2>2. rest = IF epoch = <<>> THEN v ELSE SubSeq(v, 3, Len(v))
    BY <1>1 DEF RestOf
  <2> QED
    BY <2>1, <2>2 DEF VersionOf
<1>3. /\ HasEpoch(v) => Append(epoch, ":") = <<"1", ":">>
      /\ epoch = IF HasEpoch(v) THEN <<"1">> ELSE <<>>
  <2>1. Append(<<"1">>, ":") = <<"1", ":">>
    BY Pairs
  <2> QED
    BY <2>1 DEF HasEpoch
<1> HIDE DEF epoch, rest, dashes
<1>4. /\ parsed = [epoch |-> epoch, version |-> VersionOf(rest),
                   iteration |-> IF Dashes(rest) = {} THEN <<>>
                                 ELSE SubSeq(rest, Min(Dashes(rest)) + 1, Len(rest)),
                   iterationPresent |-> Contains(rest, "-")]
      /\ parsed.epoch = epoch /\ parsed.version = VersionOf(rest)
      /\ (IF parsed.iterationPresent THEN <<"-">> \o parsed.iteration ELSE <<>>) = IterationOf(rest)
  BY DEF IterationOf, dashes
<1> HIDE DEF parsed
<1>5. FullVersion(parsed) =
        ((IF HasEpoch(v) THEN <<"1", ":">> ELSE <<>>) \o VersionOf(rest)) \o IterationOf(rest)
  BY <1>1, <1>3, <1>4 DEF FullVersion
<1> QED
  BY <1>2, <1>3, <1>4, <1>5 DEF rest

EpochOf(v) == IF HasEpoch(v) THEN <<"1", ":">> ELSE <<>>

LEMMA VersionSplit ==
  ASSUME NEW v, IsList(v)
  PROVE  /\ IsList(EpochOf(v)) /\ IsList(RestOf(v)) /\ EpochOf(v) \o RestOf(v) = v
         /\ HasEpoch(v) => /\ Len(RestOf(v)) = Len(v) - 2
                           /\ \A i \in 1 .. Len(v) - 2 : RestOf(v)[i] = v[2 + i]
<1>1. CASE ~HasEpoch(v)
  BY <1>1, SmallLists, ConcatList DEF EpochOf, RestOf
<1>2. CASE HasEpoch(v)
  <2> DEFINE pre == <<"1", ":">>
             rest == SubSeq(v, 3, Len(v))
             all == pre \o rest
  <2>1. EpochOf(v) = pre /\ RestOf(v) = rest
    BY <1>2 DEF EpochOf, RestOf
  <2>2. Len(v) \in Nat /\ Len(v) > 2 /\ v[1] = "1" /\ v[2] = ":"
    BY <1>2, ListFacts DEF HasEpoch
  <2>3. IsList(rest) /\ Len(rest) = Len(v) - 2 /\ \A i \in 1 .. Len(v) - 2 : rest[i] = v[2 + i]
    <3>1. 3 \in Nat /\ 1 <= 3 /\ 3 <= Len(v) + 1 /\ Len(v) + 1 - 3 = Len(v) - 2 /\ 3 - 1 = 2
      BY <2>2
    <3> QED
      BY <3>1, SuffixList
  <2>4. IsList(pre) /\ Len(pre) = 2 /\ pre[1] = "1" /\ pre[2] = ":"
    BY Pairs
  <2> HIDE DEF pre, rest
  <2>5. /\ IsList(all) /\ Len(all) = Len(pre) + Len(rest)
        /\ \A i \in 1 .. Len(pre) : all[i] = pre[i]
        /\ \A i \in 1 .. Len(rest) : all[Len(pre) + i] = rest[i]
    <3>1. IsList(pre) /\ IsList(rest)
      BY <2>3, <2>4
    <3> QED
      BY <3>1, ConcatList
  <2> HIDE DEF all
  <2>6. Len(all) = Len(v)
    BY <2>2, <2>3, <2>4, <2>5
  <2>7. ASSUME NEW i \in 1 .. Len(v)
        PROVE  all[i] = v[i]
    <3>1. CASE i \in {1, 2}
      BY <2>2, <2>4, <2>5, <3>1
    <3>2. CASE i > 2
      <4> DEFINE k == i - 2
      <4>1. k \in 1 .. Len(v) - 2 /\ 2 + k = i
        BY <2>2, <3>2
      <4> HIDE DEF k
      <4> QED
        BY <2>3, <2>4, <2>5, <4>1
    <3> QED
      BY <2>2, <3>1, <3>2
  <2>8. all = v
    BY <2>5, <2>6, <2>7, ListEqual
  <2> QED
    BY <2>1, <2>3, <2>4, <2>8 DEF all
<1> QED
  BY <1>1, <1>2

\* A version is written as it was, unless it begins with a dash and has no other: that
\* gets one more at its end, and is the same version.
LEMMA VersionIsKept ==
  ASSUME NEW v, IsList(v)
  PROVE  LET w == FullVersion(ParseVersion(v)) IN
         IsList(w) /\ ParseVersion(w) = ParseVersion(v)
<1> DEFINE w == FullVersion(ParseVersion(v))
           pre == EpochOf(v)
           rest == RestOf(v)
           one == <<"-">>
<1>1. IsList(pre) /\ IsList(rest) /\ pre \o rest = v
  BY VersionSplit
<1>2. w = (pre \o VersionOf(rest)) \o IterationOf(rest)
  BY VersionForm DEF EpochOf
<1>3. IsList(one) /\ Len(one) = 1 /\ one[1] = "-" /\ IsList(<<>>)
  BY SmallLists
<1> HIDE DEF w, one
<1>4. CASE w = v
  BY <1>4 DEF w
<1>5. CASE w # v
  <2>1. Dashes(rest) = {}
    <3> SUFFICES ASSUME Dashes(rest) # {}
                 PROVE  w = v
      BY <1>5
    <3>1. /\ IsList(VersionOf(rest)) /\ IsList(IterationOf(rest))
          /\ VersionOf(rest) \o IterationOf(rest) = rest
      BY <1>1, RestWithDashes
    <3>2. w = pre \o (VersionOf(rest) \o IterationOf(rest))
      <4>1. IsList(pre) /\ IsList(VersionOf(rest)) /\ IsList(IterationOf(rest))
        BY <1>1, <3>1
      <4> HIDE DEF pre, rest
      <4>2. (pre \o VersionOf(rest)) \o IterationOf(rest) = pre \o (VersionOf(rest) \o IterationOf(rest))
        BY <4>1, ConcatAgain
      <4> QED
        BY <1>2, <4>2
    <3> QED
      BY <1>1, <3>1, <3>2
  <2>2. rest # <<>> /\ rest[1] = "-"
    <3> SUFFICES ASSUME ~(rest # <<>> /\ rest[1] = "-")
                 PROVE  w = v
      BY <1>5
    <3>1. VersionOf(rest) = rest /\ IterationOf(rest) = <<>>
      BY <1>1, <2>1, RestWithoutDashes
    <3>2. w = v \o <<>>
      BY <1>1, <1>2, <3>1
    <3> QED
      BY <3>2, ConcatList, SmallLists
  <2>3. VersionOf(rest) = rest /\ IterationOf(rest) = one
    BY <1>1, <2>1, <2>2, RestWithoutDashes DEF one
  <2>4. w = v \o one
    BY <1>1, <1>2, <2>3
  <2>6. /\ IsList(w) /\ Len(w) = Len(v) + 1 /\ w[Len(v) + 1] = "-"
        /\ \A i \in 1 .. Len(v) : w[i] = v[i]
    <3>1. /\ IsList(v \o one) /\ Len(v \o one) = Len(v) + Len(one)
          /\ \A i \in 1 .. Len(v) : (v \o one)[i] = v[i]
          /\ \A i \in 1 .. Len(one) : (v \o one)[Len(v) + i] = one[i]
      <4>1. IsList(one)
        BY <1>3
      <4> QED
        BY <4>1, ConcatList
    <3>2. 1 \in 1 .. Len(one)
      BY <1>3
    <3> QED
      BY <1>3, <2>4, <3>1, <3>2
  <2>7. Len(v) \in Nat /\ Len(rest) \in Nat \ {0}
    BY <1>1, <2>2, ListFacts
  <2>8. HasEpoch(w) <=> HasEpoch(v)
    <3>1. CASE HasEpoch(v)
      BY <2>6, <2>7, <3>1 DEF HasEpoch
    <3>2. CASE ~HasEpoch(v)
      <4>1. rest = v
        BY <3>2 DEF RestOf
      <4>2. w[1] = "-"
        BY <2>2, <2>6, <2>7, <4>1
      <4>3. "-" # "1"
        BY Zenon
      <4> QED
        BY <3>2, <4>2, <4>3 DEF HasEpoch
    <3> QED
      BY <3>1, <3>2
  <2> DEFINE more == RestOf(w)
             N == Len(rest)
  <2>9. /\ IsList(more) /\ Len(more) = N + 1 /\ more[N + 1] = "-"
        /\ \A i \in 1 .. N : more[i] = rest[i]
    <3>1. CASE HasEpoch(v)
      <4>1. Len(rest) = Len(v) - 2 /\ \A i \in 1 .. Len(v) - 2 : rest[i] = v[2 + i]
        BY <3>1, VersionSplit
      <4>2. /\ IsList(more) /\ Len(more) = Len(w) - 2
            /\ \A i \in 1 .. Len(w) - 2 : more[i] = w[2 + i]
        BY <2>6, <2>8, <3>1, VersionSplit
      <4> HIDE DEF more, rest, w
      <4>3. ASSUME NEW i \in 1 .. N
            PROVE  more[i] = rest[i]
        <5>1. i \in 1 .. Len(v) - 2 /\ i \in 1 .. Len(w) - 2 /\ 2 + i \in 1 .. Len(v)
          BY <2>6, <2>7, <4>1
        <5> QED
          BY <2>6, <4>1, <4>2, <5>1
      <4>4. more[N + 1] = "-"
        <5>1. N + 1 \in 1 .. Len(w) - 2 /\ 2 + (N + 1) = Len(v) + 1
          BY <2>6, <2>7, <4>1
        <5> QED
          BY <2>6, <4>2, <5>1
      <4>5. Len(more) = N + 1
        BY <2>6, <2>7, <4>1, <4>2
      <4> QED
        BY <4>2, <4>3, <4>4, <4>5
    <3>2. CASE ~HasEpoch(v)
      <4>1. rest = v /\ more = w
        BY <2>8, <3>2 DEF RestOf
      <4> QED
        BY <2>6, <4>1
    <3> QED
      BY <3>1, <3>2
  <2> HIDE DEF more, rest
  <2>10. Dashes(more) = {N + 1} /\ Min(Dashes(more)) = N + 1
    <3>1. \A n \in 2 .. N : rest[n] # "-"
      BY <2>1 DEF Dashes
    <3>2. \A n \in 2 .. N + 1 : more[n] = "-" <=> n = N + 1
      <4> TAKE n \in 2 .. N + 1
      <4>1. n = N + 1 \/ (n \in 1 .. N /\ n \in 2 .. N)
        BY <2>7
      <4> QED
        BY <2>7, <2>9, <3>1, <4>1
    <3>3. N + 1 \in 2 .. N + 1
      BY <2>7
    <3>4. Dashes(more) = {N + 1}
      BY <2>9, <3>2, <3>3 DEF Dashes
    <3>5. Min({N + 1}) = N + 1
      BY <2>7 DEF Min
    <3> QED
      BY <3>4, <3>5
  <2>11. VersionOf(more) = rest
    <3> DEFINE first == SubSeq(more, 1, N)
    <3>1. IsList(first) /\ Len(first) = N /\ \A i \in 1 .. N : first[i] = more[i]
      <4>1. N \in 0 .. Len(more)
        BY <2>7, <2>9
      <4> QED
        BY <2>9, <4>1, PrefixList
    <3>2. VersionOf(more) = first
      <4>1. (N + 1) - 1 = N
        BY <2>7
      <4> QED
        BY <2>10, <4>1 DEF VersionOf
    <3> HIDE DEF first
    <3>3. first = rest
      BY <1>1, <2>9, <3>1, ListEqual
    <3> QED
      BY <3>2, <3>3
  <2>12. SubSeq(more, (N + 1) + 1, Len(more)) = <<>>
    <3> DEFINE last == SubSeq(more, (N + 1) + 1, Len(more))
    <3>1. /\ (N + 1) + 1 \in Nat /\ 1 <= (N + 1) + 1 /\ (N + 1) + 1 <= Len(more) + 1
          /\ Len(more) + 1 - ((N + 1) + 1) = 0
      BY <2>7, <2>9
    <3>2. IsList(last) /\ Len(last) = 0
      BY <2>9, <3>1, SuffixList
    <3> QED
      BY <3>2, ListFacts
  <2>13. Contains(more, "-") /\ Contains(rest, "-")
    <3>1. N + 1 \in 1 .. Len(more) /\ 1 \in 1 .. Len(rest)
      BY <2>7, <2>9
    <3> QED
      BY <2>2, <2>9, <3>1 DEF Contains
  <2>14. ParseVersion(w) =
           [epoch |-> IF HasEpoch(w) THEN <<"1">> ELSE <<>>,
            version |-> VersionOf(more),
            iteration |-> IF Dashes(more) = {} THEN <<>>
                          ELSE SubSeq(more, Min(Dashes(more)) + 1, Len(more)),
            iterationPresent |-> Contains(more, "-")]
    BY <2>6, VersionForm DEF more
  <2>15. ParseVersion(v) =
           [epoch |-> IF HasEpoch(v) THEN <<"1">> ELSE <<>>,
            version |-> VersionOf(rest),
            iteration |-> IF Dashes(rest) = {} THEN <<>>
                          ELSE SubSeq(rest, Min(Dashes(rest)) + 1, Len(rest)),
            iterationPresent |-> Contains(rest, "-")]
    BY VersionForm DEF rest
  <2>16. ParseVersion(w) = ParseVersion(v)
    <3> DEFINE e == IF HasEpoch(v) THEN <<"1">> ELSE <<>>
    <3>1. (IF HasEpoch(w) THEN <<"1">> ELSE <<>>) = e
      BY <2>8
    <3> HIDE DEF e
    <3>2. ParseVersion(w) =
            [epoch |-> e, version |-> rest, iteration |-> <<>>, iterationPresent |-> TRUE]
      <4>1. (IF Dashes(more) = {} THEN <<>> ELSE SubSeq(more, Min(Dashes(more)) + 1, Len(more))) = <<>>
        BY <2>10, <2>12
      <4>2. Contains(more, "-") = TRUE
        BY <2>13 DEF Contains
      <4> QED
        BY <2>11, <2>14, <3>1, <4>1, <4>2
    <3>3. ParseVersion(v) =
            [epoch |-> e, version |-> rest, iteration |-> <<>>, iterationPresent |-> TRUE]
      <4>1. Contains(rest, "-") = TRUE
        BY <2>13 DEF Contains
      <4> QED
        BY <2>1, <2>3, <2>15, <4>1 DEF e
    <3> QED
      BY <3>2, <3>3
  <2> QED
    BY <2>6, <2>16 DEF w
<1> QED
  BY <1>4, <1>5 DEF w

-----------------------------------------------------------------------------
(* What normalizeDependency makes of a dependency: what it renders it      *)
(* reads again unchanged.                                                  *)

\* A dependency but for the case of its name and the form of its operator.
Spelled(d) ==
  [d EXCEPT !.name = [@ EXCEPT !.upper = FALSE, !.underscore = FALSE],
            !.op = IF d.paren THEN @ ELSE Debianized(@),
            !.paren = TRUE]

LEMMA SpelledType ==
  ASSUME NEW Version, NEW d \in Dependencies(Version)
  PROVE  /\ Spelled(d) \in Dependencies(Version)
         /\ Spelled(d).op \in {"~>", "!="} => Spelled(d).op = d.op
         /\ Spelled(d).version = d.version /\ Spelled(d).folded = d.folded
         /\ Spelled(d).paren /\ ~Spelled(d).name.upper /\ ~Spelled(d).name.underscore
BY DEF Spelled, Debianized, Dependencies, Ops

LEMMA NormalizedForms ==
  ASSUME NEW d
  PROVE  /\ Spelled(d).op = "~>" =>
              Normalized(d).depends =
                <<[Spelled(d) EXCEPT !.op = ">="],
                  [Spelled(d) EXCEPT !.op = "<<", !.version = UpperBound(@)]>>
         /\ Spelled(d).op = "!=" /\ ~Spelled(d).folded => Normalized(d).depends = <<>>
         /\ Spelled(d).op \notin {"~>", "!="} => Normalized(d).depends = <<Spelled(d)>>
<1> DEFINE s == Spelled(d)
<1>1. Normalized(d) =
        CASE s.op = "~>" -> [depends |-> <<[s EXCEPT !.op = ">="],
                                           [s EXCEPT !.op = "<<", !.version = UpperBound(@)]>>,
                             conflicts |-> <<>>]
          [] s.op = "!=" /\ ~s.folded -> Inequality(s)
          [] OTHER -> [depends |-> <<s>>, conflicts |-> <<>>]
  BY DEF Normalized, Spelled
<1> HIDE DEF s
<1> QED
  BY <1>1 DEF Inequality, s

\* What was normalized is a relation that is normal already.
LEMMA NormalIsFixed ==
  ASSUME NEW Version, NEW r \in Dependencies(Version),
         r.op \notin {"~>", "!="}, r.paren, ~r.name.upper, ~r.name.underscore
  PROVE  Normalized(r) = [depends |-> <<r>>, conflicts |-> <<>>]
<1>1. Spelled(r) = r
  BY DEF Spelled, Debianized, Dependencies, Ops
<1>2. Spelled(r).op \notin {"~>", "!="} =>
        Normalized(r) = [depends |-> <<Spelled(r)>>, conflicts |-> <<>>]
  BY DEF Normalized, Spelled
<1> QED
  BY <1>1, <1>2

\* A relation that is rendered as it is.
Normal(r) ==
  ~r.folded /\ Normalized(r) = [depends |-> <<r>>, conflicts |-> <<>>]

LEMMA NormalizedRelations ==
  ASSUME NEW Version, NEW d \in Dependencies(Version), ~d.folded,
         d.op = "~>" => UpperBound(d.version) \in Version
  PROVE  /\ IsList(Normalized(d).depends) /\ IsList(Normalized(d).conflicts)
         /\ \A r \in ToSet(Normalized(d).depends) : r \in Dependencies(Version) /\ Normal(r)
         /\ d.op # "!=" => Normalized(d).depends # <<>> /\ Normalized(d).conflicts = <<>>
<1> DEFINE s == Spelled(d)
<1>1. /\ s \in Dependencies(Version) /\ ~s.folded /\ s.version = d.version
      /\ s.paren /\ ~s.name.upper /\ ~s.name.underscore
      /\ s.op = "~>" => UpperBound(s.version) \in Version
      /\ s.op = "!=" => d.op = "!="
  BY SpelledType
<1>2. \A r \in Dependencies(Version) :
        r.op \notin {"~>", "!="} /\ r.paren /\ ~r.name.upper /\ ~r.name.underscore /\ ~r.folded =>
          Normal(r)
  BY NormalIsFixed DEF Normal
<1>3. Normalized(d) =
        CASE s.op = "~>" -> [depends |-> <<[s EXCEPT !.op = ">="],
                                           [s EXCEPT !.op = "<<", !.version = UpperBound(@)]>>,
                             conflicts |-> <<>>]
          [] s.op = "!=" /\ ~s.folded -> Inequality(s)
          [] OTHER -> [depends |-> <<s>>, conflicts |-> <<>>]
  BY DEF Normalized, Spelled
<1> HIDE DEF s
<1>4. CASE s.op = "~>"
  <2> DEFINE lower == [s EXCEPT !.op = ">="]
             above == [s EXCEPT !.op = "<<", !.version = UpperBound(@)]
             both == <<lower, above>>
  <2>1. Normalized(d).depends = both /\ Normalized(d).conflicts = <<>>
    BY <1>3, <1>4
  <2>2. lower \in Dependencies(Version) /\ lower.op = ">=" /\ lower.paren /\ lower.name = s.name
        /\ ~lower.folded
    BY <1>1 DEF Dependencies, Ops
  <2>3. above \in Dependencies(Version) /\ above.op = "<<" /\ above.paren /\ above.name = s.name
        /\ ~above.folded
    BY <1>1, <1>4 DEF Dependencies, Ops
  <2> HIDE DEF lower, above
  <2>4. Normal(lower) /\ Normal(above)
    BY <1>1, <1>2, <2>2, <2>3
  <2>5. IsList(both) /\ both # <<>> /\ ToSet(both) = {lower, above}
    <3>1. IsList(both)
      BY Pairs
    <3>2. both # <<>> /\ ToSet(both) = {lower, above}
      BY DEF ToSet
    <3> QED
      BY <3>1, <3>2
  <2> QED
    BY <2>1, <2>2, <2>3, <2>4, <2>5, SmallLists
<1>5. CASE s.op = "!="
  <2> DEFINE one == <<[s EXCEPT !.op = "="]>>
  <2>1. Normalized(d).depends = <<>> /\ Normalized(d).conflicts = one
    BY <1>1, <1>3, <1>5 DEF Inequality
  <2>2. IsList(one)
    BY SmallLists
  <2> HIDE DEF one
  <2>3. ToSet(<<>>) = {}
    BY DEF ToSet
  <2> QED
    BY <1>1, <1>5, <2>1, <2>2, <2>3, SmallLists
<1>6. CASE s.op \notin {"~>", "!="}
  <2> DEFINE one == <<s>>
  <2>1. Normalized(d).depends = one /\ Normalized(d).conflicts = <<>>
    BY <1>3, <1>6
  <2>2. IsList(one) /\ one # <<>> /\ ToSet(one) = {s}
    BY SmallLists DEF ToSet
  <2> HIDE DEF one
  <2>3. Normal(s)
    BY <1>1, <1>2, <1>6
  <2> QED
    BY <1>1, <2>1, <2>2, <2>3, SmallLists
<1> QED
  BY <1>4, <1>5, <1>6

\* Re-publishing an index: every relation that a dependency was rendered to is,
\* when the next command reads it from the index, rendered as it is.
THEOREM NormalizedIsStable ==
  ASSUME NEW Version, NEW d \in Dependencies(Version), ~d.folded,
         d.op = "~>" => UpperBound(d.version) \in Version
  PROVE  \A r \in ToSet(Normalized(d).depends) :
           Normalized(r) = [depends |-> <<r>>, conflicts |-> <<>>]
BY NormalizedRelations DEF Normal

-----------------------------------------------------------------------------
(* Elements of flattened lists.                                            *)

\* c has the elements of a and of b and no others.
Elements(c, a, b) ==
  /\ \A i \in 1 .. Len(a) : \E k \in 1 .. Len(c) : c[k] = a[i]
  /\ \A i \in 1 .. Len(b) : \E k \in 1 .. Len(c) : c[k] = b[i]
  /\ \A k \in 1 .. Len(c) :
       (\E i \in 1 .. Len(a) : c[k] = a[i]) \/ (\E i \in 1 .. Len(b) : c[k] = b[i])

LEMMA ConcatElements ==
  ASSUME NEW a, IsList(a), NEW b, IsList(b)
  PROVE  Elements(a \o b, a, b)
<1> DEFINE c == a \o b
<1>1. /\ Len(c) = Len(a) + Len(b)
      /\ \A i \in 1 .. Len(a) : c[i] = a[i]
      /\ \A i \in 1 .. Len(b) : c[Len(a) + i] = b[i]
  BY ConcatList
<1> HIDE DEF c
<1>2. Len(a) \in Nat /\ Len(b) \in Nat
  BY ListFacts
<1>3. ASSUME NEW i \in 1 .. Len(a)
      PROVE  \E k \in 1 .. Len(c) : c[k] = a[i]
  <2>1. i \in 1 .. Len(c)
    BY <1>1, <1>2
  <2> QED
    BY <1>1, <2>1
<1>4. ASSUME NEW i \in 1 .. Len(b)
      PROVE  \E k \in 1 .. Len(c) : c[k] = b[i]
  <2>1. Len(a) + i \in 1 .. Len(c)
    BY <1>1, <1>2
  <2> QED
    BY <1>1, <2>1
<1>5. ASSUME NEW k \in 1 .. Len(c)
      PROVE  (\E i \in 1 .. Len(a) : c[k] = a[i]) \/ (\E i \in 1 .. Len(b) : c[k] = b[i])
  <2>1. k \in 1 .. Len(a) \/ (k - Len(a) \in 1 .. Len(b) /\ Len(a) + (k - Len(a)) = k)
    BY <1>1, <1>2
  <2>2. CASE k \in 1 .. Len(a)
    BY <1>1, <2>2
  <2>3. CASE k - Len(a) \in 1 .. Len(b) /\ Len(a) + (k - Len(a)) = k
    <3> DEFINE i == k - Len(a)
    <3>1. i \in 1 .. Len(b) /\ Len(a) + i = k
      BY <2>3
    <3> HIDE DEF i
    <3> QED
      BY <1>1, <3>1
  <2> QED
    BY <2>1, <2>2, <2>3
<1>6. /\ \A i \in 1 .. Len(a) : \E k \in 1 .. Len(c) : c[k] = a[i]
      /\ \A i \in 1 .. Len(b) : \E k \in 1 .. Len(c) : c[k] = b[i]
      /\ \A k \in 1 .. Len(c) :
           (\E i \in 1 .. Len(a) : c[k] = a[i]) \/ (\E i \in 1 .. Len(b) : c[k] = b[i])
  BY <1>3, <1>4, <1>5
<1> QED
  BY <1>6 DEF c, Elements

\* flat has the elements of the lists of ss and no others.
ElementsOfAll(flat, ss) ==
  /\ IsList(flat)
  /\ \A n \in 1 .. Len(ss) : \A i \in 1 .. Len(ss[n]) :
       \E k \in 1 .. Len(flat) : flat[k] = ss[n][i]
  /\ \A k \in 1 .. Len(flat) :
       \E n \in 1 .. Len(ss) : \E i \in 1 .. Len(ss[n]) : flat[k] = ss[n][i]

\* Flattening loses no element and invents none.
LEMMA FlatElements ==
  ASSUME NEW ss, IsList(ss), \A n \in 1 .. Len(ss) : IsList(ss[n])
  PROVE  ElementsOfAll(FlattenSeq(ss), ss)
<1>1. PICK flat : /\ FlattenSeq(ss) = flat[Len(ss)]
                  /\ flat[0] = <<>>
                  /\ \A n \in 1 .. Len(ss) : flat[n] = flat[n - 1] \o ss[n]
                  /\ \A n \in 0 .. Len(ss) : IsList(flat[n])
  BY FlattenUnfolds
<1>2. Len(ss) \in Nat
  BY ListFacts
<1> DEFINE Keeps(n) == \A m \in 1 .. n : \A i \in 1 .. Len(ss[m]) :
                         \E k \in 1 .. Len(flat[n]) : flat[n][k] = ss[m][i]
           Adds(n) == \A k \in 1 .. Len(flat[n]) :
                        \E m \in 1 .. n : \E i \in 1 .. Len(ss[m]) : flat[n][k] = ss[m][i]
           S == {n \in Nat : n <= Len(ss) => Keeps(n) /\ Adds(n)}
<1>3. 0 \in S
  <2>1. 1 .. Len(flat[0]) = {}
    BY <1>1, SmallLists
  <2> QED
    BY <2>1
<1>4. ASSUME NEW n \in Nat, n \in S
      PROVE  n + 1 \in S
  <2> SUFFICES ASSUME n + 1 <= Len(ss)
               PROVE  Keeps(n + 1) /\ Adds(n + 1)
    OBVIOUS
  <2> DEFINE m == n + 1
             a == flat[n]
             b == ss[m]
             c == flat[m]
  <2>1. m \in 1 .. Len(ss) /\ m - 1 = n /\ n \in 0 .. Len(ss) /\ Keeps(n) /\ Adds(n)
    BY <1>2, <1>4
  <2>2. /\ \A l \in 1 .. m : l = m \/ l \in 1 .. n
        /\ \A l \in 1 .. n : l \in 1 .. m
        /\ m \in 1 .. m
    OBVIOUS
  <2> HIDE DEF m
  <2>3. IsList(a) /\ IsList(b) /\ c = a \o b
    BY <1>1, <2>1
  <2>4. /\ \A i \in 1 .. Len(a) : \E k \in 1 .. Len(c) : c[k] = a[i]
        /\ \A i \in 1 .. Len(b) : \E k \in 1 .. Len(c) : c[k] = b[i]
        /\ \A k \in 1 .. Len(c) :
             (\E i \in 1 .. Len(a) : c[k] = a[i]) \/ (\E i \in 1 .. Len(b) : c[k] = b[i])
    <3> HIDE DEF a, b, c
    <3>1. IsList(a) /\ IsList(b)
      BY <2>3
    <3>2. c = a \o b
      BY <2>3
    <3>3. Elements(c, a, b)
      BY <3>1, <3>2, ConcatElements
    <3> QED
      BY <3>3 DEF Elements
  <2>5. /\ \A l \in 1 .. n : \A i \in 1 .. Len(ss[l]) : \E k \in 1 .. Len(a) : a[k] = ss[l][i]
        /\ \A k \in 1 .. Len(a) : \E l \in 1 .. n : \E i \in 1 .. Len(ss[l]) : a[k] = ss[l][i]
    BY <2>1
  <2>6. b = ss[m]
    OBVIOUS
  <2> HIDE DEF a, b
  <2>7. Keeps(m)
    <3> SUFFICES ASSUME NEW l \in 1 .. m, NEW i \in 1 .. Len(ss[l])
                 PROVE  \E k \in 1 .. Len(c) : c[k] = ss[l][i]
      OBVIOUS
    <3> HIDE DEF c
    <3>1. CASE l = m
      BY <2>4, <2>6, <3>1
    <3>2. CASE l \in 1 .. n
      <4>1. PICK k \in 1 .. Len(a) : a[k] = ss[l][i]
        BY <2>5, <3>2
      <4> QED
        BY <2>4, <4>1
    <3> QED
      BY <2>2, <3>1, <3>2
  <2>8. Adds(m)
    <3> SUFFICES ASSUME NEW k \in 1 .. Len(c)
                 PROVE  \E l \in 1 .. m : \E i \in 1 .. Len(ss[l]) : c[k] = ss[l][i]
      OBVIOUS
    <3> HIDE DEF c
    <3>1. CASE \E i \in 1 .. Len(a) : c[k] = a[i]
      <4>1. PICK i \in 1 .. Len(a) : c[k] = a[i]
        BY <3>1
      <4>2. PICK l \in 1 .. n : \E j \in 1 .. Len(ss[l]) : a[i] = ss[l][j]
        BY <2>5
      <4> QED
        BY <2>2, <4>1, <4>2
    <3>2. CASE \E i \in 1 .. Len(b) : c[k] = b[i]
      BY <2>2, <2>6, <3>2
    <3> QED
      BY <2>4, <3>1, <3>2
  <2> QED
    BY <2>7, <2>8 DEF m
<1>5. Keeps(Len(ss)) /\ Adds(Len(ss))
  <2>1. Len(ss) \in S
    <3> HIDE DEF S
    <3> QED
      BY <1>2, <1>3, <1>4, SetInduction
  <2> QED
    BY <1>2, <2>1
<1>6. IsList(flat[Len(ss)])
  BY <1>1, <1>2
<1>7. ElementsOfAll(flat[Len(ss)], ss)
  BY <1>5, <1>6 DEF ElementsOfAll
<1> QED
  BY <1>1, <1>7

LEMMA FlatEmpty ==
  ASSUME NEW ss, IsList(ss), \A n \in 1 .. Len(ss) : ss[n] = <<>>
  PROVE  FlattenSeq(ss) = <<>>
<1> DEFINE flat == FlattenSeq(ss)
<1>1. \A n \in 1 .. Len(ss) : IsList(ss[n]) /\ 1 .. Len(ss[n]) = {}
  BY SmallLists
<1>2. ElementsOfAll(flat, ss)
  BY <1>1, FlatElements
<1> HIDE DEF flat
<1>3. /\ IsList(flat)
      /\ \A k \in 1 .. Len(flat) :
           \E n \in 1 .. Len(ss) : \E i \in 1 .. Len(ss[n]) : flat[k] = ss[n][i]
  BY <1>2 DEF ElementsOfAll
<1>4. Len(flat) \in Nat /\ (flat = <<>> <=> Len(flat) = 0)
  BY <1>3, ListFacts
<1>5. 1 \notin 1 .. Len(flat)
  BY <1>1, <1>3
<1>6. flat = <<>>
  BY <1>4, <1>5
<1> QED
  BY <1>6 DEF flat

\* Lists of one element are flattened to the list of their elements.
LEMMA FlatSingles ==
  ASSUME NEW s, IsList(s), NEW ss, IsList(ss), Len(ss) = Len(s),
         \A n \in 1 .. Len(s) : ss[n] = <<s[n]>>
  PROVE  FlattenSeq(ss) = s
<1>1. \A n \in 1 .. Len(s) : IsList(ss[n]) /\ Len(ss[n]) = 1 /\ ss[n][1] = s[n]
  BY SmallLists
<1>2. PICK flat : /\ FlattenSeq(ss) = flat[Len(ss)]
                  /\ flat[0] = <<>>
                  /\ \A n \in 1 .. Len(ss) : flat[n] = flat[n - 1] \o ss[n]
                  /\ \A n \in 0 .. Len(ss) : IsList(flat[n])
  BY <1>1, FlattenUnfolds
<1>3. Len(s) \in Nat
  BY ListFacts
<1> DEFINE Good(n) == Len(flat[n]) = n /\ \A i \in 1 .. n : flat[n][i] = s[i]
           S == {n \in Nat : n <= Len(s) => Good(n)}
<1>4. 0 \in S
  BY <1>2, SmallLists
<1>5. ASSUME NEW n \in Nat, n \in S
      PROVE  n + 1 \in S
  <2> SUFFICES ASSUME n + 1 <= Len(s)
               PROVE  Good(n + 1)
    OBVIOUS
  <2> DEFINE m == n + 1
             a == flat[n]
             b == ss[m]
             c == flat[m]
  <2>1. m \in 1 .. Len(s) /\ m - 1 = n /\ n \in 0 .. Len(s) /\ Good(n)
    BY <1>3, <1>5
  <2>2. \A i \in 1 .. m : i = m \/ i \in 1 .. n
    OBVIOUS
  <2>3. n + 1 = m /\ 1 \in 1 .. 1
    OBVIOUS
  <2> HIDE DEF m
  <2>4. IsList(a) /\ IsList(b) /\ Len(b) = 1 /\ b[1] = s[m] /\ c = a \o b
    BY <1>1, <1>2, <2>1
  <2>5. Len(a) = n /\ \A i \in 1 .. n : a[i] = s[i]
    BY <2>1
  <2>6. Len(c) = m /\ (\A i \in 1 .. n : c[i] = s[i]) /\ c[m] = s[m]
    <3> HIDE DEF a, b, c
    <3>1. /\ Len(c) = Len(a) + Len(b)
          /\ \A i \in 1 .. Len(a) : c[i] = a[i]
          /\ \A i \in 1 .. Len(b) : c[Len(a) + i] = b[i]
      <4>1. IsList(a) /\ IsList(b) /\ c = a \o b
        BY <2>4
      <4> QED
        BY <4>1, ConcatList
    <3> QED
      BY <2>3, <2>4, <2>5, <3>1
  <2>7. Good(m)
    <3> HIDE DEF a, b
    <3> QED
      BY <2>2, <2>6
  <2> QED
    BY <2>7 DEF m
<1>6. Good(Len(s)) /\ IsList(flat[Len(s)])
  <2>1. Len(s) \in S
    <3> HIDE DEF S
    <3> QED
      BY <1>3, <1>4, <1>5, SetInduction
  <2> QED
    BY <1>2, <1>3, <2>1
<1>7. flat[Len(s)] = s
  <2> DEFINE t == flat[Len(s)]
  <2>1. IsList(t) /\ Len(t) = Len(s) /\ \A i \in 1 .. Len(s) : t[i] = s[i]
    BY <1>6
  <2> HIDE DEF t
  <2>2. t = s
    BY <2>1, ListEqual
  <2> QED
    BY <2>2 DEF t
<1> QED
  BY <1>2, <1>7

LEMMA FlatOne ==
  ASSUME NEW s, IsList(s), NEW ss, IsList(ss), Len(ss) = 1, ss[1] = s
  PROVE  FlattenSeq(ss) = s
<1>1. PICK flat : /\ FlattenSeq(ss) = flat[Len(ss)]
                  /\ flat[0] = <<>>
                  /\ \A n \in 1 .. Len(ss) : flat[n] = flat[n - 1] \o ss[n]
  <2>1. \A n \in 1 .. Len(ss) : IsList(ss[n])
    OBVIOUS
  <2> QED
    BY <2>1, FlattenUnfolds
<1>2. flat[1] = <<>> \o s
  <2>1. 1 \in 1 .. Len(ss) /\ 1 - 1 = 0
    OBVIOUS
  <2> QED
    BY <1>1, <2>1
<1>3. <<>> \o s = s
  BY ConcatList
<1> QED
  BY <1>1, <1>2, <1>3

-----------------------------------------------------------------------------
(* Lists of dependencies: what is rendered of them is read and rendered    *)
(* again unchanged.                                                        *)

LEMMA UpperBoundType ==
  ASSUME NEW w \in Seq(Nat)
  PROVE  UpperBound(w) \in Seq(Nat)
<1> DEFINE N == Len(w)
           m == IF N < 2 THEN 1 ELSE N - 1
           u == [w EXCEPT ![m] = w[m] + 1]
           b == [u EXCEPT ![N] = 0]
<1>1. N \in Nat /\ w \in [1 .. N -> Nat]
  OBVIOUS
<1>2. UpperBound(w) = b
  BY DEF UpperBound
<1> HIDE DEF N
<1>3. u \in [1 .. N -> Nat]
  <2>1. CASE N = 0
    <3>1. m \notin 1 .. N /\ DOMAIN w = 1 .. N
      BY <1>1, <2>1
    <3> HIDE DEF m
    <3>2. u = w
      BY <1>1, <3>1
    <3> QED
      BY <1>1, <3>2
  <2>2. CASE N # 0
    <3>1. m \in 1 .. N
      BY <1>1, <2>2
    <3> HIDE DEF m
    <3>2. w[m] + 1 \in Nat
      BY <1>1, <3>1
    <3> QED
      BY <1>1, <3>1, <3>2
  <2> QED
    BY <2>1, <2>2
<1> HIDE DEF u
<1>4. b \in [1 .. N -> Nat]
  BY <1>1, <1>3
<1> HIDE DEF b
<1>5. b \in Seq(Nat)
  BY <1>1, <1>4, SeqDef
<1> QED
  BY <1>2, <1>5

\* Dependencies as a control file has them on one line.
DependencyList(D) ==
  /\ IsList(D)
  /\ \A n \in 1 .. Len(D) : D[n] \in Dependencies(Seq(Nat)) /\ ~D[n].folded

LEMMA NormalizedList ==
  ASSUME NEW D, DependencyList(D)
  PROVE  /\ DependencyList(DependsOf(D)) /\ IsList(ConflictsOf(D))
         /\ \A n \in 1 .. Len(DependsOf(D)) : Normal(DependsOf(D)[n])
         /\ \A n \in 1 .. Len(D) : ToSet(Normalized(D[n]).depends) \subseteq ToSet(DependsOf(D))
         /\ (\E n \in 1 .. Len(D) : D[n].op # "!=") => DependsOf(D) # <<>>
         /\ ConflictsOf(D) # <<>> => \E n \in 1 .. Len(D) : D[n].op = "!="
<1> DEFINE depends == [n \in 1 .. Len(D) |-> Normalized(D[n]).depends]
           conflicts == [n \in 1 .. Len(D) |-> Normalized(D[n]).conflicts]
           V == Seq(Nat)
<1>1. IsList(D) /\ Len(D) \in Nat /\ DOMAIN D = 1 .. Len(D)
  BY ListFacts DEF DependencyList
<1>2. DependsOf(D) = FlattenSeq(depends) /\ ConflictsOf(D) = FlattenSeq(conflicts)
  BY <1>1 DEF DependsOf, ConflictsOf, Mapped
<1>3. ASSUME NEW n \in 1 .. Len(D)
      PROVE  /\ IsList(Normalized(D[n]).depends) /\ IsList(Normalized(D[n]).conflicts)
             /\ \A r \in ToSet(Normalized(D[n]).depends) : r \in Dependencies(V) /\ Normal(r)
             /\ D[n].op # "!=" => Normalized(D[n]).depends # <<>> /\ Normalized(D[n]).conflicts = <<>>
  <2>1. D[n] \in Dependencies(V) /\ ~D[n].folded
    BY DEF DependencyList
  <2>2. UpperBound(D[n].version) \in V
    BY <2>1, UpperBoundType DEF Dependencies
  <2> HIDE DEF V
  <2> QED
    BY <2>1, <2>2, NormalizedRelations
<1>4. /\ IsList(depends) /\ Len(depends) = Len(D)
      /\ IsList(conflicts) /\ Len(conflicts) = Len(D)
      /\ \A n \in 1 .. Len(D) : depends[n] = Normalized(D[n]).depends /\ conflicts[n] = Normalized(D[n]).conflicts
  BY <1>1, FunctionIsList
<1> HIDE DEF depends, conflicts, V
<1> DEFINE out == FlattenSeq(depends)
           no == FlattenSeq(conflicts)
<1>5. /\ IsList(out)
      /\ \A n \in 1 .. Len(depends) : \A i \in 1 .. Len(depends[n]) :
           \E k \in 1 .. Len(out) : out[k] = depends[n][i]
      /\ \A k \in 1 .. Len(out) :
           \E n \in 1 .. Len(depends) : \E i \in 1 .. Len(depends[n]) : out[k] = depends[n][i]
  <2>1. \A n \in 1 .. Len(depends) : IsList(depends[n])
    BY <1>3, <1>4
  <2>2. ElementsOfAll(out, depends)
    BY <1>4, <2>1, FlatElements
  <2> HIDE DEF out
  <2> QED
    BY <2>2 DEF ElementsOfAll
<1>6. IsList(no)
  <2>1. \A n \in 1 .. Len(conflicts) : IsList(conflicts[n])
    BY <1>3, <1>4
  <2> QED
    BY <1>4, <2>1, FlatElements DEF ElementsOfAll
<1>7. (\A n \in 1 .. Len(D) : D[n].op # "!=") => no = <<>>
  <2> SUFFICES ASSUME \A n \in 1 .. Len(D) : D[n].op # "!="
               PROVE  no = <<>>
    OBVIOUS
  <2>1. \A n \in 1 .. Len(conflicts) : conflicts[n] = <<>>
    BY <1>3, <1>4
  <2> QED
    BY <1>4, <2>1, FlatEmpty
<1> HIDE DEF out, no
<1>8. ASSUME NEW k \in 1 .. Len(out)
      PROVE  out[k] \in Dependencies(V) /\ Normal(out[k])
  <2>1. PICK n \in 1 .. Len(depends) : \E i \in 1 .. Len(depends[n]) : out[k] = depends[n][i]
    BY <1>5
  <2>2. PICK i \in 1 .. Len(depends[n]) : out[k] = depends[n][i]
    BY <2>1
  <2>3. n \in 1 .. Len(D) /\ depends[n] = Normalized(D[n]).depends
    BY <1>4
  <2>4. out[k] \in ToSet(Normalized(D[n]).depends)
    <3>1. IsList(depends[n])
      BY <1>3, <2>3
    <3>2. i \in DOMAIN depends[n]
      BY <3>1, ListFacts
    <3> QED
      BY <2>2, <2>3, <3>2 DEF ToSet
  <2> QED
    BY <1>3, <2>3, <2>4
<1>9. ASSUME NEW n \in 1 .. Len(D)
      PROVE  ToSet(Normalized(D[n]).depends) \subseteq ToSet(out)
  <2>1. depends[n] = Normalized(D[n]).depends /\ n \in 1 .. Len(depends)
    BY <1>4
  <2>2. DOMAIN depends[n] = 1 .. Len(depends[n])
    <3>1. IsList(depends[n])
      BY <1>3, <2>1
    <3> QED
      BY <3>1, ListFacts
  <2>3. DOMAIN out = 1 .. Len(out)
    BY <1>5, ListFacts
  <2>4. \A i \in 1 .. Len(depends[n]) : \E k \in 1 .. Len(out) : out[k] = depends[n][i]
    BY <1>5, <2>1
  <2> QED
    BY <2>1, <2>2, <2>3, <2>4 DEF ToSet
<1>10. ASSUME NEW n \in 1 .. Len(D), D[n].op # "!="
       PROVE  out # <<>>
  <2>1. depends[n] = Normalized(D[n]).depends /\ n \in 1 .. Len(depends)
    BY <1>4
  <2>2. IsList(depends[n]) /\ depends[n] # <<>>
    BY <1>3, <1>10, <2>1
  <2>3. 1 \in 1 .. Len(depends[n])
    <3>1. Len(depends[n]) \in Nat /\ Len(depends[n]) # 0
      BY <2>2, ListFacts
    <3> QED
      BY <3>1
  <2>4. \E k \in 1 .. Len(out) : out[k] = depends[n][1]
    BY <1>5, <2>1, <2>3
  <2> QED
    BY <2>4, SmallLists
<1>11. DependencyList(out)
  BY <1>5, <1>8 DEF DependencyList, Normal, V
<1> QED
  BY <1>2, <1>6, <1>7, <1>8, <1>9, <1>10, <1>11 DEF out, no

\* Relations that are normal are rendered as they are, and nothing to Conflicts.
LEMMA NormalListKept ==
  ASSUME NEW D, DependencyList(D), \A n \in 1 .. Len(D) : Normal(D[n])
  PROVE  DependsOf(D) = D /\ ConflictsOf(D) = <<>>
<1> DEFINE depends == [n \in 1 .. Len(D) |-> Normalized(D[n]).depends]
           conflicts == [n \in 1 .. Len(D) |-> Normalized(D[n]).conflicts]
<1>1. IsList(D) /\ Len(D) \in Nat /\ DOMAIN D = 1 .. Len(D)
  BY ListFacts DEF DependencyList
<1>2. DependsOf(D) = FlattenSeq(depends) /\ ConflictsOf(D) = FlattenSeq(conflicts)
  BY <1>1 DEF DependsOf, ConflictsOf, Mapped
<1>3. ASSUME NEW n \in 1 .. Len(D)
      PROVE  Normalized(D[n]).depends = <<D[n]>> /\ Normalized(D[n]).conflicts = <<>>
  <2>1. Normalized(D[n]) = [depends |-> <<D[n]>>, conflicts |-> <<>>]
    BY DEF Normal
  <2> QED
    BY <2>1
<1>4. /\ IsList(depends) /\ Len(depends) = Len(D)
      /\ IsList(conflicts) /\ Len(conflicts) = Len(D)
      /\ \A n \in 1 .. Len(D) : depends[n] = <<D[n]>> /\ conflicts[n] = <<>>
  BY <1>1, <1>3, FunctionIsList
<1> HIDE DEF depends, conflicts
<1>5. FlattenSeq(depends) = D
  BY <1>1, <1>4, FlatSingles
<1>6. FlattenSeq(conflicts) = <<>>
  BY <1>4, FlatEmpty
<1> QED
  BY <1>2, <1>5, <1>6

\* DependsValue satisfies its equation.
LEMMA DependsValueUnfold ==
  ASSUME NEW D, IsList(D)
  PROVE  \E joined : /\ DependsValue(D) = joined[Len(D)]
                     /\ joined[0] = EmptyValue
                     /\ \A n \in 1 .. Len(D) : joined[n] = Joined(joined[n - 1], D[n])
<1> DEFINE Rec(g, k) == g = [n \in 0 .. k |-> IF n = 0 THEN EmptyValue ELSE Joined(g[n - 1], D[n])]
           S == {k \in Nat : \E g : Rec(g, k)}
           joined == CHOOSE g : Rec(g, Len(D))
<1>1. DependsValue(D) = joined[Len(D)]
  BY DEF DependsValue
<1>2. 0 \in S
  <2> DEFINE g == [n \in 0 .. 0 |-> EmptyValue]
  <2>1. Rec(g, 0)
    OBVIOUS
  <2> HIDE DEF g, Rec
  <2> QED
    BY <2>1
<1>3. ASSUME NEW k \in Nat, k \in S
      PROVE  k + 1 \in S
  <2>1. PICK g : Rec(g, k)
    BY <1>3
  <2> DEFINE h == [n \in 0 .. k + 1 |-> IF n = k + 1 THEN Joined(g[k], D[n]) ELSE g[n]]
  <2>2. Rec(h, k + 1)
    BY <2>1
  <2> HIDE DEF h, Rec
  <2> QED
    BY <2>2
<1>4. Len(D) \in Nat
  BY ListFacts
<1>5. Len(D) \in S
  <2> HIDE DEF S
  <2> QED
    BY <1>2, <1>3, <1>4, SetInduction
<1>6. Rec(joined, Len(D))
  BY <1>5
<1> HIDE DEF joined
<1>7. joined[0] = EmptyValue /\ \A n \in 1 .. Len(D) : joined[n] = Joined(joined[n - 1], D[n])
  BY <1>4, <1>6
<1> QED
  BY <1>1, <1>7

LEMMA OneLine ==
  ASSUME NEW p, IsList(p), NEW q
  PROVE  Append(Front(<<p>>), q) = <<q>> /\ Last(<<p>>) = p
<1>1. Front(<<p>>) = <<>> /\ Last(<<p>>) = p
  BY DEF Front, Last
<1>2. Append(<<>>, q) = <<q>>
  OBVIOUS
<1> QED
  BY <1>1, <1>2

\* Relations without a line break are one line.
LEMMA DependsOnOneLine ==
  ASSUME ~IsList(Blank), NEW D, IsList(D), D # <<>>, \A n \in 1 .. Len(D) : ~D[n].folded
  PROVE  DependsValue(D) = <<D>>
<1>1. PICK joined : /\ DependsValue(D) = joined[Len(D)]
                    /\ joined[0] = EmptyValue
                    /\ \A n \in 1 .. Len(D) : joined[n] = Joined(joined[n - 1], D[n])
  BY DependsValueUnfold
<1>2. Len(D) \in Nat /\ Len(D) # 0
  BY ListFacts
<1> DEFINE Good(n) == \E p : /\ joined[n] = <<p>> /\ IsList(p) /\ Len(p) = n
                             /\ \A i \in 1 .. n : p[i] = D[i]
           S == {n \in Nat : n + 1 <= Len(D) => Good(n + 1)}
<1>3. 0 \in S
  <2>1. 1 \in 1 .. Len(D) /\ 1 - 1 = 0 /\ 0 + 1 = 1
    BY <1>2
  <2>2. joined[1] = <<<<D[1]>>>>
    <3>1. joined[1] = Joined(EmptyValue, D[1]) /\ ~D[1].folded
      BY <1>1, <2>1
    <3> QED
      BY <3>1 DEF Joined
  <2> DEFINE p == <<D[1]>>
  <2>3. IsList(p) /\ Len(p) = 1 /\ p[1] = D[1]
    BY SmallLists
  <2>4. joined[1] = <<p>>
    BY <2>2
  <2> HIDE DEF p
  <2>5. Good(1)
    BY <2>3, <2>4
  <2> HIDE DEF Good
  <2> QED
    BY <2>1, <2>5
<1>4. ASSUME NEW k \in Nat, k \in S
      PROVE  k + 1 \in S
  <2> SUFFICES ASSUME (k + 1) + 1 <= Len(D)
               PROVE  Good((k + 1) + 1)
    OBVIOUS
  <2> DEFINE n == k + 1
             m == n + 1
  <2>1. m \in 1 .. Len(D) /\ m - 1 = n /\ Good(n) /\ n \in Nat
    BY <1>2, <1>4
  <2>2. \A i \in 1 .. m : i = m \/ i \in 1 .. n
    OBVIOUS
  <2>3. n + 1 = m
    OBVIOUS
  <2> HIDE DEF m, n
  <2>4. PICK p : joined[n] = <<p>> /\ IsList(p) /\ Len(p) = n /\ \A i \in 1 .. n : p[i] = D[i]
    BY <2>1
  <2> DEFINE q == Append(p, D[m])
  <2>5. joined[m] = <<q>>
    <3>1. joined[m] = Joined(<<p>>, D[m]) /\ ~D[m].folded
      BY <1>1, <2>1, <2>4
    <3>2. <<p>> # EmptyValue
      <4>1. <<p>>[1] = p /\ <<Blank>>[1] = Blank
        BY SmallLists
      <4> QED
        BY <2>4, <4>1 DEF EmptyValue
    <3>3. joined[m] = Append(Front(<<p>>), Append(Last(<<p>>), D[m]))
      BY <3>1, <3>2 DEF Joined
    <3>4. \A r : Append(Front(<<p>>), r) = <<r>> /\ Last(<<p>>) = p
      BY <2>4, OneLine
    <3> QED
      BY <3>3, <3>4
  <2>6. /\ IsList(q) /\ Len(q) = n + 1
        /\ \A i \in 1 .. n : q[i] = p[i]
        /\ q[n + 1] = D[m]
    BY <2>4, AppendList
  <2> HIDE DEF q
  <2>7. \A i \in 1 .. m : q[i] = D[i]
    BY <2>2, <2>3, <2>4, <2>6
  <2>8. Good(m)
    BY <2>3, <2>5, <2>6, <2>7
  <2> HIDE DEF Good
  <2> QED
    BY <2>8 DEF m, n
<1> HIDE DEF Good
<1>5. Good(Len(D))
  <2>1. Len(D) - 1 \in Nat /\ (Len(D) - 1) + 1 = Len(D)
    BY <1>2
  <2>2. Len(D) - 1 \in S
    <3> HIDE DEF S
    <3> QED
      BY <1>3, <1>4, <2>1, SetInduction
  <2> QED
    BY <2>1, <2>2
<1>6. PICK p : joined[Len(D)] = <<p>> /\ IsList(p) /\ Len(p) = Len(D) /\ \A i \in 1 .. Len(D) : p[i] = D[i]
  BY <1>5 DEF Good
<1>7. p = D
  BY <1>6, ListEqual
<1> QED
  BY <1>1, <1>6, <1>7

\* What was written on one line is read as it is.
LEMMA OneLineIsRead ==
  ASSUME ~IsList(Blank), NEW D, DependencyList(D), D # <<>>
  PROVE  ParseDependencies(<<D>>) = D
<1> DEFINE value == <<D>>
           line(n) == [value[n] EXCEPT ![1].folded = n > 1 /\ value[n][1].op = "!=" /\ value[n][1].paren]
           lines == [n \in DOMAIN value |-> line(n)]
<1>1. IsList(D) /\ Len(D) \in Nat /\ Len(D) # 0
  BY ListFacts DEF DependencyList
<1>2. value[1] = D /\ DOMAIN value = 1 .. 1
  BY SmallLists
<1>3. value # EmptyValue
  <2>1. <<Blank>>[1] = Blank
    BY SmallLists
  <2> QED
    BY <1>1, <1>2, <2>1 DEF EmptyValue
<1>4. ParseDependencies(value) = FlattenSeq(lines)
  BY <1>3 DEF ParseDependencies
<1>5. line(1) = D
  <2> DEFINE first == [D[1] EXCEPT !.folded = FALSE]
  <2>1. line(1) = [D EXCEPT ![1] = first]
    <3> DEFINE folded == 1 > 1 /\ D[1].op = "!=" /\ D[1].paren
    <3>1. line(1) = [D EXCEPT ![1] = [D[1] EXCEPT !.folded = folded]]
      BY <1>2
    <3>2. folded = FALSE
      <4>1. ~(1 > 1)
        OBVIOUS
      <4> QED
        BY <4>1
    <3> HIDE DEF folded, value
    <3> QED
      BY <3>1, <3>2
  <2>2. first = D[1]
    <3>1. D[1] \in Dependencies(Seq(Nat)) /\ ~D[1].folded
      BY <1>1 DEF DependencyList
    <3> QED
      BY <3>1 DEF Dependencies
  <2> HIDE DEF first, line, value
  <2>3. [D EXCEPT ![1] = D[1]] = D
    BY <1>1, ListFacts
  <2> QED
    BY <2>1, <2>2, <2>3
<1>6. IsList(lines) /\ Len(lines) = 1 /\ lines[1] = D
  <2> HIDE DEF line, value
  <2>1. lines = [n \in 1 .. 1 |-> line(n)] /\ 1 \in Nat
    BY <1>2
  <2>2. lines[1] = D
    BY <1>5, <2>1
  <2>3. lines = [n \in 1 .. 1 |-> lines[n]]
    BY <2>1
  <2> HIDE DEF lines
  <2> QED
    BY <2>1, <2>2, <2>3, FunctionIsList
<1> HIDE DEF lines, value
<1>7. FlattenSeq(lines) = D
  BY <1>1, <1>6, FlatOne
<1> QED
  BY <1>4, <1>7 DEF value

\* The relations of any dependencies are a list of them, and so is what goes to
\* Conflicts.
LEMMA RelationsAreLists ==
  ASSUME NEW D, IsList(D)
  PROVE  IsList(DependsOf(D)) /\ IsList(ConflictsOf(D))
<1> DEFINE depends == [n \in 1 .. Len(D) |-> Normalized(D[n]).depends]
           conflicts == [n \in 1 .. Len(D) |-> Normalized(D[n]).conflicts]
<1>1. Len(D) \in Nat /\ DOMAIN D = 1 .. Len(D)
  BY ListFacts
<1>2. DependsOf(D) = FlattenSeq(depends) /\ ConflictsOf(D) = FlattenSeq(conflicts)
  BY <1>1 DEF DependsOf, ConflictsOf, Mapped
<1>3. ASSUME NEW d
      PROVE  IsList(Normalized(d).depends) /\ IsList(Normalized(d).conflicts)
  <2>1. /\ IsList(<<>>)
        /\ \A x : IsList(<<x>>)
        /\ \A x, y : IsList(<<x, y>>)
    BY SmallLists, Pairs
  <2>2. \E x, y, c : Normalized(d) \in { [depends |-> <<x, y>>, conflicts |-> <<>>],
                                       [depends |-> <<>>, conflicts |-> <<c>>],
                                       [depends |-> <<x>>, conflicts |-> <<>>] }
    <3> DEFINE s == Spelled(d)
               x == [s EXCEPT !.op = ">="]
               y == [s EXCEPT !.op = "<<", !.version = UpperBound(@)]
               c == [s EXCEPT !.op = "="]
    <3>1. \/ Normalized(d) = [depends |-> <<x, y>>, conflicts |-> <<>>]
          \/ Normalized(d) = [depends |-> <<>>, conflicts |-> <<c>>]
          \/ Normalized(d) = [depends |-> <<s>>, conflicts |-> <<>>]
      BY DEF Normalized, Spelled, Inequality
    <3> HIDE DEF x, y, c, s
    <3> QED
      BY <3>1
  <2> QED
    BY <2>1, <2>2
<1>4. /\ IsList(depends) /\ Len(depends) = Len(D)
      /\ IsList(conflicts) /\ Len(conflicts) = Len(D)
      /\ \A n \in 1 .. Len(D) : IsList(depends[n]) /\ IsList(conflicts[n])
  <2>1. \A n \in 1 .. Len(D) : IsList(depends[n]) /\ IsList(conflicts[n])
    BY <1>3
  <2> QED
    BY <1>1, <2>1, FunctionIsList
<1> HIDE DEF depends, conflicts
<1> QED
  BY <1>2, <1>4, FlatElements DEF ElementsOfAll

\* Dependencies that are joined again are lists on lines.
LEMMA DependsAreFoldedLists ==
  ASSUME NoLists, NEW D, IsList(D)
  PROVE  Texts(DependsValue(D)) /\ FoldedLists(DependsValue(D))
<1>1. PICK joined : /\ DependsValue(D) = joined[Len(D)]
                    /\ joined[0] = EmptyValue
                    /\ \A n \in 1 .. Len(D) : joined[n] = Joined(joined[n - 1], D[n])
  BY DependsValueUnfold
<1>2. Len(D) \in Nat
  BY ListFacts
<1> DEFINE Good(value) == /\ Texts(value) /\ FoldedLists(value)
                          /\ value = EmptyValue \/ IsList(value[Len(value)])
<1>3. \A x : /\ IsList(<<x>>) /\ Texts(<<x>>) /\ Len(<<x>>) = 1 /\ <<x>>[1] = x
  BY SmallLists DEF Texts
<1>4. Good(EmptyValue)
  <2>1. \A n \in 1 .. Len(<<Blank>>) : n = 1 /\ <<Blank>>[1] = Blank
    BY <1>3
  <2> QED
    BY <1>3, <2>1 DEF EmptyValue, FoldedLists
<1>5. ASSUME NEW value, Good(value), NEW list, IsList(list)
      PROVE  Good(Append(value, list))
  <2> DEFINE new == Append(value, list)
             N == Len(value)
  <2>1. IsList(value) /\ N \in Nat \ {0}
    BY <1>5, ListFacts DEF Texts
  <2>2. /\ IsList(new) /\ new # <<>> /\ Len(new) = N + 1 /\ new[N + 1] = list
        /\ \A n \in 1 .. N : new[n] = value[n]
    BY <2>1, AppendList
  <2>3. \A n \in 1 .. N : IsList(value[n]) \/ (n = 1 /\ value[1] = Blank)
    BY <1>5 DEF FoldedLists
  <2>4. 1 \in 1 .. N /\ \A n \in 1 .. N + 1 : n \in 1 .. N \/ n = N + 1
    BY <2>1
  <2> HIDE DEF new, N
  <2>5. FoldedLists(new)
    BY <1>5, <2>2, <2>3, <2>4 DEF FoldedLists
  <2>6. Good(new)
    BY <1>5, <2>2, <2>5 DEF Texts
  <2> QED
    BY <2>6 DEF new
<1>6. ASSUME NEW value, Good(value), NEW d
      PROVE  Good(Joined(value, d))
  <2>1. \/ \E x : Joined(value, d) = Append(value, <<x>>)
        \/ Joined(value, d) = <<<<d>>>>
        \/ value # EmptyValue /\ Joined(value, d) = Append(Front(value), Append(Last(value), d))
    <3> DEFINE x == [d EXCEPT !.folded = FALSE]
    <3>1. \/ Joined(value, d) = Append(value, <<x>>)
          \/ Joined(value, d) = <<<<d>>>>
          \/ value # EmptyValue /\ Joined(value, d) = Append(Front(value), Append(Last(value), d))
      BY DEF Joined
    <3> HIDE DEF x
    <3> QED
      BY <3>1
  <2>2. ASSUME NEW x, Joined(value, d) = Append(value, <<x>>)
        PROVE  Good(Joined(value, d))
    <3> HIDE DEF Good
    <3> QED
      BY <1>3, <1>5, <1>6, <2>2
  <2>3. CASE Joined(value, d) = <<<<d>>>>
    <3> DEFINE one == <<d>>
    <3>1. IsList(one)
      BY <1>3
    <3> HIDE DEF one
    <3>2. Good(<<one>>)
      <4>1. \A n \in 1 .. Len(<<one>>) : IsList(<<one>>[n])
        BY <1>3, <3>1
      <4>2. Len(<<one>>) \in 1 .. Len(<<one>>)
        BY <1>3
      <4> QED
        BY <1>3, <4>1, <4>2 DEF FoldedLists
    <3> QED
      BY <2>3, <3>2 DEF one
  <2>4. CASE value # EmptyValue /\ Joined(value, d) = Append(Front(value), Append(Last(value), d))
    <3> DEFINE front == Front(value)
               list == Append(Last(value), d)
               new == Append(front, list)
               N == Len(value)
    <3>1. IsList(value) /\ N \in Nat \ {0} /\ IsList(value[N])
      BY <1>6, <2>4, ListFacts DEF Texts
    <3>2. IsList(list)
      BY <3>1, AppendList DEF Last
    <3>3. IsList(front) /\ Len(front) = N - 1 /\ \A n \in 1 .. N - 1 : front[n] = value[n]
      <4>1. N - 1 \in 0 .. N
        BY <3>1
      <4> QED
        BY <3>1, <4>1, PrefixList DEF Front
    <3> HIDE DEF front, list
    <3>4. /\ IsList(new) /\ new # <<>> /\ Len(new) = (N - 1) + 1 /\ new[(N - 1) + 1] = list
          /\ \A n \in 1 .. N - 1 : new[n] = front[n]
      BY <3>2, <3>3, AppendList
    <3>5. Len(new) = N /\ new[N] = list
      BY <3>1, <3>4
    <3>6. /\ \A n \in 1 .. N : IsList(value[n]) \/ (n = 1 /\ value[1] = Blank)
          /\ \A n \in 1 .. N : n \in 1 .. N - 1 \/ n = N
          /\ \A n \in 1 .. N - 1 : n \in 1 .. N
      BY <1>6, <3>1 DEF FoldedLists
    <3> HIDE DEF new, N
    <3>7. FoldedLists(new)
      BY <3>2, <3>3, <3>4, <3>5, <3>6 DEF FoldedLists
    <3>8. Good(new)
      BY <3>2, <3>4, <3>5, <3>7 DEF Texts
    <3> QED
      BY <2>4, <3>8 DEF new, front, list
  <2> QED
    BY <2>1, <2>2, <2>3, <2>4
<1> HIDE DEF Good
<1> DEFINE S == {n \in Nat : n <= Len(D) => Good(joined[n])}
<1>7. 0 \in S
  BY <1>1, <1>4
<1>8. ASSUME NEW n \in Nat, n \in S
      PROVE  n + 1 \in S
  <2> SUFFICES ASSUME n + 1 <= Len(D)
               PROVE  Good(joined[n + 1])
    OBVIOUS
  <2>1. n + 1 \in 1 .. Len(D) /\ (n + 1) - 1 = n /\ Good(joined[n])
    BY <1>2, <1>8
  <2>2. joined[n + 1] = Joined(joined[n], D[n + 1])
    BY <1>1, <2>1
  <2> QED
    BY <1>6, <2>1, <2>2
<1>9. Len(D) \in S
  <2> HIDE DEF S
  <2> QED
    BY <1>2, <1>7, <1>8, SetInduction
<1>10. Good(DependsValue(D))
  BY <1>1, <1>2, <1>9
<1> QED
  BY <1>10 DEF Good

\* The dependencies of any lists are a list.
LEMMA ListsAreRead ==
  ASSUME NEW value, IsList(value), AllLists(value)
  PROVE  IsList(ParseDependencies(value))
<1> DEFINE line(n) == [value[n] EXCEPT ![1].folded = n > 1 /\ value[n][1].op = "!=" /\ value[n][1].paren]
           lines == [n \in DOMAIN value |-> line(n)]
<1>1. Len(value) \in Nat /\ DOMAIN value = 1 .. Len(value)
  BY ListFacts
<1>2. CASE value = EmptyValue
  BY <1>2, SmallLists DEF ParseDependencies
<1>3. CASE value # EmptyValue
  <2>1. ParseDependencies(value) = FlattenSeq(lines)
    BY <1>3 DEF ParseDependencies
  <2>2. ASSUME NEW n \in 1 .. Len(value)
        PROVE  IsList(line(n))
    <3> DEFINE old == value[n]
               first == [old[1] EXCEPT !.folded = n > 1 /\ old[1].op = "!=" /\ old[1].paren]
    <3>1. IsList(old)
      BY <1>3 DEF AllLists
    <3>2. line(n) = [old EXCEPT ![1] = first]
      OBVIOUS
    <3> HIDE DEF first, old, line
    <3>3. Len(old) \in Nat /\ DOMAIN old = 1 .. Len(old)
      BY <3>1, ListFacts
    <3>4. line(n) = [k \in 1 .. Len(old) |-> line(n)[k]]
      BY <3>2, <3>3
    <3> QED
      BY <3>3, <3>4, FunctionIsList
  <2>3. IsList(lines) /\ Len(lines) = Len(value) /\ \A n \in 1 .. Len(value) : lines[n] = line(n)
    <3> HIDE DEF line
    <3>1. \A n \in 1 .. Len(value) : lines[n] = line(n)
      BY <1>1
    <3>2. lines = [n \in 1 .. Len(value) |-> lines[n]]
      BY <1>1
    <3> HIDE DEF lines
    <3> QED
      BY <1>1, <3>1, <3>2, FunctionIsList
  <2> HIDE DEF lines, line
  <2>4. \A n \in 1 .. Len(lines) : IsList(lines[n])
    BY <2>2, <2>3
  <2> QED
    BY <2>1, <2>3, <2>4, FlatElements DEF ElementsOfAll
<1> QED
  BY <1>2, <1>3

\* The dependencies of a folded value.
LEMMA DependenciesAreRead ==
  ASSUME NEW value, IsList(value), value # EmptyValue,
         \A n \in 1 .. Len(value) : value[n] \in Seq(Dependencies(Seq(Nat))) \ {<<>>}
  PROVE  /\ IsList(ParseDependencies(value))
         /\ \A k \in 1 .. Len(ParseDependencies(value)) :
              ParseDependencies(value)[k] \in Dependencies(Seq(Nat))
<1> DEFINE Deps == Dependencies(Seq(Nat))
           line(n) == [value[n] EXCEPT ![1].folded = n > 1 /\ value[n][1].op = "!=" /\ value[n][1].paren]
           lines == [n \in DOMAIN value |-> line(n)]
           read == FlattenSeq(lines)
<1>1. Len(value) \in Nat /\ DOMAIN value = 1 .. Len(value)
  BY ListFacts
<1>2. ParseDependencies(value) = read
  BY DEF ParseDependencies
<1>3. ASSUME NEW n \in 1 .. Len(value)
      PROVE  line(n) \in Seq(Deps)
  <2> DEFINE old == value[n]
             folded == n > 1 /\ old[1].op = "!=" /\ old[1].paren
             first == [old[1] EXCEPT !.folded = folded]
             N == Len(old)
  <2>1. old \in Seq(Deps) /\ old # <<>>
    OBVIOUS
  <2>2. line(n) = [old EXCEPT ![1] = first]
    OBVIOUS
  <2>3. N \in Nat /\ N # 0 /\ old \in [1 .. N -> Deps]
    BY <2>1, EmptySeq
  <2>4. old[1] \in Deps
    <3>1. 1 \in 1 .. N
      BY <2>3
    <3> QED
      BY <2>3, <3>1
  <2>5. folded \in BOOLEAN
    BY <2>4 DEF Dependencies
  <2> HIDE DEF folded
  <2>6. first \in Deps
    BY <2>4, <2>5 DEF Dependencies
  <2> HIDE DEF first, Deps, line, N, old
  <2>7. line(n) \in [1 .. N -> Deps]
    BY <2>2, <2>3, <2>6
  <2> QED
    BY <2>3, <2>7, SeqDef
<1> HIDE DEF line, Deps
<1>4. IsList(lines) /\ Len(lines) = Len(value) /\ \A n \in 1 .. Len(value) : lines[n] = line(n)
  <2>1. \A n \in 1 .. Len(value) : lines[n] = line(n)
    BY <1>1
  <2>2. lines = [n \in 1 .. Len(value) |-> lines[n]]
    BY <1>1
  <2> HIDE DEF lines
  <2> QED
    BY <1>1, <2>1, <2>2, FunctionIsList
<1> HIDE DEF lines
<1>5. \A n \in 1 .. Len(lines) : IsList(lines[n]) /\ \A i \in 1 .. Len(lines[n]) : lines[n][i] \in Deps
  <2> TAKE n \in 1 .. Len(lines)
  <2>1. lines[n] \in Seq(Deps)
    BY <1>3, <1>4
  <2> QED
    BY <2>1, ElementOfSeq DEF IsList
<1>6. ElementsOfAll(read, lines)
  BY <1>4, <1>5, FlatElements
<1> HIDE DEF read
<1>7. /\ IsList(read)
      /\ \A k \in 1 .. Len(read) :
           \E n \in 1 .. Len(lines) : \E i \in 1 .. Len(lines[n]) : read[k] = lines[n][i]
  BY <1>6 DEF ElementsOfAll
<1>8. \A k \in 1 .. Len(read) : read[k] \in Deps
  BY <1>5, <1>7
<1> QED
  BY <1>2, <1>7, <1>8 DEF Deps

\* The names of the fields of a Package are names.
LEMMA OrderNames ==
  ASSUME ~IsList(Absent)
  PROVE  /\ IsList(Order) /\ Len(Order) = 26
         /\ Known = {Order[i] : i \in 1 .. Len(Order)}
         /\ \A i \in 1 .. Len(Order) : FieldName(Order[i])
<1> DEFINE Words == {"Package", "Version", "License", "Vendor", "Architecture", "Maintainer",
                     "Depends", "Conflicts", "Breaks", "Provides", "Replaces", "Recommends",
                     "Suggests", "Enhances", "Section", "Origin", "Priority", "Homepage",
                     "Filename", "Size", "SHA1", "SHA256", "MD5sum", "Description"}
<1>1. IsList(Order) /\ Len(Order) = 26 /\ DOMAIN Order = 1 .. 26
  <2>1. Order = [i \in 1 .. 26 |-> Order[i]]
    BY DEF Order
  <2> QED
    BY <2>1, FunctionIsList
<1>2. Known = {Order[i] : i \in 1 .. Len(Order)}
  BY <1>1 DEF Known, ToSet
<1>3. ASSUME NEW i \in 1 .. 26
      PROVE  Order[i] \in {<<word>> : word \in Words} \cup {<<"Installed", "Size">>, <<"Pre", "Depends">>}
  BY SMTT(60) DEF Order
<1>4. "" \notin Words
  OBVIOUS
<1> HIDE DEF Words
<1>5. ASSUME NEW i \in 1 .. 26
      PROVE  FieldName(Order[i])
  <2>1. CASE Order[i] \in {<<word>> : word \in Words}
    <3>1. PICK word \in Words : Order[i] = <<word>>
      BY <2>1
    <3>2. <<word>> # <<"">>
      BY <1>4
    <3>3. IsList(<<word>>)
      BY SmallLists
    <3> QED
      BY <3>1, <3>2, <3>3 DEF FieldName
  <2>2. CASE \E x, y : Order[i] = <<x, y>>
    <3>1. PICK x, y : Order[i] = <<x, y>>
      BY <2>2
    <3>2. <<x, y>> # <<"">>
      OBVIOUS
    <3>3. IsList(<<x, y>>)
      BY Pairs
    <3> QED
      BY <3>1, <3>2, <3>3 DEF FieldName
  <2> QED
    BY <1>3, <2>1, <2>2
<1> QED
  BY <1>1, <1>2, <1>5

LEMMA NamesOfThePackage ==
  /\ {<<"Package">>, <<"Version">>, <<"Depends">>, <<"Conflicts">>, <<"Filename">>} \subseteq Known
  /\ {<<"Size">>, <<"SHA1">>, <<"SHA256">>, <<"MD5sum">>} \subseteq Known
<1>1. DOMAIN Order = 1 .. 26
  <2>1. Order = [i \in 1 .. 26 |-> Order[i]]
    BY DEF Order
  <2> QED
    BY <2>1
<1>2. /\ Order[1] = <<"Package">> /\ Order[2] = <<"Version">> /\ Order[8] = <<"Depends">>
      /\ Order[9] = <<"Conflicts">> /\ Order[21] = <<"Filename">> /\ Order[22] = <<"Size">>
      /\ Order[23] = <<"SHA1">> /\ Order[24] = <<"SHA256">> /\ Order[25] = <<"MD5sum">>
  BY DEF Order
<1>3. \A i \in 1 .. 26 : Order[i] \in Known
  BY <1>1 DEF Known, ToSet
<1> QED
  BY <1>2, <1>3

\* A value of Conflicts that the inequalities of Depends were added to.
LEMMA ConflictsAreReadable ==
  ASSUME ~IsList(Blank), ~IsList(Dot), NEW value, value = Absent \/ Readable(value),
         value # Absent => Last(value) = Blank \/ IsList(Last(value)),
         NEW conflicts, IsList(conflicts), conflicts # <<>> => value # <<Blank, Blank>>
  PROVE  AllConflicts(value, conflicts) = Absent \/ Readable(AllConflicts(value, conflicts))
<1>1. CASE conflicts = <<>>
  BY <1>1 DEF AllConflicts
<1>2. CASE conflicts # <<>> /\ value = Absent
  BY <1>2, ReadableOne DEF AllConflicts
<1>3. CASE conflicts # <<>> /\ value # Absent
  <2> DEFINE list == (IF Last(value) = Blank THEN <<Blank>> ELSE Last(value)) \o conflicts
             front == Front(value)
             N == Len(value)
             new == Append(front, list)
  <2>1. IsList(list)
    <3>1. IsList(IF Last(value) = Blank THEN <<Blank>> ELSE Last(value))
      BY <1>3, SmallLists
    <3> QED
      BY <3>1, ConcatList
  <2>2. list # Dot /\ list # Blank
    BY <2>1
  <2>3. AllConflicts(value, conflicts) = new
    BY <1>3 DEF AllConflicts
  <2>4. Readable(value) /\ value # <<Blank, Blank>>
    BY <1>3
  <2>5. N \in Nat /\ N # 0
    BY <2>4, ListFacts DEF Readable
  <2>6. IsList(front) /\ Len(front) = N - 1 /\ \A i \in 1 .. N - 1 : front[i] = value[i]
    <3>1. N - 1 \in 0 .. N
      BY <2>5
    <3>2. front = SubSeq(value, 1, N - 1)
      BY DEF Front
    <3> HIDE DEF front, N
    <3> QED
      BY <2>4, <3>1, <3>2, PrefixList DEF Readable, N
  <2> HIDE DEF list, front
  <2>7. /\ IsList(new) /\ Len(new) = N /\ new # <<>>
        /\ \A i \in 1 .. N - 1 : new[i] = value[i]
        /\ new[N] = list
    <3>1. (N - 1) + 1 = N
      BY <2>5
    <3> HIDE DEF N
    <3> QED
      BY <2>6, <3>1, AppendList
  <2>8. /\ \A n \in 2 .. N : value[n] # Dot
        /\ N > 1 /\ value[1] = Blank => value[2] = Blank
    BY <2>4 DEF Readable
  <2>9. ~(N = 2 /\ value[1] = Blank /\ value[2] = Blank)
    <3> SUFFICES ASSUME N = 2, value[1] = Blank, value[2] = Blank
                 PROVE  value = <<Blank, Blank>>
      BY <2>4
    <3> DEFINE pair == <<Blank, Blank>>
    <3>1. IsList(pair) /\ Len(pair) = 2 /\ pair[1] = Blank /\ pair[2] = Blank
      BY Pairs
    <3> HIDE DEF pair
    <3>2. value = pair
      <4>1. IsList(value) /\ Len(value) = Len(pair)
        BY <2>4, <3>1 DEF Readable
      <4>2. \A i \in 1 .. Len(value) : value[i] = pair[i]
        BY <3>1
      <4> QED
        BY <3>1, <4>1, <4>2, ListEqual
    <3> QED
      BY <3>2 DEF pair
  <2> HIDE DEF new, N
  <2>10. \A n \in 2 .. N : new[n] # Dot
    <3> TAKE n \in 2 .. N
    <3>1. n = N \/ n \in 1 .. N - 1
      BY <2>5
    <3> QED
      BY <2>2, <2>7, <2>8, <3>1
  <2>11. N > 1 /\ new[1] = Blank => new[2] = Blank
    <3> SUFFICES ASSUME N > 1, new[1] = Blank
                 PROVE  new[2] = Blank
      OBVIOUS
    <3>1. 1 \in 1 .. N - 1
      BY <2>5
    <3>2. value[1] = Blank /\ value[2] = Blank
      BY <2>7, <2>8, <3>1
    <3>3. 2 \in 1 .. N - 1
      BY <2>5, <2>9, <3>2
    <3> QED
      BY <2>7, <3>2, <3>3
  <2>12. Readable(new)
    BY <2>7, <2>10, <2>11 DEF Readable
  <2> QED
    BY <2>3, <2>12
<1> QED
  BY <1>1, <1>2, <1>3

-----------------------------------------------------------------------------
(* Packages that are rendered, read and rendered again.                    *)

\* The names of user-defined fields that are read under the same names again.
ExtraNames(Names) ==
  \A name \in Names : FieldName(name) /\ name \notin Known /\ ExtraName(name) = name

\* The rest of what the re-reading of an index needs of a package: its values are
\* read as they are written, and its user-defined fields are other fields.
Printable(pack) ==
  /\ \E w : IsList(w) /\ pack.version = ParseVersion(w)
  /\ \A name \in Known \ {<<"Version">>, <<"Depends">>} :
       pack.known[name] = Absent \/ Readable(pack.known[name])
  /\ DependencyList(pack.depends)
  /\ pack.depends # <<>> => \E n \in 1 .. Len(pack.depends) : pack.depends[n].op # "!="
  /\ LET value == pack.known[<<"Conflicts">>] IN
       /\ value # Absent => Last(value) = Blank \/ IsList(Last(value))
       /\ (\E n \in 1 .. Len(pack.depends) : pack.depends[n].op = "!=") => value # <<Blank, Blank>>
  /\ \E Names : ExtraNames(Names) /\ Paragraph(pack.extra, Names, TRUE)

\* What the reading of any entry needs: texts, a list of dependencies, and
\* user-defined fields that are not fields of a Package.
OtherNames(Names) == \A name \in Names : FieldName(name) /\ name \notin Known
Writable(pack, Names) ==
  /\ \A name \in Known \ {<<"Version">>, <<"Depends">>} :
       pack.known[name] = Absent \/ Texts(pack.known[name])
  /\ IsList(pack.depends)
  /\ OtherNames(Names) /\ Paragraph(pack.extra, Names, FALSE)

LEMMA PrintableIsWritable ==
  ASSUME NEW pack, Printable(pack)
  PROVE  \E Names : ExtraNames(Names) /\ Paragraph(pack.extra, Names, TRUE) /\ Writable(pack, Names)
BY DEF Printable, Writable, OtherNames, ExtraNames, DependencyList, Paragraph, Fields, Readable, Texts

LEMMA RenderedIsReadable ==
  ASSUME NoLists, NEW pack, Printable(pack), NEW name \in Known
  PROVE  Rendered(pack, name) = Absent \/ Readable(Rendered(pack, name))
<1>1. CASE name = <<"Version">>
  BY <1>1, ReadableOne DEF Rendered
<1>2. CASE name = <<"Depends">>
  <2>1. CASE pack.depends = <<>>
    BY <1>2, <2>1 DEF Rendered
  <2>2. CASE pack.depends # <<>>
    <3> DEFINE D == DependsOf(pack.depends)
    <3>1. DependencyList(D) /\ D # <<>>
      BY <2>2, NormalizedList DEF Printable
    <3> HIDE DEF D
    <3>2. DependsValue(D) = <<D>>
      BY <3>1, DependsOnOneLine DEF DependencyList, NoLists
    <3>3. Rendered(pack, name) = DependsValue(D)
      BY <1>2, <2>2 DEF Rendered, D
    <3> QED
      BY <3>2, <3>3, ReadableOne
  <2> QED
    BY <2>1, <2>2
<1>3. CASE name = <<"Conflicts">>
  <2> DEFINE value == pack.known[name]
             conflicts == ConflictsOf(pack.depends)
  <2>1. IsList(conflicts) /\ conflicts # <<>> => value # <<Blank, Blank>>
    BY <1>3, NormalizedList DEF Printable
  <2>2. /\ value = Absent \/ Readable(value)
        /\ value # Absent => Last(value) = Blank \/ IsList(Last(value))
    <3>1. name \in Known \ {<<"Version">>, <<"Depends">>}
      BY <1>3
    <3> QED
      BY <1>3, <3>1 DEF Printable
  <2>3. IsList(conflicts)
    BY NormalizedList DEF Printable
  <2>4. Rendered(pack, name) = AllConflicts(value, conflicts)
    BY <1>3 DEF Rendered
  <2> HIDE DEF value, conflicts
  <2> QED
    BY <2>1, <2>2, <2>3, <2>4, ConflictsAreReadable DEF NoLists
<1>4. CASE name = <<"Filename">>
  <2>1. Rendered(pack, name) = RepositoryFilename(pack)
    BY <1>4 DEF Rendered
  <2>2. CASE pack.known[<<"Filename">>] # Absent
    <3>1. name \in Known \ {<<"Version">>, <<"Depends">>}
      BY <1>4
    <3> QED
      BY <1>4, <2>1, <2>2, <3>1 DEF Printable, RepositoryFilename
  <2>3. CASE pack.known[<<"Filename">>] = Absent
    BY <2>1, <2>3, ReadableOne DEF RepositoryFilename
  <2> QED
    BY <2>2, <2>3
<1>5. CASE name \notin {<<"Version">>, <<"Depends">>, <<"Conflicts">>, <<"Filename">>}
  <2>1. Rendered(pack, name) = IF pack.known[name] = Absent THEN Default(name) ELSE pack.known[name]
    BY <1>5 DEF Rendered
  <2>2. Default(name) \in {<<Placeholder>>, <<Blank>>, Absent}
    BY DEF Default, EmptyValue
  <2>3. Readable(<<Placeholder>>) /\ Readable(<<Blank>>)
    BY ReadableOne
  <2> QED
    BY <1>5, <2>1, <2>2, <2>3 DEF Printable
<1> QED
  BY <1>1, <1>2, <1>3, <1>4, <1>5

LEMMA RenderedHasTexts ==
  ASSUME NoLists, NEW pack, NEW Names, Writable(pack, Names), NEW name \in Known
  PROVE  Rendered(pack, name) = Absent \/ Texts(Rendered(pack, name))
<1>1. \A x : Texts(<<x>>)
  BY SmallLists DEF Texts
<1>2. CASE name = <<"Version">>
  BY <1>1, <1>2 DEF Rendered
<1>3. CASE name = <<"Depends">>
  <2>1. IsList(DependsOf(pack.depends))
    BY RelationsAreLists DEF Writable
  <2>2. Texts(DependsValue(DependsOf(pack.depends)))
    BY <2>1, DependsAreFoldedLists
  <2> QED
    BY <1>3, <2>2 DEF Rendered
<1>4. CASE name = <<"Conflicts">>
  <2> DEFINE value == pack.known[name]
             conflicts == ConflictsOf(pack.depends)
  <2>1. value = Absent \/ Texts(value)
    <3>1. name \in Known \ {<<"Version">>, <<"Depends">>}
      BY <1>4
    <3> QED
      BY <3>1 DEF Writable
  <2>2. Rendered(pack, name) = AllConflicts(value, conflicts)
    BY <1>4 DEF Rendered
  <2> HIDE DEF value, conflicts
  <2>3. CASE conflicts = <<>> \/ value = Absent
    BY <1>1, <2>1, <2>2, <2>3 DEF AllConflicts
  <2>4. CASE conflicts # <<>> /\ value # Absent
    <3> DEFINE list == (IF Last(value) = Blank THEN <<Blank>> ELSE Last(value)) \o conflicts
               front == Front(value)
    <3>1. Rendered(pack, name) = Append(front, list)
      BY <2>2, <2>4 DEF AllConflicts
    <3>2. IsList(front)
      <4>1. IsList(value) /\ Len(value) \in Nat \ {0}
        BY <2>1, <2>4, ListFacts DEF Texts
      <4>2. Len(value) - 1 \in 0 .. Len(value)
        BY <4>1
      <4> QED
        BY <4>1, <4>2, PrefixList DEF Front
    <3> HIDE DEF list, front
    <3> QED
      BY <3>1, <3>2, AppendList DEF Texts
  <2> QED
    BY <2>3, <2>4
<1>5. CASE name = <<"Filename">>
  <2>1. Rendered(pack, name) = RepositoryFilename(pack)
    BY <1>5 DEF Rendered
  <2>2. name \in Known \ {<<"Version">>, <<"Depends">>}
    BY <1>5
  <2> QED
    BY <1>1, <1>5, <2>1, <2>2 DEF Writable, RepositoryFilename
<1>6. CASE name \notin {<<"Version">>, <<"Depends">>, <<"Conflicts">>, <<"Filename">>}
  <2>1. Rendered(pack, name) = IF pack.known[name] = Absent THEN Default(name) ELSE pack.known[name]
    BY <1>6 DEF Rendered
  <2>2. Default(name) \in {<<Placeholder>>, <<Blank>>, Absent}
    BY DEF Default, EmptyValue
  <2>3. Texts(<<Placeholder>>) /\ Texts(<<Blank>>)
    BY <1>1
  <2> QED
    BY <1>6, <2>1, <2>2, <2>3 DEF Writable
<1> QED
  BY <1>2, <1>3, <1>4, <1>5, <1>6

\* What the entry of any package is read as: the fields of a Package, and behind them
\* its user-defined fields.
EntryFields(fields, pack) ==
  /\ \A name \in Known :
       /\ Rendered(pack, name) = Absent => ValueOf(fields, name) = Absent
       /\ Rendered(pack, name) # Absent => ReadsAs(Rendered(pack, name), ValueOf(fields, name))
  /\ \E K \in Nat :
       /\ Len(fields) = K + Len(pack.extra)
       /\ \A k \in 1 .. K : fields[k].name \in Known
       /\ \A i \in 1 .. Len(pack.extra) : IsReadOf(fields[K + i], pack.extra[i])

LEMMA EntryIsRead ==
  ASSUME NoLists, NEW pack, NEW Names, Writable(pack, Names)
  PROVE  LET fields == ParseParagraph(Render(pack)) IN
         Fields(fields, Known \cup Names, FALSE) /\ EntryFields(fields, pack)
<1> DEFINE R == [name \in Known |-> Rendered(pack, name)]
           more == pack.extra
           known == [i \in 1 .. Len(Order) |-> Optional(Order[i], R[Order[i]])]
           extra == [i \in 1 .. Len(more) |-> WriteField(more[i].name, more[i].value)]
           p == ReadLines(Nothing, FlattenSeq(known))
           old == Committed(p)
           fields == Committed(ReadLines(p, FlattenSeq(extra)))
<1>1. /\ IsList(Order) /\ Known = {Order[i] : i \in 1 .. Len(Order)}
      /\ \A i \in 1 .. Len(Order) : FieldName(Order[i])
  BY OrderNames DEF NoLists
<1>2. \A name \in Known : R[name] = Rendered(pack, name) /\ (R[name] = Absent \/ Texts(R[name]))
  BY RenderedHasTexts
<1>3. OtherNames(Names) /\ Paragraph(more, Names, FALSE)
  BY DEF Writable
<1>4. IsList(more) /\ DOMAIN more = 1 .. Len(more) /\ Len(more) \in Nat
  BY <1>3, ListFacts DEF Paragraph, Fields
<1>5. /\ IsList(FlattenSeq(known)) /\ Holds(old, Order, R)
      /\ \A i \in 1 .. Len(Order) : R[Order[i]] # Absent => Has(old, Order[i])
  <2> DEFINE lines == FlattenSeq(known)
  <2>1. \A i \in 1 .. Len(Order) : R[Order[i]] = Absent \/ Texts(R[Order[i]])
    BY <1>1, <1>2
  <2> HIDE DEF R
  <2> QED
    BY <1>1, <2>1, OrderIsRead
<1>6. Render(pack) = FlattenSeq(known) \o FlattenSeq(extra)
  <2>1. Mapped(Order, LAMBDA name : Optional(name, Rendered(pack, name))) = known
    <3>1. DOMAIN Order = 1 .. Len(Order)
      BY <1>1, ListFacts
    <3>2. \A i \in 1 .. Len(Order) : Rendered(pack, Order[i]) = R[Order[i]]
      BY <1>1, <1>2
    <3> HIDE DEF R
    <3> QED
      BY <3>1, <3>2 DEF Mapped
  <2>2. Mapped(more, LAMBDA f : WriteField(f.name, f.value)) = extra
    BY <1>4 DEF Mapped
  <2> HIDE DEF known, extra
  <2> QED
    BY <2>1, <2>2 DEF Render
<1> HIDE DEF R
<1>7. IsList(old)
  BY <1>5 DEF Holds
<1>8. \A k \in 1 .. Len(old) : IsOneOf(old[k], Order, R)
  BY <1>5 DEF Holds
<1>9. ASSUME NEW k \in 1 .. Len(old)
      PROVE  /\ old[k].name \in Known /\ R[old[k].name] # Absent
             /\ ReadsAs(R[old[k].name], old[k].value)
  <2>1. PICK i \in 1 .. Len(Order) :
          /\ R[Order[i]] # Absent
          /\ \E read : ReadsAs(R[Order[i]], read) /\ old[k] = [name |-> Order[i], value |-> read]
    BY <1>8 DEF IsOneOf
  <2>2. old[k].name = Order[i] /\ ReadsAs(R[Order[i]], old[k].value)
    BY <2>1
  <2> QED
    BY <1>1, <2>1, <2>2
<1>10. ASSUME NEW i \in 1 .. Len(more)
       PROVE  /\ FieldName(more[i].name) /\ Texts(more[i].value)
              /\ more[i].name \notin Known /\ more[i].name \in Names
  BY <1>3 DEF Paragraph, Fields, OtherNames
<1>11. DOMAIN old = 1 .. Len(old) /\ Len(old) \in Nat
  BY <1>7, ListFacts
<1>12. \A i \in 1 .. Len(more) : ~Has(old, more[i].name)
  BY <1>9, <1>10, <1>11 DEF Has
<1>13. /\ IsList(FlattenSeq(extra)) /\ IsList(fields) /\ Len(fields) = Len(old) + Len(more)
       /\ \A i \in 1 .. Len(old) : fields[i] = old[i]
       /\ \A i \in 1 .. Len(more) : IsReadOf(fields[Len(old) + i], more[i])
  <2>1. Distinct(more)
    BY <1>3 DEF Paragraph
  <2>2. \A i \in 1 .. Len(more) : /\ FieldName(more[i].name) /\ Texts(more[i].value)
                                  /\ ~Has(Committed(p), more[i].name)
    BY <1>10, <1>12
  <2>3. IsList(Committed(p))
    BY <1>7
  <2>4. extra = [i \in 1 .. Len(more) |-> WriteField(more[i].name, more[i].value)]
    OBVIOUS
  <2>5. IsList(more)
    BY <1>4
  <2> HIDE DEF p, more, extra
  <2> QED
    BY <2>1, <2>2, <2>3, <2>4, <2>5, MoreIsRead
<1>14. ParseParagraph(Render(pack)) = fields
  <2>1. ParseParagraph(Render(pack)) = Committed(ReadLines(Nothing, Render(pack)))
    BY DEF ParseParagraph, Nothing
  <2>2. ReadLines(Nothing, Render(pack)) = ReadLines(p, FlattenSeq(extra))
    <3> DEFINE a == FlattenSeq(known)
               b == FlattenSeq(extra)
    <3>1. IsList(a) /\ IsList(b) /\ Render(pack) = a \o b
      BY <1>5, <1>6, <1>13
    <3>2. p = ReadLines(Nothing, a)
      OBVIOUS
    <3> HIDE DEF a, b, p
    <3>3. ReadLines(Nothing, a \o b) = ReadLines(p, b)
      BY <3>1, <3>2, ReadLinesConcat
    <3> QED
      BY <3>1, <3>3 DEF b
  <2> QED
    BY <2>1, <2>2
<1> HIDE DEF fields, old, more, known, extra
<1>15. \A k \in 1 .. Len(fields) :
         k \in 1 .. Len(old) \/ \E i \in 1 .. Len(more) : k = Len(old) + i
  <2> TAKE k \in 1 .. Len(fields)
  <2>1. k \in 1 .. Len(old) \/ k - Len(old) \in 1 .. Len(more)
    BY <1>4, <1>11, <1>13
  <2>2. k = Len(old) + (k - Len(old))
    BY <1>11
  <2> QED
    BY <2>1, <2>2
<1>16. ASSUME NEW i \in 1 .. Len(more)
       PROVE  fields[Len(old) + i].name = more[i].name /\ Texts(fields[Len(old) + i].value)
  <2> DEFINE field == fields[Len(old) + i]
             of == more[i]
  <2>1. IsReadOf(field, of)
    BY <1>13
  <2> HIDE DEF field, of
  <2>2. PICK read : ReadsAs(of.value, read) /\ field = [name |-> of.name, value |-> read]
    BY <2>1 DEF IsReadOf
  <2>3. field.name = of.name /\ field.value = read /\ Texts(read)
    BY <2>2 DEF ReadsAs
  <2> QED
    BY <2>3 DEF field, of
<1>17. ASSUME NEW name \in Known
       PROVE  /\ R[name] = Absent => ValueOf(fields, name) = Absent
              /\ R[name] # Absent => ReadsAs(R[name], ValueOf(fields, name))
  <2>1. DOMAIN fields = 1 .. Len(fields)
    BY <1>13, ListFacts
  <2>2. ASSUME NEW k \in 1 .. Len(fields), fields[k].name = name
        PROVE  R[name] # Absent /\ ReadsAs(R[name], fields[k].value)
    <3>1. CASE k \in 1 .. Len(old)
      BY <1>9, <1>13, <2>2, <3>1
    <3>2. CASE \E i \in 1 .. Len(more) : k = Len(old) + i
      BY <1>10, <1>16, <2>2, <3>2
    <3> QED
      BY <1>15, <3>1, <3>2
  <2>3. CASE Has(fields, name)
    <3>1. /\ PlaceOf(fields, name) \in 1 .. Len(fields)
          /\ fields[PlaceOf(fields, name)].name = name
          /\ ValueOf(fields, name) = fields[PlaceOf(fields, name)].value
      BY <1>13, <2>3, PlaceFacts
    <3> QED
      BY <2>2, <3>1
  <2>4. CASE ~Has(fields, name)
    <3>1. R[name] = Absent
      <4> SUFFICES ASSUME R[name] # Absent
                   PROVE  FALSE
        OBVIOUS
      <4>1. Has(old, name)
        BY <1>1, <1>5
      <4>2. PICK k \in 1 .. Len(old) : old[k].name = name
        BY <1>11, <4>1 DEF Has
      <4>3. k \in 1 .. Len(fields) /\ fields[k].name = name
        BY <1>4, <1>11, <1>13, <4>2
      <4> QED
        BY <2>1, <2>4, <4>3 DEF Has
    <3>2. ValueOf(fields, name) = Absent
      BY <2>4 DEF ValueOf
    <3> QED
      BY <3>1, <3>2
  <2> QED
    BY <2>3, <2>4
<1>18. EntryFields(fields, pack)
  <2>1. \A k \in 1 .. Len(old) : fields[k].name \in Known
    BY <1>9, <1>13
  <2> QED
    BY <1>2, <1>11, <1>13, <1>17, <2>1 DEF EntryFields, more
<1>19. Fields(fields, Known \cup Names, FALSE)
  <2>1. ASSUME NEW k \in 1 .. Len(fields)
        PROVE  fields[k].name \in Known \cup Names /\ Texts(fields[k].value)
    <3>1. CASE k \in 1 .. Len(old)
      BY <1>9, <1>13, <3>1 DEF ReadsAs
    <3>2. CASE \E i \in 1 .. Len(more) : k = Len(old) + i
      BY <1>10, <1>16, <3>2
    <3> QED
      BY <1>15, <3>1, <3>2
  <2> QED
    BY <1>13, <2>1 DEF Fields
<1> QED
  BY <1>14, <1>18, <1>19

\* A package of which nothing is lost: its fields by their names, and its
\* user-defined fields, as they were written.
LEMMA PrintableIsRead ==
  ASSUME NoLists, NEW pack, Printable(pack)
  PROVE  LET fields == ParseParagraph(Render(pack)) IN
         /\ \A name \in Known :
              ValueOf(fields, name) = IF Rendered(pack, name) = Absent THEN Absent
                                      ELSE WithoutTrailingBlanks(Rendered(pack, name))
         /\ IsList(ExtraFields(fields)) /\ Len(ExtraFields(fields)) = Len(pack.extra)
         /\ \A i \in 1 .. Len(pack.extra) :
              ExtraFields(fields)[i] =
                [name |-> pack.extra[i].name, value |-> WithoutTrailingBlanks(pack.extra[i].value)]
<1> DEFINE fields == ParseParagraph(Render(pack))
           more == pack.extra
<1>1. PICK Names : ExtraNames(Names) /\ Paragraph(more, Names, TRUE) /\ Writable(pack, Names)
  BY PrintableIsWritable
<1>2. Fields(fields, Known \cup Names, FALSE) /\ EntryFields(fields, pack)
  BY <1>1, EntryIsRead
<1> HIDE DEF fields
<1>3. \A name \in Known :
        ValueOf(fields, name) = IF Rendered(pack, name) = Absent THEN Absent
                                ELSE WithoutTrailingBlanks(Rendered(pack, name))
  BY <1>2, RenderedIsReadable DEF EntryFields, ReadsAs
<1>4. PICK K \in Nat : /\ Len(fields) = K + Len(more)
                       /\ \A k \in 1 .. K : fields[k].name \in Known
                       /\ \A i \in 1 .. Len(more) : IsReadOf(fields[K + i], more[i])
  BY <1>2 DEF EntryFields
<1>5. IsList(fields) /\ IsList(more) /\ Len(more) \in Nat /\ Len(fields) \in Nat
  BY <1>1, <1>2, ListFacts DEF Paragraph, Fields
<1>6. ASSUME NEW i \in 1 .. Len(more)
      PROVE  /\ more[i].name \notin Known /\ ExtraName(more[i].name) = more[i].name
             /\ fields[K + i].name = more[i].name
             /\ fields[K + i] = [name |-> more[i].name, value |-> WithoutTrailingBlanks(more[i].value)]
             /\ fields[K + i] = [name |-> fields[K + i].name, value |-> fields[K + i].value]
  <2>1. more[i].name \in Names /\ Readable(more[i].value)
    BY <1>1 DEF Paragraph, Fields
  <2>2. fields[K + i] = [name |-> more[i].name, value |-> WithoutTrailingBlanks(more[i].value)]
    BY <1>4, <2>1 DEF IsReadOf, ReadsAs
  <2> DEFINE field == fields[K + i]
  <2>3. field = [name |-> field.name, value |-> field.value]
    <3> HIDE DEF field
    <3>1. \E name, value : field = [name |-> name, value |-> value]
      BY <2>2 DEF field
    <3> QED
      BY <3>1
  <2> QED
    BY <1>1, <2>1, <2>2, <2>3 DEF ExtraNames
<1>7. K \in 0 .. Len(fields) /\ Len(fields) - K = Len(more)
  BY <1>4, <1>5
<1>8. \A n \in K + 1 .. Len(fields) : \E i \in 1 .. Len(more) : n = K + i
  <2> TAKE n \in K + 1 .. Len(fields)
  <2>1. n - K \in 1 .. Len(more) /\ n = K + (n - K)
    BY <1>4, <1>5
  <2> QED
    BY <2>1
<1>9. ASSUME NEW n \in K + 1 .. Len(fields)
      PROVE  /\ fields[n].name \notin Known /\ ExtraName(fields[n].name) = fields[n].name
             /\ fields[n] = [name |-> fields[n].name, value |-> fields[n].value]
             /\ \A m \in K + 1 .. Len(fields) : fields[m].name = fields[n].name => m = n
  <2>1. PICK i \in 1 .. Len(more) : n = K + i
    BY <1>8
  <2>2. fields[n].name = more[i].name
    BY <1>6, <2>1
  <2>3. fields[n] = [name |-> fields[n].name, value |-> fields[n].value]
    BY <1>6, <2>1
  <2>4. ASSUME NEW m \in K + 1 .. Len(fields), fields[m].name = fields[n].name
        PROVE  m = n
    <3>1. PICK j \in 1 .. Len(more) : m = K + j
      BY <1>8
    <3>2. more[j].name = more[i].name
      BY <1>6, <2>2, <2>4, <3>1
    <3> QED
      BY <1>1, <2>1, <3>1, <3>2 DEF Paragraph, Distinct
  <2> QED
    BY <1>6, <2>1, <2>2, <2>3, <2>4
<1> HIDE DEF more
<1>10. /\ IsList(ExtraFields(fields)) /\ Len(ExtraFields(fields)) = Len(fields) - K
       /\ \A i \in 1 .. Len(fields) - K : ExtraFields(fields)[i] = fields[K + i]
  BY <1>4, <1>5, <1>7, <1>9, ExtraKept
<1> QED
  BY <1>3, <1>6, <1>7, <1>10 DEF fields, more

\* What the package of an entry has for a field of the package that was rendered.
LEMMA FieldIsKept ==
  ASSUME NoLists, NEW pack, Printable(pack), NEW name \in Known
  PROVE  LET again == ParsePackage(Render(pack)) IN
         Optional(name, Rendered(again, name)) = Optional(name, Rendered(pack, name))
<1> DEFINE fields == ParseParagraph(Render(pack))
           again == ParsePackage(Render(pack))
           written(n) == IF Rendered(pack, n) = Absent THEN Absent
                         ELSE WithoutTrailingBlanks(Rendered(pack, n))
<1>1. \A n \in Known : ValueOf(fields, n) = written(n)
  BY PrintableIsRead
<1>2. /\ again.version = ParseVersion(ValueOf(fields, <<"Version">>)[1])
      /\ \A n \in Known \ {<<"Version">>, <<"Depends">>} : again.known[n] = ValueOf(fields, n)
      /\ again.depends = LET depends == ValueOf(fields, <<"Depends">>) IN
                         IF depends = Absent THEN <<>> ELSE ParseDependencies(depends)
  BY DEF ParsePackage
<1> HIDE DEF fields, again
<1> SUFFICES Optional(name, Rendered(again, name)) = Optional(name, Rendered(pack, name))
  BY DEF again
<1>3. Rendered(pack, name) = Absent \/ Readable(Rendered(pack, name))
  BY RenderedIsReadable
<1>4. ASSUME Rendered(again, name) = written(name)
      PROVE  Optional(name, Rendered(again, name)) = Optional(name, Rendered(pack, name))
  <2>1. CASE Rendered(pack, name) = Absent
    BY <1>4, <2>1
  <2>2. CASE Rendered(pack, name) # Absent
    <3> DEFINE value == Rendered(pack, name)
    <3>1. Readable(value)
      BY <1>3, <2>2
    <3>2. Rendered(again, name) = WithoutTrailingBlanks(value)
      BY <1>4, <2>2
    <3>3. value # Absent
      BY <2>2
    <3> HIDE DEF value
    <3>4. IsList(WithoutTrailingBlanks(value))
      BY <3>1, TrimmedValue DEF Readable
    <3>5. WriteField(name, WithoutTrailingBlanks(value)) = WriteField(name, value)
      BY <3>1, WrittenTrimmed DEF Readable
    <3>6. WithoutTrailingBlanks(value) # Absent
      BY <3>4 DEF NoLists
    <3>7. Optional(name, Rendered(again, name)) = Optional(name, value)
      BY <3>2, <3>3, <3>5, <3>6 DEF Optional
    <3> QED
      BY <3>7 DEF value
  <2> QED
    BY <2>1, <2>2
<1>5. again.depends = IF pack.depends = <<>> THEN <<>> ELSE DependsOf(pack.depends)
  <2>1. <<"Depends">> \in Known
    BY NamesOfThePackage
  <2>2. CASE pack.depends = <<>>
    <3>1. Rendered(pack, <<"Depends">>) = Absent
      BY <2>2 DEF Rendered
    <3> QED
      BY <1>1, <1>2, <2>1, <2>2, <3>1
  <2>3. CASE pack.depends # <<>>
    <3> DEFINE D == DependsOf(pack.depends)
    <3>1. DependencyList(D) /\ D # <<>>
      BY <2>3, NormalizedList DEF Printable
    <3>2. Rendered(pack, <<"Depends">>) = DependsValue(D)
      BY <2>3 DEF Rendered
    <3> HIDE DEF D
    <3>3. DependsValue(D) = <<D>>
      BY <3>1, DependsOnOneLine DEF DependencyList, NoLists
    <3>4. <<D>> # Absent
      BY SmallLists DEF NoLists
    <3>5. ValueOf(fields, <<"Depends">>) = <<D>>
      BY <1>1, <2>1, <3>2, <3>3, <3>4, TrimmedOne
    <3>6. again.depends = ParseDependencies(<<D>>)
      BY <1>2, <3>4, <3>5
    <3>7. ParseDependencies(<<D>>) = D
      BY <3>1, OneLineIsRead DEF NoLists
    <3> QED
      BY <2>3, <3>6, <3>7 DEF D
  <2> QED
    BY <2>2, <2>3
<1>6. DependsOf(again.depends) = again.depends /\ ConflictsOf(again.depends) = <<>>
  <2>1. DependencyList(again.depends) /\ \A n \in 1 .. Len(again.depends) : Normal(again.depends[n])
    <3>1. CASE pack.depends = <<>>
      BY <1>5, <3>1, SmallLists DEF DependencyList
    <3>2. CASE pack.depends # <<>>
      BY <1>5, <3>2, NormalizedList DEF Printable
    <3> QED
      BY <3>1, <3>2
  <2> QED
    BY <2>1, NormalListKept
<1>7. CASE name = <<"Version">>
  <2>1. PICK w : IsList(w) /\ pack.version = ParseVersion(w)
    BY DEF Printable
  <2> DEFINE v == FullVersion(ParseVersion(w))
  <2>2. Rendered(pack, name) = <<v>>
    BY <1>7, <2>1 DEF Rendered
  <2> HIDE DEF v
  <2>3. <<v>> # Absent /\ <<v>>[1] = v
    BY SmallLists DEF NoLists
  <2>4. ValueOf(fields, <<"Version">>) = <<v>>
    BY <1>1, <1>7, <2>2, <2>3, TrimmedOne
  <2>5. Rendered(again, name) = <<FullVersion(ParseVersion(v))>>
    BY <1>2, <1>7, <2>3, <2>4 DEF Rendered
  <2>6. FullVersion(ParseVersion(v)) = v
    <3>1. ParseVersion(v) = ParseVersion(w)
      BY <2>1, VersionIsKept DEF v
    <3> QED
      BY <3>1 DEF v
  <2> QED
    BY <2>2, <2>5, <2>6
<1>8. CASE name = <<"Depends">>
  <2>1. CASE pack.depends = <<>>
    BY <1>5, <1>8, <2>1 DEF Rendered
  <2>2. CASE pack.depends # <<>>
    <3>1. again.depends = DependsOf(pack.depends) /\ DependsOf(pack.depends) # <<>>
      BY <1>5, <2>2, NormalizedList DEF Printable
    <3>2. Rendered(pack, name) = DependsValue(DependsOf(pack.depends))
      BY <1>8, <2>2 DEF Rendered
    <3>3. Rendered(again, name) = DependsValue(DependsOf(again.depends))
      BY <1>8, <3>1 DEF Rendered
    <3> QED
      BY <1>6, <3>1, <3>2, <3>3
  <2> QED
    BY <2>1, <2>2
<1>9. CASE name \notin {<<"Version">>, <<"Depends">>}
  <2>1. again.known[name] = written(name)
    BY <1>1, <1>2, <1>9
  <2>2. Rendered(again, name) = written(name)
    <3>1. CASE name = <<"Conflicts">>
      <4>1. Rendered(again, name) = AllConflicts(again.known[name], <<>>)
        BY <1>6, <3>1 DEF Rendered
      <4> QED
        BY <2>1, <4>1 DEF AllConflicts
    <3>2. CASE name = <<"Filename">>
      <4>1. Rendered(pack, name) # Absent
        <5>1. Rendered(pack, name) = RepositoryFilename(pack)
          BY <3>2 DEF Rendered
        <5>2. \A x : <<x>> # Absent
          BY SmallLists DEF NoLists
        <5> QED
          BY <5>1, <5>2 DEF RepositoryFilename
      <4>2. written(name) # Absent
        <5>1. Readable(Rendered(pack, name))
          BY <1>3, <4>1
        <5>2. IsList(WithoutTrailingBlanks(Rendered(pack, name)))
          BY <5>1, TrimmedValue DEF Readable
        <5> QED
          BY <4>1, <5>2 DEF NoLists
      <4>3. Rendered(again, name) = RepositoryFilename(again)
        BY <3>2 DEF Rendered
      <4> HIDE DEF written
      <4> QED
        BY <2>1, <3>2, <4>2, <4>3 DEF RepositoryFilename
    <3>3. CASE name \notin {<<"Conflicts">>, <<"Filename">>}
      <4>1. /\ Rendered(again, name) = IF again.known[name] = Absent THEN Default(name) ELSE again.known[name]
            /\ Rendered(pack, name) = IF pack.known[name] = Absent THEN Default(name) ELSE pack.known[name]
        BY <1>9, <3>3 DEF Rendered
      <4>2. CASE Rendered(pack, name) = Absent
        <5>1. Default(name) = Absent
          BY <4>1, <4>2
        <5> QED
          BY <2>1, <4>1, <4>2, <5>1
      <4>3. CASE Rendered(pack, name) # Absent
        <5>1. Readable(Rendered(pack, name))
          BY <1>3, <4>3
        <5>2. IsList(WithoutTrailingBlanks(Rendered(pack, name)))
          BY <5>1, TrimmedValue DEF Readable
        <5>3. written(name) # Absent
          BY <4>3, <5>2 DEF NoLists
        <5> HIDE DEF written
        <5> QED
          BY <2>1, <4>1, <5>3
      <4> QED
        BY <4>2, <4>3
    <3> QED
      BY <3>1, <3>2, <3>3
  <2> HIDE DEF written
  <2> QED
    BY <1>4, <2>2
<1> QED
  BY <1>7, <1>8, <1>9

\* Re-publishing an index keeps its entries: a package is rendered to the same lines
\* when it was read from those lines, with its fields in their order, their folded
\* values, its version, its dependencies and its user-defined fields.
THEOREM EntryIsStable ==
  ASSUME NoLists, NEW pack, Printable(pack)
  PROVE  Render(ParsePackage(Render(pack))) = Render(pack)
<1> DEFINE again == ParsePackage(Render(pack))
           more == pack.extra
           moreAgain == again.extra
<1>1. \A name \in Known :
        Optional(name, Rendered(again, name)) = Optional(name, Rendered(pack, name))
  BY FieldIsKept
<1>2. moreAgain = ExtraFields(ParseParagraph(Render(pack)))
  BY DEF ParsePackage
<1>3. /\ IsList(moreAgain) /\ Len(moreAgain) = Len(more)
      /\ \A i \in 1 .. Len(more) :
           moreAgain[i] = [name |-> more[i].name, value |-> WithoutTrailingBlanks(more[i].value)]
  BY <1>2, PrintableIsRead
<1>4. PICK Names : Paragraph(more, Names, TRUE)
  BY DEF Printable
<1> HIDE DEF again
<1>5. Mapped(Order, LAMBDA name : Optional(name, Rendered(again, name))) =
        Mapped(Order, LAMBDA name : Optional(name, Rendered(pack, name)))
  <2>1. \A i \in DOMAIN Order : Order[i] \in Known
    BY DEF Known, ToSet
  <2> QED
    BY <1>1, <2>1 DEF Mapped
<1> HIDE DEF moreAgain
<1>6. Mapped(moreAgain, LAMBDA f : WriteField(f.name, f.value)) =
        Mapped(more, LAMBDA f : WriteField(f.name, f.value))
  <2>1. DOMAIN more = 1 .. Len(more) /\ DOMAIN moreAgain = 1 .. Len(more)
    BY <1>3, <1>4, ListFacts DEF Paragraph, Fields
  <2>2. ASSUME NEW i \in 1 .. Len(more)
        PROVE  WriteField(moreAgain[i].name, moreAgain[i].value) =
                 WriteField(more[i].name, more[i].value)
    <3>1. moreAgain[i] = [name |-> more[i].name, value |-> WithoutTrailingBlanks(more[i].value)]
      BY <1>3
    <3>2. Readable(more[i].value)
      BY <1>4 DEF Paragraph, Fields
    <3> QED
      BY <3>1, <3>2, WrittenTrimmed DEF Readable
  <2> HIDE DEF more
  <2> QED
    BY <2>1, <2>2 DEF Mapped
<1>7. Render(again) = Render(pack)
  BY <1>5, <1>6 DEF Render, more, moreAgain
<1> QED
  BY <1>7 DEF again
=============================================================================
