--------------------------- MODULE AptIndexProofs ---------------------------
(***************************************************************************)
(* What the operations on lists, manifests and Release compute, for lists  *)
(* of any length.                                                          *)
(*                                                                         *)
(* The recursive functions of AptIndex are shown to satisfy the equations  *)
(* that define them, by induction stated for a set of numbers; what they   *)
(* return follows by another induction.                                    *)
(***************************************************************************)
EXTENDS AptIndex, SequenceTheorems, WellFoundedInduction, TLAPS

\* Induction: a set with 0 and the successors of its numbers has all of them.
LEMMA SetInduction ==
  ASSUME NEW S, 0 \in S, \A n \in Nat : n \in S => n + 1 \in S
  PROVE  \A n \in Nat : n \in S
<1> DEFINE T == Nat \ S
           R == OpToRel(<, Nat)
<1> SUFFICES ASSUME T # {}
             PROVE  FALSE
  OBVIOUS
<1>1. \A y \in Nat : <<y, y + 1>> \in R
  BY DEF OpToRel
<1>2. IsWellFoundedOn(R, Nat)
  BY NatLessThanWellFounded
<1> HIDE DEF R
<1>3. PICK x \in T : \A y \in T : ~(<<y, x>> \in R)
  BY <1>2, WFMin
<1>4. x # 0 /\ x - 1 \in Nat /\ (x - 1) + 1 = x
  OBVIOUS
<1>5. x - 1 \notin T
  BY <1>1, <1>3, <1>4
<1> QED
  BY <1>4, <1>5

-----------------------------------------------------------------------------
(* Lists.                                                                  *)

\* A list is a function on an initial interval.
LEMMA ListIsFunction ==
  ASSUME NEW s, IsList(s)
  PROVE  /\ Len(s) \in Nat /\ DOMAIN s = 1..Len(s)
         /\ s = [n \in 1..Len(s) |-> s[n]]
BY DEF IsList

\* Every sequence is a list of some of the elements of its type.
LEMMA SequenceIsList ==
  ASSUME NEW S, NEW s \in Seq(S)
  PROVE  IsList(s) /\ EntriesOf(s) \subseteq S
<1>1. /\ Len(s) \in Nat /\ DOMAIN s = 1..Len(s)
      /\ s = [n \in 1..Len(s) |-> s[n]]
      /\ \A n \in 1..Len(s) : s[n] \in S
  OBVIOUS
<1>2. s \in [1..Len(s) -> EntriesOf(s)]
  BY <1>1 DEF EntriesOf
<1>3. s \in Seq(EntriesOf(s))
  BY <1>1, <1>2, SeqDef
<1> QED
  BY <1>1, <1>3 DEF EntriesOf, IsList

\* A function on an initial interval is a list.
LEMMA FunctionIsList ==
  ASSUME NEW n \in Nat, NEW s, s = [k \in 1..n |-> s[k]]
  PROVE  IsList(s) /\ Len(s) = n
<1>1. s \in [1..n -> EntriesOf(s)]
  BY DEF EntriesOf
<1>2. s \in Seq(EntriesOf(s))
  BY <1>1, SeqDef
<1> QED
  BY <1>1, <1>2 DEF IsList

\* A function on the positions of a list is a list.
LEMMA ImageIsList ==
  ASSUME NEW s, IsList(s), NEW t, t = [n \in DOMAIN s |-> t[n]]
  PROVE  IsList(t) /\ Len(t) = Len(s)
BY ListIsFunction, FunctionIsList

LEMMA EmptyIsList == IsList(<<>>) /\ EntriesOf(<<>>) = {}
BY EmptySeq DEF IsList, EntriesOf

LEMMA SingletonIsList ==
  ASSUME NEW x
  PROVE  IsList(<<x>>) /\ EntriesOf(<<x>>) = {x}
<1> DEFINE s == <<x>>
<1>1. s \in Seq({x}) /\ DOMAIN s = 1..1 /\ s[1] = x
  OBVIOUS
<1> HIDE DEF s
<1>2. IsList(s) /\ EntriesOf(s) = {x}
  BY <1>1, SequenceIsList DEF EntriesOf
<1> QED
  BY <1>2 DEF s

\* A list has no element only if it is empty.
LEMMA NoEntries ==
  ASSUME NEW s, IsList(s), EntriesOf(s) = {}
  PROVE  s = <<>>
<1>1. DOMAIN s = {}
  BY DEF EntriesOf
<1>2. Len(s) = 0
  BY <1>1, ListIsFunction
<1> QED
  BY <1>2, EmptySeq DEF IsList

LEMMA AppendEntries ==
  ASSUME NEW s, IsList(s), NEW e
  PROVE  IsList(Append(s, e)) /\ EntriesOf(Append(s, e)) = EntriesOf(s) \cup {e}
<1> DEFINE S == EntriesOf(s) \cup {e}
<1>1. s \in Seq(S)
  BY SeqMonotonic DEF IsList
<1> HIDE DEF S
<1>2. /\ Append(s, e) \in Seq(S)
      /\ Len(Append(s, e)) = Len(s) + 1
      /\ \A i \in 1..Len(s) : Append(s, e)[i] = s[i]
      /\ Append(s, e)[Len(s) + 1] = e
  BY <1>1, AppendProperties DEF S
<1>3. Len(s) \in Nat /\ DOMAIN s = 1..Len(s) /\ DOMAIN Append(s, e) = 1..(Len(s) + 1)
  BY <1>1, <1>2, LenProperties
<1>4. EntriesOf(Append(s, e)) = EntriesOf(s) \cup {e}
  BY <1>2, <1>3 DEF EntriesOf
<1> QED
  BY <1>2, <1>4, SequenceIsList

LEMMA ConcatEntries ==
  ASSUME NEW s, IsList(s), NEW t, IsList(t)
  PROVE  IsList(s \o t) /\ EntriesOf(s \o t) = EntriesOf(s) \cup EntriesOf(t)
<1> DEFINE S == EntriesOf(s) \cup EntriesOf(t)
<1>1. s \in Seq(S) /\ t \in Seq(S)
  BY SeqMonotonic DEF IsList
<1> HIDE DEF S
<1>2. /\ s \o t \in Seq(S)
      /\ Len(s \o t) = Len(s) + Len(t)
      /\ \A i \in 1..(Len(s) + Len(t)) :
           (s \o t)[i] = IF i <= Len(s) THEN s[i] ELSE t[i - Len(s)]
  BY <1>1, ConcatProperties
<1>3. /\ Len(s) \in Nat /\ DOMAIN s = 1..Len(s)
      /\ Len(t) \in Nat /\ DOMAIN t = 1..Len(t)
      /\ DOMAIN (s \o t) = 1..(Len(s) + Len(t))
  BY <1>1, <1>2, LenProperties
<1>4. EntriesOf(s \o t) \subseteq EntriesOf(s) \cup EntriesOf(t)
  BY <1>2, <1>3 DEF EntriesOf
<1>5. EntriesOf(s) \subseteq EntriesOf(s \o t)
  BY <1>2, <1>3 DEF EntriesOf
<1>6. ASSUME NEW i \in 1..Len(t)
      PROVE  t[i] \in EntriesOf(s \o t)
  <2>1. Len(s) + i \in 1..(Len(s) + Len(t)) /\ (s \o t)[Len(s) + i] = t[i]
    BY <1>2, <1>3
  <2> QED
    BY <1>3, <2>1 DEF EntriesOf
<1>7. EntriesOf(t) \subseteq EntriesOf(s \o t)
  BY <1>3, <1>6 DEF EntriesOf
<1> QED
  BY <1>2, <1>4, <1>5, <1>7, SequenceIsList

\* What is left of a list of requests once the first is taken.
LEMMA TailEntries ==
  ASSUME NEW s, IsList(s), s # <<>>
  PROVE  /\ IsList(Tail(s))
         /\ EntriesOf(s) = EntriesOf(Tail(s)) \cup {Head(s)}
<1>1. /\ Tail(s) \in Seq(EntriesOf(s))
      /\ Len(Tail(s)) = Len(s) - 1
      /\ \A i \in 1..Len(Tail(s)) : Tail(s)[i] = s[i + 1]
  BY HeadTailProperties DEF IsList
<1>2. /\ Len(s) \in Nat \ {0} /\ DOMAIN s = 1..Len(s)
      /\ DOMAIN Tail(s) = 1..(Len(s) - 1)
  BY <1>1, ListIsFunction, EmptySeq, LenProperties DEF IsList
<1>3. Head(s) = s[1]
  BY DEF IsList
<1>4. ASSUME NEW i \in 1..Len(s), i # 1
      PROVE  s[i] \in EntriesOf(Tail(s))
  <2>1. i - 1 \in 1..(Len(s) - 1) /\ Tail(s)[i - 1] = s[i]
    BY <1>1, <1>2, <1>4
  <2> QED
    BY <1>2, <2>1 DEF EntriesOf
<1>5. EntriesOf(s) \subseteq EntriesOf(Tail(s)) \cup {Head(s)}
  BY <1>2, <1>3, <1>4 DEF EntriesOf
<1>6. EntriesOf(Tail(s)) \cup {Head(s)} \subseteq EntriesOf(s)
  BY <1>1, <1>2, <1>3 DEF EntriesOf
<1> QED
  BY <1>1, <1>5, <1>6, SequenceIsList

-----------------------------------------------------------------------------
(* At and AppendNew.                                                       *)

\* The function that At computes exists and satisfies its equations.
LEMMA AtUnfolds ==
  ASSUME NEW s, IsList(s), NEW positions
  PROVE  \E at : /\ At(s, positions) = at[Len(s)]
                 /\ at[0] = <<>>
                 /\ \A n \in 1..Len(s) :
                      at[n] = IF n \in positions THEN Append(at[n - 1], s[n]) ELSE at[n - 1]
<1> DEFINE More(n, b) == IF n \in positions THEN Append(b, s[n]) ELSE b
           Rec(g, k) == g = [n \in 0..k |-> IF n = 0 THEN <<>> ELSE More(n, g[n - 1])]
           S == {k \in Nat : \E g : Rec(g, k)}
           at == CHOOSE g : Rec(g, Len(s))
<1>1. At(s, positions) = at[Len(s)]
  BY DEF At
<1> HIDE DEF More
<1>2. 0 \in S
  <2> DEFINE g == [n \in 0..0 |-> <<>>]
  <2>1. Rec(g, 0)
    OBVIOUS
  <2> HIDE DEF g, Rec
  <2> QED
    BY <2>1
<1>3. ASSUME NEW k \in Nat, k \in S
      PROVE  k + 1 \in S
  <2>1. PICK g : Rec(g, k)
    BY <1>3
  <2> DEFINE h == [n \in 0..(k + 1) |-> IF n = k + 1 THEN More(n, g[k]) ELSE g[n]]
  <2>2. Rec(h, k + 1)
    BY <2>1
  <2> HIDE DEF h, Rec
  <2> QED
    BY <2>2
<1>4. Len(s) \in Nat
  BY ListIsFunction
<1>5. Len(s) \in S
  <2> HIDE DEF S
  <2> QED
    BY <1>2, <1>3, <1>4, SetInduction
<1>6. Rec(at, Len(s))
  BY <1>5
<1> HIDE DEF at
<1>7. at[0] = <<>> /\ \A n \in 1..Len(s) : at[n] = More(n, at[n - 1])
  BY <1>4, <1>6
<1> QED
  BY <1>1, <1>7 DEF More

\* At returns the elements at the positions, and nothing else.
LEMMA AtEntries ==
  ASSUME NEW s, IsList(s), NEW positions
  PROVE  /\ IsList(At(s, positions))
         /\ EntriesOf(At(s, positions)) = {s[n] : n \in positions \cap DOMAIN s}
<1>1. PICK at : /\ At(s, positions) = at[Len(s)]
                /\ at[0] = <<>>
                /\ \A n \in 1..Len(s) :
                     at[n] = IF n \in positions THEN Append(at[n - 1], s[n]) ELSE at[n - 1]
  BY AtUnfolds
<1>2. Len(s) \in Nat /\ DOMAIN s = 1..Len(s)
  BY ListIsFunction
<1> DEFINE Good(n) == IsList(at[n]) /\ EntriesOf(at[n]) = {s[k] : k \in positions \cap 1..n}
           S == {n \in Nat : n <= Len(s) => Good(n)}
<1>3. 0 \in S
  BY <1>1, EmptyIsList
<1>4. ASSUME NEW n \in Nat, n \in S
      PROVE  n + 1 \in S
  <2> SUFFICES ASSUME n + 1 <= Len(s)
               PROVE  Good(n + 1)
    OBVIOUS
  <2>1. Good(n)
    BY <1>2, <1>4
  <2>2. at[n + 1] = IF n + 1 \in positions THEN Append(at[n], s[n + 1]) ELSE at[n]
    BY <1>1, <1>2
  <2>3. 1..(n + 1) = 1..n \cup {n + 1}
    OBVIOUS
  <2>4. CASE n + 1 \in positions
    <3>1. /\ IsList(at[n + 1])
          /\ EntriesOf(at[n + 1]) = EntriesOf(at[n]) \cup {s[n + 1]}
      BY <2>1, <2>2, <2>4, AppendEntries
    <3> QED
      BY <2>1, <2>3, <2>4, <3>1
  <2>5. CASE n + 1 \notin positions
    BY <2>1, <2>2, <2>3, <2>5
  <2> QED
    BY <2>4, <2>5
<1>5. Len(s) \in S
  <2> HIDE DEF S
  <2> QED
    BY <1>2, <1>3, <1>4, SetInduction
<1>6. Good(Len(s))
  BY <1>2, <1>5
<1> QED
  BY <1>1, <1>2, <1>6

\* At keeps the order: after the element of a position come those of later ones.
LEMMA AtOrder ==
  ASSUME NEW s, IsList(s), NEW positions, NEW i \in positions \cap DOMAIN s
  PROVE  \E m \in DOMAIN At(s, positions) :
           /\ At(s, positions)[m] = s[i]
           /\ \A l \in DOMAIN At(s, positions) : l > m =>
                \E k \in positions \cap DOMAIN s : k > i /\ At(s, positions)[l] = s[k]
<1>1. PICK at : /\ At(s, positions) = at[Len(s)]
                /\ at[0] = <<>>
                /\ \A n \in 1..Len(s) :
                     at[n] = IF n \in positions THEN Append(at[n - 1], s[n]) ELSE at[n - 1]
  BY AtUnfolds
<1>2. Len(s) \in Nat /\ DOMAIN s = 1..Len(s)
  BY ListIsFunction
<1> DEFINE After(t, m, n) == \A l \in DOMAIN t : l > m =>
                               \E k \in positions \cap 1..n : k > i /\ t[l] = s[k]
           Found(t, n) == \E m \in DOMAIN t : t[m] = s[i] /\ After(t, m, n)
           Good(n) == IsList(at[n]) /\ (i <= n => Found(at[n], n))
           S == {n \in Nat : n <= Len(s) => Good(n)}
<1>3. 0 \in S
  BY <1>1, <1>2, EmptyIsList
<1>4. ASSUME NEW n \in Nat, n \in S
      PROVE  n + 1 \in S
  <2> SUFFICES ASSUME n + 1 <= Len(s)
               PROVE  Good(n + 1)
    OBVIOUS
  <2>1. Good(n)
    BY <1>2, <1>4
  <2>2. at[n + 1] = IF n + 1 \in positions THEN Append(at[n], s[n + 1]) ELSE at[n]
    BY <1>1, <1>2
  <2>3. CASE n + 1 \notin positions
    <3>1. i <= n + 1 => i <= n
      BY <1>2, <2>3
    <3>2. 1..n \subseteq 1..(n + 1)
      OBVIOUS
    <3> QED
      BY <2>1, <2>2, <2>3, <3>1, <3>2
  <2>4. CASE n + 1 \in positions
    <3> DEFINE t == Append(at[n], s[n + 1])
    <3>1. IsList(t) /\ at[n + 1] = t
      BY <2>1, <2>2, <2>4, AppendEntries
    <3>2. /\ Len(at[n]) \in Nat /\ DOMAIN at[n] = 1..Len(at[n])
          /\ DOMAIN t = 1..(Len(at[n]) + 1)
          /\ t[Len(at[n]) + 1] = s[n + 1]
          /\ \A l \in 1..Len(at[n]) : t[l] = at[n][l]
      <4>1. at[n] \in Seq(EntriesOf(at[n]) \cup {s[n + 1]})
        BY <2>1, SeqMonotonic DEF IsList
      <4> QED
        BY <4>1, AppendProperties, LenProperties
    <3> HIDE DEF t
    <3>3. CASE i = n + 1
      <4>1. After(t, Len(at[n]) + 1, n + 1)
        BY <3>2
      <4> QED
        BY <3>1, <3>2, <3>3, <4>1
    <3>4. CASE i # n + 1
      <4> SUFFICES ASSUME i <= n
                   PROVE  Found(t, n + 1)
        BY <1>2, <3>1, <3>4
      <4>1. PICK m \in DOMAIN at[n] : at[n][m] = s[i] /\ After(at[n], m, n)
        BY <2>1
      <4>2. ASSUME NEW l \in DOMAIN t, l > m
            PROVE  \E k \in positions \cap 1..(n + 1) : k > i /\ t[l] = s[k]
        <5>1. CASE l = Len(at[n]) + 1
          BY <1>2, <2>4, <3>2, <5>1
        <5>2. CASE l # Len(at[n]) + 1
          <6>1. l \in 1..Len(at[n])
            BY <3>2, <5>2
          <6>2. l \in DOMAIN at[n] /\ t[l] = at[n][l]
            BY <3>2, <6>1
          <6>3. PICK k \in positions \cap 1..n : k > i /\ at[n][l] = s[k]
            BY <4>1, <4>2, <6>2
          <6> QED
            BY <6>2, <6>3
        <5> QED
          BY <5>1, <5>2
      <4>3. m \in DOMAIN t /\ t[m] = s[i]
        BY <3>2, <4>1
      <4> QED
        BY <4>2, <4>3
    <3> QED
      BY <3>3, <3>4
  <2> QED
    BY <2>3, <2>4
<1>5. Len(s) \in S
  <2> HIDE DEF S
  <2> QED
    BY <1>2, <1>3, <1>4, SetInduction
<1>6. Found(at[Len(s)], Len(s))
  BY <1>2, <1>5
<1> QED
  BY <1>1, <1>2, <1>6

\* AppendNew adds what is missing, and no more.
LEMMA AppendNewEntries ==
  ASSUME NEW s, IsList(s), NEW t, IsList(t)
  PROVE  /\ IsList(AppendNew(s, t))
         /\ EntriesOf(AppendNew(s, t)) = EntriesOf(s) \cup EntriesOf(t)
<1> DEFINE new == {n \in DOMAIN t : t[n] \notin EntriesOf(s)
                                    /\ \A k \in 1..(n - 1) : t[k] # t[n]}
           added == At(t, new)
<1>1. IsList(added) /\ EntriesOf(added) = {t[n] : n \in new}
  <2> HIDE DEF new
  <2>1. IsList(added) /\ EntriesOf(added) = {t[n] : n \in new \cap DOMAIN t}
    BY AtEntries
  <2> QED
    BY <2>1 DEF new
<1>2. AppendNew(s, t) = s \o added
  BY DEF AppendNew
<1>3. ASSUME NEW n \in DOMAIN t, t[n] \notin EntriesOf(s)
      PROVE  t[n] \in {t[k] : k \in new}
  \* The first position of t[n].
  <2> DEFINE S == {m \in Nat : \A k \in 1..m : k \in DOMAIN t /\ t[k] = t[n] =>
                                 t[n] \in {t[l] : l \in new}}
  <2>1. DOMAIN t = 1..Len(t) /\ Len(t) \in Nat
    BY ListIsFunction
  <2>2. 0 \in S
    OBVIOUS
  <2>3. ASSUME NEW m \in Nat, m \in S
        PROVE  m + 1 \in S
    <3> SUFFICES ASSUME NEW k \in 1..(m + 1), k \in DOMAIN t, t[k] = t[n]
                 PROVE  t[n] \in {t[l] : l \in new}
      OBVIOUS
    <3>1. CASE k \in new
      BY <3>1
    <3>2. CASE k \notin new
      <4>1. PICK l \in 1..(k - 1) : t[l] = t[k]
        BY <1>3, <3>2
      <4>2. l \in 1..m /\ l \in DOMAIN t
        BY <2>1
      <4> QED
        BY <2>3, <4>1, <4>2
    <3> QED
      BY <3>1, <3>2
  <2>4. n \in S
    <3> HIDE DEF S
    <3> QED
      BY <2>1, <2>2, <2>3, SetInduction
  <2> QED
    BY <2>1, <2>4
<1>4. {t[n] : n \in new} \subseteq EntriesOf(t)
  BY DEF EntriesOf
<1>5. EntriesOf(t) \subseteq EntriesOf(s) \cup {t[n] : n \in new}
  BY <1>3 DEF EntriesOf
<1> HIDE DEF new
<1> QED
  BY <1>1, <1>2, <1>4, <1>5, ConcatEntries

-----------------------------------------------------------------------------
(* FlattenSeq.                                                             *)

LEMMA FlattenUnfolds ==
  ASSUME NEW ss, IsList(ss), ss # <<>>
  PROVE  \E flat : /\ FlattenSeq(ss) = flat[Len(ss)]
                   /\ flat[1] = ss[1]
                   /\ \A n \in 2..Len(ss) : flat[n] = flat[n - 1] \o ss[n]
<1> DEFINE More(n, b) == b \o ss[n]
           Rec(g, k) == g = [i \in 1..k |-> IF i = 1 THEN ss[i] ELSE More(i, g[i - 1])]
           S == {k \in Nat : \E g : Rec(g, k)}
           flat == CHOOSE g : Rec(g, Len(ss))
<1>1. Len(ss) \in Nat \ {0}
  BY EmptySeq DEF IsList
<1>2. FlattenSeq(ss) = flat[Len(ss)]
  BY <1>1 DEF FlattenSeq
<1> HIDE DEF More
<1>3. 0 \in S
  <2> DEFINE g == [n \in 1..0 |-> 0]
  <2>1. Rec(g, 0)
    OBVIOUS
  <2> HIDE DEF g, Rec
  <2> QED
    BY <2>1
<1>4. ASSUME NEW k \in Nat, k \in S
      PROVE  k + 1 \in S
  <2>1. PICK g : Rec(g, k)
    BY <1>4
  <2> DEFINE h == [n \in 1..(k + 1) |-> IF n = k + 1
                                        THEN IF n = 1 THEN ss[n] ELSE More(n, g[k])
                                        ELSE g[n]]
  <2>2. Rec(h, k + 1)
    BY <2>1
  <2> HIDE DEF h, Rec
  <2> QED
    BY <2>2
<1>5. Len(ss) \in S
  <2> HIDE DEF S
  <2> QED
    BY <1>1, <1>3, <1>4, SetInduction
<1>6. Rec(flat, Len(ss))
  BY <1>5
<1> HIDE DEF flat
<1>7. flat[1] = ss[1] /\ \A n \in 2..Len(ss) : flat[n] = More(n, flat[n - 1])
  BY <1>1, <1>6
<1> QED
  BY <1>2, <1>7 DEF More

\* Flattening a list of lists loses no element and invents none.
LEMMA FlattenEntries ==
  ASSUME NEW ss, IsList(ss), \A n \in DOMAIN ss : IsList(ss[n])
  PROVE  /\ IsList(FlattenSeq(ss))
         /\ EntriesOf(FlattenSeq(ss)) = UNION {EntriesOf(ss[n]) : n \in DOMAIN ss}
<1>1. Len(ss) \in Nat /\ DOMAIN ss = 1..Len(ss)
  BY ListIsFunction
<1>2. CASE ss = <<>>
  <2>1. FlattenSeq(ss) = <<>> /\ DOMAIN ss = {}
    BY <1>1, <1>2, EmptySeq DEF FlattenSeq
  <2> QED
    BY <2>1, EmptyIsList
<1>3. CASE ss # <<>>
  <2>1. Len(ss) # 0
    BY <1>3, EmptySeq DEF IsList
  <2>2. PICK flat : /\ FlattenSeq(ss) = flat[Len(ss)]
                    /\ flat[1] = ss[1]
                    /\ \A n \in 2..Len(ss) : flat[n] = flat[n - 1] \o ss[n]
    BY <1>3, FlattenUnfolds
  <2> DEFINE Good(n) == /\ IsList(flat[n])
                        /\ EntriesOf(flat[n]) = UNION {EntriesOf(ss[k]) : k \in 1..n}
             S == {n \in Nat : n + 1 <= Len(ss) => Good(n + 1)}
  <2>3. 0 \in S
    BY <1>1, <2>1, <2>2
  <2>4. ASSUME NEW m \in Nat, m \in S
        PROVE  m + 1 \in S
    <3> DEFINE n == m + 1
    <3> SUFFICES ASSUME n + 1 <= Len(ss)
                 PROVE  Good(n + 1)
      OBVIOUS
    <3>1. Good(n) /\ IsList(ss[n + 1])
      BY <1>1, <2>4
    <3>2. flat[n + 1] = flat[n] \o ss[n + 1]
      <4>1. n + 1 \in 2..Len(ss) /\ (n + 1) - 1 = n
        BY <1>1
      <4> HIDE DEF n
      <4> QED
        BY <2>2, <4>1
    <3>3. 1..(n + 1) = 1..n \cup {n + 1}
      OBVIOUS
    <3>4. /\ IsList(flat[n + 1])
          /\ EntriesOf(flat[n + 1]) = EntriesOf(flat[n]) \cup EntriesOf(ss[n + 1])
      BY <3>1, <3>2, ConcatEntries
    <3> HIDE DEF n
    <3> QED
      BY <3>1, <3>3, <3>4
  <2>5. \A n \in Nat : n \in S
    <3> HIDE DEF S
    <3> QED
      BY <2>3, <2>4, SetInduction
  <2>6. Len(ss) - 1 \in Nat /\ (Len(ss) - 1) + 1 = Len(ss)
    BY <1>1, <2>1
  <2>7. Good(Len(ss))
    <3>1. Good((Len(ss) - 1) + 1)
      <4> HIDE DEF Good
      <4> QED
        BY <1>1, <2>5, <2>6
    <3> HIDE DEF Good
    <3> QED
      BY <2>6, <3>1
  <2> QED
    BY <1>1, <2>2, <2>7
<1> QED
  BY <1>2, <1>3

-----------------------------------------------------------------------------
(* Manifests.                                                              *)

\* Manifest.Add leaves what it does not replace, and adds its entry.
LEMMA AddEntries ==
  ASSUME NEW content, IsList(content), NEW e, NEW preserve
  PROVE  /\ IsList(Add(content, e, preserve))
         /\ EntriesOf(Add(content, e, preserve)) =
              {x \in EntriesOf(content) : ~Replaces(x, e, preserve)} \cup {e}
<1> DEFINE kept == {n \in DOMAIN content : ~Replaces(content[n], e, preserve)}
<1>1. /\ IsList(At(content, kept))
      /\ EntriesOf(At(content, kept)) = {content[n] : n \in kept \cap DOMAIN content}
  <2> HIDE DEF kept
  <2> QED
    BY AtEntries
<1>2. EntriesOf(At(content, kept)) = {x \in EntriesOf(content) : ~Replaces(x, e, preserve)}
  BY <1>1 DEF EntriesOf
<1> HIDE DEF kept
<1> QED
  BY <1>1, <1>2, AppendEntries DEF Add, kept

\* The contents after each of the entries.
AddedInOrder(added, content, entries, preserve) ==
  /\ added[0].content = content
  /\ \A n \in 1..Len(entries) :
       added[n].content = Add(added[n - 1].content, entries[n], preserve)

LEMMA AddAllUnfolds ==
  ASSUME NEW content, NEW entries, IsList(entries), NEW preserve, NEW failIfExists
  PROVE  \E added :
           /\ AddAll(content, entries, preserve, failIfExists) = added[Len(entries)]
           /\ AddedInOrder(added, content, entries, preserve)
<1> DEFINE More(n, b) == [ok |-> b.ok /\ ~(failIfExists /\ AddConflicts(b.content, entries[n])),
                          content |-> Add(b.content, entries[n], preserve)]
           base == [ok |-> TRUE, content |-> content]
           Rec(g, k) == g = [n \in 0..k |-> IF n = 0 THEN base ELSE More(n, g[n - 1])]
           S == {k \in Nat : \E g : Rec(g, k)}
           added == CHOOSE g : Rec(g, Len(entries))
<1>1. AddAll(content, entries, preserve, failIfExists) = added[Len(entries)]
  BY DEF AddAll
<1> HIDE DEF More, base
<1>2. 0 \in S
  <2> DEFINE g == [n \in 0..0 |-> base]
  <2>1. Rec(g, 0)
    OBVIOUS
  <2> HIDE DEF g, Rec
  <2> QED
    BY <2>1
<1>3. ASSUME NEW k \in Nat, k \in S
      PROVE  k + 1 \in S
  <2>1. PICK g : Rec(g, k)
    BY <1>3
  <2> DEFINE h == [n \in 0..(k + 1) |-> IF n = k + 1 THEN More(n, g[k]) ELSE g[n]]
  <2>2. Rec(h, k + 1)
    BY <2>1
  <2> HIDE DEF h, Rec
  <2> QED
    BY <2>2
<1>4. Len(entries) \in Nat
  BY ListIsFunction
<1>5. Len(entries) \in S
  <2> HIDE DEF S
  <2> QED
    BY <1>2, <1>3, <1>4, SetInduction
<1>6. Rec(added, Len(entries))
  BY <1>5
<1> HIDE DEF added
<1>7. added[0] = base /\ \A n \in 1..Len(entries) : added[n] = More(n, added[n - 1])
  BY <1>4, <1>6
<1>8. base.content = content /\ \A n, b : More(n, b).content = Add(b.content, entries[n], preserve)
  BY DEF More, base
<1>9. AddedInOrder(added, content, entries, preserve)
  BY <1>7, <1>8 DEF AddedInOrder
<1> QED
  BY <1>1, <1>9

\* What none of the entries replaces, and the entries that no later one replaces.
Kept(content, entries, preserve) ==
  {x \in EntriesOf(content) : \A n \in DOMAIN entries : ~Replaces(x, entries[n], preserve)}
Latest(entries, preserve) ==
  {entries[m] : m \in {n \in DOMAIN entries :
     \A k \in DOMAIN entries : k > n => ~Replaces(entries[n], entries[k], preserve)}}

\* Adding a list of entries: what none of them replaces stays, each of them that
\* no later one replaces is there, and nothing else is.
THEOREM AddAllEntries ==
  ASSUME NEW content, IsList(content), NEW entries, IsList(entries),
         NEW preserve, NEW failIfExists
  PROVE  LET result == AddAll(content, entries, preserve, failIfExists).content
         IN /\ IsList(result)
            /\ EntriesOf(result) = Kept(content, entries, preserve) \cup Latest(entries, preserve)
<1>1. PICK added :
        /\ AddAll(content, entries, preserve, failIfExists) = added[Len(entries)]
        /\ AddedInOrder(added, content, entries, preserve)
  BY AddAllUnfolds
<1>2. Len(entries) \in Nat /\ DOMAIN entries = 1..Len(entries)
  BY ListIsFunction
<1> DEFINE Stay(k) == {x \in EntriesOf(content) :
                         \A n \in 1..k : ~Replaces(x, entries[n], preserve)}
           New(k) == {entries[m] : m \in {n \in 1..k :
                       \A l \in 1..k : l > n => ~Replaces(entries[n], entries[l], preserve)}}
           Good(k) == /\ IsList(added[k].content)
                      /\ EntriesOf(added[k].content) = Stay(k) \cup New(k)
           S == {k \in Nat : k <= Len(entries) => Good(k)}
<1>3. 0 \in S
  BY <1>1 DEF AddedInOrder
<1>4. ASSUME NEW k \in Nat, k \in S
      PROVE  k + 1 \in S
  <2> SUFFICES ASSUME k + 1 <= Len(entries)
               PROVE  Good(k + 1)
    OBVIOUS
  <2> DEFINE e == entries[k + 1]
             Left(x) == ~Replaces(x, e, preserve)
  <2>1. Good(k)
    BY <1>2, <1>4
  <2>2. added[k + 1].content = Add(added[k].content, e, preserve)
    <3>1. k + 1 \in 1..Len(entries) /\ (k + 1) - 1 = k
      BY <1>2
    <3> QED
      BY <1>1, <3>1 DEF AddedInOrder
  <2>3. /\ IsList(added[k + 1].content)
        /\ EntriesOf(added[k + 1].content) =
             {x \in EntriesOf(added[k].content) : Left(x)} \cup {e}
    BY <2>1, <2>2, AddEntries
  <2>4. 1..(k + 1) = 1..k \cup {k + 1}
    OBVIOUS
  <2>5. Stay(k + 1) = {x \in Stay(k) : Left(x)}
    BY <2>4
  <2>6. New(k + 1) = {x \in New(k) : Left(x)} \cup {e}
    <3> DEFINE Last1(j) == {n \in 1..j :
                             \A l \in 1..j : l > n => ~Replaces(entries[n], entries[l], preserve)}
    <3>1. Last1(k + 1) = {n \in Last1(k) : Left(entries[n])} \cup {k + 1}
      BY <2>4
    <3> HIDE DEF Left, Last1
    <3>2. {entries[m] : m \in Last1(k + 1)} = {x \in {entries[m] : m \in Last1(k)} : Left(x)} \cup {e}
      BY <3>1
    <3> QED
      BY <3>2 DEF Last1
  <2> HIDE DEF Stay, New, Left
  <2> QED
    BY <2>1, <2>3, <2>5, <2>6
<1>5. Len(entries) \in S
  <2> HIDE DEF S
  <2> QED
    BY <1>2, <1>3, <1>4, SetInduction
<1>6. Good(Len(entries))
  BY <1>2, <1>5
<1>7. /\ Stay(Len(entries)) = Kept(content, entries, preserve)
      /\ New(Len(entries)) = Latest(entries, preserve)
  BY <1>2 DEF Kept, Latest
<1> HIDE DEF Stay, New
<1> QED
  BY <1>1, <1>6, <1>7

\* Manifest.DeletePackage removes what is selected, and nothing else.
LEMMA DeletePackageEntries ==
  ASSUME NEW content, IsList(content), NEW name, NEW versions
  PROVE  /\ IsList(DeletePackage(content, name, versions))
         /\ EntriesOf(DeletePackage(content, name, versions)) =
              {x \in EntriesOf(content) : ~Selected(x, name, versions)}
<1> DEFINE kept == {n \in DOMAIN content : ~Selected(content[n], name, versions)}
<1>1. /\ IsList(At(content, kept))
      /\ EntriesOf(At(content, kept)) = {content[n] : n \in kept \cap DOMAIN content}
  <2> HIDE DEF kept
  <2> QED
    BY AtEntries
<1>2. EntriesOf(At(content, kept)) = {x \in EntriesOf(content) : ~Selected(x, name, versions)}
  BY <1>1 DEF EntriesOf
<1> QED
  BY <1>1, <1>2 DEF DeletePackage

-----------------------------------------------------------------------------
(* Release.                                                                *)

\* A Release with lists of components and architectures.
IsRelease(release) ==
  /\ {"comps", "archs", "files", "byHash"} \subseteq DOMAIN release
  /\ IsList(release.comps) /\ IsList(release.archs)

\* new is old with other contents for a set of indexes.
Updated(new, old, indexes, contents) ==
  /\ IsRelease(new)
  /\ new.byHash = old.byHash
  /\ EntriesOf(new.comps) = EntriesOf(old.comps) \cup {i[1] : i \in indexes}
  /\ EntriesOf(new.archs) = EntriesOf(old.archs) \cup {i[2] : i \in indexes}
  /\ DOMAIN new.files = DOMAIN old.files \cup indexes
  /\ \A i \in indexes : new.files[i] = contents[i]
  /\ \A i \in DOMAIN old.files \ indexes : new.files[i] = old.files[i]

\* What Release says of every index after a list of them was updated.
LEMMA UpdateManifestsEntries ==
  ASSUME NEW release, IsRelease(release), NEW indexes, IsList(indexes), NEW contents
  PROVE  Updated(UpdateManifests(release, indexes, contents), release, EntriesOf(indexes),
                 contents)
<1> DEFINE result == UpdateManifests(release, indexes, contents)
           comps == [n \in DOMAIN indexes |-> indexes[n][1]]
           archs == [n \in DOMAIN indexes |-> indexes[n][2]]
           files == [i \in DOMAIN release.files \cup EntriesOf(indexes) |->
                       IF i \in EntriesOf(indexes) THEN contents[i] ELSE release.files[i]]
<1>1. IsList(comps) /\ EntriesOf(comps) = {i[1] : i \in EntriesOf(indexes)}
  BY ImageIsList DEF EntriesOf
<1>2. IsList(archs) /\ EntriesOf(archs) = {i[2] : i \in EntriesOf(indexes)}
  BY ImageIsList DEF EntriesOf
<1>3. result = [release EXCEPT !.comps = AppendNew(@, comps), !.archs = AppendNew(@, archs),
                               !.files = files]
  BY DEF UpdateManifests, Map
<1> HIDE DEF result, comps, archs
<1>4. /\ DOMAIN result = DOMAIN release
      /\ result.comps = AppendNew(release.comps, comps)
      /\ result.archs = AppendNew(release.archs, archs)
      /\ result.files = files
      /\ result.byHash = release.byHash
  BY <1>3 DEF IsRelease
<1>5. /\ IsList(result.comps)
      /\ EntriesOf(result.comps) = EntriesOf(release.comps) \cup {i[1] : i \in EntriesOf(indexes)}
      /\ IsList(result.archs)
      /\ EntriesOf(result.archs) = EntriesOf(release.archs) \cup {i[2] : i \in EntriesOf(indexes)}
  BY <1>1, <1>2, <1>4, AppendNewEntries DEF IsRelease
<1>6. IsRelease(result)
  BY <1>4, <1>5 DEF IsRelease
<1> QED
  BY <1>4, <1>5, <1>6 DEF result, Updated

\* The missing manifests: every pair of a component and an architecture that
\* Release has no hashes of.
LEMMA MissingManifestsEntries ==
  ASSUME NEW release, IsRelease(release)
  PROVE  /\ IsList(MissingManifests(release))
         /\ EntriesOf(MissingManifests(release)) =
              (EntriesOf(release.comps) \X EntriesOf(release.archs)) \ DOMAIN release.files
<1> DEFINE comps == release.comps
           archs == release.archs
           row(c) == [a \in DOMAIN archs |-> <<comps[c], archs[a]>>]
           rows == [c \in DOMAIN comps |-> row(c)]
           all == FlattenSeq(rows)
           missing == {n \in DOMAIN all : all[n] \notin DOMAIN release.files}
<1>1. IsList(comps) /\ IsList(archs)
  BY DEF IsRelease
<1>2. \A c \in DOMAIN comps : IsList(row(c)) /\ EntriesOf(row(c)) = {<<comps[c], a>> : a \in EntriesOf(archs)}
  BY <1>1, ImageIsList DEF EntriesOf
<1>3. IsList(rows) /\ DOMAIN rows = DOMAIN comps /\ \A c \in DOMAIN comps : rows[c] = row(c)
  BY <1>1, ImageIsList
<1>4. /\ IsList(all)
      /\ EntriesOf(all) = UNION {EntriesOf(row(c)) : c \in DOMAIN comps}
  <2> HIDE DEF row, rows, comps
  <2>1. \A c \in DOMAIN rows : IsList(rows[c])
    BY <1>2, <1>3
  <2>2. /\ IsList(all)
        /\ EntriesOf(all) = UNION {EntriesOf(rows[c]) : c \in DOMAIN rows}
    BY <1>3, <2>1, FlattenEntries
  <2> QED
    BY <1>3, <2>2
<1>5. EntriesOf(all) = EntriesOf(comps) \X EntriesOf(archs)
  <2> HIDE DEF row, all
  <2>1. EntriesOf(all) = UNION {{<<comps[c], a>> : a \in EntriesOf(archs)} : c \in DOMAIN comps}
    BY <1>2, <1>4
  <2> QED
    BY <2>1 DEF EntriesOf
<1>6. MissingManifests(release) = At(all, missing)
  BY DEF MissingManifests
<1> HIDE DEF all
<1>7. IsList(At(all, missing)) /\ EntriesOf(At(all, missing)) = {all[n] : n \in missing \cap DOMAIN all}
  <2> HIDE DEF missing
  <2> QED
    BY <1>4, AtEntries
<1>8. EntriesOf(At(all, missing)) = EntriesOf(all) \ DOMAIN release.files
  BY <1>7 DEF EntriesOf
<1> QED
  BY <1>5, <1>6, <1>7, <1>8
=============================================================================
