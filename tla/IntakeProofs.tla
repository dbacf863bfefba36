---------------------------- MODULE IntakeProofs ----------------------------
(***************************************************************************)
(* The reader of package files, for any members, entries and paths, and    *)
(* what is published of the packages that it reads.                        *)
(***************************************************************************)
EXTENDS Intake, PackageTextProofs

-----------------------------------------------------------------------------
(* Recursive functions.                                                    *)

\* Offsets satisfies its equation.
LEMMA OffsetsUnfold ==
  ASSUME NEW sizes \in Seq(Nat), NEW first \in Nat
  PROVE  LET offset == Offsets(first, sizes)
         IN /\ offset[0] = first
            /\ \A n \in 1 .. Len(sizes) : offset[n] = offset[n - 1] + sizes[n]
<1> DEFINE Rec(g, k) == g = [n \in 0 .. k |-> IF n = 0 THEN first ELSE g[n - 1] + sizes[n]]
           S == {k \in Nat : \E g : Rec(g, k)}
           offset == CHOOSE g : Rec(g, Len(sizes))
<1>1. Offsets(first, sizes) = offset
  BY DEF Offsets
<1>2. 0 \in S
  <2> DEFINE g == [n \in 0 .. 0 |-> first]
  <2>1. Rec(g, 0)
    OBVIOUS
  <2> HIDE DEF g, Rec
  <2> QED
    BY <2>1
<1>3. ASSUME NEW k \in Nat, k \in S
      PROVE  k + 1 \in S
  <2>1. PICK g : Rec(g, k)
    BY <1>3
  <2> DEFINE h == [n \in 0 .. k + 1 |-> IF n = k + 1 THEN g[k] + sizes[n] ELSE g[n]]
  <2>2. Rec(h, k + 1)
    BY <2>1
  <2> HIDE DEF h, Rec
  <2> QED
    BY <2>2
<1>4. Len(sizes) \in Nat
  BY LenProperties
<1>5. Len(sizes) \in S
  <2> HIDE DEF S
  <2> QED
    BY <1>2, <1>3, <1>4, SetInduction
<1>6. Rec(offset, Len(sizes))
  BY <1>5
<1> HIDE DEF offset
<1> QED
  BY <1>1, <1>4, <1>6

\* Offsets are numbers, and each lies the size of its thing behind the one before.
LEMMA OffsetsGrow ==
  ASSUME NEW sizes \in Seq(Nat), NEW first \in Nat
  PROVE  LET offset == Offsets(first, sizes)
         IN /\ \A n \in 0 .. Len(sizes) : offset[n] \in Nat /\ offset[n] >= first
            /\ \A n \in 0 .. Len(sizes), m \in 0 .. Len(sizes) :
                 m < n => offset[m] + sizes[m + 1] <= offset[n]
<1> DEFINE offset == Offsets(first, sizes)
           Good(n) == /\ offset[n] \in Nat /\ offset[n] >= first
                      /\ \A m \in 0 .. n : /\ offset[m] \in Nat
                                           /\ m < n => offset[m] + sizes[m + 1] <= offset[n]
           S == {n \in Nat : n <= Len(sizes) => Good(n)}
<1>1. Len(sizes) \in Nat /\ \A n \in 1 .. Len(sizes) : sizes[n] \in Nat
  BY LenProperties, ElementOfSeq
<1>2. offset[0] = first /\ \A n \in 1 .. Len(sizes) : offset[n] = offset[n - 1] + sizes[n]
  BY OffsetsUnfold
<1> HIDE DEF offset
<1>3. 0 \in S
  BY <1>2
<1>4. ASSUME NEW n \in Nat, n \in S
      PROVE  n + 1 \in S
  <2> SUFFICES ASSUME n + 1 <= Len(sizes)
               PROVE  Good(n + 1)
    OBVIOUS
  <2>1. Good(n) /\ n + 1 \in 1 .. Len(sizes)
    BY <1>1, <1>4
  <2>2. offset[n + 1] = offset[n] + sizes[n + 1] /\ sizes[n + 1] \in Nat
    BY <1>1, <1>2, <2>1
  <2>3. ASSUME NEW m \in 0 .. n + 1, m < n + 1
        PROVE  offset[m] + sizes[m + 1] <= offset[n + 1]
    <3>1. CASE m = n
      BY <2>1, <2>2, <3>1
    <3>2. CASE m < n
      <4>1. m \in 0 .. n /\ m + 1 \in 1 .. Len(sizes)
        BY <1>1, <2>1, <3>2
      <4>2. /\ offset[m] \in Nat /\ offset[n] \in Nat
            /\ offset[m] + sizes[m + 1] <= offset[n]
        BY <2>1, <3>2, <4>1
      <4>3. sizes[m + 1] \in Nat
        BY <1>1, <4>1
      <4> QED
        BY SMTT(30), <2>2, <4>2, <4>3
    <3> QED
      BY <2>3, <3>1, <3>2
  <2> QED
    BY <2>1, <2>2, <2>3
<1>5. \A n \in Nat : n \in S
  <2> HIDE DEF S
  <2> QED
    BY <1>3, <1>4, SetInduction
<1>6. \A n \in 0 .. Len(sizes) : Good(n)
  BY <1>1, <1>5
<1> QED
  BY <1>1, <1>6 DEF offset

-----------------------------------------------------------------------------
(* Paths.                                                                  *)

LEMMA EmptyIsNoDots ==
  Empty # "." /\ Empty # ".."
BY Zenon DEF Empty

\* Depths satisfies its equation.
LEMMA DepthsUnfold ==
  ASSUME NEW S, NEW path \in Seq(S)
  PROVE  /\ Depths(path)[0] = 0
         /\ \A n \in Nat : n + 1 <= Len(path) =>
              /\ path[n + 1] = ".." => Depths(path)[n + 1] = Depths(path)[n] - 1
              /\ path[n + 1] \in {Empty, "."} => Depths(path)[n + 1] = Depths(path)[n]
              /\ path[n + 1] \notin {Empty, ".", ".."} =>
                   Depths(path)[n + 1] = Depths(path)[n] + 1
<1> DEFINE More(n, b) == CASE path[n] = ".." -> b - 1
                           [] path[n] \in {Empty, "."} -> b
                           [] OTHER -> b + 1
           Rec(g, k) == g = [n \in 0 .. k |-> IF n = 0 THEN 0 ELSE More(n, g[n - 1])]
           T == {k \in Nat : \E g : Rec(g, k)}
           depth == CHOOSE g : Rec(g, Len(path))
<1>1. Depths(path) = depth
  BY DEF Depths
<1>2. \A n, b : /\ path[n] = ".." => More(n, b) = b - 1
                /\ path[n] \in {Empty, "."} => More(n, b) = b
                /\ path[n] \notin {Empty, ".", ".."} => More(n, b) = b + 1
  BY EmptyIsNoDots
<1> HIDE DEF More
<1>3. 0 \in T
  <2> DEFINE g == [n \in 0 .. 0 |-> 0]
  <2>1. Rec(g, 0)
    OBVIOUS
  <2> HIDE DEF g, Rec
  <2> QED
    BY <2>1
<1>4. ASSUME NEW k \in Nat, k \in T
      PROVE  k + 1 \in T
  <2>1. PICK g : Rec(g, k)
    BY <1>4
  <2> DEFINE h == [n \in 0 .. k + 1 |-> IF n = k + 1 THEN More(n, g[k]) ELSE g[n]]
  <2>2. Rec(h, k + 1)
    BY <2>1
  <2> HIDE DEF h, Rec
  <2> QED
    BY <2>2
<1>5. Len(path) \in Nat
  BY LenProperties
<1>6. Len(path) \in T
  <2> HIDE DEF T
  <2> QED
    BY <1>3, <1>4, <1>5, SetInduction
<1>7. Rec(depth, Len(path))
  BY <1>6
<1> HIDE DEF depth
<1>8. depth[0] = 0 /\ \A n \in 1 .. Len(path) : depth[n] = More(n, depth[n - 1])
  BY <1>5, <1>7
<1>9. \A n \in Nat : n + 1 <= Len(path) => depth[n + 1] = More(n + 1, depth[n])
  BY <1>5, <1>8
<1>10. ASSUME NEW n \in Nat, n + 1 <= Len(path)
       PROVE  /\ path[n + 1] = ".." => depth[n + 1] = depth[n] - 1
              /\ path[n + 1] \in {Empty, "."} => depth[n + 1] = depth[n]
              /\ path[n + 1] \notin {Empty, ".", ".."} => depth[n + 1] = depth[n] + 1
  <2>1. depth[n + 1] = More(n + 1, depth[n])
    BY <1>9, <1>10
  <2> QED
    BY Zenon, <1>2, <2>1
<1> QED
  BY Zenon, <1>1, <1>8, <1>10

\* Cleaned satisfies its equation.
LEMMA CleanedUnfold ==
  ASSUME NEW S, NEW path \in Seq(S)
  PROVE  \E clean : /\ Cleaned(path) = clean[Len(path)]
                    /\ clean[0] = <<>>
                    /\ \A n \in Nat : n + 1 <= Len(path) =>
                         clean[n + 1] = Clean(clean[n], path[n + 1])
<1> DEFINE Rec(g, k) == g = [n \in 0 .. k |-> IF n = 0 THEN <<>> ELSE Clean(g[n - 1], path[n])]
           T == {k \in Nat : \E g : Rec(g, k)}
           clean == CHOOSE g : Rec(g, Len(path))
<1>1. Cleaned(path) = clean[Len(path)]
  BY DEF Cleaned
<1>2. 0 \in T
  <2> DEFINE g == [n \in 0 .. 0 |-> <<>>]
  <2>1. Rec(g, 0)
    OBVIOUS
  <2> HIDE DEF g, Rec
  <2> QED
    BY <2>1
<1>3. ASSUME NEW k \in Nat, k \in T
      PROVE  k + 1 \in T
  <2>1. PICK g : Rec(g, k)
    BY <1>3
  <2> DEFINE h == [n \in 0 .. k + 1 |-> IF n = k + 1 THEN Clean(g[k], path[n]) ELSE g[n]]
  <2>2. Rec(h, k + 1)
    BY <2>1
  <2> HIDE DEF h, Rec
  <2> QED
    BY <2>2
<1>4. Len(path) \in Nat
  BY LenProperties
<1>5. Len(path) \in T
  <2> HIDE DEF T
  <2> QED
    BY <1>2, <1>3, <1>4, SetInduction
<1>6. Rec(clean, Len(path))
  BY <1>5
<1> HIDE DEF clean
<1>7. clean[0] = <<>> /\ \A n \in 1 .. Len(path) : clean[n] = Clean(clean[n - 1], path[n])
  BY <1>4, <1>6
<1>8. \A n \in Nat : n + 1 <= Len(path) => clean[n + 1] = Clean(clean[n], path[n + 1])
  BY <1>4, <1>7
<1> QED
  BY <1>1, <1>7, <1>8

\* One segment: how many names there are, and the first and any of them.
LEMMA CleanCases ==
  ASSUME NEW S, NEW c \in Seq(S), NEW x \in S
  PROVE  /\ Clean(c, x) \in Seq(S) /\ Len(c) \in Nat /\ (c = <<>> <=> Len(c) = 0)
         /\ x \in {Empty, "."} => Clean(c, x) = c
         /\ x = ".." /\ c # <<>> /\ c[Len(c)] # ".." =>
              /\ Len(Clean(c, x)) = Len(c) - 1
              /\ \A k \in 1 .. Len(c) - 1 : Clean(c, x)[k] = c[k]
         /\ x \notin {Empty, "."} /\ (x = ".." => c = <<>> \/ c[Len(c)] = "..") =>
              /\ Len(Clean(c, x)) = Len(c) + 1 /\ Clean(c, x)[Len(c) + 1] = x
              /\ \A k \in 1 .. Len(c) : Clean(c, x)[k] = c[k]
<1>1. Len(c) \in Nat /\ (c = <<>> <=> Len(c) = 0)
  BY LenProperties, EmptySeq
<1>2. CASE x \in {Empty, "."}
  <2>1. Clean(c, x) = c
    BY <1>2, EmptyIsNoDots DEF Clean
  <2> QED
    BY <1>1, <1>2, <2>1, EmptyIsNoDots
<1>3. CASE x = ".." /\ c # <<>> /\ c[Len(c)] # ".."
  <2>1. Clean(c, x) = SubSeq(c, 1, Len(c) - 1)
    BY <1>3 DEF Clean, Last, Front
  <2>2. Len(c) \in Nat \ {0} /\ DOMAIN c = 1 .. Len(c)
    BY <1>1, <1>3, LenProperties
  <2>3. /\ SubSeq(c, 1, Len(c) - 1) \in Seq(S) /\ Len(SubSeq(c, 1, Len(c) - 1)) = Len(c) - 1
        /\ \A k \in 1 .. Len(c) - 1 : SubSeq(c, 1, Len(c) - 1)[k] = c[k]
    BY <2>2, SubSeqProperties
  <2> QED
    BY <1>1, <1>3, <2>1, <2>3, EmptyIsNoDots
<1>4. CASE x \notin {Empty, "."} /\ (x = ".." => c = <<>> \/ c[Len(c)] = "..")
  <2>1. Clean(c, x) = Append(c, x)
    BY <1>4 DEF Clean, Last, Front
  <2>2. /\ Append(c, x) \in Seq(S) /\ Len(Append(c, x)) = Len(c) + 1
        /\ Append(c, x)[Len(c) + 1] = x
        /\ \A k \in 1 .. Len(c) : Append(c, x)[k] = c[k]
    BY <1>1, AppendProperties
  <2> QED
    BY <1>1, <1>4, <2>1, <2>2
<1> QED
  BY <1>2, <1>3, <1>4

\* What is cleaned and how deep the path is, and where it was outside: a path that
\* was always inside has as many names as it is deep, another a first "..".
Kept(c, depth, outside) ==
  /\ outside = {} => depth >= 0 /\ Len(c) = depth
  /\ outside = {} => \A k \in 1 .. Len(c) : c[k] # ".."
  /\ outside # {} => Len(c) >= 1 /\ c[1] = ".."

LEMMA KeptAfter ==
  ASSUME NEW S, NEW c \in Seq(S), NEW x \in S, NEW d \in Int, NEW d1,
         NEW outside, Kept(c, d, outside),
         x = ".." => d1 = d - 1,
         x \in {Empty, "."} => d1 = d,
         x \notin {Empty, ".", ".."} => d1 = d + 1,
         NEW outside1, outside1 = {} <=> outside = {} /\ d1 >= 0
  PROVE  d1 \in Int /\ Clean(c, x) \in Seq(S) /\ Kept(Clean(c, x), d1, outside1)
<1> DEFINE e == Clean(c, x)
<1>1. /\ e \in Seq(S) /\ Len(c) \in Nat /\ (c = <<>> <=> Len(c) = 0)
      /\ x \in {Empty, "."} => e = c
      /\ x = ".." /\ c # <<>> /\ c[Len(c)] # ".." =>
           /\ Len(e) = Len(c) - 1
           /\ \A k \in 1 .. Len(c) - 1 : e[k] = c[k]
      /\ x \notin {Empty, "."} /\ (x = ".." => c = <<>> \/ c[Len(c)] = "..") =>
           /\ Len(e) = Len(c) + 1 /\ e[Len(c) + 1] = x
           /\ \A k \in 1 .. Len(c) : e[k] = c[k]
  BY CleanCases
<1>2. CASE x \in {Empty, "."}
  <2>1. d1 = d /\ e = c
    BY <1>2, CleanCases
  <2> QED
    BY <1>1, <2>1 DEF Kept
<1>3. CASE x \notin {Empty, ".", ".."}
  <2>1. d1 = d + 1 /\ Len(e) = Len(c) + 1 /\ e[Len(c) + 1] = x /\ x # ".."
        /\ \A k \in 1 .. Len(c) : e[k] = c[k]
    BY <1>1, <1>3
  <2> HIDE DEF e
  <2>2. outside = {} => \A k \in 1 .. Len(e) : e[k] # ".."
    BY <1>1, <2>1 DEF Kept
  <2>3. outside # {} => Len(e) >= 1 /\ e[1] = ".."
    BY <1>1, <2>1 DEF Kept
  <2>4. outside = {} => d >= 0 /\ Len(c) = d
    BY DEF Kept
  <2>5. Kept(e, d1, outside1)
    BY <1>1, <2>1, <2>2, <2>3, <2>4 DEF Kept
  <2> QED
    BY <1>1, <2>1, <2>5 DEF e
<1>4. CASE x = ".." /\ Len(c) = 0
  <2>1. d1 = d - 1 /\ Len(e) = 1 /\ e[1] = ".."
    BY <1>1, <1>4
  <2> HIDE DEF e
  <2>2. d1 \in Int /\ Kept(e, d1, outside1)
    BY <1>1, <1>4, <2>1 DEF Kept
  <2> QED
    BY <1>1, <2>2 DEF e
<1>5. CASE x = ".." /\ Len(c) # 0 /\ c[Len(c)] # ".."
  <2>1. d1 = d - 1 /\ Len(e) = Len(c) - 1 /\ \A k \in 1 .. Len(c) - 1 : e[k] = c[k]
    BY <1>1, <1>5
  <2> HIDE DEF e
  <2>2. d1 \in Int /\ Kept(e, d1, outside1)
    BY <1>1, <1>5, <2>1 DEF Kept
  <2> QED
    BY <1>1, <2>2 DEF e
<1>6. CASE x = ".." /\ Len(c) # 0 /\ c[Len(c)] = ".."
  <2>1. d1 = d - 1 /\ Len(e) = Len(c) + 1 /\ \A k \in 1 .. Len(c) : e[k] = c[k]
    BY <1>1, <1>6
  <2> HIDE DEF e
  <2>2. d1 \in Int /\ Kept(e, d1, outside1)
    BY <1>1, <1>6, <2>1 DEF Kept
  <2> QED
    BY <1>1, <2>2 DEF e
<1> QED
  BY <1>1, <1>2, <1>3, <1>4, <1>5, <1>6

\* A path that stays inside the archive is cleaned to one without a ".." in front,
\* and no other is.
LEMMA CleanedInside ==
  ASSUME NEW S, NEW path \in Seq(S)
  PROVE  (\A n \in 0 .. Len(path) : Depths(path)[n] >= 0)
           <=> ~(Cleaned(path) # <<>> /\ Cleaned(path)[1] = "..")
<1> DEFINE depth == Depths(path)
           Outside(n) == {k \in 0 .. n : ~(depth[k] >= 0)}
<1>1. PICK clean : /\ Cleaned(path) = clean[Len(path)]
                   /\ clean[0] = <<>>
                   /\ \A n \in Nat : n + 1 <= Len(path) =>
                        clean[n + 1] = Clean(clean[n], path[n + 1])
  BY CleanedUnfold
<1>2. Len(path) \in Nat /\ \A n \in 1 .. Len(path) : path[n] \in S
  BY LenProperties, ElementOfSeq
<1>3. /\ depth[0] = 0
      /\ \A n \in Nat : n + 1 <= Len(path) =>
           /\ path[n + 1] = ".." => depth[n + 1] = depth[n] - 1
           /\ path[n + 1] \in {Empty, "."} => depth[n + 1] = depth[n]
           /\ path[n + 1] \notin {Empty, ".", ".."} => depth[n + 1] = depth[n] + 1
  BY DepthsUnfold
<1> HIDE DEF depth
<1> DEFINE Good(n) ==
             clean[n] \in Seq(S) /\ depth[n] \in Int /\ Kept(clean[n], depth[n], Outside(n))
           T == {n \in Nat : n <= Len(path) => Good(n)}
<1>4. 0 \in T
  <2>1. \A k \in 0 .. 0 : depth[k] >= 0
    BY <1>3
  <2>2. Outside(0) = {}
    BY <2>1
  <2>3. clean[0] \in Seq(S) /\ Len(clean[0]) = 0
    BY <1>1, EmptySeq
  <2> HIDE DEF Outside
  <2>4. Kept(clean[0], depth[0], Outside(0))
    BY <1>3, <2>2, <2>3 DEF Kept
  <2> QED
    BY <1>3, <2>3, <2>4
<1>5. ASSUME NEW n \in Nat, n \in T
      PROVE  n + 1 \in T
  <2> SUFFICES ASSUME n + 1 <= Len(path)
               PROVE  Good(n + 1)
    OBVIOUS
  <2>1. Good(n)
    BY <1>2, <1>5
  <2>2. path[n + 1] \in S /\ clean[n + 1] = Clean(clean[n], path[n + 1])
    BY <1>1, <1>2
  <2>3. /\ path[n + 1] = ".." => depth[n + 1] = depth[n] - 1
        /\ path[n + 1] \in {Empty, "."} => depth[n + 1] = depth[n]
        /\ path[n + 1] \notin {Empty, ".", ".."} => depth[n + 1] = depth[n] + 1
    BY <1>3
  <2>4. Outside(n + 1) = {} <=> Outside(n) = {} /\ depth[n + 1] >= 0
    OBVIOUS
  <2> HIDE DEF Outside
  <2>5. \A o : (o = {} <=> Outside(n) = {} /\ depth[n + 1] >= 0) =>
          /\ depth[n + 1] \in Int /\ Clean(clean[n], path[n + 1]) \in Seq(S)
          /\ Kept(Clean(clean[n], path[n + 1]), depth[n + 1], o)
    <3> DEFINE c == clean[n]
               d == depth[n]
               d1 == depth[n + 1]
               x == path[n + 1]
               outside == Outside(n)
    <3>1. c \in Seq(S) /\ x \in S /\ d \in Int /\ Kept(c, d, outside)
      BY <2>1, <2>2
    <3>2. x = ".." => d1 = d - 1
      BY <2>3
    <3>3. x \in {Empty, "."} => d1 = d
      BY <2>3
    <3>4. x \notin {Empty, ".", ".."} => d1 = d + 1
      BY <2>3
    <3> HIDE DEF c, d, d1, x, outside
    <3>5. \A o : (o = {} <=> outside = {} /\ d1 >= 0) =>
            d1 \in Int /\ Clean(c, x) \in Seq(S) /\ Kept(Clean(c, x), d1, o)
      BY <3>1, <3>2, <3>3, <3>4, KeptAfter
    <3> QED
      BY <3>5 DEF c, d, d1, x, outside
  <2> QED
    BY <2>2, <2>4, <2>5
<1>6. \A n \in Nat : n \in T
  <2> HIDE DEF T
  <2> QED
    BY <1>4, <1>5, SetInduction
<1>7. Good(Len(path))
  <2> HIDE DEF Good
  <2> QED
    BY <1>2, <1>6
<1>8. Cleaned(path) \in Seq(S) /\ Kept(Cleaned(path), depth[Len(path)], Outside(Len(path)))
  BY <1>1, <1>7
<1>9. Outside(Len(path)) = {} <=> \A n \in 0 .. Len(path) : depth[n] >= 0
  BY <1>2
<1> HIDE DEF Outside
<1>10. Outside(Len(path)) = {} <=> ~(Cleaned(path) # <<>> /\ Cleaned(path)[1] = "..")
  <2> DEFINE c == Cleaned(path)
  <2>1. c \in Seq(S) /\ Len(c) \in Nat /\ (c = <<>> <=> Len(c) = 0)
    BY <1>8, LenProperties, EmptySeq
  <2> QED
    BY <1>8, <2>1 DEF Kept
<1> QED
  BY <1>9, <1>10 DEF depth

\* A "." in front changes no depth.
LEMMA DepthsOfTail ==
  ASSUME NEW S, NEW path \in Seq(S), path # <<>>, path[1] = "."
  PROVE  /\ Tail(path) \in Seq(S) /\ Len(Tail(path)) = Len(path) - 1
         /\ \A n \in 0 .. Len(path) - 1 : Depths(path)[n + 1] = Depths(Tail(path))[n]
<1> DEFINE tail == Tail(path)
           depth == Depths(path)
           short == Depths(tail)
           T == {n \in Nat : n <= Len(tail) => depth[n + 1] = short[n]}
<1>1. /\ tail \in Seq(S) /\ Len(path) \in Nat \ {0} /\ Len(tail) = Len(path) - 1
      /\ \A n \in 1 .. Len(tail) : tail[n] = path[n + 1]
  BY HeadTailProperties, EmptySeq, LenProperties
<1>2. /\ short[0] = 0
      /\ \A n \in Nat : n + 1 <= Len(tail) =>
           /\ tail[n + 1] = ".." => short[n + 1] = short[n] - 1
           /\ tail[n + 1] \in {Empty, "."} => short[n + 1] = short[n]
           /\ tail[n + 1] \notin {Empty, ".", ".."} => short[n + 1] = short[n] + 1
  BY <1>1, DepthsUnfold
<1> HIDE DEF tail, short
<1>3. /\ depth[0] = 0
      /\ \A n \in Nat : n + 1 <= Len(path) =>
           /\ path[n + 1] = ".." => depth[n + 1] = depth[n] - 1
           /\ path[n + 1] \in {Empty, "."} => depth[n + 1] = depth[n]
           /\ path[n + 1] \notin {Empty, ".", ".."} => depth[n + 1] = depth[n] + 1
  BY DepthsUnfold
<1> HIDE DEF depth
<1>4. 0 \in T
  <2>1. 0 + 1 <= Len(path) /\ path[0 + 1] = "."
    BY <1>1
  <2>2. depth[0 + 1] = depth[0]
    BY <1>3, <2>1
  <2> QED
    BY <1>2, <1>3, <2>2
<1>5. ASSUME NEW n \in Nat, n \in T
      PROVE  n + 1 \in T
  <2> SUFFICES ASSUME n + 1 <= Len(tail)
               PROVE  depth[(n + 1) + 1] = short[n + 1]
    OBVIOUS
  <2> DEFINE m == n + 1
  <2>1. /\ m \in Nat /\ m + 1 <= Len(path) /\ tail[m] = path[m + 1] /\ depth[m] = short[n]
    BY <1>1, <1>5
  <2>2. /\ path[m + 1] = ".." => depth[m + 1] = depth[m] - 1
        /\ path[m + 1] \in {Empty, "."} => depth[m + 1] = depth[m]
        /\ path[m + 1] \notin {Empty, ".", ".."} => depth[m + 1] = depth[m] + 1
    <3> HIDE DEF m
    <3> QED
      BY <1>3, <2>1
  <2>3. /\ tail[m] = ".." => short[m] = short[n] - 1
        /\ tail[m] \in {Empty, "."} => short[m] = short[n]
        /\ tail[m] \notin {Empty, ".", ".."} => short[m] = short[n] + 1
    BY <1>2
  <2> HIDE DEF m
  <2>4. depth[m + 1] = short[m]
    BY <2>1, <2>2, <2>3
  <2> QED
    BY <2>4 DEF m
<1>6. \A n \in Nat : n \in T
  <2> HIDE DEF T
  <2> QED
    BY <1>4, <1>5, SetInduction
<1> QED
  BY <1>1, <1>6 DEF tail, short, depth

\* safeTarName, which works on the cleaned name, lets through the paths that stay
\* inside the archive.
LEMMA SafeNames ==
  ASSUME NEW S, NEW path \in Seq(S), path # <<>>
  PROVE  SafePath(path) <=> SafeTarName(path) # Unsafe
<1> DEFINE relative == IF Len(path) > 1 /\ path[1] = "." THEN Tail(path) ELSE path
           cleaned == Cleaned(relative)
           Leaves == cleaned # <<>> /\ cleaned[1] = ".."
<1>1. Len(path) \in Nat \ {0} /\ path[1] \in S
  BY LenProperties, EmptySeq, ElementOfSeq
<1>2. relative \in Seq(S)
  BY <1>1, HeadTailProperties
<1>3. Leaves <=> ~\A n \in 0 .. Len(relative) : Depths(relative)[n] >= 0
  <2> HIDE DEF relative
  <2> QED
    BY <1>2, CleanedInside
<1>4. (\A n \in 0 .. Len(relative) : Depths(relative)[n] >= 0)
        <=> \A n \in 0 .. Len(path) : Depths(path)[n] >= 0
  <2>1. CASE Len(path) > 1 /\ path[1] = "."
    <3>1. /\ relative = Tail(path) /\ Len(relative) = Len(path) - 1
          /\ \A n \in 0 .. Len(path) - 1 : Depths(path)[n + 1] = Depths(relative)[n]
      BY <1>1, <2>1, DepthsOfTail
    <3>2. Depths(path)[0] = 0
      BY DepthsUnfold
    <3> HIDE DEF relative
    <3>3. ASSUME \A n \in 0 .. Len(relative) : Depths(relative)[n] >= 0, NEW n \in 0 .. Len(path)
          PROVE  Depths(path)[n] >= 0
      <4>1. CASE n = 0
        BY <3>2, <4>1
      <4>2. CASE n # 0
        <5>1. n - 1 \in 0 .. Len(path) - 1 /\ (n - 1) + 1 = n
          BY <1>1, <3>3, <4>2
        <5> QED
          BY <3>1, <3>3, <5>1
      <4> QED
        BY <4>1, <4>2
    <3>4. ASSUME \A n \in 0 .. Len(path) : Depths(path)[n] >= 0, NEW n \in 0 .. Len(relative)
          PROVE  Depths(relative)[n] >= 0
      <4>1. n \in 0 .. Len(path) - 1 /\ n + 1 \in 0 .. Len(path)
        BY <1>1, <3>1, <3>4
      <4> QED
        BY <3>1, <3>4, <4>1
    <3> QED
      BY <3>3, <3>4
  <2>2. CASE ~(Len(path) > 1 /\ path[1] = ".")
    BY <2>2
  <2> QED
    BY <2>1, <2>2
<1>5. SafeTarName(path) # Unsafe
        <=> ~(path = <<Empty>> \/ Rooted(path) \/ Rooted(relative) \/ Leaves)
  <2>1. SafeTarName(path) =
          IF path = <<Empty>> \/ Rooted(path) \/ Rooted(relative) \/ Leaves
          THEN Unsafe ELSE cleaned
    BY Zenon DEF SafeTarName
  <2>2. cleaned = Unsafe => Leaves
    <3> HIDE DEF cleaned
    <3> QED
      BY DEF Unsafe
  <2> HIDE DEF cleaned, relative, Leaves
  <2> QED
    BY <2>1, <2>2
<1>6. Rooted(path) \/ Rooted(relative) <=> Rooted(path) \/ (path[1] = "." /\ Rooted(Tail(path)))
  <2>1. CASE Len(path) > 1
    BY <1>1, <2>1
  <2>2. CASE ~(Len(path) > 1)
    <3>1. Len(path) = 1
      <4> DEFINE k == Len(path)
      <4>1. k \in Nat \ {0} /\ ~(k > 1)
        BY <1>1, <2>2
      <4> HIDE DEF k
      <4>2. k = 1
        BY <4>1
      <4> QED
        BY <4>2 DEF k
    <3>2. Len(Tail(path)) = 0
      BY <3>1, HeadTailProperties, EmptySeq
    <3>3. relative = path
      BY <2>2
    <3> QED
      BY <3>2, <3>3 DEF Rooted
  <2> QED
    BY <2>1, <2>2
<1> HIDE DEF relative, cleaned, Leaves
<1> QED
  BY <1>3, <1>4, <1>5, <1>6 DEF SafePath

-----------------------------------------------------------------------------
(* The control archive.                                                    *)

LEMMA Blocks ==
  ASSUME NEW size \in Nat
  PROVE  RoundedUp(size) \in Nat /\ RoundedUp(size) >= size
<1> DEFINE q == (size + TarBlock - 1) \div TarBlock
<1>1. q \in Nat /\ TarBlock * q >= size
  BY DEF TarBlock
<1> HIDE DEF q
<1>2. RoundedUp(size) = TarBlock * q /\ TarBlock * q \in Nat
  BY <1>1 DEF RoundedUp, TarBlock, q
<1> QED
  BY <1>1, <1>2

IsControl(e) == SafeTarName(e.path) = <<"control">>

\* What readControlTar asks of an entry whose header is at a byte of the stream.
GoodEntry(e, at) ==
  /\ WithinLimit(at + TarBlock) /\ SafeTarName(e.path) # Unsafe
  /\ IsControl(e) => /\ e.regular /\ e.size <= MaxControlFileSize
                     /\ WithinLimit(at + TarBlock + e.size)

Tars(Bodies) == [result : {"reading", "format", "too large"}, at : Nat, text : Bodies]

LEMMA ReadEntryCases ==
  ASSUME NEW Bodies, NEW tar \in Tars(Bodies), NEW e, e.size \in Nat, e.text \in Bodies
  PROVE  /\ ReadEntry(tar, e) \in Tars(Bodies)
         /\ ReadEntry(tar, e).result = "reading"
              <=> tar.result = "reading" /\ GoodEntry(e, tar.at)
         /\ ReadEntry(tar, e).result = "reading" =>
              /\ ReadEntry(tar, e).at = tar.at + TarBlock + RoundedUp(e.size)
              /\ ReadEntry(tar, e).text = IF IsControl(e) THEN e.text ELSE tar.text
<1> DEFINE stops(kind) == [tar EXCEPT !.result = kind]
           goes == [tar EXCEPT !.at = @ + TarBlock + RoundedUp(e.size),
                               !.text = IF IsControl(e) THEN e.text ELSE @]
<1>1. ReadEntry(tar, e) =
        IF tar.result # "reading" THEN tar
        ELSE IF ~WithinLimit(tar.at + TarBlock) THEN stops("too large")
        ELSE IF SafeTarName(e.path) = Unsafe \/ (IsControl(e) /\ ~e.regular) THEN stops("format")
        ELSE IF /\ IsControl(e)
                /\ e.size > MaxControlFileSize \/ ~WithinLimit(tar.at + TarBlock + e.size)
             THEN stops("too large")
        ELSE goes
  BY Zenon DEF ReadEntry, IsControl
<1>2. tar \in Tars(Bodies) /\ RoundedUp(e.size) \in Nat /\ TarBlock \in Nat
  BY Blocks DEF TarBlock
<1>3. \A kind \in {"format", "too large"} :
        stops(kind) \in Tars(Bodies) /\ stops(kind).result # "reading"
  BY DEF Tars
<1>4. /\ goes \in Tars(Bodies) /\ goes.result = tar.result
      /\ goes.at = tar.at + TarBlock + RoundedUp(e.size)
      /\ goes.text = IF IsControl(e) THEN e.text ELSE tar.text
  <2> DEFINE at == tar.at + TarBlock + RoundedUp(e.size)
             text == IF IsControl(e) THEN e.text ELSE tar.text
  <2>1. tar.at \in Nat /\ tar.text \in Bodies
    BY DEF Tars
  <2>2. text \in Bodies
    BY <2>1
  <2>3. at \in Nat
    <3> HIDE DEF RoundedUp, TarBlock
    <3> QED
      BY <1>2, <2>1
  <2>4. goes = [tar EXCEPT !.at = at, !.text = text]
    BY DEF Tars
  <2> HIDE DEF at, text, goes
  <2>5. /\ goes \in Tars(Bodies) /\ goes.result = tar.result
        /\ goes.at = at /\ goes.text = text
    BY <2>2, <2>3, <2>4 DEF Tars
  <2> QED
    BY <2>5 DEF at, text
<1> HIDE DEF stops, goes
<1>5. CASE tar.result # "reading"
  <2>1. ReadEntry(tar, e) = tar
    BY <1>1, <1>5
  <2> QED
    BY <1>2, <1>5, <2>1
<1>6. CASE tar.result = "reading" /\ ~GoodEntry(e, tar.at)
  <2>1. ReadEntry(tar, e) \in {stops("format"), stops("too large")}
    <3>1. ~(e.size <= MaxControlFileSize) => e.size > MaxControlFileSize
      BY LimitsAssumption
    <3> QED
      BY <1>1, <1>6, <3>1 DEF GoodEntry
  <2> QED
    BY <1>3, <1>6, <2>1
<1>7. CASE tar.result = "reading" /\ GoodEntry(e, tar.at)
  <2>1. ReadEntry(tar, e) = goes
    <3>1. e.size <= MaxControlFileSize => ~(e.size > MaxControlFileSize)
      BY LimitsAssumption
    <3> QED
      BY <1>1, <1>7, <3>1 DEF GoodEntry
  <2> QED
    BY <1>4, <1>7, <2>1
<1> QED
  BY <1>5, <1>6, <1>7

\* ReadEntries satisfies its equation.
LEMMA ReadEntriesUnfold ==
  ASSUME NEW S, NEW entries \in Seq(S)
  PROVE  \E tar : /\ ReadEntries(entries) = tar[Len(entries)]
                  /\ tar[0] = [result |-> "reading", at |-> 0, text |-> Absent]
                  /\ \A n \in Nat : n + 1 <= Len(entries) =>
                       tar[n + 1] = ReadEntry(tar[n], entries[n + 1])
<1> DEFINE none == [result |-> "reading", at |-> 0, text |-> Absent]
           Rec(g, k) == g = [n \in 0 .. k |-> IF n = 0 THEN none
                                              ELSE ReadEntry(g[n - 1], entries[n])]
           T == {k \in Nat : \E g : Rec(g, k)}
           tar == CHOOSE g : Rec(g, Len(entries))
<1>1. ReadEntries(entries) = tar[Len(entries)]
  BY DEF ReadEntries
<1> HIDE DEF none
<1>2. 0 \in T
  <2> DEFINE g == [n \in 0 .. 0 |-> none]
  <2>1. Rec(g, 0)
    OBVIOUS
  <2> HIDE DEF g, Rec
  <2> QED
    BY <2>1
<1>3. ASSUME NEW k \in Nat, k \in T
      PROVE  k + 1 \in T
  <2>1. PICK g : Rec(g, k)
    BY <1>3
  <2> DEFINE h == [n \in 0 .. k + 1 |-> IF n = k + 1 THEN ReadEntry(g[k], entries[n]) ELSE g[n]]
  <2>2. Rec(h, k + 1)
    BY <2>1
  <2> HIDE DEF h, Rec
  <2> QED
    BY <2>2
<1>4. Len(entries) \in Nat
  BY LenProperties
<1>5. Len(entries) \in T
  <2> HIDE DEF T
  <2> QED
    BY <1>2, <1>3, <1>4, SetInduction
<1>6. Rec(tar, Len(entries))
  BY <1>5
<1> HIDE DEF tar
<1>7. tar[0] = none /\ \A n \in 1 .. Len(entries) : tar[n] = ReadEntry(tar[n - 1], entries[n])
  BY <1>4, <1>6
<1>8. \A n \in Nat : n + 1 <= Len(entries) => tar[n + 1] = ReadEntry(tar[n], entries[n + 1])
  BY <1>4, <1>7
<1> QED
  BY <1>1, <1>7, <1>8 DEF none

\* The headers of the entries, while all is well.
LEMMA TarOffsetsGrow ==
  ASSUME NEW S, NEW entries \in Seq(S), \A n \in DOMAIN entries : entries[n].size \in Nat
  PROVE  LET at == TarOffsets(entries)
         IN /\ at[0] = 0 /\ \A n \in 0 .. Len(entries) : at[n] \in Nat
            /\ \A n \in Nat : n + 1 <= Len(entries) =>
                 at[n + 1] = at[n] + TarBlock + RoundedUp(entries[n + 1].size)
            /\ \A n \in 0 .. Len(entries) : at[n] <= at[Len(entries)]
<1> DEFINE sizes == [n \in DOMAIN entries |-> TarBlock + RoundedUp(entries[n].size)]
           at == Offsets(0, sizes)
<1>1. DOMAIN entries = 1 .. Len(entries) /\ Len(entries) \in Nat
  BY LenProperties
<1>2. \A n \in 1 .. Len(entries) : RoundedUp(entries[n].size) \in Nat
  BY <1>1, Blocks
<1>3. TarBlock \in Nat
  BY DEF TarBlock
<1> HIDE DEF TarBlock, RoundedUp
<1>4. /\ sizes \in Seq(Nat) /\ Len(sizes) = Len(entries)
      /\ \A n \in 1 .. Len(entries) : sizes[n] = TarBlock + RoundedUp(entries[n].size)
  <2>1. sizes \in [1 .. Len(entries) -> Nat]
    BY <1>1, <1>2, <1>3
  <2>2. sizes \in Seq(Nat)
    BY <1>1, <2>1
  <2>3. Len(sizes) = Len(entries)
    BY <1>1, <2>2, LenProperties
  <2> QED
    BY <1>1, <2>2, <2>3
<1> HIDE DEF sizes
<1>5. at[0] = 0 /\ \A n \in 1 .. Len(sizes) : at[n] = at[n - 1] + sizes[n]
  BY <1>4, OffsetsUnfold
<1>6. /\ \A n \in 0 .. Len(sizes) : at[n] \in Nat
      /\ \A n \in 0 .. Len(sizes), m \in 0 .. Len(sizes) :
           m < n => at[m] + sizes[m + 1] <= at[n]
  BY <1>4, OffsetsGrow
<1> HIDE DEF at
<1>7. ASSUME NEW n \in Nat, n + 1 <= Len(entries)
      PROVE  at[n + 1] = at[n] + TarBlock + RoundedUp(entries[n + 1].size)
  <2>1. n + 1 \in 1 .. Len(entries) /\ (n + 1) - 1 = n /\ n \in 0 .. Len(entries)
    BY <1>1, <1>7
  <2>2. at[n + 1] = at[n] + sizes[n + 1] /\ at[n] \in Nat
    BY <1>4, <1>5, <1>6, <2>1
  <2> QED
    BY <1>2, <1>3, <1>4, <2>1, <2>2
<1>8. ASSUME NEW n \in 0 .. Len(entries)
      PROVE  at[n] <= at[Len(entries)]
  <2>1. CASE n = Len(entries)
    BY <1>4, <1>6, <2>1
  <2>2. CASE n < Len(entries)
    <3>1. n + 1 \in 1 .. Len(entries) /\ Len(entries) \in 0 .. Len(entries)
      BY <1>1, <2>2
    <3>2. at[n] + sizes[n + 1] <= at[Len(entries)]
      BY <1>4, <1>6, <2>2, <3>1
    <3>3. sizes[n + 1] \in Nat /\ at[n] \in Nat /\ at[Len(entries)] \in Nat
      <4>1. n \in 0 .. Len(sizes) /\ Len(entries) \in 0 .. Len(sizes)
        BY <1>1, <1>4
      <4>2. at[n] \in Nat /\ at[Len(entries)] \in Nat
        BY <1>6, <4>1
      <4>3. sizes[n + 1] = TarBlock + RoundedUp(entries[n + 1].size)
        BY <1>4, <3>1
      <4>4. RoundedUp(entries[n + 1].size) \in Nat
        BY <1>2, <3>1
      <4> QED
        BY <1>3, <4>2, <4>3, <4>4
    <3> QED
      BY <3>2, <3>3
  <2> QED
    <3> DEFINE k == Len(entries)
    <3>1. k \in Nat /\ n \in 0 .. k
      BY <1>1
    <3> HIDE DEF k
    <3>2. n = k \/ n < k
      BY <3>1
    <3> QED
      BY <2>1, <2>2, <3>2 DEF k
<1> QED
  BY <1>4, <1>5, <1>6, <1>7, <1>8 DEF at, sizes, TarOffsets

\* The loop of readControlTar: what it has after all entries.
LEMMA EntriesRead ==
  ASSUME NEW S, NEW entries \in Seq(S),
         \A n \in DOMAIN entries : entries[n].size \in Nat
  PROVE  LET at == TarOffsets(entries)
             tar == ReadEntries(entries)
         IN /\ tar \in Tars({Absent} \cup {entries[n].text : n \in DOMAIN entries})
            /\ tar.result = "reading" <=>
                 \A n \in 1 .. Len(entries) : GoodEntry(entries[n], at[n - 1])
            /\ tar.result = "reading" =>
                 /\ tar.at = at[Len(entries)]
                 /\ (\A n \in 1 .. Len(entries) : ~IsControl(entries[n])) => tar.text = Absent
                 /\ \A n \in 1 .. Len(entries) :
                      /\ IsControl(entries[n])
                      /\ \A k \in n + 1 .. Len(entries) : ~IsControl(entries[k])
                      => tar.text = entries[n].text
<1> DEFINE at == TarOffsets(entries)
           Bodies == {Absent} \cup {entries[n].text : n \in DOMAIN entries}
           Controlled(n) == {k \in 1 .. n : IsControl(entries[k])}
           Bad(n) == {k \in 1 .. n : ~GoodEntry(entries[k], at[k - 1])}
<1>1. /\ DOMAIN entries = 1 .. Len(entries) /\ Len(entries) \in Nat
      /\ \A n \in 1 .. Len(entries) : entries[n].size \in Nat /\ entries[n].text \in Bodies
  BY LenProperties
<1>2. PICK tar : /\ ReadEntries(entries) = tar[Len(entries)]
                 /\ tar[0] = [result |-> "reading", at |-> 0, text |-> Absent]
                 /\ \A n \in Nat : n + 1 <= Len(entries) =>
                      tar[n + 1] = ReadEntry(tar[n], entries[n + 1])
  BY ReadEntriesUnfold
<1>3. /\ at[0] = 0 /\ \A n \in 0 .. Len(entries) : at[n] \in Nat
      /\ \A n \in Nat : n + 1 <= Len(entries) =>
           at[n + 1] = at[n] + TarBlock + RoundedUp(entries[n + 1].size)
  BY <1>1, TarOffsetsGrow
<1> HIDE DEF at, Bodies
<1> DEFINE SoFar(n) ==
             /\ tar[n] \in Tars(Bodies)
             /\ tar[n].result = "reading" <=> Bad(n) = {}
             /\ tar[n].result = "reading" => tar[n].at = at[n]
             /\ tar[n].result = "reading" /\ Controlled(n) = {} => tar[n].text = Absent
             /\ tar[n].result = "reading" =>
                  \A k \in Controlled(n) : (\A j \in Controlled(n) : j <= k) =>
                    tar[n].text = entries[k].text
           T == {n \in Nat : n <= Len(entries) => SoFar(n)}
<1>4. 0 \in T
  <2>1. Bad(0) = {} /\ Controlled(0) = {} /\ Absent \in Bodies
    BY DEF Bodies
  <2> HIDE DEF Bad, Controlled
  <2>2. tar[0] \in Tars(Bodies)
    BY <1>2, <2>1 DEF Tars
  <2> QED
    BY <1>2, <1>3, <2>1, <2>2
<1>5. ASSUME NEW n \in Nat, n \in T
      PROVE  n + 1 \in T
  <2> SUFFICES ASSUME n + 1 <= Len(entries)
               PROVE  SoFar(n + 1)
    BY <1>5, SMTT(60)
  <2> DEFINE e == entries[n + 1]
  <2>1. SoFar(n)
    BY <1>1, <1>5
  <2>2. tar[n + 1] = ReadEntry(tar[n], e) /\ e.size \in Nat /\ e.text \in Bodies
    BY <1>1, <1>2
  <2>3. /\ tar[n + 1] \in Tars(Bodies)
        /\ tar[n + 1].result = "reading"
             <=> tar[n].result = "reading" /\ GoodEntry(e, tar[n].at)
        /\ tar[n + 1].result = "reading" =>
             /\ tar[n + 1].at = tar[n].at + TarBlock + RoundedUp(e.size)
             /\ tar[n + 1].text = IF IsControl(e) THEN e.text ELSE tar[n].text
    <3> HIDE DEF e
    <3> QED
      BY <2>1, <2>2, ReadEntryCases
  <2>4. Bad(n + 1) = {} <=> Bad(n) = {} /\ GoodEntry(e, at[n])
    <3>1. (n + 1) - 1 = n
      OBVIOUS
    <3> QED
      BY SMTT(30), <3>1
  <2>5. tar[n + 1].result = "reading" <=> Bad(n + 1) = {}
    BY <2>1, <2>3, <2>4
  <2>6. tar[n + 1].result = "reading" => tar[n + 1].at = at[n + 1]
    BY <1>3, <2>1, <2>3
  <2>7. Controlled(n + 1) = Controlled(n) \cup (IF IsControl(e) THEN {n + 1} ELSE {})
    OBVIOUS
  <2>8. ASSUME tar[n + 1].result = "reading"
        PROVE  /\ Controlled(n + 1) = {} => tar[n + 1].text = Absent
               /\ \A k \in Controlled(n + 1) : (\A j \in Controlled(n + 1) : j <= k) =>
                    tar[n + 1].text = entries[k].text
    <3>1. CASE IsControl(e)
      <4>1. tar[n + 1].text = e.text /\ n + 1 \in Controlled(n + 1)
        BY <2>3, <2>7, <2>8, <3>1
      <4>2. \A k \in Controlled(n + 1) : n + 1 <= k => k = n + 1
        OBVIOUS
      <4> HIDE DEF Controlled
      <4> QED
        BY <4>1, <4>2
    <3>2. CASE ~IsControl(e)
      <4>1. Controlled(n + 1) = Controlled(n) /\ tar[n + 1].text = tar[n].text
        BY <2>3, <2>7, <2>8, <3>2
      <4> HIDE DEF Controlled
      <4> QED
        BY <2>1, <2>3, <2>8, <4>1
    <3> QED
      BY <3>1, <3>2
  <2> HIDE DEF Bad, Controlled
  <2> QED
    BY <2>3, <2>5, <2>6, <2>8
<1>6. SoFar(Len(entries))
  <2>1. \A n \in Nat : n \in T
    <3> HIDE DEF T
    <3> QED
      BY <1>4, <1>5, SetInduction
  <2> HIDE DEF SoFar
  <2> QED
    BY <1>1, <2>1
<1>7. Bad(Len(entries)) = {} <=> \A n \in 1 .. Len(entries) : GoodEntry(entries[n], at[n - 1])
  OBVIOUS
<1>8. Controlled(Len(entries)) = {} <=> \A n \in 1 .. Len(entries) : ~IsControl(entries[n])
  OBVIOUS
<1>9. ASSUME NEW n \in 1 .. Len(entries), IsControl(entries[n]),
             \A k \in n + 1 .. Len(entries) : ~IsControl(entries[k])
      PROVE  n \in Controlled(Len(entries)) /\ \A j \in Controlled(Len(entries)) : j <= n
  BY <1>1, <1>9
<1> HIDE DEF Bad, Controlled
<1> QED
  BY <1>2, <1>6, <1>7, <1>8, <1>9 DEF at, Bodies

\* What the control member of a file that may be read is, as FilesAssumption has it.
ControlBody(body) ==
  /\ body.entries \in Seq(ToSet(body.entries))
  /\ body.ending \in {"zeros", "garbage", "nothing"}
  /\ \A k \in DOMAIN body.entries :
       LET e == body.entries[k] IN
         e.size \in Nat /\ e.text # Absent /\ e.path \in Seq(ToSet(e.path)) /\ e.path # <<>>

\* readControlTar accepts the control archives that are in order, and returns the
\* text of their last control file.
LEMMA ReadsControl ==
  ASSUME NEW body, ControlBody(body)
  PROVE  LET tar == ReadControlTar(body)
         IN /\ tar.result \in {"reading", "format", "too large", "missing"}
            /\ tar.result = "reading" <=> GoodControl(body)
            /\ tar.result = "reading" => tar.text = ControlText(body)
<1> DEFINE entries == body.entries
           N == Len(entries)
           at == TarOffsets(entries)
           tar == ReadEntries(entries)
           Bodies == {Absent} \cup {entries[n].text : n \in DOMAIN entries}
<1>1. /\ entries \in Seq(ToSet(entries)) /\ DOMAIN entries = 1 .. N /\ N \in Nat
      /\ body.ending \in {"zeros", "garbage", "nothing"}
      /\ \A n \in 1 .. N :
           /\ entries[n].size \in Nat /\ entries[n].text # Absent
           /\ entries[n].path \in Seq(ToSet(entries[n].path)) /\ entries[n].path # <<>>
  BY LenProperties DEF ControlBody
<1>2. /\ tar \in Tars(Bodies)
      /\ tar.result = "reading" <=> \A n \in 1 .. N : GoodEntry(entries[n], at[n - 1])
      /\ tar.result = "reading" =>
           /\ tar.at = at[N]
           /\ (\A n \in 1 .. N : ~IsControl(entries[n])) => tar.text = Absent
           /\ \A n \in 1 .. N :
                /\ IsControl(entries[n])
                /\ \A k \in n + 1 .. N : ~IsControl(entries[k])
                => tar.text = entries[n].text
  BY <1>1, EntriesRead
<1>3. /\ at[0] = 0 /\ \A n \in 0 .. N : at[n] \in Nat
      /\ \A n \in Nat : n + 1 <= N =>
           at[n + 1] = at[n] + TarBlock + RoundedUp(entries[n + 1].size)
      /\ \A n \in 0 .. N : at[n] <= at[N]
  BY <1>1, TarOffsetsGrow
<1>4. \A n \in 1 .. N : SafePath(entries[n].path) <=> SafeTarName(entries[n].path) # Unsafe
  BY <1>1, SafeNames
<1>5. Controls(body) = {n \in 1 .. N : IsControl(entries[n])}
  BY <1>1 DEF Controls, IsControl
<1>6. TarSize(body) = at[N] + IF body.ending = "zeros" THEN 2 * TarBlock ELSE 0
  BY DEF TarSize
<1> HIDE DEF entries, N, at, tar, Bodies
\* Within the limit as a whole, each entry is.
<1>7. ASSUME WithinLimit(at[N]), NEW n \in 1 .. N
      PROVE  /\ WithinLimit(at[n - 1] + TarBlock)
             /\ WithinLimit(at[n - 1] + TarBlock + entries[n].size)
  <2> DEFINE m == n - 1
  <2>1. m \in Nat /\ m + 1 = n /\ m + 1 <= N /\ m \in 0 .. N /\ n \in 0 .. N
    BY <1>1
  <2>2. entries[n].size \in Nat
    BY <1>1
  <2>3. /\ at[m + 1] = at[m] + TarBlock + RoundedUp(entries[m + 1].size)
        /\ at[m] \in Nat /\ at[n] <= at[N] /\ at[N] \in Nat
    <3> HIDE DEF m
    <3> QED
      BY <1>1, <1>3, <2>1
  <2>4. RoundedUp(entries[n].size) >= entries[n].size /\ RoundedUp(entries[n].size) \in Nat
    BY <2>2, Blocks
  <2>5. TarBlock \in Nat
    BY DEF TarBlock
  <2>6. at[m] + TarBlock + entries[n].size <= at[N] /\ at[m] + TarBlock <= at[N]
    <3> HIDE DEF m, TarBlock, RoundedUp
    <3> QED
      BY <2>1, <2>2, <2>3, <2>4, <2>5
  <2>7. at[N] <= MaxControlArchiveSize
    BY <1>7 DEF WithinLimit
  <2> QED
    BY <2>1, <2>2, <2>3, <2>5, <2>6, <2>7, LimitsAssumption DEF WithinLimit
<1>8. \A n \in 1 .. N : GoodEntry(entries[n], at[n - 1]) =>
        /\ SafePath(entries[n].path)
        /\ n \in Controls(body) => entries[n].regular /\ entries[n].size <= MaxControlFileSize
  BY <1>4, <1>5 DEF GoodEntry
<1>9. ASSUME WithinLimit(at[N]), NEW n \in 1 .. N, SafePath(entries[n].path),
             n \in Controls(body) => entries[n].regular /\ entries[n].size <= MaxControlFileSize
      PROVE  GoodEntry(entries[n], at[n - 1])
  BY <1>4, <1>5, <1>7, <1>9 DEF GoodEntry
<1> DEFINE end == tar.at + CASE body.ending = "zeros" -> 2 * TarBlock
                             [] body.ending = "garbage" -> TarBlock
                             [] body.ending = "nothing" -> 0
           kind == CASE ~WithinLimit(end) -> "too large"
                     [] WithinLimit(end) /\ body.ending = "garbage" -> "format"
                     [] WithinLimit(end) /\ body.ending # "garbage" /\ tar.text = Absent ->
                          "missing"
                     [] OTHER -> "reading"
           done == ReadControlTar(body)
<1>10. done = CASE ~body.intact -> [tar EXCEPT !.result = "format"]
                [] body.intact /\ tar.result # "reading" -> tar
                [] OTHER -> [tar EXCEPT !.result = kind]
  BY Zenon DEF ReadControlTar, tar, entries
<1>11. /\ TarBlock \in Nat /\ at[N] \in Nat
       /\ tar.result \in {"reading", "format", "too large"}
  <2>1. TarBlock \in Nat
    BY DEF TarBlock
  <2>2. N \in 0 .. N
    BY <1>1
  <2>3. tar.result \in {"reading", "format", "too large"}
    BY <1>2 DEF Tars
  <2> QED
    BY <1>3, <2>1, <2>2, <2>3
<1> HIDE DEF kind, done
<1>12. CASE ~body.intact
  <2>1. done = [tar EXCEPT !.result = "format"]
    BY <1>10, <1>12
  <2>2. done.result = "format"
    BY <1>2, <2>1 DEF Tars
  <2>3. ~GoodControl(body)
    BY <1>12 DEF GoodControl
  <2> QED
    BY <2>2, <2>3 DEF done
<1>13. CASE body.intact /\ tar.result # "reading"
  <2>1. done = tar
    BY <1>10, <1>13
  <2>2. PICK n \in 1 .. N : ~GoodEntry(entries[n], at[n - 1])
    BY <1>2, <1>13
  <2>3. ASSUME GoodControl(body)
        PROVE  FALSE
    <3>1. WithinLimit(at[N])
      <4> DEFINE extra == IF body.ending = "zeros" THEN 2 * TarBlock ELSE 0
      <4>1. extra \in Nat
        BY DEF TarBlock
      <4>2. TarSize(body) = at[N] + extra
        BY <1>6
      <4>3. TarSize(body) <= MaxControlArchiveSize
        BY <2>3 DEF GoodControl
      <4> HIDE DEF extra
      <4>4. at[N] <= MaxControlArchiveSize
        <5> DEFINE a == at[N]
                   b == TarSize(body)
        <5>1. a \in Nat /\ b = a + extra /\ b <= MaxControlArchiveSize
          BY <1>11, <4>2, <4>3
        <5> HIDE DEF a, b
        <5>2. a <= MaxControlArchiveSize
          BY <4>1, <5>1, LimitsAssumption
        <5> QED
          BY <5>2 DEF a
      <4> QED
        BY <4>4 DEF WithinLimit
    <3>2. /\ SafePath(entries[n].path)
          /\ n \in Controls(body) => entries[n].regular /\ entries[n].size <= MaxControlFileSize
      BY <1>1, <2>3 DEF GoodControl, entries
    <3> QED
      BY <1>9, <2>2, <3>1, <3>2
  <2> QED
    BY <1>11, <1>13, <2>1, <2>3 DEF done
<1>14. CASE body.intact /\ tar.result = "reading"
  <2>1. done = [tar EXCEPT !.result = kind]
    BY <1>10, <1>14
  <2>2. done.result = kind /\ done.text = tar.text
    BY <1>2, <2>1 DEF Tars
  <2>3. tar.at = at[N] /\ \A n \in 1 .. N : GoodEntry(entries[n], at[n - 1])
    BY <1>2, <1>14
  <2>4. Controls(body) = {} => tar.text = Absent
    BY <1>2, <1>5, <1>14
  <2>5. ASSUME Controls(body) # {}
        PROVE  tar.text # Absent /\ tar.text = ControlText(body)
    <3> DEFINE last == CHOOSE n \in Controls(body) : \A k \in Controls(body) : k <= n
    <3>1. last \in Controls(body) /\ \A k \in Controls(body) : k <= last
      <4>1. \E m \in Controls(body) : \A k \in Controls(body) : k <= m
        BY <1>1, <1>5, <2>5, LargestNumber
      <4> QED
        BY <4>1
    <3>2. ControlText(body) = entries[last].text
      BY DEF ControlText, entries
    <3> HIDE DEF last
    <3>3. /\ last \in 1 .. N /\ IsControl(entries[last])
          /\ \A k \in last + 1 .. N : ~IsControl(entries[k])
      <4>1. last \in 1 .. N /\ IsControl(entries[last])
        BY <1>5, <3>1
      <4>2. ASSUME NEW k \in last + 1 .. N, IsControl(entries[k])
            PROVE  FALSE
        <5>1. k \in 1 .. N /\ ~(k <= last)
          BY <1>1, <4>1, <4>2
        <5> QED
          BY <1>5, <3>1, <4>2, <5>1
      <4> QED
        BY <4>1, <4>2
    <3>4. tar.text = entries[last].text
      BY <1>2, <1>14, <3>3
    <3> QED
      BY <1>1, <3>2, <3>3, <3>4
  <2>6. /\ kind \in {"reading", "format", "too large", "missing"}
        /\ kind = "reading" <=>
             /\ WithinLimit(end) /\ body.ending # "garbage" /\ tar.text # Absent
    BY DEF kind
  <2>7. body.ending # "garbage" => (WithinLimit(end) <=> TarSize(body) <= MaxControlArchiveSize)
    BY <1>1, <1>6, <1>11, <2>3 DEF WithinLimit
  <2>8. GoodControl(body) <=>
          /\ body.ending # "garbage" /\ TarSize(body) <= MaxControlArchiveSize
          /\ Controls(body) # {}
    <3>1. \A n \in 1 .. N : SafePath(entries[n].path)
      BY <1>8, <2>3
    <3>2. \A n \in Controls(body) :
            entries[n].regular /\ entries[n].size <= MaxControlFileSize
      BY <1>5, <1>8, <2>3
    <3> QED
      BY <1>1, <1>14, <3>1, <3>2 DEF GoodControl, entries
  <2> HIDE DEF end
  <2> QED
    BY <2>2, <2>4, <2>5, <2>6, <2>7, <2>8 DEF done
<1> QED
  BY <1>12, <1>13, <1>14

-----------------------------------------------------------------------------
(* The members.                                                            *)

LEMMA Padding ==
  ASSUME NEW size \in Nat
  PROVE  Padded(size) \in Nat /\ size <= Padded(size)
BY DEF Padded

\* The headers lie behind each other, and the file ends with the last member or
\* before.
LEMMA FileFacts ==
  ASSUME NEW f \in Files
  PROVE  LET members == f.members
             at == HeaderOffsets(members)
         IN /\ members \in Seq(ToSet(members)) /\ Len(members) \in Nat
            /\ \A n \in 1 .. Len(members) :
                 /\ members[n].size \in Nat
                 /\ members[n].stem = "control.tar" => ControlBody(members[n].body)
            /\ f.length \in Nat /\ f.length <= at[Len(members)]
            /\ at[0] = ArMagic /\ \A n \in 0 .. Len(members) : at[n] \in Nat /\ at[n] >= ArMagic
            /\ \A n \in 1 .. Len(members) :
                 at[n] = at[n - 1] + ArHeader + Padded(members[n].size)
            /\ \A n \in 0 .. Len(members), m \in 0 .. Len(members) :
                 m < n => at[m] + ArHeader <= at[n]
<1> DEFINE members == f.members
           K == Len(members)
           at == HeaderOffsets(members)
           sizes == [n \in DOMAIN members |-> ArHeader + Padded(members[n].size)]
<1>1. /\ members \in Seq(ToSet(members))
      /\ \A n \in DOMAIN members :
           /\ members[n].size \in Nat
           /\ members[n].stem = "control.tar" => ControlBody(members[n].body)
      /\ f.length \in 0 .. at[K]
  BY FilesAssumption DEF ControlBody, WholeLength
<1>2. K \in Nat /\ DOMAIN members = 1 .. K
  BY <1>1, LenProperties
<1> HIDE DEF members, K
<1>3. \A n \in 1 .. K : Padded(members[n].size) \in Nat
  BY <1>1, <1>2, Padding
<1>4. ArHeader \in Nat /\ ArMagic \in Nat
  BY DEF ArHeader, ArMagic
<1>5. /\ sizes \in Seq(Nat) /\ Len(sizes) = K
      /\ \A n \in 1 .. K : sizes[n] = ArHeader + Padded(members[n].size)
  <2> HIDE DEF ArHeader, Padded
  <2>1. sizes \in [1 .. K -> Nat]
    BY <1>2, <1>3, <1>4
  <2>2. sizes \in Seq(Nat)
    BY <1>2, <2>1
  <2>3. Len(sizes) = K
    BY <1>2, <2>2, LenProperties
  <2> QED
    BY <1>2, <2>2, <2>3
<1>6. at = Offsets(ArMagic, sizes)
  BY DEF HeaderOffsets, members
<1> HIDE DEF sizes, at
<1>7. at[0] = ArMagic /\ \A n \in 1 .. K : at[n] = at[n - 1] + sizes[n]
  BY <1>4, <1>5, <1>6, OffsetsUnfold
<1>8. /\ \A n \in 0 .. K : at[n] \in Nat /\ at[n] >= ArMagic
      /\ \A n \in 0 .. K, m \in 0 .. K : m < n => at[m] + sizes[m + 1] <= at[n]
  BY <1>4, <1>5, <1>6, OffsetsGrow
<1>9. ASSUME NEW n \in 1 .. K
      PROVE  at[n] = at[n - 1] + ArHeader + Padded(members[n].size)
  <2>1. n - 1 \in 0 .. K
    BY <1>2
  <2>2. at[n] = at[n - 1] + sizes[n] /\ at[n - 1] \in Nat
    BY <1>7, <1>8, <2>1
  <2> HIDE DEF ArHeader, Padded
  <2> QED
    BY <1>3, <1>4, <1>5, <2>2
<1>10. ASSUME NEW n \in 0 .. K, NEW m \in 0 .. K, m < n
       PROVE  at[m] + ArHeader <= at[n]
  <2>1. m + 1 \in 1 .. K
    BY <1>2, <1>10
  <2>2. at[m] + sizes[m + 1] <= at[n] /\ at[m] \in Nat /\ at[n] \in Nat
    BY <1>8, <1>10
  <2>3. sizes[m + 1] = ArHeader + Padded(members[m + 1].size) /\ Padded(members[m + 1].size) \in Nat
    BY <1>3, <1>5, <2>1
  <2> HIDE DEF ArHeader, Padded
  <2> QED
    BY <1>4, <2>2, <2>3
<1>11. f.length \in Nat /\ f.length <= at[K]
  BY <1>1, <1>2, <1>8
<1> QED
  BY <1>1, <1>2, <1>7, <1>8, <1>9, <1>10, <1>11 DEF members, K, at

\* IsPackage of the first members.
PackageUpTo(members, n) ==
  /\ n >= 1 /\ GoodBinary(members[1])
  /\ \A k \in 1 .. n : members[k].valid
  /\ \E c, d \in 2 .. n :
       /\ c < d /\ GoodControlMember(members[c]) /\ members[d].stem = "data.tar"
       /\ \A k \in 2 .. d - 1 : k # c => members[k].stem = "_"

LEMMA PackagePrefix ==
  ASSUME NEW S, NEW members \in Seq(S), NEW n \in 0 .. Len(members)
  PROVE  IsPackage(SubSeq(members, 1, n)) <=> PackageUpTo(members, n)
<1> DEFINE some == SubSeq(members, 1, n)
<1>1. Len(members) \in Nat /\ \A k \in 1 .. n : members[k] \in S
  BY LenProperties, ElementOfSeq
<1>2. /\ some \in Seq(S) /\ Len(some) = n
      /\ \A k \in 1 .. n : some[k] = members[k]
  BY <1>1, SubSeqProperties
<1> HIDE DEF some
<1>3. DOMAIN some = 1 .. n /\ (some # <<>> <=> n >= 1)
  BY <1>1, <1>2, LenProperties, EmptySeq
<1>4. n \in Nat
  BY <1>1
<1>5. ASSUME IsPackage(some)
      PROVE  PackageUpTo(members, n)
  <2>1. /\ \A k \in 1 .. n : some[k].valid
        /\ n >= 1 /\ GoodBinary(some[1])
    BY <1>3, <1>5 DEF IsPackage
  <2>2. PICK c \in 1 .. n, d \in 1 .. n :
          /\ 1 < c /\ c < d
          /\ GoodControlMember(some[c]) /\ some[d].stem = "data.tar"
          /\ \A k \in 2 .. d - 1 : k # c => some[k].stem = "_"
    BY <1>3, <1>5 DEF IsPackage
  <2>3. 1 < c /\ c < d /\ n >= 1
    BY <2>1, <2>2
  <2>4. c \in 2 .. n /\ d \in 2 .. n /\ 1 \in 1 .. n /\ \A k \in 2 .. d - 1 : k \in 1 .. n
    BY <1>4, <2>3
  <2>5. /\ GoodControlMember(members[c]) /\ members[d].stem = "data.tar"
        /\ \A k \in 2 .. d - 1 : k # c => members[k].stem = "_"
    BY <1>2, <2>2, <2>4
  <2>6. GoodBinary(members[1]) /\ \A k \in 1 .. n : members[k].valid
    BY <1>2, <2>1, <2>4
  <2> QED
    BY <2>3, <2>4, <2>5, <2>6 DEF PackageUpTo
<1>6. ASSUME PackageUpTo(members, n)
      PROVE  IsPackage(some)
  <2>1. /\ \A k \in 1 .. n : members[k].valid
        /\ n >= 1 /\ GoodBinary(members[1])
    BY <1>6 DEF PackageUpTo
  <2>2. PICK c \in 2 .. n, d \in 2 .. n :
          /\ c < d
          /\ GoodControlMember(members[c]) /\ members[d].stem = "data.tar"
          /\ \A k \in 2 .. d - 1 : k # c => members[k].stem = "_"
    BY <1>6 DEF PackageUpTo
  <2>3. c < d /\ n >= 1
    BY <2>1, <2>2
  <2>4. /\ c \in 1 .. n /\ d \in 1 .. n /\ 1 < c /\ 1 \in 1 .. n
        /\ \A k \in 2 .. d - 1 : k \in 1 .. n
    BY <1>4, <2>3
  <2>5. /\ GoodControlMember(some[c]) /\ some[d].stem = "data.tar"
        /\ \A k \in 2 .. d - 1 : k # c => some[k].stem = "_"
    BY <1>2, <2>2, <2>4
  <2>6. GoodBinary(some[1]) /\ \A k \in 1 .. n : some[k].valid
    BY <1>2, <2>1, <2>4
  <2> QED
    BY <1>3, <2>3, <2>4, <2>5, <2>6 DEF IsPackage
<1> QED
  BY <1>5, <1>6 DEF some

LEMMA WellFormedPrefix ==
  ASSUME NEW f \in Files
  PROVE  WellFormed(f) <=>
           /\ f.magic
           /\ \E n \in 0 .. Len(f.members) :
                f.length = HeaderOffsets(f.members)[n] /\ PackageUpTo(f.members, n)
<1>1. f.members \in Seq(ToSet(f.members))
  BY FileFacts
<1>2. \A n \in 0 .. Len(f.members) :
        IsPackage(SubSeq(f.members, 1, n)) <=> PackageUpTo(f.members, n)
  BY <1>1, PackagePrefix
<1> QED
  BY <1>2 DEF WellFormed

-----------------------------------------------------------------------------
(* The inductive invariant.                                                *)

Headers == HeaderOffsets(file.members)

Skipped(first, last) == \A n \in first .. last : file.members[n].stem = "_"

\* The control archive that was read, and its place.
ControlAt(c) ==
  LET m == file.members[c] IN
    /\ m.stem = "control.tar" /\ m.suffix \in Compressions
    /\ GoodControl(m.body) /\ control = ControlText(m.body)

Types ==
  /\ file \in Files /\ pos \in 0 .. file.length /\ left \in Nat
  /\ next \in 1 .. Len(file.members) + 1
  /\ state \in {"magic", "debian-binary", "control.tar", "data.tar", "trailer"}
  /\ result \in {"reading", "accepted", "nameless", "cancelled", "not opened"} \cup Errors

\* The reader is at the header of the next member.
Place ==
  /\ state = "magic" => pos = 0 /\ left = 0 /\ next = 1
  /\ state # "magic" => file.magic /\ pos + left = Headers[next - 1]
  /\ next > 1 => Headers[next - 2] < file.length

\* The members before the next one are what the state says.
Seen ==
  /\ \A n \in 1 .. next - 1 : file.members[n].valid
  /\ state = "debian-binary" => next = 1
  /\ state \in {"control.tar", "data.tar", "trailer"} => next > 1 /\ GoodBinary(file.members[1])
  /\ state = "control.tar" => Skipped(2, next - 1)
  /\ state = "data.tar" =>
       \E c \in 2 .. next - 1 : ControlAt(c) /\ Skipped(2, c - 1) /\ Skipped(c + 1, next - 1)
  /\ state = "trailer" =>
       \E c, d \in 2 .. next - 1 :
         /\ c < d /\ ControlAt(c) /\ file.members[d].stem = "data.tar"
         /\ Skipped(2, c - 1) /\ Skipped(c + 1, d - 1)

Verdict ==
  /\ result \in {"accepted", "nameless"} =>
       state = "trailer" /\ pos + left = file.length /\ Parses(control)
  /\ result \in Errors => ~WellFormed(file)

Inv == Types /\ Place /\ Seen /\ Verdict

LEMMA Position ==
  ASSUME Types, Place, state # "magic"
  PROVE  /\ HeaderAt = Headers[next - 1] /\ HeaderAt \in Nat /\ next - 1 \in 0 .. Len(file.members)
         /\ HeaderAt < file.length => next \in 1 .. Len(file.members)
         /\ \A n \in 0 .. Len(file.members) : file.length = Headers[n] =>
              /\ ~Truncated
              /\ HeaderAt < file.length => n >= next
              /\ HeaderAt >= file.length => n = next - 1
<1> DEFINE K == Len(file.members)
           H == HeaderOffsets(file.members)
           L == file.length
           m == next - 1
<1>1. /\ K \in Nat /\ L \in Nat /\ L <= H[K]
      /\ \A n \in 0 .. K : H[n] \in Nat
      /\ \A n \in 0 .. K, k \in 0 .. K : k < n => H[k] + ArHeader <= H[n]
  BY FileFacts DEF Types
<1>2. next \in 1 .. K + 1 /\ pos + left = H[m] /\ (next > 1 => H[next - 2] < L)
  BY DEF Types, Place, Headers
<1>3. HeaderAt = H[m]
  BY <1>2 DEF HeaderAt
<1> HIDE DEF K, H, L, m
<1>4. m \in 0 .. K /\ H[m] \in Nat /\ m + 1 = next
  BY <1>1, <1>2 DEF m
<1>5. ASSUME H[m] < L
      PROVE  next \in 1 .. K
  <2>1. m # K
    BY <1>1, <1>5
  <2> QED
    BY <1>1, <1>2, <1>4, <2>1
<1>6. ASSUME NEW n \in 0 .. K, L = H[n]
      PROVE  /\ H[m] < L => n >= next
             /\ H[m] >= L => n = m /\ H[m] = L
             /\ H[m] < L => H[m] + ArHeader <= L
  <2>1. ArHeader = 60
    BY DEF ArHeader
  <2>2. CASE n > m
    <3>1. H[m] + 60 <= H[n]
      BY <1>1, <1>4, <2>1, <2>2
    <3>2. n >= next
      BY <1>1, <1>4, <2>2
    <3> QED
      BY <1>1, <1>4, <1>6, <2>1, <3>1, <3>2
  <2>3. CASE n = m
    BY <1>4, <1>6, <2>3
  <2>4. CASE n < m
    <3>1. next > 1 /\ next - 2 = m - 1 /\ m - 1 \in 0 .. K /\ n <= m - 1
      BY <1>1, <1>4, <2>4
    <3>2. H[m - 1] < L /\ H[m - 1] \in Nat
      BY <1>1, <1>2, <3>1
    <3>3. H[n] <= H[m - 1]
      <4>1. CASE n = m - 1
        BY <3>2, <4>1
      <4>2. CASE n < m - 1
        <5>1. H[n] + 60 <= H[m - 1]
          BY <1>1, <2>1, <3>1, <4>2
        <5> QED
          BY <1>1, <3>2, <5>1
      <4> QED
        BY <1>1, <3>1, <4>1, <4>2
    <3> QED
      BY <1>1, <1>6, <3>2, <3>3
  <2> QED
    BY <1>1, <1>4, <2>2, <2>3, <2>4
<1>7. \A n \in 0 .. K : L = H[n] => ~Truncated
  <2> SUFFICES ASSUME NEW n \in 0 .. K, L = H[n]
               PROVE  ~Truncated
    OBVIOUS
  <2>1. ~(H[m] > L) /\ ~(H[m] < L /\ H[m] + ArHeader > L)
    <3>1. /\ H[m] >= L => H[m] = L
          /\ H[m] < L => H[m] + ArHeader <= L
      BY <1>6
    <3>2. ArHeader \in Nat /\ L \in Nat
      BY <1>1 DEF ArHeader
    <3> HIDE DEF ArHeader
    <3> QED
      BY <1>4, <3>1, <3>2
  <2> QED
    BY <1>3, <2>1 DEF Truncated, L
<1> QED
  BY <1>3, <1>4, <1>5, <1>6, <1>7 DEF Headers, K, H, L, m

\* In a package, the members that come next.
LEMMA Stages ==
  ASSUME Types, Seen, NEW n \in 0 .. Len(file.members), PackageUpTo(file.members, n)
  PROVE  /\ n >= next => file.members[next].valid
         /\ state = "debian-binary" => n >= 1 /\ next = 1 /\ GoodBinary(file.members[1])
         /\ state = "control.tar" =>
              /\ n # next - 1
              /\ n >= next => \/ file.members[next].stem = "_"
                              \/ GoodControlMember(file.members[next])
         /\ state = "data.tar" =>
              /\ n # next - 1
              /\ n >= next => file.members[next].stem \in {"_", "data.tar"}
         /\ state = "trailer" => Parses(control)
<1> DEFINE member == file.members
<1>1. next \in Nat \ {0} /\ n \in Nat
  <2>1. Len(file.members) \in Nat
    BY FileFacts DEF Types
  <2>2. next \in 1 .. Len(file.members) + 1
    BY DEF Types
  <2> QED
    BY <2>1, <2>2
<1>2. PICK c \in 2 .. n, d \in 2 .. n :
        /\ c < d /\ GoodControlMember(member[c]) /\ member[d].stem = "data.tar"
        /\ \A k \in 2 .. d - 1 : k # c => member[k].stem = "_"
  BY DEF PackageUpTo
<1> DEFINE Placed == c \in Nat /\ d \in Nat /\ 2 <= c /\ c < d /\ d <= n
<1>3. Placed
  <2>1. c < d
    BY <1>2
  <2> QED
    BY <1>1, <2>1
<1>4. n >= next => member[next].valid
  <2>1. n >= next => next \in 1 .. n
    BY <1>1
  <2> QED
    BY <2>1 DEF PackageUpTo
<1>5. state = "debian-binary" => n >= 1 /\ next = 1 /\ GoodBinary(member[1])
  BY DEF PackageUpTo, Seen
<1>6. member[c].stem = "control.tar"
  BY <1>2 DEF GoodControlMember
<1> HIDE DEF member
<1>7. ASSUME state = "control.tar"
      PROVE  /\ n # next - 1
             /\ n >= next => member[next].stem = "_" \/ GoodControlMember(member[next])
  <2>1. next > 1 /\ \A k \in 2 .. next - 1 : member[k].stem = "_"
    BY <1>7 DEF Seen, Skipped, member
  <2>2. ~(c \in 2 .. next - 1)
    BY <1>6, <2>1
  <2>3. c >= next
    BY <1>1, <1>3, <2>2
  <2>4. CASE c = next
    <3>1. n # next - 1
      BY <1>1, <1>3, <2>4
    <3> QED
      BY <1>2, <2>4, <3>1
  <2>5. CASE c # next
    <3>1. next \in 2 .. d - 1 /\ n # next - 1
      <4>1. next > 1
        BY <2>1
      <4> QED
        BY <1>1, <1>3, <2>3, <2>5, <4>1
    <3> QED
      BY <1>2, <2>5, <3>1
  <2> QED
    BY <2>4, <2>5
\* The control archive that was found is the one of the package.
<1>8. ASSUME NEW e \in 2 .. next - 1, ControlAt(e), Skipped(2, e - 1), NEW last \in Nat,
             e <= last, last <= next - 1, Skipped(e + 1, last)
      PROVE  c = e /\ d > last
  <2>1. /\ member[e].stem = "control.tar"
        /\ \A k \in 2 .. e - 1 : member[k].stem = "_"
        /\ \A k \in e + 1 .. last : member[k].stem = "_"
    BY <1>8 DEF ControlAt, Skipped, member
  <2>2. d \notin 2 .. last
    <3>1. d \in 2 .. last => d \in 2 .. e - 1 \/ d = e \/ d \in e + 1 .. last
      BY <1>1, <1>8
    <3> QED
      BY <1>2, <2>1, <3>1
  <2>3. d > last
    BY <1>1, <1>3, <1>8, <2>2
  <2>4. e \in 2 .. d - 1
    BY <1>1, <1>8, <2>3
  <2>5. c = e
    BY <1>2, <2>1, <2>4
  <2> QED
    BY <2>3, <2>5
<1>9. ASSUME state = "data.tar"
      PROVE  n # next - 1 /\ (n >= next => member[next].stem \in {"_", "data.tar"})
  <2>1. PICK e \in 2 .. next - 1 : ControlAt(e) /\ Skipped(2, e - 1) /\ Skipped(e + 1, next - 1)
    BY <1>9 DEF Seen
  <2>2. next - 1 \in Nat /\ e <= next - 1 /\ next - 1 <= next - 1
    BY <1>1
  <2>3. c = e /\ d > next - 1
    BY <1>8, <2>1, <2>2
  <2>4. CASE d = next
    <3>1. n # next - 1
      BY <1>1, <1>3, <2>4
    <3> QED
      BY <1>2, <2>4, <3>1
  <2>5. CASE d # next
    <3>1. next \in 2 .. d - 1 /\ n # next - 1 /\ next # c
      <4>1. d > next - 1 /\ c \in 2 .. next - 1
        BY <2>3
      <4> QED
        BY <1>1, <1>3, <2>5, <4>1
    <3> QED
      BY <1>2, <3>1
  <2> QED
    BY <2>4, <2>5
<1>10. ASSUME state = "trailer"
      PROVE  Parses(control)
  <2>1. PICK e \in 2 .. next - 1, b \in 2 .. next - 1 :
          /\ e < b /\ ControlAt(e) /\ Skipped(2, e - 1) /\ Skipped(e + 1, b - 1)
    BY <1>10 DEF Seen
  <2>2. b - 1 \in Nat /\ e <= b - 1 /\ b - 1 <= next - 1
    BY <1>1, <2>1
  <2>3. c = e
    BY <1>8, <2>1, <2>2
  <2> QED
    BY <1>2, <2>1, <2>3 DEF ControlAt, GoodControlMember, member
<1> QED
  BY <1>4, <1>5, <1>7, <1>9, <1>10 DEF member

\* An error leaves the reader where it is.
LEMMA FailsKeeps ==
  ASSUME Inv, NEW kind \in {"cancelled", "not opened", "nameless"} \cup Errors, Fails(kind),
         kind \in Errors => ~WellFormed(file), kind = "nameless" => result = "accepted"
  PROVE  Inv'
<1>1. /\ UNCHANGED <<file, pos, left, next, state, control>> /\ result' = kind
      /\ Types /\ Place /\ Seen /\ Verdict
  BY DEF Inv, Fails
<1>2. Types' /\ Place' /\ Seen'
  <2>1. Types'
    BY <1>1 DEF Types
  <2>2. Place'
    BY <1>1 DEF Place, Headers
  <2>3. Seen'
    BY <1>1, ZenonT(30) DEF Seen, ControlAt, Skipped
  <2> QED
    BY <2>1, <2>2, <2>3
<1>3. Verdict'
  <2>1. result' \in {"accepted", "nameless"} => result = "accepted"
    BY <1>1 DEF Errors
  <2>2. result' \in {"accepted", "nameless"} =>
          state' = "trailer" /\ pos' + left' = file'.length /\ Parses(control')
    BY <1>1, <2>1 DEF Verdict
  <2>3. result' \in Errors => ~WellFormed(file')
    BY <1>1
  <2> QED
    BY <2>2, <2>3 DEF Verdict
<1> QED
  BY <1>2, <1>3 DEF Inv

\* After a member of the file has been read, as far as it goes.
LEMMA MemberRead ==
  ASSUME Inv, InMembers, ~Truncated, HeaderAt < file.length, Member.valid,
         NEW consumed \in Nat, consumed <= Padded(Member.size),
         BodyAt + consumed <= file.length, Advance(consumed)
  PROVE  /\ next \in 1 .. Len(file.members) /\ file' = file /\ next' = next + 1
         /\ \A n \in 1 .. next' - 1 : file'.members[n].valid
         /\ state' \in {"control.tar", "data.tar", "trailer"} /\ Seen' => Inv'
<1> DEFINE K == Len(file.members)
           H == HeaderOffsets(file.members)
           L == file.length
           P == Padded(Member.size)
<1>1. /\ Types /\ Place /\ Seen /\ Verdict /\ result = "reading" /\ state # "magic"
  BY DEF Inv, InMembers
<1>2. HeaderAt = H[next - 1] /\ HeaderAt \in Nat /\ next \in 1 .. K
  BY <1>1, Position DEF Headers
<1>3. K \in Nat /\ L \in Nat
  BY <1>1, FileFacts DEF Types
<1>4. P \in Nat /\ H[next] = HeaderAt + ArHeader + P
  <2>1. Member.size \in Nat /\ H[next] = H[next - 1] + ArHeader + P
    BY <1>1, <1>2, FileFacts DEF Types, Member
  <2> QED
    BY <1>2, <2>1, Padding
<1>5. /\ pos' = HeaderAt + ArHeader + consumed /\ left' = P - consumed
      /\ next' = next + 1 /\ file' = file /\ result' = result
  BY DEF Advance, BodyAt
<1> HIDE DEF K, H, L, P
<1>6. ArHeader \in Nat
  BY DEF ArHeader
<1>7. /\ pos' \in 0 .. L /\ left' \in Nat /\ next' \in 1 .. K + 1 /\ next \in Nat
      /\ pos' + left' = H[next] /\ next' - 1 = next /\ next' - 2 = next - 1 /\ next' > 1
  <2>1. consumed <= P /\ HeaderAt + ArHeader + consumed <= L
    BY DEF P, L, BodyAt
  <2> HIDE DEF ArHeader
  <2>2. pos' \in 0 .. L /\ left' \in Nat
    BY <1>2, <1>3, <1>4, <1>5, <1>6, <2>1
  <2>3. pos' + left' = H[next]
    BY <1>2, <1>4, <1>5, <1>6
  <2>4. next \in Nat /\ next \in 1 .. K /\ next' = next + 1
    BY <1>2, <1>3, <1>5
  <2> QED
    BY <1>3, <2>2, <2>3, <2>4
<1>8. \A n \in 1 .. next' - 1 : file'.members[n].valid
  <2>1. \A n \in 1 .. next : n = next \/ n \in 1 .. next - 1
    BY <1>7
  <2> QED
    BY <1>1, <1>5, <1>7, <2>1 DEF Seen, Member
<1>9. ASSUME state' \in {"control.tar", "data.tar", "trailer"}, Seen'
      PROVE  Inv'
  <2>1. Types'
    BY <1>1, <1>5, <1>7, <1>9 DEF Types, K, L
  <2>2. Place'
    <3>1. /\ state' # "magic" /\ file'.magic
      BY <1>1, <1>5, <1>9 DEF Place
    <3>2. Headers' = H
      BY <1>5 DEF Headers, H
    <3>3. pos' + left' = Headers'[next' - 1] /\ Headers'[next' - 2] < file'.length
      BY <1>2, <1>5, <1>7, <3>2 DEF L
    <3> QED
      BY <3>1, <3>3 DEF Place
  <2>3. Verdict'
    BY <1>1, <1>5 DEF Verdict, Errors
  <2> QED
    BY <1>9, <2>1, <2>2, <2>3 DEF Inv
<1> QED
  BY <1>2, <1>5, <1>8, <1>9 DEF K

\* What is read of a member that does not keep more than its header.
LEMMA HeaderRead ==
  ASSUME Inv, InMembers, ~Truncated, HeaderAt < file.length
  PROVE  /\ Member.size \in Nat /\ Padded(Member.size) \in Nat /\ Member.size <= Padded(Member.size)
         /\ BodyAt \in Nat /\ BodyAt <= file.length /\ file.length \in Nat
         /\ Member.stem = "control.tar" => ControlBody(Member.body)
<1>1. /\ Types /\ Place /\ state # "magic"
  BY DEF Inv, InMembers
<1>2. next \in 1 .. Len(file.members) /\ HeaderAt \in Nat
  BY <1>1, Position
<1>3. /\ file.length \in Nat /\ Member.size \in Nat
      /\ Member.stem = "control.tar" => ControlBody(Member.body)
  BY <1>1, <1>2, FileFacts DEF Types, Member
<1>4. ~(HeaderAt + ArHeader > file.length)
  BY DEF Truncated
<1>5. ArHeader \in Nat
  BY DEF ArHeader
<1> HIDE DEF ArHeader
<1>6. BodyAt \in Nat /\ BodyAt <= file.length
  BY <1>2, <1>3, <1>4, <1>5 DEF BodyAt
<1> QED
  BY <1>3, <1>6, Padding

\* What is ahead of the reader in a well-formed file.
LEMMA WellFormedAhead ==
  ASSUME Inv, InMembers, WellFormed(file)
  PROVE  /\ ~Truncated
         /\ HeaderAt < file.length =>
              /\ Member.valid /\ BodyComplete
              /\ state = "debian-binary" => GoodBinary(Member)
              /\ state = "control.tar" => Member.stem = "_" \/ GoodControlMember(Member)
              /\ state = "data.tar" => Member.stem \in {"_", "data.tar"}
         /\ HeaderAt >= file.length => state \notin {"debian-binary", "control.tar", "data.tar"}
         /\ state = "trailer" => Parses(control)
<1> DEFINE K == Len(file.members)
           H == HeaderOffsets(file.members)
<1>1. /\ Types /\ Place /\ Seen /\ state # "magic" /\ file \in Files
  BY DEF Inv, InMembers, Types
<1>2. PICK n \in 0 .. K : file.length = H[n] /\ PackageUpTo(file.members, n)
  BY <1>1, WellFormedPrefix
<1>3. /\ HeaderAt = H[next - 1] /\ HeaderAt \in Nat
      /\ HeaderAt < file.length => next \in 1 .. K /\ n >= next
      /\ ~Truncated
      /\ HeaderAt >= file.length => n = next - 1
  BY <1>1, <1>2, Position DEF Headers
<1>4. /\ K \in Nat /\ \A k \in 0 .. K : H[k] \in Nat
      /\ \A k \in 1 .. K : H[k] = H[k - 1] + ArHeader + Padded(file.members[k].size)
      /\ \A k \in 1 .. K : file.members[k].size \in Nat
      /\ \A k \in 0 .. K, m \in 0 .. K : m < k => H[m] + ArHeader <= H[k]
  BY <1>1, FileFacts
<1>5. ASSUME HeaderAt < file.length
      PROVE  Member.valid /\ BodyComplete
  <2>1. next \in 1 .. K /\ n >= next /\ Member.valid
    BY <1>1, <1>2, <1>3, <1>5, Stages DEF Member
  <2>2. Member.size \in Nat /\ H[next] = HeaderAt + ArHeader + Padded(Member.size)
    BY <1>3, <1>4, <2>1 DEF Member
  <2>3. ArHeader \in Nat
    BY DEF ArHeader
  <2>4. H[next] <= file.length /\ H[next] \in Nat /\ file.length \in Nat
    <3> HIDE DEF K, H, ArHeader
    <3>1. next \in 0 .. K /\ H[next] \in Nat /\ H[n] \in Nat
      BY <1>4, <2>1
    <3>2. CASE n = next
      BY <1>2, <3>1, <3>2
    <3>3. CASE n # next
      <4>1. next < n
        BY <1>4, <2>1, <3>3
      <4>2. H[next] + ArHeader <= H[n]
        BY <1>4, <3>1, <4>1
      <4> QED
        BY <1>2, <2>3, <3>1, <4>2
    <3> QED
      BY <3>2, <3>3
  <2>5. Padded(Member.size) \in Nat /\ Member.size <= Padded(Member.size)
    BY <2>2, Padding
  <2>6. HeaderAt + ArHeader + Member.size <= file.length
    <3> HIDE DEF H, ArHeader
    <3> QED
      BY <1>3, <2>2, <2>3, <2>4, <2>5
  <2> QED
    BY <2>1, <2>6 DEF BodyComplete, BodyAt
<1>6. HeaderAt < file.length =>
        /\ state = "debian-binary" => GoodBinary(Member)
        /\ state = "control.tar" => Member.stem = "_" \/ GoodControlMember(Member)
        /\ state = "data.tar" => Member.stem \in {"_", "data.tar"}
  BY <1>1, <1>2, <1>3, Stages DEF Member
<1>7. HeaderAt >= file.length => state \notin {"debian-binary", "control.tar", "data.tar"}
  <2> SUFFICES ASSUME HeaderAt >= file.length, state = "debian-binary"
               PROVE  FALSE
    BY <1>1, <1>2, <1>3, Stages
  <2>1. n >= 1 /\ next = 1 /\ n = next - 1
    BY <1>1, <1>2, <1>3, Stages
  <2> QED
    BY <2>1
<1>8. state = "trailer" => Parses(control)
  BY <1>1, <1>2, Stages
<1> QED
  BY <1>3, <1>5, <1>6, <1>7, <1>8

-----------------------------------------------------------------------------
(* The steps.                                                              *)

LEMMA ReadMagicKeeps ==
  ASSUME Inv, ReadMagic
  PROVE  Inv'
<1>1. /\ Types /\ Place /\ Seen /\ Verdict /\ file \in Files
      /\ result = "reading" /\ state = "magic"
  BY DEF Inv, ReadMagic, Types
<1>2. /\ Headers[0] = ArMagic /\ file.length \in Nat /\ Len(file.members) \in Nat
      /\ \A n \in 0 .. Len(file.members) : Headers[n] \in Nat /\ Headers[n] >= ArMagic
  BY <1>1, FileFacts DEF Headers
<1>3. CASE (file.length < ArMagic \/ ~file.magic) /\ Fails("format")
  <2>1. WellFormed(file) => FALSE
    <3> SUFFICES ASSUME WellFormed(file)
                 PROVE  FALSE
      OBVIOUS
    <3>1. file.magic
      BY DEF WellFormed
    <3>2. PICK n \in 0 .. Len(file.members) : file.length = Headers[n]
      BY DEF WellFormed, Headers
    <3>3. Headers[n] \in Nat /\ Headers[n] >= ArMagic
      BY <1>2
    <3> QED
      BY <1>3, <3>1, <3>2, <3>3 DEF ArMagic
  <2> QED
    BY <1>1, <1>3, <2>1, FailsKeeps DEF Errors
<1>4. CASE /\ file.length >= ArMagic /\ file.magic
           /\ pos' = ArMagic /\ state' = "debian-binary"
           /\ UNCHANGED <<file, left, next, control, result, pack>>
  <2>1. left = 0 /\ next = 1
    BY <1>1 DEF Place
  <2>2. Types'
    BY <1>1, <1>2, <1>4, <2>1 DEF Types, ArMagic
  <2>3. Place'
    BY <1>2, <1>4, <2>1 DEF Place, Headers, ArMagic
  <2>4. Seen'
    BY <1>1, <1>4, <2>1 DEF Seen
  <2>5. Verdict'
    BY <1>1, <1>4 DEF Verdict, Errors
  <2> QED
    BY <2>2, <2>3, <2>4, <2>5 DEF Inv
<1> QED
  BY <1>3, <1>4 DEF ReadMagic

LEMMA BadArchiveKeeps ==
  ASSUME Inv, BadArchive
  PROVE  Inv'
<1>1. InMembers /\ Fails("format")
      /\ (Truncated \/ (~Truncated /\ HeaderAt < file.length /\ ~Member.valid))
  BY DEF BadArchive, Member
<1>2. ~WellFormed(file)
  BY <1>1, WellFormedAhead
<1> QED
  BY <1>1, <1>2, FailsKeeps DEF Errors

LEMMA DebianBinaryKeeps ==
  ASSUME Inv, DebianBinary
  PROVE  Inv'
<1>1. /\ InMembers /\ state = "debian-binary"
      /\ ~Truncated /\ HeaderAt < file.length /\ Member.valid
  BY DEF DebianBinary, AtMember, Member
<1>2. \/ ~(GoodBinary(Member) /\ BodyComplete) /\ Fails("format")
      \/ /\ GoodBinary(Member) /\ BodyComplete
         /\ Advance(Member.size) /\ state' = "control.tar" /\ UNCHANGED control
  BY DEF DebianBinary, GoodBinary
<1>3. CASE ~(GoodBinary(Member) /\ BodyComplete) /\ Fails("format")
  <2>1. ~WellFormed(file)
    BY <1>1, <1>3, WellFormedAhead
  <2> QED
    BY <1>3, <2>1, FailsKeeps DEF Errors
<1>4. CASE /\ GoodBinary(Member) /\ BodyComplete
           /\ Advance(Member.size) /\ state' = "control.tar" /\ UNCHANGED control
  <2>1. /\ Member.size \in Nat /\ Member.size <= Padded(Member.size)
        /\ BodyAt + Member.size <= file.length
    BY <1>1, <1>4, HeaderRead DEF BodyComplete
  <2>2. /\ file' = file /\ next' = next + 1
        /\ \A n \in 1 .. next' - 1 : file'.members[n].valid
        /\ state' \in {"control.tar", "data.tar", "trailer"} /\ Seen' => Inv'
    BY <1>1, <1>4, <2>1, MemberRead
  <2>3. next = 1
    BY <1>1 DEF Inv, Seen
  <2>4. Seen'
    BY <1>4, <2>2, <2>3 DEF Seen, Skipped, Member
  <2> QED
    BY <1>4, <2>2, <2>4
<1> QED
  BY <1>2, <1>3, <1>4

LEMMA UnexpectedKeeps ==
  ASSUME Inv, Unexpected
  PROVE  Inv'
<1>1. PICK s \in {"control.tar", "data.tar"} :
        /\ InMembers /\ state = s /\ ~Truncated /\ HeaderAt < file.length
        /\ Member.stem \notin {"_", s} /\ Fails("format")
  BY DEF Unexpected, AtMember
<1>2. ~WellFormed(file)
  BY <1>1, WellFormedAhead DEF GoodControlMember
<1> QED
  BY <1>1, <1>2, FailsKeeps DEF Errors

\* A member of which only the header is read.
LEMMA HeaderOnly ==
  ASSUME Inv, InMembers, ~Truncated, HeaderAt < file.length, Member.valid, Advance(0)
  PROVE  /\ next \in Nat /\ file' = file /\ next' = next + 1
         /\ \A n \in 1 .. next' - 1 : file'.members[n].valid
         /\ state' \in {"control.tar", "data.tar", "trailer"} /\ Seen' => Inv'
<1>1. 0 \in Nat /\ 0 <= Padded(Member.size) /\ BodyAt + 0 <= file.length
  BY HeaderRead
<1>2. /\ next \in 1 .. Len(file.members) /\ file' = file /\ next' = next + 1
      /\ \A n \in 1 .. next' - 1 : file'.members[n].valid
      /\ state' \in {"control.tar", "data.tar", "trailer"} /\ Seen' => Inv'
  BY <1>1, MemberRead
<1>3. Len(file.members) \in Nat
  BY FileFacts DEF Inv, Types
<1>4. next \in Nat
  BY <1>2, <1>3
<1> QED
  BY <1>2, <1>4

LEMMA SkipKeeps ==
  ASSUME Inv, Skip
  PROVE  Inv'
<1>1. /\ InMembers /\ ~Truncated /\ HeaderAt < file.length /\ Member.valid /\ Advance(0)
      /\ state \in {"control.tar", "data.tar"} /\ Member.stem = "_"
      /\ state' = state /\ control' = control
  BY DEF Skip, AtMember, Member
<1>2. /\ next \in Nat /\ file' = file /\ next' = next + 1 /\ Seen
      /\ \A n \in 1 .. next' - 1 : file'.members[n].valid
      /\ state' \in {"control.tar", "data.tar", "trailer"} /\ Seen' => Inv'
  BY <1>1, HeaderOnly DEF Inv
<1>3. next > 1 /\ GoodBinary(file.members[1])
  BY <1>1, <1>2 DEF Seen
<1>4. next' - 1 = next /\ next' > 1 /\ state' \in {"control.tar", "data.tar"}
  <2>1. next' - 1 = next /\ next' > 1
    BY <1>2, <1>3
  <2> QED
    BY <1>1, <2>1
<1>5. ASSUME state' = "control.tar"
      PROVE  \A n \in 2 .. next : file.members[n].stem = "_"
  <2>1. \A n \in 2 .. next - 1 : file.members[n].stem = "_"
    BY <1>1, <1>2, <1>5 DEF Seen, Skipped
  <2>2. \A n \in 2 .. next : n = next \/ n \in 2 .. next - 1
    BY <1>2
  <2> QED
    BY <1>1, <2>1, <2>2 DEF Member
<1>6. ASSUME state' = "data.tar"
      PROVE  \E c \in 2 .. next : ControlAt(c) /\ Skipped(2, c - 1) /\ Skipped(c + 1, next)
  <2>1. PICK c \in 2 .. next - 1 : ControlAt(c) /\ Skipped(2, c - 1) /\ Skipped(c + 1, next - 1)
    BY <1>1, <1>2, <1>6 DEF Seen
  <2>2. c \in 2 .. next /\ \A n \in c + 1 .. next : n = next \/ n \in c + 1 .. next - 1
    BY <1>2
  <2>3. Skipped(c + 1, next)
    BY <1>1, <2>1, <2>2 DEF Skipped, Member
  <2> QED
    BY <2>1, <2>2, <2>3
<1>7. Seen'
  <2>1. state' = "control.tar" => Skipped(2, next - 1)'
    BY <1>2, <1>4, <1>5 DEF Skipped
  <2>2. ASSUME state' = "data.tar"
        PROVE  \E c \in 2 .. next' - 1 :
                 ControlAt(c)' /\ Skipped(2, c - 1)' /\ Skipped(c + 1, next - 1)'
    <3>1. PICK c \in 2 .. next : ControlAt(c) /\ Skipped(2, c - 1) /\ Skipped(c + 1, next)
      BY <1>6, <2>2
    <3>2. ControlAt(c)'
      BY <1>1, <1>2, <3>1 DEF ControlAt
    <3>3. Skipped(2, c - 1)' /\ Skipped(c + 1, next - 1)'
      BY <1>2, <1>4, <3>1 DEF Skipped
    <3> QED
      BY <1>4, <3>1, <3>2, <3>3
  <2>3. state' # "debian-binary" /\ state' # "trailer" /\ GoodBinary(file'.members[1])
    BY <1>2, <1>3, <1>4
  <2> QED
    BY <1>2, <1>4, <2>1, <2>2, <2>3 DEF Seen
<1> QED
  BY <1>1, <1>2, <1>7

LEMMA DataArchiveKeeps ==
  ASSUME Inv, DataArchive
  PROVE  Inv'
<1>1. /\ InMembers /\ ~Truncated /\ HeaderAt < file.length /\ Member.valid /\ Advance(0)
      /\ state = "data.tar" /\ Member.stem = "data.tar"
      /\ state' = "trailer" /\ control' = control
  BY DEF DataArchive, AtMember, Member
<1>2. /\ next \in Nat /\ file' = file /\ next' = next + 1 /\ Seen
      /\ \A n \in 1 .. next' - 1 : file'.members[n].valid
      /\ state' \in {"control.tar", "data.tar", "trailer"} /\ Seen' => Inv'
  BY <1>1, HeaderOnly DEF Inv
<1>3. next > 1 /\ GoodBinary(file.members[1])
  BY <1>1, <1>2 DEF Seen
<1>4. PICK c \in 2 .. next - 1 : ControlAt(c) /\ Skipped(2, c - 1) /\ Skipped(c + 1, next - 1)
  BY <1>1, <1>2 DEF Seen
<1> PICK d \in Nat : d = next
  BY <1>2
<1>5. /\ c \in 2 .. next' - 1 /\ d \in 2 .. next' - 1 /\ c < d /\ next' > 1
  BY <1>2, <1>3
<1>6. /\ ControlAt(c)' /\ file'.members[d].stem = "data.tar"
      /\ Skipped(2, c - 1)' /\ Skipped(c + 1, d - 1)'
  <2>1. ControlAt(c)'
    BY <1>1, <1>2, <1>4 DEF ControlAt
  <2>2. \A n \in 2 .. c - 1 : file'.members[n].stem = "_"
    BY <1>2, <1>4 DEF Skipped
  <2>3. \A n \in c + 1 .. d - 1 : file'.members[n].stem = "_"
    BY <1>2, <1>4 DEF Skipped
  <2> QED
    BY <1>1, <1>2, <2>1, <2>2, <2>3 DEF Skipped, Member
<1>7. Seen'
  <2>1. \E e, k \in 2 .. next' - 1 :
          /\ e < k /\ ControlAt(e)' /\ file'.members[k].stem = "data.tar"
          /\ Skipped(2, e - 1)' /\ Skipped(e + 1, k - 1)'
    BY <1>5, <1>6
  <2> QED
    BY <1>1, <1>2, <1>3, <1>5, <2>1 DEF Seen
<1> QED
  BY <1>1, <1>2, <1>7

LEMMA TrailingMemberKeeps ==
  ASSUME Inv, TrailingMember
  PROVE  Inv'
<1>1. /\ InMembers /\ ~Truncated /\ HeaderAt < file.length /\ Member.valid /\ Advance(0)
      /\ state = "trailer" /\ state' = state /\ control' = control
  BY DEF TrailingMember, AtMember, Member
<1>2. /\ next \in Nat /\ file' = file /\ next' = next + 1 /\ Seen
      /\ \A n \in 1 .. next' - 1 : file'.members[n].valid
      /\ state' \in {"control.tar", "data.tar", "trailer"} /\ Seen' => Inv'
  BY <1>1, HeaderOnly DEF Inv
<1>3. next > 1 /\ GoodBinary(file.members[1])
  BY <1>1, <1>2 DEF Seen
<1>4. PICK c \in 2 .. next - 1, d \in 2 .. next - 1 :
        /\ c < d /\ ControlAt(c) /\ file.members[d].stem = "data.tar"
        /\ Skipped(2, c - 1) /\ Skipped(c + 1, d - 1)
  BY <1>1, <1>2 DEF Seen
<1>5. c \in 2 .. next' - 1 /\ d \in 2 .. next' - 1 /\ next' > 1
  BY <1>2, <1>3
<1>6. /\ ControlAt(c)' /\ Skipped(2, c - 1)' /\ Skipped(c + 1, d - 1)'
  <2>1. ControlAt(c)'
    BY <1>1, <1>2, <1>4 DEF ControlAt
  <2>2. \A n \in 2 .. c - 1 : file'.members[n].stem = "_"
    BY <1>2, <1>4 DEF Skipped
  <2>3. \A n \in c + 1 .. d - 1 : file'.members[n].stem = "_"
    BY <1>2, <1>4 DEF Skipped
  <2> QED
    BY <2>1, <2>2, <2>3 DEF Skipped
<1>7. Seen'
  <2>1. \E e, k \in 2 .. next' - 1 :
          /\ e < k /\ ControlAt(e)' /\ file'.members[k].stem = "data.tar"
          /\ Skipped(2, e - 1)' /\ Skipped(e + 1, k - 1)'
    BY <1>2, <1>4, <1>5, <1>6
  <2> QED
    BY <1>1, <1>2, <1>3, <1>5, <2>1 DEF Seen
<1> QED
  BY <1>1, <1>2, <1>7

LEMMA ControlArchiveKeeps ==
  ASSUME Inv, ControlArchive
  PROVE  Inv'
<1> DEFINE tar == ReadControlTar(Member.body)
           there == IF BodyComplete THEN Member.size ELSE file.length - BodyAt
<1>1. /\ InMembers /\ ~Truncated /\ HeaderAt < file.length /\ Member.valid
      /\ state = "control.tar" /\ Member.stem = "control.tar"
  BY DEF ControlArchive, AtMember, Member
<1>2. /\ Member.size \in Nat /\ Padded(Member.size) \in Nat /\ Member.size <= Padded(Member.size)
      /\ BodyAt \in Nat /\ BodyAt <= file.length /\ file.length \in Nat
      /\ ControlBody(Member.body)
  BY <1>1, HeaderRead
<1>3. /\ tar.result \in {"reading", "format", "too large", "missing"}
      /\ tar.result = "reading" <=> GoodControl(Member.body)
      /\ tar.result = "reading" => tar.text = ControlText(Member.body)
  BY <1>2, ReadsControl
<1>4. WellFormed(file) => GoodControlMember(Member) /\ BodyComplete
  BY <1>1, WellFormedAhead
<1>5. \/ Member.suffix \notin Compressions /\ Fails("unsupported")
      \/ tar.result # "reading" /\ Fails(tar.result)
      \/ ~BodyComplete /\ Fails("format")
      \/ /\ Member.suffix \in Compressions /\ tar.result = "reading"
         /\ \E consumed \in {there - 1, there} \cap Nat : Advance(consumed)
         /\ state' = "data.tar" /\ control' = tar.text
  BY DEF ControlArchive
<1> HIDE DEF tar, there
<1>6. CASE Member.suffix \notin Compressions /\ Fails("unsupported")
  <2>1. ~WellFormed(file)
    BY <1>4, <1>6 DEF GoodControlMember
  <2> QED
    BY <1>6, <2>1, FailsKeeps DEF Errors
<1>7. CASE tar.result # "reading" /\ Fails(tar.result)
  <2>1. ~WellFormed(file)
    BY <1>3, <1>4, <1>7 DEF GoodControlMember
  <2> DEFINE kind == tar.result
  <2>2. kind \in Errors
    BY <1>3, <1>7 DEF Errors
  <2>3. Fails(kind) /\ kind # "nameless"
    BY <1>3, <1>7
  <2> HIDE DEF kind
  <2> QED
    BY <2>1, <2>2, <2>3, FailsKeeps
<1>8. CASE ~BodyComplete /\ Fails("format")
  <2>1. ~WellFormed(file)
    BY <1>4, <1>8
  <2> QED
    BY <1>8, <2>1, FailsKeeps DEF Errors
<1>9. CASE /\ Member.suffix \in Compressions /\ tar.result = "reading"
           /\ \E consumed \in {there - 1, there} \cap Nat : Advance(consumed)
           /\ state' = "data.tar" /\ control' = tar.text
  <2>1. PICK consumed \in {there - 1, there} \cap Nat : Advance(consumed)
    BY <1>9
  <2>2. there \in Nat /\ there <= Padded(Member.size) /\ BodyAt + there <= file.length
    <3>1. CASE BodyComplete
      BY <1>2, <3>1 DEF BodyComplete, there
    <3>2. CASE ~BodyComplete
      <4>1. there = file.length - BodyAt /\ ~(BodyAt + Member.size <= file.length)
        BY <3>2 DEF BodyComplete, there
      <4> QED
        BY <1>2, <4>1
    <3> QED
      BY <3>1, <3>2
  <2>3. consumed \in Nat /\ consumed <= Padded(Member.size) /\ BodyAt + consumed <= file.length
    BY <1>2, <2>2
  <2>4. /\ next \in 1 .. Len(file.members) /\ file' = file /\ next' = next + 1 /\ Seen
        /\ \A n \in 1 .. next' - 1 : file'.members[n].valid
        /\ state' \in {"control.tar", "data.tar", "trailer"} /\ Seen' => Inv'
    BY <1>1, <2>1, <2>3, MemberRead DEF Inv
  <2>5. next > 1 /\ GoodBinary(file.members[1]) /\ Skipped(2, next - 1) /\ next \in Nat
    <3>1. Len(file.members) \in Nat
      BY FileFacts DEF Inv, Types
    <3> QED
      BY <1>1, <2>4, <3>1 DEF Seen
  <2> PICK c \in Nat : c = next
    BY <2>5
  <2>6. c \in 2 .. next' - 1 /\ next' > 1 /\ next' - 1 = c
    BY <2>4, <2>5
  <2>7. ControlAt(c)'
    <3>1. GoodControl(Member.body) /\ control' = ControlText(Member.body)
      BY <1>3, <1>9
    <3> QED
      BY <1>1, <1>9, <2>4, <3>1 DEF ControlAt, Member
  <2>8. Skipped(2, c - 1)' /\ Skipped(c + 1, next - 1)'
    <3>1. \A n \in 2 .. c - 1 : file'.members[n].stem = "_"
      BY <2>4, <2>5 DEF Skipped
    <3>2. c + 1 .. next' - 1 = {}
      BY <2>6
    <3> QED
      BY <3>1, <3>2 DEF Skipped
  <2>9. Seen'
    <3>1. \E e \in 2 .. next' - 1 :
            ControlAt(e)' /\ Skipped(2, e - 1)' /\ Skipped(e + 1, next - 1)'
      BY <2>6, <2>7, <2>8
    <3>2. GoodBinary(file'.members[1])
      BY <2>4, <2>5
    <3> QED
      BY <1>9, <2>4, <2>6, <3>1, <3>2 DEF Seen
  <2> QED
    BY <1>9, <2>4, <2>9
<1> QED
  BY <1>5, <1>6, <1>7, <1>8, <1>9

LEMMA EndOfArchiveKeeps ==
  ASSUME Inv, EndOfArchive
  PROVE  Inv'
<1>1. /\ InMembers /\ ~Truncated /\ HeaderAt >= file.length
      /\ Types /\ Place /\ Seen /\ Verdict /\ result = "reading" /\ state # "magic"
  BY DEF EndOfArchive, Inv, InMembers
<1>2. CASE state = "debian-binary" /\ Fails("format")
  <2>1. ~WellFormed(file)
    BY <1>1, <1>2, WellFormedAhead
  <2> QED
    BY <1>2, <2>1, FailsKeeps DEF Errors
<1>3. CASE state \in {"control.tar", "data.tar"} /\ Fails("missing")
  <2>1. ~WellFormed(file)
    BY <1>1, <1>3, WellFormedAhead
  <2> QED
    BY <1>3, <2>1, FailsKeeps DEF Errors
<1>4. CASE state = "trailer" /\ ~Parses(control) /\ Fails("unparsed")
  <2>1. ~WellFormed(file)
    BY <1>1, <1>4, WellFormedAhead
  <2> QED
    BY <1>4, <2>1, FailsKeeps DEF Errors
<1>5. CASE /\ state = "trailer" /\ Parses(control)
           /\ result' = "accepted" /\ pos' = HeaderAt /\ left' = 0
           /\ UNCHANGED <<file, next, state, control>>
  <2>1. HeaderAt \in Nat /\ HeaderAt = Headers[next - 1] /\ file.length \in Nat
    BY <1>1, Position, FileFacts DEF Types
  <2>2. HeaderAt = file.length
    <3>1. ~(HeaderAt > file.length)
      BY <1>1 DEF Truncated
    <3> QED
      BY <1>1, <2>1, <3>1
  <2>3. Types'
    BY <1>1, <1>5, <2>1, <2>2 DEF Types
  <2>4. Place'
    <3>1. pos' + left' = Headers[next - 1]
      BY <1>5, <2>1
    <3> QED
      BY <1>1, <1>5, <3>1 DEF Place, Headers
  <2>5. Seen'
    BY <1>1, <1>5, ZenonT(30) DEF Seen, ControlAt, Skipped
  <2>6. Verdict'
    <3>1. pos' + left' = file'.length
      BY <1>5, <2>1, <2>2
    <3> QED
      BY <1>5, <3>1 DEF Verdict, Errors
  <2> QED
    BY <2>3, <2>4, <2>5, <2>6 DEF Inv
<1> QED
  BY <1>2, <1>3, <1>4, <1>5 DEF EndOfArchive

LEMMA InvInit ==
  ASSUME IntakeInit
  PROVE  Inv
<1>1. /\ file \in Files /\ pos = 0 /\ left = 0 /\ next = 1 /\ state = "magic" /\ result = "reading"
  BY DEF IntakeInit, Init
<1>2. file.length \in Nat /\ Len(file.members) \in Nat
  BY <1>1, FileFacts
<1>3. Types
  BY <1>1, <1>2 DEF Types
<1>4. Place
  BY <1>1 DEF Place
<1>5. Seen
  BY <1>1 DEF Seen
<1>6. Verdict
  BY <1>1 DEF Verdict, Errors
<1> QED
  BY <1>3, <1>4, <1>5, <1>6 DEF Inv

LEMMA InvStep ==
  ASSUME Inv, [Next]_vars
  PROVE  Inv'
<1>1. CASE Read
  <2>1. CASE Cancelled
    <3>1. PICK kind \in {"cancelled", "not opened"} : Fails(kind)
      BY <2>1 DEF Cancelled
    <3> QED
      BY <3>1, FailsKeeps DEF Errors
  <2> QED
    BY <1>1, <2>1, ReadMagicKeeps, BadArchiveKeeps, DebianBinaryKeeps, SkipKeeps, UnexpectedKeeps,
       ControlArchiveKeeps, DataArchiveKeeps, TrailingMemberKeeps, EndOfArchiveKeeps DEF Read
<1>2. CASE UNCHANGED readerVars
  <2>1. UNCHANGED <<file, pos, left, next, state, control, result>>
    BY <1>2 DEF readerVars
  <2>2. Types' /\ Place'
    BY <2>1 DEF Inv, Types, Place, Headers
  <2>3. Seen'
    BY <2>1, ZenonT(30) DEF Inv, Seen, ControlAt, Skipped
  <2>4. Verdict'
    BY <2>1 DEF Inv, Verdict
  <2> QED
    BY <2>2, <2>3, <2>4 DEF Inv
<1>3. CASE Publish
  <2>1. CASE Fails("nameless")
    <3>1. result = "accepted"
      BY <1>3 DEF Publish
    <3> QED
      BY <2>1, <3>1, FailsKeeps DEF Errors
  <2> QED
    BY <1>2, <1>3, <2>1 DEF Publish
<1> QED
  BY <1>1, <1>2, <1>3 DEF Next, Republish, Unreadable, Rejected, vars

\* Only the reader that has come to the end of a package has one, and only what it
\* has accepted is published.
Held ==
  /\ pack # Absent <=> result \in {"accepted", "nameless"}
  /\ entry # Absent => result = "accepted"

LEMMA HeldStep ==
  ASSUME Inv, Inv', Held, [Next]_vars, \A lines, read : Inspected(lines, read) # Absent
  PROVE  Held'
<1>1. CASE Read /\ UNCHANGED entry
  <2>1. result = "reading" /\ pack = Absent /\ entry = Absent /\ entry' = Absent
    BY <1>1 DEF Held, Read, ReadMagic, BadArchive, DebianBinary, Skip, Unexpected, ControlArchive,
       DataArchive, TrailingMember, EndOfArchive, Cancelled, AtMember, InMembers
  <2>2. \A kind : Fails(kind) => result' = kind /\ pack' = Absent /\ state' = state
    BY <2>1 DEF Fails
  <2>3. \A n : Advance(n) => result' = "reading" /\ pack' = Absent
    BY <2>1 DEF Advance
  <2>4. CASE ReadMagic
    BY <2>1, <2>2, <2>4 DEF ReadMagic, Held
  <2>5. CASE BadArchive
    BY <2>1, <2>2, <2>5 DEF BadArchive, Held
  <2>6. CASE DebianBinary
    BY <2>1, <2>2, <2>3, <2>6 DEF DebianBinary, Held
  <2>7. CASE Skip \/ DataArchive \/ TrailingMember
    BY <2>1, <2>3, <2>7 DEF Skip, DataArchive, TrailingMember, Held
  <2>8. CASE Unexpected
    <3>1. Fails("format")
      BY <2>8 DEF Unexpected
    <3> QED
      BY <2>1, <2>2, <3>1 DEF Held
  <2>9. CASE ControlArchive
    <3>1. state = "control.tar"
      BY <2>9 DEF ControlArchive, AtMember
    <3>2. \/ \E n : Advance(n)
          \/ \E kind : Fails(kind)
      BY <2>9 DEF ControlArchive
    <3>3. CASE \E n : Advance(n)
      BY <2>1, <2>3, <3>3 DEF Held
    <3>4. CASE \E kind : Fails(kind)
      <4>1. pack' = Absent /\ state' # "trailer"
        BY <2>2, <3>1, <3>4
      <4>2. result' \notin {"accepted", "nameless"}
        BY <4>1 DEF Inv, Verdict
      <4> QED
        BY <2>1, <4>1, <4>2 DEF Held
    <3> QED
      BY <3>2, <3>3, <3>4
  <2>10. CASE EndOfArchive
    <3>1. CASE \E kind \in {"format", "missing", "unparsed"} : Fails(kind)
      BY <2>1, <2>2, <3>1 DEF Held
    <3>2. CASE result' = "accepted" /\ pack' = Inspected(control, HeaderAt)
      BY <2>1, <3>2 DEF Held
    <3> QED
      BY <2>10, <3>1, <3>2 DEF EndOfArchive
  <2>11. CASE Cancelled
    <3>1. PICK kind \in {"cancelled", "not opened"} : Fails(kind)
      BY <2>11 DEF Cancelled
    <3> QED
      BY <2>1, <2>2, <3>1 DEF Held
  <2> QED
    BY <1>1, <2>4, <2>5, <2>6, <2>7, <2>8, <2>9, <2>10, <2>11 DEF Read
<1>2. CASE Publish
  BY <1>2 DEF Publish, Held, Fails, readerVars
<1>3. CASE Republish
  BY <1>3 DEF Republish, Held, readerVars
<1>4. CASE UNCHANGED vars
  BY <1>4 DEF vars, readerVars, Held
<1> QED
  BY <1>1, <1>2, <1>3, <1>4 DEF Next, Rejected, Unreadable

\* The reader stays within the file and its members, whatever their number and
\* sizes, and has a package exactly when it has accepted one, given that Absent is
\* not a package.
THEOREM AlwaysTyped ==
  ASSUME \A lines, read : Inspected(lines, read) # Absent
  PROVE  Spec => []TypeOK
<1>1. IntakeInit => Inv /\ Held
  <2>1. IntakeInit => Held
    BY DEF IntakeInit, Init, Held
  <2> QED
    BY <2>1, InvInit
<1>2. Inv /\ Held /\ [Next]_vars => (Inv /\ Held)'
  BY InvStep, HeldStep
<1>3. Inv /\ Held => TypeOK
  BY DEF Inv, Types, Held, TypeOK
<1> QED
  BY <1>1, <1>2, <1>3, PTL DEF Spec

\* ReadPackage, for files of any members, names and entries and any limits: what
\* it accepts is a package to its last byte, and it reports an error for no file
\* that is one.
THEOREM AlwaysAcceptsWellFormed == Spec => []AcceptsWellFormed
<1>1. IntakeInit => Inv
  BY InvInit
<1>2. Inv /\ [Next]_vars => Inv'
  BY InvStep
<1>3. Inv => AcceptsWellFormed
  <2> SUFFICES ASSUME Inv
               PROVE  AcceptsWellFormed
    OBVIOUS
  <2>1. WellFormed(file) => result \notin Errors
    BY DEF Inv, Verdict
  <2>2. ASSUME result \in {"accepted", "nameless"}
        PROVE  WellFormed(file)
    <3>1. /\ Types /\ Place /\ Seen /\ file \in Files
          /\ state = "trailer" /\ pos + left = file.length /\ Parses(control)
      BY <2>2 DEF Inv, Verdict, Types
    <3>2. next - 1 \in 0 .. Len(file.members) /\ file.magic
          /\ file.length = HeaderOffsets(file.members)[next - 1]
      BY <3>1, Position DEF Place, Headers
    <3>3. /\ next > 1 /\ GoodBinary(file.members[1])
          /\ \A n \in 1 .. next - 1 : file.members[n].valid
      BY <3>1 DEF Seen
    <3>4. PICK c \in 2 .. next - 1, d \in 2 .. next - 1 :
            /\ c < d /\ ControlAt(c) /\ file.members[d].stem = "data.tar"
            /\ Skipped(2, c - 1) /\ Skipped(c + 1, d - 1)
      BY <3>1 DEF Seen
    <3>5. Len(file.members) \in Nat /\ next \in Nat
      <4>1. Len(file.members) \in Nat
        BY <3>1, FileFacts
      <4> QED
        <5>1. next \in 1 .. Len(file.members) + 1
          BY <3>1 DEF Types
        <5> QED
          BY <4>1, <5>1
    <3>6. \A k \in 2 .. d - 1 : k # c => file.members[k].stem = "_"
      <4>1. \A k \in 2 .. d - 1 : k = c \/ k \in 2 .. c - 1 \/ k \in c + 1 .. d - 1
        BY <3>4, <3>5
      <4> QED
        BY <3>4, <4>1 DEF Skipped
    <3>7. GoodControlMember(file.members[c])
      BY <3>1, <3>4 DEF ControlAt, GoodControlMember
    <3>8. next - 1 >= 1
      BY <3>3, <3>5
    <3>9. PackageUpTo(file.members, next - 1)
      BY <3>3, <3>4, <3>6, <3>7, <3>8 DEF PackageUpTo
    <3> QED
      BY <3>1, <3>2, <3>9, WellFormedPrefix
  <2> QED
    BY <2>1, <2>2 DEF AcceptsWellFormed
<1> QED
  BY <1>1, <1>2, <1>3, PTL DEF Spec

-----------------------------------------------------------------------------
(* Versions, part by part.                                                 *)

LEMMA SamePrefix ==
  ASSUME NEW v \in Seq(Nat), NEW w \in Seq(Nat), NEW n \in Nat, n <= Len(v), n <= Len(w)
  PROVE  SubSeq(v, 1, n) = SubSeq(w, 1, n) <=> \A k \in 1 .. n : v[k] = w[k]
<1>1. ASSUME NEW u \in Seq(Nat), n <= Len(u)
      PROVE  /\ SubSeq(u, 1, n) \in Seq(Nat)
             /\ Len(SubSeq(u, 1, n)) = n
             /\ \A k \in 1 .. n : SubSeq(u, 1, n)[k] = u[k]
  <2>1. \A k \in 1 .. n : u[k] \in Nat
    BY <1>1
  <2> QED
    BY <2>1, SubSeqProperties
<1> DEFINE a == SubSeq(v, 1, n)
           b == SubSeq(w, 1, n)
<1>2. /\ a \in Seq(Nat) /\ Len(a) = n /\ \A k \in 1 .. n : a[k] = v[k]
      /\ b \in Seq(Nat) /\ Len(b) = n /\ \A k \in 1 .. n : b[k] = w[k]
  BY <1>1
<1> HIDE DEF a, b
<1>3. a = b <=> \A k \in 1 .. n : v[k] = w[k]
  BY <1>2, SeqEqual
<1> QED
  BY <1>3 DEF a, b

\* Below, for a version that has a part for each of the other.
LEMMA BelowByParts ==
  ASSUME NEW v \in Seq(Nat), NEW w \in Seq(Nat), Len(w) <= Len(v)
  PROVE  Below(v, w) <=>
           \E n \in 1 .. Len(w) : v[n] < w[n] /\ \A k \in 1 .. n - 1 : v[k] = w[k]
<1>1. \A n \in 1 .. Len(w) :
        SubSeq(v, 1, n - 1) = SubSeq(w, 1, n - 1) <=> \A k \in 1 .. n - 1 : v[k] = w[k]
  <2> TAKE n \in 1 .. Len(w)
  <2>1. n - 1 \in Nat /\ n - 1 <= Len(v) /\ n - 1 <= Len(w)
    OBVIOUS
  <2> QED
    BY <2>1, SamePrefix
<1>2. DOMAIN w = 1 .. Len(w) /\ \A n \in 1 .. Len(w) : n \in DOMAIN v /\ n <= Len(v) + 1
  OBVIOUS
<1> QED
  BY <1>1, <1>2 DEF Below

LEMMA UpperBoundByParts ==
  ASSUME NEW w \in Seq(Nat), Len(w) > 1
  PROVE  LET n == Len(w)
             upper == UpperBound(w)
         IN /\ upper \in Seq(Nat) /\ Len(upper) = n
            /\ upper[n] = 0 /\ upper[n - 1] = w[n - 1] + 1
            /\ \A k \in 1 .. n - 2 : upper[k] = w[k]
BY DEF UpperBound

-----------------------------------------------------------------------------
(* What normalizeDependency promises.                                      *)

\* normalizeDependency, for "~> 1.2.3" and every other version of two parts or
\* more: the relations that it puts in place of the dependency together admit,
\* of the versions with at least as many parts, exactly those from this one on
\* that begin with all its parts but the last.
THEOREM PessimisticBoundsOfEveryVersion ==
  ASSUME NEW d \in Dependencies(Seq(Nat)), d.op = "~>", Len(d.version) > 1,
         NEW v \in Seq(Nat), Len(v) >= Len(d.version)
  PROVE  LET n == Len(d.version) IN
         (\A r \in ToSet(Normalized(d).depends) : Admits(r, v))
           <=> ~Below(v, d.version) /\ SubSeq(v, 1, n - 1) = SubSeq(d.version, 1, n - 1)
<1> DEFINE w == d.version
           n == Len(w)
           upper == UpperBound(w)
<1>1. w \in Seq(Nat) /\ n \in Nat /\ Len(v) \in Nat
  BY DEF Dependencies
<1> DEFINE s == Spelled(d)
           lower == [s EXCEPT !.op = ">="]
           above == [s EXCEPT !.op = "<<", !.version = UpperBound(@)]
<1>2. /\ Normalized(d).depends = <<lower, above>>
      /\ lower.op = ">=" /\ lower.version = w
      /\ above.op = "<<" /\ above.version = upper
  <2>1. s.op = "~>"
    BY DEF Spelled, Debianized, Dependencies
  <2>2. Normalized(d).depends = <<lower, above>>
    BY <2>1, NormalizedForms
  <2>3. s \in Dependencies(Seq(Nat)) /\ s.version = w
    BY SpelledType
  <2> HIDE DEF s
  <2> QED
    BY <2>2, <2>3 DEF Dependencies
<1> HIDE DEF lower, above
<1>3. /\ upper \in Seq(Nat) /\ Len(upper) = n
      /\ upper[n] = 0 /\ upper[n - 1] = w[n - 1] + 1
      /\ \A k \in 1 .. n - 2 : upper[k] = w[k]
  BY <1>1, UpperBoundByParts
<1>4. (\A r \in ToSet(Normalized(d).depends) : Admits(r, v)) <=> ~Below(v, w) /\ Below(v, upper)
  <2>1. ToSet(<<lower, above>>) = {lower, above}
    BY DEF ToSet
  <2> QED
    BY <1>2, <2>1 DEF Admits
<1> HIDE DEF w, n, upper
<1>5. Below(v, w) <=> \E m \in 1 .. n : v[m] < w[m] /\ \A k \in 1 .. m - 1 : v[k] = w[k]
  BY <1>1, BelowByParts DEF w, n
<1>6. Below(v, upper) <=>
        \E m \in 1 .. n : v[m] < upper[m] /\ \A k \in 1 .. m - 1 : v[k] = upper[k]
  BY SMTT(20), <1>1, <1>3, BelowByParts DEF w, n
<1>7. SubSeq(v, 1, n - 1) = SubSeq(w, 1, n - 1) <=> \A k \in 1 .. n - 1 : v[k] = w[k]
  BY <1>1, SamePrefix DEF w, n
<1>8. \A k \in 1 .. n : v[k] \in Nat /\ w[k] \in Nat /\ upper[k] \in Nat
  <2>1. \A k \in 1 .. n : k \in 1 .. Len(v) /\ k \in 1 .. Len(w) /\ k \in 1 .. Len(upper)
    BY <1>1, <1>3 DEF n, w
  <2> QED
    BY <1>1, <1>3, <2>1, ElementOfSeq
<1>9. n > 1
  BY DEF n, w
<1>10. ASSUME ~Below(v, w), Below(v, upper)
       PROVE  \A k \in 1 .. n - 1 : v[k] = w[k]
  <2>1. PICK m \in 1 .. n : v[m] < upper[m] /\ \A k \in 1 .. m - 1 : v[k] = upper[k]
    BY <1>6, <1>10
  <2>2. m # n
    BY <1>3, <1>8, <2>1
  <2>3. \A k \in 1 .. m - 1 : v[k] = w[k]
    BY <1>1, <1>3, <2>1, <2>2
  <2>4. ~(v[m] < w[m])
    BY <1>5, <1>10, <2>3
  <2>5. m \notin 1 .. n - 2
    BY <1>3, <2>1, <2>4
  <2>6. m = n - 1
    BY <1>1, <2>2, <2>5
  <2>7. v[m] = w[m]
    BY SMTT(30), <1>3, <1>8, <2>1, <2>4, <2>6
  <2> QED
    BY SMTT(20), <1>1, <2>3, <2>6, <2>7
<1>11. ASSUME \A k \in 1 .. n - 1 : v[k] = w[k]
       PROVE  Below(v, upper)
  <2>1. n - 1 \in 1 .. n /\ v[n - 1] < upper[n - 1]
    BY <1>1, <1>3, <1>8, <1>9, <1>11
  <2>2. \A k \in 1 .. (n - 1) - 1 : v[k] = upper[k]
    BY <1>1, <1>3, <1>11
  <2> QED
    BY <1>6, <2>1, <2>2
<1> QED
  BY <1>4, <1>7, <1>10, <1>11 DEF w, n

-----------------------------------------------------------------------------
(* The package of a conforming control file.                               *)

LEMMA NamesAreLists ==
  ASSUME NEW name \in Seq(STRING) \ {<<>>}
  PROVE  IsList(name) /\ IsList(ExtraName(name))
<1>1. IsList(name)
  BY DEF IsList
<1>2. IsList(Tail(name))
  BY <1>1, TailList
<1> QED
  BY <1>1, <1>2 DEF ExtraName

\* The dependencies of a conforming control file are on lines of their own, none
\* of them is folded, and one is no inequality.
LEMMA ConformingDependencies ==
  ASSUME NoLists, NEW lines, ControlLines(lines), Conforming(lines),
         NEW value, value = ValueOf(ParseParagraph(lines), <<"Depends">>),
         value = Absent \/ Readable(value)
  PROVE  LET depends == IF value = Absent THEN <<>> ELSE ParseDependencies(value) IN
         /\ DependencyList(depends)
         /\ depends # <<>> => \E n \in 1 .. Len(depends) : depends[n].op # "!="
         /\ (\E n \in 1 .. Len(depends) : depends[n].op = "!=") =>
              ValueOf(ParseParagraph(lines), <<"Conflicts">>) # <<Blank, Blank>>
<1>1. CASE value \in {Absent, EmptyValue}
  <2>1. (IF value = Absent THEN <<>> ELSE ParseDependencies(value)) = <<>>
    BY <1>1 DEF ParseDependencies
  <2>2. DependencyList(<<>>) /\ 1 .. Len(<<>>) = {}
    BY SmallLists DEF DependencyList
  <2> QED
    BY <2>1, <2>2
<1>2. CASE value \notin {Absent, EmptyValue}
  <2> DEFINE depends == ParseDependencies(value)
  <2>1. IsList(value) /\ value # EmptyValue
    BY <1>2 DEF Readable
  <2>2. \A n \in 1 .. Len(value) : value[n] \in Seq(Dependencies(Seq(Nat))) \ {<<>>}
    <3>1. \A list \in ToSet(value) : list \in Seq(Dependencies(Seq(Nat))) \ {<<>>}
      BY <1>2 DEF ControlLines
    <3>2. DOMAIN value = 1 .. Len(value)
      BY <2>1, ListFacts
    <3> QED
      BY <3>1, <3>2 DEF ToSet
  <2>3. /\ IsList(depends)
        /\ \A k \in 1 .. Len(depends) : depends[k] \in Dependencies(Seq(Nat))
    BY <2>1, <2>2, DependenciesAreRead
  <2>4. /\ \E d \in ToSet(depends) : d.op # "!="
        /\ \A d \in ToSet(depends) :
             ~d.folded /\ (d.op = "!=" => ValueOf(ParseParagraph(lines), <<"Conflicts">>) # <<Blank, Blank>>)
    BY <1>2 DEF Conforming
  <2> HIDE DEF depends
  <2>5. ToSet(depends) = {depends[n] : n \in 1 .. Len(depends)}
    BY <2>3, ListFacts DEF ToSet
  <2>6. /\ DependencyList(depends)
        /\ \E n \in 1 .. Len(depends) : depends[n].op # "!="
        /\ (\E n \in 1 .. Len(depends) : depends[n].op = "!=") =>
              ValueOf(ParseParagraph(lines), <<"Conflicts">>) # <<Blank, Blank>>
    BY <2>3, <2>4, <2>5 DEF DependencyList
  <2> QED
    BY <1>2, <2>6 DEF depends
<1> QED
  BY <1>1, <1>2

\* What a command publishes of a conforming control file it reads again unchanged.
LEMMA ConformingIsPrintable ==
  ASSUME NoLists, NEW lines, ControlLines(lines), Parses(lines), Conforming(lines), NEW read
  PROVE  Printable(Inspected(lines, read))
<1> DEFINE fields == ParseParagraph(lines)
           package == Inspected(lines, read)
           value(name) == ValueOf(fields, name)
           depends == IF value(<<"Depends">>) = Absent THEN <<>> ELSE ParseDependencies(value(<<"Depends">>))
           Names == FieldNames(lines)
<1>1. IsList(lines) /\ DOMAIN lines = 1 .. Len(lines)
  BY FunctionIsList DEF ControlLines
<1>2. \A name \in Names : name \in Seq(STRING) \ {<<>>} /\ name # <<"">> /\ PlainName(name)
  <2>1. \A n \in 1 .. Len(lines) : lines[n].kind = "field" =>
          lines[n].name \in Seq(STRING) \ {<<>>} /\ PlainName(lines[n].name)
    BY <1>1 DEF ControlLines, Conforming
  <2> QED
    BY <2>1 DEF FieldNames, IsField
<1>3. Paragraph(fields, Names, TRUE)
  <2>1. \A n \in 1 .. Len(lines) :
          lines[n].kind = "more" /\ lines[n].text = Dot => lines[n].indent = 1
    BY <1>1 DEF Conforming
  <2>2. Absent \notin Names
    BY <1>2, NamesAreLists DEF NoLists
  <2> QED
    BY <1>1, <2>1, <2>2, LinesAreRead
<1> HIDE DEF fields, Names
<1>4. \A name : value(name) = Absent \/ Readable(value(name))
  BY <1>3, ParagraphValue DEF Paragraph
<1>5. /\ package.version = ParseVersion(value(<<"Version">>)[1])
      /\ package.depends = depends
      /\ package.extra = ExtraFields(fields)
      /\ \A name \in Known \ {<<"Version">>, <<"Depends">>} :
           package.known[name] = CASE name = <<"Filename">> -> Absent
                                [] name \in FileFields -> <<Bytes(read)>>
                                [] OTHER -> value(name)
  BY DEF Inspected, ParsePackage, fields
<1> HIDE DEF package
<1>6. IsList(value(<<"Version">>)[1])
  <2> DEFINE version == value(<<"Version">>)
  <2>1. version # Absent /\ version # EmptyValue /\ Len(version) = 1
    BY DEF Parses, fields
  <2>2. version \notin {Absent, EmptyValue} => ToSet(version) \subseteq Seq(STRING)
    BY DEF ControlLines, fields
  <2>3. Readable(version)
    BY <1>4, <2>1
  <2>4. 1 \in DOMAIN version
    BY <2>1, <2>3, ListFacts DEF Readable
  <2> HIDE DEF version
  <2>5. version[1] \in Seq(STRING)
    BY <2>1, <2>2, <2>4 DEF ToSet
  <2> QED
    BY <2>5 DEF IsList, version
<1>7. \A name \in Known \ {<<"Version">>, <<"Depends">>} :
        package.known[name] = Absent \/ Readable(package.known[name])
  <2>1. Readable(<<Bytes(read)>>)
    BY ReadableOne
  <2> HIDE DEF value
  <2> QED
    BY <1>4, <1>5, <2>1
<1>8. /\ DependencyList(depends)
      /\ depends # <<>> => \E n \in 1 .. Len(depends) : depends[n].op # "!="
      /\ (\E n \in 1 .. Len(depends) : depends[n].op = "!=") => value(<<"Conflicts">>) # <<Blank, Blank>>
  BY <1>4, ConformingDependencies DEF fields
<1>9. package.known[<<"Conflicts">>] = value(<<"Conflicts">>)
  <2>1. <<"Conflicts">> \in Known \ {<<"Version">>, <<"Depends">>}
    BY NamesOfThePackage
  <2>2. <<"Conflicts">> \notin {<<"Filename">>} \cup FileFields
    BY DEF FileFields
  <2> HIDE DEF value
  <2> QED
    BY <1>5, <2>1, <2>2
<1>10. LET conflicts == value(<<"Conflicts">>) IN
       conflicts # Absent => Last(conflicts) = Blank \/ IsList(Last(conflicts))
  <2> DEFINE conflicts == value(<<"Conflicts">>)
  <2>1. conflicts \notin {Absent, EmptyValue} =>
          \A list \in ToSet(conflicts) \ {Blank} : list \in Seq(Dependencies(Seq(Nat)))
    BY DEF ControlLines, fields
  <2>2. conflicts = Absent \/ Readable(conflicts)
    BY <1>4
  <2> HIDE DEF conflicts
  <2>3. CASE conflicts = EmptyValue
    <3>1. Last(EmptyValue) = Blank
      BY DEF EmptyValue, Last
    <3> QED
      BY <2>3, <3>1 DEF conflicts
  <2>4. CASE conflicts \notin {Absent, EmptyValue}
    <3>1. IsList(conflicts) /\ Len(conflicts) \in DOMAIN conflicts
      <4>1. IsList(conflicts) /\ conflicts # <<>>
        BY <2>2, <2>4 DEF Readable
      <4> QED
        BY <4>1, ListFacts
    <3>2. Last(conflicts) \in ToSet(conflicts)
      BY <3>1 DEF Last, ToSet
    <3>3. Last(conflicts) = Blank \/ Last(conflicts) \in Seq(Dependencies(Seq(Nat)))
      BY <2>1, <2>4, <3>2
    <3> QED
      BY <3>3 DEF IsList, conflicts
  <2> QED
    BY <2>3, <2>4 DEF conflicts
<1>11. \E Extras : ExtraNames(Extras) /\ Paragraph(package.extra, Extras, TRUE)
  <2> DEFINE Extras == {ExtraName(name) : name \in Names \ Known}
  <2>1. Paragraph(package.extra, Extras, TRUE)
    BY <1>3, <1>5, ExtraIsParagraph DEF Paragraph
  <2>2. ASSUME NEW name \in Names \ Known
        PROVE  LET extra == ExtraName(name) IN
               FieldName(extra) /\ extra \notin Known /\ ExtraName(extra) = extra
    <3> DEFINE extra == ExtraName(name)
    <3>1. name \in Seq(STRING) \ {<<>>} /\ name # <<"">> /\ PlainName(name)
      BY <1>2
    <3>2. extra # Absent
      BY <3>1, NamesAreLists DEF NoLists
    <3>3. extra = name \/ (extra \notin Known \cup {<<"">>} /\ ExtraName(extra) = extra)
      BY <3>1 DEF PlainName
    <3> QED
      BY <2>2, <3>1, <3>2, <3>3 DEF FieldName
  <2>3. ExtraNames(Extras)
    BY <2>2 DEF ExtraNames
  <2> QED
    BY <2>1, <2>3
<1>12. Printable(package)
  BY <1>5, <1>6, <1>7, <1>8, <1>9, <1>10, <1>11 DEF Printable
<1> QED
  BY <1>12 DEF package

\* What the dependencies of a conforming control file are read as in its entry.
LEMMA EntryOfConforming ==
  ASSUME NoLists, NEW lines, ControlLines(lines), Parses(lines), Conforming(lines), NEW read
  PROVE  LET package == Inspected(lines, read)
             is == ParseParagraph(Render(package))
         IN package.depends # <<>> =>
              /\ DependencyList(package.depends)
              /\ ParseDependencies(ValueOf(is, <<"Depends">>)) = DependsOf(package.depends)
<1> DEFINE package == Inspected(lines, read)
           is == ParseParagraph(Render(package))
<1>1. Printable(package)
  BY ConformingIsPrintable
<1>2. \A name \in Known :
        ValueOf(is, name) = IF Rendered(package, name) = Absent THEN Absent
                            ELSE WithoutTrailingBlanks(Rendered(package, name))
  BY <1>1, PrintableIsRead
<1> HIDE DEF package, is
<1>3. ASSUME NEW name \in Known, NEW text, Rendered(package, name) = <<text>>
      PROVE  ValueOf(is, name) = <<text>>
  <2>1. <<text>> # Absent
    BY SmallLists DEF NoLists
  <2> QED
    BY <1>2, <1>3, <2>1, TrimmedOne
<1>4. ASSUME package.depends # <<>>
      PROVE  /\ DependencyList(package.depends)
             /\ ParseDependencies(ValueOf(is, <<"Depends">>)) = DependsOf(package.depends)
  <2> DEFINE D == DependsOf(package.depends)
  <2>1. DependencyList(D) /\ D # <<>> /\ DependencyList(package.depends)
    BY <1>1, <1>4, NormalizedList DEF Printable
  <2>2. Rendered(package, <<"Depends">>) = DependsValue(D)
    BY <1>4 DEF Rendered
  <2>3. <<"Depends">> \in Known
    BY NamesOfThePackage
  <2> HIDE DEF D
  <2>4. DependsValue(D) = <<D>>
    BY <2>1, DependsOnOneLine DEF DependencyList, NoLists
  <2>5. ValueOf(is, <<"Depends">>) = <<D>>
    BY <1>3, <2>2, <2>3, <2>4
  <2>6. ParseDependencies(<<D>>) = D
    BY <2>1, OneLineIsRead DEF NoLists
  <2> QED
    BY <2>1, <2>5, <2>6 DEF D
<1> QED
  BY <1>4 DEF package, is

-----------------------------------------------------------------------------
(* What every entry keeps.                                                 *)

\* The names of user-defined fields that never become those of other fields.
StaysOther(name) == Becomes(name) \cap (Known \cup {<<"">>}) = {}
UserNames(Names) == \A name \in Names : FieldName(name) /\ IsList(name) /\ StaysOther(name)

LEMMA NameAgain ==
  ASSUME NoLists, NEW name, IsList(name), name \notin Known, FieldName(name), StaysOther(name)
  PROVE  LET extra == ExtraName(name) IN
         FieldName(extra) /\ IsList(extra) /\ StaysOther(extra) /\ extra \notin Known
<1>1. CASE ~(Len(name) > 1 /\ name[1] \in UserPrefixes)
  BY <1>1 DEF ExtraName
<1>2. CASE Len(name) > 1 /\ name[1] \in UserPrefixes
  <2> DEFINE extra == Tail(name)
             N == Len(name)
  <2>1. N \in Nat /\ N > 1 /\ name # <<>>
    BY <1>2, ListFacts
  <2>2. IsList(extra) /\ Len(extra) = N - 1 /\ \A i \in 1 .. N - 1 : extra[i] = name[i + 1]
    BY <2>1, TailList
  <2>3. extra \in Becomes(name)
    <3> DEFINE suffix == SubSeq(name, 2, N)
    <3>1. 2 \in Nat /\ 1 <= 2 /\ 2 <= N + 1 /\ N + 1 - 2 = N - 1
      BY <2>1
    <3>2. IsList(suffix) /\ Len(suffix) = N - 1 /\ \A i \in 1 .. N - 1 : suffix[i] = name[2 - 1 + i]
      BY <3>1, SuffixList
    <3>3. suffix \in Becomes(name)
      <4>1. 2 \in 2 .. N /\ \A i \in 1 .. 2 - 1 : i = 1
        BY <2>1
      <4> QED
        BY <1>2, <4>1 DEF Becomes
    <3> HIDE DEF suffix, extra, N
    <3>4. \A i \in 1 .. N - 1 : 2 - 1 + i = i + 1
      BY <2>1
    <3>5. suffix = extra
      BY <2>2, <3>2, <3>4, ListEqual
    <3> QED
      BY <3>3, <3>5
  <2>4. Becomes(extra) \subseteq Becomes(name)
    <3> SUFFICES ASSUME NEW n \in 2 .. N - 1, \A i \in 1 .. n - 1 : extra[i] \in UserPrefixes
                 PROVE  SubSeq(extra, n, N - 1) \in Becomes(name)
      <4> HIDE DEF N, extra
      <4> QED
        BY <2>2 DEF Becomes
    <3> DEFINE mine == SubSeq(extra, n, N - 1)
               suffix == SubSeq(name, n + 1, N)
    <3>1. n \in Nat /\ 1 <= n /\ n <= (N - 1) + 1
      BY <2>1
    <3>2. /\ IsList(mine) /\ Len(mine) = (N - 1) + 1 - n
          /\ \A i \in 1 .. Len(mine) : mine[i] = extra[n - 1 + i]
      <4> HIDE DEF N, extra
      <4> QED
        BY <2>2, <3>1, SuffixList
    <3>3. n + 1 \in Nat /\ 1 <= n + 1 /\ n + 1 <= N + 1
      BY <2>1
    <3>4. /\ IsList(suffix) /\ Len(suffix) = N + 1 - (n + 1)
          /\ \A i \in 1 .. Len(suffix) : suffix[i] = name[(n + 1) - 1 + i]
      BY <3>3, SuffixList
    <3>5. (N - 1) + 1 - n = N + 1 - (n + 1)
      BY <2>1
    <3> HIDE DEF mine, suffix
    <3>6. ASSUME NEW i \in 1 .. Len(mine)
          PROVE  mine[i] = suffix[i]
      <4>1. Len(mine) = N - n /\ Len(suffix) = N - n
        <5> HIDE DEF N
        <5>1. (N - 1) + 1 - n = N - n
          BY <2>1
        <5> QED
          BY <3>2, <3>4, <3>5, <5>1
      <4>2. n - 1 + i \in 1 .. N - 1 /\ (n - 1 + i) + 1 = (n + 1) - 1 + i
        <5> HIDE DEF N
        <5> QED
          BY <2>1, <4>1
      <4>3. mine[i] = extra[n - 1 + i]
        BY <3>2
      <4>4. suffix[i] = name[(n + 1) - 1 + i]
        BY <3>4, <4>1
      <4> DEFINE k == n - 1 + i
      <4>5. k \in 1 .. N - 1 /\ suffix[i] = name[k + 1] /\ mine[i] = extra[k]
        BY <4>2, <4>3, <4>4
      <4> HIDE DEF extra, N, k
      <4> QED
        BY <2>2, <4>5
    <3>7. mine = suffix
      BY <3>2, <3>4, <3>5, <3>6, ListEqual
    <3>8. n + 1 \in 2 .. N
      BY <2>1
    <3>9. ASSUME NEW i \in 1 .. (n + 1) - 1
          PROVE  name[i] \in UserPrefixes
      <4>1. i = 1 \/ (i - 1 \in 1 .. n - 1 /\ i - 1 \in 1 .. N - 1 /\ (i - 1) + 1 = i)
        <5> HIDE DEF N
        <5> QED
          BY <2>1
      <4> HIDE DEF extra, N
      <4> QED
        BY <1>2, <2>2, <4>1
    <3>10. suffix \in Becomes(name)
      BY <3>8, <3>9 DEF Becomes, suffix
    <3> QED
      BY <3>7, <3>10 DEF mine
  <2>5. ExtraName(name) = extra
    BY <1>2 DEF ExtraName
  <2> HIDE DEF extra
  <2>6. extra # <<"">> /\ extra \notin Known
    BY <2>3 DEF StaysOther
  <2>7. extra # Absent
    BY <2>2 DEF NoLists
  <2> QED
    BY <2>2, <2>4, <2>5, <2>6, <2>7 DEF FieldName, StaysOther
<1> QED
  BY <1>1, <1>2

LEMMA UserNamesAgain ==
  ASSUME NoLists, NEW Names, UserNames(Names)
  PROVE  LET extras == {ExtraName(name) : name \in Names \ Known} IN
         UserNames(extras) /\ OtherNames(extras)
<1>1. \A name \in Names \ Known :
        LET extra == ExtraName(name) IN
        FieldName(extra) /\ IsList(extra) /\ StaysOther(extra) /\ extra \notin Known
  BY NameAgain DEF UserNames
<1> QED
  BY <1>1 DEF UserNames, OtherNames

\* The fields of some lines are those of a Package and user-defined ones, and its
\* dependencies are lists.
Orderly(fields) ==
  /\ \E Names : UserNames(Names) /\ Fields(fields, Known \cup Names, FALSE)
  /\ LET depends == ValueOf(fields, <<"Depends">>) IN depends = Absent \/ AllLists(depends)

\* The package of such lines can be written again.
LEMMA OrderlyIsWritable ==
  ASSUME NoLists, NEW lines, Orderly(ParseParagraph(lines))
  PROVE  \E Extras : UserNames(Extras) /\ Writable(ParsePackage(lines), Extras)
<1> DEFINE fields == ParseParagraph(lines)
           package == ParsePackage(lines)
           value(name) == ValueOf(fields, name)
           depends == value(<<"Depends">>)
<1>1. PICK Names : UserNames(Names) /\ Fields(fields, Known \cup Names, FALSE)
  BY DEF Orderly
<1>2. depends = Absent \/ AllLists(depends)
  BY DEF Orderly
<1>3. /\ package.depends = IF depends = Absent THEN <<>> ELSE ParseDependencies(depends)
      /\ package.extra = ExtraFields(fields)
      /\ \A name \in Known \ {<<"Version">>, <<"Depends">>} : package.known[name] = value(name)
  BY DEF ParsePackage
<1> HIDE DEF fields, package
<1>4. ASSUME NEW name
      PROVE  value(name) = Absent \/ Texts(value(name))
  BY <1>1, ParagraphValue
<1>5. IsList(package.depends)
  <2>1. CASE depends = Absent
    BY <1>3, <2>1, SmallLists
  <2>2. CASE depends # Absent
    <3>1. IsList(depends) /\ AllLists(depends)
      BY <1>2, <1>4, <2>2 DEF Texts
    <3> HIDE DEF value
    <3> QED
      BY <1>3, <2>2, <3>1, ListsAreRead
  <2> QED
    BY <2>1, <2>2
<1> DEFINE Extras == {ExtraName(name) : name \in Names \ Known}
<1>6. UserNames(Extras) /\ OtherNames(Extras)
  BY <1>1, UserNamesAgain
<1>7. Paragraph(package.extra, Extras, FALSE)
  <2>1. (Known \cup Names) \ Known = Names \ Known
    OBVIOUS
  <2> QED
    BY <1>1, <1>3, <2>1, ExtraIsParagraph
<1> HIDE DEF Extras, value
<1>8. Writable(package, Extras)
  BY <1>3, <1>4, <1>5, <1>6, <1>7 DEF Writable
<1> QED
  BY <1>6, <1>8 DEF package

\* Lines with a pool path, a size and digests, and a version that can be read.
Described(lines, path, bytes, version) ==
  LET fields == ParseParagraph(lines) IN
  /\ Orderly(fields)
  /\ ValueOf(fields, <<"Filename">>) = <<path>>
  /\ \A name \in FileFields : ValueOf(fields, name) = <<bytes>>
  /\ \E w : /\ IsList(w) /\ ValueOf(fields, <<"Version">>) = <<w>>
            /\ ParseVersion(w) = version

\* A package that can be written and has them is written with them.
LEMMA EntryIsDescribed ==
  ASSUME NoLists, NEW pack0, NEW Extras, UserNames(Extras), Writable(pack0, Extras),
         NEW v, IsList(v), pack0.version = ParseVersion(v),
         NEW path, RepositoryFilename(pack0) = <<path>>,
         NEW bytes, \A name \in FileFields : pack0.known[name] = <<bytes>>
  PROVE  Described(Render(pack0), path, bytes, ParseVersion(v))
<1> DEFINE fields == ParseParagraph(Render(pack0))
           D == DependsOf(pack0.depends)
           w == FullVersion(ParseVersion(v))
<1>1. Fields(fields, Known \cup Extras, FALSE) /\ EntryFields(fields, pack0)
  BY EntryIsRead
<1> HIDE DEF fields
<1>2. ASSUME NEW name \in Known, NEW text, Rendered(pack0, name) = <<text>>
      PROVE  ValueOf(fields, name) = <<text>>
  <2>1. <<text>> # Absent
    BY SmallLists DEF NoLists
  <2>2. ReadsAs(<<text>>, ValueOf(fields, name))
    BY <1>1, <1>2, <2>1 DEF EntryFields
  <2> QED
    BY <2>2, ReadableOne, TrimmedOne DEF ReadsAs
<1>3. ValueOf(fields, <<"Filename">>) = <<path>>
  <2>1. <<"Filename">> \in Known
    BY NamesOfThePackage
  <2>2. Rendered(pack0, <<"Filename">>) = <<path>>
    BY DEF Rendered
  <2> QED
    BY <1>2, <2>1, <2>2
<1>4. ASSUME NEW name \in FileFields
      PROVE  ValueOf(fields, name) = <<bytes>>
  <2>1. name \in Known
    BY NamesOfThePackage DEF FileFields
  <2>2. name \notin {<<"Version">>, <<"Depends">>, <<"Conflicts">>, <<"Filename">>}
    BY DEF FileFields
  <2>3. pack0.known[name] = <<bytes>> /\ <<bytes>> # Absent
    BY SmallLists DEF NoLists
  <2>4. Rendered(pack0, name) = IF pack0.known[name] = Absent THEN Default(name) ELSE pack0.known[name]
    BY <2>2 DEF Rendered
  <2>5. Rendered(pack0, name) = <<bytes>>
    BY <2>3, <2>4
  <2> QED
    BY <1>2, <2>1, <2>5
<1>5. IsList(w) /\ ParseVersion(w) = ParseVersion(v) /\ ValueOf(fields, <<"Version">>) = <<w>>
  <2>1. IsList(w) /\ ParseVersion(w) = ParseVersion(v)
    BY VersionIsKept
  <2>2. Rendered(pack0, <<"Version">>) = <<w>>
    BY DEF Rendered
  <2>3. <<"Version">> \in Known
    BY NamesOfThePackage
  <2> HIDE DEF w
  <2> QED
    BY <1>2, <2>1, <2>2, <2>3
<1>6. LET depends == ValueOf(fields, <<"Depends">>) IN depends = Absent \/ AllLists(depends)
  <2>1. <<"Depends">> \in Known
    BY NamesOfThePackage
  <2>2. Rendered(pack0, <<"Depends">>) = IF pack0.depends = <<>> THEN Absent ELSE DependsValue(D)
    BY DEF Rendered
  <2>3. FoldedLists(DependsValue(D))
    <3>1. IsList(D)
      BY RelationsAreLists DEF Writable
    <3> QED
      BY <3>1, DependsAreFoldedLists
  <2> HIDE DEF D
  <2>4. CASE Rendered(pack0, <<"Depends">>) = Absent
    BY <1>1, <2>1, <2>4 DEF EntryFields
  <2>5. CASE Rendered(pack0, <<"Depends">>) # Absent
    BY <1>1, <2>1, <2>2, <2>3, <2>5 DEF EntryFields, ReadsAs
  <2> QED
    BY <2>4, <2>5
<1>7. Orderly(fields)
  BY <1>1, <1>6 DEF Orderly
<1> HIDE DEF w
<1> QED
  BY <1>3, <1>4, <1>5, <1>7 DEF Described, fields

\* The next command writes what it has read.
LEMMA DescribedAgain ==
  ASSUME NoLists, NEW lines, NEW path, NEW bytes, NEW version,
         Described(lines, path, bytes, version)
  PROVE  Described(Render(ParsePackage(lines)), path, bytes, version)
<1> DEFINE fields == ParseParagraph(lines)
           package == ParsePackage(lines)
<1>1. PICK Extras : UserNames(Extras) /\ Writable(package, Extras)
  BY OrderlyIsWritable DEF Described
<1>2. PICK w : /\ IsList(w) /\ ValueOf(fields, <<"Version">>) = <<w>>
               /\ ParseVersion(w) = version
  BY DEF Described
<1>3. package.version = ParseVersion(w)
  <2>1. package.version = ParseVersion(ValueOf(fields, <<"Version">>)[1])
    BY DEF ParsePackage
  <2>2. <<w>>[1] = w
    BY SmallLists
  <2> QED
    BY <1>2, <2>1, <2>2
<1>4. \A name \in Known \ {<<"Version">>, <<"Depends">>} : package.known[name] = ValueOf(fields, name)
  BY DEF ParsePackage
<1> HIDE DEF package
<1>5. RepositoryFilename(package) = <<path>>
  <2>1. <<"Filename">> \in Known \ {<<"Version">>, <<"Depends">>}
    BY NamesOfThePackage
  <2>2. package.known[<<"Filename">>] = <<path>>
    BY <1>4, <2>1 DEF Described
  <2>3. <<path>> # Absent
    BY SmallLists DEF NoLists
  <2> QED
    BY <2>2, <2>3 DEF RepositoryFilename
<1>6. \A name \in FileFields : package.known[name] = <<bytes>>
  <2>1. \A name \in FileFields : name \in Known \ {<<"Version">>, <<"Depends">>}
    BY NamesOfThePackage DEF FileFields
  <2> QED
    BY <1>4, <2>1 DEF Described
<1>7. Described(Render(package), path, bytes, ParseVersion(w))
  BY <1>1, <1>2, <1>3, <1>5, <1>6, EntryIsDescribed
<1> QED
  BY <1>2, <1>7 DEF package

-----------------------------------------------------------------------------
(* What is published.                                                      *)

\* The control file of a package that was read to its end is the one that the file
\* holds.
LEMMA ControlIsOfFile ==
  ASSUME Inv, state = "trailer"
  PROVE  control = ControlOf(file) /\ ControlLines(control)
<1>1. PICK c, d \in 2 .. next - 1 :
        /\ c < d /\ ControlAt(c) /\ file.members[d].stem = "data.tar"
        /\ Skipped(2, c - 1) /\ Skipped(c + 1, d - 1)
  BY DEF Inv, Seen
<1>2. /\ file \in Files /\ next \in 1 .. Len(file.members) + 1
      /\ next > 1 /\ GoodBinary(file.members[1])
  BY DEF Inv, Types, Seen
<1>3. /\ Len(file.members) \in Nat /\ DOMAIN file.members = 1 .. Len(file.members)
      /\ file.members \in Seq(ToSet(file.members))
  BY <1>2, FileFacts, LenProperties
<1>4. c \in 1 .. Len(file.members)
  BY <1>2, <1>3
<1> DEFINE members == file.members
           body == members[c].body
           IsFirst(n) == members[n].stem = "control.tar"
                           /\ \A k \in 1 .. n - 1 : members[k].stem # "control.tar"
           first == CHOOSE n \in DOMAIN members : IsFirst(n)
           last == CHOOSE n \in Controls(body) : \A k \in Controls(body) : k <= n
<1>5. members[c].stem = "control.tar" /\ GoodControl(body) /\ control = ControlText(body)
  BY <1>1 DEF ControlAt
<1>6. first = c
  <2>1. \A k \in 1 .. c - 1 : members[k].stem # "control.tar"
    <3> TAKE k \in 1 .. c - 1
    <3>1. k = 1 \/ k \in 2 .. c - 1
      BY <1>4
    <3>2. members[1].stem = "debian-binary"
      BY <1>2 DEF GoodBinary
    <3>3. k \in 2 .. c - 1 => members[k].stem = "_"
      BY <1>1 DEF Skipped
    <3> QED
      BY <3>1, <3>2, <3>3
  <2>2. c \in DOMAIN members /\ IsFirst(c)
    BY <1>3, <1>4, <1>5, <2>1
  <2>3. first \in DOMAIN members /\ IsFirst(first)
    <3> HIDE DEF IsFirst
    <3> QED
      BY <2>2
  <2> HIDE DEF first
  <2>4. ~(first < c) /\ ~(c < first)
    BY <1>3, <2>2, <2>3
  <2> QED
    BY <1>3, <1>4, <2>3, <2>4
<1>7. control = ControlOf(file)
  BY <1>5, <1>6 DEF ControlOf
<1>8. /\ body.entries \in Seq(ToSet(body.entries))
      /\ \A k \in DOMAIN body.entries : ControlLines(body.entries[k].text)
  BY <1>2, <1>3, <1>4, <1>5, FilesAssumption
<1>9. last \in DOMAIN body.entries
  <2> DEFINE C == Controls(body)
             N == Len(body.entries)
  <2>1. C \in SUBSET (1 .. N) /\ C # {} /\ DOMAIN body.entries = 1 .. N /\ N \in Nat
    BY <1>5, <1>8, LenProperties DEF Controls, GoodControl
  <2> HIDE DEF C, N
  <2>2. \E n \in C : \A k \in C : k <= n
    BY <2>1, LargestNumber
  <2>3. last \in C
    BY <2>2 DEF C
  <2> QED
    BY <2>1, <2>3
<1>10. control = body.entries[last].text
  BY <1>5 DEF ControlText
<1> HIDE DEF body, last
<1> QED
  BY <1>7, <1>8, <1>9, <1>10

\* Lines with the pool path, the size and the digests of the file, and the version
\* of the control file.
IsDescribed(lines) ==
  LET text(name) == ValueOf(ParseParagraph(control), name)[1]
  IN Described(lines, <<"pool", text(<<"Package">>)>>, Bytes(file.length),
               ParseVersion(text(<<"Version">>)))

\* The package that was read is that of the control file, with the size and the
\* digests of the whole file; a conforming one is in the index as it was rendered
\* for the first time, and the entry of every other still describes the file,
\* unless user-defined fields hide that.
Published ==
  /\ result \in {"accepted", "nameless"} => pack = Inspected(control, file.length)
  /\ entry # Absent /\ Conforming(control) => entry = Render(pack)
  /\ entry # Absent /\ ~Hides(control) => IsDescribed(entry)

\* The entry of a package that was read, as it is first written.
LEMMA FirstEntry ==
  ASSUME NoLists, ControlLines(control), Parses(control), ~Hides(control),
         pack = Inspected(control, file.length)
  PROVE  IsDescribed(Render(pack))
<1> DEFINE lines == control
           fields == ParseParagraph(lines)
           parsed == ParsePackage(lines)
           value(name) == ValueOf(fields, name)
           version == value(<<"Version">>)
           path == <<"pool", value(<<"Package">>)[1]>>
           bytes == Bytes(file.length)
           Names == FieldNames(lines)
<1>1. IsList(lines) /\ DOMAIN lines = 1 .. Len(lines)
  BY FunctionIsList DEF ControlLines
<1>2. \A name \in Names : FieldName(name) /\ IsList(name) /\ StaysOther(name)
  <2>1. \A n \in 1 .. Len(lines) :
          /\ lines[n].kind = "field" => lines[n].name \in Seq(STRING) \ {<<>>}
          /\ lines[n].kind = "field" => StaysOther(lines[n].name)
    BY <1>1 DEF ControlLines, Hides, StaysOther
  <2>2. \A name \in Names : name \in Seq(STRING) \ {<<>>} /\ name # <<"">> /\ StaysOther(name)
    BY <2>1 DEF FieldNames, IsField
  <2>3. \A name \in Names : IsList(name)
    BY <2>2, NamesAreLists
  <2> HIDE DEF Names
  <2> QED
    BY <2>2, <2>3 DEF FieldName, NoLists
<1>3. Fields(fields, Names, FALSE)
  <2>1. Absent \notin Names
    BY <1>2 DEF FieldName
  <2> QED
    BY <1>1, <2>1, LinesAreRead DEF Paragraph
<1>4. Fields(fields, Known \cup Names, FALSE)
  <2> HIDE DEF fields, Names
  <2> QED
    BY <1>3 DEF Fields
<1>5. version # Absent /\ version # EmptyValue /\ Len(version) = 1
  BY DEF Parses
<1>6. /\ version \notin {Absent, EmptyValue} => ToSet(version) \subseteq Seq(STRING)
      /\ LET depends == value(<<"Depends">>) IN
           depends \notin {Absent, EmptyValue} =>
             \A list \in ToSet(depends) : list \in Seq(Dependencies(Seq(Nat)))
  BY DEF ControlLines
<1> HIDE DEF fields, Names
<1>7. \A name : value(name) = Absent \/ Texts(value(name))
  BY <1>3, ParagraphValue
<1>8. IsList(version[1])
  <2>1. Texts(version)
    BY <1>5, <1>7
  <2> HIDE DEF version
  <2>2. 1 \in DOMAIN version
    BY <1>5, <2>1, ListFacts DEF Texts
  <2> QED
    BY <1>5, <1>6, <2>2 DEF ToSet, IsList
<1>9. Orderly(fields)
  <2> DEFINE depends == value(<<"Depends">>)
  <2>1. depends = Absent \/ AllLists(depends)
    <3> SUFFICES ASSUME depends \notin {Absent, EmptyValue}
                 PROVE  \A n \in 1 .. Len(depends) : IsList(depends[n])
      BY DEF AllLists
    <3>1. Texts(depends)
      BY <1>7
    <3>2. \A list \in ToSet(depends) : list \in Seq(Dependencies(Seq(Nat)))
      BY <1>6
    <3> HIDE DEF depends
    <3>3. \A n \in 1 .. Len(depends) : depends[n] \in Seq(Dependencies(Seq(Nat)))
      BY <3>1, <3>2, ListFacts DEF Texts, ToSet
    <3> QED
      BY <3>3 DEF IsList
  <2>2. UserNames(Names)
    BY <1>2 DEF UserNames
  <2> HIDE DEF value
  <2> QED
    BY <1>4, <2>1, <2>2 DEF Orderly, value
<1>10. PICK Extras : UserNames(Extras) /\ Writable(parsed, Extras)
  BY <1>9, OrderlyIsWritable DEF fields
<1>11. /\ pack.version = ParseVersion(version[1])
       /\ pack.depends = parsed.depends /\ pack.extra = parsed.extra
       /\ \A name \in Known \ {<<"Version">>, <<"Depends">>} :
            /\ parsed.known[name] = value(name)
            /\ pack.known[name] = CASE name = <<"Filename">> -> Absent
                                    [] name \in FileFields -> <<bytes>>
                                    [] OTHER -> parsed.known[name]
  BY DEF Inspected, ParsePackage, fields
<1> HIDE DEF parsed, bytes, value
<1>12. Writable(pack, Extras)
  <2>1. Texts(<<bytes>>)
    BY SmallLists DEF Texts
  <2>2. \A name \in Known \ {<<"Version">>, <<"Depends">>} :
          pack.known[name] = Absent \/ Texts(pack.known[name])
    BY <1>10, <1>11, <2>1 DEF Writable
  <2> QED
    BY <1>10, <1>11, <2>2 DEF Writable
<1>13. RepositoryFilename(pack) = <<path>>
  <2>1. <<"Package">> \in Known \ {<<"Version">>, <<"Depends">>}
    BY NamesOfThePackage
  <2>2. <<"Filename">> \in Known \ {<<"Version">>, <<"Depends">>}
    BY NamesOfThePackage
  <2>3. <<"Package">> \notin {<<"Filename">>} \cup FileFields /\ <<"Filename">> \notin FileFields
    BY DEF FileFields
  <2>4. pack.known[<<"Filename">>] = Absent
    BY <1>11, <2>2, <2>3
  <2>5. pack.known[<<"Package">>] = value(<<"Package">>)
    BY <1>11, <2>1, <2>3
  <2> QED
    BY <2>4, <2>5 DEF RepositoryFilename
<1>14. \A name \in FileFields : pack.known[name] = <<bytes>>
  <2>1. \A name \in FileFields : /\ name \in Known \ {<<"Version">>, <<"Depends">>}
                                 /\ name # <<"Filename">>
    BY NamesOfThePackage DEF FileFields
  <2> QED
    BY <1>11, <2>1
<1> HIDE DEF path
<1>15. Described(Render(pack), path, bytes, ParseVersion(version[1]))
  BY <1>8, <1>10, <1>11, <1>12, <1>13, <1>14, EntryIsDescribed
<1> QED
  BY <1>15 DEF IsDescribed, path, bytes, value, fields

LEMMA PublishedStep ==
  ASSUME NoLists, Inv, Inv', Held, Held', Published, [Next]_vars
  PROVE  Published'
<1>1. CASE Read /\ UNCHANGED entry
  <2>1. result = "reading" /\ pack = Absent /\ entry = Absent /\ entry' = Absent
    BY <1>1 DEF Held, Read, ReadMagic, BadArchive, DebianBinary, Skip, Unexpected, ControlArchive,
       DataArchive, TrailingMember, EndOfArchive, Cancelled, AtMember, InMembers
  <2>2. CASE pack' = Absent
    <3>1. result' \notin {"accepted", "nameless"}
      BY <2>2 DEF Held
    <3> QED
      BY <2>1, <3>1 DEF Published
  <2>3. CASE pack' # Absent
    <3>1. /\ \A kind : Fails(kind) => pack' = pack
          /\ \A n : Advance(n) => pack' = pack
      BY DEF Fails, Advance
    <3>2. EndOfArchive
      BY <1>1, <2>1, <2>3, <3>1 DEF Read, ReadMagic, BadArchive, DebianBinary, Skip, Unexpected,
         ControlArchive, DataArchive, TrailingMember, Cancelled
    <3>3. ~Truncated /\ HeaderAt >= file.length /\ state # "magic"
      BY <3>2 DEF EndOfArchive, InMembers
    <3>4. pack' = Inspected(control, HeaderAt) /\ file' = file /\ control' = control
      BY <2>1, <2>3, <3>1, <3>2 DEF EndOfArchive
    <3>5. HeaderAt = file.length
      <4>1. HeaderAt \in Nat /\ file.length \in Nat
        BY <3>3, Position, FileFacts DEF Inv, Types
      <4> QED
        BY <3>3, <4>1 DEF Truncated
    <3> QED
      BY <2>1, <3>4, <3>5 DEF Published
  <2> QED
    BY <2>2, <2>3
<1>2. CASE Publish
  <2>1. CASE entry' = Render(pack) /\ UNCHANGED readerVars
    <3>1. result = "accepted" /\ pack = Inspected(control, file.length)
      BY <1>2 DEF Publish, Published
    <3>2. ControlLines(control) /\ Parses(control)
      BY <3>1, ControlIsOfFile DEF Inv, Verdict
    <3>3. ~Hides(control) => IsDescribed(Render(pack))
      BY <3>1, <3>2, FirstEntry
    <3>4. control' = control /\ file' = file /\ pack' = pack /\ result' = result
      BY <2>1 DEF readerVars
    <3> QED
      BY <2>1, <3>1, <3>3, <3>4 DEF Published, IsDescribed
  <2>2. CASE Fails("nameless") /\ UNCHANGED entry
    <3>1. entry' = Absent
      BY <1>2, <2>2 DEF Publish
    <3>2. result \in {"accepted", "nameless"} /\ pack' = pack /\ control' = control /\ file' = file
      BY <1>2, <2>2 DEF Publish, Fails
    <3> QED
      BY <3>1, <3>2 DEF Published
  <2> QED
    BY <1>2, <2>1, <2>2 DEF Publish
<1>3. CASE Republish
  <2>1. entry # Absent /\ entry' = Render(ParsePackage(entry)) /\ UNCHANGED readerVars
    BY <1>3 DEF Republish
  <2>2. result = "accepted"
    BY <2>1 DEF Held
  <2>3. pack = Inspected(control, file.length)
    BY <2>2 DEF Published
  <2>4. ASSUME Conforming(control)
        PROVE  entry' = Render(pack)
    <3>1. entry = Render(pack)
      BY <2>1, <2>4 DEF Published
    <3>2. ControlLines(control) /\ Parses(control)
      BY <2>2, ControlIsOfFile DEF Inv, Verdict
    <3>3. Printable(pack)
      BY <2>3, <2>4, <3>2, ConformingIsPrintable
    <3> QED
      BY <2>1, <3>1, <3>3, EntryIsStable
  <2>5. ASSUME ~Hides(control)
        PROVE  IsDescribed(entry')
    <3>1. IsDescribed(entry)
      BY <2>1, <2>5 DEF Published
    <3> QED
      BY <2>1, <3>1, DescribedAgain DEF IsDescribed
  <2>6. control' = control /\ file' = file /\ pack' = pack /\ result' = result
    BY <2>1 DEF readerVars
  <2> QED
    BY <2>1, <2>2, <2>3, <2>4, <2>5, <2>6 DEF Published, IsDescribed
<1>4. CASE UNCHANGED vars
  <2>1. /\ control' = control /\ file' = file /\ pack' = pack /\ result' = result
        /\ entry' = entry
    BY <1>4 DEF vars, readerVars
  <2> QED
    BY <2>1 DEF Published, IsDescribed
<1> QED
  BY <1>1, <1>2, <1>3, <1>4 DEF Next, Rejected, Unreadable

\* What an entry is that the properties are about.
LEMMA EntryFacts ==
  ASSUME Inv, Held, Published, entry # Absent, Conforming(control)
  PROVE  /\ entry = Render(pack) /\ pack = Inspected(control, file.length)
         /\ control = ControlOf(file) /\ ControlLines(control) /\ Parses(control)
<1>1. result = "accepted"
  BY DEF Held
<1>2. state = "trailer" /\ Parses(control)
  BY <1>1 DEF Inv, Verdict
<1> QED
  BY <1>1, <1>2, ControlIsOfFile DEF Published

LEMMA AllPublished ==
  ASSUME NoLists, \A lines, read : Inspected(lines, read) # Absent
  PROVE  Spec => [](Inv /\ Held /\ Published)
<1>1. IntakeInit => Inv /\ Held /\ Published
  <2>1. IntakeInit => Held /\ Published
    BY DEF IntakeInit, Init, Held, Published
  <2> QED
    BY <2>1, InvInit
<1>2. Inv /\ Held /\ Published /\ [Next]_vars => (Inv /\ Held /\ Published)'
  BY InvStep, HeldStep, PublishedStep
<1> QED
  BY <1>1, <1>2, PTL DEF Spec

\* reader.go on Filename, Size and the digests, for every file and every control
\* file but those whose user-defined fields become fields of the index: as the next
\* command reads the entry, however often the index was re-published, it has the
\* pool path, the size and the digests of the file, and the version of the control
\* file.
THEOREM AlwaysDescribesFile ==
  ASSUME NoLists, \A lines, read : Inspected(lines, read) # Absent
  PROVE  Spec => []EntryDescribesFile
<1>1. Inv /\ Held /\ Published => EntryDescribesFile
  <2> SUFFICES ASSUME Inv, Held, Published, entry # Absent, ~Hides(control)
               PROVE  EntryDescribesFile
    BY DEF EntryDescribesFile
  <2> DEFINE fields == ParseParagraph(entry)
             text(name) == ValueOf(ParseParagraph(control), name)[1]
  <2>1. result = "accepted"
    BY DEF Held
  <2>2. control = ControlOf(file)
    BY <2>1, ControlIsOfFile DEF Inv, Verdict
  <2>3. /\ ValueOf(fields, <<"Filename">>) = << <<"pool", text(<<"Package">>)>> >>
        /\ \A name \in FileFields : ValueOf(fields, name) = <<Bytes(file.length)>>
    BY DEF Published, IsDescribed, Described
  <2>4. PICK w : /\ IsList(w) /\ ValueOf(fields, <<"Version">>) = <<w>>
                 /\ ParseVersion(w) = ParseVersion(text(<<"Version">>))
    BY DEF Published, IsDescribed, Described
  <2>5. FieldsOfFile(entry)
    BY <2>2, <2>3 DEF FieldsOfFile
  <2> HIDE DEF fields
  <2>6. ValueOf(fields, <<"Version">>)[1] = w /\ Parses(entry)
    <3>1. <<w>> # Absent /\ <<w>> # <<Blank>> /\ Len(<<w>>) = 1 /\ <<w>>[1] = w
      BY <2>4, SmallLists DEF NoLists
    <3> QED
      BY <2>4, <3>1 DEF Parses, EmptyValue, fields
  <2> QED
    BY <2>2, <2>4, <2>5, <2>6 DEF EntryDescribesFile, fields
<1> QED
  BY <1>1, AllPublished, PTL

\* normalizeDependency, for every "~>" dependency of a control file that conforms:
\* the relations in the index admit the versions that the dependency means, of those
\* with as many parts or one more.
THEOREM AlwaysPessimistic ==
  ASSUME NoLists, \A lines, read : Inspected(lines, read) # Absent
  PROVE  Spec => []PessimisticBounds
<1>1. Inv /\ Held /\ Published => PessimisticBounds
  <2> SUFFICES ASSUME Inv, Held, Published, entry # Absent, Conforming(control)
               PROVE  PessimisticBounds
    BY DEF PessimisticBounds
  <2> DEFINE relations == ParseDependencies(ValueOf(ParseParagraph(entry), <<"Depends">>))
             kept(v, part) == SubSeq(v, 1, Len(part) - 1) = SubSeq(part, 1, Len(part) - 1)
  <2>1. /\ entry = Render(pack) /\ pack = Inspected(control, file.length)
        /\ ControlLines(control) /\ Parses(control)
    BY EntryFacts
  <2>2. pack.depends # <<>> => DependencyList(pack.depends) /\ relations = DependsOf(pack.depends)
    BY <2>1, EntryOfConforming
  <2>3. ASSUME NEW d \in ToSet(pack.depends), d.op = "~>", Len(d.version) > 1
        PROVE  /\ ToSet(Normalized(d).depends) \subseteq ToSet(relations)
               /\ \A n \in {Len(d.version), Len(d.version) + 1} : \A v \in [1 .. n -> 0 .. 3] :
                    (\A b \in ToSet(Normalized(d).depends) : Admits(b, v))
                      <=> ~Below(v, d.version) /\ kept(v, d.version)
    <3>1. DependencyList(pack.depends) /\ relations = DependsOf(pack.depends)
      <4>1. ToSet(<<>>) = {}
        BY DEF ToSet
      <4> HIDE DEF relations
      <4> QED
        BY <2>2, <2>3, <4>1
    <3>2. PICK k \in 1 .. Len(pack.depends) : d = pack.depends[k]
      BY <2>3, <3>1, ListFacts DEF ToSet, DependencyList
    <3>3. ToSet(Normalized(d).depends) \subseteq ToSet(relations)
      <4> HIDE DEF relations
      <4> QED
        BY <3>1, <3>2, NormalizedList
    <3>4. d \in Dependencies(Seq(Nat)) /\ Len(d.version) \in Nat
      BY <3>1, <3>2 DEF DependencyList, Dependencies
    <3>5. ASSUME NEW n \in {Len(d.version), Len(d.version) + 1}, NEW v \in [1 .. n -> 0 .. 3]
          PROVE  (\A b \in ToSet(Normalized(d).depends) : Admits(b, v))
                   <=> ~Below(v, d.version) /\ kept(v, d.version)
      <4>1. n \in Nat /\ n >= Len(d.version)
        BY <3>4
      <4>2. v \in [1 .. n -> Nat]
        OBVIOUS
      <4>3. v \in Seq(Nat) /\ Len(v) = n
        BY <4>1, <4>2, SeqDef
      <4> QED
        BY <2>3, <3>4, <4>1, <4>3, PessimisticBoundsOfEveryVersion
    <3> HIDE DEF relations, kept
    <3> QED
      BY <3>3, <3>5
  <2> QED
    BY <2>3 DEF PessimisticBounds
<1> QED
  BY <1>1, AllPublished, PTL

\* Re-publishing an index, however often, changes no entry whose control file conforms.
THEOREM AlwaysKeepsConforming ==
  ASSUME NoLists, \A lines, read : Inspected(lines, read) # Absent
  PROVE  Spec => RepublishKeepsConforming
<1>1. /\ (Inv /\ Held /\ Published) /\ (Inv /\ Held /\ Published)' /\ [Next]_vars
      => [entry # Absent /\ Conforming(control) => entry' = entry]_vars
  <2> SUFFICES ASSUME Inv, Held, Published, Inv', Held', Published', [Next]_vars,
                      entry # Absent, Conforming(control)
               PROVE  entry' = entry
    BY DEF vars
  <2>1. result = "accepted"
    BY DEF Held
  <2>2. CASE Read /\ UNCHANGED entry
    BY <2>2
  <2>3. CASE Publish
    BY <2>3 DEF Publish
  <2>4. CASE Republish
    <3>1. /\ entry = Render(pack) /\ pack = Inspected(control, file.length)
          /\ ControlLines(control) /\ Parses(control)
      BY EntryFacts
    <3>2. Printable(pack)
      BY <3>1, ConformingIsPrintable
    <3> QED
      BY <2>4, <3>1, <3>2, EntryIsStable DEF Republish
  <2>5. CASE UNCHANGED vars
    BY <2>5 DEF vars
  <2> QED
    BY <2>2, <2>3, <2>4, <2>5 DEF Next, Rejected, Unreadable
<1> QED
  BY <1>1, AllPublished, PTL DEF Spec, RepublishKeepsConforming
=============================================================================
