-------------------------- MODULE InspectionProofs --------------------------
(***************************************************************************)
(* The verdict of the media inspections is that of the reference, for      *)
(* every file of any length and for every value of the limits.             *)
(***************************************************************************)
EXTENDS MediaInspection, SequenceTheorems, FiniteSetTheorems, WellFoundedInduction, TLAPS

(* One more unit at the end of what was read.                              *)
LEMMA Appended ==
  ASSUME NEW S, NEW f \in Seq(S), NEW u \in S
  PROVE  /\ Append(f, u) \in Seq(S) /\ Append(f, u) # <<>>
         /\ Len(f) \in Nat /\ DOMAIN f = 1 .. Len(f)
         /\ Len(Append(f, u)) = Len(f) + 1
         /\ DOMAIN Append(f, u) = 1 .. Len(f) + 1
         /\ \A i \in DOMAIN f : Append(f, u)[i] = f[i]
         /\ Append(f, u)[Len(f) + 1] = u
         /\ f = <<>> <=> Len(f) = 0
  BY AppendProperties, LenProperties, EmptySeq

(* Every nonempty set of positions has a first one.                         *)
LEMMA NatMin ==
  ASSUME NEW S \in SUBSET Nat, S # {}
  PROVE  \E m \in S : \A x \in S : m <= x
<1>1. PICK m \in S : \A x \in S : ~(<<x, m>> \in OpToRel(<, Nat))
  BY NatLessThanWellFounded, WFMin, Zenon
<1>2. \A x \in S : ~(x < m)
  BY <1>1 DEF OpToRel
<1> QED
  BY <1>2

-----------------------------------------------------------------------------
(***************************************************************************)
(* Folds.  FoldLeft(op, base, s) is a recursive function on the sets of    *)
(* positions of s; that it exists, and what it is on the first k           *)
(* positions, is an induction over k.                                      *)
(***************************************************************************)
(* Induction up to a bound, over a set of numbers rather than a predicate.  *)
LEMMA UpTo ==
  ASSUME NEW n \in Nat, NEW S, 0 \in S, \A k \in 1 .. n : k - 1 \in S => k \in S
  PROVE  \A k \in 0 .. n : k \in S
<1> SUFFICES ASSUME {k \in 0 .. n : k \notin S} # {} PROVE FALSE
  OBVIOUS
<1> DEFINE B == {k \in 0 .. n : k \notin S}
<1>0. B \in SUBSET Nat /\ B # {}
  OBVIOUS
<1>1. PICK m \in B : \A x \in B : m <= x
  <2> HIDE DEF B
  <2> QED
    BY <1>0, NatMin
<1>2. m \in 1 .. n /\ m - 1 \in 0 .. n /\ m \notin S
  BY <1>1
<1>3. m - 1 \in S
  BY <1>1, <1>2
<1> QED
  BY <1>2, <1>3

(* The largest of some positions.                                           *)
LEMMA MaxOf ==
  ASSUME NEW n \in Nat, NEW z \in SUBSET (1 .. n), z # {}
  PROVE  Max(z) \in z /\ \A y \in z : y <= Max(z)
<1> DEFINE U == {k \in Nat : \A y \in z : y <= k}
<1>1. U # {} /\ U \in SUBSET Nat
  <2>1. n \in U
    OBVIOUS
  <2> QED
    BY <2>1
<1>2. PICK m \in U : \A x \in U : m <= x
  BY <1>1, NatMin
<1>3. m \in z
  <2> SUFFICES ASSUME m \notin z PROVE FALSE
    OBVIOUS
  <2>1. \A y \in z : y <= m - 1 /\ y >= 1
    BY <1>2
  <2>0. PICK w \in z : TRUE
    OBVIOUS
  <2>2. m >= 1 /\ m \in Nat
    BY <1>2, <2>1, <2>0
  <2>3. m - 1 \in U
    BY <1>2, <2>1, <2>2
  <2> QED
    BY <1>2, <2>3
<1>4. \A y \in z : m >= y
  BY <1>2
<1>5. Max(z) \in z /\ \A y \in z : Max(z) >= y
  BY <1>3, <1>4 DEF Max
<1> QED
  BY <1>5

Folds(h, n, V, base, F) ==
  /\ h \in [SUBSET (1 .. n) -> V]
  /\ \A z \in SUBSET (1 .. n) : h[z] = IF z = {} THEN base ELSE F[<<Max(z), h[z \ {Max(z)}]>>]

(* A fold over positions is well defined.                                   *)
LEMMA FoldExists ==
  ASSUME NEW n \in Nat, NEW V, NEW base \in V, NEW F \in [(1 .. n) \X V -> V]
  PROVE  \E h : Folds(h, n, V, base, F)
<1> DEFINE S == {k \in 0 .. n : \E h : Folds(h, k, V, base, F)}
<1>1. 0 \in S
  <2> DEFINE h == [z \in SUBSET (1 .. 0) |-> base]
  <2>1. \A z \in SUBSET (1 .. 0) : z = {}
    OBVIOUS
  <2>2. Folds(h, 0, V, base, F)
    BY <2>1 DEF Folds
  <2> QED
    BY <2>2
<1>2. ASSUME NEW k \in 1 .. n, k - 1 \in S PROVE k \in S
  <2>1. PICK h : Folds(h, k - 1, V, base, F)
    BY <1>2
  <2> DEFINE D == 1 .. k - 1
             g == [z \in SUBSET (1 .. k) |-> IF k \in z THEN F[<<k, h[z \ {k}]>>] ELSE h[z]]
  <2>2. \A z \in SUBSET (1 .. k) : z \ {k} \in SUBSET D /\ (k \notin z => z \in SUBSET D)
    OBVIOUS
  <2>3. \A z \in SUBSET D : k \notin z /\ z \in SUBSET (1 .. k) /\ g[z] = h[z]
    OBVIOUS
  <2>4. h \in [SUBSET D -> V]
    BY <2>1 DEF Folds
  <2>5. g \in [SUBSET (1 .. k) -> V]
    BY <2>2, <2>4
  <2>6. ASSUME NEW z \in SUBSET (1 .. k), z # {}
        PROVE  Max(z) \in z /\ \A y \in z : y <= Max(z)
    BY <2>6, MaxOf
  <2>7. ASSUME NEW z \in SUBSET (1 .. k)
        PROVE  g[z] = IF z = {} THEN base ELSE F[<<Max(z), g[z \ {Max(z)}]>>]
    <3>1. CASE k \in z
      <4>1. Max(z) = k
        <5>1. Max(z) \in z /\ k <= Max(z)
          BY <2>6, <3>1
        <5>2. Max(z) \in 1 .. k
          BY <5>1
        <5> QED
          BY <5>1, <5>2
      <4>2. g[z \ {k}] = h[z \ {k}]
        BY <2>2, <2>3
      <4> QED
        BY <3>1, <4>1, <4>2
    <3>2. CASE k \notin z
      <4>1. z \in SUBSET D /\ g[z] = h[z]
        BY <2>2, <2>3, <3>2
      <4>2. h[z] = IF z = {} THEN base ELSE F[<<Max(z), h[z \ {Max(z)}]>>]
        BY <2>1, <4>1 DEF Folds
      <4>3. h[z \ {Max(z)}] = g[z \ {Max(z)}]
        BY <2>3, <4>1
      <4> QED
        BY <4>1, <4>2, <4>3
    <3> QED
      BY <3>1, <3>2
  <2> HIDE DEF g
  <2>8. Folds(g, k, V, base, F)
    BY <2>5, <2>7 DEF Folds
  <2> QED
    BY <2>8
<1> HIDE DEF S
<1>3. \A k \in 0 .. n : k \in S
  BY <1>1, <1>2, UpTo
<1> QED
  BY <1>3 DEF S

Sums(h, s) ==
  /\ h \in [0 .. Len(s) -> Int] /\ h[0] = 0
  /\ \A k \in 1 .. Len(s) : h[k] = h[k - 1] + s[k]

(* Total is the last of the partial sums.                                   *)
LEMMA TotalSums ==
  ASSUME NEW s \in Seq(Int)
  PROVE  \E h : Sums(h, s) /\ Total(s) = h[Len(s)]
<1> DEFINE n == Len(s)
           F == [x \in (1 .. n) \X Int |-> x[2] + s[x[1]]]
<1>1. n \in Nat /\ DOMAIN s = 1 .. n /\ \A i \in 1 .. n : s[i] \in Int
  BY LenProperties, ElementOfSeq
<1>2. F \in [(1 .. n) \X Int -> Int]
  BY <1>1
<1> DEFINE P(h) == h = [z \in SUBSET DOMAIN s |-> IF z = {} THEN 0 ELSE h[z \ {Max(z)}] + s[Max(z)]]
<1>3. \E h \in [SUBSET (1 .. n) -> Int] : P(h)
  <2>1. PICK h : Folds(h, n, Int, 0, F)
    <3>1. 0 \in Int
      OBVIOUS
    <3> HIDE DEF F, n
    <3> QED
      BY <1>1, <1>2, <3>1, FoldExists, Zenon
  <2>2. ASSUME NEW z \in SUBSET (1 .. n), z # {} PROVE h[z] = h[z \ {Max(z)}] + s[Max(z)]
    <3>1. Max(z) \in 1 .. n
      BY <1>1, <2>2, MaxOf
    <3>2. h[z \ {Max(z)}] \in Int /\ h[z] = F[<<Max(z), h[z \ {Max(z)}]>>]
      BY <2>1, <2>2 DEF Folds
    <3> QED
      BY <3>1, <3>2
  <2>3. h \in [SUBSET (1 .. n) -> Int] /\ ({} \in SUBSET (1 .. n) => h[{}] = 0)
    BY <2>1 DEF Folds
  <2>4. P(h)
    BY <1>1, <2>2, <2>3
  <2> QED
    BY <2>3, <2>4
<1> DEFINE g == CHOOSE h : P(h)
<1>4. P(g)
  BY <1>3
<1>5. Total(s) = g[DOMAIN s]
  BY DEF Total, FoldLeft, MapThenFoldSet
<1> HIDE DEF g
<1> DEFINE t == [k \in 0 .. n |-> g[1 .. k]]
<1>6. t[0] = 0
  <2>1. 1 .. 0 = {} /\ {} \in SUBSET DOMAIN s /\ 0 \in 0 .. n
    BY <1>1
  <2>2. g[{}] = 0
    BY <1>4, <2>1
  <2> QED
    BY <2>1, <2>2
<1>7. ASSUME NEW k \in 1 .. n PROVE t[k] = t[k - 1] + s[k]
  <2>1. 1 .. k \in SUBSET (1 .. n) /\ k \in 1 .. k
    BY <1>1
  <2>2. Max(1 .. k) \in 1 .. k /\ k <= Max(1 .. k)
    BY <1>1, <2>1, MaxOf
  <2>3. Max(1 .. k) = k /\ (1 .. k) \ {k} = 1 .. k - 1 /\ 1 .. k # {} /\ 1 .. k \in SUBSET DOMAIN s
    BY <1>1, <2>1, <2>2
  <2>4. g[1 .. k] = g[(1 .. k) \ {Max(1 .. k)}] + s[Max(1 .. k)]
    BY <1>4, <2>3
  <2>5. k \in 0 .. n /\ k - 1 \in 0 .. n
    BY <1>1
  <2> QED
    BY <2>3, <2>4, <2>5
<1> HIDE DEF t
<1>8. \A k \in 0 .. n : t[k] \in Int
  <2> DEFINE T == {k \in 0 .. n : t[k] \in Int}
  <2>1. 0 \in T
    BY <1>1, <1>6
  <2>2. ASSUME NEW k \in 1 .. n, k - 1 \in T PROVE k \in T
    BY <1>1, <1>7, <2>2
  <2> HIDE DEF T
  <2>3. \A k \in 0 .. n : k \in T
    BY <1>1, <2>1, <2>2, UpTo
  <2> QED
    BY <2>3 DEF T
<1>9. t \in [0 .. n -> Int]
  BY <1>8 DEF t
<1>10. t[n] = Total(s)
  BY <1>1, <1>5 DEF t
<1> QED
  BY <1>6, <1>7, <1>9, <1>10 DEF Sums

LEMMA TotalEmpty == Total(<<>>) = 0
<1>1. <<>> \in Seq(Int) /\ Len(<<>>) = 0
  OBVIOUS
<1>2. PICK h : Sums(h, <<>>) /\ Total(<<>>) = h[Len(<<>>)]
  BY <1>1, TotalSums
<1> QED
  BY <1>1, <1>2 DEF Sums

LEMMA TotalAppend ==
  ASSUME NEW s \in Seq(Int), NEW x \in Int
  PROVE  Total(Append(s, x)) = Total(s) + x /\ Total(s) \in Int
<1> DEFINE n == Len(s)  t == Append(s, x)
<1>1. /\ n \in Nat /\ Len(t) = n + 1 /\ t \in Seq(Int) /\ t[n + 1] = x
      /\ \A i \in 1 .. n : t[i] = s[i]
  BY Appended
<1>2. PICK g : Sums(g, s) /\ Total(s) = g[n]
  BY TotalSums
<1>3. PICK h : Sums(h, t) /\ Total(t) = h[Len(t)]
  BY <1>1, TotalSums
<1> HIDE DEF n, t
<1>4. g[n] = h[n]
  <2> DEFINE S == {k \in 0 .. n : g[k] = h[k]}
  <2>1. 0 \in S
    BY <1>1, <1>2, <1>3 DEF Sums
  <2>2. \A k \in 1 .. n : g[k] = g[k - 1] + s[k] /\ h[k] = h[k - 1] + s[k]
    BY <1>1, <1>2, <1>3 DEF Sums, n
  <2>3. ASSUME NEW k \in 1 .. n, k - 1 \in S PROVE k \in S
    BY <1>1, <2>2, <2>3
  <2> HIDE DEF S
  <2>4. \A k \in 0 .. n : k \in S
    BY <1>1, <2>1, <2>3, UpTo
  <2> QED
    BY <1>1, <2>4 DEF S
<1>5. h[n + 1] = h[n] + x
  BY <1>1, <1>3 DEF Sums
<1>6. g[n] \in Int
  BY <1>1, <1>2 DEF Sums, n
<1> QED
  BY <1>1, <1>2, <1>3, <1>4, <1>5, <1>6 DEF n, t

-----------------------------------------------------------------------------
(***************************************************************************)
(* PNG.  What the flags of the loop say of the chunks read so far.         *)
(***************************************************************************)
PngScans == [ok : BOOLEAN, count : Nat, ihdr : BOOLEAN, plte : BOOLEAN, idat : BOOLEAN,
             idatClosed : BOOLEAN, colour : Nat, depth : Nat, ended : BOOLEAN]

At(f, type) == Positions(f, "type", type)

PngKnows(s, f) ==
  /\ s.count = Len(f)
  /\ s.ihdr <=> f # <<>>
  /\ f # <<>> => s.colour = f[1].colour /\ s.depth = f[1].depth
  /\ s.plte <=> At(f, "PLTE") # {}
  /\ s.idat <=> At(f, "IDAT") # {}
  /\ s.idatClosed <=> \E d \in At(f, "IDAT"), e \in DOMAIN f : d < e /\ f[e].type \notin {"IDAT", "IEND"}
  /\ s.ended <=> At(f, "IEND") # {}

PngInv(s, f) ==
  /\ s \in PngScans
  /\ s.ok <=> PngPrefix(f)
  /\ s.ok => PngKnows(s, f)

(* Where a type occurs after one more chunk.                                *)
LEMMA AtAppended ==
  ASSUME NEW S, NEW f \in Seq(S), NEW u \in S, NEW type
  PROVE  /\ At(f, type) \subseteq 1 .. Len(f)
         /\ \A i : i \in At(f, type) => f[i].type = type
         /\ u.type = type => At(Append(f, u), type) = At(f, type) \cup {Len(f) + 1}
         /\ u.type # type => At(Append(f, u), type) = At(f, type)
<1> DEFINE g == Append(f, u)
<1>1. At(f, type) = {i \in 1 .. Len(f) : f[i].type = type}
  BY Appended DEF At, Positions
<1>2. At(g, type) = {i \in 1 .. Len(f) + 1 : g[i].type = type}
  BY Appended DEF At, Positions
<1>3. \A i \in 1 .. Len(f) : g[i] = f[i]
  BY Appended
<1>4. g[Len(f) + 1] = u /\ Len(f) \in Nat
  BY Appended
<1> HIDE DEF g
<1>5. \A i : i \in 1 .. Len(f) + 1 <=> i \in 1 .. Len(f) \/ i = Len(f) + 1
  BY <1>4
<1>6. Len(f) + 1 \notin 1 .. Len(f)
  BY <1>4
<1> QED
  BY <1>1, <1>2, <1>3, <1>4, <1>5, <1>6 DEF g

(* What the definition of a prefix and the flags say, by positions.         *)
LEMMA PngUnfold ==
  ASSUME NEW f \in Seq(PngChunks), NEW s
  PROVE  /\ PngPrefix(f) <=>
              /\ Len(f) <= PNG_MAX_CHUNKS
              /\ \A i \in 1 .. Len(f) : /\ f[i].letters /\ f[i].fits /\ f[i].crc
                                        /\ f[i].type # "critical"
              /\ Len(f) # 0 => At(f, "IHDR") = {1} /\ f[1].length = 13 /\ ValidatePngIhdr(f[1])
              /\ \A p \in At(f, "PLTE") :
                   /\ At(f, "PLTE") = {p} /\ \A d \in At(f, "IDAT") : p < d
                   /\ ValidPalette(f[p].length, f[1].colour, f[1].depth)
              /\ \A d, e \in At(f, "IDAT") : d .. e \subseteq At(f, "IDAT")
              /\ At(f, "IDAT") # {} /\ f[1].colour = Indexed => At(f, "PLTE") # {}
              /\ \A i \in At(f, "IEND") : i = Len(f) /\ f[i].length = 0 /\ At(f, "IDAT") # {}
         /\ PngKnows(s, f) <=>
              /\ s.count = Len(f)
              /\ s.ihdr <=> Len(f) # 0
              /\ Len(f) # 0 => s.colour = f[1].colour /\ s.depth = f[1].depth
              /\ s.plte <=> At(f, "PLTE") # {}
              /\ s.idat <=> At(f, "IDAT") # {}
              /\ s.idatClosed <=> \E d \in At(f, "IDAT"), e \in 1 .. Len(f) :
                                    d < e /\ f[e].type \notin {"IDAT", "IEND"}
              /\ s.ended <=> At(f, "IEND") # {}
<1>1. DOMAIN f = 1 .. Len(f) /\ (f = <<>> <=> Len(f) = 0)
  BY LenProperties, EmptySeq
<1> QED
  BY <1>1, Zenon DEF PngPrefix, PngKnows, At

(* A chunk the loop takes keeps the prefix well formed.                     *)
LEMMA PngTakes ==
  ASSUME NEW f \in Seq(PngChunks), NEW u \in PngChunks, NEW s \in PngScans,
         PngPrefix(f), PngKnows(s, f), ~RefusesChunk(s, u)
  PROVE  PngPrefix(Append(f, u))
<1> DEFINE g == Append(f, u)  n == Len(f)
<1>1. /\ n \in Nat /\ Len(g) = n + 1
      /\ \A i \in 1 .. n : g[i] = f[i]
      /\ g[n + 1] = u /\ g \in Seq(PngChunks)
  BY Appended
<1>6. \A i : i \in 1 .. n + 1 <=> i \in 1 .. n \/ i = n + 1
  BY <1>1
<1> DEFINE P == At(f, "PLTE")  D == At(f, "IDAT")  H == At(f, "IHDR")  E == At(f, "IEND")
<1>2. /\ P \subseteq 1 .. n /\ D \subseteq 1 .. n /\ H \subseteq 1 .. n /\ E \subseteq 1 .. n
      /\ u.type = "PLTE" => At(g, "PLTE") = P \cup {n + 1}
      /\ u.type # "PLTE" => At(g, "PLTE") = P
      /\ u.type = "IDAT" => At(g, "IDAT") = D \cup {n + 1}
      /\ u.type # "IDAT" => At(g, "IDAT") = D
      /\ u.type = "IHDR" => At(g, "IHDR") = H \cup {n + 1}
      /\ u.type # "IHDR" => At(g, "IHDR") = H
      /\ u.type = "IEND" => At(g, "IEND") = E \cup {n + 1}
      /\ u.type # "IEND" => At(g, "IEND") = E
  <2>1. ASSUME NEW type
        PROVE  /\ At(f, type) \subseteq 1 .. n
               /\ u.type = type => At(g, type) = At(f, type) \cup {n + 1}
               /\ u.type # type => At(g, type) = At(f, type)
    BY AtAppended
  <2> QED
    BY <2>1
<1>7. \A i \in 1 .. n : i \notin D => f[i].type # "IDAT"
  BY Appended DEF At, Positions
<1>3. /\ n <= PNG_MAX_CHUNKS
      /\ \A i \in 1 .. n : f[i].letters /\ f[i].fits /\ f[i].crc /\ f[i].type # "critical"
      /\ n # 0 => H = {1} /\ f[1].length = 13 /\ ValidatePngIhdr(f[1])
      /\ \A p \in P : /\ P = {p} /\ \A d \in D : p < d
                      /\ ValidPalette(f[p].length, f[1].colour, f[1].depth)
      /\ \A d, e \in D : d .. e \subseteq D
      /\ D # {} /\ f[1].colour = Indexed => P # {}
      /\ \A i \in E : i = n /\ f[i].length = 0 /\ D # {}
  BY PngUnfold
<1>4. /\ s.count = n /\ (s.ihdr <=> n # 0) /\ (n # 0 => s.colour = f[1].colour /\ s.depth = f[1].depth)
      /\ (s.plte <=> P # {}) /\ (s.idat <=> D # {}) /\ (s.ended <=> E # {})
      /\ (s.idatClosed <=> \E d \in D, e \in 1 .. n : d < e /\ f[e].type \notin {"IDAT", "IEND"})
  BY PngUnfold
<1>5. /\ ~s.ended /\ s.count < PNG_MAX_CHUNKS
      /\ u.letters /\ u.fits /\ u.crc
      /\ s.count = 0 => u.type = "IHDR"
      /\ u.type # "critical"
      /\ u.type = "IHDR" => ~s.ihdr /\ u.length = 13 /\ ValidatePngIhdr(u)
      /\ u.type # "IHDR" => s.ihdr
      /\ u.type = "PLTE" => ~s.plte /\ ~s.idat /\ ValidPalette(u.length, s.colour, s.depth)
      /\ u.type = "IDAT" => ~s.idatClosed /\ (s.colour = Indexed => s.plte)
      /\ u.type = "IEND" => u.length = 0 /\ s.idat
  <2>1. PNG_MAX_CHUNKS \in Nat
    BY LimitTypes
  <2>2. s.count < PNG_MAX_CHUNKS <=> ~(s.count >= PNG_MAX_CHUNKS)
    BY <1>1, <1>4, <2>1
  <2> HIDE DEF g, n, P, D, H, E
  <2> QED
    BY <2>2 DEF RefusesChunk, PngScans
<1> HIDE DEF g, n, P, D, H, E
<1>a. Len(g) <= PNG_MAX_CHUNKS
  BY <1>1, <1>4, <1>5, LimitTypes
<1>b. \A i \in 1 .. Len(g) : g[i].letters /\ g[i].fits /\ g[i].crc /\ g[i].type # "critical"
  BY <1>1, <1>3, <1>5, <1>6
<1>8. n # 0 => g[1] = f[1] /\ u.type # "IHDR"
  BY <1>1, <1>4, <1>5
<1>9. n = 0 => u.type = "IHDR" /\ H = {} /\ D = {} /\ P = {} /\ E = {} /\ g[1] = u
  BY <1>1, <1>2, <1>4, <1>5
<1>c. Len(g) # 0 => At(g, "IHDR") = {1} /\ g[1].length = 13 /\ ValidatePngIhdr(g[1])
  <2>1. CASE n = 0
    BY <2>1, <1>2, <1>5, <1>9
  <2>2. CASE n # 0
    BY <2>2, <1>2, <1>3, <1>8
  <2> QED
    BY <2>1, <2>2
<1>d. \A p \in At(g, "PLTE") :
        /\ At(g, "PLTE") = {p} /\ \A d \in At(g, "IDAT") : p < d
        /\ ValidPalette(g[p].length, g[1].colour, g[1].depth)
  <2>1. CASE u.type = "PLTE"
    <3>1. P = {} /\ D = {} /\ ValidPalette(u.length, f[1].colour, f[1].depth) /\ n # 0
      BY <2>1, <1>1, <1>4, <1>5
    <3>2. At(g, "PLTE") = {n + 1} /\ At(g, "IDAT") = {}
      BY <2>1, <3>1, <1>2
    <3> QED
      BY <3>1, <3>2, <1>1, <1>8
  <2>2. CASE u.type # "PLTE" /\ n # 0
    <3>1. \A p \in P : P = {p} /\ ValidPalette(g[p].length, g[1].colour, g[1].depth)
      BY <2>2, <1>1, <1>2, <1>3, <1>8
    <3>2. \A p \in P, d \in D \cup {n + 1} : p < d
      BY <1>1, <1>2, <1>3
    <3> QED
      BY <2>2, <1>2, <3>1, <3>2
  <2>3. CASE n = 0
    BY <2>3, <1>2, <1>9
  <2> QED
    BY <2>1, <2>2, <2>3
<1>e. \A d, e \in At(g, "IDAT") : d .. e \subseteq At(g, "IDAT")
  <2>1. CASE u.type = "IDAT"
    <3>1. \A d \in D, e \in 1 .. n : d < e => f[e].type \in {"IDAT", "IEND"}
      BY <2>1, <1>4, <1>5
    <3>2. \A e \in 1 .. n : f[e].type # "IEND"
      BY <1>4, <1>5, Appended DEF At, Positions, E, n
    <3>3. \A d \in D, e \in 1 .. n : d <= e => e \in D
      <4> SUFFICES ASSUME NEW d \in D, NEW e \in 1 .. n, d <= e PROVE e \in D
        OBVIOUS
      <4>1. CASE d = e
        BY <4>1
      <4>2. CASE d < e
        BY <4>2, <3>1, <3>2, <1>7
      <4> QED
        BY <4>1, <4>2, <1>1, <1>2
    <3> SUFFICES ASSUME NEW d \in D \cup {n + 1}, NEW e \in D \cup {n + 1}, NEW i \in d .. e
                 PROVE  i \in D \cup {n + 1}
      BY <2>1, <1>2
    <3>4. d \in Nat /\ e \in Nat /\ d >= 1 /\ e <= n + 1 /\ i \in Nat /\ d <= i /\ i <= e
      BY <1>1, <1>2
    <3>5. CASE i = n + 1
      BY <3>5
    <3>6. CASE i # n + 1
      BY <3>6, <3>4, <3>3, <1>1
    <3> QED
      BY <3>5, <3>6
  <2>2. CASE u.type # "IDAT"
    BY <2>2, <1>2, <1>3
  <2> QED
    BY <2>1, <2>2
<1>f. At(g, "IDAT") # {} /\ g[1].colour = Indexed => At(g, "PLTE") # {}
  <2>1. CASE n = 0
    BY <2>1, <1>2, <1>9
  <2>2. CASE n # 0
    <3>1. P # {} => At(g, "PLTE") # {}
      BY <1>2
    <3>2. g[1].colour = s.colour
      BY <2>2, <1>4, <1>8
    <3>3. D # {} /\ g[1].colour = Indexed => P # {}
      BY <2>2, <1>3, <1>8
    <3>4. u.type = "IDAT" /\ g[1].colour = Indexed => P # {}
      BY <3>2, <1>4, <1>5
    <3> QED
      BY <3>1, <3>3, <3>4, <1>2
  <2> QED
    BY <2>1, <2>2
<1>g. \A i \in At(g, "IEND") : i = Len(g) /\ g[i].length = 0 /\ At(g, "IDAT") # {}
  BY <1>1, <1>2, <1>3, <1>4, <1>5
<1> QED
  BY <1>1, <1>a, <1>b, <1>c, <1>d, <1>e, <1>f, <1>g, PngUnfold DEF g

(* A chunk the loop refuses cannot follow the prefix.                       *)
LEMMA PngRefuses ==
  ASSUME NEW f \in Seq(PngChunks), NEW u \in PngChunks, NEW s \in PngScans,
         PngPrefix(f), PngKnows(s, f), PngPrefix(Append(f, u))
  PROVE  ~RefusesChunk(s, u)
<1> DEFINE g == Append(f, u)  n == Len(f)
<1>1. /\ n \in Nat /\ Len(g) = n + 1
      /\ \A i \in 1 .. n : g[i] = f[i]
      /\ g[n + 1] = u /\ g \in Seq(PngChunks)
  BY Appended
<1>2. ASSUME NEW type
      PROVE  /\ At(f, type) \subseteq 1 .. n
             /\ At(f, type) \subseteq At(g, type)
             /\ u.type = type => n + 1 \in At(g, type)
             /\ u.type # type => At(g, type) = At(f, type)
  <2>1. /\ At(f, type) \subseteq 1 .. n
        /\ u.type = type => At(g, type) = At(f, type) \cup {n + 1}
        /\ u.type # type => At(g, type) = At(f, type)
    BY AtAppended
  <2> QED
    BY <2>1
<1>3. /\ n + 1 <= PNG_MAX_CHUNKS
      /\ u.letters /\ u.fits /\ u.crc /\ u.type # "critical"
      /\ At(g, "IHDR") = {1} /\ g[1].length = 13 /\ ValidatePngIhdr(g[1])
      /\ \A p \in At(g, "PLTE") :
           /\ At(g, "PLTE") = {p} /\ \A d \in At(g, "IDAT") : p < d
           /\ ValidPalette(g[p].length, g[1].colour, g[1].depth)
      /\ \A d, e \in At(g, "IDAT") : d .. e \subseteq At(g, "IDAT")
      /\ At(g, "IDAT") # {} /\ g[1].colour = Indexed => At(g, "PLTE") # {}
      /\ \A i \in At(g, "IEND") : i = n + 1 /\ g[i].length = 0 /\ At(g, "IDAT") # {}
  <2>1. /\ n + 1 <= PNG_MAX_CHUNKS
        /\ \A i \in 1 .. n + 1 : g[i].letters /\ g[i].fits /\ g[i].crc /\ g[i].type # "critical"
    BY <1>1, PngUnfold
  <2>2. n + 1 \in 1 .. n + 1 /\ n + 1 # 0
    BY <1>1
  <2>3. u.letters /\ u.fits /\ u.crc /\ u.type # "critical"
    BY <1>1, <2>1, <2>2
  <2> HIDE DEF g
  <2>4. g \in Seq(PngChunks) /\ PngPrefix(g) /\ Len(g) = n + 1
    BY <1>1 DEF g
  <2> QED
    BY <2>1, <2>2, <2>3, <2>4, PngUnfold
<1>4. /\ s.count = n /\ (s.ihdr <=> n # 0) /\ (n # 0 => s.colour = f[1].colour /\ s.depth = f[1].depth)
      /\ (s.plte <=> At(f, "PLTE") # {}) /\ (s.idat <=> At(f, "IDAT") # {})
      /\ (s.ended <=> At(f, "IEND") # {})
      /\ (s.idatClosed <=> \E d \in At(f, "IDAT"), e \in 1 .. n :
                             d < e /\ f[e].type \notin {"IDAT", "IEND"})
  BY PngUnfold
<1>5. /\ n # 0 => At(f, "IHDR") = {1} /\ g[1] = f[1]
      /\ n = 0 => g[1] = u
  BY <1>1, PngUnfold
<1> HIDE DEF g, n
<1>6. n + 1 # 1 => u.type # "IHDR"
  BY <1>2, <1>3
<1>7. u.type # "IHDR" => n # 0
  <2> SUFFICES ASSUME u.type # "IHDR", n = 0 PROVE FALSE
    OBVIOUS
  <2>1. 1 \in At(f, "IHDR") /\ At(f, "IHDR") \subseteq 1 .. 0
    BY <1>2, <1>3
  <2> QED
    BY <2>1
<1>a. ~s.ended /\ ~(s.count >= PNG_MAX_CHUNKS)
  <2>1. ASSUME NEW i \in At(f, "IEND") PROVE FALSE
    <3>1. i \in 1 .. n /\ i = n + 1
      BY <1>2, <1>3
    <3> QED
      BY <3>1, <1>1
  <2> QED
    BY <2>1, <1>1, <1>3, <1>4, LimitTypes
<1>b. ~(s.count = 0 /\ u.type # "IHDR") /\ ~(u.type # "IHDR" /\ ~s.ihdr)
  BY <1>4, <1>7
<1>c. u.type = "IHDR" => ~s.ihdr /\ u.length = 13 /\ ValidatePngIhdr(u)
  BY <1>1, <1>3, <1>4, <1>5, <1>6
<1>d. u.type = "PLTE" => ~s.plte /\ ~s.idat /\ ValidPalette(u.length, s.colour, s.depth)
  <2> SUFFICES ASSUME u.type = "PLTE" PROVE ~s.plte /\ ~s.idat /\ ValidPalette(u.length, s.colour, s.depth)
    OBVIOUS
  <2>1. /\ At(g, "PLTE") = {n + 1} /\ \A d \in At(g, "IDAT") : n + 1 < d
        /\ ValidPalette(u.length, g[1].colour, g[1].depth)
    BY <1>1, <1>2, <1>3
  <2>2. At(f, "PLTE") = {}
    BY <2>1, <1>1, <1>2
  <2>3. At(f, "IDAT") = {}
    BY <2>1, <1>1, <1>2
  <2> QED
    BY <2>1, <2>2, <2>3, <1>4, <1>5, <1>7
<1>e. u.type = "IDAT" => ~s.idatClosed /\ (s.colour = Indexed => s.plte)
  <2> SUFFICES ASSUME u.type = "IDAT" PROVE ~s.idatClosed /\ (s.colour = Indexed => s.plte)
    OBVIOUS
  <2>1. ASSUME NEW d \in At(f, "IDAT"), NEW e \in 1 .. n, d < e
        PROVE  f[e].type = "IDAT"
    <3>1. d \in At(g, "IDAT") /\ n + 1 \in At(g, "IDAT") /\ d \in 1 .. n
      BY <1>2
    <3>2. e \in d .. n + 1
      BY <2>1, <3>1, <1>1
    <3>3. e \in At(g, "IDAT")
      BY <3>1, <3>2, <1>3
    <3>4. g[e].type = "IDAT"
      BY <3>3 DEF At, Positions
    <3> QED
      BY <3>4, <1>1
  <2>2. s.colour = Indexed => s.plte
    <3>1. n + 1 \in At(g, "IDAT") /\ n # 0
      BY <1>2, <1>7
    <3>2. s.colour = g[1].colour
      BY <3>1, <1>4, <1>5
    <3> QED
      BY <3>1, <3>2, <1>2, <1>3, <1>4
  <2> QED
    BY <2>1, <2>2, <1>4
<1>f. u.type = "IEND" => u.length = 0 /\ s.idat
  BY <1>1, <1>2, <1>3, <1>4
<1> QED
  BY <1>3, <1>a, <1>b, <1>c, <1>d, <1>e, <1>f DEF RefusesChunk

(* A step of the loop keeps what the flags say.                             *)
LEMMA PngStepInv ==
  ASSUME NEW f \in Seq(PngChunks), NEW u \in PngChunks, NEW s, PngInv(s, f), s.ok
  PROVE  PngInv(PngStep(s, u), Append(f, u))
<1> DEFINE g == Append(f, u)  n == Len(f)  t == PngStep(s, u)
<1>1. s \in PngScans /\ PngPrefix(f) /\ PngKnows(s, f)
  BY DEF PngInv
<1>2. CASE RefusesChunk(s, u)
  <2>1. t = [s EXCEPT !.ok = FALSE]
    BY <1>2 DEF PngStep
  <2>2. t \in PngScans /\ t.ok = FALSE
    BY <1>1, <2>1 DEF PngScans
  <2> QED
    BY <1>1, <1>2, <2>2, PngRefuses DEF PngInv
<1>3. CASE ~RefusesChunk(s, u)
  <2>1. PngPrefix(g)
    BY <1>1, <1>3, PngTakes
  <2>2. /\ t \in PngScans /\ t.ok /\ t.count = s.count + 1 /\ t.ihdr
        /\ t.colour = IF u.type = "IHDR" THEN u.colour ELSE s.colour
        /\ t.depth = IF u.type = "IHDR" THEN u.depth ELSE s.depth
        /\ t.plte <=> (s.plte \/ u.type = "PLTE")
        /\ t.idat <=> (s.idat \/ u.type = "IDAT")
        /\ t.idatClosed <=> (s.idatClosed \/ ClosesIdat(s, u))
        /\ t.ended <=> u.type = "IEND"
    <3>1. t = [s EXCEPT !.count = s.count + 1,
                 !.ihdr = TRUE,
                 !.colour = IF u.type = "IHDR" THEN u.colour ELSE s.colour,
                 !.depth = IF u.type = "IHDR" THEN u.depth ELSE s.depth,
                 !.plte = s.plte \/ u.type = "PLTE",
                 !.idat = s.idat \/ u.type = "IDAT",
                 !.idatClosed = s.idatClosed \/ ClosesIdat(s, u),
                 !.ended = u.type = "IEND"]
      BY <1>3 DEF PngStep
    <3>2. PICK plte \in BOOLEAN, idat \in BOOLEAN, closed \in BOOLEAN, ended \in BOOLEAN :
            /\ plte = (s.plte \/ u.type = "PLTE") /\ idat = (s.idat \/ u.type = "IDAT")
            /\ closed = (s.idatClosed \/ ClosesIdat(s, u)) /\ ended = (u.type = "IEND")
      OBVIOUS
    <3>3. PICK colour \in Nat, depth \in Nat :
            /\ colour = IF u.type = "IHDR" THEN u.colour ELSE s.colour
            /\ depth = IF u.type = "IHDR" THEN u.depth ELSE s.depth
      BY <1>1 DEF PngScans, PngChunks
    <3>4. t = [s EXCEPT !.count = s.count + 1, !.ihdr = TRUE, !.colour = colour, !.depth = depth,
                 !.plte = plte, !.idat = idat, !.idatClosed = closed, !.ended = ended]
      BY <3>1, <3>2, <3>3
    <3>5. t \in PngScans
      <4>0. s.count + 1 \in Nat
        BY <1>1 DEF PngScans
      <4>1. PICK a \in PngScans : a = [s EXCEPT !.count = s.count + 1, !.ihdr = TRUE]
        <5>1. [s EXCEPT !.count = s.count + 1] \in PngScans
          BY <4>0, <1>1 DEF PngScans
        <5>2. [[s EXCEPT !.count = s.count + 1] EXCEPT !.ihdr = TRUE] \in PngScans
          BY <5>1 DEF PngScans
        <5> QED
          BY <5>2, Zenon
      <4>2. PICK b \in PngScans : b = [a EXCEPT !.colour = colour, !.depth = depth]
        BY <4>1 DEF PngScans
      <4>3. PICK c \in PngScans : c = [b EXCEPT !.plte = plte, !.idat = idat]
        BY <4>2 DEF PngScans
      <4>4. t = [c EXCEPT !.idatClosed = closed, !.ended = ended]
        BY <1>1, <3>4, <4>1, <4>2, <4>3
      <4> QED
        BY <4>4 DEF PngScans
    <3>6. /\ t.ok = s.ok /\ t.count = s.count + 1 /\ t.ihdr = TRUE /\ t.colour = colour
          /\ t.depth = depth /\ t.plte = plte /\ t.idat = idat /\ t.idatClosed = closed
          /\ t.ended = ended
      BY <1>1, <3>4 DEF PngScans
    <3> HIDE DEF t
    <3> QED
      BY <3>2, <3>3, <3>5, <3>6, Zenon
  <2>3. /\ n \in Nat /\ Len(g) = n + 1
        /\ \A i \in 1 .. n : g[i] = f[i]
        /\ g[n + 1] = u /\ g \in Seq(PngChunks)
    BY Appended
  <2>4. ASSUME NEW type
        PROVE  /\ At(f, type) \subseteq 1 .. n
               /\ u.type = type => At(g, type) = At(f, type) \cup {n + 1}
               /\ u.type # type => At(g, type) = At(f, type)
    BY AtAppended
  <2>5. /\ s.count = n /\ (s.ihdr <=> n # 0) /\ (n # 0 => s.colour = f[1].colour /\ s.depth = f[1].depth)
        /\ (s.plte <=> At(f, "PLTE") # {}) /\ (s.idat <=> At(f, "IDAT") # {})
        /\ (s.ended <=> At(f, "IEND") # {})
        /\ (s.idatClosed <=> \E d \in At(f, "IDAT"), e \in 1 .. n :
                               d < e /\ f[e].type \notin {"IDAT", "IEND"})
    BY <1>1, PngUnfold
  <2>6. ~s.ended /\ (n = 0 <=> u.type = "IHDR")
    BY <1>3, <2>3, <2>5 DEF RefusesChunk
  <2> HIDE DEF g, n, t
  <2>7. t.colour = g[1].colour /\ t.depth = g[1].depth
    BY <2>2, <2>3, <2>5, <2>6
  <2>8. (t.plte <=> At(g, "PLTE") # {}) /\ (t.idat <=> At(g, "IDAT") # {})
        /\ (t.ended <=> At(g, "IEND") # {})
    <3>1. (t.plte <=> At(g, "PLTE") # {})
      BY <2>2, <2>4, <2>5
    <3>2. (t.idat <=> At(g, "IDAT") # {})
      BY <2>2, <2>4, <2>5
    <3>3. (t.ended <=> At(g, "IEND") # {})
      BY <2>2, <2>4, <2>5, <2>6
    <3> QED
      BY <3>1, <3>2, <3>3
  <2>9. t.idatClosed <=> \E d \in At(g, "IDAT"), e \in 1 .. n + 1 :
                           d < e /\ g[e].type \notin {"IDAT", "IEND"}
    <3>1. ASSUME s.idatClosed \/ ClosesIdat(s, u)
          PROVE  \E d \in At(g, "IDAT"), e \in 1 .. n + 1 : d < e /\ g[e].type \notin {"IDAT", "IEND"}
      <4>1. CASE s.idatClosed
        <5>1. PICK d \in At(f, "IDAT"), e \in 1 .. n : d < e /\ f[e].type \notin {"IDAT", "IEND"}
          BY <4>1, <2>5
        <5>2. d \in At(g, "IDAT") /\ e \in 1 .. n + 1 /\ g[e] = f[e]
          BY <2>3, <2>4
        <5> QED
          BY <5>1, <5>2
      <4>2. CASE ClosesIdat(s, u)
        <5>1. PICK d \in At(f, "IDAT") : TRUE
          BY <4>2, <2>5 DEF ClosesIdat
        <5>2. u.type \notin {"IDAT", "IEND"} /\ d \in At(g, "IDAT") /\ d < n + 1 /\ n + 1 \in 1 .. n + 1
          BY <4>2, <2>3, <2>4 DEF ClosesIdat
        <5> QED
          BY <5>1, <5>2, <2>3
      <4> QED
        BY <3>1, <4>1, <4>2
    <3>2. ASSUME NEW d \in At(g, "IDAT"), NEW e \in 1 .. n + 1, d < e, g[e].type \notin {"IDAT", "IEND"}
          PROVE  s.idatClosed \/ ClosesIdat(s, u)
      <4>1. d \in At(f, "IDAT") /\ d \in 1 .. n
        BY <3>2, <2>3, <2>4
      <4>2. CASE e = n + 1
        BY <3>2, <4>1, <4>2, <2>3, <2>5 DEF ClosesIdat
      <4>3. CASE e \in 1 .. n
        BY <3>2, <4>1, <4>3, <2>3, <2>5
      <4> QED
        BY <4>2, <4>3, <2>3
    <3> QED
      BY <3>1, <3>2, <2>2
  <2>a. PngKnows(t, g)
    BY <2>2, <2>3, <2>5, <2>7, <2>8, <2>9, PngUnfold
  <2> QED
    BY <2>1, <2>2, <2>a DEF PngInv, g, t
<1> QED
  BY <1>2, <1>3

(* At the start nothing is known, and the empty file is a prefix.           *)
LEMMA PngStartInv == PngInv(PngStart, <<>>)
<1>1. <<>> \in Seq(PngChunks) /\ Len(<<>>) = 0 /\ 1 .. 0 = {}
  BY EmptySeq
<1>2. \A type : At(<<>>, type) = {}
  BY DEF At, Positions
<1> DEFINE f == <<>>
<1>5. DOMAIN f = {}
  OBVIOUS
<1>3. PngPrefix(f)
  <2> HIDE DEF f
  <2>1. \A type : Positions(f, "type", type) = {}
    BY <1>2 DEF At, f
  <2> QED
    BY <2>1, <1>1, <1>5, LimitTypes DEF PngPrefix, f
<1>4. PngKnows(PngStart, f)
  BY <1>1, <1>2, <1>5 DEF PngStart, PngKnows
<1> QED
  BY <1>3, <1>4 DEF PngInv, PngStart, PngScans

(* So the verdict is that of the grammar.                                   *)
LEMMA PngVerdict ==
  ASSUME NEW f, NEW s, PngInv(s, f)
  PROVE  Agrees(s.ok, PngPrefix(f), PngAccepts(s), IsPng(f))
  BY DEF PngInv, PngKnows, Agrees, PngAccepts, IsPng, At

-----------------------------------------------------------------------------
(***************************************************************************)
(* JPEG.  The loop counts headers until the first start of scan, and from  *)
(* there only remembers how much it saw and the last marker.               *)
(***************************************************************************)
JpegScans == [ok : BOOLEAN, units : Nat, count : Nat, frame : BOOLEAN, scan : BOOLEAN,
              rest : Nat, last : STRING \cup {"none"}]

Occurs(f, marker) == Positions(f, "marker", marker) \ {1}

(* What a header segment at position i must be.                             *)
LegalHeader(f, i) ==
  /\ i - 1 <= JPEG_MAX_HEADER_MARKERS
  /\ f[i].synced /\ f[i].marker \notin {"stuffed", "EOI"}
  /\ f[i].marker \in Standalone \/ (f[i].length >= 2 /\ f[i].fits)
  /\ i \in Occurs(f, "SOF") => ValidStartOfFrame(f[i])
  /\ i \in Occurs(f, "SOS") => ValidStartOfScan(f[i]) /\ \E j \in Occurs(f, "SOF") : j < i

JpegKnows(s, f) ==
  /\ s.units = Len(f)
  /\ s.scan <=> Occurs(f, "SOS") # {}
  /\ ~s.scan => /\ s.frame <=> Occurs(f, "SOF") # {}
                /\ Len(f) > 0 => s.count = Len(f) - 1
                /\ s.rest = 0
  /\ s.scan => \E k \in Occurs(f, "SOS") :
                 (\A j \in Occurs(f, "SOS") : k <= j) /\ s.rest = Len(f) - k
  /\ Len(f) > 0 => s.last = f[Len(f)].marker
  /\ Len(f) = 0 => s.count = 0

JpegInv(s, f) ==
  /\ s \in JpegScans
  /\ s.ok <=> JpegPrefix(f)
  /\ s.ok => JpegKnows(s, f)

LEMMA JpegUnfold ==
  ASSUME NEW f \in Seq(JpegMarkers)
  PROVE  JpegPrefix(f) <=>
           /\ Len(f) > 0 => f[1].marker = "SOI"
           /\ \A i \in 2 .. Len(f) : (\A k \in Occurs(f, "SOS") : i <= k) => LegalHeader(f, i)
<1>1. DOMAIN f = 1 .. Len(f) /\ Len(f) \in Nat /\ (f = <<>> <=> Len(f) = 0)
  BY LenProperties, EmptySeq
<1>2. \A i : i \in 2 .. Len(f) <=> i \in DOMAIN f /\ i > 1
  BY <1>1
<1>3. JpegPrefix(f) <=>
        /\ f # <<>> => f[1].marker = "SOI"
        /\ \A i \in DOMAIN f : i > 1 /\ (\A k \in Occurs(f, "SOS") : i <= k) => LegalHeader(f, i)
  BY Zenon DEF JpegPrefix, LegalHeader, Occurs
<1> QED
  BY <1>1, <1>2, <1>3

LEMMA OccursAppended ==
  ASSUME NEW f \in Seq(JpegMarkers), NEW u \in JpegMarkers, NEW marker
  PROVE  /\ Occurs(f, marker) \subseteq 2 .. Len(f)
         /\ \A i \in 2 .. Len(f) : i \in Occurs(f, marker) <=> f[i].marker = marker
         /\ u.marker = marker /\ Len(f) > 0 =>
              Occurs(Append(f, u), marker) = Occurs(f, marker) \cup {Len(f) + 1}
         /\ u.marker # marker \/ Len(f) = 0 => Occurs(Append(f, u), marker) = Occurs(f, marker)
<1> DEFINE g == Append(f, u)
<1>1. /\ Len(f) \in Nat /\ \A i \in 1 .. Len(f) : g[i] = f[i]
      /\ g[Len(f) + 1] = u
  BY Appended
<1>2. Occurs(f, marker) = {i \in 2 .. Len(f) : f[i].marker = marker}
  <2>1. Occurs(f, marker) = {i \in 1 .. Len(f) : f[i].marker = marker} \ {1}
    BY Appended DEF Occurs, Positions
  <2> QED
    BY <2>1, <1>1
<1>3. Occurs(g, marker) = {i \in 2 .. Len(f) + 1 : g[i].marker = marker}
  <2>1. Occurs(g, marker) = {i \in 1 .. Len(f) + 1 : g[i].marker = marker} \ {1}
    BY Appended DEF Occurs, Positions
  <2> QED
    BY <2>1, <1>1
<1> HIDE DEF g
<1>4. Len(f) > 0 => \A i : i \in 2 .. Len(f) + 1 <=> i \in 2 .. Len(f) \/ i = Len(f) + 1
  BY <1>1
<1>5. Len(f) = 0 => 2 .. Len(f) + 1 = {} /\ 2 .. Len(f) = {}
  BY <1>1
<1>6. \A i \in 2 .. Len(f) : i \in 1 .. Len(f)
  BY <1>1
<1>7. CASE Len(f) = 0
  BY <1>7, <1>2, <1>3, <1>5 DEF g
<1>8. CASE Len(f) > 0
  <2>1. ASSUME NEW i PROVE i \in Occurs(g, marker) <=> i \in Occurs(f, marker) \/ (i = Len(f) + 1 /\ u.marker = marker)
    BY <1>8, <1>1, <1>2, <1>3, <1>4, <1>6
  <2> QED
    BY <1>8, <1>1, <1>2, <2>1 DEF g
<1> QED
  BY <1>1, <1>7, <1>8

LEMMA JpegStartInv == JpegInv(JpegStart, <<>>)
<1> DEFINE f == <<>>
<1>1. f \in Seq(JpegMarkers) /\ Len(f) = 0 /\ 2 .. 0 = {}
  BY EmptySeq
<1>2. \A marker : Occurs(f, marker) = {}
  BY DEF Occurs, Positions
<1> HIDE DEF f
<1>3. JpegPrefix(f)
  <2>1. DOMAIN f = {} /\ f = <<>>
    BY DEF f
  <2> QED
    BY <2>1 DEF JpegPrefix
<1>4. JpegKnows(JpegStart, f)
  BY <1>1, <1>2 DEF JpegStart, JpegKnows
<1>5. JpegStart \in JpegScans /\ JpegStart.ok
  BY DEF JpegStart, JpegScans
<1> QED
  BY <1>3, <1>4, <1>5 DEF JpegInv, f

(* The reference after one more segment: before the first start of scan the *)
(* segment must be a legal header, after it anything goes.                  *)
LEMMA JpegExtends ==
  ASSUME NEW f \in Seq(JpegMarkers), NEW u \in JpegMarkers, JpegPrefix(f), Len(f) > 0
  PROVE  JpegPrefix(Append(f, u)) <=>
           (Occurs(f, "SOS") = {} => LegalHeader(Append(f, u), Len(f) + 1))
<1> DEFINE g == Append(f, u)  n == Len(f)
<1>1. /\ n \in Nat /\ Len(g) = n + 1 /\ g \in Seq(JpegMarkers)
      /\ \A i \in 1 .. n : g[i] = f[i]
      /\ g[n + 1] = u
  BY Appended
<1>2. ASSUME NEW marker
      PROVE  /\ Occurs(f, marker) \subseteq 2 .. n
             /\ u.marker = marker => Occurs(g, marker) = Occurs(f, marker) \cup {n + 1}
             /\ u.marker # marker => Occurs(g, marker) = Occurs(f, marker)
  BY OccursAppended
<1>3. /\ f[1].marker = "SOI"
      /\ \A i \in 2 .. n : (\A k \in Occurs(f, "SOS") : i <= k) => LegalHeader(f, i)
  BY JpegUnfold
<1> HIDE DEF g, n
<1>4. ASSUME NEW i \in 2 .. n PROVE LegalHeader(g, i) <=> LegalHeader(f, i)
  <2>1. g[i] = f[i] /\ i \in Nat /\ i # n + 1 /\ i < n + 1
    BY <1>1
  <2>2. \A marker : i \in Occurs(g, marker) <=> i \in Occurs(f, marker)
    BY <1>2, <2>1
  <2>3. (\E j \in Occurs(g, "SOF") : j < i) <=> (\E j \in Occurs(f, "SOF") : j < i)
    BY <1>1, <1>2, <2>1
  <2> QED
    BY <2>1, <2>2, <2>3 DEF LegalHeader
<1>5. ASSUME NEW i \in 2 .. n
      PROVE  (\A k \in Occurs(g, "SOS") : i <= k) <=> (\A k \in Occurs(f, "SOS") : i <= k)
  <2>1. i <= n + 1
    BY <1>1
  <2>2. Occurs(g, "SOS") = Occurs(f, "SOS") \/ Occurs(g, "SOS") = Occurs(f, "SOS") \cup {n + 1}
    BY <1>2
  <2> QED
    BY <2>1, <2>2
<1>6. (\A k \in Occurs(g, "SOS") : n + 1 <= k) <=> Occurs(f, "SOS") = {}
  <2>1. \A k \in Occurs(f, "SOS") : ~(n + 1 <= k)
    BY <1>1, <1>2
  <2>2. Occurs(g, "SOS") = Occurs(f, "SOS") \/ Occurs(g, "SOS") = Occurs(f, "SOS") \cup {n + 1}
    BY <1>2
  <2>3. n + 1 <= n + 1
    BY <1>1
  <2> QED
    BY <2>1, <2>2, <2>3
<1>7. g[1].marker = "SOI"
  BY <1>1, <1>3 DEF n
<1>8. \A i : i \in 2 .. n + 1 <=> i \in 2 .. n \/ i = n + 1
  BY <1>1 DEF n
<1>9. JpegPrefix(g) <=>
        \A i \in 2 .. n + 1 : (\A k \in Occurs(g, "SOS") : i <= k) => LegalHeader(g, i)
  BY <1>1, <1>7, JpegUnfold
<1> QED
  BY <1>3, <1>4, <1>5, <1>6, <1>8, <1>9 DEF g, n

(* The loop refuses exactly the segments that are no legal header there.     *)
LEMMA JpegRefuses ==
  ASSUME NEW f \in Seq(JpegMarkers), NEW u \in JpegMarkers, NEW s \in JpegScans,
         JpegKnows(s, f), Len(f) > 0, ~s.scan
  PROVE  RefusesSegment(s, u) <=> ~LegalHeader(Append(f, u), Len(f) + 1)
<1> DEFINE g == Append(f, u)  n == Len(f)
<1>1. /\ n \in Nat /\ n > 0 /\ g[n + 1] = u
  BY Appended
<1>2. /\ n + 1 \in Occurs(g, "SOS") <=> u.marker = "SOS"
      /\ n + 1 \in Occurs(g, "SOF") <=> u.marker = "SOF"
  BY OccursAppended, <1>1
<1>3. u.marker = "SOS" => ((\E j \in Occurs(g, "SOF") : j < n + 1) <=> s.frame)
  <2> SUFFICES ASSUME u.marker = "SOS" PROVE (\E j \in Occurs(g, "SOF") : j < n + 1) <=> s.frame
    OBVIOUS
  <2>1. Occurs(g, "SOF") = Occurs(f, "SOF") /\ Occurs(f, "SOF") \subseteq 2 .. n
    BY OccursAppended
  <2> QED
    BY <1>1, <2>1 DEF JpegKnows
<1>4. s.count = n - 1
  BY DEF JpegKnows
<1>5. s.count >= JPEG_MAX_HEADER_MARKERS <=> ~((n + 1) - 1 <= JPEG_MAX_HEADER_MARKERS)
  BY <1>1, <1>4, LimitTypes
<1>6. u.length < 2 <=> ~(u.length >= 2)
  BY DEF JpegMarkers
<1> HIDE DEF g, n
<1>8. LegalHeader(g, n + 1) <=>
        /\ (n + 1) - 1 <= JPEG_MAX_HEADER_MARKERS
        /\ u.synced /\ u.marker \notin {"stuffed", "EOI"}
        /\ u.marker \in Standalone \/ (u.length >= 2 /\ u.fits)
        /\ u.marker = "SOF" => ValidStartOfFrame(u)
        /\ u.marker = "SOS" => ValidStartOfScan(u) /\ s.frame
  BY <1>1, <1>2, <1>3 DEF LegalHeader
<1>9. RefusesSegment(s, u) <=>
  \/ ~((n + 1) - 1 <= JPEG_MAX_HEADER_MARKERS)
  \/ ~u.synced \/ u.marker \in {"stuffed", "EOI"}
  \/ u.marker \notin Standalone /\ (~(u.length >= 2) \/ ~u.fits)
  \/ u.marker = "SOF" /\ ~ValidStartOfFrame(u)
  \/ u.marker = "SOS" /\ ~(s.frame /\ ValidStartOfScan(u))
  BY <1>5, <1>6, Zenon DEF RefusesSegment
<1>10. RefusesSegment(s, u) <=> ~LegalHeader(g, n + 1)
  BY <1>8, <1>9, Zenon
<1> QED
  BY <1>10 DEF g, n

LEMMA JpegStepInv ==
  ASSUME NEW f \in Seq(JpegMarkers), NEW u \in JpegMarkers, NEW s, JpegInv(s, f), s.ok
  PROVE  JpegInv(JpegStep(s, u), Append(f, u))
<1> DEFINE g == Append(f, u)  n == Len(f)  t == JpegStep(s, u)
<1>1. s \in JpegScans /\ JpegPrefix(f) /\ JpegKnows(s, f)
  BY DEF JpegInv
<1>2. /\ n \in Nat /\ Len(g) = n + 1 /\ g \in Seq(JpegMarkers)
      /\ \A i \in 1 .. n : g[i] = f[i]
      /\ g[n + 1] = u
  BY Appended
<1>3. ASSUME NEW marker
      PROVE  /\ Occurs(f, marker) \subseteq 2 .. n
             /\ u.marker = marker /\ n > 0 => Occurs(g, marker) = Occurs(f, marker) \cup {n + 1}
             /\ u.marker # marker \/ n = 0 => Occurs(g, marker) = Occurs(f, marker)
  BY OccursAppended
<1>4. s.units = n /\ u.marker \in STRING
  BY <1>1 DEF JpegKnows, JpegMarkers
<1>8. s.units + 1 \in Nat /\ s.count + 1 \in Nat /\ s.rest + 1 \in Nat
  BY <1>1 DEF JpegScans
<1>9. PICK a \in JpegScans : a = [s EXCEPT !.units = s.units + 1, !.last = u.marker]
  <2>1. [s EXCEPT !.units = s.units + 1] \in JpegScans
    BY <1>1, <1>8 DEF JpegScans
  <2>2. [[s EXCEPT !.units = s.units + 1] EXCEPT !.last = u.marker] \in JpegScans
    BY <1>4, <2>1 DEF JpegScans
  <2> QED
    BY <2>2, Zenon
<1>10. /\ a.units = s.units + 1 /\ a.last = u.marker /\ a.ok = s.ok /\ a.count = s.count
       /\ a.frame = s.frame /\ a.scan = s.scan /\ a.rest = s.rest
  BY <1>1, <1>9 DEF JpegScans
<1>5. CASE n = 0
  <2>1. PICK b \in BOOLEAN : b = (u.marker = "SOI")
    OBVIOUS
  <2>2. t = [a EXCEPT !.ok = b]
    BY <1>4, <1>5, <1>9, <2>1 DEF JpegStep
  <2>3. /\ t \in JpegScans /\ t.ok = b /\ t.units = s.units + 1 /\ t.last = u.marker
        /\ t.count = s.count /\ t.frame = s.frame /\ t.scan = s.scan /\ t.rest = s.rest
    BY <1>10, <2>2 DEF JpegScans
  <2>4. \A marker : Occurs(f, marker) = {} /\ Occurs(g, marker) = {}
    BY <1>3, <1>5
  <2> HIDE DEF g, n, t
  <2>5. JpegPrefix(g) <=> b
    <3>1. Len(g) = 1 /\ 2 .. 1 = {} /\ g[1] = u
      BY <1>2, <1>5
    <3>2. JpegPrefix(g) <=> g[1].marker = "SOI"
      <4>1. \A i : i \notin 2 .. Len(g)
        BY <3>1
      <4> QED
        BY <1>2, <3>1, <4>1, JpegUnfold
    <3> QED
      BY <3>1, <3>2, <2>1
  <2>6. JpegKnows(t, g)
    BY <1>1, <1>2, <1>4, <1>5, <2>3, <2>4 DEF JpegKnows, n
  <2> QED
    BY <2>3, <2>5, <2>6 DEF JpegInv, g, t
<1>6. CASE n > 0 /\ s.scan
  <2>2. t = [a EXCEPT !.rest = s.rest + 1]
    BY <1>2, <1>4, <1>6, <1>9, <1>10 DEF JpegStep
  <2>3. /\ t \in JpegScans /\ t.ok /\ t.units = s.units + 1 /\ t.last = u.marker
        /\ t.count = s.count /\ t.frame = s.frame /\ t.scan = s.scan /\ t.rest = s.rest + 1
    BY <1>8, <1>10, <2>2 DEF JpegScans
  <2>4. PICK k \in Occurs(f, "SOS") : (\A j \in Occurs(f, "SOS") : k <= j) /\ s.rest = n - k
    BY <1>1, <1>6 DEF JpegKnows
  <2>5. JpegPrefix(g)
    BY <1>1, <1>6, <2>4, JpegExtends
  <2> HIDE DEF g, n, t
  <2>6. k \in Occurs(g, "SOS") /\ k \in 2 .. n
    <3>1. Occurs(g, "SOS") = Occurs(f, "SOS") \/ Occurs(g, "SOS") = Occurs(f, "SOS") \cup {n + 1}
      BY <1>3, <1>6
    <3>2. Occurs(f, "SOS") \subseteq 2 .. n
      BY <1>3
    <3> QED
      BY <2>4, <3>1, <3>2
  <2>7. \A j \in Occurs(g, "SOS") : k <= j
    <3>1. Occurs(g, "SOS") = Occurs(f, "SOS") \/ Occurs(g, "SOS") = Occurs(f, "SOS") \cup {n + 1}
      BY <1>3, <1>6
    <3>2. k <= n + 1
      BY <1>2, <2>6
    <3> QED
      BY <2>4, <3>1, <3>2
  <2>8. t.rest = Len(g) - k
    BY <1>2, <2>3, <2>4, <2>6
  <2>9. JpegKnows(t, g)
    BY <1>2, <1>4, <1>6, <2>3, <2>6, <2>7, <2>8 DEF JpegKnows
  <2> QED
    BY <2>3, <2>5, <2>9 DEF JpegInv, g, t
<1>7. CASE n > 0 /\ ~s.scan
  <2>1. PICK b \in BOOLEAN, frame \in BOOLEAN, scanning \in BOOLEAN :
          /\ b = ~RefusesSegment(s, u) /\ frame = (s.frame \/ u.marker = "SOF")
          /\ scanning = (u.marker = "SOS")
    OBVIOUS
  <2>2. t = [a EXCEPT !.ok = b, !.count = s.count + 1, !.frame = frame, !.scan = scanning]
    BY <1>2, <1>4, <1>7, <1>9, <1>10, <2>1 DEF JpegStep
  <2>3. /\ t \in JpegScans /\ t.ok = b /\ t.units = s.units + 1 /\ t.last = u.marker
        /\ t.count = s.count + 1 /\ t.frame = frame /\ t.scan = scanning /\ t.rest = s.rest
    <3>4. PICK c \in JpegScans : c = [a EXCEPT !.ok = b, !.count = s.count + 1]
      <4>1. [a EXCEPT !.ok = b] \in JpegScans
        BY DEF JpegScans
      <4>2. [[a EXCEPT !.ok = b] EXCEPT !.count = s.count + 1] \in JpegScans
        BY <1>8, <4>1 DEF JpegScans
      <4> QED
        BY <4>2, Zenon
    <3>5. t = [c EXCEPT !.frame = frame, !.scan = scanning]
      BY <2>2, <3>4
    <3> QED
      BY <1>10, <3>4, <3>5 DEF JpegScans
  <2>4. Occurs(f, "SOS") = {} /\ (s.frame <=> Occurs(f, "SOF") # {}) /\ s.count = n - 1 /\ s.rest = 0
    BY <1>1, <1>7 DEF JpegKnows
  <2>5. JpegPrefix(g) <=> b
    BY <1>1, <1>7, <2>1, <2>4, JpegExtends, JpegRefuses
  <2> HIDE DEF g, n, t
  <2>6. (scanning <=> Occurs(g, "SOS") # {}) /\ (scanning => Occurs(g, "SOS") = {n + 1})
    BY <1>3, <1>7, <2>1, <2>4
  <2>7. frame <=> Occurs(g, "SOF") # {}
    BY <1>3, <1>7, <2>1, <2>4
  <2>8. scanning => \E k \in Occurs(g, "SOS") :
                      (\A j \in Occurs(g, "SOS") : k <= j) /\ t.rest = Len(g) - k
    BY <1>2, <2>3, <2>4, <2>6
  <2>9. JpegKnows(t, g)
    BY <1>2, <1>4, <1>7, <2>3, <2>4, <2>6, <2>7, <2>8 DEF JpegKnows
  <2> QED
    BY <2>3, <2>5, <2>9 DEF JpegInv, g, t
<1> QED
  BY <1>2, <1>5, <1>6, <1>7

LEMMA JpegVerdict ==
  ASSUME NEW f \in Seq(JpegMarkers), NEW s, JpegInv(s, f)
  PROVE  Agrees(s.ok, JpegPrefix(f), JpegAccepts(s), IsJpeg(f))
<1>1. Len(f) \in Nat /\ \A k \in Occurs(f, "SOS") : k \in 2 .. Len(f)
  <2>1. DOMAIN f = 1 .. Len(f) /\ Len(f) \in Nat
    BY LenProperties
  <2> QED
    BY <2>1 DEF Occurs, Positions
<1>2. ASSUME s.ok
      PROVE  s.scan /\ s.rest > 1 <=> \E k \in Occurs(f, "SOS") : k + 1 < Len(f)
  <2>1. JpegKnows(s, f)
    BY <1>2 DEF JpegInv
  <2>2. CASE ~s.scan
    BY <2>1, <2>2 DEF JpegKnows
  <2>3. CASE s.scan
    <3>1. PICK k \in Occurs(f, "SOS") : (\A j \in Occurs(f, "SOS") : k <= j) /\ s.rest = Len(f) - k
      BY <2>1, <2>3 DEF JpegKnows
    <3>2. s.rest > 1 <=> k + 1 < Len(f)
      BY <1>1, <3>1
    <3>3. \A j \in Occurs(f, "SOS") : j + 1 < Len(f) => k + 1 < Len(f)
      BY <1>1, <3>1
    <3> QED
      BY <2>3, <3>1, <3>2, <3>3
  <2> QED
    BY <2>2, <2>3
<1>3. ASSUME s.ok, s.scan PROVE s.last = f[Len(f)].marker
  BY <1>1, <1>3 DEF JpegInv, JpegKnows
<1>4. s.ok <=> JpegPrefix(f)
  BY DEF JpegInv
<1> QED
  BY <1>2, <1>3, <1>4, Zenon DEF Agrees, JpegAccepts, IsJpeg, Occurs

-----------------------------------------------------------------------------
(***************************************************************************)
(* Office packages.  The map of entries holds what was read, the offset is *)
(* the sum of the records' lengths, and the limits are those of the end    *)
(* record chosen.                                                          *)
(***************************************************************************)
ZipScans == [ok : BOOLEAN, total : Nat, bytes : Nat, count : Nat, offset : Nat,
             entries : SUBSET DirectoryEntries]

PackageLead(l) == l.ends \in Seq(EndRecords) /\ l.family \in Family

EndOf(l) == ParseEndOfCentralDirectory(l.ends)
EndAllows(l) ==
  /\ EndOf(l).single /\ EndOf(l).contiguous
  /\ EndOf(l).total \in 1 .. OOXML_MAX_ENTRIES
  /\ EndOf(l).bytes \in 1 .. OOXML_MAX_CENTRAL_DIRECTORY_BYTES

ZipKnows(l, s, f) ==
  /\ s.count = Len(f)
  /\ s.total = EndOf(l).total /\ s.bytes = EndOf(l).bytes
  /\ s.offset = Total(RecordLengths(f))
  /\ s.entries = {f[i] : i \in DOMAIN f}

ZipInv(l, s, f) ==
  /\ s \in ZipScans
  /\ s.ok <=> ZipPrefix(l, f)
  /\ s.ok => ZipKnows(l, s, f)

(* The end record chosen is the first that fits.                            *)
LEMMA EndIsFirst ==
  ASSUME NEW l, PackageLead(l), NEW N, NEW D
  PROVE  /\ (\E i \in DOMAIN l.ends :
               /\ l.ends[i].fits /\ \A j \in 1 .. i - 1 : ~l.ends[j].fits
               /\ l.ends[i].single /\ l.ends[i].contiguous
               /\ l.ends[i].total \in 1 .. OOXML_MAX_ENTRIES
               /\ l.ends[i].bytes \in 1 .. OOXML_MAX_CENTRAL_DIRECTORY_BYTES
               /\ N <= l.ends[i].total /\ D <= l.ends[i].bytes)
            <=> EndAllows(l) /\ N <= EndOf(l).total /\ D <= EndOf(l).bytes
         /\ EndOf(l).single \in BOOLEAN
         /\ EndOf(l).single =>
              EndOf(l).total \in Nat /\ EndOf(l).bytes \in Nat /\ EndOf(l).contiguous \in BOOLEAN
<1> DEFINE ends == l.ends  fitting == {i \in DOMAIN ends : ends[i].fits}
<1>1. ends \in Seq(EndRecords) /\ DOMAIN ends = 1 .. Len(ends) /\ Len(ends) \in Nat
  BY LenProperties DEF PackageLead
<1>2. \A i \in DOMAIN ends : ends[i] \in EndRecords
  BY <1>1, ElementOfSeq
<1>3. CASE fitting = {}
  <2>1. EndOf(l) = [single |-> FALSE]
    BY <1>3 DEF EndOf, ParseEndOfCentralDirectory
  <2>2. EndOf(l).single = FALSE
    BY <2>1
  <2> QED
    BY <1>3, <2>2 DEF EndAllows
<1>4. CASE fitting # {}
  <2>1. fitting \in SUBSET Nat
    BY <1>1
  <2>2. \E m \in fitting : \A j \in fitting : m <= j
    BY <1>4, <2>1, NatMin
  <2> DEFINE m == CHOOSE i \in fitting : \A j \in fitting : i <= j
  <2>3. m \in fitting /\ \A j \in fitting : m <= j
    BY <2>2
  <2>4. EndOf(l) = ends[m]
    BY <1>4 DEF EndOf, ParseEndOfCentralDirectory
  <2> HIDE DEF m
  <2>5. m \in 1 .. Len(ends) /\ ends[m].fits /\ \A j \in 1 .. m - 1 : ~ends[j].fits
    <3>1. \A j \in 1 .. m - 1 : j \in 1 .. Len(ends) /\ ~(m <= j)
      BY <1>1, <2>3
    <3> QED
      BY <1>1, <2>3, <3>1
  <2>6. ASSUME NEW i \in DOMAIN ends, ends[i].fits, \A j \in 1 .. i - 1 : ~ends[j].fits
        PROVE  i = m
    <3>1. i \in fitting /\ m <= i /\ i \in Nat /\ m \in Nat
      BY <1>1, <2>3, <2>6
    <3>2. ~(m < i)
      BY <1>1, <2>5, <2>6, <3>1
    <3> QED
      BY <3>1, <3>2
  <2>7. ends[m] \in EndRecords
    BY <1>1, <1>2, <2>5
  <2> HIDE DEF fitting
  <2>8. /\ ends[m].single \in BOOLEAN /\ ends[m].contiguous \in BOOLEAN
        /\ ends[m].total \in Nat /\ ends[m].bytes \in Nat
    BY <2>7 DEF EndRecords
  <2>9. (\E i \in DOMAIN l.ends :
               /\ l.ends[i].fits /\ \A j \in 1 .. i - 1 : ~l.ends[j].fits
               /\ l.ends[i].single /\ l.ends[i].contiguous
               /\ l.ends[i].total \in 1 .. OOXML_MAX_ENTRIES
               /\ l.ends[i].bytes \in 1 .. OOXML_MAX_CENTRAL_DIRECTORY_BYTES
               /\ N <= l.ends[i].total /\ D <= l.ends[i].bytes)
            <=> EndAllows(l) /\ N <= EndOf(l).total /\ D <= EndOf(l).bytes
    <3>1. m \in DOMAIN ends
      BY <1>1, <2>5
    <3> QED
      BY <2>4, <2>5, <2>6, <3>1 DEF EndAllows
  <2> QED
    BY <2>4, <2>8, <2>9
<1> QED
  BY <1>3, <1>4

LEMMA ZipUnfold ==
  ASSUME NEW l, PackageLead(l), NEW f \in Seq(DirectoryEntries)
  PROVE  ZipPrefix(l, f) <=>
           /\ EndAllows(l) /\ Len(f) <= EndOf(l).total
           /\ Total(RecordLengths(f)) <= EndOf(l).bytes
           /\ \A i, j \in DOMAIN f : i # j => f[i].name # f[j].name
           /\ \A i \in DOMAIN f : f[i].plain
  BY EndIsFirst DEF ZipPrefix

(* The lengths of one more entry.                                           *)
LEMMA NoRecords == Total(RecordLengths(<<>>)) = 0
<1>1. RecordLengths(<<>>) = <<>>
  BY DEF RecordLengths
<1> QED
  BY <1>1, TotalEmpty

LEMMA RecordAppended ==
  ASSUME NEW f \in Seq(DirectoryEntries), NEW u \in DirectoryEntries
  PROVE  /\ Total(RecordLengths(Append(f, u))) = Total(RecordLengths(f)) + u.length
         /\ Total(RecordLengths(f)) \in Int /\ u.length \in Nat
<1> DEFINE g == Append(f, u)  n == Len(f)  a == RecordLengths(f)  b == RecordLengths(g)
<1>1. /\ n \in Nat /\ Len(g) = n + 1 /\ g \in Seq(DirectoryEntries)
      /\ DOMAIN f = 1 .. n /\ DOMAIN g = 1 .. n + 1
      /\ \A i \in 1 .. n : g[i] = f[i]
      /\ g[n + 1] = u
  BY Appended
<1>2. \A i \in 1 .. n : f[i] \in DirectoryEntries
  BY <1>1, ElementOfSeq
<1>3. u.length \in Nat /\ \A i \in 1 .. n : f[i].length \in Nat
  BY <1>2 DEF DirectoryEntries
<1>4. a = [i \in 1 .. n |-> f[i].length] /\ b = [i \in 1 .. n + 1 |-> g[i].length]
  BY <1>1 DEF RecordLengths
<1>5. a \in Seq(Int) /\ Len(a) = n
  BY <1>1, <1>3, <1>4
<1> HIDE DEF g, n, a, b
<1>6. b = Append(a, u.length)
  BY <1>1, <1>3, <1>4, <1>5
<1> QED
  BY <1>3, <1>5, <1>6, TotalAppend DEF a, b, g

LEMMA ZipStartInv ==
  ASSUME NEW l, PackageLead(l)
  PROVE  ZipInv(l, ZipStart(l), <<>>)
<1> DEFINE f == <<>>
<1>1. f \in Seq(DirectoryEntries) /\ Len(f) = 0 /\ DOMAIN f = {}
  BY EmptySeq
<1>0. Total(RecordLengths(f)) = 0
  BY NoRecords
<1>2. /\ EndOf(l).single \in BOOLEAN
      /\ EndOf(l).single =>
           EndOf(l).total \in Nat /\ EndOf(l).bytes \in Nat /\ EndOf(l).contiguous \in BOOLEAN
  BY EndIsFirst
<1>3. CASE EndOf(l).single
  <2>1. PICK b \in BOOLEAN : b = (/\ EndOf(l).contiguous
                                  /\ EndOf(l).total \in 1 .. OOXML_MAX_ENTRIES
                                  /\ EndOf(l).bytes \in 1 .. OOXML_MAX_CENTRAL_DIRECTORY_BYTES)
    OBVIOUS
  <2>2. ZipStart(l) = [ok |-> b, total |-> EndOf(l).total, bytes |-> EndOf(l).bytes, count |-> 0,
                       offset |-> 0, entries |-> {}]
    BY <1>3, <2>1 DEF ZipStart, EndOf
  <2> DEFINE s == ZipStart(l)
  <2>3. /\ s \in ZipScans /\ s.ok = b /\ s.total = EndOf(l).total /\ s.bytes = EndOf(l).bytes
        /\ s.count = 0 /\ s.offset = 0 /\ s.entries = {}
    BY <1>2, <1>3, <2>2 DEF ZipScans
  <2> HIDE DEF s, f
  <2>4. ZipPrefix(l, f) <=> b
    <3>1. ZipPrefix(l, f) <=> EndAllows(l) /\ 0 <= EndOf(l).total /\ 0 <= EndOf(l).bytes
      BY <1>0, <1>1, ZipUnfold
    <3>2. 0 <= EndOf(l).total /\ 0 <= EndOf(l).bytes
      BY <1>2, <1>3
    <3> QED
      BY <1>3, <2>1, <3>1, <3>2 DEF EndAllows
  <2>5. ZipKnows(l, s, f)
    BY <1>0, <1>1, <2>3 DEF ZipKnows
  <2> QED
    BY <2>3, <2>4, <2>5 DEF ZipInv, f, s
<1>4. CASE ~EndOf(l).single
  <2>2. ZipStart(l) = [ok |-> FALSE, total |-> 0, bytes |-> 0, count |-> 0, offset |-> 0,
                       entries |-> {}]
    BY <1>4 DEF ZipStart, EndOf
  <2>3. ZipStart(l) \in ZipScans /\ ZipStart(l).ok = FALSE
    BY <2>2 DEF ZipScans
  <2> HIDE DEF f
  <2>4. ~ZipPrefix(l, f)
    BY <1>1, <1>4, ZipUnfold DEF EndAllows
  <2> QED
    BY <2>3, <2>4 DEF ZipInv, f
<1> QED
  BY <1>3, <1>4

LEMMA ZipStepInv ==
  ASSUME NEW l, PackageLead(l), NEW f \in Seq(DirectoryEntries), NEW u \in DirectoryEntries,
         NEW s, ZipInv(l, s, f), s.ok
  PROVE  ZipInv(l, ZipStep(s, u), Append(f, u))
<1> DEFINE g == Append(f, u)  n == Len(f)  t == ZipStep(s, u)
<1>1. s \in ZipScans /\ ZipPrefix(l, f) /\ ZipKnows(l, s, f)
  BY DEF ZipInv
<1>2. /\ n \in Nat /\ Len(g) = n + 1 /\ g \in Seq(DirectoryEntries)
      /\ DOMAIN f = 1 .. n /\ DOMAIN g = 1 .. n + 1
      /\ \A i \in 1 .. n : g[i] = f[i]
      /\ g[n + 1] = u
  BY Appended
<1> DEFINE before == Total(RecordLengths(f))  after == Total(RecordLengths(g))
<1>0. after = before + u.length /\ before \in Int /\ u.length \in Nat
  BY RecordAppended
<1>3. /\ EndAllows(l) /\ n <= EndOf(l).total /\ before <= EndOf(l).bytes
      /\ \A i, j \in 1 .. n : i # j => f[i].name # f[j].name
      /\ \A i \in 1 .. n : f[i].plain
  BY <1>1, <1>2, ZipUnfold
<1>4. /\ s.count = n /\ s.total = EndOf(l).total /\ s.entries = {f[i] : i \in 1 .. n} /\ s.total \in Nat
      /\ s.bytes = EndOf(l).bytes /\ s.bytes \in Nat /\ s.offset = before /\ s.offset \in Nat
  BY <1>1, <1>2 DEF ZipKnows, ZipScans
<1>5. \A i : i \in 1 .. n + 1 <=> i \in 1 .. n \/ i = n + 1
  BY <1>2
<1>6. n + 1 \notin 1 .. n
  BY <1>2
<1>7. ZipPrefix(l, g) <=>
        /\ EndAllows(l) /\ n + 1 <= EndOf(l).total /\ after <= EndOf(l).bytes
        /\ \A i, j \in 1 .. n + 1 : i # j => g[i].name # g[j].name
        /\ \A i \in 1 .. n + 1 : g[i].plain
  <2> HIDE DEF g
  <2> QED
    BY <1>2, ZipUnfold
<1> HIDE DEF g, n, before, after
<1>8. ZipPrefix(l, g) <=> ~RefusesEntry(s, u)
  <2>1. n + 1 <= EndOf(l).total <=> ~(s.count >= s.total)
    BY <1>2, <1>4
  <2>2. (\A i \in 1 .. n + 1 : g[i].plain) <=> ~(~u.plain)
    BY <1>2, <1>3, <1>5
  <2>4. after <= EndOf(l).bytes <=> ~(s.offset + u.length > s.bytes)
    BY <1>0, <1>4
  <2>3. (\A i, j \in 1 .. n + 1 : i # j => g[i].name # g[j].name)
          <=> ~(\E x \in s.entries : x.name = u.name)
    <3>1. (\E x \in s.entries : x.name = u.name) <=> \E i \in 1 .. n : f[i].name = u.name
      BY <1>4
    <3>2. (\A i, j \in 1 .. n + 1 : i # j => g[i].name # g[j].name)
            <=> \A i \in 1 .. n : f[i].name # u.name
      BY <1>2, <1>3, <1>5, <1>6
    <3> QED
      BY <3>1, <3>2
  <2> QED
    BY <1>3, <1>7, <2>1, <2>2, <2>3, <2>4 DEF RefusesEntry
<1>9. CASE RefusesEntry(s, u)
  <2>1. t = [s EXCEPT !.ok = FALSE]
    BY <1>9 DEF ZipStep
  <2>2. t \in ZipScans /\ t.ok = FALSE
    BY <1>1, <2>1 DEF ZipScans
  <2> QED
    BY <1>8, <1>9, <2>2 DEF ZipInv, g
<1>10. CASE ~RefusesEntry(s, u)
  <2>1. t = [s EXCEPT !.count = s.count + 1, !.offset = s.offset + u.length,
                      !.entries = s.entries \cup {u}]
    BY <1>10 DEF ZipStep
  <2>2. /\ s.count + 1 \in Nat /\ s.offset + u.length \in Nat
        /\ s.entries \cup {u} \in SUBSET DirectoryEntries
    BY <1>0, <1>1 DEF ZipScans
  <2>3. /\ t \in ZipScans /\ t.ok = s.ok /\ t.count = s.count + 1 /\ t.total = s.total
        /\ t.bytes = s.bytes /\ t.offset = s.offset + u.length
        /\ t.entries = s.entries \cup {u}
    <3>1. PICK a \in ZipScans : a = [s EXCEPT !.count = s.count + 1]
      BY <1>1, <2>2 DEF ZipScans
    <3>2. PICK b \in ZipScans : b = [a EXCEPT !.offset = s.offset + u.length]
      BY <2>2, <3>1 DEF ZipScans
    <3>3. t = [b EXCEPT !.entries = s.entries \cup {u}]
      BY <2>1, <3>1, <3>2
    <3> QED
      BY <1>1, <2>2, <3>1, <3>2, <3>3 DEF ZipScans
  <2> HIDE DEF t
  <2>4. t.entries = {g[i] : i \in DOMAIN g}
    <3>1. \A x : x \in {g[i] : i \in 1 .. n + 1} <=> x \in {f[i] : i \in 1 .. n} \/ x = u
      BY <1>2, <1>5
    <3> QED
      BY <1>2, <1>4, <2>3, <3>1
  <2>5. ZipKnows(l, t, g)
    BY <1>0, <1>2, <1>4, <2>3, <2>4 DEF ZipKnows, after
  <2> QED
    BY <1>8, <1>10, <2>3, <2>5 DEF ZipInv, g, t
<1> QED
  BY <1>9, <1>10

(* The verdict on the entries read, against the reference by positions.     *)
LEMMA ZipVerdict ==
  ASSUME NEW l, PackageLead(l), NEW f \in Seq(DirectoryEntries), NEW s, ZipInv(l, s, f)
  PROVE  Agrees(s.ok, ZipPrefix(l, f), ZipAccepts(l, s), IsPackage(l, f))
<1> DEFINE names == {f[i].name : i \in DOMAIN f}
           Get(name) == {e \in s.entries : e.name = name}
           own == {l.family, ContentTypes}
<1>1. s.ok <=> ZipPrefix(l, f)
  BY DEF ZipInv
<1>2. ASSUME s.ok
      PROVE  ZipAccepts(l, s) <=> IsPackage(l, f)
  <2>1. /\ s.count = Len(f) /\ s.total = EndOf(l).total
        /\ s.offset = Total(RecordLengths(f)) /\ s.bytes = EndOf(l).bytes
        /\ s.entries = {f[i] : i \in DOMAIN f} /\ ZipPrefix(l, f)
    BY <1>2 DEF ZipInv, ZipKnows
  <2>2. ASSUME NEW name PROVE Get(name) # {} <=> name \in names
    BY <2>1
  <2>3. ContentTypes \notin Family /\ l.family \in Family
    BY DEF ContentTypes, Family, PackageLead
  <2>4. (/\ Get(ContentTypes) # {} /\ Get(l.family) # {}
         /\ \A other \in Family \ {l.family} : Get(other) = {})
        <=> names \cap (Family \cup {ContentTypes}) = own
    <3> HIDE DEF names, Get
    <3> QED
      BY <2>2, <2>3
  <2>5. \A i \in DOMAIN f : MatchesLocalHeader(f[i]) <=>
          f[i].local = [inside |-> TRUE, plain |-> TRUE, name |-> f[i].name]
    <3> SUFFICES ASSUME NEW i \in DOMAIN f
                 PROVE  MatchesLocalHeader(f[i]) <=>
                          f[i].local = [inside |-> TRUE, plain |-> TRUE, name |-> f[i].name]
      OBVIOUS
    <3>1. DOMAIN f = 1 .. Len(f)
      BY LenProperties
    <3>2. f[i] \in DirectoryEntries
      BY <3>1, ElementOfSeq
    <3>3. PICK h \in [inside : BOOLEAN, plain : BOOLEAN, name : STRING] : h = f[i].local
      BY <3>2 DEF DirectoryEntries
    <3>4. h.inside \in BOOLEAN /\ h.plain \in BOOLEAN /\ h = [inside |-> h.inside, plain |-> h.plain, name |-> h.name]
      BY <3>3
    <3>5. MatchesLocalHeader(f[i]) <=> h.inside /\ h.plain /\ h.name = f[i].name
      BY <3>3 DEF MatchesLocalHeader
    <3>6. h.inside /\ h.plain /\ h.name = f[i].name <=>
            h = [inside |-> TRUE, plain |-> TRUE, name |-> f[i].name]
      BY <3>4
    <3> QED
      BY <3>3, <3>5, <3>6
  <2>6. (\A e \in Get(ContentTypes) \cup Get(l.family) : MatchesLocalHeader(e)) <=>
        \A i \in DOMAIN f : f[i].name \in own => MatchesLocalHeader(f[i])
    BY <2>1
  <2>7. ZipAccepts(l, s) <=>
          /\ Len(f) = EndOf(l).total /\ Total(RecordLengths(f)) = EndOf(l).bytes
          /\ names \cap (Family \cup {ContentTypes}) = own
          /\ \A i \in DOMAIN f : f[i].name \in own => MatchesLocalHeader(f[i])
    BY <1>2, <2>1, <2>4, <2>6, Zenon DEF ZipAccepts
  <2>8. IsPackage(l, f) <=>
          /\ Len(f) = EndOf(l).total /\ Total(RecordLengths(f)) = EndOf(l).bytes
          /\ names \cap (Family \cup {ContentTypes}) = own
          /\ \A i \in DOMAIN f : f[i].name \in own => MatchesLocalHeader(f[i])
    BY <2>1, <2>5, Zenon DEF IsPackage, EndOf
  <2> QED
    BY <2>7, <2>8, Zenon
<1>3. ~s.ok => ~ZipAccepts(l, s) /\ ~IsPackage(l, f)
  BY <1>1 DEF ZipAccepts, IsPackage
<1> QED
  BY <1>1, <1>2, <1>3, Zenon DEF Agrees

-----------------------------------------------------------------------------
(***************************************************************************)
(* MPEG audio.  With the sample rate fixed the arithmetic is linear.       *)
(***************************************************************************)
LEMMA Kbps ==
  ASSUME NEW mpeg1 \in BOOLEAN, NEW layer \in 1 .. 3, NEW i \in 1 .. 14
  PROVE  /\ MpegBitrateKbps(mpeg1, layer, i) \in 8 .. 448
         /\ mpeg1 \/ layer = 1 => MpegBitrateKbps(mpeg1, layer, i) >= 32
<1>1. CASE mpeg1 /\ layer = 1
  BY <1>1 DEF MpegBitrateKbps, MPEG1_LAYER1_BITRATES
<1>2. CASE mpeg1 /\ layer = 2
  BY <1>2 DEF MpegBitrateKbps, MPEG1_LAYER2_BITRATES
<1>3. CASE mpeg1 /\ layer = 3
  BY <1>3 DEF MpegBitrateKbps, MPEG1_LAYER3_BITRATES
<1>4. CASE ~mpeg1 /\ layer = 1
  BY <1>4 DEF MpegBitrateKbps, MPEG2_LAYER1_BITRATES
<1>5. CASE ~mpeg1 /\ layer # 1
  BY <1>5 DEF MpegBitrateKbps, MPEG2_LAYER23_BITRATES
<1> QED
  BY <1>1, <1>2, <1>3, <1>4, <1>5

LEMMA SampleRates ==
  ASSUME NEW h \in MpegFrames, MpegHeaderValid(h)
  PROVE  /\ h.version = 3 => MpegSampleRate(h) \in {44100, 48000, 32000}
         /\ h.version = 2 => MpegSampleRate(h) \in {22050, 24000, 16000}
         /\ h.version = 0 => MpegSampleRate(h) \in {11025, 12000, 8000}
         /\ h.version \in {0, 2, 3}
<1>1. h.rate \in {0, 1, 2} /\ h.version \in {0, 2, 3}
  BY DEF MpegHeaderValid, MpegFrames
<1>2. MPEG1_SAMPLE_RATES[h.rate + 1] \in {44100, 48000, 32000}
  BY <1>1 DEF MPEG1_SAMPLE_RATES
<1>3. CASE h.version = 3
  BY <1>2, <1>3 DEF MpegSampleRate
<1>4. CASE h.version = 2
  BY <1>2, <1>4 DEF MpegSampleRate
<1>5. CASE h.version = 0
  BY <1>2, <1>5 DEF MpegSampleRate
<1> QED
  BY <1>1, <1>3, <1>4, <1>5

(* The quotient of a linear numerator by a sample rate.                     *)
LEMMA Slots ==
  ASSUME NEW a \in Nat, NEW r \in {44100, 48000, 32000, 22050, 24000, 16000, 11025, 12000, 8000}
  PROVE  /\ a \div r \in Nat /\ (a \div r) * r \in Nat
         /\ 0 <= a - (a \div r) * r /\ a - (a \div r) * r < r
  OBVIOUS

(* Enough bits for more than four slots.                                    *)
LEMMA MoreThanFour ==
  ASSUME NEW b \in Nat, NEW r \in {44100, 48000, 32000, 22050, 24000, 16000, 11025, 12000, 8000},
         b >= 5 * r
  PROVE  b \div r > 4
  OBVIOUS

LEMMA MpegCarries ==
  ASSUME NEW h \in MpegFrames, MpegHeaderValid(h)
  PROVE  /\ CarriesItsSamples(h)
         /\ MpegAudioFrameLength(h) \in Nat /\ MpegAudioFrameLength(h) > 4
<1> DEFINE R == MpegSampleRate(h)  B == MpegBitrate(h)  L == MpegLayer(h)
           Rates == {44100, 48000, 32000, 22050, 24000, 16000, 11025, 12000, 8000}
<1>1. /\ h.bitrate \in 1 .. 14 /\ h.padding \in 0 .. 1 /\ h.version \in {0, 2, 3}
      /\ L \in 1 .. 3
  BY DEF MpegHeaderValid, MpegFrames, MpegLayer
<1>2. R \in Rates /\ R \in Nat /\ (h.version # 3 => R <= 24000) /\ R <= 48000
  BY SampleRates
<1>3. B \in Nat /\ B >= 8000 /\ (h.version = 3 \/ L = 1 => B >= 32000)
  <2>1. PICK m \in BOOLEAN : m = (h.version = 3)
    OBVIOUS
  <2>2. PICK k : k = MpegBitrateKbps(m, L, h.bitrate)
    OBVIOUS
  <2>3. k \in 8 .. 448 /\ (m \/ L = 1 => k >= 32)
    BY <1>1, <2>2, Kbps
  <2>4. B = 1000 * k
    BY <2>1, <2>2 DEF MpegBitrate
  <2> HIDE DEF B, L
  <2>5. h.version = 3 \/ L = 1 => k >= 32
    BY <2>1, <2>3, Zenon
  <2>6. k \in 8 .. 448
    BY <2>3
  <2> QED
    BY <2>4, <2>5, <2>6
<1> HIDE DEF R, B, L
<1>4. CASE L = 1
  <2> DEFINE q == (12 * B) \div R
  <2>0. 12 * B \in Nat /\ 12 * B >= 5 * R
    BY <1>2, <1>3, <1>4
  <2>1. q \in Nat /\ q > 4 /\ q * R \in Nat /\ 0 <= 12 * B - q * R /\ 12 * B - q * R < R
    <3>1. ASSUME NEW a \in Nat, a >= 5 * R
          PROVE  /\ a \div R \in Nat /\ a \div R > 4 /\ (a \div R) * R \in Nat
                 /\ 0 <= a - (a \div R) * R /\ a - (a \div R) * R < R
      BY <1>2, <3>1, Slots, MoreThanFour
    <3> QED
      BY <2>0, <3>1
  <2>2. MpegAudioFrameLength(h) = (q + h.padding) * 4
    BY <1>4 DEF MpegAudioFrameLength, L, B, R
  <2> HIDE DEF q
  <2>3. PICK m \in Nat : m = q * R
    BY <2>1
  <2>4. SamplesOf(h) = 384
    BY <1>4 DEF SamplesOf, L
  <2>5. (q + h.padding) * 4 - h.padding * 4 = 4 * q
    BY <1>1, <2>1
  <2>6. 8 * (4 * q) * R = 32 * m
    BY <1>2, <2>1, <2>3
  <2>7. /\ 4 * q > 4 /\ 0 <= 384 * B - 32 * m /\ 384 * B - 32 * m < 8 * 4 * R
    BY <1>2, <1>3, <2>1, <2>3
  <2>8. CarriesItsSamples(h)
    BY <1>4, <2>2, <2>4, <2>5, <2>6, <2>7 DEF CarriesItsSamples, L, B, R
  <2>9. (q + h.padding) * 4 \in Nat /\ (q + h.padding) * 4 > 4
    BY <1>1, <2>1
  <2> QED
    BY <2>2, <2>8, <2>9
<1>5. CASE L # 1
  <2> DEFINE c == IF L = 3 /\ h.version # 3 THEN 72 ELSE 144
             q == (c * B) \div R
  <2>0. c * B \in Nat /\ c * B >= 5 * R /\ c \in {72, 144}
    BY <1>2, <1>3
  <2>1. q \in Nat /\ q > 4 /\ q * R \in Nat /\ 0 <= c * B - q * R /\ c * B - q * R < R
    <3>1. ASSUME NEW a \in Nat, a >= 5 * R
          PROVE  /\ a \div R \in Nat /\ a \div R > 4 /\ (a \div R) * R \in Nat
                 /\ 0 <= a - (a \div R) * R /\ a - (a \div R) * R < R
      BY <1>2, <3>1, Slots, MoreThanFour
    <3> HIDE DEF c
    <3> QED
      BY <2>0, <3>1
  <2>2. MpegAudioFrameLength(h) = q + h.padding
    BY <1>5 DEF MpegAudioFrameLength, SlotFactor, L, B, R
  <2>4. SamplesOf(h) = 8 * c
    BY <1>1, <1>5 DEF SamplesOf, L
  <2> HIDE DEF q, c
  <2>3. PICK m \in Nat : m = q * R
    BY <2>1
  <2>5. (q + h.padding) - h.padding * 1 = q
    BY <1>1, <2>1
  <2>6. 8 * q * R = 8 * m
    BY <1>2, <2>1, <2>3
  <2>7. /\ q > 4 /\ 0 <= 8 * c * B - 8 * m /\ 8 * c * B - 8 * m < 8 * 1 * R
    BY <1>2, <1>3, <2>0, <2>1, <2>3
  <2>8. CarriesItsSamples(h)
    BY <1>5, <2>2, <2>4, <2>5, <2>6, <2>7 DEF CarriesItsSamples, L, B, R
  <2>9. q + h.padding \in Nat /\ q + h.padding > 4
    BY <1>1, <2>1
  <2> QED
    BY <2>2, <2>8, <2>9
<1> QED
  BY <1>4, <1>5

-----------------------------------------------------------------------------
(***************************************************************************)
(* The walk by declared lengths.  len[i] is what the header of frame i     *)
(* declares, or Unknown; the offset is the sum of the lengths so far.      *)
(***************************************************************************)
WalkScans == [ok : BOOLEAN, offset : Nat, count : Nat]

Declared(len) == \A i \in 1 .. Len(len) : len[i] > 0

WalkInv(s, start, begin, end, len) ==
  /\ s \in WalkScans
  /\ s.ok => /\ start /\ s.count = Len(len) /\ Declared(len)
             /\ s.offset = begin + Total(len) /\ s.offset <= end
  /\ ~s.ok => ~(start /\ Declared(len) /\ begin + Total(len) = end)

LEMMA WalkStartInv ==
  ASSUME NEW ok \in BOOLEAN, NEW begin \in Nat, NEW end \in Int, ok => begin <= end
  PROVE  WalkInv(WalkStart(ok, begin), ok, begin, end, <<>>)
<1>1. <<>> \in Seq(Int) /\ Len(<<>>) = 0 /\ Total(<<>>) = 0
  BY TotalEmpty
<1>2. WalkStart(ok, begin) \in WalkScans /\ WalkStart(ok, begin).ok = ok /\ WalkStart(ok, begin).offset = begin
      /\ WalkStart(ok, begin).count = 0
  BY DEF WalkStart, WalkScans
<1> QED
  BY <1>1, <1>2 DEF WalkInv, Declared

(* One more frame: the header needs no more bytes than a legal frame has.   *)
LEMMA WalkStepInv ==
  ASSUME NEW s, NEW start \in BOOLEAN, NEW begin \in Nat, NEW end \in Int, NEW size \in Int,
         end <= size, NEW len \in Seq(Int), NEW need \in Nat, NEW length \in Int,
         length = Unknown \/ (length >= need /\ length > 0),
         WalkInv(s, start, begin, end, len), s.ok
  PROVE  WalkInv(WalkStep(s, size, end, need, length), start, begin, end, Append(len, length))
<1> DEFINE n == Len(len)  t == WalkStep(s, size, end, need, length)  l == Append(len, length)
<1>1. /\ n \in Nat /\ Len(l) = n + 1 /\ l[n + 1] = length /\ \A i \in 1 .. n : l[i] = len[i]
      /\ Total(l) = Total(len) + length /\ Total(len) \in Int
  BY Appended, TotalAppend
<1>2. /\ s \in WalkScans /\ start /\ s.count = n /\ Declared(len)
      /\ s.offset = begin + Total(len) /\ s.offset <= end /\ s.offset \in Nat
  BY DEF WalkInv, WalkScans
<1>3. Declared(l) <=> length > 0
  BY <1>1, <1>2 DEF Declared
<1> HIDE DEF l, n
<1>4. CASE s.offset + need <= size /\ length # Unknown /\ Fits(s, end, length)
  <2>1. t = [s EXCEPT !.offset = s.offset + length, !.count = s.count + 1]
    BY <1>4 DEF WalkStep
  <2>2. s.offset + length \in Nat /\ s.count + 1 \in Nat /\ length > 0
    BY <1>1, <1>2, <1>4 DEF Unknown
  <2>3. t \in WalkScans /\ t.ok = s.ok /\ t.offset = s.offset + length /\ t.count = s.count + 1
    BY <1>2, <2>1, <2>2 DEF WalkScans
  <2>4. s.offset + length <= end
    BY <1>4 DEF Fits
  <2> HIDE DEF t
  <2> QED
    BY <1>1, <1>2, <1>3, <2>2, <2>3, <2>4 DEF WalkInv, t, l
<1>5. CASE ~(s.offset + need <= size /\ length # Unknown /\ Fits(s, end, length))
  <2>1. t = [s EXCEPT !.ok = FALSE]
    BY <1>5 DEF WalkStep
  <2>2. t \in WalkScans /\ t.ok = FALSE
    BY <1>2, <2>1 DEF WalkScans
  <2>3. ~(Declared(l) /\ begin + Total(l) = end)
    BY <1>1, <1>2, <1>3, <1>5 DEF Unknown, Fits
  <2> HIDE DEF t
  <2> QED
    BY <2>2, <2>3 DEF WalkInv, t, l
<1> QED
  BY <1>4, <1>5

(* The lengths of the frames of a file, by a table L of lengths.            *)
Lengths(L, f) == [i \in DOMAIN f |-> L[f[i]]]

Table(L, S, R) == L \in [S -> R]

LEMMA MapAppend ==
  ASSUME NEW S, NEW R, NEW L, Table(L, S, R), NEW f \in Seq(S), NEW u \in S
  PROVE  /\ Lengths(L, f) \in Seq(R) /\ Len(Lengths(L, f)) = Len(f)
         /\ Lengths(L, Append(f, u)) = Append(Lengths(L, f), L[u])
<1> DEFINE g == Append(f, u)  n == Len(f)  a == Lengths(L, f)  b == Lengths(L, g)
<1>1. /\ n \in Nat /\ DOMAIN f = 1 .. n /\ DOMAIN g = 1 .. n + 1 /\ g[n + 1] = u
      /\ \A i \in 1 .. n : g[i] = f[i] /\ f[i] \in S
  BY Appended, ElementOfSeq
<1>0. L \in [S -> R]
  BY DEF Table
<1>2. a = [i \in 1 .. n |-> L[f[i]]] /\ a \in [1 .. n -> R]
  BY <1>0, <1>1 DEF Lengths
<1>3. a \in Seq(R) /\ Len(a) = n
  BY <1>1, <1>2, SeqDef, LenProperties
<1> DEFINE c == Append(a, L[u])
<1>4. /\ DOMAIN c = 1 .. n + 1 /\ c[n + 1] = L[u] /\ \A i \in 1 .. n : c[i] = a[i]
      /\ c \in Seq(R)
  BY <1>0, <1>3, Appended
<1>5. b = [i \in 1 .. n + 1 |-> L[g[i]]]
  BY <1>1 DEF Lengths
<1>6. c = [i \in 1 .. n + 1 |-> c[i]]
  <2>1. Len(c) = n + 1
    BY <1>3, Appended
  <2> QED
    BY <1>4, <2>1
<1>7. \A i \in 1 .. n + 1 : b[i] = c[i]
  BY <1>1, <1>2, <1>4, <1>5
<1> HIDE DEF b, c
<1>8. b = c
  BY <1>5, <1>6, <1>7
<1> QED
  BY <1>3, <1>8 DEF a, b, c, g, n

LEMMA LengthsAppend ==
  ASSUME NEW S, NEW L \in [S -> Int], NEW f \in Seq(S), NEW u \in S
  PROVE  /\ Lengths(L, f) \in Seq(Int) /\ Len(Lengths(L, f)) = Len(f)
         /\ Lengths(L, Append(f, u)) = Append(Lengths(L, f), L[u])
<1>1. Table(L, S, Int)
  BY DEF Table
<1> QED
  BY <1>1, MapAppend

AdtsLengths == [u \in AdtsFrames |-> AdtsFrameLength(u)]
AmrLengths(wideband) == [u \in AmrFrames |-> AmrFrameLength(wideband, u)]
MpegLengths == [u \in MpegFrames |-> MpegAudioFrameLength(u)]

LEMMA AdtsLegal ==
  ASSUME NEW u \in AdtsFrames
  PROVE  AdtsFrameLength(u) \in Int /\ (AdtsFrameLength(u) = Unknown \/ AdtsFrameLength(u) >= 7)
  BY DEF AdtsFrames, AdtsFrameLength, AdtsHeaderBytes, Unknown

LEMMA AmrLegal ==
  ASSUME NEW wideband \in BOOLEAN, NEW u \in AmrFrames
  PROVE  /\ AmrFrameLength(wideband, u) \in Int
         /\ AmrFrameLength(wideband, u) = Unknown \/ AmrFrameLength(wideband, u) >= 1
<1> DEFINE bits == AmrFrameBits(wideband, u.type)
<1>1. bits \in Int /\ (bits = Unknown \/ bits >= 0)
  <2>1. u.type \in 0 .. 15
    BY DEF AmrFrames
  <2>2. Len(AMR_WB_FRAME_BITS) = 10 /\ \A i \in 1 .. 10 : AMR_WB_FRAME_BITS[i] \in Nat
    BY DEF AMR_WB_FRAME_BITS
  <2>3. Len(AMR_NB_FRAME_BITS) = 9 /\ \A i \in 1 .. 9 : AMR_NB_FRAME_BITS[i] \in Nat
    BY DEF AMR_NB_FRAME_BITS
  <2>4. CASE wideband
    <3>1. bits = CASE u.type < Len(AMR_WB_FRAME_BITS) -> AMR_WB_FRAME_BITS[u.type + 1]
                   [] u.type = 15 \/ (u.type = 14 /\ wideband) -> 0
                   [] OTHER -> Unknown
      BY <2>4 DEF AmrFrameBits
    <3> HIDE DEF bits
    <3>2. CASE u.type < 10
      BY <2>1, <2>2, <3>1, <3>2
    <3>3. CASE u.type >= 10
      BY <2>1, <2>2, <2>4, <3>1, <3>3 DEF Unknown
    <3> QED
      BY <2>1, <3>2, <3>3
  <2>5. CASE ~wideband
    <3>1. bits = CASE u.type < Len(AMR_NB_FRAME_BITS) -> AMR_NB_FRAME_BITS[u.type + 1]
                   [] u.type = 15 \/ (u.type = 14 /\ wideband) -> 0
                   [] OTHER -> Unknown
      BY <2>5 DEF AmrFrameBits
    <3> HIDE DEF bits
    <3>2. CASE u.type < 9
      BY <2>1, <2>3, <3>1, <3>2
    <3>3. CASE u.type >= 9
      BY <2>1, <2>3, <2>5, <3>1, <3>3 DEF Unknown
    <3> QED
      BY <2>1, <3>2, <3>3
  <2> QED
    BY <2>4, <2>5
<1> HIDE DEF bits
<1>2. bits # Unknown => (bits + 7) \div 8 \in Nat
  BY <1>1 DEF Unknown
<1> QED
  BY <1>1, <1>2 DEF AmrFrameLength, bits, Unknown

LEMMA MpegLegal ==
  ASSUME NEW u \in MpegFrames
  PROVE  /\ MpegAudioFrameLength(u) \in Int
         /\ MpegAudioFrameLength(u) = Unknown \/ MpegAudioFrameLength(u) >= 4
<1>1. CASE ~MpegHeaderValid(u)
  BY <1>1 DEF MpegAudioFrameLength, Unknown
<1>2. CASE MpegHeaderValid(u)
  BY <1>2, MpegCarries
<1> QED
  BY <1>1, <1>2

(* What the walk accepts fills the space from begin to end.                 *)
LEMMA WalkVerdict ==
  ASSUME NEW s, NEW start, NEW begin \in Nat, NEW end \in Int, NEW len \in Seq(Int),
         WalkInv(s, start, begin, end, len)
  PROVE  /\ s.ok => Declared(len) /\ begin + Total(len) <= end
         /\ WalkAccepts(s, end) <=>
              /\ start /\ Declared(len) /\ begin + Total(len) = end
              /\ Len(len) \in 1 .. MAX_FRAMES - 1
  BY DEF WalkInv, WalkAccepts

-----------------------------------------------------------------------------
(***************************************************************************)
(* ISO BMFF.  The offsets of the boxes: a recursive function of the        *)
(* position, the next one for a file with one more box.                    *)
(***************************************************************************)
BoxFiles == [size : Nat, mime : STRING]

OffsetsOf(h, l, f) ==
  h = [i \in 1 .. Len(f) + 1 |-> IF i = 1 THEN 0 ELSE h[i - 1] + BoxSize(l, f[i - 1], h[i - 1])]

LEMMA BoxSizeIsInt ==
  ASSUME NEW l \in BoxFiles, NEW u \in Boxes, NEW offset \in Int
  PROVE  BoxSize(l, u, offset) \in Int
  BY DEF BoxFiles, Boxes, BoxSize

LEMMA OffsetsDefined ==
  ASSUME NEW l \in BoxFiles, NEW f \in Seq(Boxes)
  PROVE  LET at == BoxOffset(l, f) IN
           /\ OffsetsOf(at, l, f)
           /\ at[1] = 0
           /\ \A i \in 1 .. Len(f) : at[i + 1] = at[i] + BoxSize(l, f[i], at[i])
           /\ \A i \in 1 .. Len(f) + 1 : at[i] \in Int
<1> DEFINE n == Len(f)  at == BoxOffset(l, f)
<1>1. n \in Nat /\ \A i \in 1 .. n : f[i] \in Boxes
  BY LenProperties, ElementOfSeq
<1> DEFINE Upto(k, h) == h = [i \in 1 .. k + 1 |-> IF i = 1 THEN 0
                                                  ELSE h[i - 1] + BoxSize(l, f[i - 1], h[i - 1])]
           S == {k \in 0 .. n : \E h : Upto(k, h)}
<1>2. 0 \in S
  <2> DEFINE h == [i \in 1 .. 1 |-> 0]
  <2>1. \A i \in 1 .. 1 : i = 1
    OBVIOUS
  <2>2. Upto(0, h)
    BY <2>1
  <2> HIDE DEF h, Upto
  <2> QED
    BY <1>1, <2>2
<1>3. ASSUME NEW k \in 1 .. n, k - 1 \in S PROVE k \in S
  <2>1. PICK g : Upto(k - 1, g)
    BY <1>3
  <2>2. (k - 1) + 1 = k /\ k \in Nat
    BY <1>1
  <2>3. g = [i \in 1 .. k |-> IF i = 1 THEN 0 ELSE g[i - 1] + BoxSize(l, f[i - 1], g[i - 1])]
    BY <2>1, <2>2
  <2> DEFINE h == [i \in 1 .. k + 1 |-> IF i \in 1 .. k THEN g[i] ELSE g[k] + BoxSize(l, f[k], g[k])]
  <2>4. ASSUME NEW i \in 1 .. k + 1
        PROVE  h[i] = IF i = 1 THEN 0 ELSE h[i - 1] + BoxSize(l, f[i - 1], h[i - 1])
    <3>1. CASE i = 1
      BY <2>2, <2>3, <3>1
    <3>2. CASE i \in 2 .. k
      <4>1. h[i] = g[i] /\ h[i - 1] = g[i - 1] /\ i \in 1 .. k /\ i # 1
        BY <2>2, <3>2
      <4>2. g[i] = g[i - 1] + BoxSize(l, f[i - 1], g[i - 1])
        BY <2>3, <4>1
      <4> QED
        BY <4>1, <4>2
    <3>3. CASE i = k + 1
      <4>1. h[i] = g[k] + BoxSize(l, f[k], g[k]) /\ h[k] = g[k] /\ i - 1 = k /\ i # 1
        BY <2>2, <3>3
      <4> QED
        BY <4>1
    <3> QED
      BY <2>2, <3>1, <3>2, <3>3
  <2>5. Upto(k, h)
    BY <2>4
  <2> HIDE DEF h, Upto
  <2>6. k \in 0 .. n
    BY <1>1
  <2> QED
    BY <2>5, <2>6
<1> HIDE DEF S
<1>4. \A k \in 0 .. n : k \in S
  BY <1>1, <1>2, <1>3, UpTo
<1>5. \E h : OffsetsOf(h, l, f)
  BY <1>1, <1>4 DEF S, OffsetsOf
<1>6. at = CHOOSE h : OffsetsOf(h, l, f)
  BY DEF BoxOffset, OffsetsOf
<1>7. OffsetsOf(at, l, f)
  BY <1>5, <1>6
<1> HIDE DEF at
<1>8. at[1] = 0 /\ \A i \in 1 .. n : at[i + 1] = at[i] + BoxSize(l, f[i], at[i])
  <2>1. \A j \in 1 .. n + 1 : at[j] = IF j = 1 THEN 0 ELSE at[j - 1] + BoxSize(l, f[j - 1], at[j - 1])
    BY <1>7 DEF OffsetsOf
  <2>2. 1 \in 1 .. n + 1
    BY <1>1
  <2>3. ASSUME NEW i \in 1 .. n PROVE at[i + 1] = at[i] + BoxSize(l, f[i], at[i])
    <3>1. i + 1 \in 1 .. n + 1 /\ i + 1 # 1 /\ (i + 1) - 1 = i
      BY <1>1
    <3> QED
      BY <2>1, <3>1
  <2> QED
    BY <2>1, <2>2, <2>3
<1>9. \A i \in 1 .. n + 1 : at[i] \in Int
  <2> DEFINE T == {k \in 0 .. n : at[k + 1] \in Int}
  <2>1. 0 \in T
    BY <1>1, <1>8
  <2>2. ASSUME NEW k \in 1 .. n, k - 1 \in T PROVE k \in T
    <3>1. at[k] \in Int
      BY <1>1, <2>2
    <3>2. BoxSize(l, f[k], at[k]) \in Int
      BY <1>1, <3>1, BoxSizeIsInt
    <3>3. k \in 0 .. n /\ at[k + 1] = at[k] + BoxSize(l, f[k], at[k])
      BY <1>1, <1>8
    <3> QED
      BY <3>1, <3>2, <3>3
  <2> HIDE DEF T
  <2>3. \A k \in 0 .. n : k \in T
    BY <1>1, <2>1, <2>2, UpTo
  <2>4. ASSUME NEW i \in 1 .. n + 1 PROVE at[i] \in Int
    <3>1. i - 1 \in 0 .. n /\ (i - 1) + 1 = i
      BY <1>1
    <3> QED
      BY <2>3, <3>1 DEF T
  <2> QED
    BY <2>4
<1> QED
  BY <1>7, <1>8, <1>9 DEF at

LEMMA OffsetsAppend ==
  ASSUME NEW l \in BoxFiles, NEW f \in Seq(Boxes), NEW u \in Boxes
  PROVE  /\ \A i \in 1 .. Len(f) + 1 : BoxOffset(l, Append(f, u))[i] = BoxOffset(l, f)[i]
         /\ BoxOffset(l, Append(f, u))[Len(f) + 2] =
              BoxOffset(l, f)[Len(f) + 1] + BoxSize(l, u, BoxOffset(l, f)[Len(f) + 1])
<1> DEFINE n == Len(f)  g == Append(f, u)  a == BoxOffset(l, f)  b == BoxOffset(l, g)
<1>1. /\ n \in Nat /\ Len(g) = n + 1 /\ g \in Seq(Boxes) /\ g[n + 1] = u
      /\ \A i \in 1 .. n : g[i] = f[i]
  BY Appended
<1>2. a[1] = 0 /\ \A i \in 1 .. n : a[i + 1] = a[i] + BoxSize(l, f[i], a[i])
  BY OffsetsDefined
<1>3. b[1] = 0 /\ \A i \in 1 .. n + 1 : b[i + 1] = b[i] + BoxSize(l, g[i], b[i])
  <2> HIDE DEF g
  <2> QED
    BY <1>1, OffsetsDefined
<1> HIDE DEF n, g, a, b
<1> DEFINE T == {k \in 0 .. n : a[k + 1] = b[k + 1]}
<1>4. 0 \in T
  BY <1>1, <1>2, <1>3
<1>5. ASSUME NEW k \in 1 .. n, k - 1 \in T PROVE k \in T
  <2>1. a[k] = b[k] /\ g[k] = f[k] /\ k \in 1 .. n + 1
    BY <1>1, <1>5
  <2> QED
    BY <1>2, <1>3, <2>1
<1> HIDE DEF T
<1>6. \A k \in 0 .. n : k \in T
  BY <1>1, <1>4, <1>5, UpTo
<1>7. ASSUME NEW i \in 1 .. n + 1 PROVE b[i] = a[i]
  <2>1. i - 1 \in 0 .. n /\ (i - 1) + 1 = i
    BY <1>1
  <2> QED
    BY <1>6, <2>1 DEF T
<1>8. b[n + 2] = a[n + 1] + BoxSize(l, u, a[n + 1])
  <2>1. n + 1 \in 1 .. n + 1 /\ (n + 1) + 1 = n + 2
    BY <1>1
  <2> QED
    BY <1>1, <1>3, <1>7, <2>1
<1> QED
  BY <1>7, <1>8 DEF n, g, a, b

(* A box header is refused exactly when the box does not fit or is shorter  *)
(* than its own header.                                                     *)
BoxHeader(u) == IF u.size32 = 1 THEN 16 ELSE 8

LEMMA ParsedInFile ==
  ASSUME NEW l \in BoxFiles, NEW u \in Boxes, NEW offset \in Nat, offset <= l.size
  PROVE  LET left == l.size - offset
             box == ParseBoxHeader(u, Least(16, left), left, TRUE)
             size == BoxSize(l, u, offset)
         IN /\ box # NoBox <=> u.printable /\ size >= BoxHeader(u) /\ offset + size <= l.size
            /\ box # NoBox => box.size = size /\ box.header = BoxHeader(u) /\ size \in Nat
<1> DEFINE left == l.size - offset
           box == ParseBoxHeader(u, Least(16, left), left, TRUE)
           size == BoxSize(l, u, offset)
<1>1. left \in Nat /\ l.size \in Nat /\ u.size32 \in Nat /\ u.size64 \in Nat /\ u.printable \in BOOLEAN
  BY DEF BoxFiles, Boxes
<1>2. ASSUME NEW a, NEW b, b # 0 PROVE [size |-> a, header |-> b] # NoBox
  <2>1. [size |-> a, header |-> b].header = b /\ NoBox.header = 0
    BY DEF NoBox
  <2> QED
    BY <1>2, <2>1
<1>3. CASE u.size32 = 0
  BY <1>1, <1>2, <1>3 DEF ParseBoxHeader, BoxSize, BoxHeader, Least, NoBox
<1>4. CASE u.size32 = 1
  BY <1>1, <1>2, <1>4 DEF ParseBoxHeader, BoxSize, BoxHeader, Least, NoBox
<1>5. CASE u.size32 > 1
  BY <1>1, <1>2, <1>5 DEF ParseBoxHeader, BoxSize, BoxHeader, Least, NoBox
<1>6. u.size32 = 0 \/ u.size32 = 1 \/ u.size32 > 1
  BY <1>1
<1> HIDE DEF left, box, size
<1>7. QED
  BY <1>3, <1>4, <1>5, <1>6 DEF left, box, size

LEMMA ParsedInPrefix ==
  ASSUME NEW l \in BoxFiles, NEW u \in Boxes, NEW offset \in Nat, offset <= l.size
  PROVE  LET left == Least(l.size, INSPECTION_BYTES) - offset
             box == ParseBoxHeader(u, left, left, FALSE)
             size == BoxSize(l, u, offset)
         IN /\ left >= 8 /\ box # NoBox <=>
                 /\ u.printable /\ u.size32 # 0 /\ size >= BoxHeader(u)
                 /\ offset + size <= l.size /\ offset + size <= INSPECTION_BYTES
            /\ box # NoBox => box.size = size /\ box.header = BoxHeader(u)
<1> DEFINE left == Least(l.size, INSPECTION_BYTES) - offset
           box == ParseBoxHeader(u, left, left, FALSE)
           size == BoxSize(l, u, offset)
<1>1. /\ left \in Int /\ l.size \in Nat /\ u.size32 \in Nat /\ u.size64 \in Nat /\ u.printable \in BOOLEAN
      /\ INSPECTION_BYTES \in Nat
  BY LimitTypes DEF BoxFiles, Boxes, Least
<1>2. ASSUME NEW a, NEW b, b # 0 PROVE [size |-> a, header |-> b] # NoBox
  <2>1. [size |-> a, header |-> b].header = b /\ NoBox.header = 0
    BY DEF NoBox
  <2> QED
    BY <1>2, <2>1
<1>3. CASE u.size32 = 0
  BY <1>1, <1>2, <1>3 DEF ParseBoxHeader, BoxSize, BoxHeader, Least, NoBox
<1>4. CASE u.size32 = 1
  BY <1>1, <1>2, <1>4 DEF ParseBoxHeader, BoxSize, BoxHeader, Least, NoBox
<1>5. CASE u.size32 > 1
  BY <1>1, <1>2, <1>5 DEF ParseBoxHeader, BoxSize, BoxHeader, Least, NoBox
<1>6. u.size32 = 0 \/ u.size32 = 1 \/ u.size32 > 1
  BY <1>1
<1> HIDE DEF left, box, size
<1>7. QED
  BY <1>3, <1>4, <1>5, <1>6 DEF left, box, size

BoxScans == [ok : BOOLEAN, offset : Nat, count : Nat, types : SUBSET STRING,
             signature : {"open", "yes", "no"}]

Ftyp(f) == {i \in DOMAIN f : f[i].type = "ftyp"}

EndsAt(l, f) == BoxOffset(l, f)[Len(f) + 1]

BoxKnows(l, s, f) ==
  /\ s.offset = EndsAt(l, f) /\ s.offset <= l.size
  /\ s.count = Len(f)
  /\ s.types = {f[i].type : i \in DOMAIN f}
  /\ s.signature = IF Ftyp(f) = {} THEN "open" ELSE "yes"

BoxInv(l, s, f) ==
  /\ s \in BoxScans
  /\ s.ok <=> BoxPrefix(l, f)
  /\ s.ok => BoxKnows(l, s, f)

LegalLeading(at, f, i) ==
  /\ i <= MAX_LEADING_BOXES + 1
  /\ f[i].type \in LEADING_BOX_TYPES \cup {"ftyp"}
  /\ f[i].size32 # 0
  /\ at[i + 1] <= INSPECTION_BYTES

LegalFtyp(l, u, size) ==
  /\ size <= MAX_FILE_TYPE_BOX_BYTES
  /\ size - BoxHeader(u) >= 8 /\ size % 4 = 0
  /\ MatchesMimeFamily(u, l.mime)

(* Few enough to have at most one: any two are the same.                    *)
LEMMA AtMostOne ==
  ASSUME NEW T, IsFiniteSet(T)
  PROVE  Cardinality(T) <= 1 <=> \A a, b \in T : a = b
<1>1. Cardinality(T) \in Nat
  BY FS_CardinalityType
<1>2. ASSUME Cardinality(T) <= 1 PROVE \A a, b \in T : a = b
  <2>1. CASE T = {}
    BY <2>1
  <2>2. CASE T # {}
    <3>1. Cardinality(T) = 1
      BY <1>1, <1>2, <2>2, FS_EmptySet
    <3>2. PICK x : T = {x}
      BY <3>1, FS_Singleton
    <3> QED
      BY <3>2
  <2> QED
    BY <2>1, <2>2
<1>3. ASSUME \A a, b \in T : a = b PROVE Cardinality(T) <= 1
  <2>1. CASE T = {}
    BY <2>1, FS_EmptySet
  <2>2. CASE T # {}
    <3>1. PICK x \in T : TRUE
      BY <2>2
    <3>2. T = {x}
      BY <1>3, <3>1
    <3>3. Cardinality(T) = 1
      BY <3>2, FS_Singleton
    <3> QED
      BY <3>3
  <2> QED
    BY <2>1, <2>2
<1> QED
  BY <1>2, <1>3

LEMMA BoxUnfold ==
  ASSUME NEW l \in BoxFiles, NEW f \in Seq(Boxes)
  PROVE  LET at == BoxOffset(l, f) IN
           BoxPrefix(l, f) <=>
             /\ l.size >= 24 /\ at[Len(f) + 1] <= l.size /\ Len(f) <= MAX_TOP_LEVEL_BOXES
             /\ \A i \in 1 .. Len(f) : f[i].printable /\ at[i + 1] - at[i] >= BoxHeader(f[i])
             /\ \A a, b \in Ftyp(f) : a = b
             /\ \A i \in 1 .. Len(f) : (\A k \in Ftyp(f) : i <= k) => LegalLeading(at, f, i)
             /\ \A k \in Ftyp(f) : LegalFtyp(l, f[k], at[k + 1] - at[k])
<1>1. DOMAIN f = 1 .. Len(f) /\ Len(f) \in Nat
  BY LenProperties
<1>2. IsFiniteSet(Ftyp(f))
  <2>1. IsFiniteSet(1 .. Len(f))
    BY <1>1, FS_Interval
  <2>2. Ftyp(f) \in SUBSET (1 .. Len(f))
    BY <1>1 DEF Ftyp
  <2> QED
    BY <2>1, <2>2, FS_Subset
<1>3. Cardinality(Ftyp(f)) <= 1 <=> \A a, b \in Ftyp(f) : a = b
  BY <1>2, AtMostOne
<1>4. Cardinality({i \in DOMAIN f : f[i].type = "ftyp"}) = Cardinality(Ftyp(f))
  BY DEF Ftyp
<1> QED
  BY <1>1, <1>3, Zenon DEF BoxPrefix, LegalLeading, LegalFtyp, BoxHeader, Ftyp

LEMMA FtypAppend ==
  ASSUME NEW f \in Seq(Boxes), NEW u \in Boxes
  PROVE  /\ Ftyp(f) \subseteq 1 .. Len(f)
         /\ u.type = "ftyp" => Ftyp(Append(f, u)) = Ftyp(f) \cup {Len(f) + 1}
         /\ u.type # "ftyp" => Ftyp(Append(f, u)) = Ftyp(f)
  BY AtAppended DEF Ftyp, At, Positions

(* The reference after one more box.                                        *)
LEMMA BoxExtends ==
  ASSUME NEW l \in BoxFiles, NEW f \in Seq(Boxes), NEW u \in Boxes, BoxPrefix(l, f),
         Len(f) < MAX_TOP_LEVEL_BOXES
  PROVE  LET o == EndsAt(l, f)  size == BoxSize(l, u, o) IN
           BoxPrefix(l, Append(f, u)) <=>
             /\ u.printable /\ size >= BoxHeader(u) /\ o + size <= l.size
             /\ Ftyp(f) # {} => u.type # "ftyp"
             /\ Ftyp(f) = {} => /\ Len(f) <= MAX_LEADING_BOXES
                                /\ u.type \in LEADING_BOX_TYPES \cup {"ftyp"}
                                /\ u.size32 # 0 /\ o + size <= INSPECTION_BYTES
                                /\ u.type = "ftyp" => LegalFtyp(l, u, size)
<1> DEFINE n == Len(f)  g == Append(f, u)  at == BoxOffset(l, f)  bt == BoxOffset(l, g)
           o == EndsAt(l, f)  size == BoxSize(l, u, o)
<1>1. /\ n \in Nat /\ Len(g) = n + 1 /\ g \in Seq(Boxes) /\ g[n + 1] = u
      /\ \A i \in 1 .. n : g[i] = f[i]
  BY Appended
<1>2. (\A i \in 1 .. n + 1 : bt[i] = at[i]) /\ bt[n + 2] = o + size
  BY OffsetsAppend DEF EndsAt
<1>3. o = at[n + 1] /\ o \in Int
  <2>1. n + 1 \in 1 .. n + 1
    BY <1>1
  <2> QED
    BY <2>1, OffsetsDefined DEF EndsAt
<1>4. size \in Int
  BY <1>3, BoxSizeIsInt
<1>5. /\ Ftyp(f) \subseteq 1 .. n
      /\ u.type = "ftyp" => Ftyp(g) = Ftyp(f) \cup {n + 1}
      /\ u.type # "ftyp" => Ftyp(g) = Ftyp(f)
  BY FtypAppend
<1>6. /\ l.size >= 24 /\ at[n + 1] <= l.size /\ n <= MAX_TOP_LEVEL_BOXES
      /\ \A i \in 1 .. n : f[i].printable /\ at[i + 1] - at[i] >= BoxHeader(f[i])
      /\ \A a, b \in Ftyp(f) : a = b
      /\ \A i \in 1 .. n : (\A k \in Ftyp(f) : i <= k) => LegalLeading(at, f, i)
      /\ \A k \in Ftyp(f) : LegalFtyp(l, f[k], at[k + 1] - at[k])
  BY BoxUnfold
<1>7. BoxPrefix(l, g) <=>
        /\ l.size >= 24 /\ bt[n + 2] <= l.size /\ n + 1 <= MAX_TOP_LEVEL_BOXES
        /\ \A i \in 1 .. n + 1 : g[i].printable /\ bt[i + 1] - bt[i] >= BoxHeader(g[i])
        /\ \A a, b \in Ftyp(g) : a = b
        /\ \A i \in 1 .. n + 1 : (\A k \in Ftyp(g) : i <= k) => LegalLeading(bt, g, i)
        /\ \A k \in Ftyp(g) : LegalFtyp(l, g[k], bt[k + 1] - bt[k])
  <2> HIDE DEF g
  <2>1. (n + 1) + 1 = n + 2
    BY <1>1
  <2> QED
    BY <1>1, <2>1, BoxUnfold
<1> HIDE DEF n, g, at, bt, o, size
<1>8. \A i : i \in 1 .. n + 1 <=> i \in 1 .. n \/ i = n + 1
  BY <1>1
<1>9. \A i \in 1 .. n : bt[i + 1] = at[i + 1] /\ bt[i] = at[i] /\ g[i] = f[i]
  <2> SUFFICES ASSUME NEW i \in 1 .. n PROVE bt[i + 1] = at[i + 1] /\ bt[i] = at[i] /\ g[i] = f[i]
    OBVIOUS
  <2>1. i \in 1 .. n + 1 /\ i + 1 \in 1 .. n + 1
    BY <1>1
  <2> QED
    BY <1>1, <1>2, <2>1
<1>10. bt[(n + 1) + 1] = o + size /\ bt[n + 1] = o /\ (o + size) - o = size /\ n + 1 \notin 1 .. n
  <2>1. (n + 1) + 1 = n + 2 /\ n + 1 \in 1 .. n + 1
    BY <1>1
  <2> QED
    BY <1>1, <1>2, <1>3, <1>4, <2>1
<1>11. n + 1 <= MAX_TOP_LEVEL_BOXES
  BY <1>1, LimitTypes DEF n
<1>a. (\A i \in 1 .. n + 1 : g[i].printable /\ bt[i + 1] - bt[i] >= BoxHeader(g[i]))
        <=> u.printable /\ size >= BoxHeader(u)
  BY <1>1, <1>6, <1>8, <1>9, <1>10
<1>b. (\A a, b \in Ftyp(g) : a = b) <=> (Ftyp(f) # {} => u.type # "ftyp")
  BY <1>5, <1>6, <1>10
<1>c. (\A i \in 1 .. n + 1 : (\A k \in Ftyp(g) : i <= k) => LegalLeading(bt, g, i))
        <=> (Ftyp(f) = {} => /\ n <= MAX_LEADING_BOXES
                             /\ u.type \in LEADING_BOX_TYPES \cup {"ftyp"}
                             /\ u.size32 # 0 /\ o + size <= INSPECTION_BYTES)
  <2>1. ASSUME NEW i \in 1 .. n
        PROVE  (\A k \in Ftyp(g) : i <= k) => LegalLeading(bt, g, i)
    <3> SUFFICES ASSUME \A k \in Ftyp(g) : i <= k PROVE LegalLeading(bt, g, i)
      OBVIOUS
    <3>1. \A k \in Ftyp(f) : i <= k
      BY <1>5
    <3> QED
      BY <1>6, <1>9, <3>1 DEF LegalLeading
  <2>2. (\A k \in Ftyp(g) : n + 1 <= k) <=> Ftyp(f) = {}
    <3>1. \A k \in Ftyp(f) : ~(n + 1 <= k)
      BY <1>1, <1>5
    <3>2. n + 1 <= n + 1
      BY <1>1
    <3> QED
      BY <1>5, <3>1, <3>2
  <2>3. LegalLeading(bt, g, n + 1) <=> /\ n <= MAX_LEADING_BOXES
                             /\ u.type \in LEADING_BOX_TYPES \cup {"ftyp"}
                             /\ u.size32 # 0 /\ o + size <= INSPECTION_BYTES
    <3>1. n + 1 <= MAX_LEADING_BOXES + 1 <=> n <= MAX_LEADING_BOXES
      BY <1>1, LimitTypes
    <3> QED
      BY <1>1, <1>10, <3>1 DEF LegalLeading
  <2> QED
    BY <1>8, <2>1, <2>2, <2>3
<1>d. ASSUME Ftyp(f) # {} => u.type # "ftyp"
      PROVE  (\A k \in Ftyp(g) : LegalFtyp(l, g[k], bt[k + 1] - bt[k]))
               <=> (Ftyp(f) = {} => (u.type = "ftyp" => LegalFtyp(l, u, size)))
  <2>1. CASE u.type = "ftyp"
    <3>1. Ftyp(g) = {n + 1} /\ Ftyp(f) = {}
      BY <1>5, <1>d, <2>1
    <3> QED
      BY <1>1, <1>10, <2>1, <3>1
  <2>2. CASE u.type # "ftyp"
    <3>1. \A k \in Ftyp(g) : k \in Ftyp(f) /\ g[k] = f[k] /\ bt[k + 1] = at[k + 1] /\ bt[k] = at[k]
      BY <1>5, <1>9, <2>2
    <3> QED
      BY <1>6, <2>2, <3>1
  <2> QED
    BY <2>1, <2>2
<1>12. l.size >= 24 /\ bt[n + 2] = o + size
  BY <1>2, <1>6
<1>13. BoxPrefix(l, g) <=>
         /\ u.printable /\ size >= BoxHeader(u) /\ o + size <= l.size
         /\ Ftyp(f) # {} => u.type # "ftyp"
         /\ Ftyp(f) = {} => /\ n <= MAX_LEADING_BOXES
                            /\ u.type \in LEADING_BOX_TYPES \cup {"ftyp"}
                            /\ u.size32 # 0 /\ o + size <= INSPECTION_BYTES
                            /\ u.type = "ftyp" => LegalFtyp(l, u, size)
  BY <1>7, <1>11, <1>12, <1>a, <1>b, <1>c, <1>d, Zenon
<1> QED
  BY <1>13 DEF n, g, o, size

(* The check of an ftyp box, by the size its header gives.                  *)
LEMMA FtypChecked ==
  ASSUME NEW l \in BoxFiles, NEW u \in Boxes, NEW box, NEW size \in Nat,
         box.size = size, box.header = BoxHeader(u)
  PROVE  FileTypeMatches(u, box, l.mime) <=> LegalFtyp(l, u, size)
<1>1. BoxHeader(u) = 8 \/ BoxHeader(u) = 16
  BY DEF BoxHeader
<1>2. ASSUME NEW h \in {8, 16} PROVE (size - h - 8) % 4 = 0 <=> size % 4 = 0
  OBVIOUS
<1> QED
  BY <1>1, <1>2 DEF FileTypeMatches, LegalFtyp

(* The signature, which sees the prefix only, and the structure together    *)
(* take a box exactly when the reference does.                              *)
LEMMA BoxRefuses ==
  ASSUME NEW l \in BoxFiles, NEW f \in Seq(Boxes), NEW u \in Boxes, NEW s \in BoxScans,
         BoxKnows(l, s, f)
  PROVE  LET left == l.size - s.offset
             box == ParseBoxHeader(u, Least(16, left), left, TRUE)
             size == BoxSize(l, u, s.offset)
             taken == ~(SignatureStep(l, s, u) = "no" \/ RefusesBox(l, s, u, box))
         IN /\ taken <=>
                 /\ u.printable /\ size >= BoxHeader(u) /\ s.offset + size <= l.size
                 /\ Ftyp(f) # {} => u.type # "ftyp"
                 /\ Ftyp(f) = {} => /\ Len(f) <= MAX_LEADING_BOXES
                                    /\ u.type \in LEADING_BOX_TYPES \cup {"ftyp"}
                                    /\ u.size32 # 0 /\ s.offset + size <= INSPECTION_BYTES
                                    /\ u.type = "ftyp" => LegalFtyp(l, u, size)
            /\ taken => /\ box.size = size /\ size \in Nat
                        /\ SignatureStep(l, s, u) =
                             IF Ftyp(f) = {} /\ u.type # "ftyp" THEN "open" ELSE "yes"
<1> DEFINE left == l.size - s.offset
           box == ParseBoxHeader(u, Least(16, left), left, TRUE)
           size == BoxSize(l, u, s.offset)
           near == Least(l.size, INSPECTION_BYTES) - s.offset
           pre == ParseBoxHeader(u, near, near, FALSE)
<1>1. s.offset \in Nat /\ s.offset <= l.size /\ s.count = Len(f) /\ Len(f) \in Nat
  BY DEF BoxKnows, BoxScans
<1>2. /\ box # NoBox <=> u.printable /\ size >= BoxHeader(u) /\ s.offset + size <= l.size
      /\ box # NoBox => box.size = size /\ box.header = BoxHeader(u) /\ size \in Nat
  BY <1>1, ParsedInFile
<1>3. /\ near >= 8 /\ pre # NoBox <=>
           /\ u.printable /\ u.size32 # 0 /\ size >= BoxHeader(u)
           /\ s.offset + size <= l.size /\ s.offset + size <= INSPECTION_BYTES
      /\ pre # NoBox => pre.size = size /\ pre.header = BoxHeader(u)
  BY <1>1, ParsedInPrefix
<1>4. near < 8 <=> ~(near >= 8)
  BY <1>1, LimitTypes DEF Least, BoxFiles
<1>5. s.count > MAX_LEADING_BOXES <=> ~(Len(f) <= MAX_LEADING_BOXES)
  BY <1>1, LimitTypes
<1>6. "ftyp" \in s.types <=> Ftyp(f) # {}
  BY DEF BoxKnows, Ftyp
<1>7. s.signature = IF Ftyp(f) = {} THEN "open" ELSE "yes"
  BY DEF BoxKnows
<1>8. ASSUME box # NoBox PROVE FileTypeMatches(u, box, l.mime) <=> LegalFtyp(l, u, size)
  BY <1>2, <1>8, FtypChecked
<1>9. ASSUME pre # NoBox, size \in Nat PROVE FileTypeMatches(u, pre, l.mime) <=> LegalFtyp(l, u, size)
  BY <1>3, <1>9, FtypChecked
<1>10. SignatureStep(l, s, u) =
         CASE s.signature # "open" -> s.signature
           [] s.signature = "open" /\ (near < 8 \/ s.count > MAX_LEADING_BOXES \/ pre = NoBox) -> "no"
           [] OTHER -> IF u.type = "ftyp"
                     THEN IF FileTypeMatches(u, pre, l.mime) THEN "yes" ELSE "no"
                     ELSE IF u.type \in LEADING_BOX_TYPES THEN "open" ELSE "no"
  BY DEF SignatureStep
<1>11. RefusesBox(l, s, u, box) <=>
         \/ box = NoBox
         \/ /\ "ftyp" \notin s.types
            /\ u.type \notin LEADING_BOX_TYPES
            /\ ~(u.type = "ftyp" /\ FileTypeMatches(u, box, l.mime))
         \/ "ftyp" \in s.types /\ u.type = "ftyp"
  BY DEF RefusesBox
<1>13. "ftyp" \notin LEADING_BOX_TYPES
  BY DEF LEADING_BOX_TYPES
<1> HIDE DEF left, box, size, near, pre
<1>14. CASE Ftyp(f) # {}
  <2>1. SignatureStep(l, s, u) = "yes"
    BY <1>7, <1>10, <1>14
  <2> QED
    BY <1>2, <1>6, <1>11, <1>14, <2>1 DEF box, size, left
<1>15. CASE Ftyp(f) = {}
  <2>1. SignatureStep(l, s, u) =
          IF near < 8 \/ s.count > MAX_LEADING_BOXES \/ pre = NoBox THEN "no"
          ELSE IF u.type = "ftyp" THEN IF FileTypeMatches(u, pre, l.mime) THEN "yes" ELSE "no"
               ELSE IF u.type \in LEADING_BOX_TYPES THEN "open" ELSE "no"
    BY <1>7, <1>10, <1>15
  <2>2. SignatureStep(l, s, u) # "no" <=>
          /\ near >= 8 /\ pre # NoBox /\ Len(f) <= MAX_LEADING_BOXES
          /\ u.type = "ftyp" => FileTypeMatches(u, pre, l.mime)
          /\ u.type # "ftyp" => u.type \in LEADING_BOX_TYPES
    BY <1>4, <1>5, <2>1
  <2>3. RefusesBox(l, s, u, box) <=>
         \/ box = NoBox
         \/ u.type \notin LEADING_BOX_TYPES /\ ~(u.type = "ftyp" /\ FileTypeMatches(u, box, l.mime))
    BY <1>6, <1>11, <1>15
  <2>4. near >= 8 /\ pre # NoBox => box # NoBox
    BY <1>2, <1>3
  <2>5. ~(SignatureStep(l, s, u) = "no" \/ RefusesBox(l, s, u, box)) <=>
          /\ near >= 8 /\ pre # NoBox /\ Len(f) <= MAX_LEADING_BOXES
          /\ u.type \in LEADING_BOX_TYPES \cup {"ftyp"}
          /\ u.type = "ftyp" => LegalFtyp(l, u, size)
    <3>1. CASE near >= 8 /\ pre # NoBox
      <4>1. box # NoBox /\ size \in Nat
        BY <1>2, <2>4, <3>1
      <4>2. FileTypeMatches(u, pre, l.mime) <=> LegalFtyp(l, u, size)
        BY <1>9, <3>1, <4>1
      <4>3. FileTypeMatches(u, box, l.mime) <=> LegalFtyp(l, u, size)
        BY <1>8, <4>1
      <4> QED
        BY <1>13, <2>2, <2>3, <3>1, <4>1, <4>2, <4>3
    <3>2. CASE ~(near >= 8 /\ pre # NoBox)
      BY <2>2, <3>2
    <3> QED
      BY <3>1, <3>2
  <2>6. ASSUME ~(SignatureStep(l, s, u) = "no" \/ RefusesBox(l, s, u, box))
        PROVE  SignatureStep(l, s, u) = IF u.type # "ftyp" THEN "open" ELSE "yes"
    BY <2>1, <2>6
  <2>7. ~(SignatureStep(l, s, u) = "no" \/ RefusesBox(l, s, u, box)) => box # NoBox
    BY <2>4, <2>5
  <2> QED
    BY <1>2, <1>3, <1>15, <2>5, <2>6, <2>7 DEF box, size, left
<1> QED
  BY <1>14, <1>15

LEMMA BoxStartInv ==
  ASSUME NEW l \in BoxFiles
  PROVE  BoxInv(l, BoxStart(l), <<>>)
<1>1. <<>> \in Seq(Boxes) /\ Len(<<>>) = 0 /\ l.size \in Nat
  BY EmptySeq DEF BoxFiles
<1>2. EndsAt(l, <<>>) = 0
  <2>1. BoxOffset(l, <<>>)[1] = 0
    BY <1>1, OffsetsDefined
  <2>2. Len(<<>>) + 1 = 1
    BY <1>1
  <2> QED
    BY <2>1, <2>2, Zenon DEF EndsAt
<1>3. Ftyp(<<>>) = {} /\ DOMAIN <<>> = {}
  BY DEF Ftyp
<1>4. BoxPrefix(l, <<>>) <=> l.size >= 24
  <2>1. BoxOffset(l, <<>>)[Len(<<>>) + 1] = 0
    BY <1>2 DEF EndsAt
  <2>2. 1 .. Len(<<>>) = {} /\ 0 <= l.size /\ Len(<<>>) <= MAX_TOP_LEVEL_BOXES
    BY <1>1, LimitTypes
  <2> QED
    BY <1>1, <1>3, <2>1, <2>2, BoxUnfold
<1>5. BoxStart(l) \in BoxScans
  <2>1. (l.size >= 24) \in BOOLEAN
    BY <1>1
  <2> QED
    BY <2>1 DEF BoxStart, BoxScans
<1>6. {<<>>[i].type : i \in DOMAIN <<>>} = {}
  BY <1>3
<1>7. /\ BoxStart(l).ok = (l.size >= 24) /\ BoxStart(l).offset = 0 /\ BoxStart(l).count = 0
      /\ BoxStart(l).types = {} /\ BoxStart(l).signature = "open"
  BY DEF BoxStart
<1>8. BoxKnows(l, BoxStart(l), <<>>)
  BY <1>1, <1>2, <1>3, <1>6, <1>7 DEF BoxKnows
<1> QED
  BY <1>4, <1>5, <1>7, <1>8, Zenon DEF BoxInv

LEMMA BoxStepInv ==
  ASSUME NEW l \in BoxFiles, NEW f \in Seq(Boxes), NEW u \in Boxes, NEW s,
         BoxInv(l, s, f), BoxReads(l, s)
  PROVE  BoxInv(l, BoxStep(l, s, u), Append(f, u))
<1> DEFINE left == l.size - s.offset
           box == ParseBoxHeader(u, Least(16, left), left, TRUE)
           size == BoxSize(l, u, s.offset)
           sig == SignatureStep(l, s, u)
           taken == ~(sig = "no" \/ RefusesBox(l, s, u, box))
           g == Append(f, u)
           r == [ok |-> TRUE, offset |-> s.offset + box.size, count |-> s.count + 1,
                 types |-> s.types \cup {u.type}, signature |-> sig]
<1>1. s \in BoxScans /\ s.ok /\ BoxPrefix(l, f) /\ BoxKnows(l, s, f) /\ s.count < MAX_TOP_LEVEL_BOXES
  BY DEF BoxInv, BoxReads
<1>2. s.offset = EndsAt(l, f) /\ s.count = Len(f) /\ s.offset \in Nat /\ Len(f) \in Nat
  BY <1>1 DEF BoxKnows, BoxScans
<1>3. BoxPrefix(l, g) <=> taken
  <2> DEFINE legal ==
        /\ u.printable /\ size >= BoxHeader(u) /\ s.offset + size <= l.size
        /\ Ftyp(f) # {} => u.type # "ftyp"
        /\ Ftyp(f) = {} => /\ Len(f) <= MAX_LEADING_BOXES
                           /\ u.type \in LEADING_BOX_TYPES \cup {"ftyp"}
                           /\ u.size32 # 0 /\ s.offset + size <= INSPECTION_BYTES
                           /\ u.type = "ftyp" => LegalFtyp(l, u, size)
  <2>1. Len(f) < MAX_TOP_LEVEL_BOXES
    BY <1>1, <1>2
  <2>2. BoxPrefix(l, g) <=> legal
    BY <1>1, <1>2, <2>1, BoxExtends, Zenon
  <2>3. taken <=> legal
    BY <1>1, BoxRefuses, Zenon
  <2> HIDE DEF taken, legal
  <2> QED
    BY <2>2, <2>3
<1>4. taken => /\ box.size = size /\ size \in Nat /\ s.offset + size <= l.size
               /\ sig = IF Ftyp(f) = {} /\ u.type # "ftyp" THEN "open" ELSE "yes"
  BY <1>1, BoxRefuses
<1>5. BoxStep(l, s, u) = IF taken THEN r ELSE [s EXCEPT !.ok = FALSE]
  BY DEF BoxStep
<1>6. /\ Len(g) = Len(f) + 1 /\ g \in Seq(Boxes) /\ g[Len(f) + 1] = u
      /\ \A i \in 1 .. Len(f) : g[i] = f[i]
  BY Appended
<1>7. EndsAt(l, g) = EndsAt(l, f) + BoxSize(l, u, EndsAt(l, f))
  <2>1. Len(g) + 1 = Len(f) + 2
    BY <1>2, <1>6
  <2> QED
    BY <2>1, OffsetsAppend DEF EndsAt
<1>8. Ftyp(g) = {} <=> Ftyp(f) = {} /\ u.type # "ftyp"
  BY FtypAppend
<1>9. {g[i].type : i \in DOMAIN g} = {f[i].type : i \in DOMAIN f} \cup {u.type}
  <2>1. DOMAIN g = 1 .. Len(f) + 1 /\ DOMAIN f = 1 .. Len(f)
    BY <1>6, LenProperties
  <2> HIDE DEF g
  <2>2. \A i : i \in 1 .. Len(f) + 1 <=> i \in 1 .. Len(f) \/ i = Len(f) + 1
    BY <1>2
  <2> QED
    BY <1>6, <2>1, <2>2
<1> HIDE DEF left, box, size, sig, g
<1>10. CASE taken
  <2>1. r \in BoxScans
    <3>1. s.offset + box.size \in Nat /\ s.count + 1 \in Nat
      BY <1>2, <1>4, <1>10
    <3>2. s.types \cup {u.type} \in SUBSET STRING
      BY <1>1 DEF BoxScans, Boxes
    <3>3. sig \in {"open", "yes", "no"}
      BY <1>4, <1>10
    <3> QED
      BY <3>1, <3>2, <3>3 DEF BoxScans
  <2>2. BoxKnows(l, r, g)
    BY <1>1, <1>2, <1>4, <1>6, <1>7, <1>8, <1>9, <1>10 DEF BoxKnows, size
  <2>3. r.ok
    OBVIOUS
  <2> HIDE DEF taken, r
  <2>4. BoxInv(l, r, g)
    BY <1>3, <1>10, <2>1, <2>2, <2>3 DEF BoxInv
  <2> QED
    BY <1>5, <1>10, <2>4 DEF g
<1>11. CASE ~taken
  <2>1. [s EXCEPT !.ok = FALSE] \in BoxScans /\ ~[s EXCEPT !.ok = FALSE].ok
    BY <1>1 DEF BoxScans
  <2> HIDE DEF taken
  <2>2. BoxInv(l, [s EXCEPT !.ok = FALSE], g)
    BY <1>3, <1>11, <2>1 DEF BoxInv
  <2> QED
    BY <1>5, <1>11, <2>2 DEF g
<1> QED
  BY <1>10, <1>11

LEMMA BoxVerdict ==
  ASSUME NEW l \in BoxFiles, NEW f \in Seq(Boxes), NEW s, BoxInv(l, s, f)
  PROVE  Agrees(s.ok, BoxPrefix(l, f), BoxAccepts(l, s), IsBmff(l, f))
<1>1. s.ok <=> BoxPrefix(l, f)
  BY DEF BoxInv
<1>2. ASSUME s.ok PROVE BoxAccepts(l, s) <=> IsBmff(l, f)
  <2>1. BoxKnows(l, s, f) /\ BoxPrefix(l, f) /\ Len(f) \in Nat
    BY <1>1, <1>2 DEF BoxInv
  <2>2. ASSUME "ftyp" \in {f[i].type : i \in DOMAIN f}
        PROVE  Ftyp(f) # {} /\ Len(f) > 0
    <3>1. PICK i \in DOMAIN f : f[i].type = "ftyp"
      BY <2>2
    <3>2. i \in 1 .. Len(f)
      BY LenProperties
    <3> QED
      BY <2>1, <3>1, <3>2 DEF Ftyp
  <2> QED
    BY <1>2, <2>1, <2>2 DEF BoxAccepts, IsBmff, BoxKnows, EndsAt
<1>3. ASSUME ~s.ok PROVE ~BoxAccepts(l, s) /\ ~IsBmff(l, f)
  BY <1>1, <1>3 DEF BoxAccepts, IsBmff
<1> QED
  BY <1>1, <1>2, <1>3 DEF Agrees

-----------------------------------------------------------------------------
(***************************************************************************)
(* PDF.  The search for the last section is a fold over the tail.          *)
(***************************************************************************)
(* What is left of a sequence from a position on.                           *)
LEMMA Cut ==
  ASSUME NEW S, NEW s \in Seq(S), NEW a \in 1 .. Len(s) + 1
  PROVE  LET t == SubSeq(s, a, Len(s))  n == Len(s) - a + 1 IN
           t \in Seq(S) /\ Len(t) = n /\ \A i \in 1 .. n : t[i] = s[a + i - 1]
<1>1. Len(s) \in Int /\ a \in Int /\ \A i \in a .. Len(s) : s[i] \in S
  BY ElementOfSeq, LenProperties
<1>2. SubSeq(s, a, Len(s)) \in Seq(S)
  BY <1>1, SubSeqProperties
<1>3. Len(SubSeq(s, a, Len(s))) = Len(s) - a + 1
  BY <1>1, SubSeqProperties
<1>4. \A i \in 1 .. Len(s) - a + 1 : SubSeq(s, a, Len(s))[i] = s[a + i - 1]
  BY <1>1, SubSeqProperties
<1> QED
  BY <1>2, <1>3, <1>4

PdfHeader(f) ==
  \E i \in DOMAIN f :
    /\ i <= PDF_HEADER_SEARCH
    /\ f[i].token = "%PDF-" /\ f[i].versioned
    /\ \A j \in 1 .. i - 1 : f[j].token # "%PDF-"

PdfLast(f, i) == f[i].token = "section" /\ \A j \in i + 1 .. Len(f) : f[j].token = "white"

PdfInto(f, i) == \E x \in DOMAIN f : x = f[i].xref + 1 /\ f[x].token \in {"xref", "object"}

PdfAnchor(f) == \E i \in DOMAIN f : i > Len(f) - PDF_TAIL_SEARCH /\ PdfLast(f, i) /\ PdfInto(f, i)

LEMMA PdfUnfold ==
  ASSUME NEW f
  PROVE  IsPdf(f) <=> PdfHeader(f) /\ PdfAnchor(f)
  BY Zenon DEF IsPdf, PdfHeader, PdfAnchor, PdfLast, PdfInto

LEMMA HeaderIsFirst ==
  ASSUME NEW S, NEW f \in Seq(S)
  PROVE  HasVersionedHeader(f) <=> PdfHeader(f)
<1> DEFINE n == Len(f)
           found == {i \in 1 .. Least(n, PDF_HEADER_SEARCH) : f[i].token = "%PDF-"}
           c == CHOOSE i \in found : \A j \in found : i <= j
<1>1. n \in Nat /\ DOMAIN f = 1 .. n /\ PDF_HEADER_SEARCH \in Nat
  BY LenProperties, LimitTypes
<1>2. \A i : i \in 1 .. Least(n, PDF_HEADER_SEARCH) <=> i \in 1 .. n /\ i <= PDF_HEADER_SEARCH
  BY <1>1 DEF Least
<1>3. HasVersionedHeader(f) <=> found # {} /\ f[c].versioned
  BY DEF HasVersionedHeader
<1>4. found \in SUBSET Nat
  BY <1>1, <1>2
<1>5. ASSUME found # {} PROVE c \in found /\ \A j \in found : c <= j
  <2>1. \E i \in found : \A j \in found : i <= j
    <3> HIDE DEF found
    <3> QED
      BY <1>4, <1>5, NatMin
  <2> QED
    BY <2>1
<1>6. \A i : i \in found <=> i \in 1 .. n /\ i <= PDF_HEADER_SEARCH /\ f[i].token = "%PDF-"
  BY <1>2
<1> HIDE DEF found, c
<1>7. ASSUME found # {}, f[c].versioned
      PROVE  PdfHeader(f)
  <2>1. c \in 1 .. n /\ c <= PDF_HEADER_SEARCH /\ f[c].token = "%PDF-"
    BY <1>5, <1>6, <1>7
  <2>2. ASSUME NEW j \in 1 .. c - 1, f[j].token = "%PDF-" PROVE FALSE
    <3>1. j \in 1 .. n /\ j <= PDF_HEADER_SEARCH /\ ~(c <= j)
      BY <1>1, <2>1
    <3> QED
      BY <1>5, <1>6, <1>7, <2>2, <3>1
  <2> QED
    BY <1>1, <1>7, <2>1, <2>2 DEF PdfHeader
<1>8. ASSUME NEW i \in DOMAIN f, i <= PDF_HEADER_SEARCH, f[i].token = "%PDF-", f[i].versioned,
             \A j \in 1 .. i - 1 : f[j].token # "%PDF-"
      PROVE  found # {} /\ f[c].versioned
  <2>1. i \in found
    BY <1>1, <1>6, <1>8
  <2>2. c \in 1 .. n /\ c <= i /\ f[c].token = "%PDF-"
    BY <1>5, <1>6, <2>1
  <2>3. c = i
    <3> SUFFICES ASSUME c # i PROVE FALSE
      OBVIOUS
    <3>1. c \in 1 .. i - 1
      BY <1>1, <2>2
    <3> QED
      BY <1>8, <2>2, <3>1
  <2> QED
    BY <1>8, <2>1, <2>3
<1> QED
  BY <1>3, <1>7, <1>8 DEF PdfHeader

Sections(t, tail) ==
  /\ t[0] = NoSection
  /\ \A k \in 1 .. Len(tail) : t[k] = AcceptSection(tail, t[k - 1], k)

FinalOf(tail) ==
  FoldLeft(LAMBDA accepted, i : AcceptSection(tail, accepted, i), NoSection,
           [i \in 1 .. Len(tail) |-> i])

LEMMA SectionFold ==
  ASSUME NEW S, NEW tail \in Seq(S)
  PROVE  \E t : Sections(t, tail) /\ t[Len(tail)] = FinalOf(tail)
<1> DEFINE n == Len(tail)
           s == [i \in 1 .. n |-> i]
           V == {NoSection} \cup {[found |-> TRUE, xref |-> tail[i].xref] : i \in 1 .. n}
           F == [x \in (1 .. n) \X V |-> AcceptSection(tail, x[2], x[1])]
<1>1. n \in Nat /\ DOMAIN s = 1 .. n
  OBVIOUS
<1>2. \A i \in 1 .. n : s[i] = i
  OBVIOUS
<1>3. NoSection \in V
  OBVIOUS
<1>4. ASSUME NEW i \in 1 .. n, NEW v \in V PROVE AcceptSection(tail, v, i) \in V
  BY DEF AcceptSection
<1>5. F \in [(1 .. n) \X V -> V]
  <2> HIDE DEF V
  <2>1. \A x \in (1 .. n) \X V : x[1] \in 1 .. n /\ x[2] \in V
    OBVIOUS
  <2> QED
    BY <1>4, <2>1
<1> HIDE DEF V
<1> DEFINE P(h) == h = [z \in SUBSET DOMAIN s |->
                          IF z = {} THEN NoSection
                          ELSE AcceptSection(tail, h[z \ {Max(z)}], s[Max(z)])]
<1>6. \E h : P(h)
  <2>1. PICK h : Folds(h, n, V, NoSection, F)
    <3> HIDE DEF F, n
    <3> QED
      BY <1>1, <1>3, <1>5, FoldExists, Zenon
  <2>2. ASSUME NEW z \in SUBSET (1 .. n), z # {}
        PROVE  h[z] = AcceptSection(tail, h[z \ {Max(z)}], s[Max(z)])
    <3>1. Max(z) \in 1 .. n
      BY <1>1, <2>2, MaxOf
    <3>2. h[z \ {Max(z)}] \in V /\ h[z] = F[<<Max(z), h[z \ {Max(z)}]>>]
      BY <2>1, <2>2 DEF Folds
    <3>3. F[<<Max(z), h[z \ {Max(z)}]>>] = AcceptSection(tail, h[z \ {Max(z)}], Max(z))
      BY <3>1, <3>2
    <3> QED
      BY <1>2, <3>1, <3>2, <3>3
  <2>3. h \in [SUBSET (1 .. n) -> V] /\ ({} \in SUBSET (1 .. n) => h[{}] = NoSection)
    BY <2>1 DEF Folds
  <2> HIDE DEF s
  <2>4. P(h)
    BY <1>1, <2>2, <2>3
  <2> QED
    BY <2>4
<1> DEFINE g == CHOOSE h : P(h)
<1>7. P(g)
  BY <1>6
<1>8. FinalOf(tail) = g[DOMAIN s]
  BY DEF FinalOf, FoldLeft, MapThenFoldSet
<1> HIDE DEF g
<1> DEFINE t == [k \in 0 .. n |-> g[1 .. k]]
<1>9. t[0] = NoSection
  <2>1. 1 .. 0 = {} /\ {} \in SUBSET DOMAIN s /\ 0 \in 0 .. n
    BY <1>1
  <2>2. g[{}] = NoSection
    BY <1>7, <2>1
  <2> QED
    BY <2>1, <2>2
<1>10. ASSUME NEW k \in 1 .. n PROVE t[k] = AcceptSection(tail, t[k - 1], k)
  <2>1. 1 .. k \in SUBSET (1 .. n) /\ k \in 1 .. k
    BY <1>1
  <2>2. Max(1 .. k) \in 1 .. k /\ k <= Max(1 .. k)
    BY <1>1, <2>1, MaxOf
  <2>3. Max(1 .. k) = k /\ (1 .. k) \ {k} = 1 .. k - 1 /\ 1 .. k # {} /\ 1 .. k \in SUBSET DOMAIN s
    BY <1>1, <2>1, <2>2
  <2>4. g[1 .. k] = AcceptSection(tail, g[(1 .. k) \ {Max(1 .. k)}], s[Max(1 .. k)])
    BY <1>7, <2>3
  <2>5. k \in 0 .. n /\ k - 1 \in 0 .. n
    BY <1>1
  <2> QED
    BY <1>2, <2>3, <2>4, <2>5
<1>11. t[n] = g[DOMAIN s]
  BY <1>1
<1> HIDE DEF t
<1> QED
  BY <1>8, <1>9, <1>10, <1>11 DEF Sections

LEMMA SectionIsClosing ==
  ASSUME NEW S, NEW tail \in Seq(S), NEW accepted, NEW i \in 1 .. Len(tail)
  PROVE  AcceptSection(tail, accepted, i) =
           IF PdfLast(tail, i) THEN [found |-> TRUE, xref |-> tail[i].xref] ELSE accepted
<1> DEFINE n == Len(tail)  rest == SubSeq(tail, i + 1, n)
<1>1. n \in Nat /\ i + 1 \in 1 .. n + 1 /\ n \in i .. n
  OBVIOUS
<1>2. DOMAIN rest = 1 .. n - i /\ \A k \in 1 .. n - i : rest[k] = tail[i + k]
  BY <1>1, SubSeqProperties
<1>3. IsPdfWhitespace(rest) <=> \A j \in i + 1 .. n : tail[j].token = "white"
  <2>1. ASSUME \A k \in 1 .. n - i : tail[i + k].token = "white", NEW j \in i + 1 .. n
        PROVE  tail[j].token = "white"
    <3>1. j - i \in 1 .. n - i /\ i + (j - i) = j
      BY <1>1
    <3> QED
      BY <2>1, <3>1
  <2>2. \A k \in 1 .. n - i : i + k \in i + 1 .. n
    BY <1>1
  <2> HIDE DEF rest, n
  <2> QED
    BY <1>2, <2>1, <2>2 DEF IsPdfWhitespace
<1> QED
  BY <1>3 DEF AcceptSection, PdfLast

(* What the search ends with: the section that closes the tail, if any.     *)
LEMMA LastSection ==
  ASSUME NEW S, NEW tail \in Seq(S)
  PROVE  LET r == FinalOf(tail)
         IN /\ r.found <=> \E i \in 1 .. Len(tail) : PdfLast(tail, i)
            /\ \A i \in 1 .. Len(tail) : PdfLast(tail, i) => r.xref = tail[i].xref
<1> DEFINE n == Len(tail)
           r == FinalOf(tail)
<1>1. n \in Nat
  OBVIOUS
<1>2. PICK t : Sections(t, tail) /\ t[n] = r
  BY SectionFold
<1> HIDE DEF r
<1>3. \A k \in 1 .. n : t[k] = IF PdfLast(tail, k) THEN [found |-> TRUE, xref |-> tail[k].xref]
                              ELSE t[k - 1]
  BY <1>2, SectionIsClosing DEF Sections
<1>4. t[0] = [found |-> FALSE]
  BY <1>2 DEF Sections, NoSection
<1> HIDE DEF n
<1> DEFINE T == {k \in 0 .. n :
                   \/ t[k] = [found |-> FALSE] /\ \A i \in 1 .. k : ~PdfLast(tail, i)
                   \/ \E i \in 1 .. k : PdfLast(tail, i) /\ t[k] = [found |-> TRUE, xref |-> tail[i].xref]}
<1>5. 0 \in T
  BY <1>1, <1>4
<1>6. ASSUME NEW k \in 1 .. n, k - 1 \in T PROVE k \in T
  <2>1. \A i : i \in 1 .. k <=> i \in 1 .. k - 1 \/ i = k
    BY <1>1
  <2>2. k \in 0 .. n /\ k \in 1 .. k
    BY <1>1
  <2>3. CASE PdfLast(tail, k)
    BY <1>3, <2>2, <2>3
  <2>4. CASE ~PdfLast(tail, k)
    <3>1. t[k] = t[k - 1]
      BY <1>3, <2>4
    <3> QED
      BY <1>6, <2>1, <2>2, <2>4, <3>1
  <2> QED
    BY <2>3, <2>4
<1> HIDE DEF T
<1>7. \A k \in 0 .. n : k \in T
  BY <1>1, <1>5, <1>6, UpTo
<1>8. \/ r = [found |-> FALSE] /\ \A i \in 1 .. n : ~PdfLast(tail, i)
      \/ \E i \in 1 .. n : PdfLast(tail, i) /\ r = [found |-> TRUE, xref |-> tail[i].xref]
  <2>1. n \in T
    BY <1>1, <1>7
  <2> QED
    BY <1>2, <2>1, Zenon DEF T
<1>9. ASSUME NEW i \in 1 .. n, NEW j \in 1 .. n, PdfLast(tail, i), PdfLast(tail, j), i < j PROVE FALSE
  <2>1. j \in i + 1 .. n
    BY <1>1, <1>9
  <2>2. tail[j].token = "white" /\ tail[j].token = "section"
    BY <1>9, <2>1 DEF PdfLast, n
  <2> QED
    BY <2>2
<1>10. \A i, j \in 1 .. n : PdfLast(tail, i) /\ PdfLast(tail, j) => i = j
  BY <1>1, <1>9
<1>11. CASE r = [found |-> FALSE] /\ \A i \in 1 .. n : ~PdfLast(tail, i)
  BY <1>11 DEF r, n
<1>12. CASE \E i \in 1 .. n : PdfLast(tail, i) /\ r = [found |-> TRUE, xref |-> tail[i].xref]
  <2>1. PICK i \in 1 .. n : PdfLast(tail, i) /\ r = [found |-> TRUE, xref |-> tail[i].xref]
    BY <1>12
  <2>2. r.found /\ r.xref = tail[i].xref
    BY <2>1
  <2> QED
    BY <1>10, <2>1, <2>2 DEF r, n
<1> QED
  BY <1>8, <1>11, <1>12

(* matchesPdfStructure is the reference.                                    *)
LEMMA PdfVerdict ==
  ASSUME NEW f \in Seq(Units["pdf"])
  PROVE  MatchesPdfStructure(f) <=> IsPdf(f)
<1> DEFINE n == Len(f)  m == Least(n, PDF_TAIL_SEARCH)  d == n - m
           tail == SubSeq(f, n - m + 1, n)
           r == FindFinalSection(f)
           last(i) == PdfLast(f, i)
<1>1. /\ n \in Nat /\ DOMAIN f = 1 .. n /\ PDF_TAIL_SEARCH \in Nat /\ m \in 0 .. n /\ d \in Nat
      /\ \A i \in 1 .. n : f[i] \in Units["pdf"]
  BY LenProperties, ElementOfSeq, LimitTypes DEF Least
<1>2. n - m + 1 \in 1 .. n + 1 /\ n \in n - m .. n
  BY <1>1
<1>3. tail \in Seq(Units["pdf"]) /\ Len(tail) = m /\ \A k \in 1 .. m : tail[k] = f[d + k]
  <2>1. \A k \in 1 .. n - (n - m + 1) + 1 : (n - m + 1) + k - 1 = d + k
    BY <1>1
  <2>2. n - (n - m + 1) + 1 = m
    BY <1>1
  <2> DEFINE a == n - m + 1
  <2>3. a \in 1 .. n + 1 /\ tail = SubSeq(f, a, n)
    BY <1>1
  <2>4. /\ tail \in Seq(Units["pdf"]) /\ Len(tail) = n - a + 1
        /\ \A i \in 1 .. n - a + 1 : tail[i] = f[a + i - 1]
    <3> HIDE DEF a, tail
    <3> QED
      BY <2>3, Cut
  <2> HIDE DEF tail, d, m, n
  <2> QED
    BY <2>1, <2>2, <2>4
<1>4. \A i \in 1 .. n : i > n - PDF_TAIL_SEARCH <=> i > d
  BY <1>1 DEF Least
<1>5. ASSUME NEW k \in 1 .. m PROVE PdfLast(tail, k) <=> last(d + k)
  <2>1. \A j \in k + 1 .. m : d + j \in d + k + 1 .. n /\ tail[j] = f[d + j]
    BY <1>1, <1>3
  <2>2. ASSUME NEW j \in d + k + 1 .. n PROVE j - d \in k + 1 .. m /\ tail[j - d] = f[j]
    <3>1. j - d \in k + 1 .. m /\ j - d \in 1 .. m /\ d + (j - d) = j
      BY <1>1
    <3> QED
      BY <1>3, <3>1
  <2>3. tail[k] = f[d + k] /\ Len(tail) = m
    BY <1>3
  <2>4. (\A j \in k + 1 .. m : tail[j].token = "white")
          <=> \A j \in d + k + 1 .. n : f[j].token = "white"
    <3> HIDE DEF n, m, d, tail
    <3>1. ASSUME \A j \in k + 1 .. m : tail[j].token = "white", NEW j \in d + k + 1 .. n
          PROVE  f[j].token = "white"
      BY <2>2, <3>1
    <3> QED
      BY <2>1, <3>1
  <2> HIDE DEF n, m, d, tail
  <2> QED
    BY <2>3, <2>4 DEF PdfLast, n
<1>6. /\ r.found <=> \E i \in 1 .. m : PdfLast(tail, i)
      /\ \A i \in 1 .. m : PdfLast(tail, i) => r.xref = tail[i].xref
  <2>1. r = FinalOf(tail)
    BY DEF FindFinalSection, FinalOf
  <2> HIDE DEF tail, r
  <2> QED
    BY <1>3, <2>1, LastSection
<1>7. MatchesPdfStructure(f) <=>
        /\ HasVersionedHeader(f) /\ r.found /\ r.xref < n
        /\ f[r.xref + 1].token \in {"xref", "object"}
  BY DEF MatchesPdfStructure
<1>8. IsPdf(f) <=> HasVersionedHeader(f) /\ \E i \in 1 .. n : i > d /\ last(i) /\ PdfInto(f, i)
  <2>1. HasVersionedHeader(f) <=> PdfHeader(f)
    BY HeaderIsFirst
  <2>2. PdfAnchor(f) <=> \E i \in 1 .. n : i > n - PDF_TAIL_SEARCH /\ last(i) /\ PdfInto(f, i)
    BY <1>1, Zenon DEF PdfAnchor
  <2> HIDE DEF last, d
  <2>3. PdfAnchor(f) <=> \E i \in 1 .. n : i > d /\ last(i) /\ PdfInto(f, i)
    BY <1>4, <2>2
  <2> QED
    BY <2>1, <2>3, PdfUnfold
<1>9. \A i \in 1 .. n : last(i) => f[i].xref \in Nat
  BY <1>1, UnitTypes DEF PdfLast
<1> HIDE DEF n, m, d, tail, r, last
<1>10. ASSUME NEW k \in 1 .. m, PdfLast(tail, k)
       PROVE  r.xref < n /\ f[r.xref + 1].token \in {"xref", "object"}
              <=> PdfInto(f, d + k)
  <2>1. d + k \in 1 .. n /\ r.xref = f[d + k].xref
    <3>1. tail[k] = f[d + k] /\ r.xref = tail[k].xref
      BY <1>3, <1>6, <1>10
    <3>2. d + k \in 1 .. n
      BY <1>1 DEF d
    <3> QED
      BY <3>1, <3>2
  <2>2. r.xref \in Nat
    BY <1>5, <1>9, <1>10, <2>1
  <2>3. r.xref < n <=> r.xref + 1 \in 1 .. n
    BY <1>1, <2>2
  <2> QED
    BY <1>1, <2>1, <2>3 DEF PdfInto
<1>11. ASSUME MatchesPdfStructure(f) PROVE IsPdf(f)
  <2>1. PICK k \in 1 .. m : PdfLast(tail, k)
    BY <1>6, <1>7, <1>11
  <2>2. d + k \in 1 .. n /\ d + k > d /\ last(d + k)
    BY <1>1, <1>5, <2>1 DEF d
  <2>3. PdfInto(f, d + k)
    BY <1>7, <1>10, <1>11, <2>1
  <2> QED
    BY <1>7, <1>8, <1>11, <2>2, <2>3
<1>12. ASSUME IsPdf(f) PROVE MatchesPdfStructure(f)
  <2>1. PICK i \in 1 .. n : i > d /\ last(i) /\ PdfInto(f, i)
    BY <1>8, <1>12
  <2>2. i - d \in 1 .. m /\ d + (i - d) = i
    BY <1>1, <2>1 DEF d
  <2>3. PdfLast(tail, i - d)
    BY <1>5, <2>1, <2>2
  <2>4. r.found
    BY <1>6, <2>2, <2>3
  <2>5. r.xref < n /\ f[r.xref + 1].token \in {"xref", "object"}
    BY <1>10, <2>1, <2>2, <2>3
  <2> QED
    BY <1>7, <1>8, <1>12, <2>4, <2>5
<1> QED
  BY <1>11, <1>12

-----------------------------------------------------------------------------
(***************************************************************************)
(* Ogg.  The pages of a stream are a fold over the file.                   *)
(***************************************************************************)
Keeps(g, p, x) == IF p.serial = x THEN Append(g, p) ELSE g

Picks(t, f, x) ==
  /\ t[0] = <<>>
  /\ \A k \in 1 .. Len(f) : t[k] = Keeps(t[k - 1], f[k], x)

LEMMA StreamFold ==
  ASSUME NEW f \in Seq(OggPages), NEW x
  PROVE  \E t : /\ Picks(t, f, x) /\ StreamOf(f, x) = t[Len(f)]
                /\ \A k \in 0 .. Len(f) : t[k] \in Seq(OggPages)
<1> DEFINE n == Len(f)
           V == Seq(OggPages)
           F == [y \in (1 .. n) \X V |-> Keeps(y[2], f[y[1]], x)]
<1>1. n \in Nat /\ DOMAIN f = 1 .. n /\ \A i \in 1 .. n : f[i] \in OggPages
  BY LenProperties, ElementOfSeq
<1>3. <<>> \in V
  OBVIOUS
<1>4. ASSUME NEW i \in 1 .. n, NEW v \in V PROVE Keeps(v, f[i], x) \in V
  BY <1>1, AppendProperties DEF Keeps
<1>5. F \in [(1 .. n) \X V -> V]
  <2> HIDE DEF V
  <2>1. \A y \in (1 .. n) \X V : y[1] \in 1 .. n /\ y[2] \in V
    OBVIOUS
  <2> QED
    BY <1>4, <2>1
<1> HIDE DEF V
<1> DEFINE P(h) == h = [z \in SUBSET DOMAIN f |->
                          IF z = {} THEN <<>> ELSE Keeps(h[z \ {Max(z)}], f[Max(z)], x)]
<1>6. \E h : P(h)
  <2>1. PICK h : Folds(h, n, V, <<>>, F)
    <3> HIDE DEF F, n
    <3> QED
      BY <1>1, <1>3, <1>5, FoldExists, Zenon
  <2>2. ASSUME NEW z \in SUBSET (1 .. n), z # {}
        PROVE  h[z] = Keeps(h[z \ {Max(z)}], f[Max(z)], x)
    <3>1. Max(z) \in 1 .. n
      BY <1>1, <2>2, MaxOf
    <3>2. h[z \ {Max(z)}] \in V /\ h[z] = F[<<Max(z), h[z \ {Max(z)}]>>]
      BY <2>1, <2>2 DEF Folds
    <3>3. F[<<Max(z), h[z \ {Max(z)}]>>] = Keeps(h[z \ {Max(z)}], f[Max(z)], x)
      BY <3>1, <3>2
    <3> QED
      BY <3>1, <3>2, <3>3
  <2>3. h \in [SUBSET (1 .. n) -> V] /\ ({} \in SUBSET (1 .. n) => h[{}] = <<>>)
    BY <2>1 DEF Folds
  <2>4. P(h)
    BY <1>1, <2>2, <2>3
  <2> QED
    BY <2>4
<1> DEFINE g == CHOOSE h : P(h)
<1>7. P(g)
  BY <1>6
<1>8. StreamOf(f, x) = g[DOMAIN f]
  BY DEF StreamOf, FoldLeft, MapThenFoldSet, Keeps
<1> HIDE DEF g
<1> DEFINE t == [k \in 0 .. n |-> g[1 .. k]]
<1>9. t[0] = <<>>
  <2>1. 1 .. 0 = {} /\ {} \in SUBSET DOMAIN f /\ 0 \in 0 .. n
    BY <1>1
  <2>2. g[{}] = <<>>
    BY <1>7, <2>1
  <2> QED
    BY <2>1, <2>2
<1>10. ASSUME NEW k \in 1 .. n PROVE t[k] = Keeps(t[k - 1], f[k], x)
  <2>1. 1 .. k \in SUBSET (1 .. n) /\ k \in 1 .. k
    BY <1>1
  <2>2. Max(1 .. k) \in 1 .. k /\ k <= Max(1 .. k)
    BY <1>1, <2>1, MaxOf
  <2>3. Max(1 .. k) = k /\ (1 .. k) \ {k} = 1 .. k - 1 /\ 1 .. k # {} /\ 1 .. k \in SUBSET DOMAIN f
    BY <1>1, <2>1, <2>2
  <2>4. g[1 .. k] = Keeps(g[(1 .. k) \ {Max(1 .. k)}], f[Max(1 .. k)], x)
    BY <1>7, <2>3
  <2>5. k \in 0 .. n /\ k - 1 \in 0 .. n
    BY <1>1
  <2> QED
    BY <2>3, <2>4, <2>5
<1>11. t[n] = g[DOMAIN f]
  BY <1>1
<1> HIDE DEF t
<1>12. \A k \in 0 .. n : t[k] \in V
  <2> DEFINE T == {k \in 0 .. n : t[k] \in V}
  <2>1. 0 \in T
    BY <1>1, <1>3, <1>9
  <2>2. ASSUME NEW k \in 1 .. n, k - 1 \in T PROVE k \in T
    BY <1>1, <1>4, <1>10, <2>2
  <2> HIDE DEF T
  <2>3. \A k \in 0 .. n : k \in T
    BY <1>1, <2>1, <2>2, UpTo
  <2> QED
    BY <2>3 DEF T
<1> QED
  BY <1>8, <1>9, <1>10, <1>11, <1>12 DEF Picks, V

LEMMA StreamEmpty ==
  ASSUME NEW x
  PROVE  StreamOf(<<>>, x) = <<>>
<1>1. <<>> \in Seq(OggPages) /\ Len(<<>>) = 0
  OBVIOUS
<1>2. PICK t : Picks(t, <<>>, x) /\ StreamOf(<<>>, x) = t[Len(<<>>)]
  BY <1>1, StreamFold
<1> QED
  BY <1>1, <1>2 DEF Picks

LEMMA StreamAppend ==
  ASSUME NEW f \in Seq(OggPages), NEW p \in OggPages, NEW x
  PROVE  /\ StreamOf(f, x) \in Seq(OggPages)
         /\ StreamOf(Append(f, p), x) =
              IF p.serial = x THEN Append(StreamOf(f, x), p) ELSE StreamOf(f, x)
<1> DEFINE n == Len(f)  e == Append(f, p)
<1>1. /\ n \in Nat /\ Len(e) = n + 1 /\ e \in Seq(OggPages) /\ e[n + 1] = p
      /\ \A i \in 1 .. n : e[i] = f[i]
  BY Appended
<1>2. PICK g : /\ Picks(g, f, x) /\ StreamOf(f, x) = g[n]
               /\ \A k \in 0 .. n : g[k] \in Seq(OggPages)
  BY StreamFold
<1>3. PICK h : Picks(h, e, x) /\ StreamOf(e, x) = h[Len(e)]
  BY <1>1, StreamFold
<1>4. \A k \in 1 .. n : g[k] = Keeps(g[k - 1], f[k], x)
  BY <1>2 DEF Picks
<1>5. \A k \in 1 .. n + 1 : h[k] = Keeps(h[k - 1], e[k], x)
  BY <1>1, <1>3 DEF Picks
<1>6. g[0] = <<>> /\ h[0] = <<>>
  BY <1>2, <1>3 DEF Picks
<1> HIDE DEF n, e
<1>7. g[n] = h[n]
  <2> DEFINE S == {k \in 0 .. n : g[k] = h[k]}
  <2>1. 0 \in S
    BY <1>1, <1>6
  <2>2. ASSUME NEW k \in 1 .. n, k - 1 \in S PROVE k \in S
    <3>1. g[k - 1] = h[k - 1] /\ e[k] = f[k] /\ k \in 1 .. n + 1 /\ k \in 0 .. n
      BY <1>1, <2>2
    <3> QED
      BY <1>4, <1>5, <3>1
  <2> HIDE DEF S
  <2>3. \A k \in 0 .. n : k \in S
    BY <1>1, <2>1, <2>2, UpTo
  <2> QED
    BY <1>1, <2>3 DEF S
<1>8. h[n + 1] = Keeps(h[n], p, x)
  <2>1. n + 1 \in 1 .. n + 1 /\ (n + 1) - 1 = n
    BY <1>1
  <2> QED
    BY <1>1, <1>5, <2>1
<1>9. g[n] \in Seq(OggPages)
  BY <1>1, <1>2
<1> QED
  BY <1>1, <1>2, <1>3, <1>7, <1>8, <1>9 DEF n, e, Keeps

LastOf(g) == g[Len(g)]

(* Which page may follow in a stream.                                       *)
FollowsIn(g, p) ==
  /\ p.header /\ p.crc
  /\ g # <<>> => ~LastOf(g).eos
  /\ p.sequence = Len(g)
  /\ p.bos <=> g = <<>>
  /\ p.continued <=> g # <<>> /\ LeavesPacketOpen(LastOf(g))
  /\ p.continued => Segments(p) > 0
  /\ p.eos => ~LeavesPacketOpen(p)

PageFits(g, k) ==
  /\ g[k].header /\ g[k].crc
  /\ g[k].sequence = k - 1
  /\ g[k].bos <=> k = 1
  /\ g[k].continued <=> k > 1 /\ LeavesPacketOpen(g[k - 1])
  /\ g[k].continued => Segments(g[k]) > 0

LEMMA StreamUnfold ==
  ASSUME NEW g
  PROVE  StreamPrefix(g) <=>
           \A k \in DOMAIN g : PageFits(g, k) /\ (g[k].eos => k = Len(g) /\ ~LeavesPacketOpen(g[k]))
  BY Zenon DEF StreamPrefix, PageFits

LEMMA StreamExtends ==
  ASSUME NEW g \in Seq(OggPages), NEW p \in OggPages, StreamPrefix(g)
  PROVE  StreamPrefix(Append(g, p)) <=> FollowsIn(g, p)
<1> DEFINE n == Len(g)  e == Append(g, p)
<1>1. /\ n \in Nat /\ DOMAIN g = 1 .. n /\ Len(e) = n + 1 /\ DOMAIN e = 1 .. n + 1 /\ e[n + 1] = p
      /\ \A i \in 1 .. n : e[i] = g[i]
      /\ g = <<>> <=> n = 0
  BY Appended
<1>2. \A k \in 1 .. n : PageFits(g, k) /\ (g[k].eos => k = n /\ ~LeavesPacketOpen(g[k]))
  BY <1>1, StreamUnfold
<1>3. StreamPrefix(e) <=>
        \A k \in 1 .. n + 1 : PageFits(e, k) /\ (e[k].eos => k = n + 1 /\ ~LeavesPacketOpen(e[k]))
  BY <1>1, StreamUnfold
<1> HIDE DEF n, e
<1>4. ASSUME NEW k \in 1 .. n PROVE PageFits(e, k)
  <2>1. e[k] = g[k] /\ (k > 1 => e[k - 1] = g[k - 1])
    BY <1>1
  <2> QED
    BY <1>2, <2>1 DEF PageFits
<1>5. PageFits(e, n + 1) <=>
        /\ p.header /\ p.crc /\ p.sequence = n /\ (p.bos <=> n = 0)
        /\ p.continued <=> n > 0 /\ LeavesPacketOpen(g[n])
        /\ p.continued => Segments(p) > 0
  <2>1. /\ e[n + 1] = p /\ (n + 1) - 1 = n /\ (n + 1 = 1 <=> n = 0) /\ (n + 1 > 1 <=> n > 0)
        /\ n > 0 => e[n] = g[n]
    BY <1>1
  <2> QED
    BY <2>1 DEF PageFits
<1>6. (\A k \in 1 .. n : e[k].eos => k = n + 1 /\ ~LeavesPacketOpen(e[k])) <=> (n > 0 => ~g[n].eos)
  <2>1. \A k \in 1 .. n : e[k] = g[k] /\ k # n + 1 /\ (g[k].eos => k = n)
    BY <1>1, <1>2
  <2>2. n > 0 => n \in 1 .. n
    BY <1>1
  <2>3. \A k \in 1 .. n : n > 0
    BY <1>1
  <2> QED
    BY <2>1, <2>2, <2>3
<1>7. \A k : k \in 1 .. n + 1 <=> k \in 1 .. n \/ k = n + 1
  BY <1>1
<1>8. FollowsIn(g, p) <=>
        /\ PageFits(e, n + 1) /\ (n > 0 => ~g[n].eos) /\ (p.eos => ~LeavesPacketOpen(p))
  <2>1. (g # <<>>) <=> n > 0
    BY <1>1
  <2>2. LastOf(g) = g[n]
    BY DEF LastOf, n
  <2> QED
    BY <1>1, <1>5, <2>1, <2>2 DEF FollowsIn, n
<1> QED
  BY <1>1, <1>3, <1>4, <1>6, <1>7, <1>8 DEF e

LEMMA OggExtends ==
  ASSUME NEW f \in Seq(OggPages), NEW p \in OggPages, OggPrefix(f),
         \A x : x \in Serials(f) <=> StreamOf(f, x) # <<>>
  PROVE  /\ Serials(Append(f, p)) = Serials(f) \cup {p.serial}
         /\ OggPrefix(Append(f, p)) <=>
              Len(f) < OGG_MAX_PAGES /\ FollowsIn(StreamOf(f, p.serial), p)
<1> DEFINE n == Len(f)  e == Append(f, p)  g == StreamOf(f, p.serial)
<1>1. /\ n \in Nat /\ DOMAIN f = 1 .. n /\ Len(e) = n + 1 /\ DOMAIN e = 1 .. n + 1 /\ e[n + 1] = p
      /\ \A i \in 1 .. n : e[i] = f[i]
  BY Appended
<1>2. OGG_MAX_PAGES \in Nat
  BY LimitTypes
<1>3. g \in Seq(OggPages) /\ StreamOf(e, p.serial) = Append(g, p)
  BY StreamAppend
<1>4. \A x \in Serials(f) \ {p.serial} : StreamOf(e, x) = StreamOf(f, x)
  BY StreamAppend
<1>5. StreamPrefix(g)
  <2>1. CASE p.serial \in Serials(f)
    BY <2>1 DEF OggPrefix
  <2>2. CASE p.serial \notin Serials(f)
    <3>1. g = <<>> /\ DOMAIN <<>> = {}
      BY <2>2
    <3> QED
      BY <3>1 DEF StreamPrefix
  <2> QED
    BY <2>1, <2>2
<1>6. StreamPrefix(StreamOf(e, p.serial)) <=> FollowsIn(g, p)
  BY <1>3, <1>5, StreamExtends
<1> HIDE DEF n, e, g
<1>7. Serials(e) = Serials(f) \cup {p.serial}
  <2>1. \A k : k \in 1 .. n + 1 <=> k \in 1 .. n \/ k = n + 1
    BY <1>1
  <2> QED
    BY <1>1, <2>1 DEF Serials
<1>8. n + 1 <= OGG_MAX_PAGES <=> n < OGG_MAX_PAGES
  BY <1>1, <1>2
<1>9. \A x \in Serials(f) \ {p.serial} : StreamPrefix(StreamOf(e, x))
  BY <1>4 DEF OggPrefix
<1>10. OggPrefix(e) <=> n < OGG_MAX_PAGES /\ FollowsIn(g, p)
  BY <1>1, <1>6, <1>7, <1>8, <1>9 DEF OggPrefix
<1> QED
  BY <1>7, <1>10 DEF n, e, g

OggKnows(s, f) ==
  /\ s.pages = Len(f)
  /\ s.payload <=> \E i \in DOMAIN f : BodyBytes(f[i]) > 0
  /\ DOMAIN s.streams = Serials(f)
  /\ \A x \in Serials(f) :
       /\ s.streams[x] \in [next : Nat, open : BOOLEAN, ended : BOOLEAN]
       /\ s.streams[x].next = Len(StreamOf(f, x))
       /\ s.streams[x].open <=> LeavesPacketOpen(LastOf(StreamOf(f, x)))
       /\ s.streams[x].ended <=> LastOf(StreamOf(f, x)).eos

OggInv(s, f) ==
  /\ s \in [ok : BOOLEAN, pages : Nat, payload : BOOLEAN, streams : {s.streams}]
  /\ \A x : x \in Serials(f) <=> StreamOf(f, x) # <<>>
  /\ s.ok <=> OggPrefix(f)
  /\ s.ok => OggKnows(s, f)

LEMMA OggRefuses ==
  ASSUME NEW f \in Seq(OggPages), NEW p \in OggPages, NEW s, OggInv(s, f), s.ok
  PROVE  RefusesPage(s, p) <=> ~(Len(f) < OGG_MAX_PAGES /\ FollowsIn(StreamOf(f, p.serial), p))
<1> DEFINE g == StreamOf(f, p.serial)
<1>1. OggKnows(s, f) /\ s.pages = Len(f) /\ Len(f) \in Nat
  BY DEF OggInv, OggKnows
<1>2. s.pages >= OGG_MAX_PAGES <=> ~(Len(f) < OGG_MAX_PAGES)
  BY <1>1, LimitTypes
<1>3. /\ p.continued \in BOOLEAN /\ p.bos \in BOOLEAN /\ p.header \in BOOLEAN /\ p.crc \in BOOLEAN
      /\ p.eos \in BOOLEAN /\ p.lacing \in Seq(Nat) /\ p.sequence \in Nat
  BY DEF OggPages
<1>4. Segments(p) \in Nat
  BY <1>3 DEF Segments
<1>5. p.serial \in DOMAIN s.streams <=> g # <<>>
  BY <1>1 DEF OggKnows, OggInv
<1>6. CASE g = <<>>
  <2>1. FollowsIn(g, p) <=>
          /\ p.header /\ p.crc /\ p.sequence = 0 /\ p.bos /\ ~p.continued
          /\ p.eos => ~LeavesPacketOpen(p)
    BY <1>6 DEF FollowsIn
  <2>2. RefusesPage(s, p) <=>
          \/ s.pages >= OGG_MAX_PAGES
          \/ ~p.header \/ ~p.crc
          \/ p.continued /\ Segments(p) = 0
          \/ ~p.bos \/ p.continued \/ p.sequence # 0
          \/ p.eos /\ LeavesPacketOpen(p)
    BY <1>5, <1>6, Zenon DEF RefusesPage
  <2> QED
    BY <1>2, <2>1, <2>2, Zenon
<1>7. CASE g # <<>>
  <2>0. p.serial \in Serials(f)
    BY <1>7 DEF OggInv
  <2>1. /\ s.streams[p.serial] \in [next : Nat, open : BOOLEAN, ended : BOOLEAN]
        /\ s.streams[p.serial].next = Len(g)
        /\ s.streams[p.serial].open <=> LeavesPacketOpen(LastOf(g))
        /\ s.streams[p.serial].ended <=> LastOf(g).eos
    BY <1>1, <2>0 DEF OggKnows
  <2>2. s.streams[p.serial].open \in BOOLEAN
    BY <2>1
  <2>3. p.continued = s.streams[p.serial].open <=> (p.continued <=> LeavesPacketOpen(LastOf(g)))
    BY <1>3, <2>1, <2>2, Zenon
  <2>4. Continues(s.streams[p.serial], p) <=>
          /\ ~LastOf(g).eos /\ ~p.bos /\ p.sequence = Len(g)
          /\ (p.continued <=> LeavesPacketOpen(LastOf(g)))
    BY <2>1, <2>3, Zenon DEF Continues
  <2>5. FollowsIn(g, p) <=>
          /\ p.header /\ p.crc /\ ~LastOf(g).eos /\ p.sequence = Len(g) /\ ~p.bos
          /\ (p.continued <=> LeavesPacketOpen(LastOf(g)))
          /\ p.continued => Segments(p) > 0
          /\ p.eos => ~LeavesPacketOpen(p)
    BY <1>7, Zenon DEF FollowsIn
  <2>6. RefusesPage(s, p) <=>
          \/ s.pages >= OGG_MAX_PAGES
          \/ ~p.header \/ ~p.crc
          \/ p.continued /\ Segments(p) = 0
          \/ ~Continues(s.streams[p.serial], p)
          \/ p.eos /\ LeavesPacketOpen(p)
    BY <1>5, <1>7, Zenon DEF RefusesPage
  <2>7. Segments(p) > 0 <=> ~(Segments(p) = 0)
    BY <1>4
  <2> QED
    BY <1>2, <2>4, <2>5, <2>6, <2>7, Zenon
<1> QED
  BY <1>6, <1>7

LEMMA OggStartInv == OggInv(OggStart, <<>>)
<1>1. DOMAIN <<>> = {} /\ Len(<<>>) = 0 /\ Serials(<<>>) = {}
  BY DEF Serials
<1>2. \A x : StreamOf(<<>>, x) = <<>>
  BY StreamEmpty
<1>3. /\ OggStart.ok = TRUE /\ OggStart.pages = 0 /\ OggStart.payload = FALSE
      /\ OggStart.streams = <<>>
      /\ OggStart \in [ok : BOOLEAN, pages : Nat, payload : BOOLEAN, streams : {OggStart.streams}]
  BY DEF OggStart
<1>4. OggPrefix(<<>>)
  BY <1>1, LimitTypes DEF OggPrefix
<1>5. OggKnows(OggStart, <<>>)
  BY <1>1, <1>3 DEF OggKnows
<1> QED
  BY <1>1, <1>2, <1>3, <1>4, <1>5 DEF OggInv

LEMMA OggStepInv ==
  ASSUME NEW f \in Seq(OggPages), NEW p \in OggPages, NEW s, OggInv(s, f), s.ok
  PROVE  OggInv(OggStep(s, p), Append(f, p))
<1> DEFINE e == Append(f, p)  n == Len(f)  x0 == p.serial  g == StreamOf(f, x0)
           Scans(t) == [ok : BOOLEAN, pages : Nat, payload : BOOLEAN, streams : {t}]
<1>1. s \in Scans(s.streams) /\ OggPrefix(f) /\ OggKnows(s, f)
  BY DEF OggInv
<1>2. \A x : x \in Serials(f) <=> StreamOf(f, x) # <<>>
  BY DEF OggInv
<1>3. /\ n \in Nat /\ DOMAIN f = 1 .. n /\ Len(e) = n + 1 /\ DOMAIN e = 1 .. n + 1 /\ e[n + 1] = p
      /\ \A i \in 1 .. n : e[i] = f[i]
  BY Appended
<1>4. Serials(e) = Serials(f) \cup {x0} /\ (OggPrefix(e) <=> ~RefusesPage(s, p))
  BY <1>1, <1>2, OggExtends, OggRefuses
<1>5. /\ g \in Seq(OggPages) /\ StreamOf(e, x0) = Append(g, p)
      /\ \A x : x # x0 => StreamOf(e, x) = StreamOf(f, x)
  BY StreamAppend
<1>6. /\ Append(g, p) # <<>> /\ Len(g) \in Nat /\ Len(Append(g, p)) = Len(g) + 1
      /\ LastOf(Append(g, p)) = p
  BY <1>5, Appended DEF LastOf
<1>7. \A x : x \in Serials(e) <=> StreamOf(e, x) # <<>>
  BY <1>2, <1>4, <1>5, <1>6
<1>8. CASE RefusesPage(s, p)
  <2>1. OggStep(s, p) = [s EXCEPT !.ok = FALSE]
    BY <1>8 DEF OggStep
  <2>2. PICK r : r = [s EXCEPT !.ok = FALSE]
    OBVIOUS
  <2>3. r \in Scans(r.streams) /\ ~r.ok
    BY <1>1, <2>2
  <2> HIDE DEF e
  <2>4. OggInv(r, e)
    BY <1>4, <1>7, <1>8, <2>3 DEF OggInv
  <2> QED
    BY <2>1, <2>2, <2>4 DEF e
<1>9. CASE ~RefusesPage(s, p)
  <2> DEFINE stream == [next |-> p.sequence + 1, open |-> LeavesPacketOpen(p), ended |-> p.eos]
             table == [x \in DOMAIN s.streams \cup {x0} |-> IF x = x0 THEN stream ELSE s.streams[x]]
  <2>1. OggStep(s, p) = [s EXCEPT !.pages = s.pages + 1,
                                  !.payload = s.payload \/ BodyBytes(p) > 0,
                                  !.streams = table]
    BY <1>9 DEF OggStep
  <2>2. p.sequence = Len(g) /\ OggPrefix(e)
    BY <1>1, <1>4, <1>9, OggRefuses DEF FollowsIn
  <2>3. PICK open \in BOOLEAN : open = LeavesPacketOpen(p)
    BY DEF LeavesPacketOpen
  <2>4. PICK b \in BOOLEAN : b = (s.payload \/ BodyBytes(p) > 0)
    OBVIOUS
  <2>5. PICK r : r = [s EXCEPT !.pages = s.pages + 1, !.payload = b, !.streams = table]
    OBVIOUS
  <2>6. OggStep(s, p) = r
    BY <2>1, <2>4, <2>5
  <2>7. stream = [next |-> p.sequence + 1, open |-> open, ended |-> p.eos]
    BY <2>3
  <2>8. /\ stream \in [next : Nat, open : BOOLEAN, ended : BOOLEAN]
        /\ stream.next = p.sequence + 1 /\ stream.open = open /\ stream.ended = p.eos
    <3>1. p.sequence + 1 \in Nat /\ p.eos \in BOOLEAN
      BY DEF OggPages
    <3> HIDE DEF stream
    <3> QED
      BY <2>7, <3>1
  <2>9. /\ DOMAIN table = DOMAIN s.streams \cup {x0} /\ table[x0] = stream
        /\ \A x \in DOMAIN s.streams : x # x0 => table[x] = s.streams[x]
    <3> HIDE DEF stream
    <3> QED
      OBVIOUS
  <2> HIDE DEF table, stream
  <2>10. /\ r \in Scans(table)
         /\ r.ok = s.ok /\ r.pages = s.pages + 1 /\ r.payload = b /\ r.streams = table
    <3>0. s.pages + 1 \in Nat
      BY <1>1
    <3>1. PICK a : a = [s EXCEPT !.pages = s.pages + 1]
      OBVIOUS
    <3>2. a \in Scans(s.streams) /\ a.pages = s.pages + 1 /\ a.ok = s.ok
      BY <1>1, <3>0, <3>1
    <3>3. PICK c : c = [a EXCEPT !.payload = b]
      OBVIOUS
    <3>4. c \in Scans(s.streams) /\ c.pages = s.pages + 1 /\ c.ok = s.ok /\ c.payload = b
      BY <3>2, <3>3
    <3>5. r = [c EXCEPT !.streams = table]
      BY <1>1, <2>5, <3>1, <3>3
    <3> QED
      BY <3>4, <3>5
  <2> HIDE DEF e, g, n, x0
  <2>11. OggKnows(r, e)
    <3>1. r.pages = Len(e)
      BY <1>1, <1>3, <2>10 DEF OggKnows, n
    <3>2. r.payload <=> \E i \in DOMAIN e : BodyBytes(e[i]) > 0
      <4>1. \A k : k \in 1 .. n + 1 <=> k \in 1 .. n \/ k = n + 1
        BY <1>3
      <4>2. s.payload <=> \E i \in 1 .. n : BodyBytes(f[i]) > 0
        BY <1>1, <1>3 DEF OggKnows
      <4>3. r.payload <=> s.payload \/ BodyBytes(p) > 0
        BY <2>4, <2>10
      <4> QED
        BY <1>3, <4>1, <4>2, <4>3
    <3>3. DOMAIN r.streams = Serials(e)
      BY <1>1, <1>4, <2>9, <2>10 DEF OggKnows
    <3>4. ASSUME NEW x \in Serials(e)
          PROVE  /\ r.streams[x] \in [next : Nat, open : BOOLEAN, ended : BOOLEAN]
                 /\ r.streams[x].next = Len(StreamOf(e, x))
                 /\ r.streams[x].open <=> LeavesPacketOpen(LastOf(StreamOf(e, x)))
                 /\ r.streams[x].ended <=> LastOf(StreamOf(e, x)).eos
      <4>1. CASE x = x0
        BY <1>5, <1>6, <2>2, <2>3, <2>8, <2>9, <2>10, <4>1
      <4>2. CASE x # x0
        <5>1. x \in Serials(f) /\ StreamOf(e, x) = StreamOf(f, x) /\ r.streams[x] = s.streams[x]
          BY <1>1, <1>4, <1>5, <2>9, <2>10, <4>2 DEF OggKnows
        <5> QED
          BY <1>1, <5>1 DEF OggKnows
      <4> QED
        BY <4>1, <4>2
    <3> QED
      BY <3>1, <3>2, <3>3, <3>4 DEF OggKnows
  <2>12. OggInv(r, e)
    BY <1>7, <2>2, <2>10, <2>11 DEF OggInv
  <2> QED
    BY <2>6, <2>12 DEF e
<1> QED
  BY <1>8, <1>9

LEMMA OggVerdict ==
  ASSUME NEW f \in Seq(OggPages), NEW s, OggInv(s, f)
  PROVE  Agrees(s.ok, OggPrefix(f), OggAccepts(s), IsOgg(f))
<1>1. s.ok <=> OggPrefix(f)
  BY DEF OggInv
<1>2. ASSUME s.ok PROVE OggAccepts(s) <=> IsOgg(f)
  <2>1. OggKnows(s, f) /\ OggPrefix(f) /\ Len(f) \in Nat /\ DOMAIN f = 1 .. Len(f)
    BY <1>1, <1>2 DEF OggInv
  <2>2. ASSUME NEW i \in DOMAIN f PROVE Len(f) > 0
    BY <2>1
  <2>3. ASSUME NEW x \in Serials(f), LastOf(StreamOf(f, x)).eos
        PROVE  ~LeavesPacketOpen(LastOf(StreamOf(f, x)))
    <3> DEFINE g == StreamOf(f, x)
    <3>1. StreamPrefix(g)
      BY <2>1 DEF OggPrefix
    <3>2. g # <<>> /\ g \in Seq(OggPages)
      <4>1. PICK t : StreamOf(f, x) = t[Len(f)] /\ \A k \in 0 .. Len(f) : t[k] \in Seq(OggPages)
        BY StreamFold
      <4>2. Len(f) \in 0 .. Len(f)
        BY <2>1
      <4> QED
        BY <4>1, <4>2 DEF OggInv
    <3> HIDE DEF g
    <3>3. Len(g) \in DOMAIN g
      BY <3>2, LenProperties, EmptySeq
    <3> QED
      BY <2>3, <3>1, <3>3, StreamUnfold DEF LastOf, g
  <2>4. \A x \in Serials(f) : Last(StreamOf(f, x)) = LastOf(StreamOf(f, x))
    BY DEF Last, LastOf
  <2>5. \A x \in Serials(f) : /\ s.streams[x].open <=> LeavesPacketOpen(LastOf(StreamOf(f, x)))
                              /\ s.streams[x].ended <=> LastOf(StreamOf(f, x)).eos
    BY <2>1 DEF OggKnows
  <2>6. (\A x \in DOMAIN s.streams : s.streams[x].ended /\ ~s.streams[x].open)
          <=> \A x \in Serials(f) : Last(StreamOf(f, x)).eos
    <3>1. DOMAIN s.streams = Serials(f)
      BY <2>1 DEF OggKnows
    <3> QED
      BY <2>3, <2>4, <2>5, <3>1
  <2>7. s.pages = Len(f) /\ (s.payload <=> \E i \in DOMAIN f : BodyBytes(f[i]) > 0)
    BY <2>1 DEF OggKnows
  <2> QED
    BY <1>2, <2>1, <2>2, <2>6, <2>7 DEF OggAccepts, IsOgg
<1>3. ASSUME ~s.ok PROVE ~OggAccepts(s) /\ ~IsOgg(f)
  BY <1>1, <1>3 DEF OggAccepts, IsOgg
<1> QED
  BY <1>1, <1>2, <1>3 DEF Agrees

-----------------------------------------------------------------------------
(***************************************************************************)
(* ADIF.  Reading fields one by one ends where their total says, or fails. *)
(***************************************************************************)
LEMMA TotalConcat ==
  ASSUME NEW a \in Seq(Nat), NEW b \in Seq(Nat)
  PROVE  Total(a \o b) = Total(a) + Total(b) /\ a \o b \in Seq(Nat) /\ Total(a) \in Int /\ Total(b) \in Int
<1> DEFINE m == Len(a)  n == Len(b)  c == a \o b
<1>1. /\ m \in Nat /\ n \in Nat /\ c \in Seq(Nat) /\ Len(c) = m + n
      /\ \A i \in 1 .. m : c[i] = a[i]
      /\ \A i \in 1 .. n : c[m + i] = b[i]
  BY ConcatProperties
<1>2. a \in Seq(Int) /\ b \in Seq(Int) /\ c \in Seq(Int)
  <2>1. ASSUME NEW s \in Seq(Nat) PROVE s \in Seq(Int)
    OBVIOUS
  <2> QED
    BY <1>1, <2>1
<1>3. PICK g : Sums(g, a) /\ Total(a) = g[m]
  BY <1>2, TotalSums
<1>4. PICK h : Sums(h, b) /\ Total(b) = h[n]
  BY <1>2, TotalSums
<1> HIDE DEF m, n, c
<1>5. PICK t : Sums(t, c) /\ Total(c) = t[m + n]
  BY <1>1, <1>2, TotalSums
<1>6. /\ g[0] = 0 /\ (\A k \in 1 .. m : g[k] = g[k - 1] + a[k]) /\ \A k \in 0 .. m : g[k] \in Int
      /\ h[0] = 0 /\ (\A k \in 1 .. n : h[k] = h[k - 1] + b[k]) /\ \A k \in 0 .. n : h[k] \in Int
      /\ t[0] = 0 /\ (\A k \in 1 .. m + n : t[k] = t[k - 1] + c[k])
  BY <1>1, <1>3, <1>4, <1>5 DEF Sums, m, n
<1>7. t[m] = g[m]
  <2> DEFINE S == {k \in 0 .. m : t[k] = g[k]}
  <2>1. 0 \in S
    BY <1>1, <1>6
  <2>2. ASSUME NEW k \in 1 .. m, k - 1 \in S PROVE k \in S
    <3>1. k \in 1 .. m + n /\ k \in 0 .. m /\ c[k] = a[k] /\ t[k - 1] = g[k - 1]
      BY <1>1, <2>2
    <3> QED
      BY <1>6, <3>1
  <2> HIDE DEF S
  <2>3. \A k \in 0 .. m : k \in S
    BY <1>1, <2>1, <2>2, UpTo
  <2> QED
    BY <1>1, <2>3 DEF S
<1>8. t[m + n] = g[m] + h[n]
  <2> DEFINE S == {k \in 0 .. n : t[m + k] = g[m] + h[k]}
  <2>1. 0 \in S
    BY <1>1, <1>6, <1>7
  <2>2. ASSUME NEW k \in 1 .. n, k - 1 \in S PROVE k \in S
    <3>1. /\ m + k \in 1 .. m + n /\ k \in 0 .. n /\ c[m + k] = b[k] /\ (m + k) - 1 = m + (k - 1)
          /\ t[m + (k - 1)] = g[m] + h[k - 1]
      BY <1>1, <2>2
    <3>2. t[m + k] = (g[m] + h[k - 1]) + b[k] /\ h[k] = h[k - 1] + b[k]
      BY <1>6, <3>1
    <3>3. g[m] \in Int /\ h[k - 1] \in Int /\ b[k] \in Int
      <4>1. m \in 0 .. m /\ k - 1 \in 0 .. n
        BY <1>1
      <4>2. b[k] \in Nat
        BY ElementOfSeq DEF n
      <4> QED
        BY <1>6, <4>1, <4>2
    <3> QED
      BY <3>1, <3>2, <3>3
  <2> HIDE DEF S
  <2>3. \A k \in 0 .. n : k \in S
    BY <1>1, <2>1, <2>2, UpTo
  <2> QED
    BY <1>1, <2>3 DEF S
<1>9. g[m] \in Int /\ h[n] \in Int
  BY <1>1, <1>6
<1> QED
  BY <1>1, <1>3, <1>4, <1>5, <1>8, <1>9 DEF c

LEMMA TotalCopies ==
  ASSUME NEW n \in Nat, NEW w \in {1, 3, 4, 20}
  PROVE  Total(Copies(n, w)) = w * n /\ Copies(n, w) \in Seq(Nat)
<1> DEFINE s == Copies(n, w)
<1>1. s \in Seq(Nat) /\ s \in Seq(Int) /\ Len(s) = n /\ \A k \in 1 .. n : s[k] = w
  BY DEF Copies
<1>2. PICK h : Sums(h, s) /\ Total(s) = h[n]
  BY <1>1, TotalSums
<1>3. h[0] = 0 /\ (\A k \in 1 .. n : h[k] = h[k - 1] + w)
  BY <1>1, <1>2 DEF Sums
<1> HIDE DEF s
<1> DEFINE S == {k \in 0 .. n : h[k] = w * k}
<1>4. 0 \in S
  BY <1>3
<1>5. ASSUME NEW k \in 1 .. n, k - 1 \in S PROVE k \in S
  <2>1. h[k] = w * (k - 1) + w /\ k \in 0 .. n
    BY <1>3, <1>5
  <2>2. w * (k - 1) + w = w * k
    <3>1. CASE w = 1
      BY <3>1
    <3>2. CASE w = 3
      BY <3>2
    <3>3. CASE w = 4
      BY <3>3
    <3>4. CASE w = 20
      BY <3>4
    <3> QED
      BY <3>1, <3>2, <3>3, <3>4
  <2> QED
    BY <2>1, <2>2
<1> HIDE DEF S
<1>6. \A k \in 0 .. n : k \in S
  BY <1>4, <1>5, UpTo
<1>7. h[n] = w * n
  BY <1>6 DEF S
<1> QED
  BY <1>1, <1>2, <1>7 DEF s

LEMMA TotalOne ==
  ASSUME NEW x \in Nat
  PROVE  Total(<<x>>) = x /\ <<x>> \in Seq(Nat)
<1>1. <<>> \in Seq(Int) /\ <<x>> = Append(<<>>, x) /\ x \in Int
  OBVIOUS
<1>2. Total(<<x>>) = Total(<<>>) + x
  BY <1>1, TotalAppend
<1> QED
  BY <1>2, TotalEmpty

Readers == [ok : BOOLEAN, pos : Nat, programs : Nat]

Reading(t, s, w, bits) ==
  /\ t[0] = s
  /\ \A k \in 1 .. Len(w) : t[k] = ReadBits(t[k - 1], w[k], bits)

LEMMA BitsRead ==
  ASSUME NEW s \in Readers, NEW w \in Nat, NEW bits \in Nat
  PROVE  /\ ReadBits(s, w, bits) \in Readers
         /\ ReadBits(s, w, bits).programs = s.programs
         /\ ReadBits(s, w, bits).ok <=> s.ok /\ s.pos + w <= bits
         /\ ReadBits(s, w, bits).ok => ReadBits(s, w, bits).pos = s.pos + w
<1>1. s.pos + w \in Nat
  BY DEF Readers
<1>2. CASE s.ok /\ s.pos + w <= bits
  BY <1>1, <1>2 DEF ReadBits, Readers
<1>3. CASE ~(s.ok /\ s.pos + w <= bits)
  BY <1>3 DEF ReadBits, Readers
<1> QED
  BY <1>2, <1>3

LEMMA FieldsFold ==
  ASSUME NEW s \in Readers, NEW w \in Seq(Nat), NEW bits \in Nat
  PROVE  \E t : Reading(t, s, w, bits) /\ ReadFields(s, w, bits) = t[Len(w)]
<1> DEFINE n == Len(w)
           F == [y \in (1 .. n) \X Readers |-> ReadBits(y[2], w[y[1]], bits)]
<1>1. n \in Nat /\ DOMAIN w = 1 .. n /\ \A i \in 1 .. n : w[i] \in Nat
  BY LenProperties, ElementOfSeq
<1>4. ASSUME NEW i \in 1 .. n, NEW v \in Readers PROVE ReadBits(v, w[i], bits) \in Readers
  BY <1>1, BitsRead
<1>5. F \in [(1 .. n) \X Readers -> Readers]
  <2>1. \A y \in (1 .. n) \X Readers : y[1] \in 1 .. n /\ y[2] \in Readers
    OBVIOUS
  <2> QED
    BY <1>4, <2>1
<1> DEFINE P(h) == h = [z \in SUBSET DOMAIN w |->
                          IF z = {} THEN s ELSE ReadBits(h[z \ {Max(z)}], w[Max(z)], bits)]
<1>6. \E h : P(h)
  <2>1. PICK h : Folds(h, n, Readers, s, F)
    <3> HIDE DEF F, n
    <3> QED
      BY <1>1, <1>5, FoldExists, Zenon
  <2>2. ASSUME NEW z \in SUBSET (1 .. n), z # {}
        PROVE  h[z] = ReadBits(h[z \ {Max(z)}], w[Max(z)], bits)
    <3>1. Max(z) \in 1 .. n
      BY <1>1, <2>2, MaxOf
    <3>2. h[z \ {Max(z)}] \in Readers /\ h[z] = F[<<Max(z), h[z \ {Max(z)}]>>]
      BY <2>1, <2>2 DEF Folds
    <3>3. F[<<Max(z), h[z \ {Max(z)}]>>] = ReadBits(h[z \ {Max(z)}], w[Max(z)], bits)
      BY <3>1, <3>2
    <3> QED
      BY <3>1, <3>2, <3>3
  <2>3. h \in [SUBSET (1 .. n) -> Readers] /\ ({} \in SUBSET (1 .. n) => h[{}] = s)
    BY <2>1 DEF Folds
  <2>4. P(h)
    BY <1>1, <2>2, <2>3
  <2> QED
    BY <2>4
<1> DEFINE g == CHOOSE h : P(h)
<1>7. P(g)
  BY <1>6
<1>8. ReadFields(s, w, bits) = g[DOMAIN w]
  BY DEF ReadFields, FoldLeft, MapThenFoldSet
<1> HIDE DEF g
<1> DEFINE t == [k \in 0 .. n |-> g[1 .. k]]
<1>9. t[0] = s
  <2>1. 1 .. 0 = {} /\ {} \in SUBSET DOMAIN w /\ 0 \in 0 .. n
    BY <1>1
  <2>2. g[{}] = s
    BY <1>7, <2>1
  <2> QED
    BY <2>1, <2>2
<1>10. ASSUME NEW k \in 1 .. n PROVE t[k] = ReadBits(t[k - 1], w[k], bits)
  <2>1. 1 .. k \in SUBSET (1 .. n) /\ k \in 1 .. k
    BY <1>1
  <2>2. Max(1 .. k) \in 1 .. k /\ k <= Max(1 .. k)
    BY <1>1, <2>1, MaxOf
  <2>3. Max(1 .. k) = k /\ (1 .. k) \ {k} = 1 .. k - 1 /\ 1 .. k # {} /\ 1 .. k \in SUBSET DOMAIN w
    BY <1>1, <2>1, <2>2
  <2>4. g[1 .. k] = ReadBits(g[(1 .. k) \ {Max(1 .. k)}], w[Max(1 .. k)], bits)
    BY <1>7, <2>3
  <2>5. k \in 0 .. n /\ k - 1 \in 0 .. n
    BY <1>1
  <2> QED
    BY <2>3, <2>4, <2>5
<1>11. t[n] = g[DOMAIN w]
  BY <1>1
<1> HIDE DEF t
<1> QED
  BY <1>8, <1>9, <1>10, <1>11 DEF Reading

(* Fields are read exactly when all of them fit.                            *)
LEMMA FieldsRead ==
  ASSUME NEW s \in Readers, NEW w \in Seq(Nat), NEW bits \in Nat, s.ok => s.pos <= bits
  PROVE  LET r == ReadFields(s, w, bits) IN
           /\ r \in Readers /\ r.programs = s.programs
           /\ r.ok <=> s.ok /\ s.pos + Total(w) <= bits
           /\ r.ok => r.pos = s.pos + Total(w)
           /\ Total(w) \in Nat
<1> DEFINE n == Len(w)
<1>1. n \in Nat /\ w \in Seq(Int) /\ \A i \in 1 .. n : w[i] \in Nat
  BY ElementOfSeq
<1>2. PICK h : Sums(h, w) /\ Total(w) = h[n]
  BY <1>1, TotalSums
<1>3. PICK t : Reading(t, s, w, bits) /\ ReadFields(s, w, bits) = t[n]
  BY FieldsFold
<1>4. h[0] = 0 /\ \A k \in 1 .. n : h[k] = h[k - 1] + w[k]
  BY <1>2 DEF Sums
<1>5. t[0] = s /\ \A k \in 1 .. n : t[k] = ReadBits(t[k - 1], w[k], bits)
  BY <1>3 DEF Reading
<1> HIDE DEF n
<1> DEFINE S == {k \in 0 .. n : /\ t[k] \in Readers /\ t[k].programs = s.programs
                                /\ t[k].ok <=> s.ok /\ s.pos + h[k] <= bits
                                /\ t[k].ok => t[k].pos = s.pos + h[k]
                                /\ h[k] \in Nat}
<1>6. 0 \in S
  <2>1. s.pos \in Nat /\ s.pos + 0 = s.pos
    BY DEF Readers
  <2> QED
    BY <1>1, <1>4, <1>5, <2>1
<1>7. ASSUME NEW k \in 1 .. n, k - 1 \in S PROVE k \in S
  <2> DEFINE a == t[k - 1]  c == t[k]  x == h[k - 1]  y == h[k]
  <2>1. /\ a \in Readers /\ a.programs = s.programs /\ (a.ok <=> s.ok /\ s.pos + x <= bits)
        /\ (a.ok => a.pos = s.pos + x) /\ x \in Nat
    BY <1>7
  <2>2. y = x + w[k] /\ w[k] \in Nat /\ c = ReadBits(a, w[k], bits) /\ k \in 0 .. n
    BY <1>1, <1>4, <1>5
  <2> HIDE DEF a, c, x, y
  <2>3. /\ c \in Readers /\ c.programs = a.programs /\ (c.ok <=> a.ok /\ a.pos + w[k] <= bits)
        /\ (c.ok => c.pos = a.pos + w[k])
    BY <2>1, <2>2, BitsRead
  <2>4. s.pos \in Nat /\ y \in Nat
    BY <2>1, <2>2 DEF Readers
  <2>5. s.pos + y <= bits => s.pos + x <= bits
    BY <2>1, <2>2, <2>4
  <2>6. a.ok => a.pos + w[k] = s.pos + y
    BY <2>1, <2>2, <2>4
  <2>7. (c.ok <=> s.ok /\ s.pos + y <= bits) /\ (c.ok => c.pos = s.pos + y)
    BY <2>1, <2>3, <2>5, <2>6
  <2> QED
    BY <2>1, <2>2, <2>3, <2>4, <2>7 DEF a, c, x, y
<1> HIDE DEF S
<1>8. \A k \in 0 .. n : k \in S
  BY <1>1, <1>6, <1>7, UpTo
<1>9. n \in S
  BY <1>1, <1>8
<1> QED
  BY <1>2, <1>3, <1>9 DEF S

AdifFiles == [size : Nat, copyright : BOOLEAN, constantRate : BOOLEAN, programs : 1 .. 16]

FieldsOf(p) ==
  34 + 4 * p.mono + 4 * p.stereo + 3 * p.matrix + 5 * p.elements + 4 * p.lfe + 4 * p.assoc + 5 * p.cc

(* Sums of literal fields.                                                  *)
LEMMA TotalStart ==
  ASSUME NEW c \in BOOLEAN
  PROVE  LET w == <<1>> \o (IF c THEN <<72>> ELSE <<>>) \o <<1, 1, 1, 23, 4>> IN
           w \in Seq(Nat) /\ Total(w) = 31 + (IF c THEN 72 ELSE 0)
<1> DEFINE tail == <<1, 1, 1, 23, 4>>  mid == IF c THEN <<72>> ELSE <<>>
<1>1. tail \in Seq(Nat) /\ Total(tail) = 30
  <2>1. tail \in Seq(Int) /\ Len(tail) = 5
    OBVIOUS
  <2>2. PICK h : Sums(h, tail) /\ Total(tail) = h[5]
    BY <2>1, TotalSums
  <2>3. /\ h[0] = 0 /\ h[1] = h[0] + 1 /\ h[2] = h[1] + 1 /\ h[3] = h[2] + 1 /\ h[4] = h[3] + 23
        /\ h[5] = h[4] + 4
    BY <2>1, <2>2 DEF Sums
  <2> QED
    BY <2>2, <2>3
<1>2. mid \in Seq(Nat) /\ Total(mid) = IF c THEN 72 ELSE 0
  BY TotalOne, TotalEmpty
<1> DEFINE one == <<1>>
<1>3. one \in Seq(Nat) /\ Total(one) = 1
  BY TotalOne
<1> HIDE DEF tail, mid, one
<1>4. /\ Total(one \o mid) = Total(one) + Total(mid) /\ one \o mid \in Seq(Nat)
  BY <1>2, <1>3, TotalConcat
<1>5. /\ Total((one \o mid) \o tail) = Total(one \o mid) + Total(tail)
      /\ (one \o mid) \o tail \in Seq(Nat)
  BY <1>1, <1>4, TotalConcat
<1>6. Total((one \o mid) \o tail) = 31 + (IF c THEN 72 ELSE 0)
  BY <1>1, <1>2, <1>3, <1>4, <1>5
<1> QED
  BY <1>5, <1>6 DEF one, tail, mid

LEMMA TotalProgram ==
  ASSUME NEW p \in AdifPrograms
  PROVE  ProgramFields(p) \in Seq(Nat) /\ Total(ProgramFields(p)) = FieldsOf(p) /\ FieldsOf(p) \in Nat
<1> DEFINE one == <<1>>
           a0 == <<4, 2, 4, 4, 4, 4, 2, 3, 4>>
           a1 == a0 \o one
           a2 == a1 \o Copies(p.mono, 4)
           a3 == a2 \o one
           a4 == a3 \o Copies(p.stereo, 4)
           a5 == a4 \o one
           a6 == a5 \o Copies(p.matrix, 3)
           a7 == a6 \o Copies(p.elements, 1)
           a8 == a7 \o Copies(p.elements, 4)
           a9 == a8 \o Copies(p.lfe, 4)
           a10 == a9 \o Copies(p.assoc, 4)
           a11 == a10 \o Copies(p.cc, 1)
           a12 == a11 \o Copies(p.cc, 4)
<1>1. /\ p.mono \in Nat /\ p.stereo \in Nat /\ p.matrix \in Nat /\ p.elements \in Nat
      /\ p.lfe \in Nat /\ p.assoc \in Nat /\ p.cc \in Nat
  BY DEF AdifPrograms
<1>2. ProgramFields(p) = a12
  BY DEF ProgramFields
<1>3. a0 \in Seq(Nat) /\ Total(a0) = 31
  <2>1. a0 \in Seq(Int) /\ Len(a0) = 9
    OBVIOUS
  <2>2. PICK h : Sums(h, a0) /\ Total(a0) = h[9]
    BY <2>1, TotalSums
  <2>3. /\ h[0] = 0 /\ h[1] = h[0] + 4 /\ h[2] = h[1] + 2 /\ h[3] = h[2] + 4 /\ h[4] = h[3] + 4
    BY <2>1, <2>2 DEF Sums
  <2>4. /\ h[5] = h[4] + 4 /\ h[6] = h[5] + 4 /\ h[7] = h[6] + 2 /\ h[8] = h[7] + 3
        /\ h[9] = h[8] + 4
    BY <2>1, <2>2 DEF Sums
  <2> QED
    BY <2>2, <2>3, <2>4
<1>4. one \in Seq(Nat) /\ Total(one) = 1
  BY TotalOne
<1>5. ASSUME NEW a \in Seq(Nat), NEW b \in Seq(Nat)
      PROVE  a \o b \in Seq(Nat) /\ Total(a \o b) = Total(a) + Total(b)
  BY TotalConcat
<1>6. ASSUME NEW n \in Nat, NEW w \in {1, 3, 4, 20}
      PROVE  Copies(n, w) \in Seq(Nat) /\ Total(Copies(n, w)) = w * n
  BY TotalCopies
<1>c1. Copies(p.mono, 4) \in Seq(Nat) /\ Total(Copies(p.mono, 4)) = 4 * p.mono
  BY <1>1, <1>6
<1>c3. Copies(p.stereo, 4) \in Seq(Nat) /\ Total(Copies(p.stereo, 4)) = 4 * p.stereo
  BY <1>1, <1>6
<1>c5. Copies(p.matrix, 3) \in Seq(Nat) /\ Total(Copies(p.matrix, 3)) = 3 * p.matrix
  BY <1>1, <1>6
<1>c6. Copies(p.elements, 1) \in Seq(Nat) /\ Total(Copies(p.elements, 1)) = 1 * p.elements
  BY <1>1, <1>6
<1>c7. Copies(p.elements, 4) \in Seq(Nat) /\ Total(Copies(p.elements, 4)) = 4 * p.elements
  BY <1>1, <1>6
<1>c8. Copies(p.lfe, 4) \in Seq(Nat) /\ Total(Copies(p.lfe, 4)) = 4 * p.lfe
  BY <1>1, <1>6
<1>c9. Copies(p.assoc, 4) \in Seq(Nat) /\ Total(Copies(p.assoc, 4)) = 4 * p.assoc
  BY <1>1, <1>6
<1>c10. Copies(p.cc, 1) \in Seq(Nat) /\ Total(Copies(p.cc, 1)) = 1 * p.cc
  BY <1>1, <1>6
<1>c11. Copies(p.cc, 4) \in Seq(Nat) /\ Total(Copies(p.cc, 4)) = 4 * p.cc
  BY <1>1, <1>6
<1> HIDE DEF one, a0
<1>a1. a1 \in Seq(Nat) /\ Total(a1) = Total(a0) + Total(one)
  BY <1>3, <1>5, <1>4
<1> HIDE DEF a1
<1>a2. a2 \in Seq(Nat) /\ Total(a2) = Total(a1) + Total(Copies(p.mono, 4))
  BY <1>a1, <1>5, <1>c1
<1> HIDE DEF a2
<1>a3. a3 \in Seq(Nat) /\ Total(a3) = Total(a2) + Total(one)
  BY <1>a2, <1>5, <1>4
<1> HIDE DEF a3
<1>a4. a4 \in Seq(Nat) /\ Total(a4) = Total(a3) + Total(Copies(p.stereo, 4))
  BY <1>a3, <1>5, <1>c3
<1> HIDE DEF a4
<1>a5. a5 \in Seq(Nat) /\ Total(a5) = Total(a4) + Total(one)
  BY <1>a4, <1>5, <1>4
<1> HIDE DEF a5
<1>a6. a6 \in Seq(Nat) /\ Total(a6) = Total(a5) + Total(Copies(p.matrix, 3))
  BY <1>a5, <1>5, <1>c5
<1> HIDE DEF a6
<1>a7. a7 \in Seq(Nat) /\ Total(a7) = Total(a6) + Total(Copies(p.elements, 1))
  BY <1>a6, <1>5, <1>c6
<1> HIDE DEF a7
<1>a8. a8 \in Seq(Nat) /\ Total(a8) = Total(a7) + Total(Copies(p.elements, 4))
  BY <1>a7, <1>5, <1>c7
<1> HIDE DEF a8
<1>a9. a9 \in Seq(Nat) /\ Total(a9) = Total(a8) + Total(Copies(p.lfe, 4))
  BY <1>a8, <1>5, <1>c8
<1> HIDE DEF a9
<1>a10. a10 \in Seq(Nat) /\ Total(a10) = Total(a9) + Total(Copies(p.assoc, 4))
  BY <1>a9, <1>5, <1>c9
<1> HIDE DEF a10
<1>a11. a11 \in Seq(Nat) /\ Total(a11) = Total(a10) + Total(Copies(p.cc, 1))
  BY <1>a10, <1>5, <1>c10
<1> HIDE DEF a11
<1>a12. a12 \in Seq(Nat) /\ Total(a12) = Total(a11) + Total(Copies(p.cc, 4))
  BY <1>a11, <1>5, <1>c11
<1> HIDE DEF a12
<1>7. PICK mono \in Nat, stereo \in Nat, matrix \in Nat, elements \in Nat, lfe \in Nat,
           assoc \in Nat, cc \in Nat :
        /\ mono = p.mono /\ stereo = p.stereo /\ matrix = p.matrix /\ elements = p.elements
        /\ lfe = p.lfe /\ assoc = p.assoc /\ cc = p.cc
  BY <1>1, Zenon
<1>8. FieldsOf(p) = 34 + 4 * mono + 4 * stereo + 3 * matrix + 5 * elements + 4 * lfe + 4 * assoc + 5 * cc
  BY <1>7, Zenon DEF FieldsOf
<1>b1. Total(a1) = 32
  BY <1>3, <1>a1, <1>4
<1>b2. Total(a2) = 32 + 4 * mono
  BY <1>b1, <1>a2, <1>7, <1>c1
<1>b3. Total(a3) = 33 + 4 * mono
  BY <1>b2, <1>a3, <1>4
<1>b4. Total(a4) = 33 + 4 * mono + 4 * stereo
  BY <1>b3, <1>a4, <1>7, <1>c3
<1>b5. Total(a5) = 34 + 4 * mono + 4 * stereo
  BY <1>b4, <1>a5, <1>4
<1>b6. Total(a6) = 34 + 4 * mono + 4 * stereo + 3 * matrix
  BY <1>b5, <1>a6, <1>7, <1>c5
<1>b7. Total(a7) = 34 + 4 * mono + 4 * stereo + 3 * matrix + elements
  BY <1>b6, <1>a7, <1>7, <1>c6
<1>b8. Total(a8) = 34 + 4 * mono + 4 * stereo + 3 * matrix + 5 * elements
  <2> DEFINE z == 34 + 4 * mono + 4 * stereo + 3 * matrix
  <2>1. z \in Nat /\ Total(a8) = (z + elements) + 4 * elements
    <3>1. z \in Nat
      OBVIOUS
    <3>2. Total(a7) = z + elements
      BY <1>b7
    <3>3. Total(Copies(p.elements, 4)) = 4 * elements
      BY <1>7, <1>c7
    <3>4. Total(a8) = Total(a7) + Total(Copies(p.elements, 4))
      BY <1>a8
    <3> QED
      BY <3>1, <3>2, <3>3, <3>4
  <2> HIDE DEF z
  <2>2. Total(a8) = z + 5 * elements
    BY <2>1
  <2> QED
    BY <2>2 DEF z
<1>b9. Total(a9) = 34 + 4 * mono + 4 * stereo + 3 * matrix + 5 * elements + 4 * lfe
  BY <1>b8, <1>a9, <1>7, <1>c8
<1>b10. Total(a10) = 34 + 4 * mono + 4 * stereo + 3 * matrix + 5 * elements + 4 * lfe + 4 * assoc
  BY <1>b9, <1>a10, <1>7, <1>c9
<1>b11. Total(a11) = 34 + 4 * mono + 4 * stereo + 3 * matrix + 5 * elements + 4 * lfe + 4 * assoc + cc
  BY <1>b10, <1>a11, <1>7, <1>c10
<1>b12. Total(a12) = 34 + 4 * mono + 4 * stereo + 3 * matrix + 5 * elements + 4 * lfe + 4 * assoc + 5 * cc
  <2> DEFINE z == 34 + 4 * mono + 4 * stereo + 3 * matrix + 5 * elements + 4 * lfe + 4 * assoc
  <2>1. z \in Nat /\ Total(a12) = (z + cc) + 4 * cc
    <3>1. z \in Nat
      OBVIOUS
    <3>2. Total(a11) = z + cc
      BY <1>b11
    <3>3. Total(Copies(p.cc, 4)) = 4 * cc
      BY <1>7, <1>c11
    <3>4. Total(a12) = Total(a11) + Total(Copies(p.cc, 4))
      BY <1>a12
    <3> QED
      BY <3>1, <3>2, <3>3, <3>4
  <2> HIDE DEF z
  <2>2. Total(a12) = z + 5 * cc
    BY <2>1
  <2> QED
    BY <2>2 DEF z
<1> QED
  BY <1>2, <1>8, <1>a12, <1>b12 DEF a12

-----------------------------------------------------------------------------
(* The end of the header in closed form, after one more program.            *)
HeaderStart(l) == 32 + 31 + (IF l.copyright THEN 72 ELSE 0)

Advances(t, l, f) ==
  /\ t[0] = HeaderStart(l)
  /\ \A k \in 1 .. Len(f) : t[k] = ProgramEnd(l, t[k - 1], f[k])

LEMMA EndsOnByte ==
  ASSUME NEW l \in AdifFiles, NEW pos \in Nat, NEW p \in AdifPrograms
  PROVE  /\ ProgramEnd(l, pos, p) \in Nat /\ ProgramEnd(l, pos, p) % 8 = 0
         /\ pos <= ProgramEnd(l, pos, p) /\ ProgramEnd(l, pos, p) <= pos + 2460
<1> DEFINE n == FieldsOf(p) + (IF l.constantRate THEN 20 ELSE 0)
<1>1. /\ p.mono \in 0 .. 1 /\ p.stereo \in 0 .. 1 /\ p.matrix \in 0 .. 1 /\ p.elements \in 0 .. 45
      /\ p.lfe \in 0 .. 3 /\ p.assoc \in 0 .. 7 /\ p.cc \in 0 .. 15 /\ p.comment \in 0 .. 255
  BY DEF AdifPrograms
<1>2. n \in 0 .. 405
  <2>1. FieldsOf(p) \in 0 .. 385
    <3>1. PICK mono \in 0 .. 1, stereo \in 0 .. 1, matrix \in 0 .. 1, elements \in 0 .. 45,
               lfe \in 0 .. 3, assoc \in 0 .. 7, cc \in 0 .. 15 :
            /\ mono = p.mono /\ stereo = p.stereo /\ matrix = p.matrix /\ elements = p.elements
            /\ lfe = p.lfe /\ assoc = p.assoc /\ cc = p.cc
      BY <1>1, Zenon
    <3>2. FieldsOf(p) = 34 + 4 * mono + 4 * stereo + 3 * matrix + 5 * elements + 4 * lfe
                        + 4 * assoc + 5 * cc
      BY <3>1, Zenon DEF FieldsOf
    <3> QED
      BY <3>2
  <2>2. PICK c \in {0, 20} : c = IF l.constantRate THEN 20 ELSE 0
    OBVIOUS
  <2> QED
    BY <2>1, <2>2
<1>3. ProgramEnd(l, pos, p) = 8 * ((pos + n + 7) \div 8) + 8 + 8 * p.comment
  BY <1>1 DEF ProgramEnd, FieldsOf
<1> HIDE DEF n
<1>4. PICK q \in Nat : q = (pos + n + 7) \div 8 /\ 8 * q <= pos + n + 7 /\ pos + n + 7 < 8 * q + 8
  BY <1>2
<1>5. PICK e \in Nat : e = 8 * q + 8 + 8 * p.comment
  BY <1>1
<1>6. e % 8 = 0
  <2>1. e = 8 * (q + 1 + p.comment) /\ q + 1 + p.comment \in Nat
    BY <1>1, <1>5
  <2> QED
    BY <2>1
<1>7. pos <= e /\ e <= pos + 2460
  BY <1>1, <1>2, <1>4, <1>5
<1> QED
  BY <1>3, <1>4, <1>5, <1>6, <1>7

LEMMA EndIsNat ==
  ASSUME NEW l \in AdifFiles, NEW pos \in Nat, NEW p \in AdifPrograms
  PROVE  ProgramEnd(l, pos, p) \in Nat
  BY EndsOnByte

LEMMA HeaderFold ==
  ASSUME NEW l \in AdifFiles, NEW f \in Seq(AdifPrograms)
  PROVE  \E t : Advances(t, l, f) /\ HeaderEnd(l, f) = t[Len(f)]
<1> DEFINE n == Len(f)
           F == [y \in (1 .. n) \X Nat |-> ProgramEnd(l, y[2], f[y[1]])]
<1>1. n \in Nat /\ DOMAIN f = 1 .. n /\ \A i \in 1 .. n : f[i] \in AdifPrograms
  BY LenProperties, ElementOfSeq
<1>3. HeaderStart(l) \in Nat
  BY DEF HeaderStart
<1>4. ASSUME NEW i \in 1 .. n, NEW v \in Nat PROVE ProgramEnd(l, v, f[i]) \in Nat
  <2>1. f[i] \in AdifPrograms
    BY <1>1
  <2>2. ASSUME NEW q \in AdifPrograms PROVE ProgramEnd(l, v, q) \in Nat
    BY EndIsNat
  <2> QED
    BY <2>1, <2>2
<1>5. F \in [(1 .. n) \X Nat -> Nat]
  <2>1. \A y \in (1 .. n) \X Nat : y[1] \in 1 .. n /\ y[2] \in Nat
    OBVIOUS
  <2> QED
    BY <1>4, <2>1
<1> DEFINE P(h) == h = [z \in SUBSET DOMAIN f |->
                          IF z = {} THEN HeaderStart(l) ELSE ProgramEnd(l, h[z \ {Max(z)}], f[Max(z)])]
<1>6. \E h : P(h)
  <2>1. PICK h : Folds(h, n, Nat, HeaderStart(l), F)
    <3> HIDE DEF F, n
    <3> QED
      BY <1>1, <1>3, <1>5, FoldExists, Zenon
  <2>2. ASSUME NEW z \in SUBSET (1 .. n), z # {}
        PROVE  h[z] = ProgramEnd(l, h[z \ {Max(z)}], f[Max(z)])
    <3>1. Max(z) \in 1 .. n
      BY <1>1, <2>2, MaxOf
    <3>2. h[z \ {Max(z)}] \in Nat /\ h[z] = F[<<Max(z), h[z \ {Max(z)}]>>]
      BY <2>1, <2>2 DEF Folds
    <3>3. F[<<Max(z), h[z \ {Max(z)}]>>] = ProgramEnd(l, h[z \ {Max(z)}], f[Max(z)])
      BY <3>1, <3>2
    <3> QED
      BY <3>1, <3>2, <3>3
  <2>3. h \in [SUBSET (1 .. n) -> Nat] /\ ({} \in SUBSET (1 .. n) => h[{}] = HeaderStart(l))
    BY <2>1 DEF Folds
  <2>4. P(h)
    BY <1>1, <2>2, <2>3
  <2> QED
    BY <2>4
<1> DEFINE g == CHOOSE h : P(h)
<1>7. P(g)
  BY <1>6
<1>8. HeaderEnd(l, f) = g[DOMAIN f]
  BY DEF HeaderEnd, HeaderStart, FoldLeft, MapThenFoldSet
<1> HIDE DEF g
<1> DEFINE t == [k \in 0 .. n |-> g[1 .. k]]
<1>9. t[0] = HeaderStart(l)
  <2>1. 1 .. 0 = {} /\ {} \in SUBSET DOMAIN f /\ 0 \in 0 .. n
    BY <1>1
  <2>2. g[{}] = HeaderStart(l)
    BY <1>7, <2>1
  <2> QED
    BY <2>1, <2>2
<1>10. ASSUME NEW k \in 1 .. n PROVE t[k] = ProgramEnd(l, t[k - 1], f[k])
  <2>1. 1 .. k \in SUBSET (1 .. n) /\ k \in 1 .. k
    BY <1>1
  <2>2. Max(1 .. k) \in 1 .. k /\ k <= Max(1 .. k)
    BY <1>1, <2>1, MaxOf
  <2>3. Max(1 .. k) = k /\ (1 .. k) \ {k} = 1 .. k - 1 /\ 1 .. k # {} /\ 1 .. k \in SUBSET DOMAIN f
    BY <1>1, <2>1, <2>2
  <2>4. g[1 .. k] = ProgramEnd(l, g[(1 .. k) \ {Max(1 .. k)}], f[Max(1 .. k)])
    BY <1>7, <2>3
  <2>5. k \in 0 .. n /\ k - 1 \in 0 .. n
    BY <1>1
  <2> QED
    BY <2>3, <2>4, <2>5
<1>11. t[n] = g[DOMAIN f]
  BY <1>1
<1> HIDE DEF t
<1> QED
  BY <1>8, <1>9, <1>10, <1>11 DEF Advances

LEMMA HeaderEmpty ==
  ASSUME NEW l \in AdifFiles
  PROVE  HeaderEnd(l, <<>>) = HeaderStart(l)
<1>1. <<>> \in Seq(AdifPrograms) /\ Len(<<>>) = 0
  OBVIOUS
<1>2. PICK t : Advances(t, l, <<>>) /\ HeaderEnd(l, <<>>) = t[Len(<<>>)]
  BY <1>1, HeaderFold
<1> QED
  BY <1>1, <1>2 DEF Advances

LEMMA HeaderAppend ==
  ASSUME NEW l \in AdifFiles, NEW f \in Seq(AdifPrograms), NEW p \in AdifPrograms
  PROVE  HeaderEnd(l, Append(f, p)) = ProgramEnd(l, HeaderEnd(l, f), p)
<1> DEFINE n == Len(f)  e == Append(f, p)
<1>1. /\ n \in Nat /\ Len(e) = n + 1 /\ e \in Seq(AdifPrograms) /\ e[n + 1] = p
      /\ \A i \in 1 .. n : e[i] = f[i]
  BY Appended
<1>2. PICK g : Advances(g, l, f) /\ HeaderEnd(l, f) = g[n]
  BY HeaderFold
<1>3. PICK h : Advances(h, l, e) /\ HeaderEnd(l, e) = h[Len(e)]
  BY <1>1, HeaderFold
<1>4. \A k \in 1 .. n : g[k] = ProgramEnd(l, g[k - 1], f[k])
  BY <1>2 DEF Advances
<1>5. \A k \in 1 .. n + 1 : h[k] = ProgramEnd(l, h[k - 1], e[k])
  BY <1>1, <1>3 DEF Advances
<1>6. g[0] = h[0]
  BY <1>2, <1>3 DEF Advances
<1> HIDE DEF n, e
<1>7. g[n] = h[n]
  <2> DEFINE S == {k \in 0 .. n : g[k] = h[k]}
  <2>1. 0 \in S
    BY <1>1, <1>6
  <2>2. ASSUME NEW k \in 1 .. n, k - 1 \in S PROVE k \in S
    <3>1. g[k - 1] = h[k - 1] /\ e[k] = f[k] /\ k \in 1 .. n + 1 /\ k \in 0 .. n
      BY <1>1, <2>2
    <3> QED
      BY <1>4, <1>5, <3>1
  <2> HIDE DEF S
  <2>3. \A k \in 0 .. n : k \in S
    BY <1>1, <2>1, <2>2, UpTo
  <2> QED
    BY <1>1, <2>3 DEF S
<1>8. h[n + 1] = ProgramEnd(l, h[n], p)
  <2>1. n + 1 \in 1 .. n + 1 /\ (n + 1) - 1 = n
    BY <1>1
  <2> QED
    BY <1>1, <1>5, <2>1
<1> QED
  BY <1>1, <1>2, <1>3, <1>7, <1>8 DEF n, e

(* Sixteen programs of the longest kind end far before the 65536 bytes that *)
(* are inspected: the limit never decides.                                  *)
AdifInv(l, s, f) ==
  /\ s \in Readers /\ s.programs = Len(f) /\ Len(f) <= l.programs
  /\ HeaderEnd(l, f) \in Nat /\ HeaderEnd(l, f) <= 135 + 2460 * Len(f)
  /\ Len(f) > 0 => HeaderEnd(l, f) % 8 = 0
  /\ s.ok <=> AdifPrefix(l, f)
  /\ s.ok => s.pos = HeaderEnd(l, f)

LEMMA WithinInspected ==
  ASSUME NEW l \in AdifFiles, NEW n \in 0 .. 16, NEW e \in Nat, e <= 135 + 2460 * n
  PROVE  (e <= 8 * l.size <=> e <= AdifBits(l)) /\ AdifBits(l) \in Nat /\ AdifBits(l) % 8 = 0
<1>1. l.size \in Nat /\ e <= 524288
  <2>1. e <= 135 + 2460 * 16
    OBVIOUS
  <2> QED
    BY <2>1 DEF AdifFiles
<1>2. CASE l.size < 65536
  <2>1. AdifBits(l) = 8 * l.size
    BY <1>1, <1>2 DEF AdifBits, Least
  <2> QED
    BY <1>1, <2>1
<1>3. CASE ~(l.size < 65536)
  <2>1. AdifBits(l) = 524288
    BY <1>1, <1>3 DEF AdifBits, Least
  <2> QED
    BY <1>1, <1>3, <2>1
<1> QED
  BY <1>2, <1>3

(* The same about one reading, with its numbers named.                      *)
LEMMA FieldsMove ==
  ASSUME NEW s \in Readers, NEW w \in Seq(Nat), NEW bits \in Nat, NEW at \in Nat, NEW sum, NEW r,
         r = ReadFields(s, w, bits), Total(w) = sum, s.pos = at, s.ok => at <= bits
  PROVE  /\ r \in Readers /\ r.programs = s.programs
         /\ r.ok <=> s.ok /\ at + sum <= bits
         /\ r.ok => r.pos = at + sum
         /\ sum \in Nat
<1>1. s.ok => s.pos <= bits
  BY Zenon
<1> DEFINE q == ReadFields(s, w, bits)
<1>2. /\ q \in Readers /\ q.programs = s.programs
      /\ q.ok <=> s.ok /\ s.pos + Total(w) <= bits
      /\ q.ok => q.pos = s.pos + Total(w)
      /\ Total(w) \in Nat
  BY <1>1, FieldsRead
<1> HIDE DEF q
<1>3. q = r
  BY DEF q
<1> QED
  BY <1>2, <1>3, Zenon

LEMMA AdifStartInv ==
  ASSUME NEW l \in AdifFiles
  PROVE  AdifInv(l, AdifStart(l), <<>>)
<1> DEFINE w == <<1>> \o (IF l.copyright THEN <<72>> ELSE <<>>) \o <<1, 1, 1, 23, 4>>
           bits == AdifBits(l)
<1>0. l.size \in Nat
  BY DEF AdifFiles
<1>1. PICK ok \in BOOLEAN : ok = (l.size >= 5)
  <2>1. (l.size >= 5) = TRUE \/ (l.size >= 5) = FALSE
    BY <1>0
  <2> QED
    BY <2>1
<1> DEFINE s == [ok |-> ok, pos |-> 32, programs |-> 0]
<1>2. AdifStart(l) = ReadFields(s, w, bits)
  BY <1>1 DEF AdifStart
<1>3. w \in Seq(Nat) /\ Total(w) = 31 + (IF l.copyright THEN 72 ELSE 0)
  <2>1. l.copyright \in BOOLEAN
    BY DEF AdifFiles
  <2> QED
    BY <2>1, TotalStart, Zenon
<1>4. HeaderEnd(l, <<>>) = 32 + Total(w) /\ HeaderEnd(l, <<>>) \in Nat /\ HeaderEnd(l, <<>>) <= 135
  BY <1>3, HeaderEmpty DEF HeaderStart
<1>5. (HeaderEnd(l, <<>>) <= 8 * l.size <=> HeaderEnd(l, <<>>) <= bits) /\ bits \in Nat
  <2> DEFINE e == HeaderEnd(l, <<>>)
  <2>1. e \in Nat /\ e <= 135 + 2460 * 0 /\ 0 \in 0 .. 16
    BY <1>4
  <2> HIDE DEF e
  <2> QED
    BY <2>1, WithinInspected DEF e
<1>6. s \in Readers /\ s.pos = 32 /\ s.ok = ok /\ s.programs = 0
  BY DEF Readers
<1>7. ok => 32 <= bits
  <2>1. CASE l.size < 65536
    <3>1. PICK size \in Nat : size = l.size
      BY <1>0
    <3>2. bits = 8 * size
      BY <2>1, <3>1 DEF AdifBits, Least
    <3>3. ok => size >= 5
      BY <1>1, <3>1
    <3> HIDE DEF bits
    <3> QED
      BY <3>2, <3>3
  <2>2. CASE ~(l.size < 65536)
    BY <1>0, <1>1, <2>2 DEF AdifBits, Least
  <2> QED
    BY <2>1, <2>2
<1> HIDE DEF s, w, bits
<1>8. /\ AdifStart(l) \in Readers /\ AdifStart(l).programs = 0
      /\ AdifStart(l).ok <=> ok /\ 32 + Total(w) <= bits
      /\ AdifStart(l).ok => AdifStart(l).pos = 32 + Total(w)
  <2> DEFINE r == AdifStart(l)  sum == Total(w)
  <2>1. /\ s \in Readers /\ w \in Seq(Nat) /\ bits \in Nat /\ 32 \in Nat /\ s.pos = 32
        /\ (s.ok => 32 <= bits) /\ r = ReadFields(s, w, bits) /\ Total(w) = sum
    BY <1>2, <1>3, <1>5, <1>6, <1>7
  <2> HIDE DEF r, sum
  <2>2. /\ r \in Readers /\ r.programs = s.programs
        /\ r.ok <=> s.ok /\ 32 + sum <= bits
        /\ r.ok => r.pos = 32 + sum
    BY <2>1, FieldsMove
  <2> QED
    BY <1>6, <2>2 DEF r, sum
<1>9. AdifPrefix(l, <<>>) <=> ok /\ HeaderEnd(l, <<>>) <= 8 * l.size
  <2>1. DOMAIN <<>> = {}
    OBVIOUS
  <2> QED
    BY <1>1, <2>1 DEF AdifPrefix
<1>10. Len(<<>>) = 0 /\ 0 <= l.programs /\ HeaderEnd(l, <<>>) <= 135 + 2460 * Len(<<>>)
  BY <1>4 DEF AdifFiles
<1>11. AdifStart(l).ok <=> AdifPrefix(l, <<>>)
  BY <1>4, <1>5, <1>8, <1>9
<1>12. ~(Len(<<>>) > 0)
  BY <1>10
<1> QED
  <2> DEFINE r == AdifStart(l)
  <2>1. r \in Readers /\ r.programs = Len(<<>>)
    BY <1>8, <1>10
  <2>2. r.ok => r.pos = HeaderEnd(l, <<>>)
    BY <1>4, <1>8
  <2>3. Len(<<>>) <= l.programs
    BY <1>10
  <2> HIDE DEF r
  <2> QED
    BY <1>4, <1>10, <1>11, <1>12, <2>1, <2>2, <2>3 DEF AdifInv, r

(* One program: it is read exactly when all of it lies in the file.         *)
LEMMA ProgramRead ==
  ASSUME NEW l \in AdifFiles, NEW s \in Readers, NEW p \in AdifPrograms, NEW bits \in Nat,
         bits = AdifBits(l), bits % 8 = 0, s.ok, s.pos <= bits
  PROVE  LET r == ParseProgramConfigElement(l, s, p)  e == ProgramEnd(l, s.pos, p) IN
           /\ r \in Readers /\ r.programs = s.programs + 1
           /\ r.ok <=> e <= bits /\ p.rate < 13 /\ p.elements + p.lfe > 0
           /\ r.ok => r.pos = e
<1> DEFINE c == IF l.constantRate THEN 1 ELSE 0
           fields == ProgramFields(p)  tail == <<8, 8 * p.comment>>
           fill == ReadFields(s, Copies(c, 20), bits)
           mid == ReadFields(fill, fields, bits)
           body == AlignToByte(mid)
           comment == ReadFields(body, tail, bits)
           r == ParseProgramConfigElement(l, s, p)
           e == ProgramEnd(l, s.pos, p)
           n == FieldsOf(p)
<1>1. s.pos \in Nat /\ c \in Nat /\ p.comment \in Nat /\ s.programs \in Nat
  BY DEF Readers, AdifPrograms
<1>2. Copies(c, 20) \in Seq(Nat) /\ Total(Copies(c, 20)) = 20 * c
  BY <1>1, TotalCopies
<1>3. fields \in Seq(Nat) /\ Total(fields) = n /\ n \in Nat
  BY TotalProgram
<1>4. tail \in Seq(Nat) /\ Total(tail) = 8 + 8 * p.comment
  <2> DEFINE x == 8 * p.comment
  <2>1. x \in Nat /\ x \in Int /\ <<8>> \in Seq(Int) /\ <<8, x>> = Append(<<8>>, x)
    BY <1>1
  <2>2. Total(<<8>>) = 8
    BY TotalOne
  <2>3. Total(Append(<<8>>, x)) = Total(<<8>>) + x
    BY <2>1, TotalAppend
  <2>4. <<8, x>> \in Seq(Nat)
    BY <2>1
  <2> HIDE DEF x
  <2> QED
    BY <2>1, <2>2, <2>3, <2>4 DEF x
<1>5. e = 8 * ((s.pos + (n + 20 * c) + 7) \div 8) + 8 + 8 * p.comment
  <2>1. PICK mono \in Nat, stereo \in Nat, matrix \in Nat, elements \in Nat, lfe \in Nat,
           assoc \in Nat, cc \in Nat :
        /\ mono = p.mono /\ stereo = p.stereo /\ matrix = p.matrix /\ elements = p.elements
        /\ lfe = p.lfe /\ assoc = p.assoc /\ cc = p.cc
    <3>1. /\ p.mono \in Nat /\ p.stereo \in Nat /\ p.matrix \in Nat /\ p.elements \in Nat
          /\ p.lfe \in Nat /\ p.assoc \in Nat /\ p.cc \in Nat
      BY DEF AdifPrograms
    <3> QED
      BY <3>1, Zenon
  <2>2. n = 34 + 4 * mono + 4 * stereo + 3 * matrix + 5 * elements + 4 * lfe + 4 * assoc + 5 * cc
    BY <2>1, Zenon DEF FieldsOf
  <2>3. e = 8 * ((s.pos + (31 + 3 + 4 * mono + 4 * stereo + 3 * matrix + 5 * elements + 4 * lfe
                     + 4 * assoc + 5 * cc + (IF l.constantRate THEN 20 ELSE 0)) + 7) \div 8)
            + 8 + 8 * p.comment
    BY <2>1, Zenon DEF ProgramEnd
  <2>4. (IF l.constantRate THEN 20 ELSE 0) = 20 * c
    OBVIOUS
  <2> HIDE DEF e, c, n
  <2> QED
    BY <1>1, <2>2, <2>3, <2>4
<1> HIDE DEF c, fields, tail, n
<1>6. /\ fill \in Readers /\ fill.programs = s.programs
      /\ fill.ok <=> s.pos + 20 * c <= bits
      /\ fill.ok => fill.pos = s.pos + 20 * c
  <2> DEFINE at == s.pos  sum == 20 * c  w == Copies(c, 20)
  <2>1. at \in Nat /\ w \in Seq(Nat) /\ Total(w) = sum /\ fill = ReadFields(s, w, bits)
    BY <1>1, <1>2 DEF c
  <2>2. s.pos = at /\ (s.ok => at <= bits)
    OBVIOUS
  <2> HIDE DEF at, sum, w, fill
  <2>3. /\ fill \in Readers /\ fill.programs = s.programs
        /\ fill.ok <=> s.ok /\ at + sum <= bits
        /\ fill.ok => fill.pos = at + sum
    BY <2>1, <2>2, FieldsMove
  <2> QED
    BY <2>3 DEF at, sum
<1> HIDE DEF fill
<1>7. fill.ok => fill.pos <= bits
  BY <1>6
<1>8. /\ mid \in Readers /\ mid.programs = fill.programs
      /\ mid.ok <=> fill.ok /\ fill.pos + n <= bits
      /\ mid.ok => mid.pos = fill.pos + n
  <2> DEFINE at == fill.pos
  <2>1. at \in Nat /\ fill.pos = at /\ (fill.ok => at <= bits) /\ mid = ReadFields(fill, fields, bits)
    BY <1>6, <1>7 DEF Readers
  <2> HIDE DEF at, mid
  <2>2. /\ mid \in Readers /\ mid.programs = fill.programs
        /\ mid.ok <=> fill.ok /\ at + n <= bits
        /\ mid.ok => mid.pos = at + n
    BY <1>3, <1>6, <2>1, FieldsMove
  <2> QED
    BY <2>2 DEF at
<1> HIDE DEF mid
<1>9. /\ mid.ok <=> s.pos + (n + 20 * c) <= bits
      /\ mid.ok => mid.pos = s.pos + (n + 20 * c)
  BY <1>1, <1>3, <1>6, <1>8
<1>10. body \in Readers /\ body.programs = mid.programs /\ body.ok = mid.ok
       /\ body.pos = 8 * ((mid.pos + 7) \div 8)
  <2>1. 8 * ((mid.pos + 7) \div 8) \in Nat
    BY <1>8 DEF Readers
  <2> QED
    BY <1>8, <2>1 DEF AlignToByte, Readers
<1> HIDE DEF body
<1>11. PICK q \in Nat : /\ q = (s.pos + (n + 20 * c) + 7) \div 8
                        /\ s.pos + (n + 20 * c) <= 8 * q /\ 8 * q < s.pos + (n + 20 * c) + 8
  <2>1. PICK m \in Nat : m = s.pos + (n + 20 * c)
    BY <1>1, <1>3
  <2>2. PICK q \in Nat : q = (m + 7) \div 8 /\ 8 * q <= m + 7 /\ m + 7 < 8 * q + 8
    BY <2>1
  <2> QED
    BY <2>1, <2>2
<1>12. PICK b \in Nat : bits = 8 * b
  <2>1. bits = 8 * (bits \div 8) /\ bits \div 8 \in Nat
    OBVIOUS
  <2> QED
    BY <2>1
<1>13. body.ok => body.pos = 8 * q /\ body.pos <= bits
  BY <1>1, <1>3, <1>9, <1>10, <1>11, <1>12
<1>14. /\ comment \in Readers /\ comment.programs = body.programs
       /\ comment.ok <=> body.ok /\ body.pos + (8 + 8 * p.comment) <= bits
       /\ comment.ok => comment.pos = body.pos + (8 + 8 * p.comment)
  <2> DEFINE at == body.pos  sum == 8 + 8 * p.comment
  <2>1. at \in Nat /\ body.pos = at /\ (body.ok => at <= bits) /\ Total(tail) = sum
        /\ comment = ReadFields(body, tail, bits)
    BY <1>4, <1>10, <1>13 DEF Readers
  <2> HIDE DEF at, sum, comment
  <2>2. /\ comment \in Readers /\ comment.programs = body.programs
        /\ comment.ok <=> body.ok /\ at + sum <= bits
        /\ comment.ok => comment.pos = at + sum
    BY <1>4, <1>10, <2>1, FieldsMove
  <2> QED
    BY <2>2 DEF at, sum
<1> HIDE DEF comment
<1>15. e = 8 * q + (8 + 8 * p.comment)
  BY <1>1, <1>5, <1>11
<1> HIDE DEF e
<1>16. (comment.ok <=> e <= bits) /\ (comment.ok => comment.pos = e)
  <2>1. e <= bits => s.pos + (n + 20 * c) <= bits
    <3>1. PICK m \in Nat : m = s.pos + (n + 20 * c)
      <4>1. s.pos + (n + 20 * c) \in Nat
        BY <1>1, <1>3
      <4> QED
        BY <4>1
    <3>2. m <= 8 * q
      BY <1>11, <3>1
    <3>3. PICK v \in Nat : v = p.comment
      BY <1>1
    <3>4. e = 8 * q + (8 + 8 * v)
      BY <1>15, <3>3
    <3>5. e <= bits => m <= bits
      BY <3>2, <3>4
    <3> QED
      BY <3>1, <3>5
  <2> QED
    BY <1>9, <1>10, <1>13, <1>14, <1>15, <2>1
<1>17. PICK ok \in BOOLEAN : ok = (comment.ok /\ p.rate < 13 /\ p.elements + p.lfe > 0)
  OBVIOUS
<1>18. r = [comment EXCEPT !.ok = ok, !.programs = comment.programs + 1]
  BY <1>17 DEF ParseProgramConfigElement, comment, body, mid, fill, fields, tail, c
<1>19. r \in Readers /\ r.ok = ok /\ r.programs = comment.programs + 1 /\ r.pos = comment.pos
  <2>1. comment.programs + 1 \in Nat
    BY <1>14 DEF Readers
  <2>2. PICK a : a = [comment EXCEPT !.ok = ok]
    OBVIOUS
  <2>3. a \in Readers /\ a.ok = ok /\ a.pos = comment.pos
    BY <1>14, <2>2 DEF Readers
  <2>4. r = [a EXCEPT !.programs = comment.programs + 1]
    BY <1>14, <1>18, <2>2 DEF Readers
  <2> QED
    BY <2>1, <2>3, <2>4 DEF Readers
<1> HIDE DEF r
<1>20. r.programs = s.programs + 1
  BY <1>6, <1>8, <1>10, <1>14, <1>19
<1>21. r.ok <=> e <= bits /\ p.rate < 13 /\ p.elements + p.lfe > 0
  BY <1>16, <1>17, <1>19, Zenon
<1>22. r.ok => r.pos = e
  BY <1>16, <1>19, <1>21
<1> QED
  BY <1>19, <1>20, <1>21, <1>22 DEF r, e

LEMMA AdifStepInv ==
  ASSUME NEW l \in AdifFiles, NEW f \in Seq(AdifPrograms), NEW p \in AdifPrograms, NEW s,
         AdifInv(l, s, f), s.ok, s.programs < l.programs
  PROVE  AdifInv(l, ParseProgramConfigElement(l, s, p), Append(f, p))
<1> DEFINE n == Len(f)  g == Append(f, p)  h == HeaderEnd(l, f)  e == HeaderEnd(l, g)
           r == ParseProgramConfigElement(l, s, p)  bits == AdifBits(l)
<1>1. /\ n \in Nat /\ DOMAIN f = 1 .. n /\ Len(g) = n + 1 /\ DOMAIN g = 1 .. n + 1 /\ g[n + 1] = p
      /\ \A i \in 1 .. n : g[i] = f[i]
  BY Appended
<1>2. /\ s \in Readers /\ s.programs = n /\ n < l.programs /\ h \in Nat /\ h <= 135 + 2460 * n
      /\ AdifPrefix(l, f) /\ s.pos = h
  BY DEF AdifInv
<1>3. l.programs \in 1 .. 16 /\ l.size \in Nat
  BY DEF AdifFiles
<1>4. e = ProgramEnd(l, h, p)
  BY HeaderAppend
<1>5. e \in Nat /\ e % 8 = 0 /\ h <= e /\ e <= h + 2460
  BY <1>2, <1>4, EndsOnByte
<1> HIDE DEF h, e
<1>6. n + 1 \in 0 .. 16 /\ n \in 0 .. 16 /\ e <= 135 + 2460 * (n + 1)
  <2>1. PICK k \in 1 .. 16 : k = l.programs
    BY <1>3
  <2>2. n < k
    BY <1>2, <2>1
  <2> HIDE DEF n
  <2> QED
    BY <1>1, <1>2, <1>5, <2>2
<1>7. (e <= 8 * l.size <=> e <= bits) /\ bits \in Nat /\ bits % 8 = 0
  BY <1>5, <1>6, WithinInspected
<1>8. h <= 8 * l.size <=> h <= bits
  BY <1>2, <1>6, WithinInspected
<1>9. l.size >= 5 /\ h <= 8 * l.size /\ \A i \in 1 .. n : f[i].rate < 13 /\ f[i].elements + f[i].lfe > 0
  BY <1>1, <1>2 DEF AdifPrefix, h
<1> HIDE DEF bits
<1>10. /\ r \in Readers /\ r.programs = s.programs + 1
       /\ r.ok <=> e <= bits /\ p.rate < 13 /\ p.elements + p.lfe > 0
       /\ r.ok => r.pos = e
  BY <1>2, <1>4, <1>7, <1>8, <1>9, ProgramRead DEF bits
<1>11. AdifPrefix(l, g) <=> e <= 8 * l.size /\ p.rate < 13 /\ p.elements + p.lfe > 0
  <2>1. \A i : i \in 1 .. n + 1 <=> i \in 1 .. n \/ i = n + 1
    BY <1>1
  <2> HIDE DEF g, n
  <2> QED
    BY <1>1, <1>9, <2>1 DEF AdifPrefix, e
<1>12. Len(g) <= l.programs
  <2>1. PICK k \in 1 .. 16 : k = l.programs
    BY <1>3
  <2>2. n < k
    BY <1>2, <2>1
  <2> HIDE DEF n
  <2>3. n + 1 <= k
    BY <1>1, <2>2
  <2> QED
    BY <1>1, <2>1, <2>3
<1> HIDE DEF r, g, n
<1>13. AdifInv(l, r, g)
  <2>1. r.programs = Len(g)
    BY <1>1, <1>2, <1>10
  <2>2. e <= 135 + 2460 * Len(g)
    BY <1>1, <1>6
  <2>3. r.ok <=> AdifPrefix(l, g)
    BY <1>7, <1>10, <1>11
  <2> QED
    BY <1>5, <1>10, <1>12, <2>1, <2>2, <2>3 DEF AdifInv, e
<1> QED
  BY <1>13 DEF r, g

LEMMA AdifVerdict ==
  ASSUME NEW l \in AdifFiles, NEW f \in Seq(AdifPrograms), NEW s, AdifInv(l, s, f)
  PROVE  /\ s.ok <=> AdifPrefix(l, f)
         /\ s.ok => s.pos = HeaderEnd(l, f)
         /\ AdifAccepts(l, s) <=>
              AdifPrefix(l, f) /\ Len(f) = l.programs /\ HeaderEnd(l, f) < 8 * l.size
<1> DEFINE e == HeaderEnd(l, f)
<1>1. /\ s.programs = Len(f) /\ Len(f) \in Nat /\ l.programs \in 1 .. 16 /\ l.size \in Nat
      /\ e \in Nat /\ (Len(f) > 0 => e % 8 = 0)
      /\ (s.ok <=> AdifPrefix(l, f)) /\ (s.ok => s.pos = e)
  BY DEF AdifInv, AdifFiles
<1> HIDE DEF e
<1>2. ASSUME Len(f) = l.programs PROVE (e + 7) \div 8 < l.size <=> e < 8 * l.size
  <2>1. e % 8 = 0
    BY <1>1, <1>2
  <2>2. PICK q \in Nat : e = 8 * q
    <3>1. e = 8 * (e \div 8) /\ e \div 8 \in Nat
      BY <1>1, <2>1
    <3> QED
      BY <3>1
  <2>3. (e + 7) \div 8 = q
    BY <2>2
  <2> QED
    BY <1>1, <2>2, <2>3
<1>3. AdifAccepts(l, s) <=> AdifPrefix(l, f) /\ Len(f) = l.programs /\ e < 8 * l.size
  BY <1>1, <1>2 DEF AdifAccepts
<1> QED
  BY <1>1, <1>3 DEF e

-----------------------------------------------------------------------------
(***************************************************************************)
(* Opus.  Recursive functions of a position, and flattened sequences.      *)
(***************************************************************************)
Steps(h, n, V, base, F) ==
  /\ h \in [0 .. n -> V]
  /\ h[0] = base /\ \A k \in 1 .. n : h[k] = F[<<k, h[k - 1]>>]

LEMMA StepsExist ==
  ASSUME NEW n \in Nat, NEW V, NEW base \in V, NEW F \in [(1 .. n) \X V -> V]
  PROVE  \E h : Steps(h, n, V, base, F)
<1>1. PICK g : Folds(g, n, V, base, F)
  BY FoldExists
<1>2. /\ g \in [SUBSET (1 .. n) -> V]
      /\ \A z \in SUBSET (1 .. n) : g[z] = IF z = {} THEN base ELSE F[<<Max(z), g[z \ {Max(z)}]>>]
  BY <1>1 DEF Folds
<1> DEFINE h == [k \in 0 .. n |-> g[1 .. k]]
<1>3. h \in [0 .. n -> V]
  <2>1. \A k \in 0 .. n : 1 .. k \in SUBSET (1 .. n)
    OBVIOUS
  <2> QED
    BY <1>2, <2>1
<1>4. h[0] = base
  <2>1. 1 .. 0 = {} /\ {} \in SUBSET (1 .. n) /\ 0 \in 0 .. n
    OBVIOUS
  <2>2. g[{}] = base
    BY <1>2, <2>1
  <2> QED
    BY <2>1, <2>2
<1>5. ASSUME NEW k \in 1 .. n PROVE h[k] = F[<<k, h[k - 1]>>]
  <2>1. 1 .. k \in SUBSET (1 .. n) /\ k \in 1 .. k /\ 1 .. k # {}
    OBVIOUS
  <2>2. Max(1 .. k) \in 1 .. k /\ k <= Max(1 .. k)
    BY <2>1, MaxOf
  <2>3. Max(1 .. k) = k /\ (1 .. k) \ {k} = 1 .. k - 1
    BY <2>2
  <2>4. g[1 .. k] = F[<<k, g[1 .. k - 1]>>]
    BY <1>2, <2>1, <2>3
  <2>5. k \in 0 .. n /\ k - 1 \in 0 .. n
    OBVIOUS
  <2> QED
    BY <2>4, <2>5
<1> HIDE DEF h
<1> QED
  BY <1>3, <1>4, <1>5 DEF Steps

Flattens(h, ss) ==
  h[0] = <<>> /\ \A k \in 1 .. Len(ss) : h[k] = h[k - 1] \o ss[k]

LEMMA Flattened ==
  ASSUME NEW S, NEW ss \in Seq(Seq(S))
  PROVE  \E h \in [0 .. Len(ss) -> Seq(S)] : Flattens(h, ss) /\ FlattenSeq(ss) = h[Len(ss)]
<1> DEFINE n == Len(ss)  V == Seq(S)
           F == [y \in (1 .. n) \X V |-> y[2] \o ss[y[1]]]
<1>1. n \in Nat /\ DOMAIN ss = 1 .. n /\ \A i \in 1 .. n : ss[i] \in V
  BY LenProperties, ElementOfSeq
<1>2. \A a, b \in V : a \o b \in V /\ <<>> \o a = a /\ <<>> \in V
  BY ConcatProperties, EmptySeq, ConcatEmptySeq
<1> HIDE DEF V, n
<1>3. F \in [(1 .. n) \X V -> V]
  <2>1. \A y \in (1 .. n) \X V : y[1] \in 1 .. n /\ y[2] \in V
    OBVIOUS
  <2> QED
    BY <1>1, <1>2, <2>1
<1>4. <<>> \in V
  BY EmptySeq DEF V
<1>5. PICK h \in [0 .. n -> V] : h[0] = <<>> /\ \A k \in 1 .. n : h[k] = F[<<k, h[k - 1]>>]
  <2> DEFINE base == <<>>
  <2>1. base \in V
    BY <1>4
  <2> HIDE DEF F, base
  <2>2. \E h : Steps(h, n, V, base, F)
    BY <1>1, <1>3, <2>1, StepsExist, Zenon
  <2> QED
    BY <2>2 DEF base, Steps
<1>6. ASSUME NEW k \in 1 .. n PROVE h[k] = h[k - 1] \o ss[k]
  <2>1. k - 1 \in 0 .. n /\ <<k, h[k - 1]>> \in (1 .. n) \X V
    BY <1>1, <1>5
  <2>2. F[<<k, h[k - 1]>>] = h[k - 1] \o ss[k]
    BY <2>1
  <2> HIDE DEF F
  <2> QED
    BY <1>5, <2>2
<1>7. CASE n = 0
  <2>1. ss = <<>>
    BY <1>7, EmptySeq DEF n
  <2>2. FlattenSeq(ss) = h[n]
    BY <1>5, <1>7, <2>1 DEF FlattenSeq
  <2> QED
    BY <1>5, <1>6, <2>2 DEF Flattens, n, V
<1>8. CASE n # 0
  <2> DEFINE P(g) == g = [i \in 1 .. n |-> IF i = 1 THEN ss[i] ELSE g[i - 1] \o ss[i]]
             c == [i \in 1 .. n |-> h[i]]
             t == CHOOSE g : P(g)
  <2>1. P(c)
    <3>1. ASSUME NEW i \in 1 .. n PROVE c[i] = IF i = 1 THEN ss[i] ELSE c[i - 1] \o ss[i]
      <4>1. CASE i = 1
        <5>1. h[1] = h[0] \o ss[1] /\ ss[1] \in V
          BY <1>1, <1>6, <4>1
        <5> QED
          BY <1>2, <1>5, <4>1, <5>1
      <4>2. CASE i # 1
        <5>1. i - 1 \in 1 .. n
          BY <1>1, <4>2
        <5> QED
          BY <1>6, <4>2, <5>1
      <4> QED
        BY <4>1, <4>2
    <3> HIDE DEF c
    <3>2. c = [i \in 1 .. n |-> c[i]]
      BY DEF c
    <3> QED
      BY <3>1, <3>2
  <2>2. P(t)
    <3> HIDE DEF c, P
    <3> QED
      BY <2>1
  <2>3. FlattenSeq(ss) = t[n]
    BY <1>8 DEF FlattenSeq, n
  <2> HIDE DEF t
  <2>4. ASSUME NEW i \in 1 .. n PROVE t[i] = IF i = 1 THEN ss[i] ELSE t[i - 1] \o ss[i]
    BY <2>2
  <2> DEFINE K == {k \in 0 .. n : k = 0 \/ t[k] = h[k]}
  <2>5. 0 \in K
    BY <1>1
  <2>6. ASSUME NEW k \in 1 .. n, k - 1 \in K PROVE k \in K
    <3>1. CASE k = 1
      <4>1. h[1] = h[0] \o ss[1] /\ ss[1] \in V
        BY <1>1, <1>6, <3>1
      <4>2. t[1] = ss[1] /\ k \in 0 .. n
        BY <1>1, <2>4, <3>1
      <4> QED
        BY <1>2, <1>5, <3>1, <4>1, <4>2
    <3>2. CASE k # 1
      <4>1. t[k - 1] = h[k - 1]
        <5>1. k - 1 # 0
          BY <1>1, <3>2
        <5> QED
          BY <2>6, <5>1
      <4>2. t[k] = t[k - 1] \o ss[k]
        BY <2>4, <3>2
      <4>3. h[k] = h[k - 1] \o ss[k]
        BY <1>6
      <4>4. k \in 0 .. n
        BY <1>1
      <4> QED
        BY <4>1, <4>2, <4>3, <4>4
    <3> QED
      BY <3>1, <3>2
  <2> HIDE DEF K
  <2>7. n \in K
    <3>1. \A k \in 0 .. n : k \in K
      BY <1>1, <2>5, <2>6, UpTo
    <3> QED
      BY <1>1, <3>1
  <2>8. FlattenSeq(ss) = h[n]
    BY <1>8, <2>3, <2>7 DEF K
  <2> QED
    BY <1>5, <1>6, <2>8 DEF Flattens, n, V
<1> QED
  BY <1>7, <1>8

LEMMA FlattenAppend ==
  ASSUME NEW S, NEW ss \in Seq(Seq(S)), NEW x \in Seq(S)
  PROVE  /\ FlattenSeq(<<>>) = <<>> /\ FlattenSeq(ss) \in Seq(S)
         /\ FlattenSeq(Append(ss, x)) = FlattenSeq(ss) \o x
<1> DEFINE n == Len(ss)  e == Append(ss, x)
<1>1. /\ n \in Nat /\ Len(e) = n + 1 /\ e \in Seq(Seq(S)) /\ e[n + 1] = x
      /\ \A i \in 1 .. n : e[i] = ss[i]
  BY Appended
<1>2. PICK g \in [0 .. n -> Seq(S)] : Flattens(g, ss) /\ FlattenSeq(ss) = g[n]
  BY Flattened
<1> HIDE DEF e
<1>3. PICK h \in [0 .. n + 1 -> Seq(S)] : Flattens(h, e) /\ FlattenSeq(e) = h[n + 1]
  BY <1>1, Flattened
<1> HIDE DEF n
<1>4. \A k \in 1 .. n : g[k] = g[k - 1] \o ss[k]
  BY <1>2 DEF Flattens, n
<1>5. \A k \in 1 .. n + 1 : h[k] = h[k - 1] \o e[k]
  BY <1>1, <1>3 DEF Flattens
<1>6. g[0] = h[0]
  BY <1>2, <1>3 DEF Flattens
<1>7. g[n] = h[n]
  <2> DEFINE K == {k \in 0 .. n : g[k] = h[k]}
  <2>1. 0 \in K
    BY <1>1, <1>6
  <2>2. ASSUME NEW k \in 1 .. n, k - 1 \in K PROVE k \in K
    <3>1. g[k - 1] = h[k - 1] /\ e[k] = ss[k] /\ k \in 1 .. n + 1 /\ k \in 0 .. n
      BY <1>1, <2>2
    <3> QED
      BY <1>4, <1>5, <3>1
  <2> HIDE DEF K
  <2>3. \A k \in 0 .. n : k \in K
    BY <1>1, <2>1, <2>2, UpTo
  <2> QED
    BY <1>1, <2>3 DEF K
<1>8. h[n + 1] = h[n] \o x
  <2>1. n + 1 \in 1 .. n + 1 /\ (n + 1) - 1 = n
    BY <1>1
  <2> QED
    BY <1>1, <1>5, <2>1
<1>9. FlattenSeq(<<>>) = <<>>
  BY DEF FlattenSeq
<1>10. FlattenSeq(ss) \in Seq(S)
  BY <1>1, <1>2
<1> QED
  BY <1>2, <1>3, <1>7, <1>8, <1>9, <1>10 DEF e

PageLacing == [p \in OggPages |-> p.lacing]

LEMMA LacingAppend ==
  ASSUME NEW g \in Seq(OggPages), NEW p \in OggPages
  PROVE  Lacing(g) \in Seq(Nat) /\ Lacing(Append(g, p)) = Lacing(g) \o p.lacing
<1> DEFINE e == Append(g, p)
<1>1. Table(PageLacing, OggPages, Seq(Nat)) /\ PageLacing[p] = p.lacing /\ p.lacing \in Seq(Nat)
  BY DEF Table, PageLacing, OggPages
<1>2. /\ Lengths(PageLacing, g) \in Seq(Seq(Nat))
      /\ Lengths(PageLacing, e) = Append(Lengths(PageLacing, g), PageLacing[p])
  BY <1>1, MapAppend
<1>3. ASSUME NEW f \in Seq(OggPages) PROVE Lacing(f) = FlattenSeq(Lengths(PageLacing, f))
  <2>1. \A k \in DOMAIN f : f[k] \in OggPages
    BY LenProperties, ElementOfSeq
  <2>2. [k \in DOMAIN f |-> f[k].lacing] = Lengths(PageLacing, f)
    BY <2>1 DEF Lengths, PageLacing
  <2> QED
    BY <2>2 DEF Lacing
<1>4. e \in Seq(OggPages)
  BY Appended
<1> DEFINE ss == Lengths(PageLacing, g)
<1> HIDE DEF e, ss
<1>5. FlattenSeq(ss) \in Seq(Nat) /\ FlattenSeq(Append(ss, p.lacing)) = FlattenSeq(ss) \o p.lacing
  BY <1>1, <1>2, FlattenAppend DEF ss
<1>6. Lacing(g) = FlattenSeq(ss) /\ Lacing(e) = FlattenSeq(Append(ss, p.lacing))
  BY <1>1, <1>2, <1>3, <1>4 DEF ss
<1> QED
  BY <1>5, <1>6 DEF e

LEMMA LacingEmpty == Lacing(<<>>) = <<>>
<1>1. [k \in DOMAIN <<>> |-> <<>>[k].lacing] = <<>>
  OBVIOUS
<1> QED
  BY <1>1 DEF Lacing, FlattenSeq

LEMMA Joined ==
  ASSUME NEW a \in Seq(Nat), NEW b \in Seq(Nat)
  PROVE  /\ a \o b \in Seq(Nat) /\ Len(a) \in Nat /\ Len(b) \in Nat
         /\ Len(a \o b) = Len(a) + Len(b) /\ DOMAIN (a \o b) = 1 .. Len(a) + Len(b)
         /\ DOMAIN a = 1 .. Len(a) /\ DOMAIN b = 1 .. Len(b)
         /\ \A i \in 1 .. Len(a) : (a \o b)[i] = a[i] /\ a[i] \in Nat
         /\ \A i \in 1 .. Len(b) : (a \o b)[Len(a) + i] = b[i] /\ b[i] \in Nat
<1> DEFINE c == a \o b  m == Len(a)  n == Len(b)
<1>1. m \in Nat /\ n \in Nat /\ DOMAIN a = 1 .. m /\ DOMAIN b = 1 .. n
  BY LenProperties
<1>2. (\A i \in 1 .. m : a[i] \in Nat) /\ (\A i \in 1 .. n : b[i] \in Nat)
  BY ElementOfSeq
<1>3. /\ c \in Seq(Nat) /\ Len(c) = m + n
      /\ \A i \in 1 .. m + n : c[i] = IF i <= m THEN a[i] ELSE b[i - m]
  BY ConcatProperties
<1>4. DOMAIN c = 1 .. m + n
  BY <1>3, LenProperties
<1> HIDE DEF c, m, n
<1>5. \A i \in 1 .. m : c[i] = a[i]
  BY <1>1, <1>3
<1>6. ASSUME NEW i \in 1 .. n PROVE c[m + i] = b[i]
  <2>1. m + i \in 1 .. m + n /\ ~(m + i <= m) /\ (m + i) - m = i
    BY <1>1
  <2> QED
    BY <1>3, <2>1
<1> QED
  BY <1>1, <1>2, <1>3, <1>4, <1>5, <1>6 DEF c, m, n

LEMMA TerminatorsCount ==
  ASSUME NEW a \in Seq(Nat)
  PROVE  IsFiniteSet(Terminators(a)) /\ Cardinality(Terminators(a)) \in Nat
<1>1. Terminators(a) \in SUBSET (1 .. Len(a)) /\ Len(a) \in Nat
  BY LenProperties DEF Terminators
<1>2. IsFiniteSet(1 .. Len(a))
  BY <1>1, FS_Interval
<1>3. IsFiniteSet(Terminators(a))
  BY <1>1, <1>2, FS_Subset
<1> QED
  BY <1>3, FS_CardinalityType

(* The packets that end in two stretches are those of each.                 *)
LEMMA TerminatorsJoined ==
  ASSUME NEW a \in Seq(Nat), NEW b \in Seq(Nat)
  PROVE  Cardinality(Terminators(a \o b)) =
           Cardinality(Terminators(a)) + Cardinality(Terminators(b))
<1> DEFINE A == Terminators(a)  B == Terminators(b)  C == Terminators(a \o b)
           m == Len(a)  n == Len(b)
           D == {k \in C : k > m}
           f == [i \in B |-> m + i]
<1>1. /\ m \in Nat /\ n \in Nat /\ DOMAIN (a \o b) = 1 .. m + n /\ DOMAIN a = 1 .. m
      /\ DOMAIN b = 1 .. n
      /\ \A i \in 1 .. m : (a \o b)[i] = a[i]
      /\ \A i \in 1 .. n : (a \o b)[m + i] = b[i]
  BY Joined
<1>2. C = A \cup D /\ A \cap D = {}
  <2>1. ASSUME NEW k PROVE k \in C <=> k \in A \/ k \in D
    BY <1>1 DEF Terminators
  <2>2. A \cap D = {}
    BY <1>1 DEF Terminators
  <2> QED
    BY <2>1, <2>2
<1>3. IsFiniteSet(A) /\ IsFiniteSet(B) /\ Cardinality(A) \in Nat /\ Cardinality(B) \in Nat
  BY TerminatorsCount
<1>4. f \in [B -> D]
  <2>1. ASSUME NEW i \in B PROVE m + i \in D
    <3>1. i \in 1 .. n /\ b[i] # 255
      BY <1>1 DEF Terminators
    <3>2. m + i \in 1 .. m + n /\ m + i > m
      BY <1>1, <3>1
    <3> QED
      BY <1>1, <3>1, <3>2 DEF Terminators
  <2> QED
    BY <2>1
<1>5. \A i, j \in B : f[i] = f[j] => i = j
  BY <1>1 DEF Terminators
<1>6. \A k \in D : \E i \in B : f[i] = k
  <2> SUFFICES ASSUME NEW k \in D PROVE \E i \in B : f[i] = k
    OBVIOUS
  <2>1. k \in 1 .. m + n /\ k > m /\ (a \o b)[k] # 255
    BY <1>1 DEF Terminators
  <2>2. k - m \in 1 .. n /\ m + (k - m) = k
    BY <1>1, <2>1
  <2>3. k - m \in B
    BY <1>1, <2>1, <2>2 DEF Terminators
  <2> QED
    BY <2>2, <2>3
<1>7. ExistsBijection(B, D)
  <2> HIDE DEF f, B, D
  <2> QED
    BY <1>4, <1>5, <1>6 DEF ExistsBijection, Bijection, Injection, Surjection, IsInjective
<1>8. IsFiniteSet(D) /\ Cardinality(D) = Cardinality(B)
  BY <1>3, <1>7, FS_Bijection
<1> HIDE DEF A, B, C, D
<1>9. Cardinality(A \cup D) = Cardinality(A) + Cardinality(D) - Cardinality(A \cap D)
  BY <1>3, <1>8, FS_Union
<1>10. Cardinality({}) = 0
  BY FS_EmptySet
<1>11. Cardinality(C) = Cardinality(A) + Cardinality(B)
  <2>1. Cardinality(C) = Cardinality(A) + Cardinality(B) - 0
    BY <1>2, <1>8, <1>9, <1>10
  <2> QED
    BY <1>3, <2>1
<1> QED
  BY <1>11 DEF A, B, C

(* Bytes of the packet in hand, segment by segment.                         *)
LEMMA Carried ==
  ASSUME NEW s, s.packetBytes \in Nat, NEW p \in OggPages
  PROVE  LET c == PacketBytes(s, p) IN
           /\ c[0] = s.packetBytes
           /\ \A i \in 1 .. Segments(p) :
                c[i] \in Nat /\ c[i] = (IF i - 1 \in Ends(p) THEN 0 ELSE c[i - 1]) + p.lacing[i]
<1> DEFINE n == Segments(p)  w == p.lacing  E == Ends(p)
           F == [y \in (1 .. n) \X Nat |-> (IF y[1] - 1 \in E THEN 0 ELSE y[2]) + w[y[1]]]
           P(g) == g = [i \in 0 .. n |-> IF i = 0 THEN s.packetBytes
                                         ELSE (IF i - 1 \in E THEN 0 ELSE g[i - 1]) + w[i]]
           c == PacketBytes(s, p)
<1>1. n \in Nat /\ \A i \in 1 .. n : w[i] \in Nat
  <2>1. w \in Seq(Nat)
    BY DEF OggPages
  <2> QED
    BY <2>1, LenProperties, ElementOfSeq DEF Segments
<1>2. c = CHOOSE g : P(g)
  BY DEF PacketBytes
<1> HIDE DEF n, w, E, c
<1>3. F \in [(1 .. n) \X Nat -> Nat]
  <2>1. ASSUME NEW y \in (1 .. n) \X Nat PROVE (IF y[1] - 1 \in E THEN 0 ELSE y[2]) + w[y[1]] \in Nat
    <3>1. y[1] \in 1 .. n /\ y[2] \in Nat /\ w[y[1]] \in Nat
      BY <1>1
    <3> QED
      BY <3>1
  <2> QED
    BY <2>1
<1>4. PICK h : Steps(h, n, Nat, s.packetBytes, F)
  <2> HIDE DEF F
  <2> QED
    BY <1>1, <1>3, StepsExist, Zenon
<1>5. h \in [0 .. n -> Nat] /\ h[0] = s.packetBytes
  BY <1>4 DEF Steps
<1>6. ASSUME NEW i \in 1 .. n PROVE h[i] = (IF i - 1 \in E THEN 0 ELSE h[i - 1]) + w[i]
  <2>1. i - 1 \in 0 .. n /\ <<i, h[i - 1]>> \in (1 .. n) \X Nat
    BY <1>1, <1>5
  <2>2. h[i] = F[<<i, h[i - 1]>>]
    BY <1>4 DEF Steps
  <2>3. F[<<i, h[i - 1]>>] = (IF i - 1 \in E THEN 0 ELSE h[i - 1]) + w[i]
    BY <2>1
  <2> HIDE DEF F
  <2> QED
    BY <2>2, <2>3
<1>7. P(h)
  <2>1. ASSUME NEW i \in 0 .. n
        PROVE  h[i] = IF i = 0 THEN s.packetBytes ELSE (IF i - 1 \in E THEN 0 ELSE h[i - 1]) + w[i]
    <3>1. CASE i = 0
      BY <1>5, <3>1
    <3>2. CASE i # 0
      <4>1. i \in 1 .. n
        BY <1>1, <3>2
      <4> QED
        BY <1>6, <3>2, <4>1
    <3> QED
      BY <3>1, <3>2
  <2>2. h = [i \in 0 .. n |-> h[i]]
    BY <1>5
  <2> QED
    BY <2>1, <2>2
<1>8. P(c)
  <2> HIDE DEF P
  <2> QED
    BY <1>2, <1>7
<1>9. /\ c[0] = s.packetBytes
      /\ \A i \in 1 .. n : c[i] = (IF i - 1 \in E THEN 0 ELSE c[i - 1]) + w[i]
  <2>1. 0 \in 0 .. n
    BY <1>1
  <2>2. c[0] = s.packetBytes
    BY <1>8, <2>1
  <2>3. ASSUME NEW i \in 1 .. n PROVE c[i] = (IF i - 1 \in E THEN 0 ELSE c[i - 1]) + w[i]
    <3>1. i \in 0 .. n /\ i # 0
      BY <1>1
    <3> QED
      BY <1>8, <3>1
  <2> QED
    BY <2>2, <2>3
<1>10. \A i \in 0 .. n : c[i] \in Nat
  <2> DEFINE K == {k \in 0 .. n : c[k] \in Nat}
  <2>1. 0 \in K
    BY <1>1, <1>9
  <2>2. ASSUME NEW k \in 1 .. n, k - 1 \in K PROVE k \in K
    <3>1. c[k - 1] \in Nat /\ w[k] \in Nat /\ k \in 0 .. n
      BY <1>1, <2>2
    <3>2. c[k] = (IF k - 1 \in E THEN 0 ELSE c[k - 1]) + w[k]
      BY <1>9
    <3> QED
      BY <3>1, <3>2
  <2> HIDE DEF K
  <2>3. \A k \in 0 .. n : k \in K
    BY <1>1, <2>1, <2>2, UpTo
  <2> QED
    BY <2>3 DEF K
<1>11. \A i \in 1 .. n : c[i] \in Nat
  BY <1>1, <1>10
<1> QED
  BY <1>9, <1>11 DEF c, n, E, w

(* bytes is what a packet still open at the end of the lacing has so far.   *)
OpenBytes(lacing, bytes) ==
  \E m \in 0 .. Len(lacing) :
    /\ m > 0 => lacing[m] # 255
    /\ \A k \in m + 1 .. Len(lacing) : lacing[k] = 255
    /\ bytes = 255 * (Len(lacing) - m)

(* The packet that segment x of a lacing belongs to starts after segment m. *)
RunFrom(w, m, x, bytes) ==
  /\ m \in 0 .. x - 1
  /\ m > 0 => w[m] # 255
  /\ \A k \in m + 1 .. x - 1 : w[k] = 255
  /\ bytes = 255 * (x - 1 - m) + w[x]

LEMMA RunsCarried ==
  ASSUME NEW a \in Seq(Nat), NEW s, s.packetBytes \in Nat, OpenBytes(a, s.packetBytes),
         NEW p \in OggPages, NEW i \in 1 .. Segments(p)
  PROVE  \E m : RunFrom(a \o p.lacing, m, Len(a) + i, PacketBytes(s, p)[i])
<1> DEFINE b == p.lacing  w == a \o b  l == Len(a)  n == Segments(p)  c == PacketBytes(s, p)
           K == {k \in 0 .. n : k = 0 \/ \E m : RunFrom(w, m, l + k, c[k])}
<1>1. b \in Seq(Nat) /\ Len(b) = n
  BY DEF OggPages, Segments
<1>2. /\ l \in Nat /\ n \in Nat /\ DOMAIN b = 1 .. n
      /\ \A k \in 1 .. l : w[k] = a[k]
      /\ \A k \in 1 .. n : w[l + k] = b[k] /\ b[k] \in Nat
  BY <1>1, Joined
<1>3. c[0] = s.packetBytes /\ \A k \in 1 .. n : c[k] = (IF k - 1 \in Ends(p) THEN 0 ELSE c[k - 1]) + b[k]
  BY Carried
<1>4. \A k \in 1 .. n : k \in Ends(p) <=> b[k] # 255
  BY <1>2 DEF Ends, Terminators
<1>5. 0 \notin Ends(p)
  BY <1>2 DEF Ends, Terminators
<1> HIDE DEF b, w, l, n, c
<1>6. ASSUME NEW k \in 1 .. n, k - 1 \in K PROVE k \in K
  <2>1. CASE k = 1
    <3>1. PICK m \in 0 .. l : /\ m > 0 => a[m] # 255
                              /\ \A j \in m + 1 .. l : a[j] = 255
                              /\ s.packetBytes = 255 * (l - m)
      BY DEF OpenBytes, l
    <3>2. c[1] = s.packetBytes + b[1] /\ w[l + 1] = b[1] /\ b[1] \in Nat
      BY <1>2, <1>3, <1>5, <2>1
    <3>3. m \in 0 .. (l + 1) - 1 /\ (l + 1) - 1 - m = l - m /\ (l + 1) - 1 = l
      BY <1>2
    <3>4. (m > 0 => w[m] # 255) /\ \A j \in m + 1 .. l : w[j] = 255
      <4>1. m > 0 => m \in 1 .. l
        BY <1>2
      <4>2. \A j \in m + 1 .. l : j \in 1 .. l
        BY <1>2
      <4> QED
        BY <1>2, <3>1, <4>1, <4>2
    <3>5. c[1] = 255 * ((l + 1) - 1 - m) + w[l + 1]
      BY <3>1, <3>2, <3>3
    <3>6. RunFrom(w, m, l + 1, c[1])
      BY <3>3, <3>4, <3>5 DEF RunFrom
    <3> QED
      BY <1>2, <2>1, <3>6
  <2>2. CASE k # 1
    <3> DEFINE x == l + (k - 1)
    <3>1. k - 1 \in 1 .. n /\ k \in 0 .. n
      BY <1>2, <2>2
    <3>2. PICK m : RunFrom(w, m, x, c[k - 1])
      BY <1>6, <3>1
    <3>3. x \in Nat /\ l + k = x + 1 /\ (x + 1) - 1 = x
      BY <1>2
    <3> HIDE DEF x
    <3>4. /\ m \in 0 .. x - 1 /\ (m > 0 => w[m] # 255)
          /\ (\A j \in m + 1 .. x - 1 : w[j] = 255) /\ c[k - 1] = 255 * (x - 1 - m) + w[x]
      BY <3>2 DEF RunFrom
    <3>5. w[x] = b[k - 1] /\ b[k - 1] \in Nat /\ w[x + 1] = b[k] /\ b[k] \in Nat
      BY <1>2, <3>1, <3>3 DEF x
    <3>6. c[k] = (IF k - 1 \in Ends(p) THEN 0 ELSE c[k - 1]) + b[k]
      BY <1>3
    <3>7. CASE k - 1 \in Ends(p)
      <4>1. w[x] # 255 /\ c[k] = b[k]
        BY <1>4, <3>1, <3>5, <3>6, <3>7
      <4>2. RunFrom(w, x, x + 1, c[k])
        BY <3>3, <3>5, <4>1 DEF RunFrom
      <4> QED
        BY <3>1, <3>3, <4>2
    <3>8. CASE k - 1 \notin Ends(p)
      <4>1. w[x] = 255 /\ c[k] = c[k - 1] + b[k]
        BY <1>4, <3>1, <3>5, <3>6, <3>8
      <4>2. m \in 0 .. (x + 1) - 1
        BY <3>3, <3>4
      <4>3. \A j \in m + 1 .. (x + 1) - 1 : w[j] = 255
        BY <3>3, <3>4, <4>1
      <4>4. c[k] = 255 * ((x + 1) - 1 - m) + w[x + 1]
        BY <3>3, <3>4, <3>5, <4>1
      <4>5. RunFrom(w, m, x + 1, c[k])
        BY <3>4, <4>2, <4>3, <4>4 DEF RunFrom
      <4> QED
        BY <3>1, <3>3, <4>5
    <3> QED
      BY <3>7, <3>8
  <2> QED
    BY <2>1, <2>2
<1>7. 0 \in K
  BY <1>2
<1> HIDE DEF K
<1>8. \A k \in 0 .. n : k \in K
  BY <1>2, <1>6, <1>7, UpTo
<1>9. i \in 0 .. n /\ i # 0 /\ i \in 1 .. n
  BY <1>2 DEF n
<1>10. \E m : RunFrom(w, m, l + i, c[i])
  BY <1>8, <1>9 DEF K
<1> QED
  BY <1>10 DEF w, b, l, c

RunFits(w, i, j, limit) ==
  (\A k \in i .. j - 1 : w[k] = 255) => 255 * (j - i) + w[j] <= limit

LEMMA RunWithin ==
  ASSUME NEW w, NEW limit
  PROVE  PacketsWithin(w, limit) <=> \A j \in DOMAIN w : \A i \in 1 .. j : RunFits(w, i, j, limit)
  BY DEF PacketsWithin, RunFits

(* Packets stay within a limit exactly when the bytes in hand always do.    *)
LEMMA RunsWithin ==
  ASSUME NEW a \in Seq(Nat), NEW s, s.packetBytes \in Nat, OpenBytes(a, s.packetBytes),
         NEW p \in OggPages, NEW limit \in Nat
  PROVE  PacketsWithin(a \o p.lacing, limit) <=>
           PacketsWithin(a, limit) /\ \A i \in DOMAIN p.lacing : PacketBytes(s, p)[i] <= limit
<1> DEFINE b == p.lacing  w == a \o b  l == Len(a)  n == Segments(p)  c == PacketBytes(s, p)
<1>1. b \in Seq(Nat) /\ Len(b) = n
  BY DEF OggPages, Segments
<1> HIDE DEF b
<1>2. /\ l \in Nat /\ n \in Nat /\ DOMAIN b = 1 .. n /\ DOMAIN a = 1 .. l /\ DOMAIN w = 1 .. l + n
      /\ \A k \in 1 .. l : w[k] = a[k] /\ a[k] \in Nat
      /\ \A k \in 1 .. n : w[l + k] = b[k] /\ b[k] \in Nat
  BY <1>1, Joined
<1>3. \A i \in 1 .. n : c[i] \in Nat /\ \E m : RunFrom(w, m, l + i, c[i])
  BY RunsCarried, Carried DEF b
<1> HIDE DEF b, w, l, n, c
<1>7. PacketsWithin(w, limit) <=>
        \A j \in 1 .. l + n : \A i \in 1 .. j : RunFits(w, i, j, limit)
  BY <1>2, RunWithin
<1>8. PacketsWithin(a, limit) <=>
        \A j \in 1 .. l : \A i \in 1 .. j : RunFits(a, i, j, limit)
  BY <1>2, RunWithin
<1>4. ASSUME PacketsWithin(w, limit)
      PROVE  PacketsWithin(a, limit) /\ \A i \in 1 .. n : c[i] <= limit
  <2>1. ASSUME NEW j \in 1 .. l, NEW i \in 1 .. j, \A k \in i .. j - 1 : a[k] = 255
        PROVE  255 * (j - i) + a[j] <= limit
    <3>1. j \in 1 .. l + n /\ w[j] = a[j]
      BY <1>2
    <3>2. \A k \in i .. j - 1 : w[k] = 255
      <4>1. \A k \in i .. j - 1 : k \in 1 .. l
        BY <1>2
      <4> QED
        BY <1>2, <2>1, <4>1
    <3>3. RunFits(w, i, j, limit)
      BY <1>4, <1>7, <3>1
    <3>4. 255 * (j - i) + w[j] <= limit
      BY <3>2, <3>3 DEF RunFits
    <3> QED
      BY <3>1, <3>4
  <2>2. ASSUME NEW i \in 1 .. n PROVE c[i] <= limit
    <3>1. PICK m : RunFrom(w, m, l + i, c[i])
      BY <1>3
    <3>2. PICK x \in Nat : x = l + i
      BY <1>2
    <3>3. /\ m \in 0 .. x - 1 /\ (\A k \in m + 1 .. x - 1 : w[k] = 255)
          /\ c[i] = 255 * (x - 1 - m) + w[x]
      BY <3>1, <3>2 DEF RunFrom
    <3>4. x \in 1 .. l + n /\ m + 1 \in 1 .. x /\ x - (m + 1) = x - 1 - m
      BY <1>2, <3>2, <3>3
    <3>5. RunFits(w, m + 1, x, limit)
      BY <1>4, <1>7, <3>4
    <3>6. 255 * (x - (m + 1)) + w[x] <= limit
      BY <3>3, <3>5 DEF RunFits
    <3> QED
      BY <3>3, <3>4, <3>6
  <2>3. ASSUME NEW j \in 1 .. l, NEW i \in 1 .. j PROVE RunFits(a, i, j, limit)
    BY <2>1 DEF RunFits
  <2> QED
    BY <1>8, <2>2, <2>3
<1>5. ASSUME PacketsWithin(a, limit), \A i \in 1 .. n : c[i] <= limit
      PROVE  PacketsWithin(w, limit)
  <2>1. ASSUME NEW j \in 1 .. l + n, NEW i \in 1 .. j PROVE RunFits(w, i, j, limit)
    <3>3. SUFFICES ASSUME \A k \in i .. j - 1 : w[k] = 255 PROVE 255 * (j - i) + w[j] <= limit
      BY Zenon DEF RunFits
    <3>1. CASE j <= l
      <4>1. j \in 1 .. l /\ w[j] = a[j]
        BY <1>2, <3>1
      <4>2. \A k \in i .. j - 1 : a[k] = 255
        <5>1. \A k \in i .. j - 1 : k \in 1 .. l
          BY <1>2, <4>1
        <5>2. ASSUME NEW k \in i .. j - 1 PROVE a[k] = 255
          <6>1. k \in 1 .. l /\ w[k] = 255
            BY <3>3, <5>1
          <6> QED
            BY <1>2, <6>1
        <5> QED
          BY <5>2
      <4>3. RunFits(a, i, j, limit)
        BY <1>5, <1>8, <4>1
      <4>4. 255 * (j - i) + a[j] <= limit
        BY <4>2, <4>3 DEF RunFits
      <4> QED
        BY <4>1, <4>4
    <3>2. CASE ~(j <= l)
      <4>1. PICK h \in 1 .. n : j = l + h
        <5>1. j - l \in 1 .. n /\ j = l + (j - l)
          BY <1>2, <3>2
        <5> QED
          BY <5>1
      <4>2. PICK m : RunFrom(w, m, j, c[h])
        BY <1>3, <4>1
      <4>3. m \in 0 .. j - 1 /\ (m > 0 => w[m] # 255) /\ c[h] = 255 * (j - 1 - m) + w[j]
        BY <4>2 DEF RunFrom
      <4>4. i >= m + 1
        <5>1. SUFFICES ASSUME i <= m PROVE FALSE
          BY <4>3
        <5>2. m \in i .. j - 1 /\ m > 0
          BY <4>3, <5>1
        <5> QED
          BY <3>3, <4>3, <5>2
      <4>5. w[j] \in Nat /\ c[h] <= limit
        BY <1>2, <1>5, <4>1
      <4> QED
        BY <4>3, <4>4, <4>5
    <3> QED
      BY <3>1, <3>2
  <2> QED
    BY <1>7, <2>1
<1>6. PacketsWithin(w, limit) <=> PacketsWithin(a, limit) /\ \A i \in DOMAIN b : c[i] <= limit
  BY <1>2, <1>4, <1>5
<1> QED
  BY <1>6 DEF w, b, c

(* What is in hand after the page.                                          *)
LEMMA OpenCarried ==
  ASSUME NEW a \in Seq(Nat), NEW s, s.packetBytes \in Nat, OpenBytes(a, s.packetBytes),
         NEW p \in OggPages, Segments(p) > 0
  PROVE  LET bytes == IF Segments(p) \in Ends(p) THEN 0 ELSE PacketBytes(s, p)[Segments(p)] IN
           /\ OpenBytes(a \o p.lacing, bytes) /\ bytes \in Nat
           /\ Segments(p) \in Ends(p) <=> ~LeavesPacketOpen(p)
           /\ bytes = 0 <=> Segments(p) \in Ends(p)
<1> DEFINE b == p.lacing  w == a \o b  l == Len(a)  n == Segments(p)  c == PacketBytes(s, p)
           bytes == IF n \in Ends(p) THEN 0 ELSE c[n]
<1>1. b \in Seq(Nat) /\ Len(b) = n
  BY DEF OggPages, Segments
<1> HIDE DEF b
<1>2. /\ l \in Nat /\ n \in Nat /\ n > 0 /\ DOMAIN b = 1 .. n /\ Len(w) = l + n
      /\ \A k \in 1 .. n : w[l + k] = b[k] /\ b[k] \in Nat
  BY <1>1, Joined
<1>3. n \in 1 .. n
  BY <1>2
<1>4. c[n] \in Nat /\ \E m : RunFrom(w, m, l + n, c[n])
  BY <1>3, RunsCarried, Carried DEF b
<1>5. n \in Ends(p) <=> b[n] # 255
  BY <1>2, <1>3 DEF Ends, Terminators, b
<1>6. LeavesPacketOpen(p) <=> b[n] = 255
  BY <1>2 DEF LeavesPacketOpen, b
<1> HIDE DEF b, w, l, n, c
<1>7. PICK x \in Nat : x = l + n /\ x > 0 /\ w[x] = b[n] /\ Len(w) = x
  BY <1>2, <1>3
<1>8. CASE n \in Ends(p)
  <2>1. x \in 0 .. x /\ x + 1 .. x = {} /\ 255 * (x - x) = 0 /\ w[x] # 255
    BY <1>5, <1>7, <1>8
  <2>2. OpenBytes(w, 0)
    <3> HIDE DEF w
    <3>1. /\ x \in 0 .. Len(w) /\ (x > 0 => w[x] # 255)
          /\ \A k \in x + 1 .. Len(w) : w[k] = 255
          /\ 0 = 255 * (Len(w) - x)
      BY <1>7, <2>1
    <3> QED
      BY <3>1 DEF OpenBytes
  <2>3. bytes = 0
    BY <1>8
  <2> HIDE DEF bytes
  <2> QED
    BY <1>5, <1>6, <1>8, <2>2, <2>3 DEF w, b, n, c, bytes
<1>9. CASE n \notin Ends(p)
  <2>1. PICK m : RunFrom(w, m, x, c[n])
    BY <1>4, <1>7
  <2>2. /\ m \in 0 .. x - 1 /\ (m > 0 => w[m] # 255) /\ (\A k \in m + 1 .. x - 1 : w[k] = 255)
        /\ c[n] = 255 * (x - 1 - m) + w[x] /\ w[x] = 255
    BY <1>5, <1>7, <1>9, <2>1 DEF RunFrom
  <2>3. m \in 0 .. x /\ (\A k \in m + 1 .. x : w[k] = 255) /\ c[n] = 255 * (x - m) /\ c[n] # 0
    <3>1. m \in 0 .. x /\ \A k \in m + 1 .. x : k \in m + 1 .. x - 1 \/ k = x
      BY <2>2
    <3>2. c[n] = 255 * (x - m) /\ c[n] # 0
      BY <2>2
    <3> QED
      BY <2>2, <3>1, <3>2
  <2>4. OpenBytes(w, c[n])
    BY <1>7, <2>2, <2>3 DEF OpenBytes
  <2>5. bytes = c[n]
    BY <1>9
  <2> HIDE DEF bytes
  <2> QED
    BY <1>4, <1>5, <1>6, <1>9, <2>3, <2>4, <2>5 DEF w, b, n, c, bytes
<1> QED
  BY <1>8, <1>9

(* What is cut out of a file, when a page is added to it.                   *)
LEMMA CutAppend ==
  ASSUME NEW f \in Seq(OggPages), NEW p \in OggPages, NEW a \in 1 .. Len(f) + 1
  PROVE  /\ SubSeq(f, a, Len(f)) \in Seq(OggPages)
         /\ SubSeq(Append(f, p), a, Len(f) + 1) = Append(SubSeq(f, a, Len(f)), p)
<1> DEFINE n == Len(f)  e == Append(f, p)  g == SubSeq(f, a, n)  h == SubSeq(e, a, n + 1)
           m == n - a + 1
<1>1. /\ n \in Nat /\ DOMAIN f = 1 .. n /\ Len(e) = n + 1 /\ e \in Seq(OggPages) /\ e[n + 1] = p
      /\ \A i \in 1 .. n : e[i] = f[i]
  BY Appended
<1>2. m \in Nat /\ g \in Seq(OggPages) /\ Len(g) = m /\ \A i \in 1 .. m : g[i] = f[a + i - 1]
  BY <1>1, Cut
<1>3. a \in 1 .. Len(e) + 1 /\ Len(e) - a + 1 = m + 1
  BY <1>1
<1>4. h \in Seq(OggPages) /\ Len(h) = m + 1 /\ \A i \in 1 .. m + 1 : h[i] = e[a + i - 1]
  <2>1. /\ SubSeq(e, a, Len(e)) \in Seq(OggPages) /\ Len(SubSeq(e, a, Len(e))) = Len(e) - a + 1
        /\ \A i \in 1 .. Len(e) - a + 1 : SubSeq(e, a, Len(e))[i] = e[a + i - 1]
    BY <1>1, <1>3, Cut
  <2> QED
    BY <1>1, <1>3, <2>1
<1>5. /\ Append(g, p) \in Seq(OggPages) /\ Len(Append(g, p)) = m + 1 /\ Append(g, p)[m + 1] = p
      /\ \A i \in 1 .. m : Append(g, p)[i] = g[i]
  BY <1>2, Appended
<1>6. ASSUME NEW i \in 1 .. m + 1 PROVE h[i] = Append(g, p)[i]
  <2>1. CASE i = m + 1
    <3>1. a + i - 1 = n + 1
      BY <1>1, <2>1
    <3> HIDE DEF h, e, g
    <3> QED
      BY <1>1, <1>4, <1>5, <2>1, <3>1
  <2>2. CASE i # m + 1
    <3>1. i \in 1 .. m /\ a + i - 1 \in 1 .. n
      BY <1>1, <1>2, <2>2
    <3> HIDE DEF h, e, g
    <3> QED
      BY <1>1, <1>2, <1>4, <1>5, <3>1
  <2> QED
    BY <2>1, <2>2
<1> HIDE DEF h, g, e, m
<1>7. h = Append(g, p)
  BY <1>4, <1>5, <1>6, SeqEqual
<1> QED
  BY <1>2, <1>7 DEF h, g, e

LEMMA CutBefore ==
  ASSUME NEW f \in Seq(OggPages), NEW p \in OggPages, NEW a \in Nat \ {0}, NEW b \in 0 .. Len(f)
  PROVE  SubSeq(Append(f, p), a, b) = SubSeq(f, a, b)
<1> DEFINE e == Append(f, p)
<1>1. Len(f) \in Nat /\ \A i \in 1 .. Len(f) : e[i] = f[i]
  BY Appended
<1>2. \A i \in 1 .. 1 + b - a : (i + a) - 1 \in 1 .. Len(f)
  BY <1>1
<1> HIDE DEF e
<1>3. [i \in 1 .. 1 + b - a |-> e[i + a - 1]] = [i \in 1 .. 1 + b - a |-> f[i + a - 1]]
  BY <1>1, <1>2
<1> QED
  BY <1>3, SMT DEF e

(* The page that ends the tags is the first after the head to end a packet. *)
LEMMA TagsEnding ==
  ASSUME NEW f \in Seq(OggPages)
  PROVE  /\ TagsEnd(f) = {} <=> \A k \in 2 .. Len(f) : k \notin Closing(f)
         /\ TagsEnd(f) = {} => Headers(f) = Len(f)
         /\ \A h \in TagsEnd(f) :
              h \in 2 .. Len(f) /\ h \in Closing(f) /\ TagsEnd(f) = {h} /\ Headers(f) = h
<1> DEFINE n == Len(f)  C == Closing(f)
<1>1. n \in Nat /\ C \in SUBSET (1 .. n)
  BY LenProperties DEF Closing
<1>2. TagsEnd(f) = {k \in C \ {1} : C \cap 2 .. k = {k}}
  BY DEF TagsEnd
<1> HIDE DEF C, n
<1>3. ASSUME NEW h \in TagsEnd(f)
      PROVE  h \in 2 .. n /\ h \in C /\ \A k \in 2 .. h - 1 : k \notin C
  BY <1>1, <1>2
<1>4. ASSUME NEW h \in TagsEnd(f) PROVE TagsEnd(f) = {h} /\ Headers(f) = h
  <2>1. ASSUME NEW k \in TagsEnd(f) PROVE k = h
    <3>1. h \in 2 .. n /\ k \in 2 .. n /\ h \in C /\ k \in C /\ ~(h \in 2 .. k - 1) /\ ~(k \in 2 .. h - 1)
      BY <1>3
    <3> QED
      BY <1>1, <3>1
  <2>2. TagsEnd(f) = {h}
    BY <2>1
  <2> QED
    BY <2>2 DEF Headers
<1>5. ASSUME NEW k \in 2 .. n, k \in C PROVE TagsEnd(f) # {}
  <2> DEFINE S == {x \in 2 .. n : x \in C}
  <2>1. S # {} /\ S \in SUBSET Nat
    BY <1>5
  <2>2. PICK m \in S : \A x \in S : m <= x
    <3> HIDE DEF S
    <3> QED
      BY <2>1, NatMin
  <2>3. m \in C \ {1} /\ C \cap 2 .. m = {m}
    BY <1>1, <2>2
  <2> QED
    BY <1>2, <2>3
<1>6. TagsEnd(f) = {} => Headers(f) = n
  BY DEF Headers, n
<1> QED
  BY <1>3, <1>4, <1>5, <1>6 DEF n, C

LEMMA ClosingAppend ==
  ASSUME NEW f \in Seq(OggPages), NEW p \in OggPages
  PROVE  /\ \A k \in 1 .. Len(f) : k \in Closing(Append(f, p)) <=> k \in Closing(f)
         /\ Len(f) + 1 \in Closing(Append(f, p)) <=> Ends(p) # {}
         /\ Closing(Append(f, p)) \subseteq 1 .. Len(f) + 1
         /\ Closing(f) \subseteq 1 .. Len(f)
<1> DEFINE e == Append(f, p)  n == Len(f)
<1>1. /\ n \in Nat /\ DOMAIN f = 1 .. n /\ DOMAIN e = 1 .. n + 1 /\ e[n + 1] = p
      /\ \A i \in 1 .. n : e[i] = f[i]
  BY Appended
<1>2. n + 1 \in 1 .. n + 1 /\ \A k \in 1 .. n : k \in 1 .. n + 1
  BY <1>1
<1> HIDE DEF e, n
<1> QED
  BY <1>1, <1>2 DEF Closing, e, n

(* Before the tags end, a page goes to them; ...                            *)
LEMMA TagsGrow ==
  ASSUME NEW f \in Seq(OggPages), NEW p \in OggPages, f # <<>>, TagsEnd(f) = {}
  PROVE  /\ TagLacing(f) \in Seq(Nat) /\ TagLacing(Append(f, p)) = TagLacing(f) \o p.lacing
         /\ AudioLacing(f) = <<>> /\ AudioLacing(Append(f, p)) = <<>>
         /\ Headers(Append(f, p)) = Len(f) + 1
         /\ TagsEnd(Append(f, p)) = IF Ends(p) = {} THEN {} ELSE {Len(f) + 1}
<1> DEFINE e == Append(f, p)  n == Len(f)
<1>1. n \in Nat /\ n > 0 /\ Len(e) = n + 1 /\ e \in Seq(OggPages)
  BY Appended
<1>2. \A k \in 2 .. n : k \notin Closing(f)
  BY TagsEnding
<1>3. \A k \in 2 .. n : k \notin Closing(e)
  <2>1. \A k \in 2 .. n : k \in 1 .. n
    BY <1>1
  <2> QED
    BY <1>2, <2>1, ClosingAppend
<1>4. n + 1 \in Closing(e) <=> Ends(p) # {}
  BY ClosingAppend
<1> HIDE DEF e, n
<1>5. TagsEnd(e) = (IF Ends(p) = {} THEN {} ELSE {n + 1}) /\ Headers(e) = n + 1
  <2>0. \A k \in 2 .. n + 1 : k \in 2 .. n \/ k = n + 1
    BY <1>1
  <2>1. CASE Ends(p) = {}
    <3>1. TagsEnd(e) = {}
      BY <1>1, <1>3, <1>4, <2>0, <2>1, TagsEnding
    <3> QED
      BY <1>1, <2>1, <3>1, TagsEnding
  <2>2. CASE Ends(p) # {}
    <3>1. n + 1 \in 2 .. n + 1
      BY <1>1
    <3>2. TagsEnd(e) # {}
      BY <1>1, <1>4, <2>2, <3>1, TagsEnding
    <3>3. PICK h : h \in TagsEnd(e)
      BY <3>2
    <3>4. h \in 2 .. n + 1 /\ h \in Closing(e) /\ TagsEnd(e) = {h} /\ Headers(e) = h
      BY <1>1, <3>3, TagsEnding
    <3>5. h = n + 1
      BY <1>3, <2>0, <3>4
    <3> QED
      BY <2>2, <3>4, <3>5
  <2> QED
    BY <2>1, <2>2
<1>6. Headers(f) = n
  BY TagsEnding DEF n
<1>7. 2 \in 1 .. n + 1
  BY <1>1
<1>8. SubSeq(f, 2, n) \in Seq(OggPages) /\ SubSeq(e, 2, n + 1) = Append(SubSeq(f, 2, n), p)
  BY <1>7, CutAppend DEF e, n
<1>9. TagLacing(f) \in Seq(Nat) /\ TagLacing(e) = TagLacing(f) \o p.lacing
  <2>1. /\ Lacing(SubSeq(f, 2, n)) \in Seq(Nat)
        /\ Lacing(Append(SubSeq(f, 2, n), p)) = Lacing(SubSeq(f, 2, n)) \o p.lacing
    BY <1>8, LacingAppend
  <2> QED
    BY <1>5, <1>6, <1>8, <2>1 DEF TagLacing
<1>10. SubSeq(f, n + 1, n) = <<>> /\ SubSeq(e, (n + 1) + 1, n + 1) = <<>>
  BY <1>1, SubSeqEmpty
<1>11. AudioLacing(f) = <<>> /\ AudioLacing(e) = <<>>
  BY <1>1, <1>5, <1>6, <1>10, LacingEmpty DEF AudioLacing, n
<1> QED
  BY <1>5, <1>9, <1>11 DEF e, n

(* ... afterwards, to the audio packets.                                    *)
LEMMA AudioGrows ==
  ASSUME NEW f \in Seq(OggPages), NEW p \in OggPages, TagsEnd(f) # {}
  PROVE  /\ AudioLacing(f) \in Seq(Nat) /\ AudioLacing(Append(f, p)) = AudioLacing(f) \o p.lacing
         /\ TagLacing(Append(f, p)) = TagLacing(f)
         /\ Headers(Append(f, p)) = Headers(f) /\ Headers(f) \in 2 .. Len(f)
         /\ TagsEnd(Append(f, p)) = TagsEnd(f) /\ TagsEnd(f) = {Headers(f)}
<1> DEFINE e == Append(f, p)  n == Len(f)
<1>1. n \in Nat /\ Len(e) = n + 1 /\ e \in Seq(OggPages)
  BY Appended
<1>2. PICK h : h \in TagsEnd(f)
  OBVIOUS
<1>3. h \in 2 .. n /\ h \in Closing(f) /\ TagsEnd(f) = {h} /\ Headers(f) = h
  BY <1>2, TagsEnding
<1>4. /\ \A k \in 1 .. n : k \in Closing(e) <=> k \in Closing(f)
      /\ Closing(e) \subseteq 1 .. n + 1 /\ Closing(f) \subseteq 1 .. n
  BY ClosingAppend
<1> HIDE DEF e, n
<1>5. h \in TagsEnd(e)
  <2>1. h \in Closing(f) \ {1} /\ Closing(f) \cap 2 .. h = {h}
    BY <1>2 DEF TagsEnd
  <2>2. \A k \in 2 .. h : k \in Closing(e) <=> k \in Closing(f)
    BY <1>1, <1>3, <1>4
  <2>3. Closing(e) \cap 2 .. h = {h}
    BY <1>3, <2>1, <2>2
  <2>4. h \in Closing(e) \ {1}
    BY <1>3, <2>1, <2>3
  <2> QED
    BY <2>3, <2>4 DEF TagsEnd
<1>6. TagsEnd(e) = {h} /\ Headers(e) = h
  BY <1>1, <1>5, TagsEnding
<1>7. h + 1 \in 1 .. n + 1 /\ h \in 0 .. n
  BY <1>1, <1>3
<1>8. SubSeq(f, h + 1, n) \in Seq(OggPages) /\ SubSeq(e, h + 1, n + 1) = Append(SubSeq(f, h + 1, n), p)
  BY <1>7, CutAppend DEF e, n
<1>9. SubSeq(e, 2, h) = SubSeq(f, 2, h)
  BY <1>7, CutBefore DEF e, n
<1>10. AudioLacing(f) \in Seq(Nat) /\ AudioLacing(e) = AudioLacing(f) \o p.lacing
  <2>1. /\ Lacing(SubSeq(f, h + 1, n)) \in Seq(Nat)
        /\ Lacing(Append(SubSeq(f, h + 1, n), p)) = Lacing(SubSeq(f, h + 1, n)) \o p.lacing
    BY <1>8, LacingAppend
  <2> QED
    BY <1>1, <1>3, <1>6, <1>8, <2>1 DEF AudioLacing, n
<1>11. TagLacing(e) = TagLacing(f)
  BY <1>3, <1>6, <1>9 DEF TagLacing
<1> QED
  BY <1>3, <1>6, <1>10, <1>11 DEF e, n

LEMMA HeadAlone ==
  ASSUME NEW p \in OggPages
  PROVE  /\ TagsEnd(Append(<<>>, p)) = {} /\ TagLacing(Append(<<>>, p)) = <<>>
         /\ AudioLacing(Append(<<>>, p)) = <<>> /\ Headers(Append(<<>>, p)) = 1
<1> DEFINE e == Append(<<>>, p)
<1>1. Len(e) = 1 /\ e \in Seq(OggPages)
  OBVIOUS
<1> HIDE DEF e
<1>2. TagsEnd(e) = {} /\ Headers(e) = 1
  <2>1. \A k \in 2 .. 1 : k \notin Closing(e)
    OBVIOUS
  <2> QED
    BY <1>1, <2>1, TagsEnding
<1>3. SubSeq(e, 2, 1) = <<>>
  BY SubSeqEmpty
<1>4. TagLacing(e) = <<>> /\ AudioLacing(e) = <<>>
  <2>1. 1 + 1 = 2
    OBVIOUS
  <2> QED
    BY <1>1, <1>2, <1>3, <2>1, LacingEmpty DEF TagLacing, AudioLacing
<1> QED
  BY <1>2, <1>4 DEF e

(***************************************************************************)
(* What the profile remembers, and the page it takes next.                 *)
(***************************************************************************)
OpusStates == [ok : BOOLEAN, serial : Int, phase : {"head", "tags", "audio"}, packetBytes : Nat,
               audioPackets : Nat, ended : BOOLEAN]

OpusAfter(s, p) ==
  IF s.phase = "head" THEN [s EXCEPT !.serial = p.serial, !.phase = "tags"]
  ELSE [s EXCEPT !.phase = IF Ends(p) # {} THEN "audio" ELSE @,
                 !.audioPackets = IF s.phase = "audio" THEN @ + Cardinality(Ends(p)) ELSE @,
                 !.packetBytes = IF Segments(p) \in Ends(p) THEN 0
                                 ELSE PacketBytes(s, p)[Segments(p)],
                 !.ended = p.eos]

OpusTakes(s, p) ==
  /\ ~s.ended /\ s.serial \in {None, p.serial}
  /\ IF s.phase = "head" THEN AcceptsHead(p) ELSE AcceptsPackets(s, p)
  /\ p.eos => IsComplete(OpusAfter(s, p))

LEMMA AcceptUnfold ==
  ASSUME NEW s, NEW p
  PROVE  AcceptPage(s, p) = IF OpusTakes(s, p) THEN OpusAfter(s, p) ELSE [s EXCEPT !.ok = FALSE]
  BY DEF AcceptPage, OpusTakes, OpusAfter

LEMMA HeadAfter ==
  ASSUME NEW s \in OpusStates, NEW p \in OggPages, s.phase = "head"
  PROVE  /\ OpusAfter(s, p) \in OpusStates /\ OpusAfter(s, p).ok = s.ok
         /\ OpusAfter(s, p).serial = p.serial /\ OpusAfter(s, p).phase = "tags"
         /\ OpusAfter(s, p).packetBytes = s.packetBytes
         /\ OpusAfter(s, p).audioPackets = s.audioPackets /\ OpusAfter(s, p).ended = s.ended
<1>1. p.serial \in Int
  BY DEF OggPages
<1>2. PICK a : a = [s EXCEPT !.serial = p.serial]
  OBVIOUS
<1>3. a \in OpusStates /\ a.serial = p.serial /\ a.ok = s.ok /\ a.phase = s.phase
      /\ a.packetBytes = s.packetBytes /\ a.audioPackets = s.audioPackets /\ a.ended = s.ended
  BY <1>1, <1>2 DEF OpusStates
<1>4. PICK b : b = [a EXCEPT !.phase = "tags"]
  OBVIOUS
<1>5. b \in OpusStates /\ b.serial = p.serial /\ b.ok = s.ok /\ b.phase = "tags"
      /\ b.packetBytes = s.packetBytes /\ b.audioPackets = s.audioPackets /\ b.ended = s.ended
  BY <1>3, <1>4 DEF OpusStates
<1>6. OpusAfter(s, p) = b
  BY <1>2, <1>4 DEF OpusAfter
<1> QED
  BY <1>5, <1>6

LEMMA PacketsAfter ==
  ASSUME NEW s \in OpusStates, NEW p \in OggPages, s.phase # "head", Segments(p) > 0
  PROVE  /\ OpusAfter(s, p) \in OpusStates /\ OpusAfter(s, p).ok = s.ok
         /\ OpusAfter(s, p).serial = s.serial
         /\ OpusAfter(s, p).phase = (IF Ends(p) # {} THEN "audio" ELSE s.phase)
         /\ OpusAfter(s, p).packetBytes =
              (IF Segments(p) \in Ends(p) THEN 0 ELSE PacketBytes(s, p)[Segments(p)])
         /\ OpusAfter(s, p).audioPackets =
              (IF s.phase = "audio" THEN s.audioPackets + Cardinality(Ends(p)) ELSE s.audioPackets)
         /\ OpusAfter(s, p).ended = p.eos
<1> DEFINE ph == IF Ends(p) # {} THEN "audio" ELSE s.phase
           ap == IF s.phase = "audio" THEN s.audioPackets + Cardinality(Ends(p)) ELSE s.audioPackets
           pb == IF Segments(p) \in Ends(p) THEN 0 ELSE PacketBytes(s, p)[Segments(p)]
<1>1. /\ s.ok \in BOOLEAN /\ s.serial \in Int /\ s.phase \in {"head", "tags", "audio"} /\ s.packetBytes \in Nat
      /\ s.audioPackets \in Nat /\ s.ended \in BOOLEAN
  BY DEF OpusStates
<1>2. p.eos \in BOOLEAN /\ p.lacing \in Seq(Nat)
  BY DEF OggPages
<1>3. Cardinality(Ends(p)) \in Nat
  BY <1>2, TerminatorsCount DEF Ends
<1>4. Segments(p) \in 1 .. Segments(p)
  BY <1>2, LenProperties DEF Segments
<1>5. PacketBytes(s, p)[Segments(p)] \in Nat
  BY <1>1, <1>4, Carried
<1>6. ph \in {"head", "tags", "audio"} /\ ap \in Nat /\ pb \in Nat
  BY <1>1, <1>3, <1>5
<1>7. OpusAfter(s, p) =
        [s EXCEPT !.phase = ph, !.audioPackets = ap, !.packetBytes = pb, !.ended = p.eos]
  BY DEF OpusAfter
<1> HIDE DEF ph, ap, pb
<1>8. PICK a : a = [s EXCEPT !.phase = ph]
  OBVIOUS
<1>9. a \in OpusStates /\ a.serial = s.serial /\ a.ok = s.ok /\ a.phase = ph
      /\ a.packetBytes = s.packetBytes /\ a.audioPackets = s.audioPackets /\ a.ended = s.ended
  BY <1>6, <1>8 DEF OpusStates
<1>10. PICK b : b = [a EXCEPT !.audioPackets = ap]
  OBVIOUS
<1>11. b \in OpusStates /\ b.serial = s.serial /\ b.ok = s.ok /\ b.phase = ph
      /\ b.packetBytes = s.packetBytes /\ b.audioPackets = ap /\ b.ended = s.ended
  BY <1>6, <1>9, <1>10 DEF OpusStates
<1>12. PICK c : c = [b EXCEPT !.packetBytes = pb]
  OBVIOUS
<1>13. c \in OpusStates /\ c.serial = s.serial /\ c.ok = s.ok /\ c.phase = ph
      /\ c.packetBytes = pb /\ c.audioPackets = ap /\ c.ended = s.ended
  BY <1>6, <1>11, <1>12 DEF OpusStates
<1>14. PICK d : d = [c EXCEPT !.ended = p.eos]
  OBVIOUS
<1>15. d \in OpusStates /\ d.serial = s.serial /\ d.ok = s.ok /\ d.phase = ph
      /\ d.packetBytes = pb /\ d.audioPackets = ap /\ d.ended = p.eos
  BY <1>2, <1>13, <1>14 DEF OpusStates
<1>16. OpusAfter(s, p) = d
  BY <1>7, <1>8, <1>10, <1>12, <1>14
<1> QED
  BY <1>15, <1>16 DEF ph, ap, pb

(* The reference, part by part.                                             *)
PageLaced(f, k) ==
  /\ Segments(f[k]) > 0
  /\ IF k \in Closing(f) THEN f[k].granule >= 0 ELSE f[k].granule = -1

TagsPage(p) == p.content = "tags" /\ p.granule = 0 /\ Ends(p) = {Segments(p)}

OneSerial(f) == \A k \in DOMAIN f : f[k].serial = f[1].serial
HeadFirst(f) == f # <<>> => AcceptsHead(f[1])
PagesLaced(f) == \A k \in 2 .. Len(f) : PageLaced(f, k)
TagsFirst(f) == \A k \in TagsEnd(f) : TagsPage(f[k])
AudioThen(f) == \A k \in Closing(f) : k > Headers(f) => f[k].content = "audio"
EndsInAudio(f) == \A k \in DOMAIN f : f[k].eos => AudioPackets(f) > 0

LEMMA OpusUnfold ==
  ASSUME NEW f
  PROVE  OpusPrefix(f) <=>
           /\ OggPrefix(f) /\ OneSerial(f) /\ HeadFirst(f) /\ PagesLaced(f) /\ TagsFirst(f)
           /\ AudioThen(f) /\ AudioPackets(f) <= MAX_AUDIO_PACKETS
           /\ PacketsWithin(TagLacing(f), MAX_TAG_BYTES)
           /\ PacketsWithin(AudioLacing(f), MAX_AUDIO_PACKET_BYTES) /\ EndsInAudio(f)
  BY Zenon DEF OpusPrefix, OneSerial, HeadFirst, PagesLaced, PageLaced, TagsFirst, TagsPage, AudioThen, EndsInAudio

LEMMA NoPackets ==
  Terminators(<<>>) = {} /\ Cardinality(Terminators(<<>>)) = 0
<1>1. Terminators(<<>>) = {}
  BY DEF Terminators
<1> QED
  BY <1>1, FS_EmptySet

LEMMA WithinNothing ==
  ASSUME NEW limit
  PROVE  PacketsWithin(<<>>, limit)
  BY DEF PacketsWithin

LEMMA OpenNothing == OpenBytes(<<>>, 0)
<1>1. Len(<<>>) = 0 /\ 0 \in 0 .. 0 /\ 255 * (0 - 0) = 0
  OBVIOUS
<1> QED
  BY <1>1 DEF OpenBytes

PartLacing(f) == IF TagsEnd(f) = {} THEN TagLacing(f) ELSE AudioLacing(f)

OpusReads(o, f) ==
  /\ o.serial = f[1].serial /\ StreamOf(f, f[1].serial) = f
  /\ o.phase = (IF TagsEnd(f) = {} THEN "tags" ELSE "audio")
  /\ OpenBytes(PartLacing(f), o.packetBytes)
  /\ o.audioPackets = AudioPackets(f)
  /\ o.ended <=> LastOf(f).eos
  /\ o.ended => IsComplete(o)

OpusKnows(o, f) ==
  /\ o \in OpusStates /\ o.ok
  /\ f = <<>> => o = OpusStart
  /\ f # <<>> => OpusReads(o, f)

LEMMA OpusHead ==
  ASSUME NEW p \in OggPages
  PROVE  /\ OpusPrefix(Append(<<>>, p)) <=> OggPrefix(Append(<<>>, p)) /\ OpusTakes(OpusStart, p)
         /\ OpusTakes(OpusStart, p) => OpusKnows(OpusAfter(OpusStart, p), Append(<<>>, p))
<1> DEFINE e == Append(<<>>, p)  t == OpusAfter(OpusStart, p)
<1>1. <<>> \in Seq(OggPages) /\ Len(<<>>) = 0
  OBVIOUS
<1>2. /\ Len(e) = 1 /\ e[1] = p /\ DOMAIN e = 1 .. 1 /\ e # <<>> /\ e \in Seq(OggPages)
  BY <1>1
<1>3. TagsEnd(e) = {} /\ TagLacing(e) = <<>> /\ AudioLacing(e) = <<>> /\ Headers(e) = 1
  BY HeadAlone
<1>4. OpusStart \in OpusStates /\ OpusStart.phase = "head" /\ OpusStart.ok = TRUE
      /\ OpusStart.ended = FALSE /\ OpusStart.serial = None /\ OpusStart.packetBytes = 0
      /\ OpusStart.audioPackets = 0
  BY DEF OpusStart, OpusStates, None
<1>5. /\ t \in OpusStates /\ t.ok = TRUE /\ t.serial = p.serial /\ t.phase = "tags"
      /\ t.packetBytes = 0 /\ t.audioPackets = 0 /\ t.ended = FALSE
  BY <1>4, HeadAfter
<1>6. StreamOf(e, p.serial) = e
  BY <1>1, StreamAppend, StreamEmpty
<1>7. AudioPackets(e) = 0
  BY <1>3, NoPackets DEF AudioPackets
<1>8. \A k \in Closing(e) : k = 1
  BY <1>2 DEF Closing
<1> HIDE DEF e, t
<1>9. AcceptsHead(p) => ~p.eos
  BY DEF AcceptsHead
<1>10. OpusTakes(OpusStart, p) <=> AcceptsHead(p)
  BY <1>4, <1>9 DEF OpusTakes
<1>11. /\ OneSerial(e) /\ PagesLaced(e) /\ TagsFirst(e) /\ AudioThen(e)
       /\ HeadFirst(e) <=> AcceptsHead(p)
       /\ EndsInAudio(e) <=> ~p.eos
  <2>1. OneSerial(e)
    BY <1>2 DEF OneSerial
  <2>2. PagesLaced(e)
    BY <1>2 DEF PagesLaced
  <2>3. TagsFirst(e) /\ AudioThen(e)
    BY <1>3, <1>8 DEF TagsFirst, AudioThen
  <2>4. HeadFirst(e) <=> AcceptsHead(p)
    BY <1>2 DEF HeadFirst
  <2>5. EndsInAudio(e) <=> ~p.eos
    BY <1>2, <1>7 DEF EndsInAudio
  <2> QED
    BY <2>1, <2>2, <2>3, <2>4, <2>5
<1>12. /\ AudioPackets(e) <= MAX_AUDIO_PACKETS
       /\ PacketsWithin(TagLacing(e), MAX_TAG_BYTES)
       /\ PacketsWithin(AudioLacing(e), MAX_AUDIO_PACKET_BYTES)
  BY <1>3, <1>7, WithinNothing, LimitTypes
<1>13. OpusPrefix(e) <=> OggPrefix(e) /\ OpusTakes(OpusStart, p)
  BY <1>9, <1>10, <1>11, <1>12, OpusUnfold
<1>14. ASSUME OpusTakes(OpusStart, p) PROVE OpusKnows(t, e)
  <2>1. ~LastOf(e).eos
    BY <1>2, <1>9, <1>10, <1>14 DEF LastOf
  <2>2. OpenBytes(PartLacing(e), t.packetBytes)
    BY <1>3, <1>5, OpenNothing DEF PartLacing
  <2>3. OpusReads(t, e)
    BY <1>2, <1>3, <1>5, <1>6, <1>7, <2>1, <2>2 DEF OpusReads
  <2> QED
    BY <1>2, <1>5, <2>3 DEF OpusKnows
<1> QED
  BY <1>13, <1>14 DEF e, t

PageTimed(p) == IF Ends(p) # {} THEN p.granule >= 0 ELSE p.granule = -1

LEMMA PagesAppend ==
  ASSUME NEW f \in Seq(OggPages), NEW p \in OggPages, f # <<>>,
         OneSerial(f), HeadFirst(f), PagesLaced(f)
  PROVE  /\ OneSerial(Append(f, p)) <=> p.serial = f[1].serial
         /\ HeadFirst(Append(f, p))
         /\ PagesLaced(Append(f, p)) <=> Segments(p) > 0 /\ PageTimed(p)
<1> DEFINE e == Append(f, p)  n == Len(f)
<1>1. /\ n \in Nat /\ n > 0 /\ DOMAIN f = 1 .. n /\ DOMAIN e = 1 .. n + 1 /\ e[n + 1] = p
      /\ Len(e) = n + 1
      /\ \A i \in 1 .. n : e[i] = f[i]
  BY Appended
<1>2. /\ \A k \in 1 .. n : k \in Closing(e) <=> k \in Closing(f)
      /\ n + 1 \in Closing(e) <=> Ends(p) # {}
  BY ClosingAppend
<1> HIDE DEF e, n
<1>3. e[1] = f[1] /\ n + 1 \in 1 .. n + 1 /\ n + 1 \in 2 .. n + 1
      /\ (\A k \in 1 .. n + 1 : k \in 1 .. n \/ k = n + 1)
      /\ (\A k \in 2 .. n + 1 : k \in 2 .. n \/ k = n + 1) /\ (\A k \in 2 .. n : k \in 1 .. n)
  BY <1>1
<1>4. OneSerial(e) <=> p.serial = f[1].serial
  <2>1. ASSUME OneSerial(e) PROVE p.serial = f[1].serial
    BY <1>1, <1>3, <2>1 DEF OneSerial
  <2>2. ASSUME p.serial = f[1].serial PROVE OneSerial(e)
    BY <1>1, <1>3, <2>2 DEF OneSerial
  <2> QED
    BY <2>1, <2>2
<1>5. HeadFirst(e)
  BY <1>3 DEF HeadFirst
<1>6. ASSUME NEW k \in 2 .. n PROVE PageLaced(e, k)
  <2>1. PageLaced(f, k)
    BY DEF PagesLaced, n
  <2> QED
    BY <1>1, <1>2, <1>3, <2>1 DEF PageLaced
<1>7. PageLaced(e, n + 1) <=> Segments(p) > 0 /\ PageTimed(p)
  BY <1>1, <1>2 DEF PageLaced, PageTimed
<1>8. PagesLaced(e) <=> PageLaced(e, n + 1)
  BY <1>1, <1>3, <1>6 DEF PagesLaced
<1> QED
  BY <1>4, <1>5, <1>7, <1>8 DEF e

(* In a file that is one stream, the pages are those of the stream.         *)
LEMMA OneStream ==
  ASSUME NEW f \in Seq(OggPages), NEW p \in OggPages, f # <<>>, p.serial = f[1].serial,
         StreamOf(f, f[1].serial) = f
  PROVE  /\ StreamOf(Append(f, p), Append(f, p)[1].serial) = Append(f, p)
         /\ Append(f, p)[1] = f[1] /\ LastOf(Append(f, p)) = p
         /\ OggPrefix(Append(f, p)) =>
              (p.eos => ~LeavesPacketOpen(p)) /\ ~LastOf(f).eos
<1> DEFINE e == Append(f, p)  n == Len(f)
<1>1. /\ n \in Nat /\ n > 0 /\ DOMAIN f = 1 .. n /\ DOMAIN e = 1 .. n + 1 /\ e[n + 1] = p
      /\ Len(e) = n + 1 /\ e \in Seq(OggPages)
      /\ \A i \in 1 .. n : e[i] = f[i]
  BY Appended
<1> HIDE DEF n
<1>2. e[1] = f[1]
  BY <1>1
<1>3. StreamOf(e, e[1].serial) = e
  BY <1>2, StreamAppend
<1> HIDE DEF e
<1>4. LastOf(e) = p
  BY <1>1 DEF LastOf
<1>5. ASSUME OggPrefix(e) PROVE (p.eos => ~LeavesPacketOpen(p)) /\ ~LastOf(f).eos
  <2>1. 1 \in DOMAIN e /\ n \in DOMAIN e /\ n + 1 \in DOMAIN e /\ n # n + 1 /\ LastOf(f) = e[n]
    <3>1. n \in 1 .. n /\ LastOf(f) = f[n]
      BY <1>1 DEF LastOf, n
    <3> QED
      BY <1>1, <3>1
  <2>2. e[1].serial \in Serials(e)
    BY <2>1 DEF Serials
  <2>3. StreamPrefix(e)
    BY <1>3, <1>5, <2>2 DEF OggPrefix
  <2>4. \A k \in DOMAIN e : e[k].eos => k = Len(e) /\ ~LeavesPacketOpen(e[k])
    BY <2>3, StreamUnfold
  <2> QED
    BY <1>1, <2>1, <2>4
<1> QED
  BY <1>2, <1>3, <1>4, <1>5 DEF e

LEMMA OpusTags ==
  ASSUME NEW f \in Seq(OggPages), NEW p \in OggPages, f # <<>>, OpusPrefix(f),
         NEW o \in OpusStates, o.ok, OpusReads(o, f), TagsEnd(f) = {}
  PROVE  /\ OpusPrefix(Append(f, p)) <=> OggPrefix(Append(f, p)) /\ OpusTakes(o, p)
         /\ OpusPrefix(Append(f, p)) => OpusReads(OpusAfter(o, p), Append(f, p))
<1> DEFINE e == Append(f, p)  n == Len(f)  t == OpusAfter(o, p)
<1>1. /\ n \in Nat /\ n > 0 /\ DOMAIN f = 1 .. n /\ DOMAIN e = 1 .. n + 1 /\ e[n + 1] = p
      /\ Len(e) = n + 1 /\ e \in Seq(OggPages)
      /\ \A i \in 1 .. n : e[i] = f[i]
  BY Appended
<1>2. /\ OneSerial(f) /\ HeadFirst(f) /\ PagesLaced(f) /\ EndsInAudio(f)
      /\ PacketsWithin(TagLacing(f), MAX_TAG_BYTES)
  BY OpusUnfold
<1>3. /\ o.serial = f[1].serial /\ StreamOf(f, f[1].serial) = f /\ o.phase = "tags"
      /\ OpenBytes(TagLacing(f), o.packetBytes) /\ o.audioPackets = AudioPackets(f)
  BY DEF OpusReads, PartLacing
<1>4. ~o.ended /\ o.packetBytes \in Nat
  BY <1>3 DEF OpusReads, IsComplete, OpusStates
<1>5. /\ TagLacing(f) \in Seq(Nat) /\ TagLacing(e) = TagLacing(f) \o p.lacing
      /\ AudioLacing(f) = <<>> /\ AudioLacing(e) = <<>> /\ Headers(e) = n + 1
      /\ TagsEnd(e) = IF Ends(p) = {} THEN {} ELSE {n + 1}
  BY TagsGrow
<1>6. AudioPackets(f) = 0 /\ AudioPackets(e) = 0
  BY <1>5, NoPackets DEF AudioPackets
<1>7. /\ OneSerial(e) <=> p.serial = f[1].serial
      /\ HeadFirst(e)
      /\ PagesLaced(e) <=> Segments(p) > 0 /\ PageTimed(p)
  BY <1>2, PagesAppend
<1>8. MAX_TAG_BYTES \in Nat /\ MAX_AUDIO_PACKETS \in Nat
  BY LimitTypes
<1>9. PacketsWithin(TagLacing(e), MAX_TAG_BYTES) <=>
        \A i \in DOMAIN p.lacing : PacketBytes(o, p)[i] <= MAX_TAG_BYTES
  BY <1>2, <1>3, <1>4, <1>5, <1>8, RunsWithin
<1>10. AudioThen(e)
  <2>1. \A k \in Closing(e) : k \in 1 .. n + 1
    BY ClosingAppend
  <2>2. \A k \in Closing(e) : ~(k > Headers(e))
    BY <1>1, <1>5, <2>1
  <2> QED
    BY <2>2 DEF AudioThen
<1>11. f[1].serial \in Nat /\ p.serial \in Nat /\ p.granule \in Int
  <2>1. 1 \in 1 .. n
    BY <1>1
  <2>2. f[1] \in OggPages
    BY <2>1, ElementOfSeq
  <2> QED
    BY <2>2 DEF OggPages
<1> HIDE DEF e, n, t
<1>12. TagsFirst(e) <=> (Ends(p) # {} => TagsPage(p))
  BY <1>1, <1>5 DEF TagsFirst
<1>13. EndsInAudio(e) <=> ~p.eos
  <2>1. \A k \in 1 .. n : ~e[k].eos
    BY <1>1, <1>2, <1>6 DEF EndsInAudio
  <2>2. n + 1 \in 1 .. n + 1 /\ \A k \in 1 .. n + 1 : k \in 1 .. n \/ k = n + 1
    BY <1>1
  <2> QED
    BY <1>1, <1>6, <2>1, <2>2 DEF EndsInAudio
<1>14. /\ AudioPackets(e) <= MAX_AUDIO_PACKETS
       /\ PacketsWithin(AudioLacing(e), MAX_AUDIO_PACKET_BYTES)
  BY <1>5, <1>6, <1>8, WithinNothing
<1> DEFINE Laced == Segments(p) > 0
           Bounded == \A i \in DOMAIN p.lacing : PacketBytes(o, p)[i] <= MAX_TAG_BYTES
<1>15. OpusPrefix(e) <=>
         /\ OggPrefix(e) /\ p.serial = f[1].serial /\ Laced /\ PageTimed(p)
         /\ (Ends(p) # {} => TagsPage(p)) /\ Bounded /\ ~p.eos
  BY <1>7, <1>9, <1>10, <1>12, <1>13, <1>14, OpusUnfold
<1>16. o.serial \in {None, p.serial} <=> p.serial = f[1].serial
  BY <1>3, <1>11 DEF None
<1>17. ASSUME Laced PROVE ~IsComplete(t)
  <2>1. t.audioPackets = 0
    BY <1>3, <1>6, <1>17, PacketsAfter DEF t
  <2> QED
    BY <2>1 DEF IsComplete
<1>18. OpusTakes(o, p) <=> p.serial = f[1].serial /\ AcceptsPackets(o, p) /\ (p.eos => IsComplete(t))
  BY <1>3, <1>4, <1>16 DEF OpusTakes, t
<1>19. AcceptsPackets(o, p) <=>
         /\ Laced /\ Bounded /\ Ends(p) \subseteq {Segments(p)}
         /\ (Ends(p) # {} => p.granule = 0 /\ p.content = "tags" /\ p.granule >= 0)
         /\ (Ends(p) = {} => p.granule = -1)
  <2> HIDE DEF Laced
  <2> QED
    BY <1>3 DEF AcceptsPackets, Laced
<1> HIDE DEF Bounded
<1>20. PageTimed(p) /\ (Ends(p) # {} => TagsPage(p)) <=>
         /\ Ends(p) \subseteq {Segments(p)}
         /\ (Ends(p) # {} => p.granule = 0 /\ p.content = "tags" /\ p.granule >= 0)
         /\ (Ends(p) = {} => p.granule = -1)
  <2>1. CASE Ends(p) = {}
    BY <2>1 DEF PageTimed, TagsPage
  <2>2. CASE Ends(p) # {}
    <3>1. Ends(p) \subseteq {Segments(p)} <=> Ends(p) = {Segments(p)}
      BY <2>2
    <3>2. p.granule = 0 => p.granule >= 0
      BY <1>11
    <3> QED
      BY <2>2, <3>1, <3>2 DEF PageTimed, TagsPage
  <2> QED
    BY <2>1, <2>2
<1>21. OpusPrefix(e) <=> OggPrefix(e) /\ OpusTakes(o, p)
  <2> HIDE DEF Laced
  <2> QED
    BY <1>15, <1>17, <1>18, <1>19, <1>20
<1>22. ASSUME OpusPrefix(e) PROVE OpusReads(t, e)
  <2>1. p.serial = f[1].serial /\ Laced /\ ~p.eos /\ (Ends(p) # {} => TagsPage(p))
    BY <1>15, <1>22
  <2>2. StreamOf(e, e[1].serial) = e /\ e[1] = f[1] /\ LastOf(e) = p
    BY <1>3, <2>1, OneStream DEF e
  <2>3. /\ t.serial = o.serial /\ t.phase = (IF Ends(p) # {} THEN "audio" ELSE "tags")
        /\ t.packetBytes = (IF Segments(p) \in Ends(p) THEN 0 ELSE PacketBytes(o, p)[Segments(p)])
        /\ t.audioPackets = o.audioPackets /\ t.ended = p.eos
    BY <1>3, <2>1, PacketsAfter DEF t
  <2>4. OpenBytes(PartLacing(e), t.packetBytes)
    <3>1. CASE Ends(p) = {}
      <4>1. PartLacing(e) = TagLacing(f) \o p.lacing
        BY <1>5, <3>1 DEF PartLacing
      <4>2. OpenBytes(TagLacing(f) \o p.lacing, t.packetBytes)
        BY <1>3, <1>4, <1>5, <2>1, <2>3, OpenCarried
      <4> QED
        BY <4>1, <4>2
    <3>2. CASE Ends(p) # {}
      <4>1. PartLacing(e) = <<>>
        BY <1>5, <3>2 DEF PartLacing
      <4>2. t.packetBytes = 0
        BY <2>1, <2>3, <3>2 DEF TagsPage
      <4> QED
        BY <4>1, <4>2, OpenNothing
    <3> QED
      BY <3>1, <3>2
  <2>5. t.phase = (IF TagsEnd(e) = {} THEN "tags" ELSE "audio")
    BY <1>5, <2>3
  <2> QED
    BY <1>3, <1>6, <2>1, <2>2, <2>3, <2>4, <2>5 DEF OpusReads
<1> QED
  BY <1>21, <1>22 DEF e, t

LEMMA OpusAudio ==
  ASSUME NEW f \in Seq(OggPages), NEW p \in OggPages, f # <<>>, OpusPrefix(f),
         NEW o \in OpusStates, o.ok, OpusReads(o, f), TagsEnd(f) # {}
  PROVE  /\ OpusPrefix(Append(f, p)) <=> OggPrefix(Append(f, p)) /\ OpusTakes(o, p)
         /\ OpusPrefix(Append(f, p)) => OpusReads(OpusAfter(o, p), Append(f, p))
<1> DEFINE e == Append(f, p)  n == Len(f)  t == OpusAfter(o, p)
<1>1. /\ n \in Nat /\ n > 0 /\ DOMAIN f = 1 .. n /\ DOMAIN e = 1 .. n + 1 /\ e[n + 1] = p
      /\ Len(e) = n + 1 /\ e \in Seq(OggPages)
      /\ \A i \in 1 .. n : e[i] = f[i]
  BY Appended
<1>2. /\ OneSerial(f) /\ HeadFirst(f) /\ PagesLaced(f) /\ EndsInAudio(f) /\ TagsFirst(f)
      /\ AudioThen(f)
      /\ PacketsWithin(TagLacing(f), MAX_TAG_BYTES)
      /\ PacketsWithin(AudioLacing(f), MAX_AUDIO_PACKET_BYTES)
  BY OpusUnfold
<1>3. /\ o.serial = f[1].serial /\ StreamOf(f, f[1].serial) = f /\ o.phase = "audio"
      /\ OpenBytes(AudioLacing(f), o.packetBytes) /\ o.audioPackets = AudioPackets(f)
      /\ o.ended <=> LastOf(f).eos
  BY DEF OpusReads, PartLacing
<1>4. o.packetBytes \in Nat /\ o.audioPackets \in Nat
  BY DEF OpusStates
<1>5. /\ AudioLacing(f) \in Seq(Nat) /\ AudioLacing(e) = AudioLacing(f) \o p.lacing
      /\ TagLacing(e) = TagLacing(f) /\ Headers(e) = Headers(f) /\ Headers(f) \in 2 .. n
      /\ TagsEnd(e) = TagsEnd(f) /\ TagsEnd(f) = {Headers(f)}
  BY AudioGrows
<1>6. p.lacing \in Seq(Nat) /\ p.serial \in Nat /\ p.granule \in Int
  BY DEF OggPages
<1>7. AudioPackets(e) = o.audioPackets + Cardinality(Ends(p)) /\ Cardinality(Ends(p)) \in Nat
  BY <1>3, <1>5, <1>6, TerminatorsJoined, TerminatorsCount DEF AudioPackets, Ends
<1>8. /\ OneSerial(e) <=> p.serial = f[1].serial
      /\ HeadFirst(e)
      /\ PagesLaced(e) <=> Segments(p) > 0 /\ PageTimed(p)
  BY <1>2, PagesAppend
<1>9. MAX_AUDIO_PACKET_BYTES \in Nat /\ MAX_AUDIO_PACKETS \in Nat
  BY LimitTypes
<1>10. PacketsWithin(AudioLacing(e), MAX_AUDIO_PACKET_BYTES) <=>
         \A i \in DOMAIN p.lacing : PacketBytes(o, p)[i] <= MAX_AUDIO_PACKET_BYTES
  BY <1>2, <1>3, <1>4, <1>5, <1>9, RunsWithin
<1>11. f[1].serial \in Nat
  <2>1. 1 \in 1 .. n
    BY <1>1
  <2>2. f[1] \in OggPages
    BY <2>1, ElementOfSeq
  <2> QED
    BY <2>2 DEF OggPages
<1>12. AudioThen(e) <=> (Ends(p) # {} => p.content = "audio")
  <2>1. /\ \A k \in 1 .. n : k \in Closing(e) <=> k \in Closing(f)
        /\ n + 1 \in Closing(e) <=> Ends(p) # {}
        /\ \A k \in Closing(e) : k \in 1 .. n + 1
        /\ \A k \in Closing(f) : k \in 1 .. n
    BY ClosingAppend
  <2>2. n + 1 > Headers(e) /\ \A k \in 1 .. n + 1 : k \in 1 .. n \/ k = n + 1
    <3> HIDE DEF e, n
    <3>1. PICK h \in 2 .. n : h = Headers(e)
      BY <1>5
    <3>2. n + 1 > h
      BY <1>1
    <3>3. \A k \in 1 .. n + 1 : k \in 1 .. n \/ k = n + 1
      BY <1>1
    <3> QED
      BY <3>1, <3>2, <3>3
  <2> HIDE DEF e, n
  <2>3. ASSUME NEW k \in Closing(e), k \in 1 .. n, k > Headers(e) PROVE e[k].content = "audio"
    <3>1. k \in Closing(f) /\ k > Headers(f) /\ e[k] = f[k]
      BY <1>1, <1>5, <2>1, <2>3
    <3> QED
      BY <1>2, <3>1 DEF AudioThen
  <2> QED
    BY <1>1, <2>1, <2>2, <2>3 DEF AudioThen
<1>13. TagsFirst(e)
  <2>1. \A k \in TagsEnd(e) : k \in TagsEnd(f) /\ e[k] = f[k]
    <3>1. \A k \in TagsEnd(e) : k = Headers(f)
      BY <1>5
    <3>2. Headers(f) \in 1 .. n
      BY <1>1, <1>5
    <3> QED
      BY <1>1, <1>5, <3>1, <3>2
  <2> HIDE DEF e
  <2> QED
    BY <1>2, <2>1 DEF TagsFirst
<1> HIDE DEF e, n, t
<1>14. EndsInAudio(e) <=> (p.eos => AudioPackets(e) > 0)
  <2>1. ASSUME NEW k \in 1 .. n, e[k].eos PROVE AudioPackets(e) > 0
    <3>1. f[k].eos
      BY <1>1, <2>1
    <3>2. AudioPackets(f) > 0
      BY <1>1, <1>2, <3>1 DEF EndsInAudio
    <3> QED
      BY <1>3, <1>4, <1>7, <3>2
  <2>2. n + 1 \in 1 .. n + 1 /\ \A k \in 1 .. n + 1 : k \in 1 .. n \/ k = n + 1
    BY <1>1
  <2> QED
    BY <1>1, <2>1, <2>2 DEF EndsInAudio
<1> DEFINE Laced == Segments(p) > 0
           Bounded == \A i \in DOMAIN p.lacing : PacketBytes(o, p)[i] <= MAX_AUDIO_PACKET_BYTES
           Counted == o.audioPackets + Cardinality(Ends(p)) <= MAX_AUDIO_PACKETS
<1>15. OpusPrefix(e) <=>
         /\ OggPrefix(e) /\ p.serial = f[1].serial /\ Laced /\ PageTimed(p)
         /\ (Ends(p) # {} => p.content = "audio") /\ Bounded /\ Counted
         /\ (p.eos => AudioPackets(e) > 0)
  <2>1. AudioPackets(e) <= MAX_AUDIO_PACKETS <=> Counted
    BY <1>7
  <2> HIDE DEF Counted, Bounded
  <2> QED
    BY <1>2, <1>5, <1>8, <1>10, <1>12, <1>13, <1>14, <2>1, OpusUnfold DEF Bounded
<1>16. o.serial \in {None, p.serial} <=> p.serial = f[1].serial
  BY <1>3, <1>6, <1>11 DEF None
<1>17. ASSUME Laced
       PROVE  /\ t.serial = o.serial /\ t.phase = "audio" /\ t.ended = p.eos
              /\ t.packetBytes = (IF Segments(p) \in Ends(p) THEN 0 ELSE PacketBytes(o, p)[Segments(p)])
              /\ t.audioPackets = AudioPackets(e)
  BY <1>3, <1>7, <1>17, PacketsAfter DEF t
<1>18. ASSUME Laced
       PROVE  /\ OpenBytes(AudioLacing(e), t.packetBytes)
              /\ t.packetBytes = 0 <=> ~LeavesPacketOpen(p)
  BY <1>3, <1>4, <1>5, <1>17, <1>18, OpenCarried
<1>19. OpusTakes(o, p) <=>
         ~o.ended /\ p.serial = f[1].serial /\ AcceptsPackets(o, p) /\ (p.eos => IsComplete(t))
  BY <1>3, <1>16 DEF OpusTakes, t
<1>20. AcceptsPackets(o, p) <=>
         /\ Laced /\ Bounded /\ Counted
         /\ (Ends(p) # {} => p.content = "audio" /\ p.granule >= 0)
         /\ (Ends(p) = {} => p.granule = -1)
  <2> HIDE DEF Laced, Counted
  <2> QED
    BY <1>3 DEF AcceptsPackets, Laced, Counted
<1> HIDE DEF Bounded, Counted
<1>21. PageTimed(p) /\ (Ends(p) # {} => p.content = "audio") <=>
         /\ (Ends(p) # {} => p.content = "audio" /\ p.granule >= 0)
         /\ (Ends(p) = {} => p.granule = -1)
  BY DEF PageTimed
<1>22. ASSUME OggPrefix(e), p.serial = f[1].serial, Laced
       PROVE  ~o.ended /\ ((p.eos => AudioPackets(e) > 0) <=> (p.eos => IsComplete(t)))
  <2>1. (p.eos => ~LeavesPacketOpen(p)) /\ ~LastOf(f).eos
    BY <1>3, <1>22, OneStream DEF e
  <2>2. ASSUME p.eos PROVE IsComplete(t) <=> AudioPackets(e) > 0
    BY <1>17, <1>18, <1>22, <2>1, <2>2 DEF IsComplete
  <2> QED
    BY <1>3, <2>1, <2>2
<1> HIDE DEF Laced
<1>23. OpusPrefix(e) <=> OggPrefix(e) /\ OpusTakes(o, p)
  BY <1>15, <1>19, <1>20, <1>21, <1>22
<1>24. ASSUME OpusPrefix(e) PROVE OpusReads(t, e)
  <2>1. p.serial = f[1].serial /\ Laced /\ (p.eos => IsComplete(t))
    BY <1>15, <1>19, <1>23, <1>24
  <2>2. StreamOf(e, e[1].serial) = e /\ e[1] = f[1] /\ LastOf(e) = p
    BY <1>3, <2>1, OneStream DEF e
  <2>3. OpenBytes(PartLacing(e), t.packetBytes)
    BY <1>5, <1>18, <2>1 DEF PartLacing
  <2>4. t.phase = (IF TagsEnd(e) = {} THEN "tags" ELSE "audio")
    BY <1>5, <1>17, <2>1
  <2> QED
    BY <1>3, <1>17, <2>1, <2>2, <2>3, <2>4 DEF OpusReads
<1> QED
  BY <1>23, <1>24 DEF e, t

(* A page is taken exactly when the pages are still a prefix of a file.     *)
LEMMA OpusExtends ==
  ASSUME NEW f \in Seq(OggPages), NEW p \in OggPages, OpusPrefix(f), NEW o, OpusKnows(o, f)
  PROVE  /\ OpusPrefix(Append(f, p)) <=> OggPrefix(Append(f, p)) /\ OpusTakes(o, p)
         /\ OpusPrefix(Append(f, p)) => OpusKnows(OpusAfter(o, p), Append(f, p))
<1>1. CASE f = <<>>
  <2>1. o = OpusStart
    BY <1>1 DEF OpusKnows
  <2> QED
    BY <1>1, <2>1, OpusHead
<1>2. CASE f # <<>>
  <2>1. o \in OpusStates /\ o.ok /\ OpusReads(o, f)
    BY <1>2 DEF OpusKnows
  <2>2. /\ OpusPrefix(Append(f, p)) <=> OggPrefix(Append(f, p)) /\ OpusTakes(o, p)
        /\ OpusPrefix(Append(f, p)) => OpusReads(OpusAfter(o, p), Append(f, p))
    <3>1. CASE TagsEnd(f) = {}
      BY <1>2, <2>1, <3>1, OpusTags
    <3>2. CASE TagsEnd(f) # {}
      BY <1>2, <2>1, <3>2, OpusAudio
    <3> QED
      BY <3>1, <3>2
  <2>3. Append(f, p) # <<>>
    BY Appended
  <2>4. ASSUME OpusPrefix(Append(f, p))
        PROVE  OpusAfter(o, p) \in OpusStates /\ OpusAfter(o, p).ok
    <3>1. OpusTakes(o, p)
      BY <2>2, <2>4
    <3>2. o.phase # "head"
      BY <2>1 DEF OpusReads
    <3>3. Segments(p) > 0
      BY <3>1, <3>2 DEF OpusTakes, AcceptsPackets
    <3> QED
      BY <2>1, <3>2, <3>3, PacketsAfter
  <2> QED
    BY <2>2, <2>3, <2>4 DEF OpusKnows
<1> QED
  BY <1>1, <1>2

OpusInv(s, f) ==
  /\ s.ok \in BOOLEAN /\ s.ok <=> OpusPrefix(f)
  /\ s.ok => s.ogg.ok /\ OggInv(s.ogg, f) /\ OpusKnows(s.opus, f)

LEMMA OpusStartInv == OpusInv(OggOpusStart, <<>>)
<1>1. /\ OggOpusStart.ok = TRUE /\ OggOpusStart.ogg = OggStart /\ OggOpusStart.opus = OpusStart
      /\ OggStart.ok = TRUE
  BY DEF OggOpusStart, OggStart
<1>2. OpusKnows(OpusStart, <<>>)
  BY DEF OpusKnows, OpusStart, OpusStates, None
<1>3. OggPrefix(<<>>)
  BY <1>1, OggStartInv DEF OggInv
<1>4. <<>> \in Seq(OggPages) /\ Len(<<>>) = 0 /\ DOMAIN <<>> = {}
  OBVIOUS
<1>5. TagsEnd(<<>>) = {} /\ Headers(<<>>) = 0 /\ Closing(<<>>) = {}
  <2>1. \A k \in 2 .. 0 : k \notin Closing(<<>>)
    OBVIOUS
  <2>2. Closing(<<>>) = {}
    BY DEF Closing
  <2> QED
    BY <1>4, <2>1, <2>2, TagsEnding
<1>6. SubSeq(<<>>, 2, 0) = <<>> /\ SubSeq(<<>>, 0 + 1, 0) = <<>>
  BY SubSeqEmpty
<1>7. TagLacing(<<>>) = <<>> /\ AudioLacing(<<>>) = <<>>
  BY <1>4, <1>5, <1>6, LacingEmpty DEF TagLacing, AudioLacing
<1>8. AudioPackets(<<>>) = 0
  BY <1>7, NoPackets DEF AudioPackets
<1>9. OpusPrefix(<<>>)
  <2>1. OneSerial(<<>>) /\ HeadFirst(<<>>) /\ EndsInAudio(<<>>)
    BY <1>4 DEF OneSerial, HeadFirst, EndsInAudio
  <2>2. PagesLaced(<<>>)
    BY <1>4 DEF PagesLaced
  <2>3. TagsFirst(<<>>) /\ AudioThen(<<>>)
    BY <1>5 DEF TagsFirst, AudioThen
  <2>4. AudioPackets(<<>>) <= MAX_AUDIO_PACKETS
    BY <1>8, LimitTypes
  <2> QED
    BY <1>3, <1>7, <2>1, <2>2, <2>3, <2>4, WithinNothing, OpusUnfold
<1> QED
  BY <1>1, <1>2, <1>9, OggStartInv DEF OpusInv

LEMMA OpusStepInv ==
  ASSUME NEW f \in Seq(OggPages), NEW p \in OggPages, NEW s, OpusInv(s, f), s.ok
  PROVE  OpusInv(OggOpusStep(s, p), Append(f, p))
<1> DEFINE e == Append(f, p)  g == OggStep(s.ogg, p)  o == s.opus  r == OggOpusStep(s, p)
           q == IF g.ok THEN AcceptPage(o, p) ELSE o
<1>1. OpusPrefix(f) /\ s.ogg.ok /\ OggInv(s.ogg, f) /\ OpusKnows(o, f)
  BY DEF OpusInv
<1>2. OggInv(g, e)
  BY <1>1, OggStepInv
<1>3. g.ok <=> OggPrefix(e)
  BY <1>2 DEF OggInv
<1>4. g.ok \in BOOLEAN
  BY <1>2 DEF OggInv
<1>5. /\ OpusPrefix(e) <=> OggPrefix(e) /\ OpusTakes(o, p)
      /\ OpusPrefix(e) => OpusKnows(OpusAfter(o, p), e)
  BY <1>1, OpusExtends
<1>6. r = [ogg |-> g, opus |-> q, ok |-> g.ok /\ q.ok]
  BY DEF OggOpusStep
<1> HIDE DEF r, e, g, q
<1>7. r.ogg = g /\ r.opus = q /\ (r.ok = (g.ok /\ q.ok)) /\ r.ok \in BOOLEAN
  BY <1>6
<1>8. CASE OpusPrefix(e)
  <2>1. g.ok /\ OpusKnows(OpusAfter(o, p), e) /\ OpusTakes(o, p)
    BY <1>3, <1>5, <1>8
  <2>2. q = OpusAfter(o, p)
    BY <2>1, AcceptUnfold DEF q
  <2>3. q.ok /\ OpusKnows(q, e)
    BY <2>1, <2>2 DEF OpusKnows
  <2> QED
    BY <1>2, <1>7, <1>8, <2>1, <2>3 DEF OpusInv, r, e
<1>9. CASE ~OpusPrefix(e)
  <2>1. ~r.ok
    <3>1. CASE ~g.ok
      BY <1>7, <3>1
    <3>2. CASE g.ok
      <4>1. ~OpusTakes(o, p)
        BY <1>3, <1>5, <1>9, <3>2
      <4>2. q = [o EXCEPT !.ok = FALSE]
        BY <3>2, <4>1, AcceptUnfold DEF q
      <4>3. o \in OpusStates
        BY <1>1 DEF OpusKnows
      <4>4. ~q.ok
        <5> HIDE DEF o
        <5> QED
          BY <4>2, <4>3 DEF OpusStates
      <4> QED
        BY <1>7, <4>4
    <3> QED
      BY <3>1, <3>2
  <2> QED
    BY <1>7, <1>9, <2>1 DEF OpusInv, r, e
<1> QED
  BY <1>8, <1>9

LEMMA OpusVerdict ==
  ASSUME NEW f \in Seq(OggPages), NEW s, OpusInv(s, f)
  PROVE  Agrees(s.ok, OpusPrefix(f), OggOpusAccepts(s), IsOpus(f))
<1>1. s.ok <=> OpusPrefix(f)
  BY DEF OpusInv
<1>2. ASSUME s.ok PROVE OggOpusAccepts(s) <=> IsOpus(f)
  <2>1. OggInv(s.ogg, f) /\ OpusKnows(s.opus, f)
    BY <1>2 DEF OpusInv
  <2>2. OggAccepts(s.ogg) <=> IsOgg(f)
    BY <2>1, OggVerdict DEF Agrees
  <2>3. ASSUME IsOgg(f) PROVE IsComplete(s.opus)
    <3>1. PICK i \in DOMAIN f : BodyBytes(f[i]) > 0
      BY <2>3 DEF IsOgg
    <3>2. f # <<>> /\ Len(f) \in Nat /\ DOMAIN f = 1 .. Len(f)
      BY <3>1, LenProperties
    <3>3. 1 \in DOMAIN f
      BY <3>1, <3>2
    <3>4. f[1].serial \in Serials(f)
      BY <3>3 DEF Serials
    <3>5. OpusReads(s.opus, f)
      BY <2>1, <3>2 DEF OpusKnows
    <3>6. Last(StreamOf(f, f[1].serial)).eos
      BY <2>3, <3>4 DEF IsOgg
    <3>7. Last(f).eos
      BY <3>5, <3>6 DEF OpusReads
    <3>8. Last(f) = LastOf(f)
      BY DEF Last, LastOf
    <3> QED
      BY <3>5, <3>7, <3>8 DEF OpusReads
  <2> QED
    BY <1>1, <1>2, <2>2, <2>3 DEF OggOpusAccepts, IsOpus
<1>3. ASSUME ~s.ok PROVE ~OggOpusAccepts(s) /\ ~IsOpus(f)
  BY <1>1, <1>3 DEF OggOpusAccepts, IsOpus
<1> QED
  BY <1>1, <1>2, <1>3 DEF Agrees

-----------------------------------------------------------------------------
(***************************************************************************)
(* Opus packet framing: what the loops over the padding and over the coded *)
(* lengths read back from what was encoded.                                *)
(***************************************************************************)
HasBytes(k) == k.bytes \in Seq(Nat)
PadStates == [ok : BOOLEAN, offset : Int, end : Int, more : BOOLEAN]
LengthStates == [ok : BOOLEAN, offset : Int, end : Int, declared : Int]

LEMMA BytesAreNumbers ==
  ASSUME NEW k, k.bytes \in Seq(Nat), NEW offset \in Int
  PROVE  ByteAt(k, offset) \in Nat
  BY LenProperties, ElementOfSeq DEF ByteAt

Skipped(k, w) == IF ByteAt(k, w.offset) = 255 THEN 254 ELSE ByteAt(k, w.offset)

LEMMA Skips ==
  ASSUME NEW k, k.bytes \in Seq(Nat), NEW w \in PadStates
  PROVE  /\ SkipPaddingByte(k, w) \in PadStates
         /\ ~(w.ok /\ w.more) => SkipPaddingByte(k, w) = w
         /\ w.ok /\ w.more =>
              /\ SkipPaddingByte(k, w).ok <=>
                   w.offset < w.end /\ w.offset + 1 <= w.end - Skipped(k, w)
              /\ SkipPaddingByte(k, w).offset = w.offset + 1
              /\ SkipPaddingByte(k, w).end = w.end - Skipped(k, w)
              /\ SkipPaddingByte(k, w).more <=> ByteAt(k, w.offset) = 255
<1> DEFINE b == ByteAt(k, w.offset)  end == w.end - (IF b = 255 THEN 254 ELSE b)
           r == SkipPaddingByte(k, w)
<1>1. w.ok \in BOOLEAN /\ w.more \in BOOLEAN /\ w.offset \in Int /\ w.end \in Int
  BY DEF PadStates
<1>2. b \in Nat
  BY <1>1, BytesAreNumbers
<1>3. r = IF w.ok /\ w.more
            THEN [ok |-> w.offset < w.end /\ w.offset + 1 <= end,
                  offset |-> w.offset + 1, end |-> end, more |-> b = 255]
            ELSE w
  BY DEF SkipPaddingByte
<1> HIDE DEF b, r
<1>4. end \in Int
  BY <1>1, <1>2
<1> HIDE DEF end
<1>5. r \in PadStates
  <2>1. CASE w.ok /\ w.more
    <3>1. w.offset + 1 \in Int /\ (w.offset < w.end /\ w.offset + 1 <= end) \in BOOLEAN
          /\ (b = 255) \in BOOLEAN
      BY <1>1
    <3> QED
      BY <1>3, <1>4, <2>1, <3>1 DEF PadStates
  <2>2. CASE ~(w.ok /\ w.more)
    BY <1>3, <2>2
  <2> QED
    BY <2>1, <2>2
<1>6. end = w.end - Skipped(k, w)
  BY DEF Skipped, end, b
<1>7. CASE w.ok /\ w.more
  <2>1. /\ r.ok <=> w.offset < w.end /\ w.offset + 1 <= end
        /\ r.offset = w.offset + 1 /\ r.end = end /\ (r.more <=> b = 255)
    BY <1>3, <1>7
  <2> QED
    BY <1>5, <1>6, <1>7, <2>1 DEF r, b
<1>8. CASE ~(w.ok /\ w.more)
  <2>1. r = w
    BY <1>3, <1>8
  <2> QED
    BY <1>5, <1>8, <2>1 DEF r
<1> QED
  BY <1>7, <1>8

Measure(k, w) ==
  LET b == ByteAt(k, w.offset) IN IF b >= 252 THEN b + 4 * ByteAt(k, w.offset + 1) ELSE b
Coded(k, w) == IF ByteAt(k, w.offset) >= 252 THEN 2 ELSE 1

LEMMA LengthIsRead ==
  ASSUME NEW k, k.bytes \in Seq(Nat), NEW w \in LengthStates
  PROVE  /\ ReadLength(k, w) \in LengthStates /\ Measure(k, w) \in Nat
         /\ ~w.ok => ReadLength(k, w) = w
         /\ w.ok => /\ ReadLength(k, w).offset = w.offset + Coded(k, w)
                    /\ ReadLength(k, w).end = w.end
                    /\ ReadLength(k, w).declared = w.declared + Measure(k, w)
                    /\ ReadLength(k, w).ok <=>
                         /\ w.offset + Coded(k, w) - 1 < w.end
                         /\ w.declared + Measure(k, w) <= w.end - (w.offset + Coded(k, w))
<1> DEFINE b == ByteAt(k, w.offset)  c == ByteAt(k, w.offset + 1)  wide == b >= 252
           length == IF wide THEN b + 4 * c ELSE b
           next == IF wide THEN w.offset + 2 ELSE w.offset + 1
           fits == /\ w.offset < w.end
                   /\ wide => w.offset + 1 < w.end
                   /\ w.declared + length <= w.end - next
           r == ReadLength(k, w)
<1>1. w.ok \in BOOLEAN /\ w.declared \in Int /\ w.offset \in Int /\ w.end \in Int
  BY DEF LengthStates
<1>2. b \in Nat /\ c \in Nat
  <2>1. w.offset + 1 \in Int
    BY <1>1
  <2> QED
    BY <1>1, <2>1, BytesAreNumbers
<1>3. r = IF ~w.ok THEN w ELSE [w EXCEPT !.ok = fits, !.offset = next, !.declared = w.declared + length]
  BY DEF ReadLength
<1>4. length = Measure(k, w) /\ next = w.offset + Coded(k, w)
  <2> HIDE DEF b, c
  <2>1. wide <=> b >= 252
    OBVIOUS
  <2>2. Coded(k, w) = IF wide THEN 2 ELSE 1
    BY DEF Coded, b
  <2>3. Measure(k, w) = length
    BY DEF Measure, b, c
  <2> QED
    BY <2>2, <2>3
<1> HIDE DEF b, c, r
<1>5. length \in Nat /\ next \in Int
  BY <1>1, <1>2
<1>6. fits <=> w.offset + Coded(k, w) - 1 < w.end /\ w.declared + length <= w.end - next
  <2>1. CASE wide
    <3>1. Coded(k, w) = 2
      BY <2>1 DEF Coded, b
    <3>2. w.offset + 2 - 1 < w.end <=> w.offset + 1 < w.end
      BY <1>1
    <3>3. w.offset + 1 < w.end => w.offset < w.end
      BY <1>1
    <3> HIDE DEF length, next, wide
    <3> QED
      BY <2>1, <3>1, <3>2, <3>3
  <2>2. CASE ~wide
    <3>1. Coded(k, w) = 1
      BY <2>2 DEF Coded, b
    <3>2. w.offset + 1 - 1 < w.end <=> w.offset < w.end
      BY <1>1
    <3> HIDE DEF length, next, wide
    <3> QED
      BY <2>2, <3>1, <3>2
  <2> QED
    BY <2>1, <2>2
<1> HIDE DEF length, next
<1>7. PICK ft \in BOOLEAN : ft <=> fits
  OBVIOUS
<1>8. CASE ~w.ok
  BY <1>3, <1>4, <1>5, <1>8 DEF r
<1>9. CASE w.ok
  <2>1. PICK d \in Int : d = w.declared + length
    BY <1>1, <1>5
  <2>2. PICK x : x = [w EXCEPT !.ok = ft]
    OBVIOUS
  <2>3. x \in LengthStates /\ x.ok = ft /\ x.offset = w.offset /\ x.end = w.end /\ x.declared = w.declared
    BY <2>2 DEF LengthStates
  <2>4. PICK y : y = [x EXCEPT !.offset = next]
    OBVIOUS
  <2>5. y \in LengthStates /\ y.ok = ft /\ y.offset = next /\ y.end = w.end /\ y.declared = w.declared
    BY <1>5, <2>3, <2>4 DEF LengthStates
  <2>6. PICK z : z = [y EXCEPT !.declared = d]
    OBVIOUS
  <2>7. z \in LengthStates /\ z.ok = ft /\ z.offset = next /\ z.end = w.end /\ z.declared = d
    BY <2>1, <2>5, <2>6 DEF LengthStates
  <2>8. fits \in BOOLEAN /\ ft = fits
    BY <1>7
  <2> HIDE DEF fits
  <2>9. r = z
    BY <1>3, <1>9, <2>1, <2>2, <2>4, <2>6, <2>8
  <2> QED
    BY <1>4, <1>5, <1>6, <1>7, <1>9, <2>1, <2>7, <2>9 DEF r
<1> QED
  BY <1>8, <1>9

PadEnd(k, base, m) == FoldLeft(LAMBDA w, i : SkipPaddingByte(k, w), base, [i \in 1 .. m |-> i])
Pads(t, k, base, m) == t[0] = base /\ \A i \in 1 .. m : t[i] = SkipPaddingByte(k, t[i - 1])

LEMMA PadFold ==
  ASSUME NEW k, HasBytes(k), NEW base \in PadStates, NEW m \in Nat
  PROVE  \E t : /\ Pads(t, k, base, m)
                /\ PadEnd(k, base, m) = t[m]
                /\ \A i \in 0 .. m : t[i] \in PadStates
<1> k.bytes \in Seq(Nat)
  BY DEF HasBytes
<1> DEFINE V == PadStates
           F == [y \in (1 .. m) \X V |-> SkipPaddingByte(k, y[2])]
<1>4. ASSUME NEW v \in V PROVE SkipPaddingByte(k, v) \in V
  BY Skips
<1> HIDE DEF V
<1>5. F \in [(1 .. m) \X V -> V]
  <2>1. \A y \in (1 .. m) \X V : y[1] \in 1 .. m /\ y[2] \in V
    OBVIOUS
  <2> QED
    BY <1>4, <2>1
<1> DEFINE P(h) == h = [z \in SUBSET (1 .. m) |-> IF z = {} THEN base ELSE SkipPaddingByte(k, h[z \ {Max(z)}])]
<1>6. \E h : P(h)
  <2>1. PICK h : Folds(h, m, V, base, F)
    <3>1. base \in V
      BY DEF V
    <3> HIDE DEF F
    <3> QED
      BY <1>5, <3>1, FoldExists, Zenon
  <2>2. ASSUME NEW z \in SUBSET (1 .. m), z # {} PROVE h[z] = SkipPaddingByte(k, h[z \ {Max(z)}])
    <3>1. Max(z) \in 1 .. m
      BY <2>2, MaxOf
    <3>2. h[z \ {Max(z)}] \in V /\ h[z] = F[<<Max(z), h[z \ {Max(z)}]>>]
      BY <2>1, <2>2 DEF Folds
    <3>3. F[<<Max(z), h[z \ {Max(z)}]>>] = SkipPaddingByte(k, h[z \ {Max(z)}])
      BY <3>1, <3>2
    <3> QED
      BY <3>1, <3>2, <3>3
  <2>3. h \in [SUBSET (1 .. m) -> V] /\ ({} \in SUBSET (1 .. m) => h[{}] = base)
    BY <2>1 DEF Folds
  <2>4. P(h)
    BY <2>2, <2>3
  <2> QED
    BY <2>4
<1> DEFINE g == CHOOSE h : P(h)
<1>7. P(g)
  BY <1>6
<1>8. PadEnd(k, base, m) = g[1 .. m]
  BY DEF PadEnd, FoldLeft, MapThenFoldSet
<1> HIDE DEF g
<1> DEFINE t == [j \in 0 .. m |-> g[1 .. j]]
<1>9. t[0] = base
  <2>1. 1 .. 0 = {} /\ {} \in SUBSET (1 .. m) /\ 0 \in 0 .. m
    OBVIOUS
  <2>2. g[{}] = base
    BY <1>7, <2>1
  <2> QED
    BY <2>1, <2>2
<1>10. ASSUME NEW j \in 1 .. m PROVE t[j] = SkipPaddingByte(k, t[j - 1])
  <2>1. 1 .. j \in SUBSET (1 .. m) /\ j \in 1 .. j
    OBVIOUS
  <2>2. Max(1 .. j) \in 1 .. j /\ j <= Max(1 .. j)
    BY <2>1, MaxOf
  <2>3. Max(1 .. j) = j /\ (1 .. j) \ {j} = 1 .. j - 1 /\ 1 .. j # {}
    BY <2>1, <2>2
  <2>4. g[1 .. j] = SkipPaddingByte(k, g[(1 .. j) \ {Max(1 .. j)}])
    BY <1>7, <2>1, <2>3
  <2>5. j \in 0 .. m /\ j - 1 \in 0 .. m
    OBVIOUS
  <2> QED
    BY <2>3, <2>4, <2>5
<1>11. t[m] = g[1 .. m]
  OBVIOUS
<1> HIDE DEF t
<1>12. \A j \in 0 .. m : t[j] \in V
  <2> DEFINE T == {j \in 0 .. m : t[j] \in V}
  <2>1. 0 \in T
    BY <1>9 DEF V
  <2>2. ASSUME NEW j \in 1 .. m, j - 1 \in T PROVE j \in T
    <3>1. t[j - 1] \in V /\ j \in 0 .. m
      BY <2>2
    <3> QED
      BY <1>4, <1>10, <3>1
  <2> HIDE DEF T
  <2>3. \A j \in 0 .. m : j \in T
    BY <2>1, <2>2, UpTo
  <2> QED
    BY <2>3 DEF T
<1>13. Pads(t, k, base, m)
  BY <1>9, <1>10 DEF Pads
<1> QED
  BY <1>8, <1>11, <1>12, <1>13 DEF V

MeasureEnd(k, base, m) == FoldLeft(LAMBDA x, i : ReadLength(k, x), base, [i \in 1 .. m |-> i])
Measures(t, k, base, m) == t[0] = base /\ \A i \in 1 .. m : t[i] = ReadLength(k, t[i - 1])

LEMMA MeasureFold ==
  ASSUME NEW k, HasBytes(k), NEW base \in LengthStates, NEW m \in Nat
  PROVE  \E t : /\ Measures(t, k, base, m)
                /\ MeasureEnd(k, base, m) = t[m]
                /\ \A i \in 0 .. m : t[i] \in LengthStates
<1> k.bytes \in Seq(Nat)
  BY DEF HasBytes
<1> DEFINE V == LengthStates
           F == [y \in (1 .. m) \X V |-> ReadLength(k, y[2])]
<1>4. ASSUME NEW v \in V PROVE ReadLength(k, v) \in V
  BY LengthIsRead
<1> HIDE DEF V
<1>5. F \in [(1 .. m) \X V -> V]
  <2>1. \A y \in (1 .. m) \X V : y[1] \in 1 .. m /\ y[2] \in V
    OBVIOUS
  <2> QED
    BY <1>4, <2>1
<1> DEFINE P(h) == h = [z \in SUBSET (1 .. m) |-> IF z = {} THEN base ELSE ReadLength(k, h[z \ {Max(z)}])]
<1>6. \E h : P(h)
  <2>1. PICK h : Folds(h, m, V, base, F)
    <3>1. base \in V
      BY DEF V
    <3> HIDE DEF F
    <3> QED
      BY <1>5, <3>1, FoldExists, Zenon
  <2>2. ASSUME NEW z \in SUBSET (1 .. m), z # {} PROVE h[z] = ReadLength(k, h[z \ {Max(z)}])
    <3>1. Max(z) \in 1 .. m
      BY <2>2, MaxOf
    <3>2. h[z \ {Max(z)}] \in V /\ h[z] = F[<<Max(z), h[z \ {Max(z)}]>>]
      BY <2>1, <2>2 DEF Folds
    <3>3. F[<<Max(z), h[z \ {Max(z)}]>>] = ReadLength(k, h[z \ {Max(z)}])
      BY <3>1, <3>2
    <3> QED
      BY <3>1, <3>2, <3>3
  <2>3. h \in [SUBSET (1 .. m) -> V] /\ ({} \in SUBSET (1 .. m) => h[{}] = base)
    BY <2>1 DEF Folds
  <2>4. P(h)
    BY <2>2, <2>3
  <2> QED
    BY <2>4
<1> DEFINE g == CHOOSE h : P(h)
<1>7. P(g)
  BY <1>6
<1>8. MeasureEnd(k, base, m) = g[1 .. m]
  BY DEF MeasureEnd, FoldLeft, MapThenFoldSet
<1> HIDE DEF g
<1> DEFINE t == [j \in 0 .. m |-> g[1 .. j]]
<1>9. t[0] = base
  <2>1. 1 .. 0 = {} /\ {} \in SUBSET (1 .. m) /\ 0 \in 0 .. m
    OBVIOUS
  <2>2. g[{}] = base
    BY <1>7, <2>1
  <2> QED
    BY <2>1, <2>2
<1>10. ASSUME NEW j \in 1 .. m PROVE t[j] = ReadLength(k, t[j - 1])
  <2>1. 1 .. j \in SUBSET (1 .. m) /\ j \in 1 .. j
    OBVIOUS
  <2>2. Max(1 .. j) \in 1 .. j /\ j <= Max(1 .. j)
    BY <2>1, MaxOf
  <2>3. Max(1 .. j) = j /\ (1 .. j) \ {j} = 1 .. j - 1 /\ 1 .. j # {}
    BY <2>1, <2>2
  <2>4. g[1 .. j] = ReadLength(k, g[(1 .. j) \ {Max(1 .. j)}])
    BY <1>7, <2>1, <2>3
  <2>5. j \in 0 .. m /\ j - 1 \in 0 .. m
    OBVIOUS
  <2> QED
    BY <2>3, <2>4, <2>5
<1>11. t[m] = g[1 .. m]
  OBVIOUS
<1> HIDE DEF t
<1>12. \A j \in 0 .. m : t[j] \in V
  <2> DEFINE T == {j \in 0 .. m : t[j] \in V}
  <2>1. 0 \in T
    BY <1>9 DEF V
  <2>2. ASSUME NEW j \in 1 .. m, j - 1 \in T PROVE j \in T
    <3>1. t[j - 1] \in V /\ j \in 0 .. m
      BY <2>2
    <3> QED
      BY <1>4, <1>10, <3>1
  <2> HIDE DEF T
  <2>3. \A j \in 0 .. m : j \in T
    BY <2>1, <2>2, UpTo
  <2> QED
    BY <2>3 DEF T
<1>13. Measures(t, k, base, m)
  BY <1>9, <1>10 DEF Measures
<1> QED
  BY <1>8, <1>11, <1>12, <1>13 DEF V

(* The padding of a packet: as many 255s as it takes, and the rest.         *)
PadCode(c, z, pad) ==
  /\ c \in Seq(Nat) /\ z \in Nat /\ z > 0 /\ Len(c) = z
  /\ \A i \in 1 .. z - 1 : c[i] = 255
  /\ c[z] = pad - 254 * (z - 1) /\ c[z] \in 0 .. 254

LEMMA PaddingCoded ==
  ASSUME NEW pad \in Nat
  PROVE  \E z : PadCode(CodedPadding(pad), z, pad)
<1>1. CASE pad = 0
  <2>1. CodedPadding(pad) = <<0>>
    BY <1>1 DEF CodedPadding, None
  <2>2. PadCode(<<0>>, 1, pad)
    BY <1>1 DEF PadCode
  <2> QED
    BY <2>1, <2>2
<1>2. CASE pad # 0
  <2>1. PICK q \in Nat : q = (pad - 1) \div 254 /\ 254 * q <= pad - 1 /\ pad - 1 < 254 * q + 254
    <3>1. PICK d \in Nat : d = pad - 1
      BY <1>2
    <3>2. d \div 254 \in Nat /\ 254 * (d \div 254) <= d /\ d < 254 * (d \div 254) + 254
      BY <3>1
    <3> QED
      BY <3>1, <3>2
  <2> DEFINE a == [i \in 1 .. q |-> 255]  b == <<pad - 254 * q>>  c == a \o b
  <2>2. CodedPadding(pad) = c
    BY <1>2, <2>1 DEF CodedPadding, None
  <2>3. pad - 254 * q \in 0 .. 254 /\ pad - 254 * q \in Nat
    BY <2>1
  <2>4. a \in Seq(Nat) /\ Len(a) = q /\ \A i \in 1 .. q : a[i] = 255
    OBVIOUS
  <2>5. b \in Seq(Nat) /\ Len(b) = 1 /\ b[1] = pad - 254 * q
    BY <2>3
  <2> HIDE DEF a, b
  <2>6. /\ c \in Seq(Nat) /\ Len(c) = Len(a) + Len(b)
        /\ \A i \in 1 .. Len(a) : c[i] = a[i]
        /\ \A i \in 1 .. Len(b) : c[Len(a) + i] = b[i]
    <3>1. a \in Seq(Nat) /\ b \in Seq(Nat)
      BY <2>4, <2>5
    <3> QED
      BY <3>1, Joined, Zenon
  <2> HIDE DEF c
  <2>7. (q + 1) - 1 = q /\ 1 \in 1 .. 1 /\ q + 1 \in Nat /\ q + 1 > 0
    BY <2>1
  <2>8. c[q + 1] = pad - 254 * q /\ Len(c) = q + 1 /\ \A i \in 1 .. q : c[i] = 255
    BY <2>4, <2>5, <2>6, <2>7
  <2>9. PadCode(c, q + 1, pad)
    BY <2>3, <2>6, <2>7, <2>8 DEF PadCode
  <2> QED
    BY <2>2, <2>9
<1> QED
  BY <1>1, <1>2

(* A packet whose bytes are three runs, and where a run lies.               *)
Lies(k, offset, b) == \A i \in 1 .. Len(b) : ByteAt(k, offset + i - 1) = b[i]
Holds(k, n) == Len(k.bytes) = n
Consists(k, a, b, c) == k.bytes = (a \o b) \o c

LEMMA BytesAfter ==
  ASSUME NEW a \in Seq(Nat), NEW b \in Seq(Nat), NEW c \in Seq(Nat), NEW k, Consists(k, a, b, c)
  PROVE  /\ HasBytes(k) /\ Holds(k, Len(a) + Len(b) + Len(c))
         /\ Lies(k, Len(a), b) /\ Lies(k, Len(a) + Len(b), c)
<1> DEFINE la == Len(a)  lb == Len(b)  lc == Len(c)  d == a \o b  e == d \o c
<1>0. la \in Nat /\ lb \in Nat /\ lc \in Nat
  BY LenProperties
<1>1. /\ d \in Seq(Nat) /\ Len(d) = la + lb
      /\ \A i \in 1 .. lb : d[la + i] = b[i]
  BY Joined
<1> HIDE DEF d
<1>2. /\ e \in Seq(Nat) /\ Len(e) = la + lb + lc /\ DOMAIN e = 1 .. la + lb + lc
      /\ \A i \in 1 .. la + lb : e[i] = d[i]
      /\ \A i \in 1 .. lc : e[la + lb + i] = c[i]
  <2>1. /\ e \in Seq(Nat) /\ Len(e) = Len(d) + Len(c) /\ DOMAIN e = 1 .. Len(d) + Len(c)
        /\ \A i \in 1 .. Len(d) : e[i] = d[i]
        /\ \A i \in 1 .. Len(c) : e[Len(d) + i] = c[i]
    BY <1>1, Joined
  <2> HIDE DEF e
  <2> QED
    BY <1>1, <2>1
<1> HIDE DEF e, la, lb, lc
<1>3. k.bytes = e
  BY DEF e, d, Consists
<1>4. ASSUME NEW i \in 1 .. lb PROVE ByteAt(k, la + i - 1) = b[i]
  <2>1. (la + i - 1) + 1 = la + i /\ la + i \in 1 .. la + lb /\ la + i \in 1 .. la + lb + lc
    BY <1>0
  <2> QED
    BY <1>1, <1>2, <1>3, <2>1 DEF ByteAt
<1>5. ASSUME NEW i \in 1 .. lc PROVE ByteAt(k, la + lb + i - 1) = c[i]
  <2>1. (la + lb + i - 1) + 1 = la + lb + i /\ la + lb + i \in 1 .. la + lb + lc
    BY <1>0
  <2> QED
    BY <1>2, <1>3, <2>1 DEF ByteAt
<1> QED
  BY <1>2, <1>3, <1>4, <1>5 DEF la, lb, lc, HasBytes, Holds, Lies

LEMMA PadStart ==
  ASSUME NEW e \in Int, NEW b \in BOOLEAN
  PROVE  /\ [NoPadding EXCEPT !.end = e, !.more = b] \in PadStates
         /\ [NoPadding EXCEPT !.end = e, !.more = b].ok = TRUE
         /\ [NoPadding EXCEPT !.end = e, !.more = b].offset = 2
         /\ [NoPadding EXCEPT !.end = e, !.more = b].end = e
         /\ [NoPadding EXCEPT !.end = e, !.more = b].more = b
<1>1. NoPadding \in PadStates /\ NoPadding.ok = TRUE /\ NoPadding.offset = 2
  BY DEF NoPadding, PadStates
<1>2. PICK x : x = [NoPadding EXCEPT !.end = e]
  OBVIOUS
<1>3. x \in PadStates /\ x.ok = TRUE /\ x.offset = 2 /\ x.end = e
  BY <1>1, <1>2 DEF PadStates
<1>4. PICK y : y = [x EXCEPT !.more = b]
  OBVIOUS
<1>5. y \in PadStates /\ y.ok = TRUE /\ y.offset = 2 /\ y.end = e /\ y.more = b
  BY <1>3, <1>4 DEF PadStates
<1>6. y = [NoPadding EXCEPT !.end = e, !.more = b]
  BY <1>2, <1>4
<1> QED
  BY <1>5, <1>6

Padded(k) == k.size \in Int /\ k.padded = TRUE

(* The loop over the padding lengths skips the padding, or runs off the     *)
(* packet.                                                                  *)
LEMMA PaddingSkipped ==
  ASSUME NEW k, Padded(k), NEW pad \in Nat, NEW rest \in Seq(Nat),
         NEW a \in Seq(Nat), Len(a) = 2, NEW c, NEW z, PadCode(c, z, pad), Consists(k, a, c, rest)
  PROVE  /\ AfterPadding(k) \in PadStates
         /\ AfterPadding(k).ok <=> 2 + z <= k.size - pad
         /\ AfterPadding(k).ok => AfterPadding(k).offset = 2 + z /\ AfterPadding(k).end = k.size - pad
<1> DEFINE m == Len(k.bytes)
           base == [NoPadding EXCEPT !.end = k.size, !.more = k.padded]
<1>1. z \in Nat /\ z > 0 /\ Len(c) = z
  BY DEF PadCode
<1>2. c \in Seq(Nat) /\ (\A i \in 1 .. z - 1 : c[i] = 255) /\ c[z] = pad - 254 * (z - 1) /\ c[z] \in 0 .. 254
  BY DEF PadCode
<1>3. c \in Seq(Nat)
  BY DEF PadCode
<1>4. HasBytes(k) /\ m = 2 + z + Len(rest) /\ \A i \in 1 .. z : ByteAt(k, 2 + i - 1) = c[i]
  <2>1. HasBytes(k)
    BY <1>3, BytesAfter
  <2>2. Holds(k, Len(a) + Len(c) + Len(rest))
    BY <1>3, BytesAfter
  <2>3. Lies(k, Len(a), c)
    BY <1>3, BytesAfter
  <2> QED
    BY <1>1, <2>1, <2>2, <2>3 DEF Lies, Holds
<1>5. m \in Nat /\ z <= m
  <2>1. Len(rest) \in Nat
    BY LenProperties
  <2> QED
    BY <1>1, <1>4, <2>1
<1>6. base \in PadStates /\ base.ok = TRUE /\ base.offset = 2 /\ base.end = k.size /\ base.more = TRUE
  <2>1. k.size \in Int /\ k.padded = TRUE
    BY DEF Padded
  <2> QED
    BY <2>1, PadStart
<1>7. AfterPadding(k) = PadEnd(k, base, m)
  BY DEF AfterPadding, PadEnd
<1> HIDE DEF base, m
<1>8. PICK t : Pads(t, k, base, m) /\ PadEnd(k, base, m) = t[m] /\ \A i \in 0 .. m : t[i] \in PadStates
  BY <1>4, <1>5, <1>6, PadFold
<1>9. t[0] = base /\ \A i \in 1 .. m : t[i] = SkipPaddingByte(k, t[i - 1])
  BY <1>8 DEF Pads
<1>10. PICK size \in Int : size = k.size
  BY DEF Padded
<1> DEFINE Open(i) == /\ t[i].ok <=> (i = 0 \/ 2 + i <= size - 254 * i)
                      /\ t[i].ok => t[i].offset = 2 + i /\ t[i].end = size - 254 * i /\ t[i].more
           Done(i) == /\ t[i].ok <=> 2 + z <= size - pad
                      /\ t[i].ok => t[i].offset = 2 + z /\ t[i].end = size - pad /\ ~t[i].more
           K == {i \in 0 .. m : IF i < z THEN Open(i) ELSE Done(i)}
<1>11. 0 \in K
  BY <1>1, <1>5, <1>6, <1>9, <1>10
<1>12. ASSUME NEW i \in 1 .. m, i - 1 \in K PROVE i \in K
  <2>1. PICK j \in Nat : j = i - 1 /\ i = j + 1 /\ j \in 0 .. m /\ i \in 0 .. m
    BY <1>5
  <2>2. PICK w \in PadStates : w = t[j]
    BY <1>8, <2>1
  <2>3. PICK r : r = t[i]
    OBVIOUS
  <2>4. r = SkipPaddingByte(k, w)
    BY <1>9, <2>1, <2>2, <2>3
  <2>5. /\ ~(w.ok /\ w.more) => r = w
        /\ w.ok /\ w.more => /\ r.ok <=> w.offset < w.end /\ w.offset + 1 <= w.end - Skipped(k, w)
                             /\ r.offset = w.offset + 1 /\ r.end = w.end - Skipped(k, w)
                             /\ r.more <=> ByteAt(k, w.offset) = 255
    BY <1>4, <2>4, Skips DEF HasBytes
  <2>6. CASE i < z
    <3>1. /\ w.ok <=> (j = 0 \/ 2 + j <= size - 254 * j)
          /\ w.ok => w.offset = 2 + j /\ w.end = size - 254 * j /\ w.more
      <4>1. Open(j)
        BY <1>1, <1>12, <2>1, <2>6
      <4> QED
        BY <2>2, <4>1
    <3>2. CASE w.ok
      <4>1. ByteAt(k, 2 + j) = 255
        <5>1. i \in 1 .. z /\ i \in 1 .. z - 1 /\ 2 + i - 1 = 2 + j
          BY <1>1, <2>1, <2>6
        <5>2. ByteAt(k, 2 + i - 1) = c[i] /\ c[i] = 255
          BY <1>2, <1>4, <5>1
        <5> QED
          BY <5>1, <5>2
      <4>2. Skipped(k, w) = 254 /\ ByteAt(k, w.offset) = 255
        BY <3>1, <3>2, <4>1 DEF Skipped
      <4>3. /\ r.ok <=> 2 + j < size - 254 * j /\ 2 + j + 1 <= size - 254 * j - 254
            /\ r.offset = 2 + j + 1 /\ r.end = size - 254 * j - 254 /\ r.more
        BY <2>5, <3>1, <3>2, <4>2
      <4>4. Open(i)
        <5>1. /\ 2 + j + 1 = 2 + i /\ size - 254 * j - 254 = size - 254 * i /\ i # 0
              /\ 2 + i <= size - 254 * i => 2 + j < size - 254 * j
          BY <2>1
        <5> QED
          BY <2>3, <4>3, <5>1
      <4> QED
        BY <2>1, <2>6, <4>4
    <3>3. CASE ~w.ok
      <4>1. ~r.ok
        BY <2>5, <3>3
      <4>2. ~(2 + i <= size - 254 * i) /\ i # 0
        BY <1>10, <2>1, <3>1, <3>3
      <4>3. Open(i)
        BY <2>3, <4>1, <4>2
      <4> QED
        BY <2>1, <2>6, <4>3
    <3> QED
      BY <3>2, <3>3
  <2>7. CASE i = z
    <3>1. /\ w.ok <=> (j = 0 \/ 2 + j <= size - 254 * j)
          /\ w.ok => w.offset = 2 + j /\ w.end = size - 254 * j /\ w.more
      <4>1. Open(j)
        BY <1>1, <1>12, <2>1, <2>7
      <4> QED
        BY <2>2, <4>1
    <3>2. PICK b \in 0 .. 254 : b = c[z] /\ b = pad - 254 * j
      BY <1>2, <2>1, <2>7
    <3>3. CASE w.ok
      <4>1. ByteAt(k, 2 + j) = b
        <5>1. i \in 1 .. z /\ 2 + i - 1 = 2 + j
          BY <1>1, <2>1, <2>7
        <5> QED
          BY <1>4, <2>7, <3>2, <5>1
      <4>2. b # 255
        BY <3>2
      <4>3. Skipped(k, w) = b /\ ByteAt(k, w.offset) # 255
        BY <3>1, <3>3, <4>1, <4>2 DEF Skipped
      <4>4. /\ r.ok <=> 2 + j < size - 254 * j /\ 2 + j + 1 <= size - 254 * j - b
            /\ r.offset = 2 + j + 1 /\ r.end = size - 254 * j - b /\ ~r.more
        BY <2>5, <3>1, <3>3, <4>3
      <4>5. Done(i)
        <5>1. /\ 2 + j + 1 = 2 + z /\ size - 254 * j - b = size - pad
              /\ 2 + z <= size - pad => 2 + j < size - 254 * j
          <6>1. b \in Nat /\ j \in Nat /\ z = j + 1 /\ b = pad - 254 * j
            BY <2>1, <2>7, <3>2
          <6> QED
            BY <6>1
        <5> QED
          BY <2>3, <4>4, <5>1
      <4> QED
        BY <2>1, <2>7, <4>5
    <3>4. CASE ~w.ok
      <4>1. ~r.ok
        BY <2>5, <3>4
      <4>2. ~(2 + z <= size - pad)
        <5>1. ~(2 + j <= size - 254 * j)
          BY <3>1, <3>4
        <5>2. size - pad <= size - 254 * j /\ 2 + z = 2 + j + 1
          BY <2>1, <2>7, <3>2
        <5> QED
          BY <2>1, <5>1, <5>2
      <4>3. Done(i)
        BY <2>3, <4>1, <4>2
      <4> QED
        BY <2>1, <2>7, <4>3
    <3> QED
      BY <3>3, <3>4
  <2>8. CASE i > z
    <3>1. /\ w.ok <=> 2 + z <= size - pad
          /\ w.ok => w.offset = 2 + z /\ w.end = size - pad /\ ~w.more
      BY <1>1, <1>12, <2>1, <2>2, <2>8
    <3>2. r = w
      BY <2>5, <3>1
    <3>3. Done(i)
      BY <2>3, <3>1, <3>2
    <3> QED
      BY <1>1, <2>1, <2>8, <3>3
  <2> QED
    BY <1>1, <2>1, <2>6, <2>7, <2>8
<1> HIDE DEF K
<1>13. m \in K
  <2>1. \A i \in 0 .. m : i \in K
    BY <1>5, <1>11, <1>12, UpTo
  <2> QED
    BY <1>5, <2>1
<1>14. Done(m)
  BY <1>1, <1>5, <1>13 DEF K
<1>15. t[m] \in PadStates
  BY <1>5, <1>8
<1> QED
  BY <1>7, <1>8, <1>10, <1>14, <1>15

(* p gives where each of the runs that b joins starts.                      *)
RunStarts(p, ss, b) ==
  /\ p \in [0 .. Len(ss) -> Nat] /\ p[0] = 0 /\ Len(b) = p[Len(ss)]
  /\ \A j \in 1 .. Len(ss) : p[j] = p[j - 1] + Len(ss[j])
  /\ \A j \in 1 .. Len(ss) : \A i \in 1 .. Len(ss[j]) : b[p[j - 1] + i] = ss[j][i]

LEMMA Positioned ==
  ASSUME NEW ss \in Seq(Seq(Nat))
  PROVE  FlattenSeq(ss) \in Seq(Nat) /\ \E p : RunStarts(p, ss, FlattenSeq(ss))
<1> DEFINE m == Len(ss)
<1>1. m \in Nat /\ \A j \in 1 .. m : ss[j] \in Seq(Nat) /\ Len(ss[j]) \in Nat
  BY LenProperties, ElementOfSeq
<1>2. PICK h \in [0 .. m -> Seq(Nat)] : Flattens(h, ss) /\ FlattenSeq(ss) = h[m]
  BY Flattened
<1>3. h[0] = <<>> /\ \A j \in 1 .. m : h[j] = h[j - 1] \o ss[j]
  BY <1>2 DEF Flattens
<1> HIDE DEF m
<1>4. \A j \in 0 .. m : h[j] \in Seq(Nat) /\ Len(h[j]) \in Nat
  BY <1>2, LenProperties
<1>5. ASSUME NEW j \in 1 .. m
      PROVE  /\ Len(h[j]) = Len(h[j - 1]) + Len(ss[j])
             /\ \A i \in 1 .. Len(h[j - 1]) : h[j][i] = h[j - 1][i]
             /\ \A i \in 1 .. Len(ss[j]) : h[j][Len(h[j - 1]) + i] = ss[j][i]
  <2>1. j - 1 \in 0 .. m
    BY <1>1
  <2>2. PICK a \in Seq(Nat) : a = h[j - 1]
    BY <1>4, <2>1
  <2>3. PICK b \in Seq(Nat) : b = ss[j]
    BY <1>1
  <2>4. h[j] = a \o b
    BY <1>3, <2>2, <2>3
  <2>5. /\ Len(a \o b) = Len(a) + Len(b)
        /\ \A i \in 1 .. Len(a) : (a \o b)[i] = a[i]
        /\ \A i \in 1 .. Len(b) : (a \o b)[Len(a) + i] = b[i]
    BY Joined
  <2> QED
    BY <2>2, <2>3, <2>4, <2>5
<1> DEFINE Run(c, j) == /\ Len(h[j]) <= Len(h[c])
                        /\ \A i \in 1 .. Len(ss[j]) : h[c][Len(h[j - 1]) + i] = ss[j][i]
           K == {c \in 0 .. m : \A j \in 1 .. c : Run(c, j)}
<1>6. 0 \in K
  BY <1>1
<1>7. ASSUME NEW c \in 1 .. m, c - 1 \in K PROVE c \in K
  <2>1. PICK d : d = c - 1
    OBVIOUS
  <2>2. d \in 0 .. m /\ c \in 0 .. m /\ d \in Nat
    BY <1>1, <2>1
  <2>3. /\ Len(h[c]) = Len(h[d]) + Len(ss[c]) /\ Len(ss[c]) \in Nat
        /\ \A i \in 1 .. Len(h[d]) : h[c][i] = h[d][i]
        /\ \A i \in 1 .. Len(ss[c]) : h[c][Len(h[d]) + i] = ss[c][i]
    BY <1>1, <1>5, <2>1
  <2>4. ASSUME NEW j \in 1 .. c PROVE Run(c, j)
    <3>1. CASE j = c
      <4>1. Len(h[c]) <= Len(h[c])
        BY <1>4, <2>2
      <4> QED
        BY <2>1, <2>3, <3>1, <4>1
    <3>2. CASE j # c
      <4>1. j \in 1 .. d /\ j \in 1 .. m /\ j \in 0 .. m /\ j - 1 \in 0 .. m
        BY <2>1, <3>2, <1>1
      <4>2. Run(d, j)
        BY <1>7, <2>1, <4>1
      <4>3. PICK x \in Nat, y \in Nat, u \in Nat, v \in Nat, q \in Nat :
              x = Len(h[j - 1]) /\ y = Len(h[j]) /\ u = Len(h[d]) /\ v = Len(h[c]) /\ q = Len(ss[j])
        BY <1>1, <1>4, <2>2, <4>1
      <4>4. y = x + q /\ y <= u /\ u <= v
        <5>1. y = x + q
          BY <1>5, <4>1, <4>3
        <5>2. y <= u
          BY <4>2, <4>3
        <5>3. u <= v
          <6>1. PICK e \in Nat : e = Len(ss[c])
            BY <2>3
          <6>2. v = u + e
            BY <2>3, <4>3, <6>1
          <6> QED
            BY <6>2
        <5> QED
          BY <5>1, <5>2, <5>3
      <4>5. ASSUME NEW i \in 1 .. q PROVE h[c][x + i] = ss[j][i]
        <5>1. x + i \in 1 .. u
          BY <4>4
        <5>2. h[c][x + i] = h[d][x + i]
          BY <2>3, <4>3, <5>1
        <5>3. h[d][x + i] = ss[j][i]
          BY <4>2, <4>3
        <5> QED
          BY <5>2, <5>3
      <4>6. y <= v
        BY <4>4
      <4> QED
        BY <4>3, <4>5, <4>6
    <3> QED
      BY <3>1, <3>2
  <2> HIDE DEF Run
  <2> QED
    BY <2>2, <2>4
<1> HIDE DEF K
<1>8. m \in K
  <2>1. \A c \in 0 .. m : c \in K
    BY <1>1, <1>6, <1>7, UpTo
  <2> QED
    BY <1>1, <2>1
<1>9. \A j \in 1 .. m : Run(m, j)
  BY <1>8 DEF K
<1> DEFINE p == [j \in 0 .. m |-> Len(h[j])]
<1>10. p \in [0 .. m -> Nat]
  BY <1>4
<1>11. p[0] = 0
  <2>1. Len(<<>>) = 0 /\ 0 \in 0 .. m
    BY <1>1
  <2> QED
    BY <1>3, <2>1
<1>12. p[m] = Len(h[m])
  BY <1>1
<1>13. ASSUME NEW j \in 1 .. m PROVE p[j] = Len(h[j]) /\ p[j - 1] = Len(h[j - 1])
  <2>1. j \in 0 .. m /\ j - 1 \in 0 .. m
    BY <1>1
  <2> QED
    BY <2>1
<1> HIDE DEF p
<1>14. RunStarts(p, ss, h[m])
  <2>1. \A j \in 1 .. m : p[j] = p[j - 1] + Len(ss[j])
    BY <1>5, <1>13
  <2>2. \A j \in 1 .. m : \A i \in 1 .. Len(ss[j]) : h[m][p[j - 1] + i] = ss[j][i]
    BY <1>9, <1>13
  <2> QED
    BY <1>10, <1>11, <1>12, <2>1, <2>2 DEF RunStarts, m
<1>15. h[m] \in Seq(Nat)
  BY <1>1, <1>4
<1> QED
  BY <1>2, <1>14, <1>15

(* RunStarts and partial sums only grow.                                    *)
LEMMA Grows ==
  ASSUME NEW m \in Nat, NEW p, NEW u,
         \A j \in 0 .. m : p[j] \in Int /\ u[j] \in Nat,
         \A j \in 1 .. m : p[j] = p[j - 1] + u[j]
  PROVE  \A j \in 0 .. m : p[j] <= p[m]
<1> DEFINE K == {c \in 0 .. m : \A j \in 0 .. c : p[j] <= p[c]}
<1>1. 0 \in K
  <2>1. 0 \in 0 .. m /\ p[0] \in Int
    OBVIOUS
  <2> QED
    BY <2>1
<1>2. ASSUME NEW c \in 1 .. m, c - 1 \in K PROVE c \in K
  <2>1. c - 1 \in 0 .. m /\ c \in 0 .. m
    OBVIOUS
  <2>2. PICK x \in Int, y \in Int, z \in Nat : x = p[c - 1] /\ y = p[c] /\ z = u[c] /\ y = x + z
    BY <2>1
  <2>3. ASSUME NEW j \in 0 .. c PROVE p[j] <= p[c]
    <3>1. CASE j = c
      BY <2>2, <3>1
    <3>2. CASE j # c
      <4>1. j \in 0 .. c - 1 /\ j \in 0 .. m
        BY <3>2
      <4>2. PICK q \in Int : q = p[j] /\ q <= x
        BY <1>2, <2>2, <4>1
      <4> QED
        BY <2>2, <4>2
    <3> QED
      BY <3>1, <3>2
  <2> QED
    BY <2>1, <2>3
<1> HIDE DEF K
<1>3. \A c \in 0 .. m : c \in K
  BY <1>1, <1>2, UpTo
<1>4. m \in K
  BY <1>3
<1> QED
  BY <1>4 DEF K

(* A coded length has one or two bytes, and they give the length back.      *)
CodeOf(c, n) ==
  /\ c \in Seq(Nat)
  /\ IF Len(c) = 2 THEN c[1] >= 252 /\ c[1] + 4 * c[2] = n ELSE Len(c) = 1 /\ c[1] < 252 /\ c[1] = n

LEMMA LengthCoded ==
  ASSUME NEW n \in Nat
  PROVE  CodeOf(CodedLength(n), n)
<1>1. CASE n < 252
  <2>1. CodedLength(n) = <<n>>
    BY <1>1 DEF CodedLength
  <2> QED
    BY <1>1, <2>1 DEF CodeOf
<1>2. CASE n >= 252
  <2>1. PICK r \in 0 .. 3 : r = n % 4
    OBVIOUS
  <2>2. PICK q \in Nat : q = n \div 4 /\ n = 4 * q + r
    BY <2>1
  <2>3. (n - (252 + r)) \div 4 = q - 63 /\ q - 63 \in Nat
    <3>1. n - (252 + r) = 4 * (q - 63) /\ q >= 63
      BY <1>2, <2>1, <2>2
    <3>2. PICK e \in Nat : e = q - 63
      BY <3>1
    <3>3. (4 * e) \div 4 = e
      OBVIOUS
    <3> QED
      BY <3>1, <3>2, <3>3
  <2>4. CodedLength(n) = <<252 + r, (n - (252 + r)) \div 4>>
    BY <1>2, <2>1 DEF CodedLength
  <2>5. CodedLength(n) = <<252 + r, q - 63>>
    BY <2>3, <2>4
  <2>6. (252 + r) + 4 * (q - 63) = n /\ 252 + r >= 252 /\ 252 + r \in Nat
    BY <2>1, <2>2
  <2> QED
    BY <2>3, <2>5, <2>6 DEF CodeOf
<1> QED
  BY <1>1, <1>2

LengthRuns(sizes) == [i \in 1 .. Len(sizes) - 1 |-> CodedLength(sizes[i])]
Opens(w, ok, start, end) == w.ok = ok /\ w.offset = start /\ w.end = end

(* Where the frames end, delta bytes from where they were encoded to end.   *)
Closes(end, start, sizes, delta) ==
  end = start + Len(FlattenSeq(LengthRuns(sizes))) + Total(sizes) + delta

LEMMA OneOrTwo == ASSUME NEW n \in 1 .. 2 PROVE n \in Nat /\ n >= 1 /\ n <= 2
  OBVIOUS

LEMMA RunsOfLengths ==
  ASSUME NEW sizes \in Seq(Nat), NEW m \in Nat, Len(sizes) = m + 1
  PROVE  /\ LengthRuns(sizes) \in Seq(Seq(Nat)) /\ Len(LengthRuns(sizes)) = m
         /\ \A j \in 1 .. m : CodeOf(LengthRuns(sizes)[j], sizes[j]) /\ Len(LengthRuns(sizes)[j]) \in 1 .. 2
<1> DEFINE L == LengthRuns(sizes)
<1>1. L = [i \in 1 .. m |-> CodedLength(sizes[i])]
  <2>1. Len(sizes) - 1 = m
    OBVIOUS
  <2> QED
    BY <2>1 DEF LengthRuns
<1>2. ASSUME NEW j \in 1 .. m PROVE sizes[j] \in Nat
  BY ElementOfSeq
<1>3. ASSUME NEW j \in 1 .. m PROVE CodeOf(CodedLength(sizes[j]), sizes[j])
  BY <1>2, LengthCoded
<1>4. ASSUME NEW j \in 1 .. m PROVE CodedLength(sizes[j]) \in Seq(Nat) /\ Len(CodedLength(sizes[j])) \in 1 .. 2
  BY <1>3 DEF CodeOf
<1> HIDE DEF L
<1>5. L \in Seq(Seq(Nat)) /\ Len(L) = m
  BY <1>1, <1>4
<1>6. \A j \in 1 .. m : L[j] = CodedLength(sizes[j])
  BY <1>1
<1> QED
  BY <1>3, <1>4, <1>5, <1>6 DEF L

LEMMA LengthsMatch ==
  ASSUME NEW k, HasBytes(k), NEW sizes \in Seq(Nat), NEW m \in Nat, Len(sizes) = m + 1,
         NEW delta \in Int, NEW start \in Nat, NEW end \in Int, NEW ok \in BOOLEAN,
         NEW w, Opens(w, ok, start, end), Lies(k, start, FlattenSeq(LengthRuns(sizes))),
         Closes(end, start, sizes, delta)
  PROVE  MatchesLengths(k, w, m + 1) <=> ok /\ sizes[m + 1] + delta \in 0 .. MAX_FRAME_BYTES
<1> DEFINE L == LengthRuns(sizes)  b == FlattenSeq(L)
           base == [ok |-> w.ok, offset |-> w.offset, end |-> w.end, declared |-> 0]
<1>1. L \in Seq(Seq(Nat)) /\ Len(L) = m /\ \A j \in 1 .. m : CodeOf(L[j], sizes[j]) /\ Len(L[j]) \in 1 .. 2
  BY RunsOfLengths
<1> HIDE DEF L
<1>2. b \in Seq(Nat) /\ \E p : RunStarts(p, L, b)
  BY <1>1, Positioned
<1> HIDE DEF b
<1>3. PICK p : RunStarts(p, L, b)
  BY <1>2
<1>4. /\ p \in [0 .. m -> Nat] /\ p[0] = 0 /\ Len(b) = p[m]
      /\ \A j \in 1 .. m : p[j] = p[j - 1] + Len(L[j])
      /\ \A j \in 1 .. m : \A i \in 1 .. Len(L[j]) : b[p[j - 1] + i] = L[j][i]
  BY <1>1, <1>3 DEF RunStarts
<1>5. sizes \in Seq(Int) /\ \A j \in 1 .. m + 1 : sizes[j] \in Nat
  BY ElementOfSeq
<1>6. PICK S : Sums(S, sizes) /\ Total(sizes) = S[m + 1]
  <2>1. \E S : Sums(S, sizes) /\ Total(sizes) = S[Len(sizes)]
    BY <1>5, TotalSums
  <2> QED
    BY <2>1
<1>7. /\ \A j \in 0 .. m + 1 : S[j] \in Int
      /\ S[0] = 0 /\ \A j \in 1 .. m + 1 : S[j] = S[j - 1] + sizes[j]
  BY <1>6 DEF Sums
<1>8. \A j \in 0 .. m : p[j] <= p[m]
  <2> DEFINE u == [j \in 0 .. m |-> IF j = 0 THEN 0 ELSE Len(L[j])]
  <2>1. \A j \in 0 .. m : p[j] \in Int /\ u[j] \in Nat
    BY <1>1, <1>4
  <2>2. \A j \in 1 .. m : p[j] = p[j - 1] + u[j]
    BY <1>4
  <2> HIDE DEF u
  <2> QED
    BY <2>1, <2>2, Grows
<1>9. \A j \in 0 .. m : S[j] <= S[m]
  <2> DEFINE u == [j \in 0 .. m |-> IF j = 0 THEN 0 ELSE sizes[j]]
  <2>1. \A j \in 0 .. m : S[j] \in Int /\ u[j] \in Nat
    BY <1>5, <1>7
  <2>2. \A j \in 1 .. m : S[j] = S[j - 1] + u[j]
    BY <1>7
  <2> HIDE DEF u
  <2> QED
    BY <2>1, <2>2, Grows
<1>10. PICK last \in Nat, sum \in Int, len \in Nat :
         /\ last = sizes[m + 1] /\ sum = S[m] /\ len = p[m] /\ Total(sizes) = sum + last
         /\ end = start + len + sum + last + delta /\ sum >= 0
  <2>1. m + 1 \in 1 .. m + 1 /\ (m + 1) - 1 = m /\ m \in 0 .. m + 1 /\ m \in 0 .. m /\ 0 \in 0 .. m
    OBVIOUS
  <2>2. sizes[m + 1] \in Nat /\ S[m] \in Int /\ p[m] \in Nat /\ S[m + 1] = S[m] + sizes[m + 1]
    BY <1>4, <1>5, <1>7, <2>1
  <2>3. S[m] >= 0
    BY <1>7, <1>9, <2>1
  <2>4. end = start + p[m] + (S[m] + sizes[m + 1]) + delta
    BY <1>4, <1>6, <2>2 DEF b, L, Closes
  <2> QED
    BY <1>6, <2>2, <2>3, <2>4
<1> last \in Nat /\ sum \in Int /\ len \in Nat
  BY <1>10
<1>24. end = start + len + sum + last + delta /\ sum >= 0
  BY <1>10
<1>11. base \in LengthStates /\ base.ok = ok /\ base.offset = start /\ base.end = end /\ base.declared = 0
  BY DEF LengthStates, Opens
<1> HIDE DEF base
<1>12. PICK t : Measures(t, k, base, m) /\ MeasureEnd(k, base, m) = t[m] /\ \A i \in 0 .. m : t[i] \in LengthStates
  BY <1>11, MeasureFold
<1>13. t[0] = base /\ \A j \in 1 .. m : t[j] = ReadLength(k, t[j - 1])
  BY <1>12 DEF Measures
<1>14. ASSUME NEW j \in 1 .. m
       PROVE  /\ ByteAt(k, start + p[j - 1]) >= 252 <=> Len(L[j]) = 2
              /\ ByteAt(k, start + p[j - 1]) = L[j][1]
              /\ Len(L[j]) = 2 => ByteAt(k, start + p[j - 1] + 1) = L[j][2]
  <2>1. j - 1 \in 0 .. m /\ j \in 0 .. m
    OBVIOUS
  <2>2. PICK x \in Nat, n \in Nat : x = p[j - 1] /\ n = Len(L[j]) /\ n >= 1 /\ n <= 2
    <3>1. p[j - 1] \in Nat
      BY <1>4, <2>1
    <3>2. Len(L[j]) \in Nat /\ Len(L[j]) >= 1 /\ Len(L[j]) <= 2
      <4>1. Len(L[j]) \in 1 .. 2
        BY <1>1
      <4> QED
        BY <4>1, OneOrTwo, Zenon
    <3> QED
      BY <3>1, <3>2
  <2>9. PICK y \in Nat : y = p[j] /\ y = x + n
    BY <1>4, <2>1, <2>2
  <2> x \in Nat /\ y \in Nat /\ n \in Nat /\ n >= 1 /\ n <= 2 /\ y = x + n
    BY <2>2, <2>9
  <2>3. y <= len
    BY <1>8, <1>10, <2>1, <2>9
  <2>4. ASSUME NEW i \in 1 .. n PROVE ByteAt(k, start + (x + i) - 1) = L[j][i]
    <3>1. x + i \in 1 .. len
      BY <2>3
    <3>2. Len(b) = len /\ b[x + i] = L[j][i]
      BY <1>4, <1>10, <2>2
    <3>3. \A e \in 1 .. Len(b) : ByteAt(k, start + e - 1) = b[e]
      BY DEF Lies, b, L
    <3> QED
      BY <3>1, <3>2, <3>3
  <2>5. start + (x + 1) - 1 = start + x /\ start + (x + 2) - 1 = start + x + 1 /\ 1 \in 1 .. n
    OBVIOUS
  <2>6. ByteAt(k, start + x) = L[j][1]
    BY <2>4, <2>5
  <2>7. n = 2 => ByteAt(k, start + x + 1) = L[j][2]
    <3>1. n = 2 => 2 \in 1 .. n
      OBVIOUS
    <3> QED
      BY <2>4, <2>5, <3>1
  <2>8. L[j][1] >= 252 <=> n = 2
    <3>1. CodeOf(L[j], sizes[j])
      BY <1>1
    <3>2. CASE n = 2
      BY <2>2, <3>1, <3>2 DEF CodeOf
    <3>3. CASE n # 2
      <4>1. L[j] \in Seq(Nat) /\ Len(L[j]) = 1 /\ L[j][1] < 252
        BY <2>2, <3>1, <3>3 DEF CodeOf
      <4>2. L[j][1] \in Nat
        BY <4>1, ElementOfSeq
      <4>3. ~(L[j][1] >= 252)
        BY <4>1, <4>2
      <4> QED
        BY <3>3, <4>3
    <3> QED
      BY <3>2, <3>3
  <2> QED
    BY <2>2, <2>6, <2>7, <2>8
<1> DEFINE Tracks(j) == t[j].ok => ok /\ t[j].offset = start + p[j] /\ t[j].declared = S[j] /\ t[j].end = end
           Stays(j) == ok /\ last + delta >= 0 => t[j].ok
           K == {j \in 0 .. m : Tracks(j) /\ Stays(j)}
<1>15. 0 \in K
  BY <1>4, <1>7, <1>11, <1>13
<1>16. ASSUME NEW j \in 1 .. m, j - 1 \in K PROVE j \in K
  <2>1. PICK i : i = j - 1
    OBVIOUS
  <2>2. i \in 0 .. m /\ j \in 0 .. m
    BY <2>1
  <2>3. PICK v \in LengthStates : v = t[i]
    BY <1>12, <2>2
  <2>4. PICK r : r = t[j]
    OBVIOUS
  <2>5. r = ReadLength(k, v)
    BY <1>13, <2>1, <2>3, <2>4
  <2>6. /\ Measure(k, v) \in Nat /\ (~v.ok => r = v)
        /\ v.ok => /\ r.offset = v.offset + Coded(k, v) /\ r.end = v.end
                   /\ r.declared = v.declared + Measure(k, v)
                   /\ r.ok <=> /\ v.offset + Coded(k, v) - 1 < v.end
                               /\ v.declared + Measure(k, v) <= v.end - (v.offset + Coded(k, v))
    <3>1. k.bytes \in Seq(Nat)
      BY DEF HasBytes
    <3> QED
      BY <2>5, <3>1, LengthIsRead
  <2>7. Tracks(i) /\ Stays(i)
    BY <1>16, <2>1
  <2>8. CASE ~v.ok
    BY <2>2, <2>3, <2>4, <2>6, <2>7, <2>8
  <2>9. CASE v.ok
    <3>1. ok /\ v.offset = start + p[i] /\ v.declared = S[i] /\ v.end = end
      BY <2>3, <2>7, <2>9
    <3>2. PICK n \in Nat, size \in Nat, x \in Nat, y \in Nat, c \in Int, d \in Int :
            /\ n >= 1 /\ n <= 2 /\ n = Len(L[j]) /\ size = sizes[j] /\ x = p[i] /\ y = p[j] /\ c = S[i] /\ d = S[j]
            /\ y = x + n /\ d = c + size /\ y <= len /\ d <= sum
      <4>1. i \in 0 .. m + 1 /\ j \in 0 .. m + 1 /\ j \in 1 .. m + 1
        BY <2>2
      <4>2. Len(L[j]) \in 1 .. 2 /\ sizes[j] \in Nat /\ p[i] \in Nat /\ p[j] \in Nat /\ S[i] \in Int /\ S[j] \in Int
        BY <1>1, <1>4, <1>5, <1>7, <2>2, <4>1
      <4>3. p[j] = p[i] + Len(L[j]) /\ S[j] = S[i] + sizes[j]
        BY <1>4, <1>7, <2>1, <4>1
      <4>4. p[j] <= len /\ S[j] <= sum
        BY <1>8, <1>9, <1>10, <2>2
      <4> QED
        <5>1. Len(L[j]) \in Nat /\ Len(L[j]) >= 1 /\ Len(L[j]) <= 2
          BY <4>2, OneOrTwo, Zenon
        <5> QED
          BY <4>2, <4>3, <4>4, <5>1
    <3> n \in Nat /\ size \in Nat /\ x \in Nat /\ y \in Nat /\ c \in Int /\ d \in Int /\ n >= 1 /\ n <= 2
      BY <3>2
    <3>8. y = x + n /\ d = c + size /\ y <= len /\ d <= sum
      BY <3>2
    <3>3. Coded(k, v) = n /\ Measure(k, v) = size
      <4>1. /\ ByteAt(k, start + x) >= 252 <=> n = 2
            /\ ByteAt(k, start + x) = L[j][1]
            /\ n = 2 => ByteAt(k, start + x + 1) = L[j][2]
        BY <1>14, <2>1, <3>2
      <4>2. v.offset = start + x
        BY <3>1, <3>2
      <4>3. CodeOf(L[j], size)
        BY <1>1, <3>2
      <4>4. CASE n = 2
        <5>1. L[j][1] + 4 * L[j][2] = size
          BY <3>2, <4>3, <4>4 DEF CodeOf
        <5> QED
          BY <4>1, <4>2, <4>4, <5>1 DEF Coded, Measure
      <4>5. CASE n = 1
        <5>1. L[j][1] = size
          BY <3>2, <4>3, <4>5 DEF CodeOf
        <5> QED
          BY <4>1, <4>2, <4>5, <5>1 DEF Coded, Measure
      <4> QED
        <5>1. n = 1 \/ n = 2
          OBVIOUS
        <5> QED
          BY <4>4, <4>5, <5>1
    <3>4. /\ r.offset = start + x + n /\ r.end = end /\ r.declared = c + size
          /\ r.ok <=> start + x + n - 1 < end /\ c + size <= end - (start + x + n)
      BY <2>6, <2>9, <3>1, <3>2, <3>3
    <3>5. last + delta >= 0 => start + x + n - 1 < end /\ c + size <= end - (start + x + n)
      BY <1>24, <3>8
    <3>6. start + x + n = start + y /\ c + size = d
      BY <3>8
    <3>7. Tracks(j) /\ Stays(j)
      BY <2>4, <3>1, <3>2, <3>4, <3>5, <3>6
    <3> QED
      BY <2>2, <3>7
  <2> QED
    BY <2>8, <2>9
<1> HIDE DEF K
<1>17. m \in K
  <2>1. \A j \in 0 .. m : j \in K
    BY <1>15, <1>16, UpTo
  <2> QED
    BY <2>1
<1>18. Tracks(m) /\ Stays(m)
  BY <1>17 DEF K
<1>19. PICK e \in LengthStates : e = t[m]
  BY <1>12
<1>20. /\ e.ok => ok /\ e.offset = start + len /\ e.declared = sum /\ e.end = end
       /\ ok /\ last + delta >= 0 => e.ok
  BY <1>10, <1>18, <1>19
<1>21. MatchesLengths(k, w, m + 1) <=> e.ok /\ e.end - e.offset - e.declared \in 0 .. MAX_FRAME_BYTES
  <2>1. (m + 1) - 1 = m
    OBVIOUS
  <2>2. MatchesLengths(k, w, m + 1)
          <=> /\ MeasureEnd(k, base, m).ok
              /\ MeasureEnd(k, base, m).end - MeasureEnd(k, base, m).offset - MeasureEnd(k, base, m).declared
                   \in 0 .. MAX_FRAME_BYTES
    BY <2>1 DEF MatchesLengths, MeasureEnd, base
  <2> QED
    BY <1>12, <1>19, <2>2
<1>22. e.ok => e.end - e.offset - e.declared = last + delta
  <2>1. end - (start + len) - sum = last + delta
    BY <1>24
  <2> QED
    BY <1>20, <2>1
<1>23. last + delta \in 0 .. MAX_FRAME_BYTES => last + delta >= 0
  BY DEF MAX_FRAME_BYTES
<1> QED
  BY <1>10, <1>20, <1>21, <1>22, <1>23

(* No frame lasts longer than half the longest packet, n frames fit one.    *)
Brief(config) == SamplesPerFrame(config) \in Nat /\ SamplesPerFrame(config) <= 2880
InTime(config, n) == n * SamplesPerFrame(config) <= 5760

LEMMA Samples ==
  ASSUME NEW config \in 0 .. 31
  PROVE  Brief(config)
<1>1. 2 ^ 0 = 1 /\ 2 ^ 1 = 2 /\ 2 ^ 2 = 4 /\ 2 ^ 3 = 8
  OBVIOUS
<1>2. PICK r \in {0, 1, 2, 3} : r = config % 4
  <2>1. config % 4 \in 0 .. 3
    OBVIOUS
  <2>2. 0 .. 3 = {0, 1, 2, 3}
    OBVIOUS
  <2> QED
    BY <2>1, <2>2
<1>3. PICK h \in {0, 1} : h = config % 2
  <2>1. config % 2 \in 0 .. 1
    OBVIOUS
  <2>2. 0 .. 1 = {0, 1}
    OBVIOUS
  <2> QED
    BY <2>1, <2>2
<1>4. 2 ^ r \in {1, 2, 4, 8} /\ 2 ^ h \in {1, 2} /\ (r # 3 => 2 ^ r \in {1, 2, 4})
  BY <1>1, <1>2, <1>3
<1>5. CASE config >= 16
  <2>1. SamplesPerFrame(config) = 120 * 2 ^ r
    BY <1>2, <1>5 DEF SamplesPerFrame
  <2> QED
    BY <1>4, <2>1 DEF Brief
<1>6. CASE config \in 12 .. 15
  <2>1. SamplesPerFrame(config) = 480 * 2 ^ h
    BY <1>3, <1>6 DEF SamplesPerFrame
  <2> QED
    BY <1>4, <2>1 DEF Brief
<1>7. CASE config < 12
  <2>1. ~(config >= 16) /\ config \notin 12 .. 15
    BY <1>7
  <2>2. SamplesPerFrame(config) = IF r = 3 THEN 2880 ELSE 480 * 2 ^ r
    BY <1>2, <2>1 DEF SamplesPerFrame
  <2> QED
    BY <1>4, <2>2 DEF Brief
<1>8. config >= 16 \/ config \in 12 .. 15 \/ config < 12
  OBVIOUS
<1> QED
  BY <1>5, <1>6, <1>7, <1>8

LEMMA FewFrames ==
  ASSUME NEW config, Brief(config)
  PROVE  InTime(config, 1) /\ InTime(config, 2)
<1>1. PICK s \in Nat : s = SamplesPerFrame(config) /\ s <= 2880
  BY DEF Brief
<1>2. 1 * s <= 5760 /\ 2 * s <= 5760
  BY <1>1
<1> QED
  BY <1>1, <1>2 DEF InTime

(* The bytes of a packet before its frames, and the packet delta bytes      *)
(* longer than it was encoded.                                              *)
Prefix(code, vbr, sizes, padding) ==
  CASE code \in {0, 1} -> <<0>>
    [] code = 2 -> <<0>> \o FlattenSeq(LengthRuns(sizes))
    [] code = 3 -> <<0, 0>> \o CodedPadding(padding)
                   \o (IF vbr THEN FlattenSeq(LengthRuns(sizes)) ELSE <<>>)
Pad(padding) == IF padding = None THEN 0 ELSE padding
PacketOf(l) == [Encode(l.code, l.config, l.vbr, l.sizes, l.padding) EXCEPT !.size = @ + l.delta]

(* The fields of a packet.                                                  *)
Framed(k, l) ==
  /\ k.code = l.code /\ k.config = l.config /\ k.vbr = l.vbr /\ k.frames = Len(l.sizes)
  /\ k.padded = (l.padding # None) /\ k.bytes = Prefix(l.code, l.vbr, l.sizes, l.padding)
  /\ k.size = Len(Prefix(l.code, l.vbr, l.sizes, l.padding)) + Total(l.sizes) + Pad(l.padding) + l.delta

LEMMA EncodedFields ==
  ASSUME NEW code, NEW config, NEW vbr, NEW frames, NEW padded, NEW bytes, NEW size, NEW longer,
         NEW k, k = [[code |-> code, config |-> config, vbr |-> vbr, frames |-> frames,
                      padded |-> padded, bytes |-> bytes, size |-> size] EXCEPT !.size = longer]
  PROVE  /\ k.code = code /\ k.config = config /\ k.vbr = vbr /\ k.frames = frames
         /\ k.padded = padded /\ k.bytes = bytes /\ k.size = longer
  OBVIOUS

LEMMA PacketFramed ==
  ASSUME NEW l
  PROVE  Framed(PacketOf(l), l)
<1> DEFINE bytes == Prefix(l.code, l.vbr, l.sizes, l.padding)
           size == Len(bytes) + Total(l.sizes) + Pad(l.padding)
           k == PacketOf(l)
<1>1. Encode(l.code, l.config, l.vbr, l.sizes, l.padding)
        = [code |-> l.code, config |-> l.config, vbr |-> l.vbr, frames |-> Len(l.sizes),
           padded |-> l.padding # None, bytes |-> bytes, size |-> size]
  BY Zenon DEF Encode, Prefix, LengthRuns, Total, Pad
<1> HIDE DEF bytes
<1>2. k = [[code |-> l.code, config |-> l.config, vbr |-> l.vbr, frames |-> Len(l.sizes),
            padded |-> l.padding # None, bytes |-> bytes, size |-> size] EXCEPT !.size = size + l.delta]
  BY <1>1 DEF PacketOf
<1> HIDE DEF size, k
<1>3. /\ k.code = l.code /\ k.config = l.config /\ k.vbr = l.vbr /\ k.frames = Len(l.sizes)
      /\ k.padded = (l.padding # None) /\ k.bytes = bytes /\ k.size = size + l.delta
  BY <1>2, EncodedFields
<1> QED
  BY <1>3 DEF Framed, bytes, size, k

(* Without padding the loop over it does nothing.                           *)
LEMMA NothingSkipped ==
  ASSUME NEW k, HasBytes(k), NEW size \in Int, k.size = size, k.padded = FALSE
  PROVE  AfterPadding(k).ok /\ AfterPadding(k).offset = 2 /\ AfterPadding(k).end = size
<1> DEFINE m == Len(k.bytes)
           base == [NoPadding EXCEPT !.end = k.size, !.more = k.padded]
<1>1. m \in Nat
  BY LenProperties DEF HasBytes
<1>2. base \in PadStates /\ base.ok = TRUE /\ base.offset = 2 /\ base.end = size /\ base.more = FALSE
  BY PadStart
<1>3. AfterPadding(k) = PadEnd(k, base, m)
  BY DEF AfterPadding, PadEnd
<1> HIDE DEF base, m
<1>4. PICK t : Pads(t, k, base, m) /\ PadEnd(k, base, m) = t[m] /\ \A i \in 0 .. m : t[i] \in PadStates
  BY <1>1, <1>2, PadFold
<1>5. t[0] = base /\ \A i \in 1 .. m : t[i] = SkipPaddingByte(k, t[i - 1])
  BY <1>4 DEF Pads
<1> DEFINE K == {i \in 0 .. m : t[i] = base}
<1>6. 0 \in K
  BY <1>1, <1>5
<1>7. ASSUME NEW i \in 1 .. m, i - 1 \in K PROVE i \in K
  <2>1. t[i - 1] = base /\ t[i] = SkipPaddingByte(k, t[i - 1]) /\ i \in 0 .. m
    BY <1>1, <1>5, <1>7
  <2>2. ~(base.ok /\ base.more)
    BY <1>2
  <2>3. SkipPaddingByte(k, base) = base
    BY <1>2, <2>2, Skips DEF HasBytes
  <2> QED
    BY <2>1, <2>3
<1> HIDE DEF K
<1>8. m \in K
  <2>1. \A i \in 0 .. m : i \in K
    BY <1>1, <1>6, <1>7, UpTo
  <2> QED
    BY <1>1, <2>1
<1>9. t[m] = base
  BY <1>8 DEF K
<1> QED
  BY <1>2, <1>3, <1>4, <1>9

(* The total of sizes is at least the last of them.                         *)
LEMMA TotalOfSizes ==
  ASSUME NEW sizes \in Seq(Nat), NEW m \in Nat, Len(sizes) = m + 1
  PROVE  Total(sizes) \in Nat /\ Total(sizes) >= sizes[m + 1] /\ sizes[m + 1] \in Nat
<1>1. sizes \in Seq(Int) /\ \A j \in 1 .. m + 1 : sizes[j] \in Nat
  BY ElementOfSeq
<1>2. PICK S : Sums(S, sizes) /\ Total(sizes) = S[m + 1]
  <2>1. \E S : Sums(S, sizes) /\ Total(sizes) = S[Len(sizes)]
    BY <1>1, TotalSums
  <2> QED
    BY <2>1
<1>3. /\ \A j \in 0 .. m + 1 : S[j] \in Int
      /\ S[0] = 0 /\ \A j \in 1 .. m + 1 : S[j] = S[j - 1] + sizes[j]
  BY <1>2 DEF Sums
<1>4. \A j \in 0 .. m : S[j] <= S[m]
  <2> DEFINE u == [j \in 0 .. m |-> IF j = 0 THEN 0 ELSE sizes[j]]
  <2>1. \A j \in 0 .. m : S[j] \in Int /\ u[j] \in Nat
    BY <1>1, <1>3
  <2>2. \A j \in 1 .. m : S[j] = S[j - 1] + u[j]
    BY <1>3
  <2> HIDE DEF u
  <2> QED
    BY <2>1, <2>2, Grows
<1>5. m + 1 \in 1 .. m + 1 /\ (m + 1) - 1 = m /\ m \in 0 .. m + 1 /\ m \in 0 .. m /\ 0 \in 0 .. m
  OBVIOUS
<1>6. sizes[m + 1] \in Nat /\ S[m] \in Int /\ S[m + 1] = S[m] + sizes[m + 1]
  BY <1>1, <1>3, <1>5
<1>7. S[m] >= 0
  BY <1>3, <1>4, <1>5
<1>8. PICK a \in Nat, b \in Int : a = sizes[m + 1] /\ b = S[m] /\ b >= 0 /\ Total(sizes) = b + a
  BY <1>2, <1>6, <1>7
<1>9. b + a \in Nat /\ b + a >= a
  BY <1>8
<1> QED
  BY <1>8, <1>9

(* What the reference says of the frames a packet implies: those of a       *)
(* variable rate, and those of a constant one.                              *)
AllLegal(config, implied, n) == (\A i \in 1 .. n : implied[i] >= 0) /\ Legal(config, implied)

(* Frames whose lengths are coded, but for the last: what the code checks.  *)
ShortFrames(sizes, m) == \A i \in 1 .. m : sizes[i] <= MAX_FRAME_BYTES
WithLast(sizes, n, delta) == [sizes EXCEPT ![n] = @ + delta]
LastFits(sizes, m, delta, config) ==
  /\ sizes[m + 1] + delta \in 0 .. MAX_FRAME_BYTES
  /\ InTime(config, m + 1)

LEMMA VariableLegal ==
  ASSUME NEW sizes \in Seq(Nat), NEW m \in Nat, Len(sizes) = m + 1, NEW delta \in Int, NEW config,
         ShortFrames(sizes, m)
  PROVE  AllLegal(config, WithLast(sizes, m + 1, delta), m + 1) <=> LastFits(sizes, m, delta, config)
<1> DEFINE e == [sizes EXCEPT ![m + 1] = @ + delta]  n == m + 1  last == sizes[m + 1] + delta
<1>1. DOMAIN sizes = 1 .. n /\ \A i \in 1 .. n : sizes[i] \in Nat
  BY LenProperties, ElementOfSeq
<1>2. /\ DOMAIN e = 1 .. n /\ e[n] = last
      /\ \A i \in 1 .. m : e[i] = sizes[i]
  BY <1>1
<1>3. last \in Int
  BY <1>1
<1>4. Len(e) = n
  <2>1. e \in Seq(Int)
    BY <1>1, <1>3
  <2> QED
    BY <1>2, <2>1, LenProperties
<1> HIDE DEF e, last
<1>5. Legal(config, e) <=> (\A i \in 1 .. n : e[i] <= MAX_FRAME_BYTES) /\ n * SamplesPerFrame(config) <= 5760
  BY <1>2, <1>4 DEF Legal
<1>6. (\A i \in 1 .. n : e[i] >= 0) <=> last >= 0
  <2>1. ASSUME last >= 0, NEW i \in 1 .. n PROVE e[i] >= 0
    <3>1. i = n \/ i \in 1 .. m
      OBVIOUS
    <3> QED
      BY <1>1, <1>2, <2>1, <3>1
  <2>2. n \in 1 .. n
    OBVIOUS
  <2> QED
    BY <1>2, <2>1, <2>2
<1>7. (\A i \in 1 .. n : e[i] <= MAX_FRAME_BYTES) <=> last <= MAX_FRAME_BYTES
  <2>1. ASSUME last <= MAX_FRAME_BYTES, NEW i \in 1 .. n PROVE e[i] <= MAX_FRAME_BYTES
    <3>1. i = n \/ i \in 1 .. m
      OBVIOUS
    <3> QED
      BY <1>2, <2>1, <3>1 DEF ShortFrames
  <2>2. n \in 1 .. n
    OBVIOUS
  <2> QED
    BY <1>2, <2>1, <2>2
<1>8. last \in 0 .. MAX_FRAME_BYTES <=> last >= 0 /\ last <= MAX_FRAME_BYTES
  BY <1>3 DEF MAX_FRAME_BYTES
<1> QED
  BY <1>5, <1>6, <1>7, <1>8 DEF AllLegal, LastFits, WithLast, InTime, e, last

LEMMA Quotient ==
  ASSUME NEW body \in Nat, NEW n \in Nat, n > 0
  PROVE  body \div n \in Nat /\ body % n \in Nat
  OBVIOUS

(* Frames of one size, and what the code checks of the bytes they share.    *)
EqualShares(body, n) == [i \in 1 .. n |-> IF body % n = 0 THEN body \div n ELSE MAX_FRAME_BYTES + 1]
SharesEqually(body, n, config) ==
  /\ body >= 0 /\ body % n = 0 /\ body \div n <= MAX_FRAME_BYTES
  /\ InTime(config, n)

LEMMA ConstantLegal ==
  ASSUME NEW n \in Nat, n > 0, NEW body \in Nat, NEW config
  PROVE  AllLegal(config, EqualShares(body, n), n) <=> SharesEqually(body, n, config)
<1>1. PICK q \in Nat, r \in Nat : q = body \div n /\ r = body % n
  BY Quotient
<1> DEFINE x == IF r = 0 THEN q ELSE MAX_FRAME_BYTES + 1
           e == [i \in 1 .. n |-> x]
<1>2. x \in Nat
  BY DEF MAX_FRAME_BYTES
<1>3. x <= MAX_FRAME_BYTES <=> r = 0 /\ q <= MAX_FRAME_BYTES
  BY DEF MAX_FRAME_BYTES
<1> HIDE DEF x
<1>4. DOMAIN e = 1 .. n /\ Len(e) = n /\ \A i \in 1 .. n : e[i] = x
  BY <1>2
<1>5. EqualShares(body, n) = e
  BY <1>1 DEF x, EqualShares
<1> HIDE DEF e
<1>6. 1 \in 1 .. n
  OBVIOUS
<1>7. AllLegal(config, e, n) <=> x <= MAX_FRAME_BYTES /\ n * SamplesPerFrame(config) <= 5760
  <2>1. \A i \in 1 .. n : e[i] >= 0
    BY <1>2, <1>4
  <2>2. (\A i \in 1 .. n : e[i] <= MAX_FRAME_BYTES) <=> x <= MAX_FRAME_BYTES
    BY <1>4, <1>6
  <2> QED
    BY <1>4, <2>1, <2>2 DEF AllLegal, Legal
<1> QED
  BY <1>1, <1>3, <1>5, <1>7 DEF SharesEqually, InTime

(* The code of a packet and its size.                                       *)
Weighs(k, code, size) == k.code = code /\ k.size = size

LEMMA FramingOfOne ==
  ASSUME NEW k, NEW size, Weighs(k, 0, size)
  PROVE  MatchesOpusPacketFraming(k) <=> size > 0 /\ size - 1 <= MAX_FRAME_BYTES
<1>1. 0 # 1 /\ 0 # 2 /\ 0 # 3
  OBVIOUS
<1> QED
  BY <1>1, Zenon DEF MatchesOpusPacketFraming, Weighs

LEMMA FramingOfTwo ==
  ASSUME NEW k, NEW size, Weighs(k, 1, size)
  PROVE  MatchesOpusPacketFraming(k)
           <=> size > 0 /\ (size - 1) % 2 = 0 /\ (size - 1) \div 2 <= MAX_FRAME_BYTES
<1>1. 0 # 1 /\ 1 # 2 /\ 1 # 3
  OBVIOUS
<1>2. MatchesOpusPacketFraming(k)
        <=> k.size > 0 /\ (k.size - 1) % 2 = 0 /\ (k.size - 1) \div 2 <= MAX_FRAME_BYTES
  BY <1>1 DEF MatchesOpusPacketFraming, Weighs
<1>3. k.size = size
  BY DEF Weighs
<1> QED
  BY <1>2, <1>3

LEMMA FramingOfPair ==
  ASSUME NEW k, NEW size, Weighs(k, 2, size)
  PROVE  MatchesOpusPacketFraming(k)
           <=> size > 0 /\ MatchesLengths(k, [ok |-> TRUE, offset |-> 1, end |-> size], 2)
<1>1. 0 # 2 /\ 1 # 2 /\ 2 # 3
  OBVIOUS
<1>2. MatchesOpusPacketFraming(k)
        <=> k.size > 0 /\ MatchesLengths(k, [ok |-> TRUE, offset |-> 1, end |-> k.size], 2)
  BY <1>1 DEF MatchesOpusPacketFraming, Weighs
<1>3. k.size = size
  BY DEF Weighs
<1> QED
  BY <1>2, <1>3

(* What is checked of the body of a packet with a count.                    *)
CountedBody(k, w, vbr, frames) ==
  IF vbr THEN MatchesLengths(k, w, frames)
  ELSE /\ (w.end - w.offset) % frames = 0
       /\ (w.end - w.offset) \div frames <= MAX_FRAME_BYTES
Counts(k, config, vbr, frames) == k.config = config /\ k.vbr = vbr /\ k.frames = frames

LEMMA FramingOfMany ==
  ASSUME NEW k, NEW size, Weighs(k, 3, size), NEW config, Brief(config), NEW vbr \in BOOLEAN,
         NEW n \in Nat, Counts(k, config, vbr, n)
  PROVE  MatchesOpusPacketFraming(k)
           <=> /\ size > 0 /\ size > 1 /\ n # 0 /\ InTime(config, n)
               /\ AfterPadding(k).ok /\ CountedBody(k, AfterPadding(k), vbr, n)
<1>1. 0 # 3 /\ 1 # 3 /\ 2 # 3
  OBVIOUS
<1>2. MatchesOpusPacketFraming(k)
        <=> /\ k.size > 0 /\ k.size > 1 /\ k.frames # 0 /\ SamplesPerFrame(k.config) * k.frames <= 5760
            /\ AfterPadding(k).ok /\ CountedBody(k, AfterPadding(k), k.vbr, k.frames)
  BY <1>1 DEF MatchesOpusPacketFraming, CountedBody, Weighs
<1>3. k.size = size /\ k.config = config /\ k.vbr = vbr /\ k.frames = n
  BY DEF Weighs, Counts
<1>4. PICK s \in Nat : s = SamplesPerFrame(config)
  BY DEF Brief
<1>5. s * n = n * s
  OBVIOUS
<1>6. SamplesPerFrame(k.config) * k.frames <= 5760 <=> InTime(config, n)
  BY <1>3, <1>4, <1>5 DEF InTime
<1> QED
  BY <1>2, <1>3, <1>6

(* The frames a packet implies, as the reference has them.                  *)
ImpliedSizes(code, vbr, sizes, delta) ==
  IF code = 2 \/ vbr THEN WithLast(sizes, Len(sizes), delta)
  ELSE EqualShares(Total(sizes) + delta, Len(sizes))

TilesPacket(k, code, config, vbr, sizes, delta) ==
  MatchesOpusPacketFraming(k)
    <=> /\ Len(sizes) > 0 /\ Total(sizes) + delta >= 0
        /\ AllLegal(config, ImpliedSizes(code, vbr, sizes, delta), Len(sizes))

Sized(sizes, n, body, delta) == Len(sizes) = n /\ Total(sizes) + delta = body

LEMMA ConstantTiles ==
  ASSUME NEW k, NEW code, code # 2, NEW config, NEW sizes, NEW n \in Nat, n > 0, NEW delta,
         NEW body \in Int, Sized(sizes, n, body, delta),
         MatchesOpusPacketFraming(k) <=> SharesEqually(body, n, config)
  PROVE  TilesPacket(k, code, config, FALSE, sizes, delta)
<1> DEFINE I == ImpliedSizes(code, FALSE, sizes, delta)
<1>1. I = EqualShares(body, n)
  BY Zenon DEF ImpliedSizes, Sized
<1>2. ASSUME body >= 0 PROVE AllLegal(config, EqualShares(body, n), n) <=> SharesEqually(body, n, config)
  <2>1. body \in Nat
    BY <1>2
  <2> QED
    BY <2>1, ConstantLegal
<1>3. SharesEqually(body, n, config) => body >= 0
  BY DEF SharesEqually
<1> HIDE DEF I
<1>4. MatchesOpusPacketFraming(k) <=> n > 0 /\ body >= 0 /\ AllLegal(config, I, n)
  BY <1>1, <1>2, <1>3, Zenon
<1> QED
  BY <1>4, Zenon DEF TilesPacket, I, Sized

LEMMA OneFrame ==
  ASSUME NEW k, NEW config, Brief(config), NEW sizes, NEW delta, NEW body \in Int,
         Sized(sizes, 1, body, delta), Weighs(k, 0, 1 + body)
  PROVE  TilesPacket(k, 0, config, FALSE, sizes, delta)
<1>1. MatchesOpusPacketFraming(k) <=> 1 + body > 0 /\ (1 + body) - 1 <= MAX_FRAME_BYTES
  BY FramingOfOne, Zenon
<1>2. (1 + body > 0 <=> body >= 0) /\ (1 + body) - 1 = body
  OBVIOUS
<1>3. body >= 0 => body % 1 = 0 /\ body \div 1 = body
  OBVIOUS
<1>4. InTime(config, 1)
  BY FewFrames
<1>6. MatchesOpusPacketFraming(k) <=> SharesEqually(body, 1, config)
  BY <1>1, <1>2, <1>3, <1>4 DEF SharesEqually
<1>7. 1 \in Nat /\ 1 > 0 /\ 0 # 2
  OBVIOUS
<1> QED
  BY <1>6, <1>7, ConstantTiles, Zenon

LEMMA TwoEqualFrames ==
  ASSUME NEW k, NEW config, Brief(config), NEW sizes, NEW delta, NEW body \in Int,
         Sized(sizes, 2, body, delta), Weighs(k, 1, 1 + body)
  PROVE  TilesPacket(k, 1, config, FALSE, sizes, delta)
<1>1. MatchesOpusPacketFraming(k)
        <=> 1 + body > 0 /\ ((1 + body) - 1) % 2 = 0 /\ ((1 + body) - 1) \div 2 <= MAX_FRAME_BYTES
  BY FramingOfTwo, Zenon
<1>2. (1 + body > 0 <=> body >= 0) /\ (1 + body) - 1 = body
  OBVIOUS
<1>4. InTime(config, 2)
  BY FewFrames
<1>6. MatchesOpusPacketFraming(k) <=> SharesEqually(body, 2, config)
  BY <1>1, <1>2, <1>4 DEF SharesEqually
<1>7. 2 \in Nat /\ 2 > 0 /\ 1 # 2
  OBVIOUS
<1> QED
  BY <1>6, <1>7, ConstantTiles, Zenon

LEMMA VariableTiles ==
  ASSUME NEW k, NEW code, NEW vbr, code = 2 \/ vbr, NEW config,
         NEW sizes \in Seq(Nat), NEW m \in Nat, Len(sizes) = m + 1, NEW delta \in Int,
         ShortFrames(sizes, m), MatchesOpusPacketFraming(k) <=> LastFits(sizes, m, delta, config)
  PROVE  TilesPacket(k, code, config, vbr, sizes, delta)
<1> DEFINE I == ImpliedSizes(code, vbr, sizes, delta)
<1>1. I = WithLast(sizes, m + 1, delta)
  BY Zenon DEF ImpliedSizes
<1>2. AllLegal(config, WithLast(sizes, m + 1, delta), m + 1) <=> LastFits(sizes, m, delta, config)
  BY VariableLegal
<1>3. LastFits(sizes, m, delta, config) => Total(sizes) + delta >= 0
  <2>1. PICK last \in Nat, total \in Nat : last = sizes[m + 1] /\ total = Total(sizes) /\ total >= last
    BY TotalOfSizes
  <2>2. ASSUME last + delta \in 0 .. MAX_FRAME_BYTES PROVE total + delta >= 0
    <3>1. last + delta >= 0
      BY <2>2 DEF MAX_FRAME_BYTES
    <3> QED
      BY <2>1, <3>1
  <2> QED
    BY <2>1, <2>2 DEF LastFits
<1>4. m + 1 > 0
  OBVIOUS
<1> HIDE DEF I
<1>5. MatchesOpusPacketFraming(k) <=> m + 1 > 0 /\ Total(sizes) + delta >= 0 /\ AllLegal(config, I, m + 1)
  BY <1>1, <1>2, <1>3, <1>4, Zenon
<1> QED
  BY <1>5, Zenon DEF TilesPacket, I

(* The last frame fits only if the frames end where their lengths say.      *)
LEMMA LastFrameEnds ==
  ASSUME NEW sizes \in Seq(Nat), NEW m \in Nat, Len(sizes) = m + 1, NEW delta \in Int,
         NEW start \in Nat, NEW end \in Int, Closes(end, start, sizes, delta),
         sizes[m + 1] + delta \in 0 .. MAX_FRAME_BYTES
  PROVE  end >= start
<1>1. PICK last \in Nat, total \in Nat : last = sizes[m + 1] /\ total = Total(sizes) /\ total >= last
  BY TotalOfSizes
<1>2. last + delta >= 0
  <2>1. PICK e \in 0 .. MAX_FRAME_BYTES : e = last + delta
    BY <1>1
  <2>2. e >= 0
    BY DEF MAX_FRAME_BYTES
  <2> QED
    BY <2>1, <2>2
<1>3. PICK len \in Nat : len = Len(FlattenSeq(LengthRuns(sizes)))
  <2>1. LengthRuns(sizes) \in Seq(Seq(Nat))
    BY RunsOfLengths
  <2>2. FlattenSeq(LengthRuns(sizes)) \in Seq(Nat)
    BY <2>1, Positioned
  <2> QED
    BY <2>2, LenProperties
<1>4. end = start + len + total + delta
  BY <1>1, <1>3 DEF Closes
<1> QED
  BY <1>1, <1>2, <1>4

(* Code 2: two frames, the length of the first coded.                       *)
LEMMA TwoFrames ==
  ASSUME NEW k, HasBytes(k), NEW config, Brief(config), NEW sizes \in Seq(Nat), Len(sizes) = 2,
         NEW delta \in Int, ShortFrames(sizes, 1), NEW end \in Int, Weighs(k, 2, end),
         Closes(end, 1, sizes, delta), Lies(k, 1, FlattenSeq(LengthRuns(sizes)))
  PROVE  TilesPacket(k, 2, config, FALSE, sizes, delta)
<1> DEFINE w == [ok |-> TRUE, offset |-> 1, end |-> end]
<1>1. Len(sizes) = 1 + 1 /\ 1 \in Nat /\ TRUE \in BOOLEAN /\ 1 + 1 = 2
  OBVIOUS
<1>2. Opens(w, TRUE, 1, end)
  BY DEF Opens
<1>3. MatchesOpusPacketFraming(k) <=> end > 0 /\ MatchesLengths(k, w, 2)
  BY FramingOfPair
<1> HIDE DEF w
<1>4. MatchesLengths(k, w, 1 + 1) <=> TRUE /\ sizes[1 + 1] + delta \in 0 .. MAX_FRAME_BYTES
  BY <1>1, <1>2, LengthsMatch
<1>5. sizes[1 + 1] + delta \in 0 .. MAX_FRAME_BYTES => end > 0
  <2>1. ASSUME sizes[1 + 1] + delta \in 0 .. MAX_FRAME_BYTES PROVE end >= 1
    BY <1>1, <2>1, LastFrameEnds
  <2>2. end >= 1 => end > 0
    OBVIOUS
  <2> QED
    BY <2>1, <2>2
<1>6. InTime(config, 1 + 1)
  BY <1>1, FewFrames
<1>8. MatchesOpusPacketFraming(k) <=> LastFits(sizes, 1, delta, config)
  BY <1>1, <1>3, <1>4, <1>5, <1>6 DEF LastFits
<1> QED
  BY <1>1, <1>8, VariableTiles

(* Code 3: what the padding leaves for the lengths and the frames.          *)
Unpads(k, size, start, end) ==
  /\ size > 1 /\ AfterPadding(k).ok <=> start <= end
  /\ AfterPadding(k).ok => AfterPadding(k).offset = start /\ AfterPadding(k).end = end

LEMMA ManyEqualFrames ==
  ASSUME NEW k, NEW config, Brief(config), NEW sizes, NEW n \in Nat, NEW delta, NEW body \in Int,
         Sized(sizes, n, body, delta), NEW size \in Int, Weighs(k, 3, size), Counts(k, config, FALSE, n),
         NEW start \in Nat, Unpads(k, size, start, start + body)
  PROVE  TilesPacket(k, 3, config, FALSE, sizes, delta)
<1> DEFINE w == AfterPadding(k)
<1>1. MatchesOpusPacketFraming(k)
        <=> /\ size > 0 /\ size > 1 /\ n # 0 /\ InTime(config, n)
            /\ w.ok /\ CountedBody(k, w, FALSE, n)
  BY FramingOfMany
<1> HIDE DEF w
<1>2. (size > 1 /\ w.ok <=> start <= start + body) /\ (w.ok => w.offset = start /\ w.end = start + body)
  BY DEF Unpads, w
<1>3. (start <= start + body <=> body >= 0) /\ (start + body) - start = body /\ (size > 1 => size > 0)
  OBVIOUS
<1>6. CASE n > 0
  <2>1. w.ok => (CountedBody(k, w, FALSE, n) <=> body % n = 0 /\ body \div n <= MAX_FRAME_BYTES)
    BY <1>2, <1>3 DEF CountedBody
  <2>2. n # 0
    BY <1>6
  <2>3. MatchesOpusPacketFraming(k) <=> SharesEqually(body, n, config)
    BY <1>1, <1>2, <1>3, <2>1, <2>2, Zenon DEF SharesEqually
  <2>4. 3 # 2
    OBVIOUS
  <2> QED
    BY <1>6, <2>3, <2>4, ConstantTiles
<1>7. CASE n = 0
  <2>1. ~(n > 0) /\ ~(n # 0)
    BY <1>7
  <2> QED
    BY <1>1, <2>1, Zenon DEF TilesPacket, Sized
<1>8. n > 0 \/ n = 0
  OBVIOUS
<1> QED
  BY <1>6, <1>7, <1>8

LEMMA ManyFrames ==
  ASSUME NEW k, HasBytes(k), NEW config, Brief(config), NEW sizes \in Seq(Nat), NEW m \in Nat, Len(sizes) = m + 1,
         NEW delta \in Int, ShortFrames(sizes, m), NEW size \in Int, Weighs(k, 3, size),
         Counts(k, config, TRUE, m + 1), NEW start \in Nat, NEW end \in Int, Unpads(k, size, start, end),
         Closes(end, start, sizes, delta), Lies(k, start, FlattenSeq(LengthRuns(sizes)))
  PROVE  TilesPacket(k, 3, config, TRUE, sizes, delta)
<1> DEFINE w == AfterPadding(k)
<1>1. MatchesOpusPacketFraming(k)
        <=> /\ size > 0 /\ size > 1 /\ m + 1 # 0 /\ InTime(config, m + 1)
            /\ w.ok /\ CountedBody(k, w, TRUE, m + 1)
  <2>1. m + 1 \in Nat /\ TRUE \in BOOLEAN
    OBVIOUS
  <2>2. MatchesOpusPacketFraming(k)
          <=> /\ size > 0 /\ size > 1 /\ m + 1 # 0 /\ InTime(config, m + 1)
              /\ AfterPadding(k).ok /\ CountedBody(k, AfterPadding(k), TRUE, m + 1)
    BY <2>1, FramingOfMany, Zenon
  <2> QED
    BY <2>2
<1> HIDE DEF w
<1>2. (size > 1 /\ w.ok <=> start <= end) /\ (w.ok => w.offset = start /\ w.end = end)
  BY DEF Unpads, w
<1>3. CountedBody(k, w, TRUE, m + 1) <=> MatchesLengths(k, w, m + 1)
  BY DEF CountedBody
<1>4. ASSUME w.ok PROVE MatchesLengths(k, w, m + 1) <=> sizes[m + 1] + delta \in 0 .. MAX_FRAME_BYTES
  <2>1. Opens(w, w.ok, start, end)
    BY <1>2, <1>4 DEF Opens
  <2>2. MatchesLengths(k, w, m + 1) <=> w.ok /\ sizes[m + 1] + delta \in 0 .. MAX_FRAME_BYTES
    BY <1>4, <2>1, LengthsMatch
  <2> QED
    BY <1>4, <2>2
<1>5. sizes[m + 1] + delta \in 0 .. MAX_FRAME_BYTES => start <= end
  <2>1. ASSUME sizes[m + 1] + delta \in 0 .. MAX_FRAME_BYTES PROVE end >= start
    BY <2>1, LastFrameEnds
  <2> QED
    BY <2>1
<1>6. m + 1 \in Nat /\ m + 1 # 0 /\ (size > 1 => size > 0)
  OBVIOUS
<1>8. MatchesOpusPacketFraming(k) <=> LastFits(sizes, m, delta, config)
  BY <1>1, <1>2, <1>3, <1>4, <1>5, <1>6, Zenon DEF LastFits
<1> QED
  BY <1>8, VariableTiles

CountedStart == <<0, 0>>
LEMMA TwoBytes == CountedStart \in Seq(Nat) /\ Len(CountedStart) = 2
  BY DEF CountedStart

(* Code 3: the padding of a packet is taken off its end, or there is none.  *)
LEMMA PaddingTaken ==
  ASSUME NEW k, NEW padding \in Nat \cup {None}, k.padded = (padding # None),
         NEW size \in Int, k.size = size, NEW rest \in Seq(Nat),
         Consists(k, CountedStart, CodedPadding(padding), rest)
  PROVE  \E start \in Nat : /\ start = 2 + Len(CodedPadding(padding)) /\ HasBytes(k)
                            /\ Holds(k, start + Len(rest)) /\ Lies(k, start, rest)
                            /\ Unpads(k, size, start, size - Pad(padding))
<1> DEFINE c == CodedPadding(padding)
<1>1. CASE padding = None
  <2>1. c = <<>> /\ c \in Seq(Nat) /\ Len(c) = 0 /\ Pad(padding) = 0
    <3>1. c = <<>>
      BY <1>1 DEF CodedPadding, None
    <3>2. Pad(padding) = 0
      BY <1>1 DEF Pad
    <3>3. <<>> \in Seq(Nat) /\ Len(<<>>) = 0
      OBVIOUS
    <3> HIDE DEF c
    <3> QED
      BY <3>1, <3>2, <3>3
  <2> HIDE DEF c
  <2>2. Consists(k, CountedStart, c, rest)
    BY DEF c
  <2>3. HasBytes(k) /\ Holds(k, Len(CountedStart) + Len(c) + Len(rest)) /\ Lies(k, Len(CountedStart) + Len(c), rest)
    BY <2>1, <2>2, TwoBytes, BytesAfter
  <2>4. k.padded = FALSE
    BY <1>1
  <2>5. AfterPadding(k).ok /\ AfterPadding(k).offset = 2 /\ AfterPadding(k).end = size
    BY <2>3, <2>4, NothingSkipped
  <2>6. Unpads(k, size, 2, size - Pad(padding))
    <3>1. size - 0 = size /\ (size > 1 <=> 2 <= size)
      OBVIOUS
    <3> QED
      BY <2>1, <2>5, <3>1 DEF Unpads
  <2>7. Len(CountedStart) + Len(c) = 2 /\ 2 = 2 + Len(c) /\ 2 \in Nat
    BY <2>1, TwoBytes
  <2> QED
    BY <2>3, <2>6, <2>7 DEF c
<1>2. CASE padding # None
  <2>1. PICK pad \in Nat : pad = padding /\ Pad(padding) = pad
    BY <1>2 DEF Pad
  <2>2. PICK z : PadCode(c, z, pad)
    BY <2>1, PaddingCoded
  <2> HIDE DEF c
  <2>3. c \in Seq(Nat) /\ z \in Nat /\ Len(c) = z
    BY <2>2 DEF PadCode
  <2>4. Consists(k, CountedStart, c, rest)
    BY DEF c
  <2>5. HasBytes(k) /\ Holds(k, Len(CountedStart) + Len(c) + Len(rest)) /\ Lies(k, Len(CountedStart) + Len(c), rest)
    BY <2>3, <2>4, TwoBytes, BytesAfter
  <2>6. Padded(k)
    BY <1>2 DEF Padded
  <2>7. /\ AfterPadding(k).ok <=> 2 + z <= k.size - pad
        /\ AfterPadding(k).ok => AfterPadding(k).offset = 2 + z /\ AfterPadding(k).end = k.size - pad
    BY <2>2, <2>4, <2>6, TwoBytes, PaddingSkipped
  <2>8. 2 + z <= size - pad => size > 1
    BY <2>3
  <2>9. Unpads(k, size, 2 + z, size - Pad(padding))
    BY <2>1, <2>7, <2>8 DEF Unpads
  <2>10. Len(CountedStart) + Len(c) = 2 + z /\ 2 + z = 2 + Len(c) /\ 2 + z \in Nat
    BY <2>3, TwoBytes
  <2> QED
    BY <2>5, <2>9, <2>10 DEF c
<1> QED
  BY <1>1, <1>2

(* The fields of a packet, with those of the input by name.                 *)
FramedAs(k, code, config, vbr, sizes, padding, delta) ==
  /\ k.code = code /\ Counts(k, config, vbr, Len(sizes))
  /\ k.padded = (padding # None) /\ k.bytes = Prefix(code, vbr, sizes, padding)
  /\ k.size = Len(Prefix(code, vbr, sizes, padding)) + Total(sizes) + Pad(padding) + delta

LEMMA NoSizes ==
  ASSUME NEW sizes \in Seq(Nat)
  PROVE  Total(sizes) \in Nat
<1>1. CASE Len(sizes) = 0
  <2>1. sizes = <<>>
    BY <1>1, EmptySeq
  <2>2. PICK S : Sums(S, sizes) /\ Total(sizes) = S[Len(sizes)]
    <3>1. sizes \in Seq(Int)
      OBVIOUS
    <3> QED
      BY <3>1, TotalSums
  <2> QED
    BY <1>1, <2>2 DEF Sums
<1>2. CASE Len(sizes) # 0
  <2>1. Len(sizes) \in Nat
    BY LenProperties
  <2>2. PICK m \in Nat : Len(sizes) = m + 1
    BY <1>2, <2>1
  <2> QED
    BY <2>2, TotalOfSizes
<1> QED
  BY <1>1, <1>2

LEMMA OneTiles ==
  ASSUME NEW k, NEW code \in {0, 1}, NEW config, Brief(config), NEW sizes \in Seq(Nat),
         Len(sizes) = code + 1, NEW delta \in Int,
         FramedAs(k, code, config, FALSE, sizes, None, delta)
  PROVE  TilesPacket(k, code, config, FALSE, sizes, delta)
<1>1. PICK total \in Nat : total = Total(sizes)
  BY NoSizes
<1>2. Prefix(code, FALSE, sizes, None) = <<0>> /\ Len(<<0>>) = 1 /\ Pad(None) = 0
  BY DEF Prefix, Pad
<1>3. PICK body \in Int : body = total + delta
  OBVIOUS
<1>4. Sized(sizes, code + 1, body, delta)
  BY <1>1, <1>3 DEF Sized
<1>5. Weighs(k, code, 1 + body)
  <2>1. k.code = code /\ k.size = 1 + total + 0 + delta
    BY <1>1, <1>2 DEF FramedAs
  <2>2. 1 + total + 0 + delta = 1 + body
    BY <1>3
  <2> QED
    BY <2>1, <2>2 DEF Weighs
<1>6. CASE code = 0
  <2>1. Sized(sizes, 1, body, delta) /\ Weighs(k, 0, 1 + body)
    BY <1>4, <1>5, <1>6
  <2> QED
    BY <1>6, <2>1, OneFrame
<1>7. CASE code = 1
  <2>1. Sized(sizes, 2, body, delta) /\ Weighs(k, 1, 1 + body)
    BY <1>4, <1>5, <1>7
  <2> QED
    BY <1>7, <2>1, TwoEqualFrames
<1> QED
  BY <1>6, <1>7

LEMMA LengthsAreBytes ==
  ASSUME NEW sizes \in Seq(Nat), NEW m \in Nat, Len(sizes) = m + 1
  PROVE  FlattenSeq(LengthRuns(sizes)) \in Seq(Nat)
<1>1. LengthRuns(sizes) \in Seq(Seq(Nat))
  BY RunsOfLengths
<1> QED
  BY <1>1, Positioned

LEMMA TwoTile ==
  ASSUME NEW k, NEW config, Brief(config), NEW sizes \in Seq(Nat), Len(sizes) = 2,
         NEW delta \in Int, ShortFrames(sizes, 1),
         FramedAs(k, 2, config, FALSE, sizes, None, delta)
  PROVE  TilesPacket(k, 2, config, FALSE, sizes, delta)
<1> DEFINE b == FlattenSeq(LengthRuns(sizes))  a == <<0>>
<1>1. PICK total \in Nat : total = Total(sizes)
  BY NoSizes
<1>2. b \in Seq(Nat)
  <2>1. Len(sizes) = 1 + 1 /\ 1 \in Nat
    OBVIOUS
  <2> QED
    BY <2>1, LengthsAreBytes
<1>3. Prefix(2, FALSE, sizes, None) = a \o b
  BY DEF Prefix
<1>4. a \in Seq(Nat) /\ Len(a) = 1 /\ <<>> \in Seq(Nat) /\ Len(<<>>) = 0 /\ Pad(None) = 0
  BY DEF Pad
<1> HIDE DEF a, b
<1>5. a \o <<>> = a
  BY <1>4, ConcatEmptySeq
<1>6. k.code = 2 /\ k.bytes = a \o b /\ k.size = Len(a \o b) + total + 0 + delta
  BY <1>1, <1>3, <1>4 DEF FramedAs
<1>7. Consists(k, a, <<>>, b)
  BY <1>5, <1>6 DEF Consists
<1>8. HasBytes(k) /\ Lies(k, Len(a) + Len(<<>>), b)
  BY <1>2, <1>4, <1>7, BytesAfter
<1>9. Lies(k, 1, b)
  BY <1>4, <1>8
<1>10. PICK len \in Nat : len = Len(b) /\ Len(a \o b) = 1 + len
  <2>1. Len(a \o b) = Len(a) + Len(b) /\ Len(b) \in Nat
    BY <1>2, <1>4, Joined
  <2> QED
    BY <1>4, <2>1
<1>11. PICK end \in Int : end = 1 + len + total + delta
  OBVIOUS
<1>12. Weighs(k, 2, end)
  <2>1. (1 + len) + total + 0 + delta = end
    BY <1>11
  <2> QED
    BY <1>6, <1>10, <2>1 DEF Weighs
<1>13. Closes(end, 1, sizes, delta)
  BY <1>1, <1>10, <1>11 DEF Closes, b
<1> QED
  BY <1>8, <1>9, <1>12, <1>13, TwoFrames DEF b

Rest(vbr, sizes) == IF vbr THEN FlattenSeq(LengthRuns(sizes)) ELSE <<>>

LEMMA ManyTile ==
  ASSUME NEW k, NEW config, Brief(config), NEW vbr \in BOOLEAN, NEW sizes \in Seq(Nat),
         NEW padding \in Nat \cup {None}, NEW delta \in Int,
         vbr => \A i \in 1 .. Len(sizes) - 1 : sizes[i] <= MAX_FRAME_BYTES,
         FramedAs(k, 3, config, vbr, sizes, padding, delta)
  PROVE  TilesPacket(k, 3, config, vbr, sizes, delta)
<1> DEFINE c == CodedPadding(padding)  rest == Rest(vbr, sizes)  a == CountedStart
<1>1. PICK total \in Nat, n \in Nat : total = Total(sizes) /\ n = Len(sizes)
  BY NoSizes, LenProperties
<1>2. PICK pad \in Nat : pad = Pad(padding)
  BY DEF Pad
<1>3. Prefix(3, vbr, sizes, padding) = (a \o c) \o rest
  <2>1. 3 \notin {0, 1} /\ 3 # 2
    OBVIOUS
  <2> QED
    BY <2>1, Zenon DEF Prefix, CountedStart, Rest
<1>4. c \in Seq(Nat)
  <2>1. CASE padding = None
    BY <2>1 DEF CodedPadding, None
  <2>2. CASE padding # None
    <3>1. padding \in Nat
      BY <2>2
    <3>2. PICK z : PadCode(c, z, padding)
      BY <3>1, PaddingCoded
    <3> QED
      BY <3>2 DEF PadCode
  <2> QED
    BY <2>1, <2>2
<1>5. CASE vbr /\ n = 0
  <2>1. PICK size : size = k.size
    OBVIOUS
  <2>2. Weighs(k, 3, size) /\ Counts(k, config, vbr, n)
    BY <1>1, <2>1 DEF FramedAs, Weighs
  <2>3. MatchesOpusPacketFraming(k)
           <=> /\ size > 0 /\ size > 1 /\ n # 0 /\ InTime(config, n)
               /\ AfterPadding(k).ok /\ CountedBody(k, AfterPadding(k), vbr, n)
    BY <2>2, FramingOfMany
  <2>4. ~(n > 0) /\ ~(n # 0)
    BY <1>5
  <2> QED
    BY <1>1, <2>3, <2>4, Zenon DEF TilesPacket
<1>6. CASE ~vbr \/ n # 0
  <2>1. rest \in Seq(Nat) /\ (~vbr => rest = <<>> /\ Len(rest) = 0)
    <3>1. CASE vbr
      <4>1. PICK m \in Nat : Len(sizes) = m + 1
        <5>1. n \in Nat /\ n # 0
          BY <1>1, <1>6, <3>1
        <5>2. n - 1 \in Nat /\ n = (n - 1) + 1
          BY <5>1
        <5> QED
          BY <1>1, <5>2
      <4> QED
        BY <3>1, <4>1, LengthsAreBytes DEF Rest
    <3>2. CASE ~vbr
      BY <3>2 DEF Rest
    <3> QED
      BY <3>1, <3>2
  <2> HIDE DEF a, c, rest
  <2>2. /\ k.code = 3 /\ Counts(k, config, vbr, n) /\ k.padded = (padding # None)
        /\ k.bytes = (a \o c) \o rest /\ k.size = Len((a \o c) \o rest) + total + pad + delta
    BY <1>1, <1>2, <1>3 DEF FramedAs
  <2>3. a \in Seq(Nat) /\ Len(a) = 2
    BY TwoBytes DEF a
  <2>4. Consists(k, a, c, rest)
    BY <2>2 DEF Consists
  <2>5. HasBytes(k) /\ Holds(k, Len(a) + Len(c) + Len(rest))
    BY <1>4, <2>1, <2>3, <2>4, BytesAfter
  <2>6. PICK z \in Nat, len \in Nat : z = Len(c) /\ len = Len(rest)
    BY <1>4, <2>1, LenProperties
  <2>7. Len((a \o c) \o rest) = 2 + z + len
    BY <2>2, <2>3, <2>5, <2>6 DEF Holds
  <2>8. PICK size \in Int : size = k.size /\ size = 2 + z + len + total + pad + delta
    BY <2>2, <2>7
  <2>9. PICK start \in Nat : /\ start = 2 + z /\ Lies(k, start, rest)
                             /\ Unpads(k, size, start, size - pad)
    <3>1. Consists(k, CountedStart, CodedPadding(padding), rest)
      BY <2>4 DEF a, c
    <3>2. \E start \in Nat : /\ start = 2 + Len(CodedPadding(padding)) /\ HasBytes(k)
                            /\ Holds(k, start + Len(rest)) /\ Lies(k, start, rest)
                            /\ Unpads(k, size, start, size - Pad(padding))
      BY <2>1, <2>2, <2>8, <3>1, PaddingTaken
    <3> QED
      BY <1>2, <2>6, <3>2 DEF c
  <2>10. PICK end \in Int : end = size - pad /\ end = start + len + total + delta
    BY <2>8, <2>9
  <2>11. Weighs(k, 3, size) /\ Unpads(k, size, start, end)
    BY <2>2, <2>8, <2>9, <2>10 DEF Weighs
  <2>12. CASE vbr
    <3>1. PICK m \in Nat : n = m + 1 /\ Len(sizes) = m + 1
      <4>1. n \in Nat /\ n # 0
        BY <1>1, <1>6, <2>12
      <4>2. PICK m \in Nat : n = m + 1
        <5>1. n - 1 \in Nat /\ n = (n - 1) + 1
          BY <4>1
        <5> QED
          BY <5>1
      <4> QED
        BY <1>1, <4>2
    <3>2. ShortFrames(sizes, m)
      <4>1. Len(sizes) - 1 = m
        BY <3>1
      <4> QED
        BY <2>12, <4>1 DEF ShortFrames
    <3>3. rest = FlattenSeq(LengthRuns(sizes))
      BY <2>12 DEF rest, Rest
    <3>4. Closes(end, start, sizes, delta) /\ Lies(k, start, FlattenSeq(LengthRuns(sizes)))
      BY <1>1, <2>6, <2>9, <2>10, <3>3 DEF Closes
    <3>5. Counts(k, config, TRUE, m + 1) /\ vbr = TRUE
      BY <2>2, <2>12, <3>1
    <3>6. TilesPacket(k, 3, config, TRUE, sizes, delta)
      BY <2>5, <2>11, <3>1, <3>2, <3>4, <3>5, ManyFrames
    <3> QED
      BY <3>5, <3>6
  <2>13. CASE ~vbr
    <3>1. PICK body \in Int : body = total + delta
      OBVIOUS
    <3>2. len = 0 /\ end = start + body
      <4>1. len = 0
        BY <2>1, <2>6, <2>13
      <4> QED
        BY <2>10, <3>1, <4>1
    <3>3. Sized(sizes, n, body, delta) /\ Unpads(k, size, start, start + body)
      BY <1>1, <2>11, <3>1, <3>2 DEF Sized
    <3>4. Counts(k, config, FALSE, n) /\ vbr = FALSE
      BY <2>2, <2>13
    <3>5. TilesPacket(k, 3, config, FALSE, sizes, delta)
      BY <2>11, <3>3, <3>4, ManyEqualFrames
    <3> QED
      BY <3>4, <3>5
  <2> QED
    BY <2>12, <2>13
<1> QED
  BY <1>5, <1>6

(* Every packet the encoder can give, delta bytes longer or shorter.        *)
LEMMA PacketTiles ==
  ASSUME NEW l \in PacketInputs, Encodable(l.code, l.vbr, l.sizes, l.padding)
  PROVE  TilesPacket(PacketOf(l), l.code, l.config, l.vbr, l.sizes, l.delta)
<1>1. PICK code \in {0, 1, 2, 3}, config \in 0 .. 31, vbr \in BOOLEAN, padding \in Nat \cup {None},
           delta \in Int, sizes \in Seq(Nat) :
         /\ code = l.code /\ config = l.config /\ vbr = l.vbr /\ padding = l.padding
         /\ delta = l.delta /\ sizes = l.sizes
  <2>1. /\ l.code \in 0 .. 3 /\ l.config \in 0 .. 31 /\ l.vbr \in BOOLEAN
        /\ l.padding \in Nat \cup {None} /\ l.delta \in Int /\ l.sizes \in Seq(Nat)
    BY DEF PacketInputs
  <2>2. 0 .. 3 = {0, 1, 2, 3}
    OBVIOUS
  <2> QED
    BY <2>1, <2>2
<1>2. Encodable(code, vbr, sizes, padding)
  BY <1>1
<1>3. Brief(config)
  BY Samples
<1>4. PICK k : k = PacketOf(l)
  OBVIOUS
<1>5. FramedAs(k, code, config, vbr, sizes, padding, delta)
  <2>1. Framed(k, l)
    BY <1>4, PacketFramed
  <2> QED
    BY <1>1, <2>1 DEF Framed, FramedAs, Counts
<1>6. TilesPacket(k, code, config, vbr, sizes, delta)
  <2>1. CASE code \in {0, 1}
    <3>1. vbr = FALSE /\ padding = None /\ Len(sizes) = code + 1
      <4>1. code # 3
        BY <2>1
      <4>2. (padding # None => code = 3) /\ (vbr => code = 3)
        BY <1>2 DEF Encodable
      <4>3. (code = 0 => Len(sizes) = 1) /\ (code = 1 => Len(sizes) = 2)
        BY <1>2 DEF Encodable
      <4>4. vbr = FALSE
        BY <4>1, <4>2
      <4>5. padding = None
        BY <4>1, <4>2
      <4>6. Len(sizes) = code + 1
        <5>1. 0 + 1 = 1 /\ 1 + 1 = 2
          OBVIOUS
        <5>2. CASE code = 0
          BY <4>3, <5>1, <5>2
        <5>3. CASE code = 1
          BY <4>3, <5>1, <5>3
        <5> QED
          BY <2>1, <5>2, <5>3
      <4> QED
        BY <4>4, <4>5, <4>6
    <3>2. FramedAs(k, code, config, FALSE, sizes, None, delta)
      BY <1>5, <3>1
    <3>3. TilesPacket(k, code, config, FALSE, sizes, delta)
      BY <1>3, <2>1, <3>1, <3>2, OneTiles
    <3> QED
      BY <3>1, <3>3
  <2>2. CASE code = 2
    <3>1. vbr = FALSE /\ padding = None /\ Len(sizes) = 2
      BY <1>2, <2>2 DEF Encodable
    <3>2. ShortFrames(sizes, 1)
      <4>1. \A i \in DOMAIN sizes : i < Len(sizes) => sizes[i] <= MAX_FRAME_BYTES
        BY <1>2, <2>2 DEF Encodable
      <4>2. \A i \in 1 .. 1 : i \in DOMAIN sizes /\ i < Len(sizes)
        BY <3>1, LenProperties
      <4> QED
        BY <4>1, <4>2 DEF ShortFrames
    <3>3. FramedAs(k, 2, config, FALSE, sizes, None, delta)
      BY <1>5, <2>2, <3>1
    <3>4. TilesPacket(k, 2, config, FALSE, sizes, delta)
      BY <1>3, <3>1, <3>2, <3>3, TwoTile
    <3> QED
      BY <2>2, <3>1, <3>4
  <2>3. CASE code = 3
    <3>1. vbr => \A i \in 1 .. Len(sizes) - 1 : sizes[i] <= MAX_FRAME_BYTES
      <4>1. vbr => \A i \in DOMAIN sizes : i < Len(sizes) => sizes[i] <= MAX_FRAME_BYTES
        BY <1>2, <2>3 DEF Encodable
      <4>2. \A i \in 1 .. Len(sizes) - 1 : i \in DOMAIN sizes /\ i < Len(sizes)
        BY LenProperties
      <4> QED
        BY <4>1, <4>2
    <3>2. FramedAs(k, 3, config, vbr, sizes, padding, delta)
      BY <1>5, <2>3
    <3>3. TilesPacket(k, 3, config, vbr, sizes, delta)
      BY <1>3, <3>1, <3>2, ManyTile
    <3> QED
      BY <2>3, <3>3
  <2> QED
    BY <2>1, <2>2, <2>3
<1> QED
  BY <1>1, <1>4, <1>6

(* Frames that share what there is to share are those of the reference.     *)
LEMMA PacketVerdict ==
  ASSUME lead \in PacketInputs, Encodable(lead.code, lead.vbr, lead.sizes, lead.padding)
  PROVE  OpusFramesTile
<1>1. TilesPacket(PacketOf(lead), lead.code, lead.config, lead.vbr, lead.sizes, lead.delta)
  BY PacketTiles
<1> QED
  BY <1>1, Zenon DEF TilesPacket, PacketOf, ImpliedSizes, WithLast, EqualShares, AllLegal, OpusFramesTile

-----------------------------------------------------------------------------
(***************************************************************************)
(* The inspections together.  The inductive invariant has one part for     *)
(* every kind of file: what its scan knows of the units read so far.       *)
(***************************************************************************)
AmrFiles == [size : Nat, wideband : BOOLEAN]
MpegFiles == [size : Nat, id3v1 : BOOLEAN, id3v2 : Id3Tags]

AdtsBegins(l) == l.size >= 5
AmrBegins(l) == l.size > 6 /\ AmrMagicBytes(l.wideband) <= l.size

PngPart == kind = "png" => file \in Seq(PngChunks) /\ PngInv(scan, file)
JpegPart == kind = "jpeg" => file \in Seq(JpegMarkers) /\ JpegInv(scan, file)
OggPart == kind = "ogg" => file \in Seq(OggPages) /\ OggInv(scan, file)
OpusPart == kind = "opus" => file \in Seq(OggPages) /\ OpusInv(scan, file)
PdfPart == kind = "pdf" => file \in Seq(Units["pdf"])
FramePart == kind = "frame" => lead \in MpegFrames
PacketPart ==
  kind = "packet" =>
    lead \in PacketInputs /\ Encodable(lead.code, lead.vbr, lead.sizes, lead.padding)

PackagePart ==
  kind = "package" =>
    PackageLead(lead) /\ file \in Seq(DirectoryEntries) /\ ZipInv(lead, scan, file)

AdtsPart ==
  kind = "adts" =>
    /\ lead \in [size : Nat] /\ file \in Seq(AdtsFrames)
    /\ WalkInv(scan, AdtsBegins(lead), 0, lead.size, Lengths(AdtsLengths, file))

AmrPart ==
  kind = "amr" =>
    /\ lead \in AmrFiles /\ file \in Seq(AmrFrames)
    /\ WalkInv(scan, AmrBegins(lead), AmrMagicBytes(lead.wideband), lead.size,
               Lengths(AmrLengths(lead.wideband), file))

MpegPart ==
  kind = "mpeg" =>
    /\ lead \in MpegFiles /\ file \in Seq(MpegFrames)
    /\ WalkInv(scan, MpegStart(lead).ok, MpegOffset(lead), MpegEnd(lead), Lengths(MpegLengths, file))

AdifPart ==
  kind = "adif" => lead \in AdifFiles /\ file \in Seq(AdifPrograms) /\ AdifInv(lead, scan, file)

BmffPart ==
  kind = "bmff" => lead \in BoxFiles /\ file \in Seq(Boxes) /\ BoxInv(lead, scan, file)

InspectionInv ==
  /\ PngPart /\ JpegPart /\ OggPart /\ OpusPart /\ PdfPart /\ FramePart /\ PacketPart /\ PackagePart
  /\ AdtsPart /\ AmrPart /\ MpegPart /\ AdifPart /\ BmffPart

(* What one step reads.                                                     *)
LEMMA UnitIsRead ==
  ASSUME InspectionNext
  PROVE  /\ kind' = kind /\ lead' = lead
         /\ \E u \in Units[kind] : Reads /\ file' = Append(file, u) /\ scan' = Step(u)
  BY DEF InspectionNext, ReadUnit

LEMMA Nothing ==
  ASSUME UNCHANGED inspectionVars
  PROVE  kind' = kind /\ lead' = lead /\ file' = file /\ scan' = scan
  BY DEF inspectionVars

LEMMA Empty == ASSUME NEW S PROVE <<>> \in Seq(S)
  BY EmptySeq

LEMMA Longer == ASSUME NEW S, NEW f \in Seq(S), NEW u \in S PROVE Append(f, u) \in Seq(S)
  BY Appended

LEMMA PngInit == ASSUME InspectionInit PROVE PngPart
<1>1. SUFFICES ASSUME kind = "png" PROVE file \in Seq(PngChunks) /\ PngInv(scan, file)
  BY DEF PngPart
<1>2. file = <<>> /\ scan = PngStart /\ lead \in Leads["png"]
  BY <1>1 DEF InspectionInit, Start
<1> QED
  BY <1>2, Empty, PngStartInv

LEMMA PngNext == ASSUME PngPart, InspectionNext PROVE PngPart'
<1>1. SUFFICES ASSUME kind' = "png" PROVE file' \in Seq(PngChunks) /\ PngInv(scan', file')
  BY DEF PngPart
<1>2. PICK u \in Units[kind] : kind = "png" /\ Reads /\ file' = Append(file, u) /\ scan' = Step(u)
  BY <1>1, UnitIsRead
<1>3. u \in PngChunks /\ scan' = PngStep(scan, u)
  BY <1>2, UnitTypes DEF Step
<1>4. scan.ok
  BY <1>2 DEF Reads
<1>5. file \in Seq(PngChunks) /\ PngInv(scan, file)
  BY <1>2 DEF PngPart
<1>6. file' \in Seq(PngChunks) /\ lead' = lead
  BY <1>2, <1>3, <1>5, Longer, UnitIsRead
<1>7. PngInv(PngStep(scan, u), Append(file, u))
  BY <1>3, <1>4, <1>5, PngStepInv
<1> QED
  BY <1>2, <1>3, <1>5, <1>6, <1>7

LEMMA JpegInit == ASSUME InspectionInit PROVE JpegPart
<1>1. SUFFICES ASSUME kind = "jpeg" PROVE file \in Seq(JpegMarkers) /\ JpegInv(scan, file)
  BY DEF JpegPart
<1>2. file = <<>> /\ scan = JpegStart /\ lead \in Leads["jpeg"]
  BY <1>1 DEF InspectionInit, Start
<1> QED
  BY <1>2, Empty, JpegStartInv

LEMMA JpegNext == ASSUME JpegPart, InspectionNext PROVE JpegPart'
<1>1. SUFFICES ASSUME kind' = "jpeg" PROVE file' \in Seq(JpegMarkers) /\ JpegInv(scan', file')
  BY DEF JpegPart
<1>2. PICK u \in Units[kind] : kind = "jpeg" /\ Reads /\ file' = Append(file, u) /\ scan' = Step(u)
  BY <1>1, UnitIsRead
<1>3. u \in JpegMarkers /\ scan' = JpegStep(scan, u)
  BY <1>2, UnitTypes DEF Step
<1>4. scan.ok
  BY <1>2 DEF Reads
<1>5. file \in Seq(JpegMarkers) /\ JpegInv(scan, file)
  BY <1>2 DEF JpegPart
<1>6. file' \in Seq(JpegMarkers) /\ lead' = lead
  BY <1>2, <1>3, <1>5, Longer, UnitIsRead
<1>7. JpegInv(JpegStep(scan, u), Append(file, u))
  BY <1>3, <1>4, <1>5, JpegStepInv
<1> QED
  BY <1>2, <1>3, <1>5, <1>6, <1>7

LEMMA OggInit == ASSUME InspectionInit PROVE OggPart
<1>1. SUFFICES ASSUME kind = "ogg" PROVE file \in Seq(OggPages) /\ OggInv(scan, file)
  BY DEF OggPart
<1>2. file = <<>> /\ scan = OggStart /\ lead \in Leads["ogg"]
  BY <1>1 DEF InspectionInit, Start
<1> QED
  BY <1>2, Empty, OggStartInv

LEMMA OggNext == ASSUME OggPart, InspectionNext PROVE OggPart'
<1>1. SUFFICES ASSUME kind' = "ogg" PROVE file' \in Seq(OggPages) /\ OggInv(scan', file')
  BY DEF OggPart
<1>2. PICK u \in Units[kind] : kind = "ogg" /\ Reads /\ file' = Append(file, u) /\ scan' = Step(u)
  BY <1>1, UnitIsRead
<1>3. u \in OggPages /\ scan' = OggStep(scan, u)
  BY <1>2, UnitTypes DEF Step
<1>4. scan.ok
  BY <1>2 DEF Reads
<1>5. file \in Seq(OggPages) /\ OggInv(scan, file)
  BY <1>2 DEF OggPart
<1>6. file' \in Seq(OggPages) /\ lead' = lead
  BY <1>2, <1>3, <1>5, Longer, UnitIsRead
<1>7. OggInv(OggStep(scan, u), Append(file, u))
  BY <1>3, <1>4, <1>5, OggStepInv
<1> QED
  BY <1>2, <1>3, <1>5, <1>6, <1>7

LEMMA OpusInit == ASSUME InspectionInit PROVE OpusPart
<1>1. SUFFICES ASSUME kind = "opus" PROVE file \in Seq(OggPages) /\ OpusInv(scan, file)
  BY DEF OpusPart
<1>2. file = <<>> /\ scan = OggOpusStart /\ lead \in Leads["opus"]
  BY <1>1 DEF InspectionInit, Start
<1> QED
  BY <1>2, Empty, OpusStartInv

LEMMA OpusNext == ASSUME OpusPart, InspectionNext PROVE OpusPart'
<1>1. SUFFICES ASSUME kind' = "opus" PROVE file' \in Seq(OggPages) /\ OpusInv(scan', file')
  BY DEF OpusPart
<1>2. PICK u \in Units[kind] : kind = "opus" /\ Reads /\ file' = Append(file, u) /\ scan' = Step(u)
  BY <1>1, UnitIsRead
<1>3. u \in OggPages /\ scan' = OggOpusStep(scan, u)
  BY <1>2, UnitTypes DEF Step
<1>4. scan.ok
  BY <1>2 DEF Reads
<1>5. file \in Seq(OggPages) /\ OpusInv(scan, file)
  BY <1>2 DEF OpusPart
<1>6. file' \in Seq(OggPages) /\ lead' = lead
  BY <1>2, <1>3, <1>5, Longer, UnitIsRead
<1>7. OpusInv(OggOpusStep(scan, u), Append(file, u))
  BY <1>3, <1>4, <1>5, OpusStepInv
<1> QED
  BY <1>2, <1>3, <1>5, <1>6, <1>7

LEMMA PackageInit == ASSUME InspectionInit PROVE PackagePart
<1>1. SUFFICES ASSUME kind = "package" PROVE PackageLead(lead) /\ file \in Seq(DirectoryEntries) /\ ZipInv(lead, scan, file)
  BY DEF PackagePart
<1>2. file = <<>> /\ scan = ZipStart(lead) /\ lead \in Leads["package"]
  BY <1>1 DEF InspectionInit, Start
<1>3. PackageLead(lead)
  BY <1>2, LeadTypes DEF PackageLead
<1> QED
  BY <1>2, <1>3, Empty, ZipStartInv

LEMMA PackageNext == ASSUME PackagePart, InspectionNext PROVE PackagePart'
<1>1. SUFFICES ASSUME kind' = "package" PROVE PackageLead(lead') /\ file' \in Seq(DirectoryEntries) /\ ZipInv(lead', scan', file')
  BY DEF PackagePart
<1>2. PICK u \in Units[kind] : kind = "package" /\ Reads /\ file' = Append(file, u) /\ scan' = Step(u)
  BY <1>1, UnitIsRead
<1>3. u \in DirectoryEntries /\ scan' = ZipStep(scan, u)
  BY <1>2, UnitTypes DEF Step
<1>4. scan.ok
  BY <1>2 DEF Reads
<1>5. PackageLead(lead) /\ file \in Seq(DirectoryEntries) /\ ZipInv(lead, scan, file)
  BY <1>2 DEF PackagePart
<1>6. file' \in Seq(DirectoryEntries) /\ lead' = lead
  BY <1>2, <1>3, <1>5, Longer, UnitIsRead
<1>7. ZipInv(lead, ZipStep(scan, u), Append(file, u))
  BY <1>3, <1>4, <1>5, ZipStepInv
<1> QED
  BY <1>2, <1>3, <1>5, <1>6, <1>7

LEMMA AdifInit == ASSUME InspectionInit PROVE AdifPart
<1>1. SUFFICES ASSUME kind = "adif" PROVE lead \in AdifFiles /\ file \in Seq(AdifPrograms) /\ AdifInv(lead, scan, file)
  BY DEF AdifPart
<1>2. file = <<>> /\ scan = AdifStart(lead) /\ lead \in Leads["adif"]
  BY <1>1 DEF InspectionInit, Start
<1>3. lead \in AdifFiles
  BY <1>2, LeadTypes DEF AdifFiles
<1> QED
  BY <1>2, <1>3, Empty, AdifStartInv

LEMMA AdifNext == ASSUME AdifPart, InspectionNext PROVE AdifPart'
<1>1. SUFFICES ASSUME kind' = "adif" PROVE lead' \in AdifFiles /\ file' \in Seq(AdifPrograms) /\ AdifInv(lead', scan', file')
  BY DEF AdifPart
<1>2. PICK u \in Units[kind] : kind = "adif" /\ Reads /\ file' = Append(file, u) /\ scan' = Step(u)
  BY <1>1, UnitIsRead
<1>3. u \in AdifPrograms /\ scan' = ParseProgramConfigElement(lead, scan, u)
  BY <1>2, UnitTypes DEF Step
<1>4. scan.ok /\ scan.programs < lead.programs
  BY <1>2 DEF Reads
<1>5. lead \in AdifFiles /\ file \in Seq(AdifPrograms) /\ AdifInv(lead, scan, file)
  BY <1>2 DEF AdifPart
<1>6. file' \in Seq(AdifPrograms) /\ lead' = lead
  BY <1>2, <1>3, <1>5, Longer, UnitIsRead
<1>7. AdifInv(lead, ParseProgramConfigElement(lead, scan, u), Append(file, u))
  BY <1>3, <1>4, <1>5, AdifStepInv
<1> QED
  BY <1>2, <1>3, <1>5, <1>6, <1>7

LEMMA BmffInit == ASSUME InspectionInit PROVE BmffPart
<1>1. SUFFICES ASSUME kind = "bmff" PROVE lead \in BoxFiles /\ file \in Seq(Boxes) /\ BoxInv(lead, scan, file)
  BY DEF BmffPart
<1>2. file = <<>> /\ scan = BoxStart(lead) /\ lead \in Leads["bmff"]
  BY <1>1 DEF InspectionInit, Start
<1>3. lead \in BoxFiles
  BY <1>2, LeadTypes DEF BoxFiles
<1> QED
  BY <1>2, <1>3, Empty, BoxStartInv

LEMMA BmffNext == ASSUME BmffPart, InspectionNext PROVE BmffPart'
<1>1. SUFFICES ASSUME kind' = "bmff" PROVE lead' \in BoxFiles /\ file' \in Seq(Boxes) /\ BoxInv(lead', scan', file')
  BY DEF BmffPart
<1>2. PICK u \in Units[kind] : kind = "bmff" /\ Reads /\ file' = Append(file, u) /\ scan' = Step(u)
  BY <1>1, UnitIsRead
<1>3. u \in Boxes /\ scan' = BoxStep(lead, scan, u)
  BY <1>2, UnitTypes DEF Step
<1>4. scan.ok /\ BoxReads(lead, scan)
  BY <1>2 DEF Reads
<1>5. lead \in BoxFiles /\ file \in Seq(Boxes) /\ BoxInv(lead, scan, file)
  BY <1>2 DEF BmffPart
<1>6. file' \in Seq(Boxes) /\ lead' = lead
  BY <1>2, <1>3, <1>5, Longer, UnitIsRead
<1>7. BoxInv(lead, BoxStep(lead, scan, u), Append(file, u))
  BY <1>3, <1>4, <1>5, BoxStepInv
<1> QED
  BY <1>2, <1>3, <1>5, <1>6, <1>7

LEMMA PdfInit == ASSUME InspectionInit PROVE PdfPart
  BY Empty DEF InspectionInit, PdfPart

LEMMA PdfNext == ASSUME PdfPart, InspectionNext PROVE PdfPart'
<1>1. PICK u \in Units[kind] : kind' = kind /\ file' = Append(file, u)
  BY UnitIsRead
<1>2. CASE kind = "pdf"
  <2>1. file \in Seq(Units["pdf"]) /\ u \in Units["pdf"]
    BY <1>1, <1>2 DEF PdfPart
  <2> QED
    BY <1>1, <2>1, Longer DEF PdfPart
<1>3. CASE kind # "pdf"
  BY <1>1, <1>3 DEF PdfPart
<1> QED
  BY <1>2, <1>3

LEMMA FrameInit == ASSUME InspectionInit PROVE FramePart
  BY LeadTypes DEF InspectionInit, FramePart

LEMMA FrameNext == ASSUME FramePart, InspectionNext PROVE FramePart'
  BY UnitIsRead DEF FramePart

LEMMA PacketInit == ASSUME InspectionInit PROVE PacketPart
  BY LeadTypes DEF InspectionInit, PacketPart

LEMMA PacketNext == ASSUME PacketPart, InspectionNext PROVE PacketPart'
  BY UnitIsRead DEF PacketPart

(* Where each walk begins and ends.                                         *)
LEMMA AdtsBounds ==
  ASSUME NEW l \in [size : Nat]
  PROVE  AdtsBegins(l) \in BOOLEAN /\ l.size \in Nat /\ (AdtsBegins(l) => 0 <= l.size)
  BY DEF AdtsBegins

LEMMA AmrBounds ==
  ASSUME NEW l \in AmrFiles
  PROVE  /\ AmrBegins(l) \in BOOLEAN /\ l.size \in Nat /\ l.wideband \in BOOLEAN
         /\ AmrMagicBytes(l.wideband) \in Nat
         /\ AmrBegins(l) => AmrMagicBytes(l.wideband) <= l.size
  BY DEF AmrBegins, AmrMagicBytes, AmrFiles

LEMMA MpegBounds ==
  ASSUME NEW l \in MpegFiles
  PROVE  /\ MpegStart(l).ok \in BOOLEAN /\ l.size \in Nat
         /\ MpegStart(l) = WalkStart(MpegStart(l).ok, MpegOffset(l))
         /\ MpegOffset(l) \in Nat /\ MpegEnd(l) \in Int /\ MpegEnd(l) <= l.size
         /\ MpegStart(l).ok => MpegOffset(l) <= MpegEnd(l)
<1>1. l.size \in Nat /\ l.id3v2 \in Id3Tags
  BY DEF MpegFiles
<1>2. MpegOffset(l) \in Nat
  BY <1>1 DEF MpegOffset, Id3v2Bytes, Id3Tags
<1>3. MpegEnd(l) \in Int /\ MpegEnd(l) <= l.size
  BY <1>1, <1>2 DEF MpegEnd
<1>4. PICK ok \in BOOLEAN :
        ok = (/\ l.size >= 4
              /\ l.id3v2.present => Id3v2Valid(l.id3v2) /\ MpegOffset(l) <= l.size - 4)
  OBVIOUS
<1>5. MpegStart(l) = WalkStart(ok, MpegOffset(l))
  BY <1>4 DEF MpegStart
<1>6. MpegStart(l).ok = ok
  BY <1>5 DEF WalkStart
<1>7. ok => MpegOffset(l) <= MpegEnd(l)
  <2>1. ok => MpegOffset(l) <= l.size
    <3>1. CASE l.id3v2.present
      <4>1. ok => MpegOffset(l) <= l.size - 4
        BY <1>4, <3>1
      <4> QED
        BY <1>1, <1>2, <4>1
    <3>2. CASE ~l.id3v2.present
      BY <1>1, <3>2 DEF MpegOffset
    <3> QED
      BY <3>1, <3>2
  <2> QED
    BY <1>1, <1>2, <2>1 DEF MpegEnd
<1> QED
  BY <1>1, <1>2, <1>3, <1>5, <1>6, <1>7

LEMMA NoLengths == ASSUME NEW L PROVE Lengths(L, <<>>) = <<>>
  BY DEF Lengths

LEMMA AdtsInit == ASSUME InspectionInit PROVE AdtsPart
<1>1. SUFFICES ASSUME kind = "adts"
               PROVE  /\ lead \in [size : Nat] /\ file \in Seq(AdtsFrames)
                      /\ WalkInv(scan, AdtsBegins(lead), 0, lead.size, Lengths(AdtsLengths, file))
  BY DEF AdtsPart
<1>2. file = <<>> /\ scan = WalkStart(AdtsBegins(lead), 0) /\ lead \in Leads["adts"]
  BY <1>1 DEF InspectionInit, Start, AdtsBegins
<1>3. lead \in [size : Nat]
  BY <1>2, LeadTypes
<1>4. WalkInv(WalkStart(AdtsBegins(lead), 0), AdtsBegins(lead), 0, lead.size, <<>>)
  BY <1>3, AdtsBounds, WalkStartInv
<1>5. WalkInv(scan, AdtsBegins(lead), 0, lead.size, Lengths(AdtsLengths, file))
  BY <1>2, <1>3, <1>4, AdtsBounds, NoLengths
<1> QED
  BY <1>2, <1>3, <1>5, Empty

LEMMA AdtsNext == ASSUME AdtsPart, InspectionNext PROVE AdtsPart'
<1>1. SUFFICES ASSUME kind' = "adts"
               PROVE  /\ lead' \in [size : Nat] /\ file' \in Seq(AdtsFrames)
                      /\ WalkInv(scan', AdtsBegins(lead'), 0, lead'.size, Lengths(AdtsLengths, file'))
  BY DEF AdtsPart
<1>2. PICK u \in Units[kind] : kind = "adts" /\ Reads /\ file' = Append(file, u) /\ scan' = Step(u)
  BY <1>1, UnitIsRead
<1> DEFINE length == AdtsFrameLength(u)  T == AdtsLengths  len == Lengths(T, file)
<1>3. u \in AdtsFrames /\ scan' = WalkStep(scan, lead.size, lead.size, 7, length)
  BY <1>2, UnitTypes DEF Step
<1>4. scan.ok
  BY <1>2 DEF Reads
<1>5. lead \in [size : Nat] /\ file \in Seq(AdtsFrames) /\ WalkInv(scan, AdtsBegins(lead), 0, lead.size, len)
  BY <1>2 DEF AdtsPart
<1>6. file' \in Seq(AdtsFrames) /\ lead' = lead
  BY <1>2, <1>3, <1>5, Longer, UnitIsRead
<1>7. length \in Int /\ (length = Unknown \/ (length >= 7 /\ length > 0))
  <2>1. length \in Int /\ (length = Unknown \/ length >= 7)
    BY <1>3, <1>5, AdtsLegal
  <2> HIDE DEF length
  <2> QED
    BY <2>1
<1>8. T \in [AdtsFrames -> Int] /\ T[u] = length
  BY <1>3, <1>5, AdtsLegal DEF AdtsLengths
<1> HIDE DEF length, T
<1>9. len \in Seq(Int) /\ Lengths(T, Append(file, u)) = Append(len, length)
  BY <1>3, <1>5, <1>8, LengthsAppend
<1> HIDE DEF len
<1>10. WalkInv(WalkStep(scan, lead.size, lead.size, 7, length), AdtsBegins(lead), 0, lead.size,
              Append(len, length))
  <2> DEFINE begins == AdtsBegins(lead)  begin == 0  size == lead.size  end == lead.size
  <2>1. /\ begins \in BOOLEAN /\ begin \in Nat /\ end \in Int /\ size \in Int /\ end <= size
        /\ 7 \in Nat
    BY <1>5, AdtsBounds
  <2>2. WalkInv(scan, begins, begin, end, len)
    BY <1>5
  <2> HIDE DEF begins, begin, size, end
  <2>3. WalkInv(WalkStep(scan, size, end, 7, length), begins, begin, end, Append(len, length))
    BY <1>4, <1>7, <1>9, <2>1, <2>2, WalkStepInv
  <2> QED
    BY <2>3 DEF begins, begin, size, end
<1>11. WalkInv(scan', AdtsBegins(lead), 0, lead.size, Lengths(T, file'))
  BY <1>2, <1>3, <1>9, <1>10
<1> QED
  BY <1>5, <1>6, <1>11 DEF T

LEMMA AmrInit == ASSUME InspectionInit PROVE AmrPart
<1>1. SUFFICES ASSUME kind = "amr"
               PROVE  /\ lead \in AmrFiles /\ file \in Seq(AmrFrames)
                      /\ WalkInv(scan, AmrBegins(lead), AmrMagicBytes(lead.wideband), lead.size, Lengths(AmrLengths(lead.wideband), file))
  BY DEF AmrPart
<1>2. file = <<>> /\ scan = WalkStart(AmrBegins(lead), AmrMagicBytes(lead.wideband)) /\ lead \in Leads["amr"]
  BY <1>1 DEF InspectionInit, Start, AmrBegins
<1>3. lead \in AmrFiles
  BY <1>2, LeadTypes DEF AmrFiles
<1>4. WalkInv(WalkStart(AmrBegins(lead), AmrMagicBytes(lead.wideband)), AmrBegins(lead), AmrMagicBytes(lead.wideband), lead.size, <<>>)
  BY <1>3, AmrBounds, WalkStartInv
<1>5. WalkInv(scan, AmrBegins(lead), AmrMagicBytes(lead.wideband), lead.size, Lengths(AmrLengths(lead.wideband), file))
  BY <1>2, <1>3, <1>4, AmrBounds, NoLengths
<1> QED
  BY <1>2, <1>3, <1>5, Empty

LEMMA AmrNext == ASSUME AmrPart, InspectionNext PROVE AmrPart'
<1>1. SUFFICES ASSUME kind' = "amr"
               PROVE  /\ lead' \in AmrFiles /\ file' \in Seq(AmrFrames)
                      /\ WalkInv(scan', AmrBegins(lead'), AmrMagicBytes(lead'.wideband), lead'.size, Lengths(AmrLengths(lead'.wideband), file'))
  BY DEF AmrPart
<1>2. PICK u \in Units[kind] : kind = "amr" /\ Reads /\ file' = Append(file, u) /\ scan' = Step(u)
  BY <1>1, UnitIsRead
<1> DEFINE length == AmrFrameLength(lead.wideband, u)  T == AmrLengths(lead.wideband)  len == Lengths(T, file)
<1>3. u \in AmrFrames /\ scan' = WalkStep(scan, lead.size, lead.size, 1, length)
  BY <1>2, UnitTypes DEF Step
<1>4. scan.ok
  BY <1>2 DEF Reads
<1>5. lead \in AmrFiles /\ file \in Seq(AmrFrames) /\ WalkInv(scan, AmrBegins(lead), AmrMagicBytes(lead.wideband), lead.size, len)
  BY <1>2 DEF AmrPart
<1>6. file' \in Seq(AmrFrames) /\ lead' = lead
  BY <1>2, <1>3, <1>5, Longer, UnitIsRead
<1>7. length \in Int /\ (length = Unknown \/ (length >= 1 /\ length > 0))
  <2>1. length \in Int /\ (length = Unknown \/ length >= 1)
    BY <1>3, <1>5, AmrLegal, AmrBounds
  <2> HIDE DEF length
  <2> QED
    BY <2>1
<1>8. T \in [AmrFrames -> Int] /\ T[u] = length
  BY <1>3, <1>5, AmrLegal, AmrBounds DEF AmrLengths
<1> HIDE DEF length, T
<1>9. len \in Seq(Int) /\ Lengths(T, Append(file, u)) = Append(len, length)
  BY <1>3, <1>5, <1>8, LengthsAppend
<1> HIDE DEF len
<1>10. WalkInv(WalkStep(scan, lead.size, lead.size, 1, length), AmrBegins(lead), AmrMagicBytes(lead.wideband), lead.size,
              Append(len, length))
  <2> DEFINE begins == AmrBegins(lead)  begin == AmrMagicBytes(lead.wideband)  size == lead.size  end == lead.size
  <2>1. /\ begins \in BOOLEAN /\ begin \in Nat /\ end \in Int /\ size \in Int /\ end <= size
        /\ 1 \in Nat
    BY <1>5, AmrBounds
  <2>2. WalkInv(scan, begins, begin, end, len)
    BY <1>5
  <2> HIDE DEF begins, begin, size, end
  <2>3. WalkInv(WalkStep(scan, size, end, 1, length), begins, begin, end, Append(len, length))
    BY <1>4, <1>7, <1>9, <2>1, <2>2, WalkStepInv
  <2> QED
    BY <2>3 DEF begins, begin, size, end
<1>11. WalkInv(scan', AmrBegins(lead), AmrMagicBytes(lead.wideband), lead.size, Lengths(T, file'))
  BY <1>2, <1>3, <1>9, <1>10
<1> QED
  BY <1>5, <1>6, <1>11 DEF T

LEMMA MpegInit == ASSUME InspectionInit PROVE MpegPart
<1>1. SUFFICES ASSUME kind = "mpeg"
               PROVE  /\ lead \in MpegFiles /\ file \in Seq(MpegFrames)
                      /\ WalkInv(scan, MpegStart(lead).ok, MpegOffset(lead), MpegEnd(lead), Lengths(MpegLengths, file))
  BY DEF MpegPart
<1>2. file = <<>> /\ scan = MpegStart(lead) /\ lead \in Leads["mpeg"]
  BY <1>1 DEF InspectionInit, Start
<1>3. lead \in MpegFiles
  BY <1>2, LeadTypes DEF MpegFiles
<1>4. WalkInv(WalkStart(MpegStart(lead).ok, MpegOffset(lead)), MpegStart(lead).ok, MpegOffset(lead), MpegEnd(lead), <<>>)
  BY <1>3, MpegBounds, WalkStartInv
<1>5. WalkInv(scan, MpegStart(lead).ok, MpegOffset(lead), MpegEnd(lead), Lengths(MpegLengths, file))
  BY <1>2, <1>3, <1>4, MpegBounds, NoLengths
<1> QED
  BY <1>2, <1>3, <1>5, Empty

LEMMA MpegNext == ASSUME MpegPart, InspectionNext PROVE MpegPart'
<1>1. SUFFICES ASSUME kind' = "mpeg"
               PROVE  /\ lead' \in MpegFiles /\ file' \in Seq(MpegFrames)
                      /\ WalkInv(scan', MpegStart(lead').ok, MpegOffset(lead'), MpegEnd(lead'), Lengths(MpegLengths, file'))
  BY DEF MpegPart
<1>2. PICK u \in Units[kind] : kind = "mpeg" /\ Reads /\ file' = Append(file, u) /\ scan' = Step(u)
  BY <1>1, UnitIsRead
<1> DEFINE length == MpegAudioFrameLength(u)  T == MpegLengths  len == Lengths(T, file)
<1>3. u \in MpegFrames /\ scan' = WalkStep(scan, lead.size, MpegEnd(lead), 4, length)
  BY <1>2, UnitTypes DEF Step
<1>4. scan.ok
  BY <1>2 DEF Reads
<1>5. lead \in MpegFiles /\ file \in Seq(MpegFrames) /\ WalkInv(scan, MpegStart(lead).ok, MpegOffset(lead), MpegEnd(lead), len)
  BY <1>2 DEF MpegPart
<1>6. file' \in Seq(MpegFrames) /\ lead' = lead
  BY <1>2, <1>3, <1>5, Longer, UnitIsRead
<1>7. length \in Int /\ (length = Unknown \/ (length >= 4 /\ length > 0))
  <2>1. length \in Int /\ (length = Unknown \/ length >= 4)
    BY <1>3, <1>5, MpegLegal
  <2> HIDE DEF length
  <2> QED
    BY <2>1
<1>8. T \in [MpegFrames -> Int] /\ T[u] = length
  BY <1>3, <1>5, MpegLegal DEF MpegLengths
<1> HIDE DEF length, T
<1>9. len \in Seq(Int) /\ Lengths(T, Append(file, u)) = Append(len, length)
  BY <1>3, <1>5, <1>8, LengthsAppend
<1> HIDE DEF len
<1>10. WalkInv(WalkStep(scan, lead.size, MpegEnd(lead), 4, length), MpegStart(lead).ok, MpegOffset(lead), MpegEnd(lead),
              Append(len, length))
  <2> DEFINE begins == MpegStart(lead).ok  begin == MpegOffset(lead)  size == lead.size  end == MpegEnd(lead)
  <2>1. /\ begins \in BOOLEAN /\ begin \in Nat /\ end \in Int /\ size \in Int /\ end <= size
        /\ 4 \in Nat
    BY <1>5, MpegBounds
  <2>2. WalkInv(scan, begins, begin, end, len)
    BY <1>5
  <2> HIDE DEF begins, begin, size, end
  <2>3. WalkInv(WalkStep(scan, size, end, 4, length), begins, begin, end, Append(len, length))
    BY <1>4, <1>7, <1>9, <2>1, <2>2, WalkStepInv
  <2> QED
    BY <2>3 DEF begins, begin, size, end
<1>11. WalkInv(scan', MpegStart(lead).ok, MpegOffset(lead), MpegEnd(lead), Lengths(T, file'))
  BY <1>2, <1>3, <1>9, <1>10
<1> QED
  BY <1>5, <1>6, <1>11 DEF T

(* Every file of every kind, at every step.                                 *)
LEMMA InspectionStarts == ASSUME InspectionInit PROVE InspectionInv
  BY PngInit, JpegInit, OggInit, OpusInit, PdfInit, FrameInit, PacketInit, PackageInit, AdtsInit, AmrInit,
     MpegInit, AdifInit, BmffInit DEF InspectionInv

LEMMA PartsStay ==
  ASSUME InspectionInv, UNCHANGED inspectionVars
  PROVE  InspectionInv'
<1>1. kind' = kind /\ lead' = lead /\ file' = file /\ scan' = scan
  BY Nothing
<1>2. PngPart' /\ JpegPart' /\ OggPart' /\ OpusPart' /\ PdfPart' /\ FramePart' /\ PacketPart' /\ PackagePart'
  BY <1>1 DEF InspectionInv, PngPart, JpegPart, OggPart, OpusPart, PdfPart, FramePart, PacketPart,
            PackagePart
<1>3. AdtsPart' /\ AmrPart' /\ MpegPart' /\ AdifPart' /\ BmffPart'
  BY <1>1 DEF InspectionInv, AdtsPart, AmrPart, MpegPart, AdifPart, BmffPart
<1> QED
  BY <1>2, <1>3 DEF InspectionInv

LEMMA InspectionSteps ==
  ASSUME InspectionInv, [InspectionNext]_inspectionVars
  PROVE  InspectionInv'
<1>1. CASE InspectionNext
  BY <1>1, PngNext, JpegNext, OggNext, OpusNext, PdfNext, FrameNext, PacketNext, PackageNext, AdtsNext, AmrNext,
     MpegNext, AdifNext, BmffNext DEF InspectionInv
<1>2. CASE UNCHANGED inspectionVars
  BY <1>2, PartsStay
<1> QED
  BY <1>1, <1>2

(***************************************************************************)
(* The inductive invariant of assertMediaContentSignature: at every point  *)
(* of the inspection of any file of any kind, its scan stands for exactly  *)
(* what the units read so far say.                                         *)
(***************************************************************************)
THEOREM InspectionIsInductive == InspectionSpec => []InspectionInv
<1>1. InspectionInit => InspectionInv
  BY InspectionStarts
<1>2. InspectionInv /\ [InspectionNext]_inspectionVars => InspectionInv'
  BY InspectionSteps
<1> QED
  BY <1>1, <1>2, PTL DEF InspectionSpec

(* What the invariant says of each property.                                *)
LEMMA ContainersAgree ==
  ASSUME InspectionInv
  PROVE  VerdictIsGrammar
<1>1. PngIsGrammar
  BY PngVerdict DEF InspectionInv, PngPart, PngIsGrammar
<1>2. JpegIsGrammar
  BY JpegVerdict DEF InspectionInv, JpegPart, JpegIsGrammar
<1>3. OggStreamsAreWhole
  BY OggVerdict DEF InspectionInv, OggPart, OggStreamsAreWhole
<1>4. OpusIsOneStream
  BY OpusVerdict DEF InspectionInv, OpusPart, OpusIsOneStream
<1>5. PdfIsAnchored
  BY PdfVerdict DEF InspectionInv, PdfPart, PdfIsAnchored
<1>6. PackageIsOneFamily
  BY ZipVerdict DEF InspectionInv, PackagePart, PackageIsOneFamily
<1> QED
  BY <1>1, <1>2, <1>3, <1>4, <1>5, <1>6 DEF VerdictIsGrammar

(* A table of lengths gives the lengths of the frames of a file.            *)
LEMMA LengthsOfFrames ==
  ASSUME NEW S, NEW T \in [S -> Int], NEW f \in Seq(S)
  PROVE  /\ Lengths(T, f) \in Seq(Int) /\ Len(Lengths(T, f)) = Len(f) /\ DOMAIN f = 1 .. Len(f)
         /\ \A i \in DOMAIN f : f[i] \in S
<1>1. Len(f) \in Nat /\ DOMAIN f = 1 .. Len(f) /\ \A i \in DOMAIN f : f[i] \in S
  BY LenProperties, ElementOfSeq
<1>2. Lengths(T, f) \in [1 .. Len(f) -> Int]
  BY <1>1 DEF Lengths
<1>3. Lengths(T, f) \in Seq(Int) /\ Len(Lengths(T, f)) = Len(f)
  BY <1>1, <1>2, SeqDef, LenProperties
<1> QED
  BY <1>1, <1>3

LEMMA AdtsTiles == ASSUME AdtsPart, kind = "adts" PROVE FramesTileTheFile
<1> DEFINE T == AdtsLengths  len == Lengths(T, file)
           start == AdtsBegins(lead)  begin == 0  end == lead.size
           lengths == [i \in DOMAIN file |-> AdtsFrameLength(file[i])]
<1>1. lead \in [size : Nat] /\ file \in Seq(AdtsFrames) /\ WalkInv(scan, start, begin, end, len)
  BY DEF AdtsPart
<1>2. T \in [AdtsFrames -> Int]
  BY <1>1, AdtsLegal DEF AdtsLengths
<1>3. /\ len \in Seq(Int) /\ Len(len) = Len(file) /\ DOMAIN file = 1 .. Len(file)
      /\ \A i \in DOMAIN file : file[i] \in AdtsFrames
  <2> HIDE DEF T
  <2> QED
    BY <1>1, <1>2, LengthsOfFrames
<1>4. len = lengths
  BY <1>3 DEF Lengths, AdtsLengths
<1>5. Start(kind, lead).ok = start
  BY DEF Start, WalkStart, AdtsBegins
<1>6. begin \in Nat /\ end \in Int
  BY <1>1, AdtsBounds
<1> HIDE DEF len, start, begin, end
<1>7. /\ scan.ok => Declared(len) /\ begin + Total(len) <= end
      /\ WalkAccepts(scan, end) <=>
           /\ start /\ Declared(len) /\ begin + Total(len) = end
           /\ Len(len) \in 1 .. MAX_FRAMES - 1
  BY <1>1, <1>3, <1>6, WalkVerdict
<1>8. Declared(len) <=> \A i \in DOMAIN file : lengths[i] > 0
  BY <1>3, <1>4 DEF Declared
<1> HIDE DEF lengths
<1> QED
  BY <1>3, <1>4, <1>5, <1>7, <1>8 DEF FramesTileTheFile, FramesTile, lengths, begin, end

LEMMA AmrTiles == ASSUME AmrPart, kind = "amr" PROVE FramesTileTheFile
<1> DEFINE T == AmrLengths(lead.wideband)  len == Lengths(T, file)
           start == AmrBegins(lead)  begin == AmrMagicBytes(lead.wideband)  end == lead.size
           lengths == [i \in DOMAIN file |-> AmrFrameLength(lead.wideband, file[i])]
<1>1. lead \in AmrFiles /\ file \in Seq(AmrFrames) /\ WalkInv(scan, start, begin, end, len)
  BY DEF AmrPart
<1>2. T \in [AmrFrames -> Int]
  BY <1>1, AmrLegal, AmrBounds DEF AmrLengths
<1>3. /\ len \in Seq(Int) /\ Len(len) = Len(file) /\ DOMAIN file = 1 .. Len(file)
      /\ \A i \in DOMAIN file : file[i] \in AmrFrames
  <2> HIDE DEF T
  <2> QED
    BY <1>1, <1>2, LengthsOfFrames
<1>4. len = lengths
  BY <1>3 DEF Lengths, AmrLengths
<1>5. Start(kind, lead).ok = start
  BY DEF Start, WalkStart, AmrBegins
<1>6. begin \in Nat /\ end \in Int
  BY <1>1, AmrBounds
<1> HIDE DEF len, start, begin, end
<1>7. /\ scan.ok => Declared(len) /\ begin + Total(len) <= end
      /\ WalkAccepts(scan, end) <=>
           /\ start /\ Declared(len) /\ begin + Total(len) = end
           /\ Len(len) \in 1 .. MAX_FRAMES - 1
  BY <1>1, <1>3, <1>6, WalkVerdict
<1>8. Declared(len) <=> \A i \in DOMAIN file : lengths[i] > 0
  BY <1>3, <1>4 DEF Declared
<1> HIDE DEF lengths
<1> QED
  BY <1>3, <1>4, <1>5, <1>7, <1>8 DEF FramesTileTheFile, FramesTile, lengths, begin, end

LEMMA MpegTiles == ASSUME MpegPart, kind = "mpeg" PROVE FramesTileTheFile
<1> DEFINE T == MpegLengths  len == Lengths(T, file)
           start == MpegStart(lead).ok  begin == MpegOffset(lead)  end == MpegEnd(lead)
           lengths == [i \in DOMAIN file |-> MpegAudioFrameLength(file[i])]
<1>1. lead \in MpegFiles /\ file \in Seq(MpegFrames) /\ WalkInv(scan, start, begin, end, len)
  BY DEF MpegPart
<1>2. T \in [MpegFrames -> Int]
  BY <1>1, MpegLegal DEF MpegLengths
<1>3. /\ len \in Seq(Int) /\ Len(len) = Len(file) /\ DOMAIN file = 1 .. Len(file)
      /\ \A i \in DOMAIN file : file[i] \in MpegFrames
  <2> HIDE DEF T
  <2> QED
    BY <1>1, <1>2, LengthsOfFrames
<1>4. len = lengths
  BY <1>3 DEF Lengths, MpegLengths
<1>5. Start(kind, lead).ok = start
  BY DEF Start
<1>6. begin \in Nat /\ end \in Int
  BY <1>1, MpegBounds
<1> HIDE DEF len, start, begin, end
<1>7. /\ scan.ok => Declared(len) /\ begin + Total(len) <= end
      /\ WalkAccepts(scan, end) <=>
           /\ start /\ Declared(len) /\ begin + Total(len) = end
           /\ Len(len) \in 1 .. MAX_FRAMES - 1
  BY <1>1, <1>3, <1>6, WalkVerdict
<1>8. Declared(len) <=> \A i \in DOMAIN file : lengths[i] > 0
  BY <1>3, <1>4 DEF Declared
<1> HIDE DEF lengths
<1> QED
  BY <1>3, <1>4, <1>5, <1>7, <1>8 DEF FramesTileTheFile, FramesTile, lengths, begin, end

LEMMA WalksAgree ==
  ASSUME InspectionInv
  PROVE  LengthsTileTheFile
<1>1. FramesTileTheFile
  <2>1. CASE kind \notin {"adts", "amr", "mpeg"}
    BY <2>1 DEF FramesTileTheFile, FramesTile
  <2> QED
    BY <2>1, AdtsTiles, AmrTiles, MpegTiles DEF InspectionInv
<1>2. FrameLengthMatchesBitrate
  BY MpegCarries DEF InspectionInv, FramePart, FrameLengthMatchesBitrate
<1>3. AdifHeaderFits
  BY AdifVerdict DEF InspectionInv, AdifPart, AdifHeaderFits
<1>4. BoxesTileTheFile
  BY BoxVerdict DEF InspectionInv, BmffPart, BoxesTileTheFile
<1>5. OpusFramesTile
  <2>1. CASE kind = "packet"
    BY <2>1, PacketVerdict DEF InspectionInv, PacketPart
  <2>2. CASE kind # "packet"
    BY <2>2, Zenon DEF OpusFramesTile
  <2> QED
    BY <2>1, <2>2
<1> QED
  BY <1>1, <1>2, <1>3, <1>4, <1>5 DEF LengthsTileTheFile

(***************************************************************************)
(* For every file of any length and any value of the limits, the verdicts  *)
(* of matchesPngStructure, matchesJpegStructure, matchesOggStructure, the  *)
(* Opus profile, matchesPdfStructure and matchesOoxmlPackageIdentity are   *)
(* those of the grammars.                                                  *)
(***************************************************************************)
THEOREM VerdictsAreGrammars == InspectionSpec => []VerdictIsGrammar
<1>1. InspectionInv => VerdictIsGrammar
  BY ContainersAgree
<1> QED
  BY <1>1, InspectionIsInductive, PTL

(***************************************************************************)
(* For every file of any length: matchesAacStructure (ADTS and ADIF),      *)
(* matchesAmrStructure, matchesMpegAudioStructure and                      *)
(* matchesIsoBmffStructure accept what fills the file to the last byte,    *)
(* the lengths they compute are those of the format, and                   *)
(* matchesOpusPacketFraming accepts exactly the packets whose frames are   *)
(* of legal size and duration, whatever their number, sizes and padding.   *)
(***************************************************************************)
THEOREM LengthsTile == InspectionSpec => []LengthsTileTheFile
<1>1. InspectionInv => LengthsTileTheFile
  BY WalksAgree
<1> QED
  BY <1>1, InspectionIsInductive, PTL
=============================================================================
