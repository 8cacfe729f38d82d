----------------------------- MODULE SequenceFold -----------------------------
(***************************************************************************)
(* What a fold over a sequence computes, for any operator Op: the facts    *)
(* the proofs about queues and datagrams need of FoldLeft.  A proof module *)
(* takes one instance of this module for each fold of its specification.   *)
(*                                                                         *)
(* Everything rests on one fact, that a set of natural numbers has a least *)
(* element.  It gives induction over the numbers for any set that contains *)
(* 0 and is closed under successor, and with that the existence and the    *)
(* uniqueness of the recursive function by which FoldLeft is defined.  The *)
(* facts about division are those the ring buffers and bit windows need.   *)
(***************************************************************************)
EXTENDS Integers, Sequences, WellFoundedInduction, TLAPS

CONSTANT Op(_, _)

(* FoldLeft and FlattenSeq of SequencesExt, for Op, spelled out so that an  *)
(* instance does not carry that module along.                               *)
Largest(t) == CHOOSE x \in t : \A y \in t : x >= y

Folded(base, s) ==
    LET iter[t \in SUBSET DOMAIN s] ==
            IF t = {} THEN base ELSE LET x == Largest(t) IN Op(iter[t \ {x}], s[x])
    IN  iter[DOMAIN s]

Flattened(seqs) ==
    IF Len(seqs) = 0 THEN seqs
    ELSE LET flatten[i \in 1 .. Len(seqs)] ==
                 IF i = 1 THEN seqs[i] ELSE flatten[i - 1] \o seqs[i]
         IN  flatten[Len(seqs)]

-----------------------------------------------------------------------------
(* Induction. *)

Less == {ss \in Nat \X Nat : ss[1] < ss[2]}

(* A set of natural numbers that is not empty has a least element.          *)
LEMMA LeastNatural ==
    ASSUME NEW T, T \subseteq Nat, T # {}
    PROVE  \E x \in T : \A y \in T : x <= y
<1>1. IsWellFoundedOn(Less, Nat)
  BY NatLessThanWellFounded DEF OpToRel, Less
<1>2. PICK x \in T : \A y \in T : ~ (<<y, x>> \in Less)
  BY <1>1, WFMin
<1>3. \A y \in T : ~ (y < x)
  BY <1>2 DEF Less
<1>. QED
  BY <1>3

(* Induction over the natural numbers, for membership in a set.             *)
LEMMA SetInduction ==
    ASSUME NEW S, 0 \in S, \A n \in Nat : n \in S => n + 1 \in S
    PROVE  Nat \subseteq S
<1>. DEFINE T == Nat \ S
<1>1. SUFFICES ASSUME T # {} PROVE FALSE
  OBVIOUS
<1>2. PICK x \in T : \A y \in T : x <= y
  BY <1>1, LeastNatural
<1>3. x - 1 \in Nat /\ x - 1 \notin T
  BY <1>2
<1>. QED
  BY <1>2, <1>3

-----------------------------------------------------------------------------
(* Division. *)

(* Division with remainder.                                                 *)
LEMMA Division ==
    ASSUME NEW d \in Nat, d > 0, NEW x \in Nat
    PROVE  /\ x \div d \in Nat /\ x % d \in 0 .. d - 1
           /\ x = d * (x \div d) + (x % d)
BY Z3

(* Quotient and remainder are unique.                                       *)
LEMMA DivisionIsUnique ==
    ASSUME NEW d \in Nat, d > 0, NEW x \in Nat, NEW q \in Int, NEW r \in 0 .. d - 1,
           x = d * q + r
    PROVE  x \div d = q /\ x % d = r
<1>. DEFINE p == x \div d
            s == x % d
<1>1. p \in Int /\ s \in 0 .. d - 1 /\ x = d * p + s
  BY Division
<1>. HIDE DEF p, s
<1>2. ~ (p < q)
  <2>. SUFFICES ASSUME p < q PROVE FALSE
    OBVIOUS
  <2>1. PICK k \in Nat : q = p + 1 + k
    <3>1. q - p - 1 \in Nat /\ q = p + 1 + (q - p - 1)
      BY <1>1
    <3>. QED
      BY <3>1
  <2>2. d * q = d * p + d + d * k /\ d * k \in Nat /\ d * p \in Int
    BY <1>1, <2>1
  <2>. QED
    BY <1>1, <2>2
<1>3. ~ (q < p)
  <2>. SUFFICES ASSUME q < p PROVE FALSE
    OBVIOUS
  <2>1. PICK k \in Nat : p = q + 1 + k
    <3>1. p - q - 1 \in Nat /\ p = q + 1 + (p - q - 1)
      BY <1>1
    <3>. QED
      BY <3>1
  <2>2. d * p = d * q + d + d * k /\ d * k \in Nat /\ d * q \in Int
    BY <1>1, <2>1
  <2>. QED
    BY <1>1, <2>2
<1>4. p = q
  BY <1>1, <1>2, <1>3
<1>5. s = r
  <2>1. d * q \in Int
    OBVIOUS
  <2>. QED
    BY <1>1, <1>4, <2>1
<1>. QED
  BY <1>4, <1>5 DEF p, s

-----------------------------------------------------------------------------
(* The recursive function of the fold. *)

IsFold(base, s, g, m) ==
    g = [t \in SUBSET (1 .. m) |->
            IF t = {} THEN base ELSE LET x == Largest(t) IN Op(g[t \ {x}], s[x])]

(* The greatest element of a set of positions that contains the last one.   *)
LEMMA MaxIsLast ==
    ASSUME NEW n \in Nat, NEW t \in SUBSET (1 .. n + 1), n + 1 \in t
    PROVE  Largest(t) = n + 1
<1>1. n + 1 \in t /\ \A y \in t : n + 1 >= y
  OBVIOUS
<1>2. \A x \in t : (\A y \in t : x >= y) => x = n + 1
  OBVIOUS
<1>. QED
  BY <1>1, <1>2 DEF Largest

(* The function exists.                                                     *)
LEMMA FoldExists ==
    ASSUME NEW base, NEW s
    PROVE  \A n \in Nat : \E g : IsFold(base, s, g, n)
<1>. DEFINE S == {m \in Nat : \E g : IsFold(base, s, g, m)}
<1>1. 0 \in S
  <2>. DEFINE g == [t \in SUBSET (1 .. 0) |-> base]
  <2>1. IsFold(base, s, g, 0)
    BY DEF IsFold
  <2>. QED
    BY <2>1
<1>2. ASSUME NEW n \in Nat, n \in S PROVE n + 1 \in S
  <2>1. PICK g : IsFold(base, s, g, n)
    BY <1>2
  <2>. DEFINE h == [t \in SUBSET (1 .. n + 1) |->
                       IF n + 1 \in t THEN Op(g[t \ {n + 1}], s[n + 1]) ELSE g[t]]
              k == [t \in SUBSET (1 .. n + 1) |->
                       IF t = {} THEN base ELSE LET x == Largest(t) IN Op(h[t \ {x}], s[x])]
  <2>2. ASSUME NEW t \in SUBSET (1 .. n + 1) PROVE h[t] = k[t]
    <3>1. CASE n + 1 \in t
      <4>1. /\ Largest(t) = n + 1 /\ t # {}
            /\ t \ {n + 1} \in SUBSET (1 .. n) /\ t \ {n + 1} \in SUBSET (1 .. n + 1)
        BY <3>1, MaxIsLast
      <4>2. h[t \ {n + 1}] = g[t \ {n + 1}]
        BY <4>1
      <4>. QED
        BY <3>1, <4>1, <4>2
    <3>2. CASE n + 1 \notin t
      <4>1. t \in SUBSET (1 .. n)
        BY <3>2
      <4>2. g[t] = IF t = {} THEN base ELSE LET x == Largest(t) IN Op(g[t \ {x}], s[x])
        BY <2>1, <4>1 DEF IsFold
      <4>3. \A x : t \ {x} \in SUBSET (1 .. n + 1) /\ h[t \ {x}] = g[t \ {x}]
        BY <4>1, <3>2
      <4>. QED
        BY <3>2, <4>2, <4>3
    <3>. QED
      BY <3>1, <3>2
  <2>3. h = k
    BY <2>2
  <2>4. IsFold(base, s, h, n + 1)
    BY <2>3 DEF IsFold
  <2>. QED
    BY <2>4
<1>3. Nat \subseteq S
  <2>. HIDE DEF S
  <2>. QED
    BY <1>1, <1>2, SetInduction
<1>. QED
  BY <1>3

(* Its values on the prefixes of the positions.                             *)
LEMMA FoldOnPrefix ==
    ASSUME NEW base, NEW s, NEW m \in Nat, NEW g, IsFold(base, s, g, m)
    PROVE  /\ g[1 .. 0] = base
           /\ \A i \in 0 .. m - 1 : g[1 .. i + 1] = Op(g[1 .. i], s[i + 1])
<1>1. g[1 .. 0] = base
  <2>1. 1 .. 0 \in SUBSET (1 .. m) /\ 1 .. 0 = {}
    OBVIOUS
  <2>. QED
    BY <2>1 DEF IsFold
<1>2. ASSUME NEW i \in 0 .. m - 1 PROVE g[1 .. i + 1] = Op(g[1 .. i], s[i + 1])
  <2>1. /\ 1 .. i + 1 \in SUBSET (1 .. m) /\ 1 .. i + 1 # {}
        /\ (1 .. i + 1) \ {i + 1} = 1 .. i
    OBVIOUS
  <2>2. Largest(1 .. i + 1) = i + 1
    BY MaxIsLast, i + 1 \in 1 .. i + 1
  <2>. QED
    BY <2>1, <2>2 DEF IsFold
<1>. QED
  BY <1>1, <1>2

(* FoldLeft is the last of these values.                                    *)
LEMMA FoldIsLastValue ==
    ASSUME NEW base, NEW s, NEW n \in Nat, DOMAIN s = 1 .. n
    PROVE  \E g : IsFold(base, s, g, n) /\ Folded(base, s) = g[1 .. n]
<1>1. Folded(base, s) = (CHOOSE g : IsFold(base, s, g, n))[1 .. n]
  BY DEF Folded, IsFold
<1>2. IsFold(base, s, CHOOSE g : IsFold(base, s, g, n), n)
  BY FoldExists
<1>. QED
  BY <1>1, <1>2

-----------------------------------------------------------------------------
(* What is used of folds. *)

(* f holds the values of a fold of s, of length n, on its prefixes.         *)
PrefixValues(base, s, n, f) ==
    /\ f[0] = base
    /\ \A i \in 0 .. n - 1 : f[i + 1] = Op(f[i], s[i + 1])
    /\ Folded(base, s) = f[n]

(* Every fold has them.                                                     *)
LEMMA FoldHasValues ==
    ASSUME NEW base, NEW s, NEW n \in Nat, DOMAIN s = 1 .. n
    PROVE  \E f : PrefixValues(base, s, n, f)
<1>1. PICK g : IsFold(base, s, g, n) /\ Folded(base, s) = g[1 .. n]
  BY FoldIsLastValue
<1>. DEFINE f == [i \in 0 .. n |-> g[1 .. i]]
<1>2. f[0] = base
  <2>1. g[1 .. 0] = base
    BY <1>1, FoldOnPrefix
  <2>. QED
    BY <2>1
<1>3. ASSUME NEW i \in 0 .. n - 1 PROVE f[i + 1] = Op(f[i], s[i + 1])
  <2>1. f[i + 1] = g[1 .. i + 1] /\ f[i] = g[1 .. i]
    OBVIOUS
  <2>. QED
    BY <1>1, <2>1, FoldOnPrefix
<1>4. Folded(base, s) = f[n]
  BY <1>1
<1>. HIDE DEF f
<1>5. PrefixValues(base, s, n, f)
  BY <1>2, <1>3, <1>4 DEF PrefixValues
<1>. QED
  BY <1>5

LEMMA FoldPrefixes ==
    ASSUME NEW base, NEW s, NEW n \in Nat, DOMAIN s = 1 .. n
    PROVE  \E f : /\ f[0] = base
                  /\ \A i \in 0 .. n - 1 : f[i + 1] = Op(f[i], s[i + 1])
                  /\ Folded(base, s) = f[n]
<1>1. PICK f : PrefixValues(base, s, n, f)
  BY FoldHasValues
<1>2. /\ f[0] = base
      /\ \A i \in 0 .. n - 1 : f[i + 1] = Op(f[i], s[i + 1])
      /\ Folded(base, s) = f[n]
  BY <1>1 DEF PrefixValues
<1>. QED
  BY <1>2, Zenon

(* A fold is computed by any function on the prefixes that starts at base   *)
(* and takes a step of Op at each position.                                 *)
LEMMA FoldComputed ==
    ASSUME NEW base, NEW s, NEW n \in Nat, DOMAIN s = 1 .. n, NEW f,
           f[0] = base, \A i \in 0 .. n - 1 : f[i + 1] = Op(f[i], s[i + 1])
    PROVE  Folded(base, s) = f[n]
<1>1. PICK e : /\ e[0] = base
               /\ \A i \in 0 .. n - 1 : e[i + 1] = Op(e[i], s[i + 1])
               /\ Folded(base, s) = e[n]
  BY FoldPrefixes
<1>. DEFINE S == {i \in Nat : i <= n => e[i] = f[i]}
<1>2. 0 \in S
  BY <1>1
<1>3. ASSUME NEW i \in Nat, i \in S PROVE i + 1 \in S
  <2>. SUFFICES ASSUME i + 1 <= n PROVE e[i + 1] = f[i + 1]
    OBVIOUS
  <2>1. i \in 0 .. n - 1 /\ e[i] = f[i]
    BY <1>3
  <2>. QED
    BY <1>1, <2>1
<1>4. Nat \subseteq S
  <2>. HIDE DEF S
  <2>. QED
    BY <1>2, <1>3, SetInduction
<1>. QED
  BY <1>1, <1>4

(* The fold of the empty sequence.                                          *)
LEMMA FoldEmpty ==
    ASSUME NEW base
    PROVE  Folded(base, << >>) = base
<1>. DEFINE f == [i \in 0 .. 0 |-> base]
<1>1. f[0] = base
  OBVIOUS
<1>. HIDE DEF f
<1>2. DOMAIN << >> = 1 .. 0 /\ \A i \in 0 .. 0 - 1 : FALSE
  OBVIOUS
<1>. QED
  BY <1>1, <1>2, FoldComputed

(* The fold of a sequence from that of all but its last element.            *)
LEMMA FoldLast ==
    ASSUME NEW base, NEW s, NEW r, NEW n \in Nat, DOMAIN s = 1 .. n + 1,
           DOMAIN r = 1 .. n, \A i \in 1 .. n : r[i] = s[i]
    PROVE  Folded(base, s) = Op(Folded(base, r), s[n + 1])
<1>1. PICK f : /\ f[0] = base
               /\ \A i \in 0 .. (n + 1) - 1 : f[i + 1] = Op(f[i], s[i + 1])
               /\ Folded(base, s) = f[n + 1]
  <2>1. PICK m \in Nat : m = n + 1
    OBVIOUS
  <2>2. PICK f : PrefixValues(base, s, m, f)
    BY <2>1, FoldHasValues
  <2>. QED
    BY <2>1, <2>2 DEF PrefixValues
<1>2. \A i \in 0 .. n - 1 : f[i + 1] = Op(f[i], r[i + 1])
  BY <1>1
<1>3. Folded(base, r) = f[n]
  BY <1>1, <1>2, FoldComputed
<1>4. f[n + 1] = Op(f[n], s[n + 1])
  BY <1>1
<1>. QED
  BY <1>1, <1>3, <1>4

(* A set that contains the base and is closed under the steps contains the  *)
(* fold.                                                                    *)
LEMMA FoldType ==
    ASSUME NEW base, NEW s, NEW n \in Nat, DOMAIN s = 1 .. n, NEW T, base \in T,
           \A x \in T, i \in 1 .. n : Op(x, s[i]) \in T
    PROVE  Folded(base, s) \in T
<1>1. PICK f : /\ f[0] = base
               /\ \A i \in 0 .. n - 1 : f[i + 1] = Op(f[i], s[i + 1])
               /\ Folded(base, s) = f[n]
  BY FoldPrefixes
<1>. DEFINE S == {i \in Nat : i <= n => f[i] \in T}
<1>2. 0 \in S
  BY <1>1
<1>3. ASSUME NEW i \in Nat, i \in S PROVE i + 1 \in S
  <2>. SUFFICES ASSUME i + 1 <= n PROVE f[i + 1] \in T
    OBVIOUS
  <2>1. f[i] \in T /\ i + 1 \in 1 .. n /\ f[i + 1] = Op(f[i], s[i + 1])
    BY <1>1, <1>3
  <2>. QED
    BY <2>1
<1>4. Nat \subseteq S
  <2>. HIDE DEF S
  <2>. QED
    BY <1>2, <1>3, SetInduction
<1>. QED
  BY <1>1, <1>4

-----------------------------------------------------------------------------
(* Sequences of sequences. *)

IsFlat(seqs, f, m) ==
    f = [i \in 1 .. m |-> IF i = 1 THEN seqs[i] ELSE f[i - 1] \o seqs[i]]

(* The recursive function of Flattened exists.                             *)
LEMMA FlatExists ==
    ASSUME NEW seqs
    PROVE  \A n \in Nat : \E f : IsFlat(seqs, f, n)
<1>. DEFINE S == {m \in Nat : \E f : IsFlat(seqs, f, m)}
<1>1. 0 \in S
  <2>. DEFINE f == [i \in 1 .. 0 |-> {}]
  <2>1. IsFlat(seqs, f, 0)
    BY DEF IsFlat
  <2>. QED
    BY <2>1
<1>2. ASSUME NEW n \in Nat, n \in S PROVE n + 1 \in S
  <2>1. PICK g : IsFlat(seqs, g, n)
    BY <1>2
  <2>. DEFINE h == [i \in 1 .. n + 1 |->
                       IF i = 1 THEN seqs[i] ELSE g[i - 1] \o seqs[i]]
              k == [i \in 1 .. n + 1 |->
                       IF i = 1 THEN seqs[i] ELSE h[i - 1] \o seqs[i]]
  <2>2. ASSUME NEW i \in 1 .. n PROVE h[i] = g[i]
    <3>1. g[i] = IF i = 1 THEN seqs[i] ELSE g[i - 1] \o seqs[i]
      BY <2>1 DEF IsFlat
    <3>2. i \in 1 .. n + 1
      OBVIOUS
    <3>. QED
      BY <3>1, <3>2
  <2>3. ASSUME NEW i \in 1 .. n + 1 PROVE h[i] = k[i]
    <3>1. CASE i = 1
      BY <3>1
    <3>2. CASE i # 1
      <4>1. i - 1 \in 1 .. n
        BY <3>2
      <4>2. h[i - 1] = g[i - 1]
        BY <2>2, <4>1
      <4>3. h[i] = g[i - 1] \o seqs[i] /\ k[i] = h[i - 1] \o seqs[i]
        BY <3>2
      <4>. QED
        BY <4>2, <4>3
    <3>. QED
      BY <3>1, <3>2
  <2>4. h = k
    BY <2>3
  <2>5. IsFlat(seqs, h, n + 1)
    BY <2>4 DEF IsFlat
  <2>. QED
    BY <2>5
<1>3. Nat \subseteq S
  <2>. HIDE DEF S
  <2>. QED
    BY <1>1, <1>2, SetInduction
<1>. QED
  BY <1>3

(* Flattened joins its parts one after the other.                          *)
Joins(seqs, n, f) ==
    /\ f[0] = << >> /\ Flattened(seqs) = f[n]
    /\ \A i \in 0 .. n - 1 : f[i + 1] = f[i] \o seqs[i + 1]

LEMMA FlattenPrefixes ==
    ASSUME NEW V, NEW n \in Nat, NEW seqs \in [1 .. n -> Seq(V)]
    PROVE  \E f : Joins(seqs, n, f)
<1>1. Len(seqs) = n /\ DOMAIN seqs = 1 .. n
  OBVIOUS
<1>2. CASE n = 0
  <2>1. Flattened(seqs) = seqs
    BY <1>1, <1>2 DEF Flattened
  <2>2. seqs = << >>
    BY <1>1, <1>2
  <2>. DEFINE f == [i \in 0 .. 0 |-> << >>]
  <2>3. f[0] = << >> /\ \A i \in 0 .. 0 - 1 : FALSE
    OBVIOUS
  <2>. HIDE DEF f
  <2>. QED
    BY <1>2, <2>1, <2>2, <2>3 DEF Joins
<1>3. CASE n # 0
  <2>1. Flattened(seqs) = (CHOOSE f : IsFlat(seqs, f, n))[n]
    BY <1>1, <1>3 DEF Flattened, IsFlat
  <2>2. PICK g : IsFlat(seqs, g, n) /\ Flattened(seqs) = g[n]
    BY <2>1, FlatExists
  <2>. DEFINE f == [i \in 0 .. n |-> IF i = 0 THEN << >> ELSE g[i]]
  <2>3. \A i \in 1 .. n : g[i] = IF i = 1 THEN seqs[i] ELSE g[i - 1] \o seqs[i]
    BY <2>2 DEF IsFlat
  <2>4. f[0] = << >> /\ f[n] = g[n]
    BY <1>3
  <2>5. ASSUME NEW i \in 0 .. n - 1 PROVE f[i + 1] = f[i] \o seqs[i + 1]
    <3>1. i + 1 \in 1 .. n /\ (i + 1) - 1 = i /\ f[i + 1] = g[i + 1] /\ seqs[i + 1] \in Seq(V)
      OBVIOUS
    <3>2. CASE i = 0
      <4>1. g[1] = seqs[1]
        BY <2>3, <3>1, <3>2
      <4>2. << >> \o seqs[1] = seqs[1]
        BY <3>1, <3>2
      <4>. QED
        BY <2>4, <3>1, <3>2, <4>1, <4>2
    <3>3. CASE i # 0
      <4>1. f[i] = g[i] /\ i + 1 # 1
        BY <3>3
      <4>. QED
        BY <2>3, <3>1, <4>1
    <3>. QED
      BY <3>2, <3>3
  <2>6. Joins(seqs, n, f)
    <3>. HIDE DEF f
    <3>. QED
      BY <2>2, <2>4, <2>5 DEF Joins
  <2>. QED
    BY <2>6
<1>. QED
  BY <1>2, <1>3

=============================================================================
