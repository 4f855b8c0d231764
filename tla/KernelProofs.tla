----------------------------- MODULE KernelProofs -----------------------------
(***************************************************************************)
(* What the kernels whose threads share a buffer compute, for lists and    *)
(* chains of any length: the merkle tree that is reduced in place, and the *)
(* verdict on a chain.                                                     *)
(***************************************************************************)
EXTENDS MerkleKernel, VerifyKernel, TLAPS, FunctionTheorems, SequenceTheorems, WellFoundedInduction

-----------------------------------------------------------------------------
(* Lists of hashes. *)

IsList(f) == \E S : f \in Seq(S)

\* A function on 1 .. n is a list of n elements.
LEMMA ListOf ==
    ASSUME NEW n \in Nat, NEW f, f = [k \in 1 .. n |-> f[k]]
    PROVE  IsList(f) /\ Len(f) = n /\ DOMAIN f = 1 .. n
<1> DEFINE S == {f[k] : k \in 1 .. n}
<1>1. f \in [1 .. n -> S]
    OBVIOUS
<1>2. f \in Seq(S)
    BY <1>1, SeqDef
<1>3. DOMAIN f = 1 .. Len(f) /\ Len(f) \in Nat /\ DOMAIN f = 1 .. n
    BY <1>1, <1>2, LenProperties
<1>4. Len(f) = n
    BY <1>3, SMT
<1> QED
    BY <1>2, <1>3, <1>4, Zenon DEF IsList

\* An odd list is filled up with its last element.
LEMMA DoubledList ==
    ASSUME NEW f, IsList(f), Len(f) >= 1
    PROVE  /\ IsList(Doubled(f)) /\ Len(f) \in Nat
           /\ Len(Doubled(f)) = Len(f) + (Len(f) % 2)
           /\ \A k \in 1 .. Len(f) : Doubled(f)[k] = f[k]
           /\ Len(f) % 2 = 1 => Doubled(f)[Len(f) + 1] = f[Len(f)]
<1>1. PICK S : f \in Seq(S)
    BY DEF IsList
<1>2. Len(f) \in Nat
    BY <1>1, LenProperties
<1>3. CASE Len(f) % 2 = 1
    <2>1. f[Len(f)] \in S
        BY <1>1, <1>2, ElementOfSeq
    <2>2. Doubled(f) = Append(f, f[Len(f)])
        BY <1>3 DEF Doubled
    <2> QED
        BY <1>1, <1>2, <1>3, <2>1, <2>2, AppendProperties DEF IsList
<1>4. CASE Len(f) % 2 # 1
    <2>1. Len(f) % 2 = 0
        BY <1>2, <1>4, SMT
    <2> QED
        BY <1>2, <1>4, <2>1 DEF Doubled, IsList
<1> QED
    BY <1>3, <1>4

\* The level above has a hash for every pair.
LEMMA AboveList ==
    ASSUME NEW f, IsList(f), Len(f) >= 1
    PROVE  /\ IsList(LevelAbove(f))
           /\ Len(LevelAbove(f)) = Len(Doubled(f)) \div 2
           /\ \A k \in 1 .. Len(Doubled(f)) \div 2 :
                 LevelAbove(f)[k] = Digest(Both(Doubled(f)[2 * k - 1], Doubled(f)[2 * k]))
<1> DEFINE half == Len(Doubled(f)) \div 2
<1>1. half \in Nat
    BY DoubledList, SMT
<1>2. LevelAbove(f) = [k \in 1 .. half |-> Digest(Both(Doubled(f)[2 * k - 1], Doubled(f)[2 * k]))]
    BY DEF LevelAbove
<1> HIDE DEF half
<1>3. LevelAbove(f) = [k \in 1 .. half |-> LevelAbove(f)[k]]
    BY <1>2
<1>4. IsList(LevelAbove(f)) /\ Len(LevelAbove(f)) = half
    BY <1>1, <1>3, ListOf
<1> QED
    BY <1>2, <1>4 DEF half

\* getMerkleRoot of the CPU fills an odd level up with the last message.
FilledUp(f, last) == IF Len(f) % 2 = 1 THEN Append(f, last) ELSE f

\* A level of the CPU is a list as well, half as long.
LEMMA CpuLevelList ==
    ASSUME NEW f, IsList(f), Len(f) >= 1, NEW last
    PROVE  /\ Len(f) \in Nat /\ \A k \in 1 .. Len(f) : FilledUp(f, last)[k] = f[k]
           /\ LET half == (Len(f) + (Len(f) % 2)) \div 2
                  even == FilledUp(f, last)
              IN  /\ IsList(CpuLevel(f, last)) /\ Len(CpuLevel(f, last)) = half
                  /\ half \in Nat /\ half >= 1
                  /\ \A p \in 1 .. half : CpuLevel(f, last)[p] =
                        Digest(Both(Digest(even[2 * p - 1]), Digest(even[2 * p])))
<1> DEFINE even == FilledUp(f, last)
           half == (Len(f) + (Len(f) % 2)) \div 2
<1>1. PICK R : f \in Seq(R)
    BY DEF IsList
<1>2. f \in Seq(R \cup {last}) /\ Len(f) \in Nat
    BY <1>1, SeqMonotonic, LenProperties
<1>3. Len(even) = Len(f) + (Len(f) % 2) /\ \A k \in 1 .. Len(f) : even[k] = f[k]
    <2>1. CASE Len(f) % 2 = 1
        <3>1. even = Append(f, last) /\ last \in R \cup {last}
            BY <2>1 DEF FilledUp
        <3> HIDE DEF even
        <3> QED
            BY <1>2, <2>1, <3>1, AppendProperties
    <2>2. CASE Len(f) % 2 # 1
        <3>1. Len(f) % 2 = 0
            BY <1>2, <2>2, SMT
        <3> QED
            BY <1>2, <2>2, <3>1 DEF FilledUp
    <2> QED
        BY <2>1, <2>2
<1>4. half \in Nat /\ half >= 1
    BY <1>2, SMT
<1>5. CpuLevel(f, last) = [p \in 1 .. Len(even) \div 2 |->
            Digest(Both(Digest(even[2 * p - 1]), Digest(even[2 * p])))]
    BY DEF CpuLevel, FilledUp
<1>6. Len(even) \div 2 = half
    BY <1>3
<1> HIDE DEF even, half
<1>7. CpuLevel(f, last) = [p \in 1 .. half |->
            Digest(Both(Digest(even[2 * p - 1]), Digest(even[2 * p])))]
    BY <1>5, <1>6
<1>8. CpuLevel(f, last) = [p \in 1 .. half |-> CpuLevel(f, last)[p]]
    BY <1>7
<1>9. IsList(CpuLevel(f, last)) /\ Len(CpuLevel(f, last)) = half
    BY <1>4, <1>8, ListOf
<1> QED
    BY <1>2, <1>3, <1>4, <1>7, <1>9 DEF even, half

-----------------------------------------------------------------------------
(* Induction over the levels of a tree. *)

\* A set of numbers has a least element.
LEMMA LeastOf ==
    ASSUME NEW T \in SUBSET Nat, T # {}
    PROVE  \E m \in T : \A k \in T : m <= k
<1> DEFINE R == OpToRel(<, Nat)
<1>1. \E m \in T : \A k \in T : ~ (<<k, m>> \in R)
    <2> HIDE DEF R
    <2>1. IsWellFoundedOn(R, Nat)
        BY NatLessThanWellFounded DEF R
    <2> QED
        BY <2>1, WFMin
<1>2. PICK m \in T : \A k \in T : ~ (<<k, m>> \in R)
    BY <1>1
<1>3. ASSUME NEW k \in T PROVE m <= k
    <2>1. k \in Nat /\ m \in Nat
        OBVIOUS
    <2>2. ~ (k < m)
        BY <1>2, <2>1, Zenon DEF OpToRel
    <2> QED
        BY <2>1, <2>2, SMT
<1> QED
    BY <1>3

\* What holds of 0, and of each number with the one before it, holds of all.
LEMMA Ascent ==
    ASSUME NEW Good, 0 \in Good, \A k \in Nat : k \in Good => k + 1 \in Good
    PROVE  \A k \in Nat : k \in Good
<1> DEFINE T == {j \in Nat : j \notin Good}
<1>1. SUFFICES ASSUME NEW k \in Nat, k \notin Good PROVE FALSE
    OBVIOUS
<1>2. PICK m \in T : \A j \in T : m <= j
    <2>1. k \in T
        BY <1>1
    <2> QED
        BY <2>1, LeastOf
<1>3. m - 1 \in Nat /\ m - 1 \notin T /\ (m - 1) + 1 = m
    BY <1>2
<1> QED
    BY <1>2, <1>3

\* The levels up to the nth, and all of them: Tree is well defined.
Column(device, leaves, last, n, g) ==
    g = [k \in 0 .. n |-> IF k = 0 THEN leaves ELSE Round(device, g[k - 1], last)]

LEMMA ColumnExists ==
    ASSUME NEW device, NEW leaves, NEW last
    PROVE  \A n \in Nat : \E g : Column(device, leaves, last, n, g)
<1> DEFINE Good == {n \in Nat : \E g : Column(device, leaves, last, n, g)}
<1>1. 0 \in Good
    <2>1. Column(device, leaves, last, 0, [k \in 0 .. 0 |-> leaves])
        BY DEF Column
    <2> QED
        BY <2>1
<1>2. ASSUME NEW m \in Nat, m \in Good PROVE m + 1 \in Good
    <2>1. PICK g : Column(device, leaves, last, m, g)
        BY <1>2
    <2> DEFINE h == [k \in 0 .. m + 1 |-> IF k = m + 1 THEN Round(device, g[m], last) ELSE g[k]]
    <2>2. \A k \in 0 .. m : h[k] = g[k]
        OBVIOUS
    <2>3. \A k \in 0 .. m : g[k] = IF k = 0 THEN leaves ELSE Round(device, g[k - 1], last)
        BY <2>1 DEF Column
    <2>4. ASSUME NEW k \in 0 .. m + 1
          PROVE  h[k] = IF k = 0 THEN leaves ELSE Round(device, h[k - 1], last)
        <3>1. CASE k = m + 1
            BY <2>2, <3>1
        <3>2. CASE k # m + 1
            <4>1. k \in 0 .. m /\ (k # 0 => k - 1 \in 0 .. m)
                BY <3>2
            <4> QED
                BY <2>2, <2>3, <4>1
        <3> QED
            BY <3>1, <3>2
    <2>5. h = [k \in 0 .. m + 1 |-> h[k]]
        OBVIOUS
    <2> HIDE DEF h
    <2>6. Column(device, leaves, last, m + 1, h)
        BY <2>4, <2>5 DEF Column
    <2> QED
        BY <2>6
<1> HIDE DEF Good
<1>3. \A n \in Nat : n \in Good
    BY <1>1, <1>2, Ascent
<1> QED
    BY <1>3 DEF Good

LEMMA ColumnsAgree ==
    ASSUME NEW device, NEW leaves, NEW last, NEW n \in Nat, NEW m \in Nat, n <= m,
           NEW g, Column(device, leaves, last, n, g),
           NEW h, Column(device, leaves, last, m, h)
    PROVE  \A k \in 0 .. n : g[k] = h[k]
<1> DEFINE T == {j \in Nat : j <= n /\ g[j] # h[j]}
<1>1. SUFFICES ASSUME NEW k \in 0 .. n, g[k] # h[k] PROVE FALSE
    OBVIOUS
<1>2. k \in T
    BY <1>1
<1>3. PICK j \in T : \A i \in T : j <= i
    BY <1>2, LeastOf
<1>4. /\ g[j] = IF j = 0 THEN leaves ELSE Round(device, g[j - 1], last)
      /\ h[j] = IF j = 0 THEN leaves ELSE Round(device, h[j - 1], last)
    <2>1. j \in 0 .. n /\ j \in 0 .. m
        BY <1>3
    <2> QED
        BY <2>1 DEF Column
<1>5. j # 0
    BY <1>3, <1>4
<1>6. j - 1 \in Nat /\ j - 1 <= n /\ j - 1 \notin T
    BY <1>3, <1>5
<1> QED
    BY <1>3, <1>4, <1>6

LEMMA TreeDefined ==
    ASSUME NEW device, NEW leaves, NEW last
    PROVE  /\ Tree(device, leaves, last)[0] = leaves
           /\ \A k \in Nat : Tree(device, leaves, last)[k + 1]
                                = Round(device, Tree(device, leaves, last)[k], last)
<1> DEFINE C(n) == CHOOSE g : Column(device, leaves, last, n, g)
           f == [k \in Nat |-> C(k)[k]]
           IsTree(t) == t = [k \in Nat |-> IF k = 0 THEN leaves ELSE Round(device, t[k - 1], last)]
<1>1. \A n \in Nat : Column(device, leaves, last, n, C(n))
    BY ColumnExists
<1>2. ASSUME NEW k \in Nat
      PROVE  f[k] = IF k = 0 THEN leaves ELSE Round(device, f[k - 1], last)
    <2>1. C(k)[k] = IF k = 0 THEN leaves ELSE Round(device, C(k)[k - 1], last)
        <3>1. Column(device, leaves, last, k, C(k)) /\ k \in 0 .. k
            BY <1>1
        <3> HIDE DEF C
        <3> QED
            BY <3>1 DEF Column
    <2>2. ASSUME k # 0 PROVE C(k)[k - 1] = C(k - 1)[k - 1]
        <3>1. /\ k - 1 \in Nat /\ k - 1 <= k /\ k - 1 \in 0 .. k - 1
              /\ Column(device, leaves, last, k, C(k))
              /\ Column(device, leaves, last, k - 1, C(k - 1))
            BY <1>1, <2>2
        <3> HIDE DEF C
        <3> QED
            BY <3>1, ColumnsAgree
    <2>3. f[k] = C(k)[k] /\ (k # 0 => f[k - 1] = C(k - 1)[k - 1])
        OBVIOUS
    <2> HIDE DEF C, f
    <2> QED
        BY <2>1, <2>2, <2>3
<1>3. IsTree(f)
    <2>1. f = [k \in Nat |-> f[k]]
        OBVIOUS
    <2> HIDE DEF f
    <2> QED
        BY <1>2, <2>1
<1>4. Tree(device, leaves, last) = CHOOSE t : IsTree(t)
    BY DEF Tree
<1>5. IsTree(Tree(device, leaves, last))
    <2> HIDE DEF IsTree, f
    <2> QED
        BY <1>3, <1>4
<1> DEFINE t == Tree(device, leaves, last)
<1>6. ASSUME NEW k \in Nat
      PROVE  t[k] = IF k = 0 THEN leaves ELSE Round(device, t[k - 1], last)
    <2> HIDE DEF t
    <2>1. t = [j \in Nat |-> IF j = 0 THEN leaves ELSE Round(device, t[j - 1], last)]
        BY <1>5 DEF t
    <2> QED
        BY <2>1
<1>7. \A k \in Nat : k + 1 \in Nat /\ k + 1 # 0 /\ (k + 1) - 1 = k
    OBVIOUS
<1> HIDE DEF t
<1> QED
    BY <1>6, <1>7 DEF t

-----------------------------------------------------------------------------
(* The trees of either implementation. *)

\* Every number of a level belongs to a pair.
LEMMA PairOf ==
    ASSUME NEW n \in Nat, NEW k \in 1 .. n
    PROVE  \E p \in 1 .. (n + (n % 2)) \div 2 : k = 2 * p - 1 \/ k = 2 * p
<1> DEFINE p == (k + 1) \div 2
<1>1. p \in Int /\ (k = 2 * p - 1 \/ k = 2 * p)
    BY SMT
<1> HIDE DEF p
<1>2. n = 2 * (n \div 2) + (n % 2) /\ n % 2 \in {0, 1}
    BY SMT
<1>3. p >= 1 /\ 2 * p <= n + 1 /\ (n % 2 = 0 => 2 * p <= n)
    BY <1>1, <1>2, SMT
<1>4. p <= (n + (n % 2)) \div 2
    BY <1>1, <1>2, <1>3, SMT
<1>5. p \in 1 .. (n + (n % 2)) \div 2
    BY <1>1, <1>3, <1>4, SMT
<1> QED
    BY <1>1, <1>5

\* Lists that two rounds may start from.
Alike(f, g) == IsList(f) /\ IsList(g) /\ Len(f) = Len(g) /\ Len(f) \in Nat /\ Len(f) >= 1

LEMMA SameLists ==
    ASSUME NEW f, NEW g, Alike(f, g), \A k \in 1 .. Len(f) : f[k] = g[k]
    PROVE  f = g
<1>1. PICK S : f \in Seq(S)
    BY DEF Alike, IsList
<1>2. PICK R : g \in Seq(R)
    BY DEF Alike, IsList
<1>3. f = [k \in 1 .. Len(f) |-> f[k]]
    BY <1>1, LenProperties
<1>4. g = [k \in 1 .. Len(f) |-> g[k]]
    BY <1>2, LenProperties DEF Alike
<1> QED
    BY <1>3, <1>4

\* A level is told by the one above it.
LEMMA AboveBinds ==
    ASSUME NEW f, NEW g, Alike(f, g)
    PROVE  /\ Alike(LevelAbove(f), LevelAbove(g))
           /\ LevelAbove(f) = LevelAbove(g) => f = g
<1> DEFINE n == Len(f)
           half == (n + (n % 2)) \div 2
<1>1. n \in Nat /\ n >= 1 /\ IsList(f) /\ IsList(g) /\ Len(g) = n
    BY DEF Alike
<1>2. /\ \A k \in 1 .. n : Doubled(f)[k] = f[k] /\ Doubled(g)[k] = g[k]
      /\ Len(Doubled(f)) = n + (n % 2) /\ Len(Doubled(g)) = n + (n % 2)
      /\ n % 2 = 1 => Doubled(f)[n + 1] = f[n] /\ Doubled(g)[n + 1] = g[n]
    BY <1>1, DoubledList
<1>3. /\ IsList(LevelAbove(f)) /\ IsList(LevelAbove(g))
      /\ Len(LevelAbove(f)) = half /\ Len(LevelAbove(g)) = half
      /\ \A p \in 1 .. half :
            /\ LevelAbove(f)[p] = Digest(Both(Doubled(f)[2 * p - 1], Doubled(f)[2 * p]))
            /\ LevelAbove(g)[p] = Digest(Both(Doubled(g)[2 * p - 1], Doubled(g)[2 * p]))
    BY <1>1, <1>2, AboveList
<1>4. half \in Nat /\ half >= 1
    BY <1>1, SMT
<1> HIDE DEF n, half
<1>5. ASSUME LevelAbove(f) = LevelAbove(g), NEW k \in 1 .. n PROVE f[k] = g[k]
    <2>1. PICK p \in 1 .. half : k = 2 * p - 1 \/ k = 2 * p
        BY <1>1, PairOf DEF half
    <2>2. Digest(Both(Doubled(f)[2 * p - 1], Doubled(f)[2 * p]))
             = Digest(Both(Doubled(g)[2 * p - 1], Doubled(g)[2 * p]))
        BY <1>3, <1>5, <2>1
    <2>3. Doubled(f)[2 * p - 1] = Doubled(g)[2 * p - 1] /\ Doubled(f)[2 * p] = Doubled(g)[2 * p]
        BY <2>2, SMT DEF Digest, Both
    <2> QED
        BY <1>2, <2>1, <2>3
<1> QED
    BY <1>1, <1>3, <1>4, <1>5, SameLists DEF Alike, n

LEMMA CpuLevelBinds ==
    ASSUME NEW f, NEW g, Alike(f, g), NEW x, NEW y
    PROVE  /\ Alike(CpuLevel(f, x), CpuLevel(g, y))
           /\ CpuLevel(f, x) = CpuLevel(g, y) => f = g
<1> DEFINE n == Len(f)
           half == (n + (n % 2)) \div 2
           left == FilledUp(f, x)
           right == FilledUp(g, y)
<1>1. n \in Nat /\ n >= 1 /\ IsList(f) /\ IsList(g) /\ Len(g) = n
    BY DEF Alike
<1>2. /\ \A k \in 1 .. n : left[k] = f[k]
      /\ IsList(CpuLevel(f, x)) /\ Len(CpuLevel(f, x)) = half /\ half \in Nat /\ half >= 1
      /\ \A p \in 1 .. half :
            CpuLevel(f, x)[p] = Digest(Both(Digest(left[2 * p - 1]), Digest(left[2 * p])))
    BY <1>1, CpuLevelList
<1>3. /\ \A k \in 1 .. n : right[k] = g[k]
      /\ IsList(CpuLevel(g, y)) /\ Len(CpuLevel(g, y)) = half
      /\ \A p \in 1 .. half :
            CpuLevel(g, y)[p] = Digest(Both(Digest(right[2 * p - 1]), Digest(right[2 * p])))
    <2> DEFINE many == (Len(g) + (Len(g) % 2)) \div 2
    <2>1. Len(g) >= 1 /\ IsList(g) /\ Len(g) = n /\ many = half
        BY <1>1
    <2>2. /\ \A k \in 1 .. Len(g) : right[k] = g[k]
          /\ IsList(CpuLevel(g, y)) /\ Len(CpuLevel(g, y)) = many
          /\ \A p \in 1 .. many :
                CpuLevel(g, y)[p] = Digest(Both(Digest(right[2 * p - 1]), Digest(right[2 * p])))
        BY <2>1, CpuLevelList
    <2> HIDE DEF n, half, many, right
    <2> QED
        BY <2>1, <2>2
<1> HIDE DEF n, half, left, right
<1>4. ASSUME CpuLevel(f, x) = CpuLevel(g, y), NEW k \in 1 .. n PROVE f[k] = g[k]
    <2>1. PICK p \in 1 .. half : k = 2 * p - 1 \/ k = 2 * p
        BY <1>1, PairOf DEF half
    <2>2. Digest(Both(Digest(left[2 * p - 1]), Digest(left[2 * p])))
             = Digest(Both(Digest(right[2 * p - 1]), Digest(right[2 * p])))
        BY <1>2, <1>3, <1>4, <2>1
    <2>3. left[2 * p - 1] = right[2 * p - 1] /\ left[2 * p] = right[2 * p]
        BY <2>2, SMT DEF Digest, Both
    <2> QED
        BY <1>2, <1>3, <2>1, <2>3
<1> QED
    BY <1>1, <1>2, <1>3, <1>4, SameLists DEF Alike, n

\* A round leaves fewer hashes, unless one is left.
LEMMA RoundShrinks ==
    ASSUME NEW device, NEW f, IsList(f), Len(f) >= 1, NEW last
    PROVE  /\ IsList(Round(device, f, last)) /\ Len(Round(device, f, last)) \in Nat
           /\ Len(Round(device, f, last)) >= 1
           /\ Len(Round(device, f, last)) <= 1 \/ Len(Round(device, f, last)) + 1 <= Len(f)
<1>1. Len(f) \in Nat
    BY DoubledList
<1>2. CASE Len(f) <= 1
    BY <1>1, <1>2 DEF Round
<1>3. CASE Len(f) > 1
    <2> DEFINE half == (Len(f) + (Len(f) % 2)) \div 2
    <2>1. half \in Nat /\ half >= 1 /\ half + 1 <= Len(f)
        BY <1>1, <1>3, SMT
    <2>2. IsList(LevelAbove(f)) /\ Len(LevelAbove(f)) = half
        BY DoubledList, AboveList
    <2>3. IsList(CpuLevel(f, last)) /\ Len(CpuLevel(f, last)) = half
        BY CpuLevelList
    <2>4. Round(device, f, last) \in {LevelAbove(f), CpuLevel(f, last)}
        BY <1>1, <1>3 DEF Round
    <2> HIDE DEF half
    <2> QED
        BY <2>1, <2>2, <2>3, <2>4
<1> QED
    BY <1>1, <1>2, <1>3

\* There are no more rounds than leaves, and once one hash is left it stays.
LEMMA TreeShrinks ==
    ASSUME NEW device, NEW leaves, IsList(leaves), Len(leaves) >= 1, NEW last
    PROVE  LET t == Tree(device, leaves, last)
           IN  \A k \in Nat : /\ IsList(t[k]) /\ Len(t[k]) \in Nat /\ Len(t[k]) >= 1
                              /\ Len(t[k]) <= 1 \/ Len(t[k]) + k <= Len(leaves)
<1> DEFINE t == Tree(device, leaves, last)
           Fine(k) == /\ IsList(t[k]) /\ Len(t[k]) \in Nat /\ Len(t[k]) >= 1
                      /\ Len(t[k]) <= 1 \/ Len(t[k]) + k <= Len(leaves)
           Good == {k \in Nat : Fine(k)}
<1>1. t[0] = leaves /\ \A k \in Nat : t[k + 1] = Round(device, t[k], last)
    BY TreeDefined
<1> HIDE DEF t
<1>2. Len(leaves) \in Nat
    BY DoubledList
<1>3. 0 \in Good
    BY <1>1, <1>2
<1>4. ASSUME NEW k \in Nat, k \in Good PROVE k + 1 \in Good
    <2> DEFINE above == Round(device, t[k], last)
    <2>1. IsList(above) /\ Len(above) \in Nat /\ Len(above) >= 1
          /\ (Len(above) <= 1 \/ Len(above) + 1 <= Len(t[k]))
        BY <1>4, RoundShrinks
    <2>2. t[k + 1] = above
        BY <1>1
    <2> HIDE DEF above
    <2>3. Len(above) <= 1 \/ Len(above) + (k + 1) <= Len(leaves)
        BY <1>2, <1>4, <2>1
    <2> QED
        BY <2>1, <2>2, <2>3
<1> HIDE DEF Good
<1>5. \A k \in Nat : k \in Good
    BY <1>3, <1>4, Ascent
<1> QED
    BY <1>5 DEF Good, t

LEMMA TreeSettles ==
    ASSUME NEW device, NEW leaves, NEW last
    PROVE  LET t == Tree(device, leaves, last)
           IN  \A i, j \in Nat : Len(t[i]) <= 1 /\ Len(t[j]) <= 1 => t[i] = t[j]
<1> DEFINE t == Tree(device, leaves, last)
<1>1. \A k \in Nat : t[k + 1] = Round(device, t[k], last)
    BY TreeDefined
<1> HIDE DEF t
<1>2. ASSUME NEW m \in Nat, Len(t[m]) <= 1 PROVE \A n \in Nat : t[m + n] = t[m]
    <2> DEFINE Good == {n \in Nat : t[m + n] = t[m]}
    <2>1. 0 \in Good
        OBVIOUS
    <2>2. ASSUME NEW n \in Nat, n \in Good PROVE n + 1 \in Good
        <3>1. m + (n + 1) = (m + n) + 1 /\ m + n \in Nat
            OBVIOUS
        <3>2. t[(m + n) + 1] = Round(device, t[m], last)
            BY <1>1, <2>2, <3>1
        <3>3. Round(device, t[m], last) = t[m]
            BY <1>2 DEF Round
        <3> QED
            BY <3>1, <3>2, <3>3
    <2> HIDE DEF Good
    <2>3. \A n \in Nat : n \in Good
        BY <2>1, <2>2, Ascent
    <2> QED
        BY <2>3 DEF Good
<1>3. ASSUME NEW i \in Nat, NEW j \in Nat, i <= j, Len(t[i]) <= 1 PROVE t[i] = t[j]
    <2>1. j - i \in Nat /\ i + (j - i) = j
        BY <1>3
    <2> QED
        BY <1>2, <1>3, <2>1
<1>4. \A i, j \in Nat : Len(t[i]) <= 1 /\ Len(t[j]) <= 1 => t[i] = t[j]
    <2>1. \A i, j \in Nat : i <= j \/ j <= i
        OBVIOUS
    <2> QED
        BY <1>3, <2>1
<1> QED
    BY <1>4 DEF t

\* Trees over lists of one length are of one shape, and meet on no level unless they are
\* over the same list.
LEMMA TreesBind ==
    ASSUME NEW device, NEW f, NEW g, Alike(f, g), NEW x, NEW y
    PROVE  \A k \in Nat :
              /\ Alike(Tree(device, f, x)[k], Tree(device, g, y)[k])
              /\ Tree(device, f, x)[k] = Tree(device, g, y)[k] => f = g
<1> DEFINE t == Tree(device, f, x)
           u == Tree(device, g, y)
           Good == {k \in Nat : Alike(t[k], u[k]) /\ (t[k] = u[k] => f = g)}
<1>1. /\ t[0] = f /\ \A k \in Nat : t[k + 1] = Round(device, t[k], x)
      /\ u[0] = g /\ \A k \in Nat : u[k + 1] = Round(device, u[k], y)
    BY TreeDefined
<1> HIDE DEF t, u
<1>2. 0 \in Good
    BY <1>1
<1>3. ASSUME NEW k \in Nat, k \in Good PROVE k + 1 \in Good
    <2>1. Alike(t[k], u[k]) /\ (t[k] = u[k] => f = g)
        BY <1>3
    <2>2. Len(t[k]) = Len(u[k])
        BY <2>1 DEF Alike
    <2>3. /\ Alike(Round(device, t[k], x), Round(device, u[k], y))
          /\ Round(device, t[k], x) = Round(device, u[k], y) => t[k] = u[k]
        BY <2>1, <2>2, AboveBinds, CpuLevelBinds DEF Round
    <2> QED
        BY <1>1, <2>1, <2>3
<1> HIDE DEF Good
<1>4. \A k \in Nat : k \in Good
    BY <1>2, <1>3, Ascent
<1> QED
    BY <1>4 DEF Good, t, u

-----------------------------------------------------------------------------
(* merkleParentKernel and its grids. *)

\* The hashes the host copies to the device.
Hosted == Len(HostHashes(messages))

\* What the host makes of a list of messages.
LEMMA HostList ==
    ASSUME NEW n \in Nat, n >= 1, NEW texts \in [1 .. n -> Messages]
    PROVE  /\ Len(texts) = n /\ IsList(HostHashes(texts))
           /\ Len(HostHashes(texts)) = n + (n % 2) /\ n + (n % 2) \in Nat
           /\ (n + (n % 2)) % 2 = 0
           /\ \A j \in 1 .. n : HostHashes(texts)[j] = Digest(Leaf(texts[j]))
           /\ n % 2 = 1 => HostHashes(texts)[n + 1] = Digest(Leaf(texts[n]))
<1> DEFINE hashes == [j \in 1 .. n |-> Digest(Leaf(texts[j]))]
<1>1. Len(texts) = n
    BY ListOf
<1>2. IsList(hashes) /\ Len(hashes) = n /\ \A j \in 1 .. n : hashes[j] = Digest(Leaf(texts[j]))
    <2>1. hashes = [j \in 1 .. n |-> hashes[j]]
        OBVIOUS
    <2> QED
        BY <2>1, ListOf
<1>3. HostHashes(texts) = Doubled(hashes)
    BY <1>1 DEF HostHashes
<1> HIDE DEF hashes
<1>4. /\ IsList(Doubled(hashes)) /\ Len(Doubled(hashes)) = n + (n % 2)
      /\ \A j \in 1 .. n : Doubled(hashes)[j] = hashes[j]
      /\ n % 2 = 1 => Doubled(hashes)[n + 1] = hashes[n]
    BY <1>2, DoubledList
<1>5. n + (n % 2) \in Nat /\ (n + (n % 2)) % 2 = 0 /\ n \in 1 .. n
    BY SMT
<1> QED
    BY <1>1, <1>2, <1>3, <1>4, <1>5

\* The levels of the tree, by the rounds they take.
Level(k) == GpuTree(messages)[k]

\* They are lists that are never empty, and the loop ends with the root.
LEMMA LevelFacts ==
    ASSUME NEW n \in Nat, n >= 1, messages \in [1 .. n -> Messages]
    PROVE  /\ Level(0) = HostHashes(messages)
           /\ \A k \in Nat : /\ IsList(Level(k)) /\ Len(Level(k)) \in Nat /\ Len(Level(k)) >= 1
                             /\ Len(Level(k)) > 1 => Level(k + 1) = LevelAbove(Level(k))
                             /\ Len(Level(k)) <= 1 => GpuRoot(messages) = Level(k)[1]
<1> DEFINE leaves == HostHashes(messages)
<1>1. IsList(leaves) /\ Len(leaves) = n + (n % 2) /\ Len(messages) = n
    BY HostList
<1>2. Len(leaves) \in Nat /\ Len(leaves) >= 1 /\ Len(leaves) <= n + 1
    BY <1>1, SMT
<1> DEFINE t == Tree("gpu", leaves, Empty)
<1>3. \A k \in Nat : Level(k) = t[k]
    BY DEF Level, GpuTree
<1>4. Level(0) = leaves /\ \A k \in Nat : Level(k + 1) = Round("gpu", Level(k), Empty)
    <2>1. t[0] = leaves /\ \A k \in Nat : t[k + 1] = Round("gpu", t[k], Empty)
        BY TreeDefined
    <2> HIDE DEF t, leaves
    <2>2. ASSUME NEW k \in Nat PROVE Level(k + 1) = Round("gpu", Level(k), Empty)
        <3>1. k + 1 \in Nat
            OBVIOUS
        <3>2. Level(k) = t[k] /\ Level(k + 1) = t[k + 1]
            BY <1>3, <3>1
        <3> QED
            BY <2>1, <3>2
    <2> QED
        BY <1>3, <2>1, <2>2
<1> HIDE DEF leaves
<1>5. \A k \in Nat : /\ IsList(Level(k)) /\ Len(Level(k)) \in Nat /\ Len(Level(k)) >= 1
                     /\ Len(Level(k)) <= 1 \/ Len(Level(k)) + k <= Len(leaves)
    <2>1. \A k \in Nat : /\ IsList(t[k]) /\ Len(t[k]) \in Nat /\ Len(t[k]) >= 1
                         /\ Len(t[k]) <= 1 \/ Len(t[k]) + k <= Len(leaves)
        BY <1>1, <1>2, TreeShrinks
    <2> HIDE DEF t
    <2> QED
        BY <1>3, <2>1
<1>6. Len(Level(n)) <= 1
    BY <1>2, <1>5
<1>7. ASSUME NEW k \in Nat, Len(Level(k)) <= 1 PROVE GpuRoot(messages) = Level(k)[1]
    <2>1. Level(k) = Level(n)
        <3>1. \A i, j \in Nat : Len(t[i]) <= 1 /\ Len(t[j]) <= 1 => t[i] = t[j]
            BY TreeSettles
        <3> HIDE DEF t
        <3>2. Len(t[k]) <= 1 /\ Len(t[n]) <= 1
            BY <1>3, <1>6, <1>7
        <3> QED
            BY <1>3, <3>1, <3>2
    <2>2. GpuRoot(messages) = Level(n)[1]
        BY <1>1 DEF GpuRoot, Level
    <2> QED
        BY <2>1, <2>2
<1>8. ASSUME NEW k \in Nat, Len(Level(k)) > 1 PROVE Level(k + 1) = LevelAbove(Level(k))
    <2>1. ~ (Len(Level(k)) <= 1)
        BY <1>5, <1>8
    <2> QED
        BY <1>4, <2>1 DEF Round
<1> QED
    BY <1>4, <1>5, <1>7, <1>8 DEF leaves

\* The buffer has room for the copy that fills an odd level up, and only hashes on it.
Shape(k) ==
    /\ \E n \in Nat : n >= 1 /\ n <= MaxLeaves /\ messages \in [1 .. n -> Messages]
    /\ count \in 1 .. Hosted /\ Hosted \in Nat /\ Hosted % 2 = 0 /\ Hosted <= MaxLeaves + 1
    /\ DOMAIN buffer = 0 .. Hosted
    /\ \A s \in 0 .. count - 1 : buffer[s] # Empty
    /\ pc \in {"level", "grid", "returned"}
    /\ pc = "level" => count = Len(Level(k))
    /\ pc = "grid" =>
          /\ Len(Level(k)) > 1 /\ count = Len(Doubled(Level(k))) /\ count >= 2 /\ count % 2 = 0
          /\ DOMAIN warp = Warps /\ DOMAIN local = Pairs
          /\ \A w \in Warps : warp[w] \in {"read", "write", "done"}

\* What a warp has still to read is the level, what it has read are its pairs, and what
\* it has written is the level above.
Follows(k, w) ==
    /\ warp[w] = "read" => \A i \in Lanes(w) :
          /\ buffer[2 * i] = Doubled(Level(k))[2 * i + 1]
          /\ buffer[2 * i + 1] = Doubled(Level(k))[2 * i + 2]
    /\ warp[w] = "write" => \A i \in Lanes(w) :
          local[i] = Both(Doubled(Level(k))[2 * i + 1], Doubled(Level(k))[2 * i + 2])
    /\ warp[w] = "done" => \A i \in Lanes(w) : buffer[i] = LevelAbove(Level(k))[i + 1]

\* As long as nothing went wrong, the buffer holds the level, or what Follows says.
Exact(k) ==
    ~raced /\ ~lost =>
        /\ pc = "level" => \A s \in 0 .. count - 1 : buffer[s] = Level(k)[s + 1]
        /\ pc = "grid" => \A w \in Warps : Follows(k, w)
        /\ RootExact

\* After k rounds the buffer stands for level k.
AfterRounds(k) == Shape(k) /\ Exact(k)

TreeInv == \E k \in Nat : AfterRounds(k)

\* A digest is no empty root.
LEMMA DigestsAreHashes == \A x : Digest(x) # Empty
BY DEF Digest, Empty

LEMMA InitTree == Init => TreeInv
<1> SUFFICES ASSUME Init PROVE AfterRounds(0)
    BY DEF TreeInv
<1>1. PICK n \in 1 .. MaxLeaves : messages \in [1 .. n -> Messages]
    BY DEF Init
<1>2. n \in Nat /\ n >= 1 /\ n <= MaxLeaves /\ MaxLeaves \in Nat
    BY MerkleAssumption
<1>3. Level(0) = HostHashes(messages)
    BY <1>1, <1>2, LevelFacts
<1>4. /\ Hosted = n + (n % 2) /\ Hosted \in Nat /\ Hosted % 2 = 0
      /\ \A j \in 1 .. n : Level(0)[j] # Empty
      /\ n % 2 = 1 => Level(0)[n + 1] # Empty
    BY <1>1, <1>2, <1>3, HostList, DigestsAreHashes DEF Hosted
<1>5. /\ Hosted >= 1 /\ Hosted <= MaxLeaves + 1
      /\ \A j \in 1 .. Hosted : j \in 1 .. n \/ (n % 2 = 1 /\ j = n + 1)
    BY <1>2, <1>4, SMT
<1>6. \A j \in 1 .. Hosted : Level(0)[j] # Empty
    BY <1>4, <1>5
<1>7. /\ count = Hosted /\ Len(Level(0)) = Hosted /\ pc = "level"
      /\ buffer = [s \in 0 .. Hosted |-> IF s < Hosted THEN Level(0)[s + 1] ELSE Empty]
    BY <1>3 DEF Init, Hosted
<1>8. \A s \in 0 .. count - 1 : buffer[s] = Level(0)[s + 1] /\ buffer[s] # Empty
    BY <1>4, <1>5, <1>6, <1>7
<1>9. Shape(0)
    <2>1. count \in 1 .. Hosted /\ DOMAIN buffer = 0 .. Hosted
        BY <1>4, <1>5, <1>7
    <2>2. \E m \in Nat : m >= 1 /\ m <= MaxLeaves /\ messages \in [1 .. m -> Messages]
        BY <1>1, <1>2
    <2> QED
        BY <1>4, <1>5, <1>7, <1>8, <2>1, <2>2 DEF Shape
<1>10. Exact(0)
    BY <1>7, <1>8 DEF Exact, RootExact
<1> QED
    BY <1>9, <1>10 DEF AfterRounds

\* The tree stays while the messages do.
LEMMA LevelsStay ==
    ASSUME messages' = messages
    PROVE  Hosted' = Hosted /\ \A k : Level(k)' = Level(k)
BY DEF Hosted, Level, GpuTree, Tree

\* The slots of a level of even length, by the threads that read them.
LEMMA ChildSlots ==
    ASSUME NEW c \in Nat, c % 2 = 0, NEW i \in 0 .. (c \div 2) - 1
    PROVE  /\ i \in Nat /\ i + 1 \in 1 .. c \div 2 /\ i \in 0 .. c - 1
           /\ 2 * i \in 0 .. c - 1 /\ 2 * i + 1 \in 0 .. c - 1
           /\ (2 * i + 1) + 1 = 2 * i + 2
           /\ 2 * (i + 1) - 1 = 2 * i + 1 /\ 2 * (i + 1) = 2 * i + 2
<1>1. c = 2 * (c \div 2) /\ c \div 2 \in Int
    BY SMT
<1>2. i \in Int /\ 0 <= i /\ i <= (c \div 2) - 1
    BY <1>1, SMT
<1> QED
    BY <1>1, <1>2, SMT

\* A level is a list of hashes, and the next one is above it.
LEMMA LevelShape ==
    ASSUME NEW k \in Nat, Shape(k)
    PROVE  /\ IsList(Level(k)) /\ Len(Level(k)) \in Nat /\ Len(Level(k)) >= 1
           /\ Len(Level(k)) > 1 => Level(k + 1) = LevelAbove(Level(k))
           /\ Len(Level(k)) <= 1 => GpuRoot(messages) = Level(k)[1]
BY LevelFacts DEF Shape

\* The level is made even.
LEMMA LaunchTree ==
    ASSUME NEW k \in Nat, AfterRounds(k), Launch
    PROVE  AfterRounds(k)'
<1> DEFINE odd == count % 2
           even == Doubled(Level(k))
<1>1. /\ pc = "level" /\ count > 1 /\ count = Len(Level(k))
      /\ count \in Nat /\ count \in 1 .. Hosted
      /\ Hosted \in Nat /\ Hosted % 2 = 0 /\ Hosted <= MaxLeaves + 1
      /\ DOMAIN buffer = 0 .. Hosted
      /\ \A s \in 0 .. count - 1 : buffer[s] # Empty
      /\ IsList(Level(k)) /\ Len(Level(k)) >= 1
    BY LevelShape DEF Launch, AfterRounds, Shape
<1>2. /\ pc' = "grid" /\ count' = count + odd
      /\ buffer' = IF odd = 1 THEN [buffer EXCEPT ![count] = buffer[count - 1]] ELSE buffer
      /\ warp' = [w \in Warps' |-> "read"] /\ local' = [i \in Pairs' |-> Both(Empty, Empty)]
      /\ UNCHANGED <<messages, root, raced, lost>>
    BY DEF Launch
<1>3. /\ odd \in {0, 1} /\ count + odd <= Hosted /\ count + odd >= 2 /\ (count + odd) % 2 = 0
      /\ odd = 1 => count \in 0 .. Hosted
    BY <1>1, SMT
<1>4. /\ Len(even) = count + odd
      /\ \A j \in 1 .. count : even[j] = Level(k)[j]
      /\ odd = 1 => even[count + 1] = Level(k)[count]
    BY <1>1, DoubledList
<1> HIDE DEF odd, even
<1>5. /\ DOMAIN buffer' = 0 .. Hosted
      /\ \A s \in 0 .. count - 1 : buffer'[s] = buffer[s]
      /\ odd = 1 => buffer'[count] = buffer[count - 1]
    BY <1>1, <1>2, <1>3
<1>6. Hosted' = Hosted /\ Level(k)' = Level(k)
    BY <1>2, LevelsStay
<1>7. \A s \in 0 .. count' - 1 : s \in 0 .. count - 1 \/ (odd = 1 /\ s = count)
    BY <1>1, <1>2, <1>3, SMT
<1>8. \A s \in 0 .. count' - 1 : buffer'[s] # Empty
    <2>1. count - 1 \in 0 .. count - 1
        BY <1>1, SMT
    <2>2. ASSUME NEW s \in 0 .. count - 1 PROVE buffer'[s] # Empty
        BY <1>1, <1>5
    <2>3. odd = 1 => buffer'[count] # Empty
        BY <1>1, <1>5, <2>1
    <2> QED
        BY <1>7, <2>2, <2>3
<1>9. Shape(k)'
    <2>1. count' \in 1 .. Hosted' /\ count' >= 2 /\ count' % 2 = 0
        BY <1>1, <1>2, <1>3, <1>6, SMT
    <2>2. Len(Level(k)') > 1 /\ count' = Len(Doubled(Level(k)'))
        BY <1>1, <1>2, <1>4, <1>6 DEF even
    <2>4. \E n \in Nat : n >= 1 /\ n <= MaxLeaves /\ messages' \in [1 .. n -> Messages]
        BY <1>2 DEF AfterRounds, Shape
    <2>3. DOMAIN warp' = Warps' /\ DOMAIN local' = Pairs' /\ \A w \in Warps' : warp'[w] = "read"
        BY <1>2
    <2> QED
        BY <1>1, <1>2, <1>5, <1>6, <1>8, <2>1, <2>2, <2>3, <2>4 DEF Shape
<1>10. Exact(k)'
    <2> SUFFICES ASSUME ~raced', ~lost' PROVE \A w \in Warps' : Follows(k, w)'
        BY <1>2 DEF Exact, RootExact
    <2>1. \A s \in 0 .. count - 1 : buffer[s] = Level(k)[s + 1]
        BY <1>1, <1>2 DEF AfterRounds, Exact
    <2>2. \A s \in 0 .. count' - 1 : buffer'[s] = even[s + 1]
        <3>1. ASSUME NEW s \in 0 .. count - 1 PROVE buffer'[s] = even[s + 1]
            BY <1>1, <1>4, <1>5, <2>1
        <3>2. ASSUME odd = 1 PROVE buffer'[count] = even[count + 1]
            BY <1>1, <1>4, <1>5, <2>1, <3>2
        <3> QED
            BY <1>7, <3>1, <3>2
    <2>3. \A w : \A i \in Lanes(w)' : 2 * i \in 0 .. count' - 1 /\ 2 * i + 1 \in 0 .. count' - 1
                                     /\ (2 * i + 1) + 1 = 2 * i + 2
        <3>1. count' \in Nat /\ count' % 2 = 0
            BY <1>1, <1>2, <1>3, SMT
        <3> QED
            BY <3>1, ChildSlots DEF Lanes, Pairs
    <2>4. \A w \in Warps' : warp'[w] = "read"
        BY <1>2
    <2>5. \A w : \A i \in Lanes(w)' : /\ buffer'[2 * i] = even[2 * i + 1]
                                      /\ buffer'[2 * i + 1] = even[2 * i + 2]
        BY <2>2, <2>3
    <2>6. even = Doubled(Level(k)')
        BY <1>6 DEF even
    <2> QED
        BY <2>4, <2>5, <2>6 DEF Follows
<1> QED
    BY <1>9, <1>10 DEF AfterRounds

\* What a grid works on.
LEMMA GridFacts ==
    ASSUME NEW k \in Nat, Shape(k), pc = "grid"
    PROVE  /\ count \in Nat /\ count % 2 = 0 /\ count >= 2 /\ count = Len(Doubled(Level(k)))
           /\ \A i \in Pairs : /\ i \in Nat /\ i \in 0 .. count - 1
                               /\ 2 * i \in 0 .. count - 1 /\ 2 * i + 1 \in 0 .. count - 1
                               /\ LevelAbove(Level(k))[i + 1] = Digest(Both(
                                     Doubled(Level(k))[2 * i + 1], Doubled(Level(k))[2 * i + 2]))
           /\ \A s \in 0 .. count - 1 : s \in 0 .. Hosted
<1>1. /\ count \in Nat /\ count % 2 = 0 /\ count >= 2 /\ count = Len(Doubled(Level(k)))
      /\ count <= Hosted /\ Hosted \in Nat
    BY DEF Shape
<1>2. \A s \in 0 .. count - 1 : s \in 0 .. Hosted
    BY <1>1, SMT
<1>3. ASSUME NEW i \in Pairs
      PROVE  /\ i \in Nat /\ i \in 0 .. count - 1
             /\ 2 * i \in 0 .. count - 1 /\ 2 * i + 1 \in 0 .. count - 1
             /\ LevelAbove(Level(k))[i + 1] =
                   Digest(Both(Doubled(Level(k))[2 * i + 1], Doubled(Level(k))[2 * i + 2]))
    <2>1. i \in 0 .. (count \div 2) - 1
        BY DEF Pairs
    <2>2. /\ i \in Nat /\ i + 1 \in 1 .. count \div 2 /\ i \in 0 .. count - 1
          /\ 2 * i \in 0 .. count - 1 /\ 2 * i + 1 \in 0 .. count - 1
          /\ 2 * (i + 1) - 1 = 2 * i + 1 /\ 2 * (i + 1) = 2 * i + 2
        BY <1>1, <2>1, ChildSlots
    <2>3. LevelAbove(Level(k))[i + 1] =
             Digest(Both(Doubled(Level(k))[2 * (i + 1) - 1], Doubled(Level(k))[2 * (i + 1)]))
        BY <1>1, <2>2, LevelShape, AboveList DEF Shape
    <2> QED
        BY <2>2, <2>3
<1> QED
    BY <1>1, <1>2, <1>3

\* A warp reads its pairs: the level, unless another warp has been there.
LEMMA ReadTree ==
    ASSUME NEW k \in Nat, AfterRounds(k), NEW w \in Warps, Read(w)
    PROVE  AfterRounds(k)'
<1>1. /\ pc = "grid" /\ warp[w] = "read"
      /\ local' = [i \in Pairs |->
             IF i \in Lanes(w) THEN Both(buffer[2 * i], buffer[2 * i + 1]) ELSE local[i]]
      /\ warp' = [warp EXCEPT ![w] = "write"]
      /\ UNCHANGED <<messages, buffer, count, pc, root, raced, lost>>
    BY DEF Read
<1>2. /\ Hosted' = Hosted /\ Level(k)' = Level(k) /\ Pairs' = Pairs /\ Warps' = Warps
      /\ \A v : Lanes(v)' = Lanes(v)
    BY <1>1, LevelsStay DEF Pairs, Warps, Lanes, WarpOf
<1>3. DOMAIN warp = Warps /\ \A v \in Warps : warp[v] \in {"read", "write", "done"}
    BY <1>1 DEF AfterRounds, Shape
<1>4. /\ DOMAIN warp' = Warps /\ warp'[w] = "write"
      /\ \A v \in Warps \ {w} : warp'[v] = warp[v]
    BY <1>1, <1>3
<1>5. Shape(k)'
    <2>1. DOMAIN local' = Pairs
        BY <1>1
    <2> QED
        BY <1>1, <1>2, <1>3, <1>4, <2>1 DEF AfterRounds, Shape
<1>6. Exact(k)'
    <2> SUFFICES ASSUME ~raced', ~lost', NEW v \in Warps PROVE Follows(k, v)'
        BY <1>1, <1>2 DEF Exact, RootExact
    <2>1. Follows(k, v) /\ Follows(k, w)
        BY <1>1 DEF AfterRounds, Exact
    <2>2. CASE v = w
        <3>1. ASSUME NEW i \in Lanes(w)
              PROVE  local'[i] = Both(Doubled(Level(k))[2 * i + 1], Doubled(Level(k))[2 * i + 2])
            <4>1. i \in Pairs
                BY DEF Lanes
            <4>2. local'[i] = Both(buffer[2 * i], buffer[2 * i + 1])
                BY <1>1, <4>1
            <4> QED
                BY <1>1, <2>1, <4>2 DEF Follows
        <3> QED
            BY <1>1, <1>2, <1>4, <2>2, <3>1 DEF Follows
    <2>3. CASE v # w
        <3>1. \A i \in Lanes(v) : local'[i] = local[i]
            BY <1>1, <2>3 DEF Lanes
        <3> QED
            BY <1>1, <1>2, <1>4, <2>1, <2>3, <3>1 DEF Follows
    <2> QED
        BY <2>2, <2>3
<1> QED
    BY <1>5, <1>6 DEF AfterRounds

\* A warp writes its hashes, into slots that no other has still to read.
LEMMA WriteTree ==
    ASSUME NEW k \in Nat, AfterRounds(k), NEW w \in Warps, Write(w)
    PROVE  AfterRounds(k)'
<1>1. /\ pc = "grid" /\ warp[w] = "write"
      /\ buffer' = [s \in DOMAIN buffer |->
             IF s \in Lanes(w) THEN Digest(local[s]) ELSE buffer[s]]
      /\ warp' = [warp EXCEPT ![w] = "done"]
      /\ raced' = (raced \/ \E v \in Warps \ {w} :
                               warp[v] = "read" /\ Children(v) \cap Lanes(w) # {})
      /\ UNCHANGED <<messages, count, pc, local, root, lost>>
    BY DEF Write
<1>2. /\ Hosted' = Hosted /\ Level(k)' = Level(k) /\ Pairs' = Pairs /\ Warps' = Warps
      /\ \A v : Lanes(v)' = Lanes(v)
    BY <1>1, LevelsStay DEF Pairs, Warps, Lanes, WarpOf
<1>3. DOMAIN warp = Warps /\ \A v \in Warps : warp[v] \in {"read", "write", "done"}
    BY <1>1 DEF AfterRounds, Shape
<1>4. /\ DOMAIN warp' = Warps /\ warp'[w] = "done"
      /\ \A v \in Warps \ {w} : warp'[v] = warp[v]
    BY <1>1, <1>3
<1>5. /\ DOMAIN buffer = 0 .. Hosted
      /\ \A s \in 0 .. count - 1 : buffer[s] # Empty /\ s \in 0 .. Hosted
      /\ \A i \in Pairs : i \in 0 .. count - 1
    BY <1>1, GridFacts DEF AfterRounds, Shape
<1>6. /\ DOMAIN buffer' = 0 .. Hosted
      /\ \A s \in 0 .. Hosted : buffer'[s] = IF s \in Lanes(w) THEN Digest(local[s]) ELSE buffer[s]
    BY <1>1, <1>5
<1>7. Shape(k)'
    <2>1. \A s \in 0 .. count - 1 : buffer'[s] # Empty
        BY <1>5, <1>6, DigestsAreHashes
    <2> QED
        BY <1>1, <1>2, <1>3, <1>4, <1>6, <2>1 DEF AfterRounds, Shape
<1>8. Exact(k)'
    <2> SUFFICES ASSUME ~raced', ~lost', NEW v \in Warps PROVE Follows(k, v)'
        BY <1>1, <1>2 DEF Exact, RootExact
    <2>1. Follows(k, v) /\ Follows(k, w)
        BY <1>1 DEF AfterRounds, Exact
    <2>2. CASE v = w
        <3>1. ASSUME NEW i \in Lanes(w) PROVE buffer'[i] = LevelAbove(Level(k))[i + 1]
            <4>1. i \in Pairs
                BY DEF Lanes
            <4>2. buffer'[i] = Digest(local[i])
                BY <1>5, <1>6, <4>1
            <4>3. local[i] = Both(Doubled(Level(k))[2 * i + 1], Doubled(Level(k))[2 * i + 2])
                BY <1>1, <2>1 DEF Follows
            <4> QED
                BY <1>1, <4>1, <4>2, <4>3, GridFacts DEF AfterRounds
        <3> QED
            BY <1>1, <1>2, <1>4, <2>2, <3>1 DEF Follows
    <2>3. CASE v # w
        <3>1. warp'[v] = warp[v]
            BY <1>4, <2>3
        <3>2. CASE warp[v] = "read"
            <4>1. Children(v) \cap Lanes(w) = {}
                BY <1>1, <2>3, <3>2
            <4>2. ASSUME NEW i \in Lanes(v)
                  PROVE  buffer'[2 * i] = buffer[2 * i] /\ buffer'[2 * i + 1] = buffer[2 * i + 1]
                <5>1. i \in Pairs /\ 2 * i \in Children(v) /\ 2 * i + 1 \in Children(v)
                    BY DEF Lanes, Children
                <5>2. 2 * i \in 0 .. Hosted /\ 2 * i + 1 \in 0 .. Hosted
                    BY <1>1, <5>1, GridFacts DEF AfterRounds
                <5> QED
                    BY <1>6, <4>1, <5>1, <5>2
            <4> QED
                BY <1>1, <1>2, <2>1, <3>1, <3>2, <4>2 DEF Follows
        <3>3. CASE warp[v] = "write"
            BY <1>1, <1>2, <2>1, <3>1, <3>3 DEF Follows
        <3>4. CASE warp[v] = "done"
            <4>1. ASSUME NEW i \in Lanes(v) PROVE buffer'[i] = buffer[i]
                <5>1. i \in Pairs /\ i \notin Lanes(w)
                    BY <2>3 DEF Lanes
                <5> QED
                    BY <1>5, <1>6, <5>1
            <4> QED
                BY <1>1, <1>2, <2>1, <3>1, <3>4, <4>1 DEF Follows
        <3> QED
            BY <1>3, <3>2, <3>3, <3>4
    <2> QED
        BY <2>2, <2>3
<1> QED
    BY <1>7, <1>8 DEF AfterRounds

\* A level is done, by its grid or without it.
LEMMA NextLevel ==
    ASSUME NEW k \in Nat, AfterRounds(k), Join \/ LoseGrid
    PROVE  AfterRounds(k + 1)'
<1> DEFINE half == count \div 2
<1>1. /\ pc = "grid" /\ count' = half /\ pc' = "level"
      /\ UNCHANGED <<messages, buffer, root, raced>>
    BY DEF Join, LoseGrid
<1>2. /\ count \in Nat /\ count % 2 = 0 /\ count >= 2 /\ count = Len(Doubled(Level(k)))
      /\ Len(Level(k)) > 1
    BY <1>1, GridFacts DEF AfterRounds, Shape
<1>3. half \in Nat /\ half >= 1 /\ half <= count
    BY <1>2, SMT
<1>4. Level(k + 1) = LevelAbove(Level(k)) /\ Len(Level(k + 1)) = half
    BY <1>1, <1>2, LevelShape, AboveList DEF AfterRounds
<1> HIDE DEF half
<1>5. Hosted' = Hosted /\ Level(k + 1)' = Level(k + 1)
    BY <1>1, LevelsStay
<1>6. Shape(k + 1)'
    <2>1. /\ count \in 1 .. Hosted /\ Hosted \in Nat /\ Hosted % 2 = 0 /\ Hosted <= MaxLeaves + 1
          /\ DOMAIN buffer = 0 .. Hosted
          /\ \A s \in 0 .. count - 1 : buffer[s] # Empty
          /\ \E n \in Nat : n >= 1 /\ n <= MaxLeaves /\ messages \in [1 .. n -> Messages]
        BY DEF AfterRounds, Shape
    <2>2. half \in 1 .. Hosted /\ \A s \in 0 .. half - 1 : s \in 0 .. count - 1
        BY <1>2, <1>3, <2>1, SMT
    <2> QED
        BY <1>1, <1>3, <1>4, <1>5, <2>1, <2>2 DEF Shape
<1>7. Exact(k + 1)'
    <2> SUFFICES ASSUME ~raced', ~lost'
                 PROVE  \A s \in 0 .. half - 1 : buffer[s] = Level(k + 1)[s + 1]
        BY <1>1, <1>5 DEF Exact, RootExact
    <2>1. ~raced /\ ~lost /\ \A w \in Warps : warp[w] = "done"
        BY <1>1 DEF Join, LoseGrid
    <2>2. \A w \in Warps : Follows(k, w)
        BY <1>1, <2>1 DEF AfterRounds, Exact
    <2>3. ASSUME NEW s \in 0 .. half - 1 PROVE buffer[s] = Level(k + 1)[s + 1]
        <3>1. s \in Pairs /\ WarpOf(s) \in Warps /\ s \in Lanes(WarpOf(s))
            BY DEF half, Pairs, Warps, Lanes
        <3> QED
            BY <1>4, <2>1, <2>2, <3>1 DEF Follows
    <2> QED
        BY <2>3
<1> QED
    BY <1>6, <1>7 DEF AfterRounds

\* The host takes what is left, or gives up.
LEMMA EndTree ==
    ASSUME NEW k \in Nat, AfterRounds(k), Return \/ Fail
    PROVE  AfterRounds(k)'
<1>1. /\ pc = "level" /\ pc' = "returned"
      /\ UNCHANGED <<messages, buffer, count, warp, local, raced, lost>>
      /\ (count <= 1 /\ root' = buffer[0]) \/ (CudaErrors /\ root' = Empty)
    BY DEF Return, Fail
<1>2. Hosted' = Hosted /\ Level(k)' = Level(k)
    BY <1>1, LevelsStay
<1>3. Shape(k)'
    BY <1>1, <1>2 DEF AfterRounds, Shape
<1>4. Exact(k)'
    <2> SUFFICES ASSUME ~raced, ~lost
                 PROVE  root' = GpuRoot(messages) \/ (CudaErrors /\ root' = Empty)
        BY <1>1 DEF Exact, RootExact
    <2>1. CASE count <= 1 /\ root' = buffer[0]
        <3>1. count \in 1 .. Hosted /\ Hosted \in Nat /\ count = Len(Level(k))
            BY <1>1 DEF AfterRounds, Shape
        <3>2. count = 1 /\ 0 \in 0 .. count - 1
            BY <2>1, <3>1, SMT
        <3>3. buffer[0] = Level(k)[0 + 1]
            BY <1>1, <3>2 DEF AfterRounds, Exact
        <3>4. GpuRoot(messages) = Level(k)[1]
            BY <3>1, <3>2, LevelShape DEF AfterRounds
        <3> QED
            BY <2>1, <3>3, <3>4
    <2> QED
        BY <1>1, <2>1
<1> QED
    BY <1>3, <1>4 DEF AfterRounds

\* Some number of rounds is always done.
LEMMA TreeInvariance == Spec => []TreeInv
<1>1. TreeInv /\ [Next]_vars => TreeInv'
    <2> SUFFICES ASSUME NEW k \in Nat, AfterRounds(k), [Next]_vars
                 PROVE  AfterRounds(k)' \/ AfterRounds(k + 1)'
        BY DEF TreeInv
    <2>1. CASE UNCHANGED vars
        <3>1. UNCHANGED <<messages, buffer, count, pc, warp, local, root, raced, lost>>
            BY <2>1 DEF vars
        <3>2. Hosted' = Hosted /\ Level(k)' = Level(k)
            BY <3>1, LevelsStay
        <3> QED
            BY <3>1, <3>2 DEF AfterRounds, Shape, Exact, RootExact, Follows, Pairs, Warps,
                              Lanes, WarpOf
    <2>2. CASE Next
        BY <2>2, LaunchTree, ReadTree, WriteTree, NextLevel, EndTree DEF Next
    <2> QED
        BY <2>1, <2>2
<1> QED
    BY <1>1, InitTree, PTL DEF Spec

\* The buffer and the number of pairs count the copy that fills an odd level up.
THEOREM LevelsFit == Spec => []TypeOK
<1>1. TreeInv => TypeOK
    <2> SUFFICES ASSUME NEW k \in Nat, Shape(k) PROVE TypeOK
        BY DEF TreeInv, AfterRounds
    <2>1. count \in 1 .. MaxLeaves + 1
        BY MerkleAssumption, SMT DEF Shape
    <2> QED
        BY <2>1 DEF Shape, TypeOK, Hosted
<1> QED
    BY <1>1, TreeInvariance, PTL

\* Without a race of two warps and without a grid that is lost, a list of any length
\* is reduced to the root of its tree, in place and by warps of any size.
THEOREM RootsAreExact == Spec => []OnlyRacesHurt
<1>1. TreeInv => OnlyRacesHurt
    BY DEF TreeInv, AfterRounds, Exact, OnlyRacesHurt
<1> QED
    BY <1>1, TreeInvariance, PTL

\* After as many rounds as there are messages one hash is left.
LEMMA OneLeft ==
    ASSUME NEW x \in Nat, NEW n \in Nat, NEW m \in Nat, x >= 1, m <= n + 1, x <= 1 \/ x + n <= m
    PROVE  x = 1
OBVIOUS

\* The roots of either implementation bind the messages, however many there are.
LEMMA GpuRootBinds ==
    ASSUME NEW n \in Nat, n >= 1, NEW one \in [1 .. n -> Messages],
           NEW other \in [1 .. n -> Messages], GpuRoot(one) = GpuRoot(other)
    PROVE  one = other
<1> DEFINE f == HostHashes(one)
           g == HostHashes(other)
           t == Tree("gpu", f, Empty)
           u == Tree("gpu", g, Empty)
<1>1. /\ Len(one) = n /\ Len(other) = n /\ n \in 1 .. n
      /\ IsList(f) /\ IsList(g) /\ Len(f) = n + (n % 2) /\ Len(g) = n + (n % 2)
      /\ \A j \in 1 .. n : f[j] = Digest(Leaf(one[j])) /\ g[j] = Digest(Leaf(other[j]))
    BY HostList
<1>2. n + (n % 2) \in Nat /\ n + (n % 2) >= 1 /\ n + (n % 2) <= n + 1
    BY SMT
<1>3. t[n][1] = u[n][1]
    BY <1>1 DEF GpuRoot, GpuTree
<1> HIDE DEF f, g
<1>4. Alike(f, g)
    BY <1>1, <1>2 DEF Alike
<1>5. Alike(t[n], u[n]) /\ (t[n] = u[n] => f = g)
    BY <1>4, TreesBind
<1>6. Len(t[n]) = 1
    <2>1. Len(t[n]) \in Nat /\ Len(t[n]) >= 1 /\ (Len(t[n]) <= 1 \/ Len(t[n]) + n <= Len(f))
        BY <1>1, <1>2, TreeShrinks
    <2>2. Len(f) \in Nat /\ Len(f) <= n + 1
        BY <1>1, <1>2
    <2> HIDE DEF t
    <2> QED
        BY <2>1, <2>2, OneLeft
<1> HIDE DEF t, u
<1>7. t[n] = u[n]
    BY <1>3, <1>5, <1>6, SameLists
<1>8. \A j \in 1 .. n : one[j] = other[j]
    BY <1>1, <1>5, <1>7 DEF Digest, Leaf
<1> QED
    BY <1>8

LEMMA CpuRootBinds ==
    ASSUME NEW n \in Nat, n >= 1, NEW one \in [1 .. n -> Messages],
           NEW other \in [1 .. n -> Messages], CpuRoot(one) = CpuRoot(other)
    PROVE  one = other
<1> DEFINE f == [j \in 1 .. n |-> Leaf(one[j])]
           g == [j \in 1 .. n |-> Leaf(other[j])]
           t == Tree("cpu", f, f[n])
           u == Tree("cpu", g, g[n])
<1>1. Len(one) = n /\ Len(other) = n /\ n \in 1 .. n
    BY ListOf
<1>2. IsList(f) /\ IsList(g) /\ Len(f) = n /\ Len(g) = n
    <2>1. f = [j \in 1 .. n |-> f[j]] /\ g = [j \in 1 .. n |-> g[j]]
        OBVIOUS
    <2> HIDE DEF f, g
    <2> QED
        BY <2>1, ListOf
<1>3. \A j \in 1 .. n : f[j] = Leaf(one[j]) /\ g[j] = Leaf(other[j])
    OBVIOUS
<1>4. one # <<>> /\ other # <<>>
    BY <1>1, DOMAIN one = 1 .. n, DOMAIN other = 1 .. n
<1>5. CpuRoot(one) = (IF n = 1 THEN Digest(f[1]) ELSE t[n][1])
    BY <1>1, <1>2, <1>4 DEF CpuRoot
<1>6. CpuRoot(other) = (IF n = 1 THEN Digest(g[1]) ELSE u[n][1])
    BY <1>1, <1>2, <1>4 DEF CpuRoot
<1> HIDE DEF f, g
<1>7. f = g
    <2>1. Alike(f, g)
        BY <1>2 DEF Alike
    <2>2. CASE n = 1
        <3>1. f[1] = g[1]
            <4>1. Digest(f[1]) = Digest(g[1])
                BY <1>5, <1>6, <2>2
            <4> QED
                BY <4>1 DEF Digest
        <3>2. \A j \in 1 .. n : f[j] = g[j]
            BY <2>2, <3>1
        <3> QED
            BY <1>2, <2>1, <3>2, SameLists
    <2>3. CASE n # 1
        <3>1. Alike(t[n], u[n]) /\ (t[n] = u[n] => f = g)
            BY <2>1, TreesBind
        <3>2. Len(t[n]) = 1
            <4>1. Len(t[n]) \in Nat /\ Len(t[n]) >= 1 /\ (Len(t[n]) <= 1 \/ Len(t[n]) + n <= Len(f))
                BY <1>2, TreeShrinks
            <4>2. Len(f) \in Nat /\ Len(f) <= n + 1
                BY <1>2
            <4> HIDE DEF t
            <4> QED
                BY <4>1, <4>2, OneLeft
        <3>3. t[n][1] = u[n][1]
            BY <1>5, <1>6, <2>3
        <3> HIDE DEF t, u
        <3> QED
            BY <3>1, <3>2, <3>3, SameLists
    <2> QED
        BY <2>2, <2>3
<1>8. \A j \in 1 .. n : one[j] = other[j]
    BY <1>3, <1>7 DEF Leaf
<1> QED
    BY <1>8

\* No two lists of one length, however long, have the same root on either device: the
\* header of a block binds its messages.
THEOREM HeadersBind == Spec => []RootsBind
<1>1. TreeInv => RootsBind
    <2> SUFFICES ASSUME NEW k \in Nat, Shape(k) PROVE RootsBind
        BY DEF TreeInv, AfterRounds
    <2>1. PICK n \in Nat : n >= 1 /\ messages \in [1 .. n -> Messages]
        BY DEF Shape
    <2>2. Len(messages) = n
        BY <2>1, HostList
    <2> QED
        BY <2>1, <2>2, GpuRootBinds, CpuRootBinds DEF RootsBind
<1> QED
    BY <1>1, TreeInvariance, PTL

-----------------------------------------------------------------------------
(* The verdict of verifyChainKernel. *)

\* What a thread knows of its pair, and the flag of all of them.
Knows ==
    /\ \A t \in Threads(size) :
          /\ place[t] = "test" => t \in PairsOf(size)
          /\ place[t] = "fail" => t \in PairsOf(size) /\ ~valid[t]
          /\ place[t] = "done" /\ t \in PairsOf(size) => valid[t] \/ result = 0
    /\ result = 0 => \E p \in PairsOf(size) : ~valid[p]

VerdictInv == VerifyTypeOK /\ Knows

\* The grid has a thread for every pair.
LEMMA GridCovers ==
    ASSUME NEW n \in Nat, n >= 2
    PROVE  PairsOf(n) \subseteq Threads(n)
<1> DEFINE q == (n + ThreadsPerBlock - 1) \div ThreadsPerBlock
<1>1. ThreadsPerBlock \in Nat \ {0}
    BY VerifyAssumption
<1>2. q \in Int /\ n + ThreadsPerBlock - 1 < ThreadsPerBlock * q + ThreadsPerBlock
    BY <1>1, SMT
<1>3. n <= ThreadsPerBlock * q
    BY <1>1, <1>2, SMT
<1>4. ThreadsPerBlock * q = q * ThreadsPerBlock
    BY <1>1, <1>2, SMT
<1>5. \A p \in Int : 0 <= p /\ p <= n - 2 => p <= q * ThreadsPerBlock - 1
    BY <1>1, <1>2, <1>3, <1>4, SMT
<1> QED
    BY <1>2, <1>5 DEF PairsOf, Threads, Blocks

LEMMA InitVerdict == VerifyInit => VerdictInv
<1> SUFFICES ASSUME VerifyInit PROVE VerdictInv
    OBVIOUS
<1>1. size \in Nat /\ size >= 2
    BY VerifyAssumption DEF VerifyInit
<1> QED
    BY <1>1 DEF VerifyInit, VerdictInv, VerifyTypeOK, Knows

\* A thread keeps what it and the others know of the pairs.
LEMMA NextVerdict ==
    ASSUME VerdictInv, [VerifyNext]_verifyVars
    PROVE  VerdictInv'
<1> USE DEF VerdictInv
<1>1. CASE UNCHANGED verifyVars
    BY <1>1 DEF verifyVars, VerifyTypeOK, Knows
<1>2. ASSUME NEW t \in Threads(size), Thread(t) PROVE VerdictInv'
    <2>1. t \in Int
        <3>1. \A a \in Int : 0 .. a \subseteq Int
            OBVIOUS
        <3>2. Blocks(size) * ThreadsPerBlock - 1 \in Int
            BY VerifyAssumption, SMT DEF Blocks, VerifyTypeOK
        <3> QED
            BY <3>1, <3>2 DEF Threads
    <2>2. t >= 0
        BY <2>1 DEF Threads
    <2>3. CASE Leave(t)
        BY <2>1, <2>3 DEF Leave, Goto, VerifyTypeOK, Knows, PairsOf
    <2>4. CASE Enter(t)
        BY <2>1, <2>2, <2>4 DEF Enter, Goto, VerifyTypeOK, Knows,
                                PairsOf
    <2>5. CASE Test(t)
        BY <2>5 DEF Test, Goto, VerifyTypeOK, Knows
    <2>6. CASE Clear(t)
        BY <2>6 DEF Clear, Goto, VerifyTypeOK, Knows
    <2> QED
        BY <1>2, <2>3, <2>4, <2>5, <2>6 DEF Thread
<1> QED
    BY <1>1, <1>2 DEF VerifyNext

LEMMA VerdictInvariant == VerifySpec => []VerdictInv
    BY InitVerdict, NextVerdict, PTL DEF VerifySpec

\* Each thread is in its place and the flag is zero or one, for a chain of any
\* length, the last block of threads reaching past its end included.
THEOREM GridFits == VerifySpec => []VerifyTypeOK
<1>1. VerdictInv => VerifyTypeOK
    BY DEF VerdictInv
<1> QED
    BY <1>1, VerdictInvariant, PTL

\* What runVerifyKernel reads back is the conjunction over all pairs.
THEOREM VerdictCorrect == VerifySpec => []VerdictExact
<1>1. VerdictInv => VerdictExact
    BY GridCovers DEF VerdictInv, VerifyTypeOK, Knows, VerdictExact, Ended
<1> QED
    BY <1>1, VerdictInvariant, PTL

\* The flag goes down once, and never without a reason.
THEOREM AlarmsAreTrue == VerifySpec => NoFalseAlarm
<1>1. VerdictInv /\ [VerifyNext]_verifyVars =>
          [result' # result =>
              result' = 0 /\ \E p \in PairsOf(size) : ~valid[p]]_verifyVars
    BY DEF VerdictInv, VerifyTypeOK, Knows, VerifyNext, Thread, Leave, Enter,
           Test, Clear, verifyVars
<1> QED
    BY <1>1, VerdictInvariant, PTL DEF VerifySpec, NoFalseAlarm

=============================================================================
