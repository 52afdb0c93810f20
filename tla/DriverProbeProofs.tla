-------------------------- MODULE DriverProbeProofs --------------------------
(***************************************************************************)
(* Proofs about DriverProbe, for any device tree, sizes, client types and  *)
(* callers: what the probe lays out, what a registered client has, and     *)
(* that the regions of the shared memory do not overlap.                   *)
(***************************************************************************)
EXTENDS DriverProbe, FiniteSetTheorems, WellFoundedInduction, TLAPS

-----------------------------------------------------------------------------
(* Integers *)

\* Quotient and remainder, as one fact about rigid names.
LEMMA DivMod ==
  ASSUME NEW a \in Int, NEW b \in Nat \ {0}, NEW q, NEW r, q = a \div b, r = a % b
  PROVE  /\ q \in Int /\ r \in 0..b - 1 /\ a = b * q + r
         /\ a \in Nat => q \in Nat
<1>1. q \in Int /\ r \in 0..b - 1
  OBVIOUS
<1>2. a = b * q + r
  BY <1>1
<1>3. a \in Nat => q \in Nat
  OBVIOUS
<1> QED BY <1>1, <1>2, <1>3

\* A number has one quotient and one remainder.
LEMMA Unique ==
  ASSUME NEW q \in Nat, NEW r \in Nat, NEW k \in Nat, NEW l \in Nat, NEW b \in Nat \ {0},
         k < b, l < b, b * q + k = b * r + l
  PROVE  q = r /\ k = l
<1>1. ~(q < r)
  <2> SUFFICES ASSUME q < r PROVE FALSE
    OBVIOUS
  <2>1. PICK d \in Nat : r = q + 1 + d
    <3>1. r - q - 1 \in Nat
      OBVIOUS
    <3> QED BY <3>1
  <2>2. b * r = b * q + b + b * d
    BY <2>1
  <2>3. b * d \in Nat
    BY <2>1
  <2>4. b * q \in Nat
    OBVIOUS
  <2> QED BY <2>2, <2>3, <2>4
<1>2. ~(r < q)
  <2> SUFFICES ASSUME r < q PROVE FALSE
    OBVIOUS
  <2>1. PICK d \in Nat : q = r + 1 + d
    <3>1. q - r - 1 \in Nat
      OBVIOUS
    <3> QED BY <3>1
  <2>2. b * q = b * r + b + b * d
    BY <2>1
  <2>3. b * d \in Nat
    BY <2>1
  <2>4. b * r \in Nat
    OBVIOUS
  <2> QED BY <2>2, <2>3, <2>4
<1>3. q = r
  BY <1>1, <1>2
<1> QED BY <1>3

\* They are found from a product and a rest that is smaller than the divisor.
LEMMA DivUnique == ASSUME NEW q \in Nat, NEW k \in Nat, NEW b \in Nat \ {0}, k < b
  PROVE (b * q + k) \div b = q /\ (b * q + k) % b = k
<1>0. b * q + k \in Nat
  OBVIOUS
<1>1. PICK a \in Nat : a = b * q + k
  BY <1>0
<1>2. PICK u, v : u = a \div b /\ v = a % b
  OBVIOUS
<1>3. u \in Int /\ v \in 0..b - 1 /\ a = b * u + v
  BY <1>2, DivMod
<1>4. u \in Nat
  BY <1>2, DivMod
<1>5. q = u /\ k = v
  <2>1. v \in Nat /\ v < b
    BY <1>3
  <2> QED BY <1>1, <1>3, <1>4, <2>1, Unique
<1> QED BY <1>1, <1>2, <1>5

\* A number below the width of an integer is not truncated.
LEMMA Small == ASSUME NEW a \in Nat, NEW b \in Nat \ {0}, a < b PROVE a % b = a /\ a \div b = 0
  OBVIOUS

\* A bound by a quotient, as valid_dt_prop checks it, bounds the product.
LEMMA Below == ASSUME NEW a \in Nat, NEW b \in Int, NEW c \in Nat \ {0}, a < b \div c PROVE c * a + c <= b
<1>1. PICK q, r : q = b \div c /\ r = b % c
  OBVIOUS
<1>2. q \in Int /\ r \in 0..c - 1 /\ b = c * q + r
  BY <1>1, DivMod
<1>3. PICK d \in Nat : q = a + 1 + d
  <2>1. q - a - 1 \in Nat
    BY <1>1, <1>2
  <2> QED BY <2>1, <1>2
<1>4. c * q = c * a + c + c * d
  BY <1>3
<1>5. c * d \in Nat
  BY <1>3
<1> QED BY <1>2, <1>4, <1>5

-----------------------------------------------------------------------------
(* Sums over finite sets *)

\* A set of numbers has a least one.
LEMMA Smallest ==
  ASSUME NEW S \in SUBSET Nat, S # {}
  PROVE  \E m \in S : \A k \in S : ~(k < m)
<1> DEFINE R == OpToRel(<, Nat)
<1>1. IsWellFoundedOn(R, Nat)
  BY NatLessThanWellFounded
<1>2. \A x, y \in Nat : x < y => <<x, y>> \in R
  BY Zenon DEF OpToRel
<1> HIDE DEF R
<1>3. PICK m \in S : \A k \in S : <<k, m>> \notin R
  BY <1>1, WFMin
<1> QED BY <1>2, <1>3

\* A family of finite sets has a member that contains no other.
LEMMA SmallestSet ==
  ASSUME NEW S, IsFiniteSet(S), NEW W \in SUBSET (SUBSET S), W # {}
  PROVE  \E m \in W : \A k \in W : k \subseteq m => k = m
<1>1. \A k \in W : IsFiniteSet(k) /\ Cardinality(k) \in Nat
  BY FS_Subset, FS_CardinalityType
<1> DEFINE N == {n \in Nat : \E k \in W : Cardinality(k) = n}
<1>2. N # {} /\ N \subseteq Nat
  BY <1>1
<1>3. PICK n \in N : \A l \in N : ~(l < n)
  <2> HIDE DEF N
  <2> QED BY <1>2, Smallest
<1>4. PICK m \in W : Cardinality(m) = n
  OBVIOUS
<1>5. ASSUME NEW k \in W, k \subseteq m, k # m
      PROVE  FALSE
  <2>1. Cardinality(k) < Cardinality(m)
    BY <1>1, <1>5, FS_Subset
  <2>2. Cardinality(k) \in N
    BY <1>1, <1>5
  <2> QED BY <1>3, <1>4, <2>1, <2>2
<1> QED BY <1>5

\* The element that MapThenSumSet takes from a set.
Any(s) == CHOOSE x \in s : TRUE

\* The function by which MapThenSumSet sums f over the subsets of S.
Iter(g, f, S) == g = [s \in SUBSET S |-> IF s = {} THEN 0 ELSE f[Any(s)] + g[s \ {Any(s)}]]
\* MapThenSumSet of a function.
Sum(f, S) == (CHOOSE g : Iter(g, f, S))[S]

\* CHOOSE takes an element of the set.
LEMMA AnyIn == ASSUME NEW s, s # {} PROVE Any(s) \in s
BY DEF Any

\* What such a function is for one set.
LEMMA IterIs ==
  ASSUME NEW f, NEW S, NEW g, Iter(g, f, S), NEW s \in SUBSET S
  PROVE  g[s] = IF s = {} THEN 0 ELSE f[Any(s)] + g[s \ {Any(s)}]
BY DEF Iter

\* There is such a function: it is defined for one cardinality after the other.
LEMMA IterExists ==
  ASSUME NEW f, NEW S, IsFiniteSet(S)
  PROVE  \E g : Iter(g, f, S)
<1> DEFINE Upto(n) == {s \in SUBSET S : Cardinality(s) <= n}
<1> DEFINE Level(g, n) == g = [s \in Upto(n) |-> IF s = {} THEN 0 ELSE f[Any(s)] + g[s \ {Any(s)}]]
<1>1. \A s \in SUBSET S : IsFiniteSet(s) /\ Cardinality(s) \in Nat
  BY FS_Subset, FS_CardinalityType
<1>2. ASSUME NEW s \in SUBSET S, s # {}
      PROVE  s \ {Any(s)} \in SUBSET S /\ Cardinality(s \ {Any(s)}) = Cardinality(s) - 1
  <2>1. Any(s) \in s
    BY <1>2, AnyIn
  <2> QED BY <1>1, <1>2, <2>1, FS_RemoveElement
<1>3. \E g : Level(g, 0)
  <2> DEFINE g == [s \in Upto(0) |-> 0]
  <2>1. \A s \in Upto(0) : s = {}
    BY <1>1, FS_EmptySet
  <2>2. Level(g, 0)
    BY <2>1
  <2> QED BY <2>2
<1>4. ASSUME NEW n \in Nat, NEW g, Level(g, n)
      PROVE  \E h : Level(h, n + 1)
  <2> DEFINE step(s) == IF s = {} THEN 0 ELSE f[Any(s)] + g[s \ {Any(s)}]
  <2> DEFINE h == [s \in Upto(n + 1) |-> step(s)]
  <2>1. \A s \in Upto(n) : s \in Upto(n + 1) /\ g[s] = step(s)
    <3>1. \A s \in Upto(n) : s \in Upto(n + 1)
      BY <1>1
    <3> HIDE DEF Upto
    <3>2. \A s \in Upto(n) : g[s] = step(s)
      BY <1>4
    <3> QED BY <3>1, <3>2
  <2>2. \A s \in Upto(n + 1) : s # {} => s \ {Any(s)} \in Upto(n)
    BY <1>1, <1>2
  <2>3. \A s \in Upto(n) : h[s] = g[s]
    BY <2>1
  <2>4. \A s \in Upto(n + 1) : step(s) = IF s = {} THEN 0 ELSE f[Any(s)] + h[s \ {Any(s)}]
    BY <2>2, <2>3
  <2>5. h = [s \in Upto(n + 1) |-> IF s = {} THEN 0 ELSE f[Any(s)] + h[s \ {Any(s)}]]
    <3>1. PICK k : k = h
      OBVIOUS
    <3>2. \A s \in Upto(n + 1) : step(s) = IF s = {} THEN 0 ELSE f[Any(s)] + k[s \ {Any(s)}]
      BY <2>4, <3>1
    <3>3. k = [s \in Upto(n + 1) |-> step(s)]
      BY <3>1
    <3> HIDE DEF step, Upto, h
    <3>4. k = [s \in Upto(n + 1) |-> IF s = {} THEN 0 ELSE f[Any(s)] + k[s \ {Any(s)}]]
      BY <3>2, <3>3
    <3> QED BY <3>1, <3>4
  <2> HIDE DEF h
  <2> QED BY <2>5
<1>5. \A n \in Nat : \E g : Level(g, n)
  <2> SUFFICES ASSUME NEW k \in Nat, ~\E g : Level(g, k) PROVE FALSE
    OBVIOUS
  <2> DEFINE N == {n \in Nat : ~\E g : Level(g, n)}
  <2>1. PICK m \in N : \A l \in N : ~(l < m)
    <3>1. N # {} /\ N \in SUBSET Nat
      OBVIOUS
    <3> HIDE DEF N
    <3> QED BY <3>1, Smallest
  <2> HIDE DEF Level
  <2>2. m \in Nat /\ m # 0
    BY <1>3, <2>1
  <2>3. m - 1 \in Nat /\ m - 1 < m /\ (m - 1) + 1 = m
    BY <2>2
  <2>4. \E g : Level(g, m - 1)
    BY <2>1, <2>3
  <2>5. \E g : Level(g, (m - 1) + 1)
    BY <1>4, <2>3, <2>4
  <2> QED BY <2>1, <2>3, <2>5
<1>6. Cardinality(S) \in Nat
  BY <1>1
<1>7. PICK g : Level(g, Cardinality(S))
  <2> HIDE DEF Level
  <2> QED BY <1>5, <1>6
<1>8. Upto(Cardinality(S)) = SUBSET S
  BY FS_Subset
<1> QED BY <1>7, <1>8 DEF Iter

\* Which element is taken first makes no difference.
LEMMA IterSums ==
  ASSUME NEW f, NEW S, IsFiniteSet(S), \A x \in S : f[x] \in Nat, NEW g, Iter(g, f, S)
  PROVE  \A T \in SUBSET S : g[T] \in Nat /\ \A y \in T : g[T] = f[y] + g[T \ {y}]
<1>1. \A T \in SUBSET S : g[T] = IF T = {} THEN 0 ELSE f[Any(T)] + g[T \ {Any(T)}]
  BY IterIs
<1>2. \A T \in SUBSET S : T # {} => Any(T) \in T
  BY AnyIn
<1>3. \A T \in SUBSET S : g[T] \in Nat
  <2> DEFINE W == {T \in SUBSET S : g[T] \notin Nat}
  <2>1. ASSUME NEW T \in W, \A U \in W : U \subseteq T => U = T
        PROVE  FALSE
    <3>1. T # {}
      <4>1. g[{}] = 0
        BY IterIs
      <4> QED BY <4>1
    <3>2. Any(T) \in T /\ T \ {Any(T)} \in SUBSET S /\ T \ {Any(T)} # T
      BY <1>2, <3>1
    <3>3. T \ {Any(T)} \notin W
      BY <2>1, <3>2
    <3>4. g[T \ {Any(T)}] \in Nat /\ f[Any(T)] \in Nat
      <4>1. g[T \ {Any(T)}] \in Nat
        BY <3>2, <3>3
      <4> QED BY <3>2, <4>1
    <3>5. g[T] = f[Any(T)] + g[T \ {Any(T)}]
      BY <1>1, <3>1
    <3> QED BY <3>4, <3>5
  <2>2. W \in SUBSET (SUBSET S)
    OBVIOUS
  <2>3. W = {}
    <3> HIDE DEF W
    <3> QED BY <2>1, <2>2, SmallestSet
  <2> QED BY <2>3
<1>4. \A T \in SUBSET S : \A y \in T : g[T] = f[y] + g[T \ {y}]
  <2> DEFINE W == {T \in SUBSET S : \E y \in T : g[T] # f[y] + g[T \ {y}]}
  <2>1. ASSUME NEW T \in W, \A U \in W : U \subseteq T => U = T
        PROVE  FALSE
    <3>1. PICK y \in T : g[T] # f[y] + g[T \ {y}]
      OBVIOUS
    <3>2. PICK x \in T : x = Any(T)
      BY <1>2, <3>1
    <3>3. T \in SUBSET S /\ g[T] = f[x] + g[T \ {x}]
      BY <1>1, <3>2
    <3>4. x # y
      BY <3>1, <3>3
    <3>5. T \ {x} \notin W /\ T \ {y} \notin W
      BY <2>1
    <3>6. T \ {x} \in SUBSET S /\ T \ {y} \in SUBSET S /\ y \in T \ {x} /\ x \in T \ {y}
      BY <3>3, <3>4
    <3>7. g[T \ {x}] = f[y] + g[(T \ {x}) \ {y}]
      BY <3>5, <3>6
    <3>8. g[T \ {y}] = f[x] + g[(T \ {y}) \ {x}]
      BY <3>5, <3>6
    <3>9. (T \ {x}) \ {y} = (T \ {y}) \ {x} /\ (T \ {x}) \ {y} \in SUBSET S
      BY <3>3
    <3>10. f[x] \in Nat /\ f[y] \in Nat /\ g[(T \ {x}) \ {y}] \in Nat
      BY <1>3, <3>3, <3>9
    <3>11. PICK n \in Nat : n = g[(T \ {x}) \ {y}]
      BY <3>10
    <3>12. g[T \ {x}] = f[y] + n /\ g[T \ {y}] = f[x] + n
      BY <3>7, <3>8, <3>9, <3>11
    <3> QED BY <3>1, <3>3, <3>10, <3>12
  <2>2. W \in SUBSET (SUBSET S)
    OBVIOUS
  <2>3. W = {}
    <3> HIDE DEF W
    <3> QED BY <2>1, <2>2, SmallestSet
  <2> QED BY <2>3
<1> QED BY <1>3, <1>4

\* The functions for a set and for a subset of it are the same on the subset.
LEMMA IterAgree ==
  ASSUME NEW f, NEW S, IsFiniteSet(S), NEW T \in SUBSET S,
         NEW g, Iter(g, f, S), NEW h, Iter(h, f, T)
  PROVE  \A U \in SUBSET T : g[U] = h[U]
<1>1. \A U \in SUBSET T : /\ g[U] = IF U = {} THEN 0 ELSE f[Any(U)] + g[U \ {Any(U)}]
                          /\ h[U] = IF U = {} THEN 0 ELSE f[Any(U)] + h[U \ {Any(U)}]
  BY IterIs
<1> DEFINE W == {U \in SUBSET T : g[U] # h[U]}
<1>2. ASSUME NEW U \in W, \A V \in W : V \subseteq U => V = U
      PROVE  FALSE
  <2>1. U # {}
    BY <1>1
  <2>2. Any(U) \in U
    BY <2>1, AnyIn
  <2>3. U \ {Any(U)} \notin W /\ U \ {Any(U)} \in SUBSET T
    BY <1>2, <2>2
  <2> QED BY <1>1, <2>1, <2>3
<1>3. W \in SUBSET (SUBSET T) /\ IsFiniteSet(T)
  BY FS_Subset
<1>4. W = {}
  <2> HIDE DEF W
  <2> QED BY <1>2, <1>3, SmallestSet
<1> QED BY <1>4

\* MapThenSumSet takes one of these functions, whichever.
LEMMA SumIs ==
  ASSUME NEW f, NEW S, IsFiniteSet(S), NEW g, Iter(g, f, S), NEW T \in SUBSET S
  PROVE  Sum(f, T) = g[T]
<1>1. IsFiniteSet(T)
  BY FS_Subset
<1>2. PICK h : h = CHOOSE k : Iter(k, f, T)
  OBVIOUS
<1>3. Iter(h, f, T)
  BY <1>1, <1>2, IterExists
<1>4. g[T] = h[T]
  BY <1>3, IterAgree
<1> QED BY <1>2, <1>4 DEF Sum

\* A sum of naturals is a natural, and any element may be taken out of it.
LEMMA SumOf ==
  ASSUME NEW f, NEW S, IsFiniteSet(S), \A x \in S : f[x] \in Nat
  PROVE  /\ Sum(f, S) \in Nat
         /\ \A y \in S : Sum(f, S) = f[y] + Sum(f, S \ {y})
<1>1. PICK g : Iter(g, f, S)
  BY IterExists
<1>2. \A T \in SUBSET S : Sum(f, T) = g[T]
  BY <1>1, SumIs
<1>3. \A T \in SUBSET S : g[T] \in Nat /\ \A y \in T : g[T] = f[y] + g[T \ {y}]
  BY <1>1, IterSums
<1>4. S \in SUBSET S /\ \A y \in S : S \ {y} \in SUBSET S
  OBVIOUS
<1> QED BY <1>2, <1>3, <1>4

\* The sum over no element.
LEMMA SumEmpty == ASSUME NEW f PROVE Sum(f, {}) = 0
<1>1. IsFiniteSet({})
  BY FS_EmptySet
<1>2. PICK g : Iter(g, f, {})
  BY <1>1, IterExists
<1>3. g[{}] = 0
  BY <1>2, IterIs
<1> QED BY <1>1, <1>2, <1>3, SumIs

\* A sum over a subset is not larger.
LEMMA SumSubset ==
  ASSUME NEW f, NEW S, IsFiniteSet(S), \A x \in S : f[x] \in Nat, NEW T \in SUBSET S
  PROVE  Sum(f, T) \in Nat /\ Sum(f, S) \in Nat /\ Sum(f, T) <= Sum(f, S)
<1> DEFINE W == {U \in SUBSET S : T \subseteq U /\ ~(Sum(f, T) <= Sum(f, U))}
<1>1. \A U \in SUBSET S : /\ IsFiniteSet(U) /\ Sum(f, U) \in Nat
                          /\ \A y \in U : Sum(f, U) = f[y] + Sum(f, U \ {y})
  BY FS_Subset, SumOf
<1>2. ASSUME NEW U \in W, \A V \in W : V \subseteq U => V = U
      PROVE  FALSE
  <2>1. U # T
    BY <1>1
  <2>2. PICK y \in U : y \notin T
    BY <2>1
  <2>3. U \ {y} \in SUBSET S /\ U \ {y} \notin W /\ T \subseteq U \ {y}
    BY <1>2, <2>2
  <2>4. Sum(f, T) <= Sum(f, U \ {y})
    BY <2>3
  <2>5. /\ Sum(f, U) = f[y] + Sum(f, U \ {y}) /\ f[y] \in Nat
        /\ Sum(f, U) \in Nat /\ Sum(f, U \ {y}) \in Nat /\ Sum(f, T) \in Nat
    BY <1>1, <2>3
  <2> QED BY <2>4, <2>5
<1>3. W \in SUBSET (SUBSET S)
  OBVIOUS
<1>4. W = {}
  <2> HIDE DEF W
  <2> QED BY <1>2, <1>3, SmallestSet
<1>5. S \notin W
  BY <1>4
<1> QED BY <1>1, <1>5

\* Nor is that sum with one more element of the set.
LEMMA SumAdd ==
  ASSUME NEW f, NEW S, IsFiniteSet(S), \A x \in S : f[x] \in Nat, NEW T \in SUBSET S, NEW y \in S \ T
  PROVE  Sum(f, T) + f[y] <= Sum(f, S)
<1>1. PICK U : U = T \cup {y}
  OBVIOUS
<1>2. U \in SUBSET S /\ y \in U /\ U \ {y} = T /\ f[y] \in Nat
  BY <1>1
<1>3. IsFiniteSet(U) /\ \A x \in U : f[x] \in Nat
  BY <1>2, FS_Subset
<1>4. Sum(f, U) = f[y] + Sum(f, T) /\ Sum(f, U) \in Nat
  BY <1>2, <1>3, SumOf
<1>5. Sum(f, T) \in Nat /\ Sum(f, S) \in Nat /\ Sum(f, U) <= Sum(f, S)
  BY <1>2, SumSubset
<1> QED BY <1>2, <1>4, <1>5

-----------------------------------------------------------------------------
(* What the driver data holds *)

\* A device tree whose table and queues have entries: the parser computes everything.
FullTree == tree.table # 0 /\ tree.queue # 0

\* What hw_fence_utils_parse_dt_props computes from a device tree without zeros.
TreeDesc == [t \in Types |-> Desc(ClientTypes[t], tree.types[t], tree.queue)]
TreeTableSize == (FenceSize * tree.table) % U32
TreeCtrlSize == (CtrlHeaders + HW_FENCE_CTRL_QUEUES * CtrlQueueSize(tree.queue)) % U32
TreeBase == QueuesStart(TreeCtrlSize, TreeTableSize, RxqClientsNum(TreeDesc)) % U32

\* The stages of hw_fence_driver_probe: before the memory, after the locks, after the ipc tables.
Before == {"idle", "parse", "failed"}
AtIpc == {"table", "ipcc"}
Ends == {"qtime", "debugfs", "virq", "ready", "done"}
AfterLocks == AtIpc \cup Ends \cup {"oops"}

\* The fields of the driver data, and that it has no other.
Fields == {"tableEntries", "tableSize", "queueEntries", "ctrlSize", "desc", "rxqNum", "clientsNum",
           "used", "queueSize", "clients", "ipc", "lockCnt", "tableCnt", "qtime", "virq", "ready",
           "vmReady", "dpuInit"}
DrvType == drv = [f \in Fields |-> drv[f]]

\* The driver data holds what the parser computes from the device tree.
Sizes ==
    /\ ValidTable /\ ValidCtrlQueue /\ ValidTypes
    /\ drv.tableSize = TreeTableSize /\ drv.ctrlSize = TreeCtrlSize /\ drv.desc = TreeDesc
    /\ drv.rxqNum = RxqClientsNum(TreeDesc) /\ drv.clientsNum = ClientsNum(TreeDesc)
    /\ drv.queueSize = ClientQueueSize(TreeDesc, TreeBase)
    /\ drv.used = UsedMemSize(TreeDesc, TreeBase)

\* What is computed at each stage of the probe stays as it was computed.
LaidOut ==
    /\ probe \notin Before /\ FullTree =>
         /\ Sizes
         /\ drv.clients \in [0..ClientsNum(TreeDesc) - 1 -> Callers \cup {Nobody}]
         /\ probe # "memory" => drv.used <= tree.size
    /\ probe \in Before \/ ~FullTree => drv.desc = NoProp
    /\ probe \in AfterLocks => drv.lockCnt = (LocksSize(drv.rxqNum) % U32) \div LockSize
    /\ probe \in AfterLocks \ {"table"} => drv.tableCnt = drv.tableSize \div FenceSize
    /\ drv.ipc = NoTable \/ /\ probe \in Ends
                            /\ \/ /\ tree.ipcVersion \in DOMAIN IpcBase \ {ConfigVersion}
                                  /\ drv.ipc = IpcBase[tree.ipcVersion]
                               \/ drv.ipc = ConfigurableIpc

-----------------------------------------------------------------------------
(* The memory and the peer *)

\* The memory is cleared before the notifier is registered; until then no peer has it.
MemoryInv ==
    /\ mem.clear \in BOOLEAN /\ mem = [clear |-> mem.clear, ctrl |-> mem.ctrl, clients |-> mem.clients]
    /\ notifier = "none" => event = "none" /\ owners = {Self} /\ share = "idle"
    /\ probe \in {"idle", "parse", "memory", "notifier"} => notifier # "live"
    /\ notifier # "none" \/ probe = "notifier" => mem.clear
    /\ probe = "failed" => notifier # "live"

-----------------------------------------------------------------------------
(* The clients *)

\* A client with an entry in the clients table, and one whose queues were found.
Active(c) == client[c] \in {"setup", "signal", "enable", "registered", "unlink"}
Placed(c) == client[c] \in {"signal", "enable", "registered"}

\* A client that registers has its own entry, a row of the ipc table and queues with memory.
ClientInv ==
    /\ drv.dpuInit => drv.ready
    /\ \A c \in Callers :
        /\ client[c] # "none" => drv.ready
        /\ Active(c) => /\ drv.desc # NoProp /\ IdOf(c) < ClientMax
                        /\ drv.clients[IdOf(c)] = c
        /\ Placed(c) => /\ IdOf(c) \in DOMAIN drv.ipc /\ GoodRow(IdOf(c))
                        /\ drv.queueSize[IdOf(c)].mem # 0

\* The first display client enables the signals of all; no other is registered before it
\* said that it will.
DpuInv ==
    /\ \A c \in Callers : client[c] = "enable" => drv.dpuInit
    /\ drv.dpuInit /\ (\A c \in Callers : client[c] # "enable") =>
            signalsOn = {id \in 0..drv.clientsNum - 1 : DpuRow(id)}
    /\ \A c \in Registered : DpuRow(IdOf(c)) => drv.dpuInit

\* The inductive invariant: types, layout, memory and clients.
ProbeInv == TypeOK /\ DrvType /\ LaidOut /\ MemoryInv /\ ClientInv

-----------------------------------------------------------------------------
(* Types *)

\* An update of one field leaves the others as they were.
LEMMA FieldSet ==
  ASSUME DrvType, NEW f \in Fields, NEW v, NEW d, d = [drv EXCEPT ![f] = v]
  PROVE  /\ d = [g \in Fields |-> d[g]] /\ d[f] = v
         /\ \A g \in Fields : g # f => d[g] = drv[g]
<1>1. DOMAIN drv = Fields
  BY DEF DrvType
<1>2. DOMAIN d = Fields /\ d[f] = v /\ \A g \in Fields : g # f => d[g] = drv[g]
  BY <1>1
<1>3. d = [g \in Fields |-> IF g = f THEN v ELSE drv[g]]
  BY <1>1
<1>4. d = [g \in Fields |-> d[g]]
  BY <1>3
<1> QED BY <1>2, <1>4

\* The driver data that kzalloc returns has these fields.
LEMMA NewFields == NewDriver = [g \in Fields |-> NewDriver[g]]
BY DEF NewDriver, Fields

\* A step that changes no field of the driver data but those of F.
Kept(F) == DrvType' /\ \A g \in Fields \ F : drv'[g] = drv[g]

\* No field is changed.
LEMMA KeptAll == ASSUME DrvType, drv' = drv, NEW F PROVE Kept(F)
BY DEF Kept, DrvType

\* One field is.
LEMMA KeptBut ==
  ASSUME DrvType, NEW f \in Fields, NEW v, drv' = [drv EXCEPT ![f] = v]
  PROVE  Kept({f}) /\ drv'[f] = v
<1>1. DOMAIN drv = Fields
  BY DEF DrvType
<1>2. drv' = [g \in Fields |-> IF g = f THEN v ELSE drv[g]]
  BY <1>1
<1>3. drv'[f] = v /\ \A g \in Fields : g # f => drv'[g] = drv[g]
  BY <1>2
<1>4. drv' = [g \in Fields |-> drv'[g]]
  BY <1>2
<1> QED BY <1>3, <1>4 DEF Kept, DrvType

\* What a step of the probe does to the driver data.
Restart == probe' \in {"parse", "failed"} /\ drv' = NewDriver
Parse == /\ probe = "parse" /\ probe' = "memory"
         /\ \/ ~FullTree /\ Kept({"tableEntries", "tableSize"})
            \/ FullTree /\ ValidTable /\ ValidCtrlQueue /\ ValidTypes /\ drv' = Layout
Counted ==
    \/ /\ probe = "locks" /\ probe' = "table" /\ Kept({"lockCnt"})
       /\ drv'["lockCnt"] = (LocksSize(drv.rxqNum) % U32) \div LockSize
    \/ /\ probe = "table" /\ probe' = "ipcc" /\ Kept({"tableCnt"})
       /\ drv'["tableCnt"] = drv.tableSize \div FenceSize
Mapped ==
    /\ probe = "ipcc" /\ probe' = "qtime" /\ Kept({"ipc"})
    /\ \/ drv'["ipc"] = drv["ipc"]
       \/ tree.ipcVersion = ConfigVersion /\ drv'["ipc"] = ConfigurableIpc
       \/ /\ tree.ipcVersion \in DOMAIN IpcBase \ {ConfigVersion}
          /\ drv'["ipc"] = IpcBase[tree.ipcVersion]
GoesOn ==
    \/ /\ drv' = drv
       /\ <<probe, probe'>> \in {<<"memory", "notifier">>, <<"notifier", "ctrlq">>, <<"ctrlq", "locks">>,
                                 <<"ipcc", "oops">>, <<"debugfs", "virq">>}
       /\ probe = "memory" => FitsCarveout
    \/ probe = "qtime" /\ probe' = "debugfs" /\ Kept({"qtime"})
    \/ probe = "virq" /\ probe' = "ready" /\ Kept({"virq"})
    \/ probe = "ready" /\ probe' = "done" /\ Kept({"ready"}) /\ drv'["ready"] = TRUE

\* Each step of hw_fence_driver_probe is one of those.
LEMMA ProbeMoves ==
  ASSUME DrvType, ProbeInit \/ Probe
  PROVE  /\ Restart \/ Parse \/ Counted \/ Mapped \/ GoesOn
         /\ UNCHANGED <<tree, vmVars, clientVars>>
         /\ probe \notin {"done", "oops"}
<1>1. CASE ProbeInit
  BY <1>1 DEF ProbeInit, Restart
<1>2. CASE ParseDtProps
  <2>1. ASSUME tree.table = 0, UNCHANGED drv, probe' = "memory"
        PROVE  Parse
    BY <1>2, <2>1, KeptAll DEF ParseDtProps, Parse, FullTree
  <2>2. ASSUME tree.queue = 0, probe' = "memory",
               drv' = [drv EXCEPT !.tableEntries = tree.table, !.tableSize = (FenceSize * tree.table) % U32]
        PROVE  Parse
    <3>1. PICK d : d = [drv EXCEPT !.tableEntries = tree.table]
      OBVIOUS
    <3>2. /\ d = [g \in Fields |-> d[g]]
          /\ \A g \in Fields : g # "tableEntries" => d[g] = drv[g]
      BY <3>1, FieldSet DEF Fields
    <3>3. PICK s : s = (FenceSize * tree.table) % U32
      OBVIOUS
    <3>4. drv' = [d EXCEPT ![ "tableSize" ] = s]
      BY <2>2, <3>1, <3>3
    <3>5. /\ drv' = [g \in Fields |-> drv'[g]]
          /\ \A g \in Fields : g # "tableSize" => drv'[g] = d[g]
      BY <3>2, <3>4
    <3>6. Kept({"tableEntries", "tableSize"})
      BY <3>2, <3>5 DEF Kept, DrvType
    <3> QED BY <1>2, <2>2, <3>6 DEF ParseDtProps, Parse, FullTree
  <2> QED BY <1>2, <2>1, <2>2 DEF ParseDtProps, Parse, FullTree, Fail, Restart
<1>3. CASE MapMemory
  BY <1>3 DEF MapMemory, Fail, Restart, GoesOn, vmVars, clientVars
<1>4. CASE RegisterNotifier
  BY <1>4 DEF RegisterNotifier, Fail, Restart, GoesOn
<1>5. CASE InitCtrlQueue
  BY <1>5 DEF InitCtrlQueue, Fail, Restart, GoesOn
<1>6. CASE InitLocks
  <2>1. PICK n : n = (LocksSize(drv.rxqNum) % U32) \div LockSize
    OBVIOUS
  <2>2. CASE drv' = [drv EXCEPT !.lockCnt = n] /\ probe' = "table"
    <3>1. Kept({"lockCnt"}) /\ drv'["lockCnt"] = n
      BY <2>2, KeptBut DEF Fields
    <3> QED BY <1>6, <2>1, <2>2, <3>1 DEF InitLocks, Counted
  <2> QED BY <1>6, <2>1, <2>2 DEF InitLocks, Fail, Restart
<1>7. CASE InitTable
  <2>1. PICK n : n = drv.tableSize \div FenceSize
    OBVIOUS
  <2>2. CASE drv' = [drv EXCEPT !.tableCnt = n] /\ probe' = "ipcc"
    <3>1. Kept({"tableCnt"}) /\ drv'["tableCnt"] = n
      BY <2>2, KeptBut DEF Fields
    <3> QED BY <1>7, <2>1, <2>2, <3>1 DEF InitTable, Counted
  <2> QED BY <1>7, <2>1, <2>2 DEF InitTable, Fail, Restart
<1>8. CASE MapIpcc
  <2>1. ASSUME NEW t, drv' = [drv EXCEPT !.ipc = t]
        PROVE  Kept({"ipc"}) /\ drv'["ipc"] = t
    BY <2>1, KeptBut DEF Fields
  <2>2. UNCHANGED drv => Kept({"ipc"}) /\ drv'["ipc"] = drv["ipc"]
    BY KeptAll
  <2>3. PICK t : t = ConfigurableIpc
    OBVIOUS
  <2>4. PICK u : u = IpcBase[tree.ipcVersion]
    OBVIOUS
  <2>5. probe = "ipcc" /\ UNCHANGED <<tree, vmVars, clientVars>>
    BY <1>8 DEF MapIpcc
  <2>6. CASE EnableSignaling
    BY <2>1, <2>2, <2>3, <2>4, <2>5, <2>6 DEF EnableSignaling, Mapped, GoesOn
  <2> QED BY <1>8, <2>5, <2>6 DEF MapIpcc, Fail, Restart
<1>9. CASE MapQtime
  <2>1. drv' = [drv EXCEPT !.qtime = TRUE] => Kept({"qtime"})
    BY KeptBut DEF Fields
  <2> QED BY <1>9, <2>1 DEF MapQtime, Fail, Restart, GoesOn
<1>10. CASE RegisterDebugfs
  BY <1>10 DEF RegisterDebugfs, Fail, Restart, GoesOn
<1>11. CASE InitVirq
  <2>1. drv' = [drv EXCEPT !.virq = TRUE] => Kept({"virq"})
    BY KeptBut DEF Fields
  <2> QED BY <1>11, <2>1 DEF InitVirq, Fail, Restart, GoesOn
<1>12. CASE SetReady
  <2>1. Kept({"ready"}) /\ drv'["ready"] = TRUE
    BY <1>12, KeptBut DEF Fields, SetReady
  <2> QED BY <1>12, <2>1 DEF SetReady, GoesOn
<1> QED BY <1>1, <1>2, <1>3, <1>4, <1>5, <1>6, <1>7, <1>8, <1>9, <1>10, <1>11, <1>12 DEF Probe

\* What the other steps do to it.
LEMMA PeerMoves ==
  ASSUME DrvType, PeerStarts \/ PeerGoes \/ Callback
  PROVE  Kept({"vmReady"}) /\ UNCHANGED <<tree, probe, mem, notifier, probes, clientVars>>
<1>1. Kept({"vmReady"})
  <2>1. drv' = drv \/ drv' = [drv EXCEPT !.vmReady = TRUE]
    BY DEF PeerStarts, PeerGoes, Callback, IgnoreEvent, AssignMem, AllocDescriptors, ShareMem, probeVars
  <2>2. drv' = [drv EXCEPT !.vmReady = TRUE] => Kept({"vmReady"})
    BY KeptBut DEF Fields
  <2> QED BY <2>1, <2>2, KeptAll
<1>2. UNCHANGED <<tree, probe, mem, notifier, probes, clientVars>>
  BY DEF PeerStarts, PeerGoes, Callback, IgnoreEvent, AssignMem, AllocDescriptors, ShareMem, probeVars
<1> QED BY <1>1, <1>2

\* What a client does next; it is in the table from the start of its registration
\* until it is cleaned up.
Opens(c) ==
    /\ drv.ready /\ client[c] = "none" /\ client' = [client EXCEPT ![c] = "setup"]
    /\ drv.desc # NoProp /\ ~(IdOf(c) >= ClientMax) /\ drv.clients[IdOf(c)] = Nobody
    /\ Kept({"clients"}) /\ drv'["clients"] = [drv.clients EXCEPT ![IdOf(c)] = c]
Refused(c) ==
    /\ drv.ready /\ client[c] = "none" /\ drv' = drv
    /\ client' = [client EXCEPT ![c] = "oops"] \/ client' = [client EXCEPT ![c] = "refused"]
Sets(c) ==
    /\ client[c] = "setup" /\ drv' = drv
    /\ \/ client' = [client EXCEPT ![c] = "oops"] \/ client' = [client EXCEPT ![c] = "unlink"]
       \/ /\ IdOf(c) \in DOMAIN drv.ipc /\ GoodRow(IdOf(c)) /\ drv.queueSize[IdOf(c)].mem # 0
          /\ client' = [client EXCEPT ![c] = "signal"]
Signals(c) ==
    /\ client[c] = "signal"
    /\ \/ /\ TypeOf(c) = TypeOf(DpuClient) /\ ~drv.dpuInit
          /\ Kept({"dpuInit"}) /\ drv'["dpuInit"] = TRUE
          /\ client' = [client EXCEPT ![c] = "enable"]
       \/ /\ ~(TypeOf(c) = TypeOf(DpuClient) /\ ~drv.dpuInit) /\ drv' = drv
          /\ client' = [client EXCEPT ![c] = "registered"]
Enables(c) ==
    /\ client[c] = "enable" /\ client' = [client EXCEPT ![c] = "registered"] /\ drv' = drv
    /\ signalsOn' = {id \in 0..drv.clientsNum - 1 : DpuRow(id)}
Closes(c) ==
    /\ \/ client[c] = "unlink" /\ client' = [client EXCEPT ![c] = "refused"]
       \/ client[c] = "registered" /\ client' = [client EXCEPT ![c] = "none"]
    /\ Kept({"clients"}) /\ drv'["clients"] = [drv.clients EXCEPT ![IdOf(c)] = Nobody]

\* Each step of msm_hw_fence_register is one of those.
LEMMA ClientMoves ==
  ASSUME DrvType, NEW c \in Callers, Register(c)
  PROVE  /\ Opens(c) \/ Refused(c) \/ Sets(c) \/ Signals(c) \/ Enables(c) \/ Closes(c)
         /\ ~Enables(c) => signalsOn' = signalsOn
         /\ UNCHANGED <<tree, probe, notifier, probes, vmVars, faults>>
<1>1. \A v : drv' = [drv EXCEPT !.clients = v] => Kept({"clients"}) /\ drv'["clients"] = v
  BY KeptBut DEF Fields
<1>2. drv' = [drv EXCEPT !.dpuInit = TRUE] => Kept({"dpuInit"}) /\ drv'["dpuInit"] = TRUE
  BY KeptBut DEF Fields
<1>3. PICK id : id = IdOf(c)
  OBVIOUS
<1>4. CASE StartRegister(c)
  <2>1. ASSUME drv' = [drv EXCEPT !.clients[id] = c]
        PROVE  Kept({"clients"}) /\ drv'["clients"] = [drv.clients EXCEPT ![id] = c]
    BY <1>1, <2>1
  <2>2. /\ drv.ready /\ client[c] = "none"
        /\ UNCHANGED <<tree, probe, notifier, probes, vmVars, signalsOn, faults>>
    BY <1>3, <1>4 DEF StartRegister
  <2>3. \/ drv' = drv /\ (client' = [client EXCEPT ![c] = "oops"] \/ client' = [client EXCEPT ![c] = "refused"])
        \/ /\ drv.desc # NoProp /\ ~(id >= ClientMax) /\ drv.clients[id] = Nobody
           /\ drv' = [drv EXCEPT !.clients[id] = c] /\ client' = [client EXCEPT ![c] = "setup"]
    <3>1. IF drv.desc = NoProp THEN Goto(c, "oops") /\ UNCHANGED drv
          ELSE IF IdOf(c) >= ClientMax \/ drv.clients[IdOf(c)] # Nobody
          THEN Goto(c, "refused") /\ UNCHANGED drv
          ELSE drv' = [drv EXCEPT !.clients[IdOf(c)] = c] /\ Goto(c, "setup")
      BY <1>4 DEF StartRegister
    <3>2. CASE drv.desc = NoProp
      BY <3>1, <3>2 DEF Goto
    <3>3. CASE drv.desc # NoProp /\ (id >= ClientMax \/ drv.clients[id] # Nobody)
      BY <1>3, <3>1, <3>3 DEF Goto
    <3>4. CASE drv.desc # NoProp /\ ~(id >= ClientMax \/ drv.clients[id] # Nobody)
      <4>1. ~(IdOf(c) >= ClientMax \/ drv.clients[IdOf(c)] # Nobody)
        BY <1>3, <3>4
      <4>2. drv' = [drv EXCEPT !.clients[IdOf(c)] = c] /\ Goto(c, "setup")
        BY <3>1, <3>4, <4>1
      <4> QED BY <1>3, <3>4, <4>2 DEF Goto
    <3> QED BY <3>2, <3>3, <3>4
  <2>4. CASE /\ drv.desc # NoProp /\ ~(id >= ClientMax) /\ drv.clients[id] = Nobody
             /\ drv' = [drv EXCEPT !.clients[id] = c] /\ client' = [client EXCEPT ![c] = "setup"]
    BY <1>3, <2>1, <2>2, <2>4 DEF Opens
  <2>5. CASE drv' = drv /\ (client' = [client EXCEPT ![c] = "oops"] \/ client' = [client EXCEPT ![c] = "refused"])
    BY <2>2, <2>5 DEF Refused
  <2> QED BY <2>2, <2>3, <2>4, <2>5
<1>5. CASE SetUp(c)
  BY <1>5 DEF SetUp, Sets, ReservesQueues, Goto
<1>6. CASE InitSignal(c)
  BY <1>2, <1>6 DEF InitSignal, Signals, Goto
<1>7. CASE EnableDpuSignaling(c)
  BY <1>7 DEF EnableDpuSignaling, Enables, EnabledFor, Goto, probeVars
<1>8. CASE Cleanup(c)
  <2>1. ASSUME drv' = [drv EXCEPT !.clients[id] = Nobody]
        PROVE  Kept({"clients"}) /\ drv'["clients"] = [drv.clients EXCEPT ![id] = Nobody]
    BY <1>1, <2>1
  <2> QED BY <1>3, <1>8, <2>1 DEF Cleanup, Closes, Goto
<1> QED BY <1>4, <1>5, <1>6, <1>7, <1>8 DEF Register

\* The actors of a step.
LEMMA NextMoves ==
  ASSUME Next
  PROVE  \/ ProbeInit \/ Probe \/ PeerStarts \/ PeerGoes \/ Callback
         \/ \E c \in Callers : Register(c)
BY DEF Next

\* Registrations keep the types.
LEMMA ClientTypeStep ==
  ASSUME TypeOK, DrvType, NEW c \in Callers, Register(c)
  PROVE  TypeOK'
<1>1. Opens(c) \/ Refused(c) \/ Sets(c) \/ Signals(c) \/ Enables(c) \/ Closes(c)
  BY ClientMoves
<1>2. UNCHANGED <<tree, probe, notifier, probes, peer, event, share, owners, parcel, faults>>
  BY ClientMoves DEF vmVars
<1>3. client' \in [Callers -> {"none", "setup", "signal", "enable", "registered", "unlink", "refused", "oops"}]
  BY <1>1 DEF TypeOK, Opens, Refused, Sets, Signals, Enables, Closes
<1>4. drv'["ready"] = drv["ready"]
  BY <1>1 DEF Opens, Refused, Sets, Signals, Enables, Closes, Kept, Fields
<1> QED BY <1>2, <1>3, <1>4 DEF TypeOK

\* No step adds a field to the driver data, or drops one.
LEMMA DrvTypeStep == DrvType /\ [Next]_vars => DrvType'
<1> SUFFICES ASSUME DrvType, [Next]_vars PROVE DrvType'
  OBVIOUS
<1>1. CASE ProbeInit \/ Probe
  <2>1. Restart => DrvType'
    BY NewFields DEF Restart, DrvType
  <2>2. Parse => DrvType'
    BY DEF Parse, Kept, DrvType, Layout, NewDriver, Fields
  <2>3. Counted \/ Mapped \/ GoesOn => DrvType'
    BY DEF Counted, Mapped, GoesOn, Kept, DrvType
  <2> QED BY <1>1, <2>1, <2>2, <2>3, ProbeMoves
<1>2. CASE PeerStarts \/ PeerGoes \/ Callback
  BY <1>2, PeerMoves DEF Kept
<1>3. ASSUME NEW c \in Callers, Register(c)
      PROVE  DrvType'
  <2>1. Opens(c) \/ Refused(c) \/ Sets(c) \/ Signals(c) \/ Enables(c) \/ Closes(c)
    BY <1>3, ClientMoves
  <2> QED BY <2>1 DEF Opens, Refused, Sets, Signals, Enables, Closes, Kept, DrvType
<1>4. CASE UNCHANGED vars
  BY <1>4 DEF vars, probeVars, DrvType
<1> QED BY <1>1, <1>2, <1>3, <1>4, NextMoves

-----------------------------------------------------------------------------
(* Client types and ids *)

\* The types, in their order.
LEMMA TypesAre ==
  /\ Types = 0..Cardinality(Types) - 1 /\ Cardinality(Types) \in Nat \ {0}
  /\ StaticTypes \in Nat /\ RxqTypes \in 0..StaticTypes /\ StaticTypes < Cardinality(Types)
  /\ Configurable = StaticTypes..Cardinality(Types) - 1
  /\ Cardinality(Configurable) = Cardinality(Types) - StaticTypes
  /\ StaticIndex \in Nat /\ ClientMax \in Nat /\ RxqClients \in Nat /\ SubClients \in Nat \ {0}
<1>1. /\ IsFiniteSet(Types) /\ Types = 0..Cardinality(Types) - 1 /\ StaticTypes \in Types
      /\ RxqTypes \in 0..StaticTypes
      /\ StaticIndex \in Nat /\ ClientMax \in Nat /\ RxqClients \in Nat /\ SubClients \in Nat \ {0}
  BY LayoutAssumption
<1>2. PICK n : n = Cardinality(Types)
  OBVIOUS
<1>3. n \in Nat
  BY <1>1, <1>2, FS_CardinalityType
<1>4. Types = 0..n - 1 /\ StaticTypes \in 0..n - 1
  BY <1>1, <1>2
<1>5. n # 0 /\ StaticTypes \in Nat /\ StaticTypes < n
  BY <1>3, <1>4
<1>6. Configurable = StaticTypes..n - 1
  BY <1>3, <1>4, <1>5 DEF Configurable
<1>7. Cardinality(StaticTypes..n - 1) = n - StaticTypes
  <2>1. StaticTypes \in Int /\ n - 1 \in Int
    BY <1>3, <1>5
  <2>2. PICK b : b = n - 1
    OBVIOUS
  <2>3. Cardinality(StaticTypes..b) = IF StaticTypes > b THEN 0 ELSE b - StaticTypes + 1
    BY <2>1, <2>2, FS_Interval
  <2> QED BY <1>3, <1>5, <2>2, <2>3
<1> QED BY <1>1, <1>2, <1>3, <1>4, <1>5, <1>6, <1>7

\* The ids of the types do not overlap: static ones below those of the sub-clients.
LEMMA TypeNumbers ==
  ASSUME NEW t \in Types, NEW i, i = ClientTypes[t].init, NEW m, m = ClientTypes[t].max
  PROVE  /\ i \in Nat /\ m \in Nat /\ i + m <= ClientMax
         /\ t \in Configurable => i = StaticIndex + (t - StaticTypes) * SubClients /\ m <= SubClients
         /\ t \notin Configurable => i + m <= StaticIndex
         /\ \A u \in Types : t < u => i + m <= ClientTypes[u].init
BY LayoutAssumption DEF LayoutAssumption

\* Each id is of one type.
LEMMA TypeIs ==
  ASSUME NEW t \in Types, NEW e \in ClientTypes[t].init..ClientTypes[t].init + ClientTypes[t].max - 1
  PROVE  TypeOf(e) = t
<1>1. PICK i, m : i = ClientTypes[t].init /\ m = ClientTypes[t].max
  OBVIOUS
<1>2. i \in Nat /\ m \in Nat /\ e \in i..i + m - 1 /\ (\A u \in Types : t < u => i + m <= ClientTypes[u].init)
  BY <1>1, TypeNumbers
<1>3. ASSUME NEW u \in Types, e \in ClientTypes[u].init..ClientTypes[u].init + ClientTypes[u].max - 1
      PROVE  u = t
  <2>1. PICK j, k : j = ClientTypes[u].init /\ k = ClientTypes[u].max
    OBVIOUS
  <2>2. j \in Nat /\ k \in Nat /\ e \in j..j + k - 1 /\ (\A v \in Types : u < v => j + k <= ClientTypes[v].init)
    BY <1>3, <2>1, TypeNumbers
  <2>3. ~(t < u)
    BY <1>2, <2>1, <2>2
  <2>4. ~(u < t)
    BY <1>1, <1>2, <2>2
  <2>5. t \in Nat /\ u \in Nat
    BY TypesAre
  <2> QED BY <2>3, <2>4, <2>5
<1> QED BY <1>3 DEF TypeOf

\* What the code sums over the types is a sum of a function.
LEMMA ClientsAre ==
  ASSUME NEW desc, NEW S \in SUBSET Types, NEW f, f = [t \in Types |-> desc[t].clients]
  PROVE  ClientsOf(desc, S) = Sum(f, S)
<1> DEFINE P(g) == g = [s \in SUBSET S |-> IF s = {} THEN 0
                                           ELSE desc[CHOOSE x \in s : TRUE].clients + g[s \ {CHOOSE x \in s : TRUE}]]
<1>1. \A s \in SUBSET S : s # {} => f[Any(s)] = desc[CHOOSE x \in s : TRUE].clients
  <2> SUFFICES ASSUME NEW s \in SUBSET S, s # {} PROVE f[Any(s)] = desc[Any(s)].clients
    BY DEF Any
  <2> QED BY AnyIn
<1>2. ASSUME NEW g PROVE P(g) <=> Iter(g, f, S)
  <2>1. [s \in SUBSET S |-> IF s = {} THEN 0 ELSE f[Any(s)] + g[s \ {Any(s)}]]
        = [s \in SUBSET S |-> IF s = {} THEN 0
                              ELSE desc[CHOOSE x \in s : TRUE].clients + g[s \ {CHOOSE x \in s : TRUE}]]
    BY <1>1 DEF Any
  <2> QED BY <2>1 DEF Iter
<1>3. ClientsOf(desc, S) = (CHOOSE g : P(g))[S]
  BY DEF ClientsOf, MapThenSumSet, MapThenFoldSet
<1>4. IsFiniteSet(S)
  BY FS_Subset, LayoutAssumption
<1>5. \E g : P(g)
  <2>1. \E g : Iter(g, f, S)
    BY <1>4, IterExists
  <2> HIDE DEF P
  <2> QED BY <1>2, <2>1
<1>6. PICK k : k = CHOOSE g : P(g)
  OBVIOUS
<1>7. P(k)
  <2> HIDE DEF P
  <2> QED BY <1>5, <1>6
<1>8. Iter(k, f, S)
  BY <1>2, <1>7
<1>9. Sum(f, S) = k[S]
  BY <1>4, <1>8, SumIs
<1> HIDE DEF P
<1> QED BY <1>3, <1>6, <1>9

\* A description that the parser accepted.
Bounded(desc) == \A t \in Types : desc[t].clients \in Nat /\ desc[t].clients <= ClientTypes[t].max

\* The clients of a type come after those of the types before it.
LEMMA CountBefore ==
  ASSUME NEW desc, Bounded(desc), NEW t \in Configurable, NEW b, b = ConfiguredBefore(desc, t)
  PROVE  /\ b \in Nat
         /\ ClientsNum(desc) \in Nat /\ StaticIndex + b + desc[t].clients <= ClientsNum(desc)
         /\ \A u \in Configurable : t < u => b + desc[t].clients <= ConfiguredBefore(desc, u)
<1>1. PICK f : f = [u \in Types |-> desc[u].clients]
  OBVIOUS
<1>2. IsFiniteSet(Configurable) /\ \A x \in Configurable : f[x] \in Nat
  BY <1>1, FS_Subset, LayoutAssumption DEF Configurable, Bounded
<1>3. ASSUME NEW u \in Types PROVE {v \in Configurable : v < u} \in SUBSET Types /\ IsFiniteSet({v \in Configurable : v < u})
  <2>1. {v \in Configurable : v < u} \in SUBSET Configurable
    OBVIOUS
  <2> QED BY <1>2, <2>1, FS_Subset DEF Configurable
<1>4. ASSUME NEW u \in Types PROVE ConfiguredBefore(desc, u) = Sum(f, {v \in Configurable : v < u})
  BY <1>1, <1>3, ClientsAre DEF ConfiguredBefore
<1>5. t \in Types /\ Configurable \subseteq Types /\ t \in Nat
  BY TypesAre DEF Configurable
<1>6. PICK T : T = {v \in Configurable : v < t}
  OBVIOUS
<1>7. T \in SUBSET Configurable /\ t \in Configurable \ T
  BY <1>5, <1>6
<1>8. Sum(f, T) \in Nat /\ Sum(f, Configurable) \in Nat /\ Sum(f, T) + f[t] <= Sum(f, Configurable)
  BY <1>2, <1>7, SumAdd, SumSubset
<1>9. ASSUME NEW u \in Configurable, t < u
      PROVE  Sum(f, T) + f[t] <= Sum(f, {v \in Configurable : v < u})
  <2>1. PICK S : S = {v \in Configurable : v < u}
    OBVIOUS
  <2>2. T \in SUBSET S /\ t \in S \ T
    <3>1. u \in Nat /\ \A v \in Configurable : v \in Nat
      BY TypesAre
    <3>2. t \in S /\ ~(t < t)
      BY <1>5, <1>9, <2>1
    <3>3. \A v \in T : v \in Configurable /\ v < t
      BY <1>6
    <3>4. ASSUME NEW v \in T PROVE v < u
      <4>1. v \in Nat /\ v < t
        BY <3>1, <3>3
      <4>2. t < u
        BY <1>9
      <4> QED BY <1>5, <3>1, <4>1, <4>2
    <3>5. T \in SUBSET S
      BY <2>1, <3>3, <3>4
    <3> QED BY <3>2, <3>3, <3>5
  <2>3. IsFiniteSet(S) /\ \A x \in S : f[x] \in Nat
    BY <1>2, <1>3, <1>5, <2>1
  <2> QED BY <2>1, <2>2, <2>3, SumAdd
<1>10. ClientsOf(desc, Configurable) = Sum(f, Configurable)
  BY <1>1, <1>5, ClientsAre
<1>11. b = Sum(f, T) /\ f[t] = desc[t].clients /\ f[t] \in Nat
  BY <1>1, <1>2, <1>4, <1>5, <1>6
<1>12. StaticIndex \in Nat
  BY TypesAre
<1>13. ClientsNum(desc) = StaticIndex + Sum(f, Configurable)
  BY <1>10 DEF ClientsNum
<1>14. \A u \in Configurable : t < u => Sum(f, T) + f[t] <= ConfiguredBefore(desc, u)
  BY <1>4, <1>5, <1>9
<1> QED BY <1>8, <1>11, <1>12, <1>13, <1>14

\* The internal ids count the static ones and the clients of the configurable types.
LEMMA NumIs ==
  ASSUME NEW desc, Bounded(desc)
  PROVE  ClientsNum(desc) \in Nat /\ StaticIndex <= ClientsNum(desc)
<1>1. PICK b, n : b = ConfiguredBefore(desc, StaticTypes) /\ n = desc[StaticTypes].clients
  OBVIOUS
<1>2. StaticTypes \in Configurable /\ StaticIndex \in Nat
  BY TypesAre
<1>3. b \in Nat /\ ClientsNum(desc) \in Nat /\ StaticIndex + b + n <= ClientsNum(desc)
  BY <1>1, <1>2, CountBefore
<1>4. n \in Nat
  BY <1>1, <1>2 DEF Bounded, Configurable
<1> QED BY <1>2, <1>3, <1>4

\* A configured id and its internal one.
IdIs(desc, e, t) ==
    /\ TypeOf(e) = t /\ e \in Nat
    /\ t \notin Configurable => e < StaticIndex /\ ClientIdPriv(desc, e) = e
    /\ t \in Configurable => /\ e >= StaticIndex
                             /\ ClientIdPriv(desc, e) = StaticIndex + (e - ClientTypes[t].init) + ConfiguredBefore(desc, t)

\* The sub-client k of a type has a place if the device tree configures more than k clients.
LEMMA Slot ==
  ASSUME NEW desc, Bounded(desc), NEW t \in Configurable, NEW k \in 0..SubClients - 1,
         NEW e, e = ClientTypes[t].init + k
  PROVE  /\ e \in Nat /\ e >= StaticIndex
         /\ ClientIdPriv(desc, e) = IF k >= desc[t].clients THEN ClientMax
                                    ELSE StaticIndex + k + ConfiguredBefore(desc, t)
<1>1. /\ SubClients \in Nat \ {0} /\ StaticIndex \in Nat /\ t \in Nat /\ StaticTypes \in Nat /\ t >= StaticTypes
      /\ t \in Types
  BY TypesAre DEF Configurable
<1>2. PICK q : q = t - StaticTypes
  OBVIOUS
<1>3. PICK p : p = SubClients * q
  OBVIOUS
<1>4. q \in Nat /\ p \in Nat /\ e = StaticIndex + p + k /\ t = StaticTypes + q
  <2>1. q \in Nat /\ t = StaticTypes + q
    BY <1>1, <1>2
  <2>2. q * SubClients = p /\ p \in Nat
    BY <1>1, <1>3, <2>1
  <2>3. e = StaticIndex + q * SubClients + k
    BY <1>1, <1>2, TypeNumbers
  <2> QED BY <1>1, <2>1, <2>2, <2>3
<1>5. e - StaticIndex = SubClients * q + k
  BY <1>1, <1>3, <1>4
<1>6. (SubClients * q + k) \div SubClients = q /\ (SubClients * q + k) % SubClients = k
  <2>1. k \in Nat /\ k < SubClients
    BY <1>1
  <2> QED BY <1>1, <1>4, <2>1, DivUnique
<1>7. ~(e < StaticIndex) /\ e \in Nat
  BY <1>1, <1>4
<1>8. StaticTypes + (e - StaticIndex) \div SubClients = t /\ (e - StaticIndex) % SubClients = k
  BY <1>4, <1>5, <1>6
<1>9. ClientIdPriv(desc, e) = IF k >= desc[t].clients THEN ClientMax
                              ELSE StaticIndex + k + ConfiguredBefore(desc, t)
  BY <1>7, <1>8 DEF ClientIdPriv
<1> QED BY <1>1, <1>7, <1>9

\* Every configured id has such an internal id.
LEMMA IdOfConfigured ==
  ASSUME NEW desc, Bounded(desc), NEW t \in Types,
         NEW e \in ClientTypes[t].init..ClientTypes[t].init + desc[t].clients - 1
  PROVE  IdIs(desc, e, t)
<1>1. PICK i, m, n : i = ClientTypes[t].init /\ m = ClientTypes[t].max /\ n = desc[t].clients
  OBVIOUS
<1>2. i \in Nat /\ m \in Nat /\ n \in Nat /\ n <= m /\ e \in i..i + n - 1
  BY <1>1, TypeNumbers DEF Bounded
<1>3. e \in i..i + m - 1 /\ e \in Nat
  BY <1>2
<1>4. TypeOf(e) = t
  BY <1>1, <1>3, TypeIs
<1>5. CASE t \notin Configurable
  <2>1. i + m <= StaticIndex /\ StaticIndex \in Nat
    BY <1>1, <1>5, TypeNumbers, TypesAre
  <2>2. e < StaticIndex
    BY <1>2, <2>1
  <2> QED BY <1>3, <1>4, <1>5, <2>2 DEF IdIs, ClientIdPriv
<1>6. CASE t \in Configurable
  <2>1. m <= SubClients /\ SubClients \in Nat
    BY <1>1, <1>6, TypeNumbers, TypesAre
  <2>2. PICK k : k = e - i
    OBVIOUS
  <2>3. k \in 0..SubClients - 1 /\ e = i + k /\ ~(k >= n)
    BY <1>2, <2>1, <2>2
  <2>4. e >= StaticIndex /\ ClientIdPriv(desc, e) = StaticIndex + k + ConfiguredBefore(desc, t)
    <3>1. /\ e \in Nat /\ e >= StaticIndex
          /\ ClientIdPriv(desc, e) = IF k >= desc[t].clients THEN ClientMax
                                     ELSE StaticIndex + k + ConfiguredBefore(desc, t)
      BY <1>1, <1>6, <2>3, Slot
    <3> QED BY <1>1, <2>3, <3>1
  <2> QED BY <1>1, <1>3, <1>4, <1>6, <2>2, <2>4 DEF IdIs
<1> QED BY <1>5, <1>6

\* hw_fence_utils_get_client_id_priv: the internal ids of the clients that a device tree
\* configures differ, and they are below the number of clients, the length of the table.
THEOREM IdsDiffer ==
  ASSUME NEW desc, Bounded(desc), NEW e \in ConfiguredIds(desc), NEW x, x = ClientIdPriv(desc, e)
  PROVE  /\ x \in Nat /\ x < ClientsNum(desc)
         /\ \A d \in ConfiguredIds(desc) : ClientIdPriv(desc, d) = x => d = e
<1> USE TypesAre
<1>1. PICK t \in Types : e \in ClientTypes[t].init..ClientTypes[t].init + desc[t].clients - 1
  BY DEF ConfiguredIds
<1>2. IdIs(desc, e, t)
  BY <1>1, IdOfConfigured
<1>4. ClientsNum(desc) \in Nat /\ StaticIndex <= ClientsNum(desc)
  BY NumIs
<1>5. CASE t \notin Configurable
  <2>1. x = e /\ e < StaticIndex /\ e \in Nat
    BY <1>2, <1>5 DEF IdIs
  <2>2. ASSUME NEW d \in ConfiguredIds(desc), ClientIdPriv(desc, d) = x
        PROVE  d = e
    <3>1. PICK u \in Types : d \in ClientTypes[u].init..ClientTypes[u].init + desc[u].clients - 1
      BY DEF ConfiguredIds
    <3>2. IdIs(desc, d, u)
      BY <3>1, IdOfConfigured
    <3>3. CASE u \in Configurable
      <4>1. PICK b, i : b = ConfiguredBefore(desc, u) /\ i = ClientTypes[u].init
        OBVIOUS
      <4>2. b \in Nat /\ i \in Nat /\ d >= i /\ x = StaticIndex + (d - i) + b /\ d \in Nat
        <5>1. b \in Nat
          BY <3>3, <4>1, CountBefore
        <5>2. i \in Nat /\ desc[u].clients \in Nat
          BY <4>1, TypeNumbers DEF Bounded
        <5>3. d >= i
          BY <3>1, <4>1, <5>2
        <5>4. d \in Nat /\ x = StaticIndex + (d - i) + b
          BY <2>2, <3>2, <3>3, <4>1 DEF IdIs
        <5> QED BY <5>1, <5>2, <5>3, <5>4
      <4> QED BY <2>1, <4>2
    <3> QED BY <2>1, <2>2, <3>2, <3>3 DEF IdIs
  <2> QED BY <1>4, <2>1, <2>2
<1>6. CASE t \in Configurable
  <2>1. PICK b, i, n : b = ConfiguredBefore(desc, t) /\ i = ClientTypes[t].init /\ n = desc[t].clients
    OBVIOUS
  <2>2. i \in Nat /\ n \in Nat /\ e \in i..i + n - 1 /\ e \in Nat
    <3>1. i \in Nat
      BY <2>1, TypeNumbers
    <3>2. n \in Nat /\ e \in i..i + n - 1
      BY <1>1, <2>1 DEF Bounded
    <3> QED BY <3>1, <3>2
  <2>3. /\ b \in Nat /\ StaticIndex + b + n <= ClientsNum(desc)
        /\ \A u \in Configurable : t < u => b + n <= ConfiguredBefore(desc, u)
    BY <1>6, <2>1, CountBefore
  <2>4. x = StaticIndex + (e - i) + b
    BY <1>2, <1>6, <2>1 DEF IdIs
  <2>5. x \in Nat /\ x < ClientsNum(desc) /\ x >= StaticIndex
    BY <1>4, <2>2, <2>3, <2>4
  <2>6. ASSUME NEW d \in ConfiguredIds(desc), ClientIdPriv(desc, d) = x
        PROVE  d = e
    <3>1. PICK u \in Types : d \in ClientTypes[u].init..ClientTypes[u].init + desc[u].clients - 1
      BY DEF ConfiguredIds
    <3>2. IdIs(desc, d, u)
      BY <3>1, IdOfConfigured
    <3>3. u \in Configurable
      BY <2>5, <2>6, <3>2 DEF IdIs
    <3>4. PICK a, j, m : a = ConfiguredBefore(desc, u) /\ j = ClientTypes[u].init /\ m = desc[u].clients
      OBVIOUS
    <3>5. j \in Nat /\ m \in Nat /\ d \in j..j + m - 1 /\ d \in Nat
      BY <3>1, <3>4, TypeNumbers DEF Bounded
    <3>6. /\ a \in Nat
          /\ \A v \in Configurable : u < v => a + m <= ConfiguredBefore(desc, v)
      BY <3>3, <3>4, CountBefore
    <3>7. x = StaticIndex + (d - j) + a
      BY <2>6, <3>2, <3>3, <3>4 DEF IdIs
    <3>8. ~(t < u)
      <4> SUFFICES ASSUME t < u PROVE FALSE
        OBVIOUS
      <4>1. b + n <= a
        BY <2>3, <3>3, <3>4
      <4> QED BY <2>2, <2>3, <2>4, <3>5, <3>6, <3>7, <4>1
    <3>9. ~(u < t)
      <4> SUFFICES ASSUME u < t PROVE FALSE
        OBVIOUS
      <4>1. a + m <= b
        BY <1>6, <2>1, <3>6
      <4> QED BY <2>2, <2>3, <2>4, <3>5, <3>6, <3>7, <4>1
    <3>10. t \in Nat /\ u \in Nat
      BY <1>6, <3>3
    <3>11. t = u
      BY <3>8, <3>9, <3>10
    <3>12. a = b /\ i = j
      BY <2>1, <3>4, <3>11
    <3> QED BY <2>2, <2>3, <2>4, <3>5, <3>7, <3>12
  <2> QED BY <1>4, <2>5, <2>6
<1> QED BY <1>5, <1>6

\* The probe keeps the types.
LEMMA ProbeTypeStep ==
  ASSUME TypeOK, DrvType, ProbeInit \/ Probe
  PROVE  TypeOK'
<1>1. UNCHANGED <<tree, peer, event, share, owners, parcel, client>>
  BY ProbeMoves DEF vmVars, clientVars
<1>2. drv'.ready <=> probe' = "done"
  <2>1. Restart \/ Parse \/ Counted \/ Mapped \/ GoesOn
    BY ProbeMoves
  <2>2. drv.ready <=> probe = "done"
    BY DEF TypeOK
  <2>3. CASE Restart
    BY <2>3 DEF Restart, NewDriver
  <2>4. CASE Parse
    BY <2>2, <2>4 DEF Parse, Kept, Fields, Layout, NewDriver
  <2>5. CASE Counted \/ Mapped \/ GoesOn
    BY <2>2, <2>5 DEF Counted, Mapped, GoesOn, Kept, Fields
  <2> QED BY <2>1, <2>3, <2>4, <2>5
<1>3. probes' \in 0..MaxProbes
  <2>1. probes' = probes \/ (probes < MaxProbes /\ probes' = probes + 1)
    BY DEF ProbeInit, Probe, ParseDtProps, MapMemory, RegisterNotifier, InitCtrlQueue, InitLocks, InitTable,
           MapIpcc, MapQtime, RegisterDebugfs, InitVirq, SetReady
  <2> QED BY <2>1, ProbeAssumption DEF TypeOK
<1>4. faults' \in 0..MaxFaults
  <2>1. faults' = faults \/ (faults < MaxFaults /\ faults' = faults + 1)
    BY DEF ProbeInit, Probe, ParseDtProps, MapMemory, RegisterNotifier, InitCtrlQueue, InitLocks, InitTable,
           MapIpcc, EnableSignaling, MapQtime, RegisterDebugfs, InitVirq, SetReady, Fault, NoFault
  <2> QED BY <2>1, ProbeAssumption DEF TypeOK
<1>5. notifier' \in {"none", "live", "stale"}
  <2>1. \/ notifier' = notifier
        \/ notifier' = IF notifier = "stale" THEN "stale" ELSE "live"
        \/ notifier' = IF notifier = "live" THEN "stale" ELSE notifier
    BY DEF ProbeInit, Probe, ParseDtProps, MapMemory, RegisterNotifier, InitCtrlQueue, InitLocks, InitTable,
           MapIpcc, MapQtime, RegisterDebugfs, InitVirq, SetReady, Fail
  <2> QED BY <2>1 DEF TypeOK
<1>6. probe' \in {"parse", "memory", "notifier", "ctrlq", "locks", "table", "ipcc", "qtime",
                  "debugfs", "virq", "ready", "done", "failed", "oops"}
  BY DEF ProbeInit, Probe, ParseDtProps, MapMemory, RegisterNotifier, InitCtrlQueue, InitLocks, InitTable,
         MapIpcc, EnableSignaling, MapQtime, RegisterDebugfs, InitVirq, SetReady, Fail
<1> QED BY <1>1, <1>2, <1>3, <1>4, <1>5, <1>6 DEF TypeOK

\* The peer and the callback of its notifier keep them.
LEMMA PeerTypeStep ==
  ASSUME TypeOK, DrvType, PeerStarts \/ PeerGoes \/ Callback
  PROVE  TypeOK'
<1>1. UNCHANGED <<tree, probe, notifier, probes, client>> /\ drv'["ready"] = drv["ready"]
  BY PeerMoves DEF clientVars, Kept, Fields
<1>2. faults' \in 0..MaxFaults
  <2>1. faults' = faults \/ (faults < MaxFaults /\ faults' = faults + 1)
    BY DEF PeerStarts, PeerGoes, Callback, IgnoreEvent, AssignMem, AllocDescriptors, ShareMem, Fault, NoFault
  <2> QED BY <2>1, ProbeAssumption DEF TypeOK
<1>3. /\ peer' \in BOOLEAN /\ parcel' \in BOOLEAN
      /\ event' \in {"none", "READY", "RESET"} /\ share' \in {"idle", "leaked", "acl", "share"}
  BY DEF TypeOK, PeerStarts, PeerGoes, Callback, IgnoreEvent, AssignMem, AllocDescriptors, ShareMem, vmVars
<1>4. owners' \in {{Self}, {Self, Peer}}
  BY DEF TypeOK, PeerStarts, PeerGoes, Callback, IgnoreEvent, AssignMem, AllocDescriptors, ShareMem, GiveBack
<1> QED BY <1>1, <1>2, <1>3, <1>4 DEF TypeOK

\* All steps keep them.
LEMMA TypeStep == TypeOK /\ DrvType /\ [Next]_vars => TypeOK'
<1>1. TypeOK /\ UNCHANGED vars => TypeOK'
  BY DEF TypeOK, vars, probeVars, vmVars, clientVars
<1> QED BY <1>1, ProbeTypeStep, PeerTypeStep, ClientTypeStep, NextMoves

\* The parser accepts no type with more clients than ids.
LEMMA TreeBounded ==
  ASSUME tree \in Trees, ValidTypes
  PROVE  Bounded(TreeDesc)
<1> SUFFICES ASSUME NEW t \in Types
             PROVE  TreeDesc[t].clients \in Nat /\ TreeDesc[t].clients <= ClientTypes[t].max
  BY DEF Bounded
<1>1. PICK p, y : p = tree.types[t] /\ y = ClientTypes[t]
  OBVIOUS
<1>2. (p = NoProp \/ p.clients \in Nat) /\ y.clients \in Nat
  BY <1>1, ProbeAssumption
<1>3. PICK d : d = Desc(y, p, tree.queue)
  OBVIOUS
<1>4. d.clients \in Nat
  BY <1>2, <1>3 DEF Desc
<1>5. d.clients <= y.max
  BY <1>1, <1>3 DEF ValidTypes, ValidDesc
<1>6. TreeDesc[t] = d
  BY <1>1, <1>3 DEF TreeDesc
<1> QED BY <1>1, <1>4, <1>5, <1>6

\* What the driver computed stays as it is, until the next probe.
Computed == Fields \ {"tableEntries", "queueEntries", "clients", "ipc", "lockCnt", "tableCnt",
                      "qtime", "virq", "ready", "vmReady", "dpuInit"}

\* What it computed does not depend on the other fields.
LEMMA SizesKept ==
  ASSUME Sizes, tree' = tree, \A f \in Computed : drv'[f] = drv[f]
  PROVE  Sizes'
<1>1. /\ drv'["tableSize"] = drv["tableSize"] /\ drv'["ctrlSize"] = drv["ctrlSize"] /\ drv'["desc"] = drv["desc"]
      /\ drv'["rxqNum"] = drv["rxqNum"] /\ drv'["clientsNum"] = drv["clientsNum"]
      /\ drv'["queueSize"] = drv["queueSize"] /\ drv'["used"] = drv["used"]
  BY DEF Computed, Fields
<1>2. TreeTableSize' = TreeTableSize /\ TreeCtrlSize' = TreeCtrlSize /\ TreeDesc' = TreeDesc
  BY DEF TreeTableSize, TreeCtrlSize, TreeDesc
<1>3. TreeBase' = TreeBase
  BY <1>2 DEF TreeBase
<1>4. ValidTable' /\ ValidCtrlQueue' /\ ValidTypes'
  BY DEF Sizes, ValidTable, ValidCtrlQueue, ValidTypes
<1>5. PICK a, b, q, u : /\ a = RxqClientsNum(TreeDesc) /\ b = ClientsNum(TreeDesc)
                        /\ q = ClientQueueSize(TreeDesc, TreeBase) /\ u = UsedMemSize(TreeDesc, TreeBase)
  OBVIOUS
<1>6. /\ a = RxqClientsNum(TreeDesc') /\ b = ClientsNum(TreeDesc')
      /\ q = ClientQueueSize(TreeDesc', TreeBase') /\ u = UsedMemSize(TreeDesc', TreeBase')
  BY <1>2, <1>3, <1>5
<1> QED BY <1>1, <1>2, <1>4, <1>5, <1>6 DEF Sizes

\* The layout that the parser leaves, with no client registered.
LEMMA SizesMade ==
  ASSUME FullTree, ValidTable, ValidCtrlQueue, ValidTypes, tree' = tree, drv' = Layout
  PROVE  Sizes' /\ drv'.clients = [id \in 0..ClientsNum(TreeDesc) - 1 |-> Nobody]
<1>1. PICK c, q, u : /\ c = [id \in 0..ClientsNum(TreeDesc) - 1 |-> Nobody]
                     /\ q = ClientQueueSize(TreeDesc, TreeBase) /\ u = UsedMemSize(TreeDesc, TreeBase)
  OBVIOUS
<1>2. PICK d, s, k, r, n : /\ d = TreeDesc /\ s = TreeTableSize /\ k = TreeCtrlSize
                           /\ r = RxqClientsNum(TreeDesc) /\ n = ClientsNum(TreeDesc)
  OBVIOUS
<1>3. drv' = [NewDriver EXCEPT !.tableEntries = tree.table, !.tableSize = s,
                          !.queueEntries = tree.queue, !.ctrlSize = k, !.desc = d,
                          !.rxqNum = r, !.clientsNum = n,
                          !.queueSize = q, !.used = u, !.clients = c]
  BY <1>1, <1>2 DEF Layout, TreeDesc, TreeTableSize, TreeCtrlSize, TreeBase
<1>4. /\ drv'.tableSize = s /\ drv'.ctrlSize = k /\ drv'.desc = d /\ drv'.rxqNum = r /\ drv'.clientsNum = n
      /\ drv'.queueSize = q /\ drv'.used = u /\ drv'.clients = c
  BY <1>3 DEF NewDriver
<1>5. TreeTableSize' = TreeTableSize /\ TreeCtrlSize' = TreeCtrlSize /\ TreeDesc' = TreeDesc
  BY DEF TreeTableSize, TreeCtrlSize, TreeDesc
<1>6. TreeBase' = TreeBase
  BY <1>5 DEF TreeBase
<1>7. ValidTable' /\ ValidCtrlQueue' /\ ValidTypes'
  BY DEF ValidTable, ValidCtrlQueue, ValidTypes
<1>8. /\ r = RxqClientsNum(TreeDesc') /\ n = ClientsNum(TreeDesc')
      /\ q = ClientQueueSize(TreeDesc', TreeBase') /\ u = UsedMemSize(TreeDesc', TreeBase')
      /\ d = TreeDesc' /\ s = TreeTableSize' /\ k = TreeCtrlSize'
  BY <1>1, <1>2, <1>5, <1>6
<1> QED BY <1>1, <1>4, <1>7, <1>8 DEF Sizes

-----------------------------------------------------------------------------
(* The layout, step by step *)

\* The conjuncts of LaidOut.
Filled == probe \notin Before /\ FullTree =>
    /\ Sizes
    /\ drv.clients \in [0..ClientsNum(TreeDesc) - 1 -> Callers \cup {Nobody}]
    /\ probe # "memory" => drv.used <= tree.size
Empty == probe \in Before \/ ~FullTree => drv.desc = NoProp
Locks == probe \in AfterLocks => drv.lockCnt = (LocksSize(drv.rxqNum) % U32) \div LockSize
Table == probe \in AfterLocks \ {"table"} => drv.tableCnt = drv.tableSize \div FenceSize
Rows == drv.ipc = NoTable \/ /\ probe \in Ends
                             /\ \/ /\ tree.ipcVersion \in DOMAIN IpcBase \ {ConfigVersion}
                                   /\ drv.ipc = IpcBase[tree.ipcVersion]
                                \/ drv.ipc = ConfigurableIpc

\* LaidOut is their conjunction.
LEMMA LaidOutIs == LaidOut <=> Filled /\ Empty /\ Locks /\ Table /\ Rows
BY DEF LaidOut, Filled, Empty, Locks, Table, Rows

\* ConfigurableIpc of what it reads.
RowsOf(desc, num) ==
    LET base == IpcBase[ConfigVersion]
        sub(id) == CHOOSE e \in ConfiguredIds(desc) : ClientIdPriv(desc, e) = id
    IN  [id \in 0..num - 1 |->
            IF id < StaticIndex THEN base[id]
            ELSE [base[StaticIndex + TypeOf(sub(id)) - StaticTypes]
                    EXCEPT !.signal = sub(id) - ClientTypes[TypeOf(sub(id))].init]]

\* The generated ipc table depends on the device tree alone.
LEMMA RowsKept ==
  ASSUME drv'["desc"] = drv["desc"], drv'["clientsNum"] = drv["clientsNum"]
  PROVE  ConfigurableIpc' = ConfigurableIpc
<1>1. ConfigurableIpc = RowsOf(drv["desc"], drv["clientsNum"])
  BY DEF ConfigurableIpc, RowsOf, RowOfType
<1>2. ConfigurableIpc' = RowsOf(drv'["desc"], drv'["clientsNum"])
  BY DEF ConfigurableIpc, RowsOf, RowOfType
<1> QED BY <1>1, <1>2

\* What no step of a client and of the peer changes.
Still == /\ tree' = tree /\ probe' = probe /\ DrvType'
         /\ \A g \in Fields \ {"clients", "dpuInit", "vmReady"} : drv'[g] = drv[g]
         /\ \/ drv'["clients"] = drv["clients"]
            \/ \E i, c : /\ c \in Callers \cup {Nobody}
                         /\ drv'["clients"] = [drv["clients"] EXCEPT ![i] = c]

\* The steps of the clients, of the peer and of the callback are such steps.
LEMMA StillMoves ==
  ASSUME DrvType, \/ PeerStarts \/ PeerGoes \/ Callback
                  \/ \E c \in Callers : Register(c)
                  \/ UNCHANGED vars
  PROVE  Still
<1>1. CASE PeerStarts \/ PeerGoes \/ Callback
  BY <1>1, PeerMoves DEF Still, Kept, Fields
<1>2. ASSUME NEW c \in Callers, Register(c)
      PROVE  Still
  <2>1. Opens(c) \/ Refused(c) \/ Sets(c) \/ Signals(c) \/ Enables(c) \/ Closes(c)
    BY <1>2, ClientMoves
  <2>2. tree' = tree /\ probe' = probe
    BY <1>2, ClientMoves
  <2>3. CASE Opens(c) \/ Closes(c)
    <3>1. PICK i : i = IdOf(c)
      OBVIOUS
    <3>2. /\ Kept({"clients"})
          /\ \E d \in Callers \cup {Nobody} : drv'["clients"] = [drv["clients"] EXCEPT ![i] = d]
      BY <2>3, <3>1 DEF Opens, Closes
    <3> QED BY <2>2, <3>2 DEF Still, Kept, Fields
  <2>4. CASE Refused(c) \/ Sets(c) \/ Signals(c) \/ Enables(c)
    <3>1. drv' = drv => DrvType'
      BY DEF DrvType
    <3> QED BY <2>2, <2>4, <3>1 DEF Refused, Sets, Signals, Enables, Still, Kept, Fields
  <2> QED BY <2>1, <2>3, <2>4
<1>3. CASE UNCHANGED vars
  BY <1>3 DEF vars, probeVars, Still, DrvType
<1> QED BY <1>1, <1>2, <1>3

\* They keep the layout.
LEMMA LaidOutStill ==
  ASSUME LaidOut, Still
  PROVE  LaidOut'
<1>1. tree' = tree /\ probe' = probe /\ (FullTree' <=> FullTree) /\ TreeDesc' = TreeDesc
  BY DEF Still, FullTree, TreeDesc
<1>2. \A f \in Computed : drv'[f] = drv[f]
  BY DEF Still, Computed, Fields
<1>3. /\ drv'["used"] = drv["used"] /\ drv'["desc"] = drv["desc"] /\ drv'["ipc"] = drv["ipc"]
      /\ drv'["lockCnt"] = drv["lockCnt"] /\ drv'["tableCnt"] = drv["tableCnt"] /\ drv'["rxqNum"] = drv["rxqNum"]
      /\ drv'["tableSize"] = drv["tableSize"] /\ drv'["clientsNum"] = drv["clientsNum"]
  BY DEF Still, Fields
<1>4. Filled'
  <2> SUFFICES ASSUME probe \notin Before, FullTree
               PROVE  /\ Sizes'
                      /\ drv'.clients \in [0..ClientsNum(TreeDesc') - 1 -> Callers \cup {Nobody}]
                      /\ probe # "memory" => drv'.used <= tree.size
    BY <1>1 DEF Filled
  <2>1. /\ Sizes /\ drv.clients \in [0..ClientsNum(TreeDesc) - 1 -> Callers \cup {Nobody}]
        /\ probe # "memory" => drv.used <= tree.size
    BY LaidOutIs DEF Filled
  <2>2. Sizes'
    BY <1>1, <1>2, <2>1, SizesKept
  <2>3. PICK n : n = ClientsNum(TreeDesc)
    OBVIOUS
  <2>4. n = ClientsNum(TreeDesc')
    BY <1>1, <2>3
  <2>5. drv'.clients \in [0..n - 1 -> Callers \cup {Nobody}]
    BY <2>1, <2>3 DEF Still
  <2> QED BY <1>3, <2>1, <2>2, <2>4, <2>5
<1>5. Empty' /\ Locks' /\ Table'
  BY <1>1, <1>3, LaidOutIs DEF Empty, Locks, Table
<1>6. Rows'
  BY <1>1, <1>3, LaidOutIs, RowsKept DEF Rows
<1>7. LaidOut' <=> (Filled' /\ Empty' /\ Locks' /\ Table' /\ Rows')
  BY DEF LaidOut, Filled, Empty, Locks, Table, Rows
<1> QED BY <1>4, <1>5, <1>6, <1>7

\* One field more, or none, on the way to the end.
LEMMA LaidOutOn ==
  ASSUME LaidOut, Counted \/ Mapped \/ GoesOn, tree' = tree, probe # "done"
  PROVE  LaidOut'
<1>1. (FullTree' <=> FullTree) /\ TreeDesc' = TreeDesc
  BY DEF FullTree, TreeDesc
<1>2. \A f \in Computed \cup {"clients"} : drv'[f] = drv[f]
  BY DEF Counted, Mapped, GoesOn, Kept, Computed, Fields
<1>3. /\ drv'["used"] = drv["used"] /\ drv'["desc"] = drv["desc"] /\ drv'["clients"] = drv["clients"]
      /\ drv'["rxqNum"] = drv["rxqNum"] /\ drv'["tableSize"] = drv["tableSize"]
      /\ drv'["clientsNum"] = drv["clientsNum"]
  BY <1>2 DEF Computed, Fields
<1>4. probe \notin Before /\ probe' \notin Before
  BY DEF Counted, Mapped, GoesOn, Before
<1>5. Filled'
  <2> SUFFICES ASSUME FullTree
               PROVE  /\ Sizes'
                      /\ drv'.clients \in [0..ClientsNum(TreeDesc') - 1 -> Callers \cup {Nobody}]
                      /\ drv'.used <= tree.size
    BY <1>1 DEF Filled
  <2>1. /\ Sizes /\ drv.clients \in [0..ClientsNum(TreeDesc) - 1 -> Callers \cup {Nobody}]
        /\ probe # "memory" => drv.used <= tree.size
    BY <1>4, LaidOutIs DEF Filled
  <2>2. Sizes'
    BY <1>2, <2>1, SizesKept
  <2>3. drv.used <= tree.size
    BY <2>1 DEF Counted, Mapped, GoesOn, FitsCarveout
  <2>4. PICK n : n = ClientsNum(TreeDesc)
    OBVIOUS
  <2>5. n = ClientsNum(TreeDesc')
    BY <1>1, <2>4
  <2> QED BY <1>3, <2>1, <2>2, <2>3, <2>4, <2>5
<1>6. Empty'
  BY <1>1, <1>3, <1>4, LaidOutIs DEF Empty
<1>7. Locks'
  BY <1>3, LaidOutIs DEF Locks, Counted, Mapped, GoesOn, AfterLocks, AtIpc, Ends, Kept, Fields
<1>8. Table'
  BY <1>3, LaidOutIs DEF Table, Counted, Mapped, GoesOn, AfterLocks, AtIpc, Ends, Kept, Fields
<1>9. Rows'
  <2>1. ConfigurableIpc' = ConfigurableIpc
    BY <1>3, RowsKept
  <2>2. CASE probe \in Ends
    <3>1. drv'["ipc"] = drv["ipc"] /\ probe' \in Ends
      BY <2>2 DEF Counted, Mapped, GoesOn, Ends, Kept, Fields
    <3> QED BY <2>1, <2>2, <3>1, LaidOutIs DEF Rows
  <2>3. CASE probe \notin Ends
    <3>1. drv["ipc"] = NoTable
      BY <2>3, LaidOutIs DEF Rows
    <3>2. CASE Mapped
      BY <2>1, <3>1, <3>2 DEF Rows, Mapped, Ends
    <3>3. CASE Counted \/ GoesOn
      <4>1. drv'["ipc"] = drv["ipc"]
        BY <3>3 DEF Counted, GoesOn, Kept, Fields
      <4> QED BY <3>1, <4>1 DEF Rows
    <3> QED BY <3>2, <3>3
  <2> QED BY <2>2, <2>3
<1>10. LaidOut' <=> (Filled' /\ Empty' /\ Locks' /\ Table' /\ Rows')
  BY DEF LaidOut, Filled, Empty, Locks, Table, Rows
<1> QED BY <1>5, <1>6, <1>7, <1>8, <1>9, <1>10

\* Every step keeps it.
LEMMA LaidOutStep ==
  ASSUME LaidOut, DrvType, [Next]_vars
  PROVE  LaidOut'
<1>1. LaidOut' <=> (Filled' /\ Empty' /\ Locks' /\ Table' /\ Rows')
  BY DEF LaidOut, Filled, Empty, Locks, Table, Rows
<1>2. ASSUME ProbeInit \/ Probe
      PROVE  LaidOut'
  <2>1. /\ Restart \/ Parse \/ Counted \/ Mapped \/ GoesOn
        /\ tree' = tree /\ probe # "done"
    BY <1>2, ProbeMoves
  <2>2. CASE Restart
    <3>1. probe' \in Before /\ drv'.desc = NoProp /\ drv'.ipc = NoTable
      BY <2>2 DEF Restart, Before, NewDriver
    <3> QED BY <1>1, <3>1 DEF Filled, Empty, Locks, Table, Rows, Before, AfterLocks, AtIpc, Ends
  <2>3. CASE Parse
    <3>1. (FullTree' <=> FullTree) /\ TreeDesc' = TreeDesc
      BY <2>1 DEF FullTree, TreeDesc
    <3>2. CASE ~FullTree /\ Kept({"tableEntries", "tableSize"})
      <4>1. drv'["desc"] = drv["desc"] /\ drv'["ipc"] = drv["ipc"]
        BY <3>2 DEF Kept, Fields
      <4>2. drv.desc = NoProp /\ drv.ipc = NoTable
        BY <2>3, LaidOutIs DEF Parse, Empty, Rows, Before, Ends
      <4> QED BY <1>1, <2>3, <3>1, <3>2, <4>1, <4>2
              DEF Parse, Filled, Empty, Locks, Table, Rows, Before, AfterLocks, AtIpc, Ends
    <3>3. CASE FullTree /\ ValidTable /\ ValidCtrlQueue /\ ValidTypes /\ drv' = Layout
      <4>1. Sizes' /\ drv'.clients = [id \in 0..ClientsNum(TreeDesc) - 1 |-> Nobody]
        BY <2>1, <3>3, SizesMade
      <4>2. PICK n : n = ClientsNum(TreeDesc)
        OBVIOUS
      <4>3. n = ClientsNum(TreeDesc')
        BY <3>1, <4>2
      <4>4. probe' = "memory"
        BY <2>3 DEF Parse
      <4>5. drv'.clients \in [0..n - 1 -> Callers \cup {Nobody}]
        BY <4>1, <4>2
      <4>6. drv'.ipc = NoTable
        BY <3>3 DEF Layout, NewDriver
      <4>7. Filled'
        BY <3>1, <4>1, <4>3, <4>4, <4>5 DEF Filled
      <4> QED BY <1>1, <3>1, <3>3, <4>4, <4>6, <4>7
              DEF Empty, Locks, Table, Rows, Before, AfterLocks, AtIpc, Ends
    <3> QED BY <2>3, <3>2, <3>3 DEF Parse
  <2> QED BY <2>1, <2>2, <2>3, LaidOutOn
<1> QED BY <1>2, StillMoves, LaidOutStill, NextMoves

\* Every step keeps the order of clearing, notifier and sharing.
LEMMA MemoryStep ==
  ASSUME MemoryInv, TypeOK, [Next]_vars
  PROVE  MemoryInv'
<1>1. ASSUME ProbeInit \/ Probe
      PROVE  MemoryInv'
  <2>1. CASE ProbeInit \/ ParseDtProps
    BY <2>1 DEF ProbeInit, ParseDtProps, Fail, MemoryInv, TypeOK, vmVars
  <2>2. CASE MapMemory
    <3>1. /\ notifier # "live" /\ notifier' = notifier /\ UNCHANGED vmVars
          /\ probe' \in {"notifier", "failed"}
      <4>1. probe = "memory" /\ UNCHANGED vmVars
        BY <2>2 DEF MapMemory
      <4>2. notifier # "live"
        BY <4>1 DEF MemoryInv
      <4>3. (UNCHANGED notifier /\ probe' = "notifier") \/ Fail
        BY <2>2 DEF MapMemory
      <4> QED BY <4>1, <4>2, <4>3 DEF Fail
    <3>2. mem' = [clear |-> TRUE, ctrl |-> FALSE, clients |-> {}] \/ (mem' = mem /\ probe' = "failed")
      BY <2>2 DEF MapMemory, ClearMemory, Fail
    <3>3. notifier' = "none" => event' = "none" /\ owners' = {Self} /\ share' = "idle"
      BY <3>1 DEF MemoryInv, vmVars
    <3>4. CASE mem' = [clear |-> TRUE, ctrl |-> FALSE, clients |-> {}]
      <4>2. mem'.clear = TRUE /\ mem'.ctrl = FALSE /\ mem'.clients = {}
        BY <3>4
      <4>3. mem' = [clear |-> mem'.clear, ctrl |-> mem'.ctrl, clients |-> mem'.clients]
        BY <3>4, <4>2
      <4> QED BY <3>1, <3>3, <4>2, <4>3 DEF MemoryInv
    <3>5. CASE mem' = mem /\ probe' = "failed"
      BY <3>1, <3>3, <3>5 DEF MemoryInv
    <3> QED BY <3>2, <3>4, <3>5
  <2>3. CASE RegisterNotifier
    BY <2>3 DEF RegisterNotifier, Fail, MemoryInv, TypeOK, vmVars
  <2>4. CASE InitCtrlQueue
    BY <2>4 DEF InitCtrlQueue, Fail, MemoryInv, TypeOK, vmVars
  <2>5. CASE InitLocks \/ InitTable \/ MapIpcc \/ MapQtime \/ RegisterDebugfs \/ InitVirq \/ SetReady
    BY <2>5 DEF InitLocks, InitTable, MapIpcc, EnableSignaling, MapQtime, RegisterDebugfs, InitVirq, SetReady, Fail,
                MemoryInv, TypeOK, vmVars
  <2> QED BY <1>1, <2>1, <2>2, <2>3, <2>4, <2>5 DEF Probe
<1>2. CASE PeerStarts \/ PeerGoes \/ Callback
  BY <1>2 DEF PeerStarts, PeerGoes, Callback, IgnoreEvent, AssignMem, AllocDescriptors, ShareMem, MemoryInv, TypeOK,
              probeVars, vmVars
<1>3. ASSUME NEW c \in Callers, Register(c)
      PROVE  MemoryInv'
  <2>1. mem' = mem \/ mem' = [mem EXCEPT !.clients = @ \cup {c}]
    BY <1>3 DEF Register, StartRegister, SetUp, InitSignal, EnableDpuSignaling, Cleanup, probeVars
  <2>2. UNCHANGED <<probe, notifier, event, owners, share>>
    BY <1>3 DEF Register, StartRegister, SetUp, InitSignal, EnableDpuSignaling, Cleanup, probeVars, vmVars
  <2> QED BY <2>1, <2>2 DEF MemoryInv
<1>4. CASE UNCHANGED vars
  BY <1>4 DEF vars, probeVars, vmVars, MemoryInv
<1> QED BY <1>1, <1>2, <1>3, <1>4, NextMoves

\* The internal id of a caller, if it is not refused.
LEMMA CallerId ==
  ASSUME NEW desc, Bounded(desc), NEW c \in Callers, NEW x, x = ClientIdPriv(desc, c)
  PROVE  /\ x \in Nat
         /\ x < ClientMax => /\ x < ClientsNum(desc)
                             /\ c >= StaticIndex => c \in ConfiguredIds(desc)
         /\ c < StaticIndex => x = c
<1> USE TypesAre
<1>1. c \in Nat
  BY ProbeAssumption
<1>3. ClientsNum(desc) \in Nat /\ StaticIndex <= ClientsNum(desc)
  BY NumIs
<1>4. CASE c < StaticIndex
  <2>1. x = c
    BY <1>4 DEF ClientIdPriv
  <2>2. ~(c >= StaticIndex)
    BY <1>1, <1>4
  <2> QED BY <1>1, <1>3, <1>4, <2>1, <2>2
<1>5. CASE ~(c < StaticIndex)
  <2>1. PICK t \in Configurable : c - ClientTypes[t].init \in 0..SubClients - 1
    BY <1>5, ProbeAssumption
  <2>2. PICK i, k, n : i = ClientTypes[t].init /\ k = c - i /\ n = desc[t].clients
    OBVIOUS
  <2>3. t \in Types
    BY DEF Configurable
  <2>4. i \in Nat /\ k \in 0..SubClients - 1 /\ c = i + k /\ n \in Nat
    <3>1. i \in Nat
      BY <2>2, <2>3, TypeNumbers
    <3>2. n \in Nat
      BY <2>2, <2>3 DEF Bounded
    <3> QED BY <1>1, <2>1, <2>2, <3>1, <3>2
  <2>5. x = IF k >= n THEN ClientMax ELSE StaticIndex + k + ConfiguredBefore(desc, t)
    <3>1. /\ c \in Nat /\ c >= StaticIndex
          /\ ClientIdPriv(desc, c) = IF k >= desc[t].clients THEN ClientMax
                                     ELSE StaticIndex + k + ConfiguredBefore(desc, t)
      <4>1. c = ClientTypes[t].init + k
        BY <2>2, <2>4
      <4>2. k \in 0..SubClients - 1
        BY <2>4
      <4> QED BY <4>1, <4>2, Slot, Zenon
    <3> QED BY <2>2, <3>1
  <2>6. CASE k >= n
    BY <1>5, <2>5, <2>6
  <2>7. CASE ~(k >= n)
    <3>1. PICK b : b = ConfiguredBefore(desc, t)
      OBVIOUS
    <3>2. b \in Nat /\ StaticIndex + b + n <= ClientsNum(desc)
      BY <2>2, <3>1, CountBefore
    <3>3. x = StaticIndex + k + b
      BY <2>5, <2>7, <3>1
    <3>4. c \in i..i + n - 1
      BY <2>4, <2>7
    <3>5. c \in ConfiguredIds(desc)
      BY <2>2, <2>3, <3>4 DEF ConfiguredIds
    <3> QED BY <1>3, <1>5, <2>4, <2>7, <3>2, <3>3, <3>5
  <2> QED BY <2>6, <2>7
<1> QED BY <1>4, <1>5

\* What a ready driver knows if it has types.
LEMMA DriverIs ==
  ASSUME TypeOK, LaidOut, drv.ready, drv.desc # NoProp
  PROVE  /\ probe = "done" /\ FullTree /\ Sizes /\ Bounded(drv.desc)
         /\ drv.clients \in [0..ClientsNum(drv.desc) - 1 -> Callers \cup {Nobody}]
         /\ drv.used <= tree.size
<1>1. probe = "done"
  BY DEF TypeOK
<1>2. FullTree
  BY LaidOutIs DEF Empty
<1>3. /\ Sizes /\ drv.clients \in [0..ClientsNum(TreeDesc) - 1 -> Callers \cup {Nobody}]
      /\ drv.used <= tree.size
  BY <1>1, <1>2, LaidOutIs DEF Filled, Before
<1>4. drv.desc = TreeDesc /\ ValidTypes
  BY <1>3 DEF Sizes
<1>5. Bounded(TreeDesc)
  BY <1>4, TreeBounded DEF TypeOK
<1>6. PICK d : d = TreeDesc
  OBVIOUS
<1> QED BY <1>1, <1>2, <1>3, <1>4, <1>5, <1>6

\* Every step keeps what is known of the clients.
LEMMA ClientStep ==
  ASSUME ProbeInv, [Next]_vars
  PROVE  ClientInv'
<1> USE DEF ProbeInv
<1>1. ASSUME ProbeInit \/ Probe
      PROVE  ClientInv'
  <2>1. ~drv.ready
    BY <1>1, ProbeMoves DEF TypeOK
  <2>2. \A c \in Callers : client[c] = "none"
    BY <2>1 DEF ClientInv
  <2>3. client' = client
    BY <1>1, ProbeMoves DEF clientVars
  <2>4. ~drv'.dpuInit
    <3>1. ~drv["dpuInit"]
      BY <2>1 DEF ClientInv
    <3>2. Restart \/ Parse \/ Counted \/ Mapped \/ GoesOn
      BY <1>1, ProbeMoves
    <3>3. drv'["dpuInit"] = drv["dpuInit"] \/ drv' = NewDriver \/ drv' = Layout
      BY <3>2 DEF Restart, Parse, Counted, Mapped, GoesOn, Kept, Fields
    <3>4. NewDriver.dpuInit = FALSE
      BY DEF NewDriver
    <3>5. Layout.dpuInit = FALSE
      BY DEF Layout, NewDriver
    <3> QED BY <3>1, <3>3, <3>4, <3>5
  <2> QED BY <2>2, <2>3, <2>4 DEF ClientInv, Active, Placed
<1>2. ASSUME client' = client, tree' = tree, \A f \in Fields \ {"vmReady"} : drv'[f] = drv[f]
      PROVE  ClientInv'
  <2>1. /\ drv'["dpuInit"] = drv["dpuInit"] /\ drv'["ready"] = drv["ready"] /\ drv'["desc"] = drv["desc"]
        /\ drv'["clients"] = drv["clients"] /\ drv'["ipc"] = drv["ipc"] /\ drv'["queueSize"] = drv["queueSize"]
    BY <1>2 DEF Fields
  <2>2. ASSUME NEW c \in Callers PROVE IdOf(c)' = IdOf(c)
    BY <2>1 DEF IdOf
  <2>3. ASSUME NEW x PROVE GoodRow(x)' <=> GoodRow(x)
    BY <2>1 DEF GoodRow
  <2> QED BY <1>2, <2>1, <2>2, <2>3 DEF ClientInv, Active, Placed
<1>3. CASE PeerStarts \/ PeerGoes \/ Callback
  BY <1>2, <1>3, PeerMoves DEF Kept, clientVars
<1>4. CASE UNCHANGED vars
  BY <1>2, <1>4 DEF vars, probeVars, clientVars
<1>5. ASSUME NEW c \in Callers, Register(c)
      PROVE  ClientInv'
  <2>1. /\ Opens(c) \/ Refused(c) \/ Sets(c) \/ Signals(c) \/ Enables(c) \/ Closes(c)
    BY <1>5, ClientMoves
  <2>2. /\ drv'["ready"] = drv["ready"] /\ drv'["desc"] = drv["desc"]
        /\ drv'["ipc"] = drv["ipc"] /\ drv'["queueSize"] = drv["queueSize"]
    BY <2>1 DEF Opens, Refused, Sets, Signals, Enables, Closes, Kept, Fields
  <2>3. drv.ready
    BY <2>1 DEF ClientInv, Opens, Refused, Sets, Signals, Enables, Closes
  <2>4. ASSUME NEW d \in Callers PROVE IdOf(d)' = IdOf(d)
    BY <2>2 DEF IdOf
  <2>5. ASSUME NEW x PROVE GoodRow(x)' <=> GoodRow(x)
    BY <2>2 DEF GoodRow
  <2>6. \A d \in Callers : d # c => client'[d] = client[d]
    BY <2>1 DEF Opens, Refused, Sets, Signals, Enables, Closes, TypeOK
  <2>7. ASSUME NEW d \in Callers, Active(d)'
        PROVE  drv.desc # NoProp /\ IdOf(d) < ClientMax /\ drv'.clients[IdOf(d)] = d
    <3>1. PICK x, y : x = IdOf(c) /\ y = IdOf(d)
      OBVIOUS
    <3>2. CASE Opens(c)
      <4>1. drv.desc # NoProp /\ ~(x >= ClientMax) /\ drv.clients[x] = Nobody
        BY <3>1, <3>2 DEF Opens
      <4>2. Bounded(drv.desc) /\ drv.clients \in [0..ClientsNum(drv.desc) - 1 -> Callers \cup {Nobody}]
        BY <2>3, <4>1, DriverIs
      <4>3. x \in Nat /\ (x < ClientMax => x < ClientsNum(drv.desc))
        BY <3>1, <4>2, CallerId DEF IdOf
      <4>4. x < ClientMax
        BY <4>1, <4>3, TypesAre
      <4>5. PICK n : n = ClientsNum(drv.desc)
        OBVIOUS
      <4>6. n \in Nat
        BY <4>2, <4>5, NumIs
      <4>7. x \in 0..n - 1
        BY <4>3, <4>4, <4>5, <4>6
      <4>8. drv'.clients = [drv.clients EXCEPT ![x] = c]
        BY <3>1, <3>2 DEF Opens
      <4>9. CASE d = c
        BY <3>1, <4>1, <4>2, <4>4, <4>5, <4>7, <4>8, <4>9
      <4>10. CASE d # c
        <5>1. Active(d)
          BY <2>6, <2>7, <4>10 DEF Active
        <5>2. y < ClientMax /\ drv.clients[y] = d
          BY <3>1, <5>1 DEF ClientInv
        <5>3. x # y
          BY <4>1, <5>2, ProbeAssumption
        <5>4. drv'.clients[y] = drv.clients[y]
          BY <4>8, <5>3, <4>2, <4>5
        <5> QED BY <3>1, <4>1, <5>2, <5>4
      <4> QED BY <4>9, <4>10
    <3>3. CASE Closes(c)
      <4>1. d # c
        BY <2>7, <3>3 DEF Closes, Active, TypeOK
      <4>2. Active(d) /\ Active(c)
        BY <2>6, <2>7, <3>3, <4>1 DEF Active, Closes
      <4>3. /\ drv.desc # NoProp /\ y < ClientMax /\ drv.clients[y] = d /\ drv.clients[x] = c
        BY <3>1, <4>2 DEF ClientInv
      <4>4. drv'.clients = [drv.clients EXCEPT ![x] = Nobody]
        BY <3>1, <3>3 DEF Closes
      <4>5. drv.clients \in [0..ClientsNum(drv.desc) - 1 -> Callers \cup {Nobody}]
        BY <2>3, <4>3, DriverIs
      <4>6. PICK n : n = ClientsNum(drv.desc)
        OBVIOUS
      <4>7. drv'.clients[y] = drv.clients[y]
        BY <4>1, <4>3, <4>4, <4>5, <4>6
      <4> QED BY <3>1, <4>3, <4>7
    <3>4. CASE Refused(c) \/ Sets(c) \/ Signals(c) \/ Enables(c)
      <4>1. drv'["clients"] = drv["clients"]
        BY <3>4 DEF Refused, Sets, Signals, Enables, Kept, Fields
      <4>2. Active(d)
        <5>1. CASE d = c
          BY <2>7, <3>4, <5>1 DEF Refused, Sets, Signals, Enables, Active, TypeOK
        <5>2. CASE d # c
          BY <2>6, <2>7, <5>2 DEF Active
        <5> QED BY <5>1, <5>2
      <4> QED BY <4>1, <4>2 DEF ClientInv
    <3> QED BY <2>1, <3>2, <3>3, <3>4
  <2>8. ASSUME NEW d \in Callers, Placed(d)'
        PROVE  IdOf(d) \in DOMAIN drv.ipc /\ GoodRow(IdOf(d)) /\ drv.queueSize[IdOf(d)].mem # 0
    <3>1. CASE Placed(d)
      BY <3>1 DEF ClientInv
    <3>2. CASE ~Placed(d)
      <4>1. d = c
        BY <2>6, <2>8, <3>2 DEF Placed
      <4>2. Sets(c)
        BY <2>1, <2>8, <3>2, <4>1 DEF Placed, Opens, Refused, Signals, Enables, Closes, TypeOK
      <4> QED BY <2>8, <4>1, <4>2 DEF Sets, Placed, TypeOK
    <3> QED BY <3>1, <3>2
  <2>9. /\ drv'.ready
        /\ \A d \in Callers : Active(d)' => /\ drv'.desc # NoProp /\ IdOf(d)' < ClientMax
                                            /\ drv'.clients[IdOf(d)'] = d
        /\ \A d \in Callers : Placed(d)' => /\ IdOf(d)' \in DOMAIN drv'.ipc /\ GoodRow(IdOf(d))'
                                            /\ drv'.queueSize[IdOf(d)'].mem # 0
    <3>1. ASSUME NEW d \in Callers, Active(d)'
          PROVE  drv'.desc # NoProp /\ IdOf(d)' < ClientMax /\ drv'.clients[IdOf(d)'] = d
      BY <2>2, <2>4, <2>7, <3>1
    <3>2. ASSUME NEW d \in Callers, Placed(d)'
          PROVE  IdOf(d)' \in DOMAIN drv'.ipc /\ GoodRow(IdOf(d))' /\ drv'.queueSize[IdOf(d)'].mem # 0
      BY <2>2, <2>4, <2>5, <2>8, <3>2
    <3> QED BY <2>2, <2>3, <3>1, <3>2
  <2> QED BY <2>9 DEF ClientInv
<1> QED BY <1>1, <1>3, <1>4, <1>5, NextMoves

-----------------------------------------------------------------------------
(* The invariant *)

\* The inductive invariant holds before the probe starts.
LEMMA InitInv == Init => ProbeInv
<1> SUFFICES ASSUME Init PROVE ProbeInv
  OBVIOUS
<1>1. TypeOK
  <2>1. drv.ready <=> probe = "done"
    BY DEF Init, NewDriver
  <2>2. client \in [Callers -> {"none", "setup", "signal", "enable", "registered", "unlink",
                               "refused", "oops"}]
    BY DEF Init
  <2>3. probes \in 0..MaxProbes /\ faults \in 0..MaxFaults
    BY ProbeAssumption DEF Init
  <2> QED BY <2>1, <2>2, <2>3 DEF Init, TypeOK
<1>2. DrvType
  BY NewFields DEF Init, DrvType
<1>3. probe = "idle" /\ drv.desc = NoProp /\ drv.ipc = NoTable /\ ~drv.dpuInit
  BY DEF Init, NewDriver
<1>4. LaidOut
  BY <1>3, LaidOutIs DEF Filled, Empty, Locks, Table, Rows, Before, AfterLocks, AtIpc, Ends
<1>5. MemoryInv
  <2>1. mem = [clear |-> FALSE, ctrl |-> FALSE, clients |-> {}]
    BY DEF Init
  <2>2. mem.clear = FALSE /\ mem = [clear |-> mem.clear, ctrl |-> mem.ctrl, clients |-> mem.clients]
    BY <2>1
  <2> QED BY <2>2 DEF Init, MemoryInv
<1>6. ClientInv
  BY <1>3 DEF Init, ClientInv, Active, Placed
<1> QED BY <1>1, <1>2, <1>4, <1>5, <1>6 DEF ProbeInv

\* Every step keeps it.
LEMMA StepInv == ProbeInv /\ [Next]_vars => ProbeInv'
BY TypeStep, DrvTypeStep, LaidOutStep, MemoryStep, ClientStep DEF ProbeInv

\* What hw_fence_driver_probe computes and what the registrations rest on, always.
THEOREM ProbeInvariant == Spec => []ProbeInv
BY InitInv, StepInv, PTL DEF Spec

\* The driver data, the memory, the peer and the clients keep their types.
THEOREM ProbeTypes == Spec => []TypeOK
BY ProbeInvariant, PTL DEF ProbeInv

-----------------------------------------------------------------------------
(* What a registered client has *)

\* The type of a client with queues.
LEMMA PlacedIs ==
  ASSUME ProbeInv, NEW c \in Callers, Placed(c), NEW x, x = IdOf(c)
  PROVE  /\ drv.ready /\ drv.desc # NoProp /\ Sizes /\ Bounded(drv.desc)
         /\ x \in Nat /\ x < ClientsNum(drv.desc) /\ c \in ConfiguredIds(drv.desc)
         /\ x \in DOMAIN drv.ipc /\ GoodRow(x) /\ drv.clients[x] = c
         /\ c < StaticIndex => x = c
<1>1. /\ drv.ready /\ drv.desc # NoProp /\ x < ClientMax /\ drv.clients[x] = c
      /\ x \in DOMAIN drv.ipc /\ GoodRow(x) /\ drv.queueSize[x].mem # 0
  BY DEF ProbeInv, ClientInv, Placed, Active
<1>2. Sizes /\ Bounded(drv.desc)
  BY <1>1, DriverIs DEF ProbeInv
<1>3. /\ x \in Nat /\ x < ClientsNum(drv.desc)
      /\ c >= StaticIndex => c \in ConfiguredIds(drv.desc)
      /\ c < StaticIndex => x = c
  BY <1>1, <1>2, CallerId DEF IdOf
<1>4. c < StaticIndex => c \in ConfiguredIds(drv.desc)
  <2> SUFFICES ASSUME c < StaticIndex PROVE c \in ConfiguredIds(drv.desc)
    OBVIOUS
  <2>1. PICK desc : desc = drv.desc
    OBVIOUS
  <2>2. drv.queueSize = ClientQueueSize(desc, TreeBase)
    BY <1>2, <2>1 DEF Sizes
  <2>3. x \in 0..ClientsNum(desc) - 1
    <3>1. ClientsNum(desc) \in Nat
      BY <1>2, <2>1, NumIs
    <3> QED BY <1>3, <2>1, <3>1
  <2>4. \E e \in ConfiguredIds(desc) : ClientIdPriv(desc, e) = x
    <3> SUFFICES ASSUME ~\E e \in ConfiguredIds(desc) : ClientIdPriv(desc, e) = x PROVE FALSE
      OBVIOUS
    <3>1. drv.queueSize[x] = NoQueues
      BY <2>2, <2>3 DEF ClientQueueSize
    <3> QED BY <1>1, <3>1 DEF NoQueues
  <2>5. PICK e \in ConfiguredIds(desc) : ClientIdPriv(desc, e) = x
    BY <2>4
  <2>6. PICK t \in Types : e \in ClientTypes[t].init..ClientTypes[t].init + desc[t].clients - 1
    BY <2>5 DEF ConfiguredIds
  <2>7. IdIs(desc, e, t)
    BY <1>2, <2>1, <2>6, IdOfConfigured
  <2>8. x = c /\ c \in Nat /\ StaticIndex \in Nat
    BY <1>3, ProbeAssumption, TypesAre
  <2>9. t \notin Configurable
    <3> SUFFICES ASSUME t \in Configurable PROVE FALSE
      OBVIOUS
    <3>1. PICK b, i : b = ConfiguredBefore(desc, t) /\ i = ClientTypes[t].init
      OBVIOUS
    <3>2. b \in Nat
      BY <1>2, <2>1, <3>1, CountBefore
    <3>3. i \in Nat /\ desc[t].clients \in Nat
      BY <1>2, <2>1, <3>1, TypeNumbers DEF Bounded
    <3>4. e >= i /\ e \in Nat
      BY <2>6, <2>7, <3>1, <3>3 DEF IdIs
    <3>5. x = StaticIndex + (e - i) + b
      BY <2>5, <2>7, <3>1 DEF IdIs
    <3> QED BY <2>8, <3>2, <3>3, <3>4, <3>5
  <2>10. e = x
    BY <2>5, <2>7, <2>9 DEF IdIs
  <2> QED BY <2>1, <2>5, <2>8, <2>10
<1>5. c < StaticIndex \/ c >= StaticIndex
  BY ProbeAssumption, TypesAre
<1> QED BY <1>1, <1>2, <1>3, <1>4, <1>5

\* The tables of the chips.
LEMMA BaseIs ==
  ASSUME NEW v \in DOMAIN IpcBase, NEW base, base = IpcBase[v]
  PROVE  /\ DOMAIN base = 0..StaticIndex + Cardinality(Configurable) - 1
         /\ \A id \in DOMAIN base : DOMAIN base[id] = {"client", "signal", "rxq"}
         /\ {id \in DOMAIN base : base[id].client = "dpu"} \in {{}, DpuIds}
         /\ \A i, j \in 0..StaticIndex - 1 :
              i # j /\ base[i].client = base[j].client /\ base[i].client # Nobody
                => base[i].signal # base[j].signal
         /\ \A t \in Configurable : v # ConfigVersion => base[StaticIndex + t - StaticTypes].client = Nobody
         /\ v = ConfigVersion => \A t \in Configurable :
              /\ base[StaticIndex + t - StaticTypes].client = ClientTypes[t].name
              /\ ~base[StaticIndex + t - StaticTypes].rxq
              /\ \A u \in Configurable \ {t} : ClientTypes[u].name # ClientTypes[t].name
              /\ \A i \in 0..StaticIndex - 1 : base[i].client # ClientTypes[t].name
BY IpcAssumption

\* The driver's ipc table is that of the chip, or generated from it.
Tables(v) == /\ v \in DOMAIN IpcBase
             /\ \/ v # ConfigVersion /\ drv.ipc = IpcBase[v]
                \/ v = ConfigVersion /\ drv.ipc = ConfigurableIpc

\* Every row is of such a table.
LEMMA TableIs ==
  ASSUME ProbeInv, NEW x \in DOMAIN drv.ipc
  PROVE  \E v : Tables(v)
<1>1. drv.ipc # NoTable
  BY DEF NoTable
<1>2. \/ tree.ipcVersion \in DOMAIN IpcBase \ {ConfigVersion} /\ drv.ipc = IpcBase[tree.ipcVersion]
      \/ drv.ipc = ConfigurableIpc
  BY <1>1, LaidOutIs DEF ProbeInv, Rows
<1>3. ConfigVersion \in DOMAIN IpcBase
  BY IpcAssumption
<1> QED BY <1>2, <1>3 DEF Tables

\* The row of a client: its own for a static id, generated for a sub-client.
LEMMA RowIs ==
  ASSUME ProbeInv, NEW c \in Callers, Placed(c), NEW x, x = IdOf(c), NEW v, Tables(v),
         NEW base, base = IpcBase[v], NEW t, t = TypeOf(c)
  PROVE  /\ x \in Nat /\ c \in Nat /\ x \in 0..drv.clientsNum - 1
         /\ t \in Types /\ c \in ClientTypes[t].init..ClientTypes[t].init + drv.desc[t].clients - 1
         /\ c < StaticIndex => t \notin Configurable /\ x = c /\ drv.ipc[x] = base[x] /\ x \in DOMAIN base
         /\ c >= StaticIndex =>
              /\ v = ConfigVersion /\ t \in Configurable /\ x >= StaticIndex
              /\ drv.ipc[x].client = ClientTypes[t].name /\ ~drv.ipc[x].rxq
              /\ drv.ipc[x].signal = c - ClientTypes[t].init
<1>1. PICK d : d = drv.desc
  OBVIOUS
<1>2. /\ Sizes /\ Bounded(d)
      /\ x \in Nat /\ x < ClientsNum(d) /\ c \in ConfiguredIds(d)
      /\ x \in DOMAIN drv.ipc /\ GoodRow(x)
      /\ c < StaticIndex => x = c
  BY <1>1, PlacedIs
<1>3. PICK u \in Types : c \in ClientTypes[u].init..ClientTypes[u].init + d[u].clients - 1
  BY <1>2 DEF ConfiguredIds
<1>4. IdIs(d, c, u)
  BY <1>2, <1>3, IdOfConfigured
<1>5. t = u /\ c \in Nat
  BY <1>4 DEF IdIs
<1>6. /\ t \in Types /\ c \in ClientTypes[t].init..ClientTypes[t].init + d[t].clients - 1 /\ IdIs(d, c, t)
  BY <1>3, <1>4, <1>5
<1>7. drv.clientsNum = ClientsNum(d) /\ ClientsNum(d) \in Nat /\ StaticIndex <= ClientsNum(d) /\ StaticIndex \in Nat
  BY <1>1, <1>2, NumIs, TypesAre DEF Sizes
<1>8. PICK n : n = ClientsNum(d)
  OBVIOUS
<1>9. x \in 0..n - 1 /\ drv.clientsNum = n
  BY <1>2, <1>7, <1>8
<1>10. v \in DOMAIN IpcBase
  BY DEF Tables
<1>11. ASSUME c < StaticIndex
       PROVE  t \notin Configurable /\ x = c /\ drv.ipc[x] = base[x] /\ x \in DOMAIN base
  <2>1. ~(c >= StaticIndex)
    BY <1>5, <1>7, <1>11
  <2>2. t \notin Configurable /\ x = c
    BY <1>2, <1>6, <1>11, <2>1 DEF IdIs
  <2>3. CASE drv.ipc = IpcBase[v]
    BY <1>2, <2>2, <2>3
  <2>4. CASE v = ConfigVersion /\ drv.ipc = ConfigurableIpc
    <3>1. drv.ipc = RowsOf(drv["desc"], drv["clientsNum"])
      BY <2>4 DEF ConfigurableIpc, RowsOf, RowOfType
    <3>2. drv.ipc[x] = base[x]
      BY <1>9, <1>11, <2>2, <2>4, <3>1 DEF RowsOf
    <3>3. DOMAIN base = 0..StaticIndex + Cardinality(Configurable) - 1
      BY <1>10, BaseIs
    <3>4. x \in DOMAIN base
      BY <1>2, <1>7, <1>11, <2>2, <3>3, TypesAre
    <3> QED BY <2>2, <3>2, <3>4
  <2> QED BY <2>3, <2>4 DEF Tables
<1>12. ASSUME c >= StaticIndex
       PROVE  /\ v = ConfigVersion /\ t \in Configurable /\ x >= StaticIndex
              /\ drv.ipc[x].client = ClientTypes[t].name /\ ~drv.ipc[x].rxq
              /\ drv.ipc[x].signal = c - ClientTypes[t].init
  <2>1. t \in Configurable
    <3>1. ~(c < StaticIndex)
      BY <1>5, <1>7, <1>12
    <3> QED BY <1>6, <3>1 DEF IdIs
  <2>2. PICK b, i, k : b = ConfiguredBefore(d, t) /\ i = ClientTypes[t].init /\ k = d[t].clients
    OBVIOUS
  <2>3. b \in Nat
    BY <1>2, <2>1, <2>2, CountBefore
  <2>4. i \in Nat /\ k \in Nat
    BY <1>2, <1>6, <2>2, TypeNumbers DEF Bounded
  <2>5. c \in i..i + k - 1
    BY <1>6, <2>2
  <2>6. x = StaticIndex + (c - i) + b
    BY <1>1, <1>6, <2>1, <2>2 DEF IdIs, IdOf
  <2>7. x >= StaticIndex
    BY <1>5, <1>7, <2>3, <2>4, <2>5, <2>6
  <2>8. v = ConfigVersion
    <3> SUFFICES ASSUME v # ConfigVersion PROVE FALSE
      OBVIOUS
    <3>1. drv.ipc = base
      BY DEF Tables
    <3>2. /\ DOMAIN base = 0..StaticIndex + Cardinality(Configurable) - 1
          /\ \A y \in Configurable : base[StaticIndex + y - StaticTypes].client = Nobody
      BY <1>10, BaseIs
    <3>3. PICK y : y = StaticTypes + (x - StaticIndex)
      OBVIOUS
    <3>4. x \in 0..StaticIndex + Cardinality(Configurable) - 1
      BY <1>2, <3>1, <3>2
    <3>5. y \in Configurable /\ StaticIndex + y - StaticTypes = x
      <4>1. PICK a, z, e, s : a = StaticTypes /\ z = Cardinality(Types) /\ e = Cardinality(Configurable)
                              /\ s = StaticIndex
        OBVIOUS
      <4>2. a \in Nat /\ z \in Nat /\ e = z - a /\ s \in Nat
        BY <4>1, TypesAre
      <4>3. Configurable = a..z - 1
        BY <4>1, TypesAre
      <4>4. y = a + (x - s) /\ x \in 0..s + e - 1 /\ x >= s
        BY <2>7, <3>3, <3>4, <4>1
      <4>5. x \in Int /\ x <= s + e - 1
        BY <4>2, <4>4
      <4>6. y \in Int
        BY <4>2, <4>4, <4>5
      <4>7. a <= y /\ y <= z - 1 /\ s + y - a = x
        BY <4>2, <4>4, <4>5, <4>6
      <4>8. y \in a..z - 1
        BY <4>2, <4>6, <4>7
      <4> QED BY <4>1, <4>3, <4>7, <4>8
    <3>6. drv.ipc[x].client = Nobody
      BY <3>1, <3>2, <3>5
    <3> QED BY <1>2, <3>6 DEF GoodRow
  <2>9. drv.ipc = RowsOf(drv["desc"], drv["clientsNum"])
    BY <2>8 DEF Tables, ConfigurableIpc, RowsOf, RowOfType
  <2>10. PICK e : e = CHOOSE z \in ConfiguredIds(d) : ClientIdPriv(d, z) = x
    OBVIOUS
  <2>11. e = c
    <3>1. ClientIdPriv(d, c) = x
      BY <1>1 DEF IdOf
    <3>2. e \in ConfiguredIds(d) /\ ClientIdPriv(d, e) = x
      BY <1>2, <2>10, <3>1
    <3> QED BY <1>2, <3>1, <3>2, IdsDiffer
  <2>12. PICK r : r = base[StaticIndex + t - StaticTypes]
    OBVIOUS
  <2>13. ~(x < StaticIndex)
    BY <1>2, <1>7, <2>7
  <2>14. drv.ipc[x] = [base[StaticIndex + TypeOf(e) - StaticTypes] EXCEPT !.signal = e - ClientTypes[TypeOf(e)].init]
    BY <1>1, <1>9, <2>8, <2>9, <2>10, <2>13 DEF RowsOf
  <2>15. drv.ipc[x] = [r EXCEPT !.signal = c - i]
    BY <2>2, <2>11, <2>12, <2>14
  <2>16. DOMAIN r = {"client", "signal", "rxq"} /\ r.client = ClientTypes[t].name /\ ~r.rxq
    <3>1. StaticIndex + t - StaticTypes \in 0..StaticIndex + Cardinality(Configurable) - 1
      BY <2>1, TypesAre
    <3>2. /\ DOMAIN base = 0..StaticIndex + Cardinality(Configurable) - 1
          /\ \A id \in DOMAIN base : DOMAIN base[id] = {"client", "signal", "rxq"}
      BY <1>10, BaseIs
    <3>3. base[StaticIndex + t - StaticTypes].client = ClientTypes[t].name /\ ~base[StaticIndex + t - StaticTypes].rxq
      BY <1>10, <2>1, <2>8, BaseIs
    <3> QED BY <2>12, <3>1, <3>2, <3>3
  <2>17. PICK s : s = c - i
    OBVIOUS
  <2>18. drv.ipc[x].client = r.client /\ drv.ipc[x].rxq = r.rxq /\ drv.ipc[x].signal = s
    BY <2>15, <2>16, <2>17
  <2> QED BY <2>1, <2>2, <2>7, <2>8, <2>16, <2>17, <2>18
<1> QED BY <1>1, <1>2, <1>5, <1>6, <1>8, <1>9, <1>11, <1>12

\* The types from the first with lock words to the one before n, and what their
\* clients add up to: at most as many as there are ids between them.
From(n) == {t \in Types : RxqTypes <= t /\ t < n}
Start(n) == IF n \in Types THEN ClientTypes[n].init ELSE ClientMax
Full(desc, n) == \A t \in From(n) : desc[t].clients = ClientTypes[t].max

\* A type's ids end where those of the next type start, or before.
LEMMA NextStart ==
  ASSUME NEW t \in Types, NEW i, i = ClientTypes[t].init, NEW m, m = ClientTypes[t].max, NEW n, n = t + 1
  PROVE  /\ Start(n) \in Nat /\ i + m <= Start(n)
         /\ RxqTypes <= t /\ n < StaticTypes => Start(n) = i + m
<1>1. i \in Nat /\ m \in Nat /\ i + m <= ClientMax /\ (\A u \in Types : t < u => i + m <= ClientTypes[u].init)
  BY TypeNumbers
<1>2. t \in Nat /\ ClientMax \in Nat
  BY TypesAre
<1>3. CASE n \in Types
  <2>1. ClientTypes[n].init \in Nat
    BY <1>3, TypeNumbers
  <2>2. t < n
    BY <1>2
  <2>3. RxqTypes <= t /\ n < StaticTypes => ClientTypes[n].init = i + m
    <3> SUFFICES ASSUME RxqTypes <= t, n < StaticTypes PROVE ClientTypes[n].init = i + m
      OBVIOUS
    <3>1. t \in RxqTypes..StaticTypes - 2
      BY <1>2, TypesAre
    <3> QED BY <3>1, LayoutAssumption
  <2> QED BY <1>1, <1>3, <2>1, <2>2, <2>3 DEF Start
<1>4. CASE n \notin Types
  BY <1>1, <1>2, <1>4, TypesAre DEF Start
<1> QED BY <1>3, <1>4

\* So do its clients; they end exactly there if every type up to it has all its clients.
LEMMA UpTo ==
  ASSUME NEW desc, Bounded(desc), NEW f, f = [t \in Types |-> desc[t].clients],
         NEW n \in RxqTypes..Cardinality(Types)
  PROVE  /\ Sum(f, From(n)) \in Nat
         /\ Start(RxqTypes) + Sum(f, From(n)) <= Start(n)
         /\ n < StaticTypes /\ Full(desc, n) => Start(RxqTypes) + Sum(f, From(n)) = Start(n)
<1> DEFINE P(m) == /\ Sum(f, From(m)) \in Nat
                   /\ Start(RxqTypes) + Sum(f, From(m)) <= Start(m)
                   /\ m < StaticTypes /\ Full(desc, m) => Start(RxqTypes) + Sum(f, From(m)) = Start(m)
           W == {m \in RxqTypes..Cardinality(Types) : ~P(m)}
<1>0. RxqTypes \in Nat /\ Cardinality(Types) \in Nat /\ RxqTypes \in Types /\ Types = 0..Cardinality(Types) - 1
  BY TypesAre
<1>1. Start(RxqTypes) \in Nat
  BY <1>0, TypeNumbers DEF Start
<1>2. SUFFICES ASSUME W # {} PROVE FALSE
  OBVIOUS
<1>3. W \in SUBSET Nat
  BY <1>0
<1>4. PICK m \in W : \A k \in W : ~(k < m)
  <2> HIDE DEF W
  <2> QED BY <1>2, <1>3, Smallest
<1>5. m \in RxqTypes..Cardinality(Types) /\ ~P(m)
  OBVIOUS
<1>6. m # RxqTypes
  <2> SUFFICES ASSUME m = RxqTypes PROVE P(m)
    BY <1>5
  <2>1. From(m) = {}
    BY <1>0 DEF From
  <2>2. Sum(f, From(m)) = 0
    BY <2>1, SumEmpty
  <2> QED BY <1>1, <2>2 DEF Start
<1>7. PICK t : t = m - 1
  OBVIOUS
<1>8. t \in RxqTypes..Cardinality(Types) /\ t < m /\ m = t + 1 /\ t \in Types /\ t \in Nat /\ RxqTypes <= t
  BY <1>0, <1>5, <1>6, <1>7
<1>9. P(t)
  <2>1. t \notin W
    BY <1>4, <1>8
  <2> QED BY <1>8, <2>1
<1> HIDE DEF W
<1>21. /\ Sum(f, From(t)) \in Nat
       /\ Start(RxqTypes) + Sum(f, From(t)) <= Start(t)
       /\ t < StaticTypes /\ Full(desc, t) => Start(RxqTypes) + Sum(f, From(t)) = Start(t)
  BY <1>9
<1> HIDE DEF P
<1>10. From(m) \ {t} = From(t) /\ t \in From(m)
  BY <1>0, <1>8 DEF From
<1>11. IsFiniteSet(From(m)) /\ \A x \in From(m) : f[x] \in Nat
  <2>1. IsFiniteSet(Types) /\ From(m) \in SUBSET Types
    BY LayoutAssumption DEF From
  <2>2. \A x \in From(m) : f[x] \in Nat
    BY DEF From, Bounded
  <2> QED BY <2>1, <2>2, FS_Subset
<1>12. Sum(f, From(m)) = f[t] + Sum(f, From(t)) /\ Sum(f, From(m)) \in Nat
  <2>1. PICK S : S = From(m)
    OBVIOUS
  <2>2. IsFiniteSet(S) /\ \A x \in S : f[x] \in Nat
    BY <1>11, <2>1
  <2>3. Sum(f, S) \in Nat /\ \A y \in S : Sum(f, S) = f[y] + Sum(f, S \ {y})
    BY <2>2, SumOf
  <2>4. S \ {t} = From(t) /\ t \in S
    BY <1>10, <2>1
  <2> QED BY <2>1, <2>3, <2>4
<1>13. PICK i, x, k : i = ClientTypes[t].init /\ x = ClientTypes[t].max /\ k = f[t]
  OBVIOUS
<1>14. /\ Start(m) \in Nat /\ i + x <= Start(m) /\ i \in Nat /\ x \in Nat /\ Start(t) = i
       /\ m < StaticTypes => Start(m) = i + x
  BY <1>8, <1>13, NextStart, TypeNumbers DEF Start
<1>15. k \in Nat /\ k <= x /\ k = desc[t].clients
  BY <1>8, <1>13 DEF Bounded
<1>16. PICK s, a, z, b : s = Sum(f, From(t)) /\ a = Sum(f, From(m)) /\ z = Start(RxqTypes) /\ b = Start(m)
  OBVIOUS
<1>17. s \in Nat /\ z + s <= i /\ a = k + s /\ z \in Nat /\ b \in Nat /\ i + x <= b
  <2>1. s \in Nat /\ z + s <= i
    BY <1>14, <1>16, <1>21
  <2>2. a = k + s
    BY <1>12, <1>13, <1>16
  <2>3. z \in Nat
    BY <1>1, <1>16
  <2>4. b \in Nat /\ i + x <= b
    BY <1>14, <1>16
  <2> QED BY <2>1, <2>2, <2>3, <2>4
<1>18. a \in Nat /\ z + a <= b
  BY <1>14, <1>15, <1>17
<1>19. m < StaticTypes /\ Full(desc, m) => z + a = b
  <2> SUFFICES ASSUME m < StaticTypes, Full(desc, m) PROVE z + a = b
    OBVIOUS
  <2>1. t < StaticTypes /\ Full(desc, t)
    <3>1. From(t) \subseteq From(m)
      BY <1>10
    <3>2. t < StaticTypes
      BY <1>8, TypesAre
    <3> QED BY <3>1, <3>2 DEF Full
  <2>2. z + s = i
    BY <1>14, <1>16, <1>21, <2>1
  <2>3. k = x
    BY <1>10, <1>13, <1>15 DEF Full
  <2>4. b = i + x
    BY <1>14, <1>16
  <2> QED BY <1>14, <1>15, <1>17, <2>2, <2>3, <2>4
<1>20. P(m)
  BY <1>12, <1>16, <1>18, <1>19 DEF P
<1> QED BY <1>5, <1>20

\* The types whose clients have lock words, and how many each has.
WithLocks(desc) == {u \in Types : u >= RxqTypes /\ desc[u].queues = HW_FENCE_CLIENT_QUEUES}
Counts(desc) == [u \in Types |-> desc[u].clients]

\* There are lock words for fewer ids than there are.
LEMMA RxqIs ==
  ASSUME NEW desc, Bounded(desc), NEW r, r = RxqClientsNum(desc),
         NEW f, f = Counts(desc), NEW R, R = WithLocks(desc)
  PROVE  /\ r \in Nat /\ r < ClientMax /\ r = RxqClients + Sum(f, R)
         /\ IsFiniteSet(R) /\ (\A x \in R : f[x] \in Nat) /\ Sum(f, R) \in Nat
<1>1. f = [t \in Types |-> desc[t].clients]
  BY DEF Counts
<1>2. R = {u \in Types : u >= RxqTypes /\ desc[u].queues = HW_FENCE_CLIENT_QUEUES}
  BY DEF WithLocks
<1>3. PICK n : n = Cardinality(Types)
  OBVIOUS
<1>4. /\ Types = 0..n - 1 /\ n \in Nat /\ RxqTypes \in Nat /\ RxqTypes \in 0..n - 1 /\ StaticTypes \in Nat
      /\ RxqTypes \in 0..n /\ RxqTypes \in RxqTypes..n
  BY <1>3, TypesAre
<1>5. n \notin Types
  BY <1>4
<1>6. R \in SUBSET From(n)
  BY <1>2, <1>4 DEF From
<1>7. \A m \in Nat : From(m) \in SUBSET Types /\ IsFiniteSet(From(m)) /\ \A x \in From(m) : f[x] \in Nat
  <2> SUFFICES ASSUME NEW m \in Nat
               PROVE  From(m) \in SUBSET Types /\ IsFiniteSet(From(m)) /\ \A x \in From(m) : f[x] \in Nat
    OBVIOUS
  <2>1. From(m) \in SUBSET Types
    BY DEF From
  <2>2. IsFiniteSet(From(m))
    BY <2>1, FS_Subset, LayoutAssumption
  <2> QED BY <1>1, <2>1, <2>2 DEF Bounded
<1>8. r = RxqClients + Sum(f, R)
  <2>1. R \in SUBSET Types
    BY <1>2
  <2>2. ClientsOf(desc, R) = Sum(f, R)
    BY <1>1, <2>1, ClientsAre
  <2> QED BY <1>2, <2>2 DEF RxqClientsNum
<1>9. PICK A : A = From(n)
  OBVIOUS
<1>10. Sum(f, R) \in Nat /\ Sum(f, A) \in Nat /\ Sum(f, R) <= Sum(f, A)
  <2>1. R \in SUBSET A /\ IsFiniteSet(A) /\ \A x \in A : f[x] \in Nat
    BY <1>4, <1>6, <1>7, <1>9
  <2> QED BY <2>1, SumSubset
<1>11. Start(RxqTypes) = RxqClients + 1 /\ Start(n) = ClientMax /\ RxqClients \in Nat /\ ClientMax \in Nat
  BY <1>4, <1>5, LayoutAssumption DEF Start
<1>12. Start(RxqTypes) + Sum(f, A) <= ClientMax
  <2>1. n \in RxqTypes..Cardinality(Types)
    BY <1>3, <1>4
  <2>2. Start(RxqTypes) + Sum(f, From(n)) <= Start(n)
    BY <1>1, <2>1, UpTo
  <2> QED BY <1>9, <1>11, <2>2
<1>13. r \in Nat /\ r < ClientMax
  BY <1>8, <1>10, <1>11, <1>12
<1>14. IsFiniteSet(R) /\ \A x \in R : f[x] \in Nat
  <2>1. IsFiniteSet(From(n)) /\ \A x \in From(n) : f[x] \in Nat
    BY <1>4, <1>7
  <2> QED BY <1>6, <2>1, FS_Subset
<1> QED BY <1>8, <1>10, <1>13, <1>14

\* The lock words are enough for the clients of a type, if no type before it leaves a gap.
LEMMA LocksSuffice ==
  ASSUME NEW desc, Bounded(desc), NEW t \in Types \ Configurable,
         NEW c \in ClientTypes[t].init..ClientTypes[t].init + desc[t].clients - 1,
         RxqTypes <= t => /\ desc[t].queues = HW_FENCE_CLIENT_QUEUES
                          /\ \A u \in From(t) : /\ desc[u].clients = ClientTypes[u].max
                                                /\ desc[u].queues = HW_FENCE_CLIENT_QUEUES,
         NEW r, r = RxqClientsNum(desc)
  PROVE  r \in Nat /\ r < ClientMax /\ c - 1 < r
<1>1. PICK g, Q : g = Counts(desc) /\ Q = WithLocks(desc)
  OBVIOUS
<1>2. /\ g = [u \in Types |-> desc[u].clients]
      /\ Q = {u \in Types : u >= RxqTypes /\ desc[u].queues = HW_FENCE_CLIENT_QUEUES}
  BY <1>1 DEF Counts, WithLocks
<1>3. /\ r \in Nat /\ r < ClientMax /\ r = RxqClients + Sum(g, Q)
      /\ IsFiniteSet(Q) /\ (\A x \in Q : g[x] \in Nat) /\ Sum(g, Q) \in Nat
  BY <1>1, RxqIs
<1>4. RxqTypes \in Nat /\ RxqTypes \in Types /\ StaticTypes \in Nat
  BY TypesAre
<1>5. t \in Nat /\ t < StaticTypes
  BY TypesAre DEF Configurable
<1>6. Start(RxqTypes) = RxqClients + 1 /\ RxqClients \in Nat
  BY <1>4, LayoutAssumption DEF Start
<1>7. PICK i, m, k : i = ClientTypes[t].init /\ m = ClientTypes[t].max /\ k = desc[t].clients
  OBVIOUS
<1>8. i \in Nat /\ m \in Nat /\ k \in Nat /\ k <= m /\ c \in i..i + k - 1
  <2>1. i \in Nat /\ m \in Nat
    BY <1>7, TypeNumbers
  <2>2. k \in Nat /\ k <= m
    BY <1>7 DEF Bounded
  <2> QED BY <1>7, <2>1, <2>2
<1>9. CASE t < RxqTypes
  <2>1. i + m <= ClientTypes[RxqTypes].init
    BY <1>4, <1>7, <1>9, TypeNumbers
  <2>2. ClientTypes[RxqTypes].init = RxqClients + 1
    BY LayoutAssumption
  <2>3. c - 1 < RxqClients
    BY <1>6, <1>8, <2>1, <2>2
  <2> QED BY <1>3, <1>6, <1>8, <2>3
<1>10. CASE RxqTypes <= t
  <2>1. From(t) \in SUBSET Q /\ t \in Q \ From(t)
    <3>1. From(t) \in SUBSET Types /\ \A u \in From(t) : u >= RxqTypes
      BY <1>4 DEF From
    <3>2. From(t) \in SUBSET Q
      BY <1>2, <1>10, <3>1
    <3>3. t \in Q
      BY <1>2, <1>4, <1>5, <1>10
    <3>4. t \notin From(t)
      BY <1>5 DEF From
    <3> QED BY <3>2, <3>3, <3>4
  <2>2. PICK T : T = From(t)
    OBVIOUS
  <2>3. IsFiniteSet(Q) /\ \A x \in Q : g[x] \in Nat
    BY <1>3
  <2>4. T \in SUBSET Q /\ t \in Q \ T
    BY <2>1, <2>2
  <2>5. Sum(g, T) + g[t] <= Sum(g, Q)
    BY <2>3, <2>4, SumAdd
  <2>6. Full(desc, t)
    BY <1>10 DEF Full
  <2>7. t \in RxqTypes..Cardinality(Types)
    BY <1>5, <1>10, TypesAre
  <2>8. Sum(g, T) \in Nat /\ Start(RxqTypes) + Sum(g, T) = Start(t)
    <3>1. Sum(g, From(t)) \in Nat /\ Start(RxqTypes) + Sum(g, From(t)) = Start(t)
      BY <1>2, <1>5, <2>6, <2>7, UpTo
    <3> QED BY <2>2, <3>1
  <2>9. Start(t) = i /\ g[t] = k
    BY <1>2, <1>7 DEF Start
  <2> QED BY <1>3, <1>6, <1>8, <2>5, <2>8, <2>9
<1> QED BY <1>3, <1>4, <1>5, <1>9, <1>10

\* The number of lock words that the driver computes back from the size of their memory.
LEMMA LockCount ==
  ASSUME NEW r \in Nat, r < ClientMax
  PROVE  (LocksSize(r) % U32) \div LockSize = r
<1>1. LockSize \in Nat \ {0} /\ U32 \in Nat \ {0} /\ ClientMax \in Nat /\ LockSize * ClientMax < U32
  BY LayoutAssumption
<1>2. PICK a, b, k : a = LockSize * r /\ b = LockSize * ClientMax /\ k = ClientMax - r
  OBVIOUS
<1>3. a \in Nat /\ b \in Nat /\ k \in Nat /\ LockSize * k \in Nat /\ a + LockSize * k = b
  BY <1>1, <1>2
<1>4. a < U32
  BY <1>1, <1>2, <1>3
<1>5. a % U32 = a
  BY <1>1, <1>3, <1>4, Small
<1>6. (LockSize * r + 0) \div LockSize = r
  BY <1>1, DivUnique
<1>7. a \div LockSize = r
  BY <1>1, <1>2, <1>3, <1>6
<1> QED BY <1>2, <1>5, <1>7 DEF LocksSize

\* What the registered clients have follows from the inductive invariant.
LEMMA SetUpHolds == ProbeInv => ClientSetUp
<1> SUFFICES ASSUME ProbeInv PROVE ClientSetUp
  OBVIOUS
<1>1. ASSUME NEW c \in Registered, NEW d \in Registered \ {c}
      PROVE  /\ IdOf(d) # IdOf(c)
             /\ drv.ipc[IdOf(d)].client = drv.ipc[IdOf(c)].client
                  => drv.ipc[IdOf(d)].signal # drv.ipc[IdOf(c)].signal
  <2>1. /\ c \in Callers /\ d \in Callers /\ c # d /\ Placed(c) /\ Placed(d)
    BY <1>1 DEF Registered, Placed
  <2>2. PICK x, y, s, t : x = IdOf(c) /\ y = IdOf(d) /\ s = TypeOf(c) /\ t = TypeOf(d)
    OBVIOUS
  <2>3. drv.clients[x] = c /\ drv.clients[y] = d /\ x \in DOMAIN drv.ipc /\ GoodRow(x) /\ GoodRow(y)
    BY <2>1, <2>2, PlacedIs
  <2>4. x # y
    BY <2>1, <2>3
  <2>5. PICK v : Tables(v)
    BY <2>3, TableIs
  <2>6. PICK base : base = IpcBase[v]
    OBVIOUS
  <2>7. v \in DOMAIN IpcBase
    BY <2>5 DEF Tables
  <2>8. /\ x \in Nat /\ c \in Nat /\ s \in Types
        /\ c < StaticIndex => x = c /\ drv.ipc[x] = base[x]
        /\ c >= StaticIndex =>
              /\ v = ConfigVersion /\ s \in Configurable
              /\ drv.ipc[x].client = ClientTypes[s].name
              /\ drv.ipc[x].signal = c - ClientTypes[s].init
    BY <2>1, <2>2, <2>5, <2>6, RowIs
  <2>9. /\ y \in Nat /\ d \in Nat /\ t \in Types
        /\ d < StaticIndex => y = d /\ drv.ipc[y] = base[y]
        /\ d >= StaticIndex =>
              /\ v = ConfigVersion /\ t \in Configurable
              /\ drv.ipc[y].client = ClientTypes[t].name
              /\ drv.ipc[y].signal = d - ClientTypes[t].init
    BY <2>1, <2>2, <2>5, <2>6, RowIs
  <2>10. /\ \A i, j \in 0..StaticIndex - 1 :
              i # j /\ base[i].client = base[j].client /\ base[i].client # Nobody
                => base[i].signal # base[j].signal
         /\ v = ConfigVersion => \A u \in Configurable :
              /\ \A w \in Configurable \ {u} : ClientTypes[w].name # ClientTypes[u].name
              /\ \A i \in 0..StaticIndex - 1 : base[i].client # ClientTypes[u].name
    BY <2>6, <2>7, BaseIs
  <2>11. StaticIndex \in Nat
    BY TypesAre
  <2>12. ASSUME drv.ipc[y].client = drv.ipc[x].client
         PROVE  drv.ipc[y].signal # drv.ipc[x].signal
    <3>1. CASE c < StaticIndex /\ d < StaticIndex
      <4>1. x \in 0..StaticIndex - 1 /\ y \in 0..StaticIndex - 1
        BY <2>8, <2>9, <2>11, <3>1
      <4>2. base[x].client # Nobody
        BY <2>3, <2>8, <3>1 DEF GoodRow
      <4> QED BY <2>4, <2>8, <2>9, <2>10, <2>12, <3>1, <4>1, <4>2
    <3>2. CASE c < StaticIndex /\ d >= StaticIndex
      <4>1. x \in 0..StaticIndex - 1
        BY <2>8, <2>11, <3>2
      <4> QED BY <2>8, <2>9, <2>10, <2>12, <3>2, <4>1
    <3>3. CASE c >= StaticIndex /\ d < StaticIndex
      <4>1. y \in 0..StaticIndex - 1
        BY <2>9, <2>11, <3>3
      <4> QED BY <2>8, <2>9, <2>10, <2>12, <3>3, <4>1
    <3>4. CASE c >= StaticIndex /\ d >= StaticIndex
      <4>1. s = t
        BY <2>8, <2>9, <2>10, <2>12, <3>4
      <4>2. PICK i : i = ClientTypes[s].init
        OBVIOUS
      <4>3. i \in Nat
        BY <2>8, <4>2, TypeNumbers
      <4>4. drv.ipc[x].signal = c - i /\ drv.ipc[y].signal = d - i
        BY <2>8, <2>9, <3>4, <4>1, <4>2
      <4> QED BY <2>1, <2>8, <2>9, <4>3, <4>4
    <3> QED BY <2>8, <2>9, <2>11, <3>1, <3>2, <3>3, <3>4
  <2> QED BY <2>2, <2>4, <2>12
<1>2. ASSUME NEW c \in Registered
      PROVE  /\ TypeOf(c) \in Configurable => drv.ipc[IdOf(c)].client = ClientTypes[TypeOf(c)].name
             /\ drv.ipc[IdOf(c)].rxq /\ NoGap => IdOf(c) - 1 < drv.lockCnt
  <2>1. c \in Callers /\ Placed(c)
    BY <1>2 DEF Registered, Placed
  <2>2. PICK x, t : x = IdOf(c) /\ t = TypeOf(c)
    OBVIOUS
  <2>3. PICK d : d = drv.desc
    OBVIOUS
  <2>4. /\ drv.ready /\ d # NoProp /\ Sizes /\ Bounded(d) /\ x \in DOMAIN drv.ipc /\ GoodRow(x)
        /\ c \in ConfiguredIds(d)
    BY <2>1, <2>2, <2>3, PlacedIs
  <2>5. PICK v : Tables(v)
    BY <2>4, TableIs
  <2>6. PICK base : base = IpcBase[v]
    OBVIOUS
  <2>7. /\ x \in Nat /\ c \in Nat /\ x \in 0..drv.clientsNum - 1
        /\ t \in Types /\ c \in ClientTypes[t].init..ClientTypes[t].init + d[t].clients - 1
        /\ c < StaticIndex => t \notin Configurable /\ x = c
        /\ c >= StaticIndex => drv.ipc[x].client = ClientTypes[t].name /\ ~drv.ipc[x].rxq
    BY <2>1, <2>2, <2>3, <2>5, <2>6, RowIs
  <2>8. StaticIndex \in Nat
    BY TypesAre
  <2>9. c < StaticIndex \/ c >= StaticIndex
    BY <2>7, <2>8
  <2>10. ASSUME drv.ipc[x].rxq, NoGap
         PROVE  x - 1 < drv.lockCnt
    <3>1. c < StaticIndex /\ t \notin Configurable /\ x = c
      BY <2>7, <2>9, <2>10
    <3>2. t \in Nat /\ t < StaticTypes
      BY <2>7, <3>1, TypesAre DEF Configurable
    <3>3. d[t].queues = HW_FENCE_CLIENT_QUEUES
      <4>1. drv.queueSize[x].queues >= HW_FENCE_CLIENT_QUEUES
        BY <2>4, <2>10 DEF GoodRow
      <4>2. drv.queueSize[x].queues = d[t].queues
        <5>1. drv.queueSize = ClientQueueSize(d, TreeBase) /\ drv.clientsNum = ClientsNum(d)
          BY <2>3, <2>4 DEF Sizes
        <5>2. ClientIdPriv(d, c) = x
          BY <2>2, <2>3 DEF IdOf
        <5>3. PICK e : e = CHOOSE z \in ConfiguredIds(d) : ClientIdPriv(d, z) = x
          OBVIOUS
        <5>4. e = c
          <6>1. e \in ConfiguredIds(d) /\ ClientIdPriv(d, e) = x
            BY <2>4, <5>2, <5>3
          <6> QED BY <2>4, <5>2, <6>1, IdsDiffer
        <5>5. x \in 0..ClientsNum(d) - 1
          BY <2>7, <5>1
        <5>6. \E z \in ConfiguredIds(d) : ClientIdPriv(d, z) = x
          BY <2>4, <5>2
        <5>7. drv.queueSize[x].queues = d[TypeOf(e)].queues
          BY <5>1, <5>3, <5>5, <5>6 DEF ClientQueueSize
        <5> QED BY <2>2, <5>4, <5>7
      <4>3. d[t].queues \in 1..HW_FENCE_CLIENT_QUEUES
        <5>1. d = TreeDesc /\ ValidTypes
          BY <2>3, <2>4 DEF Sizes
        <5>2. ValidDesc(ClientTypes[t], d[t])
          BY <2>7, <5>1 DEF ValidTypes, TreeDesc
        <5> QED BY <5>2 DEF ValidDesc
      <4> QED BY <4>1, <4>2, <4>3 DEF HW_FENCE_CLIENT_QUEUES
    <3>4. d[t].clients \in Nat /\ d[t].clients > 0
      <4>1. ClientTypes[t].init \in Nat /\ d[t].clients \in Nat
        BY <2>4, <2>7, TypeNumbers DEF Bounded
      <4>2. PICK i, k : i = ClientTypes[t].init /\ k = d[t].clients
        OBVIOUS
      <4>3. k \in Nat /\ i \in Nat /\ c \in i..i + k - 1
        BY <2>7, <4>1, <4>2
      <4>4. k > 0
        BY <2>7, <4>3
      <4> QED BY <4>1, <4>2, <4>4
    <3>5. RxqTypes <= t => \A u \in From(t) : /\ d[u].clients = ClientTypes[u].max
                                              /\ d[u].queues = HW_FENCE_CLIENT_QUEUES
      BY <2>3, <2>7, <2>10, <3>2, <3>4 DEF NoGap, From
    <3>6. PICK r : r = RxqClientsNum(d)
      OBVIOUS
    <3>7. r \in Nat /\ r < ClientMax /\ c - 1 < r
      BY <2>4, <2>7, <3>1, <3>3, <3>5, <3>6, LocksSuffice
    <3>8. drv.lockCnt = (LocksSize(drv.rxqNum) % U32) \div LockSize
      <4>1. probe = "done"
        BY <2>3, <2>4, DriverIs DEF ProbeInv
      <4> QED BY <4>1, LaidOutIs DEF ProbeInv, Locks, AfterLocks, Ends
    <3>9. drv.rxqNum = r
      BY <2>3, <2>4, <3>6 DEF Sizes
    <3>10. drv.lockCnt = r
      BY <3>7, <3>8, <3>9, LockCount
    <3> QED BY <3>1, <3>7, <3>10
  <2>11. t \in Configurable => drv.ipc[x].client = ClientTypes[t].name
    BY <2>7, <2>9
  <2> QED BY <2>2, <2>10, <2>11
<1> QED BY <1>1, <1>2 DEF ClientSetUp, ProbeInv

-----------------------------------------------------------------------------
(* The signals of the display *)

\* The rows of the display are those of the ids of its type.
LEMMA DpuTable ==
  ASSUME NEW v \in DOMAIN IpcBase, NEW base, base = IpcBase[v], NEW i \in DOMAIN base, base[i].client = "dpu"
  PROVE  i \in DpuIds /\ \A j \in DpuIds : j \in DOMAIN base /\ base[j].client = "dpu"
<1>1. PICK S : S = {id \in DOMAIN base : base[id].client = "dpu"}
  OBVIOUS
<1>2. S = {} \/ S = DpuIds
  BY <1>1, BaseIs
<1>3. i \in S
  BY <1>1
<1>4. S = DpuIds
  BY <1>2, <1>3
<1> QED BY <1>1, <1>3, <1>4

\* The rows of the display's clients: one type has them all.
LEMMA DpuIs ==
  ASSUME ProbeInv, NEW c \in Callers, Placed(c), DpuRow(IdOf(c))
  PROVE  /\ TypeOf(c) = TypeOf(DpuClient)
         /\ \A d \in Callers : Placed(d) /\ TypeOf(d) = TypeOf(DpuClient) => DpuRow(IdOf(d))
<1>1. PICK x, t, z : x = IdOf(c) /\ t = TypeOf(c) /\ z = TypeOf(DpuClient)
  OBVIOUS
<1>2. x \in DOMAIN drv.ipc /\ drv.ipc[x].client = "dpu"
  BY <1>1 DEF DpuRow
<1>3. PICK v : Tables(v)
  BY <1>2, TableIs
<1>4. PICK base : base = IpcBase[v]
  OBVIOUS
<1>5. v \in DOMAIN IpcBase
  BY <1>3 DEF Tables
<1>6. /\ x \in Nat /\ c \in Nat /\ t \in Types
      /\ c \in ClientTypes[t].init..ClientTypes[t].init + drv.desc[t].clients - 1
      /\ c < StaticIndex => x = c /\ drv.ipc[x] = base[x] /\ x \in DOMAIN base
      /\ c >= StaticIndex => v = ConfigVersion /\ t \in Configurable /\ drv.ipc[x].client = ClientTypes[t].name
  BY <1>1, <1>3, <1>4, RowIs
<1>7. StaticIndex \in Nat /\ z \in Types /\ \A id \in DpuIds : id < StaticIndex
  BY <1>1, IpcAssumption, TypesAre
<1>8. c < StaticIndex
  <2> SUFFICES ASSUME c >= StaticIndex PROVE FALSE
    BY <1>6, <1>7
  <2>1. PICK i : i = StaticIndex + t - StaticTypes
    OBVIOUS
  <2>2. base[i].client = ClientTypes[t].name /\ t \in Configurable
    BY <1>4, <1>5, <1>6, <2>1, BaseIs
  <2>3. i \in 0..StaticIndex + Cardinality(Configurable) - 1 /\ i >= StaticIndex
    BY <2>1, <2>2, TypesAre
  <2>4. DOMAIN base = 0..StaticIndex + Cardinality(Configurable) - 1
    BY <1>4, <1>5, BaseIs
  <2>5. base[i].client = "dpu"
    BY <1>2, <1>6, <2>2
  <2>6. i \in DpuIds
    BY <1>4, <1>5, <2>3, <2>4, <2>5, DpuTable
  <2> QED BY <1>7, <2>3, <2>6
<1>9. c \in DpuIds /\ \A j \in DpuIds : j \in DOMAIN base /\ base[j].client = "dpu"
  <2>1. x \in DOMAIN base /\ base[x].client = "dpu" /\ x = c
    BY <1>2, <1>6, <1>8
  <2>2. x \in DpuIds /\ \A j \in DpuIds : j \in DOMAIN base /\ base[j].client = "dpu"
    BY <1>4, <1>5, <2>1, DpuTable
  <2> QED BY <2>1, <2>2
<1>10. DpuIds = ClientTypes[z].init..ClientTypes[z].init + ClientTypes[z].max - 1
  BY <1>1 DEF DpuIds
<1>11. t = z
  BY <1>1, <1>7, <1>9, <1>10, TypeIs
<1>12. ASSUME NEW d \in Callers, Placed(d), TypeOf(d) = z
       PROVE  DpuRow(IdOf(d))
  <2>1. PICK y : y = IdOf(d)
    OBVIOUS
  <2>2. /\ y \in DOMAIN drv.ipc /\ Bounded(drv.desc)
    BY <1>12, <2>1, PlacedIs
  <2>3. /\ y \in Nat /\ d \in Nat
        /\ d \in ClientTypes[z].init..ClientTypes[z].init + drv.desc[z].clients - 1
        /\ d < StaticIndex => y = d /\ drv.ipc[y] = base[y]
    BY <1>3, <1>4, <1>12, <2>1, RowIs
  <2>4. PICK i, m, k : i = ClientTypes[z].init /\ m = ClientTypes[z].max /\ k = drv.desc[z].clients
    OBVIOUS
  <2>5. i \in Nat /\ m \in Nat
    BY <1>7, <2>4, TypeNumbers
  <2>6. k \in Nat /\ k <= m
    BY <1>7, <2>2, <2>4 DEF Bounded
  <2>7. d \in i..i + k - 1
    BY <2>3, <2>4
  <2>8. d \in i..i + m - 1
    BY <2>3, <2>5, <2>6, <2>7
  <2>9. d \in DpuIds
    BY <1>10, <2>4, <2>8
  <2>10. y = d /\ drv.ipc[y] = base[y] /\ base[y].client = "dpu"
    BY <1>7, <1>9, <2>3, <2>9
  <2> QED BY <2>1, <2>2, <2>10 DEF DpuRow
<1> QED BY <1>1, <1>11, <1>12

\* The conjuncts of DpuInv.
Enabling == \A c \in Callers : client[c] = "enable" => drv.dpuInit
Enabled == drv.dpuInit /\ (\A c \in Callers : client[c] # "enable") =>
              signalsOn = {id \in 0..drv.clientsNum - 1 : DpuRow(id)}
After == \A c \in Registered : DpuRow(IdOf(c)) => drv.dpuInit

\* DpuInv is their conjunction.
LEMMA DpuInvIs == DpuInv <=> Enabling /\ Enabled /\ After
BY DEF DpuInv, Enabling, Enabled, After

\* What stays as it is while clients come and go.
LEMMA DpuKept ==
  ASSUME drv'["desc"] = drv["desc"], drv'["ipc"] = drv["ipc"], drv'["clientsNum"] = drv["clientsNum"]
  PROVE  /\ \A c \in Callers : IdOf(c)' = IdOf(c)
         /\ \A x : DpuRow(x)' <=> DpuRow(x)
         /\ {id \in 0..drv.clientsNum - 1 : DpuRow(id)}' = {id \in 0..drv.clientsNum - 1 : DpuRow(id)}
<1>1. ASSUME NEW c \in Callers PROVE IdOf(c)' = IdOf(c)
  BY DEF IdOf
<1>2. ASSUME NEW x PROVE DpuRow(x)' <=> DpuRow(x)
  BY DEF DpuRow
<1> QED BY <1>1, <1>2

\* A step of the display's clients.
LEMMA DpuClientStep ==
  ASSUME ProbeInv, DpuInv, NEW c \in Callers, Register(c)
  PROVE  DpuInv'
<1>1. /\ Opens(c) \/ Refused(c) \/ Sets(c) \/ Signals(c) \/ Enables(c) \/ Closes(c)
      /\ ~Enables(c) => signalsOn' = signalsOn
  BY ClientMoves DEF ProbeInv
<1>2. /\ drv'["desc"] = drv["desc"] /\ drv'["ipc"] = drv["ipc"] /\ drv'["clientsNum"] = drv["clientsNum"]
      /\ Signals(c) \/ drv'["dpuInit"] = drv["dpuInit"]
  BY <1>1 DEF Opens, Refused, Sets, Signals, Enables, Closes, Kept, Fields
<1>3. /\ \A d \in Callers : IdOf(d)' = IdOf(d)
      /\ \A x : DpuRow(x)' <=> DpuRow(x)
      /\ {id \in 0..drv.clientsNum - 1 : DpuRow(id)}' = {id \in 0..drv.clientsNum - 1 : DpuRow(id)}
  BY <1>2, DpuKept
<1>4. /\ client \in [Callers -> {"none", "setup", "signal", "enable", "registered", "unlink", "refused", "oops"}]
      /\ \A d \in Callers : d # c => client'[d] = client[d]
  BY <1>1 DEF Opens, Refused, Sets, Signals, Enables, Closes, TypeOK, ProbeInv
<1>5. Enabling /\ Enabled /\ After
  BY DpuInvIs
<1>6. DpuInv' <=> Enabling' /\ Enabled' /\ After'
  BY DEF DpuInv, Enabling, Enabled, After

\* A client that goes to enable the signals has said so.
<1>7. /\ drv.dpuInit => drv'.dpuInit
      /\ client'[c] = "enable" => drv'.dpuInit
  BY <1>1, <1>2, <1>4 DEF Opens, Refused, Sets, Signals, Enables, Closes, Kept, Fields
<1>8. Enabling'
  BY <1>4, <1>5, <1>7 DEF Enabling
<1>9. Enabled'
  <2> SUFFICES ASSUME drv'.dpuInit, \A d \in Callers : client'[d] # "enable"
               PROVE  signalsOn' = {id \in 0..drv.clientsNum - 1 : DpuRow(id)}
    BY <1>3 DEF Enabled
  <2>1. CASE Enables(c)
    BY <2>1 DEF Enables
  <2>2. CASE ~Enables(c)
    <3>1. drv.dpuInit
      BY <1>1, <1>2, <1>4 DEF Signals
    <3>2. \A d \in Callers : client[d] # "enable"
      <4>1. client[c] # "enable"
        BY <1>1, <2>2 DEF Opens, Refused, Sets, Signals, Closes
      <4> QED BY <1>4, <4>1
    <3> QED BY <1>1, <1>5, <2>2, <3>1, <3>2 DEF Enabled
  <2> QED BY <2>1, <2>2
<1>10. After'
  <2> SUFFICES ASSUME NEW d \in Callers, client'[d] = "registered", DpuRow(IdOf(d))
               PROVE  drv'.dpuInit
    BY <1>3 DEF After, Registered
  <2>1. CASE d # c \/ ~(Signals(c) \/ Enables(c))
    <3>1. d \in Registered
      <4>1. CASE d # c
        BY <1>4, <2>1, <4>1 DEF Registered
      <4>2. CASE d = c
        BY <1>1, <1>4, <2>1, <4>2 DEF Registered, Opens, Refused, Sets, Closes
      <4> QED BY <4>1, <4>2
    <3>2. drv.dpuInit
      BY <1>5, <3>1 DEF After
    <3> QED BY <1>7, <3>2
  <2>2. CASE d = c /\ Enables(c)
    BY <1>5, <1>7, <2>2 DEF Enables, Enabling
  <2>3. CASE d = c /\ Signals(c)
    <3>1. Placed(c)
      BY <2>3 DEF Signals, Placed
    <3>2. TypeOf(c) = TypeOf(DpuClient)
      BY <2>3, <3>1, DpuIs
    <3> QED BY <1>4, <2>3, <3>2 DEF Signals
  <2> QED BY <2>1, <2>2, <2>3
<1> QED BY <1>6, <1>8, <1>9, <1>10

\* Every step keeps DpuInv.
LEMMA DpuStep ==
  ASSUME ProbeInv, DpuInv, [Next]_vars
  PROVE  DpuInv'
<1>1. ASSUME ProbeInit \/ Probe
      PROVE  DpuInv'
  <2>1. ~drv.ready
    BY <1>1, ProbeMoves DEF TypeOK, ProbeInv
  <2>2. client' = client /\ \A c \in Callers : client[c] = "none"
    BY <1>1, <2>1, ProbeMoves DEF ProbeInv, ClientInv, clientVars
  <2>3. ~drv'.dpuInit
    <3>1. ~drv["dpuInit"]
      BY <2>1 DEF ProbeInv, ClientInv
    <3>2. Restart \/ Parse \/ Counted \/ Mapped \/ GoesOn
      BY <1>1, ProbeMoves DEF ProbeInv
    <3>3. drv'["dpuInit"] = drv["dpuInit"] \/ drv' = NewDriver \/ drv' = Layout
      BY <3>2 DEF Restart, Parse, Counted, Mapped, GoesOn, Kept, Fields
    <3>4. NewDriver.dpuInit = FALSE
      BY DEF NewDriver
    <3>5. Layout.dpuInit = FALSE
      BY DEF Layout, NewDriver
    <3> QED BY <3>1, <3>3, <3>4, <3>5
  <2> QED BY <2>2, <2>3 DEF DpuInv, Registered
<1>2. ASSUME client' = client, signalsOn' = signalsOn, \A f \in Fields \ {"vmReady"} : drv'[f] = drv[f]
      PROVE  DpuInv'
  <2>1. /\ drv'["dpuInit"] = drv["dpuInit"] /\ drv'["desc"] = drv["desc"]
        /\ drv'["clientsNum"] = drv["clientsNum"] /\ drv'["ipc"] = drv["ipc"]
    BY <1>2 DEF Fields
  <2>2. /\ \A c \in Callers : IdOf(c)' = IdOf(c)
        /\ \A x : DpuRow(x)' <=> DpuRow(x)
        /\ {id \in 0..drv.clientsNum - 1 : DpuRow(id)}' = {id \in 0..drv.clientsNum - 1 : DpuRow(id)}
    BY <2>1, DpuKept
  <2>3. Enabling' /\ Enabled' /\ After'
    BY <1>2, <2>1, <2>2, DpuInvIs DEF Enabling, Enabled, After, Registered
  <2> QED BY <2>3 DEF DpuInv, Enabling, Enabled, After
<1>3. CASE PeerStarts \/ PeerGoes \/ Callback
  BY <1>2, <1>3, PeerMoves DEF Kept, clientVars, ProbeInv
<1>4. CASE UNCHANGED vars
  BY <1>2, <1>4 DEF vars, probeVars, clientVars
<1>5. ASSUME NEW c \in Callers, Register(c)
      PROVE  DpuInv'
  BY <1>5, DpuClientStep DEF ProbeInv
<1> QED BY <1>1, <1>3, <1>4, <1>5, NextMoves

\* No client is registered before the probe.
LEMMA DpuInit == Init => DpuInv
BY DEF Init, DpuInv, NewDriver, Registered

\* A registered display client has its signal enabled, or somebody is at it.
LEMMA DpuHolds == ASSUME ProbeInv, DpuInv PROVE DpuSignalled
<1> SUFFICES ASSUME NEW c \in Registered, DpuRow(IdOf(c)), \A d \in Callers : client[d] # "enable"
             PROVE  IdOf(c) \in signalsOn
  BY DEF DpuSignalled
<1>1. c \in Callers /\ Placed(c)
  BY DEF Registered, Placed
<1>2. PICK x : x = IdOf(c)
  OBVIOUS
<1>3. PICK v : Tables(v)
  BY TableIs DEF DpuRow
<1>4. PICK base, t : base = IpcBase[v] /\ t = TypeOf(c)
  OBVIOUS
<1>5. x \in 0..drv.clientsNum - 1
  BY <1>1, <1>2, <1>3, <1>4, RowIs
<1>6. Enabled /\ After
  BY DpuInvIs
<1>7. drv.dpuInit
  BY <1>6 DEF After
<1>8. signalsOn = {id \in 0..drv.clientsNum - 1 : DpuRow(id)}
  BY <1>6, <1>7 DEF Enabled
<1> QED BY <1>2, <1>5, <1>8

\* A registered client has an id and an interrupt that no other one has, the ipc client of its
\* type, and a lock word: hw_fence_utils_get_client_id_priv, hw_fence_ipcc_get_signal_id.
THEOREM ClientsSetUp == Spec => []ClientSetUp
BY ProbeInvariant, SetUpHolds, PTL

\* Who enables the display signals, however registrations of display clients overlap.
THEOREM DpuInvariant == Spec => []DpuInv
<1>1. Init => DpuInv
  BY DpuInit
<1>2. ProbeInv /\ DpuInv /\ [Next]_vars => DpuInv'
  BY DpuStep
<1> QED BY <1>1, <1>2, ProbeInvariant, PTL DEF Spec

\* The signal of every registered display client is enabled, by the first one of them, or
\* the first one is still at it: hw_fence_ipcc_enable_dpu_signaling, called by
\* hw_fence_init_controller_signal after it said that it is done.
THEOREM DisplaySignalled == Spec => []DpuSignalled
<1>1. ProbeInv /\ DpuInv => DpuSignalled
  BY DpuHolds
<1> QED BY <1>1, ProbeInvariant, DpuInvariant, PTL

-----------------------------------------------------------------------------
(* The layout of the memory *)

\* PAGE_ALIGN rounds up by less than a page.
LEMMA AlignIs == ASSUME NEW n \in Nat, NEW a, a = PageAlign(n) PROVE a \in Nat /\ n <= a /\ a <= n + Page - 1
<1>1. Page \in Nat \ {0}
  BY LayoutAssumption
<1>2. PICK b : b = n + Page - 1
  OBVIOUS
<1>3. b \in Nat
  BY <1>1, <1>2
<1>4. PICK q, r : q = b \div Page /\ r = b % Page
  OBVIOUS
<1>5. q \in Nat /\ r \in 0..Page - 1 /\ b = Page * q + r
  <2>1. \A z \in Nat : z \div Page \in Nat /\ z % Page \in 0..Page - 1
    BY <1>1
  <2>2. b \in Int
    BY <1>3
  <2>3. b = Page * q + r
    BY <1>1, <1>4, <2>2, DivMod
  <2> QED BY <1>3, <1>4, <2>1, <2>3
<1>6. a = q * Page
  BY <1>2, <1>4 DEF PageAlign
<1>7. PICK p : p = Page * q
  OBVIOUS
<1>8. p \in Nat /\ a = p
  BY <1>1, <1>5, <1>6, <1>7
<1>9. b = p + r
  BY <1>5, <1>7
<1> QED BY <1>1, <1>2, <1>5, <1>8, <1>9

\* A description of queues that the parser accepted.
Sized(d) == d.queues \in 1..HW_FENCE_CLIENT_QUEUES /\ d.entries \in Nat

\* What is stored in a u32 is a natural.
LEMMA ModNat == ASSUME NEW n \in Nat, NEW r, r = n % U32 PROVE r \in Nat
<1>1. U32 \in Nat \ {0}
  BY LayoutAssumption
<1> QED BY <1>1

\* The size of a client's memory is a natural.
LEMMA MemIs ==
  ASSUME NEW d, Sized(d), NEW m, m = MemSize(d)
  PROVE  m \in Nat
<1>1. /\ U32 \in Nat \ {0} /\ TableHeader \in Nat /\ QueueHeader \in Nat /\ Payload \in Nat
      /\ d.queues \in Nat /\ d.entries \in Nat
  <2>1. d.queues \in Nat /\ d.entries \in Nat
    BY DEF Sized, HW_FENCE_CLIENT_QUEUES
  <2> QED BY <2>1, LayoutAssumption
<1>2. PICK q, s, h, k : /\ q = d.queues /\ s = QueueSize(d) /\ h = ClientHeaders(q)
                        /\ k = (s * q) % U32
  OBVIOUS
<1>3. s \in Nat
  <2>1. PICK p : p = Payload * d.entries
    OBVIOUS
  <2>2. p \in Nat /\ s = p % U32
    BY <1>1, <1>2, <2>1 DEF QueueSize
  <2> QED BY <2>2, ModNat
<1>4. h \in Nat /\ k \in Nat
  <2>1. PICK p, z : p = s * q /\ z = QueueHeader * q
    OBVIOUS
  <2>2. p \in Nat /\ k = p % U32
    BY <1>1, <1>2, <1>3, <2>1
  <2>3. z \in Nat /\ h = TableHeader + z
    BY <1>1, <1>2, <2>1 DEF ClientHeaders
  <2>4. k \in Nat
    BY <2>2, ModNat
  <2> QED BY <1>1, <2>3, <2>4
<1>5. PICK n, a : n = h + k /\ a = PageAlign(n)
  OBVIOUS
<1>6. a \in Nat
  BY <1>4, <1>5, AlignIs
<1>7. m = a % U32
  BY <1>2, <1>5 DEF MemSize
<1> QED BY <1>6, <1>7, ModNat

\* The checks of hw_fence_utils_parse_dt_props make the queues of a client fit in its memory:
\* none of the u32 computations of its size wraps.
THEOREM QueuesFit ==
  ASSUME NEW d, Sized(d), NEW y, ValidDesc(y, d)
  PROVE  ClientHeaders(d.queues) + d.queues * Payload * d.entries <= MemSize(d)
<1>1. /\ U32 \in Nat \ {0} /\ TableHeader \in Nat /\ QueueHeader \in Nat /\ Payload \in Nat \ {0}
      /\ Page \in Nat \ {0}
  BY LayoutAssumption
<1>2. PICK q, e, s, h, p : /\ q = d.queues /\ e = d.entries /\ s = QueueSize(d) /\ h = ClientHeaders(q)
                           /\ p = Payload * e
  OBVIOUS
<1>3. q \in {1, 2} /\ e \in Nat /\ h \in Nat /\ p \in Nat
  BY <1>1, <1>2 DEF Sized, HW_FENCE_CLIENT_QUEUES, ClientHeaders
<1>4. e < (U32 - 1) \div Payload /\ s < (U32 - Page - h) \div q
  BY <1>2 DEF ValidDesc
<1>5. p + Payload <= U32 - 1
  <2>1. PICK b : b = U32 - 1
    OBVIOUS
  <2>2. b \in Int /\ e < b \div Payload
    BY <1>1, <1>4, <2>1
  <2>3. Payload * e + Payload <= b
    BY <1>1, <1>3, <2>2, Below
  <2> QED BY <1>2, <2>1, <2>3
<1>6. s = p
  <2>1. p < U32
    BY <1>1, <1>3, <1>5
  <2>2. p % U32 = p
    BY <1>1, <1>3, <2>1, Small
  <2> QED BY <1>2, <2>2 DEF QueueSize
<1>7. q * s + q <= U32 - Page - h
  <2>1. PICK b : b = U32 - Page - h
    OBVIOUS
  <2>2. b \in Int /\ s < b \div q
    BY <1>1, <1>3, <1>4, <2>1
  <2>3. s \in Nat /\ q \in Nat \ {0}
    BY <1>3, <1>6
  <2>4. q * s + q <= b
    BY <2>2, <2>3, Below
  <2> QED BY <2>1, <2>4
<1>8. PICK k : k = q * s
  OBVIOUS
<1>9. k \in Nat /\ k + h + Page < U32 /\ s * q = k
  BY <1>1, <1>3, <1>6, <1>7, <1>8
<1>10. k % U32 = k
  <2>1. k < U32
    BY <1>1, <1>3, <1>9
  <2> QED BY <1>1, <1>9, <2>1, Small
<1>11. PICK n, a : n = h + k /\ a = PageAlign(n)
  OBVIOUS
<1>12. n \in Nat /\ a \in Nat /\ n <= a /\ a <= n + Page - 1
  <2>1. n \in Nat
    BY <1>3, <1>9, <1>11
  <2> QED BY <1>11, <2>1, AlignIs
<1>13. a < U32
  BY <1>1, <1>3, <1>9, <1>11, <1>12
<1>14. a % U32 = a
  BY <1>1, <1>12, <1>13, Small
<1>15. MemSize(d) = a
  BY <1>2, <1>9, <1>10, <1>11, <1>14 DEF MemSize
<1>16. q * Payload * e = k
  <2>1. CASE q = 1
    BY <1>1, <1>2, <1>3, <1>6, <1>8, <2>1
  <2>2. CASE q = 2
    <3>1. 2 * Payload * e = 2 * (Payload * e)
      BY <1>1, <1>3
    <3> QED BY <1>2, <1>6, <1>8, <2>2, <3>1
  <2> QED BY <1>3, <2>1, <2>2
<1> QED BY <1>2, <1>11, <1>12, <1>15, <1>16

\* What the layout sums is a sum of a function.
MemOf(desc) == [e \in ConfiguredIds(desc) |-> MemSize(desc[TypeOf(e)])]

\* MapThenSumSet of those sizes.
LEMMA MemAre ==
  ASSUME NEW desc, IsFiniteSet(ConfiguredIds(desc)), NEW S \in SUBSET ConfiguredIds(desc)
  PROVE  MapThenSumSet(LAMBDA e : MemSize(desc[TypeOf(e)]), S) = Sum(MemOf(desc), S)
<1>1. PICK f : f = MemOf(desc)
  OBVIOUS
<1> DEFINE P(g) == g = [s \in SUBSET S |-> IF s = {} THEN 0
                                           ELSE MemSize(desc[TypeOf(CHOOSE x \in s : TRUE)])
                                                  + g[s \ {CHOOSE x \in s : TRUE}]]
<1>2. \A s \in SUBSET S : s # {} => f[Any(s)] = MemSize(desc[TypeOf(Any(s))])
  BY <1>1, AnyIn DEF MemOf
<1>3. ASSUME NEW g PROVE P(g) <=> Iter(g, f, S)
  <2>1. [s \in SUBSET S |-> IF s = {} THEN 0 ELSE f[Any(s)] + g[s \ {Any(s)}]]
        = [s \in SUBSET S |-> IF s = {} THEN 0
                              ELSE MemSize(desc[TypeOf(Any(s))]) + g[s \ {Any(s)}]]
    BY <1>2
  <2> QED BY <2>1 DEF Iter, Any
<1>4. MapThenSumSet(LAMBDA e : MemSize(desc[TypeOf(e)]), S) = (CHOOSE g : P(g))[S]
  BY DEF MapThenSumSet, MapThenFoldSet
<1>5. IsFiniteSet(S)
  BY FS_Subset
<1>6. \E g : P(g)
  <2>1. \E g : Iter(g, f, S)
    BY <1>5, IterExists
  <2> HIDE DEF P
  <2> QED BY <1>3, <2>1
<1>7. PICK k : k = CHOOSE g : P(g)
  OBVIOUS
<1>8. P(k)
  <2> HIDE DEF P
  <2> QED BY <1>6, <1>7
<1>9. Iter(k, f, S)
  BY <1>3, <1>8
<1>10. Sum(f, S) = k[S]
  BY <1>5, <1>9, SumIs
<1> HIDE DEF P
<1> QED BY <1>1, <1>4, <1>7, <1>10

\* The parser leaves such a description of every type.
LEMMA TreeSized ==
  ASSUME tree \in Trees, ValidTypes, NEW t \in Types
  PROVE  Sized(TreeDesc[t]) /\ ValidDesc(ClientTypes[t], TreeDesc[t])
<1>1. PICK p, y, d : p = tree.types[t] /\ y = ClientTypes[t] /\ d = Desc(y, p, tree.queue)
  OBVIOUS
<1>2. (p = NoProp \/ p.entries \in Nat) /\ tree.queue \in Nat
  BY <1>1, ProbeAssumption
<1>3. d.entries \in Nat
  BY <1>1, <1>2 DEF Desc
<1>4. TreeDesc[t] = d
  BY <1>1 DEF TreeDesc
<1>5. ValidDesc(y, d)
  BY <1>1 DEF ValidTypes
<1>6. d.queues \in 1..HW_FENCE_CLIENT_QUEUES
  BY <1>5 DEF ValidDesc
<1> QED BY <1>1, <1>3, <1>4, <1>5, <1>6 DEF Sized

\* There are finitely many configured ids.
LEMMA IdsAre ==
  ASSUME NEW desc, Bounded(desc)
  PROVE  /\ IsFiniteSet(ConfiguredIds(desc))
         /\ \A e \in ConfiguredIds(desc) : e \in Nat /\ e < ClientMax /\ TypeOf(e) \in Types
<1>1. ASSUME NEW e \in ConfiguredIds(desc)
      PROVE  e \in Nat /\ e < ClientMax /\ TypeOf(e) \in Types
  <2>1. PICK t \in Types : e \in ClientTypes[t].init..ClientTypes[t].init + desc[t].clients - 1
    BY DEF ConfiguredIds
  <2>2. TypeOf(e) = t /\ e \in Nat
    BY <2>1, IdOfConfigured DEF IdIs
  <2>3. PICK i, m, k : i = ClientTypes[t].init /\ m = ClientTypes[t].max /\ k = desc[t].clients
    OBVIOUS
  <2>4. i \in Nat /\ m \in Nat /\ i + m <= ClientMax
    BY <2>3, TypeNumbers
  <2>5. k \in Nat /\ k <= m /\ e \in i..i + k - 1
    BY <2>1, <2>3 DEF Bounded
  <2>6. ClientMax \in Nat
    BY TypesAre
  <2> QED BY <2>2, <2>4, <2>5, <2>6
<1>2. ConfiguredIds(desc) \in SUBSET (0..ClientMax)
  BY <1>1, TypesAre
<1>3. IsFiniteSet(0..ClientMax)
  BY FS_Interval, TypesAre
<1>4. IsFiniteSet(ConfiguredIds(desc))
  BY <1>2, <1>3, FS_Subset
<1> QED BY <1>1, <1>4

\* A driver that is ready on a tree without zeros, whose memory is less than 2^32 bytes.
Fits == ProbeInv /\ drv.ready /\ FullTree /\ TotalSize < U32
Mems == MemOf(drv.desc)
Ids == ConfiguredIds(drv.desc)
IdsBelow(e) == {i \in Ids : i < e}

\* What is known of such a driver.
LEMMA FitsIs ==
  ASSUME Fits
  PROVE  /\ Sizes /\ Bounded(drv.desc) /\ probe = "done" /\ drv.used <= tree.size
         /\ \A t \in Types : Sized(drv.desc[t]) /\ ValidDesc(ClientTypes[t], drv.desc[t])
         /\ IsFiniteSet(Ids)
         /\ \A e \in Ids : e \in Nat /\ e < ClientMax /\ TypeOf(e) \in Types /\ Mems[e] \in Nat
<1>1. probe = "done" /\ tree \in Trees
  BY DEF Fits, ProbeInv, TypeOK
<1>2. Sizes /\ drv.used <= tree.size
  BY <1>1, LaidOutIs DEF Fits, ProbeInv, Filled, Before
<1>3. PICK d : d = TreeDesc
  OBVIOUS
<1>4. drv.desc = d /\ ValidTypes
  BY <1>2, <1>3 DEF Sizes
<1>5. Bounded(d)
  BY <1>1, <1>3, <1>4, TreeBounded
<1>6. \A t \in Types : Sized(d[t]) /\ ValidDesc(ClientTypes[t], d[t])
  BY <1>1, <1>3, <1>4, TreeSized
<1>7. /\ IsFiniteSet(ConfiguredIds(d))
      /\ \A e \in ConfiguredIds(d) : e \in Nat /\ e < ClientMax /\ TypeOf(e) \in Types
  BY <1>5, IdsAre
<1>8. ASSUME NEW e \in ConfiguredIds(d) PROVE MemOf(d)[e] \in Nat
  <2>1. PICK x : x = d[TypeOf(e)]
    OBVIOUS
  <2>2. Sized(x)
    BY <1>6, <1>7, <2>1
  <2>3. MemSize(x) \in Nat
    BY <2>2, MemIs
  <2> QED BY <2>1, <2>3 DEF MemOf
<1> QED BY <1>1, <1>2, <1>4, <1>5, <1>6, <1>7, <1>8 DEF Ids, Mems

\* The whole entries of a memory do not exceed it.
LEMMA WholeEntries ==
  ASSUME NEW n \in Nat, NEW f \in Nat \ {0}
  PROVE  f * (n \div f) \in Nat /\ f * (n \div f) <= n
<1>1. PICK x, y : x = n \div f /\ y = n % f
  OBVIOUS
<1>2. n \in Int
  OBVIOUS
<1>3. n = f * x + y
  BY <1>1, <1>2, DivMod
<1>4. x \in Nat /\ y \in Nat
  BY <1>1
<1>5. PICK p : p = f * x
  OBVIOUS
<1>6. p \in Nat /\ n = p + y
  BY <1>3, <1>4, <1>5
<1> QED BY <1>1, <1>4, <1>5, <1>6

\* The regions of the controller, the locks and the table, and where the queues start.
LEMMA FixedRegions ==
  ASSUME Fits, NEW k, k = drv.ctrlSize, NEW l, l = LockSize * drv.lockCnt, NEW s, s = drv.tableSize,
         NEW b, b = TreeBase, NEW m, m = Sum(Mems, Ids)
  PROVE  /\ k \in Nat /\ l \in Nat /\ s \in Nat /\ b \in Nat /\ m \in Nat
         /\ FenceSize * drv.tableCnt \in Nat /\ FenceSize * drv.tableCnt <= s
         /\ LocksStart = k /\ TableStart = k + l /\ k + l + s <= b
         /\ b + m < U32 /\ b + m <= tree.size
<1>1. /\ Sizes /\ Bounded(drv.desc) /\ probe = "done" /\ drv.used <= tree.size
      /\ IsFiniteSet(Ids) /\ \A e \in Ids : e \in Nat /\ e < ClientMax /\ Mems[e] \in Nat
  BY FitsIs
<1>2. /\ U32 \in Nat \ {0} /\ FenceSize \in Nat \ {0} /\ LockSize \in Nat \ {0} /\ CtrlPayload \in Nat
      /\ TableHeader \in Nat /\ QueueHeader \in Nat
  BY LayoutAssumption
<1>3. tree.table \in Nat /\ tree.queue \in Nat
  BY ProbeAssumption DEF Fits, ProbeInv, TypeOK
<1>4. s \in Nat
  <2>1. PICK p : p = FenceSize * tree.table
    OBVIOUS
  <2>2. p \in Nat /\ s = p % U32
    BY <1>1, <1>2, <1>3, <2>1 DEF Sizes, TreeTableSize
  <2> QED BY <2>2, ModNat
<1>5. k \in Nat
  <2>1. PICK p : p = CtrlPayload * tree.queue
    OBVIOUS
  <2>2. PICK q : q = CtrlQueueSize(tree.queue)
    OBVIOUS
  <2>3. p \in Nat /\ q = p % U32
    BY <1>2, <1>3, <2>1, <2>2 DEF CtrlQueueSize
  <2>4. q \in Nat
    BY <2>3, ModNat
  <2>5. PICK n : n = CtrlHeaders + HW_FENCE_CTRL_QUEUES * q
    OBVIOUS
  <2>6. n \in Nat
    BY <1>2, <2>4, <2>5 DEF CtrlHeaders, HW_FENCE_CTRL_QUEUES
  <2>7. k = n % U32
    BY <1>1, <2>2, <2>5 DEF Sizes, TreeCtrlSize
  <2> QED BY <2>6, <2>7, ModNat
<1>6. PICK r : r = drv.rxqNum
  OBVIOUS
<1>7. r \in Nat /\ r < ClientMax
  <2>1. r = RxqClientsNum(drv.desc)
    BY <1>1, <1>6 DEF Sizes
  <2> QED BY <1>1, <2>1, RxqIs
<1>8. drv.lockCnt = r
  <2>1. drv.lockCnt = (LocksSize(r) % U32) \div LockSize
    BY <1>1, <1>6, LaidOutIs DEF Fits, ProbeInv, Locks, AfterLocks, Ends
  <2> QED BY <1>7, <2>1, LockCount
<1>9. l \in Nat /\ LocksSize(r) = l
  BY <1>2, <1>7, <1>8 DEF LocksSize
<1>10. PICK n, a : n = k + l + s /\ a = PageAlign(n)
  OBVIOUS
<1>11. n \in Nat /\ a \in Nat /\ n <= a
  <2>1. n \in Nat
    BY <1>4, <1>5, <1>9, <1>10
  <2> QED BY <1>10, <2>1, AlignIs
<1>12. a = QueuesStart(drv.ctrlSize, drv.tableSize, drv.rxqNum)
  BY <1>6, <1>9, <1>10 DEF QueuesStart
<1>13. m \in Nat
  BY <1>1, SumOf
<1>14. TotalSize = a + m
  <2>1. Ids \in SUBSET Ids
    OBVIOUS
  <2>2. MapThenSumSet(LAMBDA e : MemSize(drv.desc[TypeOf(e)]), Ids) = Sum(Mems, Ids)
    BY <1>1, MemAre DEF Ids, Mems
  <2> QED BY <1>12, <2>2 DEF TotalSize, Ids
<1>15. a + m < U32
  BY <1>14 DEF Fits
<1>16. b = a
  <2>1. a < U32
    BY <1>2, <1>11, <1>13, <1>15
  <2>2. a % U32 = a
    BY <1>2, <1>11, <2>1, Small
  <2>3. b = QueuesStart(drv.ctrlSize, drv.tableSize, drv.rxqNum) % U32
    BY <1>1 DEF Sizes, TreeBase
  <2> QED BY <1>12, <2>2, <2>3
<1>17. drv.used = b + m
  <2>1. PICK x : x = ClientMax
    OBVIOUS
  <2>2. {e \in Ids : e < ClientMax} = Ids
    BY <1>1
  <2>3. drv.used = (b + MapThenSumSet(LAMBDA e : MemSize(drv.desc[TypeOf(e)]), {e \in Ids : e < ClientMax})) % U32
    BY <1>1 DEF Sizes, UsedMemSize, StartOffset, Ids
  <2>4. MapThenSumSet(LAMBDA e : MemSize(drv.desc[TypeOf(e)]), Ids) = Sum(Mems, Ids)
    BY <1>1, MemAre DEF Ids, Mems
  <2>5. drv.used = (b + m) % U32
    BY <2>2, <2>3, <2>4
  <2>6. PICK z : z = b + m
    OBVIOUS
  <2>7. z \in Nat /\ z < U32
    BY <1>11, <1>13, <1>15, <1>16, <2>6
  <2>8. z % U32 = z
    BY <1>2, <2>7, Small
  <2> QED BY <2>5, <2>6, <2>8
<1>18. LocksStart = k /\ TableStart = k + l
  <2>1. PICK z : z = k + l
    OBVIOUS
  <2>2. z \in Nat /\ z < U32
    BY <1>2, <1>4, <1>5, <1>9, <1>10, <1>11, <1>13, <1>15, <2>1
  <2>3. z % U32 = z
    BY <1>2, <2>2, Small
  <2>4. TableStart = z % U32
    BY <1>6, <1>9, <2>1 DEF TableStart
  <2> QED BY <2>1, <2>3, <2>4 DEF LocksStart
<1>19. FenceSize * drv.tableCnt \in Nat /\ FenceSize * drv.tableCnt <= s
  <2>1. drv.tableCnt = s \div FenceSize
    BY <1>1, LaidOutIs DEF Fits, ProbeInv, Table, AfterLocks, Ends
  <2> QED BY <1>2, <1>4, <2>1, WholeEntries
<1> QED BY <1>1, <1>4, <1>5, <1>9, <1>10, <1>11, <1>13, <1>15, <1>16, <1>17, <1>18, <1>19

\* The queues of the clients, one after the other.
LEMMA StartIs ==
  ASSUME Fits, NEW e \in Ids, NEW b, b = TreeBase, NEW x, x = Sum(Mems, IdsBelow(e))
  PROVE  /\ StartOffset(drv.desc, b, e) = b + x /\ x \in Nat /\ x + Mems[e] <= Sum(Mems, Ids)
         /\ \A d \in Ids : d < e => Sum(Mems, IdsBelow(d)) + Mems[d] <= x
<1>1. /\ IsFiniteSet(Ids) /\ \A i \in Ids : i \in Nat /\ Mems[i] \in Nat
  BY FitsIs
<1>2. PICK m : m = Sum(Mems, Ids)
  OBVIOUS
<1>3. b \in Nat /\ m \in Nat /\ b + m < U32
  BY <1>2, FixedRegions
<1>4. PICK S, f, T : S = Ids /\ f = Mems /\ T = IdsBelow(e)
  OBVIOUS
<1>5. T \in SUBSET S /\ e \in S \ T /\ IsFiniteSet(T) /\ (\A i \in T : f[i] \in Nat)
  <2>1. e \notin T /\ T \in SUBSET S
    BY <1>1, <1>4 DEF IdsBelow
  <2>2. IsFiniteSet(T)
    BY <1>1, <1>4, <2>1, FS_Subset
  <2> QED BY <1>1, <1>4, <2>1, <2>2
<1>6. Sum(f, T) + f[e] <= Sum(f, S)
  BY <1>1, <1>4, <1>5, SumAdd
<1>7. x \in Nat /\ x + Mems[e] <= m
  <2>1. Sum(f, T) \in Nat
    BY <1>5, SumOf
  <2> QED BY <1>2, <1>4, <1>6, <2>1
<1>8. ASSUME NEW d \in Ids, d < e
      PROVE  Sum(Mems, IdsBelow(d)) + Mems[d] <= x
  <2>1. PICK U : U = IdsBelow(d)
    OBVIOUS
  <2>2. \A i \in U : i \in Ids /\ i < d
    BY <2>1 DEF IdsBelow
  <2>3. ASSUME NEW i \in U PROVE i \in T
    <3>1. i \in Nat /\ d \in Nat /\ e \in Nat /\ i < d /\ i \in Ids
      BY <1>1, <2>2
    <3>2. i < e
      BY <1>8, <3>1
    <3> QED BY <1>4, <3>1, <3>2 DEF IdsBelow
  <2>4. d \in T /\ d \notin U
    BY <1>1, <1>4, <1>8, <2>1 DEF IdsBelow
  <2>5. U \in SUBSET T /\ d \in T \ U
    BY <2>3, <2>4
  <2>6. Sum(f, U) + f[d] <= Sum(f, T)
    BY <1>5, <2>5, SumAdd
  <2> QED BY <1>4, <2>1, <2>6
<1>9. StartOffset(drv.desc, b, e) = b + x
  <2>1. IdsBelow(e) \in SUBSET ConfiguredIds(drv.desc) /\ IsFiniteSet(ConfiguredIds(drv.desc))
    BY <1>1 DEF IdsBelow, Ids
  <2>2. PICK W : W = IdsBelow(e)
    OBVIOUS
  <2>3. MapThenSumSet(LAMBDA i : MemSize(drv.desc[TypeOf(i)]), W) = Sum(MemOf(drv.desc), W)
    BY <2>1, <2>2, MemAre
  <2>4. StartOffset(drv.desc, b, e) = (b + MapThenSumSet(LAMBDA i : MemSize(drv.desc[TypeOf(i)]), W)) % U32
    BY <2>2 DEF StartOffset, IdsBelow, Ids
  <2>5. StartOffset(drv.desc, b, e) = (b + x) % U32
    BY <2>2, <2>3, <2>4 DEF Mems
  <2>6. PICK z : z = b + x
    OBVIOUS
  <2>7. Mems[e] \in Nat
    BY <1>1
  <2>8. U32 \in Nat \ {0}
    BY LayoutAssumption
  <2>9. z \in Nat /\ z < U32
    BY <1>3, <1>7, <2>6, <2>7, <2>8
  <2>10. z % U32 = z
    BY <2>8, <2>9, Small
  <2> QED BY <2>5, <2>6, <2>10
<1> QED BY <1>2, <1>7, <1>8, <1>9

\* Whose queues are at an id that has memory.
Owner(id) == CHOOSE e \in Ids : ClientIdPriv(drv.desc, e) = id

\* What its entry holds.
LEMMA QueueIs ==
  ASSUME Fits, NEW id \in DOMAIN drv.queueSize, drv.queueSize[id].mem # 0, NEW e, e = Owner(id)
  PROVE  /\ e \in Ids /\ ClientIdPriv(drv.desc, e) = id
         /\ drv.queueSize[id].mem = Mems[e]
         /\ drv.queueSize[id].start = StartOffset(drv.desc, TreeBase, e)
         /\ drv.queueSize[id].queues = drv.desc[TypeOf(e)].queues
         /\ drv.queueSize[id].entries = drv.desc[TypeOf(e)].entries
<1>1. Sizes
  BY FitsIs
<1>2. PICK d, b, n : d = drv.desc /\ b = TreeBase /\ n = ClientsNum(d)
  OBVIOUS
<1>3. drv.queueSize = ClientQueueSize(d, b)
  BY <1>1, <1>2 DEF Sizes
<1>4. id \in 0..n - 1
  BY <1>2, <1>3 DEF ClientQueueSize
<1>5. \E i \in ConfiguredIds(d) : ClientIdPriv(d, i) = id
  <2> SUFFICES ASSUME ~\E i \in ConfiguredIds(d) : ClientIdPriv(d, i) = id PROVE FALSE
    OBVIOUS
  <2>1. drv.queueSize[id] = NoQueues
    BY <1>2, <1>3, <1>4 DEF ClientQueueSize
  <2> QED BY <2>1 DEF NoQueues
<1>6. e \in ConfiguredIds(d) /\ ClientIdPriv(d, e) = id
  BY <1>2, <1>5 DEF Owner, Ids
<1>7. e = CHOOSE i \in ConfiguredIds(d) : ClientIdPriv(d, i) = id
  BY <1>2 DEF Owner, Ids
<1>8. PICK y : y = d[TypeOf(e)]
  OBVIOUS
<1>9. drv.queueSize[id] = [queues |-> y.queues, entries |-> y.entries, mem |-> MemSize(y),
                           start |-> StartOffset(d, b, e), skip |-> y.skip]
  BY <1>2, <1>3, <1>4, <1>5, <1>7, <1>8 DEF ClientQueueSize
<1>10. MemSize(y) = Mems[e]
  BY <1>2, <1>6, <1>8 DEF Mems, MemOf
<1> QED BY <1>2, <1>6, <1>8, <1>9, <1>10 DEF Ids

\* The region of a client's queues.
LEMMA ClientRegion ==
  ASSUME Fits, NEW id \in DOMAIN drv.queueSize, drv.queueSize[id].mem # 0, NEW b, b = TreeBase,
         NEW s, s = drv.queueSize[id].start, NEW m, m = drv.queueSize[id].mem
  PROVE  s \in Nat /\ m \in Nat /\ b <= s /\ s + m <= tree.size
<1>1. PICK e : e = Owner(id)
  OBVIOUS
<1>2. e \in Ids /\ m = Mems[e] /\ s = StartOffset(drv.desc, b, e)
  BY <1>1, QueueIs
<1>3. PICK x, z : x = Sum(Mems, IdsBelow(e)) /\ z = Sum(Mems, Ids)
  OBVIOUS
<1>4. s = b + x /\ x \in Nat /\ x + m <= z
  BY <1>2, <1>3, StartIs
<1>5. m \in Nat
  BY <1>2, FitsIs
<1>6. b \in Nat /\ z \in Nat /\ b + z <= tree.size
  BY <1>3, FixedRegions
<1>7. tree.size \in Nat
  BY ProbeAssumption DEF Fits, ProbeInv, TypeOK
<1> QED BY <1>4, <1>5, <1>6, <1>7

\* Two of them do not overlap.
LEMMA ClientsApart ==
  ASSUME Fits, NEW id \in DOMAIN drv.queueSize, drv.queueSize[id].mem # 0,
         NEW jd \in DOMAIN drv.queueSize, drv.queueSize[jd].mem # 0, id # jd
  PROVE  \/ drv.queueSize[id].start + drv.queueSize[id].mem <= drv.queueSize[jd].start
         \/ drv.queueSize[jd].start + drv.queueSize[jd].mem <= drv.queueSize[id].start
<1>1. PICK e, d, b : e = Owner(id) /\ d = Owner(jd) /\ b = TreeBase
  OBVIOUS
<1>2. /\ e \in Ids /\ ClientIdPriv(drv.desc, e) = id /\ drv.queueSize[id].mem = Mems[e]
      /\ drv.queueSize[id].start = StartOffset(drv.desc, b, e)
  BY <1>1, QueueIs
<1>3. /\ d \in Ids /\ ClientIdPriv(drv.desc, d) = jd /\ drv.queueSize[jd].mem = Mems[d]
      /\ drv.queueSize[jd].start = StartOffset(drv.desc, b, d)
  BY <1>1, QueueIs
<1>4. e # d
  BY <1>2, <1>3
<1>5. e \in Nat /\ d \in Nat /\ Mems[e] \in Nat /\ Mems[d] \in Nat
  BY <1>2, <1>3, FitsIs
<1>6. PICK x, y, z : x = Sum(Mems, IdsBelow(e)) /\ y = Sum(Mems, IdsBelow(d)) /\ z = Sum(Mems, Ids)
  OBVIOUS
<1>7. drv.queueSize[id].start = b + x /\ x \in Nat /\ (d < e => y + Mems[d] <= x)
  BY <1>1, <1>2, <1>3, <1>6, StartIs
<1>8. drv.queueSize[jd].start = b + y /\ y \in Nat /\ (e < d => x + Mems[e] <= y)
  BY <1>1, <1>2, <1>3, <1>6, StartIs
<1>9. b \in Nat
  BY <1>1, <1>6, FixedRegions
<1>10. PICK p, q : p = Mems[e] /\ q = Mems[d]
  OBVIOUS
<1>11. (d < e => b + y + q <= b + x) /\ (e < d => b + x + p <= b + y)
  BY <1>5, <1>7, <1>8, <1>9, <1>10
<1>12. d < e \/ e < d
  BY <1>4, <1>5
<1> QED BY <1>2, <1>3, <1>7, <1>8, <1>10, <1>11, <1>12

\* No two regions overlap.
LEMMA RegionsHold == ProbeInv => RegionsDisjoint
<1> SUFFICES ASSUME ProbeInv, drv.ready, Complete, TotalSize < U32
             PROVE  /\ \A r, s \in Regions : r # s => r.end <= s.start \/ s.end <= r.start
                    /\ \A r \in Regions : r.end <= tree.size
                    /\ \A id \in DOMAIN drv.queueSize :
                          LET q == drv.queueSize[id] IN
                          q.mem # 0 => ClientHeaders(q.queues) + q.queues * Payload * q.entries <= q.mem
  BY DEF RegionsDisjoint
<1>1. Fits
  BY DEF Fits, FullTree, Complete
<1>2. PICK k, l, s, t, b, m : /\ k = drv.ctrlSize /\ l = LockSize * drv.lockCnt /\ s = drv.tableSize
                              /\ t = FenceSize * drv.tableCnt /\ b = TreeBase /\ m = Sum(Mems, Ids)
  OBVIOUS
<1>3. /\ k \in Nat /\ l \in Nat /\ s \in Nat /\ b \in Nat /\ m \in Nat /\ t \in Nat /\ t <= s
      /\ LocksStart = k /\ TableStart = k + l /\ k + l + s <= b /\ b + m <= tree.size
  BY <1>1, <1>2, FixedRegions
<1>4. tree.size \in Nat
  BY ProbeAssumption DEF ProbeInv, TypeOK
<1> DEFINE Held(id) == id \in DOMAIN drv.queueSize /\ drv.queueSize[id].mem # 0
           Of(id) == Region(<<"client", id>>, drv.queueSize[id].start, drv.queueSize[id].mem)
<1>5. ASSUME NEW id, Held(id)
      PROVE  Of(id).start \in Nat /\ b <= Of(id).start /\ Of(id).end \in Nat /\ Of(id).end <= tree.size
  <2>1. PICK i, n : i = drv.queueSize[id].start /\ n = drv.queueSize[id].mem
    OBVIOUS
  <2>2. i \in Nat /\ n \in Nat /\ b <= i /\ i + n <= tree.size
    BY <1>1, <1>2, <1>5, <2>1, ClientRegion
  <2>3. Of(id).start = i /\ Of(id).end = i + n
    BY <2>1 DEF Region
  <2> QED BY <2>2, <2>3
<1>6. ASSUME NEW id, Held(id), NEW jd, Held(jd), id # jd
      PROVE  Of(id).end <= Of(jd).start \/ Of(jd).end <= Of(id).start
  <2>1. \/ drv.queueSize[id].start + drv.queueSize[id].mem <= drv.queueSize[jd].start
        \/ drv.queueSize[jd].start + drv.queueSize[jd].mem <= drv.queueSize[id].start
    BY <1>1, <1>6, ClientsApart
  <2> QED BY <2>1 DEF Region
<1> DEFINE C == Region(<<"ctrl", 0>>, CtrlStart, drv.ctrlSize)
           L == Region(<<"locks", 0>>, LocksStart, LockSize * drv.lockCnt)
           T == Region(<<"table", 0>>, TableStart, FenceSize * drv.tableCnt)
<1>7. /\ C.start = 0 /\ C.end = k /\ L.start = k /\ L.end = k + l /\ T.start = k + l /\ T.end = k + l + t
  BY <1>2, <1>3 DEF Region, CtrlStart
<1>8. ASSUME NEW r \in {C, L, T}
      PROVE  r.end \in Nat /\ r.end <= b /\ r.end <= tree.size
  BY <1>3, <1>4, <1>7, <1>8
<1>9. C.end <= L.start /\ C.end <= T.start /\ L.end <= T.start
  BY <1>3, <1>7
<1>10. ASSUME NEW r \in Regions
       PROVE  r \in {C, L, T} \/ \E id : Held(id) /\ r = Of(id)
  BY <1>10 DEF Regions
<1> HIDE DEF Held, Of, C, L, T
<1>11. ASSUME NEW r \in Regions, NEW u \in Regions, r # u
       PROVE  r.end <= u.start \/ u.end <= r.start
  <2>1. CASE r \in {C, L, T} /\ u \in {C, L, T}
    BY <1>9, <1>11, <2>1
  <2>2. ASSUME r \in {C, L, T}, NEW id, Held(id), u = Of(id) PROVE r.end <= u.start
    BY <1>3, <1>5, <1>8, <2>2
  <2>3. ASSUME u \in {C, L, T}, NEW id, Held(id), r = Of(id) PROVE u.end <= r.start
    BY <1>3, <1>5, <1>8, <2>3
  <2>4. ASSUME NEW id, Held(id), r = Of(id), NEW jd, Held(jd), u = Of(jd)
        PROVE  r.end <= u.start \/ u.end <= r.start
    BY <1>6, <1>11, <2>4
  <2> QED BY <1>10, <2>1, <2>2, <2>3, <2>4
<1>12. ASSUME NEW r \in Regions PROVE r.end <= tree.size
  BY <1>5, <1>8, <1>10
<1>13. ASSUME NEW id \in DOMAIN drv.queueSize, NEW q, q = drv.queueSize[id], q.mem # 0
       PROVE  ClientHeaders(q.queues) + q.queues * Payload * q.entries <= q.mem
  <2>1. PICK e, d : e = Owner(id) /\ d = drv.desc[TypeOf(e)]
    OBVIOUS
  <2>2. e \in Ids /\ q.mem = Mems[e] /\ q.queues = d.queues /\ q.entries = d.entries
    BY <1>1, <1>13, <2>1, QueueIs
  <2>3. TypeOf(e) \in Types
    BY <1>1, <2>2, FitsIs
  <2>4. Sized(d) /\ ValidDesc(ClientTypes[TypeOf(e)], d)
    BY <1>1, <2>1, <2>3, FitsIs
  <2>5. ClientHeaders(d.queues) + d.queues * Payload * d.entries <= MemSize(d)
    BY <2>4, QueuesFit
  <2>6. Mems[e] = MemSize(d)
    BY <2>1, <2>2 DEF Mems, MemOf, Ids
  <2> QED BY <2>2, <2>5, <2>6
<1> QED BY <1>11, <1>12, <1>13

\* The control queues, the locks, the table and the queues of every client lie in the memory, and
\* no two of them overlap: hw_fence_utils_reserve_mem and the offsets it adds up.
THEOREM MemoryDisjoint == Spec => []RegionsDisjoint
BY ProbeInvariant, RegionsHold, PTL

=============================================================================
