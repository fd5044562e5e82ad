------------------------------ MODULE EthProofs ------------------------------
(***************************************************************************)
(* What the receiving half of the Ethernet driver keeps true, for any      *)
(* number of descriptors and buffers and any number of failures of the     *)
(* link:                                                                   *)
(*   EthTypes             every variable keeps its type                    *)
(*   EveryBufferHasOwner  no buffer is lost or in two hands                *)
(*   FramesAreQueued      the driver implements RxQueue                    *)
(***************************************************************************)
EXTENDS EthDriver, FunctionTheorems, FiniteSetTheorems, TLAPS

N == ETH_RX_DESC_CNT

(* How far a descriptor lies ahead of the one that is read next.           *)
Ahead(r, d) == IF d >= r THEN d - r ELSE d - r + N

(* Before the link has first been found no descriptor has a buffer.        *)
Fresh ==
  /\ gState = "READY" /\ p = NULL /\ held = {}
  /\ OWN = [d \in Descs |-> TRUE]
  /\ DESC2 = [d \in Descs |-> NULL] /\ BackupAddr0 = [d \in Descs |-> NULL]
  /\ RxDescIdx = 0 /\ RxBuildDescIdx = 0 /\ RxBuildDescCnt = 0 /\ DMACHRDR = 0
  /\ pool = [i \in Buffers |-> i]

(* From then on each keeps the address of one.                             *)
DescInv == Fresh \/ \A d \in Descs : DESC2[d] # NULL

HandInv == pc = "stack" <=> p # NULL

(* The ring, seen from r, which is read next: k descriptors with frames up *)
(* to where the DMA is, then its own, then, from b on, the c that wait for *)
(* a buffer.                                                               *)
Holds(k, mac, r, b, c, own, backup, desc2) ==
  /\ k + c <= N
  /\ mac = Plus(r, k)
  /\ r = Plus(b, c)
  /\ \A d \in Descs :
       /\ own[d] <=> k <= Ahead(r, d) /\ Ahead(r, d) < N - c
       /\ backup[d] = IF Ahead(r, d) < N - c THEN desc2[d] ELSE NULL

InRing(k) ==
  Holds(k, DMACHRDR, RxDescIdx, RxBuildDescIdx, RxBuildDescCnt, OWN, BackupAddr0, DESC2)

RingInv == Fresh \/ \E k \in 0 .. N : InRing(k)

(* A buffer is in the pool, at a descriptor, with LwIP or in hand: once.   *)
InPool(seq, b) == \E i \in DOMAIN seq : seq[i] = b
AtDesc(backup, b) == \E d \in Descs : backup[d] = b

Owners(seq, backup, kept, x) ==
  /\ \A i, j \in DOMAIN seq : seq[i] = seq[j] => i = j
  /\ \A d, e \in Descs : backup[d] = backup[e] /\ backup[d] # NULL => d = e
  /\ \A b \in Buffers :
       /\ InPool(seq, b) => ~AtDesc(backup, b) /\ b \notin kept /\ b # x
       /\ AtDesc(backup, b) => b \notin kept /\ b # x
       /\ b \in kept => b # x
       /\ InPool(seq, b) \/ AtDesc(backup, b) \/ b \in kept \/ b = x

OwnersInv == Owners(pool, BackupAddr0, held, p)

Base == TypeOK /\ HandInv /\ DescInv

IInv == Base /\ (sound => RingInv /\ OwnersInv)


-----------------------------------------------------------------------------
(* Going round the ring.                                                   *)
LEMMA PlusIs ==
  ASSUME NEW d \in Descs, NEW n \in 0 .. N
  PROVE  Plus(d, n) \in Descs /\ Plus(d, n) = IF d + n < N THEN d + n ELSE d + n - N
<1>0. N \in Nat \ {0} /\ Descs = 0 .. N - 1
  BY EthAssumption DEF N, Descs
<1>1. CASE d + n < N
  BY <1>0, <1>1 DEF Plus, N
<1>2. CASE d + n >= N
  <2>1. PICK x \in 0 .. N - 1 \cup {N} : d + n = N + x
    <3>1. d + n - N \in 0 .. N - 1
      BY <1>0, <1>2
    <3> QED
      BY <1>0, <3>1
  <2> QED
    BY <1>0, <1>2 DEF Plus, N
<1> QED
  BY <1>0, <1>1, <1>2

LEMMA AheadIs ==
  ASSUME NEW r \in Descs, NEW d \in Descs
  PROVE  Ahead(r, d) \in Descs /\ Plus(r, Ahead(r, d)) = d
<1>0. N \in Nat \ {0} /\ Descs = 0 .. N - 1
  BY EthAssumption DEF N, Descs
<1>1. Ahead(r, d) \in 0 .. N - 1
  BY <1>0 DEF Ahead
<1>2. Ahead(r, d) \in 0 .. N
  BY <1>0, <1>1
<1>3. Plus(r, Ahead(r, d)) = IF r + Ahead(r, d) < N THEN r + Ahead(r, d) ELSE r + Ahead(r, d) - N
  BY <1>2, PlusIs
<1>4. r \in 0 .. N - 1 /\ d \in 0 .. N - 1
  BY <1>0
<1>5. CASE d >= r
  BY <1>0, <1>1, <1>3, <1>4, <1>5 DEF Ahead
<1>6. CASE d < r
  BY <1>0, <1>1, <1>3, <1>4, <1>6 DEF Ahead
<1> QED
  BY <1>0, <1>4, <1>5, <1>6

LEMMA AheadOf ==
  ASSUME NEW r \in Descs, NEW n \in Descs
  PROVE  Ahead(r, Plus(r, n)) = n
<1>0. N \in Nat \ {0} /\ Descs = 0 .. N - 1
  BY EthAssumption DEF N, Descs
<1>1. n \in 0 .. N
  BY <1>0
<1>2. Plus(r, n) = IF r + n < N THEN r + n ELSE r + n - N
  BY <1>1, PlusIs
<1>3. r \in 0 .. N - 1 /\ n \in 0 .. N - 1
  BY <1>0
<1> QED
  BY <1>0, <1>2, <1>3 DEF Ahead

-----------------------------------------------------------------------------
(* What ETH_UpdateDescriptor does: it goes over the first m descriptors    *)
(* from b on and fills those without a buffer, in the order in which they  *)
(* come, with the first t of the pool; f numbers them.                     *)
Gone(b, m) == {d \in Descs : Ahead(b, d) < m}
Filled(b, m, backup) == {d \in Gone(b, m) : backup[d] = NULL}

Updates(cnt, own, backup, m, t, f) ==
  LET b == RxBuildDescIdx
      new == Filled(b, m, backup)
  IN  /\ f \in [new -> 1 .. t]
      /\ \A d, e \in new : f[d] = f[e] => d = e
      /\ \A i \in 1 .. t : \E d \in new : f[d] = i
      /\ BackupAddr0' = [d \in Descs |-> IF d \in new THEN pool[f[d]] ELSE backup[d]]
      /\ DESC2' = [d \in Descs |-> IF d \in new THEN pool[f[d]] ELSE DESC2[d]]
      /\ OWN' = [d \in Descs |-> own[d] \/ d \in Gone(b, m)]
      /\ pool' = SubSeq(pool, t + 1, Len(pool))
      /\ RxAllocStatus' = IF m < cnt THEN "ERROR" ELSE RxAllocStatus
      /\ RxBuildDescIdx' = Plus(b, m)
      /\ RxBuildDescCnt' = cnt - m

(* The descriptors without a buffer, counted from b on.                    *)
Missing(b, backup, i) == {j \in 1 .. i : backup[Plus(b, j - 1)] = NULL}

Counts(miss, b, backup) ==
  /\ miss \in [Nat -> Nat]
  /\ \A i \in Nat : miss[i] = Cardinality(Missing(b, backup, i)) /\ miss[i] <= i
  /\ \A i \in Nat : miss[i + 1] <= miss[i] + 1
  /\ \A i, j \in Nat : i <= j => miss[i] <= miss[j]
  /\ \A i, j \in Nat : i < j /\ backup[Plus(b, j - 1)] = NULL => miss[i] < miss[j]

LEMMA MissingFinite ==
  ASSUME NEW b, NEW backup, NEW i \in Nat
  PROVE  /\ IsFiniteSet(Missing(b, backup, i)) /\ Cardinality(Missing(b, backup, i)) \in Nat
         /\ Cardinality(Missing(b, backup, i)) <= i
<1>1. IsFiniteSet(1 .. i) /\ Cardinality(1 .. i) = i
  BY FS_Interval
<1>2. Missing(b, backup, i) \in SUBSET (1 .. i)
  BY DEF Missing
<1> QED
  BY <1>1, <1>2, FS_Subset, FS_CardinalityType

LEMMA Counted == ASSUME NEW b, NEW backup PROVE \E miss : Counts(miss, b, backup)
<1> DEFINE S(i) == Missing(b, backup, i)
           miss == [i \in Nat |-> Cardinality(S(i))]
<1>1. miss \in [Nat -> Nat] /\ \A i \in Nat : miss[i] = Cardinality(S(i)) /\ miss[i] <= i
  BY MissingFinite
<1>2. \A i, j \in Nat : i <= j => miss[i] <= miss[j]
  <2> TAKE i, j \in Nat
  <2> HAVE i <= j
  <2>1. S(i) \in SUBSET S(j)
    BY DEF Missing
  <2>2. IsFiniteSet(S(j))
    BY MissingFinite
  <2>3. Cardinality(S(i)) <= Cardinality(S(j))
    BY <2>1, <2>2, FS_Subset
  <2> QED
    BY <2>3
<1>3. \A i \in Nat : miss[i + 1] = IF backup[Plus(b, (i + 1) - 1)] = NULL THEN miss[i] + 1 ELSE miss[i]
  <2> TAKE i \in Nat
  <2>0. miss[i] = Cardinality(S(i)) /\ miss[i + 1] = Cardinality(S(i + 1)) /\ IsFiniteSet(S(i))
    BY MissingFinite
  <2> HIDE DEF miss
  <2>1. CASE backup[Plus(b, (i + 1) - 1)] = NULL
    <3>1. S(i + 1) = S(i) \cup {i + 1} /\ i + 1 \notin S(i)
      BY <2>1 DEF Missing
    <3>2. Cardinality(S(i) \cup {i + 1}) = Cardinality(S(i)) + 1
      BY <2>0, <3>1, FS_AddElement
    <3> QED
      BY <2>0, <2>1, <3>1, <3>2
  <2>2. CASE backup[Plus(b, (i + 1) - 1)] # NULL
    <3>1. S(i + 1) = S(i)
      BY <2>2 DEF Missing
    <3> QED
      BY <2>0, <2>2, <3>1
  <2> QED
    BY <2>1, <2>2
<1> HIDE DEF miss
<1>4. \A i \in Nat : miss[i + 1] <= miss[i] + 1
  BY <1>1, <1>3
<1>5. \A i, j \in Nat : i < j /\ backup[Plus(b, j - 1)] = NULL => miss[i] < miss[j]
  <2> TAKE i, j \in Nat
  <2> HAVE i < j /\ backup[Plus(b, j - 1)] = NULL
  <2>1. PICK k \in Nat : j = k + 1 /\ i <= k
    <3>1. j - 1 \in Nat /\ j = (j - 1) + 1 /\ i <= j - 1
      OBVIOUS
    <3> QED
      BY <3>1
  <2>2. miss[j] = miss[k] + 1
    BY <1>3, <2>1
  <2> QED
    BY <1>1, <1>2, <2>1, <2>2
<1>6. Counts(miss, b, backup)
  BY <1>1, <1>2, <1>4, <1>5 DEF Counts
<1> QED
  BY <1>6

(* Those for which the buffers suffice.                                    *)
Served(miss, cnt, len) == {i \in 1 .. cnt : miss[i] <= len}

APrefix(miss, cnt, len) ==
  \E m \in 0 .. cnt :
    /\ Served(miss, cnt, len) = 1 .. m /\ Cardinality(Served(miss, cnt, len)) = m
    /\ miss[m] <= len /\ (m < cnt => miss[m] = len)

LEMMA ServedPrefix ==
  ASSUME NEW b, NEW backup, NEW miss, Counts(miss, b, backup),
         NEW cnt \in Nat, NEW len \in Nat
  PROVE  APrefix(miss, cnt, len)
<1> DEFINE served == Served(miss, cnt, len)
<1>0. /\ miss \in [Nat -> Nat] /\ \A i, j \in Nat : i <= j => miss[i] <= miss[j]
      /\ \A i \in Nat : miss[i] <= i /\ miss[i + 1] <= miss[i] + 1
  BY DEF Counts
<1>1. IsFiniteSet(1 .. cnt) /\ Cardinality(1 .. cnt) = cnt
  BY FS_Interval
<1>2. IsFiniteSet(served) /\ Cardinality(served) <= cnt /\ Cardinality(served) \in Nat
  <2>1. served \in SUBSET (1 .. cnt)
    BY DEF Served
  <2> QED
    BY <1>1, <2>1, FS_Subset, FS_CardinalityType
<1>3. PICK m \in 0 .. cnt : m = Cardinality(served)
  BY <1>2
<1>4. \A i \in served : i <= m
  <2> TAKE i \in served
  <2>0. i \in 1 .. cnt /\ miss[i] <= len
    BY DEF Served
  <2>1. 1 .. i \in SUBSET served
    <3> SUFFICES ASSUME NEW k \in 1 .. i PROVE k \in 1 .. cnt /\ miss[k] <= len
      BY DEF Served
    <3>1. k \in Nat /\ i \in Nat /\ k <= i /\ k <= cnt
      BY <2>0
    <3>2. miss[k] <= miss[i] /\ miss[k] \in Nat /\ miss[i] \in Nat
      BY <1>0, <3>1
    <3> QED
      BY <2>0, <3>1, <3>2
  <2>2. i \in Nat /\ Cardinality(1 .. i) = i
    BY <2>0, FS_Interval
  <2>3. Cardinality(1 .. i) <= Cardinality(served)
    BY <1>2, <2>1, FS_Subset
  <2> QED
    BY <1>3, <2>2, <2>3
<1>5. served \in SUBSET (1 .. m)
  BY <1>4 DEF Served
<1>6. IsFiniteSet(1 .. m) /\ Cardinality(1 .. m) = m
  BY FS_Interval
<1>7. served = 1 .. m
  BY <1>3, <1>5, <1>6, FS_Subset
<1>8. miss[m] <= len
  <2>1. CASE m = 0
    BY <1>0, <2>1
  <2>2. CASE m # 0
    <3>1. m \in served
      BY <1>7, <2>2
    <3> QED
      BY <3>1 DEF Served
  <2> QED
    BY <2>1, <2>2
<1>9. ASSUME m < cnt PROVE miss[m] = len
  <2>1. m + 1 \in 1 .. cnt /\ m + 1 \notin served
    BY <1>7, <1>9
  <2>2. miss[m + 1] > len
    BY <1>0, <2>1 DEF Served
  <2> QED
    <3>1. miss[m] \in Nat /\ miss[m + 1] \in Nat /\ miss[m + 1] <= miss[m] + 1
      BY <1>0
    <3> QED
      BY <1>8, <2>2, <3>1
<1> QED
  BY <1>3, <1>7, <1>8, <1>9 DEF APrefix

LEMMA UpdatesIt ==
  ASSUME NEW cnt \in 0 .. N, NEW own, NEW backup \in [Descs -> Buffers \cup {NULL}],
         RxBuildDescIdx \in Descs, pool \in Seq(Buffers),
         UpdateDescriptor(cnt, own, backup)
  PROVE  \E m \in 0 .. cnt : \E t \in 0 .. m : \E f :
           /\ Updates(cnt, own, backup, m, t, f)
           /\ t <= Len(pool) /\ (m < cnt => t = Len(pool))
<1> DEFINE b       == RxBuildDescIdx
           desc(i) == Plus(RxBuildDescIdx, i - 1)
<1>0. N \in Nat \ {0} /\ Descs = 0 .. N - 1 /\ Len(pool) \in Nat /\ cnt \in Nat
  BY EthAssumption DEF N, Descs
<1>1. PICK miss : Counts(miss, b, backup)
  BY Counted
<1>2. /\ miss \in [Nat -> Nat] /\ \A i, j \in Nat : i <= j => miss[i] <= miss[j]
      /\ \A i, j \in Nat : i < j /\ backup[desc(j)] = NULL => miss[i] < miss[j]
      /\ \A i \in Nat : miss[i] <= i /\ miss[i] = Cardinality(Missing(b, backup, i))
  BY <1>1 DEF Counts
<1> DEFINE built == Served(miss, cnt, Len(pool))
           at(d) == {i \in built : desc(i) = d}
<1>5. PICK m \in 0 .. cnt : /\ built = 1 .. m /\ Cardinality(built) = m
                            /\ miss[m] <= Len(pool) /\ (m < cnt => miss[m] = Len(pool))
  <2>1. cnt \in Nat /\ Len(pool) \in Nat
    BY <1>0
  <2>2. APrefix(miss, cnt, Len(pool))
    BY <1>1, <2>1, ServedPrefix
  <2> QED
    BY <2>2 DEF APrefix
<1>i. \A i, j \in Nat :
        backup[desc(i)] = NULL /\ backup[desc(j)] = NULL /\ miss[i] = miss[j] => i = j
  <2> TAKE i, j \in Nat
  <2>1. i < j /\ backup[desc(j)] = NULL => miss[i] < miss[j]
    BY <1>2
  <2>2. j < i /\ backup[desc(i)] = NULL => miss[j] < miss[i]
    BY <1>2
  <2>3. miss[i] \in Nat /\ miss[j] \in Nat
    BY <1>2
  <2> QED
    BY <2>1, <2>2, <2>3
<1>m. m \in Nat /\ m <= N
  BY <1>0
<1>6. PICK t \in 0 .. m : t = miss[m]
  BY <1>2
<1> DEFINE new == Filled(b, m, backup)
           f   == [d \in new |-> miss[Ahead(b, d) + 1]]
<1>7. \A d \in Descs : Ahead(b, d) \in Nat /\ Ahead(b, d) < N /\ desc(Ahead(b, d) + 1) = d
  <2> TAKE d \in Descs
  <2>1. Ahead(b, d) \in Descs /\ Plus(b, Ahead(b, d)) = d
    BY AheadIs
  <2>2. Ahead(b, d) \in Nat /\ Ahead(b, d) < N /\ (Ahead(b, d) + 1) - 1 = Ahead(b, d)
    BY <1>0, <2>1
  <2> QED
    BY <2>1, <2>2
<1>8. \A i \in 1 .. N : desc(i) \in Descs /\ Ahead(b, desc(i)) = i - 1
  <2> TAKE i \in 1 .. N
  <2>1. i - 1 \in Descs /\ i - 1 \in 0 .. N
    BY <1>0
  <2> QED
    BY <2>1, AheadOf, PlusIs
<1>9. \A d \in Descs : at(d) = IF d \in Gone(b, m) THEN {Ahead(b, d) + 1} ELSE {}
  <2> TAKE d \in Descs
  <2>1. \A i \in at(d) : i = Ahead(b, d) + 1 /\ Ahead(b, d) < m
    <3> TAKE i \in at(d)
    <3>1. i \in 1 .. N /\ i <= m /\ desc(i) = d
      BY <1>0, <1>5
    <3>2. Ahead(b, d) = i - 1
      BY <1>8, <3>1
    <3> QED
      BY <3>1, <3>2
  <2>2. Ahead(b, d) < m => Ahead(b, d) + 1 \in at(d)
    <3> HAVE Ahead(b, d) < m
    <3>1. Ahead(b, d) \in Nat /\ Ahead(b, d) + 1 \in 1 .. m
      BY <1>7, <1>m
    <3>2. Ahead(b, d) + 1 \in built /\ desc(Ahead(b, d) + 1) = d
      BY <1>5, <1>7, <3>1
    <3> QED
      BY <3>2
  <2> QED
    BY <2>1, <2>2 DEF Gone
<1>10. \A d \in Descs : d \in Gone(b, m) => (CHOOSE i \in at(d) : TRUE) = Ahead(b, d) + 1
  <2> TAKE d \in Descs
  <2> HAVE d \in Gone(b, m)
  <2>1. at(d) = {Ahead(b, d) + 1}
    BY <1>9
  <2> QED
    BY <2>1
<1>s. \A d \in new : /\ d \in Descs /\ backup[d] = NULL
                     /\ Ahead(b, d) + 1 \in 1 .. m /\ backup[desc(Ahead(b, d) + 1)] = NULL
  <2> TAKE d \in new
  <2>1. d \in Descs /\ backup[d] = NULL /\ Ahead(b, d) < m
    BY DEF Filled, Gone
  <2> QED
    BY <1>7, <1>m, <2>1
<1>11. f \in [new -> 1 .. t]
  <2> SUFFICES ASSUME NEW d \in new PROVE miss[Ahead(b, d) + 1] \in 1 .. t
    OBVIOUS
  <2>1. PICK i \in 1 .. m : i = Ahead(b, d) + 1 /\ backup[desc(i)] = NULL
    BY <1>s
  <2>2. miss[0] < miss[i] /\ miss[i] <= t
    BY <1>2, <1>6, <2>1, SMTT(40)
  <2> QED
    BY <1>2, <2>1, <2>2
<1>12. \A d, e \in new : f[d] = f[e] => d = e
  <2> TAKE d, e \in new
  <2> HAVE f[d] = f[e]
  <2>1. PICK i \in 1 .. m : i = Ahead(b, d) + 1 /\ backup[desc(i)] = NULL
    BY <1>s
  <2>2. PICK j \in 1 .. m : j = Ahead(b, e) + 1 /\ backup[desc(j)] = NULL
    BY <1>s
  <2>3. miss[i] = miss[j]
    BY <2>1, <2>2
  <2>4. i = j
    BY <1>i, <2>1, <2>2, <2>3
  <2>5. d = desc(Ahead(b, d) + 1) /\ e = desc(Ahead(b, e) + 1)
    BY <1>7, <1>s
  <2> QED
    BY <2>1, <2>2, <2>4, <2>5
<1>13. \A i \in 1 .. t : \E d \in new : f[d] = i
  <2> DEFINE S == Missing(b, backup, m)
             g == [i \in S |-> miss[i]]
  <2>1. IsFiniteSet(S) /\ Cardinality(S) = t
    BY <1>2, <1>6, MissingFinite
  <2>2. IsFiniteSet(1 .. t) /\ Cardinality(1 .. t) = t
    BY FS_Interval
  <2>s. \A i \in S : i \in 1 .. m /\ i \in Nat /\ backup[desc(i)] = NULL
    BY DEF Missing
  <2>3. g \in [S -> 1 .. t]
    <3> SUFFICES ASSUME NEW i \in S PROVE miss[i] \in 1 .. t
      OBVIOUS
    <3>1. miss[0] < miss[i] /\ miss[i] <= t
      BY <1>2, <1>6, <2>s, SMTT(40)
    <3> QED
      BY <1>2, <2>s, <3>1
  <2>4. \A i, j \in S : g[i] = g[j] => i = j
    <3> TAKE i, j \in S
    <3>1. i \in Nat /\ j \in Nat /\ backup[desc(i)] = NULL /\ backup[desc(j)] = NULL
      BY <2>s
    <3>2. miss[i] = miss[j] => i = j
      BY <1>i, <3>1
    <3> QED
      BY <3>2
  <2>5. g \in Injection(S, 1 .. t)
    BY <2>3, <2>4, Fun_IsInj
  <2>6. g \in Surjection(S, 1 .. t)
    BY <2>1, <2>2, <2>5, FS_Injection
  <2>7. \A i \in 1 .. t : \E j \in S : g[j] = i
    BY <2>6 DEF Surjection
  <2> TAKE i \in 1 .. t
  <2>8. PICK j \in S : g[j] = i
    BY <2>7
  <2>9. j \in 1 .. N /\ j <= m /\ backup[desc(j)] = NULL /\ miss[j] = i
    BY <1>0, <2>s, <2>8
  <2>10. desc(j) \in Descs /\ Ahead(b, desc(j)) = j - 1
    BY <1>8, <2>9
  <2>11. desc(j) \in new /\ Ahead(b, desc(j)) + 1 = j
    BY <1>0, <2>9, <2>10 DEF Filled, Gone
  <2> QED
    BY <2>9, <2>11
<1> DEFINE miss_(i)  == Cardinality({j \in 1 .. i : backup[desc(j)] = NULL})
           built_    == {i \in 1 .. cnt : miss_(i) <= Len(pool)}
           at_(d)    == {i \in built_ : desc(i) = d}
           attached_ == [d \in Descs |->
                           IF backup[d] = NULL /\ at_(d) # {}
                             THEN pool[miss_(CHOOSE i \in at_(d) : TRUE)] ELSE backup[d]]
           attached  == [d \in Descs |-> IF d \in new THEN pool[f[d]] ELSE backup[d]]
<1>14. \A i \in Nat : miss_(i) = miss[i]
  BY <1>2 DEF Missing
<1>15. built_ = built
  <2>1. \A i \in 1 .. cnt : i \in Nat
    BY <1>0
  <2> QED
    BY <1>14, <2>1 DEF Served
<1>16. \A d \in Descs : at_(d) = at(d)
  BY <1>15
<1>17. Cardinality(built_) = m /\ miss_(Cardinality(built_)) = t
  BY <1>5, <1>6, <1>m, <1>14, <1>15
<1>18. \A d \in Descs : attached_[d] = IF d \in new THEN pool[f[d]] ELSE backup[d]
  <2> TAKE d \in Descs
  <2>1. CASE d \in new
    <3>1. /\ backup[d] = NULL /\ d \in Gone(b, m)
          /\ Ahead(b, d) + 1 \in Nat
      BY <1>7, <2>1 DEF Filled, Gone
    <3>2. at_(d) # {} /\ (CHOOSE i \in at_(d) : TRUE) = Ahead(b, d) + 1
      BY <1>9, <1>10, <1>16, <3>1
    <3>3. miss_(Ahead(b, d) + 1) = f[d]
      BY <1>14, <2>1, <3>1
    <3> QED
      BY <2>1, <3>1, <3>2, <3>3
  <2>2. CASE d \notin new
    <3>1. backup[d] # NULL \/ at_(d) = {}
      BY <1>9, <1>16, <2>2 DEF Filled
    <3> QED
      BY <2>2, <3>1
  <2> QED
    BY <2>1, <2>2
<1>19. /\ BackupAddr0' = attached_
       /\ DESC2' = [d \in Descs |-> IF backup[d] # attached_[d] THEN attached_[d] ELSE DESC2[d]]
       /\ OWN' = [d \in Descs |-> own[d] \/ at_(d) # {}]
       /\ pool' = SubSeq(pool, miss_(Cardinality(built_)) + 1, Len(pool))
       /\ RxAllocStatus' = IF Cardinality(built_) < cnt THEN "ERROR" ELSE RxAllocStatus
       /\ RxBuildDescIdx' = Plus(RxBuildDescIdx, Cardinality(built_))
       /\ RxBuildDescCnt' = cnt - Cardinality(built_)
  BY DEF UpdateDescriptor
<1>20. attached_ = attached
  <2> SUFFICES ASSUME NEW d \in Descs PROVE attached_[d] = attached[d]
    OBVIOUS
  <2> QED
    BY <1>18
<1> HIDE DEF attached_, miss_, built_
<1>21. BackupAddr0' = attached
  BY <1>19, <1>20
<1>22. DESC2' = [d \in Descs |-> IF d \in new THEN pool[f[d]] ELSE DESC2[d]]
  <2> SUFFICES ASSUME NEW d \in Descs PROVE backup[d] # attached_[d] <=> d \in new
    BY <1>18, <1>19
  <2>1. CASE d \in new
    <3>1. f[d] \in 1 .. t /\ backup[d] = NULL
      BY <1>11, <1>s, <2>1
    <3>2. pool[f[d]] \in Buffers
      <4> HIDE DEF f
      <4> QED
        BY <1>0, <1>5, <1>6, <3>1
    <3>3. pool[f[d]] # NULL
      BY <3>2 DEF Buffers, NULL
    <3> QED
      BY <1>18, <2>1, <3>1, <3>3
  <2>2. CASE d \notin new
    BY <1>18, <2>2
  <2> QED
    BY <2>1, <2>2
<1>23. OWN' = [d \in Descs |-> own[d] \/ d \in Gone(b, m)]
  <2>1. \A d \in Descs : at_(d) # {} <=> d \in Gone(b, m)
    BY <1>9, <1>16
  <2> QED
    BY <1>19, <2>1
<1>24. Updates(cnt, own, backup, m, t, f)
  <2> HIDE DEF f
  <2> QED
    BY <1>11, <1>12, <1>13, <1>17, <1>19, <1>21, <1>22, <1>23 DEF Updates
<1> HIDE DEF f
<1> QED
  BY <1>5, <1>6, <1>24

-----------------------------------------------------------------------------
(* What is left of the pool, and what comes back to it.                    *)
LEMMA Rest ==
  ASSUME NEW seq \in Seq(Buffers), NEW t \in Nat, t <= Len(seq)
  PROVE  LET rest == SubSeq(seq, t + 1, Len(seq))
         IN  /\ rest \in Seq(Buffers) /\ Len(rest) = Len(seq) - t
             /\ \A i \in 1 .. Len(rest) : rest[i] = seq[t + i] /\ t + i \in 1 .. Len(seq)
<1>1. Len(seq) \in Nat
  OBVIOUS
<1> QED
  BY <1>1

LEMMA Listed ==
  ASSUME NEW S \in SUBSET Buffers
  PROVE  /\ SetToSeq(S) \in Seq(Buffers)
         /\ \A i, j \in DOMAIN SetToSeq(S) : SetToSeq(S)[i] = SetToSeq(S)[j] => i = j
         /\ \A b : InPool(SetToSeq(S), b) <=> b \in S
<1>1. IsFiniteSet(Buffers)
  BY EthAssumption, FS_Interval DEF Buffers
<1>2. IsFiniteSet(S)
  BY <1>1, FS_Subset
<1>3. PICK n \in Nat : n = Cardinality(S)
  BY <1>2, FS_CardinalityType
<1>4. \E g \in [1 .. n -> S] : IsInjective(g)
  <2>1. ExistsBijection(1 .. n, S)
    BY <1>2, <1>3, FS_CardinalityType
  <2>2. PICK g : g \in Bijection(1 .. n, S)
    BY <2>1 DEF ExistsBijection
  <2>3. g \in [1 .. n -> S] /\ \A i, j \in 1 .. n : g[i] = g[j] => i = j
    BY <2>2, Fun_BijectionProperties
  <2>4. DOMAIN g = 1 .. n
    BY <2>3
  <2>5. IsInjective(g)
    BY <2>3, <2>4 DEF IsInjective
  <2> QED
    BY <2>3, <2>5
<1>5. PICK g : g = SetToSeq(S)
  OBVIOUS
<1>6. g \in [1 .. n -> S] /\ IsInjective(g)
  BY <1>3, <1>4, <1>5 DEF SetToSeq
<1>7. DOMAIN g = 1 .. n /\ \A i, j \in 1 .. n : g[i] = g[j] => i = j
  <2>1. DOMAIN g = 1 .. n
    BY <1>6
  <2> QED
    BY <1>6, <2>1 DEF IsInjective
<1>8. g \in Injection(1 .. n, S)
  BY <1>6, <1>7, Fun_IsInj
<1>9. IsFiniteSet(1 .. n) /\ Cardinality(1 .. n) = n
  BY FS_Interval
<1>10. g \in Surjection(1 .. n, S)
  BY <1>2, <1>3, <1>8, <1>9, FS_Injection
<1>11. \A b \in S : \E i \in 1 .. n : g[i] = b
  BY <1>10 DEF Surjection
<1>12. g \in Seq(Buffers)
  BY <1>6
<1> QED
  BY <1>5, <1>6, <1>7, <1>11, <1>12 DEF InPool

LEMMA UpdateTypes ==
  ASSUME TypeOK, NEW cnt \in 0 .. N, NEW own \in [Descs -> BOOLEAN],
         NEW backup \in [Descs -> Buffers \cup {NULL}],
         UpdateDescriptor(cnt, own, backup)
  PROVE  /\ OWN' \in [Descs -> BOOLEAN]
         /\ DESC2' \in [Descs -> Buffers \cup {NULL}] /\ BackupAddr0' \in [Descs -> Buffers \cup {NULL}]
         /\ RxBuildDescIdx' \in Descs /\ RxBuildDescCnt' \in 0 .. N
         /\ RxAllocStatus' \in {"OK", "ERROR"} /\ pool' \in Seq(Buffers)
         /\ (\A d \in Descs : DESC2[d] # NULL) => \A d \in Descs : DESC2'[d] # NULL
<1>0. /\ RxBuildDescIdx \in Descs /\ pool \in Seq(Buffers) /\ RxAllocStatus \in {"OK", "ERROR"}
      /\ DESC2 \in [Descs -> Buffers \cup {NULL}] /\ N \in Nat /\ Len(pool) \in Nat
  BY EthAssumption DEF TypeOK, N
<1>1. PICK m \in 0 .. cnt, t \in 0 .. cnt : \E f : Updates(cnt, own, backup, m, t, f) /\ t <= Len(pool)
  BY <1>0, UpdatesIt
<1>2. PICK f : Updates(cnt, own, backup, m, t, f) /\ t <= Len(pool)
  BY <1>1
<1> DEFINE new == Filled(RxBuildDescIdx, m, backup)
<1>3. \A d \in new : pool[f[d]] \in Buffers
  BY <1>0, <1>2 DEF Updates
<1>4. NULL \notin Buffers
  BY DEF NULL, Buffers
<1>5. DESC2' \in [Descs -> Buffers \cup {NULL}] /\ BackupAddr0' \in [Descs -> Buffers \cup {NULL}]
  BY <1>0, <1>2, <1>3 DEF Updates
<1>6. (\A d \in Descs : DESC2[d] # NULL) => \A d \in Descs : DESC2'[d] # NULL
  BY <1>2, <1>3, <1>4 DEF Updates
<1>7. OWN' \in [Descs -> BOOLEAN]
  BY <1>2 DEF Updates
<1>8. pool' \in Seq(Buffers)
  BY <1>0, <1>2, Rest DEF Updates
<1>9. RxBuildDescIdx' \in Descs
  <2>1. m \in 0 .. N
    BY <1>0
  <2> QED
    BY <1>0, <1>2, <2>1, PlusIs DEF Updates
<1>10. RxBuildDescCnt' \in 0 .. N
  BY <1>0, <1>2 DEF Updates
<1>11. RxAllocStatus' \in {"OK", "ERROR"}
  BY <1>0, <1>2 DEF Updates
<1> QED
  BY <1>5, <1>6, <1>7, <1>8, <1>9, <1>10, <1>11

(* When the link is found for the first time every descriptor gets a buffer. *)
LEMMA FirstUpdate ==
  ASSUME Fresh, UpdateDescriptor(N, OWN, BackupAddr0)
  PROVE  \A d \in Descs : DESC2'[d] # NULL
<1>0. /\ N \in Nat \ {0} /\ Descs = 0 .. N - 1 /\ N <= ETH_RX_BUFFER_CNT /\ ETH_RX_BUFFER_CNT \in Nat
      /\ N \in 0 .. N
  BY EthAssumption DEF N, Descs
<1>1. /\ pool \in Seq(Buffers) /\ Len(pool) = ETH_RX_BUFFER_CNT
      /\ RxBuildDescIdx \in Descs /\ BackupAddr0 \in [Descs -> Buffers \cup {NULL}]
  BY <1>0 DEF Fresh, Buffers
<1>2. PICK m \in 0 .. N, t \in 0 .. N :
        \E f : Updates(N, OWN, BackupAddr0, m, t, f) /\ t <= m /\ t <= Len(pool) /\ (m < N => t = Len(pool))
  BY <1>0, <1>1, UpdatesIt
<1>3. PICK f : Updates(N, OWN, BackupAddr0, m, t, f)
  BY <1>2
<1>4. m = N /\ t <= Len(pool)
  BY <1>0, <1>1, <1>2
<1>5. ASSUME NEW d \in Descs PROVE DESC2'[d] # NULL
  <2>1. Ahead(RxBuildDescIdx, d) \in Descs
    BY <1>1, AheadIs
  <2>2. d \in Filled(RxBuildDescIdx, m, BackupAddr0)
    BY <1>0, <1>4, <2>1 DEF Filled, Gone, Fresh
  <2>3. f[d] \in 1 .. t /\ DESC2'[d] = pool[f[d]]
    BY <1>3, <2>2 DEF Updates
  <2>4. pool[f[d]] \in Buffers
    BY <1>1, <1>2, <2>3
  <2> QED
    BY <2>3, <2>4 DEF NULL, Buffers
<1> QED
  BY <1>5

-----------------------------------------------------------------------------
(* Types, action by action.                                                *)
LEMMA SomeBuffers ==
  ASSUME TypeOK, NEW S \in SUBSET Buffers
  PROVE  /\ SetToSeq(S) \o pool \in Seq(Buffers)
         /\ IsFiniteSet(held) /\ Cardinality(held) \in Nat
         /\ held \ S \subseteq Buffers /\ Cardinality(held \ S) <= MaxHeld
<1>1. IsFiniteSet(Buffers) /\ held \in SUBSET Buffers /\ Cardinality(held) <= MaxHeld /\ MaxHeld \in Nat
  BY EthAssumption, FS_Interval DEF Buffers, TypeOK
<1>2. IsFiniteSet(held) /\ Cardinality(held) \in Nat
  BY <1>1, FS_Subset, FS_CardinalityType
<1>3. held \ S \in SUBSET held
  OBVIOUS
<1>4. Cardinality(held \ S) <= Cardinality(held) /\ IsFiniteSet(held \ S)
  BY <1>2, <1>3, FS_Subset
<1>5. Cardinality(held \ S) \in Nat
  BY <1>4, FS_CardinalityType
<1>6. SetToSeq(S) \in Seq(Buffers) /\ pool \in Seq(Buffers)
  BY Listed DEF TypeOK
<1> QED
  BY <1>1, <1>2, <1>4, <1>5, <1>6

LEMMA ReadDataTypes == ASSUME Base, ReadData PROVE Base'
<1>0. TypeOK /\ RxDescIdx \in Descs /\ RxBuildDescCnt \in 0 .. N /\ N \in Nat
  BY EthAssumption DEF Base, TypeOK, N
<1>1. /\ RxBuildDescCnt + 1 \in 0 .. N
      /\ UpdateDescriptor(RxBuildDescCnt + 1, OWN, Detached(RxDescIdx))
  BY <1>0 DEF ReadData, Ready, N
<1>2. /\ OWN \in [Descs -> BOOLEAN]
      /\ Detached(RxDescIdx) \in [Descs -> Buffers \cup {NULL}]
  BY <1>0 DEF TypeOK, Detached
<1>3. \A d \in Descs : DESC2[d] # NULL
  BY DEF Base, DescInv, Fresh, ReadData, MayRead
<1>4. /\ p' = DESC2[RxDescIdx] /\ p' \in Buffers /\ p' # NULL
  BY <1>0, <1>3 DEF ReadData, TypeOK
<1>5. /\ OWN' \in [Descs -> BOOLEAN]
      /\ DESC2' \in [Descs -> Buffers \cup {NULL}] /\ BackupAddr0' \in [Descs -> Buffers \cup {NULL}]
      /\ RxBuildDescIdx' \in Descs /\ RxBuildDescCnt' \in 0 .. N
      /\ RxAllocStatus' \in {"OK", "ERROR"} /\ pool' \in Seq(Buffers)
      /\ \A d \in Descs : DESC2'[d] # NULL
  BY <1>0, <1>1, <1>2, <1>3, UpdateTypes
<1>6. RxDescIdx' \in Descs
  <2>1. 1 \in 0 .. N
    BY EthAssumption DEF N
  <2> QED
    BY <1>0, <2>1, PlusIs DEF ReadData
<1>7. handed' \in 0 .. MaxFrames /\ pc' = "stack"
  BY <1>0, <1>4 DEF ReadData, TypeOK
<1>8. TypeOK'
  BY <1>0, <1>4, <1>5, <1>6, <1>7 DEF ReadData, TypeOK, dma, phy, N
<1> QED
  BY <1>4, <1>5, <1>7, <1>8 DEF Base, HandInv, DescInv

LEMMA ReadNothingTypes == ASSUME Base, ReadNothing PROVE Base'
<1>0. TypeOK /\ RxBuildDescCnt \in 0 .. N
  BY DEF Base, TypeOK, N
<1>1. /\ pc = "input" /\ pc' = "timeouts"
      /\ UNCHANGED <<gState, RxDescIdx, p, held, DMACHRDR, content, received, link, flaps, handed, sound>>
  BY DEF ReadNothing, lwip, dma, phy
<1>h. HandInv'
  BY <1>1 DEF Base, HandInv
<1>2. CASE MayRead
  <2>1. UpdateDescriptor(RxBuildDescCnt, OWN, BackupAddr0)
    BY <1>2 DEF ReadNothing
  <2>2. OWN \in [Descs -> BOOLEAN] /\ BackupAddr0 \in [Descs -> Buffers \cup {NULL}]
    BY <1>0 DEF TypeOK
  <2>3. \A d \in Descs : DESC2[d] # NULL
    BY <1>2 DEF Base, DescInv, Fresh, MayRead
  <2>4. /\ OWN' \in [Descs -> BOOLEAN]
        /\ DESC2' \in [Descs -> Buffers \cup {NULL}] /\ BackupAddr0' \in [Descs -> Buffers \cup {NULL}]
        /\ RxBuildDescIdx' \in Descs /\ RxBuildDescCnt' \in 0 .. N
        /\ RxAllocStatus' \in {"OK", "ERROR"} /\ pool' \in Seq(Buffers)
        /\ \A d \in Descs : DESC2'[d] # NULL
    BY <1>0, <2>1, <2>2, <2>3, UpdateTypes
  <2>5. TypeOK'
    BY <1>0, <1>1, <2>4 DEF TypeOK, N
  <2> QED
    BY <1>h, <2>4, <2>5 DEF Base, DescInv
<1>3. CASE ~MayRead
  <2>1. UNCHANGED <<OWN, DESC2, BackupAddr0, RxBuildDescIdx, RxBuildDescCnt, RxAllocStatus, pool>>
    BY <1>3 DEF ReadNothing, buffers
  <2>2. TypeOK'
    BY <1>0, <1>1, <2>1 DEF TypeOK
  <2>3. DescInv'
    BY <1>1, <2>1 DEF Base, DescInv, Fresh
  <2> QED
    BY <1>h, <2>2, <2>3 DEF Base
<1> QED
  BY <1>2, <1>3

LEMMA LinkFoundTypes == ASSUME Base, LinkFound PROVE Base'
<1>0. TypeOK /\ N \in 0 .. N
  BY EthAssumption DEF Base, N
<1>1. /\ pc = "link" /\ pc' = "input" /\ gState' = "STARTED"
      /\ UNCHANGED <<RxDescIdx, p, held, DMACHRDR, content, received, link, flaps, handed>>
      /\ UpdateDescriptor(N, OWN, BackupAddr0)
  BY DEF LinkFound, lwip, dma, phy, RebuildAll, N
<1>2. OWN \in [Descs -> BOOLEAN] /\ BackupAddr0 \in [Descs -> Buffers \cup {NULL}]
  BY <1>0 DEF TypeOK
<1>3. /\ OWN' \in [Descs -> BOOLEAN]
      /\ DESC2' \in [Descs -> Buffers \cup {NULL}] /\ BackupAddr0' \in [Descs -> Buffers \cup {NULL}]
      /\ RxBuildDescIdx' \in Descs /\ RxBuildDescCnt' \in 0 .. N
      /\ RxAllocStatus' \in {"OK", "ERROR"} /\ pool' \in Seq(Buffers)
      /\ (\A d \in Descs : DESC2[d] # NULL) => \A d \in Descs : DESC2'[d] # NULL
  BY <1>0, <1>1, <1>2, UpdateTypes
<1>4. \A d \in Descs : DESC2'[d] # NULL
  BY <1>1, <1>3, FirstUpdate DEF Base, DescInv
<1>5. sound' \in BOOLEAN
  <2>1. sound' = (sound /\ Aligned')
    BY DEF LinkFound
  <2>2. sound \in BOOLEAN
    BY <1>0 DEF TypeOK
  <2> QED
    BY <2>1, <2>2
<1>6. TypeOK'
  BY <1>0, <1>1, <1>3, <1>5 DEF TypeOK, N
<1> QED
  BY <1>1, <1>4, <1>6 DEF Base, HandInv, DescInv

LEMMA FreeTypes ==
  ASSUME Base, StackFrees \/ StackReassembles \/ ReassTimeout
  PROVE  Base'
<1>0. TypeOK /\ held \subseteq Buffers /\ p \in Buffers \cup {NULL}
  BY DEF Base, TypeOK
<1>1. /\ pc' # "stack" /\ pc' \in {"input", "link"} /\ p' = NULL
      /\ UNCHANGED <<gState, ring, dma, phy, handed, sound>>
  BY DEF Base, HandInv, StackFrees, StackReassembles, ReassTimeout
<1>2. /\ UNCHANGED <<gState, OWN, DESC2, BackupAddr0, RxDescIdx, RxBuildDescIdx, RxBuildDescCnt>>
      /\ UNCHANGED <<DMACHRDR, content, received, link, flaps, handed, sound>>
  BY <1>1 DEF ring, dma, phy
<1>3. \E S \in SUBSET Buffers : Free(S)
  <2>1. CASE StackFrees
    BY <1>0, <2>1 DEF StackFrees, Base, HandInv
  <2>2. CASE StackReassembles
    BY <1>0, <2>2 DEF StackReassembles, Base, HandInv
  <2>3. CASE ReassTimeout
    BY <1>0, <2>3 DEF ReassTimeout
  <2> QED
    BY <2>1, <2>2, <2>3
<1>4. pool' \in Seq(Buffers) /\ RxAllocStatus' \in {"OK", "ERROR"}
  BY <1>0, <1>3, SomeBuffers DEF Free, AllocAgain
<1>5. \E S \in SUBSET Buffers : held' = held \ S
  BY <1>0, ZenonT(60) DEF StackFrees, StackReassembles, ReassTimeout
<1>6. held' \subseteq Buffers /\ Cardinality(held') <= MaxHeld
  BY <1>0, <1>5, SomeBuffers
<1>7. TypeOK'
  BY <1>0, <1>1, <1>2, <1>4, <1>6 DEF TypeOK
<1>8. ~Fresh
  <2>1. (StackFrees \/ StackReassembles) => p # NULL
    <3>1. (StackFrees \/ StackReassembles) => pc = "stack"
      BY DEF StackFrees, StackReassembles
    <3> QED
      BY <3>1 DEF Base, HandInv
  <2>2. ReassTimeout => held # {}
    BY DEF ReassTimeout
  <2> QED
    BY <2>1, <2>2 DEF Fresh
<1> QED
  BY <1>1, <1>2, <1>7, <1>8 DEF Base, HandInv, DescInv

LEMMA KeepTypes == ASSUME Base, StackKeeps PROVE Base'
<1>0. TypeOK /\ held \subseteq Buffers /\ p \in Buffers
  BY DEF Base, TypeOK, HandInv, StackKeeps
<1>1. /\ UNCHANGED <<gState, OWN, DESC2, BackupAddr0, RxDescIdx, RxBuildDescIdx, RxBuildDescCnt>>
      /\ UNCHANGED <<RxAllocStatus, pool, DMACHRDR, content, received, link, flaps, handed, sound>>
      /\ pc' = "input" /\ held' = held \cup {p} /\ p' = NULL /\ Cardinality(held) < MaxHeld
  BY DEF StackKeeps, ring, buffers, dma, phy
<1>2. IsFiniteSet(held) /\ Cardinality(held) \in Nat /\ MaxHeld \in Nat
  BY <1>0, SomeBuffers, EthAssumption
<1>3. Cardinality(held') <= MaxHeld /\ held' \subseteq Buffers
  BY <1>0, <1>1, <1>2, FS_AddElement
<1>4. TypeOK'
  BY <1>0, <1>1, <1>3 DEF TypeOK
<1> QED
  BY <1>1, <1>4 DEF Base, HandInv, DescInv, Fresh, StackKeeps

LEMMA EvictTypes == ASSUME Base, StackEvicts PROVE Base'
<1>0. TypeOK /\ held \subseteq Buffers /\ p \in Buffers
  BY DEF Base, TypeOK, HandInv, StackEvicts
<1>1. /\ UNCHANGED <<gState, OWN, DESC2, BackupAddr0, RxDescIdx, RxBuildDescIdx, RxBuildDescCnt>>
      /\ UNCHANGED <<DMACHRDR, content, received, link, flaps, handed, sound>>
      /\ pc' = "input" /\ p' = NULL
  BY DEF StackEvicts, ring, dma, phy
<1>2. PICK fragments \in (SUBSET held) \ {{}} :
        Free(fragments) /\ held' = (held \ fragments) \cup {p}
  BY DEF StackEvicts
<1>3. fragments \in SUBSET Buffers
  BY <1>0
<1>4. pool' \in Seq(Buffers) /\ RxAllocStatus' \in {"OK", "ERROR"}
  BY <1>0, <1>2, <1>3, SomeBuffers DEF Free, AllocAgain
<1>5. Cardinality(held \ fragments) < MaxHeld
  <2>1. IsFiniteSet(held) /\ Cardinality(held) \in Nat /\ Cardinality(held) <= MaxHeld /\ MaxHeld \in Nat
    BY <1>0, <1>3, SomeBuffers, EthAssumption DEF TypeOK
  <2>2. held \ fragments \in SUBSET held /\ held \ fragments # held
    BY <1>2
  <2>3. /\ Cardinality(held \ fragments) <= Cardinality(held) /\ IsFiniteSet(held \ fragments)
        /\ Cardinality(held \ fragments) = Cardinality(held) => held \ fragments = held
    BY <2>1, <2>2, FS_Subset
  <2>4. Cardinality(held \ fragments) \in Nat
    BY <2>3, FS_CardinalityType
  <2> QED
    BY <2>1, <2>2, <2>3, <2>4
<1>6. held' \subseteq Buffers /\ Cardinality(held') <= MaxHeld
  <2>0. IsFiniteSet(held) /\ held \ fragments \in SUBSET held
    BY <1>0, <1>3, SomeBuffers
  <2>1. IsFiniteSet(held \ fragments)
    BY <2>0, FS_Subset
  <2>2. Cardinality(held \ fragments) \in Nat /\ MaxHeld \in Nat
    BY <2>1, FS_CardinalityType, EthAssumption
  <2>3. \/ Cardinality((held \ fragments) \cup {p}) = Cardinality(held \ fragments)
        \/ Cardinality((held \ fragments) \cup {p}) = Cardinality(held \ fragments) + 1
    BY <2>1, FS_AddElement
  <2>4. Cardinality((held \ fragments) \cup {p}) <= MaxHeld
    BY <1>5, <2>2, <2>3
  <2> QED
    BY <1>0, <1>2, <2>4
<1>7. TypeOK'
  BY <1>0, <1>1, <1>4, <1>6 DEF TypeOK
<1>8. pc = "stack" /\ ~Fresh
  BY DEF StackEvicts, Base, HandInv, Fresh
<1> QED
  BY <1>1, <1>7, <1>8 DEF Base, HandInv, DescInv

LEMMA OtherTypes ==
  ASSUME Base, NothingDue \/ LinkNotChecked \/ LinkLost \/ DmaReceives \/ LinkChanges \/ UNCHANGED vars
  PROVE  Base'
<1>0. TypeOK
  BY DEF Base
<1>1. /\ UNCHANGED <<DESC2, BackupAddr0, RxDescIdx, RxBuildDescIdx, RxBuildDescCnt>>
      /\ UNCHANGED <<RxAllocStatus, pool, p, held, handed, sound>>
  BY DEF NothingDue, LinkNotChecked, LinkLost, DmaReceives, LinkChanges, vars, ring, buffers, lwip
<1>2. pc' \in {"input", "timeouts", "stack", "link"} /\ (pc' = "stack" <=> pc = "stack")
  BY <1>0 DEF TypeOK, NothingDue, LinkNotChecked, LinkLost, DmaReceives, LinkChanges, vars
<1>3. gState' \in {"READY", "STARTED"} /\ (gState = "READY" => gState' = "READY")
  BY <1>0 DEF TypeOK, NothingDue, LinkNotChecked, LinkLost, DmaReceives, LinkChanges, vars
<1>4. link' \in {"up", "down", "nego"}
  BY <1>0 DEF TypeOK, NothingDue, LinkNotChecked, LinkLost, DmaReceives, LinkChanges, vars, phy
<1>5. flaps' \in 0 .. MaxFlaps
  <2>1. flaps \in 0 .. MaxFlaps /\ MaxFlaps \in Nat
    BY <1>0, EthAssumption DEF TypeOK
  <2>2. flaps' = flaps \/ (flaps < MaxFlaps /\ flaps' = flaps + 1)
    BY DEF NothingDue, LinkNotChecked, LinkLost, DmaReceives, LinkChanges, vars, phy
  <2> QED
    BY <2>1, <2>2
<1>6. /\ OWN' \in [Descs -> BOOLEAN] /\ DMACHRDR' \in Descs
      /\ content' \in [Buffers -> 0 .. MaxFrames] /\ received' \in 0 .. MaxFrames
      /\ gState = "READY" => UNCHANGED <<OWN, DMACHRDR>>
  <2>1. CASE DmaReceives
    <3>1. /\ received' = received + 1 /\ received < MaxFrames /\ gState = "STARTED"
          /\ content' = [content EXCEPT ![DESC2[DMACHRDR]] = received']
          /\ OWN' = [OWN EXCEPT ![DMACHRDR] = FALSE] /\ DMACHRDR' = Plus(DMACHRDR, 1)
      BY <2>1 DEF DmaReceives
    <3>2. received' \in 0 .. MaxFrames
      BY <1>0, <3>1, EthAssumption DEF TypeOK
    <3>3. content' \in [Buffers -> 0 .. MaxFrames] /\ OWN' \in [Descs -> BOOLEAN]
      BY <1>0, <3>1, <3>2 DEF TypeOK
    <3>4. DMACHRDR' \in Descs
      <4>1. 1 \in 0 .. N /\ DMACHRDR \in Descs
        BY <1>0, EthAssumption DEF N, TypeOK
      <4> QED
        BY <3>1, <4>1, PlusIs
    <3> QED
      BY <3>1, <3>2, <3>3, <3>4
  <2>2. CASE ~DmaReceives
    <3>1. UNCHANGED <<OWN, DMACHRDR, content, received>>
      BY <2>2 DEF NothingDue, LinkNotChecked, LinkLost, LinkChanges, vars, ring, dma
    <3> QED
      BY <1>0, <3>1 DEF TypeOK
  <2> QED
    BY <2>1, <2>2
<1>7. TypeOK'
  BY <1>0, <1>1, <1>2, <1>3, <1>4, <1>5, <1>6 DEF TypeOK
<1>8. HandInv'
  BY <1>1, <1>2 DEF Base, HandInv
<1>9. DescInv'
  BY <1>1, <1>3, <1>6 DEF Base, DescInv, Fresh
<1> QED
  BY <1>7, <1>8, <1>9 DEF Base

LEMMA BaseStep == Base /\ [Next]_vars => Base'
  BY ReadDataTypes, ReadNothingTypes, FreeTypes, KeepTypes, EvictTypes, LinkFoundTypes, OtherTypes DEF Next, Superloop

LEMMA BaseInitially == Init => Base
<1> SUFFICES ASSUME Init PROVE Base
  OBVIOUS
<1>0. ETH_RX_DESC_CNT \in Nat \ {0} /\ {MaxHeld, MaxFrames, MaxFlaps} \subseteq Nat
  BY EthAssumption
<1>1. 0 \in Descs /\ 0 \in 0 .. ETH_RX_DESC_CNT /\ 0 \in 0 .. MaxFrames /\ 0 \in 0 .. MaxFlaps
  BY <1>0 DEF Descs
<1>2. pool \in Seq(Buffers)
  BY EthAssumption DEF Init, Buffers
<1>3. held \subseteq Buffers /\ Cardinality(held) <= MaxHeld
  BY <1>0, FS_EmptySet DEF Init
<1>4. TypeOK
  BY <1>1, <1>2, <1>3 DEF Init, TypeOK
<1> QED
  BY <1>4 DEF Init, Base, HandInv, DescInv, Fresh

(* Every variable of the driver keeps its type, before and after the       *)
(* restarts that confuse its indices: they stay within the ring, no more   *)
(* descriptors wait for a buffer than there are, what is in the pool, in   *)
(* hand or with LwIP is a buffer.                                          *)
THEOREM EthTypes == Spec => []TypeOK
<1>1. Base => TypeOK
  BY DEF Base
<1> QED
  BY <1>1, BaseInitially, BaseStep, PTL DEF Spec

-----------------------------------------------------------------------------
(* The ring.                                                               *)
LEMMA PlusPlus ==
  ASSUME NEW d \in Descs, NEW i \in 0 .. N, NEW j \in 0 .. N, i + j <= N
  PROVE  Plus(Plus(d, i), j) = Plus(d, i + j)
<1>0. N \in Nat \ {0} /\ Descs = 0 .. N - 1 /\ i + j \in 0 .. N
  BY EthAssumption DEF N, Descs
<1>1. PICK x \in Descs : x = Plus(d, i) /\ x = IF d + i < N THEN d + i ELSE d + i - N
  BY PlusIs
<1>2. Plus(x, j) = IF x + j < N THEN x + j ELSE x + j - N
  BY PlusIs
<1>3. Plus(d, i + j) = IF d + (i + j) < N THEN d + (i + j) ELSE d + (i + j) - N
  BY <1>0, PlusIs
<1>4. d \in 0 .. N - 1 /\ x \in 0 .. N - 1
  BY <1>0
<1> QED
  BY <1>0, <1>1, <1>2, <1>3, <1>4

LEMMA AheadFurther ==
  ASSUME NEW r \in Descs, NEW d \in Descs, NEW n \in 0 .. N
  PROVE  Ahead(Plus(r, n), d) = IF Ahead(r, d) >= n THEN Ahead(r, d) - n ELSE Ahead(r, d) - n + N
<1>0. N \in Nat \ {0} /\ Descs = 0 .. N - 1
  BY EthAssumption DEF N, Descs
<1>1. PICK x \in Descs : x = Plus(r, n) /\ x = IF r + n < N THEN r + n ELSE r + n - N
  BY PlusIs
<1>2. r \in 0 .. N - 1 /\ x \in 0 .. N - 1 /\ d \in 0 .. N - 1
  BY <1>0
<1>3. PICK a \in 0 .. N - 1 : a = Ahead(r, d)
  BY <1>0, AheadIs
<1>4. a = IF d >= r THEN d - r ELSE d - r + N
  BY <1>3 DEF Ahead
<1>5. Ahead(x, d) = IF d >= x THEN d - x ELSE d - x + N
  BY DEF Ahead
<1> QED
  BY <1>0, <1>1, <1>2, <1>3, <1>4, <1>5

(* A descriptor is as far ahead of where the building goes on as it is     *)
(* ahead of the first that waits.                                          *)
LEMMA AheadOfBuild ==
  ASSUME NEW b \in Descs, NEW c \in 0 .. N, NEW d \in Descs, NEW m \in 0 .. c
  PROVE  LET a == Ahead(Plus(b, c), d)
         IN  /\ a \in 0 .. N - 1
             /\ d \in Gone(b, m) <=> N - c <= a /\ a < N - (c - m)
<1>0. N \in Nat \ {0} /\ Descs = 0 .. N - 1
  BY EthAssumption DEF N, Descs
<1>1. PICK y \in 0 .. N - 1 : y = Ahead(b, d)
  BY <1>0, AheadIs
<1>2. PICK a \in 0 .. N - 1 : a = Ahead(Plus(b, c), d)
  <2>1. Plus(b, c) \in Descs
    BY PlusIs
  <2> QED
    BY <1>0, <2>1, AheadIs
<1>3. a = IF y >= c THEN y - c ELSE y - c + N
  BY <1>1, <1>2, AheadFurther
<1>4. d \in Gone(b, m) <=> y < m
  BY <1>1 DEF Gone
<1> QED
  BY <1>0, <1>1, <1>2, <1>3, <1>4

(* What ETH_UpdateDescriptor makes of a ring of which cnt descriptors      *)
(* wait; those that have a buffer keep it.                                 *)
LEMMA RingBuilt ==
  ASSUME TypeOK, NEW cnt \in 0 .. N, NEW own \in [Descs -> BOOLEAN],
         NEW backup \in [Descs -> Buffers \cup {NULL}], \A d \in Descs : DESC2[d] # NULL,
         UpdateDescriptor(cnt, own, backup),
         NEW k \in 0 .. N, NEW mac, NEW r,
         Holds(k, mac, r, RxBuildDescIdx, cnt, own, backup, DESC2)
  PROVE  /\ Holds(k, mac, r, RxBuildDescIdx', RxBuildDescCnt', OWN', BackupAddr0', DESC2')
         /\ \A d \in Descs : backup[d] # NULL => BackupAddr0'[d] = backup[d]
<1>0. /\ RxBuildDescIdx \in Descs /\ pool \in Seq(Buffers) /\ N \in Nat \ {0} /\ cnt \in Nat /\ cnt <= N
      /\ Descs = 0 .. N - 1
  BY EthAssumption DEF TypeOK, N, Descs
<1>1. PICK m \in 0 .. cnt : \E t, f : Updates(cnt, own, backup, m, t, f)
  BY <1>0, UpdatesIt
<1>2. PICK t, f : Updates(cnt, own, backup, m, t, f)
  BY <1>1
<1> DEFINE b   == RxBuildDescIdx
           new == Filled(b, m, backup)
<1>3. /\ k + cnt <= N /\ mac = Plus(r, k) /\ r = Plus(b, cnt) /\ r \in Descs
      /\ \A d \in Descs :
           /\ own[d] <=> k <= Ahead(r, d) /\ Ahead(r, d) < N - cnt
           /\ backup[d] = IF Ahead(r, d) < N - cnt THEN DESC2[d] ELSE NULL
  <2>1. Plus(b, cnt) \in Descs
    BY <1>0, PlusIs
  <2> QED
    BY <2>1 DEF Holds
<1>4. RxBuildDescCnt' = cnt - m /\ RxBuildDescIdx' = Plus(b, m)
  BY <1>2 DEF Updates
<1>5. k + RxBuildDescCnt' <= N
  BY <1>0, <1>3, <1>4
<1>6. r = Plus(RxBuildDescIdx', RxBuildDescCnt')
  <2>1. m \in 0 .. N /\ cnt - m \in 0 .. N /\ m + (cnt - m) = cnt
    BY <1>0
  <2>2. Plus(Plus(b, m), cnt - m) = Plus(b, m + (cnt - m))
    BY <1>0, <2>1, PlusPlus
  <2> QED
    BY <1>3, <1>4, <2>1, <2>2
<1>7. ASSUME NEW d \in Descs
      PROVE  /\ OWN'[d] <=> k <= Ahead(r, d) /\ Ahead(r, d) < N - RxBuildDescCnt'
             /\ BackupAddr0'[d] = IF Ahead(r, d) < N - RxBuildDescCnt' THEN DESC2'[d] ELSE NULL
             /\ backup[d] # NULL => BackupAddr0'[d] = backup[d]
  <2>1. PICK a \in 0 .. N - 1 : a = Ahead(r, d) /\ (d \in Gone(b, m) <=> N - cnt <= a /\ a < N - (cnt - m))
    BY <1>0, <1>3, AheadOfBuild
  <2>2. /\ own[d] <=> k <= a /\ a < N - cnt
        /\ backup[d] = IF a < N - cnt THEN DESC2[d] ELSE NULL
        /\ DESC2[d] # NULL
    BY <1>3, <2>1
  <2>3. /\ OWN'[d] <=> own[d] \/ d \in Gone(b, m)
        /\ BackupAddr0'[d] = IF d \in new THEN pool[f[d]] ELSE backup[d]
        /\ DESC2'[d] = IF d \in new THEN pool[f[d]] ELSE DESC2[d]
    BY <1>2 DEF Updates
  <2>4. d \in new <=> d \in Gone(b, m)
    BY <1>0, <2>1, <2>2 DEF Filled, Gone
  <2>5. OWN'[d] <=> k <= a /\ a < N - (cnt - m)
    <3>1. k <= N - cnt
      BY <1>0, <1>3
    <3>2. N - cnt <= a => k <= a
      BY <1>0, <3>1
    <3>3. a < N - cnt => a < N - (cnt - m)
      BY <1>0
    <3> QED
      BY <1>0, <2>1, <2>2, <2>3, <3>2, <3>3
  <2>6. BackupAddr0'[d] = IF a < N - (cnt - m) THEN DESC2'[d] ELSE NULL
    <3>1. CASE a < N - cnt
      BY <1>0, <2>1, <2>2, <2>3, <2>4, <3>1
    <3>2. CASE N - cnt <= a /\ a < N - (cnt - m)
      BY <2>1, <2>3, <2>4, <3>2
    <3>3. CASE N - (cnt - m) <= a
      BY <1>0, <2>1, <2>2, <2>3, <2>4, <3>3
    <3> QED
      BY <1>0, <3>1, <3>2, <3>3
  <2>7. backup[d] # NULL => BackupAddr0'[d] = backup[d]
    BY <2>3 DEF Filled
  <2> QED
    BY <1>4, <2>1, <2>5, <2>6, <2>7
<1>8. Holds(k, mac, r, RxBuildDescIdx', RxBuildDescCnt', OWN', BackupAddr0', DESC2')
  BY <1>3, <1>5, <1>6, <1>7 DEF Holds
<1> QED
  BY <1>7, <1>8

Ring == Base /\ RingInv

LEMMA Started ==
  ASSUME Ring, gState = "STARTED"
  PROVE  (\E k \in 0 .. N : InRing(k)) /\ \A d \in Descs : DESC2[d] # NULL
BY DEF Ring, Base, RingInv, DescInv, Fresh

(* What is read leaves the queue.                                          *)
LEMMA RingRead ==
  ASSUME Ring, ReadData
  PROVE  \E k \in 0 .. N :
           /\ k # 0 /\ InRing(k) /\ InRing(k - 1)'
           /\ BackupAddr0[RxDescIdx] # NULL /\ p' = BackupAddr0[RxDescIdx]
           /\ \A d \in Descs : BackupAddr0[d] # NULL /\ d # RxDescIdx => BackupAddr0'[d] = BackupAddr0[d]
<1>0. /\ RxDescIdx \in Descs /\ RxBuildDescIdx \in Descs /\ RxBuildDescCnt \in 0 .. N
      /\ N \in Nat \ {0} /\ Descs = 0 .. N - 1 /\ TypeOK
      /\ OWN \in [Descs -> BOOLEAN] /\ BackupAddr0 \in [Descs -> Buffers \cup {NULL}]
  BY EthAssumption DEF Ring, Base, TypeOK, N, Descs
<1>1. /\ gState = "STARTED" /\ ~OWN[RxDescIdx] /\ RxBuildDescCnt < N /\ p' = DESC2[RxDescIdx]
      /\ RxDescIdx' = Plus(RxDescIdx, 1) /\ DMACHRDR' = DMACHRDR
      /\ UpdateDescriptor(RxBuildDescCnt + 1, OWN, Detached(RxDescIdx))
  BY DEF ReadData, MayRead, Ready, N, dma
<1>2. \A d \in Descs : DESC2[d] # NULL
  BY <1>1, Started
<1>3. PICK k \in 0 .. N : InRing(k)
  BY <1>1, Started
<1> DEFINE r == RxDescIdx
           c == RxBuildDescCnt
<1>4. /\ k + c <= N /\ DMACHRDR = Plus(r, k) /\ r = Plus(RxBuildDescIdx, c)
      /\ \A d \in Descs :
           /\ OWN[d] <=> k <= Ahead(r, d) /\ Ahead(r, d) < N - c
           /\ BackupAddr0[d] = IF Ahead(r, d) < N - c THEN DESC2[d] ELSE NULL
  BY <1>3 DEF InRing, Holds
<1>5. Ahead(r, r) = 0
  BY <1>0 DEF Ahead
<1>6. k # 0 /\ BackupAddr0[r] = DESC2[r]
  <2>1. /\ OWN[r] <=> k <= 0 /\ 0 < N - c
        /\ BackupAddr0[r] = IF 0 < N - c THEN DESC2[r] ELSE NULL
    BY <1>0, <1>4, <1>5
  <2> QED
    BY <1>0, <1>1, <2>1
<1>7. k - 1 \in 0 .. N /\ c + 1 \in 0 .. N /\ (k - 1) + (c + 1) <= N /\ 1 \in 0 .. N
  BY <1>0, <1>1, <1>4, <1>6
<1> DEFINE r1 == Plus(r, 1)
<1>8. Holds(k - 1, DMACHRDR, r1, RxBuildDescIdx, c + 1, OWN, Detached(r), DESC2)
  <2>1. DMACHRDR = Plus(r1, k - 1)
    <3>1. Plus(Plus(r, 1), k - 1) = Plus(r, 1 + (k - 1)) /\ 1 + (k - 1) = k
      BY <1>0, <1>7, PlusPlus
    <3> QED
      BY <1>4, <3>1
  <2>2. r1 = Plus(RxBuildDescIdx, c + 1)
    <3>1. Plus(Plus(RxBuildDescIdx, c), 1) = Plus(RxBuildDescIdx, c + 1)
      BY <1>0, <1>7, PlusPlus
    <3> QED
      BY <1>4, <3>1
  <2>3. ASSUME NEW d \in Descs
        PROVE  /\ OWN[d] <=> k - 1 <= Ahead(r1, d) /\ Ahead(r1, d) < N - (c + 1)
               /\ Detached(r)[d] = IF Ahead(r1, d) < N - (c + 1) THEN DESC2[d] ELSE NULL
    <3>1. PICK a \in 0 .. N - 1 : a = Ahead(r, d)
      BY <1>0, AheadIs
    <3>2. Ahead(r1, d) = IF a >= 1 THEN a - 1 ELSE a - 1 + N
      BY <1>0, <1>7, <3>1, AheadFurther
    <3>3. a = 0 <=> d = r
      <4>1. Plus(r, Ahead(r, d)) = d
        BY <1>0, AheadIs
      <4>2. Plus(r, 0) = IF r + 0 < N THEN r + 0 ELSE r + 0 - N
        <5>1. 0 \in 0 .. N
          BY <1>0
        <5> QED
          BY <1>0, <5>1, PlusIs
      <4>3. Plus(r, 0) = r
        BY <1>0, <4>2
      <4> QED
        BY <1>5, <3>1, <4>1, <4>3
    <3>4. /\ OWN[d] <=> k <= a /\ a < N - c
          /\ BackupAddr0[d] = IF a < N - c THEN DESC2[d] ELSE NULL
          /\ Detached(r)[d] = IF d = r THEN NULL ELSE BackupAddr0[d]
      BY <1>0, <1>4, <3>1 DEF Detached
    <3>5. CASE d = r
      BY <1>0, <1>1, <1>7, <3>2, <3>3, <3>4, <3>5, SMTT(40)
    <3>6. CASE d # r
      BY <1>0, <1>1, <1>7, <3>2, <3>3, <3>4, <3>6
    <3> QED
      BY <3>5, <3>6
  <2> QED
    BY <1>7, <2>1, <2>2, <2>3 DEF Holds
<1>9. Detached(r) \in [Descs -> Buffers \cup {NULL}]
  BY <1>0 DEF Detached
<1>10. /\ Holds(k - 1, DMACHRDR, r1, RxBuildDescIdx', RxBuildDescCnt', OWN', BackupAddr0', DESC2')
       /\ \A d \in Descs : Detached(r)[d] # NULL => BackupAddr0'[d] = Detached(r)[d]
  BY <1>0, <1>1, <1>2, <1>7, <1>8, <1>9, RingBuilt, ZenonT(60)
<1>11. InRing(k - 1)'
  BY <1>1, <1>10 DEF InRing
<1>12. \A d \in Descs : BackupAddr0[d] # NULL /\ d # r => BackupAddr0'[d] = BackupAddr0[d]
  BY <1>0, <1>10 DEF Detached
<1> QED
  BY <1>0, <1>1, <1>2, <1>3, <1>6, <1>11, <1>12

LEMMA RingIdle ==
  ASSUME Ring, ReadNothing, MayRead
  PROVE  \E k \in 0 .. N :
           /\ InRing(k) /\ InRing(k)'
           /\ \A d \in Descs : BackupAddr0[d] # NULL => BackupAddr0'[d] = BackupAddr0[d]
<1>0. /\ RxBuildDescCnt \in 0 .. N /\ TypeOK
      /\ OWN \in [Descs -> BOOLEAN] /\ BackupAddr0 \in [Descs -> Buffers \cup {NULL}]
  BY DEF Ring, Base, TypeOK, N
<1>1. /\ gState = "STARTED" /\ RxDescIdx' = RxDescIdx /\ DMACHRDR' = DMACHRDR
      /\ UpdateDescriptor(RxBuildDescCnt, OWN, BackupAddr0)
  BY DEF ReadNothing, MayRead, dma
<1>2. \A d \in Descs : DESC2[d] # NULL
  BY <1>1, Started
<1>3. PICK k \in 0 .. N : InRing(k)
  BY <1>1, Started
<1>4. /\ Holds(k, DMACHRDR, RxDescIdx, RxBuildDescIdx', RxBuildDescCnt', OWN', BackupAddr0', DESC2')
      /\ \A d \in Descs : BackupAddr0[d] # NULL => BackupAddr0'[d] = BackupAddr0[d]
  BY <1>0, <1>1, <1>2, <1>3, RingBuilt DEF InRing
<1> QED
  BY <1>1, <1>3, <1>4 DEF InRing

(* What is received joins it.                                              *)
LEMMA RingReceives ==
  ASSUME Ring, DmaReceives
  PROVE  \E k \in 0 .. N :
           /\ k < N /\ InRing(k) /\ InRing(k + 1)'
           /\ BackupAddr0[DMACHRDR] = DESC2[DMACHRDR] /\ DESC2[DMACHRDR] # NULL
<1>0. /\ RxDescIdx \in Descs /\ RxBuildDescIdx \in Descs /\ RxBuildDescCnt \in 0 .. N
      /\ N \in Nat \ {0} /\ Descs = 0 .. N - 1 /\ OWN \in [Descs -> BOOLEAN] /\ DMACHRDR \in Descs
  BY EthAssumption DEF Ring, Base, TypeOK, N, Descs
<1>1. /\ gState = "STARTED" /\ OWN[DMACHRDR] /\ OWN' = [OWN EXCEPT ![DMACHRDR] = FALSE]
      /\ DMACHRDR' = Plus(DMACHRDR, 1)
      /\ UNCHANGED <<DESC2, BackupAddr0, RxDescIdx, RxBuildDescIdx, RxBuildDescCnt>>
  BY DEF DmaReceives
<1>2. \A d \in Descs : DESC2[d] # NULL
  BY <1>1, Started
<1>3. PICK k \in 0 .. N : InRing(k)
  BY <1>1, Started
<1> DEFINE r == RxDescIdx
           c == RxBuildDescCnt
<1>4. /\ k + c <= N /\ DMACHRDR = Plus(r, k) /\ r = Plus(RxBuildDescIdx, c)
      /\ \A d \in Descs :
           /\ OWN[d] <=> k <= Ahead(r, d) /\ Ahead(r, d) < N - c
           /\ BackupAddr0[d] = IF Ahead(r, d) < N - c THEN DESC2[d] ELSE NULL
  BY <1>3 DEF InRing, Holds
<1>5. PICK a \in 0 .. N - 1 : a = Ahead(r, DMACHRDR)
  BY <1>0, AheadIs
<1>6. a = k /\ k < N - c
  <2>1. k <= a /\ a < N - c
    BY <1>0, <1>1, <1>4, <1>5
  <2>2. k \in Descs
    BY <1>0, <2>1
  <2>3. Ahead(r, Plus(r, k)) = k
    BY <1>0, <2>2, AheadOf
  <2> QED
    BY <1>4, <1>5, <2>1, <2>3
<1>7. (k + 1) + c <= N /\ k + 1 \in 0 .. N /\ 1 \in 0 .. N /\ k < N
  BY <1>0, <1>6
<1>8. DMACHRDR' = Plus(r, k + 1)
  <2>1. Plus(Plus(r, k), 1) = Plus(r, k + 1)
    BY <1>0, <1>7, PlusPlus
  <2> QED
    BY <1>1, <1>4, <2>1
<1>9. ASSUME NEW d \in Descs PROVE OWN'[d] <=> k + 1 <= Ahead(r, d) /\ Ahead(r, d) < N - c
  <2>1. PICK x \in 0 .. N - 1 : x = Ahead(r, d)
    BY <1>0, AheadIs
  <2>2. x = k <=> d = DMACHRDR
    <3>1. Plus(r, Ahead(r, d)) = d
      BY <1>0, AheadIs
    <3> QED
      BY <1>4, <1>5, <1>6, <2>1, <3>1
  <2>3. OWN[d] <=> k <= x /\ x < N - c
    BY <1>4, <2>1
  <2>4. OWN'[d] <=> OWN[d] /\ d # DMACHRDR
    BY <1>0, <1>1
  <2> QED
    BY <1>0, <2>1, <2>2, <2>3, <2>4
<1>10. InRing(k + 1)'
  BY <1>1, <1>4, <1>7, <1>8, <1>9 DEF InRing, Holds
<1>11. BackupAddr0[DMACHRDR] = DESC2[DMACHRDR]
  BY <1>0, <1>4, <1>5, <1>6
<1> QED
  BY <1>0, <1>2, <1>3, <1>7, <1>10, <1>11

(* A restart that finds the indices aligned begins with an empty queue and *)
(* with a buffer at every descriptor.                                      *)
LEMMA RingRestarts == ASSUME Ring, LinkFound, Aligned' PROVE InRing(0)'
<1>0. /\ RxDescIdx \in Descs /\ RxBuildDescIdx \in Descs /\ RxBuildDescCnt \in 0 .. N
      /\ N \in Nat \ {0} /\ N \in 0 .. N /\ 0 \in 0 .. N /\ Descs = 0 .. N - 1 /\ pool \in Seq(Buffers)
      /\ OWN \in [Descs -> BOOLEAN] /\ BackupAddr0 \in [Descs -> Buffers \cup {NULL}]
  BY EthAssumption DEF Ring, Base, TypeOK, N, Descs
<1>1. /\ UNCHANGED <<RxDescIdx, DMACHRDR>>
      /\ UpdateDescriptor(N, OWN, BackupAddr0)
      /\ RxBuildDescCnt' = 0 /\ RxBuildDescIdx' = RxDescIdx' /\ RxDescIdx' = DMACHRDR'
  BY DEF LinkFound, Aligned, dma, RebuildAll, N
<1>2. PICK m \in 0 .. N : \E t, f : Updates(N, OWN, BackupAddr0, m, t, f)
  BY <1>0, <1>1, UpdatesIt
<1>3. PICK t, f : Updates(N, OWN, BackupAddr0, m, t, f)
  BY <1>2
<1>4. m = N
  <2>1. RxBuildDescCnt' = N - m
    BY <1>3 DEF Updates
  <2> QED
    BY <1>0, <1>1, <2>1
<1>5. Plus(RxDescIdx, 0) = RxDescIdx
  BY <1>0, PlusIs
<1>6. ASSUME NEW d \in Descs
      PROVE  /\ OWN'[d] /\ BackupAddr0'[d] = DESC2'[d]
             /\ 0 <= Ahead(RxDescIdx, d) /\ Ahead(RxDescIdx, d) < N - 0
  <2>1. d \in Gone(RxBuildDescIdx, m)
    <3>1. Ahead(RxBuildDescIdx, d) \in Descs
      BY <1>0, AheadIs
    <3> QED
      BY <1>0, <1>4, <3>1 DEF Gone
  <2>2. Ahead(RxDescIdx, d) \in 0 .. N - 1
    BY <1>0, AheadIs
  <2>3. BackupAddr0[d] = NULL \/ BackupAddr0[d] = DESC2[d]
    BY DEF Ring, RingInv, Fresh, InRing, Holds
  <2>4. BackupAddr0'[d] = DESC2'[d]
    <3>1. CASE BackupAddr0[d] = NULL
      BY <1>3, <2>1, <3>1 DEF Updates, Filled
    <3>2. CASE BackupAddr0[d] # NULL
      BY <1>3, <2>3, <3>2 DEF Updates, Filled
    <3> QED
      BY <3>1, <3>2
  <2>5. OWN'[d]
    BY <1>3, <2>1 DEF Updates
  <2> QED
    BY <1>0, <2>2, <2>4, <2>5
<1>7. ASSUME NEW d \in Descs
      PROVE  /\ OWN'[d] <=> 0 <= Ahead(RxDescIdx, d) /\ Ahead(RxDescIdx, d) < N - 0
             /\ BackupAddr0'[d] = IF Ahead(RxDescIdx, d) < N - 0 THEN DESC2'[d] ELSE NULL
  BY <1>6
<1>8. 0 + 0 <= N
  BY <1>0
<1> QED
  BY <1>1, <1>5, <1>7, <1>8 DEF InRing, Holds

LEMMA RingKeeps ==
  ASSUME Ring, [Next]_vars, sound'
  PROVE  RingInv'
<1>0. /\ N \in Nat /\ 0 \in 0 .. N
  BY EthAssumption DEF N
<1>1. CASE ReadData
  <2>1. PICK k \in 0 .. N : k # 0 /\ InRing(k - 1)'
    BY <1>1, RingRead
  <2>2. k - 1 \in 0 .. N
    BY <1>0, <2>1
  <2> QED
    BY <2>1, <2>2 DEF RingInv
<1>2. CASE ReadNothing
  <2>1. CASE MayRead
    BY <1>2, <2>1, RingIdle DEF RingInv
  <2>2. CASE ~MayRead
    <3>1. /\ UNCHANGED <<OWN, DESC2, BackupAddr0, RxBuildDescIdx, RxBuildDescCnt, RxAllocStatus, pool>>
          /\ UNCHANGED <<gState, RxDescIdx, p, held, DMACHRDR>>
      BY <1>2, <2>2 DEF ReadNothing, buffers, lwip, dma
    <3> QED
      BY <3>1 DEF Ring, RingInv, Fresh, InRing, Holds
  <2> QED
    BY <2>1, <2>2
<1>3. CASE DmaReceives
  <2>1. PICK k \in 0 .. N : k < N /\ InRing(k + 1)'
    BY <1>3, RingReceives
  <2>2. k + 1 \in 0 .. N
    BY <1>0, <2>1
  <2> QED
    BY <2>1, <2>2 DEF RingInv
<1>4. CASE LinkFound
  <2>1. Aligned'
    <3>1. sound' = (sound /\ Aligned')
      BY <1>4 DEF LinkFound
    <3> QED
      BY <3>1
  <2> QED
    BY <1>0, <1>4, <2>1, RingRestarts DEF RingInv
<1>5. CASE StackFrees \/ StackKeeps \/ StackReassembles \/ StackEvicts \/ ReassTimeout \/ LinkLost
  <2>1. UNCHANGED <<OWN, DESC2, BackupAddr0, RxDescIdx, RxBuildDescIdx, RxBuildDescCnt, DMACHRDR>>
    BY <1>5 DEF StackFrees, StackKeeps, StackReassembles, StackEvicts, ReassTimeout, LinkLost, ring, dma
  <2>2. ~Fresh
    <3>1. CASE StackFrees \/ StackKeeps \/ StackReassembles \/ StackEvicts
      <4>1. pc = "stack"
        BY <3>1 DEF StackFrees, StackKeeps, StackReassembles, StackEvicts
      <4> QED
        BY <4>1 DEF Ring, Base, HandInv, Fresh
    <3>2. CASE ReassTimeout
      <4>1. held # {}
        BY <3>2 DEF ReassTimeout
      <4> QED
        BY <4>1 DEF Fresh
    <3>3. CASE LinkLost
      BY <3>3 DEF LinkLost, Fresh
    <3> QED
      BY <1>5, <3>1, <3>2, <3>3
  <2>3. PICK k \in 0 .. N : InRing(k)
    BY <2>2 DEF Ring, RingInv
  <2>4. InRing(k)'
    BY <2>1, <2>3 DEF InRing, Holds
  <2> QED
    BY <2>4 DEF RingInv
<1>6. CASE NothingDue \/ LinkNotChecked \/ LinkChanges \/ UNCHANGED vars
  <2>1. /\ UNCHANGED <<OWN, DESC2, BackupAddr0, RxDescIdx, RxBuildDescIdx, RxBuildDescCnt>>
        /\ UNCHANGED <<gState, p, held, pool, DMACHRDR>>
    BY <1>6 DEF NothingDue, LinkNotChecked, LinkChanges, vars, ring, dma, buffers, lwip
  <2> QED
    BY <2>1 DEF Ring, RingInv, Fresh, InRing, Holds
<1> QED
  BY <1>1, <1>2, <1>3, <1>4, <1>5, <1>6 DEF Next, Superloop

-----------------------------------------------------------------------------
(* The owners of the buffers.                                              *)
LEMMA OwnersUpdate ==
  ASSUME TypeOK, NEW cnt \in 0 .. N, NEW own, NEW backup \in [Descs -> Buffers \cup {NULL}],
         NEW kept, NEW x, Owners(pool, backup, kept, x),
         UpdateDescriptor(cnt, own, backup)
  PROVE  Owners(pool', BackupAddr0', kept, x)
<1>0. /\ RxBuildDescIdx \in Descs /\ pool \in Seq(Buffers) /\ Len(pool) \in Nat /\ cnt \in Nat
      /\ DOMAIN pool = 1 .. Len(pool) /\ NULL \notin Buffers
  BY EthAssumption, SMTT(40) DEF TypeOK, N, NULL, Buffers
<1>1. PICK m \in 0 .. cnt : \E t \in 0 .. m : \E f :
        Updates(cnt, own, backup, m, t, f) /\ t <= Len(pool)
  BY <1>0, UpdatesIt
<1>2. PICK t \in 0 .. m : \E f : Updates(cnt, own, backup, m, t, f) /\ t <= Len(pool)
  BY <1>1
<1>3. PICK f : Updates(cnt, own, backup, m, t, f)
  BY <1>2
<1> DEFINE new == Filled(RxBuildDescIdx, m, backup)
<1>4. t \in Nat /\ t <= Len(pool)
  BY <1>0, <1>2
<1>5. /\ pool' \in Seq(Buffers) /\ Len(pool') = Len(pool) - t /\ DOMAIN pool' = 1 .. Len(pool')
      /\ \A i \in DOMAIN pool' : pool'[i] = pool[t + i] /\ t + i \in DOMAIN pool /\ t + i > t
  <2>1. pool' = SubSeq(pool, t + 1, Len(pool))
    BY <1>3 DEF Updates
  <2>2. /\ pool' \in Seq(Buffers) /\ Len(pool') = Len(pool) - t
        /\ \A i \in 1 .. Len(pool') : pool'[i] = pool[t + i] /\ t + i \in 1 .. Len(pool)
    BY <1>0, <1>4, <2>1, Rest, ZenonT(60)
  <2>3. DOMAIN pool' = 1 .. Len(pool')
    BY <2>2
  <2>4. \A i \in 1 .. Len(pool') : t + i > t
    BY <1>0, <1>4, <2>2
  <2> QED
    BY <1>0, <2>2, <2>3, <2>4, SMTT(40)
<1>6. /\ \A d \in new : f[d] \in DOMAIN pool /\ f[d] <= t /\ pool[f[d]] \in Buffers /\ d \in Descs /\ backup[d] = NULL
      /\ \A d, e \in new : f[d] = f[e] => d = e
      /\ \A i \in 1 .. t : \E d \in new : f[d] = i
      /\ \A d \in Descs : BackupAddr0'[d] = IF d \in new THEN pool[f[d]] ELSE backup[d]
  <2>1. f \in [new -> 1 .. t] /\ \A d \in new : d \in Descs /\ backup[d] = NULL
    BY <1>3 DEF Updates, Filled, Gone
  <2>2. \A d \in new : f[d] \in DOMAIN pool /\ f[d] <= t
    BY <1>0, <1>4, <2>1
  <2>3. \A d \in new : pool[f[d]] \in Buffers
    BY <1>0, <2>2
  <2> QED
    BY <1>3, <2>1, <2>2, <2>3 DEF Updates
<1>o. /\ \A i, j \in DOMAIN pool : pool[i] = pool[j] => i = j
      /\ \A d, e \in Descs : backup[d] = backup[e] /\ backup[d] # NULL => d = e
      /\ \A b \in Buffers :
           /\ InPool(pool, b) => ~AtDesc(backup, b) /\ b \notin kept /\ b # x
           /\ AtDesc(backup, b) => b \notin kept /\ b # x
           /\ b \in kept => b # x
           /\ InPool(pool, b) \/ AtDesc(backup, b) \/ b \in kept \/ b = x
  BY DEF Owners
<1>7. \A i, j \in DOMAIN pool' : pool'[i] = pool'[j] => i = j
  <2> TAKE i, j \in DOMAIN pool'
  <2> HAVE pool'[i] = pool'[j]
  <2>1. t + i = t + j
    BY <1>5, <1>o
  <2> QED
    BY <1>4, <1>5, <2>1
<1>8. \A b \in Buffers : AtDesc(BackupAddr0', b) <=> AtDesc(backup, b) \/ \E i \in 1 .. t : pool[i] = b
  <2> TAKE b \in Buffers
  <2>1. ASSUME AtDesc(backup, b) PROVE AtDesc(BackupAddr0', b)
    BY <1>0, <1>6, <2>1 DEF AtDesc
  <2>2. ASSUME NEW i \in 1 .. t, pool[i] = b PROVE AtDesc(BackupAddr0', b)
    BY <1>6, <2>2 DEF AtDesc
  <2>3. ASSUME NEW d \in Descs, BackupAddr0'[d] = b
        PROVE  AtDesc(backup, b) \/ \E i \in 1 .. t : pool[i] = b
    <3>1. CASE d \in new
      <4>1. pool[f[d]] = b /\ f[d] \in 1 .. t
        BY <1>0, <1>4, <1>6, <2>3, <3>1
      <4> QED
        BY <4>1
    <3>2. CASE d \notin new
      BY <1>6, <2>3, <3>2 DEF AtDesc
    <3> QED
      BY <3>1, <3>2
  <2> QED
    BY <2>1, <2>2, <2>3 DEF AtDesc
<1>9. \A b \in Buffers : InPool(pool', b) <=> \E i \in DOMAIN pool : i > t /\ pool[i] = b
  <2> TAKE b \in Buffers
  <2>1. ASSUME NEW i \in DOMAIN pool, i > t, pool[i] = b PROVE InPool(pool', b)
    <3>1. i - t \in DOMAIN pool' /\ t + (i - t) = i
      BY <1>0, <1>4, <1>5, <2>1
    <3> QED
      BY <1>5, <2>1, <3>1 DEF InPool
  <2> QED
    BY <1>5, <2>1 DEF InPool
<1>10. \A d, e \in Descs : BackupAddr0'[d] = BackupAddr0'[e] /\ BackupAddr0'[d] # NULL => d = e
  <2> TAKE d, e \in Descs
  <2> HAVE BackupAddr0'[d] = BackupAddr0'[e] /\ BackupAddr0'[d] # NULL
  <2>1. CASE d \in new /\ e \in new
    BY <1>6, <1>o, <2>1
  <2>2. CASE d \in new /\ e \notin new
    <3>1. pool[f[d]] = backup[e] /\ f[d] \in DOMAIN pool /\ pool[f[d]] \in Buffers
      BY <1>6, <2>2
    <3> QED
      BY <1>o, <3>1 DEF InPool, AtDesc
  <2>3. CASE d \notin new /\ e \in new
    <3>1. pool[f[e]] = backup[d] /\ f[e] \in DOMAIN pool /\ pool[f[e]] \in Buffers
      BY <1>6, <2>3
    <3> QED
      BY <1>o, <3>1 DEF InPool, AtDesc
  <2>4. CASE d \notin new /\ e \notin new
    BY <1>6, <1>o, <2>4
  <2> QED
    BY <2>1, <2>2, <2>3, <2>4
<1>11. ASSUME NEW b \in Buffers
       PROVE  /\ InPool(pool', b) => ~AtDesc(BackupAddr0', b) /\ b \notin kept /\ b # x
              /\ AtDesc(BackupAddr0', b) => b \notin kept /\ b # x
              /\ b \in kept => b # x
              /\ InPool(pool', b) \/ AtDesc(BackupAddr0', b) \/ b \in kept \/ b = x
  <2> DEFINE first == \E i \in 1 .. t : pool[i] = b
             rest  == \E i \in DOMAIN pool : i > t /\ pool[i] = b
  <2>1. InPool(pool, b) <=> first \/ rest
    <3>1. \A i \in DOMAIN pool : i \in 1 .. t \/ i > t
      BY <1>0, <1>4
    <3>2. \A i \in 1 .. t : i \in DOMAIN pool
      BY <1>0, <1>4
    <3> QED
      BY <3>1, <3>2 DEF InPool
  <2>2. ~(first /\ rest)
    <3> SUFFICES ASSUME NEW i \in 1 .. t, NEW j \in DOMAIN pool, j > t, pool[i] = pool[j] PROVE FALSE
      OBVIOUS
    <3>1. i \in DOMAIN pool /\ i # j
      BY <1>0, <1>4
    <3> QED
      BY <1>o, <3>1
  <2> HIDE DEF first, rest
  <2>3. (AtDesc(BackupAddr0', b) <=> AtDesc(backup, b) \/ first) /\ (InPool(pool', b) <=> rest)
    BY <1>8, <1>9 DEF first, rest
  <2> QED
    BY <1>o, <2>1, <2>2, <2>3
<1> QED
  BY <1>7, <1>10, <1>11 DEF Owners

LEMMA OwnersFree ==
  ASSUME TypeOK, NEW backup, NEW kept, NEW x, Owners(pool, backup, kept, x),
         NEW S \in SUBSET Buffers, S \subseteq kept \cup {x}
  PROVE  Owners(SetToSeq(S) \o pool, backup, kept \ S, IF x \in S THEN NULL ELSE x)
<1> DEFINE s == SetToSeq(S)
           q == s \o pool
           y == IF x \in S THEN NULL ELSE x
<1>0. /\ pool \in Seq(Buffers) /\ Len(pool) \in Nat /\ DOMAIN pool = 1 .. Len(pool) /\ NULL \notin Buffers
      /\ s \in Seq(Buffers) /\ Len(s) \in Nat /\ DOMAIN s = 1 .. Len(s)
      /\ \A i, j \in DOMAIN s : s[i] = s[j] => i = j
      /\ \A b : InPool(s, b) <=> b \in S
  BY Listed DEF TypeOK, NULL, Buffers
<1> HIDE DEF s
<1>1. /\ DOMAIN q = 1 .. Len(s) + Len(pool)
      /\ \A i \in DOMAIN q : q[i] = IF i <= Len(s) THEN s[i] ELSE pool[i - Len(s)]
  BY <1>0
<1>2. \A i \in DOMAIN q : \/ i \in DOMAIN s /\ q[i] = s[i]
                          \/ i - Len(s) \in DOMAIN pool /\ i > Len(s) /\ q[i] = pool[i - Len(s)]
  BY <1>0, <1>1
<1>3. /\ \A i \in DOMAIN s : i \in DOMAIN q /\ q[i] = s[i]
      /\ \A i \in DOMAIN pool : i + Len(s) \in DOMAIN q /\ q[i + Len(s)] = pool[i]
  <2>1. \A i \in DOMAIN s : i \in DOMAIN q /\ q[i] = s[i]
    BY <1>0, <1>1
  <2>2. \A i \in DOMAIN pool : i + Len(s) \in DOMAIN q /\ q[i + Len(s)] = pool[i]
    <3> TAKE i \in DOMAIN pool
    <3>1. i + Len(s) \in DOMAIN q /\ ~(i + Len(s) <= Len(s)) /\ (i + Len(s)) - Len(s) = i
      BY <1>0, <1>1
    <3> QED
      BY <1>1, <3>1
  <2> QED
    BY <2>1, <2>2
<1> HIDE DEF q
<1>4. \A b : InPool(q, b) <=> b \in S \/ InPool(pool, b)
  <2> SUFFICES ASSUME NEW b PROVE InPool(q, b) <=> InPool(s, b) \/ InPool(pool, b)
    BY <1>0
  <2>1. InPool(q, b) => InPool(s, b) \/ InPool(pool, b)
    BY <1>2 DEF InPool
  <2>2. InPool(s, b) => InPool(q, b)
    BY <1>3 DEF InPool
  <2>3. InPool(pool, b) => InPool(q, b)
    BY <1>3 DEF InPool
  <2> QED
    BY <2>1, <2>2, <2>3
<1>o. /\ \A i, j \in DOMAIN pool : pool[i] = pool[j] => i = j
      /\ \A d, e \in Descs : backup[d] = backup[e] /\ backup[d] # NULL => d = e
      /\ \A b \in Buffers :
           /\ InPool(pool, b) => ~AtDesc(backup, b) /\ b \notin kept /\ b # x
           /\ AtDesc(backup, b) => b \notin kept /\ b # x
           /\ b \in kept => b # x
           /\ InPool(pool, b) \/ AtDesc(backup, b) \/ b \in kept \/ b = x
  BY DEF Owners
<1>5. \A i, j \in DOMAIN q : q[i] = q[j] => i = j
  <2> TAKE i, j \in DOMAIN q
  <2> HAVE q[i] = q[j]
  <2>a. \A k \in DOMAIN s, l \in DOMAIN pool : s[k] # pool[l]
    <3> TAKE k \in DOMAIN s, l \in DOMAIN pool
    <3>1. s[k] \in S /\ s[k] \in Buffers
      BY <1>0 DEF InPool
    <3> QED
      BY <1>o, <3>1 DEF InPool
  <2>1. CASE i \in DOMAIN s /\ q[i] = s[i]
    BY <1>0, <1>2, <2>1, <2>a
  <2>2. CASE i - Len(s) \in DOMAIN pool /\ i > Len(s) /\ q[i] = pool[i - Len(s)]
    <3>1. j - Len(s) \in DOMAIN pool /\ j > Len(s) /\ q[j] = pool[j - Len(s)]
      BY <1>2, <2>2, <2>a
    <3>2. i - Len(s) = j - Len(s)
      BY <1>o, <2>2, <3>1
    <3> QED
      BY <1>0, <1>1, <3>2 DEF q
  <2> QED
    BY <1>2, <2>1, <2>2
<1>6. ASSUME NEW b \in Buffers
      PROVE  /\ InPool(q, b) => ~AtDesc(backup, b) /\ b \notin kept \ S /\ b # y
             /\ AtDesc(backup, b) => b \notin kept \ S /\ b # y
             /\ b \in kept \ S => b # y
             /\ InPool(q, b) \/ AtDesc(backup, b) \/ b \in kept \ S \/ b = y
  <2>1. b = y <=> b = x /\ b \notin S
    BY <1>0
  <2>2. b \in S => b \in kept \/ b = x
    OBVIOUS
  <2> HIDE DEF y
  <2> QED
    BY <1>4, <1>o, <2>1, <2>2
<1> QED
  BY <1>5, <1>6, <1>o DEF Owners, q, s

LEMMA OwnersRead ==
  ASSUME IInv, sound, ReadData
  PROVE  OwnersInv'
<1>0. /\ TypeOK /\ Ring /\ Owners(pool, BackupAddr0, held, p)
      /\ RxDescIdx \in Descs /\ RxBuildDescCnt \in 0 .. N /\ N \in Nat
      /\ BackupAddr0 \in [Descs -> Buffers \cup {NULL}] /\ NULL \notin Buffers
  <2>1. TypeOK /\ Ring /\ Owners(pool, BackupAddr0, held, p)
    BY DEF IInv, Ring, Base, OwnersInv
  <2>2. N \in Nat /\ NULL \notin Buffers
    BY EthAssumption DEF N, NULL, Buffers
  <2> QED
    BY <2>1, <2>2 DEF TypeOK, N
<1>1. /\ RxBuildDescCnt + 1 \in 0 .. N /\ held' = held /\ p = NULL
      /\ UpdateDescriptor(RxBuildDescCnt + 1, OWN, Detached(RxDescIdx))
  BY <1>0 DEF ReadData, Ready, N, IInv, Base, HandInv
<1>2. p' = BackupAddr0[RxDescIdx] /\ p' \in Buffers
  BY <1>0, RingRead
<1> DEFINE rest == Detached(RxDescIdx)
<1>3. \A d \in Descs : rest[d] = IF d = RxDescIdx THEN NULL ELSE BackupAddr0[d]
  BY <1>0 DEF Detached
<1>4. rest \in [Descs -> Buffers \cup {NULL}]
  BY <1>0 DEF Detached
<1>o. /\ \A i, j \in DOMAIN pool : pool[i] = pool[j] => i = j
      /\ \A d, e \in Descs : BackupAddr0[d] = BackupAddr0[e] /\ BackupAddr0[d] # NULL => d = e
      /\ \A b \in Buffers :
           /\ InPool(pool, b) => ~AtDesc(BackupAddr0, b) /\ b \notin held
           /\ AtDesc(BackupAddr0, b) => b \notin held
           /\ InPool(pool, b) \/ AtDesc(BackupAddr0, b) \/ b \in held
  BY <1>0, <1>1 DEF Owners
<1> HIDE DEF rest
<1>5. \A b \in Buffers : AtDesc(BackupAddr0, b) <=> AtDesc(rest, b) \/ b = p'
  BY <1>0, <1>2, <1>3 DEF AtDesc
<1>6. ~AtDesc(rest, p')
  BY <1>0, <1>2, <1>3, <1>o DEF AtDesc
<1>7. \A d, e \in Descs : rest[d] = rest[e] /\ rest[d] # NULL => d = e
  BY <1>3, <1>o
<1>8. \A b \in Buffers :
        /\ InPool(pool, b) => ~AtDesc(rest, b) /\ b \notin held /\ b # p'
        /\ AtDesc(rest, b) => b \notin held /\ b # p'
        /\ b \in held => b # p'
        /\ InPool(pool, b) \/ AtDesc(rest, b) \/ b \in held \/ b = p'
  BY <1>2, <1>5, <1>6, <1>o
<1>9. Owners(pool, rest, held, p')
  BY <1>7, <1>8, <1>o DEF Owners
<1>10. Owners(pool', BackupAddr0', held, p')
  BY <1>0, <1>1, <1>4, <1>9, OwnersUpdate DEF rest
<1> QED
  BY <1>1, <1>10 DEF OwnersInv

LEMMA OwnersKeep ==
  ASSUME IInv, sound, StackFrees \/ StackKeeps \/ StackReassembles \/ StackEvicts \/ ReassTimeout
  PROVE  OwnersInv'
<1>0. /\ TypeOK /\ Owners(pool, BackupAddr0, held, p) /\ held \subseteq Buffers
      /\ p \in Buffers \cup {NULL} /\ NULL \notin Buffers
  BY DEF IInv, Base, TypeOK, OwnersInv, NULL, Buffers
<1>1. BackupAddr0' = BackupAddr0
  BY DEF StackFrees, StackKeeps, StackReassembles, StackEvicts, ReassTimeout, ring
<1>2. p \notin held
  BY <1>0 DEF Owners
<1>3. ASSUME NEW S \in SUBSET Buffers, S \subseteq held \cup {p}, Free(S),
             held' = held \ S, p' = IF p \in S THEN NULL ELSE p
      PROVE  OwnersInv'
  <2>1. Owners(SetToSeq(S) \o pool, BackupAddr0, held \ S, IF p \in S THEN NULL ELSE p)
    BY <1>0, <1>3, OwnersFree
  <2> QED
    BY <1>1, <1>3, <2>1 DEF OwnersInv, Free
<1>4. CASE StackFrees
  <2>1. Free({p}) /\ held' = held /\ p' = NULL /\ p # NULL
    BY <1>4 DEF StackFrees, IInv, Base, HandInv
  <2>2. {p} \in SUBSET Buffers /\ {p} \subseteq held \cup {p} /\ held' = held \ {p}
    BY <1>0, <1>2, <2>1
  <2> QED
    BY <1>3, <2>1, <2>2
<1>5. CASE StackReassembles
  <2>0. p # NULL
    <3>1. pc = "stack"
      BY <1>5 DEF StackReassembles
    <3> QED
      BY <3>1 DEF IInv, Base, HandInv
  <2>1. PICK fragments \in SUBSET held : Free(fragments \cup {p}) /\ held' = held \ fragments
    BY <1>5 DEF StackReassembles
  <2>2. p' = NULL
    BY <1>5 DEF StackReassembles
  <2> DEFINE S == fragments \cup {p}
  <2>3. S \in SUBSET Buffers /\ S \subseteq held \cup {p} /\ held' = held \ S /\ p \in S
    BY <1>0, <1>2, <2>0, <2>1
  <2> QED
    BY <1>3, <2>1, <2>2, <2>3
<1>6. CASE ReassTimeout
  <2>1. PICK fragments \in SUBSET held : Free(fragments) /\ held' = held \ fragments
    BY <1>6 DEF ReassTimeout
  <2>2. p' = p /\ p \notin fragments
    BY <1>2, <1>6, <2>1 DEF ReassTimeout
  <2> QED
    BY <1>0, <1>3, <2>1, <2>2
<1>7. CASE StackKeeps
  <2>1. pool' = pool /\ held' = held \cup {p} /\ p' = NULL
    BY <1>7 DEF StackKeeps, buffers
  <2> QED
    BY <1>0, <1>1, <2>1 DEF OwnersInv, Owners
<1>8. CASE StackEvicts
  <2>1. PICK fragments \in SUBSET held : Free(fragments) /\ held' = (held \ fragments) \cup {p}
    BY <1>8 DEF StackEvicts
  <2>2. p' = NULL
    BY <1>8 DEF StackEvicts
  <2>3. fragments \in SUBSET Buffers /\ fragments \subseteq held \cup {p} /\ p \notin fragments
    BY <1>0, <1>2, <2>1
  <2>4. Owners(pool', BackupAddr0, held \ fragments, p)
    BY <1>0, <2>1, <2>3, OwnersFree DEF Free
  <2> QED
    BY <1>0, <1>1, <2>1, <2>2, <2>4 DEF OwnersInv, Owners
<1> QED
  BY <1>4, <1>5, <1>6, <1>7, <1>8

LEMMA OwnersStep ==
  ASSUME IInv, sound, [Next]_vars
  PROVE  OwnersInv'
<1>0. /\ TypeOK /\ Owners(pool, BackupAddr0, held, p)
      /\ RxBuildDescCnt \in 0 .. N /\ N \in 0 .. N
      /\ BackupAddr0 \in [Descs -> Buffers \cup {NULL}]
  BY EthAssumption DEF IInv, Base, TypeOK, OwnersInv, N
<1>1. CASE UNCHANGED <<pool, BackupAddr0, held, p>>
  BY <1>0, <1>1 DEF OwnersInv
<1>2. CASE /\ UNCHANGED <<held, p>>
           /\ \E cnt \in 0 .. N : UpdateDescriptor(cnt, OWN, BackupAddr0)
  BY <1>0, <1>2, OwnersUpdate DEF OwnersInv
<1>3. CASE ReadNothing \/ LinkFound
  BY <1>0, <1>1, <1>2, <1>3 DEF ReadNothing, LinkFound, buffers, lwip, RebuildAll, N
<1>4. CASE NothingDue \/ LinkNotChecked \/ LinkLost \/ DmaReceives \/ LinkChanges \/ UNCHANGED vars
  BY <1>1, <1>4 DEF NothingDue, LinkNotChecked, LinkLost, DmaReceives, LinkChanges, vars, ring, buffers, lwip
<1> QED
  BY <1>3, <1>4, OwnersRead, OwnersKeep DEF Next, Superloop

-----------------------------------------------------------------------------
LEMMA StaysConfused == ASSUME [Next]_vars, sound' PROVE sound
<1>1. LinkFound => (sound' = (sound /\ Aligned'))
  BY DEF LinkFound
<1>2. ~LinkFound => sound' = sound
  BY DEF Next, Superloop, ReadData, ReadNothing, StackFrees, StackKeeps, StackReassembles, StackEvicts,
         NothingDue, ReassTimeout, LinkNotChecked, LinkLost, DmaReceives, LinkChanges, vars
<1> QED
  BY <1>1, <1>2

LEMMA EthStep == IInv /\ [Next]_vars => IInv'
<1> SUFFICES ASSUME IInv, [Next]_vars PROVE IInv'
  OBVIOUS
<1>1. Base'
  BY BaseStep DEF IInv
<1>2. sound' => RingInv' /\ OwnersInv'
  BY StaysConfused, RingKeeps, OwnersStep DEF IInv, Ring
<1> QED
  BY <1>1, <1>2 DEF IInv

LEMMA EthInitially == Init => IInv
<1> SUFFICES ASSUME Init PROVE IInv
  OBVIOUS
<1>1. Base
  BY BaseInitially
<1>2. RingInv
  BY DEF RingInv, Fresh, Init
<1>3. OwnersInv
  <2>1. DOMAIN pool = Buffers /\ \A i \in Buffers : pool[i] = i
    BY DEF Init
  <2>2. NULL \notin Buffers
    BY DEF NULL, Buffers
  <2> QED
    BY <2>1, <2>2 DEF Init, OwnersInv, Owners, InPool, AtDesc
<1> QED
  BY <1>1, <1>2, <1>3 DEF IInv

LEMMA EthInvariant == Spec => []IInv
  BY EthInitially, EthStep, PTL DEF Spec

LEMMA OneUser ==
  ASSUME IInv, sound, NEW b \in Buffers
  PROVE  Cardinality(Users(b)) = 1
<1> DEFINE desc  == {<<"desc", d>> : d \in {d \in Descs : BackupAddr0[d] = b}}
           inp   == {<<"pool", i>> : i \in {i \in DOMAIN pool : pool[i] = b}}
           lwip_ == {<<"lwip", i>> : i \in {i \in {1} : b \in held}}
           hand  == {<<"hand", i>> : i \in {i \in {1} : b = p}}
<1>1. Users(b) = ((desc \cup inp) \cup lwip_) \cup hand
  BY DEF Users
<1>2. b # NULL
  BY DEF NULL, Buffers
<1>o. /\ \A i, j \in DOMAIN pool : pool[i] = pool[j] => i = j
      /\ \A d, e \in Descs : BackupAddr0[d] = BackupAddr0[e] /\ BackupAddr0[d] # NULL => d = e
      /\ InPool(pool, b) => ~AtDesc(BackupAddr0, b) /\ b \notin held /\ b # p
      /\ AtDesc(BackupAddr0, b) => b \notin held /\ b # p
      /\ b \in held => b # p
      /\ InPool(pool, b) \/ AtDesc(BackupAddr0, b) \/ b \in held \/ b = p
  BY DEF IInv, OwnersInv, Owners
<1>3. \E u : Users(b) = {u}
  <2>1. CASE InPool(pool, b)
    <3>1. PICK i \in DOMAIN pool : pool[i] = b
      BY <2>1 DEF InPool
    <3>2. inp = {<<"pool", i>>}
      BY <1>o, <3>1
    <3>3. desc = {} /\ lwip_ = {} /\ hand = {}
      BY <1>o, <2>1 DEF AtDesc
    <3> QED
      BY <1>1, <3>2, <3>3
  <2>2. CASE AtDesc(BackupAddr0, b)
    <3>1. PICK d \in Descs : BackupAddr0[d] = b
      BY <2>2 DEF AtDesc
    <3>2. desc = {<<"desc", d>>}
      BY <1>2, <1>o, <3>1
    <3>3. inp = {} /\ lwip_ = {} /\ hand = {}
      BY <1>o, <2>2 DEF InPool
    <3> QED
      BY <1>1, <3>2, <3>3
  <2>3. CASE b \in held
    <3>1. lwip_ = {<<"lwip", 1>>}
      BY <2>3
    <3>2. inp = {} /\ desc = {} /\ hand = {}
      BY <1>o, <2>3 DEF InPool, AtDesc
    <3> QED
      BY <1>1, <3>1, <3>2
  <2>4. CASE b = p
    <3>1. hand = {<<"hand", 1>>}
      BY <2>4
    <3>2. inp = {} /\ desc = {} /\ lwip_ = {}
      BY <1>o, <2>4 DEF InPool, AtDesc
    <3> QED
      BY <1>1, <3>1, <3>2
  <2> QED
    BY <1>o, <2>1, <2>2, <2>3, <2>4
<1> QED
  BY <1>3, FS_Singleton

(* Every buffer has one owner and the DMA none but those attached to its   *)
(* descriptors, until a restart has confused the indices: the driver loses *)
(* no buffer however many frames LwIP keeps and however often the pool     *)
(* runs dry, and the DMA never writes to a frame that LwIP has.            *)
THEOREM EveryBufferHasOwner == Spec => []OneOwner
<1>1. ASSUME IInv PROVE OneOwner
  <2> SUFFICES ASSUME sound
               PROVE  /\ \A b \in Buffers : Cardinality(Users(b)) = 1
                      /\ gState = "STARTED" => \A d \in Descs : OWN[d] => DESC2[d] = BackupAddr0[d] /\ DESC2[d] # NULL
    BY DEF OneOwner
  <2>1. \A b \in Buffers : Cardinality(Users(b)) = 1
    BY <1>1, OneUser
  <2>2. ASSUME gState = "STARTED", NEW d \in Descs, OWN[d]
        PROVE  DESC2[d] = BackupAddr0[d] /\ DESC2[d] # NULL
    <3>1. Ring
      BY <1>1 DEF IInv, Ring
    <3> QED
      BY <2>2, <3>1, Started DEF InRing, Holds
  <2> QED
    BY <2>1, <2>2
<1>2. IInv => OneOwner
  BY <1>1
<1> QED
  BY <1>2, EthInvariant, PTL

-----------------------------------------------------------------------------
(* The refinement of RxQueue.                                              *)
LEMMA SeqTail ==
  ASSUME NEW S, NEW k \in Nat, k # 0, NEW f \in [1 .. k -> S], NEW g \in [1 .. k - 1 -> S],
         \A i \in 1 .. k - 1 : g[i] = f[i + 1]
  PROVE  f # << >> /\ Head(f) = f[1] /\ Tail(f) = g
<1>1. f \in Seq(S) /\ Len(f) = k
  OBVIOUS
<1>2. g \in Seq(S) /\ Len(g) = k - 1
  <2>1. k - 1 \in Nat
    OBVIOUS
  <2> QED
    BY <2>1
<1>3. f # << >> /\ Head(f) = f[1]
  BY <1>1
<1>4. Tail(f) \in Seq(S) /\ Len(Tail(f)) = k - 1 /\ \A i \in 1 .. k - 1 : Tail(f)[i] = f[i + 1]
  BY <1>1, <1>3
<1> QED
  BY <1>2, <1>3, <1>4

LEMMA SeqAppend ==
  ASSUME NEW S, NEW k \in Nat, NEW f \in [1 .. k -> S], NEW g \in [1 .. k + 1 -> S],
         \A i \in 1 .. k : g[i] = f[i]
  PROVE  Len(f) = k /\ g = Append(f, g[k + 1])
<1>1. f \in Seq(S) /\ Len(f) = k
  OBVIOUS
<1>2. g \in Seq(S) /\ Len(g) = k + 1 /\ g[k + 1] \in S
  OBVIOUS
<1> DEFINE h == Append(f, g[k + 1])
<1>3. h \in Seq(S) /\ Len(h) = k + 1 /\ h[k + 1] = g[k + 1] /\ \A i \in 1 .. k : h[i] = f[i]
  BY <1>1, <1>2
<1> HIDE DEF h
<1>4. \A i \in 1 .. k + 1 : h[i] = g[i]
  <2> TAKE i \in 1 .. k + 1
  <2>1. i \in 1 .. k \/ i = k + 1
    OBVIOUS
  <2> QED
    BY <1>3, <2>1
<1>5. g = h
  BY <1>2, <1>3, <1>4
<1> QED
  BY <1>1, <1>5 DEF h

(* The frames in a ring that holds k of them.                              *)
HasFrame(r, i, own, backup, desc2) ==
  /\ Plus(r, i) \in Descs /\ Ahead(r, Plus(r, i)) = i
  /\ ~own[Plus(r, i)] /\ backup[Plus(r, i)] = desc2[Plus(r, i)]

LEMMA InQueue ==
  ASSUME NEW k \in 0 .. N, NEW mac, NEW r \in Descs, NEW b, NEW c \in 0 .. N,
         NEW own, NEW backup, NEW desc2, Holds(k, mac, r, b, c, own, backup, desc2),
         NEW i \in 0 .. N, i < k
  PROVE  HasFrame(r, i, own, backup, desc2)
<1>0. N \in Nat \ {0} /\ Descs = 0 .. N - 1 /\ k + c <= N
  BY EthAssumption DEF N, Descs, Holds
<1>1. i \in Descs
  BY <1>0
<1>2. PICK d \in Descs : d = Plus(r, i) /\ Ahead(r, d) = i
  BY <1>1, AheadOf, PlusIs
<1>3. /\ own[d] <=> k <= i /\ i < N - c
      /\ backup[d] = IF i < N - c THEN desc2[d] ELSE NULL
  BY <1>2 DEF Holds
<1>4. i < N - c /\ ~(k <= i)
  BY <1>0
<1> QED
  BY <1>2, <1>3, <1>4 DEF HasFrame

Waiting(r, own, backup) ==
  {i \in Descs : \A j \in 0 .. i : ~own[Plus(r, j)] /\ backup[Plus(r, j)] # NULL}

LEMMA WaitingIs ==
  ASSUME NEW k \in 0 .. N, NEW mac, NEW r \in Descs, NEW b, NEW c \in 0 .. N,
         NEW own, NEW backup, NEW desc2, Holds(k, mac, r, b, c, own, backup, desc2),
         \A d \in Descs : desc2[d] # NULL
  PROVE  Cardinality(Waiting(r, own, backup)) = k
<1>0. N \in Nat \ {0} /\ Descs = 0 .. N - 1 /\ k + c <= N
  BY EthAssumption DEF N, Descs, Holds
<1>1. ASSUME NEW i \in Descs, i < k PROVE i \in Waiting(r, own, backup)
  <2> SUFFICES ASSUME NEW j \in 0 .. i PROVE ~own[Plus(r, j)] /\ backup[Plus(r, j)] # NULL
    BY DEF Waiting
  <2>1. j \in 0 .. N /\ j < k
    BY <1>0, <1>1
  <2>2. HasFrame(r, j, own, backup, desc2)
    BY <2>1, InQueue
  <2> QED
    BY <2>2 DEF HasFrame
<1>2. ASSUME NEW i \in Waiting(r, own, backup) PROVE i < k
  <2> SUFFICES ASSUME k <= i PROVE FALSE
    BY <1>0 DEF Waiting
  <2>1. i \in Descs /\ k \in 0 .. i /\ k \in Descs
    BY <1>0 DEF Waiting
  <2>2. PICK d \in Descs : d = Plus(r, k) /\ Ahead(r, d) = k
    BY <2>1, AheadOf, PlusIs
  <2>3. ~own[d] /\ backup[d] # NULL
    BY <2>1, <2>2 DEF Waiting
  <2>4. /\ own[d] <=> k <= k /\ k < N - c
        /\ backup[d] = IF k < N - c THEN desc2[d] ELSE NULL
    BY <2>2 DEF Holds
  <2> QED
    BY <1>0, <2>3, <2>4
<1>3. Waiting(r, own, backup) = 0 .. k - 1
  <2>1. \A i : i \in 0 .. k - 1 <=> i \in Descs /\ i < k
    BY <1>0
  <2>2. \A i \in Waiting(r, own, backup) : i \in Descs
    BY DEF Waiting
  <2> QED
    BY <1>1, <1>2, <2>1, <2>2
<1>4. Cardinality(0 .. k - 1) = k
  <2>1. 0 \in Int /\ k - 1 \in Int /\ k \in Nat
    BY <1>0
  <2> QED
    BY <2>1, FS_Interval
<1> QED
  BY <1>3, <1>4

Frames(k, r, backup, cont) == [i \in 1 .. k |-> cont[backup[Plus(r, i - 1)]]]

LEMMA FramesAre ==
  ASSUME NEW k \in 0 .. N, NEW mac, NEW r \in Descs, NEW b, NEW c \in 0 .. N,
         NEW own, NEW backup, NEW desc2 \in [Descs -> Buffers \cup {NULL}],
         Holds(k, mac, r, b, c, own, backup, desc2),
         \A d \in Descs : desc2[d] # NULL, NEW cont \in [Buffers -> 0 .. MaxFrames]
  PROVE  Frames(k, r, backup, cont) \in [1 .. k -> 0 .. MaxFrames]
<1> SUFFICES ASSUME NEW i \in 1 .. k PROVE cont[backup[Plus(r, i - 1)]] \in 0 .. MaxFrames
  BY DEF Frames
<1>0. N \in Nat
  BY EthAssumption DEF N
<1>1. PICK j \in 0 .. N : j = i - 1 /\ j < k
  BY <1>0
<1>2. HasFrame(r, j, own, backup, desc2)
  BY <1>1, InQueue
<1>3. backup[Plus(r, j)] \in Buffers
  BY <1>2 DEF HasFrame
<1> QED
  BY <1>1, <1>3

LEMMA QueueNow ==
  ASSUME Base, sound, NEW k \in 0 .. N, InRing(k), \A d \in Descs : DESC2[d] # NULL
  PROVE  /\ queue = Frames(k, RxDescIdx, BackupAddr0, content)
         /\ queue \in [1 .. k -> 0 .. MaxFrames]
<1>0. /\ RxDescIdx \in Descs /\ RxBuildDescCnt \in 0 .. N
      /\ DESC2 \in [Descs -> Buffers \cup {NULL}] /\ content \in [Buffers -> 0 .. MaxFrames]
  BY DEF Base, TypeOK, N
<1>1. Cardinality(Waiting(RxDescIdx, OWN, BackupAddr0)) = k
  BY <1>0, WaitingIs DEF InRing
<1>2. queue = Frames(k, RxDescIdx, BackupAddr0, content)
  BY <1>1 DEF queue, Frames, Waiting
<1>3. Frames(k, RxDescIdx, BackupAddr0, content) \in [1 .. k -> 0 .. MaxFrames]
  BY <1>0, FramesAre DEF InRing
<1> QED
  BY <1>2, <1>3

LEMMA QueueThen ==
  ASSUME Base', sound', NEW k \in 0 .. N, InRing(k)', gState' = "STARTED"
  PROVE  /\ queue' = Frames(k, RxDescIdx', BackupAddr0', content')
         /\ queue' \in [1 .. k -> 0 .. MaxFrames]
<1>0. /\ RxDescIdx' \in Descs /\ RxBuildDescCnt' \in 0 .. N
      /\ DESC2' \in [Descs -> Buffers \cup {NULL}] /\ content' \in [Buffers -> 0 .. MaxFrames]
      /\ \A d \in Descs : DESC2'[d] # NULL
  BY DEF Base, TypeOK, N, DescInv, Fresh
<1>1. Cardinality(Waiting(RxDescIdx', OWN', BackupAddr0')) = k
  BY <1>0, WaitingIs DEF InRing
<1>2. queue' = Frames(k, RxDescIdx', BackupAddr0', content')
  BY <1>1 DEF queue, Frames, Waiting
<1>3. Frames(k, RxDescIdx', BackupAddr0', content') \in [1 .. k -> 0 .. MaxFrames]
  BY <1>0, FramesAre DEF InRing
<1> QED
  BY <1>2, <1>3

(* What is read is the oldest frame, and the others stay as they are.      *)
LEMMA Delivers == ASSUME IInv, Base', sound, sound', ReadData PROVE Queue!Deliver
<1>0. /\ Ring /\ Base /\ N \in Nat \ {0} /\ Descs = 0 .. N - 1
      /\ RxDescIdx \in Descs /\ RxBuildDescCnt \in 0 .. N
      /\ gState = "STARTED" /\ gState' = "STARTED" /\ RxDescIdx' = Plus(RxDescIdx, 1)
      /\ content' = content /\ received' = received /\ handed' = content[p']
  BY EthAssumption DEF IInv, Base, Ring, TypeOK, N, Descs, ReadData, MayRead, dma
<1>1. PICK k \in 0 .. N :
        /\ k # 0 /\ InRing(k) /\ InRing(k - 1)' /\ p' = BackupAddr0[RxDescIdx]
        /\ \A d \in Descs : BackupAddr0[d] # NULL /\ d # RxDescIdx => BackupAddr0'[d] = BackupAddr0[d]
  BY <1>0, RingRead
<1>2. \A d \in Descs : DESC2[d] # NULL
  BY <1>0, Started
<1>3. /\ queue = Frames(k, RxDescIdx, BackupAddr0, content)
      /\ queue \in [1 .. k -> 0 .. MaxFrames]
  BY <1>0, <1>1, <1>2, QueueNow
<1>4. /\ queue' = Frames(k - 1, RxDescIdx', BackupAddr0', content)
      /\ queue' \in [1 .. k - 1 -> 0 .. MaxFrames]
  <2>1. k - 1 \in 0 .. N
    BY <1>0, <1>1
  <2> QED
    BY <1>0, <1>1, <2>1, QueueThen
<1>5. ASSUME NEW i \in 1 .. k - 1 PROVE queue'[i] = queue[i + 1]
  <2>1. PICK j \in 0 .. N : j = i - 1 /\ j + 1 = i /\ 1 + j = i /\ 1 + j <= N
    BY <1>0
  <2>2. i \in 0 .. N /\ i < k /\ i + 1 \in 1 .. k /\ (i + 1) - 1 = i /\ 1 \in 0 .. N
    BY <1>0
  <2>3. Plus(RxDescIdx', j) = Plus(RxDescIdx, i)
    BY <1>0, <2>1, <2>2, PlusPlus
  <2>4. /\ Plus(RxDescIdx, i) \in Descs /\ Ahead(RxDescIdx, Plus(RxDescIdx, i)) = i
        /\ BackupAddr0[Plus(RxDescIdx, i)] = DESC2[Plus(RxDescIdx, i)]
    <3>1. HasFrame(RxDescIdx, i, OWN, BackupAddr0, DESC2)
      BY <1>0, <1>1, <2>2, InQueue DEF InRing
    <3> QED
      BY <3>1 DEF HasFrame
  <2>5. Ahead(RxDescIdx, RxDescIdx) = 0
    BY <1>0 DEF Ahead
  <2>6. Plus(RxDescIdx, i) # RxDescIdx
    BY <2>4, <2>5
  <2>7. BackupAddr0'[Plus(RxDescIdx, i)] = BackupAddr0[Plus(RxDescIdx, i)]
    BY <1>1, <1>2, <2>4, <2>6
  <2>8. queue'[i] = content[BackupAddr0'[Plus(RxDescIdx', j)]]
    BY <1>4, <2>1 DEF Frames
  <2>9. queue[i + 1] = content[BackupAddr0[Plus(RxDescIdx, i)]]
    BY <1>3, <2>2 DEF Frames
  <2> QED
    BY <2>3, <2>7, <2>8, <2>9
<1>6. queue[1] = content[BackupAddr0[RxDescIdx]]
  <2>1. 1 \in 1 .. k /\ 1 - 1 = 0 /\ 0 \in 0 .. N
    BY <1>0, <1>1
  <2>2. Plus(RxDescIdx, 0) = RxDescIdx
    BY <1>0, <2>1, PlusIs
  <2>3. queue[1] = content[BackupAddr0[Plus(RxDescIdx, 1 - 1)]]
    BY <1>3, <2>1 DEF Frames
  <2> QED
    BY <2>1, <2>2, <2>3
<1>7. queue # << >> /\ Head(queue) = queue[1] /\ Tail(queue) = queue'
  BY <1>0, <1>1, <1>3, <1>4, <1>5, SeqTail, SMTT(40)
<1> QED
  BY <1>0, <1>1, <1>6, <1>7 DEF Queue!Deliver

(* What the DMA has received joins the queue, and nothing else is written. *)
LEMMA Accepts == ASSUME IInv, Base', sound, sound', DmaReceives PROVE Queue!Accept
<1>0. /\ Ring /\ Base /\ N \in Nat \ {0} /\ Descs = 0 .. N - 1
      /\ RxDescIdx \in Descs /\ RxBuildDescCnt \in 0 .. N /\ DMACHRDR \in Descs
      /\ gState = "STARTED" /\ gState' = "STARTED"
      /\ UNCHANGED <<RxDescIdx, BackupAddr0, handed>>
      /\ received' = received + 1
      /\ content \in [Buffers -> 0 .. MaxFrames]
      /\ content' = [content EXCEPT ![DESC2[DMACHRDR]] = received']
      /\ DESC2 \in [Descs -> Buffers \cup {NULL}]
  BY EthAssumption DEF IInv, Base, Ring, TypeOK, N, Descs, DmaReceives
<1>1. PICK k \in 0 .. N :
        /\ k < N /\ InRing(k) /\ InRing(k + 1)'
        /\ BackupAddr0[DMACHRDR] = DESC2[DMACHRDR] /\ DESC2[DMACHRDR] # NULL
  BY <1>0, RingReceives
<1>2. \A d \in Descs : DESC2[d] # NULL
  BY <1>0, Started
<1>3. /\ queue = Frames(k, RxDescIdx, BackupAddr0, content)
      /\ queue \in [1 .. k -> 0 .. MaxFrames]
  BY <1>0, <1>1, <1>2, QueueNow
<1>4. /\ queue' = Frames(k + 1, RxDescIdx, BackupAddr0, content')
      /\ queue' \in [1 .. k + 1 -> 0 .. MaxFrames]
  <2>1. k + 1 \in 0 .. N
    BY <1>0, <1>1
  <2> QED
    BY <1>0, <1>1, <2>1, QueueThen
<1>5. DMACHRDR = Plus(RxDescIdx, k)
  BY <1>1 DEF InRing, Holds
<1>6. DESC2[DMACHRDR] \in Buffers
  BY <1>0, <1>1
<1>7. queue'[k + 1] = received'
  <2>1. k + 1 \in 1 .. k + 1 /\ (k + 1) - 1 = k
    BY <1>0
  <2>2. queue'[k + 1] = content'[BackupAddr0[Plus(RxDescIdx, (k + 1) - 1)]]
    BY <1>4, <2>1 DEF Frames
  <2>3. content'[DESC2[DMACHRDR]] = received'
    BY <1>0, <1>6
  <2> QED
    BY <1>1, <1>5, <2>1, <2>2, <2>3
<1>8. ASSUME NEW i \in 1 .. k PROVE queue'[i] = queue[i]
  <2>1. PICK j \in 0 .. N : j = i - 1 /\ j < k
    BY <1>0
  <2>2. i \in 1 .. k + 1
    BY <1>0
  <2>3. PICK d \in Descs :
          /\ d = Plus(RxDescIdx, j) /\ Ahead(RxDescIdx, d) = j /\ ~OWN[d]
          /\ BackupAddr0[d] = DESC2[d]
    <3>1. HasFrame(RxDescIdx, j, OWN, BackupAddr0, DESC2)
      BY <1>0, <1>1, <2>1, InQueue DEF InRing
    <3> QED
      BY <3>1 DEF HasFrame
  <2>4. d # DMACHRDR
    BY <2>3 DEF DmaReceives
  <2>5. BackupAddr0[d] # BackupAddr0[DMACHRDR]
    <3>1. Owners(pool, BackupAddr0, held, p)
      BY DEF IInv, OwnersInv
    <3> QED
      BY <1>0, <1>1, <2>4, <3>1 DEF Owners
  <2>6. content'[BackupAddr0[d]] = content[BackupAddr0[d]]
    <3>1. BackupAddr0[d] \in Buffers
      BY <1>0, <1>2, <2>3
    <3> QED
      BY <1>0, <1>1, <2>5, <3>1
  <2>7. queue'[i] = content'[BackupAddr0[Plus(RxDescIdx, j)]]
    BY <1>4, <2>1, <2>2 DEF Frames
  <2>8. queue[i] = content[BackupAddr0[Plus(RxDescIdx, j)]]
    BY <1>3, <2>1 DEF Frames
  <2> QED
    BY <2>3, <2>6, <2>7, <2>8
<1>9. Len(queue) = k /\ queue' = Append(queue, received')
  <2>1. queue \in [1 .. k -> Nat \cup {received'} \cup 0 .. MaxFrames]
    BY <1>3
  <2>2. queue' \in [1 .. k + 1 -> Nat \cup {received'} \cup 0 .. MaxFrames]
    BY <1>4
  <2>3. k \in Nat
    BY <1>0
  <2>4. Len(queue) = k /\ queue' = Append(queue, queue'[k + 1])
    BY <1>8, <2>1, <2>2, <2>3, SeqAppend
  <2> QED
    BY <1>7, <2>4
<1> QED
  BY <1>0, <1>1, <1>9 DEF Queue!Accept, N

(* A restart that leaves the three indices equal has forgotten all frames. *)
LEMMA Forgets == ASSUME IInv, Base', sound, sound', LinkFound PROVE Queue!Forget
<1>1. /\ Ring /\ gState' = "STARTED" /\ Aligned' /\ UNCHANGED <<received, handed>>
  BY DEF IInv, Ring, LinkFound, dma
<1>2. 0 \in 0 .. N
  BY EthAssumption DEF N
<1>3. InRing(0)'
  BY <1>1, RingRestarts
<1>4. queue' \in [1 .. 0 -> 0 .. MaxFrames]
  BY <1>1, <1>2, <1>3, QueueThen
<1>5. queue' = << >>
  <2>1. queue' \in Seq(0 .. MaxFrames) /\ Len(queue') = 0
    BY <1>4
  <2> QED
    BY <2>1
<1> QED
  BY <1>1, <1>5 DEF Queue!Forget

(* A buffer that a descriptor gets late is not one with a frame.           *)
LEMMA Idles == ASSUME IInv, Base', sound, sound', ReadNothing PROVE UNCHANGED Queue!queueVars
<1>0. /\ Ring /\ Base /\ N \in Nat \ {0} /\ Descs = 0 .. N - 1
      /\ RxDescIdx \in Descs /\ RxBuildDescCnt \in 0 .. N
      /\ UNCHANGED <<gState, RxDescIdx, content, received, handed, sound>>
  BY EthAssumption DEF IInv, Base, Ring, TypeOK, N, Descs, ReadNothing, dma
<1>1. CASE ~MayRead
  BY <1>0, <1>1, ZenonT(60) DEF ReadNothing, queue, Queue!queueVars
<1>2. CASE MayRead
  <2>0. gState = "STARTED" /\ gState' = "STARTED"
    BY <1>0, <1>2 DEF MayRead
  <2>1. PICK k \in 0 .. N :
          /\ InRing(k) /\ InRing(k)'
          /\ \A d \in Descs : BackupAddr0[d] # NULL => BackupAddr0'[d] = BackupAddr0[d]
    BY <1>0, <1>2, RingIdle
  <2>2. \A d \in Descs : DESC2[d] # NULL
    BY <1>0, <2>0, Started
  <2>3. queue = Frames(k, RxDescIdx, BackupAddr0, content) /\ queue \in [1 .. k -> 0 .. MaxFrames]
    BY <1>0, <2>1, <2>2, QueueNow
  <2>4. queue' = Frames(k, RxDescIdx, BackupAddr0', content) /\ queue' \in [1 .. k -> 0 .. MaxFrames]
    BY <1>0, <2>0, <2>1, QueueThen
  <2>5. ASSUME NEW i \in 1 .. k PROVE queue'[i] = queue[i]
    <3>1. PICK j \in 0 .. N : j = i - 1 /\ j < k
      BY <1>0
    <3>2. PICK d \in Descs : d = Plus(RxDescIdx, j) /\ BackupAddr0[d] = DESC2[d]
      <4>1. HasFrame(RxDescIdx, j, OWN, BackupAddr0, DESC2)
        BY <1>0, <2>1, <3>1, InQueue DEF InRing
      <4> QED
        BY <4>1 DEF HasFrame
    <3>3. BackupAddr0'[d] = BackupAddr0[d]
      BY <2>1, <2>2, <3>2
    <3>4. queue'[i] = content[BackupAddr0'[Plus(RxDescIdx, j)]]
      BY <2>4, <3>1 DEF Frames
    <3>5. queue[i] = content[BackupAddr0[Plus(RxDescIdx, j)]]
      BY <2>3, <3>1 DEF Frames
    <3> QED
      BY <3>2, <3>3, <3>4, <3>5
  <2>6. queue' = queue
    BY <2>3, <2>4, <2>5
  <2> QED
    BY <1>0, <2>6 DEF Queue!queueVars
<1> QED
  BY <1>1, <1>2

LEMMA QueueStep ==
  ASSUME IInv, IInv', [Next]_vars
  PROVE  [Queue!QueueNext]_(Queue!queueVars)
<1>1. CASE ~sound'
  BY <1>1 DEF Queue!QueueNext
<1>2. CASE sound'
  <2>1. sound /\ Base'
    BY <1>2, StaysConfused DEF IInv
  <2>2. CASE ReadData
    BY <1>2, <2>1, <2>2, Delivers DEF Queue!QueueNext
  <2>3. CASE DmaReceives
    BY <1>2, <2>1, <2>3, Accepts DEF Queue!QueueNext
  <2>4. CASE LinkFound
    BY <1>2, <2>1, <2>4, Forgets DEF Queue!QueueNext
  <2>5. CASE ReadNothing
    BY <1>2, <2>1, <2>5, Idles
  <2>6. CASE UNCHANGED <<OWN, BackupAddr0, RxDescIdx, content, received, handed, sound>>
    BY <2>6 DEF queue, Queue!queueVars
  <2>7. CASE \/ StackFrees \/ StackKeeps \/ StackReassembles \/ StackEvicts \/ NothingDue
             \/ ReassTimeout \/ LinkNotChecked \/ LinkLost \/ LinkChanges \/ UNCHANGED vars
    BY <2>6, <2>7 DEF StackFrees, StackKeeps, StackReassembles, StackEvicts, NothingDue,
         ReassTimeout, LinkNotChecked, LinkLost, LinkChanges, vars, ring, dma
  <2> QED
    BY <2>2, <2>3, <2>4, <2>5, <2>7 DEF Next, Superloop
<1> QED
  BY <1>1, <1>2

LEMMA QueueInitially == ASSUME Init PROVE Queue!QueueInit
<1>1. ASSUME NEW i \in Descs PROVE ~ \A j \in 0 .. i : ~OWN[Plus(RxDescIdx, j)]
                                                   /\ BackupAddr0[Plus(RxDescIdx, j)] # NULL
  <2>1. i \in Nat /\ 0 \in 0 .. i /\ RxDescIdx \in Descs /\ 0 \in 0 .. N
    BY EthAssumption DEF Descs, N, Init
  <2>2. Plus(RxDescIdx, 0) \in Descs
    BY <2>1, PlusIs
  <2>3. OWN[Plus(RxDescIdx, 0)]
    BY <2>2 DEF Init
  <2> QED
    BY <2>1, <2>3
<1>2. Waiting(RxDescIdx, OWN, BackupAddr0) = {}
  BY <1>1 DEF Waiting
<1>3. Cardinality(Waiting(RxDescIdx, OWN, BackupAddr0)) = 0
  BY <1>2, FS_EmptySet
<1>4. queue = Frames(0, RxDescIdx, BackupAddr0, content)
  BY <1>3 DEF queue, Frames, Waiting, Init
<1>5. Frames(0, RxDescIdx, BackupAddr0, content) = << >>
  <2>1. 1 .. 0 = {}
    OBVIOUS
  <2> QED
    BY <2>1 DEF Frames
<1> QED
  BY <1>4, <1>5 DEF Queue!QueueInit, Init

(* The driver implements RxQueue: between the descriptors and LwIP no       *)
(* frame is lost, doubled or overtaken, whatever LwIP keeps, whenever the   *)
(* pool runs dry and however often the link fails, until a restart finds a  *)
(* frame unread or the pool empty (HAL_ETH_Start_IT resets no index).       *)
THEOREM FramesAreQueued == Spec => IsAQueue
<1>1. Init => Queue!QueueInit
  BY QueueInitially
<1>2. IInv /\ IInv' /\ [Next]_vars => [Queue!QueueNext]_(Queue!queueVars)
  BY QueueStep
<1> QED
  BY <1>1, <1>2, EthInvariant, PTL DEF Spec, IsAQueue, Queue!QueueSpec
=============================================================================
