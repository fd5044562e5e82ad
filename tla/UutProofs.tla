------------------------------ MODULE UutProofs -----------------------------
(***************************************************************************)
(* The safety properties of the unit under test on its own, for every set  *)
(* of clients and of requests, every network, every number of receive      *)
(* descriptors and whatever the iterations of the tests come to:           *)
(*   InOrder            requests are served once, in order of acceptance   *)
(*   VerdictsAreSound   a verdict says what the iterations came to         *)
(***************************************************************************)
EXTENDS UutBench, UutFacts, SequenceTheorems

BenchType == UutType /\ asked \subseteq Procs /\ accepted \in Seq(Request)

-----------------------------------------------------------------------------
(* Types.                                                                  *)
LEMMA BenchTypeInit == BenchInit => BenchType
<1> SUFFICES ASSUME BenchInit PROVE BenchType
  OBVIOUS
<1> USE DEF BenchInit, BenchType, UutType
<1>1. NetTypeOK
  BY NetAssumption DEF NetInit, NetTypeOK
<1>2. UutTypeOK
  BY UutAssumption DEF UutInit, UutTypeOK, UutMsg, Byte
<1> QED BY <1>1, <1>2 DEF UutInit

LEMMA BenchTypeStep == BenchType /\ [BenchNext]_benchVars => BenchType'
<1> SUFFICES ASSUME BenchType, [BenchNext]_benchVars PROVE BenchType'
  OBVIOUS
<1> USE DEF BenchType
<1>1. ASSUME NEW p \in Procs, Ask(p) PROVE BenchType'
  <2>1. PICK k \in Kinds :
          SendRequest([from |-> p, test_id |-> 0, peripheral |-> k.peripheral,
                       n_iter |-> k.n_iter, p_len |-> k.p_len])
    BY <1>1 DEF Ask
  <2>2. [from |-> p, test_id |-> 0, peripheral |-> k.peripheral,
         n_iter |-> k.n_iter, p_len |-> k.p_len] \in Request
    BY KindsAssumption DEF Request
  <2>3. UNCHANGED <<toPc, dups, uutVars, accepted>> /\ asked' = asked \cup {p}
    BY <1>1 DEF Ask
  <2>4. NetTypeOK'
    BY <2>1, <2>2, <2>3 DEF UutType, NetTypeOK, SendRequest
  <2> QED BY <2>3, <2>4 DEF UutType, UutTypeOK, uutVars
<1>2. CASE BenchUut
  BY <1>2, UutTypes DEF BenchUut
<1>3. CASE BenchDeliver
  <2>1. UutType' /\ UNCHANGED asked
    BY <1>3, UutTypes DEF BenchDeliver
  <2>2. CASE UNCHANGED accepted
    BY <2>1, <2>2
  <2>3. CASE EthReceive /\ accepted' = Append(accepted, rx_ring'[Len(rx_ring')])
    <3>1. rx_ring' \in Seq(Request) /\ rx_ring' # << >>
      BY <2>1, <2>3 DEF EthReceive, UutType, UutTypeOK
    <3>2. rx_ring'[Len(rx_ring')] \in Request
      BY <3>1
    <3> QED BY <2>1, <2>3, <3>2
  <2> QED BY <1>3, <2>2, <2>3 DEF BenchDeliver
<1>4. CASE UNCHANGED benchVars
  BY <1>4 DEF benchVars, netVars, uutVars, UutType, UutTypeOK, NetTypeOK
<1> QED BY <1>1, <1>2, <1>3, <1>4 DEF BenchNext

LEMMA BenchTypes == BenchSpec => []BenchType
BY BenchTypeInit, BenchTypeStep, PTL DEF BenchSpec

-----------------------------------------------------------------------------
(* Order of service.                                                       *)
Performances == [k \in DOMAIN ran |-> ran[k].request]
InHand       == IF uut_pc = "poll" THEN << >> ELSE <<uut_msg>>

LEMMA ServiceTypes ==
  ASSUME BenchType
  PROVE  /\ Performances \in Seq(Request) /\ InHand \in Seq(Request)
         /\ rx_ring \in Seq(Request) /\ Len(Performances) = Len(ran)
<1>1. ran \in Seq(Performed) /\ rx_ring \in Seq(Request)
  BY DEF BenchType, UutType, UutTypeOK
<1>2. \A k \in 1..Len(ran) : ran[k].request \in Request
  <2>1. \A k \in 1..Len(ran) : ran[k] \in Performed
    BY <1>1
  <2> QED BY <2>1 DEF Performed
<1>3. Performances \in Seq(Request) /\ Len(Performances) = Len(ran)
  BY <1>1, <1>2 DEF Performances
<1>4. InHand \in Seq(Request)
  BY DEF InHand, BenchType, UutType
<1> QED BY <1>1, <1>3, <1>4

LEMMA HeadConcatTail ==
  ASSUME NEW S, NEW s \in Seq(S), s # << >>
  PROVE  <<Head(s)>> \o Tail(s) = s
<1> DEFINE h == <<Head(s)>>
<1>1. h \in Seq(S) /\ Len(h) = 1 /\ h[1] = s[1]
  BY HeadTailProperties
<1>2. Tail(s) \in Seq(S) /\ Len(Tail(s)) = Len(s) - 1 /\ Len(s) \in Nat
  BY HeadTailProperties, LenProperties
<1>3. \A i \in 1 .. Len(Tail(s)) : Tail(s)[i] = s[i + 1]
  BY HeadTailProperties
<1> HIDE DEF h
<1>4. /\ h \o Tail(s) \in Seq(S) /\ Len(h \o Tail(s)) = Len(s)
      /\ \A i \in 1 .. Len(s) : (h \o Tail(s))[i] = IF i <= 1 THEN h[i] ELSE Tail(s)[i - 1]
  <2>1. /\ h \o Tail(s) \in Seq(S) /\ Len(h \o Tail(s)) = Len(h) + Len(Tail(s))
        /\ \A i \in 1 .. Len(h) + Len(Tail(s)) :
              (h \o Tail(s))[i] = IF i <= Len(h) THEN h[i] ELSE Tail(s)[i - Len(h)]
    BY <1>1, <1>2, ConcatProperties
  <2> QED BY <1>1, <1>2, <2>1
<1>5. \A i \in 1 .. Len(s) : (h \o Tail(s))[i] = s[i]
  BY <1>1, <1>2, <1>3, <1>4
<1>6. h \o Tail(s) = s
  BY <1>4, <1>5, SeqEqual
<1> QED BY <1>6 DEF h

(* Up to n, x is u up to k and v from there on.                            *)
Joins(x, n, u, k, v) == \A i \in 1 .. n : x[i] = IF i <= k THEN u[i] ELSE v[i - k]

Agree(x, y, n) == \A i \in 1 .. n : x[i] = y[i]

LEMMA ThreeParts ==
  ASSUME NEW u, NEW v, NEW w, NEW a, NEW r, NEW c, NEW d,
         NEW k \in Nat, NEW l \in Nat, NEW m \in Nat,
         NEW e, e = k + l, NEW f, f = l + m, NEW n, n = k + l + m,
         Joins(a, e, u, k, v), Joins(r, f, v, l, w), Joins(c, n, a, e, w), Joins(d, n, u, k, r)
  PROVE  Agree(c, d, n)
<1> SUFFICES ASSUME NEW i \in 1 .. n PROVE c[i] = d[i]
  BY DEF Agree
<1> USE DEF Joins
<1>1. CASE i <= k
  BY <1>1
<1>2. CASE i > k
  <2>1. PICK j \in Int : j = i - k
    OBVIOUS
  <2>2. d[i] = r[j] /\ j \in 1 .. l + m
    BY <1>2, <2>1
  <2>3. CASE j <= l
    BY <1>2, <2>1, <2>2, <2>3
  <2>4. CASE j > l
    <3>1. c[i] = w[i - (k + l)] /\ i - (k + l) = j - l
      BY <2>1, <2>4
    <3> QED
      BY <2>2, <2>4, <3>1
  <2> QED
    BY <2>1, <2>3, <2>4
<1> QED
  BY <1>1, <1>2

LEMMA Regroup ==
  ASSUME NEW S, NEW u \in Seq(S), NEW v \in Seq(S), NEW w \in Seq(S), NEW r, v \o w = r
  PROVE  u \o r = (u \o v) \o w
<1> DEFINE a == u \o v
           c == a \o w
           d == u \o r
<1>1. Len(u) \in Nat /\ Len(v) \in Nat /\ Len(w) \in Nat
  BY LenProperties
<1>2. /\ a \in Seq(S) /\ Len(a) = Len(u) + Len(v)
      /\ \A i \in 1 .. Len(u) + Len(v) : a[i] = IF i <= Len(u) THEN u[i] ELSE v[i - Len(u)]
  BY ConcatProperties
<1>3. /\ r \in Seq(S) /\ Len(r) = Len(v) + Len(w)
      /\ \A i \in 1 .. Len(v) + Len(w) : r[i] = IF i <= Len(v) THEN v[i] ELSE w[i - Len(v)]
  BY ConcatProperties
<1> HIDE DEF a
<1>4. /\ c \in Seq(S) /\ Len(c) = Len(a) + Len(w)
      /\ \A i \in 1 .. Len(a) + Len(w) : c[i] = IF i <= Len(a) THEN a[i] ELSE w[i - Len(a)]
  BY <1>2, ConcatProperties
<1>5. /\ d \in Seq(S) /\ Len(d) = Len(u) + Len(r)
      /\ \A i \in 1 .. Len(u) + Len(r) : d[i] = IF i <= Len(u) THEN u[i] ELSE r[i - Len(u)]
  BY <1>3, ConcatProperties
<1> HIDE DEF c, d
<1>6. Len(c) = Len(d)
  BY <1>1, <1>2, <1>3, <1>4, <1>5
<1>7. \A i \in 1 .. Len(d) : c[i] = d[i]
  <2>1. Joins(a, Len(a), u, Len(u), v)
    BY <1>2, Zenon DEF Joins
  <2>2. Joins(r, Len(r), v, Len(v), w)
    BY <1>3, Zenon DEF Joins
  <2>3. Joins(c, Len(d), a, Len(a), w)
    BY <1>4, <1>6, Zenon DEF Joins
  <2>4. Joins(d, Len(d), u, Len(u), r)
    BY <1>5, Zenon DEF Joins
  <2>5. Len(a) = Len(u) + Len(v) /\ Len(r) = Len(v) + Len(w) /\ Len(d) = Len(u) + Len(v) + Len(w)
    BY <1>1, <1>2, <1>3, <1>5
  <2>6. Agree(c, d, Len(d))
    BY <1>1, <2>1, <2>2, <2>3, <2>4, <2>5, ThreeParts
  <2> QED
    BY <2>6, Zenon DEF Agree
<1>8. c = d
  BY <1>4, <1>5, <1>6, <1>7, SeqEqual
<1> QED
  BY <1>8 DEF a, c, d

LEMMA OrderStep == BenchType /\ BenchType' /\ ServedInOrder /\ [BenchNext]_benchVars => ServedInOrder'
<1> SUFFICES ASSUME BenchType, BenchType', ServedInOrder, [BenchNext]_benchVars PROVE ServedInOrder'
  OBVIOUS
<1>0. accepted = Performances \o InHand \o rx_ring
  BY DEF ServedInOrder, Performances, InHand
<1>a. SUFFICES accepted' = Performances' \o InHand' \o rx_ring'
  BY DEF ServedInOrder, Performances, InHand
<1>b. /\ Performances \in Seq(Request) /\ InHand \in Seq(Request)
      /\ rx_ring \in Seq(Request) /\ Len(Performances) = Len(ran)
  BY ServiceTypes
<1>1. ASSUME UNCHANGED <<accepted, rx_ring, ran, uut_pc, uut_msg>>
      PROVE  accepted' = Performances' \o InHand' \o rx_ring'
  BY <1>0, <1>1 DEF Performances, InHand
<1>2. CASE UdpRecvCallback /\ UNCHANGED accepted
  <2>1. InHand = << >> /\ InHand' = <<Head(rx_ring)>> /\ rx_ring' = Tail(rx_ring) /\ rx_ring # << >>
    BY <1>2 DEF UdpRecvCallback, FramesLeft, InHand
  <2>2. Performances' = Performances
    BY <1>2 DEF UdpRecvCallback, Performances
  <2>3. accepted = Performances \o rx_ring
    BY <1>0, <1>b, <2>1, ConcatEmptySeq
  <2>4. /\ <<Head(rx_ring)>> \in Seq(Request) /\ Tail(rx_ring) \in Seq(Request)
        /\ <<Head(rx_ring)>> \o Tail(rx_ring) = rx_ring
    BY <1>b, <2>1, HeadConcatTail, HeadTailProperties
  <2>5. accepted = (Performances \o <<Head(rx_ring)>>) \o Tail(rx_ring)
    BY <1>b, <2>3, <2>4, Regroup
  <2> QED BY <1>2, <2>1, <2>2, <2>5
<1>3. CASE SendResult /\ UNCHANGED accepted
  <2> DEFINE e == [request |-> uut_msg, passes |-> iter, result |-> result]
  <2>1. InHand = <<uut_msg>> /\ InHand' = << >> /\ rx_ring' = rx_ring /\ ran' = Append(ran, e)
    BY <1>3 DEF SendResult, InHand
  <2>2. ran \in Seq(Performed) /\ uut_msg \in Request
    BY <1>3 DEF SendResult, BenchType, UutType, UutTypeOK
  <2>3. /\ DOMAIN ran' = 1..(Len(ran) + 1) /\ DOMAIN ran = 1..Len(ran) /\ Len(ran) \in Nat
        /\ \A k \in DOMAIN ran : ran'[k] = ran[k]
        /\ ran'[Len(ran) + 1] = e
    BY <2>1, <2>2
  <2>4. Performances' = Append(Performances, uut_msg)
    <3>1. /\ Performances = [k \in 1..Len(ran) |-> ran[k].request]
          /\ Performances' = [k \in 1..(Len(ran) + 1) |->
                                IF k = Len(ran) + 1 THEN uut_msg ELSE ran[k].request]
      BY <2>3 DEF Performances
    <3> QED BY <1>b, <2>3, <3>1
  <2>5. Performances' = Performances \o <<uut_msg>>
    BY <1>b, <2>2, <2>4, AppendIsConcat
  <2>6. Performances' \in Seq(Request)
    BY <1>b, <2>2, <2>4
  <2>7. Performances' \o << >> = Performances'
    BY <2>6, ConcatEmptySeq
  <2> QED BY <1>0, <1>3, <2>1, <2>5, <2>7
<1>4. CASE EthReceive /\ accepted' = Append(accepted, rx_ring'[Len(rx_ring')])
  <2>1. PICK m \in toUut : rx_ring' = Append(rx_ring, m)
    BY <1>4 DEF EthReceive
  <2>2. m \in Request
    BY DEF BenchType, UutType, NetTypeOK
  <2>3. UNCHANGED <<Performances, InHand>>
    BY <1>4 DEF EthReceive, Performances, InHand
  <2>4. rx_ring'[Len(rx_ring')] = m
    BY <1>b, <2>1, <2>2
  <2> DEFINE s == Performances \o InHand
  <2>5. s \in Seq(Request) /\ s \o rx_ring \in Seq(Request) /\ <<m>> \in Seq(Request)
    BY <1>b, <2>2, ConcatProperties
  <2> HIDE DEF s
  <2>6. Append(s \o rx_ring, m) = (s \o rx_ring) \o <<m>> /\ rx_ring' = rx_ring \o <<m>>
    BY <1>b, <2>1, <2>2, <2>5, AppendIsConcat
  <2>7. (s \o rx_ring) \o <<m>> = s \o rx_ring'
    BY <1>b, <2>5, <2>6, ConcatAssociative
  <2>8. accepted' = s \o rx_ring'
    BY <1>0, <1>4, <2>4, <2>6, <2>7 DEF s
  <2> QED BY <2>3, <2>8 DEF s
<1>5. CASE EthMissed /\ UNCHANGED accepted
  BY <1>1, <1>5 DEF EthMissed, uutVars
<1>6. CASE BenchUut
  <2>1. CASE UdpRecvCallback \/ SendResult
    BY <1>2, <1>3, <1>6, <2>1 DEF BenchUut
  <2>2. CASE UnknownPeripheral \/ IterationPasses \/ IterationFails \/ IterationSpins \/ AllPassed
    <3>1. UNCHANGED <<accepted, rx_ring, ran, uut_msg>> /\ uut_pc # "poll" /\ uut_pc' # "poll"
      BY <1>6, <2>2 DEF BenchUut, UnknownPeripheral, IterationPasses, IterationFails,
           IterationSpins, AllPassed, TestEnds
    <3> QED BY <1>0, <3>1 DEF Performances, InHand
  <2> QED BY <1>6, <2>1, <2>2 DEF BenchUut, UutStep
<1>7. CASE (\E p \in Procs : Ask(p)) \/ UNCHANGED benchVars
  BY <1>1, <1>7 DEF Ask, benchVars, uutVars
<1> QED BY <1>4, <1>5, <1>6, <1>7 DEF BenchNext, BenchDeliver

(* Of the requests that found a descriptor none is lost, performed twice,  *)
(* overtaken or mixed with another while the superloop is busy.            *)
THEOREM InOrder == BenchSpec => []ServedInOrder
<1>1. BenchInit => ServedInOrder
  <2> SUFFICES ASSUME BenchInit PROVE ServedInOrder
    OBVIOUS
  <2>1. accepted = << >> /\ ran = << >> /\ rx_ring = << >> /\ uut_pc = "poll"
    BY DEF BenchInit, UutInit
  <2>2. [k \in DOMAIN ran |-> ran[k].request] = << >>
    BY <2>1
  <2>3. << >> \o << >> \o << >> = << >>
    OBVIOUS
  <2> QED BY <2>1, <2>2, <2>3 DEF ServedInOrder
<1> QED
  BY <1>1, BenchTypes, OrderStep, PTL DEF BenchSpec

-----------------------------------------------------------------------------
(* perform_test says success exactly if it knows the peripheral and all    *)
(* the iterations asked for have passed, whatever the iterations come to.  *)
THEOREM VerdictsAreSound == BenchSpec => []VerdictSound
<1>1. BenchInit => VerdictInv
  BY DEF BenchInit, UutInit, VerdictInv
<1>2. BenchType /\ VerdictInv /\ [BenchNext]_benchVars => VerdictInv'
  <2> SUFFICES ASSUME BenchType, VerdictInv, [BenchNext]_benchVars PROVE VerdictInv'
    OBVIOUS
  <2>1. CASE BenchUut
    BY <2>1, VerdictStep DEF BenchType, BenchUut
  <2>2. CASE ~BenchUut
    <3>1. UNCHANGED <<uut_pc, uut_msg, iter, result, ran>>
      BY <2>2 DEF BenchNext, Ask, BenchDeliver, EthReceive, EthMissed, benchVars, uutVars
    <3> QED BY <3>1 DEF VerdictInv, Justified, Hollow
  <2> QED BY <2>1, <2>2
<1>3. VerdictInv => VerdictSound
  BY DEF VerdictInv, Justified, VerdictSound
<1> QED
  BY <1>1, <1>2, <1>3, BenchTypes, PTL DEF BenchSpec
=============================================================================
