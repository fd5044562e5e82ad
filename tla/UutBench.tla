------------------------------ MODULE UutBench ------------------------------
(***************************************************************************)
(* The unit under test on its own, with clients that each send one request *)
(* of their choice, well formed or not, whenever they like.                *)
(***************************************************************************)
EXTENDS UutServer

CONSTANT Kinds      \* the requests a client may send

ASSUME KindsAssumption == Kinds \subseteq [peripheral : Byte, n_iter : Byte, p_len : Byte]

VARIABLES
  asked,            \* the clients that have sent their request
  accepted          \* the requests that found a descriptor, in order of arrival

benchVars == <<netVars, uutVars, asked, accepted>>

BenchInit == NetInit /\ UutInit /\ asked = {} /\ accepted = << >>

Ask(p) ==
  /\ p \notin asked
  /\ \E k \in Kinds :
       SendRequest([from |-> p, test_id |-> 0, peripheral |-> k.peripheral,
                    n_iter |-> k.n_iter, p_len |-> k.p_len])
  /\ asked' = asked \cup {p}
  /\ UNCHANGED <<toPc, dups, uutVars, accepted>>

BenchUut == UutStep /\ UNCHANGED <<asked, accepted>>

BenchDeliver ==
  /\ \/ EthReceive /\ accepted' = Append(accepted, rx_ring'[Len(rx_ring')])
     \/ EthMissed /\ UNCHANGED accepted
  /\ UNCHANGED asked

BenchNext == (\E p \in Procs : Ask(p)) \/ BenchUut \/ BenchDeliver

BenchSpec     == BenchInit /\ [][BenchNext]_benchVars
BenchFairSpec == BenchSpec /\ WF_benchVars(BenchUut) /\ WF_benchVars(BenchDeliver)

-----------------------------------------------------------------------------
Accepted(p) == \E i \in DOMAIN rx_ring : rx_ring[i].from = p
Served(p)   == \E k \in DOMAIN ran : ran[k].request.from = p

(* A request that found a descriptor is served, however many others come   *)
(* while it waits, and although a response before it may have found no     *)
(* memory; only a test that hangs stops the server.                        *)
AcceptedIsServed == \A p \in Procs : Accepted(p) ~> (Served(p) \/ uut_pc = "spin")

(* Of the requests accepted, the first ones have been performed, the next  *)
(* one is in hand unless the superloop polls, and the rest wait in their   *)
(* descriptors: none is lost, repeated, overtaken or mixed with another.   *)
ServedInOrder ==
  accepted = [k \in DOMAIN ran |-> ran[k].request]
             \o (IF uut_pc = "poll" THEN << >> ELSE <<uut_msg>>)
             \o rx_ring

(* perform_test reports success exactly if the peripheral is one it knows  *)
(* and all the iterations that the request asked for have passed.          *)
VerdictSound ==
  \A k \in DOMAIN ran :
    ran[k].result = TEST_SUCCESS <=>
      /\ ran[k].request.peripheral \in Peripherals
      /\ ran[k].passes = ran[k].request.n_iter

(* What hw_verif_udp.h says of a request that arrives while another one is *)
(* being handled: it is held in a queue until that one is complete.        *)
HeldInAQueue ==
  [][\A m \in toUut \ toUut' : uut_pc # "poll" => \E i \in DOMAIN rx_ring' : rx_ring'[i] = m]_benchVars
=============================================================================
