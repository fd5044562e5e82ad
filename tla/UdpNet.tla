------------------------------- MODULE UdpNet -------------------------------
(***************************************************************************)
(* The test protocol's datagrams and the network that carries them.        *)
(*                                                                         *)
(* Every invocation of hw_tester opens a socket of its own and binds it to *)
(* an ephemeral port (main.c, udp_init_network), so the source port of a   *)
(* request identifies the invocation: the field `from' is that port, and   *)
(* the UUT's reply goes back to it.  Test identifiers are carried as the   *)
(* 32-bit pattern that both ends and the database share, read as signed.   *)
(***************************************************************************)
EXTENDS Integers

CONSTANTS
  Procs,       \* invocations of hw_tester, each with a socket of its own
  Lossy,       \* TRUE: the network may lose a datagram
  MaxDups      \* how many datagrams the network may deliver a second time

ASSUME NetAssumption == Lossy \in BOOLEAN /\ MaxDups \in Nat

VARIABLES
  toUut,       \* requests on their way to the UUT
  toPc,        \* responses on their way to, or waiting in, a tester's socket
  dups         \* the datagrams delivered twice so far

netVars == <<toUut, toPc, dups>>

None == "none"
ASSUME NoneAssumption == None \notin Procs

(* Peripheral codes: one bit each, the codes main.c and hw_verif_udp.h use. *)
TEST_TIM  == 1
TEST_UART == 2
TEST_SPI  == 4
TEST_I2C  == 8
TEST_ADC  == 16
Peripherals == {TEST_TIM, TEST_UART, TEST_SPI, TEST_I2C, TEST_ADC}

(* The tests that take a bit pattern, and those that do not. *)
MsgTests == {TEST_UART, TEST_SPI, TEST_I2C}

TEST_SUCCESS == 1
TEST_FAILED  == 255

Byte == 0..255

Request ==
  [from : Procs, test_id : Int, peripheral : Byte, n_iter : Byte, p_len : Byte]
Response == [from : Procs, test_id : Int, test_result : Byte]

NetTypeOK ==
  /\ toUut \subseteq Request
  /\ toPc \subseteq Response
  /\ dups \in 0..MaxDups

NetInit == toUut = {} /\ toPc = {} /\ dups = 0

SendRequest(m)  == toUut' = toUut \cup {m}
SendResponse(m) == toPc'  = toPc  \cup {m}

(* A datagram is delivered, for good or with a second copy still to come.  *)
TakeRequest(m) ==
  \/ toUut' = toUut \ {m} /\ UNCHANGED dups
  \/ dups < MaxDups /\ dups' = dups + 1 /\ UNCHANGED toUut

TakeResponse(m) ==
  \/ toPc' = toPc \ {m} /\ UNCHANGED dups
  \/ dups < MaxDups /\ dups' = dups + 1 /\ UNCHANGED toPc

LoseRequest ==
  /\ Lossy
  /\ \E m \in toUut : toUut' = toUut \ {m}
  /\ UNCHANGED <<toPc, dups>>

LoseResponse ==
  /\ Lossy
  /\ \E m \in toPc : toPc' = toPc \ {m}
  /\ UNCHANGED <<toUut, dups>>
=============================================================================
