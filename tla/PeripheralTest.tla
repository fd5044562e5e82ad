--------------------------- MODULE PeripheralTest ---------------------------
(***************************************************************************)
(* What the tests of all peripherals have in common: a function that is    *)
(* called again and again, with a message or without, and returns a        *)
(* verdict; and the wires, of which every module knows its own faults.     *)
(* Each module that extends this one models one <x>_Test_Perform.          *)
(***************************************************************************)
EXTENDS Integers, Sequences

CONSTANTS
  Bytes,      \* the values of a byte
  Messages,   \* the messages tested with
  LineFaults, \* what may go wrong outside the program
  MaxFaults,  \* how often, over the whole run
  FifoDepth,  \* SPI: bytes a transmitter takes before the first is clocked out
  IdleByte,   \* I2C: what the master reads when nobody drives the bus
  N_SAMPLES,  \* timer: samples of a test,
  EXPECTED_INTERVAL,  \* TIM2's counts in a period of TIM6,
  Wrap,       \* the number of values of TIM2's counter,
  MaxDelay,   \* and the counts that the program may take to start or to stop it
  Builds      \* ADC: the builds considered, "Debug" (-O0) and "Release" (-Os)

ASSUME PeripheralAssumption ==
  /\ Bytes # {} /\ Bytes \subseteq Nat
  /\ Messages \subseteq Seq(Bytes)
  /\ MaxFaults \in Nat
  /\ FifoDepth \in Nat \ {0}
  /\ IdleByte \in Bytes
  /\ {N_SAMPLES, EXPECTED_INTERVAL, Wrap, MaxDelay} \subseteq Nat
  /\ N_SAMPLES > 1 /\ Wrap > EXPECTED_INTERVAL
  /\ EXPECTED_INTERVAL > 2 * MaxDelay      \* 0.5 ms against some microseconds
  /\ Builds \subseteq {"Debug", "Release"}

NoByte == -1
NoMessage == <<NoByte>>     \* what tests without a message are called with

VARIABLES
  pc,        \* the call the test is about to make
  msg,       \* what it was called with
  verdict,   \* what it last returned
  damaged,   \* values changed on their way in this test (history, up to 2)
  faults,    \* what has gone wrong so far, in order (history)
  since      \* how much of that before this test (history)

testVars == <<pc, msg, verdict>>
history  == <<damaged, faults, since>>

TestTypeOK ==
  /\ msg \in Seq(Bytes) \cup {NoMessage}
  /\ verdict \in {"none", "pass", "fail"}
  /\ damaged \in 0..2
  /\ faults \in Seq(LineFaults) /\ Len(faults) <= MaxFaults
  /\ since \in 0..Len(faults)

TestInit ==
  /\ pc = "idle" /\ msg = << >> /\ verdict = "none"
  /\ damaged = 0 /\ faults = << >> /\ since = 0

(* past: how many of the faults are over.                                  *)
BeginTest(m, past) ==
  /\ pc = "idle" /\ pc' = "start"
  /\ msg' = m
  /\ verdict' = "none" /\ damaged' = 0 /\ since' = past
  /\ UNCHANGED faults

Return(v) == pc' = "idle" /\ verdict' = v

(* Match_CRC: the CRC tells any two different messages apart; the part of  *)
(* the buffer that the DMA has not written may hold anything.              *)
CrcVerdicts(buffer) ==
  (IF buffer = msg THEN {"pass"} ELSE {"fail"})
    \cup {v \in {"pass"} : Len(buffer) < Len(msg)}

Happened(kinds) == \E i \in DOMAIN faults : faults[i] \in kinds

(* Faults come in any combination, except that a glitch comes alone.       *)
Fault(kind) ==
  /\ kind \in LineFaults /\ Len(faults) < MaxFaults
  /\ ~Happened({"glitch"})
  /\ kind = "glitch" => faults = << >>
  /\ faults' = Append(faults, kind)
  /\ UNCHANGED since

Damage(sent, got) ==
  damaged' = IF sent # got /\ damaged < 2 THEN damaged + 1 ELSE damaged

-----------------------------------------------------------------------------
OwnFault == Len(faults) > since

(* What reaches a later test by way of the peripheral: a byte that stays   *)
(* in the receiver of a UART, a slave of the I2C bus that stays armed.     *)
Lingering == Happened({"glitch", "hold"})

(* A test in which exactly one value was changed on its way does not pass, *)
(* whatever else happened: the verdict rests on values that this test had  *)
(* sent or sampled, and on all of them.                                    *)
SoundPass == verdict = "pass" => damaged # 1

(* A test fails only for something that went wrong while it ran, or for    *)
(* the empty message: no test hands its trouble on to the next, except     *)
(* what Lingering names, and no interleaving makes a sound wire fail.      *)
NoFalseAlarm == verdict = "fail" => msg = << >> \/ OwnFault \/ Lingering
=============================================================================
