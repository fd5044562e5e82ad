---------------------------- MODULE MCVerifSystem ---------------------------
(* Small instances of VerifSystem for TLC.                                 *)
EXTENDS VerifInvariants, TLC

CONSTANTS p1, p2, p3
Two   == {p1, p2}
Three == {p1, p2, p3}
SymTwo   == Permutations(Two)
SymThree == Permutations(Three)

Cmd(want, n, len) == [want |-> want, n |-> n, strlen |-> [x \in MsgTests |-> len]]

(* One message test and one without a message, so that an answer can be    *)
(* taken for that of the other test.                                       *)
Pair   == {Cmd({TEST_UART, TEST_TIM}, 1, 5)}
Single == {Cmd({TEST_UART}, 1, 5), Cmd({TEST_TIM}, 1, 0)}

(* Two iterations; a message of 256 bytes, of which the length byte says   *)
(* 0; no iterations at all.                                                *)
Mixed  == {Cmd({TEST_UART, TEST_TIM}, 2, 5), Cmd({TEST_SPI}, 1, 256), Cmd({TEST_ADC}, 0, 0)}

UartSuspect == [x \in Peripherals |-> IF x = TEST_UART THEN {"pass", "fail"} ELSE {"pass"}]
=============================================================================
