------------------------------ MODULE MCUutBench ----------------------------
(* Small instances of UutBench for TLC.                                    *)
EXTENDS UutBench, TLC

CONSTANTS c1, c2, c3, c4, c5, c6
Three == {c1, c2, c3}
Six   == {c1, c2, c3, c4, c5, c6}
SymThree == Permutations(Three)
SymSix   == Permutations(Six)

Kind(x, n, len) == [peripheral |-> x, n_iter |-> n, p_len |-> len]

(* Good requests, an empty message, no iterations, an unknown code (3).    *)
AllKinds == {Kind(TEST_UART, 2, 4), Kind(TEST_SPI, 1, 0), Kind(TEST_TIM, 1, 0),
             Kind(TEST_ADC, 0, 0), Kind(3, 1, 0)}
OneKind  == {Kind(TEST_TIM, 1, 0)}

Working  == [x \in Peripherals |-> {"pass"}]
Hanging  == [x \in Peripherals |-> IF x = TEST_UART THEN {"pass", "fail", "spin"} ELSE {"pass"}]
=============================================================================
