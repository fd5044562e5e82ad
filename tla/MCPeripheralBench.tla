-------------------------- MODULE MCPeripheralBench --------------------------
(* Small instances of PeripheralBench: bytes of one bit, messages of up to *)
(* four of them for a FIFO that takes two.                                 *)
EXTENDS PeripheralInvariants

AllMessages == {<< >>, <<0>>, <<0, 1>>, <<0, 1, 1>>, <<1, 0, 0, 1>>}
=============================================================================
