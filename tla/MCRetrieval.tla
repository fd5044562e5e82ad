----------------------------- MODULE MCRetrieval ----------------------------
(* A small instance of Retrieval for TLC.                                  *)
EXTENDS Retrieval

CONSTANTS v, p1, p2

Plain(kind)    == [kind |-> kind, letters |-> << >>, value |-> {}]
Stack(letters) == [kind |-> "flags", letters |-> letters, value |-> {}]
Number(i)      == [kind |-> "word", letters |-> << >>, value |-> {i}]
Word           == Plain("word")

(* Any four of these, with stacks that meet in a letter; and any two with  *)
(* the odd ones: -0 is a stack and a number, -ii repeats itself.           *)
UsualArgs ==
  {Plain("help"), Plain("all"), Plain("n"), Word, Number(5), Number(256),
   Stack(<<"u">>), Stack(<<"s", "u">>), Stack(<<"a", "t">>)}

OddArgs ==
  {Plain("other"), Plain("get"), Stack(<<"i", "i">>), Stack(<<"x">>),
   [kind |-> "flags", letters |-> <<"0">>, value |-> {0}]}

(* With IntMax = 1 the identifiers are -2 .. 1, and 4 wraps to 0.          *)
GetArgs == {Number(0), Number(4), Word,
            [kind |-> "flags", letters |-> <<"1">>, value |-> {-1}]}

Lists(args, k) == UNION {[1 .. m -> args] : m \in 0 .. k}

AllLists ==
  Lists(UsualArgs, 4)
    \cup [1 .. 2 -> UsualArgs \cup OddArgs]
    \cup {<<Plain("get")>> \o ids : ids \in Lists(GetArgs, 2)}
    \cup {<<Plain("export")>> \o more : more \in Lists({Word}, 1)}

Logged(id) == [test_id |-> id, run |-> [proc |-> v, peripheral |-> TEST_ADC], result |-> 1]

Unlogged == [p \in Procs |-> IF p = p1 THEN 0 ELSE 1]

Tables == {<< >>, <<Logged(0), Logged(1), Logged(0)>>}
=============================================================================
