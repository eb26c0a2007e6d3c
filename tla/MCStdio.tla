------------------------------ MODULE MCStdio ------------------------------
(* The words that exit is given, around LongMax = 1023, for TLC. *)
EXTENDS Stdio

SmallExitArgs ==
    {<<>>, <<"x">>, <<"-">>, <<"7", " ">>, <<" ", "+", "7">>, <<"-", "1">>, <<"-", "-", "1">>,
     <<"2", "5", "6">>, <<"1", "0", "2", "3">>, <<"1", "0", "2", "4">>, <<"0", "1", "0", "2", "0">>,
     <<"-", "1", "0", "2", "3">>, <<"-", "1", "0", "2", "4">>, <<"1", "0", "2", "3", "0">>}
=============================================================================
