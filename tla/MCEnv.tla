------------------------------- MODULE MCEnv -------------------------------
(* Small environments, command lines and file systems for TLC. *)
EXTENDS Commands

A  == <<"A">>
AB == <<"A", "B">>

SmallLetters == {"A", "B", "P", "W", "D", "O", "L", "T", "H"}
SmallChar    == SmallLetters \cup {"1", "-", "=", "x", "/", ".", ":"}

\* A is a prefix of AB; one string of environ is no NAME=VALUE; the search goes
\* to /x, to the working directory and to the root
SmallEnvirons ==
    {<<A, make_kv(AB, <<>>), make_kv(PWD, <<"/">>), make_kv(PATH, <<":", "/", "x", ":", ":", ".", ":", "/">>),
       make_kv(A, <<"B", "=", "x">>)>>}

SmallDirs == {<<"/">>, <<"/", "x">>}

Cmd(n, as) == [name |-> n, args |-> as]

SmallCommands ==
    {Cmd("export", <<A, AB, make_kv(A, <<"B", "=", "x">>)>>),
     Cmd("export", <<A, <<"1", "B">>, AB>>),
     Cmd("unset", <<A, PATH>>),
     Cmd("unset", <<<<"-">>, make_kv(A, <<"B">>), AB>>),
     Cmd("cd", <<>>),
     Cmd("cd", <<<<"x">>>>),
     Cmd("cd", <<<<".", "/", ".", ".">>>>),
     Cmd("cd", <<<<"/", "x", "/">>>>)}

\* A is in both directories, B is a program in the root only, D nowhere, and x
\* is a directory
SmallFiles ==
    (<<"/", "x", "/", "A">> :> "program") @@ (<<"/", "A">> :> "program") @@
    (<<"/", "x", "/", "B">> :> "data") @@ (<<"/", "B">> :> "program")

SmallForked ==
    {Cmd("env", <<>>), Cmd("pwd", <<>>), Cmd("program", <<>>)} \cup
    {Cmd("program", <<w>>) : w \in {<<>>, A, <<"B">>, <<"D">>, <<"x">>, <<".", "/", "B">>}}
=============================================================================
