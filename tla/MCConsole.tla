------------------------------ MODULE MCConsole ------------------------------
(***************************************************************************)
(* The formats of the kernel with short names, on a screen of a few cells: *)
(* lines that fit, fill and overflow a row, messages without a newline and *)
(* with a carriage return, numbers of one digit and of more, padded or not.*)
(* The text of a program (kcall_debug) may end in newlines, have empty     *)
(* lines inside and be longer than the buffer.  The last formats have what *)
(* no message of the kernel has: %% and a bare %x behind a padded one.     *)
(***************************************************************************)
EXTENDS Console

Literal(text) == [i \in 1 .. Len(text) |-> Lit(text[i])]
Conv(c) == <<Dir(c, "", 0)>>

\* log(LEVEL, msg)
Log(file, line, msg) ==
  [fmt |-> Literal(<<"[", "I", ":">>) \o Conv("s") \o Literal(<<":">>) \o Conv("d")
             \o Literal(<<"]">>) \o Conv("s") \o Literal(<<"\n">>),
   args |-> <<file, line, msg>>]

KernelMessages ==
  {Log(<<"g">>, 107, <<"B", "S">>), Log(Null, 7, <<>>), Log(<<"k">>, 43, <<"u", "\r", "v">>),
   [fmt |-> Literal(<<"c", "=">>) \o <<Dir("x", "0", 8)>> \o Literal(<<"\n">>)
              \o Literal(<<"d", "=">>) \o <<Dir("x", "0", 2)>> \o Literal(<<"\n">>),
    args |-> <<1048575, 171>>],
   [fmt |-> Conv("u") \o Conv("c") \o Literal(<<"N">>), args |-> <<1000000, "!">>],
   [fmt |-> Literal(<<"S", "t", "a", "c", "k">>), args |-> <<>>],
   Log(<<"k">>, 43, <<"u", "\n">>), Log(<<"k">>, 43, <<"u", "\n", "\n">>),
   Log(<<"k">>, 43, <<"\n", "\n", "v">>), Log(<<"k">>, 43, [i \in 1 .. 20 |-> "w"]),
   [fmt |-> <<Dir("x", "0", 4)>> \o Conv("x") \o Conv("%") \o Conv("q"), args |-> <<10, 11>>]}

CallChains == {<<>>, <<16, 4096>>, <<16, 4096, 32, 255>>}
=============================================================================
