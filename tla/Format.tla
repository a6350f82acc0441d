------------------------------- MODULE Format -------------------------------
(***************************************************************************)
(* vsprintf_s of the freestanding C library (lib/stdlib/stdlib.c) against  *)
(* a reference that renders every directive on its own.                    *)
(*                                                                         *)
(* A character is a one-letter string, a text a sequence of these.  A      *)
(* format is a sequence of tokens: a character, or a directive with its    *)
(* conversion, padding character and width ("" and 0 if not given).        *)
(***************************************************************************)
EXTENDS Integers, Sequences, SequencesExt

NUL == "\\0"
Null == <<"NULL">>          \* a null pointer passed for %s

Lit(c) == [conv |-> "", char |-> c, pad |-> "", width |-> 0]
Dir(conv, pad, width) == [conv |-> conv, char |-> "", pad |-> pad, width |-> width]

hexchars ==
  <<"0", "1", "2", "3", "4", "5", "6", "7", "8", "9", "a", "b", "c", "d", "e", "f">>

-----------------------------------------------------------------------------
Take(s, n) == SubSeq(s, 1, IF n < Len(s) THEN n ELSE Len(s))

\* itoa and xtoa, which differ in the base only.
Digits(num, base) ==
  LET D[n \in Nat] == (IF n < base THEN <<>> ELSE D[n \div base]) \o <<hexchars[(n % base) + 1]>>
  IN D[num]

Padding_OneMore(count, len) == IF len <= count THEN (count - len) + 1 ELSE 0

\* The padding of %x.
Padding(count, len) == IF len < count THEN count - len ELSE 0

\* One turn of the loop of vsprintf_s; p is what the local variables hold.
\* Digits do not count as written, and the padding stays for later directives.
Directive(p, t, size) ==
  LET given == t.pad # ""
      pad == IF given THEN t.pad ELSE p.padding
      count == IF given THEN t.width ELSE p.padding_count
      q == [p EXCEPT !.padding = pad, !.padding_count = count]
      arg == Head(p.args)
      text == IF arg = Null THEN <<"n", "u", "l", "l">> ELSE arg
      cut == IF Len(text) + p.written > size THEN Take(text, size - p.written) ELSE text
      hex == Digits(arg, 16)
  IN CASE t.conv = "" -> [p EXCEPT !.out = Append(@, t.char), !.written = @ + 1]
       [] t.conv = "s" -> [q EXCEPT !.out = @ \o cut, !.written = @ + Len(cut), !.args = Tail(@)]
       [] t.conv = "c" -> [q EXCEPT !.out = Append(@, arg), !.written = @ + 1, !.args = Tail(@)]
       [] t.conv \in {"d", "u"} -> [q EXCEPT !.out = @ \o Digits(arg, 10), !.args = Tail(@)]
       [] t.conv = "x" ->
            [q EXCEPT !.out = @ \o [i \in 1 .. Padding(count, Len(hex)) |-> pad] \o hex,
                      !.args = Tail(@)]
       [] t.conv = "%" -> q
       [] OTHER -> [q EXCEPT !.out = Append(@, "%"), !.written = @ + 1]

\* vsprintf_s: what is stored from the start of the buffer on, be there room
\* for it or not.
vsprintf_s(size, fmt, args) ==
  LET start == [out |-> <<>>, written |-> 0, padding |-> " ", padding_count |-> 0, args |-> args]
      step(p, t) == IF p.written < size - 1 THEN Directive(p, t, size) ELSE p
  IN Append(FoldLeft(step, start, fmt).out, NUL)

-----------------------------------------------------------------------------
(* The reference: every directive on its own. *)

\* The pad and the width in force at a directive: the last ones given.
Layout(fmt, i) ==
  LET given == {j \in 1 .. i : fmt[j].pad # ""}
  IN IF given = {} THEN Dir("", " ", 0) ELSE fmt[Max(given)]

\* The text of one directive.
Rendered(fmt, i, arg) ==
  CASE fmt[i].conv = "" -> <<fmt[i].char>>
    [] fmt[i].conv = "s" -> IF arg = Null THEN <<"n", "u", "l", "l">> ELSE arg
    [] fmt[i].conv = "c" -> <<arg>>
    [] fmt[i].conv \in {"d", "u"} -> Digits(arg, 10)
    [] fmt[i].conv = "x" ->
         LET digits == Digits(arg, 16)
             width == Max({Len(digits), Layout(fmt, i).width})
         IN [k \in 1 .. width |->
               IF k <= width - Len(digits) THEN Layout(fmt, i).pad
               ELSE digits[k - (width - Len(digits))]]
    [] fmt[i].conv = "%" -> <<>>
    [] OTHER -> <<"%">>

\* The pieces of a message: the i-th directive that takes an argument has the
\* i-th.
Pieces(fmt, args) ==
  LET takes(t) == t.conv \in {"s", "c", "d", "u", "x"}
      index(i) == Len(SelectSeq(SubSeq(fmt, 1, i), takes))
  IN [i \in 1 .. Len(fmt) |-> Rendered(fmt, i, args[index(i)])]

Message(fmt, args) == FlattenSeq(Pieces(fmt, args))

\* How many characters of it are digits and their padding.
NumberChars(fmt, args) ==
  LET piece(i) == IF fmt[i].conv \in {"d", "u", "x"} THEN Pieces(fmt, args)[i] ELSE <<>>
  IN Len(FlattenSeq([i \in 1 .. Len(fmt) |-> piece(i)]))
=============================================================================
