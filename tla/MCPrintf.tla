------------------------------ MODULE MCPrintf -------------------------------
(***************************************************************************)
(* Calls for Printf: every kind of conversion with the numbers at the ends *)
(* of its type, alone, and formats of several parts for every count.       *)
(***************************************************************************)
EXTENDS Printf

Number(n) == [n |-> n, s |-> <<>>]
String(s) == [n |-> 0, s |-> s]

(* A part of a format and its arguments. *)
Part(chars, a) == [chars |-> chars, args |-> a]

Call(function, count, parts) ==
  [function |-> function, count |-> count,
   format |-> FlattenSeq([i \in DOMAIN parts |-> parts[i].chars]),
   args |-> FlattenSeq([i \in DOMAIN parts |-> parts[i].args])]

-----------------------------------------------------------------------------
Flags == {<<>>, <<"0">>, <<"-">>, <<"+">>, <<" ">>, <<"#">>, <<"0", "+">>, <<"-", "0">>, <<" ", "+">>,
          <<"#", "0">>}

(* Characters of a width and of a precision, and the number for an asterisk. *)
Widths == {Part(<<>>, <<>>), Part(<<"4">>, <<>>), Part(<<"1", "0">>, <<>>),
           Part(<<"*">>, <<Number(3)>>), Part(<<"*">>, <<Number(UINT_RANGE - 3)>>)}
Precisions == {Part(<<>>, <<>>), Part(<<".">>, <<>>), Part(<<".", "3">>, <<>>), Part(<<".", "9">>, <<>>),
               Part(<<".", "*">>, <<Number(2)>>), Part(<<".", "*">>, <<Number(UINT_RANGE - 1)>>)}
Lengths == {<<>>, <<"l">>, <<"h">>, <<"h", "h">>, <<"l", "l">>}

Numbers == {0, 7, 10, (UINT_RANGE \div 2) - 1, UINT_RANGE \div 2, UINT_RANGE - 1}

Conversion(f, w, p, l, c, a) ==
  Part(<<"%">> \o f \o w.chars \o p.chars \o l \o <<c>>, w.args \o p.args \o <<a>>)

IntegerCalls ==
  {Call("sprintf_", 0, <<Conversion(f, w, p, l, c, Number(n))>>) :
     f \in Flags, w \in Widths, p \in Precisions, l \in {<<>>}, c \in INTEGERS, n \in Numbers}
  \cup
  {Call("sprintf_", 0, <<Conversion(f, w, p, l, c, Number(n))>>) :
     f \in {<<>>, <<"0">>}, w \in {Part(<<"4">>, <<>>)}, p \in {Part(<<>>, <<>>)},
     l \in Lengths, c \in {"d", "x"}, n \in Numbers}

OtherCalls ==
  {Call("sprintf_", 0, <<Conversion(f, w, p, <<>>, "s", String(s))>>) :
     f \in {<<>>, <<"-">>}, w \in Widths, p \in Precisions, s \in {<<>>, <<"a">>, <<"a", "b", "a", "b">>}}
  \cup
  {Call("sprintf_", 0, <<Conversion(f, w, Part(<<>>, <<>>), <<>>, c, a)>>) :
     f \in {<<>>, <<"-">>}, w \in Widths, c \in {"c", "p"}, a \in {[n |-> 26, s |-> <<"a">>]}}

(* Bound: parts of a format. *)
MAX_PARTS == 3

Parts ==
  {Part(<<"a">>, <<>>), Part(<<"%", "d">>, <<Number(UINT_RANGE - 12)>>), Part(<<"%", "%">>, <<>>),
   Part(<<"%", "c">>, <<String(<<NUL>>)>>), Part(<<"%", "3", "s">>, <<String(<<"a">>)>>),
   Part(<<"%", "p">>, <<Number(26)>>), Part(<<"%", "l", "y">>, <<>>)}

MixedCalls ==
  {Call(k[1], k[2], s) :
     k \in {<<"printf_", 0>>, <<"sprintf_", 0>>, <<"snprintf_ of NULL", 5>>}
            \cup ({"snprintf_"} \X (0 .. 6)),
     s \in UNION {[1 .. n -> Parts] : n \in 0 .. MAX_PARTS}}
  \cup {Call("printf_", 0, <<Part(<<"a", "%">>, <<>>)>>)}

(* Texts that are longer than an int and a size_t can count. *)
LongCalls ==
  {Call(k[1], k[2], s) :
     k \in {<<"printf_", 0>>, <<"sprintf_", 0>>, <<"snprintf_", 0>>, <<"snprintf_", 5>>, <<"snprintf_", SIZE_MAX>>},
     s \in UNION {[1 .. n -> {Part(<<"a">>, <<>>), Part(<<"%", "2", "0", "0", "d">>, <<Number(7)>>),
                             Part(<<"%", "-", "5", "5", "s">>, <<String(<<"a">>)>>)}] : n \in 1 .. MAX_PARTS}}

MCCalls == IntegerCalls \cup OtherCalls \cup MixedCalls \cup LongCalls
=============================================================================
