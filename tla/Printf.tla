------------------------------- MODULE Printf --------------------------------
(***************************************************************************)
(* _vsnprintf of src/src/klibc/printf.c as the kernel compiles it: printf.h *)
(* switches off floating point and long long.  One step per character that *)
(* is copied; a conversion takes a step for each of its fields.            *)
(*                                                                         *)
(* Characters are one-letter strings, and strings are sequences of them    *)
(* without the NUL at their end.  long and int have LONG_BITS bits, short  *)
(* half of them and char, which is unsigned on RISC-V, a quarter.  An      *)
(* argument has a number, as the bits that are passed, and a string; a     *)
(* conversion looks at the one it expects.                                 *)
(***************************************************************************)
EXTENDS Integers, FiniteSets, SequencesExt

CONSTANTS
  LONG_BITS,     \* bits of long, int, size_t and of pointers
  MEMORY_SIZE,   \* characters of memory around the buffer
  Calls          \* the calls: function, count, format, args

ASSUME PrintfAssumption == LONG_BITS \in Nat \ {0} /\ LONG_BITS % 4 = 0 /\ MEMORY_SIZE \in Nat

(* One digit per bit at most, as 32 are for 32 bits. *)
PRINTF_NTOA_BUFFER_SIZE == LONG_BITS

UINT_RANGE == 2 ^ LONG_BITS
SHORT_RANGE == 2 ^ (LONG_BITS \div 2)
CHAR_RANGE == 2 ^ (LONG_BITS \div 4)
SIZE_MAX == UINT_RANGE - 1
NUL == "NUL"
UNWRITTEN == "?"

ASSUME RangeAssumption == UINT_RANGE \in Nat /\ UINT_RANGE > LONG_BITS

UInt(x) == x % UINT_RANGE
Signed(x, range) == IF 2 * (x % range) >= range THEN (x % range) - range ELSE x % range

Digits == <<"0", "1", "2", "3", "4", "5", "6", "7", "8", "9">>
Lower == Digits \o <<"a", "b", "c", "d", "e", "f">>
Upper == Digits \o <<"A", "B", "C", "D", "E", "F">>

Repeat(c, n) == [i \in 1 .. n |-> c]
Rest(s, n) == SubSeq(s, n + 1, Len(s))
At(s) == IF s = <<>> THEN NUL ELSE s[1]

(* How many characters at the start of s are in S. *)
Leading(s, S) ==
  CHOOSE n \in 0 .. Len(s) : /\ \A i \in 1 .. n : s[i] \in S
                             /\ n < Len(s) => s[n + 1] \notin S

DigitValue(c) == CHOOSE d \in 0 .. 9 : Digits[d + 1] = c

(* The number after each digit of the loop. *)
_atoi(s) ==
  LET i[n \in 0 .. Len(s)] == IF n = 0 THEN 0 ELSE UInt((i[n - 1] * 10) + DigitValue(s[n]))
  IN  i[Len(s)]

-----------------------------------------------------------------------------
FlagOf == [c \in {"0", "-", "+", " ", "#"} |->
             CASE c = "0" -> "ZEROPAD" [] c = "-" -> "LEFT" [] c = "+" -> "PLUS"
               [] c = " " -> "SPACE" [] c = "#" -> "HASH"]

-----------------------------------------------------------------------------
(* Mutant of Push: no look at the size of the buffer. *)
PushAlways(s, c) == Append(s, c)

(* A character more, and zeroes up to a length, in the conversion buffer. *)
Push(s, c) == IF Len(s) < PRINTF_NTOA_BUFFER_SIZE THEN Append(s, c) ELSE s

ZeroesTo(s, len) ==
  s \o Repeat("0", Max({0, Min({len, PRINTF_NTOA_BUFFER_SIZE}) - Len(s)}))

(* Digits of a number, the last one first: one, and another while something *)
(* is left of the number and there is room.                                *)
Numeral(value, b, table) ==
  [i \in 1 .. Cardinality({n \in 1 .. PRINTF_NTOA_BUFFER_SIZE : n = 1 \/ value >= b ^ (n - 1)})
     |-> table[((value \div (b ^ (i - 1))) % b) + 1]]

(* Text padded to width. *)
Padded(s, left, w) ==
  IF left THEN s \o Repeat(" ", Max({0, w - Len(s)}))
  ELSE Repeat(" ", Max({0, w - Len(s)})) \o s

-----------------------------------------------------------------------------
INTEGERS == {"d", "i", "u", "x", "X", "o", "b"}

BaseOf(c) == CASE c \in {"x", "X"} -> 16 [] c = "o" -> 8 [] c = "b" -> 2 [] OTHER -> 10

(* The flags that count for an integer conversion. *)
IntegerFlags(c, flags) ==
  (flags \cup (IF c = "X" THEN {"UPPERCASE"} ELSE {}))
    \ ((IF BaseOf(c) = 10 THEN {"HASH"} ELSE {})
         \cup (IF c \notin {"d", "i"} THEN {"PLUS", "SPACE"} ELSE {})
         \cup (IF "PRECISION" \in flags THEN {"ZEROPAD"} ELSE {}))

(* The number a conversion prints: an argument cut to its type. *)
IntegerValue(c, flags, n) ==
  LET range == IF "LONG" \in flags THEN UINT_RANGE
               ELSE IF "CHAR" \in flags THEN CHAR_RANGE
               ELSE IF "SHORT" \in flags THEN SHORT_RANGE ELSE UINT_RANGE
  IN  IF c \in {"d", "i"} /\ range # CHAR_RANGE THEN Signed(n, range) ELSE n % range

-----------------------------------------------------------------------------
(* The fields of a conversion, as the C standard has them: what is left of a *)
(* format behind its flags, a number, its precision and its length.        *)
AfterFlags(f) == Rest(f, Leading(f, DOMAIN FlagOf))
AfterNumber(f) == IF At(f) = "*" THEN Rest(f, 1) ELSE Rest(f, Leading(f, ToSet(Digits)))
AfterPrecision(f) == IF At(f) = "." THEN AfterNumber(Rest(f, 1)) ELSE f
AfterLength(f) ==
  Rest(f, IF At(f) \in {"l", "h"} /\ At(Rest(f, 1)) = At(f) THEN 2
          ELSE IF At(f) \in {"t", "z", "j", "l", "h"} THEN 1 ELSE 0)

(* How many arguments a conversion asks for from its width, its precision,  *)
(* its length and its specifier on.                                        *)
Asterisk(f) == IF At(f) = "*" THEN 1 ELSE 0
SpecifierAsks(f) == IF At(f) \in INTEGERS \cup {"p", "c", "s"} THEN 1 ELSE 0
LengthAsks(f) == SpecifierAsks(AfterLength(f))
PrecisionAsks(f) ==
  (IF At(f) = "." THEN Asterisk(Rest(f, 1)) ELSE 0) + LengthAsks(AfterPrecision(f))
WidthAsks(f) == Asterisk(f) + PrecisionAsks(AfterNumber(f))

(* How many characters are left behind the specifier, counted from the same *)
(* fields.                                                                 *)
SpecifierLeaves(f) == IF f = <<>> THEN 0 ELSE Len(f) - 1
LengthLeaves(f) == SpecifierLeaves(AfterLength(f))
PrecisionLeaves(f) == LengthLeaves(AfterPrecision(f))
WidthLeaves(f) == PrecisionLeaves(AfterNumber(f))

(* The arguments that a format asks for, by the number of its characters     *)
(* that are left.                                                          *)
Asked(f) ==
  LET field(j) == AfterFlags(Rest(f, Len(f) - j + 1))
      asked[j \in 0 .. Len(f)] ==
        IF j = 0 THEN 0
        ELSE IF f[Len(f) - j + 1] # "%" THEN asked[j - 1]
        ELSE WidthAsks(field(j)) + asked[WidthLeaves(field(j))]
  IN  asked

(* What a client may call: a format and the arguments that it asks for, or   *)
(* more, each with a number and a string.                                  *)
IsCall(c) ==
  /\ c.function \in {"printf_", "sprintf_", "snprintf_", "snprintf_ of NULL"}
  /\ c.count \in 0 .. SIZE_MAX
  /\ c.format \in Seq(STRING)
  /\ c.args \in Seq([n : Nat, s : Seq(STRING)])
  /\ Asked(c.format)[Len(c.format)] <= Len(c.args)

ASSUME CallsAssumption == \A c \in Calls : IsCall(c)

-----------------------------------------------------------------------------
VARIABLES
  call,     \* the call, never written
  pc,       \* "format", "width", "precision", "length", "specifier", "done" or
            \* "overrun", behind the NUL of the format; within _ntoa_format
            \* "zeros", "hash", "sign", "out"
  format,   \* what is left of the format
  args,     \* the arguments not yet fetched
  flags, width, precision,   \* of the conversion
  base, negative,            \* of the number that is converted
  buf,                       \* its characters in reverse, buf[0 .. len - 1]
  idx,      \* characters so far
  memory,   \* the buffer, and what lies behind it
  sent,     \* the characters written to the UART
  ret,      \* the returned number
  text,     \* history: all characters passed to out
  asked     \* history: the last conversion, as the format behind its % sign and the
            \* arguments from there on

conversion == <<flags, width, precision>>
number == <<base, negative, buf, asked>>
output == <<idx, memory, sent, text>>
vars == <<call, pc, format, args, conversion, number, output, ret>>

(* printf_ and sprintf_ pass SIZE_MAX; snprintf_ has a count, and a buffer *)
(* that may be NULL, for which _out_null is the output function.           *)
maxlen == IF call.function \in {"snprintf_", "snprintf_ of NULL"} THEN call.count ELSE SIZE_MAX

Init ==
  /\ call \in Calls
  /\ pc = "format" /\ format = call.format /\ args = call.args
  /\ flags = {} /\ width = 0 /\ precision = 0
  /\ base = 10 /\ negative = FALSE /\ buf = <<>>
  /\ asked = [format |-> <<>>, args |-> <<>>]
  /\ idx = 0 /\ ret = 0 /\ sent = <<>> /\ text = <<>>
  /\ memory = [a \in 0 .. MEMORY_SIZE - 1 |-> UNWRITTEN]

(* The characters of s that are meant for index a, if the first is for i:   *)
(* more than one if idx wraps.                                             *)
For(s, i, a) == {k \in DOMAIN s : UInt(i + k - 1) = a}

(* Mutant of _out_buffer: one character too many. *)
out_buffer_inclusive(m, i, s) ==
  [a \in DOMAIN m |-> IF For(s, i, a) # {} /\ a <= maxlen THEN s[Max(For(s, i, a))] ELSE m[a]]

(* Memory after the characters of s are stored from index i on. *)
_out_buffer(m, i, s) ==
  [a \in DOMAIN m |-> IF For(s, i, a) # {} /\ a < maxlen THEN s[Max(For(s, i, a))] ELSE m[a]]

(* Mutant of _out_char: the NUL too. *)
out_char_always(s) == s

(* The characters that go to the UART. *)
_out_char(s) == SelectSeq(s, LAMBDA c : c # NUL)

(* Calls of the output function for the characters of s, from index i on. *)
Out(s, i) ==
  /\ memory' = IF call.function \in {"sprintf_", "snprintf_"} THEN _out_buffer(memory, i, s) ELSE memory
  /\ sent' = IF call.function = "printf_" THEN sent \o _out_char(s) ELSE sent

Emit(s) == Out(s, idx) /\ idx' = UInt(idx + Len(s)) /\ text' = text \o s

(* A character that is not part of a conversion. *)
Literal ==
  /\ pc = "format" /\ format # <<>> /\ At(format) # "%"
  /\ Emit(<<format[1]>>)
  /\ format' = Tail(format)
  /\ UNCHANGED <<call, pc, args, conversion, number, ret>>

EvaluateFlags ==
  /\ pc = "format" /\ At(format) = "%"
  /\ LET n == Leading(Tail(format), DOMAIN FlagOf)
     IN  /\ flags' = {FlagOf[format[i]] : i \in 2 .. n + 1}
         /\ format' = Rest(format, n + 1)
  /\ width' = 0 /\ precision' = 0
  /\ asked' = [format |-> Tail(format), args |-> args]
  /\ pc' = "width"
  /\ UNCHANGED <<call, args, output, base, negative, buf, ret>>

(* The digits at the start of a format. *)
Decimal(f) == SubSeq(f, 1, Leading(f, ToSet(Digits)))

EvaluateWidth ==
  /\ pc = "width"
  /\ IF At(format) = "*"
     THEN LET w == Signed(args[1].n, UINT_RANGE)
          IN  /\ flags' = IF w < 0 THEN flags \cup {"LEFT"} ELSE flags
              /\ width' = IF w < 0 THEN UInt(-w) ELSE w
              /\ format' = Tail(format) /\ args' = Tail(args)
     ELSE /\ width' = _atoi(Decimal(format))
          /\ format' = Rest(format, Len(Decimal(format)))
          /\ UNCHANGED <<flags, args>>
  /\ pc' = "precision"
  /\ UNCHANGED <<call, precision, output, number, ret>>

EvaluatePrecision ==
  /\ pc = "precision"
  /\ \/ /\ At(format) # "."
        /\ UNCHANGED <<format, args, flags, precision>>
     \/ /\ At(format) = "." /\ At(Tail(format)) = "*"
        /\ precision' = LET prec == Signed(args[1].n, UINT_RANGE) IN IF prec > 0 THEN prec ELSE 0
        /\ flags' = flags \cup {"PRECISION"}
        /\ format' = Rest(format, 2) /\ args' = Tail(args)
     \/ /\ At(format) = "." /\ At(Tail(format)) # "*"
        /\ precision' = _atoi(Decimal(Tail(format)))
        /\ flags' = flags \cup {"PRECISION"}
        /\ format' = Rest(format, 1 + Len(Decimal(Tail(format))))
        /\ UNCHANGED args
  /\ pc' = "length"
  /\ UNCHANGED <<call, width, output, number, ret>>

(* size_t and ptrdiff_t have the size of long, intmax_t has not. *)
EvaluateLength ==
  LET c == At(format)
      doubled == c \in {"l", "h"} /\ At(Rest(format, 1)) = c
      len == CASE c \in {"t", "z"} -> {"LONG"}
               [] c = "j" -> {"LONG_LONG"}
               [] c = "l" -> {"LONG"} \cup (IF doubled THEN {"LONG_LONG"} ELSE {})
               [] c = "h" -> {"SHORT"} \cup (IF doubled THEN {"CHAR"} ELSE {})
               [] OTHER -> {}
  IN  /\ pc = "length"
      /\ flags' = flags \cup len
      /\ format' = Rest(format, IF doubled THEN 2 ELSE IF len # {} THEN 1 ELSE 0)
      /\ pc' = "specifier"
      /\ UNCHANGED <<call, args, width, precision, output, number, ret>>

(* The end of an iteration that prints s and has fetched some arguments. *)
Converted(s, fetched) ==
  /\ Emit(s)
  /\ format' = Tail(format) /\ args' = Rest(args, fetched)
  /\ pc' = "format"
  /\ UNCHANGED <<call, conversion, number, ret>>

(* _ntoa_long: the digits of value, and on with _ntoa_format. *)
_ntoa_long(value, neg, b, f) ==
  /\ buf' = IF "PRECISION" \notin f \/ value # 0
            THEN Numeral(value, b, IF "UPPERCASE" \in f THEN Upper ELSE Lower) ELSE <<>>
  /\ flags' = IF value = 0 THEN f \ {"HASH"} ELSE f
  /\ negative' = neg /\ base' = b
  /\ format' = Tail(format) /\ args' = Tail(args)
  /\ pc' = "zeros"
  /\ UNCHANGED <<call, precision, asked, output, ret>>

(* No argument is fetched and nothing printed for long long, which is      *)
(* compiled out.                                                           *)
PrintInteger ==
  /\ pc = "specifier" /\ At(format) \in INTEGERS
  /\ \/ "LONG_LONG" \in flags /\ Converted(<<>>, 0)
     \/ /\ "LONG_LONG" \notin flags
        /\ \E value \in {IntegerValue(At(format), flags, args[1].n)} :
             _ntoa_long(UInt(IF value < 0 THEN -value ELSE value), value < 0,
                        BaseOf(At(format)), IntegerFlags(At(format), flags))
        /\ UNCHANGED width

(* sizeof(void* ) * 2 digits. *)
PrintPointer ==
  /\ pc = "specifier" /\ At(format) = "p"
  /\ width' = LONG_BITS \div 4
  /\ _ntoa_long(args[1].n, FALSE, 16, flags \cup {"ZEROPAD", "UPPERCASE"})

WithSign == negative \/ flags \cap {"PLUS", "SPACE"} # {}

(* Mutant of PadZeros: the sign is not part of the padded width. *)
PadZerosWide ==
  /\ pc = "zeros"
  /\ buf' = IF "LEFT" \in flags THEN buf
            ELSE ZeroesTo(ZeroesTo(buf, precision), IF "ZEROPAD" \in flags THEN width ELSE 0)
  /\ pc' = "hash"
  /\ UNCHANGED <<call, format, args, conversion, base, negative, asked, output, ret>>

(* Leading zeros, which leave a place for the sign. *)
PadZeros ==
  /\ pc = "zeros"
  /\ IF "LEFT" \in flags THEN UNCHANGED <<buf, width>>
     ELSE /\ width' = IF "ZEROPAD" \in flags /\ WithSign /\ width > 0 THEN width - 1 ELSE width
          /\ buf' = ZeroesTo(ZeroesTo(buf, precision), IF "ZEROPAD" \in flags THEN width' ELSE 0)
  /\ pc' = "hash"
  /\ UNCHANGED <<call, format, args, flags, precision, base, negative, asked, output, ret>>

(* The characters in buf once the prefix has taken the place of padding. *)
Uncovered ==
  IF "PRECISION" \notin flags /\ buf # <<>> /\ Len(buf) \in {precision, width}
  THEN SubSeq(buf, 1, Len(buf) - (IF base = 16 /\ Len(buf) > 1 THEN 2 ELSE 1))
  ELSE buf

(* The prefix of the base. *)
HandleHash ==
  /\ pc = "hash"
  /\ IF "HASH" \notin flags THEN UNCHANGED buf
     ELSE \E letter \in {CASE base = 16 -> Push(Uncovered, IF "UPPERCASE" \in flags THEN "X" ELSE "x")
                            [] base = 2 -> Push(Uncovered, "b")
                            [] OTHER -> Uncovered} :
            buf' = Push(letter, "0")
  /\ pc' = "sign"
  /\ UNCHANGED <<call, format, args, conversion, base, negative, asked, output, ret>>

PushSign ==
  /\ pc = "sign"
  /\ buf' = IF ~WithSign THEN buf
            ELSE Push(buf, IF negative THEN "-" ELSE IF "PLUS" \in flags THEN "+" ELSE " ")
  /\ pc' = "out"
  /\ UNCHANGED <<call, format, args, conversion, base, negative, asked, output, ret>>

_out_rev ==
  /\ pc = "out"
  /\ \E s \in {IF "ZEROPAD" \in flags /\ "LEFT" \notin flags THEN Reverse(buf)
               ELSE Padded(Reverse(buf), "LEFT" \in flags, width)} : Emit(s)
  /\ pc' = "format"
  /\ UNCHANGED <<call, format, args, conversion, number, ret>>

PrintChar ==
  /\ pc = "specifier" /\ At(format) = "c"
  /\ Converted(Padded(args[1].s, "LEFT" \in flags, width), 1)

PrintString ==
  /\ pc = "specifier" /\ At(format) = "s"
  /\ LET s == args[1].s
         cut == IF "PRECISION" \in flags /\ precision < Len(s) THEN SubSeq(s, 1, precision) ELSE s
     IN  Converted(Padded(cut, "LEFT" \in flags, width), 1)

OtherSpecifier == pc = "specifier" /\ At(format) \notin INTEGERS \cup {"p", "c", "s", NUL}

(* Mutant of PrintOther: the character is left in the format. *)
PrintOtherAgain == OtherSpecifier /\ UNCHANGED vars

(* Mutant of PrintOther: an argument is fetched for it. *)
PrintOtherFetching == OtherSpecifier /\ Converted(<<At(format)>>, 1)

(* A percent sign, or a character that is no specifier. *)
PrintOther == OtherSpecifier /\ Converted(<<At(format)>>, 0)

(* A format that ends within a conversion: its NUL is printed like any     *)
(* other character, and the format goes on with what lies behind it.       *)
PrintNul ==
  /\ pc = "specifier" /\ format = <<>>
  /\ Emit(<<NUL>>)
  /\ pc' = "overrun"
  /\ UNCHANGED <<call, format, args, conversion, number, ret>>

(* The NUL at the end, at the last index if there is no room, and (int)idx. *)
Terminate ==
  /\ pc = "format" /\ format = <<>>
  /\ Out(<<NUL>>, IF idx < maxlen THEN idx ELSE UInt(maxlen - 1))
  /\ ret' = Signed(idx, UINT_RANGE) /\ pc' = "done"
  /\ UNCHANGED <<call, format, args, conversion, number, idx, text>>

Next ==
  \/ Literal
  \/ EvaluateFlags \/ EvaluateWidth \/ EvaluatePrecision \/ EvaluateLength
  \/ PrintInteger \/ PrintPointer \/ PadZeros \/ HandleHash \/ PushSign \/ _out_rev
  \/ PrintChar \/ PrintString \/ PrintOther \/ PrintNul
  \/ Terminate

(* The hart goes on with the call it has begun. *)
Spec == Init /\ [][Next]_vars /\ WF_vars(Next)

-----------------------------------------------------------------------------
TypeOK ==
  /\ pc \in {"format", "width", "precision", "length", "specifier", "done", "overrun",
            "zeros", "hash", "sign", "out"}
  /\ Len(buf) <= PRINTF_NTOA_BUFFER_SIZE
  /\ idx = UInt(Len(text)) /\ ret \in -UINT_RANGE .. UINT_RANGE
  /\ width \in 0 .. UINT_RANGE - 1 /\ precision \in 0 .. UINT_RANGE - 1
  /\ DOMAIN memory = 0 .. MEMORY_SIZE - 1
  /\ Len(format) <= Len(call.format) /\ Len(args) <= Len(call.args)

(* snprintf_ stores as much of the text as fits with a NUL behind it, and   *)
(* nothing at or behind count, whatever the text; it returns the length of *)
(* the whole text, as printf.h promises, if it is an int.  Nothing is      *)
(* stored if the count is 0 or the buffer NULL.  A text of more than       *)
(* SIZE_MAX characters, whose indices begin again at 0, stays in the buffer *)
(* too, and no more is said of it.                                         *)
StoresWhatFits ==
  /\ \A a \in DOMAIN memory : a >= maxlen => memory[a] = UNWRITTEN
  /\ call.function \notin {"sprintf_", "snprintf_"} => \A a \in DOMAIN memory : memory[a] = UNWRITTEN
  /\ pc = "done" /\ Len(text) < UINT_RANGE =>
                    /\ ret = Signed(Len(text), UINT_RANGE)
                    /\ call.function \in {"sprintf_", "snprintf_"} /\ maxlen > 0 =>
                         LET kept == IF Len(text) < maxlen THEN Len(text) ELSE maxlen - 1
                         IN  \A a \in DOMAIN memory :
                               a <= kept => memory[a] = IF a = kept THEN NUL ELSE text[a + 1]

(* No asterisk and no specifier fetches an argument that was not passed,    *)
(* if the caller has passed those that the C standard's reading of the     *)
(* format asks for.                                                        *)
FetchesPassed ==
  \/ pc = "width" /\ At(format) = "*"
  \/ pc = "precision" /\ At(format) = "." /\ At(Tail(format)) = "*"
  \/ pc = "specifier" /\ At(format) \in {"p", "c", "s"}
  \/ pc = "specifier" /\ At(format) \in INTEGERS /\ "LONG_LONG" \notin flags
  => args # <<>>

-----------------------------------------------------------------------------
(* What the C standard says of an integer conversion, from the format behind *)
(* its % sign and the arguments from there on.                             *)
NumberAt(f) == FoldLeft(LAMBDA n, digit : (10 * n) + DigitValue(digit), 0, Decimal(f))

(* The fields of the conversion.  Without a precision it is negative. *)
Fields(f, a) ==
  LET wf == AfterFlags(f)
      pf == AfterNumber(wf)
      lf == AfterPrecision(pf)
      w == IF At(wf) = "*" THEN Signed(a[1].n, UINT_RANGE) ELSE NumberAt(wf)
      starred == At(pf) = "." /\ At(Rest(pf, 1)) = "*"
      length == SubSeq(lf, 1, Len(lf) - Len(AfterLength(lf)))
      range == CASE length = <<"h", "h">> -> CHAR_RANGE [] length = <<"h">> -> SHORT_RANGE [] OTHER -> UINT_RANGE
      c == At(AfterLength(lf))
      n == a[1 + Asterisk(wf) + (IF starred THEN 1 ELSE 0)].n
  IN  [c |-> c, width |-> IF w < 0 THEN -w ELSE w, starred |-> starred, range |-> range,
       flags |-> ToSet(SubSeq(f, 1, Len(f) - Len(wf))) \cup (IF w < 0 THEN {"-"} ELSE {}),
       precision |-> IF At(pf) # "." THEN -1
                     ELSE IF starred THEN Signed(a[1 + Asterisk(wf)].n, UINT_RANGE) ELSE NumberAt(Rest(pf, 1)),
       value |-> IF c \in {"d", "i"} THEN Signed(n, range) ELSE n % range]

(* Its parts: the number of digits, the sign, the prefix of the base, and   *)
(* the number of digits with the zeros in front of them.                   *)
Abs(q) == IF q.value < 0 THEN -q.value ELSE q.value

Places(q) == CHOOSE n \in 0 .. LONG_BITS : /\ Abs(q) < BaseOf(q.c) ^ n
                                           /\ n > 0 => Abs(q) >= BaseOf(q.c) ^ (n - 1)

SignOf(q) ==
  IF q.value < 0 THEN <<"-">>
  ELSE IF q.c \notin {"d", "i"} THEN <<>>
  ELSE IF "+" \in q.flags THEN <<"+">>
  ELSE IF " " \in q.flags THEN <<" ">> ELSE <<>>

PrefixOf(q) == IF "#" \in q.flags /\ q.value # 0 /\ q.c \in {"x", "X", "b"} THEN <<"0", q.c>> ELSE <<>>

ZeroPadded(q) == "0" \in q.flags /\ "-" \notin q.flags /\ q.precision < 0

Zeroed(q) ==
  Max({IF q.precision < 0 THEN 1 ELSE q.precision,
       Places(q) + (IF "#" \in q.flags /\ q.c = "o" THEN 1 ELSE 0),
       IF ZeroPadded(q) THEN q.width - Len(SignOf(q) \o PrefixOf(q)) ELSE 0})

StandardText(q) ==
  LET digit(i) == (Abs(q) \div (BaseOf(q.c) ^ (Zeroed(q) - i))) % BaseOf(q.c)
      digits == [i \in 1 .. Zeroed(q) |-> (IF q.c = "X" THEN Upper ELSE Lower)[digit(i) + 1]]
  IN  Padded(SignOf(q) \o PrefixOf(q) \o digits, "-" \in q.flags, q.width)

(* Conversions that are printed in another way, see the README: more        *)
(* characters than the conversion buffer holds, a negative precision, a    *)
(* precision on the left, a negative signed char, and some prefixes.       *)
Excepted(q) ==
  \/ Len(SignOf(q) \o PrefixOf(q)) + Zeroed(q) > PRINTF_NTOA_BUFFER_SIZE
  \/ q.starred /\ q.precision < 0
  \/ "-" \in q.flags /\ q.precision > Places(q)
  \/ q.range = CHAR_RANGE /\ q.value < 0
  \/ /\ "#" \in q.flags /\ q.c \in {"x", "X", "b", "o"}
     /\ IF q.value = 0 THEN q.c = "o" /\ q.precision = 0
        ELSE \/ q.precision < 0 /\ q.width = Places(q)
             \/ ZeroPadded(q) /\ q.c \in {"x", "X"} /\ q.width = Places(q) + 1
             \/ ZeroPadded(q) /\ q.c = "b" /\ q.width > Places(q) + 1
             \/ q.precision > Places(q) /\ q.c = "o"

(* Apart from these, _vsnprintf prints an integer as the C standard says:   *)
(* it takes its fields and its argument from where they are, cuts the      *)
(* argument to its type, and the sign, prefix, digits, precision and       *)
(* padding that the steps of _ntoa_format put into the buffer one after    *)
(* the other are those of the conversion, whichever flags are combined.    *)
AsStandardSays ==
  [][pc = "out" => \E q \in {Fields(asked.format, asked.args)} :
                      q.c = "p" \/ Excepted(q) \/ text' = text \o StandardText(q)]_vars

(* Every call of _vsnprintf ends, whatever characters the format has, and   *)
(* then the UART has got the text of printf_ in order, without the NULs     *)
(* that are passed to the output function, and nothing of the text of the  *)
(* others.                                                                 *)
Returns ==
  <>(\/ pc = "overrun"
     \/ /\ pc = "done"
        /\ sent = IF call.function = "printf_" THEN SelectSeq(text, LAMBDA c : c # NUL) ELSE <<>>)
=============================================================================
