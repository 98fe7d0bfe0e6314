------------------------------- MODULE Kprint -------------------------------
(***************************************************************************)
(* kprint and panic (src/src/common.c) as functions: what reaches the      *)
(* writer for a format and its arguments.  Nothing else is read or changed *)
(* on the way, so when the pieces come is of no account here.              *)
(*                                                                         *)
(* A character is a string; characters of no meaning to the code share     *)
(* one.  There is one letter for each digit, so their case (a capital      *)
(* where printf has %x print a small one) is left out.                     *)
(* "halt" ends the output of whatever does not return.                     *)
(***************************************************************************)
EXTENDS Integers, Sequences, SequencesExt

CONSTANTS
  MaxDigits,     \* digits print_unsigned prints at most: 16
  NUM_BUF_LEN    \* 20

\* A uint64_t has MaxDigits digits in base 16, a uint32_t half as many bits.
Long == 16 ^ MaxDigits
Short == 4 ^ MaxDigits

digit(d) == <<"0", "1", "2", "3", "4", "5", "6", "7", "8", "9", "A", "B", "C", "D", "E", "F">>[d + 1]

CrLf == <<"\r", "\n">>

-----------------------------------------------------------------------------
(* print_unsigned.                                                         *)

\* The number starts at its most significant digit that is not 0.
Start(start, d, index) == IF d # 0 THEN index ELSE start

\* A buffer that holds anything but a 0 at its end, and MaxDigits turns of a loop
\* that a value of 0 ends.
print_unsigned(value, base) ==
  LET end == NUM_BUF_LEN - 1
      state[i \in 0 .. MaxDigits] ==
        IF i = 0
        THEN [value |-> value, start |-> end,
              buf |-> [k \in 0 .. end |-> IF k = end THEN "0" ELSE "junk"]]
        ELSE LET s == state[i - 1]
                 index == NUM_BUF_LEN - i
                 ch_idx == s.value % base
             IN  IF s.value = 0 THEN s
                 ELSE [value |-> s.value \div base, start |-> Start(s.start, ch_idx, index),
                       buf |-> [s.buf EXCEPT ![index] = digit(ch_idx)]]
      last == state[MaxDigits]
  IN  [k \in 1 .. NUM_BUF_LEN - last.start |-> last.buf[last.start + k - 1]]

-----------------------------------------------------------------------------
(* kprintv, print_escape, panic.                                           *)

\* Mutant: the code after a panic is reached.
Then_Returns(before, after) == before \o after

\* What comes after a call that did not return is not reached.
Then(before, after) ==
  IF before # <<>> /\ Last(before) = "halt" THEN before ELSE before \o after

\* va_arg takes half the bits without an l.
Value(is_long, arg) == IF is_long THEN arg ELSE arg % Short

UnknownMessage == <<"Unknown character ", "%", "c", " in print frormat">>

RECURSIVE kprintv(_, _), print_escape(_, _, _), panic(_, _)

kprintv(format, args) ==
  CASE format = <<>> -> <<>>
    [] format # <<>> /\ Head(format) = "%" -> print_escape(Tail(format), args, FALSE)
    [] format # <<>> /\ Head(format) = "\n" -> CrLf \o kprintv(Tail(format), args)
    [] OTHER -> <<Head(format)>> \o kprintv(Tail(format), args)

\* The end of the format is a character like any other; panic gives up the rest.
print_escape(format, args, is_long) ==
  LET c == IF format = <<>> THEN "end" ELSE Head(format)
      Prints(text) == text \o kprintv(Tail(format), Tail(args))
  IN  CASE c = "c" -> Prints(<<Head(args)>>)
        [] c = "l" -> print_escape(Tail(format), args, TRUE)
        [] c = "p" -> Prints(<<"0", "x">> \o print_unsigned(Head(args), 16))
        [] c = "s" -> Prints(Head(args))
        [] c = "u" -> Prints(print_unsigned(Value(is_long, Head(args)), 10))
        [] c = "x" -> Prints(print_unsigned(Value(is_long, Head(args)), 16))
        [] OTHER -> panic(UnknownMessage, <<c>>)

panic(format, args) ==
  Then(<<"PANIC: ">> \o kprintv(format, args), CrLf \o <<"halt">>)

-----------------------------------------------------------------------------
(* Properties.  A directive, the arguments it takes and what it should     *)
(* become; then the whole of a format.                                     *)

\* The digits of a number, as few as there can be, most significant first.
Digits(value, base) ==
  LET n == CHOOSE n \in 1 .. 2 * NUM_BUF_LEN :
             value < base ^ n /\ (n > 1 => base ^ (n - 1) <= value)
  IN  [k \in 1 .. n |-> digit((value \div (base ^ (n - k))) % base)]

Directive(format, args, text) == [format |-> format, args |-> args, text |-> text]

Text(char) == Directive(<<char>>, <<>>, IF char = "\n" THEN CrLf ELSE <<char>>)
Char(char) == Directive(<<"%", "c">>, <<char>>, <<char>>)
String(chars) == Directive(<<"%", "s">>, <<chars>>, chars)
Unsigned(value) == Directive(<<"%", "u">>, <<value>>, Digits(value, 10))
LongUnsigned(value) == Directive(<<"%", "l", "u">>, <<value>>, Digits(value, 10))
Hex(value) == Directive(<<"%", "x">>, <<value>>, Digits(value, 16))
LongHex(value) == Directive(<<"%", "l", "x">>, <<value>>, Digits(value, 16))
Pointer(value) == Directive(<<"%", "p">>, <<value>>, <<"0", "x">> \o Digits(value, 16))

\* What print_escape has no case for, reported by the last of its characters.
Unknown(chars, char) ==
  Directive(<<"%">> \o chars, <<>>,
            <<"PANIC: ", "Unknown character ", char, " in print frormat">> \o CrLf \o <<"halt">>)

All(directives, part(_)) == FlattenSeq([i \in DOMAIN directives |-> part(directives[i])])

UpToHalt(text) ==
  LET n == SelectInSeq(text, LAMBDA c : c = "halt") IN IF n = 0 THEN text ELSE SubSeq(text, 1, n)

PrintsLikePrintf(directives) ==
  LET format == All(directives, LAMBDA d : d.format)
      args == All(directives, LAMBDA d : d.args)
      text == UpToHalt(All(directives, LAMBDA d : d.text))
  IN  /\ kprintv(format, args) = text
      /\ panic(format, args) = <<"PANIC: ">> \o UpToHalt(text \o CrLf \o <<"halt">>)
=============================================================================
