------------------------------ MODULE Console -------------------------------
(***************************************************************************)
(* The text console: driver/console.c.  printf runs with interrupts off    *)
(* (kernel_start before 'sti', and the handlers), so its calls follow one  *)
(* another.  A character is a string: a digit or a name of its own.  An    *)
(* int is in two's complement, as wide as a long, 32 bits in the code.     *)
(***************************************************************************)
EXTENDS Integers, Sequences, FiniteSets

CONSTANTS
  LINES, COLUMNS,  \* of the screen
  IntMax,          \* the largest int
  Strings,         \* what %s may be given
  Pads,            \* field widths: what the digit after '%' may be
  MaxCalls         \* bound: directives since cls

ASSUME ConsoleAssumption ==
    /\ LINES \in Nat \ {0} /\ COLUMNS \in Nat \ {0}
    /\ Strings \subseteq Seq(STRING) /\ Pads \subseteq 0 .. 9

ASSUME IntAssumption == IntMax \in Nat /\ IntMax <= 2147483647

Newline == "newline"
Minus == "-"
Space == "space"
Digit == <<"0", "1", "2", "3", "4", "5", "6", "7", "8", "9", "a", "b", "c", "d", "e", "f">>
Ints == -(IntMax + 1) .. IntMax
kBufSize == 20

VARIABLES
  video,       \* position on the screen -> character
  xpos, ypos,
  out,         \* what putchar is still to be given
  call,        \* the directive being printed, and where it starts
  calls        \* directives since cls, for the bound

screen == <<video, xpos, ypos, out, call, calls>>

Blank == "blank"
NoCall == [conv |-> "none", arg |-> 0, pad0 |-> FALSE, pad |-> 0, text |-> <<>>, at |-> 0]

Cleared == [p \in 0 .. LINES * COLUMNS - 1 |-> Blank]

ConsoleInit ==
    /\ video = Cleared
    /\ xpos = 0 /\ ypos = 0
    /\ out = <<>> /\ call = NoCall /\ calls = 0

cls ==
    /\ out = <<>> /\ calls > 0
    /\ video' = Cleared
    /\ xpos' = 0 /\ ypos' = 0
    /\ call' = NoCall /\ calls' = 0
    /\ UNCHANGED out

-----------------------------------------------------------------------------
\* The label 'newline' of putchar.
NewLine ==
    /\ xpos' = 0
    /\ ypos' = IF ypos + 1 >= LINES THEN 0 ELSE ypos + 1

\* A putchar that wraps one column late.
putchar_late ==
    LET c == Head(out) IN
    /\ out # <<>> /\ out' = Tail(out)
    /\ IF c = Newline
         THEN NewLine /\ UNCHANGED video
         ELSE /\ video' = [video EXCEPT ![(xpos + ypos * COLUMNS) % (LINES * COLUMNS)] = c]
              /\ IF xpos >= COLUMNS THEN NewLine ELSE xpos' = xpos + 1 /\ UNCHANGED ypos
    /\ UNCHANGED <<call, calls>>

putchar ==
    LET c == Head(out) IN
    /\ out # <<>> /\ out' = Tail(out)
    /\ IF c = Newline
         THEN NewLine /\ UNCHANGED video
         ELSE /\ video' = [video EXCEPT ![xpos + ypos * COLUMNS] = c]
              /\ IF xpos + 1 >= COLUMNS THEN NewLine ELSE xpos' = xpos + 1 /\ UNCHANGED ypos
    /\ UNCHANGED <<call, calls>>

-----------------------------------------------------------------------------
\* The conversion of an int to unsigned long, which is as wide.
Unsigned(d) == d % (2 * (IntMax + 1))

\* The digits of ud, the last one first: the loop of itoa.
Digits(divisor) ==
    LET digits[ud \in Nat] ==
          <<Digit[1 + (ud % divisor)]>> \o
          (IF ud \div divisor = 0 THEN <<>> ELSE digits[ud \div divisor])
    IN  digits

Reversed(s) == [k \in 1 .. Len(s) |-> s[Len(s) + 1 - k]]

\* An itoa that takes the sign of every conversion.
itoa_signed(base, d) ==
    LET minus == d < 0
        ud == Unsigned(IF minus THEN -d ELSE d)
    IN  (IF minus THEN <<Minus>> ELSE <<>>) \o Reversed(Digits(IF base = "x" THEN 16 ELSE 10)[ud])

\* itoa: '-d' wraps for the smallest int.
itoa(base, d) ==
    LET minus == base = "d" /\ d < 0
        ud == Unsigned(IF minus THEN -d ELSE d)
    IN  (IF minus THEN <<Minus>> ELSE <<>>) \o Reversed(Digits(IF base = "x" THEN 16 ELSE 10)[ud])

\* A padding that forgets what the text takes.
Padding_full(pad0, pad, text) == [k \in 1 .. pad |-> IF pad0 THEN "0" ELSE Space]

\* What printf puts before the text of a directive.
Padding(pad0, pad, text) ==
    [k \in 1 .. (IF pad > Len(text) THEN pad - Len(text) ELSE 0) |-> IF pad0 THEN "0" ELSE Space]

\* printf meets a directive: a number, a string, or any other conversion,
\* which prints its argument as a character.
Directive(conv, arg, pad0, pad, text) ==
    /\ out = <<>> /\ calls < MaxCalls
    /\ out' = Padding(pad0, pad, text) \o text
    /\ call' = [conv |-> conv, arg |-> arg, pad0 |-> pad0, pad |-> pad, text |-> text,
                at |-> xpos + ypos * COLUMNS]
    /\ calls' = calls + 1
    /\ UNCHANGED <<video, xpos, ypos>>

PrintNumber ==
    \E conv \in {"d", "u", "x"}, d \in Ints, pad0 \in BOOLEAN, pad \in Pads :
      Directive(conv, d, pad0, pad, itoa(conv, d))

PrintString ==
    \E s \in Strings, pad0 \in BOOLEAN, pad \in Pads : Directive("s", 0, pad0, pad, s)

PrintChar == \E c \in {Newline, "a"} : Directive("c", 0, FALSE, 0, <<c>>)

ConsoleNext == cls \/ putchar \/ PrintNumber \/ PrintString \/ PrintChar

ConsoleSpec == ConsoleInit /\ [][ConsoleNext]_screen

-----------------------------------------------------------------------------
\* putchar writes inside the screen: the cursor is on it after every character,
\* at the end of a line and of the last line too.
CursorOnScreen == xpos \in 0 .. COLUMNS - 1 /\ ypos \in 0 .. LINES - 1

\* The number a text reads as.
ValueOf(text, divisor) ==
    LET digit(k) == (CHOOSE n \in 1 .. 16 : Digit[n] = text[k]) - 1
        value[k \in 0 .. Len(text)] ==
          IF k = 0 THEN 0 ELSE value[k - 1] * divisor + digit(k)
    IN  value[Len(text)]

\* itoa's text reads as its argument, in the base and with the sign of the
\* conversion, the smallest int included; it has no digit too many, and with
\* its end it fits the buffer of printf.
NumberReads ==
    call.conv \in {"d", "u", "x"} =>
      LET minus == call.text[1] = Minus
          digits == IF minus THEN Tail(call.text) ELSE call.text
          value == ValueOf(digits, IF call.conv = "x" THEN 16 ELSE 10)
      IN  /\ IF call.conv = "d" THEN call.arg = (IF minus THEN -value ELSE value)
             ELSE value = Unsigned(call.arg)
          /\ Len(digits) > 1 => digits[1] # "0"
          /\ Len(call.text) < kBufSize

\* What a directive printed, its text with no newline in it, can be read off
\* the screen when printf is done: the field is as wide as asked for, or as the
\* text, and in order from where the cursor was to where it is, over the end of
\* a line and of the last line too.
TextOnScreen ==
    LET text == call.text
        plain == \A k \in 1 .. Len(text) : text[k] # Newline
        field == IF call.pad > Len(text) THEN call.pad ELSE Len(text)
        place(k) == (call.at + k) % (LINES * COLUMNS)
    IN  out = <<>> /\ plain /\ field <= LINES * COLUMNS =>
          /\ xpos + ypos * COLUMNS = place(field)
          /\ \A k \in 1 .. field :
               video[place(k - 1)] =
                 IF k > field - Len(text) THEN text[k - (field - Len(text))]
                 ELSE IF call.pad0 THEN "0" ELSE Space

=============================================================================
