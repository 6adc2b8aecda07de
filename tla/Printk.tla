------------------------------- MODULE Printk -------------------------------
(***************************************************************************)
(* Formatted output: vprintfmt and its helpers (lib/printk.c, and the same *)
(* text in user/printf.c).                                                 *)
(*                                                                         *)
(* A string is a sequence of one-character strings without its NUL.  An    *)
(* argument is a machine word, with the string it points to if it is a     *)
(* pointer.  Words are LongBits wide and an int is IntBits: the code has   *)
(* 64 and 32.                                                              *)
(***************************************************************************)
EXTENDS Integers, SequencesExt

CONSTANTS IntBits, LongBits

ASSUME PrintkAssumption ==
    IntBits \in Nat \ {0} /\ LongBits \in Nat \ {0} /\ IntBits <= LongBits

\* 2 ^ n.
Pow2(n) == LET p[k \in 0 .. n] == IF k = 0 THEN 1 ELSE 2 * p[k - 1] IN p[n]

IntMod  == Pow2(IntBits)
LongMod == Pow2(LongBits)

Signed(w, mod) == IF w % mod >= mod \div 2 THEN (w % mod) - mod ELSE w % mod

Digits == <<"0", "1", "2", "3", "4", "5", "6", "7", "8", "9",
            "a", "b", "c", "d", "e", "f">>
UpperDigits == <<"0", "1", "2", "3", "4", "5", "6", "7", "8", "9",
                 "A", "B", "C", "D", "E", "F">>
NullText == <<"(", "n", "u", "l", "l", ")">>

Copies(c, n) == IF n <= 0 THEN <<>> ELSE [i \in 1 .. n |-> c]
Most(a, b) == IF a > b THEN a ELSE b

-----------------------------------------------------------------------------
(* Numbers.                                                                *)

\* Without the vertical tab, which TLA+ has no escape for.
isspace(c) == c \in {" ", "\t", "\n", "\f", "\r"}

\* The value of a digit, 99 for any other character.
DigitOf(c) ==
    IF \E d \in 0 .. 15 : c \in {Digits[d + 1], UpperDigits[d + 1]}
    THEN CHOOSE d \in 0 .. 15 : c \in {Digits[d + 1], UpperDigits[d + 1]} ELSE 99

\* The character at i, "" for the NUL.
At(s, i) == IF i \in DOMAIN s THEN s[i] ELSE ""

\* Behind the spaces, and behind the digits, from i on.
SkipSpace(s, i) == Min({j \in i .. Len(s) + 1 : ~isspace(At(s, j))})
SkipDigits(s, i, base) == Min({j \in i .. Len(s) + 1 : DigitOf(At(s, j)) >= base})

\* The value of the digits from i to before j.
DigitsFrom(s, i, j, base) ==
    LET ret[k \in i .. j] ==
            IF k = i THEN 0 ELSE (ret[k - 1] * base + DigitOf(s[k - 1])) % LongMod
    IN ret[j]

\* The base, and where the digits begin, when the sign is behind.
BaseOf(s, i, base) ==
    IF base # 0 THEN <<base, i>>
    ELSE IF At(s, i) # "0" THEN <<10, i>>
    ELSE IF At(s, i + 1) \in {"x", "X"} THEN <<16, i + 2>> ELSE <<8, i + 1>>

\* What strtol has read at end: a sign, and digits from b[2] on in base b[1].
ReadTo(s, end, neg, b) ==
    LET ret == DigitsFrom(s, b[2], end, b[1])
    IN << Signed(IF neg THEN -ret ELSE ret, LongMod), end >>

\* The number at position i of s, and the position behind it.
strtol(s, i, base) ==
    LET start == SkipSpace(s, i)
        neg   == At(s, start) = "-"
        b     == BaseOf(s, IF At(s, start) \in {"-", "+"} THEN start + 1 ELSE start, base)
    IN ReadTo(s, SkipDigits(s, b[2], b[1]), neg, b)

\* buf of print_dec_int and of %x: the digits of num, most significant first.
InBase(num, base, digits) ==
    LET buf[n \in 0 .. num] ==
            IF n < base THEN <<digits[n + 1]>>
            ELSE Append(buf[n \div base], digits[(n % base) + 1])
    IN buf[num]

-----------------------------------------------------------------------------
(* struct fmt_flags, with the position in the format, what has been        *)
(* printed: out, and how many arguments are taken.                         *)

Flags(in_format, prec) ==
    [in_format |-> in_format, longflag |-> FALSE, sharpflag |-> FALSE, zeroflag |-> FALSE,
     spaceflag |-> FALSE, sign |-> FALSE, width |-> 0, prec |-> prec]

Start == [at |-> 1, flags |-> Flags(FALSE, 0), out |-> <<>>, written |-> 0, used |-> 0, stored |-> <<>>]

\* Mutant: the sign is printed before the padding.
SignFirst(flags, sign, digits, prec) ==
    LET pads == flags.width - Most(Len(digits), prec) - Len(sign) IN
    sign \o Copies(" ", pads) \o Copies("0", prec - Len(sign) - Len(digits)) \o digits

\* Spaces, sign, zeros, digits.
DecText(flags, sign, digits, prec) ==
    LET pads == flags.width - Most(Len(digits), prec) - Len(sign) IN
    Copies(" ", pads) \o sign \o Copies("0", prec - Len(sign) - Len(digits)) \o digits

\* print_dec_int: num is a word.  The smallest long takes a way of its own.
print_dec_int(num, signed, flags) ==
    IF signed /\ num = LongMod \div 2 THEN <<"-">> \o InBase(num, 10, Digits)
    ELSE IF flags.prec = 0 /\ num = 0 THEN <<>>
    ELSE
    LET neg    == signed /\ Signed(num, LongMod) < 0
        digits == InBase(IF neg THEN LongMod - num ELSE num, 10, Digits)
        sign   == IF ~signed THEN <<>>
                  ELSE IF neg THEN <<"-">>
                  ELSE IF flags.sign THEN <<"+">>
                  ELSE IF flags.spaceflag THEN <<" ">> ELSE <<>>
        prec   == IF flags.prec = -1 /\ flags.zeroflag THEN flags.width ELSE flags.prec
    IN DecText(flags, sign, digits, prec)

\* %x, %X and %p.
HexText(conv, num, flags) ==
    IF flags.prec = 0 /\ num = 0 /\ conv # "p" THEN <<>>
    ELSE
    LET prefixed == conv = "p" \/ (flags.sharpflag /\ num # 0)
        prefix == IF prefixed THEN <<"0", IF conv = "X" THEN "X" ELSE "x">> ELSE <<>>
        digits == InBase(num, 16, IF conv = "X" THEN UpperDigits ELSE Digits)
        prec   == IF flags.prec = -1 /\ flags.zeroflag THEN flags.width - Len(prefix)
                  ELSE flags.prec
        pads   == flags.width - Len(prefix) - Most(Len(digits), prec)
    IN Copies(" ", pads) \o prefix \o Copies("0", prec - Len(digits)) \o digits

puts_wo_nl(arg) == IF arg.null THEN NullText ELSE arg.text

-----------------------------------------------------------------------------
(* The loop of vprintfmt: st is its state before the character at st.at.   *)

\* The next argument, as long or as int.
Word(st, args)     == args[st.used + 1].word
IntArg(st, args)   == Signed(Word(st, args), IntMod)
Take(st)           == [st EXCEPT !.used = @ + 1]

\* A conversion prints its text and ends.
Emit(st, text) ==
    [st EXCEPT !.out = @ \o text, !.written = @ + Len(text), !.flags.in_format = FALSE]

Set(st, flag) ==
    CASE flag = "#" -> [st EXCEPT !.flags.sharpflag = TRUE]
      [] flag = "0" -> [st EXCEPT !.flags.zeroflag = TRUE]
      [] flag = "+" -> [st EXCEPT !.flags.sign = TRUE]
      [] flag = " " -> [st EXCEPT !.flags.spaceflag = TRUE]
      [] flag \in {"l", "z", "t", "j"} -> [st EXCEPT !.flags.longflag = TRUE]

\* num: the argument of an integer conversion, as an unsigned long.
NumOf(c, st, args) ==
    IF st.flags.longflag \/ c = "p" THEN Word(st, args)
    ELSE IF c \in {"x", "X"} THEN Word(st, args) % IntMod
    ELSE IntArg(st, args) % LongMod

Convert(c, st, args) ==
    CASE c \in {"x", "X", "p"} ->
            Emit(Take(st), HexText(c, NumOf(c, st, args), st.flags))
      [] c \in {"d", "i", "u"} ->
            Emit(Take(st), print_dec_int(NumOf(c, st, args), c # "u", st.flags))
      [] c = "n" -> [Take(st) EXCEPT !.stored = Append(@, st.written), !.flags.in_format = FALSE]
      [] c = "s" -> Emit(Take(st), puts_wo_nl(args[st.used + 1]))
      [] c = "c" -> Emit(Take(st), <<args[st.used + 1].text[1]>>)
      [] OTHER   -> Emit(st, <<c>>)

\* One turn: a character, or a number of the format.
Turn(fmt, args, st) ==
    LET c == At(fmt, st.at)
        next == [st EXCEPT !.at = @ + 1]
    IN
    IF c = "" THEN st
    ELSE IF ~st.flags.in_format THEN
        IF c = "%" THEN [next EXCEPT !.flags = Flags(TRUE, -1)] ELSE Emit(next, <<c>>)
    ELSE IF c \in {"#", "0", "+", " ", "l", "z", "t", "j"} THEN Set(next, c)
    ELSE IF c = "*" THEN [Take(next) EXCEPT !.flags.width = IntArg(st, args)]
    ELSE IF DigitOf(c) \in 1 .. 9 THEN
        LET r == strtol(fmt, st.at, 10) IN [st EXCEPT !.flags.width = r[1], !.at = r[2]]
    ELSE IF c = "." /\ At(fmt, st.at + 1) = "*" THEN
        [Take(st) EXCEPT !.flags.prec = IntArg(st, args), !.at = @ + 2]
    ELSE IF c = "." THEN
        LET r == strtol(fmt, st.at + 1, 10) IN [st EXCEPT !.flags.prec = r[1], !.at = r[2]]
    ELSE Convert(c, next, args)

\* Every turn goes on in the format, so this many come to its end.
vprintfmt(fmt, args) ==
    LET after[n \in 0 .. Len(fmt)] ==
            IF n = 0 THEN Start ELSE Turn(fmt, args, after[n - 1])
    IN after[Len(fmt)]
=============================================================================
