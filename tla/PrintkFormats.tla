---------------------------- MODULE PrintkFormats ----------------------------
(***************************************************************************)
(* Formats put together from directives, and what C says that each prints: *)
(* the reference that vprintfmt is compared with.                          *)
(***************************************************************************)
EXTENDS Printk

CONSTANTS
    Directives,  \* [flags, width, prec, star, long, conv]; -1: none given
    Words,       \* values of an argument
    Texts        \* strings an argument may point to

\* A width or precision that is spelled is read into a long, a width that is an
\* argument into an int; a width spelled 0 would be a flag.
ASSUME FormatsAssumption ==
    /\ \A d \in Directives :
          /\ d.star \in BOOLEAN /\ d.long \in BOOLEAN
          /\ d.width \in {-1} \cup 1 .. (LongMod \div 2) - 1 /\ d.prec \in -1 .. (LongMod \div 2) - 1
          /\ d.star => d.width \in 1 .. (IntMod \div 2) - 1
          /\ d.conv \in {"d", "i", "u", "x", "X", "p", "s", "c"}
    /\ Words \subseteq 0 .. LongMod - 1
    /\ \A text \in Texts : text \in Seq(Range(text)) /\ text # <<>>

\* An item of a format: a directive with its argument, or a literal character.
\* Items are explored one after another.
VARIABLE items

Literal == [flags |-> {}, width |-> -1, prec |-> -1, star |-> FALSE, long |-> FALSE, conv |-> "k"]
Percent == [Literal EXCEPT !.conv = "%"]
Items == {[dir |-> d, word |-> w, text |-> s, null |-> FALSE] :
              d \in Directives, w \in Words, s \in Texts}
Tails == {[dir |-> d, word |-> LongMod - 1, text |-> <<"z">>, null |-> TRUE] :
              d \in {Literal, Percent, [Literal EXCEPT !.conv = "d"], [Literal EXCEPT !.conv = "s"],
                     [Literal EXCEPT !.conv = "n"]}}

FormatsInit == items = <<>>
FormatsNext ==
    \/ Len(items) = 0 /\ \E i \in Items : items' = <<i>>
    \/ Len(items) = 1 /\ \E i \in Tails : items' = Append(items, i)
FormatsSpec == FormatsInit /\ [][FormatsNext]_items

-----------------------------------------------------------------------------
(* How a format is written.                                                *)

Decimal(n) == InBase(n, 10, Digits)
Given(char, given) == IF given THEN <<char>> ELSE <<>>

Spell(d) ==
    IF d.conv = "k" THEN <<"k">> ELSE
    <<"%">> \o Given("#", "#" \in d.flags) \o Given("0", "0" \in d.flags)
    \o Given("+", "+" \in d.flags) \o Given(" ", " " \in d.flags)
    \o (IF d.star THEN <<"*">> ELSE IF d.width = -1 THEN <<>> ELSE Decimal(d.width))
    \o (IF d.prec = -1 THEN <<>> ELSE <<".">> \o Decimal(d.prec))
    \o Given("l", d.long) \o <<d.conv>>

Arguments(item) ==
    LET a == [word |-> item.word, text |-> item.text, null |-> item.null] IN
    (IF item.dir.star THEN <<[a EXCEPT !.word = item.dir.width]>> ELSE <<>>)
    \o (IF item.dir.conv \in {"k", "%"} THEN <<>> ELSE <<a>>)

Concat(seqs) ==
    LET upto[n \in 0 .. Len(seqs)] == IF n = 0 THEN <<>> ELSE upto[n - 1] \o seqs[n]
    IN upto[Len(seqs)]
Format(is)  == Concat([i \in DOMAIN is |-> Spell(is[i].dir)])
Args(is)    == Concat([i \in DOMAIN is |-> Arguments(is[i])])

-----------------------------------------------------------------------------
(* What C says.                                                            *)

\* The number an integer conversion stands for.
Number(item) ==
    LET mod == IF item.dir.long \/ item.dir.conv = "p" THEN LongMod ELSE IntMod IN
    IF item.dir.conv \in {"d", "i"} THEN Signed(item.word, mod) ELSE item.word % mod

PrefixOf(item) ==
    LET d == item.dir
        n == Number(item)
    IN
    CASE d.conv \in {"d", "i"} ->
            IF n < 0 THEN <<"-">> ELSE IF "+" \in d.flags THEN <<"+">>
            ELSE IF " " \in d.flags THEN <<" ">> ELSE <<>>
      [] d.conv = "p" \/ (d.conv \in {"x", "X"} /\ "#" \in d.flags /\ n # 0) ->
            <<"0", IF d.conv = "X" THEN "X" ELSE "x">>
      [] OTHER -> <<>>

NumberDigits(item) ==
    LET n == Number(item) IN
    IF item.dir.prec = 0 /\ n = 0 THEN <<>>
    ELSE InBase(IF n < 0 THEN -n ELSE n, IF item.dir.conv \in {"d", "i", "u"} THEN 10 ELSE 16,
                IF item.dir.conv = "X" THEN UpperDigits ELSE Digits)

\* The precision is the least number of digits, the width the least number of
\* characters, made up with zeros if asked for and if no precision is given.
NumberText(item) ==
    LET d == item.dir
        digits == Copies("0", d.prec - Len(NumberDigits(item))) \o NumberDigits(item)
        missing == d.width - Len(PrefixOf(item)) - Len(digits)
    IN IF "0" \in d.flags /\ d.prec = -1
       THEN PrefixOf(item) \o Copies("0", missing) \o digits
       ELSE Copies(" ", missing) \o PrefixOf(item) \o digits

Expected(item) ==
    CASE item.dir.conv = "s" -> IF item.null THEN NullText ELSE item.text
      [] item.dir.conv = "c" -> <<item.text[1]>>
      [] item.dir.conv = "n" -> <<>>
      [] item.dir.conv \in {"k", "%"} -> <<item.dir.conv>>
      [] OTHER -> NumberText(item)

\* What vprintfmt has of C.  It has not: a width on %s and %c, a %u that is
\* negative as an int, a precision with a sign (it prints one digit too few),
\* the width when precision 0 leaves no digit, and any of them for the
\* smallest long and for %p with precision 0.
Supported(item) ==
    LET d == item.dir IN
    CASE d.conv \in {"s", "c", "n", "k", "%"} -> d.width = -1 /\ d.prec = -1
      [] d.conv = "u" ->
            /\ d.long \/ Signed(item.word, IntMod) >= 0
            /\ ~(d.prec = 0 /\ Number(item) = 0 /\ d.width > 0)
      [] d.conv \in {"d", "i"} ->
            /\ (d.prec # -1 => PrefixOf(item) = <<>>)
            /\ ~(d.prec = 0 /\ Number(item) = 0 /\ d.width > 0)
            /\ Number(item) = -(LongMod \div 2) => d.width <= Len(Decimal(LongMod \div 2)) + 1
      [] d.conv = "p" -> d.prec # 0
      [] OTHER -> ~(d.prec = 0 /\ Number(item) = 0 /\ d.width > 0)

-----------------------------------------------------------------------------
(* Properties.                                                             *)

Result == vprintfmt(Format(items), Args(items))

\* Every supported format prints what C says, for every argument up to the
\* ends of int and long, and takes its arguments one by one.
PrintsAsC ==
    (\A i \in DOMAIN items : Supported(items[i])) =>
        /\ Result.out = Concat([i \in DOMAIN items |-> Expected(items[i])])
        /\ Result.used = Len(Args(items))

\* The count that vprintfmt returns, and %n stores, is the number of characters
\* it has printed.
CountsOutput ==
    /\ Result.written = Len(Result.out)
    /\ Len(items) = 2 /\ items[2].dir.conv = "n" => Result.stored = <<Len(Result.out)>>

\* strtol reads a number back, whatever stands before and behind it.
ReadsBack ==
    \A i \in DOMAIN items, base \in {0, 10, 16}, sign \in {<<>>, <<"-">>} :
        LET n == items[i].word % (LongMod \div 2)
            hex == base = 16 \/ (base = 0 /\ items[i].dir.long)
            text == <<" ", "\t">> \o sign
                    \o (IF base = 0 /\ hex THEN <<"0", "x">> ELSE <<>>)
                    \o InBase(n, IF hex THEN 16 ELSE 10, Digits)
        IN strtol(text \o <<"z">>, 1, base) = << IF sign = <<>> THEN n ELSE -n, Len(text) + 1 >>

\* What vprintfmt and strtol owe their callers.
FormatsConform == PrintsAsC /\ CountsOutput /\ ReadsBack
=============================================================================
