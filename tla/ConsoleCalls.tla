---------------------------- MODULE ConsoleCalls ----------------------------
(***************************************************************************)
(* A program that prints, one call after another.                          *)
(***************************************************************************)
EXTENDS Console

CONSTANTS
    Formats,   \* [fmt, args]: what printf is called with
    Writes     \* what write is called with

\* Texts are C strings, and every conversion has its argument; a character is
\* the first of an argument's text.
IsText(t) == t \in Seq(Range(t) \ {Nul})
IsArgument(a) ==
    /\ a = [word |-> a.word, text |-> a.text, null |-> a.null]
    /\ a.word \in 0 .. LongMod - 1 /\ IsText(a.text) /\ a.null \in BOOLEAN
ASSUME CallsAssumption ==
    /\ \A text \in Writes : IsText(text)
    /\ \A f \in Formats :
          /\ IsText(f.fmt)
          /\ f.args \in Seq(Range(f.args)) /\ \A a \in Range(f.args) : IsArgument(a)
          /\ vprintfmt(f.fmt, f.args).used <= Len(f.args)
          /\ "c" \in Range(f.fmt) => \A a \in Range(f.args) : a.text # <<>>

VARIABLES
    console,   \* Quiet at first
    call       \* the last call, as its caller means it: [fd, text]

callVars == <<console, call>>

CallsInit == console = Quiet /\ call = [fd |-> 1, text |-> <<>>]

CallPrintf ==
    \E f \in Formats :
        /\ Fits(f.fmt, f.args)
        /\ console' = printf(console, f.fmt, f.args)
        /\ call' = [fd |-> 1, text |-> vprintfmt(f.fmt, f.args).out]

CallWrite ==
    \E fd \in {1, 2}, text \in Writes : \E count \in 0 .. Len(text) :
        /\ console' = write(console, fd, text, count)
        /\ call' = [fd |-> fd, text |-> SubSeq(text, 1, count)]

CallsNext == CallPrintf \/ CallWrite

CallsSpec == CallsInit /\ [][CallsNext]_callVars

-----------------------------------------------------------------------------

\* What is printed is shown, all of it, once and no more: nothing is left in
\* printf's buffer from a longer text before, and nothing is read behind the
\* copy that write makes.  A "%" is not (vfs.c:32 takes the text for a format).
ShowsText ==
    "%" \notin Range(call.text) =>
        console.shown = IF call.fd = 2 THEN RedText \o call.text \o Clear ELSE call.text

\* A call returns the length of its text, and the next printf begins at the
\* start of its buffer.
ReturnsLength ==
    /\ console.tail = 0
    /\ "%" \notin Range(call.text) => console.ret = Len(call.text)

\* What printf and write owe a program.
CallsConform == ShowsText /\ ReturnsLength
=============================================================================
