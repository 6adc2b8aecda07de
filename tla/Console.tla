------------------------------- MODULE Console -------------------------------
(***************************************************************************)
(* Text on its way from a program to the console: printf collects it in    *)
(* the program's buffer, write copies it to the program's stack, and the   *)
(* kernel takes what it gets for a format (user/printf.c, user/unistd.c,   *)
(* fs/vfs.c).                                                              *)
(*                                                                         *)
(* Memory is a sequence of characters, with Nul for the byte 0.  The       *)
(* kernel reads from the address it is given to the first Nul.             *)
(***************************************************************************)
EXTENDS Printk

CONSTANTS
    BufferSize   \* bytes of printf's buffer; the code has 1000

ASSUME ConsoleAssumption == BufferSize \in Nat \ {0}

Nul     == ""
RedText == <<"<red>">>
Clear   == <<"<clear>">>

\* A program's printf and the terminal: the text shown by the last call, and
\* what the call returned.
Quiet == [buffer |-> Copies(Nul, BufferSize), tail |-> 0, shown |-> <<>>, ret |-> 0]

-----------------------------------------------------------------------------
(* The kernel: a file of the console is written.                           *)

\* Texts that take an argument are left out: they would print whatever the
\* registers hold.
printk(fmt) == vprintfmt(fmt, <<>>)

putc(c, text) == [c EXCEPT !.shown = @ \o text]

stdout_write(c, buf) == [putc(c, printk(buf).out) EXCEPT !.ret = printk(buf).written]

stderr_write(c, buf) == putc(stdout_write(putc(c, RedText), buf), Clear)

sys_write(c, fd, buf) == IF fd = 1 THEN stdout_write(c, buf) ELSE stderr_write(c, buf)

-----------------------------------------------------------------------------
(* The program.                                                            *)

\* temp_buf
Copied(buf, count) == Append(SubSeq(buf, 1, count), Nul)

write(c, fd, buf, count) == sys_write([c EXCEPT !.shown = <<>>], fd, Copied(buf, count))

\* The program's own copy of vprintfmt and its helpers, the same text.
UserCopy == INSTANCE Printk
user_vprintfmt(fmt, args) == UserCopy!vprintfmt(fmt, args)

\* putc of printf.c, for one character of text after the other.
Collect(c, text) ==
    [c EXCEPT !.tail = @ + Len(text),
              !.buffer = [i \in DOMAIN @ |->
                  IF i - c.tail \in DOMAIN text THEN text[i - c.tail] ELSE c.buffer[i]]]

\* Mutant: the text of an earlier call is not cut off.
NoEnd(c, text) == Collect(c, text)

Collected(c, text) == Collect(Collect(c, text), <<Nul>>)

\* printf passes its whole buffer; text that fits is assumed (Fits).
printf(c, fmt, args) ==
    LET r == user_vprintfmt(fmt, args)
        d == Collected([c EXCEPT !.shown = <<>>], r.out)
    IN [sys_write(d, 1, d.buffer) EXCEPT !.tail = 0, !.ret = r.written]

Fits(fmt, args) == Len(user_vprintfmt(fmt, args).out) < BufferSize
=============================================================================
