-------------------------------- MODULE Shell --------------------------------
(***************************************************************************)
(* The user program: a line of keys, echoed as they come, and the commands *)
(* echo, cat and edit (user/main.c), over its printf and write (Console)   *)
(* and the kernel's open as it is: 0 for a file that is there, -1 for      *)
(* another (Files).                                                        *)
(*                                                                         *)
(* A key is a character; "%" is none of them, since it is not echoed       *)
(* (Console).  Numbers stay within an int.                                 *)
(***************************************************************************)
EXTENDS Console

CONSTANTS
    Chunks,     \* what a user types in one go: sequences of keys
    MaxChunks,  \* bound on how often
    MaxLine,    \* size of line_buf less one; the code has 127, and no check
    CatSize,    \* CAT_BUF_SIZE
    Ascii,      \* character codes of the keys that may stand in an offset
    Present     \* names of the files that are there

CR == "\r"
Del    == "<del>"
Back   == "<back>"
Quote  == "\""
Yellow == "<yellow>"
Prompt == <<"S", ">", " ">>
Junk   == "?"     \* a byte of line_buf never written

\* What no key is: a key but Del and CR is shown where the cursor is.
Marks == {Nul, "%", "\n", Back, Yellow, "<red>", "<clear>"}

\* Prompt and messages fit in printf's buffer.
ASSUME ShellAssumption ==
    /\ MaxLine \in Nat /\ CatSize \in Nat \ {0}
    /\ 5 < BufferSize /\ MaxLine + 3 < BufferSize
    /\ \A chunk \in Chunks : chunk \in Seq(Range(chunk) \ Marks)

VARIABLES
    line_buf, char_in_line,
    tty,        \* printf's buffer and the terminal's row
    mode,       \* "line", "cat": the loop of cat on its standard input, "halted"
    cat_buf,    \* what that loop has read
    done,       \* the last command: its name and parameters
    keys,       \* keys the user is about to press
    chunks      \* chunks left

shellVars == <<line_buf, char_in_line, tty, mode, cat_buf, done, keys, chunks>>

Typed == IF mode = "line" THEN SubSeq(line_buf, 1, char_in_line) ELSE <<>>

-----------------------------------------------------------------------------
(* The terminal.                                                           *)

Place(row, ch) ==
    CASE ch \in {Yellow, "<red>", "<clear>"} -> row
      [] ch = "\n" -> [text |-> <<>>, col |-> 0]
      [] ch = "\r" -> [row EXCEPT !.col = 0]
      [] ch = Back -> [row EXCEPT !.col = IF @ > 0 THEN @ - 1 ELSE 0]
      [] OTHER -> [text |-> IF row.col < Len(row.text) THEN [row.text EXCEPT ![row.col + 1] = ch]
                            ELSE Append(row.text, ch),
                   col |-> row.col + 1]

\* The row after a text.
Placed(row, text) ==
    LET after[n \in 0 .. Len(text)] ==
            IF n = 0 THEN row ELSE Place(after[n - 1], text[n])
    IN after[Len(text)]

Seen(t, c) == [console |-> c, row |-> Placed(t.row, c.shown)]

Say(t, text) == Seen(t, write(t.console, 1, text, Len(text)))
Sayf(t, fmt, arg) ==
    Seen(t, printf(t.console, fmt, <<[word |-> 0, text |-> arg, null |-> FALSE]>>))

Ask(t) == Sayf(t, <<Yellow>> \o Prompt \o Clear, <<>>)

-----------------------------------------------------------------------------
(* Parameters of the command in mem, a line with its Nul, from position i. *)

SkipBlanks(mem, i)  == Min({j \in i .. Len(mem) : mem[j] # " "})
UpTo(mem, i, stops) == SubSeq(mem, i, Min({j \in i .. Len(mem) : mem[j] \in stops}) - 1)

get_param(mem, i) == UpTo(mem, SkipBlanks(mem, i), {" ", Nul})

\* The text ends at the quote or at the Nul, which is copied with what stands
\* behind it: Closed says whether a quote ends that.
get_string(mem, i) ==
    LET b == SkipBlanks(mem, i) IN
    IF mem[b] = Quote THEN UpTo(mem, b + 1, {Quote, Nul}) ELSE get_param(mem, b)

Closed(mem, i) ==
    LET b == SkipBlanks(mem, i) IN
    mem[b] = Quote => \E j \in b + 1 .. Len(mem) : mem[j] = Quote

atoi(str) ==
    LET ret[n \in 0 .. Len(str)] ==
            IF n = 0 THEN 0 ELSE (ret[n - 1] * 10 + Ascii[str[n]]) - Ascii["0"]
    IN ret[Len(str)]

\* Mutant: the blanks before the parameter are not counted.
BlanksMissed(mem, i) == i + Len(get_param(mem, i))

\* Where the parameter behind the one at i begins.
Behind(mem, i) == SkipBlanks(mem, i) + Len(get_param(mem, i))

Echo == <<"e", "c", "h", "o">>
Cat  == <<"c", "a", "t">>
Edit == <<"e", "d", "i", "t">>

-----------------------------------------------------------------------------
(* The loop of main, one key at a time.                                    *)

\* Mutant: the cursor goes back and nothing is erased.
BackOnly(t) == Say(t, <<Back>>)

Erase(t) == Say(t, <<Back, " ", Back>>)

Rubout ==
    IF char_in_line > 0 THEN char_in_line' = char_in_line - 1 /\ tty' = Erase(tty)
    ELSE UNCHANGED <<char_in_line, tty>>

Press(key) == mode = "line" /\ keys # <<>> /\ key = Head(keys) /\ keys' = Tail(keys)

RuboutKey ==
    /\ Press(Del)
    /\ Rubout
    /\ UNCHANGED <<line_buf, mode, cat_buf, done, chunks>>

CharKey ==
    \E key \in Range(keys) \ {Del, CR} :
        /\ Press(key)
        /\ char_in_line < MaxLine
        /\ line_buf' = [line_buf EXCEPT ![char_in_line + 1] = key]
        /\ char_in_line' = char_in_line + 1
        /\ tty' = Say(tty, <<key>>)
        /\ UNCHANGED <<mode, cat_buf, done, chunks>>

Ended == [line_buf EXCEPT ![char_in_line + 1] = Nul]

\* Return: the line is ended, and its command begins on a row of its own.
EnterKey(command) ==
    /\ Press(CR)
    /\ line_buf' = Ended
    /\ done' = command
    /\ UNCHANGED chunks

NewRow == Say(Say(tty, <<"\n">>), <<"\r">>)

\* The command returns, and the shell asks for the next line.
Returns(t) ==
    /\ tty' = Ask(t) /\ char_in_line' = 0
    /\ UNCHANGED <<mode, cat_buf>>

\* The command is in the kernel, or faults, for ever.
Stops(m, t) ==
    /\ mode' = m /\ tty' = t /\ cat_buf' = <<>>
    /\ UNCHANGED char_in_line

EchoCommand ==
    LET text == get_string(Ended, 5) IN
    /\ IsPrefix(Echo, Ended)
    /\ EnterKey(<<"echo", text>>)
    /\ Returns(Say(Say(NewRow, text), <<"\n">>))

\* A quote that nothing closes is looked for on the stack, and may be found.
QuoteLost ==
    /\ Press(CR)
    /\ IsPrefix(Echo, Ended) /\ ~Closed(Ended, 5)
    /\ line_buf' = Ended
    /\ Stops("halted", NewRow)
    /\ UNCHANGED <<done, chunks>>

CantOpen == <<"?", ":", "%", "s", "\n">>

\* cat reads from the descriptor that open returns, 0, which is the console:
\* read returns CatSize, and never the 0 that ends the loop.
\* Left out: every failed open takes a slot (fs.c:65), and when all are taken a
\* file that is there is refused too.
CatCommand ==
    LET filename == get_param(Ended, 4) IN
    /\ IsPrefix(Cat, Ended)
    /\ EnterKey(<<"cat", filename>>)
    /\ \/ filename \in Present /\ Stops("cat", NewRow)
       \/ filename \notin Present /\ Returns(Sayf(NewRow, CantOpen, filename))

\* One write per character.
SayEach(t, text) ==
    LET after[n \in 0 .. Len(text)] ==
            IF n = 0 THEN t ELSE Say(after[n - 1], <<text[n]>>)
    IN after[Len(text)]

CatReads ==
    /\ mode = "cat" /\ keys # <<>>
    /\ keys' = Tail(keys)
    /\ IF Len(cat_buf) + 1 = CatSize
       THEN /\ tty' = SayEach(tty, Append(cat_buf, Head(keys)))
            /\ cat_buf' = <<>>
       ELSE UNCHANGED tty /\ cat_buf' = Append(cat_buf, Head(keys))
    /\ UNCHANGED <<line_buf, char_in_line, mode, done, chunks>>

\* edit seeks on what open returns without a look at it: 0 is the console,
\* whose lseek is NULL, and -1 lies behind every table.  Content is never
\* written.
EditCommand ==
    LET offset  == Behind(Ended, 5)
        content == Behind(Ended, offset)
    IN
    /\ IsPrefix(Edit, Ended)
    /\ EnterKey(<<"edit", get_param(Ended, 5), atoi(get_param(Ended, offset)),
                  get_string(Ended, content)>>)
    /\ Stops("halted", NewRow)

NotFound == <<"!", ":", "%", "s", "\n">>

UnknownCommand ==
    LET text == UpTo(Ended, 1, {Nul}) IN
    /\ ~IsPrefix(Echo, Ended) /\ ~IsPrefix(Cat, Ended) /\ ~IsPrefix(Edit, Ended)
    /\ EnterKey(<<"unknown", text>>)
    /\ Returns(Sayf(NewRow, NotFound, text))

\* The user begins to type.
Hands ==
    /\ keys = <<>> /\ chunks > 0
    /\ keys' \in Chunks /\ chunks' = chunks - 1
    /\ UNCHANGED <<line_buf, char_in_line, tty, mode, cat_buf, done>>

\* The user goes, the shell is in a command for ever, or its line is full.
Rest ==
    /\ \/ keys = <<>> /\ chunks = 0
       \/ mode = "halted" /\ keys # <<>>
       \/ mode = "line" /\ keys # <<>> /\ char_in_line = MaxLine
          /\ Head(keys) \notin {Del, CR}
    /\ UNCHANGED shellVars

Greeting == Say(Say([console |-> Quiet, row |-> [text |-> <<>>, col |-> 0]], <<"1", "\n">>),
                <<"2", "\n">>)

ShellInit ==
    /\ line_buf = Copies(Junk, MaxLine + 1) /\ char_in_line = 0
    /\ tty = Ask(Greeting)
    /\ mode = "line" /\ cat_buf = <<>>
    /\ done = <<"none">> /\ keys = <<>> /\ chunks = MaxChunks

ShellNext ==
    \/ Hands \/ RuboutKey \/ CharKey
    \/ EchoCommand \/ QuoteLost \/ CatCommand \/ CatReads \/ EditCommand \/ UnknownCommand
    \/ Rest

ShellSpec == ShellInit /\ [][ShellNext]_shellVars

-----------------------------------------------------------------------------
(* Properties.                                                             *)

\* Type invariant: the line is a part of line_buf with room for its Nul.
LineTypeOK ==
    /\ Len(line_buf) = MaxLine + 1 /\ char_in_line \in 0 .. MaxLine
    /\ mode \in {"line", "cat", "halted"} /\ Len(cat_buf) < CatSize
    /\ tty.row.col \in 0 .. Len(tty.row.text)

\* Between two keys the cursor stands behind the prompt and the line, and
\* nothing is seen behind it: no rubout eats the prompt, and no command leaves
\* text on the row of the next line.  This is about what the shell writes: with
\* LOG := 1 (Makefile) the kernel's own log lines end up on the same terminal.
ScreenShowsLine ==
    mode = "line" =>
        /\ SubSeq(tty.row.text, 1, tty.row.col) = Prompt \o Typed
        /\ \A i \in tty.row.col + 1 .. Len(tty.row.text) : tty.row.text[i] = " "

\* The line and the row as getchar, putc and the shell's loop keep them.
LineSound == LineTypeOK /\ ScreenShowsLine

\* How commands are spelled: blanks between parameters, quotes around a text.
CONSTANTS Names, Offsets, Strings

\* No blank in a name and no quote in a text; the codes of the digits follow
\* one another.
ASSUME CommandsAssumption ==
    /\ \A name \in Names : name # <<>> /\ name \in Seq(Range(name) \ {" ", Nul})
    /\ \A text \in Strings : text \in Seq(Range(text) \ {Quote, Nul})
    /\ Offsets \subseteq Nat
    /\ Ascii["0"] \in Int /\ \A d \in 0 .. 9 : Ascii[Digits[d + 1]] = Ascii["0"] + d

Gaps   == {<<" ">>, <<" ", " ">>}
Ends   == {<<>>, <<" ">>}
AsString(text) ==
    {<<Quote>> \o text \o <<Quote>>}
    \cup IF text # <<>> /\ {" ", Quote} \cap Range(text) = {} THEN {text} ELSE {}

Commands ==
    ({"echo"} \X Strings) \cup ({"cat"} \X Names) \cup ({"edit"} \X Names \X Offsets \X Strings)

\* A further parameter, and what may stand behind the last.
Then(lines, params) == {l \o g \o x : l \in lines, g \in Gaps, x \in params}
Whole(lines)        == {l \o e : l \in lines, e \in Ends}

Spellings(c) ==
    CASE c[1] = "echo" -> Whole(Then({Echo}, AsString(c[2])))
      [] c[1] = "cat"  -> Whole(Then({Cat}, {c[2]}))
      [] c[1] = "edit" -> Whole(Then(Then(Then({Edit}, {c[2]}), {InBase(c[3], 10, Digits)}),
                                     AsString(c[4])))

CL == INSTANCE CommandLine
          WITH TakeBack <- Del, Return <- CR, line <- Typed, busy <- mode # "line"

\* The line is what the user has typed and not rubbed out, key by key, whatever
\* longer lines were there before, and the command done is the one it spells: with
\* its own parameters, quotes removed, blanks between them ignored.
CommandLineSpec == CL!Spec
=============================================================================
