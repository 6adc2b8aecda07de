----------------------------- MODULE MCPrograms -----------------------------
(***************************************************************************)
(* Small instances of what a program runs on, from its formats to its      *)
(* registers: PrintkFormats, ConsoleCalls, Shell and Trap.  The models     *)
(* share no state: a behaviour chooses one of them, and the variables of   *)
(* the others stay as they are.  Trap has two programs of two              *)
(* instructions here, on stacks of one frame.                              *)
(***************************************************************************)
EXTENDS Trap, Shell, ConsoleCalls, PrintkFormats

VARIABLE part    \* "formats", "console", "shell" or "traps"

-----------------------------------------------------------------------------
(* Shell: every line that a few chunks of keys make, and the lines after   *)
(* it.                                                                     *)

MCChunks ==
    { <<"e", "c", "h", "o", " ">>, <<"e", "d", "i", "t", " ", "f">>, <<"c", "a", "t", " ">>,
      <<" ", "3">>, <<"f">>, <<" ">>, <<" ", Quote, "f", " ", "3", Quote>>, <<Quote>>,
      <<Del, Del>>, <<CR>> }
MCAscii ==
    [ch \in {Digits[i] : i \in 1 .. 10} |-> 47 + CHOOSE i \in 1 .. 10 : Digits[i] = ch]
    @@ "a" :> 97 @@ "c" :> 99 @@ "d" :> 100 @@ "e" :> 101 @@ "f" :> 102 @@ "h" :> 104 @@ "i" :> 105
    @@ "o" :> 111 @@ "t" :> 116 @@ Quote :> 34
MCNames == {<<"f">>, <<"f", "f">>}
MCPresent == {<<"f">>}
MCOffsets == {3, 33}
MCStrings == {<<>>, <<"f">>, <<"3">>, <<"f", "f">>, <<"f", " ", "3">>}

-----------------------------------------------------------------------------
(* PrintkFormats: every directive of a few widths and precisions, with the *)
(* arguments at the ends of a 4-bit int and a 7-bit long.                  *)

FlagSets == {{}, {"#"}, {"0"}, {"+"}, {" "}, {"#", "0"}, {"+", "0"}, {"+", " "}}
MCDirectives ==
    {d \in [flags : FlagSets, width : {-1, 5}, prec : {-1, 0, 3},
            star : BOOLEAN, long : BOOLEAN, conv : {"d", "u", "x", "X", "p", "s", "c"}] :
        /\ d.star => d.width = 5
        /\ d.conv \in {"s", "c"} => d.flags = {} /\ d.prec = -1 /\ ~d.long}
MCTexts == {<<"z", "y">>}

-----------------------------------------------------------------------------
(* ConsoleCalls: texts of up to two characters, and formats with one or    *)
(* two arguments.                                                          *)

MCWrites == SeqOf({"a", "b", "%"}, 2)

Arg(word, text) == [word |-> word, text |-> text, null |-> FALSE]
MCFormats ==
    {[fmt |-> <<"a", "%", "s", "b">>, args |-> <<Arg(0, t)>>] : t \in MCWrites}
    \cup {[fmt |-> <<"%", "d", "%", "s">>, args |-> <<Arg(w, <<>>), Arg(0, t)>>] :
            w \in {0, 8, 15}, t \in {<<>>, <<"a", "b", "a", "b">>}}
    \cup {[fmt |-> <<"%", "%", "a">>, args |-> <<>>]}

-----------------------------------------------------------------------------
MCInit ==
    /\ part \in {"formats", "console", "shell", "traps"}
    /\ Init /\ FormatsInit /\ CallsInit /\ ShellInit
    /\ part # "traps" => hart.x.val = 0

MCNext ==
    \/ part = "formats" /\ FormatsNext /\ UNCHANGED <<part, shellVars, callVars, vars>>
    \/ part = "console" /\ CallsNext /\ UNCHANGED <<part, shellVars, items, vars>>
    \/ part = "shell" /\ ShellNext /\ UNCHANGED <<part, items, callVars, vars>>
    \/ part = "traps" /\ Next /\ UNCHANGED <<part, shellVars, items, callVars>>

MCSpec == MCInit /\ [][MCNext]_<<part, shellVars, items, callVars, vars>>
=============================================================================
