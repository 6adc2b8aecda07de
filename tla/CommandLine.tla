----------------------------- MODULE CommandLine -----------------------------
(***************************************************************************)
(* What a user may expect of the shell: the keys, in the order in which    *)
(* they are pressed and none of them twice or not at all, make up a line;  *)
(* the rubout key takes back the last, and the return key has the command  *)
(* done that the line spells.  Some commands keep the shell busy: the keys *)
(* that follow are theirs.                                                 *)
(***************************************************************************)
EXTENDS Naturals, SequencesExt

CONSTANTS
    TakeBack, Return,   \* the two keys that are no characters
    Commands,           \* commands a line may spell
    Spellings(_)        \* the lines that spell a command

VARIABLES keys, line, busy, done

vars == <<keys, line, busy, done>>

Init == keys = <<>> /\ line = <<>> /\ ~busy /\ done = <<"none">>

\* The user reaches for some keys.
Hands == keys = <<>> /\ UNCHANGED <<line, busy, done>>

Press(key) == keys # <<>> /\ key = Head(keys) /\ keys' = Tail(keys)

Type(key) ==
    /\ ~busy /\ Press(key) /\ key \notin {TakeBack, Return}
    /\ line' = Append(line, key)
    /\ UNCHANGED <<busy, done>>

Rubout ==
    /\ ~busy /\ Press(TakeBack)
    /\ line' = IF line = <<>> THEN <<>> ELSE Front(line)
    /\ UNCHANGED <<busy, done>>

Enter ==
    /\ ~busy /\ Press(Return)
    /\ line' = <<>> /\ busy' \in BOOLEAN
    /\ \A c \in Commands : line \in Spellings(c) => done' = c

\* A command reads a key.
Read == busy /\ Press(Head(keys)) /\ UNCHANGED <<line, busy, done>>

Next == Hands \/ (\E key \in Range(keys) : Type(key)) \/ Rubout \/ Enter \/ Read

Spec == Init /\ [][Next]_vars
=============================================================================
