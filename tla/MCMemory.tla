------------------------------ MODULE MCMemory ------------------------------
(***************************************************************************)
(* Small instances of Segments and Buddy: the areas of a task's memory,    *)
(* and the pages of the machine's.  The models share no state: a behaviour *)
(* chooses one of them, and the variables of the other stay as they are.   *)
(***************************************************************************)
EXTENDS Segments, Buddy

VARIABLE part    \* "segments" or "buddy"

-----------------------------------------------------------------------------
(* Segments with pages of four bytes: a note, a text and a data segment in *)
(* either order, in pages of their own, aligned and not; and an image      *)
(* whose data begins in the page of its text.                              *)

Header(type, vaddr, memsz, filesz, offset, flags) ==
    [p_type |-> type, p_vaddr |-> vaddr, p_memsz |-> memsz, p_filesz |-> filesz,
     p_offset |-> offset, p_flags |-> flags]

Note == Header("PT_NOTE", 0, 1, 1, 1, {"R"})
Text(vaddr, size, offset) == Header("PT_LOAD", vaddr, size, size, offset, {"R", "X"})
Data(vaddr, size, bss, offset) ==
    Header("PT_LOAD", vaddr, size + bss, size, offset, {"R", "W"})

ApartLayouts ==
    {<<Note, Text(3, 4, 2), Data(8, 1, 1, 6)>>,
     <<Text(0, 3, 2), Data(5, 5, 0, 5), Note>>}

SharedLayout == <<Note, Text(0, 2, 2), Data(2, 2, 0, 4)>>

MCLayouts == ApartLayouts \cup {SharedLayout}

-----------------------------------------------------------------------------
MCInit ==
    /\ part \in {"segments", "buddy"}
    /\ Init /\ buddy_init
    /\ part # "segments" => image = SharedLayout

MCNext ==
    \/ part = "segments" /\ Next /\ UNCHANGED <<part, pool>>
    \/ part = "buddy" /\ BuddyNext /\ UNCHANGED <<part, vars>>

MCSpec == MCInit /\ [][MCNext]_<<part, vars, pool>>
=============================================================================
