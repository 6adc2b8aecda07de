---------------------------- MODULE BlockDevice ----------------------------
(***************************************************************************)
(* What virtio_blk_read_sector and virtio_blk_write_sector promise: one    *)
(* request at a time, whose transfer happens exactly once, between the     *)
(* call and its return.  The functions return nothing, so a request that   *)
(* the device could not serve returns too, with nothing transferred.       *)
(***************************************************************************)
CONSTANTS
    Sectors, Buffers, Contents,
    NoRequest

VARIABLES
    disk,       \* [Sectors -> Contents]
    memory,     \* [Buffers -> Contents]: what the callers' buffers hold
    request     \* NoRequest, or the running one and whether it is served

vars == <<disk, memory, request>>

Init ==
    /\ disk \in [Sectors -> Contents]
    /\ memory \in [Buffers -> Contents]
    /\ request = NoRequest

\* The caller's own use of its buffers.
Store(b, c) ==
    /\ request = NoRequest
    /\ memory' = [memory EXCEPT ![b] = c]
    /\ UNCHANGED <<disk, request>>

Call(type, s, b) ==
    /\ request = NoRequest
    /\ request' = [type |-> type, sector |-> s, buf |-> b, served |-> FALSE]
    /\ UNCHANGED <<disk, memory>>

Serve ==
    /\ request # NoRequest
    /\ ~request.served
    /\ request' = [request EXCEPT !.served = TRUE]
    /\ \/ /\ request.type = "in"
          /\ memory' = [memory EXCEPT ![request.buf] = disk[request.sector]]
          /\ UNCHANGED disk
       \/ /\ request.type = "out"
          /\ disk' = [disk EXCEPT ![request.sector] = memory[request.buf]]
          /\ UNCHANGED memory
       \/ UNCHANGED <<disk, memory>>

Return ==
    /\ request # NoRequest
    /\ request.served
    /\ request' = NoRequest
    /\ UNCHANGED <<disk, memory>>

Next ==
    \/ \E b \in Buffers, c \in Contents : Store(b, c)
    \/ \E type \in {"in", "out"}, s \in Sectors, b \in Buffers : Call(type, s, b)
    \/ Serve
    \/ Return

Spec == Init /\ [][Next]_vars
=============================================================================
