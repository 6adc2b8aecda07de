----------------------------- MODULE VirtioBlk -----------------------------
(***************************************************************************)
(* The driver of the virtio block device, fs/virtio.c, and the device.     *)
(*                                                                         *)
(* The device is an actor of its own: it reads the ring and the            *)
(* descriptors while the driver polls, and after a request it looks at the *)
(* ring again before it sleeps, so it may take the next request before it  *)
(* is notified.  The code is built without optimisation and runs on a hart *)
(* whose stores the device sees in program order; the driver has one       *)
(* request in flight, always in descriptors 0, 1 and 2.                    *)
(***************************************************************************)
EXTENDS Integers

CONSTANTS
    Sectors, Buffers, Contents,     \* one value stands for what a sector holds
    BootSector, BootBuffer,         \* sector 0 and buf of virtio_blk_init
    Signed,                         \* contents with a boot signature
    QueueSize,                      \* VIRTIO_QUEUE_SIZE
    IdxValues                       \* values of a uint16_t index

ASSUME VirtioAssumption ==
    /\ BootSector \in Sectors /\ BootBuffer \in Buffers
    /\ QueueSize \in Nat \ {0}
    /\ IdxValues \in Nat /\ IdxValues > 1 /\ IdxValues % QueueSize = 0

VARIABLES
    disk, memory,
    boot,       \* how far virtio_blk_init has come
    status,     \* Status register
    ready,      \* QueueReady register
    pc,         \* where the driver is in a request
    call,       \* arguments of virtio_blk_read_sector or virtio_blk_write_sector
    original,   \* original_idx
    chain,      \* the request the three descriptors describe
    avail,      \* avail ring: idx and the descriptor numbers
    used,       \* used->idx
    notified,   \* a write to QueueNotify the device has not seen yet
    device      \* the device: awake, its avail index, the chain it works on

vars == <<disk, memory, boot, status, ready, pc, call, original, chain, avail,
          used, notified, device>>

driver == <<boot, status, ready, pc, call, original, chain, avail>>

NoRequest == [type |-> "none"]
Requests == [type : {"in", "out"}, sector : Sectors, buf : Buffers]
Indices == 0 .. IdxValues - 1
Slots == 0 .. QueueSize - 1

TypeOK ==
    /\ disk \in [Sectors -> Contents] /\ memory \in [Buffers -> Contents]
    /\ boot \in {"probed", "driver", "features", "queue", "up", "halted"}
    /\ status \subseteq {"ACKNOWLEDGE", "DRIVER", "FEATURES_OK", "DRIVER_OK"}
    /\ ready \in BOOLEAN
    /\ pc \in {"idle", "fill", "ok", "slot", "publish", "notify", "poll"}
    /\ call \in Requests \cup {NoRequest}
    /\ original \in Indices
    /\ chain \in Requests \cup {NoRequest}
    /\ avail \in [idx : Indices, ring : [Slots -> {0}]]
    /\ used \in Indices
    /\ notified \in BOOLEAN
    /\ device \in [awake : BOOLEAN, last : Indices, work : Requests \cup {NoRequest},
                   data : {"here", "moved"}]

\* uint16_t: one more than the last value is 0.
Inc(i) == IF i = IdxValues - 1 THEN 0 ELSE i + 1

-----------------------------------------------------------------------------
(* virtio_blk_init.                                                        *)

virtio_blk_driver_init ==
    /\ boot = "probed"
    /\ boot' = "driver"
    /\ status' = {"ACKNOWLEDGE", "DRIVER"}
    /\ UNCHANGED <<disk, memory, ready, pc, call, original, chain, avail, used,
                   notified, device>>

virtio_blk_feature_init ==
    /\ boot = "driver"
    /\ boot' = "features"
    /\ status' = status \cup {"FEATURES_OK"}
    /\ UNCHANGED <<disk, memory, ready, pc, call, original, chain, avail, used,
                   notified, device>>

virtio_blk_queue_init ==
    /\ boot = "features"
    /\ boot' = "queue"
    /\ ready' = TRUE
    /\ UNCHANGED <<disk, memory, status, pc, call, original, chain, avail, used,
                   notified, device>>

\* The first request, which virtio_blk_init makes itself.
ReadBootSector ==
    /\ boot = "queue"
    /\ pc = "idle"
    /\ pc' = "fill"
    /\ call' = [type |-> "in", sector |-> BootSector, buf |-> BootBuffer]
    /\ original' = used
    /\ UNCHANGED <<disk, memory, boot, status, ready, chain, avail, used, notified,
                   device>>

-----------------------------------------------------------------------------
(* A request, as mbr.c and fat32.c make them.                              *)

\* original_idx is read before the request is built.
Call(type, s, b) ==
    /\ boot = "up"
    /\ pc = "idle"
    /\ pc' = "fill"
    /\ call' = [type |-> type, sector |-> s, buf |-> b]
    /\ original' = used
    /\ UNCHANGED <<disk, memory, boot, status, ready, chain, avail, used, notified,
                   device>>

\* Callers use their buffers between requests.
Store(b, c) ==
    /\ boot = "up"
    /\ pc = "idle"
    /\ memory' = [memory EXCEPT ![b] = c]
    /\ UNCHANGED <<disk, driver, used, notified, device>>

\* The request header and the three descriptors.
Fill ==
    /\ pc = "fill"
    /\ pc' = "ok"
    /\ chain' = call
    /\ UNCHANGED <<disk, memory, boot, status, ready, call, original, avail, used,
                   notified, device>>

DriverOk ==
    /\ pc = "ok"
    /\ pc' = "slot"
    /\ status' = status \cup {"DRIVER_OK"}
    /\ UNCHANGED <<disk, memory, boot, ready, call, original, chain, avail, used,
                   notified, device>>

\* Not the slot the device will look at, which is idx % size; every slot is 0.
WriteSlot ==
    /\ pc = "slot"
    /\ pc' = "publish"
    /\ avail' = [avail EXCEPT !.ring[(avail.idx + 1) % QueueSize] = 0]
    /\ UNCHANGED <<disk, memory, boot, status, ready, call, original, chain, used,
                   notified, device>>

Publish ==
    /\ pc = "publish"
    /\ pc' = "notify"
    /\ avail' = [avail EXCEPT !.idx = Inc(@)]
    /\ UNCHANGED <<disk, memory, boot, status, ready, call, original, chain, used,
                   notified, device>>

Notify ==
    /\ pc = "notify"
    /\ pc' = "poll"
    /\ notified' = TRUE
    /\ UNCHANGED <<disk, memory, boot, status, ready, call, original, chain, avail,
                   used, device>>

\* What virtio_blk_init makes of the boot sector; Err loops for ever.
AfterReturn ==
    IF boot # "queue" THEN boot
    ELSE IF memory[BootBuffer] \in Signed THEN "up" ELSE "halted"

\* Mutant: the driver looks at the ring it writes itself.
PublishedOnly == avail.idx # original

\* Mutant: the comparison does not survive the wrap of the index.
CompletedAbove == used > original

\* The polling loop ends when the device has raised used->idx.
Completed == used # original

\* A turn of the loop that finds nothing.
Poll == pc = "poll" /\ ~Completed /\ UNCHANGED vars

Return ==
    /\ pc = "poll"
    /\ Completed
    /\ pc' = "idle"
    /\ call' = NoRequest
    /\ boot' = AfterReturn
    /\ UNCHANGED <<disk, memory, status, ready, original, chain, avail, used, notified,
                   device>>

Halted == boot = "halted" /\ UNCHANGED vars

-----------------------------------------------------------------------------
(* The device.                                                             *)

Wake ==
    /\ notified
    /\ ready /\ "DRIVER_OK" \in status
    /\ notified' = FALSE
    /\ device' = [device EXCEPT !.awake = TRUE]
    /\ UNCHANGED <<disk, memory, driver, used>>

\* It takes the chain that begins at descriptor 0 into work.
Take ==
    /\ device.awake
    /\ device.work = NoRequest
    /\ device.last # avail.idx
    /\ avail.ring[device.last % QueueSize] = 0
    /\ device' = [device EXCEPT !.work = chain, !.data = "here", !.last = Inc(@)]
    /\ UNCHANGED <<disk, memory, driver, used, notified>>

\* Transfers, or fails and leaves that to the status byte, which the driver
\* does not read.
Transfer ==
    /\ device.work # NoRequest
    /\ device.data = "here"
    /\ device' = [device EXCEPT !.data = "moved"]
    /\ \/ /\ device.work.type = "in"
          /\ memory' = [memory EXCEPT ![device.work.buf] = disk[device.work.sector]]
          /\ UNCHANGED disk
       \/ /\ device.work.type = "out"
          /\ disk' = [disk EXCEPT ![device.work.sector] = memory[device.work.buf]]
          /\ UNCHANGED memory
       \/ UNCHANGED <<disk, memory>>
    /\ UNCHANGED <<driver, used, notified>>

Complete ==
    /\ device.work # NoRequest
    /\ device.data = "moved"
    /\ used' = Inc(used)
    /\ device' = [device EXCEPT !.work = NoRequest, !.data = "here"]
    /\ UNCHANGED <<disk, memory, driver, notified>>

Sleep ==
    /\ device.awake
    /\ device.last = avail.idx
    /\ device' = [device EXCEPT !.awake = FALSE]
    /\ UNCHANGED <<disk, memory, driver, used, notified>>

-----------------------------------------------------------------------------
\* virtio_dev_test has found a device; memory is as the allocator and .bss
\* give it at boot: the ring is zero, the buffers hold anything.
Init ==
    /\ disk \in [Sectors -> Contents]
    /\ memory \in [Buffers -> Contents]
    /\ boot = "probed" /\ status = {} /\ ready = FALSE
    /\ pc = "idle" /\ call = NoRequest /\ original = 0
    /\ chain = NoRequest
    /\ avail = [idx |-> 0, ring |-> [i \in Slots |-> 0]]
    /\ used = 0
    /\ notified = FALSE
    /\ device = [awake |-> FALSE, last |-> 0, work |-> NoRequest, data |-> "here"]

\* One turn of virtio_blk_cmd and of the loop behind it.
Request == Fill \/ DriverOk \/ WriteSlot \/ Publish \/ Notify \/ Return

Device == Wake \/ Take \/ Transfer \/ Complete \/ Sleep

Next ==
    \/ virtio_blk_driver_init
    \/ virtio_blk_feature_init
    \/ virtio_blk_queue_init
    \/ ReadBootSector
    \/ \E type \in {"in", "out"}, s \in Sectors, b \in Buffers : Call(type, s, b)
    \/ \E b \in Buffers, c \in Contents : Store(b, c)
    \/ Request
    \/ Poll
    \/ Device
    \/ Halted

\* The driver's code runs on; the device sees a notification in the end and
\* works through what it has found.
Fairness ==
    /\ WF_vars(Request)
    /\ WF_vars(Wake)
    /\ WF_vars(Take)
    /\ WF_vars(Transfer)
    /\ WF_vars(Complete)

Spec == Init /\ [][Next]_vars /\ Fairness

-----------------------------------------------------------------------------
(* Properties.                                                             *)

\* While the ring has an entry the device has not taken, or the device works
\* on one, virtio_blk_cmd does not touch the descriptors it reuses for every
\* request, nor the caller its buffers.
DescriptorsStable ==
    [][device.last # avail.idx \/ device.work # NoRequest =>
         /\ UNCHANGED chain
         /\ memory' # memory => device.work # NoRequest /\ device'.data = "moved"]_vars

\* The transfer of a request is over: its used index is up, or about to be.
Served == used # original \/ device.data = "moved"

Blocks == INSTANCE BlockDevice WITH
    request <- IF call = NoRequest THEN NoRequest
               ELSE [type |-> call.type, sector |-> call.sector, buf |-> call.buf,
                     served |-> Served]

\* With the device running beside it, every virtio_blk_read_sector and
\* virtio_blk_write_sector is served once, for its own sector and buffer, and
\* before it returns.
BlockDeviceSpec == Blocks!Spec

\* The polling loop without a timeout ends, across the wrap of the 16-bit
\* indices too.
RequestsComplete == pc # "idle" ~> pc = "idle"
=============================================================================
