-------------------------- MODULE VirtioBlkProofs --------------------------
(***************************************************************************)
(* Theorems about VirtioBlk, for any number of sectors and buffers, any    *)
(* size of the queue and any width of the indices.                         *)
(***************************************************************************)
EXTENDS VirtioBlk, TLAPS

\* The three states of a published request: in the ring, at the device, done.
InRing ==
    /\ device.last # avail.idx /\ Inc(device.last) = avail.idx
    /\ used = original
    /\ device.work = NoRequest /\ device.data = "here"

AtDevice ==
    /\ device.last = avail.idx
    /\ used = original
    /\ device.work = call

Finished ==
    /\ device.last = avail.idx
    /\ used = Inc(original)
    /\ device.work = NoRequest /\ device.data = "here"

\* The device has nothing to do before the driver raises avail.idx.
Quiet ==
    /\ device.last = avail.idx
    /\ device.work = NoRequest /\ device.data = "here"

Protocol ==
    /\ pc = "idle" => call = NoRequest /\ Quiet
    /\ pc # "idle" => call \in Requests
    /\ pc \in {"fill", "ok", "slot", "publish"} => Quiet /\ used = original
    /\ pc \in {"ok", "slot", "publish", "notify", "poll"} => chain = call
    /\ pc \in {"notify", "poll"} => InRing \/ AtDevice \/ Finished

IInv == TypeOK /\ Protocol

-----------------------------------------------------------------------------
\* The 16-bit index never stays where it is when it is raised: this is what
\* the comparison with original_idx rests on.
LEMMA IncMoves ==
    ASSUME NEW i \in Indices
    PROVE  Inc(i) \in Indices /\ Inc(i) # i
  BY VirtioAssumption DEF Indices, Inc

LEMMA RequestsAreNot ==
    ASSUME NEW r \in Requests
    PROVE  r # NoRequest
  BY DEF Requests, NoRequest

LEMMA InitIInv == Init => IInv
  <1>1. 0 \in Indices
    BY VirtioAssumption DEF Indices
  <1>2. [i \in Slots |-> 0] \in [Slots -> {0}]
    OBVIOUS
  <1> SUFFICES ASSUME Init PROVE IInv
    OBVIOUS
  <1>3. avail \in [idx : Indices, ring : [Slots -> {0}]] /\ avail.idx = 0
    BY <1>1, <1>2 DEF Init
  <1>4. device \in [awake : BOOLEAN, last : Indices, work : Requests \cup {NoRequest},
                   data : {"here", "moved"}]
    BY <1>1 DEF Init
  <1>5. TypeOK
    BY <1>1, <1>3, <1>4 DEF Init, TypeOK
  <1>6. Protocol
    BY <1>3 DEF Init, Protocol, Quiet
  <1> QED BY <1>5, <1>6 DEF IInv

\* The steps of virtio_blk_init and the beginning of a request.
LEMMA CallIInv ==
    ASSUME IInv,
           \/ virtio_blk_driver_init \/ virtio_blk_feature_init
           \/ virtio_blk_queue_init \/ ReadBootSector
           \/ \E type \in {"in", "out"}, s \in Sectors, b \in Buffers : Call(type, s, b)
           \/ \E b \in Buffers, c \in Contents : Store(b, c)
           \/ Poll \/ Halted
    PROVE  IInv'
  <1> USE DEF IInv, Protocol, Quiet, InRing, AtDevice, Finished
  <1>1. CASE virtio_blk_driver_init
    BY <1>1 DEF virtio_blk_driver_init, TypeOK
  <1>2. CASE virtio_blk_feature_init
    BY <1>2 DEF virtio_blk_feature_init, TypeOK
  <1>3. CASE virtio_blk_queue_init
    BY <1>3 DEF virtio_blk_queue_init, TypeOK
  <1>4. CASE ReadBootSector
    <2>1. call' \in Requests
      BY <1>4, VirtioAssumption DEF ReadBootSector, Requests
    <2> QED BY <1>4, <2>1 DEF ReadBootSector, TypeOK
  <1>5. ASSUME NEW type \in {"in", "out"}, NEW s \in Sectors, NEW b \in Buffers,
               Call(type, s, b)
        PROVE  IInv'
    <2>1. call' \in Requests
      BY <1>5 DEF Call, Requests
    <2> QED BY <1>5, <2>1 DEF Call, TypeOK
  <1>6. ASSUME NEW b \in Buffers, NEW c \in Contents, Store(b, c)
        PROVE  IInv'
    BY <1>6 DEF Store, driver, TypeOK
  <1>7. CASE Poll \/ Halted
    BY <1>7, ZenonT(40) DEF Poll, Halted, vars, TypeOK
  <1> QED BY <1>1, <1>2, <1>3, <1>4, <1>5, <1>6, <1>7

\* The steps of virtio_blk_cmd and of the polling loop.
LEMMA RequestIInv ==
    ASSUME IInv, Request
    PROVE  IInv'
  <1> USE DEF IInv, Protocol, Quiet, InRing, AtDevice, Finished
  <1>1. CASE Fill
    BY <1>1 DEF Fill, TypeOK
  <1>2. CASE DriverOk
    BY <1>2 DEF DriverOk, TypeOK
  <1>3. CASE WriteSlot
    <2>1. avail' \in [idx : Indices, ring : [Slots -> {0}]] /\ avail'.idx = avail.idx
      BY <1>3 DEF WriteSlot, TypeOK
    <2> QED BY <1>3, <2>1 DEF WriteSlot, TypeOK
  <1>4. CASE Publish
    <2>1. /\ avail' \in [idx : Indices, ring : [Slots -> {0}]]
          /\ avail'.idx = Inc(avail.idx) /\ avail'.idx # avail.idx
      BY <1>4, IncMoves DEF Publish, TypeOK
    <2> QED BY <1>4, <2>1 DEF Publish, TypeOK
  <1>5. CASE Notify
    BY <1>5 DEF Notify, TypeOK
  <1>6. CASE Return
    <2>1. used # original /\ device.work = NoRequest
      BY <1>6, RequestsAreNot DEF Return, Completed
    <2>2. Quiet
      BY <1>6, <2>1 DEF Return
    <2>3. boot' \in {"probed", "driver", "features", "queue", "up", "halted"}
      BY <1>6 DEF Return, AfterReturn, TypeOK
    <2> QED BY <1>6, <2>2, <2>3 DEF Return, TypeOK
  <1> QED BY <1>1, <1>2, <1>3, <1>4, <1>5, <1>6 DEF Request

\* The steps of the device.
LEMMA DeviceIInv ==
    ASSUME IInv, Device
    PROVE  IInv'
  <1> USE DEF IInv, Protocol, Quiet, InRing, AtDevice, Finished
  <1>1. CASE Wake
    BY <1>1, ZenonT(40) DEF Wake, driver, TypeOK
  <1>2. CASE Take
    <2>1. pc \in {"notify", "poll"} /\ InRing /\ chain = call /\ call \in Requests
      BY <1>2, RequestsAreNot DEF Take, TypeOK
    <2>2. /\ device' = [device EXCEPT !.work = call, !.data = "here",
                                      !.last = Inc(device.last)]
          /\ Inc(device.last) \in Indices
      BY <1>2, <2>1, IncMoves DEF Take, TypeOK
    <2> QED BY <1>2, <2>1, <2>2 DEF Take, driver, TypeOK
  <1>3. CASE Transfer
    <2>1. device.work \in Requests
      BY <1>3 DEF Transfer, TypeOK
    <2>2. disk' \in [Sectors -> Contents] /\ memory' \in [Buffers -> Contents]
      BY <1>3, <2>1 DEF Transfer, Requests, TypeOK
    <2>3. pc \in {"notify", "poll"} /\ AtDevice
      BY <1>3 DEF Transfer, TypeOK
    <2> QED BY <1>3, <2>2, <2>3 DEF Transfer, driver, TypeOK
  <1>4. CASE Complete
    <2>1. pc \in {"notify", "poll"} /\ AtDevice
      BY <1>4 DEF Complete, TypeOK
    <2>2. used' = Inc(original) /\ used' \in Indices
      BY <1>4, <2>1, IncMoves DEF Complete, TypeOK
    <2> QED BY <1>4, <2>1, <2>2 DEF Complete, driver, TypeOK
  <1>5. CASE Sleep
    <2>1. /\ device' \in [awake : BOOLEAN, last : Indices,
                         work : Requests \cup {NoRequest}, data : {"here", "moved"}]
          /\ device'.last = device.last /\ device'.work = device.work
          /\ device'.data = device.data
      BY <1>5 DEF Sleep, TypeOK
    <2> QED BY <1>5, <2>1 DEF Sleep, driver, TypeOK
  <1> QED BY <1>1, <1>2, <1>3, <1>4, <1>5 DEF Device

LEMMA NextIInv ==
    ASSUME IInv, [Next]_vars
    PROVE  IInv'
  <1>1. CASE UNCHANGED vars
    BY <1>1 DEF vars, IInv, TypeOK, Protocol, Quiet, InRing, AtDevice, Finished
  <1> QED BY <1>1, CallIInv, RequestIInv, DeviceIInv DEF Next

-----------------------------------------------------------------------------
\* While a request is published, the driver is in virtio_blk_cmd's last step or
\* in the polling loop, and nothing there writes descriptors or buffers.
LEMMA StableStep ==
    ASSUME IInv, [Next]_vars,
           device.last # avail.idx \/ device.work # NoRequest
    PROVE  /\ UNCHANGED chain
           /\ memory' # memory => device.work # NoRequest /\ device'.data = "moved"
  <1>1. pc \in {"notify", "poll"}
    BY DEF IInv, TypeOK, Protocol, Quiet
  <1>2. CASE Request
    BY <1>1, <1>2 DEF Request, Fill, DriverOk, WriteSlot, Publish, Notify, Return
  <1>3. CASE Wake \/ Take \/ Complete \/ Sleep
    BY <1>3 DEF Wake, Take, Complete, Sleep, driver
  <1>4. CASE Transfer
    <2>1. device' = [device EXCEPT !.data = "moved"] /\ device.work # NoRequest
          /\ UNCHANGED chain
      BY <1>4 DEF Transfer, driver
    <2> QED BY <2>1 DEF IInv, TypeOK
  <1>5. CASE \/ virtio_blk_driver_init \/ virtio_blk_feature_init
             \/ virtio_blk_queue_init \/ Poll \/ Halted \/ UNCHANGED vars
    BY <1>5 DEF virtio_blk_driver_init, virtio_blk_feature_init,
                virtio_blk_queue_init, Poll, Halted, vars
  <1>6. ASSUME \/ ReadBootSector
               \/ \E type \in {"in", "out"}, s \in Sectors, b \in Buffers :
                     Call(type, s, b)
               \/ \E b \in Buffers, c \in Contents : Store(b, c)
        PROVE  FALSE
    BY <1>1, <1>6 DEF ReadBootSector, Call, Store
  <1> QED BY <1>2, <1>3, <1>4, <1>5, <1>6 DEF Next, Device

\* The state the refinement mapping gives to BlockDevice.
AbstractRequest ==
    IF call = NoRequest THEN NoRequest
    ELSE [type |-> call.type, sector |-> call.sector, buf |-> call.buf,
          served |-> Served]

\* Served is a truth value, also as a field of a record.
LEMMA ServedValue ==
    /\ Served => Served = TRUE
    /\ ~Served => Served = FALSE
  BY Zenon DEF Served

\* A step that leaves data, arguments and Served alone is a stutter.
LEMMA Stutters ==
    ASSUME UNCHANGED <<disk, memory, call>>, Served' = Served
    PROVE  UNCHANGED Blocks!vars
  BY Zenon DEF Blocks!vars, AbstractRequest

LEMMA InitBlocks == Init => Blocks!Init
  BY DEF Init, Blocks!Init

LEMMA CallBlocks ==
    ASSUME IInv, NEW type \in {"in", "out"}, NEW s \in Sectors, NEW b \in Buffers,
           pc = "idle", call' = [type |-> type, sector |-> s, buf |-> b],
           original' = used, UNCHANGED <<disk, memory, used, device>>
    PROVE  Blocks!Call(type, s, b)
  <1>1. call = NoRequest /\ ~Served'
    BY DEF IInv, Protocol, Quiet, Served
  <1>2. call' # NoRequest
    BY DEF NoRequest
  <1>3. Served' = FALSE
    BY <1>1, ServedValue
  <1>4. AbstractRequest' = [type |-> type, sector |-> s, buf |-> b, served |-> FALSE]
    BY <1>2, <1>3 DEF AbstractRequest
  <1>5. AbstractRequest = NoRequest
    BY <1>1 DEF AbstractRequest
  <1> QED BY <1>4, <1>5, Zenon DEF Blocks!Call, AbstractRequest

LEMMA ReturnBlocks ==
    ASSUME IInv, Return
    PROVE  Blocks!Return
  <1>1. call # NoRequest /\ call' = NoRequest /\ Served /\ UNCHANGED <<disk, memory>>
    BY RequestsAreNot DEF IInv, Protocol, Return, Completed, Served
  <1>2. AbstractRequest # NoRequest /\ AbstractRequest.served
    BY <1>1 DEF AbstractRequest, NoRequest
  <1>3. AbstractRequest' = NoRequest
    BY <1>1 DEF AbstractRequest
  <1> QED BY <1>1, <1>2, <1>3, Zenon DEF Blocks!Return, AbstractRequest

LEMMA TransferBlocks ==
    ASSUME IInv, Transfer
    PROVE  Blocks!Serve
  <1>1. pc \in {"notify", "poll"} /\ AtDevice /\ call \in Requests
    BY DEF IInv, TypeOK, Protocol, Quiet, InRing, Finished, Transfer
  <1>2. call # NoRequest /\ device.work = call /\ UNCHANGED call
    BY <1>1, RequestsAreNot DEF AtDevice, Transfer, driver
  <1>3. ~Served /\ Served'
    BY <1>1 DEF AtDevice, Served, Transfer, IInv, TypeOK
  <1>4. Served = FALSE /\ Served' = TRUE
    BY <1>3, ServedValue
  <1>5. AbstractRequest = [type |-> call.type, sector |-> call.sector,
                           buf |-> call.buf, served |-> FALSE]
    BY <1>2, <1>4 DEF AbstractRequest
  <1>6. AbstractRequest' = [AbstractRequest EXCEPT !.served = TRUE]
    <2>1. AbstractRequest' = [type |-> call.type, sector |-> call.sector,
                              buf |-> call.buf, served |-> TRUE]
      BY <1>2, <1>4 DEF AbstractRequest
    <2>2. ASSUME NEW f, NEW g,
                 AbstractRequest = [type |-> call.type, sector |-> call.sector,
                                    buf |-> call.buf, served |-> f]
          PROVE  [AbstractRequest EXCEPT !.served = g] =
                    [type |-> call.type, sector |-> call.sector,
                     buf |-> call.buf, served |-> g]
      BY <2>2
    <2> QED BY <1>5, <2>1, <2>2, Zenon
  <1>7. AbstractRequest # NoRequest /\ ~AbstractRequest.served
    BY <1>5 DEF NoRequest
  <1>8. /\ AbstractRequest.type = device.work.type
        /\ AbstractRequest.sector = device.work.sector
        /\ AbstractRequest.buf = device.work.buf
    BY <1>2, <1>5
  <1>9. \/ /\ AbstractRequest.type = "in"
           /\ memory' = [memory EXCEPT ![AbstractRequest.buf] =
                                            disk[AbstractRequest.sector]]
           /\ UNCHANGED disk
        \/ /\ AbstractRequest.type = "out"
           /\ disk' = [disk EXCEPT ![AbstractRequest.sector] =
                                        memory[AbstractRequest.buf]]
           /\ UNCHANGED memory
        \/ UNCHANGED <<disk, memory>>
    BY <1>8 DEF Transfer
  <1> QED BY <1>6, <1>7, <1>9, Zenon DEF Blocks!Serve, AbstractRequest

LEMMA StepBlocks ==
    ASSUME IInv, [Next]_vars
    PROVE  [Blocks!Next]_Blocks!vars
  <1>1. CASE \/ virtio_blk_driver_init \/ virtio_blk_feature_init
             \/ virtio_blk_queue_init \/ Poll \/ Halted \/ UNCHANGED vars
    <2>1. UNCHANGED <<disk, memory, call>> /\ UNCHANGED <<used, original, device>>
      BY <1>1 DEF virtio_blk_driver_init, virtio_blk_feature_init,
                  virtio_blk_queue_init, Poll, Halted, vars
    <2> QED BY <2>1, Stutters DEF Served
  <1>2. CASE ReadBootSector
    BY <1>2, CallBlocks, VirtioAssumption DEF ReadBootSector, Blocks!Next
  <1>3. ASSUME NEW type \in {"in", "out"}, NEW s \in Sectors, NEW b \in Buffers,
               Call(type, s, b)
        PROVE  Blocks!Next
    BY <1>3, CallBlocks DEF Call, Blocks!Next
  <1>4. ASSUME NEW b \in Buffers, NEW c \in Contents, Store(b, c)
        PROVE  Blocks!Next
    <2>1. call = NoRequest /\ UNCHANGED <<disk, call>>
      BY <1>4 DEF Store, driver, IInv, Protocol
    <2>2. Blocks!Store(b, c)
      BY <1>4, <2>1 DEF Store, Blocks!Store
    <2> QED BY <2>2 DEF Blocks!Next
  <1>5. CASE Fill \/ DriverOk \/ WriteSlot \/ Publish \/ Notify
    <2>1. UNCHANGED <<disk, memory, call>> /\ UNCHANGED <<used, original, device>>
      BY <1>5 DEF Fill, DriverOk, WriteSlot, Publish, Notify
    <2> QED BY <2>1, Stutters DEF Served
  <1>6. CASE Return
    BY <1>6, ReturnBlocks DEF Blocks!Next
  <1>7. CASE Wake \/ Sleep
    <2>1. UNCHANGED <<disk, memory, call>> /\ UNCHANGED <<used, original>>
      BY <1>7 DEF Wake, Sleep, driver
    <2>2. device'.data = device.data
      BY <1>7 DEF Wake, Sleep, IInv, TypeOK
    <2> QED BY <2>1, <2>2, Stutters DEF Served
  <1>8. CASE Take
    <2>1. pc \in {"notify", "poll"} /\ InRing
      BY <1>8 DEF Take, IInv, TypeOK, Protocol, Quiet, AtDevice, Finished
    <2>2. UNCHANGED <<disk, memory, call>> /\ UNCHANGED <<used, original>>
      BY <1>8 DEF Take, driver
    <2>3. device'.data = "here" /\ device.data = "here"
      BY <1>8, <2>1 DEF Take, InRing, IInv, TypeOK
    <2> QED BY <2>2, <2>3, Stutters DEF Served
  <1>9. CASE Transfer
    BY <1>9, TransferBlocks DEF Blocks!Next
  <1>10. CASE Complete
    <2>1. pc \in {"notify", "poll"} /\ AtDevice /\ device.data = "moved"
      BY <1>10, RequestsAreNot
        DEF Complete, IInv, TypeOK, Protocol, Quiet, InRing, Finished
    <2>2. UNCHANGED <<disk, memory, call>> /\ UNCHANGED original /\ used' # original
      BY <1>10, <2>1, IncMoves DEF Complete, driver, AtDevice, IInv, TypeOK
    <2>3. Served /\ Served'
      BY <2>1, <2>2 DEF Served
    <2> QED BY <2>2, <2>3, Stutters
  <1> QED BY <1>1, <1>2, <1>3, <1>4, <1>5, <1>6, <1>7, <1>8, <1>9, <1>10
        DEF Next, Request, Device

-----------------------------------------------------------------------------
\* Driver and device keep to the protocol of the ring: a published request is
\* in the ring, at the device, or finished, and never two of these.
THEOREM Invariance == Spec => []IInv
  <1>1. Init => IInv
    BY InitIInv
  <1>2. IInv /\ [Next]_vars => IInv'
    BY NextIInv
  <1> QED BY <1>1, <1>2, PTL DEF Spec

\* Types; the indices stay in the range of uint16_t.
THEOREM TypeCorrect == Spec => []TypeOK
  <1>1. IInv => TypeOK
    BY DEF IInv
  <1> QED BY <1>1, Invariance, PTL

\* virtio_blk_cmd never rewrites a request the device has not finished.
THEOREM DescriptorsAlwaysStable == Spec => DescriptorsStable
  <1>1. IInv /\ [Next]_vars =>
          [device.last # avail.idx \/ device.work # NoRequest =>
             /\ UNCHANGED chain
             /\ memory' # memory => device.work # NoRequest /\ device'.data = "moved"]_vars
    BY StableStep
  <1> QED BY <1>1, Invariance, PTL DEF Spec, DescriptorsStable

\* virtio_blk_read_sector and virtio_blk_write_sector, with the device beside
\* them, implement a device that serves one request at a time.
THEOREM ImplementsBlockDevice == Spec => BlockDeviceSpec
  <1>1. Init => Blocks!Init
    BY InitBlocks
  <1>2. IInv /\ [Next]_vars => [Blocks!Next]_Blocks!vars
    BY StepBlocks
  <1> QED BY <1>1, <1>2, Invariance, PTL DEF Spec, BlockDeviceSpec, Blocks!Spec
=============================================================================
