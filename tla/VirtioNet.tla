------------------------------ MODULE VirtioNet -----------------------------
(***************************************************************************)
(* The virtio network driver of kernel/virtio.c and the device it talks    *)
(* to: init_virtio() finds the device, negotiates, lays the two virtqueues *)
(* out in memory and then calls send_packet() and receive_packet().  The   *)
(* device (external) uses the rings on its own as soon as DRIVER_OK is     *)
(* set, between any two steps of the driver.                               *)
(***************************************************************************)
EXTENDS Integers, Sequences, FiniteSets

CONSTANTS
  Messages, Frames,    \* what is sent, what the network delivers
  Calls,               \* the calls init_virtio() makes, in order
  QueueSize,           \* what is read as the size of the tx queue, a u16
  NRxBuffers,          \* N_RX_BUFFERS
  Slots                \* the PCI functions find_virtio_net() probes

None  == <<"no frame">>
Sends == {k \in 1 .. Len(Calls) : Calls[k] = "send"}

WordMax == 65535
Words   == 0 .. WordMax     \* u16
ASSUME QueueAssumption ==
  /\ QueueSize \in Words /\ NRxBuffers \in Nat \ {0}
  /\ Calls \in Seq({"send", "receive"})
ASSUME FrameAssumption == None \notin Frames
\* Slots in the order they are probed: of any of them one is probed last.
ASSUME SlotAssumption ==
  /\ 0 \in Slots /\ Slots \subseteq Nat
  /\ \A S \in SUBSET Slots : S # {} => \E s \in S : \A t \in S : t <= s

Queues   == {"rx", "tx"}
Ids      == 0 .. QueueSize-1
RxIds    == 0 .. NRxBuffers-1
Rx(d)    == <<"rx_buffer", d>>
Tx       == <<"tx_buffer", 0>>
Nowhere  == <<"address", 0>>
Buffers  == {Rx(d) : d \in RxIds} \union {Tx}

\* Room for every rx buffer: the code never compares the two numbers.
Fits == NRxBuffers <= QueueSize

VARIABLES
  pc, i,               \* the driver's place, and its loop variable
  call,                \* the next of Calls
  local,               \* its other locals: slot, message, at, todo, idx
  receive_head,
  vq,                  \* vq[q]: the memory of virtqueue q
  mem,                 \* contents of the buffers
  reg,                 \* PCI and device registers
  dev,                 \* the device's own state
  posted, wire, arrived, shown    \* see PacketPort

driver == <<i, call, local, receive_head>>
link   == <<posted, wire, arrived, shown>>
vars   == <<pc, driver, vq, mem, reg, dev, link>>

-----------------------------------------------------------------------------
\* Where the used ring starts: ALIGN() for the driver; for the device the first
\* page boundary not before the end of the available ring.
Page == 4096
AlignDown(x)  == x - (x % Page)
Align(x)      == AlignDown(x + Page)
AvailEnd(n)   == 16 * n + 2 * (3 + n)
UsedOffset(n) == Align(AvailEnd(n))
RingStart(n)  == 16 * n + 4
DeviceUsedOffset(n) == ((AvailEnd(n) + Page - 1) \div Page) * Page

\* used.idx as the driver reads it: outside the used ring memory is still zero.
SeenUsedIdx(q) ==
  IF UsedOffset(QueueSize) = DeviceUsedOffset(QueueSize) THEN vq[q].used_idx ELSE 0

\* send_packet() never reduces the available index: beyond QueueSize it writes
\* behind the ring, into padding as long as it does not reach the used ring.
RingSlots == 0 .. (DeviceUsedOffset(QueueSize) - RingStart(QueueSize)) \div 2 - 1
ASSUME SendsAssumption ==
  Cardinality(Sends) \in Words /\ 0 .. Cardinality(Sends) - 1 \subseteq RingSlots

\* table[k] = e, in memory that does not end where the table does; and a u16's ++.
Stored(table, k, e) ==
  [n \in DOMAIN table \union {k} |-> IF n = k THEN e ELSE table[n]]
Succ(n) == (n + 1) % (WordMax + 1)

-----------------------------------------------------------------------------
Memory(n) ==
  [desc |-> [d \in Ids |-> Nowhere], ring |-> [k \in Ids |-> 0], avail_idx |-> n,
   used |-> [k \in Ids |-> 0], used_idx |-> n]

\* What answers at a slot: its ids and bit 0 of its BAR 0.  All ones, which is
\* read where nothing answers, are the ids of another function with that bit set.
Functions == [id : {"virtio_net", "other"}, io : BOOLEAN]

Init ==
  /\ pc = "find" /\ i = 0 /\ call = 1 /\ receive_head = 0
  /\ local = [slot |-> 0, message |-> None, at |-> 0, todo |-> {}, idx |-> 0]
  /\ \E garbage \in 0 .. 1 : vq = [q \in Queues |-> Memory(garbage)]
  /\ mem = [b \in Buffers \union {Nowhere} |-> None]
  /\ \E pci \in [Slots -> Functions], offered \in SUBSET {"MAC", "CSUM"},
        rx_size \in {QueueSize, QueueSize \div 2} :
       reg = [pci |-> pci, offered |-> offered, rx_size |-> rx_size,
              status |-> {}, queue_addr |-> {}]
  /\ dev = [last |-> [q \in Queues |-> 0], pending |-> None, kicked |-> FALSE]
  /\ posted = << >> /\ wire = << >> /\ arrived = << >> /\ shown = << >>

\* ASSERT(): a failing one spins forever.
Asserted(cond, next) == pc' = IF cond THEN next ELSE "assert"

\* The last matching function wins; without one the numbers stay 0:0.0.
Matches == {s \in Slots : reg.pci[s].id = "virtio_net"}
Found   == {s \in Matches : \A t \in Matches : t <= s}

Find ==
  /\ pc = "find"
  /\ local' = [local EXCEPT !.slot = IF Found = {} THEN 0 ELSE CHOOSE s \in Found : TRUE]
  /\ pc' = "bar0"
  /\ UNCHANGED <<i, call, receive_head, vq, mem, reg, dev, link>>

\* All that is tested of the function at bus:dev, which may be another one's 0:0.
IsIoSpace   == reg.pci[local.slot].io
IsVirtioNet == reg.pci[local.slot].id = "virtio_net"

Bar0 ==
  /\ pc = "bar0"
  /\ Asserted(IsIoSpace, "acknowledge")
  /\ UNCHANGED <<driver, vq, mem, reg, dev, link>>

SetStatus(from, bit, to) ==
  /\ pc = from
  /\ reg' = [reg EXCEPT !.status = @ \union {bit}]
  /\ pc' = to
  /\ UNCHANGED <<driver, vq, mem, dev, link>>

Acknowledge == SetStatus("acknowledge", "ACKNOWLEDGE", "driver")
Driver      == SetStatus("driver", "DRIVER", "features")

Features ==
  /\ pc = "features"
  /\ Asserted("MAC" \in reg.offered, "features_ok")
  /\ UNCHANGED <<driver, vq, mem, reg, dev, link>>

\* The driver asks for MAC and CSUM, offered or not.  The device may leave
\* FEATURES_OK clear when it is asked for what it did not offer; the ports of
\* another function may answer anything.
Wanted == {"MAC", "CSUM"}
FeaturesOk ==
  \/ SetStatus("features_ok", "FEATURES_OK", "check")
  \/ /\ pc = "features_ok" /\ (IsVirtioNet => ~(Wanted \subseteq reg.offered))
     /\ pc' = "check"
     /\ UNCHANGED <<driver, vq, mem, reg, dev, link>>

Unchecked == TRUE
Accepted  == "FEATURES_OK" \in reg.status

Check ==
  /\ pc = "check"
  /\ Asserted(Accepted, "tx_queue")
  /\ UNCHANGED <<driver, vq, mem, reg, dev, link>>

RegisterTx ==
  /\ pc = "tx_queue"
  /\ reg' = [reg EXCEPT !.queue_addr = @ \union {"tx"}]
  /\ pc' = "rx_queue"
  /\ UNCHANGED <<driver, vq, mem, dev, link>>

RegisterRx ==
  /\ pc = "rx_queue"
  /\ Asserted(reg.rx_size = QueueSize, "zero")
  /\ reg' = IF reg.rx_size = QueueSize THEN [reg EXCEPT !.queue_addr = @ \union {"rx"}] ELSE reg
  /\ UNCHANGED <<driver, vq, mem, dev, link>>

NotZeroed(queues) == queues
Zeroed(queues)    == [q \in Queues |-> Memory(0)]

Zero ==
  /\ pc = "zero"
  /\ vq' = Zeroed(vq)
  /\ pc' = "avail"
  /\ i' = 0
  /\ UNCHANGED <<call, local, receive_head, mem, reg, dev, link>>

\* for (i = 0; i < N_RX_BUFFERS; i++): the loop body, or its end.
TooMany == i + 1 <= NRxBuffers
More    == i + 1 < NRxBuffers
Loop(here, next) ==
  /\ pc = here
  /\ IF More THEN i' = i + 1 /\ pc' = here ELSE i' = 0 /\ pc' = next
  /\ UNCHANGED <<call, local, receive_head, mem, reg, dev, link>>

OfferBuffer ==
  /\ Loop("avail", "descs")
  /\ vq' = [vq EXCEPT !["rx"].ring = Stored(@, vq["rx"].avail_idx, i),
                      !["rx"].avail_idx = Succ(@)]

SameBuffer(d) == Rx(0)
RxBuffer(d)   == Rx(d)

DescribeBuffer ==
  /\ Loop("descs", "driver_ok")
  /\ vq' = [vq EXCEPT !["rx"].desc = Stored(@, i, RxBuffer(i))]

DriverOk == SetStatus("driver_ok", "DRIVER_OK", "call")

-----------------------------------------------------------------------------
Return == call' = call + 1 /\ pc' = "call"

\* "Sending one packet is enough, so the used queue is not handled": a caller
\* (external) that sends again has to wait itself until tx_buffer is free.
TxFree == SeenUsedIdx("tx") = vq["tx"].avail_idx

Call ==
  /\ pc = "call" /\ call <= Len(Calls)
  /\ Calls[call] = "send" => TxFree
  /\ pc' = IF Calls[call] = "send" THEN "fill" ELSE "poll"
  /\ UNCHANGED <<driver, vq, mem, reg, dev, link>>

Fill(m) ==             \* send_packet(): header and data
  /\ pc = "fill"
  /\ mem' = [mem EXCEPT ![Tx] = m]
  /\ local' = [local EXCEPT !.message = m]
  /\ pc' = "describe"
  /\ UNCHANGED <<i, call, receive_head, vq, reg, dev, link>>

PostUndescribed(queue) == queue
Described(queue) == [queue EXCEPT !.desc = Stored(@, 0, Tx)]

Describe ==
  /\ pc = "describe"
  /\ vq' = [vq EXCEPT !["tx"] = Described(@)]
  /\ local' = [local EXCEPT !.at = vq["tx"].avail_idx, !.todo = {"ring", "idx"}]
  /\ pc' = "post"
  /\ UNCHANGED <<i, call, receive_head, mem, reg, dev, link>>

\* ring[idx++] = 0: C leaves the order of the two stores open.
Entry(queue, at) == [queue EXCEPT !.ring = Stored(@, at, 0)]

StoreRing ==
  /\ pc = "post" /\ "ring" \in local.todo
  /\ vq' = [vq EXCEPT !["tx"] = Entry(@, local.at)]
  /\ local' = [local EXCEPT !.todo = @ \ {"ring"}]
  /\ UNCHANGED <<pc, i, call, receive_head, mem, reg, dev, link>>

StoreIdx ==
  /\ pc = "post" /\ "idx" \in local.todo
  /\ vq' = [vq EXCEPT !["tx"].avail_idx = Succ(local.at)]
  /\ local' = [local EXCEPT !.todo = @ \ {"idx"}]
  /\ posted' = Append(posted, local.message)
  /\ UNCHANGED <<pc, i, call, receive_head, mem, reg, dev, wire, arrived, shown>>

Notify ==
  /\ pc = "post" /\ local.todo = {}
  /\ dev' = [dev EXCEPT !.kicked = TRUE]
  /\ Return
  /\ UNCHANGED <<i, local, receive_head, vq, mem, reg, link>>

\* receive_packet() reads used.idx twice: to leave the polling loop, and again
\* as the bound of the frames it prints.
Poll ==
  /\ pc = "poll" /\ SeenUsedIdx("rx") # receive_head
  /\ pc' = "latch"
  /\ UNCHANGED <<driver, vq, mem, reg, dev, link>>

Latch ==
  /\ pc = "latch"
  /\ local' = [local EXCEPT !.idx = SeenUsedIdx("rx")]
  /\ i' = receive_head
  /\ pc' = "show"
  /\ UNCHANGED <<call, receive_head, vq, mem, reg, dev, link>>

ShowFrame ==
  /\ pc = "show" /\ i < local.idx
  /\ shown' = Append(shown, mem[vq["rx"].desc[vq["rx"].used[i % QueueSize]]])
  /\ i' = i + 1
  /\ UNCHANGED <<pc, call, local, receive_head, vq, mem, reg, dev, posted, wire, arrived>>

HeadFromRing == SeenUsedIdx("rx")
NewHead      == local.idx

EndReceive ==
  /\ pc = "show" /\ i >= local.idx
  /\ receive_head' = NewHead
  /\ Return
  /\ UNCHANGED <<i, local, vq, mem, reg, dev, link>>

DriverStep ==
  \/ Find \/ Bar0 \/ Acknowledge \/ Driver \/ Features \/ FeaturesOk \/ Check
  \/ RegisterTx \/ RegisterRx \/ Zero \/ OfferBuffer \/ DescribeBuffer \/ DriverOk
  \/ Call \/ (\E m \in Messages : Fill(m)) \/ Describe \/ StoreRing \/ StoreIdx \/ Notify
  \/ Poll \/ Latch \/ ShowFrame \/ EndReceive

-----------------------------------------------------------------------------
\* The device.  It takes the available entries of a queue in order, from the
\* first one on, and publishes a used entry once the buffer is dealt with.
Available(q) ==
  /\ IsVirtioNet /\ "DRIVER_OK" \in reg.status /\ q \in reg.queue_addr
  /\ dev.last[q] # vq[q].avail_idx

NextId(q) == vq[q].ring[dev.last[q] % QueueSize]
Used(q)   == [vq[q] EXCEPT !.used[vq[q].used_idx % QueueSize] = NextId(q)]

Deliver(f) ==          \* a frame from the network, into the next buffer
  /\ Available("rx") /\ dev.pending = None
  /\ mem' = [mem EXCEPT ![vq["rx"].desc[NextId("rx")]] = f]
  /\ vq' = [vq EXCEPT !["rx"] = Used("rx")]
  /\ dev' = [dev EXCEPT !.last["rx"] = Succ(@), !.pending = f]
  /\ UNCHANGED <<pc, driver, reg, link>>

Publish ==
  /\ dev.pending # None
  /\ vq' = [vq EXCEPT !["rx"].used_idx = Succ(@)]
  /\ dev' = [dev EXCEPT !.pending = None]
  /\ arrived' = Append(arrived, dev.pending)
  /\ UNCHANGED <<pc, driver, mem, reg, posted, wire, shown>>

Transmit ==
  /\ Available("tx")
  /\ wire' = Append(wire, mem[vq["tx"].desc[NextId("tx")]])
  /\ vq' = [vq EXCEPT !["tx"] = [Used("tx") EXCEPT !.used_idx = Succ(@)]]
  /\ dev' = [dev EXCEPT !.last["tx"] = Succ(@)]
  /\ UNCHANGED <<pc, driver, mem, reg, posted, arrived, shown>>

Next == DriverStep \/ (\E f \in Frames : Deliver(f)) \/ Publish \/ Transmit

\* The driver has the processor to itself, and a device finishes what it has
\* begun; it need not look at the tx queue before it is notified.
Spec ==
  /\ Init /\ [][Next]_vars
  /\ WF_vars(DriverStep) /\ WF_vars(Publish) /\ WF_vars(dev.kicked /\ Transmit)

-----------------------------------------------------------------------------
\* Types, and where stores may land: descriptors only in the descriptor table,
\* entries of the available ring only in front of the used ring.
TypeOK ==
  /\ i \in 0 .. NRxBuffers /\ receive_head \in 0 .. NRxBuffers
  /\ call \in 1 .. Len(Calls) + 1
  /\ local \in [slot : Slots, message : Messages \union {None}, at : Words,
                todo : SUBSET {"ring", "idx"}, idx : 0 .. NRxBuffers]
  /\ \A q \in Queues :
       /\ vq[q].desc \in [Ids -> Buffers \union {Nowhere}]
       /\ Ids \subseteq DOMAIN vq[q].ring /\ DOMAIN vq[q].ring \subseteq RingSlots
       /\ \A k \in DOMAIN vq[q].ring : vq[q].ring[k] \in Ids
       /\ vq[q].used \in [Ids -> Ids]
       /\ vq[q].avail_idx \in Words /\ vq[q].used_idx \in Words
  /\ mem \in [Buffers \union {Nowhere} -> Messages \union Frames \union {None}]
  /\ reg.status \subseteq {"ACKNOWLEDGE", "DRIVER", "FEATURES_OK", "DRIVER_OK"}
  /\ reg.queue_addr \subseteq Queues
  /\ dev \in [last : [Queues -> Words], pending : Frames \union {None}, kicked : BOOLEAN]

\* What has DRIVER_OK set has an I/O BAR, has a MAC address, accepted the
\* features, and has both queues of the size the driver laid them out for.  It is
\* a virtio-net device if there is one: without one the driver goes on with 0:0.
Negotiated ==
  "DRIVER_OK" \in reg.status =>
    /\ IsIoSpace /\ (Matches # {} => IsVirtioNet)
    /\ "MAC" \in reg.offered /\ "FEATURES_OK" \in reg.status
    /\ reg.rx_size = QueueSize /\ reg.queue_addr = Queues

\* The device never touches memory through a descriptor that was not set up:
\* it is notified of the rx buffers before they are described, and it finds
\* garbage in the rings until they are zeroed, but starts only at DRIVER_OK.
NoStrayDma == \A q \in Queues :
  Available(q) => vq[q].desc[NextId(q)] \in (IF q = "tx" THEN {Tx} ELSE Buffers \ {Tx})

\* No frame that is still to be printed is overwritten, however far the device
\* runs ahead of receive_packet().
UnreadIntact == "DRIVER_OK" \in reg.status =>
  \A k \in receive_head .. vq["rx"].used_idx - 1 :
    mem[vq["rx"].desc[vq["rx"].used[k % QueueSize]]] = arrived[k+1]

\* The device never has more frames in the ring than buffers were offered, so
\* the 16-bit used.idx never wraps and receive_head (an int) can be compared
\* with it.
NoWrap == receive_head <= vq["rx"].used_idx /\ vq["rx"].used_idx <= NRxBuffers

\* receive_packet() returns once a frame arrives.
ReceiveReturns ==
  (pc = "poll" /\ vq["rx"].used_idx > receive_head) ~> (pc = "call" /\ shown # << >>)

\* send_packet() and receive_packet() keep PacketPort's promise.
Port == INSTANCE PacketPort WITH Capacity <- NRxBuffers, linked <- (Matches # {})
PortSpec == Port!Spec
=============================================================================
