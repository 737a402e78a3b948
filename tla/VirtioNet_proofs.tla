-------------------------- MODULE VirtioNet_proofs --------------------------
(***************************************************************************)
(* What VirtioNet keeps for every sequence of calls and, apart from the    *)
(* negotiation, every queue with room for the rx buffers:                  *)
(* types, the negotiation, no DMA through a descriptor that was not set    *)
(* up, no frame overwritten before it is printed, and that every step is a *)
(* step of PacketPort or changes nothing there.                            *)
(***************************************************************************)
EXTENDS VirtioNet, SequenceTheorems, FiniteSetTheorems, TLAPS

Early    == {"find", "bar0", "acknowledge", "driver", "features", "features_ok", "check",
             "tx_queue", "rx_queue", "zero"}
Laid     == {"avail", "descs", "driver_ok"}
Sending  == {"fill", "describe", "post"}
Receives == {"poll", "latch", "show"}
Running  == {"call"} \union Sending \union Receives

rx == vq["rx"]
tx == vq["tx"]

\* What each step of the negotiation has established for the ones behind it.
ToFeatures == {"find", "bar0", "acknowledge", "driver", "features", "assert"}
ToCheck    == ToFeatures \union {"features_ok", "check"}

Handshake ==
  /\ pc \in Early \union Laid \union Running \union {"assert"}
  /\ pc # "find" => (Matches # {} => IsVirtioNet)
  /\ pc \notin {"find", "bar0", "assert"} => IsIoSpace
  /\ pc \notin ToFeatures => "MAC" \in reg.offered
  /\ pc \notin ToCheck => "FEATURES_OK" \in reg.status
  /\ pc \notin ToCheck \union {"tx_queue"} => "tx" \in reg.queue_addr
  /\ pc \in {"zero"} \union Laid \union Running =>
       reg.rx_size = QueueSize /\ "rx" \in reg.queue_addr
  /\ "DRIVER_OK" \in reg.status <=> pc \in Running

Ready == "DRIVER_OK" \in reg.status

\* Nothing has happened on the device's side before DRIVER_OK.
Quiet ==
  ~Ready =>
    /\ dev.last["rx"] = 0 /\ dev.last["tx"] = 0 /\ dev.pending = None
    /\ receive_head = 0 /\ call = 1
    /\ posted = << >> /\ wire = << >> /\ arrived = << >> /\ shown = << >>

\* Entry k of both rings and descriptor k are rx buffer k; the device has dealt
\* with those below last, the newest of them perhaps not yet published.
Offered   == IF pc = "avail" THEN i ELSE NRxBuffers
Describes == IF pc = "avail" THEN 0 ELSE IF pc = "descs" THEN i ELSE NRxBuffers

RxInv ==
  pc \in Laid \union Running =>
    /\ pc \in {"avail", "descs"} => i < NRxBuffers
    /\ rx.avail_idx = Offered
    /\ \A k \in 0 .. Offered-1 : rx.ring[k] = k
    /\ \A k \in 0 .. Describes-1 : rx.desc[k] = Rx(k)
    /\ dev.last["rx"] = rx.used_idx + (IF dev.pending = None THEN 0 ELSE 1)
    /\ dev.last["rx"] <= NRxBuffers
    /\ \A k \in 0 .. dev.last["rx"]-1 : rx.used[k] = k

FramesInv ==
  pc \in Laid \union Running =>
    /\ Len(arrived) = rx.used_idx
    /\ \A k \in 0 .. rx.used_idx-1 : mem[Rx(k)] = arrived[k+1]
    /\ dev.pending # None => mem[Rx(rx.used_idx)] = dev.pending

HeadInv ==
  /\ pc \in Early \union {"assert"} => rx.used_idx <= 1
  /\ receive_head <= SeenUsedIdx("rx")
  /\ pc = "show" => i \in receive_head .. local.idx /\ local.idx <= SeenUsedIdx("rx")
  /\ Len(shown) = IF pc = "show" THEN i ELSE receive_head

\* Every message handed over was asked for by a call, so that there are no more
\* of them than the available ring and the 16-bit indices have room for.
SendsBefore(c) == {k \in Sends : k < c}
Handed == IF pc = "post" /\ "idx" \notin local.todo THEN 1 ELSE 0

CallsInv ==
  pc \in Running =>
    /\ Len(posted) = Cardinality(SendsBefore(call)) + Handed
    /\ pc \in Sending => call \in Sends
    /\ pc \in Receives => call \in 1 .. Len(Calls) /\ call \notin Sends

\* Every entry of the tx ring means descriptor 0.  While a message is prepared
\* the device has sent all there were before.
TxInv ==
  pc \in Laid \union Running =>
    /\ \A k \in Ids : tx.ring[k] = 0
    /\ tx.avail_idx = Len(posted) /\ dev.last["tx"] = Len(wire)
    /\ tx.used_idx = Len(wire)
    /\ Len(wire) \in {Len(posted), Len(posted) - 1}
    /\ Len(wire) < Len(posted) => posted[Len(posted)] = mem[Tx]
    /\ Len(posted) > 0 \/ pc = "post" => tx.desc[0] = Tx
    /\ pc \in {"fill", "describe"} => Len(wire) = Len(posted)
    /\ pc \in {"describe", "post"} => local.message = mem[Tx]
    /\ pc = "post" /\ "idx" \in local.todo => Len(wire) = Len(posted)
    /\ pc = "post" => local.at = Len(posted) - Handed

Locals ==
  [slot : Slots, message : Messages \union {None}, at : Words,
   todo : SUBSET {"ring", "idx"}, idx : 0 .. NRxBuffers]

RegTypes ==
  reg \in [pci : [Slots -> Functions], offered : SUBSET {"MAC", "CSUM"},
           rx_size : Nat, queue_addr : SUBSET Queues,
           status : SUBSET {"ACKNOWLEDGE", "DRIVER", "FEATURES_OK", "DRIVER_OK"}]

\* TypeOK, with the rings as functions whose domain may grow into the padding.
Rings == UNION {[S -> Ids] : S \in {T \in SUBSET RingSlots : Ids \subseteq T}}
Queue ==
  [desc : [Ids -> Buffers \union {Nowhere}], ring : Rings, avail_idx : Words,
   used : [Ids -> Ids], used_idx : Words]

Typed ==
  /\ i \in 0 .. NRxBuffers /\ receive_head \in 0 .. NRxBuffers
  /\ call \in 1 .. Len(Calls) + 1 /\ local \in Locals
  /\ vq \in [Queues -> Queue]
  /\ mem \in [Buffers \union {Nowhere} -> Messages \union Frames \union {None}]
  /\ reg.status \subseteq {"ACKNOWLEDGE", "DRIVER", "FEATURES_OK", "DRIVER_OK"}
  /\ reg.queue_addr \subseteq Queues
  /\ dev \in [last : [Queues -> Words], pending : Frames \union {None}, kicked : BOOLEAN]

LinkTypes ==
  /\ posted \in Seq(Messages) /\ wire \in Seq(Messages)
  /\ arrived \in Seq(Frames) /\ shown \in Seq(Frames)
  /\ RegTypes
  /\ pc \in {"describe", "post"} => local.message \in Messages

\* Only a virtio-net device ever has a frame in hand.
PendingInv == dev.pending # None => Matches # {}

IInv ==
  /\ Typed /\ LinkTypes /\ Handshake /\ Quiet /\ RxInv /\ FramesInv /\ HeadInv /\ TxInv
  /\ CallsInv /\ PendingInv

-----------------------------------------------------------------------------
LEMMA WordNat == WordMax \in Nat /\ WordMax >= 1
BY DEF WordMax

LEMMA Small ==
  ASSUME Fits
  PROVE  /\ QueueSize \in Nat \ {0} /\ NRxBuffers \in 1 .. QueueSize /\ RxIds \subseteq Ids
         /\ QueueSize \in Words
BY QueueAssumption, WordNat DEF Fits, RxIds, Ids, Words

LEMMA ModType == ASSUME Fits PROVE \A n \in Nat : n % QueueSize \in Ids
BY Small DEF Ids

LEMMA ModSame == ASSUME Fits PROVE \A n \in Ids : n % QueueSize = n
BY Small DEF Ids

LEMMA WordsNat ==
  Words \subseteq Nat /\ \A m \in Words : \A n \in Nat : n <= m => n \in Words
<1>1. ASSUME NEW m \in Words, NEW n \in Nat, n <= m
      PROVE  n \in Words
  BY <1>1, WordNat DEF Words
<1>2. Words \subseteq Nat
  BY WordNat DEF Words
<1> QED
  BY <1>1, <1>2

LEMMA SuccSame == \A n \in Nat : n + 1 \in Words => Succ(n) = n + 1
BY WordNat DEF Succ, Words

\* The available ring ends before the used ring begins.
LEMMA RingFits == ASSUME Fits PROVE Ids \subseteq RingSlots
<1>1. SUFFICES ASSUME NEW k \in Ids PROVE k \in RingSlots
  OBVIOUS
<1>2. /\ k \in Int /\ 0 <= k /\ k < QueueSize /\ QueueSize \in Nat
  BY <1>1, Small DEF Ids
<1>3. DeviceUsedOffset(QueueSize) >= 18 * QueueSize + 6 /\ DeviceUsedOffset(QueueSize) \in Nat
  BY <1>2 DEF DeviceUsedOffset, AvailEnd, Page
<1> QED
  BY <1>2, <1>3 DEF RingSlots, RingStart

\* A store inside the descriptor table is an ordinary one.
LEMMA StoredDesc ==
  ASSUME NEW f \in [Ids -> Buffers \union {Nowhere}], NEW k \in Ids, NEW e \in Buffers
  PROVE  Stored(f, k, e) = [f EXCEPT ![k] = e]
<1>1. DOMAIN f = Ids /\ Ids \union {k} = Ids
  OBVIOUS
<1>2. Stored(f, k, e) = [n \in Ids |-> IF n = k THEN e ELSE f[n]]
  BY <1>1 DEF Stored
<1> QED
  BY <1>1, <1>2

\* A store in front of the used ring leaves a ring of the kind described.
LEMMA StoredRing ==
  ASSUME NEW r \in Rings, NEW k \in RingSlots, NEW e \in Ids
  PROVE  /\ Stored(r, k, e) \in Rings /\ Stored(r, k, e)[k] = e
         /\ \A j \in Ids : Stored(r, k, e)[j] = IF j = k THEN e ELSE r[j]
<1>1. PICK S \in SUBSET RingSlots : Ids \subseteq S /\ r \in [S -> Ids]
  BY DEF Rings
<1>2. Stored(r, k, e) \in [S \union {k} -> Ids]
  BY <1>1 DEF Stored
<1>3. S \union {k} \in SUBSET RingSlots /\ Ids \subseteq S \union {k}
  BY <1>1
<1>4. Stored(r, k, e) \in Rings
  BY <1>2, <1>3 DEF Rings
<1> QED
  BY <1>1, <1>4 DEF Stored

\* What the driver reads of used.idx is what the device wrote, or 0 for ever.
LEMMA Seen ==
  ASSUME Typed, NEW q \in Queues
  PROVE  SeenUsedIdx(q) \in {0, vq[q].used_idx} /\ SeenUsedIdx(q) \in Nat
BY WordsNat DEF SeenUsedIdx, Typed, Queue

LEMMA Counted ==
  /\ Sends \subseteq 1 .. Len(Calls) /\ Len(Calls) \in Nat /\ IsFiniteSet(Sends)
  /\ Cardinality(Sends) \in Nat /\ SendsBefore(1) = {} /\ Cardinality(SendsBefore(1)) = 0
<1>1. Len(Calls) \in Nat /\ Sends \subseteq 1 .. Len(Calls)
  BY QueueAssumption DEF Sends
<1>2. IsFiniteSet(Sends)
  <2>1. IsFiniteSet(1 .. Len(Calls))
    BY <1>1, FS_Interval
  <2> QED
    BY <1>1, <2>1, FS_Subset
<1>3. SendsBefore(1) = {}
  <2>1. \A k \in Sends : ~(k < 1)
    BY <1>1
  <2> QED
    BY <2>1 DEF SendsBefore
<1> QED
  BY <1>1, <1>2, <1>3, FS_CardinalityType, FS_EmptySet

\* Before a call that sends there was room for one message more.
LEMMA SendCounted ==
  ASSUME NEW c \in Sends
  PROVE  /\ Cardinality(SendsBefore(c)) \in Nat
         /\ Cardinality(SendsBefore(c + 1)) = Cardinality(SendsBefore(c)) + 1
         /\ Cardinality(SendsBefore(c)) < Cardinality(Sends)
<1>1. c \in Nat /\ \A k \in Sends : k \in Nat
  BY Counted
<1>2. SendsBefore(c + 1) = SendsBefore(c) \union {c} /\ c \notin SendsBefore(c)
  <2>1. ~(c < c) /\ \A k \in Sends : k < c + 1 <=> k < c \/ k = c
    BY <1>1
  <2> QED
    BY <2>1 DEF SendsBefore
<1>3. /\ SendsBefore(c) \subseteq Sends /\ SendsBefore(c + 1) \subseteq Sends
  BY DEF SendsBefore
<1>4. IsFiniteSet(SendsBefore(c)) /\ IsFiniteSet(SendsBefore(c + 1))
  BY <1>3, Counted, FS_Subset
<1>5. /\ Cardinality(SendsBefore(c)) \in Nat
      /\ Cardinality(SendsBefore(c + 1)) = Cardinality(SendsBefore(c)) + 1
  BY <1>2, <1>4, FS_CardinalityType, FS_AddElement
<1>6. Cardinality(SendsBefore(c + 1)) <= Cardinality(Sends)
  BY <1>3, Counted, FS_Subset
<1> QED
  BY <1>5, <1>6, Counted

LEMMA ReceiveCounted ==
  ASSUME NEW c \in Nat, c \notin Sends
  PROVE  SendsBefore(c + 1) = SendsBefore(c)
<1>1. \A k \in Sends : k \in Nat /\ k # c
  BY Counted
<1>2. \A k \in Sends : k < c + 1 <=> k < c
  BY <1>1
<1> QED
  BY <1>2 DEF SendsBefore

LEMMA QueueTypes == Typed => rx \in Queue /\ tx \in Queue
BY DEF rx, tx, Queues, Typed

LEMMA IndexNat ==
  ASSUME Typed
  PROVE  /\ rx.used_idx \in Nat /\ tx.used_idx \in Nat
         /\ dev.last["rx"] \in Nat /\ dev.last["tx"] \in Nat /\ receive_head \in Nat
<1>1. rx.used_idx \in Words /\ tx.used_idx \in Words
  BY QueueTypes DEF Queue
<1>2. dev.last["rx"] \in Words /\ dev.last["tx"] \in Words
  BY DEF Typed, Queues
<1>3. receive_head \in Nat
  BY QueueAssumption DEF Typed
<1> QED
  BY <1>1, <1>2, <1>3, WordsNat


-----------------------------------------------------------------------------
(***************************************************************************)
(* The negotiation by itself, which needs no room for the rx buffers       *)
(***************************************************************************)
Negotiate ==
  Find \/ Bar0 \/ Acknowledge \/ Driver \/ Features \/ FeaturesOk \/ Check
    \/ RegisterTx \/ RegisterRx

HInv ==
  /\ Handshake /\ RegTypes /\ local.slot \in Slots
  /\ DOMAIN local = {"slot", "message", "at", "todo", "idx"}

LEMMA HInit == Init => HInv
<1> SUFFICES ASSUME Init PROVE HInv
  OBVIOUS
<1>1. RegTypes
  <2>1. QueueSize \in Nat /\ QueueSize \div 2 \in Nat
    BY QueueAssumption, WordNat DEF Words
  <2> QED
    BY <2>1 DEF Init, RegTypes
<1>2. local.slot \in Slots /\ DOMAIN local = {"slot", "message", "at", "todo", "idx"}
  BY SlotAssumption DEF Init
<1>3. Handshake
  BY DEF Init, Handshake, Early, Laid, Running, Sending, Receives, ToFeatures, ToCheck
<1> QED
  BY <1>1, <1>2, <1>3 DEF HInv

LEMMA MemoryType ==
  ASSUME Fits, NEW n \in 0 .. 1
  PROVE  Memory(n) \in Queue
<1>1. 0 \in Ids /\ n \in Words
  BY Small, WordNat DEF Ids, Words
<1>2. [k \in Ids |-> 0] \in Rings /\ [k \in Ids |-> 0] \in [Ids -> Ids]
  BY <1>1, RingFits DEF Rings
<1>3. [d \in Ids |-> Nowhere] \in [Ids -> Buffers \union {Nowhere}]
  OBVIOUS
<1> QED
  BY <1>1, <1>2, <1>3 DEF Memory, Queue

LEMMA InitInv ==
  ASSUME Fits, Init
  PROVE  IInv
<1>1. Typed
  <2>1. i \in 0 .. NRxBuffers /\ receive_head \in 0 .. NRxBuffers /\ local \in Locals
    BY Small, SlotAssumption, WordNat DEF Init, Locals, Words
  <2>2. call \in 1 .. Len(Calls) + 1
    BY Counted DEF Init
  <2>3. vq \in [Queues -> Queue]
    BY MemoryType DEF Init
  <2>4. dev \in [last : [Queues -> Words], pending : Frames \union {None}, kicked : BOOLEAN]
    BY WordNat DEF Init, Words
  <2> QED
    BY <2>1, <2>2, <2>3, <2>4 DEF Init, Typed
<1>2. HInv
  BY HInit
<1>3. LinkTypes /\ Handshake
  BY <1>2 DEF Init, LinkTypes, HInv
<1>4. Quiet /\ PendingInv
  BY DEF Init, Quiet, Queues, PendingInv
<1>5. pc \notin Laid \union Running \union {"show"} /\ pc \in Early
  BY DEF Init, Early, Laid, Running, Sending, Receives
<1>6. RxInv /\ FramesInv /\ TxInv /\ CallsInv
  BY <1>5 DEF RxInv, FramesInv, TxInv, CallsInv
<1>7. HeadInv
  <2>1. rx.used_idx \in 0 .. 1 /\ receive_head = 0 /\ shown = << >>
    BY DEF Init, Memory, Queues, rx
  <2> QED
    BY <1>5, Seen, <1>1, <2>1 DEF HeadInv, Queues
<1> QED
  BY <1>1, <1>3, <1>4, <1>6, <1>7 DEF IInv

LEMMA NegotiateHandshake ==
  ASSUME HInv, Negotiate
  PROVE  HInv'
<1>0. Handshake /\ RegTypes
  BY DEF HInv
<1>1. /\ pc \in Early /\ pc' \in Early \union {"assert"}
      /\ (pc' = "find") => FALSE
  BY DEF Negotiate, Find, Bar0, Acknowledge, Driver, Features, FeaturesOk, Check,
       RegisterTx, RegisterRx, SetStatus, Asserted, Early
<1>2. \/ Find /\ reg' = reg /\ pc = "find" /\ pc' = "bar0"
      \/ ~Find /\ local' = local /\ pc # "find"
  BY DEF Negotiate, Find, Bar0, Acknowledge, Driver, Features, FeaturesOk, Check,
       RegisterTx, RegisterRx, SetStatus, driver
<1>3. RegTypes' /\ reg'.pci = reg.pci
  <2>1. \/ reg' = reg
        \/ \E bit \in {"ACKNOWLEDGE", "DRIVER", "FEATURES_OK"} :
              reg' = [reg EXCEPT !.status = @ \union {bit}]
        \/ \E q \in Queues : reg' = [reg EXCEPT !.queue_addr = @ \union {q}]
    BY DEF Negotiate, Find, Bar0, Acknowledge, Driver, Features, FeaturesOk, Check,
         RegisterTx, RegisterRx, SetStatus, Queues
  <2>2. ASSUME NEW bit \in {"ACKNOWLEDGE", "DRIVER", "FEATURES_OK"},
               reg' = [reg EXCEPT !.status = @ \union {bit}]
        PROVE  RegTypes' /\ reg'.pci = reg.pci
    BY <1>0, <2>2 DEF RegTypes
  <2>3. ASSUME NEW q \in Queues, reg' = [reg EXCEPT !.queue_addr = @ \union {q}]
        PROVE  RegTypes' /\ reg'.pci = reg.pci
    BY <1>0, <2>3 DEF RegTypes
  <2> QED
    BY <1>0, <2>1, <2>2, <2>3 DEF RegTypes
<1>4. /\ local'.slot \in Slots /\ DOMAIN local' = {"slot", "message", "at", "todo", "idx"}
      /\ Find => (Matches # {} => local'.slot \in Matches)
  <2>1. CASE Find
    <3> DEFINE s == IF Found = {} THEN 0 ELSE CHOOSE t \in Found : TRUE
    <3>1. local' = [local EXCEPT !.slot = s]
      BY <2>1 DEF Find
    <3>2. Found \subseteq Slots /\ Found \subseteq Matches
      BY DEF Found, Matches
    <3>3. s \in Slots /\ (Found # {} => s \in Matches)
      BY <3>2, SlotAssumption
    <3>4. Matches # {} => Found # {}
      BY SlotAssumption DEF Found, Matches
    <3> HIDE DEF s
    <3> QED
      BY <3>1, <3>3, <3>4 DEF HInv
  <2> QED
    BY <1>2, <2>1 DEF HInv
<1>5. Handshake'
  <2>1. /\ pc' \notin Laid \union Running /\ "DRIVER_OK" \notin reg'.status
    <3>1. pc' \notin Laid \union Running /\ pc \notin Running
      BY <1>1 DEF Early, Laid, Running, Sending, Receives
    <3>2. "DRIVER_OK" \notin reg.status
      BY <1>0, <3>1 DEF Handshake
    <3> QED
      BY <1>0, <3>1, <3>2 DEF RegTypes, Negotiate, Find, Bar0, Acknowledge, Driver, Features,
           FeaturesOk, Check, RegisterTx, RegisterRx, SetStatus
  <2>2. Matches' = Matches /\ (Matches # {} => IsVirtioNet)'
    <3>1. Matches' = Matches
      BY <1>3 DEF Matches
    <3>2. CASE Find
      BY <1>3, <1>4, <3>1, <3>2 DEF IsVirtioNet, Matches
    <3>3. CASE ~Find
      BY <1>0, <1>2, <1>3, <3>1, <3>3 DEF Handshake, IsVirtioNet
    <3> QED
      BY <3>2, <3>3
  <2>3. /\ pc' \notin {"find", "bar0", "assert"} => IsIoSpace'
        /\ pc' \notin ToFeatures => "MAC" \in reg'.offered
    BY <1>0, <1>2, <1>3 DEF RegTypes, Handshake, ToFeatures, Negotiate, Find, Bar0,
         Acknowledge, Driver, Features, FeaturesOk, Check, RegisterTx, RegisterRx,
         SetStatus, Asserted, IsIoSpace, driver
  <2>4. pc' \notin ToCheck => "FEATURES_OK" \in reg'.status
    BY <1>0, <1>3 DEF RegTypes, Handshake, Accepted, ToFeatures, ToCheck, Negotiate, Find,
         Bar0, Acknowledge, Driver, Features, FeaturesOk, Check, RegisterTx, RegisterRx,
         SetStatus, Asserted
  <2>5. pc' \notin ToCheck \union {"tx_queue"} => "tx" \in reg'.queue_addr
    BY <1>0, <1>3 DEF RegTypes, Handshake, ToFeatures, ToCheck, Queues, Negotiate, Find,
         Bar0, Acknowledge, Driver, Features, FeaturesOk, Check, RegisterTx, RegisterRx,
         SetStatus, Asserted
  <2>6. pc' = "zero" => reg'.rx_size = QueueSize /\ "rx" \in reg'.queue_addr
    BY <1>0, <1>3 DEF RegTypes, Handshake, ToFeatures, ToCheck, Queues, Negotiate, Find,
         Bar0, Acknowledge, Driver, Features, FeaturesOk, Check, RegisterTx, RegisterRx,
         SetStatus, Asserted
  <2> QED
    BY <1>1, <2>1, <2>2, <2>3, <2>4, <2>5, <2>6 DEF Handshake
<1> QED
  BY <1>3, <1>4, <1>5 DEF HInv

LEMMA HandshakeStep ==
  ASSUME HInv, [Next]_vars
  PROVE  HInv'
<1>0. Handshake /\ RegTypes
  BY DEF HInv
<1>1. CASE Negotiate
  BY <1>1, NegotiateHandshake
<1>2. CASE DriverOk
  <2>1. reg' = [reg EXCEPT !.status = @ \union {"DRIVER_OK"}] /\ local' = local
        /\ pc = "driver_ok" /\ pc' = "call"
    BY <1>2 DEF DriverOk, SetStatus, driver
  <2>2. RegTypes' /\ reg'.pci = reg.pci /\ reg'.offered = reg.offered
        /\ reg'.rx_size = reg.rx_size /\ reg'.queue_addr = reg.queue_addr
        /\ reg'.status = reg.status \union {"DRIVER_OK"}
    BY <1>0, <2>1 DEF RegTypes
  <2>3. Handshake'
    BY <1>0, <2>1, <2>2 DEF Handshake, Early, Laid, Running, Sending, Receives, ToFeatures,
         ToCheck, IsIoSpace, IsVirtioNet, Matches
  <2> QED
    BY <2>1, <2>2, <2>3 DEF HInv
<1>3. ASSUME [Next]_vars, ~Negotiate, ~DriverOk
      PROVE  /\ reg' = reg /\ local'.slot = local.slot
             /\ DOMAIN local' = DOMAIN local
             /\ \/ pc' = pc
                \/ /\ pc \in {"zero"} \union Laid /\ pc' \in Laid
                \/ /\ pc \in Running /\ pc' \in Running
  <2>1. CASE Zero \/ OfferBuffer \/ DescribeBuffer \/ Call \/ Notify \/ Poll \/ EndReceive
    BY <2>1 DEF Zero, OfferBuffer, DescribeBuffer, Loop, Call, Notify, Poll, EndReceive,
         Return, driver, Laid, Running, Sending, Receives
  <2>2. CASE (\E m \in Messages : Fill(m)) \/ Describe \/ StoreRing \/ StoreIdx \/ Latch
             \/ ShowFrame
    BY <2>2 DEF HInv, Fill, Describe, StoreRing, StoreIdx, Latch, ShowFrame, Running,
         Sending, Receives
  <2>3. CASE (\E f \in Frames : Deliver(f)) \/ Publish \/ Transmit \/ UNCHANGED vars
    BY <2>3 DEF Deliver, Publish, Transmit, vars, driver
  <2> QED
    BY <1>3, <2>1, <2>2, <2>3 DEF Next, DriverStep, Negotiate
<1>4. CASE ~Negotiate /\ ~DriverOk
  <2>1. Handshake'
    BY <1>0, <1>3, <1>4 DEF Handshake, Early, Laid, Running, Sending, Receives, ToFeatures,
         ToCheck, IsIoSpace, IsVirtioNet, Matches
  <2> QED
    BY <1>3, <1>4, <2>1 DEF HInv, RegTypes
<1> QED
  BY <1>1, <1>2, <1>4

LEMMA Shaken ==
  ASSUME IInv, Next
  PROVE  Handshake' /\ RegTypes' /\ local'.slot \in Slots /\ reg'.pci = reg.pci
<1>1. HInv
  BY DEF IInv, HInv, LinkTypes, Typed, Locals
<1>2. reg'.pci = reg.pci
  <2>1. \/ reg' = reg
        \/ \E bit \in {"ACKNOWLEDGE", "DRIVER", "FEATURES_OK", "DRIVER_OK"} :
              reg' = [reg EXCEPT !.status = @ \union {bit}]
        \/ \E q \in Queues : reg' = [reg EXCEPT !.queue_addr = @ \union {q}]
    BY DEF Next, DriverStep, Find, Bar0, Acknowledge, Driver, Features, FeaturesOk, Check,
         RegisterTx, RegisterRx, SetStatus, Queues, Zero, OfferBuffer, DescribeBuffer, Loop,
         DriverOk, Call, Fill, Describe, StoreRing, StoreIdx, Notify, Poll, Latch, ShowFrame,
         EndReceive, Deliver, Publish, Transmit
  <2> QED
    BY <1>1, <2>1 DEF HInv, RegTypes
<1> QED
  BY <1>1, <1>2, HandshakeStep DEF HInv

LEMMA PendingStep ==
  ASSUME IInv, Next
  PROVE  PendingInv'
<1>1. PendingInv /\ Matches' = Matches
  BY Shaken DEF IInv, Matches
<1>2. CASE \E f \in Frames : Deliver(f)
  <2>1. local.slot \in Slots /\ IsVirtioNet
    BY <1>2 DEF Deliver, Available, IInv, Typed, Locals
  <2> QED
    BY <1>1, <2>1 DEF PendingInv, Matches, IsVirtioNet
<1>3. CASE Publish \/ Transmit \/ DriverStep
  <2>1. dev'.pending = dev.pending \/ dev'.pending = None
    BY <1>3 DEF IInv, Typed, Publish, Transmit, DriverStep, Find, Bar0, Acknowledge, Driver,
         Features, FeaturesOk, Check, RegisterTx, RegisterRx, SetStatus, Zero, OfferBuffer,
         DescribeBuffer, Loop, DriverOk, Call, Fill, Describe, StoreRing, StoreIdx, Notify,
         Poll, Latch, ShowFrame, EndReceive
  <2> QED
    BY <1>1, <2>1 DEF PendingInv
<1> QED
  BY <1>2, <1>3 DEF Next

LEMMA CallsStep ==
  ASSUME IInv, Next
  PROVE  CallsInv'
<1>1. /\ CallsInv /\ Quiet /\ Handshake /\ call \in 1 .. Len(Calls) + 1 /\ local \in Locals
      /\ Len(posted) \in Nat
  BY DEF IInv, Typed, LinkTypes
<1>2. CASE Negotiate \/ Zero \/ OfferBuffer \/ DescribeBuffer
  <2>1. pc' \notin Running
    BY <1>2 DEF Negotiate, Find, Bar0, Acknowledge, Driver, Features, FeaturesOk, Check,
         RegisterTx, RegisterRx, SetStatus, Asserted, Zero, OfferBuffer, DescribeBuffer, Loop,
         Running, Sending, Receives
  <2> QED
    BY <2>1 DEF CallsInv
<1>3. CASE DriverOk
  <2>1. pc = "driver_ok" /\ pc' = "call" /\ call' = call /\ posted' = posted
    BY <1>3 DEF DriverOk, SetStatus, driver, link
  <2>2. ~Ready
    BY <1>1, <2>1 DEF Ready, Handshake, Running, Sending, Receives
  <2>3. Len(posted') = 0 /\ call' = 1
    BY <1>1, <2>1, <2>2 DEF Quiet
  <2> QED
    BY <2>1, <2>3, Counted DEF CallsInv, Handed, Sending, Receives
<1>4. CASE Call
  <2>1. /\ pc = "call" /\ call' = call /\ posted' = posted /\ call <= Len(Calls)
        /\ pc' = IF Calls[call] = "send" THEN "fill" ELSE "poll"
    BY <1>4 DEF Call, driver, link
  <2>2. call \in 1 .. Len(Calls)
    BY <1>1, <2>1, Counted
  <2> QED
    BY <1>1, <2>1, <2>2 DEF CallsInv, Handed, Running, Sending, Receives, Sends
<1>5. CASE (\E m \in Messages : Fill(m)) \/ Describe \/ StoreRing \/ Poll \/ Latch \/ ShowFrame
  <2>1. /\ call' = call /\ posted' = posted /\ Handed' = Handed
        /\ pc \in Running
        /\ pc' \in Sending => pc \in Sending
        /\ pc' \in Receives => pc \in Receives
    BY <1>1, <1>5 DEF Fill, Describe, StoreRing, Poll, Latch, ShowFrame, driver, link, Handed,
         Running, Sending, Receives, Locals
  <2> QED
    BY <1>1, <2>1 DEF CallsInv
<1>6. CASE StoreIdx
  <2>1. /\ call' = call /\ Len(posted') = Len(posted) + 1 /\ Handed = 0 /\ Handed' = 1
        /\ pc = "post" /\ pc' = "post"
    BY <1>1, <1>6 DEF StoreIdx, Handed, Locals, IInv, LinkTypes
  <2>2. call \in Sends
    BY <1>1, <2>1 DEF CallsInv, Running, Sending
  <2> QED
    BY <1>1, <2>1, <2>2, SendCounted DEF CallsInv, Running, Sending, Receives
<1>7. CASE Notify
  <2>1. /\ call' = call + 1 /\ posted' = posted /\ Handed = 1 /\ Handed' = 0
        /\ pc = "post" /\ pc' = "call"
    BY <1>7 DEF Notify, Return, Handed, link
  <2>2. call \in Sends /\ Len(posted) = Cardinality(SendsBefore(call)) + 1
    BY <1>1, <2>1 DEF CallsInv, Running, Sending
  <2>3. /\ Cardinality(SendsBefore(call + 1)) = Cardinality(SendsBefore(call)) + 1
        /\ Cardinality(SendsBefore(call)) \in Nat
    BY <2>2, SendCounted
  <2> QED
    BY <2>1, <2>2, <2>3 DEF CallsInv, Sending, Receives
<1>8. CASE EndReceive
  <2>1. /\ call' = call + 1 /\ posted' = posted /\ Handed = 0 /\ Handed' = 0
        /\ pc = "show" /\ pc' = "call"
    BY <1>8 DEF EndReceive, Return, Handed, link
  <2>2. call \notin Sends /\ Len(posted) = Cardinality(SendsBefore(call)) + 0
    BY <1>1, <2>1 DEF CallsInv, Running, Receives
  <2>3. SendsBefore(call + 1) = SendsBefore(call)
    BY <1>1, <2>2, ReceiveCounted
  <2> QED
    BY <2>1, <2>2, <2>3 DEF CallsInv, Sending, Receives
<1>9. CASE (\E f \in Frames : Deliver(f)) \/ Publish \/ Transmit
  <2>1. pc' = pc /\ call' = call /\ posted' = posted /\ Handed' = Handed
    BY <1>9 DEF Deliver, Publish, Transmit, driver, link, Handed
  <2> QED
    BY <1>1, <2>1 DEF CallsInv
<1> QED
  BY <1>2, <1>3, <1>4, <1>5, <1>6, <1>7, <1>8, <1>9 DEF Next, DriverStep, Negotiate

\* The message that is being sent finds room in the ring and in the indices.
LEMMA RoomToSend ==
  ASSUME IInv, pc \in Sending
  PROVE  /\ Len(posted) - Handed \in RingSlots /\ Len(posted) - Handed + 1 \in Words
         /\ Len(posted) \in Words
<1>1. /\ call \in Sends /\ Len(posted) = Cardinality(SendsBefore(call)) + Handed
  BY DEF IInv, CallsInv, Running
<1>2. /\ Cardinality(SendsBefore(call)) \in Nat
      /\ Cardinality(SendsBefore(call)) < Cardinality(Sends)
  BY <1>1, SendCounted
<1>3. Cardinality(Sends) \in Words /\ 0 .. Cardinality(Sends) - 1 \subseteq RingSlots
  BY SendsAssumption
<1>4. Len(posted) - Handed = Cardinality(SendsBefore(call)) /\ Handed \in 0 .. 1
  BY <1>1, <1>2 DEF Handed
<1>5. /\ Cardinality(SendsBefore(call)) \in 0 .. Cardinality(Sends) - 1
      /\ Len(posted) - Handed + 1 \in Nat /\ Len(posted) - Handed + 1 <= Cardinality(Sends)
      /\ Len(posted) \in Nat /\ Len(posted) <= Cardinality(Sends)
  BY <1>1, <1>2, <1>4, Counted
<1>6. Len(posted) - Handed \in RingSlots
  BY <1>3, <1>4, <1>5
<1> QED
  BY <1>3, <1>5, <1>6, WordsNat

LEMMA PostedBound ==
  ASSUME IInv, pc \in Running
  PROVE  Len(posted) \in Words
<1>1. CASE pc \in Sending
  BY <1>1, RoomToSend
<1>2. CASE pc \notin Sending
  <2>1. Len(posted) = Cardinality(SendsBefore(call)) + 0 /\ Len(posted) \in Nat
    <3>1. Handed = 0
      BY <1>2 DEF Handed, Sending
    <3> QED
      BY <3>1 DEF IInv, CallsInv, LinkTypes
  <2>2. /\ Cardinality(SendsBefore(call)) \in Nat
        /\ Cardinality(SendsBefore(call)) <= Cardinality(Sends)
    BY Counted, FS_Subset, FS_CardinalityType DEF SendsBefore
  <2>3. Len(posted) <= Cardinality(Sends) /\ Cardinality(Sends) \in Words
    BY <2>1, <2>2, SendsAssumption
  <2> QED
    BY <2>1, <2>3, WordsNat
<1> QED
  BY <1>1, <1>2

-----------------------------------------------------------------------------
(***************************************************************************)
(* init_virtio_net() up to its loops                                       *)
(***************************************************************************)

LEMMA NegotiateInv ==
  ASSUME Fits, IInv, Negotiate
  PROVE  IInv'
<1>1. /\ pc \in Early /\ pc' \in Early \union {"assert"}
      /\ UNCHANGED <<i, call, receive_head, vq, mem, dev, link>>
  BY DEF Negotiate, Find, Bar0, Acknowledge, Driver, Features, FeaturesOk, Check,
       RegisterTx, RegisterRx, SetStatus, Asserted, Early, driver
<1>2. "DRIVER_OK" \notin reg.status /\ "DRIVER_OK" \notin reg'.status
  <2>1. RegTypes
    BY DEF IInv, LinkTypes
  <2>2. "DRIVER_OK" \notin reg.status
    BY <1>1 DEF IInv, Handshake, Early, Running, Sending, Receives
  <2> QED
    BY <2>1, <2>2 DEF RegTypes, Negotiate, Find, Bar0, Acknowledge, Driver, Features,
         FeaturesOk, Check, RegisterTx, RegisterRx, SetStatus
<1>3. pc' \notin Laid \union Running
  BY <1>1 DEF Early, Laid, Running, Sending, Receives
<1>4. \/ Find /\ reg' = reg
      \/ ~Find /\ local' = local
  BY DEF Negotiate, Find, Bar0, Acknowledge, Driver, Features, FeaturesOk, Check,
       RegisterTx, RegisterRx, SetStatus, driver
<1>5. RegTypes' /\ Handshake' /\ local'.slot \in Slots /\ CallsInv' /\ PendingInv'
  BY Shaken, CallsStep, PendingStep DEF Negotiate, Next, DriverStep
<1>6. local' \in Locals /\ (local' = local \/ pc = "find")
  <2>1. CASE Find
    <3>1. Found \subseteq Slots
      BY DEF Found, Matches
    <3>2. local'.slot \in Slots /\ local' = [local EXCEPT !.slot = local'.slot]
      BY <2>1, <3>1, SlotAssumption DEF Find, IInv, Typed
    <3> QED
      BY <2>1, <3>2 DEF Find, IInv, Typed, Locals
  <2> QED
    BY <1>4, <2>1 DEF IInv, Typed, Locals
<1>7. Typed'
  BY <1>1, <1>5, <1>6 DEF IInv, Typed, Locals, RegTypes
<1>8. LinkTypes'
  BY <1>1, <1>3, <1>5 DEF IInv, LinkTypes, link, Early
<1>10. Quiet'
  BY <1>1, <1>2 DEF IInv, Quiet, Ready, link
<1>11. RxInv' /\ FramesInv' /\ TxInv'
  BY <1>3 DEF RxInv, FramesInv, TxInv
<1>12. HeadInv'
  BY <1>1, <1>3 DEF IInv, HeadInv, SeenUsedIdx, rx, link, Early, Running, Receives
<1> QED
  BY <1>1, <1>3, <1>5, <1>7, <1>8, <1>10, <1>11, <1>12 DEF IInv

LEMMA ZeroInv ==
  ASSUME Fits, IInv, Zero
  PROVE  IInv'
<1>1. /\ Typed /\ LinkTypes /\ Handshake /\ Quiet
      /\ RxInv /\ FramesInv /\ HeadInv /\ TxInv /\ CallsInv /\ PendingInv
  BY DEF IInv
<1>2. /\ pc = "zero" /\ pc' = "avail" /\ i' = 0
      /\ UNCHANGED <<call, local, receive_head, mem, reg, dev, link>>
  BY DEF Zero
<1>3. rx' = Memory(0) /\ tx' = Memory(0) /\ vq' = [q \in Queues |-> Memory(0)]
  BY DEF Zero, Zeroed, Queues, rx, tx
<1>4. Memory(0) \in Queue
  BY MemoryType
<1>5. /\ Memory(0).avail_idx = 0 /\ Memory(0).used_idx = 0
      /\ \A k \in Ids : Memory(0).ring[k] = 0
  BY DEF Memory
<1>6. ~Ready /\ ~Ready'
  BY <1>1, <1>2 DEF Ready, Handshake, Running, Sending, Receives
<1>7. Typed'
  BY <1>1, <1>2, <1>3, <1>4, Small DEF Typed, Queue, Locals
<1>8. LinkTypes'
  BY <1>1, <1>2 DEF LinkTypes, RegTypes, link
<1>9. Handshake' /\ CallsInv' /\ PendingInv'
  BY Shaken, CallsStep, PendingStep DEF Next, DriverStep
<1>10. Quiet'
  BY <1>1, <1>2, <1>6 DEF Quiet, link
<1>11. RxInv'
  BY <1>1, <1>2, <1>3, <1>5, <1>6, Small DEF RxInv, Offered, Describes, Quiet
<1>12. FramesInv'
  BY <1>1, <1>2, <1>3, <1>5, <1>6, Small DEF FramesInv, Quiet, link
<1>13. HeadInv'
  <2>1. SeenUsedIdx("rx")' = 0
    BY <1>3, <1>5 DEF SeenUsedIdx, rx
  <2> QED
    BY <1>1, <1>2, <1>3, <1>5, <1>6, <2>1 DEF HeadInv, Quiet, Early, link
<1>14. TxInv'
  <2>1. Len(posted') = 0 /\ Len(wire') = 0 /\ dev'.last["tx"] = 0
    BY <1>1, <1>2, <1>6 DEF Quiet, link
  <2> QED
    BY <1>2, <1>3, <1>5, <2>1 DEF TxInv
<1> QED
  BY <1>7, <1>8, <1>9, <1>10, <1>11, <1>12, <1>13, <1>14 DEF IInv

LEMMA OfferBufferInv ==
  ASSUME Fits, IInv, OfferBuffer
  PROVE  IInv'
<1>1. /\ Typed /\ LinkTypes /\ Handshake /\ Quiet
      /\ RxInv /\ FramesInv /\ HeadInv /\ TxInv /\ CallsInv /\ PendingInv
  BY DEF IInv
<1>2. /\ pc = "avail" /\ pc' \in {"avail", "descs"} /\ i < NRxBuffers
      /\ i' = (IF pc' = "avail" THEN i + 1 ELSE 0)
      /\ pc' = "avail" <=> i + 1 < NRxBuffers
      /\ UNCHANGED <<call, local, receive_head, mem, reg, dev, link>>
  <2>1. pc = "avail" /\ i < NRxBuffers
    BY <1>1 DEF OfferBuffer, Loop, RxInv, Laid
  <2> QED
    BY <2>1 DEF OfferBuffer, Loop, More
<1>3. /\ i \in Ids /\ i \in 0 .. NRxBuffers-1
      /\ rx.avail_idx = i /\ rx \in Queue
  <2>1. i \in 0 .. NRxBuffers
    BY <1>1 DEF Typed
  <2> QED
    BY <1>1, <1>2, <2>1, Small, QueueTypes DEF RxInv, Offered, Laid, Ids
<1>4. /\ rx' = [rx EXCEPT !.ring = Stored(@, i, i), !.avail_idx = i + 1]
      /\ tx' = tx /\ vq' \in [Queues -> Queue]
  <2>1. Succ(i) = i + 1 /\ i + 1 \in Words
    <3>1. i + 1 \in Words
      BY <1>3, Small, WordsNat DEF Ids
    <3> QED
      BY <1>3, <3>1, SuccSame DEF Ids
  <2>2. vq' = [vq EXCEPT !["rx"].ring = Stored(@, i, i), !["rx"].avail_idx = i + 1]
    BY <1>3, <2>1 DEF OfferBuffer, rx
  <2>3. vq \in [Queues -> Queue]
    BY <1>1 DEF Typed
  <2>4. rx' = [rx EXCEPT !.ring = Stored(@, i, i), !.avail_idx = i + 1] /\ tx' = tx
    BY <1>3, <2>2, <2>3 DEF rx, tx, Queues
  <2>5. rx' \in Queue
    <3>1. rx.ring \in Rings /\ i \in RingSlots
      BY <1>3, RingFits DEF Queue
    <3>2. Stored(rx.ring, i, i) \in Rings
      BY <1>3, <3>1, StoredRing
    <3> QED
      BY <1>3, <2>1, <2>4, <3>2 DEF Queue
  <2>6. vq' = [vq EXCEPT !["rx"] = rx']
    BY <2>2, <2>3, <2>4 DEF rx, Queues
  <2> QED
    BY <2>3, <2>4, <2>5, <2>6 DEF Queues
<1>5. ~Ready /\ ~Ready'
  BY <1>1, <1>2 DEF Ready, Handshake, Running, Sending, Receives
<1>6. /\ rx'.avail_idx = i + 1 /\ rx'.used_idx = rx.used_idx
      /\ rx'.desc = rx.desc /\ rx'.used = rx.used
      /\ \A k \in Ids : rx'.ring[k] = IF k = i THEN i ELSE rx.ring[k]
  <2>1. rx.ring \in Rings /\ i \in RingSlots
    BY <1>3, RingFits DEF Queue
  <2>2. \A k \in Ids : Stored(rx.ring, i, i)[k] = IF k = i THEN i ELSE rx.ring[k]
    BY <1>3, <2>1, StoredRing
  <2> QED
    BY <1>3, <1>4, <2>2 DEF Queue
<1>7. Typed'
  BY <1>1, <1>2, <1>4, Small DEF Typed, Queue, Locals
<1>8. LinkTypes'
  BY <1>1, <1>2 DEF LinkTypes, RegTypes, link
<1>9. Handshake' /\ CallsInv' /\ PendingInv'
  BY Shaken, CallsStep, PendingStep DEF Next, DriverStep
<1>10. Quiet'
  BY <1>1, <1>2, <1>5 DEF Quiet, link
<1>11. RxInv'
  <2>1. Offered' = i + 1 /\ Describes' = 0
    BY <1>1, <1>2, Small DEF Offered, Describes, Typed
  <2>2. \A k \in 0 .. i : rx'.ring[k] = k
    <3>1. \A k \in 0 .. i-1 : rx.ring[k] = k
      BY <1>1, <1>2 DEF RxInv, Offered, Laid
    <3>3. \A k \in 0 .. i : k \in Ids
      BY <1>3, Small DEF Ids
    <3> QED
      BY <1>3, <1>6, <3>1, <3>3
  <2> QED
    BY <1>1, <1>2, <1>6, <2>1, <2>2, Small DEF RxInv, Laid, Typed
<1>12. FramesInv'
  BY <1>1, <1>2, <1>6 DEF FramesInv, Laid, link
<1>13. HeadInv'
  <2>1. SeenUsedIdx("rx")' = SeenUsedIdx("rx")
    BY <1>6 DEF SeenUsedIdx, rx
  <2> QED
    BY <1>1, <1>2, <2>1 DEF HeadInv, Early, link
<1>14. TxInv'
  BY <1>1, <1>2, <1>4 DEF TxInv, Laid, link
<1> QED
  BY <1>7, <1>8, <1>9, <1>10, <1>11, <1>12, <1>13, <1>14 DEF IInv

LEMMA DescribeBufferInv ==
  ASSUME Fits, IInv, DescribeBuffer
  PROVE  IInv'
<1>1. /\ Typed /\ LinkTypes /\ Handshake /\ Quiet
      /\ RxInv /\ FramesInv /\ HeadInv /\ TxInv /\ CallsInv /\ PendingInv
  BY DEF IInv
<1>2. /\ pc = "descs" /\ pc' \in {"descs", "driver_ok"} /\ i < NRxBuffers
      /\ i' = (IF pc' = "descs" THEN i + 1 ELSE 0)
      /\ pc' = "descs" <=> i + 1 < NRxBuffers
      /\ UNCHANGED <<call, local, receive_head, mem, reg, dev, link>>
  <2>1. pc = "descs" /\ i < NRxBuffers
    BY <1>1 DEF DescribeBuffer, Loop, RxInv, Laid
  <2> QED
    BY <2>1 DEF DescribeBuffer, Loop, More
<1>3. i \in Ids /\ i \in RxIds /\ rx \in Queue
  <2>1. i \in 0 .. NRxBuffers
    BY <1>1 DEF Typed
  <2> QED
    BY <1>1, <1>2, <2>1, Small, QueueTypes DEF Ids, RxIds
<1>4. /\ rx' = [rx EXCEPT !.desc[i] = Rx(i)]
      /\ tx' = tx /\ vq' \in [Queues -> Queue]
  <2>0. Stored(rx.desc, i, Rx(i)) = [rx.desc EXCEPT ![i] = Rx(i)]
    <3>1. Rx(i) \in Buffers
      BY <1>3 DEF Buffers
    <3>2. rx.desc \in [Ids -> Buffers \union {Nowhere}]
      BY <1>3 DEF Queue
    <3> QED
      BY <1>3, <3>1, <3>2, StoredDesc
  <2>1. vq' = [vq EXCEPT !["rx"].desc[i] = Rx(i)]
    BY <1>3, <2>0 DEF DescribeBuffer, RxBuffer, rx
  <2>2. vq \in [Queues -> Queue]
    BY <1>1 DEF Typed
  <2>3. rx' = [rx EXCEPT !.desc[i] = Rx(i)] /\ tx' = tx
    BY <1>3, <2>1, <2>2 DEF rx, tx, Queues
  <2>4. [rx EXCEPT !.desc[i] = Rx(i)] \in Queue
    <3>1. Rx(i) \in Buffers
      BY <1>3 DEF Buffers
    <3> QED
      BY <1>3, <3>1 DEF Queue
  <2> QED
    BY <2>1, <2>2, <2>3, <2>4 DEF rx, Queues
<1>5. ~Ready /\ ~Ready'
  BY <1>1, <1>2 DEF Ready, Handshake, Running, Sending, Receives
<1>6. /\ rx'.avail_idx = rx.avail_idx /\ rx'.used_idx = rx.used_idx
      /\ rx'.ring = rx.ring /\ rx'.used = rx.used
      /\ rx'.desc = [rx.desc EXCEPT ![i] = Rx(i)]
  BY <1>3, <1>4 DEF Queue
<1>7. Typed'
  BY <1>1, <1>2, <1>4, Small DEF Typed, Queue, Locals
<1>8. LinkTypes'
  BY <1>1, <1>2 DEF LinkTypes, RegTypes, link
<1>9. Handshake' /\ CallsInv' /\ PendingInv'
  BY Shaken, CallsStep, PendingStep DEF Next, DriverStep
<1>10. Quiet'
  BY <1>1, <1>2, <1>5 DEF Quiet, link
<1>11. RxInv'
  <2>1. Offered = NRxBuffers /\ Offered' = NRxBuffers /\ Describes' = i + 1 /\ Describes = i
    <3>1. pc' = "driver_ok" => i + 1 = NRxBuffers
      BY <1>2, <1>3, Small DEF RxIds
    <3> QED
      BY <1>2, <3>1 DEF Offered, Describes
  <2>2. \A k \in 0 .. i : rx'.desc[k] = Rx(k)
    <3>1. \A k \in 0 .. i-1 : rx.desc[k] = Rx(k)
      BY <1>1, <1>2, <2>1 DEF RxInv, Laid
    <3>2. DOMAIN rx.desc = Ids
      BY <1>3 DEF Queue
    <3>3. i \in Nat /\ \A k \in 0 .. i : k \in Ids
      BY <1>3, Small DEF Ids
    <3> QED
      BY <1>6, <3>1, <3>2, <3>3
  <2>3. \A k \in 0 .. Describes'-1 : rx'.desc[k] = Rx(k)
    BY <1>3, <2>1, <2>2 DEF RxIds
  <2>4. pc' = "descs" => i' < NRxBuffers
    BY <1>2
  <2> QED
    BY <1>1, <1>2, <1>6, <2>1, <2>3, <2>4 DEF RxInv, Laid, link
<1>12. FramesInv'
  BY <1>1, <1>2, <1>6 DEF FramesInv, Laid, link
<1>13. HeadInv'
  <2>1. SeenUsedIdx("rx")' = SeenUsedIdx("rx")
    BY <1>6 DEF SeenUsedIdx, rx
  <2> QED
    BY <1>1, <1>2, <2>1 DEF HeadInv, Early, link
<1>14. TxInv'
  BY <1>1, <1>2, <1>4 DEF TxInv, Laid, link
<1> QED
  BY <1>7, <1>8, <1>9, <1>10, <1>11, <1>12, <1>13, <1>14 DEF IInv

LEMMA DriverOkInv ==
  ASSUME Fits, IInv, DriverOk
  PROVE  IInv'
<1> USE DEF IInv
<1>1. /\ Typed /\ LinkTypes /\ Handshake /\ Quiet
      /\ RxInv /\ FramesInv /\ HeadInv /\ TxInv /\ CallsInv /\ PendingInv
  OBVIOUS
<1>2. Typed'
  BY <1>1, Small DEF Typed, DriverOk, SetStatus, driver, link
<1>3. LinkTypes'
  BY <1>1, Small DEF LinkTypes, RegTypes, DriverOk, SetStatus, driver, link
<1>4. Handshake' /\ CallsInv' /\ PendingInv'
  BY Shaken, CallsStep, PendingStep DEF Next, DriverStep
<1>5. Quiet'
  BY <1>1, Small DEF Quiet, Ready, DriverOk, SetStatus, driver, link
<1>6. RxInv'
  BY <1>1, Small DEF RxInv, Offered, Describes, rx, Laid, Running, Sending, Receives,
       DriverOk, SetStatus, driver, link
<1>7. FramesInv'
  BY <1>1, Small DEF FramesInv, rx, Laid, Running, Sending, Receives, DriverOk, SetStatus,
       driver, link
<1>8. HeadInv'
  BY <1>1, Small DEF HeadInv, SeenUsedIdx, rx, Early, Laid, Running, Sending, Receives,
       DriverOk, SetStatus, driver, link
<1>9. TxInv'
  BY <1>1, Small DEF TxInv, tx, Laid, Running, Sending, Receives, DriverOk, SetStatus,
       driver, link
<1> QED
  BY <1>2, <1>3, <1>4, <1>5, <1>6, <1>7, <1>8, <1>9

LEMMA CallInv ==
  ASSUME Fits, IInv, Call
  PROVE  IInv'
<1> USE DEF IInv
<1>1. /\ Typed /\ LinkTypes /\ Handshake /\ Quiet
      /\ RxInv /\ FramesInv /\ HeadInv /\ TxInv /\ CallsInv /\ PendingInv
  OBVIOUS
<1>2. Typed'
  BY <1>1, Small DEF Typed, Call, TxFree, driver, link
<1>3. LinkTypes'
  BY <1>1, Small DEF LinkTypes, RegTypes, Call, TxFree, driver, link
<1>4. Handshake' /\ CallsInv' /\ PendingInv'
  BY Shaken, CallsStep, PendingStep DEF Next, DriverStep
<1>5. Quiet'
  BY <1>1, Small DEF Quiet, Ready, Call, TxFree, driver, link
<1>6. RxInv'
  BY <1>1, Small DEF RxInv, Offered, Describes, rx, Laid, Running, Sending, Receives,
       Call, TxFree, driver, link
<1>7. FramesInv'
  BY <1>1, Small DEF FramesInv, rx, Laid, Running, Sending, Receives, Call, TxFree,
       driver, link
<1>8. HeadInv'
  BY <1>1, Small DEF HeadInv, SeenUsedIdx, rx, Early, Laid, Running, Sending, Receives,
       Call, TxFree, driver, link
<1>9. TxInv'
  <2>1. pc = "call" /\ pc' \in {"fill", "poll"} /\ (pc' = "fill" => TxFree)
        /\ UNCHANGED <<vq, dev, link, mem, local>>
    BY DEF Call, driver
  <2>2. Len(wire) \in {Len(posted), Len(posted) - 1} /\ tx.avail_idx = Len(posted)
        /\ tx.used_idx = Len(wire)
    BY <1>1, <2>1 DEF TxInv, Running
  <2>3. pc' = "fill" => Len(wire) = Len(posted)
    BY <1>1, <2>1, <2>2, Seen, LenProperties DEF TxFree, tx, Queues, LinkTypes
  <2> QED
    BY <1>1, <2>1, <2>3 DEF TxInv, tx, Running, Sending, Receives, link
<1> QED
  BY <1>2, <1>3, <1>4, <1>5, <1>6, <1>7, <1>8, <1>9

LEMMA DescribeInv ==
  ASSUME Fits, IInv, Describe
  PROVE  IInv'
<1>1. /\ Typed /\ LinkTypes /\ Handshake /\ Quiet
      /\ RxInv /\ FramesInv /\ HeadInv /\ TxInv /\ CallsInv /\ PendingInv
  BY DEF IInv
<1>2. /\ pc = "describe" /\ pc' = "post"
      /\ local' = [local EXCEPT !.at = tx.avail_idx, !.todo = {"ring", "idx"}]
      /\ UNCHANGED <<i, call, receive_head, mem, reg, dev, link>>
  BY DEF Describe, tx
<1>3. 0 \in Ids /\ tx \in Queue
  BY <1>1, QueueTypes, Small DEF Ids
<1>4. /\ tx' = [tx EXCEPT !.desc[0] = Tx]
      /\ rx' = rx /\ vq' \in [Queues -> Queue]
  <2>0. Stored(tx.desc, 0, Tx) = [tx.desc EXCEPT ![0] = Tx]
    <3>1. Tx \in Buffers
      BY DEF Buffers
    <3>2. tx.desc \in [Ids -> Buffers \union {Nowhere}]
      BY <1>3 DEF Queue
    <3> QED
      BY <1>3, <3>1, <3>2, StoredDesc
  <2>1. vq' = [vq EXCEPT !["tx"] = [tx EXCEPT !.desc[0] = Tx]]
    BY <2>0 DEF Describe, Described, tx
  <2>2. vq \in [Queues -> Queue]
    BY <1>1 DEF Typed
  <2>3. rx' = rx /\ tx' = [tx EXCEPT !.desc[0] = Tx]
    BY <2>1, <2>2 DEF rx, tx, Queues
  <2>4. [tx EXCEPT !.desc[0] = Tx] \in Queue
    <3>1. Tx \in Buffers
      BY DEF Buffers
    <3> QED
      BY <1>3, <3>1 DEF Queue
  <2> QED
    BY <2>1, <2>2, <2>3, <2>4 DEF Queues
<1>5. /\ tx'.avail_idx = tx.avail_idx /\ tx'.used_idx = tx.used_idx
      /\ tx'.ring = tx.ring /\ tx'.desc[0] = Tx
  BY <1>3, <1>4 DEF Queue
<1>6. /\ local' \in Locals /\ local'.at = tx.avail_idx
      /\ local'.idx = local.idx /\ local'.slot = local.slot
      /\ local'.message = local.message
  <2>1. local \in Locals /\ tx.avail_idx \in Words
    BY <1>1, <1>3 DEF Queue, Typed
  <2> QED
    BY <1>2, <2>1 DEF Locals
<1>7. Typed'
  BY <1>1, <1>2, <1>4, <1>6 DEF Typed, Queue, Locals
<1>8. LinkTypes'
  BY <1>1, <1>2, <1>6 DEF LinkTypes, RegTypes, link
<1>9. Handshake' /\ CallsInv' /\ PendingInv'
  BY Shaken, CallsStep, PendingStep DEF Next, DriverStep
<1>10. Quiet'
  BY <1>1, <1>2 DEF Quiet, Ready, link
<1>11. RxInv'
  BY <1>1, <1>2, <1>4 DEF RxInv, Offered, Describes, Laid, Running, Sending, Receives
<1>12. FramesInv'
  BY <1>1, <1>2, <1>4 DEF FramesInv, Laid, Running, Sending, Receives, link
<1>13. HeadInv'
  <2>1. SeenUsedIdx("rx")' = SeenUsedIdx("rx")
    BY <1>4 DEF SeenUsedIdx, rx
  <2> QED
    BY <1>1, <1>2, <2>1 DEF HeadInv, Early, link
<1>14. TxInv'
  <2>1. Handed' = 0 /\ Len(posted) \in Nat
    BY <1>1, <1>2 DEF Handed, Locals, Typed, LinkTypes
  <2>2. local'.at = Len(posted) - 0
    BY <1>1, <1>2, <1>6, <2>1 DEF TxInv, Running, Sending
  <2> QED
    BY <1>1, <1>2, <1>5, <1>6, <2>1, <2>2 DEF TxInv, Running, Sending, link
<1> QED
  BY <1>7, <1>8, <1>9, <1>10, <1>11, <1>12, <1>13, <1>14 DEF IInv

LEMMA StoreRingInv ==
  ASSUME Fits, IInv, StoreRing
  PROVE  IInv'
<1> USE DEF IInv
<1>1. /\ Typed /\ LinkTypes /\ Handshake /\ Quiet
      /\ RxInv /\ FramesInv /\ HeadInv /\ TxInv /\ CallsInv /\ PendingInv
  OBVIOUS
<1>0. local.at \in RingSlots /\ 0 \in Ids
  <2>1. local.at \in RingSlots
    <3>1. pc = "post" /\ "ring" \in local.todo
      BY DEF StoreRing
    <3> QED
      BY <1>1, <3>1, RoomToSend DEF TxInv, Running, Sending
  <2> QED
    BY <2>1, Small DEF Ids
<1>2. Typed'
  <2>1. vq \in [Queues -> Queue] /\ tx \in Queue /\ local \in Locals
    BY <1>1, QueueTypes DEF Typed
  <2>2. Entry(tx, local.at) \in Queue
    BY <1>0, <2>1, StoredRing DEF Entry, Queue
  <2>3. vq' \in [Queues -> Queue]
    BY <2>1, <2>2 DEF StoreRing, tx, Queues
  <2>4. local' \in Locals
    BY <2>1 DEF StoreRing, Locals
  <2> QED
    BY <1>1, <2>3, <2>4 DEF StoreRing, Typed, Queue, Locals
<1>3. LinkTypes'
  BY <1>1, Small DEF LinkTypes, RegTypes, StoreRing, Entry, link
<1>4. Handshake' /\ CallsInv' /\ PendingInv'
  BY Shaken, CallsStep, PendingStep DEF Next, DriverStep
<1>5. Quiet'
  BY <1>1, Small DEF Quiet, Ready, StoreRing, Entry, link
<1>6. RxInv'
  BY <1>1, Small DEF RxInv, Offered, Describes, rx, Laid, Running, Sending, Receives,
       StoreRing, Entry, link
<1>7. FramesInv'
  BY <1>1, Small DEF FramesInv, rx, Laid, Running, Sending, Receives, StoreRing, Entry, link
<1>8. HeadInv'
  BY <1>1, Small DEF HeadInv, SeenUsedIdx, rx, Early, Laid, Running, Sending, Receives,
       StoreRing, Entry, link
<1>9. TxInv'
  <2>1. tx \in Queue /\ local \in Locals
    BY <1>1, QueueTypes DEF Typed
  <2>2. /\ tx'.avail_idx = tx.avail_idx /\ tx'.used_idx = tx.used_idx /\ tx'.desc = tx.desc
        /\ \A k \in Ids : tx'.ring[k] = IF k = local.at THEN 0 ELSE tx.ring[k]
    <3>1. tx' = Entry(tx, local.at)
      BY <1>1 DEF StoreRing, tx, Typed, Queues
    <3>2. tx.ring \in Rings
      BY <2>1 DEF Queue
    <3>3. \A k \in Ids :
            Stored(tx.ring, local.at, 0)[k] = IF k = local.at THEN 0 ELSE tx.ring[k]
      BY <1>0, <3>2, StoredRing
    <3> QED
      BY <2>1, <3>1, <3>3 DEF Entry, Queue
  <2>3. /\ pc = "post" /\ pc' = "post" /\ UNCHANGED <<mem, dev, link>>
        /\ local'.message = local.message /\ local'.at = local.at
        /\ "idx" \in local'.todo <=> "idx" \in local.todo
    BY <2>1 DEF StoreRing, Locals
  <2>4. Handed' = Handed
    BY <2>3 DEF Handed
  <2> QED
    BY <2>4, <1>1, <2>2, <2>3 DEF TxInv, Running, Sending, link
<1> QED
  BY <1>2, <1>3, <1>4, <1>5, <1>6, <1>7, <1>8, <1>9

LEMMA StoreIdxInv ==
  ASSUME Fits, IInv, StoreIdx
  PROVE  IInv'
<1>1. /\ Typed /\ LinkTypes /\ Handshake /\ Quiet
      /\ RxInv /\ FramesInv /\ HeadInv /\ TxInv /\ CallsInv /\ PendingInv
  BY DEF IInv
<1>2. /\ pc = "post" /\ pc' = "post" /\ "idx" \in local.todo
      /\ local' = [local EXCEPT !.todo = @ \ {"idx"}]
      /\ posted' = Append(posted, local.message)
      /\ UNCHANGED <<i, call, receive_head, mem, reg, dev, wire, arrived, shown>>
  BY DEF StoreIdx
<1>3. tx \in Queue /\ local \in Locals
  BY <1>1, QueueTypes DEF Typed
<1>4. /\ tx' = [tx EXCEPT !.avail_idx = local.at + 1]
      /\ rx' = rx /\ vq' \in [Queues -> Queue]
  <2>0. local.at + 1 \in Words /\ Succ(local.at) = local.at + 1
    <3>1. local.at = Len(posted) - Handed /\ local.at \in Nat
      BY <1>1, <1>2, <1>3, WordsNat DEF TxInv, Running, Sending, Locals
    <3>2. local.at + 1 \in Words
      BY <1>2, <3>1, RoomToSend DEF Sending
    <3> QED
      BY <3>1, <3>2, SuccSame
  <2>1. vq' = [vq EXCEPT !["tx"].avail_idx = local.at + 1]
    BY <2>0 DEF StoreIdx
  <2>2. vq \in [Queues -> Queue]
    BY <1>1 DEF Typed
  <2>3. rx' = rx /\ tx' = [tx EXCEPT !.avail_idx = local.at + 1]
    BY <2>1, <2>2 DEF rx, tx, Queues
  <2>4. [tx EXCEPT !.avail_idx = local.at + 1] \in Queue
    BY <1>3, <2>0 DEF Queue
  <2>5. vq' = [vq EXCEPT !["tx"] = tx']
    BY <2>1, <2>2, <2>3 DEF tx, Queues
  <2> QED
    BY <2>2, <2>3, <2>4, <2>5 DEF Queues
<1>5. /\ tx'.avail_idx = local.at + 1 /\ tx'.used_idx = tx.used_idx
      /\ tx'.ring = tx.ring /\ tx'.desc = tx.desc
  BY <1>3, <1>4 DEF Queue
<1>6. /\ local' \in Locals /\ "idx" \notin local'.todo
      /\ local'.idx = local.idx /\ local'.slot = local.slot
      /\ local'.message = local.message
  BY <1>2, <1>3 DEF Locals
<1>7. /\ posted \in Seq(Messages) /\ wire \in Seq(Messages) /\ local.message \in Messages
      /\ posted' \in Seq(Messages) /\ Len(posted') = Len(posted) + 1
      /\ posted'[Len(posted) + 1] = local.message
      /\ Len(posted) \in Nat /\ Len(wire) \in Nat
  BY <1>1, <1>2 DEF LinkTypes
<1>8. Ready /\ Ready'
  BY <1>1, <1>2 DEF Ready, Handshake, Running, Sending
<1>9. Typed'
  BY <1>1, <1>2, <1>4, <1>6 DEF Typed, Queue, Locals
<1>10. LinkTypes'
  BY <1>1, <1>2, <1>6, <1>7 DEF LinkTypes, RegTypes
<1>11. Handshake' /\ CallsInv' /\ PendingInv'
  BY Shaken, CallsStep, PendingStep DEF Next, DriverStep
<1>12. Quiet'
  BY <1>8 DEF Quiet, Ready
<1>13. RxInv'
  BY <1>1, <1>2, <1>4 DEF RxInv, Offered, Describes, Laid, Running, Sending, Receives
<1>14. FramesInv'
  BY <1>1, <1>2, <1>4 DEF FramesInv, Laid, Running, Sending, Receives
<1>15. HeadInv'
  <2>1. SeenUsedIdx("rx")' = SeenUsedIdx("rx")
    BY <1>4 DEF SeenUsedIdx, rx
  <2> QED
    BY <1>1, <1>2, <2>1 DEF HeadInv, Early
<1>16. TxInv'
  <2>1. /\ Len(wire) = Len(posted) /\ local.at = Len(posted) /\ local.message = mem[Tx]
        /\ tx.desc[0] = Tx /\ \A k \in Ids : tx.ring[k] = 0
        /\ dev.last["tx"] = Len(wire) /\ tx.used_idx = Len(wire)
    <3>1. Handed = 0
      BY <1>2 DEF Handed
    <3> QED
      BY <1>1, <1>2, <1>7, <3>1 DEF TxInv, Running, Sending
  <2>2. Handed' = 1
    BY <1>2, <1>6 DEF Handed
  <2>3. local'.at = Len(posted') - 1
    BY <1>2, <1>3, <1>7, <2>1 DEF Locals
  <2> QED
    BY <1>2, <1>5, <1>6, <1>7, <2>1, <2>2, <2>3 DEF TxInv
<1> QED
  BY <1>9, <1>10, <1>11, <1>12, <1>13, <1>14, <1>15, <1>16 DEF IInv

LEMMA NotifyInv ==
  ASSUME Fits, IInv, Notify
  PROVE  IInv'
<1> USE DEF IInv
<1>1. /\ Typed /\ LinkTypes /\ Handshake /\ Quiet
      /\ RxInv /\ FramesInv /\ HeadInv /\ TxInv /\ CallsInv /\ PendingInv
  OBVIOUS
<1>2. Typed'
  <2>1. call \in 1 .. Len(Calls) /\ Len(Calls) \in Nat
    BY <1>1, Counted DEF Notify, CallsInv, Running, Sending
  <2>2. call' \in 1 .. Len(Calls) + 1
    BY <2>1 DEF Notify, Return
  <2> QED
    BY <1>1, <2>2 DEF Typed, Locals, Notify, Return, link
<1>3. LinkTypes'
  BY <1>1, Small DEF LinkTypes, RegTypes, Notify, Return, link
<1>4. Handshake' /\ CallsInv' /\ PendingInv'
  BY Shaken, CallsStep, PendingStep DEF Next, DriverStep
<1>5. Quiet'
  BY <1>1 DEF Quiet, Ready, Notify, Handshake, Running, Sending
<1>6. RxInv'
  BY <1>1, Small DEF RxInv, Offered, Describes, rx, Laid, Running, Sending, Receives,
       Notify, Return, link
<1>7. FramesInv'
  BY <1>1, Small DEF FramesInv, rx, Laid, Running, Sending, Receives, Notify, Return, link
<1>8. HeadInv'
  BY <1>1, Small DEF HeadInv, SeenUsedIdx, rx, Early, Laid, Running, Sending, Receives,
       Notify, Return, link
<1>9. TxInv'
  BY <1>1, Small DEF TxInv, tx, Laid, Running, Sending, Receives, Notify, Return, link
<1> QED
  BY <1>2, <1>3, <1>4, <1>5, <1>6, <1>7, <1>8, <1>9

LEMMA PollInv ==
  ASSUME Fits, IInv, Poll
  PROVE  IInv'
<1> USE DEF IInv
<1>1. /\ Typed /\ LinkTypes /\ Handshake /\ Quiet
      /\ RxInv /\ FramesInv /\ HeadInv /\ TxInv /\ CallsInv /\ PendingInv
  OBVIOUS
<1>2. Typed'
  BY <1>1, Small DEF Typed, Poll, driver, link
<1>3. LinkTypes'
  BY <1>1, Small DEF LinkTypes, RegTypes, Poll, driver, link
<1>4. Handshake' /\ CallsInv' /\ PendingInv'
  BY Shaken, CallsStep, PendingStep DEF Next, DriverStep
<1>5. Quiet'
  BY <1>1, Small DEF Quiet, Ready, Poll, driver, link
<1>6. RxInv'
  BY <1>1, Small DEF RxInv, Offered, Describes, rx, Laid, Running, Sending, Receives,
       Poll, driver, link
<1>7. FramesInv'
  BY <1>1, Small DEF FramesInv, rx, Laid, Running, Sending, Receives, Poll, driver, link
<1>8. HeadInv'
  BY <1>1, Small DEF HeadInv, SeenUsedIdx, rx, Early, Laid, Running, Sending, Receives,
       Poll, driver, link
<1>9. TxInv'
  BY <1>1, Small DEF TxInv, tx, Laid, Running, Sending, Receives, Poll, driver, link
<1> QED
  BY <1>2, <1>3, <1>4, <1>5, <1>6, <1>7, <1>8, <1>9

LEMMA LatchInv ==
  ASSUME Fits, IInv, Latch
  PROVE  IInv'
<1> USE DEF IInv
<1>1. /\ Typed /\ LinkTypes /\ Handshake /\ Quiet
      /\ RxInv /\ FramesInv /\ HeadInv /\ TxInv /\ CallsInv /\ PendingInv
  OBVIOUS
<1>2. Typed'
  <2>1. SeenUsedIdx("rx") \in 0 .. NRxBuffers /\ receive_head \in 0 .. NRxBuffers
    <3>1. dev.last["rx"] \in Nat /\ rx.used_idx \in Nat /\ receive_head \in 0 .. NRxBuffers
      BY <1>1, QueueTypes, WordsNat DEF Queues, Queue, Typed
    <3>2. /\ dev.last["rx"] = rx.used_idx + (IF dev.pending = None THEN 0 ELSE 1)
          /\ dev.last["rx"] <= NRxBuffers
      BY <1>1 DEF Latch, RxInv, Running, Receives
    <3>3. SeenUsedIdx("rx") \in {0, rx.used_idx} /\ NRxBuffers \in Nat
      BY <1>1, Seen, Small DEF Queues, rx
    <3> QED
      BY <3>1, <3>2, <3>3
  <2>2. local' \in Locals
    BY <1>1, <2>1 DEF Latch, Locals, Typed
  <2> QED
    BY <1>1, <2>1, <2>2 DEF Typed, Latch, link, Locals
<1>3. LinkTypes'
  BY <1>1, Small DEF LinkTypes, RegTypes, Latch, link
<1>4. Handshake' /\ CallsInv' /\ PendingInv'
  BY Shaken, CallsStep, PendingStep DEF Next, DriverStep
<1>5. Quiet'
  BY <1>1, Small DEF Quiet, Ready, Latch, link
<1>6. RxInv'
  BY <1>1, Small DEF RxInv, Offered, Describes, rx, Laid, Running, Sending, Receives,
       Latch, link
<1>7. FramesInv'
  BY <1>1, Small DEF FramesInv, rx, Laid, Running, Sending, Receives, Latch, link
<1>8. HeadInv'
  <2>1. SeenUsedIdx("rx") \in {0, rx.used_idx} /\ SeenUsedIdx("rx") \in Nat
        /\ rx.used_idx \in Nat /\ receive_head \in Nat
    BY <1>1, Seen, IndexNat DEF Queues, rx
  <2>2. pc = "latch" /\ pc' = "show" /\ i' = receive_head /\ local'.idx = SeenUsedIdx("rx")
        /\ UNCHANGED <<vq, receive_head, shown>>
    BY <1>1 DEF Latch, link, Locals, Typed
  <2>3. SeenUsedIdx("rx")' = SeenUsedIdx("rx")
    BY <2>2 DEF SeenUsedIdx
  <2> QED
    BY <1>1, <2>1, <2>2, <2>3 DEF HeadInv, rx, Early
<1>9. TxInv'
  BY <1>1, Small DEF TxInv, tx, Laid, Running, Sending, Receives, Latch, link
<1> QED
  BY <1>2, <1>3, <1>4, <1>5, <1>6, <1>7, <1>8, <1>9

\* The frame that receive_packet() prints next is the next one that arrived.
LEMMA NextFrame ==
  ASSUME Fits, IInv, pc = "show", i < local.idx
  PROVE  /\ i = Len(shown) /\ i + 1 \in 1 .. Len(arrived) /\ i \in RxIds
         /\ mem[rx.desc[rx.used[i % QueueSize]]] = arrived[i + 1]
<1>1. /\ Typed /\ LinkTypes /\ RxInv /\ FramesInv /\ HeadInv
  BY DEF IInv
<1>2. rx \in Queue /\ i \in Nat /\ receive_head \in Nat /\ local.idx \in Nat
  BY <1>1, QueueTypes DEF Locals, Typed
<1>3. i = Len(shown) /\ local.idx <= rx.used_idx
  <2>1. SeenUsedIdx("rx") \in {0, rx.used_idx} /\ rx.used_idx \in Nat
    BY <1>1, <1>2, Seen, QueueTypes, WordsNat DEF Queues, Queue, rx
  <2> QED
    BY <1>1, <1>2, <2>1 DEF HeadInv
<1>4. /\ dev.last["rx"] <= NRxBuffers /\ rx.used_idx <= dev.last["rx"]
      /\ Len(arrived) = rx.used_idx
      /\ Describes = NRxBuffers
      /\ \A k \in 0 .. NRxBuffers-1 : rx.desc[k] = Rx(k)
      /\ \A k \in 0 .. dev.last["rx"]-1 : rx.used[k] = k
      /\ \A k \in 0 .. rx.used_idx-1 : mem[Rx(k)] = arrived[k+1]
  BY <1>1, <1>2 DEF RxInv, FramesInv, Running, Receives, Describes, Queue
<1>5. dev.last["rx"] \in Nat /\ rx.used_idx \in Nat
  BY <1>1, <1>2, WordsNat DEF Queues, Queue, Typed
<1>6. i \in 0 .. rx.used_idx-1 /\ i \in 0 .. dev.last["rx"]-1 /\ i \in 0 .. NRxBuffers-1
  BY <1>2, <1>3, <1>4, <1>5, Small
<1>7. i % QueueSize = i
  BY <1>6, Small, ModSame DEF Ids
<1> QED
  BY <1>3, <1>4, <1>5, <1>6, <1>7 DEF RxIds

LEMMA ShowFrameInv ==
  ASSUME Fits, IInv, ShowFrame
  PROVE  IInv'
<1>1. /\ Typed /\ LinkTypes /\ Handshake /\ Quiet
      /\ RxInv /\ FramesInv /\ HeadInv /\ TxInv /\ CallsInv /\ PendingInv
  BY DEF IInv
<1>2. /\ pc = "show" /\ pc' = "show" /\ i < local.idx /\ i' = i + 1
      /\ shown' = Append(shown, mem[rx.desc[rx.used[i % QueueSize]]])
      /\ UNCHANGED <<call, local, receive_head, vq, mem, reg, dev, posted, wire, arrived>>
  BY DEF ShowFrame, rx
<1>3. /\ i = Len(shown) /\ i + 1 \in 1 .. Len(arrived) /\ i \in RxIds
      /\ shown' = Append(shown, arrived[i + 1])
  BY <1>2, NextFrame
<1>4. shown' \in Seq(Frames) /\ Len(shown') = i + 1
  BY <1>1, <1>3 DEF LinkTypes
<1>5. Ready /\ Ready'
  BY <1>1, <1>2 DEF Ready, Handshake, Running, Receives
<1>6. Typed'
  BY <1>1, <1>2, <1>3, Small DEF Typed, RxIds
<1>7. LinkTypes'
  BY <1>1, <1>2, <1>4 DEF LinkTypes, RegTypes
<1>8. Handshake' /\ CallsInv' /\ PendingInv'
  BY Shaken, CallsStep, PendingStep DEF Next, DriverStep
<1>9. Quiet'
  BY <1>5 DEF Quiet
<1>10. RxInv'
  BY <1>1, <1>2 DEF RxInv, Offered, Describes, rx, Laid, Running, Sending, Receives
<1>11. FramesInv'
  BY <1>1, <1>2 DEF FramesInv, rx, Laid, Running, Sending, Receives
<1>12. HeadInv'
  <2>1. i \in Nat /\ local.idx \in Nat /\ receive_head \in Nat
    BY <1>1 DEF Locals, Typed
  <2>2. SeenUsedIdx("rx")' = SeenUsedIdx("rx")
    BY <1>2 DEF SeenUsedIdx
  <2> QED
    BY <1>1, <1>2, <1>4, <2>1, <2>2 DEF HeadInv, rx, Early
<1>13. TxInv'
  BY <1>1, <1>2 DEF TxInv, tx, Laid, Running, Sending, Receives
<1> QED
  BY <1>6, <1>7, <1>8, <1>9, <1>10, <1>11, <1>12, <1>13 DEF IInv

LEMMA EndReceiveInv ==
  ASSUME Fits, IInv, EndReceive
  PROVE  IInv'
<1> USE DEF IInv
<1>1. /\ Typed /\ LinkTypes /\ Handshake /\ Quiet
      /\ RxInv /\ FramesInv /\ HeadInv /\ TxInv /\ CallsInv /\ PendingInv
  OBVIOUS
<1>2. Typed'
  <2>1. call \in 1 .. Len(Calls) /\ Len(Calls) \in Nat
    BY <1>1, Counted DEF EndReceive, CallsInv, Running, Receives
  <2>2. call' \in 1 .. Len(Calls) + 1
    BY <2>1 DEF EndReceive, Return
  <2> QED
    BY <1>1, <2>2 DEF Typed, Locals, EndReceive, Return, NewHead, link
<1>3. LinkTypes'
  BY <1>1, Small DEF LinkTypes, RegTypes, EndReceive, Return, NewHead, link
<1>4. Handshake' /\ CallsInv' /\ PendingInv'
  BY Shaken, CallsStep, PendingStep DEF Next, DriverStep
<1>5. Quiet'
  BY <1>1 DEF Quiet, Ready, EndReceive, Handshake, Running, Receives
<1>6. RxInv'
  BY <1>1, Small DEF RxInv, Offered, Describes, rx, Laid, Running, Sending, Receives,
       EndReceive, Return, NewHead, link
<1>7. FramesInv'
  BY <1>1, Small DEF FramesInv, rx, Laid, Running, Sending, Receives, EndReceive, Return,
       NewHead, link
<1>8. HeadInv'
  <2>1. i \in Nat /\ local.idx \in Nat /\ receive_head \in Nat
    BY <1>1 DEF Locals, Typed
  <2>2. pc = "show" /\ pc' = "call" /\ i >= local.idx /\ receive_head' = local.idx
        /\ UNCHANGED <<vq, shown>>
    BY DEF EndReceive, NewHead, Return, link
  <2>3. local.idx <= SeenUsedIdx("rx") /\ SeenUsedIdx("rx")' = SeenUsedIdx("rx")
    BY <1>1, <2>2 DEF HeadInv, SeenUsedIdx
  <2>4. Len(shown) = local.idx
    BY <1>1, <2>1, <2>2 DEF HeadInv
  <2> QED
    BY <2>1, <2>2, <2>3, <2>4 DEF HeadInv, Early
<1>9. TxInv'
  BY <1>1, Small DEF TxInv, tx, Laid, Running, Sending, Receives, EndReceive, Return,
       NewHead, link
<1> QED
  BY <1>2, <1>3, <1>4, <1>5, <1>6, <1>7, <1>8, <1>9

LEMMA FillInv ==
  ASSUME Fits, IInv, NEW m \in Messages, Fill(m)
  PROVE  IInv'
<1>1. /\ Typed /\ LinkTypes /\ Handshake /\ Quiet
      /\ RxInv /\ FramesInv /\ HeadInv /\ TxInv /\ CallsInv /\ PendingInv
  BY DEF IInv
<1>2. /\ pc = "fill" /\ pc' = "describe"
      /\ mem' = [mem EXCEPT ![Tx] = m] /\ local' = [local EXCEPT !.message = m]
      /\ UNCHANGED <<i, call, receive_head, vq, reg, dev, link>>
  BY DEF Fill
<1>3. /\ mem \in [Buffers \union {Nowhere} -> Messages \union Frames \union {None}]
      /\ local \in Locals /\ dev.last["rx"] \in Nat /\ rx \in Queue
  BY <1>1, QueueTypes, WordsNat DEF Queues, Typed
<1>4. /\ mem' \in [Buffers \union {Nowhere} -> Messages \union Frames \union {None}]
      /\ mem'[Tx] = m /\ \A k \in RxIds : mem'[Rx(k)] = mem[Rx(k)]
  <2>1. Tx \in Buffers /\ \A k \in RxIds : Rx(k) # Tx /\ Rx(k) \in Buffers
    BY DEF Buffers, Rx, Tx
  <2> QED
    BY <1>2, <1>3, <2>1
<1>5. /\ local' \in Locals /\ local'.message = m /\ local'.slot = local.slot
      /\ local'.idx = local.idx
  BY <1>2, <1>3 DEF Locals
<1>6. Ready /\ Ready'
  BY <1>1, <1>2 DEF Ready, Handshake, Running, Sending
<1>7. Typed'
  BY <1>1, <1>2, <1>4, <1>5 DEF Typed, Queue, Locals
<1>8. LinkTypes'
  BY <1>1, <1>2, <1>5 DEF LinkTypes, RegTypes, link
<1>9. Handshake' /\ CallsInv' /\ PendingInv'
  BY Shaken, CallsStep, PendingStep DEF Next, DriverStep
<1>10. Quiet'
  BY <1>6 DEF Quiet
<1>11. RxInv'
  BY <1>1, <1>2 DEF RxInv, Offered, Describes, rx, Laid, Running, Sending, Receives
<1>12. FramesInv'
  <2>1. /\ Len(arrived) = rx.used_idx
        /\ \A k \in 0 .. rx.used_idx-1 : mem[Rx(k)] = arrived[k+1]
        /\ dev.pending # None => mem[Rx(rx.used_idx)] = dev.pending
        /\ dev.last["rx"] = rx.used_idx + (IF dev.pending = None THEN 0 ELSE 1)
        /\ dev.last["rx"] <= NRxBuffers
    BY <1>1, <1>2 DEF FramesInv, RxInv, Running, Sending
  <2>2. /\ \A k \in 0 .. rx.used_idx-1 : k \in RxIds
        /\ dev.pending # None => rx.used_idx \in RxIds
    BY <1>3, <2>1, Small DEF RxIds, Queue
  <2> QED
    BY <1>2, <1>4, <2>1, <2>2 DEF FramesInv, rx, link
<1>13. HeadInv'
  <2>1. SeenUsedIdx("rx")' = SeenUsedIdx("rx")
    BY <1>2 DEF SeenUsedIdx
  <2> QED
    BY <1>1, <1>2, <2>1 DEF HeadInv, Early, link
<1>14. TxInv'
  <2>1. Len(wire) = Len(posted) /\ Len(posted) \in Nat
    BY <1>1, <1>2 DEF TxInv, Running, Sending, LinkTypes
  <2> QED
    BY <1>1, <1>2, <1>4, <1>5, <2>1 DEF TxInv, tx, Running, Sending, link
<1> QED
  BY <1>7, <1>8, <1>9, <1>10, <1>11, <1>12, <1>13, <1>14 DEF IInv

-----------------------------------------------------------------------------
(***************************************************************************)
(* The device                                                              *)
(***************************************************************************)
LEMMA DeliverInv ==
  ASSUME Fits, IInv, NEW f \in Frames, Deliver(f)
  PROVE  IInv'
<1>1. /\ Typed /\ LinkTypes /\ Handshake /\ Quiet
      /\ RxInv /\ FramesInv /\ HeadInv /\ TxInv /\ CallsInv /\ PendingInv
  BY DEF IInv
<1> DEFINE n == dev.last["rx"]
<1>2. /\ Ready /\ n # rx.avail_idx /\ dev.pending = None
      /\ vq' = [vq EXCEPT !["rx"] = [rx EXCEPT !.used[rx.used_idx % QueueSize] = NextId("rx")]]
      /\ mem' = [mem EXCEPT ![rx.desc[NextId("rx")]] = f]
      /\ dev' = [dev EXCEPT !.last["rx"] = Succ(n), !.pending = f]
      /\ UNCHANGED <<pc, driver, reg, link>>
  BY DEF Deliver, Available, Used, rx, Ready
<1>3. pc \in Running /\ Offered = NRxBuffers /\ Describes = NRxBuffers
  BY <1>1, <1>2 DEF Handshake, Ready, Offered, Describes, Running, Sending, Receives
<1>4. /\ rx \in Queue /\ vq \in [Queues -> Queue]
      /\ dev \in [last : [Queues -> Words], pending : Frames \union {None}, kicked : BOOLEAN]
      /\ mem \in [Buffers \union {Nowhere} -> Messages \union Frames \union {None}]
      /\ n \in Nat /\ rx.used_idx \in Nat
  BY <1>1, QueueTypes, WordsNat DEF Queues, Queue, Typed
<1>5. n = rx.used_idx /\ n < NRxBuffers /\ n \in RxIds /\ n \in Ids /\ n % QueueSize = n
  <2>1. rx.avail_idx = NRxBuffers /\ n <= NRxBuffers /\ n = rx.used_idx
    BY <1>1, <1>2, <1>3, <1>4 DEF RxInv
  <2>2. n \in RxIds /\ n < NRxBuffers
    BY <1>2, <1>4, <2>1, Small DEF RxIds
  <2>3. n \in Ids
    BY <2>2, Small
  <2> QED
    BY <2>1, <2>2, <2>3, ModSame
<1>6. NextId("rx") = n /\ rx.desc[n] = Rx(n)
  <2>1. \A k \in 0 .. NRxBuffers-1 : rx.ring[k] = k /\ rx.desc[k] = Rx(k)
    BY <1>1, <1>3 DEF RxInv
  <2>2. n \in 0 .. NRxBuffers-1
    BY <1>5 DEF RxIds
  <2> QED
    BY <1>5, <2>1, <2>2 DEF NextId, rx
<1>7. /\ rx' = [rx EXCEPT !.used[n] = n] /\ tx' = tx /\ vq' \in [Queues -> Queue]
  <2>1. vq' = [vq EXCEPT !["rx"] = [rx EXCEPT !.used[n] = n]]
    BY <1>2, <1>5, <1>6
  <2>2. [rx.used EXCEPT ![n] = n] \in [Ids -> Ids]
    BY <1>4, <1>5 DEF Queue
  <2>3. [rx EXCEPT !.used[n] = n] \in Queue
    BY <1>4, <2>2 DEF Queue
  <2> QED
    BY <1>4, <2>1, <2>3 DEF rx, tx, Queues
<1>8. /\ rx'.avail_idx = rx.avail_idx /\ rx'.used_idx = rx.used_idx
      /\ rx'.ring = rx.ring /\ rx'.desc = rx.desc /\ rx'.used = [rx.used EXCEPT ![n] = n]
  BY <1>4, <1>7 DEF Queue
<1>9. /\ mem' \in [Buffers \union {Nowhere} -> Messages \union Frames \union {None}]
      /\ mem'[Rx(n)] = f /\ mem'[Tx] = mem[Tx]
      /\ \A k \in RxIds \ {n} : mem'[Rx(k)] = mem[Rx(k)]
  <2>1. /\ Rx(n) \in Buffers /\ Tx \in Buffers /\ Rx(n) # Tx
        /\ \A k \in RxIds \ {n} : Rx(k) # Rx(n) /\ Rx(k) \in Buffers
    BY <1>5 DEF Buffers, Rx, Tx
  <2> QED
    BY <1>2, <1>4, <1>6, <2>1
<1>10. /\ dev' \in [last : [Queues -> Words], pending : Frames \union {None}, kicked : BOOLEAN]
       /\ dev'.last["rx"] = n + 1 /\ dev'.last["tx"] = dev.last["tx"] /\ dev'.pending = f
  <2>1. n + 1 \in Words /\ Succ(n) = n + 1
    <3>1. n + 1 \in Words
      BY <1>4, <1>5, Small, WordsNat
    <3> QED
      BY <1>4, <3>1, SuccSame
  <2>2. [dev.last EXCEPT !["rx"] = n + 1] \in [Queues -> Words]
    BY <1>4, <2>1 DEF Queues
  <2> QED
    BY <1>2, <1>4, <2>1, <2>2 DEF Queues
<1>11. f # None
  BY FrameAssumption
<1>12. Typed'
  BY <1>1, <1>2, <1>7, <1>9, <1>10 DEF Typed, Queue, Locals, driver
<1>13. LinkTypes'
  BY <1>1, <1>2 DEF LinkTypes, RegTypes, link, driver
<1>14. Handshake' /\ CallsInv' /\ PendingInv'
  BY Shaken, CallsStep, PendingStep DEF Next, DriverStep
<1>15. Quiet'
  BY <1>2 DEF Quiet, Ready
<1>16. RxInv'
  <2>1. \A k \in 0 .. n : rx'.used[k] = k
    <3>1. \A k \in 0 .. n-1 : rx.used[k] = k
      BY <1>1, <1>3 DEF RxInv
    <3>2. rx.used \in [Ids -> Ids]
      BY <1>4 DEF Queue
    <3>3. \A k \in 0 .. n : k \in Ids
      BY <1>4, <1>5, Small DEF Ids
    <3> QED
      BY <1>4, <1>5, <1>8, <3>1, <3>2, <3>3
  <2>2. /\ rx.avail_idx = NRxBuffers
        /\ \A k \in 0 .. NRxBuffers-1 : rx.ring[k] = k
        /\ \A k \in 0 .. NRxBuffers-1 : rx.desc[k] = Rx(k)
    BY <1>1, <1>3 DEF RxInv
  <2>3. Offered' = NRxBuffers /\ Describes' = NRxBuffers /\ pc' \notin {"avail", "descs"}
    BY <1>2, <1>3 DEF Offered, Describes, Running, Sending, Receives
  <2>4. n + 1 <= NRxBuffers /\ (n + 1) - 1 = n
    BY <1>4, <1>5, Small
  <2> QED
    BY <1>5, <1>8, <1>10, <1>11, <2>1, <2>2, <2>3, <2>4 DEF RxInv
<1>17. FramesInv'
  <2>1. /\ Len(arrived) = n /\ \A k \in 0 .. n-1 : mem[Rx(k)] = arrived[k+1]
    BY <1>1, <1>3, <1>5 DEF FramesInv
  <2>2. \A k \in 0 .. n-1 : k \in RxIds \ {n}
    BY <1>4, <1>5, Small DEF RxIds
  <2>3. \A k \in 0 .. n-1 : mem'[Rx(k)] = arrived[k+1]
    BY <1>9, <2>1, <2>2
  <2> QED
    BY <1>2, <1>5, <1>8, <1>9, <1>10, <2>1, <2>3 DEF FramesInv, link
<1>18. HeadInv'
  <2>1. SeenUsedIdx("rx")' = SeenUsedIdx("rx")
    BY <1>8 DEF SeenUsedIdx, rx
  <2> QED
    BY <1>1, <1>2, <1>8, <2>1 DEF HeadInv, driver, link
<1>19. TxInv'
  BY <1>1, <1>2, <1>7, <1>9, <1>10 DEF TxInv, Handed, driver, link
<1> QED
  BY <1>12, <1>13, <1>14, <1>15, <1>16, <1>17, <1>18, <1>19 DEF IInv

LEMMA PublishInv ==
  ASSUME Fits, IInv, Publish
  PROVE  IInv'
<1>1. /\ Typed /\ LinkTypes /\ Handshake /\ Quiet
      /\ RxInv /\ FramesInv /\ HeadInv /\ TxInv /\ CallsInv /\ PendingInv
  BY DEF IInv
<1>2. /\ dev.pending # None /\ dev' = [dev EXCEPT !.pending = None]
      /\ vq' = [vq EXCEPT !["rx"].used_idx = Succ(@)]
      /\ arrived' = Append(arrived, dev.pending)
      /\ UNCHANGED <<pc, driver, mem, reg, posted, wire, shown>>
  BY DEF Publish
<1>3. Ready /\ Ready'
  BY <1>1, <1>2 DEF Quiet, Ready
<1>4. pc \in Running /\ pc \notin Early \union Laid \union {"assert"}
  BY <1>1, <1>3 DEF Handshake, Ready, Early, Laid, Running, Sending, Receives
<1>5. /\ rx \in Queue /\ vq \in [Queues -> Queue] /\ rx.used_idx \in Nat
      /\ dev \in [last : [Queues -> Words], pending : Frames \union {None}, kicked : BOOLEAN]
      /\ arrived \in Seq(Frames)
  BY <1>1, QueueTypes, WordsNat DEF Queues, Queue, LinkTypes, Typed
<1>6. /\ rx' = [rx EXCEPT !.used_idx = rx.used_idx + 1] /\ tx' = tx /\ vq' \in [Queues -> Queue]
  <2>0. rx.used_idx + 1 \in Words /\ Succ(rx.used_idx) = rx.used_idx + 1
    <3>1. rx.used_idx + 1 <= NRxBuffers
      BY <1>1, <1>2, <1>4 DEF RxInv
    <3>2. rx.used_idx + 1 \in Words
      BY <1>5, <3>1, Small, WordsNat
    <3> QED
      BY <1>5, <3>2, SuccSame
  <2>1. rx' = [rx EXCEPT !.used_idx = rx.used_idx + 1] /\ tx' = tx
    BY <1>2, <1>5, <2>0 DEF rx, tx, Queues
  <2>2. [rx EXCEPT !.used_idx = rx.used_idx + 1] \in Queue
    BY <1>5, <2>0 DEF Queue
  <2>3. vq' = [vq EXCEPT !["rx"] = rx']
    BY <1>2, <1>5, <2>1 DEF rx, Queues
  <2> QED
    BY <1>5, <2>1, <2>2, <2>3 DEF Queues
<1>7. /\ rx'.avail_idx = rx.avail_idx /\ rx'.used_idx = rx.used_idx + 1
      /\ rx'.ring = rx.ring /\ rx'.desc = rx.desc /\ rx'.used = rx.used
  BY <1>5, <1>6 DEF Queue
<1>8. /\ dev' \in [last : [Queues -> Words], pending : Frames \union {None}, kicked : BOOLEAN]
      /\ dev'.last = dev.last /\ dev'.pending = None /\ dev.pending \in Frames
  BY <1>2, <1>5
<1>9. /\ arrived' \in Seq(Frames) /\ Len(arrived') = Len(arrived) + 1
      /\ arrived'[Len(arrived) + 1] = dev.pending
      /\ \A k \in 1 .. Len(arrived) : arrived'[k] = arrived[k]
      /\ Len(arrived) \in Nat
  BY <1>2, <1>5, <1>8
<1>10. Typed'
  BY <1>1, <1>2, <1>6, <1>8 DEF Typed, Queue, Locals, driver
<1>11. LinkTypes'
  BY <1>1, <1>2, <1>9 DEF LinkTypes, RegTypes, driver
<1>12. Handshake' /\ CallsInv' /\ PendingInv'
  BY Shaken, CallsStep, PendingStep DEF Next, DriverStep
<1>13. Quiet'
  BY <1>3 DEF Quiet
<1>14. RxInv'
  <2>1. /\ rx.avail_idx = Offered
        /\ \A k \in 0 .. Offered-1 : rx.ring[k] = k
        /\ \A k \in 0 .. Describes-1 : rx.desc[k] = Rx(k)
        /\ dev.last["rx"] = rx.used_idx + 1 /\ dev.last["rx"] <= NRxBuffers
        /\ \A k \in 0 .. dev.last["rx"]-1 : rx.used[k] = k
    BY <1>1, <1>2, <1>4 DEF RxInv
  <2>2. Offered' = Offered /\ Describes' = Describes /\ pc' \notin {"avail", "descs"}
    BY <1>2, <1>4 DEF Offered, Describes, driver, Laid
  <2>3. rx'.used_idx + 0 = rx'.used_idx
    BY <1>5, <1>7
  <2> QED
    BY <1>7, <1>8, <2>1, <2>2, <2>3 DEF RxInv
<1>15. FramesInv'
  <2>1. /\ Len(arrived) = rx.used_idx /\ mem[Rx(rx.used_idx)] = dev.pending
        /\ \A k \in 0 .. rx.used_idx-1 : mem[Rx(k)] = arrived[k+1]
    BY <1>1, <1>2, <1>4 DEF FramesInv
  <2>2. \A k \in 0 .. rx.used_idx : mem[Rx(k)] = arrived'[k+1]
    <3>1. ASSUME NEW k \in 0 .. rx.used_idx, k # rx.used_idx
          PROVE  mem[Rx(k)] = arrived'[k+1]
      <4>1. k \in 0 .. rx.used_idx-1 /\ k + 1 \in 1 .. Len(arrived)
        BY <1>5, <2>1, <3>1
      <4> QED
        BY <1>9, <2>1, <4>1
    <3> QED
      BY <1>9, <2>1, <3>1
  <2>3. (rx.used_idx + 1) - 1 = rx.used_idx
    BY <1>5
  <2> QED
    BY <1>2, <1>7, <1>8, <1>9, <2>1, <2>2, <2>3 DEF FramesInv
<1>16. HeadInv'
  <2>1. SeenUsedIdx("rx")' >= SeenUsedIdx("rx") /\ SeenUsedIdx("rx") \in Nat
        /\ SeenUsedIdx("rx")' \in Nat
    BY <1>5, <1>7 DEF SeenUsedIdx, rx
  <2>2. receive_head \in Nat /\ i \in Nat /\ local.idx \in Nat
    BY <1>1 DEF Locals, Typed
  <2> QED
    BY <1>1, <1>2, <1>4, <2>1, <2>2 DEF HeadInv, driver
<1>17. TxInv'
  BY <1>1, <1>2, <1>6, <1>8 DEF TxInv, Handed, driver
<1> QED
  BY <1>10, <1>11, <1>12, <1>13, <1>14, <1>15, <1>16, <1>17 DEF IInv

LEMMA TransmitInv ==
  ASSUME Fits, IInv, Transmit
  PROVE  IInv' /\ wire' = Append(wire, posted[Len(wire) + 1]) /\ Len(wire) < Len(posted)
<1>1. /\ Typed /\ LinkTypes /\ Handshake /\ Quiet
      /\ RxInv /\ FramesInv /\ HeadInv /\ TxInv /\ CallsInv /\ PendingInv
  BY DEF IInv
<1> DEFINE id == NextId("tx")
           at == tx.used_idx % QueueSize
<1>2. /\ Ready /\ Ready' /\ dev.last["tx"] # tx.avail_idx
      /\ wire' = Append(wire, mem[tx.desc[id]])
      /\ vq' = [vq EXCEPT !["tx"] = [[tx EXCEPT !.used[at] = id] EXCEPT !.used_idx = Succ(@)]]
      /\ dev' = [dev EXCEPT !.last["tx"] = Succ(@)]
      /\ UNCHANGED <<pc, driver, mem, reg, posted, arrived, shown>>
  BY DEF Transmit, Available, Used, tx, Ready
<1>3. pc \in Running /\ pc \notin Early \union Laid \union {"assert"}
  BY <1>1, <1>2 DEF Handshake, Ready, Early, Laid, Running, Sending, Receives
<1>4. /\ tx \in Queue /\ vq \in [Queues -> Queue] /\ tx.used_idx \in Nat
      /\ dev \in [last : [Queues -> Words], pending : Frames \union {None}, kicked : BOOLEAN]
      /\ dev.last["tx"] \in Nat
      /\ posted \in Seq(Messages) /\ wire \in Seq(Messages)
      /\ Len(posted) \in Nat /\ Len(wire) \in Nat
  <2>1. posted \in Seq(Messages) /\ wire \in Seq(Messages)
    BY <1>1 DEF LinkTypes
  <2>2. tx \in Queue /\ vq \in [Queues -> Queue]
    BY <1>1, QueueTypes DEF Typed
  <2>3. dev \in [last : [Queues -> Words], pending : Frames \union {None}, kicked : BOOLEAN]
    BY <1>1 DEF Typed
  <2> QED
    BY <1>1, <2>1, <2>2, <2>3, IndexNat
<1>5. /\ \A k \in Ids : tx.ring[k] = 0
      /\ tx.avail_idx = Len(posted) /\ dev.last["tx"] = Len(wire) /\ tx.used_idx = Len(wire)
      /\ Len(posted) = Len(wire) + 1 /\ posted[Len(wire) + 1] = mem[Tx] /\ tx.desc[0] = Tx
  BY <1>1, <1>2, <1>3, <1>4 DEF TxInv
<1>5a. Succ(Len(wire)) = Len(wire) + 1 /\ Len(wire) + 1 \in Words
  BY <1>3, <1>4, <1>5, PostedBound, SuccSame
<1>6. at \in Ids /\ id = 0 /\ id \in Ids
  <2>1. at \in Ids /\ dev.last["tx"] % QueueSize \in Ids
    BY <1>4, ModType
  <2>2. id = 0
    BY <1>5, <2>1 DEF NextId, tx
  <2>3. 0 \in Ids
    BY Small DEF Ids
  <2> QED
    BY <2>1, <2>2, <2>3
<1>7. /\ tx' = [tx EXCEPT !.used = [@ EXCEPT ![at] = 0], !.used_idx = tx.used_idx + 1]
      /\ rx' = rx /\ vq' \in [Queues -> Queue]
  <2>1. tx' = [[tx EXCEPT !.used[at] = id] EXCEPT !.used_idx = Succ(@)] /\ rx' = rx
    BY <1>2, <1>4 DEF rx, tx, Queues
  <2>2. tx' = [tx EXCEPT !.used = [@ EXCEPT ![at] = 0], !.used_idx = tx.used_idx + 1]
    BY <1>4, <1>5, <1>5a, <1>6, <2>1 DEF Queue
  <2>3. [tx.used EXCEPT ![at] = 0] \in [Ids -> Ids] /\ tx.used_idx + 1 \in Words
    BY <1>4, <1>5, <1>5a, <1>6 DEF Queue
  <2>4. tx' \in Queue
    BY <1>4, <2>2, <2>3 DEF Queue
  <2>5. vq' = [vq EXCEPT !["tx"] = tx']
    BY <1>2, <1>4, <2>1 DEF tx, Queues
  <2> QED
    BY <1>4, <2>1, <2>2, <2>4, <2>5 DEF Queues
<1>8. /\ tx'.avail_idx = tx.avail_idx /\ tx'.used_idx = tx.used_idx + 1
      /\ tx'.ring = tx.ring /\ tx'.desc = tx.desc
  BY <1>4, <1>7 DEF Queue
<1>9. /\ dev' \in [last : [Queues -> Words], pending : Frames \union {None}, kicked : BOOLEAN]
      /\ dev'.last["tx"] = dev.last["tx"] + 1 /\ dev'.last["rx"] = dev.last["rx"]
      /\ dev'.pending = dev.pending
  <2>1. [dev.last EXCEPT !["tx"] = dev.last["tx"] + 1] \in [Queues -> Words]
    BY <1>4, <1>5, <1>5a DEF Queues
  <2> QED
    BY <1>2, <1>4, <1>5, <1>5a, <2>1 DEF Queues
<1>10. /\ wire' = Append(wire, posted[Len(wire) + 1]) /\ posted[Len(wire) + 1] \in Messages
       /\ wire' \in Seq(Messages) /\ Len(wire') = Len(wire) + 1
  <2>1. wire' = Append(wire, posted[Len(wire) + 1])
    BY <1>2, <1>5, <1>6
  <2>2. posted[Len(wire) + 1] \in Messages
    BY <1>4, <1>5
  <2> QED
    BY <1>4, <2>1, <2>2
<1>11. Typed'
  BY <1>1, <1>2, <1>7, <1>9 DEF Typed, Queue, Locals, driver
<1>12. LinkTypes'
  BY <1>1, <1>2, <1>10 DEF LinkTypes, RegTypes, driver
<1>13. Handshake' /\ CallsInv' /\ PendingInv'
  BY Shaken, CallsStep, PendingStep DEF Next, DriverStep
<1>14. Quiet'
  BY <1>2 DEF Quiet
<1>15. RxInv'
  BY <1>1, <1>2, <1>7, <1>9 DEF RxInv, Offered, Describes, driver
<1>16. FramesInv'
  BY <1>1, <1>2, <1>7, <1>9 DEF FramesInv, driver
<1>17. HeadInv'
  <2>1. SeenUsedIdx("rx")' = SeenUsedIdx("rx")
    BY <1>7 DEF SeenUsedIdx, rx
  <2> QED
    BY <1>1, <1>2, <1>7, <2>1 DEF HeadInv, driver
<1>18. TxInv'
  <2>1. /\ Len(wire') = Len(posted') /\ Len(posted') > 0
        /\ pc \notin {"fill", "describe"} /\ ~(pc = "post" /\ "idx" \in local.todo)
    BY <1>1, <1>2, <1>3, <1>4, <1>5, <1>10 DEF TxInv
  <2>2. pc = "post" => local.message = mem[Tx] /\ local.at = Len(posted) - Handed
    BY <1>1, <1>3 DEF TxInv
  <2>3. Handed' = Handed /\ local' = local /\ pc' = pc /\ mem' = mem /\ posted' = posted
    BY <1>2 DEF Handed, driver
  <2>4. Len(wire') \in {Len(posted'), Len(posted') - 1} /\ ~(Len(wire') < Len(posted'))
    BY <1>4, <1>5, <1>10, <2>3
  <2> QED
    BY <1>3, <1>5, <1>8, <1>9, <1>10, <2>1, <2>2, <2>3, <2>4 DEF TxInv
<1> QED
  BY <1>4, <1>5, <1>10, <1>11, <1>12, <1>13, <1>14, <1>15, <1>16, <1>17, <1>18 DEF IInv

-----------------------------------------------------------------------------
(***************************************************************************)
(* The theorems                                                            *)
(***************************************************************************)
LEMMA StutterInv ==
  ASSUME Fits, IInv, UNCHANGED vars
  PROVE  IInv'
<1>1. UNCHANGED <<pc, i, call, local, receive_head, vq, mem, reg, dev,
                  posted, wire, arrived, shown>>
  BY DEF vars, driver, link
<1>2. /\ Typed /\ LinkTypes /\ Handshake /\ Quiet
      /\ RxInv /\ FramesInv /\ HeadInv /\ TxInv /\ CallsInv /\ PendingInv
  BY DEF IInv
<1>3. Typed'
  BY <1>1, <1>2 DEF Typed
<1>4. LinkTypes' /\ Handshake' /\ Quiet'
  BY <1>1, <1>2 DEF LinkTypes, RegTypes, Handshake, Quiet, Ready, IsIoSpace, IsVirtioNet,
       Matches
<1>5. RxInv' /\ FramesInv' /\ TxInv'
  BY <1>1, <1>2 DEF RxInv, Offered, Describes, FramesInv, TxInv, Handed, rx, tx
<1>6. HeadInv'
  BY <1>1, <1>2 DEF HeadInv, SeenUsedIdx, rx
<1>7. CallsInv' /\ PendingInv'
  BY <1>1, <1>2 DEF CallsInv, Handed, PendingInv, Matches
<1> QED
  BY <1>3, <1>4, <1>5, <1>6, <1>7 DEF IInv

LEMMA StepInv ==
  ASSUME Fits, IInv, [Next]_vars
  PROVE  IInv'
<1>1. CASE Negotiate
  BY <1>1, NegotiateInv
<1>2. CASE Zero \/ OfferBuffer \/ DescribeBuffer \/ DriverOk
  BY <1>2, ZeroInv, OfferBufferInv, DescribeBufferInv, DriverOkInv
<1>3. CASE Call \/ (\E m \in Messages : Fill(m)) \/ Describe \/ StoreRing \/ StoreIdx \/ Notify
  BY <1>3, CallInv, FillInv, DescribeInv, StoreRingInv, StoreIdxInv, NotifyInv
<1>4. CASE Poll \/ Latch \/ ShowFrame \/ EndReceive
  BY <1>4, PollInv, LatchInv, ShowFrameInv, EndReceiveInv
<1>5. CASE (\E f \in Frames : Deliver(f)) \/ Publish \/ Transmit
  BY <1>5, DeliverInv, PublishInv, TransmitInv
<1>6. CASE UNCHANGED vars
  BY <1>6, StutterInv
<1> QED
  BY <1>1, <1>2, <1>3, <1>4, <1>5, <1>6 DEF Next, DriverStep, Negotiate

\* The inductive invariant holds for every sequence of calls and every queue size with
\* room for the rx buffers, which the code takes for granted.
THEOREM Invariance ==
  ASSUME Fits
  PROVE  Spec => []IInv
<1>1. Init => IInv
  BY InitInv
<1>2. IInv /\ [Next]_vars => IInv'
  BY StepInv
<1> QED
  BY <1>1, <1>2, PTL DEF Spec

\* Indices and counters stay in range; stores to the descriptor table stay inside it
\* and stores to the available ring in front of the used ring.
THEOREM TypeCorrect ==
  ASSUME Fits
  PROVE  Spec => []TypeOK
<1>1. IInv => TypeOK
  <2> SUFFICES ASSUME IInv PROVE TypeOK
    OBVIOUS
  <2>1. Typed
    BY DEF IInv
  <2>2. ASSUME NEW q \in Queues
        PROVE  /\ vq[q].desc \in [Ids -> Buffers \union {Nowhere}]
               /\ Ids \subseteq DOMAIN vq[q].ring /\ DOMAIN vq[q].ring \subseteq RingSlots
               /\ \A k \in DOMAIN vq[q].ring : vq[q].ring[k] \in Ids
               /\ vq[q].used \in [Ids -> Ids]
               /\ vq[q].avail_idx \in Words /\ vq[q].used_idx \in Words
    <3>1. vq[q] \in Queue
      BY <2>1 DEF Typed
    <3>2. vq[q].ring \in Rings
      BY <3>1 DEF Queue
    <3>3. PICK S \in SUBSET RingSlots : Ids \subseteq S /\ vq[q].ring \in [S -> Ids]
      BY <3>2 DEF Rings
    <3> QED
      BY <3>1, <3>3 DEF Queue
  <2> QED
    BY <2>1, <2>2 DEF Typed, TypeOK, Locals
<1> QED
  BY <1>1, Invariance, PTL

\* What is started has passed every check the driver makes, and is a virtio-net device
\* if there is one.  This needs nothing of the queue's size.
THEOREM NegotiatedHolds == Spec => []Negotiated
<1>1. Init => HInv
  BY HInit
<1>2. HInv /\ [Next]_vars => HInv'
  BY HandshakeStep
<1>3. HInv => Negotiated
  <2> SUFFICES ASSUME HInv, Ready PROVE Negotiated
    BY DEF Negotiated, Ready
  <2>1. Handshake /\ pc \in Running /\ reg.queue_addr \subseteq Queues
    BY DEF HInv, RegTypes, Handshake, Ready
  <2>2. pc \notin ToCheck \union {"tx_queue", "find", "bar0", "assert"}
    BY <2>1 DEF ToCheck, ToFeatures, Running, Sending, Receives
  <2>3. reg.queue_addr = Queues
    BY <2>1, <2>2 DEF Handshake, Queues
  <2> QED
    BY <2>1, <2>2, <2>3 DEF Handshake, Negotiated, ToCheck
<1> QED
  BY <1>1, <1>2, <1>3, PTL DEF Spec

\* Whatever the device reads or writes through a descriptor is the buffer meant
\* for it, although init_virtio_net() publishes the rings before it fills them.
THEOREM NoStray ==
  ASSUME Fits
  PROVE  Spec => []NoStrayDma
<1>1. IInv => NoStrayDma
  <2> SUFFICES ASSUME IInv, NEW q \in Queues, Available(q)
               PROVE  vq[q].desc[NextId(q)] \in (IF q = "tx" THEN {Tx} ELSE Buffers \ {Tx})
    BY DEF NoStrayDma
  <2>1. Typed /\ Handshake /\ RxInv /\ TxInv /\ Ready /\ dev.last[q] # vq[q].avail_idx
    BY DEF IInv, Available, Ready
  <2>2. pc \in Running /\ Offered = NRxBuffers /\ Describes = NRxBuffers
    BY <2>1 DEF Handshake, Ready, Offered, Describes, Running, Sending, Receives
  <2>3. dev.last[q] \in Nat
    BY <2>1, WordsNat DEF Typed
  <2>4. CASE q = "rx"
    <3>1. /\ rx.avail_idx = NRxBuffers /\ dev.last["rx"] <= NRxBuffers
          /\ \A k \in 0 .. NRxBuffers-1 : rx.ring[k] = k /\ rx.desc[k] = Rx(k)
      BY <2>1, <2>2 DEF RxInv
    <3>2. dev.last["rx"] \in 0 .. NRxBuffers-1 /\ dev.last["rx"] \in RxIds
      BY <2>1, <2>3, <2>4, <3>1, Small DEF RxIds, rx
    <3>3. NextId("rx") = dev.last["rx"]
      BY <3>1, <3>2, Small, ModSame DEF NextId, rx
    <3>4. Rx(dev.last["rx"]) \in Buffers \ {Tx}
      BY <3>2 DEF Buffers, Rx, Tx
    <3> QED
      BY <2>4, <3>1, <3>2, <3>3, <3>4 DEF rx
  <2>5. CASE q = "tx"
    <3>1. /\ \A k \in Ids : tx.ring[k] = 0
          /\ Len(posted) > 0 => tx.desc[0] = Tx
          /\ tx.avail_idx = Len(posted) /\ dev.last["tx"] = Len(wire)
          /\ Len(wire) \in {Len(posted), Len(posted) - 1}
      BY <2>1, <2>2 DEF TxInv
    <3>2. Len(posted) > 0
      <4>1. posted \in Seq(Messages) /\ wire \in Seq(Messages)
        BY DEF IInv, LinkTypes
      <4> QED
        BY <2>1, <2>5, <3>1, <4>1 DEF tx
    <3>3. NextId("tx") = 0
      BY <2>3, <2>5, <3>1, ModType DEF NextId, tx
    <3> QED
      BY <2>5, <3>1, <3>2, <3>3 DEF tx
  <2> QED
    BY <2>4, <2>5 DEF Queues
<1> QED
  BY <1>1, Invariance, PTL

\* However far the device runs ahead, a frame stays as it arrived until
\* receive_packet() has printed it.
THEOREM UnreadStays ==
  ASSUME Fits
  PROVE  Spec => []UnreadIntact
<1>1. IInv => UnreadIntact
  <2> SUFFICES ASSUME IInv, Ready, NEW k \in receive_head .. rx.used_idx - 1
               PROVE  mem[rx.desc[rx.used[k % QueueSize]]] = arrived[k+1]
    BY DEF UnreadIntact, Ready, rx
  <2>1. Typed /\ Handshake /\ RxInv /\ FramesInv
    BY DEF IInv
  <2>2. pc \in Running /\ Describes = NRxBuffers
    BY <2>1 DEF Handshake, Ready, Describes, Running, Sending, Receives
  <2>3. /\ dev.last["rx"] = rx.used_idx + (IF dev.pending = None THEN 0 ELSE 1)
        /\ dev.last["rx"] <= NRxBuffers
        /\ \A j \in 0 .. NRxBuffers-1 : rx.desc[j] = Rx(j)
        /\ \A j \in 0 .. dev.last["rx"]-1 : rx.used[j] = j
        /\ \A j \in 0 .. rx.used_idx-1 : mem[Rx(j)] = arrived[j+1]
    BY <2>1, <2>2 DEF RxInv, FramesInv
  <2>4. rx.used_idx \in Nat /\ dev.last["rx"] \in Nat /\ receive_head \in Nat
    BY <2>1, IndexNat
  <2>5. /\ k \in 0 .. rx.used_idx-1 /\ k \in 0 .. dev.last["rx"]-1
        /\ k \in 0 .. NRxBuffers-1
    BY <2>3, <2>4, Small
  <2>6. k % QueueSize = k
    BY <2>5, Small, ModSame DEF RxIds
  <2> QED
    BY <2>3, <2>5, <2>6
<1> QED
  BY <1>1, Invariance, PTL

\* The 16-bit used.idx never passes the number of rx buffers, so that it does
\* not wrap and receive_head, an int, stays behind it.
THEOREM WrapFree ==
  ASSUME Fits
  PROVE  Spec => []NoWrap
<1>1. IInv => NoWrap
  <2> SUFFICES ASSUME IInv PROVE NoWrap
    OBVIOUS
  <2>1. Typed /\ Handshake /\ RxInv /\ HeadInv
    BY DEF IInv
  <2>2. rx.used_idx \in Nat /\ dev.last["rx"] \in Nat /\ receive_head \in Nat
    BY <2>1, IndexNat
  <2>3. SeenUsedIdx("rx") \in {0, rx.used_idx} /\ receive_head <= SeenUsedIdx("rx")
    BY <2>1, Seen DEF Queues, rx, HeadInv
  <2>4. rx.used_idx <= NRxBuffers
    <3>1. CASE pc \in Laid \union Running
      BY <2>1, <2>2, <3>1, Small DEF RxInv
    <3>2. CASE pc \in Early \union {"assert"}
      BY <2>1, <2>2, <3>2, Small DEF HeadInv
    <3> QED
      BY <2>1, <3>1, <3>2 DEF Handshake
  <2> QED
    BY <2>2, <2>3, <2>4 DEF NoWrap, rx
<1> QED
  BY <1>1, Invariance, PTL

-----------------------------------------------------------------------------
(***************************************************************************)
(* The refinement, without PacketPort's fairness                           *)
(***************************************************************************)
PortSafe == Port!Init /\ [][Port!Next]_(Port!vars)

LEMMA PortStep ==
  ASSUME Fits, IInv, [Next]_vars
  PROVE  [Port!Next]_(Port!vars)
<1>1. CASE StoreIdx
  <2>1. local.message \in Messages
    BY <1>1 DEF StoreIdx, IInv, LinkTypes
  <2>2. Port!Post(local.message)
    BY <1>1 DEF StoreIdx, Port!Post, Matches
  <2> QED
    BY <2>1, <2>2 DEF Port!Next
<1>2. CASE ShowFrame
  <2>1. i = Len(shown) /\ i + 1 \in 1 .. Len(arrived) /\ shown' = Append(shown, arrived[i + 1])
    BY <1>2, NextFrame DEF ShowFrame, rx
  <2>2. Len(arrived) \in Nat /\ Len(shown) \in Nat
    BY DEF IInv, LinkTypes
  <2>3. Len(shown) < Len(arrived) /\ shown' = Append(shown, arrived[Len(shown) + 1])
    BY <2>1, <2>2
  <2>4. UNCHANGED <<posted, wire, arrived>> /\ Matches' = Matches
    BY <1>2 DEF ShowFrame, Matches
  <2>5. Port!Show
    BY <2>3, <2>4 DEF Port!Show
  <2> QED
    BY <2>5 DEF Port!Next
<1>3. CASE Publish
  <2>1. dev.pending \in Frames
    BY <1>3 DEF Publish, IInv, Typed
  <2>2. pc \in Laid \union Running
    BY <1>3 DEF Publish, IInv, Quiet, Handshake, Ready
  <2>3. /\ Len(arrived) = rx.used_idx /\ dev.last["rx"] = rx.used_idx + 1
        /\ dev.last["rx"] <= NRxBuffers
    BY <1>3, <2>2 DEF Publish, IInv, RxInv, FramesInv
  <2>4. rx.used_idx \in Nat
    BY QueueTypes, WordsNat DEF IInv, Queue
  <2>5. Port!Accept(dev.pending)
    BY <1>3, <2>3, <2>4, Small DEF Publish, Port!Accept, Matches, IInv, PendingInv
  <2> QED
    BY <2>1, <2>5 DEF Port!Next
<1>4. CASE Transmit
  <2>1. wire' = Append(wire, posted[Len(wire) + 1]) /\ Len(wire) < Len(posted)
    BY <1>4, TransmitInv
  <2>2. Port!Transmit
    <3>1. Matches # {} /\ Matches' = Matches
      BY <1>4 DEF Transmit, Available, IsVirtioNet, Matches, IInv, Typed, Locals
    <3> QED
      BY <1>4, <2>1, <3>1 DEF Transmit, Port!Transmit
  <2> QED
    BY <2>2 DEF Port!Next
<1>5. CASE UNCHANGED link /\ Matches' = Matches
  BY <1>5 DEF link, Port!vars
<1>6. CASE Negotiate \/ Zero \/ OfferBuffer \/ DescribeBuffer \/ DriverOk
  <2>1. UNCHANGED link /\ Matches' = Matches
    BY <1>6, Shaken DEF Matches, Next, DriverStep, Negotiate, Find, Bar0, Acknowledge, Driver, Features, FeaturesOk, Check,
       RegisterTx, RegisterRx, SetStatus, Zero, OfferBuffer, DescribeBuffer, DriverOk, Loop
  <2> QED
    BY <1>5, <2>1
<1>7. CASE \/ Call \/ (\E m \in Messages : Fill(m)) \/ Describe \/ StoreRing \/ Notify
           \/ Poll \/ Latch \/ EndReceive \/ (\E f \in Frames : Deliver(f))
  <2>1. UNCHANGED link /\ Matches' = Matches
    BY <1>7 DEF Matches, driver, Call, Fill, Describe, StoreRing, Notify, Poll, Latch, EndReceive, Deliver
  <2> QED
    BY <1>5, <2>1
<1>8. CASE UNCHANGED vars
  BY <1>5, <1>8 DEF vars, Matches
<1> QED
  BY <1>1, <1>2, <1>3, <1>4, <1>6, <1>7, <1>8 DEF Next, DriverStep, Negotiate

\* Messages go out as they were given, once each and in order; frames are shown
\* once each, in the order they arrived, and no more than there are buffers.
THEOREM PortRefined ==
  ASSUME Fits
  PROVE  Spec => PortSafe
<1>1. Init => Port!Init
  BY DEF Init, Port!Init
<1>2. IInv /\ [Next]_vars => [Port!Next]_(Port!vars)
  BY PortStep
<1> QED
  BY <1>1, <1>2, Invariance, PTL DEF Spec, PortSafe

\* What PacketPort's steps add up to.
InOrder ==
  /\ posted \in Seq(Messages) /\ wire \in Seq(Messages)
  /\ arrived \in Seq(Frames) /\ shown \in Seq(Frames)
  /\ Len(wire) <= Len(posted) /\ \A k \in 1 .. Len(wire) : wire[k] = posted[k]
  /\ Len(shown) <= Len(arrived) /\ \A k \in 1 .. Len(shown) : shown[k] = arrived[k]

LEMMA OneMore ==
  ASSUME NEW S, NEW s \in Seq(S), NEW t \in Seq(S), NEW e \in S,
         Len(s) <= Len(t), \A k \in 1 .. Len(s) : s[k] = t[k]
  PROVE  /\ Append(t, e) \in Seq(S) /\ Len(s) <= Len(Append(t, e))
         /\ \A k \in 1 .. Len(s) : s[k] = Append(t, e)[k]
         /\ Len(s) < Len(t) =>
              /\ Append(s, t[Len(s) + 1]) \in Seq(S)
              /\ Len(Append(s, t[Len(s) + 1])) <= Len(t)
              /\ \A k \in 1 .. Len(s) + 1 : Append(s, t[Len(s) + 1])[k] = t[k]
OBVIOUS

\* What is on the wire is the first of the messages given, what is printed the
\* first of the frames that arrived: nothing is lost, doubled or out of order.
THEOREM InOrderAlways ==
  ASSUME Fits
  PROVE  Spec => []InOrder
<1>1. Port!Init => InOrder
  BY DEF Port!Init, InOrder
<1>2. InOrder /\ [Port!Next]_(Port!vars) => InOrder'
  <2> SUFFICES ASSUME InOrder, [Port!Next]_(Port!vars) PROVE InOrder'
    OBVIOUS
  <2>1. ASSUME NEW m \in Messages, Port!Post(m) PROVE InOrder'
    BY <2>1, OneMore DEF InOrder, Port!Post
  <2>2. CASE Port!Transmit
    BY <2>2, OneMore DEF InOrder, Port!Transmit
  <2>3. ASSUME NEW f \in Frames, Port!Accept(f) PROVE InOrder'
    BY <2>3, OneMore DEF InOrder, Port!Accept
  <2>4. CASE Port!Show
    BY <2>4, OneMore DEF InOrder, Port!Show
  <2>5. CASE UNCHANGED Port!vars
    BY <2>5 DEF InOrder, Port!vars
  <2> QED
    BY <2>1, <2>2, <2>3, <2>4, <2>5 DEF Port!Next
<1> QED
  BY <1>1, <1>2, PortRefined, PTL DEF PortSafe

-----------------------------------------------------------------------------
(***************************************************************************)
(* Without room for the rx buffers                                         *)
(***************************************************************************)
Shape == DOMAIN vq = Queues /\ \A q \in Queues : "desc" \in DOMAIN vq[q]

Outgrown ==
  /\ Shape
  /\ pc \in {"avail", "descs"} => i \in 0 .. NRxBuffers-1
  /\ pc = "descs" => 0 .. i-1 \subseteq DOMAIN vq["rx"].desc
  /\ pc = "driver_ok" => RxIds \subseteq DOMAIN vq["rx"].desc

LEMMA OutgrownStep ==
  ASSUME Outgrown, [Next]_vars
  PROVE  Outgrown'
<1>0. NRxBuffers \in Nat \ {0} /\ "rx" \in Queues /\ "tx" \in Queues
  BY QueueAssumption DEF Queues
<1>1. CASE Zero
  <2>1. pc' = "avail" /\ i' = 0 /\ Shape'
    BY <1>1 DEF Zero, Zeroed, Shape, Memory
  <2> QED
    BY <1>0, <2>1 DEF Outgrown
<1>2. CASE OfferBuffer
  <2>1. i \in 0 .. NRxBuffers-1 /\ Shape
    BY <1>2 DEF OfferBuffer, Loop, Outgrown
  <2>2. Shape'
    BY <1>0, <1>2, <2>1 DEF OfferBuffer, Shape
  <2>3. \/ pc' = "avail" /\ i' \in 0 .. NRxBuffers-1
        \/ pc' = "descs" /\ i' = 0
    BY <1>0, <1>2, <2>1 DEF OfferBuffer, Loop, More
  <2> QED
    BY <1>0, <2>2, <2>3 DEF Outgrown
<1>3. CASE DescribeBuffer
  <2>1. i \in 0 .. NRxBuffers-1 /\ Shape /\ 0 .. i-1 \subseteq DOMAIN vq["rx"].desc
    BY <1>3 DEF DescribeBuffer, Loop, Outgrown
  <2>2. Shape' /\ vq'["rx"].desc = Stored(vq["rx"].desc, i, RxBuffer(i))
    BY <1>0, <1>3, <2>1 DEF DescribeBuffer, Shape
  <2>3. DOMAIN vq'["rx"].desc = DOMAIN vq["rx"].desc \union {i}
    BY <2>2 DEF Stored
  <2>4. \A k \in 0 .. i : k \in DOMAIN vq'["rx"].desc
    BY <2>1, <2>3
  <2>5. \/ pc' = "descs" /\ i' = i + 1 /\ i' \in 0 .. NRxBuffers-1
        \/ pc' = "driver_ok" /\ i + 1 = NRxBuffers
    BY <1>0, <1>3, <2>1 DEF DescribeBuffer, Loop, More
  <2> QED
    BY <1>0, <2>1, <2>2, <2>4, <2>5 DEF Outgrown, RxIds
<1>4. CASE \/ Negotiate \/ DriverOk \/ Call \/ (\E m \in Messages : Fill(m)) \/ Describe
           \/ StoreRing \/ StoreIdx \/ Notify \/ Poll \/ Latch \/ ShowFrame \/ EndReceive
  <2>1. pc' \notin {"avail", "descs", "driver_ok"}
    BY <1>4 DEF Negotiate, Find, Bar0, Acknowledge, Driver, Features, FeaturesOk, Check,
         RegisterTx, RegisterRx, SetStatus, Asserted, DriverOk, Call, Fill, Describe,
         StoreRing, StoreIdx, Notify, Return, Poll, Latch, ShowFrame, EndReceive
  <2>2. CASE Describe \/ StoreRing \/ StoreIdx
    <3>1. Shape'
      BY <1>0, <2>2 DEF Outgrown, Shape, Describe, Described, StoreRing, Entry, StoreIdx
    <3> QED
      BY <2>1, <3>1 DEF Outgrown
  <2>3. CASE ~(Describe \/ StoreRing \/ StoreIdx)
    <3>1. vq' = vq
      BY <1>4, <2>3 DEF Negotiate, Find, Bar0, Acknowledge, Driver, Features, FeaturesOk, Check,
           RegisterTx, RegisterRx, SetStatus, DriverOk, Call, Fill, Notify, Poll, Latch,
           ShowFrame, EndReceive
    <3> QED
      BY <2>1, <3>1 DEF Outgrown, Shape
  <2> QED
    BY <2>2, <2>3
<1>5. CASE (\E f \in Frames : Deliver(f)) \/ Publish \/ Transmit \/ UNCHANGED vars
  <2>1. pc' = pc /\ i' = i
    BY <1>5 DEF Deliver, Publish, Transmit, vars, driver
  <2>2. Shape' /\ vq'["rx"].desc = vq["rx"].desc
    BY <1>0, <1>5 DEF Outgrown, Shape, Deliver, Publish, Transmit, Used, vars
  <2> QED
    BY <2>1, <2>2 DEF Outgrown
<1> QED
  BY <1>1, <1>2, <1>3, <1>4, <1>5 DEF Next, DriverStep, Negotiate

\* The other theorems need Fits, which init_virtio_net() takes for granted: with a
\* smaller queue it has written a descriptor behind the table when it sets DRIVER_OK.
THEOREM RoomNeeded ==
  ASSUME ~Fits
  PROVE  Spec => [](pc = "driver_ok" => \E d \in DOMAIN vq["rx"].desc : d \notin Ids)
<1>1. Init => Outgrown
  BY DEF Init, Outgrown, Shape, Memory
<1>2. Outgrown /\ [Next]_vars => Outgrown'
  BY OutgrownStep
<1>3. Outgrown => (pc = "driver_ok" => \E d \in DOMAIN vq["rx"].desc : d \notin Ids)
  <2>1. QueueSize \in RxIds /\ QueueSize \notin Ids
    BY QueueAssumption, WordNat DEF Fits, RxIds, Ids, Words
  <2> QED
    BY <2>1 DEF Outgrown
<1> QED
  BY <1>1, <1>2, <1>3, PTL DEF Spec

-----------------------------------------------------------------------------
(***************************************************************************)
(* Where the two sides take the used ring to be                            *)
(***************************************************************************)
\* ALIGN() adds a page where there is nothing to round up.  The available ring
\* ends on a page boundary for one queue size in 2048 only, and that is odd.
THEOREM AlignAgrees ==
  \A n \in Nat : UsedOffset(n) = DeviceUsedOffset(n) <=> n % 2048 # 1365
<1> SUFFICES ASSUME NEW n \in Nat
             PROVE  UsedOffset(n) = DeviceUsedOffset(n) <=> n % 2048 # 1365
  OBVIOUS
<1>1. UsedOffset(n) = DeviceUsedOffset(n) <=> AvailEnd(n) % Page # 0
  BY DEF UsedOffset, DeviceUsedOffset, Align, AlignDown, AvailEnd, Page
<1>2. AvailEnd(n) % Page # 0 <=> n % 2048 # 1365
  BY DEF AvailEnd, Page
<1> QED
  BY <1>1, <1>2

\* receive_packet() polls only while it has printed all that arrived: it cannot miss
\* an index that the device has already written.
WaitsForNew == pc = "poll" /\ SeenUsedIdx("rx") = receive_head => shown = arrived

\* With a queue of an even size, as every power of two but 1 is, receive_packet()
\* never waits for a frame that has already arrived.
THEOREM WaitsOnlyForNew ==
  ASSUME Fits, QueueSize % 2 = 0
  PROVE  Spec => []WaitsForNew
<1>1. UsedOffset(QueueSize) = DeviceUsedOffset(QueueSize)
  BY AlignAgrees, Small
<1>2. IInv /\ InOrder => WaitsForNew
  <2> SUFFICES ASSUME IInv, InOrder, pc = "poll", SeenUsedIdx("rx") = receive_head
               PROVE  shown = arrived
    BY DEF WaitsForNew
  <2>1. Len(shown) = Len(arrived)
    BY <1>1 DEF IInv, FramesInv, HeadInv, SeenUsedIdx, Running, Receives, rx
  <2> QED
    BY <2>1 DEF InOrder
<1> QED
  BY <1>2, Invariance, InOrderAlways, PTL
=============================================================================
