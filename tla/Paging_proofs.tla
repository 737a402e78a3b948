---------------------------- MODULE Paging_proofs ----------------------------
(***************************************************************************)
(* Paging for every set of pages: the tables give each task exactly the    *)
(* memory it is meant to see.  The invariant says what every entry of      *)
(* every table is at each step of init_virtual_memory(); the rest is the   *)
(* arithmetic of the three indices with the addresses of the source.       *)
(***************************************************************************)
EXTENDS Paging, TLAPS

Ready == pc \in {"run", "panic"}

\* The iterations of the two loops that are over.
KernelBuilt == IF pc \in {"lapic", "fb", "io"} THEN 0 ELSE IF pc = "kernel" THEN i ELSE 8
TasksBuilt  == IF pc = "tasks" THEN i ELSE IF Ready THEN 3 ELSE 0

Additional == <<"additional">>
Mapped     == pdp[0][12] = Additional

Full(start)   == [first |-> 0, count |-> 512, base |-> start]
One(start)    == [first |-> 0, count |-> 1, base |-> start]
\* A run of entries within a page table.
Run           == {run \in [first : Index, count : 0 .. Entries, base : Nat] :
                    run.first + run.count <= Entries}
KernelRun(j)  == Full(KernelMemAddr + j * 512)
TaskRun(t, j) == Full(TaskPhys(t) + j * 512)

\* The frame that entry c of a page table points to.
Frame(run, c) ==
  IF c - run.first \in 0 .. run.count-1 THEN run.base + (c - run.first) ELSE None

PtInv ==
  /\ pc # "lapic" => pt[<<"lapic">>] = One(LapicBufAddr)
  /\ pc \notin {"lapic", "fb"} => pt[<<"fb">>] = Full(FrameBufAddr)
  /\ \A j \in 0 .. 7 : j < KernelBuilt => pt[<<"kernel", j>>] = KernelRun(j)
  /\ \A t \in Tasks, j \in 0 .. 7 :
       t < TasksBuilt => pt[<<"task", t, j>>] = TaskRun(t, j)
  /\ Mapped => pt[Additional] = One(AdditionalPhys)

PdInv ==
  /\ \A k \in Index : pd[<<"io">>][k] =
       IF pc \in {"lapic", "fb", "io"} THEN NoTable
       ELSE IF k = 0 THEN <<"fb">> ELSE IF k = 504 THEN <<"lapic">> ELSE NoTable
  /\ \A k \in Index :
       pd[<<"kernel">>][k] = IF k < KernelBuilt THEN <<"kernel", k>> ELSE NoTable
  /\ \A t \in Tasks, k \in Index :
       pd[<<"task", t>>][k] = IF t < TasksBuilt /\ k < 8 THEN <<"task", t, k>> ELSE NoTable
  /\ \A k \in Index \ {0} : pd[Additional][k] = NoTable
  /\ Mapped => pd[Additional][0] = Additional

PdpInv ==
  /\ \A t \in Tasks : t < TasksBuilt =>
       pdp[t][1] = <<"task", t>> /\ pdp[t][3] = <<"io">> /\ pdp[t][4] = <<"kernel">>
  /\ \A t \in Tasks, k \in Index \ {1, 3, 4} :
       pdp[t][k] = NoTable \/ (t = 0 /\ k = 12 /\ Ready /\ Mapped)
  /\ \A t \in Tasks, k \in Index : pml4[t][k] <=> (k = 0 /\ t < TasksBuilt)

LoopInv ==
  /\ pc = "tasks" => i \in 0 .. 3
  /\ pc = "kernel" => i \in 0 .. 8
  /\ pc \in {"lapic", "fb", "io"} => i = 0

AccessInv == access.task \in Tasks /\ Isolated

IInv == TypeOK /\ LoopInv /\ PtInv /\ PdInv /\ PdpInv /\ AccessInv

-----------------------------------------------------------------------------
LEMMA Lengths == PtLen = 512 /\ PdLen = 262144 /\ PdpLen = 134217728
BY SMT DEF PtLen, PdLen, PdpLen, Entries

LEMMA Numbers ==
  /\ Entries = 512 /\ Tasks = {0, 1, 2} /\ Index = 0 .. 511
  /\ NTaskPTs = 8 /\ NKernelPTs = 8 /\ KernelPdIndex = 4 /\ PtIndexBase = 0
  /\ AdditionalPdIndex = 12 /\ KernelPtBase = 0
  /\ PdIndex(TaskVaddrStart) = 1 /\ TaskVaddrStart \div PdpLen = 0
  /\ IoPdIndex = 3 /\ FbPtIndex = 0 /\ LapicPtIndex = 504
  /\ PageIndex(LapicBufAddr) = 0 /\ PageIndex(FrameBufAddr) = 0
<1>1. Entries = 512 /\ Tasks = {0, 1, 2} /\ Index = 0 .. 511
  BY SMT DEF Entries, Tasks, Index
<1>2. /\ NTaskPTs = 8 /\ NKernelPTs = 8 /\ KernelPdIndex = 4 /\ PtIndexBase = 0
      /\ AdditionalPdIndex = 12 /\ TaskVaddrStart \div PdpLen = 0
  BY SMT, Lengths DEF NTaskPTs, NKernelPTs, KernelPdIndex, PtIndexBase, AdditionalPdIndex,
     TaskMemLen, KernelMemLen, KernelMemAddr, TaskVaddrStart, AdditionalPage
<1>3. KernelPtBase = 0 /\ FbPtIndex = 0 /\ LapicPtIndex = 504
  BY SMT, Lengths DEF KernelPtBase, FbPtIndex, LapicPtIndex, PtIndex, KernelMemAddr,
     FrameBufAddr, LapicBufAddr
<1>4. PdIndex(TaskVaddrStart) = 1 /\ IoPdIndex = 3
  BY SMT, Lengths DEF IoPdIndex, PdIndex, TaskVaddrStart, LapicBufAddr
<1>5. PageIndex(LapicBufAddr) = 0 /\ PageIndex(FrameBufAddr) = 0
  BY SMT, Lengths DEF PageIndex, FrameBufAddr, LapicBufAddr
<1> QED
  BY <1>1, <1>2, <1>3, <1>4, <1>5

\* A page is its three indices.
LEMMA IndexRange ==
  ASSUME NEW p \in Nat
  PROVE  /\ PdIndex(p) \in Index /\ PtIndex(p) \in Index /\ PageIndex(p) \in Index
         /\ p \div PdpLen \in Nat
         /\ p \div PdpLen # 0 => p >= PdpLen
BY SMT, Lengths, Numbers DEF PdIndex, PtIndex, PageIndex

LEMMA Indices ==
  ASSUME NEW p \in Nat, p \div PdpLen = 0
  PROVE  p = PdIndex(p) * PdLen + PtIndex(p) * PtLen + PageIndex(p)
<1>1. p % PdpLen = p
  BY SMT, Lengths
<1>2. p = (p \div PdLen) * PdLen + (p % PdLen)
  BY SMT, Lengths
<1>3. p % PdLen = ((p % PdLen) \div PtLen) * PtLen + ((p % PdLen) % PtLen)
  BY SMT, Lengths
<1>4. (p % PdLen) % PtLen = p % PtLen
  BY SMT, Lengths
<1> QED
  BY SMT, <1>1, <1>2, <1>3, <1>4, Lengths DEF PdIndex, PtIndex, PageIndex

\* Tables of different kinds, or with different numbers, are different ones.
LEMMA Tables ==
  /\ \A t \in Tasks : <<"task", t>> \in PDs /\ <<"task", t>> # NoTable
  /\ <<"kernel">> \in PDs /\ <<"io">> \in PDs /\ Additional \in PDs
  /\ <<"kernel">> # NoTable /\ <<"io">> # NoTable /\ Additional # NoTable
  /\ <<"io">> # <<"kernel">> /\ <<"io">> # Additional /\ <<"kernel">> # Additional
  /\ \A t \in Tasks : /\ <<"task", t>> # <<"kernel">> /\ <<"task", t>> # <<"io">>
                      /\ <<"task", t>> # Additional
  /\ \A t, u \in Tasks : <<"task", t>> = <<"task", u>> => t = u
<1>1. /\ <<"io">>[1] = "io" /\ <<"kernel">>[1] = "kernel" /\ Additional[1] = "additional"
      /\ NoTable[1] = "none" /\ \A t \in Tasks : <<"task", t>>[1] = "task" /\ <<"task", t>>[2] = t
  BY DEF NoTable, Additional
<1> QED
  BY <1>1 DEF PDs, Additional

LEMMA PageTables ==
  /\ \A t \in Tasks, j \in 0 .. 7 : <<"task", t, j>> \in PTs
  /\ \A j \in 0 .. 7 : <<"kernel", j>> \in PTs
  /\ <<"lapic">> \in PTs /\ <<"fb">> \in PTs /\ Additional \in PTs
  /\ <<"lapic">> # NoTable /\ <<"fb">> # NoTable /\ Additional # NoTable
  /\ \A t \in Tasks, j \in 0 .. 7 : <<"task", t, j>> # NoTable /\ <<"kernel", j>> # NoTable
<1>1. /\ <<"lapic">>[1] = "lapic" /\ <<"fb">>[1] = "fb" /\ Additional[1] = "additional"
      /\ NoTable[1] = "none"
      /\ \A t \in Tasks, j \in 0 .. 7 : <<"task", t, j>>[1] = "task" /\ <<"kernel", j>>[1] = "kernel"
  BY DEF NoTable, Additional
<1>2. NTaskPTs-1 = 7 /\ NKernelPTs-1 = 7
  BY Numbers
<1> QED
  BY <1>1, <1>2 DEF PTs, Additional

-----------------------------------------------------------------------------
(***************************************************************************)
(* What the walk finds once the tables are built                           *)
(***************************************************************************)
\* Where a page is mapped to itself.
Direct(a, b, c) == (a = 4 /\ b < 8) \/ (a = 3 /\ b = 0) \/ (a = 3 /\ b = 504 /\ c = 0)

LEMMA PromisedByIndex ==
  ASSUME NEW t \in Tasks, NEW p \in Nat,
         NEW a \in Index, NEW b \in Index, NEW c \in Index,
         p = a * PdLen + b * PtLen + c
  PROVE  /\ a = 1 /\ b < 8 => Promised(t, p) = TaskPhys(t) + b * PtLen + c
         /\ Direct(a, b, c) => Promised(t, p) = p
         /\ ~(a = 1 /\ b < 8) /\ ~Direct(a, b, c) => Promised(t, p) = None
         /\ p = AdditionalPage <=> a = 12 /\ b = 0 /\ c = 0
         /\ a = 4 => p = KernelMemAddr + b * PtLen + c
         /\ a = 3 /\ b = 0 => p = FrameBufAddr + c
         /\ a = 3 /\ b = 504 /\ c = 0 => p = LapicBufAddr
         /\ TaskPhys(t) \in Nat
<1>1. /\ a \in 0 .. 511 /\ b \in 0 .. 511 /\ c \in 0 .. 511
      /\ p = a * 262144 + b * 512 + c
  BY SMT, Lengths, Numbers
<1>2. Window(p, TaskVaddrStart, TaskMemLen) <=> a = 1 /\ b < 8
  BY SMT, <1>1 DEF Window, TaskVaddrStart, TaskMemLen
<1>3. Window(p, KernelMemAddr, KernelMemLen) <=> a = 4 /\ b < 8
  BY SMT, <1>1 DEF Window, KernelMemAddr, KernelMemLen
<1>4. Window(p, FrameBufAddr, FrameBufLen) <=> a = 3 /\ b = 0
  BY SMT, <1>1 DEF Window, FrameBufAddr, FrameBufLen
<1>5. p = LapicBufAddr <=> a = 3 /\ b = 504 /\ c = 0
  BY SMT, <1>1 DEF LapicBufAddr
<1>6. TaskPhys(t) \in Nat
  BY SMT, Numbers DEF TaskPhys
<1>7. a = 1 => TaskPhys(t) + (p - TaskVaddrStart) = TaskPhys(t) + b * PtLen + c
  BY SMT, <1>1, <1>6, Lengths DEF TaskVaddrStart
<1>8. p = AdditionalPage <=> a = 12 /\ b = 0 /\ c = 0
  BY SMT, <1>1 DEF AdditionalPage
<1>9. /\ a = 4 => p = KernelMemAddr + b * PtLen + c
      /\ a = 3 /\ b = 0 => p = FrameBufAddr + c
  BY SMT, <1>1, Lengths DEF KernelMemAddr, FrameBufAddr
<1> QED
  BY <1>2, <1>3, <1>4, <1>5, <1>6, <1>7, <1>8, <1>9 DEF Promised, Direct

LEMMA BeyondTables ==
  ASSUME NEW t \in Tasks, NEW p \in Nat, p >= PdpLen
  PROVE  Promised(t, p) = None /\ p # AdditionalPage
<1>1. p >= 134217728
  BY SMT, Lengths
<1> QED
  BY SMT, <1>1 DEF Promised, Window, TaskVaddrStart, TaskMemLen, KernelMemAddr, KernelMemLen,
     FrameBufAddr, FrameBufLen, LapicBufAddr, AdditionalPage

LEMMA Frames ==
  ASSUME NEW start \in Nat, NEW c \in 0 .. 511
  PROVE  /\ Frame(Full(start), c) = start + c
         /\ Frame(One(start), c) = IF c = 0 THEN start ELSE None
<1>1. Full(start).first = 0 /\ Full(start).count = 512 /\ Full(start).base = start
  BY DEF Full
<1>2. One(start).first = 0 /\ One(start).count = 1 /\ One(start).base = start
  BY DEF One
<1>3. Frame(Full(start), c) = IF c - 0 \in 0 .. 512-1 THEN start + (c - 0) ELSE None
  BY <1>1 DEF Frame
<1>4. Frame(One(start), c) = IF c - 0 \in 0 .. 1-1 THEN start + (c - 0) ELSE None
  BY <1>2 DEF Frame
<1>5. c - 0 = c /\ c \in 0 .. 512-1 /\ (c - 0 \in 0 .. 1-1 <=> c = 0) /\ start + 0 = start
  BY SMT
<1>6. Frame(Full(start), c) = start + c
  BY <1>3, <1>5
<1>7. Frame(One(start), c) = IF c = 0 THEN start + (c - 0) ELSE None
  BY <1>4, <1>5
<1>8. c = 0 => start + (c - 0) = start
  BY SMT
<1> QED
  BY Zenon, <1>6, <1>7, <1>8

LEMMA WalkIs ==
  ASSUME IInv, Ready, NEW t \in Tasks, NEW p \in Nat
  PROVE  Walk(t, p) = IF Promised(t, p) # None THEN Promised(t, p)
                      ELSE IF t = 0 /\ p = AdditionalPage /\ Mapped THEN AdditionalPhys
                      ELSE None
<1>1. TypeOK /\ PtInv /\ PdInv /\ PdpInv
  BY DEF IInv
<1>2. TasksBuilt = 3 /\ KernelBuilt = 8 /\ pc \notin {"lapic", "fb", "io"} /\ t < 3
  BY Numbers DEF Ready, TasksBuilt, KernelBuilt
<1>3. CASE p \div PdpLen # 0
  <2>1. Promised(t, p) = None /\ p # AdditionalPage
    BY <1>3, IndexRange, BeyondTables
  <2>2. Walk(t, p) = None
    BY <1>1, <1>3 DEF Walk, PdpInv
  <2> QED
    BY <2>1, <2>2
<1>4. CASE p \div PdpLen = 0
  <2>1. PICK a \in Index, b \in Index, c \in Index :
          a = PdIndex(p) /\ b = PtIndex(p) /\ c = PageIndex(p)
    BY IndexRange
  <2>2. p = a * PdLen + b * PtLen + c
    BY <1>4, <2>1, Indices
  <2>3. /\ a = 1 /\ b < 8 => Promised(t, p) = TaskPhys(t) + b * PtLen + c
        /\ Direct(a, b, c) => Promised(t, p) = p
        /\ ~(a = 1 /\ b < 8) /\ ~Direct(a, b, c) => Promised(t, p) = None
        /\ p = AdditionalPage <=> a = 12 /\ b = 0 /\ c = 0
        /\ a = 4 => p = KernelMemAddr + b * PtLen + c
        /\ a = 3 /\ b = 0 => p = FrameBufAddr + c
        /\ a = 3 /\ b = 504 /\ c = 0 => p = LapicBufAddr
        /\ TaskPhys(t) \in Nat
    BY <2>2, PromisedByIndex
  <2>4. pml4[t][p \div PdpLen] /\ p \div PdpLen \in Index
    <3>1. 0 \in Index
      BY Numbers
    <3>2. pml4[t][0]
      BY <1>1, <1>2, <3>1 DEF PdpInv
    <3> QED
      BY <1>4, <3>1, <3>2
  <2>5. Walk(t, p) =
          LET directory == pdp[t][a]
              table     == pd[directory][b]
          IN  IF directory = NoTable THEN None
              ELSE IF table = NoTable THEN None ELSE Frame(pt[table], c)
    BY <2>1, <2>4 DEF Walk, Frame
  <2>6. /\ PtLen = 512 /\ c \in 0 .. 511 /\ b \in 0 .. 511 /\ a \in 0 .. 511
        /\ KernelMemAddr \in Nat /\ FrameBufAddr \in Nat /\ LapicBufAddr \in Nat
        /\ AdditionalPhys \in Nat
    BY SMT, Lengths, Numbers DEF KernelMemAddr, FrameBufAddr, LapicBufAddr, AdditionalPhys
  <2>7. \A n \in Nat : n # None /\ b * PtLen + n \in Nat
    BY SMT, <2>6 DEF None
  <2>8. CASE a = 1
    <3>1. pdp[t][a] = <<"task", t>>
      BY <1>1, <1>2, <2>8 DEF PdpInv
    <3>2. pd[<<"task", t>>][b] = IF b < 8 THEN <<"task", t, b>> ELSE NoTable
      BY <1>1, <1>2 DEF PdInv
    <3>3. CASE b < 8
      <4>1. b \in 0 .. 7
        BY <2>6, <3>3
      <4>2. pt[<<"task", t, b>>] = TaskRun(t, b)
        BY <1>1, <1>2, <4>1 DEF PtInv
      <4>3. Walk(t, p) = TaskPhys(t) + b * 512 + c
        <5>1. <<"task", t>> # NoTable /\ <<"task", t, b>> # NoTable
          BY <4>1, Tables, PageTables
        <5>2. Walk(t, p) = Frame(TaskRun(t, b), c)
          BY <2>5, <3>1, <3>2, <3>3, <4>2, <5>1
        <5>3. TaskPhys(t) + b * 512 \in Nat
          BY <2>3, <2>6
        <5>4. \A s \in Nat : Frame(Full(s), c) = s + c
          BY <2>6, Frames
        <5>5. Frame(Full(TaskPhys(t) + b * 512), c) = TaskPhys(t) + b * 512 + c
          BY Zenon, <5>3, <5>4
        <5> QED
          BY Zenon, <5>2, <5>5 DEF TaskRun
      <4>4. TaskPhys(t) + b * 512 + c \in Nat
        BY <2>3, <2>6
      <4> QED
        BY <2>3, <2>6, <2>7, <2>8, <3>3, <4>3, <4>4
    <3>4. CASE ~(b < 8)
      <4>1. Walk(t, p) = None
        BY <2>5, <3>1, <3>2, <3>4
      <4>2. ~Direct(a, b, c)
        BY <2>8 DEF Direct
      <4> QED
        BY <2>3, <2>8, <3>4, <4>1, <4>2
    <3> QED
      BY <3>3, <3>4
  <2>9. CASE a = 4
    <3>1. pdp[t][a] = <<"kernel">>
      BY <1>1, <1>2, <2>9 DEF PdpInv
    <3>2. pd[<<"kernel">>][b] = IF b < 8 THEN <<"kernel", b>> ELSE NoTable
      BY <1>1, <1>2 DEF PdInv
    <3>3. CASE b < 8
      <4>1. b \in 0 .. 7
        BY <2>6, <3>3
      <4>2. pt[<<"kernel", b>>] = KernelRun(b)
        BY <1>1, <1>2, <3>3, <4>1 DEF PtInv
      <4>3. Walk(t, p) = KernelMemAddr + b * 512 + c
        <5>1. <<"kernel">> # NoTable /\ <<"kernel", b>> # NoTable
          BY <4>1, Tables, PageTables
        <5>2. Walk(t, p) = Frame(KernelRun(b), c)
          BY <2>5, <3>1, <3>2, <3>3, <4>2, <5>1
        <5>3. KernelMemAddr + b * 512 \in Nat
          BY <2>6
        <5>4. \A s \in Nat : Frame(Full(s), c) = s + c
          BY <2>6, Frames
        <5>5. Frame(Full(KernelMemAddr + b * 512), c) = KernelMemAddr + b * 512 + c
          BY Zenon, <5>3, <5>4
        <5> QED
          BY Zenon, <5>2, <5>5 DEF KernelRun
      <4>4. p # None /\ Direct(a, b, c) /\ p = Walk(t, p)
        BY <2>3, <2>6, <2>7, <2>9, <3>3, <4>3 DEF Direct
      <4> QED
        BY <2>3, <4>4
    <3>4. CASE ~(b < 8)
      <4>1. Walk(t, p) = None
        BY <2>5, <3>1, <3>2, <3>4
      <4>2. ~Direct(a, b, c)
        BY <2>9, <3>4 DEF Direct
      <4> QED
        BY <2>3, <2>9, <4>1, <4>2
    <3> QED
      BY <3>3, <3>4
  <2>10. CASE a = 3
    <3>1. pdp[t][a] = <<"io">>
      BY <1>1, <1>2, <2>10 DEF PdpInv
    <3>2. pd[<<"io">>][b] = IF b = 0 THEN <<"fb">> ELSE IF b = 504 THEN <<"lapic">> ELSE NoTable
      BY <1>1, <1>2 DEF PdInv
    <3>3. CASE b = 0
      <4>1. pt[<<"fb">>] = Full(FrameBufAddr)
        BY <1>1, <1>2 DEF PtInv
      <4>2. Walk(t, p) = FrameBufAddr + c
        <5>1. <<"io">> # NoTable /\ <<"fb">> # NoTable
          BY Tables, PageTables
        <5>2. Walk(t, p) = Frame(Full(FrameBufAddr), c)
          BY <2>5, <3>1, <3>2, <3>3, <4>1, <5>1
        <5> QED
          BY <2>6, <5>2, Frames
      <4>3. p # None /\ Direct(a, b, c) /\ p = Walk(t, p)
        BY <2>3, <2>7, <2>10, <3>3, <4>2 DEF Direct
      <4> QED
        BY <2>3, <4>3
    <3>4. CASE b = 504
      <4>1. pt[<<"lapic">>] = One(LapicBufAddr)
        BY <1>1, <1>2 DEF PtInv
      <4>2. Walk(t, p) = IF c = 0 THEN LapicBufAddr ELSE None
        <5>1. <<"io">> # NoTable /\ <<"lapic">> # NoTable
          BY Tables, PageTables
        <5>2. pd[pdp[t][a]][b] = <<"lapic">>
          BY <3>1, <3>2, <3>4
        <5>3. Walk(t, p) = Frame(One(LapicBufAddr), c)
          BY <2>5, <3>1, <4>1, <5>1, <5>2
        <5> QED
          BY <2>6, <5>3, Frames
      <4>3. Direct(a, b, c) <=> c = 0
        BY <2>10, <3>4 DEF Direct
      <4>4. p # None
        BY <2>7
      <4> QED
        BY <2>3, <2>10, <3>4, <4>2, <4>3, <4>4
    <3>5. CASE b \notin {0, 504}
      <4>1. Walk(t, p) = None
        BY <2>5, <3>1, <3>2, <3>5
      <4>2. ~Direct(a, b, c)
        BY <2>10, <3>5 DEF Direct
      <4> QED
        BY <2>3, <2>10, <4>1, <4>2
    <3> QED
      BY <3>3, <3>4, <3>5
  <2>11. CASE a \notin {1, 3, 4}
    <3>1. pdp[t][a] = NoTable \/ (t = 0 /\ a = 12 /\ Mapped)
      BY <1>1, <2>11 DEF PdpInv
    <3>2. Promised(t, p) = None
      BY <2>3, <2>11 DEF Direct
    <3>3. CASE pdp[t][a] = NoTable
      <4>1. Walk(t, p) = None
        BY <2>5, <3>3
      <4>2. ~(t = 0 /\ p = AdditionalPage /\ Mapped)
        BY <2>3, <3>3, Tables DEF Mapped
      <4> QED
        BY <3>2, <4>1, <4>2
    <3>4. CASE t = 0 /\ a = 12 /\ Mapped
      <4>1. pdp[t][a] = Additional
        BY <3>4 DEF Mapped
      <4>2. pd[Additional][b] = IF b = 0 THEN Additional ELSE NoTable
        BY <1>1, <3>4 DEF PdInv
      <4>3. pt[Additional] = One(AdditionalPhys)
        BY <1>1, <3>4 DEF PtInv
      <4>4. Walk(t, p) = IF b = 0 /\ c = 0 THEN AdditionalPhys ELSE None
        <5>1. Additional # NoTable
          BY Tables
        <5>2. Walk(t, p) = IF b = 0 THEN Frame(One(AdditionalPhys), c) ELSE None
          BY <2>5, <4>1, <4>2, <4>3, <5>1
        <5> QED
          BY <2>6, <5>2, Frames
      <4> QED
        BY <2>3, <3>2, <3>4, <4>4
    <3> QED
      BY <3>1, <3>3, <3>4
  <2> QED
    BY <2>8, <2>9, <2>10, <2>11
<1> QED
  BY <1>3, <1>4

-----------------------------------------------------------------------------
(***************************************************************************)
(* The initial state and the steps                                         *)
(***************************************************************************)
\* Page tables of different kinds, or with different numbers, are different.
LEMMA PageTablesDiffer ==
  /\ <<"lapic">> # <<"fb">> /\ <<"lapic">> # Additional /\ <<"fb">> # Additional
  /\ \A t \in Tasks, j \in 0 .. 7 :
       /\ <<"task", t, j>> \notin {<<"lapic">>, <<"fb">>, Additional}
       /\ <<"kernel", j>> \notin {<<"lapic">>, <<"fb">>, Additional}
  /\ \A t, u \in Tasks, j, k \in 0 .. 7 :
       /\ <<"task", t, j>> # <<"kernel", k>>
       /\ <<"task", t, j>> = <<"task", u, k>> => t = u /\ j = k
       /\ <<"kernel", j>> = <<"kernel", k>> => j = k
<1>1. /\ <<"lapic">>[1] = "lapic" /\ <<"fb">>[1] = "fb" /\ Additional[1] = "additional"
  BY DEF Additional
<1>2. \A t \in Tasks, j \in 0 .. 7 :
        /\ <<"task", t, j>>[1] = "task" /\ <<"task", t, j>>[2] = t /\ <<"task", t, j>>[3] = j
        /\ <<"kernel", j>>[1] = "kernel" /\ <<"kernel", j>>[2] = j
  OBVIOUS
<1>3. /\ <<"lapic">> # <<"fb">> /\ <<"lapic">> # Additional /\ <<"fb">> # Additional
  BY <1>1
<1>4. \A t \in Tasks, j \in 0 .. 7 :
       /\ <<"task", t, j>> \notin {<<"lapic">>, <<"fb">>, Additional}
       /\ <<"kernel", j>> \notin {<<"lapic">>, <<"fb">>, Additional}
  BY <1>1, <1>2
<1>5. \A t, u \in Tasks, j, k \in 0 .. 7 :
       /\ <<"task", t, j>> # <<"kernel", k>>
       /\ <<"task", t, j>> = <<"task", u, k>> => t = u /\ j = k
       /\ <<"kernel", j>> = <<"kernel", k>> => j = k
  BY <1>2
<1> QED
  BY <1>3, <1>4, <1>5

LEMMA Runs ==
  /\ NoRun \in Run
  /\ \A start \in Nat : Full(start) \in Run /\ One(start) \in Run
BY SMT, Numbers DEF NoRun, Full, One, Run

\* The page tables' part of TypeOK.
LEMMA RunsType ==
  ASSUME NEW table
  PROVE  table \in [PTs -> Run] <=>
           /\ table \in [PTs -> [first : Index, count : 0 .. Entries, base : Nat]]
           /\ \A p \in PTs : table[p].first + table[p].count <= Entries
BY Zenon DEF Run

\* A store within a table is what EXCEPT writes.
LEMMA StoredInside ==
  ASSUME NEW S, NEW table \in [Index -> S], NEW k \in Index, NEW entry
  PROVE  Stored(Slot(k, entry), table) = [table EXCEPT ![k] = entry]
<1>1. DOMAIN table \union DOMAIN Slot(k, entry) = Index /\ DOMAIN Slot(k, entry) = {k}
  BY DEF Slot
<1>2. Slot(k, entry)[k] = entry
  BY DEF Slot
<1> QED
  BY <1>1, <1>2 DEF Stored

LEMMA StoredInPd ==
  \A table \in [Index -> PTs \union {NoTable}], k \in Index : \A entry :
    Stored(Slot(k, entry), table) = [table EXCEPT ![k] = entry]
BY StoredInside, Zenon

LEMMA StoredInPdp ==
  \A table \in [Index -> PDs \union {NoTable}], k \in Index : \A entry :
    Stored(Slot(k, entry), table) = [table EXCEPT ![k] = entry]
BY StoredInside, Zenon

LEMMA Addresses ==
  /\ LapicBufAddr \in Nat /\ FrameBufAddr \in Nat /\ AdditionalPhys \in Nat
  /\ \A j \in 0 .. 8 : KernelMemAddr + j * 512 \in Nat
  /\ \A t \in Tasks, j \in 0 .. 8 : TaskPhys(t) + j * 512 \in Nat
BY SMT, Numbers DEF LapicBufAddr, FrameBufAddr, AdditionalPhys, KernelMemAddr, TaskPhys

\* A step that makes no access and does not stop the kernel.
LEMMA AccessStays ==
  ASSUME AccessInv, UNCHANGED access, pc' # "panic"
  PROVE  AccessInv'
BY DEF AccessInv, Isolated

LEMMA InitInv ==
  ASSUME Init
  PROVE  IInv
<1>1. /\ pc = "lapic" /\ i = 0 /\ KernelBuilt = 0 /\ TasksBuilt = 0 /\ ~Ready
  BY DEF Init, KernelBuilt, TasksBuilt, Ready
<1>2. 0 \in Tasks /\ 12 \in Index /\ (\A t \in Tasks : ~(t < 0)) /\ (\A k \in Index : ~(k < 0))
  BY Numbers
<1>3. ~Mapped
  BY <1>2, Tables DEF Init, Mapped
<1>4. TypeOK
  <2>1. pt \in [PTs -> Run]
    BY Runs DEF Init
  <2>2. /\ pt \in [PTs -> [first : Index, count : 0 .. Entries, base : Nat]]
        /\ \A p \in PTs : pt[p].first + pt[p].count <= Entries
    BY <2>1, RunsType
  <2>3. /\ pml4 \in [Tasks -> [Index -> BOOLEAN]]
        /\ pdp \in [Tasks -> [Index -> PDs \union {NoTable}]]
        /\ pd \in [PDs -> [Index -> PTs \union {NoTable}]]
    BY DEF Init
  <2>4. i \in 0 .. NKernelPTs
    BY <1>1, Numbers
  <2> QED
    BY <1>1, <2>2, <2>3, <2>4 DEF TypeOK
<1>5. LoopInv
  BY <1>1 DEF LoopInv
<1>6. PtInv
  BY <1>1, <1>2, <1>3 DEF PtInv
<1>7. PdInv
  BY <1>1, <1>2, <1>3, Tables DEF Init, PdInv
<1>8. PdpInv
  BY <1>1, <1>2 DEF Init, PdpInv
<1>9. AccessInv
  BY <1>1, <1>2 DEF Init, AccessInv, Isolated
<1> QED
  BY <1>4, <1>5, <1>6, <1>7, <1>8, <1>9 DEF IInv

LEMMA LapicTableStep ==
  ASSUME IInv, LapicTable
  PROVE  IInv'
<1> USE DEF IInv
<1>1. /\ pc = "lapic" /\ pc' = "fb" /\ KernelBuilt = 0 /\ KernelBuilt' = 0
      /\ TasksBuilt = 0 /\ TasksBuilt' = 0 /\ ~Ready /\ ~Ready'
      /\ UNCHANGED <<i, pml4, pdp, pd, access>>
  BY DEF LapicTable, KernelBuilt, TasksBuilt, Ready
<1>2. /\ pt' = [pt EXCEPT ![<<"lapic">>] = One(LapicBufAddr)]
  BY Numbers DEF LapicTable, One
<1>3. Mapped' = Mapped
  BY <1>1 DEF Mapped
<1>4. TypeOK'
  <2>1. pt \in [PTs -> Run]
    BY RunsType DEF TypeOK
  <2>2. pt' \in [PTs -> Run]
    BY <1>2, <2>1, Runs, Addresses
  <2> QED
    BY <1>1, <2>2, RunsType DEF TypeOK
<1>5. LoopInv'
  BY <1>1 DEF LoopInv
<1>6. PtInv'
  <2>1. pt'[<<"lapic">>] = One(LapicBufAddr)
    BY <1>2, PageTables DEF TypeOK
  <2>2. pt'[Additional] = pt[Additional]
    BY <1>2, PageTables, PageTablesDiffer DEF TypeOK
  <2>3. (\A j \in 0 .. 7 : ~(j < 0)) /\ \A t \in Tasks : ~(t < 0)
    BY Numbers
  <2> QED
    BY <1>1, <1>3, <2>1, <2>2, <2>3 DEF PtInv
<1>7. PdInv'
  BY <1>1, <1>3 DEF PdInv
<1>8. PdpInv'
  BY <1>1, <1>3 DEF PdpInv
<1>9. AccessInv'
  BY <1>1, AccessStays
<1> QED
  BY <1>4, <1>5, <1>6, <1>7, <1>8, <1>9

LEMMA FrameBufferTableStep ==
  ASSUME IInv, FrameBufferTable
  PROVE  IInv'
<1> USE DEF IInv
<1>1. /\ pc = "fb" /\ pc' = "io" /\ KernelBuilt = 0 /\ KernelBuilt' = 0
      /\ TasksBuilt = 0 /\ TasksBuilt' = 0 /\ ~Ready /\ ~Ready'
      /\ UNCHANGED <<i, pml4, pdp, pd, access>>
  BY DEF FrameBufferTable, KernelBuilt, TasksBuilt, Ready
<1>2. pt' = [pt EXCEPT ![<<"fb">>] = Full(FrameBufAddr)]
  BY Numbers DEF FrameBufferTable, Full, FrameBufLen
<1>3. Mapped' = Mapped
  BY <1>1 DEF Mapped
<1>4. TypeOK'
  <2>1. pt \in [PTs -> Run]
    BY RunsType DEF TypeOK
  <2>2. pt' \in [PTs -> Run]
    BY <1>2, <2>1, Runs, Addresses
  <2> QED
    BY <1>1, <2>2, RunsType DEF TypeOK
<1>5. LoopInv'
  BY <1>1 DEF LoopInv
<1>6. PtInv'
  <2>1. pt'[<<"fb">>] = Full(FrameBufAddr)
    BY <1>2, PageTables DEF TypeOK
  <2>2. \A x \in PTs : x # <<"fb">> => pt'[x] = pt[x]
    BY <1>2 DEF TypeOK
  <2>3. pt'[<<"lapic">>] = One(LapicBufAddr) /\ pt'[Additional] = pt[Additional]
    BY <1>1, <2>2, PageTables, PageTablesDiffer DEF PtInv
  <2>4. (\A j \in 0 .. 7 : ~(j < 0)) /\ \A t \in Tasks : ~(t < 0)
    BY Numbers
  <2> QED
    BY <1>1, <1>3, <2>1, <2>3, <2>4 DEF PtInv
<1>7. PdInv'
  BY <1>1, <1>3 DEF PdInv
<1>8. PdpInv'
  BY <1>1, <1>3 DEF PdpInv
<1>9. AccessInv'
  BY <1>1, AccessStays
<1> QED
  BY <1>4, <1>5, <1>6, <1>7, <1>8, <1>9

LEMMA IoDirectoryStep ==
  ASSUME IInv, IoDirectory
  PROVE  IInv'
<1> USE DEF IInv
<1>1. /\ pc = "io" /\ pc' = "kernel" /\ i = 0 /\ KernelBuilt = 0 /\ KernelBuilt' = 0
      /\ TasksBuilt = 0 /\ TasksBuilt' = 0 /\ ~Ready /\ ~Ready'
      /\ UNCHANGED <<i, pml4, pdp, pt, access>>
  BY DEF IoDirectory, KernelBuilt, TasksBuilt, Ready, LoopInv
<1>2. pd' = [pd EXCEPT ![<<"io">>] = [k \in Index |->
               IF k = 0 THEN <<"fb">> ELSE IF k = 504 THEN <<"lapic">> ELSE pd[<<"io">>][k]]]
  <2> DEFINE old   == pd[<<"io">>]
             first == [old EXCEPT ![504] = <<"lapic">>]
  <2>1. old \in [Index -> PTs \union {NoTable}]
    <3>1. pd \in [PDs -> [Index -> PTs \union {NoTable}]]
      BY DEF TypeOK
    <3>2. <<"io">> \in PDs
      BY Tables
    <3> QED
      BY <3>1, <3>2
  <2>2. 0 \in Index /\ 504 \in Index
    BY Numbers
  <2>3. pd' = [pd EXCEPT ![<<"io">>] =
                  Stored(Slot(0, <<"fb">>), Stored(Slot(504, <<"lapic">>), old))]
    BY Numbers DEF IoDirectory
  <2> HIDE DEF old
  <2>4. first \in [Index -> PTs \union {NoTable}]
    <3>1. <<"lapic">> \in PTs \union {NoTable}
      BY PageTables
    <3> QED
      BY <2>1, <3>1
  <2>5. Stored(Slot(504, <<"lapic">>), old) = first
    <3>1. \A entry : Stored(Slot(504, entry), old) = [old EXCEPT ![504] = entry]
      BY <2>1, <2>2, StoredInPd
    <3> QED
      BY <3>1
  <2>6. [first EXCEPT ![0] = <<"fb">>]
          = [k \in Index |-> IF k = 0 THEN <<"fb">> ELSE IF k = 504 THEN <<"lapic">> ELSE old[k]]
    BY <2>1
  <2> HIDE DEF first
  <2>7. Stored(Slot(0, <<"fb">>), first) = [first EXCEPT ![0] = <<"fb">>]
    BY <2>2, <2>4, StoredInPd
  <2>8. pd' = [pd EXCEPT ![<<"io">>] = [k \in Index |->
                 IF k = 0 THEN <<"fb">> ELSE IF k = 504 THEN <<"lapic">> ELSE old[k]]]
    BY <2>3, <2>5, <2>6, <2>7
  <2> QED
    BY <2>8 DEF old
<1>3. Mapped' = Mapped
  BY <1>1 DEF Mapped
<1>4. TypeOK'
  <2>1. pd' \in [PDs -> [Index -> PTs \union {NoTable}]]
    <3>1. pd \in [PDs -> [Index -> PTs \union {NoTable}]]
      BY DEF TypeOK
    <3>2. [k \in Index |-> IF k = 0 THEN <<"fb">> ELSE IF k = 504 THEN <<"lapic">>
                           ELSE pd[<<"io">>][k]] \in [Index -> PTs \union {NoTable}]
      BY <3>1, Tables, PageTables
    <3> QED
      BY <1>2, <3>1, <3>2, Zenon
  <2> QED
    BY <1>1, <2>1 DEF TypeOK
<1>5. LoopInv'
  BY <1>1 DEF LoopInv
<1>6. PtInv'
  BY <1>1, <1>3 DEF PtInv
<1>7. PdInv'
  <2>1. \A k \in Index : pd'[<<"io">>][k] =
          IF k = 0 THEN <<"fb">> ELSE IF k = 504 THEN <<"lapic">> ELSE NoTable
    BY <1>1, <1>2, Tables DEF PdInv, TypeOK
  <2>2. \A d \in PDs : d # <<"io">> => pd'[d] = pd[d]
    BY <1>2 DEF TypeOK
  <2> QED
    BY <1>1, <1>3, <2>1, <2>2, Tables DEF PdInv
<1>8. PdpInv'
  BY <1>1, <1>3 DEF PdpInv
<1>9. AccessInv'
  BY <1>1, AccessStays
<1> QED
  BY <1>4, <1>5, <1>6, <1>7, <1>8, <1>9

LEMMA KernelTableStep ==
  ASSUME IInv, KernelTable
  PROVE  IInv'
<1> USE DEF IInv
<1>1. /\ pc = "kernel" /\ pc' = "kernel" /\ i \in 0 .. 7 /\ i' = i + 1
      /\ KernelBuilt = i /\ KernelBuilt' = i + 1
      /\ TasksBuilt = 0 /\ TasksBuilt' = 0 /\ ~Ready /\ ~Ready'
      /\ UNCHANGED <<pml4, pdp, access>>
  BY Numbers DEF KernelTable, KernelBuilt, TasksBuilt, Ready, LoopInv
<1>2. pt' = [pt EXCEPT ![<<"kernel", i>>] = KernelRun(i)]
  BY Numbers DEF KernelTable, KernelRun, Full
<1>3. pd' = [pd EXCEPT ![<<"kernel">>] = [pd[<<"kernel">>] EXCEPT ![i] = <<"kernel", i>>]]
  <2>1. i + KernelPtBase = i /\ i \in Index
    BY <1>1, Numbers
  <2>2. pd[<<"kernel">>] \in [Index -> PTs \union {NoTable}]
    BY Tables DEF TypeOK
  <2>3. Stored(Slot(i, <<"kernel", i>>), pd[<<"kernel">>])
          = [pd[<<"kernel">>] EXCEPT ![i] = <<"kernel", i>>]
    BY <2>1, <2>2, StoredInside
  <2> QED
    BY <2>1, <2>3 DEF KernelTable
<1>4. Mapped' = Mapped
  BY <1>1 DEF Mapped
<1>5. i \in Index /\ i + 1 \in 0 .. 8
  BY <1>1, Numbers
<1>6. KernelRun(i) \in Run
  <2>1. \A n \in 0 .. 8 : KernelMemAddr + n * 512 \in Nat
    BY Addresses
  <2>2. i \in 0 .. 8
    BY <1>1
  <2>3. KernelMemAddr + i * 512 \in Nat
    BY <2>1, <2>2, Zenon
  <2> QED
    BY <2>3, Runs, Zenon DEF KernelRun
<1>7. TypeOK'
  <2>1. <<"kernel", i>> \in PTs /\ <<"kernel">> \in PDs
    BY <1>1, PageTables, Tables
  <2>2. pt' \in [PTs -> Run]
    BY <1>2, <1>6, <2>1, RunsType, Zenon DEF TypeOK
  <2>3. pd' \in [PDs -> [Index -> PTs \union {NoTable}]]
    BY <1>3, <1>5, <2>1 DEF TypeOK
  <2>4. i' \in 0 .. NKernelPTs
    BY <1>1, <1>5, Numbers
  <2> QED
    BY <1>1, <2>2, <2>3, <2>4, RunsType DEF TypeOK
<1>8. LoopInv'
  BY <1>1, <1>5 DEF LoopInv
<1>9. PtInv'
  <2>1. pt'[<<"kernel", i>>] = KernelRun(i)
    BY <1>1, <1>2, PageTables DEF TypeOK
  <2>2. \A x \in PTs : x # <<"kernel", i>> => pt'[x] = pt[x]
    BY <1>2 DEF TypeOK
  <2>3. \A j \in 0 .. 7 : j < i + 1 => pt'[<<"kernel", j>>] = KernelRun(j)
    <3> SUFFICES ASSUME NEW j \in 0 .. 7, j < i + 1
                 PROVE  pt'[<<"kernel", j>>] = KernelRun(j)
      OBVIOUS
    <3>1. CASE j = i
      BY <2>1, <3>1
    <3>2. CASE j # i
      <4>1. j < i
        BY <1>1, <3>2
      <4>2. pt[<<"kernel", j>>] = KernelRun(j)
        BY <1>1, <4>1 DEF PtInv
      <4> QED
        BY <1>1, <2>2, <3>2, <4>2, PageTables, PageTablesDiffer
    <3> QED
      BY <3>1, <3>2
  <2>4. /\ pt'[<<"lapic">>] = pt[<<"lapic">>] /\ pt'[<<"fb">>] = pt[<<"fb">>]
        /\ pt'[Additional] = pt[Additional]
    <3>1. <<"kernel", i>> \notin {<<"lapic">>, <<"fb">>, Additional}
      BY <1>1, PageTablesDiffer, Numbers
    <3> QED
      BY <2>2, <3>1, PageTables
  <2>5. \A t \in Tasks : ~(t < 0)
    BY Numbers
  <2> QED
    BY <1>1, <1>4, <2>3, <2>4, <2>5 DEF PtInv
<1>10. PdInv'
  <2>1. \A k \in Index : pd'[<<"kernel">>][k] =
          IF k = i THEN <<"kernel", i>> ELSE pd[<<"kernel">>][k]
    BY <1>3, Tables DEF TypeOK
  <2>2. \A d \in PDs : d # <<"kernel">> => pd'[d] = pd[d]
    BY <1>3 DEF TypeOK
  <2>3. \A k \in Index : k < i + 1 <=> k < i \/ k = i
    BY <1>1, Numbers
  <2>4. \A k \in Index :
          pd'[<<"kernel">>][k] = IF k < i + 1 THEN <<"kernel", k>> ELSE NoTable
    <3>1. \A k \in Index : pd[<<"kernel">>][k] = IF k < i THEN <<"kernel", k>> ELSE NoTable
      BY <1>1 DEF PdInv
    <3>2. SUFFICES ASSUME NEW k \in Index
                   PROVE  pd'[<<"kernel">>][k] = IF k < i + 1 THEN <<"kernel", k>> ELSE NoTable
      OBVIOUS
    <3>3. CASE k = i
      BY <2>1, <2>3, <3>3
    <3>4. CASE k # i
      BY <2>1, <2>3, <3>1, <3>4
    <3> QED
      BY <3>3, <3>4
  <2>5. /\ pd'[<<"io">>] = pd[<<"io">>] /\ pd'[Additional] = pd[Additional]
        /\ \A t \in Tasks : pd'[<<"task", t>>] = pd[<<"task", t>>]
    BY <2>2, Tables
  <2> QED
    BY <1>1, <1>4, <2>4, <2>5 DEF PdInv
<1>11. PdpInv'
  BY <1>1, <1>4 DEF PdpInv
<1>12. AccessInv'
  BY <1>1, AccessStays
<1> QED
  BY <1>7, <1>8, <1>9, <1>10, <1>11, <1>12

LEMMA KernelDoneStep ==
  ASSUME IInv, KernelDone
  PROVE  IInv'
<1> USE DEF IInv
<1>1. /\ pc = "kernel" /\ pc' = "tasks" /\ i = 8 /\ i' = 0
      /\ KernelBuilt = 8 /\ KernelBuilt' = 8
      /\ TasksBuilt = 0 /\ TasksBuilt' = 0 /\ ~Ready /\ ~Ready'
      /\ UNCHANGED <<pml4, pdp, pd, pt, access>>
  BY Numbers DEF KernelDone, KernelBuilt, TasksBuilt, Ready
<1>2. Mapped' = Mapped
  BY <1>1 DEF Mapped
<1>3. TypeOK'
  <2>1. i' \in 0 .. NKernelPTs
    BY <1>1, Numbers
  <2> QED
    BY <1>1, <2>1 DEF TypeOK
<1>4. LoopInv'
  BY <1>1 DEF LoopInv
<1>5. PtInv'
  BY <1>1, <1>2 DEF PtInv
<1>6. PdInv'
  BY <1>1, <1>2 DEF PdInv
<1>7. PdpInv'
  BY <1>1, <1>2 DEF PdpInv
<1>8. AccessInv'
  BY <1>1, AccessStays
<1> QED
  BY <1>3, <1>4, <1>5, <1>6, <1>7, <1>8

LEMMA TaskTablesStep ==
  ASSUME IInv, TaskTables
  PROVE  IInv'
<1> USE DEF IInv
<1>1. /\ pc = "tasks" /\ pc' = "tasks" /\ i \in Tasks /\ i' = i + 1
      /\ KernelBuilt = 8 /\ KernelBuilt' = 8
      /\ TasksBuilt = i /\ TasksBuilt' = i + 1 /\ ~Ready /\ ~Ready'
      /\ UNCHANGED access
  BY DEF TaskTables, KernelBuilt, TasksBuilt, Ready
<1>2. \A x \in PTs : pt'[x] = IF \E j \in 0 .. 7 : x = <<"task", i, j>>
                              THEN TaskRun(i, x[3]) ELSE pt[x]
  BY Numbers DEF TaskTables, TaskRun, Full, PhysBase
<1>3. pd' = [pd EXCEPT ![<<"task", i>>] = [k \in Index |->
               IF k < 8 THEN <<"task", i, k>> ELSE pd[<<"task", i>>][k]]]
  <2> DEFINE new == [k \in PtIndexBase .. PtIndexBase + NTaskPTs-1 |->
                       <<"task", i, k - PtIndexBase>>]
  <2>1. DOMAIN new = 0 .. 7 /\ \A k \in 0 .. 7 : new[k] = <<"task", i, k>>
    BY Numbers
  <2>2. DOMAIN pd[<<"task", i>>] = Index
    BY <1>1, Tables DEF TypeOK
  <2>3. Index \union 0 .. 7 = Index /\ \A k \in Index : k \in 0 .. 7 <=> k < 8
    BY Numbers
  <2>4. Stored(new, pd[<<"task", i>>])
          = [k \in Index |-> IF k < 8 THEN <<"task", i, k>> ELSE pd[<<"task", i>>][k]]
    BY <2>1, <2>2, <2>3 DEF Stored
  <2>5. pd' = [pd EXCEPT ![<<"task", i>>] = Stored(new, pd[<<"task", i>>])]
    BY DEF TaskTables
  <2> QED
    BY <2>4, <2>5
<1>4. pdp' = [pdp EXCEPT ![i] = [[[pdp[i] EXCEPT ![1] = <<"task", i>>]
                                    EXCEPT ![3] = <<"io">>] EXCEPT ![4] = <<"kernel">>]]
  <2> DEFINE S == PDs \union {NoTable}
             a == [pdp[i] EXCEPT ![1] = <<"task", i>>]
             b == [a EXCEPT ![3] = <<"io">>]
  <2>1. {1, 3, 4} \subseteq Index /\ pdp[i] \in [Index -> S]
    <3>1. {1, 3, 4} \subseteq Index
      BY Numbers
    <3>2. pdp \in [Tasks -> [Index -> S]]
      BY Zenon DEF TypeOK
    <3> QED
      BY <1>1, <3>1, <3>2
  <2>2. a \in [Index -> S] /\ Stored(Slot(1, <<"task", i>>), pdp[i]) = a
    <3>1. 1 \in Index /\ <<"task", i>> \in S
      BY <1>1, <2>1, Tables
    <3> QED
      BY <2>1, <3>1, StoredInPdp
  <2> HIDE DEF a
  <2>3. b \in [Index -> S] /\ Stored(Slot(3, <<"io">>), a) = b
    <3>1. 3 \in Index /\ <<"io">> \in S
      BY <2>1, Tables
    <3> QED
      BY <2>2, <3>1, StoredInPdp
  <2> HIDE DEF b
  <2>4. Stored(Slot(4, <<"kernel">>), b) = [b EXCEPT ![4] = <<"kernel">>]
    BY <2>1, <2>3, StoredInPdp
  <2>5. pdp' = [pdp EXCEPT ![i] = Stored(Slot(4, <<"kernel">>), Stored(Slot(3, <<"io">>),
                                    Stored(Slot(1, <<"task", i>>), pdp[i])))]
    BY Numbers DEF TaskTables
  <2>6. pdp' = [pdp EXCEPT ![i] = [b EXCEPT ![4] = <<"kernel">>]]
    BY <2>2, <2>3, <2>4, <2>5
  <2> QED
    BY <2>6 DEF a, b
<1>5. pml4' = [pml4 EXCEPT ![i] = [pml4[i] EXCEPT ![0] = TRUE]]
  <2>1. pml4[i] \in [Index -> BOOLEAN] /\ 0 \in Index
    <3>1. 0 \in Index
      BY Numbers
    <3>2. pml4 \in [Tasks -> [Index -> BOOLEAN]]
      BY Zenon DEF TypeOK
    <3> QED
      BY <1>1, <3>1, <3>2
  <2>2. Stored(Slot(0, TRUE), pml4[i]) = [pml4[i] EXCEPT ![0] = TRUE]
    BY <2>1, StoredInside
  <2> QED
    BY <2>2, Numbers DEF TaskTables
<1>6. \A t \in Tasks : (t < i + 1 <=> t < i \/ t = i)
  BY <1>1, Numbers
<1>7. {0, 1, 3, 4, 12} \subseteq Index /\ i + 1 \in 0 .. 3
  BY <1>1, Numbers
<1>8. /\ \A k \in Index \ {1, 3, 4} : pdp'[i][k] = pdp[i][k]
      /\ pdp'[i][1] = <<"task", i>> /\ pdp'[i][3] = <<"io">> /\ pdp'[i][4] = <<"kernel">>
      /\ \A t \in Tasks \ {i} : pdp'[t] = pdp[t]
  BY <1>1, <1>4, <1>7 DEF TypeOK
<1>9. Mapped' = Mapped
  <2>1. 0 \in Tasks /\ 12 \in Index \ {1, 3, 4}
    BY Numbers
  <2> QED
    BY <1>8, <2>1 DEF Mapped
<1>10. TypeOK'
  <2>1. pt' \in [PTs -> Run]
    <3>1. \A j \in 0 .. 7 : /\ TaskRun(i, j) \in Run
                            /\ <<"task", i, j>>[3] = j
      <4>1. \A j \in 0 .. 7 : TaskPhys(i) + j * 512 \in Nat
        BY <1>1, Addresses
      <4> QED
        BY <4>1, Runs DEF TaskRun
    <3>2. \A x \in PTs : pt'[x] \in Run
      <4> SUFFICES ASSUME NEW x \in PTs
                   PROVE  pt'[x] \in Run
        OBVIOUS
      <4>1. CASE \E j \in 0 .. 7 : x = <<"task", i, j>>
        <5>1. PICK j \in 0 .. 7 : x = <<"task", i, j>>
          BY <4>1
        <5>2. pt'[x] = TaskRun(i, x[3])
          BY <1>2, <4>1, Zenon
        <5>3. x[3] = j
          BY <5>1
        <5> QED
          BY <3>1, <5>2, <5>3, Zenon
      <4>2. CASE ~ \E j \in 0 .. 7 : x = <<"task", i, j>>
        <5>1. pt'[x] = pt[x]
          BY <1>2, <4>2, Zenon
        <5>2. pt \in [PTs -> Run]
          BY RunsType DEF TypeOK
        <5> QED
          BY <5>1, <5>2, Zenon
      <4> QED
        BY <4>1, <4>2
    <3>3. pt' = [x \in PTs |-> pt'[x]]
      BY DEF TaskTables
    <3> QED
      BY <3>2, <3>3
  <2>2. pd' \in [PDs -> [Index -> PTs \union {NoTable}]]
    <3>1. pd \in [PDs -> [Index -> PTs \union {NoTable}]]
      BY DEF TypeOK
    <3>2. \A k \in Index : k < 8 => k \in 0 .. 7
      BY Numbers
    <3>3. \A k \in Index : k < 8 => <<"task", i, k>> \in PTs
      BY <1>1, <3>2, PageTables, Zenon
    <3>4. [k \in Index |-> IF k < 8 THEN <<"task", i, k>> ELSE pd[<<"task", i>>][k]]
            \in [Index -> PTs \union {NoTable}]
      BY <1>1, <3>1, <3>3, Tables
    <3> QED
      BY <1>3, <3>1, <3>4, Zenon
  <2>3. pdp' \in [Tasks -> [Index -> PDs \union {NoTable}]]
    BY <1>1, <1>4, <1>7, Tables DEF TypeOK
  <2>4. pml4' \in [Tasks -> [Index -> BOOLEAN]]
    BY <1>1, <1>5, <1>7 DEF TypeOK
  <2>5. i' \in 0 .. NKernelPTs
    BY <1>1, <1>7, Numbers
  <2> QED
    BY <1>1, <2>1, <2>2, <2>3, <2>4, <2>5, RunsType DEF TypeOK
<1>11. LoopInv'
  BY <1>1, <1>7 DEF LoopInv
<1>12. PtInv'
  <2>1. \A j \in 0 .. 7 : pt'[<<"task", i, j>>] = TaskRun(i, j)
    BY <1>1, <1>2, PageTables
  <2>2. \A t \in Tasks \ {i}, j \in 0 .. 7 : pt'[<<"task", t, j>>] = pt[<<"task", t, j>>]
    BY <1>1, <1>2, PageTables, PageTablesDiffer
  <2>3. \A j \in 0 .. 7 : pt'[<<"kernel", j>>] = pt[<<"kernel", j>>]
    BY <1>1, <1>2, PageTables, PageTablesDiffer
  <2>4. /\ pt'[<<"lapic">>] = pt[<<"lapic">>] /\ pt'[<<"fb">>] = pt[<<"fb">>]
        /\ pt'[Additional] = pt[Additional]
    BY <1>1, <1>2, PageTables, PageTablesDiffer
  <2>5. \A t \in Tasks, j \in 0 .. 7 : t < i + 1 => pt'[<<"task", t, j>>] = TaskRun(t, j)
    <3> SUFFICES ASSUME NEW t \in Tasks, NEW j \in 0 .. 7, t < i + 1
                 PROVE  pt'[<<"task", t, j>>] = TaskRun(t, j)
      OBVIOUS
    <3>1. CASE t = i
      BY <2>1, <3>1
    <3>2. CASE t # i
      BY <1>1, <1>6, <2>2, <3>2 DEF PtInv
    <3> QED
      BY <3>1, <3>2
  <2> QED
    BY <1>1, <1>9, <2>3, <2>4, <2>5 DEF PtInv
<1>13. PdInv'
  <2>1. \A k \in Index : pd'[<<"task", i>>][k] =
          IF k < 8 THEN <<"task", i, k>> ELSE pd[<<"task", i>>][k]
    BY <1>1, <1>3, Tables DEF TypeOK
  <2>2. \A d \in PDs : d # <<"task", i>> => pd'[d] = pd[d]
    BY <1>3 DEF TypeOK
  <2>3. ~(i < i)
    BY <1>1, Numbers
  <2>4. \A k \in Index : pd[<<"task", i>>][k] = NoTable
    <3>1. \A t \in Tasks, k \in Index : pd[<<"task", t>>][k] =
            IF t < i /\ k < 8 THEN <<"task", t, k>> ELSE NoTable
      <4>1. \A t \in Tasks, k \in Index : pd[<<"task", t>>][k] =
              IF t < TasksBuilt /\ k < 8 THEN <<"task", t, k>> ELSE NoTable
        BY Zenon DEF PdInv
      <4>2. TasksBuilt = i
        BY <1>1
      <4> QED
        BY <4>1, <4>2, Zenon
    <3>2. \A t \in Tasks : ~(t < i) => \A k \in Index : pd[<<"task", t>>][k] = NoTable
      BY <3>1, Zenon
    <3> QED
      BY <1>1, <2>3, <3>2, Zenon
  <2>5. \A t \in Tasks, k \in Index :
          pd'[<<"task", t>>][k] = IF t < i + 1 /\ k < 8 THEN <<"task", t, k>> ELSE NoTable
    <3> SUFFICES ASSUME NEW t \in Tasks, NEW k \in Index
                 PROVE  pd'[<<"task", t>>][k] =
                          IF t < i + 1 /\ k < 8 THEN <<"task", t, k>> ELSE NoTable
      OBVIOUS
    <3>1. CASE t = i
      BY <1>6, <2>1, <2>4, <3>1
    <3>2. CASE t # i
      <4>1. pd'[<<"task", t>>] = pd[<<"task", t>>]
        BY <1>1, <2>2, <3>2, Tables
      <4>2. pd[<<"task", t>>][k] = IF t < i /\ k < 8 THEN <<"task", t, k>> ELSE NoTable
        BY <1>1 DEF PdInv
      <4> QED
        BY <1>6, <3>2, <4>1, <4>2
    <3> QED
      BY <3>1, <3>2
  <2>6. /\ pd'[<<"io">>] = pd[<<"io">>] /\ pd'[Additional] = pd[Additional]
        /\ pd'[<<"kernel">>] = pd[<<"kernel">>]
    BY <1>1, <2>2, Tables
  <2> QED
    BY <1>1, <1>9, <2>5, <2>6 DEF PdInv
<1>14. PdpInv'
  <2>1. \A t \in Tasks : t < i + 1 =>
          pdp'[t][1] = <<"task", t>> /\ pdp'[t][3] = <<"io">> /\ pdp'[t][4] = <<"kernel">>
    BY <1>1, <1>6, <1>8 DEF PdpInv
  <2>2. \A t \in Tasks, k \in Index \ {1, 3, 4} : pdp'[t][k] = NoTable
    BY <1>1, <1>8 DEF PdpInv
  <2>3. \A t \in Tasks, k \in Index : pml4'[t][k] <=> (k = 0 /\ t < i + 1)
    <3>1. \A t \in Tasks, k \in Index : pml4'[t][k] = IF t = i /\ k = 0 THEN TRUE ELSE pml4[t][k]
      BY <1>1, <1>5 DEF TypeOK
    <3>2. \A t \in Tasks, k \in Index : pml4[t][k] <=> (k = 0 /\ t < i)
      BY <1>1 DEF PdpInv
    <3>3. ~(i < i)
      BY <1>1, Numbers
    <3>4. SUFFICES ASSUME NEW t \in Tasks, NEW k \in Index
                   PROVE  pml4'[t][k] <=> (k = 0 /\ t < i + 1)
      OBVIOUS
    <3>5. t < i + 1 <=> t < i \/ t = i
      BY <1>6
    <3>6. CASE t = i
      BY <3>1, <3>2, <3>3, <3>5, <3>6
    <3>7. CASE t # i
      <4>1. pml4'[t][k] = pml4[t][k]
        BY <3>1, <3>7
      <4> QED
        BY <3>2, <3>5, <3>7, <4>1
    <3> QED
      BY <3>6, <3>7
  <2> QED
    BY <1>1, <2>1, <2>2, <2>3 DEF PdpInv
<1>15. AccessInv'
  BY <1>1, AccessStays
<1> QED
  BY <1>10, <1>11, <1>12, <1>13, <1>14, <1>15

LEMMA TasksDoneStep ==
  ASSUME IInv, TasksDone
  PROVE  IInv'
<1> USE DEF IInv
<1>1. i = 3
  BY Numbers DEF TasksDone, LoopInv
<1>2. /\ pc = "tasks" /\ pc' = "run" /\ i' = i
      /\ KernelBuilt = 8 /\ KernelBuilt' = 8
      /\ TasksBuilt = 3 /\ TasksBuilt' = 3 /\ ~Ready /\ Ready'
      /\ UNCHANGED <<pml4, pdp, pd, pt, access>>
  BY <1>1 DEF TasksDone, KernelBuilt, TasksBuilt, Ready
<1>3. Mapped' = Mapped
  BY <1>2 DEF Mapped
<1>4. TypeOK'
  BY <1>2 DEF TypeOK
<1>5. LoopInv'
  BY <1>2 DEF LoopInv
<1>6. PtInv'
  BY <1>2, <1>3 DEF PtInv
<1>7. PdInv'
  BY <1>2, <1>3 DEF PdInv
<1>8. PdpInv'
  BY <1>2, <1>3 DEF PdpInv
<1>9. AccessInv'
  BY <1>2, AccessStays
<1> QED
  BY <1>4, <1>5, <1>6, <1>7, <1>8, <1>9

\* The memory of one task is promised to no other.
LEMMA PromisedApart ==
  ASSUME NEW t \in Tasks, NEW u \in Tasks \ {t}, NEW p \in Nat
  PROVE  /\ Promised(t, p) # None => ~Window(Promised(t, p), TaskPhys(u), TaskMemLen)
         /\ ~Window(AdditionalPhys, TaskPhys(u), TaskMemLen)
<1>1. t \in {0, 1, 2} /\ u \in {0, 1, 2} /\ t # u
  BY Numbers
<1>2. ~Window(AdditionalPhys, TaskPhys(u), TaskMemLen)
  BY SMT, <1>1 DEF Window, AdditionalPhys, TaskPhys, TaskMemLen
<1>3. CASE Window(p, TaskVaddrStart, TaskMemLen)
  <2>1. Promised(t, p) = TaskPhys(t) + (p - TaskVaddrStart)
    BY <1>3 DEF Promised
  <2>2. ~Window(TaskPhys(t) + (p - TaskVaddrStart), TaskPhys(u), TaskMemLen)
    BY SMT, <1>1, <1>3 DEF Window, TaskVaddrStart, TaskPhys, TaskMemLen
  <2> QED
    BY <1>2, <2>1, <2>2
<1>4. CASE ~Window(p, TaskVaddrStart, TaskMemLen)
  <2>1. SUFFICES ASSUME Promised(t, p) # None
                 PROVE  ~Window(Promised(t, p), TaskPhys(u), TaskMemLen)
    BY <1>2
  <2>2. /\ Promised(t, p) = p
        /\ Window(p, KernelMemAddr, KernelMemLen) \/ Window(p, FrameBufAddr, FrameBufLen)
             \/ p = LapicBufAddr
    BY <1>4, <2>1 DEF Promised
  <2>3. ~Window(p, TaskPhys(u), TaskMemLen)
    BY SMT, <1>1, <2>2 DEF Window, TaskPhys, TaskMemLen, KernelMemAddr, KernelMemLen,
       FrameBufAddr, FrameBufLen, LapicBufAddr
  <2> QED
    BY <2>2, <2>3
<1> QED
  BY <1>3, <1>4

\* The tables do not change in a step that only accesses memory.
LEMMA TablesStay ==
  ASSUME IInv, Ready, Ready', UNCHANGED <<i, pml4, pdp, pd, pt>>
  PROVE  TypeOK' /\ LoopInv' /\ PtInv' /\ PdInv' /\ PdpInv'
<1> USE DEF IInv
<1>1. /\ KernelBuilt = 8 /\ KernelBuilt' = 8 /\ TasksBuilt = 3 /\ TasksBuilt' = 3
      /\ Mapped' = Mapped
  BY DEF KernelBuilt, TasksBuilt, Ready, Mapped
<1>2. TypeOK' /\ LoopInv'
  BY DEF TypeOK, LoopInv, Ready
<1>3. PtInv'
  BY <1>1 DEF PtInv, Ready
<1>4. PdInv'
  BY <1>1 DEF PdInv, Ready
<1>5. PdpInv'
  BY <1>1 DEF PdpInv
<1> QED
  BY <1>2, <1>3, <1>4, <1>5

LEMMA AccessStep ==
  ASSUME IInv, NEW t \in Tasks, NEW p \in Nat, Access(t, p)
  PROVE  IInv'
<1>1. /\ Ready /\ Ready' /\ pc' = "run" /\ Walk(t, p) # None
      /\ access' = [task |-> t, page |-> p, frame |-> Walk(t, p)]
      /\ UNCHANGED <<i, pml4, pdp, pd, pt>>
  BY DEF Access, Ready
<1>2. TypeOK' /\ LoopInv' /\ PtInv' /\ PdInv' /\ PdpInv'
  BY <1>1, TablesStay
<1>3. Walk(t, p) = AdditionalPhys \/ (Promised(t, p) # None /\ Walk(t, p) = Promised(t, p))
  BY <1>1, WalkIs
<1>4. \A u \in Tasks \ {t} : ~Window(Walk(t, p), TaskPhys(u), TaskMemLen)
  BY <1>3, PromisedApart
<1>5. AccessInv'
  BY <1>1, <1>4 DEF AccessInv, Isolated
<1> QED
  BY <1>2, <1>5 DEF IInv

LEMMA PanicStep ==
  ASSUME IInv, NEW t \in Tasks, NEW p \in Nat, Panic(t, p)
  PROVE  IInv'
<1>1. /\ Ready /\ Ready' /\ pc' = "panic" /\ Walk(t, p) = None /\ p # AdditionalPage
      /\ access' = [task |-> t, page |-> p, frame |-> None]
      /\ UNCHANGED <<i, pml4, pdp, pd, pt>>
  BY DEF Panic, Ready
<1>2. TypeOK' /\ LoopInv' /\ PtInv' /\ PdInv' /\ PdpInv'
  BY <1>1, TablesStay
<1>3. Promised(t, p) = None
  BY <1>1, WalkIs
<1>4. AccessInv'
  BY <1>1, <1>3 DEF AccessInv, Isolated
<1> QED
  BY <1>2, <1>4 DEF IInv

LEMMA MapAdditionalStep ==
  ASSUME IInv, NEW t \in Tasks, MapAdditional(t)
  PROVE  IInv' /\ Mapped'
<1> USE DEF IInv
<1>1. /\ pc = "run" /\ pc' = "run" /\ Ready /\ Ready'
      /\ KernelBuilt = 8 /\ KernelBuilt' = 8 /\ TasksBuilt = 3 /\ TasksBuilt' = 3
      /\ UNCHANGED <<i, pml4, access>>
  BY DEF MapAdditional, KernelBuilt, TasksBuilt, Ready
<1>2. /\ pt' = [pt EXCEPT ![Additional] = One(AdditionalPhys)]
      /\ pd' = [pd EXCEPT ![Additional] = [pd[Additional] EXCEPT ![0] = Additional]]
      /\ pdp' = [pdp EXCEPT ![0] = [pdp[0] EXCEPT ![12] = Additional]]
  <2>1. /\ 0 \in Tasks /\ {0, 12} \subseteq Index
        /\ pd[Additional] \in [Index -> PTs \union {NoTable}]
        /\ pdp[0] \in [Index -> PDs \union {NoTable}]
    <3>1. 0 \in Tasks /\ {0, 12} \subseteq Index
      BY Numbers
    <3>2. pd \in [PDs -> [Index -> PTs \union {NoTable}]]
      BY DEF TypeOK
    <3>3. pdp \in [Tasks -> [Index -> PDs \union {NoTable}]]
      BY DEF TypeOK
    <3>4. Additional \in PDs
      BY Tables
    <3> QED
      BY <3>1, <3>2, <3>3, <3>4
  <2>2. /\ Stored(Slot(0, Additional), pd[Additional]) = [pd[Additional] EXCEPT ![0] = Additional]
        /\ Stored(Slot(12, Additional), pdp[0]) = [pdp[0] EXCEPT ![12] = Additional]
    <3>1. 0 \in Index /\ 12 \in Index
      BY <2>1
    <3> QED
      BY <2>1, <3>1, StoredInPd, StoredInPdp, Zenon
  <2> QED
    BY <2>2, Numbers DEF MapAdditional, One, Additional
<1>3. 0 \in Tasks /\ {0, 12} \subseteq Index /\ 12 \notin {1, 3, 4}
  BY Numbers
<1>4. Mapped'
  BY <1>2, <1>3 DEF TypeOK, Mapped
<1>5. /\ pt'[Additional] = One(AdditionalPhys)
      /\ \A x \in PTs : x # Additional => pt'[x] = pt[x]
  BY <1>2, PageTables DEF TypeOK
<1>6. /\ pd'[Additional][0] = Additional
      /\ \A k \in Index \ {0} : pd'[Additional][k] = pd[Additional][k]
      /\ \A d \in PDs : d # Additional => pd'[d] = pd[d]
  BY <1>2, <1>3, Tables DEF TypeOK
<1>7. \A u \in Tasks, k \in Index : ~(u = 0 /\ k = 12) => pdp'[u][k] = pdp[u][k]
  BY <1>2, <1>3 DEF TypeOK
<1>8. TypeOK'
  <2>1. pt' \in [PTs -> Run]
    <3>1. One(AdditionalPhys) \in Run
      BY Runs, Addresses
    <3> QED
      BY <1>2, <3>1, RunsType, Zenon DEF TypeOK
  <2>2. pd' \in [PDs -> [Index -> PTs \union {NoTable}]]
    BY <1>2, <1>3, PageTables DEF TypeOK
  <2>3. pdp' \in [Tasks -> [Index -> PDs \union {NoTable}]]
    BY <1>2, <1>3, Tables DEF TypeOK
  <2> QED
    BY <1>1, <2>1, <2>2, <2>3, RunsType DEF TypeOK
<1>9. LoopInv'
  BY <1>1 DEF LoopInv
<1>10. PtInv'
  <2>1. pt'[<<"lapic">>] = pt[<<"lapic">>] /\ pt'[<<"fb">>] = pt[<<"fb">>]
    BY <1>5, PageTables, PageTablesDiffer
  <2>2. \A j \in 0 .. 7 : pt'[<<"kernel", j>>] = pt[<<"kernel", j>>]
    <3>1. \A j \in 0 .. 7 : <<"kernel", j>> # Additional
      BY <1>3, PageTablesDiffer
    <3>2. \A j \in 0 .. 7 : <<"kernel", j>> \in PTs
      BY PageTables
    <3> QED
      BY <1>5, <3>1, <3>2
  <2>3. \A u \in Tasks, j \in 0 .. 7 : pt'[<<"task", u, j>>] = pt[<<"task", u, j>>]
    BY <1>5, PageTables, PageTablesDiffer
  <2> QED
    BY <1>1, <1>4, <1>5, <2>1, <2>2, <2>3 DEF PtInv
<1>11. PdInv'
  <2>1. /\ pd'[<<"io">>] = pd[<<"io">>] /\ pd'[<<"kernel">>] = pd[<<"kernel">>]
        /\ \A u \in Tasks : pd'[<<"task", u>>] = pd[<<"task", u>>]
    BY <1>6, Tables
  <2> QED
    BY <1>1, <1>6, <2>1 DEF PdInv
<1>12. PdpInv'
  <2>1. {1, 3, 4} \subseteq Index
    BY Numbers
  <2> QED
    BY <1>1, <1>3, <1>4, <1>7, <2>1 DEF PdpInv
<1>13. AccessInv'
  BY <1>1, AccessStays
<1> QED
  BY <1>4, <1>8, <1>9, <1>10, <1>11, <1>12, <1>13

LEMMA StutterStep ==
  ASSUME IInv, UNCHANGED vars
  PROVE  IInv'
<1>1. /\ KernelBuilt' = KernelBuilt /\ TasksBuilt' = TasksBuilt /\ Ready' = Ready
      /\ Mapped' = Mapped /\ UNCHANGED <<pc, i, pml4, pdp, pd, pt, access>>
  BY DEF vars, KernelBuilt, TasksBuilt, Ready, Mapped
<1>2. TypeOK' /\ LoopInv' /\ AccessInv'
  BY <1>1 DEF IInv, TypeOK, LoopInv, AccessInv, Isolated
<1>3. PtInv'
  BY <1>1 DEF IInv, PtInv
<1>4. PdInv'
  BY <1>1 DEF IInv, PdInv
<1>5. PdpInv'
  BY <1>1 DEF IInv, PdpInv
<1> QED
  BY <1>2, <1>3, <1>4, <1>5 DEF IInv

LEMMA StepInv == IInv /\ [Next]_vars => IInv'
<1> SUFFICES ASSUME IInv, [Next]_vars PROVE IInv'
  OBVIOUS
<1>1. Probes \subseteq Nat
  BY ProbeAssumption
<1>2. CASE LapicTable
  BY <1>2, LapicTableStep
<1>3. CASE FrameBufferTable
  BY <1>3, FrameBufferTableStep
<1>4. CASE IoDirectory
  BY <1>4, IoDirectoryStep
<1>5. CASE KernelTable
  BY <1>5, KernelTableStep
<1>6. CASE KernelDone
  BY <1>6, KernelDoneStep
<1>7. CASE TaskTables
  BY <1>7, TaskTablesStep
<1>8. CASE TasksDone
  BY <1>8, TasksDoneStep
<1>9. ASSUME NEW t \in Tasks, MapAdditional(t) PROVE IInv'
  BY <1>9, MapAdditionalStep
<1>10. ASSUME NEW t \in Tasks, NEW p \in Probes, Access(t, p) PROVE IInv'
  BY <1>1, <1>10, AccessStep
<1>11. ASSUME NEW t \in Tasks, NEW p \in Probes, Panic(t, p) PROVE IInv'
  BY <1>1, <1>11, PanicStep
<1>12. CASE UNCHANGED vars
  BY <1>12, StutterStep
<1> QED
  BY <1>2, <1>3, <1>4, <1>5, <1>6, <1>7, <1>8, <1>9, <1>10, <1>11, <1>12 DEF Next

-----------------------------------------------------------------------------
\* At every step of init_virtual_memory() and after it, every entry of every
\* table is what IInv says it is.
THEOREM Invariance == Spec => []IInv
<1>1. Init => IInv
  BY InitInv
<1>2. IInv /\ [Next]_vars => IInv'
  BY StepInv
<1> QED
  BY <1>1, <1>2, PTL DEF Spec

\* No store of the code into a table, and no loop over one, reaches behind the
\* 512 entries that the source declares.
THEOREM TypeCorrect == Spec => []TypeOK
<1>1. IInv => TypeOK
  BY DEF IInv
<1> QED
  BY <1>1, Invariance, PTL

\* What the walk finds, for every page an application may access.
WalkCorrect ==
  Ready => \A t \in Tasks, p \in Probes :
    Walk(t, p) = IF Promised(t, p) # None THEN Promised(t, p)
                 ELSE IF t = 0 /\ p = AdditionalPage /\ Mapped THEN AdditionalPhys ELSE None

LEMMA WalksCorrect == Spec => []WalkCorrect
<1>1. IInv => WalkCorrect
  BY ProbeAssumption, WalkIs DEF WalkCorrect
<1> QED
  BY <1>1, Invariance, PTL

\* Once built, the tables give every task, for every page, exactly the memory
\* that init_virtual_memory() means to give it, and task 0 the additional page.
THEOREM TranslatesAll == Spec => []Translates
<1>1. WalkCorrect => Translates
  BY DEF WalkCorrect, Translates, Ready
<1> QED
  BY <1>1, WalksCorrect, PTL

\* No page of any task leads to memory of another, and the page fault handler
\* stops the kernel for no page that the task should have seen.
THEOREM IsolatedAll == Spec => []Isolated
<1>1. IInv => Isolated
  BY DEF IInv, AccessInv
<1> QED
  BY <1>1, Invariance, PTL

\* The page fault handler's mapping changes no translation that there was.
THEOREM MappingOnlyAdds == Spec => MappingAdds
<1>1. IInv /\ WalkCorrect /\ WalkCorrect' /\ [Next]_vars =>
        [\A t \in Tasks, p \in Probes :
           pc = "run" /\ Walk(t, p) # None => Walk(t, p)' = Walk(t, p)]_vars
  <2> SUFFICES ASSUME IInv, WalkCorrect, WalkCorrect', Next, pc = "run",
                      NEW t \in Tasks, NEW p \in Probes, Walk(t, p) # None
               PROVE  Walk(t, p)' = Walk(t, p)
    BY DEF vars, Walk
  <2>1. CASE UNCHANGED <<pml4, pdp, pd, pt>>
    BY <2>1 DEF Walk
  <2>2. ASSUME NEW u \in Tasks, MapAdditional(u) PROVE Walk(t, p)' = Walk(t, p)
    <3>1. Ready /\ Ready' /\ Mapped'
      BY <2>2, MapAdditionalStep DEF MapAdditional, Ready
    <3>2. Walk(t, p) = IF Promised(t, p) # None THEN Promised(t, p)
                       ELSE IF t = 0 /\ p = AdditionalPage /\ Mapped THEN AdditionalPhys ELSE None
      BY <3>1 DEF WalkCorrect
    <3>3. Walk(t, p)' = IF Promised(t, p) # None THEN Promised(t, p)
                        ELSE IF t = 0 /\ p = AdditionalPage /\ Mapped' THEN AdditionalPhys ELSE None
      BY <3>1 DEF WalkCorrect
    <3> QED
      BY <3>1, <3>2, <3>3
  <2> QED
    BY <2>1, <2>2 DEF Next, LapicTable, FrameBufferTable, IoDirectory, KernelTable, KernelDone,
       TaskTables, TasksDone, Access, Panic
<1>2. QED
  BY <1>1, Invariance, WalksCorrect, PTL DEF Spec, MappingAdds
=============================================================================
