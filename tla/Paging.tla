------------------------------- MODULE Paging -------------------------------
(***************************************************************************)
(* The page tables of kernel/memory.c with the addresses of the source, as *)
(* page numbers (addr2page()).  init_virtual_memory() builds them table by *)
(* table; applications then access pages through the MMU's walk, and the   *)
(* page fault handler adds the additional page.  A page table is the run   *)
(* of entries its loop fills: [first, count, base].                        *)
(***************************************************************************)
EXTENDS Integers

CONSTANT Probes      \* pages the applications access
ASSUME ProbeAssumption == Probes \subseteq Nat

Tasks   == 0 .. 2                     \* N_TASKS
Entries == 512                        \* N_PAGES_IN_TABLE
PtLen   == Entries                    \* PT_LEN, PD_LEN, PDP_LEN in pages
PdLen   == Entries * PtLen
PdpLen  == Entries * PdLen

TaskVaddrStart == 262144              \* 0x040000000
TaskMemLen     == 4096                \* 0x001000000
FrameBufAddr   == 786432              \* 0x0c0000000
FrameBufLen    == 512                 \* 0x000200000, n_fb_pages
LapicBufAddr   == 1044480             \* 0x0fee00000
KernelMemAddr  == 1048576             \* 0x100000000
KernelMemLen   == 4096                \* 0x001000000
TaskPhys(i)    == 1064960 + i * 4096  \* 0x104000000, 0x105000000, 0x106000000
AdditionalPage == 3145728             \* 0x300000000
AdditionalPhys == 1052672             \* 0x101000000

NTaskPTs   == TaskMemLen \div PtLen
NKernelPTs == KernelMemLen \div PtLen

None == -1
NoTable == <<"none">>
Index == 0 .. Entries-1
PDs == {<<"task", i>> : i \in Tasks} \union {<<"kernel">>, <<"io">>, <<"additional">>}
PTs == {<<"task", i, j>> : i \in Tasks, j \in 0 .. NTaskPTs-1}
         \union {<<"kernel", j>> : j \in 0 .. NKernelPTs-1}
         \union {<<"lapic">>, <<"fb">>, <<"additional">>}

VARIABLES
  pc, i,          \* the step of init_virtual_memory(), and its loop variable
  pml4, pdp,      \* pml4[t], pdp[t][k]: what the entries of task t's tables point to
  pd, pt,
  access          \* the last access: task, page, and the frame it reached

vars == <<pc, i, pml4, pdp, pd, pt, access>>

NoRun == [first |-> 0, count |-> 0, base |-> 0]

Init ==
  /\ pc = "lapic" /\ i = 0
  /\ pml4 = [t \in Tasks |-> [k \in Index |-> FALSE]]      \* FALSE or: PDPs[t]
  /\ pdp = [t \in Tasks |-> [k \in Index |-> NoTable]]
  /\ pd = [d \in PDs |-> [k \in Index |-> NoTable]]
  /\ pt = [p \in PTs |-> NoRun]
  /\ access = [task |-> 0, page |-> 0, frame |-> None]

-----------------------------------------------------------------------------
\* Where a page is found in the tables.
PageIndex(p) == p % PtLen
PtIndex(p)   == (p % PdLen) \div PtLen
PdIndex(p)   == (p % PdpLen) \div PdLen

\* Stores into a table.  C checks no index: a store behind the table gives the
\* function a slot that the table does not have, which TypeOK forbids.
Slot(k, entry)     == [n \in {k} |-> entry]
Stored(new, table) ==
  [k \in DOMAIN table \union DOMAIN new |-> IF k \in DOMAIN new THEN new[k] ELSE table[k]]

LapicTable ==
  /\ pc = "lapic"
  /\ pt' = [pt EXCEPT ![<<"lapic">>] =
              [first |-> PageIndex(LapicBufAddr), count |-> 1, base |-> LapicBufAddr]]
  /\ pc' = "fb"
  /\ UNCHANGED <<i, pml4, pdp, pd, access>>

FrameBufferTable ==
  /\ pc = "fb"
  /\ pt' = [pt EXCEPT ![<<"fb">>] =
              [first |-> PageIndex(FrameBufAddr), count |-> FrameBufLen, base |-> FrameBufAddr]]
  /\ pc' = "io"
  /\ UNCHANGED <<i, pml4, pdp, pd, access>>

LapicPtIndexUnreduced == LapicBufAddr \div PtLen
LapicPtIndex == PtIndex(LapicBufAddr)
FbPtIndex    == PtIndex(FrameBufAddr)

IoDirectory ==
  /\ pc = "io"
  /\ pd' = [pd EXCEPT ![<<"io">>] =
              Stored(Slot(FbPtIndex, <<"fb">>), Stored(Slot(LapicPtIndex, <<"lapic">>), @))]
  /\ pc' = "kernel"
  /\ UNCHANGED <<i, pml4, pdp, pt, access>>

\* KERNEL_MEM_ADDR / PD_LEN, without the remainder modulo PDP_LEN.
KernelPdIndex == KernelMemAddr \div PdLen
KernelPtBase  == PtIndex(KernelMemAddr)

KernelTable ==           \* one iteration over the kernel's page tables
  /\ pc = "kernel" /\ i < NKernelPTs
  /\ pt' = [pt EXCEPT ![<<"kernel", i>>] =
              [first |-> 0, count |-> Entries, base |-> KernelMemAddr + i * Entries]]
  /\ pd' = [pd EXCEPT ![<<"kernel">>] = Stored(Slot(i + KernelPtBase, <<"kernel", i>>), @)]
  /\ i' = i + 1
  /\ UNCHANGED <<pc, pml4, pdp, access>>

KernelDone ==
  /\ pc = "kernel" /\ i = NKernelPTs
  /\ pc' = "tasks" /\ i' = 0
  /\ UNCHANGED <<pml4, pdp, pd, pt, access>>

\* TASK_VADDR_START % PD_LEN / PAGE_LEN: right because the remainder is 0.
PtIndexUnreduced == TaskVaddrStart \div PtLen
PtIndexBase == TaskVaddrStart % PdLen

IoPdIndex == PdIndex(LapicBufAddr)

FirstTaskBase(t) == TaskPhys(0)
PhysBase(t)      == TaskPhys(t)

TaskTables ==            \* one iteration over the tasks
  /\ pc = "tasks" /\ i \in Tasks
  /\ pt' = [p \in PTs |->
              IF \E j \in 0 .. NTaskPTs-1 : p = <<"task", i, j>>
              THEN [first |-> 0, count |-> Entries, base |-> PhysBase(i) + p[3] * Entries]
              ELSE pt[p]]
  /\ pd' = [pd EXCEPT ![<<"task", i>>] =
              Stored([k \in PtIndexBase .. PtIndexBase + NTaskPTs-1 |->
                        <<"task", i, k - PtIndexBase>>], @)]
  /\ pdp' = [pdp EXCEPT ![i] =
               Stored(Slot(KernelPdIndex, <<"kernel">>),
               Stored(Slot(IoPdIndex, <<"io">>),
               Stored(Slot(PdIndex(TaskVaddrStart), <<"task", i>>), @)))]
  /\ pml4' = [pml4 EXCEPT ![i] = Stored(Slot(TaskVaddrStart \div PdpLen, TRUE), @)]
  /\ i' = i + 1
  /\ UNCHANGED <<pc, access>>

TasksDone ==
  /\ pc = "tasks" /\ i \notin Tasks
  /\ pc' = "run"
  /\ UNCHANGED <<i, pml4, pdp, pd, pt, access>>

-----------------------------------------------------------------------------
\* The MMU's walk through task t's tables.
Walk(t, p) ==
  LET directory == pdp[t][PdIndex(p)]
      table     == pd[directory][PtIndex(p)]
      run       == pt[table]
  IN  IF p \div PdpLen \notin Index \/ ~pml4[t][p \div PdpLen] THEN None
      ELSE IF directory = NoTable THEN None
      ELSE IF table = NoTable THEN None
      ELSE IF PageIndex(p) - run.first \in 0 .. run.count-1
           THEN run.base + (PageIndex(p) - run.first) ELSE None

Access(t, p) ==
  /\ pc = "run" /\ Walk(t, p) # None
  /\ access' = [task |-> t, page |-> p, frame |-> Walk(t, p)]
  /\ UNCHANGED <<pc, i, pml4, pdp, pd, pt>>

\* page_fault_handler_internal(), for a fault of task t.  It maps the additional
\* page for task 0, whoever asked for it.
AdditionalPdIndex == AdditionalPage \div PdLen

MapAdditional(t) ==
  /\ pc = "run" /\ Walk(t, AdditionalPage) = None
  /\ pt' = [pt EXCEPT ![<<"additional">>] = [first |-> 0, count |-> 1, base |-> AdditionalPhys]]
  /\ pd' = [pd EXCEPT ![<<"additional">>] = Stored(Slot(0, <<"additional">>), @)]
  /\ pdp' = [pdp EXCEPT ![0] = Stored(Slot(AdditionalPdIndex, <<"additional">>), @)]
  /\ UNCHANGED <<pc, i, pml4, access>>

Panic(t, p) ==
  /\ pc = "run" /\ Walk(t, p) = None /\ p # AdditionalPage
  /\ access' = [task |-> t, page |-> p, frame |-> None]
  /\ pc' = "panic"
  /\ UNCHANGED <<i, pml4, pdp, pd, pt>>

Next ==
  \/ LapicTable \/ FrameBufferTable \/ IoDirectory \/ KernelTable \/ KernelDone
  \/ TaskTables \/ TasksDone
  \/ \E t \in Tasks : MapAdditional(t) \/ \E p \in Probes : Access(t, p) \/ Panic(t, p)

Spec == Init /\ [][Next]_vars

-----------------------------------------------------------------------------
\* Every entry that init_virtual_memory() or the fault handler writes is one of
\* the 512 of a table the source declares: no store into a PML4, PDP or PD and
\* no loop over a page table reaches behind it.
TypeOK ==
  /\ pc \in {"lapic", "fb", "io", "kernel", "tasks", "run", "panic"}
  /\ i \in 0 .. NKernelPTs
  /\ pml4 \in [Tasks -> [Index -> BOOLEAN]]
  /\ pdp \in [Tasks -> [Index -> PDs \union {NoTable}]]
  /\ pd \in [PDs -> [Index -> PTs \union {NoTable}]]
  /\ pt \in [PTs -> [first : Index, count : 0 .. Entries, base : Nat]]
  /\ \A p \in PTs : pt[p].first + pt[p].count <= Entries

\* The memory a task is meant to see: its own 16 MiB, the kernel's, the frame
\* buffer and the LAPIC where they are, and nothing else.
Window(p, start, len) == start <= p /\ p < start + len
Promised(t, p) ==
  IF Window(p, TaskVaddrStart, TaskMemLen) THEN TaskPhys(t) + (p - TaskVaddrStart)
  ELSE IF Window(p, KernelMemAddr, KernelMemLen) \/ Window(p, FrameBufAddr, FrameBufLen)
          \/ p = LapicBufAddr
       THEN p ELSE None

\* Whatever index arithmetic built them, the tables give every task exactly the
\* memory it is meant to see, and the additional page to task 0 only.
Translates ==
  pc \in {"run", "panic"} =>
    \A t \in Tasks, p \in Probes :
      \/ Walk(t, p) = Promised(t, p)
      \/ t = 0 /\ p = AdditionalPage /\ Walk(t, p) = AdditionalPhys

\* No access of one task reaches memory of another, and only accesses to pages
\* that nobody promised stop the kernel.
Isolated ==
  /\ access.frame # None => \A t \in Tasks \ {access.task} :
       ~Window(access.frame, TaskPhys(t), TaskMemLen)
  /\ pc = "panic" => Promised(access.task, access.page) = None

\* Mapping the additional page takes no page from anybody.
MappingAdds ==
  [][\A t \in Tasks, p \in Probes :
       pc = "run" /\ Walk(t, p) # None => Walk(t, p)' = Walk(t, p)]_vars
=============================================================================
