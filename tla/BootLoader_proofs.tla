-------------------------- MODULE BootLoader_proofs --------------------------
(***************************************************************************)
(* What BootLoader keeps for files of every size, every read unit and any  *)
(* sequence of short reads: the images stand at their addresses byte by    *)
(* byte, the bss that is cleared is the loaded kernel's, and segments      *)
(* stand where they belong for the files that allow it; and BootLoader     *)
(* implements Handover.                                                    *)
(***************************************************************************)
EXTENDS BootLoader, FiniteSetTheorems, TLAPS

Adding   == {"processors", "aps"}
Elf      == {"section", "segment"}
Loading  == {"head", "body"}
Loaded   == {"bss", "map", "exit", "jump"}

AddInv ==
  /\ sum \in Nat /\ done \in [Aps -> 0 .. Rounds] /\ loaded \in [Aps -> Nat \union {Nothing}]
  /\ \A p \in Aps : loaded[p] # Nothing => done[p] < Rounds

\* The rounds done.  A store writes at most one more than there were before it,
\* and every store but a processor's first at least 2.
Stored == {r \in Aps \X (1 .. Rounds) : r[2] <= done[r[1]]}

SumInv ==
  /\ sum <= Cardinality(Stored)
  /\ \A p \in Aps : loaded[p] # Nothing => loaded[p] <= Cardinality(Stored)
  /\ \A p \in Aps : done[p] > 0 => sum > 0 /\ (loaded[p] # Nothing => loaded[p] > 0)
  /\ Rounds > 1 /\ (\A p \in Aps : done[p] = Rounds) => sum > 1
  /\ Summed => \A p \in Aps : done[p] = Rounds

\* Kernel and applications are always opened on the same volume.
HandlesInv ==
  /\ pc \in Adding \union {"volumes"} \union Elf \union Loading \union Loaded \union {"halted"}
  /\ disk \in Disks /\ vol \in 1 .. Len(disk) + 1
  /\ \A v \in {kernel_file, kernel_elf_file, app_files} : v \in 0 .. vol - 1
  /\ app_files = kernel_file
  /\ pc \in Elf => IsElf

\* What is loaded, in which order, and the first n bytes of an image in place.
Todo    == IF IsElf THEN Apps ELSE Images
Earlier == [kernel |-> {}, app1 |-> {"kernel"}, app2 |-> {"kernel", "app1"},
            app3 |-> {"kernel", "app1", "app2"}]
Placed(f, n) == \A k \in 0 .. n-1 : mem[f][k] = <<kernel_file, f, HeadSize + k>>
Whole(f)     == Placed(f, Sizes[f] - HeadSize)

\* Between two reads exactly the bytes read stand in place.
FileInv ==
  /\ DOMAIN mem = Images
  /\ file \in Images /\ pos \in Nat /\ left \in Nat /\ dst \in Nat
  /\ pos <= Sizes[file] /\ left <= Sizes[file]
  /\ pc = "head" => pos + left = HeadSize
  /\ pc = "body" => pos + left = Sizes[file] /\ dst + HeadSize = pos /\ Placed(file, dst)
  /\ pc \in Loading => \A f \in Earlier[file] \cap Todo : Whole(f)
  /\ pc \in Loading /\ file = "kernel" => ~IsElf
  /\ pc \in Loaded => \A f \in Todo : Whole(f)

\* h describes the bss of the kernel that was chosen.
KernelBss(h) ==
  /\ ~IsElf => h = <<kernel_file, "kernel", 0>>
  /\ IsElf /\ BssSections = {} => h = None
  /\ IsElf /\ BssSections # {} =>
       \E s \in BssSections : h = <<kernel_elf_file, "kernel.elf", s>>

\* Where that description is kept at each place.
BssInv ==
  /\ pc = "section" => seg \in Nat \ {0} /\ \A s \in 1 .. seg-1 : SectionTable[s] # ".bss"
  /\ pc = "segment" => KernelBss(head)
  /\ pc \in Loading /\ file = "kernel" =>
       (pc = "body" \/ pos > 0 => head = <<kernel_file, "kernel", 0>>)
  /\ pc \in Loading /\ file # "kernel" => KernelBss(bss_start)
  /\ pc = "bss" => KernelBss(bss_start)
  /\ pc \in Loaded \ {"bss"} => KernelBss(cleared)

IInv == AddInv /\ SumInv /\ HandlesInv /\ FileInv /\ BssInv

-----------------------------------------------------------------------------
LEMMA Lengths ==
  /\ HeadSize \in Nat \ {0} /\ ReadUnit \in Nat \ {0}
  /\ \A f \in Images : Sizes[f] \in Nat /\ Sizes[f] > HeadSize
  /\ \A d \in Disks : Len(d) \in Nat
  /\ Rounds \in Nat \ {0}
BY SizeAssumption, DiskAssumption, ApAssumption

\* Every address an image is read to is part of the memory considered.
LEMMA SpaceHolds == \A f \in Images : \A k \in 0 .. Sizes[f] : k \in Space
BY DEF Space

\* While disk and handles stay, so does what depends on them alone.
LEMMA Same ==
  ASSUME UNCHANGED <<disk, handles>>
  PROVE  /\ IsElf' = IsElf /\ Todo' = Todo
         /\ SectionTable' = SectionTable /\ BssSections' = BssSections
         /\ \A h : KernelBss(h)' = KernelBss(h)
         /\ UNCHANGED <<kernel_file, kernel_elf_file, app_files>>
<1>1. UNCHANGED <<kernel_file, kernel_elf_file, app_files, disk>>
  BY DEF handles
<1>2. IsElf' = IsElf /\ SectionTable' = SectionTable
  BY <1>1 DEF IsElf, SectionTable
<1>3. Todo' = Todo /\ BssSections' = BssSections
  BY <1>2 DEF Todo, BssSections
<1> QED
  BY <1>1, <1>2, <1>3 DEF KernelBss

\* As many rounds as there are; a round more is one more.
LEMMA RoundsFinite ==
  /\ IsFiniteSet(Stored) /\ Cardinality(Stored) \in Nat
  /\ Cardinality(Stored) <= Cardinality(Aps) * Rounds
<1> DEFINE All == Aps \X (1 .. Rounds)
<1>1. IsFiniteSet(1 .. Rounds) /\ Cardinality(1 .. Rounds) = Rounds
  BY FS_Interval, Lengths
<1>2. IsFiniteSet(All) /\ Cardinality(All) = Cardinality(Aps) * Rounds
  BY <1>1, FS_Product, ApAssumption
<1>3. Stored \subseteq All
  BY DEF Stored
<1> QED
  BY <1>2, <1>3, FS_Subset, FS_CardinalityType

LEMMA OneMore ==
  ASSUME IInv, NEW p \in Aps, done[p] < Rounds, done' = [done EXCEPT ![p] = @ + 1]
  PROVE  /\ Cardinality(Stored') = Cardinality(Stored) + 1
         /\ Cardinality(Stored) \in Nat
<1> DEFINE r == <<p, done[p] + 1>>
<1>1. done \in [Aps -> 0 .. Rounds] /\ Rounds \in Nat /\ done[p] \in Nat
  BY Lengths DEF IInv, AddInv
<1>2. r \notin Stored /\ r \in Aps \X (1 .. Rounds)
  BY <1>1 DEF Stored
<1>3. ASSUME NEW s \in Aps \X (1 .. Rounds)
      PROVE  s \in Stored' <=> s \in Stored \union {r}
  <2>1. s[1] \in Aps /\ s[2] \in 1 .. Rounds /\ s = <<s[1], s[2]>>
    OBVIOUS
  <2>2. CASE s[1] = p
    BY <1>1, <2>1, <2>2 DEF Stored
  <2>3. CASE s[1] # p
    BY <1>1, <2>1, <2>3 DEF Stored
  <2> QED
    BY <2>2, <2>3
<1>4. Stored' = Stored \union {r}
  BY <1>2, <1>3 DEF Stored
<1> QED
  BY <1>2, <1>4, RoundsFinite, FS_AddElement

LEMMA InitInv == Init => IInv
<1> SUFFICES ASSUME Init PROVE IInv
  OBVIOUS
<1>1. AddInv /\ SumInv
  <2>1. AddInv
    BY Lengths DEF Init, AddInv
  <2>2. Cardinality(Stored) \in Nat /\ Aps # {}
    BY RoundsFinite, ApAssumption
  <2> QED
    BY <2>1, <2>2, Lengths DEF Init, SumInv, Summed
<1>2. HandlesInv
  BY Lengths DEF Init, HandlesInv, Adding, Elf
<1>3. FileInv
  BY Lengths DEF Init, FileInv, Images, Loading, Loaded
<1>4. BssInv
  BY DEF Init, BssInv, Loading, Loaded
<1> QED
  BY <1>1, <1>2, <1>3, <1>4 DEF IInv

\* Most actions leave the sum alone, and some everything that was loaded.
LEMMA SumKept ==
  ASSUME IInv, UNCHANGED adding, Summed \/ pc' = pc
  PROVE  AddInv' /\ SumInv'
<1>1. UNCHANGED <<sum, done, loaded>>
  BY DEF adding
<1>2. Stored' = Stored
  BY <1>1 DEF Stored
<1> QED
  BY <1>1, <1>2 DEF IInv, AddInv, SumInv, Summed

LEMMA Kept ==
  ASSUME IInv, UNCHANGED <<pc, disk, vol, handles, load, mem, cleared>>
  PROVE  HandlesInv' /\ FileInv' /\ BssInv'
<1>1. UNCHANGED <<file, pos, left, dst, seg, head, bss_start>>
  BY DEF load
<1>2. HandlesInv'
  BY Same DEF IInv, HandlesInv
<1>3. FileInv'
  BY <1>1, Same DEF IInv, FileInv, Whole, Placed
<1>4. BssInv'
  BY <1>1, Same DEF IInv, BssInv
<1> QED
  BY <1>2, <1>3, <1>4

-----------------------------------------------------------------------------
(***************************************************************************)
(* The application processors                                              *)
(***************************************************************************)
Sum == Processors \/ (\E p \in Aps : LoadSum(p) \/ StoreSum(p)) \/ ApsFinished

LEMMA StoreSumInv ==
  ASSUME IInv, NEW p \in Aps, StoreSum(p)
  PROVE  AddInv' /\ SumInv'
<1>1. /\ loaded[p] \in Nat /\ done[p] \in 0 .. Rounds-1 /\ Nothing \notin Nat
      /\ done \in [Aps -> 0 .. Rounds] /\ loaded \in [Aps -> Nat \union {Nothing}]
      /\ Rounds \in Nat
  BY Lengths DEF StoreSum, IInv, AddInv, Nothing
<1>2. /\ pc = "aps" /\ pc' = "aps" /\ loaded[p] # Nothing
      /\ sum' = loaded[p] + 1 /\ done' = [done EXCEPT ![p] = @ + 1]
      /\ loaded' = [loaded EXCEPT ![p] = Nothing]
  BY DEF StoreSum, Incremented
<1>3. AddInv'
  BY <1>1, <1>2 DEF IInv, AddInv
<1>4. Cardinality(Stored') = Cardinality(Stored) + 1 /\ Cardinality(Stored) \in Nat
  <2>1. done[p] < Rounds
    BY <1>1
  <2> QED
    BY <1>2, <2>1, OneMore
<1>5. sum' <= Cardinality(Stored')
  BY <1>1, <1>2, <1>4 DEF IInv, SumInv
<1>6. \A q \in Aps : loaded'[q] # Nothing =>
        loaded'[q] = loaded[q] /\ done'[q] = done[q] /\ loaded[q] \in Nat
  BY <1>1, <1>2
<1>7. \A q \in Aps : loaded'[q] # Nothing => loaded'[q] <= Cardinality(Stored')
  BY <1>4, <1>6 DEF IInv, SumInv
<1>8. \A q \in Aps : done'[q] > 0 => sum' > 0 /\ (loaded'[q] # Nothing => loaded'[q] > 0)
  BY <1>1, <1>2, <1>6 DEF IInv, SumInv
<1>9. ASSUME Rounds > 1, \A q \in Aps : done'[q] = Rounds
      PROVE  sum' > 1
  <2>1. done[p] > 0
    BY <1>1, <1>2, <1>9
  <2> QED
    BY <1>1, <1>2, <2>1 DEF IInv, SumInv
<1> QED
  BY <1>2, <1>3, <1>5, <1>7, <1>8, <1>9 DEF SumInv, Summed

LEMMA LoadSumInv ==
  ASSUME IInv, NEW p \in Aps, LoadSum(p)
  PROVE  AddInv' /\ SumInv'
<1>1. /\ pc = "aps" /\ pc' = "aps" /\ done[p] < Rounds
      /\ loaded' = [loaded EXCEPT ![p] = sum] /\ UNCHANGED <<sum, done>>
  BY DEF LoadSum, More
<1>2. sum \in Nat /\ loaded \in [Aps -> Nat \union {Nothing}]
  BY DEF IInv, AddInv
<1>3. AddInv'
  BY <1>1, <1>2 DEF IInv, AddInv
<1>4. Stored' = Stored
  BY <1>1 DEF Stored
<1> QED
  BY <1>1, <1>2, <1>3, <1>4 DEF IInv, SumInv, Summed

LEMMA ProcessorsInv ==
  ASSUME IInv, Sum
  PROVE  IInv'
<1>1. AddInv' /\ SumInv'
  <2>1. ASSUME Processors PROVE AddInv' /\ SumInv'
    <3>1. UNCHANGED <<sum, done, loaded>> /\ ~Summed'
      BY <2>1 DEF Processors, Halt, adding, Summed
    <3>2. Stored' = Stored
      BY <3>1 DEF Stored
    <3> QED
      BY <3>1, <3>2 DEF IInv, AddInv, SumInv
  <2>2. ASSUME ApsFinished PROVE AddInv' /\ SumInv'
    <3>1. UNCHANGED <<sum, done, loaded>>
      BY <2>2 DEF ApsFinished, adding
    <3>2. Stored' = Stored
      BY <3>1 DEF Stored
    <3>3. \A p \in Aps : done[p] = Rounds
      <4>1. \A p \in Aps : done[p] \in 0 .. Rounds /\ ~(done[p] < Rounds)
        BY <2>2 DEF ApsFinished, More, IInv, AddInv
      <4> QED
        BY <4>1, Lengths
    <3> QED
      BY <3>1, <3>2, <3>3 DEF IInv, AddInv, SumInv
  <2> QED
    BY <2>1, <2>2, LoadSumInv, StoreSumInv DEF Sum
<1>2. /\ pc \in Adding /\ pc' \in Adding \union {"volumes", "halted"}
      /\ UNCHANGED <<disk, vol, handles, load, mem, cleared>>
  BY DEF Sum, Processors, Halt, LoadSum, StoreSum, ApsFinished, Adding, fw
<1>3. HandlesInv'
  BY <1>2, Same DEF IInv, HandlesInv, Adding, Elf
<1>4. FileInv'
  BY <1>2 DEF IInv, FileInv, Adding, Loading, Loaded, load
<1>5. BssInv'
  BY <1>2 DEF BssInv, Adding, Loading, Loaded
<1> QED
  BY <1>1, <1>3, <1>4, <1>5 DEF IInv

-----------------------------------------------------------------------------
(***************************************************************************)
(* Choosing the volume and reading kernel.elf                              *)
(***************************************************************************)
LEMMA SearchVolumeInv ==
  ASSUME IInv, SearchVolume
  PROVE  IInv'
<1>1. /\ pc = "volumes" /\ pc' \in {"volumes", "halted"} /\ vol <= Len(disk)
      /\ UNCHANGED <<disk, adding, load, mem, cleared>>
      /\ \/ UNCHANGED <<vol, handles>>
         \/ vol' = vol + 1 /\ UNCHANGED handles
         \/ /\ vol' = vol + 1 /\ kernel_file' = vol /\ app_files' = vol
            /\ kernel_elf_file' \in {kernel_elf_file, vol}
  BY DEF SearchVolume, Halt, OpenedElf, fw
<1>2. HandlesInv'
  <2>1. disk \in Disks /\ Len(disk) \in Nat /\ vol \in Nat
    BY Lengths DEF IInv, HandlesInv
  <2> QED
    BY <1>1, <2>1 DEF IInv, HandlesInv, handles, Elf
<1>3. FileInv'
  BY <1>1 DEF IInv, FileInv, Loading, Loaded, load
<1>4. BssInv'
  BY <1>1 DEF BssInv, Loading, Loaded
<1> QED
  BY <1>1, <1>2, <1>3, <1>4, SumKept DEF IInv, Summed, Loading

LEMMA ChooseKernelInv ==
  ASSUME IInv, ChooseKernel
  PROVE  IInv'
<1>1. /\ pc = "volumes"
      /\ \/ pc' = "halted" /\ UNCHANGED load
         \/ /\ IsElf /\ pc' = "section" /\ seg' = 1
            /\ UNCHANGED <<file, pos, left, dst, head, bss_start>>
         \/ /\ ~IsElf /\ pc' = "head" /\ file' = "kernel" /\ pos' = 0
            /\ left' = HeadSize /\ dst' = 0
      /\ UNCHANGED <<disk, adding, vol, handles, mem, cleared>>
  BY DEF ChooseKernel, Halt, Begin, fw
<1>2. HandlesInv'
  BY <1>1, Same DEF IInv, HandlesInv, Elf, Loading
<1>3. FileInv'
  BY <1>1, Same, Lengths DEF IInv, FileInv, Earlier, Images, Loading, Loaded, load
<1>4. BssInv'
  BY <1>1 DEF BssInv, Loading, Loaded
<1> QED
  BY <1>1, <1>2, <1>3, <1>4, SumKept DEF IInv, Summed, Loading

LEMMA ReadSectionInv ==
  ASSUME IInv, ReadSection
  PROVE  IInv'
<1>1. /\ pc = "section" /\ pc' \in {"section", "segment"} /\ IsElf
      /\ UNCHANGED <<disk, adding, vol, handles, mem, cleared, file, pos, left, dst>>
  BY DEF ReadSection, fw, IInv, HandlesInv, Elf
<1>2. seg \in Nat \ {0} /\ \A s \in 1 .. seg-1 : SectionTable[s] # ".bss"
  BY <1>1 DEF IInv, BssInv
<1>3. Len(SectionTable) \in Nat
  BY SectionAssumption DEF SectionTable
<1>4. HandlesInv'
  BY <1>1, Same DEF IInv, HandlesInv, Elf
<1>5. FileInv'
  BY <1>1 DEF IInv, FileInv, Loading, Loaded
<1>6. ASSUME SectionTable[seg] # ".bss", seg' = seg + 1, pc' = "section"
      PROVE  BssInv'
  <2>1. \A s \in 1 .. seg'-1 : SectionTable[s] # ".bss"
    <3>1. \A s \in 1 .. seg : s = seg \/ s \in 1 .. seg-1
      BY <1>2
    <3>2. seg'-1 = seg
      BY <1>2, <1>6
    <3> QED
      BY <1>2, <1>6, <3>1, <3>2
  <2> QED
    BY <1>1, <1>2, <1>6, <2>1, Same DEF BssInv, Loading, Loaded
<1>7. ASSUME seg <= Len(SectionTable), SectionTable[seg] = ".bss", head' = Bss(seg),
             pc' = "segment"
      PROVE  BssInv'
  <2>1. seg \in BssSections
    BY <1>2, <1>3, <1>7 DEF BssSections
  <2>2. KernelBss(head')
    BY <1>1, <1>7, <2>1 DEF KernelBss, Bss
  <2> QED
    BY <1>1, <1>7, <2>2, Same DEF BssInv, Loading, Loaded
<1>8. ASSUME seg > Len(SectionTable), head' = None, pc' = "segment"
      PROVE  BssInv'
  <2>1. BssSections = {}
    <3>1. \A s \in 1 .. Len(SectionTable) : s \in 1 .. seg-1
      BY <1>2, <1>3, <1>8
    <3> QED
      BY <1>2, <3>1 DEF BssSections
  <2>2. KernelBss(head')
    BY <1>1, <1>8, <2>1 DEF KernelBss
  <2> QED
    BY <1>1, <1>8, <2>2, Same DEF BssInv, Loading, Loaded
<1>9. BssInv'
  BY <1>1, <1>6, <1>7, <1>8 DEF ReadSection
<1> QED
  BY <1>1, <1>4, <1>5, <1>9, SumKept DEF IInv, Summed, Loading

LEMMA LoadSegmentInv ==
  ASSUME IInv, LoadSegment
  PROVE  IInv'
<1>1. /\ pc = "segment" /\ pc' = pc
      /\ UNCHANGED <<disk, adding, vol, handles, cleared, file, pos, left, dst, head, bss_start>>
      /\ DOMAIN mem' = DOMAIN mem
  BY DEF LoadSegment, fw
<1>2. HandlesInv'
  BY <1>1, Same DEF IInv, HandlesInv
<1>3. FileInv'
  BY <1>1 DEF IInv, FileInv, Loading, Loaded
<1>4. BssInv'
  BY <1>1, Same DEF IInv, BssInv, Loading, Loaded
<1> QED
  BY <1>1, <1>2, <1>3, <1>4, SumKept DEF IInv, Summed, Loading

LEMMA EndElfInv ==
  ASSUME IInv, EndElf
  PROVE  IInv'
<1>1. /\ pc = "segment" /\ IsElf /\ bss_start' = head
      /\ pc' = "head" /\ file' = "app1" /\ pos' = 0 /\ left' = HeadSize /\ dst' = 0
      /\ UNCHANGED <<disk, adding, vol, handles, mem, cleared>>
  BY DEF EndElf, Begin, fw, IInv, HandlesInv, Elf
<1>2. HandlesInv'
  BY <1>1, Same DEF IInv, HandlesInv, Elf, Loading
<1>3. FileInv'
  <2>1. "kernel" \notin Todo'
    BY <1>1, Same DEF Todo, Apps
  <2> QED
    BY <1>1, <2>1, Lengths DEF IInv, FileInv, Earlier, Images, Apps, Loading, Loaded
<1>4. BssInv'
  BY <1>1, Same DEF IInv, BssInv, Loading, Loaded
<1> QED
  BY <1>1, <1>2, <1>3, <1>4, SumKept DEF IInv, Summed, Loading

-----------------------------------------------------------------------------
(***************************************************************************)
(* load_file(), for the header and for what follows it                     *)
(***************************************************************************)
LEMMA ReadInv ==
  ASSUME IInv, NEW n \in 1 .. ReadUnit, Read(n)
  PROVE  IInv'
<1>1. /\ pc \in Loading /\ pc' = pc /\ left > 0 /\ n <= Want /\ n <= Sizes[file] - pos
      /\ pos' = pos + n /\ dst' = dst + n /\ left' = left - n
      /\ UNCHANGED <<disk, adding, vol, handles, file, bss_start, cleared>>
  BY DEF Read, LeftAfter, Loading, fw
<1>2. /\ n \in Nat \ {0} /\ pos \in Nat /\ left \in Nat /\ dst \in Nat
      /\ Sizes[file] \in Nat /\ file \in Images /\ HeadSize \in Nat
      /\ DOMAIN mem = Images /\ pos <= Sizes[file] /\ left <= Sizes[file]
      /\ app_files = kernel_file
  BY Lengths DEF IInv, FileInv, HandlesInv
<1>3. n <= left
  BY <1>1, <1>2, Lengths DEF Want
<1>4. HandlesInv'
  BY <1>1, Same DEF IInv, HandlesInv
<1>5. /\ pos' \in Nat /\ left' \in Nat /\ dst' \in Nat
      /\ pos' <= Sizes[file] /\ left' <= Sizes[file] /\ pos' > 0
      /\ pos' + left' = pos + left
  BY <1>1, <1>2, <1>3
<1>6. CASE pc = "head"
  <2>1. UNCHANGED mem /\ head' = <<kernel_file, file, 0>>
    BY <1>2, <1>6 DEF Read, Source
  <2>2. FileInv'
    BY <1>1, <1>2, <1>5, <1>6, <2>1, Same DEF IInv, FileInv, Whole, Placed, Loaded
  <2>3. BssInv'
    BY <1>1, <1>6, <2>1, Same DEF IInv, BssInv, Loading, Loaded
  <2> QED
    BY <1>1, <1>4, <2>2, <2>3, SumKept DEF IInv, Summed, Loading
<1>7. CASE pc = "body"
  <2>1. /\ mem' = [mem EXCEPT ![file] =
                     [k \in Space |-> IF k - dst \in 0 .. n-1
                                      THEN Source(pos + (k - dst)) ELSE @[k]]]
        /\ UNCHANGED head
    BY <1>7 DEF Read
  <2>2. dst + HeadSize = pos /\ pos + left = Sizes[file] /\ Placed(file, dst)
    BY <1>7 DEF IInv, FileInv
  <2>3. /\ DOMAIN mem' = Images
        /\ \A f \in Images \ {file} : mem'[f] = mem[f]
        /\ \A k \in Space :
             mem'[file][k] = IF k - dst \in 0 .. n-1 THEN Source(pos + (k - dst))
                             ELSE mem[file][k]
    BY <1>2, <2>1
  <2>4. Placed(file, dst)'
    <3> SUFFICES ASSUME NEW k \in 0 .. dst'-1
                 PROVE  mem'[file][k] = <<kernel_file, file, HeadSize + k>>
      BY <1>1, Same DEF Placed
    <3>1. k \in Space
      <4>1. k \in 0 .. Sizes[file]
        BY <1>1, <1>2, <1>3, <2>2, Lengths
      <4> QED
        BY <1>2, <4>1, SpaceHolds
    <3>2. CASE k - dst \in 0 .. n-1
      <4>1. pos + (k - dst) = HeadSize + k
        BY <1>2, <2>2, <3>2
      <4> QED
        BY <1>2, <2>3, <3>1, <3>2, <4>1 DEF Source
    <3>3. CASE k - dst \notin 0 .. n-1
      <4>1. k \in 0 .. dst-1
        BY <1>1, <1>2, <3>3
      <4> QED
        BY <2>2, <2>3, <3>1, <3>3, <4>1 DEF Placed
    <3> QED
      BY <3>2, <3>3
  <2>5. dst' + HeadSize = pos' /\ pos' + left' = Sizes[file]
    BY <1>1, <1>2, <1>5, <2>2
  <2>6. \A f \in Earlier'[file'] \cap Todo' : Whole(f)'
    <3>1. \A f \in Earlier[file] \cap Todo : Whole(f)
      BY <1>1 DEF IInv, FileInv
    <3>2. \A f \in Earlier[file] : f \in Images \ {file}
      BY <1>2 DEF Earlier, Images, Apps
    <3>3. \A f \in Images \ {file} : Whole(f) => Whole(f)'
      BY <1>1, <2>3, Same DEF Whole, Placed
    <3> QED
      BY <1>1, <3>1, <3>2, <3>3, Same DEF Earlier
  <2>7. FileInv'
    <3>1. file = "kernel" => ~IsElf
      BY <1>1 DEF IInv, FileInv
    <3> QED
      BY <1>1, <1>2, <1>5, <1>7, <2>3, <2>4, <2>5, <2>6, <3>1, Same DEF FileInv, Loaded
  <2>8. BssInv'
    BY <1>1, <1>7, <2>1, Same DEF IInv, BssInv, Loading, Loaded
  <2> QED
    BY <1>1, <1>4, <2>7, <2>8, SumKept DEF IInv, Summed, Loading
<1> QED
  BY <1>1, <1>6, <1>7 DEF Loading

LEMMA EndHeadInv ==
  ASSUME IInv, EndHead
  PROVE  IInv'
<1>1. /\ pc = "head" /\ left = 0 /\ pc' = "body"
      /\ left' = Sizes[file] - HeadSize /\ dst' = 0
      /\ UNCHANGED <<disk, adding, vol, handles, file, pos, head, bss_start, mem, cleared>>
  BY DEF EndHead, BodySize, fw
<1>2. /\ pos \in Nat /\ pos = HeadSize /\ file \in Images /\ DOMAIN mem = Images
      /\ Sizes[file] \in Nat /\ Sizes[file] > HeadSize /\ HeadSize \in Nat \ {0}
  BY <1>1, Lengths DEF IInv, FileInv
<1>3. HandlesInv'
  BY <1>1, Same DEF IInv, HandlesInv, Elf, Loading
<1>4. FileInv'
  <2>1. Placed(file, 0)'
    BY DEF Placed
  <2>2. \A f \in Earlier[file] \cap Todo : Whole(f)'
    BY <1>1, Same DEF IInv, FileInv, Whole, Placed, Loading
  <2>3. left' \in Nat /\ pos + left' = Sizes[file] /\ left' <= Sizes[file] /\ 0 + HeadSize = pos
    BY <1>1, <1>2
  <2>4. file = "kernel" => ~IsElf
    BY <1>1 DEF IInv, FileInv, Loading
  <2> QED
    BY <1>1, <1>2, <2>1, <2>2, <2>3, <2>4, Same DEF FileInv, Earlier, Loaded, Placed
<1>5. BssInv'
  BY <1>1, <1>2, Same DEF IInv, BssInv, Loading, Loaded
<1> QED
  BY <1>1, <1>3, <1>4, <1>5, SumKept DEF IInv, Summed, Loading

LEMMA EndBodyInv ==
  ASSUME IInv, EndBody
  PROVE  IInv'
<1>1. /\ pc = "body" /\ left = 0 /\ bss_start' = Saved
      /\ \/ file = "app3" /\ pc' = "bss" /\ UNCHANGED <<file, pos, left, dst>>
         \/ /\ file # "app3" /\ pc' = "head" /\ file' = Following[file]
            /\ pos' = 0 /\ left' = HeadSize /\ dst' = 0
      /\ UNCHANGED <<disk, adding, vol, handles, mem, cleared>>
  BY DEF EndBody, Begin, fw
<1>2. /\ file \in Images /\ pos \in Nat /\ dst \in Nat /\ DOMAIN mem = Images
      /\ Sizes[file] \in Nat /\ HeadSize \in Nat \ {0}
      /\ pos + left = Sizes[file] /\ dst + HeadSize = pos
  BY <1>1, Lengths DEF IInv, FileInv
<1>3. HandlesInv'
  BY <1>1, Same DEF IInv, HandlesInv, Elf, Loading, Loaded
<1>4. Whole(file)
  <2>1. dst = Sizes[file] - HeadSize
    BY <1>1, <1>2
  <2> QED
    BY <1>1, <2>1 DEF IInv, FileInv, Whole
<1>5. \A f \in (Earlier[file] \union {file}) \cap Todo : Whole(f)'
  BY <1>1, <1>4, Same DEF IInv, FileInv, Whole, Placed, Loading
<1>6. FileInv'
  <2>1. CASE file = "app3"
    <3>1. Earlier[file] \union {file} = Images
      BY <2>1 DEF Earlier, Images, Apps
    <3>2. \A f \in Todo : f \in Images
      BY DEF Todo, Images
    <3> QED
      BY <1>1, <1>2, <1>5, <2>1, <3>1, <3>2, Same DEF IInv, FileInv, Loading, Loaded
  <2>2. CASE file # "app3"
    <3>1. file' \in Images \ {"kernel"} /\ Earlier[file'] = Earlier[file] \union {file}
      BY <1>1, <1>2, <2>2 DEF Earlier, Following, Images, Apps
    <3>2. Sizes[file'] \in Nat /\ HeadSize <= Sizes[file']
      BY <3>1, Lengths
    <3> QED
      BY <1>1, <1>2, <1>5, <2>2, <3>1, <3>2, Same DEF FileInv, Earlier, Loading, Loaded
  <2> QED
    BY <2>1, <2>2
<1>7. KernelBss(bss_start')
  <2>1. CASE file = "kernel"
    <3>1. ~IsElf /\ head = <<kernel_file, "kernel", 0>>
      BY <1>1, <2>1 DEF IInv, FileInv, BssInv, Loading
    <3> QED
      BY <1>1, <2>1, <3>1 DEF Saved, KernelBss
  <2>2. CASE file # "kernel"
    BY <1>1, <2>2 DEF Saved, IInv, BssInv, Loading
  <2> QED
    BY <2>1, <2>2
<1>8. BssInv'
  <2>1. pc' = "head" => file' # "kernel"
    BY <1>1, <1>2 DEF Following, Images, Apps
  <2> QED
    BY <1>1, <1>7, <2>1, Same DEF BssInv, Loading, Loaded
<1> QED
  BY <1>1, <1>3, <1>6, <1>8, SumKept DEF IInv, Summed, Loading

-----------------------------------------------------------------------------
Last == ClearBss \/ GetMemoryMap \/ ExitBootServices

LEMMA LastInv ==
  ASSUME IInv, Last
  PROVE  IInv'
<1>1. /\ pc \in {"bss", "map", "exit"}
      /\ \/ pc = "bss" /\ pc' = "map" /\ cleared' = bss_start
         \/ pc # "bss" /\ pc' \in {"exit", "jump", "halted"} /\ UNCHANGED cleared
      /\ UNCHANGED <<disk, adding, vol, handles, load, mem>>
  BY DEF Last, ClearBss, GetMemoryMap, ExitBootServices, Halt, fw
<1>2. HandlesInv'
  BY <1>1, Same DEF IInv, HandlesInv, Elf, Loaded
<1>3. FileInv'
  BY <1>1, Same DEF IInv, FileInv, Whole, Placed, Loading, Loaded, load
<1>4. BssInv'
  BY <1>1, Same DEF IInv, BssInv, Loading, Loaded
<1> QED
  BY <1>1, <1>2, <1>3, <1>4, SumKept DEF IInv, Summed, Loading

LEMMA StepInv ==
  ASSUME IInv, [Next]_vars
  PROVE  IInv'
<1>1. CASE MapChanges \/ UNCHANGED vars
  <2>1. UNCHANGED <<pc, disk, adding, vol, handles, load, mem, cleared>>
    BY <1>1 DEF MapChanges, vars, fw
  <2> QED
    BY <2>1, Kept, SumKept DEF IInv
<1>2. CASE Boot
  BY <1>2, ProcessorsInv, SearchVolumeInv, ChooseKernelInv, ReadSectionInv, LoadSegmentInv,
     EndElfInv, ReadInv, EndHeadInv, EndBodyInv, LastInv DEF Boot, Sum, Last
<1> QED
  BY <1>1, <1>2 DEF Next

\* The inductive invariant holds whatever the firmware finds and returns.
THEOREM Invariance == Spec => []IInv
<1>1. Init => IInv
  BY InitInv
<1>2. IInv /\ [Next]_vars => IInv'
  BY StepInv
<1> QED
  BY <1>1, <1>2, PTL DEF Spec

\* load_file() never reads behind the end of a file.
THEOREM TypeCorrect == Spec => []TypeOK
<1>1. IInv => TypeOK
  <2> SUFFICES ASSUME IInv PROVE TypeOK
    OBVIOUS
  <2>1. AddInv /\ HandlesInv /\ FileInv
    BY DEF IInv
  <2>2. /\ Len(disk) \in Nat /\ vol \in 1 .. Len(disk) + 1
        /\ Sizes[file] \in Nat
    BY <2>1, Lengths DEF HandlesInv, FileInv
  <2>3. \A v \in {kernel_file, kernel_elf_file, app_files} : v \in 0 .. Len(disk)
    BY <2>1, <2>2 DEF HandlesInv
  <2>4. pos \in 0 .. Sizes[file] /\ left \in 0 .. Sizes[file]
    BY <2>1, <2>2 DEF FileInv
  <2> QED
    BY <2>1, <2>3, <2>4 DEF TypeOK, AddInv, HandlesInv, FileInv, Adding, Elf, Loading, Loaded
<1> QED
  BY <1>1, Invariance, PTL

\* At the jump every image stands at its address byte by byte, for every
\* sequence of short reads.
THEOREM ImagesStand == Spec => []ImagesWhole
<1>1. IInv => ImagesWhole
  BY DEF IInv, FileInv, Whole, Placed, Todo, Loaded, ImagesWhole
<1> QED
  BY <1>1, Invariance, PTL

\* The bss cleared is the one that the loaded kernel's file describes.
THEOREM BssCleared == Spec => []KernelBssCleared
<1>1. IInv => KernelBssCleared
  BY DEF IInv, BssInv, KernelBss, Loaded, KernelBssCleared
<1> QED
  BY <1>1, Invariance, PTL

\* Without a lock the sum is at most what was added and at least 2: the last
\* store is of a processor that stored before, so what it read was 1 or more.
THEOREM LossBounded == Spec => []LostAtMost
<1>1. IInv => LostAtMost
  <2> SUFFICES ASSUME IInv, Summed, Rounds > 1
               PROVE  sum \in 2 .. Cardinality(Aps) * Rounds
    BY DEF LostAtMost
  <2>1. sum \in Nat /\ sum > 1 /\ sum <= Cardinality(Stored)
    BY DEF IInv, AddInv, SumInv
  <2>2. Cardinality(Aps) * Rounds \in Nat
    BY Lengths, ApAssumption, FS_CardinalityType
  <2> QED
    BY <2>1, <2>2, RoundsFinite
<1> QED
  BY <1>1, Invariance, PTL

-----------------------------------------------------------------------------
(***************************************************************************)
(* What loadelf() leaves at the kernel's address, for every kernel.elf: at *)
(* each position the byte of the last loadable segment that reaches there. *)
(***************************************************************************)
Covering(k, n) == {s \in 1 .. n : Segments[s].load /\ k < Segments[s].len}
ElfByte(s, k)  == <<kernel_elf_file, "kernel.elf", <<s, k>>>>

LastStands(n) ==
  \A k \in Space :
    \/ Covering(k, n) = {} /\ mem["kernel"][k] = None
    \/ \E s \in Covering(k, n) :
         mem["kernel"][k] = ElfByte(s, k) /\ \A t \in Covering(k, n) : t <= s

SegInv ==
  /\ pc \in Adding \union {"volumes", "section"} => \A k \in Space : mem["kernel"][k] = None
  /\ pc = "segment" => seg \in 1 .. Len(Segments) + 1 /\ LastStands(seg - 1)
  /\ pc \in Loading \union Loaded /\ IsElf => LastStands(Len(Segments))

\* One segment with a byte in it, meant for the address of the image.
Fits ==
  \A s \in 1 .. Len(Segments) : Segments[s].load /\ Segments[s].len > 0 =>
    /\ Segments[s].at = 0
    /\ \A t \in 1 .. Len(Segments) : Segments[t].load /\ Segments[t].len > 0 => t = s

LEMMA SegmentTypes ==
  /\ Len(Segments) \in Nat
  /\ \A s \in 1 .. Len(Segments) :
       Segments[s].load \in BOOLEAN /\ Segments[s].at \in Nat /\ Segments[s].len \in Nat
<1> DEFINE Header == [load : BOOLEAN, at : Nat, len : Nat]
<1>1. Segments \in Seq(Header)
  BY SegmentAssumption
<1>2. Len(Segments) \in Nat /\ \A s \in 1 .. Len(Segments) : Segments[s] \in Header
  <2> HIDE DEF Header
  <2> QED
    BY <1>1
<1> QED
  BY <1>2

\* Every position is one of memory, and so is where a segment's bytes belong.
LEMMA SpaceOfSegments ==
  /\ \A k \in Space : k \in Nat
  /\ \A s \in 1 .. Len(Segments) : \A k \in 0 .. Segments[s].len-1 :
       k \in Space /\ Segments[s].at + k \in Space
<1>1. ASSUME NEW k \in Space PROVE k \in Nat
  <2>1. \/ \E f \in Images : k \in 0 .. Sizes[f]
        \/ \E s \in 1 .. Len(Segments) : k \in 0 .. Segments[s].at + Segments[s].len
    BY DEF Space
  <2> QED
    BY <2>1, SegmentTypes, Lengths
<1>2. ASSUME NEW s \in 1 .. Len(Segments), NEW k \in 0 .. Segments[s].len-1
      PROVE  k \in Space /\ Segments[s].at + k \in Space
  <2>1. ASSUME NEW j \in 0 .. Segments[s].at + Segments[s].len
        PROVE  j \in Space
    <3> DEFINE Reach(t) == 0 .. Segments[t].at + Segments[t].len
    <3>1. j \in UNION {Reach(t) : t \in 1 .. Len(Segments)}
      <4> HIDE DEF Reach
      <4> QED
        BY DEF Reach
    <3> QED
      BY <3>1 DEF Space
  <2>2. Segments[s].at \in Nat /\ Segments[s].len \in Nat /\ k \in Nat
    BY SegmentTypes
  <2> QED
    BY <2>1, <2>2
<1> QED
  BY <1>1, <1>2

\* It depends on the kernel's memory and the file it came from alone.
LEMMA StandsOn ==
  ASSUME mem'["kernel"] = mem["kernel"], kernel_elf_file' = kernel_elf_file, NEW n,
         LastStands(n)
  PROVE  LastStands(n)'
BY DEF LastStands, ElfByte, Covering

\* One more segment: it covers a position, and is the last to do so, or it does not.
LEMMA SegmentStands ==
  ASSUME IInv, SegInv, LoadSegment
  PROVE  SegInv'
<1>1. /\ pc = "segment" /\ pc' = "segment" /\ seg <= Len(Segments) /\ seg' = seg + 1
      /\ mem' = IF Segments[seg].load
                THEN [mem EXCEPT !["kernel"] = SegmentTo(seg)] ELSE mem
      /\ UNCHANGED <<disk, handles>>
  BY DEF LoadSegment, IsLoad, fw
<1>2. seg \in 1 .. Len(Segments) /\ seg \in Nat /\ LastStands(seg - 1)
      /\ seg' \in 1 .. Len(Segments) + 1 /\ seg' - 1 = seg
  BY <1>1, SegmentTypes DEF SegInv
<1>3. DOMAIN mem = Images /\ "kernel" \in Images
  BY DEF IInv, FileInv, Images
<1>4. UNCHANGED kernel_elf_file
  BY <1>1 DEF handles
<1>5. ASSUME NEW k \in Space
      PROVE  \/ Covering(k, seg) = {} /\ mem'["kernel"][k] = None
             \/ \E s \in Covering(k, seg) :
                  mem'["kernel"][k] = ElfByte(s, k) /\ \A t \in Covering(k, seg) : t <= s
  <2>1. k \in Nat /\ Segments[seg].len \in Nat /\ Segments[seg].load \in BOOLEAN
    BY <1>2, SpaceOfSegments, SegmentTypes
  <2>2. \A s \in 1 .. seg : s = seg \/ s \in 1 .. seg - 1
    BY <1>2
  <2>3. CASE seg \in Covering(k, seg)
    <3>1. k \in 0 .. Segments[seg].len - 1 /\ Segments[seg].load
      BY <2>1, <2>3 DEF Covering
    <3>2. mem'["kernel"][k] = SegmentTo(seg)[k]
      BY <1>1, <1>3, <3>1
    <3>3. SegmentTo(seg)[k] = ElfByte(seg, k)
      BY <2>1, <3>1 DEF SegmentTo, Destination, ElfByte
    <3>4. \A t \in Covering(k, seg) : t <= seg
      BY <1>2 DEF Covering
    <3> QED
      BY <2>3, <3>2, <3>3, <3>4
  <2>4. CASE seg \notin Covering(k, seg)
    <3>1. Covering(k, seg) = Covering(k, seg - 1)
      BY <1>2, <2>2, <2>4 DEF Covering
    <3>2. mem'["kernel"][k] = mem["kernel"][k]
      <4>1. CASE ~Segments[seg].load
        BY <1>1, <4>1
      <4>2. CASE Segments[seg].load
        <5>1. ~(k < Segments[seg].len)
          BY <1>2, <2>4, <4>2 DEF Covering
        <5>2. k - 0 \notin 0 .. Segments[seg].len - 1
          BY <2>1, <5>1
        <5>3. SegmentTo(seg)[k] = mem["kernel"][k]
          BY <5>2 DEF SegmentTo, Destination
        <5> QED
          BY <1>1, <1>3, <4>2, <5>3
      <4> QED
        BY <4>1, <4>2
    <3> QED
      BY <1>2, <3>1, <3>2 DEF LastStands
  <2> QED
    BY <2>3, <2>4
<1>6. LastStands(seg - 1)'
  BY <1>2, <1>4, <1>5 DEF LastStands, ElfByte
<1> QED
  BY <1>1, <1>2, <1>6 DEF SegInv, Adding, Loading, Loaded

\* The other steps leave what has been loaded of kernel.elf alone.
LEMMA ElfStands ==
  ASSUME IInv, SegInv, [Next]_vars
  PROVE  SegInv'
<1>1. CASE UNCHANGED <<pc, disk, handles, mem, seg>>
  <2>1. kernel_elf_file' = kernel_elf_file /\ IsElf' = IsElf
    BY <1>1, Same DEF handles, IsElf
  <2> QED
    BY <1>1, <2>1 DEF SegInv, LastStands, ElfByte
<1>2. CASE Sum \/ SearchVolume
  <2>1. pc' \in Adding \union {"volumes", "halted"} /\ pc \in Adding \union {"volumes"}
        /\ UNCHANGED mem
    BY <1>2 DEF Sum, Processors, Halt, LoadSum, StoreSum, ApsFinished, SearchVolume, Adding
  <2> QED
    BY <2>1 DEF SegInv, Adding, Loading, Loaded
<1>3. CASE ChooseKernel
  <2>1. /\ pc = "volumes" /\ UNCHANGED <<disk, handles, mem>>
        /\ pc' \in {"halted", "section"} \/ (pc' = "head" /\ ~IsElf)
    BY <1>3 DEF ChooseKernel, Halt, Begin, fw
  <2> QED
    BY <2>1, Same DEF SegInv, Adding, Loading, Loaded
<1>4. CASE ReadSection
  <2>1. /\ pc = "section" /\ UNCHANGED <<disk, handles, mem>>
        /\ pc' = "section" \/ (pc' = "segment" /\ seg' = 1)
    BY <1>4 DEF ReadSection, fw
  <2>2. \A k \in Space : mem'["kernel"][k] = None
    BY <2>1 DEF SegInv
  <2>3. \A k \in Space : Covering(k, 0) = {}
    BY DEF Covering
  <2>4. pc' = "segment" => seg' \in 1 .. Len(Segments) + 1 /\ seg' - 1 = 0
    BY <2>1, SegmentTypes
  <2> QED
    BY <2>1, <2>2, <2>3, <2>4 DEF SegInv, LastStands, Adding, Loading, Loaded
<1>5. CASE LoadSegment
  BY <1>5, SegmentStands
<1>6. CASE EndElf
  <2>1. /\ pc = "segment" /\ pc' = "head" /\ seg > Len(Segments)
        /\ UNCHANGED <<disk, handles, mem>>
    BY <1>6 DEF EndElf, Begin, fw
  <2>2. seg - 1 = Len(Segments) /\ LastStands(seg - 1)
    BY <2>1, SegmentTypes DEF SegInv
  <2> QED
    BY <2>1, <2>2, StandsOn DEF SegInv, Adding, Loading, Loaded, handles
<1>7. CASE \/ \E n \in 1 .. ReadUnit : Read(n)
           \/ EndHead \/ EndBody \/ Last \/ MapChanges
  <2>1. /\ pc \in Loading \union Loaded \/ (MapChanges /\ UNCHANGED <<pc, mem, seg>>)
        /\ pc' \in Loading \union Loaded \union {"halted"} \/ pc' = pc
        /\ UNCHANGED <<disk, handles>>
    BY <1>7 DEF Read, EndHead, EndBody, Begin, Last, ClearBss, GetMemoryMap, ExitBootServices,
                Halt, MapChanges, load, Loading, Loaded, fw
  <2>2. IsElf => mem'["kernel"] = mem["kernel"]
    <3>1. ASSUME IsElf, NEW n \in 1 .. ReadUnit, Read(n)
          PROVE  mem'["kernel"] = mem["kernel"]
      <4>1. pc \in Loading /\ file # "kernel" /\ DOMAIN mem = Images /\ "kernel" \in Images
        BY <3>1 DEF Read, IInv, FileInv, Loading, Images
      <4> QED
        BY <3>1, <4>1 DEF Read
    <3>2. EndHead \/ EndBody \/ Last \/ MapChanges => UNCHANGED mem
      BY DEF EndHead, EndBody, Last, ClearBss, GetMemoryMap, ExitBootServices, MapChanges
    <3> QED
      BY <1>7, <3>1, <3>2
  <2>3. UNCHANGED kernel_elf_file /\ IsElf' = IsElf
    BY <2>1, Same DEF handles, IsElf
  <2>4. CASE pc \in Loading \union Loaded
    <3>1. IsElf => LastStands(Len(Segments))'
      BY <2>2, <2>3, <2>4, StandsOn DEF SegInv
    <3> QED
      BY <2>1, <2>3, <2>4, <3>1 DEF SegInv, Adding, Loading, Loaded
  <2>5. CASE MapChanges /\ UNCHANGED <<pc, mem, seg>>
    BY <1>1, <2>1, <2>5
  <2> QED
    BY <2>1, <2>4, <2>5
<1>8. CASE UNCHANGED vars
  BY <1>1, <1>8 DEF vars, fw, load
<1> QED
  BY <1>2, <1>3, <1>4, <1>5, <1>6, <1>7, <1>8 DEF Next, Boot, Sum, Last

\* What the loader leaves of kernel.elf, whatever its program headers say.
THEOREM ElfLoaded == Spec => [](IInv /\ SegInv)
<1>1. Init => IInv /\ SegInv
  <2> SUFFICES ASSUME Init PROVE SegInv
    BY InitInv
  <2>1. pc = "processors" /\ mem = [f \in Images |-> [k \in Space |-> None]]
        /\ "kernel" \in Images
    BY DEF Init, Images
  <2> QED
    BY <2>1 DEF SegInv, Adding, Loading, Loaded
<1>2. IInv /\ SegInv /\ [Next]_vars => (IInv /\ SegInv)'
  BY StepInv, ElfStands
<1> QED
  BY <1>1, <1>2, PTL DEF Spec

\* loadelf() places the segments of a file right exactly if the file has at most
\* one that is not empty, and that one belongs at the start of the image: so
\* no kernel.elf with a text and a data segment is ever loaded as it asks.
THEOREM ElfPlacedIffFits ==
  Spec => [](pc = "jump" /\ IsElf => (SegmentsPlaced <=> Fits))
<1>1. ASSUME SegInv, pc = "jump", IsElf
      PROVE  SegmentsPlaced <=> Fits
  <2> DEFINE Loadable == {s \in 1 .. Len(Segments) : Segments[s].load /\ Segments[s].len > 0}
  <2>1. LastStands(Len(Segments))
    BY <1>1 DEF SegInv, Loaded
  <2>2. \A s \in Loadable : 0 \in 0 .. Segments[s].len-1 /\ Segments[s].at \in Nat
    BY SegmentTypes
  <2>3. ASSUME Fits PROVE SegmentsPlaced
    <3> SUFFICES ASSUME NEW s \in 1 .. Len(Segments), Segments[s].load,
                        NEW k \in 0 .. Segments[s].len-1
                 PROVE  mem["kernel"][Segments[s].at + k] = ElfByte(s, k)
      BY DEF SegmentsPlaced, ElfByte
    <3>1. k \in Space /\ k \in Nat /\ Segments[s].len \in Nat /\ k < Segments[s].len
      BY SpaceOfSegments, SegmentTypes
    <3>2. s \in Covering(k, Len(Segments)) /\ Segments[s].at + k = k
      BY <2>3, <3>1 DEF Covering, Fits
    <3>3. ASSUME NEW t \in Covering(k, Len(Segments)) PROVE t = s
      <4>1. t \in 1 .. Len(Segments) /\ Segments[t].load /\ Segments[t].len > 0
        BY <3>1, SegmentTypes DEF Covering
      <4> QED
        BY <2>3, <3>1, <4>1 DEF Fits
    <3> QED
      BY <2>1, <3>1, <3>2, <3>3 DEF LastStands
  <2>4. ASSUME SegmentsPlaced PROVE Fits
    <3> SUFFICES ASSUME NEW s \in Loadable
                 PROVE  /\ Segments[s].at = 0
                        /\ \A t \in Loadable : t = s
      BY DEF Fits
    \* The first byte of a segment is where it came from only at position 0.
    <3>1. ASSUME NEW t \in Loadable
          PROVE  /\ Segments[t].at = 0 /\ mem["kernel"][0] = ElfByte(t, 0)
      <4>1. mem["kernel"][Segments[t].at + 0] = ElfByte(t, 0)
        BY <2>2, <2>4, <1>1 DEF SegmentsPlaced, ElfByte
      <4>2. Segments[t].at + 0 \in Space /\ Segments[t].at + 0 = Segments[t].at
        BY <2>2, SpaceOfSegments
      <4>3. PICK u : mem["kernel"][Segments[t].at] \in {None, ElfByte(u, Segments[t].at)}
        BY <2>1, <4>2 DEF LastStands
      <4>4. Segments[t].at = 0
        BY <4>1, <4>2, <4>3 DEF ElfByte, None
      <4> QED
        BY <4>1, <4>4
    <3> QED
      BY <3>1 DEF ElfByte
  <2> QED
    BY <2>3, <2>4
<1>2. IInv /\ SegInv => (pc = "jump" /\ IsElf => (SegmentsPlaced <=> Fits))
  BY <1>1
<1> QED
  BY <1>2, ElfLoaded, PTL

\* A file like that is loaded as it asks.
THEOREM SegmentsStand ==
  ASSUME Fits
  PROVE  Spec => []SegmentsPlaced
<1>1. (pc = "jump" /\ IsElf => (SegmentsPlaced <=> Fits)) => SegmentsPlaced
  BY Fits DEF SegmentsPlaced
<1> QED
  BY <1>1, ElfPlacedIffFits, PTL

-----------------------------------------------------------------------------
(***************************************************************************)
(* BootLoader implements Handover: the handles are those of the last       *)
(* volumes there are, and no volume the loader went by was to be refused.  *)
(***************************************************************************)
Seen == 1 .. vol - 1
IsLast(v, S) == (v = 0 /\ S = {}) \/ (v \in S /\ \A w \in S : w <= v)

ChoiceInv ==
  /\ ncpu = 1 => pc \in {"processors", "halted"}
  /\ pc \in Adding => vol = 1
  /\ \A w \in Seen : ~Rejected(disk[w])
  /\ IsLast(kernel_file, {w \in Seen : KernelFound(disk[w])})
  /\ IsLast(kernel_elf_file, {w \in Seen : disk[w].elf # "none"})
  /\ pc \in Elf \union Loading \union Loaded => vol = Len(disk) + 1 /\ kernel_file # 0

LEMMA InitChoice == Init => ChoiceInv
BY DEF Init, ChoiceInv, Seen, IsLast, Adding, Elf, Loading, Loaded

LEMMA SearchChoice ==
  ASSUME IInv, ChoiceInv, SearchVolume
  PROVE  ChoiceInv'
<1>1. /\ pc = "volumes" /\ vol \in Nat \ {0} /\ vol <= Len(disk) /\ UNCHANGED fw
  BY Lengths DEF SearchVolume, IInv, HandlesInv
<1>2. UNCHANGED <<disk, ncpu>>
  BY <1>1 DEF fw
<1>3. CASE UNCHANGED <<vol, handles>> /\ pc' = "halted"
  BY <1>1, <1>2, <1>3
     DEF ChoiceInv, Seen, IsLast, handles, Adding, Elf, Loading, Loaded
<1>4. CASE vol' = vol + 1 /\ pc' = pc /\ ~Rejected(disk[vol])
  <2>1. Seen' = Seen \union {vol} /\ vol \in Seen' /\ \A w \in Seen' : w <= vol
    BY <1>1, <1>4 DEF Seen
  <2>2. \A w \in Seen' : ~Rejected(disk'[w])
    BY <1>2, <1>4, <2>1 DEF ChoiceInv
  <2>3. \/ ~KernelFound(disk[vol]) /\ UNCHANGED handles
        \/ /\ KernelFound(disk[vol]) /\ kernel_file' = vol
           /\ kernel_elf_file' = IF disk[vol].elf = "none" THEN kernel_elf_file ELSE vol
    BY <1>1, <1>4 DEF SearchVolume, OpenedElf, Halt
  <2>4. IsLast(kernel_file, {w \in Seen : KernelFound(disk[w])})'
    <3>1. CASE KernelFound(disk[vol])
      <4>1. kernel_file' = vol /\ vol \in {w \in Seen : KernelFound(disk[w])}'
        BY <1>2, <2>1, <2>3, <3>1
      <4> QED
        BY <2>1, <4>1 DEF IsLast
    <3>2. CASE ~KernelFound(disk[vol])
      <4>1. {w \in Seen : KernelFound(disk[w])}' = {w \in Seen : KernelFound(disk[w])}
        BY <1>2, <2>1, <3>2
      <4> QED
        BY <2>3, <3>2, <4>1 DEF IsLast, ChoiceInv, handles
    <3> QED
      BY <3>1, <3>2
  <2>5. IsLast(kernel_elf_file, {w \in Seen : disk[w].elf # "none"})'
    <3>1. CASE disk[vol].elf # "none"
      <4>1. kernel_elf_file' = vol /\ vol \in {w \in Seen : disk[w].elf # "none"}'
        BY <1>2, <2>1, <2>3, <3>1 DEF KernelFound
      <4> QED
        BY <2>1, <4>1 DEF IsLast
    <3>2. CASE disk[vol].elf = "none"
      <4>1. {w \in Seen : disk[w].elf # "none"}' = {w \in Seen : disk[w].elf # "none"}
        BY <1>2, <2>1, <3>2
      <4> QED
        BY <2>3, <3>2, <4>1 DEF IsLast, ChoiceInv, handles
    <3> QED
      BY <3>1, <3>2
  <2> QED
    BY <1>1, <1>2, <1>4, <2>2, <2>4, <2>5
       DEF ChoiceInv, Adding, Elf, Loading, Loaded
<1> QED
  BY <1>1, <1>3, <1>4 DEF SearchVolume, Halt, Rejected

LEMMA StepChoice ==
  ASSUME IInv, ChoiceInv, [Next]_vars
  PROVE  ChoiceInv'
<1>1. CASE SearchVolume
  BY <1>1, SearchChoice
<1>2. CASE ~SearchVolume
  <2>1. UNCHANGED <<disk, ncpu, vol, handles>>
    BY <1>2 DEF Next, Boot, Processors, LoadSum, StoreSum, ApsFinished, ChooseKernel,
                ReadSection, LoadSegment, EndElf, Read, EndHead, EndBody, ClearBss,
                GetMemoryMap, ExitBootServices, MapChanges, vars, fw
  <2>2. /\ UNCHANGED <<kernel_file, kernel_elf_file>> /\ Seen' = Seen
    BY <2>1 DEF handles, Seen
  <2>3. ncpu = 1 => pc' \in {"processors", "halted"}
    BY <1>2 DEF ChoiceInv, Next, Boot, Processors, LoadSum, StoreSum, ApsFinished, Halt,
                ChooseKernel, ReadSection, LoadSegment, EndElf, Read, EndHead, EndBody,
                ClearBss, GetMemoryMap, ExitBootServices, MapChanges, vars
  <2>4. pc' \in Adding => pc \in Adding
    BY <1>2 DEF Next, Boot, Processors, LoadSum, StoreSum, ApsFinished, Halt, Begin,
                ChooseKernel, ReadSection, LoadSegment, EndElf, Read, EndHead, EndBody,
                ClearBss, GetMemoryMap, ExitBootServices, MapChanges, vars, Adding
  <2>5. pc' \in Elf \union Loading \union Loaded =>
          \/ pc \in Elf \union Loading \union Loaded
          \/ pc = "volumes" /\ vol > Len(disk) /\ kernel_file # 0
    BY <1>2 DEF Next, Boot, Processors, LoadSum, StoreSum, ApsFinished, Halt, Begin,
                ChooseKernel, ReadSection, LoadSegment, EndElf, Read, EndHead, EndBody,
                ClearBss, GetMemoryMap, ExitBootServices, MapChanges, vars,
                Elf, Loading, Loaded
  <2>6. vol > Len(disk) => vol = Len(disk) + 1
    BY Lengths DEF IInv, HandlesInv
  <2> QED
    BY <2>1, <2>2, <2>3, <2>4, <2>5, <2>6 DEF ChoiceInv, IsLast
<1> QED
  BY <1>1, <1>2

\* The one of the largest number.
LEMMA LastIs ==
  ASSUME NEW S, S \subseteq Nat, NEW v, v \in S, \A w \in S : w <= v
  PROVE  Promise!LastOf(S) = v
<1>1. \A u \in S : (\A w \in S : w <= u) => u = v
  OBVIOUS
<1> QED
  BY <1>1 DEF Promise!LastOf

\* The loader has looked at all volumes: its handles are what Handover chooses.
LEMMA Chosen ==
  ASSUME IInv, ChoiceInv, pc \in Loaded
  PROVE  /\ Promise!Kernels # {} /\ Promise!LastOf(Promise!Kernels) = kernel_file
         /\ \A v \in 1 .. Len(disk) : Promise!Usable(disk[v])
         /\ Promise!Executable <=> IsElf
         /\ IsElf => Promise!LastOf(Promise!Elfs) = kernel_elf_file
<1>1. Len(disk) \in Nat /\ \A v \in 1 .. Len(disk) : disk[v] \in Volume
  BY DiskAssumption DEF IInv, HandlesInv
<1>2. Seen = 1 .. Len(disk) /\ kernel_file # 0
  BY <1>1 DEF ChoiceInv, Seen
<1>3. \A v \in 1 .. Len(disk) :
        /\ Promise!Kernel(disk[v]) <=> KernelFound(disk[v])
        /\ Promise!Usable(disk[v]) <=> ~Rejected(disk[v])
        /\ disk[v].elf \in {"none", "bad", "stripped", "good"}
        /\ disk[v].elf # "none" => KernelFound(disk[v])
  BY <1>1 DEF Promise!Kernel, Promise!Usable, KernelFound, Rejected, Volume
<1>4. /\ Promise!Kernels = {w \in Seen : KernelFound(disk[w])}
      /\ Promise!Elfs = {w \in Seen : disk[w].elf # "none"}
  BY <1>2, <1>3 DEF Promise!Kernels, Promise!Elfs
<1>5. Promise!Kernels \subseteq Nat /\ Promise!Elfs \subseteq Nat
  BY <1>1, <1>2, <1>4
<1>6. Promise!Kernels # {} /\ Promise!LastOf(Promise!Kernels) = kernel_file
  BY <1>2, <1>4, <1>5, LastIs DEF ChoiceInv, IsLast
<1>7. CASE Promise!Elfs = {}
  <2>1. kernel_elf_file = 0
    BY <1>4, <1>7 DEF ChoiceInv, IsLast
  <2> QED
    BY <1>2, <1>3, <1>6, <1>7, <2>1 DEF IsElf, Promise!Executable, ChoiceInv
<1>8. CASE Promise!Elfs # {}
  <2>1. kernel_elf_file \in Promise!Elfs /\ \A w \in Promise!Elfs : w <= kernel_elf_file
    BY <1>4, <1>8 DEF ChoiceInv, IsLast
  <2>2. Promise!LastOf(Promise!Elfs) = kernel_elf_file
    BY <1>5, <2>1, LastIs
  <2>3. kernel_elf_file \in 1 .. Len(disk) /\ disk[kernel_elf_file].elf # "none"
    BY <1>2, <1>4, <2>1
  <2> QED
    BY <1>1, <1>2, <1>3, <1>6, <1>8, <2>2, <2>3
       DEF IsElf, Promise!Executable, ChoiceInv
<1> QED
  BY <1>7, <1>8

LEMMA JumpStarts ==
  ASSUME IInv, ChoiceInv, ExitBootServices, pc' = "jump"
  PROVE  Promise!Start
<1>1. /\ pc = "exit" /\ UNCHANGED <<disk, ncpu, kernel_file, kernel_elf_file, mem, cleared>>
      /\ pc \in Loaded
  BY DEF ExitBootServices, fw, handles, Loaded
<1>2. Outcome = "loading" /\ Outcome' = "started"
  BY <1>1 DEF Outcome
<1>3. ncpu # 1
  BY <1>1 DEF ChoiceInv
<1>4. Started(InMemory)' = Promise!Placed
  <2>1. IsElf' = IsElf
    BY <1>1 DEF IsElf
  <2>2. Promise!Whole = Todo
    BY <1>1, Chosen DEF Promise!Whole, Todo, Images, Apps
  <2>3. \A f \in Todo : f \in Images
    BY DEF Todo, Images
  <2>4. ASSUME NEW f \in Todo, NEW k \in DOMAIN Body[f]
        PROVE  mem[f][k] = <<kernel_file, f, Body[f][k]>>
    <3>1. k \in 0 .. Sizes[f] - HeadSize - 1 /\ Body[f][k] = HeadSize + k
      BY <2>3, <2>4 DEF Body
    <3> QED
      BY <1>1, <3>1 DEF IInv, FileInv, Whole, Placed
  <2>5. Started(InMemory)' = [f \in Todo |-> [k \in DOMAIN Body[f] |-> mem[f][k]]]
    BY <1>1, <2>1 DEF Started, InMemory, Todo
  <2>6. Promise!Placed = [f \in Todo |-> [k \in DOMAIN Body[f] |-> <<kernel_file, f, Body[f][k]>>]]
    BY <1>1, <2>2, Chosen DEF Promise!Placed
  <2> QED
    BY <2>4, <2>5, <2>6
<1>5. Started(<<cleared[1], cleared[2]>>)' \in Promise!Described
  <2>1. KernelBss(cleared)
    BY <1>1 DEF IInv, BssInv, Loaded
  <2>2. Started(<<cleared[1], cleared[2]>>)' = <<cleared[1], cleared[2]>>
    BY <1>1 DEF Started
  <2> QED
    BY <1>1, <2>1, <2>2, Chosen DEF KernelBss, Promise!Described, None
<1> QED
  BY <1>1, <1>2, <1>3, <1>4, <1>5, Chosen DEF Promise!Start

\* Every other step of the loader is none of Handover's, but for its stops.
LEMMA HandoverStep ==
  ASSUME IInv, ChoiceInv, [Next]_vars
  PROVE  [Promise!Next]_(Promise!hvars)
<1>1. disk' = disk /\ ncpu' = ncpu
  BY DEF Next, Boot, Processors, LoadSum, StoreSum, ApsFinished, ChooseKernel, SearchVolume,
         ReadSection, LoadSegment, EndElf, Read, EndHead, EndBody, ClearBss,
         GetMemoryMap, ExitBootServices, MapChanges, vars, fw
<1>2. pc' = "jump" => ExitBootServices \/ UNCHANGED vars
  BY DEF Next, Boot, Processors, LoadSum, StoreSum, ApsFinished, Halt, Begin, ChooseKernel,
         SearchVolume, ReadSection, LoadSegment, EndElf, Read, EndHead, EndBody, ClearBss,
         GetMemoryMap, MapChanges
<1>3. pc \in {"jump", "halted"} => UNCHANGED vars
  BY DEF Next, Boot, Processors, LoadSum, StoreSum, ApsFinished, ChooseKernel,
         SearchVolume, ReadSection, LoadSegment, EndElf, Read, EndHead, EndBody, ClearBss,
         GetMemoryMap, ExitBootServices, MapChanges
<1>4. CASE UNCHANGED vars
  BY <1>1, <1>4 DEF vars, fw, handles, Promise!hvars, Outcome, Started, InMemory, IsElf
<1>5. CASE pc \notin {"jump", "halted"} /\ pc' = "jump" /\ ExitBootServices
  BY <1>5, JumpStarts DEF Promise!Next
<1>6. CASE pc \notin {"jump", "halted"} /\ pc' = "halted"
  BY <1>1, <1>6 DEF Promise!Next, Promise!Stop, Outcome, Started
<1>7. CASE pc \notin {"jump", "halted"} /\ pc' \notin {"jump", "halted"}
  BY <1>1, <1>7 DEF Promise!hvars, Outcome, Started
<1> QED
  BY <1>2, <1>3, <1>4, <1>5, <1>6, <1>7

\* For any number of volumes, what is started is decided by what lies on them: the
\* last kernel with the applications beside it, and the last kernel.elf if there
\* is one; and nothing is started where any volume is to be refused.
THEOREM HandoverImplemented == Spec => HandsOver
<1>1. Init => Promise!Init
  BY DEF Init, Promise!Init, Outcome, Started
<1>2. Spec => []ChoiceInv
  <2>1. IInv /\ ChoiceInv /\ [Next]_vars => ChoiceInv'
    BY StepChoice
  <2> QED
    BY <2>1, InitChoice, Invariance, PTL DEF Spec
<1>3. IInv /\ ChoiceInv /\ [Next]_vars => [Promise!Next]_(Promise!hvars)
  BY HandoverStep
<1> QED
  BY <1>1, <1>2, <1>3, Invariance, PTL DEF Spec, HandsOver, Promise!Spec

-----------------------------------------------------------------------------
\* One processor alone: what it has loaded is the sum.
ExactInv(p) == sum = done[p] /\ (loaded[p] # Nothing => loaded[p] = sum)

\* Additions are lost to other processors and to nothing else: with a single one,
\* the missing lock does no harm.
THEOREM AloneNothingLost ==
  ASSUME NEW p, Aps = {p}
  PROVE  Spec => []NothingLost
<1>1. Init => ExactInv(p)
  BY DEF Init, ExactInv
<1>2. IInv /\ ExactInv(p) /\ [Next]_vars => ExactInv(p)'
  <2> SUFFICES ASSUME IInv, ExactInv(p), [Next]_vars PROVE ExactInv(p)'
    OBVIOUS
  <2>1. CASE LoadSum(p)
    <3>1. p \in DOMAIN loaded /\ loaded' = [loaded EXCEPT ![p] = sum] /\ UNCHANGED <<sum, done>>
      BY <2>1 DEF LoadSum, IInv, AddInv
    <3> QED
      BY <3>1 DEF ExactInv
  <2>2. CASE StoreSum(p)
    <3>1. /\ p \in DOMAIN loaded /\ p \in DOMAIN done
          /\ loaded[p] # Nothing /\ sum' = loaded[p] + 1
          /\ done' = [done EXCEPT ![p] = @ + 1] /\ loaded' = [loaded EXCEPT ![p] = Nothing]
      BY <2>2 DEF StoreSum, Incremented, IInv, AddInv
    <3> QED
      BY <3>1 DEF ExactInv
  <2>3. CASE UNCHANGED adding
    BY <2>3 DEF adding, ExactInv
  <2> QED
    BY <2>1, <2>2, <2>3
       DEF Next, Boot, Processors, ApsFinished, ChooseKernel, SearchVolume,
           ReadSection, LoadSegment, EndElf, Read, EndHead, EndBody, ClearBss,
           GetMemoryMap, ExitBootServices, MapChanges, vars
<1>3. IInv /\ ExactInv(p) => NothingLost
  <2> SUFFICES ASSUME IInv, ExactInv(p), Summed PROVE sum = Cardinality(Aps) * Rounds
    BY DEF NothingLost
  <2>1. Cardinality(Aps) = 1
    BY FS_Singleton
  <2>2. done[p] = Rounds
    BY DEF IInv, SumInv
  <2> QED
    BY <2>1, <2>2, Lengths DEF ExactInv
<1> QED
  BY <1>1, <1>2, <1>3, Invariance, PTL DEF Spec
=============================================================================
