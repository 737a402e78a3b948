-------------------------- MODULE Sched_refinement --------------------------
(***************************************************************************)
(* Proofs about what Sched prints and that it implements Multitasking, for *)
(* builds without a red zone (RedZone = FALSE): with one, a tick may       *)
(* overwrite the string pointer of syscall_puts() and both are false.      *)
(***************************************************************************)
EXTENDS Sched_proofs, SequenceTheorems

\* Where the kernel prints, or has just printed.
Speaking == KernelPCs \union {"boot_sys"}

\* The kernel only prints for the running task or its own test, one message at
\* a time, and what it has printed of it is the terminal's whole line.
LineInv ==
  /\ cpu.pc = "sys" => cpu.rsi = AppMessage(cr3)
  /\ cpu.pc = "boot_sys" => cpu.rsi = TestMessage
  /\ line = IF cpu.pc \in Speaking /\ cpu.i <= MsgLen
            THEN [k \in 1 .. cpu.i-1 |-> <<Message, k>>]
            ELSE << >>

LEMMA Messages ==
  ASSUME NEW t
  PROVE  Garbage \notin {AppMessage(t), TestMessage, MapNotice, Diagnosis}
         /\ AppMessage(t) # Diagnosis /\ MapNotice # Diagnosis
BY DEF Garbage, AppMessage, TestMessage, MapNotice, Diagnosis

\* Printing the next character of a message prolongs the part already printed.
LEMMA AppendNext ==
  ASSUME NEW msg, NEW n \in Nat
  PROVE  /\ Len([k \in 1 .. n |-> <<msg, k>>]) = n
         /\ Append([k \in 1 .. n |-> <<msg, k>>], <<msg, n+1>>) = [k \in 1 .. n+1 |-> <<msg, k>>]
<1> DEFINE S    == {<<msg, k>> : k \in Nat}
           f(m) == [k \in 1 .. m |-> <<msg, k>>]
<1>1. \A m \in Nat : f(m) \in Seq(S) /\ Len(f(m)) = m
  OBVIOUS
<1>2. <<msg, n+1>> \in S
  OBVIOUS
<1> HIDE DEF S
<1>3. /\ Append(f(n), <<msg, n+1>>) \in Seq(S)
      /\ Len(Append(f(n), <<msg, n+1>>)) = n+1
      /\ \A k \in 1 .. n : Append(f(n), <<msg, n+1>>)[k] = f(n)[k]
      /\ Append(f(n), <<msg, n+1>>)[n+1] = <<msg, n+1>>
  BY <1>1, <1>2, AppendProperties
<1>4. \A k \in 1 .. n+1 : Append(f(n), <<msg, n+1>>)[k] = f(n+1)[k]
  BY <1>3
<1> QED
  BY <1>1, <1>3, <1>4, SeqEqual

\* The boot prints nothing that is modelled but the message of its system call.
LEMMA QuietBoot ==
  ASSUME IInv, Boot, ~TestSyscall
  PROVE  cpu.pc \notin Speaking /\ cpu'.pc \notin Speaking /\ line' = line
<1> USE DEF Speaking, KernelPCs
<1>0. cpu \in Regs
  BY DEF IInv, TypeOK
<1>1. CASE InitIntr
  BY <1>0, <1>1 DEF InitIntr, Regs
<1>2. CASE InitAcpi \/ InitVirtio
  BY <1>0, <1>2 DEF InitAcpi, InitVirtio, InitDevice, Goto, Regs
<1>3. CASE Measure \/ InitTasks
  BY <1>0, <1>3 DEF Measure, InitTasks, Goto, Regs
<1>4. CASE SetCallback \/ ArmTimer
  BY <1>0, <1>4 DEF SetCallback, ArmTimer, Goto, Regs
<1>5. CASE StartTask0
  BY <1>0, <1>5 DEF StartTask0, Goto, Regs
<1> QED
  BY <1>1, <1>2, <1>3, <1>4, <1>5 DEF Boot

\* The test's system call returns to the boot.
LEMMA BootReturn ==
  ASSUME IInv, cpu.pc = "boot_sys", SyscallReturn
  PROVE  cpu'.pc = "virtio"
<1>1. cpu.sp = Below(KernelTop) /\ BootFrame
  BY DEF IInv, BootInv, Booting, BootPCs, EarlyPCs
<1>2. Phys(cr3, cpu.sp) = <<KernelStack, 1>>
  BY <1>1 DEF Phys, Below, KernelTop
<1> QED
  BY <1>1, <1>2 DEF SyscallReturn, Iretq, Popped, BootFrame

LEMMA LineStep ==
  ASSUME ~EarlyTick, ~RedZone, MsgLen - 1 <= Columns, IInv, LineInv, CpuStep \/ Tick
  PROVE  LineInv'
<1> USE OutputAssumption
<1>1. CASE Boot /\ ~TestSyscall
  <2>1. cpu.pc \notin Speaking /\ cpu'.pc \notin Speaking /\ line' = line
    BY <1>1, QuietBoot
  <2> QED
    BY <2>1 DEF LineInv, Speaking, KernelPCs
<1>9. CASE TestSyscall
  <2>1. cpu.pc = "test" /\ line' = line
    BY <1>9 DEF TestSyscall
  <2>2. cpu'.pc = "boot_sys" /\ cpu'.rsi = TestMessage /\ cpu'.i = 1
    BY <1>9 DEF TestSyscall, Interrupt, IInv, TypeOK, Regs
  <2> QED
    BY <2>1, <2>2 DEF LineInv, Speaking, KernelPCs
<1>2. CASE Call \/ Load \/ Ret \/ Touch
  <2>1. cpu.pc \in UserPCs /\ cpu'.pc \in UserPCs /\ line' = line
    BY <1>2 DEF IInv, TypeOK, Regs, UserPCs, Call, Load, Ret, Touch, Goto
  <2> QED
    BY <2>1 DEF LineInv, UserPCs, Speaking, KernelPCs
<1>3. CASE Syscall \/ PageFault
  <2>0. cpu.pc \in UserPCs /\ cpu.pc \notin Speaking
    BY <1>3 DEF Syscall, PageFault, UserPCs, KernelPCs, Speaking
  <2>1. /\ cpu'.i = 1 /\ cpu'.rsi = cpu.rsi /\ line' = line /\ cr3' = cr3
        /\ cpu'.pc # "boot_sys" /\ (cpu'.pc = "sys" => cpu.pc = "int")
    <3>1. CASE Syscall
      BY <2>0, <3>1, AppFacts DEF Syscall, Interrupt, Regs
    <3>2. CASE PageFault
      BY <2>0, <3>2, AppFacts DEF PageFault, Interrupt, Regs
    <3> QED
      BY <1>3, <3>1, <3>2
  <2>2. cpu'.pc = "sys" => cpu.rsi = AppMessage(cr3)
    BY <2>0, <2>1, AppFacts DEF AppRegs
  <2> QED
    BY <2>0, <2>1, <2>2 DEF LineInv
<1>4. CASE Putc
  <2> USE <1>4 DEF Putc
  <2>1. /\ cpu.pc \in Handlers /\ cpu.pc \in Speaking /\ cpu.i \in 1 .. MsgLen
        /\ cpu'.pc = cpu.pc /\ cpu'.rsi = cpu.rsi /\ cpu'.i = cpu.i + 1 /\ cr3' = cr3
    BY DEF IInv, TypeOK, Regs, Printing, Handlers, KernelPCs, Speaking
  <2>2. Message # Garbage
    BY <2>1, Messages DEF LineInv, Message
  <2>3. line = [k \in 1 .. cpu.i-1 |-> <<Message, k>>] /\ Len(line) = cpu.i - 1
    BY <2>1 DEF LineInv
  <2>4. line' = IF cpu.i = MsgLen THEN << >> ELSE Append(line, <<Message, cpu.i>>)
    BY <2>1, <2>2, <2>3 DEF Printed
  <2>5. Message' = Message
    BY <2>1 DEF Message
  <2>6. Append(line, <<Message, cpu.i>>) = [k \in 1 .. cpu.i |-> <<Message, k>>]
    <3>1. cpu.i - 1 \in Nat /\ (cpu.i - 1) + 1 = cpu.i
      BY <2>1
    <3> QED
      BY <2>3, <3>1, AppendNext
  <2>7. line' = IF cpu'.pc \in Speaking /\ cpu'.i <= MsgLen
                THEN [k \in 1 .. cpu'.i-1 |-> <<Message', k>>]
                ELSE << >>
    <3>1. cpu'.pc \in Speaking /\ cpu'.i - 1 = cpu.i /\ (cpu'.i <= MsgLen <=> cpu.i # MsgLen)
      BY <2>1
    <3> QED
      BY <2>4, <2>5, <2>6, <3>1
  <2> QED
    BY <2>1, <2>7 DEF LineInv
<1>5. CASE SyscallReturn \/ MapPage
  <2>1. cpu.pc \in {"sys", "boot_sys", "pf_map"} /\ ~(cpu.i <= MsgLen) /\ line' = line
    BY <1>5 DEF SyscallReturn, MapPage, Printing, Handlers
  <2>2. cpu'.pc \in UserPCs \union {"virtio"}
    <3>1. CASE cpu.pc = "boot_sys"
      BY <1>5, <3>1, BootReturn DEF MapPage
    <3>2. CASE cpu.pc # "boot_sys"
      <4>1. cpu.pc \in KernelPCs
        BY <2>1, <3>2 DEF KernelPCs
      <4>2. cpu' = mem[<<cr3, cpu.sp.depth>>].reg
        BY <1>5, <4>1, KernelFacts DEF SyscallReturn, MapPage, Iretq, Popped, HoldsFrame
      <4> QED
        BY <4>1, <4>2, KernelFacts DEF HoldsFrame, AppRegs
    <3> QED
      BY <3>1, <3>2
  <2> QED
    BY <2>1, <2>2 DEF LineInv, UserPCs, KernelPCs, Speaking
<1>6. CASE Panic
  <2>1. cpu.pc = "pf_panic" /\ ~(cpu.i <= MsgLen) /\ line' = line /\ cpu'.pc = "halt" /\ cpu'.i = cpu.i
    BY <1>6 DEF Panic, Goto, Printing, Handlers, IInv, TypeOK, Regs
  <2> QED
    BY <2>1 DEF LineInv, KernelPCs, Speaking
<1>7. CASE Halt
  BY <1>7 DEF Halt, vars, LineInv, Message
<1>8. CASE Tick
  <2>1. line' = line /\ cpu.pc \in UserPCs /\ cpu'.pc \in UserPCs
    BY <1>8, TickFacts DEF Tick, AppRegs
  <2> QED
    BY <2>1 DEF LineInv, UserPCs, KernelPCs, Speaking
<1> QED
  BY <1>1, <1>2, <1>3, <1>4, <1>5, <1>6, <1>7, <1>8, <1>9 DEF CpuStep, App, Kernel

LEMMA InitLineInv == Init => LineInv
BY DEF Init, LineInv, KernelPCs, Speaking

LEMMA LineInvariance ==
  ASSUME ~EarlyTick, ~RedZone, MsgLen - 1 <= Columns
  PROVE  Spec => []LineInv
<1>1. IInv /\ LineInv /\ [Next]_vars => LineInv'
  BY LineStep DEF vars, LineInv, Message, Next
<1> QED
  BY <1>1, InitLineInv, Invariance, PTL DEF Spec

\* If a message fits a line, every line is one whole message of one author.
THEOREM LinesAreWhole ==
  ASSUME ~EarlyTick, ~RedZone, MsgLen - 1 <= Columns
  PROVE  Spec => []LineIntegrity
<1>1. IInv /\ LineInv => LineIntegrity
  <2> SUFFICES ASSUME IInv, LineInv PROVE LineIntegrity
    OBVIOUS
  <2>1. CASE cpu.pc \in Speaking /\ cpu.i <= MsgLen
    <3>1. cpu.i \in Nat \ {0} /\ (cpu.pc \in KernelPCs => cr3 \in Tasks)
      BY <2>1, KernelFacts DEF Regs, IInv, TypeOK
    <3>2. Message \in {AppMessage(t) : t \in Tasks} \union {TestMessage, MapNotice, Diagnosis}
      BY <3>1 DEF Message, LineInv, KernelPCs
    <3>3. line = [k \in 1 .. cpu.i-1 |-> <<Message, k>>] /\ Len(line) = cpu.i-1
      BY <2>1, <3>1, AppendNext DEF LineInv
    <3> QED
      BY <3>1, <3>2, <3>3 DEF LineIntegrity
  <2>2. CASE line = << >>
    BY <2>2 DEF LineIntegrity
  <2> QED
    BY <2>1, <2>2 DEF LineInv
<1> QED
  BY <1>1, Invariance, LineInvariance, PTL

-----------------------------------------------------------------------------
\* The abstract state, as the refinement mapping computes it.
AbsAt      == [t \in Tasks |-> IF Booting THEN "call" ELSE UserRegs(t).pc]
AbsOut     == IF cpu.pc \in KernelPCs
              THEN <<Message, IF cpu.pc = "halt" THEN MsgLen + 1 ELSE cpu.i>>
              ELSE << >>

\* The operators Multitasking shares with Sched mean the same in both.
LEMMA SharedOperators ==
  /\ Abs!Tasks = Tasks
  /\ \A t : Abs!AppMessage(t) = AppMessage(t)
  /\ Abs!MapNotice = MapNotice
  /\ Abs!Diagnosis = Diagnosis
  /\ \A l, m, k : Abs!Printed(l, m, k) = Printed(l, m, k)
BY DEF Abs!Tasks, Tasks, Abs!AppMessage, AppMessage, Abs!MapNotice, MapNotice,
       Abs!Diagnosis, Diagnosis, Abs!Printed, Printed, Abs!Garbage, Garbage

LEMMA RefinesInit == Init => Abs!Init
BY DEF Init, Abs!Init, Abs!Tasks, Tasks, Booting, BootPCs, EarlyPCs, KernelPCs

\* Where the mapping finds the program counter of each task.
PCs == [t \in Tasks |->
          IF t # cur_task THEN mem[<<t, tasks[t].sp.depth>>].reg.pc
          ELSE IF cpu.pc \in UserPCs THEN cpu.pc
          ELSE mem[<<cr3, cpu.sp.depth>>].reg.pc]

LEMMA UserPC == IInv /\ ~Booting => AbsAt = PCs
<1> SUFFICES ASSUME IInv, ~Booting, NEW t \in Tasks
             PROVE  UserRegs(t).pc = PCs[t]
  BY DEF AbsAt, PCs
<1>1. CASE t # cur_task
  <2>1. tasks[t].cr3 = t /\ HoldsFrame(t, mem, tasks[t].sp)
    BY <1>1 DEF IInv, TasksInv, TasksReady, Booting, BootPCs
  <2>2. UserRegs(t) = SavedCell(t).reg
    BY <1>1 DEF UserRegs
  <2>3. SavedCell(t) = mem[<<t, tasks[t].sp.depth>>]
    BY <2>1 DEF SavedCell, Phys, HoldsFrame
  <2> QED
    BY <1>1, <2>2, <2>3 DEF PCs
<1>2. CASE t = cur_task /\ cpu.pc \in UserPCs
  BY <1>2 DEF UserRegs, PCs
<1>3. CASE t = cur_task /\ cpu.pc \notin UserPCs
  BY <1>3 DEF UserRegs, Phys, IInv, RunInv, PCs
<1> QED
  BY <1>1, <1>2, <1>3

LEMMA UserPCNext == (IInv /\ ~Booting => AbsAt = PCs)'
BY UserPC, PTL

\* An application's step does not touch the frames of the other tasks.
LEMMA RunningTaskWrites ==
  ASSUME IInv, Call \/ Load \/ Ret \/ Touch \/ Syscall \/ PageFault
  PROVE  \A t \in Tasks \ {cur_task} :
           mem'[<<t, tasks'[t].sp.depth>>].reg.pc = mem[<<t, tasks[t].sp.depth>>].reg.pc
<1>1. cpu.pc \in UserPCs /\ tasks' = tasks
  BY DEF Call, Load, Ret, Touch, Syscall, PageFault, UserPCs
<1>2. ASSUME NEW t \in Tasks \ {cur_task}
      PROVE  mem'[<<t, tasks[t].sp.depth>>] = mem[<<t, tasks[t].sp.depth>>]
  <2>1. tasks[t].sp.depth \in 1 .. 2
    BY <1>1, <1>2, AppFacts DEF IInv, TasksInv, HoldsFrame
  <2>2. <<t, tasks[t].sp.depth>> \in Cells /\ mem \in [Cells -> Content]
    BY <2>1, DepthAssumption DEF Cells, Depths, Spaces, IInv, TypeOK
  <2>3. mem' = mem \/ \E v : mem' = [mem EXCEPT ![<<cr3, UserDepth(cpu.pc) + 1>>] = v]
    <3>1. CASE Call \/ Load \/ Ret \/ Touch
      BY <1>1, <3>1, AppFacts DEF Call, Load, Ret, Touch, Store
    <3>2. CASE Syscall
      <4>1. cpu \in Regs /\ [cpu EXCEPT !.pc = "ret"].sp = cpu.sp
        BY <1>1, AppFacts DEF Regs
      <4> QED
        BY <1>1, <3>2, <4>1, AppFacts DEF Syscall, Interrupt, Store
    <3>3. CASE PageFault
      BY <1>1, <3>3, AppFacts DEF PageFault, Interrupt, Store
    <3> QED
      BY <3>1, <3>2, <3>3
  <2> QED
    BY <1>1, <1>2, <2>2, <2>3, AppFacts
<1> QED
  BY <1>1, <1>2

\* The boot goes on until start_task0() jumps to the first application.
LEMMA BootPhase ==
  ASSUME IInv,
         \/ Boot /\ ~(StartTask0 /\ cpu.pc = "jmp")
         \/ cpu.pc = "boot_sys" /\ (Putc \/ SyscallReturn \/ MapPage)
         \/ cpu.pc = "stopped" /\ (Panic \/ Halt)
  PROVE  Booting /\ Booting'
<1> USE DEF Booting, BootPCs, EarlyPCs, LatePCs
<1>0. cpu \in Regs
  BY DEF IInv, TypeOK
<1>1. CASE InitIntr
  BY <1>0, <1>1 DEF InitIntr, Regs
<1>2. CASE InitAcpi \/ InitVirtio
  BY <1>0, <1>2 DEF InitAcpi, InitVirtio, InitDevice, Goto, Regs
<1>3. CASE Measure \/ InitTasks
  BY <1>0, <1>3 DEF Measure, InitTasks, Goto, Regs
<1>4. CASE SetCallback \/ ArmTimer
  BY <1>0, <1>4 DEF SetCallback, ArmTimer, Goto, Regs
<1>5. CASE StartTask0 /\ cpu.pc # "jmp"
  BY <1>0, <1>5 DEF StartTask0, Goto, Regs
<1>6. CASE TestSyscall
  BY <1>0, <1>6 DEF TestSyscall, Interrupt, Regs
<1>7. CASE cpu.pc = "boot_sys" /\ Putc
  BY <1>0, <1>7 DEF Putc, Regs
<1>8. CASE cpu.pc = "boot_sys" /\ SyscallReturn
  BY <1>8, BootReturn
<1>9. CASE cpu.pc = "stopped" /\ Halt
  BY <1>9 DEF Halt, vars
<1>10. cpu.pc = "stopped" => ~Panic
  BY DEF Panic
<1>11. cpu.pc = "boot_sys" => ~MapPage
  BY DEF MapPage
<1> QED
  BY <1>1, <1>2, <1>3, <1>4, <1>5, <1>6, <1>7, <1>8, <1>9, <1>10, <1>11 DEF Boot

LEMMA RefinesStep ==
  ASSUME ~EarlyTick, ~RedZone, IInv, IInv', LineInv, CpuStep \/ Tick
  PROVE  [Abs!Next]_(Abs!avars)
<1>1. CASE Booting /\ Booting'
  <2>1. cpu.pc \notin KernelPCs /\ cpu'.pc \notin KernelPCs
    BY <1>1, BootIsOver, BootIsOverNext
  <2> QED
    BY <1>1, <2>1 DEF Abs!avars
<1>2. CASE StartTask0 /\ cpu.pc = "jmp"
  <2> USE <1>2 DEF StartTask0
  <2>1. /\ Booting /\ TasksReady /\ cpu.pc \notin KernelPCs /\ cpu.pc \notin Speaking
        /\ cpu \in Regs /\ cur_task' = 0 /\ UNCHANGED <<mem, tasks, line>>
    BY DEF IInv, TypeOK, BootInv, Booting, TasksReady, BootPCs, EarlyPCs, LatePCs, KernelPCs, Speaking
  <2>2. cpu'.pc = "call" /\ ~Booting' /\ cpu'.pc \notin KernelPCs
    <3>1. cpu'.pc = "call"
      BY <2>1 DEF Goto, Regs
    <3> QED
      BY <3>1, BootIsOverNext DEF UserPCs, KernelPCs
  <2>3. \A t \in Tasks \ {0} : mem[<<t, tasks[t].sp.depth>>].reg.pc = "call"
    BY <2>1 DEF IInv, BootInv, FramesPrepared
  <2>4. AbsAt' = [t \in Tasks |-> "call"]
    BY UserPCNext, <2>1, <2>2, <2>3 DEF PCs, UserPCs
  <2>5. line = << >>
    BY <2>1 DEF LineInv
  <2> QED
    BY <2>1, <2>2, <2>4, <2>5 DEF Abs!avars, AbsAt
<1>3. CASE Call \/ Load \/ Ret \/ Touch
  <2>0. cpu.pc \in UserPCs /\ cpu \in Regs /\ cur_task \in Tasks
    BY <1>3, AppFacts DEF Call, Load, Ret, Touch, UserPCs
  <2>1. cpu.pc # "int" /\ cpu'.pc = Abs!Successor[cpu.pc] /\ cpu'.pc \in UserPCs
    <3>1. CASE Call
      BY <2>0, <3>1 DEF Call, Abs!Successor, Regs, UserPCs
    <3>2. CASE Load
      BY <2>0, <3>2 DEF Load, Abs!Successor, Regs, UserPCs
    <3>3. CASE Ret
      BY <2>0, <3>3 DEF Ret, Abs!Successor, Regs, UserPCs
    <3>4. CASE Touch
      BY <2>0, <3>4 DEF Touch, Goto, Abs!Successor, Regs, UserPCs
    <3> QED
      BY <1>3, <3>1, <3>2, <3>3, <3>4
  <2>2. /\ cpu.pc \notin KernelPCs /\ cpu'.pc \notin KernelPCs /\ ~Booting /\ ~Booting'
        /\ cur_task' = cur_task /\ line' = line
    BY <1>3, <2>0, <2>1, BootIsOver, BootIsOverNext DEF Call, Load, Ret, Touch, UserPCs, KernelPCs
  <2>3. \A t \in Tasks \ {cur_task} :
          mem'[<<t, tasks'[t].sp.depth>>].reg.pc = mem[<<t, tasks[t].sp.depth>>].reg.pc
    BY <1>3, RunningTaskWrites
  <2>4. PCs' = [PCs EXCEPT ![cur_task] = cpu'.pc] /\ PCs[cur_task] = cpu.pc
    BY <2>0, <2>1, <2>2, <2>3 DEF PCs
  <2>5. AbsAt = PCs /\ AbsAt' = PCs'
    BY <2>2, UserPC, UserPCNext
  <2>6. Abs!Advance(cur_task)
    BY SharedOperators, <2>1, <2>2, <2>4, <2>5 DEF Abs!Advance, AbsAt
  <2> QED
    BY <2>2, <2>6 DEF Abs!Next
<1>4. CASE Syscall \/ PageFault
  <2>0. cpu.pc \in UserPCs /\ cpu \in Regs /\ cur_task \in Tasks /\ cr3 = cur_task
    BY <1>4, AppFacts DEF Syscall, PageFault, UserPCs
  <2> DEFINE saved == IF cpu.pc = "int" THEN [cpu EXCEPT !.pc = "ret"] ELSE cpu
             d     == UserDepth(cpu.pc) + 1
  <2>1. /\ cpu.pc \in {"int", "touch"}
        /\ Interrupt(saved, cpu'.pc)
        /\ cpu'.pc \in IF cpu.pc = "int" THEN {"sys"} ELSE {"pf_map", "pf_panic"}
        /\ cpu'.i = 1 /\ cpu'.rsi = cpu.rsi
        /\ UNCHANGED <<cr3, tasks, cur_task, line>>
    <3>1. CASE Syscall
      BY <2>0, <3>1 DEF Syscall, Interrupt, Regs
    <3>2. CASE PageFault
      BY <2>0, <3>2 DEF PageFault, Interrupt, Regs
    <3> QED
      BY <1>4, <3>1, <3>2
  <2>2. /\ cpu.pc \notin KernelPCs /\ cpu'.pc \in KernelPCs /\ cpu'.pc \notin UserPCs
        /\ cpu'.pc # "halt" /\ ~Booting /\ ~Booting'
    BY <2>0, <2>1, BootIsOver, BootIsOverNext DEF UserPCs, KernelPCs
  <2>3. mem'[<<cr3, cpu'.sp.depth>>].reg.pc = IF cpu.pc = "int" THEN "ret" ELSE "touch"
    BY <2>1, <2>2 DEF IInv, RunInv
  <2>4. \A t \in Tasks \ {cur_task} :
          mem'[<<t, tasks'[t].sp.depth>>].reg.pc = mem[<<t, tasks[t].sp.depth>>].reg.pc
    BY <1>4, RunningTaskWrites
  <2>5. /\ PCs' = [PCs EXCEPT ![cur_task] = IF cpu.pc = "int" THEN "ret" ELSE "touch"]
        /\ PCs[cur_task] = cpu.pc
    BY <2>0, <2>1, <2>2, <2>3, <2>4 DEF PCs
  <2>6. AbsAt = PCs /\ AbsAt' = PCs'
    BY <2>2, UserPC, UserPCNext
  <2>7. CASE cpu.pc = "int"
    <3>1. cpu'.pc = "sys" /\ Message' = AppMessage(cur_task)
      BY <2>0, <2>1, <2>7, AppFacts DEF Message, AppRegs
    <3>2. AbsOut' = <<AppMessage(cur_task), 1>> /\ AbsOut = << >>
      BY <2>1, <2>2, <3>1 DEF AbsOut
    <3>3. /\ AbsAt' = [AbsAt EXCEPT ![cur_task] = Abs!Successor[AbsAt[cur_task]]]
          /\ AbsAt[cur_task] = "int"
      <4>1. Abs!Successor["int"] = "ret"
        BY DEF Abs!Successor
      <4> QED
        BY <2>5, <2>6, <2>7, <4>1
    <3>4. Abs!Say(cur_task)
      BY SharedOperators, <2>1, <2>2, <3>2, <3>3 DEF Abs!Say, AbsAt, AbsOut
    <3> QED
      BY <2>1, <2>2, <3>4 DEF Abs!Next
  <2>8. CASE cpu.pc = "touch"
    <3>1. Message' \in {MapNotice, Diagnosis}
      BY <2>1, <2>8 DEF Message
    <3>2. PCs' = PCs
      BY <2>0, <2>5, <2>8 DEF PCs
    <3>3. AbsOut' \in {<<MapNotice, 1>>, <<Diagnosis, 1>>} /\ AbsOut = << >>
      BY <2>1, <2>2, <3>1 DEF AbsOut
    <3>4. AbsAt' = AbsAt /\ AbsAt[cur_task] = "touch"
      BY <2>5, <2>6, <2>8, <3>2
    <3>5. Abs!Complain(cur_task)
      BY SharedOperators, <2>1, <2>2, <3>3, <3>4 DEF Abs!Complain, AbsAt, AbsOut
    <3> QED
      BY <2>1, <2>2, <3>5 DEF Abs!Next
  <2> QED
    BY <2>1, <2>7, <2>8
<1>5. CASE Putc /\ cpu.pc # "boot_sys"
  <2>1. /\ cpu.pc \in {"sys", "pf_map", "pf_panic"} /\ cpu.i <= MsgLen /\ cpu'.i = cpu.i + 1
        /\ cpu'.pc = cpu.pc /\ cpu'.rsi = cpu.rsi /\ cpu'.sp = cpu.sp
        /\ line' = Printed(line, Message, cpu.i)
        /\ UNCHANGED <<cr3, mem, tasks, cur_task>>
    BY <1>5 DEF Putc, Printing, Handlers, IInv, TypeOK, Regs
  <2>2. cpu.pc \in KernelPCs /\ ~Booting /\ ~Booting' /\ Message' = Message
    BY <2>1, BootIsOver, BootIsOverNext DEF KernelPCs, Message
  <2>3. AbsAt' = AbsAt
    BY UserPC, UserPCNext, <2>1, <2>2 DEF PCs
  <2>4. AbsOut = <<Message, cpu.i>> /\ AbsOut' = <<Message, cpu.i + 1>>
    BY <2>1, <2>2 DEF AbsOut
  <2>5. /\ AbsOut # << >> /\ AbsOut[1] = Message /\ AbsOut[2] = cpu.i
        /\ AbsOut' = [AbsOut EXCEPT ![2] = @ + 1]
    BY <2>4
  <2>6. Abs!Emit
    BY SharedOperators, <2>1, <2>2, <2>3, <2>5 DEF Abs!Emit, AbsAt, AbsOut
  <2> QED
    BY <2>6 DEF Abs!Next
<1>6. CASE (SyscallReturn \/ MapPage) /\ cpu.pc # "boot_sys"
  <2>1. /\ cpu.pc \in {"sys", "pf_map"} /\ cpu.pc \in KernelPCs /\ ~(cpu.i <= MsgLen)
        /\ UNCHANGED <<cr3, mem, tasks, cur_task, line>> /\ Iretq
    BY <1>6 DEF SyscallReturn, MapPage, Printing, Handlers, KernelPCs
  <2>2. cpu' = mem[<<cr3, cpu.sp.depth>>].reg /\ cpu'.pc \in UserPCs
    BY <2>1, KernelFacts DEF Iretq, Popped, HoldsFrame, AppRegs
  <2>3. /\ ~Booting /\ ~Booting' /\ cpu.pc \notin UserPCs /\ cpu'.pc \notin KernelPCs
        /\ cpu.i > MsgLen /\ cpu.pc # "halt"
    BY <2>1, <2>2, OutputAssumption, KernelFacts, BootIsOver, BootIsOverNext
    DEF UserPCs, KernelPCs, Regs
  <2>4. AbsAt' = AbsAt
    BY UserPC, UserPCNext, <2>1, <2>2, <2>3 DEF PCs
  <2>5. Message # Diagnosis
    BY <2>1, Messages DEF LineInv, Message
  <2>6. /\ AbsOut # << >> /\ AbsOut[1] = Message /\ AbsOut[2] = cpu.i
        /\ AbsOut' = << >>
    BY <2>1, <2>3 DEF AbsOut
  <2>7. Abs!Leave
    BY SharedOperators, <2>1, <2>3, <2>4, <2>5, <2>6 DEF Abs!Leave, AbsAt, AbsOut
  <2> QED
    BY <2>7 DEF Abs!Next
<1>7. CASE (Panic \/ Halt) /\ cpu.pc # "stopped"
  <2>1. /\ cpu.pc \in {"pf_panic", "halt"} /\ cpu'.pc = "halt" /\ cpu'.sp = cpu.sp
        /\ cpu.pc = "pf_panic" => cpu.i = MsgLen + 1
        /\ UNCHANGED <<cr3, mem, tasks, cur_task, line>>
    BY <1>7, OutputAssumption
    DEF Panic, Halt, vars, Goto, Printing, Handlers, IInv, TypeOK, Regs
  <2>2. /\ ~Booting /\ ~Booting' /\ cpu.pc \in KernelPCs /\ cpu'.pc \in KernelPCs
        /\ cpu.pc \notin UserPCs /\ cpu'.pc \notin UserPCs
    BY <2>1, BootIsOver, BootIsOverNext DEF KernelPCs, UserPCs
  <2>3. AbsAt' = AbsAt
    BY UserPC, UserPCNext, <2>1, <2>2 DEF PCs
  <2>4. AbsOut' = AbsOut
    BY <2>1, <2>2 DEF AbsOut, Message
  <2> QED
    BY <2>1, <2>2, <2>3, <2>4 DEF Abs!avars, AbsAt, AbsOut
<1>8. CASE Tick
  <2>1. cpu.pc \in UserPCs /\ cpu'.pc \in UserPCs /\ line' = line
    BY <1>8, TickFacts DEF Tick, AppRegs
  <2>2. /\ ~Booting /\ ~Booting' /\ cpu.pc \notin KernelPCs /\ cpu'.pc \notin KernelPCs
        /\ cur_task' = (cur_task + 1) % N
    BY <1>8, <2>1, TickFacts, BootIsOver, BootIsOverNext DEF UserPCs, KernelPCs, NextTask
  <2>3. PCs' = PCs
    BY <1>8, <2>1, TickFacts DEF PCs
  <2>4. AbsAt' = AbsAt
    BY UserPC, UserPCNext, <2>2, <2>3
  <2> QED
    BY <2>1, <2>2, <2>4 DEF Abs!Next, Abs!Switch, AbsAt
<1> QED
  BY <1>1, <1>2, <1>3, <1>4, <1>5, <1>6, <1>7, <1>8, BootPhase DEF CpuStep, App, Kernel

\* To the applications and on the terminal, the machine of stacks, frames and
\* address spaces behaves like Multitasking.
THEOREM Refinement ==
  ASSUME ~EarlyTick, ~RedZone, MsgLen - 1 <= Columns
  PROVE  Spec => Refines
<1>1. IInv /\ IInv' /\ LineInv /\ [Next]_vars => [Abs!Next]_(Abs!avars)
  <2>1. CASE UNCHANGED vars
    BY <2>1 DEF vars, Abs!avars, Booting, UserRegs, SavedCell, Phys, Message
  <2> QED
    BY <2>1, RefinesStep DEF Next
<1> QED
  BY <1>1, RefinesInit, Invariance, LineInvariance, PTL DEF Spec, Refines, Abs!Spec
=============================================================================
