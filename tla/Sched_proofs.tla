---------------------------- MODULE Sched_proofs ----------------------------
(***************************************************************************)
(* Proofs about Sched, for any number of tasks, any applications and both  *)
(* kinds of build.  They assume that the first tick does not come before   *)
(* start_task0 has finished (EarlyTick = FALSE): with it the properties    *)
(* are false.                                                              *)
(*                                                                         *)
(* None of the properties is inductive.  What the next interrupt pops was  *)
(* pushed by an earlier one, so the invariant says of every saved frame,   *)
(* of a suspended task and below the kernel's own work alike, that it is   *)
(* the frame of an application at a known program counter and depth.       *)
(***************************************************************************)
EXTENDS Sched, TLAPS

\* Cells of a task's stack in use when its application is about to execute pc.
UserDepth(pc) == IF ~RedZone /\ pc \in {"load", "int", "ret"} THEN 1 ELSE 0

\* Registers with which an application of task t executes.  Without a red zone
\* the string it is about to print is its own.
AppRegs(t, m, r) ==
  /\ r.pc \in UserPCs
  /\ r.intr
  /\ r.sp = [area |-> "app", depth |-> UserDepth(r.pc)]
  /\ ~RedZone /\ r.pc = "load" => m[<<t, 1>>] = Str(AppMessage(t))
  /\ ~RedZone /\ r.pc = "int" => r.rsi = AppMessage(t)

\* The cell sp of task t holds the frame of its application.
HoldsFrame(t, m, sp) ==
  /\ sp.area = "app"
  /\ sp.depth \in 1 .. 2
  /\ m[<<t, sp.depth>>].kind = "frame"
  /\ m[<<t, sp.depth>>].reg.sp = Above(sp)
  /\ AppRegs(t, m, m[<<t, sp.depth>>].reg)

\* What test_syscall_puts() has left on the kernel's stack.
BootFrame ==
  /\ mem[<<KernelStack, 1>>].kind = "frame"
  /\ mem[<<KernelStack, 1>>].reg.pc = "virtio"
  /\ mem[<<KernelStack, 1>>].reg.sp = KernelTop
  /\ mem[<<KernelStack, 1>>].reg.intr

FramesPrepared ==
  /\ tasks[0].sp = AppTop
  /\ \A t \in Tasks \ {0} : mem[<<t, tasks[t].sp.depth>>].reg.pc = "call"

BootInv ==
  Booting =>
    /\ cur_task = 0
    /\ cpu.pc \notin {"init_intr", "boot_sys"} => cpu.intr
    /\ cpu.sp = CASE cpu.pc \in {"set_cr3", "jmp"} -> AppTop
                  [] cpu.pc = "boot_sys"          -> Below(KernelTop)
                  [] OTHER                        -> KernelTop
    /\ cpu.pc = "boot_sys" => ~cpu.intr /\ BootFrame
    /\ cpu.pc = "jmp" => cr3 = 0
    /\ TasksReady => FramesPrepared
    /\ cpu.pc \notin {"cur0", "set_sp", "set_cr3", "jmp"} => ~lapic.armed
    /\ cpu.pc = "arm" => lapic.callback

TasksInv ==
  TasksReady => /\ \A t \in Tasks : tasks[t].cr3 = t
                /\ \A t \in Tasks \ {cur_task} : HoldsFrame(t, mem, tasks[t].sp)

RunInv ==
  ~Booting =>
    /\ cpu.pc # "wild"
    /\ cr3 = cur_task
    /\ cpu.sp.area = "app"
    /\ cpu.pc \in UserPCs => AppRegs(cr3, mem, cpu)
    /\ cpu.pc \in KernelPCs =>
         /\ ~cpu.intr
         /\ HoldsFrame(cr3, mem, cpu.sp)
         /\ mem[<<cr3, cpu.sp.depth>>].reg.pc = IF cpu.pc = "sys" THEN "ret" ELSE "touch"

TimerInv == ~lapic.inService /\ (lapic.armed => lapic.callback)

IInv == TypeOK /\ BootInv /\ TasksInv /\ RunInv /\ TimerInv

-----------------------------------------------------------------------------
LEMMA NextTaskType ==
  ASSUME cur_task \in Tasks
  PROVE  NextTask \in Tasks
BY NAssumption DEF NextTask, Tasks

LEMMA FrameContent ==
  ASSUME NEW r \in Regs
  PROVE  /\ Frame(r) \in Content
         /\ Frame(r).kind = "frame"
         /\ Frame(r).reg = r
BY DEF Content, Frame

LEMMA StrContent ==
  ASSUME NEW p \in Pointers
  PROVE  /\ Str(p) \in Content
         /\ Str(p).kind = "str"
         /\ Str(p).ptr = p
BY DEF Content, Str

LEMMA ContentFrame ==
  ASSUME NEW c \in Content, c.kind = "frame"
  PROVE  c.reg \in Regs
BY DEF Content, Frame, Str, Junk

LEMMA ContentStr ==
  ASSUME NEW c \in Content, c.kind = "str"
  PROVE  c.ptr \in Pointers
BY DEF Content, Frame, Str, Junk

LEMMA Kinds == Tasks \subseteq Spaces /\ KernelSpace \notin Tasks /\ KernelStack \notin Tasks
BY NAssumption DEF Tasks, Spaces, KernelSpace, KernelStack

LEMMA InitIInv == Init => IInv
<1> SUFFICES ASSUME Init PROVE IInv
  OBVIOUS
<1> USE DEF Init
<1>1. TypeOK
  <2>1. AppTop \in Addrs /\ KernelTop \in Addrs
    BY DepthAssumption DEF AppTop, KernelTop, Addrs, Depths
  <2>2. cpu \in Regs
    BY <2>1, OutputAssumption DEF Regs, BootPCs, EarlyPCs, Pointers
  <2>3. KernelSpace \in Spaces /\ 0 \in Tasks /\ Junk \in Content
    BY NAssumption DEF Spaces, Tasks, Content
  <2> QED
    BY <2>1, <2>2, <2>3 DEF TypeOK
<1>2. BootInv /\ TasksInv /\ RunInv /\ TimerInv
  BY DEF BootInv, TasksInv, RunInv, TimerInv, Booting, TasksReady, BootPCs, EarlyPCs
<1> QED
  BY <1>1, <1>2 DEF IInv

\* A step of the boot that leaves the tasks alone.
LEMMA BootKeeps ==
  ASSUME IInv, Booting', TasksReady' => TasksReady, UNCHANGED <<mem, tasks, cur_task>>
  PROVE  TasksInv' /\ RunInv'
<1>1. RunInv'
  BY DEF RunInv
<1>2. TasksInv'
  BY DEF IInv, TasksInv
<1> QED
  BY <1>1, <1>2

LEMMA GotoFacts ==
  ASSUME cpu \in Regs, NEW next \in BootPCs \union UserPCs \union KernelPCs, Goto(next)
  PROVE  /\ cpu' \in Regs
         /\ cpu'.pc = next
         /\ cpu'.sp = cpu.sp /\ cpu'.intr = cpu.intr /\ cpu'.rsi = cpu.rsi /\ cpu'.i = cpu.i
BY DEF Goto, Regs

\* Steps that change the pc and at most freq or lapic.
LEMMA BootGoto ==
  ASSUME IInv, NEW next \in BootPCs, Booting, Goto(next),
         UNCHANGED <<cr3, mem, tasks, cur_task, mapped, line>>,
         freq' \in {0, 1},
         lapic' \in [callback : BOOLEAN, armed : BOOLEAN, inService : BOOLEAN],
         cpu.pc \notin {"init_intr", "set_cr3", "jmp", "boot_sys"},
         next \notin {"set_cr3", "jmp", "boot_sys"},
         next \in EarlyPCs \/ TasksReady,
         next \in {"cur0", "set_sp"} \/ ~lapic'.armed,
         next = "arm" => lapic'.callback,
         lapic'.armed => lapic'.callback, ~lapic'.inService
  PROVE  IInv'
<1>1. cpu' \in Regs /\ cpu'.pc = next /\ cpu'.sp = cpu.sp /\ cpu'.intr = cpu.intr
  BY GotoFacts DEF IInv, TypeOK
<1>2. Booting' /\ (TasksReady' => TasksReady)
  BY <1>1 DEF Booting, TasksReady
<1>3. TypeOK'
  BY <1>1 DEF IInv, TypeOK
<1>4. cur_task = 0 /\ cpu.intr /\ cpu.sp = KernelTop /\ (TasksReady => FramesPrepared)
  BY DEF IInv, BootInv
<1>5. FramesPrepared => FramesPrepared'
  BY DEF FramesPrepared
<1>6. BootInv'
  <2>1. cpu'.intr /\ cpu'.sp = KernelTop /\ cur_task' = 0
    BY <1>1, <1>4
  <2>2. cpu'.pc \notin {"set_cr3", "jmp", "boot_sys"}
    BY <1>1
  <2>3. TasksReady' => FramesPrepared'
    BY <1>2, <1>4, <1>5
  <2>4. cpu'.pc \notin {"cur0", "set_sp", "set_cr3", "jmp"} => ~lapic'.armed
    BY <1>1
  <2>5. cpu'.pc = "arm" => lapic'.callback
    BY <1>1
  <2> QED
    BY <2>1, <2>2, <2>3, <2>4, <2>5 DEF BootInv
<1>7. TimerInv'
  BY DEF TimerInv
<1> QED
  BY <1>2, <1>3, <1>6, <1>7, BootKeeps DEF IInv

LEMMA InitTasksStep ==
  ASSUME IInv, InitTasks
  PROVE  IInv'
<1> DEFINE r == [cpu EXCEPT !.pc = "call", !.sp = AppTop]
<1> USE NAssumption, DepthAssumption
<1>0. /\ Booting /\ cpu \in Regs /\ mem \in [Cells -> Content] /\ cpu.pc = "init_tasks"
      /\ cpu.intr = TRUE /\ cpu.sp = KernelTop /\ ~lapic.armed
  BY DEF InitTasks, Booting, BootPCs, EarlyPCs, IInv, TypeOK, BootInv, Regs
<1>1. r \in Regs /\ r.pc = "call" /\ r.intr /\ r.sp = AppTop
  <2>1. AppTop \in Addrs
    BY DEF AppTop, Addrs, Depths
  <2> QED
    BY <1>0, <2>1 DEF Regs, UserPCs
<1>2. InitialFrame = Frame(r)
  BY DEF InitialFrame
<1> HIDE DEF r
<1>3. InitialFrame \in Content /\ InitialFrame.kind = "frame" /\ InitialFrame.reg = r
  BY <1>1, <1>2, FrameContent
<1>4. cpu' \in Regs /\ cpu'.pc = "periodic" /\ cpu'.intr /\ cpu'.sp = KernelTop
  <2>1. Goto("periodic") /\ "periodic" \in BootPCs
    BY DEF InitTasks, BootPCs, LatePCs
  <2> QED
    BY <1>0, <2>1, GotoFacts
<1>5. TypeOK'
  <2>1. cur_task' \in Tasks
    BY DEF InitTasks, Tasks
  <2>2. mem' \in [Cells -> Content]
    BY <1>0, <1>3 DEF InitTasks
  <2>3. tasks' \in [Tasks -> [sp : Addrs, cr3 : Spaces]]
    BY Kinds DEF InitTasks, InitialTask, AppTop, Below, Addrs, Depths
  <2> QED
    BY <1>4, <2>1, <2>2, <2>3 DEF InitTasks, IInv, TypeOK
<1>6. ASSUME NEW t \in Tasks \ {0}
      PROVE  /\ tasks'[t].sp = [area |-> "app", depth |-> 1] /\ tasks'[t].sp.depth = 1
             /\ mem'[<<t, 1>>].kind = "frame" /\ mem'[<<t, 1>>].reg = r
  <2>1. tasks'[t].sp = [area |-> "app", depth |-> 1]
    BY <1>6 DEF InitTasks, InitialTask, AppTop, Below
  <2>2. <<t, 1>> \in Cells /\ Phys(t, Below(AppTop)) = <<t, 1>>
    BY <1>6, Kinds DEF Cells, Depths, Phys, Below, AppTop
  <2> QED
    BY <1>3, <1>6, <2>1, <2>2 DEF InitTasks
<1>7. TasksInv'
  <2>1. \A t \in Tasks : tasks'[t].cr3 = t
    BY DEF InitTasks, InitialTask
  <2>2. ASSUME NEW t \in Tasks \ {cur_task'}
        PROVE  HoldsFrame(t, mem, tasks[t].sp)'
    <3>1. t # 0
      BY <2>2 DEF InitTasks
    <3> QED
      BY <1>1, <1>6, <3>1 DEF HoldsFrame, AppRegs, Above, AppTop, UserDepth, UserPCs
  <2> QED
    BY <2>1, <2>2 DEF TasksInv
<1>8. FramesPrepared'
  <2>1. tasks'[0].sp = AppTop
    BY DEF InitTasks, InitialTask, Tasks
  <2>2. \A t \in Tasks \ {0} : mem'[<<t, tasks'[t].sp.depth>>].reg.pc = "call"
    BY <1>1, <1>6
  <2> QED
    BY <2>1, <2>2 DEF FramesPrepared
<1>9. cur_task' = 0 /\ lapic' = lapic
  BY DEF InitTasks
<1>10. BootInv'
  BY <1>0, <1>4, <1>8, <1>9 DEF BootInv
<1>11. RunInv' /\ TimerInv'
  <2>1. Booting'
    BY <1>4 DEF Booting, BootPCs, LatePCs
  <2> QED
    BY <1>9, <2>1 DEF RunInv, TimerInv, IInv
<1> QED
  BY <1>5, <1>7, <1>10, <1>11 DEF IInv

\* int $0x80 in test_syscall_puts() pushes the frame that the handler will pop.
LEMMA TestSyscallStep ==
  ASSUME IInv, TestSyscall
  PROVE  IInv'
<1> DEFINE r == [cpu EXCEPT !.pc = "virtio", !.rsi = TestMessage]
<1> USE DEF TestSyscall
<1>0. /\ Booting /\ ~TasksReady /\ cpu \in Regs /\ mem \in [Cells -> Content]
      /\ cpu.intr /\ cpu.sp = KernelTop /\ cur_task = 0 /\ ~lapic.armed
  BY DEF Booting, BootPCs, EarlyPCs, TasksReady, IInv, TypeOK, BootInv
<1>1. r \in Regs /\ r.pc = "virtio" /\ r.sp = KernelTop /\ r.intr /\ r.rsi = TestMessage
  BY <1>0 DEF Regs, BootPCs, EarlyPCs, Pointers
<1>2. Interrupt(r, "boot_sys")
  OBVIOUS
<1> HIDE DEF r
<1>3. Below(KernelTop) \in Addrs /\ Phys(cr3, Below(KernelTop)) = <<KernelStack, 1>>
      /\ <<KernelStack, 1>> \in Cells
  BY DepthAssumption DEF Below, KernelTop, Addrs, Depths, Phys, Cells
<1>4. /\ cpu' \in Regs /\ cpu'.pc = "boot_sys" /\ cpu'.sp = Below(KernelTop) /\ ~cpu'.intr
  <2>1. cpu' = [r EXCEPT !.pc = "boot_sys", !.sp = Below(KernelTop), !.i = 1, !.intr = FALSE]
    BY <1>1, <1>2 DEF Interrupt, IntrAfterEntry, GateType, InterruptGate, Regs
  <2>2. "boot_sys" \in BootPCs /\ 1 \in 1 .. MsgLen+1
    BY OutputAssumption DEF BootPCs, EarlyPCs
  <2> QED
    BY <1>1, <1>3, <2>1, <2>2 DEF Regs
<1>5. mem' = [mem EXCEPT ![<<KernelStack, 1>>] = Frame(r)]
  BY <1>1, <1>2, <1>3 DEF Interrupt, Store
<1>6. mem' \in [Cells -> Content] /\ mem'[<<KernelStack, 1>>] = Frame(r)
  BY <1>0, <1>1, <1>3, <1>5, FrameContent
<1>7. BootFrame'
  BY <1>1, <1>6, FrameContent DEF BootFrame
<1>8. TypeOK'
  BY <1>4, <1>6 DEF IInv, TypeOK
<1>9. Booting' /\ ~TasksReady'
  BY <1>4 DEF Booting, BootPCs, EarlyPCs, TasksReady
<1>10. BootInv'
  BY <1>0, <1>4, <1>7, <1>9 DEF BootInv
<1>11. TasksInv' /\ RunInv' /\ TimerInv'
  BY <1>9 DEF TasksInv, RunInv, TimerInv, IInv
<1> QED
  BY <1>8, <1>10, <1>11 DEF IInv

\* start_task0(), ending in the application with task 0's stack and space.
LEMMA StartTask0Step ==
  ASSUME IInv, StartTask0
  PROVE  IInv'
<1> USE DEF StartTask0
<1>0. /\ Booting /\ TasksReady /\ cpu \in Regs /\ 0 \in Tasks /\ cur_task = 0
      /\ cpu.intr /\ FramesPrepared /\ tasks[0].cr3 = 0 /\ tasks[0].sp = AppTop
      /\ cpu.sp = IF cpu.pc \in {"set_cr3", "jmp"} THEN AppTop ELSE KernelTop
  <2>1. cpu.pc \in {"cur0", "set_sp", "set_cr3", "jmp"} /\ 0 \in Tasks
    BY NAssumption DEF Tasks
  <2>2. Booting /\ TasksReady
    BY <2>1 DEF Booting, TasksReady, BootPCs, EarlyPCs, LatePCs
  <2> QED
    BY <2>1, <2>2 DEF IInv, TypeOK, BootInv, FramesPrepared, TasksInv
<1>1. AppTop \in Addrs
  BY DepthAssumption DEF AppTop, Addrs, Depths
<1>2. /\ cpu' \in Regs /\ cpu'.intr /\ cur_task' = 0
      /\ \/ cpu'.pc = "set_sp" /\ cpu'.sp = KernelTop
         \/ cpu'.pc = "set_cr3" /\ cpu'.sp = AppTop
         \/ cpu'.pc = "jmp" /\ cpu'.sp = AppTop /\ cr3' = 0
         \/ cpu'.pc = "call" /\ cpu'.sp = AppTop /\ cr3' = 0
  <2>1. CASE cpu.pc = "cur0"
    <3>1. Goto("set_sp") /\ "set_sp" \in BootPCs /\ cur_task' = 0
      BY <2>1 DEF BootPCs, LatePCs
    <3> QED
      BY <1>0, <2>1, <3>1, GotoFacts
  <2>2. CASE cpu.pc = "set_sp"
    <3>1. cpu' = [cpu EXCEPT !.pc = "set_cr3", !.sp = AppTop] /\ cur_task' = 0
      BY <1>0, <2>2
    <3> QED
      BY <1>0, <1>1, <3>1 DEF Regs, BootPCs, LatePCs
  <2>3. CASE cpu.pc = "set_cr3"
    <3>1. Goto("jmp") /\ "jmp" \in BootPCs /\ cur_task' = 0 /\ cr3' = 0
      BY <1>0, <2>3 DEF BootPCs, LatePCs
    <3>2. cpu.sp = AppTop
      BY <1>0, <2>3
    <3> QED
      BY <1>0, <3>1, <3>2, GotoFacts
  <2>4. CASE cpu.pc = "jmp"
    <3>1. Goto("call") /\ "call" \in UserPCs /\ cur_task' = 0 /\ cr3' = cr3
      BY <1>0, <2>4 DEF UserPCs
    <3>2. cr3 = 0
      BY <1>0, <2>4 DEF IInv, BootInv
    <3> QED
      BY <1>0, <2>4, <3>1, <3>2, GotoFacts
  <2> QED
    BY <2>1, <2>2, <2>3, <2>4
<1>3. UNCHANGED <<mem, tasks, cur_task, mapped, line, freq, lapic>>
  BY <1>0, <1>2
<1>4. cr3' \in Spaces
  BY <1>0, Kinds DEF IInv, TypeOK
<1>5. TypeOK'
  BY <1>2, <1>3, <1>4 DEF IInv, TypeOK
<1>6. TasksReady' /\ FramesPrepared'
  BY <1>0, <1>2, <1>3 DEF TasksReady, EarlyPCs, FramesPrepared
<1>7. BootInv'
  <2>1. /\ cpu'.pc \notin {"init_intr", "boot_sys", "arm"}
        /\ Booting' => cpu'.pc \in {"set_sp", "set_cr3", "jmp"}
        /\ cpu'.pc = "jmp" => cr3' = 0
    BY <1>2 DEF Booting, BootPCs, EarlyPCs, LatePCs
  <2>2. Booting' => cpu'.sp = IF cpu'.pc \in {"set_cr3", "jmp"} THEN AppTop ELSE KernelTop
    BY <1>2, <2>1
  <2> QED
    BY <1>2, <1>6, <2>1, <2>2 DEF BootInv
<1>8. TasksInv'
  BY <1>0, <1>2, <1>3 DEF IInv, TasksInv
<1>9. TimerInv'
  BY <1>3 DEF IInv, TimerInv
<1>10. CASE Booting'
  BY <1>5, <1>7, <1>8, <1>9, <1>10 DEF IInv, RunInv
<1>11. CASE ~Booting'
  <2>1. /\ cpu'.pc = "call" /\ cpu'.sp = [area |-> "app", depth |-> 0] /\ cr3' = 0
        /\ cpu'.pc \in UserPCs /\ cpu'.pc \notin KernelPCs
    BY <1>2, <1>11 DEF Booting, BootPCs, LatePCs, AppTop, UserPCs, KernelPCs
  <2>2. AppRegs(cr3', mem', cpu')
    BY <1>2, <2>1 DEF AppRegs, UserDepth
  <2>3. RunInv'
    BY <1>2, <2>1, <2>2 DEF RunInv
  <2> QED
    BY <1>5, <1>7, <1>8, <1>9, <2>3 DEF IInv
<1> QED
  BY <1>10, <1>11

LEMMA BootPC == Boot => Booting
BY DEF Boot, InitIntr, InitAcpi, InitVirtio, InitDevice, TestSyscall, Measure, InitTasks,
       SetCallback, ArmTimer, StartTask0, Booting, BootPCs, EarlyPCs, LatePCs

LEMMA BootStep ==
  ASSUME IInv, Boot
  PROVE  IInv'
<1>0. /\ cpu \in Regs /\ freq \in {0, 1}
      /\ lapic.armed => lapic.callback
      /\ ~lapic.inService /\ lapic \in [callback : BOOLEAN, armed : BOOLEAN, inService : BOOLEAN]
  BY DEF IInv, TypeOK, TimerInv
<1>1. CASE InitIntr
  <2> USE <1>1 DEF InitIntr
  <2>0. Booting /\ cur_task = 0 /\ cpu.sp = KernelTop /\ ~lapic.armed
    BY DEF Booting, BootPCs, EarlyPCs, IInv, BootInv
  <2>1. cpu' \in Regs /\ cpu'.pc = "acpi" /\ cpu'.sp = KernelTop /\ cpu'.intr
    <3>1. "acpi" \in BootPCs
      BY DEF BootPCs, EarlyPCs
    <3> QED
      BY <1>0, <2>0, <3>1 DEF Regs
  <2>2. Booting' /\ ~TasksReady'
    BY <2>1 DEF Booting, TasksReady, BootPCs, EarlyPCs
  <2>3. TypeOK'
    BY <2>1 DEF IInv, TypeOK
  <2>4. BootInv'
    BY <2>0, <2>1, <2>2 DEF BootInv
  <2>5. TasksInv' /\ RunInv' /\ TimerInv'
    BY <2>2 DEF TasksInv, RunInv, TimerInv, IInv
  <2> QED
    BY <2>3, <2>4, <2>5 DEF IInv
<1>2. CASE InitAcpi \/ InitVirtio
  <2>1. PICK next \in {"test", "measure", "stopped"} : Goto(next)
    BY <1>2 DEF InitAcpi, InitVirtio, InitDevice
  <2>2. /\ cpu.pc \in {"acpi", "virtio"}
        /\ UNCHANGED <<cr3, mem, tasks, cur_task, mapped, line, freq, lapic>>
    BY <1>2 DEF InitAcpi, InitVirtio, InitDevice
  <2>3. Booting /\ ~lapic.armed /\ next \in EarlyPCs /\ next \in BootPCs
    BY <2>1, <2>2 DEF Booting, BootPCs, EarlyPCs, IInv, BootInv
  <2> QED
    BY <1>0, <2>1, <2>2, <2>3, BootGoto
<1>3. CASE TestSyscall
  BY <1>3, TestSyscallStep
<1>4. CASE Measure
  <2> USE <1>4 DEF Measure
  <2>1. Booting /\ ~lapic.armed /\ "init_tasks" \in EarlyPCs /\ "init_tasks" \in BootPCs
    BY DEF Booting, BootPCs, EarlyPCs, IInv, BootInv
  <2> QED
    BY <1>0, <2>1, BootGoto
<1>5. CASE InitTasks
  BY <1>5, InitTasksStep
<1>6. CASE SetCallback
  <2>1. /\ cpu.pc = "periodic"
        /\ UNCHANGED <<cr3, mem, tasks, cur_task, mapped, line, freq>>
        /\ \/ Goto("cur0") /\ lapic' = lapic
           \/ Goto("arm") /\ lapic' = [lapic EXCEPT !.callback = TRUE]
    BY <1>6 DEF SetCallback
  <2>2. Booting /\ TasksReady /\ ~lapic.armed /\ "cur0" \in BootPCs /\ "arm" \in BootPCs
    BY <2>1 DEF Booting, TasksReady, BootPCs, EarlyPCs, LatePCs, IInv, BootInv
  <2>3. CASE Goto("cur0") /\ lapic' = lapic
    BY <1>0, <2>1, <2>2, <2>3, BootGoto
  <2>4. CASE Goto("arm") /\ lapic' = [lapic EXCEPT !.callback = TRUE]
    <3>1. /\ lapic' \in [callback : BOOLEAN, armed : BOOLEAN, inService : BOOLEAN]
          /\ lapic'.callback /\ ~lapic'.armed /\ ~lapic'.inService
      BY <1>0, <2>2, <2>4
    <3> QED
      BY <1>0, <2>1, <2>2, <2>4, <3>1, BootGoto
  <2> QED
    BY <2>1, <2>3, <2>4
<1>7. CASE ArmTimer
  <2> USE <1>7 DEF ArmTimer
  <2>1. Booting /\ TasksReady /\ lapic.callback /\ "cur0" \in BootPCs
    BY DEF Booting, TasksReady, BootPCs, EarlyPCs, LatePCs, IInv, BootInv
  <2>2. /\ lapic' \in [callback : BOOLEAN, armed : BOOLEAN, inService : BOOLEAN]
        /\ lapic'.callback /\ ~lapic'.inService
    BY <1>0, <2>1
  <2> QED
    BY <1>0, <2>1, <2>2, BootGoto
<1>8. CASE StartTask0
  BY <1>8, StartTask0Step
<1> QED
  BY <1>1, <1>2, <1>3, <1>4, <1>5, <1>6, <1>7, <1>8 DEF Boot

-----------------------------------------------------------------------------
\* Once an application runs, or the kernel on its behalf, the boot is over.
LEMMA BootIsOver ==
  ASSUME cpu.pc \in UserPCs \union KernelPCs
  PROVE  ~Booting /\ TasksReady
BY DEF Booting, TasksReady, BootPCs, EarlyPCs, LatePCs, UserPCs, KernelPCs

LEMMA BootIsOverNext ==
  ASSUME cpu'.pc \in UserPCs \union KernelPCs
  PROVE  ~Booting' /\ TasksReady'
BY DEF Booting, TasksReady, BootPCs, EarlyPCs, LatePCs, UserPCs, KernelPCs

LEMMA Running ==
  ASSUME IInv, cpu'.pc \in UserPCs \union KernelPCs, UNCHANGED lapic
  PROVE  ~Booting' /\ TasksReady' /\ BootInv' /\ TimerInv'
<1>1. ~Booting' /\ TasksReady'
  BY BootIsOverNext
<1> QED
  BY <1>1 DEF BootInv, TimerInv, IInv

LEMMA AppFacts ==
  ASSUME IInv, cpu.pc \in UserPCs
  PROVE  /\ ~Booting /\ TasksReady
         /\ cur_task \in Tasks /\ cr3 = cur_task
         /\ cpu \in Regs /\ AppRegs(cr3, mem, cpu)
         /\ UserDepth(cpu.pc) \in 0 .. 1
         /\ cpu.sp = [area |-> "app", depth |-> UserDepth(cpu.pc)]
         /\ Below(cpu.sp) = [area |-> "app", depth |-> UserDepth(cpu.pc) + 1]
         /\ Below(cpu.sp) \in Addrs
         /\ Phys(cr3, Below(cpu.sp)) = <<cr3, UserDepth(cpu.pc) + 1>>
         /\ <<cr3, UserDepth(cpu.pc) + 1>> \in Cells
<1>1. ~Booting /\ TasksReady
  BY BootIsOver
<1>2. cur_task \in Tasks /\ cr3 = cur_task /\ cpu \in Regs /\ AppRegs(cr3, mem, cpu)
  BY <1>1 DEF IInv, TypeOK, RunInv
<1>3. UserDepth(cpu.pc) \in 0 .. 1
  BY DEF UserDepth
<1>4. cpu.sp = [area |-> "app", depth |-> UserDepth(cpu.pc)]
  BY <1>2 DEF AppRegs
<1>5. Below(cpu.sp) = [area |-> "app", depth |-> UserDepth(cpu.pc) + 1]
  BY <1>4 DEF Below
<1>6. Below(cpu.sp) \in Addrs /\ <<cr3, UserDepth(cpu.pc) + 1>> \in Cells
  BY <1>2, <1>3, <1>5, DepthAssumption DEF Addrs, Depths, Cells, Spaces
<1>7. Phys(cr3, Below(cpu.sp)) = <<cr3, UserDepth(cpu.pc) + 1>>
  BY <1>5 DEF Phys
<1> QED
  BY <1>1, <1>2, <1>3, <1>4, <1>5, <1>6, <1>7

\* A frame stays what it is while the task's own cells do.
LEMMA FrameStays ==
  ASSUME NEW t, NEW m, NEW m2, NEW sp,
         m2[<<t, 1>>] = m[<<t, 1>>], m2[<<t, 2>>] = m[<<t, 2>>],
         HoldsFrame(t, m, sp)
  PROVE  HoldsFrame(t, m2, sp)
BY DEF HoldsFrame, AppRegs

\* A step that writes at most the running task's memory leaves the others alone.
LEMMA OthersStay ==
  ASSUME IInv, TasksReady, UNCHANGED <<tasks, cur_task>>,
         NEW d, NEW v,
         mem \in [Cells -> Content],
         mem' = mem \/ mem' = [mem EXCEPT ![<<cur_task, d>>] = v]
  PROVE  TasksInv'
<1>1. \A t \in Tasks : tasks'[t].cr3 = t
  BY DEF IInv, TasksInv
<1>2. ASSUME NEW t \in Tasks \ {cur_task}
      PROVE  HoldsFrame(t, mem', tasks'[t].sp)
  <2>1. <<t, 1>> \in Cells /\ <<t, 2>> \in Cells
    BY DepthAssumption DEF Cells, Spaces, Depths
  <2>2. mem'[<<t, 1>>] = mem[<<t, 1>>] /\ mem'[<<t, 2>>] = mem[<<t, 2>>]
    BY <1>2, <2>1
  <2>3. HoldsFrame(t, mem, tasks[t].sp)
    BY DEF IInv, TasksInv
  <2> QED
    BY <2>2, <2>3, FrameStays
<1> QED
  BY <1>1, <1>2 DEF TasksInv

\* Entering the kernel from an application.
LEMMA EntryStep ==
  ASSUME IInv, cpu.pc \in UserPCs,
         NEW saved \in Regs, NEW handler \in {"sys", "pf_map", "pf_panic"},
         saved.sp = cpu.sp, saved.intr,
         saved.pc = IF handler = "sys" THEN "ret" ELSE "touch",
         UserDepth(saved.pc) = UserDepth(cpu.pc),
         Interrupt(saved, handler),
         UNCHANGED <<cr3, tasks, cur_task, mapped, line, freq, lapic>>
  PROVE  IInv'
<1> DEFINE d == UserDepth(cpu.pc) + 1
<1>0. d \in 1 .. 2 /\ <<cr3, d>> \in Cells /\ cr3 = cur_task /\ TasksReady /\ ~Booting
  BY AppFacts
<1>1. mem' = [mem EXCEPT ![<<cr3, d>>] = Frame(saved)] /\ mem \in [Cells -> Content]
  BY AppFacts DEF Interrupt, Store, IInv, TypeOK
<1>2. /\ cpu'.pc = handler
      /\ cpu'.sp = [area |-> "app", depth |-> d]
      /\ cpu'.intr = FALSE
      /\ cpu' \in Regs
  <2>1. \A intr : IntrAfterEntry(intr) = FALSE
    BY DEF IntrAfterEntry, GateType, InterruptGate
  <2>2. cpu' = [saved EXCEPT !.pc = handler, !.sp = Below(@), !.i = 1, !.intr = FALSE]
    BY <2>1 DEF Interrupt
  <2>3. cpu'.sp = Below(cpu.sp) /\ cpu'.sp \in Addrs
    BY <2>2, AppFacts DEF Regs
  <2>4. cpu' = [saved EXCEPT !.pc = handler, !.sp = cpu'.sp, !.i = 1, !.intr = FALSE]
    BY <2>2, AppFacts DEF Regs
  <2>5. 1 \in 1 .. MsgLen+1
    BY OutputAssumption
  <2>6. cpu' \in Regs
    BY <2>3, <2>4, <2>5, AppFacts DEF Regs, KernelPCs
  <2> QED
    BY <2>2, <2>3, <2>4, <2>6, AppFacts DEF Regs
<1> HIDE DEF d
<1>3. TypeOK'
  <2>1. mem' \in [Cells -> Content]
    BY <1>1, FrameContent
  <2> QED
    BY <1>2, <2>1 DEF IInv, TypeOK
<1>4. ~Booting' /\ TasksReady' /\ BootInv' /\ TimerInv'
  BY <1>2, Running DEF KernelPCs
<1>5. TasksInv'
  BY <1>0, <1>1, OthersStay
<1>6. HoldsFrame(cr3, mem, cpu.sp)' /\ mem'[<<cr3, d>>].reg = saved
  <2>1. mem'[<<cr3, d>>].kind = "frame" /\ mem'[<<cr3, d>>].reg = saved
    BY <1>0, <1>1, FrameContent
  <2>2. Above(cpu'.sp) = cpu.sp /\ cpu.sp = [area |-> "app", depth |-> UserDepth(saved.pc)]
    BY <1>2, AppFacts DEF Above, d
  <2> QED
    BY <1>0, <1>2, <2>1, <2>2 DEF HoldsFrame, AppRegs, UserPCs
<1>7. RunInv'
  BY <1>0, <1>2, <1>6 DEF RunInv, UserPCs
<1> QED
  BY <1>3, <1>4, <1>5, <1>7 DEF IInv

LEMMA AppStep ==
  ASSUME IInv, App
  PROVE  IInv'
<1>0. cpu.pc \in UserPCs
  BY DEF App, Call, Load, Ret, Touch, Syscall, PageFault, UserPCs
<1> DEFINE d == UserDepth(cpu.pc) + 1
<1>1. CASE Call
  <2> USE <1>1 DEF Call
  <2>0. /\ d = 1 /\ <<cr3, 1>> \in Cells /\ mem \in [Cells -> Content]
        /\ AppMessage(cr3) \in Pointers
    BY <1>0, AppFacts DEF UserDepth, IInv, TypeOK, Pointers
  <2>1. mem' = [mem EXCEPT ![<<cr3, 1>>] = Str(AppMessage(cr3))]
    BY <1>0, <2>0, AppFacts DEF Store
  <2>2. cpu' \in Regs /\ cpu'.pc = "load" /\ cpu'.intr = cpu.intr
    BY <1>0, AppFacts DEF Regs, UserPCs
  <2>3. cpu'.sp = [area |-> "app", depth |-> UserDepth("load")]
    BY <1>0, <2>0, AppFacts DEF UserDepth, Regs
  <2>4. TypeOK'
    BY <2>0, <2>1, <2>2, StrContent DEF IInv, TypeOK
  <2>5. ~Booting' /\ TasksReady' /\ BootInv' /\ TimerInv'
    BY <2>2, Running DEF UserPCs
  <2>6. TasksInv'
    BY <1>0, <2>0, <2>1, AppFacts, OthersStay
  <2>7. mem'[<<cr3, 1>>] = Str(AppMessage(cr3))
    BY <2>0, <2>1
  <2>8. RunInv'
    BY <1>0, <2>2, <2>3, <2>7, AppFacts DEF RunInv, AppRegs, UserPCs, KernelPCs
  <2> QED
    BY <2>4, <2>5, <2>6, <2>8 DEF IInv
<1>2. CASE Load
  <2> USE <1>2 DEF Load
  <2>1. mem[Phys(cr3, Slot)] \in Content /\ AppMessage(cr3) \in Pointers
    <3>1. Slot = [area |-> "app", depth |-> 1]
      BY <1>0, AppFacts DEF Slot, UserDepth
    <3> QED
      BY <1>0, <3>1, AppFacts, DepthAssumption DEF IInv, TypeOK, Phys, Cells, Depths, Spaces, Pointers
  <2>2. cpu' \in Regs /\ cpu'.pc = "int" /\ cpu'.intr = cpu.intr /\ cpu'.sp = cpu.sp
    BY <1>0, <2>1, AppFacts, ContentStr DEF Regs, UserPCs, Pointers
  <2>3. ~RedZone => cpu'.rsi = AppMessage(cr3)
    <3> SUFFICES ASSUME ~RedZone PROVE cpu'.rsi = AppMessage(cr3)
      OBVIOUS
    <3>1. Phys(cr3, Slot) = <<cr3, 1>>
      BY <1>0, AppFacts DEF Slot, UserDepth, Phys
    <3>2. mem[<<cr3, 1>>] = Str(AppMessage(cr3))
      BY <1>0, AppFacts DEF AppRegs
    <3> QED
      BY <1>0, <2>1, <3>1, <3>2, StrContent, AppFacts DEF Regs
  <2>4. TypeOK'
    BY <2>2 DEF IInv, TypeOK
  <2>5. ~Booting' /\ TasksReady' /\ BootInv' /\ TimerInv'
    BY <2>2, Running DEF UserPCs
  <2>6. TasksInv'
    BY <1>0, AppFacts, OthersStay DEF IInv, TypeOK
  <2>7. RunInv'
    BY <1>0, <2>2, <2>3, AppFacts DEF RunInv, AppRegs, UserPCs, KernelPCs, UserDepth
  <2> QED
    BY <2>4, <2>5, <2>6, <2>7 DEF IInv
<1>3. CASE Ret
  <2> USE <1>3 DEF Ret
  <2>1. cpu'.sp = [area |-> "app", depth |-> 0]
    BY <1>0, AppFacts DEF UserDepth, Above, Regs
  <2>2. cpu' \in Regs /\ cpu'.pc = "touch" /\ cpu'.intr = cpu.intr
    <3>1. cpu'.sp \in Addrs
      BY <2>1, DepthAssumption DEF Addrs, Depths
    <3>2. cpu' = [cpu EXCEPT !.pc = "touch", !.sp = cpu'.sp]
      BY <1>0, AppFacts DEF Regs
    <3> QED
      BY <1>0, <3>1, <3>2, AppFacts DEF Regs, UserPCs
  <2>4. TypeOK'
    BY <2>2 DEF IInv, TypeOK
  <2>5. ~Booting' /\ TasksReady' /\ BootInv' /\ TimerInv'
    BY <2>2, Running DEF UserPCs
  <2>6. TasksInv'
    BY <1>0, AppFacts, OthersStay DEF IInv, TypeOK
  <2>7. RunInv'
    BY <1>0, <2>1, <2>2, AppFacts DEF RunInv, AppRegs, UserPCs, KernelPCs, UserDepth
  <2> QED
    BY <2>4, <2>5, <2>6, <2>7 DEF IInv
<1>4. CASE Touch
  <2> USE <1>4 DEF Touch, Goto
  <2>2. cpu' \in Regs /\ cpu'.pc = "call" /\ cpu'.intr = cpu.intr /\ cpu'.sp = cpu.sp
    BY <1>0, AppFacts DEF Regs, UserPCs
  <2>4. TypeOK'
    BY <2>2 DEF IInv, TypeOK
  <2>5. ~Booting' /\ TasksReady' /\ BootInv' /\ TimerInv'
    BY <2>2, Running DEF UserPCs
  <2>6. TasksInv'
    BY <1>0, AppFacts, OthersStay DEF IInv, TypeOK
  <2>7. RunInv'
    BY <1>0, <2>2, AppFacts DEF RunInv, AppRegs, UserPCs, KernelPCs, UserDepth
  <2> QED
    BY <2>4, <2>5, <2>6, <2>7 DEF IInv
<1>5. CASE Syscall
  <2> DEFINE saved == [cpu EXCEPT !.pc = "ret"]
  <2>1. saved \in Regs /\ saved.pc = "ret" /\ saved.sp = cpu.sp /\ saved.intr = cpu.intr
    BY <1>0, AppFacts DEF Regs, UserPCs
  <2>2. UserDepth("ret") = UserDepth("int") /\ cpu.pc = "int" /\ cpu.intr
    BY <1>0, <1>5, AppFacts DEF UserDepth, Syscall, AppRegs
  <2>3. Interrupt(saved, "sys") /\ UNCHANGED <<cr3, tasks, cur_task, mapped, line, freq, lapic>>
    BY <1>5 DEF Syscall
  <2> HIDE DEF saved
  <2> QED
    BY <1>0, <2>1, <2>2, <2>3, EntryStep
<1>6. CASE PageFault
  <2>1. PICK h \in {"pf_map", "pf_panic"} : Interrupt(cpu, h)
    BY <1>6 DEF PageFault
  <2>2. cpu.pc = "touch" /\ UNCHANGED <<cr3, tasks, cur_task, mapped, line, freq, lapic>>
    BY <1>6 DEF PageFault
  <2>3. cpu \in Regs /\ cpu.intr
    BY <1>0, AppFacts DEF AppRegs
  <2> QED
    BY <1>0, <2>1, <2>2, <2>3, EntryStep
<1> QED
  BY <1>1, <1>2, <1>3, <1>4, <1>5, <1>6 DEF App

-----------------------------------------------------------------------------
LEMMA KernelFacts ==
  ASSUME IInv, cpu.pc \in KernelPCs
  PROVE  /\ ~Booting /\ TasksReady
         /\ cur_task \in Tasks /\ cr3 = cur_task /\ cpu \in Regs
         /\ HoldsFrame(cr3, mem, cpu.sp)
         /\ Phys(cr3, cpu.sp) = <<cr3, cpu.sp.depth>>
         /\ mem[<<cr3, cpu.sp.depth>>].reg \in Regs
<1>1. ~Booting /\ TasksReady
  BY BootIsOver
<1>2. cur_task \in Tasks /\ cr3 = cur_task /\ cpu \in Regs /\ HoldsFrame(cr3, mem, cpu.sp)
  BY <1>1 DEF IInv, TypeOK, RunInv
<1>3. Phys(cr3, cpu.sp) = <<cr3, cpu.sp.depth>>
  BY <1>2 DEF Phys, HoldsFrame
<1>4. mem[<<cr3, cpu.sp.depth>>].reg \in Regs
  <2>1. <<cr3, cpu.sp.depth>> \in Cells
    BY <1>2, DepthAssumption DEF HoldsFrame, Cells, Spaces, Depths
  <2> QED
    BY <1>2, <2>1, ContentFrame DEF HoldsFrame, IInv, TypeOK
<1> QED
  BY <1>1, <1>2, <1>3, <1>4

\* Back to the application: iretq pops what the entry pushed.
LEMMA ReturnStep ==
  ASSUME IInv, cpu.pc \in {"sys", "pf_map"}, Iretq, mapped' \subseteq Tasks,
         UNCHANGED <<cr3, mem, tasks, cur_task, line, freq, lapic>>
  PROVE  IInv'
<1>0. cpu.pc \in KernelPCs
  BY DEF KernelPCs
<1>1. /\ cpu' = mem[<<cr3, cpu.sp.depth>>].reg /\ cpu' \in Regs
      /\ AppRegs(cr3, mem, cpu')
  BY <1>0, KernelFacts DEF Iretq, Popped, HoldsFrame
<1>2. cpu'.pc \in UserPCs /\ cpu'.sp.area = "app"
  BY <1>1 DEF AppRegs
<1>3. TypeOK'
  BY <1>1 DEF IInv, TypeOK
<1>4. ~Booting' /\ TasksReady' /\ BootInv' /\ TimerInv'
  BY <1>2, Running
<1>5. TasksInv'
  BY <1>0, KernelFacts, OthersStay DEF IInv, TypeOK
<1>6. RunInv'
  <2>1. cr3 = cur_task /\ cpu'.pc \notin KernelPCs /\ cpu'.pc # "wild"
    BY <1>0, <1>2, KernelFacts DEF UserPCs, KernelPCs
  <2>2. AppRegs(cr3', mem', cpu')
    BY <1>1
  <2> QED
    BY <1>2, <2>1, <2>2 DEF RunInv
<1> QED
  BY <1>3, <1>4, <1>5, <1>6 DEF IInv

LEMMA Stutter ==
  ASSUME IInv, UNCHANGED vars
  PROVE  IInv'
<1> USE DEF vars
<1>1. TypeOK'
  BY DEF IInv, TypeOK
<1>2. BootInv'
  BY DEF IInv, BootInv, Booting, TasksReady, FramesPrepared, BootFrame
<1>3. TasksInv'
  BY DEF IInv, TasksInv, TasksReady
<1>4. RunInv'
  BY DEF IInv, RunInv, Booting
<1>5. TimerInv'
  BY DEF IInv, TimerInv
<1> QED
  BY <1>1, <1>2, <1>3, <1>4, <1>5 DEF IInv

\* The system call of test_syscall_puts(), which prints and returns to the boot.
LEMMA BootSyscallStep ==
  ASSUME IInv, cpu.pc = "boot_sys", Putc \/ SyscallReturn
  PROVE  IInv'
<1>0. /\ Booting /\ ~TasksReady /\ BootFrame /\ cpu \in Regs /\ cur_task = 0
      /\ ~lapic.armed /\ cpu.sp = Below(KernelTop) /\ ~cpu.intr
  BY DEF Booting, BootPCs, EarlyPCs, TasksReady, IInv, TypeOK, BootInv
<1>1. UNCHANGED <<cr3, mem, tasks, cur_task, mapped, freq, lapic>>
  BY DEF Putc, SyscallReturn
<1>2. BootFrame'
  BY <1>0, <1>1 DEF BootFrame
<1>3. cpu' \in Regs /\ \/ cpu'.pc = "boot_sys" /\ cpu'.sp = cpu.sp /\ ~cpu'.intr
                       \/ cpu'.pc = "virtio" /\ cpu'.sp = KernelTop /\ cpu'.intr
  <2>1. CASE Putc
    BY <1>0, <2>1, OutputAssumption DEF Putc, Printing, Regs
  <2>2. CASE SyscallReturn
    <3>1. Phys(cr3, cpu.sp) = <<KernelStack, 1>>
      BY <1>0 DEF Phys, Below, KernelTop
    <3>2. cpu' = mem[<<KernelStack, 1>>].reg
      BY <1>0, <2>2, <3>1 DEF SyscallReturn, Iretq, Popped, BootFrame
    <3>3. mem[<<KernelStack, 1>>] \in Content
      BY DepthAssumption DEF IInv, TypeOK, Cells, Depths
    <3> QED
      BY <1>0, <3>2, <3>3, ContentFrame DEF BootFrame
  <2> QED
    BY <2>1, <2>2
<1>4. Booting' /\ ~TasksReady'
  BY <1>3 DEF Booting, BootPCs, EarlyPCs, TasksReady
<1>5. TypeOK'
  BY <1>1, <1>3 DEF IInv, TypeOK
<1>6. BootInv'
  BY <1>0, <1>1, <1>2, <1>3, <1>4 DEF BootInv
<1>7. TasksInv' /\ RunInv' /\ TimerInv'
  BY <1>1, <1>4 DEF TasksInv, RunInv, TimerInv, IInv
<1> QED
  BY <1>5, <1>6, <1>7 DEF IInv

LEMMA KernelStep ==
  ASSUME IInv, Kernel
  PROVE  IInv'
<1> SUFFICES ASSUME cpu.pc \in KernelPCs, ~Halt PROVE IInv'
  <2>1. CASE Halt
    BY <2>1, Stutter DEF Halt
  <2>2. CASE cpu.pc = "boot_sys"
    BY <2>2, BootSyscallStep DEF Kernel, MapPage, Panic, Halt
  <2>3. ~Halt /\ cpu.pc # "boot_sys" => cpu.pc \in KernelPCs
    BY DEF Kernel, Putc, Printing, Handlers, SyscallReturn, MapPage, Panic, KernelPCs
  <2> QED
    BY <2>1, <2>2, <2>3
<1>0. cpu.pc \in KernelPCs
  OBVIOUS
<1>1. CASE Putc
  <2> USE <1>1 DEF Putc
  <2>1. cpu'.pc = cpu.pc /\ cpu'.sp = cpu.sp /\ cpu'.intr = cpu.intr /\ cpu' \in Regs
    BY <1>0, KernelFacts, OutputAssumption DEF Printing, Regs
  <2>2. TypeOK'
    BY <2>1 DEF IInv, TypeOK
  <2>3. TasksInv'
    BY <1>0, KernelFacts, OthersStay DEF IInv, TypeOK
  <2>4. BootInv' /\ TimerInv'
    BY <1>0, <2>1, Running DEF KernelPCs
  <2>5. RunInv'
    BY <1>0, <2>1, KernelFacts DEF IInv, RunInv, KernelPCs, UserPCs
  <2> QED
    BY <2>2, <2>3, <2>4, <2>5 DEF IInv
<1>2. CASE SyscallReturn
  <2>1. cpu.pc = "sys" /\ Iretq
    BY <1>0, <1>2 DEF SyscallReturn, KernelPCs
  <2> QED
    BY <1>2, <2>1, ReturnStep DEF SyscallReturn, IInv, TypeOK
<1>3. CASE MapPage
  <2>1. FaultingSpace \in Tasks
    BY NAssumption DEF FaultingSpace, Tasks
  <2> QED
    BY <1>3, <2>1, ReturnStep DEF MapPage, IInv, TypeOK
<1>4. CASE Panic
  <2> USE <1>4 DEF Panic, Goto
  <2>1. cpu'.pc = "halt" /\ cpu'.sp = cpu.sp /\ cpu'.intr = cpu.intr /\ cpu' \in Regs
    BY <1>0, KernelFacts DEF Regs, KernelPCs
  <2>2. TypeOK'
    BY <2>1 DEF IInv, TypeOK
  <2>3. TasksInv'
    BY <1>0, KernelFacts, OthersStay DEF IInv, TypeOK
  <2>4. BootInv' /\ TimerInv'
    BY <1>0, <2>1, Running DEF KernelPCs
  <2>5. RunInv'
    BY <1>0, <2>1, KernelFacts DEF IInv, RunInv, KernelPCs, UserPCs
  <2> QED
    BY <2>2, <2>3, <2>4, <2>5 DEF IInv
<1> QED
  BY <1>1, <1>2, <1>3, <1>4 DEF Kernel

\* What a tick saves and what it resumes.
LEMMA TickFacts ==
  ASSUME IInv, ~EarlyTick, Tick
  PROVE  /\ cpu.pc \in UserPCs /\ cur_task \in Tasks /\ NextTask \in Tasks
         /\ tasks' = Saved /\ cur_task' = NextTask /\ cr3' = NextTask
         /\ mem' \in [Cells -> Content]
         /\ Saved \in [Tasks -> [sp : Addrs, cr3 : Spaces]]
         /\ \A t \in Tasks :
              /\ Saved[t].cr3 = t
              /\ HoldsFrame(t, mem', Saved[t].sp)
              /\ mem'[<<t, Saved[t].sp.depth>>].reg.pc =
                   IF t = cur_task THEN cpu.pc ELSE mem[<<t, tasks[t].sp.depth>>].reg.pc
         /\ cpu' = mem'[<<NextTask, Saved[NextTask].sp.depth>>].reg
         /\ AppRegs(NextTask, mem', cpu')
         /\ cpu' \in Regs
<1> DEFINE d == UserDepth(cpu.pc) + 1
<1> USE DEF Tick
<1>1. ~Booting /\ cpu.intr /\ lapic.armed /\ lapic.callback
  BY DEF IInv, TimerInv
<1>2. cpu.pc \in UserPCs
  BY DEF IInv, TypeOK, RunInv, Regs, Booting
<1>3. /\ mem' = [mem EXCEPT ![<<cr3, d>>] = Frame(cpu)] /\ mem \in [Cells -> Content]
      /\ <<cr3, d>> \in Cells /\ cr3 = cur_task /\ d \in 1 .. 2
      /\ cpu \in Regs /\ cur_task \in Tasks
      /\ Below(cpu.sp) = [area |-> "app", depth |-> d] /\ Below(cpu.sp) \in Addrs
      /\ cpu.sp = [area |-> "app", depth |-> UserDepth(cpu.pc)]
      /\ AppRegs(cr3, mem, cpu) /\ UserDepth(cpu.pc) \in 0 .. 1
  <2>1. mem' = Store(Below(cpu.sp), Frame(cpu)) /\ mem \in [Cells -> Content]
    BY DEF IInv, TypeOK
  <2>2. mem' = [mem EXCEPT ![<<cr3, d>>] = Frame(cpu)]
    BY ONLY <1>2, <2>1, IInv, AppFacts DEF Store
  <2> QED
    BY ONLY <1>2, <2>1, <2>2, IInv, AppFacts
<1> HIDE DEF d
<1>4. mem' \in [Cells -> Content] /\ mem'[<<cr3, d>>] = Frame(cpu)
  BY <1>3, FrameContent
<1>5. /\ Saved \in [Tasks -> [sp : Addrs, cr3 : Spaces]]
      /\ \A t \in Tasks : Saved[t].cr3 = t
      /\ Saved[cur_task].sp = Below(cpu.sp)
      /\ \A t \in Tasks \ {cur_task} : Saved[t] = tasks[t]
  <2>1. Saved = [tasks EXCEPT ![cur_task].sp = Below(cpu.sp)]
    BY DEF Saved
  <2>2. tasks \in [Tasks -> [sp : Addrs, cr3 : Spaces]] /\ \A t \in Tasks : tasks[t].cr3 = t
    BY <1>2, AppFacts DEF IInv, TypeOK, TasksInv
  <2> QED
    BY <1>3, <2>1, <2>2
<1>6. ASSUME NEW t \in Tasks
      PROVE  /\ HoldsFrame(t, mem', Saved[t].sp)
             /\ mem'[<<t, Saved[t].sp.depth>>].reg.pc =
                  IF t = cur_task THEN cpu.pc ELSE mem[<<t, tasks[t].sp.depth>>].reg.pc
  <2>1. CASE t = cur_task
    <3>1. Above(Below(cpu.sp)) = cpu.sp
      BY ONLY <1>3 DEF Above, d
    <3>2. ~RedZone /\ cpu.pc = "load" => mem'[<<t, 1>>] = mem[<<t, 1>>]
      BY <1>3, <2>1, DepthAssumption DEF Cells, Spaces, Depths, d, UserDepth
    <3>3. AppRegs(t, mem', cpu)
      BY <1>3, <2>1, <3>2 DEF AppRegs
    <3>4. mem'[<<t, d>>].kind = "frame" /\ mem'[<<t, d>>].reg = cpu
      BY <1>3, <1>4, <2>1, FrameContent
    <3>5. Saved[t].sp = Below(cpu.sp) /\ Saved[t].sp.depth = d
      BY <1>3, <1>5, <2>1
    <3>6. HoldsFrame(t, mem', Saved[t].sp)
      BY <1>3, <3>1, <3>3, <3>4, <3>5 DEF HoldsFrame
    <3> QED
      BY <2>1, <3>4, <3>5, <3>6
  <2>2. CASE t # cur_task
    <3>1. HoldsFrame(t, mem, tasks[t].sp)
      BY <1>2, <2>2, AppFacts DEF IInv, TasksInv
    <3>2. <<t, 1>> \in Cells /\ <<t, 2>> \in Cells
      BY DepthAssumption DEF Cells, Spaces, Depths
    <3>3. mem'[<<t, 1>>] = mem[<<t, 1>>] /\ mem'[<<t, 2>>] = mem[<<t, 2>>]
      BY <1>3, <2>2, <3>2
    <3>4. HoldsFrame(t, mem', Saved[t].sp)
      BY <1>5, <2>2, <3>1, <3>3, FrameStays
    <3>5. tasks[t].sp.depth \in 1 .. 2 /\ Saved[t].sp = tasks[t].sp
      BY <1>5, <2>2, <3>1 DEF HoldsFrame
    <3>6. mem'[<<t, Saved[t].sp.depth>>] = mem[<<t, tasks[t].sp.depth>>]
      BY <3>3, <3>5
    <3> QED
      BY <2>2, <3>4, <3>6
  <2> QED
    BY <2>1, <2>2
<1>7. tasks' = Saved /\ cur_task' = NextTask /\ NextTask \in Tasks /\ cr3' = NextTask
  BY <1>1, <1>3, <1>5, NextTaskType
<1>8. /\ cpu' = mem'[<<NextTask, Saved[NextTask].sp.depth>>].reg
      /\ AppRegs(NextTask, mem', cpu')
      /\ cpu' \in Regs
  <2>1. HoldsFrame(NextTask, mem', Saved[NextTask].sp)
    BY <1>6, <1>7
  <2>2. Phys(NextTask, Saved[NextTask].sp) = <<NextTask, Saved[NextTask].sp.depth>>
    BY <2>1 DEF HoldsFrame, Phys
  <2>3. <<NextTask, Saved[NextTask].sp.depth>> \in Cells
    BY <1>7, <2>1, DepthAssumption DEF HoldsFrame, Cells, Spaces, Depths
  <2>4. cpu' = mem'[<<NextTask, Saved[NextTask].sp.depth>>].reg
    BY <1>1, <1>5, <1>7, <2>1, <2>2 DEF Popped, HoldsFrame
  <2> QED
    BY <1>4, <2>1, <2>3, <2>4, ContentFrame DEF HoldsFrame
<1> QED
  BY ONLY <1>2, <1>3, <1>4, <1>5, <1>6, <1>7, <1>8

LEMMA TickStep ==
  ASSUME IInv, ~EarlyTick, Tick
  PROVE  IInv'
<1>1. cpu'.pc \in UserPCs /\ cpu'.sp.area = "app"
  BY TickFacts DEF AppRegs
<1>2. TypeOK'
  BY TickFacts, Kinds DEF IInv, TypeOK, Tick, InService
<1>3. ~Booting' /\ TasksReady' /\ BootInv' /\ TimerInv'
  <2>1. lapic' = lapic
    BY DEF Tick, InService, IInv, TypeOK, TimerInv
  <2> QED
    BY <1>1, <2>1, Running
<1>4. TasksInv'
  BY TickFacts DEF TasksInv
<1>5. RunInv'
  BY <1>1, TickFacts DEF RunInv, UserPCs, KernelPCs
<1> QED
  BY <1>2, <1>3, <1>4, <1>5 DEF IInv

-----------------------------------------------------------------------------
\* While the first tick does not come too early, every state satisfies IInv.
THEOREM Invariance ==
  ASSUME ~EarlyTick
  PROVE  Spec => []IInv
<1>1. IInv /\ [Next]_vars => IInv'
  <2> SUFFICES ASSUME IInv, [Next]_vars PROVE IInv'
    OBVIOUS
  <2> QED
    BY Stutter, BootStep, AppStep, KernelStep, TickStep DEF Next, CpuStep
<1> QED
  BY <1>1, InitIInv, PTL DEF Spec

\* Every variable keeps its type; in particular no stack grows beyond MaxDepth.
THEOREM TypeCorrect ==
  ASSUME ~EarlyTick
  PROVE  Spec => []TypeOK
<1>1. IInv => TypeOK
  BY DEF IInv
<1> QED
  BY <1>1, Invariance, PTL

\* The sp that schedule() saves for a task means, under the cr3 the task is
\* given back, the frame the task was suspended with.
THEOREM FramesAreSaved ==
  ASSUME ~EarlyTick
  PROVE  Spec => []SavedFrames
<1>1. IInv => SavedFrames
  BY DEF IInv, TasksInv, SavedFrames, SavedCell, HoldsFrame, Phys
<1> QED
  BY <1>1, Invariance, PTL

\* No tick suspends a task in the kernel, and none is suspended for good.
THEOREM KernelIsNotPreempted ==
  ASSUME ~EarlyTick
  PROVE  Spec => []KernelNotPreempted
<1>1. IInv => KernelNotPreempted
  BY DEF IInv, TasksInv, KernelNotPreempted, SavedCell, HoldsFrame, AppRegs, Phys
<1> QED
  BY <1>1, Invariance, PTL

\* A task only runs in its own address space, on its own stack.
THEOREM TasksRunInOwnSpace ==
  ASSUME ~EarlyTick
  PROVE  Spec => []OwnSpace
<1>1. IInv => OwnSpace
  BY DEF IInv, RunInv, OwnSpace
<1> QED
  BY <1>1, Invariance, PTL

\* After the diagnosis of a page fault has begun nothing else happens.
THEOREM FaultsAreFinal ==
  ASSUME ~EarlyTick
  PROVE  Spec => FaultIsFinal
<1> DEFINE A == cpu.pc \in {"pf_panic", "halt"} =>
                  /\ cpu'.pc \in {"pf_panic", "halt"}
                  /\ UNCHANGED <<cr3, tasks, cur_task, mapped>>
<1>1. IInv /\ [Next]_vars => [A]_vars
  <2> SUFFICES ASSUME IInv, Next, cpu.pc \in {"pf_panic", "halt"} PROVE A
    OBVIOUS
  <2>0. cpu.pc \in KernelPCs /\ ~Booting
    BY BootIsOver DEF KernelPCs
  <2>1. cpu \in Regs /\ ~cpu.intr
    BY <2>0 DEF IInv, TypeOK, RunInv
  <2>2. ~Boot
    BY <2>0, BootPC
  <2>3. ~App
    BY DEF App, Call, Load, Ret, Touch, Syscall, PageFault
  <2>4. Kernel
    BY <2>1, <2>2, <2>3 DEF Next, CpuStep, Tick
  <2>5. Putc \/ Panic \/ Halt
    BY <2>4 DEF Kernel, SyscallReturn, MapPage
  <2> QED
    BY <2>1, <2>5 DEF Putc, Panic, Halt, Goto, vars, Regs
<1> QED
  BY <1>1, Invariance, PTL DEF Spec, FaultIsFinal
=============================================================================
