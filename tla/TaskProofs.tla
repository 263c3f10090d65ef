------------------------------ MODULE TaskProofs -------------------------------
(***************************************************************************)
(* Proofs about the tasks of the kernel.                                   *)
(*                                                                         *)
(* The scheduler, for any number of tasks, any time slice and any number   *)
(* of free blocks, when no tick arrives inside a task_switch that runs     *)
(* with IF = 1: every stack keeps one of a few shapes, and that is why a   *)
(* task resumes from its own stack and frames do not pile up.              *)
(*                                                                         *)
(* net_poll, for every number of ticks, slices, attempts and every         *)
(* scenario: it has one caller inside.  The flag alone does not give it,   *)
(* since a task may be preempted between its test and its setting.  What   *)
(* does is that only the network task can be: the shell polls inside a     *)
(* system call.                                                            *)
(***************************************************************************)
EXTENDS Sched, NetWait, FiniteSetTheorems, NaturalsInduction, WellFoundedInduction, TLAPS

(* The scheduler. *)

\* The shell is inside int 0x80: its only frame is the one the gate pushed.
InSyscall ==
  Len(stack[0]) >= 1 /\ stack[0][1].kind = "irq" /\ stack[0][1].cpu.pc = "run"

\* The frame task_switch returns through, at depth d of t's stack: it was entered
\* from t's own code or, at depth 2, from a system call of the shell.
SwitchFrame(t, d) ==
  /\ d \in {1, 2} /\ d <= Len(stack[t])
  /\ stack[t][d].kind \in {"irq", "call"}
  /\ d = 1 => stack[t][d].cpu.pc = "run"
  /\ d = 2 => t = 0 /\ stack[t][d].cpu.pc = "sys" /\ InSyscall

\* t can be resumed: it was never started, or task_switch saved it.
Waiting(t) ==
  /\ esp[t].t = t /\ esp[t].d \in 1 .. Len(stack[t])
  /\ \/ /\ esp[t].d = 1 /\ stack[t][1].kind = "start" /\ stack[t][1].cpu.pc = "run"
     \/ /\ stack[t][esp[t].d].kind = "ctx" /\ stack[t][esp[t].d].cpu.pc = "ret"
        /\ SwitchFrame(t, esp[t].d - 1)

\* Where the CPU is on the stack, by its position in the code.
PlaceInv ==
  /\ cpu.pc \notin {"returned", "wild"}
  /\ cpu.pc \in {"boot", "kill", "halt"} => ~ cpu.if /\ sp.t = 0
  /\ cpu.pc \in {"boot", "run"} => sp.d = 0
  /\ cpu.pc \in {"kill", "halt"} => sp.d \in {0, 1}
  /\ cpu.pc = "sys" => sp = At(0, 1) /\ InSyscall
  /\ cpu.pc \in {"pick", "set", "ctx", "ret"} => SwitchFrame(sp.t, sp.d)

\* Who runs, and who is on the way in or out.
RunInv ==
  /\ state[current_task_id] = 2
  /\ \A t \in Tasks : state[t] = 2 => t = current_task_id
  /\ cpu.pc # "ctx" => sp.t = current_task_id
  /\ cpu.pc = "set" => /\ cpu.prev = current_task_id
                       /\ cpu.next \in 0 .. task_count - 1 /\ state[cpu.next] # 0
  /\ cpu.pc = "ctx" => /\ cpu.next = current_task_id /\ sp.t = cpu.prev
                       /\ cpu.prev # cpu.next => state[cpu.prev] = 1 /\ Waiting(cpu.next)

\* A task that could not be given a stack leaves no page for the shell either.
AliveInv ==
  \/ \A t \in 1 .. task_count - 1 : state[t] # 0
  \/ cpu.pc = "boot" /\ free = 0
  \/ cpu.pc = "halt"

SchedInv ==
  /\ TypeOK
  /\ sp.d <= Len(stack[sp.t])
  /\ PlaceInv
  /\ RunInv
  /\ AliveInv
  /\ \A t \in Tasks : state[t] = 1 /\ ~ (cpu.pc = "ctx" /\ t = cpu.prev) => Waiting(t)

--------------------------------------------------------------------------------
(* Records, frames and stacks. *)

Kinds == {"irq", "call", "ctx", "start"}
Frames == [kind : Kinds, cpu : Cpus]

\* Task 0, the shell, is a task.
LEMMA ZeroIsTask == 0 \in Tasks
BY SchedAssumption DEF Tasks

\* Moving on in the code changes the position alone.
LEMMA CpuRecord ==
  ASSUME NEW c \in Cpus, NEW q \in Positions
  PROVE  /\ [c EXCEPT !.pc = q] \in Cpus
         /\ [c EXCEPT !.pc = q].pc = q
         /\ [c EXCEPT !.pc = q].prev = c.prev /\ [c EXCEPT !.pc = q].next = c.next
BY DEF Cpus

\* Moving on with interrupts off.
LEMMA CpuOff ==
  ASSUME NEW c \in Cpus, NEW q \in Positions, NEW r, r = [c EXCEPT !.pc = q, !.if = FALSE]
  PROVE  r \in Cpus /\ r.pc = q /\ ~ r.if
BY DEF Cpus

\* The halted CPU.
LEMMA CpuHalt ==
  ASSUME NEW c \in Cpus, ~ c.if, NEW r, r = [c EXCEPT !.pc = "halt"]
  PROVE  r \in Cpus /\ r.pc = "halt" /\ ~ r.if
BY DEF Cpus, Positions

\* Restoring the interrupt flag alone.
LEMMA CpuIf ==
  ASSUME NEW c \in Cpus, NEW d \in Cpus, NEW r, r = [c EXCEPT !.if = d.if]
  PROVE  r \in Cpus /\ r.pc = c.pc
BY DEF Cpus

\* A frame pushed holds what was pushed.
LEMMA FrameRecord ==
  ASSUME NEW k \in Kinds, NEW c \in Cpus
  PROVE  Frame(k, c) \in Frames /\ Frame(k, c).kind = k /\ Frame(k, c).cpu = c
BY DEF Frame, Frames

\* A push leaves what is below it, and the other stacks, as they were.
Pushed(s, p, f) ==
  /\ s \in [Tasks -> Seq(Frames)]
  /\ Len(s[p.t]) = p.d + 1 /\ s[p.t][p.d + 1] = f
  /\ \A i \in 1 .. p.d : s[p.t][i] = stack[p.t][i]
  /\ \A u \in Tasks : u # p.t => s[u] = stack[u]

\* Pushing a frame leaves the frames below and the other stacks as they are.
LEMMA PushEffect ==
  ASSUME stack \in [Tasks -> Seq(Frames)], NEW p \in StackPointers,
         p.d <= Len(stack[p.t]), NEW f \in Frames
  PROVE  Pushed(Push(stack, p, f), p, f)
<1>1. p.t \in Tasks /\ p.d \in Nat
  BY DEF StackPointers
<1> DEFINE s == Push(stack, p, f)
           old == stack[p.t]
           low == SubSeq(old, 1, p.d)
<1>2. old \in Seq(Frames) /\ p.d <= Len(old)
  BY <1>1
<1>3. low \in Seq(Frames) /\ Len(low) = p.d /\ \A i \in 1 .. p.d : low[i] = old[i]
  BY <1>1, <1>2
<1>4. s = [stack EXCEPT ![p.t] = Append(low, f)]
  BY DEF Push
<1> HIDE DEF low, s
<1>5. /\ Append(low, f) \in Seq(Frames) /\ Len(Append(low, f)) = p.d + 1
      /\ Append(low, f)[p.d + 1] = f /\ \A i \in 1 .. p.d : Append(low, f)[i] = low[i]
  BY <1>1, <1>3
<1>6. s[p.t] = Append(low, f) /\ \A u \in Tasks : u # p.t => s[u] = stack[u]
  BY <1>1, <1>4
<1>7. s \in [Tasks -> Seq(Frames)]
  BY <1>1, <1>4, <1>5
<1>8. Pushed(s, p, f)
  BY <1>3, <1>5, <1>6, <1>7 DEF Pushed
<1> QED
  BY <1>8 DEF s

\* The types the step lemmas use.
LEMMA InvTypes ==
  ASSUME SchedInv
  PROVE  /\ stack \in [Tasks -> Seq(Frames)] /\ cpu \in Cpus /\ cpu.pc \in Positions
         /\ sp \in StackPointers /\ sp.t \in Tasks /\ sp.d \in Nat /\ sp.d <= Len(stack[sp.t])
         /\ tick \in 0 .. Quantum - 1
BY DEF SchedInv, TypeOK, StackPointers, Frames, Kinds, Cpus

\* What lies on a stack is a frame.
LEMMA FrameOn ==
  ASSUME stack \in [Tasks -> Seq(Frames)], NEW t \in Tasks, NEW d \in 1 .. Len(stack[t])
  PROVE  stack[t][d] \in Frames /\ stack[t][d].cpu \in Cpus
<1>1. stack[t] \in Seq(Frames)
  OBVIOUS
<1>2. stack[t][d] \in Frames
  BY <1>1
<1> QED
  BY <1>2 DEF Frames

\* A waiting task whose stack and esp are untouched still waits.
LEMMA WaitingKept ==
  ASSUME NEW t \in Tasks, Waiting(t), stack'[t] = stack[t], esp'[t] = esp[t]
  PROVE  Waiting(t)'
BY DEF Waiting, SwitchFrame, InSyscall

--------------------------------------------------------------------------------
(* Steps of the running task that stay on its stack. *)

\* A step of the running task on its own stack keeps the invariant if the new place
\* is one the shapes allow.
LEMMA SameTask ==
  ASSUME SchedInv, cpu.pc \notin {"ctx", "boot", "halt"},
         UNCHANGED <<task_count, current_task_id, state, stack_base, esp, created, free>>,
         tick' \in 0 .. Quantum - 1,
         stack' \in [Tasks -> Seq(Frames)],
         \A t \in Tasks : t # sp.t => stack'[t] = stack[t],
         sp' \in StackPointers, sp'.t = sp.t, sp'.d <= Len(stack'[sp'.t]),
         cpu' \in Cpus, cpu'.pc \notin {"set", "ctx"},
         PlaceInv'
  PROVE  SchedInv'
<1>1. TypeOK'
  BY DEF SchedInv, TypeOK, Frames, Kinds
<1>2. RunInv'
  BY DEF SchedInv, RunInv
<1>3. AliveInv'
  BY DEF SchedInv, AliveInv
<1>4. ASSUME NEW t \in Tasks, state'[t] = 1 PROVE Waiting(t)'
  <2>1. t # sp.t
    BY <1>4 DEF SchedInv, RunInv
  <2>2. Waiting(t)
    BY <1>4 DEF SchedInv
  <2> QED
    BY <2>1, <2>2, WaitingKept
<1> QED
  BY <1>1, <1>2, <1>3, <1>4 DEF SchedInv

\* task_switch is entered from a task's code or from a system call, by a call or
\* by IRQ0.
LEMMA SwitchEntered ==
  ASSUME SchedInv, cpu.pc \in {"run", "sys"},
         NEW kind \in {"irq", "call"}, NEW saved \in Cpus, saved.pc = cpu.pc,
         stack' = Push(stack, sp, Frame(kind, saved)), sp' = At(sp.t, sp.d + 1),
         cpu' \in Cpus, cpu'.pc = "pick", tick' \in 0 .. Quantum - 1,
         UNCHANGED <<task_count, current_task_id, state, stack_base, esp, created, free>>
  PROVE  SchedInv'
<1>1. /\ stack \in [Tasks -> Seq(Frames)] /\ sp \in StackPointers /\ sp.d <= Len(stack[sp.t])
      /\ sp.t \in Tasks /\ sp.d \in Nat
  BY DEF SchedInv, TypeOK, StackPointers, Frames, Kinds
<1> DEFINE f == Frame(kind, saved)
<1>2. f \in Frames /\ f.kind = kind /\ f.cpu = saved /\ stack' = Push(stack, sp, f)
  BY FrameRecord DEF Kinds
<1>b. f.kind \in {"irq", "call"} /\ f.cpu.pc = cpu.pc
  BY <1>2
<1> HIDE DEF f
<1> DEFINE s == Push(stack, sp, f)
<1>a. Pushed(s, sp, f) /\ stack' = s
  BY <1>1, <1>2, PushEffect
<1> HIDE DEF s
<1>3. /\ stack' \in [Tasks -> Seq(Frames)]
      /\ Len(stack'[sp.t]) = sp.d + 1 /\ stack'[sp.t][sp.d + 1] = f
      /\ \A i \in 1 .. sp.d : stack'[sp.t][i] = stack[sp.t][i]
      /\ \A u \in Tasks : u # sp.t => stack'[u] = stack[u]
  BY <1>a DEF Pushed
<1>4. sp' \in StackPointers /\ sp'.t = sp.t /\ sp'.d = sp.d + 1
  BY <1>1 DEF At, StackPointers
<1>5. SwitchFrame(sp.t, sp.d)'
  <2>1. CASE cpu.pc = "run"
    <3>1. sp.d = 0
      BY <2>1 DEF SchedInv, PlaceInv
    <3>2. sp'.d = 1 /\ Len(stack'[sp'.t]) = 1 /\ stack'[sp'.t][1] = f
      BY <1>3, <1>4, <3>1
    <3>3. stack'[sp'.t][sp'.d].kind \in {"irq", "call"} /\ stack'[sp'.t][sp'.d].cpu.pc = "run"
      BY ONLY <1>b, <2>1, <3>2
    <3> QED
      BY ONLY <3>2, <3>3 DEF SwitchFrame
  <2>2. CASE cpu.pc = "sys"
    <3>1. sp.t = 0 /\ sp.d = 1 /\ InSyscall
      BY <2>2 DEF SchedInv, PlaceInv, At
    <3>2. sp'.d = 2 /\ sp'.t = 0 /\ Len(stack'[0]) = 2 /\ stack'[0][2] = f
          /\ stack'[0][1] = stack[0][1]
      BY <1>3, <1>4, <3>1
    <3>3. InSyscall'
      BY <3>1, <3>2 DEF InSyscall
    <3>4. stack'[0][2].kind \in {"irq", "call"} /\ stack'[0][2].cpu.pc = "sys"
      BY ONLY <1>b, <2>2, <3>2
    <3> QED
      BY ONLY <3>2, <3>3, <3>4 DEF SwitchFrame
  <2> QED BY <2>1, <2>2
<1>6. PlaceInv'
  BY <1>4, <1>5 DEF PlaceInv
<1> QED
  BY <1>1, <1>3, <1>4, <1>6, SameTask

\* Entering the kernel pushes on the stack the CPU is on: the shell's stack pointer
\* is at the top when it is in ring 3, as the TSS says.
LEMMA EnterEffect ==
  ASSUME SchedInv, cpu.pc \in {"run", "sys"}, NEW kind, NEW saved, NEW pc \in Positions,
         Enter(kind, saved, pc)
  PROVE  /\ stack' = Push(stack, sp, Frame(kind, saved)) /\ sp' = At(sp.t, sp.d + 1)
         /\ cpu' \in Cpus /\ cpu'.pc = pc /\ ~ cpu'.if
<1>1. InRing3 => sp = At(0, 0)
  BY DEF SchedInv, TypeOK, PlaceInv, InRing3, At, StackPointers
<1>2. stack' = Push(stack, sp, Frame(kind, saved)) /\ sp' = At(sp.t, sp.d + 1)
  BY <1>1 DEF Enter
<1>3. cpu' = [cpu EXCEPT !.pc = pc, !.if = FALSE] /\ cpu \in Cpus
  BY DEF Enter, SchedInv, TypeOK
<1> QED
  BY <1>2, <1>3, CpuOff

\* A step that stays where it is keeps the shape of the stack.
LEMMA PlaceKept ==
  ASSUME SchedInv, UNCHANGED <<stack, sp>>, cpu' \in Cpus, cpu'.pc = cpu.pc,
         cpu.pc \in {"run", "sys"}
  PROVE  PlaceInv'
BY DEF SchedInv, PlaceInv, InSyscall

\* The timer interrupt pushes its frame and counts the tick.
LEMMA IRQ0Step ==
  ASSUME SchedInv, cpu.pc \in {"run", "sys"}, NEW saved \in Cpus, saved.pc = cpu.pc, IRQ0(saved)
  PROVE  SchedInv'
<1>1. /\ tick' \in 0 .. Quantum - 1
      /\ UNCHANGED <<task_count, current_task_id, state, stack_base, esp, created, free>>
  BY SchedAssumption DEF IRQ0, SchedInv, TypeOK
<1>2. CASE tick' = 0
  <2>1. Enter("irq", saved, "pick")
    BY <1>2 DEF IRQ0
  <2>2. /\ stack' = Push(stack, sp, Frame("irq", saved)) /\ sp' = At(sp.t, sp.d + 1)
        /\ cpu' \in Cpus /\ cpu'.pc = "pick"
    BY <2>1, EnterEffect DEF Positions
  <2> QED
    BY <1>1, <2>2, SwitchEntered
<1>3. CASE tick' # 0
  <2>1. cpu' = saved /\ UNCHANGED <<stack, sp>>
    BY <1>3 DEF IRQ0
  <2>2. PlaceInv'
    BY <2>1, PlaceKept
  <2> QED
    BY <1>1, <2>1, <2>2, SameTask DEF SchedInv, TypeOK, Frames, Kinds
<1> QED
  BY <1>2, <1>3

\* A tick delivered while interrupts are on.
LEMMA TimerStep ==
  ASSUME ~ WindowHit, SchedInv, Timer
  PROVE  SchedInv'
<1>1. cpu \in Cpus /\ cpu.pc \in Positions
  BY DEF SchedInv, TypeOK, Cpus
<1>2. cpu.pc \in {"run", "sys"}
  BY <1>1 DEF Timer, InSwitch, SchedInv, PlaceInv, Positions
<1> QED
  BY <1>1, <1>2, IRQ0Step DEF Timer

\* A tick in the sti; nop; cli window of llm.c.
LEMMA LlmWindowStep ==
  ASSUME SchedInv, LlmWindow
  PROVE  SchedInv'
<1> DEFINE after == [cpu EXCEPT !.if = FALSE]
<1>1. cpu \in Cpus /\ cpu.pc \in {"run", "sys"}
  BY DEF SchedInv, TypeOK, LlmWindow, InKernelCode
<1>2. after \in Cpus /\ after.pc = cpu.pc
  BY <1>1 DEF Cpus
<1> HIDE DEF after
<1>3. \/ IRQ0(after)
      \/ /\ cpu' = after
         /\ UNCHANGED <<task_count, current_task_id, state, stack_base, esp, stack, sp,
                        tick, created, free>>
  BY DEF LlmWindow, after
<1>4. CASE cpu' = after /\ UNCHANGED <<task_count, current_task_id, state, stack_base, esp,
                                         stack, sp, tick, created, free>>
  <2>1. PlaceInv'
    BY <1>1, <1>2, <1>4, PlaceKept
  <2> QED
    BY <1>1, <1>2, <1>4, <2>1, SameTask DEF SchedInv, TypeOK, Frames, Kinds
<1> QED
  BY <1>1, <1>2, <1>3, <1>4, IRQ0Step

\* A voluntary task_switch, of the shell in a system call or of the network task.
LEMMA YieldStep ==
  ASSUME SchedInv, SysYield \/ TaskYield
  PROVE  SchedInv'
<1>1. cpu \in Cpus /\ cpu.pc \in {"run", "sys"} /\ tick \in 0 .. Quantum - 1
  BY DEF SchedInv, TypeOK, SysYield, TaskYield
<1>2. /\ stack' = Push(stack, sp, Frame("call", cpu)) /\ sp' = At(sp.t, sp.d + 1)
      /\ cpu' = [cpu EXCEPT !.pc = "pick"]
      /\ UNCHANGED <<task_count, current_task_id, state, stack_base, esp, tick, created, free>>
  BY DEF SysYield, TaskYield, CallSwitch
<1>3. cpu' \in Cpus /\ cpu'.pc = "pick"
  BY <1>1, <1>2, CpuRecord DEF Positions
<1> QED
  BY <1>1, <1>2, <1>3, SwitchEntered

\* int 0x80 and a fault push the first frame of the shell's kernel stack.
LEMMA RingEntryStep ==
  ASSUME SchedInv, Syscall \/ UserFault
  PROVE  SchedInv'
<1>1. /\ cpu \in Cpus /\ cpu.pc = "run" /\ sp.t = 0 /\ sp.d = 0 /\ tick \in 0 .. Quantum - 1
      /\ stack \in [Tasks -> Seq(Frames)] /\ sp \in StackPointers /\ sp.d <= Len(stack[sp.t])
  BY DEF SchedInv, TypeOK, PlaceInv, Syscall, UserFault, InRing3, Frames, Kinds
<1>2. /\ Enter("irq", cpu, "sys") \/ Enter("irq", cpu, "kill")
      /\ UNCHANGED <<task_count, current_task_id, state, stack_base, esp, tick, created, free>>
  BY DEF Syscall, UserFault
<1> DEFINE f == Frame("irq", cpu)
           s == Push(stack, sp, f)
<1>3. /\ stack' = s /\ sp' = At(0, 1)
      /\ cpu' \in Cpus /\ cpu'.pc \in {"sys", "kill"} /\ ~ cpu'.if
  BY <1>1, <1>2, EnterEffect DEF Positions
<1>4. f \in Frames /\ f.kind = "irq" /\ f.cpu = cpu
  BY <1>1, FrameRecord DEF Kinds
<1> HIDE DEF f
<1>5. Pushed(s, sp, f)
  BY <1>1, <1>4, PushEffect
<1> HIDE DEF s
<1>6. /\ stack' \in [Tasks -> Seq(Frames)]
      /\ Len(stack'[0]) = 1 /\ stack'[0][1] = f
      /\ \A u \in Tasks : u # sp.t => stack'[u] = stack[u]
  BY <1>1, <1>3, <1>5 DEF Pushed
<1>7. InSyscall'
  BY <1>1, <1>4, <1>6 DEF InSyscall
<1>8. sp' \in StackPointers /\ sp'.t = 0 /\ sp'.d = 1
  BY <1>3, ZeroIsTask DEF At, StackPointers
<1>9. PlaceInv'
  BY <1>3, <1>7, <1>8 DEF PlaceInv
<1> QED
  BY <1>1, <1>2, <1>3, <1>6, <1>8, <1>9, SameTask

\* The iret of a system call.
LEMMA SysReturnStep ==
  ASSUME SchedInv, SysReturn
  PROVE  SchedInv'
<1>1. /\ cpu.pc = "sys" /\ sp.t = 0 /\ sp.d = 1 /\ InSyscall
  <2>1. cpu.pc = "sys"
    BY DEF SysReturn
  <2>2. sp = At(0, 1) /\ InSyscall
    BY <2>1 DEF SchedInv, PlaceInv
  <2> QED
    BY <2>1, <2>2 DEF At
<1>2. /\ cpu' = stack[0][1].cpu /\ sp' = At(0, 0)
      /\ UNCHANGED <<task_count, current_task_id, state, stack_base, esp, stack, tick,
                     created, free>>
  BY <1>1 DEF SysReturn
<1>3. stack[0][1].cpu \in Cpus
  <2>1. 1 \in 1 .. Len(stack[0])
    BY <1>1, InvTypes, ZeroIsTask DEF InSyscall
  <2> QED
    BY <2>1, InvTypes, ZeroIsTask, FrameOn
<1>4. cpu' \in Cpus /\ cpu'.pc = "run"
  BY <1>1, <1>2, <1>3 DEF InSyscall
<1>5. sp' \in StackPointers /\ sp'.t = 0 /\ sp'.d = 0
  BY <1>2, ZeroIsTask DEF At, StackPointers
<1>6. PlaceInv'
  BY <1>4, <1>5 DEF PlaceInv
<1>7. sp'.d <= Len(stack'[sp'.t])
  BY <1>2, <1>5, ZeroIsTask, InvTypes
<1> QED
  BY <1>1, <1>2, <1>4, <1>5, <1>6, <1>7, InvTypes, SameTask

\* The return from task_switch to whoever called it.
LEMMA ReturnStep ==
  ASSUME SchedInv, Return
  PROVE  SchedInv'
<1> DEFINE f == stack[sp.t][sp.d]
<1>1. /\ cpu.pc = "ret" /\ cpu \in Cpus /\ SwitchFrame(sp.t, sp.d)
      /\ stack \in [Tasks -> Seq(Frames)] /\ tick \in 0 .. Quantum - 1
      /\ sp.t \in Tasks /\ sp.d \in Nat /\ sp.d <= Len(stack[sp.t])
  BY InvTypes DEF SchedInv, PlaceInv, Return
<1>2. f.cpu \in Cpus
  BY <1>1, FrameOn DEF SwitchFrame
<1>3. /\ cpu' = f.cpu \/ cpu' = [f.cpu EXCEPT !.if = cpu.if]
      /\ sp' = At(sp.t, sp.d - 1)
      /\ UNCHANGED <<task_count, current_task_id, state, stack_base, esp, stack, tick,
                     created, free>>
  BY DEF Return
<1>4. cpu' \in Cpus /\ cpu'.pc = f.cpu.pc
  BY <1>1, <1>2, <1>3, CpuIf
<1>a. sp.d - 1 \in Nat
  BY <1>1 DEF SwitchFrame
<1>5. sp' \in StackPointers /\ sp'.t = sp.t /\ sp'.d = sp.d - 1
  BY <1>1, <1>3, <1>a DEF At, StackPointers
<1>6. PlaceInv'
  <2>1. CASE sp.d = 1
    BY <1>1, <1>4, <1>5, <2>1 DEF SwitchFrame, PlaceInv
  <2>2. CASE sp.d = 2
    <3>1. sp.t = 0 /\ InSyscall /\ cpu'.pc = "sys"
      BY <1>1, <1>4, <2>2 DEF SwitchFrame
    <3>2. sp' = At(0, 1) /\ InSyscall'
      BY <1>3, <2>2, <3>1 DEF InSyscall
    <3> QED
      BY <3>1, <3>2 DEF PlaceInv
  <2> QED BY <1>1, <2>1, <2>2 DEF SwitchFrame
<1>7. sp'.d <= Len(stack'[sp'.t])
  BY <1>1, <1>3, <1>5
<1>8. cpu'.pc \in {"run", "sys"}
  BY <1>1, <1>4 DEF SwitchFrame
<1> QED
  BY <1>1, <1>3, <1>4, <1>5, <1>6, <1>7, <1>8, SameTask

--------------------------------------------------------------------------------
(* task_switch. *)

\* A nonempty set of numbers has a least member, and Min is it.
LEMMA MinOfNat ==
  ASSUME NEW S, S \subseteq Nat, S # {}
  PROVE  Min(S) \in S /\ \A x \in S : Min(S) <= x
<1> DEFINE R == OpToRel(<, Nat)
<1>1. IsWellFoundedOn(R, Nat)
  BY NatLessThanWellFounded
<1>2. \A x, y \in Nat : y < x => <<y, x>> \in R
  BY Zenon DEF OpToRel
<1> HIDE DEF R
<1>3. PICK m \in S : \A y \in S : ~ (<<y, m>> \in R)
  BY <1>1, WFMin
<1>4. ASSUME NEW y \in S PROVE m <= y
  <2>1. y \in Nat /\ m \in Nat
    OBVIOUS
  <2>2. ~ (y < m)
    BY <1>2, <1>3, <2>1, Zenon
  <2> QED
    BY <2>1, <2>2
<1> QED
  BY <1>4 DEF Min

\* The slot after slot 0.
LEMMA ModOne == \A n \in Nat : n > 1 => (0 + 1) % n = 1
OBVIOUS

\* A remainder is below the divisor.
LEMMA ModRange == \A a \in Nat, n \in Nat \ {0} : a % n \in 0 .. n - 1
OBVIOUS

\* The search finds a task that is alive, and not itself when the next one is.
LEMMA NextAliveFinds ==
  ASSUME SchedInv, NextAlive(current_task_id) # NoTask
  PROVE  /\ NextAlive(current_task_id) \in 0 .. task_count - 1
         /\ NextAlive(current_task_id) \in Tasks
         /\ state[NextAlive(current_task_id)] # 0
         /\ current_task_id = 0 /\ task_count > 1 /\ state[1] # 0 =>
              NextAlive(current_task_id) # 0
<1> DEFINE id == current_task_id
           ks == { k \in 1 .. task_count : state[(id + k) % task_count] # 0 }
<1>1. task_count \in 1 .. MAX_TASKS /\ id \in 0 .. task_count - 1 /\ MAX_TASKS \in Nat
  BY SchedAssumption DEF SchedInv, TypeOK
<1>2. ks # {} /\ NextAlive(id) = (id + Min(ks)) % task_count
  BY DEF NextAlive
<1>3. ks \subseteq Nat
  BY <1>1
<1>4. Min(ks) \in ks /\ \A x \in ks : Min(ks) <= x
  BY <1>2, <1>3, MinOfNat
<1> DEFINE m == Min(ks)
<1>5. m \in 1 .. task_count /\ state[(id + m) % task_count] # 0
  BY <1>4
<1>6. id = 0 /\ task_count > 1 /\ state[1] # 0 => m = 1
  <2> SUFFICES ASSUME id = 0, task_count > 1, state[1] # 0 PROVE m = 1
    OBVIOUS
  <2>1. (id + 1) % task_count = 1
    BY <1>1, ModOne
  <2>2. 1 \in ks
    BY <1>1, <2>1
  <2>3. m <= 1
    BY <1>4, <2>2
  <2> HIDE DEF m
  <2> QED
    BY <1>1, <1>5, <2>3
<1>7. NextAlive(id) = (id + m) % task_count
  BY <1>2
<1> HIDE DEF m, ks
<1>8. (id + m) % task_count \in 0 .. task_count - 1
  BY <1>1, <1>5, ModRange
<1>9. id = 0 /\ task_count > 1 /\ state[1] # 0 => (id + m) % task_count # 0
  BY <1>1, <1>6, ModOne
<1>10. 0 .. task_count - 1 \subseteq Tasks
  BY <1>1 DEF Tasks
<1> QED
  BY <1>5, <1>7, <1>8, <1>9, <1>10

\* task_switch looks for the next ready task, round robin.
LEMMA PickStep ==
  ASSUME SchedInv, Pick
  PROVE  SchedInv'
<1> DEFINE next == NextAlive(current_task_id)
<1>1. /\ cpu.pc = "pick" /\ SwitchFrame(sp.t, sp.d)
      /\ UNCHANGED <<task_count, current_task_id, state, stack_base, esp, stack, sp,
                     tick, created, free>>
  BY DEF Pick, SchedInv, PlaceInv
<1>2. SwitchFrame(sp.t, sp.d)'
  BY <1>1 DEF SwitchFrame, InSyscall
<1>3. CASE cpu' = [cpu EXCEPT !.pc = "ret"]
  <2>1. cpu' \in Cpus /\ cpu'.pc = "ret"
    BY <1>3, CpuRecord, InvTypes DEF Positions
  <2>2. PlaceInv'
    BY <1>2, <2>1 DEF PlaceInv
  <2> QED
    BY <1>1, <2>1, <2>2, InvTypes, SameTask
<1>4. CASE next # NoTask /\ cpu' = [cpu EXCEPT !.pc = "set", !.prev = current_task_id, !.next = next]
  <2>1. next \in 0 .. task_count - 1 /\ next \in Tasks /\ state[next] # 0 /\ current_task_id \in Tasks
    <3>1. current_task_id \in Tasks
      BY SchedAssumption DEF SchedInv, TypeOK, Tasks
    <3> QED BY <1>4, <3>1, NextAliveFinds
  <2> HIDE DEF next
  <2>2. /\ cpu' \in Cpus /\ cpu'.pc = "set" /\ cpu'.prev = current_task_id /\ cpu'.next = next
    BY <1>4, <2>1, InvTypes DEF Cpus, Positions
  <2>3. TypeOK'
    BY <1>1, <2>2 DEF SchedInv, TypeOK
  <2>4. PlaceInv'
    BY <1>2, <2>2 DEF PlaceInv
  <2>5. RunInv'
    BY <1>1, <2>1, <2>2 DEF SchedInv, RunInv
  <2>6. AliveInv'
    BY <1>1 DEF SchedInv, AliveInv
  <2>7. ASSUME NEW t \in Tasks, state'[t] = 1 PROVE Waiting(t)'
    BY <1>1, <2>7, WaitingKept DEF SchedInv
  <2>8. sp'.d <= Len(stack'[sp'.t])
    BY <1>1, InvTypes
  <2> QED
    BY <2>3, <2>4, <2>5, <2>6, <2>7, <2>8 DEF SchedInv
<1> QED
  BY <1>3, <1>4 DEF Pick

\* task_switch makes it the current task.
LEMMA SetCurrentStep ==
  ASSUME SchedInv, SetCurrent
  PROVE  SchedInv'
<1>1. /\ cpu.pc = "set" /\ SwitchFrame(sp.t, sp.d) /\ sp.t = current_task_id
      /\ cpu.prev = current_task_id /\ cpu.next \in 0 .. task_count - 1 /\ state[cpu.next] # 0
  BY DEF SetCurrent, SchedInv, PlaceInv, RunInv
<1>2. /\ current_task_id' = cpu.next
      /\ state' = [[state EXCEPT ![cpu.prev] = 1] EXCEPT ![cpu.next] = 2]
      /\ cpu' = [cpu EXCEPT !.pc = "ctx"]
      /\ UNCHANGED <<task_count, stack_base, esp, stack, sp, tick, created, free>>
  BY DEF SetCurrent
<1>3. /\ cpu' \in Cpus /\ cpu'.pc = "ctx" /\ cpu'.prev = cpu.prev /\ cpu'.next = cpu.next
      /\ cpu.prev \in Tasks /\ cpu.next \in Tasks
  BY <1>2, CpuRecord, InvTypes DEF Positions, Cpus
<1>4. /\ state \in [Tasks -> 0 .. 2] /\ state' \in [Tasks -> 0 .. 2]
      /\ \A t \in Tasks : state'[t] = IF t = cpu.next THEN 2 ELSE IF t = cpu.prev THEN 1 ELSE state[t]
  <2>1. state \in [Tasks -> 0 .. 2]
    BY DEF SchedInv, TypeOK
  <2> QED
    BY <1>2, <1>3, <2>1
<1>5. TypeOK'
  BY <1>1, <1>2, <1>3, <1>4 DEF SchedInv, TypeOK
<1>6. PlaceInv'
  <2>1. SwitchFrame(sp.t, sp.d)'
    BY <1>1, <1>2 DEF SwitchFrame, InSyscall
  <2> QED
    BY <1>3, <2>1 DEF PlaceInv
<1>7. RunInv'
  <2>1. ASSUME cpu.prev # cpu.next PROVE Waiting(cpu.next) /\ Waiting(cpu.next)'
    <3>1. state[cpu.next] = 1
      BY <1>1, <1>3, <1>4, <2>1 DEF SchedInv, RunInv
    <3>2. Waiting(cpu.next)
      BY <1>1, <1>3, <3>1 DEF SchedInv
    <3>3. \A t \in Tasks : Waiting(t) => (stack'[t] = stack[t] /\ esp'[t] = esp[t])
      BY <1>2
    <3>4. ASSUME NEW t \in Tasks, t = cpu.next PROVE Waiting(t)'
      BY <3>2, <3>3, <3>4, WaitingKept
    <3> QED
      BY <1>3, <3>2, <3>4 DEF Waiting, SwitchFrame, InSyscall
  <2> QED
    BY <1>1, <1>2, <1>3, <1>4, <2>1 DEF SchedInv, RunInv
<1>8. AliveInv'
  <2>1. \A t \in 1 .. task_count - 1 : t \in Tasks /\ state[t] # 0
    BY <1>1, SchedAssumption DEF SchedInv, TypeOK, AliveInv, Tasks
  <2> QED
    BY <1>2, <1>4, <2>1 DEF AliveInv
<1>9. ASSUME NEW t \in Tasks, state'[t] = 1, t # cpu'.prev PROVE Waiting(t)'
  <2>1. state[t] = 1
    BY <1>3, <1>4, <1>9
  <2>2. Waiting(t)
    BY <1>1, <2>1 DEF SchedInv
  <2> QED
    BY <1>2, <2>2, WaitingKept
<1>10. sp'.d <= Len(stack'[sp'.t])
  BY <1>2, InvTypes
<1> QED
  BY <1>3, <1>5, <1>6, <1>7, <1>8, <1>9, <1>10 DEF SchedInv

\* switch_context away from the task the CPU is on, to another one that waits.
LEMMA ResumeOther ==
  ASSUME SchedInv, NEW to \in Tasks, to # sp.t, Waiting(to), NEW ret \in Positions,
         SwitchContext(sp.t, to, ret)
  PROVE  /\ \E c \in Cpus : c.pc = ret /\ Pushed(stack', sp, Frame("ctx", c))
         /\ esp' \in [Tasks -> StackPointers] /\ esp'[sp.t] = At(sp.t, sp.d + 1)
         /\ \A u \in Tasks : u # sp.t => esp'[u] = esp[u]
         /\ sp' \in StackPointers /\ sp'.t = to /\ sp'.d <= Len(stack'[to])
         /\ cpu' \in Cpus
         /\ \/ cpu'.pc = "run" /\ sp'.d = 0
            \/ cpu'.pc = "ret" /\ SwitchFrame(sp.t, sp.d)'
<1> DEFINE c == [cpu EXCEPT !.pc = ret]
           g == Frame("ctx", c)
           s == Push(stack, sp, g)
           e == [esp EXCEPT ![sp.t] = At(sp.t, sp.d + 1)]
<1>1. c \in Cpus /\ c.pc = ret
  BY InvTypes, CpuRecord
<1>2. g \in Frames
  BY <1>1, FrameRecord DEF Kinds
<1>3. Pushed(s, sp, g)
  <2> HIDE DEF g
  <2> QED BY <1>2, InvTypes, PushEffect
<1>4. /\ e \in [Tasks -> StackPointers] /\ e[sp.t] = At(sp.t, sp.d + 1)
      /\ \A u \in Tasks : u # sp.t => e[u] = esp[u]
  <2>1. esp \in [Tasks -> StackPointers] /\ sp.t \in Tasks
    BY InvTypes DEF SchedInv, TypeOK
  <2>2. At(sp.t, sp.d + 1) \in StackPointers
    BY InvTypes DEF At, StackPointers
  <2> QED BY <2>1, <2>2
<1> DEFINE p == esp[to]
           f == stack[to][p.d]
<1>5. s[to] = stack[to] /\ e[to] = p /\ p.t = to /\ p.d \in 1 .. Len(stack[to])
  <2> HIDE DEF s, g, e
  <2> QED BY <1>3, <1>4 DEF Pushed, Waiting
<1>6. f.kind \in {"ctx", "start"} /\ f.cpu \in Cpus
  BY <1>5, InvTypes, FrameOn DEF Waiting
<1>7. p.d \in DOMAIN s[p.t] /\ s[p.t][p.d] = f
  <2>1. stack[to] \in Seq(Frames)
    BY InvTypes
  <2>2. DOMAIN stack[to] = 1 .. Len(stack[to])
    BY <2>1
  <2> HIDE DEF s, e, p
  <2> QED BY <1>5, <2>2
<1>8. /\ stack' = s /\ esp' = e /\ sp' = At(p.t, p.d - 1)
      /\ cpu' = IF f.kind = "start" THEN f.cpu ELSE [f.cpu EXCEPT !.if = cpu.if]
  <2>1. e[to] = p /\ s[p.t][p.d] = f /\ p.d \in DOMAIN s[p.t] /\ f.kind \in {"ctx", "start"}
    BY <1>5, <1>6, <1>7
  <2>2. Saved(sp.t, to) = e
    BY DEF Saved
  <2>3. /\ stack' = s /\ esp' = Saved(sp.t, to)
        /\ IF Saved(sp.t, to)[to].d \in DOMAIN s[Saved(sp.t, to)[to].t]
              /\ s[Saved(sp.t, to)[to].t][Saved(sp.t, to)[to].d].kind \in {"ctx", "start"}
           THEN /\ sp' = At(Saved(sp.t, to)[to].t, Saved(sp.t, to)[to].d - 1)
                /\ cpu' = IF s[Saved(sp.t, to)[to].t][Saved(sp.t, to)[to].d].kind = "start"
                          THEN s[Saved(sp.t, to)[to].t][Saved(sp.t, to)[to].d].cpu
                          ELSE [s[Saved(sp.t, to)[to].t][Saved(sp.t, to)[to].d].cpu EXCEPT !.if = cpu.if]
           ELSE sp' = Saved(sp.t, to)[to] /\ cpu' = [cpu EXCEPT !.pc = "wild"]
    BY DEF SwitchContext
  <2> HIDE DEF s, e, p, f, c, g
  <2> QED BY <2>1, <2>2, <2>3
<1> HIDE DEF s, e, g, c
<1>9. /\ sp' \in StackPointers /\ sp'.t = to /\ sp'.d = p.d - 1 /\ sp'.d <= Len(stack'[to])
  <2>1. Len(stack[to]) \in Nat
    BY InvTypes
  <2> QED
    BY <1>5, <1>8, <2>1 DEF At, StackPointers
<1>10. cpu' \in Cpus /\ cpu'.pc = f.cpu.pc
  BY <1>6, <1>8, InvTypes, CpuIf
<1>11. \/ cpu'.pc = "run" /\ sp'.d = 0
       \/ cpu'.pc = "ret" /\ SwitchFrame(sp.t, sp.d)'
  <2>1. CASE p.d = 1 /\ stack[to][1].kind = "start" /\ stack[to][1].cpu.pc = "run"
    BY <1>9, <1>10, <2>1
  <2>2. CASE f.kind = "ctx" /\ f.cpu.pc = "ret" /\ SwitchFrame(to, p.d - 1)
    <3>1. stack'[to] = stack[to]
      BY <1>5, <1>8
    <3>2. SwitchFrame(sp.t, sp.d)'
      BY <1>9, <2>2, <3>1 DEF SwitchFrame, InSyscall
    <3> QED BY <1>10, <2>2, <3>2
  <2> QED BY <2>1, <2>2 DEF Waiting
<1>12. Pushed(stack', sp, Frame("ctx", c))
  BY <1>3, <1>8 DEF g
<1> QED
  BY <1>1, <1>4, <1>8, <1>9, <1>10, <1>11, <1>12

\* The frame task_switch returns through stays below the context pushed on it.
LEMMA SwitchFrameKept ==
  ASSUME SchedInv, NEW t, NEW d, t = sp.t, d = sp.d, SwitchFrame(t, d), NEW f,
         Pushed(stack', sp, f)
  PROVE  SwitchFrame(t, d)'
<1>1. t \in Tasks /\ d \in Nat /\ Len(stack'[t]) = d + 1
      /\ \A i \in 1 .. d : stack'[t][i] = stack[t][i]
  BY InvTypes DEF Pushed
<1>2. CASE d = 1
  BY <1>1, <1>2 DEF SwitchFrame
<1>3. CASE d = 2
  <2>1. stack'[t][1] = stack[t][1] /\ stack'[t][2] = stack[t][2] /\ Len(stack'[t]) = 3 /\ t = 0
    BY <1>1, <1>3 DEF SwitchFrame
  <2> QED
    BY <1>3, <2>1 DEF SwitchFrame, InSyscall
<1> QED
  BY <1>2, <1>3 DEF SwitchFrame

\* switch_context saves one task's context and takes up another's.
LEMMA SwitchOther ==
  ASSUME SchedInv, Switch, cpu.prev # cpu.next
  PROVE  SchedInv'
<1> DEFINE from == cpu.prev
           to == cpu.next
<1>1. /\ cpu.pc = "ctx" /\ SwitchFrame(sp.t, sp.d) /\ sp.t = from /\ to = current_task_id
      /\ state[to] = 2 /\ state[from] = 1 /\ Waiting(to)
  BY DEF Switch, SchedInv, PlaceInv, RunInv
<1>2. SwitchContext(sp.t, to, "ret")
      /\ UNCHANGED <<task_count, current_task_id, state, stack_base, tick, created, free>>
  BY <1>1 DEF Switch
<1>3. from \in Tasks /\ to \in Tasks /\ "ret" \in Positions
  BY InvTypes DEF Cpus, Positions
<1>4. /\ \E c \in Cpus : c.pc = "ret" /\ Pushed(stack', sp, Frame("ctx", c))
      /\ esp' \in [Tasks -> StackPointers] /\ esp'[from] = At(from, sp.d + 1)
      /\ \A u \in Tasks : u # from => esp'[u] = esp[u]
      /\ sp' \in StackPointers /\ sp'.t = to /\ sp'.d <= Len(stack'[to])
      /\ cpu' \in Cpus
      /\ \/ cpu'.pc = "run" /\ sp'.d = 0
         \/ cpu'.pc = "ret" /\ SwitchFrame(sp.t, sp.d)'
  BY <1>1, <1>2, <1>3, ResumeOther
<1> HIDE DEF from, to
<1>5. PICK c \in Cpus : c.pc = "ret" /\ Pushed(stack', sp, Frame("ctx", c))
  BY <1>4
<1>6. /\ stack' \in [Tasks -> Seq(Frames)]
      /\ \A u \in Tasks : u # from => stack'[u] = stack[u]
      /\ Len(stack'[from]) = sp.d + 1 /\ stack'[from][sp.d + 1] = Frame("ctx", c)
  BY <1>1, <1>5 DEF Pushed
<1>7. TypeOK'
  BY <1>2, <1>4, <1>6 DEF SchedInv, TypeOK, Frames, Kinds
<1>8. PlaceInv'
  BY <1>4 DEF PlaceInv
<1>9. RunInv'
  BY <1>1, <1>2, <1>4 DEF SchedInv, RunInv
<1>10. AliveInv'
  BY <1>1, <1>2 DEF SchedInv, AliveInv
<1>11. ASSUME NEW t \in Tasks, state'[t] = 1 PROVE Waiting(t)'
  <2>1. CASE t = from
    <3>1. Frame("ctx", c).kind = "ctx" /\ Frame("ctx", c).cpu.pc = "ret"
      BY <1>5 DEF Frame
    <3>2. PICK n \in Nat : n = sp.d
      BY InvTypes
    <3>3. SwitchFrame(t, n)'
      BY <1>1, <1>5, <2>1, <3>2, SwitchFrameKept
    <3>4. /\ esp'[t].t = t /\ esp'[t].d = n + 1 /\ n + 1 \in 1 .. Len(stack'[t])
          /\ stack'[t][n + 1].kind = "ctx" /\ stack'[t][n + 1].cpu.pc = "ret"
      <4>1. Len(stack'[t]) = n + 1 /\ stack'[t][n + 1] = Frame("ctx", c)
        BY ONLY <1>6, <2>1, <3>2
      <4>2. esp'[t].t = t /\ esp'[t].d = n + 1
        BY ONLY <1>4, <2>1, <3>2 DEF At
      <4> QED
        BY ONLY <3>1, <4>1, <4>2, n \in Nat
    <3>5. esp'[t].d - 1 = n
      BY <3>4
    <3> QED
      BY <3>3, <3>4, <3>5 DEF Waiting
  <2>2. CASE t # from
    <3>1. Waiting(t)
      BY <1>2, <1>11, <2>2 DEF SchedInv, from
    <3> QED
      BY <1>4, <1>6, <2>2, <3>1, WaitingKept
  <2> QED BY <2>1, <2>2
<1>12. sp'.d <= Len(stack'[sp'.t])
  BY <1>4
<1> QED
  BY <1>7, <1>8, <1>9, <1>10, <1>11, <1>12 DEF SchedInv

\* The search came back to the task itself: it saves its context and pops it.
LEMMA SwitchSelf ==
  ASSUME SchedInv, Switch, cpu.prev = cpu.next
  PROVE  SchedInv'
<1> DEFINE c == [cpu EXCEPT !.pc = "ret"]
           g == Frame("ctx", c)
           s == Push(stack, sp, g)
           p == At(sp.t, sp.d + 1)
           e == [esp EXCEPT ![sp.t] = p]
<1>1. cpu.pc = "ctx" /\ SwitchFrame(sp.t, sp.d) /\ sp.t = cpu.prev /\ sp.t = current_task_id
  BY DEF Switch, SchedInv, PlaceInv, RunInv
<1>2. c \in Cpus /\ c.pc = "ret"
  BY InvTypes, CpuRecord DEF Positions
<1>3. g \in Frames /\ g.kind = "ctx" /\ g.cpu = c
  <2> HIDE DEF c
  <2> QED BY <1>2, FrameRecord DEF Kinds
<1>4. Pushed(s, sp, g)
  <2> HIDE DEF g
  <2> QED BY <1>3, InvTypes, PushEffect
<1>5. /\ p.t = sp.t /\ p.d = sp.d + 1 /\ p \in StackPointers
  BY InvTypes DEF At, StackPointers
<1>6. /\ e \in [Tasks -> StackPointers] /\ e[sp.t] = p
      /\ \A u \in Tasks : u # sp.t => e[u] = esp[u]
  <2>1. esp \in [Tasks -> StackPointers] /\ sp.t \in Tasks
    BY InvTypes DEF SchedInv, TypeOK
  <2> HIDE DEF p
  <2> QED BY <1>5, <2>1
<1>7. p.d \in DOMAIN s[p.t] /\ s[p.t][p.d] = g
  <2> HIDE DEF s, g, p
  <2>1. s[sp.t] \in Seq(Frames) /\ Len(s[sp.t]) = sp.d + 1 /\ s[sp.t][sp.d + 1] = g
    BY <1>4, InvTypes DEF Pushed
  <2> QED BY <1>5, <2>1, InvTypes
<1>8. /\ stack' = s /\ esp' = e /\ sp' = At(p.t, p.d - 1)
      /\ cpu' = [g.cpu EXCEPT !.if = cpu.if]
      /\ UNCHANGED <<task_count, current_task_id, state, stack_base, tick, created, free>>
  <2>1. Saved(sp.t, sp.t) = e
    BY DEF Saved
  <2> DEFINE q == Saved(sp.t, sp.t)[sp.t]
  <2>2. q = p /\ g.kind = "ctx"
    BY <1>3, <1>6, <2>1
  <2>3. /\ stack' = s /\ esp' = Saved(sp.t, sp.t)
        /\ IF q.d \in DOMAIN s[q.t] /\ s[q.t][q.d].kind \in {"ctx", "start"}
           THEN /\ sp' = At(q.t, q.d - 1)
                /\ cpu' = IF s[q.t][q.d].kind = "start" THEN s[q.t][q.d].cpu
                          ELSE [s[q.t][q.d].cpu EXCEPT !.if = cpu.if]
           ELSE sp' = q /\ cpu' = [cpu EXCEPT !.pc = "wild"]
        /\ UNCHANGED <<task_count, current_task_id, state, stack_base, tick, created, free>>
    BY <1>1 DEF Switch, SwitchContext
  <2> HIDE DEF s, e, p, c, g, q
  <2> QED BY <1>7, <2>1, <2>2, <2>3
<1> HIDE DEF s, e, p, g, c
<1>9. cpu' \in Cpus /\ cpu'.pc = "ret"
  BY <1>2, <1>3, <1>8, InvTypes, CpuIf
<1>10. sp'.t = sp.t /\ sp'.d = sp.d /\ sp' \in StackPointers
  BY <1>5, <1>8, InvTypes DEF At, StackPointers
<1>11. Pushed(stack', sp, g)
  BY <1>4, <1>8
<1>12. SwitchFrame(sp.t, sp.d)'
  <2>1. PICK t, n : t = sp.t /\ n = sp.d
    OBVIOUS
  <2>2. SwitchFrame(t, n)'
    BY <1>1, <1>11, <2>1, SwitchFrameKept
  <2>3. t = sp'.t /\ n = sp'.d
    BY <1>10, <2>1
  <2> QED
    BY <2>2, <2>3 DEF SwitchFrame
<1>13. PlaceInv'
  BY <1>9, <1>12 DEF PlaceInv
<1>14. TypeOK' /\ sp'.d <= Len(stack'[sp'.t])
  <2>1. stack' \in [Tasks -> Seq(Frames)] /\ Len(stack'[sp.t]) = sp.d + 1
    BY <1>11 DEF Pushed
  <2>2. TypeOK'
    BY <1>6, <1>8, <1>9, <1>10, <2>1 DEF SchedInv, TypeOK, Frames, Kinds
  <2> QED
    BY <1>10, <2>1, <2>2, InvTypes
<1>15. RunInv'
  BY <1>1, <1>8, <1>9, <1>10 DEF SchedInv, RunInv
<1>16. AliveInv'
  BY <1>1, <1>8 DEF SchedInv, AliveInv
<1>17. ASSUME NEW t \in Tasks, state'[t] = 1 PROVE Waiting(t)'
  <2>1. t # sp.t /\ Waiting(t)
    BY <1>1, <1>8, <1>17 DEF SchedInv, RunInv
  <2> QED
    BY <1>6, <1>8, <1>11, <2>1, WaitingKept DEF Pushed
<1> QED
  BY <1>13, <1>14, <1>15, <1>16, <1>17 DEF SchedInv

\* The only task that is ever killed is the shell, and another one is ready.
LEMMA KillStep ==
  ASSUME SchedInv, task_kill_current
  PROVE  SchedInv'
<1> DEFINE next == NextAlive(current_task_id)
<1>1. /\ cpu.pc = "kill" /\ sp.t = 0 /\ current_task_id = 0 /\ ~ cpu.if /\ sp.d \in {0, 1}
      /\ state[0] = 2 /\ \A t \in 1 .. task_count - 1 : state[t] # 0
  BY DEF task_kill_current, SchedInv, PlaceInv, RunInv, AliveInv
<1>2. CASE task_count <= 1 \/ next = NoTask
  <2>1. /\ cpu' = [cpu EXCEPT !.pc = "halt"]
        /\ UNCHANGED <<current_task_id, state, stack_base, esp, stack, sp, free, task_count, tick, created>>
    BY <1>2 DEF task_kill_current
  <2>2. cpu' \in Cpus /\ cpu'.pc = "halt" /\ ~ cpu'.if
    BY <1>1, <2>1, InvTypes, CpuHalt
  <2>3. PlaceInv'
    BY <1>1, <2>1, <2>2 DEF PlaceInv
  <2> QED
    BY <1>1, <2>1, <2>2, <2>3, InvTypes, SameTask
<1>3. CASE ~ (task_count <= 1 \/ next = NoTask)
  <2>1. /\ current_task_id' = next
        /\ state' = [[state EXCEPT ![0] = 0] EXCEPT ![next] = 2]
        /\ free' = free + (IF stack_base[0] THEN 1 ELSE 0)
        /\ stack_base' = [stack_base EXCEPT ![0] = FALSE]
        /\ SwitchContext(sp.t, next, "returned")
        /\ UNCHANGED <<task_count, tick, created>>
    BY <1>1, <1>3 DEF task_kill_current
  <2>2. task_count \in 1 .. MAX_TASKS /\ state \in [Tasks -> 0 .. 2] /\ task_count > 1
    BY <1>3, SchedAssumption DEF SchedInv, TypeOK
  <2>3. state[1] # 0
    BY <1>1, <2>2, SchedAssumption
  <2>4. next \in 0 .. task_count - 1 /\ next \in Tasks /\ state[next] # 0 /\ next # 0
    BY <1>1, <1>3, <2>2, <2>3, NextAliveFinds
  <2> HIDE DEF next
  <2>5. state[next] = 1 /\ Waiting(next)
    BY <1>1, <2>2, <2>4 DEF SchedInv, RunInv
  <2>6. /\ \E c \in Cpus : c.pc = "returned" /\ Pushed(stack', sp, Frame("ctx", c))
        /\ esp' \in [Tasks -> StackPointers]
        /\ \A u \in Tasks : u # sp.t => esp'[u] = esp[u]
        /\ sp' \in StackPointers /\ sp'.t = next /\ sp'.d <= Len(stack'[next])
        /\ cpu' \in Cpus
        /\ \/ cpu'.pc = "run" /\ sp'.d = 0
           \/ cpu'.pc = "ret" /\ SwitchFrame(sp.t, sp.d)'
    BY <1>1, <2>1, <2>4, <2>5, ResumeOther DEF Positions
  <2>7. /\ stack' \in [Tasks -> Seq(Frames)]
        /\ \A u \in Tasks : u # 0 => stack'[u] = stack[u]
    BY <1>1, <2>6 DEF Pushed
  <2>8. /\ state' \in [Tasks -> 0 .. 2]
        /\ \A t \in Tasks : state'[t] = IF t = next THEN 2 ELSE IF t = 0 THEN 0 ELSE state[t]
    BY <2>1, <2>2, <2>4, ZeroIsTask
  <2>9. free' \in Nat /\ stack_base' \in [Tasks -> BOOLEAN]
    BY <2>1, ZeroIsTask DEF SchedInv, TypeOK
  <2>10. TypeOK'
    BY <2>1, <2>4, <2>6, <2>7, <2>8, <2>9 DEF SchedInv, TypeOK, Frames, Kinds
  <2>11. PlaceInv'
    BY <2>6 DEF PlaceInv
  <2>12. RunInv'
    <3>1. \A t \in Tasks : state[t] = 2 => t = 0
      BY <1>1 DEF SchedInv, RunInv
    <3>2. state'[next] = 2 /\ \A t \in Tasks : state'[t] = 2 => t = next
      BY ONLY <2>4, <2>8, <3>1
    <3>3. cpu'.pc \notin {"set", "ctx"} /\ sp'.t = next
      BY <2>6
    <3> QED
      BY ONLY <2>1, <3>2, <3>3 DEF RunInv
  <2>13. AliveInv'
    <3>1. \A t \in 1 .. task_count - 1 : t \in Tasks /\ t # 0
      BY <2>2, SchedAssumption DEF Tasks
    <3> QED
      BY <1>1, <2>1, <2>8, <3>1 DEF AliveInv
  <2>14. ASSUME NEW t \in Tasks, state'[t] = 1 PROVE Waiting(t)'
    <3>1. t # 0 /\ state[t] = 1 /\ t # next
      BY <2>8, <2>14
    <3>2. Waiting(t)
      BY <1>1, <3>1 DEF SchedInv
    <3> QED
      BY <1>1, <2>6, <2>7, <3>1, <3>2, WaitingKept
  <2> QED
    BY <2>6, <2>10, <2>11, <2>12, <2>13, <2>14 DEF SchedInv
<1> QED
  BY <1>2, <1>3

--------------------------------------------------------------------------------
(* Boot. *)

\* The boot starts as task 0, the only one.
LEMMA SchedInit == Init => SchedInv
<1> SUFFICES ASSUME Init PROVE SchedInv
  OBVIOUS
<1>1. /\ sp \in StackPointers /\ sp.t = 0 /\ sp.d = 0
      /\ esp \in [Tasks -> StackPointers]
  BY ZeroIsTask DEF Init, At, StackPointers
<1>2. cpu \in Cpus /\ cpu.pc = "boot" /\ ~ cpu.if
  BY ZeroIsTask DEF Init, Cpus, Positions
<1>3. stack \in [Tasks -> Seq([kind : {"irq", "call", "ctx", "start"}, cpu : Cpus])]
      /\ Len(stack[0]) = 0
  BY ZeroIsTask DEF Init
<1>4. state \in [Tasks -> 0 .. 2] /\ \A t \in Tasks : state[t] = IF t = 0 THEN 2 ELSE 0
  BY DEF Init
<1>5. TypeOK
  BY <1>1, <1>2, <1>3, <1>4, SchedAssumption DEF Init, TypeOK
<1>6. PlaceInv
  BY <1>1, <1>2 DEF PlaceInv
<1>7. RunInv
  BY <1>1, <1>2, <1>4, ZeroIsTask DEF Init, RunInv
<1>8. AliveInv
  BY DEF Init, AliveInv
<1> QED
  BY <1>1, <1>3, <1>4, <1>5, <1>6, <1>7, <1>8 DEF SchedInv

\* The slot task_create finds: none, that of a dead task, or a new one.
LEMMA SlotCases ==
  ASSUME SchedInv
  PROVE  \/ Slot = NoTask /\ \A t \in 1 .. task_count - 1 : state[t] # 0
         \/ Slot \in 1 .. task_count - 1 /\ state[Slot] = 0
         \/ Slot = task_count /\ task_count < MAX_TASKS
<1> DEFINE dead == { t \in 1 .. task_count - 1 : state[t] = 0 }
<1>1. task_count \in Nat
  BY DEF SchedInv, TypeOK
<1>2. CASE dead # {}
  <2>1. dead \subseteq Nat
    BY <1>1
  <2>2. Min(dead) \in dead
    BY <1>2, <2>1, MinOfNat
  <2> QED
    BY <1>2, <2>2 DEF Slot
<1>3. CASE dead = {}
  BY <1>3 DEF Slot
<1> QED BY <1>2, <1>3

\* task_create builds the first context on the new task's page, or fails without one.
LEMMA CreateStep ==
  ASSUME SchedInv, task_create
  PROVE  SchedInv'
<1> DEFINE slot == Slot
<1>1. /\ cpu.pc = "boot" /\ sp.t = 0 /\ sp.d = 0 /\ current_task_id = 0 /\ created < Created
      /\ UNCHANGED <<current_task_id, sp, cpu, tick>> /\ created' = created + 1
      /\ task_count' = IF slot = task_count THEN task_count + 1 ELSE task_count
  BY DEF task_create, SchedInv, PlaceInv, RunInv
<1>2. /\ task_count \in 1 .. MAX_TASKS /\ MAX_TASKS \in Nat /\ created \in 0 .. Created /\ Created \in Nat
      /\ state \in [Tasks -> 0 .. 2] /\ stack_base \in [Tasks -> BOOLEAN] /\ free \in Nat
      /\ esp \in [Tasks -> StackPointers]
  BY SchedAssumption DEF SchedInv, TypeOK
<1>3. \/ slot = NoTask /\ \A t \in 1 .. task_count - 1 : state[t] # 0
      \/ slot \in 1 .. task_count - 1 /\ state[slot] = 0
      \/ slot = task_count /\ task_count < MAX_TASKS
  BY SlotCases
<1>4. (free = 0) \/ \A t \in 1 .. task_count - 1 : state[t] # 0
  BY <1>1 DEF SchedInv, AliveInv
<1> HIDE DEF slot
<1>5. /\ task_count' \in 1 .. MAX_TASKS /\ task_count <= task_count' /\ created' \in 0 .. Created
      /\ current_task_id' \in 0 .. task_count' - 1
  BY <1>1, <1>2, <1>3 DEF NoTask
<1>6. PlaceInv'
  BY <1>1 DEF SchedInv, PlaceInv
<1>7. CASE slot = NoTask \/ free = 0
  <2>1. UNCHANGED <<state, stack_base, esp, stack, free>>
    BY <1>7 DEF task_create, slot
  <2>2. TypeOK'
    BY <1>1, <1>5, <2>1 DEF SchedInv, TypeOK
  <2>3. RunInv'
    BY <1>1, <2>1 DEF SchedInv, RunInv
  <2>4. AliveInv'
    BY <1>1, <1>2, <1>3, <1>4, <1>7, <2>1 DEF AliveInv, NoTask
  <2>5. ASSUME NEW t \in Tasks, state'[t] = 1 PROVE Waiting(t)'
    BY <1>1, <2>1, <2>5, WaitingKept DEF SchedInv
  <2> QED
    BY <1>1, <1>6, <2>1, <2>2, <2>3, <2>4, <2>5 DEF SchedInv
<1>8. CASE ~ (slot = NoTask \/ free = 0)
  <2> DEFINE c == [cpu EXCEPT !.pc = "run", !.if = TRUE]
             f == Frame("start", c)
  <2>1. /\ free' = free - 1
        /\ stack' = [stack EXCEPT ![slot] = << f >>]
        /\ esp' = [esp EXCEPT ![slot] = At(slot, 1)]
        /\ stack_base' = [stack_base EXCEPT ![slot] = TRUE]
        /\ state' = [state EXCEPT ![slot] = 1]
    BY <1>8 DEF task_create, slot
  <2>2. slot \in Tasks /\ slot # 0
    BY <1>2, <1>3, <1>8 DEF Tasks
  <2>3. c \in Cpus /\ c.pc = "run"
    BY InvTypes DEF Cpus, Positions
  <2> HIDE DEF c
  <2>4. f \in Frames /\ f.kind = "start" /\ f.cpu.pc = "run"
    BY <2>3, FrameRecord DEF Kinds
  <2> HIDE DEF f
  <2>5. << f >> \in Seq(Frames) /\ Len(<< f >>) = 1 /\ << f >>[1] = f
    BY <2>4
  <2>6. /\ stack' \in [Tasks -> Seq(Frames)] /\ stack'[slot] = << f >>
        /\ \A t \in Tasks : t # slot => stack'[t] = stack[t]
    <3>1. stack \in [Tasks -> Seq(Frames)]
      BY InvTypes
    <3> QED
      BY <2>1, <2>2, <2>5, <3>1
  <2>7. At(slot, 1) \in StackPointers /\ At(slot, 1).t = slot /\ At(slot, 1).d = 1
    BY <2>2 DEF At, StackPointers
  <2>8. /\ esp' \in [Tasks -> StackPointers] /\ esp'[slot] = At(slot, 1)
        /\ \A t \in Tasks : t # slot => esp'[t] = esp[t]
    BY <1>2, <2>1, <2>2, <2>7
  <2>9. /\ state' \in [Tasks -> 0 .. 2]
        /\ \A t \in Tasks : state'[t] = IF t = slot THEN 1 ELSE state[t]
    BY <1>2, <2>1, <2>2
  <2>10. stack_base' \in [Tasks -> BOOLEAN] /\ free' \in Nat
    BY <1>2, <1>8, <2>1, <2>2
  <2>11. TypeOK'
    BY <1>1, <1>2, <1>5, <2>6, <2>8, <2>9, <2>10 DEF SchedInv, TypeOK, Frames, Kinds
  <2>12. RunInv'
    BY <1>1, <2>2, <2>9, ZeroIsTask DEF SchedInv, RunInv
  <2>13. AliveInv'
    <3>1. \A t \in 1 .. task_count - 1 : state[t] # 0
      BY <1>4, <1>8
    <3>2. slot = task_count /\ task_count' = task_count + 1
      BY <1>1, <1>3, <1>8, <3>1
    <3>3. \A t \in 1 .. task_count' - 1 : t \in Tasks /\ (t \in 1 .. task_count - 1 \/ t = slot)
      BY <1>2, <1>5, <3>2 DEF Tasks
    <3> QED
      BY <2>9, <3>1, <3>3 DEF AliveInv
  <2>14. ASSUME NEW t \in Tasks, state'[t] = 1 PROVE Waiting(t)'
    <3>1. CASE t = slot
      <4>1. esp'[t].t = t /\ esp'[t].d = 1 /\ stack'[t] = << f >>
        BY ONLY <2>6, <2>7, <2>8, <3>1
      <4>2. Len(stack'[t]) = 1 /\ stack'[t][1].kind = "start" /\ stack'[t][1].cpu.pc = "run"
        BY ONLY <2>4, <2>5, <4>1
      <4> QED
        BY ONLY <4>1, <4>2 DEF Waiting
    <3>2. CASE t # slot
      <4>1. Waiting(t)
        BY <1>1, <2>9, <2>14, <3>2 DEF SchedInv
      <4> QED
        BY <2>6, <2>8, <3>2, <4>1, WaitingKept
    <3> QED BY <3>1, <3>2
  <2>15. sp'.d <= Len(stack'[sp'.t])
    BY <1>1, <2>6, ZeroIsTask
  <2> QED
    BY <1>6, <2>11, <2>12, <2>13, <2>14, <2>15 DEF SchedInv
<1> QED
  BY <1>7, <1>8

\* jump_usermode turns the boot into the shell.
LEMMA JumpStep ==
  ASSUME SchedInv, jump_usermode
  PROVE  SchedInv'
<1>1. /\ cpu.pc = "boot" /\ sp.t = 0 /\ sp.d = 0 /\ ~ cpu.if /\ free \in Nat
      /\ UNCHANGED <<task_count, current_task_id, state, stack_base, esp, stack, sp, tick, created>>
  BY DEF jump_usermode, SchedInv, PlaceInv, TypeOK
<1>2. /\ cpu' \in Cpus /\ free' \in Nat
      /\ \/ free = 0 /\ cpu'.pc = "halt" /\ ~ cpu'.if
         \/ free # 0 /\ cpu'.pc = "run"
  <2>1. CASE free = 0
    <3>1. cpu' = [cpu EXCEPT !.pc = "halt"] /\ free' = free
      BY <2>1 DEF jump_usermode
    <3> QED
      BY <1>1, <2>1, <3>1, InvTypes, CpuHalt
  <2>2. CASE free # 0
    <3>1. cpu' = [cpu EXCEPT !.pc = "run", !.if = TRUE] /\ free' = free - 1
      BY <2>2 DEF jump_usermode
    <3>2. cpu' \in Cpus /\ cpu'.pc = "run"
      BY <3>1, InvTypes DEF Cpus, Positions
    <3> QED
      BY <1>1, <2>2, <3>1, <3>2
  <2> QED BY <2>1, <2>2
<1>3. TypeOK'
  BY <1>1, <1>2 DEF SchedInv, TypeOK
<1>4. PlaceInv'
  BY <1>1, <1>2 DEF PlaceInv
<1>5. RunInv'
  BY <1>1, <1>2 DEF SchedInv, RunInv
<1>6. AliveInv'
  BY <1>1, <1>2 DEF SchedInv, AliveInv
<1>7. ASSUME NEW t \in Tasks, state'[t] = 1 PROVE Waiting(t)'
  BY <1>1, <1>7, WaitingKept DEF SchedInv
<1> QED
  BY <1>1, <1>3, <1>4, <1>5, <1>6, <1>7 DEF SchedInv

--------------------------------------------------------------------------------

\* Every step keeps the invariant of the scheduler.
LEMMA SchedStep ==
  ASSUME ~ WindowHit, SchedInv, [Next]_vars
  PROVE  SchedInv'
<1>1. CASE UNCHANGED vars
  <2>1. UNCHANGED <<task_count, current_task_id, state, stack_base, esp, stack, sp, cpu,
                    tick, created, free>>
    BY <1>1 DEF vars
  <2>2. TypeOK' /\ AliveInv'
    BY <2>1 DEF SchedInv, TypeOK, AliveInv
  <2>3. PlaceInv'
    BY <2>1 DEF SchedInv, PlaceInv, SwitchFrame, InSyscall
  <2>4. RunInv' /\ \A t : Waiting(t) => (Waiting(t)')
    BY <2>1 DEF SchedInv, RunInv, Waiting, SwitchFrame, InSyscall
  <2> QED
    BY <2>1, <2>2, <2>3, <2>4 DEF SchedInv
<1>2. CASE Next
  BY <1>2, CreateStep, JumpStep, PickStep, SetCurrentStep, SwitchOther, SwitchSelf, ReturnStep,
     TimerStep, RingEntryStep, SysReturnStep, YieldStep, LlmWindowStep, KillStep DEF Next
<1> QED
  BY <1>1, <1>2

\* The inductive invariant of the scheduler: the shapes a stack can have, who is on
\* which, and that a task which was counted but got no stack stops the boot.
THEOREM SchedInvariant ==
  ASSUME ~ WindowHit
  PROVE  Spec => []SchedInv
<1>1. SchedInv /\ [Next]_vars => SchedInv'
  BY SchedStep
<1> QED
  BY <1>1, SchedInit, PTL DEF Spec

\* The invariant says that a waiting task's context is on its own stack.
LEMMA InvOwnStack == SchedInv => OwnStack
<1> SUFFICES ASSUME SchedInv, NEW t \in Tasks, state[t] = 1, ~ InSwitch
             PROVE  /\ esp[t].t = t /\ esp[t].d \in DOMAIN stack[t]
                    /\ stack[t][esp[t].d].kind \in {"ctx", "start"}
  BY DEF OwnStack
<1>1. Waiting(t)
  BY DEF SchedInv, InSwitch
<1>2. stack[t] \in Seq(Frames)
  BY InvTypes
<1>3. DOMAIN stack[t] = 1 .. Len(stack[t])
  BY <1>2
<1> QED
  BY <1>1, <1>3 DEF Waiting

\* "each task restores from its own stack" (interrupts.asm:94), for any number of
\* tasks: switch_context finds a context where esp points.
THEOREM TasksOwnTheirStack ==
  ASSUME ~ WindowHit
  PROVE  Spec => []OwnStack
BY SchedInvariant, InvOwnStack, PTL

\* The invariant says that one live task runs, on its stack.
LEMMA InvOnlyLive == SchedInv => OnlyLiveRuns
<1> SUFFICES ASSUME SchedInv PROVE OnlyLiveRuns
  OBVIOUS
<1>1. current_task_id \in Tasks /\ sp.t \in Tasks
  <2>1. task_count \in 1 .. MAX_TASKS /\ current_task_id \in 0 .. task_count - 1
    BY DEF SchedInv, TypeOK
  <2>2. current_task_id \in Tasks
    BY <2>1, SchedAssumption DEF Tasks
  <2> QED BY <2>2, InvTypes
<1>2. OneRunning
  BY <1>1 DEF SchedInv, RunInv, OneRunning, InSwitch
<1>3. state[sp.t] # 0
  BY <1>1 DEF SchedInv, RunInv
<1> QED
  BY <1>2, <1>3 DEF SchedInv, PlaceInv, DeadNeverRuns, OnlyLiveRuns

\* One task is marked running and the CPU is on its stack; after task_kill_current
\* ended the shell, no switch goes back to it, however many tasks there are.
THEOREM OnlyLiveTasksRun ==
  ASSUME ~ WindowHit
  PROVE  Spec => []OnlyLiveRuns
BY SchedInvariant, InvOnlyLive, PTL

\* Interrupt frames among the first n positions are at most n.
LEMMA IrqBound ==
  ASSUME NEW t, NEW d, NEW n \in {1, 2},
         { i \in 1 .. d : stack[t][i].kind = "irq" } \subseteq 1 .. n
  PROVE  IrqDepth(t, d) <= n
<1> DEFINE S == { i \in 1 .. d : stack[t][i].kind = "irq" }
<1>1. IsFiniteSet(1 .. n) /\ Cardinality(1 .. n) = n
  BY FS_Interval
<1>2. S \subseteq 1 .. n
  OBVIOUS
<1> HIDE DEF S
<1>3. Cardinality(S) <= n
  BY <1>1, <1>2, FS_Subset
<1> QED
  BY <1>3 DEF IrqDepth, S

\* The shapes of a stack bound the interrupt frames on it.
LEMMA InvNesting == SchedInv => NestingBounded
<1> SUFFICES ASSUME SchedInv PROVE NestingBounded
  OBVIOUS
<1>1. IrqDepth(sp.t, sp.d) <= (IF sp.t = 0 THEN 2 ELSE 1)
  <2> DEFINE n == IF sp.t = 0 THEN 2 ELSE 1
  <2>1. sp.d <= n /\ sp.d \in Nat /\ n \in {1, 2}
    <3>1. cpu.pc \in Positions /\ sp.d \in Nat
      BY InvTypes
    <3>2. cpu.pc \in {"boot", "run", "kill", "halt", "sys"} => sp.d \in {0, 1}
      <4>1. PlaceInv
        BY DEF SchedInv
      <4>2. sp = At(0, 1) => sp.d = 1
        BY DEF At
      <4> QED
        BY <4>1, <4>2 DEF PlaceInv
    <3>3. cpu.pc \in {"pick", "set", "ctx", "ret"} => sp.d \in {1, 2} /\ (sp.d = 2 => sp.t = 0)
      BY DEF SchedInv, PlaceInv, SwitchFrame
    <3> QED
      BY <3>1, <3>2, <3>3 DEF SchedInv, PlaceInv, Positions
  <2>2. { i \in 1 .. sp.d : stack[sp.t][i].kind = "irq" } \subseteq 1 .. n
    BY <2>1
  <2>3. n \in {1, 2}
    OBVIOUS
  <2> HIDE DEF n
  <2>4. IrqDepth(sp.t, sp.d) <= n
    BY <2>2, <2>3, IrqBound
  <2> QED BY <2>4 DEF n
<1>2. ASSUME NEW t \in Tasks, state[t] = 1, ~ InSwitch
      PROVE  IrqDepth(t, esp[t].d) <= (IF t = 0 THEN 2 ELSE 1)
  <2> DEFINE n == IF t = 0 THEN 2 ELSE 1
             d == esp[t].d
  <2>1. Waiting(t)
    BY <1>2 DEF SchedInv, InSwitch
  <2>2. { i \in 1 .. d : stack[t][i].kind = "irq" } \subseteq 1 .. n
    <3>1. CASE d = 1
      BY <3>1
    <3>2. CASE stack[t][d].kind = "ctx" /\ SwitchFrame(t, d - 1) /\ d \in Nat
      <4>1. d \in {2, 3} /\ (d = 3 => t = 0)
        <5> HIDE DEF d
        <5>1. d - 1 \in {1, 2} /\ (d - 1 = 2 => t = 0)
          BY <3>2 DEF SwitchFrame
        <5>2. d \in Nat
          BY <3>2
        <5> QED BY <5>1, <5>2
      <4>2. d - 1 \in 1 .. n
        BY <4>1
      <4>3. \A i \in 1 .. d : stack[t][i].kind = "irq" => i # d
        BY <3>2
      <4> HIDE DEF n, d
      <4> QED
        BY ONLY <4>1, <4>2, <4>3, n \in {1, 2} DEF n
    <3>3. d \in Nat
      <4>1. Len(stack[t]) \in Nat
        BY InvTypes
      <4>2. d \in 1 .. Len(stack[t])
        BY <2>1 DEF Waiting
      <4> QED BY <4>1, <4>2
    <3> QED BY <2>1, <3>1, <3>2, <3>3 DEF Waiting
  <2>3. n \in {1, 2}
    OBVIOUS
  <2> HIDE DEF n, d
  <2>4. IrqDepth(t, d) <= n
    BY <2>2, <2>3, IrqBound
  <2> QED BY <2>4 DEF n, d
<1> QED
  BY <1>1, <1>2 DEF NestingBounded

\* A 4 KB stack never holds two interrupt frames with their FPU state, nor the
\* shell's stack three, whatever the tasks do and however often they are preempted.
THEOREM NestingIsBounded ==
  ASSUME ~ WindowHit
  PROVE  Spec => []NestingBounded
BY SchedInvariant, InvNesting, PTL

--------------------------------------------------------------------------------
(* net_poll. *)

Inside(t) == task[t].in \in {"poll", "nest"}

\* The shell is in a system call from the start of its ping to the end: it polls
\* only while it has the CPU, and is not in ring 3 then.
ShellHoldsCpu ==
  task["shell"].in # "loop" => running = "shell" /\ task["shell"].loop # "user"

PollInv ==
  /\ task \in [Waiters -> Place]
  /\ running \in Waiters
  /\ task["shell"].loop \in {"user", "arp", "echo"}
  /\ net_poll_active \in BOOLEAN
  /\ ShellHoldsCpu
  /\ task["shell"].in = "enter" => ~ net_poll_active
  /\ ~ (Inside("shell") /\ Inside("net"))
  /\ net_poll_active <=> (Inside("shell") \/ Inside("net"))

\* A wait lasts at least one tick.
LEMMA WaitTicksPositive == WaitTicks \in Nat \ {0}
BY WaitAssumption

\* Initially nobody polls.
LEMMA PollInit == WaitInit => PollInv
<1> SUFFICES ASSUME WaitInit PROVE PollInv
  OBVIOUS
<1>1. PICK start \in {"dhcp", "idle"} :
        task = [t \in Waiters |-> [loop |-> IF t = "shell" THEN "user" ELSE start,
                                  in |-> "loop", left |-> 0, nest |-> "arp", nleft |-> 0]]
  BY DEF WaitInit
<1>2. task \in [Waiters -> Place]
  BY <1>1, WaitTicksPositive DEF Waiters, Place
<1>3. /\ running = "shell" /\ net_poll_active = FALSE
      /\ task["shell"].loop = "user" /\ task["shell"].in = "loop" /\ task["net"].in = "loop"
  BY <1>1 DEF WaitInit, Waiters
<1> QED
  BY <1>2, <1>3 DEF PollInv, Waiters, Inside, ShellHoldsCpu

\* What a packet changes of the waits: nothing, or its handler waits inside the poll.
LEMMA PacketEffect ==
  ASSUME NEW t \in Waiters, PollInv, HandlePacket(t), task[t].in = "poll"
  PROVE  /\ task' \in [Waiters -> Place]
         /\ \A u \in Waiters : task'[u].loop = task[u].loop
         /\ \A u \in Waiters : u # t => task'[u].in = task[u].in
         /\ task'[t].in \in {"poll", "nest"}
         /\ UNCHANGED <<running, net_poll_active>>
<1>1. UNCHANGED <<running, net_poll_active>>
  BY DEF HandlePacket
<1>2. \/ task' = task
      \/ \E n \in {"arp", "echo"} :
           task' = [task EXCEPT ![t].in = "nest", ![t].nleft = WaitTicks, ![t].nest = n]
  BY DEF HandlePacket
<1>3. CASE task' = task
  BY <1>1, <1>3 DEF PollInv
<1>4. ASSUME NEW n \in {"arp", "echo"},
             task' = [task EXCEPT ![t].in = "nest", ![t].nleft = WaitTicks, ![t].nest = n]
      PROVE  /\ task' \in [Waiters -> Place]
             /\ \A u \in Waiters : task'[u].loop = task[u].loop
             /\ \A u \in Waiters : u # t => task'[u].in = task[u].in
             /\ task'[t].in \in {"poll", "nest"}
  <2>1. task \in [Waiters -> Place] /\ WaitTicks \in 0 .. WaitTicks
    BY WaitTicksPositive DEF PollInv
  <2>2. task'[t] = [task[t] EXCEPT !.in = "nest", !.nleft = WaitTicks, !.nest = n]
    BY <1>4, <2>1
  <2>3. task'[t] \in Place /\ task'[t].loop = task[t].loop /\ task'[t].in = "nest"
    BY <2>1, <2>2 DEF Place
  <2>4. \A u \in Waiters : u # t => task'[u] = task[u]
    BY <1>4, <2>1
  <2>5. task' = [u \in Waiters |-> task'[u]]
    BY <1>4, <2>1
  <2> QED
    BY <2>1, <2>3, <2>4, <2>5
<1> QED
  BY <1>1, <1>2, <1>3, <1>4

\* Every step keeps the invariant of the waits.
LEMMA PollStep == PollInv /\ [WaitNext]_nwvars => PollInv'
<1> SUFFICES ASSUME PollInv, [WaitNext]_nwvars PROVE PollInv'
  OBVIOUS
<1> USE WaitTicksPositive DEF PollInv, Place, Waiters, Inside, ShellHoldsCpu
<1>1. CASE StartPing
  BY <1>1 DEF StartPing
<1>2. CASE ShellStep
  <2>1. CASE PingWait
    BY <1>2, <2>1 DEF ShellStep, PingWait, ReturnToUser, CallPoll
  <2>2. CASE EnterPoll("shell")
    BY <1>2, <2>2 DEF ShellStep, EnterPoll
  <2>3. CASE task["shell"].in = "poll" /\ HandlePacket("shell")
    BY <1>2, <2>3, PacketEffect DEF ShellStep
  <2>4. CASE task["shell"].in = "poll" /\ PollEnd("shell")
    BY <1>2, <2>4 DEF ShellStep, PollEnd
  <2>5. CASE NestedWait("shell")
    BY <1>2, <2>5 DEF ShellStep, NestedWait
  <2> QED
    BY <1>2, <2>1, <2>2, <2>3, <2>4, <2>5 DEF ShellStep, Poll
<1>3. CASE NetStep
  <2>1. CASE DhcpWait
    BY <1>3, <2>1 DEF NetStep, DhcpWait, CallPoll
  <2>2. CASE IdleLoop
    BY <1>3, <2>2 DEF NetStep, IdleLoop, CallPoll
  <2>3. CASE Yield
    BY <1>3, <2>3 DEF NetStep, Yield
  <2>4. CASE EnterPoll("net")
    BY <1>3, <2>4 DEF NetStep, EnterPoll
  <2>5. CASE task["net"].in = "poll" /\ HandlePacket("net")
    BY <1>3, <2>5, PacketEffect DEF NetStep
  <2>6. CASE task["net"].in = "poll" /\ PollEnd("net")
    BY <1>3, <2>6 DEF NetStep, PollEnd
  <2>7. CASE NestedWait("net")
    BY <1>3, <2>7 DEF NetStep, NestedWait
  <2> QED
    BY <1>3, <2>1, <2>2, <2>3, <2>4, <2>5, <2>6, <2>7 DEF NetStep, Poll
<1>4. CASE WaitTimer
  <2>1. /\ task' \in [Waiters -> Place]
        /\ \A t \in Waiters : task'[t].loop = task[t].loop /\ task'[t].in = task[t].in
    <3>1. \A n \in 0 .. WaitTicks : Dec(n) \in 0 .. WaitTicks
      BY DEF Dec
    <3> HIDE DEF Dec
    <3>2. ASSUME NEW p \in Place
          PROVE  LET r == [p EXCEPT !.left = Dec(@), !.nleft = Dec(@)]
                 IN  r \in Place /\ r.loop = p.loop /\ r.in = p.in
      BY <3>1 DEF Place
    <3>3. task \in [Waiters -> Place]
      OBVIOUS
    <3> HIDE DEF Place
    <3> QED BY <1>4, <3>2, <3>3 DEF WaitTimer
  <2>2. /\ running' \in Waiters
        /\ running = "shell" => task["shell"].in = "loop"
    BY <1>4 DEF WaitTimer, Interrupts
  <2>3. net_poll_active' = net_poll_active
    BY <1>4 DEF WaitTimer
  <2> QED BY <2>1, <2>2, <2>3
<1>5. CASE Deliver \/ Lose \/ RemoteRequest
  BY <1>5 DEF Deliver, Lose, RemoteRequest
<1>6. CASE UNCHANGED nwvars
  BY <1>6 DEF nwvars
<1> QED
  BY <1>1, <1>2, <1>3, <1>4, <1>5, <1>6 DEF WaitNext

\* The inductive invariant of the waits: besides the exclusion itself, that a
\* shell which has begun to poll keeps the CPU (interrupt gate of int 0x80).
THEOREM PollInvariant == WaitSpec => []PollInv
BY PollInit, PollStep, PTL DEF WaitSpec

\* The invariant excludes two callers inside net_poll.
LEMMA InvExclusive == PollInv => PollExclusive
<1> SUFFICES ASSUME PollInv PROVE PollExclusive
  OBVIOUS
<1> DEFINE inside == { t \in Waiters : task[t].in \in {"poll", "nest"} }
<1>1. net_poll_active <=> inside # {}
  BY DEF PollInv, Inside, Waiters
<1>2. inside = {} \/ inside = {"shell"} \/ inside = {"net"}
  BY DEF PollInv, Inside, Waiters
<1>3. Cardinality(inside) = 0 \/ Cardinality(inside) = 1
  <2> HIDE DEF inside
  <2> QED BY <1>2, FS_EmptySet, FS_Singleton
<1> QED
  BY <1>1, <1>3 DEF PollExclusive

\* "This flag makes a reentrant call a no-op instead of corrupting the ring"
\* (net.c:1900): at most one task is inside net_poll, and the flag tells.
THEOREM PollIsExclusive == WaitSpec => []PollExclusive
BY PollInvariant, InvExclusive, PTL
================================================================================
