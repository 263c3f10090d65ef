--------------------------------- MODULE Sched ---------------------------------
(***************************************************************************)
(* Tasks and context switches: kernel/task.c, kernel/timer.c, the entry    *)
(* and exit code of kernel/interrupts.asm and kernel/boot.asm, and the     *)
(* places that switch (SYS_YIELD, net_poll_task, the fault handler).       *)
(*                                                                         *)
(* One CPU.  Task 0 boots the kernel and then becomes the shell in ring 3; *)
(* the tasks of task_create run in ring 0, each on a page of its own.      *)
(* Every gate of the IDT is an interrupt gate, so handlers and system      *)
(* calls run with interrupts off.  switch_context saves the general        *)
(* registers and the stack pointer, and not EFLAGS.                        *)
(*                                                                         *)
(* stack[t] is the contents of t's stack as a sequence of frames; sp is    *)
(* the stack pointer, a stack and a depth in it.  cpu holds what is in     *)
(* registers: the position pc, the locals prev and next of task_switch and *)
(* the interrupt flag.                                                     *)
(***************************************************************************)
EXTENDS Integers, Sequences, FiniteSets, FiniteSetsExt

CONSTANTS
  MAX_TASKS,
  Created,      \* calls of task_create at boot (kernel_main makes one)
  Quantum,      \* ticks per time slice (10 in timer_handler)
  FreeBlocks,   \* how many blocks the PMM may have left at that point
  WindowHit     \* may IRQ0 arrive inside a task_switch, or on the way
                \* out of it, that runs with IF = 1?

ASSUME SchedAssumption ==
  /\ MAX_TASKS \in Nat \ {0}
  /\ Created \in Nat
  /\ Quantum \in Nat \ {0}
  /\ FreeBlocks \subseteq Nat
  /\ WindowHit \in BOOLEAN

VARIABLES
  task_count, current_task_id,
  state,        \* task_list[t].state: 0 dead, 1 ready, 2 running
  stack_base,   \* whether task_list[t].stack_base is set
  esp,          \* task_list[t].esp
  stack, sp, cpu,
  tick,         \* tick % Quantum
  created,      \* calls of task_create made so far
  free          \* blocks left in the PMM

vars == <<task_count, current_task_id, state, stack_base, esp, stack, sp, cpu,
          tick, created, free>>

Tasks == 0 .. MAX_TASKS - 1

\* Positions: kernel_main; a task's own code; a system call of the shell; the
\* three parts of task_switch and its return; task_kill_current; after it
\* returned; stopped for good; executing from a stack that holds no context.
Positions == {"boot", "run", "sys", "pick", "set", "ctx", "ret", "kill",
              "returned", "halt", "wild"}

InSwitch == cpu.pc \in {"pick", "set", "ctx"}

\* The shell is in ring 3 exactly when it runs its own code.
InRing3 == cpu.pc = "run" /\ sp.t = 0

NoTask == -1

\* Frames: what an interrupt or int 0x80 pushes ("irq", restored by iret), a call
\* of task_switch ("call"), what switch_context pushes ("ctx"), and the stack
\* task_create prepares ("start").
Frame(kind, c) == [kind |-> kind, cpu |-> c]

\* Pushing overwrites what was above the stack pointer.
Push(s, p, f) == [s EXCEPT ![p.t] = Append(SubSeq(@, 1, p.d), f)]

At(t, d) == [t |-> t, d |-> d]

--------------------------------------------------------------------------------
(* Boot: task_init, task_create, jump_usermode.  Interrupts are off. *)

Init ==
  /\ task_count = 1
  /\ current_task_id = 0
  /\ state = [t \in Tasks |-> IF t = 0 THEN 2 ELSE 0]
  /\ stack_base = [t \in Tasks |-> FALSE]
  /\ esp = [t \in Tasks |-> At(0, 0)]
  /\ stack = [t \in Tasks |-> <<>>]
  /\ sp = At(0, 0)
  /\ cpu = [pc |-> "boot", prev |-> 0, next |-> 0, if |-> FALSE]
  /\ tick = 0
  /\ created = 0
  /\ free \in FreeBlocks

\* The slot task_create uses: a dead one, or a new one, or none.
Slot ==
  LET dead == { t \in 1 .. task_count - 1 : state[t] = 0 } IN
  IF dead # {} THEN Min(dead)
  ELSE IF task_count < MAX_TASKS THEN task_count ELSE NoTask

\* A new slot is counted before the allocation of the stack can fail.
task_create ==
  /\ cpu.pc = "boot" /\ created < Created
  /\ created' = created + 1
  /\ LET slot == Slot IN
     /\ task_count' = IF slot = task_count THEN task_count + 1 ELSE task_count
     /\ IF slot = NoTask \/ free = 0
        THEN UNCHANGED <<state, stack_base, esp, stack, free>>
        ELSE /\ free' = free - 1
             /\ stack' = [stack EXCEPT ![slot] =
                            << Frame("start", [cpu EXCEPT !.pc = "run", !.if = TRUE]) >>]
             /\ esp' = [esp EXCEPT ![slot] = At(slot, 1)]
             /\ stack_base' = [stack_base EXCEPT ![slot] = TRUE]
             /\ state' = [state EXCEPT ![slot] = 1]
  /\ UNCHANGED <<current_task_id, sp, cpu, tick>>

\* kernel_main's last steps: a page for the shell's stack, then iret to ring 3
\* with interrupts on.  Without a page the kernel loops with interrupts off.
jump_usermode ==
  /\ cpu.pc = "boot" /\ created = Created
  /\ IF free = 0
     THEN cpu' = [cpu EXCEPT !.pc = "halt"] /\ UNCHANGED free
     ELSE cpu' = [cpu EXCEPT !.pc = "run", !.if = TRUE] /\ free' = free - 1
  /\ UNCHANGED <<task_count, current_task_id, state, stack_base, esp, stack, sp,
                 tick, created>>

--------------------------------------------------------------------------------
(* task_switch and switch_context. *)

\* A search that does not skip dead tasks.
NextInOrder(id) == (id + 1) % task_count

\* The next task that is not dead, in round-robin order; the search wraps around
\* to the task itself.
NextAlive(id) ==
  LET ks == { k \in 1 .. task_count : state[(id + k) % task_count] # 0 } IN
  IF ks = {} THEN NoTask ELSE (id + Min(ks)) % task_count

\* task_switch up to the two early returns.
Pick ==
  /\ cpu.pc = "pick"
  /\ LET next == NextAlive(current_task_id) IN
     cpu' = IF task_count <= 1 \/ next = NoTask
            THEN [cpu EXCEPT !.pc = "ret"]
            ELSE [cpu EXCEPT !.pc = "set", !.prev = current_task_id, !.next = next]
  /\ UNCHANGED <<task_count, current_task_id, state, stack_base, esp, stack, sp,
                 tick, created, free>>

\* The assignments to current_task_id and to the two states.
SetCurrent ==
  /\ cpu.pc = "set"
  /\ current_task_id' = cpu.next
  /\ state' = [[state EXCEPT ![cpu.prev] = 1] EXCEPT ![cpu.next] = 2]
  /\ cpu' = [cpu EXCEPT !.pc = "ctx"]
  /\ UNCHANGED <<task_count, stack_base, esp, stack, sp, tick, created, free>>

\* The stack pointer is stored before the registers are pushed.
SavedShallow(from, to) == [esp EXCEPT ![from] = At(sp.t, sp.d)]

\* task_list[..].esp after the first half of switch_context.
Saved(from, to) == [esp EXCEPT ![from] = At(sp.t, sp.d + 1)]

\* switch_context(&task_list[from].esp, &task_list[to].esp), called at `ret':
\* push the registers, save the stack pointer, load the other one, pop.  Popping
\* a context returns to its caller; popping a new task's stack starts the task
\* with interrupts on; anything else is no context.
SwitchContext(from, to, ret) ==
  LET s == Push(stack, sp, Frame("ctx", [cpu EXCEPT !.pc = ret]))
      e == Saved(from, to)
      p == e[to]
      ok == p.d \in DOMAIN s[p.t] /\ s[p.t][p.d].kind \in {"ctx", "start"}
      f == s[p.t][p.d]
  IN /\ stack' = s
     /\ esp' = e
     /\ IF ok
        THEN /\ sp' = At(p.t, p.d - 1)
             /\ cpu' = IF f.kind = "start" THEN f.cpu ELSE [f.cpu EXCEPT !.if = cpu.if]
        ELSE sp' = p /\ cpu' = [cpu EXCEPT !.pc = "wild"]

Switch ==
  /\ cpu.pc = "ctx"
  /\ SwitchContext(cpu.prev, cpu.next, "ret")
  /\ UNCHANGED <<task_count, current_task_id, state, stack_base, tick, created, free>>

\* A handler that leaves its frame on the stack.
ReturnNoPop ==
  /\ cpu.pc = "ret"
  /\ sp.d \in DOMAIN stack[sp.t]
  /\ LET f == stack[sp.t][sp.d] IN
     /\ f.kind \in {"irq", "call"}
     /\ cpu' = IF f.kind = "irq" THEN f.cpu ELSE [f.cpu EXCEPT !.if = cpu.if]
  /\ UNCHANGED <<task_count, current_task_id, state, stack_base, esp, stack, sp, tick,
                 created, free>>

\* The return of task_switch to its caller: through iret into what IRQ0
\* interrupted, or to the code that called it.
Return ==
  /\ cpu.pc = "ret"
  /\ sp.d \in DOMAIN stack[sp.t]
  /\ LET f == stack[sp.t][sp.d] IN
     /\ f.kind \in {"irq", "call"}
     /\ cpu' = IF f.kind = "irq" THEN f.cpu ELSE [f.cpu EXCEPT !.if = cpu.if]
  /\ sp' = At(sp.t, sp.d - 1)
  /\ UNCHANGED <<task_count, current_task_id, state, stack_base, esp, stack, tick,
                 created, free>>

--------------------------------------------------------------------------------
(* IRQ0, system calls, the llm.c window, faults. *)

\* Entering the kernel: from ring 3 the CPU takes the stack pointer of the TSS,
\* which stays at the top of task 0's stack.
Enter(kind, saved, pc) ==
  LET p == IF InRing3 THEN At(0, 0) ELSE sp IN
  /\ stack' = Push(stack, p, Frame(kind, saved))
  /\ sp' = At(p.t, p.d + 1)
  /\ cpu' = [cpu EXCEPT !.pc = pc, !.if = FALSE]

\* A timer that only counts.
IRQ0NoSwitch(saved) ==
  /\ tick' = (tick + 1) % Quantum
  /\ cpu' = saved
  /\ UNCHANGED <<stack, sp>>
  /\ UNCHANGED <<task_count, current_task_id, state, stack_base, esp, created, free>>

\* irq_handler(0) and timer_handler, entered while `saved' was executing; a tick
\* that ends no time slice returns at once.
IRQ0(saved) ==
  /\ tick' = (tick + 1) % Quantum
  /\ IF tick' = 0
     THEN Enter("irq", saved, "pick")
     ELSE cpu' = saved /\ UNCHANGED <<stack, sp>>
  /\ UNCHANGED <<task_count, current_task_id, state, stack_base, esp, created, free>>

\* The timer interrupts code that runs with IF = 1.
Timer ==
  /\ cpu.if /\ cpu.pc # "wild"
  /\ InSwitch \/ cpu.pc = "ret" => WindowHit
  /\ IRQ0(cpu)

\* int 0x80 from the shell.
Syscall ==
  /\ InRing3
  /\ Enter("irq", cpu, "sys")
  /\ UNCHANGED <<task_count, current_task_id, state, stack_base, esp, tick, created, free>>

\* The end of isr128.
SysReturn ==
  /\ cpu.pc = "sys"
  /\ cpu' = stack[sp.t][sp.d].cpu
  /\ sp' = At(sp.t, sp.d - 1)
  /\ UNCHANGED <<task_count, current_task_id, state, stack_base, esp, stack, tick,
                 created, free>>

\* A call of task_switch leaves interrupts as they are.
CallSwitch ==
  /\ stack' = Push(stack, sp, Frame("call", cpu))
  /\ sp' = At(sp.t, sp.d + 1)
  /\ cpu' = [cpu EXCEPT !.pc = "pick"]
  /\ UNCHANGED <<task_count, current_task_id, state, stack_base, esp, tick, created, free>>

\* SYS_YIELD.
SysYield == cpu.pc = "sys" /\ CallSwitch

\* The loop of net_poll_task: task_switch after each net_poll.
TaskYield == cpu.pc = "run" /\ sp.t # 0 /\ CallSwitch

\* Kernel code that may be inside llm_inference.
InKernelCode == cpu.pc = "sys" \/ (cpu.pc = "run" /\ sp.t # 0)

\* llm_inference's "sti; nop; cli": a pending IRQ0 is taken there, and the code
\* continues with interrupts off.
LlmWindow ==
  /\ InKernelCode
  /\ LET after == [cpu EXCEPT !.if = FALSE] IN
     \/ IRQ0(after)
     \/ /\ cpu.if
        /\ cpu' = after
        /\ UNCHANGED <<task_count, current_task_id, state, stack_base, esp, stack, sp,
                       tick, created, free>>

\* A CPU exception in ring 3: fault_handler calls task_kill_current.
UserFault ==
  /\ InRing3
  /\ Enter("irq", cpu, "kill")
  /\ UNCHANGED <<task_count, current_task_id, state, stack_base, esp, tick, created, free>>

\* task_kill_current.  The fault handler stops if it ever returns.
task_kill_current ==
  /\ cpu.pc = "kill"
  /\ LET dead == current_task_id
         next == NextAlive(dead)
     IN IF task_count <= 1 \/ next = NoTask
        THEN /\ cpu' = [cpu EXCEPT !.pc = "halt"]
             /\ UNCHANGED <<current_task_id, state, stack_base, esp, stack, sp, free>>
        ELSE /\ current_task_id' = next
             /\ state' = [[state EXCEPT ![dead] = 0] EXCEPT ![next] = 2]
             /\ free' = free + (IF stack_base[dead] THEN 1 ELSE 0)
             /\ stack_base' = [stack_base EXCEPT ![dead] = FALSE]
             /\ SwitchContext(dead, next, "returned")
  /\ UNCHANGED <<task_count, tick, created>>

Next ==
  \/ task_create \/ jump_usermode
  \/ Pick \/ SetCurrent \/ Switch \/ Return
  \/ Timer \/ Syscall \/ SysReturn \/ SysYield \/ TaskYield \/ LlmWindow
  \/ UserFault \/ task_kill_current

Spec == Init /\ [][Next]_vars

KernelStep ==
  task_create \/ jump_usermode \/ Pick \/ SetCurrent \/ Switch \/ Return \/ task_kill_current

\* Straight-line kernel code runs.  A pending IRQ0 stays latched in the PIC and is
\* delivered when interrupts come on again, however briefly.  A system call ends,
\* and net_poll returns to its task's loop.
Fairness ==
  /\ WF_vars(KernelStep)
  /\ SF_vars(Timer)
  /\ SF_vars(SysReturn)
  /\ SF_vars(TaskYield)

FairSpec == Spec /\ Fairness

--------------------------------------------------------------------------------
(* Properties. *)

StackPointers == [t : Tasks, d : Nat]

Cpus == [pc : Positions, prev : Tasks, next : Tasks, if : BOOLEAN]

TypeOK ==
  /\ task_count \in 1 .. MAX_TASKS
  /\ current_task_id \in 0 .. task_count - 1
  /\ state \in [Tasks -> 0 .. 2]
  /\ stack_base \in [Tasks -> BOOLEAN]
  /\ esp \in [Tasks -> StackPointers]
  /\ stack \in [Tasks -> Seq([kind : {"irq", "call", "ctx", "start"}, cpu : Cpus])]
  /\ sp \in StackPointers
  /\ cpu \in Cpus
  /\ tick \in 0 .. Quantum - 1
  /\ created \in 0 .. Created
  /\ free \in Nat

\* "each task restores from its own stack" (interrupts.asm:94): a task that waits
\* for the CPU has its context on its own stack, where its esp points (while
\* task_switch has not yet saved it, that is still to come).
OwnStack ==
  \A t \in Tasks : state[t] = 1 /\ ~ InSwitch =>
    /\ esp[t].t = t
    /\ esp[t].d \in DOMAIN stack[t]
    /\ stack[t][esp[t].d].kind \in {"ctx", "start"}

\* Between switches exactly one task is marked running, it is current_task_id, and
\* the CPU is on its stack.
OneRunning ==
  ~ InSwitch /\ cpu.pc \notin {"returned", "wild"} =>
    /\ { t \in Tasks : state[t] = 2 } = {current_task_id}
    /\ sp.t = current_task_id

\* "task_kill_current() switches away; we never reach here" (idt.c:256), and no
\* later switch goes back: a dead task never executes again.
DeadNeverRuns == cpu.pc # "returned" /\ (state[sp.t] = 0 => cpu.pc \in {"kill", "halt"})

IrqDepth(t, d) == Cardinality({ i \in 1 .. d : stack[t][i].kind = "irq" })

\* Interrupt frames, each with its 528 bytes of FPU state, do not pile up on a
\* stack: at most one on the 4 KB page of a created task; on the shell's, one of
\* a system call and one of a tick in the llm.c window.
NestingBounded ==
  /\ IrqDepth(sp.t, sp.d) <= (IF sp.t = 0 THEN 2 ELSE 1)
  /\ \A t \in Tasks : state[t] = 1 /\ ~ InSwitch => IrqDepth(t, esp[t].d) <= (IF t = 0 THEN 2 ELSE 1)

\* Round robin: a task that is ready gets the CPU for its own code, also after the
\* shell was killed and whether or not interrupts are on in the other task.
ReadyRuns ==
  \A t \in Tasks :
    state[t] = 1 /\ cpu.pc \notin {"boot", "halt"} ~> sp.t = t /\ cpu.pc = "run"

\* Only the one task that is marked running executes, on its own stack, and a task
\* that task_kill_current ended never does so again.
OnlyLiveRuns == OneRunning /\ DeadNeverRuns
================================================================================
