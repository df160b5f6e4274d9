------------------------------- MODULE Preempt -------------------------------
(***************************************************************************)
(* Ring-3 runs and their preemption (proc.c over lapic.c): xproc_run_ctx   *)
(* arms the one-shot LAPIC timer, enters a program with the registers of   *)
(* its context, and returns when the program exits, faults, yields or the  *)
(* timer's tick arrives.                                                   *)
(*                                                                         *)
(* There is one CPU.  The timer counts on its own and may expire between   *)
(* any two steps; its tick stays pending until the CPU takes interrupts.   *)
(* A program's registers are abstracted to how far it is in a loop of      *)
(* LoopLen instructions (at), the result register (rax) and the flags:     *)
(* "CF" for the arithmetic ones, "AC" for the others a program can set,    *)
(* "IF" for the interrupt flag, which it cannot.                           *)
(***************************************************************************)
EXTENDS Naturals

CONSTANTS
    Programs,       \* programs, each with an address space and a context
    LoopLen,        \* bound: instructions of a program, which repeats them
    LogMax          \* XPROC_LOG_MAX

Kernel == "kernel"      \* the kernel's own address space
None == "none"          \* a null pointer

ASSUME PreemptAssumption ==
    /\ LoopLen \in Nat \ {0} /\ LogMax \in Nat
    /\ Kernel \notin Programs /\ None \notin Programs

VARIABLES
    g_ready,        \* lapic_timer_init succeeded at boot
    quantum,        \* g_quantum_ticks # 0
    lapic,          \* [timer, irr, isr]: counting, tick pending, tick in service
    pc,             \* where xproc_run_ctx is
    g,              \* g_res, g_ctx and g_as: the program they belong to
    cpu,            \* [ring, cr3, regs]
    ctx,            \* the XContext of each program
    res,            \* the XProcResult of the last run
    live,           \* the programs whose context may be run
    alone           \* history: the registers a program has by its own doing

vars == <<g_ready, quantum, lapic, pc, g, cpu, ctx, res, live, alone>>

Keep == {"CF"}                              \* RFLAGS_USER_KEEP
UserFlags == {"CF", "AC"}
FreshRegs == [at |-> 0, rax |-> "zero", flags |-> {}]
KernelCpu == [ring |-> 0, cr3 |-> Kernel, regs |-> FreshRegs]
NoResult == [reason |-> None, log_n |-> 0]

\* A tick, counting or pending, is "fresh" while the run that armed it lasts
\* and "stale" from the next run on.
Init ==
    /\ g_ready \in BOOLEAN
    /\ quantum = FALSE
    /\ lapic = [timer |-> "off", irr |-> "none", isr |-> FALSE]
    /\ pc = "idle"
    /\ g = None
    /\ cpu = KernelCpu
    /\ ctx = [p \in Programs |-> FreshRegs]
    /\ res = NoResult
    /\ live = {}
    /\ alone = [p \in Programs |-> FreshRegs]

-----------------------------------------------------------------------------
(* The local APIC.                                                         *)

\* One-shot: the count reaches zero once.
TimerExpires ==
    /\ lapic.timer # "off"
    /\ lapic' = [lapic EXCEPT !.timer = "off",
                              !.irr = IF @ = "none" THEN lapic.timer ELSE @]
    /\ UNCHANGED <<g_ready, quantum, pc, g, cpu, ctx, res, live, alone>>

Deliverable == lapic.irr # "none" /\ ~lapic.isr
Delivered == [lapic EXCEPT !.irr = "none", !.isr = TRUE]

lapic_timer_arm(l) == [l EXCEPT !.timer = IF g_ready THEN "fresh" ELSE @]
\* A tick that is pending already stays so.
lapic_timer_stop(l) == [l EXCEPT !.timer = IF g_ready THEN "off" ELSE @]

\* Mutant: the tick is never acknowledged.
EoiForgotten(l) == l
lapic_eoi(l) == [l EXCEPT !.isr = IF g_ready THEN FALSE ELSE @]

-----------------------------------------------------------------------------
(* The kernel between runs.                                                *)

\* Without a calibrated timer only 0 is accepted.
xproc_set_quantum_ms(on) ==
    /\ pc = "idle"
    /\ on => g_ready
    /\ quantum' = on
    /\ UNCHANGED <<g_ready, lapic, pc, g, cpu, ctx, res, live, alone>>

xctx_init(p) ==
    /\ pc = "idle"
    /\ ctx' = [ctx EXCEPT ![p] = FreshRegs]
    /\ alone' = [alone EXCEPT ![p] = FreshRegs]
    /\ live' = live \cup {p}
    /\ UNCHANGED <<g_ready, quantum, lapic, pc, g, cpu, res>>

-----------------------------------------------------------------------------
(* xproc_run_ctx, up to the program.                                       *)

\* Mutant: the flags are taken from the context as they are.
FlagsAsSaved(flags) == flags \cup (IF quantum THEN {"IF"} ELSE {})
RunFlags(flags) == (flags \cap Keep) \cup (IF quantum THEN {"IF"} ELSE {})

Stale(t) == IF t = "fresh" THEN "stale" ELSE t

RunCall(p) ==
    /\ pc = "idle" /\ p \in live
    /\ res' = NoResult
    /\ ctx' = [ctx EXCEPT ![p].flags = RunFlags(@)]
    /\ g' = p
    /\ pc' = IF quantum THEN "stop" ELSE "enter"
    /\ lapic' = [lapic EXCEPT !.timer = Stale(@), !.irr = Stale(@)]
    /\ UNCHANGED <<g_ready, quantum, cpu, live, alone>>

RunStop ==
    /\ pc = "stop"
    /\ lapic' = lapic_timer_stop(lapic)
    /\ pc' = "window"
    /\ UNCHANGED <<g_ready, quantum, g, cpu, ctx, res, live, alone>>

\* Mutant: interrupts stay off before the timer is armed.
WindowClosed ==
    /\ pc = "window"
    /\ lapic' = lapic
    /\ pc' = "arm"
    /\ UNCHANGED <<g_ready, quantum, g, cpu, ctx, res, live, alone>>

\* sti; nop; nop; cli.  A pending tick is taken in ring 0, where irq_hook
\* acknowledges it and returns.
RunWindow ==
    /\ pc = "window"
    /\ lapic' = IF Deliverable THEN lapic_eoi(Delivered) ELSE lapic
    /\ pc' = "arm"
    /\ UNCHANGED <<g_ready, quantum, g, cpu, ctx, res, live, alone>>

RunArm ==
    /\ pc = "arm"
    /\ lapic' = lapic_timer_arm(lapic)
    /\ pc' = "enter"
    /\ UNCHANGED <<g_ready, quantum, g, cpu, ctx, res, live, alone>>

xproc_enter_asm ==
    /\ pc = "enter"
    /\ cpu' = [ring |-> 3, cr3 |-> g, regs |-> ctx[g]]
    /\ pc' = "user"
    /\ UNCHANGED <<g_ready, quantum, lapic, g, ctx, res, live, alone>>

-----------------------------------------------------------------------------
(* The program, and the traps it takes to user_hook and irq_hook.          *)

\* An instruction; popf cannot change the interrupt flag in ring 3.
Instruction(flags) ==
    LET next == (cpu.regs.at + 1) % LoopLen IN
    /\ cpu.ring = 3
    /\ cpu' = [cpu EXCEPT !.regs = [at |-> next, rax |-> "other",
                                    flags |-> flags \cup (@.flags \cap {"IF"})]]
    /\ alone' = [alone EXCEPT ![cpu.cr3] = [at |-> next, rax |-> "other", flags |-> flags \cap Keep]]
    /\ UNCHANGED <<g_ready, quantum, lapic, pc, g, ctx, res, live>>

\* Mutant: only the position is saved.
SaveAtOnly(c, regs) == [c EXCEPT !.at = regs.at]
save_ctx(c, regs) == regs

\* xproc_leave_asm: the kernel's stack and CR3 come back, and xproc_run_ctx
\* goes on after the program.
xproc_leave_asm(reason) ==
    /\ cpu' = KernelCpu
    /\ res' = [res EXCEPT !.reason = reason]
    /\ pc' = "left"

LogRoom(n) == n < LogMax

SysLog ==
    /\ cpu.ring = 3
    /\ res' = [res EXCEPT !.log_n = IF LogRoom(@) THEN @ + 1 ELSE @]
    /\ cpu' = [cpu EXCEPT !.regs.rax = "zero"]
    /\ alone' = [alone EXCEPT ![cpu.cr3].rax = "zero"]
    /\ UNCHANGED <<g_ready, quantum, lapic, pc, g, ctx, live>>

\* A resource syscall, or an unknown number: another value in rax.
SysAnswer ==
    /\ cpu.ring = 3
    /\ cpu' = [cpu EXCEPT !.regs.rax = "other"]
    /\ alone' = [alone EXCEPT ![cpu.cr3].rax = "other"]
    /\ UNCHANGED <<g_ready, quantum, lapic, pc, g, ctx, res, live>>

SysYield ==
    LET regs == [cpu.regs EXCEPT !.rax = "zero"] IN
    /\ cpu.ring = 3
    /\ ctx' = [ctx EXCEPT ![g] = save_ctx(@, regs)]
    /\ alone' = [alone EXCEPT ![cpu.cr3].rax = "zero"]
    /\ xproc_leave_asm("yield")
    /\ UNCHANGED <<g_ready, quantum, lapic, g, live>>

\* XSYS_EXIT, or a fault (int 0x40 from ring 3 is one: its gate is DPL 0).
ExitOrFault(reason) ==
    /\ cpu.ring = 3
    /\ xproc_leave_asm(reason)
    /\ live' = live \ {g}
    /\ alone' = [alone EXCEPT ![g] = FreshRegs]
    /\ UNCHANGED <<g_ready, quantum, lapic, g, ctx>>

\* irq_hook on the timer's vector, from ring 3.
TimerIrq ==
    /\ cpu.ring = 3 /\ "IF" \in cpu.regs.flags
    /\ Deliverable
    /\ lapic' = lapic_eoi(Delivered)
    /\ ctx' = [ctx EXCEPT ![g] = save_ctx(@, cpu.regs)]
    /\ xproc_leave_asm("preempt")
    /\ UNCHANGED <<g_ready, quantum, g, live, alone>>

\* The end of xproc_run_ctx.
RunReturn ==
    /\ pc = "left"
    /\ lapic' = IF quantum THEN lapic_timer_stop(lapic) ELSE lapic
    /\ g' = None
    /\ pc' = "idle"
    /\ UNCHANGED <<g_ready, quantum, cpu, ctx, res, live, alone>>

-----------------------------------------------------------------------------
RunStep == RunStop \/ RunWindow \/ RunArm \/ xproc_enter_asm \/ RunReturn

ProgramStep ==
    \/ \E flags \in SUBSET UserFlags : Instruction(flags)
    \/ SysLog
    \/ SysAnswer
    \/ SysYield
    \/ \E reason \in {"exit", "fault"} : ExitOrFault(reason)

Next ==
    \/ \E on \in BOOLEAN : xproc_set_quantum_ms(on)
    \/ \E p \in Programs : xctx_init(p) \/ RunCall(p)
    \/ RunStep
    \/ ProgramStep
    \/ TimerIrq
    \/ TimerExpires

Spec == Init /\ [][Next]_vars

\* The CPU executes the kernel's code, the timer counts, and a pending tick
\* is taken once the CPU accepts interrupts.  The program promises nothing.
FairSpec == Spec /\ WF_vars(RunStep) /\ WF_vars(TimerExpires) /\ WF_vars(TimerIrq)

-----------------------------------------------------------------------------
Ticks == {"fresh", "stale"}
Regs == [at : 0 .. (LoopLen - 1), rax : {"zero", "other"},
         flags : SUBSET (UserFlags \cup {"IF"})]

\* Every variable keeps the shape the code's globals and the hardware give it.
TypeOK ==
    /\ g_ready \in BOOLEAN /\ quantum \in BOOLEAN
    /\ lapic \in [timer : {"off"} \cup Ticks, irr : {"none"} \cup Ticks, isr : BOOLEAN]
    /\ pc \in {"idle", "stop", "window", "arm", "enter", "user", "left"}
    /\ g \in Programs \cup {None}
    /\ cpu \in [ring : {0, 3}, cr3 : Programs \cup {Kernel}, regs : Regs]
    /\ ctx \in [Programs -> Regs]
    /\ res \in [reason : {None, "exit", "fault", "yield", "preempt"}, log_n : 0 .. LogMax]
    /\ live \subseteq Programs
    /\ alone \in [Programs -> Regs]

\* A program runs only with the globals its traps use set to it, in its own
\* address space, and with interrupts on exactly when a quantum is set, also
\* when its context was saved under another setting; while no program runs
\* the kernel's own CR3 is loaded, and between runs nothing is counting.
RunIsolated ==
    /\ cpu.ring = 3 <=> pc = "user"
    /\ cpu.ring = 3 => /\ g \in live /\ cpu.cr3 = g
                       /\ ("IF" \in cpu.regs.flags) <=> quantum
    /\ cpu.ring = 0 => cpu.cr3 = Kernel
    /\ pc = "idle" => g = None /\ lapic.timer = "off"

\* A program that can be resumed finds its registers as it left them,
\* whatever ran and whatever interrupted it meanwhile: only flags that are
\* not its own may be lost.
ContextsIntact ==
    \A p \in live :
        LET regs == IF cpu.ring = 3 /\ g = p THEN cpu.regs ELSE ctx[p] IN
        /\ regs.at = alone[p].at
        /\ regs.rax = alone[p].rax
        /\ regs.flags \cap Keep = alone[p].flags

\* A run is preempted only if a quantum is set, and only by the tick it armed
\* itself: one that was left over from an earlier run never ends a later one.
PreemptedByOwnTick ==
    [][res.reason # "preempt" /\ res'.reason = "preempt"
           => quantum /\ lapic.irr = "fresh"]_vars

\* With a quantum set, xproc_run_ctx returns, whatever the program does: a
\* program that loops for ever is stopped by its tick, time after time.
RunsEnd == [](quantum /\ g # None => <>(g = None))
=============================================================================
