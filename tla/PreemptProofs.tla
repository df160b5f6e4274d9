---------------------------- MODULE PreemptProofs ----------------------------
(***************************************************************************)
(* For any number of programs: a run is isolated, a context survives every *)
(* interleaving, and only a run's own tick preempts it.                    *)
(***************************************************************************)
EXTENDS Preempt, TLAPS

\* What relates the timer to the place of xproc_run_ctx: nothing is in
\* service between steps, a tick that counts or is pending once the program
\* may be entered was armed by this run, and the timer counts only in a run
\* with a quantum.
TickOwned ==
    /\ lapic.isr = FALSE
    /\ quantum => g_ready
    /\ lapic.timer # "off" => quantum /\ pc \in {"enter", "user", "left"}
    /\ pc \in {"stop", "window", "arm"} => quantum
    /\ pc = "arm" => lapic.irr = "none"
    /\ quantum /\ pc \in {"enter", "user"} => lapic.timer # "stale" /\ lapic.irr # "stale"

\* The run under way has a program, and its flags are ready when it is entered.
RunReady ==
    /\ pc # "idle" => g \in Programs
    /\ pc \in {"stop", "window", "arm", "enter"} => g \in live /\ (("IF" \in ctx[g].flags) <=> quantum)

\* The inductive invariant.
Inv == TypeOK /\ RunIsolated /\ TickOwned /\ RunReady

USE DEF Keep, UserFlags, FreshRegs, KernelCpu, NoResult, Ticks, Regs

\* The position in the loop stays in range.
LEMMA LoopRange == \A n \in Nat : n % LoopLen \in 0 .. (LoopLen - 1)
  BY PreemptAssumption

\* The initial states satisfy the invariant.
LEMMA InitInv == Init => Inv
<1> SUFFICES ASSUME Init PROVE Inv OBVIOUS
<1>1. FreshRegs \in Regs BY PreemptAssumption
<1>2. cpu \in [ring : {0, 3}, cr3 : Programs \cup {Kernel}, regs : Regs] BY <1>1 DEF Init
<1>3. res \in [reason : {None, "exit", "fault", "yield", "preempt"}, log_n : 0 .. LogMax]
  BY PreemptAssumption DEF Init
<1>4. ctx \in [Programs -> Regs] /\ alone \in [Programs -> Regs] BY <1>1 DEF Init
<1>5. TypeOK BY <1>2, <1>3, <1>4 DEF Init, TypeOK
<1>6. RunIsolated BY PreemptAssumption DEF Init, RunIsolated
<1>7. TickOwned /\ RunReady BY DEF Init, TickOwned, RunReady
<1> QED BY <1>5, <1>6, <1>7 DEF Inv

\* Steps of the kernel between and before runs keep the invariant.
LEMMA KernelInv ==
  ASSUME Inv,
         \/ \E on \in BOOLEAN : xproc_set_quantum_ms(on)
         \/ \E p \in Programs : xctx_init(p) \/ RunCall(p)
  PROVE  Inv'
<1> USE DEF Inv, TypeOK, RunIsolated, TickOwned, RunReady
<1>1. ASSUME NEW on \in BOOLEAN, xproc_set_quantum_ms(on) PROVE Inv'
  BY <1>1, PreemptAssumption DEF xproc_set_quantum_ms
<1>2. ASSUME NEW p \in Programs, xctx_init(p) PROVE Inv'
  BY <1>2, PreemptAssumption DEF xctx_init
<1>3. ASSUME NEW p \in Programs, RunCall(p) PROVE Inv'
  <2> USE <1>3 DEF RunCall
  <2>a. [ctx[p] EXCEPT !.flags = RunFlags(ctx[p].flags)] \in Regs BY DEF RunFlags
  <2>b. ctx' \in [Programs -> Regs] BY <2>a
  <2>c. lapic' \in [timer : {"off"} \cup Ticks, irr : {"none"} \cup Ticks, isr : BOOLEAN]
    BY DEF Stale
  <2>d. NoResult \in [reason : {None, "exit", "fault", "yield", "preempt"}, log_n : 0 .. LogMax]
    BY PreemptAssumption
  <2>1. TypeOK' BY <2>b, <2>c, <2>d
  <2>2. RunIsolated' BY PreemptAssumption DEF RunFlags
  <2>3. TickOwned' BY DEF Stale
  <2>4. RunReady' BY PreemptAssumption DEF RunFlags
  <2> QED BY <2>1, <2>2, <2>3, <2>4
<1> QED BY <1>1, <1>2, <1>3

\* Steps of xproc_run_ctx keep the invariant.
LEMMA RunStepInv == Inv /\ RunStep => Inv'
<1> USE DEF Inv, TypeOK, RunIsolated, TickOwned, RunReady
<1> SUFFICES ASSUME Inv, RunStep PROVE Inv' OBVIOUS
<1>1. CASE RunStop
  BY <1>1, PreemptAssumption DEF RunStop, lapic_timer_stop
<1>2. CASE RunWindow
  BY <1>2, PreemptAssumption DEF RunWindow, lapic_eoi, Delivered, Deliverable
<1>3. CASE RunArm
  BY <1>3, PreemptAssumption DEF RunArm, lapic_timer_arm
<1>4. CASE xproc_enter_asm
  BY <1>4, PreemptAssumption DEF xproc_enter_asm
<1>5. CASE RunReturn
  BY <1>5, PreemptAssumption DEF RunReturn, lapic_timer_stop
<1> QED BY <1>1, <1>2, <1>3, <1>4, <1>5 DEF RunStep

\* What a program does, and its syscalls and faults, keep the invariant.
LEMMA ProgramStepInv == Inv /\ ProgramStep => Inv'
<1> USE DEF Inv, TypeOK, RunIsolated, TickOwned, RunReady
<1> SUFFICES ASSUME Inv, ProgramStep PROVE Inv' OBVIOUS
<1>1. ASSUME NEW flags \in SUBSET UserFlags, Instruction(flags) PROVE Inv'
  <2> DEFINE next == (cpu.regs.at + 1) % LoopLen
  <2>1. next \in 0 .. (LoopLen - 1) BY LoopRange
  <2> HIDE DEF next
  <2>2. cpu' = [cpu EXCEPT !.regs = [at |-> next, rax |-> "other",
                                     flags |-> flags \cup (cpu.regs.flags \cap {"IF"})]]
    BY <1>1 DEF Instruction, next
  <2>3. alone' = [alone EXCEPT ![cpu.cr3] = [at |-> next, rax |-> "other", flags |-> flags \cap Keep]]
    BY <1>1 DEF Instruction, next
  <2>4. TypeOK' BY <1>1, <2>1, <2>2, <2>3 DEF Instruction
  <2>5. RunIsolated' BY <1>1, <2>2 DEF Instruction
  <2>6. TickOwned' /\ RunReady' BY <1>1 DEF Instruction
  <2> QED BY <2>4, <2>5, <2>6
<1>2. CASE SysLog
  <2>1. res' \in [reason : {None, "exit", "fault", "yield", "preempt"}, log_n : 0 .. LogMax]
    BY <1>2, PreemptAssumption DEF SysLog, LogRoom
  <2>2. cpu' \in [ring : {0, 3}, cr3 : Programs \cup {Kernel}, regs : Regs] BY <1>2 DEF SysLog
  <2>3. [alone[cpu.cr3] EXCEPT !.rax = "zero"] \in Regs BY <1>2 DEF SysLog
  <2>4. alone' \in [Programs -> Regs] BY <1>2, <2>3 DEF SysLog
  <2>5. TypeOK' BY <1>2, <2>1, <2>2, <2>4 DEF SysLog
  <2>6. RunIsolated' /\ TickOwned' /\ RunReady' BY <1>2 DEF SysLog
  <2> QED BY <2>5, <2>6
<1>3. CASE SysAnswer
  BY <1>3 DEF SysAnswer
<1>4. CASE SysYield
  <2> DEFINE regs == [cpu.regs EXCEPT !.rax = "zero"]
  <2>1. regs \in Regs OBVIOUS
  <2>2. ctx' = [ctx EXCEPT ![g] = regs] BY <1>4 DEF SysYield, save_ctx
  <2>3. ctx' \in [Programs -> Regs] BY <2>1, <2>2
  <2>4. [alone[cpu.cr3] EXCEPT !.rax = "zero"] \in Regs BY <1>4 DEF SysYield
  <2>5. alone' \in [Programs -> Regs] BY <1>4, <2>4 DEF SysYield
  <2>6. cpu' \in [ring : {0, 3}, cr3 : Programs \cup {Kernel}, regs : Regs]
    BY <1>4, PreemptAssumption DEF SysYield, xproc_leave_asm
  <2>7. TypeOK' BY <1>4, <2>3, <2>5, <2>6 DEF SysYield, xproc_leave_asm
  <2>8. RunIsolated' BY <1>4, PreemptAssumption DEF SysYield, xproc_leave_asm
  <2>9. TickOwned' /\ RunReady' BY <1>4 DEF SysYield, xproc_leave_asm
  <2> QED BY <2>7, <2>8, <2>9
<1>5. ASSUME NEW reason \in {"exit", "fault"}, ExitOrFault(reason) PROVE Inv'
  BY <1>5, PreemptAssumption DEF ExitOrFault, xproc_leave_asm
<1> QED BY <1>1, <1>2, <1>3, <1>4, <1>5 DEF ProgramStep

\* The timer's expiry and its interrupt keep the invariant.
LEMMA TimerInv == Inv /\ (TimerIrq \/ TimerExpires) => Inv'
<1> USE DEF Inv, TypeOK, RunIsolated, TickOwned, RunReady
<1> SUFFICES ASSUME Inv, TimerIrq \/ TimerExpires PROVE Inv' OBVIOUS
<1>1. CASE TimerIrq
  <2>1. ctx' \in [Programs -> Regs] BY <1>1 DEF TimerIrq, save_ctx
  <2>2. cpu' \in [ring : {0, 3}, cr3 : Programs \cup {Kernel}, regs : Regs]
    BY <1>1, PreemptAssumption DEF TimerIrq, xproc_leave_asm
  <2>3. lapic' \in [timer : {"off"} \cup Ticks, irr : {"none"} \cup Ticks, isr : BOOLEAN]
    BY <1>1 DEF TimerIrq, lapic_eoi, Delivered
  <2>4. TypeOK' BY <1>1, <2>1, <2>2, <2>3 DEF TimerIrq, xproc_leave_asm
  <2>5. RunIsolated' BY <1>1, PreemptAssumption DEF TimerIrq, xproc_leave_asm
  <2>6. TickOwned' BY <1>1 DEF TimerIrq, xproc_leave_asm, lapic_eoi, Delivered
  <2>7. RunReady' BY <1>1 DEF TimerIrq, xproc_leave_asm
  <2> QED BY <2>4, <2>5, <2>6, <2>7
<1>2. CASE TimerExpires
  BY <1>2 DEF TimerExpires
<1> QED BY <1>1, <1>2

\* Every step keeps the invariant.
LEMMA NextInv == Inv /\ [Next]_vars => Inv'
<1> SUFFICES ASSUME Inv, [Next]_vars PROVE Inv' OBVIOUS
<1>1. CASE UNCHANGED vars
  BY <1>1 DEF vars, Inv, TypeOK, RunIsolated, TickOwned, RunReady
<1>2. CASE Next
  BY <1>2, KernelInv, RunStepInv, ProgramStepInv, TimerInv DEF Next
<1> QED BY <1>1, <1>2

\* Every reachable state satisfies the invariant.
LEMMA AlwaysInv == Spec => []Inv
  BY InitInv, NextInv, PTL DEF Spec

\* For any set of programs, every reachable state has its type.
THEOREM RunsTyped == Spec => []TypeOK
<1>1. Inv => TypeOK BY DEF Inv
<1> QED BY <1>1, AlwaysInv, PTL

\* For any set of programs, a program runs with the globals and the address
\* space that are its own and with interrupts on only under a quantum, and
\* the kernel is back in its own address space whenever none runs.
THEOREM RunsIsolated == Spec => []RunIsolated
<1>1. Inv => RunIsolated BY DEF Inv
<1> QED BY <1>1, AlwaysInv, PTL

\* No step loses a resumable program's registers.
LEMMA ContextsStep == Inv /\ ContextsIntact /\ [Next]_vars => ContextsIntact'
<1> SUFFICES ASSUME Inv, ContextsIntact, [Next]_vars PROVE ContextsIntact' OBVIOUS
<1> USE DEF Inv, TypeOK, RunIsolated, RunReady, ContextsIntact
<1>1. ASSUME NEW p \in Programs, xctx_init(p) PROVE ContextsIntact'
  BY <1>1 DEF xctx_init
<1>2. ASSUME NEW p \in Programs, RunCall(p) PROVE ContextsIntact'
  BY <1>2 DEF RunCall, RunFlags
<1>3. CASE xproc_enter_asm
  BY <1>3 DEF xproc_enter_asm
<1>4. ASSUME NEW flags \in SUBSET UserFlags, Instruction(flags) PROVE ContextsIntact'
  <2> DEFINE next == (cpu.regs.at + 1) % LoopLen
             after == [at |-> next, rax |-> "other", flags |-> flags \cup (cpu.regs.flags \cap {"IF"})]
  <2>1. cpu' = [cpu EXCEPT !.regs = after] BY <1>4 DEF Instruction
  <2>2. alone' = [alone EXCEPT ![g] = [at |-> next, rax |-> "other", flags |-> flags \cap Keep]]
    BY <1>4 DEF Instruction
  <2>3. after.flags \cap Keep = flags \cap Keep OBVIOUS
  <2> HIDE DEF next
  <2> QED BY <1>4, <2>1, <2>2, <2>3 DEF Instruction
<1>5. CASE SysLog
  BY <1>5 DEF SysLog
<1>6. CASE SysAnswer
  <2>1. cpu.ring = 3 /\ g \in live /\ cpu.cr3 = g BY <1>6 DEF SysAnswer
  <2>2. cpu' = [cpu EXCEPT !.regs = [cpu.regs EXCEPT !.rax = "other"]] BY <1>6 DEF SysAnswer
  <2>3. alone' = [alone EXCEPT ![g] = [alone[g] EXCEPT !.rax = "other"]] BY <1>6, <2>1 DEF SysAnswer
  <2>4. live' = live /\ ctx' = ctx /\ g' = g BY <1>6 DEF SysAnswer
  <2> QED BY <2>1, <2>2, <2>3, <2>4
<1>7. CASE SysYield
  <2> DEFINE regs == [cpu.regs EXCEPT !.rax = "zero"]
  <2>1. cpu.ring = 3 /\ g \in live /\ ctx' = [ctx EXCEPT ![g] = regs] /\ cpu'.ring = 0
    BY <1>7 DEF SysYield, save_ctx, xproc_leave_asm
  <2>2. live' = live /\ alone' = [alone EXCEPT ![g].rax = "zero"] BY <1>7 DEF SysYield
  <2> QED BY <2>1, <2>2
<1>8. ASSUME NEW reason \in {"exit", "fault"}, ExitOrFault(reason) PROVE ContextsIntact'
  BY <1>8 DEF ExitOrFault, xproc_leave_asm
<1>9. CASE TimerIrq
  <2>1. cpu.ring = 3 /\ g \in live /\ ctx' = [ctx EXCEPT ![g] = cpu.regs] /\ cpu'.ring = 0
    BY <1>9 DEF TimerIrq, save_ctx, xproc_leave_asm
  <2>2. live' = live /\ alone' = alone BY <1>9 DEF TimerIrq
  <2> QED BY <2>1, <2>2
<1>10. CASE RunReturn
  BY <1>10 DEF RunReturn
<1>11. CASE UNCHANGED <<g, cpu, ctx, live, alone>>
  BY <1>11
<1> QED
  BY <1>1, <1>2, <1>3, <1>4, <1>5, <1>6, <1>7, <1>8, <1>9, <1>10, <1>11
  DEF Next, vars, RunStep, ProgramStep, xproc_set_quantum_ms, RunStop, RunWindow, RunArm,
      TimerExpires

\* For any set of programs, a program that is resumed finds its registers as
\* it left them, whatever ran and interrupted it in between.
THEOREM ContextsAlwaysIntact == Spec => []ContextsIntact
<1>1. Init => ContextsIntact BY DEF Init, ContextsIntact
<1> QED BY <1>1, AlwaysInv, ContextsStep, PTL DEF Spec

\* For any set of programs, no tick of an earlier run preempts a later one:
\* the window before the timer is armed takes it.
THEOREM OnlyOwnTickPreempts == Spec => PreemptedByOwnTick
<1> DEFINE Own == res.reason # "preempt" /\ res'.reason = "preempt"
                     => quantum /\ lapic.irr = "fresh"
<1>1. ASSUME Inv, [Next]_vars PROVE Own
  <2>1. CASE TimerIrq
    BY <1>1, <2>1 DEF Inv, TypeOK, RunIsolated, TickOwned, TimerIrq, Deliverable
  <2>2. CASE SysYield
    BY <1>1, <2>2 DEF Inv, TypeOK, SysYield, xproc_leave_asm
  <2>3. ASSUME NEW reason \in {"exit", "fault"}, ExitOrFault(reason) PROVE Own
    BY <1>1, <2>3 DEF Inv, TypeOK, ExitOrFault, xproc_leave_asm
  <2>4. CASE SysLog
    BY <1>1, <2>4 DEF Inv, TypeOK, SysLog
  <2>5. ASSUME NEW p \in Programs, RunCall(p) PROVE Own
    BY <2>5 DEF RunCall, None
  <2>6. CASE UNCHANGED res
    BY <2>6
  <2> QED
    BY <1>1, <2>1, <2>2, <2>3, <2>4, <2>5, <2>6
    DEF Next, vars, RunStep, ProgramStep, xproc_set_quantum_ms, xctx_init, RunStop, RunWindow,
        RunArm, xproc_enter_asm, RunReturn, Instruction, SysAnswer, TimerExpires
<1> QED BY <1>1, AlwaysInv, PTL DEF Spec, PreemptedByOwnTick
=============================================================================
