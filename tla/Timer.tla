------------------------------- MODULE Timer -------------------------------
(***************************************************************************)
(* The local APIC timer from apic_init on: which mode the kernel programs  *)
(* on which machine, and whether the ticks that drive the scheduler go on. *)
(* A machine is what the firmware tables and CPUID say of it.  The timer   *)
(* hardware is external: a deadline fires once and is then disarmed, a     *)
(* periodic timer fires again and again; an interrupt is delivered when    *)
(* none is in service and the processor has interrupts enabled; writing    *)
(* IA32_TSC_DEADLINE raises #GP on a processor without it and is ignored   *)
(* unless the timer is in deadline mode.                                   *)
(***************************************************************************)
EXTENDS Naturals

CONSTANT SCHED_QUANTUM   \* ticks of a quantum

ASSUME QuantumAssumption == SCHED_QUANTUM \in Nat \ {0}

\* madt: there is a MADT; svr: the firmware left the APIC software-enabled;
\* tsc: what tsc_init will find, 0 for an unknown frequency.
Machine == [madt : BOOLEAN, x2apic : BOOLEAN, deadline : BOOLEAN, invariant : BOOLEAN,
            tsc : {0, 1}, svr : BOOLEAN]

VARIABLES machine,
          pc,               \* the boot step, or "running", or where the handler is
          x2apic_enabled, tsc_frequency_hz,
          mode,             \* "off", "periodic" or "deadline"
          svr,              \* the APIC is software-enabled
          enabled,          \* the interrupt flag of the processor
          armed, irr, isr,  \* the timer counts; an interrupt waits; one is in service
          lapic_ticks,      \* modulo SCHED_QUANTUM
          schedules         \* quanta ended, modulo 2

timerVars == <<machine, pc, x2apic_enabled, tsc_frequency_hz, mode, svr, enabled, armed, irr,
          isr, lapic_ticks, schedules>>
hardware == <<armed, irr, isr>>
config == <<machine, x2apic_enabled, tsc_frequency_hz, mode, svr>>

TimerInit ==
  /\ machine \in Machine
  /\ pc = "apic_init"
  /\ x2apic_enabled = FALSE /\ tsc_frequency_hz = 0
  /\ mode = "off" /\ svr = machine.svr
  /\ enabled = FALSE /\ armed = FALSE /\ irr = FALSE /\ isr = FALSE
  /\ lapic_ticks = 0 /\ schedules = 0

-----------------------------------------------------------------------------
(* Boot, with interrupts off until sti.                                    *)

\* apic_init and lapic_init leave at once without a MADT; without x2APIC
\* lapic_init leaves before it enables and masks anything.
lapic_init ==
  /\ pc = "apic_init"
  /\ IF machine.madt
     THEN /\ pc' = "tsc_init"
          /\ x2apic_enabled' = machine.x2apic
          /\ svr' = (svr \/ machine.x2apic)
     ELSE pc' = "running" /\ UNCHANGED <<x2apic_enabled, svr>>
  /\ UNCHANGED <<machine, tsc_frequency_hz, mode, enabled, hardware, lapic_ticks, schedules>>

tsc_init ==
  /\ pc = "tsc_init" /\ pc' = "timer_init"
  /\ tsc_frequency_hz' = machine.tsc
  /\ UNCHANGED <<machine, x2apic_enabled, mode, svr, enabled, hardware, lapic_ticks, schedules>>

use_tsc_deadline == machine.deadline /\ tsc_frequency_hz # 0 /\ machine.invariant

\* Either mode starts the timer at once; the interrupt waits for sti.
apic_timer_init ==
  /\ pc = "timer_init"
  /\ pc' = IF use_tsc_deadline /\ ~machine.deadline THEN "panic" ELSE "running"
  /\ mode' = IF use_tsc_deadline THEN "deadline" ELSE "periodic"
  /\ armed' = TRUE
  /\ UNCHANGED <<machine, x2apic_enabled, tsc_frequency_hz, svr, enabled, irr, isr, lapic_ticks,
                 schedules>>

-----------------------------------------------------------------------------
(* The rest of the kernel, and the programs.                               *)

\* A system call (FMASK) or a gate turns interrupts off.  What runs then may
\* take long, or for ever: a read() without a line, the halt when no task is
\* left.
Disable ==
  /\ pc = "running" /\ enabled
  /\ enabled' = FALSE
  /\ UNCHANGED <<config, pc, hardware, lapic_ticks, schedules>>

\* sti at the end of boot, sysretq and iretq turn them on.
Enable ==
  /\ pc = "running" /\ ~enabled
  /\ enabled' = TRUE
  /\ UNCHANGED <<config, pc, hardware, lapic_ticks, schedules>>

-----------------------------------------------------------------------------
(* The hardware.                                                           *)

\* The processor raises the interrupt while the kernel or a handler runs.
Fire ==
  /\ armed /\ pc # "panic"
  /\ irr' = TRUE
  /\ armed' = (mode = "periodic")
  /\ UNCHANGED <<config, pc, enabled, isr, lapic_ticks, schedules>>

Deliver ==
  /\ pc = "running" /\ enabled /\ irr /\ ~isr /\ svr
  /\ irr' = FALSE /\ isr' = TRUE /\ pc' = "handler" /\ enabled' = FALSE
  /\ UNCHANGED <<config, armed, lapic_ticks, schedules>>

-----------------------------------------------------------------------------
(* lapic_timer_handler, with interrupts off.                               *)

\* Mutant: the handler re-arms only on the ticks that end a quantum.
RearmRarely == x2apic_enabled /\ lapic_ticks = SCHED_QUANTUM - 1
Rearm == x2apic_enabled

WriteDeadline ==
  /\ pc = "handler"
  /\ pc' = IF Rearm /\ ~machine.deadline THEN "panic" ELSE "eoi"
  /\ armed' = (armed \/ (Rearm /\ machine.deadline /\ mode = "deadline"))
  /\ UNCHANGED <<config, enabled, irr, isr, lapic_ticks, schedules>>

Tick == (lapic_ticks + 1) % SCHED_QUANTUM

\* Mutant: no end of interrupt.
EoiForgotten == isr
Eoi == FALSE

\* The end of the handler, and the iretq, which turns interrupts on again.
FinishTick ==
  /\ pc = "eoi" /\ pc' = "running" /\ enabled' = TRUE
  /\ isr' = Eoi
  /\ lapic_ticks' = Tick
  /\ schedules' = IF lapic_ticks' = 0 THEN 1 - schedules ELSE schedules
  /\ UNCHANGED <<config, armed, irr>>

\* The machine has stopped.
Quiet ==
  /\ pc = "panic"
  /\ UNCHANGED timerVars

TimerNext == lapic_init \/ tsc_init \/ apic_timer_init \/ Disable \/ Enable \/ Fire \/ Deliver
        \/ WriteDeadline \/ FinishTick \/ Quiet

\* Boot and the handler go on, and an armed timer fires.  The processor looks for
\* a waiting interrupt after every instruction with interrupts enabled, also
\* if they are enabled only now and then.  That they are is not assumed.
TimerFairness ==
  /\ WF_timerVars(lapic_init \/ tsc_init \/ apic_timer_init)
  /\ WF_timerVars(Fire) /\ SF_timerVars(Deliver) /\ WF_timerVars(WriteDeadline) /\ WF_timerVars(FinishTick)

TimerSpec == TimerInit /\ [][TimerNext]_timerVars /\ TimerFairness

-----------------------------------------------------------------------------
\* The tick counter stays below the quantum.
TimerTypeOK ==
  /\ machine \in Machine
  /\ pc \in {"apic_init", "tsc_init", "timer_init", "running", "handler", "eoi", "panic"}
  /\ x2apic_enabled \in BOOLEAN /\ tsc_frequency_hz \in {0, 1}
  /\ mode \in {"off", "periodic", "deadline"}
  /\ svr \in BOOLEAN /\ enabled \in BOOLEAN
  /\ armed \in BOOLEAN /\ irr \in BOOLEAN /\ isr \in BOOLEAN
  /\ lapic_ticks \in 0 .. SCHED_QUANTUM - 1 /\ schedules \in {0, 1}

\* The kernel writes the deadline register of a processor that has none only
\* in the handler, and there only with x2APIC: apic_timer_init asks first.
PanicOnlyOnRearm == pc = "panic" => machine.x2apic /\ ~machine.deadline /\ isr

\* No tick is lost in deadline mode with x2APIC: between two steps of the
\* kernel the timer counts, or its interrupt waits, or the handler that is
\* about to re-arm it runs.
DeadlineAlive ==
  mode = "deadline" /\ x2apic_enabled => armed \/ irr \/ pc = "handler"

\* The machines on which the kernel's choices give a lasting timer.  The deadline
\* mode without x2APIC does not: its one tick is never followed by another.
Lasting ==
  machine.madt /\ IF machine.x2apic THEN machine.deadline
                  ELSE machine.svr /\ ~(machine.deadline /\ machine.invariant /\ machine.tsc # 0)

\* On those machines every task's quantum ends, again and again, as long as the
\* processor comes back to code that runs with interrupts enabled: schedule() is
\* called infinitely often, wherever boot, a system call or the handler was when
\* the timer fired.  A system call that never returns ends the ticks with it.
QuantaEnd == Lasting /\ []<>enabled => ([]<>(schedules = 0) /\ []<>(schedules = 1))

\* README.md:10 asks for a "64-bit x86 processor with x2APIC support" and for
\* nothing else of the timer: on such a machine no tick stops the kernel.
TicksDoNotPanic == machine.x2apic => pc # "panic"
=============================================================================
