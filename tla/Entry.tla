------------------------------- MODULE Entry -------------------------------
(***************************************************************************)
(* The assembly between the rings, instruction by instruction: the stubs   *)
(* of isr.S, syscall_handler, task_enter, and the tables they depend on    *)
(* (gdt_init, idt_init, syscalls_init).  What the C handlers do is left to *)
(* Switching and Keyboard; here they return, pick a current_task and       *)
(* destroy the registers that a C function may.                            *)
(*                                                                         *)
(* Values are tagged tuples.  A word on a stack is addressed by <<stack,   *)
(* owner, words pushed>>, an instruction by <<routine, argument, index>>.  *)
(* The processor is external: how it delivers an interrupt, and what iretq *)
(* and syscall do.  A word that was popped is lost.  swapgs is left out:   *)
(* nothing uses GS, and both of its bases are zero.                        *)
(***************************************************************************)
EXTENDS Integers, Sequences

CONSTANTS NTasks,
          Faults,   \* exceptions a program can raise
          Aborts,   \* exceptions that come at any instruction, whatever IF is
          Depth     \* bound: words of a stack that are looked at

VARIABLES status,   \* "on", "halted" in exception_handler or SYS_EXIT, or "reset"
          regs,     \* the registers, rsp, rip, rflags, cs and ss among them
          mem,      \* stack -> word -> value
          rsp0,     \* tss.rsp0
          current, ctx, dead,   \* current_task, task->ctx, the tasks that called exit
          mine,     \* what each program, and boot as 0, has in its registers (history)
          event     \* the exception that was raised (history)

vars == <<status, regs, mem, rsp0, current, ctx, dead, mine, event>>
taskVars == <<current, ctx, dead>>

Task == 1 .. NTasks
Live == Task \ dead
Frame == <<"rax", "rbx", "rcx", "rdx", "rsi", "rdi", "rbp", "r8", "r9", "r10", "r11", "r12",
           "r13", "r14", "r15">>
Gpr == {Frame[i] : i \in 1 .. 15}
CallerSaved == {"rax", "rcx", "rdx", "rsi", "rdi", "r8", "r9", "r10", "r11"}
Register == Gpr \cup {"rsp", "rip", "rflags", "cs", "ss"}

Sel(n) == <<"sel", n>>
Num(n) == <<"num", n>>
If(b) == <<"IF", b>>
Junk == <<"junk", 0>>
Any == <<"any", 0>>

Stack == {"kstack", "user"} \X Task \cup {<<"main", 0>>, <<"boot", 0>>}
           \cup {"ist"} \X (1 .. 3)
StackOf(sp) == <<sp[1], sp[2]>>
Below(sp, n) == <<sp[1], sp[2], sp[3] + n>>
Usable(sp) == StackOf(sp) \in Stack
Hole == <<"hole", 0, 0>>     \* an address that is not mapped

Ring == regs["cs"][2] % 4
-----------------------------------------------------------------------------
(* The tables.                                                             *)

\* gdt_init: access and granularity of entries 0 .. 4.
\* Mutant: the entries as the comment above them lists them.
GdtAsCommented(i) == <<[access |-> 0, granularity |-> 0], [access |-> 154, granularity |-> 32],
  [access |-> 146, granularity |-> 0], [access |-> 250, granularity |-> 32],
  [access |-> 242, granularity |-> 0]>>[i + 1]
gdt(i) == <<[access |-> 0, granularity |-> 0], [access |-> 154, granularity |-> 32],
  [access |-> 146, granularity |-> 0], [access |-> 242, granularity |-> 0],
  [access |-> 250, granularity |-> 32]>>[i + 1]

\* How the processor reads a descriptor: the present bit, the ring, the kind.
Describes(sel, code, ring) ==
  /\ sel[2] % 4 = ring
  /\ LET d == gdt(sel[2] \div 8) IN
     /\ (d.access \div 128) % 2 = 1 /\ (d.access \div 32) % 4 = ring
     /\ (d.access \div 8) % 2 = IF code THEN 1 ELSE 0
     /\ code => (d.granularity \div 32) % 2 = 1

\* syscalls_init: the kernel's and the user's base of STAR; sysretq adds 16 and 8.
StarKernel == 8
StarUser == 16

\* idt_init: routine and interrupt stack; every gate has selector 0x08 and clears IF.
\* Mutant: the double fault has no stack of its own.
IstNone(v) == IF v = 2 THEN 2 ELSE IF v = 18 THEN 3 ELSE 0
Ist(v) == CASE v = 8 -> 1 [] v = 2 -> 2 [] v = 18 -> 3 [] OTHER -> 0
Gate(v) == CASE v < 32 -> <<"isr", v, 1>>
             [] v = 32 -> <<"lapic_timer_isr", 0, 1>>
             [] v = 33 -> <<"keyboard_isr", 0, 1>>
             [] v = 254 -> <<"lapic_error_isr", 0, 1>>
-----------------------------------------------------------------------------
(* The routines, as sequences of instructions <<operation, arguments>>.     *)
(* Offsets are in words.                                                   *)

PUSH_REGS == [i \in 1 .. 15 |-> <<"push", Frame[i]>>]
\* Mutant: two registers are popped in the wrong order.
PopSwapped == [i \in 1 .. 15 |-> <<"pop", Frame[CASE i = 5 -> 12 [] i = 4 -> 11 [] OTHER -> 16 - i]>>]
POP_REGS == [i \in 1 .. 15 |-> <<"pop", Frame[16 - i]>>]

EXCEPTION_ERR == {8, 10, 11, 12, 13, 14, 17, 21}
common == PUSH_REGS \o <<<<"load", "rdi", 15>>, <<"load", "rsi", 16>>, <<"load", "rdx", 17>>,
  <<"load", "rcx", 18>>, <<"load", "r8", 19>>, <<"load", "r9", 20>>, <<"pushm", 21>>,
  <<"call", "exception_handler">>>>
\* Mutant: a stub pushes a second error code.
StubNoErr(v) == <<<<"pushi", 0>>, <<"pushi", v>>>>
Stub(v) == IF v \in EXCEPTION_ERR THEN <<<<"pushi", v>>>> ELSE <<<<"pushi", 0>>, <<"pushi", v>>>>

from_kernel == <<<<"call", "lapic_timer_handler">>>> \o POP_REGS \o <<<<"iretq", 0>>>>
lapic_timer_isr == PUSH_REGS \o
  <<<<"load", "rax", 16>>, <<"jz_ring", 0>>, <<"save_ctx", 0>>,
    <<"call", "lapic_timer_handler">>, <<"switch", 0>>, <<"store", 19, Sel(27)>>>>
  \o POP_REGS \o <<<<"iretq", 0>>>>
keyboard_isr == PUSH_REGS \o <<<<"call", "keyboard_handler">>>> \o POP_REGS \o <<<<"iretq", 0>>>>

lapic_error_isr == <<<<"pushi", 0>>, <<"pushi", 254>>>> \o common

\* syscall_context_t lists the same registers in the order they have in memory.
Context == <<"r15", "r14", "r13", "r12", "r11", "r10", "r9", "r8", "rcx", "rdx", "rsi", "rdi",
             "rbp", "rbx", "rax">>
syscall_handler ==
  <<<<"push", "r12">>, <<"move", "r12", "rsp">>, <<"rsp0", 0>>>>
  \o [i \in 1 .. 15 |-> <<"push", Context[i]>>]
  \o <<<<"call", "syscall_common_handler">>, <<"drop", 1>>>>
  \o [i \in 1 .. 14 |-> <<"pop", Context[15 - i]>>]
  \o <<<<"move", "rsp", "r12">>, <<"pop", "r12">>, <<"sysretq", 0>>>>

task_enter == POP_REGS \o <<<<"iretq", 0>>>>

Code(routine, arg) ==
  CASE routine = "isr" -> Stub(arg) \o common
    [] routine = "lapic_timer_isr" -> lapic_timer_isr
    [] routine = "from_kernel" -> from_kernel
    [] routine = "keyboard_isr" -> keyboard_isr
    [] routine = "lapic_error_isr" -> lapic_error_isr
    [] routine = "syscall_handler" -> syscall_handler
    [] routine = "task_enter" -> task_enter
    [] OTHER -> <<<<"c", 0>>>>      \* boot, or a program
ins == Code(regs["rip"][1], regs["rip"][2])[regs["rip"][3]]
Step(r) == [r EXCEPT !["rip"] = Below(@, 1)]

\* The kernel executes an instruction.
Runs(op) == status = "on" /\ Ring = 0 /\ ins[1] = op
Calls(f) == Runs("call") /\ ins[2] = f
-----------------------------------------------------------------------------
(* Memory.                                                                 *)

Word(off) == mem[StackOf(regs["rsp"])][regs["rsp"][3] - off]
Write(sp, ws) ==
  [mem EXCEPT ![StackOf(sp)] = [i \in 1 .. Depth |->
     IF sp[3] < i /\ i <= sp[3] + Len(ws) THEN ws[i - sp[3]] ELSE @[i]]]
Lose(n) ==
  [mem EXCEPT ![StackOf(regs["rsp"])] = [i \in 1 .. Depth |->
     IF regs["rsp"][3] - n < i /\ i <= regs["rsp"][3] THEN Junk ELSE @[i]]]
-----------------------------------------------------------------------------
(* How the processor enters the kernel.                                    *)

\* The stack it pushes to: an interrupt stack, rsp0 from ring 3, or the one in
\* use, aligned to 16 bytes.
StackFor(v) ==
  IF Ist(v) # 0 THEN <<"ist", Ist(v), 0>>
  ELSE IF Ring = 3 THEN rsp0
  ELSE Below(regs["rsp"], regs["rsp"][3] % 2)

\* Vector v through its gate, err being the error code as a sequence of none or one.
Through(v, err) ==
  LET sp == StackFor(v)
      ws == <<regs["ss"], regs["rsp"], regs["rflags"], regs["cs"], regs["rip"]>> \o err
  IN  /\ mem' = Write(sp, ws)
      /\ regs' = [regs EXCEPT !["rsp"] = Below(sp, Len(ws)), !["rip"] = Gate(v),
                    !["rflags"] = If(0), !["cs"] = Sel(8),
                    !["ss"] = IF Ring = 3 THEN Sel(0) ELSE @]
      /\ UNCHANGED status

ErrorCode(v) == IF v \in {8, 10, 11, 12, 13, 14, 17, 21} THEN <<<<"error", v>>>> ELSE <<>>

\* What exception_handler is to be told.
Raised(v, error) == <<Num(v), error, regs["rip"], regs["cs"], regs["rflags"], regs["rsp"], regs["ss"]>>

\* An exception; a fault while it is delivered is a double fault, and a fault
\* while that is delivered resets the machine.
Raise(v) ==
  LET w == IF Usable(StackFor(v)) THEN v ELSE 8 IN
  /\ IF Usable(StackFor(w)) THEN Through(w, ErrorCode(w)) ELSE status' = "reset" /\ UNCHANGED <<regs, mem>>
  /\ event' = Raised(w, IF ErrorCode(w) = <<>> THEN Num(0) ELSE ErrorCode(w)[1])

\* The timer (0x20) and the keyboard (0x21).
Interrupt(v) ==
  /\ status = "on" /\ regs["rflags"] = If(1)
  /\ Through(v, <<>>)
  /\ UNCHANGED <<rsp0, taskVars, mine, event>>

\* The error interrupt of the local APIC (0xFE), which apic_timer_init unmasks.
ApicError ==
  /\ status = "on" /\ regs["rflags"] = If(1)
  /\ Through(254, <<>>)
  /\ event' = Raised(254, Num(0))
  /\ UNCHANGED <<rsp0, taskVars, mine>>

Fault(v) == status = "on" /\ Ring = 3 /\ Raise(v) /\ UNCHANGED <<rsp0, taskVars, mine>>
Abort(v) ==
  /\ status = "on"
  /\ regs["rip"][1] # "isr"
  /\ Raise(v)
  /\ UNCHANGED <<rsp0, taskVars, mine>>

\* syscall: the return address goes to rcx, the flags to r11; FMASK clears IF.
\* The program gives up rax, and what its asm statement lists as clobbered.
Syscall ==
  /\ status = "on" /\ Ring = 3
  /\ regs' = [regs EXCEPT !["rcx"] = regs["rip"], !["r11"] = regs["rflags"],
                !["rip"] = <<"syscall_handler", 0, 1>>, !["rflags"] = If(0),
                !["cs"] = Sel(StarKernel), !["ss"] = Sel(StarKernel + 8)]
  /\ mine' = [mine EXCEPT ![current]["rax"] = Any, ![current]["rcx"] = Any, ![current]["r11"] = Any]
  /\ UNCHANGED <<status, mem, rsp0, taskVars, event>>

-----------------------------------------------------------------------------
(* Programs.                                                               *)

\* The program that runs puts its own values into its registers.
UserStep ==
  /\ status = "on" /\ Ring = 3
  /\ regs' = [r \in Register |-> IF r \in Gpr THEN <<r, regs["rip"][2]>> ELSE regs[r]]
  /\ mine' = [mine EXCEPT ![regs["rip"][2]] = regs']
  /\ UNCHANGED <<status, mem, rsp0, taskVars, event>>

\* It runs off its stack into pages that are not mapped.  Assumed of programs: the
\* stack pointer is never an address of other memory that is mapped, of the kernel
\* say, where the pushes of syscall_handler would not fault but write.
UserStackLost ==
  /\ status = "on" /\ Ring = 3
  /\ regs' = [regs EXCEPT !["rsp"] = Hole]
  /\ mine' = [mine EXCEPT ![regs["rip"][2]] = regs']
  /\ UNCHANGED <<status, mem, rsp0, taskVars, event>>

-----------------------------------------------------------------------------
(* The kernel's instructions.                                              *)

\* push, pushi, pushm: the push of syscall_handler may be to an unmapped stack.
Push ==
  /\ Runs("push") \/ Runs("pushi") \/ Runs("pushm")
  /\ LET w == CASE ins[1] = "push" -> regs[ins[2]] [] ins[1] = "pushi" -> Num(ins[2])
                [] ins[1] = "pushm" -> Word(ins[2])
     IN  IF Usable(regs["rsp"])
         THEN /\ mem' = Write(regs["rsp"], <<w>>)
              /\ regs' = [Step(regs) EXCEPT !["rsp"] = Below(@, 1)]
              /\ UNCHANGED <<status, event>>
         ELSE Raise(14)
  /\ UNCHANGED <<rsp0, taskVars, mine>>

\* pop, and "add $8, %rsp".
Pop ==
  /\ Runs("pop") \/ Runs("drop")
  /\ regs' = [Step(IF ins[1] = "pop" THEN [regs EXCEPT ![ins[2]] = Word(0)] ELSE regs)
                EXCEPT !["rsp"] = Below(@, -1)]
  /\ mem' = Lose(1)
  /\ UNCHANGED <<status, rsp0, taskVars, mine, event>>

\* mov from the stack, between registers, and of tss.rsp0 to rsp.
Move ==
  /\ Runs("load") \/ Runs("move") \/ Runs("rsp0")
  /\ regs' = Step(CASE ins[1] = "load" -> [regs EXCEPT ![ins[2]] = Word(ins[3])]
                    [] ins[1] = "move" -> [regs EXCEPT ![ins[2]] = regs[ins[3]]]
                    [] ins[1] = "rsp0" -> [regs EXCEPT !["rsp"] = rsp0])
  /\ UNCHANGED <<status, mem, rsp0, taskVars, mine, event>>

Store ==
  /\ Runs("store")
  /\ mem' = [mem EXCEPT ![StackOf(regs["rsp"])][regs["rsp"][3] - ins[2]] = ins[3]]
  /\ regs' = Step(regs)
  /\ UNCHANGED <<status, rsp0, taskVars, mine, event>>

\* and $3, %rax; jz .from_kernel
TestRing ==
  /\ Runs("jz_ring")
  /\ regs' = IF regs["rax"][2] % 4 = 0 THEN [regs EXCEPT !["rip"] = <<"from_kernel", 0, 1>>]
             ELSE Step([regs EXCEPT !["rax"] = Junk])
  /\ UNCHANGED <<status, mem, rsp0, taskVars, mine, event>>

SaveContext ==
  /\ Runs("save_ctx")
  /\ ctx' = IF current = 0 THEN ctx ELSE [ctx EXCEPT ![current] = regs["rsp"]]
  /\ regs' = Step([regs EXCEPT !["rbx"] = Junk])
  /\ UNCHANGED <<status, mem, rsp0, current, dead, mine, event>>

\* From the test of current_task after the handler to the load of rsp.
SwitchTask ==
  /\ Runs("switch")
  /\ IF current = 0
     THEN UNCHANGED rsp0 /\ regs' = [regs EXCEPT !["rip"] = <<"from_kernel", 0, 2>>]
     ELSE rsp0' = <<"kstack", current, 0>> /\ regs' = Step([regs EXCEPT !["rsp"] = ctx[current]])
  /\ UNCHANGED <<status, mem, taskVars, mine, event>>

Iretq ==
  /\ Runs("iretq")
  /\ regs' = [regs EXCEPT !["rip"] = Word(0), !["cs"] = Word(1), !["rflags"] = Word(2),
                          !["rsp"] = Word(3), !["ss"] = Word(4)]
  /\ mem' = Lose(5)
  /\ UNCHANGED <<status, rsp0, taskVars, mine, event>>

Sysretq ==
  /\ Runs("sysretq")
  /\ regs' = [regs EXCEPT !["rip"] = regs["rcx"], !["rflags"] = regs["r11"],
                          !["cs"] = Sel(StarUser + 16 + 3), !["ss"] = Sel(StarUser + 8 + 3)]
  /\ UNCHANGED <<status, mem, rsp0, taskVars, mine, event>>

-----------------------------------------------------------------------------
(* C functions.                                                            *)

Returns == regs' = Step([r \in Register |-> IF r \in CallerSaved THEN Junk ELSE regs[r]])

\* task_enter(t), up to the load of rsp.
Enter(t) ==
  /\ current' = t
  /\ regs' = [regs EXCEPT !["rsp"] = ctx[t], !["rip"] = <<"task_enter", 0, 1>>]

\* schedule() may be part of it; not inside task_enter, which is Switching's EntryRace.
lapic_timer_handler ==
  /\ Calls("lapic_timer_handler")
  /\ current' \in {current} \cup IF Word(15)[1] = "task_enter" THEN {} ELSE Live
  /\ Returns
  /\ UNCHANGED <<status, mem, rsp0, ctx, dead, mine, event>>

keyboard_handler ==
  /\ Calls("keyboard_handler")
  /\ Returns
  /\ UNCHANGED <<status, mem, rsp0, taskVars, mine, event>>

syscall_common_handler ==
  /\ Calls("syscall_common_handler")
  /\ Returns
  /\ UNCHANGED <<status, mem, rsp0, taskVars, mine, event>>

SYS_EXIT ==
  /\ Calls("syscall_common_handler")
  /\ dead' = dead \cup {current}
  /\ \/ Live' # {} /\ \E t \in Live' : Enter(t) /\ UNCHANGED status
     \/ Live' = {} /\ status' = "halted" /\ UNCHANGED <<regs, current>>
  /\ UNCHANGED <<mem, rsp0, ctx, mine, event>>

exception_handler ==
  /\ Calls("exception_handler")
  /\ status' = "halted"
  /\ UNCHANGED <<regs, mem, rsp0, taskVars, mine, event>>

\* The end of EstellaEntry.
BootEnters ==
  /\ status = "on" /\ regs["rip"][1] = "boot"
  /\ Enter(1)
  /\ UNCHANGED <<status, mem, rsp0, ctx, dead, mine, event>>

-----------------------------------------------------------------------------
\* task_create_from_elf: the first context of a task, at the top of its stack.
FirstContext(t) == <<Sel(27), <<"user", t, 0>>, If(1), Sel(35), <<"program", t, 0>>>>

\* After sti in EstellaEntry, on the boot loader's stack.
Init ==
  /\ status = "on" /\ current = 0 /\ dead = {}
  /\ regs = [r \in Register |->
       CASE r = "rsp" -> <<"boot", 0, 0>> [] r = "rip" -> <<"boot", 0, 1>> [] r = "rflags" -> If(1)
         [] r = "cs" -> Sel(8) [] r = "ss" -> Sel(16) [] OTHER -> <<r, 0>>]
  /\ mem = [s \in Stack |-> [i \in 1 .. Depth |->
       IF s[1] = "kstack" /\ i <= 20 THEN (FirstContext(s[2]) \o [j \in 1 .. 15 |-> Num(0)])[i] ELSE Junk]]
  /\ rsp0 = <<"main", 0, 0>>
  /\ ctx = [t \in Task |-> <<"kstack", t, 20>>]
  /\ mine = [t \in 0 .. NTasks |-> IF t = 0 THEN regs ELSE
       [r \in Register |-> IF r \in Gpr THEN Num(0)
          ELSE CASE r = "ss" -> Sel(27) [] r = "rsp" -> <<"user", t, 0>> [] r = "rflags" -> If(1)
                 [] r = "cs" -> Sel(35) [] r = "rip" -> <<"program", t, 0>>]]
  /\ event = <<>>

Next ==
  \/ \E v \in {32, 33} : Interrupt(v)
  \/ \E v \in Faults : Fault(v)
  \/ \E v \in Aborts : Abort(v)
  \/ ApicError \/ Syscall \/ UserStep \/ UserStackLost
  \/ Push \/ Pop \/ Move \/ Store \/ TestRing \/ SaveContext \/ SwitchTask \/ Iretq \/ Sysretq
  \/ lapic_timer_handler \/ keyboard_handler \/ syscall_common_handler \/ SYS_EXIT
  \/ exception_handler \/ BootEnters

Spec == Init /\ [][Next]_vars

-----------------------------------------------------------------------------
Owner == regs["rip"][2]
Interrupted == regs["rip"][1] \in {"boot", "program"}

\* The processor runs on the selectors of kernel and user code only, and every
\* saved context is a whole one at the top of a kernel stack.
TypeOK ==
  /\ status \in {"on", "halted", "reset"}
  /\ DOMAIN regs = Register
  /\ regs["cs"] \in {Sel(8), Sel(35)}
  /\ Usable(regs["rsp"]) => regs["rsp"][3] \in 0 .. Depth
  /\ current \in 0 .. NTasks /\ dead \subseteq Task
  /\ \A t \in Task : ctx[t][1] \in {"kstack", "main"} /\ ctx[t][3] = 20

\* Whatever interrupted a program or boot, and whichever tasks ran meanwhile, it
\* goes on with the registers it had: all of them after an interrupt, all but
\* rax, rcx and r11 after a system call, as the asm of the user library says.
RegistersSurvive ==
  status = "on" /\ Interrupted => \A r \in Register : mine[Owner][r] \in {Any, regs[r]}

\* In every ring cs and ss select descriptors of that ring and kind, whichever
\* way it was entered: gates, syscall, sysretq, iretq.
SelectorsMatch ==
  /\ Describes(regs["cs"], TRUE, Ring)
  /\ Describes(regs["ss"], FALSE, Ring) \/ (Ring = 0 /\ regs["ss"] = Sel(0))

\* exception_handler is given the vector, the error code, and the rip, cs,
\* rflags, rsp and ss of the instruction that was interrupted.
ReportsTrue ==
  Calls("exception_handler") =>
    <<regs["rdi"], regs["rsi"], regs["rdx"], regs["rcx"], regs["r8"], regs["r9"], Word(0)>> = event

\* No exception resets the machine instead of being reported, not even a
\* system call of a program that has run off its stack into unmapped pages.
NeverResets == status # "reset"
=============================================================================
