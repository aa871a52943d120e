----------------------------- MODULE TaskLoader -----------------------------
(***************************************************************************)
(* task_create_from_elf and load_elf: the frames a new task takes from the *)
(* physical memory manager, what is put into them and what its page tables *)
(* map.  The allocator is used through the promise of FrameAllocator.tla:  *)
(* a run of free frames, or NULL when there is none.  The three levels of  *)
(* tables below a top-level entry are one table per region of Span pages   *)
(* (Vmm.tla has the levels).  Tasks are created one after the other, as    *)
(* EstellaEntry does, also after one that did not load (its NULL faults    *)
(* only in scheduler_add_task, when all have been created).                *)
(***************************************************************************)
EXTENDS Integers, Sequences

CONSTANTS NFrames,             \* frames of memory
          Memories,            \* the sets of frames that may be free at first
          Files,               \* the programs: [valid, segs], segs a sequence of [page, n, copied]
          Span,                \* pages below one table
          UserPages,           \* the pages of an address space
          USER_STACK_VADDR, USER_STACK_PAGES, KSTACK_PAGES,
          MaxTasks,            \* bound: tasks created
          Among(_, _)          \* bound: which of the runs of a length that would do may be granted

ASSUME LoaderConstants ==
  /\ NFrames \in Nat \ {0} /\ Memories \subseteq SUBSET (1 .. (NFrames - 1))
  /\ Span \in Nat \ {0} /\ MaxTasks \in Nat
  /\ USER_STACK_PAGES \in Nat \ {0} /\ KSTACK_PAGES \in Nat \ {0}
  /\ UserPages \subseteq Nat /\ USER_STACK_VADDR \in Nat
  /\ Files # {} /\ \A x \in Files :
       /\ x.segs \in Seq([page : Nat, n : Nat, copied : Nat]) /\ x.valid \in BOOLEAN
       /\ \A i \in 1 .. Len(x.segs) :
            LET s == x.segs[i] IN s.page .. (s.page + s.n - 1) \subseteq UserPages
  /\ USER_STACK_VADDR .. (USER_STACK_VADDR + USER_STACK_PAGES - 1) \subseteq UserPages

VARIABLES free,      \* the frames the allocator may grant
          owner,     \* whom a frame was granted to last, and what for: <<task, part>>
          spilt,     \* the frames that a copy longer than its block has written since then
          maps,      \* task -> page -> frame, or None
          tables,    \* the tables the current task has
          kstack,    \* task -> the first frame of its kernel stack
          cur, pc,   \* the task being created, and where
          file,      \* task -> its program
          job,       \* the block being mapped: [page, base, n, i, part]
          ignored    \* an allocation or a mapping failed and nobody looked

vars == <<free, owner, spilt, maps, tables, kstack, cur, pc, file, job, ignored>>

Frames == 0 .. (NFrames - 1)
Tasks == 1 .. MaxTasks
None == -1
NULL == 0

\* What a frame is for: the segment of that number, or one of these.
TaskPage == -1
TopTable == -2
LowerTable == -3
UserStack == -4
KernelStack == -5

Block(b, n) == b .. (b + n - 1)

\* The frames a NULL from the allocator is taken for by callers that do not look.
Low == Block(NULL, IF USER_STACK_PAGES > KSTACK_PAGES THEN USER_STACK_PAGES ELSE KSTACK_PAGES)

\* pmm_alloc_frames_zeroed: a request for no frame is refused too.
Grantable(n) == {b \in Frames : n > 0 /\ Block(b, n) \subseteq free}
Offered(n) == Grantable(n) \cap Among(Grantable(n), n)
pmm_alloc_frames(n) == IF Grantable(n) = {} THEN {NULL} ELSE Offered(n)

\* A block is granted and written, and with it the frames of spill.
\* Mutant: the last frame of a block stays free.
GrantShort(t, b, n, part, spill) ==
  /\ free' = IF b = NULL THEN free ELSE free \ Block(b, n - 1)
  /\ owner' = [f \in Frames |-> IF f \in Block(b, n) THEN <<t, part>> ELSE owner[f]]
  /\ spilt' = (spilt \ Block(b, n)) \cup (spill \cap Frames)
Grant(t, b, n, part, spill) ==
  /\ free' = IF b = NULL THEN free ELSE free \ Block(b, n)
  /\ owner' = [f \in Frames |-> IF f \in Block(b, n) THEN <<t, part>> ELSE owner[f]]
  /\ spilt' = (spilt \ Block(b, n)) \cup (spill \cap Frames)

Init ==
  /\ free \in Memories
  /\ owner = [f \in Frames |-> <<0, 0>>] /\ spilt = {}
  /\ maps = [t \in Tasks |-> [p \in UserPages |-> None]]
  /\ tables = {}
  /\ kstack = [t \in Tasks |-> None]
  /\ cur = 0 /\ pc = "idle"
  /\ file = [t \in Tasks |-> CHOOSE x \in Files : TRUE]
  /\ job = [page |-> 0, base |-> 0, n |-> 0, i |-> 0, part |-> 0]
  /\ ignored = FALSE

-----------------------------------------------------------------------------
\* The page of the task structure is used without a look at the result.
AllocTask(elf) ==
  /\ pc = "idle" /\ cur < MaxTasks
  /\ file' = [file EXCEPT ![cur + 1] = elf]
  /\ cur' = cur + 1 /\ pc' = "pml4" /\ tables' = {}
  /\ \E b \in pmm_alloc_frames(1) :
       /\ Grant(cur + 1, b, 1, TaskPage, {})
       /\ ignored' = (ignored \/ b = NULL)
  /\ UNCHANGED <<maps, kstack, job>>

\* Nor is the result for the top-level table.  With NULL the loader would go
\* on with whatever frame 0 holds as a page table: "wild".
AllocPml4 ==
  /\ pc = "pml4"
  /\ \E b \in pmm_alloc_frames(1) :
       /\ Grant(cur, b, 1, TopTable, {})
       /\ ignored' = (ignored \/ b = NULL)
       /\ pc' = IF b = NULL THEN "wild" ELSE IF file[cur].valid THEN "segment" ELSE "idle"
  /\ job' = [job EXCEPT !.part = 0]
  /\ UNCHANGED <<maps, tables, kstack, cur, file>>

\* job.part is the number of the segment mapped last.
NextSegment == job.part + 1

\* Frames that hold neither page tables, task structures nor the kernel.
Expendable == {f \in Frames : f \in free \/ owner[f][2] \notin {0, TaskPage, TopTable, LowerTable}}

\* A segment gets the n pages its p_memsz needs, and p_filesz bytes are copied
\* to them, which reach over "copied" pages.  Nobody compares the two: a longer
\* copy goes on behind the block.  Over page tables or the kernel: "wild".
Segment ==
  /\ pc = "segment" /\ NextSegment <= Len(file[cur].segs)
  /\ LET s == file[cur].segs[NextSegment] IN
     \E b \in pmm_alloc_frames(s.n) :
       IF b = NULL
       THEN pc' = "idle" /\ UNCHANGED <<free, owner, spilt, job>>
       ELSE LET spill == Block(b, s.copied) \ Block(b, s.n) IN
            /\ Grant(cur, b, s.n, NextSegment, spill)
            /\ job' = [page |-> s.page, base |-> b, n |-> s.n, i |-> 0, part |-> NextSegment]
            /\ pc' = IF spill \subseteq Expendable THEN "map" ELSE "wild"
  /\ UNCHANGED <<maps, tables, kstack, cur, file, ignored>>

-----------------------------------------------------------------------------
(* vmm_map_range_for_pml4, for a segment or for the user stack.            *)

Page == job.page + job.i
Region == Page \div Span

CreateTable ==
  /\ pc = "map" /\ Region \notin tables
  /\ \E b \in Offered(1) : Grant(cur, b, 1, LowerTable, {})
  /\ tables' = tables \cup {Region}
  /\ UNCHANGED <<maps, kstack, cur, pc, file, job, ignored>>

\* Mutant: the loop ends one page early.
MorePagesShort == job.i + 2 < job.n
MorePages == job.i + 1 < job.n

MapPage ==
  /\ pc = "map" /\ Region \in tables /\ maps[cur][Page] = None
  /\ maps' = [maps EXCEPT ![cur][Page] = job.base + job.i]
  /\ IF MorePages
     THEN job' = [job EXCEPT !.i = @ + 1] /\ UNCHANGED pc
     ELSE pc' = (IF job.part = UserStack THEN "kstack" ELSE "segment") /\ UNCHANGED job
  /\ UNCHANGED <<free, owner, spilt, tables, kstack, cur, file, ignored>>

\* load_elf frees the block it could not map; for the stack nobody does.
Released == IF job.part = UserStack THEN {} ELSE Block(job.base, job.n)

\* No frame for a table, or the page is taken.  load_elf frees the block,
\* mapped pages or not, and gives up; for the stack nobody looks.
MapFails ==
  /\ pc = "map"
  /\ IF Region \in tables THEN maps[cur][Page] # None ELSE Grantable(1) = {}
  /\ IF job.part = UserStack
     THEN pc' = "kstack" /\ ignored' = TRUE
     ELSE pc' = "idle" /\ UNCHANGED ignored
  /\ free' = free \cup Released
  /\ UNCHANGED <<owner, spilt, maps, tables, kstack, cur, file, job>>

-----------------------------------------------------------------------------
\* load_elf returned true.  The stacks are used without a look at the result.
AllocUserStack ==
  /\ pc = "segment" /\ NextSegment > Len(file[cur].segs)
  /\ \E b \in pmm_alloc_frames(USER_STACK_PAGES) :
       /\ Grant(cur, b, USER_STACK_PAGES, UserStack, {})
       /\ ignored' = (ignored \/ b = NULL)
       /\ job' = [page |-> USER_STACK_VADDR, base |-> b, n |-> USER_STACK_PAGES, i |-> 0,
                  part |-> UserStack]
  /\ pc' = "map"
  /\ UNCHANGED <<maps, tables, kstack, cur, file>>

AllocKernelStack ==
  /\ pc = "kstack"
  /\ \E b \in pmm_alloc_frames(KSTACK_PAGES) :
       /\ Grant(cur, b, KSTACK_PAGES, KernelStack, {})
       /\ ignored' = (ignored \/ b = NULL)
       /\ kstack' = [kstack EXCEPT ![cur] = b]
  /\ pc' = "idle"
  /\ UNCHANGED <<maps, tables, cur, file, job>>

Next == (\E elf \in Files : AllocTask(elf))
        \/ AllocPml4 \/ Segment \/ CreateTable \/ MapPage \/ MapFails
        \/ AllocUserStack \/ AllocKernelStack

Spec == Init /\ [][Next]_vars

-----------------------------------------------------------------------------
Job == [page : Nat, base : Frames, n : Nat, i : Nat, part : Int]

\* Frame 0 is never given to the allocator, also when the mapping of a block
\* that starts at NULL fails.
TypeOK ==
  /\ free \subseteq Frames \ {NULL}
  /\ owner \in [Frames -> (0 .. MaxTasks) \X Int] /\ spilt \subseteq Frames
  /\ maps \in [Tasks -> [UserPages -> Int]]
  /\ tables \subseteq Nat
  /\ kstack \in [Tasks -> Int]
  /\ cur \in 0 .. MaxTasks
  /\ pc \in {"idle", "pml4", "segment", "map", "kstack", "wild"}
  /\ file \in [Tasks -> Files]
  /\ job \in Job
  /\ ignored \in BOOLEAN

\* The tasks that task_create_from_elf has returned.
Created == {t \in Tasks : kstack[t] # None}

\* A program none of whose segments has more bytes in the file than in memory.
Sized(x) == \A i \in 1 .. Len(x.segs) : x.segs[i].copied <= x.segs[i].n

\* A frame that was granted to t alone for that use, was not given back, and
\* that nobody else wrote unless an ill-sized program was loaded with t or
\* after it; or, after an ignored failure, one of those that NULL stands for.
Holds(t, f, part) ==
  \/ /\ owner[f] = <<t, part>> /\ f \notin free
     /\ f \in spilt => \E u \in t .. cur : ~Sized(file[u])
  \/ ignored /\ f \in Low

\* A task that was created keeps its memory: every page of it that is mapped,
\* and its kernel stack, stay in frames that the allocator does not hand out
\* again, whatever is loaded after it and however that fails.  Nobody else
\* writes them, with two exceptions that the code leaves open: the copy of a
\* segment with p_filesz beyond p_memsz, of a program not loaded before the
\* task, and, out of memory, the frames at NULL, which are then shared.
ImageIntact ==
  \A t \in Created :
    /\ \A p \in UserPages : maps[t][p] # None =>
         \E part \in {UserStack} \cup 1 .. Len(file[t].segs) : Holds(t, maps[t][p], part)
    /\ \A f \in Block(kstack[t], KSTACK_PAGES) : Holds(t, f, KernelStack)

\* A task that was created without an ignored failure is complete: every page
\* of its file is mapped, the pages of a segment in order, and so is its stack.
ProgramComplete ==
  \A t \in Created : ~ignored =>
    /\ \A i \in 1 .. Len(file[t].segs) :
         LET s == file[t].segs[i] IN
         \A k \in 0 .. s.n - 1 :
           maps[t][s.page + k] # None /\ maps[t][s.page + k] = maps[t][s.page] + k
    /\ \A p \in Block(USER_STACK_VADDR, USER_STACK_PAGES) : maps[t][p] # None
=============================================================================
