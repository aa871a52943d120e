-------------------------------- MODULE Vmm --------------------------------
(***************************************************************************)
(* The page tables: vmm.c on four levels of tables, the kernel's address   *)
(* space and the ones task_create_from_elf derives from it.                *)
(*                                                                         *)
(* Addresses that are not multiples of a page are rejected at once and     *)
(* left out.  Tables are frames 1 .. NTables, taken in this order from     *)
(* pmm_alloc_zeroed, which returns NULL when they are used up.  Frame 1 is *)
(* the kernel's top-level table; the bootloader left it with one path of   *)
(* tables and one 2 MiB mapping.  The processor is assumed to keep every   *)
(* translation it may keep: tlb is filled as soon as a page is mapped and  *)
(* emptied only by invlpg.                                                 *)
(***************************************************************************)
EXTENDS VmmConstants, FiniteSets

VARIABLES mem,      \* the entries of every table
          used,     \* how many frames are tables
          spaces,   \* the top-level tables of tasks
          req,      \* the call in progress, or the last one
          tlb,      \* the translations the processor holds for the kernel's space
          dropped   \* pages unmapped with the whole table that held them (history)

vars == <<mem, used, spaces, req, tlb, dropped>>

Pages == KernelPages \cup UserPages
kernel_pml4 == 1
Absent == [p |-> FALSE, huge |-> FALSE, nx |-> FALSE, user |-> FALSE, to |-> 0]
Table(f, u) == [Absent EXCEPT !.p = TRUE, !.to = f, !.user = u]

PML4_INDEX(v) == (v \div (Span * Span * Span)) % TopSpan
PDP_INDEX(v)  == (v \div (Span * Span)) % Span
PD_INDEX(v)   == (v \div Span) % Span
PT_INDEX(v)   == v % Span
KernelHalf    == (TopSpan \div 2) .. (TopSpan - 1)
Huge(v)       == v - (v % Span)

-----------------------------------------------------------------------------
(* Pointers to entries: <<table, index>>, or NULL.                         *)

NULL == <<0, 0>>   \* frame 0 stays empty: what NULL points to is not present
At(m, e) == m[e[1]][e[2]]
Below(m, e, i) == LET x == At(m, e) IN IF x.p THEN <<x.to, i>> ELSE NULL

get_pml4e(root, v) == <<root, PML4_INDEX(v)>>
get_pdpe(m, root, v) == Below(m, get_pml4e(root, v), PDP_INDEX(v))
get_pde(m, root, v) == Below(m, get_pdpe(m, root, v), PD_INDEX(v))

\* The entry that maps v: the last level's, or the one above if it is huge.
get_pte(m, root, v) ==
  LET pde == get_pde(m, root, v)
  IN  IF At(m, pde).p /\ At(m, pde).huge THEN pde ELSE Below(m, pde, PT_INDEX(v))

Present(m, e) == e # NULL /\ At(m, e).p

\* Mutant: an entry that is not a 2 MiB one is overwritten.
FreeUnlessHuge(m, e) == e # NULL /\ ~At(m, e).huge
Free(m, e) == e # NULL /\ ~At(m, e).p

Store(m, e, x) == [m EXCEPT ![e[1]][e[2]] = x]

\* What the processor finds for v: the leaf entry with the frame of v itself
\* and the user bit of the whole path.
Translate(m, root, v) ==
  LET pml4e == m[root][PML4_INDEX(v)]
      pdpe  == m[pml4e.to][PDP_INDEX(v)]
      pde   == m[pdpe.to][PD_INDEX(v)]
      pte   == m[pde.to][PT_INDEX(v)]
      leaf  == IF pde.huge THEN [pde EXCEPT !.to = @ + PT_INDEX(v)] ELSE pte
  IN  IF pml4e.p /\ pdpe.p /\ pde.p /\ leaf.p
      THEN [leaf EXCEPT !.user = @ /\ pml4e.user /\ pdpe.user /\ pde.user]
      ELSE Absent

-----------------------------------------------------------------------------
\* Mutants: a NULL from the allocator is not noticed; a present entry is
\* overwritten; a table below user pages is not marked so.
CreateUnchecked(s, e, user) ==
  IF ~s.ok \/ At(s.mem, e).p THEN s
  ELSE IF s.used = NTables THEN [s EXCEPT !.mem = Store(@, e, Table(0, user))]
  ELSE [s EXCEPT !.mem = Store(@, e, Table(s.used + 1, user)), !.used = @ + 1]
CreateAgain(s, e, user) ==
  IF s.used = NTables THEN [s EXCEPT !.ok = FALSE]
  ELSE [s EXCEPT !.mem = Store(@, e, Table(s.used + 1, user)), !.used = @ + 1]
CreateKernelOnly(s, e, user) ==
  IF ~s.ok \/ At(s.mem, e).p THEN s
  ELSE IF s.used = NTables THEN [s EXCEPT !.ok = FALSE]
  ELSE [s EXCEPT !.mem = Store(@, e, Table(s.used + 1, FALSE)), !.used = @ + 1]

\* A walk so far: [ok, mem, used].  create_table leaves a present entry alone.
create_table(s, e, user) ==
  IF ~s.ok \/ At(s.mem, e).p THEN s
  ELSE IF s.used = NTables THEN [s EXCEPT !.ok = FALSE]
  ELSE [s EXCEPT !.mem = Store(@, e, Table(s.used + 1, user)), !.used = @ + 1]

\* The tables above the page directory, and the page table, made if missing.
Directory(root, v, user) ==
  LET s0 == [ok |-> TRUE, mem |-> mem, used |-> used]
      s1 == create_table(s0, get_pml4e(root, v), user)
  IN  IF s1.ok THEN create_table(s1, get_pdpe(s1.mem, root, v), user) ELSE s1

Tables(root, v, user) ==
  LET s == Directory(root, v, user)
  IN  IF s.ok THEN create_table(s, get_pde(s.mem, root, v), user) ELSE s

\* Mutant: the caller forgets invlpg.
InvlpgForgotten(m, v) ==
  [p \in KernelPages |-> IF ~tlb[p].p THEN Translate(m, kernel_pml4, p) ELSE tlb[p]]

\* The effect of invlpg(v): the translation of v goes, and with it all of a
\* 2 MiB translation; then the processor looks up what it does not hold.
Invlpg(m, v) ==
  LET gone == {v} \cup {p \in KernelPages : tlb[p].huge /\ Huge(p) = Huge(v)}
  IN  [p \in KernelPages |->
         IF p \in gone \/ ~tlb[p].p THEN Translate(m, kernel_pml4, p) ELSE tlb[p]]

\* A call r is [op, root, v, c, n, i, state]: n pages from v on, of which i are
\* done.  The page of its current step, and the entry that will map it:
Page(r) == r.v + r.i

\* Mutant: every page of a range gets the first frame.
LeafFirst(r, c, user) == [Absent EXCEPT !.p = TRUE, !.nx = c[2], !.user = user, !.to = c[1]]
Leaf(r, c, user) == [Absent EXCEPT !.p = TRUE, !.nx = c[2], !.user = user, !.to = c[1] + r.i]

\* One page was handled: the loop goes on, or the call returns.
Return(r, ok) == req' = [r EXCEPT !.state = IF ok THEN "true" ELSE "false"]
Continue(r, ok) == IF ok /\ r.i + 1 < r.n THEN req' = [r EXCEPT !.i = @ + 1] ELSE Return(r, ok)

Idle == req.state # "busy"
Call(op, root, v, c, n) ==
  [op |-> op, root |-> root, v |-> v, c |-> c, n |-> n, i |-> 0, state |-> "busy"]

\* vmm_map, and each iteration of vmm_map_range.
vmm_map(r) ==
  /\ LET s == Tables(kernel_pml4, Page(r), FALSE)
         pte == get_pte(s.mem, kernel_pml4, Page(r))
         fits == s.ok /\ Free(s.mem, pte)
     IN  /\ mem' = IF fits THEN Store(s.mem, pte, Leaf(r, r.c, FALSE)) ELSE s.mem
         /\ used' = s.used
         /\ tlb' = IF fits THEN Invlpg(mem', Page(r)) ELSE tlb
         /\ dropped' = IF fits THEN dropped \ {Page(r)} ELSE dropped
         /\ Continue(r, fits)
  /\ UNCHANGED spaces

\* vmm_map_for_pml4, and each iteration of vmm_map_range_for_pml4: the new
\* tables admit ring 3, and the no-execute bit is cleared.
NoExecute(c) == <<c[1], FALSE>>

vmm_map_for_pml4(r) ==
  /\ LET s == Tables(r.root, Page(r), TRUE)
         pte == Below(s.mem, get_pde(s.mem, r.root, Page(r)), PT_INDEX(Page(r)))
         fits == s.ok /\ Free(s.mem, pte)
     IN  /\ mem' = IF fits THEN Store(s.mem, pte, Leaf(r, NoExecute(r.c), TRUE)) ELSE s.mem
         /\ used' = s.used
         /\ Continue(r, fits)
  /\ UNCHANGED <<spaces, tlb, dropped>>

\* vmm_unmap (one page), and each iteration of vmm_unmap_range (several), which
\* ignores failures.
vmm_unmap(r) ==
  /\ LET pte == get_pte(mem, kernel_pml4, Page(r))
         there == Present(mem, pte)
     IN  /\ mem' = IF there THEN Store(mem, pte, Absent) ELSE mem
         /\ tlb' = IF there THEN Invlpg(mem', Page(r)) ELSE tlb
         /\ Continue(r, there \/ r.n > 1)
  /\ UNCHANGED <<used, spaces, dropped>>

vmm_map_huge_2mb(r) ==
  /\ LET s == Directory(kernel_pml4, r.v, FALSE)
         pde == get_pde(s.mem, kernel_pml4, r.v)
         fits == s.ok /\ ~Present(s.mem, pde)
         aligned == r.v % Span = 0 /\ r.c[1] % Span = 0
     IN  /\ mem' = IF ~aligned THEN mem
                   ELSE IF fits THEN Store(s.mem, pde, [Leaf(r, r.c, FALSE) EXCEPT !.huge = TRUE])
                   ELSE s.mem
         /\ used' = IF aligned THEN s.used ELSE used
         /\ tlb' = IF aligned /\ fits THEN Invlpg(mem', r.v) ELSE tlb
         /\ Return(r, aligned /\ fits)
  /\ UNCHANGED <<spaces, dropped>>

vmm_unmap_huge_2mb(r) ==
  /\ LET pde == get_pde(mem, kernel_pml4, r.v)
         there == r.v % Span = 0 /\ Present(mem, pde)
     IN  /\ mem' = IF there THEN Store(mem, pde, Absent) ELSE mem
         /\ tlb' = IF there THEN Invlpg(mem', r.v) ELSE tlb
         /\ dropped' = IF there /\ ~At(mem, pde).huge
                       THEN dropped \cup {p \in KernelPages : Huge(p) = r.v /\ p # r.v}
                       ELSE dropped
         /\ Return(r, there)
  /\ UNCHANGED <<used, spaces>>

\* task_create_from_elf makes a top-level table and copies the kernel's half.
NewSpace ==
  /\ Idle /\ used < NTables /\ Cardinality(spaces) < MaxSpaces
  /\ used' = used + 1
  /\ mem' = [mem EXCEPT ![used + 1] =
       [i \in DOMAIN @ |-> IF i \in KernelHalf THEN mem[kernel_pml4][i] ELSE Absent]]
  /\ spaces' = spaces \cup {used + 1}
  /\ UNCHANGED <<req, tlb, dropped>>

-----------------------------------------------------------------------------
(* The bootloader's tables, as vmm_init finds them in cr3.                 *)
BootTables ==
  LET empty == [f \in 0 .. NTables |-> [i \in 0 .. TopSpan - 1 |-> Absent]]
  IN  [empty EXCEPT
         ![kernel_pml4][PML4_INDEX(BootPage)] = Table(2, FALSE),
         ![2][PDP_INDEX(BootPage)] = Table(3, FALSE),
         ![3][PD_INDEX(BootPage)] = [Table(BootFrame, FALSE) EXCEPT !.huge = TRUE]]

Init ==
  /\ mem = BootTables
  /\ used = 3
  /\ spaces = {}
  /\ req = [Call("init", kernel_pml4, 0, <<0, FALSE>>, 0) EXCEPT !.state = "true"]
  /\ tlb = [p \in KernelPages |-> Translate(BootTables, kernel_pml4, p)]
  /\ dropped = {}

\* What may run now: the rest of the call in progress, or else any call whose
\* pages are all in S.
Calls(op, roots, S, cs, counts) ==
  IF ~Idle THEN {req} \cap [op : {op}, root : roots, v : S, c : cs, n : counts, i : Nat, state : {"busy"}]
  ELSE {Call(op, t[1], t[2], t[3], t[4]) :
          t \in {u \in roots \X S \X cs \X counts : u[2] .. (u[2] + u[4] - 1) \subseteq S}}

Nothing == <<0, FALSE>>
Kernel == {kernel_pml4}
Counts == 1 .. MaxCount

Next ==
  \/ \E r \in Calls("map", Kernel, KernelPages, Choices, Counts) : vmm_map(r)
  \/ \E r \in Calls("unmap", Kernel, KernelPages, {Nothing}, Counts) : vmm_unmap(r)
  \/ \E r \in Calls("map_huge", Kernel, KernelPages, Choices, {1}) : vmm_map_huge_2mb(r)
  \/ \E r \in Calls("unmap_huge", Kernel, KernelPages, {Nothing}, {1}) : vmm_unmap_huge_2mb(r)
  \/ \E r \in Calls("map_for", spaces, UserPages, Choices, Counts) : vmm_map_for_pml4(r)
  \/ NewSpace

Spec == Init /\ [][Next]_vars

-----------------------------------------------------------------------------
(* The functions that only read.                                           *)

\* Mutant: the offset inside a 2 MiB page is left out.
PhysicalOfBlock(v) ==
  LET pte == get_pte(mem, kernel_pml4, v) IN
  IF ~Present(mem, pte) THEN <<0, FALSE>> ELSE <<At(mem, pte).to, At(mem, pte).nx>>

\* The frame, with the no-execute bit of the entry left in the address.
vmm_get_physical(v) ==
  LET pte == get_pte(mem, kernel_pml4, v) IN
  IF ~Present(mem, pte) THEN <<0, FALSE>>
  ELSE <<At(mem, pte).to + (IF At(mem, pte).huge THEN v % Span ELSE 0), At(mem, pte).nx>>

vmm_get_flags(v) ==
  LET pte == get_pte(mem, kernel_pml4, v) IN
  IF pte = NULL THEN {} ELSE {b \in {"p", "huge", "user"} : At(mem, pte)[b]}

-----------------------------------------------------------------------------
Entry == [p : BOOLEAN, huge : BOOLEAN, nx : BOOLEAN, user : BOOLEAN, to : Nat]

\* Tables are frames the allocator granted: nothing is written through NULL.
TypeOK ==
  /\ mem \in [0 .. NTables -> [0 .. TopSpan - 1 -> Entry]]
  /\ \A i \in 0 .. TopSpan - 1 : mem[0][i] = Absent
  /\ used \in 3 .. NTables
  /\ spaces \subseteq 4 .. used
  /\ req.state \in {"busy", "true", "false"} /\ req.i \in 0 .. MaxCount - 1
  /\ tlb \in [KernelPages -> Entry]
  /\ dropped \subseteq KernelPages

\* The processor never holds a translation that is no longer in the tables,
\* except for the pages that vmm_unmap_huge_2mb took away together with a
\* page table: it invalidates the first page of the 2 MiB only.
TlbCoherent ==
  \A p \in KernelPages \ dropped : tlb[p] = Translate(mem, kernel_pml4, p)

\* Ring 3 reaches the pages mapped by vmm_map_for_pml4 and no page of the
\* kernel: the user bit is set along the whole path of the former, and
\* somewhere missing on every path to the latter.
RingsSeparated ==
  \A r \in spaces \cup {kernel_pml4}, v \in Pages :
    LET t == Translate(mem, r, v) IN t.p => (t.user <=> v \in UserPages)

\* A task sees what the kernel maps and unmaps after the task was created,
\* wherever the kernel had a top-level entry at that time: the lower tables
\* are shared, and no operation replaces a top-level entry.
KernelHalfShared ==
  \A r \in spaces, v \in KernelPages :
    mem[r][PML4_INDEX(v)].p => Translate(mem, r, v) = Translate(mem, kernel_pml4, v)

\* A call that returned true mapped every page of its range to its frame; one
\* that stopped left the pages before the failing one mapped.
RangeResult ==
  req.op \in {"map", "map_for"} =>
    \A j \in 0 .. (IF req.state = "true" THEN req.n ELSE req.i) - 1 :
      Translate(mem, req.root, req.v + j).to = req.c[1] + j

\* vmm_get_physical and vmm_get_flags report what the processor would use;
\* the no-execute bit comes back inside the address.
PhysicalAgrees ==
  \A v \in KernelPages :
    LET t == Translate(mem, kernel_pml4, v) IN
    /\ vmm_get_physical(v) = IF t.p THEN <<t.to, t.nx>> ELSE <<0, FALSE>>
    /\ vmm_get_flags(v) = {b \in {"p", "huge", "user"} : t[b]}

\* The processor, vmm_get_physical and vmm_get_flags never disagree with the
\* tables, which lie in frames the allocator granted.
TranslationsAgree == TypeOK /\ TlbCoherent /\ PhysicalAgrees

-----------------------------------------------------------------------------
\* The refinement mapping: what the tables under root map.
ViewOf(root, S) ==
  [v \in S |-> LET t == Translate(mem, root, v) IN IF t.p THEN t.to ELSE -1]
BlocksOf(root, S) ==
  {Huge(v) : v \in {w \in S : Translate(mem, root, w).huge}}
Targets == {c[1] + i : c \in Choices, i \in 0 .. MaxCount}

\* The pages of all tasks side by side: page v under the root r is r * Top + v.
TaskPages == {r * Top + v : r \in 4 .. NTables, v \in UserPages}

TaskSpaces == INSTANCE AddressSpace WITH
  Pages <- TaskPages, blocks <- {},
  view <- [p \in TaskPages |->
             LET r == p \div Top IN IF r \in spaces THEN ViewOf(r, UserPages)[p % Top] ELSE -1]

KernelSpace == INSTANCE AddressSpace WITH
  Pages <- KernelPages,
  view <- ViewOf(kernel_pml4, KernelPages), blocks <- BlocksOf(kernel_pml4, KernelPages)

\* The kernel's four levels of tables are a partial map in which a call
\* changes its own pages only: creating tables on the way, running out of
\* frames half-way, and unmapping through a 2 MiB entry (vmm_unmap clears all
\* of it) or above a page table included.
KernelMapsPages == KernelSpace!Spec

\* The tasks' tables are partial maps: vmm_map_for_pml4 in one address space
\* changes one page there and none of another task's, and kernel calls change
\* none.
TasksMapPages == TaskSpaces!Spec
=============================================================================
