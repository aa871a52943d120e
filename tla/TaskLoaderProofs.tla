-------------------------- MODULE TaskLoaderProofs --------------------------
(***************************************************************************)
(* Proofs about TaskLoader, for every memory, every set of programs, all   *)
(* sizes of the stacks and any number of tasks.                            *)
(***************************************************************************)
EXTENDS TaskLoader, TLAPS

Parts(t) == {UserStack} \cup 1 .. Len(file[t].segs)

\* Holds, and the frame exists.
Owns(t, f, part) ==
  \/ f \in Frames /\ owner[f] = <<t, part>> /\ f \notin free
  \/ ignored /\ f \in Low

\* A task whose memory matters: created, or being created.
Live(t) == t \in Created \/ (t = cur /\ pc \in {"pml4", "segment", "map", "kstack"})

\* Tasks are created in order, and the one being created is not done.
OrderInv ==
  /\ \A t \in Tasks : t > cur => kstack[t] = None /\ \A p \in UserPages : maps[t][p] = None
  /\ pc # "idle" => cur \in Tasks /\ kstack[cur] = None

\* What live tasks have mapped is theirs, and so are kernel stacks.
MemoryInv ==
  /\ \A t \in Tasks : Live(t) => \A p \in UserPages :
       maps[t][p] # None => \E part \in Parts(t) : Owns(t, maps[t][p], part)
  /\ \A t \in Created : \A f \in Block(kstack[t], KSTACK_PAGES) : Owns(t, f, KernelStack)

\* The block that is being mapped belongs to the current task.  Only the user
\* stack may be what NULL stands for, so that what load_elf frees is its own.
JobInv ==
  /\ pc = "segment" => job.part \in 0 .. Len(file[cur].segs)
  /\ pc = "map" =>
       /\ job.part \in Parts(cur) /\ job.i < job.n
       /\ job.part = UserStack \/ job.base # NULL
       /\ \A f \in Block(job.base, job.n) :
            \/ f \in Frames /\ owner[f] = <<cur, job.part>> /\ f \notin free
            \/ job.part = UserStack /\ ignored /\ f \in Low

Inv == TypeOK /\ OrderInv /\ MemoryInv /\ JobInv

\* The sizes are numbers, and there is room for every stack.
LEMMA Sizes ==
  /\ NFrames \in Nat \ {0} /\ MaxTasks \in Nat /\ Span \in Nat \ {0}
  /\ USER_STACK_PAGES \in Nat \ {0} /\ KSTACK_PAGES \in Nat \ {0}
  /\ USER_STACK_VADDR \in Nat /\ UserPages \subseteq Nat
BY LoaderConstants

\* A program is a sequence of segments.
LEMMA Programs == \A x \in Files : x.segs \in Seq([page : Nat, n : Nat, copied : Nat])
BY LoaderConstants

\* The elements of a sequence over S are members of S.
LEMMA Element == ASSUME NEW S, NEW q \in Seq(S), NEW i \in 1 .. Len(q) PROVE q[i] \in S
OBVIOUS

USE SMTT(40), ZenonT(40)
USE Sizes DEF Tasks, Frames, NULL, None, UserStack, KernelStack, TaskPage, TopTable, LowerTable

-----------------------------------------------------------------------------
\* A block that is granted consists of free frames and is not NULL.
LEMMA GrantedIsFree ==
  ASSUME TypeOK, NEW n \in Nat, NEW b \in Grantable(n)
  PROVE  b \in Frames /\ b # NULL /\ n > 0 /\ Block(b, n) \subseteq free
<1>1. b \in Frames /\ n > 0 /\ Block(b, n) \subseteq free
  BY DEF Grantable
<1>2. b \in Block(b, n)
  BY <1>1 DEF Block
<1> QED
  BY <1>1, <1>2 DEF TypeOK

\* What the allocator may answer.
LEMMA AllocAnswer ==
  ASSUME TypeOK, NEW n \in Nat, NEW b \in pmm_alloc_frames(n)
  PROVE  /\ b \in Frames
         /\ b # NULL => n > 0 /\ Block(b, n) \subseteq free
<1>1. CASE Grantable(n) = {}
  BY <1>1 DEF pmm_alloc_frames
<1>2. CASE Grantable(n) # {}
  <2>1. b \in Grantable(n)
    BY <1>2 DEF pmm_alloc_frames, Offered
  <2> QED
    BY <2>1, GrantedIsFree
<1> QED
  BY <1>1, <1>2

\* A grant keeps the types of free and owner.
LEMMA GrantType ==
  ASSUME TypeOK, NEW t \in 0 .. MaxTasks, NEW b \in Frames, NEW n \in Nat, NEW part \in Int,
         NEW spill, Grant(t, b, n, part, spill)
  PROVE  /\ free' \subseteq Frames \ {NULL}
         /\ owner' \in [Frames -> (0 .. MaxTasks) \X Int]
         /\ spilt' \subseteq Frames
<1>1. free' \subseteq Frames \ {NULL}
  BY ZenonT(40) DEF Grant, TypeOK
<1>2. <<t, part>> \in (0 .. MaxTasks) \X Int
  OBVIOUS
<1>3. \A f \in Frames : owner[f] \in (0 .. MaxTasks) \X Int
  BY DEF TypeOK
<1>4. spilt' \subseteq Frames
  BY ZenonT(40) DEF Grant, TypeOK
<1> QED
  BY <1>1, <1>2, <1>3, <1>4 DEF Grant

\* A grant takes nothing from anybody: the block was free, or it is NULL's and
\* the failure is recorded.
LEMMA GrantKeeps ==
  ASSUME TypeOK, NEW t, NEW b \in Frames, NEW n \in Nat, NEW part,
         NEW spill, Grant(t, b, n, part, spill),
         b # NULL => Block(b, n) \subseteq free,
         b = NULL => ignored' /\ Block(NULL, n) \subseteq Low,
         ignored => ignored',
         NEW u, NEW f, NEW q, Owns(u, f, q)
  PROVE  Owns(u, f, q)'
<1>1. CASE ignored /\ f \in Low
  BY <1>1 DEF Owns, Low, Block
<1>2. CASE f \in Frames /\ owner[f] = <<u, q>> /\ f \notin free /\ f \notin Block(b, n)
  BY <1>2 DEF Owns, Grant
<1>3. CASE f \in Block(b, n) /\ f \notin free
  <2>1. b = NULL
    BY <1>3
  <2>2. ignored' /\ f \in Low
    BY <1>3, <2>1
  <2> QED
    BY <2>2 DEF Owns, Low, Block
<1> QED
  BY <1>1, <1>2, <1>3 DEF Owns

\* What is granted belongs to whom it was granted to.
LEMMA GrantGives ==
  ASSUME TypeOK, NEW t, NEW b \in Frames, NEW n \in Nat, NEW part,
         NEW spill, Grant(t, b, n, part, spill), b # NULL, Block(b, n) \subseteq free,
         NEW f \in Block(b, n)
  PROVE  f \in Frames /\ owner'[f] = <<t, part>> /\ f \notin free'
BY ZenonT(40) DEF Grant, TypeOK

\* The blocks that are asked for without a look at the result lie in Low if the
\* answer is NULL.
LEMMA LowBlocks ==
  /\ Block(NULL, 1) \subseteq Low
  /\ Block(NULL, USER_STACK_PAGES) \subseteq Low
  /\ Block(NULL, KSTACK_PAGES) \subseteq Low
BY DEF Block, Low

\* Memory that nobody lost stays in order while nothing is mapped and no task
\* is finished.
LEMMA MemoryStep ==
  ASSUME TypeOK, MemoryInv, maps' = maps, kstack' = kstack,
         \A t \in Tasks : Live(t)' =>
           \/ Live(t) /\ file'[t] = file[t]
           \/ kstack[t] = None /\ \A p \in UserPages : maps[t][p] = None,
         \A t \in Tasks : Live(t)' => \A f, q : Owns(t, f, q) => Owns(t, f, q)'
  PROVE  MemoryInv'
<1>1. Created' = Created
  BY DEF Created
<1>2. ASSUME NEW t \in Tasks, Live(t)', NEW p \in UserPages, maps'[t][p] # None
      PROVE  \E part \in Parts(t)' : Owns(t, maps[t][p], part)'
  <2>1. Live(t) /\ file'[t] = file[t]
    BY <1>2, ZenonT(40)
  <2>2. PICK part \in Parts(t) : Owns(t, maps[t][p], part)
    BY <1>2, <2>1 DEF MemoryInv
  <2>3. part \in Parts(t)'
    BY <2>1, <2>2 DEF Parts
  <2>4. Owns(t, maps[t][p], part)'
    BY <1>2, <2>2
  <2> QED
    BY <2>3, <2>4
<1>3. ASSUME NEW t \in Created', NEW f \in Block(kstack'[t], KSTACK_PAGES)
      PROVE  Owns(t, f, KernelStack)'
  <2>1. t \in Tasks /\ Live(t)'
    BY <1>3 DEF Created, Live
  <2>2. Owns(t, f, KernelStack)
    BY <1>1, <1>3 DEF MemoryInv
  <2> QED
    BY <2>1, <2>2
<1> QED
  BY <1>2, <1>3 DEF MemoryInv

-----------------------------------------------------------------------------
\* The initial states satisfy the invariant.
LEMMA InitInv == Init => Inv
<1> SUFFICES ASSUME Init PROVE Inv
  OBVIOUS
<1> USE DEF Init
<1>1. TypeOK
  <2>1. free \subseteq Frames \ {NULL}
    BY LoaderConstants
  <2>2. owner \in [Frames -> (0 .. MaxTasks) \X Int]
    <3>1. <<0, 0>> \in (0 .. MaxTasks) \X Int
      OBVIOUS
    <3> QED
      BY <3>1
  <2>3. file \in [Tasks -> Files]
    <3>1. (CHOOSE x \in Files : TRUE) \in Files
      BY LoaderConstants
    <3> QED
      BY <3>1
  <2>4. job \in Job
    BY DEF Job
  <2>5. maps \in [Tasks -> [UserPages -> Int]] /\ kstack \in [Tasks -> Int] /\ cur \in 0 .. MaxTasks
    OBVIOUS
  <2> QED
    BY <2>1, <2>2, <2>3, <2>4, <2>5, ZenonT(40) DEF TypeOK
<1>2. OrderInv
  BY DEF OrderInv
<1>3. MemoryInv
  BY DEF MemoryInv, Created, Live
<1>4. JobInv
  BY DEF JobInv
<1> QED
  BY <1>1, <1>2, <1>3, <1>4 DEF Inv

\* AllocTask keeps the invariant: the new task has nothing mapped yet.
LEMMA AllocTaskInv ==
  ASSUME Inv, NEW elf \in Files, AllocTask(elf)
  PROVE  Inv'
<1> USE DEF Inv
<1>1. PICK b \in pmm_alloc_frames(1) : Grant(cur + 1, b, 1, TaskPage, {}) /\ ignored' = (ignored \/ b = NULL)
  BY DEF AllocTask
<1>2. b \in Frames /\ (b # NULL => Block(b, 1) \subseteq free)
  BY AllocAnswer
<1>3. cur + 1 \in Tasks /\ cur' = cur + 1 /\ pc' = "pml4"
  BY DEF AllocTask, TypeOK
<1>4. TypeOK'
  <2>1. free' \subseteq Frames \ {NULL} /\ owner' \in [Frames -> (0 .. MaxTasks) \X Int] /\ spilt' \subseteq Frames
    <3>1. TypeOK /\ cur + 1 \in 0 .. MaxTasks /\ TaskPage \in Int
      BY <1>3
    <3> QED
      BY <1>1, <1>2, <3>1, GrantType
  <2>2. ignored' \in BOOLEAN
    BY <1>1
  <2>3. file' \in [Tasks -> Files]
    BY DEF TypeOK, AllocTask
  <2>4. cur' \in 0 .. MaxTasks
    BY <1>3
  <2> QED
    BY <1>3, <2>1, <2>2, <2>3, <2>4, ZenonT(40) DEF TypeOK, AllocTask
<1>5. OrderInv'
  BY <1>3 DEF OrderInv, AllocTask, TypeOK
<1>6. MemoryInv'
  <2>1. \A t, f, q : Owns(t, f, q) => Owns(t, f, q)'
    BY <1>1, <1>2, GrantKeeps, LowBlocks, ZenonT(40)
  <2>2. ASSUME NEW t \in Tasks, Live(t)'
        PROVE  \/ Live(t) /\ file'[t] = file[t]
               \/ kstack[t] = None /\ \A p \in UserPages : maps[t][p] = None
    <3>1. CASE t = cur + 1
      BY <1>3, <3>1 DEF OrderInv, TypeOK
    <3>2. CASE t # cur + 1
      BY <1>3, <2>2, <3>2 DEF Live, Created, AllocTask, TypeOK
    <3> QED
      BY <3>1, <3>2, ZenonT(40)
  <2> QED
    BY <2>1, <2>2, MemoryStep DEF AllocTask
<1>7. JobInv'
  BY <1>3 DEF JobInv
<1> QED
  BY <1>4, <1>5, <1>6, <1>7

\* AllocPml4 keeps the invariant.
LEMMA AllocPml4Inv ==
  ASSUME Inv, AllocPml4
  PROVE  Inv'
<1> USE DEF Inv
<1>1. PICK b \in pmm_alloc_frames(1) :
        /\ Grant(cur, b, 1, TopTable, {}) /\ ignored' = (ignored \/ b = NULL)
        /\ pc' = IF b = NULL THEN "wild" ELSE IF file[cur].valid THEN "segment" ELSE "idle"
  BY DEF AllocPml4
<1>2. b \in Frames /\ (b # NULL => Block(b, 1) \subseteq free)
  BY AllocAnswer
<1>3. cur \in Tasks /\ kstack[cur] = None /\ pc' \in {"wild", "segment", "idle"}
  BY <1>1 DEF AllocPml4, OrderInv
<1>4. TypeOK'
  <2>1. free' \subseteq Frames \ {NULL} /\ owner' \in [Frames -> (0 .. MaxTasks) \X Int] /\ spilt' \subseteq Frames
    <3>1. TypeOK /\ cur \in 0 .. MaxTasks /\ TopTable \in Int
      BY <1>3
    <3> QED
      BY <1>1, <1>2, <3>1, GrantType
  <2>2. ignored' \in BOOLEAN
    BY <1>1
  <2>3. job' \in Job
    <3>1. job \in Job /\ job' = [job EXCEPT !.part = 0]
      BY DEF TypeOK, AllocPml4
    <3> QED
      BY <3>1 DEF Job
  <2>4. pc' \in {"idle", "pml4", "segment", "map", "kstack", "wild"}
    BY <1>3
  <2> QED
    BY <2>1, <2>2, <2>3, <2>4, ZenonT(40) DEF TypeOK, AllocPml4
<1>5. OrderInv'
  BY <1>3 DEF OrderInv, AllocPml4
<1>6. MemoryInv'
  <2>1. \A t, f, q : Owns(t, f, q) => Owns(t, f, q)'
    BY <1>1, <1>2, GrantKeeps, LowBlocks, ZenonT(40)
  <2>2. \A t \in Tasks : Live(t)' => Live(t) /\ file'[t] = file[t]
    BY <1>3 DEF Live, Created, AllocPml4
  <2> QED
    BY <2>1, <2>2, MemoryStep DEF AllocPml4
<1>7. JobInv'
  <2>1. job'.part = 0
    BY DEF AllocPml4, TypeOK, Job
  <2>2. Len(file[cur].segs) \in Nat
    BY <1>3 DEF TypeOK
  <2> QED
    BY <1>3, <2>1, <2>2 DEF JobInv, AllocPml4
<1> QED
  BY <1>4, <1>5, <1>6, <1>7

\* Segment keeps the invariant: the block it starts to map is all its own.
LEMMA SegmentInv ==
  ASSUME Inv, Segment
  PROVE  Inv'
<1> USE DEF Inv
<1> DEFINE s == file[cur].segs[NextSegment]
<1>1. cur \in Tasks /\ kstack[cur] = None
  BY DEF Segment, OrderInv
<1>2. NextSegment \in 1 .. Len(file[cur].segs)
  <2>1. file[cur].segs \in Seq([page : Nat, n : Nat, copied : Nat])
    BY <1>1, Programs DEF TypeOK
  <2>2. Len(file[cur].segs) \in Nat
    BY <2>1
  <2> QED
    BY <2>2 DEF Segment, NextSegment, JobInv
<1>3. s.n \in Nat /\ s.page \in Nat
  <2>1. file[cur].segs \in Seq([page : Nat, n : Nat, copied : Nat])
    BY <1>1, Programs DEF TypeOK
  <2>2. s \in [page : Nat, n : Nat, copied : Nat]
    BY <1>2, <2>1, Element, ZenonT(40)
  <2> QED
    BY <2>2
<1> HIDE DEF s
<1>4. PICK b \in pmm_alloc_frames(s.n) :
        IF b = NULL
        THEN pc' = "idle" /\ UNCHANGED <<free, owner, spilt, job>>
        ELSE /\ Grant(cur, b, s.n, NextSegment, Block(b, s.copied) \ Block(b, s.n))
             /\ job' = [page |-> s.page, base |-> b, n |-> s.n, i |-> 0, part |-> NextSegment]
             /\ pc' \in {"map", "wild"}
  BY ZenonT(40) DEF Segment, s
<1>5. b \in Frames /\ (b # NULL => s.n > 0 /\ Block(b, s.n) \subseteq free)
  BY <1>3, AllocAnswer
<1>6. CASE b = NULL
  <2>1. pc' = "idle" /\ UNCHANGED <<free, owner, spilt, job, maps, tables, kstack, cur, file, ignored>>
    BY <1>4, <1>6 DEF Segment
  <2>2. TypeOK'
    BY <2>1, SMTT(40) DEF TypeOK
  <2>3. OrderInv'
    BY <2>1 DEF OrderInv
  <2>4. MemoryInv'
    <3>1. \A t, f, q : Owns(t, f, q) => Owns(t, f, q)'
      BY <2>1 DEF Owns, Low, Block
    <3>2. \A t \in Tasks : Live(t)' => Live(t) /\ file'[t] = file[t]
      BY <2>1 DEF Live, Created
    <3> QED
      BY <2>1, <3>1, <3>2, MemoryStep
  <2>5. JobInv'
    BY <2>1 DEF JobInv
  <2> QED
    BY <2>2, <2>3, <2>4, <2>5
<1>7. CASE b # NULL
  <2>1. /\ Grant(cur, b, s.n, NextSegment, Block(b, s.copied) \ Block(b, s.n))
        /\ job' = [page |-> s.page, base |-> b, n |-> s.n, i |-> 0, part |-> NextSegment]
        /\ pc' \in {"map", "wild"}
        /\ UNCHANGED <<maps, tables, kstack, cur, file, ignored>>
    BY <1>4, <1>7 DEF Segment
  <2>2. TypeOK'
    <3>1. NextSegment \in Int /\ cur \in 0 .. MaxTasks
      BY <1>1, <1>2
    <3>2. free' \subseteq Frames \ {NULL} /\ owner' \in [Frames -> (0 .. MaxTasks) \X Int] /\ spilt' \subseteq Frames
      BY <1>3, <1>5, <2>1, <3>1, GrantType
    <3>3. job' \in Job
      BY <1>3, <1>5, <2>1, <3>1 DEF Job
    <3> QED
      BY <2>1, <3>2, <3>3, ZenonT(40) DEF TypeOK
  <2>3. OrderInv'
    BY <1>1, <2>1 DEF OrderInv
  <2>4. MemoryInv'
    <3>1. \A t, f, q : Owns(t, f, q) => Owns(t, f, q)'
      BY <1>3, <1>5, <1>7, <2>1, GrantKeeps
    <3>2. \A t \in Tasks : Live(t)' => Live(t) /\ file'[t] = file[t]
      BY <1>1, <2>1 DEF Live, Created, Segment
    <3> QED
      BY <2>1, <3>1, <3>2, MemoryStep
  <2>5. JobInv'
    <3>1. /\ job'.part = NextSegment /\ job'.base = b /\ job'.n = s.n /\ job'.i = 0
      BY <2>1
    <3>2. \A f \in Block(b, s.n) : f \in Frames /\ owner'[f] = <<cur, NextSegment>> /\ f \notin free'
      BY <1>3, <1>5, <1>7, <2>1, GrantGives, ZenonT(40)
    <3>3. NextSegment \in Parts(cur)'
      BY <1>2, <2>1 DEF Parts
    <3>4. 0 < s.n
      BY <1>3, <1>5, <1>7
    <3> QED
      BY <1>7, <2>1, <3>1, <3>2, <3>3, <3>4 DEF JobInv, Block
  <2> QED
    BY <2>2, <2>3, <2>4, <2>5
<1> QED
  BY <1>6, <1>7

\* CreateTable keeps the invariant: a table is made of a free frame.
LEMMA CreateTableInv ==
  ASSUME Inv, CreateTable
  PROVE  Inv'
<1> USE DEF Inv
<1>1. PICK b \in Grantable(1) : Grant(cur, b, 1, LowerTable, {})
  BY DEF CreateTable, Offered
<1>2. b \in Frames /\ b # NULL /\ Block(b, 1) \subseteq free
  BY GrantedIsFree
<1>3. cur \in Tasks /\ UNCHANGED <<maps, kstack, cur, pc, file, job, ignored>> /\ pc = "map"
  BY DEF CreateTable, OrderInv
<1>4. TypeOK'
  <2>1. cur \in 0 .. MaxTasks /\ LowerTable \in Int
    BY <1>3
  <2>2. free' \subseteq Frames \ {NULL} /\ owner' \in [Frames -> (0 .. MaxTasks) \X Int] /\ spilt' \subseteq Frames
    BY <1>1, <1>2, <2>1, GrantType
  <2>3. Region \in Nat
    <3>1. job.page + job.i \in Nat
      BY DEF TypeOK, Job
    <3> QED
      BY <3>1 DEF Region, Page
  <2>4. tables' \subseteq Nat
    BY <2>3 DEF CreateTable, TypeOK
  <2> QED
    BY <1>3, <2>2, <2>4, ZenonT(40) DEF TypeOK
<1>5. OrderInv'
  BY <1>3, ZenonT(40) DEF OrderInv
<1>6. \A t, f, q : Owns(t, f, q) => Owns(t, f, q)'
  BY <1>1, <1>2, <1>3, GrantKeeps
<1>7. MemoryInv'
  <2>1. \A t \in Tasks : Live(t)' => Live(t) /\ file'[t] = file[t]
    BY <1>3 DEF Live, Created
  <2> QED
    BY <1>3, <1>6, <2>1, MemoryStep
<1>8. JobInv'
  <2>1. Parts(cur)' = Parts(cur)
    BY <1>3 DEF Parts
  <2>2. ASSUME NEW f \in Block(job.base, job.n)
        PROVE  \/ f \in Frames /\ owner'[f] = <<cur, job.part>> /\ f \notin free'
               \/ job.part = UserStack /\ ignored /\ f \in Low
    <3>1. CASE job.part = UserStack /\ ignored /\ f \in Low
      BY <3>1
    <3>2. CASE f \in Frames /\ owner[f] = <<cur, job.part>> /\ f \notin free
      <4>1. f \notin Block(b, 1)
        BY <1>2, <3>2
      <4> QED
        BY <1>1, <3>2, <4>1 DEF Grant
    <3> QED
      BY <1>3, <2>2, <3>1, <3>2 DEF JobInv
  <2> QED
    BY <1>3, <2>1, <2>2 DEF JobInv, Block, Low
<1> QED
  BY <1>4, <1>5, <1>7, <1>8

\* MapPage keeps the invariant: the page it maps is one of the block.
LEMMA MapPageInv ==
  ASSUME Inv, MapPage
  PROVE  Inv'
<1> USE DEF Inv
<1> DEFINE b == job.base + job.i
<1>1. /\ cur \in Tasks /\ kstack[cur] = None /\ pc = "map"
      /\ UNCHANGED <<free, owner, spilt, tables, kstack, cur, file, ignored>>
      /\ pc' \in {"map", "kstack", "segment"}
  BY DEF MapPage, OrderInv
<1>2. job.base \in Frames /\ job.i \in Nat /\ job.n \in Nat /\ job.part \in Int
  BY DEF TypeOK, Job
<1>3. maps' = [maps EXCEPT ![cur][Page] = b] /\ b \in Int
  BY <1>2 DEF MapPage
<1>4. b \in Block(job.base, job.n)
  BY <1>1, <1>2 DEF JobInv, Block
<1>5. Owns(cur, b, job.part) /\ job.part \in Parts(cur)
  BY <1>1, <1>4 DEF JobInv, Owns
<1> HIDE DEF b
<1>6. TypeOK'
  <2>1. maps' \in [Tasks -> [UserPages -> Int]]
    BY <1>1, <1>3, ZenonT(40) DEF TypeOK
  <2>2. job' \in Job
    <3>1. job \in Job /\ (job' = job \/ job' = [job EXCEPT !.i = @ + 1])
      BY DEF TypeOK, MapPage
    <3> QED
      BY <3>1 DEF Job
  <2>3. pc' \in {"idle", "pml4", "segment", "map", "kstack", "wild"}
    BY <1>1
  <2> QED
    BY <1>1, <2>1, <2>2, <2>3, ZenonT(40) DEF TypeOK
<1>7. OrderInv'
  <2>1. \A t \in Tasks : t > cur => maps'[t] = maps[t]
    BY <1>1, <1>3 DEF TypeOK
  <2> QED
    BY <1>1, <2>1, ZenonT(40) DEF OrderInv
<1>8. MemoryInv'
  <2>1. \A t, f, q : Owns(t, f, q)' <=> Owns(t, f, q)
    BY <1>1 DEF Owns, Low, Block
  <2>2. \A t \in Tasks : (Live(t)' => Live(t)) /\ Parts(t)' = Parts(t)
    BY <1>1 DEF Live, Created, Parts
  <2>3. Created' = Created
    BY <1>1 DEF Created
  <2>4. ASSUME NEW t \in Tasks, Live(t)', NEW p \in UserPages, maps'[t][p] # None
        PROVE  \E part \in Parts(t)' : Owns(t, maps[t][p], part)'
    <3>1. CASE t = cur /\ p = Page
      <4>1. maps'[t][p] = b
        BY <1>3, <2>4, <3>1 DEF TypeOK
      <4> QED
        BY <1>5, <2>1, <2>2, <3>1, <4>1
    <3>2. CASE ~(t = cur /\ p = Page)
      <4>1. maps'[t][p] = maps[t][p]
        BY <1>3, <2>4, <3>2 DEF TypeOK
      <4>2. PICK part \in Parts(t) : Owns(t, maps[t][p], part)
        BY <2>2, <2>4, <4>1, ZenonT(40) DEF MemoryInv
      <4>3. Owns(t, maps'[t][p], part)
        BY <4>1, <4>2
      <4> QED
        BY <2>1, <2>2, <4>2, <4>3
    <3> QED
      BY <3>1, <3>2
  <2>5. \A t \in Created' : \A f \in Block(kstack'[t], KSTACK_PAGES) : Owns(t, f, KernelStack)'
    BY <1>1, <2>1, <2>3 DEF MemoryInv
  <2> QED
    BY <2>4, <2>5 DEF MemoryInv
<1>9. JobInv'
  <2>1. CASE MorePages
    <3>1. job' = [job EXCEPT !.i = @ + 1] /\ pc' = "map"
      BY <1>1, <2>1 DEF MapPage
    <3>2. job'.base = job.base /\ job'.n = job.n /\ job'.part = job.part /\ job'.i = job.i + 1
      BY <3>1 DEF TypeOK, Job
    <3>3. Parts(cur)' = Parts(cur)
      BY <1>1 DEF Parts
    <3> QED
      BY <1>1, <2>1, <3>1, <3>2, <3>3 DEF JobInv, MorePages, Block, Low
  <2>2. CASE ~MorePages
    <3>1. job' = job /\ pc' = IF job.part = UserStack THEN "kstack" ELSE "segment"
      BY <2>2 DEF MapPage
    <3>2. job.part # UserStack => job.part \in 0 .. Len(file[cur].segs)
      BY <1>2, <1>5 DEF Parts
    <3> QED
      BY <1>1, <3>1, <3>2 DEF JobInv
  <2> QED
    BY <2>1, <2>2
<1> QED
  BY <1>6, <1>7, <1>8, <1>9

\* What load_elf frees when a mapping fails is the block of that segment, which
\* no created task owns.
LEMMA MapFailsInv ==
  ASSUME Inv, MapFails
  PROVE  Inv'
<1> USE DEF Inv
<1>1. /\ cur \in Tasks /\ kstack[cur] = None /\ pc = "map"
      /\ free' = free \cup Released
      /\ UNCHANGED <<owner, spilt, maps, tables, kstack, cur, file, job>>
      /\ pc' \in {"kstack", "idle"} /\ (ignored => ignored')
  BY DEF MapFails, OrderInv
<1>2. \A f \in Released : f \in Frames /\ owner[f] = <<cur, job.part>> /\ f \notin free
  BY <1>1 DEF Released, JobInv
<1>3. NULL \notin Released
  <2>1. job.base \in Nat /\ job.n \in Nat
    BY DEF TypeOK, Job
  <2> QED
    BY <1>1, <2>1 DEF Released, Block, JobInv
<1>4. TypeOK'
  <2>1. free' \subseteq Frames \ {NULL}
    BY <1>1, <1>2, <1>3, ZenonT(40) DEF TypeOK
  <2>2. ignored' \in BOOLEAN
    BY ZenonT(40) DEF MapFails, TypeOK
  <2>3. pc' \in {"idle", "pml4", "segment", "map", "kstack", "wild"}
    BY <1>1
  <2> QED
    BY <1>1, <2>1, <2>2, <2>3, ZenonT(40) DEF TypeOK
<1>5. OrderInv'
  BY <1>1 DEF OrderInv
<1>6. MemoryInv'
  <2>1. ASSUME NEW t \in Tasks, Live(t)', NEW f, NEW q, Owns(t, f, q)
        PROVE  Owns(t, f, q)'
    <3>1. CASE job.part = UserStack
      BY <1>1, <2>1, <3>1 DEF Owns, Released, Low, Block
    <3>2. CASE job.part # UserStack
      <4>1. t # cur
        BY <1>1, <2>1, <3>2 DEF Live, Created, MapFails
      <4>2. f \in Frames /\ owner[f] = <<t, q>> => f \notin Released
        BY <1>2, <4>1
      <4> QED
        BY <1>1, <2>1, <4>2 DEF Owns, Low, Block
    <3> QED
      BY <3>1, <3>2
  <2>2. \A t \in Tasks : Live(t)' => Live(t) /\ file'[t] = file[t]
    BY <1>1 DEF Live, Created
  <2> QED
    BY <1>1, <2>1, <2>2, MemoryStep
<1>7. JobInv'
  BY <1>1 DEF JobInv
<1> QED
  BY <1>4, <1>5, <1>6, <1>7

\* AllocUserStack keeps the invariant, out of memory too.
LEMMA AllocUserStackInv ==
  ASSUME Inv, AllocUserStack
  PROVE  Inv'
<1> USE DEF Inv
<1>1. PICK b \in pmm_alloc_frames(USER_STACK_PAGES) :
        /\ Grant(cur, b, USER_STACK_PAGES, UserStack, {})
        /\ ignored' = (ignored \/ b = NULL)
        /\ job' = [page |-> USER_STACK_VADDR, base |-> b, n |-> USER_STACK_PAGES, i |-> 0,
                   part |-> UserStack]
  BY DEF AllocUserStack
<1>2. b \in Frames /\ (b # NULL => Block(b, USER_STACK_PAGES) \subseteq free)
  BY AllocAnswer
<1>3. /\ cur \in Tasks /\ kstack[cur] = None /\ pc' = "map"
      /\ UNCHANGED <<maps, tables, kstack, cur, file>>
  BY DEF AllocUserStack, OrderInv
<1>4. TypeOK'
  <2>1. cur \in 0 .. MaxTasks /\ UserStack \in Int
    BY <1>3
  <2>2. free' \subseteq Frames \ {NULL} /\ owner' \in [Frames -> (0 .. MaxTasks) \X Int] /\ spilt' \subseteq Frames
    BY <1>1, <1>2, <2>1, GrantType, ZenonT(40)
  <2>3. job' \in Job
    BY <1>1, <1>2 DEF Job
  <2>4. ignored' \in BOOLEAN
    BY <1>1, ZenonT(40)
  <2> QED
    BY <1>3, <2>2, <2>3, <2>4, ZenonT(40) DEF TypeOK
<1>5. OrderInv'
  BY <1>3, ZenonT(40) DEF OrderInv
<1>6. MemoryInv'
  <2>1. \A t, f, q : Owns(t, f, q) => Owns(t, f, q)'
    BY <1>1, <1>2, GrantKeeps, LowBlocks, ZenonT(40)
  <2>2. \A t \in Tasks : Live(t)' => Live(t) /\ file'[t] = file[t]
    BY <1>3 DEF Live, Created, AllocUserStack
  <2> QED
    BY <1>3, <2>1, <2>2, MemoryStep
<1>7. JobInv'
  <2>1. job'.part = UserStack /\ job'.base = b /\ job'.n = USER_STACK_PAGES /\ job'.i = 0
    BY <1>1
  <2>2. ASSUME NEW f \in Block(b, USER_STACK_PAGES)
        PROVE  \/ f \in Frames /\ owner'[f] = <<cur, UserStack>> /\ f \notin free'
               \/ ignored' /\ f \in Low
    <3>1. CASE b = NULL
      BY <1>1, <2>2, <3>1, LowBlocks, ZenonT(40)
    <3>2. CASE b # NULL
      BY <1>1, <1>2, <2>2, <3>2, GrantGives, ZenonT(40)
    <3> QED
      BY <3>1, <3>2
  <2>3. UserStack \in Parts(cur)'
    BY DEF Parts
  <2> QED
    BY <1>3, <2>1, <2>2, <2>3 DEF JobInv, Block, Low
<1> QED
  BY <1>4, <1>5, <1>6, <1>7

\* AllocKernelStack keeps the invariant, out of memory too.
LEMMA AllocKernelStackInv ==
  ASSUME Inv, AllocKernelStack
  PROVE  Inv'
<1> USE DEF Inv
<1>1. PICK b \in pmm_alloc_frames(KSTACK_PAGES) :
        /\ Grant(cur, b, KSTACK_PAGES, KernelStack, {})
        /\ ignored' = (ignored \/ b = NULL)
        /\ kstack' = [kstack EXCEPT ![cur] = b]
  BY ZenonT(40) DEF AllocKernelStack
<1>2. b \in Frames /\ (b # NULL => Block(b, KSTACK_PAGES) \subseteq free)
  BY AllocAnswer
<1>3. /\ cur \in Tasks /\ pc = "kstack" /\ pc' = "idle"
      /\ UNCHANGED <<maps, tables, cur, file, job>>
  BY DEF AllocKernelStack, OrderInv
<1>4. kstack' \in [Tasks -> Int] /\ kstack'[cur] = b /\ \A t \in Tasks : t # cur => kstack'[t] = kstack[t]
  BY <1>1, <1>2, <1>3 DEF TypeOK
<1>5. TypeOK'
  <2>1. cur \in 0 .. MaxTasks /\ KernelStack \in Int
    BY <1>3
  <2>2. free' \subseteq Frames \ {NULL} /\ owner' \in [Frames -> (0 .. MaxTasks) \X Int] /\ spilt' \subseteq Frames
    BY <1>1, <1>2, <2>1, GrantType
  <2>3. ignored' \in BOOLEAN
    BY <1>1
  <2> QED
    BY <1>3, <1>4, <2>2, <2>3, ZenonT(40) DEF TypeOK
<1>6. OrderInv'
  BY <1>3, <1>4 DEF OrderInv
<1>7. MemoryInv'
  <2>1. \A t, f, q : Owns(t, f, q) => Owns(t, f, q)'
    BY <1>1, <1>2, GrantKeeps, LowBlocks, ZenonT(40)
  <2>2. \A t \in Tasks : (Live(t)' => Live(t)) /\ Parts(t)' = Parts(t)
    BY <1>3, <1>4 DEF Live, Created, Parts
  <2>3. ASSUME NEW t \in Tasks, Live(t)', NEW p \in UserPages, maps'[t][p] # None
        PROVE  \E part \in Parts(t)' : Owns(t, maps[t][p], part)'
    <3>1. PICK part \in Parts(t) : Owns(t, maps[t][p], part)
      BY <1>3, <2>2, <2>3 DEF MemoryInv
    <3>2. Owns(t, maps'[t][p], part)
      BY <1>3, <3>1
    <3>3. part \in Parts(t)'
      BY <2>2, <3>1
    <3> QED
      BY <1>3, <2>1, <3>2, <3>3
  <2>4. ASSUME NEW t \in Created', NEW f \in Block(kstack'[t], KSTACK_PAGES)
        PROVE  Owns(t, f, KernelStack)'
    <3>1. CASE t # cur
      <4>1. t \in Created /\ kstack'[t] = kstack[t]
        BY <1>4, <2>4, <3>1 DEF Created
      <4> QED
        BY <2>1, <2>4, <4>1 DEF MemoryInv
    <3>2. CASE t = cur /\ b = NULL
      BY <1>1, <1>4, <2>4, <3>2, LowBlocks, ZenonT(40) DEF Owns, Low, Block
    <3>3. CASE t = cur /\ b # NULL
      <4>1. f \in Frames /\ owner'[f] = <<cur, KernelStack>> /\ f \notin free'
        BY <1>1, <1>2, <1>4, <2>4, <3>3, GrantGives, ZenonT(40)
      <4> QED
        BY <3>3, <4>1 DEF Owns
    <3> QED
      BY <3>1, <3>2, <3>3
  <2> QED
    BY <2>3, <2>4 DEF MemoryInv
<1>8. JobInv'
  BY <1>3 DEF JobInv
<1> QED
  BY <1>5, <1>6, <1>7, <1>8

-----------------------------------------------------------------------------
\* Every step keeps the invariant.
LEMMA StepInv == Inv /\ [Next]_vars => Inv'
<1> SUFFICES ASSUME Inv, [Next]_vars PROVE Inv'
  OBVIOUS
<1>1. CASE UNCHANGED vars
  <2>1. TypeOK' /\ OrderInv'
    BY <1>1, ZenonT(40) DEF Inv, vars, TypeOK, OrderInv
  <2>2. MemoryInv'
    <3>1. \A t, f, q : Owns(t, f, q) => Owns(t, f, q)'
      BY <1>1 DEF vars, Owns, Low, Block
    <3>2. \A t \in Tasks : Live(t)' => Live(t) /\ file'[t] = file[t]
      BY <1>1 DEF vars, Live, Created
    <3> QED
      BY <1>1, <3>1, <3>2, MemoryStep, ZenonT(40) DEF Inv, vars
  <2>3. JobInv'
    BY <1>1 DEF Inv, vars, JobInv, Parts, Block, Low
  <2> QED
    BY <2>1, <2>2, <2>3 DEF Inv
<1> QED
  BY <1>1, AllocTaskInv, AllocPml4Inv, SegmentInv, CreateTableInv, MapPageInv, MapFailsInv,
     AllocUserStackInv, AllocKernelStackInv DEF Next

\* The invariant holds throughout.
LEMMA Invariant == Spec => []Inv
BY InitInv, StepInv, PTL DEF Spec

\* The allocator never holds frame 0, and every variable keeps its type, for
\* every memory and program: freeing a segment's block returns real frames.
THEOREM LoaderTypeCorrect == Spec => []TypeOK
<1>1. Inv => TypeOK
  BY DEF Inv
<1> QED
  BY <1>1, Invariant, PTL

-----------------------------------------------------------------------------
(* What a copy longer than its segment has written.                        *)

\* Frames are granted to tasks created so far, and a frame that was written
\* over has been so by an ill-sized program loaded no earlier than its owner.
SpillInv ==
  /\ \A f \in Frames : owner[f][1] <= cur
  /\ \A f \in spilt : \E u \in owner[f][1] .. cur : u > 0 /\ ~Sized(file[u])

\* A grant that spills nothing: what is granted is not spilt any more.
LEMMA GrantSpill ==
  ASSUME TypeOK, SpillInv, NEW t \in 0 .. MaxTasks, NEW b, NEW n, NEW part \in Int,
         Grant(t, b, n, part, {}), cur' = t, cur <= t,
         \A u \in Tasks : u <= cur => file'[u] = file[u]
  PROVE  SpillInv'
<1>1. \A f \in Frames : owner[f] \in (0 .. MaxTasks) \X Int
  BY DEF TypeOK
<1>2. cur \in 0 .. MaxTasks
  BY DEF TypeOK
<1>3. \A f \in Frames : owner'[f] = IF f \in Block(b, n) THEN <<t, part>> ELSE owner[f]
  BY DEF Grant
<1>4. ASSUME NEW f \in Frames
      PROVE  owner'[f][1] <= cur'
  BY <1>1, <1>2, <1>3, <1>4 DEF SpillInv
<1>5. ASSUME NEW f \in spilt'
      PROVE  \E u \in owner'[f][1] .. cur' : u > 0 /\ ~Sized(file'[u])
  <2>1. f \in spilt /\ f \in Frames /\ f \notin Block(b, n)
    BY <1>5 DEF Grant, TypeOK
  <2>2. owner'[f] = owner[f] /\ owner[f][1] \in 0 .. MaxTasks
    BY <1>1, <1>3, <2>1
  <2>3. PICK u \in owner[f][1] .. cur : u > 0 /\ ~Sized(file[u])
    BY <2>1 DEF SpillInv
  <2>4. u \in Tasks /\ u <= cur
    BY <1>2, <2>2, <2>3
  <2>5. file'[u] = file[u]
    BY <2>4
  <2>6. u \in owner'[f][1] .. cur'
    BY <1>2, <2>2, <2>3
  <2> QED
    BY <2>3, <2>5, <2>6
<1> QED
  BY <1>4, <1>5 DEF SpillInv

\* The copy of a segment reaches behind its block only if the program is ill-sized.
LEMMA SegmentSpill ==
  ASSUME Inv, SpillInv, Segment
  PROVE  SpillInv'
<1> USE DEF Inv
<1> DEFINE s == file[cur].segs[NextSegment]
<1>1. cur \in Tasks /\ UNCHANGED <<cur, file>>
  BY DEF Segment, OrderInv
<1>2. NextSegment \in 1 .. Len(file[cur].segs)
  <2>1. file[cur].segs \in Seq([page : Nat, n : Nat, copied : Nat])
    BY <1>1, Programs DEF TypeOK
  <2>2. Len(file[cur].segs) \in Nat
    BY <2>1
  <2> QED
    BY <2>2 DEF Segment, NextSegment, JobInv
<1>3. s.n \in Nat /\ s.copied \in Nat
  <2>1. file[cur].segs \in Seq([page : Nat, n : Nat, copied : Nat])
    BY <1>1, Programs DEF TypeOK
  <2>2. s \in [page : Nat, n : Nat, copied : Nat]
    BY <1>2, <2>1, Element, ZenonT(40)
  <2> QED
    BY <2>2
<1>4. s.copied > s.n => ~Sized(file[cur])
  BY <1>2, <1>3 DEF Sized
<1> HIDE DEF s
<1>5. PICK b \in pmm_alloc_frames(s.n) :
        IF b = NULL THEN UNCHANGED <<owner, spilt>>
        ELSE Grant(cur, b, s.n, NextSegment, Block(b, s.copied) \ Block(b, s.n))
  BY ZenonT(40) DEF Segment, s
<1>6. CASE b = NULL
  <2>1. UNCHANGED <<owner, spilt, cur, file>>
    BY <1>1, <1>5, <1>6
  <2> QED
    BY <2>1, ZenonT(40) DEF SpillInv
<1>7. CASE b # NULL
  <2>1. Grant(cur, b, s.n, NextSegment, Block(b, s.copied) \ Block(b, s.n)) /\ b \in Frames
    BY <1>3, <1>5, <1>7, AllocAnswer
  <2>2. \A f \in Frames : owner'[f] = IF f \in Block(b, s.n) THEN <<cur, NextSegment>> ELSE owner[f]
    BY <2>1 DEF Grant
  <2>3. \A f \in Frames : owner[f] \in (0 .. MaxTasks) \X Int
    BY DEF TypeOK
  <2>4. ASSUME NEW f \in Frames
        PROVE  owner'[f][1] \in 0 .. cur
    BY <1>1, <2>2, <2>3, <2>4 DEF SpillInv
  <2>5. ASSUME NEW f \in spilt'
        PROVE  \E u \in owner'[f][1] .. cur : u > 0 /\ ~Sized(file[u])
    <3>1. CASE f \in Block(b, s.copied) \ Block(b, s.n) /\ f \in Frames
      <4>1. s.copied > s.n
        BY <1>3, <2>1, <3>1 DEF Block
      <4>2. cur \in owner'[f][1] .. cur /\ cur > 0
        BY <1>1, <2>4, <3>1
      <4> QED
        BY <1>4, <4>1, <4>2
    <3>2. CASE f \in spilt /\ f \notin Block(b, s.n)
      <4>1. owner'[f] = owner[f]
        BY <2>2, <3>2 DEF TypeOK
      <4> QED
        BY <3>2, <4>1 DEF SpillInv
    <3> QED
      BY <2>1, <2>5, <3>1, <3>2, ZenonT(40) DEF Grant
  <2> QED
    BY <1>1, <2>4, <2>5 DEF SpillInv
<1> QED
  BY <1>6, <1>7

\* Every step keeps SpillInv.
LEMMA StepSpill ==
  ASSUME Inv, SpillInv, [Next]_vars
  PROVE  SpillInv'
<1> USE DEF Inv
<1>0. cur \in 0 .. MaxTasks
  BY DEF TypeOK
<1>1. ASSUME NEW elf \in Files, AllocTask(elf)
      PROVE  SpillInv'
  <2>1. PICK b : Grant(cur + 1, b, 1, TaskPage, {})
    BY <1>1 DEF AllocTask
  <2>2. cur + 1 \in 0 .. MaxTasks /\ cur' = cur + 1 /\ cur <= cur + 1
    BY <1>0, <1>1 DEF AllocTask
  <2>3. \A u \in Tasks : u <= cur => file'[u] = file[u]
    BY <1>0, <1>1 DEF AllocTask, TypeOK
  <2> QED
    BY <2>1, <2>2, <2>3, GrantSpill
<1>2. CASE AllocPml4 \/ CreateTable \/ AllocUserStack \/ AllocKernelStack
  <2>1. UNCHANGED <<cur, file>> /\ cur <= cur
    BY <1>0, <1>2 DEF AllocPml4, CreateTable, AllocUserStack, AllocKernelStack
  <2>2. \A b, n : \A part \in Int : Grant(cur, b, n, part, {}) => SpillInv'
    BY <1>0, <2>1, GrantSpill
  <2>3. \E b, n : \E part \in {TopTable, LowerTable, UserStack, KernelStack} : Grant(cur, b, n, part, {})
    <3>1. CASE AllocPml4
      BY <3>1, ZenonT(40) DEF AllocPml4
    <3>2. CASE CreateTable
      BY <3>2, ZenonT(40) DEF CreateTable
    <3>3. CASE AllocUserStack
      BY <3>3, ZenonT(40) DEF AllocUserStack
    <3>4. CASE AllocKernelStack
      BY <3>4, ZenonT(40) DEF AllocKernelStack
    <3> QED
      BY <1>2, <3>1, <3>2, <3>3, <3>4
  <2>4. {TopTable, LowerTable, UserStack, KernelStack} \subseteq Int
    OBVIOUS
  <2> QED
    BY <2>2, <2>3, <2>4, ZenonT(40)
<1>3. CASE Segment
  BY <1>3, SegmentSpill
<1>4. CASE MapPage \/ MapFails \/ UNCHANGED vars
  <2>1. UNCHANGED <<owner, spilt, cur, file>>
    BY <1>4 DEF MapPage, MapFails, vars
  <2> QED
    BY <2>1, ZenonT(40) DEF SpillInv
<1> QED
  BY <1>1, <1>2, <1>3, <1>4 DEF Next

\* SpillInv holds throughout.
LEMMA SpillInvariant == Spec => []SpillInv
<1>1. Init => SpillInv
  BY DEF Init, SpillInv
<1>2. Inv /\ SpillInv /\ [Next]_vars => SpillInv'
  BY StepSpill
<1> QED
  BY <1>1, <1>2, Invariant, PTL DEF Spec

\* What task_create_from_elf gave a task is granted to nobody else, and only an
\* ill-sized program loaded with it or after it, or the use of NULL, can write
\* there: for every memory, every set of programs and any number of tasks.
THEOREM ImageIntactAlways == Spec => []ImageIntact
<1>1. Inv /\ SpillInv => ImageIntact
  <2> SUFFICES ASSUME Inv, SpillInv PROVE ImageIntact
    OBVIOUS
  <2>1. ASSUME NEW t \in Tasks, NEW f, NEW q, Owns(t, f, q)
        PROVE  Holds(t, f, q)
    <3>1. CASE ignored /\ f \in Low
      BY <3>1 DEF Holds
    <3>2. CASE f \in Frames /\ owner[f] = <<t, q>> /\ f \notin free
      <4>1. owner[f][1] = t
        BY <3>2
      <4>2. f \in spilt => \E u \in t .. cur : ~Sized(file[u])
        BY <4>1 DEF SpillInv
      <4> QED
        BY <3>2, <4>2 DEF Holds
    <3> QED
      BY <2>1, <3>1, <3>2 DEF Owns
  <2>2. \A t \in Created : t \in Tasks /\ Live(t)
    BY DEF Created, Live
  <2> QED
    BY <2>1, <2>2, ZenonT(40) DEF Inv, MemoryInv, ImageIntact, Parts
<1> QED
  BY <1>1, Invariant, SpillInvariant, PTL

-----------------------------------------------------------------------------
(* A created task is complete: what load_elf has mapped when it is at a    *)
(* segment or at a page of it.                                             *)

Mapped(t, i) ==
  LET s == file[t].segs[i] IN
  \A k \in 0 .. s.n - 1 :
    maps[t][s.page + k] # None /\ maps[t][s.page + k] = maps[t][s.page] + k

Segs(t) == 1 .. Len(file[t].segs)

\* The segments of the current task that load_elf is through with.
Through(i) ==
  \/ pc = "segment" /\ i <= job.part
  \/ pc = "map" /\ (i < job.part \/ job.part = UserStack)
  \/ pc = "kstack"

JobFits ==
  IF job.part = UserStack
  THEN job.page = USER_STACK_VADDR /\ job.n = USER_STACK_PAGES
  ELSE job.page = file[cur].segs[job.part].page /\ job.n = file[cur].segs[job.part].n

StackMapped(t) == \A p \in Block(USER_STACK_VADDR, USER_STACK_PAGES) : maps[t][p] # None

BuildInv ==
  /\ \A i \in Segs(cur) : Through(i) => Mapped(cur, i)
  /\ pc = "map" => JobFits /\ \A k \in 0 .. job.i - 1 : maps[cur][job.page + k] = job.base + k
  /\ pc = "kstack" /\ ~ignored => StackMapped(cur)

DoneInv == ~ignored => \A t \in Created : StackMapped(t) /\ \A i \in Segs(t) : Mapped(t, i)

\* A segment is a segment: its pages are pages of the address space.
LEMMA SegmentPages ==
  ASSUME TypeOK, NEW t \in Tasks, NEW i \in Segs(t)
  PROVE  LET s == file[t].segs[i] IN
         s.page \in Nat /\ s.n \in Nat /\ \A k \in 0 .. s.n - 1 : s.page + k \in UserPages
<1> DEFINE s == file[t].segs[i]
<1>1. file[t] \in Files /\ i \in 1 .. Len(file[t].segs)
  BY DEF TypeOK, Segs
<1>2. s \in [page : Nat, n : Nat, copied : Nat]
  <2>1. file[t].segs \in Seq([page : Nat, n : Nat, copied : Nat])
    BY <1>1, Programs
  <2> QED
    BY <1>1, <2>1, Element, ZenonT(40)
<1>3. s.page .. (s.page + s.n - 1) \subseteq UserPages
  BY <1>1, LoaderConstants, ZenonT(40)
<1> HIDE DEF s
<1>4. s.page \in Nat /\ s.n \in Nat
  BY <1>2
<1>5. \A k \in 0 .. s.n - 1 : s.page + k \in UserPages
  BY <1>3, <1>4
<1> QED
  BY <1>4, <1>5 DEF s

\* A page that is mapped stays mapped: so does a segment, and the stack.
LEMMA MappedKept ==
  ASSUME TypeOK, NEW t \in Tasks, file'[t] = file[t],
         \A p \in UserPages : maps[t][p] # None => maps'[t][p] = maps[t][p]
  PROVE  /\ \A i \in Segs(t) : Mapped(t, i) => Mapped(t, i)'
         /\ Segs(t)' = Segs(t)
         /\ StackMapped(t) => StackMapped(t)'
<1>1. ASSUME NEW i \in Segs(t), Mapped(t, i)
      PROVE  Mapped(t, i)'
  <2> DEFINE s == file[t].segs[i]
  <2>1. s.page \in Nat /\ s.n \in Nat /\ \A k \in 0 .. s.n - 1 : s.page + k \in UserPages
    BY SegmentPages, ZenonT(40)
  <2>2. \A k \in 0 .. s.n - 1 : maps[t][s.page + k] # None /\ maps[t][s.page + k] = maps[t][s.page] + k
    BY <1>1, ZenonT(40) DEF Mapped
  <2> HIDE DEF s
  <2>3. ASSUME NEW k \in 0 .. s.n - 1
        PROVE  maps'[t][s.page + k] # None /\ maps'[t][s.page + k] = maps'[t][s.page] + k
    <3>1. 0 \in 0 .. s.n - 1 /\ s.page + 0 = s.page
      BY <2>1, <2>3
    <3>2. maps[t][s.page] # None /\ s.page \in UserPages
      BY <2>1, <2>2, <3>1
    <3>3. maps'[t][s.page] = maps[t][s.page]
      BY <3>2, ZenonT(40)
    <3>4. maps'[t][s.page + k] = maps[t][s.page + k]
      BY <2>1, <2>2, <2>3
    <3> QED
      BY <2>2, <2>3, <3>3, <3>4
  <2> QED
    BY <2>3, ZenonT(40) DEF Mapped, s
<1>2. Segs(t)' = Segs(t)
  BY DEF Segs
<1>3. StackMapped(t) => StackMapped(t)'
  <2>1. Block(USER_STACK_VADDR, USER_STACK_PAGES) \subseteq UserPages
    BY LoaderConstants DEF Block
  <2> QED
    BY <2>1 DEF StackMapped, Block
<1> QED
  BY <1>1, <1>2, <1>3

\* Tasks that are complete stay so while they keep their pages.
LEMMA DoneKept ==
  ASSUME TypeOK, DoneInv, kstack' = kstack, ignored => ignored',
         \A t \in Created : /\ file'[t] = file[t]
                            /\ \A p \in UserPages : maps[t][p] # None => maps'[t][p] = maps[t][p]
  PROVE  DoneInv'
<1>1. Created' = Created /\ Created \subseteq Tasks
  BY DEF Created
<1>2. ASSUME NEW t \in Created, ~ignored'
      PROVE  StackMapped(t)' /\ \A i \in Segs(t)' : Mapped(t, i)'
  <2>1. StackMapped(t) /\ \A i \in Segs(t) : Mapped(t, i)
    BY <1>2 DEF DoneInv
  <2> QED
    BY <1>1, <2>1, MappedKept
<1> QED
  BY <1>1, <1>2 DEF DoneInv

\* A step that maps nothing keeps the segments the loader is through with.
LEMMA BuildKept ==
  ASSUME TypeOK, BuildInv, cur \in Tasks, UNCHANGED <<maps, cur, file>>
  PROVE  /\ \A i \in Segs(cur)' : Through(i) => Mapped(cur, i)'
         /\ \A i \in Segs(cur)' : i \in Int
         /\ Segs(cur)' = Segs(cur)
<1>1. Segs(cur)' = Segs(cur)
  BY DEF Segs
<1>2. \A i \in Segs(cur) : Mapped(cur, i) => Mapped(cur, i)'
  BY ZenonT(40) DEF Mapped
<1>3. \A i \in Segs(cur)' : i \in Int
  BY DEF Segs
<1> QED
  BY <1>1, <1>2, <1>3 DEF BuildInv

\* MapPage: after the last page the segment, or the stack, is mapped.
LEMMA MapPageBuild ==
  ASSUME Inv, BuildInv, MapPage
  PROVE  BuildInv'
<1> USE DEF Inv
<1>1. /\ cur \in Tasks /\ kstack[cur] = None /\ pc = "map" /\ maps[cur][Page] = None
      /\ UNCHANGED <<free, owner, spilt, tables, kstack, cur, file, ignored>>
      /\ maps' = [maps EXCEPT ![cur][Page] = job.base + job.i]
  BY DEF MapPage, OrderInv
<1>2. job.base \in Nat /\ job.i \in Nat /\ job.n \in Nat /\ job.part \in Int /\ job.page \in Nat
      /\ job.i < job.n
  BY <1>1 DEF TypeOK, Job, JobInv
<1>3. \A k \in 0 .. job.n - 1 : job.page + k \in UserPages
  <2>1. CASE job.part = UserStack
    <3>1. Block(USER_STACK_VADDR, USER_STACK_PAGES) \subseteq UserPages
      BY LoaderConstants DEF Block
    <3> QED
      BY <1>1, <2>1, <3>1 DEF BuildInv, JobFits, Block
  <2>2. CASE job.part # UserStack
    <3>1. job.part \in Segs(cur)
      BY <1>1, <2>2 DEF JobInv, Parts, Segs
    <3> QED
      BY <1>1, <2>2, <3>1, SegmentPages, ZenonT(40) DEF BuildInv, JobFits
  <2> QED
    BY <2>1, <2>2
<1>4. Page \in UserPages /\ Page = job.page + job.i
  BY <1>2, <1>3 DEF Page
<1>5. \A p \in UserPages : maps[cur][p] # None => maps'[cur][p] = maps[cur][p]
  BY <1>1 DEF TypeOK
<1>6. \A k \in 0 .. job.i : maps'[cur][job.page + k] = job.base + k
  <2>1. maps'[cur][Page] = job.base + job.i
    BY <1>1, <1>4 DEF TypeOK
  <2>2. ASSUME NEW k \in 0 .. job.i - 1
        PROVE  maps'[cur][job.page + k] = job.base + k
    <3>1. maps[cur][job.page + k] = job.base + k /\ job.page + k \in UserPages
      BY <1>1, <1>2, <1>3, <2>2 DEF BuildInv
    <3>2. job.base + k # None
      BY <1>2, <2>2
    <3> QED
      BY <1>5, <3>1, <3>2, ZenonT(40)
  <2> QED
    BY <1>2, <1>4, <2>1, <2>2
<1>7. /\ \A i \in Segs(cur) : Mapped(cur, i) => Mapped(cur, i)'
      /\ Segs(cur)' = Segs(cur)
  <2>1. PICK c \in Tasks : c = cur
    BY <1>1
  <2>2. /\ \A i \in Segs(c) : Mapped(c, i) => Mapped(c, i)'
        /\ Segs(c)' = Segs(c)
    BY <1>1, <1>5, <2>1, MappedKept, ZenonT(40)
  <2>3. Segs(cur)' = Segs(cur)
    BY <1>1 DEF Segs
  <2>4. ASSUME NEW i \in Segs(cur), Mapped(cur, i)
        PROVE  Mapped(cur, i)'
    <3>1. Mapped(c, i)'
      BY <2>1, <2>2, <2>4
    <3>2. cur' = c
      BY <1>1, <2>1
    <3> QED
      BY <3>1, <3>2, ZenonT(40) DEF Mapped
  <2> QED
    BY <2>3, <2>4
<1>8. CASE MorePages
  <2>1. job' = [job EXCEPT !.i = @ + 1] /\ pc' = "map"
    BY <1>1, <1>8 DEF MapPage
  <2>2. /\ job'.base = job.base /\ job'.n = job.n /\ job'.part = job.part /\ job'.i = job.i + 1
        /\ job'.page = job.page
    BY <2>1 DEF TypeOK, Job
  <2>3. \A i \in Segs(cur)' : Through(i)' => Mapped(cur, i)'
    BY <1>1, <1>7, <2>1, <2>2 DEF BuildInv, Through
  <2>4. JobFits'
    BY <1>1, <2>2 DEF BuildInv, JobFits
  <2>5. \A k \in 0 .. job'.i - 1 : maps'[cur'][job'.page + k] = job'.base + k
    BY <1>1, <1>2, <1>6, <2>2
  <2> QED
    BY <2>1, <2>3, <2>4, <2>5 DEF BuildInv
<1>9. CASE ~MorePages
  <2>1. job' = job /\ pc' = IF job.part = UserStack THEN "kstack" ELSE "segment"
    BY <1>9 DEF MapPage
  <2>2. job.i = job.n - 1
    BY <1>2, <1>9 DEF MorePages
  <2>3. CASE job.part = UserStack
    <3>1. \A i \in Segs(cur)' : Mapped(cur, i)'
      BY <1>1, <1>7, <2>3, ZenonT(40) DEF BuildInv, Through
    <3>2. StackMapped(cur)'
      <4>1. job.page = USER_STACK_VADDR /\ job.n = USER_STACK_PAGES
        BY <1>1, <2>3 DEF BuildInv, JobFits
      <4>2. ASSUME NEW p \in Block(USER_STACK_VADDR, USER_STACK_PAGES)
            PROVE  maps'[cur][p] # None
        <5>1. p - job.page \in 0 .. job.i /\ p = job.page + (p - job.page)
          BY <1>2, <2>2, <4>1, <4>2 DEF Block
        <5>2. maps'[cur][p] = job.base + (p - job.page)
          BY <1>6, <5>1
        <5> QED
          BY <1>2, <5>1, <5>2
      <4> QED
        BY <1>1, <4>2 DEF StackMapped, Block
    <3> QED
      BY <2>1, <2>3, <3>1, <3>2 DEF BuildInv
  <2>4. CASE job.part # UserStack
    <3>1. job.part \in Segs(cur) /\ pc' = "segment"
      BY <1>1, <2>1, <2>4 DEF JobInv, Parts, Segs
    <3>2. Mapped(cur, job.part)'
      <4>1. job.page = file[cur].segs[job.part].page /\ job.n = file[cur].segs[job.part].n
        BY <1>1, <2>4 DEF BuildInv, JobFits
      <4>2. maps'[cur][job.page] = job.base
        <5>1. 0 \in 0 .. job.i /\ job.page + 0 = job.page /\ job.base + 0 = job.base
          BY <1>2
        <5> QED
          BY <1>6, <5>1
      <4>3. \A k \in 0 .. job.n - 1 :
              maps'[cur][job.page + k] # None /\ maps'[cur][job.page + k] = maps'[cur][job.page] + k
        BY <1>2, <1>6, <2>2, <4>2
      <4> QED
        BY <1>1, <2>1, <4>1, <4>3, ZenonT(40) DEF Mapped
    <3>3. ASSUME NEW i \in Segs(cur)', Through(i)'
          PROVE  Mapped(cur, i)'
      <4>1. i <= job.part /\ i \in Int
        BY <2>1, <3>1, <3>3 DEF Through, Segs
      <4>2. CASE i = job.part
        BY <2>1, <3>2, <4>2
      <4>3. CASE i < job.part
        BY <1>1, <1>7, <3>3, <4>3 DEF BuildInv, Through
      <4> QED
        BY <1>2, <4>1, <4>2, <4>3
    <3> QED
      BY <3>1, <3>3, ZenonT(40) DEF BuildInv
  <2> QED
    BY <2>3, <2>4
<1> QED
  BY <1>8, <1>9

\* The other steps map nothing.
LEMMA StepBuild ==
  ASSUME Inv, BuildInv, [Next]_vars
  PROVE  BuildInv'
<1> USE DEF Inv
<1>1. ASSUME NEW elf \in Files, AllocTask(elf)
      PROVE  BuildInv'
  BY <1>1, ZenonT(40) DEF AllocTask, BuildInv, Through
<1>2. CASE AllocPml4
  <2>1. pc' # "map" /\ pc' # "kstack" /\ job'.part = 0 /\ \A i \in Segs(cur)' : i \in Int /\ i > 0
    BY <1>2 DEF AllocPml4, TypeOK, Job, Segs
  <2> QED
    BY <2>1 DEF BuildInv, Through
<1>3. CASE Segment
  <2> DEFINE s == file[cur].segs[NextSegment]
  <2>1. cur \in Tasks /\ pc = "segment" /\ job.part \in Int /\ UNCHANGED <<maps, cur, file>>
    BY <1>3, ZenonT(40) DEF Segment, OrderInv, TypeOK, Job
  <2>2. \/ pc' \in {"idle", "wild"}
        \/ /\ pc' = "map" /\ job'.part = NextSegment /\ job'.page = s.page /\ job'.n = s.n
           /\ job'.i = 0
    BY <1>3 DEF Segment
  <2> HIDE DEF s
  <2>3. CASE pc' \in {"idle", "wild"}
    BY <2>3, ZenonT(40) DEF BuildInv, Through
  <2>4. CASE pc' = "map" /\ job'.part = NextSegment /\ job'.page = s.page /\ job'.n = s.n /\ job'.i = 0
    <3>1. NextSegment = job.part + 1 /\ NextSegment # UserStack
      BY <2>1 DEF NextSegment, JobInv
    <3>2. \A i \in Segs(cur)' : Through(i)' => Through(i)
      BY <2>1, <2>4, <3>1, BuildKept DEF Through
    <3>3. JobFits'
      BY <2>1, <2>4, <3>1, ZenonT(40) DEF JobFits, s
    <3>4. \A i \in Segs(cur)' : Through(i)' => Mapped(cur, i)'
      BY <2>1, <3>2, BuildKept
    <3>5. \A k \in 0 .. job'.i - 1 : FALSE
      BY <2>4
    <3> QED
      BY <2>4, <3>3, <3>4, <3>5, ZenonT(40) DEF BuildInv
  <2> QED
    BY <2>2, <2>3, <2>4
<1>4. CASE CreateTable
  <2>1. cur \in Tasks /\ UNCHANGED <<maps, cur, file, pc, job, ignored>>
    BY <1>4, ZenonT(40) DEF CreateTable, OrderInv
  <2>2. \A i \in Segs(cur)' : Through(i)' => Mapped(cur, i)'
    BY <2>1, BuildKept DEF Through
  <2> QED
    BY <2>1, <2>2, ZenonT(40) DEF BuildInv, JobFits, StackMapped, Block
<1>5. CASE MapPage
  BY <1>5, MapPageBuild
<1>6. CASE MapFails
  <2>1. cur \in Tasks /\ pc = "map" /\ UNCHANGED <<maps, cur, file, job>>
    BY <1>6 DEF MapFails, OrderInv
  <2>2. \/ pc' = "kstack" /\ ignored' /\ job.part = UserStack
        \/ pc' = "idle"
    BY <1>6, ZenonT(40) DEF MapFails
  <2>3. \A i \in Segs(cur)' : Through(i)' => Through(i)
    BY <2>1, <2>2 DEF Through
  <2> QED
    BY <2>1, <2>2, <2>3, BuildKept DEF BuildInv
<1>7. CASE AllocUserStack
  <2>1. /\ cur \in Tasks /\ pc = "segment" /\ pc' = "map" /\ UNCHANGED <<maps, cur, file>>
        /\ NextSegment > Len(file[cur].segs) /\ job.part \in Int
    BY <1>7 DEF AllocUserStack, OrderInv, TypeOK, Job
  <2>2. \A i \in Segs(cur) : Through(i)
    <3>1. file[cur].segs \in Seq([page : Nat, n : Nat, copied : Nat])
      BY <2>1, Programs DEF TypeOK
    <3>2. Len(file[cur].segs) \in Nat
      BY <3>1
    <3> QED
      BY <2>1, <3>2 DEF Through, Segs, NextSegment
  <2>3. /\ job'.part = UserStack /\ job'.page = USER_STACK_VADDR /\ job'.n = USER_STACK_PAGES
        /\ job'.i = 0
    BY <1>7 DEF AllocUserStack
  <2>4. JobFits'
    BY <2>3 DEF JobFits
  <2> QED
    BY <2>1, <2>2, <2>3, <2>4, BuildKept DEF BuildInv
<1>8. CASE AllocKernelStack
  BY <1>8 DEF AllocKernelStack, BuildInv, Through
<1>9. CASE UNCHANGED vars
  <2>1. UNCHANGED <<maps, cur, file, pc, job, ignored>>
    BY <1>9, ZenonT(40) DEF vars
  <2>2. \A i \in Segs(cur)' : Through(i)' => Mapped(cur, i)'
    <3> SUFFICES ASSUME NEW i \in Segs(cur)', Through(i)' PROVE Mapped(cur, i)'
      OBVIOUS
    <3>1. i \in Segs(cur) /\ Through(i)
      BY <2>1, ZenonT(40) DEF Segs, Through
    <3>2. Mapped(cur, i)
      BY <3>1, ZenonT(40) DEF BuildInv
    <3> QED
      BY <2>1, <3>2, ZenonT(40) DEF Mapped
  <2> QED
    BY <2>1, <2>2, ZenonT(40) DEF BuildInv, JobFits, StackMapped, Block
<1> QED
  BY <1>1, <1>2, <1>3, <1>4, <1>5, <1>6, <1>7, <1>8, <1>9, ZenonT(40) DEF Next

\* The task that is finished by AllocKernelStack is complete, the others stay so.
LEMMA StepDone ==
  ASSUME Inv, BuildInv, DoneInv, [Next]_vars
  PROVE  DoneInv'
<1> USE DEF Inv
<1>1. ASSUME NEW elf \in Files, AllocTask(elf)
      PROVE  DoneInv'
  <2>1. \A t \in Created : t # cur + 1
    BY <1>1 DEF AllocTask, OrderInv, Created, TypeOK
  <2>2. \A t \in Created : file'[t] = file[t]
    BY <1>1, <2>1, ZenonT(40) DEF AllocTask, TypeOK, Created
  <2>3. maps' = maps /\ kstack' = kstack /\ (ignored => ignored')
    BY <1>1, ZenonT(40) DEF AllocTask
  <2> QED
    BY <2>2, <2>3, DoneKept
<1>2. CASE AllocPml4
  <2>1. UNCHANGED <<maps, kstack, file>> /\ (ignored => ignored')
    BY <1>2, ZenonT(40) DEF AllocPml4
  <2> QED
    BY <2>1, DoneKept
<1>3. CASE Segment \/ CreateTable
  <2>1. UNCHANGED <<maps, kstack, file, ignored>>
    BY <1>3, ZenonT(40) DEF Segment, CreateTable
  <2> QED
    BY <2>1, DoneKept
<1>4. CASE MapPage
  <2>1. UNCHANGED <<kstack, file, ignored>> /\ cur \notin Created
    BY <1>4 DEF MapPage, OrderInv, Created
  <2>2. \A t \in Created : maps'[t] = maps[t]
    BY <1>4, <2>1 DEF MapPage, TypeOK, Created
  <2> QED
    BY <2>1, <2>2, DoneKept
<1>5. CASE MapFails \/ AllocUserStack
  <2>1. UNCHANGED <<maps, kstack, file>> /\ (ignored => ignored')
    BY <1>5, ZenonT(40) DEF MapFails, AllocUserStack
  <2> QED
    BY <2>1, DoneKept
<1>6. CASE AllocKernelStack
  <2>1. cur \in Tasks /\ pc = "kstack" /\ UNCHANGED <<maps, cur, file>> /\ (ignored => ignored')
    BY <1>6, ZenonT(40) DEF AllocKernelStack, OrderInv
  <2>2. \A t \in Tasks : t # cur => kstack'[t] = kstack[t]
    BY <1>6 DEF AllocKernelStack, TypeOK
  <2>3. ASSUME NEW t \in Created', ~ignored'
        PROVE  StackMapped(t)' /\ \A i \in Segs(t)' : Mapped(t, i)'
    <3>1. t \in Tasks
      BY <2>3 DEF Created
    <3>2. StackMapped(t) /\ \A i \in Segs(t) : Mapped(t, i)
      <4>1. CASE t = cur
        BY <2>1, <2>3, <4>1 DEF BuildInv, Through
      <4>2. CASE t # cur
        BY <2>1, <2>2, <2>3, <3>1, <4>2 DEF DoneInv, Created
      <4> QED
        BY <4>1, <4>2
    <3> QED
      BY <2>1, <3>1, <3>2, MappedKept, ZenonT(40)
  <2> QED
    BY <2>3 DEF DoneInv
<1>7. CASE UNCHANGED vars
  BY <1>7, DoneKept DEF vars
<1> QED
  BY <1>1, <1>2, <1>3, <1>4, <1>5, <1>6, <1>7 DEF Next

\* Where no failure was ignored, a task that task_create_from_elf returned has
\* every page of every segment mapped, in order, and its stack, for every
\* memory, every set of programs and any number of tasks.
THEOREM ProgramCompleteAlways == Spec => []ProgramComplete
<1>1. Init => BuildInv /\ DoneInv
  BY DEF Init, BuildInv, DoneInv, Through, Created
<1>2. DoneInv => ProgramComplete
  BY ZenonT(40) DEF DoneInv, ProgramComplete, StackMapped, Segs, Mapped
<1>3. Inv /\ BuildInv /\ DoneInv /\ [Next]_vars => BuildInv' /\ DoneInv'
  BY StepBuild, StepDone
<1> QED
  BY <1>1, <1>2, <1>3, Invariant, PTL DEF Spec
=============================================================================
