----------------------------- MODULE VmmProofs -----------------------------
(***************************************************************************)
(* The inductive invariant of Vmm, the four safety properties that follow  *)
(* from it, and that the kernel's page tables and those of the tasks       *)
(* implement AddressSpace, for any size of the tables, any set of pages    *)
(* and any number of frames.                                               *)
(***************************************************************************)
EXTENDS VmmTables

\* Time for a leaf, in seconds.
USE SMTT(40), ZenonT(40)

USE TablesAssumption

-----------------------------------------------------------------------------
(* The inductive invariant.                                                *)

SetOf(op) == IF op = "map_for" THEN UserPages ELSE KernelPages

\* What is known of the call in progress and of the last range that was mapped.
ReqInv ==
  /\ req.state = "busy" \/ req.op \in {"map", "map_for"} =>
       /\ req.n \in 1 .. MaxCount /\ req.i \in 0 .. req.n - 1
       /\ \A j \in 0 .. req.n - 1 : req.v + j \in SetOf(req.op)
  /\ req.op = "map" => req.root = kernel_pml4
  /\ req.op = "map_for" => req.root \in spaces

ReqOK ==
  /\ req.state \in {"busy", "true", "false"} /\ req.i \in 0 .. MaxCount - 1
  /\ ReqInv /\ RangeResult

Inv == TypeOK /\ Fine(mem, used, Roots) /\ TlbCoherent /\ ReqOK

\* A step of call r, which asked for op.
Asked(r, op) ==
  /\ r = [op |-> op, root |-> r.root, v |-> r.v, c |-> r.c, n |-> r.n, i |-> r.i, state |-> "busy"]
  /\ r.n \in 1 .. MaxCount /\ r.i \in 0 .. r.n - 1
  /\ \A j \in 0 .. r.n - 1 : r.v + j \in SetOf(op)
  /\ op \in {"map", "map_for"} =>
       \A j \in 0 .. r.i - 1 : Translate(mem, r.root, r.v + j).to = r.c[1] + j

\* A new call, or the one in progress.
LEMMA CallFacts ==
  ASSUME Inv, NEW op, NEW roots, NEW cs, NEW counts, counts \subseteq 1 .. MaxCount,
         NEW r \in Calls(op, roots, SetOf(op), cs, counts)
  PROVE  Asked(r, op) /\ r.root \in roots /\ r.c \in cs /\ r.v \in SetOf(op) /\ r.n \in counts
<1> DEFINE S == SetOf(op)
<1>1. CASE Idle
  <2>1. PICK t \in roots \X S \X cs \X counts :
          t[2] .. (t[2] + t[4] - 1) \subseteq S /\ r = Call(op, t[1], t[2], t[3], t[4])
    BY <1>1 DEF Calls
  <2>2. S \subseteq Nat
    BY HalfOf, Digits DEF SetOf
  <2> HIDE DEF S
  <2>3. t[1] \in roots /\ t[2] \in S /\ t[3] \in cs /\ t[4] \in counts /\ t[4] \in 1 .. MaxCount
    BY ZenonT(40)
  <2>4. /\ r = [op |-> op, root |-> t[1], v |-> t[2], c |-> t[3], n |-> t[4], i |-> 0, state |-> "busy"]
    BY <2>1 DEF Call
  <2>5. r.op = op /\ r.root = t[1] /\ r.v = t[2] /\ r.c = t[3] /\ r.n = t[4] /\ r.i = 0
    BY <2>4
  <2>6. \A j \in 0 .. r.n - 1 : r.v + j \in S
    <3> DEFINE a == t[2]
               b == t[4]
    <3>1. a \in Nat /\ b \in Nat /\ a .. (a + b - 1) \subseteq S
      <4>1. \A z \in 1 .. MaxCount : z \in Nat
        BY CallsAssumption
      <4> QED
        BY <2>1, <2>2, <2>3, <4>1, ZenonT(40)
    <3> HIDE DEF a, b
    <3>2. ASSUME NEW j \in 0 .. b - 1 PROVE a + j \in S
      <4>1. a + j \in a .. (a + b - 1)
        BY <3>1
      <4> QED
        BY <3>1, <4>1
    <3> QED
      BY <2>5, <3>2 DEF a, b
  <2>7. r.n \in 1 .. MaxCount /\ r.i \in 0 .. r.n - 1 /\ \A j \in 0 .. r.i - 1 : FALSE
    BY <2>3, <2>5, CallsAssumption
  <2> QED
    BY <2>3, <2>4, <2>5, <2>6, <2>7 DEF Asked, S
<1>2. CASE ~Idle
  <2>1. /\ r = req
        /\ r \in [op : {op}, root : roots, v : S, c : cs, n : counts, i : Nat, state : {"busy"}]
    BY <1>2 DEF Calls
  <2> HIDE DEF S
  <2>2. /\ r = [op |-> op, root |-> r.root, v |-> r.v, c |-> r.c, n |-> r.n, i |-> r.i, state |-> "busy"]
        /\ r.root \in roots /\ r.c \in cs /\ r.v \in S /\ r.n \in counts /\ req.op = op /\ req.state = "busy"
    BY <2>1
  <2>3. r.n \in 1 .. MaxCount /\ r.i \in 0 .. r.n - 1 /\ \A j \in 0 .. r.n - 1 : r.v + j \in SetOf(op)
    BY <2>1, <2>2 DEF Inv, ReqOK, ReqInv
  <2>4. op \in {"map", "map_for"} =>
          \A j \in 0 .. r.i - 1 : Translate(mem, r.root, r.v + j).to = r.c[1] + j
    BY <2>1, <2>2 DEF Inv, ReqOK, RangeResult
  <2> QED
    BY <2>2, <2>3, <2>4 DEF Asked, S
<1> QED
  BY <1>1, <1>2

\* A range goes on after a page that was mapped or unmapped, and ends after the
\* last one or the first failure.
LEMMA ContinueOK ==
  ASSUME NEW r, NEW op \in {"map", "unmap", "map_for"}, Asked(r, op), NEW ok \in BOOLEAN, Continue(r, ok),
         op = "map" => r.root = kernel_pml4, op = "map_for" => r.root \in spaces',
         op # "unmap" => \A j \in 0 .. r.i - 1 : Translate(mem', r.root, r.v + j) = Translate(mem, r.root, r.v + j),
         op # "unmap" /\ ok => Translate(mem', r.root, r.v + r.i).to = r.c[1] + r.i
  PROVE  ReqOK'
<1> DEFINE S == SetOf(op)
<1>1. /\ r = [op |-> op, root |-> r.root, v |-> r.v, c |-> r.c, n |-> r.n, i |-> r.i, state |-> "busy"]
      /\ r.n \in 1 .. MaxCount /\ r.i \in 0 .. r.n - 1
      /\ \A j \in 0 .. r.n - 1 : r.v + j \in SetOf(op)
  BY DEF Asked
<1>2. op # "unmap" => \A j \in 0 .. r.i - 1 : Translate(mem', r.root, r.v + j).to = r.c[1] + j
  BY DEF Asked
<1>3. CASE ok /\ r.i + 1 < r.n
  <2>1. req' = [op |-> op, root |-> r.root, v |-> r.v, c |-> r.c, n |-> r.n, i |-> r.i + 1, state |-> "busy"]
    BY <1>1, <1>3 DEF Continue
  <2>2. /\ req'.op = op /\ req'.root = r.root /\ req'.v = r.v /\ req'.c = r.c /\ req'.n = r.n
        /\ req'.i = r.i + 1 /\ req'.state = "busy"
    BY <2>1
  <2>3. ReqInv' /\ req'.i \in 0 .. MaxCount - 1
    BY <1>1, <1>3, <2>2, CallsAssumption DEF ReqInv
  <2>4. ASSUME op # "unmap", NEW j \in 0 .. r.i PROVE Translate(mem', r.root, r.v + j).to = r.c[1] + j
    <3>1. j = r.i \/ j \in 0 .. r.i - 1
      BY <1>1
    <3> QED
      BY <1>2, <1>3, <2>4, <3>1
  <2>5. RangeResult'
    <3> DEFINE k == IF req'.state = "true" THEN req'.n ELSE req'.i
    <3>1. k = r.i + 1
      BY <2>2
    <3>2. RangeResult' <=> (req'.op \in {"map", "map_for"} =>
            \A j \in 0 .. k - 1 : Translate(mem', req'.root, req'.v + j).to = req'.c[1] + j)
      BY DEF RangeResult
    <3> HIDE DEF k
    <3>3. op # "unmap" => \A j \in 0 .. k - 1 : Translate(mem', r.root, r.v + j).to = r.c[1] + j
      <4>1. k - 1 = r.i
        BY <1>1, <3>1
      <4> QED
        BY <2>4, <4>1, ZenonT(40)
    <3>4. req'.op \in {"map", "map_for"} => op # "unmap"
      BY <2>2
    <3> QED
      BY <2>2, <3>2, <3>3, <3>4, ZenonT(40)
  <2> QED
    BY <2>2, <2>3, <2>5 DEF ReqOK
<1>4. CASE ~(ok /\ r.i + 1 < r.n)
  <2>1. req' = [op |-> op, root |-> r.root, v |-> r.v, c |-> r.c, n |-> r.n, i |-> r.i,
                state |-> IF ok THEN "true" ELSE "false"]
    BY <1>1, <1>4 DEF Continue, Return
  <2>2. /\ req'.op = op /\ req'.root = r.root /\ req'.v = r.v /\ req'.c = r.c /\ req'.n = r.n
        /\ req'.i = r.i /\ req'.state = IF ok THEN "true" ELSE "false"
    BY <2>1
  <2>3. ReqInv' /\ req'.i \in 0 .. MaxCount - 1
    BY <1>1, <2>2, CallsAssumption DEF ReqInv
  <2>4. ASSUME op # "unmap", ok, NEW j \in 0 .. r.n - 1 PROVE Translate(mem', r.root, r.v + j).to = r.c[1] + j
    <3>1. r.n = r.i + 1
      BY <1>1, <1>4, <2>4
    <3>2. j = r.i \/ j \in 0 .. r.i - 1
      BY <1>1, <3>1
    <3> QED
      BY <1>2, <2>4, <3>2
  <2>5. RangeResult'
    BY <1>2, <2>2, <2>4 DEF RangeResult
  <2> QED
    BY <2>2, <2>3, <2>5 DEF ReqOK
<1> QED
  BY <1>3, <1>4

\* A call that maps no range returns.
LEMMA ReturnOK ==
  ASSUME NEW r, NEW op \in {"map_huge", "unmap_huge"}, Asked(r, op), NEW ok \in BOOLEAN, Return(r, ok)
  PROVE  ReqOK'
<1>1. /\ r = [op |-> op, root |-> r.root, v |-> r.v, c |-> r.c, n |-> r.n, i |-> r.i, state |-> "busy"]
      /\ r.n \in 1 .. MaxCount /\ r.i \in 0 .. r.n - 1
  BY DEF Asked
<1>2. req' = [op |-> op, root |-> r.root, v |-> r.v, c |-> r.c, n |-> r.n, i |-> r.i,
              state |-> IF ok THEN "true" ELSE "false"]
  BY <1>1 DEF Return
<1>3. req'.op = op /\ req'.i = r.i /\ req'.state = IF ok THEN "true" ELSE "false"
  BY <1>2
<1> QED
  BY <1>1, <1>3, CallsAssumption DEF ReqOK, ReqInv, RangeResult

\* invlpg brings the translations the processor holds up to date when only the
\* page, or a huge mapping around it, has lost its translation.
LEMMA InvlpgOK ==
  ASSUME TlbCoherent, tlb \in [KernelPages -> Entry], NEW n, NEW v, NEW d, dropped \ {v} \subseteq d,
         \A p \in KernelPages : Translate(n, kernel_pml4, p) \in Entry,
         \A p \in KernelPages \ d :
           /\ p # v /\ Translate(mem, kernel_pml4, p).p
           /\ ~(Translate(mem, kernel_pml4, p).huge /\ Huge(p) = Huge(v))
           => Translate(n, kernel_pml4, p) = Translate(mem, kernel_pml4, p)
  PROVE  /\ Invlpg(n, v) \in [KernelPages -> Entry]
         /\ \A p \in KernelPages \ d : Invlpg(n, v)[p] = Translate(n, kernel_pml4, p)
<1> DEFINE gone == {v} \cup {p \in KernelPages : tlb[p].huge /\ Huge(p) = Huge(v)}
<1>1. Invlpg(n, v) = [p \in KernelPages |->
        IF p \in gone \/ ~tlb[p].p THEN Translate(n, kernel_pml4, p) ELSE tlb[p]]
  BY DEF Invlpg
<1>2. \A p \in KernelPages : (p \in gone <=> p = v \/ (tlb[p].huge /\ Huge(p) = Huge(v))) /\ tlb[p] \in Entry
  OBVIOUS
<1> HIDE DEF gone
<1>3. ASSUME NEW p \in KernelPages \ d PROVE Invlpg(n, v)[p] = Translate(n, kernel_pml4, p)
  <2>1. CASE p \in gone \/ ~tlb[p].p
    BY <1>1, <2>1
  <2>2. CASE ~(p \in gone \/ ~tlb[p].p)
    <3>1. p # v /\ tlb[p].p /\ ~(tlb[p].huge /\ Huge(p) = Huge(v))
      BY <1>2, <2>2
    <3>2. tlb[p] = Translate(mem, kernel_pml4, p)
      BY <3>1 DEF TlbCoherent
    <3>3. Translate(n, kernel_pml4, p) = tlb[p]
      BY <3>1, <3>2
    <3> QED
      BY <1>1, <2>2, <3>3
  <2> QED
    BY <2>1, <2>2
<1> QED
  BY <1>1, <1>2, <1>3

-----------------------------------------------------------------------------
(* What each call does to the translations.                                *)

SameView == \A q \in Roots, w \in 0 .. Top - 1 : Translate(mem', q, w) = Translate(mem, q, w)

MapsPage(root, v, to) ==
  /\ LeafStored(mem', mem, Roots, root, v) /\ Translate(mem, root, v) = Absent
  /\ Translate(mem', root, v).p /\ ~Translate(mem', root, v).huge /\ Translate(mem', root, v).to = to

UnmapsPage(v) ==
  /\ LeafStored(mem', mem, Roots, kernel_pml4, v) /\ ~Translate(mem, kernel_pml4, v).huge
  /\ Translate(mem, kernel_pml4, v).p /\ Translate(mem', kernel_pml4, v) = Absent

Grows == Fine(mem', used', Roots) /\ used \in Nat /\ used' \in Nat /\ used <= used'

\* Storing a leaf in an empty slot maps the page and nothing else.
LEMMA MapLeaf ==
  ASSUME NEW R, Fine(mem, used, R), NEW r, NEW v, NEW user, Walks(R, r, v, user),
         NEW x \in Entry, x.p, x.user = user, ~x.huge,
         NEW m, NEW u, Grown(mem, used, m, u, R), E2(m, r, v).p, ~E2(m, r, v).huge, ~E1(m, r, v).p
  PROVE  Mapped(Store(m, <<E2(m, r, v).to, PT_INDEX(v)>>, x), u, R, r, v, x.to)
<1> DEFINE n == Store(m, <<E2(m, r, v).to, PT_INDEX(v)>>, x)
<1>1. r \in R /\ v \in 0 .. Top - 1 /\ (user <=> PML4_INDEX(v) \notin KernelHalf)
  BY DEF Walks
<1>2. Fine(m, u, R) /\ \A q \in R, w \in 0 .. Top - 1 : Translate(m, q, w) = Translate(mem, q, w)
  BY DEF Grown
<1>3. /\ Fine(n, u, R) /\ LeafStored(n, m, R, r, v)
      /\ (Translate(n, r, v).p <=> x.p) /\ ~Translate(n, r, v).huge /\ Translate(n, r, v).to = x.to
  BY <1>1, <1>2, StoreLeaf
<1>4. Translate(m, r, v) = Absent
  BY NoTranslation
<1> HIDE DEF n
<1>5. LeafStored(n, mem, R, r, v)
  BY <1>2, <1>3 DEF LeafStored
<1> QED
  BY <1>1, <1>2, <1>3, <1>4, <1>5 DEF n, Mapped

KernelWalk(v) == Walks(Roots, kernel_pml4, v, FALSE)

\* The kernel walks from its own root, for ring 0.
LEMMA KernelWalks ==
  ASSUME NEW v \in KernelPages
  PROVE  KernelWalk(v)
BY HalfOf DEF KernelWalk, Walks, Roots

\* vmm_map maps its page, or changes no translation.
LEMMA MapEffect ==
  ASSUME Inv, NEW r, r.i \in Nat, r.c \in Nat \X BOOLEAN, Page(r) \in KernelPages, vmm_map(r)
  PROVE  /\ Grows /\ spaces' = spaces
         /\ \E fits \in BOOLEAN :
              /\ Continue(r, fits)
              /\ ~fits => SameView /\ tlb' = tlb /\ dropped' = dropped
              /\ fits => /\ MapsPage(kernel_pml4, Page(r), r.c[1] + r.i)
                         /\ tlb' = Invlpg(mem', Page(r)) /\ dropped' = dropped \ {Page(r)}
<1> DEFINE v == Page(r)
           k == kernel_pml4
           user == FALSE
           s == Tables(k, v, user)
           pte == get_pte(s.mem, k, v)
           fits == s.ok /\ Free(s.mem, pte)
           x == Leaf(r, r.c, user)
<1>1. /\ mem' = IF fits THEN Store(s.mem, pte, x) ELSE s.mem
      /\ used' = s.used /\ spaces' = spaces
      /\ tlb' = IF fits THEN Invlpg(mem', v) ELSE tlb
      /\ dropped' = IF fits THEN dropped \ {v} ELSE dropped
      /\ Continue(r, fits)
  BY ZenonT(40) DEF vmm_map
<1>2. Walks(Roots, k, v, user) /\ k \in Roots /\ v \in 0 .. Top - 1
  BY KernelWalks DEF KernelWalk, Walks
<1>3. Fine(mem, used, Roots)
  BY DEF Inv
<1>4. Walked(s, E2(s.mem, k, v).p) /\ Grown(mem, used, s.mem, s.used, Roots)
  BY <1>2, <1>3, TablesGrows, ZenonT(40)
<1>5. x \in Entry /\ x.p /\ ~x.huge /\ x.user = user /\ x.to = r.c[1] + r.i
  BY LeafEntry, ZenonT(40)
<1> HIDE DEF s, x, v, user
<1>6. fits \in BOOLEAN /\ s.ok \in BOOLEAN
  BY <1>4 DEF Walked, Free
<1>7. CASE ~fits
  BY <1>1, <1>4, <1>6, <1>7, ZenonT(40) DEF Grown, SameView, Grows, v
<1>8. CASE fits
  <2>1. E2(s.mem, k, v).p /\ ~At(s.mem, pte).p /\ s.ok
    BY <1>4, <1>8 DEF Walked, Free
  <2>2. ~E2(s.mem, k, v).huge /\ pte = <<E2(s.mem, k, v).to, PT_INDEX(v)>> /\ ~E1(s.mem, k, v).p
    <3> PICK lev, usr : Shape(s.mem, s.used, Roots, lev, usr)
      BY <1>4 DEF Grown, Fine
    <3>1. /\ pte = (IF E2(s.mem, k, v).huge THEN <<E3(s.mem, k, v).to, PD_INDEX(v)>>
                    ELSE IF E2(s.mem, k, v).p THEN <<E2(s.mem, k, v).to, PT_INDEX(v)>> ELSE NULL)
          /\ At(s.mem, pte) = (IF E2(s.mem, k, v).huge THEN E2(s.mem, k, v) ELSE E1(s.mem, k, v))
      BY <1>2, GetIs
    <3> HIDE DEF pte
    <3>2. ~E2(s.mem, k, v).huge
      BY <2>1, <3>1
    <3> QED
      BY <2>1, <3>1, <3>2
  <2> DEFINE n == Store(s.mem, <<E2(s.mem, k, v).to, PT_INDEX(v)>>, x)
  <2>3. Mapped(n, s.used, Roots, k, v, x.to)
    BY <1>2, <1>3, <1>4, <1>5, <2>1, <2>2, MapLeaf, ZenonT(40)
  <2>4. mem' = n
    BY <1>1, <1>8, <2>2
  <2> HIDE DEF n, pte
  <2>5. MapsPage(k, v, r.c[1] + r.i)
    BY <1>5, <2>3, <2>4 DEF MapsPage, Mapped
  <2>6. Grows
    BY <1>1, <1>4, <2>3, <2>4 DEF Grows, Grown, Mapped
  <2> QED
    BY <1>1, <1>8, <2>5, <2>6, ZenonT(40) DEF v
<1> QED
  BY <1>6, <1>7, <1>8

\* vmm_map_for_pml4 maps its page below its root, or changes no translation.
LEMMA MapForEffect ==
  ASSUME Inv, NEW r, r.i \in Nat, r.c \in Nat \X BOOLEAN, r.root \in spaces, Page(r) \in UserPages,
         vmm_map_for_pml4(r)
  PROVE  /\ Grows /\ spaces' = spaces /\ tlb' = tlb /\ dropped' = dropped
         /\ \E fits \in BOOLEAN :
              /\ Continue(r, fits)
              /\ ~fits => SameView
              /\ fits => MapsPage(r.root, Page(r), r.c[1] + r.i)
<1> DEFINE v == Page(r)
           k == r.root
           user == TRUE
           s == Tables(k, v, user)
           pte == Below(s.mem, get_pde(s.mem, k, v), PT_INDEX(v))
           fits == s.ok /\ Free(s.mem, pte)
           x == Leaf(r, NoExecute(r.c), user)
<1>1. /\ mem' = IF fits THEN Store(s.mem, pte, x) ELSE s.mem
      /\ used' = s.used /\ spaces' = spaces /\ tlb' = tlb /\ dropped' = dropped
      /\ Continue(r, fits)
  BY ZenonT(40) DEF vmm_map_for_pml4
<1>2. Walks(Roots, k, v, user) /\ k \in Roots /\ v \in 0 .. Top - 1 /\ PML4_INDEX(v) \notin KernelHalf
  <2>1. k \in Roots /\ k # kernel_pml4
    BY DEF Roots, Inv, TypeOK, kernel_pml4
  <2> QED
    BY <2>1, HalfOf DEF Walks
<1>3. Fine(mem, used, Roots)
  BY DEF Inv
<1>4. Walked(s, E2(s.mem, k, v).p) /\ Grown(mem, used, s.mem, s.used, Roots)
  BY <1>2, <1>3, TablesGrows, ZenonT(40)
<1>5. x \in Entry /\ x.p /\ ~x.huge /\ x.user = user /\ x.to = r.c[1] + r.i
  <2>1. NoExecute(r.c) \in Nat \X BOOLEAN /\ NoExecute(r.c)[1] = r.c[1]
    BY ZenonT(40) DEF NoExecute
  <2>2. user \in BOOLEAN
    OBVIOUS
  <2> HIDE DEF user
  <2>3. x \in Entry /\ x.p /\ ~x.huge /\ x.user = user /\ x.to = NoExecute(r.c)[1] + r.i
    BY <2>1, <2>2, LeafEntry, ZenonT(40)
  <2> QED
    BY <2>1, <2>3, ZenonT(40)
<1> HIDE DEF s, x, v, k, user
<1>6. fits \in BOOLEAN /\ s.ok \in BOOLEAN
  BY <1>4 DEF Walked, Free
<1>7. CASE ~fits
  BY <1>1, <1>4, <1>6, <1>7, ZenonT(40) DEF Grown, SameView, Grows, v
<1>8. CASE fits
  <2>1. E2(s.mem, k, v).p /\ At(s.mem, pte).p = FALSE /\ s.ok
    BY <1>4, <1>8 DEF Walked, Free
  <2>2. ~E2(s.mem, k, v).huge /\ pte = <<E2(s.mem, k, v).to, PT_INDEX(v)>> /\ ~E1(s.mem, k, v).p
    <3> PICK lev, usr : Shape(s.mem, s.used, Roots, lev, usr)
      BY <1>4 DEF Grown, Fine
    <3>1. pte = <<E2(s.mem, k, v).to, PT_INDEX(v)>>
      BY <1>2, <2>1, GetIs
    <3>2. ~E2(s.mem, k, v).huge
      BY <1>2, UserPath
    <3>3. At(s.mem, pte) = E1(s.mem, k, v)
      BY <3>1 DEF At, E1
    <3> QED
      BY <2>1, <3>1, <3>2, <3>3
  <2> DEFINE n == Store(s.mem, <<E2(s.mem, k, v).to, PT_INDEX(v)>>, x)
  <2>3. Mapped(n, s.used, Roots, k, v, x.to)
    BY <1>2, <1>3, <1>4, <1>5, <2>1, <2>2, MapLeaf, ZenonT(40)
  <2>4. mem' = n
    BY <1>1, <1>8, <2>2
  <2> HIDE DEF n, pte
  <2>5. MapsPage(k, v, r.c[1] + r.i)
    BY <1>5, <2>3, <2>4 DEF MapsPage, Mapped
  <2>6. Grows
    BY <1>1, <1>4, <2>3, <2>4 DEF Grows, Grown, Mapped
  <2> QED
    BY <1>1, <1>8, <2>5, <2>6, ZenonT(40) DEF v, k
<1> QED
  BY <1>6, <1>7, <1>8

Block(v) == {w \in 0 .. Top - 1 : Huge(w) = Huge(v)}

UnmapsBlock(v) ==
  /\ BlockStored(mem', mem, Roots, kernel_pml4, v, Absent)
  /\ \A w \in Block(v) : Translate(mem, kernel_pml4, w).p /\ Translate(mem, kernel_pml4, w).huge

\* The pages of a block are translated by the same page directory entry.
LEMMA BlockTranslations ==
  ASSUME NEW m, NEW u, NEW R, Fine(m, u, R), NEW r \in R, NEW v \in 0 .. Top - 1, NEW w \in Block(v)
  PROVE  /\ E2(m, r, v).huge => Translate(m, r, w).p /\ Translate(m, r, w).huge
         /\ ~E2(m, r, v).huge => ~Translate(m, r, w).huge
         /\ ~E2(m, r, v).p => Translate(m, r, w) = Absent
<1> PICK lev, usr : Shape(m, u, R, lev, usr)
  BY DEF Fine
<1>1. w \in 0 .. Top - 1 /\ Huge(v) = Huge(w)
  BY DEF Block
<1>2. E2(m, r, v) = E2(m, r, w)
  BY <1>1, BlockEntries
<1> DEFINE t == Translate(m, r, w)
<1>3. E2(m, r, v).huge => t.p /\ t.huge
  <2> SUFFICES ASSUME E2(m, r, w).huge PROVE t.p /\ t.huge
    BY <1>2
  <2>1. t = [p |-> TRUE, huge |-> TRUE, nx |-> E2(m, r, w).nx, user |-> t.user,
             to |-> E2(m, r, w).to + PT_INDEX(w)]
    BY <1>1, TranslateIs
  <2> QED
    BY <2>1
<1>4. ~E2(m, r, v).huge => ~t.huge
  <2> SUFFICES ASSUME ~E2(m, r, w).huge PROVE ~t.huge
    BY <1>2
  <2>1. CASE E1(m, r, w).p
    <3>1. t = [p |-> TRUE, huge |-> FALSE, nx |-> E1(m, r, w).nx, user |-> t.user, to |-> E1(m, r, w).to]
      BY <1>1, <2>1, TranslateIs
    <3> QED
      BY <3>1
  <2>2. CASE ~E1(m, r, w).p
    BY <1>1, <2>2, NoTranslation, AbsentEntry
  <2> QED
    BY <2>1, <2>2
<1>5. ~E2(m, r, v).p => t = Absent
  BY <1>2, NoTranslation
<1> QED
  BY <1>3, <1>4, <1>5

\* vmm_unmap unmaps its page, or all of the 2 MiB mapping the page is in, or
\* changes nothing.
LEMMA UnmapEffect ==
  ASSUME Inv, NEW r, Page(r) \in KernelPages, vmm_unmap(r)
  PROVE  /\ Grows /\ used' = used /\ spaces' = spaces /\ dropped' = dropped
         /\ \E there \in BOOLEAN :
              /\ Continue(r, there \/ r.n > 1)
              /\ ~there => SameView /\ tlb' = tlb
              /\ there => /\ UnmapsPage(Page(r)) \/ UnmapsBlock(Page(r))
                          /\ tlb' = Invlpg(mem', Page(r))
<1> DEFINE v == Page(r)
           k == kernel_pml4
           pte == get_pte(mem, k, v)
           there == Present(mem, pte)
<1>1. /\ mem' = IF there THEN Store(mem, pte, Absent) ELSE mem
      /\ used' = used /\ spaces' = spaces /\ dropped' = dropped
      /\ tlb' = IF there THEN Invlpg(mem', v) ELSE tlb
      /\ Continue(r, there \/ r.n > 1)
  BY DEF vmm_unmap
<1>2. k \in Roots /\ v \in 0 .. Top - 1 /\ PML4_INDEX(v) \in KernelHalf
  BY HalfOf DEF Roots
<1> PICK lev, usr : Shape(mem, used, Roots, lev, usr)
  BY DEF Inv, Fine
<1>3. Fine(mem, used, Roots) /\ used \in Nat
  BY DEF Inv, TypeOK
<1>4. /\ pte = (IF E2(mem, k, v).huge THEN <<E3(mem, k, v).to, PD_INDEX(v)>>
                ELSE IF E2(mem, k, v).p THEN <<E2(mem, k, v).to, PT_INDEX(v)>> ELSE NULL)
      /\ At(mem, pte) = (IF E2(mem, k, v).huge THEN E2(mem, k, v) ELSE E1(mem, k, v))
  BY <1>2, GetIs
<1>5. (there <=> pte # NULL /\ At(mem, pte).p) /\ there \in BOOLEAN
  BY DEF Present
<1> HIDE DEF pte, there
<1>6. CASE ~there
  BY <1>1, <1>3, <1>5, <1>6 DEF Grows, SameView, v
<1>7. CASE there /\ E2(mem, k, v).huge
  <2> DEFINE n == Store(mem, <<E3(mem, k, v).to, PD_INDEX(v)>>, Absent)
  <2>1. E3(mem, k, v).p
    BY <1>2, <1>7, Path, AbsentEntry
  <2>2. Fine(n, used, Roots) /\ BlockStored(n, mem, Roots, k, v, Absent)
    BY <1>2, <1>3, <2>1, AbsentEntry, StoreBlock
  <2>3. mem' = n
    BY <1>1, <1>4, <1>7, ZenonT(40)
  <2> HIDE DEF n
  <2>4. UnmapsBlock(v)
    BY <1>2, <1>3, <1>7, <2>2, <2>3, BlockTranslations DEF UnmapsBlock
  <2>5. Grows
    BY <1>1, <1>3, <2>2, <2>3 DEF Grows
  <2> QED
    BY <1>1, <1>7, <2>4, <2>5, ZenonT(40) DEF v
<1>8. CASE there /\ ~E2(mem, k, v).huge
  <2> DEFINE n == Store(mem, <<E2(mem, k, v).to, PT_INDEX(v)>>, Absent)
  <2>1. E2(mem, k, v).p /\ pte = <<E2(mem, k, v).to, PT_INDEX(v)>> /\ E1(mem, k, v).p
    BY <1>4, <1>5, <1>8
  <2>2. Fine(n, used, Roots) /\ LeafStored(n, mem, Roots, k, v) /\ Translate(n, k, v) = Absent
    BY <1>2, <1>3, <1>8, <2>1, AbsentEntry, StoreLeaf
  <2>3. mem' = n
    BY <1>1, <1>8, <2>1
  <2>4. Translate(mem, k, v) = [p |-> TRUE, huge |-> FALSE, nx |-> E1(mem, k, v).nx,
                                user |-> Translate(mem, k, v).user, to |-> E1(mem, k, v).to]
    BY <1>2, <1>8, <2>1, TranslateIs
  <2> HIDE DEF n
  <2>5. Translate(mem, k, v).p = TRUE /\ Translate(mem, k, v).huge = FALSE
    BY <2>4
  <2>6. UnmapsPage(v)
    BY <2>2, <2>3, <2>5 DEF UnmapsPage
  <2>7. Grows
    BY <1>1, <1>3, <2>2, <2>3 DEF Grows
  <2> QED
    BY <1>1, <1>8, <2>6, <2>7, ZenonT(40) DEF v
<1> QED
  BY <1>6, <1>7, <1>8

\* The block was not mapped, and is now, from frame "to" on.
MapsBlock(v, to) ==
  /\ \A w \in Block(v) : Translate(mem, kernel_pml4, w) = Absent
  /\ \E x \in Entry : x.p /\ x.to = to /\ BlockStored(mem', mem, Roots, kernel_pml4, v, x)

\* vmm_map_huge_2mb maps the block, or changes no translation.
LEMMA MapHugeEffect ==
  ASSUME Inv, NEW r, r.i = 0, r.c \in Nat \X BOOLEAN, r.v \in KernelPages, vmm_map_huge_2mb(r)
  PROVE  /\ Grows /\ spaces' = spaces /\ dropped' = dropped
         /\ \E ok \in BOOLEAN :
              /\ Return(r, ok)
              /\ ~ok => SameView /\ tlb' = tlb
              /\ ok => MapsBlock(r.v, r.c[1]) /\ r.v % Span = 0 /\ tlb' = Invlpg(mem', r.v)
<1> DEFINE v == r.v
           k == kernel_pml4
           user == FALSE
           s == Directory(k, v, user)
           pde == get_pde(s.mem, k, v)
           fits == s.ok /\ ~Present(s.mem, pde)
           aligned == v % Span = 0 /\ r.c[1] % Span = 0
           x == [Leaf(r, r.c, user) EXCEPT !.huge = TRUE]
<1>1. /\ mem' = IF ~aligned THEN mem ELSE IF fits THEN Store(s.mem, pde, x) ELSE s.mem
      /\ used' = IF aligned THEN s.used ELSE used
      /\ spaces' = spaces /\ dropped' = dropped
      /\ tlb' = IF aligned /\ fits THEN Invlpg(mem', v) ELSE tlb
      /\ Return(r, aligned /\ fits)
  BY ZenonT(40) DEF vmm_map_huge_2mb
<1>2. Walks(Roots, k, v, user) /\ k \in Roots /\ v \in 0 .. Top - 1 /\ PML4_INDEX(v) \in KernelHalf
  BY KernelWalks, HalfOf DEF KernelWalk, Walks
<1>3. Fine(mem, used, Roots) /\ used \in Nat
  BY DEF Inv, TypeOK
<1>4. Walked(s, E3(s.mem, k, v).p) /\ Grown(mem, used, s.mem, s.used, Roots)
  BY <1>2, <1>3, DirectoryGrows, ZenonT(40)
<1>5. x \in Entry /\ x.p /\ x.huge /\ x.user = user /\ x.to = r.c[1]
  <2> DEFINE y == Leaf(r, r.c, user)
  <2>1. user \in BOOLEAN /\ r.i \in Nat
    OBVIOUS
  <2>2. y \in Entry /\ y.p /\ ~y.huge /\ y.user = user /\ y.to = r.c[1] + r.i
    BY <2>1, LeafEntry, ZenonT(40)
  <2> HIDE DEF user
  <2>3. r.c[1] + r.i = r.c[1]
    OBVIOUS
  <2> HIDE DEF y
  <2>4. [y EXCEPT !.huge = TRUE] \in Entry /\ [y EXCEPT !.huge = TRUE].huge
        /\ [y EXCEPT !.huge = TRUE].p = y.p /\ [y EXCEPT !.huge = TRUE].user = y.user /\ [y EXCEPT !.huge = TRUE].to = y.to
    BY <2>2, HugeEntry, ZenonT(40)
  <2>5. x = [y EXCEPT !.huge = TRUE]
    BY DEF y
  <2> HIDE DEF x
  <2> QED
    BY <2>2, <2>3, <2>4, <2>5, ZenonT(40)
<1>6. ~x.user
  BY <1>5, ZenonT(40)
<1> HIDE DEF s, x, v, user
<1>7. fits \in BOOLEAN /\ aligned \in BOOLEAN /\ (aligned => v % Span = 0)
  BY <1>4 DEF Walked, Present
<1> HIDE DEF aligned
<1>8. CASE ~aligned
  BY <1>1, <1>3, <1>7, <1>8 DEF Grows, SameView, v
<1>9. CASE aligned /\ ~fits
  BY <1>1, <1>4, <1>7, <1>9, ZenonT(40) DEF Grown, Grows, SameView, v
<1>10. CASE aligned /\ fits
  <2> PICK lev, usr : Shape(s.mem, s.used, Roots, lev, usr)
    BY <1>4 DEF Grown, Fine
  <2>1. E3(s.mem, k, v).p /\ ~Present(s.mem, pde) /\ Fine(s.mem, s.used, Roots)
    BY <1>4, <1>10 DEF Walked, Grown
  <2>2. pde = <<E3(s.mem, k, v).to, PD_INDEX(v)>> /\ pde # NULL /\ At(s.mem, pde) = E2(s.mem, k, v)
    BY <1>2, <2>1, GetIs, ZenonT(40)
  <2>3. ~E2(s.mem, k, v).p
    BY <2>1, <2>2 DEF Present
  <2> DEFINE n == Store(s.mem, <<E3(s.mem, k, v).to, PD_INDEX(v)>>, x)
  <2>4. Fine(n, s.used, Roots) /\ BlockStored(n, s.mem, Roots, k, v, x)
    BY <1>2, <1>5, <1>6, <2>1, StoreBlock, ZenonT(40)
  <2>5. mem' = n
    BY <1>1, <1>10, <2>2, ZenonT(40)
  <2> HIDE DEF n, pde
  <2>6. \A q \in Roots, w \in 0 .. Top - 1 : Translate(s.mem, q, w) = Translate(mem, q, w)
    BY <1>4, ZenonT(40) DEF Grown
  <2>7. BlockStored(n, mem, Roots, k, v, x)
    BY <2>4, <2>6 DEF BlockStored
  <2>8. \A w \in Block(v) : Translate(mem, k, w) = Absent
    <3> SUFFICES ASSUME NEW w \in Block(v) PROVE Translate(mem, k, w) = Absent
      OBVIOUS
    <3>1. Translate(s.mem, k, w) = Absent
      BY <1>2, <2>1, <2>3, BlockTranslations
    <3> QED
      BY <1>2, <2>6, <3>1 DEF Block
  <2>9. MapsBlock(v, r.c[1])
    BY <1>5, <2>5, <2>7, <2>8 DEF MapsBlock
  <2>10. Grows
    BY <1>1, <1>4, <1>10, <2>4, <2>5, ZenonT(40) DEF Grows, Grown
  <2> QED
    BY <1>1, <1>7, <1>10, <2>9, <2>10, ZenonT(40) DEF v
<1> QED
  BY <1>7, <1>8, <1>9, <1>10

\* The pages of the block were not mapped as one.
DropsTable(v) ==
  /\ BlockStored(mem', mem, Roots, kernel_pml4, v, Absent)
  /\ \A w \in Block(v) : ~Translate(mem, kernel_pml4, w).huge

\* vmm_unmap_huge_2mb empties the page directory entry, whatever it was.
LEMMA UnmapHugeEffect ==
  ASSUME Inv, NEW r, r.v \in KernelPages, vmm_unmap_huge_2mb(r)
  PROVE  /\ Grows /\ used' = used /\ spaces' = spaces
         /\ \E there \in BOOLEAN :
              /\ Return(r, there)
              /\ ~there => SameView /\ tlb' = tlb /\ dropped' = dropped
              /\ there => /\ tlb' = Invlpg(mem', r.v) /\ r.v % Span = 0
                          /\ \/ UnmapsBlock(r.v) /\ dropped' = dropped
                             \/ /\ DropsTable(r.v)
                                /\ dropped' = dropped \cup {p \in KernelPages : Huge(p) = r.v /\ p # r.v}
<1> DEFINE v == r.v
           k == kernel_pml4
           pde == get_pde(mem, k, v)
           there == v % Span = 0 /\ Present(mem, pde)
           rest == {p \in KernelPages : Huge(p) = v /\ p # v}
<1>1. /\ mem' = IF there THEN Store(mem, pde, Absent) ELSE mem
      /\ used' = used /\ spaces' = spaces
      /\ dropped' = IF there /\ ~At(mem, pde).huge THEN dropped \cup rest ELSE dropped
      /\ tlb' = IF there THEN Invlpg(mem', v) ELSE tlb
      /\ Return(r, there)
  BY DEF vmm_unmap_huge_2mb
<1>2. k \in Roots /\ v \in 0 .. Top - 1 /\ PML4_INDEX(v) \in KernelHalf
  BY HalfOf DEF Roots
<1> PICK lev, usr : Shape(mem, used, Roots, lev, usr)
  BY DEF Inv, Fine
<1>3. Fine(mem, used, Roots) /\ used \in Nat
  BY DEF Inv, TypeOK
<1>4. /\ pde = (IF E3(mem, k, v).p THEN <<E3(mem, k, v).to, PD_INDEX(v)>> ELSE NULL)
      /\ At(mem, pde) = E2(mem, k, v)
  BY <1>2, GetIs
<1>5. there \in BOOLEAN /\ (there => pde # NULL /\ v % Span = 0)
  BY DEF Present
<1> HIDE DEF pde, there, rest
<1>6. CASE ~there
  BY <1>1, <1>3, <1>5, <1>6 DEF Grows, SameView, v
<1>7. CASE there
  <2> DEFINE n == Store(mem, <<E3(mem, k, v).to, PD_INDEX(v)>>, Absent)
  <2>1. E3(mem, k, v).p /\ pde = <<E3(mem, k, v).to, PD_INDEX(v)>>
    BY <1>4, <1>5, <1>7
  <2>2. Fine(n, used, Roots) /\ BlockStored(n, mem, Roots, k, v, Absent)
    BY <1>2, <1>3, <2>1, AbsentEntry, StoreBlock
  <2>3. mem' = n
    BY <1>1, <1>7, <2>1
  <2> HIDE DEF n
  <2>4. Grows
    BY <1>1, <1>3, <2>2, <2>3 DEF Grows
  <2>5. CASE E2(mem, k, v).huge
    <3>1. UnmapsBlock(v)
      BY <1>2, <1>3, <2>2, <2>3, <2>5, BlockTranslations DEF UnmapsBlock
    <3>2. dropped' = dropped
      BY <1>1, <1>4, <2>5
    <3> QED
      BY <1>1, <1>5, <1>7, <2>4, <3>1, <3>2, ZenonT(40) DEF v
  <2>6. CASE ~E2(mem, k, v).huge
    <3>1. DropsTable(v)
      BY <1>2, <1>3, <2>2, <2>3, <2>6, BlockTranslations DEF DropsTable
    <3>2. dropped' = dropped \cup rest
      BY <1>1, <1>4, <1>7, <2>6
    <3> QED
      BY <1>1, <1>5, <1>7, <2>4, <3>1, <3>2, ZenonT(40) DEF v, rest
  <2> QED
    BY <2>5, <2>6
<1> QED
  BY <1>5, <1>6, <1>7

-----------------------------------------------------------------------------
(* Every action keeps the invariant.                                       *)

\* Translations of the kernel are entries.
LEMMA KernelTranslations ==
  ASSUME NEW m, NEW u, NEW R, Fine(m, u, R), kernel_pml4 \in R
  PROVE  \A p \in KernelPages : Translate(m, kernel_pml4, p) \in Entry
<1> PICK lev, usr : Shape(m, u, R, lev, usr)
  BY DEF Fine
<1> QED
  BY HalfOf, TranslateIs, ZenonT(40)

\* The parts that do not depend on what the call was.
LEMMA GrowsTypes ==
  ASSUME Inv, Grows, spaces' = spaces
  PROVE  /\ mem' \in [0 .. NTables -> [0 .. TopSpan - 1 -> Entry]]
         /\ \A i \in 0 .. TopSpan - 1 : mem'[0][i] = Absent
         /\ used' \in 3 .. NTables /\ spaces' \subseteq 4 .. used'
         /\ Roots' = Roots /\ Fine(mem', used', Roots')
         /\ \A p \in KernelPages : Translate(mem', kernel_pml4, p) \in Entry
<1>1. Roots' = Roots /\ kernel_pml4 \in Roots
  BY DEF Roots
<1>2. PICK lev, usr : Shape(mem', used', Roots, lev, usr)
  BY DEF Grows, Fine
<1>3. /\ mem' \in [0 .. NTables -> [Index -> Entry]] /\ used' \in 3 .. NTables
      /\ \A f \in 0 .. NTables, i \in Index : ~mem'[f][i].p \/ f = 0 \/ f > used' => mem'[f][i] = Absent
  BY <1>2 DEF Shape, Typed
<1>4. \A i \in 0 .. TopSpan - 1 : mem'[0][i] = Absent
  BY <1>3 DEF Index
<1>5. spaces' \subseteq 4 .. used'
  BY <1>3 DEF Inv, TypeOK, Grows
<1>6. \A p \in KernelPages : Translate(mem', kernel_pml4, p) \in Entry
  BY <1>1, KernelTranslations DEF Grows
<1> QED
  BY <1>1, <1>3, <1>4, <1>5, <1>6 DEF Index, Grows

\* A step that changes no translation of the kernel's, and not the TLB.
KernelViewSame == \A p \in KernelPages : Translate(mem', kernel_pml4, p) = Translate(mem, kernel_pml4, p)

\* No translation changes, so none of the kernel does.
LEMMA SameKernel ==
  ASSUME SameView
  PROVE  KernelViewSame
BY HalfOf DEF SameView, KernelViewSame, Roots

\* A step that leaves the kernel's translations alone.
LEMMA SameInv ==
  ASSUME Inv, Grows, spaces' = spaces, KernelViewSame, tlb' = tlb, dropped' = dropped, ReqOK'
  PROVE  Inv'
<1>1. TypeOK'
  BY GrowsTypes DEF Inv, TypeOK, ReqOK
<1>2. TlbCoherent'
  BY DEF Inv, TlbCoherent, KernelViewSame
<1> QED
  BY <1>1, <1>2, GrowsTypes DEF Inv

\* A step that ends with invlpg.
LEMMA InvlpgInv ==
  ASSUME Inv, Grows, spaces' = spaces, NEW v, tlb' = Invlpg(mem', v), dropped \ {v} \subseteq dropped',
         dropped' \subseteq KernelPages, ReqOK',
         \A p \in KernelPages \ dropped' :
           /\ p # v /\ Translate(mem, kernel_pml4, p).p
           /\ ~(Translate(mem, kernel_pml4, p).huge /\ Huge(p) = Huge(v))
           => Translate(mem', kernel_pml4, p) = Translate(mem, kernel_pml4, p)
  PROVE  Inv'
<1>1. TlbCoherent /\ tlb \in [KernelPages -> Entry]
  BY DEF Inv, TypeOK
<1>2. \A p \in KernelPages : Translate(mem', kernel_pml4, p) \in Entry
  BY GrowsTypes
<1>3. /\ tlb' \in [KernelPages -> Entry]
      /\ \A p \in KernelPages \ dropped' : tlb'[p] = Translate(mem', kernel_pml4, p)
  BY <1>1, <1>2, InvlpgOK
<1>4. TypeOK'
  BY <1>3, GrowsTypes DEF TypeOK, ReqOK
<1>5. TlbCoherent'
  BY <1>3 DEF TlbCoherent
<1> QED
  BY <1>4, <1>5, GrowsTypes DEF Inv

\* The pages of the range that were mapped before stay as they are.
LEMMA RangeKept ==
  ASSUME NEW r, NEW op, Asked(r, op), r.v \in SetOf(op), r.root \in Roots,
         SameView \/ LeafStored(mem', mem, Roots, r.root, Page(r))
  PROVE  \A j \in 0 .. r.i - 1 : Translate(mem', r.root, r.v + j) = Translate(mem, r.root, r.v + j)
<1> SUFFICES ASSUME NEW j \in 0 .. r.i - 1
             PROVE  Translate(mem', r.root, r.v + j) = Translate(mem, r.root, r.v + j)
  OBVIOUS
<1>1. SetOf(op) \subseteq 0 .. Top - 1 /\ \A w \in SetOf(op) : w \in Nat
  BY HalfOf, Digits DEF SetOf
<1>2. r.n \in Nat /\ r.i \in 0 .. r.n - 1 /\ \A l \in 0 .. r.n - 1 : r.v + l \in SetOf(op)
  BY CallsAssumption DEF Asked
<1>3. r.v + j \in 0 .. Top - 1
  <2>1. j \in 0 .. r.n - 1
    BY <1>2
  <2> QED
    BY <1>1, <1>2, <2>1
<1>4. r.v + j # Page(r)
  <2>1. r.v \in Nat
    BY <1>1
  <2> QED
    BY <1>2, <2>1 DEF Page
<1> QED
  BY <1>3, <1>4 DEF SameView, LeafStored

\* What a call's step works on.
LEMMA StepFacts ==
  ASSUME NEW r, NEW op, Asked(r, op)
  PROVE  r.i \in Nat /\ Page(r) \in SetOf(op)
BY CallsAssumption DEF Asked, Page

\* Each action keeps the invariant: vmm_map,
LEMMA MapInv ==
  ASSUME Inv, NEW r \in Calls("map", Kernel, KernelPages, Choices, Counts), vmm_map(r)
  PROVE  Inv'
<1> DEFINE v == Page(r)
           k == kernel_pml4
           op == "map"
<1>1. SetOf(op) = KernelPages /\ Counts \subseteq 1 .. MaxCount
  BY DEF SetOf, Counts
<1>2. Asked(r, op) /\ r.root \in Kernel /\ r.c \in Choices /\ r.v \in SetOf(op)
  <2>1. r \in Calls(op, Kernel, SetOf(op), Choices, Counts)
    BY <1>1, ZenonT(40)
  <2> HIDE DEF op
  <2> QED
    BY <1>1, <2>1, CallFacts, ZenonT(40)
<1>3. r.i \in Nat /\ v \in KernelPages /\ r.c \in Nat \X BOOLEAN /\ r.root \in Roots /\ r.root = k
  BY <1>1, <1>2, StepFacts, CallsAssumption DEF Roots, Kernel
<1>4. PICK fits \in BOOLEAN :
        /\ Continue(r, fits)
        /\ ~fits => SameView /\ tlb' = tlb /\ dropped' = dropped
        /\ fits => /\ MapsPage(k, v, r.c[1] + r.i)
                   /\ tlb' = Invlpg(mem', v) /\ dropped' = dropped \ {v}
  BY <1>3, MapEffect
<1>5. Grows /\ spaces' = spaces
  BY <1>3, MapEffect
<1>6. \A j \in 0 .. r.i - 1 : Translate(mem', r.root, r.v + j) = Translate(mem, r.root, r.v + j)
  BY <1>2, <1>3, <1>4, RangeKept, ZenonT(40) DEF MapsPage
<1>7. fits => Translate(mem', r.root, r.v + r.i).to = r.c[1] + r.i
  BY <1>3, <1>4 DEF MapsPage, Page
<1>8. ReqOK'
  BY <1>2, <1>3, <1>4, <1>6, <1>7, ContinueOK
<1>9. CASE ~fits
  BY <1>4, <1>5, <1>8, <1>9, SameKernel, SameInv
<1>10. CASE fits
  <2>1. \A p \in KernelPages \ dropped' : p # v => Translate(mem', k, p) = Translate(mem, k, p)
    BY <1>4, <1>10, HalfOf DEF MapsPage, LeafStored, Roots
  <2>2. tlb' = Invlpg(mem', v) /\ dropped \ {v} \subseteq dropped' /\ dropped' \subseteq KernelPages
    BY <1>4, <1>10 DEF Inv, TypeOK
  <2> QED
    BY <1>5, <1>8, <2>1, <2>2, InvlpgInv
<1> QED
  BY <1>9, <1>10

\* vmm_map_for_pml4,
LEMMA MapForInv ==
  ASSUME Inv, NEW r \in Calls("map_for", spaces, UserPages, Choices, Counts), vmm_map_for_pml4(r)
  PROVE  Inv'
<1> DEFINE v == Page(r)
           op == "map_for"
<1>1. SetOf(op) = UserPages /\ Counts \subseteq 1 .. MaxCount
  BY DEF SetOf, Counts
<1>2. Asked(r, op) /\ r.root \in spaces /\ r.c \in Choices /\ r.v \in SetOf(op)
  <2>1. r \in Calls(op, spaces, SetOf(op), Choices, Counts)
    BY <1>1, ZenonT(40)
  <2> HIDE DEF op
  <2> QED
    BY <1>1, <2>1, CallFacts, ZenonT(40)
<1>3. r.i \in Nat /\ v \in UserPages /\ r.c \in Nat \X BOOLEAN /\ r.root \in Roots
  BY <1>1, <1>2, StepFacts, CallsAssumption DEF Roots
<1>4. PICK fits \in BOOLEAN :
        Continue(r, fits) /\ (~fits => SameView) /\ (fits => MapsPage(r.root, v, r.c[1] + r.i))
  BY <1>2, <1>3, MapForEffect
<1>5. Grows /\ spaces' = spaces /\ tlb' = tlb /\ dropped' = dropped
  BY <1>2, <1>3, MapForEffect
<1>6. \A j \in 0 .. r.i - 1 : Translate(mem', r.root, r.v + j) = Translate(mem, r.root, r.v + j)
  BY <1>2, <1>3, <1>4, RangeKept DEF MapsPage
<1>7. fits => Translate(mem', r.root, r.v + r.i).to = r.c[1] + r.i
  BY <1>4 DEF MapsPage, Page
<1>8. ReqOK'
  BY <1>2, <1>4, <1>5, <1>6, <1>7, ContinueOK, ZenonT(40)
<1>9. CASE ~fits
  BY <1>4, <1>5, <1>8, <1>9, SameKernel, SameInv
<1>10. CASE fits
  <2>1. KernelViewSame
    BY <1>3, <1>4, <1>10, HalfOf DEF MapsPage, LeafStored, Roots, KernelViewSame
  <2> QED
    BY <1>5, <1>8, <2>1, SameInv
<1> QED
  BY <1>9, <1>10

\* vmm_unmap,
LEMMA UnmapInv ==
  ASSUME Inv, NEW r \in Calls("unmap", Kernel, KernelPages, {Nothing}, Counts), vmm_unmap(r)
  PROVE  Inv'
<1> DEFINE v == Page(r)
           k == kernel_pml4
           op == "unmap"
<1>1. SetOf(op) = KernelPages /\ Counts \subseteq 1 .. MaxCount
  BY DEF SetOf, Counts
<1>2. Asked(r, op) /\ r.root \in Kernel /\ r.c \in {Nothing} /\ r.v \in SetOf(op)
  <2>1. r \in Calls(op, Kernel, SetOf(op), {Nothing}, Counts)
    BY <1>1, ZenonT(40)
  <2> HIDE DEF op
  <2> QED
    BY <1>1, <2>1, CallFacts, ZenonT(40)
<1>3. v \in KernelPages
  BY <1>1, <1>2, StepFacts
<1>4. PICK there \in BOOLEAN :
        /\ Continue(r, there \/ r.n > 1)
        /\ ~there => SameView /\ tlb' = tlb
        /\ there => (UnmapsPage(v) \/ UnmapsBlock(v)) /\ tlb' = Invlpg(mem', v)
  BY <1>3, UnmapEffect
<1>5. Grows /\ spaces' = spaces /\ dropped' = dropped
  BY <1>3, UnmapEffect
<1>6. ReqOK'
  <2> DEFINE ok == there \/ r.n > 1
  <2>1. ok \in BOOLEAN /\ Continue(r, ok)
    BY <1>4
  <2> HIDE DEF ok
  <2> QED
    BY <1>2, <2>1, ContinueOK
<1>7. CASE ~there
  BY <1>4, <1>5, <1>6, <1>7, SameKernel, SameInv
<1>8. CASE there
  <2>1. dropped \ {v} \subseteq dropped' /\ dropped' \subseteq KernelPages /\ tlb' = Invlpg(mem', v)
    BY <1>4, <1>5, <1>8 DEF Inv, TypeOK
  <2>2. ASSUME NEW p \in KernelPages \ dropped', p # v,
               ~(Translate(mem, k, p).huge /\ Huge(p) = Huge(v))
        PROVE  Translate(mem', k, p) = Translate(mem, k, p)
    <3>1. p \in 0 .. Top - 1 /\ k \in Roots
      BY HalfOf DEF Roots
    <3>2. CASE UnmapsPage(v)
      BY <2>2, <3>1, <3>2 DEF UnmapsPage, LeafStored
    <3>3. CASE UnmapsBlock(v)
      <4>1. Huge(p) # Huge(v)
        BY <2>2, <3>1, <3>3 DEF UnmapsBlock, Block
      <4> QED
        BY <3>1, <3>3, <4>1 DEF UnmapsBlock, BlockStored
    <3> QED
      BY <1>4, <1>8, <3>2, <3>3
  <2> QED
    BY <1>5, <1>6, <2>1, <2>2, InvlpgInv
<1> QED
  BY <1>7, <1>8

\* vmm_map_huge_2mb,
LEMMA MapHugeInv ==
  ASSUME Inv, NEW r \in Calls("map_huge", Kernel, KernelPages, Choices, {1}), vmm_map_huge_2mb(r)
  PROVE  Inv'
<1> DEFINE v == r.v
           k == kernel_pml4
           op == "map_huge"
<1>1. SetOf(op) = KernelPages /\ {1} \subseteq 1 .. MaxCount
  BY CallsAssumption DEF SetOf
<1>2. Asked(r, op) /\ r.root \in Kernel /\ r.c \in Choices /\ r.v \in SetOf(op) /\ r.n \in {1}
  <2>1. r \in Calls(op, Kernel, SetOf(op), Choices, {1})
    BY <1>1, ZenonT(40)
  <2> HIDE DEF op
  <2> QED
    BY <1>1, <2>1, CallFacts, ZenonT(40)
<1>3. r.i = 0 /\ v \in KernelPages /\ r.c \in Nat \X BOOLEAN
  BY <1>1, <1>2, CallsAssumption DEF Asked
<1>4. PICK ok \in BOOLEAN :
        /\ Return(r, ok)
        /\ ~ok => SameView /\ tlb' = tlb
        /\ ok => MapsBlock(v, r.c[1]) /\ tlb' = Invlpg(mem', v)
  BY <1>3, MapHugeEffect
<1>5. Grows /\ spaces' = spaces /\ dropped' = dropped
  BY <1>3, MapHugeEffect
<1>6. ReqOK'
  BY <1>2, <1>4, ReturnOK
<1>7. CASE ~ok
  BY <1>4, <1>5, <1>6, <1>7, SameKernel, SameInv
<1>8. CASE ok
  <2>1. dropped \ {v} \subseteq dropped' /\ dropped' \subseteq KernelPages /\ tlb' = Invlpg(mem', v)
    BY <1>4, <1>5, <1>8 DEF Inv, TypeOK
  <2>2. ASSUME NEW p \in KernelPages \ dropped', Translate(mem, k, p).p
        PROVE  Translate(mem', k, p) = Translate(mem, k, p)
    <3>1. p \in 0 .. Top - 1 /\ k \in Roots
      BY HalfOf DEF Roots
    <3>2. Huge(p) # Huge(v)
      BY <1>4, <1>8, <2>2, <3>1, AbsentEntry, ZenonT(40) DEF MapsBlock, Block
    <3>3. PICK x : BlockStored(mem', mem, Roots, k, v, x)
      BY <1>4, <1>8, ZenonT(40) DEF MapsBlock
    <3> QED
      BY <3>1, <3>2, <3>3 DEF BlockStored
  <2> QED
    BY <1>5, <1>6, <2>1, <2>2, InvlpgInv
<1> QED
  BY <1>7, <1>8

\* vmm_unmap_huge_2mb, which leaves stale translations only where it recorded
\* them,
LEMMA UnmapHugeInv ==
  ASSUME Inv, NEW r \in Calls("unmap_huge", Kernel, KernelPages, {Nothing}, {1}), vmm_unmap_huge_2mb(r)
  PROVE  Inv'
<1> DEFINE v == r.v
           k == kernel_pml4
           op == "unmap_huge"
           rest == {p \in KernelPages : Huge(p) = v /\ p # v}
<1>1. SetOf(op) = KernelPages /\ {1} \subseteq 1 .. MaxCount
  BY CallsAssumption DEF SetOf
<1>2. Asked(r, op) /\ r.root \in Kernel /\ r.c \in {Nothing} /\ r.v \in SetOf(op) /\ r.n \in {1}
  <2>1. r \in Calls(op, Kernel, SetOf(op), {Nothing}, {1})
    BY <1>1, ZenonT(40)
  <2> HIDE DEF op
  <2> QED
    BY <1>1, <2>1, CallFacts, ZenonT(40)
<1>3. v \in KernelPages
  BY <1>1, <1>2
<1>4. PICK there \in BOOLEAN :
        /\ Return(r, there)
        /\ ~there => SameView /\ tlb' = tlb /\ dropped' = dropped
        /\ there => /\ tlb' = Invlpg(mem', v) /\ v % Span = 0
                    /\ \/ UnmapsBlock(v) /\ dropped' = dropped
                       \/ DropsTable(v) /\ dropped' = dropped \cup rest
  BY <1>3, UnmapHugeEffect
<1>5. Grows /\ spaces' = spaces
  BY <1>3, UnmapHugeEffect
<1>6. ReqOK'
  BY <1>2, <1>4, ReturnOK
<1>7. CASE ~there
  BY <1>4, <1>5, <1>6, <1>7, SameKernel, SameInv
<1>8. CASE there
  <2>1. dropped \ {v} \subseteq dropped' /\ dropped' \subseteq KernelPages /\ tlb' = Invlpg(mem', v)
    BY <1>4, <1>8 DEF Inv, TypeOK
  <2>2. Huge(v) = v
    <3>1. v \in Nat /\ v % Span = 0
      BY <1>3, <1>4, <1>8, HalfOf, Digits
    <3> QED
      BY <3>1 DEF Huge
  <2>3. ASSUME NEW p \in KernelPages \ dropped', p # v,
               ~(Translate(mem, k, p).huge /\ Huge(p) = Huge(v))
        PROVE  Translate(mem', k, p) = Translate(mem, k, p)
    <3>1. p \in 0 .. Top - 1 /\ k \in Roots
      BY HalfOf DEF Roots
    <3>2. CASE UnmapsBlock(v)
      <4>1. Huge(p) # Huge(v)
        BY <2>3, <3>1, <3>2 DEF UnmapsBlock, Block
      <4> QED
        BY <3>1, <3>2, <4>1 DEF UnmapsBlock, BlockStored
    <3>3. CASE DropsTable(v) /\ dropped' = dropped \cup rest
      <4>1. Huge(p) # Huge(v)
        BY <2>2, <2>3, <3>3
      <4> QED
        BY <3>1, <3>3, <4>1 DEF DropsTable, BlockStored
    <3> QED
      BY <1>4, <1>8, <3>2, <3>3, ZenonT(40)
  <2> QED
    BY <1>5, <1>6, <2>1, <2>3, InvlpgInv
<1> QED
  BY <1>7, <1>8

\* A new address space changes no translation of another and maps no user page.
LEMMA NewSpaceEffect ==
  ASSUME Inv, NewSpace
  PROVE  /\ SameView /\ Fine(mem', used', Roots') /\ used' = used + 1 /\ Roots' = Roots \cup {used + 1}
         /\ spaces' = spaces \cup {used + 1} /\ UNCHANGED <<req, tlb, dropped>> /\ used' \in 4 .. NTables
         /\ \A v \in UserPages : Translate(mem', used + 1, v) = Absent
<1> PICK lev, usr : Shape(mem, used, Roots, lev, usr)
  BY DEF Inv, Fine
<1>1. /\ used < NTables /\ used' = used + 1 /\ spaces' = spaces \cup {used + 1}
      /\ UNCHANGED <<req, tlb, dropped>>
  BY DEF NewSpace
<1>2. mem \in [0 .. NTables -> [Index -> Entry]] /\ used \in 3 .. NTables
  BY DEF Shape, Typed
<1>3. NewTable(mem', mem, used)
  <2>1. mem' = [mem EXCEPT ![used + 1] =
                 [i \in DOMAIN @ |-> IF i \in KernelHalf THEN mem[kernel_pml4][i] ELSE Absent]]
    BY DEF NewSpace
  <2>2. used \in Nat
    BY <1>2
  <2> QED
    BY <1>1, <1>2, <2>1, <2>2, NewTableIs, ZenonT(40)
<1>4. Roots' = Roots \cup {used + 1} /\ used + 1 \in 0 .. NTables /\ used' \in 4 .. NTables
  BY <1>1, <1>2 DEF Roots
<1>5. Fine(mem', used + 1, Roots \cup {used + 1})
  BY <1>1, <1>3, NewShape, ZenonT(40) DEF Fine
<1>6. SameView
  BY <1>1, <1>3, NewTranslate DEF SameView
<1>7. ASSUME NEW v \in UserPages PROVE Translate(mem', used + 1, v) = Absent
  <2>1. PML4_INDEX(v) \in Index /\ PML4_INDEX(v) \notin KernelHalf
    BY HalfOf, Digits
  <2>2. E4(mem', used + 1, v) = Absent
    BY <1>3, <1>4, <2>1 DEF NewTable, E4
  <2> QED
    BY <2>2, AbsentEntry, NoTranslation
<1> QED
  BY <1>1, <1>4, <1>5, <1>6, <1>7

\* and the new address space.
LEMMA NewSpaceInv ==
  ASSUME Inv, NewSpace
  PROVE  Inv'
<1>1. /\ SameView /\ Fine(mem', used', Roots') /\ used' = used + 1 /\ used' \in 4 .. NTables
      /\ spaces' = spaces \cup {used + 1} /\ UNCHANGED <<req, tlb, dropped>>
  BY NewSpaceEffect
<1>2. PICK lev, usr : Shape(mem', used', Roots', lev, usr)
  BY <1>1 DEF Fine
<1>3. /\ mem' \in [0 .. NTables -> [Index -> Entry]]
      /\ \A f \in 0 .. NTables, i \in Index : ~mem'[f][i].p \/ f = 0 \/ f > used' => mem'[f][i] = Absent
  BY <1>2 DEF Shape, Typed
<1>4. \A i \in 0 .. TopSpan - 1 : mem'[0][i] = Absent
  BY <1>3 DEF Index
<1>5. spaces' \subseteq 4 .. used' /\ used' \in 3 .. NTables
  BY <1>1 DEF Inv, TypeOK
<1>6. TypeOK'
  BY <1>1, <1>3, <1>4, <1>5 DEF TypeOK, Inv, Index
<1>7. TlbCoherent'
  BY <1>1, SameKernel DEF Inv, TlbCoherent, KernelViewSame
<1>8. ReqInv'
  BY <1>1 DEF Inv, ReqOK, ReqInv
<1>9. RangeResult'
  <2> SUFFICES ASSUME req.op \in {"map", "map_for"},
                      NEW j \in 0 .. (IF req.state = "true" THEN req.n ELSE req.i) - 1
               PROVE  Translate(mem', req.root, req.v + j).to = req.c[1] + j
    BY <1>1 DEF RangeResult
  <2>1. /\ req.n \in 1 .. MaxCount /\ req.i \in 0 .. req.n - 1
        /\ \A l \in 0 .. req.n - 1 : req.v + l \in SetOf(req.op)
    BY DEF Inv, ReqOK, ReqInv
  <2>2. req.root \in Roots
    BY DEF Inv, ReqOK, ReqInv, Roots
  <2>3. j \in 0 .. req.n - 1
    <3>1. CASE req.state = "true"
      BY <3>1
    <3>2. CASE req.state # "true"
      BY <2>1, <3>2, CallsAssumption
    <3> QED
      BY <3>1, <3>2
  <2>4. req.v + j \in 0 .. Top - 1
    BY <2>1, <2>3, HalfOf DEF SetOf
  <2>5. Translate(mem', req.root, req.v + j) = Translate(mem, req.root, req.v + j)
    BY <1>1, <2>2, <2>4 DEF SameView
  <2> QED
    BY <2>5 DEF Inv, ReqOK, RangeResult
<1> QED
  BY <1>1, <1>6, <1>7, <1>8, <1>9 DEF Inv, ReqOK, TypeOK

\* The bootloader's tables satisfy the invariant,
LEMMA InitInv == Init => Inv
<1> SUFFICES ASSUME Init PROVE Inv
  OBVIOUS
<1>1. /\ mem = BootTables /\ used = 3 /\ spaces = {} /\ dropped = {} /\ Roots = {kernel_pml4}
      /\ tlb = [p \in KernelPages |-> Translate(BootTables, kernel_pml4, p)]
  BY DEF Init, Roots
<1>2. req.op = "init" /\ req.state = "true" /\ req.i = 0
  BY DEF Init, Call
<1>3. Fine(mem, used, Roots) /\ kernel_pml4 \in Roots
  BY <1>1, BootShape
<1>4. PICK lev, usr : Shape(mem, used, Roots, lev, usr)
  BY <1>3 DEF Fine
<1>5. /\ mem \in [0 .. NTables -> [Index -> Entry]] /\ used \in 3 .. NTables
      /\ \A f \in 0 .. NTables, i \in Index : ~mem[f][i].p \/ f = 0 \/ f > used => mem[f][i] = Absent
  BY <1>4 DEF Shape, Typed
<1>6. \A i \in 0 .. TopSpan - 1 : mem[0][i] = Absent
  BY <1>5 DEF Index
<1>7. tlb \in [KernelPages -> Entry]
  BY <1>1, <1>3, KernelTranslations
<1>8. ReqOK
  BY <1>2, CallsAssumption DEF ReqOK, ReqInv, RangeResult
<1>9. TypeOK
  BY <1>1, <1>5, <1>6, <1>7, <1>8 DEF TypeOK, Index, ReqOK
<1>10. TlbCoherent
  BY <1>1 DEF TlbCoherent
<1> QED
  BY <1>3, <1>8, <1>9, <1>10 DEF Inv

\* every step keeps it,
LEMMA NextInv ==
  ASSUME Inv, [Next]_vars
  PROVE  Inv'
<1>1. CASE \E r \in Calls("map", Kernel, KernelPages, Choices, Counts) : vmm_map(r)
  BY <1>1, MapInv
<1>2. CASE \E r \in Calls("unmap", Kernel, KernelPages, {Nothing}, Counts) : vmm_unmap(r)
  BY <1>2, UnmapInv
<1>3. CASE \E r \in Calls("map_huge", Kernel, KernelPages, Choices, {1}) : vmm_map_huge_2mb(r)
  BY <1>3, MapHugeInv
<1>4. CASE \E r \in Calls("unmap_huge", Kernel, KernelPages, {Nothing}, {1}) : vmm_unmap_huge_2mb(r)
  BY <1>4, UnmapHugeInv
<1>5. CASE \E r \in Calls("map_for", spaces, UserPages, Choices, Counts) : vmm_map_for_pml4(r)
  BY <1>5, MapForInv
<1>6. CASE NewSpace
  BY <1>6, NewSpaceInv
<1>7. CASE UNCHANGED vars
  BY <1>7, ZenonT(40) DEF vars, Inv, TypeOK, Fine, Roots, TlbCoherent, ReqOK, ReqInv, RangeResult
<1> QED
  BY <1>1, <1>2, <1>3, <1>4, <1>5, <1>6, <1>7 DEF Next

\* and so it holds for ever.
LEMMA Invariance == Spec => []Inv
<1>1. Inv /\ [Next]_vars => Inv'
  BY NextInv
<1> QED
  BY <1>1, InitInv, PTL DEF Spec

-----------------------------------------------------------------------------
(* What the invariant says.                                                *)

\* The user bits of a path are all set or all clear.
LEMMA SeparatedFromInv == Inv => RingsSeparated
<1> SUFFICES ASSUME Inv, NEW r \in Roots, NEW v \in Pages, Translate(mem, r, v).p
             PROVE  Translate(mem, r, v).user <=> v \in UserPages
  BY DEF RingsSeparated, Roots
<1> PICK lev, usr : Shape(mem, used, Roots, lev, usr)
  BY DEF Inv, Fine
<1> DEFINE us == PML4_INDEX(v) \notin KernelHalf
           t == Translate(mem, r, v)
           a == E4(mem, r, v)
           b == E3(mem, r, v)
           c == E2(mem, r, v)
           d == E1(mem, r, v)
<1>1. v \in 0 .. Top - 1 /\ (v \in UserPages <=> us)
  BY HalfOf DEF Pages
<1>2. /\ a.p => (a.user <=> us)
      /\ b.p => (b.user <=> us)
      /\ c.p => (c.user <=> us)
      /\ c.huge => ~us
      /\ ~c.huge /\ d.p => (d.user <=> us)
  BY <1>1, UserPath, ZenonT(40)
<1>3. /\ c.huge => (t.user <=> a.user /\ b.user /\ c.user)
      /\ ~c.huge /\ d.p => (t.user <=> d.user /\ a.user /\ b.user /\ c.user)
      /\ ~c.huge /\ ~d.p => t = Absent
  BY <1>1, TranslateUser, ZenonT(40)
<1>4. /\ c.huge => c.p
      /\ c.p => b.p
      /\ b.p => a.p
      /\ ~c.huge /\ d.p => c.p
  BY <1>1, Path, AbsentEntry
<1> HIDE DEF us, t, a, b, c, d
<1>5. t.user <=> us
  BY <1>2, <1>3, <1>4, AbsentEntry DEF t
<1> QED
  BY <1>1, <1>5 DEF t

\* Equal top-level entries lead to equal translations.
LEMMA SharedFromInv == Inv => KernelHalfShared
<1> SUFFICES ASSUME Inv, NEW r \in spaces, NEW v \in KernelPages, mem[r][PML4_INDEX(v)].p
             PROVE  Translate(mem, r, v) = Translate(mem, kernel_pml4, v)
  BY DEF KernelHalfShared
<1> PICK lev, usr : Shape(mem, used, Roots, lev, usr)
  BY DEF Inv, Fine
<1>1. r \in Roots /\ PML4_INDEX(v) \in KernelHalf
  BY HalfOf DEF Roots
<1>2. E4(mem, r, v) = E4(mem, kernel_pml4, v)
  BY <1>1 DEF Shape, Shared, E4
<1>3. E3(mem, r, v) = E3(mem, kernel_pml4, v)
  BY <1>2, ZenonT(40) DEF E3
<1>4. E2(mem, r, v) = E2(mem, kernel_pml4, v)
  BY <1>3 DEF E2
<1>5. E1(mem, r, v) = E1(mem, kernel_pml4, v)
  BY <1>4 DEF E1
<1>6. CASE E2(mem, r, v).huge
  BY <1>2, <1>3, <1>4, <1>6, TranslateDef, ZenonT(40)
<1>7. CASE ~E2(mem, r, v).huge
  BY <1>2, <1>3, <1>4, <1>5, <1>7, TranslateDef, ZenonT(40)
<1> QED
  BY <1>6, <1>7

\* get_pte finds the entry that the processor uses.
LEMMA PhysicalFromInv == Inv => PhysicalAgrees
<1> SUFFICES ASSUME Inv, NEW v \in KernelPages
             PROVE  LET t == Translate(mem, kernel_pml4, v)
                    IN  /\ vmm_get_physical(v) = IF t.p THEN <<t.to, t.nx>> ELSE <<0, FALSE>>
                        /\ vmm_get_flags(v) = {b \in {"p", "huge", "user"} : t[b]}
  BY ZenonT(40) DEF PhysicalAgrees
<1> PICK lev, usr : Shape(mem, used, Roots, lev, usr)
  BY DEF Inv, Fine
<1> DEFINE k == kernel_pml4
           t == Translate(mem, k, v)
           c == E2(mem, k, v)
           d == E1(mem, k, v)
           pte == get_pte(mem, k, v)
           e == At(mem, pte)
<1>1. v \in 0 .. Top - 1 /\ k \in Roots /\ PML4_INDEX(v) \in KernelHalf
  BY HalfOf DEF Roots
<1>2. /\ pte = (IF c.huge THEN <<E3(mem, k, v).to, PD_INDEX(v)>> ELSE IF c.p THEN <<c.to, PT_INDEX(v)>> ELSE NULL)
      /\ e = (IF c.huge THEN c ELSE d)
      /\ E3(mem, k, v).p => <<E3(mem, k, v).to, PD_INDEX(v)>> # NULL
      /\ c.p /\ ~c.huge => <<c.to, PT_INDEX(v)>> # NULL
  BY <1>1, GetLeaf, ZenonT(40)
<1>3. /\ c \in Entry /\ (~c.huge => d \in Entry)
      /\ c.huge => c.p /\ E3(mem, k, v).p
      /\ ~c.huge /\ d.p => c.p
      /\ ~c.huge => ~d.huge
      /\ ~c.huge /\ ~d.p => d = Absent
  BY <1>1, LeafPath, ZenonT(40)
<1>4. (c.p => ~c.user) /\ (~c.huge /\ d.p => ~d.user)
  BY <1>1, UserPath, ZenonT(40)
<1>5. /\ t \in Entry
      /\ c.huge => t = [p |-> TRUE, huge |-> TRUE, nx |-> c.nx, user |-> t.user, to |-> c.to + PT_INDEX(v)]
      /\ ~c.huge /\ d.p => t = [p |-> TRUE, huge |-> FALSE, nx |-> d.nx, user |-> t.user, to |-> d.to]
      /\ ~c.huge /\ ~d.p => t = Absent
  BY <1>1, TranslateLeaf, ZenonT(40)
<1>6. c.huge \/ d.p => ~t.user
  <2>1. /\ c.huge => (t.user <=> E4(mem, k, v).user /\ E3(mem, k, v).user /\ c.user)
        /\ ~c.huge /\ d.p =>
             (t.user <=> d.user /\ E4(mem, k, v).user /\ E3(mem, k, v).user /\ c.user)
        /\ ~c.huge /\ ~d.p => t = Absent
    BY <1>1, TranslateUser, ZenonT(40)
  <2> HIDE DEF t, c, d, k
  <2> QED
    BY <1>3, <1>4, <2>1, ZenonT(40)
<1>7. /\ vmm_get_physical(v) = IF pte = NULL \/ ~e.p THEN <<0, FALSE>>
                               ELSE <<e.to + (IF e.huge THEN v % Span ELSE 0), e.nx>>
      /\ vmm_get_flags(v) = IF pte = NULL THEN {} ELSE {b \in {"p", "huge", "user"} : e[b]}
  BY DEF vmm_get_physical, vmm_get_flags, Present
<1>8. PT_INDEX(v) = v % Span
  BY DEF PT_INDEX
<1> SUFFICES /\ vmm_get_physical(v) = IF t.p THEN <<t.to, t.nx>> ELSE <<0, FALSE>>
             /\ vmm_get_flags(v) = {b \in {"p", "huge", "user"} : t[b]}
  OBVIOUS
<1> HIDE DEF t, c, d, pte, e, k
<1>9. CASE c.huge
  <2>1. t.p = TRUE /\ t.huge = TRUE /\ ~t.user /\ t.to = c.to + (v % Span) /\ t.nx = c.nx
    BY <1>5, <1>6, <1>8, <1>9
  <2>2. pte # NULL /\ e = c /\ c.p /\ ~c.user /\ c \in Entry
    BY <1>2, <1>3, <1>4, <1>9
  <2>3. vmm_get_physical(v) = <<c.to + (v % Span), c.nx>>
    BY <1>7, <1>9, <2>2
  <2>4. {b \in {"p", "huge", "user"} : c[b]} = {b \in {"p", "huge", "user"} : t[b]}
    BY <1>5, <1>9, <2>1, <2>2 DEF Entry
  <2> QED
    BY <1>7, <2>1, <2>2, <2>3, <2>4
<1>10. CASE ~c.huge /\ d.p
  <2>1. t.p = TRUE /\ t.huge = FALSE /\ ~t.user /\ t.to = d.to /\ t.nx = d.nx
    BY <1>5, <1>6, <1>10
  <2>2. pte # NULL /\ e = d /\ ~d.user /\ d \in Entry /\ ~d.huge /\ d.to \in Nat
    BY <1>2, <1>3, <1>4, <1>10 DEF Entry
  <2>3. vmm_get_physical(v) = <<d.to, d.nx>>
    BY <1>7, <1>10, <2>2
  <2>4. {b \in {"p", "huge", "user"} : d[b]} = {b \in {"p", "huge", "user"} : t[b]}
    BY <1>5, <1>10, <2>1, <2>2 DEF Entry
  <2> QED
    BY <1>7, <2>1, <2>2, <2>3, <2>4
<1>11. CASE ~c.huge /\ ~d.p
  <2>1. t = Absent /\ e = Absent /\ ~t.p
    BY <1>2, <1>3, <1>5, <1>11, AbsentEntry
  <2>2. {b \in {"p", "huge", "user"} : Absent[b]} = {}
    BY AbsentEntry DEF Entry
  <2> QED
    BY <1>7, <2>1, <2>2, ZenonT(40)
<1> QED
  BY <1>9, <1>10, <1>11, ZenonT(40)

-----------------------------------------------------------------------------
(* The safety properties, for tables of any size.                          *)

\* Nothing is written through NULL; and the processor, vmm_get_physical and
\* vmm_get_flags agree with the tables, except for the pages whose page table
\* vmm_unmap_huge_2mb took away with one invlpg.
THEOREM TranslationsAgreeAlways == Spec => []TranslationsAgree
<1>1. Inv => TranslationsAgree
  BY PhysicalFromInv DEF Inv, TranslationsAgree
<1> QED
  BY <1>1, Invariance, PTL

\* Ring 3 reaches the pages vmm_map_for_pml4 mapped and no page of the kernel,
\* in every address space.
THEOREM RingsSeparatedAlways == Spec => []RingsSeparated
BY SeparatedFromInv, Invariance, PTL

\* A task sees what the kernel maps and unmaps later below the top-level
\* entries it copied.
THEOREM KernelHalfSharedAlways == Spec => []KernelHalfShared
BY SharedFromInv, Invariance, PTL

\* vmm_map_range and vmm_map_range_for_pml4 mapped page j of the range to frame
\* j, for every page of a range that was done and for the pages before the one
\* that failed.
THEOREM RangeResultAlways == Spec => []RangeResult
<1>1. Inv => RangeResult
  BY DEF Inv, ReqOK
<1> QED
  BY <1>1, Invariance, PTL


-----------------------------------------------------------------------------
(* What a step does to the translations, whichever call takes it.          *)

TaskMaps == \E r \in spaces, v \in UserPages, to \in Targets : MapsPage(r, v, to)
KernelMaps == \E v \in KernelPages, to \in Targets : MapsPage(kernel_pml4, v, to)
KernelMapsBlock == \E v \in KernelPages, to \in Targets : v % Span = 0 /\ MapsBlock(v, to)
KernelUnmaps == \E v \in KernelPages : UnmapsPage(v) \/ UnmapsBlock(v)
KernelDrops == \E v \in KernelPages : DropsTable(v)

\* What a call asks for.
LEMMA CallIs ==
  ASSUME Inv, NEW op, NEW roots, NEW cs \in SUBSET (Nat \X BOOLEAN), NEW counts, counts \subseteq 1 .. MaxCount,
         NEW r \in Calls(op, roots, SetOf(op), cs, counts)
  PROVE  /\ r.root \in roots /\ r.c \in cs /\ r.v \in SetOf(op) /\ Page(r) \in SetOf(op)
         /\ r.i \in 0 .. MaxCount /\ r.i \in Nat /\ r.n \in counts /\ r.c \in Nat \X BOOLEAN
<1>1. Asked(r, op) /\ r.root \in roots /\ r.c \in cs /\ r.v \in SetOf(op) /\ r.n \in counts
  BY CallFacts, ZenonT(40)
<1> QED
  BY <1>1, StepFacts, CallsAssumption DEF Asked

\* The frames that are mapped are among the targets.
LEMMA TargetIs ==
  ASSUME NEW c \in Choices, NEW i \in 0 .. MaxCount
  PROVE  c[1] + i \in Targets
BY DEF Targets

\* Every step is a new address space or one of these, or changes no translation.
LEMMA StepEffect ==
  ASSUME Inv, Next
  PROVE  NewSpace \/ ( /\ spaces' = spaces
                       /\ \/ SameView \/ TaskMaps \/ KernelMaps
                          \/ KernelMapsBlock \/ KernelUnmaps \/ KernelDrops )
<1> USE CallsAssumption
<1> DEFINE one == {1}
           none == {Nothing}
<1>0. /\ Counts \subseteq 1 .. MaxCount /\ one \subseteq 1 .. MaxCount
      /\ Choices \in SUBSET (Nat \X BOOLEAN) /\ none \in SUBSET (Nat \X BOOLEAN)
  <2>1. Nothing \in Nat \X BOOLEAN
    BY ZenonT(40) DEF Nothing
  <2>2. none \in SUBSET (Nat \X BOOLEAN)
    BY <2>1
  <2> QED
    BY <2>2 DEF Counts
<1> HIDE DEF one, none
<1>1. ASSUME NEW r \in Calls("map", Kernel, KernelPages, Choices, Counts), vmm_map(r)
      PROVE  spaces' = spaces /\ (SameView \/ KernelMaps)
  <2> DEFINE op == "map"
  <2>1. SetOf(op) = KernelPages
    BY DEF SetOf
  <2>2. r \in Calls(op, Kernel, SetOf(op), Choices, Counts)
    BY <1>1, <2>1, ZenonT(40)
  <2> HIDE DEF op
  <2>3. r.c \in Choices /\ Page(r) \in KernelPages /\ r.i \in 0 .. MaxCount /\ r.i \in Nat /\ r.c \in Nat \X BOOLEAN
    BY <1>0, <2>1, <2>2, CallIs, ZenonT(40)
  <2>4. spaces' = spaces /\ (SameView \/ MapsPage(kernel_pml4, Page(r), r.c[1] + r.i))
    BY <1>1, <2>3, MapEffect, ZenonT(40)
  <2> QED
    BY <2>3, <2>4, TargetIs, ZenonT(40) DEF KernelMaps
<1>2. ASSUME NEW r \in Calls("unmap", Kernel, KernelPages, {Nothing}, Counts), vmm_unmap(r)
      PROVE  spaces' = spaces /\ (SameView \/ KernelUnmaps)
  <2> DEFINE op == "unmap"
  <2>1. SetOf(op) = KernelPages
    BY DEF SetOf
  <2>2. r \in Calls(op, Kernel, SetOf(op), none, Counts)
    BY <1>2, <2>1, ZenonT(40) DEF none
  <2> HIDE DEF op
  <2>3. Page(r) \in KernelPages
    BY <1>0, <2>1, <2>2, CallIs, ZenonT(40)
  <2> QED
    BY <1>2, <2>3, UnmapEffect, ZenonT(40) DEF KernelUnmaps
<1>3. ASSUME NEW r \in Calls("map_huge", Kernel, KernelPages, Choices, {1}), vmm_map_huge_2mb(r)
      PROVE  spaces' = spaces /\ (SameView \/ KernelMapsBlock)
  <2> DEFINE op == "map_huge"
  <2>1. SetOf(op) = KernelPages
    BY DEF SetOf
  <2>2. r \in Calls(op, Kernel, SetOf(op), Choices, one)
    BY <1>3, <2>1, ZenonT(40) DEF one
  <2> HIDE DEF op
  <2>3. r.c \in Choices /\ r.v \in KernelPages /\ r.c \in Nat \X BOOLEAN /\ r.n \in one
    BY <1>0, <2>1, <2>2, CallIs, ZenonT(40)
  <2>6. r.i = 0
    <3>1. Asked(r, op)
      BY <1>0, <2>2, CallFacts, ZenonT(40)
    <3> QED
      BY <2>3, <3>1 DEF Asked, one
  <2>4. r.i = 0 /\ r.c[1] \in Targets
    <3>1. 0 \in 0 .. MaxCount /\ r.c[1] + 0 = r.c[1]
      BY <2>3
    <3> QED
      BY <2>3, <2>6, <3>1, TargetIs
  <2>5. spaces' = spaces /\ (SameView \/ (MapsBlock(r.v, r.c[1]) /\ r.v % Span = 0))
    BY <1>3, <2>3, <2>4, MapHugeEffect
  <2> QED
    BY <2>3, <2>4, <2>5, ZenonT(40) DEF KernelMapsBlock
<1>4. ASSUME NEW r \in Calls("unmap_huge", Kernel, KernelPages, {Nothing}, {1}), vmm_unmap_huge_2mb(r)
      PROVE  spaces' = spaces /\ (SameView \/ KernelUnmaps \/ KernelDrops)
  <2> DEFINE op == "unmap_huge"
  <2>1. SetOf(op) = KernelPages
    BY DEF SetOf
  <2>2. r \in Calls(op, Kernel, SetOf(op), none, one)
    BY <1>4, <2>1, ZenonT(40) DEF one, none
  <2> HIDE DEF op
  <2>3. r.v \in KernelPages
    BY <1>0, <2>1, <2>2, CallIs, ZenonT(40)
  <2> QED
    BY <1>4, <2>3, UnmapHugeEffect DEF KernelUnmaps, KernelDrops
<1>5. ASSUME NEW r \in Calls("map_for", spaces, UserPages, Choices, Counts), vmm_map_for_pml4(r)
      PROVE  spaces' = spaces /\ (SameView \/ TaskMaps)
  <2> DEFINE op == "map_for"
  <2>1. SetOf(op) = UserPages
    BY DEF SetOf
  <2>2. r \in Calls(op, spaces, SetOf(op), Choices, Counts)
    BY <1>5, <2>1, ZenonT(40)
  <2> HIDE DEF op
  <2>3. /\ r.root \in spaces /\ r.c \in Choices /\ Page(r) \in UserPages /\ r.i \in 0 .. MaxCount
        /\ r.i \in Nat /\ r.c \in Nat \X BOOLEAN
    BY <1>0, <2>1, <2>2, CallIs, ZenonT(40)
  <2>4. spaces' = spaces /\ (SameView \/ MapsPage(r.root, Page(r), r.c[1] + r.i))
    BY <1>5, <2>3, MapForEffect
  <2> QED
    BY <2>3, <2>4, TargetIs, ZenonT(40) DEF TaskMaps
<1> QED
  BY <1>1, <1>2, <1>3, <1>4, <1>5, ZenonT(40) DEF Next

-----------------------------------------------------------------------------
(* The kernel's tables implement a partial map.                            *)

FrameOf(t) == IF t.p THEN t.to ELSE -1
KernelView == ViewOf(kernel_pml4, KernelPages)
KernelBlocks == BlocksOf(kernel_pml4, KernelPages)
Blocks == {Huge(p) : p \in KernelPages}

\* A page is in a mapped block exactly when its own translation is huge.
ViewOK ==
  /\ KernelView \in [KernelPages -> Nat \cup {-1}]
  /\ \A p \in KernelPages : KernelView[p] = FrameOf(Translate(mem, kernel_pml4, p))
  /\ KernelBlocks \subseteq Blocks
  /\ \A p \in KernelPages : Huge(p) \in KernelBlocks <=> Translate(mem, kernel_pml4, p).huge

\* The mapping, in terms of translations,
LEMMA ViewIs == Inv => ViewOK
<1> SUFFICES ASSUME Inv PROVE ViewOK
  OBVIOUS
<1> DEFINE T(p) == Translate(mem, kernel_pml4, p)
<1>1. Fine(mem, used, Roots) /\ kernel_pml4 \in Roots
  BY DEF Inv, Roots
<1>2. \A p \in KernelPages : T(p) \in Entry /\ p \in 0 .. Top - 1
  BY <1>1, KernelTranslations, HalfOf, ZenonT(40)
<1>3. KernelView = [p \in KernelPages |-> FrameOf(T(p))]
  BY DEF KernelView, ViewOf, FrameOf
<1>4. KernelView \in [KernelPages -> Nat \cup {-1}]
  BY <1>2, <1>3 DEF FrameOf, Entry
<1>5. KernelBlocks = {Huge(p) : p \in {w \in KernelPages : T(w).huge}}
  BY DEF KernelBlocks, BlocksOf
<1>6. ASSUME NEW p \in KernelPages, NEW w \in KernelPages, T(w).huge, Huge(p) = Huge(w)
      PROVE  T(p).huge
  <2>1. p \in Block(w) /\ w \in Block(w) /\ w \in 0 .. Top - 1
    BY <1>2, <1>6 DEF Block
  <2>2. E2(mem, kernel_pml4, w).huge
    BY <1>1, <1>6, <2>1, BlockTranslations
  <2> QED
    BY <1>1, <2>1, <2>2, BlockTranslations
<1> HIDE DEF T
<1>7. KernelBlocks \subseteq Blocks
  BY <1>5 DEF Blocks
<1>8. \A p \in KernelPages : Huge(p) \in KernelBlocks <=> T(p).huge
  BY <1>5, <1>6
<1> QED
  BY <1>3, <1>4, <1>7, <1>8 DEF T, ViewOK

\* before and after a step.
LEMMA ViewPrimed == Inv' => ViewOK'
BY ViewIs, PTL

\* Sets of blocks are told apart by the kernel's pages.
LEMMA BlocksEqual ==
  ASSUME NEW A \in SUBSET Blocks, NEW B \in SUBSET Blocks,
         \A p \in KernelPages : Huge(p) \in A <=> Huge(p) \in B
  PROVE  A = B
BY DEF Blocks

\* Nothing changes for the kernel: a stutter.
LEMMA KernelStutter ==
  ASSUME ViewOK, ViewOK', KernelViewSame
  PROVE  KernelView' = KernelView /\ KernelBlocks' = KernelBlocks
<1>1. \A p \in KernelPages : KernelView'[p] = KernelView[p] /\ (Huge(p) \in KernelBlocks' <=> Huge(p) \in KernelBlocks)
  BY DEF ViewOK, KernelViewSame
<1>2. KernelView' = KernelView
  BY <1>1 DEF ViewOK
<1> QED
  BY <1>1, <1>2, BlocksEqual, ZenonT(40) DEF ViewOK

\* The parts of KernelSpace!Next.
LEMMA KernelNext ==
  ASSUME NEW p \in KernelPages, KernelView'[p] # KernelView[p],
         \/ KernelSpace!Map(p) \/ KernelSpace!MapBlock(Huge(p)) \/ KernelSpace!Unmap(p)
         \/ KernelSpace!UnmapBlock(Huge(p))
  PROVE  KernelSpace!Next
BY DEF KernelSpace!Next, KernelSpace!BlockOf, KernelView, Huge

\* vmm_map is Map.
LEMMA MapStep ==
  ASSUME ViewOK, ViewOK', NEW v \in KernelPages, NEW to \in Targets, Targets \subseteq Nat,
         MapsPage(kernel_pml4, v, to)
  PROVE  KernelSpace!Next
<1> DEFINE k == kernel_pml4
<1>1. \A p \in KernelPages : p # v => Translate(mem', k, p) = Translate(mem, k, p)
  BY HalfOf DEF MapsPage, LeafStored, Roots
<1>2. /\ ~Translate(mem, k, v).p /\ ~Translate(mem, k, v).huge
      /\ Translate(mem', k, v).p /\ ~Translate(mem', k, v).huge /\ Translate(mem', k, v).to = to
  BY AbsentEntry DEF MapsPage
<1>3. KernelView[v] = -1 /\ KernelView'[v] = to /\ to # -1
  BY <1>2 DEF ViewOK, FrameOf
<1>4. \A p \in KernelPages : p # v => KernelView'[p] = KernelView[p]
  BY <1>1 DEF ViewOK
<1>5. \A p \in KernelPages : Huge(p) \in KernelBlocks' <=> Huge(p) \in KernelBlocks
  BY <1>1, <1>2 DEF ViewOK
<1>6. KernelBlocks' = KernelBlocks
  BY <1>5, BlocksEqual, ZenonT(40) DEF ViewOK
<1>7. KernelView' = [KernelView EXCEPT ![v] = KernelView'[v]]
  BY <1>4 DEF ViewOK
<1>8. KernelSpace!Map(v)
  BY <1>3, <1>6, <1>7 DEF KernelSpace!Map, KernelSpace!None, KernelView, KernelBlocks
<1> QED
  BY <1>3, <1>8, KernelNext

\* A mapped page has a frame.
LEMMA KernelFrames ==
  ASSUME Inv
  PROVE  \A p \in KernelPages : Translate(mem, kernel_pml4, p).to # -1
<1>1. Fine(mem, used, Roots) /\ kernel_pml4 \in Roots
  BY DEF Inv, Roots
<1> QED
  BY <1>1, KernelTranslations DEF Entry

\* vmm_unmap of a single page is Unmap,
LEMMA UnmapStep ==
  ASSUME Inv, ViewOK, ViewOK', NEW v \in KernelPages, UnmapsPage(v)
  PROVE  KernelSpace!Next
<1> DEFINE k == kernel_pml4
<1>1. \A p \in KernelPages : p # v => Translate(mem', k, p) = Translate(mem, k, p)
  BY HalfOf DEF UnmapsPage, LeafStored, Roots
<1>2. /\ Translate(mem, k, v).p /\ ~Translate(mem, k, v).huge
      /\ ~Translate(mem', k, v).p /\ ~Translate(mem', k, v).huge
  BY AbsentEntry DEF UnmapsPage
<1>3. KernelView'[v] = -1 /\ Huge(v) \notin KernelBlocks /\ KernelView[v] = Translate(mem, k, v).to
  BY <1>2 DEF ViewOK, FrameOf
<1>4. \A p \in KernelPages : p # v => KernelView'[p] = KernelView[p]
  BY <1>1 DEF ViewOK
<1>5. \A p \in KernelPages : Huge(p) \in KernelBlocks' <=> Huge(p) \in KernelBlocks \ {Huge(v)}
  BY <1>1, <1>2, <1>3 DEF ViewOK
<1>6. KernelBlocks' = KernelBlocks \ {Huge(v)}
  BY <1>5, BlocksEqual, ZenonT(40) DEF ViewOK
<1>7. KernelView' = [p \in KernelPages |-> IF p \in {v} THEN -1 ELSE KernelView[p]]
  BY <1>3, <1>4 DEF ViewOK
<1>8. CASE KernelView[v] # -1
  <2>1. KernelSpace!UnitOf(v) = {v}
    BY <1>3 DEF KernelSpace!UnitOf, KernelSpace!BlockOf, Huge, KernelBlocks
  <2>2. KernelSpace!Without({v}) = [p \in KernelPages |-> IF p \in {v} THEN -1 ELSE KernelView[p]]
    BY DEF KernelSpace!Without, KernelSpace!None, KernelView
  <2>3. KernelSpace!Unmap(v)
    BY <1>6, <1>7, <1>8, <2>1, <2>2
    DEF KernelSpace!Unmap, KernelSpace!None, KernelSpace!BlockOf, Huge, KernelView, KernelBlocks
  <2> QED
    BY <1>3, <1>8, <2>3, KernelNext
<1> QED
  <2>1. Translate(mem, k, v).to # -1
    BY KernelFrames
  <2> QED
    BY <1>3, <1>8, <2>1

\* A page directory entry is emptied: a 2 MiB mapping, or one above a page table.
LEMMA BlockGone ==
  ASSUME ViewOK, ViewOK', NEW v \in KernelPages,
         BlockStored(mem', mem, Roots, kernel_pml4, v, Absent)
  PROVE  /\ KernelView' = KernelSpace!Without(KernelSpace!PagesOf(Huge(v)))
         /\ KernelBlocks' = KernelBlocks \ {Huge(v)}
         /\ \A p \in KernelPages : Huge(p) = Huge(v) => KernelView'[p] = -1
<1> DEFINE k == kernel_pml4
<1>1. \A p \in KernelPages : Huge(p) # Huge(v) => Translate(mem', k, p) = Translate(mem, k, p)
  BY HalfOf DEF BlockStored, Roots
<1>2. \A p \in KernelPages : Huge(p) = Huge(v) => ~Translate(mem', k, p).p /\ ~Translate(mem', k, p).huge
  BY HalfOf, AbsentEntry DEF BlockStored
<1>3. \A p \in KernelPages : KernelView'[p] = IF Huge(p) = Huge(v) THEN -1 ELSE KernelView[p]
  BY <1>1, <1>2 DEF ViewOK, FrameOf
<1>4. KernelView' = [p \in KernelPages |-> IF Huge(p) = Huge(v) THEN -1 ELSE KernelView[p]]
  BY <1>3 DEF ViewOK
<1>5. KernelSpace!PagesOf(Huge(v)) = {p \in KernelPages : Huge(p) = Huge(v)}
  BY DEF KernelSpace!PagesOf, KernelSpace!BlockOf, Huge
<1>6. KernelSpace!Without({p \in KernelPages : Huge(p) = Huge(v)}) =
        [p \in KernelPages |-> IF Huge(p) = Huge(v) THEN -1 ELSE KernelView[p]]
  BY DEF KernelSpace!Without, KernelSpace!None, KernelView
<1>7. \A p \in KernelPages : Huge(p) \in KernelBlocks' <=> Huge(p) \in KernelBlocks \ {Huge(v)}
  BY <1>1, <1>2 DEF ViewOK
<1>8. KernelBlocks' = KernelBlocks \ {Huge(v)}
  BY <1>7, BlocksEqual, ZenonT(40) DEF ViewOK
<1> QED
  BY <1>3, <1>4, <1>5, <1>6, <1>8

\* and so is that of a page in a 2 MiB mapping, with all of its block.
LEMMA UnmapBlockStep ==
  ASSUME Inv, ViewOK, ViewOK', NEW v \in KernelPages, UnmapsBlock(v)
  PROVE  KernelSpace!Next
<1>1. /\ KernelView' = KernelSpace!Without(KernelSpace!PagesOf(Huge(v)))
      /\ KernelBlocks' = KernelBlocks \ {Huge(v)} /\ KernelView'[v] = -1
  BY BlockGone DEF UnmapsBlock
<1>2. Translate(mem, kernel_pml4, v).p /\ Translate(mem, kernel_pml4, v).huge
  BY HalfOf DEF UnmapsBlock, Block
<1>3. KernelView[v] # -1 /\ Huge(v) \in KernelBlocks
  BY <1>2, KernelFrames DEF ViewOK, FrameOf
<1>4. KernelSpace!UnitOf(v) = KernelSpace!PagesOf(Huge(v))
  BY <1>3 DEF KernelSpace!UnitOf, KernelSpace!BlockOf, Huge, KernelBlocks
<1>5. KernelSpace!Unmap(v)
  BY <1>1, <1>3, <1>4 DEF KernelSpace!Unmap, KernelSpace!None, KernelSpace!BlockOf, Huge, KernelView, KernelBlocks
<1> QED
  BY <1>1, <1>3, <1>5, KernelNext, ZenonT(40)

\* Emptying an entry above a page table is UnmapBlock, or changes nothing.
LEMMA DropStep ==
  ASSUME ViewOK, ViewOK', NEW v \in KernelPages, DropsTable(v)
  PROVE  KernelSpace!Next \/ (KernelView' = KernelView /\ KernelBlocks' = KernelBlocks)
<1>1. /\ KernelView' = KernelSpace!Without(KernelSpace!PagesOf(Huge(v)))
      /\ KernelBlocks' = KernelBlocks \ {Huge(v)}
      /\ \A p \in KernelPages : Huge(p) = Huge(v) => KernelView'[p] = -1
  BY BlockGone DEF DropsTable
<1>2. KernelSpace!UnmapBlock(Huge(v))
  BY <1>1 DEF KernelSpace!UnmapBlock, KernelView, KernelBlocks
<1>3. Huge(v) \notin KernelBlocks
  <2>1. ~Translate(mem, kernel_pml4, v).huge
    BY HalfOf DEF DropsTable, Block
  <2> QED
    BY <2>1 DEF ViewOK
<1>4. CASE \E p \in KernelPages : KernelView'[p] # KernelView[p]
  <2>1. PICK p \in KernelPages : KernelView'[p] # KernelView[p]
    BY <1>4
  <2>2. Huge(p) = Huge(v)
    <3>1. \A q \in KernelPages : Huge(q) # Huge(v) => KernelView'[q] = KernelView[q]
      <4>1. \A q \in KernelPages : Huge(q) # Huge(v) =>
              Translate(mem', kernel_pml4, q) = Translate(mem, kernel_pml4, q)
        BY HalfOf DEF DropsTable, BlockStored, Roots
      <4> QED
        BY <4>1 DEF ViewOK
    <3> QED
      BY <2>1, <3>1
  <2> QED
    BY <1>2, <2>1, <2>2, KernelNext
<1>5. CASE \A p \in KernelPages : KernelView'[p] = KernelView[p]
  BY <1>1, <1>3, <1>5 DEF ViewOK
<1> QED
  BY <1>4, <1>5

\* vmm_map_huge_2mb is MapBlock.
LEMMA MapBlockStep ==
  ASSUME ViewOK, ViewOK', NEW v \in KernelPages, v % Span = 0, NEW to \in Targets, Targets \subseteq Nat,
         MapsBlock(v, to)
  PROVE  KernelSpace!Next
<1> DEFINE k == kernel_pml4
           P == {p \in KernelPages : Huge(p) = Huge(v)}
<1>1. PICK x \in Entry : x.p /\ x.to = to /\ BlockStored(mem', mem, Roots, k, v, x)
  BY DEF MapsBlock
<1>2. \A p \in KernelPages : Huge(p) # Huge(v) => Translate(mem', k, p) = Translate(mem, k, p)
  BY <1>1, HalfOf, ZenonT(40) DEF BlockStored, Roots
<1>3. \A p \in P : /\ Translate(mem', k, p).p /\ Translate(mem', k, p).huge
                    /\ Translate(mem', k, p).to = to + PT_INDEX(p)
  BY <1>1, HalfOf, ZenonT(40) DEF BlockStored
<1>4. \A p \in P : Translate(mem, k, p) = Absent
  BY HalfOf DEF MapsBlock, Block
<1>5. Huge(v) = v /\ \A p \in P : p \in Nat /\ PT_INDEX(p) \in Nat /\ PT_INDEX(p) = p - v
  <2>1. \A p \in KernelPages : p \in Nat /\ PT_INDEX(p) \in Nat
    BY HalfOf, Digits
  <2> QED
    BY <2>1 DEF Huge, PT_INDEX
<1>6. \A p \in P : KernelView[p] = -1 /\ KernelView'[p] = to + (p - v) /\ KernelView'[p] # -1
  BY <1>3, <1>4, <1>5, AbsentEntry DEF ViewOK, FrameOf
<1>7. \A p \in KernelPages : p \notin P => KernelView'[p] = KernelView[p]
  BY <1>2 DEF ViewOK
<1>8. KernelView' = [p \in KernelPages |-> IF p \in P THEN to + (p - v) ELSE KernelView[p]]
  BY <1>6, <1>7 DEF ViewOK
<1>9. v \in P
  OBVIOUS
<1>10. \A p \in KernelPages : Huge(p) \in KernelBlocks' <=> Huge(p) \in KernelBlocks \cup {Huge(v)}
  BY <1>2, <1>3 DEF ViewOK
<1>11. KernelBlocks' = KernelBlocks \cup {Huge(v)}
  BY <1>10, BlocksEqual DEF ViewOK, Blocks
<1>12. KernelSpace!PagesOf(Huge(v)) = P
  BY DEF KernelSpace!PagesOf, KernelSpace!BlockOf, Huge
<1> HIDE DEF P
<1>13. KernelSpace!MapBlock(Huge(v))
  BY <1>5, <1>6, <1>8, <1>11, <1>12 DEF KernelSpace!MapBlock, KernelSpace!None, KernelView, KernelBlocks
<1> QED
  BY <1>6, <1>9, <1>13, KernelNext

\* What tasks do leaves the kernel's pages alone.
LEMMA KernelSame ==
  ASSUME Inv, NewSpace \/ TaskMaps \/ SameView
  PROVE  KernelViewSame
<1>1. CASE NewSpace
  BY <1>1, NewSpaceEffect, SameKernel
<1>2. CASE SameView
  BY <1>2, SameKernel
<1>3. CASE TaskMaps
  <2>1. PICK r \in spaces, v \in UserPages, to \in Targets : MapsPage(r, v, to)
    BY <1>3 DEF TaskMaps
  <2>2. \A p \in KernelPages : p # v /\ p \in 0 .. Top - 1
    BY HalfOf
  <2> QED
    BY <2>1, <2>2 DEF MapsPage, LeafStored, Roots, KernelViewSame
<1> QED
  BY <1>1, <1>2, <1>3

\* The targets are frame numbers.
LEMMA TargetsNat == Targets \subseteq Nat
BY CallsAssumption DEF Targets

\* Every step maps to a step or a stutter.
LEMMA KernelStep ==
  ASSUME Inv, Inv', [Next]_vars
  PROVE  KernelSpace!Next \/ (KernelView' = KernelView /\ KernelBlocks' = KernelBlocks)
<1>0. ViewOK /\ ViewOK'
  BY ViewIs, ViewPrimed
<1>1. CASE UNCHANGED vars
  BY <1>1 DEF vars, KernelView, KernelBlocks, ViewOf, BlocksOf
<1>2. CASE KernelViewSame
  BY <1>0, <1>2, KernelStutter
<1>3. CASE KernelMaps
  BY <1>0, <1>3, MapStep, TargetsNat DEF KernelMaps
<1>4. CASE KernelMapsBlock
  BY <1>0, <1>4, MapBlockStep, TargetsNat DEF KernelMapsBlock
<1>5. CASE KernelUnmaps
  BY <1>0, <1>5, UnmapStep, UnmapBlockStep DEF KernelUnmaps
<1>6. CASE KernelDrops
  BY <1>0, <1>6, DropStep DEF KernelDrops
<1> QED
  BY <1>1, <1>2, <1>3, <1>4, <1>5, <1>6, StepEffect, KernelSame

\* The kernel's four levels of tables, with tables made on the way, frames
\* that run out half-way, 2 MiB mappings and unmapping through them or above a
\* page table, implement the partial map of AddressSpace: whatever the sizes
\* of the tables and the pages, a call changes its own page or block only, and
\* no mapped page is given another frame.
THEOREM KernelRefinesAddressSpace == Spec => KernelMapsPages
<1>1. Inv => KernelSpace!Init
  BY ViewIs DEF ViewOK, KernelSpace!Init, KernelSpace!None, KernelSpace!BlockOf, Huge, Blocks, KernelView, KernelBlocks
<1>2. Inv /\ Inv' /\ [Next]_vars => [KernelSpace!Next]_KernelSpace!vars
  BY KernelStep DEF KernelSpace!vars, KernelView, KernelBlocks
<1> QED
  BY <1>1, <1>2, InitInv, Invariance, PTL DEF Spec, KernelMapsPages, KernelSpace!Spec

-----------------------------------------------------------------------------
(* The tasks' tables implement partial maps.                               *)

TaskView ==
  [p \in TaskPages |->
     LET r == p \div Top IN IF r \in spaces THEN ViewOf(r, UserPages)[p % Top] ELSE -1]

\* Page v below root r, and back.
LEMMA TaskPage ==
  ASSUME NEW r \in 4 .. NTables, NEW v \in UserPages
  PROVE  (r * Top + v) \div Top = r /\ (r * Top + v) % Top = v /\ r * Top + v \in TaskPages
<1>1. v \in 0 .. Top - 1
  BY HalfOf
<1>2. Top \in Nat \ {0} /\ r \in Nat /\ v \in Nat
  <2>1. Top \in Int
    BY DEF Top
  <2> QED
    BY <1>1, <2>1
<1>3. r * Top \in Nat /\ Top * r = r * Top
  BY <1>2
<1>4. r * Top + v \in Nat /\ r * Top + v = Top * r + v
  BY <1>2, <1>3
<1> QED
  BY <1>1, <1>2, <1>4, DivUnique DEF TaskPages

\* Every page of a task has a root and a page below it.
LEMMA TaskPageIs ==
  ASSUME NEW p \in TaskPages
  PROVE  \E r \in 4 .. NTables, v \in UserPages : p = r * Top + v /\ p \div Top = r /\ p % Top = v
<1>1. PICK r \in 4 .. NTables, v \in UserPages : p = r * Top + v
  BY DEF TaskPages
<1> QED
  BY <1>1, TaskPage

\* The mapping, in terms of translations, before and after a step.
LEMMA TaskViewIs ==
  ASSUME NEW p \in TaskPages, NEW r \in 4 .. NTables, NEW v \in UserPages, p \div Top = r, p % Top = v
  PROVE  /\ TaskView[p] = IF r \in spaces THEN FrameOf(Translate(mem, r, v)) ELSE -1
         /\ TaskView'[p] = IF r \in spaces' THEN FrameOf(Translate(mem', r, v)) ELSE -1
BY DEF TaskView, ViewOf, FrameOf

UserViewSame ==
  \A r \in 4 .. NTables, v \in UserPages :
    \/ r \in spaces /\ r \in spaces' /\ Translate(mem', r, v) = Translate(mem, r, v)
    \/ r \notin spaces /\ r \notin spaces'
    \/ r \notin spaces /\ Translate(mem', r, v) = Absent

\* Nothing changes for the tasks: a stutter.
LEMMA TaskStutter ==
  ASSUME UserViewSame
  PROVE  TaskView' = TaskView
<1>1. ASSUME NEW p \in TaskPages
      PROVE  TaskView'[p] = TaskView[p]
  <2>1. PICK r \in 4 .. NTables, v \in UserPages : p \div Top = r /\ p % Top = v
    BY <1>1, TaskPageIs
  <2> QED
    BY <1>1, <2>1, TaskViewIs, AbsentEntry DEF UserViewSame, FrameOf
<1>2. TaskView = [p \in TaskPages |-> TaskView[p]] /\ TaskView' = [p \in TaskPages |-> TaskView'[p]]
  BY DEF TaskView
<1> QED
  BY <1>1, <1>2

\* What a call does to the kernel's half leaves the tasks' pages alone.
LEMMA UserSame ==
  ASSUME Inv,
         \/ NewSpace
         \/ spaces' = spaces /\ (SameView \/ KernelMaps \/ KernelMapsBlock \/ KernelUnmaps \/ KernelDrops)
  PROVE  UserViewSame
<1> USE DEF Roots
<1>0. \A v \in UserPages, w \in KernelPages : v \in 0 .. Top - 1 /\ w \in 0 .. Top - 1 /\ v # w /\ Huge(v) # Huge(w)
  BY HalfOf, BlockSame
<1>1. CASE NewSpace
  <2>1. /\ SameView /\ spaces' = spaces \cup {used + 1}
        /\ \A v \in UserPages : Translate(mem', used + 1, v) = Absent
    BY <1>1, NewSpaceEffect
  <2>2. used + 1 \notin spaces
    BY DEF Inv, TypeOK
  <2> QED
    BY <1>0, <2>1, <2>2, HalfOf DEF SameView, UserViewSame
<1>2. CASE spaces' = spaces /\ SameView
  BY <1>2, HalfOf DEF SameView, UserViewSame
<1>3. ASSUME NEW w \in KernelPages, spaces' = spaces, LeafStored(mem', mem, Roots, kernel_pml4, w)
      PROVE  UserViewSame
  BY <1>0, <1>3, HalfOf DEF LeafStored, UserViewSame
<1>4. ASSUME NEW w \in KernelPages, NEW x, spaces' = spaces, BlockStored(mem', mem, Roots, kernel_pml4, w, x)
      PROVE  UserViewSame
  BY <1>0, <1>4, HalfOf DEF BlockStored, UserViewSame
<1> USE DEF UnmapsPage, UnmapsBlock, MapsPage, MapsBlock, DropsTable
<1> QED
  BY <1>1, <1>2, <1>3, <1>4, ZenonT(40) DEF KernelMaps, KernelMapsBlock, KernelUnmaps, KernelDrops

\* vmm_map_for_pml4 is Map.
LEMMA TaskMapStep ==
  ASSUME Inv, spaces' = spaces, TaskMaps
  PROVE  TaskSpaces!Next
<1>1. PICK r \in spaces, v \in UserPages, to \in Targets : MapsPage(r, v, to)
  BY DEF TaskMaps
<1>2. r \in 4 .. NTables /\ spaces \subseteq 4 .. NTables /\ used \in Int
  BY DEF Inv, TypeOK
<1> DEFINE p == r * Top + v
<1>3. p \in TaskPages /\ p \div Top = r /\ p % Top = v
  BY <1>2, TaskPage
<1> HIDE DEF p
<1>4. TaskView[p] = -1 /\ TaskView'[p] = to /\ to \in Nat
  BY <1>1, <1>2, <1>3, TaskViewIs, AbsentEntry, TargetsNat, ZenonT(40) DEF MapsPage, FrameOf
<1>5. ASSUME NEW q \in TaskPages, q # p
      PROVE  TaskView'[q] = TaskView[q]
  <2>1. PICK s \in 4 .. NTables, w \in UserPages : q = s * Top + w /\ q \div Top = s /\ q % Top = w
    BY <1>5, TaskPageIs
  <2>2. w # v \/ s # r
    BY <1>5, <2>1 DEF p
  <2>3. PML4_INDEX(v) \notin KernelHalf /\ w \in 0 .. Top - 1
    BY HalfOf
  <2>4. s \in spaces => Translate(mem', s, w) = Translate(mem, s, w)
    BY <1>1, <2>2, <2>3 DEF MapsPage, LeafStored, Roots
  <2> QED
    BY <1>5, <2>1, <2>4, TaskViewIs
<1>6. TaskView = [q \in TaskPages |-> TaskView[q]] /\ TaskView' = [q \in TaskPages |-> TaskView'[q]]
  BY DEF TaskView
<1>7. TaskView' = [TaskView EXCEPT ![p] = TaskView'[p]]
  BY <1>3, <1>5, <1>6
<1>8. TaskSpaces!Map(p)
  BY <1>1, <1>4, <1>7 DEF TaskSpaces!Map, TaskSpaces!None, TaskView
<1>9. TaskView'[p] # TaskView[p]
  BY <1>4
<1> QED
  BY <1>3, <1>8, <1>9 DEF TaskSpaces!Next, TaskView

\* Every step maps to a step or a stutter.
LEMMA TaskStep ==
  ASSUME Inv, [Next]_vars
  PROVE  TaskSpaces!Next \/ TaskView' = TaskView
<1>1. CASE UNCHANGED vars
  BY <1>1 DEF vars, TaskView, ViewOf
<1>2. CASE Next
  BY <1>2, StepEffect, UserSame, TaskStutter, TaskMapStep
<1> QED
  BY <1>1, <1>2

\* The tables of any number of tasks implement partial maps side by side:
\* vmm_map_for_pml4 in one address space changes one page there, which was not
\* mapped, and none of another task's; no kernel call changes any; and
\* task_create_from_elf starts with an empty one.
THEOREM TasksRefineAddressSpace == Spec => TasksMapPages
<1>1. Init => TaskSpaces!Init
  <2> SUFFICES ASSUME Init PROVE TaskSpaces!Init
    OBVIOUS
  <2>1. TaskView = [p \in TaskPages |-> -1]
    BY DEF TaskView, Init
  <2> QED
    BY <2>1 DEF TaskSpaces!Init, TaskSpaces!None, TaskView
<1>2. Inv /\ [Next]_vars => [TaskSpaces!Next]_TaskSpaces!vars
  BY TaskStep DEF TaskSpaces!vars, TaskView
<1> QED
  BY <1>1, <1>2, Invariance, PTL DEF Spec, TasksMapPages, TaskSpaces!Spec
=============================================================================
