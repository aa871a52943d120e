----------------------------- MODULE PmmProofs -----------------------------
(***************************************************************************)
(* Proofs about PmmInit, for every memory map, and about Pmm, for every    *)
(* memory and all requests.                                                *)
(***************************************************************************)
EXTENDS Pmm, PmmInit, FiniteSetTheorems, TLAPS

\* Time for a leaf, in seconds.
USE SMTT(40), ZenonT(40)

-----------------------------------------------------------------------------
(* pmm_init: pages and entries of the memory map.                          *)

\* A larger number has a larger product.
LEMMA Product ==
  ASSUME NEW d \in Nat \ {0}, NEW a \in Int, NEW b \in Int
  PROVE  /\ a * d \in Int
         /\ (a + 1) * d = a * d + d
         /\ a <= b <=> a * d <= b * d
<1>1. a * d \in Int /\ b * d \in Int /\ (a + 1) * d = a * d + d
  OBVIOUS
<1>2. ASSUME NEW x \in Int, NEW y \in Int, x <= y
      PROVE  x * d <= y * d
  <2>1. PICK e \in Nat : y = x + e
    <3>1. y - x \in Nat /\ y = x + (y - x)
      BY <1>2
    <3> QED
      BY <3>1
  <2>2. y * d = x * d + e * d /\ e * d \in Nat /\ x * d \in Int
    BY <2>1
  <2> QED
    BY <2>2
<1>3. ASSUME ~(a <= b)
      PROVE  ~(a * d <= b * d)
  <2>1. b + 1 \in Int /\ b + 1 <= a
    BY <1>3
  <2>2. (b + 1) * d <= a * d
    BY <1>2, <2>1
  <2>3. (b + 1) * d = b * d + d
    OBVIOUS
  <2> QED
    BY <1>1, <2>2, <2>3
<1> QED
  BY <1>1, <1>2, <1>3

\* A quotient is the largest number whose multiple is not too large ...
LEMMA Quotient ==
  ASSUME NEW d \in Nat \ {0}, NEW n \in Nat
  PROVE  /\ n \div d \in Nat
         /\ \A f \in Nat : f <= n \div d <=> f * d <= n
<1> DEFINE q == n \div d
           r == n % d
<1>1. q \in Int /\ r \in 0 .. d - 1 /\ n = q * d + r
  OBVIOUS
<1> HIDE DEF q, r
<1>2. (q + 1) * d = q * d + d /\ q * d \in Int
  BY <1>1, Product
<1>3. ASSUME NEW f \in Int
      PROVE  f <= q <=> f * d <= n
  <2>1. f * d \in Int /\ (f <= q <=> f * d <= q * d)
    BY <1>1, Product
  <2>2. q + 1 <= f <=> (q + 1) * d <= f * d
    <3>1. q + 1 \in Int
      BY <1>1
    <3> QED
      BY <3>1, Product
  <2> QED
    BY <1>1, <1>2, <2>1, <2>2
<1>4. 0 <= q
  <2>1. 0 * d <= n
    OBVIOUS
  <2> QED
    BY <1>3, <2>1
<1> QED
  BY <1>1, <1>3, <1>4 DEF q

\* ... and one rounded up is the least number whose multiple is not too small.
LEMMA QuotientUp ==
  ASSUME NEW d \in Nat \ {0}, NEW n \in Nat
  PROVE  /\ DivUp(n, d) \in Nat
         /\ \A f \in Nat : DivUp(n, d) <= f <=> n <= f * d
<1>1. n + d - 1 \in Nat
  OBVIOUS
<1>2. /\ (n + d - 1) \div d \in Nat
      /\ \A f \in Nat : f <= (n + d - 1) \div d <=> f * d <= n + d - 1
  BY <1>1, Quotient, ZenonT(40)
<1> DEFINE q == (n + d - 1) \div d
<1> HIDE DEF q
<1>3. q \in Nat /\ \A f \in Nat : f <= q <=> f * d <= n + d - 1
  BY <1>2 DEF q
<1>4. ASSUME NEW f \in Nat
      PROVE  q <= f <=> n <= f * d
  <2>1. f + 1 \in Nat /\ (f + 1) * d = f * d + d /\ f * d \in Int
    BY Product
  <2>2. f + 1 <= q <=> f * d + d <= n + d - 1
    BY <1>3, <2>1
  <2> QED
    BY <1>3, <2>1, <2>2
<1> QED
  BY <1>3, <1>4 DEF q, DivUp

\* The frames that lie wholly inside an entry.
Whole(e) == {f \in Nat : e.base <= f * PageSize /\ (f + 1) * PageSize <= e.base + e.length}

\* An entry of a memory map.
IsEntry(e) == e.base \in Nat /\ e.length \in Nat

\* The pages that pmm_init finds by rounding are the frames inside the entry.
LEMMA PagesIs ==
  ASSUME NEW e, IsEntry(e)
  PROVE  /\ FirstPage(e) \in Nat /\ EndPage(e) \in Nat
         /\ Pages(e) = Whole(e)
<1>0. PageSize \in Nat \ {0}
  BY MapsAssumption
<1> DEFINE p == FirstPage(e)
           q == EndPage(e)
<1>1. p \in Nat /\ \A f \in Nat : p <= f <=> e.base <= f * PageSize
  BY <1>0, QuotientUp, ZenonT(40) DEF FirstPage, IsEntry
<1>2. q \in Nat /\ \A f \in Nat : f <= q <=> f * PageSize <= e.base + e.length
  <2>1. e.base + e.length \in Nat
    BY DEF IsEntry
  <2> QED
    BY <1>0, <2>1, Quotient, ZenonT(40) DEF EndPage
<1> HIDE DEF p, q
<1>3. \A f : f \in p .. (q - 1) <=> f \in Nat /\ p <= f /\ f + 1 <= q
  BY <1>1, <1>2
<1>4. \A f \in Nat : p <= f /\ f + 1 <= q <=> e.base <= f * PageSize /\ (f + 1) * PageSize <= e.base + e.length
  <2> TAKE f \in Nat
  <2>1. f + 1 \in Nat
    OBVIOUS
  <2> QED
    BY <1>1, <1>2, <2>1, ZenonT(40)
<1>5. p .. (q - 1) = Whole(e)
  BY <1>3, <1>4, ZenonT(40) DEF Whole
<1> QED
  BY <1>1, <1>2, <1>5 DEF p, q, Pages

\* How many pages an entry has.
LEMMA PagesFinite ==
  ASSUME NEW e, IsEntry(e)
  PROVE  /\ IsFiniteSet(Pages(e)) /\ Cardinality(Pages(e)) \in Nat
         /\ Cardinality(Pages(e)) = IF FirstPage(e) < EndPage(e) THEN EndPage(e) - FirstPage(e) ELSE 0
         /\ \A f \in Pages(e) : f \in Nat /\ f < EndPage(e)
<1>1. FirstPage(e) \in Nat /\ EndPage(e) \in Nat
  BY PagesIs
<1> DEFINE p == FirstPage(e)
           q == EndPage(e) - 1
<1>2. p \in Int /\ q \in Int
  BY <1>1
<1>3. /\ IsFiniteSet(p .. q)
      /\ Cardinality(p .. q) = IF p > q THEN 0 ELSE q - p + 1
  BY <1>2, FS_Interval
<1> QED
  BY <1>1, <1>3 DEF Pages

RamTypes == {"USABLE", "BOOTLOADER_RECLAIMABLE", "ACPI_RECLAIMABLE"}

\* The pages of the entries before the n-th whose type is in T.
Listed(m, T, n) == UNION {Pages(m[k]) : k \in {j \in 1 .. (n - 1) : m[j].type \in T}}

\* What the memory maps are.
LEMMA MapFacts ==
  ASSUME NEW m \in MemoryMaps
  PROVE  /\ Len(m) \in Nat
         /\ \A k \in 1 .. Len(m) :
              IsEntry(m[k]) /\ EndPage(m[k]) < Modulus
              /\ (m[k].type = "USABLE" => m[k].length >= PageSize)
BY MapsAssumption, ZenonT(40) DEF IsEntry

\* Two entries of RAM have no page in common.
LEMMA Apart ==
  ASSUME NEW m \in MemoryMaps, NEW j \in 1 .. Len(m), NEW k \in 1 .. Len(m), j # k,
         m[j].type \in RamTypes, m[k].type \in RamTypes
  PROVE  Pages(m[j]) \cap Pages(m[k]) = {}
<1> SUFFICES ASSUME NEW f, f \in Pages(m[j]), f \in Pages(m[k]) PROVE FALSE
  OBVIOUS
<1> DEFINE d == m[j]
           e == m[k]
<1>1. IsEntry(d) /\ IsEntry(e)
  BY MapFacts
<1>2. d.base + d.length <= e.base \/ e.base + e.length <= d.base
  <2>1. is_ram_type(d.type) /\ is_ram_type(e.type)
    BY DEF is_ram_type, RamTypes
  <2> QED
    BY <2>1, MapsAssumption, ZenonT(40)
<1> HIDE DEF d, e
<1>3. f \in Whole(d) /\ f \in Whole(e)
  BY <1>1, PagesIs DEF d, e
<1>4. f \in Nat /\ PageSize \in Nat \ {0}
  BY <1>3, MapsAssumption DEF Whole
<1>5. f * PageSize \in Int /\ (f + 1) * PageSize = f * PageSize + PageSize
  BY <1>4, Product
<1> DEFINE p == f * PageSize
<1>6. d.base <= p /\ p + PageSize <= d.base + d.length
  BY <1>3, <1>5 DEF Whole
<1>7. e.base <= p /\ p + PageSize <= e.base + e.length
  BY <1>3, <1>5 DEF Whole
<1>8. p \in Int
  BY <1>5
<1>9. d.base \in Nat /\ d.length \in Nat /\ e.base \in Nat /\ e.length \in Nat
  BY <1>1 DEF IsEntry
<1> HIDE DEF p
<1> QED
  BY <1>2, <1>4, <1>6, <1>7, <1>8, <1>9

\* Before the first entry there is nothing.
LEMMA ListedFirst == ASSUME NEW m, NEW T PROVE Listed(m, T, 1) = {}
BY DEF Listed

\* What is in the list.
LEMMA ListedHas ==
  ASSUME NEW m, NEW T, NEW n \in Nat, NEW f
  PROVE  f \in Listed(m, T, n) <=> \E k \in 1 .. (n - 1) : m[k].type \in T /\ f \in Pages(m[k])
BY ZenonT(40) DEF Listed

\* One entry more.
LEMMA ListedNext ==
  ASSUME NEW m \in MemoryMaps, NEW T \in SUBSET RamTypes, NEW n \in 1 .. Len(m)
  PROVE  /\ m[n].type \in T =>
              /\ Listed(m, T, n + 1) = Listed(m, T, n) \cup Pages(m[n])
              /\ Listed(m, T, n) \cap Pages(m[n]) = {}
         /\ m[n].type \notin T => Listed(m, T, n + 1) = Listed(m, T, n)
<1>1. n \in Nat /\ n + 1 \in Nat
  OBVIOUS
<1>2. \A k : k \in 1 .. ((n + 1) - 1) <=> k \in 1 .. (n - 1) \/ k = n
  OBVIOUS
<1>3. \A f : f \in Listed(m, T, n) <=> \E k \in 1 .. (n - 1) : m[k].type \in T /\ f \in Pages(m[k])
  BY <1>1, ListedHas, ZenonT(40)
<1>4. \A f : f \in Listed(m, T, n + 1) <=>
               \/ \E k \in 1 .. (n - 1) : m[k].type \in T /\ f \in Pages(m[k])
               \/ m[n].type \in T /\ f \in Pages(m[n])
  <2>1. \A f : f \in Listed(m, T, n + 1) <=>
                 \E k \in 1 .. ((n + 1) - 1) : m[k].type \in T /\ f \in Pages(m[k])
    BY <1>1, ListedHas, ZenonT(40)
  <2> QED
    BY <1>2, <2>1, ZenonT(40)
<1>5. ASSUME m[n].type \in T
      PROVE  Listed(m, T, n) \cap Pages(m[n]) = {}
  <2> SUFFICES ASSUME NEW f, f \in Listed(m, T, n), f \in Pages(m[n]) PROVE FALSE
    OBVIOUS
  <2>1. PICK k \in 1 .. (n - 1) : m[k].type \in T /\ f \in Pages(m[k])
    BY <1>3, ZenonT(40)
  <2>2. k \in 1 .. Len(m) /\ k # n
    BY MapFacts
  <2>3. Pages(m[k]) \cap Pages(m[n]) = {}
    BY <1>5, <2>1, <2>2, Apart, ZenonT(40)
  <2> QED
    BY <2>1, <2>3
<1> HIDE DEF Listed
<1> QED
  BY <1>3, <1>4, <1>5, ZenonT(40)

\* What is listed up to an entry is listed up to a later one.
LEMMA ListedMore ==
  ASSUME NEW m, NEW T, NEW n \in Nat, NEW l \in Nat, n <= l
  PROVE  Listed(m, T, n) \subseteq Listed(m, T, l)
<1>1. \A k \in 1 .. (n - 1) : k \in 1 .. (l - 1)
  OBVIOUS
<1> QED
  BY <1>1, ListedHas, ZenonT(40)

\* All entries before the n-th whose type is in T end at b or before.
Bounded(m, n, b) == \A k \in 1 .. (n - 1) : m[k].type \in RamTypes => EndPage(m[k]) <= b

\* The listed pages are finitely many.
LEMMA ListedFinite ==
  ASSUME NEW m \in MemoryMaps, NEW T \in SUBSET RamTypes, NEW n \in 1 .. (Len(m) + 1),
         NEW b \in Nat, Bounded(m, n, b)
  PROVE  /\ Listed(m, T, n) \subseteq 0 .. (b - 1)
         /\ IsFiniteSet(Listed(m, T, n))
         /\ Cardinality(Listed(m, T, n)) \in 0 .. b
<1> DEFINE L == Listed(m, T, n)
<1>1. ASSUME NEW f \in L
      PROVE  f \in 0 .. (b - 1)
  <2>1. PICK k \in 1 .. (n - 1) : m[k].type \in T /\ f \in Pages(m[k])
    <3>1. n \in Nat
      OBVIOUS
    <3> QED
      BY <3>1, ListedHas, ZenonT(40)
  <2>2. k \in 1 .. Len(m)
    BY MapFacts
  <2>3. f \in Nat /\ f < EndPage(m[k]) /\ EndPage(m[k]) \in Nat
    BY <2>1, <2>2, MapFacts, PagesFinite, PagesIs, ZenonT(40)
  <2>4. EndPage(m[k]) <= b
    BY <2>1 DEF Bounded
  <2> QED
    BY <2>3, <2>4
<1> HIDE DEF L
<1>2. L \subseteq 0 .. (b - 1)
  BY <1>1
<1>3. IsFiniteSet(0 .. (b - 1)) /\ Cardinality(0 .. (b - 1)) = b
  <2>1. 0 \in Int /\ b - 1 \in Int
    OBVIOUS
  <2>2. /\ IsFiniteSet(0 .. (b - 1))
        /\ Cardinality(0 .. (b - 1)) = IF 0 > b - 1 THEN 0 ELSE (b - 1) - 0 + 1
    BY <2>1, FS_Interval, ZenonT(40)
  <2> QED
    BY <2>2
<1>4. IsFiniteSet(L) /\ Cardinality(L) <= b
  <2>1. L \in SUBSET (0 .. (b - 1))
    BY <1>2, ZenonT(40)
  <2>2. IsFiniteSet(L) /\ Cardinality(L) <= Cardinality(0 .. (b - 1))
    BY <2>1, <1>3, FS_Subset, ZenonT(40)
  <2> QED
    BY <2>2, <1>3, ZenonT(40)
<1>5. Cardinality(L) \in Nat
  BY <1>4, FS_CardinalityType
<1> QED
  BY <1>2, <1>4, <1>5 DEF L

\* Counting one entry more.
LEMMA ListedCount ==
  ASSUME NEW m \in MemoryMaps, NEW T \in SUBSET RamTypes, NEW n \in 1 .. Len(m),
         NEW b \in Nat, Bounded(m, n, b)
  PROVE  Cardinality(Listed(m, T, n + 1)) =
           Cardinality(Listed(m, T, n)) + IF m[n].type \in T THEN Cardinality(Pages(m[n])) ELSE 0
<1>1. /\ IsFiniteSet(Listed(m, T, n)) /\ Cardinality(Listed(m, T, n)) \in Nat
  <2>1. n \in 1 .. (Len(m) + 1)
    BY MapFacts
  <2>2. Cardinality(Listed(m, T, n)) \in 0 .. b /\ IsFiniteSet(Listed(m, T, n))
    BY <2>1, ListedFinite, ZenonT(40)
  <2> QED
    BY <2>2
<1>2. CASE m[n].type \in T
  <2>1. /\ Listed(m, T, n + 1) = Listed(m, T, n) \cup Pages(m[n])
        /\ Listed(m, T, n) \cap Pages(m[n]) = {}
    BY <1>2, ListedNext, ZenonT(40)
  <2>2. IsFiniteSet(Pages(m[n])) /\ Cardinality(Pages(m[n])) \in Nat
    BY MapFacts, PagesFinite
  <2>3. Cardinality(Listed(m, T, n) \cup Pages(m[n])) =
          Cardinality(Listed(m, T, n)) + Cardinality(Pages(m[n])) - Cardinality(Listed(m, T, n) \cap Pages(m[n]))
    BY <1>1, <2>2, FS_Union, ZenonT(40)
  <2>4. Cardinality(Listed(m, T, n) \cap Pages(m[n])) = 0
    BY <2>1, FS_EmptySet, ZenonT(40)
  <2> DEFINE x == Cardinality(Listed(m, T, n))
             y == Cardinality(Pages(m[n]))
  <2>5. Cardinality(Listed(m, T, n + 1)) = x + y - 0 /\ x \in Nat /\ y \in Nat
    BY <1>1, <2>1, <2>2, <2>3, <2>4, ZenonT(40)
  <2> HIDE DEF x, y
  <2>6. Cardinality(Listed(m, T, n + 1)) = x + y
    BY <2>5
  <2> QED
    BY <1>2, <2>6, ZenonT(40) DEF x, y
<1>3. CASE m[n].type \notin T
  <2>1. Listed(m, T, n + 1) = Listed(m, T, n)
    BY <1>3, ListedNext, ZenonT(40)
  <2> QED
    BY <1>1, <1>3, <2>1
<1> QED
  BY <1>2, <1>3

-----------------------------------------------------------------------------
(* pmm_init: the invariant.                                                *)

UsableType == {"USABLE"}
Placed == {"fill", "free", "protect", "done"}

\* The first loop has counted the entries before the i-th, and later all.
Seen == IF step = "count" THEN i ELSE Len(memmap) + 1
CountInv ==
  /\ memmap \in MemoryMaps /\ i \in 1 .. (Len(memmap) + 1)
  /\ step \in {"count", "place", "fill", "free", "protect", "done", "failed"}
  /\ max_addr \in 0 .. (Modulus - 1) /\ Bounded(memmap, Seen, max_addr)
  /\ total_frames = Cardinality(Listed(memmap, RamTypes, Seen))
  /\ usable_frames = Cardinality(Listed(memmap, UsableType, Seen))

\* The second loop has found the entries before the i-th too small, or one that
\* has room.
PlaceInv ==
  /\ IF step = "count" THEN bitmap_frames = 0 /\ bitmap_size = 0
                       ELSE bitmap_frames = max_addr /\ bitmap_size = DivUp(max_addr, BitsPerPage)
  /\ step \in {"place", "failed"} =>
       \A k \in 1 .. (i - 1) : memmap[k].type = "USABLE" => Cardinality(Pages(memmap[k])) < bitmap_size
  /\ step = "failed" => i = Len(memmap) + 1
  /\ IF step \in Placed
     THEN \E k \in 1 .. Len(memmap) : HasRoom(memmap[k]) /\ bitmap_at = FirstPage(memmap[k])
     ELSE bitmap_at = -1

\* The third loop has freed the usable pages of the entries before the i-th.
AllUsable == Listed(memmap, UsableType, Len(memmap) + 1)
Marked(taken, n) == boot_used = taken /\ boot_free = n /\ boot_taken = usable_frames - n
MarkInv ==
  /\ step \in {"count", "place", "fill"} => boot_used = {} /\ boot_free = 0 /\ boot_taken = 0
  /\ step = "failed" => Marked({}, 0)
  /\ step = "free" => Marked((0 .. (bitmap_frames - 1)) \ Listed(memmap, UsableType, i),
                             Cardinality(Listed(memmap, UsableType, i)))
  /\ step = "protect" => Marked(((0 .. (bitmap_frames - 1)) \ AllUsable) \cup {0},
                                IF usable_frames > 0 THEN usable_frames - 1 ELSE 0)
  /\ step = "done" =>
       /\ boot_used = ((0 .. (bitmap_frames - 1)) \ AllUsable) \cup {0} \cup BitmapPages
       /\ boot_free \in 0 .. (Modulus - 1) /\ boot_taken \in 0 .. (Modulus - 1)
       /\ bitmap_size < usable_frames =>
            /\ boot_free = (usable_frames - 1) - Cardinality(BitmapPages \ {0})
            /\ boot_taken = usable_frames - boot_free

BootInv == CountInv /\ PlaceInv /\ MarkInv

\* The types are a set of RAM types.
LEMMA Types == UsableType \in SUBSET RamTypes /\ RamTypes \in SUBSET RamTypes
BY DEF UsableType, RamTypes

\* What has been counted so far, as numbers and sets.
LEMMA Counted ==
  ASSUME CountInv
  PROVE  /\ Len(memmap) \in Nat /\ Seen \in 1 .. (Len(memmap) + 1) /\ max_addr \in Nat
         /\ usable_frames \in 0 .. max_addr /\ total_frames \in 0 .. max_addr
         /\ IsFiniteSet(Listed(memmap, UsableType, Seen))
         /\ Listed(memmap, UsableType, Seen) \subseteq 0 .. (max_addr - 1)
         /\ Listed(memmap, RamTypes, Seen) \subseteq 0 .. (max_addr - 1)
<1>1. memmap \in MemoryMaps /\ i \in 1 .. (Len(memmap) + 1) /\ Bounded(memmap, Seen, max_addr)
  BY DEF CountInv
<1>2. Len(memmap) \in Nat /\ max_addr \in Nat
  BY <1>1, MapFacts DEF CountInv
<1>3. Seen \in 1 .. (Len(memmap) + 1)
  BY <1>1, <1>2 DEF Seen
<1>4. /\ Listed(memmap, UsableType, Seen) \subseteq 0 .. (max_addr - 1)
      /\ IsFiniteSet(Listed(memmap, UsableType, Seen))
      /\ Cardinality(Listed(memmap, UsableType, Seen)) \in 0 .. max_addr
  BY <1>1, <1>2, <1>3, Types, ListedFinite, ZenonT(40)
<1>5. /\ Listed(memmap, RamTypes, Seen) \subseteq 0 .. (max_addr - 1)
      /\ IsFiniteSet(Listed(memmap, RamTypes, Seen))
      /\ Cardinality(Listed(memmap, RamTypes, Seen)) \in 0 .. max_addr
  BY <1>1, <1>2, <1>3, Types, ListedFinite, ZenonT(40)
<1> QED
  BY <1>2, <1>3, <1>4, <1>5, ZenonT(40) DEF CountInv

\* The first loop counts one entry.
LEMMA CountOne ==
  ASSUME CountInv, Count
  PROVE  CountInv'
<1> DEFINE n == i
<1>1. /\ step = "count" /\ step' = "count" /\ i \in 1 .. Len(memmap) /\ i' = i + 1 /\ memmap' = memmap
      /\ memmap \in MemoryMaps /\ Len(memmap) \in Nat
  BY MapFacts DEF Count, CountInv
<1>2. Seen = i /\ Seen' = i + 1 /\ i + 1 \in 1 .. (Len(memmap) + 1)
  BY <1>1 DEF Seen
<1> DEFINE e == memmap[i]
<1>3. IsEntry(e) /\ EndPage(e) < Modulus /\ EndPage(e) \in Nat
  BY <1>1, MapFacts, PagesIs, ZenonT(40)
<1>4. is_ram_type(e.type) <=> e.type \in RamTypes
  BY DEF is_ram_type, RamTypes
<1>5. Cardinality(Pages(e)) \in Nat
  BY <1>3, PagesFinite, ZenonT(40)
<1> HIDE DEF e
<1>6. /\ total_frames' = total_frames + IF e.type \in RamTypes THEN Cardinality(Pages(e)) ELSE 0
      /\ usable_frames' = usable_frames + IF e.type \in UsableType THEN Cardinality(Pages(e)) ELSE 0
      /\ max_addr' = IF e.type \in RamTypes /\ EndPage(e) > max_addr THEN EndPage(e) ELSE max_addr
  BY <1>4 DEF Count, e, UsableType
<1>7. max_addr \in Nat /\ max_addr \in 0 .. (Modulus - 1) /\ Modulus \in Nat
  BY MapsAssumption DEF CountInv
<1>8. Bounded(memmap, i, max_addr)
  BY <1>2 DEF CountInv
<1>9. max_addr' \in 0 .. (Modulus - 1) /\ max_addr <= max_addr' /\ (e.type \in RamTypes => EndPage(e) <= max_addr')
  BY <1>3, <1>6, <1>7
<1>10. Bounded(memmap, i + 1, max_addr')
  <2> SUFFICES ASSUME NEW k \in 1 .. ((i + 1) - 1), memmap[k].type \in RamTypes
               PROVE  EndPage(memmap[k]) <= max_addr'
    BY DEF Bounded
  <2>1. CASE k = i
    BY <1>9, <2>1 DEF e
  <2>2. CASE k # i
    <3>1. k \in 1 .. (i - 1) /\ k \in 1 .. Len(memmap)
      BY <1>1, <2>2
    <3>2. EndPage(memmap[k]) <= max_addr
      BY <1>8, <3>1 DEF Bounded
    <3>3. EndPage(memmap[k]) \in Nat
      BY <1>1, <3>1, MapFacts, PagesIs, ZenonT(40)
    <3> QED
      BY <1>7, <1>9, <3>2, <3>3
  <2> QED
    BY <2>1, <2>2
<1>11. /\ Cardinality(Listed(memmap, RamTypes, i + 1)) =
            Cardinality(Listed(memmap, RamTypes, i)) + IF e.type \in RamTypes THEN Cardinality(Pages(e)) ELSE 0
       /\ Cardinality(Listed(memmap, UsableType, i + 1)) =
            Cardinality(Listed(memmap, UsableType, i)) + IF e.type \in UsableType THEN Cardinality(Pages(e)) ELSE 0
  BY <1>1, <1>7, <1>8, ListedCount, Types, ZenonT(40) DEF e
<1>12. /\ total_frames = Cardinality(Listed(memmap, RamTypes, i))
       /\ usable_frames = Cardinality(Listed(memmap, UsableType, i))
  BY <1>2, ZenonT(40) DEF CountInv
<1>13. /\ total_frames' = Cardinality(Listed(memmap, RamTypes, i + 1))
       /\ usable_frames' = Cardinality(Listed(memmap, UsableType, i + 1))
  BY <1>6, <1>11, <1>12, ZenonT(40)
<1>14. /\ Listed(memmap, RamTypes, Seen)' = Listed(memmap, RamTypes, i + 1)
       /\ Listed(memmap, UsableType, Seen)' = Listed(memmap, UsableType, i + 1)
       /\ Bounded(memmap, Seen, max_addr)' <=> Bounded(memmap, i + 1, max_addr')
  BY <1>1, <1>2 DEF Listed, Bounded, Pages, FirstPage, EndPage, DivUp, RamTypes, UsableType
<1>15. memmap' \in MemoryMaps /\ i' \in 1 .. (Len(memmap') + 1)
  BY <1>1, <1>2
<1> QED
  BY <1>1, <1>9, <1>10, <1>13, <1>14, <1>15 DEF CountInv

\* The rest of pmm_init leaves the counts alone.
LEMMA CountKept ==
  ASSUME CountInv, memmap' = memmap, UNCHANGED countVars, i' \in 1 .. (Len(memmap) + 1),
         step' \in {"count", "place", "fill", "free", "protect", "done", "failed"},
         Seen' = Seen
  PROVE  CountInv'
<1>1. /\ Listed(memmap, RamTypes, Seen)' = Listed(memmap, RamTypes, Seen)
      /\ Listed(memmap, UsableType, Seen)' = Listed(memmap, UsableType, Seen)
      /\ Bounded(memmap, Seen, max_addr)' <=> Bounded(memmap, Seen, max_addr)
  BY DEF Listed, Bounded, Pages, FirstPage, EndPage, DivUp, RamTypes, UsableType, countVars
<1> QED
  BY <1>1 DEF CountInv, countVars

\* Every step keeps the counts right.
LEMMA CountStep ==
  ASSUME CountInv, BootNext
  PROVE  CountInv'
<1>1. Len(memmap) \in Nat /\ i \in 1 .. (Len(memmap) + 1)
  BY MapFacts DEF CountInv
<1>2. CASE Size
  <2>1. step' = "place" /\ i' = 1 /\ memmap' = memmap /\ UNCHANGED countVars
    BY <1>2 DEF Size
  <2>2. Seen' = Seen
    BY <1>1, <1>2, <2>1 DEF Size, Seen
  <2> QED
    BY <1>1, <2>1, <2>2, CountKept
<1>3. CASE Place \/ NoPlace \/ Fill \/ FreeEntry \/ ProtectZero \/ ProtectBitmap
  <2>1. /\ memmap' = memmap /\ UNCHANGED countVars
        /\ step # "count" /\ step' \in {"place", "fill", "free", "protect", "done", "failed"}
    BY <1>3 DEF Place, NoPlace, Fill, FreeEntry, ProtectZero, ProtectBitmap, CountInv
  <2>2. Seen' = Seen
    BY <2>1 DEF Seen
  <2>3. i' \in 1 .. (Len(memmap) + 1)
    BY <1>1, <1>3 DEF Place, NoPlace, Fill, FreeEntry, ProtectZero, ProtectBitmap
  <2> QED
    BY <2>1, <2>2, <2>3, CountKept
<1>4. CASE Finished
  <2>1. memmap' = memmap /\ UNCHANGED countVars /\ i' = i /\ step' = step
    BY <1>4 DEF Finished, bootVars
  <2>2. Seen' = Seen
    BY <2>1 DEF Seen
  <2> QED
    BY <1>1, <2>1, <2>2, CountKept DEF CountInv
<1> QED
  BY <1>2, <1>3, <1>4, CountOne DEF BootNext

\* An entry in which the bitmap has room has as many pages, and one in which it
\* has none has fewer.
LEMMA Room ==
  ASSUME NEW e, IsEntry(e), bitmap_size \in Nat
  PROVE  /\ HasRoom(e) => FirstPage(e) + bitmap_size <= EndPage(e)
         /\ ~HasRoom(e) /\ e.type = "USABLE" /\ FirstPage(e) < EndPage(e) =>
              EndPage(e) - FirstPage(e) < bitmap_size
<1>0. PageSize \in Nat \ {0} /\ e.base + e.length \in Nat
  BY MapsAssumption DEF IsEntry
<1> DEFINE p == FirstPage(e)
           q == EndPage(e)
           end == e.base + e.length
<1>1. p \in Nat /\ q \in Nat
  BY PagesIs
<1>2. \A f \in Nat : f <= q <=> f * PageSize <= end
  BY <1>0, Quotient, ZenonT(40) DEF EndPage
<1>3. HasRoom(e) <=> e.type = "USABLE" /\ end > p * PageSize /\ end - p * PageSize >= bitmap_size * PageSize
  BY DEF HasRoom
<1> HIDE DEF p, q, end
<1>4. p * PageSize \in Int /\ q * PageSize \in Int /\ bitmap_size * PageSize \in Int /\ end \in Int
  BY <1>0, <1>1 DEF end
<1>5. HasRoom(e) => p + bitmap_size <= q
  <2>1. p + bitmap_size \in Nat
    BY <1>1
  <2>2. (p + bitmap_size) * PageSize = p * PageSize + bitmap_size * PageSize
    BY <1>0, <1>1
  <2>3. HasRoom(e) => (p + bitmap_size) * PageSize <= end
    BY <1>3, <1>4, <2>2
  <2> QED
    BY <1>2, <2>1, <2>3
<1>6. ASSUME ~HasRoom(e), e.type = "USABLE", p < q
      PROVE  q - p < bitmap_size
  <2>1. q * PageSize <= end
    BY <1>1, <1>2
  <2>2. ~(q * PageSize <= p * PageSize)
    <3>1. q <= p <=> q * PageSize <= p * PageSize
      BY <1>0, <1>1, Product
    <3> QED
      BY <1>1, <1>6, <3>1
  <2>3. ~(end - p * PageSize >= bitmap_size * PageSize)
    BY <1>3, <1>4, <1>6, <2>1, <2>2
  <2>4. q - p \in Int /\ (q - p) * PageSize = q * PageSize - p * PageSize
    BY <1>0, <1>1
  <2>5. ~(bitmap_size * PageSize <= (q - p) * PageSize)
    BY <1>4, <2>1, <2>3, <2>4
  <2>6. bitmap_size <= q - p <=> bitmap_size * PageSize <= (q - p) * PageSize
    <3>1. bitmap_size \in Int /\ q - p \in Int
      BY <2>4
    <3> QED
      BY <1>0, <3>1, Product, ZenonT(40)
  <2> QED
    BY <1>1, <2>4, <2>5, <2>6
<1> QED
  BY <1>5, <1>6 DEF p, q

\* The size of the bitmap.
LEMMA BitmapSize ==
  ASSUME CountInv, PlaceInv, step # "count"
  PROVE  /\ bitmap_size \in Nat /\ bitmap_frames \in Nat /\ bitmap_frames = max_addr
         /\ max_addr \in Nat /\ bitmap_size * BitsPerPage >= bitmap_frames
         /\ max_addr > 0 => bitmap_size > 0
<1>1. max_addr \in Nat /\ BitsPerPage \in Nat \ {0}
  BY MapsAssumption DEF CountInv
<1>2. bitmap_frames = max_addr /\ bitmap_size = DivUp(max_addr, BitsPerPage)
  BY DEF PlaceInv
<1>3. bitmap_size \in Nat /\ \A f \in Nat : bitmap_size <= f <=> max_addr <= f * BitsPerPage
  BY <1>1, <1>2, QuotientUp, ZenonT(40)
<1>4. bitmap_size <= bitmap_size /\ (bitmap_size <= 0 <=> max_addr <= 0 * BitsPerPage) /\ 0 * BitsPerPage = 0
  BY <1>1, <1>3
<1>5. max_addr <= bitmap_size * BitsPerPage /\ bitmap_size * BitsPerPage \in Int
  BY <1>1, <1>3, <1>4
<1> QED
  BY <1>1, <1>2, <1>3, <1>4, <1>5

\* A usable entry without room has fewer pages than the bitmap.
LEMMA TooSmall ==
  ASSUME CountInv, PlaceInv, step # "count", NEW k \in 1 .. Len(memmap),
         memmap[k].type = "USABLE", ~HasRoom(memmap[k])
  PROVE  Cardinality(Pages(memmap[k])) < bitmap_size
<1> DEFINE e == memmap[k]
<1>1. memmap \in MemoryMaps /\ Len(memmap) \in Nat /\ PageSize \in Nat \ {0}
  BY MapFacts, MapsAssumption DEF CountInv
<1>2. IsEntry(e) /\ e.length >= PageSize
  BY <1>1, MapFacts
<1>3. bitmap_size \in Nat /\ max_addr \in Nat /\ (max_addr > 0 => bitmap_size > 0)
  BY BitmapSize
<1>4. EndPage(e) <= max_addr
  <2>1. Bounded(memmap, Len(memmap) + 1, max_addr)
    BY DEF CountInv, Seen
  <2>2. k \in 1 .. ((Len(memmap) + 1) - 1)
    BY <1>1
  <2> QED
    BY <2>1, <2>2 DEF Bounded, RamTypes
<1> HIDE DEF e
<1>5. FirstPage(e) \in Nat /\ EndPage(e) \in Nat
  BY <1>2, PagesIs
<1>6. 1 <= EndPage(e)
  <2>1. e.base + e.length \in Nat /\ 1 * PageSize <= e.base + e.length
    BY <1>1, <1>2 DEF IsEntry
  <2> QED
    BY <1>1, <2>1, Quotient DEF EndPage
<1>7. FirstPage(e) < EndPage(e) => EndPage(e) - FirstPage(e) < bitmap_size
  BY <1>2, <1>3, Room DEF e
<1>8. Cardinality(Pages(e)) = IF FirstPage(e) < EndPage(e) THEN EndPage(e) - FirstPage(e) ELSE 0
  BY <1>2, PagesFinite, ZenonT(40)
<1> QED
  BY <1>3, <1>4, <1>5, <1>6, <1>7, <1>8 DEF e

\* What PlaceInv says of the entries depends on the map and the size only.
LEMMA PlaceKept ==
  ASSUME memmap' = memmap, bitmap_size' = bitmap_size
  PROVE  \A k : /\ (HasRoom(memmap[k])' <=> HasRoom(memmap[k]))
                /\ FirstPage(memmap[k])' = FirstPage(memmap[k])
                /\ Pages(memmap[k])' = Pages(memmap[k])
BY DEF HasRoom, Pages, FirstPage, EndPage, DivUp

\* Every step keeps the place of the bitmap right.
LEMMA PlaceStep ==
  ASSUME CountInv, PlaceInv, BootNext
  PROVE  PlaceInv'
<1>0. Len(memmap) \in Nat /\ i \in 1 .. (Len(memmap) + 1) /\ memmap \in MemoryMaps
  BY MapFacts DEF CountInv
<1>1. CASE Count
  <2>1. step = "count" /\ step' = "count" /\ UNCHANGED placeVars
    BY <1>1 DEF Count
  <2> QED
    BY <2>1 DEF PlaceInv, placeVars, Placed
<1>2. CASE Size
  <2>1. /\ step = "count" /\ step' = "place" /\ i' = 1 /\ max_addr' = max_addr /\ bitmap_at' = bitmap_at
        /\ bitmap_frames' = max_addr /\ bitmap_size' = DivUp(max_addr, BitsPerPage)
    BY <1>2 DEF Size, countVars
  <2>2. bitmap_at' = -1
    BY <2>1 DEF PlaceInv, Placed
  <2>3. DivUp(max_addr, BitsPerPage)' = DivUp(max_addr, BitsPerPage)
    BY <2>1 DEF DivUp
  <2> QED
    BY <2>1, <2>2, <2>3 DEF PlaceInv, Placed
<1>3. CASE Place
  <2>1. /\ step = "place" /\ i \in 1 .. Len(memmap) /\ memmap' = memmap /\ max_addr' = max_addr
        /\ bitmap_frames' = bitmap_frames /\ bitmap_size' = bitmap_size
    BY <1>0, <1>3 DEF Place, countVars
  <2>2. \A k : /\ (HasRoom(memmap[k])' <=> HasRoom(memmap[k]))
               /\ FirstPage(memmap[k])' = FirstPage(memmap[k])
               /\ Pages(memmap[k])' = Pages(memmap[k])
    BY <2>1, PlaceKept
  <2>3. bitmap_frames' = max_addr' /\ bitmap_size' = DivUp(max_addr, BitsPerPage)'
    BY <2>1 DEF PlaceInv, DivUp
  <2>4. CASE HasRoom(memmap[i])
    <3>1. bitmap_at' = FirstPage(memmap[i]) /\ step' = "fill"
      BY <1>3, <2>4 DEF Place
    <3>2. \E k \in 1 .. Len(memmap') : HasRoom(memmap[k])' /\ bitmap_at' = FirstPage(memmap[k])'
      BY <2>1, <2>2, <2>4, <3>1
    <3> QED
      BY <2>3, <3>1, <3>2 DEF PlaceInv, Placed
  <2>5. CASE ~HasRoom(memmap[i])
    <3>1. i' = i + 1 /\ bitmap_at' = bitmap_at /\ step' = "place"
      BY <1>3, <2>1, <2>5 DEF Place
    <3>2. bitmap_at' = -1
      BY <2>1, <3>1 DEF PlaceInv, Placed
    <3>3. ASSUME NEW k \in 1 .. (i' - 1), memmap[k].type = "USABLE"
          PROVE  Cardinality(Pages(memmap[k])) < bitmap_size
      <4>1. CASE k = i
        BY <2>1, <2>5, <3>3, <4>1, TooSmall
      <4>2. CASE k # i
        <5>1. k \in 1 .. (i - 1)
          BY <2>1, <3>1, <4>2
        <5> QED
          BY <2>1, <3>3, <5>1 DEF PlaceInv
      <4> QED
        BY <4>1, <4>2
    <3>4. \A k \in 1 .. (i' - 1) : memmap[k]'.type = "USABLE" => Cardinality(Pages(memmap[k])') < bitmap_size'
      BY <2>1, <2>2, <3>3
    <3> QED
      BY <2>3, <3>1, <3>2, <3>4 DEF PlaceInv, Placed
  <2> QED
    BY <2>4, <2>5
<1>4. CASE NoPlace
  <2>1. /\ step = "place" /\ step' = "failed" /\ i = Len(memmap) + 1 /\ memmap' = memmap
        /\ UNCHANGED <<i, countVars, placeVars>>
    BY <1>0, <1>4 DEF NoPlace
  <2>2. \A k : Pages(memmap[k])' = Pages(memmap[k])
    BY <2>1, PlaceKept DEF placeVars
  <2>3. bitmap_frames' = max_addr' /\ bitmap_size' = DivUp(max_addr, BitsPerPage)' /\ bitmap_at' = -1
    BY <2>1 DEF PlaceInv, DivUp, placeVars, countVars, Placed
  <2>4. \A k \in 1 .. (i' - 1) : memmap[k]'.type = "USABLE" => Cardinality(Pages(memmap[k])') < bitmap_size'
    BY <2>1, <2>2 DEF PlaceInv, placeVars
  <2>5. i' = Len(memmap') + 1
    BY <2>1
  <2> QED
    BY <2>1, <2>3, <2>4, <2>5 DEF PlaceInv, Placed
<1>5. CASE Fill \/ FreeEntry \/ ProtectZero \/ ProtectBitmap
  <2>1. step \in Placed /\ step' \in Placed /\ memmap' = memmap /\ UNCHANGED <<countVars, placeVars>>
    BY <1>5 DEF Fill, FreeEntry, ProtectZero, ProtectBitmap, Placed
  <2>2. \A k : (HasRoom(memmap[k])' <=> HasRoom(memmap[k])) /\ FirstPage(memmap[k])' = FirstPage(memmap[k])
    BY <2>1, PlaceKept DEF placeVars
  <2>3. bitmap_frames' = max_addr' /\ bitmap_size' = DivUp(max_addr, BitsPerPage)'
    BY <2>1 DEF PlaceInv, DivUp, placeVars, countVars, Placed
  <2>4. \E k \in 1 .. Len(memmap') : HasRoom(memmap[k])' /\ bitmap_at' = FirstPage(memmap[k])'
    BY <2>1, <2>2 DEF PlaceInv, placeVars
  <2> QED
    BY <2>1, <2>3, <2>4 DEF PlaceInv, Placed
<1>6. CASE Finished
  BY <1>6 DEF Finished, bootVars, countVars, placeVars, PlaceInv, HasRoom, Pages, FirstPage, EndPage, DivUp, Placed
<1> QED
  BY <1>1, <1>2, <1>3, <1>4, <1>5, <1>6 DEF BootNext

\* The bitmap is in pages of a usable entry.
LEMMA BitmapInside ==
  ASSUME CountInv, PlaceInv, step \in Placed
  PROVE  /\ bitmap_at \in Nat /\ BitmapPages \subseteq AllUsable
         /\ IsFiniteSet(BitmapPages) /\ Cardinality(BitmapPages) = bitmap_size
<1>1. PICK k \in 1 .. Len(memmap) : HasRoom(memmap[k]) /\ bitmap_at = FirstPage(memmap[k])
  BY DEF PlaceInv
<1>2. memmap \in MemoryMaps /\ Len(memmap) \in Nat /\ bitmap_size \in Nat
  BY MapFacts, BitmapSize DEF CountInv, Placed
<1>3. IsEntry(memmap[k])
  BY <1>2, MapFacts
<1>4. /\ bitmap_at \in Nat /\ EndPage(memmap[k]) \in Nat
      /\ bitmap_at + bitmap_size <= EndPage(memmap[k])
  BY <1>1, <1>2, <1>3, PagesIs, Room
<1>5. BitmapPages \subseteq Pages(memmap[k])
  BY <1>1, <1>2, <1>4 DEF BitmapPages, Pages
<1>6. Pages(memmap[k]) \subseteq AllUsable
  <2>1. memmap[k].type \in UsableType
    BY <1>1 DEF HasRoom, UsableType
  <2>2. k \in 1 .. ((Len(memmap) + 1) - 1) /\ Len(memmap) + 1 \in Nat
    BY <1>2
  <2> QED
    BY <2>1, <2>2, ListedHas, ZenonT(40) DEF AllUsable
<1>7. IsFiniteSet(BitmapPages) /\ Cardinality(BitmapPages) = bitmap_size
  <2> DEFINE p == bitmap_at
             q == bitmap_at + bitmap_size - 1
  <2>1. p \in Int /\ q \in Int
    BY <1>2, <1>4
  <2>2. IsFiniteSet(p .. q) /\ Cardinality(p .. q) = IF p > q THEN 0 ELSE q - p + 1
    BY <2>1, FS_Interval
  <2> QED
    BY <1>2, <1>4, <2>2 DEF BitmapPages
<1> QED
  BY <1>4, <1>5, <1>6, <1>7

\* A number that fits does not wrap.
LEMMA Fits64 == ASSUME NEW n \in 0 .. (Modulus - 1) PROVE n % Modulus = n
BY MapsAssumption

\* What is listed up to an entry, once all entries are counted.
LEMMA ListedPart ==
  ASSUME CountInv, step # "count", NEW n \in 1 .. (Len(memmap) + 1)
  PROVE  /\ Listed(memmap, UsableType, n) \subseteq AllUsable
         /\ AllUsable \subseteq 0 .. (max_addr - 1)
         /\ IsFiniteSet(AllUsable) /\ Cardinality(AllUsable) = usable_frames
         /\ usable_frames \in Nat /\ usable_frames < Modulus
         /\ Cardinality(Listed(memmap, UsableType, n)) \in 0 .. usable_frames
<1> DEFINE L == Listed(memmap, UsableType, n)
<1>1. Seen = Len(memmap) + 1 /\ Len(memmap) \in Nat /\ Modulus \in Nat
  BY MapFacts, MapsAssumption DEF CountInv, Seen
<1>2. /\ usable_frames \in 0 .. max_addr /\ IsFiniteSet(AllUsable) /\ AllUsable \subseteq 0 .. (max_addr - 1)
      /\ max_addr \in Nat
  BY <1>1, Counted DEF AllUsable
<1>3. Cardinality(AllUsable) = usable_frames
  BY <1>1 DEF CountInv, AllUsable
<1>4. usable_frames \in Nat /\ usable_frames < Modulus
  BY <1>1, <1>2 DEF CountInv
<1>5. L \subseteq AllUsable
  <2>1. n \in Nat /\ Len(memmap) + 1 \in Nat /\ n <= Len(memmap) + 1
    BY <1>1
  <2> QED
    BY <2>1, ListedMore, ZenonT(40) DEF AllUsable
<1> HIDE DEF L
<1>6. IsFiniteSet(L) /\ Cardinality(L) <= usable_frames
  BY <1>2, <1>3, <1>5, FS_Subset, ZenonT(40)
<1>7. Cardinality(L) \in Nat
  BY <1>6, FS_CardinalityType
<1> QED
  BY <1>2, <1>3, <1>4, <1>5, <1>6, <1>7 DEF L

\* The third loop frees the pages of one entry.
LEMMA FreeOne ==
  ASSUME CountInv, PlaceInv, MarkInv, FreeEntry
  PROVE  /\ boot_used' = (0 .. (bitmap_frames - 1)) \ Listed(memmap, UsableType, i + 1)
         /\ boot_free' = Cardinality(Listed(memmap, UsableType, i + 1))
         /\ boot_taken' = usable_frames - Cardinality(Listed(memmap, UsableType, i + 1))
<1> DEFINE e == memmap[i]
           P == Pages(e)
           F == 0 .. (bitmap_frames - 1)
           L == Listed(memmap, UsableType, i)
           K == Listed(memmap, UsableType, i + 1)
<1>1. /\ step = "free" /\ i \in 1 .. Len(memmap) /\ memmap \in MemoryMaps /\ Len(memmap) \in Nat
      /\ i + 1 \in 1 .. (Len(memmap) + 1) /\ i \in 1 .. (Len(memmap) + 1)
  BY MapFacts DEF FreeEntry, CountInv
<1>2. bitmap_frames = max_addr /\ max_addr \in Nat /\ step # "count"
  BY <1>1, BitmapSize
<1>3. K \subseteq F /\ usable_frames \in Nat /\ usable_frames < Modulus /\ Cardinality(K) \in 0 .. usable_frames
  <2>1. /\ K \subseteq AllUsable /\ AllUsable \subseteq 0 .. (max_addr - 1)
        /\ IsFiniteSet(AllUsable) /\ Cardinality(AllUsable) = usable_frames
        /\ usable_frames \in Nat /\ usable_frames < Modulus
        /\ Cardinality(K) \in 0 .. usable_frames
    BY <1>1, <1>2, ListedPart, ZenonT(40)
  <2> QED
    BY <1>2, <2>1, ZenonT(40)
<1>4. Cardinality(L) \in Nat
  <2>1. /\ L \subseteq AllUsable /\ AllUsable \subseteq 0 .. (max_addr - 1)
        /\ IsFiniteSet(AllUsable) /\ Cardinality(AllUsable) = usable_frames
        /\ usable_frames \in Nat /\ usable_frames < Modulus
        /\ Cardinality(L) \in 0 .. usable_frames
    BY <1>1, <1>2, ListedPart, ZenonT(40)
  <2> QED
    BY <2>1
<1>5. boot_used = F \ L /\ boot_free = Cardinality(L) /\ boot_taken = usable_frames - Cardinality(L)
  BY <1>1 DEF MarkInv, Marked
<1>6. CASE e.type \notin UsableType
  <2>1. K = L
    BY <1>1, <1>6, Types, ListedNext, ZenonT(40)
  <2>2. UNCHANGED resultVars
    BY <1>6 DEF FreeEntry, UsableType
  <2> QED
    BY <1>5, <2>1, <2>2 DEF resultVars
<1>7. CASE e.type \in UsableType
  <2>1. K = L \cup P /\ L \cap P = {}
    BY <1>1, <1>7, Types, ListedNext, ZenonT(40)
  <2>2. Cardinality(K) = Cardinality(L) + Cardinality(P) /\ Cardinality(P) \in Nat
    <3>1. Bounded(memmap, i, max_addr)
      <4>1. Bounded(memmap, Len(memmap) + 1, max_addr)
        BY <1>2 DEF CountInv, Seen
      <4> QED
        BY <1>1, <4>1 DEF Bounded
    <3>2. Cardinality(K) = Cardinality(L) + IF e.type \in UsableType THEN Cardinality(P) ELSE 0
      BY <1>1, <1>2, <3>1, Types, ListedCount, ZenonT(40)
    <3>3. Cardinality(P) \in Nat
      <4>1. IsEntry(e)
        BY <1>1, MapFacts
      <4> QED
        BY <4>1, PagesFinite, ZenonT(40)
    <3> QED
      BY <1>7, <3>2, <3>3
  <2>3. MarkFree(Below(P))
    BY <1>7 DEF FreeEntry, UsableType
  <2> HIDE DEF e, P, L, K
  <2>4. Below(P) = P
    BY <1>2, <1>3, <2>1 DEF Below
  <2>5. P \cap boot_used = P
    BY <1>3, <1>5, <2>1
  <2>6. /\ boot_used' = boot_used \ P
        /\ boot_free' = (boot_free + Cardinality(P)) % Modulus
        /\ boot_taken' = (boot_taken - Cardinality(P)) % Modulus
    BY <2>3, <2>4, <2>5, ZenonT(40) DEF MarkFree, Up, Down
  <2>7. boot_free + Cardinality(P) = Cardinality(K) /\ boot_taken - Cardinality(P) = usable_frames - Cardinality(K)
    BY <1>3, <1>4, <1>5, <2>2
  <2>8. Cardinality(K) \in 0 .. (Modulus - 1) /\ usable_frames - Cardinality(K) \in 0 .. (Modulus - 1)
    BY <1>3, MapsAssumption
  <2>9. Cardinality(K) % Modulus = Cardinality(K) /\ (usable_frames - Cardinality(K)) % Modulus = usable_frames - Cardinality(K)
    BY <2>8, Fits64
  <2>10. boot_used' = F \ K
    BY <1>5, <2>1, <2>6
  <2> QED
    BY <2>6, <2>7, <2>9, <2>10 DEF K
<1> QED
  BY <1>6, <1>7

\* Frame 0 is protected.
LEMMA ProtectZeroMarks ==
  ASSUME CountInv, PlaceInv, MarkInv, ProtectZero
  PROVE  /\ boot_used' = ((0 .. (bitmap_frames - 1)) \ AllUsable) \cup {0}
         /\ boot_free' = IF usable_frames > 0 THEN usable_frames - 1 ELSE 0
         /\ boot_taken' = usable_frames - IF usable_frames > 0 THEN usable_frames - 1 ELSE 0
<1>1. step = "free" /\ Len(memmap) \in Nat /\ i = Len(memmap) + 1 /\ i \in 1 .. (Len(memmap) + 1)
  BY MapFacts DEF ProtectZero, CountInv
<1>2. Cardinality(AllUsable) = usable_frames /\ usable_frames \in Nat /\ usable_frames < Modulus
  <2>1. step # "count"
    BY <1>1
  <2> QED
    BY <1>1, <2>1, ListedPart
<1>3. /\ boot_used = (0 .. (bitmap_frames - 1)) \ AllUsable
      /\ boot_free = usable_frames /\ boot_taken = 0
  BY <1>1, <1>2 DEF MarkInv, Marked, AllUsable
<1>4. /\ boot_used' = boot_used \cup {0}
      /\ IF boot_free > 0 THEN boot_free' = boot_free - 1 /\ boot_taken' = (boot_taken + 1) % Modulus
                          ELSE boot_free' = boot_free /\ boot_taken' = boot_taken
  BY DEF ProtectZero, Up
<1>5. usable_frames > 0 => (0 + 1) % Modulus = 1
  <2>1. usable_frames > 0 => 1 \in 0 .. (Modulus - 1)
    BY <1>2, MapsAssumption
  <2> QED
    BY <2>1, Fits64
<1> QED
  BY <1>2, <1>3, <1>4, <1>5

\* The bitmap is protected.
LEMMA ProtectBitmapMarks ==
  ASSUME CountInv, PlaceInv, MarkInv, ProtectBitmap
  PROVE  /\ boot_used' = ((0 .. (bitmap_frames - 1)) \ AllUsable) \cup {0} \cup BitmapPages
         /\ boot_free' \in 0 .. (Modulus - 1) /\ boot_taken' \in 0 .. (Modulus - 1)
         /\ bitmap_size < usable_frames =>
              /\ boot_free' = (usable_frames - 1) - Cardinality(BitmapPages \ {0})
              /\ boot_taken' = usable_frames - boot_free'
<1> DEFINE B == BitmapPages
           c == Cardinality(B \ {0})
<1>1. step = "protect" /\ step \in Placed /\ step # "count" /\ Len(memmap) \in Nat
      /\ 1 \in 1 .. (Len(memmap) + 1)
  BY MapFacts DEF ProtectBitmap, CountInv, Placed
<1>2. /\ AllUsable \subseteq 0 .. (bitmap_frames - 1) /\ usable_frames \in Nat /\ usable_frames < Modulus
      /\ bitmap_frames \in Nat /\ bitmap_size \in Nat
  BY <1>1, ListedPart, BitmapSize
<1>3. B \subseteq AllUsable /\ IsFiniteSet(B) /\ Cardinality(B) = bitmap_size
  BY <1>1, BitmapInside
<1>4. c \in Nat /\ c <= bitmap_size
  <2>1. B \ {0} \subseteq B
    OBVIOUS
  <2>2. IsFiniteSet(B \ {0}) /\ Cardinality(B \ {0}) <= Cardinality(B)
    BY <1>3, <2>1, FS_Subset
  <2> QED
    BY <1>3, <2>2, FS_CardinalityType
<1>5. /\ boot_used = ((0 .. (bitmap_frames - 1)) \ AllUsable) \cup {0}
      /\ boot_free = IF usable_frames > 0 THEN usable_frames - 1 ELSE 0
      /\ boot_taken = usable_frames - boot_free
  BY <1>1 DEF MarkInv, Marked
<1> HIDE DEF B
<1>6. Below(B) = B
  <2>1. \A f \in 0 .. (bitmap_frames - 1) : f < bitmap_frames
    BY <1>2
  <2>2. \A f \in B : f < bitmap_frames
    BY <1>2, <1>3, <2>1, ZenonT(40)
  <2> QED
    BY <2>2, ZenonT(40) DEF Below
<1>7. B \ boot_used = B \ {0}
  BY <1>2, <1>3, <1>5
<1> HIDE DEF c
<1>8. /\ boot_used' = boot_used \cup B
      /\ boot_free' = (boot_free - c) % Modulus /\ boot_taken' = (boot_taken + c) % Modulus
  BY <1>6, <1>7, ZenonT(40) DEF ProtectBitmap, MarkUsed, Up, Down, B, c
<1>9. Modulus \in Nat \ {0} /\ boot_free \in Int /\ boot_taken \in Int
  BY <1>2, <1>5, MapsAssumption
<1>10. boot_free' \in 0 .. (Modulus - 1) /\ boot_taken' \in 0 .. (Modulus - 1)
  BY <1>4, <1>8, <1>9
<1>11. ASSUME bitmap_size < usable_frames
       PROVE  boot_free' = (usable_frames - 1) - c /\ boot_taken' = usable_frames - boot_free'
  <2>1. /\ boot_free - c = (usable_frames - 1) - c /\ boot_taken + c = 1 + c
        /\ (usable_frames - 1) - c \in 0 .. (Modulus - 1) /\ 1 + c \in 0 .. (Modulus - 1)
    BY <1>2, <1>4, <1>5, <1>9, <1>11
  <2>2. ((usable_frames - 1) - c) % Modulus = (usable_frames - 1) - c /\ (1 + c) % Modulus = 1 + c
    BY <2>1, Fits64
  <2> QED
    BY <1>2, <1>4, <1>8, <2>1, <2>2
<1>12. boot_used' = ((0 .. (bitmap_frames - 1)) \ AllUsable) \cup {0} \cup BitmapPages
  BY <1>5, <1>8, ZenonT(40) DEF B
<1> QED
  BY <1>10, <1>11, <1>12, ZenonT(40) DEF B, c

\* The lists depend on the map only.
LEMMA ListedKept ==
  ASSUME memmap' = memmap
  PROVE  /\ AllUsable' = AllUsable
         /\ Listed(memmap, UsableType, i)' = Listed(memmap, UsableType, i')
BY DEF AllUsable, Listed, Pages, FirstPage, EndPage, DivUp, UsableType

\* Every step keeps the bits and the counters right.
LEMMA MarkStep ==
  ASSUME CountInv, PlaceInv, MarkInv, BootNext
  PROVE  MarkInv'
<1>1. CASE Count \/ Size \/ Place
  <2>1. /\ step \in {"count", "place"} /\ step' \in {"count", "place", "fill"} /\ UNCHANGED resultVars
    BY <1>1 DEF Count, Size, Place
  <2> QED
    BY <2>1 DEF MarkInv, resultVars
<1>2. CASE NoPlace
  <2>1. /\ step = "place" /\ step' = "failed" /\ usable_frames' = usable_frames
        /\ boot_used' = boot_used /\ boot_free' = 0 /\ boot_taken' = usable_frames
    BY <1>2 DEF NoPlace, countVars
  <2>2. boot_used = {} /\ usable_frames \in Nat
    BY <2>1, Counted DEF MarkInv
  <2>3. boot_taken' = usable_frames' - 0
    BY <2>1, <2>2
  <2> QED
    BY <2>1, <2>2, <2>3 DEF MarkInv, Marked
<1>3. CASE Fill
  <2>1. /\ step' = "free" /\ i' = 1 /\ memmap' = memmap /\ usable_frames' = usable_frames
        /\ bitmap_frames' = bitmap_frames
        /\ boot_used' = 0 .. (bitmap_frames - 1) /\ boot_free' = 0 /\ boot_taken' = usable_frames
    BY <1>3 DEF Fill, countVars, placeVars
  <2>2. Listed(memmap, UsableType, i)' = {}
    <3>1. Listed(memmap, UsableType, i)' = Listed(memmap, UsableType, 1)
      BY <2>1, ListedKept
    <3> QED
      BY <3>1, ListedFirst
  <2>3. Cardinality({}) = 0 /\ usable_frames \in Nat
    BY FS_EmptySet, Counted
  <2>4. Cardinality(Listed(memmap, UsableType, i)') = 0 /\ boot_taken' = usable_frames' - 0
    BY <2>1, <2>2, <2>3
  <2>5. boot_used' = (0 .. (bitmap_frames' - 1)) \ Listed(memmap, UsableType, i)'
    BY <2>1, <2>2
  <2> QED
    BY <2>1, <2>4, <2>5 DEF MarkInv, Marked
<1>4. CASE FreeEntry
  <2>1. /\ step' = "free" /\ i' = i + 1 /\ memmap' = memmap /\ usable_frames' = usable_frames
        /\ bitmap_frames' = bitmap_frames
    BY <1>4 DEF FreeEntry, countVars, placeVars
  <2>2. Listed(memmap, UsableType, i)' = Listed(memmap, UsableType, i + 1)
    BY <2>1, ListedKept
  <2>3. /\ boot_used' = (0 .. (bitmap_frames - 1)) \ Listed(memmap, UsableType, i + 1)
        /\ boot_free' = Cardinality(Listed(memmap, UsableType, i + 1))
        /\ boot_taken' = usable_frames - Cardinality(Listed(memmap, UsableType, i + 1))
    BY <1>4, FreeOne, ZenonT(40)
  <2> QED
    BY <2>1, <2>2, <2>3 DEF MarkInv, Marked
<1>5. CASE ProtectZero
  <2>1. /\ step' = "protect" /\ memmap' = memmap /\ usable_frames' = usable_frames
        /\ bitmap_frames' = bitmap_frames
    BY <1>5 DEF ProtectZero, countVars, placeVars
  <2>2. AllUsable' = AllUsable
    BY <2>1, ListedKept
  <2>3. /\ boot_used' = ((0 .. (bitmap_frames - 1)) \ AllUsable) \cup {0}
        /\ boot_free' = IF usable_frames > 0 THEN usable_frames - 1 ELSE 0
        /\ boot_taken' = usable_frames - IF usable_frames > 0 THEN usable_frames - 1 ELSE 0
    BY <1>5, ProtectZeroMarks, ZenonT(40)
  <2> QED
    BY <2>1, <2>2, <2>3 DEF MarkInv, Marked
<1>6. CASE ProtectBitmap
  <2>1. /\ step' = "done" /\ memmap' = memmap /\ usable_frames' = usable_frames
        /\ bitmap_frames' = bitmap_frames /\ bitmap_size' = bitmap_size /\ bitmap_at' = bitmap_at
    BY <1>6 DEF ProtectBitmap, countVars, placeVars
  <2>2. AllUsable' = AllUsable /\ BitmapPages' = BitmapPages
    BY <2>1, ListedKept DEF BitmapPages
  <2>3. /\ boot_used' = ((0 .. (bitmap_frames - 1)) \ AllUsable) \cup {0} \cup BitmapPages
        /\ boot_free' \in 0 .. (Modulus - 1) /\ boot_taken' \in 0 .. (Modulus - 1)
        /\ bitmap_size < usable_frames =>
             /\ boot_free' = (usable_frames - 1) - Cardinality(BitmapPages \ {0})
             /\ boot_taken' = usable_frames - boot_free'
    BY <1>6, ProtectBitmapMarks, ZenonT(40)
  <2> QED
    BY <2>1, <2>2, <2>3 DEF MarkInv
<1>7. CASE Finished
  <2>1. /\ UNCHANGED <<memmap, step, i, bitmap_frames, bitmap_size, bitmap_at, usable_frames>>
        /\ UNCHANGED resultVars
    BY <1>7 DEF Finished, bootVars, countVars, placeVars
  <2>2. /\ AllUsable' = AllUsable /\ BitmapPages' = BitmapPages
        /\ Listed(memmap, UsableType, i)' = Listed(memmap, UsableType, i)
    BY <2>1, ListedKept DEF BitmapPages
  <2> QED
    BY <2>1, <2>2 DEF MarkInv, Marked, resultVars
<1> QED
  BY <1>1, <1>2, <1>3, <1>4, <1>5, <1>6, <1>7 DEF BootNext

\* At first nothing is counted.
LEMMA InitBoot == BootInit => BootInv
<1> SUFFICES ASSUME BootInit PROVE BootInv
  OBVIOUS
<1>1. memmap \in MemoryMaps /\ Len(memmap) \in Nat /\ Modulus \in Nat \ {0}
  BY MapFacts, MapsAssumption DEF BootInit
<1>2. Seen = 1
  BY DEF Seen, BootInit
<1>3. Listed(memmap, UsableType, 1) = {} /\ Listed(memmap, RamTypes, 1) = {} /\ Cardinality({}) = 0
  BY ListedFirst, FS_EmptySet
<1>4. Bounded(memmap, 1, 0)
  BY DEF Bounded
<1>5. CountInv
  <2>1. step = "count" /\ i = 1 /\ max_addr = 0 /\ total_frames = 0 /\ usable_frames = 0
    BY DEF BootInit
  <2>2. i \in 1 .. (Len(memmap) + 1) /\ max_addr \in 0 .. (Modulus - 1)
    BY <1>1, <2>1
  <2>3. step \in {"count", "place", "fill", "free", "protect", "done", "failed"}
    BY <2>1
  <2>4. /\ total_frames = Cardinality(Listed(memmap, RamTypes, Seen))
        /\ usable_frames = Cardinality(Listed(memmap, UsableType, Seen))
        /\ Bounded(memmap, Seen, max_addr)
    BY <1>2, <1>3, <1>4, <2>1, ZenonT(40)
  <2> QED
    BY <1>1, <2>2, <2>3, <2>4, ZenonT(40) DEF CountInv
<1>6. PlaceInv /\ MarkInv
  BY DEF PlaceInv, MarkInv, BootInit, Placed
<1> QED
  BY <1>5, <1>6 DEF BootInv

\* Every step keeps the invariant.
LEMMA StepBoot == BootInv /\ [BootNext]_bootVars => BootInv'
<1> SUFFICES ASSUME BootInv, [BootNext]_bootVars PROVE BootInv'
  OBVIOUS
<1>1. CASE BootNext
  BY <1>1, CountStep, PlaceStep, MarkStep DEF BootInv
<1>2. CASE UNCHANGED bootVars
  <2>1. /\ UNCHANGED <<memmap, step, i, max_addr, total_frames, bitmap_frames, bitmap_size, bitmap_at, usable_frames>>
        /\ UNCHANGED resultVars
    BY <1>2 DEF bootVars, countVars, placeVars
  <2>2. /\ AllUsable' = AllUsable /\ BitmapPages' = BitmapPages
        /\ Listed(memmap, UsableType, i)' = Listed(memmap, UsableType, i)
    BY <2>1, ListedKept DEF BitmapPages
  <2>3. MarkInv'
    BY <2>1, <2>2 DEF BootInv, MarkInv, Marked, resultVars
  <2>4. PlaceInv'
    BY <2>1, ZenonT(40) DEF BootInv, PlaceInv, HasRoom, Pages, FirstPage, EndPage, DivUp, Placed
  <2>5. Seen' = Seen
    BY <2>1 DEF Seen
  <2>6. CountInv'
    BY <2>1, <2>5, CountKept DEF BootInv, CountInv, countVars
  <2> QED
    BY <2>3, <2>4, <2>6 DEF BootInv
<1> QED
  BY <1>1, <1>2

\* The frames inside usable entries, and inside RAM, are the listed pages.
LEMMA InsideIs ==
  ASSUME BootInv, step # "count"
  PROVE  /\ UsablePages = AllUsable
         /\ Inside(is_ram_type) = Listed(memmap, RamTypes, Len(memmap) + 1)
<1> DEFINE n == Len(memmap) + 1
           R == Listed(memmap, RamTypes, n)
<1>1. /\ memmap \in MemoryMaps /\ Len(memmap) \in Nat /\ n \in Nat
      /\ \A k : k \in 1 .. (n - 1) <=> k \in 1 .. Len(memmap)
  <2>1. memmap \in MemoryMaps
    BY DEF BootInv, CountInv
  <2>2. Len(memmap) \in Nat
    BY <2>1, MapFacts, ZenonT(40)
  <2> QED
    BY <2>1, <2>2
<1>2. bitmap_frames = max_addr /\ max_addr \in Nat
  BY BitmapSize DEF BootInv
<1>3. AllUsable \subseteq 0 .. bitmap_frames /\ R \subseteq 0 .. bitmap_frames
  <2>1. Seen = n
    BY DEF Seen
  <2>2. AllUsable \subseteq 0 .. (max_addr - 1) /\ R \subseteq 0 .. (max_addr - 1)
    BY <2>1, Counted DEF BootInv, AllUsable
  <2> QED
    BY <1>2, <2>2
<1>4. \A k \in 1 .. Len(memmap) : Pages(memmap[k]) = Whole(memmap[k])
  BY <1>1, MapFacts, PagesIs, ZenonT(40)
<1>5. \A f : /\ f \in AllUsable <=> \E k \in 1 .. Len(memmap) : memmap[k].type \in UsableType /\ f \in Whole(memmap[k])
             /\ f \in R <=> \E k \in 1 .. Len(memmap) : memmap[k].type \in RamTypes /\ f \in Whole(memmap[k])
  <2>1. \A f : /\ f \in AllUsable <=> \E k \in 1 .. (n - 1) : memmap[k].type \in UsableType /\ f \in Pages(memmap[k])
               /\ f \in R <=> \E k \in 1 .. (n - 1) : memmap[k].type \in RamTypes /\ f \in Pages(memmap[k])
    BY <1>1, ListedHas, ZenonT(40) DEF AllUsable
  <2> HIDE DEF n, R
  <2> QED
    BY <1>1, <1>4, <2>1, ZenonT(40)
<1> HIDE DEF n, R
<1>6. 0 .. bitmap_frames \subseteq Nat
  BY <1>2
<1>7. UsablePages = {f \in 0 .. bitmap_frames : \E k \in 1 .. Len(memmap) : memmap[k].type \in UsableType /\ f \in Whole(memmap[k])}
  BY <1>6, ZenonT(40) DEF UsablePages, Inside, IsUsable, UsableType, Whole
<1>8. Inside(is_ram_type) = {f \in 0 .. bitmap_frames : \E k \in 1 .. Len(memmap) : memmap[k].type \in RamTypes /\ f \in Whole(memmap[k])}
  BY <1>6, ZenonT(40) DEF Inside, is_ram_type, RamTypes, Whole
<1>9. UsablePages = AllUsable
  BY <1>3, <1>5, <1>7, ZenonT(40)
<1>10. Inside(is_ram_type) = R
  BY <1>3, <1>5, <1>8, ZenonT(40)
<1> QED
  BY <1>9, <1>10 DEF R, n

\* The invariant says what pmm_init promises.
LEMMA InvBoot == BootInv => BootLeavesPmm
<1> SUFFICES ASSUME BootInv PROVE BootLeavesPmm
  OBVIOUS
<1>1. /\ Len(memmap) \in Nat /\ max_addr \in Nat /\ usable_frames \in 0 .. max_addr /\ total_frames \in 0 .. max_addr
      /\ i \in 1 .. (Len(memmap) + 1) /\ 1 \in 1 .. (Len(memmap) + 1) /\ Modulus \in Nat \ {0} /\ max_addr < Modulus
  BY Counted, MapsAssumption DEF BootInv, CountInv
<1>2. ASSUME step # "count"
      PROVE  /\ bitmap_size \in Nat /\ bitmap_frames = max_addr /\ bitmap_size * BitsPerPage >= bitmap_frames
             /\ UsablePages = AllUsable /\ Cardinality(AllUsable) = usable_frames
             /\ Inside(is_ram_type) = Listed(memmap, RamTypes, Len(memmap) + 1)
             /\ AllUsable \subseteq 0 .. (bitmap_frames - 1)
             /\ \A n \in 1 .. (Len(memmap) + 1) : Cardinality(Listed(memmap, UsableType, n)) \in 0 .. usable_frames
  BY <1>1, <1>2, BitmapSize, InsideIs, ListedPart DEF BootInv
<1>3. BitmapInUsable
  <2> SUFFICES ASSUME step \in Placed
               PROVE  BitmapPages \subseteq UsablePages /\ bitmap_size * BitsPerPage >= bitmap_frames
                      /\ bitmap_frames \notin UsablePages
    BY DEF BitmapInUsable, Placed
  <2>1. step # "count" /\ BitmapPages \subseteq AllUsable
    BY BitmapInside DEF BootInv, Placed
  <2> QED
    BY <1>1, <1>2, <2>1
<1>4. EstablishesPmmInit
  <2> SUFFICES ASSUME step = "done"
               PROVE  EstablishesPmmInit
    BY DEF EstablishesPmmInit
  <2>1. UsablePages = AllUsable /\ Cardinality(AllUsable) = usable_frames
    BY <1>2
  <2>2. /\ boot_used = ((0 .. (bitmap_frames - 1)) \ AllUsable) \cup {0} \cup BitmapPages
        /\ bitmap_size < usable_frames =>
             /\ boot_free = (usable_frames - 1) - Cardinality(BitmapPages \ {0})
             /\ boot_taken = usable_frames - boot_free
    BY DEF BootInv, MarkInv
  <2> QED
    BY <2>1, <2>2, ZenonT(40) DEF EstablishesPmmInit
<1>5. TotalsRight
  <2> SUFFICES ASSUME step # "count" PROVE TotalsRight
    BY DEF TotalsRight
  <2>1. total_frames = Cardinality(Listed(memmap, RamTypes, Len(memmap) + 1))
    BY DEF BootInv, CountInv, Seen
  <2> QED
    BY <1>2, <2>1 DEF TotalsRight
<1>6. FailsSafe
  <2> SUFFICES ASSUME step = "failed" PROVE FailsSafe
    BY DEF FailsSafe
  <2>1. boot_free = 0
    BY DEF BootInv, MarkInv, Marked
  <2>2. \A k \in 1 .. (i - 1) : memmap[k].type = "USABLE" => Cardinality(Pages(memmap[k])) < bitmap_size
    BY DEF BootInv, PlaceInv
  <2>3. i = Len(memmap) + 1
    BY DEF BootInv, PlaceInv
  <2>4. \A k \in 1 .. Len(memmap) : k \in 1 .. (i - 1)
    BY <1>1, <2>3
  <2> QED
    BY <2>1, <2>2, <2>4, ZenonT(40) DEF FailsSafe, IsUsable
<1>7. BootTypeOK
  <2>1. bitmap_frames \in Nat /\ bitmap_size \in Nat
    BY <1>1, <1>2 DEF BootInv, PlaceInv
  <2>2. bitmap_at \in Nat \cup {-1}
    <3>1. CASE step \in Placed
      BY <3>1, BitmapInside DEF BootInv
    <3>2. CASE step \notin Placed
      BY <3>2 DEF BootInv, PlaceInv
    <3> QED
      BY <3>1, <3>2
  <2>3. step \in {"count", "place", "fill", "free", "protect", "done", "failed"}
    BY DEF BootInv, CountInv
  <2>4. boot_used \subseteq Nat /\ boot_free \in 0 .. (Modulus - 1) /\ boot_taken \in 0 .. (Modulus - 1)
    <3>1. CASE step \in {"count", "place", "fill", "failed"}
      BY <1>1, <3>1 DEF BootInv, MarkInv, Marked
    <3>2. CASE step = "free"
      <4>1. Cardinality(Listed(memmap, UsableType, i)) \in 0 .. usable_frames
        BY <1>1, <1>2, <3>2
      <4> QED
        BY <1>1, <2>1, <3>2, <4>1 DEF BootInv, MarkInv, Marked
    <3>3. CASE step = "protect"
      BY <1>1, <2>1, <3>3 DEF BootInv, MarkInv, Marked
    <3>4. CASE step = "done"
      <4>1. BitmapPages \subseteq Nat
        BY <1>2, <2>1, <3>4, BitmapInside DEF BootInv, Placed
      <4>2. /\ boot_used = ((0 .. (bitmap_frames - 1)) \ AllUsable) \cup {0} \cup BitmapPages
            /\ boot_free \in 0 .. (Modulus - 1) /\ boot_taken \in 0 .. (Modulus - 1)
        BY <3>4 DEF BootInv, MarkInv
      <4>3. 0 .. (bitmap_frames - 1) \subseteq Nat /\ {0} \subseteq Nat
        BY <2>1
      <4> QED
        BY <4>1, <4>2, <4>3, ZenonT(40)
    <3> QED
      BY <2>3, <3>1, <3>2, <3>3, <3>4
  <2> QED
    BY <1>1, <2>1, <2>2, <2>3, <2>4 DEF BootTypeOK
<1> QED
  BY <1>3, <1>4, <1>5, <1>6, <1>7 DEF BootLeavesPmm

\* For every memory map in which RAM is listed once, and every size of pages and
\* of memory, pmm_init leaves the bits and counters that the allocator starts
\* from, with the bitmap inside usable memory and without a wrapped counter; the
\* totals are right, and without a place for the bitmap nothing is handed out.
THEOREM BootLeavesPmmAlways == BootSpec => []BootLeavesPmm
BY InitBoot, StepBoot, InvBoot, PTL DEF BootSpec
-----------------------------------------------------------------------------
(* The allocator. *)

USE FramesAssumption, UsableAssumption, RoomAssumption, CallsAssumption

\* The run the loop has counted: aligned, clear, inside the bitmap, and ending
\* just before the frame it looks at next.  The last frame is followed by frame 0,
\* whose bit is always set.
RunInv ==
  pc = "scan" /\ run_length > 0 =>
    /\ run_start # 0
    /\ run_start % req.align = 0
    /\ run_start + run_length <= NFrames
    /\ BlockAt(run_start, run_length) \cap used = {}
    /\ \/ frame = run_start + run_length
       \/ frame = 0 /\ run_start + run_length = NFrames

\* What the loop has ruled out.  It looks at the frames from the hint to the end,
\* then at all frames from 0 on (Sweep), then again at those before the hint
\* (Swept).  During the sweep a fit that starts before the current frame is part
\* of the current run; after it there is none.
Sweep == (~wrapped /\ frame < hint) \/ (wrapped /\ frame >= hint)
Swept == wrapped /\ frame < hint
MissesNone ==
  pc = "scan" =>
    /\ Sweep => \A s \in Fits(req) : s < frame => run_length > 0 /\ run_start <= s
    /\ Swept => Fits(req) = {}

\* Inside the loop the early returns have not been taken and the run is short.
CallInv ==
  pc = "scan" => outcome = "pending" /\ ~TooMuch(req) /\ run_length < req.count

\* The inductive invariant.
IInv == /\ TypeOK
        /\ BlocksExclusive
        /\ CountersAgree
        /\ GrantedIsUsable
        /\ RefusedOnlyIfFull
        /\ CallInv
        /\ RunInv
        /\ MissesNone
-----------------------------------------------------------------------------
(* Frames and their numbers. *)

\* What the assumptions on the constants say of frames, pool and reserved frames.
LEMMA FrameFacts ==
  /\ 0 \in Frame /\ Frame \subseteq Nat /\ IsFiniteSet(Frame)
  /\ \A f \in Frame : f < NFrames
  /\ Pool \subseteq Usable /\ Pool \subseteq Frame /\ Reserved \subseteq Frame
  /\ 0 \notin Pool /\ 0 \in Reserved
<1>1. IsFiniteSet(Frame)
  BY FS_Interval DEF Frame
<1> QED
  BY <1>1 DEF Frame, Pool, Reserved

\* Finite sets of frames have natural cardinalities, bounded by their supersets'.
LEMMA Finite ==
  ASSUME NEW S \in SUBSET Frame
  PROVE  /\ IsFiniteSet(S) /\ Cardinality(S) \in Nat
         /\ \A T \in SUBSET S : Cardinality(T) <= Cardinality(S)
<1>1. IsFiniteSet(S)
  BY FS_Subset, FrameFacts, ZenonT(40)
<1> QED
  BY <1>1, FS_Subset, FS_CardinalityType

\* Taking a block out of a set of frames, or putting one back, changes its
\* cardinality by the size of the block.
LEMMA TakeOut ==
  ASSUME NEW S \in SUBSET Frame, NEW B \in SUBSET S
  PROVE  Cardinality(S \ B) = Cardinality(S) - Cardinality(B)
<1>1. S \cap B = B
  OBVIOUS
<1> QED
  BY <1>1, Finite, FS_Difference, ZenonT(40)

\* A block of n frames has n frames.
LEMMA BlockSize ==
  ASSUME NEW s \in Nat, NEW n \in Nat
  PROVE  Cardinality(BlockAt(s, n)) = n
<1>1. s \in Int /\ s + n - 1 \in Int
  OBVIOUS
<1> QED
  BY <1>1, FS_Interval DEF BlockAt

\* pmm_init leaves the counters right, up to the frame it miscounts.
LEMMA InitialCounters ==
  /\ InitialFree \in Nat
  /\ Cardinality(Usable) \in Nat
  /\ Cardinality(Usable) - InitialFree \in Nat
  /\ InitialFree = Cardinality(Pool) - Slack
<1> DEFINE B == Bitmap \ {0}
<1>1. /\ Cardinality(Usable) \in Nat /\ Cardinality(Bitmap) \in Nat
      /\ B \in SUBSET Frame /\ Cardinality(B) \in Nat /\ Cardinality(B) <= Cardinality(Bitmap)
  BY Finite
<1>2. InitialFree = Cardinality(Usable) - 1 - Cardinality(B) /\ InitialFree \in Nat
  BY <1>1 DEF InitialFree
<1>3. CASE 0 \in Usable
  <2>1. /\ Usable \ {0} \in SUBSET Frame /\ {0} \in SUBSET Usable
        /\ B \in SUBSET (Usable \ {0}) /\ Pool = (Usable \ {0}) \ B
    BY <1>3 DEF Pool, Reserved
  <2>2. Cardinality(Usable \ {0}) = Cardinality(Usable) - 1
    <3>1. Cardinality({0}) = 1
      BY FS_Singleton, ZenonT(40)
    <3>2. Usable \in SUBSET Frame
      OBVIOUS
    <3> QED
      BY <2>1, <3>1, <3>2, TakeOut
  <2>3. Cardinality(Pool) = Cardinality(Usable \ {0}) - Cardinality(B)
    BY <2>1, TakeOut
  <2> QED
    BY <1>1, <1>2, <1>3, <2>2, <2>3 DEF Slack
<1>4. CASE 0 \notin Usable
  <2>1. B \in SUBSET Usable /\ Pool = Usable \ B
    BY <1>4 DEF Pool, Reserved
  <2>2. Cardinality(Pool) = Cardinality(Usable) - Cardinality(B)
    BY <2>1, TakeOut
  <2> QED
    BY <1>1, <1>2, <1>4, <2>2 DEF Slack
<1> QED
  BY <1>3, <1>4

\* pmm_init establishes the invariant.
LEMMA InitIInv == Init => IInv
<1> SUFFICES ASSUME Init PROVE IInv
  OBVIOUS
<1> USE DEF Init, NULL
<1>1. TypeOK
  BY FrameFacts, InitialCounters, ZenonT(40) DEF TypeOK, Results
<1>2. BlocksExclusive
  BY DEF BlocksExclusive
<1>3. CountersAgree
  <2>1. Clear = Pool
    BY DEF Clear, Pool
  <2> QED
    BY <2>1, InitialCounters DEF CountersAgree
<1> QED
  BY <1>1, <1>2, <1>3
     DEF IInv, GrantedIsUsable, RefusedOnlyIfFull, CallInv, RunInv, MissesNone
-----------------------------------------------------------------------------
(* One iteration of the scan loop. *)

\* The frame after the last is frame 0.
LEMMA NextFrameIs ==
  ASSUME TypeOK
  PROVE  NextFrame = IF frame + 1 = NFrames THEN 0 ELSE frame + 1
<1>1. frame \in Nat /\ frame < NFrames /\ NFrames \in Nat \ {0}
  BY DEF TypeOK, Frame
<1> QED
  BY <1>1 DEF NextFrame

\* The bit of frame 0 stays set.
LEMMA ZeroIsUsed == BlocksExclusive => 0 \in used
BY FrameFacts DEF BlocksExclusive

\* The run after looking at a frame ends with that frame and is clear, aligned
\* and not at frame 0; it is never longer than requested.
LEMMA Look ==
  ASSUME IInv, pc = "scan"
  PROVE  /\ NewLength \in Nat /\ NewLength <= req.count /\ NewStart \in Frame
         /\ NewLength > 0 =>
              /\ NewStart # 0
              /\ NewStart % req.align = 0
              /\ NewStart + NewLength = frame + 1
              /\ BlockAt(NewStart, NewLength) \cap used = {}
<1> USE DEF IInv
<1>1. /\ run_length \in Nat /\ run_start \in Nat /\ frame \in Nat /\ run_start \in Frame
      /\ frame \in Frame /\ req.count \in Nat /\ run_length < req.count
  BY FrameFacts DEF TypeOK, CallInv
<1>2. CASE frame \in used
  BY <1>1, <1>2 DEF NewLength, NewStart
<1>3. CASE frame \notin used
  <2>1. frame # 0
    BY <1>3, ZeroIsUsed
  <2>2. CASE StartsRun
    <3>1. NewLength = 1 /\ NewStart = frame
      BY <1>3, <2>2 DEF NewLength, NewStart
    <3>2. BlockAt(frame, 1) = {frame}
      BY <1>1 DEF BlockAt
    <3> QED
      BY <1>1, <1>3, <2>1, <2>2, <3>1, <3>2 DEF StartsRun
  <2>3. CASE ~StartsRun /\ run_length > 0
    <3>1. NewLength = run_length + 1 /\ NewStart = run_start
      BY <1>3, <2>3 DEF NewLength, NewStart
    <3>2. /\ run_start # 0 /\ run_start % req.align = 0
          /\ BlockAt(run_start, run_length) \cap used = {}
          /\ frame = run_start + run_length
      BY <2>1, <2>3 DEF RunInv
    <3>3. BlockAt(run_start, run_length + 1) = BlockAt(run_start, run_length) \cup {frame}
      BY <1>1, <3>2 DEF BlockAt
    <3> QED
      BY <1>1, <1>3, <3>1, <3>2, <3>3
  <2>4. CASE ~StartsRun /\ ~(run_length > 0)
    BY <1>1, <1>3, <2>4 DEF NewLength, NewStart
  <2> QED
    BY <2>2, <2>3, <2>4
<1> QED
  BY <1>2, <1>3

\* During the sweep, a fit that starts at or before the frame just looked at is
\* part of the run that ends there.
LEMMA LookMissesNone ==
  ASSUME IInv, pc = "scan", Sweep, NEW s \in Fits(req), s <= frame
  PROVE  NewLength > 0 /\ NewStart <= s
<1> USE DEF IInv
<1>1. /\ run_length \in Nat /\ run_start \in Nat /\ frame \in Nat
      /\ req.count \in Nat /\ run_length < req.count /\ req.count > 0
  BY FrameFacts DEF TypeOK, CallInv, TooMuch
<1>2. s \in Nat /\ s % req.align = 0 /\ BlockAt(s, req.count) \cap used = {}
  BY FrameFacts DEF Fits, Clear
<1>3. CASE s = frame
  <2>1. frame \in BlockAt(s, req.count)
    BY <1>1, <1>3 DEF BlockAt
  <2>2. frame \notin used /\ frame # 0
    BY <1>2, <2>1, ZeroIsUsed
  <2>3. run_length > 0 => run_start <= frame
    BY <1>1, <2>2 DEF RunInv
  <2> QED
    BY <1>1, <1>2, <1>3, <2>2, <2>3 DEF NewLength, NewStart, StartsRun
<1>4. CASE s < frame
  <2>1. run_length > 0 /\ run_start <= s
    BY <1>4 DEF MissesNone
  <2>2. frame = run_start + run_length
    BY <1>2, <1>4, <2>1 DEF RunInv
  <2>3. frame \in BlockAt(s, req.count)
    BY <1>1, <1>2, <1>4, <2>1, <2>2 DEF BlockAt
  <2>4. frame \notin used
    BY <1>2, <2>3
  <2> QED
    BY <1>1, <2>1, <2>4 DEF NewLength, NewStart, StartsRun
<1> QED
  BY <1>1, <1>2, <1>3, <1>4

\* When the sweep reaches the last frame without success, there is no fit.
LEMMA SweepEnds ==
  ASSUME IInv, pc = "scan", Sweep, NewLength # req.count, frame + 1 = NFrames
  PROVE  Fits(req) = {}
<1> SUFFICES ASSUME NEW s \in Fits(req) PROVE FALSE
  OBVIOUS
<1>1. s \in Nat /\ s < NFrames /\ frame \in Nat /\ req.count \in Nat \ {0}
  BY FrameFacts DEF Fits, IInv, TypeOK, CallInv, TooMuch
<1>2. NewLength > 0 /\ NewStart <= s
  BY <1>1, LookMissesNone
<1>3. NewStart + NewLength = NFrames /\ NewLength < req.count
  BY <1>2, Look, <1>1
<1>4. NewStart \in Nat /\ NewLength \in Nat
  BY Look, FrameFacts, ZenonT(40)
<1>5. NFrames \in BlockAt(s, req.count)
  BY <1>1, <1>2, <1>3, <1>4 DEF BlockAt
<1>6. NFrames \in Frame
  BY <1>5 DEF Fits, Clear
<1> QED
  BY <1>6, FrameFacts-----------------------------------------------------------------------------
(* Every step preserves the invariant. *)

\* A step that leaves bitmap, counters and blocks alone keeps what is said of them.
LEMMA FrameRule ==
  ASSUME IInv, UNCHANGED <<used, free_frames, used_frames, held>>
  PROVE  BlocksExclusive' /\ CountersAgree'
BY DEF IInv, BlocksExclusive, CountersAgree, Clear

\* A new request is only recorded.
LEMMA CallStep ==
  ASSUME IInv, NEW c \in Counts, NEW a \in Aligns, Call([count |-> c, align |-> a])
  PROVE  IInv'
<1> USE DEF Call, scanVars
<1>1. TypeOK'
  BY DEF IInv, TypeOK, Results
<1>2. BlocksExclusive' /\ CountersAgree'
  BY FrameRule
<1> QED
  BY <1>1, <1>2 DEF IInv, GrantedIsUsable, RefusedOnlyIfFull, CallInv, RunInv, MissesNone

\* An early return refuses what TooMuch says is too much.
LEMMA ReturnEarlyStep ==
  ASSUME IInv, ReturnEarly
  PROVE  IInv'
<1> USE DEF ReturnEarly, scanVars
<1>1. TypeOK'
  BY FrameFacts DEF IInv, TypeOK, Results, NULL
<1>2. BlocksExclusive' /\ CountersAgree'
  BY FrameRule
<1> QED
  BY <1>1, <1>2
     DEF IInv, GrantedIsUsable, RefusedOnlyIfFull, TooMuch, CallInv, RunInv, MissesNone

\* The loop starts at the hint with an empty run; a hint of 0 starts nothing
\* early, since the first look at frame 0 is then already part of no sweep.
LEMMA StartScanStep ==
  ASSUME IInv, StartScan
  PROVE  IInv'
<1> USE DEF StartScan
<1>1. TypeOK'
  BY FrameFacts, ZenonT(40) DEF IInv, TypeOK
<1>2. BlocksExclusive' /\ CountersAgree'
  BY FrameRule
<1>3. hint \in Nat
  BY FrameFacts DEF IInv, TypeOK
<1>4. CallInv'
  <2>1. req.count \in Nat
    BY DEF IInv, TypeOK
  <2> QED
    BY <2>1 DEF CallInv, TooMuch
<1>5. MissesNone'
  BY <1>3 DEF MissesNone, Sweep, Swept
<1> QED
  BY <1>1, <1>2, <1>4, <1>5 DEF IInv, GrantedIsUsable, RefusedOnlyIfFull, RunInv

\* A run of the requested length is a block of clear frames inside the pool.
LEMMA FoundBlock ==
  ASSUME IInv, ScanFound
  PROVE  /\ req.count \in Nat \ {0} /\ req.align # 0
         /\ NewStart \in Pool /\ NewStart \in Nat \ {0} /\ NewStart % req.align = 0
         /\ NewStart \in BlockAt(NewStart, req.count)
         /\ BlockAt(NewStart, req.count) \subseteq Clear
         /\ Cardinality(BlockAt(NewStart, req.count)) = req.count
<1>1. req.count \in Nat \ {0} /\ req.align # 0 /\ frame \in Nat /\ frame < NFrames
  BY FrameFacts DEF IInv, TypeOK, CallInv, TooMuch, ScanFound
<1>2. /\ NewStart \in Frame /\ NewStart # 0 /\ NewStart % req.align = 0
      /\ NewStart + req.count = frame + 1
      /\ BlockAt(NewStart, req.count) \cap used = {}
  BY <1>1, Look DEF ScanFound
<1>3. NewStart \in Nat
  BY <1>2, FrameFacts
<1>4. BlockAt(NewStart, req.count) \subseteq Frame
  BY <1>1, <1>2, <1>3 DEF BlockAt, Frame
<1>5. NewStart \in BlockAt(NewStart, req.count)
  BY <1>1, <1>3 DEF BlockAt
<1>6. Clear \subseteq Pool
  BY DEF IInv, BlocksExclusive, Clear, Pool
<1> QED
  BY <1>1, <1>2, <1>3, <1>4, <1>5, <1>6, BlockSize DEF Clear

\* Marking and returning the block: it is disjoint from every other, and the
\* counters move by its size.
LEMMA ScanFoundStep ==
  ASSUME IInv, ScanFound
  PROVE  IInv'
<1> DEFINE b == BlockAt(NewStart, req.count)
<1>1. /\ req.count \in Nat \ {0} /\ NewStart \in Pool /\ NewStart \in Nat
      /\ NewStart % req.align = 0 /\ b \subseteq Clear /\ Cardinality(b) = req.count
      /\ NewStart \in b /\ NewStart # 0
  BY FoundBlock
<1>2. /\ used' = used \cup b /\ held' = held \cup {b}
      /\ free_frames' = free_frames - req.count /\ used_frames' = used_frames + req.count
      /\ ret' = NewStart /\ req' = req /\ outcome' = "granted" /\ pc' = "idle"
      /\ hint' = (NewStart + req.count) % NFrames
      /\ frame' = 0 /\ run_start' = 0 /\ run_length' = 0 /\ wrapped' = FALSE
  BY DEF ScanFound, LeaveScan, MarkBlock, SetHint
<1>3. Clear \subseteq Pool /\ Clear' = Clear \ b /\ b \subseteq Pool
  BY <1>1, <1>2 DEF IInv, BlocksExclusive, Clear, Pool
<1>4. BlocksExclusive'
  <2>1. \A c \in held : c \cap b = {}
    BY <1>1 DEF IInv, BlocksExclusive, Clear
  <2>2. \A c, d \in held' : c # d => c \cap d = {}
    BY <1>2, <2>1 DEF IInv, BlocksExclusive
  <2>3. \A c \in held' : c # {} /\ c \subseteq Pool
    BY <1>1, <1>2, <1>3 DEF IInv, BlocksExclusive
  <2>4. used' = Reserved \cup UNION held'
    BY <1>2 DEF IInv, BlocksExclusive
  <2> QED
    BY <2>2, <2>3, <2>4 DEF BlocksExclusive
<1>5. CountersAgree'
  <2>1. Cardinality(Clear') = Cardinality(Clear) - req.count
    <3>1. Clear \in SUBSET Frame /\ b \in SUBSET Clear
      BY <1>1 DEF Clear
    <3> QED
      BY <1>1, <1>3, <3>1, TakeOut
  <2>2. Cardinality(Clear) \in Nat
    BY Finite DEF Clear
  <2>3. free_frames' = Cardinality(Clear') - Slack
    BY <1>1, <1>2, <2>1, <2>2 DEF IInv, CountersAgree, TypeOK, Slack
  <2>4. free_frames' + used_frames' = Cardinality(Usable)
    BY <1>1, <1>2 DEF IInv, CountersAgree, TypeOK
  <2> QED
    BY <2>3, <2>4 DEF CountersAgree
<1>6. TypeOK'
  <2>1. free_frames' \in Nat /\ used_frames' \in Nat
    BY <1>1, <1>2 DEF IInv, TypeOK, CallInv, TooMuch, ScanFound
  <2>2. hint' \in Frame
    BY <1>1, <1>2 DEF Frame
  <2>3. used' \subseteq Frame /\ held' \subseteq SUBSET Frame /\ ret' \in Frame
    <3>1. Pool \subseteq Frame
      BY FrameFacts
    <3>2. b \subseteq Frame
      BY <1>3, <3>1
    <3>3. used \subseteq Frame /\ held \subseteq SUBSET Frame
      BY DEF IInv, TypeOK
    <3> HIDE DEF b
    <3> QED
      BY <1>1, <1>2, <3>1, <3>2, <3>3
  <2> QED
    BY <1>2, <2>1, <2>2, <2>3, FrameFacts, ZenonT(40) DEF IInv, TypeOK, Results
<1>7. GrantedIsUsable'
  BY <1>1, <1>2 DEF GrantedIsUsable, NULL
<1> QED
  BY <1>2, <1>4, <1>5, <1>6, <1>7
     DEF IInv, RefusedOnlyIfFull, CallInv, RunInv, MissesNone
\* Advancing keeps the run and rules out what has been looked at.
LEMMA ScanAdvanceStep ==
  ASSUME IInv, ScanAdvance
  PROVE  IInv'
<1>1. /\ pc = "scan" /\ pc' = "scan" /\ NewLength # req.count
      /\ ~(NextFrame = hint /\ wrapped)
      /\ run_start' = NewStart /\ run_length' = NewLength /\ frame' = NextFrame
      /\ wrapped' = (wrapped \/ NextFrame = hint)
      /\ UNCHANGED <<used, free_frames, used_frames, hint, req, held, ret, outcome>>
  BY DEF ScanAdvance, GiveUp
<1>2. /\ NextFrame = IF frame + 1 = NFrames THEN 0 ELSE frame + 1
      /\ frame \in Nat /\ frame < NFrames /\ hint \in Nat /\ hint < NFrames
      /\ req.count \in Nat
  BY NextFrameIs, FrameFacts DEF IInv, TypeOK
<1>3. /\ NewLength \in Nat /\ NewLength <= req.count /\ NewStart \in Frame
      /\ NewLength > 0 =>
           /\ NewStart # 0 /\ NewStart % req.align = 0 /\ NewStart + NewLength = frame + 1
           /\ BlockAt(NewStart, NewLength) \cap used = {}
  BY <1>1, Look
<1>4. BlocksExclusive' /\ CountersAgree'
  BY <1>1, FrameRule
<1>5. TypeOK'
  <2>1. NextFrame \in Frame
    BY <1>2 DEF Frame
  <2>2. wrapped' \in BOOLEAN
    BY <1>1
  <2> QED
    BY <1>1, <1>3, <2>1, <2>2 DEF IInv, TypeOK
<1>6. CallInv'
  BY <1>1, <1>2, <1>3 DEF IInv, CallInv, TooMuch
<1>7. RunInv'
  BY <1>1, <1>2, <1>3 DEF RunInv, BlockAt
<1>8. MissesNone'
  <2>0. /\ wrapped' => wrapped \/ NextFrame = hint
        /\ wrapped => wrapped'
    <3> HIDE DEF NextFrame
    <3> QED
      BY <1>1, ZenonT(40)
  <2>1. Fits(req)' = Fits(req)
    BY <1>1 DEF Fits, Clear
  <2>2. ASSUME Sweep', NEW s \in Fits(req), s < frame'
        PROVE  NewLength > 0 /\ NewStart <= s
    <3>1. s \in Nat
      BY FrameFacts DEF Fits
    <3>2. frame' = frame + 1 /\ s <= frame
      BY <1>1, <1>2, <2>2, <3>1
    <3>3. Sweep
      <4>1. \/ ~wrapped' /\ frame + 1 < hint
            \/ wrapped' /\ frame + 1 >= hint
        BY <1>1, <2>2, <3>2 DEF Sweep
      <4>2. frame + 1 = NextFrame
        BY <1>1, <3>2
      <4>3. CASE ~wrapped' /\ frame + 1 < hint
        BY <1>2, <2>0, <4>3 DEF Sweep
      <4>4. CASE wrapped' /\ frame + 1 >= hint /\ wrapped
        BY <1>1, <1>2, <4>2, <4>4 DEF Sweep
      <4>5. CASE wrapped' /\ ~wrapped
        BY <1>2, <2>0, <4>2, <4>5 DEF Sweep
      <4> QED
        BY <4>1, <4>3, <4>4, <4>5
    <3> QED
      BY <1>1, <3>2, <3>3, LookMissesNone
  <2>3. ASSUME Swept' PROVE Fits(req) = {}
    <3>1. wrapped /\ frame' < hint
      BY <1>1, <1>2, <2>0, <2>3 DEF Swept
    <3>2. CASE frame + 1 = NFrames
      <4>1. Sweep
        BY <1>2, <3>1, <3>2 DEF Sweep
      <4> QED
        BY <1>1, <3>2, <4>1, SweepEnds
    <3>3. CASE frame + 1 # NFrames
      <4>1. Swept
        BY <1>1, <1>2, <3>1, <3>3 DEF Swept
      <4> QED
        BY <1>1, <4>1 DEF IInv, MissesNone
    <3> QED
      BY <3>2, <3>3
  <2> QED
    BY <1>1, <2>1, <2>2, <2>3 DEF MissesNone
<1>9. GrantedIsUsable' /\ RefusedOnlyIfFull'
  BY <1>1 DEF IInv, CallInv, GrantedIsUsable, RefusedOnlyIfFull
<1> QED
  BY <1>4, <1>5, <1>6, <1>7, <1>8, <1>9 DEF IInv

\* Where the loop gives up there is no fit: the sweep is over.
LEMMA GivesUpRightly ==
  ASSUME IInv, ScanFail
  PROVE  Fits(req) = {}
<1>1. pc = "scan" /\ NewLength # req.count /\ NextFrame = hint /\ wrapped
  BY DEF ScanFail, GiveUp
<1>2. /\ NextFrame = IF frame + 1 = NFrames THEN 0 ELSE frame + 1
      /\ frame \in Nat /\ hint \in Nat
  BY NextFrameIs, FrameFacts DEF IInv, TypeOK
<1>3. CASE frame + 1 = NFrames
  <2>1. Sweep
    BY <1>1, <1>2, <1>3 DEF Sweep
  <2> QED
    BY <1>1, <1>3, <2>1, SweepEnds
<1>4. CASE frame + 1 # NFrames
  <2>1. Swept
    BY <1>1, <1>2, <1>4 DEF Swept
  <2> QED
    BY <1>1, <2>1 DEF IInv, MissesNone
<1> QED
  BY <1>3, <1>4

\* Giving up changes nothing but the answer.
LEMMA ScanFailStep ==
  ASSUME IInv, ScanFail
  PROVE  IInv'
<1>1. /\ pc' = "idle" /\ ret' = NULL /\ outcome' = "refused"
      /\ frame' = 0 /\ run_start' = 0 /\ run_length' = 0 /\ wrapped' = FALSE
      /\ UNCHANGED <<used, free_frames, used_frames, hint, req, held>>
  BY DEF ScanFail, LeaveScan
<1>2. TypeOK'
  BY <1>1, FrameFacts, ZenonT(40) DEF IInv, TypeOK, Results, NULL
<1>3. BlocksExclusive' /\ CountersAgree'
  BY <1>1, FrameRule
<1>4. RefusedOnlyIfFull'
  <2>1. Fits(req)' = Fits(req)
    BY <1>1 DEF Fits, Clear
  <2> QED
    BY <2>1, GivesUpRightly DEF RefusedOnlyIfFull
<1> QED
  BY <1>1, <1>2, <1>3, <1>4 DEF IInv, GrantedIsUsable, CallInv, RunInv, MissesNone

\* Freeing a held block clears exactly its bits and moves both counters back.
LEMMA FreeStep ==
  ASSUME IInv, NEW b \in held, pmm_free_frames(b)
  PROVE  IInv'
<1>1. b \in SUBSET Frame /\ b \subseteq Pool /\ b \subseteq used
  BY FrameFacts DEF IInv, BlocksExclusive, TypeOK
<1>2. Freed(b) = b
  BY <1>1, FrameFacts, ZenonT(40) DEF Freed
<1>3. /\ pc = "idle" /\ used' = used \ b /\ held' = held \ {b} /\ outcome' = "none"
      /\ free_frames' = free_frames + Cardinality(b)
      /\ used_frames' = used_frames - Cardinality(b)
      /\ UNCHANGED <<hint, pc, req, frame, run_start, run_length, wrapped, ret>>
  BY <1>2 DEF pmm_free_frames, scanVars
<1>4. BlocksExclusive'
  <2>1. UNION held' = (UNION held) \ b
    BY <1>3 DEF IInv, BlocksExclusive
  <2>2. Reserved \ b = Reserved
    BY <1>1 DEF Pool
  <2> QED
    BY <1>3, <2>1, <2>2 DEF IInv, BlocksExclusive
<1>5. Clear' = Clear \cup b /\ Clear = Clear' \ b /\ Clear' \subseteq Pool
  BY <1>1, <1>3 DEF Clear, Pool, IInv, BlocksExclusive
<1>6. Cardinality(Clear) = Cardinality(Clear') - Cardinality(b)
  <2>1. Clear' \in SUBSET Frame /\ b \in SUBSET (Clear')
    BY <1>5 DEF Clear
  <2>2. Cardinality(Clear' \ b) = Cardinality(Clear') - Cardinality(b)
    BY <2>1, TakeOut
  <2> QED
    BY <1>5, <2>2
<1>7. /\ Cardinality(Clear) \in Nat /\ Cardinality(b) \in Nat
      /\ Cardinality(Clear') \in Nat /\ Cardinality(Usable) \in Nat
      /\ Cardinality(Clear') <= Cardinality(Usable)
  <2>1. Clear \in SUBSET Frame /\ Clear' \in SUBSET Usable /\ Usable \in SUBSET Frame
    BY <1>5, FrameFacts, ZenonT(40) DEF Clear
  <2>2. Clear' \in SUBSET Frame
    BY <2>1
  <2> QED
    BY <1>1, <2>1, <2>2, Finite
<1>8. CountersAgree'
  BY <1>3, <1>6, <1>7 DEF IInv, CountersAgree, TypeOK, Slack
<1>9. TypeOK'
  <2>1. free_frames' \in Nat /\ used_frames' \in Nat
    <3>1. free_frames \in Nat /\ used_frames \in Nat
      BY DEF IInv, TypeOK
    <3>2. free_frames' = Cardinality(Clear') - Slack /\ free_frames' + used_frames' = Cardinality(Usable)
      BY <1>8 DEF CountersAgree, Slack
    <3>3. Slack \in {0, 1}
      BY DEF Slack
    <3> QED
      BY <1>3, <1>7, <3>1, <3>2, <3>3
  <2>2. used' \subseteq Frame /\ held' \subseteq SUBSET Frame
    BY <1>3 DEF IInv, TypeOK
  <2> QED
    BY <1>3, <2>1, <2>2 DEF IInv, TypeOK, Results
<1> QED
  BY <1>3, <1>4, <1>8, <1>9, ZenonT(40)
     DEF IInv, GrantedIsUsable, RefusedOnlyIfFull, CallInv, RunInv, MissesNone

\* A step that changes no variable preserves the invariant.
LEMMA StutterStep ==
  ASSUME IInv, UNCHANGED vars
  PROVE  IInv'
<1> USE DEF vars, scanVars
<1>1. TypeOK' /\ CallInv' /\ RunInv'
  BY DEF IInv, TypeOK, CallInv, TooMuch, RunInv, BlockAt
<1>2. BlocksExclusive' /\ CountersAgree'
  BY FrameRule
<1>3. GrantedIsUsable' /\ RefusedOnlyIfFull' /\ MissesNone'
  BY ZenonT(40) DEF IInv, GrantedIsUsable, RefusedOnlyIfFull, TooMuch, Fits, Clear, MissesNone,
         Sweep, Swept, BlockAt
<1> QED
  BY <1>1, <1>2, <1>3 DEF IInv
-----------------------------------------------------------------------------
(* The theorems. *)

\* The inductive invariant holds for every memory map and every history of
\* allocations and frees.
THEOREM Invariance == Spec => []IInv
<1>1. ASSUME IInv, [Next]_vars PROVE IInv'
  <2>1. CASE \E c \in Counts, a \in Aligns : Call([count |-> c, align |-> a])
    BY <1>1, <2>1, CallStep
  <2>2. CASE ReturnEarly
    BY <1>1, <2>2, ReturnEarlyStep
  <2>3. CASE StartScan
    BY <1>1, <2>3, StartScanStep
  <2>4. CASE ScanFound
    BY <1>1, <2>4, ScanFoundStep
  <2>5. CASE ScanAdvance
    BY <1>1, <2>5, ScanAdvanceStep
  <2>6. CASE ScanFail
    BY <1>1, <2>6, ScanFailStep
  <2>7. CASE \E b \in held : pmm_free_frames(b)
    BY <1>1, <2>7, FreeStep
  <2>8. CASE UNCHANGED vars
    BY <1>1, <2>8, StutterStep
  <2> QED
    BY <1>1, <2>1, <2>2, <2>3, <2>4, <2>5, <2>6, <2>7, <2>8 DEF Next
<1> QED
  BY InitIInv, <1>1, PTL DEF Spec

\* The counters of pmm.c never wrap and its indices stay inside the bitmap.
THEOREM TypeCorrect == Spec => []TypeOK
<1>1. IInv => TypeOK
  BY DEF IInv
<1> QED
  BY <1>1, Invariance, PTL

\* No two blocks share a frame, none reaches outside the pool, no frame leaks.
THEOREM NeverTwice == Spec => []BlocksExclusive
<1>1. IInv => BlocksExclusive
  BY DEF IInv
<1> QED
  BY <1>1, Invariance, PTL

\* The counters agree with the bitmap, up to the frame pmm_init miscounts.
THEOREM CountersExact == Spec => []CountersAgree
<1>1. IInv => CountersAgree
  BY DEF IInv
<1> QED
  BY <1>1, Invariance, PTL

\* What is granted is aligned, not NULL, and held by its caller.
THEOREM GrantsGood == Spec => []GrantedIsUsable
<1>1. IInv => GrantedIsUsable
  BY DEF IInv
<1> QED
  BY <1>1, Invariance, PTL

\* The two-round next-fit scan never misses a run that would fit.
THEOREM RefusesRightly == Spec => []RefusedOnlyIfFull
<1>1. IInv => RefusedOnlyIfFull
  BY DEF IInv
<1> QED
  BY <1>1, Invariance, PTL
\* The frames the abstract allocator calls vacant are those with a clear bit.
LEMMA VacantIsClear == IInv => FA!Vacant = Clear
BY DEF IInv, BlocksExclusive, FA!Vacant, Pool, Clear

\* FA's Cardinality is the same operator.
LEMMA SameCardinality ==
  ASSUME NEW S
  PROVE  FA!Cardinality(S) = Cardinality(S)
BY DEF FA!Cardinality, Cardinality

\* The bitmap and its scan loop implement the abstract allocator: the iterations
\* of the loop are invisible, and the one that returns is the grant or refusal.
THEOREM RefinesFrameAllocator == Spec => ImplementsFrameAllocator
<1>1. Init => FA!Init
  BY DEF Init, FA!Init
<1>2. ASSUME IInv, [Next]_vars PROVE [FA!Next]_(FA!vars)
  <2> USE <1>2
  <2>1. CASE \E c \in Counts, a \in Aligns : Call([count |-> c, align |-> a])
    <3>1. PICK c \in Counts, a \in Aligns : Call([count |-> c, align |-> a])
      BY <2>1
    <3>2. FA!Ask([count |-> c, align |-> a])
      BY <3>1 DEF Call, FA!Ask
    <3> QED
      BY <3>2 DEF FA!Next
  <2>2. CASE ReturnEarly
    <3>1. FA!Unanswerable(req)
      <4>1. free_frames = Cardinality(FA!Vacant) - Slack /\ free_frames \in Nat
        BY VacantIsClear DEF IInv, CountersAgree, TypeOK
      <4>2. req.count \in Nat
        BY DEF IInv, TypeOK
      <4> QED
        BY <2>2, <4>1, <4>2, SameCardinality DEF ReturnEarly, TooMuch, FA!Unanswerable
    <3>2. FA!Refuse
      BY <2>2, <3>1 DEF ReturnEarly, FA!Refuse
    <3> QED
      BY <3>2 DEF FA!Next
  <2>3. CASE StartScan \/ ScanAdvance
    BY <2>3 DEF StartScan, ScanAdvance, FA!vars
  <2>4. CASE ScanFound
    <3> DEFINE b == BlockAt(NewStart, req.count)
    <3>1. /\ req.count \in Nat \ {0} /\ req.align # 0 /\ NewStart \in Pool
          /\ NewStart % req.align = 0 /\ b \subseteq Clear
      BY <2>4, FoundBlock
    <3>2. req.align > 0 /\ req.count > 0 /\ outcome = "pending"
      BY <2>4, <3>1 DEF IInv, TypeOK, CallInv, ScanFound
    <3>3. FA!Answers(b, req)
      BY <3>1, VacantIsClear DEF FA!Answers, BlockAt
    <3>4. b \in SUBSET Pool
      BY <3>1, VacantIsClear DEF FA!Vacant
    <3>5. held' = held \cup {b} /\ outcome' = "granted" /\ req' = req
      BY <2>4 DEF ScanFound
    <3>6. FA!Grant
      BY <3>2, <3>3, <3>4, <3>5 DEF FA!Grant
    <3> QED
      BY <3>6 DEF FA!Next
  <2>5. CASE ScanFail
    <3>1. FA!Unanswerable(req)
      <4>1. Fits(req) = {}
        BY <2>5, GivesUpRightly
      <4> QED
        <5>1. ASSUME NEW s \in Pool, s % req.align = 0
              PROVE  ~(s .. (s + req.count - 1) \subseteq Clear)
          BY <4>1, <5>1, FrameFacts DEF Fits, BlockAt
        <5> QED
          BY <5>1, VacantIsClear DEF FA!Unanswerable
    <3>2. FA!Refuse
      BY <2>5, <3>1 DEF ScanFail, FA!Refuse, IInv, CallInv
    <3> QED
      BY <3>2 DEF FA!Next
  <2>6. CASE \E b \in held : pmm_free_frames(b)
    <3>1. PICK b \in held : pmm_free_frames(b)
      BY <2>6
    <3>2. FA!Release(b)
      BY <3>1 DEF pmm_free_frames, FA!Release
    <3> QED
      BY <3>2 DEF FA!Next
  <2>7. CASE UNCHANGED vars
    BY <2>7 DEF vars, FA!vars
  <2> QED
    BY <2>1, <2>2, <2>3, <2>4, <2>5, <2>6, <2>7 DEF Next
<1> QED
  BY <1>1, <1>2, Invariance, PTL DEF Spec, FA!Spec, ImplementsFrameAllocator
=============================================================================
