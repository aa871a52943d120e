----------------------------- MODULE VmmTables -----------------------------
(***************************************************************************)
(* What Vmm's walks and stores do to a tree of tables, for any size of the *)
(* tables, any set of pages and any number of frames: the facts that the   *)
(* inductive invariant in VmmProofs rests on.                              *)
(***************************************************************************)
EXTENDS Vmm, TLAPS

\* Time for a leaf, in seconds.
USE SMTT(40), ZenonT(40)

-----------------------------------------------------------------------------
(* Quotients and remainders.                                               *)

\* Division with remainder.
LEMMA DivMod ==
  ASSUME NEW v \in Nat, NEW d \in Nat \ {0}
  PROVE  v \div d \in Int /\ v % d \in 0 .. d - 1 /\ v = d * (v \div d) + (v % d)
OBVIOUS

\* A product of a positive number grows with the other factor.
LEMMA Product ==
  ASSUME NEW d \in Nat \ {0}, NEW a \in Int, NEW b \in Int, a < b
  PROVE  d * a + d <= d * b /\ d * a \in Int /\ d * b \in Int
<1>1. PICK e \in Nat : b = a + 1 + e
  <2>1. b - a - 1 \in Nat /\ b = a + 1 + (b - a - 1)
    OBVIOUS
  <2> QED
    BY <2>1
<1>2. d * b = d * a + d + d * e /\ d * e \in Nat /\ d * a \in Int
  BY <1>1
<1> QED
  BY <1>2

\* Quotient and remainder are unique.
LEMMA DivUnique ==
  ASSUME NEW v \in Nat, NEW d \in Nat \ {0}, NEW q \in Int, NEW r \in 0 .. d - 1, v = d * q + r
  PROVE  v \div d = q /\ v % d = r
<1> DEFINE a == v \div d
           b == v % d
<1>1. a \in Int /\ b \in 0 .. d - 1 /\ v = d * a + b
  BY DivMod
<1> HIDE DEF a, b
<1>2. d * a \in Int /\ d * q \in Int
  BY <1>1
<1>3. ~(a < q)
  <2> SUFFICES ASSUME a < q PROVE FALSE
    OBVIOUS
  <2>1. d * a + d <= d * q
    BY <1>1, Product
  <2> QED
    BY <1>1, <1>2, <2>1
<1>4. ~(q < a)
  <2> SUFFICES ASSUME q < a PROVE FALSE
    OBVIOUS
  <2>1. d * q + d <= d * a
    BY <1>1, Product
  <2> QED
    BY <1>1, <1>2, <2>1
<1>5. a = q
  BY <1>1, <1>3, <1>4
<1>6. b = r
  BY <1>1, <1>2, <1>5
<1> QED
  BY <1>5, <1>6 DEF a, b

\* A quotient of natural numbers is one.
LEMMA DivNat ==
  ASSUME NEW v \in Nat, NEW d \in Nat \ {0}
  PROVE  v \div d \in Nat
<1> DEFINE a == v \div d
           b == v % d
<1>1. a \in Int /\ b \in 0 .. d - 1 /\ v = d * a + b
  BY DivMod
<1> HIDE DEF a, b
<1>2. ~(a < 0)
  <2> SUFFICES ASSUME a < 0 PROVE FALSE
    OBVIOUS
  <2>1. d * a + d <= d * 0 /\ d * a \in Int
    BY <1>1, Product
  <2> QED
    BY <1>1, <2>1
<1> QED
  BY <1>1, <1>2 DEF a

\* Dividing twice.
LEMMA DivDiv ==
  ASSUME NEW v \in Nat, NEW a \in Nat \ {0}, NEW b \in Nat \ {0}
  PROVE  (v \div a) \div b = v \div (a * b)
<1> DEFINE q == v \div a
           r == v % a
           s == q \div b
           t == q % b
<1>1. q \in Nat /\ r \in 0 .. a - 1 /\ v = a * q + r
  BY DivMod, DivNat
<1> HIDE DEF q, r
<1>2. s \in Int /\ t \in 0 .. b - 1 /\ q = b * s + t
  BY <1>1, DivMod
<1> HIDE DEF s, t
<1>3. a * q = a * (b * s) + a * t /\ a * (b * s) = (a * b) * s /\ a * t \in Nat /\ (a * b) * s \in Int
  BY <1>1, <1>2
<1>4. a * t + a <= a * b /\ a * b \in Nat \ {0}
  <2>1. a * t + a <= a * b
    BY <1>2, Product
  <2> QED
    BY <1>3, <2>1
<1>5. v = (a * b) * s + (a * t + r) /\ a * t + r \in 0 .. (a * b) - 1
  BY <1>1, <1>3, <1>4
<1>6. v \div (a * b) = s
  BY <1>2, <1>4, <1>5, DivUnique
<1> QED
  BY <1>6 DEF q, s
-----------------------------------------------------------------------------
(* The indexes of a page.                                                  *)

Index == 0 .. TopSpan - 1

\* What a page without its last, two last and three last digits is.
LEMMA Digits ==
  ASSUME NEW v \in 0 .. Top - 1
  PROVE  /\ v \in Nat /\ v = Span * (v \div Span) + PT_INDEX(v)
         /\ v \div Span = Span * (v \div (Span * Span)) + PD_INDEX(v)
         /\ v \div (Span * Span) = Span * (v \div (Span * Span * Span)) + PDP_INDEX(v)
         /\ v \div (Span * Span * Span) = PML4_INDEX(v)
         /\ PML4_INDEX(v) \in Index /\ PDP_INDEX(v) \in 0 .. Span - 1
         /\ PD_INDEX(v) \in 0 .. Span - 1 /\ PT_INDEX(v) \in 0 .. Span - 1
         /\ PDP_INDEX(v) \in Index /\ PD_INDEX(v) \in Index /\ PT_INDEX(v) \in Index
<1> USE TablesAssumption
<1> DEFINE S2 == Span * Span
           S3 == Span * Span * Span
<1>1. S2 \in Nat \ {0} /\ S3 \in Nat \ {0} /\ S3 = S2 * Span /\ v \in Nat
  OBVIOUS
<1> HIDE DEF S2, S3
<1>2. v \div Span \in Nat /\ v \div S2 \in Nat /\ v \div S3 \in Nat
  BY <1>1, DivNat
<1>3. (v \div Span) \div Span = v \div S2
  BY <1>1, DivDiv, ZenonT(40) DEF S2
<1>4. (v \div S2) \div Span = v \div S3
  BY <1>1, DivDiv, ZenonT(40)
<1>5. v = Span * (v \div Span) + (v % Span) /\ v % Span \in 0 .. Span - 1
  BY <1>1, DivMod
<1>6. /\ v \div Span = Span * ((v \div Span) \div Span) + ((v \div Span) % Span)
      /\ (v \div Span) % Span \in 0 .. Span - 1
  BY <1>2, DivMod
<1>7. /\ v \div S2 = Span * ((v \div S2) \div Span) + ((v \div S2) % Span)
      /\ (v \div S2) % Span \in 0 .. Span - 1
  BY <1>2, DivMod, ZenonT(40)
<1>8. v \div S3 \in Index /\ (v \div S3) % TopSpan = v \div S3
  <2> DEFINE q == v \div S3
  <2>1. q \in Nat /\ (v % S3) \in 0 .. S3 - 1 /\ v = S3 * q + (v % S3)
    BY <1>1, <1>2, DivMod, ZenonT(40)
  <2> HIDE DEF q
  <2>2. v < S3 * TopSpan
    BY <1>1 DEF Top, S3
  <2>3. q < TopSpan
    <3> SUFFICES ASSUME TopSpan <= q PROVE FALSE
      BY <2>1
    <3>1. S3 * TopSpan <= S3 * q /\ S3 * q \in Int /\ S3 * TopSpan \in Int
      <4>1. CASE TopSpan = q
        BY <1>1, <2>1, <4>1
      <4>2. CASE TopSpan < q
        BY <1>1, <2>1, <4>2, Product
      <4> QED
        BY <2>1, <4>1, <4>2
    <3> QED
      BY <1>1, <2>1, <2>2, <3>1
  <2>4. q = TopSpan * 0 + q /\ q \in 0 .. TopSpan - 1 /\ TopSpan \in Nat \ {0}
    BY <2>1, <2>3
  <2>5. q % TopSpan = q
    BY <2>1, <2>4, DivUnique
  <2> QED
    BY <2>4, <2>5 DEF q, Index
<1>9. \A i \in 0 .. Span - 1 : i \in Index
  BY DEF Index
<1>10. /\ PML4_INDEX(v) = v \div S3 /\ PDP_INDEX(v) = (v \div S2) % Span
       /\ PD_INDEX(v) = (v \div Span) % Span /\ PT_INDEX(v) = v % Span
  BY <1>8 DEF PML4_INDEX, PDP_INDEX, PD_INDEX, PT_INDEX, S2, S3
<1> QED
  BY <1>1, <1>3, <1>4, <1>5, <1>6, <1>7, <1>8, <1>9, <1>10 DEF S2, S3

\* The upper digits tell which 2 MiB a page is in, and all of them which page.
LEMMA SameBlock ==
  ASSUME NEW v \in 0 .. Top - 1, NEW w \in 0 .. Top - 1,
         PML4_INDEX(v) = PML4_INDEX(w), PDP_INDEX(v) = PDP_INDEX(w), PD_INDEX(v) = PD_INDEX(w)
  PROVE  Huge(v) = Huge(w) /\ (PT_INDEX(v) = PT_INDEX(w) => v = w)
<1>1. v \div Span = w \div Span
  BY Digits
<1>2. /\ v = Span * (v \div Span) + PT_INDEX(v) /\ w = Span * (w \div Span) + PT_INDEX(w)
      /\ v \in Nat /\ w \in Nat /\ PT_INDEX(v) \in Int /\ PT_INDEX(w) \in Int
      /\ Span * (v \div Span) \in Int
  <2>1. v \div Span \in Nat
    BY Digits, DivNat, TablesAssumption, ZenonT(40)
  <2> QED
    BY <2>1, Digits, TablesAssumption
<1>3. Huge(v) = v - PT_INDEX(v) /\ Huge(w) = w - PT_INDEX(w)
  BY DEF Huge, PT_INDEX
<1> QED
  BY <1>1, <1>2, <1>3

\* Which half of the top-level table a page is under.
LEMMA HalfOf ==
  /\ \A v \in KernelPages \cup {BootPage} : v \in 0 .. Top - 1 /\ PML4_INDEX(v) \in KernelHalf
  /\ \A v \in UserPages : v \in 0 .. Top - 1 /\ PML4_INDEX(v) \notin KernelHalf
  /\ KernelHalf \subseteq Index
<1> USE TablesAssumption
<1> DEFINE S == Span * Span * Span
           h == TopSpan \div 2
<1>1. S \in Nat \ {0} /\ h \in 0 .. TopSpan /\ Half = h * S /\ Top = TopSpan * S
  BY DEF Half, Top
<1>2. S * h = h * S /\ S * TopSpan = TopSpan * S /\ Half \in Nat /\ Top \in Nat
  BY <1>1
<1> HIDE DEF S
<1>3. KernelHalf = h .. TopSpan - 1 /\ KernelHalf \subseteq Index
  BY <1>1 DEF KernelHalf, Index
<1> HIDE DEF h
<1>4. Half <= Top
  <2>1. CASE h = TopSpan
    BY <1>1, <1>2, <2>1
  <2>2. CASE h < TopSpan
    BY <1>1, <1>2, <2>2, Product
  <2> QED
    BY <1>1, <2>1, <2>2
<1>5. ASSUME NEW v \in 0 .. Top - 1
      PROVE  PML4_INDEX(v) \in KernelHalf <=> v >= Half
  <2> DEFINE q == PML4_INDEX(v)
             r == v % S
  <2>1. q \in Index /\ v \div S = q
    BY Digits DEF S
  <2>2. v = S * (v \div S) + (v % S) /\ v % S \in 0 .. S - 1
    BY <1>1, <1>2, DivMod
  <2>3. v = S * q + r /\ r \in 0 .. S - 1
    BY <2>1, <2>2
  <2>4. q \in KernelHalf <=> ~(q < h)
    BY <1>1, <1>3, <2>1 DEF Index
  <2>5. S * q \in Int /\ S * h \in Int
    BY <1>1, <2>1 DEF Index
  <2> HIDE DEF q, r
  <2>6. q < h => S * q + S <= S * h
    BY <1>1, <2>1, Product DEF Index
  <2>7. ~(q < h) => S * h <= S * q
    <3>1. CASE q = h
      BY <2>5, <3>1
    <3>2. CASE h < q
      BY <1>1, <2>1, <3>2, Product DEF Index
    <3> QED
      BY <1>1, <2>1, <3>1, <3>2 DEF Index
  <2> QED
    BY <1>1, <1>2, <2>3, <2>4, <2>5, <2>6, <2>7 DEF q
<1> QED
  BY <1>2, <1>3, <1>4, <1>5, PagesAssumption
-----------------------------------------------------------------------------
(* The shape of the tables.  Nothing in memory says what level a table is  *)
(* of and whose it is: lev and usr, the tables below the tasks' pages, are *)
(* kept beside it.                                                         *)

Frames == 1 .. NTables
Roots == spaces \cup {kernel_pml4}

\* A slot that leads to a task's pages, and an entry that points to a table.
UserSlot(lev, usr, f, i) == f \in usr \/ (lev[f] = 4 /\ i \notin KernelHalf)
Ptr(m, lev, f, i) == m[f][i].p /\ ~m[f][i].huge /\ lev[f] # 1

\* Entries that are not present are zero, as are frames that are not used.
Typed(m, u) ==
  /\ m \in [0 .. NTables -> [Index -> Entry]] /\ u \in 3 .. NTables
  /\ \A f \in 0 .. NTables, i \in Index : ~m[f][i].p \/ f = 0 \/ f > u => m[f][i] = Absent

Kinds(u, R, lev, usr) ==
  /\ lev \in [Frames -> 1 .. 4] /\ usr \subseteq Frames
  /\ R \subseteq 1 .. u /\ kernel_pml4 \in R /\ R \cap usr = {}
  /\ \A f \in 1 .. u : lev[f] = 4 <=> f \in R

\* The user bit is set exactly in the tasks' slots, 2 MiB entries are the
\* kernel's, and an entry of one level points to a table of the next.
Entries(m, u, lev, usr) ==
  \A f \in 1 .. u, i \in Index : m[f][i].p =>
    /\ m[f][i].user <=> UserSlot(lev, usr, f, i)
    /\ m[f][i].huge => lev[f] = 2 /\ f \notin usr
    /\ Ptr(m, lev, f, i) => /\ m[f][i].to \in 1 .. u
                            /\ lev[m[f][i].to] = lev[f] - 1
                            /\ m[f][i].to \in usr <=> UserSlot(lev, usr, f, i)

\* No table hangs in two places, but for the copies of the kernel's half.
Tree(m, u, lev) ==
  \A f, g \in 1 .. u, i, j \in Index :
    Ptr(m, lev, f, i) /\ Ptr(m, lev, g, j) /\ m[f][i].to = m[g][j].to =>
      i = j /\ (f = g \/ (lev[f] = 4 /\ lev[g] = 4 /\ i \in KernelHalf))

\* The kernel has nothing in the lower half, and a task's upper half is the
\* kernel's as far as it goes.
Shared(m, R) ==
  /\ \A i \in Index \ KernelHalf : ~m[kernel_pml4][i].p
  /\ \A r \in R, i \in KernelHalf : m[r][i].p => m[r][i] = m[kernel_pml4][i]

Shape(m, u, R, lev, usr) ==
  Typed(m, u) /\ Kinds(u, R, lev, usr) /\ Entries(m, u, lev, usr) /\ Tree(m, u, lev) /\ Shared(m, R)

\* The four entries on the way to a page.
E4(m, r, v) == m[r][PML4_INDEX(v)]
E3(m, r, v) == m[E4(m, r, v).to][PDP_INDEX(v)]
E2(m, r, v) == m[E3(m, r, v).to][PD_INDEX(v)]
E1(m, r, v) == m[E2(m, r, v).to][PT_INDEX(v)]

USE TablesAssumption

\* The empty entry.
LEMMA AbsentEntry ==
  Absent \in Entry /\ ~Absent.p /\ ~Absent.huge /\ ~Absent.user /\ Absent.to = 0
BY DEF Absent, Entry

\* Where the way to a page leads.
LEMMA Path ==
  ASSUME NEW m, NEW u, NEW R, NEW lev, NEW usr, Shape(m, u, R, lev, usr),
         NEW r \in R, NEW v \in 0 .. Top - 1
  PROVE  /\ E4(m, r, v) \in Entry /\ E3(m, r, v) \in Entry /\ E2(m, r, v) \in Entry
         /\ E4(m, r, v) # Absent => E4(m, r, v).p /\ E4(m, r, v).to \in 1 .. u /\ lev[E4(m, r, v).to] = 3
         /\ E3(m, r, v) # Absent => /\ E4(m, r, v).p /\ E3(m, r, v).p
                                    /\ E3(m, r, v).to \in 1 .. u /\ lev[E3(m, r, v).to] = 2
         /\ E2(m, r, v) # Absent => E3(m, r, v).p /\ E2(m, r, v).p
         /\ E2(m, r, v) # Absent /\ ~E2(m, r, v).huge =>
              E2(m, r, v).to \in 1 .. u /\ lev[E2(m, r, v).to] = 1
         /\ ~E2(m, r, v).huge => E1(m, r, v) \in Entry
         /\ ~E2(m, r, v).huge /\ E1(m, r, v) # Absent => E2(m, r, v).p /\ E1(m, r, v).p
         /\ ~E4(m, r, v).huge /\ ~E3(m, r, v).huge
         /\ ~E2(m, r, v).huge => ~E1(m, r, v).huge
<1> DEFINE a == E4(m, r, v)
           b == E3(m, r, v)
           c == E2(m, r, v)
           d == E1(m, r, v)
<1>0. /\ PML4_INDEX(v) \in Index /\ PDP_INDEX(v) \in Index /\ PD_INDEX(v) \in Index /\ PT_INDEX(v) \in Index
      /\ r \in 1 .. u /\ lev[r] = 4 /\ u \in 3 .. NTables
  BY Digits DEF Shape, Kinds, Typed
<1>1. \A f \in 0 .. u, i \in Index :
        /\ m[f][i] \in Entry
        /\ m[f][i] # Absent => m[f][i].p /\ f \in 1 .. u
  BY <1>0 DEF Shape, Typed
<1>2. \A f \in 1 .. u, i \in Index :
        /\ m[f][i] # Absent /\ m[f][i].huge => lev[f] = 2
        /\ m[f][i] # Absent /\ ~m[f][i].huge /\ lev[f] # 1 => m[f][i].to \in 1 .. u /\ lev[m[f][i].to] = lev[f] - 1
  BY <1>1 DEF Shape, Entries, Ptr
<1>3. a \in Entry /\ ~a.huge /\ (a # Absent => a.p /\ a.to \in 1 .. u /\ lev[a.to] = 3) /\ (a = Absent => a.to = 0)
  BY <1>0, <1>1, <1>2, AbsentEntry DEF E4
<1> HIDE DEF a
<1>4. b = m[a.to][PDP_INDEX(v)]
  BY DEF a, E3
<1> HIDE DEF b
<1>5. /\ b \in Entry /\ ~b.huge /\ (b # Absent => b.p /\ a.p /\ b.to \in 1 .. u /\ lev[b.to] = 2)
      /\ (b = Absent => b.to = 0)
  <2>1. CASE a = Absent
    BY <1>0, <1>1, <1>3, <1>4, <2>1, AbsentEntry
  <2>2. CASE a # Absent
    BY <1>0, <1>1, <1>2, <1>3, <1>4, <2>2, AbsentEntry
  <2> QED
    BY <2>1, <2>2
<1>6. c = m[b.to][PD_INDEX(v)]
  BY DEF b, E2
<1> HIDE DEF c
<1>7. /\ c \in Entry /\ (c # Absent => c.p /\ b.p)
      /\ (c # Absent /\ ~c.huge => c.to \in 1 .. u /\ lev[c.to] = 1)
      /\ (c = Absent => c.to = 0)
  <2>1. CASE b = Absent
    BY <1>0, <1>1, <1>5, <1>6, <2>1, AbsentEntry
  <2>2. CASE b # Absent
    BY <1>0, <1>1, <1>2, <1>5, <1>6, <2>2, AbsentEntry
  <2> QED
    BY <2>1, <2>2
<1>8. d = m[c.to][PT_INDEX(v)]
  BY DEF c, E1
<1> HIDE DEF d
<1>9. ~c.huge => d \in Entry /\ (d # Absent => d.p /\ c.p) /\ ~d.huge
  <2>1. CASE c = Absent
    BY <1>0, <1>1, <1>7, <1>8, <2>1, AbsentEntry
  <2>2. CASE c # Absent
    BY <1>0, <1>1, <1>2, <1>7, <1>8, <2>2, AbsentEntry
  <2> QED
    BY <2>1, <2>2
<1> QED
  BY <1>3, <1>5, <1>7, <1>9 DEF a, b, c, d

-----------------------------------------------------------------------------
(* What the processor finds.                                               *)

\* Translate in terms of the entries on the path.
LEMMA TranslateDef ==
  ASSUME NEW m, NEW r, NEW v
  PROVE  LET leaf == IF E2(m, r, v).huge
                     THEN [E2(m, r, v) EXCEPT !.to = @ + PT_INDEX(v)] ELSE E1(m, r, v)
         IN  Translate(m, r, v) =
               IF E4(m, r, v).p /\ E3(m, r, v).p /\ E2(m, r, v).p /\ leaf.p
               THEN [leaf EXCEPT !.user = @ /\ E4(m, r, v).user /\ E3(m, r, v).user /\ E2(m, r, v).user]
               ELSE Absent
BY DEF Translate, E4, E3, E2, E1

\* An entry that is not present, or whose page table's is not, ends the walk.
LEMMA NoTranslation ==
  ASSUME NEW m, NEW r, NEW v,
         \/ ~E4(m, r, v).p \/ ~E3(m, r, v).p \/ ~E2(m, r, v).p
         \/ ~E2(m, r, v).huge /\ ~E1(m, r, v).p
  PROVE  Translate(m, r, v) = Absent
BY TranslateDef, ZenonT(40)

\* The translation is that of the four entries.
LEMMA TranslateSame ==
  ASSUME NEW m, NEW r, NEW n, NEW q, NEW v,
         E4(m, r, v) = E4(n, q, v), E3(m, r, v) = E3(n, q, v), E2(m, r, v) = E2(n, q, v),
         ~E2(m, r, v).huge => E1(m, r, v) = E1(n, q, v)
  PROVE  Translate(m, r, v) = Translate(n, q, v)
<1>1. CASE E2(m, r, v).huge
  BY <1>1, TranslateDef, ZenonT(40)
<1>2. CASE ~E2(m, r, v).huge
  BY <1>2, TranslateDef, ZenonT(40)
<1> QED
  BY <1>1, <1>2

\* The translation under a root of well-formed tables.
LEMMA TranslateIs ==
  ASSUME NEW m, NEW u, NEW R, NEW lev, NEW usr, Shape(m, u, R, lev, usr),
         NEW r \in R, NEW v \in 0 .. Top - 1
  PROVE  LET t == Translate(m, r, v)
             on == E4(m, r, v).user /\ E3(m, r, v).user /\ E2(m, r, v).user
         IN  /\ t \in Entry
             /\ E2(m, r, v).huge =>
                  t = [p |-> TRUE, huge |-> TRUE, nx |-> E2(m, r, v).nx, user |-> on,
                       to |-> E2(m, r, v).to + PT_INDEX(v)]
             /\ ~E2(m, r, v).huge /\ E1(m, r, v).p =>
                  t = [p |-> TRUE, huge |-> FALSE, nx |-> E1(m, r, v).nx,
                       user |-> E1(m, r, v).user /\ on, to |-> E1(m, r, v).to]
             /\ ~E2(m, r, v).huge /\ ~E1(m, r, v).p => t = Absent
<1> DEFINE a == E4(m, r, v)
           b == E3(m, r, v)
           c == E2(m, r, v)
           d == E1(m, r, v)
           t == Translate(m, r, v)
<1>1. /\ a \in Entry /\ b \in Entry /\ c \in Entry
      /\ b # Absent => a.p /\ b.p
      /\ c # Absent => b.p /\ c.p
      /\ ~c.huge => d \in Entry /\ ~d.huge /\ (d # Absent => c.p /\ d.p)
  BY Path
<1>2. LET leaf == IF c.huge THEN [c EXCEPT !.to = @ + PT_INDEX(v)] ELSE d
      IN  t = IF a.p /\ b.p /\ c.p /\ leaf.p
              THEN [leaf EXCEPT !.user = @ /\ a.user /\ b.user /\ c.user] ELSE Absent
  BY TranslateDef
<1>3. PT_INDEX(v) \in Nat
  BY Digits DEF Index
<1> HIDE DEF a, b, c, d, t
<1>4. CASE c.huge
  <2>1. c # Absent /\ c.p /\ b # Absent /\ b.p /\ a.p
    BY <1>1, <1>4, AbsentEntry
  <2>2. t = [[c EXCEPT !.to = @ + PT_INDEX(v)] EXCEPT !.user = @ /\ a.user /\ b.user /\ c.user]
    BY <1>1, <1>2, <1>4, <2>1 DEF Entry
  <2>3. t = [p |-> TRUE, huge |-> TRUE, nx |-> c.nx, user |-> a.user /\ b.user /\ c.user,
             to |-> c.to + PT_INDEX(v)]
    BY <1>1, <1>4, <2>1, <2>2, ZenonT(40) DEF Entry
  <2> QED
    BY <1>1, <1>3, <1>4, <2>3 DEF Entry, a, b, c, d, t
<1>5. CASE ~c.huge /\ d.p
  <2>1. d # Absent /\ c # Absent /\ c.p /\ b # Absent /\ b.p /\ a.p
    BY <1>1, <1>5, AbsentEntry
  <2>2. t = [d EXCEPT !.user = @ /\ a.user /\ b.user /\ c.user]
    BY <1>2, <1>5, <2>1
  <2>3. t = [p |-> TRUE, huge |-> FALSE, nx |-> d.nx, user |-> d.user /\ a.user /\ b.user /\ c.user, to |-> d.to]
    BY <1>1, <1>5, <2>2, ZenonT(40) DEF Entry
  <2> QED
    BY <1>1, <1>5, <2>3 DEF Entry, a, b, c, d, t
<1>6. CASE ~c.huge /\ ~d.p
  BY <1>2, <1>6, AbsentEntry DEF a, b, c, d, t
<1> QED
  BY <1>4, <1>5, <1>6, ZenonT(40)

\* The way to a page that is not in a 2 MiB mapping leads to a page table.
LEMMA TableOnPath ==
  ASSUME NEW m, NEW u, NEW R, NEW lev, NEW usr, Shape(m, u, R, lev, usr),
         NEW r \in R, NEW v \in 0 .. Top - 1, E2(m, r, v).p, ~E2(m, r, v).huge
  PROVE  E2(m, r, v).to \in 1 .. u /\ lev[E2(m, r, v).to] = 1
<1>1. E2(m, r, v) # Absent
  BY AbsentEntry
<1> QED
  BY <1>1, Path

\* A page is open to ring 3 if the whole way to it is.
LEMMA TranslateUser ==
  ASSUME NEW m, NEW u, NEW R, NEW lev, NEW usr, Shape(m, u, R, lev, usr),
         NEW r \in R, NEW v \in 0 .. Top - 1
  PROVE  /\ E2(m, r, v).huge =>
              (Translate(m, r, v).user <=> E4(m, r, v).user /\ E3(m, r, v).user /\ E2(m, r, v).user)
         /\ ~E2(m, r, v).huge /\ E1(m, r, v).p =>
              (Translate(m, r, v).user <=>
                 E1(m, r, v).user /\ E4(m, r, v).user /\ E3(m, r, v).user /\ E2(m, r, v).user)
         /\ ~E2(m, r, v).huge /\ ~E1(m, r, v).p => Translate(m, r, v) = Absent
<1> DEFINE c == E2(m, r, v)
           d == E1(m, r, v)
           t == Translate(m, r, v)
           on == E4(m, r, v).user /\ E3(m, r, v).user /\ E2(m, r, v).user
<1>1. \A x : ([p |-> TRUE, huge |-> TRUE, nx |-> c.nx, user |-> x, to |-> c.to + PT_INDEX(v)]).user = x
  OBVIOUS
<1>2. \A x : ([p |-> TRUE, huge |-> FALSE, nx |-> d.nx, user |-> x, to |-> d.to]).user = x
  OBVIOUS
<1>3. /\ c.huge => t = [p |-> TRUE, huge |-> TRUE, nx |-> c.nx, user |-> on, to |-> c.to + PT_INDEX(v)]
      /\ ~c.huge /\ d.p =>
           t = [p |-> TRUE, huge |-> FALSE, nx |-> d.nx, user |-> d.user /\ on, to |-> d.to]
      /\ ~c.huge /\ ~d.p => t = Absent
  BY TranslateIs
<1> HIDE DEF c, d, t
<1>4. c.huge => t.user = on
  BY <1>1, <1>3, ZenonT(40)
<1>5. ~c.huge /\ d.p => t.user = (d.user /\ on)
  BY <1>2, <1>3, ZenonT(40)
<1> QED
  BY <1>3, <1>4, <1>5, ZenonT(40) DEF c, d, t

\* Two ways that meet come from the same page, or the same 2 MiB, and for a
\* task's page from the same root.
LEMMA SamePath ==
  ASSUME NEW m, NEW u, NEW R, NEW lev, NEW usr, Shape(m, u, R, lev, usr),
         NEW r \in R, NEW q \in R, NEW v \in 0 .. Top - 1, NEW w \in 0 .. Top - 1
  PROVE  /\ E3(m, r, v).p /\ E3(m, q, w).p /\ E3(m, r, v).to = E3(m, q, w).to
              => /\ PML4_INDEX(v) = PML4_INDEX(w) /\ PDP_INDEX(v) = PDP_INDEX(w)
                 /\ r = q \/ PML4_INDEX(v) \in KernelHalf
         /\ E2(m, r, v).p /\ ~E2(m, r, v).huge /\ E2(m, q, w).p /\ ~E2(m, q, w).huge /\ E2(m, r, v).to = E2(m, q, w).to
              => /\ PML4_INDEX(v) = PML4_INDEX(w) /\ PDP_INDEX(v) = PDP_INDEX(w)
                 /\ PD_INDEX(v) = PD_INDEX(w)
                 /\ r = q \/ PML4_INDEX(v) \in KernelHalf
<1>0. /\ PML4_INDEX(v) \in Index /\ PDP_INDEX(v) \in Index /\ PD_INDEX(v) \in Index
      /\ PML4_INDEX(w) \in Index /\ PDP_INDEX(w) \in Index /\ PD_INDEX(w) \in Index
      /\ r \in 1 .. u /\ lev[r] = 4 /\ q \in 1 .. u /\ lev[q] = 4
  BY Digits DEF Shape, Kinds
<1>1. \A f, g \in 1 .. u, i, j \in Index :
        (/\ m[f][i].p /\ ~m[f][i].huge /\ lev[f] # 1 /\ m[g][j].p /\ ~m[g][j].huge /\ lev[g] # 1
         /\ m[f][i].to = m[g][j].to)
          => i = j /\ (f = g \/ (lev[f] = 4 /\ lev[g] = 4 /\ i \in KernelHalf))
  <2>1. Tree(m, u, lev)
    BY DEF Shape
  <2> QED
    BY <2>1 DEF Tree, Ptr
<1>2. ASSUME E4(m, r, v).p, E4(m, q, w).p, E4(m, r, v).to = E4(m, q, w).to
      PROVE  PML4_INDEX(v) = PML4_INDEX(w) /\ (r = q \/ PML4_INDEX(v) \in KernelHalf)
  <2>1. ~E4(m, r, v).huge /\ ~E4(m, q, w).huge
    BY Path
  <2> QED
    BY <1>0, <1>1, <1>2, <2>1 DEF E4
<1>3. ASSUME E3(m, r, v).p, E3(m, q, w).p, E3(m, r, v).to = E3(m, q, w).to
      PROVE  PDP_INDEX(v) = PDP_INDEX(w) /\ E4(m, r, v).to = E4(m, q, w).to /\ E4(m, r, v).p /\ E4(m, q, w).p
  <2>1. /\ ~E3(m, r, v).huge /\ E4(m, r, v).p /\ E4(m, r, v).to \in 1 .. u /\ lev[E4(m, r, v).to] = 3
        /\ ~E3(m, q, w).huge /\ E4(m, q, w).p /\ E4(m, q, w).to \in 1 .. u /\ lev[E4(m, q, w).to] = 3
    BY <1>3, Path, AbsentEntry
  <2> QED
    BY <1>0, <1>1, <1>3, <2>1 DEF E3
<1>4. ASSUME E2(m, r, v).p, ~E2(m, r, v).huge, E2(m, q, w).p, ~E2(m, q, w).huge,
             E2(m, r, v).to = E2(m, q, w).to
      PROVE  PD_INDEX(v) = PD_INDEX(w) /\ E3(m, r, v).to = E3(m, q, w).to /\ E3(m, r, v).p /\ E3(m, q, w).p
  <2>1. /\ E3(m, r, v).p /\ E3(m, r, v).to \in 1 .. u /\ lev[E3(m, r, v).to] = 2
        /\ E3(m, q, w).p /\ E3(m, q, w).to \in 1 .. u /\ lev[E3(m, q, w).to] = 2
    BY <1>4, Path, AbsentEntry
  <2> QED
    BY <1>0, <1>1, <1>4, <2>1 DEF E2
<1>5. ASSUME E3(m, r, v).p, E3(m, q, w).p, E3(m, r, v).to = E3(m, q, w).to
      PROVE  /\ PML4_INDEX(v) = PML4_INDEX(w) /\ PDP_INDEX(v) = PDP_INDEX(w)
             /\ r = q \/ PML4_INDEX(v) \in KernelHalf
  <2>1. PDP_INDEX(v) = PDP_INDEX(w) /\ E4(m, r, v).to = E4(m, q, w).to /\ E4(m, r, v).p /\ E4(m, q, w).p
    BY <1>3, <1>5
  <2> QED
    BY <1>2, <2>1
<1>6. ASSUME E2(m, r, v).p, ~E2(m, r, v).huge, E2(m, q, w).p, ~E2(m, q, w).huge,
             E2(m, r, v).to = E2(m, q, w).to
      PROVE  /\ PML4_INDEX(v) = PML4_INDEX(w) /\ PDP_INDEX(v) = PDP_INDEX(w)
             /\ PD_INDEX(v) = PD_INDEX(w)
             /\ r = q \/ PML4_INDEX(v) \in KernelHalf
  <2>1. PD_INDEX(v) = PD_INDEX(w) /\ E3(m, r, v).to = E3(m, q, w).to /\ E3(m, r, v).p /\ E3(m, q, w).p
    BY <1>4, <1>6
  <2> QED
    BY <1>5, <2>1
<1> QED
  BY <1>5, <1>6

-----------------------------------------------------------------------------
(* Writing an entry.                                                       *)

Stored(n, m, f, i, x) ==
  /\ n \in [0 .. NTables -> [Index -> Entry]]
  /\ \A g \in 0 .. NTables, j \in Index : n[g][j] = IF g = f /\ j = i THEN x ELSE m[g][j]

\* A store changes one entry.
LEMMA StoreIs ==
  ASSUME NEW m \in [0 .. NTables -> [Index -> Entry]],
         NEW f \in 0 .. NTables, NEW i \in Index, NEW x \in Entry
  PROVE  Stored(Store(m, <<f, i>>, x), m, f, i, x)
<1>1. Store(m, <<f, i>>, x) = [m EXCEPT ![f] = [m[f] EXCEPT ![i] = x]]
  BY DEF Store
<1>2. [m[f] EXCEPT ![i] = x] \in [Index -> Entry]
  OBVIOUS
<1> QED
  BY <1>1, <1>2, ZenonT(40) DEF Stored

\* Writing an entry of a page table, or of a page directory with no table
\* below it, keeps the shape.
LEMMA StoreShape ==
  ASSUME NEW m, NEW u, NEW R, NEW lev, NEW usr, Shape(m, u, R, lev, usr),
         NEW f \in 1 .. u, NEW i \in Index, NEW x \in Entry,
         lev[f] \in {1, 2},
         ~x.p => x = Absent,
         x.p => (x.user <=> f \in usr) /\ (x.huge <=> lev[f] = 2) /\ (x.huge => f \notin usr)
  PROVE  Shape(Store(m, <<f, i>>, x), u, R, lev, usr)
<1> DEFINE n == Store(m, <<f, i>>, x)
<1>0. Typed(m, u) /\ Kinds(u, R, lev, usr) /\ Entries(m, u, lev, usr) /\ Tree(m, u, lev) /\ Shared(m, R)
  BY DEF Shape
<1>1. m \in [0 .. NTables -> [Index -> Entry]] /\ u \in 3 .. NTables /\ f \in 0 .. NTables
  BY <1>0 DEF Typed
<1>2. /\ n \in [0 .. NTables -> [Index -> Entry]]
      /\ \A g \in 0 .. NTables, j \in Index : n[g][j] = IF g = f /\ j = i THEN x ELSE m[g][j]
  <2>1. Stored(n, m, f, i, x)
    BY <1>1, StoreIs, ZenonT(40)
  <2> HIDE DEF n
  <2> QED
    BY <2>1 DEF Stored
<1> HIDE DEF n
<1>3. Typed(n, u)
  BY <1>0, <1>1, <1>2 DEF Typed
<1>4. \A g \in 1 .. u, j \in Index : Ptr(n, lev, g, j) => Ptr(m, lev, g, j) /\ n[g][j] = m[g][j]
  <2> SUFFICES ASSUME NEW g \in 1 .. u, NEW j \in Index, Ptr(n, lev, g, j)
               PROVE  Ptr(m, lev, g, j) /\ n[g][j] = m[g][j]
    OBVIOUS
  <2>1. n[g][j] = IF g = f /\ j = i THEN x ELSE m[g][j]
    BY <1>1, <1>2
  <2>2. ~(g = f /\ j = i)
    BY <2>1, AbsentEntry DEF Ptr
  <2> QED
    BY <2>1, <2>2 DEF Ptr
<1>5. Entries(n, u, lev, usr)
  <2> SUFFICES ASSUME NEW g \in 1 .. u, NEW j \in Index, n[g][j].p
               PROVE  /\ n[g][j].user <=> UserSlot(lev, usr, g, j)
                      /\ n[g][j].huge => lev[g] = 2 /\ g \notin usr
                      /\ Ptr(n, lev, g, j) => /\ n[g][j].to \in 1 .. u
                                              /\ lev[n[g][j].to] = lev[g] - 1
                                              /\ n[g][j].to \in usr <=> UserSlot(lev, usr, g, j)
    BY DEF Entries
  <2>1. n[g][j] = IF g = f /\ j = i THEN x ELSE m[g][j]
    BY <1>1, <1>2
  <2>2. CASE g = f /\ j = i
    BY <1>4, <2>1, <2>2 DEF UserSlot, Ptr
  <2>3. CASE ~(g = f /\ j = i)
    BY <1>0, <2>1, <2>3 DEF Entries, Ptr
  <2> QED
    BY <2>2, <2>3
<1>6. Tree(n, u, lev)
  BY <1>0, <1>4 DEF Tree
<1>7. Shared(n, R)
  <2>1. R \subseteq 1 .. u /\ kernel_pml4 \in R /\ f \notin R
    BY <1>0 DEF Kinds
  <2>2. \A r \in R, j \in Index : n[r][j] = m[r][j]
    BY <1>1, <1>2, <2>1
  <2>3. KernelHalf \subseteq Index
    BY HalfOf
  <2> QED
    BY <1>0, <2>1, <2>2, <2>3 DEF Shared
<1> QED
  BY <1>0, <1>3, <1>5, <1>6, <1>7 DEF Shape, n

\* Which entries on the way to a page a write to a page table changes ...
LEMMA StorePage ==
  ASSUME NEW m, NEW u, NEW R, NEW lev, NEW usr, Shape(m, u, R, lev, usr),
         NEW f \in 1 .. u, NEW i \in Index, NEW x \in Entry, lev[f] = 1,
         NEW r \in R, NEW w \in 0 .. Top - 1
  PROVE  LET n == Store(m, <<f, i>>, x)
         IN  /\ E4(n, r, w) = E4(m, r, w) /\ E3(n, r, w) = E3(m, r, w) /\ E2(n, r, w) = E2(m, r, w)
             /\ ~E2(m, r, w).huge =>
                  E1(n, r, w) = IF E2(m, r, w).to = f /\ PT_INDEX(w) = i THEN x ELSE E1(m, r, w)
<1> DEFINE n == Store(m, <<f, i>>, x)
           a == E4(m, r, w)
           b == E3(m, r, w)
           c == E2(m, r, w)
<1>1. /\ m \in [0 .. NTables -> [Index -> Entry]] /\ u \in 3 .. NTables /\ f \in 0 .. NTables
      /\ r \in 1 .. u /\ lev[r] = 4
  BY DEF Shape, Typed, Kinds
<1>2. \A g \in 0 .. NTables, j \in Index : n[g][j] = IF g = f /\ j = i THEN x ELSE m[g][j]
  <2>1. Stored(n, m, f, i, x)
    BY <1>1, StoreIs, ZenonT(40)
  <2> HIDE DEF n
  <2> QED
    BY <2>1 DEF Stored
<1>3. /\ a # Absent => a.to \in 1 .. u /\ lev[a.to] = 3
      /\ b # Absent => b.to \in 1 .. u /\ lev[b.to] = 2
      /\ c # Absent /\ ~c.huge => c.to \in 1 .. u
  BY Path
<1>4. /\ PML4_INDEX(w) \in Index /\ PDP_INDEX(w) \in Index /\ PD_INDEX(w) \in Index /\ PT_INDEX(w) \in Index
  BY Digits
<1> HIDE DEF n
<1>5. E4(n, r, w) = a
  BY <1>1, <1>2, <1>4 DEF E4
<1> HIDE DEF a
<1>6. E3(n, r, w) = b
  <2>1. a.to \in 0 .. NTables /\ a.to # f
    BY <1>1, <1>3, AbsentEntry
  <2> QED
    BY <1>2, <1>4, <1>5, <2>1 DEF E3, a
<1> HIDE DEF b
<1>7. E2(n, r, w) = c
  <2>1. b.to \in 0 .. NTables /\ b.to # f
    BY <1>1, <1>3, AbsentEntry
  <2> QED
    BY <1>2, <1>4, <1>6, <2>1 DEF E2, b
<1> HIDE DEF c
<1>8. ~c.huge => E1(n, r, w) = IF c.to = f /\ PT_INDEX(w) = i THEN x ELSE E1(m, r, w)
  <2>1. ~c.huge => c.to \in 0 .. NTables
    BY <1>1, <1>3, AbsentEntry
  <2> QED
    BY <1>2, <1>4, <1>7, <2>1 DEF E1, c
<1> QED
  BY <1>5, <1>6, <1>7, <1>8 DEF a, b, c, n

\* ... and a write to a page directory.
LEMMA StoreDir ==
  ASSUME NEW m, NEW u, NEW R, NEW lev, NEW usr, Shape(m, u, R, lev, usr),
         NEW f \in 1 .. u, NEW i \in Index, NEW x \in Entry, lev[f] = 2,
         NEW r \in R, NEW w \in 0 .. Top - 1
  PROVE  LET n == Store(m, <<f, i>>, x)
             hit == E3(m, r, w).to = f /\ PD_INDEX(w) = i
         IN  /\ E4(n, r, w) = E4(m, r, w) /\ E3(n, r, w) = E3(m, r, w)
             /\ E2(n, r, w) = IF hit THEN x ELSE E2(m, r, w)
             /\ ~hit /\ ~E2(m, r, w).huge => E1(n, r, w) = E1(m, r, w)
<1> DEFINE n == Store(m, <<f, i>>, x)
           a == E4(m, r, w)
           b == E3(m, r, w)
           c == E2(m, r, w)
<1>1. /\ m \in [0 .. NTables -> [Index -> Entry]] /\ u \in 3 .. NTables /\ f \in 0 .. NTables
      /\ r \in 1 .. u /\ lev[r] = 4
  BY DEF Shape, Typed, Kinds
<1>2. \A g \in 0 .. NTables, j \in Index : n[g][j] = IF g = f /\ j = i THEN x ELSE m[g][j]
  <2>1. Stored(n, m, f, i, x)
    BY <1>1, StoreIs, ZenonT(40)
  <2> HIDE DEF n
  <2> QED
    BY <2>1 DEF Stored
<1>3. /\ a # Absent => a.to \in 1 .. u /\ lev[a.to] = 3
      /\ b # Absent => b.to \in 1 .. u
      /\ c # Absent /\ ~c.huge => c.to \in 1 .. u /\ lev[c.to] = 1
  BY Path
<1>4. /\ PML4_INDEX(w) \in Index /\ PDP_INDEX(w) \in Index /\ PD_INDEX(w) \in Index /\ PT_INDEX(w) \in Index
  BY Digits
<1> HIDE DEF n
<1>5. E4(n, r, w) = a
  BY <1>1, <1>2, <1>4 DEF E4
<1> HIDE DEF a
<1>6. E3(n, r, w) = b
  <2>1. a.to \in 0 .. NTables /\ a.to # f
    BY <1>1, <1>3, AbsentEntry
  <2> QED
    BY <1>2, <1>4, <1>5, <2>1 DEF E3, a
<1> HIDE DEF b
<1>7. E2(n, r, w) = IF b.to = f /\ PD_INDEX(w) = i THEN x ELSE c
  <2>1. b.to \in 0 .. NTables
    BY <1>1, <1>3, AbsentEntry
  <2> QED
    BY <1>2, <1>4, <1>6, <2>1 DEF E2, b
<1> HIDE DEF c
<1>8. ~(b.to = f /\ PD_INDEX(w) = i) /\ ~c.huge => E1(n, r, w) = E1(m, r, w)
  <2>1. ~c.huge => c.to \in 0 .. NTables /\ c.to # f
    BY <1>1, <1>3, AbsentEntry
  <2> QED
    BY <1>2, <1>4, <1>7, <2>1 DEF E1, c
<1> QED
  BY <1>5, <1>6, <1>7, <1>8 DEF a, b, c, n

-----------------------------------------------------------------------------
(* Making a table.                                                         *)

\* What create_table writes.
LEMMA TableEntry ==
  ASSUME NEW f \in Nat, NEW user \in BOOLEAN
  PROVE  LET x == Table(f, user)
         IN  x \in Entry /\ x.p /\ ~x.huge /\ x.to = f /\ (x.user <=> user) /\ x # Absent
<1>1. Table(f, user) \in Entry
  BY AbsentEntry, ZenonT(40) DEF Table, Entry
<1>2. /\ Table(f, user).p = TRUE /\ Table(f, user).user = user
      /\ Table(f, user).huge = FALSE /\ Table(f, user).to = f
  BY DEF Table, Absent
<1> QED
  BY <1>1, <1>2, AbsentEntry

\* A new table in a free slot keeps the shape ...
LEMMA CreateShape ==
  ASSUME NEW m, NEW u, NEW R, NEW lev, NEW usr, Shape(m, u, R, lev, usr),
         NEW f \in 1 .. u, NEW i \in Index, lev[f] # 1, u < NTables, ~m[f][i].p,
         NEW user \in BOOLEAN, user <=> UserSlot(lev, usr, f, i),
         lev[f] = 4 => (f = kernel_pml4 <=> i \in KernelHalf)
  PROVE  Shape(Store(m, <<f, i>>, Table(u + 1, user)), u + 1, R,
               [lev EXCEPT ![u + 1] = lev[f] - 1], IF user THEN usr \cup {u + 1} ELSE usr \ {u + 1})
<1> DEFINE x == Table(u + 1, user)
           n == Store(m, <<f, i>>, x)
           lev2 == [lev EXCEPT ![u + 1] = lev[f] - 1]
           usr2 == IF user THEN usr \cup {u + 1} ELSE usr \ {u + 1}
<1>0. Typed(m, u) /\ Kinds(u, R, lev, usr) /\ Entries(m, u, lev, usr) /\ Tree(m, u, lev) /\ Shared(m, R)
  BY DEF Shape
<1>1. /\ m \in [0 .. NTables -> [Index -> Entry]] /\ u \in 3 .. NTables /\ f \in 0 .. NTables
      /\ u + 1 \in Frames /\ lev \in [Frames -> 1 .. 4] /\ usr \subseteq Frames
  BY <1>0 DEF Typed, Kinds, Frames
<1>2. x \in Entry /\ x.p /\ ~x.huge /\ x.to = u + 1 /\ (x.user <=> user) /\ x # Absent
  BY <1>1, TableEntry
<1> HIDE DEF x
<1>3. /\ n \in [0 .. NTables -> [Index -> Entry]]
      /\ \A g \in 0 .. NTables, j \in Index : n[g][j] = IF g = f /\ j = i THEN x ELSE m[g][j]
  <2>1. Stored(n, m, f, i, x)
    BY <1>1, <1>2, StoreIs, ZenonT(40)
  <2> HIDE DEF n
  <2> QED
    BY <2>1 DEF Stored
<1> HIDE DEF n
<1>4. /\ lev2 \in [Frames -> 1 .. 4] /\ lev2[u + 1] = lev[f] - 1 /\ lev[f] \in 2 .. 4
      /\ \A g \in 1 .. u : lev2[g] = lev[g]
  BY <1>1 DEF Frames
<1>5. /\ usr2 \subseteq Frames /\ (u + 1 \in usr2 <=> user)
      /\ \A g \in 1 .. u : g \in usr2 <=> g \in usr
  BY <1>1
<1> HIDE DEF lev2, usr2
<1>6. Typed(n, u + 1)
  BY <1>0, <1>1, <1>2, <1>3 DEF Typed
<1>7. Kinds(u + 1, R, lev2, usr2)
  <2>1. /\ R \subseteq 1 .. u /\ kernel_pml4 \in R /\ R \cap usr = {}
        /\ \A g \in 1 .. u : lev[g] = 4 <=> g \in R
    BY <1>0 DEF Kinds
  <2>2. R \subseteq 1 .. u + 1 /\ u + 1 \notin R
    BY <1>1, <2>1
  <2>3. R \cap usr2 = {}
    BY <1>5, <2>1, ZenonT(40)
  <2>4. \A g \in 1 .. u + 1 : lev2[g] = 4 <=> g \in R
    BY <1>1, <1>4, <2>1, <2>2
  <2> QED
    BY <1>4, <1>5, <2>1, <2>2, <2>3, <2>4 DEF Kinds
<1>8. \A j \in Index : n[u + 1][j] = Absent
  BY <1>0, <1>1, <1>3 DEF Typed, Frames
<1>9. \A g \in 1 .. u, j \in Index : UserSlot(lev2, usr2, g, j) <=> UserSlot(lev, usr, g, j)
  BY <1>4, <1>5 DEF UserSlot
<1>10. \A g \in 1 .. u + 1, j \in Index :
         Ptr(n, lev2, g, j) => \/ g = f /\ j = i /\ n[g][j].to = u + 1
                               \/ g \in 1 .. u /\ Ptr(m, lev, g, j) /\ n[g][j] = m[g][j]
  <2> SUFFICES ASSUME NEW g \in 1 .. u + 1, NEW j \in Index, Ptr(n, lev2, g, j)
               PROVE  \/ g = f /\ j = i /\ n[g][j].to = u + 1
                      \/ g \in 1 .. u /\ Ptr(m, lev, g, j) /\ n[g][j] = m[g][j]
    OBVIOUS
  <2>1. g \in 1 .. u
    BY <1>1, <1>8, AbsentEntry DEF Ptr
  <2>2. n[g][j] = IF g = f /\ j = i THEN x ELSE m[g][j]
    BY <1>1, <1>3, <2>1
  <2> QED
    BY <1>2, <1>4, <2>1, <2>2 DEF Ptr
<1>11. Entries(n, u + 1, lev2, usr2)
  <2> SUFFICES ASSUME NEW g \in 1 .. u + 1, NEW j \in Index, n[g][j].p
               PROVE  /\ n[g][j].user <=> UserSlot(lev2, usr2, g, j)
                      /\ n[g][j].huge => lev2[g] = 2 /\ g \notin usr2
                      /\ Ptr(n, lev2, g, j) => /\ n[g][j].to \in 1 .. u + 1
                                               /\ lev2[n[g][j].to] = lev2[g] - 1
                                               /\ n[g][j].to \in usr2 <=> UserSlot(lev2, usr2, g, j)
    BY DEF Entries
  <2>1. g \in 1 .. u
    BY <1>1, <1>8, AbsentEntry
  <2>2. n[g][j] = IF g = f /\ j = i THEN x ELSE m[g][j]
    BY <1>1, <1>3, <2>1
  <2>3. CASE g = f /\ j = i
    BY <1>1, <1>2, <1>4, <1>5, <1>9, <2>2, <2>3
  <2>4. CASE ~(g = f /\ j = i)
    <3>1. /\ m[g][j].user <=> UserSlot(lev, usr, g, j)
          /\ m[g][j].huge => lev[g] = 2 /\ g \notin usr
          /\ Ptr(m, lev, g, j) => /\ m[g][j].to \in 1 .. u
                                  /\ lev[m[g][j].to] = lev[g] - 1
                                  /\ m[g][j].to \in usr <=> UserSlot(lev, usr, g, j)
      BY <1>0, <2>1, <2>2, <2>4, ZenonT(40) DEF Entries
    <3>2. Ptr(n, lev2, g, j) => Ptr(m, lev, g, j)
      BY <1>10, <2>4
    <3> QED
      BY <1>1, <1>4, <1>5, <1>9, <2>1, <2>2, <2>4, <3>1, <3>2
  <2> QED
    BY <2>3, <2>4
<1>12. \A g \in 1 .. u, j \in Index : Ptr(m, lev, g, j) => m[g][j].to \in 1 .. u
  BY <1>0 DEF Entries, Ptr
<1>13. Tree(n, u + 1, lev2)
  <2> SUFFICES ASSUME NEW g \in 1 .. u + 1, NEW h \in 1 .. u + 1, NEW j \in Index, NEW l \in Index,
                      Ptr(n, lev2, g, j), Ptr(n, lev2, h, l), n[g][j].to = n[h][l].to
               PROVE  j = l /\ (g = h \/ (lev2[g] = 4 /\ lev2[h] = 4 /\ j \in KernelHalf))
    BY DEF Tree
  <2>1. /\ \/ g = f /\ j = i /\ n[g][j].to = u + 1
           \/ g \in 1 .. u /\ Ptr(m, lev, g, j) /\ n[g][j] = m[g][j] /\ m[g][j].to \in 1 .. u
        /\ \/ h = f /\ l = i /\ n[h][l].to = u + 1
           \/ h \in 1 .. u /\ Ptr(m, lev, h, l) /\ n[h][l] = m[h][l] /\ m[h][l].to \in 1 .. u
    BY <1>10, <1>12
  <2>2. CASE g = f /\ j = i /\ h = f /\ l = i
    BY <2>2
  <2>3. CASE /\ g \in 1 .. u /\ Ptr(m, lev, g, j) /\ n[g][j] = m[g][j]
             /\ h \in 1 .. u /\ Ptr(m, lev, h, l) /\ n[h][l] = m[h][l]
    BY <1>0, <1>4, <2>3 DEF Tree
  <2> QED
    BY <1>1, <2>1, <2>2, <2>3
<1>14. Shared(n, R)
  <2>1. R \subseteq 1 .. u /\ kernel_pml4 \in R /\ (f \in R <=> lev[f] = 4) /\ KernelHalf \subseteq Index
    BY <1>0, HalfOf DEF Kinds
  <2>2. \A r \in R, j \in Index : n[r][j] = IF r = f /\ j = i THEN x ELSE m[r][j]
    BY <1>1, <1>3, <2>1
  <2>3. /\ \A j \in Index \ KernelHalf : ~m[kernel_pml4][j].p
        /\ \A r \in R, j \in KernelHalf : m[r][j].p => m[r][j] = m[kernel_pml4][j]
    BY <1>0 DEF Shared
  <2>4. \A j \in Index \ KernelHalf : ~n[kernel_pml4][j].p
    BY <2>1, <2>2, <2>3
  <2>5. \A r \in R, j \in KernelHalf : n[r][j].p => n[r][j] = n[kernel_pml4][j]
    BY <2>1, <2>2, <2>3
  <2> QED
    BY <2>4, <2>5 DEF Shared
<1> QED
  BY <1>6, <1>7, <1>11, <1>13, <1>14 DEF Shape, n, x, lev2, usr2

\* ... and changes no translation.
LEMMA CreateTranslate ==
  ASSUME NEW m, NEW u, NEW R, NEW lev, NEW usr, Shape(m, u, R, lev, usr),
         NEW f \in 1 .. u, NEW i \in Index, lev[f] # 1, u < NTables, ~m[f][i].p, NEW user \in BOOLEAN,
         NEW r \in R, NEW w \in 0 .. Top - 1
  PROVE  Translate(Store(m, <<f, i>>, Table(u + 1, user)), r, w) = Translate(m, r, w)
<1> DEFINE x == Table(u + 1, user)
           n == Store(m, <<f, i>>, x)
<1> SUFFICES Translate(n, r, w) = Translate(m, r, w)
  OBVIOUS
<1>1. /\ m \in [0 .. NTables -> [Index -> Entry]] /\ u \in 3 .. NTables /\ f \in 0 .. NTables
      /\ r \in 1 .. u /\ u + 1 \in 0 .. NTables /\ \A j \in Index : m[u + 1][j] = Absent
  BY DEF Shape, Typed, Kinds
<1>2. x \in Entry /\ x.p /\ ~x.huge /\ x.to = u + 1
  BY <1>1, TableEntry
<1> HIDE DEF x
<1>3. \A g \in 0 .. NTables, j \in Index : n[g][j] = IF g = f /\ j = i THEN x ELSE m[g][j]
  <2>1. Stored(n, m, f, i, x)
    BY <1>1, <1>2, StoreIs, ZenonT(40)
  <2> HIDE DEF n
  <2> QED
    BY <2>1 DEF Stored
<1> HIDE DEF n
<1>4. \A g \in 0 .. NTables, j \in Index :
        /\ m[g][j].p => n[g][j] = m[g][j]
        /\ ~m[g][j].p => n[g][j] = m[g][j] \/ n[g][j] = x
        /\ g # f => n[g][j] = m[g][j]
  BY <1>3
<1>5. \A j \in Index : n[u + 1][j] = Absent
  BY <1>1, <1>4
<1>6. /\ PML4_INDEX(w) \in Index /\ PDP_INDEX(w) \in Index /\ PD_INDEX(w) \in Index /\ PT_INDEX(w) \in Index
  BY Digits
<1> DEFINE a == E4(m, r, w)
           b == E3(m, r, w)
           c == E2(m, r, w)
<1>7. /\ a # Absent => a.p /\ a.to \in 1 .. u
      /\ b # Absent => b.p /\ b.to \in 1 .. u
      /\ c # Absent => c.p
      /\ c # Absent /\ ~c.huge => c.to \in 1 .. u /\ lev[c.to] = 1
  BY Path
<1>8. CASE ~a.p
  <2>1. Translate(m, r, w) = Absent
    BY <1>8, NoTranslation
  <2>2. E4(n, r, w) = a \/ E4(n, r, w) = x
    BY <1>1, <1>4, <1>6 DEF E4
  <2>3. E4(n, r, w) = x => E3(n, r, w) = Absent
    BY <1>2, <1>5, <1>6 DEF E3
  <2> QED
    <3>1. ~E4(n, r, w).p \/ ~E3(n, r, w).p
      BY <1>8, <2>2, <2>3, AbsentEntry
    <3> QED
      BY <2>1, <3>1, NoTranslation
<1>9. CASE a.p /\ ~b.p
  <2>1. Translate(m, r, w) = Absent
    BY <1>9, NoTranslation
  <2>2. E4(n, r, w) = a /\ a.to \in 0 .. NTables
    <3>1. a # Absent
      BY <1>9, AbsentEntry
    <3>2. a.to \in 1 .. u
      BY <1>7, <3>1, ZenonT(40)
    <3>3. E4(n, r, w) = a
      BY <1>1, <1>4, <1>6, <1>9 DEF E4
    <3> QED
      BY <1>1, <3>2, <3>3
  <2>3. E3(n, r, w) = b \/ E3(n, r, w) = x
    BY <1>4, <1>6, <1>9, <2>2 DEF E3
  <2>4. E3(n, r, w) = x => E2(n, r, w) = Absent
    BY <1>2, <1>5, <1>6 DEF E2
  <2> QED
    <3>1. ~E3(n, r, w).p \/ ~E2(n, r, w).p
      BY <1>9, <2>3, <2>4, AbsentEntry
    <3> QED
      BY <2>1, <3>1, NoTranslation
<1>10. CASE a.p /\ b.p
  <2>0. a # Absent /\ b # Absent
    BY <1>10, AbsentEntry
  <2>1. E4(n, r, w) = a /\ a.to \in 0 .. NTables
    <3>1. a.to \in 1 .. u
      BY <1>7, <2>0, ZenonT(40)
    <3>2. E4(n, r, w) = a
      BY <1>1, <1>4, <1>6, <1>10 DEF E4
    <3> QED
      BY <1>1, <3>1, <3>2
  <2>2. E3(n, r, w) = b /\ b.to \in 0 .. NTables
    <3>1. b.to \in 1 .. u
      BY <1>7, <2>0, ZenonT(40)
    <3>2. b = m[a.to][PDP_INDEX(w)] /\ E3(n, r, w) = n[a.to][PDP_INDEX(w)]
      BY <1>10, <2>1, ZenonT(40) DEF E3
    <3>3. n[a.to][PDP_INDEX(w)] = m[a.to][PDP_INDEX(w)]
      BY <1>4, <1>6, <1>10, <2>1, <3>2, ZenonT(40)
    <3> QED
      BY <1>1, <3>1, <3>2, <3>3
  <2>3. CASE ~c.p
    <3>1. Translate(m, r, w) = Absent
      BY <2>3, NoTranslation
    <3>2. E2(n, r, w) = c \/ E2(n, r, w) = x
      BY <1>4, <1>6, <2>2, <2>3 DEF E2
    <3>3. E2(n, r, w) = x => E1(n, r, w) = Absent
      BY <1>2, <1>5, <1>6 DEF E1
    <3>4. ~E2(n, r, w).p \/ (~E2(n, r, w).huge /\ ~E1(n, r, w).p)
      BY <1>2, <2>3, <3>2, <3>3, AbsentEntry
    <3> QED
      BY <3>1, <3>4, NoTranslation
  <2>4. CASE c.p
    <3>1. E2(n, r, w) = c
      BY <1>4, <1>6, <2>2, <2>4 DEF E2
    <3>2. ~c.huge => E1(n, r, w) = E1(m, r, w)
      <4>1. ~c.huge => c.to \in 0 .. NTables /\ c.to # f
        BY <1>1, <1>7, <2>4, AbsentEntry
      <4> QED
        BY <1>4, <1>6, <3>1, <4>1 DEF E1
    <3>3. ~E2(n, r, w).huge => E1(n, r, w) = E1(m, r, w)
      BY <3>1, <3>2
    <3> QED
      BY <2>1, <2>2, <3>1, <3>3, TranslateSame
  <2> QED
    BY <2>3, <2>4
<1> QED
  BY <1>8, <1>9, <1>10

-----------------------------------------------------------------------------
(* The walks of vmm.c.                                                     *)

\* What NULL points to is empty.
LEMMA AtNull ==
  ASSUME NEW m
  PROVE  At(m, NULL) = m[0][0]
BY DEF At, NULL

\* A pointer into a table is not NULL.
LEMMA NotNull ==
  ASSUME NEW f, NEW i, f # 0
  PROVE  <<f, i>> # NULL
BY DEF NULL

\* What get_pdpe, get_pde and get_pte point to.
LEMMA GetIs ==
  ASSUME NEW m, NEW u, NEW R, NEW lev, NEW usr, Shape(m, u, R, lev, usr),
         NEW r \in R, NEW v \in 0 .. Top - 1
  PROVE  /\ At(m, get_pml4e(r, v)) = E4(m, r, v)
         /\ get_pdpe(m, r, v) = (IF E4(m, r, v).p THEN <<E4(m, r, v).to, PDP_INDEX(v)>> ELSE NULL)
         /\ At(m, get_pdpe(m, r, v)) = E3(m, r, v)
         /\ get_pde(m, r, v) = (IF E3(m, r, v).p THEN <<E3(m, r, v).to, PD_INDEX(v)>> ELSE NULL)
         /\ At(m, get_pde(m, r, v)) = E2(m, r, v)
         /\ Below(m, get_pde(m, r, v), PT_INDEX(v)) =
              (IF E2(m, r, v).p THEN <<E2(m, r, v).to, PT_INDEX(v)>> ELSE NULL)
         /\ get_pte(m, r, v) = (IF E2(m, r, v).huge THEN <<E3(m, r, v).to, PD_INDEX(v)>>
                                ELSE IF E2(m, r, v).p THEN <<E2(m, r, v).to, PT_INDEX(v)>> ELSE NULL)
         /\ At(m, get_pte(m, r, v)) = (IF E2(m, r, v).huge THEN E2(m, r, v) ELSE E1(m, r, v))
         /\ E3(m, r, v).p => <<E3(m, r, v).to, PD_INDEX(v)>> # NULL
         /\ E2(m, r, v).p /\ ~E2(m, r, v).huge => <<E2(m, r, v).to, PT_INDEX(v)>> # NULL
<1> DEFINE a == E4(m, r, v)
           b == E3(m, r, v)
           c == E2(m, r, v)
           d == E1(m, r, v)
<1>1. /\ 0 \in Index /\ \A j \in Index : m[0][j] = Absent
      /\ PML4_INDEX(v) \in Index /\ PDP_INDEX(v) \in Index /\ PD_INDEX(v) \in Index /\ PT_INDEX(v) \in Index
  BY Digits DEF Shape, Typed, Index
<1>2. /\ a # Absent => a.p /\ a.to \in 1 .. u
      /\ b # Absent => b.p /\ b.to \in 1 .. u
      /\ c # Absent => b.p /\ c.p
      /\ c # Absent /\ ~c.huge => c.to \in 1 .. u
      /\ ~Absent.p /\ ~Absent.huge /\ Absent.to = 0
  BY Path, AbsentEntry
<1>3. /\ a = m[r][PML4_INDEX(v)] /\ b = m[a.to][PDP_INDEX(v)]
      /\ c = m[b.to][PD_INDEX(v)] /\ d = m[c.to][PT_INDEX(v)]
  BY DEF E4, E3, E2, E1
<1> HIDE DEF a, b, c, d
<1>4. At(m, get_pml4e(r, v)) = a
  <2>1. At(m, get_pml4e(r, v)) = m[r][PML4_INDEX(v)]
    BY DEF At, get_pml4e
  <2> QED
    BY <1>3, <2>1, ZenonT(40)
<1>5. get_pdpe(m, r, v) = IF a.p THEN <<a.to, PDP_INDEX(v)>> ELSE NULL
  BY <1>4 DEF get_pdpe, Below
<1>6. At(m, get_pdpe(m, r, v)) = b
  <2>1. CASE a.p
    <3>1. get_pdpe(m, r, v) = <<a.to, PDP_INDEX(v)>>
      BY <1>5, <2>1
    <3>2. At(m, get_pdpe(m, r, v)) = m[a.to][PDP_INDEX(v)]
      BY <3>1 DEF At
    <3> QED
      BY <1>3, <3>2, ZenonT(40)
  <2>2. CASE ~a.p
    <3>1. a.to = 0 /\ b = Absent
      BY <1>1, <1>2, <1>3, <2>2, ZenonT(40)
    <3> QED
      BY <1>1, <1>5, <2>2, <3>1, AtNull
  <2> QED
    BY <2>1, <2>2
<1>7. get_pde(m, r, v) = IF b.p THEN <<b.to, PD_INDEX(v)>> ELSE NULL
  BY <1>6 DEF get_pde, Below
<1>8. At(m, get_pde(m, r, v)) = c
  <2>1. CASE b.p
    <3>1. get_pde(m, r, v) = <<b.to, PD_INDEX(v)>>
      BY <1>7, <2>1
    <3>2. At(m, get_pde(m, r, v)) = m[b.to][PD_INDEX(v)]
      BY <3>1 DEF At
    <3> QED
      BY <1>3, <3>2, ZenonT(40)
  <2>2. CASE ~b.p
    <3>1. b.to = 0 /\ c = Absent
      BY <1>1, <1>2, <1>3, <2>2, ZenonT(40)
    <3> QED
      BY <1>1, <1>7, <2>2, <3>1, AtNull
  <2> QED
    BY <2>1, <2>2
<1>9. Below(m, get_pde(m, r, v), PT_INDEX(v)) = IF c.p THEN <<c.to, PT_INDEX(v)>> ELSE NULL
  BY <1>8 DEF Below
<1>10. get_pte(m, r, v) = IF c.p /\ c.huge THEN get_pde(m, r, v)
                          ELSE IF c.p THEN <<c.to, PT_INDEX(v)>> ELSE NULL
  BY <1>8, <1>9 DEF get_pte
<1>11. get_pte(m, r, v) = IF c.huge THEN <<b.to, PD_INDEX(v)>>
                          ELSE IF c.p THEN <<c.to, PT_INDEX(v)>> ELSE NULL
  <2>1. c.huge => c.p /\ b.p
    BY <1>2, ZenonT(40)
  <2> QED
    BY <1>7, <1>10, <2>1, ZenonT(40)
<1>12. At(m, get_pte(m, r, v)) = IF c.huge THEN c ELSE d
  <2>1. CASE c.huge
    <3>1. get_pte(m, r, v) = <<b.to, PD_INDEX(v)>>
      BY <1>11, <2>1
    <3>2. At(m, get_pte(m, r, v)) = m[b.to][PD_INDEX(v)]
      BY <3>1 DEF At
    <3> QED
      BY <1>3, <2>1, <3>2, ZenonT(40)
  <2>2. CASE ~c.huge /\ c.p
    <3>1. get_pte(m, r, v) = <<c.to, PT_INDEX(v)>>
      BY <1>11, <2>2
    <3>2. At(m, get_pte(m, r, v)) = m[c.to][PT_INDEX(v)]
      BY <3>1 DEF At
    <3> QED
      BY <1>3, <2>2, <3>2, ZenonT(40)
  <2>3. CASE ~c.huge /\ ~c.p
    <3>1. c.to = 0 /\ d = Absent
      BY <1>1, <1>2, <1>3, <2>3, ZenonT(40)
    <3> QED
      BY <1>1, <1>11, <2>3, <3>1, AtNull
  <2> QED
    BY <2>1, <2>2, <2>3
<1>13. /\ b.p => <<b.to, PD_INDEX(v)>> # NULL
       /\ c.p /\ ~c.huge => <<c.to, PT_INDEX(v)>> # NULL
  <2>1. (b.p => b.to # 0) /\ (c.p /\ ~c.huge => c.to # 0)
    BY <1>2
  <2> QED
    BY <2>1, NotNull, ZenonT(40)
<1> QED
  BY <1>4, <1>5, <1>6, <1>7, <1>8, <1>9, <1>11, <1>12, <1>13 DEF a, b, c, d

\* The entry that get_pte finds, and the one below it on the way.
LEMMA LeafPath ==
  ASSUME NEW m, NEW u, NEW R, NEW lev, NEW usr, Shape(m, u, R, lev, usr),
         NEW r \in R, NEW v \in 0 .. Top - 1
  PROVE  /\ E2(m, r, v) \in Entry /\ (~E2(m, r, v).huge => E1(m, r, v) \in Entry)
         /\ E2(m, r, v).huge => E2(m, r, v).p /\ E3(m, r, v).p
         /\ ~E2(m, r, v).huge /\ E1(m, r, v).p => E2(m, r, v).p
         /\ ~E2(m, r, v).huge => ~E1(m, r, v).huge
         /\ ~E2(m, r, v).huge /\ ~E1(m, r, v).p => E1(m, r, v) = Absent
<1> DEFINE b == E3(m, r, v)
           c == E2(m, r, v)
           d == E1(m, r, v)
<1>1. /\ c \in Entry /\ (~c.huge => d \in Entry) /\ (c # Absent => b.p /\ c.p)
      /\ (~c.huge /\ d # Absent => c.p /\ d.p) /\ (~c.huge => ~d.huge)
  BY Path, ZenonT(40)
<1> HIDE DEF b, c, d
<1>2. /\ c \in Entry /\ (~c.huge => d \in Entry) /\ (c.huge => c.p /\ b.p)
      /\ (~c.huge /\ d.p => c.p) /\ (~c.huge => ~d.huge) /\ (~c.huge /\ ~d.p => d = Absent)
  BY <1>1, AbsentEntry, ZenonT(40)
<1> QED
  BY <1>2, ZenonT(40) DEF b, c, d

\* What get_pte finds.
LEMMA GetLeaf ==
  ASSUME NEW m, NEW u, NEW R, NEW lev, NEW usr, Shape(m, u, R, lev, usr),
         NEW r \in R, NEW v \in 0 .. Top - 1
  PROVE  /\ get_pte(m, r, v) = (IF E2(m, r, v).huge THEN <<E3(m, r, v).to, PD_INDEX(v)>>
                                ELSE IF E2(m, r, v).p THEN <<E2(m, r, v).to, PT_INDEX(v)>> ELSE NULL)
         /\ At(m, get_pte(m, r, v)) = (IF E2(m, r, v).huge THEN E2(m, r, v) ELSE E1(m, r, v))
         /\ E3(m, r, v).p => <<E3(m, r, v).to, PD_INDEX(v)>> # NULL
         /\ E2(m, r, v).p /\ ~E2(m, r, v).huge => <<E2(m, r, v).to, PT_INDEX(v)>> # NULL
BY GetIs

\* What the processor finds at the same place.
LEMMA TranslateLeaf ==
  ASSUME NEW m, NEW u, NEW R, NEW lev, NEW usr, Shape(m, u, R, lev, usr),
         NEW r \in R, NEW v \in 0 .. Top - 1
  PROVE  /\ Translate(m, r, v) \in Entry
         /\ E2(m, r, v).huge =>
              Translate(m, r, v) = [p |-> TRUE, huge |-> TRUE, nx |-> E2(m, r, v).nx,
                                    user |-> Translate(m, r, v).user, to |-> E2(m, r, v).to + PT_INDEX(v)]
         /\ ~E2(m, r, v).huge /\ E1(m, r, v).p =>
              Translate(m, r, v) = [p |-> TRUE, huge |-> FALSE, nx |-> E1(m, r, v).nx,
                                    user |-> Translate(m, r, v).user, to |-> E1(m, r, v).to]
         /\ ~E2(m, r, v).huge /\ ~E1(m, r, v).p => Translate(m, r, v) = Absent
BY TranslateIs

\* The way to a page is a task's from the first entry to the last, or not at all.
LEMMA UserPath ==
  ASSUME NEW m, NEW u, NEW R, NEW lev, NEW usr, Shape(m, u, R, lev, usr),
         NEW r \in R, NEW v \in 0 .. Top - 1
  PROVE  LET us == PML4_INDEX(v) \notin KernelHalf
         IN  /\ UserSlot(lev, usr, r, PML4_INDEX(v)) <=> us
             /\ E4(m, r, v).p => (E4(m, r, v).to \in usr <=> us) /\ (E4(m, r, v).user <=> us)
             /\ E3(m, r, v).p => (E3(m, r, v).to \in usr <=> us) /\ (E3(m, r, v).user <=> us)
             /\ E2(m, r, v).p => (E2(m, r, v).user <=> us)
             /\ E2(m, r, v).p /\ ~E2(m, r, v).huge => (E2(m, r, v).to \in usr <=> us)
             /\ E2(m, r, v).huge => ~us
             /\ ~E2(m, r, v).huge /\ E1(m, r, v).p => (E1(m, r, v).user <=> us)
<1> DEFINE a == E4(m, r, v)
           b == E3(m, r, v)
           c == E2(m, r, v)
           d == E1(m, r, v)
           us == PML4_INDEX(v) \notin KernelHalf
<1>1. /\ PML4_INDEX(v) \in Index /\ PDP_INDEX(v) \in Index /\ PD_INDEX(v) \in Index /\ PT_INDEX(v) \in Index
      /\ r \in 1 .. u /\ lev[r] = 4 /\ r \notin usr
  BY Digits DEF Shape, Kinds
<1>2. /\ ~a.huge /\ (a # Absent => a.p /\ a.to \in 1 .. u /\ lev[a.to] = 3)
      /\ ~b.huge /\ (b # Absent => a.p /\ b.p /\ b.to \in 1 .. u /\ lev[b.to] = 2)
      /\ c # Absent => b.p /\ c.p
      /\ c # Absent /\ ~c.huge => c.to \in 1 .. u /\ lev[c.to] = 1
      /\ ~c.huge => ~d.huge /\ (d # Absent => c.p)
      /\ ~Absent.p /\ ~Absent.huge
  BY Path, AbsentEntry
<1>4. \A f \in 1 .. u, i \in Index : m[f][i].p =>
        /\ m[f][i].user <=> UserSlot(lev, usr, f, i)
        /\ m[f][i].huge => f \notin usr
        /\ ~m[f][i].huge /\ lev[f] # 1 => (m[f][i].to \in usr <=> UserSlot(lev, usr, f, i))
  BY ZenonT(40) DEF Shape, Entries, Ptr
<1>5. UserSlot(lev, usr, r, PML4_INDEX(v)) <=> us
  BY <1>1 DEF UserSlot
<1>6. \A f, i : lev[f] # 4 => (UserSlot(lev, usr, f, i) <=> f \in usr)
  BY DEF UserSlot
<1> HIDE DEF us
<1>7. a.p => (a.to \in usr <=> us) /\ (a.user <=> us)
  <2>1. /\ a.p => (a.user <=> UserSlot(lev, usr, r, PML4_INDEX(v)))
        /\ a.p => (a.to \in usr <=> UserSlot(lev, usr, r, PML4_INDEX(v)))
    <3>1. lev[r] # 1
      BY <1>1
    <3> QED
      BY <1>1, <1>2, <1>4, <3>1, ZenonT(40) DEF E4
  <2> QED
    BY <1>5, <2>1, ZenonT(40)
<1>8. b.p => (b.to \in usr <=> us) /\ (b.user <=> us)
  <2> SUFFICES ASSUME b.p PROVE (b.to \in usr <=> us) /\ (b.user <=> us)
    OBVIOUS
  <2> DEFINE g == a.to
  <2>1. a.p /\ g \in 1 .. u /\ lev[g] = 3
    BY <1>2, ZenonT(40)
  <2>2. lev[g] # 1 /\ lev[g] # 4
    BY <2>1
  <2>3. (b.user <=> UserSlot(lev, usr, g, PDP_INDEX(v))) /\ (b.to \in usr <=> UserSlot(lev, usr, g, PDP_INDEX(v)))
    BY <1>1, <1>2, <1>4, <2>1, <2>2, ZenonT(40) DEF E3
  <2> QED
    BY <1>6, <1>7, <2>1, <2>2, <2>3, ZenonT(40)
<1>9. c.p => (c.user <=> us) /\ (~c.huge => (c.to \in usr <=> us)) /\ (c.huge => ~us)
  <2> SUFFICES ASSUME c.p PROVE (c.user <=> us) /\ (~c.huge => (c.to \in usr <=> us)) /\ (c.huge => ~us)
    OBVIOUS
  <2> DEFINE g == b.to
  <2>1. b.p /\ g \in 1 .. u /\ lev[g] = 2
    BY <1>2, ZenonT(40)
  <2>2. lev[g] # 1 /\ lev[g] # 4
    BY <2>1
  <2>3. /\ c.user <=> UserSlot(lev, usr, g, PD_INDEX(v))
        /\ ~c.huge => (c.to \in usr <=> UserSlot(lev, usr, g, PD_INDEX(v)))
        /\ c.huge => g \notin usr
    BY <1>1, <1>4, <2>1, <2>2, ZenonT(40) DEF E2
  <2> QED
    BY <1>6, <1>8, <2>1, <2>2, <2>3, ZenonT(40)
<1>10. ~c.huge /\ d.p => (d.user <=> us)
  <2> SUFFICES ASSUME ~c.huge, d.p PROVE d.user <=> us
    OBVIOUS
  <2> DEFINE g == c.to
  <2>1. c.p /\ g \in 1 .. u /\ lev[g] = 1
    BY <1>2, ZenonT(40)
  <2>2. lev[g] # 4
    BY <2>1
  <2>3. d.user <=> UserSlot(lev, usr, g, PT_INDEX(v))
    BY <1>1, <1>4, <2>1, ZenonT(40) DEF E1
  <2> QED
    BY <1>6, <1>9, <2>1, <2>2, <2>3, ZenonT(40)
<1>11. c.huge => c.p
  BY <1>2, ZenonT(40)
<1> QED
  BY <1>5, <1>7, <1>8, <1>9, <1>10, <1>11, ZenonT(40) DEF us

\* Tables are added below the roots R; no present entry and no translation
\* changes.
Fine(m, u, R) == \E lev, usr : Shape(m, u, R, lev, usr)
Grown(m, u, n, t, R) ==
  /\ Fine(n, t, R) /\ u \in Nat /\ t \in Nat /\ u <= t
  /\ \A f \in 1 .. u, i \in Index : m[f][i].p => n[f][i] = m[f][i]
  /\ \A r \in R, w \in 0 .. Top - 1 : Translate(n, r, w) = Translate(m, r, w)

Walked(s, ok) == s.ok \in BOOLEAN /\ s = [ok |-> s.ok, mem |-> s.mem, used |-> s.used] /\ (s.ok => ok)

\* create_table in an empty slot of a reachable table keeps the shape, every
\* translation and every path.
LEMMA CreateGrows ==
  ASSUME NEW m, NEW u, NEW R, NEW lev, NEW usr, Shape(m, u, R, lev, usr),
         NEW f \in 1 .. u, NEW i \in Index, lev[f] # 1,
         NEW user \in BOOLEAN, user <=> UserSlot(lev, usr, f, i),
         lev[f] = 4 => (f = kernel_pml4 <=> i \in KernelHalf)
  PROVE  LET s == create_table([ok |-> TRUE, mem |-> m, used |-> u], <<f, i>>, user)
         IN  Walked(s, s.mem[f][i].p) /\ Grown(m, u, s.mem, s.used, R)
<1> DEFINE s0 == [ok |-> TRUE, mem |-> m, used |-> u]
           s == create_table(s0, <<f, i>>, user)
<1> SUFFICES Walked(s, s.mem[f][i].p) /\ Grown(m, u, s.mem, s.used, R)
  BY ZenonT(40)
<1>0. /\ u \in 3 .. NTables /\ f \in 0 .. NTables
      /\ m \in [0 .. NTables -> [Index -> Entry]]
  BY DEF Shape, Typed
<1>1. At(s0.mem, <<f, i>>) = m[f][i] /\ s0.ok /\ s0.used = u
  BY DEF At
<1>2. CASE m[f][i].p
  <2>1. s = s0
    BY <1>1, <1>2 DEF create_table
  <2>2. Grown(m, u, m, u, R)
    BY <1>0 DEF Grown, Fine
  <2> QED
    <3> HIDE DEF s
    <3>1. s.ok = TRUE /\ s.mem = m /\ s.used = u
      BY <2>1
    <3> QED
      BY <1>2, <2>1, <2>2, <3>1 DEF Walked
<1>3. CASE ~m[f][i].p /\ u = NTables
  <2>1. s = [ok |-> FALSE, mem |-> m, used |-> u]
    BY <1>1, <1>3, ZenonT(40) DEF create_table
  <2>2. Grown(m, u, m, u, R)
    BY <1>0 DEF Grown, Fine
  <2> QED
    <3> HIDE DEF s
    <3>1. s.ok = FALSE /\ s.mem = m /\ s.used = u
      BY <2>1
    <3> QED
      BY <2>1, <2>2, <3>1 DEF Walked
<1>4. CASE ~m[f][i].p /\ u # NTables
  <2> DEFINE n == Store(m, <<f, i>>, Table(u + 1, user))
  <2>1. s = [ok |-> TRUE, mem |-> n, used |-> u + 1]
    BY <1>1, <1>4, ZenonT(40) DEF create_table
  <2>2. u < NTables
    BY <1>0, <1>4
  <2>3. Fine(n, u + 1, R)
    BY <1>4, <2>2, CreateShape, ZenonT(40) DEF Fine
  <2>4. \A r \in R, w \in 0 .. Top - 1 : Translate(n, r, w) = Translate(m, r, w)
    BY <1>4, <2>2, CreateTranslate
  <2>5. Table(u + 1, user) \in Entry /\ Table(u + 1, user).p
    BY <1>0, TableEntry
  <2>6. Stored(n, m, f, i, Table(u + 1, user))
    BY <1>0, <2>5, StoreIs, ZenonT(40)
  <2> HIDE DEF n
  <2>7. n[f][i].p /\ \A g \in 1 .. u, j \in Index : m[g][j].p => n[g][j] = m[g][j]
    BY <1>0, <1>4, <2>5, <2>6 DEF Stored
  <2>8. Grown(m, u, n, u + 1, R)
    BY <1>0, <2>3, <2>4, <2>7 DEF Grown
  <2> QED
    <3> HIDE DEF s
    <3>1. s.ok = TRUE /\ s.mem = n /\ s.used = u + 1
      BY <2>1
    <3> QED
      BY <2>1, <2>7, <2>8, <3>1 DEF Walked
<1> QED
  BY <1>0, <1>2, <1>3, <1>4, ZenonT(40)

-----------------------------------------------------------------------------
(* The walks that create what is missing.                                  *)

\* What grew keeps the present entries of a path.
LEMMA GrownPath ==
  ASSUME NEW m, NEW u, NEW n, NEW t, NEW R, Fine(m, u, R), Grown(m, u, n, t, R),
         NEW r \in R, NEW v \in 0 .. Top - 1
  PROVE  /\ E4(m, r, v).p => E4(n, r, v) = E4(m, r, v)
         /\ E3(m, r, v).p => E3(n, r, v) = E3(m, r, v)
         /\ E2(m, r, v).p => E2(n, r, v) = E2(m, r, v)
<1> PICK lev, usr : Shape(m, u, R, lev, usr)
  BY DEF Fine
<1>1. /\ r \in 1 .. u
      /\ PML4_INDEX(v) \in Index /\ PDP_INDEX(v) \in Index /\ PD_INDEX(v) \in Index
  BY Digits DEF Shape, Kinds
<1>2. \A f \in 1 .. u, i \in Index : m[f][i].p => n[f][i] = m[f][i]
  BY DEF Grown
<1>3. /\ E3(m, r, v).p => E4(m, r, v).p /\ E4(m, r, v).to \in 1 .. u
      /\ E2(m, r, v).p => E3(m, r, v).p /\ E3(m, r, v).to \in 1 .. u
  BY Path, AbsentEntry
<1>4. E4(m, r, v).p => E4(n, r, v) = E4(m, r, v)
  BY <1>1, <1>2, ZenonT(40) DEF E4
<1>5. E3(m, r, v).p => E3(n, r, v) = E3(m, r, v)
  <2> SUFFICES ASSUME E3(m, r, v).p PROVE E3(n, r, v) = E3(m, r, v)
    OBVIOUS
  <2>1. n[E4(m, r, v).to][PDP_INDEX(v)] = m[E4(m, r, v).to][PDP_INDEX(v)]
    BY <1>1, <1>2, <1>3, ZenonT(40) DEF E3
  <2> QED
    BY <1>3, <1>4, <2>1, ZenonT(40) DEF E3
<1>6. E2(m, r, v).p => E2(n, r, v) = E2(m, r, v)
  <2> SUFFICES ASSUME E2(m, r, v).p PROVE E2(n, r, v) = E2(m, r, v)
    OBVIOUS
  <2>1. n[E3(m, r, v).to][PD_INDEX(v)] = m[E3(m, r, v).to][PD_INDEX(v)]
    BY <1>1, <1>2, <1>3, ZenonT(40) DEF E2
  <2> QED
    BY <1>3, <1>5, <2>1, ZenonT(40) DEF E2
<1> QED
  BY <1>4, <1>5, <1>6

\* Growth composes.
LEMMA GrownTransitive ==
  ASSUME NEW m, NEW u, NEW n, NEW t, NEW k, NEW w, NEW R, Grown(m, u, n, t, R), Grown(n, t, k, w, R)
  PROVE  Grown(m, u, k, w, R)
<1>1. Fine(k, w, R) /\ u \in Nat /\ w \in Nat /\ u <= w
  BY DEF Grown
<1>2. ASSUME NEW f \in 1 .. u, NEW i \in Index, m[f][i].p PROVE k[f][i] = m[f][i]
  <2>1. f \in 1 .. t
    BY DEF Grown
  <2>2. n[f][i] = m[f][i]
    BY <1>2 DEF Grown
  <2> QED
    BY <1>2, <2>1, <2>2 DEF Grown
<1>3. ASSUME NEW r \in R, NEW v \in 0 .. Top - 1 PROVE Translate(k, r, v) = Translate(m, r, v)
  BY DEF Grown
<1> QED
  BY <1>1, <1>2, <1>3 DEF Grown

\* The walks anybody makes: the kernel's own for the kernel's half, and a
\* task's for the other half.
Walks(R, r, v, user) ==
  /\ r \in R /\ v \in 0 .. Top - 1 /\ user \in BOOLEAN
  /\ user <=> PML4_INDEX(v) \notin KernelHalf
  /\ r = kernel_pml4 <=> PML4_INDEX(v) \in KernelHalf

Start(m, u) == [ok |-> TRUE, mem |-> m, used |-> u]

\* The first create_table of a walk: the top-level entry.
LEMMA Grow4 ==
  ASSUME NEW m, NEW u, NEW R, Fine(m, u, R), NEW r, NEW v, NEW user, Walks(R, r, v, user)
  PROVE  LET s == create_table(Start(m, u), get_pml4e(r, v), user)
         IN  Walked(s, E4(s.mem, r, v).p) /\ Grown(m, u, s.mem, s.used, R)
<1> PICK lev, usr : Shape(m, u, R, lev, usr)
  BY DEF Fine
<1> DEFINE i == PML4_INDEX(v)
           s == create_table(Start(m, u), <<r, i>>, user)
<1>1. r \in R /\ v \in 0 .. Top - 1 /\ user \in BOOLEAN /\ r \in 1 .. u /\ i \in Index /\ lev[r] = 4
  BY Digits DEF Walks, Shape, Kinds
<1>2. user <=> UserSlot(lev, usr, r, i)
  BY <1>1, UserPath, ZenonT(40) DEF Walks
<1>3. r = kernel_pml4 <=> i \in KernelHalf
  BY DEF Walks
<1>4. lev[r] # 1
  BY <1>1
<1>5. E4(s.mem, r, v) = s.mem[r][i] /\ get_pml4e(r, v) = <<r, i>>
  BY DEF E4, get_pml4e
<1> HIDE DEF i
<1>6. Walked(s, s.mem[r][i].p) /\ Grown(m, u, s.mem, s.used, R)
  BY <1>1, <1>2, <1>3, <1>4, CreateGrows, ZenonT(40) DEF Start
<1> HIDE DEF s
<1> QED
  BY <1>5, <1>6 DEF s

\* The second one, for the page directory.
LEMMA Grow3 ==
  ASSUME NEW m, NEW u, NEW R, Fine(m, u, R), NEW r, NEW v, NEW user, Walks(R, r, v, user),
         E4(m, r, v).p
  PROVE  LET s == create_table(Start(m, u), get_pdpe(m, r, v), user)
         IN  Walked(s, E3(s.mem, r, v).p) /\ Grown(m, u, s.mem, s.used, R)
<1> PICK lev, usr : Shape(m, u, R, lev, usr)
  BY DEF Fine
<1> DEFINE f == E4(m, r, v).to
           i == PDP_INDEX(v)
           s == create_table(Start(m, u), <<f, i>>, user)
<1>1. r \in R /\ v \in 0 .. Top - 1 /\ user \in BOOLEAN /\ i \in Index
  BY Digits DEF Walks
<1>2. f \in 1 .. u /\ lev[f] = 3
  BY <1>1, Path, AbsentEntry
<1>3. lev[f] # 1 /\ lev[f] # 4
  BY <1>2
<1>4. user <=> UserSlot(lev, usr, f, i)
  <2>1. user <=> f \in usr
    BY <1>1, UserPath, ZenonT(40) DEF Walks
  <2> QED
    BY <1>3, <2>1, ZenonT(40) DEF UserSlot
<1>5. get_pdpe(m, r, v) = <<f, i>>
  BY <1>1, GetIs
<1> HIDE DEF f, i
<1>6. Walked(s, s.mem[f][i].p) /\ Grown(m, u, s.mem, s.used, R)
  BY <1>1, <1>2, <1>3, <1>4, CreateGrows, ZenonT(40) DEF Start
<1> HIDE DEF s
<1>7. E3(s.mem, r, v) = s.mem[f][i]
  <2>1. E4(s.mem, r, v) = E4(m, r, v)
    BY <1>1, <1>6, GrownPath
  <2> QED
    BY <2>1, ZenonT(40) DEF E3, f, i
<1> QED
  BY <1>5, <1>6, <1>7, ZenonT(40) DEF s

\* The third one, for the page table.
LEMMA Grow2 ==
  ASSUME NEW m, NEW u, NEW R, Fine(m, u, R), NEW r, NEW v, NEW user, Walks(R, r, v, user),
         E3(m, r, v).p
  PROVE  LET s == create_table(Start(m, u), get_pde(m, r, v), user)
         IN  Walked(s, E2(s.mem, r, v).p) /\ Grown(m, u, s.mem, s.used, R)
<1> PICK lev, usr : Shape(m, u, R, lev, usr)
  BY DEF Fine
<1> DEFINE f == E3(m, r, v).to
           i == PD_INDEX(v)
           s == create_table(Start(m, u), <<f, i>>, user)
<1>1. r \in R /\ v \in 0 .. Top - 1 /\ user \in BOOLEAN /\ i \in Index
  BY Digits DEF Walks
<1>2. f \in 1 .. u /\ lev[f] = 2
  BY <1>1, Path, AbsentEntry
<1>3. lev[f] # 1 /\ lev[f] # 4
  BY <1>2
<1>4. user <=> UserSlot(lev, usr, f, i)
  <2>1. user <=> f \in usr
    BY <1>1, UserPath, ZenonT(40) DEF Walks
  <2> QED
    BY <1>3, <2>1 DEF UserSlot
<1>5. get_pde(m, r, v) = <<f, i>>
  BY <1>1, GetIs
<1> HIDE DEF f, i
<1>6. Walked(s, s.mem[f][i].p) /\ Grown(m, u, s.mem, s.used, R)
  BY <1>1, <1>2, <1>3, <1>4, CreateGrows, ZenonT(40) DEF Start
<1> HIDE DEF s
<1>7. E2(s.mem, r, v) = s.mem[f][i]
  <2>1. E3(s.mem, r, v) = E3(m, r, v)
    BY <1>1, <1>6, GrownPath
  <2> QED
    BY <2>1, ZenonT(40) DEF E2, f, i
<1> QED
  BY <1>5, <1>6, <1>7, ZenonT(40) DEF s

\* The walk of vmm_map_huge_2mb: it fails, or the page directory is there.
LEMMA DirectoryGrows ==
  ASSUME NEW R, Fine(mem, used, R), NEW r, NEW v, NEW user, Walks(R, r, v, user)
  PROVE  LET s == Directory(r, v, user)
         IN  Walked(s, E3(s.mem, r, v).p) /\ Grown(mem, used, s.mem, s.used, R)
<1> DEFINE a == create_table(Start(mem, used), get_pml4e(r, v), user)
           b == create_table(a, get_pdpe(a.mem, r, v), user)
<1>1. Directory(r, v, user) = IF a.ok THEN b ELSE a
  BY DEF Directory, Start
<1>2. Walked(a, E4(a.mem, r, v).p) /\ Grown(mem, used, a.mem, a.used, R)
  BY Grow4
<1> HIDE DEF a
<1>3. CASE ~a.ok
  BY <1>1, <1>2, <1>3 DEF Walked
<1>4. CASE a.ok
  <2>1. a = Start(a.mem, a.used) /\ E4(a.mem, r, v).p /\ Fine(a.mem, a.used, R)
    BY <1>2, <1>4 DEF Walked, Grown, Start
  <2> DEFINE c == create_table(Start(a.mem, a.used), get_pdpe(a.mem, r, v), user)
  <2>2. Walked(c, E3(c.mem, r, v).p) /\ Grown(a.mem, a.used, c.mem, c.used, R)
    BY <2>1, Grow3, ZenonT(40)
  <2>3. b = c
    BY <2>1, ZenonT(40)
  <2> HIDE DEF b, c
  <2>4. Grown(mem, used, c.mem, c.used, R)
    BY <1>2, <2>2, GrownTransitive, ZenonT(40)
  <2> QED
    BY <1>1, <1>4, <2>2, <2>3, <2>4
<1> QED
  BY <1>3, <1>4

\* The walk of vmm_map and vmm_map_for_pml4: it fails, meets a 2 MiB entry, or
\* the page table is there.
LEMMA TablesGrows ==
  ASSUME NEW R, Fine(mem, used, R), NEW r, NEW v, NEW user, Walks(R, r, v, user)
  PROVE  LET s == Tables(r, v, user)
         IN  Walked(s, E2(s.mem, r, v).p) /\ Grown(mem, used, s.mem, s.used, R)
<1> DEFINE a == Directory(r, v, user)
           b == create_table(a, get_pde(a.mem, r, v), user)
<1>1. Tables(r, v, user) = IF a.ok THEN b ELSE a
  BY DEF Tables
<1>2. Walked(a, E3(a.mem, r, v).p) /\ Grown(mem, used, a.mem, a.used, R)
  BY DirectoryGrows
<1> HIDE DEF a
<1>3. CASE ~a.ok
  BY <1>1, <1>2, <1>3 DEF Walked
<1>4. CASE a.ok
  <2>1. a = Start(a.mem, a.used) /\ E3(a.mem, r, v).p /\ Fine(a.mem, a.used, R)
    BY <1>2, <1>4 DEF Walked, Grown, Start
  <2> DEFINE c == create_table(Start(a.mem, a.used), get_pde(a.mem, r, v), user)
  <2>2. Walked(c, E2(c.mem, r, v).p) /\ Grown(a.mem, a.used, c.mem, c.used, R)
    BY <2>1, Grow2, ZenonT(40)
  <2>3. b = c
    BY <2>1, ZenonT(40)
  <2> HIDE DEF b, c
  <2>4. Grown(mem, used, c.mem, c.used, R)
    BY <1>2, <2>2, GrownTransitive, ZenonT(40)
  <2> QED
    BY <1>1, <1>4, <2>2, <2>3, <2>4
<1> QED
  BY <1>3, <1>4

-----------------------------------------------------------------------------
(* Stores in page tables and page directories.                             *)

\* Every page of a block has the block's upper digits.
LEMMA BlockSame ==
  ASSUME NEW v \in 0 .. Top - 1, NEW w \in 0 .. Top - 1, Huge(v) = Huge(w)
  PROVE  PML4_INDEX(v) = PML4_INDEX(w) /\ PDP_INDEX(v) = PDP_INDEX(w) /\ PD_INDEX(v) = PD_INDEX(w)
<1> DEFINE q == v \div Span
           s == w \div Span
<1>1. v \in Nat /\ w \in Nat
  BY Digits
<1>2. q \in Nat /\ s \in Nat
  BY <1>1, DivNat
<1> DEFINE x == Span * q
           y == Span * s
<1>3. v = x + PT_INDEX(v) /\ w = y + PT_INDEX(w) /\ PT_INDEX(v) \in Nat /\ PT_INDEX(w) \in Nat
  <2>1. v = x + PT_INDEX(v) /\ w = y + PT_INDEX(w)
    BY Digits, ZenonT(40)
  <2>2. PT_INDEX(v) \in 0 .. Span - 1 /\ PT_INDEX(w) \in 0 .. Span - 1
    BY Digits, ZenonT(40)
  <2>3. \A i \in 0 .. Span - 1 : i \in Nat
    OBVIOUS
  <2> QED
    BY <2>1, <2>2, <2>3, ZenonT(40)
<1> HIDE DEF q, s
<1>4. q = s
  <2>1. x \in Int /\ y \in Int
    BY <1>2
  <2>2. (q < s => x + Span <= y) /\ (s < q => y + Span <= x)
    BY <1>2, Product
  <2> HIDE DEF x, y
  <2>3. Huge(v) = v - PT_INDEX(v) /\ Huge(w) = w - PT_INDEX(w)
    BY DEF Huge, PT_INDEX
  <2>4. x = y
    <3>1. v - PT_INDEX(v) = x /\ w - PT_INDEX(w) = y
      BY <1>3, <2>1
    <3> QED
      BY <2>3, <3>1, ZenonT(40)
  <2> QED
    BY <1>2, <2>1, <2>2, <2>4
<1>5. v \div (Span * Span) = w \div (Span * Span)
  <2>1. (v \div Span) \div Span = v \div (Span * Span) /\ (w \div Span) \div Span = w \div (Span * Span)
    BY <1>1, DivDiv, ZenonT(40)
  <2> QED
    BY <1>4, <2>1 DEF q, s
<1>6. v \div (Span * Span * Span) = w \div (Span * Span * Span)
  <2> DEFINE S2 == Span * Span
  <2>1. S2 \in Nat \ {0}
    OBVIOUS
  <2> HIDE DEF S2
  <2>2. (v \div S2) \div Span = v \div (S2 * Span) /\ (w \div S2) \div Span = w \div (S2 * Span)
    BY <1>1, <2>1, DivDiv, ZenonT(40)
  <2> QED
    BY <1>5, <2>2 DEF S2
<1> QED
  BY <1>4, <1>5, <1>6 DEF PML4_INDEX, PDP_INDEX, PD_INDEX, q, s

\* No translation changes but that of page v below r: below every root if v is
\* in the kernel's half, which the roots share.
LeafStored(n, m, R, r, v) ==
  \A q \in R, w \in 0 .. Top - 1 :
    w # v \/ (q # r /\ PML4_INDEX(v) \notin KernelHalf) => Translate(n, q, w) = Translate(m, q, w)

\* A store in a page table, of an empty entry or of a page.
LEMMA StoreLeaf ==
  ASSUME NEW m, NEW u, NEW R, Fine(m, u, R), NEW r \in R, NEW v \in 0 .. Top - 1, NEW x \in Entry,
         E2(m, r, v).p, ~E2(m, r, v).huge,
         ~x.p => x = Absent, x.p => (x.user <=> PML4_INDEX(v) \notin KernelHalf) /\ ~x.huge
  PROVE  LET n == Store(m, <<E2(m, r, v).to, PT_INDEX(v)>>, x)
             t == Translate(n, r, v)
         IN  /\ Fine(n, u, R) /\ LeafStored(n, m, R, r, v)
             /\ (t.p <=> x.p) /\ ~t.huge /\ t.to = x.to /\ (~x.p => t = Absent)
<1> PICK lev, usr : Shape(m, u, R, lev, usr)
  BY DEF Fine
<1> DEFINE f == E2(m, r, v).to
           i == PT_INDEX(v)
           n == Store(m, <<f, i>>, x)
<1>1. f \in 1 .. u /\ lev[f] = 1 /\ i \in Index
  BY TableOnPath, Digits
<1>2. f \in usr <=> PML4_INDEX(v) \notin KernelHalf
  BY UserPath, ZenonT(40)
<1>3. lev[f] \in {1, 2} /\ lev[f] # 2 /\ f # 0
  BY <1>1
<1>4. x.p => (x.user <=> f \in usr) /\ (x.huge <=> lev[f] = 2) /\ (x.huge => f \notin usr)
  BY <1>2, <1>3
<1> HIDE DEF f, i
<1>5. Shape(n, u, R, lev, usr)
  BY <1>1, <1>3, <1>4, StoreShape, ZenonT(40)
<1>6. ASSUME NEW q \in R, NEW w \in 0 .. Top - 1
      PROVE  /\ E4(n, q, w) = E4(m, q, w) /\ E3(n, q, w) = E3(m, q, w) /\ E2(n, q, w) = E2(m, q, w)
             /\ ~E2(m, q, w).huge =>
                  E1(n, q, w) = IF E2(m, q, w).to = f /\ PT_INDEX(w) = i THEN x ELSE E1(m, q, w)
  BY <1>1, StorePage
<1> HIDE DEF n
<1>7. LeafStored(n, m, R, r, v)
  <2> SUFFICES ASSUME NEW q \in R, NEW w \in 0 .. Top - 1,
                      w # v \/ (q # r /\ PML4_INDEX(v) \notin KernelHalf)
               PROVE  Translate(n, q, w) = Translate(m, q, w)
    BY ZenonT(40) DEF LeafStored
  <2>1. ~(~E2(m, q, w).huge /\ E2(m, q, w).to = f /\ PT_INDEX(w) = i)
    <3> SUFFICES ASSUME ~E2(m, q, w).huge, E2(m, q, w).to = f, PT_INDEX(w) = i PROVE FALSE
      BY ZenonT(40)
    <3>1. E2(m, q, w).p
      BY <1>3, Path, AbsentEntry
    <3>2. /\ PML4_INDEX(v) = PML4_INDEX(w) /\ PDP_INDEX(v) = PDP_INDEX(w) /\ PD_INDEX(v) = PD_INDEX(w)
          /\ r = q \/ PML4_INDEX(v) \in KernelHalf
      BY <3>1, SamePath DEF f
    <3>3. v = w
      BY <3>2, SameBlock, ZenonT(40) DEF i
    <3> QED
      BY <3>2, <3>3, ZenonT(40)
  <2>2. ~E2(m, q, w).huge => E1(n, q, w) = E1(m, q, w)
    BY <1>6, <2>1
  <2>3. E4(n, q, w) = E4(m, q, w) /\ E3(n, q, w) = E3(m, q, w) /\ E2(n, q, w) = E2(m, q, w)
    BY <1>6, <2>2
  <2> QED
    BY <2>2, <2>3, TranslateSame
<1>8. ~E2(n, r, v).huge /\ E1(n, r, v) = x
  BY <1>6 DEF f, i
<1>9. /\ x.p => Translate(n, r, v) = [p |-> TRUE, huge |-> FALSE, nx |-> x.nx, to |-> x.to, user |-> Translate(n, r, v).user]
      /\ ~x.p => Translate(n, r, v) = Absent
  BY <1>5, <1>8, TranslateIs
<1>10. (Translate(n, r, v).p <=> x.p) /\ ~Translate(n, r, v).huge /\ Translate(n, r, v).to = x.to
  <2>1. CASE x.p
    BY <1>9, <2>1
  <2>2. CASE ~x.p
    BY <1>9, <2>2, AbsentEntry
  <2> QED
    BY <2>1, <2>2, ZenonT(40)
<1>11. Fine(n, u, R)
  BY <1>5 DEF Fine
<1> QED
  BY <1>7, <1>9, <1>10, <1>11 DEF n, f, i

\* The pages of a block share the page directory entry.
LEMMA BlockEntries ==
  ASSUME NEW m, NEW r, NEW v \in 0 .. Top - 1, NEW w \in 0 .. Top - 1, Huge(v) = Huge(w)
  PROVE  E4(m, r, v) = E4(m, r, w) /\ E3(m, r, v) = E3(m, r, w) /\ E2(m, r, v) = E2(m, r, w)
<1>1. PML4_INDEX(v) = PML4_INDEX(w) /\ PDP_INDEX(v) = PDP_INDEX(w) /\ PD_INDEX(v) = PD_INDEX(w)
  BY BlockSame
<1> QED
  BY <1>1, ZenonT(40) DEF E4, E3, E2

\* Only the block of v changes; below r it becomes what x says.
BlockStored(n, m, R, r, v, x) ==
  /\ \A q \in R, w \in 0 .. Top - 1 : Huge(w) # Huge(v) => Translate(n, q, w) = Translate(m, q, w)
  /\ \A w \in 0 .. Top - 1 : Huge(w) = Huge(v) =>
       /\ x.p => /\ Translate(n, r, w).p /\ Translate(n, r, w).huge
                 /\ Translate(n, r, w).nx = x.nx /\ Translate(n, r, w).to = x.to + PT_INDEX(w)
       /\ ~x.p => Translate(n, r, w) = Absent

\* A store in a page directory, of an empty entry or of a 2 MiB mapping.
LEMMA StoreBlock ==
  ASSUME NEW m, NEW u, NEW R, Fine(m, u, R), NEW r \in R, NEW v \in 0 .. Top - 1, NEW x \in Entry,
         E3(m, r, v).p, PML4_INDEX(v) \in KernelHalf,
         ~x.p => x = Absent, x.p => ~x.user /\ x.huge
  PROVE  LET n == Store(m, <<E3(m, r, v).to, PD_INDEX(v)>>, x)
         IN  Fine(n, u, R) /\ BlockStored(n, m, R, r, v, x)
<1> PICK lev, usr : Shape(m, u, R, lev, usr)
  BY DEF Fine
<1> DEFINE f == E3(m, r, v).to
           i == PD_INDEX(v)
           n == Store(m, <<f, i>>, x)
<1>1. f \in 1 .. u /\ lev[f] = 2 /\ i \in Index
  BY Path, AbsentEntry, Digits
<1>2. f \notin usr
  BY UserPath, ZenonT(40)
<1>3. lev[f] \in {1, 2} /\ f # 0
  BY <1>1
<1>4. x.p => (x.user <=> f \in usr) /\ (x.huge <=> lev[f] = 2) /\ (x.huge => f \notin usr)
  BY <1>1, <1>2
<1> HIDE DEF f, i
<1>5. Shape(n, u, R, lev, usr)
  BY <1>1, <1>3, <1>4, StoreShape, ZenonT(40)
<1>6. ASSUME NEW q \in R, NEW w \in 0 .. Top - 1
      PROVE  LET hit == E3(m, q, w).to = f /\ PD_INDEX(w) = i
             IN  /\ E4(n, q, w) = E4(m, q, w) /\ E3(n, q, w) = E3(m, q, w)
                 /\ E2(n, q, w) = IF hit THEN x ELSE E2(m, q, w)
                 /\ ~hit /\ ~E2(m, q, w).huge => E1(n, q, w) = E1(m, q, w)
  BY <1>1, StoreDir
<1> HIDE DEF n
<1>7. ASSUME NEW q \in R, NEW w \in 0 .. Top - 1, Huge(w) # Huge(v)
      PROVE  Translate(n, q, w) = Translate(m, q, w)
  <2>1. ~(E3(m, q, w).to = f /\ PD_INDEX(w) = i)
    <3> SUFFICES ASSUME E3(m, q, w).to = f, PD_INDEX(w) = i PROVE FALSE
      BY ZenonT(40)
    <3>1. E3(m, q, w).p
      BY <1>3, Path, AbsentEntry
    <3>2. PML4_INDEX(v) = PML4_INDEX(w) /\ PDP_INDEX(v) = PDP_INDEX(w)
      BY <3>1, SamePath DEF f
    <3> QED
      BY <1>7, <3>2, SameBlock, ZenonT(40) DEF i
  <2>2. E2(n, q, w) = E2(m, q, w) /\ (~E2(m, q, w).huge => E1(n, q, w) = E1(m, q, w))
    BY <1>6, <2>1
  <2>3. E4(n, q, w) = E4(m, q, w) /\ E3(n, q, w) = E3(m, q, w) /\ E2(n, q, w) = E2(m, q, w)
    BY <1>6, <2>2
  <2> QED
    BY <2>2, <2>3, TranslateSame
<1>8. ASSUME NEW w \in 0 .. Top - 1, Huge(w) = Huge(v)
      PROVE  /\ x.p => /\ Translate(n, r, w).p /\ Translate(n, r, w).huge
                       /\ Translate(n, r, w).nx = x.nx /\ Translate(n, r, w).to = x.to + PT_INDEX(w)
             /\ ~x.p => Translate(n, r, w) = Absent
  <2>1. E3(m, r, w).to = f
    BY <1>8, BlockEntries, ZenonT(40) DEF f
  <2>2. PD_INDEX(w) = i
    BY <1>8, BlockSame, ZenonT(40) DEF i
  <2>3. E2(n, r, w) = x
    BY <1>6, <2>1, <2>2
  <2>4. CASE x.p
    <3>1. Translate(n, r, w) = [p |-> TRUE, huge |-> TRUE, nx |-> x.nx, user |-> Translate(n, r, w).user,
                                to |-> x.to + PT_INDEX(w)]
      BY <1>5, <2>3, <2>4, TranslateIs
    <3> QED
      BY <2>4, <3>1
  <2>5. CASE ~x.p
    BY <2>3, <2>5, NoTranslation, ZenonT(40)
  <2> QED
    BY <2>4, <2>5
<1>9. Fine(n, u, R)
  BY <1>5 DEF Fine
<1> QED
  BY <1>7, <1>8, <1>9, ZenonT(40) DEF n, f, i, BlockStored

\* The entry that maps a page.
LEMMA LeafEntry ==
  ASSUME NEW r, NEW c \in Nat \X BOOLEAN, NEW user \in BOOLEAN, r.i \in Nat
  PROVE  LET x == Leaf(r, c, user)
         IN  x \in Entry /\ x.p /\ ~x.huge /\ x.user = user /\ x.to = c[1] + r.i
<1> DEFINE t == c[1] + r.i
           nx == c[2]
           x == [Absent EXCEPT !.p = TRUE, !.nx = nx, !.user = user, !.to = t]
<1>1. t \in Nat /\ nx \in BOOLEAN
  OBVIOUS
<1>2. Leaf(r, c, user) = x
  BY DEF Leaf
<1> HIDE DEF t, nx
<1>3. x \in Entry
  BY <1>1, AbsentEntry, ZenonT(40) DEF Entry
<1>4. x.p = TRUE /\ x.huge = FALSE /\ x.user = user /\ x.to = t
  BY DEF Absent
<1> HIDE DEF x
<1> QED
  BY <1>2, <1>3, <1>4 DEF t

\* The entry that maps a block.
LEMMA HugeEntry ==
  ASSUME NEW x \in Entry
  PROVE  LET y == [x EXCEPT !.huge = TRUE]
         IN  y \in Entry /\ y.p = x.p /\ y.huge /\ y.user = x.user /\ y.to = x.to
BY ZenonT(40) DEF Entry

\* The store that maps page v, after the walk that made its tables.
Mapped(n, u, R, r, v, to) ==
  /\ Fine(n, u, R) /\ LeafStored(n, mem, R, r, v) /\ Translate(mem, r, v) = Absent
  /\ Translate(n, r, v).p /\ ~Translate(n, r, v).huge /\ Translate(n, r, v).to = to

-----------------------------------------------------------------------------
(* A new address space.                                                    *)

\* A new top-level table: the kernel's half of the kernel's, and nothing else.
NewTable(n, m, u) ==
  /\ n \in [0 .. NTables -> [Index -> Entry]]
  /\ \A g \in 0 .. NTables, j \in Index :
       n[g][j] = IF g # u + 1 THEN m[g][j] ELSE IF j \in KernelHalf THEN m[kernel_pml4][j] ELSE Absent

\* The copy in task_create_from_elf is such a table.
LEMMA NewTableIs ==
  ASSUME NEW m \in [0 .. NTables -> [Index -> Entry]], NEW u \in Nat, u < NTables
  PROVE  NewTable([m EXCEPT ![u + 1] =
                    [i \in DOMAIN @ |-> IF i \in KernelHalf THEN m[kernel_pml4][i] ELSE Absent]], m, u)
<1> DEFINE t == [i \in DOMAIN m[u + 1] |-> IF i \in KernelHalf THEN m[kernel_pml4][i] ELSE Absent]
           n == [m EXCEPT ![u + 1] = t]
<1>1. u + 1 \in 0 .. NTables /\ kernel_pml4 \in 0 .. NTables
  BY DEF kernel_pml4
<1>2. DOMAIN m[u + 1] = Index /\ \A i \in Index : m[kernel_pml4][i] \in Entry
  BY <1>1
<1>3. t \in [Index -> Entry] /\ \A i \in Index : t[i] = IF i \in KernelHalf THEN m[kernel_pml4][i] ELSE Absent
  BY <1>2, AbsentEntry
<1> HIDE DEF t
<1>4. n \in [0 .. NTables -> [Index -> Entry]]
  BY <1>1, <1>3
<1>5. \A g \in 0 .. NTables : n[g] = IF g = u + 1 THEN t ELSE m[g]
  BY <1>1
<1> HIDE DEF n
<1>6. NewTable(n, m, u)
  BY <1>3, <1>4, <1>5 DEF NewTable
<1> QED
  BY <1>6 DEF n, t

\* It becomes another root.
LEMMA NewShape ==
  ASSUME NEW m, NEW u, NEW R, NEW lev, NEW usr, Shape(m, u, R, lev, usr), u < NTables,
         NEW n, NewTable(n, m, u)
  PROVE  Shape(n, u + 1, R \cup {u + 1}, [lev EXCEPT ![u + 1] = 4], usr \ {u + 1})
<1> DEFINE z == u + 1
           k == kernel_pml4
           S == R \cup {z}
           l == [lev EXCEPT ![z] = 4]
           us == usr \ {z}
<1>1. /\ m \in [0 .. NTables -> [Index -> Entry]] /\ u \in 3 .. NTables
      /\ \A f \in 0 .. NTables, i \in Index : ~m[f][i].p \/ f = 0 \/ f > u => m[f][i] = Absent
  BY DEF Shape, Typed
<1>2. /\ lev \in [Frames -> 1 .. 4] /\ usr \subseteq Frames
      /\ R \subseteq 1 .. u /\ k \in R /\ R \cap usr = {}
      /\ \A f \in 1 .. u : lev[f] = 4 <=> f \in R
  BY DEF Shape, Kinds
<1>3. /\ n \in [0 .. NTables -> [Index -> Entry]]
      /\ \A g \in 0 .. NTables, j \in Index : g # z => n[g][j] = m[g][j]
      /\ \A j \in Index : n[z][j] = IF j \in KernelHalf THEN m[k][j] ELSE Absent
  BY <1>1 DEF NewTable
<1>4. z \in 3 .. NTables /\ z \in Frames /\ z # 0 /\ z \notin R /\ z \notin us /\ k \in 1 .. u /\ k # z
  BY <1>1, <1>2 DEF Frames
<1>5. l \in [Frames -> 1 .. 4] /\ l[z] = 4 /\ \A f \in 1 .. u : l[f] = lev[f] /\ (f \in us <=> f \in usr)
  BY <1>1, <1>2, <1>4 DEF Frames
<1>6. \A f \in 1 .. z : f = z \/ (f \in 1 .. u /\ f # z /\ f \in 0 .. NTables)
  BY <1>1
<1> HIDE DEF z, S, l, us
<1>7. Typed(n, z)
  <2> SUFFICES ASSUME NEW f \in 0 .. NTables, NEW i \in Index, ~n[f][i].p \/ f = 0 \/ f > z
               PROVE  n[f][i] = Absent
    BY <1>3, <1>4, ZenonT(40) DEF Typed
  <2>1. CASE f = z
    <3>1. ~n[z][i].p
      BY <1>4, <2>1
    <3>2. CASE i \in KernelHalf
      BY <1>1, <1>3, <1>4, <2>1, <3>1, <3>2
    <3>3. CASE i \notin KernelHalf
      BY <1>3, <2>1, <3>3
    <3> QED
      BY <3>2, <3>3
  <2>2. CASE f # z
    <3>1. ~m[f][i].p \/ f = 0 \/ f > u
      BY <1>1, <1>3, <2>2 DEF z
    <3> QED
      BY <1>1, <1>3, <2>2, <3>1
  <2> QED
    BY <2>1, <2>2
<1>8. Kinds(z, S, l, us)
  <2>1. us \subseteq Frames /\ k \in S /\ S \cap us = {}
    BY <1>2, <1>4 DEF S, us
  <2>2. S \subseteq 1 .. z
    BY <1>1, <1>2 DEF S, z
  <2>3. ASSUME NEW f \in 1 .. z PROVE l[f] = 4 <=> f \in S
    <3>1. CASE f = z
      BY <1>5, <3>1 DEF S
    <3>2. CASE f # z
      BY <1>2, <1>5, <1>6, <3>2 DEF S
    <3> QED
      BY <3>1, <3>2
  <2> QED
    BY <1>5, <2>1, <2>2, <2>3 DEF Kinds
<1>9. ASSUME NEW i \in Index, n[z][i].p
      PROVE  /\ n[z][i] = m[k][i] /\ i \in KernelHalf /\ m[k][i].p /\ ~m[k][i].user /\ ~m[k][i].huge
             /\ Ptr(m, lev, k, i) /\ m[k][i].to \in 1 .. u /\ lev[m[k][i].to] = 3 /\ m[k][i].to \notin usr
  <2>1. n[z][i] = m[k][i] /\ i \in KernelHalf /\ m[k][i].p
    BY <1>3, <1>9, AbsentEntry, ZenonT(40)
  <2>2. lev[k] = 4 /\ k \notin usr /\ lev[k] # 2 /\ lev[k] # 1 /\ lev[k] - 1 = 3
    BY <1>2, <1>4
  <2>3. ~UserSlot(lev, usr, k, i)
    BY <2>1, <2>2 DEF UserSlot
  <2>4. ~m[k][i].huge
    BY <1>4, <2>1, <2>2, ZenonT(40) DEF Shape, Entries
  <2>5. Ptr(m, lev, k, i)
    BY <2>1, <2>2, <2>4 DEF Ptr
  <2>6. /\ m[k][i].user <=> UserSlot(lev, usr, k, i)
        /\ m[k][i].to \in 1 .. u /\ lev[m[k][i].to] = lev[k] - 1
        /\ m[k][i].to \in usr <=> UserSlot(lev, usr, k, i)
    BY <1>4, <2>1, <2>5, ZenonT(40) DEF Shape, Entries
  <2> QED
    BY <2>1, <2>2, <2>3, <2>4, <2>5, <2>6, ZenonT(40)
<1>10. ASSUME NEW f \in 1 .. u, NEW i \in Index
       PROVE  /\ n[f][i] = m[f][i] /\ (UserSlot(l, us, f, i) <=> UserSlot(lev, usr, f, i))
              /\ Ptr(n, l, f, i) <=> Ptr(m, lev, f, i)
  <2>1. n[f][i] = m[f][i] /\ l[f] = lev[f] /\ (f \in us <=> f \in usr)
    BY <1>1, <1>3, <1>5 DEF z
  <2> QED
    BY <2>1, ZenonT(40) DEF UserSlot, Ptr
<1>11. Entries(n, z, l, us)
  <2> SUFFICES ASSUME NEW f \in 1 .. z, NEW i \in Index, n[f][i].p
               PROVE  /\ n[f][i].user <=> UserSlot(l, us, f, i)
                      /\ n[f][i].huge => l[f] = 2 /\ f \notin us
                      /\ Ptr(n, l, f, i) => /\ n[f][i].to \in 1 .. z
                                            /\ l[n[f][i].to] = l[f] - 1
                                            /\ n[f][i].to \in us <=> UserSlot(l, us, f, i)
    BY ZenonT(40) DEF Entries
  <2>1. CASE f = z
    <3>1. ~UserSlot(l, us, z, i)
      BY <1>4, <1>9, <2>1, ZenonT(40) DEF UserSlot
    <3>2. n[z][i].to \in 1 .. u /\ l[n[z][i].to] = 3 /\ n[z][i].to \notin us /\ ~n[z][i].user /\ ~n[z][i].huge
      BY <1>5, <1>9, <2>1, ZenonT(40)
    <3>3. n[z][i].to \in 1 .. z /\ l[z] - 1 = 3
      <4>1. l[z] = 4
        BY <1>5
      <4>2. \A g \in 1 .. u : g \in 1 .. z
        BY <1>1 DEF z
      <4>3. n[z][i].to \in 1 .. z
        BY <3>2, <4>2, ZenonT(40)
      <4> QED
        BY <4>1, <4>3
    <3> QED
      BY <1>5, <2>1, <3>1, <3>2, <3>3, ZenonT(40)
  <2>2. CASE f # z
    <3>1. f \in 1 .. u
      BY <1>6, <2>2
    <3>2. /\ m[f][i].user <=> UserSlot(lev, usr, f, i)
          /\ m[f][i].huge => lev[f] = 2 /\ f \notin usr
          /\ Ptr(m, lev, f, i) => /\ m[f][i].to \in 1 .. u
                                  /\ lev[m[f][i].to] = lev[f] - 1
                                  /\ m[f][i].to \in usr <=> UserSlot(lev, usr, f, i)
      BY <1>10, <3>1, ZenonT(40) DEF Shape, Entries
    <3>3. \A g \in 1 .. u : g \in 1 .. z
      BY <1>1 DEF z
    <3>4. /\ n[f][i] = m[f][i] /\ (UserSlot(l, us, f, i) <=> UserSlot(lev, usr, f, i))
          /\ Ptr(n, l, f, i) <=> Ptr(m, lev, f, i)
      BY <1>10, <3>1, ZenonT(40)
    <3>5. l[f] = lev[f] /\ (f \in us <=> f \in usr)
      BY <1>5, <3>1, ZenonT(40)
    <3>6. ASSUME Ptr(n, l, f, i)
          PROVE  /\ n[f][i].to \in 1 .. z /\ l[n[f][i].to] = l[f] - 1
                 /\ n[f][i].to \in us <=> UserSlot(l, us, f, i)
      <4>1. /\ n[f][i].to \in 1 .. u /\ lev[n[f][i].to] = lev[f] - 1
            /\ n[f][i].to \in usr <=> UserSlot(lev, usr, f, i)
        BY <3>2, <3>4, <3>6, ZenonT(40)
      <4>2. l[n[f][i].to] = lev[n[f][i].to] /\ (n[f][i].to \in us <=> n[f][i].to \in usr)
        BY <1>5, <4>1, ZenonT(40)
      <4> QED
        BY <3>3, <3>4, <3>5, <4>1, <4>2, ZenonT(40)
    <3> QED
      BY <3>2, <3>4, <3>5, <3>6, ZenonT(40)
  <2> QED
    BY <2>1, <2>2, ZenonT(40)
<1>12. Tree(n, z, l)
  <2> SUFFICES ASSUME NEW f \in 1 .. z, NEW g \in 1 .. z, NEW i \in Index, NEW j \in Index,
                      Ptr(n, l, f, i), Ptr(n, l, g, j), n[f][i].to = n[g][j].to
               PROVE  i = j /\ (f = g \/ (l[f] = 4 /\ l[g] = 4 /\ i \in KernelHalf))
    BY DEF Tree
  <2>1. \A a, b \in 1 .. u, c, d \in Index :
          Ptr(m, lev, a, c) /\ Ptr(m, lev, b, d) /\ m[a][c].to = m[b][d].to =>
            c = d /\ (a = b \/ (lev[a] = 4 /\ lev[b] = 4 /\ c \in KernelHalf))
    BY DEF Shape, Tree
  <2>2. n[f][i].p /\ n[g][j].p /\ lev[k] = 4
    BY <1>2, <1>4 DEF Ptr
  <2>3. CASE f = z /\ g = z
    <3>1. Ptr(m, lev, k, i) /\ Ptr(m, lev, k, j) /\ m[k][i].to = m[k][j].to
      BY <1>9, <2>2, <2>3, ZenonT(40)
    <3> QED
      BY <1>4, <2>1, <2>3, <3>1
  <2>4. CASE f = z /\ g # z
    <3>1. Ptr(m, lev, k, i) /\ n[f][i] = m[k][i] /\ i \in KernelHalf
      BY <1>9, <2>2, <2>4, ZenonT(40)
    <3>2. g \in 1 .. u /\ Ptr(m, lev, g, j) /\ n[g][j] = m[g][j]
      BY <1>6, <1>10, <2>4
    <3>3. i = j /\ (k = g \/ lev[g] = 4)
      BY <1>4, <2>1, <3>1, <3>2
    <3> QED
      BY <1>5, <2>2, <2>4, <3>1, <3>2, <3>3
  <2>5. CASE f # z /\ g = z
    <3>1. Ptr(m, lev, k, j) /\ n[g][j] = m[k][j] /\ j \in KernelHalf
      BY <1>9, <2>2, <2>5, ZenonT(40)
    <3>2. f \in 1 .. u /\ Ptr(m, lev, f, i) /\ n[f][i] = m[f][i]
      BY <1>6, <1>10, <2>5
    <3>3. i = j /\ (k = f \/ lev[f] = 4)
      BY <1>4, <2>1, <3>1, <3>2
    <3> QED
      BY <1>5, <2>2, <2>5, <3>1, <3>2, <3>3
  <2>6. CASE f # z /\ g # z
    <3>1. f \in 1 .. u /\ g \in 1 .. u
      BY <1>6, <2>6
    <3>2. Ptr(m, lev, f, i) /\ Ptr(m, lev, g, j) /\ m[f][i].to = m[g][j].to
      BY <1>10, <3>1
    <3> QED
      BY <1>5, <2>1, <3>1, <3>2
  <2> QED
    BY <2>3, <2>4, <2>5, <2>6
<1>13. Shared(n, S)
  <2>1. /\ \A i \in Index \ KernelHalf : ~m[k][i].p
        /\ \A r \in R, i \in KernelHalf : m[r][i].p => m[r][i] = m[k][i]
    BY DEF Shape, Shared
  <2>2. \A r \in R, i \in Index : n[r][i] = m[r][i]
    BY <1>2, <1>10
  <2>3. \A i \in KernelHalf : i \in Index
    BY HalfOf
  <2>4. ASSUME NEW r \in S, NEW i \in KernelHalf, n[r][i].p PROVE n[r][i] = n[k][i]
    <3>1. CASE r = z
      BY <1>2, <1>9, <2>2, <2>3, <2>4, <3>1, ZenonT(40)
    <3>2. CASE r \in R
      <4>1. i \in Index /\ k \in R
        BY <1>2, <2>3
      <4>2. n[r][i] = m[r][i] /\ n[k][i] = m[k][i]
        BY <2>2, <3>2, <4>1, ZenonT(40)
      <4> QED
        BY <2>1, <2>4, <3>2, <4>2, ZenonT(40)
    <3> QED
      BY <3>1, <3>2 DEF S
  <2> QED
    BY <1>2, <2>1, <2>2, <2>4 DEF Shared
<1>14. Shape(n, z, S, l, us)
  BY <1>7, <1>8, <1>11, <1>12, <1>13 DEF Shape
<1> QED
  BY <1>14 DEF z, S, l, us

\* It changes no translation below the other roots.
LEMMA NewTranslate ==
  ASSUME NEW m, NEW u, NEW R, NEW lev, NEW usr, Shape(m, u, R, lev, usr), u < NTables,
         NEW n, NewTable(n, m, u), NEW r \in R, NEW w \in 0 .. Top - 1
  PROVE  Translate(n, r, w) = Translate(m, r, w)
<1>1. u \in Nat /\ r \in 0 .. u
  BY DEF Shape, Typed, Kinds
<1>2. ASSUME NEW f \in 0 .. u, NEW i \in Index PROVE n[f][i] = m[f][i]
  BY <1>1 DEF NewTable
<1>3. PML4_INDEX(w) \in Index /\ PDP_INDEX(w) \in Index /\ PD_INDEX(w) \in Index /\ PT_INDEX(w) \in Index
  BY Digits
<1>4. E4(m, r, w).to \in 0 .. u /\ E3(m, r, w).to \in 0 .. u /\ (~E2(m, r, w).huge => E2(m, r, w).to \in 0 .. u)
  <2> DEFINE a == E4(m, r, w)
             b == E3(m, r, w)
             e == E2(m, r, w)
  <2>1. /\ a # Absent => a.to \in 1 .. u
        /\ b # Absent => b.to \in 1 .. u
        /\ e # Absent /\ ~e.huge => e.to \in 1 .. u
    BY Path, ZenonT(40)
  <2>2. Absent.to \in 0 .. u /\ 1 .. u \subseteq 0 .. u
    BY <1>1, AbsentEntry
  <2> HIDE DEF a, b, e
  <2>3. a.to \in 0 .. u /\ b.to \in 0 .. u /\ (~e.huge => e.to \in 0 .. u)
    BY <2>1, <2>2, ZenonT(40)
  <2> QED
    BY <2>3, ZenonT(40) DEF a, b, e
<1>5. E4(n, r, w) = E4(m, r, w)
  BY <1>1, <1>2, <1>3, ZenonT(40) DEF E4
<1>6. E3(n, r, w) = E3(m, r, w)
  <2>1. n[E4(m, r, w).to][PDP_INDEX(w)] = m[E4(m, r, w).to][PDP_INDEX(w)]
    BY <1>2, <1>3, <1>4, ZenonT(40)
  <2> QED
    BY <1>5, <2>1, ZenonT(40) DEF E3
<1>7. E2(n, r, w) = E2(m, r, w)
  <2>1. n[E3(m, r, w).to][PD_INDEX(w)] = m[E3(m, r, w).to][PD_INDEX(w)]
    BY <1>2, <1>3, <1>4, ZenonT(40)
  <2> QED
    BY <1>6, <2>1, ZenonT(40) DEF E2
<1>8. ~E2(m, r, w).huge => E1(n, r, w) = E1(m, r, w)
  <2>1. ~E2(m, r, w).huge => n[E2(m, r, w).to][PT_INDEX(w)] = m[E2(m, r, w).to][PT_INDEX(w)]
    BY <1>2, <1>3, <1>4, ZenonT(40)
  <2> QED
    BY <1>7, <2>1, ZenonT(40) DEF E1
<1> QED
  BY <1>5, <1>6, <1>7, <1>8, TranslateSame

-----------------------------------------------------------------------------
(* The bootloader's tables.                                                *)

\* Three entries, in three tables.
LEMMA BootIs ==
  LET a == PML4_INDEX(BootPage)
      b == PDP_INDEX(BootPage)
      c == PD_INDEX(BootPage)
      h == [Table(BootFrame, FALSE) EXCEPT !.huge = TRUE]
  IN  /\ a \in KernelHalf /\ a \in Index /\ b \in Index /\ c \in Index
      /\ h \in Entry /\ h.p /\ h.huge /\ ~h.user
      /\ BootTables \in [0 .. NTables -> [Index -> Entry]]
      /\ \A g \in 0 .. NTables, j \in Index :
           BootTables[g][j] = IF g = 1 /\ j = a THEN Table(2, FALSE)
                              ELSE IF g = 2 /\ j = b THEN Table(3, FALSE)
                              ELSE IF g = 3 /\ j = c THEN h ELSE Absent
<1> DEFINE a == PML4_INDEX(BootPage)
           b == PDP_INDEX(BootPage)
           c == PD_INDEX(BootPage)
           x == Table(2, FALSE)
           y == Table(3, FALSE)
           t == Table(BootFrame, FALSE)
           h == [t EXCEPT !.huge = TRUE]
           m0 == [f \in 0 .. NTables |-> [i \in 0 .. TopSpan - 1 |-> Absent]]
           m1 == Store(m0, <<1, a>>, x)
           m2 == Store(m1, <<2, b>>, y)
           m3 == Store(m2, <<3, c>>, h)
<1>1. a \in KernelHalf /\ a \in Index /\ b \in Index /\ c \in Index
  BY HalfOf, Digits
<1>2. x \in Entry /\ y \in Entry /\ t \in Entry /\ t.p /\ ~t.user
  BY TableEntry, CallsAssumption, ZenonT(40)
<1>3. BootTables = m3
  BY DEF BootTables, Store, kernel_pml4
<1> HIDE DEF t
<1>4. h \in Entry /\ h.p = t.p /\ h.huge /\ h.user = t.user
  BY <1>2, HugeEntry, ZenonT(40)
<1>5. m0 \in [0 .. NTables -> [Index -> Entry]] /\ \A g \in 0 .. NTables, j \in Index : m0[g][j] = Absent
  BY AbsentEntry DEF Index
<1>6. 1 \in 0 .. NTables /\ 2 \in 0 .. NTables /\ 3 \in 0 .. NTables
  OBVIOUS
<1> HIDE DEF a, b, c, x, y, h, m0
<1>7. Stored(m1, m0, 1, a, x)
  BY <1>1, <1>2, <1>5, <1>6, StoreIs, ZenonT(40)
<1>8. Stored(m2, m1, 2, b, y)
  <2> HIDE DEF m1
  <2>1. m1 \in [0 .. NTables -> [Index -> Entry]]
    BY <1>7 DEF Stored
  <2> QED
    BY <1>1, <1>2, <1>6, <2>1, StoreIs, ZenonT(40)
<1>9. Stored(m3, m2, 3, c, h)
  <2> HIDE DEF m2
  <2>1. m2 \in [0 .. NTables -> [Index -> Entry]]
    BY <1>8 DEF Stored
  <2> QED
    BY <1>1, <1>4, <1>6, <2>1, StoreIs, ZenonT(40)
<1> HIDE DEF m1, m2, m3
<1>10. m3 \in [0 .. NTables -> [Index -> Entry]]
  BY <1>9 DEF Stored
<1>11. ASSUME NEW g \in 0 .. NTables, NEW j \in Index
       PROVE  m3[g][j] = IF g = 1 /\ j = a THEN x ELSE IF g = 2 /\ j = b THEN y
                         ELSE IF g = 3 /\ j = c THEN h ELSE Absent
  BY <1>5, <1>7, <1>8, <1>9 DEF Stored
<1>12. h.p /\ h.huge /\ ~h.user
  BY <1>2, <1>4
<1> QED
  BY <1>1, <1>3, <1>4, <1>10, <1>11, <1>12, ZenonT(40) DEF a, b, c, x, y, h, t

\* They have the shape that every call keeps.
LEMMA BootShape == Fine(BootTables, 3, {kernel_pml4})
<1> DEFINE a == PML4_INDEX(BootPage)
           b == PDP_INDEX(BootPage)
           c == PD_INDEX(BootPage)
           x == Table(2, FALSE)
           y == Table(3, FALSE)
           h == [Table(BootFrame, FALSE) EXCEPT !.huge = TRUE]
           m == BootTables
           k == kernel_pml4
           lev == [f \in Frames |-> IF f = 1 THEN 4 ELSE IF f = 2 THEN 3 ELSE IF f = 3 THEN 2 ELSE 1]
<1>1. /\ a \in KernelHalf /\ a \in Index /\ b \in Index /\ c \in Index
      /\ h \in Entry /\ h.p /\ h.huge /\ ~h.user
      /\ m \in [0 .. NTables -> [Index -> Entry]]
      /\ \A g \in 0 .. NTables, j \in Index :
           m[g][j] = IF g = 1 /\ j = a THEN x ELSE IF g = 2 /\ j = b THEN y
                     ELSE IF g = 3 /\ j = c THEN h ELSE Absent
  BY BootIs, ZenonT(40)
<1>2. x.p /\ ~x.huge /\ x.to = 2 /\ ~x.user /\ y.p /\ ~y.huge /\ y.to = 3 /\ ~y.user
  BY TableEntry, ZenonT(40)
<1>3. k = 1
  BY DEF kernel_pml4
<1>4. lev \in [Frames -> 1 .. 4] /\ lev[1] = 4 /\ lev[2] = 3 /\ lev[3] = 2
  BY DEF Frames
<1>5. 1 .. 3 \subseteq 0 .. NTables /\ \A f \in 1 .. 3 : f = 1 \/ f = 2 \/ f = 3
  OBVIOUS
<1> HIDE DEF a, b, c, x, y, h, m, k, lev
<1>6. /\ \A j \in Index : m[1][j] = IF j = a THEN x ELSE Absent
      /\ \A j \in Index : m[2][j] = IF j = b THEN y ELSE Absent
      /\ \A j \in Index : m[3][j] = IF j = c THEN h ELSE Absent
  BY <1>1
<1>7. Typed(m, 3)
  <2> SUFFICES ASSUME NEW f \in 0 .. NTables, NEW i \in Index, ~m[f][i].p \/ f = 0 \/ f > 3
               PROVE  m[f][i] = Absent
    BY <1>1 DEF Typed
  <2> QED
    BY <1>1, <1>2
<1>8. Kinds(3, {k}, lev, {})
  BY <1>4, <1>5 DEF Kinds, k, kernel_pml4
<1>9. /\ \A f \in 1 .. 3, i \in Index : m[f][i].p =>
           (f = 1 /\ i = a /\ m[f][i] = x) \/ (f = 2 /\ i = b /\ m[f][i] = y) \/ (f = 3 /\ i = c /\ m[f][i] = h)
  BY <1>5, <1>6, AbsentEntry
<1>10. Entries(m, 3, lev, {})
  <2> SUFFICES ASSUME NEW f \in 1 .. 3, NEW i \in Index, m[f][i].p
               PROVE  /\ m[f][i].user <=> UserSlot(lev, {}, f, i)
                      /\ m[f][i].huge => lev[f] = 2 /\ f \notin {}
                      /\ Ptr(m, lev, f, i) => /\ m[f][i].to \in 1 .. 3
                                              /\ lev[m[f][i].to] = lev[f] - 1
                                              /\ m[f][i].to \in {} <=> UserSlot(lev, {}, f, i)
    BY ZenonT(40) DEF Entries
  <2>1. CASE f = 1 /\ i = a /\ m[f][i] = x
    <3>1. ~UserSlot(lev, {}, f, i)
      BY <1>1, <2>1 DEF UserSlot
    <3>2. m[f][i].user = x.user /\ m[f][i].huge = x.huge /\ m[f][i].to = 2 /\ lev[f] = 4
      BY <1>2, <1>4, <2>1, ZenonT(40)
    <3>3. lev[m[f][i].to] = lev[f] - 1 /\ m[f][i].to \in 1 .. 3 /\ m[f][i].to \notin {}
      BY <1>4, <3>2
    <3> QED
      BY <1>2, <3>1, <3>2, <3>3, ZenonT(40)
  <2>2. CASE f = 2 /\ i = b /\ m[f][i] = y
    <3>1. ~UserSlot(lev, {}, f, i)
      BY <1>4, <2>2 DEF UserSlot
    <3>2. m[f][i].user = y.user /\ m[f][i].huge = y.huge /\ m[f][i].to = 3 /\ lev[f] = 3
      BY <1>2, <1>4, <2>2, ZenonT(40)
    <3>3. lev[m[f][i].to] = lev[f] - 1 /\ m[f][i].to \in 1 .. 3 /\ m[f][i].to \notin {}
      BY <1>4, <3>2
    <3> QED
      BY <1>2, <3>1, <3>2, <3>3, ZenonT(40)
  <2>3. CASE f = 3 /\ i = c /\ m[f][i] = h
    <3>1. ~UserSlot(lev, {}, f, i)
      BY <1>4, <2>3 DEF UserSlot
    <3>2. ~Ptr(m, lev, f, i)
      BY <1>1, <2>3 DEF Ptr
    <3> QED
      BY <1>1, <1>4, <2>3, <3>1, <3>2
  <2> QED
    BY <1>9, <2>1, <2>2, <2>3, ZenonT(40)
<1>11. Tree(m, 3, lev)
  <2> SUFFICES ASSUME NEW f \in 1 .. 3, NEW g \in 1 .. 3, NEW i \in Index, NEW j \in Index,
                      Ptr(m, lev, f, i), Ptr(m, lev, g, j), m[f][i].to = m[g][j].to
               PROVE  i = j /\ f = g
    BY DEF Tree
  <2>1. m[f][i].p /\ ~m[f][i].huge /\ m[g][j].p /\ ~m[g][j].huge
    BY DEF Ptr
  <2>2. \A e \in 1 .. 3, n \in Index : m[e][n].p /\ ~m[e][n].huge =>
          (e = 1 /\ n = a /\ m[e][n] = x) \/ (e = 2 /\ n = b /\ m[e][n] = y)
    <3>1. h.huge
      BY <1>1
    <3> QED
      BY <1>9, <3>1, ZenonT(40)
  <2>3. /\ (f = 1 /\ i = a /\ m[f][i] = x) \/ (f = 2 /\ i = b /\ m[f][i] = y)
        /\ (g = 1 /\ j = a /\ m[g][j] = x) \/ (g = 2 /\ j = b /\ m[g][j] = y)
    BY <2>1, <2>2, ZenonT(40)
  <2>4. m[f][i].to = (IF f = 1 THEN 2 ELSE 3) /\ m[g][j].to = (IF g = 1 THEN 2 ELSE 3)
    <3>1. 2 # 1
      OBVIOUS
    <3> QED
      BY <1>2, <2>3, <3>1, ZenonT(40)
  <2>5. f = g
    <3>1. 2 # 3 /\ 2 # 1
      OBVIOUS
    <3> QED
      BY <2>3, <2>4, <3>1, ZenonT(40)
  <2>6. i = j
    <3>1. (f = 1 /\ i = a) \/ (f = 2 /\ i = b)
      BY <2>3, ZenonT(40)
    <3>2. (f = 1 /\ j = a) \/ (f = 2 /\ j = b)
      BY <2>3, <2>5, ZenonT(40)
    <3> QED
      BY <3>1, <3>2
  <2> QED
    BY <2>5, <2>6
<1>12. Shared(m, {k})
  BY <1>1, <1>3, <1>6, AbsentEntry DEF Shared, k
<1>13. Shape(m, 3, {k}, lev, {})
  BY <1>7, <1>8, <1>10, <1>11, <1>12 DEF Shape
<1> QED
  BY <1>13 DEF Fine, m, k
=============================================================================
