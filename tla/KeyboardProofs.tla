--------------------------- MODULE KeyboardProofs ---------------------------
(***************************************************************************)
(* Proofs about Keyboard, for every size of the ring and of the line       *)
(* buffer: the ring implements KeyQueue although the interrupt handler may *)
(* run in the middle of a pop, whichever way the compiler ordered it.      *)
(***************************************************************************)
EXTENDS Keyboard, SequenceTheorems, WellFoundedInduction, TLAPS

\* Time for a leaf, in seconds.
USE SMTT(40), ZenonT(40)

\* What is in the line buffer was printable.
LineInv == \A k \in 0 .. line_pos - 1 : line_buffer[k] \in Printable

\* Half-way through kbd_buffer_pop.
PopInv ==
  /\ pc = "loaded" => kbd_head # kbd_tail /\ c = kbd_buffer[kbd_tail]
  /\ pc = "stored" => kbd_tail = (slot + 1) % Size

Inv == TypeOK /\ LineInv /\ PopInv

USE KeyboardAssumption

-----------------------------------------------------------------------------
(* Arithmetic modulo the size of the ring.                                 *)

\* The slot behind a slot.
LEMMA NextSlot ==
  ASSUME NEW h \in 0 .. Size - 1
  PROVE  (h + 1) % Size = IF h = Size - 1 THEN 0 ELSE h + 1
OBVIOUS

\* The distance of two slots.
LEMMA Distance ==
  ASSUME NEW h \in 0 .. Size - 1, NEW t \in 0 .. Size - 1
  PROVE  (h - t) % Size = IF t <= h THEN h - t ELSE h - t + Size
OBVIOUS

\* The slot j behind t.
LEMMA SlotAt ==
  ASSUME NEW t \in 0 .. Size - 1, NEW j \in 0 .. Size - 1
  PROVE  (t + j) % Size = IF t + j < Size THEN t + j ELSE t + j - Size
OBVIOUS


\* The ring is full when all slots but one hold a character.
LEMMA Fullness ==
  ASSUME NEW h \in 0 .. Size - 1, NEW t \in 0 .. Size - 1
  PROVE  (h + 1) % Size = t <=> (h - t) % Size = Size - 1
<1>1. (h + 1) % Size = IF h = Size - 1 THEN 0 ELSE h + 1
  BY NextSlot
<1>2. (h - t) % Size = IF t <= h THEN h - t ELSE h - t + Size
  BY Distance
<1> QED
  BY <1>1, <1>2

\* Moving the head on adds one, unless the ring is full.
LEMMA Grow ==
  ASSUME NEW h \in 0 .. Size - 1, NEW t \in 0 .. Size - 1, (h + 1) % Size # t
  PROVE  (((h + 1) % Size) - t) % Size = ((h - t) % Size) + 1
<1>1. (h + 1) % Size = IF h = Size - 1 THEN 0 ELSE h + 1
  BY NextSlot
<1>2. (h - t) % Size = IF t <= h THEN h - t ELSE h - t + Size
  BY Distance
<1>3. PICK g \in 0 .. Size - 1 : g = (h + 1) % Size
  BY <1>1
<1>4. (g - t) % Size = IF t <= g THEN g - t ELSE g - t + Size
  BY Distance
<1> QED
  BY <1>1, <1>2, <1>3, <1>4

\* Moving the tail on takes one away, unless the ring is empty.
LEMMA Shrink ==
  ASSUME NEW h \in 0 .. Size - 1, NEW t \in 0 .. Size - 1, h # t,
         NEW g \in 0 .. Size - 1, g = (t + 1) % Size
  PROVE  (h - g) % Size = ((h - t) % Size) - 1
<1>1. (t + 1) % Size = IF t = Size - 1 THEN 0 ELSE t + 1
  BY NextSlot
<1>2. (h - t) % Size = IF t <= h THEN h - t ELSE h - t + Size
  BY Distance
<1>3. (h - g) % Size = IF g <= h THEN h - g ELSE h - g + Size
  BY Distance
<1> QED
  BY <1>1, <1>2, <1>3

\* The occupied slots end before the head.
LEMMA Occupied ==
  ASSUME NEW h \in 0 .. Size - 1, NEW t \in 0 .. Size - 1, NEW j \in 0 .. (h - t) % Size
  PROVE  /\ (t + j) % Size \in 0 .. Size - 1
         /\ (t + j) % Size = h <=> j = (h - t) % Size
<1>1. (h - t) % Size = IF t <= h THEN h - t ELSE h - t + Size
  BY Distance
<1>2. j \in 0 .. Size - 1
  BY <1>1
<1>3. (t + j) % Size = IF t + j < Size THEN t + j ELSE t + j - Size
  BY <1>2, SlotAt
<1> QED
  BY <1>1, <1>2, <1>3

\* The slot j behind the next tail is the slot j + 1 behind the tail.
LEMMA Behind ==
  ASSUME NEW t \in 0 .. Size - 1, NEW j \in 0 .. Size - 2
  PROVE  (((t + 1) % Size) + j) % Size = (t + (j + 1)) % Size
<1>1. (t + 1) % Size = IF t = Size - 1 THEN 0 ELSE t + 1
  BY NextSlot
<1>2. PICK g \in 0 .. Size - 1 : g = (t + 1) % Size
  BY <1>1
<1>3. (g + j) % Size = IF g + j < Size THEN g + j ELSE g + j - Size
  <2>1. j \in 0 .. Size - 1
    OBVIOUS
  <2> QED
    BY <2>1, SlotAt
<1>4. (t + (j + 1)) % Size = IF t + (j + 1) < Size THEN t + (j + 1) ELSE t + (j + 1) - Size
  <2>1. j + 1 \in 0 .. Size - 1
    OBVIOUS
  <2> QED
    BY <2>1, SlotAt, ZenonT(40)
<1> QED
  BY <1>1, <1>2, <1>3, <1>4

-----------------------------------------------------------------------------
(* The queue in the ring.                                                  *)


\* Waiting, as a function of the state.
Ring(buffer, h, t) == [k \in 1 .. ((h - t) % Size) |-> buffer[(t + k - 1) % Size]]

\* How many characters wait, and where.
LEMMA RingIs ==
  ASSUME NEW buffer \in [0 .. (Size - 1) -> Char], NEW h \in 0 .. Size - 1, NEW t \in 0 .. Size - 1
  PROVE  /\ Ring(buffer, h, t) \in Seq(Char)
         /\ Len(Ring(buffer, h, t)) = (h - t) % Size
         /\ (h - t) % Size \in 0 .. Size - 1
         /\ \A k \in 1 .. (h - t) % Size : Ring(buffer, h, t)[k] = buffer[(t + k - 1) % Size]
<1> DEFINE n == (h - t) % Size
<1>1. n \in 0 .. Size - 1
  BY Distance
<1>2. \A k \in 1 .. n : (t + k - 1) % Size \in 0 .. Size - 1
  BY <1>1
<1> DEFINE At(k) == buffer[(t + k - 1) % Size]
           s == [k \in 1 .. n |-> At(k)]
<1>3. \A k \in 1 .. n : At(k) \in Char
  BY <1>2
<1>4. Ring(buffer, h, t) = s
  BY DEF Ring
<1>5. s \in Seq(Char) /\ Len(s) = n /\ \A k \in 1 .. n : s[k] = At(k)
  <2> HIDE DEF n, At
  <2> QED
    BY <1>1, <1>3
<1> QED
  BY <1>1, <1>4, <1>5, ZenonT(40)

\* The same of Waiting.
LEMMA WaitingIs ==
  ASSUME TypeOK
  PROVE  /\ Waiting \in Seq(Char) /\ Len(Waiting) = (kbd_head - kbd_tail) % Size
         /\ Len(Waiting) \in 0 .. Size - 1
         /\ \A k \in 1 .. Len(Waiting) : Waiting[k] = kbd_buffer[(kbd_tail + k - 1) % Size]
<1>1. Waiting = Ring(kbd_buffer, kbd_head, kbd_tail)
  BY DEF Waiting, Ring
<1>2. kbd_buffer \in [0 .. (Size - 1) -> Char] /\ kbd_head \in 0 .. Size - 1 /\ kbd_tail \in 0 .. Size - 1
  BY DEF TypeOK
<1> DEFINE w == Ring(kbd_buffer, kbd_head, kbd_tail)
           n == (kbd_head - kbd_tail) % Size
<1>3. /\ w \in Seq(Char) /\ Len(w) = n /\ n \in 0 .. Size - 1
      /\ \A k \in 1 .. n : w[k] = kbd_buffer[(kbd_tail + k - 1) % Size]
  BY <1>2, RingIs, ZenonT(60)
<1> HIDE DEF w, n
<1>4. /\ w \in Seq(Char) /\ Len(w) = n /\ Len(w) \in 0 .. Size - 1
      /\ \A k \in 1 .. Len(w) : w[k] = kbd_buffer[(kbd_tail + k - 1) % Size]
  BY <1>3, ZenonT(40)
<1> QED
  BY <1>1, <1>4, ZenonT(40) DEF w, n

\* The same of the next state.
LEMMA WaitingNext ==
  ASSUME TypeOK'
  PROVE  /\ Waiting' \in Seq(Char) /\ Len(Waiting') = (kbd_head' - kbd_tail') % Size
         /\ \A k \in 1 .. Len(Waiting') : Waiting'[k] = kbd_buffer'[(kbd_tail' + k - 1) % Size]
<1>1. Waiting' = Ring(kbd_buffer', kbd_head', kbd_tail')
  BY DEF Waiting, Ring
<1>2. kbd_buffer' \in [0 .. (Size - 1) -> Char] /\ kbd_head' \in 0 .. Size - 1 /\ kbd_tail' \in 0 .. Size - 1
  BY DEF TypeOK
<1> DEFINE w == Ring(kbd_buffer', kbd_head', kbd_tail')
           n == (kbd_head' - kbd_tail') % Size
<1>3. /\ w \in Seq(Char) /\ Len(w) = n /\ n \in 0 .. Size - 1
      /\ \A k \in 1 .. n : w[k] = kbd_buffer'[(kbd_tail' + k - 1) % Size]
  BY <1>2, RingIs, ZenonT(60)
<1> HIDE DEF w, n
<1>4. /\ w \in Seq(Char) /\ Len(w) = n /\ Len(w) \in 0 .. Size - 1
      /\ \A k \in 1 .. Len(w) : w[k] = kbd_buffer'[(kbd_tail' + k - 1) % Size]
  BY <1>3, ZenonT(40)
<1> QED
  BY <1>1, <1>4, ZenonT(40) DEF w, n

\* A push appends, unless Size - 1 characters wait.
LEMMA PushAppends ==
  ASSUME TypeOK, TypeOK', NEW ch \in Char, kbd_buffer_push(ch), kbd_tail' = kbd_tail
  PROVE  IF Len(Waiting) < Size - 1 THEN Waiting' = Append(Waiting, ch) /\ accepted' = accepted + 1
                                    ELSE Waiting' = Waiting /\ accepted' = accepted
<1> DEFINE n == Len(Waiting)
<1>1. kbd_head \in 0 .. Size - 1 /\ kbd_tail \in 0 .. Size - 1
  BY DEF TypeOK
<1>2. /\ Waiting \in Seq(Char) /\ n = (kbd_head - kbd_tail) % Size /\ n \in 0 .. Size - 1
      /\ \A k \in 1 .. n : Waiting[k] = kbd_buffer[(kbd_tail + k - 1) % Size]
  BY WaitingIs
<1>3. kbd_buffer_full <=> n = Size - 1
  <2>1. (kbd_head + 1) % Size = kbd_tail <=> (kbd_head - kbd_tail) % Size = Size - 1
    BY <1>1, Fullness, ZenonT(40)
  <2> QED
    BY <1>2, <2>1 DEF kbd_buffer_full
<1>4. CASE kbd_buffer_full
  <2>1. Waiting' = Waiting /\ accepted' = accepted
    BY <1>4 DEF kbd_buffer_push, ringVars, Waiting
  <2> QED
    BY <1>3, <1>4, <2>1
<1>5. CASE ~kbd_buffer_full
  <2>1. /\ kbd_buffer' = [kbd_buffer EXCEPT ![kbd_head] = ch]
        /\ kbd_head' = (kbd_head + 1) % Size /\ accepted' = accepted + 1
    BY <1>5 DEF kbd_buffer_push
  <2>2. /\ Waiting' \in Seq(Char) /\ Len(Waiting') = (kbd_head' - kbd_tail) % Size
        /\ \A k \in 1 .. Len(Waiting') : Waiting'[k] = kbd_buffer'[(kbd_tail + k - 1) % Size]
    BY WaitingNext
  <2>3. Len(Waiting') = n + 1
    <3>1. (((kbd_head + 1) % Size) - kbd_tail) % Size = ((kbd_head - kbd_tail) % Size) + 1
      BY <1>1, <1>5, Grow, ZenonT(40) DEF kbd_buffer_full
    <3> QED
      BY <1>2, <2>1, <2>2, <3>1
  <2>4. /\ Append(Waiting, ch) \in Seq(Char) /\ Len(Append(Waiting, ch)) = n + 1
        /\ \A k \in 1 .. n : Append(Waiting, ch)[k] = Waiting[k]
        /\ Append(Waiting, ch)[n + 1] = ch
    BY <1>2, AppendProperties
  <2>5. ASSUME NEW k \in 1 .. n + 1
        PROVE  Waiting'[k] = Append(Waiting, ch)[k]
    <3>1. PICK j \in 0 .. n : j = k - 1
      BY <1>2
    <3>2. /\ (kbd_tail + j) % Size \in 0 .. Size - 1
          /\ (kbd_tail + j) % Size = kbd_head <=> j = n
      <4>1. j \in 0 .. (kbd_head - kbd_tail) % Size
        BY <1>2
      <4>2. /\ (kbd_tail + j) % Size \in 0 .. Size - 1
            /\ (kbd_tail + j) % Size = kbd_head <=> j = (kbd_head - kbd_tail) % Size
        BY <1>1, <4>1, Occupied, ZenonT(60)
      <4> QED
        BY <1>2, <4>2
    <3>3. kbd_tail + k - 1 = kbd_tail + j
      BY <1>1, <3>1
    <3>4. Waiting'[k] = kbd_buffer'[(kbd_tail + j) % Size]
      BY <2>2, <2>3, <3>3
    <3>5. CASE j = n
      <4>1. kbd_buffer'[kbd_head] = ch
        BY <1>1, <2>1 DEF TypeOK
      <4>2. k = n + 1
        BY <1>2, <3>1, <3>5
      <4> QED
        BY <2>4, <3>2, <3>4, <3>5, <4>1, <4>2
    <3>6. CASE j # n
      <4>1. k \in 1 .. n
        BY <1>2, <3>1, <3>6
      <4>2. kbd_buffer'[(kbd_tail + j) % Size] = kbd_buffer[(kbd_tail + j) % Size]
        BY <2>1, <3>2, <3>6 DEF TypeOK
      <4> QED
        BY <1>2, <2>4, <3>3, <3>4, <4>1, <4>2
    <3> QED
      BY <3>5, <3>6
  <2>6. Waiting' = Append(Waiting, ch)
    BY <2>2, <2>3, <2>4, <2>5, SeqEqual
  <2> QED
    BY <1>2, <1>3, <1>5, <2>1, <2>6
<1> QED
  BY <1>4, <1>5

\* Storing kbd_tail takes the first character off.
LEMMA PopTakesHead ==
  ASSUME TypeOK, TypeOK', kbd_head # kbd_tail, UNCHANGED ringVars, AdvanceTail
  PROVE  Waiting # <<>> /\ Head(Waiting) = kbd_buffer[kbd_tail] /\ Waiting' = Tail(Waiting)
<1> DEFINE n == Len(Waiting)
<1>1. kbd_head \in 0 .. Size - 1 /\ kbd_tail \in 0 .. Size - 1
  BY DEF TypeOK
<1>2. /\ Waiting \in Seq(Char) /\ n = (kbd_head - kbd_tail) % Size /\ n \in 0 .. Size - 1
      /\ \A k \in 1 .. n : Waiting[k] = kbd_buffer[(kbd_tail + k - 1) % Size]
  BY WaitingIs
<1>3. n # 0
  <2>1. (kbd_head - kbd_tail) % Size = IF kbd_tail <= kbd_head THEN kbd_head - kbd_tail ELSE kbd_head - kbd_tail + Size
    BY <1>1, Distance
  <2> QED
    BY <1>1, <1>2, <2>1
<1>4. Waiting # <<>>
  BY <1>3
<1>5. Head(Waiting) = kbd_buffer[kbd_tail]
  <2>1. (kbd_tail + 1 - 1) % Size = kbd_tail
    BY <1>1
  <2>2. Head(Waiting) = Waiting[1] /\ 1 \in 1 .. n
    BY <1>2, <1>3, <1>4
  <2> QED
    BY <1>2, <2>1, <2>2
<1>6. kbd_tail' = (kbd_tail + 1) % Size /\ kbd_head' = kbd_head /\ kbd_buffer' = kbd_buffer
  BY DEF AdvanceTail, ringVars
<1>7. /\ Waiting' \in Seq(Char) /\ Len(Waiting') = (kbd_head - kbd_tail') % Size
      /\ \A k \in 1 .. Len(Waiting') : Waiting'[k] = kbd_buffer[(kbd_tail' + k - 1) % Size]
  BY <1>6, WaitingNext
<1>8. Len(Waiting') = n - 1
  <2>1. kbd_tail' \in 0 .. Size - 1
    BY DEF TypeOK
  <2>2. (kbd_head - kbd_tail') % Size = ((kbd_head - kbd_tail) % Size) - 1
    BY <1>1, <1>6, <2>1, Shrink, ZenonT(40)
  <2> QED
    BY <1>2, <1>7, <2>2
<1>9. /\ Tail(Waiting) \in Seq(Char) /\ Len(Tail(Waiting)) = n - 1
      /\ \A k \in 1 .. n - 1 : Tail(Waiting)[k] = Waiting[k + 1]
  BY <1>2, <1>4, HeadTailProperties
<1>10. ASSUME NEW k \in 1 .. n - 1
       PROVE  Waiting'[k] = Tail(Waiting)[k]
  <2>1. PICK j \in 0 .. Size - 2 : j = k - 1
    BY <1>2
  <2>2. (((kbd_tail + 1) % Size) + j) % Size = (kbd_tail + (j + 1)) % Size
    BY <1>1, Behind
  <2>3. kbd_tail' + k - 1 = kbd_tail' + j
    <3>1. kbd_tail' \in Int
      BY DEF TypeOK
    <3> QED
      BY <2>1, <3>1
  <2>4. kbd_tail + (j + 1) = kbd_tail + (k + 1) - 1
    BY <1>1, <2>1
  <2>5. k + 1 \in 1 .. n
    BY <1>2
  <2>6. Waiting'[k] = kbd_buffer[(kbd_tail + (k + 1) - 1) % Size]
    <3>1. k \in 1 .. Len(Waiting')
      BY <1>8
    <3>2. Waiting'[k] = kbd_buffer[(kbd_tail' + k - 1) % Size]
      BY <1>7, <3>1, ZenonT(40)
    <3>3. (kbd_tail' + k - 1) % Size = (kbd_tail + (k + 1) - 1) % Size
      BY <1>6, <2>2, <2>3, <2>4, ZenonT(40)
    <3> QED
      BY <3>2, <3>3, ZenonT(40)
  <2>7. Waiting[k + 1] = kbd_buffer[(kbd_tail + (k + 1) - 1) % Size]
    BY <1>2, <2>5
  <2> QED
    BY <1>9, <2>6, <2>7
<1> QED
  <2>1. Len(Waiting') = Len(Tail(Waiting))
    BY <1>8, <1>9, ZenonT(40)
  <2>2. \A k \in 1 .. Len(Waiting') : Waiting'[k] = Tail(Waiting)[k]
    BY <1>8, <1>10, ZenonT(40)
  <2>3. Waiting' = Tail(Waiting)
    BY <1>7, <1>9, <2>1, <2>2, SeqEqual, ZenonT(40)
  <2> QED
    BY <1>4, <1>5, <2>3

-----------------------------------------------------------------------------
(* The invariant.                                                          *)

\* The initial states satisfy the invariant.
LEMMA InitInv == Init => Inv
<1> SUFFICES ASSUME Init PROVE Inv
  OBVIOUS
<1> USE DEF Init
<1>1. TypeOK
  <2>1. kbd_head \in 0 .. (Size - 1) /\ kbd_tail \in 0 .. (Size - 1) /\ slot \in 0 .. (Size - 1)
    OBVIOUS
  <2>2. line_pos \in 0 .. LineMax /\ keys \in 0 .. MaxKeys /\ typed \in Nat /\ accepted \in Nat /\ delivered \in Nat
    OBVIOUS
  <2>3. kbd_buffer \in [0 .. (Size - 1) -> Char] /\ line_buffer \in [0 .. LineMax -> Char]
    BY DEF Char
  <2>4. returned \in Seq(Printable) /\ taken \in Seq(Char)
    OBVIOUS
  <2>5. c \in Char /\ last \in Char /\ pc \in {"idle", "poll", "loaded", "stored"}
    BY DEF Char
  <2> QED
    BY <2>1, <2>2, <2>3, <2>4, <2>5, ZenonT(40) DEF TypeOK
<1>2. LineInv /\ PopInv
  BY DEF LineInv, PopInv
<1> QED
  BY <1>1, <1>2 DEF Inv

\* The character of a key is a character.
LEMMA ScancodeChar == ASSUME NEW key \in CharKey PROVE get_char_from_scancode(key) \in Char
<1>1. \A b : table(key, b) \in Char
  BY DEF table, CharKey, Char, Printable, Letter
<1> QED
  BY <1>1 DEF get_char_from_scancode, Char, Printable, Letter

\* The interrupt handler keeps the invariant, in the middle of a pop too: a
\* push writes neither the slot at kbd_tail nor the one before it.
LEMMA KeyStep ==
  ASSUME Inv,
         \/ \E key \in ShiftKey : KeyBreak(key) \/ KeyMakeShift(key)
         \/ KeyMakeCaps
         \/ \E key \in CharKey : KeyMakeChar(key)
  PROVE  Inv'
<1> USE DEF Inv
<1>1. UNCHANGED readVars /\ keys' \in 0 .. MaxKeys
  <2>1. Scancode
    BY DEF KeyBreak, KeyMakeShift, KeyMakeCaps, KeyMakeChar
  <2> QED
    BY <2>1 DEF Scancode, TypeOK
<1>2. LineInv'
  BY <1>1 DEF LineInv, readVars
<1>3. CASE \E key \in ShiftKey : KeyBreak(key) \/ KeyMakeShift(key)
  <2>1. PICK key \in ShiftKey : KeyBreak(key) \/ KeyMakeShift(key)
    BY <1>3
  <2>2. UNCHANGED <<caps_lock, typed, ringVars, accepted>>
    BY <2>1 DEF KeyBreak, KeyMakeShift, TypeOK
  <2>4. left_shift' \in BOOLEAN /\ right_shift' \in BOOLEAN
    <3>1. CASE KeyBreak(key)
      BY <3>1, ZenonT(40) DEF KeyBreak, ReleaseShift, TypeOK
    <3>2. CASE KeyMakeShift(key)
      BY <3>2, ZenonT(40) DEF KeyMakeShift
    <3> QED
      BY <2>1, <3>1, <3>2
  <2>5. TypeOK'
    BY <1>1, <2>2, <2>4, ZenonT(40) DEF TypeOK, ringVars, readVars
  <2>6. PopInv'
    BY <1>1, <2>2 DEF PopInv, ringVars, readVars
  <2> QED
    BY <1>2, <2>5, <2>6
<1>4. CASE KeyMakeCaps
  <2>1. UNCHANGED <<left_shift, right_shift, typed, ringVars, accepted>>
    BY <1>4 DEF KeyMakeCaps
  <2>2. caps_lock' \in BOOLEAN
    BY <1>4, ZenonT(40) DEF KeyMakeCaps
  <2>3. TypeOK'
    BY <1>1, <2>1, <2>2, ZenonT(40) DEF TypeOK, ringVars, readVars
  <2>4. PopInv'
    BY <1>1, <2>1 DEF PopInv, ringVars, readVars
  <2> QED
    BY <1>2, <2>3, <2>4
<1>5. CASE \E key \in CharKey : KeyMakeChar(key)
  <2>1. PICK ch \in Char : kbd_buffer_push(ch) /\ UNCHANGED modVars /\ typed' = typed + 1
    BY <1>5, ScancodeChar DEF KeyMakeChar
  <2>2. kbd_head \in 0 .. Size - 1 /\ kbd_tail \in 0 .. Size - 1 /\ slot \in 0 .. Size - 1
    BY DEF TypeOK
  <2>3. (kbd_head + 1) % Size \in 0 .. Size - 1
    BY <2>2
  <2>4. kbd_buffer' \in [0 .. (Size - 1) -> Char] /\ kbd_head' \in 0 .. (Size - 1) /\ accepted' \in Nat
    <3>1. CASE kbd_buffer_full
      BY <2>1, <3>1 DEF kbd_buffer_push, ringVars, TypeOK
    <3>2. CASE ~kbd_buffer_full
      <4>1. /\ kbd_buffer' = [kbd_buffer EXCEPT ![kbd_head] = ch]
            /\ kbd_head' = (kbd_head + 1) % Size /\ accepted' = accepted + 1
        BY <2>1, <3>2 DEF kbd_buffer_push
      <4>2. kbd_buffer' \in [0 .. (Size - 1) -> Char] /\ accepted' \in Nat
        BY <4>1 DEF TypeOK
      <4> QED
        BY <2>3, <4>1, <4>2
    <3> QED
      BY <3>1, <3>2
  <2>5. TypeOK'
    <3>1. typed' \in Nat
      BY <2>1 DEF TypeOK
    <3> QED
      BY <1>1, <2>1, <2>4, <3>1, ZenonT(40) DEF TypeOK, modVars, readVars
  <2>7. PopInv'
    <3>1. pc' = pc /\ c' = c /\ slot' = slot /\ kbd_tail' = kbd_tail
      BY <1>1 DEF readVars
    <3>2. CASE pc = "loaded"
      <4>1. CASE kbd_buffer_full
        BY <2>1, <3>1, <4>1 DEF kbd_buffer_push, ringVars, PopInv
      <4>2. CASE ~kbd_buffer_full
        <5>1. kbd_head' # kbd_tail
          BY <2>1, <4>2 DEF kbd_buffer_push, kbd_buffer_full
        <5>2. kbd_buffer'[kbd_tail] = kbd_buffer[kbd_tail]
          BY <2>1, <2>2, <3>2, <4>2 DEF kbd_buffer_push, PopInv, TypeOK
        <5> QED
          BY <3>1, <3>2, <5>1, <5>2 DEF PopInv
      <4> QED
        BY <4>1, <4>2
    <3> QED
      BY <3>1, <3>2 DEF PopInv
  <2> QED
    BY <1>2, <2>5, <2>7
<1> QED
  BY <1>3, <1>4, <1>5

\* Starting a pop keeps the invariant.
LEMMA StartPopStep ==
  ASSUME Inv, StartPop
  PROVE  Inv'
<1> USE DEF Inv
<1>1. UNCHANGED <<line_buffer, line_pos, count, returned, taken, ringVars, modVars, envVars, accepted>>
  BY DEF StartPop
<1>2. LineInv'
  BY <1>1 DEF LineInv
<1>3. CASE LoadChar
  <2>1. kbd_buffer[kbd_tail] \in Char
    BY DEF TypeOK
  <2>2. c' \in Char /\ pc' = "loaded" /\ UNCHANGED <<kbd_tail, slot, last, delivered>>
    BY <1>3, <2>1 DEF LoadChar
  <2>3. TypeOK'
    BY <1>1, <2>2, ZenonT(40) DEF TypeOK, ringVars, modVars, envVars
  <2>4. PopInv'
    BY <1>1, <1>3, <2>2 DEF PopInv, LoadChar, StartPop, kbd_buffer_empty, ringVars
  <2> QED
    BY <1>2, <2>3, <2>4
<1>4. CASE StoreTail
  <2>1. (kbd_tail + 1) % Size \in 0 .. Size - 1
    BY DEF TypeOK
  <2>2. /\ kbd_tail' \in 0 .. (Size - 1) /\ slot' \in 0 .. (Size - 1) /\ pc' = "stored"
        /\ UNCHANGED <<c, last, delivered>>
    BY <1>4, <2>1 DEF StoreTail, AdvanceTail, TypeOK
  <2>3. TypeOK'
    BY <1>1, <2>2, ZenonT(40) DEF TypeOK, ringVars, modVars, envVars
  <2>4. PopInv'
    BY <1>4, <2>2 DEF PopInv, StoreTail, AdvanceTail
  <2> QED
    BY <1>2, <2>3, <2>4
<1> QED
  BY <1>3, <1>4 DEF StartPop

\* What is handed over is a sequence of printable characters.
LEMMA LineReturned ==
  ASSUME Inv
  PROVE  SubSeq(Line, 1, Least(line_pos, count)) \in Seq(Printable)
<1>1. line_pos \in Nat /\ count \in Nat
  BY DEF Inv, TypeOK
<1>2. Least(line_pos, count) \in Nat /\ Least(line_pos, count) <= line_pos
  BY <1>1 DEF Least
<1>3. \A j \in 1 .. Least(line_pos, count) : Line[j] \in Printable
  BY <1>1, <1>2 DEF Line, LineInv, Inv
<1> HIDE DEF Line
<1> QED
  BY <1>2, <1>3, SubSeqProperties

\* What the reader does with a character keeps the line in order.
LEMMA TakeStep ==
  ASSUME Inv, NEW ch \in Char, Take(ch)
  PROVE  /\ last' \in Char /\ delivered' \in Nat /\ pc' \in {"idle", "poll"}
         /\ line_buffer' \in [0 .. LineMax -> Char] /\ line_pos' \in 0 .. LineMax
         /\ returned' \in Seq(Printable) /\ taken' \in Seq(Char)
         /\ LineInv'
<1> USE DEF Inv
<1>1. last' \in Char /\ delivered' \in Nat
  BY DEF Take, TypeOK
<1>2. line_pos \in 0 .. LineMax /\ line_buffer \in [0 .. LineMax -> Char] /\ taken \in Seq(Char)
      /\ returned \in Seq(Printable)
  BY DEF TypeOK
<1>3. CASE TakeNewline(ch)
  <2>1. line_pos' = 0 /\ taken' = <<>> /\ pc' \in {"idle", "poll"}
    BY <1>3 DEF TakeNewline, ResetLine
  <2>2. line_buffer' \in [0 .. LineMax -> Char]
    BY <1>2, <1>3 DEF TakeNewline, Char
  <2>3. returned' \in Seq(Printable)
    BY <1>3, LineReturned DEF TakeNewline
  <2>4. LineInv' /\ line_pos' \in 0 .. LineMax /\ taken' \in Seq(Char)
    BY <2>1 DEF LineInv
  <2> QED
    BY <1>1, <2>1, <2>2, <2>3, <2>4
<1>4. CASE TakeBackspace(ch)
  <2>1. line_buffer' = line_buffer /\ returned' = returned /\ pc' = "poll" /\ taken' = Append(taken, ch)
        /\ line_pos' = IF line_pos > 0 THEN line_pos - 1 ELSE line_pos
    BY <1>4 DEF TakeBackspace
  <2>2. LineInv' /\ line_pos' \in 0 .. LineMax
    BY <1>2, <2>1 DEF LineInv
  <2>3. taken' \in Seq(Char)
    BY <1>2, <2>1, AppendProperties
  <2> QED
    BY <1>1, <1>2, <2>1, <2>2, <2>3
<1>5. CASE TakeOther(ch)
  <2>1. returned' = returned /\ pc' = "poll" /\ taken' = Append(taken, ch)
    BY <1>5 DEF TakeOther
  <2>2. taken' \in Seq(Char)
    BY <1>2, <2>1, AppendProperties
  <2>3. CASE ch \in Printable /\ HasRoom
    <3>1. line_buffer' = [line_buffer EXCEPT ![line_pos] = ch] /\ line_pos' = line_pos + 1
          /\ line_pos < LineMax
      BY <1>5, <2>3 DEF TakeOther, HasRoom
    <3>2. line_buffer' \in [0 .. LineMax -> Char] /\ line_pos' \in 0 .. LineMax
      BY <1>2, <3>1
    <3>3. LineInv'
      BY <1>2, <2>3, <3>1 DEF LineInv
    <3> QED
      BY <1>1, <1>2, <2>1, <2>2, <3>2, <3>3
  <2>4. CASE ~(ch \in Printable /\ HasRoom)
    <3>1. UNCHANGED <<line_buffer, line_pos>>
      BY <1>5, <2>4 DEF TakeOther
    <3> QED
      BY <1>1, <1>2, <2>1, <2>2, <3>1 DEF LineInv
  <2> QED
    BY <2>3, <2>4
<1> QED
  BY <1>3, <1>4, <1>5 DEF Take

\* The end of a pop keeps the invariant.
LEMMA EndPopStep ==
  ASSUME Inv, EndPop
  PROVE  Inv'
<1> USE DEF Inv
<1>1. c' = "nul" /\ slot' = 0 /\ UNCHANGED <<count, ringVars, modVars, envVars, accepted>>
  BY DEF EndPop
<1>2. PICK ch \in Char : Take(ch)
  <2>1. c \in Char /\ kbd_buffer[slot] \in Char
    BY DEF TypeOK
  <2> QED
    BY <2>1 DEF EndPop
<1>3. /\ last' \in Char /\ delivered' \in Nat /\ pc' \in {"idle", "poll"}
      /\ line_buffer' \in [0 .. LineMax -> Char] /\ line_pos' \in 0 .. LineMax
      /\ returned' \in Seq(Printable) /\ taken' \in Seq(Char)
      /\ LineInv'
  BY <1>2, TakeStep
<1>4. kbd_tail' \in 0 .. (Size - 1)
  <2>1. (kbd_tail + 1) % Size \in 0 .. Size - 1
    BY DEF TypeOK
  <2> QED
    BY <2>1 DEF EndPop, AdvanceTail, TypeOK
<1>5. TypeOK'
  <2>1. c' \in Char /\ slot' \in 0 .. (Size - 1) /\ pc' \in {"idle", "poll", "loaded", "stored"}
    BY <1>1, <1>3 DEF Char
  <2> QED
    BY <1>1, <1>3, <1>4, <2>1, ZenonT(40) DEF TypeOK, ringVars, modVars, envVars
<1>6. PopInv'
  BY <1>1, <1>3 DEF PopInv
<1> QED
  BY <1>3, <1>5, <1>6

\* Every step keeps the invariant.
LEMMA StepInv == Inv /\ [Next]_vars => Inv'
<1> SUFFICES ASSUME Inv, [Next]_vars PROVE Inv'
  OBVIOUS
<1>1. ASSUME NEW n \in Asked, ReadCall(n)
      PROVE  Inv'
  <2>1. /\ count' \in Asked \cup {LineMax} /\ pc' = "poll"
        /\ UNCHANGED <<kbd_tail, c, slot, line_buffer, line_pos, returned, last, taken, delivered,
                       ringVars, modVars, envVars, accepted>>
    BY <1>1 DEF ReadCall
  <2>2. TypeOK'
    BY <2>1, ZenonT(40) DEF Inv, TypeOK, ringVars, modVars, envVars
  <2>3. LineInv' /\ PopInv'
    BY <2>1 DEF Inv, LineInv, PopInv, modVars, envVars
  <2> QED
    BY <2>2, <2>3 DEF Inv
<1>2. CASE UNCHANGED vars
  <2>1. TypeOK'
    BY <1>2, ZenonT(40) DEF Inv, TypeOK, vars, ringVars, modVars, readVars, envVars
  <2>2. LineInv' /\ PopInv'
    BY <1>2 DEF Inv, LineInv, PopInv, vars, ringVars, modVars, readVars, envVars
  <2> QED
    BY <2>1, <2>2 DEF Inv
<1> QED
  BY <1>1, <1>2, KeyStep, StartPopStep, EndPopStep DEF Next, Reader

\* The invariant holds throughout.
LEMMA Invariant == Spec => []Inv
BY InitInv, StepInv, PTL DEF Spec

\* Whatever is typed and however read() and the shell interleave with the
\* interrupts, the indices of keyboard.c and the line buffer stay inside their
\* arrays, for every size of both.
THEOREM KeyboardTypeCorrect == Spec => []TypeOK
<1>1. Inv => TypeOK
  BY DEF Inv
<1> QED
  BY <1>1, Invariant, PTL

-----------------------------------------------------------------------------
(* The refinement.                                                         *)

\* At first the queue is empty.
LEMMA InitRefines == Init => KQ!Init
<1> SUFFICES ASSUME Init PROVE Waiting = <<>> /\ LastRead = "nul" /\ typed - accepted = 0
  BY DEF KQ!Init
<1>1. Inv
  BY InitInv
<1>2. Waiting \in Seq(Char) /\ Len(Waiting) = (kbd_head - kbd_tail) % Size
  BY <1>1, WaitingIs DEF Inv
<1>3. (kbd_head - kbd_tail) % Size = 0
  BY Distance DEF Init
<1>4. Waiting = <<>>
  BY <1>2, <1>3
<1>5. pc # "stored" /\ last = "nul" /\ typed - accepted = 0
  BY DEF Init
<1> QED
  BY <1>4, <1>5 DEF LastRead

\* A push is Press; the other interrupts, and the calls of read(), are not seen.
LEMMA KeyRefines ==
  ASSUME Inv, Inv', NEW key \in CharKey, KeyMakeChar(key)
  PROVE  KQ!Next
<1> DEFINE ch == get_char_from_scancode(key)
<1>1. ch \in Char
  BY ScancodeChar
<1> HIDE DEF ch
<1>2. kbd_buffer_push(ch) /\ UNCHANGED readVars
  BY DEF KeyMakeChar, Scancode, ch
<1>3. IF Len(Waiting) < Size - 1 THEN Waiting' = Append(Waiting, ch) /\ accepted' = accepted + 1
                                 ELSE Waiting' = Waiting /\ accepted' = accepted
  BY <1>1, <1>2, PushAppends DEF readVars, Inv
<1>4. LastRead' = LastRead
  <2>1. pc' = pc /\ slot' = slot /\ last' = last /\ kbd_tail' = kbd_tail
    BY <1>2 DEF readVars
  <2>2. CASE pc = "stored"
    <3>1. kbd_tail = (slot + 1) % Size
      BY <2>2 DEF Inv, PopInv
    <3>2. kbd_buffer'[slot] = kbd_buffer[slot]
      <4>1. CASE kbd_buffer_full
        BY <1>2, <4>1 DEF kbd_buffer_push, ringVars
      <4>2. CASE ~kbd_buffer_full
        <5>1. kbd_head # slot
          BY <3>1, <4>2 DEF kbd_buffer_full
        <5> QED
          BY <1>2, <4>2, <5>1 DEF kbd_buffer_push, Inv, TypeOK
      <4> QED
        BY <4>1, <4>2
    <3> QED
      BY <2>1, <2>2, <3>2 DEF LastRead
  <2> QED
    BY <2>1, <2>2 DEF LastRead
<1>5. typed' = typed + 1 /\ typed \in Nat /\ accepted \in Nat
  BY DEF KeyMakeChar, Inv, TypeOK
<1>6. IF Len(Waiting) < Size - 1 THEN typed' - accepted' = typed - accepted
                                 ELSE typed' - accepted' = (typed - accepted) + 1
  BY <1>3, <1>5
<1> QED
  BY <1>1, <1>3, <1>4, <1>6 DEF KQ!Next, KQ!Press

\* Of the two steps of a pop, the store of kbd_tail is Read.
LEMMA PopRefines ==
  ASSUME Inv, Inv', Reader
  PROVE  KQ!Next \/ UNCHANGED <<Waiting, LastRead, typed - accepted>>
<1>0. (typed - accepted)' = typed - accepted
  BY DEF Reader, StartPop, EndPop, envVars
<1>1. CASE StartPop /\ LoadChar
  <2>1. UNCHANGED <<ringVars, kbd_tail, last>> /\ pc = "poll" /\ pc' = "loaded"
    BY <1>1 DEF StartPop, LoadChar
  <2> QED
    BY <1>0, <2>1 DEF Waiting, LastRead, ringVars
<1>2. CASE StartPop /\ StoreTail
  <2>1. /\ UNCHANGED ringVars /\ AdvanceTail /\ kbd_head # kbd_tail
        /\ pc' = "stored" /\ slot' = kbd_tail
    BY <1>2 DEF StartPop, StoreTail, kbd_buffer_empty
  <2>2. Waiting # <<>> /\ Head(Waiting) = kbd_buffer[kbd_tail] /\ Waiting' = Tail(Waiting)
    BY <2>1, PopTakesHead DEF Inv
  <2>3. LastRead' = kbd_buffer[kbd_tail]
    BY <2>1 DEF LastRead, ringVars
  <2> QED
    BY <1>0, <2>2, <2>3 DEF KQ!Next, KQ!Read
<1>3. CASE EndPop /\ pc = "loaded"
  <2>1. UNCHANGED ringVars /\ AdvanceTail /\ last' = c /\ pc' # "stored"
    BY <1>3 DEF EndPop, Take, TakeNewline, TakeBackspace, TakeOther
  <2>2. kbd_head # kbd_tail /\ c = kbd_buffer[kbd_tail]
    BY <1>3 DEF Inv, PopInv
  <2>3. Waiting # <<>> /\ Head(Waiting) = kbd_buffer[kbd_tail] /\ Waiting' = Tail(Waiting)
    BY <2>1, <2>2, PopTakesHead DEF Inv
  <2>4. LastRead' = c
    BY <2>1 DEF LastRead
  <2> QED
    BY <1>0, <2>2, <2>3, <2>4 DEF KQ!Next, KQ!Read
<1>4. CASE EndPop /\ pc = "stored"
  <2>1. UNCHANGED <<ringVars, kbd_tail>> /\ last' = kbd_buffer[slot] /\ pc' # "stored"
    BY <1>4 DEF EndPop, Take, TakeNewline, TakeBackspace, TakeOther
  <2> QED
    BY <1>0, <1>4, <2>1 DEF Waiting, LastRead, ringVars
<1> QED
  BY <1>1, <1>2, <1>3, <1>4 DEF Reader, StartPop, EndPop

\* The ring buffer of keyboard.c implements the queue, for every size of the
\* ring, although the interrupt handler may push in the middle of a pop and
\* the pop may store kbd_tail before it loads the character.
THEOREM RingIsQueue == Spec => ImplementsKeyQueue
<1>1. Inv /\ Inv' /\ [Next]_vars => [KQ!Next]_<<Waiting, LastRead, typed - accepted>>
  <2> SUFFICES ASSUME Inv, Inv', [Next]_vars
               PROVE  KQ!Next \/ UNCHANGED <<Waiting, LastRead, typed - accepted>>
    OBVIOUS
  <2>1. CASE \/ \E key \in ShiftKey : KeyBreak(key) \/ KeyMakeShift(key)
             \/ KeyMakeCaps
    BY <2>1 DEF KeyBreak, KeyMakeShift, KeyMakeCaps, Scancode, readVars, ringVars, Waiting, LastRead
  <2>2. CASE \E n \in Asked : ReadCall(n)
    BY <2>2 DEF ReadCall, ringVars, envVars, Waiting, LastRead
  <2>3. CASE UNCHANGED vars
    BY <2>3 DEF vars, readVars, ringVars, envVars, Waiting, LastRead
  <2> QED
    BY <2>1, <2>2, <2>3, KeyRefines, PopRefines DEF Next
<1> QED
  BY <1>1, InitRefines, Invariant, PTL DEF Spec, ImplementsKeyQueue, KQ!Spec
-----------------------------------------------------------------------------
(* The line editor.  The library's theorem about well-founded relations    *)
(* speaks of sets, so that it can be used where NatInduction cannot.       *)

\* A set of numbers that is not empty has a least member.
LEMMA LeastNumber ==
  ASSUME NEW T, T \subseteq Nat, T # {}
  PROVE  \E n \in T : \A m \in T : n <= m
<1>1. PICK n \in T : \A m \in T : ~(<<m, n>> \in OpToRel(<, Nat))
  BY NatLessThanWellFounded, WFMin, ZenonT(40)
<1>2. \A m \in T : ~(m < n)
  BY <1>1, ZenonT(40) DEF OpToRel
<1> QED
  BY <1>2

\* A set that has 0, and with each number below N the next, has all up to N.
LEMMA Induction ==
  ASSUME NEW N \in Nat, NEW T, 0 \in T, \A n \in 0 .. N - 1 : n \in T => n + 1 \in T
  PROVE  \A n \in 0 .. N : n \in T
<1> SUFFICES ASSUME (0 .. N) \ T # {} PROVE FALSE
  OBVIOUS
<1>0. (0 .. N) \ T \subseteq Nat
  OBVIOUS
<1>1. PICK n \in (0 .. N) \ T : \A m \in (0 .. N) \ T : n <= m
  BY <1>0, LeastNumber, ZenonT(40)
<1>2. n - 1 \in 0 .. N - 1 /\ n - 1 \in T
  BY <1>1
<1> QED
  BY <1>2

\* The recursion of EditSteps defines a function.
LEMMA EditStepsIs ==
  ASSUME NEW s, Len(s) \in Nat
  PROVE  EditSteps(s) = [n \in 0 .. Len(s) |-> IF n = 0 THEN <<>> ELSE Edit(EditSteps(s)[n - 1], s[n])]
<1> DEFINE Is(f, m) == f = [n \in 0 .. m |-> IF n = 0 THEN <<>> ELSE Edit(f[n - 1], s[n])]
           T == {m \in Nat : \E f : Is(f, m)}
<1> HIDE DEF Edit
<1>1. 0 \in T
  <2>1. Is([n \in 0 .. 0 |-> <<>>], 0)
    OBVIOUS
  <2> QED
    BY <2>1, ZenonT(40)
<1>2. ASSUME NEW m \in Nat, m \in T
      PROVE  m + 1 \in T
  <2>1. PICK f : Is(f, m)
    BY <1>2
  <2> DEFINE g == [n \in 0 .. m + 1 |-> IF n = 0 THEN <<>> ELSE Edit(f[n - 1], s[n])]
  <2>2. /\ g = [n \in 0 .. m + 1 |-> IF n = 0 THEN <<>> ELSE Edit(f[n - 1], s[n])]
        /\ \A n \in 0 .. m : g[n] = IF n = 0 THEN <<>> ELSE Edit(f[n - 1], s[n])
        /\ \A n \in 0 .. m : f[n] = IF n = 0 THEN <<>> ELSE Edit(f[n - 1], s[n])
    BY <2>1
  <2> HIDE DEF g
  <2>3. \A n \in 1 .. m + 1 : n - 1 \in 0 .. m /\ g[n - 1] = f[n - 1]
    BY <2>2
  <2>4. Is(g, m + 1)
    BY <2>2, <2>3
  <2> QED
    BY <2>4
<1> HIDE DEF T
<1>3. Len(s) \in T
  <2>1. \A m \in 0 .. Len(s) : m \in T
    BY <1>1, <1>2, Induction
  <2> QED
    BY <2>1
<1> USE DEF T
<1>4. PICK f : Is(f, Len(s))
  BY <1>3
<1>5. EditSteps(s) = CHOOSE h : Is(h, Len(s))
  BY DEF EditSteps
<1> HIDE DEF Is
<1>6. Is(EditSteps(s), Len(s))
  BY <1>4, <1>5
<1> QED
  BY <1>6 DEF Is

\* Nothing typed, nothing kept.
LEMMA EditedEmpty == Edited(<<>>) = <<>>
<1>1. Len(<<>>) = 0
  OBVIOUS
<1>2. EditSteps(<<>>) = [n \in 0 .. 0 |-> IF n = 0 THEN <<>> ELSE Edit(EditSteps(<<>>)[n - 1], <<>>[n])]
  BY <1>1, EditStepsIs
<1>3. EditSteps(<<>>)[0] = <<>>
  BY <1>2
<1> QED
  BY <1>1, <1>3 DEF Edited

\* One more character edits what the characters before it have made.
LEMMA EditedAppend ==
  ASSUME NEW s \in Seq(Char), NEW e \in Char
  PROVE  Edited(Append(s, e)) = Edit(Edited(s), e)
<1> DEFINE t == Append(s, e)
           N == Len(s)
           T == {n \in 0 .. N : EditSteps(t)[n] = EditSteps(s)[n]}
<1>1. N \in Nat /\ Len(t) = N + 1 /\ t[N + 1] = e /\ \A n \in 1 .. N : t[n] = s[n]
  BY AppendProperties
<1> HIDE DEF t, N
<1>2. \A n \in 0 .. N : EditSteps(s)[n] = IF n = 0 THEN <<>> ELSE Edit(EditSteps(s)[n - 1], s[n])
  <2>1. EditSteps(s) = [n \in 0 .. N |-> IF n = 0 THEN <<>> ELSE Edit(EditSteps(s)[n - 1], s[n])]
    BY <1>1, EditStepsIs DEF N
  <2> HIDE DEF EditSteps
  <2> QED
    BY <2>1, ZenonT(40)
<1>3. \A n \in 0 .. N + 1 : EditSteps(t)[n] = IF n = 0 THEN <<>> ELSE Edit(EditSteps(t)[n - 1], t[n])
  <2>1. Len(t) \in Nat
    BY <1>1
  <2>2. EditSteps(t) = [n \in 0 .. Len(t) |-> IF n = 0 THEN <<>> ELSE Edit(EditSteps(t)[n - 1], t[n])]
    BY <2>1, EditStepsIs
  <2> QED
    BY <1>1, <2>2
<1>4. 0 \in T
  BY <1>1, <1>2, <1>3
<1>5. ASSUME NEW n \in 0 .. N - 1, n \in T
      PROVE  n + 1 \in T
  <2>1. n + 1 \in 1 .. N /\ (n + 1) - 1 = n /\ n + 1 # 0
    BY <1>1
  <2>2. EditSteps(t)[n + 1] = Edit(EditSteps(t)[n], t[n + 1])
    BY <1>1, <1>3, <2>1
  <2>3. EditSteps(s)[n + 1] = Edit(EditSteps(s)[n], s[n + 1])
    BY <1>1, <1>2, <2>1
  <2>4. EditSteps(t)[n] = EditSteps(s)[n] /\ t[n + 1] = s[n + 1]
    BY <1>1, <1>5, <2>1
  <2> QED
    BY <1>1, <2>1, <2>2, <2>3, <2>4
<1> HIDE DEF T
<1>6. \A n \in 0 .. N : n \in T
  BY <1>1, <1>4, <1>5, Induction, ZenonT(40)
<1>7. EditSteps(t)[N] = EditSteps(s)[N]
  BY <1>1, <1>6 DEF T
<1>8. EditSteps(t)[N + 1] = Edit(EditSteps(t)[N], e)
  BY <1>1, <1>3
<1>9. Edited(t) = EditSteps(t)[N + 1] /\ Edited(s) = EditSteps(s)[N]
  BY <1>1 DEF Edited, N
<1> QED
  BY <1>7, <1>8, <1>9 DEF t

\* A line under construction in an array.
LineOf(buffer, n) == [k \in 1 .. n |-> buffer[k - 1]]

\* A line is as long as its index says.
LEMMA LineOfIs ==
  ASSUME NEW buffer \in [0 .. LineMax -> Char], NEW n \in 0 .. LineMax
  PROVE  /\ LineOf(buffer, n) \in Seq(Char) /\ Len(LineOf(buffer, n)) = n
         /\ \A k \in 1 .. n : LineOf(buffer, n)[k] = buffer[k - 1]
<1>1. \A k \in 1 .. n : buffer[k - 1] \in Char
  OBVIOUS
<1> QED
  BY <1>1 DEF LineOf

\* line_pos - 1 takes the last character off.
LEMMA Shortened ==
  ASSUME NEW buffer \in [0 .. LineMax -> Char], NEW n \in 1 .. LineMax
  PROVE  LineOf(buffer, n - 1) = SubSeq(LineOf(buffer, n), 1, Len(LineOf(buffer, n)) - 1)
<1> DEFINE l == LineOf(buffer, n)
           r == LineOf(buffer, n - 1)
<1>0. n \in 0 .. LineMax
  OBVIOUS
<1>1. l \in Seq(Char) /\ Len(l) = n /\ \A k \in 1 .. n : l[k] = buffer[k - 1]
  BY <1>0, LineOfIs, ZenonT(40)
<1>2. r \in Seq(Char) /\ Len(r) = n - 1 /\ \A k \in 1 .. n - 1 : r[k] = buffer[k - 1]
  <2>1. n - 1 \in 0 .. LineMax
    OBVIOUS
  <2> QED
    BY <2>1, LineOfIs, ZenonT(40)
<1> HIDE DEF l, r
<1>3. /\ SubSeq(l, 1, n - 1) \in Seq(Char) /\ Len(SubSeq(l, 1, n - 1)) = n - 1
      /\ \A k \in 1 .. n - 1 : SubSeq(l, 1, n - 1)[k] = l[k]
  BY <1>1
<1>4. r = SubSeq(l, 1, n - 1)
  BY <1>1, <1>2, <1>3, SeqEqual
<1> QED
  BY <1>1, <1>4 DEF l, r

\* Storing at line_pos appends.
LEMMA Lengthened ==
  ASSUME NEW buffer \in [0 .. LineMax -> Char], NEW n \in 0 .. LineMax - 1, NEW ch \in Char
  PROVE  LineOf([buffer EXCEPT ![n] = ch], n + 1) = Append(LineOf(buffer, n), ch)
<1> DEFINE l == LineOf(buffer, n)
           b == [buffer EXCEPT ![n] = ch]
           r == LineOf(b, n + 1)
<1>0. n \in 0 .. LineMax
  OBVIOUS
<1>1. l \in Seq(Char) /\ Len(l) = n /\ \A k \in 1 .. n : l[k] = buffer[k - 1]
  BY <1>0, LineOfIs, ZenonT(40)
<1>2. b \in [0 .. LineMax -> Char] /\ b[n] = ch /\ \A k \in 0 .. n - 1 : b[k] = buffer[k]
  OBVIOUS
<1> HIDE DEF b
<1>3. r \in Seq(Char) /\ Len(r) = n + 1 /\ \A k \in 1 .. n + 1 : r[k] = b[k - 1]
  <2>1. n + 1 \in 0 .. LineMax
    OBVIOUS
  <2> QED
    BY <1>2, <2>1, LineOfIs, ZenonT(40)
<1> HIDE DEF l, r
<1>4. /\ Append(l, ch) \in Seq(Char) /\ Len(Append(l, ch)) = n + 1
      /\ \A k \in 1 .. n : Append(l, ch)[k] = l[k]
      /\ Append(l, ch)[n + 1] = ch
  BY <1>1, AppendProperties
<1>5. \A k \in 1 .. n + 1 : r[k] = Append(l, ch)[k]
  BY <1>1, <1>2, <1>3, <1>4
<1>6. r = Append(l, ch)
  BY <1>3, <1>4, <1>5, SeqEqual
<1> QED
  BY <1>6, ZenonT(40) DEF l, r, b

\* What the reader does with a character is what the editor does with it.
LEMMA TakeEdits ==
  ASSUME Inv, LineIsEdited, NEW ch \in Char, Take(ch)
  PROVE  LineIsEdited'
<1>1. /\ line_pos \in 0 .. LineMax /\ line_buffer \in [0 .. LineMax -> Char] /\ taken \in Seq(Char)
      /\ Line = LineOf(line_buffer, line_pos) /\ Line' = LineOf(line_buffer', line_pos')
  BY DEF Inv, TypeOK, Line, LineOf
<1>2. Line \in Seq(Char) /\ Len(Line) = line_pos
  BY <1>1, LineOfIs
<1>3. Line = Edited(taken)
  BY DEF LineIsEdited
<1>4. SUFFICES Line' = Edited(taken')
  BY DEF LineIsEdited, Edited, EditSteps, Edit
<1>5. Edited(Append(taken, ch)) = Edit(Line, ch)
  BY <1>1, <1>3, EditedAppend
<1>6. CASE TakeNewline(ch)
  <2>1. line_pos' = 0 /\ taken' = <<>>
    BY <1>6 DEF TakeNewline, ResetLine
  <2>2. Line' = <<>>
    BY <2>1 DEF Line
  <2> QED
    BY <2>1, <2>2, EditedEmpty
<1>7. CASE TakeBackspace(ch)
  <2>1. /\ ch = "bs" /\ line_buffer' = line_buffer /\ taken' = Append(taken, ch)
        /\ line_pos' = IF line_pos > 0 THEN line_pos - 1 ELSE line_pos
    BY <1>7 DEF TakeBackspace
  <2>2. CASE line_pos = 0
    <3>1. Line = <<>> /\ Line' = Line
      BY <1>1, <1>2, <2>1, <2>2
    <3> QED
      BY <1>5, <2>1, <3>1 DEF Edit
  <2>3. CASE line_pos # 0
    <3>1. line_pos \in 1 .. LineMax /\ line_pos' = line_pos - 1 /\ Line # <<>>
      BY <1>1, <1>2, <2>1, <2>3
    <3>2. Line' = SubSeq(Line, 1, Len(Line) - 1)
      BY <1>1, <2>1, <3>1, Shortened
    <3> QED
      BY <1>5, <2>1, <3>1, <3>2 DEF Edit
  <2> QED
    BY <2>2, <2>3
<1>8. CASE TakeOther(ch)
  <2>1. ch # "bs" /\ taken' = Append(taken, ch)
    BY <1>8 DEF TakeOther
  <2>2. CASE ch \in Printable /\ HasRoom
    <3>1. /\ line_buffer' = [line_buffer EXCEPT ![line_pos] = ch] /\ line_pos' = line_pos + 1
          /\ line_pos \in 0 .. LineMax - 1
      BY <1>1, <1>8, <2>2 DEF TakeOther, HasRoom
    <3>2. Line' = Append(Line, ch)
      BY <1>1, <3>1, Lengthened, ZenonT(40)
    <3> QED
      BY <1>2, <1>5, <2>1, <2>2, <3>1, <3>2 DEF Edit
  <2>3. CASE ~(ch \in Printable /\ HasRoom)
    <3>1. Line' = Line
      BY <1>1, <1>8, <2>3 DEF TakeOther
    <3> QED
      BY <1>2, <1>5, <2>1, <2>3, <3>1 DEF Edit, HasRoom
  <2> QED
    BY <2>2, <2>3
<1> QED
  BY <1>6, <1>7, <1>8 DEF Take

\* The line is the edited one at every step.
LEMMA LineStep == Inv /\ LineIsEdited /\ [Next]_vars => LineIsEdited'
<1> SUFFICES ASSUME Inv, LineIsEdited, [Next]_vars PROVE LineIsEdited'
  OBVIOUS
<1>1. CASE UNCHANGED <<line_buffer, line_pos, taken>>
  BY <1>1 DEF LineIsEdited, Line, Edited, EditSteps, Edit
<1>2. CASE EndPop
  <2>1. PICK ch \in Char : Take(ch)
    <3>1. c \in Char /\ kbd_buffer[slot] \in Char
      BY DEF Inv, TypeOK
    <3> QED
      BY <1>2, <3>1 DEF EndPop
  <2> QED
    BY <2>1, TakeEdits
<1>3. EndPop \/ UNCHANGED <<line_buffer, line_pos, taken>>
  BY DEF Next, Reader, StartPop, ReadCall, KeyMakeChar, KeyMakeCaps, KeyMakeShift, KeyBreak, Scancode, readVars, vars
<1> QED
  BY <1>1, <1>2, <1>3

\* A step that ends a read() hands the line over.
LEMMA HandOver ==
  ASSUME Inv, LineIsEdited, [Next]_vars, pc # "idle", pc' = "idle"
  PROVE  /\ returned' = SubSeq(Edited(taken), 1, Least(Len(Edited(taken)), count))
         /\ line_pos' = 0
<1>1. EndPop
  BY DEF Next, Reader, StartPop, LoadChar, StoreTail, ReadCall,
         KeyMakeChar, KeyMakeCaps, KeyMakeShift, KeyBreak, Scancode, readVars, vars
<1>2. PICK ch : Take(ch)
  BY <1>1 DEF EndPop
<1>3. TakeNewline(ch)
  BY <1>2 DEF Take, TakeBackspace, TakeOther
<1>4. /\ line_pos \in 0 .. LineMax /\ line_buffer \in [0 .. LineMax -> Char]
      /\ Line = LineOf(line_buffer, line_pos)
  BY DEF Inv, TypeOK, Line, LineOf
<1>5. Len(Line) = line_pos
  BY <1>4, LineOfIs
<1> QED
  BY <1>3, <1>5 DEF TakeNewline, ResetLine, LineIsEdited

\* The shell and read() edit the line as it was typed, for every length of the
\* line buffer and whatever earlier lines left in it, and read() returns the
\* first count characters of the line typed since the previous newline.
THEOREM LineHandedOverAlways == Spec => LineHandedOver
<1>1. Init => LineIsEdited
  <2> SUFFICES ASSUME Init PROVE LineIsEdited
    OBVIOUS
  <2>1. Line = <<>> /\ taken = <<>>
    BY DEF Init, Line
  <2> QED
    BY <2>1, EditedEmpty DEF LineIsEdited
<1>2. Inv /\ LineIsEdited /\ [Next]_vars =>
        [/\ LineIsEdited
         /\ pc # "idle" /\ pc' = "idle" =>
              /\ returned' = SubSeq(Edited(taken), 1, Least(Len(Edited(taken)), count))
              /\ line_pos' = 0]_vars
  BY HandOver
<1> QED
  BY <1>1, <1>2, LineStep, Invariant, PTL DEF Spec, LineHandedOver
=============================================================================
