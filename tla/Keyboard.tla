------------------------------ MODULE Keyboard ------------------------------
(***************************************************************************)
(* drivers/keyboard.c and its two readers: SYS_READ of syscalls.c, which   *)
(* polls with interrupts disabled, and the kernel shell, which polls with  *)
(* interrupts enabled.  keyboard_isr may run between any two steps of the  *)
(* shell; reading a character is therefore two steps, the load from        *)
(* kbd_buffer and the store to kbd_tail.  Only the indices are volatile,   *)
(* so the compiler may emit the two in either order.  launch_shell's call  *)
(* in main.c is commented out; what the shell types on the screen and what *)
(* its commands do is left out.                                            *)
(***************************************************************************)
EXTENDS Integers, Sequences

CONSTANTS Size,      \* KBD_BUFFER_SIZE
          LineMax,   \* sizeof(line_buffer) - 1
          Shell,     \* TRUE: the kernel shell reads; FALSE: SYS_READ
          Asked,     \* the values of read()'s count (a count of 0 returns -1)
          MaxKeys    \* bound: how many scancodes arrive

ASSUME KeyboardAssumption ==
  /\ Size \in Nat \ {0, 1} /\ LineMax \in Nat \ {0} /\ MaxKeys \in Nat
  /\ Shell \in BOOLEAN /\ Asked \subseteq Nat \ {0}

\* One letter and one digit stand for all.  "nul" is what keys without a
\* character give.
Letter == {"a", "A"}
Printable == Letter \cup {"1", "!"}
Char == Printable \cup {"nl", "bs", "nul"}
ShiftKey == {"lshift", "rshift"}
CharKey == {"letter", "digit", "enter", "backspace", "other"}

VARIABLES
  kbd_buffer, kbd_head, kbd_tail,
  left_shift, right_shift, caps_lock,
  pc,           \* the reader: "idle", "poll", or half-way through kbd_buffer_pop:
                \* "loaded" (kbd_tail not yet stored) or "stored" (not yet loaded)
  c,            \* the character loaded by kbd_buffer_pop
  slot,         \* the index it still has to load from
  line_buffer, line_pos,
  count,        \* read()'s argument
  returned,     \* the line last handed over
  keys,         \* scancodes so far (environment)
  typed,        \* those of them that give a character (environment)
  last,         \* the character last read (history)
  taken,        \* the characters read since the last newline (history)
  accepted, delivered  \* characters put into and taken from the ring (history)

ringVars == <<kbd_buffer, kbd_head>>
modVars  == <<left_shift, right_shift, caps_lock>>
readVars == <<kbd_tail, pc, c, slot, line_buffer, line_pos, count, returned, last, taken, delivered>>
envVars  == <<typed, keys>>
vars == <<ringVars, modVars, readVars, envVars, accepted>>

Init ==
  /\ kbd_buffer = [k \in 0 .. (Size - 1) |-> "nul"] /\ kbd_head = 0 /\ kbd_tail = 0
  /\ left_shift = FALSE /\ right_shift = FALSE /\ caps_lock = FALSE
  /\ pc = (IF Shell THEN "poll" ELSE "idle") /\ c = "nul" /\ slot = 0
  /\ line_buffer = [k \in 0 .. LineMax |-> "nul"] /\ line_pos = 0
  /\ count = LineMax /\ returned = <<>>
  /\ typed = 0 /\ keys = 0
  /\ last = "nul" /\ taken = <<>> /\ accepted = 0 /\ delivered = 0

\* Mutant: a single character is not noticed.
EmptyOffByOne == kbd_tail \in {kbd_head, (kbd_head + Size - 1) % Size}

kbd_buffer_empty == kbd_head = kbd_tail

\* Mutant: all Size slots are used.
FullNever == FALSE

kbd_buffer_full == (kbd_head + 1) % Size = kbd_tail

kbd_buffer_push(ch) ==
  IF kbd_buffer_full
  THEN UNCHANGED <<ringVars, accepted>>
  ELSE /\ kbd_buffer' = [kbd_buffer EXCEPT ![kbd_head] = ch]
       /\ kbd_head' = (kbd_head + 1) % Size
       /\ accepted' = accepted + 1

is_shift_pressed == left_shift \/ right_shift

\* The two tables, and what caps lock does to a letter.
table(key, shifted) ==
  CASE key = "letter"    -> IF shifted THEN "A" ELSE "a"
    [] key = "digit"     -> IF shifted THEN "!" ELSE "1"
    [] key = "enter"     -> "nl"
    [] key = "backspace" -> "bs"
    [] key = "other"     -> "nul"

get_char_from_scancode(key) ==
  LET ch == table(key, is_shift_pressed)
  IN  IF caps_lock /\ ch = "a" THEN "A"
      ELSE IF caps_lock /\ ch = "A" /\ is_shift_pressed THEN "a"
      ELSE ch

\* keyboard_handler runs when interrupts are enabled: always under the shell,
\* outside the system call otherwise.
CanInterrupt == Shell \/ pc = "idle"
Scancode ==
  /\ CanInterrupt
  /\ keys < MaxKeys
  /\ keys' = keys + 1
  /\ UNCHANGED readVars

ReleaseShift(key) ==
  /\ left_shift'  = IF key = "lshift" THEN FALSE ELSE left_shift
  /\ right_shift' = IF key = "rshift" THEN FALSE ELSE right_shift

\* The break code of a shift key; break codes of other keys change nothing.  The
\* codes of the left one also come without it: the handler takes no notice of the
\* prefix by which a keyboard tells the codes it sends around the cursor keys.
KeyBreak(key) ==
  /\ Scancode
  /\ ReleaseShift(key)
  /\ UNCHANGED <<caps_lock, typed, ringVars, accepted>>

KeyMakeShift(key) ==
  /\ Scancode
  /\ left_shift'  = (left_shift \/ key = "lshift")
  /\ right_shift' = (right_shift \/ key = "rshift")
  /\ UNCHANGED <<caps_lock, typed, ringVars, accepted>>

KeyMakeCaps ==
  /\ Scancode
  /\ caps_lock' = ~caps_lock
  /\ UNCHANGED <<left_shift, right_shift, typed, ringVars, accepted>>

KeyMakeChar(key) ==
  /\ Scancode
  /\ kbd_buffer_push(get_char_from_scancode(key))
  /\ typed' = typed + 1
  /\ UNCHANGED modVars

\* read(0, buf, n) by a program.
ReadCall(n) ==
  /\ ~Shell /\ pc = "idle"
  /\ count' = n
  /\ pc' = "poll"
  /\ UNCHANGED <<kbd_tail, c, slot, line_buffer, line_pos, returned, last, taken, delivered,
                 ringVars, modVars, envVars, accepted>>

AdvanceTail == kbd_tail' = (kbd_tail + 1) % Size

\* keyboard_has_data, and the first half of kbd_buffer_pop in source order ...
LoadChar ==
  /\ c' = kbd_buffer[kbd_tail]
  /\ pc' = "loaded"
  /\ UNCHANGED <<kbd_tail, slot, last, delivered>>

\* ... or with the store moved before the load.
StoreTail ==
  /\ slot' = kbd_tail
  /\ AdvanceTail
  /\ pc' = "stored"
  /\ UNCHANGED <<c, last, delivered>>

StartPop ==
  /\ pc = "poll"
  /\ ~kbd_buffer_empty
  /\ LoadChar \/ StoreTail
  /\ UNCHANGED <<line_buffer, line_pos, count, returned, taken, ringVars, modVars, envVars, accepted>>

Line == [k \in 1 .. line_pos |-> line_buffer[k - 1]]
Least(m, n) == IF m < n THEN m ELSE n

\* Mutant: the next line continues this one.
KeepLine == UNCHANGED line_pos

ResetLine == line_pos' = 0

\* A newline hands the line over: SYS_READ copies at most count characters and
\* returns; the shell terminates the string, executes it and goes on polling.
TakeNewline(ch) ==
  /\ ch = "nl"
  /\ returned' = SubSeq(Line, 1, Least(line_pos, count))
  /\ line_buffer' = IF Shell THEN [line_buffer EXCEPT ![line_pos] = "nul"] ELSE line_buffer
  /\ ResetLine
  /\ taken' = <<>>
  /\ pc' = IF Shell THEN "poll" ELSE "idle"

TakeBackspace(ch) ==
  /\ ch = "bs"
  /\ line_pos' = IF line_pos > 0 THEN line_pos - 1 ELSE line_pos
  /\ taken' = Append(taken, ch)
  /\ pc' = "poll"
  /\ UNCHANGED <<line_buffer, returned>>

HasRoom == line_pos < LineMax

TakeOther(ch) ==
  /\ ch \notin {"nl", "bs"}
  /\ IF ch \in Printable /\ HasRoom
     THEN /\ line_buffer' = [line_buffer EXCEPT ![line_pos] = ch]
          /\ line_pos' = line_pos + 1
     ELSE UNCHANGED <<line_buffer, line_pos>>
  /\ taken' = Append(taken, ch)
  /\ pc' = "poll"
  /\ UNCHANGED returned

\* What the reader does with the character.
Take(ch) ==
  /\ last' = ch
  /\ delivered' = delivered + 1
  /\ TakeNewline(ch) \/ TakeBackspace(ch) \/ TakeOther(ch)

\* The second half of kbd_buffer_pop, and the reader up to its next poll.
EndPop ==
  /\ \/ pc = "loaded" /\ AdvanceTail /\ Take(c)
     \/ pc = "stored" /\ UNCHANGED kbd_tail /\ Take(kbd_buffer[slot])
  /\ c' = "nul" /\ slot' = 0     \* both are dead now
  /\ UNCHANGED <<count, ringVars, modVars, envVars, accepted>>

Reader == StartPop \/ EndPop

Next ==
  \/ \E key \in ShiftKey : KeyBreak(key) \/ KeyMakeShift(key)
  \/ KeyMakeCaps
  \/ \E key \in CharKey : KeyMakeChar(key)
  \/ \E n \in Asked : ReadCall(n)
  \/ Reader

\* The polling loop keeps running: nothing preempts the shell for ever, and
\* nothing at all preempts SYS_READ.
Spec == Init /\ [][Next]_vars /\ WF_vars(Reader)
-----------------------------------------------------------------------------
(* Properties. *)

\* Indices stay inside their arrays.
TypeOK ==
  /\ kbd_buffer \in [0 .. (Size - 1) -> Char]
  /\ kbd_head \in 0 .. (Size - 1) /\ kbd_tail \in 0 .. (Size - 1)
  /\ {left_shift, right_shift, caps_lock} \subseteq BOOLEAN
  /\ pc \in {"idle", "poll", "loaded", "stored"} /\ slot \in 0 .. (Size - 1) /\ c \in Char /\ last \in Char
  /\ line_buffer \in [0 .. LineMax -> Char] /\ line_pos \in 0 .. LineMax
  /\ count \in Asked \cup {LineMax}
  /\ returned \in Seq(Printable) /\ taken \in Seq(Char)
  /\ typed \in Nat /\ keys \in 0 .. MaxKeys
  /\ accepted \in Nat /\ delivered \in Nat

\* The characters between kbd_tail and kbd_head.
Waiting == [k \in 1 .. ((kbd_head - kbd_tail) % Size) |-> kbd_buffer[(kbd_tail + k - 1) % Size]]

\* The character last read, from the moment its slot is given up.
LastRead == IF pc = "stored" THEN kbd_buffer[slot] ELSE last

\* The ring buffer and its two-step pop, interrupted by pushes, implement the queue:
\* no character is doubled, reordered or overwritten while it is being read, and
\* every key typed that is not put into the buffer finds it full.  (The slot that
\* kbd_buffer_full keeps free is what protects the character of a pop whose store
\* comes first.)
KQ == INSTANCE KeyQueue WITH Capacity <- Size - 1, NoChar <- "nul",
                             waiting <- Waiting, last <- LastRead,
                             dropped <- typed - accepted
ImplementsKeyQueue == KQ!Spec

\* What a line editor makes of the characters s: a backspace undoes the last
\* character kept, and nothing is kept beyond LineMax.
Edit(line, ch) ==
  IF ch = "bs" THEN (IF line = <<>> THEN line ELSE SubSeq(line, 1, Len(line) - 1))
  ELSE IF ch \in Printable /\ Len(line) < LineMax THEN Append(line, ch)
  ELSE line
EditSteps(s) == LET line[n \in 0 .. Len(s)] == IF n = 0 THEN <<>> ELSE Edit(line[n - 1], s[n]) IN line
Edited(s) == EditSteps(s)[Len(s)]

\* The line under construction is the edited sequence of the characters read, in
\* an array that keeps the remains of longer lines.
LineIsEdited == Line = Edited(taken)

\* Shell and read() edit the line they were typed, and read() returns the first
\* count characters of the line typed since the previous newline: nothing that an
\* earlier call, perhaps of another task, left in the static line buffer shows
\* up, and nothing is left for the next call.
LineHandedOver ==
  [][/\ LineIsEdited
     /\ pc # "idle" /\ pc' = "idle" =>
          /\ returned' = SubSeq(Edited(taken), 1, Least(Len(Edited(taken)), count))
          /\ line_pos' = 0]_vars

\* Every character that got into the ring is read.
KeysDelivered == \A n \in 1 .. MaxKeys : accepted >= n ~> delivered >= n

\* A read() returns if a newline is waiting, typed before the call.
ReadReturns ==
  (pc # "idle" /\ \E k \in DOMAIN Waiting : Waiting[k] = "nl") ~> pc = "idle"
=============================================================================
