------------------------------ MODULE Console ------------------------------
(***************************************************************************)
(* The framebuffer console (fbtext.c), with programs that write to it and  *)
(* a line that is edited on it, as launch_shell and SYS_READ do.           *)
(*                                                                         *)
(* Columns are pixels, because a line of text need not fill the screen     *)
(* exactly; rows are lines of text, since every vertical move is by one    *)
(* line_height.  A pixel column of a line holds the character drawn there, *)
(* Blank, or Mixed where one was drawn over another.  No pixel is ever     *)
(* read, so one of them, chosen at the start, stands for all.              *)
(***************************************************************************)
EXTENDS Integers, Sequences

CONSTANTS Widths,        \* framebuffer widths to consider
          W,             \* font->width
          LEFT_MARGIN,
          Rows,          \* lines of text that fit
          Texts, Keys    \* characters programs print, and characters typed: positive numbers

VARIABLES width,         \* g_fb->width
          spot,          \* [x, y]: the pixel column that is looked at
          con,           \* [x, y, overwrite, pixel]: the console's state
          mode,          \* "out": programs write; "edit": a line is being typed
          line,          \* the line as its editor has it
          base, start,   \* the pixel, and the cursor, when the editing began (history)
          full,          \* a character was not drawn since the last fb_clear (history)
          lost           \* a backspace gave up overwriting while the pixel had text (history)

vars == <<width, spot, con, mode, line, base, start, full, lost>>

Chars == Texts \cup Keys
Blank == 0
Mixed == -1
NL == -2
CR == -3
BS == -4

Row == 0 .. Rows - 1

-----------------------------------------------------------------------------
fb_newline(c) == [c EXCEPT !.x = LEFT_MARGIN, !.y = @ + 1]

fb_advance(c) ==
  LET d == [c EXCEPT !.x = @ + W] IN IF d.x + W > width THEN fb_newline(d) ELSE d

\* The pixel is in the cell at the cursor.
InCell(c) == spot.y = c.y /\ c.x <= spot.x /\ spot.x < c.x + W

fb_clear_area(c) == IF InCell(c) THEN [c EXCEPT !.pixel = Blank] ELSE c

\* A glyph sets pixels and clears none.
Glyph(c, ch) == IF InCell(c) THEN [c EXCEPT !.pixel = IF @ = Blank THEN ch ELSE Mixed] ELSE c

\* Mutant: the cursor goes back and the character stays.
BackspaceKeeps(c) == IF c.x > LEFT_MARGIN THEN [c EXCEPT !.x = @ - W] ELSE c
Backspace(c) ==
  IF c.x > LEFT_MARGIN THEN fb_clear_area([c EXCEPT !.x = @ - W, !.overwrite = FALSE])
  ELSE IF c.y > 0 THEN fb_clear_area([c EXCEPT !.x = width - W, !.y = @ - 1])
  ELSE c

\* Where a character goes.
Wrapped(c) == IF c.x + W > width THEN [fb_newline(c) EXCEPT !.overwrite = FALSE] ELSE c

Fits(c) == Wrapped(c).y \in Row

\* Mutant: carriage return does not ask for the old text to be cleared.
CarriageReturnOnly(c) == [c EXCEPT !.x = LEFT_MARGIN]
CarriageReturn(c) == [c EXCEPT !.x = LEFT_MARGIN, !.overwrite = TRUE]

\* Below the last line nothing is drawn and the cursor stays.
fb_put_char(c, ch) ==
  IF ch = NL THEN [fb_newline(c) EXCEPT !.overwrite = FALSE]
  ELSE IF ch = CR THEN CarriageReturn(c)
  ELSE IF ch = BS THEN Backspace(c)
  ELSE LET d == Wrapped(c) IN
       IF ~Fits(c) THEN d
       ELSE fb_advance(Glyph(IF d.overwrite THEN fb_clear_area(d) ELSE d, ch))

fb_clear(c) == [c EXCEPT !.x = LEFT_MARGIN, !.y = 0, !.pixel = Blank]

\* The pixel is at or behind the cursor, where characters are to come.
Ahead(c) == spot.y > c.y \/ (spot.y = c.y /\ spot.x >= c.x)

Put(ch) ==
  /\ con' = fb_put_char(con, ch)
  /\ full' = (full \/ (ch \in Chars /\ ~Fits(con)))
  /\ lost' = (lost \/ (ch = BS /\ con.overwrite /\ Ahead(con) /\ con.pixel # Blank))
-----------------------------------------------------------------------------
Init ==
  /\ width \in Widths
  /\ spot \in [x : 0 .. width - 1, y : Row]
  /\ con = [x |-> LEFT_MARGIN, y |-> 0, overwrite |-> FALSE, pixel |-> Blank]
  /\ mode = "out" /\ line = <<>>
  /\ base = Blank /\ start = [x |-> 0, y |-> 0]
  /\ full = FALSE /\ lost = FALSE

\* fb_print and SYS_WRITE, a character at a time; a line below the last is enough.
Output(ch) ==
  /\ mode = "out"
  /\ ch = NL => con.y < Rows
  /\ Put(ch)
  /\ UNCHANGED <<width, spot, mode, line, base, start>>

\* The shell waits for keys after its prompt, or a program calls read(), wherever
\* the last character put has left the cursor.
StartEdit ==
  /\ mode = "out"
  /\ mode' = "edit" /\ line' = <<>>
  /\ base' = con.pixel /\ start' = [x |-> con.x, y |-> con.y]
  /\ UNCHANGED <<width, spot, con, full, lost>>

\* The line buffer has room for one character more than a screen.
TypeChar(ch) ==
  /\ mode = "edit"
  /\ Len(line) <= Rows * ((width - LEFT_MARGIN) \div W)
  /\ line' = Append(line, ch)
  /\ Put(ch)
  /\ UNCHANGED <<width, spot, mode, base, start>>

\* cmd_pos > 0.  Mutant: backspace at the start of the line.
AlwaysErase == TRUE
CanErase == line # <<>>
TypeBackspace ==
  /\ mode = "edit" /\ CanErase
  /\ line' = SubSeq(line, 1, Len(line) - 1)
  /\ Put(BS)
  /\ UNCHANGED <<width, spot, mode, base, start>>

\* Enter; what the command prints is Output.
TypeEnter ==
  /\ mode = "edit" /\ con.y < Rows
  /\ mode' = "out" /\ line' = <<>>
  /\ Put(NL)
  /\ base' = Blank /\ start' = [x |-> 0, y |-> 0]
  /\ UNCHANGED <<width, spot>>

\* The command "clear".
Clear ==
  /\ mode = "out"
  /\ con' = fb_clear(con)
  /\ full' = FALSE /\ lost' = FALSE
  /\ UNCHANGED <<width, spot, mode, line, base, start>>

Next ==
  \/ \E ch \in Texts \cup {NL, CR, BS} : Output(ch)
  \/ \E ch \in Keys : TypeChar(ch)
  \/ StartEdit \/ TypeBackspace \/ TypeEnter \/ Clear

Spec == Init /\ [][Next]_vars
-----------------------------------------------------------------------------
\* The cursor leaves the framebuffer on no side but the bottom.
TypeOK ==
  /\ mode \in {"out", "edit"}
  /\ con.x \in 0 .. width - W /\ con.y \in 0 .. Rows + 1
  /\ con.pixel \in Chars \cup {Blank, Mixed}

\* No character is drawn over another, whatever mixture of text, newlines,
\* carriage returns, backspaces and edited lines came before: what is replaced is
\* cleared first.  The exception is lost: fb_put_char takes a backspace behind a
\* carriage return as the end of the overwriting, with the old text still there.
NeverMixed == lost \/ con.pixel # Mixed

\* A line of whole cells.
Cols == (width - LEFT_MARGIN) \div W
Even == (width - LEFT_MARGIN) % W = 0
\* The number of cells before a pixel column.
CellAt(p) == p.y * Cols + (p.x - LEFT_MARGIN) \div W

\* If the cells fill a line exactly and the screen has room, the screen shows
\* the edited line from where the cursor stood, over as many lines as it takes.
\* What is in front of it has not changed, and behind it is what was there, or
\* nothing: no backspace eats into the prompt or leaves a character of the line.
EchoShowsLine ==
  mode = "edit" /\ Even /\ ~full /\ ~lost =>
    LET k == CellAt(spot) - CellAt(start) IN
    IF spot.x < LEFT_MARGIN \/ k < 0 THEN con.pixel = base
    ELSE IF k < Len(line) THEN con.pixel = line[k + 1]
    ELSE con.pixel \in {base, Blank}

\* On any width, what stands before the prompt on its own line, and on the
\* lines above it, is not touched by the editing while the screen has room.
PromptKept == mode = "edit" /\ ~full /\ ~Ahead(start) => con.pixel = base
=============================================================================
