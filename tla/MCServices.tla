----------------------------- MODULE MCServices -----------------------------
(***************************************************************************)
(* Services of the kernel that work on data of their own: the framebuffer  *)
(* console (Console), the clock (TimeKeeping), dates (Calendar), the       *)
(* initrd (Cpio) and numbers as text (Format).  A behaviour uses one of    *)
(* them while the others rest.                                             *)
(***************************************************************************)
EXTENDS Integers, Sequences

VARIABLES part,   \* the service
          width, spot, con, mode, line, base, start, full, lost,  \* Console
          machine, now, pc, hpet_start, tsc_start, tsc_end, hpet_end,
          tsc_frequency_hz, boot_tsc, booted, asked,    \* TimeKeeping
          day, k, digits,                               \* Calendar
          archive, path, ptr, result,                   \* Cpio
          value, radix, fmt, pos, args, want            \* Format

conVars == <<width, spot, con, mode, line, base, start, full, lost>>
tkVars == <<machine, now, pc, hpet_start, tsc_start, tsc_end, hpet_end, tsc_frequency_hz,
            boot_tsc, booted, asked>>
calVars == <<day, k, digits>>
cpioVars == <<archive, path, ptr, result>>
fmtVars == <<value, radix, fmt, pos, args, want>>

-----------------------------------------------------------------------------
\* Two lines of text; three characters fit in a line exactly, or two with a
\* pixel to spare.
Con == INSTANCE Console WITH
  Widths <- {8, 9}, W <- 2, LEFT_MARGIN <- 3, Rows <- 2, Texts <- {1}, Keys <- {2}

\* An HPET of 16 or 512 values; a TSC of 120 Hz, and a nominal frequency below
\* or above that.
Tk == INSTANCE TimeKeeping WITH
  Hz <- 40, Ratio <- 3, Word <- 512, Delay <- 2, Seconds <- 1,
  Spans <- {16, 512}, Nominal <- {110, 130}, Offsets <- {3, 7, 14}

\* The first and the last second of every day and one between, until 2100.
Cal == INSTANCE Calendar WITH
  FirstDays <- {20 * n : n \in 0 .. 2390}, LastDay <- 47847, Moments <- <<0, 45296, 86399>>

\* Archives of up to three files with names of all lengths modulo four and
\* sizes around a multiple of four and around the wrap, two digits wide.
File == [name : {"a", "b"}, namesize : 2 .. 5, filesize : {0, 1, 3, 4, 250, 252, 254}]
Small == {e \in File : e.namesize <= 3 /\ e.filesize \in {0, 3, 252}}
Archives == {<<>>} \cup {<<f>> : f \in File} \cup {<<f, g>> : f, g \in File}
              \cup {<<f, g, h>> : f, g, h \in Small}
Arc == INSTANCE Cpio WITH Paths <- {"a", "c"}, Digits <- 2, Header <- 110

\* All numbers of eight bits in all bases, all formats of up to four characters,
\* and the correct ones of up to four pieces.
Formats == UNION {[1 .. n -> {"%", "d", "l", "c"}] : n \in 0 .. 4}
Fmt == INSTANCE Format WITH Bits <- 8, MaxPieces <- 4, base <- radix

-----------------------------------------------------------------------------
(* An empty screen, a machine that offers no clock, the first day, an      *)
(* empty archive searched, and a zero.                                     *)

ConRests ==
  /\ width = 9 /\ spot = [x |-> 0, y |-> 0] /\ mode = "out" /\ line = <<>>
  /\ con = [x |-> 3, y |-> 0, overwrite |-> FALSE, pixel |-> 0]
  /\ base = 0 /\ start = [x |-> 0, y |-> 0] /\ full = FALSE /\ lost = FALSE
TkRests ==
  /\ machine = [cpuid |-> [max |-> 20, l15 |-> 0, l16 |-> 0], hpet |-> FALSE, span |-> 16, first |-> 2]
  /\ now = 0 /\ pc = "time_init"
  /\ hpet_start = 0 /\ tsc_start = 0 /\ tsc_end = 0 /\ hpet_end = 0
  /\ tsc_frequency_hz = 0 /\ boot_tsc = 0 /\ booted = 0 /\ asked = 0
CalRests == day = 0 /\ k = 1 /\ digits = Cal!time_get_current(0, 0)
CpioRests ==
  /\ archive = <<>> /\ path = "a" /\ ptr = 0
  /\ result = [kind |-> "none", data |-> 0, size |-> 0]
FmtRests == value = 0 /\ radix = 10 /\ fmt = <<>> /\ pos = 1 /\ args = 0 /\ want = 0

MCInit ==
  \/ part = "console" /\ Con!Init /\ TkRests /\ CalRests /\ CpioRests /\ FmtRests
  \/ part = "clock" /\ ConRests /\ Tk!Init /\ CalRests /\ CpioRests /\ FmtRests
  \/ part = "calendar" /\ ConRests /\ TkRests /\ Cal!Init /\ CpioRests /\ FmtRests
  \/ part = "cpio" /\ ConRests /\ TkRests /\ CalRests /\ Arc!Init /\ FmtRests
  \/ part = "format" /\ ConRests /\ TkRests /\ CalRests /\ CpioRests /\ Fmt!Init

MCNext ==
  /\ UNCHANGED part
  /\ \/ part = "console" /\ Con!Next /\ UNCHANGED <<tkVars, calVars, cpioVars, fmtVars>>
     \/ part = "clock" /\ Tk!Next /\ UNCHANGED <<conVars, calVars, cpioVars, fmtVars>>
     \/ part = "calendar" /\ Cal!Next /\ UNCHANGED <<conVars, tkVars, cpioVars, fmtVars>>
     \/ part = "cpio" /\ Arc!Lookup /\ UNCHANGED <<conVars, tkVars, calVars, fmtVars>>
     \/ part = "format" /\ Fmt!Turn /\ UNCHANGED <<conVars, tkVars, calVars, cpioVars>>

MCSpec == MCInit /\ [][MCNext]_<<conVars, tkVars, calVars, cpioVars, fmtVars, part>>

-----------------------------------------------------------------------------
\* Whatever mixture of text, newlines, carriage returns, backspaces and edited
\* lines came before, fb_put_char draws no character over another, editing does
\* not touch what stands before its start, and where lines consist of whole cells
\* the screen shows the edited line.  Only a backspace that ended the overwriting
\* of a carriage return in front of old text, and a full screen, are excepted.
ScreenShowsLine ==
  Con!TypeOK /\ Con!NeverMixed /\ Con!PromptKept /\ Con!EchoShowsLine

\* The clock keeps pace: unless it takes the nominal frequency of CPUID leaf 0x16,
\* tsc_calibrate never overestimates, so that the seconds time_get_timestamp gives
\* are at least those that passed; it waits no longer than it should, and unless
\* the HPET's counter wraps meanwhile the result is as good as the gaps between the
\* four readings allow.  It is 0 only with no CPUID leaf, and no HPET or a wrap.
ClockRight ==
  /\ Tk!TypeOK /\ Tk!NeverFast /\ Tk!Accurate /\ Tk!ZeroOnlyWithoutSource
  /\ Tk!ClockNotBehind /\ Tk!WaitBounded

\* time_get_current writes digits, and they are the date and the time asked for:
\* over 29 February, the ends of months and years and the year 2100.
DateRight == Cal!TypeOK /\ Cal!RightDate /\ Cal!RightTime

\* cpio_lookup stays on the headers and returns data and size of the first file
\* with the name, or that there is none: whatever the lengths of the names and
\* the files in between, up to four bytes less than 4 GiB.
LookupRight == Arc!TypeOK /\ Arc!LookupRight

=============================================================================
