---------------------------- MODULE TimeKeeping -----------------------------
(***************************************************************************)
(* How the kernel learns the frequency of the time stamp counter and tells *)
(* the time with it: tsc_calibrate, hpet_init, time_init and               *)
(* time_get_timestamp.  Time passes between any two reads of a counter, at *)
(* most Delay units of it.  A unit is one tick of the HPET, whose counter  *)
(* has the width the hardware gave it, while the kernel subtracts 64-bit   *)
(* values; the TSC makes Ratio ticks per unit.                             *)
(***************************************************************************)
EXTENDS Integers

CONSTANTS Hz,          \* the HPET's frequency, units per second
          Ratio,       \* TSC ticks per unit
          Word,        \* the number of 64-bit values
          Spans,       \* numbers of values the HPET's counter may have
          Nominal,     \* base frequencies leaf 0x16 may give
          Offsets,     \* how far its first value may be from wrapping
          Delay,       \* bound: units between two steps
          Seconds      \* bound: seconds after boot

VARIABLES machine,     \* [cpuid, hpet, span, first]: what CPUID and ACPI offer
          now,         \* units since the machine was switched on
          pc, hpet_start, tsc_start, tsc_end, hpet_end,
          tsc_frequency_hz,
          boot_tsc, booted,   \* time_init's reading, and when it was taken
          asked               \* seconds since boot, as last reported

vars == <<machine, now, pc, hpet_start, tsc_start, tsc_end, hpet_end, tsc_frequency_hz,
          boot_tsc, booted, asked>>

TrueHz == Ratio * Hz

\* cpuid: the highest leaf and what leaves 0x15 (ecx * ebx / eax, 0 if one is
\* missing) and 0x16 give for the frequency, the latter in whole megahertz and of
\* the core, not of the TSC; hpet: ACPI has the table and the period is not 0;
\* first: the counter at time 0.
Machines ==
  [cpuid : [max : {20, 21, 22}, l15 : {0, TrueHz}, l16 : {0} \cup Nominal], hpet : BOOLEAN,
   span : Spans, first : {n - o : n \in Spans, o \in Offsets}]

rdtsc(t) == (Ratio * t) % Word
hpet_read(t) == (machine.first + t) % machine.span
Sub(a, b) == (a - b) % Word

\* Mutant: the bounds on the leaves are strict.
CpuidStrict(c) ==
  IF c.max > 21 /\ c.l15 # 0 THEN c.l15 ELSE IF c.max > 22 THEN c.l16 ELSE 0
tsc_calibrate_cpuid(c) ==
  IF c.max >= 21 /\ c.l15 # 0 THEN c.l15 ELSE IF c.max >= 22 THEN c.l16 ELSE 0

ticks_to_wait == Hz \div 10

Init ==
  /\ machine \in {m \in Machines : m.span - m.first \in Offsets}
  /\ now = 0 /\ pc = "cpuid"
  /\ hpet_start = 0 /\ tsc_start = 0 /\ tsc_end = 0 /\ hpet_end = 0
  /\ tsc_frequency_hz = 0
  /\ boot_tsc = 0 /\ booted = 0 /\ asked = 0

\* A step from one place to another, during which d units pass.
Step(from, to, d) == pc = from /\ pc' = to /\ now' = now + d /\ UNCHANGED machine

-----------------------------------------------------------------------------
Cpuid ==
  /\ LET f == tsc_calibrate_cpuid(machine.cpuid) IN
     /\ tsc_frequency_hz' = f
     /\ Step("cpuid", IF f # 0 THEN "time_init" ELSE "hpet_init", 0)
  /\ UNCHANGED <<hpet_start, tsc_start, tsc_end, hpet_end, boot_tsc, booted, asked>>

hpet_init ==
  /\ Step("hpet_init", IF machine.hpet THEN "hpet_start" ELSE "time_init", 0)
  /\ UNCHANGED <<hpet_start, tsc_start, tsc_end, hpet_end, tsc_frequency_hz, boot_tsc, booted, asked>>

ReadHpetStart(d) ==
  /\ Step("hpet_start", "tsc_start", d)
  /\ hpet_start' = hpet_read(now')
  /\ UNCHANGED <<tsc_start, tsc_end, hpet_end, tsc_frequency_hz, boot_tsc, booted, asked>>

ReadTscStart(d) ==
  /\ Step("tsc_start", "poll", d)
  /\ tsc_start' = rdtsc(now')
  /\ UNCHANGED <<hpet_start, tsc_end, hpet_end, tsc_frequency_hz, boot_tsc, booted, asked>>

\* Mutant: the counter is compared, not the difference.
WaitingNaive == hpet_read(now') < hpet_start + ticks_to_wait
Waiting == Sub(hpet_read(now'), hpet_start) < ticks_to_wait

Poll(d) ==
  /\ pc = "poll" /\ d > 0 /\ now' = now + d
  /\ pc' = IF Waiting THEN "poll" ELSE "tsc_end"
  /\ UNCHANGED <<machine, hpet_start, tsc_start, tsc_end, hpet_end, tsc_frequency_hz, boot_tsc,
                 booted, asked>>

ReadTscEnd(d) ==
  /\ Step("tsc_end", "hpet_end", d)
  /\ tsc_end' = rdtsc(now')
  /\ UNCHANGED <<hpet_start, tsc_start, hpet_end, tsc_frequency_hz, boot_tsc, booted, asked>>

\* Mutants: the wait is taken to be exact; the division comes first.
FrequencyExact(ticks, units) == (ticks * Hz) \div ticks_to_wait
FrequencyCoarse(ticks, units) == (ticks \div units) * Hz
Frequency(ticks, units) == (ticks * Hz) \div units

ReadHpetEnd(d) ==
  /\ Step("hpet_end", "time_init", d)
  /\ hpet_end' = hpet_read(now')
  /\ tsc_frequency_hz' = Frequency(Sub(tsc_end, tsc_start), Sub(hpet_end', hpet_start))
  /\ UNCHANGED <<hpet_start, tsc_start, tsc_end, boot_tsc, booted, asked>>

time_init(d) ==
  /\ Step("time_init", "up", d)
  /\ boot_tsc' = rdtsc(now') /\ booted' = now'
  /\ UNCHANGED <<hpet_start, tsc_start, tsc_end, hpet_end, tsc_frequency_hz, asked>>

\* Mutant: only low bits of the difference are kept.
TicksLow == Sub(rdtsc(now'), boot_tsc) % (Word \div 8)
Ticks == Sub(rdtsc(now'), boot_tsc)

\* Somebody asks for the time; with an unknown frequency the division traps.
time_get_timestamp(d) ==
  /\ now + d <= booted + Seconds * Hz
  /\ Step("up", IF tsc_frequency_hz = 0 THEN "panic" ELSE "up", d)
  /\ asked' = IF tsc_frequency_hz = 0 THEN asked
              ELSE Ticks \div tsc_frequency_hz
  /\ UNCHANGED <<hpet_start, tsc_start, tsc_end, hpet_end, tsc_frequency_hz, boot_tsc, booted>>

Next ==
  \/ Cpuid \/ hpet_init
  \/ \E d \in 0 .. Delay :
       \/ ReadHpetStart(d) \/ ReadTscStart(d) \/ Poll(d) \/ ReadTscEnd(d) \/ ReadHpetEnd(d)
       \/ time_init(d) \/ time_get_timestamp(d)

Spec == Init /\ [][Next]_vars

-----------------------------------------------------------------------------
\* No subtraction of counters leaves the width of its registers, and the
\* frequency is a number.
TypeOK ==
  /\ machine \in Machines /\ now \in Nat
  /\ pc \in {"cpuid", "hpet_init", "hpet_start", "tsc_start", "poll", "tsc_end", "hpet_end",
             "time_init", "up", "panic"}
  /\ {hpet_start, hpet_end} \subseteq 0 .. machine.span - 1
  /\ {tsc_start, tsc_end, boot_tsc} \subseteq 0 .. Word - 1
  /\ tsc_frequency_hz \in Nat /\ booted \in Nat /\ asked \in Nat

Calibrated == pc \in {"time_init", "up", "panic"}
CpuidTells == LET c == machine.cpuid IN (c.max >= 21 /\ c.l15 # 0) \/ (c.max >= 22 /\ c.l16 # 0)
ByNominal == LET c == machine.cpuid IN ~(c.max >= 21 /\ c.l15 # 0) /\ c.max >= 22 /\ c.l16 # 0
Measured == Calibrated /\ machine.hpet /\ ~CpuidTells
Wrapped == machine.span < Word /\ hpet_end < hpet_start

\* A frequency that is not just the nominal one is never overestimated, however
\* long the gaps between the four readings are and whether or not the HPET's
\* counter wraps: the TSC is read inside the interval the HPET measures.
NeverFast == ByNominal \/ tsc_frequency_hz <= TrueHz

\* Unless the HPET's counter wraps, the measurement is as good as the gaps
\* around it allow: it lacks at most the two gaps between the counters' reads.
Accurate ==
  Measured /\ ~Wrapped =>
    LET e == Sub(hpet_end, hpet_start) IN tsc_frequency_hz >= (Ratio * (e - 2 * Delay) * Hz) \div e

\* The frequency stays unknown, and asking for the time traps, only without
\* a usable CPUID leaf, and there is no HPET or its counter wrapped meanwhile.
ZeroOnlyWithoutSource ==
  Calibrated /\ tsc_frequency_hz = 0 =>
    ~CpuidTells /\ (~machine.hpet \/ Wrapped)

\* The clock runs behind only if the frequency was overestimated, and then in
\* that proportion: at every moment the seconds it reports since boot are at
\* least those that passed, or that part of them.
ClockNotBehind ==
  pc = "up" =>
    IF tsc_frequency_hz <= TrueHz THEN asked >= (now - booted) \div Hz
    ELSE ByNominal /\ asked >= (Ratio * (now - booted)) \div tsc_frequency_hz

\* The calibration loop never waits longer than the tenth of a second it asks
\* for, wherever the HPET's counter is and however narrow it is.
WaitBounded == pc = "poll" => Sub(rdtsc(now), tsc_start) <= Ratio * ticks_to_wait
=============================================================================
