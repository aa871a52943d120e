-------------------------------- MODULE Cpio --------------------------------
(***************************************************************************)
(* cpio_lookup: the walk over the initrd, an archive in the "newc" format. *)
(* The writer of the archive (the cpio command of the build) is external:  *)
(* it lays out header, name and data of each file one after the other and  *)
(* pads the position to a multiple of four after the name and after the    *)
(* data.  Byte positions and the 32-bit arithmetic of the walk are kept,   *)
(* with fields of Digits hexadecimal digits for 8; names are model values. *)
(***************************************************************************)
EXTENDS Naturals, Sequences, Functions

CONSTANTS Archives,   \* sequences of [name, namesize, filesize]; the trailer is not among them
          Paths,      \* what callers look for
          Digits,     \* digits of a field
          Header      \* sizeof(cpio_header)

TRAILER == "TRAILER!!!"
Top == 16 ^ Digits     \* 2^32: uint32_t wraps here

VARIABLES archive, path,
          ptr,      \* position of the entry that is looked at
          result    \* [kind, data, size]: still looking, found, no such file, or bad magic

vars == <<archive, path, ptr, result>>
-----------------------------------------------------------------------------
(* The archive as its writer lays it out.                                  *)

Pad(p) == p + ((4 - (p % 4)) % 4)

Entries == Append(archive, [name |-> TRAILER, namesize |-> 11, filesize |-> 0])
DataAt(p, e) == Pad(p + Header + e.namesize)
Position == [i \in 1 .. Len(Entries) |->
  LET at[k \in 1 .. i] == IF k = 1 THEN 0
                          ELSE LET e == Entries[k - 1] IN Pad(DataAt(at[k - 1], e) + e.filesize)
  IN  at[i]]

\* A field as it is printed: the digits of n, most significant first.
Field(n) == [i \in 1 .. Digits |-> (n \div 16 ^ (Digits - i)) % 16]
-----------------------------------------------------------------------------
(* The walk.                                                               *)

cpio_parse_hex(field) ==
  LET value[i \in 0 .. Digits] == IF i = 0 THEN 0 ELSE (value[i - 1] * 16 + field[i]) % Top
  IN  value[Digits]

\* (n + 3) & ~3.  Mutant: rounded down.
RoundDown(n) == (n \div 4) * 4
Round(n) == ((n + 3) \div 4) * 4

Here == CHOOSE i \in 1 .. Len(Entries) : Position[i] = ptr
Magic == ptr \in Range(Position)

Advance(data, filesize) == data + (Round(filesize) % Top)

Result(kind, data, size) == result' = [kind |-> kind, data |-> data, size |-> size]

Lookup ==
  /\ result.kind = "looking"
  /\ IF ~Magic THEN Result("bad magic", 0, 0) /\ UNCHANGED ptr
     ELSE LET e == Entries[Here]
              namesize == cpio_parse_hex(Field(e.namesize))
              filesize == cpio_parse_hex(Field(e.filesize))
              data == ptr + Round(Header + namesize)
          IN  IF e.name = TRAILER THEN Result("none", 0, 0) /\ UNCHANGED ptr
              ELSE IF e.name = path THEN Result("found", data, filesize) /\ UNCHANGED ptr
              ELSE ptr' = Advance(data, filesize) /\ UNCHANGED result
  /\ UNCHANGED <<archive, path>>

Init ==
  /\ archive \in Archives /\ path \in Paths
  /\ ptr = 0 /\ result = [kind |-> "looking", data |-> 0, size |-> 0]

Spec == Init /\ [][Lookup]_vars
-----------------------------------------------------------------------------
\* The walk of cpio_lookup stays aligned to four bytes.
TypeOK ==
  /\ result.kind \in {"looking", "found", "none", "bad magic"}
  /\ ptr \in Nat /\ ptr % 4 = 0 /\ result.data \in Nat /\ result.size \in 0 .. Top - 1

\* The files with the name that is looked for.
Named == {i \in 1 .. Len(archive) : archive[i].name = path}
\* The largest size whose rounding does not wrap.
Regular == \A i \in 1 .. Len(archive) : archive[i].filesize <= Top - 4

\* The walk stays on the headers, and returns data and size of the first file
\* with the name, or that there is none: whatever the lengths of the names and
\* the files in between, up to four bytes less than 4 GiB.
LookupRight ==
  Regular =>
    /\ result.kind = "looking" => Magic /\ \A i \in Named : ptr <= Position[i]
    /\ result.kind = "none" => Named = {}
    /\ result.kind = "found" => \E i \in Named :
         /\ \A j \in Named : i <= j
         /\ result.data = DataAt(Position[i], archive[i]) /\ result.size = archive[i].filesize
    /\ result.kind # "bad magic"
=============================================================================
