----------------------------- MODULE MCKeyboard -----------------------------
(***************************************************************************)
(* The keyboard with either of its readers: the kernel shell (Keyboard     *)
(* with Shell = TRUE), or programs that call read() (R).                   *)
(***************************************************************************)
EXTENDS Keyboard

VARIABLE reader   \* which of the two

R == INSTANCE Keyboard WITH Shell <- FALSE

MCInit ==
  \/ reader = "shell" /\ Init
  \/ reader = "read" /\ R!Init

MCNext ==
  /\ UNCHANGED reader
  /\ \/ reader = "shell" /\ Next
     \/ reader = "read" /\ R!Next

MCSpec ==
  /\ MCInit /\ [][MCNext]_<<vars, reader>>
  /\ WF_vars(reader = "shell" /\ Reader)
  /\ WF_vars(reader = "read" /\ R!Reader)

-----------------------------------------------------------------------------
\* Every character that keyboard_handler got into the ring is read by the shell.
ShellKeysDelivered == reader = "shell" => KeysDelivered

\* A read() returns if a newline is waiting, typed before the call.
ReadCallReturns == reader = "read" => R!ReadReturns
=============================================================================
