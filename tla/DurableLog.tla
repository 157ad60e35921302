----------------------------- MODULE DurableLog -----------------------------
(***************************************************************************)
(* What the broker relies on when it uses a WAL (pkg/wal). The log is a    *)
(* sequence of values; what a program that opens the files finds may be    *)
(* one value more, left by an append that failed half-way; and a power     *)
(* loss may take the files back to anything they held since the last sync. *)
(***************************************************************************)
EXTENDS Sequences, Naturals

CONSTANTS Values, None

VARIABLES
  log,       \* the values, offset o at index o + 1
  file,      \* the log that would be found if the files were opened
  disk,      \* the logs that might be found after a power loss
  value      \* the argument of the append under way, or None

vars == <<log, file, disk, value>>

Init == log = <<>> /\ file = <<>> /\ disk = {<<>>} /\ value = None

\* An append that has to begin a new segment syncs the old one.
Begin(v) ==
  /\ value = None
  /\ value' = v
  /\ disk' \in {disk, {file}}
  /\ UNCHANGED <<log, file>>

Write ==
  /\ value # None
  /\ log' = Append(log, value)
  /\ file' = log' /\ disk' = disk \cup {log'}
  /\ value' = None

\* The next append will write over what this one left.
WriteFails ==
  /\ value # None
  /\ file' \in {file, Append(log, value)}
  /\ disk' = disk \cup {file'}
  /\ value' = None
  /\ UNCHANGED log

Sync ==
  /\ disk' = {file}
  /\ UNCHANGED <<log, file, value>>

\* The process ended, and what it had written is still there.
Reopen ==
  /\ log' = file
  /\ value' = None
  /\ UNCHANGED <<file, disk>>

PowerLoss ==
  /\ log' \in disk
  /\ file' = log' /\ disk' = {log'}
  /\ value' = None

Next ==
  \/ \E v \in Values : Begin(v)
  \/ Write \/ WriteFails \/ Sync \/ Reopen \/ PowerLoss

Spec == Init /\ [][Next]_vars
=============================================================================
