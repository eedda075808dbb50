----------------------------- MODULE DiskGuard -----------------------------
(***************************************************************************)
(* The disk-space guard of internal/diskspace/guard.go.  A probe sees the  *)
(* available space of the spool's filesystem, or fails.                    *)
(***************************************************************************)
EXTENDS Integers

CONSTANTS
  DiskLevels,     \* the amounts of available space that a probe may see
  PauseBelow,     \* disk_space.pause_below_bytes, 0 when disabled
  ResumeAt        \* disk_space.resume_at_bytes

\* config.go: resume_at_bytes exceeds pause_below_bytes when enabled.
ASSUME DiskAssumption == /\ DiskLevels \subseteq Nat
                         /\ PauseBelow \in Nat /\ ResumeAt \in Nat
                         /\ PauseBelow > 0 => ResumeAt > PauseBelow

ProbeError == -1
ProbeResults == DiskLevels \cup {ProbeError}

\* status.Paused after a probe that saw "available", given status.Paused
\* before it.
PausedAfter(paused, available) ==
  /\ PauseBelow > 0
  /\ \/ available = ProbeError
     \/ available < PauseBelow
     \/ paused /\ available < ResumeAt
=============================================================================
