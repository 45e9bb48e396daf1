------------------------------- MODULE LogWriter -------------------------------
(***************************************************************************)
(* The daemon's log: lineSanitizingWriter (logging.go) in front of a       *)
(* rotatingFileWriter (logfile.go). Lines are numbered in the order they   *)
(* come; each is written whole while both of the writers' locks are held,  *)
(* so writing one is a single step, unless its redaction never ends        *)
(* (LogRedaction) and nobody else gets the lock any more.                  *)
(*                                                                         *)
(* A file is the set of its lines. A rotated one is named after the second *)
(* of its rotation: a rotation in the same second as the one before        *)
(* replaces that file. Files are told apart by their modification times,   *)
(* which are in the order of their lines.                                  *)
(***************************************************************************)
EXTENDS Naturals, FiniteSets

CONSTANTS
  MaxLines, \* lines that fit into the file before it is rotated
  Keep,     \* log_keep: rotated files that are kept
  MaxFaults \* bound: lines for which an operation on log files fails

ASSUME LogAssumption == MaxLines \in Nat \ {0} /\ Keep \in Nat \ {0} /\ MaxFaults \in Nat

VARIABLES
  logToFile, \* log_file or log_dir is configured; the daemon logs to stderr else
  redacts,   \* log_redact
  looping,   \* a goroutine is in the redaction of a line for good, and holds the lock
  opened,    \* w.f is an open file
  file,      \* the lines in the log file
  rotated,   \* the rotated files
  written,   \* history: lines written so far, to whatever place
  lost,      \* history: lines that reached no file
  sameName,  \* history: rotations that replaced a rotated file
  faults     \* history: lines for which an operation failed

logVars == <<logToFile, redacts, looping, opened, file, rotated, written, lost, sameName, faults>>

\* The log is new, or earlier runs of the daemon have rotated it Keep times.
\* The file is opened at start or, when that fails, with a later line.
LogInit ==
  /\ logToFile \in BOOLEAN /\ redacts \in BOOLEAN
  /\ opened \in {logToFile, FALSE}
  /\ \/ written = 0 /\ file = {} /\ rotated = {}
     \/ logToFile /\ written = Keep + 1 /\ file = {written} /\ rotated = {{i} : i \in 1..Keep}
  /\ lost = {} /\ sameName = 0 /\ faults = 0 /\ looping = FALSE

-----------------------------------------------------------------------------
\* Nothing fails, or something does while the bound allows.
Works(ok) == (ok \/ faults < MaxFaults) /\ faults' = IF ok THEN faults ELSE faults + 1

Line == written + 1
Lose == lost' = lost \cup {Line}

Older(f, g) == \A m \in f, n \in g : m < n

AtMost(limit, n) == IF n > limit THEN limit ELSE n

\* cleanupOldLocked removes all but the newest. It skips a file it cannot look at and
\* ignores one it cannot remove: any of the others may stay.
\* Faults: one too many stays; the oldest are kept.
CleanupOneLess(files, ok) ==
  \E newest, stays \in SUBSET files :
    /\ Cardinality(newest) = AtMost(Keep + 1, Cardinality(files))
    /\ \A f \in newest, g \in files \ newest : Older(g, f)
    /\ ok => stays = {}
    /\ rotated' = newest \cup stays
CleanupOldest(files, ok) ==
  \E oldest, stays \in SUBSET files :
    /\ Cardinality(oldest) = AtMost(Keep, Cardinality(files))
    /\ \A f \in oldest, g \in files \ oldest : Older(f, g)
    /\ ok => stays = {}
    /\ rotated' = oldest \cup stays

Cleanup(files, ok) ==
  \E newest, stays \in SUBSET files :
    /\ Cardinality(newest) = AtMost(Keep, Cardinality(files))
    /\ \A f \in newest, g \in files \ newest : Older(g, f)
    /\ ok => stays = {}
    /\ rotated' = newest \cup stays

\* os.Rename to path.YYYYMMDD-HHMMSS.
Replaces(same) == IF same THEN {f \in rotated : \A g \in rotated \ {f} : Older(g, f)} ELSE {}
RenameTo(same) == (rotated \ Replaces(same)) \cup {file}

\* What a rename leaves in the log file, which a failed one leaves as it is.
Renamed(same, ok) ==
  sameName' = IF ok /\ Replaces(same) # {} THEN sameName + 1 ELSE sameName

\* Fault: a file is rotated once it is over the limit, not before.
FullLater == Cardinality(file) > MaxLines

Full == Cardinality(file) + 1 > MaxLines

-----------------------------------------------------------------------------
(* rotatingFileWriter.Write, in the ways it can go.                          *)

\* No file is open and none can be opened, or the line is written without rotation.
WriteClosed ==
  /\ logToFile /\ ~opened
  /\ Works(FALSE) /\ Lose
  /\ UNCHANGED <<opened, file, rotated, sameName>>

WritePlain(ok) ==
  /\ logToFile /\ ~Full
  /\ opened' = TRUE
  /\ Works(ok)
  /\ IF ok THEN file' = file \cup {Line} /\ UNCHANGED lost ELSE UNCHANGED file /\ Lose
  /\ UNCHANGED <<rotated, sameName>>

\* Rotation and cleanup, then the line; any of them may fail. After a failed rename the
\* file is opened again and grows, and the cleanup comes all the same; after a failed look
\* at the size neither comes, which is a failed rename and a cleanup that removes nothing.
WriteRotating(same, fails) ==
  LET renamed == "rename" \notin fails
      writes  == "write" \notin fails
  IN  /\ logToFile /\ Full
      /\ opened' = TRUE
      /\ Renamed(same, renamed)
      /\ Cleanup(IF renamed THEN RenameTo(same) ELSE rotated, "cleanup" \notin fails)
      /\ file' = (IF renamed THEN {} ELSE file) \cup (IF writes THEN {Line} ELSE {})
      /\ IF writes THEN UNCHANGED lost ELSE Lose
      /\ Works(fails = {})

\* The rotation cannot open the new file and skips the cleanup; the line is written
\* to no file.
WriteStranded(same, renamed) ==
  /\ logToFile /\ Full
  /\ opened' = FALSE
  /\ Renamed(same, renamed)
  /\ rotated' = IF renamed THEN RenameTo(same) ELSE rotated
  /\ file' = IF renamed THEN {} ELSE file
  /\ Works(FALSE) /\ Lose

WriteStderr ==
  /\ ~logToFile
  /\ UNCHANGED <<opened, file, rotated, lost, sameName, faults>>

\* lineSanitizingWriter.Write of a line.
WriteLine ==
  /\ ~looping
  /\ written' = Line
  /\ UNCHANGED <<logToFile, redacts, looping>>
  /\ \/ WriteClosed
     \/ \E ok \in BOOLEAN : WritePlain(ok)
     \/ \E same \in BOOLEAN, fails \in SUBSET {"rename", "cleanup", "write"} :
          WriteRotating(same, fails)
     \/ \E same, renamed \in BOOLEAN : WriteStranded(same, renamed)
     \/ WriteStderr

\* Write of a line with a value that redactKeyValueHints replaces again and again.
LoopLine ==
  /\ redacts /\ ~looping
  /\ looping' = TRUE
  /\ UNCHANGED <<logToFile, redacts, opened, file, rotated, written, lost, sameName, faults>>

-----------------------------------------------------------------------------
\* Type invariant. A rotated file too many stands for a line with a failed operation.
LogTypeOK ==
  /\ logToFile \in BOOLEAN /\ redacts \in BOOLEAN /\ looping \in BOOLEAN /\ opened \in BOOLEAN
  /\ written \in Nat /\ sameName \in Nat /\ faults \in 0..MaxFaults
  /\ file \subseteq 1..written /\ lost \subseteq 1..written
  /\ rotated \subseteq (SUBSET (1..written)) \ {{}}
  /\ Cardinality(rotated) <= Keep + faults

Logged == file \cup UNION rotated

\* Every line that is in no file any more is older than the lines of at least log_keep
\* rotated files: whatever fails, and however often, the cleanup takes nothing from the
\* newest files, though files it could not remove may leave a gap behind them. Exceptions:
\* lines whose own write failed, and rotations in one second, where the second replaces
\* the file of the first.
NewerThan(m) == {f \in rotated : \A n \in f : m < n}
LogKeepsTail ==
  (logToFile /\ sameName = 0) =>
    \A m \in 1..written : m \in Logged \cup lost \/ Cardinality(NewerThan(m)) >= Keep

\* As long as nothing fails, the file stays within its limit, at most Keep rotated files
\* stay, and until there are so many no line goes.
LogKeepsEnough ==
  (logToFile /\ faults = 0) =>
    /\ Cardinality(file) <= MaxLines
    /\ Cardinality(rotated) <= Keep
    /\ (sameName = 0 /\ Cardinality(rotated) < Keep) => Logged = 1..written

\* The strengthening that every line preserves: a line that is lost has failed.
LogInv == LogTypeOK /\ LogKeepsTail /\ LogKeepsEnough /\ (faults = 0 => lost = {})
=============================================================================
