---------------------------- MODULE LogWriterProofs ----------------------------
(***************************************************************************)
(* What rotation and cleanup leave of the log, for every size limit, every *)
(* number of files kept and any number of operations that fail.            *)
(***************************************************************************)
EXTENDS LogWriter, Integers, FiniteSetTheorems, TLAPS

\* Log files: sets of lines, none of them empty.
Files == SUBSET ((SUBSET (1..written)) \ {{}})

\* There are only finitely many log files, and each has finitely many lines.
LEMMA FilesFinite ==
  ASSUME written \in Nat, NEW files \in Files
  PROVE  IsFiniteSet(files) /\ Cardinality(files) \in Nat /\ \A f \in files : f # {} /\ f \subseteq Int
<1>1. IsFiniteSet(1..written)
  BY FS_Interval
<1>2. IsFiniteSet(SUBSET (1..written))
  BY <1>1, FS_SUBSET
<1>3. files \in SUBSET (SUBSET (1..written))
  BY DEF Files
<1>4. IsFiniteSet(files) /\ Cardinality(files) \in Nat
  BY <1>2, <1>3, FS_Subset, FS_CardinalityType
<1>5. \A f \in files : f # {} /\ f \subseteq Int
  BY DEF Files
<1> QED
  BY <1>4, <1>5

\* What LogKeepsTail says of one line, of any files.
Covered(m, files) == Cardinality({f \in files : \A n \in f : m < n}) >= Keep

\* Of the files of a log the cleanup leaves some, at most log_keep more than those it could
\* not remove, and what it takes is older than log_keep files that stay.
LEMMA CleanupKeeps ==
  ASSUME written \in Nat, NEW files \in Files, NEW ok \in BOOLEAN, Cleanup(files, ok)
  PROVE  /\ rotated' \subseteq files
         /\ ok => Cardinality(rotated') <= Keep
         /\ \A f \in files \ rotated' : \A m \in f : Covered(m, rotated')
         /\ \A m \in Int : Covered(m, files) => Covered(m, rotated')
<1>0. Keep \in Nat \ {0} /\ IsFiniteSet(files) /\ Cardinality(files) \in Nat
  BY LogAssumption, FilesFinite
<1>1. PICK newest \in SUBSET files, stays \in SUBSET files :
        /\ Cardinality(newest) = AtMost(Keep, Cardinality(files))
        /\ \A f \in newest, g \in files \ newest : Older(g, f)
        /\ ok => stays = {}
        /\ rotated' = newest \cup stays
  BY DEF Cleanup
<1>2. IsFiniteSet(newest) /\ IsFiniteSet(rotated')
  <2>1. rotated' \in SUBSET files
    BY <1>1
  <2> QED
    BY <1>0, <1>1, <2>1, FS_Subset
<1>3. \A f \in files : f # {} /\ f \subseteq Int
  BY FilesFinite
<1>4. Cardinality(newest) <= Keep
  BY <1>0, <1>1 DEF AtMost
\* Where the cleanup may take a file, it leaves log_keep of them.
<1>5. ASSUME NEW g \in files \ newest PROVE Cardinality(newest) = Keep
  <2>1. newest # files
    BY <1>5
  <2>2. Cardinality(newest) # Cardinality(files)
    BY <1>0, <2>1, FS_Subset
  <2> QED
    BY <1>0, <1>1, <2>2 DEF AtMost
\* As many files that are newer than a line cover it.
<1>6. ASSUME NEW m \in Int, NEW some \in SUBSET rotated', Cardinality(some) >= Keep,
             \A f \in some : \A n \in f : m < n
      PROVE  Covered(m, rotated')
  <2> DEFINE newer == {f \in rotated' : \A n \in f : m < n}
  <2>1. newer \in SUBSET rotated' /\ some \in SUBSET newer
    BY <1>6
  <2>2. IsFiniteSet(newer)
    BY <1>2, <2>1, FS_Subset
  <2>3. Cardinality(some) <= Cardinality(newer) /\ Cardinality(some) \in Nat /\ Cardinality(newer) \in Nat
    <3>1. IsFiniteSet(some)
      BY <2>1, <2>2, FS_Subset
    <3> QED
      BY <2>1, <2>2, <3>1, FS_Subset, FS_CardinalityType
  <2>4. Cardinality(newer) >= Keep
    BY <1>0, <1>6, <2>3
  <2> QED
    BY <2>4 DEF Covered
<1>7. ASSUME NEW f \in files \ rotated', NEW m \in f PROVE Covered(m, rotated')
  <2>1. f \in files \ newest /\ m \in Int
    BY <1>1, <1>3, <1>7
  <2>2. \A g \in newest : \A n \in g : m < n
    BY <1>1, <1>7, <2>1 DEF Older
  <2>3. newest \in SUBSET rotated' /\ Cardinality(newest) >= Keep
    BY <1>0, <1>1, <1>5, <2>1
  <2> QED
    BY <1>6, <2>1, <2>2, <2>3
<1>8. ASSUME NEW m \in Int, Covered(m, files) PROVE Covered(m, rotated')
  <2> DEFINE newer == {f \in files : \A n \in f : m < n}
  <2>1. newer \in SUBSET files /\ Cardinality(newer) >= Keep
    BY <1>8 DEF Covered
  <2>2. CASE newer \subseteq newest
    <3>1. newer \in SUBSET rotated' /\ \A f \in newer : \A n \in f : m < n
      BY <1>1, <2>2
    <3> QED
      BY <1>6, <2>1, <3>1
  <2>3. CASE ~(newer \subseteq newest)
    <3>1. PICK f \in newer : f \notin newest
      BY <2>3
    <3>2. f \in files \ newest /\ \A n \in f : m < n
      BY <3>1
    <3>3. PICK k \in f : k \in Int /\ m < k
      BY <1>3, <3>2
    <3>4. \A g \in newest : \A n \in g : m < n
      <4> TAKE g \in newest
      <4> TAKE n \in g
      <4>1. k < n /\ n \in Int
        BY <1>1, <1>3, <3>2, <3>3 DEF Older
      <4> QED
        BY <3>3, <4>1
    <3>5. newest \in SUBSET rotated' /\ Cardinality(newest) >= Keep
      BY <1>0, <1>1, <1>5, <3>2
    <3> QED
      BY <1>6, <3>4, <3>5
  <2> QED
    BY <2>2, <2>3
<1> QED
  BY <1>1, <1>4, <1>7, <1>8

\* A rename makes the file one of the rotated ones; it replaces another only if the history
\* variable says so.
LEMMA RenameFacts ==
  ASSUME LogTypeOK, NEW same \in BOOLEAN, NEW renamed \in BOOLEAN, Full, Renamed(same, renamed)
  PROVE  LET files == IF renamed THEN RenameTo(same) ELSE rotated IN
         /\ files \in Files /\ Cardinality(files) <= Cardinality(rotated) + 1
         /\ sameName' \in Nat
         /\ sameName' = 0 =>
              /\ sameName = 0 /\ rotated \subseteq files
              /\ Logged = (IF renamed THEN {} ELSE file) \cup UNION files
<1>1. /\ rotated \in Files /\ written \in Nat /\ file \subseteq 1..written /\ sameName \in Nat
      /\ MaxLines \in Nat \ {0}
  BY LogAssumption DEF LogTypeOK, Files
<1>2. IsFiniteSet(rotated) /\ Cardinality(rotated) \in Nat
  BY <1>1, FilesFinite
<1>3. CASE ~renamed
  BY <1>1, <1>2, <1>3 DEF Renamed, Logged
<1>4. CASE renamed
  <2>1. file # {}
    <3>1. file = {} => Cardinality(file) = 0
      BY FS_EmptySet
    <3> QED
      BY <1>1, <3>1 DEF Full
  <2> DEFINE others == rotated \ Replaces(same)
  <2>2. others \in SUBSET rotated /\ RenameTo(same) = others \cup {file}
    BY DEF RenameTo
  <2>3. RenameTo(same) \in Files
    <3>1. file \in (SUBSET (1..written)) \ {{}}
      BY <1>1, <2>1
    <3>2. others \in Files
      BY <1>1, <2>2 DEF Files
    <3> QED
      BY <2>2, <3>1, <3>2 DEF Files
  <2>4. Cardinality(RenameTo(same)) <= Cardinality(rotated) + 1
    <3>1. /\ IsFiniteSet(others) /\ Cardinality(others) <= Cardinality(rotated)
          /\ Cardinality(others) \in Nat
      BY <1>2, <2>2, FS_Subset, FS_CardinalityType
    <3>2. Cardinality(others \cup {file}) = IF file \in others THEN Cardinality(others) ELSE Cardinality(others) + 1
      BY <3>1, FS_AddElement
    <3> HIDE DEF others
    <3> QED
      BY <1>2, <2>2, <3>1, <3>2
  <2>5. sameName' \in Nat /\ (sameName' = 0 => sameName = 0 /\ Replaces(same) = {})
    BY <1>1, <1>4 DEF Renamed
  <2>6. ASSUME Replaces(same) = {} PROVE rotated \subseteq RenameTo(same) /\ Logged = UNION RenameTo(same)
    <3>1. RenameTo(same) = rotated \cup {file}
      BY <2>6 DEF RenameTo
    <3> QED
      BY <3>1 DEF Logged
  <2> QED
    BY <1>4, <2>3, <2>4, <2>5, <2>6
<1> QED
  BY <1>3, <1>4

-----------------------------------------------------------------------------
\* LogKeepsTail, said with Covered.
LEMMA TailCovered ==
  LogKeepsTail <=>
    ((logToFile /\ sameName = 0) => \A m \in 1..written : m \in Logged \cup lost \/ Covered(m, rotated))
BY DEF LogKeepsTail, NewerThan, Covered

\* Where no line is lost, as many files as are needed to cover one are log_keep of them.
LEMMA TailIsEnough ==
  LogTypeOK /\ LogKeepsTail /\ logToFile /\ sameName = 0 /\ lost = {} /\ Cardinality(rotated) < Keep
    => Logged = 1..written
<1> SUFFICES ASSUME LogTypeOK, LogKeepsTail, logToFile, sameName = 0, lost = {},
                    Cardinality(rotated) < Keep
             PROVE  Logged = 1..written
  OBVIOUS
<1>1. Keep \in Nat /\ written \in Nat /\ rotated \in Files /\ file \subseteq 1..written
  BY LogAssumption DEF LogTypeOK, Files
<1>2. IsFiniteSet(rotated) /\ Cardinality(rotated) \in Nat
  BY <1>1, FilesFinite
<1>3. ASSUME NEW m \in 1..written PROVE m \in Logged
  <2>1. Cardinality(NewerThan(m)) <= Cardinality(rotated) /\ Cardinality(NewerThan(m)) \in Nat
    <3>1. NewerThan(m) \in SUBSET rotated
      BY DEF NewerThan
    <3> QED
      BY <1>2, <3>1, FS_Subset, FS_CardinalityType
  <2>2. ~(Cardinality(NewerThan(m)) >= Keep)
    BY <1>1, <1>2, <2>1
  <2> QED
    BY <1>3, <2>2 DEF LogKeepsTail
<1>4. Logged \subseteq 1..written
  BY <1>1 DEF Logged, Files
<1> QED
  BY <1>3, <1>4

\* So it is left to show of a line that types, tail and limits are kept.
LEMMA LimitsAreEnough ==
  ASSUME LogTypeOK', LogKeepsTail', faults' = 0 => lost' = {},
         faults' = 0 => Cardinality(file') <= MaxLines /\ Cardinality(rotated') <= Keep
  PROVE  LogInv'
<1>1. (LogTypeOK /\ LogKeepsTail /\ logToFile /\ sameName = 0 /\ lost = {}
         /\ Cardinality(rotated) < Keep => Logged = 1..written)'
  BY TailIsEnough, PTL
<1> QED
  BY <1>1 DEF LogInv, LogKeepsEnough

\* What a line does when the log file is not renamed and no rotated file removed: it goes
\* into the file, or nowhere.
LEMMA GrowKeeps ==
  ASSUME LogInv, logToFile, NEW grows \in BOOLEAN,
         written' = Line, UNCHANGED <<logToFile, redacts, looping, rotated, sameName>>,
         opened' \in BOOLEAN,
         file' = IF grows THEN file \cup {Line} ELSE file,
         lost' = IF grows THEN lost ELSE lost \cup {Line},
         faults' \in faults..MaxFaults,
         faults' = 0 => grows /\ ~Full
  PROVE  LogInv'
<1>1. /\ rotated \in Files /\ written \in Nat /\ file \subseteq 1..written
      /\ lost \subseteq 1..written /\ faults \in Nat /\ MaxFaults \in Nat
      /\ MaxLines \in Nat /\ Keep \in Nat /\ Cardinality(rotated) <= Keep + faults
  BY LogAssumption DEF LogInv, LogTypeOK, Files
<1>2. written' = written + 1 /\ Line = written + 1 /\ 1..written' = (1..written) \cup {Line}
  BY <1>1 DEF Line
<1>3. Cardinality(rotated) \in Nat
  BY <1>1, FilesFinite
<1>4. LogTypeOK'
  <2>1. rotated' \subseteq (SUBSET (1..written')) \ {{}}
    BY <1>1, <1>2 DEF Files
  <2>2. Cardinality(rotated') <= Keep + faults'
    BY <1>1, <1>3
  <2>3. file' \subseteq 1..written' /\ lost' \subseteq 1..written' /\ written' \in Nat /\ faults' \in 0..MaxFaults
    BY <1>1, <1>2
  <2> QED
    BY <2>1, <2>2, <2>3 DEF LogInv, LogTypeOK
<1>5. LogKeepsTail'
  <2> SUFFICES ASSUME sameName = 0, NEW m \in 1..written',
                      m \notin Logged' \cup lost'
               PROVE  Cardinality(NewerThan(m)) >= Keep
    BY DEF LogKeepsTail, NewerThan
  <2>1. m \in 1..written /\ m \notin Logged \cup lost
    BY <1>2 DEF Logged
  <2> QED
    BY <2>1 DEF LogInv, LogKeepsTail
<1>6. ASSUME faults' = 0
      PROVE  lost' = {} /\ Cardinality(file') <= MaxLines /\ Cardinality(rotated') <= Keep
  <2>1. faults = 0 /\ grows /\ ~Full
    BY <1>1, <1>6
  <2>2. IsFiniteSet(file) /\ Cardinality(file) \in Nat
    <3>1. IsFiniteSet(1..written)
      BY <1>1, FS_Interval
    <3>2. file \in SUBSET (1..written)
      BY <1>1
    <3> QED
      BY <3>1, <3>2, FS_Subset, FS_CardinalityType
  <2>3. Cardinality(file \cup {Line}) = Cardinality(file) + 1
    <3>1. Line \notin file
      BY <1>1, <1>2
    <3> QED
      BY <2>2, <3>1, FS_AddElement
  <2>4. Cardinality(file') <= MaxLines
    BY <1>1, <2>1, <2>2, <2>3 DEF Full
  <2>5. lost' = {} /\ Cardinality(rotated') <= Keep
    BY <1>1, <1>3, <2>1 DEF LogInv
  <2> QED
    BY <2>4, <2>5
<1> QED
  BY <1>4, <1>5, <1>6, LimitsAreEnough

\* What a line does when the file is renamed, or not, and some rotated files are removed that
\* are older than log_keep others: it goes into the log file, or nowhere.
LEMMA RotateKeeps ==
  ASSUME LogInv, logToFile, NEW same \in BOOLEAN, NEW renamed \in BOOLEAN, NEW lands \in BOOLEAN,
         NEW files, files = IF renamed THEN RenameTo(same) ELSE rotated,
         Full, Renamed(same, renamed),
         rotated' \subseteq files,
         \A f \in files \ rotated' : \A m \in f : Covered(m, rotated'),
         \A m \in Int : Covered(m, files) => Covered(m, rotated'),
         written' = Line, UNCHANGED <<logToFile, redacts, looping>>, opened' \in BOOLEAN,
         file' = (IF renamed THEN {} ELSE file) \cup (IF lands THEN {Line} ELSE {}),
         lost' = IF lands THEN lost ELSE lost \cup {Line},
         faults' \in faults..MaxFaults,
         faults' # faults => faults' = faults + 1,
         faults' = faults => renamed /\ lands /\ Cardinality(rotated') <= Keep
  PROVE  LogInv'
<1>1. /\ rotated \in Files /\ written \in Nat /\ file \subseteq 1..written
      /\ lost \subseteq 1..written /\ faults \in Nat /\ MaxFaults \in Nat
      /\ MaxLines \in Nat \ {0} /\ Keep \in Nat \ {0} /\ Cardinality(rotated) <= Keep + faults
  BY LogAssumption DEF LogInv, LogTypeOK, Files
<1>2. written' = written + 1 /\ Line = written + 1 /\ 1..written' = (1..written) \cup {Line}
  BY <1>1 DEF Line
<1>3. /\ files \in Files /\ Cardinality(files) <= Cardinality(rotated) + 1 /\ sameName' \in Nat
      /\ sameName' = 0 =>
           /\ sameName = 0 /\ rotated \subseteq files
           /\ Logged = (IF renamed THEN {} ELSE file) \cup UNION files
  BY RenameFacts DEF LogInv
<1>4. /\ Cardinality(rotated) \in Nat /\ Cardinality(files) \in Nat /\ IsFiniteSet(files)
      /\ Cardinality(rotated') <= Cardinality(files) /\ Cardinality(rotated') \in Nat
  <2>1. IsFiniteSet(files) /\ Cardinality(rotated) \in Nat /\ Cardinality(files) \in Nat
    BY <1>1, <1>3, FilesFinite
  <2>2. rotated' \in SUBSET files
    OBVIOUS
  <2> QED
    BY <2>1, <2>2, FS_Subset, FS_CardinalityType
<1>5. LogTypeOK'
  <2>1. rotated' \subseteq (SUBSET (1..written')) \ {{}}
    BY <1>2, <1>3 DEF Files
  <2>2. Cardinality(rotated') <= Keep + faults'
    BY <1>1, <1>3, <1>4
  <2>3. file' \subseteq 1..written' /\ lost' \subseteq 1..written'
    BY <1>1, <1>2
  <2>4. written' \in Nat /\ faults' \in 0..MaxFaults
    BY <1>1, <1>2
  <2> QED
    BY <1>3, <2>1, <2>2, <2>3, <2>4 DEF LogInv, LogTypeOK
<1>6. LogKeepsTail'
  <2> SUFFICES ASSUME sameName' = 0, NEW m \in 1..written', m \notin Logged' \cup lost'
               PROVE  Covered(m, rotated')
    BY DEF LogKeepsTail, NewerThan, Covered
  <2>1. m \in 1..written /\ m \in Int /\ m # Line
    <3>1. m # Line
      BY DEF Logged
    <3> QED
      BY <1>1, <1>2, <3>1
  <2>2. CASE m \in Logged
    <3>1. PICK f \in files : m \in f
      BY <1>3, <2>2 DEF Logged
    <3>2. f \notin rotated'
      BY <3>1 DEF Logged
    <3> QED
      BY <3>1, <3>2
  <2>3. CASE m \notin Logged
    <3>1. Covered(m, rotated)
      BY <1>3, <2>1, <2>3, TailCovered DEF LogInv
    <3>2. Covered(m, files)
      <4> DEFINE Newer(some) == {f \in some : \A n \in f : m < n}
      <4>1. Newer(rotated) \in SUBSET Newer(files) /\ Newer(files) \in SUBSET files
        BY <1>3
      <4>2. IsFiniteSet(Newer(files))
        BY <1>4, <4>1, FS_Subset
      <4>3. /\ Cardinality(Newer(rotated)) <= Cardinality(Newer(files))
            /\ Cardinality(Newer(rotated)) \in Nat /\ Cardinality(Newer(files)) \in Nat
        BY <4>1, <4>2, FS_Subset, FS_CardinalityType
      <4> QED
        BY <1>1, <3>1, <4>3 DEF Covered
    <3> QED
      BY <2>1, <3>2
  <2> QED
    BY <2>2, <2>3
<1>7. ASSUME faults' = 0
      PROVE  lost' = {} /\ Cardinality(file') <= MaxLines /\ Cardinality(rotated') <= Keep
  <2>1. faults = 0 /\ faults' = faults
    BY <1>1, <1>7
  <2>2. file' = {Line} /\ lost' = {}
    BY <2>1 DEF LogInv
  <2>3. Cardinality({Line}) = 1
    BY FS_Singleton
  <2> QED
    BY <1>1, <2>1, <2>2, <2>3
<1> QED
  BY <1>5, <1>6, <1>7, LimitsAreEnough

-----------------------------------------------------------------------------
\* The daemon starts with a log that is new, or complete.
LEMMA LogStarts == LogInit => LogInv
<1> SUFFICES ASSUME LogInit PROVE LogInv
  OBVIOUS
<1>0. Keep \in Nat \ {0} /\ MaxLines \in Nat \ {0} /\ MaxFaults \in Nat
  BY LogAssumption
<1>1. /\ logToFile \in BOOLEAN /\ redacts \in BOOLEAN /\ looping \in BOOLEAN /\ opened \in BOOLEAN
      /\ lost = {} /\ sameName = 0 /\ faults = 0
  BY DEF LogInit
<1>2. CASE written = 0 /\ file = {} /\ rotated = {}
  <2>1. Logged = {} /\ 1..written = {} /\ Cardinality(file) = 0 /\ Cardinality(rotated) = 0
    BY <1>2, FS_EmptySet DEF Logged
  <2> QED
    BY <1>0, <1>1, <1>2, <2>1 DEF LogInv, LogTypeOK, LogKeepsTail, LogKeepsEnough
<1>3. CASE logToFile /\ written = Keep + 1 /\ file = {written} /\ rotated = {{i} : i \in 1..Keep}
  <2>1. Cardinality(rotated) <= Keep /\ Cardinality(rotated) \in Nat
    <3>1. IsFiniteSet(1..Keep) /\ Cardinality(1..Keep) = Keep
      BY <1>0, FS_Interval
    <3> DEFINE fileOf == [i \in 1..Keep |-> {i}]
    <3>2. fileOf \in Surjection(1..Keep, rotated)
      BY <1>3 DEF Surjection
    <3> QED
      BY <3>1, <3>2, FS_Surjection, FS_CardinalityType
  <2>2. Cardinality(file) = 1
    BY <1>3, FS_Singleton
  <2>3. rotated \subseteq (SUBSET (1..written)) \ {{}} /\ file \subseteq 1..written /\ written \in Nat
    BY <1>0, <1>3
  <2>4. Logged = 1..written
    <3>1. \A n \in 1..written : n = written \/ n \in 1..Keep
      BY <1>0, <1>3
    <3>2. 1..written \subseteq Logged
      BY <1>3, <3>1 DEF Logged
    <3> QED
      BY <2>3, <3>2 DEF Logged
  <2>5. Cardinality(rotated) <= Keep + faults /\ faults \in 0..MaxFaults
    BY <1>0, <1>1, <2>1
  <2> QED
    BY <1>0, <1>1, <2>1, <2>2, <2>3, <2>4, <2>5 DEF LogInv, LogTypeOK, LogKeepsTail, LogKeepsEnough
<1> QED
  BY <1>2, <1>3 DEF LogInit

\* Whatever way a line goes, it keeps the log's tail and limits; one whose redaction loops
\* does not touch the files.
LEMMA StepLog == LogInv /\ (WriteLine \/ LoopLine \/ UNCHANGED logVars) => LogInv'
<1> SUFFICES ASSUME LogInv, WriteLine \/ LoopLine \/ UNCHANGED logVars PROVE LogInv'
  OBVIOUS
<1>0. /\ MaxFaults \in Nat /\ Keep \in Nat \ {0} /\ faults \in 0..MaxFaults /\ faults \in Nat
      /\ opened \in BOOLEAN /\ logToFile \in BOOLEAN /\ written \in Nat /\ rotated \in Files
  BY LogAssumption DEF LogInv, LogTypeOK, Files
<1>1. CASE UNCHANGED logVars
  BY <1>1 DEF logVars, LogInv, LogTypeOK, LogKeepsTail, LogKeepsEnough, Logged, NewerThan
<1>2. CASE LoopLine
  BY <1>2 DEF LoopLine, LogInv, LogTypeOK, LogKeepsTail, LogKeepsEnough, Logged, NewerThan
<1>3. ASSUME WriteLine PROVE LogInv'
  <2>0. written' = Line /\ UNCHANGED <<logToFile, redacts, looping>>
    BY <1>3 DEF WriteLine
  <2>1. CASE WriteClosed
    <3>1. logToFile /\ faults' \in faults..MaxFaults /\ faults' # 0
      BY <1>0, <2>1 DEF WriteClosed, Works
    <3> QED
      BY <1>0, <2>0, <2>1, <3>1, GrowKeeps DEF WriteClosed, Lose
  <2>2. ASSUME NEW ok \in BOOLEAN, WritePlain(ok) PROVE LogInv'
    <3>1. faults' \in faults..MaxFaults /\ (faults' = 0 => ok /\ ~Full)
      BY <1>0, <2>2 DEF WritePlain, Works
    <3>2. file' = (IF ok THEN file \cup {Line} ELSE file) /\ lost' = IF ok THEN lost ELSE lost \cup {Line}
      BY <2>2 DEF WritePlain, Lose
    <3>3. logToFile /\ opened' \in BOOLEAN /\ UNCHANGED <<rotated, sameName>>
      BY <2>2 DEF WritePlain
    <3> QED
      BY <2>0, <3>1, <3>2, <3>3, GrowKeeps
  <2>3. ASSUME NEW same \in BOOLEAN, NEW fails \in SUBSET {"rename", "cleanup", "write"},
               WriteRotating(same, fails)
        PROVE  LogInv'
    <3> DEFINE renamed == "rename" \notin fails
               cleans  == "cleanup" \notin fails
               lands   == "write" \notin fails
               files   == IF renamed THEN RenameTo(same) ELSE rotated
    <3>1. /\ logToFile /\ Full /\ opened' = TRUE /\ Renamed(same, renamed) /\ Cleanup(files, cleans)
          /\ file' = (IF renamed THEN {} ELSE file) \cup (IF lands THEN {Line} ELSE {})
          /\ lost' = IF lands THEN lost ELSE lost \cup {Line}
          /\ Works(fails = {})
      BY <2>3 DEF WriteRotating, Lose
    <3>2. /\ faults' \in faults..MaxFaults /\ (faults' # faults => faults' = faults + 1)
          /\ faults' = faults => fails = {}
      BY <1>0, <3>1 DEF Works
    <3>3. files \in Files
      BY <3>1, RenameFacts DEF LogInv
    <3>4. renamed \in BOOLEAN /\ cleans \in BOOLEAN /\ lands \in BOOLEAN
          /\ (fails = {} => renamed /\ cleans /\ lands)
      OBVIOUS
    <3> HIDE DEF renamed, cleans, lands
    <3>5. files = IF renamed THEN RenameTo(same) ELSE rotated
      OBVIOUS
    <3> HIDE DEF files
    <3>6. /\ rotated' \subseteq files
          /\ cleans => Cardinality(rotated') <= Keep
          /\ \A f \in files \ rotated' : \A m \in f : Covered(m, rotated')
          /\ \A m \in Int : Covered(m, files) => Covered(m, rotated')
      BY <1>0, <3>1, <3>3, <3>4, CleanupKeeps
    <3> QED
      BY <2>0, <3>1, <3>2, <3>4, <3>5, <3>6, RotateKeeps
  <2>4. ASSUME NEW same \in BOOLEAN, NEW renamed \in BOOLEAN, WriteStranded(same, renamed)
        PROVE  LogInv'
    <3> DEFINE files == IF renamed THEN RenameTo(same) ELSE rotated
    <3>1. /\ rotated' = files /\ file' = (IF renamed THEN {} ELSE file) /\ lost' = lost \cup {Line}
          /\ opened' = FALSE /\ logToFile /\ Full /\ Renamed(same, renamed)
          /\ faults' = faults + 1 /\ faults < MaxFaults
      BY <2>4 DEF WriteStranded, Works, Lose
    <3> HIDE DEF files
    <3>2. faults' \in faults..MaxFaults /\ faults' # faults
      BY <1>0, <3>1
    <3>3. files = IF renamed THEN RenameTo(same) ELSE rotated
      BY DEF files
    <3> QED
      BY <2>0, <3>1, <3>2, <3>3, RotateKeeps
  \* To stderr: the files stay as they are, and nothing is said of what they hold.
  <2>5. CASE WriteStderr
    <3>1. ~logToFile /\ UNCHANGED <<opened, file, rotated, lost, sameName, faults>>
      BY <2>5 DEF WriteStderr
    <3>2. 1..written \subseteq 1..written' /\ written' \in Nat
      BY <1>0, <2>0 DEF Line
    <3>3. LogTypeOK'
      BY <2>0, <3>1, <3>2 DEF LogInv, LogTypeOK
    <3> QED
      BY <2>0, <3>1, <3>3 DEF LogInv, LogKeepsTail, LogKeepsEnough
  <2> QED
    BY <1>3, <2>1, <2>2, <2>3, <2>4, <2>5 DEF WriteLine
<1> QED
  BY <1>1, <1>2, <1>3
=============================================================================
