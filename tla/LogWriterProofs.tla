--------------------------- MODULE LogWriterProofs ---------------------------
(***************************************************************************)
(* Proofs about module LogWriter, for every size and age limit, time zone, *)
(* length of a day, number of lines, failing operations and crashes.       *)
(***************************************************************************)
EXTENDS LogWriter, FiniteSetTheorems, TLAPS

InWrite == {"day", "size", "append", "rotate"}
InRotate == {"rotate", "rename", "create", "zip", "remove", "open"}

\* What the place of a Write says about the file.
FileInv ==
    /\ pc \in InWrite => file # "nil"
    /\ pc = "rename" => file = "closed"
    /\ pc \in {"create", "zip", "remove", "open"} => file # "open"

\* Times that were read from the clock have come.
TimeInv ==
    /\ mtime <= now /\ created <= now /\ rnow <= now
    /\ pc \in {"rotate", "rename"} => created <= rnow

\* The lines that are lost or may be, for a known reason.
Excused == expired \cup quick \cup unzipped

\* Stamp s names a backup whose loss would not be excused.
Used(s) == ~(log[s] \cup zip[s] \subseteq Excused)

\* Such stamps are older than whatever may give the next backup its name.
StampInv ==
    \A s \in Times : Used(s) =>
        /\ s < now
        /\ exists => s < mtime
        /\ file # "nil" /\ pc \notin {"create", "zip", "remove", "open"} => s < created
        /\ pc \in InRotate => s < rnow

\* During a rotation, what is overwritten or removed is elsewhere or excused.
RotateInv ==
    /\ pc \in {"create", "zip"} => zip[created] \subseteq Excused
    /\ pc = "remove" => log[created] \subseteq zip[created] \cup Excused

\* The buffer, once the file is closed or a flush has failed, holds lines whose loss the
\* history has noted; so it does between the two halves of Close.
BufferInv ==
    /\ accepted \subseteq flushed \cup buf \cup unlucky \cup late
    /\ file # "open" \/ err \/ cpc = "flushed" => buf \subseteq unlucky \cup late

\* Files hold accepted lines, the current line is none of them before it is appended.
LineInv ==
    /\ buf \cup cur \subseteq accepted
    /\ \A s \in Times : log[s] \cup zip[s] \subseteq accepted
    /\ \A l \in accepted : l <= line
    /\ pc # "idle" => line \in Lines \ accepted
    /\ ~exists => cur = {}
    /\ file = "open" => exists

\* A line, unless it is stray, is in a file of its day or a later one.
DayInv ==
    /\ \A l \in Lines : at[l] <= now
    /\ \A l \in cur \ stray :
          /\ at[l] <= mtime
          /\ file # "nil" /\ pc \notin {"create", "zip", "remove", "open"} =>
                Day(at[l]) <= Day(created)
    /\ file = "open" => \A l \in buf \ stray : Day(at[l]) <= Day(created)
    /\ \A s \in Times : \A l \in (log[s] \cup zip[s]) \ stray : Day(at[l]) <= Day(s)

IInv == /\ TypeOK /\ FileInv /\ TimeInv
        /\ FlushedKept /\ StampInv /\ RotateInv
        /\ BufferInv
        /\ LineInv /\ DayInv

-----------------------------------------------------------------------------
(* Types, in four parts.                                                   *)

DiskType ==
    /\ now \in Times /\ zone \in Zones
    /\ cur \subseteq Lines /\ exists \in BOOLEAN /\ mtime \in Times
    /\ log \in [Times -> SUBSET Lines] /\ zip \in [Times -> SUBSET Lines]

MemoryType ==
    /\ file \in {"nil", "open", "closed"}
    /\ buf \subseteq Lines /\ err \in BOOLEAN /\ size \in Nat /\ created \in Times
    /\ faults \in 0..MaxFaults /\ crashes \in 0..MaxCrashes

ControlType ==
    /\ pc \in {"idle", "day", "size", "append", "rotate", "rename", "create", "zip",
               "remove", "open"}
    /\ ret \in {"day", "size", "append"} /\ rnow \in Times /\ line \in 0..MaxLines
    /\ at \in [Lines -> Times]
    /\ cpc \in {"idle", "flushed"} /\ spawned \in BOOLEAN

HistoryType ==
    /\ accepted \cup flushed \cup late \cup unlucky \subseteq Lines
    /\ quick \cup unzipped \cup stray \cup expired \subseteq Lines

\* A line being written has a number.
LinePlace == pc # "idle" => line \in Lines

LEMMA TypeParts == TypeOK <=> DiskType /\ MemoryType /\ ControlType /\ HistoryType
BY DEF TypeOK, DiskType, MemoryType, ControlType, HistoryType

\* The size of a log file is a number.
LEMMA SizeType ==
    ASSUME TypeOK
    PROVE  Cardinality(cur) \in Nat
<1>1. IsFiniteSet(Lines)
  BY FS_Interval, BoundAssumption DEF Lines
<1> QED
  BY <1>1, FS_Subset, FS_CardinalityType DEF TypeOK

\* A step keeps the number of the line being written.
LEMMA PlaceStep ==
    ASSUME ControlType, LinePlace, [Next]_vars
    PROVE  LinePlace'
<1> USE BoundAssumption
    DEF ControlType, LinePlace, Lines, disk, backups, memory, control, faultVars,
        history
<1>1. CASE Write
  BY <1>1 DEF Write
<1>2. CASE TestDay
  BY <1>2 DEF TestDay, Rotate
<1>3. CASE TestSize
  BY <1>3 DEF TestSize, Rotate, Append, Return
<1>4. CASE RotateFlush
  BY <1>4 DEF RotateFlush, Flush, Fails
<1>5. CASE Rename
  BY <1>5 DEF Rename, Fails
<1>6. CASE ZipCreate
  BY <1>6 DEF ZipCreate, Fails
<1>7. CASE Zip
  BY <1>7 DEF Zip, Fails
<1>8. CASE RemoveLog
  BY <1>8 DEF RemoveLog, Fails
<1>9. CASE Open
  BY <1>9 DEF Open, Fails, Return
<1>10. CASE daemon
  BY <1>10 DEF daemon, Flush, Fails
<1>11. CASE CloseFlush
  BY <1>11 DEF CloseFlush, Flush, Fails
<1>12. CASE CloseFile
  BY <1>12 DEF CloseFile
<1>13. CASE delete
  BY <1>13 DEF delete, Cutoff
<1>14. CASE Tick
  BY <1>14 DEF Tick
<1>15. CASE Crash
  BY <1>15 DEF Crash, Return
<1>16. CASE UNCHANGED vars
  BY <1>16 DEF vars
<1> QED
  BY <1>1, <1>2, <1>3, <1>4, <1>5, <1>6, <1>7, <1>8,
     <1>9, <1>10, <1>11, <1>12, <1>13, <1>14, <1>15, <1>16
     DEF Next, WriteSteps

\* A step keeps the types of the files.
LEMMA DiskStep ==
    ASSUME TypeOK, [Next]_vars
    PROVE  DiskType'
<1> USE BoundAssumption
    DEF TypeOK, DiskType, Times, disk, backups, memory, control, faultVars, history
<1>1. CASE Write
  BY <1>1 DEF Write
<1>2. CASE TestDay
  BY <1>2 DEF TestDay, Rotate
<1>3. CASE TestSize
  BY <1>3 DEF TestSize, Rotate, Append, Return
<1>4. CASE RotateFlush
  BY <1>4 DEF RotateFlush, Flush, Fails
<1>5. CASE Rename
  BY <1>5 DEF Rename, Fails
<1>6. CASE ZipCreate
  BY <1>6 DEF ZipCreate, Fails
<1>7. CASE Zip
  BY <1>7 DEF Zip, Fails
<1>8. CASE RemoveLog
  BY <1>8 DEF RemoveLog, Fails
<1>9. CASE Open
  BY <1>9 DEF Open, Fails, Return
<1>10. CASE daemon
  BY <1>10 DEF daemon, Flush, Fails
<1>11. CASE CloseFlush
  BY <1>11 DEF CloseFlush, Flush, Fails
<1>12. CASE CloseFile
  BY <1>12 DEF CloseFile
<1>13. CASE delete
  BY <1>13 DEF delete, Cutoff
<1>14. CASE Tick
  BY <1>14 DEF Tick
<1>15. CASE Crash
  BY <1>15 DEF Crash, Return
<1>16. CASE UNCHANGED vars
  BY <1>16 DEF vars
<1> QED
  BY <1>1, <1>2, <1>3, <1>4, <1>5, <1>6, <1>7, <1>8,
     <1>9, <1>10, <1>11, <1>12, <1>13, <1>14, <1>15, <1>16
     DEF Next, WriteSteps

\* A step keeps the types of the writer's fields.
LEMMA MemoryStep ==
    ASSUME TypeOK, LinePlace, [Next]_vars
    PROVE  MemoryType'
<1> USE BoundAssumption, SizeType
    DEF TypeOK, LinePlace, MemoryType, Times, disk, backups, memory, control, faultVars,
        history
<1>1. CASE Write
  BY <1>1 DEF Write
<1>2. CASE TestDay
  BY <1>2 DEF TestDay, Rotate
<1>3. CASE TestSize
  <2>1. file' \in {"nil", "open", "closed"} 
    BY <1>3 DEF TestSize, Rotate, Append, Return
  <2>2. err' \in BOOLEAN
    <3>1. err' = err
      BY <1>3 DEF TestSize
    <3> QED
      BY <3>1
  <2>3. buf' \subseteq Lines
    BY <1>3 DEF TestSize, Rotate, Append, Return
  <2>4. size' \in Nat /\ created' \in Times
    BY <1>3 DEF TestSize, Rotate, Append, Return
  <2>5. faults' \in 0..MaxFaults /\ crashes' \in 0..MaxCrashes
    BY <1>3 DEF TestSize, Rotate, Append, Return
  <2> QED
    BY <2>1, <2>2, <2>3, <2>4, <2>5
<1>4. CASE RotateFlush
  <2>1. file' \in {"nil", "open", "closed"} 
    BY <1>4 DEF RotateFlush, Flush, Fails
  <2>2. err' \in BOOLEAN
    BY <1>4 DEF RotateFlush, Flush, Fails
  <2>3. buf' \subseteq Lines
    BY <1>4 DEF RotateFlush, Flush, Fails
  <2>4. size' \in Nat /\ created' \in Times
    BY <1>4 DEF RotateFlush, Flush, Fails
  <2>5. faults' \in 0..MaxFaults /\ crashes' \in 0..MaxCrashes
    BY <1>4 DEF RotateFlush, Flush, Fails
  <2> QED
    BY <2>1, <2>2, <2>3, <2>4, <2>5
<1>5. CASE Rename
  BY <1>5 DEF Rename, Fails
<1>6. CASE ZipCreate
  BY <1>6 DEF ZipCreate, Fails
<1>7. CASE Zip
  BY <1>7 DEF Zip, Fails
<1>8. CASE RemoveLog
  BY <1>8 DEF RemoveLog, Fails
<1>9. CASE Open
  <2>1. file' \in {"nil", "open", "closed"} 
    BY <1>9 DEF Open, Fails, Return
  <2>2. err' \in BOOLEAN
    BY <1>9 DEF Open, Fails, Return
  <2>3. buf' \subseteq Lines
    BY <1>9 DEF Open, Fails, Return
  <2>4. size' \in Nat /\ created' \in Times
    BY <1>9 DEF Open, Fails, Return
  <2>5. faults' \in 0..MaxFaults /\ crashes' \in 0..MaxCrashes
    BY <1>9 DEF Open, Fails, Return
  <2> QED
    BY <2>1, <2>2, <2>3, <2>4, <2>5
<1>10. CASE daemon
  <2>1. file' \in {"nil", "open", "closed"} 
    BY <1>10 DEF daemon, Flush, Fails
  <2>2. err' \in BOOLEAN
    BY <1>10 DEF daemon, Flush, Fails
  <2>3. buf' \subseteq Lines
    BY <1>10 DEF daemon, Flush, Fails
  <2>4. size' \in Nat /\ created' \in Times
    BY <1>10 DEF daemon, Flush, Fails
  <2>5. faults' \in 0..MaxFaults /\ crashes' \in 0..MaxCrashes
    BY <1>10 DEF daemon, Flush, Fails
  <2> QED
    BY <2>1, <2>2, <2>3, <2>4, <2>5
<1>11. CASE CloseFlush
  <2>1. file' \in {"nil", "open", "closed"} 
    BY <1>11 DEF CloseFlush, Flush, Fails
  <2>2. err' \in BOOLEAN
    BY <1>11 DEF CloseFlush, Flush, Fails
  <2>3. buf' \subseteq Lines
    BY <1>11 DEF CloseFlush, Flush, Fails
  <2>4. size' \in Nat /\ created' \in Times
    BY <1>11 DEF CloseFlush, Flush, Fails
  <2>5. faults' \in 0..MaxFaults /\ crashes' \in 0..MaxCrashes
    BY <1>11 DEF CloseFlush, Flush, Fails
  <2> QED
    BY <2>1, <2>2, <2>3, <2>4, <2>5
<1>12. CASE CloseFile
  BY <1>12 DEF CloseFile
<1>13. CASE delete
  BY <1>13 DEF delete, Cutoff
<1>14. CASE Tick
  BY <1>14 DEF Tick
<1>15. CASE Crash
  <2>1. file' \in {"nil", "open", "closed"} 
    BY <1>15 DEF Crash, Return
  <2>2. err' \in BOOLEAN
    BY <1>15 DEF Crash, Return
  <2>3. buf' \subseteq Lines
    BY <1>15 DEF Crash, Return
  <2>4. size' \in Nat /\ created' \in Times
    BY <1>15 DEF Crash, Return
  <2>5. faults' \in 0..MaxFaults /\ crashes' \in 0..MaxCrashes
    BY <1>15 DEF Crash, Return
  <2> QED
    BY <2>1, <2>2, <2>3, <2>4, <2>5
<1>16. CASE UNCHANGED vars
  BY <1>16 DEF vars
<1> QED
  BY <1>1, <1>2, <1>3, <1>4, <1>5, <1>6, <1>7, <1>8,
     <1>9, <1>10, <1>11, <1>12, <1>13, <1>14, <1>15, <1>16
     DEF Next, WriteSteps

\* A step keeps the types of its place.
LEMMA ControlStep ==
    ASSUME TypeOK, [Next]_vars
    PROVE  ControlType'
<1> USE BoundAssumption
    DEF TypeOK, ControlType, Times, disk, backups, memory, control, faultVars, history
<1>1. CASE Write
  BY <1>1 DEF Write
<1>2. CASE TestDay
  BY <1>2 DEF TestDay, Rotate
<1>3. CASE TestSize
  BY <1>3 DEF TestSize, Rotate, Append, Return
<1>4. CASE RotateFlush
  BY <1>4 DEF RotateFlush, Flush, Fails
<1>5. CASE Rename
  BY <1>5 DEF Rename, Fails
<1>6. CASE ZipCreate
  BY <1>6 DEF ZipCreate, Fails
<1>7. CASE Zip
  BY <1>7 DEF Zip, Fails
<1>8. CASE RemoveLog
  BY <1>8 DEF RemoveLog, Fails
<1>9. CASE Open
  BY <1>9 DEF Open, Fails, Return
<1>10. CASE daemon
  BY <1>10 DEF daemon, Flush, Fails
<1>11. CASE CloseFlush
  BY <1>11 DEF CloseFlush, Flush, Fails
<1>12. CASE CloseFile
  BY <1>12 DEF CloseFile
<1>13. CASE delete
  BY <1>13 DEF delete, Cutoff
<1>14. CASE Tick
  BY <1>14 DEF Tick
<1>15. CASE Crash
  <2>1. pc' = "idle" /\ ret' = "day" /\ rnow' = 0
    BY <1>15 DEF Crash, Return
  <2>2. line' = line /\ at' = at
    BY <1>15 DEF Crash, Return
  <2>3. cpc' = "idle"
    BY <1>15 DEF Crash, Return
  <2>4. spawned' \in BOOLEAN
    BY <1>15 DEF Crash, Return
  <2>5. rnow' \in Times
    BY <1>15 DEF Crash, Return
  <2> QED
    BY <2>1, <2>2, <2>3, <2>4, <2>5
<1>16. CASE UNCHANGED vars
  BY <1>16 DEF vars
<1> QED
  BY <1>1, <1>2, <1>3, <1>4, <1>5, <1>6, <1>7, <1>8,
     <1>9, <1>10, <1>11, <1>12, <1>13, <1>14, <1>15, <1>16
     DEF Next, WriteSteps

\* A step keeps the types of the history.
LEMMA HistoryStep ==
    ASSUME TypeOK, LinePlace, [Next]_vars
    PROVE  HistoryType'
<1> USE
    DEF TypeOK, HistoryType, LinePlace, disk, backups, memory, control, faultVars,
        history
<1>1. CASE Write
  BY <1>1 DEF Write
<1>2. CASE TestDay
  BY <1>2 DEF TestDay, Rotate
<1>3. CASE TestSize
  BY <1>3 DEF TestSize, Rotate, Append, Return
<1>4. CASE RotateFlush
  BY <1>4 DEF RotateFlush, Flush, Fails
<1>5. CASE Rename
  BY <1>5 DEF Rename, Fails
<1>6. CASE ZipCreate
  BY <1>6 DEF ZipCreate, Fails
<1>7. CASE Zip
  BY <1>7 DEF Zip, Fails
<1>8. CASE RemoveLog
  BY <1>8 DEF RemoveLog, Fails
<1>9. CASE Open
  BY <1>9 DEF Open, Fails, Return
<1>10. CASE daemon
  BY <1>10 DEF daemon, Flush, Fails
<1>11. CASE CloseFlush
  BY <1>11 DEF CloseFlush, Flush, Fails
<1>12. CASE CloseFile
  BY <1>12 DEF CloseFile
<1>13. CASE delete
  BY <1>13 DEF delete, Cutoff
<1>14. CASE Tick
  BY <1>14 DEF Tick
<1>15. CASE Crash
  BY <1>15 DEF Crash, Return
<1>16. CASE UNCHANGED vars
  BY <1>16 DEF vars
<1> QED
  BY <1>1, <1>2, <1>3, <1>4, <1>5, <1>6, <1>7, <1>8,
     <1>9, <1>10, <1>11, <1>12, <1>13, <1>14, <1>15, <1>16
     DEF Next, WriteSteps

\* A step keeps what the place of a Write says about the file.
LEMMA FileStep ==
    ASSUME TypeOK, FileInv, [Next]_vars
    PROVE  FileInv'
<1> USE DEF TypeOK, FileInv, InWrite, disk, backups, memory, control, faultVars, history
<1>1. CASE Write
  BY <1>1 DEF Write
<1>2. CASE TestDay
  BY <1>2 DEF TestDay, Rotate
<1>3. CASE TestSize
  BY <1>3 DEF TestSize, Rotate, Append, Return
<1>4. CASE RotateFlush
  BY <1>4 DEF RotateFlush, Flush, Fails
<1>5. CASE Rename
  BY <1>5 DEF Rename, Fails
<1>6. CASE ZipCreate
  BY <1>6 DEF ZipCreate, Fails
<1>7. CASE Zip
  BY <1>7 DEF Zip, Fails
<1>8. CASE RemoveLog
  BY <1>8 DEF RemoveLog, Fails
<1>9. CASE Open
  BY <1>9 DEF Open, Fails, Return
<1>10. CASE daemon
  BY <1>10 DEF daemon, Flush, Fails
<1>11. CASE CloseFlush
  BY <1>11 DEF CloseFlush, Flush, Fails
<1>12. CASE CloseFile
  BY <1>12 DEF CloseFile
<1>13. CASE delete
  BY <1>13 DEF delete, Cutoff
<1>14. CASE Tick
  BY <1>14 DEF Tick
<1>15. CASE Crash
  BY <1>15 DEF Crash, Return
<1>16. CASE UNCHANGED vars
  BY <1>16 DEF vars
<1> QED
  BY <1>1, <1>2, <1>3, <1>4, <1>5, <1>6, <1>7, <1>8,
     <1>9, <1>10, <1>11, <1>12, <1>13, <1>14, <1>15, <1>16
     DEF Next, WriteSteps

\* A step keeps the order of the times read from the clock.
LEMMA TimeStep ==
    ASSUME TypeOK, TimeInv, [Next]_vars
    PROVE  TimeInv'
<1> USE BoundAssumption
    DEF TypeOK, TimeInv, Times, disk, backups, memory, control, faultVars, history
<1>1. CASE Write
  BY <1>1 DEF Write
<1>2. CASE TestDay
  BY <1>2 DEF TestDay, Rotate
<1>3. CASE TestSize
  BY <1>3 DEF TestSize, Rotate, Append, Return
<1>4. CASE RotateFlush
  BY <1>4 DEF RotateFlush, Flush, Fails
<1>5. CASE Rename
  BY <1>5 DEF Rename, Fails
<1>6. CASE ZipCreate
  BY <1>6 DEF ZipCreate, Fails
<1>7. CASE Zip
  BY <1>7 DEF Zip, Fails
<1>8. CASE RemoveLog
  BY <1>8 DEF RemoveLog, Fails
<1>9. CASE Open
  BY <1>9 DEF Open, Fails, Return
<1>10. CASE daemon
  BY <1>10 DEF daemon, Flush, Fails
<1>11. CASE CloseFlush
  BY <1>11 DEF CloseFlush, Flush, Fails
<1>12. CASE CloseFile
  BY <1>12 DEF CloseFile
<1>13. CASE delete
  BY <1>13 DEF delete, Cutoff
<1>14. CASE Tick
  BY <1>14 DEF Tick
<1>15. CASE Crash
  BY <1>15 DEF Crash, Return
<1>16. CASE UNCHANGED vars
  BY <1>16 DEF vars
<1> QED
  BY <1>1, <1>2, <1>3, <1>4, <1>5, <1>6, <1>7, <1>8,
     <1>9, <1>10, <1>11, <1>12, <1>13, <1>14, <1>15, <1>16
     DEF Next, WriteSteps

\* A step keeps track of the lines of the buffer.
LEMMA BufferStep ==
    ASSUME TypeOK, FileInv, BufferInv, [Next]_vars
    PROVE  BufferInv'
<1> USE
    DEF TypeOK, FileInv, BufferInv, InWrite, disk, backups, memory, control, faultVars,
        history
<1>1. CASE Write
  BY <1>1 DEF Write
<1>2. CASE TestDay
  BY <1>2 DEF TestDay, Rotate
<1>3. CASE TestSize
  BY <1>3 DEF TestSize, Rotate, Append, Return
<1>4. CASE RotateFlush
  BY <1>4 DEF RotateFlush, Flush, Fails
<1>5. CASE Rename
  BY <1>5 DEF Rename, Fails
<1>6. CASE ZipCreate
  BY <1>6 DEF ZipCreate, Fails
<1>7. CASE Zip
  BY <1>7 DEF Zip, Fails
<1>8. CASE RemoveLog
  BY <1>8 DEF RemoveLog, Fails
<1>9. CASE Open
  BY <1>9 DEF Open, Fails, Return
<1>10. CASE daemon
  BY <1>10 DEF daemon, Flush, Fails
<1>11. CASE CloseFlush
  BY <1>11 DEF CloseFlush, Flush, Fails
<1>12. CASE CloseFile
  BY <1>12 DEF CloseFile
<1>13. CASE delete
  BY <1>13 DEF delete, Cutoff
<1>14. CASE Tick
  BY <1>14 DEF Tick
<1>15. CASE Crash
  BY <1>15 DEF Crash, Return
<1>16. CASE UNCHANGED vars
  BY <1>16 DEF vars
<1> QED
  BY <1>1, <1>2, <1>3, <1>4, <1>5, <1>6, <1>7, <1>8,
     <1>9, <1>10, <1>11, <1>12, <1>13, <1>14, <1>15, <1>16
     DEF Next, WriteSteps

-----------------------------------------------------------------------------
(* What reached a file.                                                    *)

\* FlushedKept, line by line.
KeptInv ==
    \A l \in flushed : \/ l \in cur \cup Excused
                       \/ \E s \in Times : l \in log[s] \cup zip[s]

LEMMA KeptIsKept == FlushedKept <=> KeptInv
BY DEF FlushedKept, KeptInv, OnDisk, Excused

\* The backup that a rename overwrites, and its zip file, hold nothing that counts.
LEMMA RenameSafe ==
    ASSUME TypeOK, FileInv, StampInv, pc = "rename"
    PROVE  log[created] \cup zip[created] \subseteq Excused
<1>1. ~Used(created)
  BY DEF TypeOK, FileInv, StampInv, Times
<1> QED
  BY <1>1 DEF Used

\* A step keeps what reached a file.
LEMMA KeptStep ==
    ASSUME TypeOK, FileInv, StampInv, RotateInv, KeptInv, [Next]_vars
    PROVE  KeptInv'
<1> USE
    DEF TypeOK, FileInv, StampInv, RotateInv, KeptInv, Used, Excused, InWrite, InRotate,
        disk, backups, memory, control, faultVars, history
<1>1. CASE Write
  BY <1>1 DEF Write
<1>2. CASE TestDay
  BY <1>2 DEF TestDay, Rotate
<1>3. CASE TestSize
  BY <1>3 DEF TestSize, Rotate, Append, Return
<1>4. CASE RotateFlush
  BY <1>4 DEF RotateFlush, Flush, Fails
<1>5. CASE Rename
  <2>1. zip' = zip /\ flushed' = flushed /\ Excused \subseteq Excused'
    BY <1>5 DEF Rename, Fails
  <2>2. CASE log' = log /\ cur' = cur
    BY <2>1, <2>2
  <2>3. CASE log' = [log EXCEPT ![created] = cur]
    <3>1. log' \in [Times -> SUBSET Lines] /\ created \in Times /\ log'[created] = cur
      BY <2>3
    <3>2. ASSUME NEW s \in Times PROVE s = created \/ log'[s] = log[s]
      BY <2>3
    <3>3. log[created] \cup zip[created] \subseteq Excused
      BY <1>5, RenameSafe DEF Rename
    <3>4. SUFFICES ASSUME NEW l \in flushed'
                   PROVE  \/ l \in cur' \cup Excused'
                          \/ \E s \in Times : l \in log'[s] \cup zip'[s]
      BY DEF KeptInv
    <3> HIDE DEF Excused
    <3> QED
      BY <2>1, <3>1, <3>2, <3>3
  <2> QED
    BY <1>5, <2>2, <2>3 DEF Rename
<1>6. CASE ZipCreate
  BY <1>6 DEF ZipCreate, Fails
<1>7. CASE Zip
  BY <1>7 DEF Zip, Fails
<1>8. CASE RemoveLog
  BY <1>8 DEF RemoveLog, Fails
<1>9. CASE Open
  BY <1>9 DEF Open, Fails, Return
<1>10. CASE daemon
  BY <1>10 DEF daemon, Flush, Fails
<1>11. CASE CloseFlush
  BY <1>11 DEF CloseFlush, Flush, Fails
<1>12. CASE CloseFile
  BY <1>12 DEF CloseFile
<1>13. CASE delete
  BY <1>13 DEF delete, Cutoff
<1>14. CASE Tick
  BY <1>14 DEF Tick
<1>15. CASE Crash
  BY <1>15 DEF Crash, Return
<1>16. CASE UNCHANGED vars
  BY <1>16 DEF vars
<1> QED
  BY <1>1, <1>2, <1>3, <1>4, <1>5, <1>6, <1>7, <1>8,
     <1>9, <1>10, <1>11, <1>12, <1>13, <1>14, <1>15, <1>16
     DEF Next, WriteSteps

\* A step keeps the stamps that are used older than the next one.
LEMMA StampStep ==
    ASSUME TypeOK, FileInv, TimeInv, StampInv, [Next]_vars
    PROVE  StampInv'
<1> USE BoundAssumption
    DEF TypeOK, FileInv, TimeInv, StampInv, Used, Excused, InWrite, InRotate, Times,
        disk, backups, memory, control, faultVars, history
<1>1. CASE Write
  BY <1>1 DEF Write
<1>2. CASE TestDay
  BY <1>2 DEF TestDay, Rotate
<1>3. CASE TestSize
  BY <1>3 DEF TestSize, Rotate, Append, Return
<1>4. CASE RotateFlush
  BY <1>4 DEF RotateFlush, Flush, Fails
<1>5. CASE Rename
  BY <1>5 DEF Rename, Fails
<1>6. CASE ZipCreate
  BY <1>6 DEF ZipCreate, Fails
<1>7. CASE Zip
  BY <1>7 DEF Zip, Fails
<1>8. CASE RemoveLog
  BY <1>8 DEF RemoveLog, Fails
<1>9. CASE Open
  BY <1>9 DEF Open, Fails, Return
<1>10. CASE daemon
  BY <1>10 DEF daemon, Flush, Fails
<1>11. CASE CloseFlush
  BY <1>11 DEF CloseFlush, Flush, Fails
<1>12. CASE CloseFile
  BY <1>12 DEF CloseFile
<1>13. CASE delete
  BY <1>13, SMTT(60) DEF delete, Cutoff
<1>14. CASE Tick
  BY <1>14 DEF Tick
<1>15. CASE Crash
  BY <1>15 DEF Crash, Return
<1>16. CASE UNCHANGED vars
  BY <1>16 DEF vars
<1> QED
  BY <1>1, <1>2, <1>3, <1>4, <1>5, <1>6, <1>7, <1>8,
     <1>9, <1>10, <1>11, <1>12, <1>13, <1>14, <1>15, <1>16
     DEF Next, WriteSteps

\* A step keeps what a rotation is about to lose elsewhere.
LEMMA RotateStep ==
    ASSUME TypeOK, FileInv, StampInv, RotateInv, [Next]_vars
    PROVE  RotateInv'
<1> USE
    DEF TypeOK, FileInv, StampInv, RotateInv, Used, Excused, InWrite, InRotate, disk,
        backups, memory, control, faultVars, history
<1>1. CASE Write
  BY <1>1 DEF Write
<1>2. CASE TestDay
  BY <1>2 DEF TestDay, Rotate
<1>3. CASE TestSize
  BY <1>3 DEF TestSize, Rotate, Append, Return
<1>4. CASE RotateFlush
  BY <1>4 DEF RotateFlush, Flush, Fails
<1>5. CASE Rename
  <2>1. zip' = zip /\ created' = created /\ Excused \subseteq Excused'
    BY <1>5 DEF Rename, Fails
  <2>2. zip[created] \subseteq Excused
    BY <1>5, RenameSafe DEF Rename
  <2>3. pc' \in {"open", "create"}
    BY <1>5 DEF Rename, Fails
  <2> QED
    BY <2>1, <2>2, <2>3
<1>6. CASE ZipCreate
  BY <1>6 DEF ZipCreate, Fails
<1>7. CASE Zip
  BY <1>7 DEF Zip, Fails
<1>8. CASE RemoveLog
  BY <1>8 DEF RemoveLog, Fails
<1>9. CASE Open
  BY <1>9 DEF Open, Fails, Return
<1>10. CASE daemon
  BY <1>10 DEF daemon, Flush, Fails
<1>11. CASE CloseFlush
  BY <1>11 DEF CloseFlush, Flush, Fails
<1>12. CASE CloseFile
  BY <1>12 DEF CloseFile
<1>13. CASE delete
  BY <1>13 DEF delete, Cutoff
<1>14. CASE Tick
  BY <1>14 DEF Tick
<1>15. CASE Crash
  BY <1>15 DEF Crash, Return
<1>16. CASE UNCHANGED vars
  BY <1>16 DEF vars
<1> QED
  BY <1>1, <1>2, <1>3, <1>4, <1>5, <1>6, <1>7, <1>8,
     <1>9, <1>10, <1>11, <1>12, <1>13, <1>14, <1>15, <1>16
     DEF Next, WriteSteps

-----------------------------------------------------------------------------
(* Days.                                                                   *)

\* A product grows with its factor.
LEMMA Product ==
    ASSUME NEW d \in Nat, NEW a \in Int, NEW b \in Int, a <= b
    PROVE  d * a <= d * b
<1>1. d * (b - a) >= 0
  BY SMT
<1>2. d * (b - a) = d * b - d * a
  BY SMT
<1> QED
  BY <1>1, <1>2, SMT

\* A time is in the day that Day says.
LEMMA DayBounds ==
    ASSUME NEW t \in Int
    PROVE  Day(t) \in Int /\ DayLen * Day(t) <= t /\ t < DayLen * (Day(t) + 1)
BY BoundAssumption, SMT DEF Day

\* MaxAge days later, at least, in days too.
LEMMA DayShift ==
    ASSUME NEW s \in Int, NEW t \in Int, NEW k \in Nat, s + k * DayLen <= t
    PROVE  Day(s) + k <= Day(t)
<1>1. /\ Day(s) \in Int /\ DayLen * Day(s) <= s
      /\ Day(t) \in Int /\ t < DayLen * (Day(t) + 1)
  BY DayBounds
<1>2. SUFFICES ASSUME Day(t) + 1 <= Day(s) + k PROVE FALSE
  BY <1>1
<1>3. DayLen * (Day(t) + 1) <= DayLen * (Day(s) + k)
  BY <1>1, <1>2, BoundAssumption, Product
<1>4. DayLen * (Day(s) + k) = DayLen * Day(s) + k * DayLen
  BY <1>1, BoundAssumption, SMT
<1>5. DayLen * Day(s) \in Int /\ k * DayLen \in Int /\ DayLen * (Day(t) + 1) \in Int
  BY <1>1, BoundAssumption
<1> QED
  BY <1>1, <1>3, <1>4, <1>5

LEMMA DayMonotonic ==
    ASSUME NEW s \in Times, NEW t \in Times
    PROVE  Day(s) \in Int /\ (s <= t => Day(s) <= Day(t))
<1>1. s \in Int /\ t \in Int
  BY BoundAssumption DEF Times
<1>2. s <= t => s + 0 * DayLen <= t
  BY <1>1, BoundAssumption
<1>3. s <= t => Day(s) + 0 <= Day(t)
  BY <1>1, <1>2, DayShift
<1> QED
  BY <1>1, <1>3, DayBounds

\* A step keeps the files to accepted lines.
LEMMA LineStep ==
    ASSUME TypeOK, FileInv, LineInv, [Next]_vars
    PROVE  LineInv'
<1> USE BoundAssumption
    DEF TypeOK, FileInv, LineInv, Lines, InWrite, disk, backups, memory, control,
        faultVars, history
<1>1. CASE Write
  BY <1>1 DEF Write
<1>2. CASE TestDay
  BY <1>2 DEF TestDay, Rotate
<1>3. CASE TestSize
  <2>1. (buf \cup cur \subseteq accepted)'
    BY <1>3 DEF TestSize, Rotate, Append, Return
  <2>2. (\A s \in Times : log[s] \cup zip[s] \subseteq accepted)'
    BY <1>3 DEF TestSize, Rotate, Append, Return
  <2>3. (\A l \in accepted : l <= line)'
    BY <1>3 DEF TestSize, Rotate, Append, Return
  <2>4. (pc # "idle" => line \in Lines \ accepted)'
    BY <1>3 DEF TestSize, Rotate, Append, Return
  <2>5. ((~exists => cur = {}) /\ (file = "open" => exists))'
    BY <1>3 DEF TestSize, Rotate, Append, Return
  <2> QED
    BY <2>1, <2>2, <2>3, <2>4, <2>5
<1>4. CASE RotateFlush
  BY <1>4 DEF RotateFlush, Flush, Fails
<1>5. CASE Rename
  BY <1>5 DEF Rename, Fails
<1>6. CASE ZipCreate
  BY <1>6 DEF ZipCreate, Fails
<1>7. CASE Zip
  BY <1>7 DEF Zip, Fails
<1>8. CASE RemoveLog
  BY <1>8 DEF RemoveLog, Fails
<1>9. CASE Open
  BY <1>9 DEF Open, Fails, Return
<1>10. CASE daemon
  BY <1>10 DEF daemon, Flush, Fails
<1>11. CASE CloseFlush
  BY <1>11 DEF CloseFlush, Flush, Fails
<1>12. CASE CloseFile
  BY <1>12 DEF CloseFile
<1>13. CASE delete
  BY <1>13 DEF delete, Cutoff
<1>14. CASE Tick
  BY <1>14 DEF Tick
<1>15. CASE Crash
  BY <1>15 DEF Crash, Return
<1>16. CASE UNCHANGED vars
  BY <1>16 DEF vars
<1> QED
  BY <1>1, <1>2, <1>3, <1>4, <1>5, <1>6, <1>7, <1>8,
     <1>9, <1>10, <1>11, <1>12, <1>13, <1>14, <1>15, <1>16
     DEF Next, WriteSteps

\* A step keeps the lines that are not stray in files of their day or a later one.
LEMMA DayStep ==
    ASSUME TypeOK, FileInv, TimeInv, LineInv, DayInv, [Next]_vars
    PROVE  DayInv'
<1>0. \A s, t \in Times : Day(s) \in Int /\ (s <= t => Day(s) <= Day(t))
  BY DayMonotonic
<1> USE <1>0, BoundAssumption
    DEF TypeOK, FileInv, TimeInv, LineInv, DayInv, InWrite, disk, backups, memory,
        control, faultVars, history
<1>1. CASE Write
  BY <1>1 DEF Write
<1>2. CASE TestDay
  <2>1. (\A l \in Lines : at[l] <= now)'
    BY <1>2 DEF TestDay, Rotate, Times
  <2>2. (\A l \in cur \ stray : at[l] <= mtime)'
    BY <1>2 DEF TestDay, Rotate
  <2>3. (\A l \in cur \ stray :
            file # "nil" /\ pc \notin {"create", "zip", "remove", "open"} =>
                Day(at[l]) <= Day(created))'
    BY <1>2 DEF TestDay, Rotate
  <2>4. (file = "open" => \A l \in buf \ stray : Day(at[l]) <= Day(created))'
    BY <1>2 DEF TestDay, Rotate
  <2>5. (\A s \in Times : \A l \in (log[s] \cup zip[s]) \ stray : Day(at[l]) <= Day(s))'
    BY <1>2 DEF TestDay, Rotate
  <2> QED
    BY <2>1, <2>2, <2>3, <2>4, <2>5
<1>3. CASE TestSize
  <2>1. (\A l \in Lines : at[l] <= now)'
    BY <1>3 DEF TestSize, Rotate, Append, Return
  <2>2. (\A l \in cur \ stray : at[l] <= mtime)'
    BY <1>3 DEF TestSize, Rotate, Append, Return
  <2>3. (\A l \in cur \ stray :
            file # "nil" /\ pc \notin {"create", "zip", "remove", "open"} =>
                Day(at[l]) <= Day(created))'
    BY <1>3 DEF TestSize, Rotate, Append, Return
  <2>4. (file = "open" => \A l \in buf \ stray : Day(at[l]) <= Day(created))'
    BY <1>3 DEF TestSize, Rotate, Append, Return
  <2>5. (\A s \in Times : \A l \in (log[s] \cup zip[s]) \ stray : Day(at[l]) <= Day(s))'
    BY <1>3 DEF TestSize, Rotate, Append, Return
  <2> QED
    BY <2>1, <2>2, <2>3, <2>4, <2>5
<1>4. CASE RotateFlush
  BY <1>4 DEF RotateFlush, Flush, Fails
<1>5. CASE Rename
  BY <1>5 DEF Rename, Fails
<1>6. CASE ZipCreate
  BY <1>6 DEF ZipCreate, Fails
<1>7. CASE Zip
  BY <1>7 DEF Zip, Fails
<1>8. CASE RemoveLog
  BY <1>8 DEF RemoveLog, Fails
<1>9. CASE Open
  <2>1. (\A l \in Lines : at[l] <= now)'
    BY <1>9 DEF Open, Fails, Return
  <2>2. (\A l \in cur \ stray : at[l] <= mtime)'
    BY <1>9 DEF Open, Fails, Return
  <2>3. (\A l \in cur \ stray :
            file # "nil" /\ pc \notin {"create", "zip", "remove", "open"} =>
                Day(at[l]) <= Day(created))'
    BY <1>9 DEF Open, Fails, Return
  <2>4. (file = "open" => \A l \in buf \ stray : Day(at[l]) <= Day(created))'
    BY <1>9 DEF Open, Fails, Return
  <2>5. (\A s \in Times : \A l \in (log[s] \cup zip[s]) \ stray : Day(at[l]) <= Day(s))'
    BY <1>9 DEF Open, Fails, Return
  <2> QED
    BY <2>1, <2>2, <2>3, <2>4, <2>5
<1>10. CASE daemon
  BY <1>10 DEF daemon, Flush, Fails
<1>11. CASE CloseFlush
  BY <1>11 DEF CloseFlush, Flush, Fails
<1>12. CASE CloseFile
  BY <1>12 DEF CloseFile
<1>13. CASE delete
  BY <1>13 DEF delete, Cutoff
<1>14. CASE Tick
  <2>1. (\A l \in Lines : at[l] <= now)'
    BY <1>14 DEF Tick, Times
  <2>2. (\A l \in cur \ stray : at[l] <= mtime)'
    BY <1>14 DEF Tick
  <2>3. (\A l \in cur \ stray :
            file # "nil" /\ pc \notin {"create", "zip", "remove", "open"} =>
                Day(at[l]) <= Day(created))'
    BY <1>14 DEF Tick
  <2>4. (file = "open" => \A l \in buf \ stray : Day(at[l]) <= Day(created))'
    BY <1>14 DEF Tick
  <2>5. (\A s \in Times : \A l \in (log[s] \cup zip[s]) \ stray : Day(at[l]) <= Day(s))'
    BY <1>14 DEF Tick
  <2> QED
    BY <2>1, <2>2, <2>3, <2>4, <2>5
<1>15. CASE Crash
  BY <1>15 DEF Crash, Return
<1>16. CASE UNCHANGED vars
  BY <1>16 DEF vars
<1> QED
  BY <1>1, <1>2, <1>3, <1>4, <1>5, <1>6, <1>7, <1>8,
     <1>9, <1>10, <1>11, <1>12, <1>13, <1>14, <1>15, <1>16
     DEF Next, WriteSteps

-----------------------------------------------------------------------------
(* The invariant and the theorems.                                         *)

LEMMA Initial == Init => IInv /\ LinePlace
<1> SUFFICES ASSUME Init PROVE IInv /\ LinePlace
  OBVIOUS
<1> USE BoundAssumption DEF Init
<1>1. TypeOK
  <2>1. 0 \in Times /\ 0 \in Nat
    BY DEF Times
  <2>2. DiskType
    BY <2>1 DEF DiskType
  <2>3. MemoryType
    <3>1. err \in BOOLEAN
      OBVIOUS
    <3>2. faults \in 0..MaxFaults /\ crashes \in 0..MaxCrashes
      OBVIOUS
    <3>3. file = "nil" /\ buf = {} /\ size = 0 /\ created = 0
      OBVIOUS
    <3> QED
      BY <2>1, <3>1, <3>2, <3>3 DEF MemoryType
  <2>4. ControlType
    <3>1. spawned \in BOOLEAN
      OBVIOUS
    <3>2. line \in 0..MaxLines
      OBVIOUS
    <3>3. pc = "idle" /\ ret = "day" /\ cpc = "idle" /\ rnow = 0
      OBVIOUS
    <3>4. at \in [Lines -> Times]
      BY <2>1
    <3> QED
      BY <2>1, <3>1, <3>2, <3>3, <3>4 DEF ControlType
  <2>5. HistoryType
    BY DEF HistoryType
  <2> QED
    BY <2>2, <2>3, <2>4, <2>5, TypeParts
<1>2. FileInv /\ BufferInv /\ LinePlace
  BY DEF FileInv, BufferInv, InWrite, LinePlace
<1>3. TimeInv
  BY DEF TimeInv
<1>4. FlushedKept /\ RotateInv
  BY DEF FlushedKept, RotateInv
<1>5. StampInv
  BY DEF StampInv, Used
<1>6. LineInv
  BY DEF LineInv
<1>7. DayInv
  BY DEF DayInv
<1> QED
  BY <1>1, <1>2, <1>3, <1>4, <1>5, <1>6, <1>7 DEF IInv

LEMMA TypePreserved ==
    ASSUME TypeOK, LinePlace, [Next]_vars
    PROVE  TypeOK' /\ LinePlace'
<1>1. DiskType' /\ MemoryType' /\ ControlType' /\ HistoryType'
  BY DiskStep, MemoryStep, ControlStep, HistoryStep
<1>2. LinePlace'
  BY PlaceStep, TypeParts
<1> QED
  BY <1>1, <1>2 DEF TypeOK, DiskType, MemoryType, ControlType, HistoryType

LEMMA Preserved == IInv /\ [Next]_vars => IInv'
<1> SUFFICES ASSUME IInv, [Next]_vars PROVE IInv'
  OBVIOUS
<1> USE DEF IInv
<1>1. LinePlace
  BY DEF LineInv, LinePlace
<1>2. TypeOK'
  BY <1>1, TypePreserved
<1>3. FileInv' /\ TimeInv' /\ BufferInv'
  BY FileStep, TimeStep, BufferStep
<1>4. FlushedKept'
  <2>1. KeptInv'
    BY KeptStep, KeptIsKept
  <2> QED
    BY <2>1 DEF FlushedKept, KeptInv, OnDisk, Excused
<1>5. StampInv' /\ RotateInv'
  BY StampStep, RotateStep
<1>6. LineInv' /\ DayInv'
  BY LineStep, DayStep
<1> QED
  BY <1>2, <1>3, <1>4, <1>5, <1>6

\* The variables of the writer and the files keep their types.
THEOREM TypeCorrect == Spec => []TypeOK
<1>1. Init => TypeOK /\ LinePlace
  BY Initial DEF IInv
<1>2. (TypeOK /\ LinePlace) /\ [Next]_vars => (TypeOK /\ LinePlace)'
  BY TypePreserved
<1> QED
  BY <1>1, <1>2, PTL DEF Spec

LEMMA Invariant == Spec => []IInv
<1>1. Init => IInv
  BY Initial
<1> QED
  BY <1>1, Preserved, PTL DEF Spec

\* A line that reached a file stays in one until delete finds its backup old enough:
\* no failed operation of a rotation loses it, and no crash between two of them, but
\* for a zip whose closing failed unnoticed and a file rotated in the second of its
\* stamp. Local time never goes back.
THEOREM FlushedStays == Spec => []FlushedKept
<1>1. IInv => FlushedKept
  BY DEF IInv
<1> QED
  BY <1>1, Invariant, PTL

\* A line that Write accepted has reached a file, or is in a buffer that is still to be
\* flushed, or was lost for one of four reasons: it was in the buffer at a crash or at a
\* failed write, or accepted between the halves of Close or after a failed reopen.
THEOREM AcceptedStays == Spec => []AcceptedKept
<1>1. IInv => AcceptedKept
  BY DEF IInv, BufferInv, AcceptedKept
<1> QED
  BY <1>1, Invariant, PTL

\* delete spares the lines of the last MaxAge days (days of UTC for the clock).
THEOREM RecentStays == Spec => RecentKept
<1> DEFINE Recent == \A l \in expired' \ expired :
                        Day(at[l]) + MaxAge <= Day(now - zone) \/ l \in stray
<1>1. IInv /\ [Next]_vars => [Recent]_vars
  <2> SUFFICES ASSUME IInv, Next PROVE Recent
    OBVIOUS
  <2> SUFFICES ASSUME NEW l \in expired' \ expired, l \notin stray
               PROVE  Day(at[l]) + MaxAge <= Day(now - zone)
    OBVIOUS
  <2>1. delete
    BY DEF Next, WriteSteps, Write, TestDay, TestSize, RotateFlush, Rename, ZipCreate, Zip,
           RemoveLog, Open, daemon, CloseFlush, CloseFile, Tick, Crash, history,
           Append, Flush
  <2>2. PICK s \in Times : s < Cutoff(now) /\ l \in zip[s]
    BY <2>1 DEF delete
  <2>3. /\ s \in Int /\ now \in Int /\ zone \in Int
        /\ l \in Lines /\ at[l] \in Times
    BY <2>2, BoundAssumption DEF IInv, TypeOK, Times
  <2>4. Day(at[l]) <= Day(s)
    BY <2>2 DEF IInv, DayInv
  <2>5. s + MaxAge * DayLen <= now - zone
    <3>1. MaxAge * DayLen \in Int
      BY BoundAssumption
    <3> QED
      BY <2>2, <2>3, <3>1 DEF Cutoff
  <2>6. Day(s) + MaxAge <= Day(now - zone)
    BY <2>3, <2>5, BoundAssumption, DayShift
  <2>7. Day(at[l]) \in Int /\ Day(s) \in Int /\ Day(now - zone) \in Int
    BY <2>3, DayBounds, BoundAssumption DEF Times
  <2> QED
    BY <2>4, <2>6, <2>7, BoundAssumption
<1> QED
  BY <1>1, Invariant, PTL DEF Spec, RecentKept
=============================================================================
