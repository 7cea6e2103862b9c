------------------------------ MODULE LogWriter ------------------------------
(***************************************************************************)
(* The log file writer of gutils/writer.go: Write with its rotation by day *)
(* and by size, the flush of the daemon goroutine, Close, and the delete   *)
(* goroutine that removes old backups, over a file system whose operations *)
(* may fail and a process that may crash between any two of them.          *)
(*                                                                         *)
(* Write, flush and close hold w.mu, so pc is the place of the one Write   *)
(* that may be under way and "idle" means that w.mu is free. Each call of  *)
(* the file system is a step. A file is the set of lines it holds (every   *)
(* append goes to the end, so the order inside a file is the order of the  *)
(* writes); a line has size one. Time counts seconds, DayLen to the day.   *)
(* A bufio.Writer that fills up and writes through does what a flush of    *)
(* the daemon between two lines does. A crash ends the process, not the    *)
(* machine: what was written to a file stays. Local time never goes back   *)
(* (no daylight saving, no clock that is set back), since the stamps of    *)
(* the backups would be given again: an assumption of every property here. *)
(***************************************************************************)
EXTENDS Integers, FiniteSets

CONSTANTS
    MaxSize,        \* Writer.maxSize, in lines
    MaxAge,         \* Writer.maxAge, in days
    Zones,          \* offsets of local time from UTC to consider
    DayLen,         \* seconds of a day
    MaxTime,        \* bound: seconds of a behaviour
    MaxLines,       \* bound: calls of Write
    MaxFaults,      \* bound: failing operations of the file system
    MaxCrashes      \* bound: crashes of the process

ASSUME BoundAssumption ==
    /\ MaxSize \in Nat \ {0} /\ MaxAge \in Nat /\ DayLen \in Nat \ {0}
    /\ Zones \subseteq Int
    /\ MaxTime \in Nat /\ MaxLines \in Nat /\ MaxFaults \in Nat /\ MaxCrashes \in Nat

Times == 0..MaxTime
Lines == 1..MaxLines

VARIABLES
    now, zone,      \* the clock (local time); the offset from UTC
    cur,            \* lines in the log file fpath
    exists, mtime,  \* whether fpath exists; its modification time
    log, zip,       \* log[s], zip[s]: lines in the backup of stamp s
    file,           \* w.file: "nil", "open", or "closed" after a failed reopen
    buf, err,       \* w.bw: the lines it buffers, and its sticky error
    size, created,  \* w.size, w.created
    pc, ret,        \* where the current Write is; where its rotate returns to
    rnow, line,     \* rotate's now; the number of the current line
    at,             \* at[l]: the time (t in Write) of line l
    cpc,            \* Close: "idle", or "flushed" between flush and close
    spawned,        \* a delete goroutine has been started
    faults, crashes,
    accepted,       \* history: lines whose Write returned no error
    flushed,        \* history: lines that reached a file
    late,           \* history: lines accepted between the halves of Close, or after
                    \* a reopen that failed
    unlucky,        \* history: lines buffered at a crash or at a failed write
    quick,          \* history: lines in files rotated in the second of their stamp
    unzipped,       \* history: lines of a backup whose zip failed unnoticed
    stray,          \* history: lines appended to the file of an earlier day
    expired         \* history: lines of the backups delete removed

disk == <<cur, exists, mtime>>
backups == <<log, zip>>
memory == <<file, buf, err, size, created>>
control == <<pc, ret, rnow, line, at>>
faultVars == <<faults, crashes>>
history == <<accepted, flushed, late, unlucky, quick, unzipped, stray, expired>>
vars == <<now, zone, disk, backups, memory, control, cpc, spawned, faultVars, history>>

Day(t) == t \div DayLen

Init ==
    /\ now = 0 /\ zone \in Zones
    /\ cur = {} /\ exists = FALSE /\ mtime = 0
    /\ log = [s \in Times |-> {}] /\ zip = [s \in Times |-> {}]
    /\ file = "nil" /\ buf = {} /\ err = FALSE /\ size = 0 /\ created = 0
    /\ pc = "idle" /\ ret = "day" /\ rnow = 0 /\ line = 0
    /\ at = [l \in Lines |-> 0]
    /\ cpc = "idle" /\ spawned = FALSE
    /\ faults = 0 /\ crashes = 0
    /\ accepted = {} /\ flushed = {} /\ late = {} /\ unlucky = {} /\ quick = {}
    /\ unzipped = {} /\ stray = {} /\ expired = {}

\* Whether this operation of the file system fails.
Fails(b) ==
    /\ b \in BOOLEAN
    /\ b => faults < MaxFaults
    /\ faults' = IF b THEN faults + 1 ELSE faults
    /\ UNCHANGED crashes

-----------------------------------------------------------------------------
(* Write.                                                                  *)

\* Write takes w.mu. Without a file, rotate only opens one.
Write ==
    /\ pc = "idle"
    /\ line < MaxLines
    /\ line' = line + 1
    /\ pc' = IF file = "nil" THEN "open" ELSE "day"
    /\ ret' = "day"
    /\ rnow' = now
    /\ UNCHANGED <<now, zone, disk, backups, memory, at, cpc, spawned, faultVars, history>>

Rotate(next) == pc' = "rotate" /\ ret' = next /\ rnow' = now

\* A file of another day: rotate, and start delete.
TestDay ==
    /\ pc = "day"
    /\ at' = [at EXCEPT ![line] = now]
    /\ IF Day(created) # Day(now)
       THEN spawned' = TRUE /\ Rotate("size")
       ELSE pc' = "size" /\ UNCHANGED <<ret, rnow, spawned>>
    /\ UNCHANGED <<now, zone, disk, backups, memory, line, cpc, faultVars, history>>

\* Write returns: its variables are gone.
Return == pc' = "idle" /\ ret' = "day" /\ rnow' = 0

\* bw.Write: an earlier failed flush makes it fail.
Append ==
    /\ Return
    /\ IF err
       THEN UNCHANGED <<buf, size, accepted, late, stray>>
       ELSE /\ buf' = buf \cup {line}
            /\ size' = size + 1
            /\ accepted' = accepted \cup {line}
            /\ late' = IF cpc = "flushed" \/ file # "open" THEN late \cup {line} ELSE late
            /\ stray' = IF Day(created) < Day(at[line]) THEN stray \cup {line} ELSE stray

\* A full file: rotate; then, or at once, the line is appended.
TestSize ==
    /\ \/ pc = "append" /\ Append
       \/ pc = "size" /\ size + 1 < MaxSize /\ Append
       \/ /\ pc = "size" /\ size + 1 >= MaxSize
          /\ Rotate("append")
          /\ UNCHANGED <<buf, size, accepted, late, stray>>
    /\ UNCHANGED <<now, zone, disk, backups, file, err, created, line, at, cpc, spawned,
                   faultVars, flushed, unlucky, quick, unzipped, expired>>

-----------------------------------------------------------------------------
(* rotate.                                                                 *)

\* bw.Flush writes the buffer, unless it has failed before or fails now.
Flush(b) ==
    IF buf = {} \/ err
    THEN ~b /\ UNCHANGED <<disk, buf, err, flushed, unlucky>>
    ELSE IF b \/ file # "open"
         THEN /\ err' = TRUE
              /\ unlucky' = IF b THEN unlucky \cup buf ELSE unlucky
              /\ UNCHANGED <<disk, buf, flushed>>
         ELSE /\ cur' = cur \cup buf
              /\ mtime' = now
              /\ flushed' = flushed \cup buf
              /\ buf' = {}
              /\ UNCHANGED <<exists, err, unlucky>>

\* Mutant of RotateFlush: the file is closed without a flush.
RotateFlush_skip ==
    /\ pc = "rotate"
    /\ pc' = "rename"
    /\ file' = "closed"
    /\ UNCHANGED <<now, zone, disk, backups, buf, err, size, created, ret, rnow, line,
                   at, cpc, spawned, faultVars, history>>

\* Flush, Sync, Close. The error of Flush is ignored.
RotateFlush ==
    /\ pc = "rotate"
    /\ pc' = "rename"
    /\ \E b \in BOOLEAN : Fails(b) /\ Flush(b)
    /\ file' = "closed"
    /\ UNCHANGED <<now, zone, backups, size, created, ret, rnow, line, at, cpc, spawned,
                   accepted, late, quick, unzipped, stray, expired>>

\* The backup is named by w.created, to the second: an older one is overwritten.
Rename ==
    /\ pc = "rename"
    /\ size' = 0
    /\ \E b \in BOOLEAN :
          /\ Fails(b)
          /\ IF b \/ ~exists
             THEN pc' = "open" /\ UNCHANGED <<cur, exists, log, quick>>
             ELSE /\ pc' = "create"
                  /\ log' = [log EXCEPT ![created] = cur]
                  /\ cur' = {} /\ exists' = FALSE
                  /\ quick' = IF created = rnow THEN quick \cup cur ELSE quick
    /\ UNCHANGED <<now, zone, mtime, zip, file, buf, err, created, ret, rnow, line, at,
                   cpc, spawned, accepted, flushed, late, unlucky, unzipped, stray, expired>>

\* ZipToFile: os.Create truncates.
ZipCreate ==
    /\ pc = "create"
    /\ \E b \in BOOLEAN :
          /\ Fails(b)
          /\ pc' = IF b THEN "open" ELSE "zip"
          /\ zip' = IF b THEN zip ELSE [zip EXCEPT ![created] = {}]
    /\ UNCHANGED <<now, zone, disk, log, memory, ret, rnow, line, at, cpc, spawned, history>>

\* Mutant of Zip: the backup is removed although the zip failed.
Zip_ignoreError ==
    /\ pc = "zip"
    /\ pc' = "remove"
    /\ \E b \in BOOLEAN :
          /\ Fails(b)
          /\ zip' = IF b THEN zip ELSE [zip EXCEPT ![created] = log[created]]
    /\ UNCHANGED <<now, zone, disk, log, memory, ret, rnow, line, at, cpc, spawned, history>>

\* Zip copies the backup. It reports the errors of its writes, but not that of the
\* deferred zw.Close, which writes what the zip buffers and its directory.
Zip ==
    /\ pc = "zip"
    /\ \E b \in BOOLEAN, noticed \in BOOLEAN :
          /\ Fails(b)
          /\ pc' = IF b /\ noticed THEN "open" ELSE "remove"
          /\ zip' = IF b THEN zip ELSE [zip EXCEPT ![created] = log[created]]
          /\ unzipped' = IF b /\ ~noticed THEN unzipped \cup log[created] ELSE unzipped
    /\ UNCHANGED <<now, zone, disk, log, memory, ret, rnow, line, at, cpc, spawned,
                   accepted, flushed, late, unlucky, quick, stray, expired>>

\* os.Remove of the zipped backup; its error is ignored.
RemoveLog ==
    /\ pc = "remove"
    /\ pc' = "open"
    /\ \E b \in BOOLEAN :
          /\ Fails(b)
          /\ log' = IF b THEN log ELSE [log EXCEPT ![created] = {}]
    /\ UNCHANGED <<now, zone, disk, zip, memory, ret, rnow, line, at, cpc, spawned, history>>

\* Stat and OpenFile. A reopen that fails leaves w.file and w.bw as they were: nil,
\* or closed and never reopened before the next rotation.
Open ==
    /\ pc = "open"
    /\ size' = IF exists THEN Cardinality(cur) ELSE size
    /\ created' = IF exists THEN mtime ELSE rnow
    /\ \E b \in BOOLEAN :
          /\ Fails(b)
          /\ IF b
             THEN Return /\ UNCHANGED <<file, buf, err, exists, mtime>>
             ELSE /\ pc' = ret /\ UNCHANGED <<ret, rnow>>
                  /\ file' = "open" /\ buf' = {} /\ err' = FALSE
                  /\ exists' = TRUE
                  /\ mtime' = IF exists THEN mtime ELSE now
    /\ UNCHANGED <<now, zone, cur, backups, line, at, cpc, spawned, history>>

WriteSteps ==
    \/ TestDay
    \/ TestSize
    \/ RotateFlush
    \/ Rename
    \/ ZipCreate
    \/ Zip
    \/ RemoveLog
    \/ Open

-----------------------------------------------------------------------------
(* The daemon, Close and delete.                                           *)

\* Mutant of daemon: it waits for a buffer worth writing.
daemon_lazy ==
    /\ pc = "idle"
    /\ Cardinality(buf) > 1
    /\ \E b \in BOOLEAN : Fails(b) /\ Flush(b)
    /\ UNCHANGED <<now, zone, backups, file, size, created, control, cpc, spawned, accepted,
                   late, quick, unzipped, stray, expired>>

\* flush, called every five seconds.
daemon ==
    /\ pc = "idle"
    /\ \E b \in BOOLEAN : Fails(b) /\ Flush(b)
    /\ UNCHANGED <<now, zone, backups, file, size, created, control, cpc, spawned, accepted,
                   late, quick, unzipped, stray, expired>>

\* Close is flush and, with w.mu released in between, close.
CloseFlush ==
    /\ cpc = "idle" /\ pc = "idle"
    /\ \E b \in BOOLEAN : Fails(b) /\ Flush(b)
    /\ cpc' = "flushed"
    /\ UNCHANGED <<now, zone, backups, file, size, created, control, spawned, accepted,
                   late, quick, unzipped, stray, expired>>

CloseFile ==
    /\ cpc = "flushed" /\ pc = "idle"
    /\ cpc' = "idle"
    /\ file' = "nil"
    /\ UNCHANGED <<now, zone, disk, backups, buf, err, size, created, control, spawned,
                   faultVars, history>>

\* Mutant of Cutoff: one day less is kept.
Cutoff_dayLess(t) == t - zone - (MaxAge - 1) * DayLen

\* fakeNow in UTC, while name2time takes the local time in a name for UTC.
Cutoff(t) == t - zone - MaxAge * DayLen

\* delete removes the old backups, or some of them (errors are ignored). It knows
\* the names of zip files only. A file deleted later is only older then.
delete ==
    /\ spawned
    /\ spawned' = FALSE
    /\ \E old \in SUBSET {s \in Times : s < Cutoff(now) /\ zip[s] # {}} :
          /\ MaxAge = 0 => old = {}
          /\ zip' = [s \in Times |-> IF s \in old THEN {} ELSE zip[s]]
          /\ expired' = expired \cup UNION {zip[s] : s \in old}
    /\ UNCHANGED <<now, zone, disk, log, memory, control, cpc, faultVars, accepted,
                   flushed, late, unlucky, quick, unzipped, stray>>

-----------------------------------------------------------------------------
\* Time passes where a step that reads the clock is next; elsewhere it may as well
\* pass later.
Tick ==
    /\ now < MaxTime
    /\ pc \in {"idle", "day", "rotate", "open"}
    /\ now' = now + 1
    /\ UNCHANGED <<zone, disk, backups, memory, control, cpc, spawned, faultVars, history>>

\* The process ends and starts again with a new Writer.
Crash ==
    /\ crashes < MaxCrashes
    /\ crashes' = crashes + 1
    /\ file' = "nil" /\ buf' = {} /\ err' = FALSE /\ size' = 0 /\ created' = 0
    /\ Return /\ cpc' = "idle" /\ spawned' = FALSE
    /\ unlucky' = unlucky \cup buf
    /\ UNCHANGED <<now, zone, disk, backups, line, at, faults, accepted,
                   flushed, late, quick, unzipped, stray, expired>>

Next ==
    \/ Write
    \/ WriteSteps
    \/ daemon
    \/ CloseFlush
    \/ CloseFile
    \/ delete
    \/ Tick
    \/ Crash

Spec == Init /\ [][Next]_vars

\* A Write under way goes on, and the daemon's ticker fires again and again.
FairSpec == Spec /\ WF_vars(WriteSteps) /\ WF_vars(daemon)

-----------------------------------------------------------------------------
(* Properties.                                                             *)

\* Type invariant of the writer and its files.
TypeOK ==
    /\ now \in Times /\ zone \in Zones
    /\ cur \subseteq Lines /\ exists \in BOOLEAN /\ mtime \in Times
    /\ log \in [Times -> SUBSET Lines] /\ zip \in [Times -> SUBSET Lines]
    /\ file \in {"nil", "open", "closed"}
    /\ buf \subseteq Lines /\ err \in BOOLEAN /\ size \in Nat /\ created \in Times
    /\ pc \in {"idle", "day", "size", "append", "rotate", "rename", "create", "zip",
               "remove", "open"}
    /\ ret \in {"day", "size", "append"} /\ rnow \in Times /\ line \in 0..MaxLines
    /\ at \in [Lines -> Times]
    /\ cpc \in {"idle", "flushed"} /\ spawned \in BOOLEAN
    /\ faults \in 0..MaxFaults /\ crashes \in 0..MaxCrashes
    /\ accepted \cup flushed \cup late \cup unlucky \subseteq Lines
    /\ quick \cup unzipped \cup stray \cup expired \subseteq Lines

OnDisk == cur \cup UNION {log[s] \cup zip[s] : s \in Times}

\* A line that reached a file is in a file ever after, whatever operation of a
\* rotation fails or is cut short by a crash, until delete finds its backup old
\* enough. The exceptions: a file rotated in the second its name says (the next
\* backup gets the same name), and a zip whose closing failed (Zip drops the error).
FlushedKept == flushed \subseteq OnDisk \cup expired \cup quick \cup unzipped

\* A line that Write accepted reaches a file or still is on its way: rotation and
\* Close lose no buffer. The exceptions: what a crash or a failed write caught in
\* the buffer, and lines accepted between the two halves of Close or after a
\* rotation that could not open the new file.
AcceptedKept ==
    accepted \subseteq flushed \cup (IF file = "open" \/ pc = "rotate" THEN buf ELSE {})
                               \cup unlucky \cup late

\* delete removes no line of the current day nor of the MaxAge - 1 days before (the
\* day of UTC where local time is behind: name2time takes local time for UTC). The
\* exception: lines in the file of an earlier day, which takes a failed rename.
RecentKept ==
    [][\A l \in expired' \ expired :
          Day(at[l]) + MaxAge <= Day(now - zone) \/ l \in stray]_vars

\* No accepted line stays in the buffer for ever. (The lines of a behaviour being
\* finitely many, all of them have reached a file in the end.)
LinesFlushed == []<>(accepted \subseteq flushed \cup unlucky \cup late)
=============================================================================
