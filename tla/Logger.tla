------------------------------- MODULE Logger -------------------------------
(***************************************************************************)
(* The log of the daemon, and its way to the host: lines are written to a  *)
(* file, which is rotated through numbered ones when it is full; each      *)
(* rotation starts a goroutine that uploads the file rotated last, if the  *)
(* host has asked for the log and no other upload is under way. The host   *)
(* keeps the log that was stored last.                                     *)
(*                                                                         *)
(* A line is its number; the size of a file is its number of lines. The    *)
(* mutex of the logger is held while a line is written and through the     *)
(* rotation that it causes; an upload reads the file without it.           *)
(***************************************************************************)
EXTENDS Integers, Sequences

CONSTANTS
    LogFileMaxBytes,    \* in lines
    LogFileRotateCount,
    Reporter,           \* bound: uploads at a time
    NoFile,
    MaxLines,           \* bound: lines written
    MaxLogFaults        \* bound: crashes, failed openings, late and failed uploads

ASSUME ConstantAssumption ==
    /\ LogFileMaxBytes \in Nat \ {0} /\ LogFileRotateCount \in Nat \ {0}
    /\ MaxLines \in Nat /\ MaxLogFaults \in Nat
    /\ NoFile \notin Nat \cup Seq(Nat)

VARIABLES
    written,         \* the lines logged so far
    file,            \* the current log file (0) and the rotated ones
    logFile,         \* TRUE: the logger has the current file open
    currentSize,
    rotating,        \* the file to be renamed next; NoFile: no rotation is under way
    upload,          \* the goroutines of the upload callback
    processingLogPut,
    logSubscription, \* TRUE: the host has asked for the log, and the request has not expired
    late,            \* an upload given up by the daemon that the host has not yet handled
    log,             \* the log that the host keeps
    logFaults,
    interrupted,     \* history: the rotations that a crash has cut short
    raced,           \* history: two goroutines found the flag not set, or an upload
                     \* was handled late
    unlogged         \* history: a line found no open file

loggerVars == <<written, file, logFile, currentSize, rotating, interrupted, unlogged>>
uploadVars == <<upload, processingLogPut, late, log, raced>>

logVars == <<loggerVars, uploadVars, logSubscription, logFaults>>

-----------------------------------------------------------------------------
Rotated == 1 .. LogFileRotateCount + 1

NoUpload == [pc |-> "none", data |-> NoFile]

\* openLogFile: the current file, created if there is none.
Opened(f) == IF f[0] = NoFile THEN [f EXCEPT ![0] = <<>>] ELSE f

LogInit ==
    /\ written = 0
    /\ file = Opened([i \in {0} \cup Rotated |-> NoFile])
    /\ logFile = TRUE
    /\ currentSize = 0
    /\ rotating = NoFile
    /\ upload = [u \in Reporter |-> NoUpload]
    /\ processingLogPut = FALSE
    /\ logSubscription = FALSE
    /\ late = NoFile
    /\ log = NoFile
    /\ logFaults = 0
    /\ interrupted = 0
    /\ raced = FALSE
    /\ unlogged = FALSE

-----------------------------------------------------------------------------
\* writeRecord, to a file that is open. The line that fills it starts a rotation.
WriteRecord ==
    /\ rotating = NoFile /\ logFile
    /\ written < MaxLines /\ written' = written + 1
    /\ file' = [file EXCEPT ![0] = Append(@, written + 1)]
    /\ currentSize' = currentSize + 1
    /\ rotating' = IF currentSize + 1 >= LogFileMaxBytes THEN LogFileRotateCount ELSE NoFile
    /\ UNCHANGED <<logFile, interrupted, unlogged, uploadVars, logSubscription, logFaults>>

\* writeRecord, to a file that a rotation could not open again: nothing is written and
\* currentSize stays, so that there is no further rotation and no further attempt to open it.
WriteNothing ==
    /\ rotating = NoFile /\ ~logFile
    /\ written < MaxLines /\ written' = written + 1
    /\ unlogged' = TRUE
    /\ UNCHANGED <<file, logFile, currentSize, rotating, interrupted, uploadVars, logSubscription,
                   logFaults>>

\* os.Rename of a file to the next number; without the file, nothing happens.
Rename(i) == IF file[i] = NoFile THEN file ELSE [file EXCEPT ![i + 1] = file[i], ![i] = NoFile]

\* Mutant: the files are renamed from the newest on.
RotateUpwards ==
    /\ rotating \in Rotated
    /\ file' = Rename(LogFileRotateCount + 1 - rotating)
    /\ rotating' = rotating - 1
    /\ UNCHANGED <<written, logFile, currentSize, interrupted, unlogged, uploadVars, logSubscription,
                   logFaults>>

\* doRotation, of a file that was rotated before.
RotateOlder ==
    /\ rotating \in Rotated
    /\ file' = Rename(rotating)
    /\ rotating' = rotating - 1
    /\ UNCHANGED <<written, logFile, currentSize, interrupted, unlogged, uploadVars, logSubscription,
                   logFaults>>

FreeReporters == {u \in Reporter : upload[u].pc = "none"}

\* Mutant: the size is not reset.
RotateUnreset ==
    /\ rotating = 0 /\ FreeReporters # {}
    /\ \/ file' = Opened(Rename(0)) /\ UNCHANGED <<logFile, logFaults>>
       \/ /\ file' = Rename(0) /\ logFile' = FALSE
          /\ logFaults < MaxLogFaults /\ logFaults' = logFaults + 1
    /\ rotating' = NoFile
    /\ upload' = [upload EXCEPT ![CHOOSE u \in FreeReporters : TRUE].pc = "check"]
    /\ UNCHANGED <<written, currentSize, interrupted, unlogged, processingLogPut, late, log, raced,
                   logSubscription>>

\* doRotation, of the current file: it is opened again, or cannot be, and an upload starts.
RotateCurrent ==
    /\ rotating = 0 /\ FreeReporters # {}
    /\ \/ file' = Opened(Rename(0)) /\ UNCHANGED <<logFile, logFaults>>
       \/ /\ file' = Rename(0) /\ logFile' = FALSE
          /\ logFaults < MaxLogFaults /\ logFaults' = logFaults + 1
    /\ currentSize' = 0
    /\ rotating' = NoFile
    /\ upload' = [upload EXCEPT ![CHOOSE u \in FreeReporters : TRUE].pc = "check"]
    /\ UNCHANGED <<written, interrupted, unlogged, processingLogPut, late, log, raced,
                   logSubscription>>

\* A crash at any time, also between two renames, and NewWithName of the next process.
Restart ==
    /\ logFaults < MaxLogFaults /\ logFaults' = logFaults + 1
    /\ file' = Opened(file)
    /\ logFile' = TRUE
    /\ currentSize' = Len(file'[0])
    /\ rotating' = NoFile
    /\ interrupted' = interrupted + IF rotating = NoFile THEN 0 ELSE 1
    /\ upload' = [u \in Reporter |-> NoUpload]
    /\ processingLogPut' = FALSE
    /\ logSubscription' = FALSE
    /\ UNCHANGED <<written, unlogged, late, log, raced>>

-----------------------------------------------------------------------------
\* RequestLog, and the handler of its message, updateLogSubscriptionCallback.
RequestLog ==
    /\ ~logSubscription
    /\ logSubscription' = TRUE
    /\ UNCHANGED <<loggerVars, uploadVars, logFaults>>

\* The time of the subscription has passed, five minutes after the request.
Expire ==
    /\ logSubscription
    /\ logSubscription' = FALSE
    /\ UNCHANGED <<loggerVars, uploadVars, logFaults>>

Goto(u, pc) == upload' = [upload EXCEPT ![u].pc = pc]

\* Another goroutine has found the flag not set, and has not set it.
Claiming == \E u \in Reporter : upload[u].pc = "claim"

\* Mutant: an upload under way is not looked at.
CheckNothing(u) ==
    /\ upload[u].pc = "check"
    /\ raced' = (raced \/ Claiming)
    /\ Goto(u, "claim")
    /\ UNCHANGED <<loggerVars, processingLogPut, late, log, logSubscription, logFaults>>

\* reportLogs: a second upload at a time is left out.
CheckPut(u) ==
    /\ upload[u].pc = "check"
    /\ raced' = (raced \/ Claiming)
    /\ Goto(u, IF processingLogPut THEN "none" ELSE "claim")
    /\ UNCHANGED <<loggerVars, processingLogPut, late, log, logSubscription, logFaults>>

\* reportLogs: the flag is set, without a lock, and the subscription is looked at.
Claim(u) ==
    /\ upload[u].pc = "claim"
    /\ processingLogPut' = TRUE
    /\ Goto(u, IF logSubscription THEN "read" ELSE "leave")
    /\ UNCHANGED <<loggerVars, late, log, raced, logSubscription, logFaults>>

\* Mutant: nothing is reset when the file cannot be read.
ReadOrEnd(u) ==
    /\ upload[u].pc = "read"
    /\ upload' = [upload EXCEPT ![u] =
                      IF file[1] = NoFile THEN NoUpload ELSE [pc |-> "put", data |-> file[1]]]
    /\ UNCHANGED <<loggerVars, processingLogPut, late, log, raced, logSubscription, logFaults>>

\* UploadFile: the file is read. In the middle of a rotation there may be none.
Read(u) ==
    /\ upload[u].pc = "read"
    /\ upload' = [upload EXCEPT ![u] =
                      [pc |-> IF file[1] = NoFile THEN "leave" ELSE "put", data |-> file[1]]]
    /\ UNCHANGED <<loggerVars, processingLogPut, late, log, raced, logSubscription, logFaults>>

\* UploadFile: the request. StoreLog keeps it; or it fails; or it is given up after five
\* seconds and handled later.
Put(u) ==
    /\ upload[u].pc = "put"
    /\ upload' = [upload EXCEPT ![u] = [pc |-> "leave", data |-> NoFile]]
    /\ \/ log' = upload[u].data /\ UNCHANGED <<late, logFaults>>
       \/ /\ logFaults < MaxLogFaults /\ logFaults' = logFaults + 1
          /\ late' \in {late, upload[u].data}
          /\ UNCHANGED log
    /\ UNCHANGED <<loggerVars, processingLogPut, raced, logSubscription>>

\* StoreLog, of an upload that the daemon has given up.
StoreLate ==
    /\ late # NoFile
    /\ log' = late
    /\ late' = NoFile
    /\ raced' = TRUE
    /\ UNCHANGED <<loggerVars, upload, processingLogPut, logSubscription, logFaults>>

\* reportLogs: the deferred reset.
Leave(u) ==
    /\ upload[u].pc = "leave"
    /\ upload' = [upload EXCEPT ![u] = NoUpload]
    /\ processingLogPut' = FALSE
    /\ UNCHANGED <<loggerVars, late, log, raced, logSubscription, logFaults>>

RunUpload(u) == CheckPut(u) \/ Claim(u) \/ Read(u) \/ Put(u) \/ Leave(u)

LogNext ==
    \/ WriteRecord \/ WriteNothing \/ RotateOlder \/ RotateCurrent \/ Restart
    \/ RequestLog \/ Expire \/ StoreLate
    \/ \E u \in Reporter : RunUpload(u)

LogSpec == LogInit /\ [][LogNext]_logVars

\* Goroutines run, and an upload has a timeout.
FairLogSpec == LogSpec /\ \A u \in Reporter : WF_logVars(RunUpload(u))

-----------------------------------------------------------------------------
\* The files there are.
Files == {i \in {0} \cup Rotated : file[i] # NoFile}

\* Types, and the size of the files: a file exceeds its size by a line per rotation that was
\* cut short, after which the next process finds it full and rotates it with the next line.
LogTypeOK ==
    /\ written \in 0 .. MaxLines
    /\ file \in [{0} \cup Rotated -> {NoFile} \cup Seq(1 .. MaxLines)]
    /\ \A i \in Files : Len(file[i]) <= LogFileMaxBytes + interrupted
    /\ logFile \in BOOLEAN /\ currentSize \in 0 .. LogFileMaxBytes + interrupted
    /\ logFile /\ rotating = NoFile => currentSize = Len(file[0])
    /\ rotating \in 0 .. LogFileRotateCount \cup {NoFile}
    /\ upload \in [Reporter -> [pc : {"none", "check", "claim", "read", "put", "leave"},
                                data : {NoFile} \cup Seq(1 .. MaxLines)]]
    /\ processingLogPut \in BOOLEAN /\ logSubscription \in BOOLEAN
    /\ raced \in BOOLEAN /\ unlogged \in BOOLEAN
    /\ late \in {NoFile} \cup Seq(1 .. MaxLines)
    /\ log \in {NoFile} \cup Seq(1 .. MaxLines)
    /\ logFaults \in 0 .. MaxLogFaults /\ interrupted \in 0 .. logFaults

\* The lines that the files hold.
Lines == UNION {{file[i][k] : k \in 1 .. Len(file[i])} : i \in Files}

\* A line of file i comes before every line of a newer file, and before those that follow it.
InOrder ==
    \A i, j \in Files : \A k \in 1 .. Len(file[i]), l \in 1 .. Len(file[j]) :
        i > j \/ (i = j /\ k < l) => file[i][k] < file[j][l]

\* Only the oldest lines are lost, in whatever state a crash leaves the files: the files hold
\* the latest lines in their order, without a gap unless a line found no open file. What they
\* hold then is all there was, or as many full files as are rotated, less one for each
\* rotation that was cut short, but two in any case (doRotation).
OnlyOldestLost ==
    /\ InOrder
    /\ ~unlogged =>
          \E lost \in 0 .. written :
              /\ Lines = lost + 1 .. written
              /\ lost = 0 \/ \A full \in {2, LogFileRotateCount + 1 - interrupted} :
                                 written - lost >= full * LogFileMaxBytes

LastLine(f) == f[Len(f)]

\* The host's log is replaced by a later one only: processingLogPut keeps an upload from
\* overtaking another, unless two goroutines have read it before either set it or the host
\* handles one that the daemon has given up (reportLogs, StoreLog).
LogAdvances == [][log # NoFile /\ log' # log /\ ~raced' => LastLine(log') > LastLine(log)]_logVars

\* An upload that has set processingLogPut, which keeps every other from starting, resets
\* it, however it ends (reportLogs).
UploadsEnd == processingLogPut ~> ~processingLogPut
=============================================================================
