----------------------------- MODULE FileEvents -----------------------------
(***************************************************************************)
(* The file monitor: the filter driver CaptureFileMonitor, the thread of   *)
(* FileMonitor with its exclusion list, and the two threads of the client  *)
(* that set it up: the Visitor's, at the beginning and the end of a visit, *)
(* and the receiver's, which handles options and exclusions.               *)
(*                                                                         *)
(*   - An operation has a callback before it, which names the file and     *)
(*     backs up one that is to be deleted, and one after it, which queues  *)
(*     the event.  Operations are in flight side by side.                  *)
(*   - The setup message frees and builds the name of the directory of the *)
(*     backups in several steps, which other callbacks see.                *)
(*   - The monitor's thread keeps the set of modified files, and the       *)
(*     Visitor's copies and clears it, without a lock.                     *)
(*                                                                         *)
(* The queue with its time-outs works as in RegistryEvents, where the race *)
(* of the list calls is; here a request and ConnectionChecker are one step *)
(* each.  `contact` is the age of the last request: "recent" up to         *)
(* USERSPACE_CONNECTION_TIMEOUT, "late", and "silent" when the checker     *)
(* would empty the queue.  Pool allocations succeed.                       *)
(*                                                                         *)
(* A path is a sequence: the volume, under the name of its device or its   *)
(* drive letter, the folders and the file.                                 *)
(***************************************************************************)
EXTENDS Exclusions, Integers, FiniteSets
LOCAL INSTANCE SequencesExt

CONSTANTS
    Operation,     \* Operation[n]: operations that may be the n-th
    LetterOf,      \* the drive letter of the devices that have one
    Mounted,       \* the devices there were when the monitor was made
    OwnFiles,      \* files below Capture's own directories logs and temp
    FileList,      \* the lines of FileMonitor.exl
    Received,      \* exclusions the server may send
    BufferSize,    \* events that fit in a request's buffer
    MaxOperations, \* bound on the operations
    MaxVisits,     \* bound on the visits
    MaxMessages    \* bound on the server's options and exclusions

ASSUME FileBounds == /\ BufferSize \in Nat \ {0} /\ MaxOperations \in Nat
                     /\ MaxVisits \in Nat /\ MaxMessages \in Nat
                     /\ Mounted \subseteq DOMAIN LetterOf

Callers == {"visitor", "receiver"}
EveryOperation == UNION {Operation[n] : n \in 1..MaxOperations}
EveryProcess == {o.process : o \in EveryOperation}

(* The exclusions of the constructor: whatever anybody does to the files   *)
(* of Capture's own directories.                                           *)
OwnActions == {"write", "create", "delete", "open", "read"}
Permanents ==
    {Permission(Exclusion("+", action, EveryProcess, OwnFiles), TRUE, TRUE) :
        action \in OwnActions}

---------------------------------------------------------------------------
(* Operations.                                                             *)

(* Every major function is registered with the same two callbacks; the     *)
(* ones no name is given to below are all alike.                           *)
Callbacks == {"CREATE", "READ", "WRITE", "SET_INFORMATION", "OTHER"}

(* The filter is attached to every volume but those of the network.        *)
SetupCallback(o) == ~o.network

(* The requests of the file system itself pass it.                         *)
Seen(o) == SetupCallback(o) /\ o.major \in Callbacks /\ ~o.filterOperation

(* Three ways to the name: the normalised one, the one the file was opened *)
(* with, the one in the file object.                                       *)
UNKNOWN == <<"UNKNOWN">>
NameOf(o) ==
    IF o.naming \in {"normalized", "opened", "fileobject"}
    THEN <<o.device>> \o o.folder \o <<o.file>> ELSE UNKNOWN

Deletes(o) == o.major = "SET_INFORMATION" /\ o.disposition = "delete"

(* What CopyFileIfBeingDeleted looks at before it looks at the setup.      *)
ToBackUp(o) == ~o.directory /\ Deletes(o) /\ o.synchronous

(* The major function of an event: a deletion has one of its own.          *)
EventType(o) == IF Deletes(o) THEN "DELETE" ELSE o.major

(* Where the copy of a deleted file goes: the drive without its colon, or  *)
(* the share, which is empty for a local volume without a drive letter.    *)
GetDosDeviceName(o) ==
    IF o.device \in DOMAIN LetterOf THEN <<LetterOf[o.device]>> ELSE o.share
BackupFolder(o) == <<"deleted_files">> \o GetDosDeviceName(o) \o o.folder
BackupPath(o) == BackupFolder(o) \o <<o.file>>

(* A directory is made if the one it is to be in is there; one that is     *)
(* there already is left alone.  <<>> is Capture's directory logs.         *)
CreateADirectory(existing, path) ==
    IF path = <<>> \/ Front(path) \in existing THEN existing \cup {path} ELSE existing

(* One after the other, from the one below the first of the path down.     *)
CreateAllDirectories(existing, path) ==
    existing \cup {SubSeq(path, 1, n) : n \in
        {k \in 2..Len(path) : \E m \in 1..(k - 1) : SubSeq(path, 1, m) \in existing}}

(* The client's names: it knows the letters of the volumes there were when *)
(* it was started, and leaves the rest as they are.                        *)
initialiseDosNameMap == [d \in Mounted |-> LetterOf[d]]

convertFileObjectNameToDosName(path) ==
    IF path[1] \in DOMAIN initialiseDosNameMap
    THEN <<initialiseDosNameMap[path[1]]>> \o Tail(path) ELSE path

DosNameOf(o) == convertFileObjectNameToDosName(NameOf(o))

(* When the event is examined the directory may have been deleted, and     *)
(* what is not there is no directory.                                      *)
isDirectory(o) == IF o.directory THEN BOOLEAN ELSE {FALSE}

(* The name getFileEventName gives an event, "" if it gives none.          *)
getFileEventName(o) ==
    CASE EventType(o) = "CREATE" /\ ~o.stream
            /\ o.information \in {"CREATED", "OVERWRITTEN", "SUPERSEDED"} -> "create"
      [] EventType(o) = "CREATE" /\ ~o.stream /\ o.information = "OPENED" -> "open"
      [] EventType(o) = "READ" -> "read"
      [] EventType(o) = "WRITE" -> "write"
      [] EventType(o) = "DELETE" -> "delete"
      [] OTHER -> ""

---------------------------------------------------------------------------
VARIABLES
    driver,       \* "loaded", "disconnected", "unregistered" or "off"
    contact,
    collect,      \* bCollectDeletedFiles
    logDirectory, \* "none", "empty" (allocated, not filled) or "set"
    setup,        \* where each caller of SetupMonitor is in the driver
    flying,       \* operations between their two callbacks
    queue,        \* lQueuedFileEvents
    directories,  \* logs and the directories below it, for the copies
    backups,      \* the copies in them: which deletion each is of
    thread,       \* where the monitor's thread is
    buffer,       \* events of the last request, not examined yet
    monitorModifiedFiles,
    modifiedFiles,
    permissions,  \* the exclusion list
    visitor,      \* where the Visitor's thread is in its visit
    visit,        \* the visits begun
    copied,       \* the files copied at the end of the visit
    started,      \* operations so far
    occurred,     \* operations completed
    examined,     \* the numbers of the events examined
    signalled,    \* the files whose events were passed on to the Analyzer
    added,        \* exclusions of the server added so far
    messages,     \* messages of the server so far
    deletions,    \* operations backed up since the directory was deleted
    period,       \* how often the modified files have been cleared
    tested,       \* the period of the thread's look at monitorModifiedFiles
    crashed       \* undefined behaviour has ended the client or the machine

driverVars == <<driver, contact, collect, logDirectory, setup, flying, queue, directories, backups>>
threadVars == <<thread, buffer, modifiedFiles>>
visitVars == <<monitorModifiedFiles, visitor, visit, copied>>
listVars == <<permissions, added, messages>>
historyVars == <<started, occurred, examined, signalled, deletions, period, tested>>
vars == <<driverVars, threadVars, visitVars, listVars, historyVars, crashed>>

TypeOK ==
    /\ driver \in {"loaded", "disconnected", "unregistered", "off"}
    /\ contact \in {"recent", "late", "silent"}
    /\ collect \in BOOLEAN /\ monitorModifiedFiles \in BOOLEAN /\ crashed \in BOOLEAN
    /\ logDirectory \in {"none", "empty", "set"}
    /\ setup \in [Callers -> {"idle", "allocate", "fill"}]
    /\ \A f \in flying : f.id \in 1..started /\ f.stage \in {"backup", "passed"}
    /\ DOMAIN backups = {BackupPath(deletions[i].op) : i \in DOMAIN deletions}
    /\ \A i \in DOMAIN deletions : BackupFolder(deletions[i].op) \in directories
    /\ thread \in {"off", "poll", "examine", "modify"}
    /\ thread \in {"examine", "modify"} => buffer # <<>>
    /\ Len(buffer) <= BufferSize
    /\ visitor \in {"idle", "visiting", "copy", "clear"}
    /\ visit \in 0..MaxVisits /\ messages \in 0..MaxMessages
    /\ started \in 0..MaxOperations /\ occurred \in 0..started
    /\ {p \in permissions : p.permanent} = Permanents

Init ==
    /\ driver = "loaded" /\ contact = "recent" /\ collect = FALSE
    /\ logDirectory = "none" /\ setup = [c \in Callers |-> "idle"]
    /\ flying = {} /\ queue = <<>> /\ directories = {<<>>} /\ backups = <<>>
    /\ thread = "poll" /\ buffer = <<>> /\ modifiedFiles = {}
    /\ monitorModifiedFiles = FALSE /\ visitor = "idle" /\ visit = 0 /\ copied = {}
    /\ permissions = loadExclusionList(FileList) \cup Permanents
    /\ started = 0 /\ occurred = 0 /\ examined = <<>> /\ signalled = {}
    /\ added = {} /\ messages = 0 /\ period = 0 /\ tested = 0 /\ deletions = <<>> /\ crashed = FALSE

---------------------------------------------------------------------------
(* The driver's callbacks. *)

Filtering == ~crashed /\ driver \in {"loaded", "disconnected"}

(* Before the operation.  A file to be deleted is backed up only with the  *)
(* normalised name: with the other one CopyFileIfBeingDeleted is given a   *)
(* pointer nobody has set.                                                 *)
PreFileOperationCallback(o) ==
    /\ Filtering /\ Seen(o)
    /\ started' = started + 1
    /\ LET backsUp == ToBackUp(o) /\ o.naming = "normalized" /\ collect IN
         flying' = flying \cup
             {[id |-> started + 1, op |-> o,
               stage |-> IF backsUp THEN "backup" ELSE "passed"]}
    /\ IF ToBackUp(o) /\ o.naming = "opened" THEN crashed' \in BOOLEAN ELSE UNCHANGED crashed
    /\ UNCHANGED <<driver, contact, collect, logDirectory, setup, queue, directories, backups>>
    /\ UNCHANGED <<threadVars, visitVars, listVars>>
    /\ UNCHANGED <<occurred, examined, signalled, deletions, period, tested>>

(* The map f with y at x.                                                  *)
Put(f, x, y) == [z \in DOMAIN f \cup {x} |-> IF z = x THEN y ELSE f[z]]

\* Mutants of CopyFile.
MutCopyFile(f) ==
    /\ backups' = Put(backups, BackupPath(f.op), f.id)
    /\ deletions' = Append(deletions, f)

(* A file that is there already is left as it is and counts as a success;  *)
(* without its directory none is created.                                  *)
CopyFile(f) ==
    IF BackupFolder(f.op) \in directories'
    THEN /\ backups' = IF BackupPath(f.op) \in DOMAIN backups THEN backups
                       ELSE Put(backups, BackupPath(f.op), f.id)
         /\ deletions' = Append(deletions, f)
    ELSE UNCHANGED <<backups, deletions>>

(* The rest of CopyFileIfBeingDeleted, with the directory as it is now.    *)
(* One that is being filled gives a path that cannot be created; one that  *)
(* has been freed is read all the same.                                    *)
BackUp(f) ==
    /\ Filtering /\ f.stage = "backup"
    /\ flying' = (flying \ {f}) \cup {[f EXCEPT !.stage = "passed"]}
    /\ \/ /\ logDirectory = "set"
          /\ directories' = CreateAllDirectories(directories, BackupFolder(f.op))
          /\ CopyFile(f) /\ UNCHANGED crashed
       \/ /\ logDirectory = "empty"
          /\ UNCHANGED <<directories, backups, deletions, crashed>>
       \/ /\ logDirectory = "none"
          /\ crashed' \in BOOLEAN /\ UNCHANGED <<directories, backups, deletions>>
    /\ UNCHANGED <<driver, contact, collect, logDirectory, setup, queue>>
    /\ UNCHANGED <<threadVars, visitVars, listVars>>
    /\ UNCHANGED <<started, occurred, examined, signalled, period, tested>>

(* What the event says of the operation is filled in by both callbacks.    *)
FileEvent(f) == [number |-> occurred + 1, op |-> f.op]

\* Mutants of QueueFileEvent.
MutQueueFileEvent(f) ==
    queue' = IF contact = "recent" THEN <<FileEvent(f)>> \o queue ELSE queue

QueueFileEvent(f) ==
    queue' = IF contact = "recent" THEN Append(queue, FileEvent(f)) ELSE queue

(* After the operation.                                                    *)
PostFileOperationCallback(f) ==
    /\ Filtering /\ f.stage = "passed"
    /\ flying' = flying \ {f}
    /\ occurred' = occurred + 1
    /\ QueueFileEvent(f)
    /\ UNCHANGED <<driver, contact, collect, logDirectory, setup, directories, backups>>
    /\ UNCHANGED <<threadVars, visitVars, listVars, crashed>>
    /\ UNCHANGED <<started, examined, signalled, deletions, period, tested>>

Age ==
    /\ Filtering /\ contact # "silent"
    /\ contact' = IF contact = "recent" THEN "late" ELSE "silent"
    /\ UNCHANGED <<driver, collect, logDirectory, setup, flying, queue, directories, backups>>
    /\ UNCHANGED <<threadVars, visitVars, listVars, historyVars, crashed>>

\* Mutants of FreeQueuedEvents.
MutFreeQueuedEvents == UNCHANGED queue

FreeQueuedEvents == queue' = <<>>

ConnectionChecker ==
    /\ Filtering /\ contact = "silent" /\ queue # <<>>
    /\ FreeQueuedEvents
    /\ UNCHANGED <<driver, contact, collect, logDirectory, setup, flying, directories, backups>>
    /\ UNCHANGED <<threadVars, visitVars, listVars, historyVars, crashed>>

---------------------------------------------------------------------------
(* setMonitorModifiedFiles, called by c, makes the directory of the copies *)
(* in `existing` and sends SetupMonitor: off is one step, on is three.     *)

SetupOff ==
    /\ collect' = FALSE /\ logDirectory' = "none"
    /\ UNCHANGED setup

SetupFree(c) ==
    /\ setup[c] = "idle"
    /\ logDirectory' = "none" /\ setup' = [setup EXCEPT ![c] = "allocate"]
    /\ UNCHANGED collect

setMonitorModifiedFiles(c, monitor, existing) ==
    /\ monitorModifiedFiles' = monitor
    /\ directories' = CreateADirectory(existing, <<"deleted_files">>)
    /\ IF monitor THEN SetupFree(c) ELSE SetupOff

SetupAllocate(c) ==
    /\ Filtering /\ setup[c] = "allocate"
    /\ logDirectory' = "empty" /\ collect' = TRUE
    /\ setup' = [setup EXCEPT ![c] = "fill"]
    /\ UNCHANGED <<driver, contact, flying, queue, directories, backups>>
    /\ UNCHANGED <<threadVars, visitVars, listVars, historyVars, crashed>>

(* Another caller may have freed what this one is filling.                 *)
SetupFill(c) ==
    /\ Filtering /\ setup[c] = "fill"
    /\ IF logDirectory = "none" THEN crashed' \in BOOLEAN ELSE UNCHANGED crashed
    /\ logDirectory' = IF logDirectory = "none" THEN "none" ELSE "set"
    /\ setup' = [setup EXCEPT ![c] = "idle"]
    /\ UNCHANGED <<driver, contact, collect, flying, queue, directories, backups>>
    /\ UNCHANGED <<threadVars, visitVars, listVars, historyVars>>

---------------------------------------------------------------------------
(* The monitor's thread. *)

(* MessageCallback with GetFileEvents: as many events as fit.              *)
GetFileEvents ==
    /\ ~crashed /\ driver = "loaded" /\ thread = "poll"
    /\ contact' = "recent"
    /\ LET n == IF Len(queue) <= BufferSize THEN Len(queue) ELSE BufferSize IN
         /\ buffer' = SubSeq(queue, 1, n)
         /\ queue' = SubSeq(queue, n + 1, Len(queue))
         /\ thread' = IF n = 0 THEN "poll" ELSE "examine"
    /\ UNCHANGED <<driver, collect, logDirectory, setup, flying, directories, backups, modifiedFiles>>
    /\ UNCHANGED <<visitVars, listVars, historyVars, crashed>>

\* Mutants of Advance.
MutAdvance == buffer' = Tail(buffer) /\ thread' = "examine"

Advance ==
    /\ buffer' = Tail(buffer)
    /\ thread' = IF buffer' = <<>> THEN "poll" ELSE "examine"

Reported(o) ==
    /\ getFileEventName(o) # "" /\ DosNameOf(o) # UNKNOWN
    /\ ~isEventAllowed(permissions, getFileEventName(o), o.process, DosNameOf(o))
Modifying(o) == EventType(o) \in {"CREATE", "WRITE", "DELETE"}

(* The last thing done with an event: whoever listens is told.             *)
Signal(o) == signalled' = signalled \cup {DosNameOf(o)} /\ Advance

(* One event: its name, the exclusion list, and whether it modifies a      *)
(* file the Visitor wants to have.                                         *)
Examine ==
    /\ ~crashed /\ thread = "examine"
    /\ LET e == Head(buffer) IN
         /\ examined' = Append(examined, e.number)
         /\ \/ /\ ~Reported(e.op)
               /\ Advance /\ UNCHANGED <<signalled, tested>>
            \/ \E directory \in isDirectory(e.op) :
               /\ Reported(e.op)
               /\ IF monitorModifiedFiles /\ ~directory /\ Modifying(e.op)
                  THEN thread' = "modify" /\ tested' = period /\ UNCHANGED <<buffer, signalled>>
                  ELSE Signal(e.op) /\ UNCHANGED tested
    /\ UNCHANGED <<driverVars, visitVars, listVars, modifiedFiles, crashed>>
    /\ UNCHANGED <<started, occurred, deletions, period>>

(* The file is inserted or erased; the Visitor may be in the set as well.  *)
Modify ==
    /\ ~crashed /\ thread = "modify"
    /\ LET o == Head(buffer).op
           others == {m \in modifiedFiles : m.name # DosNameOf(o)}
       IN  /\ modifiedFiles' =
                  CASE EventType(o) = "DELETE" -> others
                    [] EventType(o) # "DELETE" /\ others # modifiedFiles -> modifiedFiles
                    [] OTHER -> others \cup {[name |-> DosNameOf(o), tested |-> tested]}
           /\ Signal(o)
    /\ IF visitor = "clear" THEN crashed' \in BOOLEAN ELSE UNCHANGED crashed
    /\ UNCHANGED <<driverVars, visitVars, listVars>>
    /\ UNCHANGED <<started, occurred, examined, deletions, period, tested>>

---------------------------------------------------------------------------
(* The Visitor's thread, with the option collect-modified-files set. *)

(* Analyzer::start.                                                        *)
StartVisit ==
    /\ ~crashed /\ driver = "loaded" /\ visitor = "idle" /\ visit < MaxVisits
    /\ setMonitorModifiedFiles("visitor", TRUE, CreateADirectory(directories, <<>>))
    /\ visitor' = "visiting" /\ visit' = visit + 1 /\ copied' = {}
    /\ UNCHANGED <<driver, contact, flying, queue, backups>>
    /\ UNCHANGED <<threadVars, listVars, historyVars, crashed>>

(* Analyzer::stop: no more files are collected, those that were are copied *)
(* and forgotten, and the directory logs goes with its backups.            *)
StopVisit ==
    /\ ~crashed /\ driver = "loaded" /\ visitor = "visiting" /\ setup["visitor"] = "idle"
    /\ setMonitorModifiedFiles("visitor", FALSE, directories)
    /\ visitor' = "copy"
    /\ UNCHANGED <<driver, contact, flying, queue, backups, visit, copied>>
    /\ UNCHANGED <<threadVars, listVars, historyVars, crashed>>

copyCreatedFiles ==
    /\ ~crashed /\ driver = "loaded" /\ visitor = "copy"
    /\ copied' = modifiedFiles /\ visitor' = "clear"
    /\ UNCHANGED <<driverVars, threadVars, monitorModifiedFiles, visit>>
    /\ UNCHANGED <<listVars, historyVars, crashed>>

\* Mutants of Forget.
MutForget == UNCHANGED modifiedFiles

Forget == modifiedFiles' = {}

ClearCreatedFiles ==
    /\ ~crashed /\ driver = "loaded" /\ visitor = "clear"
    /\ Forget /\ visitor' = "idle" /\ period' = period + 1
    /\ directories' = {} /\ backups' = <<>> /\ deletions' = <<>>
    /\ UNCHANGED <<driver, contact, collect, logDirectory, setup, flying, queue>>
    /\ UNCHANGED <<thread, buffer, monitorModifiedFiles, visit, copied, listVars>>
    /\ UNCHANGED <<started, occurred, examined, signalled, tested, crashed>>

(* The receiver's thread. *)

(* Analyzer::onOptionChanged: the option is set once more.                 *)
OptionReceived ==
    /\ ~crashed /\ driver = "loaded" /\ messages < MaxMessages
    /\ messages' = messages + 1
    /\ setMonitorModifiedFiles("receiver", TRUE, directories)
    /\ UNCHANGED <<driver, contact, flying, queue, backups, visitor, visit, copied>>
    /\ UNCHANGED <<threadVars, permissions, added, historyVars, crashed>>

(* An expression that does not compile is thrown through the receiver.     *)
onFileExclusionReceived(x) ==
    /\ ~crashed /\ driver = "loaded" /\ messages < MaxMessages
    /\ setup["receiver"] = "idle"
    /\ messages' = messages + 1
    /\ IF Throws(x)
       THEN crashed' = TRUE /\ UNCHANGED <<permissions, added>>
       ELSE /\ permissions' \in addExclusion(permissions, x, FALSE)
            /\ added' = added \cup {x} /\ UNCHANGED crashed
    /\ UNCHANGED <<driverVars, threadVars, visitVars, historyVars>>

(* The option send-exclusion-lists.                                        *)
ListCleared ==
    /\ ~crashed /\ driver = "loaded" /\ messages < MaxMessages
    /\ setup["receiver"] = "idle"
    /\ messages' = messages + 1
    /\ permissions' = clearExclusionList(permissions)
    /\ IF IteratesFreed(permissions) THEN crashed' \in BOOLEAN ELSE UNCHANGED crashed
    /\ UNCHANGED <<driverVars, threadVars, visitVars, added, historyVars>>

---------------------------------------------------------------------------
(* The end of the client, in whatever it is doing: its port is closed, and *)
(* the filter is unloaded, by the destructor or by the next client.        *)

DisconnectCallback ==
    /\ ~crashed /\ driver = "loaded"
    /\ \A c \in Callers : setup[c] = "idle"
    /\ FreeQueuedEvents /\ logDirectory' = "none" /\ collect' = FALSE
    /\ driver' = "disconnected" /\ thread' = "off" /\ buffer' = <<>>
    /\ UNCHANGED <<contact, setup, flying, directories, backups, modifiedFiles>>
    /\ UNCHANGED <<visitVars, listVars, historyVars, crashed>>

(* FltUnregisterFilter waits for callbacks that are running, and drains    *)
(* the operations in flight: their events are freed.                       *)
Unregister ==
    /\ ~crashed /\ driver = "disconnected"
    /\ \A f \in flying : f.stage = "passed"
    /\ driver' = "unregistered" /\ flying' = {}
    /\ UNCHANGED <<contact, collect, logDirectory, setup, queue, directories, backups>>
    /\ UNCHANGED <<threadVars, visitVars, listVars, historyVars, crashed>>

FilterUnload ==
    /\ ~crashed /\ driver = "unregistered"
    /\ FreeQueuedEvents /\ logDirectory' = "none" /\ collect' = FALSE
    /\ driver' = "off"
    /\ UNCHANGED <<contact, setup, flying, directories, backups>>
    /\ UNCHANGED <<threadVars, visitVars, listVars, historyVars, crashed>>

---------------------------------------------------------------------------
Callback ==
    \/ started < MaxOperations /\ \E o \in Operation[started + 1] : PreFileOperationCallback(o)
    \/ \E f \in flying : BackUp(f) \/ PostFileOperationCallback(f)
Setup == \E c \in Callers : SetupAllocate(c) \/ SetupFill(c)
Thread == GetFileEvents \/ Examine \/ Modify
Visitor == StartVisit \/ StopVisit \/ copyCreatedFiles \/ ClearCreatedFiles
Receiver ==
    OptionReceived \/ ListCleared \/ \E x \in Received : onFileExclusionReceived(x)
End == DisconnectCallback \/ Unregister \/ FilterUnload

Next == Callback \/ Age \/ ConnectionChecker \/ Setup \/ Thread \/ Visitor \/ Receiver \/ End

Spec == Init /\ [][Next]_vars

---------------------------------------------------------------------------
(* The events are examined in the order in which their operations ended,   *)
(* at most once, however long each was in flight.                          *)
Stream == INSTANCE EventStream WITH delivered <- examined
ImplementsStream == Stream!Spec

(* When the filter is gone nothing of it is left in the pool: operations   *)
(* may end and queue their events after the client has disconnected, and   *)
(* FilterUnload frees them too.                                            *)
NothingLeft == driver = "off" => queue = <<>> /\ flying = {}

(* Of the files copied at the end of a visit at most one was examined      *)
(* before the modified files were last cleared: the monitor's thread may   *)
(* be between its look at monitorModifiedFiles and its insertion, while    *)
(* the Visitor's copies and clears the set.                                *)
LateIsOne ==
    visitor = "clear" => Cardinality({m \in copied : m.tested < period}) <= 1

(* What happens to Capture's own files, the copies the driver makes        *)
(* included, is passed on to the Analyzer, and so counts against the       *)
(* visited page, only if the server has sent an exclusion that may         *)
(* disallow it, or the list of the client has one; clearExclusionList      *)
(* keeps the ones the constructor added.                                   *)
OwnFilesAreSilent ==
    \A name \in signalled \cap OwnFiles :
        \E x \in added \cup {line \in FileList : Loads(line)} :
            FALSE \in Allow(x.excluded) /\ name \in x.object

(* The copy of a deleted file is that of the first deletion under its path *)
(* since the directory was deleted: a file may be written anew and deleted *)
(* again, on this drive or on another one without a drive letter.          *)
BackupIsFirst ==
    \A i \in DOMAIN deletions :
        (\A j \in 1..(i - 1) : BackupPath(deletions[j].op) # BackupPath(deletions[i].op))
            => backups[BackupPath(deletions[i].op)] = deletions[i].id

(* What the driver leaves behind is right: of its queue nothing, of the     *)
(* deleted files the first copy under each path.                            *)
WhatDriverLeaves == NothingLeft /\ BackupIsFirst
=============================================================================
