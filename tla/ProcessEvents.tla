--------------------------- MODULE ProcessEvents ---------------------------
(***************************************************************************)
(* The process monitor: the driver CaptureProcessMonitor, the thread of    *)
(* ProcessMonitor, and ProcessManager with its map from process ids to     *)
(* paths, which the threads of all the monitors use without a lock.        *)
(*                                                                         *)
(*   - The driver queues every creation and termination, without a bound   *)
(*     or a time-out, and pulses an event: it sets it and clears it, so    *)
(*     only a thread that waits then is woken.                             *)
(*   - The thread waits for the event, asks for one event of the queue and *)
(*     examines it; that takes up to five looks at the map.                *)
(*   - A look that misses the map asks the system for the path.  If that   *)
(*     succeeds, the thread that looked enters the path and announces the  *)
(*     creation of the process itself, by a call of onProcessEvent from    *)
(*     inside getProcessPath: the calls nest, one frame of `stack` each.   *)
(*                                                                         *)
(* A path is a pair of a volume, under its device name or its drive        *)
(* letter, and the program.  Pool allocations succeed.  A change of the    *)
(* map is one step (two at once are undefined in C++).                     *)
(***************************************************************************)
EXTENDS Exclusions, Integers, FiniteSets

CONSTANTS
    Process,     \* processes the system may run; a process is its program
    PidOf,       \* the id of each: two processes may have it in turn
    ParentOf,    \* the id of the parent of each
    Running,     \* the processes there are when the client starts
    Hidden,      \* those of them the client may not open
    Lasting,     \* bound: the processes that do not end
    DeviceOf,    \* the device the program of each is on
    DosDevice,   \* the drive letter of the devices that have one
    ShortPaths,  \* programs whose path has at most 23 characters
    Asker,       \* the threads of the other monitors
    ProcessList, \* the lines of ProcessMonitor.exl
    Received,    \* exclusions the server may send
    MaxAsks,     \* bound on the paths the other monitors ask for
    MaxMessages  \* bound on the exclusions sent

ASSUME ProcessBounds ==
    /\ Running \subseteq Process /\ Hidden \subseteq Running
    /\ \A p, q \in Running : PidOf[p] = PidOf[q] => p = q
    /\ MaxAsks \in Nat /\ MaxMessages \in Nat
    /\ "process" \notin Asker

(* The ids of the Idle process and of System are never those of a process  *)
(* that is created, and the name of a device is no drive letter.           *)
SystemPid == 4
ASSUME PidsInUse == \A p \in Process : PidOf[p] \in Nat \ {0, SystemPid}
ASSUME Volumes ==
    /\ \A p \in Process :
          DeviceOf[p] \notin {"", "?:"} \cup {DosDevice[d] : d \in DOMAIN DosDevice}
    /\ \A d \in DOMAIN DosDevice : DosDevice[d] # ""

Thread == Asker \cup {"process"}
NoParent == -1
Pid == {PidOf[p] : p \in Process}
UNKNOWN == <<"", "UNKNOWN">>
System == <<"", "System">>

(* The map f with y at x.                                                  *)
Put(f, x, y) == [z \in DOMAIN f \cup {x} |-> IF z = x THEN y ELSE f[z]]

---------------------------------------------------------------------------
(* Paths.  A volume without a drive letter is "?:"; the path to a program  *)
(* that is short enough keeps the name of its device.                      *)

convertDevicePathToDOSDrive(device) ==
    IF device \in DOMAIN DosDevice THEN DosDevice[device] ELSE "?:"

convertFileObjectPathToDOSPath(path) ==
    IF path[1] \in {DeviceOf[p] : p \in Process} /\ path[2] \notin ShortPaths
    THEN <<convertDevicePathToDOSDrive(path[1]), path[2]>> ELSE path

GetProcessImageFileName(p) == <<DeviceOf[p], p>>
DosPath(p) == convertFileObjectPathToDOSPath(GetProcessImageFileName(p))

(* What follows the last backslash, if there is one.                       *)
ModuleName(path) == IF path \in {UNKNOWN, System} THEN "UNKNOWN" ELSE path[2]

---------------------------------------------------------------------------
VARIABLES
    life,        \* of each process: "unborn", "alive" or "dead"
    holder,      \* the last process that had each id
    occurred,    \* how many creations and terminations there have been
    queue,       \* lQueuedProcessEvents
    clearing,    \* a callback is between KeSetEvent and KeClearEvent
    signalled,   \* the state of eNewProcessEvent
    driver,      \* "loaded" or "off"
    loop,        \* where the monitor's thread is
    monitorRunning,
    tempP,       \* the last event examined
    stack,       \* the calls each thread is in, the innermost first
    processMap,
    known,       \* processMonitor of the manager: "set" or "freed"
    permissions, \* the exclusion list
    examined,    \* the numbers of the events examined
    reported,    \* what was passed on to the Analyzer
    asks, messages,
    crashed      \* undefined behaviour has ended the client

worldVars == <<life, holder, occurred>>
eventVars == <<clearing, signalled>>
driverVars == <<queue, driver>>
loopVars == <<loop, monitorRunning, tempP, examined>>
managerVars == <<processMap, known>>
listVars == <<permissions, messages>>
vars == <<worldVars, eventVars, driverVars, loopVars, managerVars, listVars,
          stack, reported, asks, crashed>>

(* initialiseProcessMap: a process that cannot be opened has the path      *)
(* "<unknown>", which for everything else is a name like another.          *)
InitialPath(p) == IF p \in Hidden THEN UNKNOWN ELSE DosPath(p)
initialiseProcessMap ==
    [i \in {PidOf[p] : p \in Running} |->
        InitialPath(CHOOSE p \in Running : PidOf[p] = i)]

(* The constructor of the Analyzer has run: it starts the thread and makes *)
(* the monitor known to the manager.                                       *)
Init ==
    /\ life = [p \in Process |-> IF p \in Running THEN "alive" ELSE "unborn"]
    /\ holder = [i \in {PidOf[p] : p \in Running} |->
                    CHOOSE p \in Running : PidOf[p] = i]
    /\ occurred = 0
    /\ queue = <<>> /\ driver = "loaded"
    /\ clearing = FALSE /\ signalled = FALSE
    /\ loop = "begin" /\ monitorRunning = FALSE /\ tempP = <<FALSE, 0, 0>> /\ examined = <<>>
    /\ stack = [t \in Thread |-> <<>>]
    /\ processMap = initialiseProcessMap /\ known = "set"
    /\ permissions = loadExclusionList(ProcessList) /\ messages = 0
    /\ reported = {} /\ asks = 0 /\ crashed = FALSE

---------------------------------------------------------------------------
(* The driver.                                                             *)

ProcessEvent(create, p) ==
    [n |-> occurred + 1, create |-> create, parent |-> ParentOf[p], pid |-> PidOf[p]]

(* The callback up to KeSetEvent.  Whoever waits is woken; whoever comes to *)
(* wait before the event is cleared goes through.  What is queued after the *)
(* monitor has gone is never read, and is left out.  Bound: one callback at *)
(* a time is between the two.                                               *)
ProcessCallback(create, p) ==
    /\ known # "freed" /\ ~clearing
    /\ occurred' = occurred + 1
    /\ queue' = Append(queue, ProcessEvent(create, p))
    /\ clearing' = TRUE /\ signalled' = TRUE
    /\ loop' = IF loop = "wait" THEN "request" ELSE loop
    /\ UNCHANGED <<driver, monitorRunning, tempP, examined, managerVars, listVars,
                   stack, reported, asks, crashed>>

CreateProcess(p) ==
    /\ life[p] = "unborn"
    /\ \A q \in Process : PidOf[q] = PidOf[p] => life[q] # "alive"
    /\ \E q \in Process : PidOf[q] = ParentOf[p] /\ life[q] = "alive"
    /\ life' = [life EXCEPT ![p] = "alive"]
    /\ holder' = Put(holder, PidOf[p], p)
    /\ ProcessCallback(TRUE, p)

ExitProcess(p) ==
    /\ life[p] = "alive" /\ p \notin Lasting
    /\ life' = [life EXCEPT ![p] = "dead"]
    /\ UNCHANGED holder
    /\ ProcessCallback(FALSE, p)

ClearNewProcessEvent ==
    /\ clearing
    /\ clearing' = FALSE /\ signalled' = FALSE
    /\ UNCHANGED <<worldVars, driverVars, loopVars, managerVars, listVars,
                   stack, reported, asks, crashed>>

(* The queue is not emptied: its packets are never freed.  PsSet... waits  *)
(* for the callbacks that run.                                             *)
UnloadDriver ==
    /\ driver = "loaded" /\ known = "freed" /\ ~clearing
    /\ driver' = "off"
    /\ UNCHANGED <<worldVars, eventVars, queue, loopVars, managerVars, listVars,
                   stack, reported, asks, crashed>>

---------------------------------------------------------------------------
(* ProcessManager.  A frame is a call of onProcessEvent, or of             *)
(* getProcessPath by another monitor (`step` is "ask").                    *)

Frame(n, create, pid, parent) ==
    [step |-> "path", n |-> n, create |-> create, pid |-> pid, parent |-> parent,
     path |-> UNKNOWN, module |-> "", parentModule |-> "", found |-> UNKNOWN]

Lookups == {"path", "module", "parentModule", "parentPath", "ask", "again", "againParent"}

Looks(t) == stack[t] # <<>> /\ Head(stack[t]).step \in Lookups
Sought(f) == IF f.step \in {"parentModule", "parentPath", "againParent"} THEN f.parent ELSE f.pid

insertProcess(pid, path) ==
    processMap' = Put(processMap, pid, convertFileObjectPathToDOSPath(path))

(* A frame that getProcessPath has returned `path` to.  The second look    *)
(* for the parent hits if the first has.                                   *)
With(f, path) ==
    CASE f.step = "path" ->
            [f EXCEPT !.path = path, !.step = IF f.create THEN "insert" ELSE "module"]
      [] f.step = "module" -> [f EXCEPT !.module = ModuleName(path), !.step = "parentModule"]
      [] f.step = "parentModule" ->
            [f EXCEPT !.parentModule = ModuleName(path),
                      !.step = IF path = UNKNOWN THEN "parentPath" ELSE "signal"]
      [] f.step = "parentPath" -> [f EXCEPT !.step = "signal"]
      [] f.step = "again" -> [f EXCEPT !.step = "againParent"]
      [] OTHER -> [f EXCEPT !.step = "done"]

\* Mutant of Returned: the path found is not forgotten.
MutReturned(s, path) ==
    LET f == With(Head(s), path)
    IN  IF f.step = "done" THEN Tail(s) ELSE <<f>> \o Tail(s)

Returned(s, path) ==
    LET f == With(Head(s), path)
    IN  IF f.step = "done" THEN Tail(s) ELSE <<[f EXCEPT !.found = UNKNOWN]>> \o Tail(s)

(* The map has it, at the first of the ten tries or later.                 *)
Hit(t) ==
    /\ Looks(t)
    /\ LET f == Head(stack[t])
           i == Sought(f)
       IN  /\ f.found = UNKNOWN
           /\ i = SystemPid \/ i \in DOMAIN processMap
           /\ stack' = [stack EXCEPT ![t] =
                           Returned(@, IF i = SystemPid THEN System ELSE processMap[i])]
    /\ UNCHANGED <<worldVars, eventVars, driverVars, loopVars, managerVars, listVars,
                   reported, asks, crashed>>

Misses(t) ==
    /\ Looks(t)
    /\ LET f == Head(stack[t]) IN f.found = UNKNOWN
    /\ LET i == Sought(Head(stack[t])) IN i # SystemPid /\ i \notin DOMAIN processMap

(* The process has gone, or cannot be opened.                              *)
OpenFails(t) ==
    /\ Misses(t)
    /\ stack' = [stack EXCEPT ![t] = Returned(@, UNKNOWN)]
    /\ UNCHANGED <<worldVars, eventVars, driverVars, loopVars, managerVars, listVars,
                   reported, asks, crashed>>

(* One that has ended can be opened as long as somebody has a handle.      *)
OpenSucceeds(t) ==
    /\ Misses(t)
    /\ LET i == Sought(Head(stack[t]))
       IN  /\ i \in DOMAIN holder
           /\ stack' = [stack EXCEPT ![t] =
                  <<[Head(@) EXCEPT !.found = GetProcessImageFileName(holder[i])]>> \o Tail(@)]
    /\ UNCHANGED <<worldVars, eventVars, driverVars, loopVars, managerVars, listVars,
                   reported, asks, crashed>>

(* From a snapshot of the processes there are.                             *)
getParentProcessId(pid) ==
    IF pid \in DOMAIN holder /\ life[holder[pid]] = "alive"
    THEN ParentOf[holder[pid]] ELSE NoParent

\* Mutant of EnterFound: the process is announced before it is entered.
MutEnterFound(t) ==
    /\ Looks(t)
    /\ Head(stack[t]).found # UNKNOWN
    /\ LET f == Head(stack[t])
           i == Sought(f)
           rest == Returned(stack[t], convertFileObjectPathToDOSPath(f.found))
       IN  stack' = [stack EXCEPT ![t] =
                        <<Frame(0, TRUE, i, getParentProcessId(i))>> \o rest]
    /\ UNCHANGED <<worldVars, eventVars, driverVars, loopVars, managerVars, listVars,
                   reported, asks, crashed>>

(* The path is entered, whatever the map has by now; then the process is   *)
(* announced by the process monitor the manager knows, freed or not.       *)
EnterFound(t) ==
    /\ Looks(t)
    /\ Head(stack[t]).found # UNKNOWN
    /\ LET f == Head(stack[t])
           i == Sought(f)
           rest == Returned(stack[t], convertFileObjectPathToDOSPath(f.found))
       IN  /\ insertProcess(i, f.found)
           /\ crashed' = (known = "freed")
           /\ stack' = [stack EXCEPT ![t] =
                  <<Frame(0, TRUE, i, getParentProcessId(i))>> \o rest]
    /\ UNCHANGED <<worldVars, eventVars, driverVars, loopVars, known, listVars,
                   reported, asks>>

(* onProcessEvent of the manager: a creation enters the path just found,   *)
(* which for an id that is in the map is the one the map has.  The look    *)
(* for the module that follows then hits.                                  *)
EnterCreated(t) ==
    /\ stack[t] # <<>> /\ Head(stack[t]).step = "insert"
    /\ LET f == Head(stack[t])
       IN  /\ insertProcess(f.pid, convertFileObjectPathToDOSPath(f.path))
           /\ stack' = [stack EXCEPT ![t] =
                  <<[f EXCEPT !.module = ModuleName(processMap'[f.pid]),
                              !.step = "parentModule"]>> \o Tail(@)]
    /\ UNCHANGED <<worldVars, eventVars, driverVars, loopVars, known, listVars,
                   reported, asks, crashed>>

(* The end of onProcessEvent of the monitor.  `n` is the number of an event *)
(* of the driver, 0 for an announcement.                                   *)
SignalProcessEvent(t) ==
    /\ stack[t] # <<>> /\ Head(stack[t]).step = "signal"
    /\ LET f == Head(stack[t])
       IN  /\ reported' =
                  IF isEventAllowed(permissions, f.module, f.parentModule, f.path[2])
                  THEN reported
                  ELSE reported \cup {[create |-> f.create, pid |-> f.pid, path |-> f.path]}
           /\ IF f.n = 0 THEN UNCHANGED <<examined, tempP>>
              ELSE /\ examined' = Append(examined, f.n)
                   /\ tempP' = <<f.create, f.parent, f.pid>>
    /\ stack' = [stack EXCEPT ![t] = Tail(@)]
    /\ crashed' = (known = "freed")
    /\ UNCHANGED <<worldVars, eventVars, driverVars, loop, monitorRunning, managerVars,
                   listVars, asks>>

(* Another monitor wants the path of the process behind one of its events. *)
Ask(t, pid) ==
    /\ t \in Asker /\ stack[t] = <<>> /\ asks < MaxAsks
    /\ stack' = [stack EXCEPT ![t] =
                    <<[Frame(0, FALSE, pid, NoParent) EXCEPT !.step = "ask"]>>]
    /\ asks' = asks + 1
    /\ UNCHANGED <<worldVars, eventVars, driverVars, loopVars, managerVars, listVars,
                   reported, crashed>>

---------------------------------------------------------------------------
(* ProcessMonitor.                                                         *)

(* The loop tests shouldStop() and monitorRunning, then it waits for the   *)
(* event, without a limit.                                                 *)
LoopTest(running) ==
    IF ~running THEN "ended" ELSE IF signalled THEN "request" ELSE "wait"

RunBegin ==
    /\ loop = "begin"
    /\ monitorRunning' = TRUE /\ loop' = LoopTest(TRUE)
    /\ crashed' = (known = "freed")
    /\ UNCHANGED <<worldVars, eventVars, driverVars, tempP, examined, managerVars,
                   listVars, stack, reported, asks>>

\* Mutant of Same: only the ids are compared.
MutSame(e) == tempP[2] = e.parent /\ tempP[3] = e.pid

Same(e) == tempP = <<e.create, e.parent, e.pid>>

(* IOCTL_CAPTURE_GET_PROCINFO gives one event.  It then pulses the event   *)
(* for the others there are, while the only thread that waits for it is    *)
(* here (nQueuedProcessEvents, which it tests, is counted without a lock). *)
(* An event equal to the last is looked up but not examined.               *)
KDispatchIoctl ==
    /\ loop = "request"
    /\ IF queue = <<>>
       THEN loop' = LoopTest(monitorRunning) /\ UNCHANGED <<queue, stack, signalled>>
       ELSE LET e == Head(queue)
                f == Frame(e.n, e.create, e.pid, e.parent)
            IN  /\ queue' = Tail(queue)
                /\ loop' = "examine"
                /\ stack' = [stack EXCEPT !["process"] =
                                <<IF Same(e) THEN [f EXCEPT !.step = "again"] ELSE f>>]
                /\ signalled' = (signalled /\ Len(queue) = 1)
    /\ UNCHANGED <<worldVars, clearing, driver, monitorRunning, tempP, examined,
                   managerVars, listVars, reported, asks, crashed>>

RunLoop ==
    /\ loop = "examine" /\ stack["process"] = <<>>
    /\ loop' = LoopTest(monitorRunning)
    /\ UNCHANGED <<worldVars, eventVars, driverVars, monitorRunning, tempP, examined,
                   managerVars, listVars, stack, reported, asks, crashed>>

(* The destructor: stop(), which does nothing before the thread runs, ends  *)
(* its wait with a time-out and terminates the thread, wherever it is,      *)
(* unless it has ended by itself.  The manager keeps its pointer.           *)
StopBegin ==
    /\ known = "set" /\ monitorRunning
    /\ monitorRunning' = FALSE
    /\ UNCHANGED <<worldVars, eventVars, driverVars, loop, tempP, examined, managerVars,
                   listVars, stack, reported, asks, crashed>>

\* Mutant of Delete: the thread is not ended.
MutDelete ==
    /\ known = "set" /\ ~monitorRunning
    /\ known' = "freed"
    /\ loop' = IF loop = "begin" THEN loop ELSE "ended"
    /\ UNCHANGED <<worldVars, eventVars, driverVars, monitorRunning, tempP, examined,
                   processMap, listVars, stack, reported, asks, crashed>>

Delete ==
    /\ known = "set" /\ ~monitorRunning
    /\ known' = "freed"
    /\ IF loop = "begin" THEN UNCHANGED <<loop, stack>>
       ELSE loop' = "ended" /\ stack' = [stack EXCEPT !["process"] = <<>>]
    /\ UNCHANGED <<worldVars, eventVars, driverVars, monitorRunning, tempP, examined,
                   processMap, listVars, reported, asks, crashed>>

onProcessExclusionReceived(x) ==
    /\ messages < MaxMessages /\ known # "freed"
    /\ messages' = messages + 1
    /\ IF Throws(x) THEN crashed' = TRUE /\ UNCHANGED permissions
       ELSE permissions' \in addExclusion(permissions, x, FALSE) /\ UNCHANGED crashed
    /\ UNCHANGED <<worldVars, eventVars, driverVars, loopVars, managerVars, stack,
                   reported, asks>>

---------------------------------------------------------------------------
World == \E p \in Process : CreateProcess(p) \/ ExitProcess(p)
Call(t) ==
    \/ Hit(t) \/ OpenFails(t) \/ OpenSucceeds(t) \/ EnterFound(t)
    \/ EnterCreated(t) \/ SignalProcessEvent(t)
Loop == RunBegin \/ KDispatchIoctl \/ RunLoop

Next ==
    /\ ~crashed
    /\ \/ World \/ ClearNewProcessEvent \/ UnloadDriver
       \/ \E t \in Thread : Call(t)
       \/ \E t \in Asker, i \in Pid : Ask(t, i)
       \/ Loop \/ StopBegin \/ Delete
       \/ \E x \in Received : onProcessExclusionReceived(x)

Spec == Init /\ [][Next]_vars

(* The callbacks of the driver and the threads of the client go on.        *)
FairSpec ==
    /\ Spec
    /\ WF_vars(~crashed /\ ClearNewProcessEvent)
    /\ WF_vars(~crashed /\ Loop)
    /\ \A t \in Thread : WF_vars(~crashed /\ Call(t))

---------------------------------------------------------------------------
TypeOK ==
    /\ life \in [Process -> {"unborn", "alive", "dead"}]
    /\ \A i \in DOMAIN holder : PidOf[holder[i]] = i /\ life[holder[i]] # "unborn"
    /\ driver \in {"loaded", "off"} /\ known \in {"set", "freed"}
    /\ loop \in {"begin", "wait", "request", "examine", "ended"}
    /\ loop = "wait" => ~signalled
    /\ stack["process"] # <<>> => loop = "examine"
    /\ \A i \in DOMAIN processMap : processMap[i] # System
    /\ {monitorRunning, clearing, signalled, crashed} \subseteq BOOLEAN
    /\ asks \in 0..MaxAsks /\ messages \in 0..MaxMessages

(* As long as there is a process monitor, every creation and termination   *)
(* the driver was told of has been examined, is in hand or is queued, in   *)
(* the order in which they took place: the queue drops nothing, and the    *)
(* comparison with tempP in run() never takes an event for a repetition.   *)
Numbers(s) == [i \in DOMAIN s |-> s[i].n]
InHand ==
    IF stack["process"] = <<>> THEN <<>>
    ELSE <<stack["process"][Len(stack["process"])].n>>
EveryEventOnce ==
    known # "freed" =>
        examined \o InHand \o Numbers(queue) = [i \in 1..occurred |-> i]

(* A report names the program of a process that has had its id, or says    *)
(* UNKNOWN, however the looks of several threads and the announcements     *)
(* inside them interleave.                                                 *)
PathOfHolder ==
    \A r \in reported :
        \/ r.path = UNKNOWN
        \/ \E p \in Process :
              PidOf[p] = r.pid /\ life[p] # "unborn" /\ r.path = DosPath(p)

(* The calls that nest inside a look at the map are of different ids, each *)
(* entered before it is announced: getProcessPath returns, whatever ids    *)
(* the system has used again for the parents it goes on to look for.       *)
NestEnds ==
    \A t \in Thread :
        LET s == stack[t]
            Nested == {i \in 1..(Len(s) - 1) : s[i].n = 0}
        IN  /\ \A i \in Nested : s[i].pid \in DOMAIN processMap
            /\ \A i, j \in Nested : s[i].pid = s[j].pid => i = j

(* CaptureProcessMonitor.c:474, "Notify that we still have process events  *)
(* queued": an event that is queued is taken from the queue, unless the    *)
(* monitor ends.                                                           *)
QueuedIsNotified ==
    \A n \in 1..(2 * Cardinality(Process)) :
        n \in {queue[i].n : i \in DOMAIN queue} /\ monitorRunning
            ~> n \notin {queue[i].n : i \in DOMAIN queue} \/ ~monitorRunning \/ crashed
=============================================================================
