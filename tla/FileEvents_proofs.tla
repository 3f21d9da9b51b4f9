-------------------------- MODULE FileEvents_proofs --------------------------
(***************************************************************************)
(* Proofs about FileEvents, for every choice of operations, volumes and    *)
(* exclusions and every size of a request's buffer: all its properties.    *)
(*                                                                         *)
(* Order says that the examined events, the buffer and the queue hold the  *)
(* events in the order in which their operations ended, and gives the      *)
(* refinement of EventStream.  Periods bounds what the monitor's thread    *)
(* can bring into the set of modified files after the Visitor has cleared  *)
(* it, Copies relates the copies to the deletions they are of, and Listed  *)
(* traces whatever disallows something to the exclusion it comes from.     *)
(***************************************************************************)
EXTENDS FileEvents, SequenceTheorems, FiniteSetTheorems, TLAPS

Event == [number : Nat, op : EveryOperation]
Flight == [id : Nat, op : EveryOperation, stage : {"backup", "passed"}]

Shape ==
    /\ queue \in Seq(Event) /\ buffer \in Seq(Event) /\ examined \in Seq(Nat)
    /\ flying \subseteq Flight /\ deletions \in Seq(Flight)
    /\ period \in Nat /\ tested \in 0..period

(* An operation ends once: those that have, and those in flight, have begun. *)
Counted == IsFiniteSet(flying) /\ occurred + Cardinality(flying) <= started

(* The driver is empty before it is gone.                                   *)
Drained ==
    /\ driver \in {"unregistered", "off"} => flying = {}
    /\ driver = "off" => queue = <<>>

Increasing(s) == \A i, j \in DOMAIN s : i < j => s[i].number < s[j].number
Before(s, t) == \A i \in DOMAIN s, j \in DOMAIN t : s[i].number < t[j].number
UpTo(s, n) == \A i \in DOMAIN s : s[i].number <= n
Above(s, n) == \A i \in DOMAIN s : n < s[i].number

(* The number of the event examined last.                                   *)
Last == IF examined = <<>> THEN 0 ELSE examined[Len(examined)]

(* The places hold the events in order; the one whose file is being entered *)
(* has been examined and is still in the buffer.                            *)
Order ==
    /\ Increasing(buffer) /\ Increasing(queue) /\ Before(buffer, queue)
    /\ UpTo(buffer, occurred) /\ UpTo(queue, occurred) /\ Last \in 0..occurred
    /\ Above(queue, Last)
    /\ IF thread = "modify" THEN Head(buffer).number = Last ELSE Above(buffer, Last)
    /\ thread \in {"off", "poll"} => buffer = <<>>

(* Of the files m of S at most one was examined before the last clearing.   *)
OneOf(S, now) == \A m, n \in S : m.tested < now /\ n.tested < now => m = n

(* The thread brings at most one file with an old look into a new period:   *)
(* before it does there is none.                                            *)
Periods ==
    /\ OneOf(modifiedFiles, period)
    /\ thread = "modify" /\ tested < period => \A m \in modifiedFiles : ~(m.tested < period)
    /\ visitor = "clear" => OneOf(copied, period)

(* There is a copy under each path something was deleted from, in a         *)
(* directory that is there.                                                 *)
Copies ==
    /\ DOMAIN backups = {BackupPath(deletions[i].op) : i \in DOMAIN deletions}
    /\ \A i \in DOMAIN deletions : BackupFolder(deletions[i].op) \in directories
    /\ BackupIsFirst

(* An exclusion that may disallow what is done to the file.                 *)
Sources == added \cup {line \in FileList : Loads(line)}
Justified(name) ==
    \E x \in Sources : FALSE \in Allow(x.excluded) /\ name \in x.object

(* A permission that disallows something comes from an exclusion that may,  *)
(* and one of Capture's own files has got past the list only by such a one. *)
Listed ==
    /\ {p \in permissions : p.permanent} = Permanents
    /\ \A p \in permissions :
          ~p.allow => \E x \in Sources : FALSE \in Allow(x.excluded) /\ p.object = x.object
    /\ \A name \in OwnFiles :
          thread = "modify" /\ name = DosNameOf(Head(buffer).op) => Justified(name)
    /\ OwnFilesAreSilent

IInv == TypeOK /\ Shape /\ Counted /\ Drained /\ Order /\ Periods /\ Copies /\ Listed
-----------------------------------------------------------------------------
(* What the list calls of the driver do to a sequence.                      *)
LEMMA Appended ==
    ASSUME NEW S, NEW s \in Seq(S), NEW e \in S, NEW t, t = Append(s, e)
    PROVE  /\ t \in Seq(S) /\ Len(s) \in Nat
           /\ DOMAIN s = 1..Len(s) /\ DOMAIN t = 1..(Len(s) + 1)
           /\ \A i \in 1..Len(s) : t[i] = s[i]
           /\ t[Len(s) + 1] = e /\ Len(t) = Len(s) + 1 /\ t # <<>>
BY LenProperties, AppendProperties

LEMMA NonEmpty ==
    ASSUME NEW S, NEW s \in Seq(S), s # <<>>
    PROVE  /\ Len(s) \in Nat /\ Len(s) > 0 /\ DOMAIN s = 1..Len(s)
           /\ Head(s) = s[1] /\ 1 \in DOMAIN s /\ Head(s) \in S
BY LenProperties, HeadTailProperties, EmptySeq

LEMMA Rest ==
    ASSUME NEW S, NEW s \in Seq(S), s # <<>>, NEW t, t = Tail(s)
    PROVE  /\ t \in Seq(S) /\ Len(t) = Len(s) - 1
           /\ DOMAIN t = 1..(Len(s) - 1)
           /\ \A i \in DOMAIN t : i \in Nat /\ i + 1 \in DOMAIN s /\ t[i] = s[i + 1]
<1>1. /\ t \in Seq(S) /\ Len(t) = Len(s) - 1
      /\ \A i \in 1..Len(t) : t[i] = s[i + 1]
  BY HeadTailProperties
<1>2. Len(s) \in Nat /\ DOMAIN s = 1..Len(s) /\ DOMAIN t = 1..Len(t)
  BY <1>1, LenProperties
<1> QED BY <1>1, <1>2

LEMMA Nothing ==
    ASSUME NEW S
    PROVE  <<>> \in Seq(S) /\ Len(<<>>) = 0 /\ DOMAIN <<>> = {}
OBVIOUS

(* The two parts GetFileEvents makes of the queue.                          *)
LEMMA Part ==
    ASSUME NEW S, NEW s \in Seq(S), NEW m \in Nat, NEW n \in Nat, m <= n, n <= Len(s),
           NEW a, a = SubSeq(s, m + 1, n)
    PROVE  /\ a \in Seq(S) /\ Len(a) = n - m /\ DOMAIN a = 1..(n - m)
           /\ \A i \in DOMAIN a :
                 i \in Nat /\ i > 0 /\ i <= n - m /\ i + m \in DOMAIN s /\ a[i] = s[i + m]
<1>1. Len(s) \in Nat /\ DOMAIN s = 1..Len(s) /\ \A i \in 1..Len(s) : s[i] \in S
  BY LenProperties, ElementOfSeq
<1>2. m + 1 \in Int /\ n \in Int /\ \A i \in (m + 1)..n : s[i] \in S
  BY <1>1
<1>3. /\ a \in Seq(S)
      /\ Len(a) = IF m + 1 <= n THEN n - (m + 1) + 1 ELSE 0
      /\ \A i \in 1..(n - (m + 1) + 1) : a[i] = s[(m + 1) + i - 1]
  BY <1>2, SubSeqProperties
<1>4. DOMAIN a = 1..Len(a)
  BY <1>3, LenProperties
<1>5. Len(a) = n - m
  <2> DEFINE l == Len(a)
  <2>1. l = IF m + 1 <= n THEN n - (m + 1) + 1 ELSE 0
    BY <1>3
  <2> HIDE DEF l
  <2>2. l = n - m
    BY <2>1
  <2> QED BY <2>2 DEF l
<1>6. ASSUME NEW i \in 1..(n - m)
      PROVE  i \in Nat /\ i > 0 /\ i <= n - m /\ i + m \in DOMAIN s /\ a[i] = s[i + m]
  <2>1. i \in 1..(n - (m + 1) + 1) /\ (m + 1) + i - 1 = i + m
    OBVIOUS
  <2>2. a[i] = s[i + m]
    BY <1>3, <2>1
  <2>3. i \in Nat /\ i > 0 /\ i <= n - m /\ i + m \in 1..Len(s)
    BY <1>1
  <2> QED BY <1>1, <2>2, <2>3
<1> QED BY <1>3, <1>4, <1>5, <1>6

-----------------------------------------------------------------------------
LEMMA InitInvariant == Init => IInv
<1> SUFFICES ASSUME Init PROVE IInv
  OBVIOUS
<1> USE FileBounds
<1>1. {p \in permissions : p.permanent} = Permanents
  <2>1. \A p \in Permanents : p.permanent
    BY DEF Permanents, Permission
  <2>2. \A p \in loadExclusionList(FileList) : ~p.permanent
    BY DEF loadExclusionList, Permission
  <2> QED BY <2>1, <2>2 DEF Init
<1>2. DOMAIN <<>> = {} /\ Len(<<>>) = 0
  BY Nothing
<1>3. setup \in [Callers -> {"idle", "allocate", "fill"}]
  BY DEF Init
<1>4. DOMAIN backups = {BackupPath(deletions[i].op) : i \in DOMAIN deletions}
  BY <1>2 DEF Init
<1>5. TypeOK
  <2>1. collect \in BOOLEAN /\ monitorModifiedFiles \in BOOLEAN /\ crashed \in BOOLEAN
    BY DEF Init
  <2>2. /\ \A f \in flying : f.id \in 1..started /\ f.stage \in {"backup", "passed"}
        /\ \A i \in DOMAIN deletions : BackupFolder(deletions[i].op) \in directories
    BY <1>2 DEF Init
  <2>3. /\ Len(buffer) <= BufferSize /\ visit \in 0..MaxVisits /\ messages \in 0..MaxMessages
        /\ started \in 0..MaxOperations /\ occurred \in 0..started
    BY <1>2 DEF Init
  <2> QED BY <1>1, <1>3, <1>4, <2>1, <2>2, <2>3 DEF Init, TypeOK
<1>6. Shape
  BY Nothing DEF Init, Shape
<1>7. Counted
  BY FS_EmptySet DEF Init, Counted
<1>8. Drained /\ Periods
  BY DEF Init, Drained, Periods, OneOf
<1>9. Order
  BY <1>2 DEF Init, Order, Last, Increasing, Before, UpTo, Above
<1>10. Copies
  BY <1>2, <1>4 DEF Init, Copies, BackupIsFirst
<1>11. Listed
  <2>1. ASSUME NEW p \in permissions, ~p.allow
        PROVE  \E x \in Sources : FALSE \in Allow(x.excluded) /\ p.object = x.object
    <3>1. p \in loadExclusionList(FileList)
      BY <2>1 DEF Init, Permanents, Permission
    <3>2. PICK x \in {l \in FileList : Loads(l)} :
             p = Permission(x, x.excluded = "+", FALSE)
      BY <3>1 DEF loadExclusionList
    <3>3. p.object = x.object /\ x.excluded = "-"
      BY <2>1, <3>2 DEF Permission, Loads
    <3> QED BY <3>2, <3>3 DEF Sources, Allow
  <2>2. OwnFilesAreSilent /\ thread = "poll"
    BY DEF Init, OwnFilesAreSilent
  <2> QED BY <1>1, <2>1, <2>2 DEF Listed
<1> QED BY <1>5, <1>6, <1>7, <1>8, <1>9, <1>10, <1>11 DEF IInv

(* Who may change what.                                                    *)
LEMMA Writers ==
    ASSUME [Next]_vars
    PROVE  /\ \/ queue' = queue \/ (\E f \in flying : PostFileOperationCallback(f))
              \/ ConnectionChecker \/ GetFileEvents \/ DisconnectCallback
              \/ FilterUnload
           /\ \/ UNCHANGED <<thread, buffer>> \/ GetFileEvents \/ Examine \/ Modify
              \/ DisconnectCallback
           /\ \/ UNCHANGED <<examined, tested, signalled>> \/ Examine \/ Modify
           /\ \/ period' = period \/ ClearCreatedFiles
           /\ \/ modifiedFiles' = modifiedFiles \/ Modify \/ ClearCreatedFiles
           /\ \/ UNCHANGED <<visitor, copied>> \/ StartVisit \/ StopVisit
              \/ copyCreatedFiles \/ ClearCreatedFiles
           /\ \/ flying' = flying \/ (\E f \in flying : BackUp(f))
              \/ (\E f \in flying : PostFileOperationCallback(f)) \/ Unregister
              \/ /\ started < MaxOperations
                 /\ \E o \in Operation[started + 1] : PreFileOperationCallback(o)
           /\ \/ started' = started
              \/ /\ started < MaxOperations
                 /\ \E o \in Operation[started + 1] : PreFileOperationCallback(o)
           /\ \/ occurred' = occurred
              \/ (\E f \in flying : PostFileOperationCallback(f))
           /\ \/ driver' = driver \/ DisconnectCallback \/ Unregister \/ FilterUnload
           /\ \/ UNCHANGED <<directories, backups, deletions>>
              \/ (\E f \in flying : BackUp(f)) \/ StartVisit \/ StopVisit
              \/ OptionReceived \/ ClearCreatedFiles
           /\ \/ UNCHANGED <<permissions, added>>
              \/ (\E x \in Received : onFileExclusionReceived(x)) \/ ListCleared
<1>1. \/ queue' = queue \/ (\E f \in flying : PostFileOperationCallback(f))
      \/ ConnectionChecker \/ GetFileEvents \/ DisconnectCallback
      \/ FilterUnload
  BY DEF Next, Callback, Setup, Thread, Visitor, Receiver, End, PreFileOperationCallback,
         BackUp, Age, SetupAllocate, SetupFill, Examine, Modify, StartVisit, StopVisit,
         copyCreatedFiles, ClearCreatedFiles, OptionReceived, onFileExclusionReceived,
         ListCleared, Unregister, SetupOff, SetupFree, setMonitorModifiedFiles,
         FreeQueuedEvents, QueueFileEvent, vars, driverVars, threadVars, visitVars, listVars,
         historyVars
<1>2. \/ UNCHANGED <<thread, buffer>> \/ GetFileEvents \/ Examine \/ Modify
      \/ DisconnectCallback
  BY DEF Next, Callback, Setup, Thread, Visitor, Receiver, End, PreFileOperationCallback,
         BackUp, PostFileOperationCallback, Age, ConnectionChecker, SetupAllocate, SetupFill,
         StartVisit, StopVisit, copyCreatedFiles, ClearCreatedFiles, OptionReceived,
         onFileExclusionReceived, ListCleared, Unregister, FilterUnload, SetupOff, SetupFree,
         setMonitorModifiedFiles, FreeQueuedEvents, QueueFileEvent, vars, driverVars,
         threadVars, visitVars, listVars, historyVars
<1>3. \/ UNCHANGED <<examined, tested, signalled>> \/ Examine \/ Modify
  BY DEF Next, Callback, Setup, Thread, Visitor, Receiver, End, PreFileOperationCallback,
         BackUp, PostFileOperationCallback, Age, ConnectionChecker, SetupAllocate, SetupFill,
         GetFileEvents, StartVisit, StopVisit, copyCreatedFiles, ClearCreatedFiles,
         OptionReceived, onFileExclusionReceived, ListCleared, DisconnectCallback, Unregister,
         FilterUnload, SetupOff, SetupFree, setMonitorModifiedFiles, FreeQueuedEvents,
         QueueFileEvent, vars, driverVars, threadVars, visitVars, listVars, historyVars
<1>4. \/ period' = period \/ ClearCreatedFiles
  BY DEF Next, Callback, Setup, Thread, Visitor, Receiver, End, PreFileOperationCallback,
         BackUp, PostFileOperationCallback, Age, ConnectionChecker, SetupAllocate, SetupFill,
         GetFileEvents, Examine, Modify, StartVisit, StopVisit, copyCreatedFiles,
         OptionReceived, onFileExclusionReceived, ListCleared, DisconnectCallback, Unregister,
         FilterUnload, SetupOff, SetupFree, setMonitorModifiedFiles, FreeQueuedEvents,
         QueueFileEvent, vars, driverVars, threadVars, visitVars, listVars, historyVars
<1>5. \/ modifiedFiles' = modifiedFiles \/ Modify \/ ClearCreatedFiles
  BY DEF Next, Callback, Setup, Thread, Visitor, Receiver, End, PreFileOperationCallback,
         BackUp, PostFileOperationCallback, Age, ConnectionChecker, SetupAllocate, SetupFill,
         GetFileEvents, Examine, StartVisit, StopVisit, copyCreatedFiles, OptionReceived,
         onFileExclusionReceived, ListCleared, DisconnectCallback, Unregister, FilterUnload,
         SetupOff, SetupFree, setMonitorModifiedFiles, FreeQueuedEvents, QueueFileEvent, vars,
         driverVars, threadVars, visitVars, listVars, historyVars
<1>6. \/ UNCHANGED <<visitor, copied>> \/ StartVisit \/ StopVisit
      \/ copyCreatedFiles \/ ClearCreatedFiles
  BY DEF Next, Callback, Setup, Thread, Visitor, Receiver, End, PreFileOperationCallback,
         BackUp, PostFileOperationCallback, Age, ConnectionChecker, SetupAllocate, SetupFill,
         GetFileEvents, Examine, Modify, OptionReceived, onFileExclusionReceived, ListCleared,
         DisconnectCallback, Unregister, FilterUnload, SetupOff, SetupFree,
         setMonitorModifiedFiles, FreeQueuedEvents, QueueFileEvent, vars, driverVars,
         threadVars, visitVars, listVars, historyVars
<1>7. \/ flying' = flying \/ (\E f \in flying : BackUp(f))
      \/ (\E f \in flying : PostFileOperationCallback(f)) \/ Unregister
      \/ /\ started < MaxOperations
         /\ \E o \in Operation[started + 1] : PreFileOperationCallback(o)
  BY DEF Next, Callback, Setup, Thread, Visitor, Receiver, End, Age, ConnectionChecker,
         SetupAllocate, SetupFill, GetFileEvents, Examine, Modify, StartVisit, StopVisit,
         copyCreatedFiles, ClearCreatedFiles, OptionReceived, onFileExclusionReceived,
         ListCleared, DisconnectCallback, FilterUnload, SetupOff, SetupFree,
         setMonitorModifiedFiles, FreeQueuedEvents, QueueFileEvent, vars, driverVars,
         threadVars, visitVars, listVars, historyVars
<1>8. \/ started' = started
      \/ /\ started < MaxOperations
         /\ \E o \in Operation[started + 1] : PreFileOperationCallback(o)
  BY DEF Next, Callback, Setup, Thread, Visitor, Receiver, End, BackUp,
         PostFileOperationCallback, Age, ConnectionChecker, SetupAllocate, SetupFill,
         GetFileEvents, Examine, Modify, StartVisit, StopVisit, copyCreatedFiles,
         ClearCreatedFiles, OptionReceived, onFileExclusionReceived, ListCleared,
         DisconnectCallback, Unregister, FilterUnload, SetupOff, SetupFree,
         setMonitorModifiedFiles, FreeQueuedEvents, QueueFileEvent, vars, driverVars,
         threadVars, visitVars, listVars, historyVars
<1>9. \/ occurred' = occurred
      \/ (\E f \in flying : PostFileOperationCallback(f))
  BY DEF Next, Callback, Setup, Thread, Visitor, Receiver, End, PreFileOperationCallback,
         BackUp, Age, ConnectionChecker, SetupAllocate, SetupFill, GetFileEvents, Examine,
         Modify, StartVisit, StopVisit, copyCreatedFiles, ClearCreatedFiles, OptionReceived,
         onFileExclusionReceived, ListCleared, DisconnectCallback, Unregister, FilterUnload,
         SetupOff, SetupFree, setMonitorModifiedFiles, FreeQueuedEvents, QueueFileEvent, vars,
         driverVars, threadVars, visitVars, listVars, historyVars
<1>10. \/ driver' = driver \/ DisconnectCallback \/ Unregister \/ FilterUnload
  BY DEF Next, Callback, Setup, Thread, Visitor, Receiver, End, PreFileOperationCallback,
         BackUp, PostFileOperationCallback, Age, ConnectionChecker, SetupAllocate, SetupFill,
         GetFileEvents, Examine, Modify, StartVisit, StopVisit, copyCreatedFiles,
         ClearCreatedFiles, OptionReceived, onFileExclusionReceived, ListCleared, SetupOff,
         SetupFree, setMonitorModifiedFiles, FreeQueuedEvents, QueueFileEvent, vars,
         driverVars, threadVars, visitVars, listVars, historyVars
<1>11. \/ UNCHANGED <<directories, backups, deletions>>
       \/ (\E f \in flying : BackUp(f)) \/ StartVisit \/ StopVisit
       \/ OptionReceived \/ ClearCreatedFiles
  BY DEF Next, Callback, Setup, Thread, Visitor, Receiver, End, PreFileOperationCallback,
         PostFileOperationCallback, Age, ConnectionChecker, SetupAllocate, SetupFill,
         GetFileEvents, Examine, Modify, copyCreatedFiles, onFileExclusionReceived,
         ListCleared, DisconnectCallback, Unregister, FilterUnload, SetupOff, SetupFree,
         setMonitorModifiedFiles, FreeQueuedEvents, QueueFileEvent, vars, driverVars,
         threadVars, visitVars, listVars, historyVars
<1>12. \/ UNCHANGED <<permissions, added>>
       \/ (\E x \in Received : onFileExclusionReceived(x)) \/ ListCleared
  BY DEF Next, Callback, Setup, Thread, Visitor, Receiver, End, PreFileOperationCallback,
         BackUp, PostFileOperationCallback, Age, ConnectionChecker, SetupAllocate, SetupFill,
         GetFileEvents, Examine, Modify, StartVisit, StopVisit, copyCreatedFiles,
         ClearCreatedFiles, OptionReceived, DisconnectCallback, Unregister, FilterUnload,
         SetupOff, SetupFree, setMonitorModifiedFiles, FreeQueuedEvents, QueueFileEvent, vars,
         driverVars, threadVars, visitVars, listVars, historyVars
<1> QED BY <1>1, <1>2, <1>3, <1>4, <1>5, <1>6, <1>7, <1>8, <1>9, <1>10, <1>11, <1>12

(* What is in the buffer while it is looked at.                             *)
LEMMA Looking ==
    ASSUME TypeOK, Shape, thread \in {"examine", "modify"}
    PROVE  /\ buffer # <<>> /\ Head(buffer) = buffer[1] /\ 1 \in DOMAIN buffer
           /\ Head(buffer) \in Event /\ Tail(buffer) \in Seq(Event)
           /\ Head(buffer).op \in EveryOperation /\ Head(buffer).number \in Nat
<1>1. buffer # <<>> /\ buffer \in Seq(Event)
  BY DEF TypeOK, Shape
<1>2. /\ Head(buffer) = buffer[1] /\ 1 \in DOMAIN buffer /\ Head(buffer) \in Event
      /\ Tail(buffer) \in Seq(Event)
  BY <1>1, NonEmpty, Rest
<1> QED BY <1>1, <1>2 DEF Event

(* How many events a request takes.                                         *)
LEMMA Taken ==
    ASSUME TypeOK, Shape, GetFileEvents
    PROVE  \E n \in 0..Len(queue) :
              /\ n <= BufferSize
              /\ buffer' = SubSeq(queue, 1, n) /\ queue' = SubSeq(queue, n + 1, Len(queue))
              /\ thread' = IF n = 0 THEN "poll" ELSE "examine"
<1>1. Len(queue) \in Nat /\ BufferSize \in Nat
  BY LenProperties, FileBounds DEF Shape
<1> DEFINE n == IF Len(queue) <= BufferSize THEN Len(queue) ELSE BufferSize
<1>2. n \in 0..Len(queue) /\ n <= BufferSize
  BY <1>1
<1>3. /\ buffer' = SubSeq(queue, 1, n) /\ queue' = SubSeq(queue, n + 1, Len(queue))
      /\ thread' = IF n = 0 THEN "poll" ELSE "examine"
  BY DEF GetFileEvents
<1> HIDE DEF n
<1> QED BY <1>2, <1>3

LEMMA Operations ==
    ASSUME NEW o, o \in Operation[started + 1], started < MaxOperations, started \in Nat
    PROVE  o \in EveryOperation
<1>1. started + 1 \in 1..MaxOperations
  BY FileBounds
<1> QED BY <1>1 DEF EveryOperation

LEMMA ShapeStep ==
    ASSUME TypeOK, Shape, [Next]_vars
    PROVE  Shape'
<1>1. queue' \in Seq(Event)
  <2>1. CASE queue' = queue
    BY <2>1 DEF Shape
  <2>2. CASE queue' = <<>>
    BY <2>2
  <2>3. CASE GetFileEvents
    <3>1. PICK n \in 0..Len(queue) : queue' = SubSeq(queue, n + 1, Len(queue))
      BY <2>3, Taken
    <3>2. Len(queue) \in Nat /\ n \in Nat /\ n <= Len(queue) /\ queue \in Seq(Event)
      BY LenProperties DEF Shape
    <3> QED BY <3>1, <3>2, Part
  <2>4. ASSUME NEW f \in flying, PostFileOperationCallback(f)
        PROVE  queue' \in Seq(Event)
    <3>1. FileEvent(f) \in Event
      <4>1. f.op \in EveryOperation /\ occurred + 1 \in Nat
        BY DEF Shape, Flight, TypeOK
      <4> QED BY <4>1 DEF FileEvent, Event
    <3>2. queue' = Append(queue, FileEvent(f)) \/ queue' = queue
      BY <2>4 DEF PostFileOperationCallback, QueueFileEvent
    <3> DEFINE e == FileEvent(f)
    <3> HIDE DEF e
    <3>3. e \in Event /\ (queue' = Append(queue, e) \/ queue' = queue) /\ queue \in Seq(Event)
      BY <3>1, <3>2 DEF e, Shape
    <3> QED BY <3>3, AppendProperties
  <2> QED BY <2>1, <2>2, <2>3, <2>4, Writers
          DEF ConnectionChecker, DisconnectCallback, FilterUnload, FreeQueuedEvents
<1>2. buffer' \in Seq(Event)
  <2>1. CASE UNCHANGED <<thread, buffer>>
    BY <2>1 DEF Shape
  <2>2. CASE GetFileEvents
    <3>1. PICK n \in 0..Len(queue) : buffer' = SubSeq(queue, 1, n)
      BY <2>2, Taken
    <3>2. PICK m \in Nat : m = 0
      OBVIOUS
    <3>3. /\ Len(queue) \in Nat /\ n \in Nat /\ m <= n /\ n <= Len(queue) /\ queue \in Seq(Event)
          /\ buffer' = SubSeq(queue, m + 1, n)
      BY <3>1, <3>2, LenProperties DEF Shape
    <3> QED BY <3>3, Part
  <2>3. CASE Examine
    BY <2>3, Looking DEF Examine, Advance, Signal, Shape
  <2>4. CASE Modify
    BY <2>4, Looking DEF Modify, Advance, Signal
  <2>5. CASE DisconnectCallback
    BY <2>5 DEF DisconnectCallback
  <2> QED BY <2>1, <2>2, <2>3, <2>4, <2>5, Writers
<1>3. examined' \in Seq(Nat)
  <2>1. CASE Examine
    <3>1. examined' = Append(examined, Head(buffer).number) /\ Head(buffer).number \in Nat
      BY <2>1, Looking DEF Examine
    <3> QED BY <3>1, AppendProperties DEF Shape
  <2> QED BY <2>1, Writers DEF Shape, Modify
<1>4. flying' \subseteq Flight
  <2>1. ASSUME started < MaxOperations, NEW o \in Operation[started + 1],
               PreFileOperationCallback(o)
        PROVE  flying' \subseteq Flight
    <3>1. started + 1 \in Nat /\ o \in EveryOperation
      BY <2>1, Operations DEF TypeOK
    <3> QED BY <2>1, <3>1 DEF PreFileOperationCallback, Shape, Flight
  <2>2. ASSUME NEW f \in flying, BackUp(f)
        PROVE  flying' \subseteq Flight
    BY <2>2 DEF BackUp, Shape, Flight
  <2>3. ASSUME NEW f \in flying, PostFileOperationCallback(f)
        PROVE  flying' \subseteq Flight
    BY <2>3 DEF PostFileOperationCallback, Shape
  <2> QED BY <2>1, <2>2, <2>3, Writers DEF Unregister, Shape
<1>5. deletions' \in Seq(Flight)
  <2>1. ASSUME NEW f \in flying, BackUp(f)
        PROVE  deletions' \in Seq(Flight)
    <3>1. f \in Flight /\ deletions \in Seq(Flight)
      BY DEF Shape
    <3>2. deletions' = Append(deletions, f) \/ deletions' = deletions
      BY <2>1 DEF BackUp, CopyFile
    <3> QED BY <3>1, <3>2, AppendProperties
  <2>2. CASE UNCHANGED deletions
    BY <2>2 DEF Shape
  <2>3. CASE ClearCreatedFiles
    BY <2>3 DEF ClearCreatedFiles
  <2> QED BY <2>1, <2>2, <2>3, Writers DEF StartVisit, StopVisit, OptionReceived, historyVars
<1>6. period' \in Nat /\ tested' \in 0..period'
  <2>1. CASE Examine
    BY <2>1 DEF Examine, Shape
  <2>2. CASE ClearCreatedFiles
    BY <2>2 DEF ClearCreatedFiles, Shape
  <2>3. CASE Modify
    BY <2>3 DEF Modify, Shape
  <2>4. CASE UNCHANGED <<examined, tested, signalled>> /\ period' = period
    BY <2>4 DEF Shape
  <2> QED BY <2>1, <2>2, <2>3, <2>4, Writers DEF Examine, Modify
<1> QED BY <1>1, <1>2, <1>3, <1>4, <1>5, <1>6 DEF Shape

LEMMA CountedStep ==
    ASSUME TypeOK, Counted, [Next]_vars
    PROVE  /\ Counted'
           /\ started' \in 0..MaxOperations /\ occurred' \in 0..started'
           /\ \A f \in flying' : f.id \in 1..started' /\ f.stage \in {"backup", "passed"}
<1> DEFINE Good == /\ Counted'
                   /\ started' \in 0..MaxOperations /\ occurred' \in 0..started'
                   /\ \A f \in flying' : f.id \in 1..started' /\ f.stage \in {"backup", "passed"}
<1> SUFFICES Good
  OBVIOUS
<1>0. /\ started \in Nat /\ started <= MaxOperations /\ occurred \in Nat
      /\ MaxOperations \in Nat /\ IsFiniteSet(flying) /\ Cardinality(flying) \in Nat
      /\ occurred + Cardinality(flying) <= started
      /\ \A f \in flying : f.id \in 1..started /\ f.stage \in {"backup", "passed"}
  BY FileBounds, FS_CardinalityType DEF TypeOK, Counted
<1>1. ASSUME started < MaxOperations, NEW o \in Operation[started + 1],
             PreFileOperationCallback(o)
      PROVE  Good
  <2> DEFINE backsUp == ToBackUp(o) /\ o.naming = "normalized" /\ collect
             g == [id |-> started + 1, op |-> o, stage |-> IF backsUp THEN "backup" ELSE "passed"]
  <2>1. /\ flying' = flying \cup {g} /\ g.id = started + 1
        /\ g.stage \in {"backup", "passed"}
    BY <1>1 DEF PreFileOperationCallback
  <2> HIDE DEF g
  <2>2. started' = started + 1 /\ occurred' = occurred
    BY <1>1 DEF PreFileOperationCallback
  <2>3. /\ IsFiniteSet(flying')
        /\ \/ Cardinality(flying') = Cardinality(flying) + 1
           \/ Cardinality(flying') = Cardinality(flying)
    BY <1>0, <2>1, FS_AddElement
  <2> QED BY <1>0, <1>1, <2>1, <2>2, <2>3 DEF Counted
<1>2. ASSUME NEW f \in flying, BackUp(f)
      PROVE  Good
  <2> DEFINE g == [f EXCEPT !.stage = "passed"]
             rest == flying \ {f}
  <2>1. flying' = rest \cup {g} /\ started' = started /\ occurred' = occurred
    BY <1>2 DEF BackUp
  <2>2. IsFiniteSet(rest) /\ Cardinality(rest) = Cardinality(flying) - 1
    BY <1>0, FS_RemoveElement
  <2>3. \A h \in flying' : h.id \in 1..started /\ h.stage \in {"backup", "passed"}
    <3>1. g.id = f.id /\ g.stage = "passed"
      BY DEF TypeOK
    <3> QED BY <1>0, <2>1, <3>1
  <2> HIDE DEF g, rest
  <2>4. /\ IsFiniteSet(flying')
        /\ \/ Cardinality(flying') = Cardinality(rest) + 1
           \/ Cardinality(flying') = Cardinality(rest)
    BY <2>1, <2>2, FS_AddElement
  <2> QED BY <1>0, <2>1, <2>2, <2>3, <2>4 DEF Counted
<1>3. ASSUME NEW f \in flying, PostFileOperationCallback(f)
      PROVE  Good
  <2>1. flying' = flying \ {f} /\ occurred' = occurred + 1 /\ started' = started
    BY <1>3 DEF PostFileOperationCallback
  <2>2. IsFiniteSet(flying') /\ Cardinality(flying') = Cardinality(flying) - 1
    BY <1>0, <2>1, FS_RemoveElement
  <2>3. Cardinality(flying') \in Nat
    BY <2>2, FS_CardinalityType
  <2> QED BY <1>0, <2>1, <2>2, <2>3 DEF Counted
<1>4. CASE Unregister
  <2>1. flying' = {} /\ started' = started /\ occurred' = occurred
    BY <1>4 DEF Unregister, historyVars
  <2>2. IsFiniteSet(flying') /\ Cardinality(flying') = 0
    BY <2>1, FS_EmptySet
  <2> QED BY <1>0, <2>1, <2>2 DEF Counted
<1>5. CASE flying' = flying /\ started' = started /\ occurred' = occurred
  BY <1>0, <1>5 DEF Counted
<1> HIDE DEF Good
<1> QED BY <1>1, <1>2, <1>3, <1>4, <1>5, Writers

LEMMA DrainedStep ==
    ASSUME TypeOK, Drained, [Next]_vars
    PROVE  Drained'
<1>1. driver' \in {"unregistered", "off"} => flying' = {}
  <2>1. CASE Unregister
    BY <2>1 DEF Unregister
  <2>2. CASE DisconnectCallback
    BY <2>2 DEF DisconnectCallback
  <2>3. CASE FilterUnload
    BY <2>3 DEF FilterUnload, Drained
  <2>4. ASSUME driver' = driver, flying' # flying, ~Unregister
        PROVE  driver \notin {"unregistered", "off"}
    BY <2>4, Writers DEF PreFileOperationCallback, BackUp, PostFileOperationCallback, Filtering
  <2> QED BY <2>1, <2>2, <2>3, <2>4, Writers DEF Drained
<1>2. driver' = "off" => queue' = <<>>
  <2>1. CASE FilterUnload
    BY <2>1 DEF FilterUnload, FreeQueuedEvents
  <2>2. CASE Unregister \/ DisconnectCallback
    BY <2>2 DEF Unregister, DisconnectCallback
  <2>3. ASSUME driver' = driver, driver = "off", queue' # queue
        PROVE  queue' = <<>>
    BY <2>3, Writers DEF ConnectionChecker, GetFileEvents, DisconnectCallback, FilterUnload,
       PostFileOperationCallback, Filtering
  <2> QED BY <2>1, <2>2, <2>3, Writers DEF Drained
<1> QED BY <1>1, <1>2 DEF Drained

LEMMA PeriodsStep ==
    ASSUME TypeOK, Shape, Periods, [Next]_vars
    PROVE  Periods'
<1>0. period \in Nat /\ tested \in Nat /\ tested <= period
  BY DEF Shape
<1>1. CASE Modify
  <2> DEFINE name == DosNameOf(Head(buffer).op)
             new == [name |-> name, tested |-> tested]
             others == {m \in modifiedFiles : m.name # name}
  <2>1. modifiedFiles' \subseteq modifiedFiles \cup {new}
    BY <1>1 DEF Modify
  <2>2. new.tested = tested
    OBVIOUS
  <2>3. thread = "modify" /\ period' = period /\ UNCHANGED <<visitor, copied>>
    BY <1>1 DEF Modify, visitVars
  <2> HIDE DEF name, new, others
  <2>4. OneOf(modifiedFiles', period)
    BY <1>0, <2>1, <2>2, <2>3 DEF Periods, OneOf
  <2>5. thread' # "modify"
    BY <1>1 DEF Modify, Signal, Advance
  <2> QED BY <2>3, <2>4, <2>5 DEF Periods
<1>2. CASE Examine
  <2>1. /\ modifiedFiles' = modifiedFiles /\ period' = period /\ UNCHANGED <<visitor, copied>>
        /\ thread' = "modify" => tested' = period
    BY <1>2 DEF Examine, Signal, Advance, visitVars
  <2> QED BY <1>0, <2>1 DEF Periods
<1>3. CASE ClearCreatedFiles
  BY <1>3 DEF ClearCreatedFiles, Forget, Periods, OneOf
<1>4. CASE copyCreatedFiles
  BY <1>4 DEF copyCreatedFiles, Periods, threadVars, listVars, historyVars
<1>5. CASE StartVisit \/ StopVisit
  BY <1>5 DEF StartVisit, StopVisit, Periods, threadVars, listVars, historyVars
<1>6. ASSUME UNCHANGED <<modifiedFiles, visitor, copied, period, tested>>,
             \/ UNCHANGED <<thread, buffer>> \/ GetFileEvents \/ DisconnectCallback
      PROVE  Periods'
  BY <1>6 DEF Periods, GetFileEvents, DisconnectCallback
<1> QED BY <1>1, <1>2, <1>3, <1>4, <1>5, <1>6, Writers

-----------------------------------------------------------------------------
(* Order.                                                                   *)

LEMMA Numbers == \A s \in Seq(Event) : \A i \in DOMAIN s : s[i].number \in Nat
<1> SUFFICES ASSUME NEW s \in Seq(Event), NEW i \in DOMAIN s PROVE s[i].number \in Nat
  OBVIOUS
<1>1. s[i] \in Event
  BY LenProperties, ElementOfSeq
<1> QED BY <1>1 DEF Event

(* The first event of a list is examined and leaves it.                     *)
LEMMA TailOrder ==
    ASSUME NEW s \in Seq(Event), s # <<>>, NEW t, t = Tail(s), NEW q \in Seq(Event),
           NEW n \in Nat, Increasing(s), Before(s, q), UpTo(s, n)
    PROVE  /\ t \in Seq(Event) /\ Increasing(t) /\ Before(t, q) /\ UpTo(t, n)
           /\ Above(t, Head(s).number) /\ Above(q, Head(s).number)
           /\ Head(s).number \in 0..n
<1>1. /\ Head(s) = s[1] /\ 1 \in DOMAIN s /\ Head(s) \in Event
  BY NonEmpty
<1>2. /\ t \in Seq(Event)
      /\ \A i \in DOMAIN t : i \in Nat /\ i + 1 \in DOMAIN s /\ t[i] = s[i + 1] /\ 1 < i + 1
  <2>1. t \in Seq(Event) /\ DOMAIN t = 1..(Len(s) - 1) /\ Len(s) \in Nat
    BY Rest, NonEmpty
  <2>2. \A i \in DOMAIN t : i \in Nat /\ i + 1 \in DOMAIN s /\ t[i] = s[i + 1]
    BY Rest
  <2>3. \A i \in DOMAIN t : 1 < i + 1
    BY <2>1
  <2> QED BY <2>1, <2>2, <2>3
<1>3. Increasing(t)
  BY <1>2 DEF Increasing
<1>4. Before(t, q) /\ UpTo(t, n)
  BY <1>2 DEF Before, UpTo
<1>5. Above(t, Head(s).number)
  BY <1>1, <1>2 DEF Increasing, Above
<1>6. Above(q, Head(s).number)
  BY <1>1 DEF Before, Above
<1>7. Head(s).number \in 0..n
  BY <1>1 DEF UpTo, Event
<1> QED BY <1>2, <1>3, <1>4, <1>5, <1>6, <1>7

(* The newest event joins the queue.                                        *)
LEMMA AppendOrder ==
    ASSUME NEW q \in Seq(Event), NEW e \in Event, NEW t, t = Append(q, e),
           NEW b \in Seq(Event), NEW n \in Nat, NEW l \in 0..n,
           e.number = n + 1, Increasing(q), UpTo(q, n), UpTo(b, n), Before(b, q), Above(q, l)
    PROVE  Increasing(t) /\ UpTo(t, n + 1) /\ UpTo(b, n + 1) /\ Before(b, t) /\ Above(t, l)
<1>1. /\ Len(q) \in Nat /\ DOMAIN q = 1..Len(q) /\ DOMAIN t = 1..(Len(q) + 1)
      /\ \A i \in 1..Len(q) : t[i] = q[i]
      /\ t[Len(q) + 1] = e
  BY Appended
<1>2. ASSUME NEW i \in DOMAIN t
      PROVE  (i \in DOMAIN q /\ t[i] = q[i]) \/ (i = Len(q) + 1 /\ t[i] = e)
  <2>1. i \in 1..Len(q) \/ i = Len(q) + 1
    BY <1>1
  <2> QED BY <1>1, <2>1
<1>3. /\ \A i \in DOMAIN q : q[i].number \in Nat
      /\ \A i \in DOMAIN b : b[i].number \in Nat
  <2>1. \A i \in DOMAIN q : q[i] \in Event
    BY <1>1, ElementOfSeq
  <2>2. \A i \in DOMAIN b : b[i] \in Event
    BY LenProperties, ElementOfSeq
  <2> QED BY <2>1, <2>2 DEF Event
<1>4. Increasing(t)
  <2> SUFFICES ASSUME NEW i \in DOMAIN t, NEW j \in DOMAIN t, i < j
               PROVE  t[i].number < t[j].number
    BY DEF Increasing
  <2>1. i \in DOMAIN q /\ t[i] = q[i]
    BY <1>1, <1>2
  <2>2. CASE j \in DOMAIN q /\ t[j] = q[j]
    BY <2>1, <2>2 DEF Increasing
  <2>3. CASE t[j] = e
    BY <1>3, <2>1, <2>3 DEF UpTo
  <2> QED BY <1>2, <2>2, <2>3
<1>5. UpTo(t, n + 1) /\ UpTo(b, n + 1)
  BY <1>2, <1>3 DEF UpTo
<1>6. Before(b, t)
  BY <1>2, <1>3 DEF Before, UpTo
<1>7. Above(t, l)
  BY <1>2 DEF Above
<1> QED BY <1>4, <1>5, <1>6, <1>7

(* A request takes the first n events of the queue.                         *)
FrontOf(a, q, n) == \A i \in DOMAIN a : i \in Nat /\ i <= n /\ i \in DOMAIN q /\ a[i] = q[i]
RestOf(b, q, n) ==
    \A i \in DOMAIN b : i \in Nat /\ i > 0 /\ i + n \in DOMAIN q /\ b[i] = q[i + n]

LEMMA FrontIs ==
    ASSUME NEW q \in Seq(Event), NEW n \in Nat, n <= Len(q)
    PROVE  /\ Len(SubSeq(q, 1, n)) = n /\ FrontOf(SubSeq(q, 1, n), q, n)
<1>1. PICK z \in Nat : z = 0
  OBVIOUS
<1> DEFINE a == SubSeq(q, z + 1, n)
<1>2. z <= n
  BY <1>1
<1>3. /\ Len(a) = n - z
      /\ \A i \in DOMAIN a :
            i \in Nat /\ i > 0 /\ i <= n - z /\ i + z \in DOMAIN q /\ a[i] = q[i + z]
  BY <1>2, Part
<1>4. a = SubSeq(q, 1, n)
  BY <1>1
<1> HIDE DEF a
<1>5. Len(a) = n /\ \A i \in DOMAIN a : i \in Nat /\ i <= n /\ i \in DOMAIN q /\ a[i] = q[i]
  BY <1>1, <1>3
<1> QED BY <1>4, <1>5 DEF FrontOf

LEMMA RestIs ==
    ASSUME NEW q \in Seq(Event), NEW n \in Nat, n <= Len(q)
    PROVE  RestOf(SubSeq(q, n + 1, Len(q)), q, n)
<1> DEFINE b == SubSeq(q, n + 1, Len(q))
<1>1. Len(q) \in Nat
  BY LenProperties
<1>2. \A i \in DOMAIN b :
         i \in Nat /\ i > 0 /\ i <= Len(q) - n /\ i + n \in DOMAIN q /\ b[i] = q[i + n]
  BY <1>1, Part
<1> HIDE DEF b
<1>3. RestOf(b, q, n)
  BY <1>2 DEF RestOf
<1> QED BY <1>3 DEF b

LEMMA SplitOrder ==
    ASSUME NEW q, NEW n \in Nat, NEW c, NEW l, NEW a, NEW b,
           FrontOf(a, q, n), RestOf(b, q, n), Increasing(q), UpTo(q, c), Above(q, l)
    PROVE  /\ Increasing(a) /\ Increasing(b) /\ Before(a, b)
           /\ UpTo(a, c) /\ UpTo(b, c) /\ Above(a, l) /\ Above(b, l)
<1>2. \A i \in DOMAIN a : i \in Nat /\ i <= n /\ i \in DOMAIN q /\ a[i] = q[i]
  BY DEF FrontOf
<1>4. \A i \in DOMAIN b : i \in Nat /\ i > 0 /\ i + n \in DOMAIN q /\ b[i] = q[i + n]
  BY DEF RestOf
<1>5. Increasing(a)
  BY <1>2 DEF Increasing
<1>6. Increasing(b)
  <2> SUFFICES ASSUME NEW i \in DOMAIN b, NEW j \in DOMAIN b, i < j
               PROVE  b[i].number < b[j].number
    BY DEF Increasing
  <2>1. i + n < j + n
    BY <1>4
  <2> QED BY <1>4, <2>1 DEF Increasing
<1>7. Before(a, b)
  <2> SUFFICES ASSUME NEW i \in DOMAIN a, NEW j \in DOMAIN b
               PROVE  a[i].number < b[j].number
    BY DEF Before
  <2>1. i < j + n
    BY <1>2, <1>4
  <2> QED BY <1>2, <1>4, <2>1 DEF Increasing
<1>8. UpTo(a, c) /\ Above(a, l)
  BY <1>2 DEF UpTo, Above
<1>9. UpTo(b, c) /\ Above(b, l)
  BY <1>4 DEF UpTo, Above
<1> QED BY <1>5, <1>6, <1>7, <1>8, <1>9

LEMMA NothingOrder ==
    /\ Increasing(<<>>)
    /\ \A s : Before(s, <<>>) /\ Before(<<>>, s)
    /\ \A n : UpTo(<<>>, n) /\ Above(<<>>, n)
BY DEF Increasing, Before, UpTo, Above

(* What Examine makes the last event examined.                              *)
LEMMA Examined ==
    ASSUME TypeOK, Shape, Examine
    PROVE  Last' = Head(buffer).number
<1> DEFINE n == Head(buffer).number
<1>1. examined' = Append(examined, n) /\ n \in Nat /\ examined \in Seq(Nat)
  BY Looking DEF Examine, Shape
<1> HIDE DEF n
<1>2. /\ examined' # <<>> /\ Len(examined') = Len(examined) + 1
      /\ examined'[Len(examined) + 1] = n
  BY <1>1, Appended
<1>3. Last' = n
  BY <1>2 DEF Last
<1> QED BY <1>3 DEF n

LEMMA OrderStep ==
    ASSUME TypeOK, Shape, Order, Shape', [Next]_vars
    PROVE  Order'
<1>0. /\ queue \in Seq(Event) /\ buffer \in Seq(Event)
      /\ occurred \in Nat /\ Last \in 0..occurred /\ Last \in Nat
      /\ Increasing(buffer) /\ Increasing(queue) /\ Before(buffer, queue)
      /\ UpTo(buffer, occurred) /\ UpTo(queue, occurred) /\ Above(queue, Last)
  BY DEF TypeOK, Shape, Order
<1>1. ASSUME NEW f \in flying, PostFileOperationCallback(f)
      PROVE  Order'
  <2>1. UNCHANGED <<thread, buffer, examined>> /\ occurred' = occurred + 1
    BY <1>1 DEF PostFileOperationCallback, threadVars
  <2>2. Last' = Last
    BY <2>1 DEF Last
  <2> DEFINE e == FileEvent(f)
  <2>3. e \in Event /\ e.number = occurred + 1
    BY <1>0 DEF FileEvent, Event, Shape, Flight
  <2>4. queue' = Append(queue, e) \/ queue' = queue
    BY <1>1 DEF PostFileOperationCallback, QueueFileEvent
  <2> HIDE DEF e
  <2>5. /\ Increasing(queue') /\ Before(buffer, queue') /\ Above(queue', Last)
        /\ UpTo(buffer, occurred + 1) /\ UpTo(queue', occurred + 1)
    <3>1. CASE queue' = Append(queue, e)
      BY <1>0, <2>3, <3>1, AppendOrder
    <3>2. CASE queue' = queue
      <4>1. \A i \in DOMAIN queue : queue[i].number \in Nat
        BY <1>0, Numbers
      <4>2. \A i \in DOMAIN buffer : buffer[i].number \in Nat
        BY <1>0, Numbers
      <4>3. UpTo(queue, occurred + 1) /\ UpTo(buffer, occurred + 1)
        BY <1>0, <4>1, <4>2 DEF UpTo
      <4> QED BY <1>0, <3>2, <4>3
    <3> QED BY <2>4, <3>1, <3>2
  <2>6. Last \in 0..(occurred + 1)
    BY <1>0
  <2>7. /\ Increasing(buffer') /\ Increasing(queue') /\ Before(buffer', queue')
        /\ UpTo(buffer', occurred') /\ UpTo(queue', occurred') /\ Last' \in 0..occurred'
        /\ Above(queue', Last')
    BY <1>0, <2>1, <2>2, <2>5, <2>6
  <2>8. IF thread' = "modify" THEN Head(buffer').number = Last' ELSE Above(buffer', Last')
    BY <2>1, <2>2 DEF Order
  <2> QED BY <2>1, <2>7, <2>8 DEF Order
<1>2. ASSUME queue' = <<>>, UNCHANGED <<thread, buffer, examined, occurred>>
      PROVE  Order'
  <2>1. Last' = Last
    BY <1>2 DEF Last
  <2> QED BY <1>2, <2>1, NothingOrder DEF Order
<1>3. CASE GetFileEvents
  <2>1. PICK n \in 0..Len(queue) :
           /\ buffer' = SubSeq(queue, 1, n) /\ queue' = SubSeq(queue, n + 1, Len(queue))
           /\ thread' = IF n = 0 THEN "poll" ELSE "examine"
    BY <1>3, Taken
  <2>2. n \in Nat /\ n <= Len(queue) /\ queue \in Seq(Event)
    BY <1>0, LenProperties
  <2> DEFINE a == SubSeq(queue, 1, n)
             b == SubSeq(queue, n + 1, Len(queue))
  <2>8. Len(a) = n /\ FrontOf(a, queue, n) /\ RestOf(b, queue, n)
    BY <2>2, FrontIs, RestIs
  <2>9. buffer' = a /\ queue' = b
    BY <2>1
  <2> HIDE DEF a, b
  <2>10. /\ Increasing(a) /\ Increasing(b) /\ Before(a, b)
         /\ UpTo(a, occurred) /\ UpTo(b, occurred) /\ Above(a, Last) /\ Above(b, Last)
    BY <1>0, <2>2, <2>8, SplitOrder
  <2>3. /\ Len(buffer') = n /\ buffer' \in Seq(Event)
        /\ Increasing(buffer') /\ Increasing(queue') /\ Before(buffer', queue')
        /\ UpTo(buffer', occurred) /\ UpTo(queue', occurred)
        /\ Above(buffer', Last) /\ Above(queue', Last)
    BY <2>8, <2>9, <2>10 DEF Shape
  <2>4. UNCHANGED <<examined, occurred>>
    BY <1>3 DEF GetFileEvents, historyVars
  <2>5. Last' = Last
    BY <2>4 DEF Last
  <2>6. thread' \in {"off", "poll"} => buffer' = <<>>
    BY <2>1, <2>3, EmptySeq
  <2>7. thread' # "modify"
    BY <2>1
  <2> QED BY <1>0, <2>3, <2>4, <2>5, <2>6, <2>7 DEF Order
<1>4. CASE Examine
  <2> DEFINE n == Head(buffer).number
             t == Tail(buffer)
  <2>1. buffer # <<>> /\ queue' = queue /\ occurred' = occurred
    BY <1>4, Looking DEF Examine, driverVars
  <2>2. Last' = n
    BY <1>4, Examined
  <2>3. /\ Increasing(t) /\ Before(t, queue) /\ UpTo(t, occurred)
        /\ Above(t, n) /\ Above(queue, n) /\ n \in 0..occurred
    BY <1>0, <2>1, TailOrder
  <2>4. \/ thread' = "modify" /\ buffer' = buffer
        \/ buffer' = t /\ thread' # "modify" /\ (thread' \in {"off", "poll"} => buffer' = <<>>)
    BY <1>4 DEF Examine, Signal, Advance
  <2>5. CASE thread' = "modify" /\ buffer' = buffer
    BY <1>0, <2>1, <2>2, <2>3, <2>5 DEF Order
  <2> HIDE DEF n, t
  <2>6. CASE buffer' = t /\ thread' # "modify" /\ (thread' \in {"off", "poll"} => buffer' = <<>>)
    BY <1>0, <2>1, <2>2, <2>3, <2>6 DEF Order
  <2> QED BY <2>4, <2>5, <2>6
<1>5. CASE Modify
  <2> DEFINE n == Head(buffer).number
             t == Tail(buffer)
  <2>1. buffer # <<>> /\ queue' = queue /\ occurred' = occurred /\ examined' = examined
    BY <1>5, Looking DEF Modify, driverVars
  <2>2. Last' = Last /\ Last = n
    BY <1>5, <2>1 DEF Last, Order, Modify
  <2>3. /\ Increasing(t) /\ Before(t, queue) /\ UpTo(t, occurred) /\ Above(t, n)
    BY <1>0, <2>1, TailOrder
  <2>4. buffer' = t /\ thread' # "modify" /\ (thread' \in {"off", "poll"} => buffer' = <<>>)
    BY <1>5 DEF Modify, Signal, Advance
  <2> HIDE DEF n, t
  <2> QED BY <1>0, <2>1, <2>2, <2>3, <2>4 DEF Order
<1>6. CASE DisconnectCallback
  <2>1. /\ queue' = <<>> /\ buffer' = <<>> /\ thread' = "off" /\ UNCHANGED <<examined, occurred>>
    BY <1>6 DEF DisconnectCallback, FreeQueuedEvents, historyVars
  <2>2. Last' = Last
    BY <2>1 DEF Last
  <2> QED BY <1>0, <2>1, <2>2, NothingOrder DEF Order
<1>7. CASE ConnectionChecker \/ FilterUnload
  BY <1>2, <1>7 DEF ConnectionChecker, FilterUnload, FreeQueuedEvents, threadVars, historyVars
<1>8. CASE UNCHANGED <<queue, thread, buffer, examined, occurred>>
  <2>1. Last' = Last
    BY <1>8 DEF Last
  <2> QED BY <1>8, <2>1 DEF Order
<1> QED BY <1>1, <1>3, <1>4, <1>5, <1>6, <1>7, <1>8, Writers

-----------------------------------------------------------------------------
(* Copies.                                                                  *)
LEMMA NewCopy ==
    ASSUME NEW f \in flying, Shape, Copies, directories \subseteq directories', CopyFile(f)
    PROVE  Copies'
<1>1. CASE BackupFolder(f.op) \notin directories'
  <2>1. UNCHANGED <<backups, deletions>>
    BY <1>1 DEF CopyFile
  <2> QED BY <2>1 DEF Copies, BackupIsFirst
<1>2. CASE BackupFolder(f.op) \in directories'
  <2> DEFINE p == BackupPath(f.op)
             n == Len(deletions) + 1
  <2>1. /\ deletions' = Append(deletions, f) /\ f \in Flight /\ deletions \in Seq(Flight)
        /\ backups' = IF p \in DOMAIN backups THEN backups ELSE Put(backups, p, f.id)
    BY <1>2 DEF CopyFile, Shape
  <2>2. /\ Len(deletions) \in Nat /\ DOMAIN deletions = 1..Len(deletions)
        /\ DOMAIN deletions' = 1..n /\ deletions'[n] = f
        /\ \A i \in 1..Len(deletions) : deletions'[i] = deletions[i]
    BY <2>1, Appended
  <2>3. \A i \in DOMAIN deletions' :
           (i \in DOMAIN deletions /\ deletions'[i] = deletions[i]) \/ (i = n /\ deletions'[i] = f)
    <3> TAKE i \in DOMAIN deletions'
    <3>1. i \in 1..Len(deletions) \/ i = n
      BY <2>2
    <3> QED BY <2>2, <3>1
  <2>4. DOMAIN deletions' = DOMAIN deletions \cup {n}
    BY <2>2
  <2>5. DOMAIN backups' = DOMAIN backups \cup {p}
    BY <2>1 DEF Put
  <2>6. \A q \in DOMAIN backups : backups'[q] = backups[q]
    BY <2>1 DEF Put
  <2>7. p \notin DOMAIN backups => backups'[p] = f.id
    BY <2>1 DEF Put
  <2> HIDE DEF n
  <2>8. DOMAIN backups = {BackupPath(deletions[i].op) : i \in DOMAIN deletions}
    BY DEF Copies
  <2>9. DOMAIN backups' = {BackupPath(deletions'[i].op) : i \in DOMAIN deletions'}
    <3>1. \A i \in DOMAIN deletions : deletions'[i] = deletions[i] /\ i \in DOMAIN deletions'
      BY <2>2, <2>4
    <3>2. n \in DOMAIN deletions' /\ deletions'[n] = f
      BY <2>2, <2>4
    <3> HIDE DEF p
    <3>3. \A i \in DOMAIN deletions' : BackupPath(deletions'[i].op) \in DOMAIN backups'
      BY <2>3, <2>5, <2>8 DEF p
    <3>4. ASSUME NEW q \in DOMAIN backups'
          PROVE  \E i \in DOMAIN deletions' : q = BackupPath(deletions'[i].op)
      <4>1. CASE q = p
        BY <3>2, <4>1 DEF p
      <4>2. CASE q \in DOMAIN backups
        <5>1. PICK i \in DOMAIN deletions : q = BackupPath(deletions[i].op)
          BY <2>8, <4>2
        <5> QED BY <3>1, <5>1
      <4> QED BY <2>5, <4>1, <4>2
    <3> QED BY <3>3, <3>4
  <2>10. \A i \in DOMAIN deletions' : BackupFolder(deletions'[i].op) \in directories'
    BY <1>2, <2>3 DEF Copies
  <2>11. BackupIsFirst'
    <3> SUFFICES ASSUME NEW i \in DOMAIN deletions',
                        \A j \in 1..(i - 1) :
                            BackupPath(deletions'[j].op) # BackupPath(deletions'[i].op)
                 PROVE  backups'[BackupPath(deletions'[i].op)] = deletions'[i].id
      BY DEF BackupIsFirst
    <3>1. CASE i \in DOMAIN deletions /\ deletions'[i] = deletions[i]
      <4>1. \A j \in 1..(i - 1) : deletions'[j] = deletions[j]
        BY <2>2, <3>1
      <4>2. \A j \in 1..(i - 1) : BackupPath(deletions[j].op) # BackupPath(deletions[i].op)
        BY <3>1, <4>1
      <4>3. backups[BackupPath(deletions[i].op)] = deletions[i].id
        BY <3>1, <4>2 DEF Copies, BackupIsFirst
      <4>4. BackupPath(deletions[i].op) \in DOMAIN backups
        BY <2>8, <3>1
      <4> QED BY <2>6, <3>1, <4>3, <4>4
    <3>2. CASE i = n /\ deletions'[i] = f
      <4>1. \A j \in DOMAIN deletions : j \in 1..(i - 1) /\ deletions'[j] = deletions[j]
        BY <2>2, <3>2 DEF n
      <4>2. p \notin DOMAIN backups
        BY <2>8, <3>2, <4>1
      <4> QED BY <2>7, <3>2, <4>2
    <3> QED BY <2>3, <3>1, <3>2
  <2> QED BY <2>9, <2>10, <2>11 DEF Copies
<1> QED BY <1>1, <1>2

LEMMA CopiesStep ==
    ASSUME Shape, Copies, [Next]_vars
    PROVE  Copies'
<1>1. ASSUME directories \subseteq directories', UNCHANGED <<backups, deletions>>
      PROVE  Copies'
  BY <1>1 DEF Copies, BackupIsFirst
<1>2. ASSUME NEW f \in flying, BackUp(f)
      PROVE  Copies'
  <2>1. CASE UNCHANGED <<directories, backups, deletions>>
    BY <1>1, <2>1
  <2>2. CASE /\ directories' = CreateAllDirectories(directories, BackupFolder(f.op))
             /\ CopyFile(f)
    <3>1. directories \subseteq directories'
      BY <2>2 DEF CreateAllDirectories
    <3> QED BY <2>2, <3>1, NewCopy
  <2> QED BY <1>2, <2>1, <2>2 DEF BackUp
<1>3. CASE StartVisit \/ StopVisit \/ OptionReceived
  <2>1. UNCHANGED <<backups, deletions>>
    BY <1>3 DEF StartVisit, StopVisit, OptionReceived, historyVars
  <2>2. directories \subseteq directories'
    BY <1>3 DEF StartVisit, StopVisit, OptionReceived, setMonitorModifiedFiles,
       CreateADirectory
  <2> QED BY <1>1, <2>1, <2>2
<1>4. CASE ClearCreatedFiles
  BY <1>4 DEF ClearCreatedFiles, Copies, BackupIsFirst
<1> QED BY <1>1, <1>2, <1>3, <1>4, Writers

-----------------------------------------------------------------------------
(* The exclusion list.                                                      *)
LEMMA NamesOfEvents == \A o : getFileEventName(o) \in OwnActions \cup {""}
BY DEF getFileEventName, OwnActions

(* What is done to Capture's own files is allowed by the permissions of the *)
(* constructor: only one that disallows it lets it be reported.             *)
LEMMA OwnReported ==
    ASSUME NEW o \in EveryOperation, Listed, Reported(o),
           NEW name \in OwnFiles, name = DosNameOf(o)
    PROVE  Justified(name)
<1> DEFINE action == getFileEventName(o)
           verdicts == {Check(p, o.process, name) : p \in {q \in permissions : q.action = action}}
<1>1. action \in OwnActions
  BY NamesOfEvents DEF Reported
<1>2. o.process \in EveryProcess
  BY DEF EveryProcess
<1>3. ~("ALLOWED" \in verdicts /\ "DISALLOWED" \notin verdicts)
  BY DEF Reported, isEventAllowed
<1>4. "ALLOWED" \in verdicts
  <2> DEFINE p == Permission(Exclusion("+", action, EveryProcess, OwnFiles), TRUE, TRUE)
  <2>1. p \in Permanents
    BY <1>1 DEF Permanents
  <2>2. p \in permissions
    BY <2>1 DEF Listed
  <2>3. p.action = action /\ p.subject = EveryProcess /\ p.object = OwnFiles /\ p.allow
    BY DEF Permission, Exclusion
  <2>4. Check(p, o.process, name) = "ALLOWED"
    BY <1>2, <2>3 DEF Check
  <2> HIDE DEF p
  <2> QED BY <2>2, <2>3, <2>4
<1>5. PICK p \in permissions : Check(p, o.process, name) = "DISALLOWED"
  BY <1>3, <1>4
<1>6. name \in p.object /\ ~p.allow
  BY <1>5 DEF Check
<1> QED BY <1>6 DEF Listed, Justified

(* What the server does to the list.                                        *)
LEMMA ListChanges ==
    ASSUME Listed, [Next]_vars
    PROVE  /\ {p \in permissions' : p.permanent} = Permanents
           /\ \A p \in permissions' :
                 ~p.allow => \E x \in Sources' : FALSE \in Allow(x.excluded) /\ p.object = x.object
           /\ added \subseteq added'
<1>1. CASE UNCHANGED <<permissions, added>>
  BY <1>1 DEF Listed, Sources
<1>2. CASE ListCleared
  <2>1. permissions' = {p \in permissions : p.permanent} /\ added' = added
    BY <1>2 DEF ListCleared, clearExclusionList
  <2> QED BY <2>1 DEF Listed, Sources
<1>3. ASSUME NEW x \in Received, onFileExclusionReceived(x)
      PROVE  /\ {p \in permissions' : p.permanent} = Permanents
             /\ \A p \in permissions' : ~p.allow =>
                   \E y \in Sources' : FALSE \in Allow(y.excluded) /\ p.object = y.object
             /\ added \subseteq added'
  <2>1. CASE UNCHANGED <<permissions, added>>
    BY <2>1 DEF Listed, Sources
  <2>2. CASE permissions' \in addExclusion(permissions, x, FALSE) /\ added' = added \cup {x}
    <3>1. PICK allow \in Allow(x.excluded) :
             permissions' = permissions \cup {Permission(x, allow, FALSE)}
      BY <2>2 DEF addExclusion
    <3> DEFINE new == Permission(x, allow, FALSE)
    <3>2. ~new.permanent /\ new.object = x.object /\ new.allow = allow
      BY DEF Permission
    <3>3. permissions' = permissions \cup {new}
      BY <3>1
    <3>4. Sources' = Sources \cup {x}
      BY <2>2 DEF Sources
    <3>5. allow \in BOOLEAN
      BY DEF Allow
    <3> HIDE DEF new
    <3>6. ~new.allow => FALSE \in Allow(x.excluded)
      <4>1. CASE allow = TRUE
        BY <3>2, <4>1
      <4>2. CASE allow = FALSE
        BY <4>2
      <4> QED BY <3>5, <4>1, <4>2
    <3>7. {p \in permissions' : p.permanent} = {p \in permissions : p.permanent}
      BY <3>2, <3>3
    <3>8. \A p \in permissions' :
             ~p.allow => \E y \in Sources' : FALSE \in Allow(y.excluded) /\ p.object = y.object
      BY <3>2, <3>3, <3>4, <3>6 DEF Listed
    <3> QED BY <2>2, <3>7, <3>8 DEF Listed
  <2> QED BY <1>3, <2>1, <2>2 DEF onFileExclusionReceived
<1> QED BY <1>1, <1>2, <1>3, Writers

(* What is passed on, and what is still to be, has been reported.           *)
LEMMA ListedStep ==
    ASSUME TypeOK, Shape, Listed, [Next]_vars
    PROVE  Listed'
<1> DEFINE o == Head(buffer).op
<1>1. ASSUME NEW name, Justified(name) PROVE Justified(name)'
  BY <1>1, ListChanges DEF Justified, Sources
<1>2. ASSUME NEW name \in OwnFiles, thread' = "modify", name = DosNameOf(Head(buffer').op)
      PROVE  Justified(name)
  <2>1. CASE Examine
    <3>1. /\ Reported(o) /\ buffer' = buffer /\ o \in EveryOperation
      BY <1>2, <2>1, Looking DEF Examine, Advance, Signal
    <3> HIDE DEF o
    <3>2. name = DosNameOf(o)
      BY <1>2, <3>1 DEF o
    <3> QED BY <3>1, <3>2, OwnReported
  <2>2. CASE UNCHANGED <<thread, buffer>>
    BY <1>2, <2>2 DEF Listed
  <2>3. CASE Modify
    BY <1>2, <2>3 DEF Modify, Signal, Advance
  <2>4. CASE GetFileEvents \/ DisconnectCallback
    BY <1>2, <2>4 DEF GetFileEvents, DisconnectCallback
  <2> QED BY <2>1, <2>2, <2>3, <2>4, Writers
<1>3. ASSUME NEW name \in OwnFiles, name \in signalled'
      PROVE  Justified(name)
  <2>1. CASE name \in signalled
    BY <1>3, <2>1 DEF Listed, OwnFilesAreSilent, Justified, Sources
  <2>2. CASE Examine /\ name \notin signalled
    <3>1. Reported(o) /\ name = DosNameOf(o) /\ o \in EveryOperation
      BY <1>3, <2>2, Looking DEF Examine, Signal
    <3> HIDE DEF o
    <3> QED BY <3>1, OwnReported
  <2>3. CASE Modify /\ name \notin signalled
    <3>1. thread = "modify" /\ name = DosNameOf(o)
      BY <1>3, <2>3 DEF Modify, Signal
    <3> QED BY <3>1 DEF Listed
  <2> QED BY <1>3, <2>1, <2>2, <2>3, Writers
<1>4. OwnFilesAreSilent'
  BY <1>1, <1>3 DEF OwnFilesAreSilent, Justified, Sources
<1>5. \A name \in OwnFiles :
         thread' = "modify" /\ name = DosNameOf(Head(buffer').op) => Justified(name)'
  BY <1>1, <1>2
<1> QED BY <1>4, <1>5, ListChanges DEF Listed

-----------------------------------------------------------------------------
LEMMA TypeStep ==
    ASSUME TypeOK, Shape, Counted', Copies', Listed', [Next]_vars,
           started' \in 0..MaxOperations, occurred' \in 0..started',
           \A f \in flying' : f.id \in 1..started' /\ f.stage \in {"backup", "passed"}
    PROVE  TypeOK'
<1> USE FileBounds
<1>1. /\ driver' \in {"loaded", "disconnected", "unregistered", "off"}
      /\ visitor' \in {"idle", "visiting", "copy", "clear"}
  BY Writers DEF TypeOK, DisconnectCallback, Unregister, FilterUnload, StartVisit, StopVisit,
     copyCreatedFiles, ClearCreatedFiles
<1>2. /\ thread' \in {"off", "poll", "examine", "modify"}
      /\ thread' \in {"examine", "modify"} => buffer' # <<>>
      /\ Len(buffer') <= BufferSize
  <2>1. CASE UNCHANGED <<thread, buffer>>
    BY <2>1 DEF TypeOK
  <2>2. CASE GetFileEvents
    <3>1. PICK n \in 0..Len(queue) :
             /\ n <= BufferSize /\ buffer' = SubSeq(queue, 1, n)
             /\ thread' = IF n = 0 THEN "poll" ELSE "examine"
      BY <2>2, Taken
    <3>2. queue \in Seq(Event) /\ n \in Nat /\ n <= Len(queue)
      BY LenProperties DEF Shape
    <3>3. Len(buffer') = n
      BY <3>1, <3>2, FrontIs
    <3>4. n # 0 => buffer' # <<>>
      BY <3>3, Nothing
    <3> QED BY <3>1, <3>3, <3>4
  <2>3. CASE Examine \/ Modify
    <3>1. buffer # <<>> /\ buffer \in Seq(Event) /\ Len(buffer) <= BufferSize
      BY <2>3, Looking DEF Examine, Modify, Shape, TypeOK
    <3>2. Len(Tail(buffer)) <= BufferSize
      <4> DEFINE l == Len(Tail(buffer))
                 m == Len(buffer)
      <4>1. l = m - 1 /\ m \in Nat /\ m <= BufferSize
        BY <3>1, HeadTailProperties, LenProperties
      <4> HIDE DEF l, m
      <4>2. l <= BufferSize
        BY <4>1
      <4> QED BY <4>2 DEF l
    <3>3. \/ buffer' = buffer /\ thread' = "modify"
          \/ buffer' = Tail(buffer) /\ thread' = IF buffer' = <<>> THEN "poll" ELSE "examine"
      BY <2>3 DEF Examine, Modify, Signal, Advance
    <3> QED BY <3>1, <3>2, <3>3
  <2>4. CASE DisconnectCallback
    BY <2>4, Nothing DEF DisconnectCallback
  <2> QED BY <2>1, <2>2, <2>3, <2>4, Writers
<1>3. contact' \in {"recent", "late", "silent"} /\ logDirectory' \in {"none", "empty", "set"}
  BY DEF TypeOK, Next, Callback, Setup, Thread, Visitor, Receiver, End,
     PreFileOperationCallback, BackUp, PostFileOperationCallback, Age, ConnectionChecker,
     SetupAllocate, SetupFill, GetFileEvents, Examine, Modify, StartVisit, StopVisit,
     copyCreatedFiles, ClearCreatedFiles, OptionReceived, onFileExclusionReceived, ListCleared,
     DisconnectCallback, Unregister, FilterUnload, setMonitorModifiedFiles, SetupOff, SetupFree,
     vars, driverVars, threadVars, visitVars, listVars, historyVars
<1>4. setup' \in [Callers -> {"idle", "allocate", "fill"}]
  BY DEF TypeOK, Next, Callback, Setup, Thread, Visitor, Receiver, End,
     PreFileOperationCallback, BackUp, PostFileOperationCallback, Age, ConnectionChecker,
     SetupAllocate, SetupFill, GetFileEvents, Examine, Modify, StartVisit, StopVisit,
     copyCreatedFiles, ClearCreatedFiles, OptionReceived, onFileExclusionReceived, ListCleared,
     DisconnectCallback, Unregister, FilterUnload, setMonitorModifiedFiles, SetupOff, SetupFree,
     vars, driverVars, threadVars, visitVars, listVars, historyVars
<1>5. visit' \in 0..MaxVisits /\ messages' \in 0..MaxMessages
  <2>1. visit' = visit \/ (visit < MaxVisits /\ visit' = visit + 1)
    BY DEF Next, Callback, Setup, Thread, Visitor, Receiver, End,
       PreFileOperationCallback, BackUp, PostFileOperationCallback, Age, ConnectionChecker,
       SetupAllocate, SetupFill, GetFileEvents, Examine, Modify, StartVisit, StopVisit,
       copyCreatedFiles, ClearCreatedFiles, OptionReceived, onFileExclusionReceived, ListCleared,
       DisconnectCallback, Unregister, FilterUnload, setMonitorModifiedFiles, SetupOff, SetupFree,
       vars, driverVars, threadVars, visitVars, listVars, historyVars
  <2>2. messages' = messages \/ (messages < MaxMessages /\ messages' = messages + 1)
    BY DEF Next, Callback, Setup, Thread, Visitor, Receiver, End,
       PreFileOperationCallback, BackUp, PostFileOperationCallback, Age, ConnectionChecker,
       SetupAllocate, SetupFill, GetFileEvents, Examine, Modify, StartVisit, StopVisit,
       copyCreatedFiles, ClearCreatedFiles, OptionReceived, onFileExclusionReceived, ListCleared,
       DisconnectCallback, Unregister, FilterUnload, setMonitorModifiedFiles, SetupOff, SetupFree,
       vars, driverVars, threadVars, visitVars, listVars, historyVars
  <2> QED BY <2>1, <2>2 DEF TypeOK
<1>6. {collect', monitorModifiedFiles', crashed'} \subseteq BOOLEAN
  BY DEF TypeOK, Next, Callback, Setup, Thread, Visitor, Receiver, End,
     PreFileOperationCallback, BackUp, PostFileOperationCallback, Age, ConnectionChecker,
     SetupAllocate, SetupFill, GetFileEvents, Examine, Modify, StartVisit, StopVisit,
     copyCreatedFiles, ClearCreatedFiles, OptionReceived, onFileExclusionReceived, ListCleared,
     DisconnectCallback, Unregister, FilterUnload, setMonitorModifiedFiles, SetupOff, SetupFree,
     vars, driverVars, threadVars, visitVars, listVars, historyVars
<1>7. collect' \in BOOLEAN /\ monitorModifiedFiles' \in BOOLEAN /\ crashed' \in BOOLEAN
  BY <1>6
<1> QED BY <1>1, <1>2, <1>3, <1>4, <1>5, <1>7 DEF TypeOK, Copies, Listed

LEMMA NextInvariant == IInv /\ [Next]_vars => IInv'
<1> SUFFICES ASSUME IInv, [Next]_vars PROVE IInv'
  OBVIOUS
<1>1. TypeOK /\ Shape /\ Counted /\ Drained /\ Order /\ Periods /\ Copies /\ Listed
  BY DEF IInv
<1>2. Shape'
  BY <1>1, ShapeStep
<1>3. /\ Counted'
      /\ started' \in 0..MaxOperations /\ occurred' \in 0..started'
      /\ \A f \in flying' : f.id \in 1..started' /\ f.stage \in {"backup", "passed"}
  BY <1>1, CountedStep
<1>4. Copies' /\ Listed'
  BY <1>1, CopiesStep, ListedStep
<1>5. TypeOK'
  BY <1>1, <1>3, <1>4, TypeStep
<1>6. Drained' /\ Periods'
  BY <1>1, DrainedStep, PeriodsStep
<1>7. Order'
  BY <1>1, <1>2, OrderStep
<1> QED BY <1>2, <1>3, <1>4, <1>5, <1>6, <1>7 DEF IInv

LEMMA Invariance == Spec => []IInv
BY InitInvariant, NextInvariant, PTL DEF Spec

(* The states of the driver, of the monitor's thread and of the two threads *)
(* of the client; the constructor's exclusions are there for good.          *)
THEOREM TypeCorrect == Spec => []TypeOK
<1>1. IInv => TypeOK
  BY DEF IInv
<1> QED BY <1>1, Invariance, PTL

(* Of the files copied at the end of a visit at most one was examined       *)
(* before the modified files were last cleared, wherever the monitor's      *)
(* thread is while the Visitor's copies and clears them.                    *)
THEOREM LateFiles == Spec => []LateIsOne
<1>1. ASSUME IInv PROVE LateIsOne
  <2> SUFFICES ASSUME visitor = "clear"
               PROVE  Cardinality({m \in copied : m.tested < period}) <= 1
    BY DEF LateIsOne
  <2> DEFINE late == {m \in copied : m.tested < period}
  <2>1. \A m, n \in late : m = n
    BY <1>1 DEF IInv, Periods, OneOf
  <2> HIDE DEF late
  <2>2. CASE late = {}
    <3>1. Cardinality(late) = 0
      BY <2>2, FS_EmptySet
    <3> QED BY <3>1 DEF late
  <2>3. CASE late # {}
    <3>1. PICK m \in late : TRUE
      BY <2>3
    <3>2. late = {m}
      BY <2>1, <3>1
    <3>3. Cardinality(late) = 1
      BY <3>2, FS_Singleton
    <3> QED BY <3>3 DEF late
  <2> QED BY <2>2, <2>3
<1> QED BY <1>1, Invariance, PTL

(* What happens to Capture's own files is passed on to the Analyzer only    *)
(* because of an exclusion that may disallow it.                            *)
THEOREM OwnFilesSilent == Spec => []OwnFilesAreSilent
<1>1. IInv => OwnFilesAreSilent
  BY DEF IInv, Listed
<1> QED BY <1>1, Invariance, PTL

(* Whatever the order of unload, disconnection and the ends of operations,  *)
(* the driver leaves no event, and of the files deleted under a path the    *)
(* first.                                                                   *)
THEOREM LeftBehind == Spec => []WhatDriverLeaves
<1>1. IInv => WhatDriverLeaves
  BY DEF IInv, Drained, Copies, WhatDriverLeaves, NothingLeft
<1> QED BY <1>1, Invariance, PTL

-----------------------------------------------------------------------------
(* The refinement: PostFileOperationCallback is Occur and Examine Deliver.  *)
LEMMA StreamInit == Init => Stream!Init
BY DEF Init, Stream!Init

LEMMA StreamStep == IInv /\ [Next]_vars => [Stream!Next]_<<occurred, examined>>
<1> SUFFICES ASSUME IInv, [Next]_vars PROVE [Stream!Next]_<<occurred, examined>>
  OBVIOUS
<1>1. ASSUME NEW f \in flying, PostFileOperationCallback(f)
      PROVE  Stream!Next
  BY <1>1 DEF PostFileOperationCallback, Stream!Next, Stream!Occur
<1>2. CASE Examine
  <2> DEFINE n == Head(buffer).number
  <2>1. TypeOK /\ Shape /\ Order /\ thread = "examine"
    BY <1>2 DEF IInv, Examine
  <2>2. buffer # <<>> /\ Head(buffer) = buffer[1] /\ 1 \in DOMAIN buffer /\ n \in Nat
    BY <2>1, Looking
  <2>3. Last < n /\ n <= occurred /\ Last \in Nat /\ occurred \in Nat
    BY <2>1, <2>2 DEF Order, Above, UpTo, TypeOK
  <2>4. examined' = Append(examined, n) /\ occurred' = occurred
    BY <1>2 DEF Examine
  <2> HIDE DEF n
  <2>5. n \in (Last + 1)..occurred
    BY <2>2, <2>3
  <2>6. Stream!Latest = Last
    BY DEF Stream!Latest, Last
  <2> QED BY <2>4, <2>5, <2>6 DEF Stream!Next, Stream!Deliver
<1> QED BY <1>1, <1>2, Writers DEF Modify

(* The events are examined in the order in which their operations ended,    *)
(* each at most once, however they overlap.                                 *)
THEOREM StreamOrder == Spec => ImplementsStream
<1>1. IInv /\ [Next]_vars => [Stream!Next]_(Stream!streamVars)
  BY StreamStep DEF Stream!streamVars
<1> QED BY <1>1, StreamInit, Invariance, PTL DEF Spec, ImplementsStream, Stream!Spec
=============================================================================
