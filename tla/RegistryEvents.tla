--------------------------- MODULE RegistryEvents ---------------------------
(***************************************************************************)
(* The registry monitor: the kernel driver CaptureRegistryMonitor, which   *)
(* queues an event for every registry operation, and the thread of         *)
(* RegistryMonitor, which asks it for a buffer of them and examines one    *)
(* after the other.                                                        *)
(*                                                                         *)
(*   - The driver keeps events only while somebody asks for them: no event *)
(*     is queued when the last request is more than Timeout seconds old,   *)
(*     and a timer's routine empties the queue when it is older still.     *)
(*   - The routine and a request test the list and take its head in two    *)
(*     steps each, and nothing keeps one out of the other.                 *)
(*   - The client may die and be started again while the driver stays.     *)
(*                                                                         *)
(* The clock is `silence`, the seconds since the last request.  Sizes are  *)
(* in units: the header of an event is one unit, its data are some more.   *)
(* Pool allocations succeed, and a driver routine ends before the clock    *)
(* ticks.                                                                  *)
(***************************************************************************)
EXTENDS Integers, Sequences, FiniteSets

CONSTANTS
    Timeout,      \* USERSPACE_CONNECTION_TIMEOUT
    BufferSize,   \* REGISTRY_EVENTS_BUFFER_SIZE
    Part,         \* the names a path is made of
    Request,      \* Request[n]: registry operations that may make the n-th event
    MaxEvents,    \* bound on the operations
    MaxSessions   \* bound on the starts of the client

ASSUME TimeoutAssumption == Timeout \in Nat \ {0}
ASSUME BufferAssumption == BufferSize \in Nat \ {0}
ASSUME RegistryBounds == MaxEvents \in Nat /\ MaxSessions \in Nat

(* What the configuration manager passes with an operation: the kind, its  *)
(* success, the object, the two names for it, and a value with its data.   *)
Operation ==
    [kind : STRING, success : BOOLEAN, object : BOOLEAN, complete : Seq(Part),
     queried : Seq(Part), value : Part \cup {""}, data : Nat]
ASSUME PartAssumption ==
    {"REGISTRY", "Registry", "%", "TRY", "MACHINE", "Machine", "USER", "sid",
     "_CLASSES", "HKCR", "HKCU", "HKLM", "HKU"} \subseteq Part
ASSUME RequestAssumption ==
    Request \in Seq(SUBSET Operation) /\ MaxEvents <= Len(Request)

Period == Timeout + Timeout \div 2
Cap == 2 * Period + 1         \* beyond it, silence is all the same

NoPath == <<>>
NoEvent == [id |-> 0, size |-> 0, session |-> 0, name |-> "", path |-> NoPath]

---------------------------------------------------------------------------
(* What the driver makes of an operation.  A path is a sequence of parts;  *)
(* "TRY" is the rest of a path the configuration manager has cut short.    *)

EventName ==
    [RegNtPostCreateKey |-> "CreateKey", RegNtPostOpenKey |-> "OpenKey",
     RegNtPreDeleteKey |-> "DeleteKey", RegNtDeleteValueKey |-> "DeleteValueKey",
     RegNtPreSetValueKey |-> "SetValueKey", RegNtEnumerateKey |-> "EnumerateKey",
     RegNtEnumerateValueKey |-> "EnumerateValueKey", RegNtQueryKey |-> "QueryKey",
     RegNtQueryValueKey |-> "QueryValueKey", RegNtKeyHandleClose |-> "CloseKey"]
PostKinds == {"RegNtPostCreateKey", "RegNtPostOpenKey"}
ValueKinds == {"RegNtDeleteValueKey", "RegNtPreSetValueKey", "RegNtQueryValueKey"}

Absolute(path) == Head(path) \in {"REGISTRY", "Registry", "%", "TRY"}

(* The name the configuration manager passes is taken when it is absolute, *)
(* the object manager is asked otherwise; it answers NoPath when it fails. *)
GetRegistryObjectCompleteName(r) ==
    CASE ~r.object -> NoPath
      [] r.object /\ r.complete # NoPath /\ Absolute(r.complete) -> r.complete
      [] OTHER -> r.queried

(* Only the operations named above, and the "post" ones if they succeeded. *)
Valid(r) ==
    /\ r.kind \in DOMAIN EventName
    /\ r.kind \in PostKinds => r.success
    /\ GetRegistryObjectCompleteName(r) # NoPath

PathOf(r) ==
    GetRegistryObjectCompleteName(r) \o
        (IF r.kind \in ValueKinds /\ r.value # "" THEN <<r.value>> ELSE <<>>)

Size(r) == 1 + (IF r.kind = "RegNtPreSetValueKey" /\ r.value # "" THEN r.data ELSE 0)

(* The client's table of hives, in the order in which it is searched, and  *)
(* the translation: the first entry the path begins with gives the hive.   *)
User == <<"REGISTRY", "USER", "sid">>

\* Mutants of ObjectNameMap.
MutObjectNameMap == << <<User, "HKCU">>, <<User \o <<"_CLASSES">>, "HKCR">> >>

ObjectNameMap ==
    << <<User \o <<"_CLASSES">>, "HKCR">>,
       <<User, "HKCU">>,
       << <<"REGISTRY", "MACHINE">>, "HKLM">>,
       << <<"REGISTRY", "USER">>, "HKU">>,
       << <<"Registry", "Machine">>, "HKLM">> >>

BeginsWith(path, prefix) ==
    Len(prefix) <= Len(path) /\ SubSeq(path, 1, Len(prefix)) = prefix
Matches(path) == {i \in DOMAIN ObjectNameMap : BeginsWith(path, ObjectNameMap[i][1])}
Under(path, i) ==
    <<ObjectNameMap[i][2]>> \o
        SubSeq(path, Len(ObjectNameMap[i][1]) + 1, Len(path))

convertRegistryObjectNameToHiveName(path) ==
    IF Matches(path) = {} THEN path
    ELSE Under(path, CHOOSE i \in Matches(path) : \A j \in Matches(path) : i <= j)

---------------------------------------------------------------------------
VARIABLES
    loaded,     \* the driver is loaded, its callback and its timer are set
    queue,      \* lQueuedRegistryEvents
    silence,    \* seconds since lastContactTime
    due,        \* seconds until the timer calls ConnectionChecker
    checker,    \* where ConnectionChecker is
    crashed,    \* a routine has followed a null pointer: the machine stops
    thread,     \* where the monitor's thread is, in the client or the driver
    hand,       \* the event a request has taken off the list
    buffer,     \* events copied for the client, not examined yet
    bufferSpaceUsed, \* by the events a request has copied
    running,    \* monitorRunning
    stopEvent,  \* the thread's hStopEvent
    stopper,    \* where RegistryMonitor::stop is
    occurred,   \* valid operations so far
    examined,   \* events the thread has examined, in that order
    session,    \* starts of the client so far
    pause,      \* the silence before this session's first request, or -1
    gap         \* a silence beyond Timeout, a stop or a death of the client

driverVars == <<loaded, queue, silence, due, checker, crashed>>
requestVars == <<hand, buffer, bufferSpaceUsed>>
clientVars == <<thread, requestVars, running, stopEvent, stopper>>
historyVars == <<occurred, examined, session, pause, gap>>
vars == <<driverVars, clientVars, historyVars>>

Event == [id : 1..MaxEvents, size : Nat \ {0}, session : 0..MaxSessions,
          name : {EventName[k] : k \in DOMAIN EventName}, path : Seq(Part)]

Space == BufferSize - bufferSpaceUsed

TypeOK ==
    /\ loaded \in BOOLEAN /\ crashed \in BOOLEAN /\ running \in BOOLEAN
    /\ stopEvent \in BOOLEAN /\ gap \in BOOLEAN
    /\ queue \in Seq(Event) /\ buffer \in Seq(Event) /\ bufferSpaceUsed \in 0..BufferSize
    /\ examined \in Seq([id : 1..MaxEvents, path : Seq(Part), hive : Seq(Part)])
    /\ hand \in Event \cup {NoEvent}
    /\ silence \in 0..Cap /\ due \in 0..Period
    /\ checker \in {"idle", "test", "remove"}
    /\ thread \in {"off", "poll", "test", "remove", "copy", "examine", "ended"}
    /\ stopper \in {"idle", "wait", "join", "done"}
    /\ occurred \in 0..MaxEvents /\ session \in 0..MaxSessions
    /\ pause \in -1..Cap

Init ==
    /\ loaded = FALSE /\ queue = <<>> /\ silence = 0 /\ due = 0
    /\ checker = "idle" /\ crashed = FALSE
    /\ thread = "off" /\ hand = NoEvent /\ buffer = <<>> /\ bufferSpaceUsed = 0
    /\ running = FALSE /\ stopEvent = FALSE /\ stopper = "idle"
    /\ occurred = 0 /\ examined = <<>> /\ session = 0 /\ pause = -1 /\ gap = FALSE

(* The thread is between KDispatchIoctl's beginning and its end, where it  *)
(* can be neither ended nor terminated.                                    *)
InDriver == thread \in {"test", "remove", "copy"}

Lives == loaded /\ ~crashed

---------------------------------------------------------------------------
(* The driver. *)

(* Loaded by the constructor of Monitor.  The timer is due at once.        *)
DriverEntry ==
    /\ ~loaded /\ ~crashed
    /\ session < MaxSessions
    /\ loaded' = TRUE /\ queue' = <<>> /\ silence' = 0 /\ due' = 0
    /\ UNCHANGED <<checker, crashed, clientVars, historyVars>>

Tick ==
    /\ Lives /\ due > 0 /\ checker = "idle" /\ ~InDriver
    /\ silence' = IF silence < Cap THEN silence + 1 ELSE Cap
    /\ due' = due - 1
    /\ gap' = (gap \/ silence' > Timeout)
    /\ UNCHANGED <<loaded, queue, checker, crashed, clientVars>>
    /\ UNCHANGED <<occurred, examined, session, pause>>

\* Mutants of QueueRegistryEvent.
MutQueueStrictly(e) == queue' = IF silence < Timeout THEN Append(queue, e) ELSE queue
MutQueueAlways(e) == queue' = Append(queue, e)

QueueRegistryEvent(e) ==
    queue' = IF silence <= Timeout THEN Append(queue, e) ELSE queue

RegistryCallback(r) ==
    /\ Lives /\ Valid(r)
    /\ QueueRegistryEvent([id |-> occurred + 1, size |-> Size(r), session |-> session,
                           name |-> EventName[r.kind], path |-> PathOf(r)])
    /\ occurred' = occurred + 1
    /\ UNCHANGED <<loaded, silence, due, checker, crashed, clientVars>>
    /\ UNCHANGED <<examined, session, pause, gap>>

(* ConnectionChecker: called when the timer is due ...                     *)
ConnectionChecker ==
    /\ Lives /\ due = 0 /\ checker = "idle"
    /\ due' = Period
    /\ checker' = IF silence > Period THEN "test" ELSE "idle"
    /\ UNCHANGED <<loaded, queue, silence, crashed, clientVars, historyVars>>

(* ... it tests the list, and takes its head in the next step, which is a  *)
(* null pointer if a request was faster.                                   *)
CheckerTest ==
    /\ Lives /\ checker = "test"
    /\ checker' = IF queue = <<>> THEN "idle" ELSE "remove"
    /\ UNCHANGED <<loaded, queue, silence, due, crashed, clientVars, historyVars>>

CheckerRemove ==
    /\ Lives /\ checker = "remove"
    /\ IF queue = <<>>
       THEN crashed' = TRUE /\ UNCHANGED <<queue, checker>>
       ELSE queue' = Tail(queue) /\ checker' = "test" /\ UNCHANGED crashed
    /\ UNCHANGED <<loaded, silence, due, clientVars, historyVars>>

UpdateLastContactTime == silence' = 0

(* KDispatchIoctl and HandleIoctlGetRegEvents, called by the thread.  What *)
(* bufferSpaceUsed counts is of this request only.                         *)
KDispatchIoctl ==
    /\ UpdateLastContactTime
    /\ pause' = IF pause < 0 THEN silence ELSE pause
    /\ thread' = "test"

RequestTest ==
    /\ Lives /\ thread = "test"
    /\ \/ /\ queue # <<>> /\ Space >= 1
          /\ thread' = "remove" /\ UNCHANGED bufferSpaceUsed
       \/ /\ ~(queue # <<>> /\ Space >= 1)
          /\ thread' = IF buffer # <<>> THEN "examine" ELSE "poll"
          /\ bufferSpaceUsed' = 0
    /\ UNCHANGED <<driverVars, hand, buffer, running, stopEvent, stopper, historyVars>>

(* An empty list is an access violation the request catches: it returns no *)
(* bytes, and what it has copied is lost.                                  *)
RequestRemove ==
    /\ Lives /\ thread = "remove"
    /\ \/ /\ queue = <<>>
          /\ buffer' = <<>> /\ bufferSpaceUsed' = 0 /\ thread' = "poll"
          /\ UNCHANGED <<queue, hand>>
       \/ /\ queue # <<>>
          /\ hand' = Head(queue) /\ queue' = Tail(queue) /\ thread' = "copy"
          /\ UNCHANGED <<buffer, bufferSpaceUsed>>
    /\ UNCHANGED <<loaded, silence, due, checker, crashed>>
    /\ UNCHANGED <<running, stopEvent, stopper, historyVars>>

\* Mutants of Fits and PutBack.
MutFitsBuffer == hand.size <= BufferSize
MutFitsStrictly == hand.size < Space
MutPutBack == queue' = Append(queue, hand)

Fits == hand.size <= Space
PutBack == queue' = <<hand>> \o queue

RequestCopy ==
    /\ Lives /\ thread = "copy"
    /\ \/ /\ Fits
          /\ buffer' = Append(buffer, hand) /\ thread' = "test"
          /\ bufferSpaceUsed' = bufferSpaceUsed + hand.size
          /\ UNCHANGED queue
       \/ /\ ~Fits
          /\ PutBack
          /\ thread' = IF buffer # <<>> THEN "examine" ELSE "poll"
          /\ bufferSpaceUsed' = 0
          /\ UNCHANGED buffer
    /\ hand' = NoEvent
    /\ UNCHANGED <<loaded, silence, due, checker, crashed>>
    /\ UNCHANGED <<running, stopEvent, stopper, historyVars>>

(* KeCancelTimer does not wait for a routine that is running: its next     *)
(* step may be in memory that is gone.                                     *)
UnloadDriver ==
    /\ Lives /\ stopper = "done" /\ thread = "off"
    /\ loaded' = FALSE /\ queue' = <<>>
    /\ IF checker = "idle" THEN UNCHANGED crashed ELSE crashed' \in BOOLEAN
    /\ checker' = "idle" /\ stopper' = "idle"
    /\ UNCHANGED <<silence, due, thread, requestVars, running, stopEvent, historyVars>>

---------------------------------------------------------------------------
(* The client. *)

(* start(), called once by the Analyzer; the thread begins run() before    *)
(* anybody stops it.                                                       *)
Start ==
    /\ Lives /\ thread = "off" /\ stopper = "idle" /\ session < MaxSessions
    /\ thread' = "poll" /\ running' = TRUE /\ session' = session + 1 /\ pause' = -1
    /\ UNCHANGED <<driverVars, requestVars, stopEvent, stopper, occurred, examined, gap>>

(* The head of the loop in run(), after the Sleep: the request, or the end.*)
Run ==
    /\ Lives /\ thread = "poll"
    /\ IF running /\ ~stopEvent
       THEN KDispatchIoctl
       ELSE thread' = "ended" /\ UNCHANGED <<silence, pause>>
    /\ UNCHANGED <<loaded, queue, due, checker, crashed>>
    /\ UNCHANGED <<requestVars, running, stopEvent, stopper, occurred, examined, session, gap>>

(* One round of the loop over the buffer.  The stop event ends it, and     *)
(* what is left of the buffer is zeroed.                                   *)
Examine ==
    /\ Lives /\ thread = "examine"
    /\ LET e == Head(buffer) IN
         examined' = Append(examined,
             [id |-> e.id, path |-> e.path,
              hive |-> convertRegistryObjectNameToHiveName(e.path)])
    /\ buffer' = IF stopEvent THEN <<>> ELSE Tail(buffer)
    /\ thread' = IF buffer' = <<>> THEN "poll" ELSE "examine"
    /\ UNCHANGED <<driverVars, hand, bufferSpaceUsed, running, stopEvent, stopper>>
    /\ UNCHANGED <<occurred, session, pause, gap>>

(* stop(), called by the destructor: it waits a second for the thread,     *)
(* sets the stop event, waits five and terminates the thread.              *)
StopBegin ==
    /\ Lives /\ running /\ stopper = "idle"
    /\ running' = FALSE /\ stopper' = "wait" /\ gap' = TRUE
    /\ UNCHANGED <<driverVars, thread, requestVars, stopEvent>>
    /\ UNCHANGED <<occurred, examined, session, pause>>

StopSignal ==
    /\ Lives /\ stopper = "wait"
    /\ stopEvent' = TRUE /\ stopper' = "join"
    /\ UNCHANGED <<driverVars, thread, requestVars, running, historyVars>>

StopJoin ==
    /\ Lives /\ stopper = "join" /\ ~InDriver
    /\ thread' = "off" /\ buffer' = <<>> /\ stopEvent' = FALSE /\ stopper' = "done"
    /\ UNCHANGED <<driverVars, hand, bufferSpaceUsed, running, historyVars>>

(* The client dies with its threads; the driver stays loaded.              *)
ClientDies ==
    /\ Lives /\ thread # "off" /\ ~InDriver
    /\ thread' = "off" /\ buffer' = <<>> /\ running' = FALSE
    /\ stopEvent' = FALSE /\ stopper' = "idle" /\ gap' = TRUE
    /\ UNCHANGED <<driverVars, hand, bufferSpaceUsed, occurred, examined, session, pause>>

---------------------------------------------------------------------------
Request_ == RequestTest \/ RequestRemove \/ RequestCopy
Checker == ConnectionChecker \/ CheckerTest \/ CheckerRemove
Stop == StopBegin \/ StopSignal \/ StopJoin
Thread == Run \/ Request_ \/ Examine

Next ==
    \/ DriverEntry \/ Tick \/ UnloadDriver \/ Checker
    \/ occurred < MaxEvents /\ \E r \in Request[occurred + 1] : RegistryCallback(r)
    \/ Start \/ Thread \/ Stop \/ ClientDies

Spec == Init /\ [][Next]_vars

(* The clock, the timer and the thread go on; nobody has to start or stop. *)
FairSpec == Spec /\ WF_vars(Tick) /\ WF_vars(Checker) /\ WF_vars(Thread)

---------------------------------------------------------------------------
(* The thread examines the driver's events in their order and at most      *)
(* once: putting back the event that does not fit keeps its place, even    *)
(* with the callback and ConnectionChecker between the two list calls of   *)
(* HandleIoctlGetRegEvents, and over a restart of the client.              *)
Ids(s) == [i \in DOMAIN s |-> s[i].id]
Stream == INSTANCE EventStream WITH occurred <- occurred, delivered <- Ids(examined)
ImplementsStream == Stream!Spec

(* While the requests keep within Timeout, no event is lost, whatever the  *)
(* checker does: what was examined, copied, taken in hand and queued are   *)
(* all the events in order, and no routine met an empty list.  So          *)
(* ConnectionChecker and a request are never in the list together.         *)
InHand == IF hand = NoEvent THEN <<>> ELSE <<hand>>
PolledIsComplete ==
    loaded /\ ~gap =>
        /\ ~crashed
        /\ Ids(examined) \o Ids(buffer) \o Ids(InHand) \o Ids(queue)
               = [i \in 1..occurred |-> i]

(* An event from before this start of the client is examined only if the   *)
(* client's first request came within two periods of the timer after the   *)
(* last one of its predecessor: what QueueRegistryEvent has queued does    *)
(* not outlive ConnectionChecker.                                          *)
StaleIsRecent ==
    [][examined' # examined /\ Head(buffer).session < session
           => pause <= 2 * Period]_vars

(* An event leaves the queue, for the client's buffer or for good.  It may *)
(* stay only behind an event that is larger than the whole buffer, which   *)
(* HandleIoctlGetRegEvents puts back at every request: the data of a       *)
(* SetValueKey have no bound in RegistryCallback.                          *)
Waiting == InHand \o queue
Held(id) == \E i \in DOMAIN Waiting : Waiting[i].id = id
BehindOversize(id) ==
    \E i \in DOMAIN Waiting : Waiting[i].id <= id /\ Waiting[i].size > BufferSize
QueuedLeaves ==
    \A id \in 1..MaxEvents : Held(id) ~> ~Held(id) \/ BehindOversize(id) \/ crashed

(* The hive of an examined path is that of the most specific entry of the  *)
(* table: initialiseObjectNameMap must not put an entry before one that    *)
(* extends it.                                                             *)
HiveIsSpecific ==
    \A i \in DOMAIN examined :
        LET path == examined[i].path IN
        \A j \in Matches(path) :
            \E k \in Matches(path) :
                /\ Len(ObjectNameMap[k][1]) >= Len(ObjectNameMap[j][1])
                /\ examined[i].hive = Under(path, k)

(* What the monitor's thread examines is right: nothing is missing while it *)
(* polls, though driver, timer and client restarts meet in the queue, and   *)
(* every path is shown under the right hive.                                *)
ExaminedIsRight == PolledIsComplete /\ HiveIsSpecific

(* What HandleIoctlGetRegEvents hands out is the driver's stream of events, *)
(* and what a new client gets of its predecessor's is recent.               *)
StreamIsRecent == ImplementsStream /\ StaleIsRecent

=============================================================================
