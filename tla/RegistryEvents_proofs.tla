------------------------ MODULE RegistryEvents_proofs ------------------------
(***************************************************************************)
(* Proofs about RegistryEvents, for every time-out, size of the buffer and *)
(* choice of operations: all its safety properties.                        *)
(*                                                                         *)
(* An event is in one of four places: examined, copied to the buffer, in   *)
(* the hand of a request, or queued.  Order says that the places hold the  *)
(* events in their order, and gives the refinement of EventStream.  While  *)
(* the requests keep within the time-out ConnectionChecker is idle, so     *)
(* that nothing leaves the places but through the thread: Whole says where *)
(* each event is.  Fresh bounds the silence and the time until the checker *)
(* is due, as long as something is queued.                                 *)
(***************************************************************************)
EXTENDS RegistryEvents, SequenceTheorems, TLAPS

(* A hand is full exactly while an event is copied, and a buffer is of the  *)
(* request or of the loop over it.                                          *)
Local ==
    /\ hand # NoEvent <=> thread = "copy"
    /\ thread = "examine" => buffer # <<>>
    /\ thread \in {"off", "poll", "ended"} => buffer = <<>>
    /\ ~InDriver => bufferSpaceUsed = 0
    /\ thread # "off" => loaded
    /\ ~loaded => queue = <<>> /\ checker = "idle"
    /\ InDriver => silence = 0

(* What the thread has examined has the hive of its path.                   *)
Hives ==
    \A i \in DOMAIN examined :
        examined[i].hive = convertRegistryObjectNameToHiveName(examined[i].path)

Increasing(s) == \A i, j \in DOMAIN s : i < j => s[i].id < s[j].id
Before(s, t) == \A i \in DOMAIN s, j \in DOMAIN t : s[i].id < t[j].id
UpTo(s, n) == \A i \in DOMAIN s : s[i].id <= n

(* The places hold the events in the order in which they took place.        *)
Order ==
    /\ Increasing(buffer) /\ Increasing(queue)
    /\ Before(examined, buffer) /\ Before(examined, InHand) /\ Before(examined, queue)
    /\ Before(buffer, InHand) /\ Before(buffer, queue) /\ Before(InHand, queue)
    /\ UpTo(examined, occurred) /\ UpTo(buffer, occurred)
    /\ UpTo(InHand, occurred) /\ UpTo(queue, occurred)

(* Without a gap the checker sleeps, and the places hold every event.       *)
Quiet ==
    /\ silence <= Timeout /\ checker = "idle" /\ ~crashed
    /\ stopper = "idle" /\ ~stopEvent
    /\ thread = "remove" => queue # <<>>
From(s, n) == \A i \in DOMAIN s : s[i].id = n + i
Whole ==
    /\ From(examined, 0)
    /\ From(buffer, Len(examined))
    /\ From(InHand, Len(examined) + Len(buffer))
    /\ From(queue, Len(examined) + Len(buffer) + Len(InHand))
    /\ occurred = Len(examined) + Len(buffer) + Len(InHand) + Len(queue)
Complete == ~gap => Quiet /\ Whole

(* The events that may still be examined.                                   *)
Kept == Range(queue) \cup Range(buffer) \cup Range(InHand)

(* What is queued will be taken by the checker within two periods of the    *)
(* last request, and an event of an earlier start of the client has been    *)
(* met within two periods.                                                  *)
CheckerIsDue ==
    queue # <<>> => \/ silence + due <= 2 * Period
                    \/ checker # "idle" /\ silence <= 2 * Period
Fresh ==
    /\ CheckerIsDue
    /\ pause < 0 => thread \in {"off", "poll", "ended"}
    /\ \A e \in Kept : e.session <= session
    /\ (\E e \in Kept : e.session < session) => pause <= 2 * Period

IInv == TypeOK /\ Local /\ Hives /\ Order /\ Complete /\ Fresh
-----------------------------------------------------------------------------
(* What the list calls of the driver do to a sequence.                      *)
LEMMA Appended ==
    ASSUME NEW S, NEW s \in Seq(S), NEW e \in S
    PROVE  /\ Append(s, e) \in Seq(S) /\ Append(s, e) # <<>>
           /\ Len(Append(s, e)) = Len(s) + 1
           /\ DOMAIN Append(s, e) = 1..(Len(s) + 1)
           /\ \A i \in 1..Len(s) : Append(s, e)[i] = s[i]
           /\ Append(s, e)[Len(s) + 1] = e
BY LenProperties, AppendProperties

LEMMA Taken ==
    ASSUME NEW S, NEW s \in Seq(S), s # <<>>
    PROVE  /\ Len(s) \in Nat /\ Len(s) > 0 /\ Head(s) \in S /\ Head(s) = s[1]
           /\ Tail(s) \in Seq(S) /\ Len(Tail(s)) = Len(s) - 1
           /\ DOMAIN Tail(s) = 1..(Len(s) - 1)
           /\ \A i \in 1..(Len(s) - 1) : Tail(s)[i] = s[i + 1]
BY LenProperties, HeadTailProperties, EmptySeq

LEMMA PutInFront ==
    ASSUME NEW S, NEW s \in Seq(S), NEW e \in S
    PROVE  /\ <<e>> \o s \in Seq(S) /\ <<e>> \o s # <<>>
           /\ Len(<<e>> \o s) = Len(s) + 1
           /\ DOMAIN (<<e>> \o s) = 1..(Len(s) + 1)
           /\ (<<e>> \o s)[1] = e
           /\ \A i \in 1..Len(s) : (<<e>> \o s)[i + 1] = s[i]
<1>1. <<e>> \in Seq(S) /\ Len(<<e>>) = 1 /\ <<e>>[1] = e
  OBVIOUS
<1> DEFINE x == <<e>>
<1>2. x \in Seq(S) /\ Len(x) = 1 /\ x[1] = e
  BY <1>1
<1> HIDE DEF x
<1>3. x \o s \in Seq(S) /\ Len(x \o s) = Len(s) + 1
  <2> DEFINE y == x \o s
             n == Len(s)
             m == Len(x)
  <2>1. y \in Seq(S) /\ Len(y) = m + n /\ m = 1 /\ n \in Nat
    BY <1>2, ConcatProperties, LenProperties
  <2> HIDE DEF y, n, m
  <2> QED BY <2>1 DEF y, n
<1>4. \A i \in 1..(Len(x) + Len(s)) :
         (x \o s)[i] = IF i <= Len(x) THEN x[i] ELSE s[i - Len(x)]
  BY <1>2, ConcatProperties
<1>5. (x \o s)[1] = e /\ \A i \in 1..Len(s) : (x \o s)[i + 1] = s[i]
  <2> DEFINE y == x \o s
             n == Len(s)
             m == Len(x)
  <2>1. \A i \in 1..(m + n) : y[i] = IF i <= m THEN x[i] ELSE s[i - m]
    BY <1>4
  <2>2. n \in Nat /\ m = 1
    BY <1>2, LenProperties
  <2> HIDE DEF y, n, m
  <2>3. y[1] = e
    BY <2>1, <2>2, <1>2
  <2>4. \A i \in 1..n : y[i + 1] = s[i]
    BY <2>1, <2>2
  <2> QED BY <2>3, <2>4 DEF y, n
<1>6. x \o s # <<>> /\ DOMAIN (x \o s) = 1..(Len(s) + 1)
  <2> DEFINE y == x \o s
  <2>1. y \in Seq(S) /\ Len(y) = Len(s) + 1 /\ Len(s) \in Nat
    BY <1>3, LenProperties
  <2> HIDE DEF y
  <2>2. y # <<>> /\ DOMAIN y = 1..(Len(s) + 1)
    BY <2>1, LenProperties
  <2> QED BY <2>2 DEF y
<1> QED BY <1>3, <1>5, <1>6 DEF x

LEMMA Nothing ==
    ASSUME NEW S
    PROVE  <<>> \in Seq(S) /\ Len(<<>>) = 0 /\ DOMAIN <<>> = {}
OBVIOUS

-----------------------------------------------------------------------------
(* Data.                                                                    *)

LEMMA Clock ==
    /\ Timeout \in Nat /\ Timeout > 0 /\ Period \in Nat /\ Timeout <= Period
    /\ Cap \in Nat /\ Cap = 2 * Period + 1
BY TimeoutAssumption DEF Period, Cap

LEMMA EventParts ==
    ASSUME NEW e \in Event
    PROVE  /\ e.id \in 1..MaxEvents /\ e.id \in Nat
           /\ e.size \in Nat /\ e.size > 0
           /\ e.session \in Int
           /\ e.path \in Seq(Part)
           /\ e # NoEvent
<1>1. e.id \in 1..MaxEvents /\ e.size \in Nat \ {0} /\ e.path \in Seq(Part)
  BY DEF Event
<1>2. e.session \in 0..MaxSessions
  BY DEF Event
<1>3. NoEvent.id = 0
  BY DEF NoEvent
<1> QED BY <1>1, <1>2, <1>3, RegistryBounds

LEMMA HandParts ==
    ASSUME TypeOK
    PROVE  /\ InHand \in Seq(Event)
           /\ hand = NoEvent => InHand = <<>> /\ Len(InHand) = 0
           /\ hand # NoEvent => InHand = <<hand>> /\ Len(InHand) = 1
BY DEF TypeOK, InHand

(* What an operation the driver accepts makes of itself is an event.        *)
LEMMA NewEvent ==
    ASSUME TypeOK, occurred < MaxEvents,
           NEW r \in Request[occurred + 1], Valid(r)
    PROVE  [id |-> occurred + 1, size |-> Size(r), session |-> session,
            name |-> EventName[r.kind], path |-> PathOf(r)] \in Event
<1>1. occurred \in Nat /\ occurred + 1 \in 1..MaxEvents /\ session \in 0..MaxSessions
  BY RegistryBounds DEF TypeOK
<1>2. occurred + 1 \in 1..Len(Request)
  BY <1>1, RegistryBounds, RequestAssumption, LenProperties
<1>3. Request[occurred + 1] \in SUBSET Operation
  BY <1>2, RequestAssumption, ElementOfSeq
<1>4. /\ r.complete \in Seq(Part) /\ r.queried \in Seq(Part)
      /\ r.value \in Part \cup {""} /\ r.data \in Nat
  BY <1>3 DEF Operation
<1>5. GetRegistryObjectCompleteName(r) \in Seq(Part)
  <2>1. NoPath \in Seq(Part)
    BY DEF NoPath
  <2>2. CASE ~r.object
    BY <2>1, <2>2 DEF GetRegistryObjectCompleteName
  <2>3. CASE r.object /\ r.complete # NoPath /\ Absolute(r.complete)
    BY <1>4, <2>3 DEF GetRegistryObjectCompleteName
  <2>4. CASE r.object /\ ~(r.complete # NoPath /\ Absolute(r.complete))
    BY <1>4, <2>4 DEF GetRegistryObjectCompleteName
  <2> QED BY <2>2, <2>3, <2>4
<1>6. PathOf(r) \in Seq(Part)
  <2>1. CASE r.kind \in ValueKinds /\ r.value # ""
    <3> DEFINE v == r.value
    <3>0. v \in Part
      BY <1>4, <2>1
    <3> HIDE DEF v
    <3>1. <<v>> \in Seq(Part)
      BY <3>0
    <3> USE DEF v
    <3> QED BY <2>1, <3>1, <1>5, ConcatProperties DEF PathOf
  <2>2. CASE ~(r.kind \in ValueKinds /\ r.value # "")
    BY <2>2, <1>5, ConcatEmptySeq DEF PathOf
  <2> QED BY <2>1, <2>2
<1>7. Size(r) \in Nat \ {0}
  <2>1. CASE r.kind = "RegNtPreSetValueKey" /\ r.value # ""
    <3> DEFINE d == r.data
    <3>1. Size(r) = 1 + d
      BY <2>1 DEF Size
    <3>2. d \in Nat
      BY <1>4
    <3> HIDE DEF d
    <3> QED BY <3>1, <3>2
  <2>2. CASE ~(r.kind = "RegNtPreSetValueKey" /\ r.value # "")
    <3>1. Size(r) = 1 + 0
      BY <2>2 DEF Size
    <3> QED BY <3>1
  <2> QED BY <2>1, <2>2
<1>8. EventName[r.kind] \in {EventName[k] : k \in DOMAIN EventName}
  BY DEF Valid
<1> QED BY <1>1, <1>6, <1>7, <1>8 DEF Event

-----------------------------------------------------------------------------
(* Hives.  The table has its longer entries first.                          *)
LEMMA Table ==
    /\ DOMAIN ObjectNameMap = 1..5
    /\ \A i \in 1..5 : ObjectNameMap[i][1] \in Seq(Part) /\ ObjectNameMap[i][2] \in Part
    /\ \A i, j \in 1..5 : i <= j => Len(ObjectNameMap[i][1]) >= Len(ObjectNameMap[j][1])
<1>1. User \in Seq(Part) /\ Len(User) = 3
  BY PartAssumption DEF User
<1>2. <<"_CLASSES">> \in Seq(Part) /\ Len(<<"_CLASSES">>) = 1
  BY PartAssumption
<1>3. User \o <<"_CLASSES">> \in Seq(Part) /\ Len(User \o <<"_CLASSES">>) = 4
  <2> DEFINE u == User
             c == <<"_CLASSES">>
  <2>1. u \in Seq(Part) /\ c \in Seq(Part) /\ Len(u) = 3 /\ Len(c) = 1
    BY <1>1, <1>2
  <2> HIDE DEF u, c
  <2>2. u \o c \in Seq(Part) /\ Len(u \o c) = Len(u) + Len(c)
    BY <2>1, ConcatProperties
  <2>3. Len(u \o c) = 4
    BY <2>1, <2>2
  <2> QED BY <2>2, <2>3 DEF u, c
<1>4. /\ ObjectNameMap[1] = <<User \o <<"_CLASSES">>, "HKCR">>
      /\ ObjectNameMap[2] = <<User, "HKCU">>
      /\ ObjectNameMap[3] = << <<"REGISTRY", "MACHINE">>, "HKLM">>
      /\ ObjectNameMap[4] = << <<"REGISTRY", "USER">>, "HKU">>
      /\ ObjectNameMap[5] = << <<"Registry", "Machine">>, "HKLM">>
      /\ DOMAIN ObjectNameMap = 1..5
  BY DEF ObjectNameMap
<1>5. /\ Len(ObjectNameMap[1][1]) = 4 /\ Len(ObjectNameMap[2][1]) = 3
      /\ Len(ObjectNameMap[3][1]) = 2 /\ Len(ObjectNameMap[4][1]) = 2
      /\ Len(ObjectNameMap[5][1]) = 2
  BY <1>1, <1>3, <1>4
<1>6. \A i \in 1..5 : ObjectNameMap[i][1] \in Seq(Part) /\ ObjectNameMap[i][2] \in Part
  <2> DEFINE c == User \o <<"_CLASSES">>
  <2> HIDE DEF c
  <2>1. ObjectNameMap[1] = <<c, "HKCR">> /\ c \in Seq(Part)
    BY <1>3, <1>4 DEF c
  <2>2. /\ ObjectNameMap[3][1] \in Seq(Part) /\ ObjectNameMap[4][1] \in Seq(Part)
        /\ ObjectNameMap[5][1] \in Seq(Part)
    BY <1>4, PartAssumption
  <2>3. /\ ObjectNameMap[1][2] \in Part /\ ObjectNameMap[2][2] \in Part
        /\ ObjectNameMap[3][2] \in Part /\ ObjectNameMap[4][2] \in Part
        /\ ObjectNameMap[5][2] \in Part
    BY <1>4, <2>1, PartAssumption
  <2>4. ObjectNameMap[1][1] \in Seq(Part) /\ ObjectNameMap[2][1] \in Seq(Part)
    BY <1>1, <1>4, <2>1
  <2> QED BY <2>2, <2>3, <2>4
<1> QED BY <1>4, <1>5, <1>6

LEMMA HiveOf ==
    ASSUME NEW path \in Seq(Part)
    PROVE  /\ convertRegistryObjectNameToHiveName(path) \in Seq(Part)
           /\ \A j \in Matches(path) :
                 \E k \in Matches(path) :
                     /\ Len(ObjectNameMap[k][1]) >= Len(ObjectNameMap[j][1])
                     /\ convertRegistryObjectNameToHiveName(path) = Under(path, k)
<1>1. Matches(path) \subseteq 1..5
  BY Table DEF Matches
<1>2. CASE Matches(path) = {}
  BY <1>2 DEF convertRegistryObjectNameToHiveName
<1>3. CASE Matches(path) # {}
  <2> DEFINE k == CHOOSE i \in Matches(path) : \A j \in Matches(path) : i <= j
  <2>1. \E i \in Matches(path) : \A j \in Matches(path) : i <= j
    <3>1. PICK x \in Matches(path) : TRUE
      BY <1>3
    <3>2. CASE 1 \in Matches(path)
      BY <1>1, <3>2
    <3>3. CASE 1 \notin Matches(path) /\ 2 \in Matches(path)
      BY <1>1, <3>3
    <3>4. CASE 1 \notin Matches(path) /\ 2 \notin Matches(path) /\ 3 \in Matches(path)
      BY <1>1, <3>4
    <3>5. CASE /\ 1 \notin Matches(path) /\ 2 \notin Matches(path)
               /\ 3 \notin Matches(path) /\ 4 \in Matches(path)
      BY <1>1, <3>5
    <3>6. CASE /\ 1 \notin Matches(path) /\ 2 \notin Matches(path)
               /\ 3 \notin Matches(path) /\ 4 \notin Matches(path)
      BY <1>1, <3>1, <3>6
    <3> QED BY <3>2, <3>3, <3>4, <3>5, <3>6
  <2>2. k \in Matches(path) /\ \A j \in Matches(path) : k <= j
    BY <2>1
  <2>3. convertRegistryObjectNameToHiveName(path) = Under(path, k)
    BY <1>3 DEF convertRegistryObjectNameToHiveName
  <2>4. \A j \in Matches(path) : Len(ObjectNameMap[k][1]) >= Len(ObjectNameMap[j][1])
    BY <1>1, <2>2, Table
  <2>5. Under(path, k) \in Seq(Part)
    <3>1. k \in 1..5
      BY <1>1, <2>2
    <3>2. ObjectNameMap[k][2] \in Part /\ ObjectNameMap[k][1] \in Seq(Part)
      BY <3>1, Table
    <3>3. Len(ObjectNameMap[k][1]) \in Nat /\ Len(path) \in Nat
      BY <3>2, LenProperties
    <3>4. SubSeq(path, Len(ObjectNameMap[k][1]) + 1, Len(path)) \in Seq(Part)
      BY <3>3, LenProperties, ElementOfSeq, SubSeqProperties
    <3>5. <<ObjectNameMap[k][2]>> \in Seq(Part)
      BY <3>2
    <3> HIDE DEF k
    <3> QED BY <3>4, <3>5, ConcatProperties DEF Under
  <2> QED BY <2>2, <2>3, <2>4, <2>5
<1> QED BY <1>2, <1>3

-----------------------------------------------------------------------------
(* Types and places.                                                        *)
LEMMA TypeStep ==
    ASSUME TypeOK, Local, [Next]_vars
    PROVE  TypeOK'
<1>1. CASE DriverEntry
  BY <1>1, Clock, RegistryBounds, BufferAssumption DEF DriverEntry, TypeOK,
       Lives, InDriver, vars, driverVars, clientVars, requestVars, historyVars
<1>2. CASE Tick
  BY <1>2, Clock, RegistryBounds, BufferAssumption DEF Tick, TypeOK, Lives,
       InDriver, vars, driverVars, clientVars, requestVars, historyVars
<1>3. CASE UnloadDriver
  <2>9. /\ loaded' \in BOOLEAN /\ crashed' \in BOOLEAN /\ running' \in BOOLEAN
        /\ stopEvent' \in BOOLEAN /\ gap' \in BOOLEAN
    BY <1>3 DEF UnloadDriver, TypeOK, vars, driverVars, clientVars, requestVars,
         historyVars
  <2>1. queue' \in Seq(Event) /\ checker' \in {"idle", "test", "remove"}
    BY <1>3 DEF UnloadDriver
  <2>2. stopper' \in {"idle", "wait", "join", "done"}
    BY <1>3 DEF UnloadDriver
  <2> QED BY <1>3, <2>1, <2>2, <2>9 DEF UnloadDriver, TypeOK, vars, driverVars,
       clientVars, requestVars, historyVars
<1>4. CASE ConnectionChecker
  BY <1>4, Clock, RegistryBounds, BufferAssumption DEF ConnectionChecker, TypeOK,
       Lives, InDriver, vars, driverVars, clientVars, requestVars, historyVars
<1>5. CASE CheckerTest
  BY <1>5, Clock, RegistryBounds, BufferAssumption DEF CheckerTest, TypeOK,
       Lives, InDriver, vars, driverVars, clientVars, requestVars, historyVars
<1>6. CASE CheckerRemove
  <2>9. /\ loaded' \in BOOLEAN /\ crashed' \in BOOLEAN /\ running' \in BOOLEAN
        /\ stopEvent' \in BOOLEAN /\ gap' \in BOOLEAN
    BY <1>6 DEF CheckerRemove, TypeOK, vars, driverVars, clientVars, requestVars,
         historyVars
  <2>1. queue' \in Seq(Event) /\ checker' \in {"test", "remove"}
    <3>1. CASE queue = <<>>
      BY <1>6, <3>1 DEF CheckerRemove, TypeOK
    <3>2. CASE queue # <<>>
      BY <1>6, <3>2, Taken DEF CheckerRemove, TypeOK
    <3> QED BY <3>1, <3>2
  <2> QED BY <1>6, <2>1, <2>9 DEF CheckerRemove, TypeOK, vars, driverVars,
       clientVars, requestVars, historyVars
<1>7. ASSUME occurred < MaxEvents, NEW r \in Request[occurred + 1],
     RegistryCallback(r)
      PROVE  TypeOK'
  BY <1>7, NewEvent, Clock, RegistryBounds
     DEF RegistryCallback, QueueRegistryEvent, TypeOK, Lives, vars, driverVars,
          clientVars, requestVars, historyVars
<1>8. CASE Start
  BY <1>8, Clock, RegistryBounds, BufferAssumption DEF Start, TypeOK, Lives,
       InDriver, vars, driverVars, clientVars, requestVars, historyVars
<1>9. CASE Run
  BY <1>9, Clock, RegistryBounds, BufferAssumption DEF Run, KDispatchIoctl,
       UpdateLastContactTime, TypeOK, Lives, InDriver, vars, driverVars,
            clientVars, requestVars, historyVars
<1>10. CASE RequestTest
  BY <1>10, Clock, RegistryBounds, BufferAssumption DEF RequestTest, Space,
       TypeOK, Lives, InDriver, vars, driverVars, clientVars, requestVars,
            historyVars
<1>11. CASE RequestRemove
  <2>9. /\ loaded' \in BOOLEAN /\ crashed' \in BOOLEAN /\ running' \in BOOLEAN
        /\ stopEvent' \in BOOLEAN /\ gap' \in BOOLEAN
    BY <1>11 DEF RequestRemove, TypeOK, vars, driverVars, clientVars,
         requestVars, historyVars
  <2>1. /\ queue' \in Seq(Event) /\ buffer' \in Seq(Event)
        /\ hand' \in Event \cup {NoEvent} /\ thread' \in {"poll", "copy"}
        /\ bufferSpaceUsed' \in 0..BufferSize
    <3>1. CASE queue = <<>>
      BY <1>11, <3>1, BufferAssumption, Nothing DEF RequestRemove, TypeOK
    <3>2. CASE queue # <<>>
      <4>1. Head(queue) \in Event /\ Tail(queue) \in Seq(Event)
        BY <3>2, Taken DEF TypeOK
      <4>2. /\ hand' = Head(queue) /\ queue' = Tail(queue) /\ thread' = "copy"
            /\ buffer' = buffer /\ bufferSpaceUsed' = bufferSpaceUsed
        BY <1>11, <3>2 DEF RequestRemove
      <4> QED BY <4>1, <4>2 DEF TypeOK
    <3> QED BY <3>1, <3>2
  <2> QED BY <1>11, <2>1, <2>9 DEF RequestRemove, TypeOK, vars, driverVars,
       clientVars, requestVars, historyVars
<1>12. CASE RequestCopy
  <2>1. hand \in Event /\ hand.size \in Nat /\ bufferSpaceUsed \in Nat /\ BufferSize \in Nat
    BY <1>12, EventParts, BufferAssumption DEF RequestCopy, TypeOK, Local
  <2>2. Append(buffer, hand) \in Seq(Event) /\ <<hand>> \o queue \in Seq(Event)
    <3>1. <<hand>> \in Seq(Event)
      BY <2>1
    <3> QED BY <2>1, <3>1, ConcatProperties DEF TypeOK
  <2>3. CASE Fits
    <3>1. bufferSpaceUsed + hand.size \in 0..BufferSize
      BY <2>1, <2>3 DEF Fits, Space
    <3> QED BY <1>12, <2>2, <2>3, <3>1 DEF RequestCopy, TypeOK, vars, driverVars,
         clientVars, requestVars, historyVars
  <2>4. CASE ~Fits
    <3>1. /\ queue' \in Seq(Event) /\ buffer' \in Seq(Event) /\ bufferSpaceUsed' \in 0..BufferSize
          /\ thread' \in {"examine", "poll"} /\ hand' = NoEvent
      <4>1. /\ queue' = <<hand>> \o queue /\ buffer' = buffer /\ bufferSpaceUsed' = 0
            /\ thread' \in {"examine", "poll"} /\ hand' = NoEvent
        BY <1>12, <2>4 DEF RequestCopy, PutBack
      <4> QED BY <2>2, <4>1, BufferAssumption DEF TypeOK
    <3> QED BY <1>12, <3>1 DEF RequestCopy, TypeOK, vars, driverVars, clientVars,
         requestVars, historyVars
  <2> QED BY <2>3, <2>4
<1>13. CASE Examine
  <2> DEFINE e == Head(buffer)
             x == [id |-> e.id, path |-> e.path,
                   hive |-> convertRegistryObjectNameToHiveName(e.path)]
  <2>1. buffer # <<>> /\ e \in Event /\ Tail(buffer) \in Seq(Event)
    BY <1>13 DEF Examine, TypeOK, Local
  <2>2. x \in [id : 1..MaxEvents, path : Seq(Part), hive : Seq(Part)]
    BY <2>1, EventParts, HiveOf
  <2> HIDE DEF x
  <2>3. Append(examined, x) \in
           Seq([id : 1..MaxEvents, path : Seq(Part), hive : Seq(Part)])
    BY <2>2 DEF TypeOK
  <2>4. examined' = Append(examined, x)
    BY <1>13 DEF Examine, x
  <2>5. buffer' \in Seq(Event) /\ thread' \in {"poll", "examine"}
    BY <1>13, <2>1 DEF Examine
  <2> QED BY <1>13, <2>3, <2>4, <2>5 DEF Examine, TypeOK, vars, driverVars,
       clientVars, requestVars, historyVars
<1>14. CASE StopBegin
  BY <1>14, Clock, RegistryBounds, BufferAssumption DEF StopBegin, TypeOK, Lives,
       InDriver, vars, driverVars, clientVars, requestVars, historyVars
<1>15. CASE StopSignal
  BY <1>15, Clock, RegistryBounds, BufferAssumption DEF StopSignal, TypeOK,
       Lives, InDriver, vars, driverVars, clientVars, requestVars, historyVars
<1>16. CASE StopJoin
  <2>9. /\ loaded' \in BOOLEAN /\ crashed' \in BOOLEAN /\ running' \in BOOLEAN
        /\ stopEvent' \in BOOLEAN /\ gap' \in BOOLEAN
    BY <1>16 DEF StopJoin, TypeOK, vars, driverVars, clientVars, requestVars,
         historyVars
  <2>1. buffer' \in Seq(Event) /\ thread' = "off" /\ stopper' = "done"
    BY <1>16 DEF StopJoin
  <2> QED BY <1>16, <2>1, <2>9 DEF StopJoin, TypeOK, vars, driverVars,
       clientVars, requestVars, historyVars
<1>17. CASE ClientDies
  <2>9. /\ loaded' \in BOOLEAN /\ crashed' \in BOOLEAN /\ running' \in BOOLEAN
        /\ stopEvent' \in BOOLEAN /\ gap' \in BOOLEAN
    BY <1>17 DEF ClientDies, TypeOK, vars, driverVars, clientVars, requestVars,
         historyVars
  <2>1. buffer' \in Seq(Event) /\ thread' = "off" /\ stopper' = "idle"
    BY <1>17 DEF ClientDies
  <2> QED BY <1>17, <2>1, <2>9 DEF ClientDies, TypeOK, vars, driverVars,
       clientVars, requestVars, historyVars
<1>18. CASE UNCHANGED vars
  BY <1>18, Clock, RegistryBounds, BufferAssumption DEF TypeOK, Lives, InDriver,
       vars, driverVars, clientVars, requestVars, historyVars
<1> QED BY <1>1, <1>2, <1>3, <1>4, <1>5, <1>6, <1>7, <1>8, <1>9, <1>10, <1>11,
     <1>12, <1>13, <1>14, <1>15, <1>16, <1>17, <1>18
     DEF Next, Checker, Thread, Request_, Stop

(* What a thread has in hand belongs to the place it is at.                 *)
LEMMA LocalStep ==
    ASSUME TypeOK, Local, [Next]_vars
    PROVE  Local'
<1>1. CASE DriverEntry
  BY <1>1, Clock DEF DriverEntry, Local, Lives, InDriver, vars, driverVars,
       clientVars, requestVars, historyVars
<1>2. CASE Tick
  BY <1>2, Clock DEF Tick, Local, Lives, InDriver, vars, driverVars, clientVars,
       requestVars, historyVars
<1>3. CASE UnloadDriver
  BY <1>3, Clock DEF UnloadDriver, Local, Lives, InDriver, vars, driverVars,
       clientVars, requestVars, historyVars
<1>4. CASE ConnectionChecker
  BY <1>4, Clock DEF ConnectionChecker, Local, Lives, InDriver, vars, driverVars,
       clientVars, requestVars, historyVars
<1>5. CASE CheckerTest
  BY <1>5, Clock DEF CheckerTest, Local, Lives, InDriver, vars, driverVars,
       clientVars, requestVars, historyVars
<1>6. CASE CheckerRemove
  BY <1>6, Clock DEF CheckerRemove, Local, Lives, InDriver, vars, driverVars,
       clientVars, requestVars, historyVars
<1>7. ASSUME occurred < MaxEvents, NEW r \in Request[occurred + 1],
     RegistryCallback(r)
      PROVE  Local'
  BY <1>7, Clock DEF RegistryCallback, QueueRegistryEvent, Local, Lives,
       InDriver, vars, driverVars, clientVars, requestVars, historyVars
<1>8. CASE Start
  BY <1>8, Clock DEF Start, Local, Lives, InDriver, vars, driverVars, clientVars,
       requestVars, historyVars
<1>9. CASE Run
  BY <1>9, Clock DEF Run, KDispatchIoctl, UpdateLastContactTime, Local, Lives,
       InDriver, vars, driverVars, clientVars, requestVars, historyVars
<1>10. CASE RequestTest
  BY <1>10, Clock DEF RequestTest, Space, Local, Lives, InDriver, vars,
       driverVars, clientVars, requestVars, historyVars
<1>11. CASE RequestRemove
  <2>1. queue # <<>> => Head(queue) # NoEvent
    BY EventParts DEF TypeOK
  <2> QED BY <1>11, <2>1 DEF RequestRemove, Local, InDriver, Lives, vars,
       driverVars, clientVars, requestVars, historyVars
<1>12. CASE RequestCopy
  <2>1. Append(buffer, hand) # <<>>
    <3>1. hand \in Event
      BY <1>12 DEF RequestCopy, TypeOK, Local
    <3> QED BY <3>1, Appended DEF TypeOK
  <2> QED BY <1>12, <2>1 DEF RequestCopy, Local, InDriver, Lives, PutBack, vars,
       driverVars, clientVars, requestVars, historyVars
<1>13. CASE Examine
  BY <1>13, Clock DEF Examine, Local, Lives, InDriver, vars, driverVars,
       clientVars, requestVars, historyVars
<1>14. CASE StopBegin
  BY <1>14, Clock DEF StopBegin, Local, Lives, InDriver, vars, driverVars,
       clientVars, requestVars, historyVars
<1>15. CASE StopSignal
  BY <1>15, Clock DEF StopSignal, Local, Lives, InDriver, vars, driverVars,
       clientVars, requestVars, historyVars
<1>16. CASE StopJoin
  BY <1>16, Clock DEF StopJoin, Local, Lives, InDriver, vars, driverVars,
       clientVars, requestVars, historyVars
<1>17. CASE ClientDies
  BY <1>17, Clock DEF ClientDies, Local, Lives, InDriver, vars, driverVars,
       clientVars, requestVars, historyVars
<1>18. CASE UNCHANGED vars
  BY <1>18, Clock DEF Local, Lives, InDriver, vars, driverVars, clientVars,
       requestVars, historyVars
<1> QED BY <1>1, <1>2, <1>3, <1>4, <1>5, <1>6, <1>7, <1>8, <1>9, <1>10, <1>11,
     <1>12, <1>13, <1>14, <1>15, <1>16, <1>17, <1>18
     DEF Next, Checker, Thread, Request_, Stop

-----------------------------------------------------------------------------
(* Order.  What the moves between the places do to it.                      *)

LEMMA One ==
    ASSUME NEW e
    PROVE  /\ DOMAIN <<e>> = {1} /\ <<e>>[1] = e
           /\ \A t : Before(t, <<e>>) <=> \A i \in DOMAIN t : t[i].id < e.id
           /\ \A t : Before(<<e>>, t) <=> \A i \in DOMAIN t : e.id < t[i].id
           /\ \A n : UpTo(<<e>>, n) <=> e.id <= n
<1>1. DOMAIN <<e>> = {1} /\ <<e>>[1] = e
  OBVIOUS
<1> DEFINE x == <<e>>
<1>2. DOMAIN x = {1} /\ x[1] = e
  BY <1>1
<1> HIDE DEF x
<1>3. \A t : Before(t, x) <=> \A i \in DOMAIN t : t[i].id < e.id
  BY <1>2 DEF Before
<1>4. \A t : Before(x, t) <=> \A i \in DOMAIN t : e.id < t[i].id
  BY <1>2 DEF Before
<1>5. \A n : UpTo(x, n) <=> e.id <= n
  BY <1>2 DEF UpTo
<1> QED BY <1>2, <1>3, <1>4, <1>5 DEF x

LEMMA TailOrder ==
    ASSUME NEW S, NEW s \in Seq(S), s # <<>>
    PROVE  /\ Increasing(s) => Increasing(Tail(s)) /\ Before(<<Head(s)>>, Tail(s))
           /\ \A n : UpTo(s, n) => UpTo(Tail(s), n) /\ UpTo(<<Head(s)>>, n)
           /\ \A t : Before(s, t) => Before(Tail(s), t) /\ Before(<<Head(s)>>, t)
           /\ \A t : Before(t, s) => Before(t, Tail(s)) /\ Before(t, <<Head(s)>>)
<1> DEFINE n == Len(s)
           h == Head(s)
           r == Tail(s)
<1>1. /\ n \in Nat /\ n > 0 /\ DOMAIN s = 1..n /\ h = s[1] /\ DOMAIN r = 1..(n - 1)
      /\ \A i \in 1..(n - 1) : r[i] = s[i + 1]
  BY Taken, LenProperties
<1> HIDE DEF n, h, r
<1>2. \A i \in DOMAIN r : i + 1 \in DOMAIN s /\ r[i] = s[i + 1] /\ 1 < i + 1
  BY <1>1
<1>3. 1 \in DOMAIN s
  BY <1>1
<1>4. Increasing(s) => Increasing(r)
  BY <1>1, <1>2 DEF Increasing
<1>5. ASSUME Increasing(s) PROVE Before(<<h>>, r)
  <2>1. \A i \in DOMAIN r : h.id < r[i].id
    BY <1>1, <1>2, <1>3, <1>5 DEF Increasing
  <2> QED BY <2>1, One
<1>6. \A m : UpTo(s, m) => UpTo(r, m) /\ UpTo(<<h>>, m)
  BY <1>1, <1>2, <1>3, One DEF UpTo
<1>7. \A t : Before(s, t) => Before(r, t) /\ Before(<<h>>, t)
  BY <1>1, <1>2, <1>3, One DEF Before
<1>8. ASSUME NEW t, Before(t, s) PROVE Before(t, r) /\ Before(t, <<h>>)
  <2>1. Before(t, r)
    BY <1>2, <1>8 DEF Before
  <2>2. \A i \in DOMAIN t : t[i].id < h.id
    BY <1>1, <1>3, <1>8 DEF Before
  <2> QED BY <2>1, <2>2, One
<1> QED BY <1>4, <1>5, <1>6, <1>7, <1>8 DEF h, r

LEMMA AppendOrder ==
    ASSUME NEW S, NEW s \in Seq(S), NEW e \in S, \A x \in S : x.id \in Int
    PROVE  /\ Increasing(s) /\ Before(s, <<e>>) => Increasing(Append(s, e))
           /\ \A n : UpTo(s, n) /\ UpTo(<<e>>, n) => UpTo(Append(s, e), n)
           /\ \A t : Before(s, t) /\ Before(<<e>>, t) => Before(Append(s, e), t)
           /\ \A t : Before(t, s) /\ Before(t, <<e>>) => Before(t, Append(s, e))
<1> DEFINE n == Len(s)
           a == Append(s, e)
<1>1. /\ n \in Nat /\ DOMAIN s = 1..n /\ DOMAIN a = 1..(n + 1)
      /\ \A i \in 1..n : a[i] = s[i]
      /\ a[n + 1] = e
  BY Appended, LenProperties
<1> HIDE DEF n, a
<1>2. ASSUME NEW i \in DOMAIN a
      PROVE  \/ i \in DOMAIN s /\ a[i] = s[i]
             \/ i = n + 1 /\ a[i] = e
  BY <1>1
<1>3. ASSUME Increasing(s), Before(s, <<e>>) PROVE Increasing(a)
  <2>1. \A i \in DOMAIN s : s[i].id < e.id
    BY <1>3, One
  <2>2. ASSUME NEW i \in DOMAIN a, NEW j \in DOMAIN a, i < j PROVE a[i].id < a[j].id
    <3>1. i \in DOMAIN s /\ a[i] = s[i]
      BY <1>1, <2>2
    <3>2. CASE j = n + 1
      BY <1>1, <2>1, <3>1, <3>2
    <3>3. CASE j # n + 1
      BY <1>1, <1>2, <1>3, <2>2, <3>1, <3>3 DEF Increasing
    <3> QED BY <3>2, <3>3
  <2> QED BY <2>2 DEF Increasing
<1>4. \A m : UpTo(s, m) /\ UpTo(<<e>>, m) => UpTo(a, m)
  BY <1>2, One DEF UpTo
<1>5. \A t : Before(s, t) /\ Before(<<e>>, t) => Before(a, t)
  BY <1>2, One DEF Before
<1>6. \A t : Before(t, s) /\ Before(t, <<e>>) => Before(t, a)
  BY <1>2, One DEF Before
<1> QED BY <1>3, <1>4, <1>5, <1>6 DEF a

LEMMA FrontOrder ==
    ASSUME NEW S, NEW s \in Seq(S), NEW e \in S
    PROVE  /\ Increasing(s) /\ Before(<<e>>, s) => Increasing(<<e>> \o s)
           /\ \A n : UpTo(s, n) /\ UpTo(<<e>>, n) => UpTo(<<e>> \o s, n)
           /\ \A t : Before(s, t) /\ Before(<<e>>, t) => Before(<<e>> \o s, t)
           /\ \A t : Before(t, s) /\ Before(t, <<e>>) => Before(t, <<e>> \o s)
<1> DEFINE n == Len(s)
           a == <<e>> \o s
<1>1. /\ n \in Nat /\ DOMAIN s = 1..n /\ DOMAIN a = 1..(n + 1) /\ a[1] = e
      /\ \A i \in 1..n : a[i + 1] = s[i]
  BY PutInFront, LenProperties
<1> HIDE DEF n, a
<1>2. ASSUME NEW i \in DOMAIN a
      PROVE  \/ i = 1 /\ a[i] = e
             \/ i # 1 /\ i - 1 \in DOMAIN s /\ a[i] = s[i - 1]
  <2>1. CASE i = 1
    BY <1>1, <2>1
  <2>2. CASE i # 1
    <3> DEFINE k == i - 1
    <3>1. k \in 1..n /\ k + 1 = i
      BY <1>1, <2>2
    <3> HIDE DEF k
    <3>2. a[k + 1] = s[k]
      BY <1>1, <3>1
    <3>3. k \in DOMAIN s /\ a[i] = s[k]
      BY <1>1, <3>1, <3>2
    <3> QED BY <2>2, <3>3 DEF k
  <2> QED BY <2>1, <2>2
<1>3. ASSUME Increasing(s), Before(<<e>>, s) PROVE Increasing(a)
  <2>1. \A i \in DOMAIN s : e.id < s[i].id
    BY <1>3, One
  <2>2. ASSUME NEW i \in DOMAIN a, NEW j \in DOMAIN a, i < j PROVE a[i].id < a[j].id
    <3>1. j # 1 /\ j - 1 \in DOMAIN s /\ a[j] = s[j - 1]
      BY <1>1, <1>2, <2>2
    <3>2. CASE i = 1
      BY <1>1, <2>1, <3>1, <3>2
    <3>3. CASE i # 1
      <4>1. i - 1 \in DOMAIN s /\ a[i] = s[i - 1] /\ i - 1 < j - 1
        BY <1>1, <1>2, <2>2, <3>3
      <4> QED BY <1>3, <3>1, <4>1 DEF Increasing
    <3> QED BY <3>2, <3>3
  <2> QED BY <2>2 DEF Increasing
<1>4. \A m : UpTo(s, m) /\ UpTo(<<e>>, m) => UpTo(a, m)
  BY <1>2, One DEF UpTo
<1>5. \A t : Before(s, t) /\ Before(<<e>>, t) => Before(a, t)
  BY <1>2, One DEF Before
<1>6. \A t : Before(t, s) /\ Before(t, <<e>>) => Before(t, a)
  BY <1>2, One DEF Before
<1> QED BY <1>3, <1>4, <1>5, <1>6 DEF a

LEMMA NothingOrder ==
    /\ Increasing(<<>>) /\ \A n : UpTo(<<>>, n)
    /\ \A t : Before(<<>>, t) /\ Before(t, <<>>)
BY Nothing DEF Increasing, UpTo, Before

(* Every step keeps the order.                                              *)
LEMMA OrderStep ==
    ASSUME TypeOK, Local, Order, [Next]_vars
    PROVE  Order'
<1> USE DEF InHand
<1>1. /\ queue \in Seq(Event) /\ buffer \in Seq(Event) /\ InHand \in Seq(Event)
      /\ \A x \in Event : x.id \in Int
  BY HandParts, EventParts DEF TypeOK
<1>2. ASSUME UNCHANGED <<examined, buffer, hand, queue, occurred>>
      PROVE  Order'
  BY <1>2 DEF Order
<1>3. ASSUME UNCHANGED <<examined, buffer, hand, occurred>>, queue' = <<>>
      PROVE  Order'
  BY <1>3, NothingOrder DEF Order
<1>4. ASSUME UNCHANGED <<examined, queue, hand, occurred>>, buffer' = <<>>
      PROVE  Order'
  BY <1>4, NothingOrder DEF Order
<1>5. CASE CheckerRemove
  <2>1. CASE queue = <<>>
    BY <1>2, <1>5, <2>1 DEF CheckerRemove, clientVars, requestVars, historyVars
  <2>2. CASE queue # <<>>
    <3>1. queue' = Tail(queue) /\ UNCHANGED <<examined, buffer, hand, occurred>>
      BY <1>5, <2>2 DEF CheckerRemove, clientVars, requestVars, historyVars
    <3>2. /\ Increasing(Tail(queue)) /\ UpTo(Tail(queue), occurred)
          /\ Before(examined, Tail(queue)) /\ Before(buffer, Tail(queue))
          /\ Before(InHand, Tail(queue))
      BY <1>1, <2>2, TailOrder DEF Order
    <3> QED BY <3>1, <3>2 DEF Order
  <2> QED BY <2>1, <2>2
<1>6. ASSUME occurred < MaxEvents, NEW r \in Request[occurred + 1], RegistryCallback(r)
      PROVE  Order'
  <2> DEFINE e == [id |-> occurred + 1, size |-> Size(r), session |-> session,
                   name |-> EventName[r.kind], path |-> PathOf(r)]
  <2>1. e \in Event /\ e.id = occurred + 1
    BY <1>6, NewEvent DEF RegistryCallback
  <2>2. /\ queue' = queue \/ queue' = Append(queue, e)
        /\ occurred' = occurred + 1 /\ UNCHANGED <<examined, buffer, hand>>
    BY <1>6 DEF RegistryCallback, QueueRegistryEvent, clientVars, requestVars
  <2> HIDE DEF e
  <2>3. occurred \in Nat
    BY RegistryBounds DEF TypeOK
  <2>4. ASSUME NEW t, UpTo(t, occurred), \A i \in DOMAIN t : t[i].id \in Int
        PROVE  UpTo(t, occurred + 1) /\ Before(t, <<e>>)
    <3>1. \A i \in DOMAIN t : t[i].id <= occurred + 1 /\ t[i].id < e.id
      BY <2>1, <2>3, <2>4 DEF UpTo
    <3> QED BY <3>1, One DEF UpTo
  <2>5. /\ \A i \in DOMAIN queue : queue[i].id \in Int
        /\ \A i \in DOMAIN buffer : buffer[i].id \in Int
        /\ \A i \in DOMAIN InHand : InHand[i].id \in Int
    BY <1>1, LenProperties
  <2>6. \A i \in DOMAIN examined : examined[i].id \in Int
    <3> DEFINE S == [id : 1..MaxEvents, path : Seq(Part), hive : Seq(Part)]
    <3>1. examined \in Seq(S)
      BY DEF TypeOK
    <3>2. \A x \in S : x.id \in Int
      OBVIOUS
    <3> HIDE DEF S
    <3> QED BY <3>1, <3>2, LenProperties
  <2>7. /\ UpTo(queue, occurred + 1) /\ UpTo(buffer, occurred + 1)
        /\ UpTo(InHand, occurred + 1) /\ UpTo(examined, occurred + 1)
        /\ Before(queue, <<e>>) /\ Before(buffer, <<e>>)
        /\ Before(InHand, <<e>>) /\ Before(examined, <<e>>)
    BY <2>4, <2>5, <2>6 DEF Order
  <2>8. UpTo(<<e>>, occurred + 1)
    BY <2>1, <2>3, One
  <2>9. LET a == Append(queue, e) IN
          /\ Increasing(a) /\ UpTo(a, occurred + 1)
          /\ Before(examined, a) /\ Before(buffer, a) /\ Before(InHand, a)
    BY <1>1, <2>1, <2>7, <2>8, AppendOrder DEF Order
  <2> QED BY <2>2, <2>7, <2>9 DEF Order
<1>7. CASE RequestRemove
  <2>1. CASE queue = <<>>
    BY <1>4, <1>7, <2>1 DEF RequestRemove, historyVars
  <2>2. CASE queue # <<>>
    <3>1. /\ hand' = Head(queue) /\ queue' = Tail(queue)
          /\ UNCHANGED <<examined, buffer, occurred>>
      BY <1>7, <2>2 DEF RequestRemove, historyVars
    <3>2. Head(queue) # NoEvent
      BY <1>1, <2>2, Taken, EventParts
    <3>3. InHand' = <<Head(queue)>>
      BY <3>1, <3>2
    <3>4. /\ Increasing(Tail(queue)) /\ UpTo(Tail(queue), occurred)
          /\ UpTo(<<Head(queue)>>, occurred) /\ Before(<<Head(queue)>>, Tail(queue))
          /\ Before(examined, Tail(queue)) /\ Before(buffer, Tail(queue))
          /\ Before(examined, <<Head(queue)>>) /\ Before(buffer, <<Head(queue)>>)
      BY <1>1, <2>2, TailOrder DEF Order
    <3> QED BY <3>1, <3>3, <3>4 DEF Order
  <2> QED BY <2>1, <2>2
<1>8. CASE RequestCopy
  <2>1. /\ hand \in Event /\ InHand = <<hand>> /\ InHand' = <<>>
        /\ UNCHANGED <<examined, occurred>>
    BY <1>8 DEF RequestCopy, TypeOK, Local, historyVars
  <2>2. /\ UpTo(<<hand>>, occurred) /\ Before(examined, <<hand>>)
        /\ Before(buffer, <<hand>>) /\ Before(<<hand>>, queue)
    BY <2>1 DEF Order
  <2>3. CASE Fits
    <3>1. buffer' = Append(buffer, hand) /\ queue' = queue
      BY <1>8, <2>3 DEF RequestCopy
    <3>2. LET a == Append(buffer, hand) IN
            /\ Increasing(a) /\ UpTo(a, occurred)
            /\ Before(examined, a) /\ Before(a, queue)
      BY <1>1, <2>1, <2>2, AppendOrder DEF Order
    <3> QED BY <2>1, <3>1, <3>2, NothingOrder DEF Order
  <2>4. CASE ~Fits
    <3>1. buffer' = buffer /\ queue' = <<hand>> \o queue
      BY <1>8, <2>4 DEF RequestCopy, PutBack
    <3>2. LET a == <<hand>> \o queue IN
            /\ Increasing(a) /\ UpTo(a, occurred)
            /\ Before(examined, a) /\ Before(buffer, a)
      BY <1>1, <2>1, <2>2, FrontOrder DEF Order
    <3> QED BY <2>1, <3>1, <3>2, NothingOrder DEF Order
  <2> QED BY <2>3, <2>4
<1>9. CASE Examine
  <2> DEFINE S == [id : 1..MaxEvents, path : Seq(Part), hive : Seq(Part)]
             e == Head(buffer)
             x == [id |-> e.id, path |-> e.path,
                   hive |-> convertRegistryObjectNameToHiveName(e.path)]
  <2>1. buffer # <<>> /\ e \in Event
    BY <1>1, <1>9, Taken DEF Examine, Local
  <2>2. x \in S /\ x.id = e.id
    BY <2>1, EventParts, HiveOf
  <2>3. examined \in Seq(S) /\ \A y \in S : y.id \in Int
    BY DEF TypeOK
  <2>4. /\ examined' = Append(examined, x) /\ UNCHANGED <<hand, queue, occurred>>
        /\ buffer' = <<>> \/ buffer' = Tail(buffer)
    BY <1>9 DEF Examine, driverVars
  <2> HIDE DEF S, e, x
  <2>5. /\ UpTo(<<e>>, occurred) /\ Before(<<e>>, Tail(buffer))
        /\ Before(<<e>>, InHand) /\ Before(<<e>>, queue)
        /\ Increasing(Tail(buffer)) /\ UpTo(Tail(buffer), occurred)
        /\ Before(examined, Tail(buffer)) /\ Before(Tail(buffer), InHand)
        /\ Before(Tail(buffer), queue)
    BY <1>1, <2>1, TailOrder DEF Order, e
  <2>6. /\ UpTo(<<x>>, occurred) /\ Before(<<x>>, Tail(buffer))
        /\ Before(<<x>>, InHand) /\ Before(<<x>>, queue)
    BY <2>2, <2>5, One
  <2>7. LET a == Append(examined, x) IN
          /\ UpTo(a, occurred) /\ Before(a, Tail(buffer))
          /\ Before(a, InHand) /\ Before(a, queue)
    BY <2>2, <2>3, <2>5, <2>6, AppendOrder DEF Order
  <2> QED BY <2>4, <2>5, <2>7, NothingOrder DEF Order
<1>10. CASE DriverEntry
  BY <1>3, <1>10 DEF DriverEntry, clientVars, requestVars, historyVars
<1>11. CASE UnloadDriver
  BY <1>3, <1>11 DEF UnloadDriver, requestVars, historyVars
<1>12. CASE Tick \/ ConnectionChecker \/ CheckerTest \/ StopSignal \/ UNCHANGED vars
  BY <1>2, <1>12
     DEF Tick, ConnectionChecker, CheckerTest, StopSignal, vars, driverVars,
         clientVars, requestVars, historyVars
<1>13. CASE Start \/ Run \/ RequestTest \/ StopBegin
  BY <1>2, <1>13
     DEF Start, Run, RequestTest, StopBegin, driverVars, requestVars, historyVars
<1>14. CASE StopJoin \/ ClientDies
  BY <1>4, <1>14 DEF StopJoin, ClientDies, driverVars, historyVars
<1> QED
  BY <1>5, <1>6, <1>7, <1>8, <1>9, <1>10, <1>11, <1>12, <1>13, <1>14
     DEF Next, Checker, Thread, Request_, Stop

-----------------------------------------------------------------------------
(* An examined event is given the hive of its path.                         *)
LEMMA HivesStep ==
    ASSUME TypeOK, Local, Hives, [Next]_vars
    PROVE  Hives'
<1>1. CASE Examine
  <2> DEFINE S == [id : 1..MaxEvents, path : Seq(Part), hive : Seq(Part)]
             e == Head(buffer)
             x == [id |-> e.id, path |-> e.path,
                   hive |-> convertRegistryObjectNameToHiveName(e.path)]
             n == Len(examined)
  <2>1. buffer # <<>> /\ e \in Event
    BY <1>1, Taken DEF Examine, Local, TypeOK
  <2>2. x \in S /\ x.hive = convertRegistryObjectNameToHiveName(x.path)
    BY <2>1, EventParts, HiveOf
  <2>3. examined \in Seq(S)
    BY DEF TypeOK
  <2>4. examined' = Append(examined, x)
    BY <1>1 DEF Examine
  <2> HIDE DEF S, e, x
  <2>5. /\ n \in Nat /\ DOMAIN examined = 1..n /\ DOMAIN examined' = 1..(n + 1)
        /\ \A i \in 1..n : examined'[i] = examined[i]
        /\ examined'[n + 1] = x
    BY <2>2, <2>3, <2>4, Appended, LenProperties
  <2> HIDE DEF n
  <2>6. ASSUME NEW i \in DOMAIN examined'
        PROVE  examined'[i].hive = convertRegistryObjectNameToHiveName(examined'[i].path)
    <3>1. CASE i = n + 1
      BY <2>2, <2>5, <3>1
    <3>2. CASE i # n + 1
      BY <2>5, <2>6, <3>2 DEF Hives
    <3> QED BY <3>1, <3>2
  <2> QED BY <2>6 DEF Hives
<1>2. CASE ~Examine
  <2>1. examined' = examined
    BY <1>2
       DEF Next, Checker, Thread, Request_, Stop, DriverEntry, Tick, UnloadDriver,
           ConnectionChecker, CheckerTest, CheckerRemove, RegistryCallback, Start,
           Run, RequestTest, RequestRemove, RequestCopy, StopBegin, StopSignal,
           StopJoin, ClientDies, vars, historyVars
  <2> QED BY <2>1 DEF Hives
<1> QED BY <1>1, <1>2

-----------------------------------------------------------------------------
(* Completeness: where an event is after a step.                            *)

LEMMA FromNothing == \A n : From(<<>>, n)
BY Nothing DEF From

(* The checker sleeps as long as there is no gap.                           *)
LEMMA QuietStep ==
    ASSUME TypeOK, Local, Quiet, [Next]_vars, ~gap, ~gap'
    PROVE  Quiet'
<1>1. silence \in Int /\ due \in Int /\ Timeout \in Nat /\ Period \in Nat /\ Timeout <= Period
  BY Clock DEF TypeOK
<1>2. CASE DriverEntry
  BY <1>1, <1>2 DEF DriverEntry, Quiet, Local, clientVars, historyVars
<1>3. CASE Tick
  <2>1. silence' <= Timeout
    <3>1. silence' \in Int
      BY <1>1, <1>3, Clock DEF Tick
    <3>2. ~(silence' > Timeout)
      BY <1>3, Zenon DEF Tick
    <3> QED BY <1>1, <3>1, <3>2
  <2> QED BY <1>3, <2>1 DEF Tick, Quiet, clientVars, InDriver
<1>4. CASE UnloadDriver
  BY <1>4 DEF UnloadDriver, Quiet
<1>5. CASE ConnectionChecker
  BY <1>1, <1>5 DEF ConnectionChecker, Quiet, clientVars
<1>6. CASE CheckerTest \/ CheckerRemove
  BY <1>6 DEF CheckerTest, CheckerRemove, Quiet
<1>7. ASSUME occurred < MaxEvents, NEW r \in Request[occurred + 1], RegistryCallback(r)
      PROVE  Quiet'
  <2> DEFINE e == [id |-> occurred + 1, size |-> Size(r), session |-> session,
                   name |-> EventName[r.kind], path |-> PathOf(r)]
  <2>1. e \in Event /\ queue \in Seq(Event)
    BY <1>7, NewEvent DEF RegistryCallback, TypeOK
  <2>2. queue' = queue \/ queue' = Append(queue, e)
    BY <1>7 DEF RegistryCallback, QueueRegistryEvent
  <2> HIDE DEF e
  <2>3. queue # <<>> => queue' # <<>>
    BY <2>1, <2>2, Appended
  <2> QED BY <1>7, <2>3 DEF RegistryCallback, Quiet, clientVars
<1>8. CASE Start
  BY <1>8 DEF Start, Quiet, driverVars
<1>9. CASE Run
  BY <1>1, <1>9 DEF Run, KDispatchIoctl, UpdateLastContactTime, Quiet
<1>10. CASE RequestTest
  BY <1>10 DEF RequestTest, Quiet, driverVars
<1>11. CASE RequestRemove \/ RequestCopy
  BY <1>11 DEF RequestRemove, RequestCopy, Quiet
<1>12. CASE Examine
  BY <1>12 DEF Examine, Quiet, driverVars
<1>13. CASE StopBegin \/ StopSignal \/ StopJoin \/ ClientDies
  BY <1>13 DEF StopBegin, StopSignal, StopJoin, ClientDies, Quiet
<1>14. CASE UNCHANGED vars
  BY <1>14 DEF vars, driverVars, clientVars, Quiet
<1> QED
  BY <1>2, <1>3, <1>4, <1>5, <1>6, <1>7, <1>8, <1>9, <1>10, <1>11, <1>12, <1>13, <1>14
     DEF Next, Checker, Thread, Request_, Stop

(* The thread moves events from place to place and drops none.              *)
LEMMA WholeStep ==
    ASSUME TypeOK, Local, Quiet, Whole, [Next]_vars, ~gap, ~gap'
    PROVE  Whole'
<1> DEFINE X == Len(examined)
           B == Len(buffer)
           H == Len(InHand)
           Q == Len(queue)
<1>1. /\ queue \in Seq(Event) /\ buffer \in Seq(Event) /\ InHand \in Seq(Event)
      /\ X \in Nat /\ B \in Nat /\ H \in Nat /\ Q \in Nat
  BY HandParts, LenProperties DEF TypeOK
<1>2. /\ From(examined, 0) /\ From(buffer, X) /\ From(InHand, X + B)
      /\ From(queue, X + B + H) /\ occurred = X + B + H + Q
  BY DEF Whole
<1>3. ASSUME UNCHANGED <<examined, buffer, hand, queue, occurred>>
      PROVE  Whole'
  BY <1>3 DEF Whole, InHand
<1>4. CASE DriverEntry
  <2>1. queue = <<>>
    BY <1>4 DEF DriverEntry, Local
  <2> QED BY <1>3, <1>4, <2>1 DEF DriverEntry, clientVars, requestVars, historyVars
<1>5. ASSUME occurred < MaxEvents, NEW r \in Request[occurred + 1], RegistryCallback(r)
      PROVE  Whole'
  <2> DEFINE e == [id |-> occurred + 1, size |-> Size(r), session |-> session,
                   name |-> EventName[r.kind], path |-> PathOf(r)]
             a == Append(queue, e)
  <2>1. e \in Event /\ e.id = occurred + 1
    BY <1>5, NewEvent DEF RegistryCallback
  <2>2. /\ queue' = a /\ occurred' = occurred + 1
        /\ examined' = examined /\ buffer' = buffer /\ InHand' = InHand
    BY <1>5 DEF RegistryCallback, QueueRegistryEvent, Quiet, InHand, clientVars,
                requestVars
  <2> HIDE DEF e
  <2>3. /\ Len(a) = Q + 1 /\ DOMAIN a = 1..(Q + 1)
        /\ \A i \in 1..Q : a[i] = queue[i]
        /\ a[Q + 1] = e
    BY <1>1, <2>1, Appended
  <2>4. DOMAIN queue = 1..Q
    BY <1>1, LenProperties
  <2> HIDE DEF a, X, B, H, Q
  <2>5. ASSUME NEW i \in DOMAIN a PROVE a[i].id = (X + B + H) + i
    <3>1. CASE i = Q + 1
      BY <1>1, <1>2, <2>1, <2>3, <3>1
    <3>2. CASE i # Q + 1
      <4>1. i \in DOMAIN queue /\ a[i] = queue[i]
        BY <1>1, <2>3, <2>4, <2>5, <3>2
      <4> QED BY <1>2, <4>1 DEF From
    <3> QED BY <3>1, <3>2
  <2>6. From(a, X + B + H)
    BY <2>5 DEF From
  <2>7. occurred + 1 = X + B + H + (Q + 1)
    BY <1>1, <1>2
  <2> QED BY <1>2, <2>2, <2>3, <2>6, <2>7 DEF Whole, X, B, H
<1>6. CASE RequestRemove
  <2>1. queue # <<>>
    BY <1>6 DEF RequestRemove, Quiet
  <2>2. hand = NoEvent
    BY <1>6 DEF RequestRemove, Local
  <2> DEFINE h == Head(queue)
             t == Tail(queue)
  <2>3. /\ hand' = h /\ queue' = t
        /\ examined' = examined /\ buffer' = buffer /\ occurred' = occurred
    BY <1>6, <2>1 DEF RequestRemove, historyVars
  <2>4. /\ h # NoEvent /\ h = queue[1] /\ Len(t) = Q - 1 /\ DOMAIN t = 1..(Q - 1)
        /\ \A i \in 1..(Q - 1) : t[i] = queue[i + 1]
        /\ Q > 0
    BY <1>1, <2>1, Taken, EventParts
  <2>5. InHand' = <<h>> /\ H = 0
    BY <2>2, <2>3, <2>4, HandParts DEF InHand
  <2>6. DOMAIN queue = 1..Q
    BY <1>1, LenProperties
  <2>7. DOMAIN <<h>> = {1} /\ <<h>>[1] = h /\ Len(<<h>>) = 1
    BY One
  <2> HIDE DEF h, t, X, B, H, Q
  <2>8. From(<<h>>, X + B)
    <3> DEFINE x == <<h>>
    <3>1. DOMAIN x = {1} /\ x[1] = h
      BY <2>7
    <3> HIDE DEF x
    <3>2. h.id = X + B + H + 1
      BY <1>1, <1>2, <2>4, <2>6 DEF From
    <3>3. h.id = (X + B) + 1
      BY <1>1, <2>5, <3>2
    <3> QED BY <3>1, <3>3 DEF From, x
  <2>9. From(t, X + B + 1)
    <3>1. ASSUME NEW i \in DOMAIN t PROVE t[i].id = (X + B + 1) + i
      <4>1. i + 1 \in DOMAIN queue /\ t[i] = queue[i + 1] /\ i \in Nat
        BY <1>1, <2>4, <2>6, <3>1
      <4>2. queue[i + 1].id = (X + B + H) + (i + 1)
        BY <1>2, <4>1 DEF From
      <4> QED BY <1>1, <2>5, <4>1, <4>2
    <3> QED BY <3>1 DEF From
  <2>10. occurred = X + B + 1 + (Q - 1)
    BY <1>1, <1>2, <2>5
  <2> QED BY <1>2, <2>3, <2>4, <2>5, <2>7, <2>8, <2>9, <2>10 DEF Whole, X, B
<1>7. CASE RequestCopy
  <2>1. /\ hand \in Event /\ InHand = <<hand>> /\ InHand' = <<>>
        /\ examined' = examined /\ occurred' = occurred
    BY <1>7 DEF RequestCopy, TypeOK, Local, InHand, historyVars
  <2>2. H = 1 /\ Len(<<>>) = 0
    BY <2>1
  <2>3. hand.id = X + B + 1
    <3> DEFINE x == InHand
    <3>1. 1 \in DOMAIN x /\ x[1] = hand
      BY <2>1
    <3> HIDE DEF x, X, B
    <3>2. From(x, X + B)
      BY <1>2 DEF x
    <3> QED BY <3>1, <3>2 DEF From
  <2>4. CASE Fits
    <3> DEFINE a == Append(buffer, hand)
    <3>1. buffer' = a /\ queue' = queue
      BY <1>7, <2>4 DEF RequestCopy
    <3>2. /\ Len(a) = B + 1 /\ DOMAIN a = 1..(B + 1) /\ a[B + 1] = hand
          /\ \A i \in 1..B : a[i] = buffer[i]
      BY <1>1, <2>1, Appended
    <3>3. DOMAIN buffer = 1..B
      BY <1>1, LenProperties
    <3> HIDE DEF a, X, B, H, Q
    <3>4. ASSUME NEW i \in DOMAIN a PROVE a[i].id = X + i
      <4>1. CASE i = B + 1
        BY <1>1, <2>3, <3>2, <4>1
      <4>2. CASE i # B + 1
        <5>1. i \in DOMAIN buffer /\ a[i] = buffer[i]
          BY <1>1, <3>2, <3>3, <3>4, <4>2
        <5> QED BY <1>2, <5>1 DEF From
      <4> QED BY <4>1, <4>2
    <3>5. From(a, X)
      BY <3>4 DEF From
    <3>6. X + B + H = X + (B + 1) + 0 /\ occurred = X + (B + 1) + 0 + Q
      BY <1>1, <1>2, <2>2
    <3> QED BY <1>2, <2>1, <2>2, <3>1, <3>2, <3>5, <3>6, FromNothing DEF Whole, X, Q
  <2>5. CASE ~Fits
    <3> DEFINE a == <<hand>> \o queue
    <3>1. buffer' = buffer /\ queue' = a
      BY <1>7, <2>5 DEF RequestCopy, PutBack
    <3>2. /\ Len(a) = Q + 1 /\ DOMAIN a = 1..(Q + 1) /\ a[1] = hand
          /\ \A i \in 1..Q : a[i + 1] = queue[i]
      BY <1>1, <2>1, PutInFront
    <3>3. DOMAIN queue = 1..Q
      BY <1>1, LenProperties
    <3> HIDE DEF a, X, B, H, Q
    <3>4. ASSUME NEW i \in DOMAIN a PROVE a[i].id = (X + B + 0) + i
      <4>1. CASE i = 1
        BY <1>1, <2>3, <3>2, <4>1
      <4>2. CASE i # 1
        <5> DEFINE k == i - 1
        <5>1. k \in 1..Q /\ k + 1 = i /\ k \in Nat
          BY <1>1, <3>2, <3>4, <4>2
        <5> HIDE DEF k
        <5>2. a[i] = queue[k] /\ k \in DOMAIN queue
          BY <3>2, <3>3, <5>1
        <5>3. queue[k].id = (X + B + H) + k
          BY <1>2, <5>2 DEF From
        <5> QED BY <1>1, <2>2, <5>1, <5>2, <5>3
      <4> QED BY <4>1, <4>2
    <3>5. From(a, X + B + 0)
      BY <3>4 DEF From
    <3>6. occurred = X + B + 0 + (Q + 1)
      BY <1>1, <1>2, <2>2
    <3> QED BY <1>2, <2>1, <2>2, <3>1, <3>2, <3>5, <3>6, FromNothing DEF Whole, X, B
  <2> QED BY <2>4, <2>5
<1>8. CASE Examine
  <2> DEFINE S == [id : 1..MaxEvents, path : Seq(Part), hive : Seq(Part)]
             e == Head(buffer)
             t == Tail(buffer)
             x == [id |-> e.id, path |-> e.path,
                   hive |-> convertRegistryObjectNameToHiveName(e.path)]
             a == Append(examined, x)
  <2>1. buffer # <<>> /\ e \in Event
    BY <1>1, <1>8, Taken DEF Examine, Local
  <2>2. x \in S /\ x.id = e.id
    BY <2>1, EventParts, HiveOf
  <2>3. examined \in Seq(S)
    BY DEF TypeOK
  <2>4. /\ examined' = a /\ buffer' = t
        /\ InHand' = InHand /\ queue' = queue /\ occurred' = occurred
    BY <1>8 DEF Examine, Quiet, InHand, driverVars
  <2>5. /\ e = buffer[1] /\ Len(t) = B - 1 /\ DOMAIN t = 1..(B - 1) /\ B > 0
        /\ \A i \in 1..(B - 1) : t[i] = buffer[i + 1]
        /\ DOMAIN buffer = 1..B
    BY <1>1, <2>1, Taken, LenProperties
  <2> HIDE DEF S, e, x
  <2>6. /\ Len(a) = X + 1 /\ DOMAIN a = 1..(X + 1) /\ a[X + 1] = x
        /\ \A i \in 1..X : a[i] = examined[i]
        /\ DOMAIN examined = 1..X
    BY <2>2, <2>3, Appended, LenProperties
  <2> HIDE DEF a, t, X, B, H, Q
  <2>7. x.id = X + 1
    <3>1. 1 \in DOMAIN buffer
      BY <1>1, <2>5
    <3>2. buffer[1].id = X + 1
      BY <1>2, <3>1 DEF From
    <3> QED BY <2>2, <2>5, <3>2
  <2>8. ASSUME NEW i \in DOMAIN a PROVE a[i].id = 0 + i
    <3>1. CASE i = X + 1
      BY <1>1, <2>6, <2>7, <3>1
    <3>2. CASE i # X + 1
      <4>1. i \in DOMAIN examined /\ a[i] = examined[i]
        BY <1>1, <2>6, <2>8, <3>2
      <4> QED BY <1>2, <4>1 DEF From
    <3> QED BY <3>1, <3>2
  <2>9. ASSUME NEW i \in DOMAIN t PROVE t[i].id = (X + 1) + i
    <3>1. i + 1 \in DOMAIN buffer /\ t[i] = buffer[i + 1] /\ i \in Nat
      BY <1>1, <2>5, <2>9
    <3>2. buffer[i + 1].id = X + (i + 1)
      BY <1>2, <3>1 DEF From
    <3> QED BY <1>1, <3>1, <3>2
  <2>10. From(a, 0) /\ From(t, X + 1)
    BY <2>8, <2>9 DEF From
  <2>11. /\ X + B = (X + 1) + (B - 1) /\ X + B + H = (X + 1) + (B - 1) + H
         /\ occurred = (X + 1) + (B - 1) + H + Q
    BY <1>1, <1>2
  <2> QED BY <1>2, <2>4, <2>5, <2>6, <2>10, <2>11 DEF Whole, H, Q
<1>9. CASE CheckerTest \/ CheckerRemove \/ UnloadDriver
  BY <1>9 DEF CheckerTest, CheckerRemove, UnloadDriver, Quiet
<1>10. CASE StopBegin \/ StopSignal \/ StopJoin \/ ClientDies
  BY <1>10 DEF StopBegin, StopSignal, StopJoin, ClientDies, Quiet
<1>11. CASE Tick \/ ConnectionChecker \/ UNCHANGED vars
  BY <1>3, <1>11
     DEF Tick, ConnectionChecker, vars, driverVars, clientVars, requestVars, historyVars
<1>12. CASE Start \/ Run \/ RequestTest
  BY <1>3, <1>12
     DEF Start, Run, RequestTest, driverVars, requestVars, historyVars
<1> QED
  BY <1>4, <1>5, <1>6, <1>7, <1>8, <1>9, <1>10, <1>11, <1>12
     DEF Next, Checker, Thread, Request_, Stop

(* A gap is never undone.                                                   *)
LEMMA CompleteStep ==
    ASSUME TypeOK, Local, Complete, [Next]_vars
    PROVE  Complete'
<1>1. gap => gap'
  BY DEF Next, Checker, Thread, Request_, Stop, DriverEntry, Tick, UnloadDriver,
         ConnectionChecker, CheckerTest, CheckerRemove, RegistryCallback, Start,
         Run, RequestTest, RequestRemove, RequestCopy, Examine, StopBegin,
         StopSignal, StopJoin, ClientDies, vars, historyVars
<1> QED BY <1>1, QuietStep, WholeStep DEF Complete

-----------------------------------------------------------------------------
(* Recency.                                                                 *)

LEMMA Ranges ==
    ASSUME NEW S, NEW s \in Seq(S), NEW e \in S
    PROVE  /\ Range(Append(s, e)) \subseteq Range(s) \cup {e}
           /\ Range(<<e>> \o s) \subseteq Range(s) \cup {e}
           /\ Range(<<e>>) = {e} /\ Range(<<>>) = {}
           /\ s # <<>> => Range(Tail(s)) \subseteq Range(s) /\ Head(s) \in Range(s)
<1>1. Range(<<>>) = {}
  BY DEF Range
<1>2. Range(<<e>>) = {e}
  <2> DEFINE x == <<e>>
  <2>1. DOMAIN x = {1} /\ x[1] = e
    BY One
  <2> HIDE DEF x
  <2>2. Range(x) = {e}
    BY <2>1 DEF Range
  <2> QED BY <2>2 DEF x
<1>3. Range(<<e>> \o s) \subseteq Range(s) \cup {e}
  <2> DEFINE x == <<e>>
  <2>1. x \in Seq(S) /\ Range(x) = {e}
    BY <1>2
  <2> HIDE DEF x
  <2>2. Range(x \o s) = Range(x) \cup Range(s)
    BY <2>1, RangeConcatenation
  <2> QED BY <2>1, <2>2 DEF x
<1>4. Range(Append(s, e)) \subseteq Range(s) \cup {e}
  <2> DEFINE a == Append(s, e)
             n == Len(s)
  <2>1. /\ n \in Nat /\ DOMAIN s = 1..n /\ DOMAIN a = 1..(n + 1)
        /\ \A i \in 1..n : a[i] = s[i]
        /\ a[n + 1] = e
    BY Appended, LenProperties
  <2> HIDE DEF a, n
  <2>2. ASSUME NEW i \in DOMAIN a PROVE a[i] \in Range(s) \cup {e}
    <3>1. CASE i = n + 1
      BY <2>1, <3>1
    <3>2. CASE i # n + 1
      BY <2>1, <2>2, <3>2 DEF Range
    <3> QED BY <3>1, <3>2
  <2>3. Range(a) \subseteq Range(s) \cup {e}
    BY <2>2 DEF Range
  <2> QED BY <2>3 DEF a
<1>5. ASSUME s # <<>> PROVE Range(Tail(s)) \subseteq Range(s) /\ Head(s) \in Range(s)
  <2> DEFINE t == Tail(s)
             h == Head(s)
             n == Len(s)
  <2>1. /\ n \in Nat /\ n > 0 /\ DOMAIN s = 1..n /\ DOMAIN t = 1..(n - 1) /\ h = s[1]
        /\ \A i \in 1..(n - 1) : t[i] = s[i + 1]
    BY <1>5, Taken, LenProperties
  <2> HIDE DEF t, h, n
  <2>2. ASSUME NEW i \in DOMAIN t PROVE t[i] \in Range(s)
    <3>1. i + 1 \in DOMAIN s /\ t[i] = s[i + 1]
      BY <2>1, <2>2
    <3> QED BY <3>1 DEF Range
  <2>3. h \in Range(s)
    BY <2>1 DEF Range
  <2>4. Range(t) \subseteq Range(s)
    BY <2>2 DEF Range
  <2> QED BY <2>3, <2>4 DEF t, h
<1> QED BY <1>1, <1>2, <1>3, <1>4, <1>5

(* Only the callback brings events, and they are of the client that runs.   *)
LEMMA KeptStep ==
    ASSUME TypeOK, Local, [Next]_vars
    PROVE  \A e \in Kept' : e \in Kept \/ (e.session = session /\ session' = session)
<1> USE DEF InHand
<1>1. /\ queue \in Seq(Event) /\ buffer \in Seq(Event)
      /\ Range(<<>>) = {}
  <2>1. <<>> \in Seq({1}) /\ 1 \in {1}
    OBVIOUS
  <2> QED BY <2>1, Ranges DEF TypeOK
<1>2. ASSUME UNCHANGED hand, queue' = queue \/ queue' = <<>>, buffer' = buffer \/ buffer' = <<>>
      PROVE  Kept' \subseteq Kept
  BY <1>1, <1>2 DEF Kept
<1>3. CASE CheckerRemove
  <2>1. CASE queue = <<>>
    BY <1>2, <1>3, <2>1 DEF CheckerRemove, clientVars, requestVars
  <2>2. CASE queue # <<>>
    <3>1. queue' = Tail(queue) /\ UNCHANGED <<buffer, hand>>
      BY <1>3, <2>2 DEF CheckerRemove, clientVars, requestVars
    <3>2. Range(Tail(queue)) \subseteq Range(queue)
      <4>1. Head(queue) \in Event
        BY <1>1, <2>2, Taken
      <4> QED BY <1>1, <2>2, <4>1, Ranges
    <3> QED BY <3>1, <3>2 DEF Kept
  <2> QED BY <2>1, <2>2
<1>4. ASSUME occurred < MaxEvents, NEW r \in Request[occurred + 1], RegistryCallback(r)
      PROVE  \A e \in Kept' : e \in Kept \/ (e.session = session /\ session' = session)
  <2> DEFINE x == [id |-> occurred + 1, size |-> Size(r), session |-> session,
                   name |-> EventName[r.kind], path |-> PathOf(r)]
  <2>1. x \in Event /\ x.session = session
    BY <1>4, NewEvent DEF RegistryCallback
  <2>2. /\ queue' = queue \/ queue' = Append(queue, x)
        /\ UNCHANGED <<buffer, hand, session>>
    BY <1>4 DEF RegistryCallback, QueueRegistryEvent, clientVars, requestVars
  <2> HIDE DEF x
  <2>3. Range(Append(queue, x)) \subseteq Range(queue) \cup {x}
    BY <1>1, <2>1, Ranges
  <2>4. Kept' \subseteq Kept \cup {x}
    BY <2>2, <2>3 DEF Kept
  <2> QED BY <2>1, <2>2, <2>4
<1>5. CASE RequestRemove
  <2>1. CASE queue = <<>>
    BY <1>2, <1>5, <2>1 DEF RequestRemove
  <2>2. CASE queue # <<>>
    <3> DEFINE h == Head(queue)
               t == Tail(queue)
    <3>1. hand' = h /\ queue' = t /\ UNCHANGED buffer
      BY <1>5, <2>2 DEF RequestRemove
    <3>2. h \in Event /\ h # NoEvent
      BY <1>1, <2>2, Taken, EventParts
    <3>3. Range(t) \subseteq Range(queue) /\ h \in Range(queue)
      BY <1>1, <2>2, <3>2, Ranges
    <3> HIDE DEF h, t
    <3>4. InHand' = <<h>> /\ Range(<<h>>) = {h}
      BY <1>1, <3>1, <3>2, Ranges
    <3> QED BY <3>1, <3>3, <3>4 DEF Kept
  <2> QED BY <2>1, <2>2
<1>6. CASE RequestCopy
  <2>1. hand \in Event /\ InHand = <<hand>> /\ InHand' = <<>>
    BY <1>6 DEF RequestCopy, TypeOK, Local
  <2>2. hand \in Kept
    BY <1>1, <2>1, Ranges DEF Kept
  <2>3. \/ buffer' = Append(buffer, hand) /\ queue' = queue
        \/ buffer' = buffer /\ queue' = <<hand>> \o queue
    BY <1>6 DEF RequestCopy, PutBack
  <2>4. /\ Range(Append(buffer, hand)) \subseteq Range(buffer) \cup {hand}
        /\ Range(<<hand>> \o queue) \subseteq Range(queue) \cup {hand}
    BY <1>1, <2>1, Ranges
  <2>5. InHand' = <<>>
    BY <2>1
  <2>6. Range(InHand') = {}
    BY <1>1, <2>5
  <2> QED BY <2>2, <2>3, <2>4, <2>6 DEF Kept
<1>7. CASE Examine
  <2>1. buffer # <<>> /\ Head(buffer) \in Event
    BY <1>1, <1>7, Taken DEF Examine, Local
  <2>2. Range(Tail(buffer)) \subseteq Range(buffer)
    BY <1>1, <2>1, Ranges
  <2>3. buffer' = <<>> \/ buffer' = Tail(buffer)
    BY <1>7 DEF Examine
  <2>4. UNCHANGED <<queue, hand>>
    BY <1>7 DEF Examine, driverVars
  <2> QED BY <1>1, <2>2, <2>3, <2>4 DEF Kept
<1>8. CASE ~(CheckerRemove \/ RequestRemove \/ RequestCopy \/ Examine)
           /\ ~\E r \in Request[occurred + 1] : occurred < MaxEvents /\ RegistryCallback(r)
  <2>1. /\ UNCHANGED hand
        /\ queue' = queue \/ queue' = <<>>
        /\ buffer' = buffer \/ buffer' = <<>>
    BY <1>8
       DEF Next, Checker, Thread, Request_, Stop, DriverEntry, Tick, UnloadDriver,
           ConnectionChecker, CheckerTest, Start, Run, RequestTest, StopBegin,
           StopSignal, StopJoin, ClientDies, vars, driverVars, clientVars, requestVars
  <2>2. Kept' \subseteq Kept
    BY <1>2, <2>1
  <2> QED BY <2>2
<1> QED BY <1>3, <1>4, <1>5, <1>6, <1>7, <1>8

(* What is queued does not wait: neither clock nor checker put it off.      *)
LEMMA DueStep ==
    ASSUME TypeOK, Local, CheckerIsDue, [Next]_vars
    PROVE  CheckerIsDue'
<1>1. /\ silence \in Nat /\ due \in Nat /\ due <= Period /\ Timeout \in Nat
      /\ Period \in Nat /\ Timeout <= Period /\ Cap = 2 * Period + 1
  BY Clock DEF TypeOK
<1>2. ASSUME UNCHANGED <<silence, due, checker>>, queue # <<>> \/ queue' = <<>>
      PROVE  CheckerIsDue'
  BY <1>2 DEF CheckerIsDue
<1>3. CASE DriverEntry
  BY <1>3 DEF DriverEntry, CheckerIsDue
<1>4. CASE Tick
  <2>1. checker = "idle" /\ queue' = queue /\ due' = due - 1 /\ silence' <= silence + 1
    BY <1>1, <1>4 DEF Tick
  <2>2. silence' \in Nat
    BY <1>1, <1>4 DEF Tick
  <2>3. queue # <<>> => silence + due <= 2 * Period
    BY <2>1 DEF CheckerIsDue
  <2>4. ASSUME NEW s \in Nat, NEW d, d = due - 1, s <= silence + 1
        PROVE  d \in Int /\ s + d <= silence + due
    BY <1>1, <2>4
  <2>5. due' \in Int /\ silence' + due' <= silence + due
    BY <2>1, <2>2, <2>4
  <2>6. queue # <<>> => silence' + due' <= 2 * Period
    <3>1. ASSUME NEW a \in Int, NEW b \in Int, NEW c \in Int, a <= b, b <= c PROVE a <= c
      BY <3>1
    <3>2. /\ silence' + due' \in Int /\ silence + due \in Int /\ 2 * Period \in Int
      BY <1>1, <2>2, <2>5
    <3> QED BY <2>3, <2>5, <3>1, <3>2
  <2> QED BY <2>1, <2>6 DEF CheckerIsDue
<1>5. CASE UnloadDriver
  BY <1>5 DEF UnloadDriver, CheckerIsDue
<1>6. CASE ConnectionChecker
  <2>1. /\ checker = "idle" /\ due = 0 /\ due' = Period /\ queue' = queue /\ silence' = silence
        /\ silence > Period => checker' = "test"
    BY <1>6 DEF ConnectionChecker
  <2> QED BY <1>1, <2>1 DEF CheckerIsDue
<1>7. CASE CheckerTest
  BY <1>7 DEF CheckerTest, CheckerIsDue
<1>8. CASE CheckerRemove
  <2>1. CASE queue = <<>>
    BY <1>8, <2>1 DEF CheckerRemove, CheckerIsDue
  <2>2. CASE queue # <<>>
    BY <1>8, <2>2 DEF CheckerRemove, CheckerIsDue
  <2> QED BY <2>1, <2>2
<1>9. ASSUME NEW r \in Request[occurred + 1], RegistryCallback(r)
      PROVE  CheckerIsDue'
  <2>1. UNCHANGED <<silence, due, checker>> /\ (queue' = queue \/ silence <= Timeout)
    BY <1>9 DEF RegistryCallback, QueueRegistryEvent
  <2> QED BY <1>1, <2>1 DEF CheckerIsDue
<1>10. CASE Run
  <2>1. queue' = queue /\ due' = due /\ checker' = checker /\ (silence' = 0 \/ silence' = silence)
    BY <1>10 DEF Run, KDispatchIoctl, UpdateLastContactTime
  <2> QED BY <1>1, <2>1 DEF CheckerIsDue
<1>11. CASE RequestRemove
  BY <1>2, <1>11 DEF RequestRemove
<1>12. CASE RequestCopy
  <2>1. silence' = silence /\ due' = due /\ silence = 0
    BY <1>12 DEF RequestCopy, Local, InDriver
  <2> QED BY <1>1, <2>1 DEF CheckerIsDue
<1>13. CASE Start \/ RequestTest \/ Examine \/ StopBegin \/ StopSignal
            \/ StopJoin \/ ClientDies \/ UNCHANGED vars
  <2>1. UNCHANGED <<queue, silence, due, checker>>
    BY <1>13
       DEF Start, RequestTest, Examine, StopBegin, StopSignal, StopJoin, ClientDies,
           vars, driverVars
  <2> QED BY <2>1 DEF CheckerIsDue
<1> QED
  BY <1>3, <1>4, <1>5, <1>6, <1>7, <1>8, <1>9, <1>10, <1>11, <1>12, <1>13
     DEF Next, Checker, Thread, Request_, Stop

(* A client that has made no request has met no event, and what is queued   *)
(* at its first request is recent.                                          *)
LEMMA FreshStep ==
    ASSUME TypeOK, Local, Fresh, [Next]_vars
    PROVE  Fresh'
<1>1. /\ silence \in Nat /\ due \in Nat /\ Period \in Nat /\ pause \in Int
      /\ session \in Int
  BY Clock DEF TypeOK
<1>2. CheckerIsDue'
  BY DueStep DEF Fresh
<1>3. \A e \in Kept : e.session \in Int
  <2>1. queue \in Seq(Event) /\ buffer \in Seq(Event) /\ InHand \in Seq(Event)
    BY HandParts DEF TypeOK
  <2>2. Kept \subseteq Event
    BY <2>1, RangeOfSeq DEF Kept
  <2> QED BY <2>2, EventParts
<1>4. ASSUME UNCHANGED <<session, pause>>,
             pause < 0 => thread' \in {"off", "poll", "ended"}
      PROVE  Fresh'
  <2>1. \A e \in Kept' : e.session <= session'
    BY <1>1, <1>4, KeptStep DEF Fresh
  <2>2. (\E e \in Kept' : e.session < session') => pause' <= 2 * Period
    BY <1>1, <1>4, KeptStep DEF Fresh
  <2> QED BY <1>2, <1>4, <2>1, <2>2 DEF Fresh
<1>5. CASE Start
  <2>1. session' = session + 1 /\ pause' = -1 /\ thread' = "poll"
        /\ UNCHANGED <<queue, buffer, hand>>
    BY <1>5 DEF Start, driverVars, requestVars
  <2>2. Kept' = Kept
    BY <2>1 DEF Kept, InHand
  <2>3. \A e \in Kept' : e.session <= session'
    BY <1>1, <1>3, <2>1, <2>2 DEF Fresh
  <2>4. pause' <= 2 * Period
    BY <1>1, <2>1
  <2> QED BY <1>2, <2>1, <2>3, <2>4 DEF Fresh
<1>6. CASE Run
  <2>1. UNCHANGED session
    BY <1>6 DEF Run
  <2>2. CASE pause < 0 /\ thread' = "test"
    <3>1. pause' = silence /\ thread = "poll" /\ UNCHANGED <<queue, buffer, hand>>
      BY <1>6, <2>2 DEF Run, KDispatchIoctl, requestVars
    <3>2. buffer = <<>> /\ hand = NoEvent
      BY <3>1 DEF Local
    <3>3. \A e : e \notin Range(<<>>)
      BY DEF Range
    <3>4. Kept' = Range(queue)
      BY <3>1, <3>2, <3>3 DEF Kept, InHand
    <3>5. queue = <<>> => Kept' = {}
      BY <3>3, <3>4
    <3>6. queue # <<>> => pause' <= 2 * Period
      BY <1>1, <3>1 DEF Fresh, CheckerIsDue
    <3>7. \A e \in Kept' : e.session <= session'
      BY <2>1, <3>4 DEF Fresh, Kept
    <3>8. ~(pause' < 0)
      BY <1>1, <3>1
    <3> QED BY <1>2, <3>5, <3>6, <3>7, <3>8 DEF Fresh
  <2>3. CASE ~(pause < 0) /\ thread' = "test"
    <3>1. pause' = pause
      BY <1>6, <2>3 DEF Run, KDispatchIoctl
    <3> QED BY <1>4, <2>1, <2>3, <3>1
  <2>4. CASE thread' # "test"
    <3>1. pause' = pause /\ thread' = "ended"
      BY <1>6, <2>4 DEF Run, KDispatchIoctl
    <3> QED BY <1>4, <2>1, <3>1
  <2> QED BY <2>2, <2>3, <2>4
<1>7. CASE ~(Start \/ Run)
  <2>1. /\ UNCHANGED <<session, pause>>
        /\ thread' = thread \/ thread' = "off" \/ thread \in {"test", "remove", "copy", "examine"}
    BY <1>7
       DEF Next, Checker, Thread, Request_, Stop, DriverEntry, Tick, UnloadDriver,
           ConnectionChecker, CheckerTest, CheckerRemove, RegistryCallback,
           RequestTest, RequestRemove, RequestCopy, Examine, StopBegin,
           StopSignal, StopJoin, ClientDies, vars, clientVars, historyVars
  <2>2. pause < 0 => thread' \in {"off", "poll", "ended"}
    BY <2>1 DEF Fresh
  <2> QED BY <1>4, <2>1, <2>2
<1> QED BY <1>5, <1>6, <1>7

-----------------------------------------------------------------------------
(* The invariant.                                                           *)

LEMMA InitInvariant == Init => IInv
<1> SUFFICES ASSUME Init PROVE IInv
  OBVIOUS
<1> USE DEF Init
<1>1. TypeOK
  <2>1. /\ loaded \in BOOLEAN /\ crashed \in BOOLEAN /\ running \in BOOLEAN
        /\ stopEvent \in BOOLEAN /\ gap \in BOOLEAN
    OBVIOUS
  <2>2. /\ queue \in Seq(Event) /\ buffer \in Seq(Event)
        /\ examined \in Seq([id : 1..MaxEvents, path : Seq(Part), hive : Seq(Part)])
    OBVIOUS
  <2> QED BY <2>1, <2>2, Clock, BufferAssumption, RegistryBounds DEF TypeOK
<1>2. Local
  BY DEF Local, InDriver
<1>3. examined = <<>> /\ buffer = <<>> /\ queue = <<>> /\ InHand = <<>>
  BY DEF InHand
<1>4. Hives
  BY <1>3 DEF Hives
<1>5. Order
  BY <1>3, NothingOrder, RegistryBounds DEF Order
<1>6. Complete
  <2>1. Quiet
    BY Clock DEF Quiet
  <2>2. Whole
    BY <1>3, FromNothing DEF Whole
  <2> QED BY <2>1, <2>2 DEF Complete
<1>7. Fresh
  <2>1. Kept = {}
    BY <1>3 DEF Kept, Range
  <2> QED BY <1>3, <2>1 DEF Fresh, CheckerIsDue
<1> QED BY <1>1, <1>2, <1>4, <1>5, <1>6, <1>7 DEF IInv

LEMMA NextInvariant == IInv /\ [Next]_vars => IInv'
BY TypeStep, LocalStep, HivesStep, OrderStep, CompleteStep, FreshStep DEF IInv

LEMMA Invariance == Spec => []IInv
BY InitInvariant, NextInvariant, PTL DEF Spec

(* Every variable keeps its type, whatever callback, timer, requests and a  *)
(* dying client do in the driver and in RegistryMonitor.                    *)
THEOREM TypeCorrect == Spec => []TypeOK
<1>1. IInv => TypeOK
  BY DEF IInv
<1> QED BY <1>1, Invariance, PTL

-----------------------------------------------------------------------------
(* Numbers of events.                                                       *)

LEMMA IdsOf ==
    ASSUME NEW S, NEW s \in Seq(S), \A x \in S : x.id \in Nat
    PROVE  /\ Ids(s) \in Seq(Nat) /\ Len(Ids(s)) = Len(s)
           /\ DOMAIN Ids(s) = DOMAIN s
           /\ \A i \in DOMAIN s : Ids(s)[i] = s[i].id
<1> DEFINE n == Len(s)
           d == Ids(s)
<1>1. n \in Nat /\ DOMAIN s = 1..n /\ \A i \in 1..n : s[i] \in S
  BY LenProperties, ElementOfSeq
<1>2. d = [i \in 1..n |-> s[i].id]
  BY <1>1 DEF Ids
<1>3. \A i \in 1..n : s[i].id \in Nat
  BY <1>1
<1> HIDE DEF n, d
<1>4. d \in Seq(Nat) /\ Len(d) = n /\ DOMAIN d = 1..n /\ \A i \in 1..n : d[i] = s[i].id
  BY <1>1, <1>2, <1>3
<1> QED BY <1>1, <1>4 DEF n, d

LEMMA IdsAppend ==
    ASSUME NEW S, NEW s \in Seq(S), NEW e \in S, \A x \in S : x.id \in Nat
    PROVE  Ids(Append(s, e)) = Append(Ids(s), e.id)
<1> DEFINE n == Len(s)
           a == Append(s, e)
           d == Ids(s)
           c == Ids(a)
           m == e.id
           b == Append(d, m)
<1>1. /\ n \in Nat /\ DOMAIN s = 1..n /\ DOMAIN a = 1..(n + 1) /\ a \in Seq(S)
      /\ \A i \in 1..n : a[i] = s[i]
      /\ a[n + 1] = e
  BY Appended, LenProperties
<1>2. /\ d \in Seq(Nat) /\ Len(d) = n /\ m \in Nat
      /\ \A i \in 1..n : d[i] = s[i].id
  BY <1>1, IdsOf
<1>3. c = [i \in 1..(n + 1) |-> a[i].id]
  BY <1>1 DEF Ids
<1> HIDE DEF n, a, d, c
<1>4. /\ b \in Seq(Nat) /\ DOMAIN b = 1..(n + 1) /\ b[n + 1] = m
      /\ \A i \in 1..n : b[i] = d[i]
  <2> HIDE DEF m
  <2> QED BY <1>2, Appended
<1> HIDE DEF b
<1>5. ASSUME NEW i \in 1..(n + 1) PROVE c[i] = b[i]
  <2>1. CASE i = n + 1
    BY <1>1, <1>3, <1>4, <2>1
  <2>2. CASE i # n + 1
    BY <1>1, <1>2, <1>3, <1>4, <1>5, <2>2
  <2> QED BY <2>1, <2>2
<1>6. b = [i \in 1..(n + 1) |-> b[i]]
  BY <1>4, SeqDef
<1>7. c = b
  BY <1>3, <1>5, <1>6
<1> QED BY <1>7 DEF a, b, c, d, m

(* A sequence that goes on where the numbers up to n end.                   *)
LEMMA Continued ==
    ASSUME NEW n \in Nat, NEW s \in Seq(Nat), s = [i \in 1..n |-> i],
           NEW t \in Seq(Nat), \A i \in DOMAIN t : t[i] = n + i
    PROVE  s \o t = [i \in 1..(n + Len(t)) |-> i] /\ s \o t \in Seq(Nat)
<1> DEFINE m == Len(t)
           c == s \o t
<1>1. Len(s) = n /\ m \in Nat /\ DOMAIN t = 1..m
  BY LenProperties
<1>2. /\ c \in Seq(Nat) /\ DOMAIN c = 1..(n + m)
      /\ \A i \in 1..(n + m) : c[i] = IF i <= n THEN s[i] ELSE t[i - n]
  BY <1>1, ConcatProperties, LenProperties
<1> HIDE DEF m, c
<1>3. ASSUME NEW i \in 1..(n + m) PROVE c[i] = i
  <2>1. CASE i <= n
    BY <1>2, <1>3, <2>1
  <2>2. CASE ~(i <= n)
    <3>1. i - n \in 1..m /\ i \in Nat
      BY <1>1, <1>3, <2>2
    <3>2. t[i - n] = n + (i - n)
      BY <1>1, <3>1
    <3> QED BY <1>2, <2>2, <3>1, <3>2
  <2> QED BY <2>1, <2>2
<1>4. c = [i \in 1..(n + m) |-> c[i]]
  BY <1>2, SeqDef
<1>5. c = [i \in 1..(n + m) |-> i]
  BY <1>3, <1>4
<1> QED BY <1>2, <1>5 DEF m, c

-----------------------------------------------------------------------------
(* What the thread has examined.                                            *)

LEMMA InvariantPolled == IInv => PolledIsComplete
<1> SUFFICES ASSUME IInv, loaded, ~gap
             PROVE  /\ ~crashed
                    /\ Ids(examined) \o Ids(buffer) \o Ids(InHand) \o Ids(queue)
                           = [i \in 1..occurred |-> i]
  BY DEF PolledIsComplete
<1>1. Quiet /\ Whole
  BY DEF IInv, Complete
<1> DEFINE S == [id : 1..MaxEvents, path : Seq(Part), hive : Seq(Part)]
           X == Len(examined)
           B == Len(buffer)
           H == Len(InHand)
           Q == Len(queue)
           x == Ids(examined)
           b == Ids(buffer)
           h == Ids(InHand)
           q == Ids(queue)
<1>2. /\ examined \in Seq(S) /\ buffer \in Seq(Event) /\ InHand \in Seq(Event)
      /\ queue \in Seq(Event)
  BY HandParts DEF IInv, TypeOK
<1>3. (\A y \in S : y.id \in Nat) /\ (\A y \in Event : y.id \in Nat)
  <2>1. \A y \in S : y.id \in 1..MaxEvents
    OBVIOUS
  <2> HIDE DEF S
  <2>2. \A y \in S : y.id \in Nat
    BY <2>1, RegistryBounds
  <2> QED BY <2>2, EventParts
<1> HIDE DEF S
<1>4. /\ X \in Nat /\ B \in Nat /\ H \in Nat /\ Q \in Nat
  BY <1>2, LenProperties
<1>5. x \in Seq(Nat) /\ Len(x) = X /\ \A i \in DOMAIN x : x[i] = 0 + i
  <2>1. \A i \in DOMAIN examined : examined[i].id = 0 + i
    BY <1>1 DEF Whole, From
  <2> QED BY <1>2, <1>3, <2>1, IdsOf
<1>6. b \in Seq(Nat) /\ Len(b) = B /\ \A i \in DOMAIN b : b[i] = X + i
  <2>1. \A i \in DOMAIN buffer : buffer[i].id = X + i
    BY <1>1 DEF Whole, From
  <2> QED BY <1>2, <1>3, <2>1, IdsOf
<1>7. h \in Seq(Nat) /\ Len(h) = H /\ \A i \in DOMAIN h : h[i] = (X + B) + i
  <2>1. \A i \in DOMAIN InHand : InHand[i].id = (X + B) + i
    BY <1>1 DEF Whole, From
  <2> QED BY <1>2, <1>3, <2>1, IdsOf
<1>8. q \in Seq(Nat) /\ Len(q) = Q /\ \A i \in DOMAIN q : q[i] = (X + B + H) + i
  <2>1. \A i \in DOMAIN queue : queue[i].id = (X + B + H) + i
    BY <1>1 DEF Whole, From
  <2> QED BY <1>2, <1>3, <2>1, IdsOf
<1>9. occurred = X + B + H + Q
  BY <1>1 DEF Whole
<1> HIDE DEF X, B, H, Q, x, b, h, q
<1>10. x = [i \in 1..X |-> i]
  <2>1. DOMAIN x = 1..X /\ x = [i \in DOMAIN x |-> x[i]]
    BY <1>5, LenProperties, SeqDef
  <2>2. \A i \in 1..X : x[i] = i
    BY <1>4, <1>5, <2>1
  <2> QED BY <2>1, <2>2
<1> DEFINE xb == x \o b
<1>11. xb = [i \in 1..(X + B) |-> i] /\ xb \in Seq(Nat)
  <2>1. X \in Nat
    BY <1>4
  <2>2. x \o b = [i \in 1..(X + Len(b)) |-> i] /\ x \o b \in Seq(Nat)
    BY <1>5, <1>6, <1>10, <2>1, Continued
  <2> QED BY <1>6, <2>2
<1> HIDE DEF xb
<1> DEFINE xbh == xb \o h
<1>12. xbh = [i \in 1..(X + B + H) |-> i] /\ xbh \in Seq(Nat)
  <2>1. X + B \in Nat
    BY <1>4
  <2> QED BY <1>7, <1>11, <2>1, Continued
<1> HIDE DEF xbh
<1>13. xbh \o q = [i \in 1..(X + B + H + Q) |-> i]
  <2> DEFINE n == X + B + H
  <2>1. n \in Nat /\ xbh = [i \in 1..n |-> i] /\ \A i \in DOMAIN q : q[i] = n + i
    BY <1>4, <1>8, <1>12
  <2>2. xbh \in Seq(Nat) /\ q \in Seq(Nat) /\ Len(q) = Q
    BY <1>8, <1>12
  <2> HIDE DEF n
  <2>3. xbh \o q = [i \in 1..(n + Len(q)) |-> i]
    BY <2>1, <2>2, Continued
  <2> QED BY <2>2, <2>3 DEF n
<1> QED BY <1>1, <1>9, <1>13 DEF Quiet, xbh, xb, x, b, h, q

LEMMA InvariantHives == IInv => HiveIsSpecific
<1> SUFFICES ASSUME IInv, NEW i \in DOMAIN examined
             PROVE  LET path == examined[i].path IN
                    \A j \in Matches(path) :
                        \E k \in Matches(path) :
                            /\ Len(ObjectNameMap[k][1]) >= Len(ObjectNameMap[j][1])
                            /\ examined[i].hive = Under(path, k)
  BY DEF HiveIsSpecific
<1> DEFINE S == [id : 1..MaxEvents, path : Seq(Part), hive : Seq(Part)]
<1>1. examined \in Seq(S)
  BY DEF IInv, TypeOK
<1>2. examined[i] \in S
  <2> HIDE DEF S
  <2> QED BY <1>1, ElementOfSeq, LenProperties
<1>3. examined[i].path \in Seq(Part)
  BY <1>2
<1>4. examined[i].hive = convertRegistryObjectNameToHiveName(examined[i].path)
  BY DEF IInv, Hives
<1> QED BY <1>3, <1>4, HiveOf

(* While RegistryMonitor's requests keep within Timeout, no event is lost   *)
(* between the driver's callback and the thread, no routine follows a null  *)
(* pointer, and each path is shown under its most specific hive.            *)
THEOREM ExaminedRight == Spec => []ExaminedIsRight
<1>1. IInv => ExaminedIsRight
  BY InvariantPolled, InvariantHives DEF ExaminedIsRight
<1> QED BY <1>1, Invariance, PTL

-----------------------------------------------------------------------------
(* The stream of events.                                                    *)

LEMMA StreamInit == Init => Stream!Init
<1>1. Ids(<<>>) = <<>>
  <2>1. DOMAIN <<>> = {} /\ <<>> = [i \in {} |-> <<>>[i].id]
    OBVIOUS
  <2> QED BY <2>1 DEF Ids
<1> QED BY <1>1 DEF Init, Stream!Init

(* The event at the head of the buffer is later than all examined ones.     *)
LEMMA ExamineDelivers ==
    ASSUME IInv, Examine
    PROVE  Stream!Deliver
<1> DEFINE S == [id : 1..MaxEvents, path : Seq(Part), hive : Seq(Part)]
           e == Head(buffer)
           x == [id |-> e.id, path |-> e.path,
                 hive |-> convertRegistryObjectNameToHiveName(e.path)]
           n == Len(examined)
           d == Ids(examined)
<1>1. buffer # <<>> /\ buffer \in Seq(Event) /\ e \in Event
  BY Taken DEF Examine, IInv, Local, TypeOK
<1>2. x \in S /\ x.id = e.id
  BY <1>1, EventParts, HiveOf
<1>3. examined \in Seq(S) /\ \A y \in S : y.id \in Nat
  <2>1. examined \in Seq(S)
    BY DEF IInv, TypeOK
  <2>2. \A y \in S : y.id \in 1..MaxEvents
    OBVIOUS
  <2> HIDE DEF S
  <2> QED BY <2>1, <2>2, RegistryBounds
<1>4. examined' = Append(examined, x) /\ occurred' = occurred
  BY DEF Examine
<1>5. e.id \in Nat /\ occurred \in Nat
  BY <1>1, EventParts, RegistryBounds DEF IInv, TypeOK
<1> HIDE DEF S, e, x
<1>6. Ids(examined)' = Append(d, e.id)
  BY <1>2, <1>3, <1>4, IdsAppend
<1>7. e.id <= occurred /\ \A i \in DOMAIN examined : examined[i].id < e.id
  <2>1. 1 \in DOMAIN buffer /\ buffer[1] = e
    <3>1. Len(buffer) \in Nat /\ Len(buffer) > 0 /\ DOMAIN buffer = 1..Len(buffer)
      BY <1>1, Taken, LenProperties
    <3>2. buffer[1] = e
      BY <1>1, Taken DEF e
    <3> QED BY <3>1, <3>2
  <2> QED BY <2>1 DEF IInv, Order, Before, UpTo
<1>8. /\ d \in Seq(Nat) /\ Len(d) = n /\ DOMAIN d = DOMAIN examined
      /\ \A i \in DOMAIN examined : d[i] = examined[i].id
  BY <1>3, IdsOf
<1>9. n \in Nat /\ DOMAIN examined = 1..n
  BY <1>3, LenProperties
<1> DEFINE l == IF d = <<>> THEN 0 ELSE d[Len(d)]
<1>10. l \in Nat /\ l < e.id
  <2>1. CASE d = <<>>
    BY <1>1, <1>5, <2>1, EventParts DEF e
  <2>2. CASE d # <<>>
    <3> HIDE DEF d, n
    <3>1. n \in DOMAIN examined
      BY <1>8, <1>9, <2>2, EmptySeq
    <3>2. l = d[n] /\ d[n] = examined[n].id
      BY <1>8, <2>2, <3>1
    <3>3. d[n] \in Nat
      BY <1>8, <1>9, <3>1, ElementOfSeq
    <3> QED BY <1>7, <3>1, <3>2, <3>3
  <2> QED BY <2>1, <2>2
<1>11. l = Stream!Latest
  BY DEF Stream!Latest
<1> HIDE DEF d, l
<1>12. e.id \in (l + 1)..occurred
  BY <1>5, <1>7, <1>10
<1> QED BY <1>4, <1>6, <1>11, <1>12 DEF Stream!Deliver, d

LEMMA StreamStep == IInv /\ [Next]_vars => [Stream!Next]_<<occurred, Ids(examined)>>
<1> SUFFICES ASSUME IInv, [Next]_vars
             PROVE  [Stream!Next]_<<occurred, Ids(examined)>>
  OBVIOUS
<1>1. CASE Examine
  BY <1>1, ExamineDelivers DEF Stream!Next
<1>2. ASSUME NEW r \in Request[occurred + 1], RegistryCallback(r)
      PROVE  Stream!Occur
  <2>1. occurred' = occurred + 1 /\ examined' = examined
    BY <1>2 DEF RegistryCallback
  <2> QED BY <2>1 DEF Stream!Occur, Ids
<1>3. CASE ~Examine /\ ~\E r \in Request[occurred + 1] : RegistryCallback(r)
  <2>1. occurred' = occurred /\ examined' = examined
    BY <1>3
       DEF Next, Checker, Thread, Request_, Stop, DriverEntry, Tick, UnloadDriver,
           ConnectionChecker, CheckerTest, CheckerRemove, Start, Run, RequestTest,
           RequestRemove, RequestCopy, StopBegin, StopSignal, StopJoin, ClientDies,
           vars, historyVars
  <2>2. UNCHANGED <<occurred, Ids(examined)>>
    BY <2>1
  <2> QED BY <2>2
<1> QED BY <1>1, <1>2, <1>3 DEF Stream!Next

LEMMA StaleStep ==
    ASSUME IInv, [Next]_vars
    PROVE  [examined' # examined /\ Head(buffer).session < session
                => pause <= 2 * Period]_vars
<1>1. CASE examined' # examined /\ Head(buffer).session < session
  <2>1. Examine
    BY <1>1
       DEF Next, Checker, Thread, Request_, Stop, DriverEntry, Tick, UnloadDriver,
           ConnectionChecker, CheckerTest, CheckerRemove, RegistryCallback, Start,
           Run, RequestTest, RequestRemove, RequestCopy, StopBegin, StopSignal,
           StopJoin, ClientDies, vars, historyVars
  <2>2. buffer # <<>> /\ buffer \in Seq(Event)
    BY <2>1 DEF Examine, IInv, Local, TypeOK
  <2>3. Head(buffer) \in Range(buffer)
    <3>1. Head(buffer) \in Event
      BY <2>2, Taken
    <3> QED BY <2>2, <3>1, Ranges
  <2>4. Head(buffer) \in Kept
    BY <2>3 DEF Kept
  <2>5. pause <= 2 * Period
    BY <1>1, <2>4 DEF IInv, Fresh
  <2> QED BY <2>5
<1> QED BY <1>1

(* RegistryMonitor examines the driver's stream: each event at most once    *)
(* and in the order of RegistryCallback; and an event of an earlier client  *)
(* only within two periods of ConnectionChecker's timer.                    *)
THEOREM StreamRecent == Spec => StreamIsRecent
<1>1. IInv /\ [Next]_vars => [Stream!Next]_(Stream!streamVars)
  BY StreamStep DEF Stream!streamVars
<1>2. Spec => Stream!Spec
  BY <1>1, StreamInit, Invariance, PTL DEF Spec, Stream!Spec
<1>3. Spec => StaleIsRecent
  <2>1. IInv /\ [Next]_vars
           => [examined' # examined /\ Head(buffer).session < session
                   => pause <= 2 * Period]_vars
    BY StaleStep
  <2> QED BY <2>1, Invariance, PTL DEF Spec, StaleIsRecent
<1> QED BY <1>2, <1>3 DEF StreamIsRecent, ImplementsStream
=============================================================================
