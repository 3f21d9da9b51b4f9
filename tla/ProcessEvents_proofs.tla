------------------------ MODULE ProcessEvents_proofs ------------------------
(***************************************************************************)
(* Proofs about ProcessEvents, for any processes, ids, devices and threads *)
(* of other monitors: no event is lost or examined twice, a path belongs   *)
(* to a process that had the id, and the calls that nest are of different  *)
(* ids.                                                                    *)
(*                                                                         *)
(* GoodStack is about the frames of one thread, given the processes there  *)
(* have been and the ids in the map; both only grow, so a stack stays good *)
(* when another thread takes a step.  InOrder numbers the events that were *)
(* examined, the one in hand and those queued.  Apart says that no two of  *)
(* them in a row are equal, because the creations and terminations of an   *)
(* id take turns, which Settled keeps true of the next one.                *)
(***************************************************************************)
EXTENDS ProcessEvents, SequenceTheorems, TLAPS

Born == {p \in Process : life[p] # "unborn"}
Alive == {p \in Process : life[p] = "alive"}
Entered == DOMAIN processMap

Ids == Pid \cup {ParentOf[p] : p \in Process} \cup {NoParent}
Path == {UNKNOWN, System} \cup {DosPath(p) : p \in Process}
Image == {UNKNOWN} \cup {GetProcessImageFileName(p) : p \in Process}
Name == {"", "UNKNOWN"} \cup Process
Special == {"ask", "again", "againParent"}
Step == Lookups \cup {"insert", "signal"}
FrameRecord ==
    [step : Step \cup {"done"}, n : Nat, create : BOOLEAN, pid : Pid, parent : Ids,
     path : Path, module : Name, parentModule : Name, found : Image]
Event == [n : Nat, create : BOOLEAN, parent : Ids, pid : Pid]

(* The path is that of a process in `born` that has had the id.             *)
Named(path, pid, born) ==
    path = UNKNOWN \/ \E p \in born : PidOf[p] = pid /\ path = DosPath(p)
Found(f, born) ==
    f.found # UNKNOWN =>
        /\ f.step \in Lookups
        /\ \E p \in born : PidOf[p] = Sought(f) /\ f.found = GetProcessImageFileName(p)
GoodFrame(f, born) ==
    f \in FrameRecord /\ f.step # "done" /\ Named(f.path, f.pid, born) /\ Found(f, born)

(* The stack s of a thread t: the outermost call of the process monitor's   *)
(* examines an event of the driver.                                         *)
GoodStack(s, t, born, entered) ==
    /\ s \in Seq(FrameRecord)
    /\ \A i \in 1..Len(s) : GoodFrame(s[i], born)
    /\ \A i \in 1..Len(s) : i > 1 => s[i].found = UNKNOWN
    /\ \A i \in 1..(Len(s) - 1) :
          s[i].n = 0 /\ s[i].step \notin Special /\ s[i].pid \in entered
    /\ \A i, j \in 1..(Len(s) - 1) : s[i].pid = s[j].pid => i = j
    /\ s # <<>> /\ s[1].found # UNKNOWN =>
          \A i \in 1..(Len(s) - 1) : s[i].pid # Sought(s[1])
    /\ s # <<>> /\ t = "process" => s[Len(s)].n > 0 /\ s[Len(s)].step \notin Special
    /\ s # <<>> /\ t # "process" => s[Len(s)].n = 0

Shape ==
    /\ stack \in [Thread -> Seq(FrameRecord)] /\ queue \in Seq(Event)
    /\ examined \in Seq(Nat) /\ occurred \in Nat
    /\ \A i \in DOMAIN holder : holder[i] \in Process
    /\ \A t \in Thread : GoodStack(stack[t], t, Born, Entered)

Paths ==
    /\ \A i \in DOMAIN processMap : Named(processMap[i], i, Born)
    /\ \A r \in reported : Named(r.path, r.pid, Born)

(* Two processes that run have different ids.                               *)
Unique == \A p, q \in Alive : PidOf[p] = PidOf[q] => p = q

(* The numbers of the events, s being the stack of the thread.              *)
Hand(s) == IF s = <<>> THEN 0 ELSE 1
InOrder(done, s, waiting, count) ==
    /\ \A i \in 1..Len(done) : done[i] = i
    /\ s # <<>> => s[Len(s)].n = Len(done) + 1
    /\ \A i \in 1..Len(waiting) : waiting[i].n = Len(done) + Hand(s) + i
    /\ count = Len(done) + Hand(s) + Len(waiting)

Key(e) == <<e.create, e.parent, e.pid>>
Latest(last, s) == IF s = <<>> THEN last ELSE Key(s[Len(s)])
Apart(last, s, waiting) ==
    /\ s # <<>> => Key(s[Len(s)]) # last
    /\ waiting # <<>> => Key(waiting[1]) # Latest(last, s)
    /\ \A i \in 1..(Len(waiting) - 1) : Key(waiting[i]) # Key(waiting[i + 1])

(* The last event of all tells whether its id is in use.                    *)
Newest(last, s, waiting) ==
    IF waiting = <<>> THEN Latest(last, s) ELSE Key(waiting[Len(waiting)])
Settled(key, alive) ==
    IF key[1] THEN \E p \in alive : PidOf[p] = key[3] ELSE \A p \in alive : PidOf[p] # key[3]

Events ==
    /\ InOrder(examined, stack["process"], queue, occurred)
    /\ Apart(tempP, stack["process"], queue)
    /\ Settled(Newest(tempP, stack["process"], queue), Alive)

Freed == known = "freed" => stack["process"] = <<>> /\ (crashed \/ loop \in {"begin", "ended"})

IInv ==
    /\ TypeOK /\ Shape /\ Paths /\ Unique /\ Freed
    /\ known # "freed" => Events
-----------------------------------------------------------------------------
(* Sequences and maps.                                                      *)
LEMMA Appended ==
    ASSUME NEW S, NEW s \in Seq(S), NEW e \in S
    PROVE  /\ Append(s, e) \in Seq(S) /\ Append(s, e) # <<>>
           /\ Len(Append(s, e)) = Len(s) + 1
           /\ \A i \in 1..Len(s) : Append(s, e)[i] = s[i]
           /\ Append(s, e)[Len(s) + 1] = e
BY LenProperties, AppendProperties

LEMMA NonEmpty ==
    ASSUME NEW S, NEW s \in Seq(S)
    PROVE  /\ Len(s) \in Nat /\ DOMAIN s = 1..Len(s)
           /\ s # <<>> <=> Len(s) > 0
           /\ \A i \in 1..Len(s) : s[i] \in S
BY LenProperties, EmptySeq, ElementOfSeq

LEMMA Rest ==
    ASSUME NEW S, NEW s \in Seq(S), s # <<>>
    PROVE  /\ Len(s) \in Nat /\ Len(s) > 0 /\ Head(s) \in S /\ Head(s) = s[1]
           /\ Tail(s) \in Seq(S) /\ Len(Tail(s)) = Len(s) - 1
           /\ Tail(s) = <<>> <=> Len(s) = 1
           /\ \A i \in 1..(Len(s) - 1) : Tail(s)[i] = s[i + 1]
<1>1. /\ Len(s) \in Nat /\ Len(s) > 0 /\ Head(s) \in S /\ Head(s) = s[1]
      /\ Tail(s) \in Seq(S) /\ Len(Tail(s)) = Len(s) - 1
      /\ \A i \in 1..(Len(s) - 1) : Tail(s)[i] = s[i + 1]
  BY LenProperties, HeadTailProperties, EmptySeq
<1>2. Tail(s) # <<>> <=> Len(Tail(s)) > 0
  BY <1>1, NonEmpty
<1> QED BY <1>1, <1>2

LEMMA Nothing ==
    /\ DOMAIN <<>> = {} /\ Len(<<>>) = 0
    /\ \A S : <<>> \in Seq(S)
<1>1. <<>> \in Seq(Nat) /\ Len(<<>>) = 0 /\ \A S : <<>> \in Seq(S)
  OBVIOUS
<1> QED BY <1>1, LenProperties

LEMMA One ==
    ASSUME NEW S, NEW e \in S
    PROVE  <<e>> \in Seq(S) /\ <<e>> # <<>> /\ Len(<<e>>) = 1 /\ <<e>>[1] = e
OBVIOUS

LEMMA Pushed ==
    ASSUME NEW S, NEW s \in Seq(S), NEW e \in S
    PROVE  /\ <<e>> \o s \in Seq(S) /\ <<e>> \o s # <<>>
           /\ Len(<<e>> \o s) = Len(s) + 1
           /\ (<<e>> \o s)[1] = e
           /\ \A i \in 2..(Len(s) + 1) : (<<e>> \o s)[i] = s[i - 1]
<1> DEFINE o == <<e>>
           r == o \o s
<1>1. o \in Seq(S) /\ Len(o) = 1 /\ o[1] = e
  OBVIOUS
<1>2. Len(s) \in Nat
  BY NonEmpty
<1> HIDE DEF o
<1>3. /\ r \in Seq(S) /\ Len(r) = 1 + Len(s)
      /\ \A i \in 1..(1 + Len(s)) : r[i] = IF i <= 1 THEN o[i] ELSE s[i - 1]
  <2>1. /\ r \in Seq(S) /\ Len(r) = Len(o) + Len(s)
        /\ \A i \in 1..(Len(o) + Len(s)) :
              r[i] = IF i <= Len(o) THEN o[i] ELSE s[i - Len(o)]
    BY <1>1, ConcatProperties
  <2> QED BY <1>1, <2>1
<1> HIDE DEF r
<1>4. r # <<>>
  BY <1>2, <1>3, NonEmpty
<1>5. Len(r) = Len(s) + 1 /\ r[1] = e /\ \A i \in 2..(Len(s) + 1) : r[i] = s[i - 1]
  BY <1>1, <1>2, <1>3
<1> QED BY <1>3, <1>4, <1>5 DEF r, o

LEMMA Replaced ==
    ASSUME NEW S, NEW s \in Seq(S), s # <<>>, NEW e \in S
    PROVE  /\ <<e>> \o Tail(s) \in Seq(S) /\ <<e>> \o Tail(s) # <<>>
           /\ Len(<<e>> \o Tail(s)) = Len(s)
           /\ (<<e>> \o Tail(s))[1] = e
           /\ \A i \in 2..Len(s) : (<<e>> \o Tail(s))[i] = s[i]
<1> DEFINE r == Tail(s)
<1>1. /\ Len(s) \in Nat /\ Len(s) > 0 /\ r \in Seq(S) /\ Len(r) = Len(s) - 1
      /\ \A i \in 1..(Len(s) - 1) : r[i] = s[i + 1]
  BY Rest
<1> HIDE DEF r
<1>2. /\ <<e>> \o r \in Seq(S) /\ <<e>> \o r # <<>> /\ Len(<<e>> \o r) = Len(r) + 1
      /\ (<<e>> \o r)[1] = e
      /\ \A i \in 2..(Len(r) + 1) : (<<e>> \o r)[i] = r[i - 1]
  BY <1>1, Pushed
<1>3. \A i \in 2..Len(s) : r[i - 1] = s[i]
  <2> TAKE i \in 2..Len(s)
  <2>1. i - 1 \in 1..(Len(s) - 1) /\ (i - 1) + 1 = i
    BY <1>1
  <2> QED BY <1>1, <2>1
<1>4. Len(r) + 1 = Len(s)
  BY <1>1
<1> QED BY <1>2, <1>3, <1>4 DEF r

LEMMA PutIn ==
    ASSUME NEW f, NEW x, NEW y
    PROVE  /\ DOMAIN Put(f, x, y) = DOMAIN f \cup {x}
           /\ Put(f, x, y)[x] = y
           /\ \A z \in DOMAIN f : z # x => Put(f, x, y)[z] = f[z]
BY DEF Put

-----------------------------------------------------------------------------
(* Paths.                                                                   *)
LEMMA Pair ==
    ASSUME NEW a, NEW b
    PROVE  <<a, b>>[1] = a /\ <<a, b>>[2] = b
OBVIOUS

LEMMA Converted ==
    /\ \A p \in Process :
          /\ convertFileObjectPathToDOSPath(GetProcessImageFileName(p)) = DosPath(p)
          /\ convertFileObjectPathToDOSPath(DosPath(p)) = DosPath(p)
          /\ DosPath(p) \notin {UNKNOWN, System} /\ GetProcessImageFileName(p) # UNKNOWN
          /\ DosPath(p)[2] = p
    /\ convertFileObjectPathToDOSPath(UNKNOWN) = UNKNOWN
    /\ UNKNOWN # System
<1>1. ASSUME NEW p \in Process
      PROVE  /\ convertFileObjectPathToDOSPath(DosPath(p)) = DosPath(p)
             /\ DosPath(p)[1] # "" /\ DosPath(p)[2] = p
  <2>1. /\ DeviceOf[p] # "" /\ DeviceOf[p] # "?:"
        /\ \A d \in DOMAIN DosDevice : DeviceOf[p] # DosDevice[d]
    BY Volumes
  <2>2. CASE p \in ShortPaths
    <3>1. DosPath(p) = <<DeviceOf[p], p>>
      BY <2>2 DEF DosPath, convertFileObjectPathToDOSPath, GetProcessImageFileName
    <3>2. DosPath(p)[1] = DeviceOf[p] /\ DosPath(p)[2] = p
      BY <3>1, Pair
    <3>3. convertFileObjectPathToDOSPath(DosPath(p)) = DosPath(p)
      BY <2>2, <3>2 DEF convertFileObjectPathToDOSPath
    <3> QED BY <2>1, <3>2, <3>3
  <2>3. CASE p \notin ShortPaths
    <3> DEFINE v == convertDevicePathToDOSDrive(DeviceOf[p])
    <3>1. DosPath(p) = <<v, p>>
      BY <2>3 DEF DosPath, convertFileObjectPathToDOSPath, GetProcessImageFileName
    <3>2. v = "?:" \/ \E d \in DOMAIN DosDevice : v = DosDevice[d]
      BY DEF convertDevicePathToDOSDrive
    <3>3. v # "" /\ \A q \in Process : DeviceOf[q] # v
      BY <3>2, Volumes
    <3> HIDE DEF v
    <3>4. DosPath(p)[1] = v /\ DosPath(p)[2] = p
      BY <3>1, Pair
    <3>5. convertFileObjectPathToDOSPath(DosPath(p)) = DosPath(p)
      BY <3>3, <3>4 DEF convertFileObjectPathToDOSPath
    <3> QED BY <3>3, <3>4, <3>5
  <2> QED BY <2>2, <2>3
<1>2. \A p \in Process : DeviceOf[p] # ""
  BY Volumes
<1>3. convertFileObjectPathToDOSPath(UNKNOWN) = UNKNOWN
  <2>1. UNKNOWN[1] = ""
    BY Pair DEF UNKNOWN
  <2> QED BY <1>2, <2>1 DEF convertFileObjectPathToDOSPath
<1>4. \A p \in Process : DosPath(p) \notin {UNKNOWN, System}
  <2>1. UNKNOWN[1] = "" /\ System[1] = ""
    BY Pair DEF UNKNOWN, System
  <2> QED BY <1>1, <2>1
<1>5. \A p \in Process : GetProcessImageFileName(p) # UNKNOWN
  BY <1>2 DEF GetProcessImageFileName, UNKNOWN
<1>6. UNKNOWN # System
  BY DEF UNKNOWN, System
<1> QED BY <1>1, <1>3, <1>4, <1>5, <1>6 DEF DosPath

LEMMA ModuleNames == \A path \in Path : ModuleName(path) \in Name
BY Converted DEF Path, ModuleName, Name

LEMMA PidsAre ==
    /\ SystemPid \notin Pid /\ 0 \notin Pid /\ Pid \subseteq Ids
    /\ \A p \in Process : PidOf[p] \in Pid /\ ParentOf[p] \in Ids
    /\ NoParent \in Ids
BY PidsInUse DEF Pid, Ids, SystemPid

-----------------------------------------------------------------------------
(* Frames.                                                                  *)
LEMMA NamedIs ==
    ASSUME NEW path, NEW pid, NEW born \in SUBSET Process, Named(path, pid, born)
    PROVE  /\ path \in Path /\ path # System
           /\ convertFileObjectPathToDOSPath(path) = path
<1>1. CASE path = UNKNOWN
  BY <1>1, Converted DEF Path
<1>2. CASE \E p \in born : PidOf[p] = pid /\ path = DosPath(p)
  BY <1>2, Converted DEF Path
<1> QED BY <1>1, <1>2 DEF Named

LEMMA WithIs ==
    ASSUME NEW f \in FrameRecord, f.step \in Lookups, NEW path \in Path
    PROVE  /\ With(f, path) \in FrameRecord
           /\ With(f, path).n = f.n /\ With(f, path).create = f.create
           /\ With(f, path).pid = f.pid /\ With(f, path).parent = f.parent
           /\ With(f, path).path = IF f.step = "path" THEN path ELSE f.path
           /\ With(f, path).step = "done" <=> f.step \in {"ask", "againParent"}
           /\ With(f, path).step \in Special => f.step \in Special
<1>1. ModuleName(path) \in Name
  BY ModuleNames
<1>2. CASE f.step = "path"
  BY <1>2 DEF With, FrameRecord, Step, Special, Lookups
<1>3. CASE f.step = "module"
  BY <1>1, <1>3 DEF With, FrameRecord, Step, Special, Lookups
<1>4. CASE f.step = "parentModule"
  BY <1>1, <1>4 DEF With, FrameRecord, Step, Special, Lookups
<1>5. CASE f.step = "parentPath"
  BY <1>5 DEF With, FrameRecord, Step, Special, Lookups
<1>6. CASE f.step = "again"
  BY <1>6 DEF With, FrameRecord, Step, Special, Lookups
<1>7. CASE f.step \in {"ask", "againParent"}
  BY <1>7 DEF With, FrameRecord, Step, Special, Lookups
<1> QED BY <1>2, <1>3, <1>4, <1>5, <1>6, <1>7 DEF Lookups

-----------------------------------------------------------------------------
(* Stacks.                                                                  *)
LEMMA NamedGrows ==
    ASSUME NEW born, NEW more, born \subseteq more
    PROVE  /\ \A path, pid : Named(path, pid, born) => Named(path, pid, more)
           /\ \A f : GoodFrame(f, born) => GoodFrame(f, more)
<1>1. ASSUME NEW path, NEW pid, Named(path, pid, born) PROVE Named(path, pid, more)
  BY <1>1 DEF Named
<1>2. ASSUME NEW f, Found(f, born) PROVE Found(f, more)
  BY <1>2 DEF Found
<1> QED BY <1>1, <1>2 DEF GoodFrame

LEMMA GoodGrows ==
    ASSUME NEW born, NEW more, born \subseteq more,
           NEW entered, NEW wider, entered \subseteq wider,
           NEW s, NEW t, GoodStack(s, t, born, entered)
    PROVE  GoodStack(s, t, more, wider)
<1>1. \A f : GoodFrame(f, born) => GoodFrame(f, more)
  BY NamedGrows
<1> QED BY <1>1 DEF GoodStack

LEMMA TailGood ==
    ASSUME NEW born, NEW entered, NEW s, NEW t, GoodStack(s, t, born, entered), s # <<>>
    PROVE  /\ GoodStack(Tail(s), t, born, entered)
           /\ Tail(s) # <<>> => Tail(s)[Len(Tail(s))] = s[Len(s)]
           /\ Tail(s) = <<>> <=> Len(s) = 1
<1> DEFINE r == Tail(s)
<1>1. s \in Seq(FrameRecord)
  BY DEF GoodStack
<1>2. /\ Len(s) \in Nat /\ Len(s) > 0 /\ r \in Seq(FrameRecord) /\ Len(r) = Len(s) - 1
      /\ \A i \in 1..Len(r) : r[i] = s[i + 1] /\ i + 1 \in 1..Len(s)
      /\ (r = <<>> <=> Len(s) = 1)
  BY <1>1, Rest
<1> HIDE DEF r
<1>3. r # <<>> => r[Len(r)] = s[Len(s)]
  BY <1>2
<1>4. \A i \in 1..Len(r) : GoodFrame(r[i], born) /\ r[i].found = UNKNOWN
  <2> TAKE i \in 1..Len(r)
  <2>1. PICK j \in 1..Len(s) : j = i + 1
    BY <1>2
  <2>2. j > 1 /\ r[i] = s[j]
    BY <1>2, <2>1
  <2> QED BY <2>2 DEF GoodStack
<1>5. \A i \in 1..(Len(r) - 1) :
         /\ i + 1 \in 1..(Len(s) - 1) /\ r[i] = s[i + 1]
         /\ r[i].n = 0 /\ r[i].step \notin Special /\ r[i].pid \in entered
  BY <1>2 DEF GoodStack
<1>6. \A i, j \in 1..(Len(r) - 1) : r[i].pid = r[j].pid => i = j
  <2> SUFFICES ASSUME NEW i \in 1..(Len(r) - 1), NEW j \in 1..(Len(r) - 1),
                      r[i].pid = r[j].pid
               PROVE  i = j
    OBVIOUS
  <2>1. i + 1 = j + 1
    BY <1>5 DEF GoodStack
  <2> QED BY <1>2, <2>1
<1>7. r # <<>> => r[1].found = UNKNOWN
  BY <1>2, <1>4
<1>8. GoodStack(r, t, born, entered)
  BY <1>2, <1>3, <1>4, <1>5, <1>6, <1>7 DEF GoodStack
<1> QED BY <1>2, <1>3, <1>8 DEF r

(* The innermost call gets on: its frame is replaced.                       *)
LEMMA HeadGood ==
    ASSUME NEW born, NEW entered, NEW s, NEW t, GoodStack(s, t, born, entered), s # <<>>,
           NEW g, GoodFrame(g, born), g.n = s[1].n, g.pid = s[1].pid,
           g.create = s[1].create, g.parent = s[1].parent,
           g.step \in Special => s[1].step \in Special,
           g.found # UNKNOWN => \A i \in 1..(Len(s) - 1) : s[i].pid # Sought(g)
    PROVE  LET r == <<g>> \o Tail(s) IN
           /\ GoodStack(r, t, born, entered)
           /\ r # <<>> /\ r[1] = g /\ Len(r) = Len(s) /\ Len(s) \in Nat /\ Len(s) > 0
           /\ \A i \in 1..Len(s) : r[i].pid = s[i].pid
           /\ r[Len(r)].n = s[Len(s)].n /\ Key(r[Len(r)]) = Key(s[Len(s)])
<1> DEFINE r == <<g>> \o Tail(s)
<1>1. s \in Seq(FrameRecord) /\ g \in FrameRecord
  BY DEF GoodStack, GoodFrame
<1>2. /\ Len(s) \in Nat /\ Len(s) > 0
  BY <1>1, NonEmpty
<1>3. /\ r \in Seq(FrameRecord) /\ r # <<>> /\ Len(r) = Len(s) /\ r[1] = g
      /\ \A i \in 2..Len(s) : r[i] = s[i]
  BY <1>1, Replaced
<1> HIDE DEF r
<1>4. \A i \in 1..Len(s) : i = 1 \/ (i \in 2..Len(s) /\ r[i] = s[i])
  BY <1>2, <1>3
<1>5. \A i \in 1..Len(s) : r[i].n = s[i].n /\ r[i].pid = s[i].pid /\ Key(r[i]) = Key(s[i])
                           /\ (r[i].step \in Special => s[i].step \in Special)
  BY <1>3, <1>4 DEF Key
<1>6. Len(s) \in 1..Len(s) /\ \A i \in 1..(Len(s) - 1) : i \in 1..Len(s)
  BY <1>2
<1>7. \A i \in 1..Len(s) : GoodFrame(r[i], born) /\ (i > 1 => r[i].found = UNKNOWN)
  BY <1>3, <1>4 DEF GoodStack
<1>8. \A i \in 1..(Len(s) - 1) :
         r[i].n = 0 /\ r[i].step \notin Special /\ r[i].pid \in entered
  BY <1>5, <1>6 DEF GoodStack
<1>9. \A i, j \in 1..(Len(s) - 1) : r[i].pid = r[j].pid => i = j
  BY <1>5, <1>6 DEF GoodStack
<1>10. r[1].found # UNKNOWN => \A i \in 1..(Len(s) - 1) : r[i].pid # Sought(r[1])
  BY <1>3, <1>5, <1>6
<1>11. /\ t = "process" => r[Len(s)].n > 0 /\ r[Len(s)].step \notin Special
       /\ t # "process" => r[Len(s)].n = 0
  BY <1>5, <1>6 DEF GoodStack
<1>12. GoodStack(r, t, born, entered)
  BY <1>3, <1>7, <1>8, <1>9, <1>10, <1>11 DEF GoodStack
<1> QED BY <1>2, <1>3, <1>5, <1>6, <1>12 DEF r

(* A process is announced inside a call, or after the outermost one.        *)
LEMMA PushGood ==
    ASSUME NEW born, NEW entered, NEW wider, entered \subseteq wider,
           NEW s, NEW t, GoodStack(s, t, born, entered), s # <<>> \/ t # "process",
           s # <<>> => s[1].found = UNKNOWN,
           NEW g, GoodFrame(g, born), g.n = 0, g.step = "path", g.found = UNKNOWN,
           g.pid \in wider, \A i \in 1..(Len(s) - 1) : s[i].pid # g.pid
    PROVE  LET r == <<g>> \o s IN
           /\ GoodStack(r, t, born, wider) /\ r # <<>>
           /\ s # <<>> => r[Len(r)] = s[Len(s)]
<1> DEFINE r == <<g>> \o s
<1>1. s \in Seq(FrameRecord) /\ g \in FrameRecord
  BY DEF GoodStack, GoodFrame
<1>2. Len(s) \in Nat /\ (s # <<>> <=> Len(s) > 0)
  BY <1>1, NonEmpty
<1>3. /\ r \in Seq(FrameRecord) /\ r # <<>> /\ Len(r) = Len(s) + 1 /\ r[1] = g
      /\ \A i \in 2..(Len(s) + 1) : r[i] = s[i - 1]
  BY <1>1, Pushed
<1> HIDE DEF r
<1>4. \A i \in 1..Len(r) : i = 1 \/ (i - 1 \in 1..Len(s) /\ r[i] = s[i - 1] /\ i > 1)
  BY <1>2, <1>3
<1>5. g.step \notin Special
  BY DEF Special
<1>6. \A i \in 1..Len(s) : GoodFrame(s[i], born) /\ s[i].found = UNKNOWN
  BY <1>2 DEF GoodStack
<1>7. \A i \in 1..Len(r) : GoodFrame(r[i], born) /\ (i > 1 => r[i].found = UNKNOWN)
  BY <1>3, <1>4, <1>6
<1>8. \A i \in 1..(Len(r) - 1) :
         i = 1 \/ (i - 1 \in 1..(Len(s) - 1) /\ r[i] = s[i - 1] /\ i > 1)
  BY <1>2, <1>3
<1>9. \A i \in 1..(Len(r) - 1) :
         r[i].n = 0 /\ r[i].step \notin Special /\ r[i].pid \in wider
  <2> TAKE i \in 1..(Len(r) - 1)
  <2>1. CASE i = 1
    BY <1>3, <1>5, <2>1
  <2>2. CASE i # 1
    <3>1. PICK j \in 1..(Len(s) - 1) : r[i] = s[j]
      BY <1>8, <2>2
    <3>2. s[j].n = 0 /\ s[j].step \notin Special /\ s[j].pid \in entered
      BY DEF GoodStack
    <3> QED BY <3>1, <3>2
  <2> QED BY <2>1, <2>2
<1>10. ASSUME NEW i \in 1..(Len(r) - 1), NEW j \in 1..(Len(r) - 1), r[i].pid = r[j].pid
       PROVE  i = j
  <2>1. CASE i = 1 /\ j = 1
    BY <2>1
  <2>2. CASE i > 1 /\ j > 1
    <3>1. i - 1 \in 1..(Len(s) - 1) /\ j - 1 \in 1..(Len(s) - 1)
          /\ r[i] = s[i - 1] /\ r[j] = s[j - 1]
      BY <1>8, <2>2
    <3>2. i - 1 = j - 1
      BY <1>10, <3>1 DEF GoodStack
    <3> QED BY <1>2, <1>3, <3>2
  <2>3. CASE (i = 1 /\ j > 1) \/ (i > 1 /\ j = 1)
    BY <1>3, <1>8, <1>10, <2>3
  <2> QED BY <1>8, <2>1, <2>2, <2>3
<1>11. r[1].found = UNKNOWN
  BY <1>3
<1>12. s # <<>> => r[Len(r)] = s[Len(s)]
  BY <1>2, <1>3
<1>13. s = <<>> => r[Len(r)] = g
  BY <1>2, <1>3
<1>14. /\ t = "process" => r[Len(r)].n > 0 /\ r[Len(r)].step \notin Special
       /\ t # "process" => r[Len(r)].n = 0
  BY <1>12, <1>13 DEF GoodStack
<1>15. GoodStack(r, t, born, wider)
  BY <1>3, <1>7, <1>9, <1>10, <1>11, <1>14 DEF GoodStack
<1> QED BY <1>3, <1>12, <1>15 DEF r

LEMMA ReturnedGood ==
    ASSUME NEW born, NEW entered, NEW s, NEW t, GoodStack(s, t, born, entered), s # <<>>,
           s[1].step \in Lookups, NEW path \in Path,
           s[1].step = "path" => Named(path, s[1].pid, born)
    PROVE  LET r == Returned(s, path) IN
           /\ GoodStack(r, t, born, entered)
           /\ r # <<>> => r[1].found = UNKNOWN
           /\ t = "process" => r # <<>>
           /\ r # <<>> => r[Len(r)].n = s[Len(s)].n /\ Key(r[Len(r)]) = Key(s[Len(s)])
           /\ \A i \in 1..(Len(r) - 1) : i \in 1..(Len(s) - 1) /\ r[i].pid = s[i].pid
<1> DEFINE f == With(s[1], path)
           g == [f EXCEPT !.found = UNKNOWN]
<1>1. s \in Seq(FrameRecord)
  BY DEF GoodStack
<1>2. /\ Len(s) \in Nat /\ Len(s) > 0 /\ Head(s) = s[1] /\ (Tail(s) = <<>> <=> Len(s) = 1)
      /\ s[1] \in FrameRecord /\ 1 \in 1..Len(s)
  BY <1>1, Rest
<1>3. GoodFrame(s[1], born)
  BY <1>2 DEF GoodStack
<1>4. /\ f \in FrameRecord /\ f.n = s[1].n /\ f.create = s[1].create
      /\ f.pid = s[1].pid /\ f.parent = s[1].parent
      /\ f.path = IF s[1].step = "path" THEN path ELSE s[1].path
      /\ f.step = "done" <=> s[1].step \in {"ask", "againParent"}
      /\ f.step \in Special => s[1].step \in Special
  BY <1>2, WithIs
<1>5. Returned(s, path) = IF f.step = "done" THEN Tail(s) ELSE <<g>> \o Tail(s)
  BY <1>2 DEF Returned
<1> HIDE DEF f
<1>6. /\ g \in FrameRecord /\ g.n = f.n /\ g.create = f.create /\ g.pid = f.pid
      /\ g.parent = f.parent /\ g.path = f.path /\ g.step = f.step /\ g.found = UNKNOWN
  BY <1>4 DEF FrameRecord, Image
<1> HIDE DEF g
<1>7. CASE f.step = "done"
  <2>1. s[1].step \in Special
    BY <1>4, <1>7 DEF Special
  <2>2. Len(s) = 1
    <3>1. 1 \in 1..(Len(s) - 1) => s[1].step \notin Special
      BY DEF GoodStack
    <3> QED BY <1>2, <2>1, <3>1
  <2>3. t # "process"
    BY <2>1, <2>2 DEF GoodStack
  <2>4. Returned(s, path) = <<>>
    BY <1>2, <1>5, <1>7, <2>2
  <2>5. Tail(s) = <<>> /\ GoodStack(Tail(s), t, born, entered)
    BY <1>2, <2>2, TailGood
  <2>6. 1..(Len(<<>>) - 1) = {}
    BY Nothing
  <2> QED BY <2>3, <2>4, <2>5, <2>6
<1>8. CASE f.step # "done"
  <2> DEFINE r == <<g>> \o Tail(s)
  <2>1. Named(g.path, g.pid, born)
    BY <1>3, <1>4, <1>6 DEF GoodFrame
  <2>2. GoodFrame(g, born)
    BY <1>6, <1>8, <2>1 DEF GoodFrame, Found
  <2>3. /\ GoodStack(r, t, born, entered)
        /\ r # <<>> /\ r[1] = g /\ Len(r) = Len(s)
        /\ \A i \in 1..Len(s) : r[i].pid = s[i].pid
        /\ r[Len(r)].n = s[Len(s)].n /\ Key(r[Len(r)]) = Key(s[Len(s)])
    BY <1>4, <1>6, <2>2, HeadGood
  <2>4. Returned(s, path) = r
    BY <1>5, <1>8
  <2> HIDE DEF r
  <2>5. \A i \in 1..(Len(r) - 1) : i \in 1..(Len(s) - 1) /\ r[i].pid = s[i].pid
    BY <1>2, <2>3
  <2> QED BY <1>6, <2>3, <2>4, <2>5
<1> QED BY <1>7, <1>8

LEMMA FrameGood ==
    ASSUME NEW n \in Nat, NEW create \in BOOLEAN, NEW pid \in Pid, NEW parent \in Ids,
           NEW born
    PROVE  LET f == Frame(n, create, pid, parent) IN
           /\ GoodFrame(f, born) /\ f.n = n /\ f.create = create /\ f.pid = pid
           /\ f.parent = parent /\ f.step = "path" /\ f.found = UNKNOWN /\ f.path = UNKNOWN
BY DEF Frame, GoodFrame, FrameRecord, Step, Lookups, Path, Name, Image, Named, Found

(* A stack of one frame.                                                    *)
LEMMA OneGood ==
    ASSUME NEW born, NEW entered, NEW t, NEW g, GoodFrame(g, born), g.found = UNKNOWN,
           t = "process" => g.n > 0 /\ g.step \notin Special, t # "process" => g.n = 0
    PROVE  GoodStack(<<g>>, t, born, entered) /\ <<g>> # <<>> /\ Len(<<g>>) = 1 /\ <<g>>[1] = g
<1> DEFINE s == <<g>>
<1>1. g \in FrameRecord
  BY DEF GoodFrame
<1>2. s \in Seq(FrameRecord) /\ s # <<>> /\ Len(s) = 1 /\ s[1] = g
  BY <1>1, One
<1> HIDE DEF s
<1>3. 1..(Len(s) - 1) = {} /\ 1..Len(s) = {1}
  BY <1>2
<1>4. GoodStack(s, t, born, entered)
  BY <1>2, <1>3 DEF GoodStack
<1> QED BY <1>2, <1>4 DEF s

-----------------------------------------------------------------------------
(* Events.                                                                  *)

(* Only the outermost call matters.                                         *)
LEMMA OuterSame ==
    ASSUME NEW s, NEW r, s # <<>>, r # <<>>, r[Len(r)].n = s[Len(s)].n,
           Key(r[Len(r)]) = Key(s[Len(s)]), NEW done, NEW last, NEW waiting, NEW count
    PROVE  /\ InOrder(done, s, waiting, count) => InOrder(done, r, waiting, count)
           /\ Apart(last, s, waiting) => Apart(last, r, waiting)
           /\ Newest(last, s, waiting) = Newest(last, r, waiting)
BY DEF InOrder, Hand, Apart, Latest, Newest

LEMMA Sums == \A a, h, n \in Nat : (a + h + n) + 1 = a + h + (n + 1)
OBVIOUS

(* One more event.                                                          *)
LEMMA EventQueued ==
    ASSUME NEW done \in Seq(Nat), NEW s, NEW waiting \in Seq(Event), NEW count \in Nat,
           NEW last, NEW e \in Event, NEW next, next = count + 1, e.n = next,
           InOrder(done, s, waiting, count), Apart(last, s, waiting),
           Key(e) # Newest(last, s, waiting), NEW w, w = Append(waiting, e)
    PROVE  InOrder(done, s, w, next) /\ Apart(last, s, w)
<1> DEFINE n == Len(waiting)
<1>1. /\ w # <<>> /\ Len(w) = n + 1 /\ w[n + 1] = e
      /\ \A i \in 1..n : w[i] = waiting[i]
  BY Appended
<1>2. n \in Nat /\ (waiting # <<>> <=> n > 0) /\ Len(done) \in Nat
  BY NonEmpty
<1> HIDE DEF n
<1>3. Hand(s) \in Nat
  BY DEF Hand
<1>4. InOrder(done, s, w, next)
  <2>0. count = Len(done) + Hand(s) + n
    BY DEF InOrder, n
  <2>3. next = Len(done) + Hand(s) + (n + 1)
    BY <1>2, <1>3, <2>0, Sums
  <2>1. \A i \in 1..Len(w) : w[i].n = Len(done) + Hand(s) + i
    <3> TAKE i \in 1..Len(w)
    <3>1. CASE i \in 1..n
      BY <1>1, <3>1 DEF InOrder, n
    <3>2. CASE i = n + 1
      <4>1. w[i].n = next /\ i = n + 1
        BY <1>1, <3>2
      <4> QED BY <2>3, <4>1
    <3> QED BY <1>1, <1>2, <3>1, <3>2
  <2>2. next = Len(done) + Hand(s) + Len(w)
    BY <1>1, <2>3
  <2> QED BY <2>1, <2>2 DEF InOrder
<1>5. Apart(last, s, w)
  <2>1. CASE n = 0
    <3>1. waiting = <<>> /\ w[1] = e /\ 1..(Len(w) - 1) = {}
      BY <1>1, <1>2, <2>1
    <3> QED BY <3>1 DEF Apart, Newest
  <2>2. CASE n > 0
    <3>1. waiting # <<>> /\ w[1] = waiting[1] /\ w[n] = waiting[n]
      BY <1>1, <1>2, <2>2
    <3>2. Key(e) # Key(waiting[n])
      BY <3>1 DEF Newest, n
    <3>3. ASSUME NEW i \in 1..(Len(w) - 1) PROVE Key(w[i]) # Key(w[i + 1])
      <4>1. CASE i = n
        BY <1>1, <3>1, <3>2, <4>1
      <4>2. CASE i \in 1..(n - 1)
        <5>1. w[i] = waiting[i] /\ w[i + 1] = waiting[i + 1]
          BY <1>1, <1>2, <4>2
        <5> QED BY <4>2, <5>1 DEF Apart, n
      <4> QED BY <1>1, <1>2, <4>1, <4>2
    <3> QED BY <3>1, <3>3 DEF Apart
  <2> QED BY <1>2, <2>1, <2>2
<1> QED BY <1>4, <1>5

(* An event is taken from the queue.                                        *)
LEMMA EventTaken ==
    ASSUME NEW done \in Seq(Nat), NEW waiting \in Seq(Event), waiting # <<>>, NEW count,
           NEW last, NEW f, f.n = waiting[1].n, Key(f) = Key(waiting[1]),
           InOrder(done, <<>>, waiting, count), Apart(last, <<>>, waiting)
    PROVE  /\ f.n = Len(done) + 1 /\ Key(f) # last
           /\ InOrder(done, <<f>>, Tail(waiting), count)
           /\ Apart(last, <<f>>, Tail(waiting))
<1> DEFINE w == Tail(waiting)
           s == <<f>>
<1>1. /\ Len(waiting) \in Nat /\ Len(waiting) > 0 /\ Len(w) = Len(waiting) - 1
      /\ (w = <<>> <=> Len(waiting) = 1)
      /\ \A i \in 1..(Len(waiting) - 1) : w[i] = waiting[i + 1]
      /\ Len(done) \in Nat
  BY Rest, NonEmpty
<1>2. s # <<>> /\ s[Len(s)] = f
  OBVIOUS
<1> HIDE DEF w, s
<1>3. Hand(s) = 1 /\ Hand(<<>>) = 0 /\ Latest(last, s) = Key(f) /\ Latest(last, <<>>) = last
  BY <1>2 DEF Hand, Latest
<1>4. f.n = Len(done) + 1
  <2>1. 1 \in 1..Len(waiting)
    BY <1>1
  <2>2. waiting[1].n = Len(done) + Hand(<<>>) + 1
    BY <2>1 DEF InOrder
  <2> QED BY <1>1, <1>3, <2>2
<1>5. Key(f) # last
  BY <1>3 DEF Apart
<1>6. InOrder(done, s, w, count)
  <2>1. \A i \in 1..Len(w) : w[i].n = Len(done) + Hand(s) + i
    <3> TAKE i \in 1..Len(w)
    <3>1. PICK j \in 1..Len(waiting) : j = i + 1 /\ w[i] = waiting[j]
      BY <1>1
    <3>2. waiting[j].n = Len(done) + Hand(<<>>) + j
      BY DEF InOrder
    <3> QED BY <1>1, <1>3, <3>1, <3>2
  <2>2. count = Len(done) + Hand(s) + Len(w)
    BY <1>1, <1>3 DEF InOrder
  <2> QED BY <1>2, <1>4, <2>1, <2>2 DEF InOrder
<1>7. Apart(last, s, w)
  <2>1. w # <<>> => Key(w[1]) # Key(f)
    <3> SUFFICES ASSUME w # <<>> PROVE Key(w[1]) # Key(f)
      OBVIOUS
    <3>1. 1 \in 1..(Len(waiting) - 1) /\ w[1] = waiting[1 + 1]
      BY <1>1
    <3> QED BY <3>1 DEF Apart
  <2>2. ASSUME NEW i \in 1..(Len(w) - 1) PROVE Key(w[i]) # Key(w[i + 1])
    <3>0. PICK j \in 1..(Len(waiting) - 1) : j = i + 1 /\ i \in 1..(Len(waiting) - 1)
      BY <1>1
    <3>1. w[i] = waiting[j] /\ w[j] = waiting[j + 1]
      BY <1>1, <3>0
    <3> QED BY <3>0, <3>1 DEF Apart
  <2> QED BY <1>2, <1>3, <1>5, <2>1, <2>2 DEF Apart
<1> QED BY <1>4, <1>5, <1>6, <1>7 DEF w, s

LEMMA NewestTaken ==
    ASSUME NEW waiting \in Seq(Event), waiting # <<>>, NEW last, NEW f,
           Key(f) = Key(waiting[1])
    PROVE  Newest(last, <<f>>, Tail(waiting)) = Newest(last, <<>>, waiting)
<1> DEFINE w == Tail(waiting)
           s == <<f>>
<1>1. /\ Len(waiting) \in Nat /\ Len(waiting) > 0 /\ Len(w) = Len(waiting) - 1
      /\ (w = <<>> <=> Len(waiting) = 1)
      /\ \A i \in 1..(Len(waiting) - 1) : w[i] = waiting[i + 1]
  BY Rest
<1>2. s # <<>> /\ s[Len(s)] = f
  OBVIOUS
<1> HIDE DEF w, s
<1>3. Latest(last, s) = Key(f)
  BY <1>2 DEF Latest
<1>4. CASE w = <<>>
  BY <1>1, <1>3, <1>4 DEF Newest, w, s
<1>5. CASE w # <<>>
  <2>1. w[Len(w)] = waiting[Len(waiting)]
    BY <1>1, <1>5
  <2> QED BY <1>5, <2>1 DEF Newest, w, s
<1> QED BY <1>4, <1>5

(* The event in hand has been examined.                                     *)
LEMMA EventDone ==
    ASSUME NEW done \in Seq(Nat), NEW s, s # <<>>, NEW waiting, NEW count, NEW last,
           NEW n \in Nat, n = s[Len(s)].n,
           InOrder(done, s, waiting, count), Apart(last, s, waiting)
    PROVE  /\ InOrder(Append(done, n), <<>>, waiting, count)
           /\ Apart(Key(s[Len(s)]), <<>>, waiting)
           /\ Newest(Key(s[Len(s)]), <<>>, waiting) = Newest(last, s, waiting)
<1> DEFINE d == Append(done, n)
<1>1. /\ Len(d) = Len(done) + 1 /\ d[Len(done) + 1] = n /\ Len(done) \in Nat
      /\ \A i \in 1..Len(done) : d[i] = done[i]
  BY Appended, NonEmpty
<1> HIDE DEF d
<1>2. Hand(s) = 1 /\ Hand(<<>>) = 0
  BY DEF Hand
<1>3. n = Len(done) + 1
  BY DEF InOrder
<1>4. \A i \in 1..Len(d) : d[i] = i
  <2> TAKE i \in 1..Len(d)
  <2>1. CASE i \in 1..Len(done)
    BY <1>1, <2>1 DEF InOrder
  <2>2. CASE i = Len(done) + 1
    BY <1>1, <1>3, <2>2
  <2> QED BY <1>1, <2>1, <2>2
<1>5. Len(done) + Hand(s) = Len(d) + Hand(<<>>)
  BY <1>1, <1>2
<1>6. InOrder(d, <<>>, waiting, count)
  BY <1>4, <1>5 DEF InOrder
<1>7. /\ Apart(Key(s[Len(s)]), <<>>, waiting)
      /\ Newest(Key(s[Len(s)]), <<>>, waiting) = Newest(last, s, waiting)
  BY DEF Apart, Latest, Newest
<1> QED BY <1>6, <1>7 DEF d

-----------------------------------------------------------------------------
(* The steps.                                                               *)
LEMMA EmptyGood == \A t, born, entered : GoodStack(<<>>, t, born, entered)
<1>1. <<>> \in Seq(FrameRecord) /\ 1..Len(<<>>) = {} /\ 1..(Len(<<>>) - 1) = {}
  BY Nothing
<1> QED BY <1>1 DEF GoodStack

LEMMA Initially == Init => IInv
<1> SUFFICES ASSUME Init PROVE IInv
  OBVIOUS
<1>1. /\ life = [p \in Process |-> IF p \in Running THEN "alive" ELSE "unborn"]
      /\ holder = [i \in {PidOf[p] : p \in Running} |-> CHOOSE p \in Running : PidOf[p] = i]
      /\ occurred = 0 /\ queue = <<>> /\ driver = "loaded" /\ clearing = FALSE
      /\ signalled = FALSE /\ loop = "begin" /\ monitorRunning = FALSE
      /\ tempP = <<FALSE, 0, 0>> /\ examined = <<>>
      /\ stack = [t \in Thread |-> <<>>] /\ processMap = initialiseProcessMap
      /\ known = "set" /\ messages = 0 /\ reported = {} /\ asks = 0 /\ crashed = FALSE
  BY DEF Init
<1>2. /\ Running \subseteq Process /\ MaxAsks \in Nat /\ MaxMessages \in Nat
      /\ \A p, q \in Running : PidOf[p] = PidOf[q] => p = q
  BY ProcessBounds
<1>3. "process" \in Thread
  BY DEF Thread
<1>4. Alive = Running /\ Born = Running
  BY <1>1, <1>2 DEF Alive, Born
<1>5. \A i \in {PidOf[p] : p \in Running} :
         LET c == CHOOSE p \in Running : PidOf[p] = i IN c \in Running /\ PidOf[c] = i
  OBVIOUS
<1>6. \A i \in DOMAIN holder :
         holder[i] \in Running /\ PidOf[holder[i]] = i /\ life[holder[i]] = "alive"
  BY <1>1, <1>2, <1>5
<1>7. \A i \in DOMAIN processMap : Named(processMap[i], i, Born)
  <2> SUFFICES ASSUME NEW i \in DOMAIN processMap PROVE Named(processMap[i], i, Born)
    OBVIOUS
  <2>1. i \in {PidOf[p] : p \in Running}
        /\ processMap[i] = InitialPath(CHOOSE p \in Running : PidOf[p] = i)
    BY <1>1 DEF initialiseProcessMap
  <2>2. PICK c \in Running : PidOf[c] = i /\ processMap[i] = InitialPath(c)
    BY <1>5, <2>1
  <2> QED BY <1>4, <2>2 DEF InitialPath, Named
<1>8. \A i \in DOMAIN processMap : processMap[i] # System
  BY <1>4, <1>2, <1>7, NamedIs
<1>9. TypeOK
  <2>1. life \in [Process -> {"unborn", "alive", "dead"}]
    BY <1>1
  <2>2. \A i \in DOMAIN holder : PidOf[holder[i]] = i /\ life[holder[i]] # "unborn"
    BY <1>6
  <2>3. stack["process"] = <<>>
    BY <1>1, <1>3
  <2>4. {monitorRunning, clearing, signalled, crashed} \subseteq BOOLEAN
    BY <1>1
  <2>5. asks \in 0..MaxAsks /\ messages \in 0..MaxMessages
    BY <1>1, <1>2
  <2> QED BY <1>1, <1>8, <2>1, <2>2, <2>3, <2>4, <2>5 DEF TypeOK
<1>10. Shape
  <2>1. <<>> \in Seq(FrameRecord) /\ <<>> \in Seq(Nat) /\ <<>> \in Seq(Event)
    BY Nothing
  <2> QED BY <1>1, <1>2, <1>6, <2>1, EmptyGood DEF Shape
<1>11. Paths
  BY <1>1, <1>7 DEF Paths
<1>12. Unique
  BY <1>2, <1>4 DEF Unique
<1>13. Freed
  BY <1>1 DEF Freed
<1>14. Events
  <2>1. stack["process"] = <<>>
    BY <1>1, <1>3
  <2>2. Len(<<>>) = 0 /\ 1..Len(<<>>) = {} /\ 1..(Len(<<>>) - 1) = {}
    BY Nothing
  <2>3. InOrder(<<>>, <<>>, <<>>, 0)
    BY <2>2 DEF InOrder, Hand
  <2>4. Apart(<<FALSE, 0, 0>>, <<>>, <<>>)
    BY <2>2 DEF Apart
  <2>5. Newest(<<FALSE, 0, 0>>, <<>>, <<>>) = <<FALSE, 0, 0>>
    BY DEF Newest, Latest
  <2>6. Settled(<<FALSE, 0, 0>>, Running)
    BY <1>2, PidsInUse DEF Settled
  <2> QED BY <1>1, <1>4, <2>1, <2>3, <2>4, <2>5, <2>6 DEF Events
<1> QED BY <1>9, <1>10, <1>11, <1>12, <1>13, <1>14 DEF IInv

(* A step of one thread inside ProcessManager.                              *)
LEMMA ThreadStep ==
    ASSUME IInv, ~crashed, NEW t \in Thread, NEW r, stack' = [stack EXCEPT ![t] = r],
           GoodStack(r, t, Born, Entered'), Entered \subseteq Entered',
           t = "process" => stack[t] # <<>>,
           \A i \in Entered' : Named(processMap'[i], i, Born),
           \A x \in reported' : Named(x.path, x.pid, Born),
           crashed' \in BOOLEAN, asks' \in 0..MaxAsks, examined' \in Seq(Nat),
           UNCHANGED <<worldVars, eventVars, driverVars, loop, monitorRunning, known,
                       listVars>>,
           known # "freed" => Events'
    PROVE  IInv'
<1> USE DEF IInv
<1>1. /\ UNCHANGED <<life, holder, occurred, clearing, signalled, queue, driver, loop>>
      /\ UNCHANGED <<monitorRunning, known, messages>>
  BY DEF worldVars, eventVars, driverVars, listVars
<1>2. Born' = Born /\ Alive' = Alive
  BY <1>1 DEF Born, Alive
<1>3. "process" \in Thread
  BY DEF Thread
<1>4. r \in Seq(FrameRecord)
  BY DEF GoodStack
<1>5. /\ stack' \in [Thread -> Seq(FrameRecord)]
      /\ stack'[t] = r /\ \A u \in Thread : u # t => stack'[u] = stack[u]
  BY <1>4 DEF Shape
<1>6. \A u \in Thread : GoodStack(stack'[u], u, Born, Entered')
  <2> TAKE u \in Thread
  <2>1. CASE u = t
    BY <1>5, <2>1
  <2>2. CASE u # t
    <3>1. GoodStack(stack[u], u, Born, Entered)
      BY DEF Shape
    <3>2. GoodStack(stack[u], u, Born, Entered')
      BY <3>1, GoodGrows
    <3> QED BY <1>5, <2>2, <3>2
  <2> QED BY <2>1, <2>2
<1>7. Shape'
  BY <1>1, <1>2, <1>5, <1>6 DEF Shape
<1>8. Paths'
  BY <1>2 DEF Paths, Entered
<1>9. stack'["process"] # <<>> => stack["process"] # <<>>
  BY <1>3, <1>5
<1>10. Freed'
  BY <1>1, <1>9 DEF Freed
<1>11. \A i \in DOMAIN processMap' : processMap'[i] # System
  <2>1. Born \in SUBSET Process
    BY DEF Born
  <2> QED BY <2>1, NamedIs DEF Entered
<1>12. TypeOK'
  <2>1. crashed' = TRUE \/ crashed' = FALSE
    OBVIOUS
  <2> QED BY <1>1, <1>9, <1>11, <2>1 DEF TypeOK
<1>13. Unique'
  BY <1>2 DEF Unique
<1> QED BY <1>1, <1>7, <1>8, <1>10, <1>12, <1>13

(* It keeps the event in hand.                                              *)
LEMMA EventsKept ==
    ASSUME IInv, NEW t \in Thread, NEW r, stack' = [stack EXCEPT ![t] = r],
           t = "process" => /\ stack[t] # <<>> /\ r # <<>>
                            /\ r[Len(r)].n = stack[t][Len(stack[t])].n
                            /\ Key(r[Len(r)]) = Key(stack[t][Len(stack[t])]),
           UNCHANGED <<worldVars, queue, examined, tempP>>
    PROVE  known # "freed" => Events'
<1> SUFFICES ASSUME known # "freed" PROVE Events'
  OBVIOUS
<1>1. UNCHANGED <<life, occurred, queue, examined, tempP>>
  BY DEF worldVars
<1>2. Alive' = Alive
  BY <1>1 DEF Alive
<1> DEFINE s == stack["process"]
<1>3. "process" \in Thread /\ stack \in [Thread -> Seq(FrameRecord)]
  BY DEF Thread, IInv, Shape
<1>4. /\ InOrder(examined, s, queue, occurred) /\ Apart(tempP, s, queue)
      /\ Settled(Newest(tempP, s, queue), Alive)
  BY DEF IInv, Events
<1>5. CASE t = "process"
  <2>1. stack'["process"] = r
    BY <1>3, <1>5
  <2>2. s # <<>> /\ r # <<>> /\ r[Len(r)].n = s[Len(s)].n /\ Key(r[Len(r)]) = Key(s[Len(s)])
    BY <1>5
  <2> HIDE DEF s
  <2>3. /\ InOrder(examined, r, queue, occurred) /\ Apart(tempP, r, queue)
        /\ Newest(tempP, s, queue) = Newest(tempP, r, queue)
    BY <1>4, <2>2, OuterSame
  <2> QED BY <1>1, <1>2, <1>4, <2>1, <2>3 DEF Events
<1>6. CASE t # "process"
  <2>1. stack'["process"] = s
    BY <1>3, <1>6
  <2> HIDE DEF s
  <2> QED BY <1>1, <1>2, <1>4, <2>1 DEF Events
<1> QED BY <1>5, <1>6

(* What a thread that looks at the map knows.                               *)
LEMMA Looking ==
    ASSUME IInv, NEW t \in Thread, stack[t] # <<>>
    PROVE  /\ GoodStack(stack[t], t, Born, Entered) /\ stack[t] \in Seq(FrameRecord)
           /\ Head(stack[t]) = stack[t][1] /\ stack[t][1] \in FrameRecord
           /\ Len(stack[t]) \in Nat /\ Len(stack[t]) > 0 /\ 1 \in 1..Len(stack[t])
           /\ GoodFrame(stack[t][1], Born) /\ stack[t][1].pid \in Pid
           /\ Born \in SUBSET Process
<1>1. GoodStack(stack[t], t, Born, Entered) /\ stack[t] \in Seq(FrameRecord)
  BY DEF IInv, Shape
<1> DEFINE s == stack[t]
<1> HIDE DEF s
<1>2. /\ Head(s) = s[1] /\ s[1] \in FrameRecord /\ Len(s) \in Nat /\ Len(s) > 0
      /\ 1 \in 1..Len(s)
  <2>1. s \in Seq(FrameRecord) /\ s # <<>>
    BY <1>1 DEF s
  <2> QED BY <2>1, Rest
<1>3. GoodFrame(s[1], Born)
  BY <1>1, <1>2 DEF GoodStack, s
<1>4. s[1].pid \in Pid
  BY <1>2 DEF FrameRecord
<1>5. Born \in SUBSET Process
  BY DEF Born
<1> QED BY <1>1, <1>2, <1>3, <1>4, <1>5 DEF s

(* The path a look returns, the map's or one just found, is that of a       *)
(* process that has had the id.                                             *)
LEMMA ReturnKeeps ==
    ASSUME IInv, ~crashed, NEW t \in Thread, Looks(t), NEW path \in Path,
           stack[t][1].step = "path" => Named(path, stack[t][1].pid, Born),
           stack' = [stack EXCEPT ![t] = Returned(@, path)],
           UNCHANGED <<worldVars, eventVars, driverVars, loopVars, managerVars, listVars,
                       reported, asks, crashed>>
    PROVE  IInv'
<1> DEFINE s == stack[t]
           r == Returned(s, path)
<1>1. s # <<>> /\ s[1].step \in Lookups /\ GoodStack(s, t, Born, Entered)
  BY Looking DEF Looks
<1>2. stack' = [stack EXCEPT ![t] = r]
  OBVIOUS
<1> HIDE DEF s
<1>3. /\ GoodStack(r, t, Born, Entered)
      /\ t = "process" => r # <<>>
      /\ r # <<>> => r[Len(r)].n = s[Len(s)].n /\ Key(r[Len(r)]) = Key(s[Len(s)])
  <2>1. s[1].step = "path" => Named(path, s[1].pid, Born)
    BY DEF s
  <2> QED BY <1>1, <2>1, ReturnedGood
<1> HIDE DEF r
<1>4. UNCHANGED <<worldVars, queue, examined, tempP, processMap, reported, asks, crashed>>
  BY DEF driverVars, loopVars, managerVars
<1>5. t = "process" => /\ stack[t] # <<>> /\ r # <<>>
                       /\ r[Len(r)].n = stack[t][Len(stack[t])].n
                       /\ Key(r[Len(r)]) = Key(stack[t][Len(stack[t])])
  BY <1>1, <1>3 DEF s
<1>6. known # "freed" => Events'
  BY <1>2, <1>4, <1>5, EventsKept
<1>7. Entered' = Entered
  BY <1>4 DEF Entered
<1>8. /\ \A i \in Entered : Named(processMap[i], i, Born)
      /\ \A x \in reported : Named(x.path, x.pid, Born)
  BY DEF IInv, Paths, Entered
<1>9. crashed \in BOOLEAN /\ asks \in 0..MaxAsks /\ examined \in Seq(Nat)
  BY DEF IInv, TypeOK, Shape
<1>10. UNCHANGED <<loop, monitorRunning, known, listVars>>
  BY DEF loopVars, managerVars
<1>11. t = "process" => stack[t] # <<>>
  BY <1>5
<1>12. GoodStack(r, t, Born, Entered') /\ Entered \subseteq Entered'
  BY <1>3, <1>7
<1>13. /\ \A i \in Entered' : Named(processMap'[i], i, Born)
       /\ \A x \in reported' : Named(x.path, x.pid, Born)
       /\ crashed' \in BOOLEAN /\ asks' \in 0..MaxAsks /\ examined' \in Seq(Nat)
  BY <1>4, <1>7, <1>8, <1>9
<1> QED BY <1>2, <1>6, <1>10, <1>11, <1>12, <1>13, ThreadStep

LEMMA HitKeeps == ASSUME NEW t \in Thread PROVE IInv /\ ~crashed /\ Hit(t) => IInv'
<1> SUFFICES ASSUME IInv, ~crashed, Hit(t) PROVE IInv'
  OBVIOUS
<1> DEFINE i == Sought(Head(stack[t]))
           path == IF i = SystemPid THEN System ELSE processMap[i]
<1>0. Looks(t)
  BY DEF Hit
<1>1. i = SystemPid \/ i \in DOMAIN processMap
  BY DEF Hit
<1>2. /\ Head(stack[t]) = stack[t][1] /\ stack[t][1].pid \in Pid
      /\ Born \in SUBSET Process
  <2>1. stack[t] # <<>>
    BY <1>0 DEF Looks
  <2> QED BY <2>1, Looking
<1>3. i \in DOMAIN processMap => Named(processMap[i], i, Born)
  <2> HIDE DEF i
  <2> QED BY DEF IInv, Paths
<1>4. path \in Path
  <2>1. System \in Path
    BY DEF Path
  <2>2. i \in DOMAIN processMap => processMap[i] \in Path
    BY <1>2, <1>3, NamedIs
  <2> QED BY <1>1, <2>1, <2>2
<1>5. stack[t][1].step = "path" => Named(path, stack[t][1].pid, Born)
  <2> SUFFICES ASSUME stack[t][1].step = "path" PROVE Named(path, stack[t][1].pid, Born)
    OBVIOUS
  <2>1. i = stack[t][1].pid
    BY <1>2 DEF Sought
  <2>2. i # SystemPid
    BY <1>2, <2>1, PidsAre
  <2>3. path = processMap[i] /\ i \in DOMAIN processMap
    BY <1>1, <2>2
  <2> HIDE DEF path, i
  <2> QED BY <1>3, <2>1, <2>3
<1>6. /\ Looks(t) /\ stack' = [stack EXCEPT ![t] = Returned(@, path)]
      /\ UNCHANGED <<worldVars, eventVars, driverVars, loopVars, managerVars, listVars,
                     reported, asks, crashed>>
  BY DEF Hit
<1> HIDE DEF path
<1> QED BY <1>4, <1>5, <1>6, ReturnKeeps

LEMMA OpenFailsKeeps == ASSUME NEW t \in Thread PROVE IInv /\ ~crashed /\ OpenFails(t) => IInv'
<1> SUFFICES ASSUME IInv, ~crashed, OpenFails(t) PROVE IInv'
  OBVIOUS
<1>1. /\ Looks(t) /\ stack' = [stack EXCEPT ![t] = Returned(@, UNKNOWN)]
      /\ UNCHANGED <<worldVars, eventVars, driverVars, loopVars, managerVars, listVars,
                     reported, asks, crashed>>
  BY DEF OpenFails, Misses
<1>2. UNKNOWN \in Path /\ \A pid : Named(UNKNOWN, pid, Born)
  BY DEF Path, Named
<1> QED BY <1>1, <1>2, ReturnKeeps

(* What the thread found is of an id no call of its own has entered.        *)
LEMMA OpenSucceedsKeeps ==
    ASSUME NEW t \in Thread PROVE IInv /\ ~crashed /\ OpenSucceeds(t) => IInv'
<1> SUFFICES ASSUME IInv, ~crashed, OpenSucceeds(t) PROVE IInv'
  OBVIOUS
<1> DEFINE s == stack[t]
           i == Sought(s[1])
           g == [s[1] EXCEPT !.found = GetProcessImageFileName(holder[i])]
           r == <<g>> \o Tail(s)
<1>1. /\ Looks(t) /\ s # <<>>
      /\ UNCHANGED <<worldVars, eventVars, driverVars, loopVars, managerVars, listVars,
                     reported, asks, crashed>>
  BY DEF OpenSucceeds, Misses, Looks
<1>2. /\ GoodStack(s, t, Born, Entered) /\ Head(s) = s[1] /\ s[1] \in FrameRecord
      /\ GoodFrame(s[1], Born) /\ Len(s) \in Nat
  BY <1>1, Looking
<1>3. /\ s[1].step \in Lookups /\ i \notin DOMAIN processMap /\ i \in DOMAIN holder
      /\ stack' = [stack EXCEPT ![t] = r]
  BY <1>2 DEF OpenSucceeds, Misses, Looks
<1>4. PICK p \in Process : p = holder[i] /\ PidOf[p] = i /\ p \in Born
  BY <1>3 DEF IInv, Shape, TypeOK, Born
<1> HIDE DEF s
<1>5. /\ g \in FrameRecord /\ g.n = s[1].n /\ g.pid = s[1].pid /\ g.create = s[1].create
      /\ g.parent = s[1].parent /\ g.step = s[1].step /\ g.path = s[1].path
      /\ g.found = GetProcessImageFileName(p)
  BY <1>2, <1>4 DEF FrameRecord, Image
<1> HIDE DEF g
<1>6. Sought(g) = i
  BY <1>5 DEF Sought
<1> HIDE DEF i
<1>7. GoodFrame(g, Born)
  BY <1>2, <1>3, <1>4, <1>5, <1>6 DEF GoodFrame, Found
<1>8. \A j \in 1..(Len(s) - 1) : s[j].pid # Sought(g)
  BY <1>2, <1>3, <1>6 DEF GoodStack, Entered
<1>9. /\ GoodStack(r, t, Born, Entered) /\ r # <<>>
      /\ r[Len(r)].n = s[Len(s)].n /\ Key(r[Len(r)]) = Key(s[Len(s)])
  BY <1>1, <1>2, <1>5, <1>7, <1>8, HeadGood
<1> HIDE DEF r
<1>10. UNCHANGED <<worldVars, queue, examined, tempP, processMap, reported, asks, crashed>>
  BY <1>1 DEF driverVars, loopVars, managerVars
<1>11. t = "process" => /\ stack[t] # <<>> /\ r # <<>>
                        /\ r[Len(r)].n = stack[t][Len(stack[t])].n
                        /\ Key(r[Len(r)]) = Key(stack[t][Len(stack[t])])
  BY <1>1, <1>9 DEF s
<1>12. known # "freed" => Events'
  BY <1>3, <1>10, <1>11, EventsKept
<1>13. Entered' = Entered
  BY <1>10 DEF Entered
<1>14. /\ \A j \in Entered' : Named(processMap'[j], j, Born)
       /\ \A x \in reported' : Named(x.path, x.pid, Born)
  BY <1>10, <1>13 DEF IInv, Paths, Entered
<1>15. crashed' \in BOOLEAN /\ asks' \in 0..MaxAsks /\ examined' \in Seq(Nat)
  BY <1>10 DEF IInv, TypeOK, Shape
<1>16. UNCHANGED <<eventVars, driverVars, loop, monitorRunning, known, listVars>>
  BY <1>1 DEF loopVars, managerVars
<1>17. GoodStack(r, t, Born, Entered') /\ Entered \subseteq Entered'
  BY <1>9, <1>13
<1> QED BY <1>1, <1>3, <1>11, <1>12, <1>14, <1>15, <1>16, <1>17, ThreadStep

(* The entry of the map, and the call that announces the process.           *)
LEMMA EnterFoundKeeps ==
    ASSUME NEW t \in Thread PROVE IInv /\ ~crashed /\ EnterFound(t) => IInv'
<1> SUFFICES ASSUME IInv, ~crashed, EnterFound(t) PROVE IInv'
  OBVIOUS
<1> DEFINE s == stack[t]
           f == s[1]
           i == Sought(f)
           path == convertFileObjectPathToDOSPath(f.found)
           rest == Returned(s, path)
           g == Frame(0, TRUE, i, getParentProcessId(i))
           r == <<g>> \o rest
<1>1. /\ s # <<>> /\ Looks(t)
      /\ UNCHANGED <<worldVars, eventVars, driverVars, loopVars, known, listVars,
                     reported, asks>>
  BY DEF EnterFound, Looks
<1>2. /\ GoodStack(s, t, Born, Entered) /\ Head(s) = f /\ f \in FrameRecord
      /\ GoodFrame(f, Born) /\ Len(s) \in Nat /\ Born \in SUBSET Process
  BY <1>1, Looking
<1>3. /\ f.step \in Lookups /\ f.found # UNKNOWN
      /\ processMap' = Put(processMap, i, path)
      /\ crashed' = (known = "freed")
      /\ stack' = [stack EXCEPT ![t] = r]
  BY <1>2 DEF EnterFound, insertProcess, Looks
<1> HIDE DEF s
<1>4. PICK p \in Born : PidOf[p] = i /\ f.found = GetProcessImageFileName(p)
  BY <1>2, <1>3 DEF GoodFrame, Found
<1>5. p \in Process /\ path = DosPath(p) /\ i \in Pid /\ path \in Path
  BY <1>2, <1>4, Converted, PidsAre DEF Path
<1>6. Named(path, i, Born)
  BY <1>4, <1>5 DEF Named
<1>7. f.step = "path" => i = f.pid
  BY DEF Sought
<1>8. getParentProcessId(i) \in Ids
  <2> HIDE DEF i
  <2>1. i \in DOMAIN holder => holder[i] \in Process
    BY DEF IInv, Shape
  <2> QED BY <2>1, PidsAre DEF getParentProcessId
<1>9. \A j \in 1..(Len(s) - 1) : s[j].pid # i
  BY <1>1, <1>2, <1>3 DEF GoodStack
<1> HIDE DEF path, i
<1>10. /\ GoodStack(rest, t, Born, Entered)
       /\ rest # <<>> => rest[1].found = UNKNOWN
       /\ t = "process" => rest # <<>>
       /\ rest # <<>> => rest[Len(rest)].n = s[Len(s)].n /\ Key(rest[Len(rest)]) = Key(s[Len(s)])
       /\ \A j \in 1..(Len(rest) - 1) : j \in 1..(Len(s) - 1) /\ rest[j].pid = s[j].pid
  <2>1. f.step = "path" => Named(path, f.pid, Born)
    BY <1>6, <1>7
  <2> QED BY <1>1, <1>2, <1>3, <1>5, <2>1, ReturnedGood
<1> HIDE DEF rest
<1>11. /\ GoodFrame(g, Born) /\ g.n = 0 /\ g.pid = i /\ g.step = "path" /\ g.found = UNKNOWN
  <2>1. PICK parent \in Ids : parent = getParentProcessId(i)
    BY <1>8
  <2>2. PICK pid \in Pid, create \in BOOLEAN : pid = i /\ create = TRUE
    BY <1>5
  <2>3. g = Frame(0, create, pid, parent)
    BY <2>1, <2>2
  <2> HIDE DEF g
  <2>4. PICK n \in Nat : n = 0 /\ g = Frame(n, create, pid, parent)
    BY <2>3
  <2>5. /\ GoodFrame(Frame(n, create, pid, parent), Born)
        /\ Frame(n, create, pid, parent).n = n
        /\ Frame(n, create, pid, parent).pid = pid
        /\ Frame(n, create, pid, parent).step = "path"
        /\ Frame(n, create, pid, parent).found = UNKNOWN
    BY FrameGood
  <2> QED BY <2>2, <2>4, <2>5
<1> HIDE DEF g
<1>12. /\ DOMAIN processMap' = DOMAIN processMap \cup {i} /\ processMap'[i] = path
       /\ \A z \in DOMAIN processMap : z # i => processMap'[z] = processMap[z]
  <2>1. processMap' = Put(processMap, i, path)
    BY <1>3
  <2> QED BY <2>1 DEF Put
<1>13. Entered \subseteq Entered' /\ i \in Entered'
  BY <1>12 DEF Entered
<1>14. /\ GoodStack(r, t, Born, Entered') /\ r # <<>>
       /\ rest # <<>> => r[Len(r)] = rest[Len(rest)]
  <2>1. \A j \in 1..(Len(rest) - 1) : rest[j].pid # g.pid
    BY <1>9, <1>10, <1>11
  <2> QED BY <1>10, <1>11, <1>13, <2>1, PushGood
<1> HIDE DEF r
<1>15. t = "process" => /\ stack[t] # <<>> /\ r # <<>>
                        /\ r[Len(r)].n = stack[t][Len(stack[t])].n
                        /\ Key(r[Len(r)]) = Key(stack[t][Len(stack[t])])
  BY <1>1, <1>10, <1>14 DEF s
<1>16. UNCHANGED <<worldVars, queue, examined, tempP, reported, asks>>
  BY <1>1 DEF driverVars, loopVars
<1>17. known # "freed" => Events'
  BY <1>3, <1>15, <1>16, EventsKept
<1>18. \A j \in Entered' : Named(processMap'[j], j, Born)
  <2>1. \A j \in DOMAIN processMap : Named(processMap[j], j, Born)
    BY DEF IInv, Paths
  <2>2. \A j \in DOMAIN processMap' : Named(processMap'[j], j, Born)
    BY <1>6, <1>12, <2>1
  <2> QED BY <2>2 DEF Entered
<1>19. \A x \in reported' : Named(x.path, x.pid, Born)
  BY <1>16 DEF IInv, Paths
<1>20. crashed' \in BOOLEAN /\ asks' \in 0..MaxAsks /\ examined' \in Seq(Nat)
  BY <1>3, <1>16 DEF IInv, TypeOK, Shape
<1>21. UNCHANGED <<eventVars, driverVars, loop, monitorRunning, known, listVars>>
  BY <1>1 DEF loopVars
<1> QED BY <1>1, <1>3, <1>13, <1>14, <1>15, <1>17, <1>18, <1>19, <1>20, <1>21, ThreadStep

(* What is entered for a creation is what the map had, or what was found.   *)
LEMMA EnterCreatedKeeps ==
    ASSUME NEW t \in Thread PROVE IInv /\ ~crashed /\ EnterCreated(t) => IInv'
<1> SUFFICES ASSUME IInv, ~crashed, EnterCreated(t) PROVE IInv'
  OBVIOUS
<1> DEFINE s == stack[t]
           f == s[1]
           module == ModuleName(processMap'[f.pid])
           g == [f EXCEPT !.module = module, !.step = "parentModule"]
           r == <<g>> \o Tail(s)
<1>1. /\ s # <<>>
      /\ UNCHANGED <<worldVars, eventVars, driverVars, loopVars, known, listVars,
                     reported, asks, crashed>>
  BY DEF EnterCreated
<1>2. /\ GoodStack(s, t, Born, Entered) /\ Head(s) = f /\ f \in FrameRecord
      /\ GoodFrame(f, Born) /\ Len(s) \in Nat /\ Born \in SUBSET Process
  BY <1>1, Looking
<1>3. /\ f.step = "insert"
      /\ processMap' = Put(processMap, f.pid, convertFileObjectPathToDOSPath(
                                                 convertFileObjectPathToDOSPath(f.path)))
      /\ stack' = [stack EXCEPT ![t] = r]
  BY <1>2 DEF EnterCreated, insertProcess
<1> HIDE DEF s
<1>4. Named(f.path, f.pid, Born) /\ f.found = UNKNOWN
  BY <1>2, <1>3 DEF GoodFrame, Found, Lookups
<1>5. f.path \in Path /\ convertFileObjectPathToDOSPath(f.path) = f.path
  BY <1>2, <1>4, NamedIs
<1>6. processMap' = Put(processMap, f.pid, f.path)
  BY <1>3, <1>5
<1>7. /\ DOMAIN processMap' = DOMAIN processMap \cup {f.pid} /\ processMap'[f.pid] = f.path
      /\ \A z \in DOMAIN processMap : z # f.pid => processMap'[z] = processMap[z]
  <2> HIDE DEF f
  <2> QED BY <1>6 DEF Put
<1>8. module \in Name
  BY <1>5, <1>7, ModuleNames
<1> HIDE DEF module
<1>9. /\ g \in FrameRecord /\ g.n = f.n /\ g.pid = f.pid /\ g.create = f.create
      /\ g.parent = f.parent /\ g.step = "parentModule" /\ g.path = f.path
      /\ g.found = f.found
  BY <1>2, <1>8 DEF FrameRecord, Step, Lookups
<1> HIDE DEF g
<1>10. GoodFrame(g, Born) /\ g.step \notin Special
  BY <1>4, <1>9 DEF GoodFrame, Found, Special
<1>11. Entered \subseteq Entered'
  BY <1>7 DEF Entered
<1>12. /\ GoodStack(r, t, Born, Entered) /\ r # <<>>
       /\ r[Len(r)].n = s[Len(s)].n /\ Key(r[Len(r)]) = Key(s[Len(s)])
  BY <1>1, <1>2, <1>4, <1>9, <1>10, HeadGood
<1> HIDE DEF r
<1>13. GoodStack(r, t, Born, Entered')
  BY <1>11, <1>12, GoodGrows
<1>15. t = "process" => /\ stack[t] # <<>> /\ r # <<>>
                        /\ r[Len(r)].n = stack[t][Len(stack[t])].n
                        /\ Key(r[Len(r)]) = Key(stack[t][Len(stack[t])])
  BY <1>1, <1>12 DEF s
<1>16. UNCHANGED <<worldVars, queue, examined, tempP, reported, asks, crashed>>
  BY <1>1 DEF driverVars, loopVars
<1>17. known # "freed" => Events'
  BY <1>3, <1>15, <1>16, EventsKept
<1>18. \A j \in Entered' : Named(processMap'[j], j, Born)
  <2>1. \A j \in DOMAIN processMap : Named(processMap[j], j, Born)
    BY DEF IInv, Paths
  <2>2. \A j \in DOMAIN processMap' : Named(processMap'[j], j, Born)
    BY <1>4, <1>7, <2>1
  <2> QED BY <2>2 DEF Entered
<1>19. \A x \in reported' : Named(x.path, x.pid, Born)
  BY <1>16 DEF IInv, Paths
<1>20. crashed' \in BOOLEAN /\ asks' \in 0..MaxAsks /\ examined' \in Seq(Nat)
  BY <1>16 DEF IInv, TypeOK, Shape
<1>21. UNCHANGED <<eventVars, driverVars, loop, monitorRunning, known, listVars>>
  BY <1>1 DEF loopVars
<1> QED BY <1>1, <1>3, <1>11, <1>13, <1>15, <1>17, <1>18, <1>19, <1>20, <1>21, ThreadStep

(* The innermost call ends.  If it examined an event of the driver, that    *)
(* was the one in hand.                                                     *)
LEMMA SignalKeeps ==
    ASSUME NEW t \in Thread PROVE IInv /\ ~crashed /\ SignalProcessEvent(t) => IInv'
<1> SUFFICES ASSUME IInv, ~crashed, SignalProcessEvent(t) PROVE IInv'
  OBVIOUS
<1> DEFINE s == stack[t]
           f == s[1]
           r == Tail(s)
           x == [create |-> f.create, pid |-> f.pid, path |-> f.path]
<1>1. /\ s # <<>> /\ crashed' = (known = "freed")
      /\ stack' = [stack EXCEPT ![t] = r]
      /\ UNCHANGED <<worldVars, eventVars, driverVars, loop, monitorRunning, managerVars,
                     listVars, asks>>
  BY DEF SignalProcessEvent
<1>2. /\ GoodStack(s, t, Born, Entered) /\ Head(s) = f /\ f \in FrameRecord
      /\ GoodFrame(f, Born) /\ Len(s) \in Nat /\ Len(s) > 0
  BY <1>1, Looking
<1>3. /\ f.step = "signal"
      /\ reported' \in {reported, reported \cup {x}}
      /\ IF f.n = 0 THEN UNCHANGED <<examined, tempP>>
         ELSE examined' = Append(examined, f.n) /\ tempP' = Key(f)
  BY <1>2 DEF SignalProcessEvent, Key
<1> HIDE DEF s
<1>4. /\ GoodStack(r, t, Born, Entered)
      /\ r # <<>> => r[Len(r)] = s[Len(s)]
      /\ r = <<>> <=> Len(s) = 1
  BY <1>1, <1>2, TailGood
<1>5. /\ Len(s) > 1 => f.n = 0
      /\ Len(s) = 1 /\ t = "process" => f.n > 0
      /\ Len(s) = 1 /\ t # "process" => f.n = 0
  <2>1. Len(s) > 1 => 1 \in 1..(Len(s) - 1)
    BY <1>2
  <2> QED BY <1>1, <1>2, <2>1 DEF GoodStack
<1> HIDE DEF r
<1>6. UNCHANGED <<worldVars, queue, processMap, known, asks>>
  BY <1>1 DEF driverVars, managerVars
<1>7. Entered' = Entered
  BY <1>6 DEF Entered
<1>8. \A y \in reported' : Named(y.path, y.pid, Born)
  <2>1. Named(f.path, f.pid, Born)
    BY <1>2 DEF GoodFrame
  <2>2. x.path = f.path /\ x.pid = f.pid
    OBVIOUS
  <2>3. \A y \in reported : Named(y.path, y.pid, Born)
    BY DEF IInv, Paths
  <2> HIDE DEF x
  <2> QED BY <1>3, <2>1, <2>2, <2>3
<1>9. examined \in Seq(Nat) /\ f.n \in Nat
  BY <1>2 DEF IInv, Shape, FrameRecord
<1>10. crashed' \in BOOLEAN /\ asks' \in 0..MaxAsks /\ examined' \in Seq(Nat)
  <2>1. examined' \in Seq(Nat)
    BY <1>3, <1>9, Appended
  <2> QED BY <1>1, <1>6, <2>1 DEF IInv, TypeOK
<1>11. known # "freed" => Events'
  <2>1. CASE f.n = 0
    <3>1. t = "process" => /\ stack[t] # <<>> /\ r # <<>>
                           /\ r[Len(r)].n = stack[t][Len(stack[t])].n
                           /\ Key(r[Len(r)]) = Key(stack[t][Len(stack[t])])
      BY <1>1, <1>2, <1>4, <1>5, <2>1 DEF s
    <3> QED BY <1>1, <1>3, <1>6, <2>1, <3>1, EventsKept
  <2>2. CASE f.n # 0
    <3> SUFFICES ASSUME known # "freed" PROVE Events'
      OBVIOUS
    <3>0. Len(s) = 1 /\ t = "process"
      <4> HIDE DEF f
      <4>1. PICK k \in Nat : k = Len(s) /\ k > 0
        BY <1>2
      <4>2. ~(k > 1)
        BY <1>5, <2>2, <4>1
      <4>3. k = 1
        BY <4>1, <4>2
      <4> QED BY <1>5, <2>2, <4>1, <4>3
    <3>1. t = "process" /\ Len(s) = 1 /\ r = <<>> /\ s = stack["process"]
      BY <1>4, <3>0 DEF s
    <3>2. stack'["process"] = <<>>
      BY <1>1, <3>1 DEF IInv, Shape
    <3>3. /\ InOrder(examined, s, queue, occurred) /\ Apart(tempP, s, queue)
          /\ Settled(Newest(tempP, s, queue), Alive)
      BY <3>1 DEF IInv, Events
    <3>4. /\ InOrder(Append(examined, f.n), <<>>, queue, occurred)
          /\ Apart(Key(f), <<>>, queue)
          /\ Newest(Key(f), <<>>, queue) = Newest(tempP, s, queue)
      <4>1. f = s[Len(s)]
        BY <3>1
      <4> HIDE DEF f
      <4>2. PICK n \in Nat : n = f.n /\ n = s[Len(s)].n
        BY <1>9, <4>1
      <4>3. /\ InOrder(Append(examined, n), <<>>, queue, occurred)
            /\ Apart(Key(s[Len(s)]), <<>>, queue)
            /\ Newest(Key(s[Len(s)]), <<>>, queue) = Newest(tempP, s, queue)
        <5>1. examined \in Seq(Nat) /\ s # <<>>
          BY <1>1, <1>9
        <5> QED BY <3>3, <4>2, <5>1, EventDone
      <4> QED BY <4>1, <4>2, <4>3
    <3>5. queue' = queue /\ occurred' = occurred /\ Alive' = Alive
      BY <1>6 DEF worldVars, Alive
    <3>6. examined' = Append(examined, f.n) /\ tempP' = Key(f)
      BY <1>3, <2>2
    <3> HIDE DEF f
    <3> QED BY <3>2, <3>3, <3>4, <3>5, <3>6 DEF Events
  <2> QED BY <2>1, <2>2
<1>12. \A j \in Entered' : Named(processMap'[j], j, Born)
  BY <1>6, <1>7 DEF IInv, Paths, Entered
<1>13. t = "process" => stack[t] # <<>>
  BY <1>1 DEF s
<1>14. GoodStack(r, t, Born, Entered') /\ Entered \subseteq Entered'
  BY <1>4, <1>7
<1> QED BY <1>1, <1>6, <1>8, <1>10, <1>11, <1>12, <1>13, <1>14, ThreadStep

LEMMA AskKeeps ==
    ASSUME NEW t \in Asker, NEW pid \in Pid PROVE IInv /\ ~crashed /\ Ask(t, pid) => IInv'
<1> SUFFICES ASSUME IInv, ~crashed, Ask(t, pid) PROVE IInv'
  OBVIOUS
<1>1. PICK n \in Nat, create \in BOOLEAN, parent \in Ids :
         n = 0 /\ create = FALSE /\ parent = NoParent
  BY PidsAre
<1> DEFINE f == Frame(n, create, pid, parent)
           g == [f EXCEPT !.step = "ask"]
<1>2. /\ asks < MaxAsks /\ asks' = asks + 1
      /\ stack' = [stack EXCEPT ![t] = <<g>>]
      /\ UNCHANGED <<worldVars, eventVars, driverVars, loopVars, managerVars, listVars,
                     reported, crashed>>
  BY <1>1 DEF Ask
<1>3. /\ GoodFrame(f, Born) /\ f.n = n /\ f.create = create /\ f.pid = pid
      /\ f.parent = parent /\ f.step = "path" /\ f.found = UNKNOWN /\ f.path = UNKNOWN
  BY FrameGood
<1> HIDE DEF f
<1>4. /\ f \in FrameRecord /\ Named(f.path, f.pid, Born)
  BY <1>3 DEF GoodFrame
<1>5. /\ g \in FrameRecord /\ g.n = n /\ g.found = UNKNOWN /\ g.step = "ask"
      /\ g.path = f.path /\ g.pid = f.pid
  BY <1>3, <1>4 DEF FrameRecord, Step, Lookups
<1> HIDE DEF g
<1>6. GoodFrame(g, Born)
  BY <1>4, <1>5 DEF GoodFrame, Found
<1>7. t \in Thread /\ t # "process"
  BY ProcessBounds DEF Thread
<1>8. GoodStack(<<g>>, t, Born, Entered)
  <2>1. g.n = 0
    BY <1>1, <1>5
  <2> QED BY <1>5, <1>6, <1>7, <2>1, OneGood
<1> DEFINE r == <<g>>
<1>9. stack' = [stack EXCEPT ![t] = r] /\ GoodStack(r, t, Born, Entered)
  BY <1>2, <1>8
<1> HIDE DEF r
<1>10. UNCHANGED <<worldVars, eventVars, driverVars, queue, loop, monitorRunning, tempP, examined,
                   processMap, known, listVars, reported, crashed>>
  BY <1>2 DEF driverVars, loopVars, managerVars
<1>11. known # "freed" => Events'
  BY <1>7, <1>9, <1>10, EventsKept
<1>12. Entered' = Entered
  BY <1>10 DEF Entered
<1>13. /\ \A j \in Entered' : Named(processMap'[j], j, Born)
       /\ \A x \in reported' : Named(x.path, x.pid, Born)
  BY <1>10, <1>12 DEF IInv, Paths, Entered
<1>14. crashed' \in BOOLEAN /\ examined' \in Seq(Nat)
  BY <1>10 DEF IInv, TypeOK, Shape
<1>15. asks' \in 0..MaxAsks
  <2>1. asks \in 0..MaxAsks /\ MaxAsks \in Nat
    BY ProcessBounds DEF IInv, TypeOK
  <2> QED BY <1>2, <2>1
<1>16. GoodStack(r, t, Born, Entered') /\ Entered \subseteq Entered'
  BY <1>9, <1>12
<1> QED BY <1>7, <1>9, <1>10, <1>11, <1>13, <1>14, <1>15, <1>16, ThreadStep

-----------------------------------------------------------------------------
LEMMA EventAdded ==
    ASSUME IInv, NEW p \in Process, NEW create \in BOOLEAN, ProcessCallback(create, p),
           NEW e, e = ProcessEvent(create, p),
           Key(e) # Newest(tempP, stack["process"], queue)
    PROVE  /\ InOrder(examined, stack["process"], queue, occurred)'
           /\ Apart(tempP, stack["process"], queue)'
           /\ Newest(tempP, stack["process"], queue)' = Key(e)
<1> DEFINE s == stack["process"]
<1>1. /\ known # "freed" /\ occurred' = occurred + 1
      /\ queue' = Append(queue, e)
      /\ examined' = examined /\ tempP' = tempP /\ s' = s
  BY DEF ProcessCallback
<1>2. occurred \in Nat /\ queue \in Seq(Event) /\ examined \in Seq(Nat)
  BY DEF IInv, Shape
<1>3. e \in Event /\ e.n = occurred + 1
  BY <1>2, PidsAre DEF ProcessEvent, Event
<1>4. InOrder(examined, s, queue, occurred) /\ Apart(tempP, s, queue)
  BY <1>1 DEF IInv, Events
<1>5. Key(e) # Newest(tempP, s, queue)
  OBVIOUS
<1>6. PICK r, next, w : r = s /\ next = occurred + 1 /\ w = Append(queue, e)
  OBVIOUS
<1> HIDE DEF s
<1>7. e.n = next /\ InOrder(examined, r, queue, occurred) /\ Apart(tempP, r, queue)
      /\ Key(e) # Newest(tempP, r, queue)
  BY <1>3, <1>4, <1>5, <1>6
<1>8. InOrder(examined, r, w, next) /\ Apart(tempP, r, w)
  BY <1>2, <1>3, <1>6, <1>7, EventQueued
<1>9. Newest(tempP, r, w) = Key(e)
  <2>1. w # <<>> /\ Len(w) = Len(queue) + 1 /\ w[Len(queue) + 1] = e
    BY <1>2, <1>3, <1>6, Appended
  <2> QED BY <2>1 DEF Newest
<1>10. InOrder(examined, s, queue, occurred)' /\ Apart(tempP, s, queue)'
      /\ Newest(tempP, s, queue)' = Key(e)
  BY <1>1, <1>6, <1>8, <1>9
<1> QED BY <1>10 DEF s

(* A creation or termination: the newest event and the new one differ,      *)
(* because the one tells that the id is in use and the other that it is not.*)
LEMMA WorldKeeps ==
    ASSUME IInv, NEW p \in Process, NEW create \in BOOLEAN, ProcessCallback(create, p),
           life' = [life EXCEPT ![p] = IF create THEN "alive" ELSE "dead"],
           \A i \in DOMAIN holder' : /\ holder'[i] \in Process /\ PidOf[holder'[i]] = i
                                     /\ life'[holder'[i]] # "unborn",
           create => \A q \in Alive : PidOf[q] # PidOf[p],
           ~create => p \in Alive
    PROVE  IInv'
<1>1. /\ known # "freed" /\ occurred' = occurred + 1
      /\ queue' = Append(queue, ProcessEvent(create, p))
      /\ clearing' = TRUE /\ signalled' = TRUE
      /\ loop' = IF loop = "wait" THEN "request" ELSE loop
      /\ UNCHANGED <<driver, monitorRunning, tempP, examined, processMap, known,
                     permissions, messages, stack, reported, asks, crashed>>
  BY DEF ProcessCallback, managerVars, listVars
<1>2. life \in [Process -> {"unborn", "alive", "dead"}]
  BY DEF IInv, TypeOK
<1>3. /\ life' \in [Process -> {"unborn", "alive", "dead"}]
      /\ \A q \in Process : q # p => life'[q] = life[q]
      /\ life'[p] = IF create THEN "alive" ELSE "dead"
  BY <1>2
<1>4. Born \subseteq Born'
  BY <1>3 DEF Born
<1>5. create => Alive' = Alive \cup {p}
  BY <1>3 DEF Alive
<1>6. ~create => Alive' = Alive \ {p}
  BY <1>3 DEF Alive
<1>7. Unique'
  BY <1>5, <1>6 DEF IInv, Unique
<1>8. Entered' = Entered
  BY <1>1 DEF Entered
<1>9. PICK e : e = ProcessEvent(create, p)
  OBVIOUS
<1>10. occurred \in Nat /\ queue \in Seq(Event) /\ examined \in Seq(Nat)
       /\ stack \in [Thread -> Seq(FrameRecord)]
  BY DEF IInv, Shape
<1>11. e \in Event /\ e.n = occurred + 1 /\ Key(e) = <<create, ParentOf[p], PidOf[p]>>
  BY <1>9, <1>10, PidsAre DEF ProcessEvent, Event, Key
<1>12. queue' \in Seq(Event)
  BY <1>1, <1>9, <1>10, <1>11, Appended
<1>13. Shape'
  <2>1. \A t \in Thread : GoodStack(stack[t], t, Born', Entered)
    BY <1>4, GoodGrows DEF IInv, Shape
  <2>2. \A t \in Thread : GoodStack(stack'[t], t, Born', Entered')
    BY <1>1, <1>8, <2>1
  <2>3. occurred' \in Nat
    BY <1>1, <1>10
  <2> QED BY <1>1, <1>10, <1>12, <2>2, <2>3 DEF Shape
<1>14. Paths'
  <2>1. /\ \A i \in DOMAIN processMap : Named(processMap[i], i, Born')
        /\ \A r \in reported : Named(r.path, r.pid, Born')
    BY <1>4, NamedGrows DEF IInv, Paths
  <2> QED BY <1>1, <2>1 DEF Paths
<1>15. Freed'
  BY <1>1 DEF Freed
<1>16. TypeOK'
  <2>1. /\ loop \in {"begin", "wait", "request", "examine", "ended"}
        /\ stack["process"] # <<>> => loop = "examine"
        /\ \A i \in DOMAIN processMap : processMap[i] # System
        /\ driver \in {"loaded", "off"} /\ known \in {"set", "freed"}
        /\ {monitorRunning, clearing, signalled, crashed} \subseteq BOOLEAN
        /\ asks \in 0..MaxAsks /\ messages \in 0..MaxMessages
    BY DEF IInv, TypeOK
  <2>2. /\ loop' \in {"begin", "wait", "request", "examine", "ended"} /\ loop' # "wait"
        /\ stack'["process"] # <<>> => loop' = "examine"
    BY <1>1, <2>1
  <2>3. {monitorRunning', clearing', signalled', crashed'} \subseteq BOOLEAN
    BY <1>1, <2>1
  <2> QED BY <1>1, <1>3, <2>1, <2>2, <2>3 DEF TypeOK
<1>17. Events'
  <2> DEFINE s == stack["process"]
             k == Newest(tempP, s, queue)
  <2>1. /\ InOrder(examined, s, queue, occurred) /\ Apart(tempP, s, queue)
        /\ Settled(k, Alive)
    BY <1>1 DEF IInv, Events
  <2>2. Key(e)[1] = create /\ Key(e)[3] = PidOf[p]
    BY <1>11
  <2> HIDE DEF k
  <2>3. Key(e) # k
    <3>1. CASE create
      BY <2>1, <2>2, <3>1 DEF Settled
    <3>2. CASE ~create
      BY <2>1, <2>2, <3>2 DEF Settled
    <3> QED BY <3>1, <3>2
  <2>4. Settled(Key(e), Alive')
    <3>1. CASE create
      BY <1>5, <2>2, <3>1 DEF Settled
    <3>2. CASE ~create
      <4>1. \A q \in Alive' : PidOf[q] # PidOf[p]
        BY <1>6, <3>2 DEF IInv, Unique
      <4> QED BY <2>2, <3>2, <4>1 DEF Settled
    <3> QED BY <3>1, <3>2
  <2>5. /\ InOrder(examined, s, queue, occurred)' /\ Apart(tempP, s, queue)'
        /\ Newest(tempP, s, queue)' = Key(e)
    BY <1>9, <2>3, EventAdded DEF k
  <2> HIDE DEF s
  <2> QED BY <2>4, <2>5 DEF Events, s
<1> QED BY <1>7, <1>13, <1>14, <1>15, <1>16, <1>17 DEF IInv

LEMMA CreateKeeps == ASSUME NEW p \in Process PROVE IInv /\ CreateProcess(p) => IInv'
<1> SUFFICES ASSUME IInv, CreateProcess(p) PROVE IInv'
  OBVIOUS
<1>1. /\ life[p] = "unborn" /\ life' = [life EXCEPT ![p] = "alive"]
      /\ \A q \in Process : PidOf[q] = PidOf[p] => life[q] # "alive"
      /\ holder' = Put(holder, PidOf[p], p)
  BY DEF CreateProcess
<1>2. PICK create \in BOOLEAN : create = TRUE
  OBVIOUS
<1>3. ProcessCallback(create, p)
  BY <1>2 DEF CreateProcess
<1>4. /\ life \in [Process -> {"unborn", "alive", "dead"}]
      /\ \A i \in DOMAIN holder : /\ holder[i] \in Process /\ PidOf[holder[i]] = i
                                  /\ life[holder[i]] # "unborn"
  BY DEF IInv, TypeOK, Shape
<1>5. life'[p] = "alive" /\ \A q \in Process : q # p => life'[q] = life[q]
  BY <1>1, <1>4
<1>6. /\ DOMAIN holder' = DOMAIN holder \cup {PidOf[p]} /\ holder'[PidOf[p]] = p
      /\ \A i \in DOMAIN holder : i # PidOf[p] => holder'[i] = holder[i]
  BY <1>1 DEF Put
<1>7. \A i \in DOMAIN holder' : /\ holder'[i] \in Process /\ PidOf[holder'[i]] = i
                                /\ life'[holder'[i]] # "unborn"
  BY <1>4, <1>5, <1>6
<1>8. \A q \in Alive : PidOf[q] # PidOf[p]
  BY <1>1 DEF Alive
<1>9. life' = [life EXCEPT ![p] = IF create THEN "alive" ELSE "dead"]
  BY <1>1, <1>2
<1>10. (create => \A q \in Alive : PidOf[q] # PidOf[p]) /\ (~create => p \in Alive)
  BY <1>2, <1>8
<1> QED BY <1>3, <1>7, <1>9, <1>10, WorldKeeps

LEMMA ExitKeeps == ASSUME NEW p \in Process PROVE IInv /\ ExitProcess(p) => IInv'
<1> SUFFICES ASSUME IInv, ExitProcess(p) PROVE IInv'
  OBVIOUS
<1>1. life[p] = "alive" /\ life' = [life EXCEPT ![p] = "dead"] /\ holder' = holder
  BY DEF ExitProcess
<1>2. PICK create \in BOOLEAN : create = FALSE
  OBVIOUS
<1>3. ProcessCallback(create, p)
  BY <1>2 DEF ExitProcess
<1>4. /\ life \in [Process -> {"unborn", "alive", "dead"}]
      /\ \A i \in DOMAIN holder : /\ holder[i] \in Process /\ PidOf[holder[i]] = i
                                  /\ life[holder[i]] # "unborn"
  BY DEF IInv, TypeOK, Shape
<1>5. life'[p] = "dead" /\ \A q \in Process : q # p => life'[q] = life[q]
  BY <1>1, <1>4
<1>6. \A i \in DOMAIN holder' : /\ holder'[i] \in Process /\ PidOf[holder'[i]] = i
                                /\ life'[holder'[i]] # "unborn"
  BY <1>1, <1>4, <1>5
<1>7. life' = [life EXCEPT ![p] = IF create THEN "alive" ELSE "dead"]
  BY <1>1, <1>2
<1>8. (create => \A q \in Alive : PidOf[q] # PidOf[p]) /\ (~create => p \in Alive)
  BY <1>1, <1>2 DEF Alive
<1> QED BY <1>3, <1>6, <1>7, <1>8, WorldKeeps

-----------------------------------------------------------------------------
(* The monitor's thread, its stop and its end.                              *)

(* A step that takes no event and makes no call.                            *)
LEMMA ControlStep ==
    ASSUME IInv, TypeOK', Freed',
           UNCHANGED <<worldVars, queue, stack, processMap, reported, examined, tempP>>,
           known' # "freed" => known # "freed"
    PROVE  IInv'
<1>1. UNCHANGED <<life, holder, occurred, queue, stack, processMap, reported, examined, tempP>>
  BY DEF worldVars
<1>2. Born' = Born /\ Alive' = Alive /\ Entered' = Entered
  BY <1>1 DEF Born, Alive, Entered
<1>3. Shape'
  BY <1>1, <1>2 DEF IInv, Shape
<1>4. Paths' /\ Unique'
  BY <1>1, <1>2 DEF IInv, Paths, Unique
<1>5. known' # "freed" => Events'
  BY <1>1, <1>2 DEF IInv, Events
<1> QED BY <1>3, <1>4, <1>5 DEF IInv

(* Where the thread goes after a turn.                                      *)
LEMMA TestIs ==
    ASSUME signalled \in BOOLEAN, NEW running \in BOOLEAN
    PROVE  /\ LoopTest(running) \in {"wait", "request", "ended"}
           /\ LoopTest(running) = "wait" => ~signalled
BY DEF LoopTest

LEMMA RunBeginKeeps == IInv /\ RunBegin => IInv'
<1> SUFFICES ASSUME IInv, RunBegin PROVE IInv'
  OBVIOUS
<1>1. /\ loop = "begin" /\ monitorRunning' = TRUE /\ crashed' = (known = "freed")
      /\ loop' = LoopTest(TRUE)
      /\ UNCHANGED <<life, holder, occurred, queue, stack, processMap, reported, examined, tempP>>
      /\ UNCHANGED <<clearing, signalled, driver, known, messages, asks>>
  BY DEF RunBegin, worldVars, eventVars, driverVars, managerVars, listVars
<1>2. TypeOK
  BY DEF IInv
<1>3. stack["process"] = <<>> /\ signalled \in BOOLEAN /\ clearing \in BOOLEAN
  BY <1>1, <1>2 DEF TypeOK
<1>4. loop' \in {"wait", "request", "ended"} /\ (loop' = "wait" => ~signalled)
  <2>1. PICK running \in BOOLEAN : running = TRUE
    OBVIOUS
  <2> QED BY <1>1, <1>3, <2>1, TestIs
<1>5. {monitorRunning', clearing', signalled', crashed'} \subseteq BOOLEAN
  BY <1>1, <1>3
<1>6. TypeOK'
  BY <1>1, <1>2, <1>3, <1>4, <1>5 DEF TypeOK
<1>7. Freed'
  BY <1>1, <1>3 DEF Freed
<1> QED BY <1>1, <1>6, <1>7, ControlStep DEF worldVars

LEMMA RunLoopKeeps == IInv /\ ~crashed /\ RunLoop => IInv'
<1> SUFFICES ASSUME IInv, ~crashed, RunLoop PROVE IInv'
  OBVIOUS
<1>1. /\ loop = "examine" /\ stack["process"] = <<>>
      /\ loop' = LoopTest(monitorRunning)
      /\ UNCHANGED <<life, holder, occurred, queue, stack, processMap, reported, examined, tempP>>
      /\ UNCHANGED <<clearing, signalled, driver, known, messages, asks, monitorRunning, crashed>>
  BY DEF RunLoop, worldVars, eventVars, driverVars, managerVars, listVars
<1>2. TypeOK /\ Freed
  BY DEF IInv
<1>3. signalled \in BOOLEAN /\ monitorRunning \in BOOLEAN
  BY <1>2 DEF TypeOK
<1>4. loop' \in {"wait", "request", "ended"} /\ (loop' = "wait" => ~signalled)
  BY <1>1, <1>3, TestIs
<1>5. {monitorRunning', clearing', signalled', crashed'} \subseteq BOOLEAN
  BY <1>1, <1>2 DEF TypeOK
<1>6. TypeOK'
  BY <1>1, <1>2, <1>4, <1>5 DEF TypeOK
<1>7. Freed'
  BY <1>1, <1>2 DEF Freed
<1> QED BY <1>1, <1>6, <1>7, ControlStep DEF worldVars

LEMMA ClearKeeps == IInv /\ ClearNewProcessEvent => IInv'
<1> SUFFICES ASSUME IInv, ClearNewProcessEvent PROVE IInv'
  OBVIOUS
<1>1. /\ clearing' = FALSE /\ signalled' = FALSE
      /\ UNCHANGED <<life, holder, occurred, queue, stack, processMap, reported, examined, tempP>>
      /\ UNCHANGED <<driver, known, messages, asks, monitorRunning, crashed, loop>>
  BY DEF ClearNewProcessEvent, worldVars, driverVars, loopVars, managerVars, listVars
<1>2. TypeOK /\ Freed
  BY DEF IInv
<1>3. {monitorRunning', clearing', signalled', crashed'} \subseteq BOOLEAN
  BY <1>1, <1>2 DEF TypeOK
<1>4. TypeOK'
  BY <1>1, <1>2, <1>3 DEF TypeOK
<1>5. Freed'
  BY <1>1, <1>2 DEF Freed
<1> QED BY <1>1, <1>4, <1>5, ControlStep DEF worldVars

LEMMA UnloadKeeps == IInv /\ UnloadDriver => IInv'
<1> SUFFICES ASSUME IInv, UnloadDriver PROVE IInv'
  OBVIOUS
<1>1. /\ driver' = "off"
      /\ UNCHANGED <<life, holder, occurred, queue, stack, processMap, reported, examined, tempP>>
      /\ UNCHANGED <<clearing, signalled, known, messages, asks, monitorRunning, crashed, loop>>
  BY DEF UnloadDriver, worldVars, eventVars, loopVars, managerVars, listVars
<1>2. TypeOK /\ Freed
  BY DEF IInv
<1>3. TypeOK'
  BY <1>1, <1>2 DEF TypeOK
<1>4. Freed'
  BY <1>1, <1>2 DEF Freed
<1> QED BY <1>1, <1>3, <1>4, ControlStep DEF worldVars

LEMMA StopKeeps == IInv /\ StopBegin => IInv'
<1> SUFFICES ASSUME IInv, StopBegin PROVE IInv'
  OBVIOUS
<1>1. /\ monitorRunning' = FALSE
      /\ UNCHANGED <<life, holder, occurred, queue, stack, processMap, reported, examined, tempP>>
      /\ UNCHANGED <<clearing, signalled, driver, known, messages, asks, crashed, loop>>
  BY DEF StopBegin, worldVars, eventVars, driverVars, managerVars, listVars
<1>2. TypeOK /\ Freed
  BY DEF IInv
<1>3. {monitorRunning', clearing', signalled', crashed'} \subseteq BOOLEAN
  BY <1>1, <1>2 DEF TypeOK
<1>4. TypeOK'
  BY <1>1, <1>2, <1>3 DEF TypeOK
<1>5. Freed'
  BY <1>1, <1>2 DEF Freed
<1> QED BY <1>1, <1>4, <1>5, ControlStep DEF worldVars

LEMMA ExclusionKeeps ==
    ASSUME NEW x \in Received PROVE IInv /\ onProcessExclusionReceived(x) => IInv'
<1> SUFFICES ASSUME IInv, onProcessExclusionReceived(x) PROVE IInv'
  OBVIOUS
<1>1. /\ known # "freed" /\ messages < MaxMessages /\ messages' = messages + 1
      /\ crashed' = TRUE \/ crashed' = crashed
      /\ UNCHANGED <<life, holder, occurred, queue, stack, processMap, reported, examined, tempP>>
      /\ UNCHANGED <<clearing, signalled, driver, known, asks, monitorRunning, loop>>
  BY DEF onProcessExclusionReceived, worldVars, eventVars, driverVars, loopVars, managerVars
<1>2. TypeOK /\ Freed /\ MaxMessages \in Nat
  BY ProcessBounds DEF IInv
<1>3. {monitorRunning', clearing', signalled', crashed'} \subseteq BOOLEAN
  BY <1>1, <1>2 DEF TypeOK
<1>4. messages' \in 0..MaxMessages
  <2>1. messages \in 0..MaxMessages
    BY <1>2 DEF TypeOK
  <2> QED BY <1>1, <1>2, <2>1
<1>5. TypeOK'
  BY <1>1, <1>2, <1>3, <1>4 DEF TypeOK
<1>6. Freed'
  BY <1>1, <1>2 DEF Freed
<1> QED BY <1>1, <1>5, <1>6, ControlStep DEF worldVars

(* The calls of the thread end with it.                                     *)
LEMMA DeleteKeeps == IInv /\ ~crashed /\ Delete => IInv'
<1> SUFFICES ASSUME IInv, ~crashed, Delete PROVE IInv'
  OBVIOUS
<1>1. /\ known = "set" /\ known' = "freed"
      /\ UNCHANGED <<life, holder, occurred, queue, processMap, reported, examined, tempP>>
      /\ UNCHANGED <<clearing, signalled, driver, messages, asks, monitorRunning, crashed>>
  BY DEF Delete, worldVars, eventVars, driverVars, listVars
<1>2. IF loop = "begin" THEN loop' = loop /\ stack' = stack
      ELSE loop' = "ended" /\ stack' = [stack EXCEPT !["process"] = <<>>]
  BY DEF Delete
<1>3. Born' = Born /\ Alive' = Alive /\ Entered' = Entered
  BY <1>1 DEF Born, Alive, Entered
<1>4. "process" \in Thread
  BY DEF Thread
<1>5. TypeOK /\ Shape
  BY DEF IInv
<1>6. /\ stack' \in [Thread -> Seq(FrameRecord)] /\ stack'["process"] = <<>>
      /\ \A t \in Thread : stack'[t] = stack[t] \/ stack'[t] = <<>>
      /\ loop' \in {"begin", "ended"}
  <2>1. stack \in [Thread -> Seq(FrameRecord)] /\ <<>> \in Seq(FrameRecord)
    BY <1>5, Nothing DEF Shape
  <2>2. CASE loop = "begin"
    BY <1>2, <1>5, <2>1, <2>2 DEF TypeOK
  <2>3. CASE loop # "begin"
    BY <1>2, <1>4, <2>1, <2>3
  <2> QED BY <2>2, <2>3
<1>7. Shape'
  BY <1>1, <1>3, <1>5, <1>6, EmptyGood DEF Shape
<1>8. Paths' /\ Unique'
  BY <1>1, <1>3 DEF IInv, Paths, Unique
<1>9. Freed'
  BY <1>6 DEF Freed
<1>10. TypeOK'
  <2>1. {monitorRunning', clearing', signalled', crashed'} \subseteq BOOLEAN
    BY <1>1, <1>5 DEF TypeOK
  <2> QED BY <1>1, <1>5, <1>6, <2>1 DEF TypeOK
<1> QED BY <1>1, <1>7, <1>8, <1>9, <1>10 DEF IInv

(* The event taken is never equal to the last one: run() examines it.       *)
LEMMA DispatchKeeps == IInv /\ ~crashed /\ KDispatchIoctl => IInv'
<1> SUFFICES ASSUME IInv, ~crashed, KDispatchIoctl PROVE IInv'
  OBVIOUS
<1>1. /\ loop = "request"
      /\ UNCHANGED <<life, holder, occurred, processMap, reported, examined, tempP>>
      /\ UNCHANGED <<clearing, driver, known, messages, asks, monitorRunning, crashed>>
  BY DEF KDispatchIoctl, worldVars, managerVars, listVars
<1>2. TypeOK /\ Shape /\ Freed
  BY DEF IInv
<1>3. stack["process"] = <<>> /\ known # "freed"
  BY <1>1, <1>2 DEF TypeOK, Freed
<1>4. {monitorRunning, clearing, signalled, crashed} \subseteq BOOLEAN
  BY <1>2 DEF TypeOK
<1>5. CASE queue = <<>>
  <2>1. loop' = LoopTest(monitorRunning) /\ UNCHANGED <<queue, stack, signalled>>
    BY <1>5 DEF KDispatchIoctl
  <2>2. loop' \in {"wait", "request", "ended"} /\ (loop' = "wait" => ~signalled)
    BY <1>4, <2>1, TestIs
  <2>3. {monitorRunning', clearing', signalled', crashed'} \subseteq BOOLEAN
    BY <1>1, <1>4, <2>1
  <2>4. TypeOK'
    BY <1>1, <1>2, <1>3, <2>1, <2>2, <2>3 DEF TypeOK
  <2>5. Freed'
    BY <1>1, <1>3 DEF Freed
  <2> QED BY <1>1, <2>1, <2>4, <2>5, ControlStep DEF worldVars
<1>6. CASE queue # <<>>
  <2> DEFINE f == Frame(Head(queue).n, Head(queue).create, Head(queue).pid, Head(queue).parent)
             q == Tail(queue)
  <2>1. queue \in Seq(Event) /\ examined \in Seq(Nat)
    BY <1>2 DEF Shape
  <2>2. Head(queue) = queue[1] /\ Head(queue) \in Event /\ q \in Seq(Event)
    BY <1>6, <2>1, Rest
  <2>3. PICK e \in Event : e = Head(queue) /\ e = queue[1]
    BY <2>2
  <2>4. PICK n \in Nat, create \in BOOLEAN, pid \in Pid, parent \in Ids :
           n = e.n /\ create = e.create /\ pid = e.pid /\ parent = e.parent
    BY DEF Event
  <2>5. f = Frame(n, create, pid, parent)
    BY <2>3, <2>4
  <2>6. /\ queue' = q /\ loop' = "examine"
        /\ stack' = [stack EXCEPT !["process"] =
                        <<IF Same(Head(queue)) THEN [f EXCEPT !.step = "again"] ELSE f>>]
        /\ signalled' = (signalled /\ Len(queue) = 1)
    BY <1>6 DEF KDispatchIoctl
  <2> HIDE DEF f, q
  <2>7. /\ GoodFrame(Frame(n, create, pid, parent), Born)
        /\ Frame(n, create, pid, parent).n = n
        /\ Frame(n, create, pid, parent).create = create
        /\ Frame(n, create, pid, parent).pid = pid
        /\ Frame(n, create, pid, parent).parent = parent
        /\ Frame(n, create, pid, parent).step = "path"
        /\ Frame(n, create, pid, parent).found = UNKNOWN
    BY FrameGood
  <2>8. /\ GoodFrame(f, Born) /\ f.n = n /\ f.step = "path" /\ f.found = UNKNOWN
        /\ f.create = create /\ f.pid = pid /\ f.parent = parent
    BY <2>5, <2>7
  <2>9. f.n = queue[1].n /\ Key(f) = Key(queue[1])
    BY <2>3, <2>4, <2>8 DEF Key
  <2>10. /\ InOrder(examined, <<>>, queue, occurred) /\ Apart(tempP, <<>>, queue)
         /\ Settled(Newest(tempP, <<>>, queue), Alive)
    BY <1>3 DEF IInv, Events
  <2>11. /\ f.n = Len(examined) + 1 /\ Key(f) # tempP
         /\ InOrder(examined, <<f>>, q, occurred)
         /\ Apart(tempP, <<f>>, q)
         /\ Newest(tempP, <<f>>, q) = Newest(tempP, <<>>, queue)
    <3>1. <<f>> # <<>> /\ <<f>>[Len(<<f>>)] = f
      OBVIOUS
    <3>2. InOrder(examined, <<f>>, q, occurred) /\ Apart(tempP, <<f>>, q)
      BY <1>6, <2>1, <2>9, <2>10, EventTaken DEF q
    <3>3. f.n = Len(examined) + 1 /\ Key(f) # tempP
      BY <3>1, <3>2 DEF InOrder, Apart
    <3>4. Newest(tempP, <<f>>, q) = Newest(tempP, <<>>, queue)
      BY <1>6, <2>1, <2>9, NewestTaken DEF q
    <3> QED BY <3>3, <3>2, <3>4
  <2>12. ~Same(Head(queue))
    BY <2>3, <2>9, <2>11 DEF Same, Key
  <2>13. f.n > 0 /\ f.step \notin Special
    <3>1. Len(examined) \in Nat
      BY <2>1, NonEmpty
    <3> QED BY <2>8, <2>11, <3>1 DEF Special
  <2> DEFINE s == <<f>>
  <2>14. GoodStack(s, "process", Born, Entered) /\ s # <<>>
    BY <2>8, <2>13, OneGood
  <2>15. InOrder(examined, s, q, occurred) /\ Apart(tempP, s, q)
         /\ Newest(tempP, s, q) = Newest(tempP, <<>>, queue)
    BY <2>11
  <2>16. stack' = [stack EXCEPT !["process"] = s]
    BY <2>6, <2>12
  <2> HIDE DEF s
  <2>17. "process" \in Thread
    BY DEF Thread
  <2>18. /\ stack' \in [Thread -> Seq(FrameRecord)] /\ stack'["process"] = s
         /\ \A t \in Thread : t # "process" => stack'[t] = stack[t]
    <3>1. s \in Seq(FrameRecord)
      BY <2>14 DEF GoodStack
    <3> QED BY <1>2, <2>16, <2>17, <3>1 DEF Shape
  <2>19. Born' = Born /\ Alive' = Alive /\ Entered' = Entered
    BY <1>1 DEF Born, Alive, Entered
  <2>20. Shape'
    <3>1. \A t \in Thread : GoodStack(stack'[t], t, Born, Entered)
      BY <1>2, <2>14, <2>18 DEF Shape
    <3> QED BY <1>1, <1>2, <2>2, <2>6, <2>18, <2>19, <3>1 DEF Shape
  <2>21. Paths' /\ Unique'
    BY <1>1, <2>19 DEF IInv, Paths, Unique
  <2>22. Freed'
    BY <1>1, <1>3 DEF Freed
  <2>23. Events'
    BY <1>1, <2>6, <2>10, <2>15, <2>18, <2>19 DEF Events
  <2>24. TypeOK'
    <3>1. {monitorRunning', clearing', signalled', crashed'} \subseteq BOOLEAN
      BY <1>1, <1>4, <2>6
    <3>2. loop' = "examine"
      BY <2>6
    <3> QED BY <1>1, <1>2, <3>1, <3>2 DEF TypeOK
  <2> QED BY <2>20, <2>21, <2>22, <2>23, <2>24 DEF IInv
<1> QED BY <1>5, <1>6

-----------------------------------------------------------------------------
LEMMA Preserved == IInv /\ [Next]_vars => IInv'
<1> SUFFICES ASSUME IInv, [Next]_vars PROVE IInv'
  OBVIOUS
<1>1. CASE UNCHANGED vars
  <2>1. /\ UNCHANGED <<life, holder, occurred, queue, stack, processMap, reported, examined, tempP>>
        /\ UNCHANGED <<clearing, signalled, driver, known, messages, asks, crashed, loop>>
        /\ UNCHANGED monitorRunning
    BY <1>1 DEF vars, worldVars, eventVars, driverVars, loopVars, managerVars, listVars
  <2>2. TypeOK' /\ Freed'
    BY <2>1 DEF IInv, TypeOK, Freed
  <2> QED BY <2>1, <2>2, ControlStep DEF worldVars
<1>2. CASE Next
  <2>1. ~crashed
    BY <1>2 DEF Next
  <2>2. CASE World
    BY <2>2, CreateKeeps, ExitKeeps DEF World
  <2>3. ASSUME NEW t \in Thread, Call(t) PROVE IInv'
    BY <2>1, <2>3, HitKeeps, OpenFailsKeeps, OpenSucceedsKeeps, EnterFoundKeeps,
       EnterCreatedKeeps, SignalKeeps DEF Call
  <2>4. ASSUME NEW t \in Asker, NEW i \in Pid, Ask(t, i) PROVE IInv'
    BY <2>1, <2>4, AskKeeps
  <2>5. CASE Loop
    BY <2>1, <2>5, RunBeginKeeps, DispatchKeeps, RunLoopKeeps DEF Loop
  <2>6. CASE StopBegin \/ Delete
    BY <2>1, <2>6, StopKeeps, DeleteKeeps
  <2>7. CASE ClearNewProcessEvent \/ UnloadDriver
    BY <2>7, ClearKeeps, UnloadKeeps
  <2>8. ASSUME NEW x \in Received, onProcessExclusionReceived(x) PROVE IInv'
    BY <2>8, ExclusionKeeps
  <2> QED BY <1>2, <2>2, <2>3, <2>4, <2>5, <2>6, <2>7, <2>8 DEF Next
<1> QED BY <1>1, <1>2

LEMMA Invariance == Spec => []IInv
BY Initially, Preserved, PTL DEF Spec

-----------------------------------------------------------------------------
(* The fields of the model keep their types; in particular a thread that    *)
(* waits does so while the event is not signalled, and the calls of the     *)
(* monitor's thread belong to an event it has taken.                        *)
THEOREM TypeCorrect == Spec => []TypeOK
<1>1. IInv => TypeOK
  BY DEF IInv
<1> QED BY <1>1, Invariance, PTL

(* While there is a process monitor, every event the driver was told of has *)
(* been examined, is in hand or is queued, once and in order: run() loses   *)
(* none to its comparison with tempP, and the queue of the driver none.     *)
THEOREM EveryEvent == Spec => []EveryEventOnce
<1>1. ASSUME IInv PROVE EveryEventOnce
  <2> SUFFICES ASSUME known # "freed"
               PROVE  examined \o InHand \o Numbers(queue) = [i \in 1..occurred |-> i]
    BY DEF EveryEventOnce
  <2> DEFINE s == stack["process"]
             h == InHand
             w == Numbers(queue)
             a == examined \o h
             d == examined
  <2>1. /\ InOrder(examined, s, queue, occurred)
        /\ examined \in Seq(Nat) /\ queue \in Seq(Event) /\ occurred \in Nat
        /\ s \in Seq(FrameRecord)
    BY <1>1 DEF IInv, Events, Shape, Thread
  <2>2. Len(d) \in Nat /\ Len(queue) \in Nat /\ DOMAIN queue = 1..Len(queue)
        /\ \A i \in 1..Len(queue) : queue[i] \in Event
    BY <2>1, NonEmpty
  <2>3. w \in Seq(Nat) /\ Len(w) = Len(queue) /\ \A i \in 1..Len(w) : w[i] = queue[i].n
    <3>1. w = [i \in 1..Len(queue) |-> queue[i].n]
      BY <2>2 DEF Numbers
    <3>2. \A i \in 1..Len(queue) : queue[i].n \in Nat
      BY <2>2 DEF Event
    <3> QED BY <2>2, <3>1, <3>2
  <2>4. h \in Seq(Nat) /\ Len(h) = Hand(s) /\ Len(h) \in {0, 1}
        /\ (Len(h) = 1 => h[1] = Len(d) + 1)
    <3>1. CASE s = <<>>
      <4>1. h = <<>>
        BY <3>1 DEF InHand
      <4> QED BY <3>1, <4>1, Nothing DEF Hand
    <3>2. CASE s # <<>>
      <4>1. PICK n : n = s[Len(s)].n
        OBVIOUS
      <4>2. n = Len(d) + 1
        BY <2>1, <3>2, <4>1 DEF InOrder
      <4>3. h = <<n>> /\ n \in Nat
        BY <2>2, <3>2, <4>1, <4>2 DEF InHand
      <4>4. h \in Seq(Nat) /\ Len(h) = 1 /\ h[1] = n
        BY <4>3, One
      <4> QED BY <3>2, <4>2, <4>4 DEF Hand
    <3> QED BY <3>1, <3>2
  <2> HIDE DEF s, h, w
  <2>5. /\ a \in Seq(Nat) /\ Len(a) = Len(d) + Len(h)
        /\ \A i \in 1..(Len(d) + Len(h)) : a[i] = IF i <= Len(d) THEN d[i] ELSE h[i - Len(d)]
    BY <2>1, <2>4, ConcatProperties
  <2> HIDE DEF a
  <2>6. \A i \in 1..Len(a) : a[i] = i
    <3> TAKE i \in 1..Len(a)
    <3>1. CASE i <= Len(d)
      <4>1. i \in 1..Len(d) /\ a[i] = d[i]
        BY <2>2, <2>4, <2>5, <3>1
      <4> QED BY <2>1, <4>1 DEF InOrder
    <3>2. CASE i > Len(d)
      <4>1. i = Len(d) + 1 /\ Len(h) = 1 /\ i - Len(d) = 1
        BY <2>2, <2>4, <2>5, <3>2
      <4>2. a[i] = h[i - Len(d)]
        BY <2>2, <2>5, <3>2, <4>1
      <4> QED BY <2>4, <4>1, <4>2
    <3> QED BY <2>2, <3>1, <3>2
  <2> DEFINE r == a \o w
  <2>7. /\ r \in Seq(Nat) /\ Len(r) = Len(a) + Len(w)
        /\ \A i \in 1..(Len(a) + Len(w)) : r[i] = IF i <= Len(a) THEN a[i] ELSE w[i - Len(a)]
    <3>1. a \in Seq(Nat) /\ w \in Seq(Nat)
      BY <2>3, <2>5
    <3> QED BY <3>1, ConcatProperties
  <2> HIDE DEF r
  <2>8. Len(r) = occurred
    BY <2>1, <2>3, <2>4, <2>5, <2>7 DEF InOrder
  <2>9. \A i \in 1..occurred : r[i] = i
    <3> TAKE i \in 1..occurred
    <3>1. CASE i <= Len(a)
      <4>1. i \in 1..Len(a) /\ r[i] = a[i]
        BY <2>2, <2>3, <2>4, <2>5, <2>7, <2>8, <3>1
      <4> QED BY <2>6, <4>1
    <3>2. CASE i > Len(a)
      <4>1. PICK j \in 1..Len(w) : j = i - Len(a)
        BY <2>2, <2>3, <2>4, <2>5, <2>7, <2>8, <3>2
      <4>2. i \in 1..(Len(a) + Len(w)) /\ ~(i <= Len(a))
        BY <2>2, <2>3, <2>4, <2>5, <2>7, <2>8, <3>2
      <4>3. r[i] = w[i - Len(a)]
        BY <2>7, <4>2
      <4>4. r[i] = w[j]
        BY <4>1, <4>3
      <4>5. w[j] = Len(d) + Hand(s) + j
        BY <2>1, <2>3 DEF InOrder
      <4>6. w[j] = i
        BY <2>1, <2>2, <2>4, <2>5, <4>1, <4>5
      <4> QED BY <4>4, <4>6
    <3> QED BY <2>1, <2>2, <2>4, <2>5, <3>1, <3>2
  <2>10. r = [i \in 1..occurred |-> i]
    <3>1. [i \in 1..occurred |-> i] \in Seq(Nat) /\ Len([i \in 1..occurred |-> i]) = occurred
      BY <2>1
    <3>2. DOMAIN r = 1..occurred /\ r = [i \in 1..occurred |-> r[i]]
      BY <2>1, <2>7, <2>8, LenProperties
    <3> QED BY <2>9, <3>2
  <2> QED BY <2>10 DEF r, a, h, w
<1> QED BY <1>1, Invariance, PTL

(* What is reported with a path is the program of a process that has had    *)
(* the id: neither a path that was looked up for another id nor one of a    *)
(* process the driver has told nothing of.                                  *)
THEOREM ReportedPath == Spec => []PathOfHolder
<1>1. ASSUME IInv PROVE PathOfHolder
  <2> SUFFICES ASSUME NEW r \in reported, r.path # UNKNOWN
               PROVE  \E p \in Process : PidOf[p] = r.pid /\ life[p] # "unborn" /\ r.path = DosPath(p)
    BY DEF PathOfHolder
  <2>1. Named(r.path, r.pid, Born)
    BY <1>1 DEF IInv, Paths
  <2> QED BY <2>1 DEF Named, Born
<1> QED BY <1>1, Invariance, PTL

(* The announcements that nest in a call of getProcessPath are of different *)
(* ids, each in the map before it is announced: the recursion ends.         *)
THEOREM NestedCalls == Spec => []NestEnds
<1>1. ASSUME IInv PROVE NestEnds
  <2> SUFFICES ASSUME NEW t \in Thread
               PROVE  /\ \A i \in {i \in 1..(Len(stack[t]) - 1) : stack[t][i].n = 0} :
                            stack[t][i].pid \in DOMAIN processMap
                      /\ \A i, j \in {i \in 1..(Len(stack[t]) - 1) : stack[t][i].n = 0} :
                            stack[t][i].pid = stack[t][j].pid => i = j
    BY DEF NestEnds
  <2>1. GoodStack(stack[t], t, Born, Entered)
    BY <1>1 DEF IInv, Shape
  <2> QED BY <2>1 DEF GoodStack, Entered
<1> QED BY <1>1, Invariance, PTL

=============================================================================
