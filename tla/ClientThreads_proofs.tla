------------------------- MODULE ClientThreads_proofs -------------------------
(***************************************************************************)
(* Proofs about ClientThreads, for any finite set of groups, any timers    *)
(* and any number of time-outs, and whether writes fail or not.            *)
(*                                                                         *)
(* What is left to a thread is a word of operations.  A stage says how     *)
(* often the thread holds each monitor at a place of the word, and which   *)
(* operations are still ahead; a thread is at stage a if its word leads    *)
(* from a to the end (Leads), each operation from one stage to the next as *)
(* Link allows.  Nested calls only ever put operations in front, so Leads  *)
(* is used through three lemmas: the empty word, an operation in front,    *)
(* and the operation at the head taken away.  The invariant says that      *)
(* every thread is at some stage, that the owners of the monitors agree    *)
(* with the stages, and what the client's state owes to the operations     *)
(* ahead of the threads.                                                   *)
(***************************************************************************)
EXTENDS ClientThreads, SequenceTheorems, FiniteSetTheorems, TLAPS

-----------------------------------------------------------------------------
(* The name of an operation: the state for one that sets it, the monitor    *)
(* for one that leaves it.                                                  *)

Name(o) == IF o[2] = "()" \/ o[1] = "lock" THEN o[1] ELSE o[2]
Plain(names) == {<<n, "()">> : n \in names}

(* Operations on a group that is marked in error, and where they come from  *)
(* in disconnect().                                                         *)
Counting == {"readCount", "writeCount"}
Marking == {"readCount", "writeCount", "notifyObservers", "retry"}
Looking == {"ifGroup", "useGroup"}

(* What the retriever does with a group until it is sent, and what the      *)
(* receiver does on the reports about one.                                  *)
Sending == {"send", "write"}
Taking == {"setVisiting", "send", "write"}
Reporting == {"started", "finished", "noGroup", "WAITING"}

(* The operations of any thread, and those of each.                         *)
Shared ==
    ({"lock", "unlock"} \X {"vm", "ur"})
    \cup ({"clientState"} \X {"DISCONNECTED"})
    \cup ({"vmState"} \X {"RUNNING", "WAITING_TO_BE_REVERTED"})
    \cup Plain({"detach", "ifGroup", "useGroup", "close", "ifConnected", "notify", "update",
                "readCount", "writeCount", "notifyObservers", "retry", "send", "write"})
OwnOf(t) ==
    CASE t = "EC" -> ({"clientState"} \X {"CONNECTED", "WAITING", "VISITING"})
                     \cup Plain({"started", "finished", "noGroup"})
      [] t = "UR" -> Plain({"while", "ifWaiting", "setVisiting", "sent", "wait"})
      [] t = "CK" -> Plain({"setError"})
      [] OTHER    -> {}
OpsOf(t) == Shared \cup OwnOf(t)

-----------------------------------------------------------------------------
(* Stages.                                                                  *)

Label == {Name(o) : o \in Operation}
Stage == [vm : Nat, ur : Nat, ahead : SUBSET Label]
End == [vm |-> 0, ur |-> 0, ahead |-> {}]
With(names, b) == [vm |-> b.vm, ur |-> b.ur, ahead |-> names \cup b.ahead]

Held(n, l, o) ==
    IF o = <<"lock", l>> THEN n + 1 ELSE IF o = <<"unlock", l>> THEN n - 1 ELSE n

(* What holds before every operation: disconnect() runs inside the VM's     *)
(* monitor.                                                                 *)
Sheltered(a) ==
    /\ a.vm > 0 => "vm" \in a.ahead
    /\ a.ahead \cap {"detach", "close"} # {} => a.vm > 0

(* The monitors held around o: nobody but the retriever holds its own for   *)
(* longer than a notification, and it waits when it holds it once.          *)
Balanced(t, a, o, b) ==
    /\ b.vm = Held(a.vm, "vm", o) /\ b.ur = Held(a.ur, "ur", o)
    /\ Sheltered(a) /\ Sheltered(b)
    /\ o[1] \in {"clientState", "vmState"} => a.vm > 0
    /\ t # "UR" /\ a.ur > 0 => o \in {<<"notify", "()">>, <<"unlock", "ur">>}
    /\ o[1] \in {"while", "wait"} => a.ur = 1

(* What may be ahead after an operation of the name n.                      *)
Ordered(t, n, b) ==
    /\ "setVisiting" \notin b.ahead
    /\ n = "readCount" => "writeCount" \in b.ahead
    /\ Counting \cap b.ahead # {} => n = "readCount"
    /\ Marking \cap b.ahead # {} => n \in Marking
    /\ n = "close" => "ifGroup" \in b.ahead
    /\ n = "setVisiting" => "send" \in b.ahead
    /\ n \in Taking /\ t = "UR" => "sent" \in b.ahead
    /\ n \in Sending /\ t = "UR" => Sending \cap b.ahead = {}
    /\ n \in {"sent", "ifWaiting"} => b.ahead \subseteq {"wait", "ur"}
    /\ n \in {"while", "wait"} => b.ahead \subseteq {"ur"}
    /\ n \in {"started", "WAITING"} => b.ahead \cap Reporting = {}
    /\ n = "finished" => b.ahead \cap {"started", "finished"} = {}
    /\ n = "noGroup" => b.ahead \cap {"started", "finished", "noGroup"} = {}
    /\ t = "EC" /\ n \in {"send", "write", "CONNECTED"} => "WAITING" \in b.ahead

Link(t, a, o, b) ==
    /\ o \in OpsOf(t)
    /\ a.ahead = {Name(o)} \cup b.ahead
    /\ Balanced(t, a, o, b)
    /\ Ordered(t, Name(o), b)

Leads(t, s, a) ==
    \E d \in Seq(Stage) :
        /\ Len(d) = Len(s) + 1 /\ d[1] = a /\ d[Len(s) + 1] = End
        /\ \A i \in 1..Len(s) : Link(t, d[i], s[i], d[i + 1])

(* The word of a thread.  One that waits has still to enter its monitor and *)
(* to look again.                                                           *)
Word(t, s, asleep) ==
    IF t = "UR" /\ asleep THEN <<<<"lock", "ur">>>> \o (<<<<"while", "()">>>> \o s) ELSE s

-----------------------------------------------------------------------------
(* The invariant, for the stages q of the threads.                          *)

Reached(q) ==
    /\ todo = [t \in Thread |-> todo[t]]
    /\ \A t \in Thread : todo[t] \in Seq(Operation)
    /\ \A t \in Thread : Leads(t, Word(t, todo[t], waiting), q[t])

(* A monitor has one owner, who leaves it as often as he has entered it.    *)
Owns(m, t, n) == IF m.owner = t THEN m.depth = n /\ n > 0 ELSE n = 0
Owned(q) ==
    /\ lock \in [{"vm", "ur"} -> [owner : Thread \cup {"none"}, depth : Nat]]
    /\ \A l \in {"vm", "ur"} : lock[l].owner = "none" => lock[l].depth = 0
    /\ \A t \in Thread : Owns(lock["vm"], t, q[t].vm) /\ Owns(lock["ur"], t, q[t].ur)

(* What is still owed to a client that is disconnected is ahead of a thread.*)
Complete(q) ==
    thrown = {} /\ clientState = "DISCONNECTED" =>
        /\ attached => \E t \in Thread : "detach" \in q[t].ahead
        /\ socket = "open" => \E t \in Thread : "close" \in q[t].ahead

(* Somebody will mark the group in hand: a thread that is about to look for *)
(* it, one that has it, or the retriever, which has still to fail.          *)
WillFail(a) == a.ahead \cap Sending # {} \/ ("sent" \in a.ahead /\ ~local["UR"].sent)
WillMark(q, g) ==
    \/ \E t \in Thread : q[t].ahead \cap Looking # {}
    \/ \E t \in Thread : q[t].ahead \cap Counting # {} /\ local[t].group = g
    \/ WillFail(q["UR"])
GivenUp(q) ==
    thrown = {} /\ socket = "closed" /\ visiting # NoGroup =>
        group[visiting].errorCount > 0 \/ WillMark(q, visiting)

(* Each thread has the group it marks, and the retriever the one it sends.  *)
InHand(q) ==
    /\ \A t \in Thread : q[t].ahead \cap Marking # {} => local[t].group \in Group
    /\ "setVisiting" \in q["UR"].ahead => local["UR"].group \in Group
    /\ "sent" \in q["UR"].ahead /\ "setVisiting" \notin q["UR"].ahead =>
          /\ local["UR"].group \in Group /\ visiting \in {NoGroup, local["UR"].group}
          /\ q["UR"].ahead \cap Sending # {} => visiting # NoGroup
    /\ "write" \in q["UR"].ahead => ~local["UR"].sent

(* A report is about a group in hand, and while the retriever takes one,    *)
(* and before it does, there is none.                                       *)
NoReport(q) == remote = "none" /\ q["EC"].ahead \cap Reporting = {}
MayTake(a) == clientState = "WAITING" /\ "UR" \notin thrown /\ "sent" \notin a.ahead
Unsent(a) == a.ahead \cap Taking # {} \/ ("sent" \in a.ahead /\ ~local["UR"].sent)
Reported(q) ==
    /\ remote # "none" \/ q["EC"].ahead \cap {"started", "finished"} # {} => visiting # NoGroup
    /\ q["EC"].ahead \cap {"finished", "noGroup", "WAITING"} # {} => remote = "none"
    /\ Unsent(q["UR"]) \/ MayTake(q["UR"]) => NoReport(q)

(* Without timers and while writes succeed, the retriever never disconnects *)
(* its client: the receiver does not begin to before a group is sent.       *)
Calm == Timer = {} /\ ~WritesFail
Ending == {"DISCONNECTED", "WAITING_TO_BE_REVERTED", "detach", "close", "ifConnected"}
Gentle ==
    {"lock", "ur", "while", "ifWaiting", "setVisiting", "send", "write", "sent", "wait",
     "readCount", "writeCount", "notifyObservers", "retry"}
Steady(q) == socket = "open" /\ q["EC"].ahead \cap Ending = {}
Undisturbed(q) ==
    /\ q["UR"].ahead \subseteq Gentle
    /\ Unsent(q["UR"]) \/ MayTake(q["UR"]) \/ "WAITING" \in q["EC"].ahead => Steady(q)

(* An exception is the end of every thread but the checker.                 *)
Thrown(q) == \A t \in thrown : t # "CK" => todo[t] = <<>> /\ ~(t = "UR" /\ waiting)

Shape ==
    /\ local \in [Thread -> [group : Group \cup {NoGroup}, count : 0..ErrorBound, sent : BOOLEAN]]
    /\ thrown \subseteq Thread
    /\ clientState \in CLIENT_STATE
    /\ visiting \in Group \cup {NoGroup}
    /\ socket \in {"open", "closed"}
    /\ vmState \in {"RUNNING", "WAITING_TO_BE_REVERTED"}
    /\ {waiting, attached, pinged} \subseteq BOOLEAN
    /\ group \in [Group -> [state : {"NONE", "VISITING", "VISITED", "ERROR"}, errorCount : 0..ErrorBound,
                            changed : BOOLEAN]]
    /\ queue \in Seq(Group) /\ pushed \subseteq Group
    /\ remote \in {"none", "told", "started"}
    /\ expiries \in 0..MaxExpiry

Inv(q) ==
    /\ Reached(q) /\ Owned(q) /\ Shape /\ Thrown(q)
    /\ Complete(q) /\ GivenUp(q) /\ InHand(q) /\ Reported(q)
    /\ Calm => Undisturbed(q)
IInv == \E q \in [Thread -> Stage] : Inv(q)

-----------------------------------------------------------------------------
(* Words.                                                                   *)

LEMMA EmptyWord == ASSUME NEW t PROVE Leads(t, <<>>, End)
<1> DEFINE d == <<End>>
           s == <<>>
<1>1. d \in Seq(Stage) /\ Len(d) = 1 /\ d[1] = End
  BY DEF End, Stage
<1>2. Len(s) = 0
  OBVIOUS
<1> HIDE DEF d, s
<1>3. Len(d) = Len(s) + 1 /\ d[Len(s) + 1] = End
  BY <1>1, <1>2
<1>4. \A i \in 1..Len(s) : Link(t, d[i], s[i], d[i + 1])
  BY <1>2
<1>5. Leads(t, s, End)
  BY <1>1, <1>3, <1>4 DEF Leads
<1> QED BY <1>5 DEF s

LEMMA WordIsEmpty == ASSUME NEW t, NEW a, Leads(t, <<>>, a) PROVE a = End
BY DEF Leads

(* An operation in front of a word.                                         *)
LEMMA InFront ==
    ASSUME NEW t, NEW s \in Seq(Operation), NEW o \in Operation,
           NEW a \in Stage, NEW b \in Stage, Leads(t, s, b), Link(t, a, o, b)
    PROVE  /\ <<o>> \o s \in Seq(Operation) /\ <<o>> \o s # <<>>
           /\ Leads(t, <<o>> \o s, a)
<1>1. PICK d \in Seq(Stage) :
          /\ Len(d) = Len(s) + 1 /\ d[1] = b /\ d[Len(s) + 1] = End
          /\ \A i \in 1..Len(s) : Link(t, d[i], s[i], d[i + 1])
  BY DEF Leads
<1> DEFINE w == <<o>> \o s
           e == <<a>> \o d
<1>2. w \in Seq(Operation) /\ Len(w) = Len(s) + 1 /\ Len(s) \in Nat
      /\ w[1] = o /\ \A i \in 1..Len(s) : w[i + 1] = s[i]
  <2>1. <<o>> \in Seq(Operation) /\ Len(<<o>>) = 1 /\ <<o>>[1] = o
    OBVIOUS
  <2> QED BY <2>1, ConcatProperties, LenProperties
<1>3. e \in Seq(Stage) /\ Len(e) = Len(d) + 1 /\ Len(d) \in Nat
      /\ e[1] = a /\ \A i \in 1..Len(d) : e[i + 1] = d[i]
  <2>1. <<a>> \in Seq(Stage) /\ Len(<<a>>) = 1 /\ <<a>>[1] = a
    OBVIOUS
  <2> QED BY <2>1, ConcatProperties, LenProperties
<1> HIDE DEF w, e
<1>4. e[Len(w) + 1] = End
  BY <1>1, <1>2, <1>3
<1>5. ASSUME NEW i \in 1..Len(w) PROVE Link(t, e[i], w[i], e[i + 1])
  <2>1. CASE i = 1
    <3>1. 1 \in 1..Len(d)
      BY <1>1, <1>2
    <3>2. e[1 + 1] = d[1]
      BY <1>3, <3>1
    <3> QED BY <1>1, <1>2, <1>3, <2>1, <3>2
  <2>2. CASE i # 1
    <3>1. PICK j \in 1..Len(s) : i = j + 1
      <4>1. i - 1 \in 1..Len(s) /\ i = (i - 1) + 1
        BY <1>2, <2>2
      <4> QED BY <4>1
    <3>2. j \in 1..Len(d) /\ j + 1 \in 1..Len(d)
      BY <1>1, <1>2, <3>1
    <3>3. e[i] = d[j] /\ w[i] = s[j] /\ e[i + 1] = d[j + 1]
      BY <1>2, <1>3, <3>1, <3>2
    <3> QED BY <1>1, <3>3
  <2> QED BY <2>1, <2>2
<1>6. Leads(t, w, a)
  <2>1. e \in Seq(Stage) /\ Len(e) = Len(w) + 1 /\ e[1] = a
    BY <1>1, <1>2, <1>3
  <2> QED BY <1>4, <1>5, <2>1 DEF Leads
<1>7. w # <<>>
  BY <1>2
<1> QED BY <1>2, <1>6, <1>7 DEF w

(* The operation at the head of a word taken away.                          *)
LEMMA Behind ==
    ASSUME NEW t, NEW s \in Seq(Operation), s # <<>>, NEW a, Leads(t, s, a)
    PROVE  /\ Head(s) \in Operation /\ Tail(s) \in Seq(Operation)
           /\ \E b \in Stage : Link(t, a, Head(s), b) /\ Leads(t, Tail(s), b)
<1>1. PICK d \in Seq(Stage) :
          /\ Len(d) = Len(s) + 1 /\ d[1] = a /\ d[Len(s) + 1] = End
          /\ \A i \in 1..Len(s) : Link(t, d[i], s[i], d[i + 1])
  BY DEF Leads
<1> DEFINE r == Tail(s)
           e == Tail(d)
<1>2. Len(s) \in Nat \ {0} /\ Head(s) = s[1] /\ Head(s) \in Operation
  BY EmptySeq, HeadTailProperties
<1>3. r \in Seq(Operation) /\ Len(r) = Len(s) - 1 /\ \A i \in 1..Len(r) : r[i] = s[i + 1]
  BY HeadTailProperties
<1>4. Len(d) \in Nat /\ d # <<>>
  BY <1>1, <1>2
<1>5. e \in Seq(Stage) /\ Len(e) = Len(d) - 1 /\ \A i \in 1..Len(e) : e[i] = d[i + 1]
  BY <1>4, HeadTailProperties
<1> HIDE DEF r, e
<1>6. Len(e) = Len(r) + 1 /\ Len(r) \in Nat /\ 1 \in 1..Len(e) /\ Len(r) + 1 \in 1..Len(e)
  BY <1>1, <1>2, <1>3, <1>5
<1>7. e[1] = d[2] /\ e[Len(r) + 1] = End
  <2>1. e[1] = d[1 + 1] /\ e[Len(r) + 1] = d[(Len(r) + 1) + 1]
    BY <1>5, <1>6
  <2>2. (Len(r) + 1) + 1 = Len(s) + 1
    BY <1>2, <1>3
  <2> QED BY <1>1, <2>1, <2>2
<1>8. ASSUME NEW i \in 1..Len(r) PROVE Link(t, e[i], r[i], e[i + 1])
  <2>1. i + 1 \in 1..Len(s) /\ i \in 1..Len(e) /\ i + 1 \in 1..Len(e)
    BY <1>2, <1>3, <1>6
  <2> QED BY <1>1, <1>3, <1>5, <2>1
<1>9. e[1] \in Stage /\ Leads(t, r, e[1])
  <2>1. e[1] \in Stage
    BY <1>5, <1>6, ElementOfSeq
  <2> QED BY <1>5, <1>6, <1>7, <1>8, <2>1 DEF Leads
<1>10. Link(t, a, Head(s), e[1])
  <2>1. 1 \in 1..Len(s)
    BY <1>2
  <2>2. Link(t, d[1], s[1], d[1 + 1])
    BY <1>1, <2>1
  <2> QED BY <1>1, <1>2, <1>7, <2>2
<1> QED BY <1>2, <1>3, <1>9, <1>10 DEF r

(* Two operations in a row, as calls put them in front.                     *)
LEMMA Regroup ==
    ASSUME NEW p \in Seq(Operation), NEW s \in Seq(Operation), NEW r \in Seq(Operation)
    PROVE  (p \o s) \o r = p \o (s \o r) /\ s \o r \in Seq(Operation)
BY ConcatAssociative, ConcatProperties

(* Three of them.                                                           *)
Associates(p, s, r) == (p \o s) \o r = p \o (s \o r)
Rejoined(x, y, z, s) == ((x \o y) \o z) \o s = x \o (y \o (z \o s))

LEMMA Associative ==
    ASSUME NEW p \in Seq(Operation), NEW s \in Seq(Operation), NEW r \in Seq(Operation)
    PROVE  Associates(p, s, r)
BY Regroup DEF Associates

LEMMA RegroupAll ==
    ASSUME NEW x \in Seq(Operation), NEW y \in Seq(Operation), NEW z \in Seq(Operation),
           NEW s \in Seq(Operation)
    PROVE  Rejoined(x, y, z, s)
<1>1. PICK u : u = x \o y
  OBVIOUS
<1>2. PICK v : v = z \o s
  OBVIOUS
<1>3. u \in Seq(Operation) /\ v \in Seq(Operation)
  BY <1>1, <1>2, ConcatProperties
<1>4. Associates(u, z, s) /\ Associates(x, y, v)
  BY <1>3, Associative
<1> QED BY <1>1, <1>2, <1>4, Zenon DEF Associates, Rejoined

(* What the operations of a thread can be, by their first part.             *)
LEMMA Names ==
    ASSUME NEW t, NEW o \in OpsOf(t)
    PROVE  /\ o = <<o[1], o[2]>>
           /\ o[1] \in {"lock", "unlock"} => o[2] \in {"vm", "ur"}
           /\ o[1] = "lock" => Name(o) = "lock"
           /\ o[1] = "unlock" => Name(o) = o[2]
           /\ o[1] = "clientState" =>
                 /\ Name(o) = o[2] /\ o[2] \in CLIENT_STATE
                 /\ t # "EC" => o[2] = "DISCONNECTED"
                 /\ o[2] \in {"DISCONNECTED", "CONNECTED", "WAITING", "VISITING"}
           /\ o[1] = "vmState" => Name(o) = o[2] /\ o[2] \in {"RUNNING", "WAITING_TO_BE_REVERTED"}
           /\ o[1] \notin {"lock", "unlock", "clientState", "vmState"} =>
                 o[2] = "()" /\ Name(o) = o[1]
<1>1. CASE o \in {"lock", "unlock"} \X {"vm", "ur"}
  <2>1. PICK x \in {"lock", "unlock"}, y \in {"vm", "ur"} : o = <<x, y>>
    BY <1>1
  <2>2. o[1] = x /\ o[2] = y
    BY <2>1
  <2> QED BY <2>1, <2>2 DEF Name
<1>2. CASE o \in {"clientState"} \X {"DISCONNECTED"}
  <2>1. o = <<"clientState", "DISCONNECTED">>
    BY <1>2
  <2>2. o[1] = "clientState" /\ o[2] = "DISCONNECTED"
    BY <2>1
  <2> QED BY <2>1, <2>2 DEF Name, CLIENT_STATE
<1>3. CASE o \in {"vmState"} \X {"RUNNING", "WAITING_TO_BE_REVERTED"}
  <2>1. PICK y \in {"RUNNING", "WAITING_TO_BE_REVERTED"} : o = <<"vmState", y>>
    BY <1>3
  <2>2. o[1] = "vmState" /\ o[2] = y
    BY <2>1
  <2> QED BY <2>1, <2>2 DEF Name
<1>4. ASSUME NEW names, names \cap {"lock", "unlock", "clientState", "vmState"} = {},
             o \in Plain(names)
      PROVE  o = <<o[1], o[2]>> /\ o[2] = "()" /\ Name(o) = o[1]
             /\ o[1] \notin {"lock", "unlock", "clientState", "vmState"}
  <2>1. PICK n \in names : o = <<n, "()">>
    BY <1>4 DEF Plain
  <2>2. o[1] = n /\ o[2] = "()"
    BY <1>4, <2>1
  <2> QED BY <1>4, <2>1, <2>2 DEF Name
<1>5. CASE o \in Plain({"detach", "ifGroup", "useGroup", "close", "ifConnected", "notify", "update",
                "readCount", "writeCount", "notifyObservers", "retry", "send", "write"})
  BY <1>4, <1>5
<1>6. CASE t = "EC" /\ o \in OwnOf(t)
  <2>1. CASE o \in {"clientState"} \X {"CONNECTED", "WAITING", "VISITING"}
    <3>1. PICK y \in {"CONNECTED", "WAITING", "VISITING"} : o = <<"clientState", y>>
      BY <2>1
    <3>2. o[1] = "clientState" /\ o[2] = y
      BY <3>1
    <3> QED BY <1>6, <3>1, <3>2 DEF Name, CLIENT_STATE
  <2>2. CASE o \in Plain({"started", "finished", "noGroup"})
    BY <1>4, <2>2
  <2> QED BY <1>6, <2>1, <2>2 DEF OwnOf
<1>7. CASE t = "UR" /\ o \in OwnOf(t)
  <2>1. o \in Plain({"while", "ifWaiting", "setVisiting", "sent", "wait"})
    BY <1>7 DEF OwnOf
  <2> QED BY <1>4, <2>1
<1>8. CASE t = "CK" /\ o \in OwnOf(t)
  <2>1. o \in Plain({"setError"})
    BY <1>8 DEF OwnOf
  <2> QED BY <1>4, <2>1
<1>9. CASE t \notin {"EC", "UR", "CK"} /\ o \in OwnOf(t)
  BY <1>9 DEF OwnOf
<1> QED BY <1>1, <1>2, <1>3, <1>5, <1>6, <1>7, <1>8, <1>9 DEF OpsOf, Shared

-----------------------------------------------------------------------------
(* Calls: the stage from which the operations of a call lead to the stage   *)
(* before the rest of the word.                                             *)

(* Every plain name but the four that have an argument.                     *)
Simple ==
    {"detach", "close", "ifGroup", "useGroup", "ifConnected", "notify", "update", "readCount", "writeCount",
     "notifyObservers", "retry", "send", "write", "while", "ifWaiting", "setVisiting", "sent", "wait",
     "started", "finished", "noGroup", "setError"}

LEMMA Labels ==
    /\ \A n \in Simple : <<n, "()">> \in Operation /\ Name(<<n, "()">>) = n
    /\ \A l \in {"vm", "ur"} :
          /\ <<"lock", l>> \in Operation /\ Name(<<"lock", l>>) = "lock"
          /\ <<"unlock", l>> \in Operation /\ Name(<<"unlock", l>>) = l
    /\ \A s \in CLIENT_STATE : <<"clientState", s>> \in Operation /\ Name(<<"clientState", s>>) = s
    /\ \A s \in {"RUNNING", "WAITING_TO_BE_REVERTED"} :
          <<"vmState", s>> \in Operation /\ Name(<<"vmState", s>>) = s
    /\ Simple \subseteq Label
    /\ CLIENT_STATE \cup {"RUNNING", "WAITING_TO_BE_REVERTED", "lock", "vm", "ur"} \subseteq Label
<1>1. \A n \in Simple : <<n, "()">> \in Operation /\ Name(<<n, "()">>) = n
  BY DEF Simple, Operation, Name
<1>2. \A l \in {"vm", "ur"} :
          /\ <<"lock", l>> \in Operation /\ Name(<<"lock", l>>) = "lock"
          /\ <<"unlock", l>> \in Operation /\ Name(<<"unlock", l>>) = l
  BY DEF Operation, Name
<1>3. \A s \in CLIENT_STATE : <<"clientState", s>> \in Operation /\ Name(<<"clientState", s>>) = s
  BY DEF Operation, Name, CLIENT_STATE
<1>4. \A s \in {"RUNNING", "WAITING_TO_BE_REVERTED"} :
          <<"vmState", s>> \in Operation /\ Name(<<"vmState", s>>) = s
  BY DEF Operation, Name
<1>5. ASSUME NEW o \in Operation PROVE Name(o) \in Label
  BY <1>5 DEF Label
<1>6. Simple \subseteq Label
  <2>1. ASSUME NEW n \in Simple PROVE n \in Label
    BY <1>1, <1>5, Zenon
  <2> QED BY <2>1
<1>7. "lock" \in Label /\ "vm" \in Label /\ "ur" \in Label
  <2>1. "vm" \in {"vm", "ur"} /\ "ur" \in {"vm", "ur"}
    OBVIOUS
  <2> QED BY <1>2, <1>5, <2>1, Zenon
<1>8. \A s \in CLIENT_STATE : s \in Label
  BY <1>3, <1>5, Zenon
<1>9. \A s \in {"RUNNING", "WAITING_TO_BE_REVERTED"} : s \in Label
  BY <1>4, <1>5, Zenon
<1> QED BY <1>1, <1>2, <1>3, <1>4, <1>6, <1>7, <1>8, <1>9

LEMMA Joined ==
    ASSUME NEW b \in Stage, NEW m, NEW n
    PROVE  With(m, With(n, b)) = With(m \cup n, b)
BY DEF With, Stage

LEMMA WithStage ==
    ASSUME NEW b \in Stage, NEW n \in SUBSET Label
    PROVE  /\ With(n, b) \in Stage
           /\ With(n, b).vm = b.vm /\ With(n, b).ur = b.ur /\ With(n, b).ahead = n \cup b.ahead
BY DEF With, Stage

(* What a call asks of the rest of the word: nothing of a group is left to  *)
(* do, and the retriever's monitor is free but for the retriever.           *)
Fit(t, b) ==
    /\ "setVisiting" \notin b.ahead /\ Marking \cap b.ahead = {}
    /\ Sheltered(b)
    /\ t # "UR" => b.ur = 0

(* An operation without an argument.                                        *)
LEMMA Pushed ==
    ASSUME NEW t, NEW r \in Seq(Operation), NEW b \in Stage, Leads(t, r, b),
           NEW n \in Simple, <<n, "()">> \in OpsOf(t), Ordered(t, n, b),
           Sheltered(b), Sheltered(With({n}, b)), t # "UR" => b.ur = 0, n \in {"while", "wait"} => b.ur = 1
    PROVE  /\ Do(n) \o r \in Seq(Operation) /\ Do(n) \o r # <<>>
           /\ With({n}, b) \in Stage /\ Leads(t, Do(n) \o r, With({n}, b))
<1> DEFINE o == <<n, "()">>
<1>1. o \in Operation /\ Name(o) = n /\ n \in Label
  BY Labels
<1>2. /\ With({n}, b) \in Stage
      /\ With({n}, b).vm = b.vm /\ With({n}, b).ur = b.ur /\ With({n}, b).ahead = {n} \cup b.ahead
  BY <1>1, WithStage
<1>3. o[1] = n /\ o # <<"lock", "vm">> /\ o # <<"unlock", "vm">> /\ o # <<"lock", "ur">> /\ o # <<"unlock", "ur">>
  BY DEF Simple
<1>4. Balanced(t, With({n}, b), o, b)
  <2>1. b.vm = Held(b.vm, "vm", o) /\ b.ur = Held(b.ur, "ur", o)
    BY <1>3 DEF Held
  <2>2. n \notin {"clientState", "vmState"}
    BY DEF Simple
  <2>3. ASSUME t # "UR" PROVE ~(b.ur > 0)
    <3>1. b.ur = 0
      BY <2>3, Zenon
    <3> QED BY <3>1
  <2> HIDE DEF o
  <2> QED BY <1>2, <1>3, <2>1, <2>2, <2>3 DEF Balanced
<1>5. Link(t, With({n}, b), o, b)
  BY <1>1, <1>2, <1>4 DEF Link
<1> QED BY <1>1, <1>2, <1>5, InFront DEF Do

(* A call inside a monitor: setClientState, setState and notifyAll.         *)
Enclosed(t, l, o) ==
    /\ o \in OpsOf(t)
    /\ \/ l = "vm" /\ o[1] \in {"clientState", "vmState"}
       \/ l = "ur" /\ o = <<"notify", "()">>
Allowed(t, n, b) ==
    /\ n = "WAITING" => b.ahead \cap Reporting = {}
    /\ t = "EC" /\ n = "CONNECTED" => "WAITING" \in b.ahead

LEMMA Entered ==
    ASSUME NEW t, NEW r \in Seq(Operation), NEW b \in Stage, Leads(t, r, b), Fit(t, b),
           NEW l \in {"vm", "ur"}, NEW o \in Operation, Enclosed(t, l, o), Allowed(t, Name(o), b)
    PROVE  LET s == Synchronized(l, <<o>>) \o r
               c == With({"lock", Name(o), l}, b)
           IN  s \in Seq(Operation) /\ s # <<>> /\ c \in Stage /\ Leads(t, s, c)
<1> DEFINE n == Name(o)
           vm == IF l = "vm" THEN b.vm + 1 ELSE b.vm
           ur == IF l = "ur" THEN b.ur + 1 ELSE b.ur
           v == [vm |-> vm, ur |-> ur, ahead |-> {l} \cup b.ahead]
           u == [vm |-> vm, ur |-> ur, ahead |-> {n} \cup ({l} \cup b.ahead)]
           c == With({"lock", n, l}, b)
           lo == <<"lock", l>>
           ul == <<"unlock", l>>
<1>1. /\ n \in Label /\ l \in Label /\ "lock" \in Label
      /\ lo \in Operation /\ ul \in Operation /\ Name(lo) = "lock" /\ Name(ul) = l
  BY Labels DEF Label
<1>2. /\ n \in {"CONNECTED", "WAITING", "VISITING", "DISCONNECTED", "RUNNING", "WAITING_TO_BE_REVERTED", "notify"}
      /\ o \in OpsOf(t)
      /\ o[1] \in {"clientState", "vmState", "notify"} /\ (l = "ur" => o = <<"notify", "()">>)
      /\ (o[1] \in {"clientState", "vmState"} => l = "vm")
  <2>1. CASE l = "vm" /\ o[1] \in {"clientState", "vmState"} /\ o \in OpsOf(t)
    BY <2>1, Names
  <2>2. CASE l = "ur" /\ o = <<"notify", "()">> /\ o \in OpsOf(t)
    <3>1. n = "notify" /\ o[1] = "notify"
      BY <2>2 DEF Name
    <3> HIDE DEF n
    <3> QED BY <2>2, <3>1
  <2> HIDE DEF n
  <2> QED BY <2>1, <2>2 DEF Enclosed
<1>3. b.vm \in Nat /\ b.ur \in Nat /\ b.ahead \subseteq Label
  BY DEF Stage
<1>4. v \in Stage /\ u \in Stage /\ c \in Stage
  <2> HIDE DEF n
  <2> QED BY <1>1, <1>3 DEF Stage, With
<1>5. /\ v.vm = vm /\ v.ur = ur /\ v.ahead = {l} \cup b.ahead
      /\ u.vm = vm /\ u.ur = ur /\ u.ahead = {n} \cup ({l} \cup b.ahead)
      /\ c.vm = b.vm /\ c.ur = b.ur /\ c.ahead = {"lock", n, l} \cup b.ahead
  BY DEF With
<1>6. o # <<"lock", "vm">> /\ o # <<"unlock", "vm">> /\ o # <<"lock", "ur">> /\ o # <<"unlock", "ur">>
  <2>1. ASSUME NEW x \in {"lock", "unlock"}, NEW y, o = <<x, y>> PROVE FALSE
    <3>1. o[1] = x
      BY <2>1
    <3> HIDE DEF n, vm, ur, v, u, c, lo, ul
    <3> QED BY <1>2, <3>1
  <2> QED BY <2>1
<1>7. Held(b.vm, "vm", lo) = vm /\ Held(b.ur, "ur", lo) = ur
      /\ Held(vm, "vm", ul) = b.vm /\ Held(ur, "ur", ul) = b.ur
      /\ Held(vm, "vm", o) = vm /\ Held(ur, "ur", o) = ur
  BY <1>3, <1>6 DEF Held
<1>8. lo[1] = "lock" /\ ul[1] = "unlock" /\ lo \in OpsOf(t) /\ ul \in OpsOf(t)
  <2>1. lo \in {"lock", "unlock"} \X {"vm", "ur"} /\ ul \in {"lock", "unlock"} \X {"vm", "ur"}
    OBVIOUS
  <2> QED BY <2>1 DEF OpsOf, Shared
<1>9. Sheltered(v) /\ Sheltered(u) /\ Sheltered(c) /\ Sheltered(b)
  <2>1. n \notin {"detach", "close"} /\ l \notin {"detach", "close"}
    BY <1>2
  <2> HIDE DEF n, v, u, c
  <2> QED BY <1>3, <1>5, <2>1 DEF Fit, Sheltered
<1>10. \A x \in {"lock", l} : Ordered(t, x, v) /\ Ordered(t, x, u) /\ Ordered(t, x, b)
  <2> HIDE DEF n, v, u, c
  <2> QED BY <1>2, <1>5, Zenon DEF Ordered, Fit, Counting, Marking, Taking, Sending
<1>11. Ordered(t, n, v)
  <2> HIDE DEF n, v, u, c
  <2>1. "setVisiting" \notin v.ahead /\ Counting \cap v.ahead = {} /\ Marking \cap v.ahead = {}
    BY <1>5, Zenon DEF Fit, Counting, Marking
  <2>2. n = "WAITING" => v.ahead \cap Reporting = {}
    BY <1>5 DEF Allowed, Reporting, n
  <2>3. t = "EC" /\ n = "CONNECTED" => "WAITING" \in v.ahead
    BY <1>5 DEF Allowed, n
  <2> QED BY <1>2, <2>1, <2>2, <2>3 DEF Ordered, Taking, Sending
<1> HIDE DEF n, v, u, c, vm, ur, lo, ul
<1>12. Link(t, v, ul, b)
  <2>1. Balanced(t, v, ul, b)
    BY <1>3, <1>5, <1>7, <1>8, <1>9 DEF Balanced, Fit, ul, ur
  <2> QED BY <1>1, <1>5, <1>8, <1>10, <2>1 DEF Link
<1>13. Link(t, u, o, v)
  <2>1. Balanced(t, u, o, v)
    <3>1. u.vm = vm /\ u.ur = ur /\ v.vm = vm /\ v.ur = ur
      BY <1>5
    <3>2. o[1] \in {"clientState", "vmState"} => u.vm > 0
      BY <1>2, <1>3, <3>1 DEF vm
    <3>3. t # "UR" /\ u.ur > 0 => o = <<"notify", "()">>
      <4>1. t # "UR" /\ l # "ur" => ~(u.ur > 0)
        BY <3>1 DEF ur, Fit
      <4> QED BY <1>2, <4>1
    <3>4. o[1] \notin {"while", "wait"}
      BY <1>2
    <3> QED BY <1>7, <1>9, <3>1, <3>2, <3>3, <3>4 DEF Balanced
  <2> QED BY <1>2, <1>5, <1>11, <2>1 DEF Link, n
<1>14. Link(t, c, lo, u)
  <2>1. Balanced(t, c, lo, u)
    <3>1. c.vm = b.vm /\ c.ur = b.ur /\ u.vm = vm /\ u.ur = ur
      BY <1>5
    <3>2. t # "UR" => ~(c.ur > 0)
      BY <3>1 DEF Fit
    <3>3. lo[1] \notin {"clientState", "vmState", "while", "wait"}
      BY <1>8
    <3> QED BY <1>7, <1>9, <3>1, <3>2, <3>3 DEF Balanced
  <2>2. c.ahead = {"lock"} \cup u.ahead
    BY <1>5
  <2> QED BY <1>1, <1>8, <1>10, <2>1, <2>2 DEF Link
<1> DEFINE s1 == <<ul>> \o r
           s2 == <<o>> \o s1
           s3 == <<lo>> \o s2
<1>15. s1 \in Seq(Operation) /\ Leads(t, s1, v)
  BY <1>1, <1>4, <1>12, InFront
<1> HIDE DEF s1
<1>16. s2 \in Seq(Operation) /\ Leads(t, s2, u)
  BY <1>4, <1>13, <1>15, InFront
<1> HIDE DEF s2
<1>17. s3 \in Seq(Operation) /\ s3 # <<>> /\ Leads(t, s3, c)
  BY <1>1, <1>4, <1>14, <1>16, InFront
<1>18. Synchronized(l, <<o>>) \o r = s3
  <2>1. <<lo>> \in Seq(Operation) /\ <<o>> \in Seq(Operation) /\ <<ul>> \in Seq(Operation)
    BY <1>1
  <2>2. Synchronized(l, <<o>>) = (<<lo>> \o <<o>>) \o <<ul>>
    BY DEF Synchronized, lo, ul
  <2>3. ((<<lo>> \o <<o>>) \o <<ul>>) \o r = <<lo>> \o (<<o>> \o (<<ul>> \o r))
    <3>1. <<lo>> \o <<o>> \in Seq(Operation)
      BY <2>1, ConcatProperties
    <3>2. ((<<lo>> \o <<o>>) \o <<ul>>) \o r = (<<lo>> \o <<o>>) \o (<<ul>> \o r)
      BY <2>1, <3>1, Regroup
    <3>3. <<ul>> \o r \in Seq(Operation)
      BY <2>1, ConcatProperties
    <3>4. (<<lo>> \o <<o>>) \o (<<ul>> \o r) = <<lo>> \o (<<o>> \o (<<ul>> \o r))
      BY <2>1, <3>3, Regroup
    <3> QED BY <3>2, <3>4
  <2> QED BY <2>2, <2>3 DEF s1, s2
<1> QED BY <1>4, <1>17, <1>18 DEF c, n

LEMMA SharedOps ==
    ASSUME NEW t
    PROVE  /\ <<"clientState", "DISCONNECTED">> \in OpsOf(t)
           /\ \A s \in {"RUNNING", "WAITING_TO_BE_REVERTED"} : <<"vmState", s>> \in OpsOf(t)
           /\ \A n \in {"detach", "ifGroup", "useGroup", "close", "ifConnected", "notify", "update",
                        "readCount", "writeCount", "notifyObservers", "retry", "send", "write"} :
                 <<n, "()">> \in OpsOf(t)
<1>1. <<"clientState", "DISCONNECTED">> \in {"clientState"} \X {"DISCONNECTED"}
  OBVIOUS
<1>2. \A s \in {"RUNNING", "WAITING_TO_BE_REVERTED"} :
          <<"vmState", s>> \in {"vmState"} \X {"RUNNING", "WAITING_TO_BE_REVERTED"}
  OBVIOUS
<1>3. \A names : \A n \in names : <<n, "()">> \in Plain(names)
  BY DEF Plain
<1> QED BY <1>1, <1>2, <1>3 DEF OpsOf, Shared

LEMMA FitWith ==
    ASSUME NEW t, NEW b \in Stage, Fit(t, b), NEW m \in SUBSET Label,
           m \cap Marking = {}, "setVisiting" \notin m,
           m \cap {"detach", "close"} # {} => b.vm > 0
    PROVE  Fit(t, With(m, b)) /\ Sheltered(With(m, b))
<1>1. /\ With(m, b).vm = b.vm /\ With(m, b).ur = b.ur /\ With(m, b).ahead = m \cup b.ahead
      /\ b.vm \in Nat /\ b.ur \in Nat
  BY WithStage DEF Stage
<1> DEFINE c == With(m, b)
<1> HIDE DEF c
<1>2. c.vm = b.vm /\ c.ur = b.ur /\ c.ahead = m \cup b.ahead
  BY <1>1 DEF c
<1>3. Sheltered(c)
  BY <1>1, <1>2 DEF Fit, Sheltered
<1>4. Fit(t, c)
  BY <1>2, <1>3 DEF Fit
<1> QED BY <1>3, <1>4 DEF c

(* setClientState and setState.                                             *)
LEMMA CallState ==
    ASSUME NEW t, NEW r \in Seq(Operation), NEW b \in Stage, Leads(t, r, b), Fit(t, b),
           NEW s \in CLIENT_STATE, <<"clientState", s>> \in OpsOf(t), Allowed(t, s, b)
    PROVE  /\ SetClientState(s) \o r \in Seq(Operation) /\ SetClientState(s) \o r # <<>>
           /\ With({"lock", s, "vm"}, b) \in Stage
           /\ Leads(t, SetClientState(s) \o r, With({"lock", s, "vm"}, b))
<1> DEFINE o == <<"clientState", s>>
<1>1. o \in Operation /\ Name(o) = s /\ "vm" \in {"vm", "ur"}
  BY Labels
<1>2. Enclosed(t, "vm", o)
  BY DEF Enclosed
<1> HIDE DEF o
<1>3. LET w == Synchronized("vm", <<o>>) \o r
          c == With({"lock", Name(o), "vm"}, b)
      IN  w \in Seq(Operation) /\ w # <<>> /\ c \in Stage /\ Leads(t, w, c)
  BY <1>1, <1>2, Entered
<1> QED BY <1>1, <1>3 DEF SetClientState, o

LEMMA CallVm ==
    ASSUME NEW t, NEW r \in Seq(Operation), NEW b \in Stage, Leads(t, r, b), Fit(t, b),
           NEW s \in {"RUNNING", "WAITING_TO_BE_REVERTED"}
    PROVE  /\ SetVmState(s) \o r \in Seq(Operation) /\ SetVmState(s) \o r # <<>>
           /\ With({"lock", s, "vm"}, b) \in Stage
           /\ Leads(t, SetVmState(s) \o r, With({"lock", s, "vm"}, b))
<1> DEFINE o == <<"vmState", s>>
<1>1. o \in Operation /\ Name(o) = s /\ "vm" \in {"vm", "ur"}
  BY Labels
<1>2. Enclosed(t, "vm", o)
  BY SharedOps DEF Enclosed
<1>3. Allowed(t, s, b)
  BY DEF Allowed
<1> HIDE DEF o
<1>4. LET w == Synchronized("vm", <<o>>) \o r
          c == With({"lock", Name(o), "vm"}, b)
      IN  w \in Seq(Operation) /\ w # <<>> /\ c \in Stage /\ Leads(t, w, c)
  BY <1>1, <1>2, <1>3, Entered
<1> QED BY <1>1, <1>4 DEF SetVmState, o

LEMMA CallNotify ==
    ASSUME NEW t, NEW r \in Seq(Operation), NEW b \in Stage, Leads(t, r, b), Fit(t, b)
    PROVE  /\ NotifyRetriever \o r \in Seq(Operation) /\ NotifyRetriever \o r # <<>>
           /\ With({"lock", "notify", "ur"}, b) \in Stage
           /\ Leads(t, NotifyRetriever \o r, With({"lock", "notify", "ur"}, b))
<1> DEFINE o == <<"notify", "()">>
<1>1. o \in Operation /\ Name(o) = "notify" /\ "ur" \in {"vm", "ur"}
  <2>1. "notify" \in Simple
    BY DEF Simple
  <2> QED BY <2>1, Labels
<1>2. Enclosed(t, "ur", o)
  BY SharedOps DEF Enclosed
<1>3. Allowed(t, "notify", b)
  BY DEF Allowed
<1> HIDE DEF o
<1>4. LET w == Synchronized("ur", <<o>>) \o r
          c == With({"lock", Name(o), "ur"}, b)
      IN  w \in Seq(Operation) /\ w # <<>> /\ c \in Stage /\ Leads(t, w, c)
  BY <1>1, <1>2, <1>3, Entered
<1> QED BY <1>1, <1>4 DEF NotifyRetriever, Do, o

(* An operation on nothing in particular.                                   *)
LEMMA CallPlain ==
    ASSUME NEW t, NEW r \in Seq(Operation), NEW b \in Stage, Leads(t, r, b), Fit(t, b),
           NEW n \in {"detach", "close", "ifGroup", "useGroup", "ifConnected", "update"},
           n \in {"detach", "close"} => b.vm > 0, n = "close" => "ifGroup" \in b.ahead
    PROVE  /\ Do(n) \o r \in Seq(Operation) /\ Do(n) \o r # <<>>
           /\ With({n}, b) \in Stage /\ Fit(t, With({n}, b)) /\ Leads(t, Do(n) \o r, With({n}, b))
<1>1. n \in Simple /\ <<n, "()">> \in OpsOf(t) /\ n \in Label
  BY SharedOps, Labels DEF Simple
<1>2. Ordered(t, n, b)
  BY DEF Ordered, Fit, Counting, Marking, Taking, Sending
<1>3. Fit(t, With({n}, b)) /\ Sheltered(With({n}, b))
  <2>1. {n} \in SUBSET Label /\ {n} \cap Marking = {} /\ "setVisiting" \notin {n}
    BY <1>1 DEF Marking
  <2> QED BY <2>1, FitWith
<1>4. Sheltered(b) /\ (t # "UR" => b.ur = 0) /\ n \notin {"while", "wait"}
  BY DEF Fit
<1> QED BY <1>1, <1>2, <1>3, <1>4, Pushed

(* Client.disconnect(), inside the VM's monitor.                            *)
Leaving == {"detach", "ifGroup", "close", "ifConnected", "lock", "notify", "ur", "update"}

LEMMA CallDisconnect ==
    ASSUME NEW t, NEW r \in Seq(Operation), NEW b \in Stage, Leads(t, r, b), Fit(t, b), b.vm > 0
    PROVE  LET s == ((Disconnect \o NotifyRetriever) \o Do("update")) \o r
           IN  s \in Seq(Operation) /\ s # <<>>
               /\ With(Leaving, b) \in Stage /\ Leads(t, s, With(Leaving, b))
<1>1. /\ Do("update") \o r \in Seq(Operation) /\ With({"update"}, b) \in Stage /\ Fit(t, With({"update"}, b))
      /\ Leads(t, Do("update") \o r, With({"update"}, b))
  BY CallPlain
<1>2. PICK r1, b1 : r1 = Do("update") \o r /\ b1 = With({"update"}, b)
  OBVIOUS
<1>3. r1 \in Seq(Operation) /\ b1 \in Stage /\ Fit(t, b1) /\ Leads(t, r1, b1)
  BY <1>1, <1>2
<1>4. /\ NotifyRetriever \o r1 \in Seq(Operation)
      /\ With({"lock", "notify", "ur"}, b1) \in Stage
      /\ Leads(t, NotifyRetriever \o r1, With({"lock", "notify", "ur"}, b1))
  BY <1>3, CallNotify
<1>5. PICK r2, b2 : r2 = NotifyRetriever \o r1 /\ b2 = With({"lock", "notify", "ur", "update"}, b)
  OBVIOUS
<1>6. b2 = With({"lock", "notify", "ur"}, b1)
  <2>1. With({"lock", "notify", "ur"}, With({"update"}, b)) = With({"lock", "notify", "ur"} \cup {"update"}, b)
    BY Joined
  <2>2. {"lock", "notify", "ur"} \cup {"update"} = {"lock", "notify", "ur", "update"}
    OBVIOUS
  <2> QED BY <1>2, <1>5, <2>1, <2>2
<1>7. r2 \in Seq(Operation) /\ b2 \in Stage /\ Leads(t, r2, b2)
  BY <1>4, <1>5, <1>6
<1>8. b2.vm = b.vm /\ b.vm \in Nat /\ b2.ahead = {"lock", "notify", "ur", "update"} \cup b.ahead /\ Fit(t, b2)
  <2>1. {"lock", "notify", "ur", "update"} \in SUBSET Label
    BY Labels DEF Simple
  <2>2. /\ With({"lock", "notify", "ur", "update"}, b).vm = b.vm
        /\ With({"lock", "notify", "ur", "update"}, b).ahead = {"lock", "notify", "ur", "update"} \cup b.ahead
    BY <2>1, WithStage
  <2>3. Fit(t, With({"lock", "notify", "ur", "update"}, b))
    BY <2>1, FitWith DEF Marking
  <2> QED BY <1>5, <2>2, <2>3 DEF Stage
<1>9. PICK r3, b3 : r3 = Do("ifConnected") \o r2 /\ b3 = With({"ifConnected"}, b2)
  OBVIOUS
<1>10. r3 \in Seq(Operation) /\ b3 \in Stage /\ Fit(t, b3) /\ Leads(t, r3, b3)
  BY <1>7, <1>8, <1>9, CallPlain
<1>11. PICK r4, b4 : r4 = Do("ifGroup") \o r3 /\ b4 = With({"ifGroup"}, b3)
  OBVIOUS
<1>12. r4 \in Seq(Operation) /\ b4 \in Stage /\ Fit(t, b4) /\ Leads(t, r4, b4)
  BY <1>10, <1>11, CallPlain
<1>13. b4.vm > 0 /\ "ifGroup" \in b4.ahead /\ b4.ahead = {"ifConnected", "ifGroup"} \cup b2.ahead
  BY <1>7, <1>8, <1>9, <1>11 DEF With, Stage
<1>14. PICK r5, b5 : r5 = Do("close") \o r4 /\ b5 = With({"close"}, b4)
  OBVIOUS
<1>15. r5 \in Seq(Operation) /\ b5 \in Stage /\ Fit(t, b5) /\ Leads(t, r5, b5)
  BY <1>12, <1>13, <1>14, CallPlain
<1>16. PICK r6, b6 : r6 = Do("ifGroup") \o r5 /\ b6 = With({"ifGroup"}, b5)
  OBVIOUS
<1>17. r6 \in Seq(Operation) /\ b6 \in Stage /\ Fit(t, b6) /\ Leads(t, r6, b6)
  BY <1>15, <1>16, CallPlain
<1>18. b6.vm > 0
  BY <1>13, <1>14, <1>16 DEF With
<1>19. PICK r7, b7 : r7 = Do("detach") \o r6 /\ b7 = With({"detach"}, b6)
  OBVIOUS
<1>20. r7 \in Seq(Operation) /\ r7 # <<>> /\ b7 \in Stage /\ Leads(t, r7, b7)
  BY <1>17, <1>18, <1>19, CallPlain
<1>21. b7 = With(Leaving, b)
  <2>1. /\ b7 = [vm |-> b7.vm, ur |-> b7.ur, ahead |-> b7.ahead]
        /\ b7.vm = b.vm /\ b7.ur = b.ur
    BY <1>5, <1>9, <1>11, <1>14, <1>16, <1>19 DEF With
  <2>2. b7.ahead = Leaving \cup b.ahead
    <3>1. b7.ahead = {"detach"} \cup ({"ifGroup"} \cup ({"close"} \cup b4.ahead))
      BY <1>14, <1>16, <1>19 DEF With
    <3> QED BY <1>8, <1>13, <3>1 DEF Leaving
  <2> QED BY <2>1, <2>2 DEF With
<1>22. r7 = ((Disconnect \o NotifyRetriever) \o Do("update")) \o r
  <2>1. /\ \A n \in Simple : Do(n) \in Seq(Operation)
        /\ {"detach", "ifGroup", "close", "ifConnected", "update"} \subseteq Simple
    <3>1. \A n \in Simple : <<n, "()">> \in Operation
      BY Labels
    <3> QED BY <3>1 DEF Do, Simple
  <2>2. NotifyRetriever \in Seq(Operation)
    <3>1. <<"lock", "ur">> \in Operation /\ <<"unlock", "ur">> \in Operation /\ <<"notify", "()">> \in Operation
      BY Labels DEF Simple
    <3> QED BY <3>1 DEF NotifyRetriever, Synchronized, Do
  <2>3. PICK da, ig, cl, ic, nr, up :
            /\ da = Do("detach") /\ ig = Do("ifGroup") /\ cl = Do("close") /\ ic = Do("ifConnected")
            /\ nr = NotifyRetriever /\ up = Do("update")
    OBVIOUS
  <2>4. /\ da \in Seq(Operation) /\ ig \in Seq(Operation) /\ cl \in Seq(Operation) /\ ic \in Seq(Operation)
        /\ nr \in Seq(Operation) /\ up \in Seq(Operation)
    BY <2>1, <2>2, <2>3
  <2>5. Disconnect = (((da \o ig) \o cl) \o ig) \o ic
    BY <2>3, Zenon DEF Disconnect
  <2>6. /\ r1 = up \o r /\ r2 = nr \o r1 /\ r3 = ic \o r2 /\ r4 = ig \o r3 /\ r5 = cl \o r4
        /\ r6 = ig \o r5 /\ r7 = da \o r6
    BY <1>2, <1>5, <1>9, <1>11, <1>14, <1>16, <1>19, <2>3, Zenon
  <2>7. PICK a1 : a1 = da \o ig
    OBVIOUS
  <2>8. PICK a2 : a2 = a1 \o cl
    OBVIOUS
  <2>9. PICK a3 : a3 = a2 \o ig
    OBVIOUS
  <2>10. PICK a4 : a4 = a3 \o ic
    OBVIOUS
  <2>11. PICK a5 : a5 = a4 \o nr
    OBVIOUS
  <2>12. a1 \in Seq(Operation) /\ a2 \in Seq(Operation) /\ a3 \in Seq(Operation) /\ a4 \in Seq(Operation)
        /\ a5 \in Seq(Operation)
    BY <2>4, <2>7, <2>8, <2>9, <2>10, <2>11, ConcatProperties
  <2>13. (a5 \o up) \o r = a5 \o (up \o r)
    <3>1. a5 \in Seq(Operation) /\ up \in Seq(Operation) /\ r \in Seq(Operation)
      BY <2>4, <2>12
    <3> QED BY <3>1, Regroup
  <2>14. (a4 \o nr) \o r1 = a4 \o (nr \o r1)
    <3>1. a4 \in Seq(Operation) /\ nr \in Seq(Operation) /\ r1 \in Seq(Operation)
      BY <1>3, <2>4, <2>12
    <3> QED BY <3>1, Regroup
  <2>15. (a3 \o ic) \o r2 = a3 \o (ic \o r2)
    <3>1. a3 \in Seq(Operation) /\ ic \in Seq(Operation) /\ r2 \in Seq(Operation)
      BY <1>7, <2>4, <2>12
    <3> QED BY <3>1, Regroup
  <2>16. (a2 \o ig) \o r3 = a2 \o (ig \o r3)
    <3>1. a2 \in Seq(Operation) /\ ig \in Seq(Operation) /\ r3 \in Seq(Operation)
      BY <1>10, <2>4, <2>12
    <3> QED BY <3>1, Regroup
  <2>17. (a1 \o cl) \o r4 = a1 \o (cl \o r4)
    <3>1. a1 \in Seq(Operation) /\ cl \in Seq(Operation) /\ r4 \in Seq(Operation)
      BY <1>12, <2>4, <2>12
    <3> QED BY <3>1, Regroup
  <2>18. (da \o ig) \o r5 = da \o (ig \o r5)
    <3>1. da \in Seq(Operation) /\ ig \in Seq(Operation) /\ r5 \in Seq(Operation)
      BY <1>15, <2>4, <2>12
    <3> QED BY <3>1, Regroup
  <2>19. Disconnect = a4
    BY <2>5, <2>7, <2>8, <2>9, <2>10, Zenon
  <2>20. r7 = (a5 \o up) \o r
    <3>1. r7 = a1 \o r5
      BY <2>6, <2>7, <2>18, Zenon
    <3>2. r7 = a2 \o r4
      BY <2>6, <2>8, <2>17, <3>1, Zenon
    <3>3. r7 = a3 \o r3
      BY <2>6, <2>9, <2>16, <3>2, Zenon
    <3>4. r7 = a4 \o r2
      BY <2>6, <2>10, <2>15, <3>3, Zenon
    <3>5. r7 = a5 \o r1
      BY <2>6, <2>11, <2>14, <3>4, Zenon
    <3> QED BY <2>6, <2>13, <3>5, Zenon
  <2>21. (Disconnect \o NotifyRetriever) \o Do("update") = a5 \o up
    BY <2>3, <2>11, <2>19, Zenon
  <2> QED BY <2>20, <2>21, Zenon
<1> QED BY <1>20, <1>21, <1>22

(* UrlGroup.setUrlGroupState(ERROR).                                        *)
Failing == {"readCount", "writeCount", "notifyObservers"}

LEMMA CallMark ==
    ASSUME NEW t, NEW r \in Seq(Operation), NEW b \in Stage, Leads(t, r, b), Fit(t, b)
    PROVE  /\ MarkError \o r \in Seq(Operation) /\ MarkError \o r # <<>>
           /\ With(Failing, b) \in Stage /\ Leads(t, MarkError \o r, With(Failing, b))
<1> DEFINE no == "notifyObservers"
           wc == "writeCount"
           rc == "readCount"
<1>1. /\ \A n \in {no, wc, rc} : n \in Simple /\ <<n, "()">> \in OpsOf(t) /\ n \in Label
      /\ Sheltered(b) /\ (t # "UR" => b.ur = 0)
  BY SharedOps, Labels DEF Simple, Fit
<1>2. \A n \in {no, wc, rc}, c \in Stage :
          Sheltered(c) => With({n}, c) \in Stage /\ Sheltered(With({n}, c))
                          /\ With({n}, c).ahead = {n} \cup c.ahead /\ With({n}, c).ur = c.ur
  BY <1>1, WithStage DEF Sheltered
<1>3. PICK r1, b1 : r1 = Do(no) \o r /\ b1 = With({no}, b)
  OBVIOUS
<1>4. b1 \in Stage /\ Sheltered(b1) /\ b1.ahead = {no} \cup b.ahead /\ b1.ur = b.ur
  BY <1>1, <1>2, <1>3
<1>5. r1 \in Seq(Operation) /\ Leads(t, r1, b1)
  <2>1. Ordered(t, no, b)
    BY DEF Ordered, Fit, Counting, Marking, Taking, Sending
  <2> QED BY <1>1, <1>3, <1>4, <2>1, Pushed
<1>6. PICK r2, b2 : r2 = Do(wc) \o r1 /\ b2 = With({wc}, b1)
  OBVIOUS
<1>7. b2 \in Stage /\ Sheltered(b2) /\ b2.ahead = {wc} \cup b1.ahead /\ b2.ur = b.ur
  BY <1>1, <1>2, <1>4, <1>6
<1>8. r2 \in Seq(Operation) /\ Leads(t, r2, b2)
  <2>1. Ordered(t, wc, b1)
    BY <1>4 DEF Ordered, Fit, Counting, Marking, Taking, Sending
  <2> QED BY <1>1, <1>4, <1>5, <1>6, <1>7, <2>1, Pushed
<1>9. PICK r3, b3 : r3 = Do(rc) \o r2 /\ b3 = With({rc}, b2)
  OBVIOUS
<1>10. b3 \in Stage /\ Sheltered(b3)
  BY <1>1, <1>2, <1>7, <1>9
<1>11. r3 \in Seq(Operation) /\ r3 # <<>> /\ Leads(t, r3, b3)
  <2>1. Ordered(t, rc, b2)
    BY <1>4, <1>7 DEF Ordered, Fit, Counting, Marking, Taking, Sending
  <2> QED BY <1>1, <1>7, <1>8, <1>9, <1>10, <2>1, Pushed
<1>12. b3 = With(Failing, b)
  <2>1. b3 = [vm |-> b3.vm, ur |-> b3.ur, ahead |-> b3.ahead] /\ b3.vm = b.vm /\ b3.ur = b.ur
    BY <1>3, <1>6, <1>9 DEF With
  <2>2. b3.ahead = Failing \cup b.ahead
    <3>1. b3.ahead = {rc} \cup b2.ahead
      BY <1>9 DEF With
    <3> QED BY <1>4, <1>7, <3>1 DEF Failing
  <2> QED BY <2>1, <2>2 DEF With
<1>13. r3 = MarkError \o r
  <2>1. PICK x, y, z : x = Do(rc) /\ y = Do(wc) /\ z = Do(no)
    OBVIOUS
  <2>2. x \in Seq(Operation) /\ y \in Seq(Operation) /\ z \in Seq(Operation)
    BY <1>1, <2>1, Labels DEF Do
  <2>3. PICK a1 : a1 = x \o y
    OBVIOUS
  <2>4. PICK a2 : a2 = a1 \o z
    OBVIOUS
  <2>5. a1 \in Seq(Operation) /\ MarkError = a2
    BY <2>1, <2>2, <2>3, <2>4, ConcatProperties DEF MarkError
  <2>6. r1 = z \o r /\ r2 = y \o r1 /\ r3 = x \o r2
    BY <1>3, <1>6, <1>9, <2>1, Zenon
  <2>7. Rejoined(x, y, z, r)
    BY <2>2, RegroupAll
  <2> QED BY <2>3, <2>4, <2>5, <2>6, <2>7, Zenon DEF Rejoined
<1> QED BY <1>10, <1>11, <1>12, <1>13

-----------------------------------------------------------------------------
(* What a step has to respect for the parts of the invariant to survive it: *)
(* thread t goes from stage q[t] to stage c, and r are the stages after it. *)

LEMMA Threads ==
    /\ "EC" \in Thread /\ "UR" \in Thread /\ "none" \notin Thread
    /\ Calm => Thread = {"EC", "UR"}
BY ClientThreadsAssumption DEF Thread, Calm

LEMMA Stages ==
    ASSUME NEW q \in [Thread -> Stage], NEW t \in Thread, NEW c \in Stage, NEW r, r = [q EXCEPT ![t] = c]
    PROVE  /\ r \in [Thread -> Stage] /\ r[t] = c /\ q[t] \in Stage
           /\ \A s \in Thread : s # t => r[s] = q[s]
OBVIOUS

(* The operation at the head of a thread's word.                            *)
LEMMA Popped ==
    ASSUME NEW q \in [Thread -> Stage], Reached(q), NEW t \in Thread, NEW op, At(t, op)
    PROVE  /\ Head(todo[t]) \in Operation /\ Head(todo[t])[1] = op /\ Tail(todo[t]) \in Seq(Operation)
           /\ \E b \in Stage : Link(t, q[t], Head(todo[t]), b) /\ Leads(t, Tail(todo[t]), b)
<1>1. todo[t] \in Seq(Operation) /\ todo[t] # <<>> /\ Head(todo[t])[1] = op
  BY DEF Reached, At
<1>2. Leads(t, todo[t], q[t])
  <2>1. Leads(t, Word(t, todo[t], waiting), q[t])
    BY DEF Reached
  <2>2. Word(t, todo[t], waiting) = todo[t]
    BY DEF Word, At
  <2> QED BY <2>1, <2>2
<1>3. PICK s, a : s = todo[t] /\ a = q[t]
  OBVIOUS
<1>4. /\ Head(s) \in Operation /\ Tail(s) \in Seq(Operation)
      /\ \E b \in Stage : Link(t, a, Head(s), b) /\ Leads(t, Tail(s), b)
  BY <1>1, <1>2, <1>3, Behind
<1> QED BY <1>1, <1>3, <1>4

(* A thread outside every call.                                             *)
LEMMA AtRest ==
    ASSUME NEW q \in [Thread -> Stage], Reached(q), NEW t \in Thread, todo[t] = <<>>, t # "UR"
    PROVE  q[t] = End
<1>1. Leads(t, Word(t, todo[t], waiting), q[t])
  BY DEF Reached
<1>2. Word(t, todo[t], waiting) = <<>>
  BY DEF Word
<1>3. PICK s, a : s = todo[t] /\ a = q[t]
  OBVIOUS
<1> QED BY <1>1, <1>2, WordIsEmpty

(* A thread that goes on with the word w.                                   *)
LEMMA Advanced ==
    ASSUME NEW q \in [Thread -> Stage], Reached(q), NEW t \in Thread, NEW c \in Stage,
           NEW r, r = [q EXCEPT ![t] = c], NEW w \in Seq(Operation), Leads(t, w, c),
           todo' = [todo EXCEPT ![t] = w], waiting' = waiting, ~(t = "UR" /\ waiting)
    PROVE  Reached(r)'
<1>1. todo' = [s \in Thread |-> todo'[s]] /\ todo'[t] = w /\ \A s \in Thread : s # t => todo'[s] = todo[s]
  <2>1. todo = [s \in Thread |-> todo[s]]
    BY DEF Reached
  <2>2. DOMAIN todo = Thread
    BY <2>1
  <2> QED BY <2>1, <2>2
<1>2. \A s \in Thread : todo'[s] \in Seq(Operation)
  BY <1>1 DEF Reached
<1>3. ASSUME NEW s \in Thread PROVE Leads(s, Word(s, todo'[s], waiting'), r[s])
  <2>1. CASE s = t
    <3>1. Word(s, todo'[s], waiting') = w
      BY <1>1, <2>1 DEF Word
    <3>2. r[s] = c
      BY <2>1
    <3> QED BY <2>1, <3>1, <3>2
  <2>2. CASE s # t
    <3>1. todo'[s] = todo[s] /\ r[s] = q[s]
      BY <1>1, <2>2
    <3>2. Leads(s, Word(s, todo[s], waiting), q[s])
      BY DEF Reached
    <3> QED BY <3>1, <3>2
  <2> QED BY <2>1, <2>2
<1> QED BY <1>1, <1>2, <1>3 DEF Reached

LEMMA OwnedKept ==
    ASSUME NEW q \in [Thread -> Stage], Owned(q), NEW t \in Thread, NEW c \in Stage,
           NEW r, r = [q EXCEPT ![t] = c], c.vm = q[t].vm, c.ur = q[t].ur, lock' = lock
    PROVE  Owned(r)'
<1>1. \A s \in Thread : r[s].vm = q[s].vm /\ r[s].ur = q[s].ur
  BY Stages
<1> QED BY <1>1 DEF Owned

LEMMA ThrownKept ==
    ASSUME NEW q \in [Thread -> Stage], Reached(q), Thrown(q), NEW t \in Thread, NEW r, NEW w,
           thrown' = thrown, waiting' = waiting, todo' = [todo EXCEPT ![t] = w],
           t \notin thrown \/ t = "CK", Shape
    PROVE  Thrown(r)'
<1>1. \A s \in Thread : s # t => todo'[s] = todo[s]
  <2>1. DOMAIN todo = Thread
    BY DEF Reached
  <2> QED BY <2>1
<1> QED BY <1>1 DEF Thrown, Shape

LEMMA Active ==
    ASSUME NEW q, Thrown(q), NEW t, NEW op, At(t, op)
    PROVE  t \notin thrown \/ t = "CK"
BY DEF Thrown, At

LEMMA CompleteKept ==
    ASSUME NEW q \in [Thread -> Stage], Complete(q), NEW t \in Thread, NEW c \in Stage,
           NEW r, r = [q EXCEPT ![t] = c],
           thrown \subseteq thrown', clientState' = "DISCONNECTED" => clientState = "DISCONNECTED",
           attached' => attached, socket' = "open" => socket = "open",
           q[t].ahead \cap {"detach", "close"} \subseteq c.ahead
    PROVE  Complete(r)'
<1>1. \A s \in Thread, n \in {"detach", "close"} : n \in q[s].ahead => n \in r[s].ahead
  BY Stages
<1> QED BY <1>1 DEF Complete

(* The places at which somebody will mark the group in error.               *)
StillMarks(t, a, c) ==
    /\ a.ahead \cap Looking # {} => c.ahead \cap Looking # {}
    /\ a.ahead \cap Counting # {} => c.ahead \cap Counting # {}
LEMMA GivenUpKept ==
    ASSUME NEW q \in [Thread -> Stage], GivenUp(q), NEW t \in Thread, NEW c \in Stage,
           NEW r, r = [q EXCEPT ![t] = c],
           thrown \subseteq thrown', socket' = "closed" => socket = "closed", visiting' \in {NoGroup, visiting},
           visiting # NoGroup /\ group[visiting].errorCount > 0 => group'[visiting].errorCount > 0,
           StillMarks(t, q[t], c),
           \A s \in Thread : s # t \/ q[t].ahead \cap Counting # {} => local'[s].group = local[s].group,
           WillFail(q["UR"]) => WillFail(r["UR"])'
    PROVE  GivenUp(r)'
<1> SUFFICES ASSUME thrown' = {}, socket' = "closed", visiting' # NoGroup
             PROVE  group'[visiting'].errorCount > 0 \/ WillMark(r, visiting)'
  BY DEF GivenUp
<1>1. visiting' = visiting /\ visiting # NoGroup
  OBVIOUS
<1>2. CASE group[visiting].errorCount > 0
  BY <1>1, <1>2
<1>3. CASE WillMark(q, visiting)
  <2>1. CASE \E s \in Thread : q[s].ahead \cap Looking # {}
    <3>1. PICK s \in Thread : q[s].ahead \cap Looking # {}
      BY <2>1
    <3>2. r[s].ahead \cap Looking # {}
      BY <3>1, Stages DEF StillMarks
    <3> QED BY <3>2 DEF WillMark
  <2>2. CASE \E s \in Thread : q[s].ahead \cap Counting # {} /\ local[s].group = visiting
    <3>1. PICK s \in Thread : q[s].ahead \cap Counting # {} /\ local[s].group = visiting
      BY <2>2
    <3>2. r[s].ahead \cap Counting # {}
      BY <3>1, Stages DEF StillMarks
    <3>3. local'[s].group = visiting'
      BY <1>1, <3>1
    <3> QED BY <3>2, <3>3 DEF WillMark
  <2>3. CASE WillFail(q["UR"])
    BY <2>3 DEF WillMark
  <2> QED BY <1>3, <2>1, <2>2, <2>3 DEF WillMark
<1> QED BY <1>1, <1>2, <1>3 DEF GivenUp

(* Nothing new for the retriever or for a thread that marks a group.        *)
NothingNew(t, a, c) ==
    /\ c.ahead \cap Marking # {} => a.ahead \cap Marking # {}
    /\ t = "UR" => a.ahead \cap (Taking \cup {"sent"}) = c.ahead \cap (Taking \cup {"sent"})
LEMMA InHandKept ==
    ASSUME NEW q \in [Thread -> Stage], InHand(q), NEW t \in Thread, NEW c \in Stage,
           NEW r, r = [q EXCEPT ![t] = c], NothingNew(t, q[t], c), visiting' = visiting,
           \A s \in Thread : local'[s].group = local[s].group,
           local'["UR"].sent = local["UR"].sent
    PROVE  InHand(r)'
<1>1. \A s \in Thread : r[s].ahead \cap Marking # {} => q[s].ahead \cap Marking # {}
  BY Stages DEF NothingNew
<1>2. r["UR"].ahead \cap (Taking \cup {"sent"}) = q["UR"].ahead \cap (Taking \cup {"sent"})
  BY Stages, Threads DEF NothingNew
<1>3. \A s \in Thread : r[s].ahead \cap Marking # {} => local'[s].group \in Group
  BY <1>1 DEF InHand
<1>4. \A n \in {"setVisiting", "send", "write", "sent"} : n \in r["UR"].ahead <=> n \in q["UR"].ahead
  BY <1>2 DEF Taking
<1>5. r["UR"].ahead \cap Sending # {} => q["UR"].ahead \cap Sending # {}
  BY <1>4 DEF Sending
<1>6. local'["UR"].group = local["UR"].group
  BY Threads
<1> QED BY <1>3, <1>4, <1>5, <1>6 DEF InHand

(* The retriever is not nearer to a group than before.                      *)
LEMMA ReportedKept ==
    ASSUME NEW q \in [Thread -> Stage], Reported(q), NEW t \in Thread, NEW c \in Stage,
           NEW r, r = [q EXCEPT ![t] = c],
           remote' = remote, visiting # NoGroup => visiting' # NoGroup,
           t = "EC" => c.ahead \cap Reporting \subseteq q[t].ahead,
           (Unsent(r["UR"]) \/ MayTake(r["UR"]))' => Unsent(q["UR"]) \/ MayTake(q["UR"])
    PROVE  Reported(r)'
<1>1. \A n \in Reporting : n \in r["EC"].ahead => n \in q["EC"].ahead
  BY Stages, Threads
<1>2. remote' # "none" \/ r["EC"].ahead \cap {"started", "finished"} # {} => visiting' # NoGroup
  BY <1>1 DEF Reported, Reporting
<1>3. r["EC"].ahead \cap {"finished", "noGroup", "WAITING"} # {} => remote' = "none"
  BY <1>1 DEF Reported, Reporting
<1>4. NoReport(q) => NoReport(r)'
  BY <1>1 DEF NoReport
<1> QED BY <1>2, <1>3, <1>4 DEF Reported

LEMMA UndisturbedKept ==
    ASSUME NEW q \in [Thread -> Stage], Undisturbed(q), NEW t \in Thread, NEW c \in Stage,
           NEW r, r = [q EXCEPT ![t] = c], socket' = socket,
           t = "UR" => c.ahead \subseteq Gentle,
           t = "EC" => /\ "WAITING" \in c.ahead => "WAITING" \in q[t].ahead
                       /\ c.ahead \cap Ending # {} => q[t].ahead \cap Ending # {},
           (Unsent(r["UR"]) \/ MayTake(r["UR"]))' => Unsent(q["UR"]) \/ MayTake(q["UR"])
    PROVE  Undisturbed(r)'
<1>1. r["UR"].ahead \subseteq Gentle
  BY Stages, Threads DEF Undisturbed
<1>2. "WAITING" \in r["EC"].ahead => "WAITING" \in q["EC"].ahead
  BY Stages, Threads
<1>3. r["EC"].ahead \cap Ending # {} => q["EC"].ahead \cap Ending # {}
  BY Stages, Threads
<1>4. Steady(q) => Steady(r)'
  BY <1>3 DEF Steady
<1> QED BY <1>1, <1>2, <1>4 DEF Undisturbed

(* Steps that change neither the client, nor its groups, nor what is known  *)
(* of the remote client: the operations that matter stay ahead.             *)
Key == {"setVisiting", "sent"} \cup Marking \cup Sending \cup Reporting

LEMMA Unaltered ==
    ASSUME NEW q \in [Thread -> Stage], GivenUp(q), InHand(q), Reported(q), Calm => Undisturbed(q),
           NEW t \in Thread, NEW c \in Stage, NEW r, r = [q EXCEPT ![t] = c],
           UNCHANGED <<local, thrown, clientState, visiting, socket, group, remote>>,
           c.ahead \cap Key = q[t].ahead \cap Key,
           visiting # NoGroup /\ q[t].ahead \cap Looking # {} => c.ahead \cap Looking # {},
           c.ahead \cap Ending # {} => q[t].ahead \cap Ending # {},
           t = "UR" /\ q[t].ahead \subseteq Gentle => c.ahead \subseteq Gentle
    PROVE  GivenUp(r)' /\ InHand(r)' /\ Reported(r)' /\ (Calm => Undisturbed(r)')
<1>1. /\ local' = local /\ thrown' = thrown /\ clientState' = clientState /\ visiting' = visiting
      /\ socket' = socket /\ group' = group /\ remote' = remote
  OBVIOUS
<1>2. \A n \in Key : n \in c.ahead <=> n \in q[t].ahead
  OBVIOUS
<1>3. /\ c.ahead \cap Marking # {} => q[t].ahead \cap Marking # {}
      /\ q[t].ahead \cap Counting # {} => c.ahead \cap Counting # {}
      /\ c.ahead \cap Reporting \subseteq q[t].ahead
  BY <1>2 DEF Key, Marking, Counting, Reporting
<1>4. c.ahead \cap (Taking \cup {"sent"}) = q[t].ahead \cap (Taking \cup {"sent"})
  BY <1>2 DEF Key, Taking, Sending
<1>5. /\ \A n \in Taking \cup {"sent"} : n \in r["UR"].ahead <=> n \in q["UR"].ahead
      /\ r["UR"].ahead \cap (Taking \cup {"sent"}) = q["UR"].ahead \cap (Taking \cup {"sent"})
  BY <1>4, Stages, Threads
<1>6. (Unsent(r["UR"]) \/ MayTake(r["UR"]))' => Unsent(q["UR"]) \/ MayTake(q["UR"])
  <2>1. r["UR"].ahead \cap Taking # {} => q["UR"].ahead \cap Taking # {}
    BY <1>5
  <2>2. "sent" \in r["UR"].ahead <=> "sent" \in q["UR"].ahead
    BY <1>5
  <2> QED BY <1>1, <2>1, <2>2 DEF Unsent, MayTake
<1>7. GivenUp(r)'
  <2>1. CASE visiting = NoGroup
    BY <1>1, <2>1 DEF GivenUp
  <2>2. CASE visiting # NoGroup
    <3>1. StillMarks(t, q[t], c)
      BY <1>3, <2>2 DEF StillMarks
    <3>2. WillFail(q["UR"]) => WillFail(r["UR"])'
      <4>1. q["UR"].ahead \cap Sending # {} => r["UR"].ahead \cap Sending # {}
        BY <1>5 DEF Taking, Sending
      <4>2. "sent" \in r["UR"].ahead <=> "sent" \in q["UR"].ahead
        BY <1>5
      <4> QED BY <1>1, <4>1, <4>2 DEF WillFail
    <3> QED BY <1>1, <3>1, <3>2, GivenUpKept
  <2> QED BY <2>1, <2>2
<1>8. InHand(r)'
  <2>1. NothingNew(t, q[t], c)
    BY <1>3, <1>4 DEF NothingNew
  <2> QED BY <1>1, <2>1, InHandKept
<1>9. Reported(r)'
  BY <1>1, <1>3, <1>6, ReportedKept
<1>10. ASSUME Calm PROVE Undisturbed(r)'
  <2>1. Undisturbed(q)
    BY <1>10
  <2>2. t = "UR" => c.ahead \subseteq Gentle
    BY <2>1 DEF Undisturbed
  <2>3. "WAITING" \in c.ahead => "WAITING" \in q[t].ahead
    BY <1>2 DEF Key, Reporting
  <2> QED BY <1>1, <1>6, <2>1, <2>2, <2>3, UndisturbedKept
<1> QED BY <1>7, <1>8, <1>9, <1>10

(* The whole invariant after such a step of the calls thread t is in.       *)
LEMMA Harmless ==
    ASSUME NEW q \in [Thread -> Stage], Inv(q), NEW t \in Thread, NEW c \in Stage,
           NEW r, r = [q EXCEPT ![t] = c], Reached(r)', Owned(r)', Shape', Thrown(r)', Complete(r)',
           UNCHANGED <<local, thrown, clientState, visiting, socket, group, remote>>,
           c.ahead \cap Key = q[t].ahead \cap Key,
           visiting # NoGroup /\ q[t].ahead \cap Looking # {} => c.ahead \cap Looking # {},
           c.ahead \cap Ending # {} => q[t].ahead \cap Ending # {},
           t = "UR" /\ q[t].ahead \subseteq Gentle => c.ahead \subseteq Gentle
    PROVE  IInv'
<1>1. GivenUp(q) /\ InHand(q) /\ Reported(q) /\ (Calm => Undisturbed(q))
  BY DEF Inv
<1>2. GivenUp(r)' /\ InHand(r)' /\ Reported(r)' /\ (Calm => Undisturbed(r)')
  BY <1>1, Unaltered
<1>3. Inv(r)'
  BY <1>2 DEF Inv
<1> QED BY <1>3, Stages DEF IInv

-----------------------------------------------------------------------------
(* The stage that follows the operation at the head of a thread's word.     *)

After(t, op, a, b) ==
    /\ Leads(t, Tail(todo[t]), b) /\ Tail(todo[t]) \in Seq(Operation)
    /\ a.vm = b.vm /\ a.ur = b.ur /\ a.ahead = {op} \cup b.ahead
    /\ <<op, "()">> \in OpsOf(t) /\ Ordered(t, op, b) /\ Sheltered(a) /\ Sheltered(b)
    /\ op # "notify" /\ t # "UR" => b.ur = 0
    /\ op \in {"while", "wait"} => b.ur = 1
    /\ op \notin Marking /\ op # "notify" => Fit(t, b)
LEMMA AfterPlain ==
    ASSUME NEW q \in [Thread -> Stage], Reached(q), NEW t \in Thread, NEW op \in Simple, At(t, op)
    PROVE  \E b \in Stage : After(t, op, q[t], b)
<1> DEFINE o == Head(todo[t])
<1>1. o[1] = op /\ Tail(todo[t]) \in Seq(Operation)
  BY Popped
<1>2. PICK b \in Stage : Link(t, q[t], o, b) /\ Leads(t, Tail(todo[t]), b)
  BY Popped
<1> HIDE DEF o
<1>3. o \in OpsOf(t) /\ q[t].ahead = {Name(o)} \cup b.ahead /\ Balanced(t, q[t], o, b) /\ Ordered(t, Name(o), b)
  BY <1>2 DEF Link
<1>4. op \notin {"lock", "unlock", "clientState", "vmState"}
  BY DEF Simple
<1>5. o = <<op, "()">> /\ Name(o) = op
  BY <1>1, <1>3, <1>4, Names
<1>6. q[t].vm = b.vm /\ q[t].ur = b.ur
  <2>1. o # <<"lock", "vm">> /\ o # <<"unlock", "vm">> /\ o # <<"lock", "ur">> /\ o # <<"unlock", "ur">>
    BY <1>4, <1>5
  <2>2. Held(q[t].vm, "vm", o) = q[t].vm /\ Held(q[t].ur, "ur", o) = q[t].ur
    BY <2>1 DEF Held
  <2> QED BY <1>3, <2>2 DEF Balanced
<1>7. Sheltered(q[t]) /\ Sheltered(b) /\ (op \in {"while", "wait"} => b.ur = 1)
  BY <1>1, <1>3, <1>6 DEF Balanced
<1>8. op # "notify" /\ t # "UR" => b.ur = 0
  <2>1. b.ur \in Nat
    BY DEF Stage
  <2>2. op # "notify" => o # <<"notify", "()">> /\ o # <<"unlock", "ur">>
    BY <1>4, <1>5
  <2> QED BY <1>3, <1>6, <2>1, <2>2 DEF Balanced
<1>9. op \notin Marking /\ op # "notify" => Fit(t, b)
  BY <1>3, <1>5, <1>7, <1>8 DEF Ordered, Fit
<1> QED BY <1>1, <1>2, <1>3, <1>5, <1>6, <1>7, <1>8, <1>9 DEF After

(* The same for an assignment to a state, inside the VM's monitor.          *)
LEMMA AfterState ==
    ASSUME NEW q \in [Thread -> Stage], Reached(q), NEW t \in Thread,
           NEW op \in {"clientState", "vmState"}, At(t, op)
    PROVE  /\ Tail(todo[t]) \in Seq(Operation)
           /\ \E b \in Stage :
                 /\ Leads(t, Tail(todo[t]), b)
                 /\ q[t].vm = b.vm /\ q[t].ur = b.ur /\ q[t].ahead = {Arg(t)} \cup b.ahead
                 /\ <<op, Arg(t)>> \in OpsOf(t) /\ Ordered(t, Arg(t), b) /\ b.vm > 0 /\ Fit(t, b)
                 /\ op = "clientState" =>
                       /\ Arg(t) \in {"DISCONNECTED", "CONNECTED", "WAITING", "VISITING"}
                       /\ t # "EC" => Arg(t) = "DISCONNECTED"
                 /\ op = "vmState" => Arg(t) \in {"RUNNING", "WAITING_TO_BE_REVERTED"}
<1> DEFINE o == Head(todo[t])
<1>1. o[1] = op /\ Tail(todo[t]) \in Seq(Operation) /\ Arg(t) = o[2]
  BY Popped DEF Arg
<1>2. PICK b \in Stage : Link(t, q[t], o, b) /\ Leads(t, Tail(todo[t]), b)
  BY Popped
<1> HIDE DEF o
<1>3. o \in OpsOf(t) /\ q[t].ahead = {Name(o)} \cup b.ahead /\ Balanced(t, q[t], o, b) /\ Ordered(t, Name(o), b)
  BY <1>2 DEF Link
<1>4. PICK n : n = Arg(t)
  OBVIOUS
<1>5. /\ o = <<op, n>> /\ Name(o) = n
      /\ op = "clientState" =>
            n \in {"DISCONNECTED", "CONNECTED", "WAITING", "VISITING"} /\ (t # "EC" => n = "DISCONNECTED")
      /\ op = "vmState" => n \in {"RUNNING", "WAITING_TO_BE_REVERTED"}
  BY <1>1, <1>3, <1>4, Names
<1>6. q[t].vm = b.vm /\ q[t].ur = b.ur /\ q[t].vm > 0 /\ Sheltered(b)
  <2>1. o # <<"lock", "vm">> /\ o # <<"unlock", "vm">> /\ o # <<"lock", "ur">> /\ o # <<"unlock", "ur">>
    BY <1>5
  <2>2. Held(q[t].vm, "vm", o) = q[t].vm /\ Held(q[t].ur, "ur", o) = q[t].ur
    BY <2>1 DEF Held
  <2> QED BY <1>1, <1>3, <2>2 DEF Balanced
<1>7. Fit(t, b)
  <2>1. b.ur \in Nat /\ o # <<"notify", "()">> /\ o # <<"unlock", "ur">>
    BY <1>5 DEF Stage
  <2>2. t # "UR" => b.ur = 0
    BY <1>3, <1>6, <2>1 DEF Balanced
  <2>3. n \notin Marking
    BY <1>5 DEF Marking
  <2> QED BY <1>3, <1>5, <1>6, <2>2, <2>3 DEF Ordered, Fit
<1> QED BY <1>1, <1>2, <1>3, <1>4, <1>5, <1>6, <1>7

LEMMA DoneWord ==
    ASSUME NEW q \in [Thread -> Stage], Reached(q), NEW t \in Thread, NEW op, At(t, op), Done(t)
    PROVE  todo' = [todo EXCEPT ![t] = Tail(todo[t])]
<1>1. Tail(todo[t]) \in Seq(Operation)
  BY Popped
<1>2. <<>> \o Tail(todo[t]) = Tail(todo[t])
  BY <1>1, ConcatEmptySeq
<1> QED BY <1>2 DEF Done, Call

LEMMA CallWord ==
    ASSUME NEW t \in Thread, NEW ops, Call(t, ops)
    PROVE  todo' = [todo EXCEPT ![t] = ops \o Tail(todo[t])]
BY DEF Call

(* A step that calls nothing, and one that calls something and holds the    *)
(* monitors it held before.                                                 *)
LEMMA Onward ==
    ASSUME NEW q \in [Thread -> Stage], Reached(q), Owned(q), Thrown(q), Shape, NEW t \in Thread,
           NEW op, At(t, op), NEW w \in Seq(Operation), NEW c \in Stage, Leads(t, w, c),
           c.vm = q[t].vm, c.ur = q[t].ur, todo' = [todo EXCEPT ![t] = w],
           lock' = lock, waiting' = waiting, thrown' = thrown, NEW r, r = [q EXCEPT ![t] = c]
    PROVE  Reached(r)' /\ Owned(r)' /\ Thrown(r)'
<1>1. Reached(r)'
  BY Advanced DEF At
<1>2. Owned(r)'
  BY OwnedKept
<1>3. Thrown(r)'
  BY ThrownKept, Active
<1> QED BY <1>1, <1>2, <1>3

-----------------------------------------------------------------------------
(* The steps of the calls.                                                  *)

LEMMA UpdateStep ==
    ASSUME NEW q \in [Thread -> Stage], Inv(q), NEW t \in Thread, Update(t) PROVE IInv'
<1>1. /\ Reached(q) /\ Owned(q) /\ Thrown(q) /\ Shape /\ Complete(q) /\ At(t, "update") /\ Done(t)
      /\ UNCHANGED <<local, thrown, lock, waiting, clientState, visiting, socket, vmState, attached,
                     group, queue, pushed, remote, expiries>>
  BY DEF Inv, Update, clientVars, groupVars, envVars
<1>2. PICK b \in Stage : After(t, "update", q[t], b)
  <2>1. "update" \in Simple
    BY DEF Simple
  <2> QED BY <1>1, <2>1, AfterPlain
<1>3. /\ Tail(todo[t]) \in Seq(Operation) /\ Leads(t, Tail(todo[t]), b)
      /\ q[t].vm = b.vm /\ q[t].ur = b.ur /\ q[t].ahead = {"update"} \cup b.ahead
  BY <1>2 DEF After
<1>4. todo' = [todo EXCEPT ![t] = Tail(todo[t])]
  BY <1>1, DoneWord
<1>5. PICK r : r = [q EXCEPT ![t] = b]
  OBVIOUS
<1>6. Reached(r)' /\ Owned(r)' /\ Thrown(r)'
  BY <1>1, <1>3, <1>4, <1>5, Onward
<1>7. pinged \in BOOLEAN /\ pinged' \in {TRUE, FALSE, pinged}
  BY <1>1 DEF Update, Shape
<1>8. Shape'
  BY <1>1, <1>7 DEF Shape
<1>9. Complete(r)'
  <2>1. q[t].ahead \cap {"detach", "close"} \subseteq b.ahead
    BY <1>3
  <2> QED BY <1>1, <1>5, <2>1, CompleteKept
<1>10. /\ b.ahead \cap Key = q[t].ahead \cap Key /\ (q[t].ahead \cap Looking # {} => b.ahead \cap Looking # {})
      /\ b.ahead \subseteq q[t].ahead
  BY <1>3 DEF Key, Marking, Sending, Reporting, Looking
<1> QED BY <1>1, <1>5, <1>6, <1>8, <1>9, <1>10, Harmless

LEMMA DetachStep ==
    ASSUME NEW q \in [Thread -> Stage], Inv(q), NEW t \in Thread, Detach(t) PROVE IInv'
<1>1. /\ Reached(q) /\ Owned(q) /\ Thrown(q) /\ Shape /\ Complete(q) /\ At(t, "detach") /\ attached' = FALSE
      /\ UNCHANGED <<local, thrown, lock, waiting, clientState, visiting, socket, vmState, pinged,
                     group, queue, pushed, remote, expiries>>
  BY DEF Inv, Detach, clientVars, groupVars, envVars
<1>2. PICK b \in Stage : After(t, "detach", q[t], b)
  <2>1. "detach" \in Simple
    BY DEF Simple
  <2> QED BY <1>1, <2>1, AfterPlain
<1>3. /\ Tail(todo[t]) \in Seq(Operation) /\ Leads(t, Tail(todo[t]), b) /\ Fit(t, b)
      /\ q[t].vm = b.vm /\ q[t].ur = b.ur /\ q[t].ahead = {"detach"} \cup b.ahead
  BY <1>2 DEF After, Marking
<1>4. PICK w \in Seq(Operation), c \in Stage :
          /\ todo' = [todo EXCEPT ![t] = w] /\ Leads(t, w, c) /\ c.vm = b.vm /\ c.ur = b.ur
          /\ c.ahead = b.ahead \/ c.ahead = {"lock", "WAITING_TO_BE_REVERTED", "vm"} \cup b.ahead
  <2>1. CASE vmState = "WAITING_TO_BE_REVERTED"
    <3>1. Done(t)
      BY <2>1 DEF Detach, Done
    <3>2. todo' = [todo EXCEPT ![t] = Tail(todo[t])]
      BY <1>1, <3>1, DoneWord
    <3> QED BY <1>3, <3>2
  <2>2. CASE vmState # "WAITING_TO_BE_REVERTED"
    <3>1. todo' = [todo EXCEPT ![t] = SetVmState("WAITING_TO_BE_REVERTED") \o Tail(todo[t])]
      BY <2>2 DEF Detach, Call
    <3>2. PICK w \in Seq(Operation), c \in Stage :
              /\ w = SetVmState("WAITING_TO_BE_REVERTED") \o Tail(todo[t])
              /\ c = With({"lock", "WAITING_TO_BE_REVERTED", "vm"}, b) /\ Leads(t, w, c)
      BY <1>3, CallVm
    <3> QED BY <3>1, <3>2 DEF With
  <2> QED BY <2>1, <2>2
<1>5. PICK r : r = [q EXCEPT ![t] = c]
  OBVIOUS
<1>6. Reached(r)' /\ Owned(r)' /\ Thrown(r)'
  BY <1>1, <1>3, <1>4, <1>5, Onward
<1>7. Shape'
  BY <1>1 DEF Shape
<1>8. Complete(r)'
  <2>1. \A s \in Thread : "close" \in q[s].ahead => "close" \in r[s].ahead
    BY <1>3, <1>4, <1>5, Stages
  <2> QED BY <1>1, <2>1 DEF Complete
<1>9. /\ c.ahead \cap Key = q[t].ahead \cap Key
      /\ q[t].ahead \cap Looking # {} => c.ahead \cap Looking # {}
      /\ c.ahead \cap Ending # {} => q[t].ahead \cap Ending # {}
      /\ q[t].ahead \subseteq Gentle => FALSE
  <2>1. c.ahead \cap Key = q[t].ahead \cap Key
    BY <1>3, <1>4 DEF Key, Marking, Sending, Reporting
  <2>2. q[t].ahead \cap Looking # {} => c.ahead \cap Looking # {}
    BY <1>3, <1>4 DEF Looking
  <2>3. c.ahead \cap Ending # {} => q[t].ahead \cap Ending # {}
    BY <1>3, <1>4 DEF Ending
  <2>4. "detach" \in q[t].ahead /\ "detach" \notin Gentle
    BY <1>3 DEF Gentle
  <2> QED BY <2>1, <2>2, <2>3, <2>4
<1> QED BY <1>1, <1>5, <1>6, <1>7, <1>8, <1>9, Harmless

LEMMA IfConnectedStep ==
    ASSUME NEW q \in [Thread -> Stage], Inv(q), NEW t \in Thread, IfConnected(t) PROVE IInv'
<1>1. /\ Reached(q) /\ Owned(q) /\ Thrown(q) /\ Shape /\ Complete(q) /\ At(t, "ifConnected")
      /\ UNCHANGED <<local, thrown, lock, waiting, clientState, visiting, socket, vmState, attached, pinged,
                     group, queue, pushed, remote, expiries>>
  BY DEF Inv, IfConnected, clientVars, vmVars, groupVars, envVars
<1>2. PICK b \in Stage : After(t, "ifConnected", q[t], b)
  <2>1. "ifConnected" \in Simple
    BY DEF Simple
  <2> QED BY <1>1, <2>1, AfterPlain
<1>3. /\ Tail(todo[t]) \in Seq(Operation) /\ Leads(t, Tail(todo[t]), b) /\ Fit(t, b)
      /\ q[t].vm = b.vm /\ q[t].ur = b.ur /\ q[t].ahead = {"ifConnected"} \cup b.ahead
  BY <1>2 DEF After, Marking
<1>4. PICK w \in Seq(Operation), c \in Stage :
          /\ todo' = [todo EXCEPT ![t] = w] /\ Leads(t, w, c) /\ c.vm = b.vm /\ c.ur = b.ur
          /\ c.ahead = b.ahead \/ c.ahead = {"lock", "DISCONNECTED", "vm"} \cup b.ahead
  <2>1. CASE clientState = "DISCONNECTED"
    <3>1. Done(t)
      BY <2>1 DEF IfConnected, Done
    <3>2. todo' = [todo EXCEPT ![t] = Tail(todo[t])]
      BY <1>1, <3>1, DoneWord
    <3> QED BY <1>3, <3>2
  <2>2. CASE clientState # "DISCONNECTED"
    <3>1. todo' = [todo EXCEPT ![t] = SetClientState("DISCONNECTED") \o Tail(todo[t])]
      BY <2>2 DEF IfConnected, Call
    <3>2. "DISCONNECTED" \in CLIENT_STATE /\ Allowed(t, "DISCONNECTED", b)
      BY DEF CLIENT_STATE, Allowed
    <3>3. PICK w \in Seq(Operation), c \in Stage :
              /\ w = SetClientState("DISCONNECTED") \o Tail(todo[t])
              /\ c = With({"lock", "DISCONNECTED", "vm"}, b) /\ Leads(t, w, c)
      BY <1>3, <3>2, CallState, SharedOps
    <3> QED BY <3>1, <3>3 DEF With
  <2> QED BY <2>1, <2>2
<1>5. PICK r : r = [q EXCEPT ![t] = c]
  OBVIOUS
<1>6. Reached(r)' /\ Owned(r)' /\ Thrown(r)'
  BY <1>1, <1>3, <1>4, <1>5, Onward
<1>7. Shape'
  BY <1>1 DEF Shape
<1>8. Complete(r)'
  <2>1. q[t].ahead \cap {"detach", "close"} \subseteq c.ahead
    BY <1>3, <1>4
  <2> QED BY <1>1, <1>5, <2>1, CompleteKept
<1>9. /\ c.ahead \cap Key = q[t].ahead \cap Key
      /\ q[t].ahead \cap Looking # {} => c.ahead \cap Looking # {}
      /\ c.ahead \cap Ending # {} => q[t].ahead \cap Ending # {}
      /\ q[t].ahead \subseteq Gentle => FALSE
  <2>1. c.ahead \cap Key = q[t].ahead \cap Key
    BY <1>3, <1>4 DEF Key, Marking, Sending, Reporting
  <2>2. q[t].ahead \cap Looking # {} => c.ahead \cap Looking # {}
    BY <1>3, <1>4 DEF Looking
  <2>3. c.ahead \cap Ending # {} => q[t].ahead \cap Ending # {}
    BY <1>3, <1>4 DEF Ending
  <2>4. "ifConnected" \in q[t].ahead /\ "ifConnected" \notin Gentle
    BY <1>3 DEF Gentle
  <2> QED BY <2>1, <2>2, <2>3, <2>4
<1> QED BY <1>1, <1>5, <1>6, <1>7, <1>8, <1>9, Harmless

LEMMA IfGroupStep ==
    ASSUME NEW q \in [Thread -> Stage], Inv(q), NEW t \in Thread, IfGroup(t) PROVE IInv'
<1>1. /\ Reached(q) /\ Owned(q) /\ Thrown(q) /\ Shape /\ Complete(q) /\ At(t, "ifGroup")
      /\ UNCHANGED <<local, thrown, lock, waiting, clientState, visiting, socket, vmState, attached, pinged,
                     group, queue, pushed, remote, expiries>>
  BY DEF Inv, IfGroup, clientVars, vmVars, groupVars, envVars
<1>2. PICK b \in Stage : After(t, "ifGroup", q[t], b)
  <2>1. "ifGroup" \in Simple
    BY DEF Simple
  <2> QED BY <1>1, <2>1, AfterPlain
<1>3. /\ Tail(todo[t]) \in Seq(Operation) /\ Leads(t, Tail(todo[t]), b) /\ Fit(t, b)
      /\ q[t].vm = b.vm /\ q[t].ur = b.ur /\ q[t].ahead = {"ifGroup"} \cup b.ahead
  BY <1>2 DEF After, Marking
<1>4. PICK w \in Seq(Operation), c \in Stage :
          /\ todo' = [todo EXCEPT ![t] = w] /\ Leads(t, w, c) /\ c.vm = b.vm /\ c.ur = b.ur
          /\ \/ visiting = NoGroup /\ c.ahead = b.ahead
             \/ c.ahead = {"useGroup"} \cup b.ahead
  <2>1. CASE visiting = NoGroup
    <3>1. Done(t)
      BY <2>1 DEF IfGroup, Done
    <3>2. todo' = [todo EXCEPT ![t] = Tail(todo[t])]
      BY <1>1, <3>1, DoneWord
    <3> QED BY <1>3, <2>1, <3>2
  <2>2. CASE visiting # NoGroup
    <3>1. todo' = [todo EXCEPT ![t] = Do("useGroup") \o Tail(todo[t])]
      BY <2>2 DEF IfGroup, Call
    <3>2. PICK w \in Seq(Operation), c \in Stage :
              w = Do("useGroup") \o Tail(todo[t]) /\ c = With({"useGroup"}, b) /\ Leads(t, w, c)
      BY <1>3, CallPlain
    <3> QED BY <3>1, <3>2 DEF With
  <2> QED BY <2>1, <2>2
<1>5. PICK r : r = [q EXCEPT ![t] = c]
  OBVIOUS
<1>6. Reached(r)' /\ Owned(r)' /\ Thrown(r)'
  BY <1>1, <1>3, <1>4, <1>5, Onward
<1>7. Shape'
  BY <1>1 DEF Shape
<1>8. Complete(r)'
  <2>1. q[t].ahead \cap {"detach", "close"} \subseteq c.ahead
    BY <1>3, <1>4
  <2> QED BY <1>1, <1>5, <2>1, CompleteKept
<1>9. /\ c.ahead \cap Key = q[t].ahead \cap Key
      /\ visiting # NoGroup => c.ahead \cap Looking # {}
      /\ c.ahead \cap Ending # {} => q[t].ahead \cap Ending # {}
      /\ q[t].ahead \subseteq Gentle => FALSE
  <2>1. c.ahead \cap Key = q[t].ahead \cap Key
    BY <1>3, <1>4 DEF Key, Marking, Sending, Reporting
  <2>2. visiting # NoGroup => c.ahead \cap Looking # {}
    BY <1>3, <1>4 DEF Looking
  <2>3. c.ahead \cap Ending # {} => q[t].ahead \cap Ending # {}
    BY <1>3, <1>4 DEF Ending
  <2>4. "ifGroup" \in q[t].ahead /\ "ifGroup" \notin Gentle
    BY <1>3 DEF Gentle
  <2> QED BY <2>1, <2>2, <2>3, <2>4
<1> QED BY <1>1, <1>5, <1>6, <1>7, <1>8, <1>9, Harmless

LEMMA AssignVmStateStep ==
    ASSUME NEW q \in [Thread -> Stage], Inv(q), NEW t \in Thread, AssignVmState(t) PROVE IInv'
<1>1. /\ Reached(q) /\ Owned(q) /\ Thrown(q) /\ Shape /\ Complete(q) /\ At(t, "vmState") /\ vmState' = Arg(t)
      /\ UNCHANGED <<local, thrown, lock, waiting, clientState, visiting, socket, attached, pinged,
                     group, queue, pushed, remote, expiries>>
  BY DEF Inv, AssignVmState, clientVars, groupVars, envVars
<1>2. PICK b \in Stage :
      /\ Tail(todo[t]) \in Seq(Operation) /\ Leads(t, Tail(todo[t]), b) /\ Fit(t, b)
          /\ q[t].vm = b.vm /\ q[t].ur = b.ur /\ q[t].ahead = {Arg(t)} \cup b.ahead
          /\ Arg(t) \in {"RUNNING", "WAITING_TO_BE_REVERTED"}
  BY <1>1, AfterState
<1>3. PICK w \in Seq(Operation), c \in Stage :
          /\ todo' = [todo EXCEPT ![t] = w] /\ Leads(t, w, c) /\ c.vm = b.vm /\ c.ur = b.ur
          /\ \/ c.ahead = b.ahead
             \/ Arg(t) = "WAITING_TO_BE_REVERTED" /\ c.ahead = {"lock", "DISCONNECTED", "vm"} \cup b.ahead
  <2> DEFINE ends == /\ vmState # Arg(t)
                     /\ Arg(t) = "WAITING_TO_BE_REVERTED"
                     /\ attached
                     /\ clientState # "DISCONNECTED"
  <2>1. CASE ~ends
    <3>1. Done(t)
      BY <2>1 DEF AssignVmState, Done
    <3>2. todo' = [todo EXCEPT ![t] = Tail(todo[t])]
      BY <1>1, <3>1, DoneWord
    <3> QED BY <1>2, <3>2
  <2>2. CASE ends
    <3>1. todo' = [todo EXCEPT ![t] = SetClientState("DISCONNECTED") \o Tail(todo[t])]
      BY <2>2 DEF AssignVmState, Call
    <3>2. "DISCONNECTED" \in CLIENT_STATE /\ Allowed(t, "DISCONNECTED", b)
      BY DEF CLIENT_STATE, Allowed
    <3>3. PICK w \in Seq(Operation), c \in Stage :
              /\ w = SetClientState("DISCONNECTED") \o Tail(todo[t])
              /\ c = With({"lock", "DISCONNECTED", "vm"}, b) /\ Leads(t, w, c)
      BY <1>2, <3>2, CallState, SharedOps
    <3> QED BY <2>2, <3>1, <3>3 DEF With
  <2> QED BY <2>1, <2>2
<1>4. PICK r : r = [q EXCEPT ![t] = c]
  OBVIOUS
<1>5. Reached(r)' /\ Owned(r)' /\ Thrown(r)'
  BY <1>1, <1>2, <1>3, <1>4, Onward
<1>6. Shape'
  BY <1>1, <1>2 DEF Shape
<1>7. Complete(r)'
  <2>1. q[t].ahead \cap {"detach", "close"} \subseteq c.ahead
    BY <1>2, <1>3
  <2> QED BY <1>1, <1>4, <2>1, CompleteKept
<1>8. /\ c.ahead \cap Key = q[t].ahead \cap Key
      /\ q[t].ahead \cap Looking # {} => c.ahead \cap Looking # {}
      /\ c.ahead \cap Ending # {} => q[t].ahead \cap Ending # {}
      /\ q[t].ahead \subseteq Gentle => FALSE
  <2>1. c.ahead \cap Key = q[t].ahead \cap Key
    BY <1>2, <1>3 DEF Key, Marking, Sending, Reporting
  <2>2. q[t].ahead \cap Looking # {} => c.ahead \cap Looking # {}
    BY <1>2, <1>3 DEF Looking
  <2>3. c.ahead \cap Ending # {} => q[t].ahead \cap Ending # {}
    BY <1>2, <1>3 DEF Ending
  <2>4. Arg(t) \in q[t].ahead /\ Arg(t) \notin Gentle
    BY <1>2 DEF Gentle
  <2> QED BY <2>1, <2>2, <2>3, <2>4
<1> QED BY <1>1, <1>4, <1>5, <1>6, <1>7, <1>8, Harmless

(* The monitors.                                                            *)
LEMMA AfterMonitor ==
    ASSUME NEW q \in [Thread -> Stage], Reached(q), NEW t \in Thread, NEW op \in {"lock", "unlock"}, At(t, op)
    PROVE  /\ Tail(todo[t]) \in Seq(Operation) /\ Arg(t) \in {"vm", "ur"}
           /\ \E b \in Stage :
                 /\ Leads(t, Tail(todo[t]), b)
                 /\ q[t].ahead = {IF op = "lock" THEN "lock" ELSE Arg(t)} \cup b.ahead
                 /\ b.vm = IF Arg(t) # "vm" THEN q[t].vm ELSE IF op = "lock" THEN q[t].vm + 1 ELSE q[t].vm - 1
                 /\ b.ur = IF Arg(t) # "ur" THEN q[t].ur ELSE IF op = "lock" THEN q[t].ur + 1 ELSE q[t].ur - 1
<1> DEFINE o == Head(todo[t])
<1>1. o[1] = op /\ Tail(todo[t]) \in Seq(Operation) /\ Arg(t) = o[2]
  BY Popped DEF Arg
<1>2. PICK b \in Stage : Link(t, q[t], o, b) /\ Leads(t, Tail(todo[t]), b)
  BY Popped
<1> HIDE DEF o
<1>3. o \in OpsOf(t) /\ q[t].ahead = {Name(o)} \cup b.ahead /\ Balanced(t, q[t], o, b)
  BY <1>2 DEF Link
<1>4. PICK l : l = Arg(t)
  OBVIOUS
<1>5. o = <<op, l>> /\ l \in {"vm", "ur"} /\ Name(o) = IF op = "lock" THEN "lock" ELSE l
  BY <1>1, <1>3, <1>4, Names
<1>6. b.vm = Held(q[t].vm, "vm", o) /\ b.ur = Held(q[t].ur, "ur", o)
  BY <1>3 DEF Balanced
<1>7. \A n, k : Held(n, k, o) = IF l # k THEN n ELSE IF op = "lock" THEN n + 1 ELSE n - 1
  BY <1>5 DEF Held
<1>8. /\ q[t].ahead = {IF op = "lock" THEN "lock" ELSE l} \cup b.ahead
      /\ b.vm = IF l # "vm" THEN q[t].vm ELSE IF op = "lock" THEN q[t].vm + 1 ELSE q[t].vm - 1
      /\ b.ur = IF l # "ur" THEN q[t].ur ELSE IF op = "lock" THEN q[t].ur + 1 ELSE q[t].ur - 1
  BY <1>3, <1>5, <1>6, <1>7
<1> QED BY <1>1, <1>2, <1>4, <1>5, <1>8

LEMMA AcquireStep ==
    ASSUME NEW q \in [Thread -> Stage], Inv(q), NEW t \in Thread, Acquire(t) PROVE IInv'
<1>1. /\ Reached(q) /\ Owned(q) /\ Thrown(q) /\ Shape /\ Complete(q) /\ At(t, "lock") /\ Done(t)
      /\ UNCHANGED <<local, thrown, waiting, clientState, visiting, socket, vmState, attached, pinged,
                     group, queue, pushed, remote, expiries>>
  BY DEF Inv, Acquire, clientVars, vmVars, groupVars, envVars
<1>2. PICK l : l = Arg(t)
  OBVIOUS
<1>3. l \in {"vm", "ur"} /\ Tail(todo[t]) \in Seq(Operation)
  BY <1>1, <1>2, AfterMonitor
<1>4. PICK b \in Stage :
          /\ Leads(t, Tail(todo[t]), b) /\ q[t].ahead = {"lock"} \cup b.ahead
          /\ b.vm = IF l # "vm" THEN q[t].vm ELSE q[t].vm + 1
          /\ b.ur = IF l # "ur" THEN q[t].ur ELSE q[t].ur + 1
  BY <1>1, <1>2, AfterMonitor
<1>5. PICK r : r = [q EXCEPT ![t] = b]
  OBVIOUS
<1>6. todo' = [todo EXCEPT ![t] = Tail(todo[t])]
  BY <1>1, DoneWord
<1>7. Reached(r)'
  BY <1>1, <1>3, <1>4, <1>5, <1>6, Advanced DEF At
<1>8. Thrown(r)'
  BY <1>1, <1>6, ThrownKept, Active
<1>9. lock[l].owner \in {"none", t} /\ lock' = [lock EXCEPT ![l] = [owner |-> t, depth |-> @.depth + 1]]
  BY <1>2 DEF Acquire
<1>10. Owned(r)'
  <2>1. lock \in [{"vm", "ur"} -> [owner : Thread \cup {"none"}, depth : Nat]]
    BY <1>1 DEF Owned
  <2>2. lock' \in [{"vm", "ur"} -> [owner : Thread \cup {"none"}, depth : Nat]]
    BY <1>3, <1>9, <2>1
  <2>3. /\ lock'[l].owner = t /\ lock'[l].depth = lock[l].depth + 1
        /\ \A k \in {"vm", "ur"} : k # l => lock'[k] = lock[k]
    BY <1>3, <1>9, <2>1
  <2>4. /\ r[t] = b /\ q[t] \in Stage /\ \A s \in Thread : s # t => r[s] = q[s]
    BY <1>5, Stages
  <2>5. /\ lock[l].depth \in Nat /\ (lock[l].owner = "none" => lock[l].depth = 0)
        /\ t # "none" /\ lock[l].owner \in {"none", t}
    BY <1>1, <1>3, <1>9, <2>1, Threads DEF Owned
  <2>6. CASE l = "vm"
    <3>1. Owns(lock'["vm"], t, r[t].vm) /\ Owns(lock'["ur"], t, r[t].ur)
      BY <1>1, <1>4, <2>3, <2>4, <2>5, <2>6 DEF Owned, Owns, Stage
    <3>2. ASSUME NEW s \in Thread, s # t PROVE Owns(lock'["vm"], s, r[s].vm) /\ Owns(lock'["ur"], s, r[s].ur)
      BY <1>1, <2>3, <2>4, <2>5, <2>6, <3>2, Threads DEF Owned, Owns
    <3> QED BY <1>1, <2>2, <2>3, <2>5, <2>6, <3>1, <3>2 DEF Owned
  <2>7. CASE l = "ur"
    <3>1. Owns(lock'["vm"], t, r[t].vm) /\ Owns(lock'["ur"], t, r[t].ur)
      BY <1>1, <1>4, <2>3, <2>4, <2>5, <2>7 DEF Owned, Owns, Stage
    <3>2. ASSUME NEW s \in Thread, s # t PROVE Owns(lock'["vm"], s, r[s].vm) /\ Owns(lock'["ur"], s, r[s].ur)
      BY <1>1, <2>3, <2>4, <2>5, <2>7, <3>2, Threads DEF Owned, Owns
    <3> QED BY <1>1, <2>2, <2>3, <2>5, <2>7, <3>1, <3>2 DEF Owned
  <2> QED BY <1>3, <2>6, <2>7
<1>11. Shape'
  BY <1>1 DEF Shape
<1>12. Complete(r)'
  <2>1. q[t].ahead \cap {"detach", "close"} \subseteq b.ahead
    BY <1>4
  <2> QED BY <1>1, <1>5, <2>1, CompleteKept
<1>13. /\ b.ahead \cap Key = q[t].ahead \cap Key /\ (q[t].ahead \cap Looking # {} => b.ahead \cap Looking # {})
       /\ b.ahead \subseteq q[t].ahead
  BY <1>4 DEF Key, Marking, Sending, Reporting, Looking
<1> QED BY <1>1, <1>5, <1>7, <1>8, <1>10, <1>11, <1>12, <1>13, Harmless

LEMMA ReleaseStep ==
    ASSUME NEW q \in [Thread -> Stage], Inv(q), NEW t \in Thread, Release(t) PROVE IInv'
<1>1. /\ Reached(q) /\ Owned(q) /\ Thrown(q) /\ Shape /\ Complete(q) /\ At(t, "unlock") /\ Done(t)
      /\ UNCHANGED <<local, thrown, waiting, clientState, visiting, socket, vmState, attached, pinged,
                     group, queue, pushed, remote, expiries>>
  BY DEF Inv, Release, clientVars, vmVars, groupVars, envVars
<1>2. PICK l : l = Arg(t)
  OBVIOUS
<1>3. l \in {"vm", "ur"} /\ Tail(todo[t]) \in Seq(Operation)
  BY <1>1, <1>2, AfterMonitor
<1>4. PICK b \in Stage :
          /\ Leads(t, Tail(todo[t]), b) /\ q[t].ahead = {l} \cup b.ahead
          /\ b.vm = IF l # "vm" THEN q[t].vm ELSE q[t].vm - 1
          /\ b.ur = IF l # "ur" THEN q[t].ur ELSE q[t].ur - 1
  BY <1>1, <1>2, AfterMonitor
<1>5. PICK r : r = [q EXCEPT ![t] = b]
  OBVIOUS
<1>6. todo' = [todo EXCEPT ![t] = Tail(todo[t])]
  BY <1>1, DoneWord
<1>7. Reached(r)'
  BY <1>1, <1>3, <1>4, <1>5, <1>6, Advanced DEF At
<1>8. Thrown(r)'
  BY <1>1, <1>6, ThrownKept, Active
<1>9. lock' = [lock EXCEPT ![l] = [owner |-> IF @.depth = 1 THEN "none" ELSE t, depth |-> @.depth - 1]]
  BY <1>2 DEF Release
<1>10. Owned(r)'
  <2>1. lock \in [{"vm", "ur"} -> [owner : Thread \cup {"none"}, depth : Nat]]
    BY <1>1 DEF Owned
  <2>2. /\ r[t] = b /\ q[t] \in Stage /\ \A s \in Thread : s # t => r[s] = q[s]
        /\ q[t].vm \in Nat /\ q[t].ur \in Nat /\ b.vm \in Nat /\ b.ur \in Nat
    BY <1>5, Stages DEF Stage
  <2>3. lock[l].owner = t /\ lock[l].depth \in Nat /\ lock[l].depth > 0
        /\ (l = "vm" => lock[l].depth = q[t].vm) /\ (l = "ur" => lock[l].depth = q[t].ur)
    BY <1>1, <1>3, <1>4, <2>1, <2>2 DEF Owned, Owns
  <2>4. lock' \in [{"vm", "ur"} -> [owner : Thread \cup {"none"}, depth : Nat]]
    BY <1>3, <1>9, <2>1, <2>3
  <2>5. /\ lock'[l].owner = IF lock[l].depth = 1 THEN "none" ELSE t
        /\ lock'[l].depth = lock[l].depth - 1
        /\ \A k \in {"vm", "ur"} : k # l => lock'[k] = lock[k]
    BY <1>3, <1>9, <2>1
  <2>6. CASE l = "vm"
    <3>1. Owns(lock'["vm"], t, r[t].vm) /\ Owns(lock'["ur"], t, r[t].ur)
      BY <1>1, <1>4, <2>2, <2>3, <2>5, <2>6, Threads DEF Owned, Owns
    <3>2. ASSUME NEW s \in Thread, s # t PROVE Owns(lock'["vm"], s, r[s].vm) /\ Owns(lock'["ur"], s, r[s].ur)
      BY <1>1, <2>2, <2>3, <2>5, <2>6, <3>2, Threads DEF Owned, Owns
    <3> QED BY <1>1, <2>3, <2>4, <2>5, <2>6, <3>1, <3>2, Threads DEF Owned
  <2>7. CASE l = "ur"
    <3>1. Owns(lock'["vm"], t, r[t].vm) /\ Owns(lock'["ur"], t, r[t].ur)
      BY <1>1, <1>4, <2>2, <2>3, <2>5, <2>7, Threads DEF Owned, Owns
    <3>2. ASSUME NEW s \in Thread, s # t PROVE Owns(lock'["vm"], s, r[s].vm) /\ Owns(lock'["ur"], s, r[s].ur)
      BY <1>1, <2>2, <2>3, <2>5, <2>7, <3>2, Threads DEF Owned, Owns
    <3> QED BY <1>1, <2>3, <2>4, <2>5, <2>7, <3>1, <3>2, Threads DEF Owned
  <2> QED BY <1>3, <2>6, <2>7
<1>11. Shape'
  BY <1>1 DEF Shape
<1>12. Complete(r)'
  <2>1. q[t].ahead \cap {"detach", "close"} \subseteq b.ahead
    BY <1>3, <1>4
  <2> QED BY <1>1, <1>5, <2>1, CompleteKept
<1>13. /\ b.ahead \cap Key = q[t].ahead \cap Key /\ (q[t].ahead \cap Looking # {} => b.ahead \cap Looking # {})
       /\ b.ahead \subseteq q[t].ahead
  BY <1>3, <1>4 DEF Key, Marking, Sending, Reporting, Looking
<1> QED BY <1>1, <1>5, <1>7, <1>8, <1>10, <1>11, <1>12, <1>13, Harmless

(* notifyAll(): a retriever that waits goes on with the word it has.         *)
LEMMA NotifyStep ==
    ASSUME NEW q \in [Thread -> Stage], Inv(q), NEW t \in Thread, Notify(t) PROVE IInv'
<1>1. /\ Reached(q) /\ Owned(q) /\ Thrown(q) /\ Shape /\ Complete(q) /\ At(t, "notify") /\ waiting' = FALSE
      /\ todo' = [s \in Thread |-> IF s = t THEN Tail(todo[s])
                                  ELSE IF s = "UR" /\ waiting THEN <<<<"lock", "ur">>>> \o Do("while") \o todo[s]
                                  ELSE todo[s]]
      /\ UNCHANGED <<local, thrown, lock, clientState, visiting, socket, vmState, attached, pinged,
                     group, queue, pushed, remote, expiries>>
  BY DEF Inv, Notify, clientVars, vmVars, groupVars, envVars
<1>2. PICK b \in Stage : After(t, "notify", q[t], b)
  <2>1. "notify" \in Simple
    BY DEF Simple
  <2> QED BY <1>1, <2>1, AfterPlain
<1>3. /\ Tail(todo[t]) \in Seq(Operation) /\ Leads(t, Tail(todo[t]), b)
      /\ q[t].vm = b.vm /\ q[t].ur = b.ur /\ q[t].ahead = {"notify"} \cup b.ahead
  BY <1>2 DEF After
<1>4. PICK r : r = [q EXCEPT ![t] = b]
  OBVIOUS
<1>5. /\ todo = [s \in Thread |-> todo[s]] /\ \A s \in Thread : todo[s] \in Seq(Operation)
      /\ waiting \in BOOLEAN /\ "UR" \in Thread /\ (t = "UR" => waiting = FALSE)
  BY <1>1, Threads DEF Reached, Shape, At
<1>6. PICK call : call = <<<<"lock", "ur">>>> \o Do("while") \o todo["UR"]
  OBVIOUS
<1>7. /\ todo' = [s \in Thread |-> todo'[s]]
      /\ todo'[t] = Tail(todo[t])
      /\ \A s \in Thread \ {t} : todo'[s] = IF s = "UR" /\ waiting THEN call ELSE todo[s]
  BY <1>1, <1>6
<1>8. /\ call \in Seq(Operation)
      /\ call = <<<<"lock", "ur">>>> \o (<<<<"while", "()">>>> \o todo["UR"])
  <2>1. <<"lock", "ur">> \in Operation /\ <<"while", "()">> \in Operation
    BY Labels DEF Simple
  <2>2. <<<<"lock", "ur">>>> \in Seq(Operation) /\ <<<<"while", "()">>>> \in Seq(Operation)
    BY <2>1
  <2> QED BY <1>5, <1>6, <2>2, Regroup, ConcatProperties DEF Do
<1>9. Reached(r)'
  <2>1. \A s \in Thread : todo'[s] \in Seq(Operation)
    BY <1>3, <1>5, <1>7, <1>8
  <2>2. ASSUME NEW s \in Thread PROVE Leads(s, Word(s, todo'[s], waiting'), r[s])
    <3>1. CASE s = t
      <4>1. Word(s, todo'[s], waiting') = Tail(todo[t]) /\ r[s] = b
        BY <1>1, <1>4, <1>7, <3>1 DEF Word
      <4> QED BY <1>3, <3>1, <4>1
    <3>2. CASE s # t
      <4>1. Word(s, todo'[s], waiting') = Word(s, todo[s], waiting)
        BY <1>1, <1>5, <1>7, <1>8, <3>2 DEF Word
      <4>2. r[s] = q[s] /\ Leads(s, Word(s, todo[s], waiting), q[s])
        BY <1>1, <1>4, <3>2 DEF Reached
      <4> QED BY <4>1, <4>2
    <3> QED BY <3>1, <3>2
  <2> QED BY <1>7, <2>1, <2>2 DEF Reached
<1>10. Owned(r)'
  BY <1>1, <1>3, <1>4, OwnedKept
<1>11. Thrown(r)'
  <2>1. ASSUME NEW s \in thrown', s # "CK" PROVE todo'[s] = <<>> /\ ~(s = "UR" /\ waiting')
    <3>1. s \in Thread /\ s \in thrown /\ todo[s] = <<>> /\ ~(s = "UR" /\ waiting)
      BY <1>1, <2>1 DEF Thrown, Shape
    <3>2. s # t
      BY <1>1, <3>1 DEF At
    <3> QED BY <1>1, <1>7, <3>1, <3>2
  <2> QED BY <2>1 DEF Thrown
<1>12. Shape'
  BY <1>1 DEF Shape
<1>13. Complete(r)'
  <2>1. q[t].ahead \cap {"detach", "close"} \subseteq b.ahead
    BY <1>3
  <2> QED BY <1>1, <1>4, <2>1, CompleteKept
<1>14. /\ b.ahead \cap Key = q[t].ahead \cap Key /\ (q[t].ahead \cap Looking # {} => b.ahead \cap Looking # {})
       /\ b.ahead \subseteq q[t].ahead
  BY <1>3 DEF Key, Marking, Sending, Reporting, Looking
<1> QED BY <1>1, <1>4, <1>9, <1>10, <1>11, <1>12, <1>13, <1>14, Harmless

(* wait(): the word that the retriever will have to go on with.              *)
LEMMA WaitStep ==
    ASSUME NEW q \in [Thread -> Stage], Inv(q), Wait PROVE IInv'
<1>1. /\ Reached(q) /\ Owned(q) /\ Thrown(q) /\ Shape /\ Complete(q) /\ At("UR", "wait") /\ waiting' = TRUE
      /\ lock' = [lock EXCEPT !["ur"] = Free] /\ Done("UR") /\ "UR" \in Thread
      /\ UNCHANGED <<local, thrown, clientState, visiting, socket, vmState, attached, pinged,
                     group, queue, pushed, remote, expiries>>
  BY Threads DEF Inv, Wait, clientVars, vmVars, groupVars, envVars
<1>2. PICK b \in Stage : After("UR", "wait", q["UR"], b)
  <2>1. "wait" \in Simple
    BY DEF Simple
  <2> QED BY <1>1, <2>1, AfterPlain
<1>3. /\ Tail(todo["UR"]) \in Seq(Operation) /\ Leads("UR", Tail(todo["UR"]), b)
      /\ q["UR"].vm = b.vm /\ q["UR"].ur = b.ur /\ q["UR"].ahead = {"wait"} \cup b.ahead
      /\ b.ahead \subseteq {"ur"} /\ b.ur = 1 /\ Sheltered(b) /\ b.vm \in Nat
  BY <1>2 DEF After, Ordered, Stage
<1>4. PICK d : d = With({"while"}, b)
  OBVIOUS
<1>5. PICK c : c = [vm |-> b.vm, ur |-> 0, ahead |-> {"lock", "while"} \cup b.ahead]
  OBVIOUS
<1>6. PICK s : s = Tail(todo["UR"])
  OBVIOUS
<1>7. /\ Do("while") \o s \in Seq(Operation)
      /\ d \in Stage /\ Leads("UR", Do("while") \o s, d)
  <2>1. "while" \in Simple /\ <<"while", "()">> \in OpsOf("UR")
    BY DEF Simple, OpsOf, OwnOf, Plain
  <2>2. Ordered("UR", "while", b)
    BY <1>3 DEF Ordered, Counting, Marking, Taking, Sending
  <2>3. Sheltered(With({"while"}, b))
    BY <1>3 DEF Sheltered, With
  <2> QED BY <1>3, <1>4, <1>6, <2>1, <2>2, <2>3, Pushed
<1>8. d.vm = b.vm /\ d.ur = 1 /\ d.ahead = {"while"} \cup b.ahead
  BY <1>3, <1>4 DEF With
<1>9. c \in Stage /\ c.vm = b.vm /\ c.ur = 0 /\ c.ahead = {"lock", "while"} \cup b.ahead
  BY <1>3, <1>5, Labels DEF Stage, Simple
<1>10. Link("UR", c, <<"lock", "ur">>, d)
  <2>1. <<"lock", "ur">> \in OpsOf("UR") /\ Name(<<"lock", "ur">>) = "lock"
    BY Labels DEF OpsOf, Shared
  <2>2. c.ahead = {"lock"} \cup d.ahead
    BY <1>8, <1>9
  <2>3. Sheltered(c) /\ Sheltered(d)
    BY <1>3, <1>8, <1>9 DEF Sheltered
  <2>4. Balanced("UR", c, <<"lock", "ur">>, d)
    BY <1>8, <1>9, <2>3 DEF Balanced, Held
  <2>5. Ordered("UR", "lock", d)
    BY <1>3, <1>8 DEF Ordered, Counting, Marking, Taking, Sending
  <2> QED BY <2>1, <2>2, <2>4, <2>5 DEF Link
<1>11. Leads("UR", <<<<"lock", "ur">>>> \o (Do("while") \o s), c)
  <2>1. <<"lock", "ur">> \in Operation
    BY Labels
  <2> QED BY <1>7, <1>9, <1>10, <2>1, InFront
<1>12. PICK r : r = [q EXCEPT !["UR"] = c]
  OBVIOUS
<1>13. todo' = [todo EXCEPT !["UR"] = s]
  BY <1>1, <1>6, DoneWord
<1>14. /\ todo' = [u \in Thread |-> todo'[u]] /\ todo'["UR"] = s
       /\ \A u \in Thread : u # "UR" => todo'[u] = todo[u]
  <2>1. todo = [u \in Thread |-> todo[u]]
    BY <1>1 DEF Reached
  <2> QED BY <1>1, <1>13, <2>1
<1>15. Reached(r)'
  <2>1. \A u \in Thread : todo'[u] \in Seq(Operation)
    BY <1>1, <1>3, <1>6, <1>14 DEF Reached
  <2>2. ASSUME NEW u \in Thread PROVE Leads(u, Word(u, todo'[u], waiting'), r[u])
    <3>1. CASE u = "UR"
      <4>1. Word(u, todo'[u], waiting') = <<<<"lock", "ur">>>> \o (Do("while") \o s) /\ r[u] = c
        BY <1>1, <1>12, <1>14, <3>1 DEF Word, Do
      <4> QED BY <1>11, <3>1, <4>1
    <3>2. CASE u # "UR"
      <4>1. Word(u, todo'[u], waiting') = todo[u] /\ Word(u, todo[u], waiting) = todo[u] /\ r[u] = q[u]
        BY <1>12, <1>14, <3>2 DEF Word
      <4>2. Leads(u, Word(u, todo[u], waiting), q[u])
        BY <1>1 DEF Reached
      <4> QED BY <4>1, <4>2
    <3> QED BY <3>1, <3>2
  <2> QED BY <1>14, <2>1, <2>2 DEF Reached
<1>16. Owned(r)'
  <2>1. lock \in [{"vm", "ur"} -> [owner : Thread \cup {"none"}, depth : Nat]]
    BY <1>1 DEF Owned
  <2>2. lock' \in [{"vm", "ur"} -> [owner : Thread \cup {"none"}, depth : Nat]]
    BY <1>1, <2>1 DEF Free
  <2>3. lock'["vm"] = lock["vm"] /\ lock'["ur"].owner = "none" /\ lock'["ur"].depth = 0
    BY <1>1, <2>1 DEF Free
  <2>4. lock["ur"].owner = "UR"
    BY <1>1, <1>3 DEF Owned, Owns
  <2>5. \A u \in Thread : r[u].vm = q[u].vm /\ r[u].ur = 0
    <3>1. \A u \in Thread : u # "UR" => q[u].ur = 0
      BY <1>1, <2>4 DEF Owned, Owns
    <3> QED BY <1>3, <1>9, <1>12, <3>1
  <2>6. \A u \in Thread : Owns(lock'["vm"], u, r[u].vm)
    BY <1>1, <2>3, <2>5 DEF Owned
  <2>7. \A u \in Thread : Owns(lock'["ur"], u, r[u].ur)
    BY <2>3, <2>5, Threads DEF Owns
  <2> QED BY <1>1, <2>2, <2>3, <2>6, <2>7 DEF Owned
<1>17. Thrown(r)'
  <2>1. "UR" \notin thrown
    BY <1>1, Active
  <2> QED BY <1>1, <1>14, <2>1 DEF Thrown, Shape
<1>18. Shape'
  BY <1>1 DEF Shape
<1>19. Complete(r)'
  <2>1. q["UR"].ahead \cap {"detach", "close"} \subseteq c.ahead
    BY <1>3
  <2> QED BY <1>1, <1>9, <1>12, <2>1, CompleteKept
<1>20. /\ c.ahead \cap Key = q["UR"].ahead \cap Key
       /\ q["UR"].ahead \cap Looking # {} => c.ahead \cap Looking # {}
       /\ c.ahead \cap Ending # {} => q["UR"].ahead \cap Ending # {}
       /\ c.ahead \subseteq Gentle
  <2>1. c.ahead \subseteq {"lock", "while", "ur"} /\ q["UR"].ahead \subseteq {"wait", "ur"}
    BY <1>3, <1>9
  <2>2. c.ahead \cap Key = {} /\ q["UR"].ahead \cap Key = {}
    BY <2>1 DEF Key, Marking, Sending, Reporting
  <2>3. q["UR"].ahead \cap Looking = {} /\ c.ahead \cap Ending = {} /\ c.ahead \subseteq Gentle
    BY <2>1 DEF Looking, Ending, Gentle
  <2> QED BY <2>2, <2>3
<1> QED BY <1>1, <1>9, <1>12, <1>15, <1>16, <1>17, <1>18, <1>19, <1>20, Harmless

LEMMA WhileStep ==
    ASSUME NEW q \in [Thread -> Stage], Inv(q), While PROVE IInv'
<1>1. /\ Reached(q) /\ Owned(q) /\ Thrown(q) /\ Shape /\ Complete(q) /\ At("UR", "while") /\ "UR" \in Thread
      /\ UNCHANGED <<local, thrown, lock, waiting, clientState, visiting, socket, vmState, attached, pinged,
                     group, queue, pushed, remote, expiries>>
  BY Threads DEF Inv, While, clientVars, vmVars, groupVars, envVars
<1>2. PICK b \in Stage : After("UR", "while", q["UR"], b)
  <2>1. "while" \in Simple
    BY DEF Simple
  <2> QED BY <1>1, <2>1, AfterPlain
<1>3. /\ Tail(todo["UR"]) \in Seq(Operation) /\ Leads("UR", Tail(todo["UR"]), b) /\ Fit("UR", b)
      /\ q["UR"].vm = b.vm /\ q["UR"].ur = b.ur /\ q["UR"].ahead = {"while"} \cup b.ahead
      /\ b.ahead \subseteq {"ur"} /\ b.ur = 1 /\ Sheltered(b)
  BY <1>2 DEF After, Ordered, Marking
<1>4. PICK s : s = Tail(todo["UR"])
  OBVIOUS
<1>5. PICK w \in Seq(Operation), c \in Stage :
          /\ todo' = [todo EXCEPT !["UR"] = w] /\ Leads("UR", w, c) /\ c.vm = b.vm /\ c.ur = b.ur
          /\ c.ahead \subseteq {"ifWaiting", "wait", "ur"}
  <2>1. CASE clientState = "DISCONNECTED"
    <3>1. Done("UR")
      BY <2>1 DEF While, Done
    <3>2. todo' = [todo EXCEPT !["UR"] = Tail(todo["UR"])]
      BY <1>1, <3>1, DoneWord
    <3> QED BY <1>3, <3>2
  <2>2. CASE clientState # "DISCONNECTED"
    <3>1. todo' = [todo EXCEPT !["UR"] = (Do("ifWaiting") \o Do("wait")) \o s]
      BY <1>4, <2>2 DEF While, Call
    <3>2. PICK d, c, v :
              d = With({"wait"}, b) /\ c = With({"ifWaiting"}, d) /\ v = Do("wait") \o s
      OBVIOUS
    <3>3. /\ \A n \in {"wait", "ifWaiting"} : n \in Simple /\ <<n, "()">> \in OpsOf("UR") /\ n \in Label
      BY Labels DEF Simple, OpsOf, OwnOf, Plain
    <3>4. /\ d \in Stage /\ c \in Stage /\ Sheltered(d) /\ Sheltered(c)
          /\ d.vm = b.vm /\ d.ur = b.ur /\ d.ahead = {"wait"} \cup b.ahead
          /\ c.vm = b.vm /\ c.ur = b.ur /\ c.ahead = {"ifWaiting"} \cup d.ahead
      <4>1. d \in Stage /\ d.vm = b.vm /\ d.ur = b.ur /\ d.ahead = {"wait"} \cup b.ahead
        BY <3>2, <3>3, WithStage
      <4>2. c \in Stage /\ c.vm = d.vm /\ c.ur = d.ur /\ c.ahead = {"ifWaiting"} \cup d.ahead
        BY <3>2, <3>3, <4>1, WithStage
      <4> QED BY <1>3, <4>1, <4>2 DEF Sheltered
    <3>5. v \in Seq(Operation) /\ Leads("UR", v, d)
      <4>1. Ordered("UR", "wait", b)
        BY <1>3 DEF Ordered, Counting, Marking, Taking, Sending
      <4> QED BY <1>3, <1>4, <3>2, <3>3, <3>4, <4>1, Pushed
    <3>6. Do("ifWaiting") \o v \in Seq(Operation) /\ Leads("UR", Do("ifWaiting") \o v, c)
      <4>1. Ordered("UR", "ifWaiting", d)
        BY <1>3, <3>4 DEF Ordered, Counting, Marking, Taking, Sending
      <4> QED BY <3>2, <3>3, <3>4, <3>5, <4>1, Pushed
    <3>7. (Do("ifWaiting") \o Do("wait")) \o s = Do("ifWaiting") \o v
      <4>1. Do("ifWaiting") \in Seq(Operation) /\ Do("wait") \in Seq(Operation) /\ s \in Seq(Operation)
        BY <1>3, <1>4, <3>3, Labels DEF Do
      <4> QED BY <3>2, <4>1, Regroup
    <3> QED BY <1>3, <3>1, <3>4, <3>6, <3>7
  <2> QED BY <2>1, <2>2
<1>6. PICK r : r = [q EXCEPT !["UR"] = c]
  OBVIOUS
<1>7. Reached(r)' /\ Owned(r)' /\ Thrown(r)'
  BY <1>1, <1>3, <1>5, <1>6, Onward
<1>8. Shape'
  BY <1>1 DEF Shape
<1>9. Complete(r)'
  <2>1. q["UR"].ahead \cap {"detach", "close"} \subseteq c.ahead
    BY <1>3
  <2> QED BY <1>1, <1>6, <2>1, CompleteKept
<1>10. /\ c.ahead \cap Key = q["UR"].ahead \cap Key
       /\ q["UR"].ahead \cap Looking # {} => c.ahead \cap Looking # {}
       /\ c.ahead \cap Ending # {} => q["UR"].ahead \cap Ending # {}
       /\ c.ahead \subseteq Gentle
  <2>1. c.ahead \subseteq {"ifWaiting", "wait", "ur"} /\ q["UR"].ahead \subseteq {"while", "ur"}
    BY <1>3, <1>5
  <2>2. c.ahead \cap Key = {} /\ q["UR"].ahead \cap Key = {}
    BY <2>1 DEF Key, Marking, Sending, Reporting
  <2>3. q["UR"].ahead \cap Looking = {} /\ c.ahead \cap Ending = {} /\ c.ahead \subseteq Gentle
    BY <2>1 DEF Looking, Ending, Gentle
  <2> QED BY <2>2, <2>3
<1> QED BY <1>1, <1>6, <1>7, <1>8, <1>9, <1>10, Harmless

(* The assignment of Client.setClientState: what the new state calls.        *)
Called(n, m) ==
    \/ n = "WAITING" /\ m = {"lock", "RUNNING", "vm", "notify", "ur", "update"}
    \/ n = "DISCONNECTED" /\ m = Leaving
    \/ n = "CONNECTED" /\ m = {"send", "update"}
    \/ n = "VISITING" /\ m = {"update"}

(* The same as a word, and a stage it leads from.                           *)
CalledOps(n) ==
    (CASE n = "WAITING"      -> SetVmState("RUNNING") \o NotifyRetriever
       [] n = "DISCONNECTED" -> Disconnect \o NotifyRetriever
       [] n = "CONNECTED"    -> Do("send")
       [] OTHER              -> <<>>) \o Do("update")

CallLeads(t, w, n, b) ==
    \E m : \E c \in Stage : Leads(t, w, c) /\ c = With(m, b) /\ Called(n, m)

LEMMA StateCalls ==
    ASSUME NEW t, NEW s \in Seq(Operation), NEW b \in Stage, Leads(t, s, b), Fit(t, b), b.vm > 0,
           NEW n, Ordered(t, n, b), n \in {"DISCONNECTED", "CONNECTED", "WAITING", "VISITING"},
           t # "EC" => n = "DISCONNECTED", NEW ops,
           ops = CalledOps(n)
    PROVE  ops \o s \in Seq(Operation) /\ CallLeads(t, ops \o s, n, b)
<1>1. PICK s1, b1 : s1 = Do("update") \o s /\ b1 = With({"update"}, b)
  OBVIOUS
<1>2. s1 \in Seq(Operation) /\ b1 \in Stage /\ Fit(t, b1) /\ Leads(t, s1, b1)
  BY <1>1, CallPlain
<1>3. Do("update") \in Seq(Operation) /\ Do("send") \in Seq(Operation)
  BY Labels DEF Do, Simple
<1>4. CASE n = "WAITING"
  <2>1. ops = (SetVmState("RUNNING") \o NotifyRetriever) \o Do("update")
    BY <1>4 DEF CalledOps
  <2>2. PICK s2, b2 : s2 = NotifyRetriever \o s1 /\ b2 = With({"lock", "notify", "ur"}, b1)
    OBVIOUS
  <2>3. s2 \in Seq(Operation) /\ b2 \in Stage /\ Leads(t, s2, b2)
    BY <1>2, <2>2, CallNotify
  <2>4. Fit(t, b2)
    <3>1. {"lock", "notify", "ur"} \in SUBSET Label
      BY Labels DEF Simple
    <3> QED BY <1>2, <2>2, <3>1, FitWith DEF Marking
  <2>5. PICK s3, b3 : s3 = SetVmState("RUNNING") \o s2 /\ b3 = With({"lock", "RUNNING", "vm"}, b2)
    OBVIOUS
  <2>6. s3 \in Seq(Operation) /\ b3 \in Stage /\ Leads(t, s3, b3)
    BY <2>3, <2>4, <2>5, CallVm
  <2>7. b3 = With({"lock", "RUNNING", "vm", "notify", "ur", "update"}, b)
    <3>1. b2 = With({"lock", "notify", "ur"} \cup {"update"}, b)
      BY <1>1, <2>2, Joined
    <3>2. b3 = With({"lock", "RUNNING", "vm"} \cup ({"lock", "notify", "ur"} \cup {"update"}), b)
      BY <2>5, <3>1, Joined
    <3>3. {"lock", "RUNNING", "vm"} \cup ({"lock", "notify", "ur"} \cup {"update"})
            = {"lock", "RUNNING", "vm", "notify", "ur", "update"}
      OBVIOUS
    <3> QED BY <3>2, <3>3
  <2>8. ops \o s = s3
    <3>1. PICK x, y, z : x = SetVmState("RUNNING") /\ y = NotifyRetriever /\ z = Do("update")
      OBVIOUS
    <3>2. x \in Seq(Operation) /\ y \in Seq(Operation) /\ z \in Seq(Operation)
      <4>1. /\ <<"lock", "vm">> \in Operation /\ <<"unlock", "vm">> \in Operation
            /\ <<"lock", "ur">> \in Operation /\ <<"unlock", "ur">> \in Operation
            /\ <<"vmState", "RUNNING">> \in Operation /\ <<"notify", "()">> \in Operation
        BY Labels DEF Simple
      <4>2. x \in Seq(Operation)
        BY <3>1, <4>1 DEF SetVmState, Synchronized
      <4>3. y \in Seq(Operation)
        BY <3>1, <4>1 DEF NotifyRetriever, Synchronized, Do
      <4> QED BY <1>3, <3>1, <4>2, <4>3
    <3>3. Rejoined(x, y, z, s)
      BY <3>2, RegroupAll
    <3> QED BY <1>1, <2>1, <2>2, <2>5, <3>1, <3>3, Zenon DEF Rejoined
  <2> QED BY <1>4, <2>6, <2>7, <2>8 DEF CallLeads, Called
<1>5. CASE n = "DISCONNECTED"
  <2>1. ops = (Disconnect \o NotifyRetriever) \o Do("update")
    BY <1>5 DEF CalledOps
  <2> QED BY <1>5, <2>1, CallDisconnect DEF CallLeads, Called
<1>6. CASE n = "CONNECTED"
  <2>1. ops = Do("send") \o Do("update")
    BY <1>6 DEF CalledOps
  <2>2. ops \o s = Do("send") \o s1
    <3>1. (Do("send") \o Do("update")) \o s = Do("send") \o (Do("update") \o s)
      BY <1>3, Regroup
    <3> QED BY <1>1, <2>1, <3>1, Zenon
  <2>3. t = "EC" /\ "WAITING" \in b.ahead
    BY <1>6 DEF Ordered
  <2>4. "send" \in Simple /\ <<"send", "()">> \in OpsOf(t) /\ "send" \in Label /\ "update" \in Label
    BY SharedOps, Labels DEF Simple
  <2>5. b1.ahead = {"update"} \cup b.ahead
    BY <1>1 DEF With
  <2>6. Ordered(t, "send", b1)
    BY <1>2, <2>3, <2>5 DEF Ordered, Fit, Counting, Marking, Taking, Sending
  <2>7. Sheltered(b1) /\ Sheltered(With({"send"}, b1)) /\ b1.ur = 0
    <3>1. {"send"} \in SUBSET Label
      BY <2>4
    <3>2. Fit(t, With({"send"}, b1)) /\ Sheltered(With({"send"}, b1))
      BY <1>2, <3>1, FitWith DEF Marking
    <3> QED BY <1>2, <2>3, <3>2 DEF Fit
  <2>8. PICK b2 : b2 = With({"send"}, b1)
    OBVIOUS
  <2>9. Do("send") \o s1 \in Seq(Operation) /\ b2 \in Stage /\ Leads(t, Do("send") \o s1, b2)
    BY <1>2, <2>3, <2>4, <2>6, <2>7, <2>8, Pushed
  <2>10. b2 = With({"send", "update"}, b)
    <3>1. b2 = With({"send"} \cup {"update"}, b)
      BY <1>1, <2>8, Joined
    <3>2. {"send"} \cup {"update"} = {"send", "update"}
      OBVIOUS
    <3> QED BY <3>1, <3>2
  <2> QED BY <1>6, <2>2, <2>9, <2>10 DEF CallLeads, Called
<1>7. CASE n = "VISITING"
  <2>1. ops = <<>> \o Do("update")
    BY <1>7 DEF CalledOps
  <2>2. ops = Do("update")
    BY <1>3, <2>1, ConcatEmptySeq
  <2> QED BY <1>1, <1>2, <1>7, <2>2 DEF CallLeads, Called
<1> QED BY <1>4, <1>5, <1>6, <1>7

LEMMA AssignClientStateStep ==
    ASSUME NEW q \in [Thread -> Stage], Inv(q), NEW t \in Thread, AssignClientState(t) PROVE IInv'
<1>1. PICK n : n = Arg(t)
  OBVIOUS
<1>2. /\ Reached(q) /\ Owned(q) /\ Thrown(q) /\ Shape /\ At(t, "clientState") /\ clientState' = n
      /\ Complete(q) /\ GivenUp(q) /\ InHand(q) /\ Reported(q) /\ (Calm => Undisturbed(q))
      /\ UNCHANGED <<local, thrown, lock, waiting, visiting, socket, vmState, attached, pinged,
                     group, queue, pushed, remote, expiries>>
  BY <1>1 DEF Inv, AssignClientState, vmVars, groupVars, envVars
<1>3. PICK b \in Stage :
          /\ Leads(t, Tail(todo[t]), b) /\ Tail(todo[t]) \in Seq(Operation)
          /\ q[t].vm = b.vm /\ q[t].ur = b.ur /\ q[t].ahead = {n} \cup b.ahead
          /\ Ordered(t, n, b) /\ b.vm > 0 /\ Fit(t, b)
          /\ n \in {"DISCONNECTED", "CONNECTED", "WAITING", "VISITING"} /\ (t # "EC" => n = "DISCONNECTED")
  BY <1>1, <1>2, AfterState
<1>4. PICK m : \E w \in Seq(Operation), c \in Stage :
          /\ todo' = [todo EXCEPT ![t] = w] /\ Leads(t, w, c)
          /\ c.vm = q[t].vm /\ c.ur = q[t].ur /\ c.ahead = m \cup b.ahead
          /\ (clientState = n /\ m = {}) \/ (clientState # n /\ Called(n, m))
  <2>1. CASE clientState = n
    <3>1. Done(t)
      BY <1>1, <2>1 DEF AssignClientState, Done
    <3>2. todo' = [todo EXCEPT ![t] = Tail(todo[t])]
      BY <1>2, <3>1, DoneWord
    <3> QED BY <1>3, <2>1, <3>2
  <2>2. CASE clientState # n
    <3>1. PICK s, ops : s = Tail(todo[t]) /\ ops = CalledOps(n)
      OBVIOUS
    <3>2. todo' = [todo EXCEPT ![t] = ops \o s]
      <4>1. Call(t, ops)
        BY <1>1, <2>2, <3>1 DEF AssignClientState, CalledOps
      <4> QED BY <3>1, <4>1 DEF Call
    <3>3. ops \o s \in Seq(Operation) /\ CallLeads(t, ops \o s, n, b)
      <4>1. s \in Seq(Operation) /\ Leads(t, s, b)
        BY <1>3, <3>1
      <4> QED BY <1>3, <3>1, <4>1, StateCalls
    <3>4. PICK m : \E c \in Stage : Leads(t, ops \o s, c) /\ c = With(m, b) /\ Called(n, m)
      BY <3>3 DEF CallLeads
    <3>5. PICK c \in Stage : Leads(t, ops \o s, c) /\ c = With(m, b) /\ Called(n, m)
      BY <3>4
    <3>6. PICK w : w = ops \o s
      OBVIOUS
    <3>7. w \in Seq(Operation) /\ todo' = [todo EXCEPT ![t] = w] /\ Leads(t, w, c)
      BY <3>2, <3>3, <3>5, <3>6
    <3>8. c.vm = q[t].vm /\ c.ur = q[t].ur /\ c.ahead = m \cup b.ahead
      BY <1>3, <3>5 DEF With
    <3> QED BY <2>2, <3>5, <3>7, <3>8
  <2> QED BY <2>1, <2>2
<1>5. PICK w \in Seq(Operation), c \in Stage :
          /\ todo' = [todo EXCEPT ![t] = w] /\ Leads(t, w, c)
          /\ c.vm = q[t].vm /\ c.ur = q[t].ur /\ c.ahead = m \cup b.ahead
          /\ (clientState = n /\ m = {}) \/ (clientState # n /\ Called(n, m))
  BY <1>4
<1>6. PICK r : r = [q EXCEPT ![t] = c]
  OBVIOUS
<1>7. Reached(r)' /\ Owned(r)' /\ Thrown(r)'
  BY <1>2, <1>5, <1>6, Onward
<1>8. Shape'
  BY <1>2, <1>3 DEF Shape, CLIENT_STATE
<1>9. /\ m \cap Marking = {} /\ m \cap Reporting = {}
      /\ t = "UR" => m \cap (Taking \cup {"sent"}) = {}
      /\ n # "DISCONNECTED" => m \cap Ending = {}
      /\ n \notin Marking \cup Looking \cup Taking \cup {"sent", "detach", "close"}
  <2>1. CASE m = {}
    BY <1>3, <2>1 DEF Marking, Looking, Taking
  <2>2. CASE Called(n, m)
    BY <1>3, <2>2 DEF Called, Leaving, Marking, Looking, Taking, Reporting, Ending
  <2> QED BY <1>5, <2>1, <2>2
<1>10. Complete(r)'
  <2>1. CASE clientState # n /\ n = "DISCONNECTED"
    <3>1. m = Leaving
      BY <1>5, <2>1 DEF Called
    <3>2. "detach" \in r[t].ahead /\ "close" \in r[t].ahead
      BY <1>5, <1>6, <3>1 DEF Leaving
    <3> QED BY <3>2 DEF Complete
  <2>2. CASE ~(clientState # n /\ n = "DISCONNECTED")
    <3>1. q[t].ahead \cap {"detach", "close"} \subseteq c.ahead
      BY <1>3, <1>5, <1>9
    <3> QED BY <1>2, <1>6, <2>2, <3>1, CompleteKept
  <2> QED BY <2>1, <2>2
<1>11. \A x : x # n /\ x \in q[t].ahead => x \in c.ahead
  BY <1>3, <1>5
<1>12. Unsent(r["UR"])' => Unsent(q["UR"])
  <2>1. \A x \in Taking \cup {"sent"} : x \in r["UR"].ahead <=> x \in q["UR"].ahead
    <3>1. t = "UR" => \A x \in Taking \cup {"sent"} : x \in c.ahead <=> x \in q[t].ahead
      BY <1>3, <1>5, <1>9
    <3> QED BY <1>6, <3>1, Stages, Threads
  <2>2. "sent" \in r["UR"].ahead <=> "sent" \in q["UR"].ahead
    BY <2>1
  <2>3. r["UR"].ahead \cap Taking # {} => q["UR"].ahead \cap Taking # {}
    BY <2>1
  <2> QED BY <1>2, <2>2, <2>3 DEF Unsent
<1>13. GivenUp(r)'
  <2>1. StillMarks(t, q[t], c)
    <3>1. \A x \in Looking \cup Counting : x \in q[t].ahead => x \in c.ahead
      BY <1>9, <1>11 DEF Counting, Marking
    <3> QED BY <3>1 DEF StillMarks
  <2>2. WillFail(q["UR"]) => WillFail(r["UR"])'
    <3>1. \A x \in Sending \cup {"sent"} : x \in q["UR"].ahead => x \in r["UR"].ahead
      <4>1. n \notin Sending \cup {"sent"}
        BY <1>9 DEF Sending, Taking
      <4> QED BY <1>6, <1>11, <4>1, Stages, Threads
    <3> QED BY <1>2, <3>1 DEF WillFail
  <2> QED BY <1>2, <1>6, <2>1, <2>2, GivenUpKept
<1>14. InHand(r)'
  <2>1. NothingNew(t, q[t], c)
    <3>1. c.ahead \cap Marking # {} => q[t].ahead \cap Marking # {}
      BY <1>3, <1>5, <1>9
    <3>2. t = "UR" => q[t].ahead \cap (Taking \cup {"sent"}) = c.ahead \cap (Taking \cup {"sent"})
      BY <1>3, <1>5, <1>9
    <3> QED BY <3>1, <3>2 DEF NothingNew
  <2> QED BY <1>2, <1>6, <2>1, InHandKept
<1>15. c.ahead \cap Reporting \subseteq q[t].ahead
  BY <1>3, <1>5, <1>9
<1>16. n # "WAITING" => ((Unsent(r["UR"]) \/ MayTake(r["UR"]))' => Unsent(q["UR"]) \/ MayTake(q["UR"]))
  BY <1>2, <1>12 DEF MayTake
<1>17. n = "WAITING" => t = "EC" /\ c.ahead \cap Reporting = {} /\ "WAITING" \in q["EC"].ahead
  BY <1>3, <1>5, <1>9 DEF Ordered
<1>18. Reported(r)'
  <2>1. CASE n = "WAITING"
    <3>1. remote' = "none"
      BY <1>2, <1>17, <2>1 DEF Reported
    <3>2. r["EC"].ahead \cap Reporting = {}
      BY <1>6, <1>17, <2>1
    <3>3. r["EC"].ahead \cap {"started", "finished"} = {}
      BY <3>2 DEF Reporting
    <3> QED BY <3>1, <3>2, <3>3 DEF Reported, NoReport
  <2>2. CASE n # "WAITING"
    BY <1>2, <1>6, <1>15, <1>16, <2>2, ReportedKept
  <2> QED BY <2>1, <2>2
<1>19. ASSUME Calm PROVE Undisturbed(r)'
  <2>1. Undisturbed(q)
    BY <1>2, <1>19
  <2>2. t = "EC"
    <3>1. t = "UR" => n = "DISCONNECTED" /\ n \in q["UR"].ahead /\ q["UR"].ahead \subseteq Gentle
      BY <1>3, <2>1 DEF Undisturbed
    <3>2. "DISCONNECTED" \notin Gentle
      BY DEF Gentle
    <3> QED BY <1>19, <3>1, <3>2, Threads
  <2>3. CASE n = "WAITING"
    <3>1. Steady(q)
      BY <1>17, <2>1, <2>3 DEF Undisturbed
    <3>2. c.ahead \cap Ending = {}
      BY <1>3, <1>5, <1>9, <2>2, <2>3, <3>1 DEF Steady
    <3>3. Steady(r)'
      BY <1>2, <1>6, <2>2, <3>1, <3>2 DEF Steady
    <3>4. r["UR"] = q["UR"]
      BY <1>6, <2>2, Stages, Threads
    <3> QED BY <2>1, <3>3, <3>4 DEF Undisturbed
  <2>4. CASE n # "WAITING"
    <3>1. "WAITING" \in c.ahead => "WAITING" \in q[t].ahead
      BY <1>15 DEF Reporting
    <3>2. c.ahead \cap Ending # {} => q[t].ahead \cap Ending # {}
      <4>1. CASE n = "DISCONNECTED"
        BY <1>3, <4>1 DEF Ending
      <4>2. CASE n # "DISCONNECTED"
        BY <1>3, <1>5, <1>9, <4>2
      <4> QED BY <4>1, <4>2
    <3> QED BY <1>2, <1>6, <1>16, <2>1, <2>2, <2>4, <3>1, <3>2, UndisturbedKept
  <2> QED BY <2>3, <2>4
<1>20. Inv(r)'
  BY <1>7, <1>8, <1>10, <1>13, <1>14, <1>18, <1>19 DEF Inv
<1> QED BY <1>6, <1>20, Stages DEF IInv

-----------------------------------------------------------------------------
(* The socket and the group in hand.                                        *)

(* close(): whoever closes the socket has still to look for a group.        *)
LEMMA CloseStep ==
    ASSUME NEW q \in [Thread -> Stage], Inv(q), NEW t \in Thread, Close(t) PROVE IInv'
<1>1. /\ Reached(q) /\ Owned(q) /\ Thrown(q) /\ Shape /\ Complete(q) /\ InHand(q) /\ Reported(q)
      /\ Calm => Undisturbed(q)
      /\ At(t, "close") /\ Done(t) /\ socket' = "closed"
      /\ UNCHANGED <<local, thrown, lock, waiting, clientState, visiting, vmState, attached, pinged,
                     group, queue, pushed, remote, expiries>>
  BY DEF Inv, Close, vmVars, groupVars, envVars
<1>2. PICK b \in Stage : After(t, "close", q[t], b)
  <2>1. "close" \in Simple
    BY DEF Simple
  <2> QED BY <1>1, <2>1, AfterPlain
<1>3. /\ Tail(todo[t]) \in Seq(Operation) /\ Leads(t, Tail(todo[t]), b)
      /\ q[t].vm = b.vm /\ q[t].ur = b.ur /\ q[t].ahead = {"close"} \cup b.ahead /\ "ifGroup" \in b.ahead
  BY <1>2 DEF After, Ordered
<1>4. todo' = [todo EXCEPT ![t] = Tail(todo[t])]
  BY <1>1, DoneWord
<1>5. PICK r : r = [q EXCEPT ![t] = b]
  OBVIOUS
<1>6. Reached(r)' /\ Owned(r)' /\ Thrown(r)'
  BY <1>1, <1>3, <1>4, <1>5, Onward
<1>7. Shape'
  BY <1>1 DEF Shape
<1>8. Complete(r)'
  <2>1. \A s \in Thread : "detach" \in q[s].ahead => "detach" \in r[s].ahead
    BY <1>3, <1>5, Stages
  <2> QED BY <1>1, <2>1 DEF Complete
<1>9. GivenUp(r)'
  <2>1. r[t].ahead \cap Looking # {}
    BY <1>3, <1>5, Stages DEF Looking
  <2> QED BY <2>1 DEF GivenUp, WillMark
<1>10. /\ b.ahead \cap Marking # {} => q[t].ahead \cap Marking # {}
       /\ q[t].ahead \cap (Taking \cup {"sent"}) = b.ahead \cap (Taking \cup {"sent"})
       /\ b.ahead \cap Reporting \subseteq q[t].ahead
  BY <1>3 DEF Taking
<1>11. InHand(r)'
  <2>1. NothingNew(t, q[t], b)
    BY <1>10 DEF NothingNew
  <2> QED BY <1>1, <1>5, <2>1, InHandKept
<1>12. (Unsent(r["UR"]) \/ MayTake(r["UR"]))' => Unsent(q["UR"]) \/ MayTake(q["UR"])
  <2>1. \A n \in Taking \cup {"sent"} : n \in r["UR"].ahead <=> n \in q["UR"].ahead
    BY <1>5, <1>10, Stages, Threads
  <2>2. r["UR"].ahead \cap Taking # {} => q["UR"].ahead \cap Taking # {}
    BY <2>1
  <2>3. "sent" \in r["UR"].ahead <=> "sent" \in q["UR"].ahead
    BY <2>1
  <2> QED BY <1>1, <2>2, <2>3 DEF Unsent, MayTake
<1>13. Reported(r)'
  BY <1>1, <1>5, <1>10, <1>12, ReportedKept
<1>14. ASSUME Calm PROVE Undisturbed(r)'
  <2>1. Undisturbed(q)
    BY <1>1, <1>14
  <2>2. t = "EC"
    <3>1. t = "UR" => "close" \in q["UR"].ahead /\ q["UR"].ahead \subseteq Gentle
      BY <1>3, <2>1 DEF Undisturbed
    <3>2. "close" \notin Gentle
      BY DEF Gentle
    <3> QED BY <1>14, <3>1, <3>2, Threads
  <2>3. ~Steady(q)
    BY <1>3, <2>2 DEF Steady, Ending
  <2>4. "WAITING" \in r["EC"].ahead => "WAITING" \in q["EC"].ahead
    BY <1>3, <1>5, <2>2, Stages
  <2>5. r["UR"] = q["UR"]
    BY <1>5, <2>2, Stages, Threads
  <2> QED BY <1>12, <2>1, <2>3, <2>4, <2>5 DEF Undisturbed
<1>15. Inv(r)'
  BY <1>6, <1>7, <1>8, <1>9, <1>11, <1>13, <1>14 DEF Inv
<1> QED BY <1>5, <1>15, Stages DEF IInv

(* The retriever takes a group, which it has still to send.                 *)
LEMMA TakeWord ==
    ASSUME NEW s \in Seq(Operation), NEW b \in Stage, Leads("UR", s, b), Sheltered(b),
           b.ahead \subseteq {"wait", "ur"}
    PROVE  \E w \in Seq(Operation), c \in Stage :
              /\ w = (Do("setVisiting") \o Do("send") \o Do("sent")) \o s
              /\ Leads("UR", w, c) /\ c.vm = b.vm /\ c.ur = b.ur
              /\ c.ahead = {"setVisiting", "send", "sent"} \cup b.ahead
<1>1. \A n \in {"setVisiting", "send", "sent"} : n \in Simple /\ <<n, "()">> \in OpsOf("UR") /\ n \in Label
  <2>1. \A n \in {"setVisiting", "send", "sent"} : n \in Simple
    BY DEF Simple
  <2>2. <<"send", "()">> \in OpsOf("UR")
    BY SharedOps
  <2>3. \A n \in {"setVisiting", "sent"} : <<n, "()">> \in OpsOf("UR")
    BY DEF OpsOf, OwnOf, Plain
  <2> QED BY <2>1, <2>2, <2>3, Labels
<1>2. PICK d3, d2, d1, s3, s2 :
          /\ d3 = With({"sent"}, b) /\ d2 = With({"send"}, d3) /\ d1 = With({"setVisiting"}, d2)
          /\ s3 = Do("sent") \o s /\ s2 = Do("send") \o s3
  OBVIOUS
<1>3. d3 \in Stage /\ d3.vm = b.vm /\ d3.ur = b.ur /\ d3.ahead = {"sent"} \cup b.ahead
  BY <1>1, <1>2, WithStage
<1>4. d2 \in Stage /\ d2.vm = b.vm /\ d2.ur = b.ur /\ d2.ahead = {"send"} \cup d3.ahead
  BY <1>1, <1>2, <1>3, WithStage
<1>5. d1 \in Stage /\ d1.vm = b.vm /\ d1.ur = b.ur /\ d1.ahead = {"setVisiting"} \cup d2.ahead
  BY <1>1, <1>2, <1>4, WithStage
<1>6. Sheltered(d3) /\ Sheltered(d2) /\ Sheltered(d1)
  BY <1>3, <1>4, <1>5 DEF Sheltered
<1>7. s3 \in Seq(Operation) /\ Leads("UR", s3, d3)
  <2>1. Ordered("UR", "sent", b)
    BY DEF Ordered, Counting, Marking, Taking, Sending
  <2> QED BY <1>1, <1>2, <1>3, <1>6, <2>1, Pushed
<1>8. s2 \in Seq(Operation) /\ Leads("UR", s2, d2)
  <2>1. Ordered("UR", "send", d3)
    BY <1>3 DEF Ordered, Counting, Marking, Taking, Sending
  <2> QED BY <1>1, <1>2, <1>3, <1>4, <1>6, <1>7, <2>1, Pushed
<1>9. Do("setVisiting") \o s2 \in Seq(Operation) /\ Leads("UR", Do("setVisiting") \o s2, d1)
  <2>1. Ordered("UR", "setVisiting", d2)
    BY <1>3, <1>4 DEF Ordered, Counting, Marking, Taking, Sending
  <2> QED BY <1>1, <1>2, <1>4, <1>5, <1>6, <1>8, <2>1, Pushed
<1>10. (Do("setVisiting") \o Do("send") \o Do("sent")) \o s = Do("setVisiting") \o s2
  <2>1. PICK x, y, z : x = Do("setVisiting") /\ y = Do("send") /\ z = Do("sent")
    OBVIOUS
  <2>2. x \in Seq(Operation) /\ y \in Seq(Operation) /\ z \in Seq(Operation)
    BY <1>1, <2>1, Labels DEF Do
  <2>3. Rejoined(x, y, z, s)
    BY <2>2, RegroupAll
  <2> QED BY <1>2, <2>1, <2>3, Zenon DEF Rejoined
<1>11. d1.ahead = {"setVisiting", "send", "sent"} \cup b.ahead
  BY <1>3, <1>4, <1>5
<1> QED BY <1>5, <1>9, <1>10, <1>11

LEMMA IfWaitingStep ==
    ASSUME NEW q \in [Thread -> Stage], Inv(q), IfWaiting PROVE IInv'
<1>1. /\ Reached(q) /\ Owned(q) /\ Thrown(q) /\ Shape /\ Complete(q) /\ InHand(q) /\ Reported(q)
      /\ Calm => Undisturbed(q)
      /\ At("UR", "ifWaiting") /\ "UR" \in Thread /\ "EC" \in Thread
      /\ UNCHANGED <<thrown, lock, waiting, clientState, visiting, socket, vmState, attached, pinged,
                     group, pushed, remote, expiries>>
  BY Threads DEF Inv, IfWaiting, clientVars, vmVars, envVars
<1>2. PICK b \in Stage : After("UR", "ifWaiting", q["UR"], b)
  <2>1. "ifWaiting" \in Simple
    BY DEF Simple
  <2> QED BY <1>1, <2>1, AfterPlain
<1>3. /\ Tail(todo["UR"]) \in Seq(Operation) /\ Leads("UR", Tail(todo["UR"]), b)
      /\ q["UR"].vm = b.vm /\ q["UR"].ur = b.ur /\ q["UR"].ahead = {"ifWaiting"} \cup b.ahead
      /\ Sheltered(b) /\ b.ahead \subseteq {"wait", "ur"}
  BY <1>2 DEF After, Ordered
<1>4. CASE clientState = "WAITING" /\ queue # <<>>
  <2>1. /\ local' = [local EXCEPT !["UR"].group = Head(queue)] /\ queue' = Tail(queue)
        /\ Call("UR", Do("setVisiting") \o Do("send") \o Do("sent"))
    BY <1>4 DEF IfWaiting
  <2>2. PICK g : g = Head(queue)
    OBVIOUS
  <2>3. g \in Group /\ queue' \in Seq(Group)
    <3>1. queue \in Seq(Group)
      BY <1>1 DEF Shape
    <3> QED BY <1>4, <2>1, <2>2, <3>1, HeadTailProperties
  <2>4. /\ local'["UR"].group = g /\ \A s \in Thread : s # "UR" => local'[s].group = local[s].group
        /\ local' \in [Thread -> [group : Group \cup {NoGroup}, count : 0..ErrorBound, sent : BOOLEAN]]
    BY <1>1, <2>1, <2>2, <2>3 DEF Shape
  <2>5. PICK w \in Seq(Operation), c \in Stage :
            /\ todo' = [todo EXCEPT !["UR"] = w] /\ Leads("UR", w, c) /\ c.vm = b.vm /\ c.ur = b.ur
            /\ c.ahead = {"setVisiting", "send", "sent"} \cup b.ahead
    <3>1. PICK s : s = Tail(todo["UR"])
      OBVIOUS
    <3>2. todo' = [todo EXCEPT !["UR"] = (Do("setVisiting") \o Do("send") \o Do("sent")) \o s]
      BY <2>1, <3>1 DEF Call
    <3>3. PICK w \in Seq(Operation), c \in Stage :
              /\ w = (Do("setVisiting") \o Do("send") \o Do("sent")) \o s
              /\ Leads("UR", w, c) /\ c.vm = b.vm /\ c.ur = b.ur
              /\ c.ahead = {"setVisiting", "send", "sent"} \cup b.ahead
      <4>1. s \in Seq(Operation) /\ Leads("UR", s, b)
        BY <1>3, <3>1
      <4> QED BY <1>3, <4>1, TakeWord, Zenon
    <3> QED BY <3>2, <3>3
  <2>6. PICK r : r = [q EXCEPT !["UR"] = c]
    OBVIOUS
  <2>7. r \in [Thread -> Stage] /\ r["UR"] = c /\ r["EC"] = q["EC"] /\ \A s \in Thread : s # "UR" => r[s] = q[s]
    BY <1>1, <2>6, Stages
  <2>8. Reached(r)' /\ Owned(r)' /\ Thrown(r)'
    BY <1>1, <1>3, <2>5, <2>6, Onward
  <2>9. Shape'
    BY <1>1, <2>3, <2>4 DEF Shape
  <2>10. Complete(r)'
    <3>1. q["UR"].ahead \cap {"detach", "close"} \subseteq c.ahead
      BY <1>3
    <3> QED BY <1>1, <2>6, <3>1, CompleteKept
  <2>11. GivenUp(r)'
    <3>1. r["UR"].ahead \cap Sending # {}
      BY <2>5, <2>7 DEF Sending
    <3> QED BY <3>1 DEF GivenUp, WillMark, WillFail
  <2>12. InHand(r)'
    <3>1. c.ahead \cap Marking = {}
      BY <1>3, <2>5 DEF Marking
    <3>2. ASSUME NEW s \in Thread, r[s].ahead \cap Marking # {} PROVE local'[s].group \in Group
      <4>1. s # "UR"
        BY <2>7, <3>1, <3>2
      <4> QED BY <1>1, <2>4, <2>7, <3>2, <4>1 DEF InHand
    <3>3. "setVisiting" \in r["UR"].ahead /\ "write" \notin r["UR"].ahead
      <4>1. "write" \notin b.ahead
        BY <1>3
      <4> QED BY <2>5, <2>7, <4>1
    <3>4. local'["UR"].group \in Group
      BY <2>3, <2>4
    <3>5. PICK p : p = r["UR"].ahead
      OBVIOUS
    <3>6. "setVisiting" \in p /\ "write" \notin p
      BY <3>3, <3>5
    <3> QED BY <3>2, <3>4, <3>5, <3>6 DEF InHand
  <2>13. MayTake(q["UR"])
    <3>1. "UR" \notin thrown
      BY <1>1, Active
    <3>2. "sent" \notin q["UR"].ahead
      BY <1>3
    <3> QED BY <1>4, <3>1, <3>2 DEF MayTake
  <2>14. NoReport(q)
    BY <1>1, <2>13 DEF Reported
  <2>15. Reported(r)'
    <3>1. remote' = "none" /\ r["EC"].ahead \cap Reporting = {}
      BY <1>1, <2>7, <2>14 DEF NoReport
    <3>2. r["EC"].ahead \cap {"started", "finished"} = {}
      BY <3>1 DEF Reporting
    <3> QED BY <3>1, <3>2 DEF Reported, NoReport
  <2>16. ASSUME Calm PROVE Undisturbed(r)'
    <3>1. Steady(q)
      BY <1>1, <2>13, <2>16 DEF Undisturbed
    <3>2. Steady(r)'
      BY <1>1, <2>7, <3>1 DEF Steady
    <3>3. r["UR"].ahead \subseteq Gentle
      BY <1>3, <2>5, <2>7 DEF Gentle
    <3> QED BY <3>2, <3>3 DEF Undisturbed
  <2>17. Inv(r)'
    BY <2>8, <2>9, <2>10, <2>11, <2>12, <2>15, <2>16 DEF Inv
  <2> QED BY <2>7, <2>17 DEF IInv
<1>5. CASE ~(clientState = "WAITING" /\ queue # <<>>)
  <2>1. Done("UR") /\ local' = local /\ queue' = queue
    BY <1>5 DEF IfWaiting
  <2>2. todo' = [todo EXCEPT !["UR"] = Tail(todo["UR"])]
    BY <1>1, <2>1, DoneWord
  <2>3. PICK r : r = [q EXCEPT !["UR"] = b]
    OBVIOUS
  <2>4. Reached(r)' /\ Owned(r)' /\ Thrown(r)'
    BY <1>1, <1>3, <2>2, <2>3, Onward
  <2>5. Shape'
    BY <1>1, <2>1 DEF Shape
  <2>6. Complete(r)'
    <3>1. q["UR"].ahead \cap {"detach", "close"} \subseteq b.ahead
      BY <1>3
    <3> QED BY <1>1, <2>3, <3>1, CompleteKept
  <2>7. /\ b.ahead \cap Key = q["UR"].ahead \cap Key /\ (q["UR"].ahead \cap Looking # {} => b.ahead \cap Looking # {})
        /\ b.ahead \subseteq q["UR"].ahead
    BY <1>3 DEF Key, Marking, Sending, Reporting, Looking
  <2> QED BY <1>1, <2>1, <2>3, <2>4, <2>5, <2>6, <2>7, Harmless
<1> QED BY <1>4, <1>5

(* The client's group is the one the retriever took.                        *)
LEMMA SetVisitingStep ==
    ASSUME NEW q \in [Thread -> Stage], Inv(q), SetVisiting PROVE IInv'
<1>1. /\ Reached(q) /\ Owned(q) /\ Thrown(q) /\ Shape /\ Complete(q) /\ InHand(q) /\ Reported(q)
      /\ Calm => Undisturbed(q)
      /\ At("UR", "setVisiting") /\ Done("UR") /\ visiting' = local["UR"].group
      /\ "UR" \in Thread /\ "EC" \in Thread
      /\ UNCHANGED <<local, thrown, lock, waiting, clientState, socket, vmState, attached, pinged,
                     group, queue, pushed, remote, expiries>>
  BY Threads DEF Inv, SetVisiting, vmVars, groupVars, envVars
<1>2. PICK b \in Stage : After("UR", "setVisiting", q["UR"], b)
  <2>1. "setVisiting" \in Simple
    BY DEF Simple
  <2> QED BY <1>1, <2>1, AfterPlain
<1>3. /\ Tail(todo["UR"]) \in Seq(Operation) /\ Leads("UR", Tail(todo["UR"]), b)
      /\ q["UR"].vm = b.vm /\ q["UR"].ur = b.ur /\ q["UR"].ahead = {"setVisiting"} \cup b.ahead
      /\ "send" \in b.ahead /\ "setVisiting" \notin b.ahead /\ Marking \cap b.ahead = {}
  BY <1>2 DEF After, Ordered, Fit, Marking
<1>4. todo' = [todo EXCEPT !["UR"] = Tail(todo["UR"])]
  BY <1>1, DoneWord
<1>5. PICK r : r = [q EXCEPT !["UR"] = b]
  OBVIOUS
<1>6. r \in [Thread -> Stage] /\ r["UR"] = b /\ r["EC"] = q["EC"] /\ \A s \in Thread : s # "UR" => r[s] = q[s]
  BY <1>1, <1>5, Stages
<1>7. Reached(r)' /\ Owned(r)' /\ Thrown(r)'
  BY <1>1, <1>3, <1>4, <1>5, Onward
<1>8. visiting' = local'["UR"].group /\ visiting' \in Group /\ visiting' # NoGroup
  <2>1. local["UR"].group \in Group
    BY <1>1, <1>3 DEF InHand
  <2> QED BY <1>1, <2>1, ClientThreadsAssumption
<1>9. Shape'
  BY <1>1, <1>8 DEF Shape
<1>10. Complete(r)'
  <2>1. q["UR"].ahead \cap {"detach", "close"} \subseteq b.ahead
    BY <1>3
  <2> QED BY <1>1, <1>5, <2>1, CompleteKept
<1>11. GivenUp(r)'
  <2>1. r["UR"].ahead \cap Sending # {}
    BY <1>3, <1>6 DEF Sending
  <2> QED BY <2>1 DEF GivenUp, WillMark, WillFail
<1>12. InHand(r)'
  <2>1. \A s \in Thread : r[s].ahead \cap Marking # {} => local'[s].group \in Group
    BY <1>1, <1>3, <1>6 DEF InHand
  <2>2. "write" \in r["UR"].ahead => ~local'["UR"].sent
    BY <1>1, <1>3, <1>6 DEF InHand
  <2> QED BY <1>3, <1>6, <1>8, <2>1, <2>2 DEF InHand
<1>13. Unsent(q["UR"])
  BY <1>3 DEF Unsent, Taking
<1>14. Reported(r)'
  <2>1. NoReport(q)
    BY <1>1, <1>13 DEF Reported
  <2>2. remote' = "none" /\ r["EC"].ahead \cap Reporting = {}
    BY <1>1, <1>6, <2>1 DEF NoReport
  <2>3. r["EC"].ahead \cap {"started", "finished"} = {}
    BY <2>2 DEF Reporting
  <2> QED BY <2>2, <2>3 DEF Reported, NoReport
<1>15. ASSUME Calm PROVE Undisturbed(r)'
  <2>1. Undisturbed(q)
    BY <1>1, <1>15
  <2>2. Steady(r)'
    BY <1>1, <1>6, <1>13, <2>1 DEF Undisturbed, Steady
  <2>3. r["UR"].ahead \subseteq Gentle
    BY <1>3, <1>6, <2>1 DEF Undisturbed
  <2> QED BY <2>2, <2>3 DEF Undisturbed
<1>16. Inv(r)'
  BY <1>7, <1>9, <1>10, <1>11, <1>12, <1>14, <1>15 DEF Inv
<1> QED BY <1>6, <1>16 DEF IInv

-----------------------------------------------------------------------------
(* The group in error, and the exceptions.                                  *)

(* An exception leaves the monitors and ends the calls.                     *)
LEMMA ThrowStep ==
    ASSUME NEW q \in [Thread -> Stage], Inv(q), NEW t \in Thread, NEW op, At(t, op), Throw(t),
           UNCHANGED <<local, waiting, clientState, visiting, socket, vmState, attached, pinged,
                       group, queue, pushed, remote, expiries>>
    PROVE  IInv'
<1>1. /\ Reached(q) /\ Owned(q) /\ Thrown(q) /\ Shape /\ InHand(q) /\ Reported(q)
      /\ Calm => Undisturbed(q)
      /\ todo' = [todo EXCEPT ![t] = <<>>] /\ thrown' = thrown \cup {t}
      /\ lock' = [l \in DOMAIN lock |-> IF lock[l].owner = t THEN Free ELSE lock[l]]
      /\ ~(t = "UR" /\ waiting)
  BY DEF Inv, Throw, At
<1>2. PICK c \in Stage : c = End
  BY DEF End, Stage
<1>3. c.vm = 0 /\ c.ur = 0 /\ c.ahead = {}
  BY <1>2 DEF End
<1>4. PICK r : r = [q EXCEPT ![t] = c]
  OBVIOUS
<1>5. r \in [Thread -> Stage] /\ r[t] = c /\ \A s \in Thread : s # t => r[s] = q[s]
  BY <1>4, Stages
<1>6. Reached(r)'
  <2>1. PICK w \in Seq(Operation) : w = <<>> /\ Leads(t, w, c)
    <3>1. <<>> \in Seq(Operation) /\ Leads(t, <<>>, c)
      BY <1>2, EmptyWord
    <3> QED BY <3>1
  <2> QED BY <1>1, <1>4, <2>1, Advanced
<1>7. Owned(r)'
  <2>1. /\ lock \in [{"vm", "ur"} -> [owner : Thread \cup {"none"}, depth : Nat]]
        /\ \A l \in {"vm", "ur"} : lock[l].owner = "none" => lock[l].depth = 0
        /\ \A s \in Thread : Owns(lock["vm"], s, q[s].vm) /\ Owns(lock["ur"], s, q[s].ur)
    BY <1>1 DEF Owned
  <2>2. \A l \in {"vm", "ur"} : lock'[l] = IF lock[l].owner = t THEN Free ELSE lock[l]
    BY <1>1, <2>1
  <2>3. /\ Free \in [owner : Thread \cup {"none"}, depth : Nat] /\ Free.owner = "none" /\ Free.depth = 0
    BY DEF Free
  <2>4. lock' \in [{"vm", "ur"} -> [owner : Thread \cup {"none"}, depth : Nat]]
    BY <1>1, <2>1, <2>3
  <2>5. \A l \in {"vm", "ur"} : lock'[l].owner = "none" => lock'[l].depth = 0
    BY <2>1, <2>2, <2>3
  <2>6. ASSUME NEW s \in Thread PROVE Owns(lock'["vm"], s, r[s].vm) /\ Owns(lock'["ur"], s, r[s].ur)
    <3>1. CASE s = t
      BY <1>3, <1>5, <2>2, <2>3, <3>1, Threads DEF Owns
    <3>2. CASE s # t
      <4>1. r[s] = q[s]
        BY <1>5, <3>2
      <4>2. Owns(lock["vm"], s, q[s].vm) /\ Owns(lock["ur"], s, q[s].ur)
        BY <2>1
      <4> QED BY <2>2, <2>3, <3>2, <4>1, <4>2, Threads DEF Owns
    <3> QED BY <3>1, <3>2
  <2> QED BY <2>4, <2>5, <2>6 DEF Owned
<1>8. Shape'
  BY <1>1 DEF Shape
<1>9. Thrown(r)'
  <2>1. DOMAIN todo = Thread
    BY <1>1 DEF Reached
  <2>2. ASSUME NEW s \in thrown', s # "CK" PROVE todo'[s] = <<>> /\ ~(s = "UR" /\ waiting')
    <3>1. CASE s = t
      BY <1>1, <2>1, <3>1
    <3>2. CASE s # t
      BY <1>1, <2>1, <2>2, <3>2 DEF Thrown, Shape
    <3> QED BY <3>1, <3>2
  <2> QED BY <2>2 DEF Thrown
<1>10. thrown' # {}
  BY <1>1
<1>11. Complete(r)' /\ GivenUp(r)'
  BY <1>10 DEF Complete, GivenUp
<1>12. \A s \in Thread : \A n : n \in r[s].ahead => n \in q[s].ahead
  BY <1>3, <1>5
<1>13. r["UR"] = q["UR"] \/ r["UR"].ahead = {}
  BY <1>3, <1>5, Threads
<1>14. InHand(r)'
  <2>1. \A s \in Thread : r[s].ahead \cap Marking # {} => local'[s].group \in Group
    BY <1>1, <1>12 DEF InHand
  <2> QED BY <1>1, <1>13, <2>1 DEF InHand
<1>15. (Unsent(r["UR"]) \/ MayTake(r["UR"]))' => Unsent(q["UR"]) \/ MayTake(q["UR"])
  <2>1. CASE t = "UR"
    BY <1>1, <1>3, <1>5, <2>1 DEF Unsent, MayTake
  <2>2. CASE t # "UR"
    <3>1. r["UR"] = q["UR"]
      BY <1>5, <2>2, Threads
    <3> QED BY <1>1, <3>1 DEF Unsent, MayTake
  <2> QED BY <2>1, <2>2
<1>16. Reported(r)'
  BY <1>1, <1>3, <1>4, <1>15, ReportedKept
<1>17. ASSUME Calm PROVE Undisturbed(r)'
  BY <1>1, <1>3, <1>4, <1>15, <1>17, UndisturbedKept
<1>18. Inv(r)'
  BY <1>6, <1>7, <1>8, <1>9, <1>11, <1>14, <1>16, <1>17 DEF Inv
<1> QED BY <1>5, <1>18 DEF IInv

(* The call that marks a group in error.                                    *)
LEMMA MarkWord ==
    ASSUME NEW q \in [Thread -> Stage], Reached(q), NEW t \in Thread, NEW op \in Simple, At(t, op),
           op \notin Marking, op # "notify", Call(t, MarkError)
    PROVE  \E b \in Stage, w \in Seq(Operation), c \in Stage :
              /\ After(t, op, q[t], b) /\ todo' = [todo EXCEPT ![t] = w] /\ Leads(t, w, c)
              /\ c.vm = q[t].vm /\ c.ur = q[t].ur /\ c.ahead = Failing \cup b.ahead
              /\ "setVisiting" \notin b.ahead /\ b.ahead \cap Marking = {}
<1>1. PICK b \in Stage : After(t, op, q[t], b)
  BY AfterPlain
<1>2. /\ Tail(todo[t]) \in Seq(Operation) /\ Leads(t, Tail(todo[t]), b)
      /\ q[t].vm = b.vm /\ q[t].ur = b.ur /\ Fit(t, b)
  BY <1>1 DEF After
<1>3. PICK s : s = Tail(todo[t])
  OBVIOUS
<1>4. /\ MarkError \o s \in Seq(Operation)
      /\ With(Failing, b) \in Stage /\ Leads(t, MarkError \o s, With(Failing, b))
  BY <1>2, <1>3, CallMark
<1>5. todo' = [todo EXCEPT ![t] = MarkError \o s]
  BY <1>3 DEF Call
<1>6. With(Failing, b).vm = b.vm /\ With(Failing, b).ur = b.ur /\ With(Failing, b).ahead = Failing \cup b.ahead
  BY DEF With
<1>7. PICK c : c = With(Failing, b)
  OBVIOUS
<1>8. "setVisiting" \notin b.ahead /\ b.ahead \cap Marking = {}
  BY <1>2 DEF Fit
<1> QED BY <1>1, <1>2, <1>4, <1>5, <1>6, <1>7, <1>8

(* A thread that has looked for the group and marks it: disconnect(), the   *)
(* report of an error, and the checker.                                     *)
LEMMA MarkStep ==
    ASSUME NEW q \in [Thread -> Stage], Inv(q), NEW t \in Thread, NEW op \in {"useGroup", "setError"}, At(t, op),
           Call(t, MarkError), visiting # NoGroup, local' = [local EXCEPT ![t].group = visiting],
           UNCHANGED <<thrown, lock, waiting, clientState, visiting, socket, vmState, attached, pinged,
                       group, queue, pushed, remote, expiries>>
    PROVE  IInv'
<1>1. /\ Reached(q) /\ Owned(q) /\ Thrown(q) /\ Shape /\ Complete(q) /\ InHand(q) /\ Reported(q)
      /\ Calm => Undisturbed(q)
  BY DEF Inv
<1>2. op \in Simple /\ op \notin Marking /\ op # "notify" /\ op \notin Gentle
  BY DEF Simple, Marking, Gentle
<1>3. PICK b \in Stage, w \in Seq(Operation), c \in Stage :
          /\ After(t, op, q[t], b) /\ todo' = [todo EXCEPT ![t] = w] /\ Leads(t, w, c)
          /\ c.vm = q[t].vm /\ c.ur = q[t].ur /\ c.ahead = Failing \cup b.ahead
          /\ "setVisiting" \notin b.ahead /\ b.ahead \cap Marking = {}
  BY <1>1, <1>2, MarkWord
<1>4. q[t].ahead = {op} \cup b.ahead
  BY <1>3 DEF After
<1>5. PICK r : r = [q EXCEPT ![t] = c]
  OBVIOUS
<1>6. r \in [Thread -> Stage] /\ r[t] = c /\ \A s \in Thread : s # t => r[s] = q[s]
  BY <1>5, Stages
<1>7. Reached(r)' /\ Owned(r)' /\ Thrown(r)'
  BY <1>1, <1>3, <1>5, Onward
<1>8. /\ visiting \in Group
      /\ local'[t].group = visiting /\ \A s \in Thread : s # t => local'[s] = local[s]
      /\ \A s \in Thread : local'[s].sent = local[s].sent
      /\ local' \in [Thread -> [group : Group \cup {NoGroup}, count : 0..ErrorBound, sent : BOOLEAN]]
  BY <1>1 DEF Shape
<1>9. Shape'
  BY <1>1, <1>8 DEF Shape
<1>10. Complete(r)'
  <2>1. q[t].ahead \cap {"detach", "close"} \subseteq c.ahead
    BY <1>3, <1>4
  <2> QED BY <1>1, <1>5, <2>1, CompleteKept
<1>11. GivenUp(r)'
  <2>1. r[t].ahead \cap Counting # {}
    BY <1>3, <1>6 DEF Counting, Failing
  <2>2. WillMark(r, visiting)'
    BY <1>8, <2>1 DEF WillMark
  <2> QED BY <2>2 DEF GivenUp
<1>12. \A n \in Taking \cup {"sent"} : n \in r["UR"].ahead <=> n \in q["UR"].ahead
  <2>1. \A n \in Taking \cup {"sent"} : n \in c.ahead <=> n \in q[t].ahead
    BY <1>3, <1>4 DEF Failing, Taking
  <2> QED BY <1>6, <2>1, Threads
<1>13. InHand(r)'
  <2>1. \A s \in Thread : r[s].ahead \cap Marking # {} => local'[s].group \in Group
    BY <1>1, <1>6, <1>8 DEF InHand
  <2>2. "setVisiting" \in r["UR"].ahead => local'["UR"].group \in Group
    <3>1. t = "UR" => local'["UR"].group \in Group
      BY <1>8
    <3>2. t # "UR" => local'["UR"] = local["UR"] /\ r["UR"] = q["UR"]
      BY <1>6, <1>8, Threads
    <3> QED BY <1>1, <3>1, <3>2 DEF InHand
  <2>3. /\ "write" \in r["UR"].ahead <=> "write" \in q["UR"].ahead
        /\ "sent" \in r["UR"].ahead <=> "sent" \in q["UR"].ahead
        /\ "setVisiting" \in r["UR"].ahead <=> "setVisiting" \in q["UR"].ahead
    BY <1>12 DEF Taking
  <2>4. "write" \in r["UR"].ahead => ~local'["UR"].sent
    BY <1>1, <1>8, <2>3, Threads DEF InHand
  <2>5. local'["UR"].group = visiting \/ local'["UR"].group = local["UR"].group
    BY <1>8, Threads
  <2> QED BY <1>1, <1>8, <2>1, <2>2, <2>3, <2>4, <2>5 DEF InHand
<1>14. (Unsent(r["UR"]) \/ MayTake(r["UR"]))' => Unsent(q["UR"]) \/ MayTake(q["UR"])
  <2>1. r["UR"].ahead \cap Taking # {} => q["UR"].ahead \cap Taking # {}
    BY <1>12
  <2>2. "sent" \in r["UR"].ahead <=> "sent" \in q["UR"].ahead
    BY <1>12
  <2>3. local'["UR"].sent = local["UR"].sent
    BY <1>8, Threads
  <2> QED BY <1>1, <2>1, <2>2, <2>3 DEF Unsent, MayTake
<1>15. Reported(r)'
  <2>1. c.ahead \cap Reporting \subseteq q[t].ahead
    BY <1>3, <1>4 DEF Failing, Reporting
  <2> QED BY <1>1, <1>5, <1>14, <2>1, ReportedKept
<1>16. ASSUME Calm PROVE Undisturbed(r)'
  <2>1. Undisturbed(q)
    BY <1>1, <1>16
  <2>2. t # "UR"
    BY <1>2, <1>4, <2>1 DEF Undisturbed
  <2>3. /\ "WAITING" \in c.ahead => "WAITING" \in q[t].ahead
        /\ c.ahead \cap Ending # {} => q[t].ahead \cap Ending # {}
    BY <1>3, <1>4 DEF Failing, Ending
  <2> QED BY <1>5, <1>14, <2>1, <2>2, <2>3, UndisturbedKept
<1>17. Inv(r)'
  BY <1>7, <1>9, <1>10, <1>11, <1>13, <1>15, <1>16 DEF Inv
<1> QED BY <1>6, <1>17 DEF IInv

LEMMA UseGroupStep ==
    ASSUME NEW q \in [Thread -> Stage], Inv(q), NEW t \in Thread, UseGroup(t) PROVE IInv'
<1>1. /\ At(t, "useGroup")
      /\ UNCHANGED <<waiting, clientState, visiting, socket, vmState, attached, pinged,
                     group, queue, pushed, remote, expiries>>
  BY DEF UseGroup, clientVars, vmVars, groupVars, envVars
<1>2. CASE visiting = NoGroup
  <2>1. Throw(t) /\ local' = local
    BY <1>2 DEF UseGroup
  <2> QED BY <1>1, <2>1, ThrowStep
<1>3. CASE visiting # NoGroup
  <2>1. local' = [local EXCEPT ![t].group = visiting] /\ Call(t, MarkError) /\ thrown' = thrown /\ lock' = lock
    BY <1>3 DEF UseGroup
  <2> QED BY <1>1, <1>3, <2>1, MarkStep
<1> QED BY <1>2, <1>3

(* The end of setVisitingUrlGroup: the group that was sent, or given up.     *)
LEMMA SentStep ==
    ASSUME NEW q \in [Thread -> Stage], Inv(q), Sent PROVE IInv'
<1>1. /\ Reached(q) /\ Owned(q) /\ Thrown(q) /\ Shape /\ Complete(q) /\ GivenUp(q) /\ InHand(q) /\ Reported(q)
      /\ Calm => Undisturbed(q)
      /\ At("UR", "sent") /\ "UR" \in Thread /\ "EC" \in Thread
      /\ UNCHANGED <<local, waiting, visiting, socket, vmState, attached, pinged,
                     group, queue, pushed, remote, expiries>>
  BY Threads DEF Inv, Sent, vmVars, groupVars, envVars
<1>2. "sent" \in Simple /\ "sent" \notin Marking
  BY DEF Simple, Marking
<1>3. CASE visiting = NoGroup
  <2>1. Throw("UR") /\ clientState' = clientState
    BY <1>3 DEF Sent
  <2> QED BY <1>1, <2>1, ThrowStep
<1>4. ASSUME visiting # NoGroup, NEW b \in Stage, After("UR", "sent", q["UR"], b)
      PROVE  /\ q["UR"].ahead = {"sent"} \cup b.ahead /\ b.ahead \subseteq {"wait", "ur"}
             /\ q["UR"].vm = b.vm /\ q["UR"].ur = b.ur
             /\ Tail(todo["UR"]) \in Seq(Operation) /\ Leads("UR", Tail(todo["UR"]), b)
             /\ local["UR"].group = visiting /\ visiting \in Group
  <2>1. q["UR"].ahead = {"sent"} \cup b.ahead /\ b.ahead \subseteq {"wait", "ur"}
    BY <1>4 DEF After, Ordered
  <2>2. local["UR"].group \in Group /\ visiting \in {NoGroup, local["UR"].group}
    BY <1>1, <2>1 DEF InHand
  <2> QED BY <1>4, <2>1, <2>2 DEF After
<1>5. CASE visiting # NoGroup /\ local["UR"].sent
  <2>1. clientState' = "AWAITING_VISITING" /\ thrown' = thrown /\ lock' = lock /\ Done("UR")
    BY <1>5 DEF Sent, Done
  <2>2. PICK b \in Stage : After("UR", "sent", q["UR"], b)
    BY <1>1, <1>2, AfterPlain
  <2>3. /\ q["UR"].ahead = {"sent"} \cup b.ahead /\ b.ahead \subseteq {"wait", "ur"}
        /\ q["UR"].vm = b.vm /\ q["UR"].ur = b.ur
        /\ Tail(todo["UR"]) \in Seq(Operation) /\ Leads("UR", Tail(todo["UR"]), b)
    BY <1>4, <1>5, <2>2
  <2>4. todo' = [todo EXCEPT !["UR"] = Tail(todo["UR"])]
    BY <1>1, <2>1, DoneWord
  <2>5. PICK r : r = [q EXCEPT !["UR"] = b]
    OBVIOUS
  <2>6. r \in [Thread -> Stage] /\ r["UR"] = b /\ \A s \in Thread : s # "UR" => r[s] = q[s]
    BY <1>1, <2>5, Stages
  <2>7. Reached(r)' /\ Owned(r)' /\ Thrown(r)'
    BY <1>1, <2>1, <2>3, <2>4, <2>5, Onward
  <2>8. Shape'
    BY <1>1, <2>1 DEF Shape, CLIENT_STATE
  <2>9. Complete(r)'
    BY <2>1 DEF Complete
  <2>10. /\ b.ahead \cap Marking = {} /\ b.ahead \cap Taking = {} /\ "sent" \notin b.ahead
         /\ q["UR"].ahead \cap Sending = {} /\ q["UR"].ahead \cap Looking = {} /\ q["UR"].ahead \cap Counting = {}
         /\ b.ahead \subseteq Gentle
    BY <2>3 DEF Marking, Taking, Sending, Looking, Counting, Gentle
  <2>11. GivenUp(r)'
    <3>1. ~WillFail(q["UR"])
      BY <1>5, <2>10 DEF WillFail
    <3>2. StillMarks("UR", q["UR"], b)
      BY <2>10 DEF StillMarks
    <3> QED BY <1>1, <2>1, <2>5, <3>1, <3>2, GivenUpKept
  <2>12. InHand(r)'
    <3>1. \A s \in Thread : r[s].ahead \cap Marking # {} => local'[s].group \in Group
      BY <1>1, <2>6, <2>10 DEF InHand
    <3>2. "setVisiting" \notin r["UR"].ahead /\ "sent" \notin r["UR"].ahead /\ "write" \notin r["UR"].ahead
      BY <2>6, <2>10 DEF Taking
    <3> QED BY <3>1, <3>2 DEF InHand
  <2>13. ~(Unsent(r["UR"]) \/ MayTake(r["UR"]))'
    BY <2>1, <2>6, <2>10 DEF Unsent, MayTake
  <2>14. Reported(r)'
    BY <1>1, <2>5, <2>13, ReportedKept
  <2>15. ASSUME Calm PROVE Undisturbed(r)'
    BY <1>1, <2>5, <2>10, <2>13, <2>15, UndisturbedKept
  <2>16. Inv(r)'
    BY <2>7, <2>8, <2>9, <2>11, <2>12, <2>14, <2>15 DEF Inv
  <2> QED BY <2>6, <2>16 DEF IInv
<1>6. CASE visiting # NoGroup /\ ~local["UR"].sent
  <2>1. clientState' = clientState /\ thrown' = thrown /\ lock' = lock /\ Call("UR", MarkError)
    BY <1>6 DEF Sent
  <2>2. PICK b \in Stage, w \in Seq(Operation), c \in Stage :
            /\ After("UR", "sent", q["UR"], b) /\ todo' = [todo EXCEPT !["UR"] = w] /\ Leads("UR", w, c)
            /\ c.vm = q["UR"].vm /\ c.ur = q["UR"].ur /\ c.ahead = Failing \cup b.ahead
    BY <1>1, <1>2, <2>1, MarkWord
  <2>3. /\ q["UR"].ahead = {"sent"} \cup b.ahead /\ b.ahead \subseteq {"wait", "ur"}
        /\ local["UR"].group = visiting /\ visiting \in Group
    BY <1>4, <1>6, <2>2
  <2>4. PICK r : r = [q EXCEPT !["UR"] = c]
    OBVIOUS
  <2>5. r \in [Thread -> Stage] /\ r["UR"] = c /\ \A s \in Thread : s # "UR" => r[s] = q[s]
    BY <1>1, <2>4, Stages
  <2>6. Reached(r)' /\ Owned(r)' /\ Thrown(r)'
    BY <1>1, <2>1, <2>2, <2>4, Onward
  <2>7. Shape'
    BY <1>1, <2>1 DEF Shape
  <2>8. Complete(r)'
    <3>1. q["UR"].ahead \cap {"detach", "close"} \subseteq c.ahead
      BY <2>3
    <3> QED BY <1>1, <2>1, <2>4, <3>1, CompleteKept
  <2>9. GivenUp(r)'
    <3>1. r["UR"].ahead \cap Counting # {}
      BY <2>2, <2>5 DEF Counting, Failing
    <3>2. WillMark(r, visiting)'
      BY <1>1, <2>3, <3>1 DEF WillMark
    <3> QED BY <3>2 DEF GivenUp
  <2>10. InHand(r)'
    <3>1. \A s \in Thread : r[s].ahead \cap Marking # {} => local'[s].group \in Group
      BY <1>1, <2>3, <2>5 DEF InHand
    <3>2. "setVisiting" \notin r["UR"].ahead /\ "sent" \notin r["UR"].ahead /\ "write" \notin r["UR"].ahead
      BY <2>2, <2>3, <2>5 DEF Failing
    <3> QED BY <3>1, <3>2 DEF InHand
  <2>11. Unsent(q["UR"])
    BY <1>6, <2>3 DEF Unsent
  <2>12. Reported(r)'
    BY <1>1, <2>4, <2>11, ReportedKept
  <2>13. ASSUME Calm PROVE Undisturbed(r)'
    <3>1. c.ahead \subseteq Gentle
      BY <2>2, <2>3 DEF Failing, Gentle
    <3> QED BY <1>1, <2>4, <2>11, <2>13, <3>1, UndisturbedKept
  <2>14. Inv(r)'
    BY <2>6, <2>7, <2>8, <2>9, <2>10, <2>12, <2>13 DEF Inv
  <2> QED BY <2>5, <2>14 DEF IInv
<1> QED BY <1>3, <1>5, <1>6

(* A step of marking the group t has: only what is ahead of that changes,   *)
(* and whoever has counted the error need not count it again.               *)
LEMMA Marked ==
    ASSUME NEW q \in [Thread -> Stage], Inv(q), NEW t \in Thread, NEW c \in Stage,
           NEW r, r = [q EXCEPT ![t] = c], Reached(r)', Owned(r)', Thrown(r)', Shape',
           UNCHANGED <<thrown, clientState, visiting, socket, attached, remote>>,
           \A s \in Thread : local'[s].group = local[s].group /\ local'[s].sent = local[s].sent,
           \A g \in Group : group[g].errorCount > 0 => group'[g].errorCount > 0,
           \A n : n \notin Marking => (n \in c.ahead <=> n \in q[t].ahead),
           q[t].ahead \cap Marking # {},
           q[t].ahead \cap Counting # {} => c.ahead \cap Counting # {} \/ group'[local[t].group].errorCount > 0
    PROVE  IInv'
<1>1. /\ Shape /\ Complete(q) /\ GivenUp(q) /\ InHand(q) /\ Reported(q)
      /\ Calm => Undisturbed(q)
  BY DEF Inv
<1>2. \A n \in Looking \cup Taking \cup Reporting \cup Ending \cup {"sent"} : n \notin Marking
  BY DEF Looking, Taking, Reporting, Ending, Marking
<1>3. \A n \in Looking \cup Taking \cup Reporting \cup Ending \cup {"sent"} : n \in c.ahead <=> n \in q[t].ahead
  BY <1>2
<1>4. r \in [Thread -> Stage] /\ r[t] = c /\ \A s \in Thread : s # t => r[s] = q[s]
  BY Stages
<1>5. Complete(r)'
  <2>1. "detach" \notin Marking /\ "close" \notin Marking
    BY DEF Marking
  <2>2. q[t].ahead \cap {"detach", "close"} \subseteq c.ahead
    BY <2>1
  <2> QED BY <1>1, <2>2, CompleteKept
<1>6. local'["UR"].sent = local["UR"].sent /\ local'["UR"].group = local["UR"].group
  BY Threads
<1>7. \A n \in Taking \cup {"sent"} : n \in r["UR"].ahead <=> n \in q["UR"].ahead
  BY <1>3, <1>4, Threads
<1>8. /\ r["UR"].ahead \cap Taking # {} <=> q["UR"].ahead \cap Taking # {}
      /\ r["UR"].ahead \cap Sending # {} <=> q["UR"].ahead \cap Sending # {}
      /\ "sent" \in r["UR"].ahead <=> "sent" \in q["UR"].ahead
  <2>1. Sending \subseteq Taking
    BY DEF Sending, Taking
  <2> QED BY <1>7, <2>1
<1>9. GivenUp(r)'
  <2> SUFFICES ASSUME thrown' = {}, socket' = "closed", visiting' # NoGroup
               PROVE  group'[visiting'].errorCount > 0 \/ WillMark(r, visiting)'
    BY DEF GivenUp
  <2>1. visiting' = visiting /\ visiting \in Group
    BY <1>1 DEF Shape
  <2>2. CASE group[visiting].errorCount > 0
    BY <2>1, <2>2
  <2>3. CASE \E s \in Thread : q[s].ahead \cap Looking # {}
    <3>1. PICK s \in Thread : q[s].ahead \cap Looking # {}
      BY <2>3
    <3>2. r[s].ahead \cap Looking # {}
      BY <1>3, <1>4, <3>1
    <3> QED BY <3>2 DEF WillMark
  <2>4. CASE \E s \in Thread : q[s].ahead \cap Counting # {} /\ local[s].group = visiting
    <3>1. PICK s \in Thread : q[s].ahead \cap Counting # {} /\ local[s].group = visiting
      BY <2>4
    <3>2. r[s].ahead \cap Counting # {} \/ group'[visiting].errorCount > 0
      BY <1>4, <3>1
    <3> QED BY <2>1, <3>1, <3>2 DEF WillMark
  <2>5. CASE WillFail(q["UR"])
    BY <1>6, <1>8, <2>5 DEF WillMark, WillFail
  <2> QED BY <1>1, <2>1, <2>2, <2>3, <2>4, <2>5 DEF GivenUp, WillMark
<1>10. InHand(r)'
  <2>1. \A s \in Thread : r[s].ahead \cap Marking # {} => q[s].ahead \cap Marking # {}
    BY <1>4
  <2>2. \A s \in Thread : r[s].ahead \cap Marking # {} => local'[s].group \in Group
    BY <1>1, <2>1 DEF InHand
  <2>3. /\ "setVisiting" \in r["UR"].ahead <=> "setVisiting" \in q["UR"].ahead
        /\ "write" \in r["UR"].ahead <=> "write" \in q["UR"].ahead
    BY <1>7 DEF Taking
  <2> QED BY <1>1, <1>6, <1>8, <2>2, <2>3 DEF InHand
<1>11. (Unsent(r["UR"]) \/ MayTake(r["UR"]))' => Unsent(q["UR"]) \/ MayTake(q["UR"])
  BY <1>6, <1>8 DEF Unsent, MayTake
<1>12. Reported(r)'
  <2>1. c.ahead \cap Reporting \subseteq q[t].ahead
    BY <1>3
  <2> QED BY <1>1, <1>11, <2>1, ReportedKept
<1>13. ASSUME Calm PROVE Undisturbed(r)'
  <2>1. Undisturbed(q)
    BY <1>1, <1>13
  <2>2. Marking \subseteq Gentle
    BY DEF Marking, Gentle
  <2>3. t = "UR" => c.ahead \subseteq Gentle
    BY <2>1, <2>2 DEF Undisturbed
  <2>4. "WAITING" \in c.ahead => "WAITING" \in q[t].ahead
    BY <1>3 DEF Reporting
  <2>5. c.ahead \cap Ending # {} => q[t].ahead \cap Ending # {}
    BY <1>3
  <2> QED BY <1>11, <2>1, <2>3, <2>4, <2>5, UndisturbedKept
<1>14. Inv(r)'
  BY <1>5, <1>9, <1>10, <1>12, <1>13 DEF Inv
<1> QED BY <1>4, <1>14 DEF IInv

(* The group of a thread that marks one.                                    *)
LEMMA HasGroup ==
    ASSUME NEW q \in [Thread -> Stage], Inv(q), NEW t \in Thread, NEW op \in Marking, At(t, op)
    PROVE  \E b \in Stage, g \in Group :
              /\ g = local[t].group
              /\ Tail(todo[t]) \in Seq(Operation) /\ Leads(t, Tail(todo[t]), b)
              /\ q[t].vm = b.vm /\ q[t].ur = b.ur /\ q[t].ahead = {op} \cup b.ahead
              /\ Ordered(t, op, b) /\ Sheltered(q[t]) /\ Sheltered(b) /\ (t # "UR" => b.ur = 0)
<1>1. Reached(q) /\ InHand(q)
  BY DEF Inv
<1>2. op \in Simple /\ op # "notify"
  BY DEF Marking, Simple
<1>3. PICK b \in Stage : After(t, op, q[t], b)
  BY <1>1, <1>2, AfterPlain
<1>4. q[t].ahead = {op} \cup b.ahead
  BY <1>3 DEF After
<1>5. local[t].group \in Group
  BY <1>1, <1>4 DEF InHand
<1> QED BY <1>2, <1>3, <1>5 DEF After

LEMMA ReadCountStep ==
    ASSUME NEW q \in [Thread -> Stage], Inv(q), NEW t \in Thread, ReadCount(t) PROVE IInv'
<1>1. /\ Reached(q) /\ Owned(q) /\ Thrown(q) /\ Shape /\ At(t, "readCount") /\ Done(t)
      /\ UNCHANGED <<thrown, lock, waiting, clientState, visiting, socket, vmState, attached, pinged,
                     queue, pushed, remote, expiries>>
  BY DEF Inv, ReadCount, clientVars, vmVars, envVars
<1>2. "readCount" \in Marking /\ "readCount" \in Counting /\ "writeCount" \in Counting
  BY DEF Marking, Counting
<1>3. PICK b \in Stage, g \in Group :
          /\ g = local[t].group
          /\ Tail(todo[t]) \in Seq(Operation) /\ Leads(t, Tail(todo[t]), b)
          /\ q[t].vm = b.vm /\ q[t].ur = b.ur /\ q[t].ahead = {"readCount"} \cup b.ahead
          /\ Ordered(t, "readCount", b)
  BY <1>1, <1>2, HasGroup
<1>4. "writeCount" \in b.ahead
  BY <1>3 DEF Ordered
<1>5. todo' = [todo EXCEPT ![t] = Tail(todo[t])]
  BY <1>1, DoneWord
<1>6. PICK r : r = [q EXCEPT ![t] = b]
  OBVIOUS
<1>7. Reached(r)' /\ Owned(r)' /\ Thrown(r)'
  BY <1>1, <1>3, <1>5, <1>6, Onward
<1>8. /\ group' = [group EXCEPT ![g].state = "ERROR"]
      /\ local' = [local EXCEPT ![t].count = group[g].errorCount]
  BY <1>3 DEF ReadCount
<1>9. /\ local \in [Thread -> [group : Group \cup {NoGroup}, count : 0..ErrorBound, sent : BOOLEAN]]
      /\ group \in [Group -> [state : {"NONE", "VISITING", "VISITED", "ERROR"}, errorCount : 0..ErrorBound,
                              changed : BOOLEAN]]
  BY <1>1 DEF Shape
<1>10. /\ local' \in [Thread -> [group : Group \cup {NoGroup}, count : 0..ErrorBound, sent : BOOLEAN]]
       /\ \A s \in Thread : local'[s].group = local[s].group /\ local'[s].sent = local[s].sent
  <2>1. group[g].errorCount \in 0..ErrorBound
    BY <1>9
  <2> QED BY <1>8, <1>9, <2>1
<1>11. /\ group' \in [Group -> [state : {"NONE", "VISITING", "VISITED", "ERROR"}, errorCount : 0..ErrorBound,
                                changed : BOOLEAN]]
       /\ \A h \in Group : group'[h].errorCount = group[h].errorCount
  BY <1>8, <1>9
<1>12. Shape'
  BY <1>1, <1>10, <1>11 DEF Shape
<1>13. /\ q[t].ahead \cap Marking # {} /\ b.ahead \cap Counting # {}
       /\ \A n : n \notin Marking => (n \in b.ahead <=> n \in q[t].ahead)
  BY <1>2, <1>3, <1>4
<1> QED BY <1>1, <1>6, <1>7, <1>10, <1>11, <1>12, <1>13, Marked

LEMMA WriteCountStep ==
    ASSUME NEW q \in [Thread -> Stage], Inv(q), NEW t \in Thread, WriteCount(t) PROVE IInv'
<1>1. /\ Reached(q) /\ Owned(q) /\ Thrown(q) /\ Shape /\ At(t, "writeCount") /\ Done(t)
      /\ UNCHANGED <<local, thrown, lock, waiting, clientState, visiting, socket, vmState, attached, pinged,
                     queue, pushed, remote, expiries>>
  BY DEF Inv, WriteCount, clientVars, vmVars, envVars
<1>2. "writeCount" \in Marking
  BY DEF Marking
<1>3. PICK b \in Stage, g \in Group :
          /\ g = local[t].group
          /\ Tail(todo[t]) \in Seq(Operation) /\ Leads(t, Tail(todo[t]), b)
          /\ q[t].vm = b.vm /\ q[t].ur = b.ur /\ q[t].ahead = {"writeCount"} \cup b.ahead
  BY <1>1, <1>2, HasGroup
<1>4. todo' = [todo EXCEPT ![t] = Tail(todo[t])]
  BY <1>1, DoneWord
<1>5. PICK r : r = [q EXCEPT ![t] = b]
  OBVIOUS
<1>6. Reached(r)' /\ Owned(r)' /\ Thrown(r)'
  BY <1>1, <1>3, <1>4, <1>5, Onward
<1>7. PICK e : e = IF local[t].count < ErrorBound THEN local[t].count + 1 ELSE ErrorBound
  OBVIOUS
<1>8. e \in 0..ErrorBound /\ e > 0
  <2>1. local[t].count \in 0..ErrorBound
    BY <1>1 DEF Shape
  <2> QED BY <1>7, <2>1 DEF ErrorBound
<1>9. group \in [Group -> [state : {"NONE", "VISITING", "VISITED", "ERROR"}, errorCount : 0..ErrorBound,
                           changed : BOOLEAN]]
  BY <1>1 DEF Shape
<1>10. group' = [group EXCEPT ![g].errorCount = e, ![g].changed = TRUE]
  BY <1>3, <1>7 DEF WriteCount
<1>11. /\ group' \in [Group -> [state : {"NONE", "VISITING", "VISITED", "ERROR"}, errorCount : 0..ErrorBound,
                                changed : BOOLEAN]]
       /\ group'[g].errorCount = e /\ \A h \in Group : h # g => group'[h] = group[h]
  BY <1>8, <1>9, <1>10
<1>12. Shape'
  BY <1>1, <1>11 DEF Shape
<1>13. /\ q[t].ahead \cap Marking # {}
       /\ \A n : n \notin Marking => (n \in b.ahead <=> n \in q[t].ahead)
  BY <1>2, <1>3
<1>14. /\ \A h \in Group : group[h].errorCount > 0 => group'[h].errorCount > 0
       /\ group'[local[t].group].errorCount > 0
  BY <1>3, <1>8, <1>11
<1> QED BY <1>1, <1>5, <1>6, <1>12, <1>13, <1>14, Marked

LEMMA NotifyObserversStep ==
    ASSUME NEW q \in [Thread -> Stage], Inv(q), NEW t \in Thread, NotifyObservers(t) PROVE IInv'
<1>1. /\ Reached(q) /\ Owned(q) /\ Thrown(q) /\ Shape /\ At(t, "notifyObservers")
      /\ UNCHANGED <<local, thrown, lock, waiting, clientState, visiting, socket, vmState, attached, pinged,
                     queue, pushed, remote, expiries>>
  BY DEF Inv, NotifyObservers, clientVars, vmVars, envVars
<1>2. "notifyObservers" \in Marking
  BY DEF Marking
<1>3. PICK b \in Stage, g \in Group :
          /\ g = local[t].group
          /\ Tail(todo[t]) \in Seq(Operation) /\ Leads(t, Tail(todo[t]), b)
          /\ q[t].vm = b.vm /\ q[t].ur = b.ur /\ q[t].ahead = {"notifyObservers"} \cup b.ahead
          /\ Ordered(t, "notifyObservers", b) /\ Sheltered(b) /\ (t # "UR" => b.ur = 0)
  BY <1>1, <1>2, HasGroup
<1>4. PICK w \in Seq(Operation), c \in Stage :
          /\ todo' = [todo EXCEPT ![t] = w] /\ Leads(t, w, c) /\ c.vm = b.vm /\ c.ur = b.ur
          /\ c.ahead = b.ahead \/ c.ahead = {"retry"} \cup b.ahead
  <2>1. CASE ~group[g].changed
    <3>1. Done(t)
      BY <1>3, <2>1 DEF NotifyObservers, Done
    <3>2. todo' = [todo EXCEPT ![t] = Tail(todo[t])]
      BY <1>1, <3>1, DoneWord
    <3> QED BY <1>3, <3>2
  <2>2. CASE group[g].changed
    <3>1. PICK s : s = Tail(todo[t])
      OBVIOUS
    <3>2. todo' = [todo EXCEPT ![t] = Do("retry") \o s]
      BY <1>3, <2>2, <3>1 DEF NotifyObservers, Call
    <3>3. "retry" \in Simple /\ <<"retry", "()">> \in OpsOf(t) /\ "retry" \notin {"while", "wait"}
      BY SharedOps DEF Simple
    <3>4. Ordered(t, "retry", b)
      BY <1>3 DEF Ordered, Counting, Marking, Taking, Sending
    <3>5. Sheltered(With({"retry"}, b))
      BY <1>3 DEF Sheltered, With
    <3>6. /\ Do("retry") \o s \in Seq(Operation)
          /\ With({"retry"}, b) \in Stage /\ Leads(t, Do("retry") \o s, With({"retry"}, b))
      BY <1>3, <3>1, <3>3, <3>4, <3>5, Pushed
    <3>7. PICK c : c = With({"retry"}, b)
      OBVIOUS
    <3>8. c.vm = b.vm /\ c.ur = b.ur /\ c.ahead = {"retry"} \cup b.ahead
      BY <3>7 DEF With
    <3> QED BY <3>2, <3>6, <3>7, <3>8
  <2> QED BY <2>1, <2>2
<1>5. PICK r : r = [q EXCEPT ![t] = c]
  OBVIOUS
<1>6. Reached(r)' /\ Owned(r)' /\ Thrown(r)'
  BY <1>1, <1>3, <1>4, <1>5, Onward
<1>7. group \in [Group -> [state : {"NONE", "VISITING", "VISITED", "ERROR"}, errorCount : 0..ErrorBound,
                           changed : BOOLEAN]]
  BY <1>1 DEF Shape
<1>8. group' = [group EXCEPT ![g].changed = FALSE]
  BY <1>3 DEF NotifyObservers
<1>9. /\ group' \in [Group -> [state : {"NONE", "VISITING", "VISITED", "ERROR"}, errorCount : 0..ErrorBound,
                               changed : BOOLEAN]]
      /\ \A h \in Group : group'[h].errorCount = group[h].errorCount
  BY <1>7, <1>8
<1>10. Shape'
  BY <1>1, <1>9 DEF Shape
<1>11. /\ q[t].ahead \cap Marking # {}
       /\ \A n : n \notin Marking => (n \in c.ahead <=> n \in q[t].ahead)
       /\ q[t].ahead \cap Counting = {}
  <2>1. "retry" \in Marking /\ "notifyObservers" \notin Counting
    BY DEF Marking, Counting
  <2>2. Counting \cap b.ahead = {}
    BY <1>3 DEF Ordered
  <2> QED BY <1>2, <1>3, <1>4, <2>1, <2>2
<1> QED BY <1>1, <1>5, <1>6, <1>9, <1>10, <1>11, Marked

LEMMA RetryStep ==
    ASSUME NEW q \in [Thread -> Stage], Inv(q), NEW t \in Thread, Retry(t) PROVE IInv'
<1>1. /\ Reached(q) /\ Owned(q) /\ Thrown(q) /\ Shape /\ At(t, "retry") /\ Done(t)
      /\ UNCHANGED <<local, thrown, lock, waiting, clientState, visiting, socket, vmState, attached, pinged,
                     group, remote, expiries>>
  BY DEF Inv, Retry, clientVars, vmVars, envVars
<1>2. "retry" \in Marking /\ "retry" \notin Counting
  BY DEF Marking, Counting
<1>3. PICK b \in Stage, g \in Group :
          /\ g = local[t].group
          /\ Tail(todo[t]) \in Seq(Operation) /\ Leads(t, Tail(todo[t]), b)
          /\ q[t].vm = b.vm /\ q[t].ur = b.ur /\ q[t].ahead = {"retry"} \cup b.ahead
          /\ Ordered(t, "retry", b)
  BY <1>1, <1>2, HasGroup
<1>4. todo' = [todo EXCEPT ![t] = Tail(todo[t])]
  BY <1>1, DoneWord
<1>5. PICK r : r = [q EXCEPT ![t] = b]
  OBVIOUS
<1>6. Reached(r)' /\ Owned(r)' /\ Thrown(r)'
  BY <1>1, <1>3, <1>4, <1>5, Onward
<1>7. queue' \in Seq(Group) /\ pushed' \subseteq Group
  <2>1. queue \in Seq(Group) /\ pushed \subseteq Group
    BY <1>1 DEF Shape
  <2>2. Cons(g, queue) \in Seq(Group)
    BY <2>1 DEF Cons
  <2>3. queue' \in {queue, Cons(g, queue)} /\ pushed' \in {pushed, pushed \cup {g}}
    BY <1>3 DEF Retry
  <2> QED BY <2>1, <2>2, <2>3
<1>8. Shape'
  BY <1>1, <1>7 DEF Shape
<1>9. /\ q[t].ahead \cap Marking # {}
      /\ \A n : n \notin Marking => (n \in b.ahead <=> n \in q[t].ahead)
      /\ q[t].ahead \cap Counting = {}
  <2>1. Counting \cap b.ahead = {}
    BY <1>3 DEF Ordered
  <2> QED BY <1>2, <1>3, <2>1
<1> QED BY <1>1, <1>5, <1>6, <1>8, <1>9, Marked

-----------------------------------------------------------------------------
(* What is sent.                                                            *)

(* The retriever sends the group it has, once.                              *)
LEMMA HasVisit ==
    ASSUME NEW q \in [Thread -> Stage], InHand(q), NEW n \in Sending, NEW b \in Stage,
           Ordered("UR", n, b), q["UR"].ahead = {n} \cup b.ahead
    PROVE  /\ "sent" \in b.ahead /\ "setVisiting" \notin q["UR"].ahead /\ b.ahead \cap Sending = {}
           /\ local["UR"].group \in Group /\ visiting = local["UR"].group /\ visiting # NoGroup
           /\ Unsent(q["UR"]) /\ b.ahead \cap Taking = {}
<1>1. n \in Taking /\ n # "setVisiting"
  BY DEF Sending, Taking
<1>2. "sent" \in b.ahead /\ Sending \cap b.ahead = {} /\ "setVisiting" \notin b.ahead
  BY <1>1 DEF Ordered
<1>3. "sent" \in q["UR"].ahead /\ "setVisiting" \notin q["UR"].ahead /\ q["UR"].ahead \cap Sending # {}
  BY <1>1, <1>2
<1>4. local["UR"].group \in Group /\ visiting = local["UR"].group /\ visiting # NoGroup
  BY <1>3 DEF InHand
<1>5. Unsent(q["UR"])
  BY <1>1 DEF Unsent
<1>6. b.ahead \cap Taking = {}
  BY <1>2 DEF Sending, Taking
<1> QED BY <1>2, <1>3, <1>4, <1>5, <1>6

LEMMA SendStep ==
    ASSUME NEW q \in [Thread -> Stage], Inv(q), NEW t \in Thread, Send(t) PROVE IInv'
<1>1. /\ Reached(q) /\ Owned(q) /\ Thrown(q) /\ Shape /\ Complete(q) /\ GivenUp(q) /\ InHand(q) /\ Reported(q)
      /\ Calm => Undisturbed(q)
      /\ At(t, "send") /\ local' = [local EXCEPT ![t].sent = FALSE]
      /\ UNCHANGED <<thrown, lock, waiting, clientState, visiting, socket, vmState, attached, pinged,
                     group, queue, pushed, remote, expiries>>
  BY DEF Inv, Send, clientVars, vmVars, groupVars, envVars
<1>2. "send" \in Simple /\ "write" \in Simple /\ "write" \notin {"while", "wait"}
  BY DEF Simple
<1>3. PICK b \in Stage : After(t, "send", q[t], b)
  BY <1>1, <1>2, AfterPlain
<1>4. /\ Tail(todo[t]) \in Seq(Operation) /\ Leads(t, Tail(todo[t]), b)
      /\ q[t].vm = b.vm /\ q[t].ur = b.ur /\ q[t].ahead = {"send"} \cup b.ahead
      /\ Ordered(t, "send", b) /\ Sheltered(b) /\ (t # "UR" => b.ur = 0) /\ Fit(t, b)
  BY <1>3 DEF After, Marking
<1>5. PICK w \in Seq(Operation), c \in Stage :
          /\ todo' = [todo EXCEPT ![t] = w] /\ Leads(t, w, c) /\ c.vm = b.vm /\ c.ur = b.ur
          /\ c.ahead = b.ahead \/ c.ahead = {"write"} \cup b.ahead
  <2>1. CASE clientState = "DISCONNECTED"
    <3>1. Done(t)
      BY <2>1 DEF Send, Done
    <3>2. todo' = [todo EXCEPT ![t] = Tail(todo[t])]
      BY <1>1, <3>1, DoneWord
    <3> QED BY <1>4, <3>2
  <2>2. CASE clientState # "DISCONNECTED"
    <3>1. PICK s : s = Tail(todo[t])
      OBVIOUS
    <3>2. todo' = [todo EXCEPT ![t] = Do("write") \o s]
      BY <2>2, <3>1 DEF Send, Call
    <3>3. <<"write", "()">> \in OpsOf(t)
      BY SharedOps
    <3>4. Ordered(t, "write", b)
      BY <1>4 DEF Ordered, Counting, Marking, Taking, Sending
    <3>5. Sheltered(With({"write"}, b))
      BY <1>4 DEF Sheltered, With
    <3>6. /\ Do("write") \o s \in Seq(Operation)
          /\ With({"write"}, b) \in Stage /\ Leads(t, Do("write") \o s, With({"write"}, b))
      BY <1>2, <1>4, <3>1, <3>3, <3>4, <3>5, Pushed
    <3>7. PICK c : c = With({"write"}, b)
      OBVIOUS
    <3>8. c.vm = b.vm /\ c.ur = b.ur /\ c.ahead = {"write"} \cup b.ahead
      BY <3>7 DEF With
    <3> QED BY <3>2, <3>6, <3>7, <3>8
  <2> QED BY <2>1, <2>2
<1>6. PICK r : r = [q EXCEPT ![t] = c]
  OBVIOUS
<1>7. r \in [Thread -> Stage] /\ r[t] = c /\ \A s \in Thread : s # t => r[s] = q[s]
  BY <1>6, Stages
<1>8. Reached(r)' /\ Owned(r)' /\ Thrown(r)'
  BY <1>1, <1>4, <1>5, <1>6, Onward
<1>9. /\ local' \in [Thread -> [group : Group \cup {NoGroup}, count : 0..ErrorBound, sent : BOOLEAN]]
      /\ local'[t].sent = FALSE /\ \A s \in Thread : s # t => local'[s] = local[s]
      /\ \A s \in Thread : local'[s].group = local[s].group
  BY <1>1 DEF Shape
<1>10. Shape'
  BY <1>1, <1>9 DEF Shape
<1>11. Complete(r)'
  <2>1. q[t].ahead \cap {"detach", "close"} \subseteq c.ahead
    BY <1>4, <1>5
  <2> QED BY <1>1, <1>6, <2>1, CompleteKept
<1>12. c.ahead \cap Marking = {}
  BY <1>4, <1>5 DEF Fit, Marking
<1>13. CASE t = "UR"
  <2>1. "send" \in Sending
    BY DEF Sending
  <2>2. /\ "sent" \in b.ahead /\ "setVisiting" \notin q["UR"].ahead
        /\ local["UR"].group \in Group /\ visiting = local["UR"].group /\ visiting # NoGroup
        /\ Unsent(q["UR"])
    BY <1>1, <1>4, <1>13, <2>1, HasVisit
  <2>3. "sent" \in c.ahead /\ "setVisiting" \notin c.ahead
    BY <1>4, <1>5, <1>13, <2>2
  <2>4. GivenUp(r)'
    <3>1. WillFail(r["UR"])'
      BY <1>7, <1>9, <1>13, <2>3 DEF WillFail
    <3>2. WillMark(r, visiting)'
      BY <3>1 DEF WillMark
    <3> QED BY <3>2 DEF GivenUp
  <2>5. InHand(r)'
    <3>1. \A s \in Thread : r[s].ahead \cap Marking # {} => local'[s].group \in Group
      BY <1>1, <1>7, <1>9, <1>12 DEF InHand
    <3>2. local'["UR"].group = local["UR"].group /\ ~local'["UR"].sent
      BY <1>9, <1>13, Threads
    <3> QED BY <1>1, <1>7, <1>13, <2>2, <2>3, <3>1, <3>2 DEF InHand
  <2>6. Reported(r)'
    BY <1>1, <1>6, <1>13, <2>2, ReportedKept
  <2>7. ASSUME Calm PROVE Undisturbed(r)'
    <3>1. Undisturbed(q)
      BY <1>1, <2>7
    <3>2. c.ahead \subseteq Gentle
      <4>1. q["UR"].ahead \subseteq Gentle
        BY <3>1 DEF Undisturbed
      <4>2. "write" \in Gentle
        BY DEF Gentle
      <4> QED BY <1>4, <1>5, <1>13, <4>1, <4>2
    <3> QED BY <1>1, <1>6, <1>13, <2>2, <3>1, <3>2, UndisturbedKept
  <2>8. Inv(r)'
    BY <1>8, <1>10, <1>11, <2>4, <2>5, <2>6, <2>7 DEF Inv
  <2> QED BY <1>7, <2>8 DEF IInv
<1>14. CASE t # "UR"
  <2>1. r["UR"] = q["UR"] /\ local'["UR"] = local["UR"]
    BY <1>7, <1>9, <1>14, Threads
  <2>2. GivenUp(r)'
    <3>1. StillMarks(t, q[t], c)
      BY <1>4, <1>5 DEF StillMarks, Looking, Counting
    <3>2. WillFail(q["UR"]) => WillFail(r["UR"])'
      BY <2>1 DEF WillFail
    <3> QED BY <1>1, <1>6, <1>9, <3>1, <3>2, GivenUpKept
  <2>3. InHand(r)'
    <3>1. NothingNew(t, q[t], c)
      BY <1>12, <1>14 DEF NothingNew
    <3> QED BY <1>1, <1>6, <1>9, <2>1, <3>1, InHandKept
  <2>4. (Unsent(r["UR"]) \/ MayTake(r["UR"]))' => Unsent(q["UR"]) \/ MayTake(q["UR"])
    BY <1>1, <2>1 DEF Unsent, MayTake
  <2>5. Reported(r)'
    <3>1. c.ahead \cap Reporting \subseteq q[t].ahead
      BY <1>4, <1>5 DEF Reporting
    <3> QED BY <1>1, <1>6, <2>4, <3>1, ReportedKept
  <2>6. ASSUME Calm PROVE Undisturbed(r)'
    <3>1. /\ "WAITING" \in c.ahead => "WAITING" \in q[t].ahead
          /\ c.ahead \cap Ending # {} => q[t].ahead \cap Ending # {}
      BY <1>4, <1>5 DEF Ending
    <3> QED BY <1>1, <1>6, <1>14, <2>4, <2>6, <3>1, UndisturbedKept
  <2>7. Inv(r)'
    BY <1>8, <1>10, <1>11, <2>2, <2>3, <2>5, <2>6 DEF Inv
  <2> QED BY <1>7, <2>7 DEF IInv
<1> QED BY <1>13, <1>14

(* A write that succeeds: the remote client knows of the group.             *)
LEMMA WrittenStep ==
    ASSUME NEW q \in [Thread -> Stage], Inv(q), NEW t \in Thread, Write(t),
           socket = "open", local' = [local EXCEPT ![t].sent = TRUE],
           remote' = IF t = "UR" THEN "told" ELSE remote, Done(t)
    PROVE  IInv'
<1>1. /\ Reached(q) /\ Owned(q) /\ Thrown(q) /\ Shape /\ Complete(q) /\ GivenUp(q) /\ InHand(q) /\ Reported(q)
      /\ Calm => Undisturbed(q)
      /\ At(t, "write")
      /\ UNCHANGED <<thrown, lock, waiting, clientState, visiting, socket, vmState, attached, pinged,
                     group, queue, pushed, expiries>>
  BY DEF Inv, Write, clientVars, vmVars, groupVars
<1>2. "write" \in Simple
  BY DEF Simple
<1>3. PICK b \in Stage : After(t, "write", q[t], b)
  BY <1>1, <1>2, AfterPlain
<1>4. /\ Tail(todo[t]) \in Seq(Operation) /\ Leads(t, Tail(todo[t]), b)
      /\ q[t].vm = b.vm /\ q[t].ur = b.ur /\ q[t].ahead = {"write"} \cup b.ahead
      /\ Ordered(t, "write", b) /\ Fit(t, b)
  BY <1>3 DEF After, Marking
<1>5. todo' = [todo EXCEPT ![t] = Tail(todo[t])]
  BY <1>1, DoneWord
<1>6. PICK r : r = [q EXCEPT ![t] = b]
  OBVIOUS
<1>7. r \in [Thread -> Stage] /\ r[t] = b /\ \A s \in Thread : s # t => r[s] = q[s]
  BY <1>6, Stages
<1>8. Reached(r)' /\ Owned(r)' /\ Thrown(r)'
  BY <1>1, <1>4, <1>5, <1>6, Onward
<1>9. /\ local' \in [Thread -> [group : Group \cup {NoGroup}, count : 0..ErrorBound, sent : BOOLEAN]]
      /\ local'[t].sent = TRUE /\ \A s \in Thread : s # t => local'[s] = local[s]
      /\ \A s \in Thread : local'[s].group = local[s].group
  BY <1>1 DEF Shape
<1>10. Shape'
  BY <1>1, <1>9 DEF Shape
<1>11. Complete(r)'
  <2>1. q[t].ahead \cap {"detach", "close"} \subseteq b.ahead
    BY <1>4
  <2> QED BY <1>1, <1>6, <2>1, CompleteKept
<1>12. GivenUp(r)'
  BY <1>1 DEF GivenUp
<1>13. b.ahead \cap Marking = {}
  BY <1>4 DEF Fit
<1>14. CASE t = "UR"
  <2>1. "write" \in Sending
    BY DEF Sending
  <2>2. /\ "sent" \in b.ahead /\ "setVisiting" \notin q["UR"].ahead /\ b.ahead \cap Sending = {}
        /\ local["UR"].group \in Group /\ visiting = local["UR"].group /\ visiting # NoGroup
        /\ Unsent(q["UR"]) /\ b.ahead \cap Taking = {}
    BY <1>1, <1>4, <1>14, <2>1, HasVisit
  <2>3. r["EC"] = q["EC"] /\ local'["UR"].group = local["UR"].group /\ local'["UR"].sent = TRUE
    BY <1>7, <1>9, <1>14, Threads
  <2>4. InHand(r)'
    <3>1. \A s \in Thread : r[s].ahead \cap Marking # {} => local'[s].group \in Group
      BY <1>1, <1>7, <1>9, <1>13 DEF InHand
    <3>2. "write" \notin r["UR"].ahead /\ "setVisiting" \notin r["UR"].ahead
      BY <1>4, <1>7, <1>14, <2>1, <2>2
    <3> QED BY <1>1, <1>7, <1>14, <2>2, <2>3, <3>1, <3>2 DEF InHand
  <2>5. NoReport(q)
    BY <1>1, <2>2 DEF Reported
  <2>6. ~(Unsent(r["UR"]) \/ MayTake(r["UR"]))'
    BY <1>7, <1>14, <2>2, <2>3 DEF Unsent, MayTake
  <2>7. r["EC"].ahead \cap {"finished", "noGroup", "WAITING"} = {} /\ "WAITING" \notin q["EC"].ahead
    BY <2>3, <2>5 DEF NoReport, Reporting
  <2>8. Reported(r)'
    BY <1>1, <2>2, <2>6, <2>7 DEF Reported
  <2>9. ASSUME Calm PROVE Undisturbed(r)'
    <3>1. r["UR"].ahead \subseteq Gentle
      BY <1>1, <1>4, <1>7, <1>14, <2>9 DEF Undisturbed
    <3> QED BY <2>3, <2>6, <2>7, <3>1 DEF Undisturbed
  <2>10. Inv(r)'
    BY <1>8, <1>10, <1>11, <1>12, <2>4, <2>8, <2>9 DEF Inv
  <2> QED BY <1>7, <2>10 DEF IInv
<1>15. CASE t # "UR"
  <2>1. r["UR"] = q["UR"] /\ local'["UR"] = local["UR"] /\ remote' = remote
    BY <1>7, <1>9, <1>15, Threads
  <2>2. InHand(r)'
    <3>1. NothingNew(t, q[t], b)
      BY <1>13, <1>15 DEF NothingNew
    <3> QED BY <1>1, <1>6, <1>9, <2>1, <3>1, InHandKept
  <2>3. (Unsent(r["UR"]) \/ MayTake(r["UR"]))' => Unsent(q["UR"]) \/ MayTake(q["UR"])
    BY <1>1, <2>1 DEF Unsent, MayTake
  <2>4. Reported(r)'
    <3>1. b.ahead \cap Reporting \subseteq q[t].ahead
      BY <1>4
    <3> QED BY <1>1, <1>6, <2>1, <2>3, <3>1, ReportedKept
  <2>5. ASSUME Calm PROVE Undisturbed(r)'
    <3>1. b.ahead \subseteq q[t].ahead
      BY <1>4
    <3> QED BY <1>1, <1>6, <1>15, <2>3, <2>5, <3>1, UndisturbedKept
  <2>6. Inv(r)'
    BY <1>8, <1>10, <1>11, <1>12, <2>2, <2>4, <2>5 DEF Inv
  <2> QED BY <1>7, <2>6 DEF IInv
<1> QED BY <1>14, <1>15

(* A write that fails disconnects the client.                               *)
LEMMA UnwrittenStep ==
    ASSUME NEW q \in [Thread -> Stage], Inv(q), NEW t \in Thread, Write(t),
           socket = "closed" \/ WritesFail, Call(t, SetClientState("DISCONNECTED")), local' = local, remote' = remote
    PROVE  IInv'
<1>1. /\ Reached(q) /\ Owned(q) /\ Thrown(q) /\ Shape /\ Complete(q) /\ GivenUp(q) /\ InHand(q) /\ Reported(q)
      /\ Calm => Undisturbed(q)
      /\ At(t, "write")
      /\ UNCHANGED <<thrown, lock, waiting, clientState, visiting, socket, vmState, attached, pinged,
                     group, queue, pushed, expiries>>
  BY DEF Inv, Write, clientVars, vmVars, groupVars
<1>2. "write" \in Simple
  BY DEF Simple
<1>3. PICK b \in Stage : After(t, "write", q[t], b)
  BY <1>1, <1>2, AfterPlain
<1>4. /\ Tail(todo[t]) \in Seq(Operation) /\ Leads(t, Tail(todo[t]), b)
      /\ q[t].vm = b.vm /\ q[t].ur = b.ur /\ q[t].ahead = {"write"} \cup b.ahead
      /\ Ordered(t, "write", b) /\ Fit(t, b)
  BY <1>3 DEF After, Marking
<1>5. PICK w \in Seq(Operation), c \in Stage :
          /\ todo' = [todo EXCEPT ![t] = w] /\ Leads(t, w, c) /\ c.vm = b.vm /\ c.ur = b.ur
          /\ c.ahead = {"lock", "DISCONNECTED", "vm"} \cup b.ahead
  <2>1. todo' = [todo EXCEPT ![t] = SetClientState("DISCONNECTED") \o Tail(todo[t])]
    BY DEF Call
  <2>2. "DISCONNECTED" \in CLIENT_STATE /\ Allowed(t, "DISCONNECTED", b)
    BY DEF CLIENT_STATE, Allowed
  <2>3. PICK w \in Seq(Operation), c \in Stage :
            /\ w = SetClientState("DISCONNECTED") \o Tail(todo[t])
            /\ c = With({"lock", "DISCONNECTED", "vm"}, b) /\ Leads(t, w, c)
    BY <1>4, <2>2, CallState, SharedOps
  <2> QED BY <2>1, <2>3 DEF With
<1>6. PICK r : r = [q EXCEPT ![t] = c]
  OBVIOUS
<1>7. r \in [Thread -> Stage] /\ r[t] = c /\ \A s \in Thread : s # t => r[s] = q[s]
  BY <1>6, Stages
<1>8. Reached(r)' /\ Owned(r)' /\ Thrown(r)'
  BY <1>1, <1>4, <1>5, <1>6, Onward
<1>9. Shape'
  BY <1>1 DEF Shape
<1>10. Complete(r)'
  <2>1. q[t].ahead \cap {"detach", "close"} \subseteq c.ahead
    BY <1>4, <1>5
  <2> QED BY <1>1, <1>6, <2>1, CompleteKept
<1>11. c.ahead \cap Marking = {} /\ c.ahead \cap Reporting \subseteq q[t].ahead
  <2>1. {"lock", "DISCONNECTED", "vm"} \cap Marking = {} /\ {"lock", "DISCONNECTED", "vm"} \cap Reporting = {}
    BY DEF Marking, Reporting
  <2> QED BY <1>4, <1>5, <2>1 DEF Fit
<1>12. "write" \in Sending
  BY DEF Sending
<1>13. t = "UR" =>
          /\ "sent" \in b.ahead /\ "setVisiting" \notin q["UR"].ahead /\ b.ahead \cap Sending = {}
          /\ Unsent(q["UR"])
  BY <1>1, <1>4, <1>12, HasVisit
<1>14. StillMarks(t, q[t], c)
  BY <1>4, <1>5 DEF StillMarks, Looking, Counting
<1>15. t # "UR" => r["UR"] = q["UR"]
  BY <1>7, Threads
<1>16. GivenUp(r)'
  <2>1. WillFail(q["UR"]) => WillFail(r["UR"])'
    <3>1. CASE t = "UR"
      <4>1. ~local["UR"].sent
        BY <1>1, <1>4, <3>1 DEF InHand
      <4> QED BY <1>5, <1>7, <1>13, <3>1, <4>1 DEF WillFail
    <3>2. CASE t # "UR"
      BY <1>15, <3>2 DEF WillFail
    <3> QED BY <3>1, <3>2
  <2> QED BY <1>1, <1>6, <1>14, <2>1, GivenUpKept
<1>17. InHand(r)'
  <2>1. CASE t = "UR"
    <3>1. \A s \in Thread : r[s].ahead \cap Marking # {} => local'[s].group \in Group
      BY <1>1, <1>7, <1>11, <2>1 DEF InHand
    <3>2. "setVisiting" \notin r["UR"].ahead /\ "write" \notin r["UR"].ahead /\ r["UR"].ahead \cap Sending = {}
      BY <1>4, <1>5, <1>7, <1>13, <2>1 DEF Sending
    <3>3. "sent" \in q["UR"].ahead
      BY <1>4, <1>13, <2>1
    <3> QED BY <1>1, <1>13, <2>1, <3>1, <3>2, <3>3 DEF InHand
  <2>2. CASE t # "UR"
    <3>1. NothingNew(t, q[t], c)
      BY <1>11, <2>2 DEF NothingNew
    <3> QED BY <1>1, <1>6, <3>1, InHandKept
  <2> QED BY <2>1, <2>2
<1>18. (Unsent(r["UR"]) \/ MayTake(r["UR"]))' => Unsent(q["UR"]) \/ MayTake(q["UR"])
  BY <1>1, <1>13, <1>15 DEF Unsent, MayTake
<1>19. Reported(r)'
  BY <1>1, <1>6, <1>11, <1>18, ReportedKept
<1>20. ~Calm
  <2> SUFFICES ASSUME Calm PROVE FALSE
    OBVIOUS
  <2>1. Undisturbed(q) /\ socket = "closed"
    BY <1>1 DEF Calm
  <2>2. ~Steady(q)
    BY <2>1 DEF Steady
  <2>3. t # "UR"
    BY <1>13, <2>1, <2>2 DEF Undisturbed
  <2>4. t = "EC"
    BY <2>3, Threads
  <2>5. "WAITING" \in q["EC"].ahead
    BY <1>4, <2>4 DEF Ordered
  <2> QED BY <2>1, <2>2, <2>5 DEF Undisturbed
<1>21. Inv(r)'
  BY <1>8, <1>9, <1>10, <1>16, <1>17, <1>19, <1>20 DEF Inv
<1> QED BY <1>7, <1>21 DEF IInv

LEMMA WriteStep ==
    ASSUME NEW q \in [Thread -> Stage], Inv(q), NEW t \in Thread, Write(t) PROVE IInv'
<1>1. \/ socket = "open" /\ local' = [local EXCEPT ![t].sent = TRUE]
         /\ (remote' = IF t = "UR" THEN "told" ELSE remote) /\ Done(t)
      \/ (socket = "closed" \/ WritesFail) /\ Call(t, SetClientState("DISCONNECTED")) /\ local' = local
         /\ remote' = remote
  BY DEF Write
<1> QED BY <1>1, WrittenStep, UnwrittenStep

-----------------------------------------------------------------------------
(* The reports of the remote client.                                        *)

LEMMA ReceivedStep ==
    ASSUME NEW q \in [Thread -> Stage], Inv(q), NEW op \in {"started", "finished"}, At("EC", op),
           NEW st \in {"VISITING", "VISITED"},
           group' = [group EXCEPT ![visiting].state = st, ![visiting].changed = TRUE],
           local' = [local EXCEPT !["EC"].group = visiting], Call("EC", Do("notifyObservers")),
           UNCHANGED <<thrown, lock, waiting, clientState, visiting, socket, vmState, attached, pinged,
                       queue, pushed, remote, expiries>>
    PROVE  IInv'
<1>1. /\ Reached(q) /\ Owned(q) /\ Thrown(q) /\ Shape /\ Complete(q) /\ GivenUp(q) /\ InHand(q) /\ Reported(q)
      /\ Calm => Undisturbed(q)
      /\ "EC" \in Thread /\ "UR" \in Thread
  BY Threads DEF Inv
<1>2. op \in Simple /\ op \notin Marking /\ op # "notify" /\ op \notin Looking
  BY DEF Simple, Marking, Looking
<1>3. PICK b \in Stage : After("EC", op, q["EC"], b)
  BY <1>1, <1>2, AfterPlain
<1>4. /\ Tail(todo["EC"]) \in Seq(Operation) /\ Leads("EC", Tail(todo["EC"]), b)
      /\ q["EC"].vm = b.vm /\ q["EC"].ur = b.ur /\ q["EC"].ahead = {op} \cup b.ahead /\ b.ur = 0
      /\ Sheltered(b) /\ Fit("EC", b)
  BY <1>2, <1>3 DEF After
<1>5. PICK w \in Seq(Operation), c \in Stage :
          /\ todo' = [todo EXCEPT !["EC"] = w] /\ Leads("EC", w, c) /\ c.vm = b.vm /\ c.ur = b.ur
          /\ c.ahead = {"notifyObservers"} \cup b.ahead
  <2>1. PICK s : s = Tail(todo["EC"])
    OBVIOUS
  <2>2. todo' = [todo EXCEPT !["EC"] = Do("notifyObservers") \o s]
    BY <2>1 DEF Call
  <2>3. /\ "notifyObservers" \in Simple /\ <<"notifyObservers", "()">> \in OpsOf("EC")
        /\ "notifyObservers" \notin {"while", "wait"}
    BY SharedOps DEF Simple
  <2>4. Ordered("EC", "notifyObservers", b)
    BY <1>4 DEF Fit, Ordered, Counting, Marking, Taking, Sending
  <2>5. Sheltered(With({"notifyObservers"}, b))
    BY <1>4 DEF Sheltered, With
  <2>6. /\ Do("notifyObservers") \o s \in Seq(Operation)
        /\ With({"notifyObservers"}, b) \in Stage
        /\ Leads("EC", Do("notifyObservers") \o s, With({"notifyObservers"}, b))
    BY <1>4, <2>1, <2>3, <2>4, <2>5, Pushed
  <2>7. PICK c : c = With({"notifyObservers"}, b)
    OBVIOUS
  <2>8. c.vm = b.vm /\ c.ur = b.ur /\ c.ahead = {"notifyObservers"} \cup b.ahead
    BY <2>7 DEF With
  <2> QED BY <2>2, <2>6, <2>7, <2>8
<1>6. PICK r : r = [q EXCEPT !["EC"] = c]
  OBVIOUS
<1>7. r \in [Thread -> Stage] /\ r["EC"] = c /\ r["UR"] = q["UR"] /\ \A s \in Thread : s # "EC" => r[s] = q[s]
  BY <1>1, <1>6, Stages
<1>8. Reached(r)' /\ Owned(r)' /\ Thrown(r)'
  BY <1>1, <1>4, <1>5, <1>6, Onward
<1>9. visiting \in Group
  <2>1. visiting # NoGroup
    BY <1>1, <1>4 DEF Reported
  <2> QED BY <1>1, <2>1 DEF Shape
<1>10. /\ local \in [Thread -> [group : Group \cup {NoGroup}, count : 0..ErrorBound, sent : BOOLEAN]]
       /\ group \in [Group -> [state : {"NONE", "VISITING", "VISITED", "ERROR"}, errorCount : 0..ErrorBound,
                               changed : BOOLEAN]]
  BY <1>1 DEF Shape
<1>11. /\ local' \in [Thread -> [group : Group \cup {NoGroup}, count : 0..ErrorBound, sent : BOOLEAN]]
       /\ local'["EC"].group = visiting /\ \A s \in Thread : s # "EC" => local'[s] = local[s]
       /\ local'["UR"] = local["UR"]
  BY <1>1, <1>9, <1>10
<1>12. /\ group' \in [Group -> [state : {"NONE", "VISITING", "VISITED", "ERROR"}, errorCount : 0..ErrorBound,
                                changed : BOOLEAN]]
       /\ \A g \in Group : group'[g].errorCount = group[g].errorCount
  BY <1>9, <1>10
<1>13. Shape'
  BY <1>1, <1>11, <1>12 DEF Shape
<1>14. Complete(r)'
  <2>1. q["EC"].ahead \cap {"detach", "close"} \subseteq c.ahead
    BY <1>4, <1>5
  <2> QED BY <1>1, <1>6, <2>1, CompleteKept
<1>15. GivenUp(r)'
  <2>1. q["EC"].ahead \cap Counting = {}
    BY <1>2, <1>4 DEF Fit, Marking, Counting
  <2>2. StillMarks("EC", q["EC"], c)
    BY <1>2, <1>4, <1>5, <2>1 DEF StillMarks
  <2>3. WillFail(q["UR"]) => WillFail(r["UR"])'
    BY <1>7, <1>11 DEF WillFail
  <2>4. visiting # NoGroup /\ group[visiting].errorCount > 0 => group'[visiting].errorCount > 0
    BY <1>9, <1>12
  <2>5. \A s \in Thread : s # "EC" => local'[s].group = local[s].group
    BY <1>11
  <2>6. thrown \subseteq thrown' /\ (socket' = "closed" => socket = "closed") /\ visiting' \in {NoGroup, visiting}
    OBVIOUS
  <2> QED BY <1>1, <1>6, <2>1, <2>2, <2>3, <2>4, <2>5, <2>6, GivenUpKept
<1>16. InHand(r)'
  <2>1. \A s \in Thread : r[s].ahead \cap Marking # {} => local'[s].group \in Group
    BY <1>1, <1>7, <1>9, <1>11 DEF InHand
  <2> QED BY <1>1, <1>7, <1>11, <2>1 DEF InHand
<1>17. (Unsent(r["UR"]) \/ MayTake(r["UR"]))' => Unsent(q["UR"]) \/ MayTake(q["UR"])
  BY <1>1, <1>7, <1>11 DEF Unsent, MayTake
<1>18. Reported(r)'
  <2>1. c.ahead \cap Reporting \subseteq q["EC"].ahead
    BY <1>4, <1>5 DEF Reporting
  <2> QED BY <1>1, <1>6, <1>17, <2>1, ReportedKept
<1>19. ASSUME Calm PROVE Undisturbed(r)'
  <2>1. /\ "WAITING" \in c.ahead => "WAITING" \in q["EC"].ahead
        /\ c.ahead \cap Ending # {} => q["EC"].ahead \cap Ending # {}
    BY <1>4, <1>5 DEF Ending
  <2> QED BY <1>1, <1>6, <1>17, <1>19, <2>1, UndisturbedKept
<1>20. Inv(r)'
  BY <1>8, <1>13, <1>14, <1>15, <1>16, <1>18, <1>19 DEF Inv
<1> QED BY <1>7, <1>20 DEF IInv

LEMMA StartedStep ==
    ASSUME NEW q \in [Thread -> Stage], Inv(q), Started PROVE IInv'
<1>1. PICK op, st : op = "started" /\ st = "VISITING"
  OBVIOUS
<1>2. /\ At("EC", op) /\ group' = [group EXCEPT ![visiting].state = st, ![visiting].changed = TRUE]
      /\ local' = [local EXCEPT !["EC"].group = visiting] /\ Call("EC", Do("notifyObservers"))
      /\ UNCHANGED <<thrown, lock, waiting, clientState, visiting, socket, vmState, attached, pinged,
                     queue, pushed, remote, expiries>>
  BY <1>1 DEF Started, clientVars, vmVars, envVars
<1> QED BY <1>1, <1>2, ReceivedStep

LEMMA FinishedStep ==
    ASSUME NEW q \in [Thread -> Stage], Inv(q), Finished PROVE IInv'
<1>1. PICK op, st : op = "finished" /\ st = "VISITED"
  OBVIOUS
<1>2. /\ At("EC", op) /\ group' = [group EXCEPT ![visiting].state = st, ![visiting].changed = TRUE]
      /\ local' = [local EXCEPT !["EC"].group = visiting] /\ Call("EC", Do("notifyObservers"))
      /\ UNCHANGED <<thrown, lock, waiting, clientState, visiting, socket, vmState, attached, pinged,
                     queue, pushed, remote, expiries>>
  BY <1>1 DEF Finished, clientVars, vmVars, envVars
<1> QED BY <1>1, <1>2, ReceivedStep

(* The group is let go: the retriever is not about to send it.              *)
LEMMA NoMoreGroupStep ==
    ASSUME NEW q \in [Thread -> Stage], Inv(q), NoMoreGroup PROVE IInv'
<1>1. /\ Reached(q) /\ Owned(q) /\ Thrown(q) /\ Shape /\ Complete(q) /\ InHand(q) /\ Reported(q)
      /\ Calm => Undisturbed(q)
      /\ At("EC", "noGroup") /\ Done("EC") /\ visiting' = NoGroup /\ "EC" \in Thread /\ "UR" \in Thread
      /\ UNCHANGED <<local, thrown, lock, waiting, clientState, socket, vmState, attached, pinged,
                     group, queue, pushed, remote, expiries>>
  BY Threads DEF Inv, NoMoreGroup, vmVars, groupVars, envVars
<1>2. PICK b \in Stage : After("EC", "noGroup", q["EC"], b)
  <2>1. "noGroup" \in Simple
    BY DEF Simple
  <2> QED BY <1>1, <2>1, AfterPlain
<1>3. /\ Tail(todo["EC"]) \in Seq(Operation) /\ Leads("EC", Tail(todo["EC"]), b)
      /\ q["EC"].vm = b.vm /\ q["EC"].ur = b.ur /\ q["EC"].ahead = {"noGroup"} \cup b.ahead
      /\ b.ahead \cap {"started", "finished", "noGroup"} = {}
  BY <1>2 DEF After, Ordered
<1>4. todo' = [todo EXCEPT !["EC"] = Tail(todo["EC"])]
  BY <1>1, DoneWord
<1>5. PICK r : r = [q EXCEPT !["EC"] = b]
  OBVIOUS
<1>6. r \in [Thread -> Stage] /\ r["EC"] = b /\ r["UR"] = q["UR"] /\ \A s \in Thread : s # "EC" => r[s] = q[s]
  BY <1>1, <1>5, Stages
<1>7. Reached(r)' /\ Owned(r)' /\ Thrown(r)'
  BY <1>1, <1>3, <1>4, <1>5, Onward
<1>8. Shape'
  BY <1>1 DEF Shape
<1>9. Complete(r)'
  <2>1. q["EC"].ahead \cap {"detach", "close"} \subseteq b.ahead
    BY <1>3
  <2> QED BY <1>1, <1>5, <2>1, CompleteKept
<1>10. GivenUp(r)'
  BY <1>1 DEF GivenUp
<1>11. ~(Unsent(q["UR"]) \/ MayTake(q["UR"])) /\ remote = "none"
  <2>1. "noGroup" \in q["EC"].ahead /\ "noGroup" \in Reporting
    BY <1>3 DEF Reporting
  <2>2. ~NoReport(q)
    BY <2>1 DEF NoReport
  <2> QED BY <1>1, <2>1, <2>2 DEF Reported
<1>12. ~(Unsent(r["UR"]) \/ MayTake(r["UR"]))'
  BY <1>1, <1>6, <1>11 DEF Unsent, MayTake
<1>13. InHand(r)'
  <2>1. \A s \in Thread : r[s].ahead \cap Marking # {} => local'[s].group \in Group
    <3>1. b.ahead \subseteq q["EC"].ahead
      BY <1>3
    <3> QED BY <1>1, <1>6, <3>1 DEF InHand
  <2>2. r["UR"].ahead \cap Sending = {}
    BY <1>6, <1>11 DEF Unsent, Sending, Taking
  <2> QED BY <1>1, <1>6, <2>1, <2>2 DEF InHand
<1>14. Reported(r)'
  BY <1>1, <1>3, <1>6, <1>11, <1>12 DEF Reported
<1>15. ASSUME Calm PROVE Undisturbed(r)'
  <2>1. b.ahead \subseteq q["EC"].ahead
    BY <1>3
  <2> QED BY <1>1, <1>5, <1>12, <1>15, <2>1, UndisturbedKept
<1>16. Inv(r)'
  BY <1>7, <1>8, <1>9, <1>10, <1>13, <1>14, <1>15 DEF Inv
<1> QED BY <1>6, <1>16 DEF IInv

(* A thread that is in no call begins one.                                  *)
LEMMA Begun ==
    ASSUME NEW q \in [Thread -> Stage], Reached(q), Owned(q), Thrown(q), Shape,
           NEW t \in Thread, t # "UR", Idle(t), NEW w \in Seq(Operation), NEW c \in Stage, Leads(t, w, c),
           c.vm = 0, c.ur = 0, todo' = [todo EXCEPT ![t] = w],
           lock' = lock, waiting' = waiting, thrown' = thrown, NEW r, r = [q EXCEPT ![t] = c]
    PROVE  Reached(r)' /\ Owned(r)' /\ Thrown(r)' /\ q[t] = End
<1>1. todo[t] = <<>> /\ (t \notin thrown \/ t = "CK")
  BY DEF Idle
<1>2. q[t] = End
  BY <1>1, AtRest
<1>3. q[t].vm = 0 /\ q[t].ur = 0
  BY <1>2 DEF End
<1>4. Reached(r)'
  BY Advanced
<1>5. Owned(r)'
  BY <1>3, OwnedKept
<1>6. Thrown(r)'
  BY <1>1, ThrownKept
<1> QED BY <1>2, <1>4, <1>5, <1>6

(* The words of setClientState and setState on their own.                   *)
LEMMA StateWord ==
    ASSUME NEW t, NEW s \in CLIENT_STATE, <<"clientState", s>> \in OpsOf(t), s # "CONNECTED"
    PROVE  \E w \in Seq(Operation), c \in Stage :
              /\ w = SetClientState(s) /\ Leads(t, w, c) /\ Fit(t, c)
              /\ c.vm = 0 /\ c.ur = 0 /\ c.ahead = {"lock", s, "vm"}
<1>1. PICK e : e = <<>>
  OBVIOUS
<1>2. PICK b \in Stage : b = End
  BY DEF End, Stage
<1>3. b.vm = 0 /\ b.ur = 0 /\ b.ahead = {}
  BY <1>2 DEF End
<1>4. e \in Seq(Operation) /\ Leads(t, e, b) /\ Fit(t, b) /\ Allowed(t, s, b)
  <2>1. e \in Seq(Operation)
    BY <1>1
  <2>2. Leads(t, e, b)
    BY <1>1, <1>2, EmptyWord
  <2> QED BY <1>3, <2>1, <2>2 DEF Fit, Sheltered, Allowed
<1>5. PICK w, c : w = SetClientState(s) \o e /\ c = With({"lock", s, "vm"}, b)
  OBVIOUS
<1>6. w \in Seq(Operation) /\ c \in Stage /\ Leads(t, w, c)
  BY <1>4, <1>5, CallState
<1>7. c.vm = 0 /\ c.ur = 0 /\ c.ahead = {"lock", s, "vm"}
  BY <1>3, <1>5 DEF With
<1>8. w = SetClientState(s)
  <2>1. <<"lock", "vm">> \in Operation /\ <<"unlock", "vm">> \in Operation /\ <<"clientState", s>> \in Operation
    BY Labels
  <2>2. SetClientState(s) \in Seq(Operation)
    BY <2>1 DEF SetClientState, Synchronized
  <2> QED BY <1>1, <1>5, <2>2, ConcatEmptySeq
<1>9. Fit(t, c)
  <2>1. {"lock", s, "vm"} \cap Marking = {} /\ "setVisiting" \notin {"lock", s, "vm"}
    BY DEF Marking, CLIENT_STATE
  <2> QED BY <1>7, <2>1 DEF Fit, Sheltered, CLIENT_STATE
<1> QED BY <1>6, <1>7, <1>8, <1>9

LEMMA VmWord ==
    ASSUME NEW t, NEW s \in {"RUNNING", "WAITING_TO_BE_REVERTED"}
    PROVE  \E w \in Seq(Operation), c \in Stage :
              /\ w = SetVmState(s) /\ Leads(t, w, c) /\ Fit(t, c)
              /\ c.vm = 0 /\ c.ur = 0 /\ c.ahead = {"lock", s, "vm"}
<1>1. PICK e : e = <<>>
  OBVIOUS
<1>2. PICK b \in Stage : b = End
  BY DEF End, Stage
<1>3. b.vm = 0 /\ b.ur = 0 /\ b.ahead = {}
  BY <1>2 DEF End
<1>4. e \in Seq(Operation) /\ Leads(t, e, b) /\ Fit(t, b)
  <2>1. e \in Seq(Operation)
    BY <1>1
  <2>2. Leads(t, e, b)
    BY <1>1, <1>2, EmptyWord
  <2> QED BY <1>3, <2>1, <2>2 DEF Fit, Sheltered
<1>5. PICK w, c : w = SetVmState(s) \o e /\ c = With({"lock", s, "vm"}, b)
  OBVIOUS
<1>6. w \in Seq(Operation) /\ c \in Stage /\ Leads(t, w, c)
  BY <1>4, <1>5, CallVm
<1>7. c.vm = 0 /\ c.ur = 0 /\ c.ahead = {"lock", s, "vm"}
  BY <1>3, <1>5 DEF With
<1>8. w = SetVmState(s)
  <2>1. <<"lock", "vm">> \in Operation /\ <<"unlock", "vm">> \in Operation /\ <<"vmState", s>> \in Operation
    BY Labels
  <2>2. SetVmState(s) \in Seq(Operation)
    BY <2>1 DEF SetVmState, Synchronized
  <2> QED BY <1>1, <1>5, <2>2, ConcatEmptySeq
<1>9. Fit(t, c)
  <2>1. {"lock", s, "vm"} \cap Marking = {} /\ "setVisiting" \notin {"lock", s, "vm"}
    BY DEF Marking
  <2> QED BY <1>7, <2>1 DEF Fit, Sheltered
<1> QED BY <1>6, <1>7, <1>8, <1>9

(* An operation in front of a word: the first ones of what a thread begins. *)
Opening == {"started", "finished", "noGroup", "useGroup", "send", "setError"}
Begins(t, n, s, b) ==
    \E w \in Seq(Operation), c \in Stage :
        /\ w = Do(n) \o s /\ Leads(t, w, c) /\ Fit(t, c)
        /\ c.vm = 0 /\ c.ur = 0 /\ c.ahead = {n} \cup b.ahead

LEMMA FrontWord ==
    ASSUME NEW t, NEW s \in Seq(Operation), NEW b \in Stage, Leads(t, s, b), Fit(t, b), b.vm = 0, b.ur = 0,
           NEW n \in Opening, <<n, "()">> \in OpsOf(t), Ordered(t, n, b)
    PROVE  Begins(t, n, s, b)
<1>1. n \in Simple /\ n \notin Marking /\ n \notin {"setVisiting", "detach", "close", "while", "wait"}
  BY DEF Opening, Simple, Marking
<1>2. PICK w, c : w = Do(n) \o s /\ c = With({n}, b)
  OBVIOUS
<1>3. Sheltered(b) /\ Sheltered(With({n}, b))
  BY <1>1 DEF Fit, Sheltered, With
<1>4. w \in Seq(Operation) /\ c \in Stage /\ Leads(t, w, c)
  BY <1>1, <1>2, <1>3, Pushed
<1>5. c.vm = 0 /\ c.ur = 0 /\ c.ahead = {n} \cup b.ahead
  BY <1>2 DEF With
<1>6. Fit(t, c)
  BY <1>1, <1>2, <1>3, <1>5 DEF Fit
<1> QED BY <1>2, <1>4, <1>5, <1>6 DEF Begins

(* A report of the remote client, which has a group.                        *)
LEMMA ReportStep ==
    ASSUME NEW q \in [Thread -> Stage], Inv(q), Idle("EC"), socket = "open", remote # "none",
           NEW w \in Seq(Operation), NEW c \in Stage, Leads("EC", w, c), c.vm = 0, c.ur = 0,
           todo' = [todo EXCEPT !["EC"] = w], remote' \in {"none", "told", "started"}, c.ahead \cap Marking = {},
           c.ahead \cap {"finished", "noGroup", "WAITING"} # {} => remote' = "none",
           "WAITING" \in c.ahead => c.ahead \cap Ending = {},
           UNCHANGED <<local, thrown, lock, waiting, clientState, visiting, socket, vmState, attached, pinged,
                       group, queue, pushed, expiries>>
    PROVE  IInv'
<1>1. /\ Reached(q) /\ Owned(q) /\ Thrown(q) /\ Shape /\ Complete(q) /\ InHand(q) /\ Reported(q)
      /\ Calm => Undisturbed(q)
      /\ "EC" \in Thread /\ "UR" \in Thread
  BY Threads DEF Inv
<1>2. PICK r : r = [q EXCEPT !["EC"] = c]
  OBVIOUS
<1>3. r \in [Thread -> Stage] /\ r["EC"] = c /\ r["UR"] = q["UR"] /\ \A s \in Thread : s # "EC" => r[s] = q[s]
  BY <1>1, <1>2, Stages
<1>4. Reached(r)' /\ Owned(r)' /\ Thrown(r)' /\ q["EC"] = End
  BY <1>1, <1>2, Begun
<1>5. q["EC"].ahead = {}
  BY <1>4 DEF End
<1>6. Shape'
  BY <1>1 DEF Shape
<1>7. Complete(r)'
  BY <1>1, <1>2, <1>5, CompleteKept
<1>8. GivenUp(r)'
  BY DEF GivenUp
<1>9. InHand(r)'
  <2>1. NothingNew("EC", q["EC"], c)
    BY DEF NothingNew
  <2> QED BY <1>1, <1>2, <2>1, InHandKept
<1>10. visiting # NoGroup /\ ~(Unsent(q["UR"]) \/ MayTake(q["UR"]))
  BY <1>1 DEF Reported, NoReport
<1>11. ~(Unsent(r["UR"]) \/ MayTake(r["UR"]))'
  BY <1>3, <1>10 DEF Unsent, MayTake
<1>12. Reported(r)'
  BY <1>3, <1>10, <1>11 DEF Reported
<1>13. ASSUME Calm PROVE Undisturbed(r)'
  <2>1. r["UR"].ahead \subseteq Gentle
    BY <1>1, <1>3, <1>13 DEF Undisturbed
  <2>2. "WAITING" \in r["EC"].ahead => Steady(r)'
    BY <1>3 DEF Steady
  <2> QED BY <1>11, <2>1, <2>2 DEF Undisturbed
<1>14. Inv(r)'
  BY <1>4, <1>6, <1>7, <1>8, <1>9, <1>12, <1>13 DEF Inv
<1> QED BY <1>3, <1>14 DEF IInv

LEMMA StartReportStep ==
    ASSUME NEW q \in [Thread -> Stage], Inv(q), StartReport PROVE IInv'
<1>1. /\ Idle("EC") /\ socket = "open" /\ remote # "none" /\ remote' = "started"
      /\ todo' = [todo EXCEPT !["EC"] = Do("started") \o SetClientState("VISITING")]
      /\ UNCHANGED <<local, thrown, lock, waiting, clientState, visiting, socket, vmState, attached, pinged,
                     group, queue, pushed, expiries>>
  BY DEF StartReport, clientVars, vmVars, groupVars
<1>2. PICK v \in Seq(Operation), b \in Stage :
          /\ v = SetClientState("VISITING") /\ Leads("EC", v, b) /\ Fit("EC", b)
          /\ b.vm = 0 /\ b.ur = 0 /\ b.ahead = {"lock", "VISITING", "vm"}
  <2>1. "VISITING" \in CLIENT_STATE /\ <<"clientState", "VISITING">> \in OpsOf("EC")
    BY DEF CLIENT_STATE, OpsOf, OwnOf
  <2> QED BY <2>1, StateWord
<1>3. PICK w \in Seq(Operation), c \in Stage :
          /\ w = Do("started") \o v /\ Leads("EC", w, c) /\ Fit("EC", c)
          /\ c.vm = 0 /\ c.ur = 0 /\ c.ahead = {"started"} \cup b.ahead
  <2>1. "started" \in Opening
    BY DEF Opening
  <2>2. <<"started", "()">> \in OpsOf("EC")
    BY DEF OpsOf, OwnOf, Plain
  <2>3. Ordered("EC", "started", b)
    BY <1>2 DEF Ordered, Counting, Marking, Taking, Sending, Reporting
  <2>4. Begins("EC", "started", v, b)
    BY <1>2, <2>1, <2>2, <2>3, FrontWord
  <2> QED BY <2>4 DEF Begins
<1>4. /\ c.ahead \cap Marking = {} /\ c.ahead \cap {"finished", "noGroup", "WAITING"} = {}
  BY <1>2, <1>3 DEF Marking
<1> QED BY <1>1, <1>2, <1>3, <1>4, ReportStep

LEMMA FinishReportStep ==
    ASSUME NEW q \in [Thread -> Stage], Inv(q), FinishReport PROVE IInv'
<1>1. PICK s \in {"DISCONNECTED", "WAITING"} :
          todo' = [todo EXCEPT !["EC"] = Do("finished") \o Do("noGroup") \o SetClientState(s)]
  BY DEF FinishReport
<1>2. /\ Idle("EC") /\ socket = "open" /\ remote # "none" /\ remote' = "none"
      /\ UNCHANGED <<local, thrown, lock, waiting, clientState, visiting, socket, vmState, attached, pinged,
                     group, queue, pushed, expiries>>
  BY DEF FinishReport, clientVars, vmVars, groupVars
<1>3. PICK v \in Seq(Operation), b \in Stage :
          /\ v = SetClientState(s) /\ Leads("EC", v, b) /\ Fit("EC", b)
          /\ b.vm = 0 /\ b.ur = 0 /\ b.ahead = {"lock", s, "vm"}
  <2>1. s \in CLIENT_STATE /\ s # "CONNECTED"
    BY DEF CLIENT_STATE
  <2>2. <<"clientState", s>> \in OpsOf("EC")
    BY SharedOps DEF OpsOf, OwnOf
  <2> QED BY <2>1, <2>2, StateWord
<1>4. /\ "noGroup" \in Opening /\ "finished" \in Opening
      /\ "noGroup" \in Simple /\ "finished" \in Simple
  BY DEF Opening, Simple
<1>5. <<"noGroup", "()">> \in OpsOf("EC") /\ <<"finished", "()">> \in OpsOf("EC")
  BY DEF OpsOf, OwnOf, Plain
<1>6. PICK u \in Seq(Operation), d \in Stage :
          /\ u = Do("noGroup") \o v /\ Leads("EC", u, d) /\ Fit("EC", d)
          /\ d.vm = 0 /\ d.ur = 0 /\ d.ahead = {"noGroup"} \cup b.ahead
  <2>1. Ordered("EC", "noGroup", b)
    BY <1>3 DEF Ordered, Counting, Marking, Taking, Sending
  <2>2. Begins("EC", "noGroup", v, b)
    BY <1>3, <1>4, <1>5, <2>1, FrontWord
  <2> QED BY <2>2 DEF Begins
<1>7. PICK w \in Seq(Operation), c \in Stage :
          /\ w = Do("finished") \o u /\ Leads("EC", w, c) /\ Fit("EC", c)
          /\ c.vm = 0 /\ c.ur = 0 /\ c.ahead = {"finished"} \cup d.ahead
  <2>1. Ordered("EC", "finished", d)
    BY <1>3, <1>6 DEF Ordered, Counting, Marking, Taking, Sending
  <2>2. Begins("EC", "finished", u, d)
    BY <1>4, <1>5, <1>6, <2>1, FrontWord
  <2> QED BY <2>2 DEF Begins
<1>8. (Do("finished") \o Do("noGroup")) \o SetClientState(s) = w
  <2>1. Do("finished") \in Seq(Operation) /\ Do("noGroup") \in Seq(Operation)
    BY <1>4, Labels DEF Do
  <2> QED BY <1>3, <1>6, <1>7, <2>1, Regroup
<1>9. /\ c.ahead \cap Marking = {}
      /\ "WAITING" \in c.ahead => c.ahead \cap Ending = {}
  <2>1. c.ahead = {"finished", "noGroup", "lock", s, "vm"}
    BY <1>3, <1>6, <1>7
  <2>2. c.ahead \cap Marking = {}
    BY <2>1 DEF Marking
  <2>3. "WAITING" \in c.ahead => c.ahead \cap Ending = {}
    BY <2>1 DEF Ending
  <2> QED BY <2>2, <2>3
<1> QED BY <1>1, <1>2, <1>7, <1>8, <1>9, ReportStep

LEMMA ErrorReportStep ==
    ASSUME NEW q \in [Thread -> Stage], Inv(q), ErrorReport PROVE IInv'
<1>1. todo' = [todo EXCEPT !["EC"] = Do("useGroup") \o Do("noGroup") \o SetClientState("DISCONNECTED")]
  BY DEF ErrorReport
<1>2. /\ Idle("EC") /\ socket = "open" /\ remote # "none" /\ remote' = "none"
      /\ UNCHANGED <<local, thrown, lock, waiting, clientState, visiting, socket, vmState, attached, pinged,
                     group, queue, pushed, expiries>>
  BY DEF ErrorReport, clientVars, vmVars, groupVars
<1>3. PICK v \in Seq(Operation), b \in Stage :
          /\ v = SetClientState("DISCONNECTED") /\ Leads("EC", v, b) /\ Fit("EC", b)
          /\ b.vm = 0 /\ b.ur = 0 /\ b.ahead = {"lock", "DISCONNECTED", "vm"}
  <2>1. "DISCONNECTED" \in CLIENT_STATE
    BY DEF CLIENT_STATE
  <2> QED BY <2>1, SharedOps, StateWord
<1>4. /\ "noGroup" \in Opening /\ "useGroup" \in Opening
      /\ "noGroup" \in Simple /\ "useGroup" \in Simple
  BY DEF Opening, Simple
<1>5. <<"noGroup", "()">> \in OpsOf("EC") /\ <<"useGroup", "()">> \in OpsOf("EC")
  <2>1. <<"noGroup", "()">> \in OpsOf("EC")
    BY DEF OpsOf, OwnOf, Plain
  <2> QED BY <2>1, SharedOps
<1>6. PICK u \in Seq(Operation), d \in Stage :
          /\ u = Do("noGroup") \o v /\ Leads("EC", u, d) /\ Fit("EC", d)
          /\ d.vm = 0 /\ d.ur = 0 /\ d.ahead = {"noGroup"} \cup b.ahead
  <2>1. Ordered("EC", "noGroup", b)
    BY <1>3 DEF Ordered, Counting, Marking, Taking, Sending
  <2>2. Begins("EC", "noGroup", v, b)
    BY <1>3, <1>4, <1>5, <2>1, FrontWord
  <2> QED BY <2>2 DEF Begins
<1>7. PICK w \in Seq(Operation), c \in Stage :
          /\ w = Do("useGroup") \o u /\ Leads("EC", w, c) /\ Fit("EC", c)
          /\ c.vm = 0 /\ c.ur = 0 /\ c.ahead = {"useGroup"} \cup d.ahead
  <2>1. Ordered("EC", "useGroup", d)
    BY <1>3, <1>6 DEF Ordered, Counting, Marking, Taking, Sending
  <2>2. Begins("EC", "useGroup", u, d)
    BY <1>4, <1>5, <1>6, <2>1, FrontWord
  <2> QED BY <2>2 DEF Begins
<1>8. (Do("useGroup") \o Do("noGroup")) \o SetClientState("DISCONNECTED") = w
  <2>1. Do("useGroup") \in Seq(Operation) /\ Do("noGroup") \in Seq(Operation)
    BY <1>4, Labels DEF Do
  <2> QED BY <1>3, <1>6, <1>7, <2>1, Regroup
<1>9. c.ahead \cap Marking = {} /\ "WAITING" \notin c.ahead
  BY <1>3, <1>6, <1>7 DEF Marking
<1> QED BY <1>1, <1>2, <1>7, <1>8, <1>9, ReportStep

-----------------------------------------------------------------------------
(* The timers.                                                              *)

LEMMA TimerStep ==
    ASSUME NEW q \in [Thread -> Stage], Inv(q), NEW t \in Timer, Idle(t),
           NEW w \in Seq(Operation), NEW c \in Stage, Leads(t, w, c), c.vm = 0, c.ur = 0,
           todo' = [todo EXCEPT ![t] = w], Shape', c.ahead \cap Marking = {},
           UNCHANGED <<local, thrown, lock, waiting, clientState, visiting, socket, attached, group, remote>>
    PROVE  IInv'
<1>1. /\ Reached(q) /\ Owned(q) /\ Thrown(q) /\ Shape /\ Complete(q) /\ GivenUp(q) /\ InHand(q) /\ Reported(q)
      /\ t \in Thread /\ t # "UR" /\ t # "EC" /\ ~Calm
  BY ClientThreadsAssumption DEF Inv, Thread, Calm
<1>2. PICK r : r = [q EXCEPT ![t] = c]
  OBVIOUS
<1>3. Reached(r)' /\ Owned(r)' /\ Thrown(r)' /\ q[t] = End
  BY <1>1, <1>2, Begun
<1>4. q[t].ahead = {}
  BY <1>3 DEF End
<1>5. r["UR"] = q["UR"]
  BY <1>1, <1>2, Stages, Threads
<1>6. Complete(r)'
  BY <1>1, <1>2, <1>4, CompleteKept
<1>7. GivenUp(r)'
  <2>1. StillMarks(t, q[t], c)
    BY <1>4 DEF StillMarks
  <2>2. WillFail(q["UR"]) => WillFail(r["UR"])'
    BY <1>5 DEF WillFail
  <2> QED BY <1>1, <1>2, <2>1, <2>2, GivenUpKept
<1>8. InHand(r)'
  <2>1. NothingNew(t, q[t], c)
    BY <1>1 DEF NothingNew
  <2> QED BY <1>1, <1>2, <2>1, InHandKept
<1>9. Reported(r)'
  <2>1. (Unsent(r["UR"]) \/ MayTake(r["UR"]))' => Unsent(q["UR"]) \/ MayTake(q["UR"])
    BY <1>5 DEF Unsent, MayTake
  <2> QED BY <1>1, <1>2, <2>1, ReportedKept
<1>10. Inv(r)'
  BY <1>1, <1>3, <1>6, <1>7, <1>8, <1>9 DEF Inv, Calm
<1> QED BY <1>1, <1>2, <1>10, Stages DEF IInv

LEMMA PingStep ==
    ASSUME NEW q \in [Thread -> Stage], Inv(q), Ping PROVE IInv'
<1>1. /\ "PG" \in Timer /\ Idle("PG") /\ todo' = [todo EXCEPT !["PG"] = Do("send")]
      /\ UNCHANGED <<local, thrown, lock, waiting, clientState, visiting, socket, vmState, attached, pinged,
                     group, queue, pushed, remote, expiries>>
  BY DEF Ping, clientVars, vmVars, groupVars, envVars
<1>2. PICK e \in Seq(Operation), b \in Stage : e = <<>> /\ b = End
  <2>1. End \in Stage /\ <<>> \in Seq(Operation)
    BY DEF End, Stage
  <2> QED BY <2>1
<1>3. b.vm = 0 /\ b.ur = 0 /\ b.ahead = {}
  BY <1>2 DEF End
<1>4. Leads("PG", e, b) /\ Fit("PG", b) /\ Ordered("PG", "send", b)
  <2>1. Leads("PG", e, b)
    BY <1>2, EmptyWord
  <2>2. Fit("PG", b)
    BY <1>3 DEF Fit, Sheltered
  <2>3. Ordered("PG", "send", b)
    BY <1>3 DEF Ordered, Taking, Sending
  <2> QED BY <2>1, <2>2, <2>3
<1>5. "send" \in Opening /\ "send" \in Simple /\ <<"send", "()">> \in OpsOf("PG")
  BY SharedOps DEF Opening, Simple
<1>6. Begins("PG", "send", e, b)
  BY <1>3, <1>4, <1>5, FrontWord
<1>7. PICK w \in Seq(Operation), c \in Stage :
          w = Do("send") \o e /\ Leads("PG", w, c) /\ c.vm = 0 /\ c.ur = 0 /\ c.ahead = {"send"} \cup b.ahead
  BY <1>6 DEF Begins
<1>8. w = Do("send")
  <2>1. Do("send") \in Seq(Operation)
    BY <1>5, Labels DEF Do
  <2> QED BY <1>2, <1>7, <2>1, ConcatEmptySeq
<1>9. c.ahead \cap Marking = {}
  BY <1>3, <1>7 DEF Marking
<1>10. Shape'
  BY <1>1 DEF Inv, Shape
<1> QED BY <1>1, <1>7, <1>8, <1>9, <1>10, TimerStep

LEMMA ExpireStep ==
    ASSUME NEW q \in [Thread -> Stage], Inv(q), Expire PROVE IInv'
<1>1. /\ "CK" \in Timer /\ Idle("CK") /\ expiries < MaxExpiry /\ expiries' = expiries + 1
      /\ todo' = [todo EXCEPT !["CK"] = Do("setError") \o SetVmState("WAITING_TO_BE_REVERTED")]
      /\ UNCHANGED <<local, thrown, lock, waiting, clientState, visiting, socket, vmState, attached, pinged,
                     group, queue, pushed, remote>>
  BY DEF Expire, clientVars, vmVars, groupVars
<1>2. PICK v \in Seq(Operation), b \in Stage :
          /\ v = SetVmState("WAITING_TO_BE_REVERTED") /\ Leads("CK", v, b) /\ Fit("CK", b)
          /\ b.vm = 0 /\ b.ur = 0 /\ b.ahead = {"lock", "WAITING_TO_BE_REVERTED", "vm"}
  BY VmWord
<1>3. Begins("CK", "setError", v, b)
  <2>1. "setError" \in Opening
    BY DEF Opening
  <2>2. <<"setError", "()">> \in OpsOf("CK")
    BY DEF OpsOf, OwnOf, Plain
  <2>3. Ordered("CK", "setError", b)
    BY <1>2 DEF Ordered, Counting, Marking, Taking, Sending
  <2> QED BY <1>2, <2>1, <2>2, <2>3, FrontWord
<1>4. PICK w \in Seq(Operation), c \in Stage :
          w = Do("setError") \o v /\ Leads("CK", w, c) /\ c.vm = 0 /\ c.ur = 0 /\ c.ahead = {"setError"} \cup b.ahead
  BY <1>3 DEF Begins
<1>5. c.ahead \cap Marking = {}
  BY <1>2, <1>4 DEF Marking
<1>6. Shape'
  <2>1. Shape
    BY DEF Inv
  <2>2. expiries' \in 0..MaxExpiry
    BY <1>1, <2>1, ClientThreadsAssumption DEF Shape
  <2> QED BY <1>1, <2>1, <2>2 DEF Shape
<1> QED BY <1>1, <1>2, <1>4, <1>5, <1>6, TimerStep

LEMMA SetErrorStep ==
    ASSUME NEW q \in [Thread -> Stage], Inv(q), SetError PROVE IInv'
<1>1. /\ Reached(q) /\ Owned(q) /\ Thrown(q) /\ Shape /\ Complete(q) /\ At("CK", "setError")
      /\ "CK" \in Thread
      /\ UNCHANGED <<thrown, lock, waiting, clientState, visiting, socket, vmState, attached, pinged,
                     group, queue, pushed, remote, expiries>>
  BY DEF Inv, SetError, Thread, clientVars, vmVars, groupVars, envVars
<1>2. CASE attached /\ visiting # NoGroup
  <2>1. local' = [local EXCEPT !["CK"].group = visiting] /\ Call("CK", MarkError)
    BY <1>2 DEF SetError
  <2>2. PICK t, op : t = "CK" /\ op = "setError"
    OBVIOUS
  <2> QED BY <1>1, <1>2, <2>1, <2>2, MarkStep
<1>3. CASE ~(attached /\ visiting # NoGroup)
  <2>1. Done("CK") /\ local' = local
    BY <1>3 DEF SetError
  <2>2. todo' = [todo EXCEPT !["CK"] = Tail(todo["CK"])]
    BY <1>1, <2>1, DoneWord
  <2>3. PICK b \in Stage : After("CK", "setError", q["CK"], b)
    <3>1. "setError" \in Simple
      BY DEF Simple
    <3> QED BY <1>1, <3>1, AfterPlain
  <2>4. /\ Tail(todo["CK"]) \in Seq(Operation) /\ Leads("CK", Tail(todo["CK"]), b)
        /\ q["CK"].vm = b.vm /\ q["CK"].ur = b.ur /\ q["CK"].ahead = {"setError"} \cup b.ahead
    BY <2>3 DEF After
  <2>5. PICK r : r = [q EXCEPT !["CK"] = b]
    OBVIOUS
  <2>6. Reached(r)' /\ Owned(r)' /\ Thrown(r)'
    BY <1>1, <2>2, <2>4, <2>5, Onward
  <2>7. Shape'
    BY <1>1, <2>1 DEF Shape
  <2>8. Complete(r)'
    <3>1. q["CK"].ahead \cap {"detach", "close"} \subseteq b.ahead
      BY <2>4
    <3> QED BY <1>1, <2>5, <3>1, CompleteKept
  <2>9. /\ b.ahead \cap Key = q["CK"].ahead \cap Key /\ (q["CK"].ahead \cap Looking # {} => b.ahead \cap Looking # {})
        /\ b.ahead \subseteq q["CK"].ahead
    BY <2>4 DEF Key, Marking, Sending, Reporting, Looking
  <2> QED BY <1>1, <2>1, <2>5, <2>6, <2>7, <2>8, <2>9, Harmless
<1> QED BY <1>2, <1>3

-----------------------------------------------------------------------------
(* The beginning.                                                           *)

LEMMA FirstQueue == SetToSeq(Group) \in Seq(Group)
<1>1. ExistsBijection(1..Cardinality(Group), Group) /\ Cardinality(Group) \in Nat
  BY ClientThreadsAssumption, FS_CardinalityType
<1>2. PICK f \in [1..Cardinality(Group) -> Group] : IsInjective(f)
  BY <1>1 DEF ExistsBijection, Bijection, Injection, IsInjective
<1>3. SetToSeq(Group) \in [1..Cardinality(Group) -> Group]
  BY <1>2 DEF SetToSeq
<1> QED BY <1>1, <1>3, SeqDef

(* The receiver connects the client and makes it wait.                      *)
LEMMA ReceiverWord ==
    \E w \in Seq(Operation), c \in Stage :
        /\ w = SetClientState("CONNECTED") \o SetClientState("WAITING") /\ Leads("EC", w, c)
        /\ c.vm = 0 /\ c.ur = 0 /\ c.ahead = {"lock", "CONNECTED", "WAITING", "vm"}
<1>1. "WAITING" \in CLIENT_STATE /\ "CONNECTED" \in CLIENT_STATE
  BY DEF CLIENT_STATE
<1>2. <<"clientState", "WAITING">> \in OpsOf("EC") /\ <<"clientState", "CONNECTED">> \in OpsOf("EC")
  BY DEF OpsOf, OwnOf
<1>3. PICK v \in Seq(Operation), b \in Stage :
          /\ v = SetClientState("WAITING") /\ Leads("EC", v, b) /\ Fit("EC", b)
          /\ b.vm = 0 /\ b.ur = 0 /\ b.ahead = {"lock", "WAITING", "vm"}
  BY <1>1, <1>2, StateWord
<1>4. Allowed("EC", "CONNECTED", b)
  BY <1>3 DEF Allowed
<1>5. PICK w, c : w = SetClientState("CONNECTED") \o v /\ c = With({"lock", "CONNECTED", "vm"}, b)
  OBVIOUS
<1>6. w \in Seq(Operation) /\ c \in Stage /\ Leads("EC", w, c)
  BY <1>1, <1>2, <1>3, <1>4, <1>5, CallState
<1>7. c.vm = 0 /\ c.ur = 0 /\ c.ahead = {"lock", "CONNECTED", "WAITING", "vm"}
  BY <1>3, <1>5 DEF With
<1> QED BY <1>3, <1>5, <1>6, <1>7

(* The retriever enters its monitor and looks for work.                     *)
LEMMA RetrieverWord ==
    \E w \in Seq(Operation), c \in Stage :
        /\ w = Synchronized("ur", Do("while")) /\ Leads("UR", w, c)
        /\ c.vm = 0 /\ c.ur = 0 /\ c.ahead = {"lock", "while", "ur"}
<1>1. PICK e, z : e = <<>> /\ z = End
  OBVIOUS
<1>2. /\ e \in Seq(Operation) /\ z \in Stage /\ z.vm = 0 /\ z.ur = 0 /\ z.ahead = {} /\ Leads("UR", e, z)
  <2>1. e \in Seq(Operation) /\ z \in Stage /\ z.vm = 0 /\ z.ur = 0 /\ z.ahead = {}
    BY <1>1 DEF End, Stage
  <2> QED BY <1>1, <2>1, EmptyWord
<1>3. /\ <<"lock", "ur">> \in Operation /\ Name(<<"lock", "ur">>) = "lock" /\ <<"lock", "ur">> \in OpsOf("UR")
      /\ <<"unlock", "ur">> \in Operation /\ Name(<<"unlock", "ur">>) = "ur" /\ <<"unlock", "ur">> \in OpsOf("UR")
      /\ <<"while", "()">> \in Operation /\ <<"while", "()">> \in OpsOf("UR") /\ "while" \in Simple
      /\ "ur" \in Label /\ "while" \in Label /\ "lock" \in Label
  <2>1. "while" \in Simple
    BY DEF Simple
  <2>2. <<"lock", "ur">> \in OpsOf("UR") /\ <<"unlock", "ur">> \in OpsOf("UR")
    BY DEF OpsOf, Shared
  <2>3. <<"while", "()">> \in OpsOf("UR")
    BY DEF OpsOf, OwnOf, Plain
  <2> QED BY <2>1, <2>2, <2>3, Labels
<1>4. PICK b : b = [vm |-> 0, ur |-> 1, ahead |-> {"ur"}]
  OBVIOUS
<1>5. b \in Stage /\ b.vm = 0 /\ b.ur = 1 /\ b.ahead = {"ur"}
  BY <1>3, <1>4 DEF Stage
<1>6. Link("UR", b, <<"unlock", "ur">>, z)
  <2>1. Sheltered(b) /\ Sheltered(z)
    BY <1>2, <1>5 DEF Sheltered
  <2>2. Balanced("UR", b, <<"unlock", "ur">>, z)
    BY <1>2, <1>5, <2>1 DEF Balanced, Held
  <2>3. Ordered("UR", "ur", z)
    BY <1>2 DEF Ordered, Taking, Sending
  <2> QED BY <1>2, <1>3, <1>5, <2>2, <2>3 DEF Link
<1>7. PICK s : s = <<<<"unlock", "ur">>>> \o e
  OBVIOUS
<1>8. s \in Seq(Operation) /\ Leads("UR", s, b)
  BY <1>2, <1>3, <1>5, <1>6, <1>7, InFront
<1>9. PICK d, u : d = With({"while"}, b) /\ u = Do("while") \o s
  OBVIOUS
<1>10. u \in Seq(Operation) /\ d \in Stage /\ Leads("UR", u, d) /\ Sheltered(d)
  <2>1. Ordered("UR", "while", b)
    BY <1>5 DEF Ordered, Counting, Marking, Taking, Sending
  <2>2. Sheltered(b) /\ Sheltered(With({"while"}, b))
    BY <1>5 DEF Sheltered, With
  <2> QED BY <1>3, <1>5, <1>8, <1>9, <2>1, <2>2, Pushed
<1>11. d.vm = 0 /\ d.ur = 1 /\ d.ahead = {"while", "ur"}
  BY <1>5, <1>9 DEF With
<1>12. PICK c : c = [vm |-> 0, ur |-> 0, ahead |-> {"lock", "while", "ur"}]
  OBVIOUS
<1>13. c \in Stage /\ c.vm = 0 /\ c.ur = 0 /\ c.ahead = {"lock", "while", "ur"}
  BY <1>3, <1>12 DEF Stage
<1>14. Link("UR", c, <<"lock", "ur">>, d)
  <2>1. Sheltered(c)
    BY <1>13 DEF Sheltered
  <2>2. Balanced("UR", c, <<"lock", "ur">>, d)
    BY <1>10, <1>11, <1>13, <2>1 DEF Balanced, Held
  <2>3. Ordered("UR", "lock", d)
    BY <1>11 DEF Ordered, Counting, Marking, Taking, Sending
  <2> QED BY <1>3, <1>11, <1>13, <2>2, <2>3 DEF Link
<1>15. PICK w : w = <<<<"lock", "ur">>>> \o u
  OBVIOUS
<1>16. w \in Seq(Operation) /\ Leads("UR", w, c)
  BY <1>3, <1>10, <1>13, <1>14, <1>15, InFront
<1>17. w = Synchronized("ur", Do("while"))
  <2>1. PICK x, y, v : x = <<<<"lock", "ur">>>> /\ y = Do("while") /\ v = <<<<"unlock", "ur">>>>
    OBVIOUS
  <2>2. x \in Seq(Operation) /\ y \in Seq(Operation) /\ v \in Seq(Operation)
    BY <1>3, <2>1 DEF Do
  <2>3. s = v
    BY <1>1, <1>7, <2>1, <2>2, ConcatEmptySeq
  <2>4. (x \o y) \o v = x \o (y \o v)
    BY <2>2, Regroup
  <2> QED BY <1>9, <1>15, <2>1, <2>3, <2>4 DEF Synchronized
<1> QED BY <1>13, <1>16, <1>17

LEMMA Beginning == Init => IInv
<1> SUFFICES ASSUME Init PROVE IInv
  OBVIOUS
<1>1. PICK v \in Seq(Operation), a \in Stage :
          /\ v = SetClientState("CONNECTED") \o SetClientState("WAITING") /\ Leads("EC", v, a)
          /\ a.vm = 0 /\ a.ur = 0 /\ a.ahead = {"lock", "CONNECTED", "WAITING", "vm"}
  BY ReceiverWord
<1>2. PICK w \in Seq(Operation), b \in Stage :
          /\ w = Synchronized("ur", Do("while")) /\ Leads("UR", w, b)
          /\ b.vm = 0 /\ b.ur = 0 /\ b.ahead = {"lock", "while", "ur"}
  BY RetrieverWord
<1>3. PICK e \in Seq(Operation), z \in Stage : e = <<>> /\ z = End
  <2>1. End \in Stage /\ <<>> \in Seq(Operation)
    BY DEF End, Stage
  <2> QED BY <2>1
<1>4. z.vm = 0 /\ z.ur = 0 /\ z.ahead = {} /\ \A t : Leads(t, e, z)
  <2>1. z.vm = 0 /\ z.ur = 0 /\ z.ahead = {}
    BY <1>3 DEF End
  <2>2. \A t : Leads(t, e, z)
    BY <1>3, EmptyWord
  <2> QED BY <2>1, <2>2
<1>5. PICK q : q = [t \in Thread |-> IF t = "EC" THEN a ELSE IF t = "UR" THEN b ELSE z]
  OBVIOUS
<1>6. /\ q \in [Thread -> Stage] /\ q["EC"] = a /\ q["UR"] = b
      /\ \A t \in Thread : t # "EC" /\ t # "UR" => q[t] = z
  BY <1>5, Threads
<1>7. /\ todo = [t \in Thread |-> IF t = "EC" THEN v ELSE IF t = "UR" THEN w ELSE e]
      /\ waiting = FALSE
  BY <1>1, <1>2, <1>3 DEF Init
<1>8. Reached(q)
  <2>1. todo = [t \in Thread |-> todo[t]] /\ \A t \in Thread : todo[t] \in Seq(Operation)
    BY <1>7
  <2>2. ASSUME NEW t \in Thread PROVE Leads(t, Word(t, todo[t], waiting), q[t])
    <3>1. Word(t, todo[t], waiting) = todo[t]
      BY <1>7 DEF Word
    <3>2. Leads(t, todo[t], q[t])
      BY <1>1, <1>2, <1>4, <1>6, <1>7
    <3> QED BY <3>1, <3>2
  <2> QED BY <2>1, <2>2 DEF Reached
<1>9. \A t \in Thread : q[t].vm = 0 /\ q[t].ur = 0
  BY <1>1, <1>2, <1>4, <1>6
<1>10. Owned(q)
  <2>1. lock = [l \in {"vm", "ur"} |-> [owner |-> "none", depth |-> 0]]
    BY DEF Init, Free
  <2> QED BY <1>9, <2>1, Threads DEF Owned, Owns
<1>11. /\ local = [t \in Thread |-> [group |-> NoGroup, count |-> 0, sent |-> FALSE]]
       /\ thrown = {} /\ clientState = "CONNECTING" /\ visiting = NoGroup /\ socket = "open"
       /\ vmState = "RUNNING" /\ attached = TRUE /\ pinged = FALSE
       /\ group = [g \in Group |-> [state |-> "NONE", errorCount |-> 0, changed |-> FALSE]]
       /\ queue \in Seq(Group) /\ pushed = {} /\ remote = "none" /\ expiries = 0
  BY FirstQueue DEF Init
<1>12. Shape
  <2>1. 0 \in 0..ErrorBound /\ 0 \in 0..MaxExpiry
    BY ClientThreadsAssumption DEF ErrorBound
  <2>2. local \in [Thread -> [group : Group \cup {NoGroup}, count : 0..ErrorBound, sent : BOOLEAN]]
    BY <1>11, <2>1
  <2>3. clientState \in CLIENT_STATE /\ visiting \in Group \cup {NoGroup}
    BY <1>11 DEF CLIENT_STATE
  <2>4. group \in [Group -> [state : {"NONE", "VISITING", "VISITED", "ERROR"}, errorCount : 0..ErrorBound,
                            changed : BOOLEAN]]
    BY <1>11, <2>1
  <2>5. /\ thrown \subseteq Thread /\ socket \in {"open", "closed"}
        /\ vmState \in {"RUNNING", "WAITING_TO_BE_REVERTED"} /\ pushed \subseteq Group
        /\ remote \in {"none", "told", "started"} /\ queue \in Seq(Group)
    BY <1>11
  <2>6. {waiting, attached, pinged} \subseteq BOOLEAN
    BY <1>7, <1>11
  <2>7. expiries \in 0..MaxExpiry
    BY <1>11, <2>1
  <2> QED BY <2>2, <2>3, <2>4, <2>5, <2>6, <2>7 DEF Shape
<1>13. Thrown(q) /\ Complete(q) /\ GivenUp(q)
  BY <1>11 DEF Thrown, Complete, GivenUp
<1>14. InHand(q)
  <2>1. a.ahead \cap Marking = {} /\ b.ahead \cap Marking = {} /\ z.ahead \cap Marking = {}
    BY <1>1, <1>2, <1>4 DEF Marking
  <2>2. \A t \in Thread : q[t].ahead \cap Marking = {}
    BY <1>6, <2>1
  <2> QED BY <1>2, <1>6, <2>2 DEF InHand
<1>15. Reported(q)
  <2>1. b.ahead \cap Taking = {}
    BY <1>2 DEF Taking
  <2>2. "sent" \notin b.ahead
    BY <1>2
  <2>3. q["UR"].ahead \cap Taking = {} /\ "sent" \notin q["UR"].ahead
    BY <1>6, <2>1, <2>2
  <2>4. ~Unsent(q["UR"])
    BY <2>3 DEF Unsent
  <2>5. ~MayTake(q["UR"])
    BY <1>11 DEF MayTake
  <2>6. a.ahead \cap {"started", "finished"} = {}
    BY <1>1
  <2>7. q["EC"].ahead \cap {"started", "finished"} = {}
    BY <1>6, <2>6
  <2> QED BY <1>11, <2>4, <2>5, <2>7 DEF Reported
<1>16. Undisturbed(q)
  <2>1. a.ahead \cap Ending = {} /\ b.ahead \subseteq Gentle
    BY <1>1, <1>2 DEF Ending, Gentle
  <2> QED BY <1>6, <1>11, <2>1 DEF Undisturbed, Steady
<1> QED BY <1>6, <1>8, <1>10, <1>12, <1>13, <1>14, <1>15, <1>16 DEF Inv, IInv

(* A step that changes nothing.                                             *)
LEMMA Standing == IInv /\ UNCHANGED vars => IInv'
<1> SUFFICES ASSUME IInv, UNCHANGED vars PROVE IInv'
  OBVIOUS
<1>1. /\ todo' = todo /\ local' = local /\ thrown' = thrown /\ lock' = lock /\ waiting' = waiting
      /\ clientState' = clientState /\ visiting' = visiting /\ socket' = socket
      /\ vmState' = vmState /\ attached' = attached /\ pinged' = pinged
      /\ group' = group /\ queue' = queue /\ pushed' = pushed /\ remote' = remote /\ expiries' = expiries
  BY DEF vars, threadVars, clientVars, vmVars, groupVars, envVars
<1>2. PICK q \in [Thread -> Stage] : Inv(q)
  BY DEF IInv
<1>3. /\ Reached(q)' /\ Owned(q)' /\ Shape' /\ Thrown(q)'
  BY <1>1, <1>2 DEF Inv, Reached, Owned, Shape, Thrown
<1>4. Complete(q)' /\ GivenUp(q)' /\ InHand(q)'
  BY <1>1, <1>2 DEF Inv, Complete, GivenUp, WillMark, WillFail, InHand
<1>5. Reported(q)' /\ (Calm => Undisturbed(q)')
  BY <1>1, <1>2 DEF Inv, Reported, NoReport, Unsent, MayTake, Undisturbed, Steady
<1> QED BY <1>3, <1>4, <1>5 DEF Inv, IInv

-----------------------------------------------------------------------------
(* Every step.                                                              *)

LEMMA CallKept ==
    ASSUME NEW q \in [Thread -> Stage], Inv(q), NEW t \in Thread, Step(t) PROVE IInv'
<1>1. CASE Acquire(t) BY <1>1, AcquireStep
<1>2. CASE Release(t) BY <1>2, ReleaseStep
<1>3. CASE AssignClientState(t) BY <1>3, AssignClientStateStep
<1>4. CASE AssignVmState(t) BY <1>4, AssignVmStateStep
<1>5. CASE Update(t) BY <1>5, UpdateStep
<1>6. CASE Detach(t) BY <1>6, DetachStep
<1>7. CASE Close(t) BY <1>7, CloseStep
<1>8. CASE IfConnected(t) BY <1>8, IfConnectedStep
<1>9. CASE IfGroup(t) BY <1>9, IfGroupStep
<1>10. CASE UseGroup(t) BY <1>10, UseGroupStep
<1>11. CASE ReadCount(t) BY <1>11, ReadCountStep
<1>12. CASE WriteCount(t) BY <1>12, WriteCountStep
<1>13. CASE NotifyObservers(t) BY <1>13, NotifyObserversStep
<1>14. CASE Retry(t) BY <1>14, RetryStep
<1>15. CASE Send(t) BY <1>15, SendStep
<1>16. CASE Write(t) BY <1>16, WriteStep
<1>17. CASE Notify(t) BY <1>17, NotifyStep
<1> QED
  BY <1>1, <1>2, <1>3, <1>4, <1>5, <1>6, <1>7, <1>8, <1>9, <1>10, <1>11, <1>12, <1>13, <1>14, <1>15,
     <1>16, <1>17 DEF Step

LEMMA Keeping == IInv /\ [Next]_vars => IInv'
<1> SUFFICES ASSUME IInv, [Next]_vars PROVE IInv'
  OBVIOUS
<1>1. PICK q \in [Thread -> Stage] : Inv(q)
  BY DEF IInv
<1>2. CASE UNCHANGED vars
  BY <1>2, Standing
<1>3. ASSUME NEW t \in Thread, Step(t) PROVE IInv'
  BY <1>1, <1>3, CallKept
<1>4. CASE Retriever
  <2>1. CASE While BY <1>1, <2>1, WhileStep
  <2>2. CASE IfWaiting BY <1>1, <2>2, IfWaitingStep
  <2>3. CASE SetVisiting BY <1>1, <2>3, SetVisitingStep
  <2>4. CASE Sent BY <1>1, <2>4, SentStep
  <2>5. CASE Wait BY <1>1, <2>5, WaitStep
  <2> QED BY <1>4, <2>1, <2>2, <2>3, <2>4, <2>5 DEF Retriever
<1>5. CASE Receiver
  <2>1. CASE Started BY <1>1, <2>1, StartedStep
  <2>2. CASE Finished BY <1>1, <2>2, FinishedStep
  <2>3. CASE NoMoreGroup BY <1>1, <2>3, NoMoreGroupStep
  <2> QED BY <1>5, <2>1, <2>2, <2>3 DEF Receiver
<1>6. CASE SetError BY <1>1, <1>6, SetErrorStep
<1>7. CASE StartReport BY <1>1, <1>7, StartReportStep
<1>8. CASE FinishReport BY <1>1, <1>8, FinishReportStep
<1>9. CASE ErrorReport BY <1>1, <1>9, ErrorReportStep
<1>10. CASE Ping BY <1>1, <1>10, PingStep
<1>11. CASE Expire BY <1>1, <1>11, ExpireStep
<1> QED BY <1>2, <1>3, <1>4, <1>5, <1>6, <1>7, <1>8, <1>9, <1>10, <1>11 DEF Next

LEMMA Invariance == Spec => []IInv
BY Beginning, Keeping, PTL DEF Spec

-----------------------------------------------------------------------------
(* What follows from the invariant.                                         *)

LEMMA Typed == IInv => TypeOK
<1> SUFFICES ASSUME IInv PROVE TypeOK
  OBVIOUS
<1>1. PICK q \in [Thread -> Stage] : Inv(q)
  BY DEF IInv
<1>2. DOMAIN todo = Thread /\ \A t \in Thread : todo[t] \in Seq(Operation)
  <2>1. todo = [t \in Thread |-> todo[t]] /\ \A t \in Thread : todo[t] \in Seq(Operation)
    BY <1>1 DEF Inv, Reached
  <2> QED BY <2>1
<1>3. lock \in [{"vm", "ur"} -> [owner : Thread \cup {"none"}, depth : Nat]]
  BY <1>1 DEF Inv, Owned
<1>4. Shape
  BY <1>1 DEF Inv
<1> QED BY <1>2, <1>3, <1>4 DEF TypeOK, Shape

(* A thread that holds no monitor of the VM has nothing of disconnect()     *)
(* ahead.                                                                   *)
LEMMA AlwaysSheltered ==
    ASSUME NEW q \in [Thread -> Stage], Reached(q), NEW t \in Thread PROVE Sheltered(q[t])
<1>1. PICK s : s = Word(t, todo[t], waiting)
  OBVIOUS
<1>2. PICK a : a = q[t]
  OBVIOUS
<1>3. Leads(t, s, a) /\ s \in Seq(Operation)
  <2>1. Leads(t, s, a) /\ todo[t] \in Seq(Operation)
    BY <1>1, <1>2 DEF Reached
  <2>2. <<"lock", "ur">> \in Operation /\ <<"while", "()">> \in Operation
    BY DEF Operation
  <2>3. s \in Seq(Operation)
    BY <1>1, <2>1, <2>2 DEF Word
  <2> QED BY <2>1, <2>3
<1>4. CASE s = <<>>
  <2>1. a = End
    BY <1>3, <1>4, WordIsEmpty
  <2> QED BY <1>2, <2>1 DEF Sheltered, End
<1>5. CASE s # <<>>
  <2>1. PICK b \in Stage : Link(t, a, Head(s), b)
    BY <1>3, <1>5, Behind
  <2> QED BY <1>2, <2>1 DEF Link, Balanced
<1> QED BY <1>4, <1>5

(* A thread that is in no call, or the retriever asleep, will mark nothing. *)
LEMMA Calls ==
    ASSUME NEW q \in [Thread -> Stage], Reached(q), NEW t \in Thread, todo[t] = <<>> \/ (t = "UR" /\ waiting)
    PROVE  q[t].ahead \subseteq {"lock", "while", "ur"}
<1>1. PICK a : a = q[t]
  OBVIOUS
<1>2. CASE ~(t = "UR" /\ waiting)
  <2>1. Leads(t, <<>>, a)
    BY <1>1, <1>2 DEF Reached, Word
  <2>2. a = End
    BY <2>1, WordIsEmpty
  <2> QED BY <1>1, <2>2 DEF End
<1>3. CASE t = "UR" /\ waiting
  <2>1. PICK r, s, u : r = todo[t] /\ s = <<<<"while", "()">>>> \o r /\ u = <<<<"lock", "ur">>>> \o s
    OBVIOUS
  <2>2. <<"lock", "ur">> \in Operation /\ <<"while", "()">> \in Operation /\ r \in Seq(Operation)
    BY <2>1 DEF Operation, Reached
  <2>3. s \in Seq(Operation) /\ s # <<>> /\ Head(s) = <<"while", "()">>
    BY <2>1, <2>2
  <2>4. u \in Seq(Operation) /\ u # <<>> /\ Head(u) = <<"lock", "ur">> /\ Tail(u) = s
    BY <2>1, <2>2, <2>3
  <2>5. Leads(t, u, a)
    BY <1>1, <1>3, <2>1 DEF Reached, Word
  <2>6. PICK b \in Stage : Link(t, a, Head(u), b) /\ Leads(t, Tail(u), b)
    BY <2>4, <2>5, Behind
  <2>7. Leads(t, s, b)
    BY <2>4, <2>6
  <2>8. PICK c \in Stage : Link(t, b, Head(s), c)
    BY <2>3, <2>7, Behind
  <2>9. a.ahead = {"lock"} \cup b.ahead
    BY <2>4, <2>6 DEF Link, Name
  <2>10. b.ahead = {"while"} \cup c.ahead /\ c.ahead \subseteq {"ur"}
    BY <2>3, <2>8 DEF Link, Name, Ordered
  <2> QED BY <1>1, <2>9, <2>10
<1> QED BY <1>2, <1>3

LEMMA CompleteAtRest == IInv => DisconnectedIsComplete
<1> SUFFICES ASSUME IInv, clientState = "DISCONNECTED", lock["vm"].owner = "none", thrown = {}
             PROVE  ~attached /\ socket = "closed"
  BY DEF DisconnectedIsComplete
<1>1. PICK q \in [Thread -> Stage] : Inv(q)
  BY DEF IInv
<1>2. Reached(q) /\ Owned(q) /\ Complete(q) /\ Shape
  BY <1>1 DEF Inv
<1>3. ASSUME NEW t \in Thread PROVE "detach" \notin q[t].ahead /\ "close" \notin q[t].ahead
  <2>1. t # "none"
    BY Threads
  <2>2. q[t].vm = 0
    BY <1>2, <2>1 DEF Owned, Owns
  <2>3. Sheltered(q[t])
    BY <1>2, AlwaysSheltered
  <2> QED BY <2>2, <2>3 DEF Sheltered
<1>4. ~attached /\ socket # "open"
  BY <1>2, <1>3 DEF Complete
<1> QED BY <1>2, <1>4 DEF Shape

LEMMA GivenUpAtRest == IInv => ClosedClientGaveUp
<1> SUFFICES ASSUME IInv, Quiet, socket = "closed", visiting # NoGroup, thrown = {}
             PROVE  group[visiting].errorCount > 0
  BY DEF ClosedClientGaveUp
<1>1. PICK q \in [Thread -> Stage] : Inv(q)
  BY DEF IInv
<1>2. Reached(q) /\ GivenUp(q)
  BY <1>1 DEF Inv
<1>3. \A t \in Thread : q[t].ahead \subseteq {"lock", "while", "ur"}
  BY <1>2, Calls DEF Quiet
<1>4. \A t \in Thread : q[t].ahead \cap Looking = {} /\ q[t].ahead \cap Counting = {}
  BY <1>3 DEF Looking, Counting
<1>5. q["UR"].ahead \cap Sending = {} /\ "sent" \notin q["UR"].ahead
  BY <1>3, Threads DEF Sending
<1>6. ~WillMark(q, visiting)
  BY <1>4, <1>5 DEF WillMark, WillFail
<1> QED BY <1>2, <1>6 DEF GivenUp

(* A thread that asks for a monitor and holds the retriever's.              *)
LEMMA HoldsRetriever ==
    ASSUME NEW q \in [Thread -> Stage], Inv(q), NEW t \in Thread, At(t, "lock"), lock["ur"].owner = t
    PROVE  t = "UR"
<1>1. Reached(q) /\ Owned(q)
  BY DEF Inv
<1>2. PICK b \in Stage : Link(t, q[t], Head(todo[t]), b)
  BY <1>1, Popped
<1>3. PICK o : o = Head(todo[t]) /\ o[1] = "lock"
  BY DEF At
<1>4. o # <<"notify", "()">> /\ o # <<"unlock", "ur">>
  BY <1>3
<1>5. q[t].ur > 0
  BY <1>1 DEF Owned, Owns
<1>6. Balanced(t, q[t], o, b)
  BY <1>2, <1>3 DEF Link
<1> QED BY <1>4, <1>5, <1>6 DEF Balanced

(* Two threads that wait for each other hold one monitor each.  The one     *)
(* that holds the retriever's and asks for another is the retriever.        *)
LEMMA Cycles == IInv => OnlyRetriever
<1> SUFFICES ASSUME IInv, NEW t \in Thread, NEW u \in Thread, BlockedBy(t, u), BlockedBy(u, t)
             PROVE  \/ t = "UR" /\ Arg(t) = "vm" /\ Arg(u) = "ur"
                    \/ u = "UR" /\ Arg(u) = "vm" /\ Arg(t) = "ur"
  BY DEF OnlyRetriever
<1>1. PICK q \in [Thread -> Stage] : Inv(q)
  BY DEF IInv
<1>2. PICK x, y : x = Arg(t) /\ y = Arg(u)
  OBVIOUS
<1>3. t # u /\ At(t, "lock") /\ At(u, "lock") /\ lock[x].owner = u /\ lock[y].owner = t
  BY <1>2 DEF BlockedBy
<1>4. x \in {"vm", "ur"} /\ y \in {"vm", "ur"}
  <2>1. ASSUME NEW s \in Thread, At(s, "lock") PROVE Arg(s) \in {"vm", "ur"}
    <3>1. PICK b \in Stage : Link(s, q[s], Head(todo[s]), b)
      BY <1>1, <2>1, Popped DEF Inv
    <3>2. PICK o : o = Head(todo[s]) /\ o[1] = "lock" /\ o[2] = Arg(s)
      BY <2>1 DEF At, Arg
    <3>3. o \in OpsOf(s)
      BY <3>1, <3>2 DEF Link
    <3>4. o[2] \in {"vm", "ur"}
      BY <3>2, <3>3, Names
    <3> QED BY <3>2, <3>4
  <2> QED BY <1>2, <1>3, <2>1
<1>5. x # y
  BY <1>3
<1>6. CASE x = "vm" /\ y = "ur"
  <2>1. t = "UR"
    BY <1>1, <1>3, <1>6, HoldsRetriever
  <2> QED BY <1>2, <1>6, <2>1
<1>7. CASE x = "ur" /\ y = "vm"
  <2>1. u = "UR"
    BY <1>1, <1>3, <1>7, HoldsRetriever
  <2> QED BY <1>2, <1>7, <2>1
<1> QED BY <1>4, <1>5, <1>6, <1>7

(* Without timers and failing writes the retriever never asks for the VM's  *)
(* monitor at all: it has nothing ahead that needs it.                      *)
LEMMA NeverAsks ==
    ASSUME Calm, NEW q \in [Thread -> Stage], Inv(q), At("UR", "lock")
    PROVE  Arg("UR") # "vm"
<1> SUFFICES ASSUME Arg("UR") = "vm" PROVE FALSE
  OBVIOUS
<1>1. Reached(q) /\ Undisturbed(q) /\ "UR" \in Thread
  BY Threads DEF Inv
<1>2. PICK o : o = Head(todo["UR"]) /\ o[1] = "lock" /\ o[2] = "vm"
  BY DEF At, Arg
<1>3. PICK b \in Stage : Link("UR", q["UR"], o, b)
  BY <1>1, <1>2, Popped
<1>4. o = <<"lock", "vm">>
  BY <1>2, <1>3, Names DEF Link
<1>5. b.vm > 0
  <2>1. q["UR"].vm \in Nat
    BY <1>1 DEF Stage
  <2>2. b.vm = q["UR"].vm + 1
    BY <1>3, <1>4 DEF Link, Balanced, Held
  <2> QED BY <2>1, <2>2
<1>6. "vm" \in b.ahead
  BY <1>3, <1>5 DEF Link, Balanced, Sheltered
<1>7. "vm" \in q["UR"].ahead
  BY <1>3, <1>6 DEF Link
<1>8. "vm" \notin Gentle
  BY DEF Gentle
<1> QED BY <1>1, <1>7, <1>8 DEF Undisturbed

(* So there is no cycle in an instance like that of run threads_pair.       *)
LEMMA Acyclic == Calm /\ IInv => NoLockCycle
<1> SUFFICES ASSUME Calm, IInv, NEW t \in Thread, NEW u \in Thread, BlockedBy(t, u), BlockedBy(u, t)
             PROVE  FALSE
  BY DEF NoLockCycle
<1>1. PICK q \in [Thread -> Stage] : Inv(q)
  BY DEF IInv
<1>2. At(t, "lock") /\ At(u, "lock")
  BY DEF BlockedBy
<1>3. CASE t = "UR" /\ Arg(t) = "vm"
  BY <1>1, <1>2, <1>3, NeverAsks
<1>4. CASE u = "UR" /\ Arg(u) = "vm"
  BY <1>1, <1>2, <1>4, NeverAsks
<1> QED BY <1>3, <1>4, Cycles DEF OnlyRetriever

-----------------------------------------------------------------------------
(* The theorems.                                                            *)

(* Type correctness: the words of the threads hold operations that exist,   *)
(* and every variable has its type, for any finite set of groups.           *)
THEOREM TypeCorrect == Spec => []TypeOK
BY Invariance, Typed, PTL

(* Client.disconnect() is thorough whichever threads run it, however they   *)
(* interleave and whether writes fail: a disconnected client is detached    *)
(* and its socket closed as soon as nobody holds the VM's monitor, and the  *)
(* group it had in hand is marked in error when all the threads are done.   *)
THEOREM Thorough == Spec => []DisconnectIsThorough
<1>1. IInv => DisconnectIsThorough
  BY CompleteAtRest, GivenUpAtRest DEF DisconnectIsThorough
<1> QED BY <1>1, Invariance, PTL

(* With any timers, and with writes that fail: two threads that wait for    *)
(* each other are always the retriever, which holds its own monitor and     *)
(* asks for the VM's in setClientState, and a thread that holds the VM's    *)
(* and is about to notify the retriever.                                    *)
THEOREM CycleNeedsRetriever == Spec => []OnlyRetriever
BY Invariance, Cycles, PTL

=============================================================================
