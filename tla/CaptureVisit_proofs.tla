------------------------- MODULE CaptureVisit_proofs -------------------------
(***************************************************************************)
(* Proofs about CaptureVisit, for any monitors, visits, plugins, options   *)
(* and bounds, and about WorkerPool, which is inside its VisitGroup, for   *)
(* every number of workers and of URLs.                                    *)
(***************************************************************************)
EXTENDS CaptureVisit, WorkerPool, SequenceTheorems, FiniteSetTheorems, TLAPS

(* The notifications that are left: an exception is never the last.         *)
OutcomesSound ==
    visitor \in {"stop", "upload", "report"} =>
        \E code \in Codes \cup {"OK"} : outcomes \in {<<code>>, <<"EXCEPTION", code>>}

TypeInv == TypeOK /\ OutcomesSound

(* The Visitor has a visit exactly between the pop and the delete.          *)
VisitInHand == visit = 0 <=> visitor \in {"wait", "pop", "exited"}

(* The event agrees with the queue: whenever it is set, a visit is queued   *)
(* beside the one the Visitor has been woken for.                           *)
QueueSound ==
    /\ notEmpty => toVisit # <<>>
    /\ visitor = "pop" => toVisit # <<>>
    /\ notEmpty /\ visitor = "pop" => Len(toVisit) > 1

(* The monitors are connected and packets dumped only while a visit runs,   *)
(* and what is dumping can be stopped.                                      *)
ListensDuringVisit ==
    /\ visitor \notin {"start", "visit", "stop"} => slots = {}
    /\ visitor \notin {"connect", "start", "visit", "stop"} => ~dumping
    /\ dumping => captureNetworkPackets

(* The reports of a visit, and the last of them.                            *)
IsReport(msg) == msg.type \in {"start", "finish", "error"}
IsFinal(msg) ==
    msg.type = "finish" \/ (msg.type = "error" /\ msg.code # "EXCEPTION")

(* The phases in which the Visitor has reports to send, or nothing to do.   *)
Active == {"prestart", "connect", "start", "visit", "stop", "upload", "report"}
Resting == {"wait", "delete", "exited"}

(* No visit is on its way to the Visitor, queued or to be reported.         *)
NoVisitDoc == \A i \in 1..Len(inbox) : inbox[i].type # "visit-event"
NoVisit == NoVisitDoc /\ toVisit = <<>> /\ visitor \in Resting

(* There is one visit at a time: on its way, queued or in hand.             *)
OneVisit ==
    /\ \A i, j \in 1..Len(inbox) :
          inbox[i].type = "visit-event" /\ inbox[j].type = "visit-event" => i = j
    /\ ~NoVisitDoc => toVisit = <<>> /\ visitor \in Resting
    /\ Len(toVisit) <= 1
    /\ toVisit # <<>> => visitor \notin Active

(* For a Client without a group nothing is on the way, there and back.      *)
NothingForIdle ==
    clientState \in {"NONE", "WAITING"} =>
        NoVisit /\ \A i \in 1..Len(wire) : ~IsReport(wire[i])

(* The last report of a visit is the last thing about it.                   *)
FinalIsLast ==
    \A i \in 1..Len(wire) :
        IsFinal(wire[i]) => /\ NoVisit
                            /\ \A j \in 1..Len(wire) : j > i => ~IsReport(wire[j])

(* For a Client with a group everything on the way is about this group.     *)
AllAboutHeld ==
    clientState \in {"AWAITING_VISITING", "VISITING"} =>
        /\ \A i \in 1..Len(inbox) : inbox[i].type = "visit-event" => inbox[i].visit = held
        /\ \A i \in 1..Len(toVisit) : toVisit[i] = held
        /\ visitor \in Active => visit = held
        /\ \A i \in 1..Len(wire) : IsReport(wire[i]) => wire[i].visit = held

LinkedHasClient == linked => clientState \in {"WAITING", "AWAITING_VISITING", "VISITING"}

(* A client says "connect" once in its life, to a server without a Client.  *)
ConnectsOnce ==
    /\ receiver = "none" =>
          link = "none" /\ clientState = "NONE" /\ NoVisit /\ ~reconnecting
    /\ receiver \in {"close", "connect"} => reconnecting
    /\ ~reconnecting => \A i \in 1..Len(inbox) : inbox[i].type = "connect" =>
          /\ clientState = "NONE"
          /\ \A j \in 1..Len(inbox) : inbox[j].type = "connect" => i = j
          /\ \A j \in 1..Len(wire) : wire[j].type # "connect"
    /\ \A i \in 1..Len(wire) : wire[i].type = "connect" =>
          /\ clientState = "NONE" /\ ~reconnecting
          /\ \A j \in 1..Len(wire) : wire[j].type = "connect" => i = j

ExchangeInv ==
    /\ OneVisit /\ NothingForIdle /\ FinalIsLast /\ AllAboutHeld
    /\ LinkedHasClient /\ ConnectsOnce

(* The visits a callback has been made for, with `malicious` set or not yet. *)
Past == marked \cup {during[m] : m \in {n \in Monitors : monitor[n] = "called"}}

(* A visit that is still to begin has had no callback.                      *)
FreshVisits ==
    /\ visit < next /\ \A p \in Past : p < next
    /\ \A i \in 1..Len(inbox) :
          inbox[i].type = "visit-event" => inbox[i].visit < next /\ inbox[i].visit \notin Past
    /\ \A i \in 1..Len(toVisit) : toVisit[i] < next /\ toVisit[i] \notin Past
    /\ visitor = "prestart" => visit \notin Past

FreshInv == FreshVisits /\ VerdictCoversVisit

LocalInv == VisitInHand /\ QueueSound /\ ListensDuringVisit /\ EndedIsDisconnected

-----------------------------------------------------------------------------
(* Types                                                                    *)

(* send() appends at most one message, within the connection's capacity.    *)
LEMMA SendMessageType ==
    ASSUME TypeOK, NEW t \in Threads, NEW msg \in Messages, SendMessage(t, msg)
    PROVE  /\ wire' \in Seq(Messages) /\ Len(wire') <= MaxWire
           /\ failed' \in SUBSET Threads
<1>1. wire \in Seq(Messages) /\ Len(wire) <= MaxWire /\ failed \in SUBSET Threads
  BY DEF TypeOK
<1>2. CASE wire' = wire /\ failed' \in SUBSET Threads
  BY <1>1, <1>2
<1>3. CASE wire' = Append(wire, msg) /\ Len(wire) < MaxWire /\ failed' = failed
  <2>1. Append(wire, msg) \in Seq(Messages) /\ Len(Append(wire, msg)) = Len(wire) + 1
    BY <1>1
  <2> QED BY <1>1, <1>3, <2>1, BoundsAssumption
<1> QED BY <1>1, <1>2, <1>3 DEF SendMessage

(* Messages without a visit.                                                *)
LEMMA PlainMessages ==
    ASSUME NEW type \in {"connect", "reconnect", "pong", "system-event", "file"}
    PROVE  Message(type) \in Messages
BY VisitsAssumption DEF Message, Messages

(* The outcome that is reported next, and those that are left.              *)
LEMMA OutcomeFacts ==
    ASSUME TypeInv, visitor \in {"stop", "upload", "report"}
    PROVE  /\ outcomes # <<>>
           /\ Head(outcomes) \in Codes \cup {"OK", "EXCEPTION"}
           /\ Len(outcomes) > 1 => /\ Head(outcomes) = "EXCEPTION"
                                   /\ \E code \in Codes \cup {"OK"} : Tail(outcomes) = <<code>>
           /\ Len(outcomes) <= 1 => Head(outcomes) \in Codes \cup {"OK"}
           /\ Tail(outcomes) \in Seq(Codes \cup {"OK", "EXCEPTION"})
           /\ OutcomeReport(Head(outcomes)) \in Messages
<1>1. PICK code \in Codes \cup {"OK"} : outcomes \in {<<code>>, <<"EXCEPTION", code>>}
  BY DEF TypeInv, OutcomesSound
<1>2. CASE outcomes = <<code>>
  <2>1. Head(outcomes) = code /\ Tail(outcomes) = <<>> /\ Len(outcomes) = 1
    BY <1>2
  <2> QED BY <1>2, <2>1 DEF TypeInv, TypeOK, Flags, OutcomeReport, Report, Messages
<1>3. CASE outcomes = <<"EXCEPTION", code>>
  <2>1. Head(outcomes) = "EXCEPTION" /\ Tail(outcomes) = <<code>> /\ Len(outcomes) = 2
    BY <1>3
  <2> QED BY <1>3, <2>1 DEF TypeInv, TypeOK, Flags, OutcomeReport, Report, Messages
<1> QED BY <1>1, <1>2, <1>3

(* The Boolean variables.                                                   *)
LEMMA FlagsStep ==
    ASSUME TypeOK, Next
    PROVE  Flags'
<1> USE DEF Flags, queueVars, visitVars, analyzerVars, monitorVars, linkVars, serverVars,
            clientVars, Reading, Take, Taken
<1>0. Flags
  BY DEF TypeOK
<1>1. CASE Wait BY <1>0, <1>1, Zenon DEF Wait
<1>2. CASE Pop BY <1>0, <1>2, Zenon DEF Pop
<1>3. CASE Prestart BY <1>0, <1>3, Zenon DEF Prestart
<1>4. CASE ConnectSlots BY <1>0, <1>4, Zenon DEF ConnectSlots
<1>5. CASE NotifyStart BY <1>0, <1>5, Zenon DEF NotifyStart
<1>6. CASE VisitGroup BY <1>0, <1>6, Zenon DEF VisitGroup
<1>7. CASE Stop BY <1>0, <1>7, Zenon DEF Stop
<1>8. CASE Upload BY <1>0, <1>8, Zenon DEF Upload
<1>9. CASE Exit BY <1>0, <1>9, Zenon DEF Exit
<1>10. CASE NotifyOutcome BY <1>0, <1>10, Zenon DEF NotifyOutcome
<1>11. CASE Delete BY <1>0, <1>11, Zenon DEF Delete
<1>12. ASSUME NEW t \in Threads, SendFailed(t) PROVE Flags'
  BY <1>0, <1>12, Zenon DEF SendFailed
<1>13. ASSUME NEW m \in Monitors, KernelEvent(m) PROVE Flags'
  BY <1>0, <1>13, Zenon DEF KernelEvent
<1>14. ASSUME NEW m \in Monitors, Signal(m) PROVE Flags'
  BY <1>0, <1>14, Zenon DEF Signal
<1>15. ASSUME NEW m \in Monitors, SetFlag(m) PROVE Flags'
  BY <1>0, <1>15, Zenon DEF SetFlag
<1>16. ASSUME NEW m \in Monitors, SendSystemEvent(m) PROVE Flags'
  BY <1>0, <1>16, Zenon DEF SendSystemEvent
<1>17. CASE FirstConnect BY <1>0, <1>17, Zenon DEF FirstConnect, Accepted
<1>18. CASE Check BY <1>0, <1>18, Zenon DEF Check
<1>19. CASE OnServerConnectEvent BY <1>0, <1>19, Zenon DEF OnServerConnectEvent
<1>20. CASE OnServerPingEvent BY <1>0, <1>20, Zenon DEF OnServerPingEvent
<1>21. CASE OnOptionEvent BY <1>0, <1>21, OptionsAssumption, Zenon DEF OnOptionEvent
<1>22. CASE OnVisitEvent BY <1>0, <1>22, Zenon DEF OnVisitEvent
<1>23. CASE ReceiveNothing BY <1>0, <1>23, Zenon DEF ReceiveNothing
<1>24. CASE ReceiveError BY <1>0, <1>24, Zenon DEF ReceiveError
<1>25. CASE DisconnectFromServer BY <1>0, <1>25, Zenon DEF DisconnectFromServer
<1>26. CASE ConnectToServer BY <1>0, <1>26, Zenon DEF ConnectToServer, Accepted
<1>27. CASE Reconnected BY <1>0, <1>27, Zenon DEF Reconnected
<1>28. CASE Break BY <1>0, <1>28, Zenon DEF Break, LinkEnds
<1>29. CASE ParseConnect BY <1>0, <1>29, Zenon DEF ParseConnect
<1>30. CASE ParseReconnect BY <1>0, <1>30, Zenon DEF ParseReconnect
<1>31. CASE ParseSystemEvent BY <1>0, <1>31, Zenon DEF ParseSystemEvent, Disconnected, LinkEnds
<1>32. CASE Ignore BY <1>0, <1>32, Zenon DEF Ignore
<1>33. CASE FileWithoutClient BY <1>0, <1>33, Zenon DEF FileWithoutClient
<1>34. CASE ParseStart BY <1>0, <1>34, Zenon DEF ParseStart
<1>35. CASE ParseOutcome BY <1>0, <1>35, Zenon DEF ParseOutcome, Disconnected, LinkEnds
<1>36. CASE SendVisit BY <1>0, <1>36, Zenon DEF SendVisit, Disconnected, LinkEnds
<1>37. CASE Ping BY <1>0, <1>37, Zenon DEF Ping, Disconnected, LinkEnds
<1>38. CASE Revert BY <1>0, <1>38, Zenon DEF Revert
<1> QED
  BY <1>1, <1>2, <1>3, <1>4, <1>5, <1>6, <1>7, <1>8, <1>9, <1>10, <1>11, <1>12,
     <1>13, <1>14, <1>15, <1>16, <1>17, <1>18, <1>19, <1>20, <1>21, <1>22,
     <1>23, <1>24, <1>25, <1>26, <1>27, <1>28, <1>29, <1>30, <1>31, <1>32,
     <1>33, <1>34, <1>35, <1>36, <1>37, <1>38 DEF Next

(* The server's reader takes the head of the wire; a disconnect empties it. *)
LEMMA TakenType ==
    ASSUME TypeOK, wire # <<>>, Taken
    PROVE  wire' \in Seq(Messages) /\ Len(wire') <= MaxWire
BY BoundsAssumption DEF TypeOK, Taken

LEMMA DisconnectedType ==
    ASSUME TypeOK, Disconnected
    PROVE  /\ clientState' = "DISCONNECTED" /\ held' \in 0..Visits
           /\ link' \in {"none", "up", "unread", "closed", "reset"}
           /\ inbox' \in Seq(Documents)
           /\ wire' \in Seq(Messages) /\ Len(wire') <= MaxWire
<1>1. CASE linked
  <2>1. /\ clientState' = "DISCONNECTED" /\ held' = 0
        /\ link' \in {"closed", "reset"} /\ wire' = <<>>
        /\ inbox' = IF link' = "closed" THEN inbox ELSE <<>>
    BY <1>1 DEF Disconnected, LinkEnds
  <2>2. inbox \in Seq(Documents)
    BY DEF TypeOK
  <2>3. inbox' \in Seq(Documents)
    BY <2>1, <2>2
  <2> QED BY <2>1, <2>3, VisitsAssumption, BoundsAssumption
<1>2. CASE ~linked
  BY <1>2, VisitsAssumption DEF TypeOK, Disconnected
<1> QED BY <1>1, <1>2

(* What the server's steps leave to show of TypeOK: the variables of the    *)
(* server and of the connection.                                            *)
LEMMA ServerType ==
    ASSUME TypeOK, Flags', UNCHANGED <<clientVars, breaks>>,
           clientState' \in {"NONE", "WAITING", "AWAITING_VISITING", "VISITING", "DISCONNECTED"},
           held' \in 0..Visits, next' \in 1..(Visits + 1),
           link' \in {"none", "up", "unread", "closed", "reset"},
           inbox' \in Seq(Documents), wire' \in Seq(Messages), Len(wire') <= MaxWire
    PROVE  TypeOK'
<1>1. /\ UNCHANGED <<toVisit, visitor, visit, outcomes, slots, driver, monitor>>
      /\ UNCHANGED <<during, marked, events, receiver, failed, breaks>>
  BY DEF clientVars, queueVars, visitVars, analyzerVars, monitorVars
<1>2. /\ toVisit' \in Seq(1..Visits) /\ visit' \in 0..Visits
      /\ outcomes' \in Seq(Codes \cup {"OK", "EXCEPTION"})
      /\ slots' \in SUBSET Monitors /\ marked' \in SUBSET (0..Visits)
      /\ events' \in 0..MaxEvents /\ failed' \in SUBSET Threads /\ breaks' \in 0..MaxBreaks
  BY <1>1 DEF TypeOK
<1>3. /\ visitor' \in {"wait", "pop", "prestart", "connect", "start", "visit",
                       "stop", "upload", "report", "delete", "exited"}
      /\ receiver' \in {"none", "check", "recv", "close", "connect", "assign", "ended"}
      /\ driver' \in [Monitors -> 0..Visits \cup {NoEvent}]
      /\ monitor' \in [Monitors -> {"idle", "called", "marked"}]
      /\ during' \in [Monitors -> 0..Visits]
  BY <1>1 DEF TypeOK
<1> QED BY <1>2, <1>3 DEF TypeOK

(* TypeOK is inductive with what is known of the outcomes.                  *)
LEMMA TypeStep ==
    ASSUME TypeInv, Next
    PROVE  TypeInv'
<1> USE DEF TypeInv, OutcomesSound, queueVars, visitVars, analyzerVars, monitorVars, linkVars,
            serverVars, clientVars
<1>0. TypeOK /\ Flags'
  BY FlagsStep
<1>1. CASE Wait
  BY <1>0, <1>1 DEF TypeOK, Wait
<1>2. CASE Pop
  <2>1. Head(toVisit) \in 1..Visits /\ toVisit' \in Seq(1..Visits)
    <3>1. toVisit \in Seq(1..Visits) /\ toVisit # <<>> /\ toVisit' = Tail(toVisit)
      BY <1>2 DEF TypeOK, Pop
    <3> QED BY <3>1, HeadTailProperties
  <2>2. visit' \in 0..Visits /\ visitor' \in {"wait", "prestart"}
    BY <1>2, <2>1, VisitsAssumption DEF TypeOK, Pop
  <2> QED BY <1>0, <1>2, <2>1, <2>2 DEF TypeOK, Pop
<1>3. CASE Prestart
  BY <1>0, <1>3 DEF TypeOK, Prestart
<1>4. CASE ConnectSlots
  BY <1>0, <1>4 DEF TypeOK, ConnectSlots
<1>5. CASE NotifyStart
  <2>1. Report("start", visit, "OK", malicious) \in Messages
    BY DEF Report, Messages, TypeOK, Flags
  <2>2. /\ wire' \in Seq(Messages) /\ Len(wire') <= MaxWire
        /\ failed' \in SUBSET Threads
    BY <1>5, <2>1, SendMessageType DEF NotifyStart, Threads
  <2> QED BY <1>0, <1>5, <2>2 DEF TypeOK, NotifyStart
<1>6. CASE VisitGroup
  <2>1. PICK code \in Codes \cup {"OK"} : outcomes' \in {<<code>>, <<"EXCEPTION", code>>}
    BY <1>6 DEF VisitGroup
  <2>2. OutcomesSound'
    BY <2>1
  <2>3. outcomes' \in Seq(Codes \cup {"OK", "EXCEPTION"})
    <3> DEFINE S == Codes \cup {"OK", "EXCEPTION"}
    <3>1. code \in S /\ "EXCEPTION" \in S
      OBVIOUS
    <3> HIDE DEF S
    <3>2. <<code>> \in Seq(S) /\ <<"EXCEPTION", code>> \in Seq(S)
      BY <3>1
    <3>3. outcomes' \in Seq(S)
      BY <2>1, <3>2
    <3> QED BY <3>3 DEF S
  <2>4. TypeOK'
    BY <1>0, <1>6, <2>3 DEF TypeOK, VisitGroup
  <2> QED BY <2>2, <2>4
<1>7. CASE Stop
  BY <1>0, <1>7 DEF TypeOK, Stop
<1>8. CASE Upload
  <2>1. /\ wire' \in Seq(Messages) /\ Len(wire') <= MaxWire
        /\ failed' \in SUBSET Threads
    BY <1>8, PlainMessages, SendMessageType DEF TypeOK, Upload, Threads
  <2> QED BY <1>0, <1>8, <2>1 DEF TypeOK, Upload
<1>9. CASE Exit
  BY <1>0, <1>9, VisitsAssumption, BoundsAssumption DEF TypeOK, Exit
<1>10. CASE NotifyOutcome
  <2>1. visitor = "report" /\ SendMessage("visitor", OutcomeReport(Head(outcomes)))
    BY <1>10 DEF NotifyOutcome
  <2>2. /\ wire' \in Seq(Messages) /\ Len(wire') <= MaxWire
        /\ failed' \in SUBSET Threads
    BY <2>1, OutcomeFacts, SendMessageType DEF Threads
  <2>3. outcomes' \in Seq(Codes \cup {"OK", "EXCEPTION"})
    BY <1>10, <2>1, OutcomeFacts DEF NotifyOutcome
  <2>4. OutcomesSound'
    BY <1>10, <2>1, OutcomeFacts DEF NotifyOutcome
  <2>5. TypeOK'
    BY <1>0, <1>10, <2>2, <2>3 DEF TypeOK, NotifyOutcome
  <2> QED BY <2>4, <2>5
<1>11. CASE Delete
  BY <1>0, <1>11, VisitsAssumption DEF TypeOK, Delete
<1>12. ASSUME NEW t \in Threads, SendFailed(t) PROVE TypeInv'
  BY <1>0, <1>12 DEF TypeOK, SendFailed
<1>13. ASSUME NEW m \in Monitors, KernelEvent(m) PROVE TypeInv'
  BY <1>0, <1>13, BoundsAssumption DEF TypeOK, KernelEvent, NoEvent
<1>14. ASSUME NEW m \in Monitors, Signal(m) PROVE TypeInv'
  <2>1. driver' \in [Monitors -> 0..Visits \cup {NoEvent}]
    BY <1>14 DEF TypeOK, Signal
  <2>2. /\ monitor' \in [Monitors -> {"idle", "called", "marked"}]
        /\ during' \in [Monitors -> 0..Visits]
    BY <1>14 DEF TypeOK, Signal
  <2> QED BY <1>0, <1>14, <2>1, <2>2, SMTT(20) DEF TypeOK, Signal
<1>15. ASSUME NEW m \in Monitors, SetFlag(m) PROVE TypeInv'
  <2>1. /\ monitor' \in [Monitors -> {"idle", "called", "marked"}]
        /\ marked' \in SUBSET (0..Visits)
    BY <1>15 DEF TypeOK, SetFlag
  <2> QED BY <1>0, <1>15, <2>1 DEF TypeOK, SetFlag
<1>16. ASSUME NEW m \in Monitors, SendSystemEvent(m) PROVE TypeInv'
  <2>1. /\ wire' \in Seq(Messages) /\ Len(wire') <= MaxWire
        /\ failed' \in SUBSET Threads
    BY <1>16, PlainMessages, SendMessageType DEF SendSystemEvent, Threads
  <2> QED BY <1>0, <1>16, <2>1, VisitsAssumption DEF TypeOK, SendSystemEvent
<1>17. CASE FirstConnect
  <2>1. <<Doc("connect", 0)>> \in Seq(Documents)
    BY DEF Doc, Documents
  <2> QED BY <1>0, <1>17, <2>1, BoundsAssumption DEF TypeOK, FirstConnect, Accepted
<1>18. CASE Check
  BY <1>0, <1>18 DEF TypeOK, Check
<1>19. CASE OnServerConnectEvent
  <2>1. /\ wire' \in Seq(Messages) /\ Len(wire') <= MaxWire
        /\ failed' \in SUBSET Threads
    BY <1>19, PlainMessages, SendMessageType DEF OnServerConnectEvent, Threads
  <2>2. inbox' \in Seq(Documents)
    BY <1>19 DEF TypeOK, OnServerConnectEvent, Reading
  <2> QED BY <1>0, <1>19, <2>1, <2>2, SMTT(20) DEF TypeOK, OnServerConnectEvent, Reading
<1>20. CASE OnServerPingEvent
  <2>1. /\ wire' \in Seq(Messages) /\ Len(wire') <= MaxWire
        /\ failed' \in SUBSET Threads
    BY <1>20, PlainMessages, SendMessageType DEF OnServerPingEvent, Threads
  <2>2. inbox' \in Seq(Documents)
    BY <1>20 DEF TypeOK, OnServerPingEvent, Reading
  <2> QED BY <1>0, <1>20, <2>1, <2>2 DEF TypeOK, OnServerPingEvent, Reading
<1>21. CASE OnOptionEvent
  BY <1>0, <1>21 DEF TypeOK, OnOptionEvent, Reading
<1>22. CASE OnVisitEvent
  <2>1. Head(inbox) \in Documents /\ Head(inbox).type = "visit-event"
        /\ inbox' = Tail(inbox) /\ inbox' \in Seq(Documents)
    BY <1>22 DEF OnVisitEvent, Reading, TypeOK
  <2>2. Head(inbox).visit \in 1..Visits
    BY <2>1 DEF Documents
  <2>3. toVisit' \in Seq(1..Visits)
    BY <1>22, <2>2 DEF OnVisitEvent, TypeOK
  <2> QED BY <1>0, <1>22, <2>1, <2>3, SMTT(20) DEF TypeOK, OnVisitEvent, Reading
<1>23. CASE ReceiveNothing
  BY <1>0, <1>23 DEF TypeOK, ReceiveNothing
<1>24. CASE ReceiveError
  BY <1>0, <1>24, BoundsAssumption DEF TypeOK, ReceiveError
<1>25. CASE DisconnectFromServer
  BY <1>0, <1>25 DEF TypeOK, DisconnectFromServer
<1>26. CASE ConnectToServer
  <2>1. <<Doc("connect", 0)>> \in Seq(Documents)
    BY DEF Doc, Documents
  <2>2. CASE Accepted
    BY <1>0, <1>26, <2>1, <2>2, BoundsAssumption DEF TypeOK, ConnectToServer, Accepted
  <2>3. CASE UNCHANGED <<link, inbox, wire, linked>>
    BY <1>0, <1>26, <2>3 DEF TypeOK, ConnectToServer
  <2> QED BY <1>26, <2>2, <2>3 DEF ConnectToServer
<1>27. CASE Reconnected
  BY <1>0, <1>27 DEF TypeOK, Reconnected
<1>28. CASE Break
  <2>1. LinkEnds => inbox' \in Seq(Documents)
    BY DEF TypeOK, LinkEnds
  <2> QED BY <1>0, <1>28, <2>1, BoundsAssumption DEF TypeOK, Break, LinkEnds
<1>29. CASE ParseConnect
  <2>1. inbox' \in Seq(Documents)
    <3>1. Doc("option", 0) \in Documents
      BY DEF Doc, Documents
    <3> QED BY <1>29, <3>1 DEF TypeOK, ParseConnect
  <2>2. wire' \in Seq(Messages) /\ Len(wire') <= MaxWire
    BY <1>29, TakenType DEF ParseConnect, Take
  <2> QED BY <1>0, <1>29, <2>1, <2>2, VisitsAssumption DEF TypeOK, ParseConnect, Take
<1>30. CASE ParseReconnect
  <2>1. Taken => wire' \in Seq(Messages) /\ Len(wire') <= MaxWire
    BY <1>30, TakenType DEF ParseReconnect, Take
  <2> QED BY <1>0, <1>30, <2>1, SMTT(20) DEF TypeOK, ParseReconnect, Take
<1>31. CASE ParseSystemEvent
  <2>1. Taken => wire' \in Seq(Messages) /\ Len(wire') <= MaxWire
    BY <1>31, TakenType DEF ParseSystemEvent, Take
  <2>2. CASE Disconnected
    BY <1>0, <1>31, <2>2, DisconnectedType DEF TypeOK, ParseSystemEvent, Take
  <2>3. CASE ~Disconnected
    BY <1>0, <1>31, <2>1, <2>3, VisitsAssumption, SMTT(20) DEF TypeOK, ParseSystemEvent, Take
  <2> QED BY <2>2, <2>3
<1>32. CASE Ignore
  <2>1. wire' \in Seq(Messages) /\ Len(wire') <= MaxWire
    BY <1>32, TakenType DEF Ignore, Take
  <2>2. UNCHANGED <<clientVars, breaks, next, clientState, held, link, inbox>>
    BY <1>32 DEF Ignore, Take
  <2>3. held' \in 0..Visits /\ next' \in 1..(Visits + 1) /\ inbox' \in Seq(Documents)
    BY <2>2 DEF TypeOK
  <2>4. /\ clientState' \in {"NONE", "WAITING", "AWAITING_VISITING", "VISITING", "DISCONNECTED"}
        /\ link' \in {"none", "up", "unread", "closed", "reset"}
    BY <2>2 DEF TypeOK
  <2> QED BY <1>0, <2>1, <2>2, <2>3, <2>4, ServerType
<1>33. CASE FileWithoutClient
  BY <1>0, <1>33 DEF TypeOK, FileWithoutClient, Take
<1>34. CASE ParseStart
  <2>1. Taken => wire' \in Seq(Messages) /\ Len(wire') <= MaxWire
    BY <1>34, TakenType DEF ParseStart, Take
  <2> QED BY <1>0, <1>34, <2>1 DEF TypeOK, ParseStart, Take
<1>35. CASE ParseOutcome
  <2>1. CASE Disconnected
    BY <1>0, <1>35, <2>1, DisconnectedType DEF TypeOK, ParseOutcome, Take
  <2>2. CASE /\ Taken
             /\ clientState' = "WAITING" /\ held' = 0
             /\ UNCHANGED <<link, inbox, linked>>
    <3>1. wire' \in Seq(Messages) /\ Len(wire') <= MaxWire
      BY <1>35, <2>2, TakenType DEF ParseOutcome, Take
    <3>2. UNCHANGED <<clientVars, next, breaks>>
      BY <1>35 DEF ParseOutcome, Take
    <3> QED BY <1>0, <2>2, <3>1, <3>2, VisitsAssumption DEF TypeOK
  <2> QED BY <1>35, <2>1, <2>2 DEF ParseOutcome
<1>36. CASE SendVisit
  <2>1. next \in 1..Visits /\ next' \in 1..(Visits + 1)
    BY <1>36, VisitsAssumption DEF TypeOK, SendVisit
  <2>2. Append(inbox, Doc("visit-event", next)) \in Seq(Documents)
    <3>1. Doc("visit-event", next) \in Documents
      BY <2>1 DEF Doc, Documents
    <3> QED BY <3>1 DEF TypeOK
  <2>3. UNCHANGED <<clientVars, breaks>>
    BY <1>36 DEF SendVisit
  <2>4. CASE Disconnected
    BY <1>0, <2>1, <2>3, <2>4, DisconnectedType DEF TypeOK
  <2>5. CASE /\ held' = next /\ clientState' = "AWAITING_VISITING"
             /\ inbox' \in {inbox, Append(inbox, Doc("visit-event", next))}
             /\ UNCHANGED <<link, wire, linked>>
    <3>1. inbox' \in Seq(Documents)
      BY <2>2, <2>5 DEF TypeOK
    <3>2. held' \in 0..Visits
      BY <2>1, <2>5
    <3> QED BY <1>0, <2>1, <2>3, <2>5, <3>1, <3>2 DEF TypeOK
  <2> QED BY <1>36, <2>4, <2>5 DEF SendVisit
<1>37. CASE Ping
  <2>1. <<Doc("ping", 0)>> \in Seq(Documents)
    BY DEF Doc, Documents
  <2>2. CASE Disconnected
    BY <1>0, <1>37, <2>2, DisconnectedType DEF TypeOK, Ping
  <2>3. CASE /\ inbox' = <<Doc("ping", 0)>>
             /\ UNCHANGED <<link, wire, clientState, held, linked>>
    <3>1. inbox' \in Seq(Documents)
      BY <2>1, <2>3
    <3>2. UNCHANGED <<clientVars, breaks, next>>
      BY <1>37 DEF Ping
    <3>3. /\ held' \in 0..Visits /\ next' \in 1..(Visits + 1)
          /\ wire' \in Seq(Messages) /\ Len(wire') <= MaxWire
      BY <2>3, <3>2 DEF TypeOK
    <3>4. /\ clientState' \in {"NONE", "WAITING", "AWAITING_VISITING", "VISITING", "DISCONNECTED"}
          /\ link' \in {"none", "up", "unread", "closed", "reset"}
      BY <2>3 DEF TypeOK
    <3> QED BY <1>0, <3>1, <3>2, <3>3, <3>4, ServerType
  <2> QED BY <1>37, <2>2, <2>3 DEF Ping
<1>38. CASE Revert
  BY <1>0, <1>38, VisitsAssumption, BoundsAssumption DEF TypeOK, Revert, NoEvent
<1> QED
  BY <1>1, <1>2, <1>3, <1>4, <1>5, <1>6, <1>7, <1>8, <1>9, <1>10, <1>11, <1>12,
     <1>13, <1>14, <1>15, <1>16, <1>17, <1>18, <1>19, <1>20, <1>21, <1>22,
     <1>23, <1>24, <1>25, <1>26, <1>27, <1>28, <1>29, <1>30, <1>31, <1>32,
     <1>33, <1>34, <1>35, <1>36, <1>37, <1>38 DEF Next

-----------------------------------------------------------------------------
(* The client alone                                                         *)

LEMMA LocalStep ==
    ASSUME TypeInv, LocalInv, Next
    PROVE  LocalInv'
<1> USE DEF queueVars, visitVars, analyzerVars, monitorVars, linkVars, serverVars,
            VisitInHand, QueueSound, ListensDuringVisit, EndedIsDisconnected
<1>a. VisitInHand /\ QueueSound /\ ListensDuringVisit /\ EndedIsDisconnected
  BY DEF LocalInv
<1>0. ASSUME UNCHANGED clientVars PROVE LocalInv'
  BY <1>a, <1>0 DEF clientVars, LocalInv
<1>1. CASE Wait
  BY <1>a, <1>1 DEF Wait, LocalInv
<1>2. CASE Pop
  <2>1. /\ toVisit \in Seq(1..Visits) /\ toVisit # <<>> /\ toVisit' = Tail(toVisit)
        /\ visitor = "pop" /\ visitor' \in {"wait", "prestart"}
    BY <1>2 DEF Pop, TypeInv, TypeOK
  <2>2. Head(toVisit) \in 1..Visits /\ Len(toVisit') = Len(toVisit) - 1 /\ Len(toVisit) \in Nat
    <3> DEFINE S == 1..Visits
    <3>1. toVisit \in Seq(S) /\ toVisit # <<>> /\ toVisit' = Tail(toVisit)
      BY <2>1
    <3> HIDE DEF S
    <3>2. Head(toVisit) \in S /\ Len(toVisit') = Len(toVisit) - 1 /\ Len(toVisit) \in Nat
      BY <3>1, HeadTailProperties
    <3> QED BY <3>2 DEF S
  <2>3. VisitInHand'
    BY <1>2, <1>a, <2>2 DEF Pop
  <2>4. QueueSound'
    <3>1. notEmpty' = notEmpty
      BY <1>2 DEF Pop
    <3>2. notEmpty => Len(toVisit') > 0
      BY <1>a, <2>1, <2>2
    <3>3. toVisit' = <<>> => Len(toVisit') = 0
      OBVIOUS
    <3> QED BY <2>1, <3>1, <3>2, <3>3
  <2>5. ListensDuringVisit' /\ EndedIsDisconnected'
    BY <1>2, <1>a, <2>1 DEF Pop
  <2> QED BY <2>3, <2>4, <2>5 DEF LocalInv
<1>3. CASE Prestart
  BY <1>a, <1>3 DEF Prestart, LocalInv
<1>4. CASE ConnectSlots
  BY <1>a, <1>4 DEF ConnectSlots, LocalInv
<1>5. CASE NotifyStart
  BY <1>a, <1>5 DEF NotifyStart, LocalInv
<1>6. CASE VisitGroup
  BY <1>a, <1>6 DEF VisitGroup, LocalInv
<1>7. CASE Stop
  BY <1>a, <1>7 DEF Stop, LocalInv
<1>8. CASE Upload
  BY <1>a, <1>8 DEF Upload, LocalInv
<1>9. CASE Exit
  BY <1>a, <1>9 DEF Exit, LocalInv
<1>10. CASE NotifyOutcome
  BY <1>a, <1>10 DEF NotifyOutcome, LocalInv
<1>11. CASE Delete
  BY <1>a, <1>11 DEF Delete, LocalInv
<1>12. ASSUME NEW t \in Threads, SendFailed(t) PROVE LocalInv'
  BY <1>a, <1>12 DEF SendFailed, LocalInv
<1>13. ASSUME NEW m \in Monitors, KernelEvent(m) PROVE LocalInv'
  BY <1>a, <1>13 DEF KernelEvent, LocalInv
<1>14. ASSUME NEW m \in Monitors, Signal(m) PROVE LocalInv'
  BY <1>a, <1>14 DEF Signal, LocalInv
<1>15. ASSUME NEW m \in Monitors, SetFlag(m) PROVE LocalInv'
  BY <1>a, <1>15 DEF SetFlag, LocalInv
<1>16. ASSUME NEW m \in Monitors, SendSystemEvent(m) PROVE LocalInv'
  BY <1>a, <1>16 DEF SendSystemEvent, LocalInv
<1>17. CASE FirstConnect
  BY <1>a, <1>17 DEF FirstConnect, LocalInv
<1>18. CASE Check
  BY <1>a, <1>18 DEF Check, LocalInv
<1>19. CASE OnServerConnectEvent
  BY <1>a, <1>19 DEF OnServerConnectEvent, Reading, LocalInv
<1>20. CASE OnServerPingEvent
  BY <1>a, <1>20 DEF OnServerPingEvent, Reading, LocalInv
<1>21. CASE OnOptionEvent
  BY <1>a, <1>21 DEF OnOptionEvent, Reading, LocalInv
<1>22. CASE OnVisitEvent
  <2>1. /\ inbox # <<>> /\ Head(inbox).type = "visit-event"
        /\ toVisit' = Append(toVisit, Head(inbox).visit)
        /\ UNCHANGED <<visitor, visit, slots, dumping, captureNetworkPackets, receiver, connected>>
    BY <1>22 DEF OnVisitEvent, Reading
  <2>2. toVisit \in Seq(1..Visits) /\ Head(inbox).visit \in 1..Visits
    <3>1. Head(inbox) \in Documents
      BY <2>1 DEF TypeInv, TypeOK
    <3> QED BY <2>1, <3>1 DEF Documents, TypeInv, TypeOK
  <2>3. Len(toVisit') = Len(toVisit) + 1 /\ Len(toVisit) \in Nat
    BY <2>1, <2>2, AppendProperties
  <2>4. toVisit' # <<>> /\ (visitor = "pop" => Len(toVisit') > 1)
    <3>1. toVisit = <<>> \/ Len(toVisit) > 0
      BY <2>2
    <3>2. Len(toVisit') > 0 /\ (visitor = "pop" => Len(toVisit') > 1)
      BY <1>a, <2>3, <3>1
    <3>3. toVisit' = <<>> => Len(toVisit') = 0
      OBVIOUS
    <3> QED BY <3>2, <3>3
  <2> QED BY <1>a, <2>1, <2>4 DEF LocalInv
<1>23. CASE ReceiveNothing
  BY <1>a, <1>23 DEF ReceiveNothing, LocalInv
<1>24. CASE ReceiveError
  BY <1>a, <1>24 DEF ReceiveError, LocalInv
<1>25. CASE DisconnectFromServer
  BY <1>a, <1>25 DEF DisconnectFromServer, LocalInv
<1>26. CASE ConnectToServer
  BY <1>a, <1>26 DEF ConnectToServer, LocalInv
<1>27. CASE Reconnected
  BY <1>a, <1>27 DEF Reconnected, LocalInv
<1>28. CASE Break
  BY <1>0, <1>28 DEF Break
<1>29. CASE ParseConnect
  BY <1>0, <1>29 DEF ParseConnect, Take
<1>30. CASE ParseReconnect
  BY <1>0, <1>30 DEF ParseReconnect, Take
<1>31. CASE ParseSystemEvent
  BY <1>0, <1>31 DEF ParseSystemEvent, Take
<1>32. CASE Ignore
  BY <1>0, <1>32 DEF Ignore, Take
<1>33. CASE FileWithoutClient
  BY <1>0, <1>33 DEF FileWithoutClient, Take
<1>34. CASE ParseStart
  BY <1>0, <1>34 DEF ParseStart, Take
<1>35. CASE ParseOutcome
  BY <1>0, <1>35 DEF ParseOutcome, Take
<1>36. CASE SendVisit
  BY <1>0, <1>36 DEF SendVisit
<1>37. CASE Ping
  BY <1>0, <1>37 DEF Ping
<1>38. CASE Revert
  BY <1>a, <1>38 DEF Revert, LocalInv
<1> QED
  BY <1>1, <1>2, <1>3, <1>4, <1>5, <1>6, <1>7, <1>8, <1>9, <1>10, <1>11, <1>12,
     <1>13, <1>14, <1>15, <1>16, <1>17, <1>18, <1>19, <1>20, <1>21, <1>22,
     <1>23, <1>24, <1>25, <1>26, <1>27, <1>28, <1>29, <1>30, <1>31, <1>32,
     <1>33, <1>34, <1>35, <1>36, <1>37, <1>38 DEF Next

-----------------------------------------------------------------------------
(* Client and server                                                        *)

(* What send() does to the wire.                                            *)
LEMMA SendMessageEffect ==
    ASSUME TypeOK, NEW t, NEW msg \in Messages, SendMessage(t, msg)
    PROVE  \/ wire' = wire
           \/ /\ Len(wire') = Len(wire) + 1 /\ wire'[Len(wire) + 1] = msg
              /\ \A i \in 1..Len(wire) : wire'[i] = wire[i]
<1>1. wire \in Seq(Messages)
  BY DEF TypeOK
<1>2. wire' = wire \/ wire' = Append(wire, msg)
  BY DEF SendMessage
<1> QED BY <1>1, <1>2, AppendProperties

(* What the receiver leaves in the inbox, and the server on the wire.       *)
LEMMA ReadingEffect ==
    ASSUME TypeOK, inbox # <<>>, inbox' = Tail(inbox)
    PROVE  /\ Len(inbox) \in Nat /\ Len(inbox) > 0 /\ Head(inbox) = inbox[1]
           /\ Len(inbox') = Len(inbox) - 1
           /\ \A i \in 1..Len(inbox') : inbox'[i] = inbox[i + 1]
<1>1. inbox \in Seq(Documents)
  BY DEF TypeOK
<1> QED BY <1>1, HeadTailProperties

LEMMA TakenEffect ==
    ASSUME TypeOK, wire # <<>>, wire' = Tail(wire)
    PROVE  /\ Len(wire) \in Nat /\ Len(wire) > 0 /\ Head(wire) = wire[1]
           /\ Len(wire') = Len(wire) - 1
           /\ \A i \in 1..Len(wire') : wire'[i] = wire[i + 1]
<1>1. wire \in Seq(Messages)
  BY DEF TypeOK
<1> QED BY <1>1, HeadTailProperties

(* A message that is no report disturbs nothing, read or not with the head  *)
(* of the inbox; "connect" must be the first.                               *)
LEMMA PlainMessageStep ==
    ASSUME TypeInv, ExchangeInv, NEW t,
           NEW type \in {"connect", "reconnect", "pong", "system-event", "file"},
           SendMessage(t, Message(type)),
           inbox' = inbox \/ (inbox # <<>> /\ inbox' = Tail(inbox)),
           type = "connect" => /\ clientState = "NONE" /\ ~reconnecting
                               /\ \A i \in 1..Len(wire) : wire[i].type # "connect"
                               /\ \A i \in 1..Len(inbox') : inbox'[i].type # "connect",
           UNCHANGED <<toVisit, visit, clientState, held, linked, reconnecting, receiver, link>>,
           receiver # "none" \/ inbox' = inbox,
           visitor' = visitor \/ (visitor \in Active /\ visitor' \in Active)
    PROVE  ExchangeInv'
<1>1. \/ wire' = wire
      \/ /\ Len(wire') = Len(wire) + 1 /\ wire'[Len(wire) + 1] = Message(type)
         /\ \A i \in 1..Len(wire) : wire'[i] = wire[i]
  BY PlainMessages, SendMessageEffect DEF TypeInv
<1>2. Len(wire) \in Nat /\ Len(inbox) \in Nat
  BY DEF TypeInv, TypeOK
<1>3. ~IsReport(Message(type)) /\ ~IsFinal(Message(type)) /\ Message(type).type = type
  BY DEF IsReport, IsFinal, Message
<1>4. PICK k \in 0..1 : /\ Len(inbox') = Len(inbox) - k
                        /\ \A i \in 1..Len(inbox') : inbox'[i] = inbox[i + k]
  <2>1. CASE inbox' = inbox
    <3>1. Len(inbox') = Len(inbox) - 0 /\ \A i \in 1..Len(inbox') : inbox'[i] = inbox[i + 0]
      BY <1>2, <2>1
    <3> QED BY <3>1
  <2>2. CASE inbox # <<>> /\ inbox' = Tail(inbox)
    <3>1. Len(inbox') = Len(inbox) - 1 /\ \A i \in 1..Len(inbox') : inbox'[i] = inbox[i + 1]
      BY <2>2, ReadingEffect DEF TypeInv
    <3> QED BY <3>1
  <2> QED BY <2>1, <2>2
<1>5. NoVisitDoc => NoVisitDoc'
  BY <1>2, <1>4 DEF NoVisitDoc
<1>6. OneVisit' /\ (NoVisit => NoVisit') /\ LinkedHasClient'
  <2>1. \A i, j \in 1..Len(inbox') :
          inbox'[i].type = "visit-event" /\ inbox'[j].type = "visit-event" => i = j
    <3> SUFFICES ASSUME NEW i \in 1..Len(inbox'), NEW j \in 1..Len(inbox'),
                        inbox'[i].type = "visit-event", inbox'[j].type = "visit-event"
                 PROVE  i = j
      OBVIOUS
    <3>1. /\ i + k \in 1..Len(inbox) /\ inbox[i + k].type = "visit-event"
          /\ j + k \in 1..Len(inbox) /\ inbox[j + k].type = "visit-event"
      BY <1>2, <1>4
    <3>2. i + k = j + k
      BY <3>1 DEF ExchangeInv, OneVisit
    <3> QED BY <3>2
  <2>2. visitor \in Resting <=> visitor' \in Resting
    BY DEF Active, Resting
  <2>3. visitor \in Active <=> visitor' \in Active
    OBVIOUS
  <2> QED BY <1>5, <2>1, <2>2, <2>3 DEF ExchangeInv, OneVisit, NoVisit, LinkedHasClient
<1>7. NothingForIdle' /\ FinalIsLast'
  BY <1>1, <1>2, <1>3, <1>6 DEF ExchangeInv, NothingForIdle, FinalIsLast
<1>8. AllAboutHeld'
  <2>1. \A i \in 1..Len(inbox') : i + k \in 1..Len(inbox) /\ inbox'[i] = inbox[i + k]
    BY <1>2, <1>4
  <2> SUFFICES ASSUME clientState' \in {"AWAITING_VISITING", "VISITING"}
               PROVE  /\ \A i \in 1..Len(inbox') : inbox'[i].type = "visit-event" => inbox'[i].visit = held'
                      /\ \A i \in 1..Len(toVisit') : toVisit'[i] = held'
                      /\ visitor' \in Active => visit' = held'
                      /\ \A i \in 1..Len(wire') : IsReport(wire'[i]) => wire'[i].visit = held'
    BY DEF AllAboutHeld
  <2>2. /\ \A i \in 1..Len(inbox) : inbox[i].type = "visit-event" => inbox[i].visit = held
        /\ \A i \in 1..Len(toVisit) : toVisit[i] = held
        /\ visitor \in Active => visit = held
        /\ \A i \in 1..Len(wire) : IsReport(wire[i]) => wire[i].visit = held
    BY DEF ExchangeInv, AllAboutHeld
  <2>3. \A i \in 1..Len(inbox') : inbox'[i].type = "visit-event" => inbox'[i].visit = held'
    BY <2>1, <2>2
  <2>4. visitor' \in Active <=> visitor \in Active
    OBVIOUS
  <2>5. ASSUME NEW i \in 1..Len(wire'), IsReport(wire'[i]) PROVE wire'[i].visit = held'
    <3>1. CASE wire' = wire
      BY <2>2, <2>5, <3>1
    <3>2. CASE /\ Len(wire') = Len(wire) + 1 /\ wire'[Len(wire) + 1] = Message(type)
               /\ \A j \in 1..Len(wire) : wire'[j] = wire[j]
      <4>1. i # Len(wire) + 1
        BY <1>3, <2>5, <3>2
      <4>2. i \in 1..Len(wire)
        BY <1>2, <3>2, <4>1
      <4> QED BY <2>2, <2>5, <3>2, <4>2
    <3> QED BY <1>1, <3>1, <3>2
  <2> QED BY <2>2, <2>3, <2>4, <2>5
<1>9. ConnectsOnce'
  <2>1. receiver' = "none" => link' = "none" /\ clientState' = "NONE" /\ NoVisit' /\ ~reconnecting'
    BY <1>6 DEF ExchangeInv, ConnectsOnce
  <2>2. receiver' \in {"close", "connect"} => reconnecting'
    BY DEF ExchangeInv, ConnectsOnce
  <2>3. ASSUME ~reconnecting', NEW i \in 1..Len(inbox'), inbox'[i].type = "connect"
        PROVE  /\ clientState' = "NONE"
               /\ \A j \in 1..Len(inbox') : inbox'[j].type = "connect" => i = j
               /\ \A j \in 1..Len(wire') : wire'[j].type # "connect"
    <3>1. /\ i + k \in 1..Len(inbox) /\ inbox[i + k].type = "connect" /\ ~reconnecting
          /\ type # "connect"
      BY <1>2, <1>4, <2>3
    <3>2. /\ clientState = "NONE"
          /\ \A j \in 1..Len(inbox) : inbox[j].type = "connect" => i + k = j
          /\ \A j \in 1..Len(wire) : wire[j].type # "connect"
      BY <3>1 DEF ExchangeInv, ConnectsOnce
    <3>3. \A j \in 1..Len(inbox') : inbox'[j].type = "connect" => i = j
      BY <1>2, <1>4, <3>2
    <3>4. \A j \in 1..Len(wire') : wire'[j].type # "connect"
      BY <1>1, <1>2, <1>3, <3>1, <3>2
    <3> QED BY <3>2, <3>3, <3>4
  <2>4. \A i \in 1..Len(wire') : wire'[i].type = "connect" =>
          /\ clientState' = "NONE" /\ ~reconnecting'
          /\ \A j \in 1..Len(wire') : wire'[j].type = "connect" => i = j
    BY <1>1, <1>2, <1>3, SMTT(40) DEF ExchangeInv, ConnectsOnce
  <2> QED BY <2>1, <2>2, <2>3, <2>4 DEF ConnectsOnce
<1> QED BY <1>6, <1>7, <1>8, <1>9 DEF ExchangeInv

(* A step of the Visitor within a visit, or from rest to rest.              *)
LEMMA PhaseStep ==
    ASSUME ExchangeInv,
           UNCHANGED <<inbox, wire, toVisit, clientState, held, linked, reconnecting, receiver, link>>,
           \/ visitor \in Active /\ visitor' \in Active /\ visit' = visit
           \/ visitor \in Resting /\ visitor' \in Resting
    PROVE  ExchangeInv'
<1>1. OneVisit' /\ (NoVisit' <=> NoVisit) /\ LinkedHasClient'
  BY DEF ExchangeInv, OneVisit, NoVisit, NoVisitDoc, LinkedHasClient, Active, Resting
<1>2. NothingForIdle' /\ FinalIsLast' /\ AllAboutHeld' /\ ConnectsOnce'
  BY <1>1 DEF ExchangeInv, NothingForIdle, FinalIsLast, AllAboutHeld, ConnectsOnce, Active, Resting
<1> QED BY <1>1, <1>2 DEF ExchangeInv

(* A report about the visit in hand; after the last one the Visitor rests.  *)
LEMMA ReportStep ==
    ASSUME TypeInv, ExchangeInv, visitor \in Active,
           NEW msg \in Messages, SendMessage("visitor", msg),
           IsReport(msg), msg.visit = visit,
           visitor' = "delete" \/ (visitor' \in Active /\ ~IsFinal(msg)),
           UNCHANGED <<inbox, toVisit, visit, clientState, held, linked, reconnecting, receiver, link>>
    PROVE  ExchangeInv'
<1>1. \/ wire' = wire
      \/ /\ Len(wire') = Len(wire) + 1 /\ wire'[Len(wire) + 1] = msg
         /\ \A i \in 1..Len(wire) : wire'[i] = wire[i]
  BY SendMessageEffect DEF TypeInv
<1>2. Len(wire) \in Nat
  BY DEF TypeInv, TypeOK
<1>3. NoVisitDoc /\ toVisit = <<>> /\ ~NoVisit
  BY DEF ExchangeInv, OneVisit, NoVisit, Active, Resting
<1>4. clientState \notin {"NONE", "WAITING"} /\ \A i \in 1..Len(wire) : ~IsFinal(wire[i])
  BY <1>3 DEF ExchangeInv, NothingForIdle, FinalIsLast
<1>5. NoVisitDoc' /\ toVisit' = <<>> /\ (visitor' = "delete" => NoVisit')
  BY <1>3 DEF NoVisit, NoVisitDoc, Resting
<1>6. OneVisit' /\ LinkedHasClient'
  BY <1>5 DEF ExchangeInv, OneVisit, NoVisitDoc, LinkedHasClient
<1>7. NothingForIdle'
  BY <1>4 DEF NothingForIdle
<1>8. FinalIsLast'
  <2> SUFFICES ASSUME NEW i \in 1..Len(wire'), IsFinal(wire'[i])
               PROVE  NoVisit' /\ \A j \in 1..Len(wire') : j > i => ~IsReport(wire'[j])
    BY DEF FinalIsLast
  <2>1. wire' # wire /\ i = Len(wire) + 1
    BY <1>1, <1>2, <1>4
  <2>2. wire'[i] = msg /\ Len(wire') = i
    BY <1>1, <2>1
  <2> QED BY <1>5, <2>1, <2>2, <1>2
<1>9. AllAboutHeld'
  BY <1>1, <1>2, <1>3, <1>5 DEF ExchangeInv, AllAboutHeld, NoVisitDoc
<1>10. ConnectsOnce'
  BY <1>1, <1>2, <1>4 DEF ExchangeInv, ConnectsOnce, IsReport
<1> QED BY <1>6, <1>7, <1>8, <1>9, <1>10 DEF ExchangeInv

(* The Visitor's thread.                                                    *)
LEMMA VisitorExchange ==
    ASSUME TypeInv, LocalInv, ExchangeInv, VisitorStep \/ Exit
    PROVE  ExchangeInv'
<1> USE DEF queueVars, visitVars, analyzerVars, monitorVars, linkVars, serverVars
<1>1. CASE Wait
  <2>1. toVisit # <<>> /\ visitor = "wait"
    BY <1>1 DEF Wait, LocalInv, QueueSound
  <2>2. NoVisitDoc /\ ~NoVisit
    BY <2>1 DEF ExchangeInv, OneVisit, NoVisit
  <2>3. clientState \notin {"NONE", "WAITING"} /\ receiver # "none"
        /\ \A i \in 1..Len(wire) : ~IsFinal(wire[i])
    BY <2>2 DEF ExchangeInv, NothingForIdle, FinalIsLast, ConnectsOnce
  <2>4. OneVisit' /\ LinkedHasClient'
    BY <1>1, <2>2 DEF Wait, ExchangeInv, OneVisit, LinkedHasClient, NoVisitDoc, Active
  <2>5. NothingForIdle' /\ FinalIsLast'
    BY <1>1, <2>3 DEF Wait, NothingForIdle, FinalIsLast
  <2>6. AllAboutHeld' /\ ConnectsOnce'
    BY <1>1, <2>3 DEF Wait, ExchangeInv, AllAboutHeld, ConnectsOnce, Active
  <2> QED BY <2>4, <2>5, <2>6 DEF ExchangeInv
<1>2. CASE Pop
  <2>1. toVisit # <<>> /\ visitor = "pop" /\ toVisit \in Seq(1..Visits)
    BY <1>2 DEF Pop, TypeInv, TypeOK
  <2>2. NoVisitDoc /\ ~NoVisit /\ Len(toVisit) = 1
    <3>1. NoVisitDoc /\ ~NoVisit /\ Len(toVisit) <= 1
      BY <2>1 DEF ExchangeInv, OneVisit, NoVisit
    <3>2. Len(toVisit) = 1
      BY <2>1, <3>1
    <3> QED BY <3>1, <3>2
  <2>3. toVisit' = <<>> /\ Head(toVisit) = toVisit[1] /\ NoVisitDoc'
    BY <1>2, <2>1, <2>2, HeadTailProperties DEF Pop, NoVisitDoc
  <2>4. clientState \notin {"NONE", "WAITING"} /\ receiver # "none"
        /\ \A i \in 1..Len(wire) : ~IsFinal(wire[i])
    BY <2>2 DEF ExchangeInv, NothingForIdle, FinalIsLast, ConnectsOnce
  <2>5. OneVisit' /\ LinkedHasClient'
    BY <1>2, <2>3 DEF Pop, ExchangeInv, OneVisit, LinkedHasClient, NoVisitDoc
  <2>6. NothingForIdle' /\ FinalIsLast'
    BY <1>2, <2>4 DEF Pop, NothingForIdle, FinalIsLast
  <2>7. AllAboutHeld'
    <3>1. visitor' \in Active => visit' = toVisit[1]
      BY <1>2, <2>3 DEF Pop, Active
    <3>2. UNCHANGED <<inbox, wire, clientState, held>>
      BY <1>2 DEF Pop
    <3>3. clientState \in {"AWAITING_VISITING", "VISITING"} => toVisit[1] = held
      BY <2>2 DEF ExchangeInv, AllAboutHeld
    <3>4. Len(toVisit') = 0
      BY <2>3
    <3> QED BY <3>1, <3>2, <3>3, <3>4 DEF ExchangeInv, AllAboutHeld
  <2>8. ConnectsOnce'
    BY <1>2, <2>4 DEF Pop, ExchangeInv, ConnectsOnce
  <2> QED BY <2>5, <2>6, <2>7, <2>8 DEF ExchangeInv
<1>3. CASE Prestart BY <1>3, PhaseStep DEF Prestart, Active
<1>4. CASE ConnectSlots BY <1>4, PhaseStep DEF ConnectSlots, Active
<1>5. CASE NotifyStart
  <2>1. Report("start", visit, "OK", malicious) \in Messages
    BY DEF Report, Messages, TypeInv, TypeOK, Flags
  <2>2. /\ IsReport(Report("start", visit, "OK", malicious))
        /\ ~IsFinal(Report("start", visit, "OK", malicious))
        /\ Report("start", visit, "OK", malicious).visit = visit
    BY DEF Report, IsReport, IsFinal
  <2> QED BY <1>5, <2>1, <2>2, ReportStep DEF NotifyStart, Active
<1>6. CASE VisitGroup BY <1>6, PhaseStep DEF VisitGroup, Active
<1>7. CASE Stop BY <1>7, PhaseStep DEF Stop, Active
<1>8. CASE Upload
  <2>1. CASE SendMessage("visitor", Message("file"))
    BY <1>8, <2>1, PlainMessageStep DEF Upload, Active
  <2>2. CASE wire' = wire
    BY <1>8, <2>2, PhaseStep DEF Upload, Active
  <2> QED BY <1>8, <2>1, <2>2 DEF Upload
<1>9. CASE Exit
  <2>1. clientState \notin {"NONE", "WAITING"} /\ toVisit = <<>>
    BY <1>9 DEF Exit, ExchangeInv, NothingForIdle, NoVisit, OneVisit, Active, Resting
  <2>2. Len(inbox') = 0 /\ Len(wire') = 0 /\ visitor' = "exited" /\ receiver' = "ended"
        /\ linked' = FALSE /\ toVisit' = <<>> /\ UNCHANGED <<clientState, held>>
    BY <1>9, <2>1 DEF Exit
  <2>3. NoVisitDoc' /\ OneVisit' /\ LinkedHasClient' /\ FinalIsLast' /\ ConnectsOnce'
    BY <2>2 DEF NoVisitDoc, OneVisit, LinkedHasClient, FinalIsLast, ConnectsOnce, Active
  <2>4. NothingForIdle' /\ AllAboutHeld'
    BY <2>1, <2>2 DEF NothingForIdle, AllAboutHeld, Active
  <2> QED BY <2>3, <2>4 DEF ExchangeInv
<1>10. CASE NotifyOutcome
  <2> DEFINE code == Head(outcomes)
             msg == OutcomeReport(code)
  <2>1. visitor = "report" /\ SendMessage("visitor", msg)
    BY <1>10 DEF NotifyOutcome
  <2>2. /\ msg \in Messages /\ IsReport(msg) /\ msg.visit = visit
        /\ code = "EXCEPTION" => ~IsFinal(msg)
    <3>1. msg \in Messages
      BY <2>1, OutcomeFacts
    <3>2. /\ msg.type = IF code = "OK" THEN "finish" ELSE "error"
          /\ msg.visit = visit /\ msg.code = code
      BY DEF OutcomeReport, Report
    <3> QED BY <3>1, <3>2 DEF IsReport, IsFinal
  <2>3. visitor' = "delete" \/ (visitor' \in Active /\ ~IsFinal(msg))
    BY <1>10, <2>1, <2>2, OutcomeFacts DEF NotifyOutcome, Active
  <2>4. UNCHANGED <<inbox, toVisit, visit, clientState, held, linked, reconnecting, receiver, link>>
    BY <1>10 DEF NotifyOutcome
  <2> HIDE DEF msg
  <2> QED BY <2>1, <2>2, <2>3, <2>4, ReportStep DEF Active
<1>11. CASE Delete BY <1>11, PhaseStep DEF Delete, Resting
<1> QED
  BY <1>1, <1>2, <1>3, <1>4, <1>5, <1>6, <1>7, <1>8, <1>9, <1>10, <1>11 DEF VisitorStep


(* What is on the way gets lost or is read from the front.  Nothing new is  *)
(* said; a Client that is there may be given up, or be told of the start.   *)
LEMMA LossStep ==
    ASSUME TypeInv, ExchangeInv,
           inbox' \in {inbox, <<>>} \/ (inbox # <<>> /\ inbox' = Tail(inbox)),
           wire' \in {wire, <<>>} \/ (wire # <<>> /\ wire' = Tail(wire)),
           UNCHANGED <<toVisit, visitor, visit>>,
           reconnecting' = reconnecting \/ (reconnecting' /\ wire' = <<>>),
           receiver' # "none",
           receiver' \in {"close", "connect"} => reconnecting',
           linked' => clientState' \notin {"NONE", "DISCONNECTED"},
           \/ UNCHANGED <<clientState, held>>
           \/ clientState # "NONE" /\ clientState' = "DISCONNECTED"
           \/ /\ clientState \in {"AWAITING_VISITING", "VISITING"}
              /\ clientState' = "VISITING" /\ held' = held
    PROVE  ExchangeInv'
<1>1. Len(wire) \in Nat /\ Len(inbox) \in Nat
  BY DEF TypeInv, TypeOK
<1>2. PICK k \in Nat :
        \A i \in 1..Len(inbox') : i + k \in 1..Len(inbox) /\ inbox'[i] = inbox[i + k]
  <2>1. CASE inbox' = inbox
    <3>1. \A i \in 1..Len(inbox') : i + 0 \in 1..Len(inbox) /\ inbox'[i] = inbox[i + 0]
      BY <1>1, <2>1
    <3> QED BY <3>1
  <2>2. CASE inbox' = <<>>
    BY <2>2
  <2>3. CASE inbox # <<>> /\ inbox' = Tail(inbox)
    <3>1. Len(inbox') = Len(inbox) - 1 /\ \A i \in 1..Len(inbox') : inbox'[i] = inbox[i + 1]
      BY <2>3, ReadingEffect DEF TypeInv
    <3>2. \A i \in 1..Len(inbox') : i + 1 \in 1..Len(inbox) /\ inbox'[i] = inbox[i + 1]
      BY <1>1, <3>1
    <3> QED BY <3>2
  <2> QED BY <2>1, <2>2, <2>3
<1>3. PICK n \in Nat :
        \A i \in 1..Len(wire') : i + n \in 1..Len(wire) /\ wire'[i] = wire[i + n]
  <2>1. CASE wire' = wire
    <3>1. \A i \in 1..Len(wire') : i + 0 \in 1..Len(wire) /\ wire'[i] = wire[i + 0]
      BY <1>1, <2>1
    <3> QED BY <3>1
  <2>2. CASE wire' = <<>>
    BY <2>2
  <2>3. CASE wire # <<>> /\ wire' = Tail(wire)
    <3>1. Len(wire') = Len(wire) - 1 /\ \A i \in 1..Len(wire') : wire'[i] = wire[i + 1]
      BY <2>3, TakenEffect DEF TypeInv
    <3>2. \A i \in 1..Len(wire') : i + 1 \in 1..Len(wire) /\ wire'[i] = wire[i + 1]
      BY <1>1, <3>1
    <3> QED BY <3>2
  <2> QED BY <2>1, <2>2, <2>3
<1>4. NoVisitDoc => NoVisitDoc'
  BY <1>2 DEF NoVisitDoc
<1>5. NoVisit => NoVisit'
  BY <1>4 DEF NoVisit
<1>6. OneVisit'
  <2>1. \A i, j \in 1..Len(inbox') :
          inbox'[i].type = "visit-event" /\ inbox'[j].type = "visit-event" => i = j
    <3> SUFFICES ASSUME NEW i \in 1..Len(inbox'), NEW j \in 1..Len(inbox'),
                        inbox'[i].type = "visit-event", inbox'[j].type = "visit-event"
                 PROVE  i = j
      OBVIOUS
    <3>1. i + k = j + k
      BY <1>2 DEF ExchangeInv, OneVisit
    <3> QED BY <3>1
  <2> QED BY <1>4, <2>1 DEF ExchangeInv, OneVisit
<1>7. NothingForIdle'
  BY <1>3, <1>5 DEF ExchangeInv, NothingForIdle
<1>8. FinalIsLast'
  <2> SUFFICES ASSUME NEW i \in 1..Len(wire'), IsFinal(wire'[i])
               PROVE  NoVisit' /\ \A j \in 1..Len(wire') : j > i => ~IsReport(wire'[j])
    BY DEF FinalIsLast
  <2>1. /\ i + n \in 1..Len(wire) /\ IsFinal(wire[i + n])
    BY <1>3
  <2>2. NoVisit /\ \A j \in 1..Len(wire) : j > i + n => ~IsReport(wire[j])
    BY <2>1 DEF ExchangeInv, FinalIsLast
  <2>3. ASSUME NEW j \in 1..Len(wire'), j > i PROVE ~IsReport(wire'[j])
    <3>1. j + n \in 1..Len(wire) /\ wire'[j] = wire[j + n] /\ j + n > i + n
      BY <1>3, <2>3
    <3> QED BY <2>2, <3>1
  <2> QED BY <1>5, <2>2, <2>3
<1>9. AllAboutHeld'
  BY <1>2, <1>3 DEF ExchangeInv, AllAboutHeld
<1>10. LinkedHasClient'
  BY DEF LinkedHasClient, TypeInv, TypeOK
<1>11. ConnectsOnce'
  <2>1. ASSUME ~reconnecting', NEW i \in 1..Len(inbox'), inbox'[i].type = "connect"
        PROVE  /\ clientState' = "NONE"
               /\ \A j \in 1..Len(inbox') : inbox'[j].type = "connect" => i = j
               /\ \A j \in 1..Len(wire') : wire'[j].type # "connect"
    <3>0. ~reconnecting
      BY <2>1, Zenon
    <3>1. i + k \in 1..Len(inbox) /\ inbox[i + k].type = "connect"
      BY <1>2, <2>1
    <3>2. /\ clientState = "NONE"
          /\ \A j \in 1..Len(inbox) : inbox[j].type = "connect" => i + k = j
          /\ \A j \in 1..Len(wire) : wire[j].type # "connect"
      BY <3>0, <3>1 DEF ExchangeInv, ConnectsOnce
    <3>3. ASSUME NEW j \in 1..Len(inbox'), inbox'[j].type = "connect" PROVE i = j
      <4>1. i + k = j + k
        BY <1>2, <3>2, <3>3
      <4> QED BY <4>1
    <3> QED BY <1>3, <3>2, <3>3
  <2>2. ASSUME NEW i \in 1..Len(wire'), wire'[i].type = "connect"
        PROVE  /\ clientState' = "NONE" /\ ~reconnecting'
               /\ \A j \in 1..Len(wire') : wire'[j].type = "connect" => i = j
    <3>1. i + n \in 1..Len(wire) /\ wire[i + n].type = "connect"
      BY <1>3, <2>2
    <3>2. /\ clientState = "NONE" /\ ~reconnecting
          /\ \A j \in 1..Len(wire) : wire[j].type = "connect" => i + n = j
      BY <3>1 DEF ExchangeInv, ConnectsOnce
    <3>3. ASSUME NEW j \in 1..Len(wire'), wire'[j].type = "connect" PROVE i = j
      <4>1. i + n = j + n
        BY <1>3, <3>2, <3>3
      <4> QED BY <4>1
    <3>4. ~reconnecting'
      BY <3>2
    <3>5. clientState' = "NONE"
      BY <3>2
    <3> QED BY <3>3, <3>4, <3>5
  <2> QED BY <2>1, <2>2 DEF ConnectsOnce
<1> QED BY <1>6, <1>7, <1>8, <1>9, <1>10, <1>11 DEF ExchangeInv


(* A new connection: only the greeting is on the way.                       *)
LEMMA AcceptedStep ==
    ASSUME ExchangeInv, Accepted,
           UNCHANGED <<toVisit, visitor, visit, clientState, held, reconnecting>>,
           reconnecting \/ clientState = "NONE",
           receiver' \notin {"none", "close", "connect"}
    PROVE  ExchangeInv'
<1>1. Len(inbox') = 1 /\ inbox'[1].type = "connect" /\ Len(wire') = 0 /\ linked' = FALSE
  BY DEF Accepted, Doc
<1>2. NoVisitDoc' /\ (NoVisit => NoVisit')
  BY <1>1 DEF NoVisitDoc, NoVisit
<1>3. OneVisit' /\ LinkedHasClient' /\ FinalIsLast'
  BY <1>1, <1>2 DEF ExchangeInv, OneVisit, LinkedHasClient, FinalIsLast
<1>4. NothingForIdle' /\ AllAboutHeld'
  BY <1>1, <1>2 DEF ExchangeInv, NothingForIdle, AllAboutHeld
<1>5. ConnectsOnce'
  BY <1>1 DEF ConnectsOnce
<1> QED BY <1>3, <1>4, <1>5 DEF ExchangeInv

(* The receiver's thread.                                                   *)
LEMMA ReceiverExchange ==
    ASSUME TypeInv, ExchangeInv, ReceiverStep
    PROVE  ExchangeInv'
<1> USE DEF queueVars, visitVars, analyzerVars, monitorVars, linkVars, serverVars
<1>0. linked => clientState \notin {"NONE", "DISCONNECTED"}
  BY DEF ExchangeInv, LinkedHasClient
<1>1. CASE FirstConnect
  BY <1>1, AcceptedStep DEF FirstConnect, ExchangeInv, ConnectsOnce
<1>2. CASE Check
  BY <1>0, <1>2, LossStep DEF Check
<1>3. CASE OnServerConnectEvent
  <2>1. /\ inbox # <<>> /\ inbox' = Tail(inbox) /\ Head(inbox).type = "connect" /\ receiver # "none"
        /\ UNCHANGED <<toVisit, visitor, visit, clientState, held, linked, reconnecting, receiver, link>>
    BY <1>3 DEF OnServerConnectEvent, Reading
  <2>2. CASE reconnecting
    BY <1>3, <2>1, <2>2, PlainMessageStep DEF OnServerConnectEvent
  <2>3. CASE ~reconnecting
    <3>1. Len(inbox) > 0 /\ inbox[1].type = "connect" /\ Len(inbox) \in Nat
          /\ \A i \in 1..Len(inbox') : i + 1 \in 1..Len(inbox) /\ inbox'[i] = inbox[i + 1]
      BY <2>1, ReadingEffect DEF TypeInv
    <3>2. 1 \in 1..Len(inbox)
      BY <3>1
    <3>3. /\ clientState = "NONE"
          /\ \A j \in 1..Len(inbox) : inbox[j].type = "connect" => 1 = j
          /\ \A j \in 1..Len(wire) : wire[j].type # "connect"
      BY <2>3, <3>1, <3>2 DEF ExchangeInv, ConnectsOnce
    <3>4. \A i \in 1..Len(inbox') : inbox'[i].type # "connect"
      BY <3>1, <3>3
    <3>5. SendMessage("receiver", Message("connect"))
      BY <1>3, <2>3 DEF OnServerConnectEvent
    <3> QED BY <2>1, <2>3, <3>3, <3>4, <3>5, PlainMessageStep
  <2> QED BY <2>2, <2>3
<1>4. CASE OnServerPingEvent
  BY <1>4, PlainMessageStep DEF OnServerPingEvent, Reading
<1>5. CASE OnOptionEvent
  BY <1>0, <1>5, LossStep DEF OnOptionEvent, Reading
<1>6. CASE OnVisitEvent
  <2>1. /\ inbox # <<>> /\ inbox' = Tail(inbox) /\ Head(inbox).type = "visit-event"
        /\ toVisit' = Append(toVisit, Head(inbox).visit) /\ receiver = "recv"
        /\ UNCHANGED <<visitor, visit, wire, clientState, held, linked, reconnecting, receiver, link>>
    BY <1>6 DEF OnVisitEvent, Reading
  <2>2. Len(inbox) > 0 /\ inbox[1] = Head(inbox) /\ Len(inbox) \in Nat
        /\ \A i \in 1..Len(inbox') : i + 1 \in 1..Len(inbox) /\ inbox'[i] = inbox[i + 1]
    BY <2>1, ReadingEffect DEF TypeInv
  <2>3. 1 \in 1..Len(inbox) /\ inbox[1].type = "visit-event"
    BY <2>1, <2>2
  <2>4. ~NoVisitDoc /\ ~NoVisit /\ toVisit = <<>> /\ visitor \in Resting
    BY <2>3 DEF ExchangeInv, OneVisit, NoVisitDoc, NoVisit
  <2>5. NoVisitDoc'
    BY <2>2, <2>3 DEF ExchangeInv, OneVisit, NoVisitDoc
  <2>6. Len(toVisit') = 1 /\ toVisit'[1] = inbox[1].visit
    BY <2>1, <2>2, <2>4
  <2>7. clientState \notin {"NONE", "WAITING"} /\ \A i \in 1..Len(wire) : ~IsFinal(wire[i])
    BY <2>4 DEF ExchangeInv, NothingForIdle, FinalIsLast
  <2>8. OneVisit' /\ LinkedHasClient'
    BY <2>1, <2>4, <2>5, <2>6 DEF ExchangeInv, OneVisit, NoVisitDoc, LinkedHasClient, Resting, Active
  <2>9. NothingForIdle' /\ FinalIsLast'
    BY <2>1, <2>7 DEF NothingForIdle, FinalIsLast
  <2>10. AllAboutHeld'
    <3>1. clientState \in {"AWAITING_VISITING", "VISITING"} => inbox[1].visit = held
      BY <2>3 DEF ExchangeInv, AllAboutHeld
    <3> QED BY <2>1, <2>5, <2>6, <3>1 DEF ExchangeInv, AllAboutHeld, NoVisitDoc
  <2>11. ConnectsOnce'
    <3>1. reconnecting \/ \A i \in 1..Len(inbox') : inbox'[i].type # "connect"
      BY <2>2, <2>7 DEF ExchangeInv, ConnectsOnce
    <3> QED BY <2>1, <3>1 DEF ExchangeInv, ConnectsOnce
  <2> QED BY <2>8, <2>9, <2>10, <2>11 DEF ExchangeInv
<1>7. CASE ReceiveNothing
  BY <1>0, <1>7, LossStep DEF ReceiveNothing
<1>8. CASE ReceiveError
  BY <1>8, LossStep DEF ReceiveError
<1>9. CASE DisconnectFromServer
  BY <1>0, <1>9, LossStep DEF DisconnectFromServer, ExchangeInv, ConnectsOnce
<1>10. CASE ConnectToServer
  <2>1. reconnecting
    BY <1>10 DEF ConnectToServer, ExchangeInv, ConnectsOnce
  <2>2. CASE Accepted
    BY <1>10, <2>1, <2>2, AcceptedStep DEF ConnectToServer
  <2>3. CASE UNCHANGED <<link, inbox, wire, linked>>
    BY <1>0, <1>10, <2>3, LossStep DEF ConnectToServer
  <2> QED BY <1>10, <2>2, <2>3 DEF ConnectToServer
<1>11. CASE Reconnected
  BY <1>0, <1>11, LossStep DEF Reconnected
<1> QED
  BY <1>1, <1>2, <1>3, <1>4, <1>5, <1>6, <1>7, <1>8, <1>9, <1>10, <1>11 DEF ReceiverStep

(* The Client is given up.                                                  *)
LEMMA GivenUpStep ==
    ASSUME TypeInv, ExchangeInv, Disconnected, clientState # "NONE", UNCHANGED clientVars
    PROVE  ExchangeInv'
<1>1. receiver # "none"
  BY DEF ExchangeInv, ConnectsOnce
<1>2. /\ inbox' \in {inbox, <<>>} /\ wire' \in {wire, <<>>} /\ ~linked'
      /\ clientState' = "DISCONNECTED"
  BY DEF Disconnected, LinkEnds
<1>3. UNCHANGED <<toVisit, visitor, visit, reconnecting, receiver>>
  BY DEF clientVars, queueVars, visitVars
<1> QED BY <1>1, <1>2, <1>3, LossStep DEF ExchangeInv, ConnectsOnce

(* The network and the server.                                              *)
LEMMA ServerExchange ==
    ASSUME TypeInv, ExchangeInv, Break \/ ServerReads \/ SendVisit \/ Ping
    PROVE  ExchangeInv'
<1>0. linked => clientState \notin {"NONE", "DISCONNECTED"}
  BY DEF ExchangeInv, LinkedHasClient
<1>1. UNCHANGED clientVars
  BY DEF Break, ServerReads, ParseConnect, ParseReconnect, ParseSystemEvent, Ignore,
         FileWithoutClient, ParseStart, ParseOutcome, SendVisit, Ping, Take
<1>2. UNCHANGED <<toVisit, visitor, visit, reconnecting, receiver>>
  BY <1>1 DEF clientVars, queueVars, visitVars
<1>3. receiver = "none" => link = "none" /\ clientState = "NONE"
  BY DEF ExchangeInv, ConnectsOnce
<1>4. receiver \in {"close", "connect"} => reconnecting
  BY DEF ExchangeInv, ConnectsOnce
<1>5. CASE Break
  BY <1>2, <1>3, <1>4, <1>5, LossStep DEF Break, LinkEnds, Open
<1>6. CASE ParseConnect
  <2>1. /\ wire # <<>> /\ Head(wire).type = "connect" /\ wire' = Tail(wire) /\ receiver # "none"
        /\ clientState' = "WAITING" /\ inbox' = Append(inbox, Doc("option", 0))
    BY <1>3, <1>6 DEF ParseConnect, Take, Taken
  <2>2. /\ 1 \in 1..Len(wire) /\ wire[1].type = "connect"
        /\ \A i \in 1..Len(wire') : i + 1 \in 1..Len(wire) /\ wire'[i] = wire[i + 1]
    <3>1. /\ Len(wire) \in Nat /\ Len(wire) > 0 /\ Head(wire) = wire[1]
          /\ Len(wire') = Len(wire) - 1
          /\ \A i \in 1..Len(wire') : wire'[i] = wire[i + 1]
      BY <2>1, TakenEffect DEF TypeInv
    <3> QED BY <2>1, <3>1
  <2>3. /\ clientState = "NONE" /\ ~reconnecting
        /\ \A j \in 1..Len(wire) : wire[j].type = "connect" => 1 = j
    BY <2>2 DEF ExchangeInv, ConnectsOnce
  <2>4. \A i \in 1..Len(inbox) : inbox[i].type # "connect"
    BY <2>2, <2>3 DEF ExchangeInv, ConnectsOnce
  <2>5. NoVisit /\ \A i \in 1..Len(wire) : ~IsReport(wire[i])
    BY <2>3 DEF ExchangeInv, NothingForIdle
  <2>6. \A i \in 1..Len(wire') : ~IsReport(wire'[i]) /\ wire'[i].type # "connect"
    BY <2>2, <2>3, <2>5
  <2>7. \A i \in 1..Len(inbox') : inbox'[i].type \notin {"connect", "visit-event"}
    <3>1. Len(inbox') = Len(inbox) + 1 /\ inbox'[Len(inbox) + 1] = Doc("option", 0)
          /\ \A i \in 1..Len(inbox) : inbox'[i] = inbox[i]
      BY <2>1, AppendProperties DEF TypeInv, TypeOK
    <3>2. Len(inbox) \in Nat /\ Doc("option", 0).type = "option"
      BY DEF TypeInv, TypeOK, Doc
    <3> QED BY <2>4, <2>5, <3>1, <3>2 DEF NoVisit, NoVisitDoc
  <2>8. NoVisit'
    BY <1>2, <2>5, <2>7 DEF NoVisit, NoVisitDoc
  <2>9. OneVisit' /\ NothingForIdle' /\ AllAboutHeld' /\ LinkedHasClient'
    BY <2>1, <2>6, <2>7, <2>8 DEF OneVisit, NothingForIdle, AllAboutHeld, LinkedHasClient,
                                  NoVisit, Active, Resting
  <2>10. FinalIsLast' /\ ConnectsOnce'
    BY <1>2, <1>4, <2>1, <2>6, <2>7 DEF FinalIsLast, ConnectsOnce, IsFinal, IsReport
  <2> QED BY <2>9, <2>10 DEF ExchangeInv
<1>7. CASE ParseReconnect
  <2>1. /\ wire # <<>> /\ wire' = Tail(wire) /\ receiver # "none"
        /\ linked' => clientState' \notin {"NONE", "DISCONNECTED"}
        /\ UNCHANGED <<clientState, held, inbox>>
    BY <1>3, <1>7 DEF ParseReconnect, Take, Taken
  <2> QED BY <1>2, <1>4, <2>1, LossStep
<1>8. CASE ParseSystemEvent
  <2>1. wire # <<>> /\ receiver # "none"
    BY <1>3, <1>8 DEF ParseSystemEvent, Take
  <2>2. CASE Disconnected /\ linked
    BY <1>0, <1>1, <2>2, GivenUpStep
  <2>3. CASE Taken /\ UNCHANGED <<clientState, held, link, inbox, linked>>
    BY <1>0, <1>2, <1>4, <2>1, <2>3, LossStep DEF Taken
  <2> QED BY <1>8, <2>2, <2>3 DEF ParseSystemEvent
<1>9. CASE Ignore
  BY <1>0, <1>2, <1>3, <1>4, <1>9, LossStep DEF Ignore, Take, Taken
<1>10. CASE FileWithoutClient
  BY <1>0, <1>2, <1>3, <1>4, <1>10, LossStep DEF FileWithoutClient, Take
<1>11. CASE ParseStart
  <2>1. /\ wire # <<>> /\ Head(wire).type = "start" /\ wire' = Tail(wire) /\ receiver # "none"
        /\ linked /\ linked' = linked /\ clientState' = "VISITING" /\ UNCHANGED <<held, inbox>>
    BY <1>3, <1>11 DEF ParseStart, Take, Taken
  <2>2. 1 \in 1..Len(wire) /\ IsReport(wire[1])
    BY <2>1, TakenEffect DEF TypeInv, IsReport
  <2>3. clientState \in {"AWAITING_VISITING", "VISITING"}
    BY <2>1, <2>2 DEF ExchangeInv, LinkedHasClient, NothingForIdle
  <2> QED BY <1>2, <1>4, <2>1, <2>3, LossStep
<1>12. CASE ParseOutcome
  <2>1. wire # <<>> /\ Head(wire).type \in {"finish", "error"} /\ receiver # "none" /\ linked
    BY <1>3, <1>12 DEF ParseOutcome, Take
  <2>2. CASE Disconnected
    BY <1>0, <1>1, <2>1, <2>2, GivenUpStep
  <2>3. CASE /\ ~(Head(wire).type = "error" /\ IsErrorToRetry(Head(wire).code))
             /\ Taken /\ clientState' = "WAITING" /\ held' = 0
             /\ UNCHANGED <<link, inbox, linked>>
    <3>1. /\ Len(wire) \in Nat /\ Len(wire) > 0 /\ Head(wire) = wire[1]
          /\ Len(wire') = Len(wire) - 1
          /\ \A i \in 1..Len(wire') : wire'[i] = wire[i + 1]
      BY <2>1, <2>3, TakenEffect DEF TypeInv, Taken
    <3>2. 1 \in 1..Len(wire) /\ IsFinal(wire[1])
      BY <2>1, <2>3, <3>1 DEF IsFinal, IsErrorToRetry
    <3>3. NoVisit /\ \A j \in 1..Len(wire) : j > 1 => ~IsReport(wire[j])
      BY <3>2 DEF ExchangeInv, FinalIsLast
    <3>4. \A i \in 1..Len(wire') : i + 1 \in 1..Len(wire) /\ i + 1 > 1
      BY <3>1
    <3>5. NoVisit' /\ \A i \in 1..Len(wire') : ~IsReport(wire'[i])
      BY <1>2, <2>3, <3>1, <3>3, <3>4 DEF NoVisit, NoVisitDoc
    <3>6. OneVisit' /\ NothingForIdle' /\ AllAboutHeld' /\ LinkedHasClient'
      BY <1>2, <2>3, <3>5 DEF ExchangeInv, OneVisit, NothingForIdle, AllAboutHeld,
                              LinkedHasClient, NoVisitDoc
    <3>7. FinalIsLast'
      BY <3>5 DEF FinalIsLast, IsFinal, IsReport
    <3>8. clientState # "NONE"
      BY <1>0, <2>1
    <3>9. ConnectsOnce'
      BY <1>2, <1>4, <2>1, <2>3, <3>1, <3>4, <3>8 DEF ExchangeInv, ConnectsOnce
    <3> QED BY <3>6, <3>7, <3>9 DEF ExchangeInv
  <2> QED BY <1>12, <2>2, <2>3 DEF ParseOutcome
<1>13. CASE SendVisit
  <2>1. clientState = "WAITING" /\ receiver # "none"
    BY <1>3, <1>13 DEF SendVisit
  <2>2. CASE Disconnected
    BY <1>1, <2>1, <2>2, GivenUpStep
  <2>3. CASE /\ held' = next /\ clientState' = "AWAITING_VISITING"
             /\ inbox' \in {inbox, Append(inbox, Doc("visit-event", next))}
             /\ UNCHANGED <<link, wire, linked>>
    <3>1. NoVisit /\ \A i \in 1..Len(wire) : ~IsReport(wire[i])
      BY <2>1 DEF ExchangeInv, NothingForIdle
    <3>2. /\ \A i \in 1..Len(inbox) : inbox'[i] = inbox[i]
          /\ \/ Len(inbox') = Len(inbox)
             \/ Len(inbox') = Len(inbox) + 1 /\ inbox'[Len(inbox) + 1] = Doc("visit-event", next)
          /\ Len(inbox) \in Nat
      <4> DEFINE doc == Doc("visit-event", next)
      <4>1. inbox \in Seq(Documents) /\ doc \in Documents
        BY <1>13, VisitsAssumption DEF SendVisit, TypeInv, TypeOK, Doc, Documents
      <4> HIDE DEF doc
      <4>2. /\ Len(Append(inbox, doc)) = Len(inbox) + 1
            /\ Append(inbox, doc)[Len(inbox) + 1] = doc
            /\ \A i \in 1..Len(inbox) : Append(inbox, doc)[i] = inbox[i]
        BY <4>1, AppendProperties
      <4>3. inbox' \in {inbox, Append(inbox, doc)} /\ Len(inbox) \in Nat
        BY <2>3, <4>1 DEF doc
      <4>4. CASE inbox' = inbox
        BY <4>3, <4>4
      <4>5. CASE inbox' = Append(inbox, doc)
        BY <4>2, <4>3, <4>5 DEF doc
      <4> QED BY <4>3, <4>4, <4>5
    <3>3. \A i \in 1..Len(inbox') :
            \/ i = Len(inbox) + 1 /\ inbox'[i] = Doc("visit-event", next)
            \/ i \in 1..Len(inbox) /\ inbox'[i] = inbox[i]
      BY <3>2
    <3>4. Doc("visit-event", next).type = "visit-event" /\ Doc("visit-event", next).visit = next
      BY DEF Doc
    <3>5. \A i \in 1..Len(inbox') : inbox'[i].type = "visit-event" =>
            i = Len(inbox) + 1 /\ inbox'[i].visit = next
      BY <3>1, <3>3, <3>4 DEF NoVisit, NoVisitDoc
    <3>6. toVisit' = <<>> /\ visitor' \in Resting /\ visitor' \notin Active
      BY <1>2, <3>1 DEF NoVisit, Resting, Active
    <3>7. OneVisit' /\ NothingForIdle' /\ LinkedHasClient'
      BY <2>3, <3>5, <3>6 DEF OneVisit, NothingForIdle, LinkedHasClient
    <3>8. AllAboutHeld' /\ FinalIsLast'
      BY <2>3, <3>1, <3>5, <3>6 DEF AllAboutHeld, FinalIsLast, IsFinal, IsReport
    <3>9. ConnectsOnce'
      BY <1>2, <1>4, <2>1, <2>3, <3>3, <3>4 DEF ExchangeInv, ConnectsOnce
    <3> QED BY <3>7, <3>8, <3>9 DEF ExchangeInv
  <2> QED BY <1>13, <2>2, <2>3 DEF SendVisit
<1>14. CASE Ping
  <2>1. clientState # "NONE" /\ receiver # "none"
    BY <1>3, <1>14 DEF Ping
  <2>2. CASE Disconnected
    BY <1>1, <2>1, <2>2, GivenUpStep
  <2>3. CASE /\ inbox = <<>> /\ inbox' = <<Doc("ping", 0)>>
             /\ UNCHANGED <<link, wire, clientState, held, linked>>
    <3>1. Len(inbox') = 1 /\ inbox'[1].type = "ping"
      BY <2>3 DEF Doc
    <3>2. NoVisitDoc' /\ NoVisitDoc
      BY <2>3, <3>1 DEF NoVisitDoc
    <3>3. OneVisit' /\ (NoVisit => NoVisit') /\ LinkedHasClient'
      BY <1>2, <2>3, <3>1, <3>2 DEF ExchangeInv, OneVisit, NoVisit, LinkedHasClient
    <3>4. NothingForIdle' /\ FinalIsLast' /\ AllAboutHeld'
      BY <1>2, <2>3, <3>1, <3>3 DEF ExchangeInv, NothingForIdle, FinalIsLast, AllAboutHeld
    <3>5. ConnectsOnce'
      BY <1>2, <1>4, <2>1, <2>3, <3>1 DEF ExchangeInv, ConnectsOnce
    <3> QED BY <3>3, <3>4, <3>5 DEF ExchangeInv
  <2> QED BY <1>14, <2>2, <2>3 DEF Ping
<1> QED
  BY <1>5, <1>6, <1>7, <1>8, <1>9, <1>10, <1>11, <1>12, <1>13, <1>14 DEF ServerReads

(* The exchange as a whole.                                                 *)
LEMMA ExchangeStep ==
    ASSUME TypeInv, LocalInv, ExchangeInv, Next
    PROVE  ExchangeInv'
<1> USE DEF queueVars, visitVars, analyzerVars, monitorVars, linkVars, serverVars
<1>0. ASSUME UNCHANGED <<inbox, wire, toVisit, visitor, visit, clientState, held, linked,
                         reconnecting, receiver, link>>
      PROVE  ExchangeInv'
  BY <1>0 DEF ExchangeInv, OneVisit, NothingForIdle, FinalIsLast, AllAboutHeld,
              LinkedHasClient, ConnectsOnce, NoVisit, NoVisitDoc
<1>1. ASSUME NEW t \in Threads, SendFailed(t) PROVE ExchangeInv'
  BY <1>0, <1>1 DEF SendFailed
<1>2. ASSUME NEW m \in Monitors, KernelEvent(m) PROVE ExchangeInv'
  BY <1>0, <1>2 DEF KernelEvent
<1>3. ASSUME NEW m \in Monitors, Signal(m) PROVE ExchangeInv'
  BY <1>0, <1>3 DEF Signal
<1>4. ASSUME NEW m \in Monitors, SetFlag(m) PROVE ExchangeInv'
  BY <1>0, <1>4 DEF SetFlag
<1>5. ASSUME NEW m \in Monitors, SendSystemEvent(m) PROVE ExchangeInv'
  BY <1>5, PlainMessageStep DEF SendSystemEvent
<1>6. CASE Revert
  <2>1. /\ Len(inbox') = 0 /\ Len(wire') = 0 /\ Len(toVisit') = 0 /\ toVisit' = <<>>
        /\ visitor' = "wait" /\ clientState' = "NONE" /\ ~linked' /\ ~reconnecting'
        /\ receiver' = "none" /\ link' = "none"
    BY <1>6 DEF Revert
  <2>2. NoVisit' /\ NoVisitDoc'
    BY <2>1 DEF NoVisit, NoVisitDoc, Resting
  <2> QED BY <2>1, <2>2 DEF ExchangeInv, OneVisit, NothingForIdle, FinalIsLast, AllAboutHeld,
                            LinkedHasClient, ConnectsOnce, Active
<1>7. CASE VisitorStep \/ Exit
  BY <1>7, VisitorExchange
<1>8. CASE ReceiverStep
  BY <1>8, ReceiverExchange
<1>9. CASE Break \/ ServerReads \/ SendVisit \/ Ping
  BY <1>9, ServerExchange
<1> QED
  BY <1>1, <1>2, <1>3, <1>4, <1>5, <1>6, <1>7, <1>8, <1>9
     DEF Next, VisitorStep, ReceiverStep, ServerReads

-----------------------------------------------------------------------------
(* The verdict                                                              *)

(* Steps that begin no visit and no callback.                               *)
LEMMA FreshKept ==
    ASSUME TypeInv, FreshInv, Past' \subseteq Past, next' = next, toVisit' = toVisit,
           \A i \in 1..Len(inbox') : inbox'[i].type = "visit-event" =>
               \E j \in 1..Len(inbox) : inbox'[i] = inbox[j],
           visitor' = "prestart" => visitor = "prestart",
           \/ visit' = visit /\ (malicious' \/ UNCHANGED <<malicious, marked>>)
           \/ visit' = 0 /\ visitor' # "prestart"
    PROVE  FreshInv'
<1>1. next \in Nat \ {0}
  BY VisitsAssumption DEF TypeInv, TypeOK
<1>2. visit' < next' /\ \A p \in Past' : p < next'
  BY <1>1 DEF FreshInv, FreshVisits
<1>3. \A i \in 1..Len(inbox') : inbox'[i].type = "visit-event" =>
          inbox'[i].visit < next' /\ inbox'[i].visit \notin Past'
  BY DEF FreshInv, FreshVisits
<1>4. \A i \in 1..Len(toVisit') : toVisit'[i] < next' /\ toVisit'[i] \notin Past'
  BY DEF FreshInv, FreshVisits
<1>5. visitor' = "prestart" => visit' \notin Past'
  BY DEF FreshInv, FreshVisits
<1>6. VerdictCoversVisit'
  BY DEF FreshInv, VerdictCoversVisit
<1> QED BY <1>2, <1>3, <1>4, <1>5, <1>6 DEF FreshInv, FreshVisits

(* Nothing but the three callbacks' steps and a revert changes Past.        *)
LEMMA PastKept ==
    ASSUME TypeInv, UNCHANGED <<monitor, during, marked>>
    PROVE  Past' = Past
BY DEF Past

LEMMA FreshStep ==
    ASSUME TypeInv, LocalInv, ExchangeInv, FreshInv, Next
    PROVE  FreshInv'
<1> USE DEF queueVars, visitVars, analyzerVars, monitorVars, linkVars, serverVars
<1>0. Len(inbox) \in Nat /\ Len(toVisit) \in Nat /\ next \in Nat /\ next > 0
  BY VisitsAssumption DEF TypeInv, TypeOK
<1>a. ASSUME inbox' \in {inbox, <<>>} \/ (inbox # <<>> /\ inbox' = Tail(inbox))
      PROVE  \A i \in 1..Len(inbox') : inbox'[i].type = "visit-event" =>
                 \E j \in 1..Len(inbox) : inbox'[i] = inbox[j]
  <2>1. CASE inbox' = inbox
    BY <2>1
  <2>2. CASE inbox' = <<>>
    BY <2>2
  <2>3. CASE inbox # <<>> /\ inbox' = Tail(inbox)
    <3>1. Len(inbox') = Len(inbox) - 1 /\ \A i \in 1..Len(inbox') : inbox'[i] = inbox[i + 1]
      BY <2>3, ReadingEffect DEF TypeInv
    <3>2. \A i \in 1..Len(inbox') : i + 1 \in 1..Len(inbox)
      BY <1>0, <3>1
    <3> QED BY <3>1, <3>2
  <2> QED BY <1>a, <2>1, <2>2, <2>3
<1>b. ASSUME UNCHANGED <<monitor, during, marked, malicious, toVisit, visitor, visit, next>>,
             inbox' \in {inbox, <<>>} \/ (inbox # <<>> /\ inbox' = Tail(inbox))
      PROVE  FreshInv'
  BY <1>a, <1>b, PastKept, FreshKept
<1>c. ASSUME UNCHANGED <<monitor, during, marked, malicious, toVisit, visit, next, inbox>>,
             visitor' # "prestart"
      PROVE  FreshInv'
  BY <1>a, <1>c, PastKept, FreshKept
<1>d. ASSUME UNCHANGED clientVars
      PROVE  UNCHANGED <<monitor, during, marked, malicious, toVisit, visitor, visit>>
  BY <1>d DEF clientVars
<1>e. ASSUME Disconnected PROVE inbox' \in {inbox, <<>>}
  BY <1>e DEF Disconnected, LinkEnds
<1>1. CASE Wait
  BY <1>c, <1>1 DEF Wait
<1>2. CASE Pop
  <2>1. 1 \in 1..Len(toVisit) /\ Head(toVisit) = toVisit[1]
    BY <1>2 DEF Pop, TypeInv, TypeOK
  <2>2. Head(toVisit) < next /\ Head(toVisit) \notin Past
    BY <2>1 DEF FreshInv, FreshVisits
  <2>3. /\ Past' = Past /\ visit = 0
        /\ UNCHANGED <<inbox, next, marked, malicious>>
    BY <1>2, PastKept DEF Pop, LocalInv, VisitInHand
  <2>4. Len(toVisit') = 0
    <3>1. Len(toVisit') = Len(toVisit) - 1
      BY <1>2 DEF Pop, TypeInv, TypeOK
    <3>2. Len(toVisit) <= 1
      BY DEF ExchangeInv, OneVisit
    <3> QED BY <1>0, <2>1, <3>1, <3>2
  <2>5. (visit' = 0 /\ visitor' = "wait") \/ visit' = Head(toVisit)
    BY <1>2, <2>3 DEF Pop
  <2>6. FreshVisits'
    BY <1>0, <2>2, <2>3, <2>4, <2>5 DEF FreshInv, FreshVisits
  <2>7. VerdictCoversVisit'
    BY <2>2, <2>3, <2>5 DEF VerdictCoversVisit, Past
  <2> QED BY <2>6, <2>7 DEF FreshInv
<1>3. CASE Prestart
  <2>1. Past' = Past /\ UNCHANGED <<inbox, next, marked, toVisit, visit>> /\ visitor' = "connect"
    BY <1>3, PastKept DEF Prestart
  <2>2. visit \notin Past
    BY <1>3 DEF Prestart, FreshInv, FreshVisits
  <2>3. FreshVisits'
    BY <2>1 DEF FreshInv, FreshVisits
  <2>4. VerdictCoversVisit'
    BY <2>1, <2>2 DEF VerdictCoversVisit, Past
  <2> QED BY <2>3, <2>4 DEF FreshInv
<1>4. CASE ConnectSlots
  BY <1>c, <1>4 DEF ConnectSlots
<1>5. CASE NotifyStart
  BY <1>c, <1>5 DEF NotifyStart
<1>6. CASE VisitGroup
  BY <1>c, <1>6 DEF VisitGroup
<1>7. CASE Stop
  BY <1>c, <1>7 DEF Stop
<1>8. CASE Upload
  BY <1>c, <1>8 DEF Upload
<1>9. CASE Exit
  <2>1. /\ inbox' = <<>> /\ visit' = 0 /\ visitor' = "exited" /\ next' = next /\ toVisit' = toVisit
        /\ marked' = marked /\ monitor' = [m \in Monitors |-> "idle"]
    BY <1>9 DEF Exit
  <2>2. Past' \subseteq Past
    BY <2>1 DEF Past
  <2> QED BY <1>a, <2>1, <2>2, FreshKept
<1>10. CASE NotifyOutcome
  BY <1>c, <1>10 DEF NotifyOutcome
<1>11. CASE Delete
  BY <1>a, <1>11, PastKept, FreshKept DEF Delete
<1>12. ASSUME NEW t \in Threads, SendFailed(t) PROVE FreshInv'
  BY <1>b, <1>12 DEF SendFailed
<1>13. ASSUME NEW m \in Monitors, KernelEvent(m) PROVE FreshInv'
  BY <1>b, <1>13 DEF KernelEvent
<1>14. ASSUME NEW m \in Monitors, Signal(m) PROVE FreshInv'
  <2>1. UNCHANGED <<inbox, next, marked, malicious, toVisit, visit, visitor>>
    BY <1>14 DEF Signal
  <2>2. CASE m \in slots
    <3>1. visitor \in {"start", "visit", "stop"}
      BY <2>2 DEF LocalInv, ListensDuringVisit
    <3>2. Len(toVisit) = 0 /\ NoVisitDoc
      BY <3>1 DEF ExchangeInv, OneVisit, Active, Resting
    <3>3. Past' \subseteq Past \cup {visit}
      <4>1. ASSUME NEW n \in Monitors, monitor'[n] = "called"
            PROVE  during'[n] = visit \/ (monitor[n] = "called" /\ during'[n] = during[n])
        BY <1>14, <2>2, <4>1 DEF Signal, TypeInv, TypeOK
      <4> QED BY <2>1, <4>1 DEF Past
    <3>4. FreshVisits'
      BY <2>1, <3>1, <3>2, <3>3 DEF FreshInv, FreshVisits, NoVisitDoc
    <3>5. VerdictCoversVisit'
      BY <2>1 DEF FreshInv, VerdictCoversVisit
    <3> QED BY <3>4, <3>5 DEF FreshInv
  <2>3. CASE m \notin slots
    BY <1>b, <1>14, <2>3 DEF Signal
  <2> QED BY <2>2, <2>3
<1>15. ASSUME NEW m \in Monitors, SetFlag(m) PROVE FreshInv'
  <2>1. Past' \subseteq Past
    <3>1. ASSUME NEW n \in Monitors, monitor'[n] = "called" PROVE monitor[n] = "called"
      BY <1>15, <3>1 DEF SetFlag, TypeInv, TypeOK
    <3>2. during' = during /\ marked' = marked \cup {during[m]} /\ monitor[m] = "called"
      BY <1>15 DEF SetFlag
    <3> QED BY <3>1, <3>2 DEF Past
  <2> QED BY <1>a, <1>15, <2>1, FreshKept DEF SetFlag
<1>16. ASSUME NEW m \in Monitors, SendSystemEvent(m) PROVE FreshInv'
  <2>1. Past' \subseteq Past
    <3>1. ASSUME NEW n \in Monitors, monitor'[n] = "called"
          PROVE  monitor[n] = "called" /\ during'[n] = during[n]
      BY <1>16, <3>1 DEF SendSystemEvent, TypeInv, TypeOK
    <3>2. marked' = marked
      BY <1>16 DEF SendSystemEvent
    <3> QED BY <3>1, <3>2 DEF Past
  <2> QED BY <1>a, <1>16, <2>1, FreshKept DEF SendSystemEvent
<1>f. ASSUME Accepted
      PROVE  \A i \in 1..Len(inbox') : inbox'[i].type = "visit-event" =>
                 \E j \in 1..Len(inbox) : inbox'[i] = inbox[j]
  BY <1>f DEF Accepted, Doc
<1>17. CASE FirstConnect
  BY <1>f, <1>17, PastKept, FreshKept DEF FirstConnect
<1>18. CASE Check
  BY <1>b, <1>18 DEF Check
<1>19. CASE OnServerConnectEvent
  BY <1>b, <1>19 DEF OnServerConnectEvent, Reading
<1>20. CASE OnServerPingEvent
  BY <1>b, <1>20 DEF OnServerPingEvent, Reading
<1>21. CASE OnOptionEvent
  BY <1>b, <1>21 DEF OnOptionEvent, Reading
<1>22. CASE OnVisitEvent
  <2>1. /\ inbox # <<>> /\ inbox' = Tail(inbox) /\ Head(inbox).type = "visit-event"
        /\ toVisit' = Append(toVisit, Head(inbox).visit)
        /\ UNCHANGED <<visitor, visit, next, malicious, marked>>
    BY <1>22 DEF OnVisitEvent, Reading
  <2>2. Past' = Past
    BY <1>22, PastKept DEF OnVisitEvent, Reading
  <2>3. 1 \in 1..Len(inbox) /\ inbox[1] = Head(inbox)
    BY <2>1, ReadingEffect DEF TypeInv
  <2>4. ~NoVisitDoc
    BY <2>1, <2>3 DEF NoVisitDoc
  <2>5. toVisit = <<>>
    BY <2>4 DEF ExchangeInv, OneVisit
  <2>6. Len(toVisit') = 1 /\ toVisit'[1] = inbox[1].visit
    BY <2>1, <2>3, <2>5
  <2>7. \A i \in 1..Len(inbox') : inbox'[i].type = "visit-event" =>
          inbox'[i].visit < next' /\ inbox'[i].visit \notin Past'
    BY <1>a, <2>1, <2>2 DEF FreshInv, FreshVisits
  <2>8. inbox[1].visit < next /\ inbox[1].visit \notin Past
    BY <2>1, <2>3 DEF FreshInv, FreshVisits
  <2>9. FreshVisits'
    BY <2>1, <2>2, <2>6, <2>7, <2>8 DEF FreshInv, FreshVisits
  <2>10. VerdictCoversVisit'
    BY <2>1 DEF FreshInv, VerdictCoversVisit
  <2> QED BY <2>9, <2>10 DEF FreshInv
<1>23. CASE ReceiveNothing
  BY <1>b, <1>23 DEF ReceiveNothing
<1>24. CASE ReceiveError
  BY <1>b, <1>24 DEF ReceiveError
<1>25. CASE DisconnectFromServer
  BY <1>b, <1>25 DEF DisconnectFromServer
<1>26. CASE ConnectToServer
  <2>1. CASE Accepted
    BY <1>f, <1>26, <2>1, PastKept, FreshKept DEF ConnectToServer
  <2>2. CASE inbox' = inbox
    BY <1>b, <1>26, <2>2 DEF ConnectToServer
  <2> QED BY <1>26, <2>1, <2>2 DEF ConnectToServer
<1>27. CASE Reconnected
  BY <1>b, <1>27 DEF Reconnected
<1>28. CASE Break
  BY <1>b, <1>d, <1>28 DEF Break, LinkEnds
<1>29. CASE ParseConnect
  <2>1. \A i \in 1..Len(inbox') : inbox'[i].type = "visit-event" =>
            \E j \in 1..Len(inbox) : inbox'[i] = inbox[j]
    <3> DEFINE doc == Doc("option", 0)
    <3>1. inbox \in Seq(Documents) /\ doc \in Documents /\ doc.type = "option"
      BY DEF TypeInv, TypeOK, Doc, Documents
    <3>2. inbox' = Append(inbox, doc)
      BY <1>29 DEF ParseConnect
    <3> HIDE DEF doc
    <3>3. /\ Len(inbox') = Len(inbox) + 1 /\ inbox'[Len(inbox) + 1] = doc
          /\ \A i \in 1..Len(inbox) : inbox'[i] = inbox[i]
      BY <3>1, <3>2, AppendProperties
    <3> QED BY <1>0, <3>1, <3>3
  <2> QED BY <1>d, <1>29, <2>1, PastKept, FreshKept DEF ParseConnect, Take
<1>30. CASE ParseReconnect
  BY <1>b, <1>d, <1>30 DEF ParseReconnect, Take
<1>31. CASE ParseSystemEvent
  BY <1>b, <1>d, <1>e, <1>31 DEF ParseSystemEvent, Take
<1>32. CASE Ignore
  BY <1>b, <1>d, <1>32 DEF Ignore, Take
<1>33. CASE FileWithoutClient
  BY <1>b, <1>d, <1>33 DEF FileWithoutClient, Take
<1>34. CASE ParseStart
  BY <1>b, <1>d, <1>34 DEF ParseStart, Take
<1>35. CASE ParseOutcome
  BY <1>b, <1>d, <1>e, <1>35 DEF ParseOutcome, Take
<1>36. CASE SendVisit
  <2>1. /\ UNCHANGED <<monitor, during, marked, malicious, toVisit, visitor, visit>>
        /\ next' = next + 1
    BY <1>d, <1>36 DEF SendVisit
  <2>2. Past' = Past
    BY <2>1, PastKept
  <2>3. \A i \in 1..Len(inbox') : inbox'[i].type = "visit-event" =>
          inbox'[i].visit = next \/ \E j \in 1..Len(inbox) : inbox'[i] = inbox[j]
    <3> DEFINE doc == Doc("visit-event", next)
    <3>1. inbox \in Seq(Documents) /\ doc \in Documents /\ doc.visit = next
      BY <1>36, VisitsAssumption DEF SendVisit, TypeInv, TypeOK, Doc, Documents
    <3>2. inbox' \in {inbox, <<>>, Append(inbox, doc)}
      BY <1>e, <1>36 DEF SendVisit
    <3> HIDE DEF doc
    <3>3. CASE inbox' \in {inbox, <<>>}
      BY <1>a, <3>3
    <3>4. CASE inbox' = Append(inbox, doc)
      <4>1. /\ Len(inbox') = Len(inbox) + 1 /\ inbox'[Len(inbox) + 1] = doc
            /\ \A i \in 1..Len(inbox) : inbox'[i] = inbox[i]
        BY <3>1, <3>4, AppendProperties
      <4> QED BY <1>0, <3>1, <4>1
    <3> QED BY <3>2, <3>3, <3>4
  <2>4. \A p \in Past : p \in Nat /\ p < next
    <3>1. marked \in SUBSET (0..Visits) /\ during \in [Monitors -> 0..Visits]
      BY DEF TypeInv, TypeOK
    <3>2. \A p \in Past : p \in 0..Visits
      BY <3>1 DEF Past
    <3> QED BY <3>2, VisitsAssumption DEF FreshInv, FreshVisits
  <2>5. next \notin Past
    BY <1>0, <2>4
  <2>6. visit \in Nat /\ \A i \in 1..Len(toVisit) : toVisit[i] \in Nat
    <3>1. visit \in 0..Visits /\ toVisit \in Seq(1..Visits)
      BY DEF TypeInv, TypeOK
    <3>2. \A i \in 1..Len(toVisit) : toVisit[i] \in 1..Visits
      BY <3>1, ElementOfSeq
    <3> QED BY <3>1, <3>2, VisitsAssumption
  <2>7. visit' < next' /\ \A p \in Past' : p < next'
    BY <1>0, <2>1, <2>2, <2>4, <2>6 DEF FreshInv, FreshVisits
  <2>8. \A i \in 1..Len(toVisit') : toVisit'[i] < next' /\ toVisit'[i] \notin Past'
    BY <1>0, <2>1, <2>2, <2>6 DEF FreshInv, FreshVisits
  <2>9. \A i \in 1..Len(inbox') : inbox'[i].type = "visit-event" =>
          inbox'[i].visit < next' /\ inbox'[i].visit \notin Past'
    <3>1. ASSUME NEW j \in 1..Len(inbox), inbox[j].type = "visit-event"
          PROVE  inbox[j].visit \in Nat /\ inbox[j].visit < next /\ inbox[j].visit \notin Past
      <4>1. inbox[j].visit \in Nat
        BY DEF TypeInv, TypeOK, Documents
      <4> QED BY <3>1, <4>1 DEF FreshInv, FreshVisits
    <3>2. next < next + 1
      BY <1>0
    <3> SUFFICES ASSUME NEW i \in 1..Len(inbox'), inbox'[i].type = "visit-event"
                 PROVE  inbox'[i].visit < next' /\ inbox'[i].visit \notin Past'
      OBVIOUS
    <3>3. CASE inbox'[i].visit = next
      BY <2>1, <2>2, <2>5, <3>2, <3>3
    <3>4. CASE \E j \in 1..Len(inbox) : inbox'[i] = inbox[j]
      <4>1. PICK j \in 1..Len(inbox) : inbox'[i] = inbox[j]
        BY <3>4
      <4>2. inbox'[i].visit \in Nat /\ inbox'[i].visit < next /\ inbox'[i].visit \notin Past
        BY <3>1, <4>1
      <4> QED BY <1>0, <2>1, <2>2, <4>2
    <3> QED BY <2>3, <3>3, <3>4
  <2>10. FreshVisits' /\ VerdictCoversVisit'
    BY <2>1, <2>2, <2>7, <2>8, <2>9 DEF FreshInv, FreshVisits, VerdictCoversVisit
  <2> QED BY <2>10 DEF FreshInv
<1>37. CASE Ping
  <2>1. CASE inbox' = <<Doc("ping", 0)>>
    <3>1. \A i \in 1..Len(inbox') : inbox'[i].type # "visit-event"
      BY <2>1 DEF Doc
    <3> QED BY <1>d, <1>37, <3>1, PastKept, FreshKept DEF Ping
  <2>2. CASE Disconnected
    BY <1>b, <1>d, <1>e, <1>37, <2>2 DEF Ping
  <2> QED BY <1>37, <2>1, <2>2 DEF Ping
<1>38. CASE Revert
  <2>1. /\ Len(inbox') = 0 /\ Len(toVisit') = 0 /\ visit' = 0 /\ next' = 1 /\ visitor' = "wait"
        /\ marked' = {} /\ monitor' = [m \in Monitors |-> "idle"]
    BY <1>38 DEF Revert
  <2>2. Past' = {}
    BY <2>1 DEF Past
  <2> QED BY <2>1, <2>2 DEF FreshInv, FreshVisits, VerdictCoversVisit
<1> QED
  BY <1>1, <1>2, <1>3, <1>4, <1>5, <1>6, <1>7, <1>8, <1>9, <1>10, <1>11, <1>12,
     <1>13, <1>14, <1>15, <1>16, <1>17, <1>18, <1>19, <1>20, <1>21, <1>22,
     <1>23, <1>24, <1>25, <1>26, <1>27, <1>28, <1>29, <1>30, <1>31, <1>32,
     <1>33, <1>34, <1>35, <1>36, <1>37, <1>38 DEF Next

-----------------------------------------------------------------------------
(* Theorems                                                                 *)

(* The whole of what every reachable state satisfies.                       *)
VisitInv == TypeInv /\ LocalInv /\ ExchangeInv /\ FreshInv

LEMMA VisitInvInit ==
    ASSUME Init PROVE VisitInv
<1>1. TypeInv
  <2>1. Flags
    BY Zenon DEF Init, Flags
  <2> QED BY <2>1, VisitsAssumption, BoundsAssumption DEF Init, TypeInv, TypeOK, OutcomesSound, NoEvent
<1>2. LocalInv
  BY DEF Init, LocalInv, VisitInHand, QueueSound, ListensDuringVisit, EndedIsDisconnected
<1>3. /\ Len(inbox) = 0 /\ Len(wire) = 0 /\ Len(toVisit) = 0 /\ toVisit = <<>>
      /\ visitor = "wait" /\ visit = 0 /\ next = 1 /\ marked = {}
      /\ monitor = [m \in Monitors |-> "idle"] /\ clientState = "NONE"
      /\ receiver = "none" /\ link = "none"
  BY DEF Init
<1>4. ~linked /\ ~reconnecting
  BY Zenon DEF Init
<1>5. NoVisit /\ NoVisitDoc
  BY <1>3 DEF NoVisit, NoVisitDoc, Resting
<1>6. ExchangeInv
  BY <1>3, <1>4, <1>5 DEF ExchangeInv, OneVisit, NothingForIdle, FinalIsLast, AllAboutHeld,
                          LinkedHasClient, ConnectsOnce, Active
<1>7. Past = {}
  BY <1>3 DEF Past
<1>8. FreshInv
  BY <1>3, <1>7 DEF FreshInv, FreshVisits, VerdictCoversVisit
<1> QED BY <1>1, <1>2, <1>6, <1>8 DEF VisitInv

LEMMA VisitInvStutter ==
    ASSUME VisitInv, UNCHANGED vars PROVE VisitInv'
<1> USE DEF vars, queueVars, visitVars, analyzerVars, monitorVars, linkVars, serverVars
<1>1. TypeInv'
  BY DEF VisitInv, TypeInv, TypeOK, Flags, OutcomesSound
<1>2. LocalInv'
  BY DEF VisitInv, LocalInv, VisitInHand, QueueSound, ListensDuringVisit, EndedIsDisconnected
<1>3. ExchangeInv'
  BY DEF VisitInv, ExchangeInv, OneVisit, NothingForIdle, FinalIsLast, AllAboutHeld,
         LinkedHasClient, ConnectsOnce, NoVisit, NoVisitDoc
<1>4. FreshInv'
  BY DEF VisitInv, FreshInv, FreshVisits, VerdictCoversVisit, Past
<1> QED BY <1>1, <1>2, <1>3, <1>4 DEF VisitInv

(* VisitInv is an inductive invariant of the client and the server: what    *)
(* Visitor, Analyzer, monitors, receiver and server do to each other, with  *)
(* the network breaking and the machine being reverted at any moment.       *)
THEOREM VisitInvariant == Spec => []VisitInv
<1>1. Init => VisitInv
  BY VisitInvInit
<1>2. VisitInv /\ [Next]_vars => VisitInv'
  <2>1. ASSUME VisitInv, Next PROVE VisitInv'
    BY <2>1, TypeStep, LocalStep, ExchangeStep, FreshStep DEF VisitInv
  <2> QED BY <2>1, VisitInvStutter
<1> QED BY <1>1, <1>2, PTL DEF Spec

(* Every variable keeps its type; the connection never holds more messages  *)
(* than its capacity.                                                       *)
THEOREM TypeCorrect == Spec => []TypeOK
<1>1. VisitInv => TypeOK
  BY DEF VisitInv, TypeInv
<1> QED BY <1>1, VisitInvariant, PTL

(* Visitor::run never takes the front of an empty queue.                    *)
THEOREM PopIsSafe == Spec => []PopsAVisit
<1>1. VisitInv => PopsAVisit
  BY DEF VisitInv, LocalInv, QueueSound, PopsAVisit
<1> QED BY <1>1, VisitInvariant, PTL

(* The receiver never pushes onto toVisit while the Visitor pops from it:   *)
(* there is one visit at a time between the server and the Visitor.         *)
THEOREM NoRace == Spec => []NoQueueRace
<1>1. VisitInv => NoQueueRace
  <2> SUFFICES ASSUME VisitInv, visitor = "pop", inbox # <<>>, Head(inbox).type = "visit-event"
               PROVE  FALSE
    BY DEF NoQueueRace
  <2>1. 1 \in 1..Len(inbox) /\ inbox[1].type = "visit-event"
    BY DEF VisitInv, TypeInv, TypeOK
  <2>2. ~NoVisitDoc
    BY <2>1 DEF NoVisitDoc
  <2> QED BY <2>2 DEF VisitInv, ExchangeInv, OneVisit, Resting
<1> QED BY <1>1, VisitInvariant, PTL

(* Analyzer::stop leaves no monitor connected and no dumper running when    *)
(* the Visitor has deleted its visit, on every path to the delete.          *)
THEOREM Quiet == Spec => []QuietBetweenVisits
<1>1. VisitInv => QuietBetweenVisits
  BY DEF VisitInv, LocalInv, VisitInHand, ListensDuringVisit, QuietBetweenVisits
<1> QED BY <1>1, VisitInvariant, PTL

(* When ServerReceive::run has ended, Server::sendMessage sends nothing.    *)
THEOREM EndedSilent == Spec => []EndedIsDisconnected
<1>1. VisitInv => EndedIsDisconnected
  BY DEF VisitInv, LocalInv
<1> QED BY <1>1, VisitInvariant, PTL

(* parseVisitEvent may do without the identifier: the report it reads is    *)
(* about the group its Client holds, across any number of reconnections.    *)
THEOREM ReportsMatch == Spec => []ReportIsForHeldGroup
<1>1. VisitInv => ReportIsForHeldGroup
  <2> SUFFICES ASSUME VisitInv, linked, wire # <<>>,
                      Head(wire).type \in {"start", "finish", "error"}
               PROVE  held = Head(wire).visit
    BY DEF ReportIsForHeldGroup
  <2>1. 1 \in 1..Len(wire) /\ Head(wire) = wire[1]
    BY DEF VisitInv, TypeInv, TypeOK
  <2>2. IsReport(wire[1])
    BY <2>1 DEF IsReport
  <2>3. clientState \in {"AWAITING_VISITING", "VISITING"}
    BY <2>1, <2>2 DEF VisitInv, ExchangeInv, LinkedHasClient, NothingForIdle
  <2> QED BY <2>1, <2>2, <2>3 DEF VisitInv, ExchangeInv, AllAboutHeld
<1> QED BY <1>1, VisitInvariant, PTL

(* Once a callback of the present visit has set `malicious`, Analyzer::start *)
(* does not clear it before the last report of this visit.                  *)
THEOREM VerdictKept == Spec => []VerdictCoversVisit
<1>1. VisitInv => VerdictCoversVisit
  BY DEF VisitInv, FreshInv
<1> QED BY <1>1, VisitInvariant, PTL

(* The queue of visits needs no lock: Visitor::run() never pops an empty    *)
(* queue and never meets the receiver's push.                               *)
THEOREM QueueSafe == Spec => []QueueIsSafe
  BY PopIsSafe, NoRace, PTL DEF QueueIsSafe

(* Analyzer::stop() leaves nothing of a visit behind, and a client whose    *)
(* receiver has ended is silent.                                            *)
THEOREM NothingBehind == Spec => []VisitLeavesNothing
  BY Quiet, EndedSilent, PTL DEF VisitLeavesNothing

(* The reports of a visit carry its verdict, and reach a Client that holds  *)
(* the group they are about.                                                *)
THEOREM ReportsRight == Spec => []ReportsAreRight
  BY VerdictKept, ReportsMatch, PTL DEF ReportsAreRight

-----------------------------------------------------------------------------
(***************************************************************************)
(* The workers of a plugin.                                                *)
(*                                                                         *)
(* The argument is an account of the URLs handed out: each is a worker's   *)
(* not yet taken data, a worker that has not signalled yet, an event that  *)
(* is set, the event just taken, or one that has been counted.  Events     *)
(* merge and are ignored, so that the account is an inequality: the loop   *)
(* may miss a URL that was visited, and never counts one that was not.     *)
(***************************************************************************)

(* The workers that have taken data and not signalled.                      *)
Running == {w \in Worker : worker[w] # "wait"}

(* The event visitGroup() has taken and not yet judged.                     *)
TakenEvent == IF pc = "count" THEN 1 ELSE 0

Account ==
    /\ n_visiting <= n_urls
    /\ n_visited_urls + TakenEvent + Cardinality(finished) + Cardinality(has_data)
         + Cardinality(Running) <= n_visiting

(* The flag tells exactly which workers have a URL.                         *)
BusyExact ==
    \A w \in Worker :
        /\ w \in busy <=> w \in has_data \/ worker[w] = "visit"
        /\ w \in has_data => worker[w] # "visit"

(* Every URL handed out has been visited or is with exactly one worker.     *)
HandedOut ==
    /\ \A w \in busy : data[w] \in 1..n_visiting /\ url[data[w]] = NotVisited
    /\ \A w, v \in busy : data[w] = data[v] => w = v
    /\ \A u \in 1..MaxUrls : u > n_visiting => url[u] = NotVisited
    /\ \A u \in 1..n_visiting : url[u] = NotVisited => \E w \in busy : data[w] = u

(* What the loop has counted is all there was to do.                        *)
LoopDone == pc \in {"codes", "idle"} => busy = {} /\ n_visiting = n_urls

(* The code of the VisitEvent after the URLs before loop_i.                 *)
CodeSoFar ==
    LET failing == {u \in 1..n_urls : url[u] # "OK" /\ u < loop_i}
    IN  /\ pc \notin {"codes", "idle"} => errorCode = "OK"
        /\ pc = "codes" =>
              /\ loop_i \in 1..(n_urls + 1)
              /\ errorCode = "OK" => failing = {}
              /\ errorCode # "MULTIPLE_ERRORS" => \A u, v \in failing : u = v

PoolIInv ==
    /\ PoolTypeOK /\ Account /\ BusyExact /\ HandedOut
    /\ LoopDone /\ FreedIsUnused /\ CodeSoFar /\ CodeIsSound

-----------------------------------------------------------------------------
(* Sets of workers are finite, and gain or lose one worker at a time.       *)
LEMMA WorkerSets ==
    ASSUME NEW S \in SUBSET Worker
    PROVE  /\ IsFiniteSet(S) /\ Cardinality(S) \in Nat
           /\ Cardinality(S) = 0 => S = {}
           /\ \A w \in Worker :
                 /\ Cardinality(S \cup {w}) <= Cardinality(S) + 1
                 /\ w \in S => Cardinality(S \ {w}) = Cardinality(S) - 1
<1>1. IsFiniteSet(Worker)
  BY FS_Interval, WorkersAssumption DEF Worker
<1>2. IsFiniteSet(S)
  BY <1>1, FS_Subset
<1>3. Cardinality(S) \in Nat /\ (Cardinality(S) = 0 => S = {})
  BY <1>2, FS_CardinalityType, FS_EmptySet
<1>4. ASSUME NEW w \in Worker
      PROVE  /\ Cardinality(S \cup {w}) <= Cardinality(S) + 1
             /\ w \in S => Cardinality(S \ {w}) = Cardinality(S) - 1
  <2>1. Cardinality(S \cup {w}) = IF w \in S THEN Cardinality(S) ELSE Cardinality(S) + 1
    BY <1>2, FS_AddElement
  <2>2. Cardinality(S \ {w}) = IF w \in S THEN Cardinality(S) - 1 ELSE Cardinality(S)
    BY <1>2, FS_RemoveElement
  <2> QED BY <2>1, <2>2, <1>3
<1> QED BY <1>2, <1>3, <1>4

(* visitGroup() leaves its loop only when every URL was handed out and      *)
(* every worker is done.                                                    *)
LEMMA LoopExit ==
    ASSUME PoolTypeOK, Account, BusyExact, n_visited_urls >= n_urls
    PROVE  /\ n_visiting = n_urls /\ n_visited_urls = n_urls /\ TakenEvent = 0
           /\ finished = {} /\ has_data = {} /\ Running = {} /\ busy = {}
<1>1. /\ Cardinality(finished) \in Nat /\ Cardinality(has_data) \in Nat
      /\ Cardinality(Running) \in Nat
  BY WorkerSets DEF PoolTypeOK, Running
<1>2. TakenEvent \in Nat /\ n_visited_urls \in Nat /\ n_visiting \in Nat /\ n_urls \in Nat
  BY DEF TakenEvent, PoolTypeOK
<1>3. /\ n_visiting = n_urls /\ n_visited_urls = n_urls /\ TakenEvent = 0
      /\ Cardinality(finished) = 0 /\ Cardinality(has_data) = 0 /\ Cardinality(Running) = 0
  BY <1>1, <1>2 DEF Account
<1>4. finished = {} /\ has_data = {} /\ Running = {}
  BY <1>3, WorkerSets DEF PoolTypeOK, Running
<1>5. busy = {}
  BY <1>4 DEF BusyExact, PoolTypeOK, Running
<1> QED BY <1>3, <1>4, <1>5

-----------------------------------------------------------------------------
(* The steps that move the account.                                         *)
LEMMA AccountStep ==
    ASSUME PoolIInv, PoolNext
    PROVE  Account'
<1> DEFINE F == Cardinality(finished)
           H == Cardinality(has_data)
           A == Cardinality(Running)
<1>1. F \in Nat /\ H \in Nat /\ A \in Nat
  BY WorkerSets DEF PoolIInv, PoolTypeOK, Running
<1>2. n_visited_urls \in Nat /\ n_visiting \in Nat /\ n_urls \in Nat /\ TakenEvent \in Nat
  BY DEF PoolIInv, PoolTypeOK, TakenEvent
<1>3. n_visiting <= n_urls /\ n_visited_urls + TakenEvent + F + H + A <= n_visiting
  BY DEF PoolIInv, Account
<1>4. ASSUME UNCHANGED <<finished, has_data, worker>>
      PROVE  F' = F /\ H' = H /\ A' = A
  BY <1>4 DEF Running
<1>5. ASSUME NEW n \in 1..MaxUrls, BeginGroup(n) PROVE Account'
  <2>1. finished = {} /\ has_data = {} /\ Running = {}
    BY <1>5 DEF BeginGroup, PoolIInv, FreedIsUnused, Running
  <2>2. F = 0 /\ H = 0 /\ A = 0
    BY <2>1, FS_EmptySet
  <2> QED BY <1>4, <1>5, <2>2, MaxUrlsAssumption DEF BeginGroup, workers, Account, TakenEvent
<1>6. CASE Loop
  BY <1>1, <1>2, <1>3, <1>4, <1>6 DEF Loop, workers, group, Account, TakenEvent
<1>7. CASE Assign
  <2>1. CASE loop_i \notin busy /\ n_visiting < n_urls
    <3>1. H' <= H + 1 /\ H' \in Nat
      <4>1. has_data' = has_data \cup {loop_i} /\ loop_i \in Worker /\ has_data \subseteq Worker
        BY <1>7, <2>1 DEF Assign, PoolIInv, PoolTypeOK
      <4>2. has_data' \subseteq Worker
        BY <4>1
      <4> QED BY <4>1, <4>2, WorkerSets
    <3>2. F' = F /\ A' = A
      BY <1>7 DEF Assign, Running
    <3>3. TakenEvent' = TakenEvent /\ n_visited_urls' = n_visited_urls /\ n_urls' = n_urls
          /\ n_visiting' = n_visiting + 1
      BY <1>7, <2>1 DEF Assign, TakenEvent, group
    <3> QED BY <3>1, <3>2, <3>3, <2>1, <1>1, <1>2, <1>3 DEF Account
  <2>2. CASE ~(loop_i \notin busy /\ n_visiting < n_urls)
    BY <2>2, <1>7, <1>4, <1>3 DEF Assign, group, Account, TakenEvent
  <2> QED BY <2>1, <2>2
<1>8. CASE Assigned
  BY <1>1, <1>2, <1>3, <1>4, <1>8 DEF Assigned, workers, group, Account, TakenEvent
<1>9. ASSUME NEW w \in Worker, WaitFinished(w) PROVE Account'
  <2>1. F' = F - 1
    BY <1>9, WorkerSets DEF WaitFinished, PoolIInv, PoolTypeOK
  <2>2. H' = H /\ A' = A
    BY <1>9 DEF WaitFinished, Running
  <2> QED BY <1>1, <1>2, <1>3, <1>9, <2>1, <2>2 DEF WaitFinished, group, Account, TakenEvent
<1>10. CASE WaitTimeout
  BY <1>1, <1>2, <1>3, <1>4, <1>10 DEF WaitTimeout, workers, group, Account, TakenEvent
<1>11. CASE Count
  BY <1>1, <1>2, <1>3, <1>4, <1>11 DEF Count, workers, group, Account, TakenEvent
<1>12. CASE UrlCode
  BY <1>1, <1>2, <1>3, <1>4, <1>12 DEF UrlCode, workers, Account, TakenEvent
<1>13. ASSUME NEW closed \in BOOLEAN, Return(closed) PROVE Account'
  BY <1>1, <1>2, <1>3, <1>4, <1>13 DEF Return, workers, Account, TakenEvent
<1>14. ASSUME NEW w \in Worker, TakeData(w) PROVE Account'
  <2>1. H' = H - 1
    BY <1>14, WorkerSets DEF TakeData, PoolIInv, PoolTypeOK
  <2>2. A' <= A + 1 /\ A' \in Nat
    <3>1. Running' = Running \cup {w} /\ Running \subseteq Worker
      BY <1>14 DEF TakeData, Running, PoolIInv, PoolTypeOK
    <3>2. Running' \subseteq Worker
      BY <3>1
    <3> QED BY <3>1, <3>2, WorkerSets
  <2>3. F' = F /\ UNCHANGED <<pc, n_visiting, n_visited_urls, n_urls>>
    BY <1>14 DEF TakeData, group
  <2> QED BY <1>1, <1>2, <1>3, <2>1, <2>2, <2>3 DEF Account, TakenEvent
<1>15. ASSUME NEW w \in Worker, NEW code \in Outcome, VisitUrl(w, code) PROVE Account'
  <2>1. Running' = Running
    BY <1>15 DEF VisitUrl, Running, PoolIInv, PoolTypeOK
  <2> QED BY <1>1, <1>2, <1>3, <1>15, <2>1 DEF VisitUrl, Account, TakenEvent
<1>16. ASSUME NEW w \in Worker, SetFinished(w) PROVE Account'
  <2>1. F' <= F + 1 /\ F' \in Nat
    <3>1. finished' = finished \cup {w} /\ finished \subseteq Worker
      BY <1>16 DEF SetFinished, PoolIInv, PoolTypeOK
    <3>2. finished' \subseteq Worker
      BY <3>1
    <3> QED BY <3>1, <3>2, WorkerSets
  <2>2. A' = A - 1
    <3>1. Running' = Running \ {w} /\ Running \subseteq Worker /\ w \in Running
      BY <1>16 DEF SetFinished, Running, PoolIInv, PoolTypeOK
    <3> QED BY <3>1, WorkerSets
  <2>3. H' = H /\ UNCHANGED <<pc, n_visiting, n_visited_urls, n_urls>>
    BY <1>16 DEF SetFinished, group
  <2> QED BY <1>1, <1>2, <1>3, <2>1, <2>2, <2>3 DEF Account, TakenEvent
<1> QED
  BY <1>5, <1>6, <1>7, <1>8, <1>9, <1>10, <1>11, <1>12, <1>13, <1>14, <1>15, <1>16
  DEF PoolNext, Visitor, WorkerStep

-----------------------------------------------------------------------------
(* The variables stay in their types.  That the counter of visited URLs     *)
(* does is a consequence of the account.                                    *)
LEMMA PoolTypeStep ==
    ASSUME PoolIInv, PoolNext
    PROVE  PoolTypeOK'
<1> USE WorkersAssumption, MaxUrlsAssumption DEF PoolIInv, PoolTypeOK, Worker
<1>1. ASSUME NEW n \in 1..MaxUrls, BeginGroup(n) PROVE PoolTypeOK'
  BY <1>1 DEF BeginGroup, workers, Outcome
<1>2. CASE Loop
  BY <1>2 DEF Loop, workers, group
<1>3. CASE Assign
  <2>1. loop_i' \in 1..(Workers + MaxUrls) /\ n_visiting' \in 0..MaxUrls
    BY <1>3 DEF Assign, group
  <2>2. data' \in [Worker -> 0..MaxUrls]
    <3>1. CASE loop_i \notin busy /\ n_visiting < n_urls
      <4>1. n_visiting + 1 \in 0..MaxUrls
        BY <3>1
      <4> QED BY <1>3, <3>1, <4>1 DEF Assign
    <3> QED BY <1>3, <3>1 DEF Assign
  <2>3. busy' \subseteq Worker /\ has_data' \subseteq Worker
    BY <1>3 DEF Assign
  <2> QED BY <1>3, <2>1, <2>2, <2>3 DEF Assign, group
<1>4. CASE Assigned
  BY <1>4 DEF Assigned, workers, group
<1>5. ASSUME NEW w \in Worker, WaitFinished(w) PROVE PoolTypeOK'
  BY <1>5 DEF WaitFinished, group
<1>6. CASE WaitTimeout
  BY <1>6 DEF WaitTimeout, workers, group
<1>7. CASE Count
  <2>1. n_visited_urls + 1 <= MaxUrls
    <3>1. Cardinality(finished) \in Nat /\ Cardinality(has_data) \in Nat
          /\ Cardinality(Running) \in Nat
      BY WorkerSets DEF Running
    <3> QED BY <3>1, <1>7 DEF Account, TakenEvent, Count
  <2> QED BY <2>1, <1>7 DEF Count, workers, group
<1>8. CASE UrlCode
  BY <1>8 DEF UrlCode, workers, SetErrorCode, LoopDone, HandedOut, Outcome
<1>9. ASSUME NEW closed \in BOOLEAN, Return(closed) PROVE PoolTypeOK'
  BY <1>9 DEF Return, workers, SetErrorCode, Outcome
<1>10. ASSUME NEW w \in Worker, TakeData(w) PROVE PoolTypeOK'
  BY <1>10 DEF TakeData, group
<1>11. ASSUME NEW w \in Worker, NEW code \in Outcome, VisitUrl(w, code) PROVE PoolTypeOK'
  BY <1>11 DEF VisitUrl
<1>12. ASSUME NEW w \in Worker, SetFinished(w) PROVE PoolTypeOK'
  BY <1>12 DEF SetFinished, group
<1> QED
  BY <1>1, <1>2, <1>3, <1>4, <1>5, <1>6, <1>7, <1>8, <1>9, <1>10, <1>11, <1>12
  DEF PoolNext, Visitor, WorkerStep

(* The flag and the places of the workers agree after every step.           *)
LEMMA BusyStep ==
    ASSUME PoolIInv, PoolNext
    PROVE  BusyExact'
<1> USE DEF PoolIInv, PoolTypeOK, BusyExact
<1>1. ASSUME UNCHANGED <<busy, has_data, worker>> PROVE BusyExact'
  BY <1>1
<1>2. CASE Assign
  BY <1>2 DEF Assign
<1>3. ASSUME NEW w \in Worker, TakeData(w) PROVE BusyExact'
  BY <1>3 DEF TakeData
<1>4. ASSUME NEW w \in Worker, NEW code \in Outcome, VisitUrl(w, code) PROVE BusyExact'
  BY <1>4 DEF VisitUrl
<1>5. ASSUME NEW w \in Worker, SetFinished(w) PROVE BusyExact'
  BY <1>5 DEF SetFinished
<1> QED
  BY <1>1, <1>2, <1>3, <1>4, <1>5
  DEF PoolNext, Visitor, WorkerStep, BeginGroup, Loop, Assigned, WaitFinished, WaitTimeout,
      Count, UrlCode, Return, workers

(* A URL changes hands only by being given to an idle worker and by being   *)
(* visited.                                                                 *)
LEMMA HandedOutStep ==
    ASSUME PoolIInv, PoolNext
    PROVE  HandedOut'
<1> USE DEF PoolIInv, HandedOut
<1>1. ASSUME UNCHANGED <<busy, data, n_visiting, url>> PROVE HandedOut'
  BY <1>1
<1>2. ASSUME NEW n \in 1..MaxUrls, BeginGroup(n) PROVE HandedOut'
  BY <1>2 DEF BeginGroup, LoopDone, workers
<1>3. CASE Assign
  <2>1. CASE loop_i \notin busy /\ n_visiting < n_urls
    <3>1. /\ busy' = busy \cup {loop_i} /\ url' = url /\ n_visiting' = n_visiting + 1
          /\ data' = [data EXCEPT ![loop_i] = n_visiting + 1]
      BY <1>3, <2>1 DEF Assign, group
    <3>2. /\ n_visiting \in Nat /\ n_visiting + 1 \in 1..MaxUrls
          /\ data \in [Worker -> 0..MaxUrls] /\ loop_i \in Worker /\ busy \subseteq Worker
      BY <1>3, <2>1, MaxUrlsAssumption DEF PoolTypeOK, Assign
    <3>3. data'[loop_i] = n_visiting + 1 /\ \A w \in busy : data'[w] = data[w]
      BY <3>1, <3>2, <2>1
    <3>4. \A w \in busy' : data'[w] \in 1..n_visiting' /\ url'[data'[w]] = NotVisited
      BY <3>1, <3>2, <3>3
    <3>5. \A w, v \in busy' : data'[w] = data'[v] => w = v
      BY <3>1, <3>2, <3>3
    <3>6. \A u \in 1..MaxUrls : u > n_visiting' => url'[u] = NotVisited
      BY <3>1, <3>2
    <3>7. \A u \in 1..n_visiting' : url'[u] = NotVisited => \E w \in busy' : data'[w] = u
      BY <3>1, <3>2, <3>3
    <3> QED BY <3>4, <3>5, <3>6, <3>7
  <2>2. CASE ~(loop_i \notin busy /\ n_visiting < n_urls)
    BY <2>2, <1>1, <1>3 DEF Assign, group
  <2> QED BY <2>1, <2>2
<1>4. ASSUME NEW w \in Worker, NEW code \in Outcome, VisitUrl(w, code) PROVE HandedOut'
  <2>1. w \in busy
    BY <1>4 DEF VisitUrl, BusyExact
  <2>2. code # NotVisited
    BY DEF Outcome, NotVisited
  <2>3. busy' = busy \ {w} /\ data' = data /\ n_visiting' = n_visiting
        /\ url' = [url EXCEPT ![data[w]] = code]
    BY <1>4 DEF VisitUrl
  <2>4. n_visiting \in 0..MaxUrls /\ url \in [1..MaxUrls -> Outcome \cup {NotVisited}]
    BY DEF PoolTypeOK
  <2>5. data[w] \in 1..n_visiting
    BY <2>1
  <2>6. \A u \in 1..MaxUrls : url'[u] = IF u = data[w] THEN code ELSE url[u]
    BY <2>3, <2>4
  <2>7. \A v \in busy' : data'[v] \in 1..n_visiting' /\ url'[data'[v]] = NotVisited
    BY <2>1, <2>3, <2>4, <2>6, MaxUrlsAssumption
  <2>8. \A u \in 1..MaxUrls : u > n_visiting' => url'[u] = NotVisited
    BY <2>3, <2>4, <2>5, <2>6, MaxUrlsAssumption
  <2>9. \A u \in 1..n_visiting' : url'[u] = NotVisited => \E v \in busy' : data'[v] = u
    BY <2>2, <2>3, <2>4, <2>6, MaxUrlsAssumption
  <2> QED BY <2>3, <2>7, <2>8, <2>9
<1> QED
  BY <1>1, <1>2, <1>3, <1>4
  DEF PoolNext, Visitor, WorkerStep, Loop, Assigned, WaitFinished, WaitTimeout, Count, UrlCode,
      Return, TakeData, SetFinished, workers, group

(* What holds after the loop is established by leaving it, and no worker    *)
(* moves from then on.                                                      *)
LEMMA AfterLoopStep ==
    ASSUME PoolIInv, PoolNext
    PROVE  LoopDone' /\ FreedIsUnused'
<1> USE DEF PoolIInv, LoopDone, FreedIsUnused
<1>1. ASSUME pc' \notin {"codes", "idle"} PROVE LoopDone' /\ FreedIsUnused'
  BY <1>1
<1>2. CASE Loop
  <2>1. CASE n_visited_urls < n_urls
    BY <1>1, <1>2, <2>1 DEF Loop
  <2>2. CASE ~(n_visited_urls < n_urls)
    <3>1. n_visited_urls >= n_urls
      BY <2>2 DEF PoolTypeOK
    <3>2. n_visiting = n_urls /\ finished = {} /\ has_data = {} /\ Running = {} /\ busy = {}
      BY <3>1, LoopExit
    <3> QED BY <3>2, <1>2 DEF Loop, workers, group, Running
  <2> QED BY <2>1, <2>2
<1>3. CASE UrlCode
  BY <1>3 DEF UrlCode, workers
<1>4. ASSUME NEW closed \in BOOLEAN, Return(closed) PROVE LoopDone' /\ FreedIsUnused'
  BY <1>4 DEF Return, workers
<1>5. ASSUME NEW w \in Worker, WorkerStep(w) PROVE LoopDone' /\ FreedIsUnused'
  <2>1. pc' = pc /\ pc \notin {"codes", "idle"}
    BY <1>5 DEF WorkerStep, TakeData, VisitUrl, SetFinished
  <2> QED BY <2>1, <1>1
<1> QED
  BY <1>1, <1>2, <1>3, <1>4, <1>5
  DEF PoolNext, Visitor, BeginGroup, Assign, Assigned, WaitFinished, WaitTimeout, Count

(* The code of the VisitEvent follows the codes of its URLs.                *)
LEMMA CodeStep ==
    ASSUME PoolIInv, PoolNext
    PROVE  CodeSoFar' /\ CodeIsSound'
<1> USE DEF PoolIInv, CodeSoFar, CodeIsSound
<1>1. ASSUME pc' \notin {"codes", "idle"}, errorCode' = "OK" PROVE CodeSoFar' /\ CodeIsSound'
  BY <1>1
<1>2. CASE Loop
  BY <1>2, MaxUrlsAssumption DEF Loop, group, PoolTypeOK
<1>3. CASE UrlCode
  <2>1. /\ pc' = "codes" /\ n_urls' = n_urls /\ url' = url /\ loop_i' = loop_i + 1
        /\ loop_i \in 1..n_urls /\ n_urls \in Nat
        /\ errorCode' = SetErrorCode(errorCode, url[loop_i])
    BY <1>3 DEF UrlCode, PoolTypeOK
  <2> DEFINE failing == {u \in 1..n_urls : url[u] # "OK" /\ u < loop_i}
  <2>2. {u \in 1..n_urls' : url'[u] # "OK" /\ u < loop_i'}
          = failing \cup (IF url[loop_i] = "OK" THEN {} ELSE {loop_i})
    BY <2>1
  <2>3. errorCode = "OK" => failing = {}
    BY <1>3 DEF UrlCode
  <2>4. url[loop_i] # "MULTIPLE_ERRORS"
    <3>1. loop_i \in 1..MaxUrls
      BY <2>1, MaxUrlsAssumption DEF PoolTypeOK
    <3>2. url[loop_i] \in Outcome \cup {NotVisited}
      BY <3>1 DEF PoolTypeOK
    <3> QED BY <3>2 DEF Outcome, NotVisited
  <2>5. CodeSoFar'
    BY <2>1, <2>2, <2>3, <2>4 DEF SetErrorCode
  <2> QED BY <2>1, <2>5
<1>4. ASSUME NEW closed \in BOOLEAN, Return(closed) PROVE CodeSoFar' /\ CodeIsSound'
  <2>1. /\ pc' = "idle" /\ n_urls' = n_urls /\ url' = url /\ loop_i > n_urls
        /\ loop_i \in Nat /\ n_urls \in Nat
    BY <1>4 DEF Return, PoolTypeOK
  <2>2. {u \in 1..n_urls : url[u] # "OK" /\ u < loop_i} = {u \in 1..n_urls : url[u] # "OK"}
    BY <2>1
  <2> QED BY <1>4, <2>1, <2>2 DEF Return, SetErrorCode
<1>5. ASSUME NEW w \in Worker, WorkerStep(w) PROVE CodeSoFar' /\ CodeIsSound'
  <2>1. pc' = pc /\ pc \notin {"codes", "idle"} /\ errorCode' = errorCode
    BY <1>5 DEF WorkerStep, TakeData, VisitUrl, SetFinished, FreedIsUnused, group
  <2> QED BY <2>1, <1>1
<1> QED
  BY <1>1, <1>2, <1>3, <1>4, <1>5
  DEF PoolNext, Visitor, BeginGroup, Assign, Assigned, WaitFinished, WaitTimeout, Count, group

-----------------------------------------------------------------------------
(* PoolIInv is an invariant.                                                *)
THEOREM PoolInvariance == PoolSpec => []PoolIInv
<1>1. PoolInit => PoolIInv
  <2> SUFFICES ASSUME PoolInit PROVE PoolIInv
    OBVIOUS
  <2>1. PoolTypeOK
    BY WorkersAssumption, MaxUrlsAssumption DEF PoolInit, PoolTypeOK, Worker, Outcome
  <2>2. Account
    <3>1. finished = {} /\ has_data = {} /\ Running = {}
      BY DEF PoolInit, Running
    <3> QED BY <3>1, FS_EmptySet DEF PoolInit, Account, TakenEvent
  <2>3. BusyExact /\ HandedOut /\ LoopDone /\ FreedIsUnused
    BY DEF PoolInit, BusyExact, HandedOut, LoopDone, FreedIsUnused
  <2>4. CodeSoFar /\ CodeIsSound
    BY DEF PoolInit, CodeSoFar, CodeIsSound
  <2> QED BY <2>1, <2>2, <2>3, <2>4 DEF PoolIInv
<1>2. PoolIInv /\ [PoolNext]_poolVars => PoolIInv'
  <2>1. ASSUME PoolIInv, PoolNext PROVE PoolIInv'
    BY <2>1, PoolTypeStep, AccountStep, BusyStep, HandedOutStep, AfterLoopStep, CodeStep DEF PoolIInv
  <2>2. ASSUME PoolIInv, UNCHANGED poolVars PROVE PoolIInv'
    BY <2>2 DEF poolVars, PoolIInv, PoolTypeOK, Account, TakenEvent, Running, BusyExact, HandedOut, LoopDone,
                FreedIsUnused, CodeSoFar, CodeIsSound
  <2> QED BY <2>1, <2>2
<1> QED BY <1>1, <1>2, PTL DEF PoolSpec

(* The types of visitGroup()'s variables and of the arrays it shares with   *)
(* the workers: n_visited_urls never exceeds the number of URLs.            *)
THEOREM PoolTypeCorrect == PoolSpec => []PoolTypeOK
<1>1. PoolIInv => PoolTypeOK
  BY DEF PoolIInv
<1> QED BY <1>1, PoolInvariance, PTL

(* However many URLs a group has, visitGroup() frees the visit information  *)
(* and the browser instances when no worker uses or will use them.          *)
THEOREM FreeIsSafe == PoolSpec => []FreedIsUnused
<1>1. PoolIInv => FreedIsUnused
  BY DEF PoolIInv
<1> QED BY <1>1, PoolInvariance, PTL

(* No URL is visited twice or left out of a group that ends.                *)
THEOREM EachUrlOnce == PoolSpec => []VisitedOnce
<1>1. PoolIInv => VisitedOnce
  BY DEF PoolIInv, VisitedOnce, BusyExact, HandedOut, LoopDone, PoolTypeOK
<1> QED BY <1>1, PoolInvariance, PTL

(* The code Visitor::run() decides on speaks for every URL of the group.    *)
THEOREM GroupCode == PoolSpec => []CodeIsSound
<1>1. PoolIInv => CodeIsSound
  BY DEF PoolIInv
<1> QED BY <1>1, PoolInvariance, PTL

(* visitGroup() is sound for any number of workers and URLs.                *)
THEOREM GroupSound == PoolSpec => []GroupIsSound
  BY FreeIsSafe, EachUrlOnce, GroupCode, PTL DEF GroupIsSound

(* What visitGroup() leaves in the VisitEvent is a code that CaptureVisit   *)
(* lets a plugin leave there.                                               *)
THEOREM PoolCodes == PoolSpec => [](errorCode \in PluginCodes \cup {"OK"})
<1>1. PoolIInv => errorCode \in PluginCodes \cup {"OK"}
  BY DEF PoolIInv, PoolTypeOK, Outcome, PluginCodes
<1> QED BY <1>1, PoolInvariance, PTL

=============================================================================
