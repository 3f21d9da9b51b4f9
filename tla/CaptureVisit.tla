---------------------------- MODULE CaptureVisit ----------------------------
(***************************************************************************)
(* The capture client during its visits, and the server as it sees it:     *)
(*                                                                         *)
(*   - the Visitor's thread takes visits from a queue and notifies the     *)
(*     Analyzer, which connects to the monitors, disconnects from them and *)
(*     sends the reports of the visit;                                     *)
(*   - the threads of the monitors call the Analyzer, which sets malicious *)
(*     and sends a system event;                                           *)
(*   - the receiver (ServerReceive) hands the documents of the server to   *)
(*     their handlers and connects again when the connection is reset;     *)
(*   - every thread sends with Server::sendMessage, and a failed send      *)
(*     clears `connected` in a step of its own.                            *)
(*                                                                         *)
(* The server's side is what Client and ClientEventController do with the  *)
(* messages: one connection after another, one group in hand.  It takes    *)
(* the reports without a look at the identifier of the group.              *)
(***************************************************************************)
EXTENDS Integers, Sequences, FiniteSets

CONSTANTS
    Monitors,        \* the monitors of processes, the registry and files
    Visits,          \* the number of groups the server has for this client
    Known,           \* the visits whose program has an application plugin
    Codes,           \* the error codes a plugin may leave in the VisitEvent
    CapturePackets,  \* the server's capture-network-packets-... options
    RevertAfterEach, \* the server's option revert-after-each-url
    MaxEvents,       \* bound on the events the drivers record
    MaxBreaks,       \* bound on the breaks of the network
    MaxWire          \* bound on the messages in flight: send() waits at it

PluginCodes == {"NETWORK_ERROR", "PROCESS_ERROR", "TIMEOUT_ERROR",
                "MULTIPLE_ERRORS", "ATTACH_PROCESS_ERROR", "WARNING"}

ASSUME VisitsAssumption == Visits \in Nat /\ Known \subseteq 1..Visits
ASSUME CodesAssumption == Codes \subseteq PluginCodes
ASSUME OptionsAssumption == CapturePackets \in BOOLEAN /\ RevertAfterEach \in BOOLEAN
ASSUME BoundsAssumption == MaxEvents \in Nat /\ MaxBreaks \in Nat /\ MaxWire \in Nat \ {0}
ASSUME MonitorsAssumption == Monitors \cap {"visitor", "receiver"} = {}

NoEvent == -1
Threads == Monitors \cup {"visitor", "receiver"}

(* A document of the server and a message of the client.  Only the         *)
(* attributes that somebody looks at are kept.                             *)
Doc(type, visit) == [type |-> type, visit |-> visit]
Message(type) == [type |-> type, visit |-> 0, code |-> "OK", malicious |-> FALSE]
Report(type, visit, code, flag) ==
    [type |-> type, visit |-> visit, code |-> code, malicious |-> flag]

Documents ==
    [type : {"connect", "option", "ping"}, visit : {0}]
        \cup [type : {"visit-event"}, visit : 1..Visits]
Messages ==
    [type : {"connect", "reconnect", "pong", "system-event", "file",
             "start", "finish", "error"},
     visit : 0..Visits,
     code : Codes \cup {"OK", "EXCEPTION"},
     malicious : BOOLEAN]

VARIABLES
    toVisit,      \* the queue of visits
    notEmpty,     \* the auto-reset event hQueueNotEmpty
    visitor,      \* where the Visitor's thread is
    visit,        \* visitEvent, 0 when there is none
    outcomes,     \* the notifications that are to end the visit
    malicious,    \* of the Analyzer
    slots,        \* the monitors the Analyzer is connected to
    captureNetworkPackets,
    dumping,      \* the NetworkPacketDumper is running
    driver,       \* the visit in which the event a driver holds took place
    monitor,      \* where each monitor's thread is
    during,       \* the visit in which its callback began
    marked,       \* visits one of whose own callbacks has set malicious
    events,       \* events recorded so far
    connected, reconnecting,
    receiver,     \* where the receiver's thread is
    failed,       \* the threads whose last send() returned SOCKET_ERROR
    link,         \* the connection, as the client's socket shows it
    inbox,        \* documents on their way to the client
    wire,         \* messages on their way to the server
    breaks,       \* breaks of the network so far
    clientState,  \* of the server's Client; "NONE" before it exists
    held,         \* its visitingUrlGroup, 0 when null
    next,         \* the next group in the server's queue
    linked        \* the server's receiver of this connection has its Client

queueVars == <<toVisit, notEmpty>>
visitVars == <<visitor, visit, outcomes>>
analyzerVars == <<malicious, slots, captureNetworkPackets, dumping>>
monitorVars == <<driver, monitor, during, marked, events>>
linkVars == <<link, inbox, breaks>>
serverVars == <<clientState, held, next, linked>>
vars == <<queueVars, visitVars, analyzerVars, monitorVars, connected, reconnecting,
          receiver, failed, linkVars, wire, serverVars>>

Flags ==
    /\ notEmpty \in BOOLEAN
    /\ malicious \in BOOLEAN /\ captureNetworkPackets \in BOOLEAN /\ dumping \in BOOLEAN
    /\ connected \in BOOLEAN /\ reconnecting \in BOOLEAN
    /\ linked \in BOOLEAN

TypeOK ==
    /\ Flags
    /\ toVisit \in Seq(1..Visits)
    /\ visitor \in {"wait", "pop", "prestart", "connect", "start", "visit",
                    "stop", "upload", "report", "delete", "exited"}
    /\ visit \in 0..Visits
    /\ outcomes \in Seq(Codes \cup {"OK", "EXCEPTION"})
    /\ slots \in SUBSET Monitors
    /\ driver \in [Monitors -> 0..Visits \cup {NoEvent}]
    /\ monitor \in [Monitors -> {"idle", "called", "marked"}]
    /\ during \in [Monitors -> 0..Visits]
    /\ marked \in SUBSET (0..Visits)
    /\ events \in 0..MaxEvents
    /\ receiver \in {"none", "check", "recv", "close", "connect", "assign", "ended"}
    /\ failed \in SUBSET Threads
    /\ link \in {"none", "up", "unread", "closed", "reset"}
    /\ breaks \in 0..MaxBreaks
    /\ inbox \in Seq(Documents)
    /\ wire \in Seq(Messages) /\ Len(wire) <= MaxWire
    /\ clientState \in {"NONE", "WAITING", "AWAITING_VISITING", "VISITING", "DISCONNECTED"}
    /\ held \in 0..Visits /\ next \in 1..(Visits + 1)

(* The client has been started in a clean virtual machine: CaptureClient's  *)
(* constructor has made the Visitor and the Analyzer, and its thread is in  *)
(* connectToServer().                                                       *)
Init ==
    /\ toVisit = <<>> /\ notEmpty = FALSE
    /\ visitor = "wait" /\ visit = 0 /\ outcomes = <<>>
    /\ malicious = FALSE /\ slots = {}
    /\ captureNetworkPackets = FALSE /\ dumping = FALSE
    /\ driver = [m \in Monitors |-> NoEvent]
    /\ monitor = [m \in Monitors |-> "idle"]
    /\ during = [m \in Monitors |-> 0]
    /\ marked = {} /\ events = 0
    /\ connected = FALSE /\ reconnecting = FALSE
    /\ receiver = "none" /\ failed = {}
    /\ link = "none" /\ inbox = <<>> /\ wire = <<>> /\ breaks = 0
    /\ clientState = "NONE" /\ held = 0 /\ next = 1 /\ linked = FALSE

-----------------------------------------------------------------------------
(* Server::sendMessage                                                       *)

(* The connection is open; the server reads from it, or has stopped to.      *)
Open == link \in {"up", "unread"}

(* A mutant of SendMessage: send() does not wait, as with the non-blocking   *)
(* socket that connectToServer() has in a comment.                           *)
SendMessageNonBlocking(t, msg) ==
    \/ /\ ~connected
       /\ UNCHANGED <<wire, failed>>
    \/ /\ connected /\ Open
       /\ wire' = Append(wire, msg)
       /\ UNCHANGED failed
    \/ /\ connected /\ ~Open
       /\ failed' = failed \cup {t}
       /\ UNCHANGED wire

(* Nothing is sent when not connected.  A message goes out on a connection   *)
(* that is open; otherwise send() fails, or takes a message the other side     *)
(* will never read.                                                          *)
SendMessage(t, msg) ==
    \/ /\ ~connected
       /\ UNCHANGED <<wire, failed>>
    \/ /\ connected /\ Open /\ Len(wire) < MaxWire
       /\ wire' = Append(wire, msg)
       /\ UNCHANGED failed
    \/ /\ connected /\ ~Open
       /\ failed' = failed \cup {t}
       /\ UNCHANGED wire
    \/ /\ connected /\ link \in {"closed", "reset"}
       /\ UNCHANGED <<wire, failed>>

(* setConnected(false) after SOCKET_ERROR.  The thread may have been slow:   *)
(* the connection that failed need not be the present one.                   *)
SendFailed(t) ==
    /\ t \in failed
    /\ failed' = failed \ {t}
    /\ connected' = FALSE
    /\ UNCHANGED <<queueVars, visitVars, analyzerVars, monitorVars, reconnecting,
                   receiver, linkVars, wire, serverVars>>

-----------------------------------------------------------------------------
(* Visitor::run() and, through notify(), Analyzer::update()                  *)

(* A mutant of Wait: the event is not reset by the wait.                     *)
WaitManualReset ==
    /\ visitor = "wait" /\ notEmpty
    /\ visitor' = "pop"
    /\ UNCHANGED <<queueVars, visit, outcomes, analyzerVars, monitorVars, connected,
                   reconnecting, receiver, failed, linkVars, wire, serverVars>>

(* WaitForSingleObject(hQueueNotEmpty, INFINITE)                             *)
Wait ==
    /\ visitor = "wait" /\ notEmpty
    /\ notEmpty' = FALSE
    /\ visitor' = "pop"
    /\ UNCHANGED <<toVisit, visit, outcomes, analyzerVars, monitorVars, connected,
                   reconnecting, receiver, failed, linkVars, wire, serverVars>>

(* The visit is dropped without a report when no plugin has its program.     *)
Pop ==
    /\ visitor = "pop" /\ toVisit # <<>>
    /\ toVisit' = Tail(toVisit)
    /\ IF Head(toVisit) \in Known
       THEN visitor' = "prestart" /\ visit' = Head(toVisit)
       ELSE visitor' = "wait" /\ UNCHANGED visit
    /\ UNCHANGED <<notEmpty, outcomes, analyzerVars, monitorVars, connected,
                   reconnecting, receiver, failed, linkVars, wire, serverVars>>

(* CAPTURE_VISITATION_PRESTART: Analyzer::start(), up to the packet dumper ... *)
Prestart ==
    /\ visitor = "prestart"
    /\ visitor' = "connect"
    /\ malicious' = FALSE
    /\ dumping' = (dumping \/ captureNetworkPackets)
    /\ UNCHANGED <<queueVars, visit, outcomes, slots, captureNetworkPackets,
                   monitorVars, connected, reconnecting, receiver, failed, linkVars,
                   wire, serverVars>>

(* ... and the connections to the monitors.                                  *)
ConnectSlots ==
    /\ visitor = "connect"
    /\ visitor' = "start"
    /\ slots' = Monitors
    /\ UNCHANGED <<queueVars, visit, outcomes, malicious, captureNetworkPackets, dumping,
                   monitorVars, connected, reconnecting, receiver, failed, linkVars,
                   wire, serverVars>>

(* A mutant of NotifyStart: the flag is reset with the start report, when    *)
(* the monitors are already connected.                                       *)
NotifyStartResets ==
    /\ visitor = "start"
    /\ SendMessage("visitor", Report("start", visit, "OK", FALSE))
    /\ malicious' = FALSE
    /\ visitor' = "visit"
    /\ UNCHANGED <<queueVars, visit, outcomes, slots, captureNetworkPackets, dumping,
                   monitorVars, connected, reconnecting, receiver, linkVars, serverVars>>

(* CAPTURE_VISITATION_START: the start report.                               *)
NotifyStart ==
    /\ visitor = "start"
    /\ SendMessage("visitor", Report("start", visit, "OK", malicious))
    /\ visitor' = "visit"
    /\ UNCHANGED <<queueVars, visit, outcomes, analyzerVars, monitorVars, connected,
                   reconnecting, receiver, linkVars, serverVars>>

(* visitGroup() returns, or throws after it has set a code or not.  One      *)
(* notification tells the code or the finish; an exception is notified       *)
(* before it.                                                                *)
VisitGroup ==
    /\ visitor = "visit" /\ "visitor" \notin failed
    /\ \E code \in Codes \cup {"OK"} :
          outcomes' \in {<<code>>, <<"EXCEPTION", code>>}
    /\ visitor' = "stop"
    /\ UNCHANGED <<queueVars, visit, analyzerVars, monitorVars, connected,
                   reconnecting, receiver, failed, linkVars, wire, serverVars>>

(* A mutant of Stop: an error does not stop the Analyzer.                    *)
StopOnFinishOnly ==
    /\ visitor = "stop" /\ "visitor" \notin failed
    /\ visitor' = "upload"
    /\ slots' = IF Head(outcomes) = "OK" THEN {} ELSE slots
    /\ dumping' = (dumping /\ ~captureNetworkPackets)
    /\ UNCHANGED <<queueVars, visit, outcomes, malicious, captureNetworkPackets,
                   monitorVars, connected, reconnecting, receiver, failed, linkVars,
                   wire, serverVars>>

(* Analyzer::stop(): the monitors are disconnected, which does not wait for  *)
(* a callback that has begun, and the packet dumper is stopped.              *)
Stop ==
    /\ visitor = "stop" /\ "visitor" \notin failed
    /\ visitor' = "upload"
    /\ slots' = {}
    /\ dumping' = (dumping /\ ~captureNetworkPackets)
    /\ UNCHANGED <<queueVars, visit, outcomes, malicious, captureNetworkPackets,
                   monitorVars, connected, reconnecting, receiver, failed, linkVars,
                   wire, serverVars>>

(* The end of Analyzer::stop(): the log directory is sent when the options   *)
(* ask for it, as one message here.  The answer is awaited for 5 s at most.  *)
Upload ==
    /\ visitor = "upload"
    /\ visitor' = "report"
    /\ \/ captureNetworkPackets /\ SendMessage("visitor", Message("file"))
       \/ UNCHANGED <<wire, failed>>
    /\ UNCHANGED <<queueVars, visit, outcomes, analyzerVars, monitorVars, connected,
                   reconnecting, receiver, linkVars, serverVars>>

(* compressLogDirectory() ends the client when 7za.exe cannot be started.    *)
Exit ==
    /\ visitor = "upload" /\ captureNetworkPackets
    /\ visitor' = "exited" /\ visit' = 0 /\ outcomes' = <<>>
    /\ slots' = {} /\ dumping' = FALSE
    /\ receiver' = "ended" /\ connected' = FALSE
    /\ failed' = {}
    /\ monitor' = [m \in Monitors |-> "idle"]
    /\ link' = "none" /\ inbox' = <<>> /\ wire' = <<>> /\ linked' = FALSE
    /\ UNCHANGED <<queueVars, malicious, captureNetworkPackets, driver, during, marked,
                   events, reconnecting, breaks, clientState, held, next>>

OutcomeReport(code) ==
    Report(IF code = "OK" THEN "finish" ELSE "error", visit, code, malicious)

(* The report of an error or of the finish.                                  *)
NotifyOutcome ==
    /\ visitor = "report" /\ "visitor" \notin failed
    /\ SendMessage("visitor", OutcomeReport(Head(outcomes)))
    /\ outcomes' = Tail(outcomes)
    /\ visitor' = IF Len(outcomes) > 1 THEN "stop" ELSE "delete"
    /\ UNCHANGED <<queueVars, visit, analyzerVars, monitorVars, connected, reconnecting,
                   receiver, linkVars, serverVars>>

(* POSTFINISH does nothing; the VisitEvent is deleted.  The server may have  *)
(* sent the next visit by now.                                               *)
Delete ==
    /\ visitor = "delete" /\ "visitor" \notin failed
    /\ visitor' = "wait" /\ visit' = 0
    /\ UNCHANGED <<queueVars, outcomes, analyzerVars, monitorVars, connected,
                   reconnecting, receiver, failed, linkVars, wire, serverVars>>

VisitorStep ==
    \/ Wait \/ Pop \/ Prestart \/ ConnectSlots \/ NotifyStart \/ VisitGroup
    \/ Stop \/ Upload \/ NotifyOutcome \/ Delete

-----------------------------------------------------------------------------
(* The monitors' threads and the Analyzer's callbacks                        *)

(* A driver records an event that no exclusion list allows.                  *)
KernelEvent(m) ==
    /\ visitor # "exited"
    /\ driver[m] = NoEvent /\ events < MaxEvents
    /\ events' = events + 1
    /\ driver' = [driver EXCEPT ![m] = visit]
    /\ UNCHANGED <<queueVars, visitVars, analyzerVars, monitor, during, marked,
                   connected, reconnecting, receiver, failed, linkVars, wire, serverVars>>

(* The monitor has fetched the event and signals it: to the Analyzer if it   *)
(* is connected at this moment, to nobody otherwise.                         *)
Signal(m) ==
    /\ monitor[m] = "idle" /\ driver[m] # NoEvent /\ m \notin failed
    /\ visitor # "exited"
    /\ driver' = [driver EXCEPT ![m] = NoEvent]
    /\ IF m \in slots
       THEN /\ monitor' = [monitor EXCEPT ![m] = "called"]
            /\ during' = [during EXCEPT ![m] = visit]
       ELSE UNCHANGED <<monitor, during>>
    /\ UNCHANGED <<queueVars, visitVars, analyzerVars, marked, events, connected,
                   reconnecting, receiver, failed, linkVars, wire, serverVars>>

(* onProcessEvent, onRegistryEvent and onFileEvent set the flag first ...    *)
SetFlag(m) ==
    /\ monitor[m] = "called"
    /\ malicious' = TRUE
    /\ marked' = marked \cup {during[m]}
    /\ monitor' = [monitor EXCEPT ![m] = "marked"]
    /\ UNCHANGED <<queueVars, visitVars, slots, captureNetworkPackets, dumping, driver,
                   during, events, connected, reconnecting, receiver, failed, linkVars,
                   wire, serverVars>>

(* ... and send the event then.                                              *)
SendSystemEvent(m) ==
    /\ monitor[m] = "marked"
    /\ SendMessage(m, Message("system-event"))
    /\ monitor' = [monitor EXCEPT ![m] = "idle"]
    /\ during' = [during EXCEPT ![m] = 0]
    /\ UNCHANGED <<queueVars, visitVars, analyzerVars, driver, marked, events, connected,
                   reconnecting, receiver, linkVars, serverVars>>

MonitorStep(m) == Signal(m) \/ SetFlag(m) \/ SendSystemEvent(m)

-----------------------------------------------------------------------------
(* CaptureClient::run(), ServerReceive::run(), Server::reconnect()           *)

(* A new connection: the server greets it (contactClient) and does not know  *)
(* yet whose it is.                                                          *)
Accepted ==
    /\ link' = "up"
    /\ inbox' = <<Doc("connect", 0)>>
    /\ wire' = <<>>
    /\ linked' = FALSE

(* The first connectToServer() succeeds and starts the receiver.  When it    *)
(* fails a thousand times the client ends.                                   *)
FirstConnect ==
    /\ receiver = "none"
    /\ Accepted
    /\ connected' = TRUE
    /\ receiver' = "check"
    /\ UNCHANGED <<queueVars, visitVars, analyzerVars, monitorVars, reconnecting, failed,
                   breaks, clientState, held, next>>

(* The outer loop goes on while connected.                                   *)
Check ==
    /\ receiver = "check" /\ "receiver" \notin failed
    /\ receiver' = IF connected THEN "recv" ELSE "ended"
    /\ UNCHANGED <<queueVars, visitVars, analyzerVars, monitorVars, connected,
                   reconnecting, failed, linkVars, wire, serverVars>>

Reading(type) ==
    /\ receiver = "recv" /\ "receiver" \notin failed
    /\ (Open \/ link = "closed") /\ inbox # <<>> /\ Head(inbox).type = type
    /\ inbox' = Tail(inbox)
    /\ UNCHANGED <<receiver, link, breaks, connected, reconnecting, monitorVars, visitVars>>

(* CaptureClient::onServerConnectEvent                                       *)
OnServerConnectEvent ==
    /\ Reading("connect")
    /\ SendMessage("receiver", Message(IF reconnecting THEN "reconnect" ELSE "connect"))
    /\ UNCHANGED <<queueVars, analyzerVars, serverVars>>

(* CaptureClient::onServerPingEvent                                          *)
OnServerPingEvent ==
    /\ Reading("ping")
    /\ SendMessage("receiver", Message("pong"))
    /\ UNCHANGED <<queueVars, analyzerVars, serverVars>>

(* OptionsManager::onOptionEvent and Analyzer::onOptionChanged: capturing    *)
(* is switched on by any option that is true and never switched off.         *)
OnOptionEvent ==
    /\ Reading("option")
    /\ captureNetworkPackets' = (captureNetworkPackets \/ CapturePackets)
    /\ UNCHANGED <<queueVars, malicious, slots, dumping, failed, wire, serverVars>>

(* A mutant of OnVisitEvent: a pulse, which only a waiting thread sees.      *)
OnVisitEventPulse ==
    /\ Reading("visit-event")
    /\ toVisit' = Append(toVisit, Head(inbox).visit)
    /\ notEmpty' = (visitor = "wait")
    /\ UNCHANGED <<analyzerVars, failed, wire, serverVars>>

(* Visitor::onServerEvent; a group of the server has at least one URL.       *)
OnVisitEvent ==
    /\ Reading("visit-event")
    /\ toVisit' = Append(toVisit, Head(inbox).visit)
    /\ notEmpty' = TRUE
    /\ UNCHANGED <<analyzerVars, failed, wire, serverVars>>

(* recv() returns 0: the peer has closed.  The inner loop ends and nothing   *)
(* else happens.                                                             *)
ReceiveNothing ==
    /\ receiver = "recv" /\ "receiver" \notin failed
    /\ link = "closed" /\ inbox = <<>>
    /\ receiver' = "check"
    /\ UNCHANGED <<queueVars, visitVars, analyzerVars, monitorVars, connected,
                   reconnecting, failed, linkVars, wire, serverVars>>

(* recv() fails: reconnect() closes the socket ...                           *)
ReceiveError ==
    /\ receiver = "recv" /\ "receiver" \notin failed
    /\ link \in {"reset", "none"}
    /\ reconnecting' = TRUE
    /\ link' = "none" /\ inbox' = <<>> /\ wire' = <<>> /\ linked' = FALSE
    /\ receiver' = "close"
    /\ UNCHANGED <<queueVars, visitVars, analyzerVars, monitorVars, connected, failed,
                   breaks, clientState, held, next>>

(* ... clears `connected` ...                                                *)
DisconnectFromServer ==
    /\ receiver = "close"
    /\ connected' = FALSE
    /\ receiver' = "connect"
    /\ UNCHANGED <<queueVars, visitVars, analyzerVars, monitorVars, reconnecting, failed,
                   linkVars, wire, serverVars>>

(* ... connects, or gives up after a thousand attempts ...                   *)
ConnectToServer ==
    /\ receiver = "connect"
    /\ \/ Accepted /\ connected' = TRUE
       \/ connected' = FALSE /\ UNCHANGED <<link, inbox, wire, linked>>
    /\ receiver' = "assign"
    /\ UNCHANGED <<queueVars, visitVars, analyzerVars, monitorVars, reconnecting, failed,
                   breaks, clientState, held, next>>

(* A mutant of Reconnected: the receiver leaves once it has reconnected.     *)
ReconnectedAndGone ==
    /\ receiver = "assign"
    /\ connected' = TRUE
    /\ receiver' = "ended"
    /\ UNCHANGED <<queueVars, visitVars, analyzerVars, monitorVars, reconnecting, failed,
                   linkVars, wire, serverVars>>

(* ... and is connected, whatever connectToServer() returned.                *)
Reconnected ==
    /\ receiver = "assign"
    /\ connected' = TRUE
    /\ receiver' = "check"
    /\ UNCHANGED <<queueVars, visitVars, analyzerVars, monitorVars, reconnecting, failed,
                   linkVars, wire, serverVars>>

ReceiverStep ==
    \/ FirstConnect \/ Check \/ OnServerConnectEvent \/ OnServerPingEvent
    \/ OnOptionEvent \/ OnVisitEvent \/ ReceiveNothing \/ ReceiveError
    \/ DisconnectFromServer \/ ConnectToServer \/ Reconnected

-----------------------------------------------------------------------------
(* The network and the server                                                *)

clientVars == <<queueVars, visitVars, analyzerVars, monitorVars, connected, reconnecting,
                receiver, failed>>

(* The connection ends, by a close or a reset; what is on its way to the     *)
(* server is not read any more, and a reset discards what the client has not *)
(* read either.                                                              *)
LinkEnds ==
    /\ link' \in {"closed", "reset"}
    /\ inbox' = IF link' = "closed" THEN inbox ELSE <<>>
    /\ wire' = <<>>
    /\ linked' = FALSE

Break ==
    /\ Open /\ breaks < MaxBreaks
    /\ breaks' = breaks + 1
    /\ LinkEnds
    /\ UNCHANGED <<clientVars, clientState, held, next>>

(* setClientState(DISCONNECTED): the group is given up, the socket closed    *)
(* and the virtual machine handed over to be reverted.                       *)
Disconnected ==
    /\ clientState' = "DISCONNECTED"
    /\ held' = 0
    /\ IF linked THEN LinkEnds ELSE UNCHANGED <<link, inbox, wire, linked>>

Take(types) ==
    /\ link = "up" /\ wire # <<>> /\ Head(wire).type \in types
    /\ UNCHANGED <<clientVars, next, breaks>>

Taken == wire' = Tail(wire)

(* parseConnectEvent: a new Client, which sends the options and waits.       *)
ParseConnect ==
    /\ Take({"connect"}) /\ Taken
    /\ clientState' = "WAITING" /\ held' = 0 /\ linked' = TRUE
    /\ inbox' = Append(inbox, Doc("option", 0))
    /\ UNCHANGED link

(* A mutant of ParseReconnect: a Client with a new socket waits for a group  *)
(* as a new Client does.                                                     *)
ParseReconnectWaits ==
    /\ Take({"reconnect"}) /\ Taken
    /\ linked' = (clientState \notin {"NONE", "DISCONNECTED"})
    /\ clientState' = IF linked' THEN "WAITING" ELSE clientState
    /\ UNCHANGED <<held, link, inbox>>

(* parseReconnectEvent: the VM's Client, if it still has one, gets the new   *)
(* socket and keeps its state.                                               *)
ParseReconnect ==
    /\ Take({"reconnect"}) /\ Taken
    /\ linked' = (clientState \notin {"NONE", "DISCONNECTED"})
    /\ UNCHANGED <<clientState, held, link, inbox>>

(* parseEvent: during a visit with `dac` the first state change is enough.   *)
ParseSystemEvent ==
    /\ Take({"system-event"})
    /\ \/ /\ Taken
          /\ UNCHANGED <<clientState, held, link, inbox, linked>>
       \/ /\ linked /\ clientState = "VISITING"
          /\ Disconnected

(* A pong and a file change nothing here; a report on a connection that has  *)
(* no Client is ignored.                                                     *)
Ignore ==
    /\ \/ Take({"pong"})
       \/ Take({"file"}) /\ linked
       \/ Take({"start", "finish", "error"}) /\ ~linked
    /\ Taken
    /\ UNCHANGED <<clientState, held, link, inbox, linked>>

(* A file on a connection that has no Client: client.setDownloading throws,  *)
(* the receiver of the connection ends and the socket stays open.            *)
FileWithoutClient ==
    /\ Take({"file"}) /\ ~linked
    /\ link' = "unread"
    /\ UNCHANGED <<clientState, held, inbox, wire, linked>>

ParseStart ==
    /\ Take({"start"}) /\ linked /\ Taken
    /\ clientState' = "VISITING"
    /\ UNCHANGED <<held, link, inbox, linked>>

(* A mutant of IsErrorToRetry: an exception counts as the page's own error.  *)
RetriesNoException(code) ==
    code \notin {"NETWORK_ERROR", "TIMEOUT_ERROR", "MULTIPLE_ERRORS", "WARNING", "EXCEPTION"}

IsErrorToRetry(code) ==
    code \notin {"NETWORK_ERROR", "TIMEOUT_ERROR", "MULTIPLE_ERRORS", "WARNING"}

(* The finish and error reports.  A verdict of malicious, an error to retry  *)
(* and revert-after-each-url give the machine up; otherwise the Client waits *)
(* for its next group.                                                       *)
ParseOutcome ==
    /\ Take({"finish", "error"}) /\ linked
    /\ LET r == Head(wire) IN
       IF \/ r.malicious
          \/ r.type = "error" /\ IsErrorToRetry(r.code)
          \/ RevertAfterEach
       THEN Disconnected
       ELSE /\ Taken
            /\ clientState' = "WAITING" /\ held' = 0
            /\ UNCHANGED <<link, inbox, linked>>

(* Client.run() takes a group and sends it; a failed write gives the client  *)
(* up, a write that nobody reads does not.                                   *)
SendVisit ==
    /\ clientState = "WAITING" /\ next <= Visits
    /\ next' = next + 1
    /\ \/ /\ linked /\ link = "up"
          /\ held' = next /\ clientState' = "AWAITING_VISITING"
          /\ inbox' = Append(inbox, Doc("visit-event", next))
          /\ UNCHANGED <<link, wire, linked>>
       \/ /\ ~linked
          /\ held' = next /\ clientState' = "AWAITING_VISITING"
          /\ UNCHANGED <<link, inbox, wire, linked>>
       \/ ~linked /\ Disconnected
    /\ UNCHANGED <<clientVars, breaks>>

(* ClientsPinger: one ping at a time.                                        *)
Ping ==
    /\ clientState \notin {"NONE", "DISCONNECTED"}
    /\ \/ /\ linked /\ link = "up" /\ inbox = <<>>
          /\ inbox' = <<Doc("ping", 0)>>
          /\ UNCHANGED <<link, wire, clientState, held, linked>>
       \/ ~linked /\ Disconnected
    /\ UNCHANGED <<clientVars, breaks, next>>

(* The server reverts the virtual machine, after a disconnect or a time-out, *)
(* and starts the client in it again.                                        *)
Revert ==
    /\ toVisit' = <<>> /\ notEmpty' = FALSE
    /\ visitor' = "wait" /\ visit' = 0 /\ outcomes' = <<>>
    /\ malicious' = FALSE /\ slots' = {}
    /\ captureNetworkPackets' = FALSE /\ dumping' = FALSE
    /\ driver' = [m \in Monitors |-> NoEvent]
    /\ monitor' = [m \in Monitors |-> "idle"]
    /\ during' = [m \in Monitors |-> 0]
    /\ marked' = {} /\ events' = 0
    /\ connected' = FALSE /\ reconnecting' = FALSE
    /\ receiver' = "none" /\ failed' = {}
    /\ link' = "none" /\ inbox' = <<>> /\ wire' = <<>> /\ breaks' = 0
    /\ clientState' = "NONE" /\ held' = 0 /\ next' = 1 /\ linked' = FALSE

ServerReads ==
    \/ ParseConnect \/ ParseReconnect \/ ParseSystemEvent \/ Ignore
    \/ FileWithoutClient \/ ParseStart
    \/ ParseOutcome

Next ==
    \/ Wait \/ Pop \/ Prestart \/ ConnectSlots \/ NotifyStart \/ VisitGroup
    \/ Stop \/ Upload \/ Exit \/ NotifyOutcome \/ Delete
    \/ \E t \in Threads : SendFailed(t)
    \/ \E m \in Monitors : KernelEvent(m) \/ Signal(m) \/ SetFlag(m) \/ SendSystemEvent(m)
    \/ FirstConnect \/ Check \/ OnServerConnectEvent \/ OnServerPingEvent
    \/ OnOptionEvent \/ OnVisitEvent \/ ReceiveNothing \/ ReceiveError
    \/ DisconnectFromServer \/ ConnectToServer \/ Reconnected
    \/ Break
    \/ ParseConnect \/ ParseReconnect \/ ParseSystemEvent \/ Ignore
    \/ FileWithoutClient \/ ParseStart
    \/ ParseOutcome \/ SendVisit \/ Ping \/ Revert

Spec == Init /\ [][Next]_vars

(* Every thread that can run does; every wait in visitGroup() and stop()     *)
(* has a time-out, and the server reads what it gets.  A Visitor that waits  *)
(* in send() while others fill the connection gets its turn (strong): pings  *)
(* come every 10 s.  Nothing is assumed of the network, the drivers, the     *)
(* pinger and the reverts.                                                   *)
FairSpec ==
    /\ Spec
    /\ SF_vars(VisitorStep)
    /\ WF_vars(ReceiverStep)
    /\ \A m \in Monitors : WF_vars(MonitorStep(m))
    /\ \A t \in Threads : WF_vars(SendFailed(t))
    /\ WF_vars(ServerReads)

-----------------------------------------------------------------------------
(* Properties                                                                *)

(* The Visitor never takes the front of an empty queue: the event counts at  *)
(* most one signal for several visits, so that a wait that ends has a visit. *)
PopsAVisit == visitor = "pop" => toVisit # <<>>

(* toVisit has no lock, and needs none: the receiver is never about to push  *)
(* while the Visitor pops, because the server sends a group only when it has *)
(* got back the one before, across reconnections too.                        *)
NoQueueRace ==
    ~ /\ visitor = "pop" /\ receiver = "recv"
      /\ inbox # <<>> /\ Head(inbox).type = "visit-event"

(* Between two visits the Analyzer listens to no monitor and the packet      *)
(* dumper is at rest, however the visit ended: with a finish, an error, an   *)
(* exception or both reports.                                                *)
QuietBetweenVisits == visit = 0 => slots = {} /\ ~dumping

(* A visit whose own callback has set `malicious` keeps it until its last    *)
(* report is out: neither start() nor a thread that is late clears it.       *)
VerdictCoversVisit == visit # 0 /\ visit \in marked => malicious

(* A report that reaches a Client is about the group it has in hand, though  *)
(* parseVisitEvent never looks at the identifier: not the second report of a *)
(* visit that ended with an exception, not one that was sent before the      *)
(* connection broke.                                                         *)
ReportIsForHeldGroup ==
    linked /\ wire # <<>> /\ Head(wire).type \in {"start", "finish", "error"}
        => held = Head(wire).visit

(* Once the receiver has ended the client sends nothing more: it does not    *)
(* report to a server it cannot hear, whichever thread's failed send closed  *)
(* the connection and however many reconnections went before.                *)
EndedIsDisconnected == receiver = "ended" => ~connected

(* The queue of visits is safe without a lock: Visitor and receiver neither *)
(* miscount its event nor meet in it.                                       *)
QueueIsSafe == PopsAVisit /\ NoQueueRace

(* A visit leaves nothing behind on the client: no slot of the Analyzer, no *)
(* dumper, and no sender once the receiver has ended.                       *)
VisitLeavesNothing == QuietBetweenVisits /\ EndedIsDisconnected

(* The reports of a visit are right where they are read: with the verdict   *)
(* the monitors gave, and for the group that the server's Client holds.     *)
ReportsAreRight == VerdictCoversVisit /\ ReportIsForHeldGroup

(* A group the server has sent comes back, unless the network breaks, the    *)
(* client ends or its program has no plugin.                                 *)
VisitIsAnswered ==
    \A v \in Known : held = v ~> (held # v \/ breaks > 0 \/ visitor = "exited")
=============================================================================
