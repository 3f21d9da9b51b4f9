---------------------------- MODULE FileTransfer ----------------------------
(***************************************************************************)
(* The upload of a visit's log files: FileUploader of the client, and      *)
(* ClientFileReceiver and ClientEventController of the server.             *)
(*                                                                         *)
(*   - The client asks the server to accept a file, waits five seconds and *)
(*     sends the parts; it looks neither at the name in an answer nor at   *)
(*     what became of the parts.  Each visit has an uploader of its own.   *)
(*   - The name of a zip file on the client is the minute it was made in,  *)
(*     so uploads may share it.  The file on the server has the name of    *)
(*     the group in hand; a group of several URLs keeps its name when it   *)
(*     is retried, and the upload of its next visit empties that file.     *)
(*   - A connection has a receiver thread of its own on the server, with   *)
(*     its own table of unfinished files by the name on the client.        *)
(*                                                                         *)
(* The messages of a connection arrive in order until it breaks.  The      *)
(* server never sends file-ok, file-error or file-reject.                  *)
(***************************************************************************)
EXTENDS Integers, Sequences, FiniteSets

CONSTANTS
    NameOf,         \* NameOf[u]: the name of the u-th file on the client
    PartsOf,        \* PartsOf[u]: its parts of at most 8192 bytes
    PathOf,         \* PathOf[u]: the file on the server, named after the group
    MaxConnections, \* bound on the connections
    MaxFaults       \* bound on files that cannot be opened and parts damaged

ASSUME TransferBounds ==
    /\ Len(NameOf) \in Nat
    /\ DOMAIN NameOf = DOMAIN PartsOf /\ DOMAIN NameOf = 1..Len(NameOf)
    /\ DOMAIN PathOf = DOMAIN NameOf
    /\ \A u \in DOMAIN PartsOf : PartsOf[u] \in Nat
    /\ MaxConnections \in Nat \ {0} /\ MaxFaults \in Nat

Upload == DOMAIN NameOf

VARIABLES
    upload,       \* the uploads begun
    step,         \* of the current one: "idle", "asked" or "sending"
    fileAccepted,
    acknowledged, \* hFileAcknowledged
    offset,       \* parts sent
    connected,    \* the client's view of the connection
    connection,   \* how many there have been
    toServer,     \* messages of this connection under way
    toClient,
    serving,      \* the receiver thread of this connection runs
    clientFileReceivers, \* its table: the index in `files` of each name
    files,        \* the files the server has opened, one after the other
    downloading,  \* of the server's Client
    closing,      \* where Client.disconnect is
    faults,
    timedOut,     \* uploads that ended without an answer
    began,        \* the connection each upload began on, 0 if it could not
    sent,         \* the connection each upload that sendFile calls sent ended on
    earlier,      \* the last upload of the clients before the last revert
    damaged,      \* parts that were refused for their size
    repaired      \* files given to Zippa

clientVars == <<upload, step, fileAccepted, acknowledged, offset>>
wireVars == <<connected, connection, toServer, toClient>>
serverVars == <<serving, clientFileReceivers, files, downloading, closing, repaired>>
historyVars == <<timedOut, began, sent, earlier>>
vars == <<clientVars, wireVars, serverVars, historyVars, faults, damaged>>

(* The map f with y at x.                                                  *)
Put(f, x, y) == [z \in DOMAIN f \cup {x} |-> IF z = x THEN y ELSE f[z]]
Message(type, u, part) == [type |-> type, name |-> NameOf[u], upload |-> u, part |-> part]

Init ==
    /\ upload = 0 /\ step = "idle" /\ fileAccepted = FALSE /\ acknowledged = FALSE
    /\ offset = 0
    /\ connected = TRUE /\ connection = 1 /\ toServer = <<>> /\ toClient = <<>>
    /\ serving = TRUE /\ clientFileReceivers = <<>> /\ files = <<>>
    /\ downloading = FALSE /\ closing = "no" /\ repaired = {}
    /\ timedOut = {} /\ began = <<>> /\ sent = <<>> /\ earlier = 0
    /\ faults = 0 /\ damaged = {}

---------------------------------------------------------------------------
(* The client.  A message is sent if the client thinks it is connected; it  *)
(* is lost if the server has closed the connection.                        *)

Send(m) ==
    toServer' = IF connected /\ closing = "no" THEN Append(toServer, m) ELSE toServer

(* sendFile of a new FileUploader.  It gives up without a connection, or   *)
(* when it cannot read the file.  A group is visited again only after its  *)
(* Client is DISCONNECTED: not by the same client without a revert.        *)
SendFile ==
    /\ step = "idle" /\ upload + 1 \in Upload
    /\ \A u \in (earlier + 1)..upload : PathOf[u] # PathOf[upload + 1]
    /\ upload' = upload + 1
    /\ fileAccepted' = FALSE /\ acknowledged' = FALSE /\ offset' = 0
    /\ \/ /\ connected
          /\ step' = "asked"
          /\ Send(Message("file", upload + 1, 0))
          /\ began' = Append(began, connection)
       \/ /\ step' = "idle" /\ UNCHANGED toServer
          /\ began' = Append(began, 0)
    /\ UNCHANGED <<connected, connection, toClient, serverVars, timedOut, sent,
                   earlier, faults, damaged>>

(* Without an uploader nobody listens.                                     *)
onReceiveFileAcceptEvent ==
    /\ toClient # <<>>
    /\ toClient' = Tail(toClient)
    /\ IF step = "idle" THEN UNCHANGED <<fileAccepted, acknowledged>>
       ELSE fileAccepted' = TRUE /\ acknowledged' = TRUE
    /\ UNCHANGED <<upload, step, offset, connected, connection, toServer, serverVars,
                   historyVars, faults, damaged>>

Acknowledged ==
    /\ step = "asked" /\ acknowledged /\ fileAccepted
    /\ step' = "sending" /\ acknowledged' = FALSE
    /\ UNCHANGED <<upload, fileAccepted, offset, wireVars, serverVars, historyVars,
                   faults, damaged>>

(* The server is not told.                                                 *)
TimeOut ==
    /\ step = "asked" /\ ~acknowledged
    /\ step' = "idle"
    /\ timedOut' = timedOut \cup {upload}
    /\ UNCHANGED <<upload, fileAccepted, acknowledged, offset, wireVars, serverVars,
                   began, sent, earlier, faults, damaged>>

sendFilePart ==
    /\ step = "sending" /\ offset < PartsOf[upload]
    /\ Send(Message("part", upload, offset + 1))
    /\ offset' = offset + 1
    /\ UNCHANGED <<upload, step, fileAccepted, acknowledged, connected, connection,
                   toClient, serverVars, historyVars, faults, damaged>>

\* Mutant of SendFinished: the server is not told.
MutSendFinished ==
    /\ step = "sending" /\ offset = PartsOf[upload]
    /\ step' = "idle"
    /\ sent' = Put(sent, upload, connection)
    /\ UNCHANGED <<upload, fileAccepted, acknowledged, offset, wireVars, serverVars,
                   timedOut, began, earlier, faults, damaged>>

SendFinished ==
    /\ step = "sending" /\ offset = PartsOf[upload]
    /\ Send(Message("file-finished", upload, 0))
    /\ step' = "idle"
    /\ sent' = Put(sent, upload, connection)
    /\ UNCHANGED <<upload, fileAccepted, acknowledged, offset, connected, connection,
                   toClient, serverVars, timedOut, began, earlier, faults, damaged>>

---------------------------------------------------------------------------
(* The receiver thread of the server.                                      *)

Arrived(type) == serving /\ toServer # <<>> /\ Head(toServer).type = type
Taken == toServer' = Tail(toServer)
Known(m) == m.name \in DOMAIN clientFileReceivers

(* FileOutputStream empties the file u goes to.                            *)
Emptied(u) ==
    [i \in DOMAIN files |->
        IF PathOf[files[i].upload] = PathOf[u] THEN [files[i] EXCEPT !.parts = <<>>] ELSE files[i]]

(* The file is opened, and accepted if that worked, even when another of   *)
(* that name is unfinished and keeps its place in the table.               *)
ReceiveFile ==
    /\ Arrived("file")
    /\ Taken
    /\ LET m == Head(toServer)
       IN  /\ \/ /\ files' = Append(Emptied(m.upload),
                                    [upload |-> m.upload, parts |-> <<>>, output |-> "open"])
                 /\ toClient' = Append(toClient, m.upload)
                 /\ UNCHANGED faults
              \/ /\ faults < MaxFaults /\ faults' = faults + 1
                 /\ files' = Append(files,
                                    [upload |-> m.upload, parts |-> <<>>, output |-> "none"])
                 /\ UNCHANGED toClient
           /\ clientFileReceivers' =
                 IF Known(m) THEN clientFileReceivers
                 ELSE Put(clientFileReceivers, m.name, Len(files) + 1)
    /\ downloading' = TRUE
    /\ UNCHANGED <<clientVars, connected, connection, serving, closing, repaired,
                   historyVars, damaged>>

(* The parser may give the text of an element in several pieces, of which  *)
(* characters() keeps the last: the part has the wrong size, and is        *)
(* dropped.  A receiver without a file ends the thread.                    *)
receiveFilePart ==
    /\ Arrived("part")
    /\ Taken
    /\ LET m == Head(toServer)
       IN  IF ~Known(m) THEN UNCHANGED <<files, serving, downloading, faults, damaged>>
           ELSE LET i == clientFileReceivers[m.name]
                IN  \/ /\ faults < MaxFaults
                       /\ faults' = faults + 1
                       /\ damaged' = damaged \cup {<<m.upload, m.part>>}
                       /\ downloading' = TRUE
                       /\ UNCHANGED <<files, serving>>
                    \/ /\ files[i].output = "open"
                       /\ files' = [files EXCEPT ![i].parts = Append(@, <<m.upload, m.part>>)]
                       /\ downloading' = TRUE
                       /\ UNCHANGED <<serving, faults, damaged>>
                    \/ /\ files[i].output = "none"
                       /\ serving' = FALSE
                       /\ UNCHANGED <<files, downloading, faults, damaged>>
    /\ UNCHANGED <<clientVars, connected, connection, toClient, clientFileReceivers,
                   closing, repaired, historyVars>>

\* Mutant of Forget: the receiver stays in the table.
MutForget(name) == clientFileReceivers

Forget(name) ==
    [n \in DOMAIN clientFileReceivers \ {name} |-> clientFileReceivers[n]]

receiveFileEnd ==
    /\ Arrived("file-finished")
    /\ Taken
    /\ downloading' = FALSE
    /\ LET m == Head(toServer)
       IN  IF ~Known(m) THEN UNCHANGED <<files, serving, clientFileReceivers>>
           ELSE LET i == clientFileReceivers[m.name]
                IN  IF files[i].output = "none"
                    THEN serving' = FALSE /\ UNCHANGED <<files, clientFileReceivers>>
                    ELSE /\ files' = [files EXCEPT ![i].output = "closed"]
                         /\ clientFileReceivers' = Forget(m.name)
                         /\ UNCHANGED serving
    /\ UNCHANGED <<clientVars, connected, connection, toClient, closing, repaired,
                   historyVars, faults, damaged>>

---------------------------------------------------------------------------
(* Connections.                                                            *)

(* The connection breaks; the thread of the server ends with its table.    *)
Break ==
    /\ connected /\ connection < MaxConnections /\ closing = "no"
    /\ connected' = FALSE
    /\ toServer' = <<>> /\ toClient' = <<>>
    /\ serving' = FALSE
    /\ UNCHANGED <<clientVars, connection, clientFileReceivers, files, downloading,
                   closing, repaired, historyVars, faults, damaged>>

\* Mutant of Reconnect: the new thread has the table of the old one.
MutReconnect ==
    /\ ~connected /\ closing = "no"
    /\ connected' = TRUE /\ connection' = connection + 1
    /\ serving' = TRUE
    /\ UNCHANGED <<clientVars, toServer, toClient, clientFileReceivers, files,
                   downloading, closing, repaired, historyVars, faults, damaged>>

(* The client reconnects, in the middle of an upload or not.               *)
Reconnect ==
    /\ ~connected /\ closing = "no"
    /\ connected' = TRUE /\ connection' = connection + 1
    /\ serving' = TRUE /\ clientFileReceivers' = <<>>
    /\ UNCHANGED <<clientVars, toServer, toClient, files, downloading, closing, repaired,
                   historyVars, faults, damaged>>

(* Client.disconnect, by a thread other than the receiver's, which may     *)
(* have read messages it has still to handle.                              *)
DisconnectBegin ==
    /\ connected /\ connection < MaxConnections /\ closing = "no"
    /\ closing' = "closed"
    /\ downloading' = FALSE
    /\ UNCHANGED <<clientVars, wireVars, serving, clientFileReceivers, files, repaired,
                   historyVars, faults, damaged>>

(* Zippa gets the name of the last file, which is that of setZipName.      *)
DisconnectRepair ==
    /\ closing = "closed"
    /\ closing' = "done"
    /\ IF downloading
       THEN downloading' = FALSE /\ repaired' = repaired \cup {Len(files)}
       ELSE UNCHANGED <<downloading, repaired>>
    /\ UNCHANGED <<clientVars, wireVars, serving, clientFileReceivers, files,
                   historyVars, faults, damaged>>

(* The virtual machine is reverted: a new client, and a new Client.        *)
Revert ==
    /\ closing = "done"
    /\ closing' = "no"
    /\ step' = "idle" /\ fileAccepted' = FALSE /\ acknowledged' = FALSE /\ offset' = 0
    /\ connected' = TRUE /\ connection' = connection + 1
    /\ toServer' = <<>> /\ toClient' = <<>>
    /\ serving' = TRUE /\ clientFileReceivers' = <<>> /\ downloading' = FALSE
    /\ earlier' = upload
    /\ UNCHANGED <<upload, files, repaired, timedOut, began, sent, faults, damaged>>

Next ==
    \/ SendFile \/ onReceiveFileAcceptEvent \/ Acknowledged \/ TimeOut
    \/ sendFilePart \/ SendFinished
    \/ ReceiveFile \/ receiveFilePart \/ receiveFileEnd
    \/ Break \/ Reconnect \/ DisconnectBegin \/ DisconnectRepair \/ Revert

Spec == Init /\ [][Next]_vars

---------------------------------------------------------------------------
TypeOK ==
    /\ upload \in 0..Len(NameOf) /\ Len(began) = upload
    /\ step \in {"idle", "asked", "sending"}
    /\ step # "idle" => offset \in 0..PartsOf[upload]
    /\ step = "sending" => fileAccepted
    /\ connection \in 1..MaxConnections
    /\ closing \in {"no", "closed", "done"}
    /\ \A n \in DOMAIN clientFileReceivers :
          LET f == files[clientFileReceivers[n]]
          IN  f.output # "closed" /\ NameOf[f.upload] = n
    /\ faults \in 0..MaxFaults /\ timedOut \subseteq 1..upload /\ earlier \in 0..upload
    /\ repaired \subseteq DOMAIN files

(* The first k parts of an upload but for those refused, in their order.   *)
Holds(parts, u, k) ==
    /\ {parts[i] : i \in DOMAIN parts} = {<<u, p>> : p \in 1..k} \ damaged
    /\ \A i, j \in DOMAIN parts : i < j => parts[i][2] < parts[j][2]
Stored(parts, u) == Holds(parts, u, PartsOf[u])

(* The file has been opened again for a later visit of its group.          *)
Overwritten(i) ==
    \E j \in DOMAIN files :
        /\ j > i /\ files[j].output # "none"
        /\ PathOf[files[j].upload] = PathOf[files[i].upload]

(* A file that the server has closed, and has not opened again since, holds *)
(* one upload, whole but for the parts refused, and it is the upload it was *)
(* opened for, unless that one timed out and a later one of the same minute *)
(* took its place in the table.  Nothing is left in it of the visit before  *)
(* the retry, and no other group's upload takes anything from it.           *)
ClosedIsWhole ==
    \A i \in DOMAIN files :
        LET f == files[i] IN
        f.output = "closed" /\ ~Overwritten(i) =>
            \E u \in f.upload..upload :
                /\ Stored(f.parts, u)
                /\ u # f.upload => f.upload \in timedOut /\ NameOf[u] = NameOf[f.upload]

(* Once an upload that sendFile calls sent has been read by the server, it *)
(* is in a file that was closed, if it began and ended on one connection   *)
(* which is still there, and the receiver thread has survived.             *)
SentIsStored ==
    \A u \in DOMAIN sent :
        /\ sent[u] = began[u] /\ sent[u] = connection
        /\ serving /\ connected /\ closing = "no"
        /\ \A i \in DOMAIN toServer : toServer[i].upload # u
        => \E i \in DOMAIN files : files[i].output = "closed" /\ Stored(files[i].parts, u)
=============================================================================
