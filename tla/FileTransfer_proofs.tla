------------------------- MODULE FileTransfer_proofs -------------------------
(***************************************************************************)
(* Proofs about FileTransfer, for any number of uploads with any names and *)
(* sizes, over any number of connections: a file the server has closed     *)
(* holds one whole upload, and what the client calls sent is stored.       *)
(*                                                                         *)
(* A message has a mark, its upload and its place in it, and so has what   *)
(* the client sends next.  Wire says that the marks of a connection follow *)
(* each other without a gap, until the client is cut off.  Cursor is the   *)
(* mark of what the receiver thread gets next; Table says what the files   *)
(* of its table hold at that mark.                                         *)
(***************************************************************************)
EXTENDS FileTransfer, SequenceTheorems, TLAPS

(* The parts of every file and what else a step relies on.                  *)
FileRecord == [upload : Nat, parts : Seq(Nat \X Nat), output : {"open", "none", "closed"}]
Kind == {"file", "part", "file-finished"}
Envelope == [type : Kind, name : {NameOf[u] : u \in Upload}, upload : Upload, part : Nat]

Shape ==
    /\ began \in Seq(Nat) /\ files \in Seq(FileRecord) /\ toServer \in Seq(Envelope)
    /\ offset \in Nat
    /\ \A n \in DOMAIN clientFileReceivers : clientFileReceivers[n] \in DOMAIN files
    /\ \A u \in DOMAIN sent : sent[u] \in 1..MaxConnections
    /\ downloading \in BOOLEAN /\ serving \in BOOLEAN /\ connected \in BOOLEAN
    /\ acknowledged \in BOOLEAN /\ fileAccepted \in BOOLEAN

(* The place of a message in its upload: the request, the parts, the end.   *)
Rank(m) ==
    IF m.type = "file" THEN 0
    ELSE IF m.type = "part" THEN m.part ELSE PartsOf[m.upload] + 1
Mark(m) == <<m.upload, Rank(m)>>

(* What the client sends next, unless it gives up.                          *)
ClientMark ==
    IF step = "idle" THEN <<upload + 1, 0>>
    ELSE IF step = "asked" THEN <<upload, 1>> ELSE <<upload, offset + 1>>

(* Marks that are next to each other: an upload ends or has timed out       *)
(* before another begins.                                                   *)
Follows(a, b) ==
    \/ a[2] <= PartsOf[a[1]] /\ b = <<a[1], a[2] + 1>>
    \/ /\ b[1] > a[1] /\ b[2] = 0
       /\ a[2] = PartsOf[a[1]] + 1 \/ (a[2] = 0 /\ a[1] \in timedOut)

Less(a, b) == a[1] < b[1] \/ (a[1] = b[1] /\ a[2] < b[2])

Online == connected /\ closing = "no"

Wire ==
    /\ \A i \in DOMAIN toServer :
          LET m == toServer[i] IN
          /\ m.upload <= upload /\ m.name = NameOf[m.upload]
          /\ m.type = "part" => m.part \in 1..PartsOf[m.upload]
    /\ \A i \in DOMAIN toServer :
          i > 1 => Follows(Mark(toServer[i - 1]), Mark(toServer[i]))
    /\ \A i, j \in DOMAIN toServer :
          i < j => Less(Mark(toServer[i]), Mark(toServer[j]))
    /\ \A i \in DOMAIN toServer : Less(Mark(toServer[i]), ClientMark)
    /\ Online /\ toServer # <<>> => Follows(Mark(toServer[Len(toServer)]), ClientMark)
    /\ ~connected => toServer = <<>>

(* What the receiver thread gets next.                                      *)
Cursor == IF toServer # <<>> THEN Mark(Head(toServer)) ELSE ClientMark
Live == serving /\ (toServer # <<>> \/ Online)

(* A part that was refused came before whatever is still to come.           *)
Refused ==
    /\ damaged \subseteq Nat \X Nat
    /\ \A d \in damaged :
          /\ Less(d, ClientMark)
          /\ \A i \in DOMAIN toServer : Less(d, Mark(toServer[i]))

(* The client has nothing more to send of u, and all it sent was handled.   *)
Past(u) ==
    /\ u \in 1..upload
    /\ step # "idle" => u < upload
    /\ \A i \in DOMAIN toServer : toServer[i].upload > u

(* The table while the thread runs: every file in it is empty but the one   *)
(* of the upload under way, which holds what has arrived of it.             *)
Entry(n) ==
    LET f == files[clientFileReceivers[n]] IN
    /\ f.upload <= Cursor[1]
    /\ f.upload = Cursor[1] => Cursor[2] > 0
    /\ f.upload < Cursor[1] => f.upload \in timedOut
    /\ IF Cursor[2] > 0 /\ NameOf[Cursor[1]] = n
       THEN Holds(f.parts, Cursor[1], Cursor[2] - 1)
       ELSE f.parts = <<>>
Table ==
    /\ \A n \in DOMAIN clientFileReceivers : Entry(n)
    /\ Online /\ Cursor[2] > 0 /\ began[Cursor[1]] = connection =>
          NameOf[Cursor[1]] \in DOMAIN clientFileReceivers

IsOf(i, u) ==
    /\ u \in files[i].upload..upload
    /\ Past(u) /\ Stored(files[i].parts, u)
    /\ u # files[i].upload =>
          files[i].upload \in timedOut /\ NameOf[u] = NameOf[files[i].upload]
Closed ==
    \A i \in DOMAIN files :
        files[i].output = "closed" /\ ~Overwritten(i) => \E u \in Nat : IsOf(i, u)

(* A file of an upload since the last revert.                               *)
StoredFile(u) ==
    \E i \in DOMAIN files :
        /\ files[i].output = "closed" /\ files[i].upload \in (earlier + 1)..u
        /\ Past(u) /\ Stored(files[i].parts, u)

(* An upload that was sent waits for its last message to be handled, or is  *)
(* stored.                                                                  *)
EndedAt(u) ==
    /\ u \in 1..upload /\ sent[u] <= connection
    /\ step # "idle" => u < upload
    /\ sent[u] = began[u] /\ sent[u] = connection /\ serving /\ Online =>
          \/ \E i \in DOMAIN toServer :
                toServer[i].upload = u /\ toServer[i].type = "file-finished"
          \/ StoredFile(u)
Ended ==
    /\ \A u \in DOMAIN sent : EndedAt(u)
    /\ \A u \in DOMAIN began : began[u] <= connection

(* A file that is opened stays so, and remains the upload's.                *)
Keeps(new, old) == new.upload = old.upload /\ (old.output # "none" => new.output # "none")

(* Since the last revert no two uploads go to one file.                     *)
Fresh ==
    /\ \A u, v \in (earlier + 1)..upload : PathOf[u] = PathOf[v] => u = v
    /\ \A i \in DOMAIN toServer : toServer[i].upload > earlier
    /\ step # "idle" => upload > earlier
FreshTable == \A n \in DOMAIN clientFileReceivers : files[clientFileReceivers[n]].upload > earlier

Local ==
    /\ step # "idle" => upload > 0 /\ upload \notin timedOut
    /\ step = "asked" => offset = 0
    /\ serving => connected
    /\ ~connected => closing = "no"
    /\ ~connected => connection < MaxConnections
    /\ closing # "no" => connection < MaxConnections
    /\ downloading => files # <<>>

IInv ==
    /\ TypeOK /\ Shape /\ Local /\ Wire /\ Refused /\ Closed /\ Ended
    /\ Fresh /\ FreshTable
    /\ Live => Table
-----------------------------------------------------------------------------
(* Sequences and maps.                                                      *)
LEMMA Appended ==
    ASSUME NEW S, NEW s \in Seq(S), NEW e \in S
    PROVE  /\ Append(s, e) \in Seq(S) /\ Append(s, e) # <<>>
           /\ Len(Append(s, e)) = Len(s) + 1
           /\ DOMAIN Append(s, e) = 1..(Len(s) + 1)
           /\ \A i \in 1..Len(s) : Append(s, e)[i] = s[i]
           /\ Append(s, e)[Len(s) + 1] = e
BY LenProperties, AppendProperties

LEMMA Rest ==
    ASSUME NEW S, NEW s \in Seq(S), s # <<>>
    PROVE  /\ Len(s) \in Nat /\ Len(s) > 0 /\ Head(s) \in S /\ Head(s) = s[1]
           /\ Tail(s) \in Seq(S) /\ Len(Tail(s)) = Len(s) - 1
           /\ DOMAIN Tail(s) = 1..(Len(s) - 1)
           /\ \A i \in 1..(Len(s) - 1) : Tail(s)[i] = s[i + 1]
BY LenProperties, HeadTailProperties, EmptySeq

LEMMA NonEmpty ==
    ASSUME NEW S, NEW s \in Seq(S)
    PROVE  /\ Len(s) \in Nat /\ DOMAIN s = 1..Len(s)
           /\ s # <<>> <=> Len(s) > 0
           /\ \A i \in DOMAIN s : s[i] \in S
           /\ s # <<>> => Head(s) = s[1]
BY LenProperties, EmptySeq, HeadTailProperties, ElementOfSeq

LEMMA Nothing == DOMAIN <<>> = {} /\ Len(<<>>) = 0
<1>1. <<>> \in Seq(Nat) /\ Len(<<>>) = 0
  OBVIOUS
<1> QED BY <1>1, LenProperties

LEMMA PutIn ==
    ASSUME NEW f, NEW x, NEW y
    PROVE  /\ DOMAIN Put(f, x, y) = DOMAIN f \cup {x}
           /\ Put(f, x, y)[x] = y
           /\ \A z \in DOMAIN f : z # x => Put(f, x, y)[z] = f[z]
BY DEF Put

-----------------------------------------------------------------------------
(* Marks.                                                                   *)
LEMMA Uploads ==
    /\ Len(NameOf) \in Nat /\ Upload = 1..Len(NameOf)
    /\ \A u \in Upload : PartsOf[u] \in Nat
BY TransferBounds DEF Upload

LEMMA Marks ==
    ASSUME TypeOK, Shape, Wire, NEW i \in DOMAIN toServer
    PROVE  /\ toServer[i] \in Envelope
           /\ toServer[i].upload \in 1..upload /\ toServer[i].upload \in Upload
           /\ Rank(toServer[i]) \in 0..(PartsOf[toServer[i].upload] + 1)
           /\ Rank(toServer[i]) \in Nat
<1> DEFINE m == toServer[i]
<1>1. m \in Envelope
  BY ElementOfSeq, NonEmpty DEF Shape
<1>2. m.upload <= upload /\ (m.type = "part" => m.part \in 1..PartsOf[m.upload])
  BY DEF Wire
<1> HIDE DEF m
<1>3. m.upload \in Upload /\ m.part \in Nat /\ m.type \in Kind
  BY <1>1 DEF Envelope
<1>4. PartsOf[m.upload] \in Nat /\ m.upload \in 1..upload
  BY <1>2, <1>3, Uploads DEF TypeOK
<1>5. Rank(m) \in 0..(PartsOf[m.upload] + 1)
  BY <1>2, <1>3, <1>4 DEF Rank, Kind
<1> QED BY <1>1, <1>3, <1>4, <1>5 DEF m

LEMMA ClientMarks ==
    ASSUME TypeOK, Shape, Local
    PROVE  /\ ClientMark = <<ClientMark[1], ClientMark[2]>>
           /\ ClientMark[1] \in Nat /\ ClientMark[2] \in Nat
           /\ ClientMark[1] = IF step = "idle" THEN upload + 1 ELSE upload
           /\ ClientMark[2] = IF step = "idle" THEN 0 ELSE offset + 1
           /\ step # "idle" => upload \in Upload /\ PartsOf[upload] \in Nat
<1>1. upload \in Nat /\ offset \in Nat
  BY Uploads DEF TypeOK, Shape
<1>2. step # "idle" => upload \in Upload /\ PartsOf[upload] \in Nat
  BY Uploads, <1>1 DEF TypeOK, Local
<1>3. step = "asked" => offset = 0
  BY DEF Local
<1> QED BY <1>1, <1>2, <1>3 DEF ClientMark, TypeOK

LEMMA Cursors ==
    ASSUME TypeOK, Shape, Local, Wire
    PROVE  /\ toServer # <<>> => /\ 1 \in DOMAIN toServer
                                 /\ Cursor[1] = Head(toServer).upload
                                 /\ Cursor[2] = Rank(Head(toServer))
                                 /\ Head(toServer) = toServer[1]
           /\ toServer = <<>> => Cursor = ClientMark
           /\ Cursor[1] \in Nat /\ Cursor[2] \in Nat
           /\ Cursor[2] > 0 => Cursor[1] \in 1..upload /\ Cursor[1] \in Upload
<1>1. CASE toServer # <<>>
  <2>1. 1 \in DOMAIN toServer /\ Head(toServer) = toServer[1]
    BY <1>1, NonEmpty DEF Shape
  <2>2. Cursor = <<toServer[1].upload, Rank(toServer[1])>>
    BY <1>1, <2>1 DEF Cursor, Mark
  <2> QED BY <1>1, <2>1, <2>2, Marks, Uploads
<1>2. CASE toServer = <<>>
  <2>1. Cursor = ClientMark
    BY <1>2 DEF Cursor
  <2>2. ClientMark[2] > 0 => ClientMark[1] \in 1..upload /\ ClientMark[1] \in Upload
    BY ClientMarks, Uploads DEF TypeOK, Local
  <2> QED BY <1>2, <2>1, <2>2, ClientMarks
<1> QED BY <1>1, <1>2

-----------------------------------------------------------------------------
(* What the client and the receiver thread do to the wire.                  *)

(* A message that is sent is at its end, and the client goes on to the mark *)
(* that follows; one that is lost has been sent all the same.               *)
LEMMA WireGrows ==
    ASSUME TypeOK, Shape, Local, Wire, NEW m \in Envelope, Send(m),
           connected' = connected, closing' = closing, timedOut' = timedOut,
           upload' \in Nat, upload <= upload',
           m.upload <= upload', m.name = NameOf[m.upload],
           m.type = "part" => m.part \in 1..PartsOf[m.upload],
           Mark(m) = ClientMark,
           ClientMark'[1] \in Nat, ClientMark'[2] \in Nat,
           Less(ClientMark, ClientMark'), Follows(ClientMark, ClientMark')
    PROVE  /\ toServer' \in Seq(Envelope) /\ Wire'
           /\ Online => /\ toServer' = Append(toServer, m)
                        /\ DOMAIN toServer' = 1..(Len(toServer) + 1)
                        /\ toServer'[Len(toServer) + 1] = m
           /\ DOMAIN toServer = 1..Len(toServer) /\ Len(toServer) \in Nat
           /\ \A i \in DOMAIN toServer : i \in DOMAIN toServer' /\ toServer'[i] = toServer[i]
           /\ \A i \in DOMAIN toServer' :
                 toServer'[i] = m \/ (i \in DOMAIN toServer /\ toServer'[i] = toServer[i])
           /\ toServer # <<>> => toServer' # <<>> /\ Head(toServer') = Head(toServer)
           /\ toServer' # <<>> => Cursor' = Cursor
           /\ ~Online => toServer' = toServer
           /\ Online => toServer' # <<>>
<1>1. toServer \in Seq(Envelope) /\ Len(toServer) \in Nat /\ DOMAIN toServer = 1..Len(toServer)
  BY NonEmpty DEF Shape
<1>2. upload \in Nat /\ ClientMark[1] \in Nat /\ ClientMark[2] \in Nat
  BY Uploads, ClientMarks DEF TypeOK
<1>3. \A i \in DOMAIN toServer :
         Mark(toServer[i])[1] \in Nat /\ Mark(toServer[i])[2] \in Nat
  BY Marks DEF Mark
<1>4. \A i \in DOMAIN toServer : Less(Mark(toServer[i]), ClientMark')
  <2> TAKE i \in DOMAIN toServer
  <2>1. Less(Mark(toServer[i]), ClientMark)
    BY DEF Wire
  <2> QED BY <2>1, <1>2, <1>3 DEF Less
<1>5. CASE ~Online
  <2>1. toServer' = toServer
    BY <1>5 DEF Send, Online
  <2>2. Wire'
    <3>1. /\ \A i \in DOMAIN toServer :
                LET k == toServer[i] IN
                /\ k.upload <= upload /\ k.name = NameOf[k.upload]
                /\ k.type = "part" => k.part \in 1..PartsOf[k.upload]
          /\ \A i \in DOMAIN toServer :
                i > 1 => Follows(Mark(toServer[i - 1]), Mark(toServer[i]))
          /\ \A i, j \in DOMAIN toServer :
                i < j => Less(Mark(toServer[i]), Mark(toServer[j]))
          /\ ~connected => toServer = <<>>
      BY DEF Wire
    <3>2. \A i \in DOMAIN toServer : toServer[i].upload <= upload'
      BY <3>1, <1>2, Marks
    <3>3. ~Online'
      BY <1>5 DEF Online
    <3>4. \A a, b : Follows(a, b)' <=> Follows(a, b)
      BY DEF Follows
    <3>5. \A i \in DOMAIN toServer' :
             i > 1 => Follows(Mark(toServer[i - 1]), Mark(toServer[i]))'
      BY <3>1, <2>1, <3>4
    <3> QED BY <3>1, <3>2, <3>3, <3>5, <2>1, <1>4 DEF Wire
  <2>3. toServer # <<>> => Head(toServer') = Head(toServer)
    BY <2>1
  <2>4. toServer' # <<>> => Cursor' = Cursor
    BY <2>1 DEF Cursor
  <2> QED BY <1>1, <1>5, <2>1, <2>2, <2>3, <2>4
<1>6. CASE Online
  <2>1. toServer' = Append(toServer, m)
    BY <1>6 DEF Send, Online
  <2> DEFINE n == Len(toServer)
  <2>2. /\ toServer' \in Seq(Envelope) /\ toServer' # <<>>
        /\ Len(toServer') = n + 1 /\ DOMAIN toServer' = 1..(n + 1)
        /\ \A i \in 1..n : toServer'[i] = toServer[i]
        /\ toServer'[n + 1] = m
    BY <1>1, <2>1, Appended
  <2>3. n \in Nat /\ DOMAIN toServer = 1..n
    BY <1>1
  <2>4. toServer # <<>> <=> n > 0
    BY <1>1, NonEmpty
  <2>5. Head(toServer') = toServer'[1] /\ (toServer # <<>> => Head(toServer) = toServer[1])
    BY <1>1, <2>2, NonEmpty
  <2> HIDE DEF n
  <2>6. \A i \in DOMAIN toServer' : i = n + 1 \/ i \in 1..n
    BY <2>2, <2>3
  <2>7. /\ \A i \in DOMAIN toServer : i \in DOMAIN toServer' /\ toServer'[i] = toServer[i]
        /\ \A i \in DOMAIN toServer' :
              toServer'[i] = m \/ (i \in DOMAIN toServer /\ toServer'[i] = toServer[i])
        /\ toServer # <<>> => Head(toServer') = Head(toServer)
        /\ toServer = <<>> => Head(toServer') = m
    BY <2>2, <2>3, <2>4, <2>5, <2>6
  <2>8. \A i \in DOMAIN toServer' :
           /\ toServer'[i].upload <= upload' /\ toServer'[i].name = NameOf[toServer'[i].upload]
           /\ toServer'[i].type = "part" => toServer'[i].part \in 1..PartsOf[toServer'[i].upload]
    <3>1. \A i \in DOMAIN toServer :
             /\ toServer[i].upload <= upload' /\ toServer[i].name = NameOf[toServer[i].upload]
             /\ toServer[i].type = "part" => toServer[i].part \in 1..PartsOf[toServer[i].upload]
      BY <1>2, Marks DEF Wire
    <3> QED BY <2>7, <3>1
  <2>9. \A i \in DOMAIN toServer' :
           i > 1 => Follows(Mark(toServer'[i - 1]), Mark(toServer'[i]))
    <3> SUFFICES ASSUME NEW i \in 1..(n + 1), i > 1
                 PROVE  Follows(Mark(toServer'[i - 1]), Mark(toServer'[i]))
      BY <2>2
    <3>1. CASE i \in 1..n
      <4>1. i - 1 \in 1..n
        BY <2>3, <3>1
      <4>2. Follows(Mark(toServer[i - 1]), Mark(toServer[i]))
        BY <2>3, <3>1 DEF Wire
      <4> QED BY <4>1, <4>2, <3>1, <2>2
    <3>2. CASE i = n + 1
      <4>1. i - 1 = n /\ n \in 1..n /\ toServer # <<>>
        BY <2>3, <2>4, <3>2
      <4>2. Follows(Mark(toServer[n]), ClientMark)
        BY <1>6, <4>1 DEF Wire, n
      <4> QED BY <4>1, <4>2, <3>2, <2>2
    <3> QED BY <3>1, <3>2, <2>3
  <2>10. \A i, j \in DOMAIN toServer' :
            i < j => Less(Mark(toServer'[i]), Mark(toServer'[j]))
    <3> SUFFICES ASSUME NEW i \in 1..(n + 1), NEW j \in 1..(n + 1), i < j
                 PROVE  Less(Mark(toServer'[i]), Mark(toServer'[j]))
      BY <2>2
    <3>1. i \in 1..n /\ toServer'[i] = toServer[i]
      BY <2>2, <2>3
    <3>2. CASE j \in 1..n
      BY <3>1, <3>2, <2>2, <2>3 DEF Wire
    <3>3. CASE j = n + 1
      BY <3>1, <3>3, <2>2, <2>3 DEF Wire
    <3> QED BY <3>2, <3>3, <2>3
  <2>11. \A i \in DOMAIN toServer' : Less(Mark(toServer'[i]), ClientMark')
    BY <1>4, <2>7
  <2>12. \A a, b : Follows(a, b)' <=> Follows(a, b)
    BY DEF Follows
  <2>13. Follows(Mark(toServer'[Len(toServer')]), ClientMark')
    BY <2>2
  <2>14. Wire'
    <3>1. \A i \in DOMAIN toServer' :
             i > 1 => Follows(Mark(toServer[i - 1]), Mark(toServer[i]))'
      BY <2>9, <2>12
    <3>2. Follows(Mark(toServer[Len(toServer)]), ClientMark)'
      BY <2>12, <2>13
    <3>3. connected'
      BY <1>6 DEF Online
    <3> QED BY <2>8, <3>1, <2>10, <2>11, <3>2, <3>3 DEF Wire
  <2>15. Cursor' = Cursor
    <3>1. CASE toServer # <<>>
      BY <3>1, <2>2, <2>7 DEF Cursor
    <3>2. CASE toServer = <<>>
      BY <3>2, <2>2, <2>7 DEF Cursor
    <3> QED BY <3>1, <3>2
  <2> QED BY <1>6, <2>1, <2>2, <2>3, <2>7, <2>14, <2>15 DEF n
<1> QED BY <1>5, <1>6

(* A client that goes on without a message.                                 *)
LEMMA WireKeeps ==
    ASSUME TypeOK, Shape, Local, Wire, toServer' = toServer,
           connected' \/ toServer = <<>>, Online' => Online,
           upload' \in Nat, upload <= upload', timedOut \subseteq timedOut',
           ClientMark'[1] \in Nat, ClientMark'[2] \in Nat,
           ClientMark' = ClientMark \/ Less(ClientMark, ClientMark'),
           Online /\ toServer # <<>> =>
               Follows(Mark(toServer[Len(toServer)]), ClientMark)'
    PROVE  Wire'
<1>1. upload \in Nat /\ ClientMark[1] \in Nat /\ ClientMark[2] \in Nat
  BY Uploads, ClientMarks DEF TypeOK
<1>2. \A i \in DOMAIN toServer :
         Mark(toServer[i])[1] \in Nat /\ Mark(toServer[i])[2] \in Nat
  BY Marks DEF Mark
<1>3. \A i \in DOMAIN toServer : Less(Mark(toServer[i]), ClientMark')
  <2> TAKE i \in DOMAIN toServer
  <2>1. Less(Mark(toServer[i]), ClientMark)
    BY DEF Wire
  <2> QED BY <2>1, <1>1, <1>2 DEF Less
<1>4. \A a, b : Follows(a, b) => Follows(a, b)'
  BY DEF Follows
<1>5. \A i \in DOMAIN toServer :
         i > 1 => Follows(Mark(toServer[i - 1]), Mark(toServer[i]))'
  BY <1>4 DEF Wire
<1>6. \A i \in DOMAIN toServer :
         LET k == toServer[i] IN
         /\ k.upload <= upload' /\ k.name = NameOf[k.upload]
         /\ k.type = "part" => k.part \in 1..PartsOf[k.upload]
  <2> TAKE i \in DOMAIN toServer
  <2>1. toServer[i].upload \in 1..upload
    BY Marks
  <2> QED BY <2>1, <1>1 DEF Wire
<1> QED BY <1>3, <1>5, <1>6 DEF Wire

(* The receiver thread takes the message at the front: all the others are   *)
(* after it, and the cursor goes to the mark that follows.                  *)
LEMMA WireShrinks ==
    ASSUME TypeOK, Shape, Local, Wire, toServer # <<>>, Taken,
           UNCHANGED <<upload, step, offset, connected, closing, timedOut>>
    PROVE  /\ toServer' \in Seq(Envelope) /\ Wire'
           /\ \A i \in DOMAIN toServer' :
                 /\ i + 1 \in DOMAIN toServer /\ toServer'[i] = toServer[i + 1]
                 /\ Less(Cursor, Mark(toServer'[i]))
           /\ \A i \in DOMAIN toServer :
                 i = 1 \/ (i - 1 \in DOMAIN toServer' /\ toServer'[i - 1] = toServer[i])
           /\ toServer' # <<>> \/ Online' => Follows(Cursor, Cursor')
           /\ Less(Cursor, ClientMark)
           /\ ClientMark' = ClientMark
<1> DEFINE n == Len(toServer)
<1>1. /\ toServer \in Seq(Envelope) /\ n \in Nat /\ DOMAIN toServer = 1..n /\ n > 0
      /\ toServer' \in Seq(Envelope) /\ Len(toServer') = n - 1
      /\ DOMAIN toServer' = 1..(n - 1)
      /\ \A i \in 1..(n - 1) : toServer'[i] = toServer[i + 1]
  BY NonEmpty, Rest DEF Shape, Taken
<1>2. toServer' # <<>> <=> n - 1 > 0
  BY <1>1, NonEmpty
<1>3. toServer' # <<>> => Head(toServer') = toServer[2] /\ 2 \in 1..n
  BY <1>1, <1>2, NonEmpty
<1>4. Cursor = Mark(toServer[1]) /\ 1 \in DOMAIN toServer
  BY <1>1, NonEmpty DEF Cursor
<1>5. ClientMark' = ClientMark /\ (Online' <=> Online)
  BY DEF ClientMark, Online
<1>6. \A a, b : Follows(a, b)' <=> Follows(a, b)
  BY DEF Follows
<1>7. \A i \in DOMAIN toServer : Less(Mark(toServer[i]), ClientMark)
  BY DEF Wire
<1>8. Online => Follows(Mark(toServer[n]), ClientMark)
  BY DEF Wire
<1>9. \A i \in DOMAIN toServer : i > 1 => Follows(Mark(toServer[i - 1]), Mark(toServer[i]))
  BY DEF Wire
<1>10. ~connected => toServer = <<>>
  BY DEF Wire
<1> HIDE DEF n
<1>11. \A i \in DOMAIN toServer' :
          i + 1 \in DOMAIN toServer /\ i + 1 > 1 /\ toServer'[i] = toServer[i + 1]
  BY <1>1
<1>12. \A i \in DOMAIN toServer' : Less(Cursor, Mark(toServer'[i]))
  <2> TAKE i \in DOMAIN toServer'
  <2>1. 1 < i + 1 /\ i + 1 \in DOMAIN toServer /\ 1 \in DOMAIN toServer
    BY <1>1, <1>11
  <2>2. Less(Mark(toServer[1]), Mark(toServer[i + 1]))
    BY <2>1 DEF Wire
  <2> QED BY <2>2, <1>4, <1>11
<1>13. \A i \in DOMAIN toServer :
          i = 1 \/ (i - 1 \in DOMAIN toServer' /\ toServer'[i - 1] = toServer[i])
  <2> SUFFICES ASSUME NEW i \in 1..n, i # 1
               PROVE  i - 1 \in 1..(n - 1) /\ toServer'[i - 1] = toServer[(i - 1) + 1]
    BY <1>1
  <2> QED BY <1>1
<1>14. toServer' # <<>> \/ Online' => Follows(Cursor, Cursor')
  <2>1. CASE toServer' # <<>>
    <3>1. Cursor' = Mark(toServer[2])
      BY <2>1, <1>3 DEF Cursor
    <3>2. Follows(Mark(toServer[2 - 1]), Mark(toServer[2]))
      BY <1>3, <1>9, <2>1, <1>1
    <3> QED BY <3>1, <3>2, <1>4
  <2>2. CASE toServer' = <<>>
    <3>1. Cursor' = ClientMark
      BY <2>2, <1>5 DEF Cursor
    <3>2. n = 1
      BY <1>1, <1>2, <2>2
    <3> QED BY <3>1, <3>2, <1>4, <1>5, <1>8, <2>2
  <2> QED BY <2>1, <2>2
<1>15. Wire'
  <2>1. \A i \in DOMAIN toServer' :
           LET m == toServer'[i] IN
           /\ m.upload <= upload' /\ m.name = NameOf[m.upload]
           /\ m.type = "part" => m.part \in 1..PartsOf[m.upload]
    BY <1>11 DEF Wire
  <2>2. \A i \in DOMAIN toServer' :
           i > 1 => Follows(Mark(toServer[i - 1]), Mark(toServer[i]))'
    <3> SUFFICES ASSUME NEW i \in 1..(n - 1), i > 1
                 PROVE  Follows(Mark(toServer'[i - 1]), Mark(toServer'[i]))
      BY <1>1, <1>6
    <3>1. i - 1 \in 1..(n - 1) /\ (i - 1) + 1 = i /\ i + 1 \in 1..n /\ i + 1 > 1
          /\ (i + 1) - 1 = i
      BY <1>1
    <3>2. toServer'[i - 1] = toServer[i] /\ toServer'[i] = toServer[i + 1]
      BY <3>1, <1>1
    <3>3. Follows(Mark(toServer[(i + 1) - 1]), Mark(toServer[i + 1]))
      BY <3>1, <1>1, <1>9
    <3> QED BY <3>1, <3>2, <3>3
  <2>3. \A i, j \in DOMAIN toServer' :
           i < j => Less(Mark(toServer'[i]), Mark(toServer'[j]))
    <3> SUFFICES ASSUME NEW i \in 1..(n - 1), NEW j \in 1..(n - 1), i < j
                 PROVE  Less(Mark(toServer'[i]), Mark(toServer'[j]))
      BY <1>1
    <3>1. i + 1 < j + 1 /\ i + 1 \in DOMAIN toServer /\ j + 1 \in DOMAIN toServer
      BY <1>1
    <3>2. Less(Mark(toServer[i + 1]), Mark(toServer[j + 1]))
      BY <3>1 DEF Wire
    <3> QED BY <3>2, <1>1
  <2>4. \A i \in DOMAIN toServer' : Less(Mark(toServer'[i]), ClientMark')
    BY <1>5, <1>7, <1>11
  <2>5. Online' /\ toServer' # <<>> => Follows(Mark(toServer[Len(toServer)]), ClientMark)'
    <3>1. toServer' # <<>> => n - 1 \in 1..(n - 1) /\ (n - 1) + 1 = n
      BY <1>1, <1>2
    <3>2. toServer' # <<>> => toServer'[Len(toServer')] = toServer[n]
      BY <1>1, <3>1
    <3> QED BY <3>2, <1>5, <1>6, <1>8
  <2>6. connected'
    BY <1>10
  <2> QED BY <2>1, <2>2, <2>3, <2>4, <2>5, <2>6 DEF Wire
<1> QED BY <1>1, <1>4, <1>5, <1>7, <1>11, <1>12, <1>13, <1>14, <1>15

-----------------------------------------------------------------------------
(* What a step leaves as it was.                                            *)
LEMMA PastStays ==
    ASSUME NEW u, Past(u), upload \in Nat, upload' \in Nat, upload <= upload',
           step' # "idle" => u < upload',
           \A i \in DOMAIN toServer' :
              \/ toServer'[i].upload > u
              \/ \E j \in DOMAIN toServer : toServer'[i] = toServer[j]
    PROVE  Past(u)'
<1>1. u \in 1..upload' /\ \A j \in DOMAIN toServer : toServer[j].upload > u
  BY DEF Past
<1> QED BY <1>1 DEF Past

LEMMA RefusedStays ==
    ASSUME Refused, damaged' = damaged,
           ClientMark[1] \in Nat, ClientMark[2] \in Nat,
           ClientMark'[1] \in Nat, ClientMark'[2] \in Nat,
           ClientMark' = ClientMark \/ Less(ClientMark, ClientMark'),
           \A i \in DOMAIN toServer' :
              \/ Mark(toServer'[i]) = ClientMark
              \/ \E j \in DOMAIN toServer : toServer'[i] = toServer[j]
    PROVE  Refused'
<1> SUFFICES ASSUME NEW d \in damaged
             PROVE  /\ Less(d, ClientMark')
                    /\ \A i \in DOMAIN toServer' : Less(d, Mark(toServer'[i]))
  BY DEF Refused
<1>1. d[1] \in Nat /\ d[2] \in Nat /\ Less(d, ClientMark)
  BY DEF Refused
<1>2. Less(d, ClientMark')
  BY <1>1 DEF Less
<1>3. \A i \in DOMAIN toServer' : Less(d, Mark(toServer'[i]))
  BY <1>1 DEF Refused
<1> QED BY <1>2, <1>3

LEMMA IsOfStays ==
    ASSUME Shape, upload \in Nat, upload' \in Nat, upload <= upload',
           timedOut \subseteq timedOut',
           NEW i \in DOMAIN files, files'[i] = files[i], NEW u \in Nat, IsOf(i, u),
           \A v : Past(v) => Past(v)',
           \A v, parts : Past(v) /\ Stored(parts, v) => Stored(parts, v)'
    PROVE  IsOf(i, u)'
<1>1. files[i].upload \in Nat
  <2>1. files[i] \in FileRecord
    BY NonEmpty DEF Shape
  <2> QED BY <2>1 DEF FileRecord
<1>2. u \in files[i].upload..upload'
  BY <1>1 DEF IsOf
<1> DEFINE parts == files[i].parts
<1>3. Past(u)' /\ Stored(parts, u)'
  BY DEF IsOf
<1> QED BY <1>2, <1>3 DEF IsOf

LEMMA KeptAsIs == \A f : Keeps(f, f)
BY DEF Keeps

LEMMA OverwrittenStays ==
    ASSUME \A i \in DOMAIN files : i \in DOMAIN files' /\ Keeps(files'[i], files[i]),
           NEW i \in DOMAIN files, Overwritten(i)
    PROVE  Overwritten(i)'
BY DEF Overwritten, Keeps

LEMMA ClosedStays ==
    ASSUME Shape, Closed, upload \in Nat, upload' \in Nat, upload <= upload',
           timedOut \subseteq timedOut',
           \A i \in DOMAIN files' :
              files'[i].output = "closed" =>
                  Overwritten(i)' \/ (i \in DOMAIN files /\ files'[i] = files[i]),
           \A i \in DOMAIN files : i \in DOMAIN files' /\ Keeps(files'[i], files[i]),
           \A u : Past(u) => Past(u)',
           \A u, parts : Past(u) /\ Stored(parts, u) => Stored(parts, u)'
    PROVE  Closed'
<1> SUFFICES ASSUME NEW i \in DOMAIN files', files'[i].output = "closed", ~Overwritten(i)'
             PROVE  \E u \in Nat : IsOf(i, u)'
  BY DEF Closed
<1>1. /\ i \in DOMAIN files /\ files'[i] = files[i] /\ files[i].output = "closed"
      /\ ~Overwritten(i)
  BY OverwrittenStays
<1>2. PICK u \in Nat : IsOf(i, u)
  BY <1>1 DEF Closed
<1>3. IsOf(i, u)'
  BY <1>1, <1>2, IsOfStays
<1> QED BY <1>3

LEMMA EndedStays ==
    ASSUME Shape, Ended, upload \in Nat, upload' \in Nat, upload <= upload',
           \A u \in DOMAIN sent : sent'[u] = sent[u], connection \in Nat, connection' \in Nat, connection <= connection',
           \A u \in DOMAIN sent : began'[u] = began[u],
           step' # "idle" => step # "idle" \/ upload' = upload + 1,
           serving' /\ Online' /\ connection' = connection => serving /\ Online,
           \A u \in DOMAIN sent : \A i \in DOMAIN toServer :
              toServer[i].upload = u /\ toServer[i].type = "file-finished" =>
                  \/ \E j \in DOMAIN toServer' : toServer'[j] = toServer[i]
                  \/ connection' > connection
                  \/ ~(serving' /\ Online')
                  \/ began[u] # connection
                  \/ StoredFile(u)',
           \A i \in DOMAIN files :
              files[i].output = "closed" =>
                  \/ i \in DOMAIN files' /\ files'[i] = files[i]
                  \/ \A u : Past(u) => files[i].upload \notin (earlier + 1)..u,
           connection' = connection => earlier' = earlier,
           \A u : Past(u) => Past(u)',
           \A u, parts : Past(u) /\ Stored(parts, u) => Stored(parts, u)'
    PROVE  \A u \in DOMAIN sent : EndedAt(u)'
<1>1. ASSUME NEW u \in DOMAIN sent
      PROVE  /\ u \in 1..upload' /\ sent'[u] <= connection'
             /\ step' # "idle" => u < upload'
  <2>1. u \in 1..upload /\ sent[u] <= connection /\ (step # "idle" => u < upload)
    BY DEF Ended, EndedAt
  <2>2. sent[u] \in Nat
    <3>1. sent[u] \in 1..MaxConnections
      BY DEF Shape
    <3> QED BY <3>1, TransferBounds
  <2> QED BY <2>1, <2>2
<1>2. ASSUME NEW u \in DOMAIN sent,
             sent'[u] = began'[u], sent'[u] = connection', serving', Online'
      PROVE  \/ \E i \in DOMAIN toServer' :
                   toServer'[i].upload = u /\ toServer'[i].type = "file-finished"
             \/ StoredFile(u)'
  <2>1. sent[u] = connection /\ connection' = connection /\ sent[u] = began[u]
    <3>1. sent[u] <= connection
      BY DEF Ended, EndedAt
    <3>3. began'[u] = began[u] /\ sent'[u] = sent[u]
      OBVIOUS
    <3>4. connection' = connection
      BY <3>1, <3>3, <1>2
    <3> QED BY <3>3, <3>4, <1>2
  <2>2. \/ \E i \in DOMAIN toServer :
              toServer[i].upload = u /\ toServer[i].type = "file-finished"
        \/ StoredFile(u)
    BY <1>2, <2>1 DEF Ended, EndedAt
  <2>3. CASE \E i \in DOMAIN toServer :
                toServer[i].upload = u /\ toServer[i].type = "file-finished"
    <3>1. PICK i \in DOMAIN toServer :
                toServer[i].upload = u /\ toServer[i].type = "file-finished"
      BY <2>3
    <3>2. ~(connection' > connection) /\ began[u] = connection
      BY <2>1
    <3>3. (\E j \in DOMAIN toServer' : toServer'[j] = toServer[i]) \/ StoredFile(u)'
      BY <3>1, <3>2, <1>2
    <3> QED BY <3>1, <3>3
  <2>4. CASE StoredFile(u)
    <3>1. PICK i \in DOMAIN files :
             /\ files[i].output = "closed" /\ files[i].upload \in (earlier + 1)..u
             /\ Past(u) /\ Stored(files[i].parts, u)
      BY <2>4 DEF StoredFile
    <3>2. i \in DOMAIN files' /\ files'[i] = files[i] /\ earlier' = earlier
      BY <3>1, <2>1
    <3> DEFINE parts == files[i].parts
    <3>3. Past(u)' /\ Stored(parts, u)'
      BY <3>1
    <3> QED BY <3>1, <3>2, <3>3 DEF StoredFile
  <2> QED BY <2>2, <2>3, <2>4
<1> QED BY <1>1, <1>2 DEF EndedAt

LEMMA TableStays ==
    ASSUME TypeOK, Shape, Local, Wire, Table,
           clientFileReceivers' = clientFileReceivers, files' = files, damaged' = damaged,
           connection' = connection, Cursor' = Cursor, timedOut \subseteq timedOut',
           Online' => Online, \A u \in 1..upload : began'[u] = began[u]
    PROVE  Table'
<1>1. Cursor[2] > 0 => Cursor[1] \in 1..upload
  BY Cursors
<1>2. \A n \in DOMAIN clientFileReceivers : Entry(n)'
  <2> TAKE n \in DOMAIN clientFileReceivers
  <2>1. Entry(n)
    BY DEF Table
  <2> QED BY <2>1 DEF Entry, Holds
<1>3. Online' /\ Cursor'[2] > 0 /\ began'[Cursor'[1]] = connection' =>
          NameOf[Cursor'[1]] \in DOMAIN clientFileReceivers'
  BY <1>1 DEF Table
<1> QED BY <1>2, <1>3 DEF Table

(* A file that holds nothing of an upload is empty, and an empty one holds  *)
(* nothing of each.                                                         *)
LEMMA HoldsNothing ==
    /\ \A u : Holds(<<>>, u, 0)
    /\ \A u : \A parts \in Seq(Nat \X Nat) : Holds(parts, u, 0) => parts = <<>>
<1>1. ASSUME NEW u PROVE Holds(<<>>, u, 0)
  <2>1. DOMAIN <<>> = {} /\ 1..0 = {}
    BY Nothing
  <2>2. {<<>>[i] : i \in DOMAIN <<>>} = {} /\ {<<u, p>> : p \in 1..0} = {}
    BY <2>1
  <2> QED BY <2>1, <2>2 DEF Holds
<1>2. ASSUME NEW parts \in Seq(Nat \X Nat), NEW u, Holds(parts, u, 0)
      PROVE  parts = <<>>
  <2>1. {parts[i] : i \in DOMAIN parts} = {}
    BY <1>2 DEF Holds
  <2>2. DOMAIN parts = {}
    BY <2>1
  <2>3. /\ Len(parts) \in Nat /\ DOMAIN parts = 1..Len(parts)
        /\ parts # <<>> <=> Len(parts) > 0
    BY NonEmpty
  <2>4. ~(Len(parts) > 0)
    BY <2>2, <2>3
  <2> QED BY <2>3, <2>4
<1> QED BY <1>1, <1>2

-----------------------------------------------------------------------------
(* The actions.                                                             *)
LEMMA Initially == Init => IInv
<1> SUFFICES ASSUME Init PROVE IInv
  OBVIOUS
<1>1. /\ upload = 0 /\ step = "idle" /\ ~fileAccepted /\ ~acknowledged /\ offset = 0
      /\ connected /\ connection = 1 /\ toServer = <<>> /\ serving
      /\ clientFileReceivers = <<>> /\ files = <<>> /\ ~downloading /\ closing = "no"
      /\ repaired = {} /\ timedOut = {} /\ began = <<>> /\ sent = <<>> /\ faults = 0
      /\ earlier = 0
  BY DEF Init
<1>2. TypeOK
  BY <1>1, Uploads, TransferBounds DEF TypeOK
<1>3. Shape
  <2>1. <<>> \in Seq(Nat) /\ <<>> \in Seq(FileRecord) /\ <<>> \in Seq(Envelope)
    OBVIOUS
  <2>2. DOMAIN <<>> = {}
    BY Nothing
  <2>3. /\ downloading \in BOOLEAN /\ serving \in BOOLEAN /\ connected \in BOOLEAN
        /\ acknowledged \in BOOLEAN /\ fileAccepted \in BOOLEAN
    BY DEF Init
  <2> QED BY <1>1, <2>1, <2>2, <2>3 DEF Shape
<1>4. Local
  BY <1>1 DEF Local
<1>5. Wire
  BY <1>1 DEF Wire
<1>6. Closed /\ Ended /\ Refused
  BY <1>1 DEF Closed, Ended, Refused, Init
<1>7. Table
  BY <1>1 DEF Table, Cursor, ClientMark
<1>8. Fresh /\ FreshTable
  BY <1>1, Nothing DEF Fresh, FreshTable
<1> QED BY <1>2, <1>3, <1>4, <1>5, <1>6, <1>7, <1>8 DEF IInv

LEMMA Numbers ==
    ASSUME TypeOK
    PROVE  upload \in Nat /\ connection \in Nat /\ MaxConnections \in Nat /\ earlier \in Nat
BY Uploads, TransferBounds DEF TypeOK

(* A step of the client, or of the connection, that sends nothing.          *)
LEMMA QuietStep ==
    ASSUME IInv, UNCHANGED <<upload, offset, connected, connection, serving,
                             clientFileReceivers, files, closing, began, sent, damaged,
                             toServer, faults, downloading, repaired, earlier>>,
           timedOut' \in {timedOut, timedOut \cup {upload}},
           timedOut' # timedOut => step = "asked" /\ step' = "idle",
           TypeOK', Shape', Local', ClientMark' = ClientMark \/ timedOut' # timedOut,
           step' # "idle" => step # "idle"
    PROVE  IInv'
<1> USE DEF IInv
<1>1. upload \in Nat /\ connection \in Nat
  BY Numbers
<1>2. \A u : Past(u) => Past(u)'
  <2> SUFFICES ASSUME NEW u, Past(u) PROVE Past(u)'
    OBVIOUS
  <2>1. step' # "idle" => u < upload'
    BY DEF Past
  <2> QED BY <2>1, <1>1, PastStays
<1>3. \A u, parts : Past(u) /\ Stored(parts, u) => Stored(parts, u)'
  BY DEF Stored, Holds
<1>4. timedOut \subseteq timedOut'
  OBVIOUS
<1>5. Closed'
  BY <1>1, <1>2, <1>3, <1>4, KeptAsIs, ClosedStays
<1>9. Fresh' /\ FreshTable'
  BY DEF Fresh, FreshTable
<1>6. Ended'
  <2>1. /\ (Online' <=> Online)
        /\ \A u \in DOMAIN began' : began'[u] <= connection'
    BY DEF Ended, Online
  <2>2. \A u \in DOMAIN sent : EndedAt(u)'
    BY <1>1, <1>2, <1>3, <2>1, EndedStays
  <2> QED BY <2>1, <2>2 DEF Ended
<1>7. CASE timedOut' = timedOut
  <2>1. ClientMark' = ClientMark /\ (Online' <=> Online)
    BY <1>7 DEF Online
  <2>2. Wire'
    <3>1. Online /\ toServer # <<>> =>
              Follows(Mark(toServer[Len(toServer)]), ClientMark)
      BY DEF Wire
    <3>2. Online /\ toServer # <<>> =>
              Follows(Mark(toServer[Len(toServer)]), ClientMark)'
      BY <3>1, <2>1, <1>7 DEF Follows
    <3>3. connected' \/ toServer = <<>>
      BY DEF Wire
    <3> QED BY <1>1, <2>1, <3>2, <3>3, <1>4, ClientMarks, WireKeeps
  <2>5. Refused'
    BY <2>1, ClientMarks, RefusedStays
  <2>3. Cursor' = Cursor /\ (Live' <=> Live)
    BY <2>1 DEF Cursor, Live
  <2>4. Live' => Table'
    BY <2>1, <2>3, <1>4, TableStays
  <2> QED BY <2>2, <2>4, <2>5, <1>5, <1>6, <1>9
<1>8. CASE timedOut' = timedOut \cup {upload} /\ timedOut' # timedOut
  <2>1. step = "asked" /\ step' = "idle" /\ upload' = upload
    BY <1>8
  <2>2. /\ ClientMark = <<upload, 1>> /\ ClientMark' = <<upload + 1, 0>>
        /\ (Online' <=> Online)
    BY <2>1 DEF ClientMark, Online
  <2>5. Less(ClientMark, ClientMark') /\ ClientMark'[1] \in Nat /\ ClientMark'[2] \in Nat
    BY <2>2, <1>1 DEF Less
  <2>3. Wire'
    <3>1. Online /\ toServer # <<>> =>
              Follows(Mark(toServer[Len(toServer)]), ClientMark)'
      <4> SUFFICES ASSUME Online, toServer # <<>>
                   PROVE  Follows(Mark(toServer[Len(toServer)]), ClientMark)'
        OBVIOUS
      <4> DEFINE a == Mark(toServer[Len(toServer)])
      <4>1. Follows(a, <<upload, 1>>)
        BY <2>2 DEF Wire
      <4>2. Len(toServer) \in DOMAIN toServer
        BY NonEmpty DEF Shape
      <4>3. a[1] \in Nat /\ a[2] \in Nat /\ a = <<a[1], a[2]>>
        BY <4>2, Marks DEF Mark
      <4>0. a' = a
        OBVIOUS
      <4> HIDE DEF a
      <4>4. a[1] = upload /\ a[2] = 0
        BY <4>1, <4>3, <1>1 DEF Follows
      <4>5. Follows(a, <<upload + 1, 0>>)'
        BY <4>0, <4>3, <4>4, <1>1, <1>8 DEF Follows
      <4> QED BY <4>5, <2>2 DEF a
    <3>2. connected' \/ toServer = <<>>
      BY DEF Wire
    <3> QED BY <1>1, <2>2, <3>1, <3>2, <2>5, <1>4, WireKeeps
  <2>6. Refused'
    BY <2>5, ClientMarks, RefusedStays
  <2>4. Live' => Table'
    <3>1. (Live' <=> Live)
      BY <2>2 DEF Live
    <3>2. CASE toServer # <<>>
      <4>1. Cursor' = Cursor
        BY <3>2 DEF Cursor
      <4> QED BY <3>1, <4>1, <2>2, <1>4, TableStays
    <3>3. CASE toServer = <<>> /\ Live
      <4>1. Cursor = <<upload, 1>> /\ Cursor' = <<upload + 1, 0>>
        BY <3>3, <2>2 DEF Cursor
      <4>2. ASSUME NEW n \in DOMAIN clientFileReceivers
            PROVE  Entry(n)'
        <5> DEFINE f == files[clientFileReceivers[n]]
        <5>1. f \in FileRecord
          BY NonEmpty DEF Shape
        <5>2. f.upload \in Nat /\ f.parts \in Seq(Nat \X Nat)
          BY <5>1 DEF FileRecord
        <5>3. Entry(n)
          BY <3>3 DEF Table
        <5>4. f.upload <= upload /\ (f.upload < upload => f.upload \in timedOut)
          BY <5>3, <4>1 DEF Entry
        <5>5. f.parts = <<>>
          <6>1. CASE NameOf[upload] = n
            <7>1. Holds(f.parts, upload, 0)
              BY <6>1, <5>3, <4>1 DEF Entry
            <7> QED BY <7>1, <5>2, HoldsNothing
          <6>2. CASE NameOf[upload] # n
            BY <6>2, <5>3, <4>1 DEF Entry
          <6> QED BY <6>1, <6>2
        <5> HIDE DEF f
        <5>6. /\ f.upload <= upload + 1 /\ f.upload # upload + 1
              /\ f.upload < upload + 1 => f.upload \in timedOut'
          BY <5>2, <5>4, <1>1, <1>8
        <5> QED BY <5>5, <5>6, <4>1 DEF Entry, f
      <4> QED BY <4>1, <4>2 DEF Table
    <3> QED BY <3>1, <3>2, <3>3
  <2> QED BY <2>3, <2>4, <2>6, <1>5, <1>6, <1>9
<1> QED BY <1>7, <1>8

LEMMA AcceptKeeps == IInv /\ onReceiveFileAcceptEvent => IInv'
<1> SUFFICES ASSUME IInv, onReceiveFileAcceptEvent PROVE IInv'
  OBVIOUS
<1> USE DEF IInv
<1>1. /\ UNCHANGED <<upload, step, offset, connected, connection, serving,
                     clientFileReceivers, files, closing, began, sent, damaged,
                     toServer, faults, downloading, repaired, timedOut, earlier>>
      /\ \/ UNCHANGED <<fileAccepted, acknowledged>>
         \/ fileAccepted' = TRUE /\ acknowledged' = TRUE
  BY DEF onReceiveFileAcceptEvent, serverVars, historyVars
<1>2. TypeOK' /\ Shape' /\ Local'
  BY <1>1 DEF TypeOK, Shape, Local
<1>3. ClientMark' = ClientMark
  BY <1>1 DEF ClientMark
<1> QED BY <1>1, <1>2, <1>3, QuietStep

LEMMA AcknowledgedKeeps == IInv /\ Acknowledged => IInv'
<1> SUFFICES ASSUME IInv, Acknowledged PROVE IInv'
  OBVIOUS
<1> USE DEF IInv
<1>1. /\ UNCHANGED <<upload, fileAccepted, offset, connected, connection, serving,
                     clientFileReceivers, files, closing, began, sent, damaged,
                     toServer, faults, downloading, repaired, timedOut, earlier>>
      /\ step = "asked" /\ fileAccepted /\ step' = "sending" /\ acknowledged' = FALSE
  BY DEF Acknowledged, wireVars, serverVars, historyVars
<1>2. TypeOK' /\ Shape' /\ Local'
  BY <1>1 DEF TypeOK, Shape, Local
<1>3. ClientMark' = ClientMark
  BY <1>1 DEF ClientMark, Local
<1> QED BY <1>1, <1>2, <1>3, QuietStep

LEMMA TimeOutKeeps == IInv /\ TimeOut => IInv'
<1> SUFFICES ASSUME IInv, TimeOut PROVE IInv'
  OBVIOUS
<1> USE DEF IInv
<1>1. /\ UNCHANGED <<upload, fileAccepted, acknowledged, offset, connected, connection,
                     serving, clientFileReceivers, files, closing, began, sent, damaged,
                     toServer, faults, downloading, repaired, earlier>>
      /\ step = "asked" /\ step' = "idle" /\ timedOut' = timedOut \cup {upload}
  BY DEF TimeOut, wireVars, serverVars
<1>2. upload \in 1..upload /\ upload \notin timedOut
  BY <1>1, Numbers DEF Local
<1>3. TypeOK' /\ Shape' /\ Local'
  BY <1>1, <1>2 DEF TypeOK, Shape, Local
<1>4. timedOut' # timedOut
  BY <1>1, <1>2
<1> QED BY <1>1, <1>3, <1>4, QuietStep

(* A step of the client that sends a message m.                             *)
LEMMA SendStep ==
    ASSUME IInv, NEW m \in Envelope, Send(m),
           UNCHANGED <<connected, connection, serving, clientFileReceivers, files,
                       closing, damaged, timedOut, earlier>>,
           \/ step = "idle" /\ upload' = upload + 1
           \/ step # "idle" /\ upload' = upload,
           m.upload = upload', m.name = NameOf[m.upload],
           m.type = "part" => m.part \in 1..PartsOf[m.upload],
           Mark(m) = ClientMark, Follows(ClientMark, ClientMark'),
           Less(ClientMark, ClientMark'),
           ClientMark'[1] \in Nat, ClientMark'[2] \in Nat,
           \A u \in 1..upload : began'[u] = began[u],
           \A u \in DOMAIN sent : sent'[u] = sent[u],
           \A u, v \in (earlier + 1)..upload' : PathOf[u] = PathOf[v] => u = v
    PROVE  /\ toServer' \in Seq(Envelope) /\ Wire' /\ Refused' /\ Closed'
           /\ Fresh' /\ FreshTable'
           /\ \A u \in DOMAIN sent : EndedAt(u)'
           /\ Live' => Table'
<1> USE DEF IInv
<1>1. upload \in Nat /\ upload' \in Nat /\ upload <= upload' /\ connection \in Nat
  BY Numbers
<1>2. /\ toServer' \in Seq(Envelope) /\ Wire'
      /\ \A i \in DOMAIN toServer : i \in DOMAIN toServer' /\ toServer'[i] = toServer[i]
      /\ \A i \in DOMAIN toServer' :
            toServer'[i] = m \/ (i \in DOMAIN toServer /\ toServer'[i] = toServer[i])
      /\ toServer' # <<>> => Cursor' = Cursor
      /\ ~Online => toServer' = toServer
      /\ Online => toServer' # <<>>
  <2>1. m.upload <= upload'
    BY <1>1
  <2> QED BY <1>1, <2>1, WireGrows
<1>3. Online' <=> Online
  BY DEF Online
<1>4. \A u : Past(u) => Past(u)' /\ u < m.upload
  <2> SUFFICES ASSUME NEW u, Past(u) PROVE Past(u)' /\ u < m.upload
    OBVIOUS
  <2>1. u \in 1..upload /\ (step # "idle" => u < upload)
    BY DEF Past
  <2>2. u < upload'
    BY <1>1, <2>1
  <2>3. \A i \in DOMAIN toServer' :
           \/ toServer'[i].upload > u
           \/ \E j \in DOMAIN toServer : toServer'[i] = toServer[j]
    BY <1>2, <2>2
  <2> QED BY <1>1, <2>2, <2>3, PastStays
<1>5. \A u, parts : Past(u) /\ Stored(parts, u) => Stored(parts, u)'
  BY DEF Stored, Holds
<1>6. Closed'
  BY <1>1, <1>4, <1>5, KeptAsIs, ClosedStays
<1>10. Fresh' /\ FreshTable'
  <2>1. earlier \in Nat /\ earlier <= upload
    BY Numbers DEF TypeOK
  <2>2. m.upload > earlier /\ upload' > earlier
    BY <1>1, <2>1 DEF Fresh
  <2>3. \A i \in DOMAIN toServer' : toServer'[i].upload > earlier
    BY <1>2, <2>2 DEF Fresh
  <2> QED BY <2>2, <2>3 DEF Fresh, FreshTable
<1>7. \A u \in DOMAIN sent : EndedAt(u)'
  <2>1. \A u \in DOMAIN sent : began'[u] = began[u]
    BY DEF Ended, EndedAt
  <2>2. step' # "idle" => step # "idle" \/ upload' = upload + 1
    OBVIOUS
  <2> QED BY <1>1, <1>2, <1>3, <1>4, <1>5, <2>1, <2>2, EndedStays
<1>8. Live' => Table'
  <2> SUFFICES ASSUME Live' PROVE Table'
    OBVIOUS
  <2>1. serving /\ (toServer' # <<>> \/ Online)
    BY <1>3 DEF Live
  <2>2. toServer' # <<>> /\ Cursor' = Cursor
    BY <2>1, <1>2
  <2>3. Live
    BY <2>1, <2>2, <1>2 DEF Live
  <2> QED BY <1>3, <2>2, <2>3, TableStays
<1>9. Refused'
  BY <1>2, ClientMarks, RefusedStays
<1> QED BY <1>2, <1>6, <1>7, <1>8, <1>9, <1>10

LEMMA SendFileKeeps == IInv /\ SendFile => IInv'
<1> SUFFICES ASSUME IInv, SendFile PROVE IInv'
  OBVIOUS
<1> USE DEF IInv
<1> DEFINE u == upload + 1
<1>1. /\ UNCHANGED <<connected, connection, serving, clientFileReceivers, files,
                     closing, damaged, timedOut, sent, earlier, faults, downloading,
                     repaired>>
      /\ step = "idle" /\ u \in Upload /\ upload' = u
      /\ fileAccepted' = FALSE /\ acknowledged' = FALSE /\ offset' = 0
      /\ \A v \in (earlier + 1)..upload : PathOf[v] # PathOf[u]
  BY DEF SendFile, serverVars
<1>2. /\ upload \in Nat /\ u \in Nat /\ connection \in Nat /\ PartsOf[u] \in Nat
      /\ u <= Len(NameOf) /\ began \in Seq(Nat) /\ Len(began) = upload
  BY <1>1, Numbers, Uploads DEF TypeOK, Shape
<1>3. ClientMark = <<u, 0>>
  BY <1>1 DEF ClientMark
<1>4. ASSUME NEW c \in Nat, c <= connection, began' = Append(began, c)
      PROVE  /\ began' \in Seq(Nat) /\ Len(began') = upload'
             /\ \A v \in 1..upload : began'[v] = began[v]
             /\ \A v \in DOMAIN began' : began'[v] <= connection'
  <2>1. /\ began' \in Seq(Nat) /\ Len(began') = Len(began) + 1
        /\ DOMAIN began' = 1..(Len(began) + 1)
        /\ \A v \in 1..Len(began) : began'[v] = began[v]
        /\ began'[Len(began) + 1] = c
    BY <1>2, <1>4, Appended
  <2>2. DOMAIN began = 1..upload /\ \A v \in DOMAIN began : began[v] <= connection
    BY <1>2, NonEmpty DEF Ended
  <2>3. \A v \in 1..(upload + 1) : v \in 1..upload \/ v = upload + 1
    BY <1>2
  <2>4. \A v \in DOMAIN began' : began'[v] <= connection
    BY <2>1, <2>2, <2>3, <1>2, <1>4
  <2> QED BY <1>1, <1>2, <2>1, <2>4
<1>5. \A v : Past(v) => v \in Nat /\ v <= upload
  BY <1>2 DEF Past
<1>9. \A v, w \in (earlier + 1)..upload' : PathOf[v] = PathOf[w] => v = w
  <2>1. earlier \in Nat /\ earlier <= upload
    BY Numbers DEF TypeOK
  <2>2. \A v \in (earlier + 1)..upload' : v = u \/ v \in (earlier + 1)..upload
    BY <1>1, <1>2, <2>1
  <2>3. \A v, w \in (earlier + 1)..upload : PathOf[v] = PathOf[w] => v = w
    BY DEF Fresh
  <2> QED BY <1>1, <2>2, <2>3
<1>6. /\ timedOut' \subseteq 1..upload' /\ upload' \in 0..Len(NameOf)
      /\ 0 \in 0..PartsOf[upload']
      /\ upload' \notin timedOut' /\ upload' > 0
  BY <1>1, <1>2 DEF TypeOK
<1>7. CASE connected /\ step' = "asked" /\ Send(Message("file", u, 0))
           /\ began' = Append(began, connection)
  <2> DEFINE m == Message("file", u, 0)
  <2>1. /\ m \in Envelope /\ m.upload = u /\ m.type = "file" /\ m.name = NameOf[u]
        /\ Mark(m) = <<u, 0>>
    BY <1>1 DEF Message, Envelope, Mark, Rank, Kind
  <2>2. ClientMark' = <<u, 1>>
    BY <1>7, <1>1 DEF ClientMark
  <2>3. began' \in Seq(Nat) /\ Len(began') = upload'
        /\ (\A v \in 1..upload : began'[v] = began[v])
        /\ (\A v \in DOMAIN began' : began'[v] <= connection')
    BY <1>4, <1>7, <1>2
  <2>4. Follows(ClientMark, ClientMark') /\ Less(ClientMark, ClientMark')
    BY <1>2, <1>3, <2>2 DEF Follows, Less
  <2>5. ClientMark'[1] \in Nat /\ ClientMark'[2] \in Nat /\ Send(m)
    BY <2>2, <1>2, <1>7
  <2> HIDE DEF m
  <2>6. /\ toServer' \in Seq(Envelope) /\ Wire' /\ Refused' /\ Closed'
        /\ Fresh' /\ FreshTable'
        /\ \A v \in DOMAIN sent : EndedAt(v)'
        /\ Live' => Table'
    BY <1>1, <1>3, <1>9, <2>1, <2>3, <2>4, <2>5, SendStep
  <2>7. TypeOK'
    BY <1>1, <1>6, <1>7, <2>3 DEF TypeOK
  <2>8. Shape'
    BY <1>1, <2>3, <2>6 DEF Shape
  <2>9. Local'
    BY <1>1, <1>6, <1>7 DEF Local
  <2>10. Ended'
    BY <1>1, <2>3, <2>6 DEF Ended
  <2> QED BY <2>6, <2>7, <2>8, <2>9, <2>10
<1>8. CASE step' = "idle" /\ toServer' = toServer /\ began' = Append(began, 0)
  <2>1. ClientMark' = <<u + 1, 0>> /\ (Online' <=> Online)
    BY <1>8, <1>1 DEF ClientMark, Online
  <2>2. began' \in Seq(Nat) /\ Len(began') = upload'
        /\ (\A v \in 1..upload : began'[v] = began[v])
        /\ (\A v \in DOMAIN began' : began'[v] <= connection')
    BY <1>4, <1>8, <1>2
  <2>3. \A v : Past(v) => Past(v)'
    <3> SUFFICES ASSUME NEW v, Past(v) PROVE Past(v)'
      OBVIOUS
    <3> QED BY <1>1, <1>2, <1>8, PastStays
  <2>4. \A v, parts : Past(v) /\ Stored(parts, v) => Stored(parts, v)'
    BY <1>1 DEF Stored, Holds
  <2>5. Closed'
    BY <1>1, <1>2, <2>3, <2>4, KeptAsIs, ClosedStays
  <2>14. Fresh' /\ FreshTable'
    BY <1>1, <1>8, <1>9 DEF Fresh, FreshTable
  <2>6. Ended'
    <3>1. \A v \in DOMAIN sent : began'[v] = began[v]
      BY <2>2 DEF Ended, EndedAt
    <3>2. \A v \in DOMAIN sent : EndedAt(v)'
      <4>1. /\ upload' \in Nat /\ upload <= upload' /\ connection' \in Nat
            /\ connection <= connection' /\ step' = "idle" /\ earlier' = earlier
            /\ \A v \in DOMAIN sent : sent'[v] = sent[v]
        BY <1>1, <1>2, <1>8
      <4>2. /\ \A v \in DOMAIN sent : \A i \in DOMAIN toServer :
                  \E j \in DOMAIN toServer' : toServer'[j] = toServer[i]
            /\ serving' /\ Online' => serving /\ Online
        BY <1>1, <1>8, <2>1
      <4>3. \A i \in DOMAIN files : i \in DOMAIN files' /\ files'[i] = files[i]
        BY <1>1
      <4> HIDE DEF u
      <4> QED BY <1>2, <2>3, <2>4, <3>1, <4>1, <4>2, <4>3, EndedStays
    <3> QED BY <1>1, <2>2, <3>2 DEF Ended
  <2>12. Less(ClientMark, ClientMark') /\ ClientMark'[1] \in Nat /\ ClientMark'[2] \in Nat
    BY <1>2, <1>3, <2>1 DEF Less
  <2>13. Refused'
    BY <1>1, <1>8, <2>12, ClientMarks, RefusedStays
  <2>7. Wire'
    <3>2. Online /\ toServer # <<>> =>
              Follows(Mark(toServer[Len(toServer)]), ClientMark)'
      <4> SUFFICES ASSUME Online, toServer # <<>>
                   PROVE  Follows(Mark(toServer[Len(toServer)]), ClientMark)'
        OBVIOUS
      <4> DEFINE a == Mark(toServer[Len(toServer)])
      <4>1. Follows(a, <<u, 0>>)
        BY <1>3 DEF Wire
      <4>2. Len(toServer) \in DOMAIN toServer
        BY NonEmpty DEF Shape
      <4>3. a[1] \in Nat /\ a[2] \in Nat /\ a = <<a[1], a[2]>>
        BY <4>2, Marks DEF Mark
      <4>4. a' = a
        BY <1>8
      <4> HIDE DEF a, u
      <4>5. Follows(a, <<u + 1, 0>>)
        BY <4>1, <4>3, <1>2 DEF Follows
      <4> QED BY <4>4, <4>5, <1>1, <2>1 DEF a, Follows
    <3>3. connected' \/ toServer = <<>>
      BY <1>1 DEF Wire
    <3> QED BY <1>1, <1>2, <1>8, <2>1, <2>12, <3>2, <3>3, WireKeeps
  <2>8. Live' => Table'
    <3>1. Live' <=> Live
      BY <1>1, <1>8, <2>1 DEF Live
    <3>2. CASE toServer # <<>>
      <4>1. Cursor' = Cursor
        BY <1>8, <3>2 DEF Cursor
      <4> QED BY <1>1, <2>1, <2>2, <3>1, <4>1, TableStays
    <3>3. CASE toServer = <<>> /\ Live
      <4>1. Cursor = <<u, 0>> /\ Cursor' = <<u + 1, 0>>
        BY <1>3, <1>8, <2>1, <3>3 DEF Cursor
      <4>2. ASSUME NEW n \in DOMAIN clientFileReceivers
            PROVE  Entry(n)'
        <5> DEFINE f == files[clientFileReceivers[n]]
        <5>1. Entry(n)
          BY <3>3 DEF Table
        <5>2. f.upload <= u /\ f.upload # u /\ (f.upload < u => f.upload \in timedOut)
              /\ f.parts = <<>>
          BY <4>1, <5>1 DEF Entry
        <5>3. f.upload \in Nat
          <6>1. f \in FileRecord
            BY NonEmpty DEF Shape
          <6> QED BY <6>1 DEF FileRecord
        <5>4. f.upload <= u + 1 /\ f.upload # u + 1 /\ f.upload \in timedOut
          <6> HIDE DEF f, u
          <6> QED BY <5>2, <5>3, <1>2
        <5> QED BY <1>1, <4>1, <5>2, <5>4 DEF Entry, f
      <4> QED BY <1>1, <4>1, <4>2 DEF Table
    <3> QED BY <3>1, <3>2, <3>3
  <2>9. TypeOK'
    BY <1>1, <1>6, <1>8, <2>2 DEF TypeOK
  <2>10. Shape'
    BY <1>1, <1>8, <2>2 DEF Shape
  <2>11. Local'
    BY <1>1, <1>8 DEF Local
  <2> QED BY <2>5, <2>6, <2>7, <2>8, <2>9, <2>10, <2>11, <2>13, <2>14
<1> QED BY <1>7, <1>8 DEF SendFile

LEMMA PartKeeps == IInv /\ sendFilePart => IInv'
<1> SUFFICES ASSUME IInv, sendFilePart PROVE IInv'
  OBVIOUS
<1> USE DEF IInv
<1> DEFINE m == Message("part", upload, offset + 1)
<1>1. /\ UNCHANGED <<upload, step, fileAccepted, acknowledged, connected, connection,
                     serving, clientFileReceivers, files, closing, began, sent, damaged,
                     faults, downloading, repaired, timedOut, earlier>>
      /\ step = "sending" /\ offset < PartsOf[upload] /\ Send(m) /\ offset' = offset + 1
  BY DEF sendFilePart, serverVars, historyVars
<1>2. /\ upload \in Nat /\ offset \in Nat /\ upload \in Upload /\ PartsOf[upload] \in Nat
      /\ connection \in Nat
  BY <1>1, Numbers, ClientMarks DEF Shape
<1>3. /\ m \in Envelope /\ m.upload = upload /\ m.type = "part" /\ m.name = NameOf[upload]
      /\ m.part = offset + 1 /\ Mark(m) = <<upload, offset + 1>>
  BY <1>2 DEF Message, Envelope, Mark, Rank, Kind
<1>4. ClientMark = <<upload, offset + 1>> /\ ClientMark' = <<upload, (offset + 1) + 1>>
  BY <1>1 DEF ClientMark
<1> HIDE DEF m
<1>5. /\ Follows(ClientMark, ClientMark') /\ Less(ClientMark, ClientMark')
      /\ ClientMark'[1] \in Nat /\ ClientMark'[2] \in Nat
      /\ offset + 1 \in 1..PartsOf[upload] /\ offset' \in 0..PartsOf[upload]
  BY <1>1, <1>2, <1>4 DEF Follows, Less
<1>6. /\ toServer' \in Seq(Envelope) /\ Wire' /\ Refused' /\ Closed'
      /\ Fresh' /\ FreshTable'
      /\ \A v \in DOMAIN sent : EndedAt(v)'
      /\ Live' => Table'
  BY <1>1, <1>3, <1>4, <1>5, SendStep DEF Fresh
<1>7. TypeOK' /\ Shape' /\ Local'
  BY <1>1, <1>2, <1>5, <1>6 DEF TypeOK, Shape, Local
<1>8. Ended'
  BY <1>1, <1>6 DEF Ended
<1> QED BY <1>6, <1>7, <1>8

LEMMA FinishedKeeps == IInv /\ SendFinished => IInv'
<1> SUFFICES ASSUME IInv, SendFinished PROVE IInv'
  OBVIOUS
<1> USE DEF IInv
<1> DEFINE m == Message("file-finished", upload, 0)
<1>1. /\ UNCHANGED <<upload, fileAccepted, acknowledged, offset, connected, connection,
                     serving, clientFileReceivers, files, closing, began, damaged,
                     faults, downloading, repaired, timedOut, earlier>>
      /\ step = "sending" /\ offset = PartsOf[upload] /\ Send(m) /\ step' = "idle"
      /\ sent' = Put(sent, upload, connection)
  BY DEF SendFinished, serverVars
<1>2. /\ upload \in Nat /\ offset \in Nat /\ upload \in Upload /\ PartsOf[upload] \in Nat
      /\ connection \in Nat /\ connection \in 1..MaxConnections /\ upload \in 1..upload
  BY <1>1, Numbers, ClientMarks DEF Shape, TypeOK, Local
<1>3. /\ m \in Envelope /\ m.upload = upload /\ m.type = "file-finished"
      /\ m.name = NameOf[upload] /\ Mark(m) = <<upload, PartsOf[upload] + 1>>
  BY <1>2 DEF Message, Envelope, Mark, Rank, Kind
<1>4. ClientMark = <<upload, PartsOf[upload] + 1>> /\ ClientMark' = <<upload + 1, 0>>
  BY <1>1 DEF ClientMark
<1> HIDE DEF m
<1>5. /\ Follows(ClientMark, ClientMark') /\ Less(ClientMark, ClientMark')
      /\ ClientMark'[1] \in Nat /\ ClientMark'[2] \in Nat
  BY <1>1, <1>2, <1>4 DEF Follows, Less
<1>6. /\ DOMAIN sent' = DOMAIN sent \cup {upload} /\ sent'[upload] = connection
      /\ \A v \in DOMAIN sent : v # upload => sent'[v] = sent[v]
  <2>1. sent' = Put(sent, upload, connection)
    BY <1>1
  <2> QED BY <2>1 DEF Put
<1>7. upload \notin DOMAIN sent
  BY <1>1, <1>2 DEF Ended, EndedAt
<1>8. \A v \in DOMAIN sent : sent'[v] = sent[v]
  BY <1>6, <1>7
<1>9. /\ toServer' \in Seq(Envelope) /\ Wire' /\ Refused' /\ Closed'
      /\ Fresh' /\ FreshTable'
      /\ \A v \in DOMAIN sent : EndedAt(v)'
      /\ Live' => Table'
  BY <1>1, <1>3, <1>4, <1>5, <1>8, SendStep DEF Fresh
<1>10. EndedAt(upload)'
  <2>1. Online' => \E i \in DOMAIN toServer' : toServer'[i] = m
    <3> SUFFICES ASSUME Online' PROVE \E i \in DOMAIN toServer' : toServer'[i] = m
      OBVIOUS
    <3>1. toServer' = Append(toServer, m)
      BY <1>1 DEF Send, Online
    <3>2. toServer \in Seq(Envelope)
      BY DEF Shape
    <3>3. /\ Len(toServer) + 1 \in 1..(Len(toServer) + 1)
          /\ DOMAIN toServer' = 1..(Len(toServer) + 1)
          /\ toServer'[Len(toServer) + 1] = m
      BY <1>3, <3>1, <3>2, Appended, NonEmpty
    <3> QED BY <3>3
  <2>2. upload' \in 1..upload' /\ sent'[upload'] <= connection' /\ step' = "idle"
    BY <1>1, <1>2, <1>6
  <2>3. upload' = upload
    BY <1>1
  <2>4. Online' => \E i \in DOMAIN toServer' :
                      toServer'[i].upload = upload' /\ toServer'[i].type = "file-finished"
    BY <1>3, <2>1, <2>3
  <2> QED BY <2>2, <2>4 DEF EndedAt
<1>11. Ended'
  <2>1. upload' = upload
    BY <1>1
  <2>2. \A v : v = upload => EndedAt(v)'
    BY <1>10, <2>1 DEF EndedAt, StoredFile, Past
  <2> QED BY <1>1, <1>6, <1>9, <2>2 DEF Ended
<1>12. TypeOK' /\ Shape' /\ Local'
  BY <1>1, <1>2, <1>6, <1>8, <1>9 DEF TypeOK, Shape, Local
<1> QED BY <1>9, <1>11, <1>12

(* A step of the connection, after which the thread has nothing, and so the *)
(* table does not matter, or is empty.                                      *)
LEMMA ConnectionStep ==
    ASSUME IInv, UNCHANGED <<upload, files, timedOut, began, sent, damaged, faults>>,
           connection' \in Nat, connection <= connection',
           step' \in {step, "idle"},
           ClientMark[1] \in Nat, ClientMark[2] \in Nat,
           ClientMark'[1] \in Nat, ClientMark'[2] \in Nat,
           ClientMark' = ClientMark \/ Less(ClientMark, ClientMark'),
           toServer' = toServer \/ toServer' = <<>>,
           serving' /\ Online' => connection' > connection,
           Live' => \/ clientFileReceivers' = <<>> /\ toServer' = <<>>
                               /\ connection' > connection
                    \/ /\ toServer' # <<>> /\ serving' = serving /\ ~Online'
                       /\ clientFileReceivers' = clientFileReceivers,
           toServer' # <<>> => ClientMark' = ClientMark /\ ~Online' /\ connected',
           clientFileReceivers' \in {clientFileReceivers, <<>>},
           \/ earlier' = earlier
           \/ /\ earlier' = upload /\ connection' > connection /\ step' = "idle"
              /\ toServer' = <<>> /\ clientFileReceivers' = <<>>,
           TypeOK', Shape', Local'
    PROVE  IInv'
<1> USE DEF IInv
<1>1. upload \in Nat /\ connection \in Nat
  BY Numbers
<1>2. \A u : Past(u) => Past(u)'
  <2> SUFFICES ASSUME NEW u, Past(u) PROVE Past(u)'
    OBVIOUS
  <2>1. /\ step' # "idle" => u < upload'
        /\ \A i \in DOMAIN toServer' : \E j \in DOMAIN toServer : toServer'[i] = toServer[j]
    BY Nothing DEF Past
  <2> QED BY <2>1, <1>1, PastStays
<1>3. \A u, parts : Past(u) /\ Stored(parts, u) => Stored(parts, u)'
  BY DEF Stored, Holds
<1>4. Closed'
  BY <1>1, <1>2, <1>3, KeptAsIs, ClosedStays
<1>9. Fresh' /\ FreshTable'
  <2>1. CASE earlier' = earlier
    <3>1. \A i \in DOMAIN toServer' : toServer'[i].upload > earlier
      BY Nothing DEF Fresh
    <3>2. \A n \in DOMAIN clientFileReceivers' :
             files'[clientFileReceivers'[n]].upload > earlier
      BY Nothing DEF FreshTable
    <3> QED BY <2>1, <3>1, <3>2 DEF Fresh, FreshTable
  <2>2. CASE earlier' = upload /\ step' = "idle" /\ toServer' = <<>>
             /\ clientFileReceivers' = <<>>
    <3>1. (upload + 1)..upload = {}
      BY <1>1
    <3> QED BY <2>2, <3>1, Nothing DEF Fresh, FreshTable
  <2> QED BY <2>1, <2>2
<1>5. Ended'
  <2>1. /\ \A u \in DOMAIN began' : began'[u] <= connection'
        /\ \A u \in DOMAIN sent : began'[u] = began[u] /\ sent'[u] = sent[u]
    <3>1. \A u \in DOMAIN began : began[u] <= connection /\ began[u] \in Nat
      BY NonEmpty DEF Ended, Shape
    <3> QED BY <1>1, <3>1
  <2>2. \A u \in DOMAIN sent : \A i \in DOMAIN toServer :
           connection' > connection \/ ~(serving' /\ Online')
    OBVIOUS
  <2>3. /\ serving' /\ Online' /\ connection' = connection => serving /\ Online
        /\ connection' = connection => earlier' = earlier
    BY <1>1
  <2>4. /\ step' # "idle" => step # "idle"
        /\ \A i \in DOMAIN files : i \in DOMAIN files' /\ files'[i] = files[i]
    OBVIOUS
  <2>5. \A u \in DOMAIN sent : EndedAt(u)'
    BY <1>1, <1>2, <1>3, <2>1, <2>2, <2>3, <2>4, EndedStays
  <2> QED BY <2>1, <2>5 DEF Ended
<1>6. Wire'
  <2>1. CASE toServer' = <<>>
    BY <2>1, Nothing DEF Wire
  <2>2. CASE toServer' # <<>>
    <3>1. /\ toServer' = toServer /\ ClientMark' = ClientMark /\ ~Online' /\ connected'
      BY <2>2
    <3> QED BY <3>1 DEF Wire, Follows
  <2> QED BY <2>1, <2>2
<1>7. Live' => Table'
  <2> SUFFICES ASSUME Live' PROVE Table'
    OBVIOUS
  <2>1. CASE clientFileReceivers' = <<>> /\ toServer' = <<>> /\ connection' > connection
    <3>1. Cursor' = ClientMark'
      BY <2>1 DEF Cursor
    <3>2. ClientMark'[2] > 0 => ClientMark'[1] \in 1..upload
      BY ClientMarks, <1>1 DEF ClientMark, Local
    <3>3. \A u \in 1..upload : began[u] <= connection
      <4>1. DOMAIN began = 1..upload
        BY NonEmpty DEF TypeOK, Shape
      <4> QED BY <4>1 DEF Ended
    <3>4. Cursor'[2] > 0 => began'[Cursor'[1]] # connection'
      <4> SUFFICES ASSUME Cursor'[2] > 0 PROVE began'[Cursor'[1]] # connection'
        OBVIOUS
      <4> DEFINE u == Cursor'[1]
      <4>1. u \in 1..upload
        BY <3>1, <3>2
      <4>2. began[u] <= connection /\ began[u] \in Nat
        <5>1. u \in DOMAIN began
          BY <4>1, NonEmpty DEF TypeOK, Shape
        <5> QED BY <4>1, <3>3, <5>1, NonEmpty DEF Shape
      <4> HIDE DEF u
      <4>3. began[u] # connection'
        BY <4>2, <2>1, <1>1
      <4> QED BY <4>3 DEF u
    <3> QED BY <2>1, <3>4, Nothing DEF Table
  <2>2. CASE /\ toServer' # <<>> /\ serving' = serving /\ ~Online'
             /\ clientFileReceivers' = clientFileReceivers
    <3>1. toServer' = toServer /\ Live /\ Cursor' = Cursor
      BY <2>2 DEF Live, Cursor
    <3>2. \A n \in DOMAIN clientFileReceivers : Entry(n)'
      <4> TAKE n \in DOMAIN clientFileReceivers
      <4>1. Entry(n)
        BY <3>1 DEF Table
      <4> QED BY <4>1, <3>1, <2>2 DEF Entry, Holds
    <3> QED BY <2>2, <3>2 DEF Table
  <2> QED BY <2>1, <2>2
<1>8. Refused'
  <2>1. /\ ClientMark[1] \in Nat /\ ClientMark[2] \in Nat
        /\ ClientMark'[1] \in Nat /\ ClientMark'[2] \in Nat
        /\ ClientMark' = ClientMark \/ Less(ClientMark, ClientMark')
    OBVIOUS
  <2>2. \A i \in DOMAIN toServer' : \E j \in DOMAIN toServer : toServer'[i] = toServer[j]
    BY Nothing
  <2> QED BY <2>1, <2>2, RefusedStays
<1> QED BY <1>4, <1>5, <1>6, <1>7, <1>8, <1>9

LEMMA BreakKeeps == IInv /\ Break => IInv'
<1> SUFFICES ASSUME IInv, Break PROVE IInv'
  OBVIOUS
<1> USE DEF IInv
<1>1. /\ UNCHANGED <<upload, step, fileAccepted, acknowledged, offset, connection,
                     clientFileReceivers, files, downloading, closing, repaired,
                     timedOut, began, sent, earlier, faults, damaged>>
      /\ connection < MaxConnections /\ closing = "no"
      /\ connected' = FALSE /\ toServer' = <<>> /\ serving' = FALSE
  BY DEF Break, clientVars, historyVars
<1>2. TypeOK' /\ Shape' /\ Local'
  <2>1. TypeOK'
    BY <1>1 DEF TypeOK
  <2>2. Shape'
    <3>1. toServer' \in Seq(Envelope)
      BY <1>1
    <3>2. serving' \in BOOLEAN /\ connected' \in BOOLEAN
      BY <1>1
    <3> QED BY <1>1, <3>1, <3>2 DEF Shape
  <2>3. Local'
    BY <1>1 DEF Local
  <2> QED BY <2>1, <2>2, <2>3
<1>3. ~Live' /\ connection' \in Nat /\ connection <= connection'
  BY <1>1, Numbers DEF Live
<1>4. ClientMark' = ClientMark
  BY <1>1 DEF ClientMark
<1> QED BY <1>1, <1>2, <1>3, <1>4, ClientMarks, ConnectionStep

LEMMA ReconnectKeeps == IInv /\ Reconnect => IInv'
<1> SUFFICES ASSUME IInv, Reconnect PROVE IInv'
  OBVIOUS
<1> USE DEF IInv
<1>1. /\ UNCHANGED <<upload, step, fileAccepted, acknowledged, offset, toServer,
                     files, downloading, closing, repaired,
                     timedOut, began, sent, earlier, faults, damaged>>
      /\ ~connected /\ connected' = TRUE /\ connection' = connection + 1
      /\ serving' = TRUE /\ clientFileReceivers' = <<>>
  BY DEF Reconnect, clientVars, historyVars
<1>2. toServer = <<>> /\ connection < MaxConnections /\ connection \in Nat
      /\ connection + 1 \in 1..MaxConnections
  BY <1>1, Numbers DEF Wire, Local, TypeOK
<1>3. TypeOK' /\ Shape' /\ Local'
  BY <1>1, <1>2, Nothing DEF TypeOK, Shape, Local
<1>4. connection' \in Nat /\ connection' > connection /\ connection <= connection'
  BY <1>1, <1>2
<1>5. ClientMark' = ClientMark
  BY <1>1 DEF ClientMark
<1> QED BY <1>1, <1>2, <1>3, <1>4, <1>5, ClientMarks, ConnectionStep

LEMMA DisconnectKeeps == IInv /\ (DisconnectBegin \/ DisconnectRepair) => IInv'
<1> SUFFICES ASSUME IInv, DisconnectBegin \/ DisconnectRepair PROVE IInv'
  OBVIOUS
<1> USE DEF IInv
<1>1. /\ UNCHANGED <<upload, step, fileAccepted, acknowledged, offset, connected,
                     connection, toServer, serving, clientFileReceivers, files,
                     timedOut, began, sent, earlier, faults, damaged>>
      /\ connected /\ connection < MaxConnections
      /\ closing' \in {"closed", "done"}
      /\ downloading' \in {FALSE, downloading}
  BY DEF DisconnectBegin, DisconnectRepair, clientVars, wireVars, historyVars, Local
<1>2. repaired' \subseteq DOMAIN files
  <2>1. repaired' = repaired \/ (downloading /\ repaired' = repaired \cup {Len(files)})
    BY DEF DisconnectBegin, DisconnectRepair
  <2>2. downloading => Len(files) \in DOMAIN files
    BY NonEmpty DEF Local, Shape
  <2> QED BY <2>1, <2>2 DEF TypeOK
<1>3. TypeOK' /\ Shape' /\ Local'
  <2>1. TypeOK'
    BY <1>1, <1>2 DEF TypeOK
  <2>2. Shape'
    <3>1. downloading' \in BOOLEAN
      BY <1>1 DEF Shape
    <3> QED BY <1>1, <3>1 DEF Shape
  <2>3. Local'
    <3>1. downloading' => downloading
      BY <1>1
    <3> QED BY <1>1, <3>1 DEF Local
  <2> QED BY <2>1, <2>2, <2>3
<1>4. /\ ~Online' /\ connection' \in Nat /\ connection <= connection'
      /\ ClientMark' = ClientMark /\ (Live' => toServer' # <<>>)
  BY <1>1, Numbers DEF Online, ClientMark, Live
<1> QED BY <1>1, <1>3, <1>4, ClientMarks, ConnectionStep

LEMMA RevertKeeps == IInv /\ Revert => IInv'
<1> SUFFICES ASSUME IInv, Revert PROVE IInv'
  OBVIOUS
<1> USE DEF IInv
<1>1. /\ UNCHANGED <<upload, files, repaired, timedOut, began, sent, faults, damaged>>
      /\ closing = "done" /\ closing' = "no"
      /\ step' = "idle" /\ fileAccepted' = FALSE /\ acknowledged' = FALSE /\ offset' = 0
      /\ connected' = TRUE /\ connection' = connection + 1 /\ toServer' = <<>>
      /\ serving' = TRUE /\ clientFileReceivers' = <<>> /\ downloading' = FALSE
      /\ earlier' = upload
  BY DEF Revert, historyVars
<1>2. /\ connection < MaxConnections /\ connection \in Nat
      /\ connection + 1 \in 1..MaxConnections
  BY <1>1, Numbers DEF Local, TypeOK
<1>3. TypeOK' /\ Shape' /\ Local'
  <2>1. TypeOK'
    BY <1>1, <1>2, Nothing DEF TypeOK
  <2>2. Shape'
    <3>1. toServer' \in Seq(Envelope)
      BY <1>1
    <3> QED BY <1>1, <3>1, Nothing DEF Shape
  <2> QED BY <1>1, <2>1, <2>2 DEF Local
<1>4. connection' \in Nat /\ connection' > connection /\ connection <= connection'
  BY <1>1, <1>2
<1>5. /\ ClientMark' = <<upload + 1, 0>>
      /\ ClientMark'[1] \in Nat /\ ClientMark'[2] \in Nat
      /\ ClientMark' = ClientMark \/ Less(ClientMark, ClientMark')
  <2>1. ClientMark' = <<upload + 1, 0>> /\ upload \in Nat
    BY <1>1, Numbers DEF ClientMark
  <2>2. CASE step = "idle"
    BY <2>1, <2>2 DEF ClientMark
  <2>3. CASE step # "idle"
    BY <2>1, <2>3, ClientMarks DEF Less
  <2> QED BY <2>1, <2>2, <2>3
<1> QED BY <1>1, <1>3, <1>4, <1>5, ClientMarks, ConnectionStep

-----------------------------------------------------------------------------
(* The receiver thread.                                                     *)

(* The message at the front, of the upload the cursor is in.                *)
LEMMA Front ==
    ASSUME IInv, NEW type, Arrived(type)
    PROVE  LET m == Head(toServer) IN
           /\ toServer # <<>> /\ serving /\ Live
           /\ m \in Envelope /\ m.type = type /\ m.name = NameOf[m.upload]
           /\ m.upload \in Upload /\ m.upload \in 1..upload /\ m.upload \in Nat
           /\ PartsOf[m.upload] \in Nat
           /\ Cursor = <<m.upload, Rank(m)>> /\ Rank(m) \in Nat
           /\ type = "part" => m.part \in 1..PartsOf[m.upload]
<1> USE DEF IInv
<1>1. toServer # <<>> /\ serving /\ Head(toServer).type = type
  BY DEF Arrived
<1>2. 1 \in DOMAIN toServer /\ Head(toServer) = toServer[1]
  BY <1>1, Cursors
<1>3. Live
  BY <1>1 DEF Live
<1>4. Cursor = <<Head(toServer).upload, Rank(Head(toServer))>>
  BY <1>1 DEF Cursor, Mark
<1>5. /\ toServer[1] \in Envelope /\ toServer[1].upload \in 1..upload
      /\ toServer[1].upload \in Upload /\ Rank(toServer[1]) \in Nat
  BY <1>2, Marks
<1>6. /\ toServer[1].name = NameOf[toServer[1].upload]
      /\ toServer[1].type = "part" => toServer[1].part \in 1..PartsOf[toServer[1].upload]
  BY <1>2 DEF Wire
<1>7. toServer[1].upload \in Nat /\ PartsOf[toServer[1].upload] \in Nat
  BY <1>5, Uploads
<1> QED BY <1>1, <1>2, <1>3, <1>4, <1>5, <1>6, <1>7

LEMMA ReceiveStep ==
    ASSUME IInv, NEW type, Arrived(type), Taken,
           UNCHANGED <<clientVars, connected, connection, closing, timedOut, began, sent,
                       earlier>>,
           damaged' \in {damaged, damaged \cup {<<Head(toServer).upload, Head(toServer).part>>}},
           damaged' # damaged => type = "part",
           serving' => serving
    PROVE  /\ toServer' \in Seq(Envelope) /\ Wire' /\ Refused' /\ Fresh'
           /\ \A i \in DOMAIN toServer :
                 i = 1 \/ \E j \in DOMAIN toServer' : toServer'[j] = toServer[i]
           /\ Live' => Follows(Cursor, Cursor')
           /\ Cursor'[1] \in Nat
           /\ Online' <=> Online
           /\ \A v : Past(v) => Past(v)' /\ v < Head(toServer).upload
           /\ \A v, parts : Past(v) /\ Stored(parts, v) => Stored(parts, v)'
           /\ type = "file-finished" =>
                 \A v : v = Head(toServer).upload => Past(v)'
<1> USE DEF IInv
<1> DEFINE m == Head(toServer)
           u == m.upload
<1>1. /\ toServer # <<>> /\ m.type = type /\ u \in 1..upload /\ u \in Nat
      /\ PartsOf[u] \in Nat /\ Cursor = <<u, Rank(m)>> /\ Rank(m) \in Nat
      /\ type = "part" => m.part \in 1..PartsOf[u]
  BY Front
<1>2. UNCHANGED <<upload, step, offset, connected, closing, timedOut>>
  BY DEF clientVars
<1>3. /\ toServer' \in Seq(Envelope) /\ Wire'
      /\ \A i \in DOMAIN toServer' :
            /\ i + 1 \in DOMAIN toServer /\ toServer'[i] = toServer[i + 1]
            /\ Less(Cursor, Mark(toServer'[i]))
      /\ \A i \in DOMAIN toServer :
            i = 1 \/ (i - 1 \in DOMAIN toServer' /\ toServer'[i - 1] = toServer[i])
      /\ toServer' # <<>> \/ Online' => Follows(Cursor, Cursor')
      /\ Less(Cursor, ClientMark) /\ ClientMark' = ClientMark
  BY <1>1, <1>2, WireShrinks
<1>5. Online' <=> Online
  BY <1>2 DEF Online
<1>6. Live' => Follows(Cursor, Cursor')
  BY <1>3 DEF Live
<1>7. upload \in Nat /\ upload' \in Nat
  BY <1>2, Numbers
<1>13. Cursor'[1] \in Nat
  <2>1. CASE toServer' # <<>>
    <3>1. 1 \in DOMAIN toServer' /\ Head(toServer') = toServer'[1]
      BY <1>3, <2>1, NonEmpty
    <3>2. 2 \in DOMAIN toServer /\ toServer'[1] = toServer[2]
      BY <1>3, <3>1
    <3>3. toServer[2].upload \in Nat
      BY <3>2, Marks, Uploads
    <3> QED BY <2>1, <3>1, <3>2, <3>3 DEF Cursor, Mark
  <2>2. CASE toServer' = <<>>
    <3>1. Cursor' = ClientMark
      BY <1>3, <2>2 DEF Cursor
    <3> QED BY <3>1, ClientMarks
  <2> QED BY <2>1, <2>2
<1>8. ASSUME NEW v, Past(v) PROVE Past(v)' /\ v < u
  <2>1. \A i \in DOMAIN toServer' : \E j \in DOMAIN toServer : toServer'[i] = toServer[j]
    BY <1>3
  <2>2. 1 \in DOMAIN toServer /\ m = toServer[1]
    BY <1>1, Cursors
  <2>3. v < u /\ (step' # "idle" => v < upload')
    BY <1>2, <1>8, <2>2 DEF Past
  <2> QED BY <1>2, <1>7, <1>8, <2>1, <2>3, PastStays
<1>9. ASSUME NEW v, NEW parts, Past(v), Stored(parts, v) PROVE Stored(parts, v)'
  <2>1. v < u
    BY <1>8, <1>9
  <2>2. \A q : <<v, q>> # <<u, m.part>>
    BY <2>1, <1>1
  <2>3. damaged' = damaged \/ damaged' = damaged \cup {<<u, m.part>>}
    OBVIOUS
  <2> HIDE DEF u, m
  <2>4. {<<v, q>> : q \in 1..PartsOf[v]} \ damaged' = {<<v, q>> : q \in 1..PartsOf[v]} \ damaged
    BY <2>2, <2>3
  <2> QED BY <1>9, <2>4 DEF Stored, Holds
<1>10. ASSUME type = "file-finished" PROVE \A v : v = u => Past(v)'
  <2>1. Rank(m) = PartsOf[u] + 1
    BY <1>1, <1>10 DEF Rank
  <2>2. ASSUME NEW i \in DOMAIN toServer' PROVE toServer'[i].upload > u
    <3>1. /\ toServer[i + 1].upload \in Nat
          /\ Rank(toServer[i + 1]) \in 0..(PartsOf[toServer[i + 1].upload] + 1)
          /\ toServer'[i] = toServer[i + 1]
      BY <1>3, Marks
    <3>2. Less(<<u, PartsOf[u] + 1>>, <<toServer'[i].upload, Rank(toServer'[i])>>)
      BY <1>1, <1>3, <2>1 DEF Mark
    <3> HIDE DEF u, m
    <3>3. toServer'[i].upload # u
      <4> SUFFICES ASSUME toServer'[i].upload = u PROVE FALSE
        OBVIOUS
      <4>1. PartsOf[u] + 1 < Rank(toServer'[i])
        BY <3>2, <1>1 DEF Less
      <4>2. Rank(toServer'[i]) \in 0..(PartsOf[u] + 1)
        BY <3>1
      <4> QED BY <4>1, <4>2, <1>1
    <3> QED BY <3>1, <3>2, <3>3, <1>1 DEF Less
  <2>3. step # "idle" => u < upload
    <3> SUFFICES ASSUME step # "idle" PROVE u < upload
      OBVIOUS
    <3>1. ClientMark[1] = upload /\ ClientMark[2] = offset + 1
      BY ClientMarks
    <3>2. u < upload \/ (u = upload /\ PartsOf[u] + 1 < offset + 1)
      BY <1>1, <1>3, <2>1, <3>1 DEF Less
    <3>3. offset \in 0..PartsOf[upload]
      BY DEF TypeOK
    <3> HIDE DEF u
    <3> QED BY <1>1, <3>2, <3>3
  <2>4. \A v : v = u => v \in 1..upload' /\ (step' # "idle" => v < upload')
    BY <1>1, <1>2, <2>3
  <2> QED BY <2>2, <2>4 DEF Past
<1>11. Refused'
  <2>1. ASSUME NEW d \in damaged'
        PROVE  /\ d \in Nat \X Nat /\ Less(d, ClientMark')
               /\ \A i \in DOMAIN toServer' : Less(d, Mark(toServer'[i]))
    <3>1. CASE d \in damaged
      <4>1. \A i \in DOMAIN toServer' : \E j \in DOMAIN toServer : toServer'[i] = toServer[j]
        BY <1>3
      <4> QED BY <3>1, <4>1, <1>3 DEF Refused
    <3>2. CASE d \notin damaged
      <4>1. d = <<u, m.part>> /\ type = "part"
        BY <3>2
      <4>2. Rank(m) = m.part /\ m.part \in Nat /\ d \in Nat \X Nat /\ Cursor = d
        BY <1>1, <4>1 DEF Rank
      <4> QED BY <4>2, <1>3
    <3> QED BY <3>1, <3>2
  <2> QED BY <2>1 DEF Refused
<1>12. \A i \in DOMAIN toServer :
          i = 1 \/ \E j \in DOMAIN toServer' : toServer'[j] = toServer[i]
  BY <1>3
<1>14. Fresh'
  BY <1>2, <1>3 DEF Fresh
<1> QED BY <1>13, <1>3, <1>5, <1>6, <1>8, <1>9, <1>10, <1>11, <1>12, <1>14

(* What the thread did not close, and what it did not read, is as before.   *)
LEMMA ReceiveEnded ==
    ASSUME IInv, NEW type, Arrived(type), Taken,
           UNCHANGED <<clientVars, connected, connection, closing, timedOut, began, sent,
                       earlier>>,
           damaged' \in {damaged, damaged \cup {<<Head(toServer).upload, Head(toServer).part>>}},
           damaged' # damaged => type = "part",
           serving' => serving,
           \A i \in DOMAIN files :
              files[i].output = "closed" =>
                  \/ i \in DOMAIN files' /\ files'[i] = files[i]
                  \/ \A v : Past(v) => files[i].upload \notin (earlier + 1)..v,
           type = "file-finished" /\ serving' /\ Online
              /\ began[Head(toServer).upload] = connection =>
                 \A v : v = Head(toServer).upload => StoredFile(v)'
    PROVE  Ended'
<1> USE DEF IInv
<1>1. /\ \A i \in DOMAIN toServer :
            i = 1 \/ \E j \in DOMAIN toServer' : toServer'[j] = toServer[i]
      /\ Online' <=> Online
      /\ \A v : Past(v) => Past(v)'
      /\ \A v, parts : Past(v) /\ Stored(parts, v) => Stored(parts, v)'
  BY ReceiveStep
<1>2. /\ UNCHANGED <<upload, step, connection, began, sent>>
      /\ upload \in Nat /\ connection \in Nat
  BY Numbers DEF clientVars
<1>3. Head(toServer) = toServer[1] /\ Head(toServer).type = type
  BY Cursors DEF Arrived
<1>4. ASSUME NEW v \in DOMAIN sent, NEW i \in DOMAIN toServer,
             toServer[i].upload = v, toServer[i].type = "file-finished"
      PROVE  \/ \E j \in DOMAIN toServer' : toServer'[j] = toServer[i]
             \/ connection' > connection
             \/ ~(serving' /\ Online')
             \/ began[v] # connection
             \/ StoredFile(v)'
  BY <1>1, <1>3, <1>4
<1>5. \A v \in DOMAIN sent : EndedAt(v)'
  <2>1. /\ upload' \in Nat /\ upload <= upload' /\ connection' \in Nat
        /\ connection <= connection'
        /\ \A v \in DOMAIN sent : sent'[v] = sent[v] /\ began'[v] = began[v]
        /\ step' # "idle" => step # "idle" \/ upload' = upload + 1
        /\ serving' /\ Online' /\ connection' = connection => serving /\ Online
    BY <1>1, <1>2
  <2> QED BY <1>1, <1>2, <1>4, <2>1, EndedStays
<1> QED BY <1>2, <1>5 DEF Ended

(* The file that is opened again has nothing left in it.                    *)
LEMMA EmptiedFiles ==
    ASSUME files \in Seq(FileRecord), NEW u
    PROVE  /\ Emptied(u) \in Seq(FileRecord) /\ Len(Emptied(u)) = Len(files)
           /\ DOMAIN Emptied(u) = DOMAIN files
           /\ \A i \in DOMAIN files :
                 /\ Emptied(u)[i].upload = files[i].upload
                 /\ Emptied(u)[i].output = files[i].output
                 /\ Emptied(u)[i].parts \in {files[i].parts, <<>>}
                 /\ Emptied(u)[i] = files[i] \/ PathOf[files[i].upload] = PathOf[u]
<1> DEFINE n == Len(files)
           e == Emptied(u)
<1>1. n \in Nat /\ DOMAIN files = 1..n /\ \A i \in 1..n : files[i] \in FileRecord
  BY NonEmpty
<1>2. /\ e = [i \in 1..n |-> e[i]]
      /\ \A i \in 1..n : e[i] = IF PathOf[files[i].upload] = PathOf[u]
                                THEN [files[i] EXCEPT !.parts = <<>>] ELSE files[i]
  BY <1>1 DEF Emptied
<1> HIDE DEF e, n
<1>3. \A i \in 1..n :
         /\ e[i] \in FileRecord
         /\ e[i].upload = files[i].upload /\ e[i].output = files[i].output
         /\ e[i].parts \in {files[i].parts, <<>>}
         /\ e[i] = files[i] \/ PathOf[files[i].upload] = PathOf[u]
  <2> TAKE i \in 1..n
  <2>1. files[i] \in FileRecord /\ <<>> \in Seq(Nat \X Nat)
    BY <1>1
  <2>2. e[i] = files[i] \/ e[i] = [files[i] EXCEPT !.parts = <<>>]
    BY <1>2
  <2>3. e[i] = files[i] \/ PathOf[files[i].upload] = PathOf[u]
    BY <1>2
  <2> QED BY <2>1, <2>2, <2>3 DEF FileRecord
<1>4. e \in [1..n -> FileRecord]
  BY <1>2, <1>3
<1>5. e \in Seq(FileRecord) /\ DOMAIN e = 1..n
  BY <1>1, <1>4, SeqDef
<1>6. Len(e) = n
  BY <1>1, <1>5, LenProperties
<1> QED BY <1>1, <1>3, <1>5, <1>6 DEF e, n

LEMMA ReceiveFileKeeps == IInv /\ ReceiveFile => IInv'
<1> SUFFICES ASSUME IInv, ReceiveFile PROVE IInv'
  OBVIOUS
<1> USE DEF IInv
<1> DEFINE m == Head(toServer)
           u == m.upload
           k == Len(files) + 1
<1>1. /\ Arrived("file") /\ Taken
      /\ UNCHANGED <<clientVars, connected, connection, serving, closing, repaired,
                     timedOut, began, sent, earlier, damaged>>
      /\ downloading' = TRUE
      /\ clientFileReceivers' =
            IF m.name \in DOMAIN clientFileReceivers THEN clientFileReceivers
            ELSE Put(clientFileReceivers, m.name, Len(files) + 1)
  BY DEF ReceiveFile, Known, historyVars
<1>2. PICK opens \in BOOLEAN :
         /\ faults' = IF opens THEN faults ELSE faults + 1
         /\ faults' <= MaxFaults
         /\ files' = Append(IF opens THEN Emptied(m.upload) ELSE files,
                            [upload |-> m.upload, parts |-> <<>>,
                             output |-> IF opens THEN "open" ELSE "none"])
  <2>1. faults \in Nat /\ faults <= MaxFaults /\ MaxFaults \in Nat
    BY TransferBounds DEF TypeOK
  <2>2. CASE /\ files' = Append(Emptied(m.upload), [upload |-> m.upload, parts |-> <<>>,
                                                   output |-> "open"])
             /\ faults' = faults
    <3> WITNESS TRUE \in BOOLEAN
    <3> QED BY <2>1, <2>2
  <2>3. CASE /\ faults < MaxFaults /\ faults' = faults + 1
             /\ files' = Append(files, [upload |-> m.upload, parts |-> <<>>,
                                       output |-> "none"])
    <3> WITNESS FALSE \in BOOLEAN
    <3> QED BY <2>1, <2>3
  <2> QED BY <2>2, <2>3 DEF ReceiveFile
<1> DEFINE r == [upload |-> m.upload, parts |-> <<>>,
                 output |-> IF opens THEN "open" ELSE "none"]
<1>3. /\ m.type = "file" /\ m.name = NameOf[u] /\ u \in Upload /\ u \in 1..upload
      /\ u \in Nat /\ PartsOf[u] \in Nat /\ Live /\ Cursor = <<u, 0>>
  BY <1>1, Front DEF Rank
<1>4. r \in FileRecord /\ r.upload = u /\ r.parts = <<>> /\ r.output \in {"open", "none"}
  <2>1. <<>> \in Seq(Nat \X Nat)
    OBVIOUS
  <2> QED BY <1>3, <2>1 DEF FileRecord
<1> DEFINE rest == IF opens THEN Emptied(u) ELSE files
           Same(i) == PathOf[files[i].upload] = PathOf[u] /\ opens
<1>19. /\ rest \in Seq(FileRecord) /\ Len(rest) = Len(files) /\ DOMAIN rest = DOMAIN files
       /\ files \in Seq(FileRecord) /\ Len(files) \in Nat /\ DOMAIN files = 1..Len(files)
       /\ \A i \in DOMAIN files :
             /\ rest[i].upload = files[i].upload /\ rest[i].output = files[i].output
             /\ rest[i].parts \in {files[i].parts, <<>>}
             /\ rest[i] = files[i] \/ Same(i)
  <2>1. /\ files \in Seq(FileRecord) /\ Len(files) \in Nat /\ DOMAIN files = 1..Len(files)
        /\ \A i \in DOMAIN files : files[i] \in FileRecord
    BY NonEmpty DEF Shape
  <2> QED BY <2>1, EmptiedFiles
<1>20. files' = Append(rest, r)
  BY <1>2 DEF r
<1> HIDE DEF r, rest
<1>5. /\ files' \in Seq(FileRecord) /\ files' # <<>>
      /\ Len(files) \in Nat /\ DOMAIN files = 1..Len(files)
      /\ DOMAIN files' = 1..k /\ files'[k] = r
      /\ \A i \in 1..Len(files) : files'[i] = rest[i]
  BY <1>4, <1>19, <1>20, Appended
<1>6. /\ \A i \in DOMAIN files :
            /\ i \in DOMAIN files' /\ i # k /\ i < k
            /\ files'[i].upload = files[i].upload /\ files'[i].output = files[i].output
            /\ files'[i].parts \in {files[i].parts, <<>>}
            /\ files'[i] = files[i] \/ Same(i)
      /\ \A i \in DOMAIN files' : i = k \/ i \in DOMAIN files
      /\ k \in DOMAIN files'
  BY <1>5, <1>19
<1>7. \A n \in DOMAIN clientFileReceivers' :
         \/ n \in DOMAIN clientFileReceivers
            /\ clientFileReceivers'[n] = clientFileReceivers[n]
         \/ n = NameOf[u] /\ clientFileReceivers'[n] = k
  BY <1>1, <1>3 DEF Put
<1>8. NameOf[u] \in DOMAIN clientFileReceivers'
  BY <1>1, <1>3 DEF Put
<1>21. \A i \in DOMAIN files : Same(i) => files'[k].output = "open"
  BY <1>5 DEF r
<1> HIDE DEF m, u, k
<1>9. /\ toServer' \in Seq(Envelope) /\ Wire' /\ Refused' /\ Fresh'
      /\ Live' => Follows(Cursor, Cursor')
      /\ Cursor'[1] \in Nat
      /\ Online' <=> Online
      /\ \A v : Past(v) => Past(v)' /\ v < u
      /\ \A v, parts : Past(v) /\ Stored(parts, v) => Stored(parts, v)'
  BY <1>1, ReceiveStep DEF m, u
<1>10. Closed'
  <2>1. upload' = upload /\ upload \in Nat
    BY <1>1, Numbers DEF clientVars
  <2>2. ASSUME NEW i \in DOMAIN files, Same(i) PROVE Overwritten(i)'
    <3>1. k \in DOMAIN files' /\ k > i /\ files'[k].output # "none" /\ files'[k].upload = u
      BY <1>4, <1>5, <1>6, <1>21, <2>2
    <3> QED BY <1>6, <2>2, <3>1 DEF Overwritten
  <2>3. \A i \in DOMAIN files' :
           files'[i].output = "closed" =>
               Overwritten(i)' \/ (i \in DOMAIN files /\ files'[i] = files[i])
    <3> HIDE DEF Same
    <3> QED BY <1>4, <1>5, <1>6, <2>2
  <2>4. \A i \in DOMAIN files : i \in DOMAIN files' /\ Keeps(files'[i], files[i])
    BY <1>6 DEF Keeps
  <2> QED BY <1>1, <1>9, <2>1, <2>3, <2>4, ClosedStays
<1>11. Ended'
  <2>1. ASSUME NEW i \in DOMAIN files, Same(i), NEW v, Past(v)
        PROVE  files[i].upload \notin (earlier + 1)..v
    <3>1. v < u /\ v \in Nat /\ u <= upload /\ u > earlier /\ earlier \in Nat
          /\ upload \in Nat
      <4>1. 1 \in DOMAIN toServer /\ m = toServer[1]
        BY <1>1, Cursors DEF Arrived, m
      <4>2. u > earlier
        BY <4>1 DEF Fresh, u
      <4>3. v \in 1..upload /\ v < u
        BY <1>9, <2>1 DEF Past
      <4>4. upload \in Nat /\ earlier \in Nat
        BY Numbers
      <4> QED BY <1>3, <4>2, <4>3, <4>4
    <3>2. PICK w : w = files[i].upload
      OBVIOUS
    <3>3. PathOf[w] = PathOf[u]
      BY <2>1, <3>2
    <3>4. w \in (earlier + 1)..v => w \in (earlier + 1)..upload /\ w < u
      BY <1>3, <3>1
    <3>5. u \in (earlier + 1)..upload
      BY <1>3, <3>1
    <3>6. w \in (earlier + 1)..upload => w = u
      BY <3>3, <3>5 DEF Fresh
    <3> QED BY <1>3, <3>2, <3>4, <3>6
  <2> HIDE DEF Same
  <2>2. \A i \in DOMAIN files :
           files[i].output = "closed" =>
               \/ i \in DOMAIN files' /\ files'[i] = files[i]
               \/ \A v : Past(v) => files[i].upload \notin (earlier + 1)..v
    BY <1>6, <2>1
  <2> QED BY <1>1, <2>2, ReceiveEnded
<1>12. /\ UNCHANGED <<upload, step, fileAccepted, acknowledged, offset, connected,
                      connection, serving, closing, repaired, timedOut, began, sent,
                      earlier>>
  BY <1>1 DEF clientVars
<1>22. FreshTable'
  <2>1. earlier < u
    <3>1. 1 \in DOMAIN toServer /\ m = toServer[1]
      BY <1>1, Cursors DEF Arrived, m
    <3> QED BY <3>1 DEF Fresh, u
  <2>2. \A n \in DOMAIN clientFileReceivers : files'[clientFileReceivers[n]].upload > earlier
    BY <1>6 DEF FreshTable, Shape
  <2>3. files'[k].upload > earlier
    BY <1>4, <1>5, <2>1
  <2> QED BY <1>7, <1>12, <2>2, <2>3 DEF FreshTable
<1>13. faults' \in 0..MaxFaults
  BY <1>2, TransferBounds DEF TypeOK
<1>14. \A n \in DOMAIN clientFileReceivers' :
          /\ clientFileReceivers'[n] \in DOMAIN files'
          /\ files'[clientFileReceivers'[n]].output # "closed"
          /\ NameOf[files'[clientFileReceivers'[n]].upload] = n
  <2> TAKE n \in DOMAIN clientFileReceivers'
  <2> HIDE DEF Same
  <2>1. CASE n \in DOMAIN clientFileReceivers
             /\ clientFileReceivers'[n] = clientFileReceivers[n]
    <3>1. /\ clientFileReceivers[n] \in DOMAIN files
          /\ files[clientFileReceivers[n]].output # "closed"
          /\ NameOf[files[clientFileReceivers[n]].upload] = n
      BY <2>1 DEF TypeOK, Shape
    <3> QED BY <1>6, <2>1, <3>1
  <2>2. CASE n = NameOf[u] /\ clientFileReceivers'[n] = k
    BY <1>4, <1>5, <1>6, <2>2
  <2> QED BY <1>7, <2>1, <2>2
<1>15. TypeOK'
  <2>1. repaired' \subseteq DOMAIN files'
    BY <1>6, <1>12 DEF TypeOK
  <2> QED BY <1>12, <1>13, <1>14, <2>1 DEF TypeOK
<1>16. Shape'
  BY <1>1, <1>5, <1>9, <1>12, <1>14 DEF Shape
<1>17. Local'
  BY <1>5, <1>12 DEF Local
<1>18. Live' => Table'
  <2> SUFFICES ASSUME Live' PROVE Table'
    OBVIOUS
  <2>1. PICK b : b = Cursor'
    OBVIOUS
  <2>2. /\ b = <<u, 1>> \/ (b[1] > u /\ b[2] = 0 /\ u \in timedOut)
        /\ b[1] \in Nat
    BY <1>3, <1>9, <2>1 DEF Follows
  <2>3. ASSUME NEW n \in DOMAIN clientFileReceivers'
        PROVE  Entry(n)'
    <3> DEFINE f == files'[clientFileReceivers'[n]]
    <3>1. f.parts = <<>> /\ (f.upload = u \/ (f.upload < u /\ f.upload \in timedOut))
      <4>1. CASE /\ n \in DOMAIN clientFileReceivers
                 /\ clientFileReceivers'[n] = clientFileReceivers[n]
        <5>1. Entry(n)
          BY <1>3, <4>1 DEF Table
        <5> DEFINE o == files[clientFileReceivers[n]]
        <5>2. f.upload = o.upload /\ f.parts \in {o.parts, <<>>}
          BY <1>6, <4>1 DEF Shape
        <5>3. o.upload \in Nat
          <6>1. o \in FileRecord
            BY <4>1, NonEmpty DEF Shape
          <6> QED BY <6>1 DEF FileRecord
        <5>4. /\ o.parts = <<>> /\ o.upload <= u
              /\ o.upload < u => o.upload \in timedOut
          BY <1>3, <5>1 DEF Entry
        <5> HIDE DEF f, o
        <5> QED BY <1>3, <5>2, <5>3, <5>4
      <4>2. CASE clientFileReceivers'[n] = k
        BY <1>4, <1>5, <4>2
      <4> QED BY <4>1, <4>2, <1>7
    <3>2. f.upload \in Nat
      <4>1. f \in FileRecord
        BY <1>5, <1>14, NonEmpty
      <4> QED BY <4>1 DEF FileRecord
    <3> HIDE DEF f
    <3>3. /\ f.upload <= b[1]
          /\ f.upload = b[1] => b[2] > 0
          /\ f.upload < b[1] => f.upload \in timedOut'
          /\ b[2] > 0 => b = <<u, 1>>
      BY <1>3, <1>12, <2>2, <3>1, <3>2
    <3>5. b[2] > 0 => Holds(f.parts, b[1], b[2] - 1) /\ damaged' = damaged
      <4>1. Holds(<<>>, u, 0)
        BY HoldsNothing
      <4>2. b[2] > 0 => b[1] = u /\ b[2] - 1 = 0
        BY <3>3
      <4>3. f.parts = <<>> /\ damaged' = damaged
        BY <1>1, <3>1
      <4> QED BY <4>1, <4>2, <4>3
    <3> QED BY <2>1, <3>1, <3>3, <3>5 DEF Entry, f, Holds
  <2>4. Cursor'[2] > 0 => NameOf[Cursor'[1]] \in DOMAIN clientFileReceivers'
    BY <1>8, <2>1, <2>2
  <2> QED BY <2>3, <2>4 DEF Table
<1> QED BY <1>9, <1>10, <1>11, <1>15, <1>16, <1>17, <1>18, <1>22

(* The cursor is in an upload's parts: its file has what came before, and   *)
(* every other file of the table is empty and of an upload that timed out.  *)
LEMMA TableFile ==
    ASSUME IInv, NEW type, Arrived(type), NEW n \in DOMAIN clientFileReceivers
    PROVE  LET f == files[clientFileReceivers[n]]
               u == Head(toServer).upload
           IN  /\ clientFileReceivers[n] \in DOMAIN files /\ f \in FileRecord
               /\ f.upload \in Nat /\ f.parts \in Seq(Nat \X Nat)
               /\ f.output \in {"open", "none"} /\ NameOf[f.upload] = n
               /\ f.upload <= u /\ (f.upload < u => f.upload \in timedOut)
               /\ type # "file" =>
                     IF n = NameOf[u]
                     THEN Holds(f.parts, u, Rank(Head(toServer)) - 1)
                     ELSE f.parts = <<>> /\ f.upload # u
<1> USE DEF IInv
<1> DEFINE f == files[clientFileReceivers[n]]
           u == Head(toServer).upload
<1>1. /\ Live /\ Cursor = <<u, Rank(Head(toServer))>> /\ Head(toServer).type = type
      /\ Head(toServer) \in Envelope /\ PartsOf[u] \in Nat
      /\ type = "part" => Head(toServer).part \in 1..PartsOf[u]
  BY Front
<1>2. clientFileReceivers[n] \in DOMAIN files /\ f \in FileRecord
  BY NonEmpty DEF Shape
<1>3. Entry(n) /\ f.output # "closed" /\ NameOf[f.upload] = n
  BY <1>1 DEF Table, TypeOK
<1>4. f.upload \in Nat /\ f.parts \in Seq(Nat \X Nat) /\ f.output \in {"open", "none", "closed"}
  BY <1>2 DEF FileRecord
<1>5. type # "file" => Rank(Head(toServer)) > 0
  BY <1>1 DEF Rank, Envelope, Kind
<1>6. /\ f.upload <= Cursor[1]
      /\ f.upload < Cursor[1] => f.upload \in timedOut
      /\ IF Cursor[2] > 0 /\ NameOf[Cursor[1]] = n
         THEN Holds(f.parts, Cursor[1], Cursor[2] - 1)
         ELSE f.parts = <<>>
  BY <1>3 DEF Entry
<1> HIDE DEF f, u
<1>7. type # "file" => IF n = NameOf[u]
                       THEN Holds(f.parts, u, Rank(Head(toServer)) - 1)
                       ELSE f.parts = <<>> /\ f.upload # u
  BY <1>1, <1>3, <1>5, <1>6
<1> QED BY <1>1, <1>2, <1>3, <1>4, <1>6, <1>7 DEF f, u

(* A part that comes next is held after those before it.                    *)
LEMMA HoldsMore ==
    ASSUME NEW u \in Nat, NEW p \in Nat, p > 0, <<u, p>> \notin damaged,
           NEW parts \in Seq(Nat \X Nat), Holds(parts, u, p - 1)
    PROVE  Holds(Append(parts, <<u, p>>), u, p)
<1> DEFINE e == <<u, p>>
           s == Append(parts, e)
           n == Len(parts)
<1>1. e \in Nat \X Nat /\ e[2] = p /\ e \notin damaged
  OBVIOUS
<1> HIDE DEF e
<1>2. /\ n \in Nat /\ DOMAIN parts = 1..n /\ DOMAIN s = 1..(n + 1)
      /\ \A i \in 1..n : s[i] = parts[i]
      /\ s[n + 1] = e
  BY <1>1, Appended, NonEmpty
<1>3. /\ {parts[i] : i \in DOMAIN parts} = {<<u, q>> : q \in 1..(p - 1)} \ damaged
      /\ \A i, j \in DOMAIN parts : i < j => parts[i][2] < parts[j][2]
  BY DEF Holds
<1> HIDE DEF s, n
<1>4. {s[i] : i \in DOMAIN s} = {parts[i] : i \in DOMAIN parts} \cup {e}
  <2>1. \A i \in DOMAIN s : s[i] = e \/ (i \in DOMAIN parts /\ s[i] = parts[i])
    BY <1>2
  <2>2. \A i \in DOMAIN parts : i \in DOMAIN s /\ s[i] = parts[i]
    BY <1>2
  <2>3. n + 1 \in DOMAIN s
    BY <1>2
  <2> QED BY <1>2, <2>1, <2>2, <2>3
<1>5. {<<u, q>> : q \in 1..p} = {<<u, q>> : q \in 1..(p - 1)} \cup {e}
  BY DEF e
<1>6. {s[i] : i \in DOMAIN s} = {<<u, q>> : q \in 1..p} \ damaged
  BY <1>1, <1>3, <1>4, <1>5
<1>7. \A i \in DOMAIN parts : parts[i][2] < p
  <2> TAKE i \in DOMAIN parts
  <2>1. PICK q \in 1..(p - 1) : parts[i] = <<u, q>>
    BY <1>3
  <2> QED BY <2>1
<1>8. ASSUME NEW i \in DOMAIN s, NEW j \in DOMAIN s, i < j
      PROVE  s[i][2] < s[j][2]
  <2>1. i \in 1..n /\ s[i] = parts[i]
    BY <1>2, <1>8
  <2>2. CASE j \in 1..n
    BY <1>2, <1>3, <1>8, <2>1, <2>2
  <2>3. CASE j = n + 1
    BY <1>1, <1>2, <1>7, <2>1, <2>3
  <2> QED BY <1>2, <2>2, <2>3
<1>9. Holds(s, u, p)
  BY <1>6, <1>8 DEF Holds
<1> QED BY <1>9 DEF s, e

(* A part that is refused leaves what there is.                             *)
LEMMA HoldsStill ==
    ASSUME NEW u \in Nat, NEW p \in Nat, p > 0, NEW parts \in Seq(Nat \X Nat),
           Holds(parts, u, p - 1), damaged' = damaged \cup {<<u, p>>}
    PROVE  Holds(parts, u, p)'
<1> DEFINE e == <<u, p>>
<1>1. /\ {parts[i] : i \in DOMAIN parts} = {<<u, q>> : q \in 1..(p - 1)} \ damaged
      /\ \A i, j \in DOMAIN parts : i < j => parts[i][2] < parts[j][2]
  BY DEF Holds
<1>2. {<<u, q>> : q \in 1..p} = {<<u, q>> : q \in 1..(p - 1)} \cup {e}
  OBVIOUS
<1>3. \A q \in 1..(p - 1) : <<u, q>> # e
  OBVIOUS
<1> HIDE DEF e
<1>4. ({<<u, q>> : q \in 1..(p - 1)} \cup {e}) \ (damaged \cup {e})
          = {<<u, q>> : q \in 1..(p - 1)} \ damaged
  BY <1>3
<1>5. damaged' = damaged \cup {e}
  BY DEF e
<1>6. {parts[i] : i \in DOMAIN parts} = {<<u, q>> : q \in 1..p} \ damaged'
  BY <1>1, <1>2, <1>4, <1>5
<1> QED BY <1>1, <1>6 DEF Holds

(* An entry of the table after a step, from the file it names.              *)
LEMMA EntryNext ==
    ASSUME NEW n, NEW h, NEW v, NEW k, NEW parts,
           h = files'[clientFileReceivers'[n]], parts = h.parts, Cursor' = <<v, k>>,
           h.upload <= v, h.upload = v => k > 0, h.upload < v => h.upload \in timedOut',
           k > 0 /\ NameOf[v] = n => Holds(parts, v, k - 1)',
           ~(k > 0 /\ NameOf[v] = n) => parts = <<>>
    PROVE  Entry(n)'
BY DEF Entry, Holds

LEMMA ReceivePartKeeps == IInv /\ receiveFilePart => IInv'
<1> SUFFICES ASSUME IInv, receiveFilePart PROVE IInv'
  OBVIOUS
<1> USE DEF IInv
<1> DEFINE m == Head(toServer)
           u == m.upload
           e == <<u, m.part>>
           c == clientFileReceivers[m.name]
<1>1. /\ Arrived("part") /\ Taken
      /\ UNCHANGED <<clientVars, connected, connection, clientFileReceivers, closing,
                     repaired, timedOut, began, sent, earlier>>
  BY DEF receiveFilePart, historyVars
<1>2. /\ m.type = "part" /\ m.name = NameOf[u] /\ u \in Upload /\ u \in 1..upload
      /\ u \in Nat /\ PartsOf[u] \in Nat /\ Live /\ Cursor = <<u, m.part>>
      /\ m.part \in 1..PartsOf[u] /\ Rank(m) = m.part /\ serving
  BY <1>1, Front DEF Rank
<1>3. \/ /\ m.name \notin DOMAIN clientFileReceivers
         /\ UNCHANGED <<files, serving, downloading, faults, damaged>>
      \/ /\ m.name \in DOMAIN clientFileReceivers
         /\ faults < MaxFaults /\ faults' = faults + 1 /\ damaged' = damaged \cup {e}
         /\ downloading' = TRUE /\ UNCHANGED <<files, serving>>
      \/ /\ m.name \in DOMAIN clientFileReceivers
         /\ files' = [files EXCEPT ![c].parts = Append(@, e)]
         /\ downloading' = TRUE /\ UNCHANGED <<serving, faults, damaged>>
      \/ /\ serving' = FALSE /\ UNCHANGED <<files, downloading, faults, damaged>>
  BY DEF receiveFilePart, Known
<1>4. \A n \in DOMAIN clientFileReceivers :
         LET f == files[clientFileReceivers[n]] IN
         /\ clientFileReceivers[n] \in DOMAIN files /\ f \in FileRecord
         /\ f.upload \in Nat /\ f.parts \in Seq(Nat \X Nat)
         /\ f.output \in {"open", "none"} /\ NameOf[f.upload] = n
         /\ f.upload <= u /\ (f.upload < u => f.upload \in timedOut)
         /\ IF n = NameOf[u] THEN Holds(f.parts, u, m.part - 1)
            ELSE f.parts = <<>> /\ f.upload # u
  BY <1>1, <1>2, TableFile
<1>5. /\ UNCHANGED <<upload, step, fileAccepted, acknowledged, offset, connected,
                     connection, closing, repaired, timedOut, began, sent,
                     earlier, clientFileReceivers>>
  BY <1>1 DEF clientVars
<1>6. e \in Nat \X Nat /\ e \notin damaged
  <2>1. e \in Nat \X Nat /\ e[1] = u /\ e[2] = m.part
    BY <1>2
  <2>2. 1 \in DOMAIN toServer /\ m = toServer[1]
    BY <1>1, Cursors DEF Arrived
  <2>3. e \in damaged => Less(e, Mark(m))
    BY <2>2 DEF Refused
  <2>4. Mark(m) = e
    BY <1>2 DEF Mark
  <2> HIDE DEF e, m, u
  <2> QED BY <2>1, <2>3, <2>4, <1>2 DEF Less
<1>7. m.part \in Nat /\ m.part > 0
  BY <1>2
<1>8. files \in Seq(FileRecord) /\ \A i \in DOMAIN files : files[i] \in FileRecord
  BY NonEmpty DEF Shape
<1> DEFINE g == [files[c] EXCEPT !.parts = Append(@, e)]
<1>9. ASSUME m.name \in DOMAIN clientFileReceivers,
             files' = [files EXCEPT ![c].parts = Append(@, e)]
      PROVE  /\ g \in FileRecord /\ g.upload = files[c].upload
             /\ g.output = files[c].output /\ g.parts = Append(files[c].parts, e)
             /\ c \in DOMAIN files /\ files' = [files EXCEPT ![c] = g]
             /\ files' \in Seq(FileRecord)
  <2>1. c \in DOMAIN files /\ files[c] \in FileRecord
    BY <1>4, <1>9
  <2>2. Append(files[c].parts, e) \in Seq(Nat \X Nat)
    BY <1>4, <1>6, <1>9, Appended
  <2>3. /\ g \in FileRecord /\ g.upload = files[c].upload /\ g.output = files[c].output
        /\ g.parts = Append(files[c].parts, e)
    BY <2>1, <2>2 DEF FileRecord
  <2>4. files' = [files EXCEPT ![c] = g]
    BY <1>9
  <2> HIDE DEF g, c
  <2>5. files' \in Seq(FileRecord)
    BY <1>8, <2>1, <2>3, <2>4, ExceptSeq
  <2> QED BY <2>1, <2>3, <2>4, <2>5
<1>10. /\ files' \in Seq(FileRecord) /\ DOMAIN files' = DOMAIN files
       /\ \A i \in DOMAIN files :
             /\ files'[i].upload = files[i].upload /\ files'[i].output = files[i].output
             /\ files'[i] # files[i] =>
                   /\ m.name \in DOMAIN clientFileReceivers /\ i = c
                   /\ files'[i].parts = Append(files[i].parts, e) /\ damaged' = damaged
  <2>1. CASE files' = files
    BY <2>1, <1>8
  <2>2. CASE /\ m.name \in DOMAIN clientFileReceivers /\ damaged' = damaged
             /\ files' = [files EXCEPT ![c].parts = Append(@, e)]
    <3>1. /\ g.upload = files[c].upload
          /\ g.output = files[c].output /\ g.parts = Append(files[c].parts, e)
          /\ c \in DOMAIN files /\ files' = [files EXCEPT ![c] = g]
          /\ files' \in Seq(FileRecord)
      BY <2>2, <1>9
    <3> HIDE DEF g, c
    <3> QED BY <2>2, <3>1
  <2> QED BY <2>1, <2>2, <1>3
<1>11. damaged' \in {damaged, damaged \cup {e}} /\ (serving' => serving)
  BY <1>2, <1>3
<1> HIDE DEF g
<1>12. /\ toServer' \in Seq(Envelope) /\ Wire' /\ Refused' /\ Fresh'
       /\ Live' => Follows(Cursor, Cursor')
       /\ Online' <=> Online
       /\ \A v : Past(v) => Past(v)'
       /\ \A v, parts : Past(v) /\ Stored(parts, v) => Stored(parts, v)'
  BY <1>1, <1>11, ReceiveStep
<1>13. \A i \in DOMAIN files : files[i].output = "closed" => files'[i] = files[i]
  <2> TAKE i \in DOMAIN files
  <2>1. i = c /\ m.name \in DOMAIN clientFileReceivers => files[i].output # "closed"
    BY <1>4
  <2> QED BY <1>10, <2>1
<1> HIDE DEF c
<1>14. Closed'
  <2>1. upload \in Nat
    BY Numbers
  <2>2. \A i \in DOMAIN files' :
           files'[i].output = "closed" => i \in DOMAIN files /\ files'[i] = files[i]
    BY <1>10, <1>13
  <2>3. \A i \in DOMAIN files : i \in DOMAIN files' /\ Keeps(files'[i], files[i])
    BY <1>10 DEF Keeps
  <2> QED BY <1>5, <1>12, <2>1, <2>2, <2>3, ClosedStays
<1>22. FreshTable'
  BY <1>4, <1>5, <1>10 DEF FreshTable
<1>15. Ended'
  <2>1. \A i \in DOMAIN files :
           files[i].output = "closed" => i \in DOMAIN files' /\ files'[i] = files[i]
    BY <1>10, <1>13
  <2> QED BY <1>1, <1>11, <2>1, ReceiveEnded
<1>16. faults' \in 0..MaxFaults /\ downloading' \in BOOLEAN /\ serving' \in BOOLEAN
  <2>1. faults' = faults \/ (faults < MaxFaults /\ faults' = faults + 1)
    BY <1>3
  <2>2. faults' \in 0..MaxFaults
    BY <2>1, TransferBounds DEF TypeOK
  <2>3. downloading' = downloading \/ downloading' = TRUE
    BY <1>3
  <2>4. serving' = serving \/ serving' = FALSE
    BY <1>3
  <2>5. downloading \in BOOLEAN /\ serving \in BOOLEAN
    BY DEF Shape
  <2> QED BY <2>2, <2>3, <2>4, <2>5
<1>17. \A n \in DOMAIN clientFileReceivers' :
          /\ clientFileReceivers'[n] \in DOMAIN files'
          /\ files'[clientFileReceivers'[n]].output # "closed"
          /\ NameOf[files'[clientFileReceivers'[n]].upload] = n
  BY <1>4, <1>5, <1>10
<1>18. TypeOK'
  BY <1>5, <1>10, <1>16, <1>17 DEF TypeOK
<1>19. Shape'
  BY <1>5, <1>10, <1>12, <1>16, <1>17 DEF Shape
<1>20. Local'
  <2>1. files # <<>> => files' # <<>>
    <3>1. Len(files) \in Nat /\ Len(files') \in Nat /\ DOMAIN files = 1..Len(files)
          /\ DOMAIN files' = 1..Len(files')
          /\ (files # <<>> <=> Len(files) > 0) /\ (files' # <<>> <=> Len(files') > 0)
      BY <1>8, <1>10, NonEmpty
    <3>2. Len(files) > 0 => 1 \in DOMAIN files
      BY <3>1
    <3> QED BY <3>1, <3>2, <1>10
  <2>2. downloading' => files # <<>>
    <3>1. m.name \in DOMAIN clientFileReceivers => files # <<>>
      BY <1>4, Nothing
    <3> QED BY <1>3, <3>1 DEF Local
  <2>3. serving' => connected
    BY <1>11 DEF Local
  <2> QED BY <1>5, <2>1, <2>2, <2>3 DEF Local
<1>21. Live' => Table'
  <2> SUFFICES ASSUME Live' PROVE Table'
    OBVIOUS
  <2>1. Cursor' = <<u, m.part + 1>>
    BY <1>2, <1>12 DEF Follows
  <2>2. serving'
    BY DEF Live
  <2>3. ASSUME NEW n \in DOMAIN clientFileReceivers
        PROVE  Entry(n)'
    <3>0. PICK v, q, f, h, old, new :
             /\ v = u /\ q = m.part /\ f = files[clientFileReceivers[n]]
             /\ h = files'[clientFileReceivers[n]] /\ old = f.parts /\ new = h.parts
      OBVIOUS
    <3>1. /\ clientFileReceivers[n] \in DOMAIN files /\ f.upload \in Nat
          /\ old \in Seq(Nat \X Nat)
          /\ f.upload <= v /\ (f.upload < v => f.upload \in timedOut)
          /\ h.upload = f.upload
          /\ IF n = NameOf[v] THEN Holds(old, v, q - 1)
             ELSE old = <<>> /\ f.upload # v
      BY <1>4, <1>10, <3>0
    <3>2. e = <<v, q>> /\ v \in Nat /\ q \in Nat /\ q > 0
      BY <1>2, <1>7, <3>0
    <3>3. n = NameOf[v] <=> n = m.name
      BY <1>2, <3>0
    <3>4. n = m.name => c = clientFileReceivers[n]
      BY DEF c
    <3>5. Cursor' = <<v, q + 1>>
      BY <2>1, <3>0
    <3> HIDE DEF m, u, e
    <3>6. CASE n = NameOf[v]
      <4>1. Holds(old, v, q - 1)
        BY <3>1, <3>6
      <4>4. m.name \in DOMAIN clientFileReceivers
        BY <3>3, <3>6
      <4>5. Holds(new, v, q)'
        <5>1. CASE damaged' = damaged \cup {e} /\ files' = files
          <6>1. Holds(old, v, q)'
            BY <3>1, <3>2, <4>1, <5>1, HoldsStill
          <6>2. new = old
            BY <3>0, <5>1
          <6> QED BY <6>1, <6>2
        <5>2. CASE /\ m.name \in DOMAIN clientFileReceivers /\ damaged' = damaged
                   /\ files' = [files EXCEPT ![c].parts = Append(@, e)]
          <6>1. new = Append(old, e)
            <7>1. g.parts = Append(files[c].parts, e) /\ c \in DOMAIN files
                  /\ files' = [files EXCEPT ![c] = g]
              BY <1>9, <5>2
            <7>2. c = clientFileReceivers[n]
              BY <3>3, <3>4, <3>6
            <7> QED BY <3>0, <7>1, <7>2
          <6>2. Holds(new, v, q)
            BY <1>6, <3>1, <3>2, <4>1, <6>1, HoldsMore
          <6> QED BY <6>2, <5>2 DEF Holds
        <5> QED BY <1>3, <2>2, <4>4, <5>1, <5>2
      <4>6. (q + 1) - 1 = q /\ q + 1 > 0
        BY <3>2
      <4>7. PICK k : k = q + 1
        OBVIOUS
      <4>8. Holds(new, v, k - 1)'
        BY <4>5, <4>6, <4>7
      <4> QED BY <1>5, <3>0, <3>1, <3>2, <3>5, <3>6, <4>6, <4>7, <4>8, EntryNext
    <3>7. CASE n # NameOf[v]
      <4>1. clientFileReceivers[n] # c \/ m.name \notin DOMAIN clientFileReceivers
        <5>1. m.name \in DOMAIN clientFileReceivers => NameOf[files[c].upload] = m.name
          BY <1>4 DEF c
        <5>2. NameOf[files[clientFileReceivers[n]].upload] = n
          BY <1>4
        <5> QED BY <3>3, <3>7, <5>1, <5>2
      <4>2. h = f
        BY <1>10, <3>0, <3>1, <4>1
      <4>3. new = <<>> /\ h.upload <= v /\ h.upload # v
        BY <3>0, <3>1, <3>7, <4>2
      <4>4. PICK k : k = q + 1
        OBVIOUS
      <4> QED BY <1>5, <3>0, <3>1, <3>5, <3>7, <4>2, <4>3, <4>4, EntryNext
    <3> QED BY <3>6, <3>7
  <2>4. Online' /\ Cursor'[2] > 0 /\ began'[Cursor'[1]] = connection' =>
           NameOf[Cursor'[1]] \in DOMAIN clientFileReceivers'
    <3>1. Online /\ began[u] = connection => NameOf[u] \in DOMAIN clientFileReceivers
      BY <1>2, <1>7 DEF Table
    <3> HIDE DEF u, m
    <3> QED BY <1>5, <1>12, <2>1, <3>1
  <2> QED BY <1>5, <2>3, <2>4 DEF Table
<1> QED BY <1>12, <1>14, <1>15, <1>18, <1>19, <1>20, <1>21, <1>22

(* The file is closed with all the parts that were not refused, and leaves  *)
(* the table empty but for files of uploads that timed out.                 *)
LEMMA ReceiveEndKeeps == IInv /\ receiveFileEnd => IInv'
<1> SUFFICES ASSUME IInv, receiveFileEnd PROVE IInv'
  OBVIOUS
<1> USE DEF IInv
<1> DEFINE m == Head(toServer)
           u == m.upload
           c == clientFileReceivers[m.name]
<1>1. /\ Arrived("file-finished") /\ Taken
      /\ UNCHANGED <<clientVars, connected, connection, closing, repaired, timedOut,
                     began, sent, earlier, faults, damaged>>
      /\ downloading' = FALSE
  BY DEF receiveFileEnd, historyVars
<1>2. /\ m.type = "file-finished" /\ m.name = NameOf[u] /\ u \in Upload /\ u \in 1..upload
      /\ u \in Nat /\ PartsOf[u] \in Nat /\ Live /\ serving
      /\ Rank(m) = PartsOf[u] + 1 /\ Cursor = <<u, PartsOf[u] + 1>>
  BY <1>1, Front DEF Rank
<1> DEFINE closes == /\ m.name \in DOMAIN clientFileReceivers
                     /\ files' = [files EXCEPT ![c].output = "closed"]
                     /\ clientFileReceivers' = Forget(m.name)
                     /\ serving' = serving
<1>3. \/ /\ m.name \notin DOMAIN clientFileReceivers
         /\ UNCHANGED <<files, serving, clientFileReceivers>>
      \/ serving' = FALSE /\ UNCHANGED <<files, clientFileReceivers>>
      \/ closes
  BY DEF receiveFileEnd, Known
<1>4. \A n \in DOMAIN clientFileReceivers :
         LET f == files[clientFileReceivers[n]] IN
         /\ clientFileReceivers[n] \in DOMAIN files /\ f \in FileRecord
         /\ f.upload \in Nat /\ f.parts \in Seq(Nat \X Nat)
         /\ f.output \in {"open", "none"} /\ NameOf[f.upload] = n
         /\ f.upload <= u /\ (f.upload < u => f.upload \in timedOut)
         /\ IF n = NameOf[u] THEN Holds(f.parts, u, Rank(m) - 1)
            ELSE f.parts = <<>> /\ f.upload # u
  BY <1>1, <1>2, TableFile
<1>5. /\ UNCHANGED <<upload, step, fileAccepted, acknowledged, offset, connected,
                     connection, closing, repaired, timedOut, began, sent,
                     earlier, faults, damaged>>
  BY <1>1 DEF clientVars
<1>6. files \in Seq(FileRecord) /\ \A i \in DOMAIN files : files[i] \in FileRecord
  BY NonEmpty DEF Shape
<1> DEFINE g == [files[c] EXCEPT !.output = "closed"]
<1>7. ASSUME closes
      PROVE  /\ g \in FileRecord /\ g.upload = files[c].upload
             /\ g.output = "closed" /\ g.parts = files[c].parts
             /\ c \in DOMAIN files /\ files' = [files EXCEPT ![c] = g]
             /\ files' \in Seq(FileRecord)
  <2>1. c \in DOMAIN files /\ files[c] \in FileRecord
    BY <1>4, <1>7
  <2>2. /\ g \in FileRecord /\ g.upload = files[c].upload /\ g.output = "closed"
        /\ g.parts = files[c].parts
    BY <2>1 DEF FileRecord
  <2>3. files' = [files EXCEPT ![c] = g]
    BY <1>7
  <2> HIDE DEF g, c
  <2>4. files' \in Seq(FileRecord)
    BY <1>6, <2>1, <2>2, <2>3, ExceptSeq
  <2> QED BY <2>1, <2>2, <2>3, <2>4
<1>8. /\ files' \in Seq(FileRecord) /\ DOMAIN files' = DOMAIN files
      /\ \A i \in DOMAIN files :
            /\ files'[i].upload = files[i].upload /\ files'[i].parts = files[i].parts
            /\ files'[i] # files[i] =>
                  closes /\ i = c /\ files'[i].output = "closed"
  <2>1. CASE files' = files
    BY <2>1, <1>6
  <2>2. CASE closes
    <3>1. /\ g.upload = files[c].upload
          /\ g.output = "closed" /\ g.parts = files[c].parts
          /\ c \in DOMAIN files /\ files' = [files EXCEPT ![c] = g]
          /\ files' \in Seq(FileRecord)
      BY <2>2, <1>7
    <3> HIDE DEF g, c
    <3> QED BY <2>2, <3>1
  <2> QED BY <2>1, <2>2, <1>3
<1>9. serving' => serving
  BY <1>2
<1>10. /\ toServer' \in Seq(Envelope) /\ Wire' /\ Refused' /\ Fresh'
       /\ Live' => Follows(Cursor, Cursor')
       /\ Online' <=> Online
       /\ \A v : Past(v) => Past(v)'
       /\ \A v, parts : Past(v) /\ Stored(parts, v) => Stored(parts, v)'
       /\ \A v : v = u => Past(v)'
       /\ Cursor'[1] \in Nat
  BY <1>1, <1>9, ReceiveStep
<1>11. \A i \in DOMAIN files : files[i].output = "closed" => files'[i] = files[i]
  <2> TAKE i \in DOMAIN files
  <2>1. i = c /\ m.name \in DOMAIN clientFileReceivers => files[i].output # "closed"
    BY <1>4
  <2> QED BY <1>8, <2>1
<1>12. PICK v, d, parts : v = u /\ d = c /\ parts = files[d].parts
  OBVIOUS
<1>13. closes => /\ d \in DOMAIN files' /\ files'[d].output = "closed"
                 /\ files'[d].upload \in (earlier + 1)..v
                 /\ files'[d].parts = parts /\ Past(v)' /\ Stored(parts, v)'
  <2> SUFFICES ASSUME closes
               PROVE  /\ d \in DOMAIN files' /\ files'[d].output = "closed"
                      /\ files'[d].upload \in (earlier + 1)..v
                      /\ files'[d].parts = parts /\ Past(v)' /\ Stored(parts, v)'
    OBVIOUS
  <2>1. c \in DOMAIN files /\ files'[c] = g /\ g.output = "closed"
        /\ g.parts = files[c].parts
    BY <1>7
  <2>2. Holds(parts, v, Rank(m) - 1)
    BY <1>2, <1>4, <1>12
  <2>3. Rank(m) - 1 = PartsOf[v]
    BY <1>2, <1>12
  <2>4. Stored(parts, v)
    BY <2>2, <2>3 DEF Stored
  <2>5. Stored(parts, v)'
    BY <1>5, <2>4 DEF Stored, Holds
  <2>6. Past(v)'
    BY <1>10, <1>12
  <2>7. /\ files[c].upload \in Nat /\ files[c].upload <= u /\ files[c].upload > earlier
        /\ earlier \in Nat /\ v \in Nat
    BY <1>2, <1>4, <1>12, Numbers DEF FreshTable
  <2> HIDE DEF c, g
  <2>8. files'[d].upload = files[c].upload
    BY <1>8, <1>12, <2>1
  <2>9. files[c].upload \in (earlier + 1)..v
    <3> HIDE DEF u
    <3> QED BY <1>12, <2>7
  <2> QED BY <1>8, <1>12, <2>1, <2>5, <2>6, <2>8, <2>9
<1>14. Closed'
  <2> SUFFICES ASSUME NEW i \in DOMAIN files', files'[i].output = "closed", ~Overwritten(i)'
               PROVE  \E w \in Nat : IsOf(i, w)'
    BY DEF Closed
  <2>4. \A j \in DOMAIN files : j \in DOMAIN files' /\ Keeps(files'[j], files[j])
    BY <1>8 DEF Keeps
  <2>1. i \in DOMAIN files /\ ~Overwritten(i)
    BY <1>8, <2>4, OverwrittenStays
  <2>2. CASE files'[i] = files[i]
    <3>1. PICK w \in Nat : IsOf(i, w)
      BY <2>1, <2>2 DEF Closed
    <3>2. upload \in Nat
      BY Numbers
    <3>3. IsOf(i, w)'
      BY <1>5, <1>10, <2>1, <2>2, <3>1, <3>2, IsOfStays
    <3> QED BY <3>3
  <2>3. CASE files'[i] # files[i]
    <3>1. closes /\ i = d /\ files'[i].upload = files[c].upload
          /\ files'[i].upload = files[i].upload
      BY <1>8, <1>12, <2>1, <2>3
    <3>2. /\ files[c].upload \in Nat /\ NameOf[files[c].upload] = NameOf[u]
          /\ files[c].upload <= u /\ (files[c].upload < u => files[c].upload \in timedOut)
      BY <1>2, <1>4, <3>1
    <3>3. files'[i].parts = parts /\ Past(v)' /\ Stored(parts, v)'
      BY <1>13, <3>1
    <3>4. /\ v \in files'[i].upload..upload' /\ v \in Nat
          /\ v # files'[i].upload =>
                files'[i].upload \in timedOut' /\ NameOf[v] = NameOf[files'[i].upload]
      <4>1. v \in Nat /\ v <= upload' /\ upload' \in Nat
        BY <1>2, <1>5, <1>12, Numbers
      <4> HIDE DEF u, c, m, g, closes
      <4> QED BY <1>5, <1>12, <3>1, <3>2, <4>1
    <3>5. IsOf(i, v)'
      BY <3>3, <3>4 DEF IsOf
    <3> QED BY <3>4, <3>5
  <2> QED BY <2>2, <2>3
<1>15. Ended'
  <2>1. \A i \in DOMAIN files :
           files[i].output = "closed" => i \in DOMAIN files' /\ files'[i] = files[i]
    BY <1>8, <1>11
  <2>2. ASSUME serving', Online, began[u] = connection
        PROVE  \A w : w = u => StoredFile(w)'
    <3>1. NameOf[u] \in DOMAIN clientFileReceivers
      <4>1. Cursor[2] > 0 /\ Cursor[1] = u
        BY <1>2
      <4> QED BY <1>2, <2>2, <4>1 DEF Table
    <3>2. closes
      BY <1>2, <1>3, <2>2, <3>1
    <3>3. StoredFile(v)'
      BY <1>5, <1>13, <3>2 DEF StoredFile
    <3> QED BY <1>12, <3>3
  <2> QED BY <1>1, <1>9, <2>1, <2>2, ReceiveEnded
<1>16. downloading' \in BOOLEAN /\ serving' \in BOOLEAN
  <2>1. serving' = serving \/ serving' = FALSE
    BY <1>3
  <2>2. serving \in BOOLEAN
    BY DEF Shape
  <2> QED BY <1>1, <2>1, <2>2
<1>17. /\ DOMAIN clientFileReceivers' \subseteq DOMAIN clientFileReceivers
       /\ \A n \in DOMAIN clientFileReceivers' :
             /\ clientFileReceivers'[n] = clientFileReceivers[n]
             /\ files'[clientFileReceivers[n]] = files[clientFileReceivers[n]]
       /\ serving' => m.name \notin DOMAIN clientFileReceivers'
  <2>1. CASE closes
    <3>1. /\ DOMAIN clientFileReceivers' = DOMAIN clientFileReceivers \ {m.name}
          /\ \A n \in DOMAIN clientFileReceivers' :
                clientFileReceivers'[n] = clientFileReceivers[n]
      BY <2>1 DEF Forget
    <3>2. \A n \in DOMAIN clientFileReceivers' :
             clientFileReceivers[n] \in DOMAIN files /\ clientFileReceivers[n] # c
      BY <1>4, <2>1, <3>1
    <3> QED BY <1>8, <3>1, <3>2
  <2>2. CASE files' = files /\ clientFileReceivers' = clientFileReceivers
    BY <1>3, <2>2 DEF Forget
  <2> QED BY <1>3, <2>1, <2>2
<1>18. \A n \in DOMAIN clientFileReceivers' :
          /\ clientFileReceivers'[n] \in DOMAIN files'
          /\ files'[clientFileReceivers'[n]].output # "closed"
          /\ NameOf[files'[clientFileReceivers'[n]].upload] = n
  <2> TAKE n \in DOMAIN clientFileReceivers'
  <2>1. /\ clientFileReceivers[n] \in DOMAIN files
        /\ files[clientFileReceivers[n]].output # "closed"
        /\ NameOf[files[clientFileReceivers[n]].upload] = n
    BY <1>4, <1>17
  <2> QED BY <1>8, <1>17, <2>1
<1>23. FreshTable'
  BY <1>5, <1>17 DEF FreshTable
<1>19. TypeOK'
  BY <1>5, <1>8, <1>18 DEF TypeOK
<1>20. Shape'
  BY <1>5, <1>8, <1>10, <1>16, <1>18 DEF Shape
<1>21. Local'
  BY <1>1, <1>5, <1>9 DEF Local
<1>22. Live' => Table'
  <2> SUFFICES ASSUME Live' PROVE Table'
    OBVIOUS
  <2>1. PICK b : b = Cursor'
    OBVIOUS
  <2>2. b[1] \in Nat /\ b[1] > u /\ b[2] = 0 /\ b = <<b[1], b[2]>>
    <3>1. Follows(<<u, PartsOf[u] + 1>>, b) /\ b[1] \in Nat
      BY <1>2, <1>10, <2>1
    <3>2. ~(PartsOf[u] + 1 <= PartsOf[u])
      BY <1>2
    <3> HIDE DEF u
    <3>3. b[1] > u /\ b[2] = 0
      BY <3>1, <3>2 DEF Follows
    <3>4. b = <<b[1], b[2]>>
      BY <2>1 DEF Cursor, Mark, ClientMark
    <3> QED BY <3>1, <3>3, <3>4
  <2>3. serving'
    BY DEF Live
  <2>4. ASSUME NEW n \in DOMAIN clientFileReceivers'
        PROVE  Entry(n)'
    <3>1. PICK h, rest, w : /\ h = files'[clientFileReceivers'[n]] /\ rest = h.parts
                            /\ w = b[1]
      OBVIOUS
    <3>2. n \in DOMAIN clientFileReceivers /\ n # m.name
          /\ h = files[clientFileReceivers[n]]
      BY <1>17, <2>3, <3>1
    <3>3. /\ rest = <<>> /\ h.upload \in Nat
          /\ h.upload <= u /\ h.upload # u /\ (h.upload < u => h.upload \in timedOut)
      BY <1>2, <1>4, <3>1, <3>2
    <3>4. /\ h.upload < w /\ h.upload \in timedOut'
      BY <1>2, <1>5, <2>2, <3>1, <3>3
    <3>5. w \in Nat /\ Cursor' = <<w, 0>>
      BY <2>1, <2>2, <3>1
    <3> HIDE DEF u, m, c
    <3>6. PICK k : k = 0
      OBVIOUS
    <3>7. h.upload <= w /\ h.upload # w /\ Cursor' = <<w, k>> /\ ~(k > 0)
      BY <3>3, <3>4, <3>5, <3>6
    <3> QED BY <3>1, <3>3, <3>4, <3>7, EntryNext
  <2>5. ~(Cursor'[2] > 0)
    BY <2>1, <2>2
  <2> QED BY <2>4, <2>5 DEF Table
<1> QED BY <1>10, <1>14, <1>15, <1>19, <1>20, <1>21, <1>22, <1>23

-----------------------------------------------------------------------------
LEMMA StutterKeeps == IInv /\ UNCHANGED vars => IInv'
<1> SUFFICES ASSUME IInv, UNCHANGED vars PROVE IInv'
  OBVIOUS
<1>1. /\ UNCHANGED <<upload, step, fileAccepted, acknowledged, offset, connected,
                     connection, toServer, toClient>>
      /\ UNCHANGED <<serving, clientFileReceivers, files, downloading, closing, repaired,
                     timedOut, began, sent, earlier, faults, damaged>>
  BY DEF vars, clientVars, wireVars, serverVars, historyVars
<1>2. TypeOK' /\ Shape' /\ Local'
  BY <1>1 DEF IInv, TypeOK, Shape, Local
<1>3. ClientMark' = ClientMark
  BY <1>1 DEF ClientMark
<1> QED BY <1>1, <1>2, <1>3, QuietStep

LEMMA Step == IInv /\ [Next]_vars => IInv'
BY StutterKeeps, SendFileKeeps, AcceptKeeps, AcknowledgedKeeps, TimeOutKeeps, PartKeeps,
   FinishedKeeps, ReceiveFileKeeps, ReceivePartKeeps, ReceiveEndKeeps, BreakKeeps,
   ReconnectKeeps, DisconnectKeeps, RevertKeeps DEF Next

LEMMA Invariance == Spec => []IInv
BY Initially, Step, PTL DEF Spec

(* The types of the uploader's, the receivers' and the connection's state,  *)
(* for any number of uploads: a file in clientFileReceivers is not closed   *)
(* and has the name it is found by.                                         *)
THEOREM TypeCorrect == Spec => []TypeOK
<1>1. IInv => TypeOK
  BY DEF IInv
<1> QED BY <1>1, Invariance, PTL

(* However uploads with one name, timeouts, damaged parts, connections that *)
(* break and visits of a retried group follow each other, the file that     *)
(* receiveFileEnd closed holds one upload, whole but for the parts          *)
(* receiveFilePart refused, unless ReceiveFile has opened it again.         *)
THEOREM ClosedFiles == Spec => []ClosedIsWhole
<1>1. IInv => ClosedIsWhole
  <2> SUFFICES ASSUME IInv, NEW i \in DOMAIN files, files[i].output = "closed", ~Overwritten(i)
               PROVE  \E u \in files[i].upload..upload :
                         /\ Stored(files[i].parts, u)
                         /\ u # files[i].upload =>
                               /\ files[i].upload \in timedOut
                               /\ NameOf[u] = NameOf[files[i].upload]
    BY DEF ClosedIsWhole
  <2>1. PICK u \in Nat : IsOf(i, u)
    BY DEF IInv, Closed
  <2> QED BY <2>1 DEF IsOf
<1> QED BY <1>1, Invariance, PTL

(* What sendFile calls sent, the server has stored once it has read it, if  *)
(* the upload began and ended on the connection there is and the receiver   *)
(* thread has survived.                                                     *)
THEOREM SentFiles == Spec => []SentIsStored
<1>1. IInv => SentIsStored
  <2> SUFFICES ASSUME IInv, NEW u \in DOMAIN sent, sent[u] = began[u],
                      sent[u] = connection, serving, Online,
                      \A i \in DOMAIN toServer : toServer[i].upload # u
               PROVE  \E i \in DOMAIN files :
                         files[i].output = "closed" /\ Stored(files[i].parts, u)
    BY DEF SentIsStored, Online
  <2>1. StoredFile(u)
    BY DEF IInv, Ended, EndedAt
  <2> QED BY <2>1 DEF StoredFile
<1> QED BY <1>1, Invariance, PTL
=============================================================================
