------------------------------ MODULE UrlGroups ------------------------------
(***************************************************************************)
(* The work of the server: UrlsController (the queue of URLs),             *)
(* UrlGroupsController (the queue of groups, divide and conquer, retries),  *)
(* UrlGroup, Url, and the handlers of Client that take a group, report on   *)
(* it and give it up.                                                       *)
(*                                                                          *)
(* The objects live in the record pool, and every method that changes them  *)
(* is a function from pool to pool, so that a handler that calls several    *)
(* methods is their composition.  One handler is one step: what the threads *)
(* of the server do to each other inside a handler is another module's      *)
(* subject.                                                                 *)
(*                                                                          *)
(* A group is an object with an identity: it can be in the queue and in the *)
(* hands of the client that gives it up at once.  A group nobody refers to  *)
(* is dropped (Sweep), and its number is used again.                        *)
(***************************************************************************)
EXTENDS Naturals, Sequences, FiniteSets, SequencesExt

CONSTANTS
    Url,                \* the Url objects, one for each accepted or refused event
    AddressOf,          \* what inUrlQueue compares: address, program, visit time
    PriorityOf,         \* Url.priority
    Client,             \* the connections; a new Client object replaces the old one
    GroupSize,          \* option group_size
    RevertAfterEachUrl, \* option revert-after-each-url
    Setups,             \* plugins: the algorithm of the program of each URL; terminate: the option
    Malicious,          \* the URLs that cause state changes when visited
    MaxFailed,          \* bound on the URLs one report marks as failed
    MaxQueue,           \* bound on the queue of groups
    NoClient            \* no client

(* What ApplicationPlugin.getAlgorithm of the plugins returns.              *)
Algorithm == {"dac", "bulk", "seq"}

ASSUME UrlGroupsAssumption ==
    /\ GroupSize \in Nat \ {0}
    /\ PriorityOf \in [Url -> Nat]
    /\ RevertAfterEachUrl \in BOOLEAN
    /\ Setups \subseteq [plugins : [Url -> Algorithm], terminate : BOOLEAN]
    /\ Malicious \subseteq Url
    /\ NoClient \notin Client

VARIABLES
    algorithmOf,\* of the plugin of each URL's program: chosen once
    offered,    \* the Url objects made so far
    accepted,   \* those that were put into the queue
    urlQueue,   \* UrlsController.urlQueue
    pool,       \* URLs, groups and the lists of UrlGroupsController
    cState,     \* Client.clientState
    cGroup,     \* Client.visitingUrlGroup, 0 for null
    cEvents,    \* state changes of the visit: noticed remotely, kept by the StateChangeHandler
    due,        \* the report on the group in hand that arrives next: "start", "end" or "none"
    listening,  \* clients whose receiver thread (ClientEventController.run) runs
    parked,     \* clients whose urlRetriever found no work and waits
    monitor,    \* QueueMonitor: the reads in a row that found nothing
    unsplit,    \* history: URLs of malicious groups left whole for want of an algorithm
    missed      \* history: URLs out of QueueMonitor's sight since its second look

vars == <<algorithmOf, offered, accepted, urlQueue, pool, cState, cGroup, cEvents, due,
          listening, parked, monitor, unsplit, missed>>

urlVars == <<algorithmOf, offered, accepted, urlQueue>>
clientVars == <<cState, cGroup, cEvents, due, listening, parked>>

OutcomeState == {"NONE", "VISITING", "VISITED", "ERROR"}

(* Error codes: OK, the ones that UrlGroupsController.update lists for a     *)
(* retry (VM_STALLED, CAPTURE_CLIENT_INACTIVITY and                          *)
(* CAPTURE_CLIENT_CONNECTION_RESET) and all the others.                      *)
Code == {"OK", "LISTED", "OTHER"}

NoEvents == [noticed |-> {}, kept |-> {}]

-----------------------------------------------------------------------------
(* UrlGroup and Url *)

\* The constructor of UrlGroup.
NewGroup(urls) ==
    [urls |-> urls, state |-> "NONE", errorCount |-> 0, retryCount |-> 0,
     malicious |-> FALSE, error |-> "OK", algorithm |-> "none"]

\* A new object, under the first free number.
FreeId(p) == CHOOSE n \in 1..(Cardinality(DOMAIN p.group) + 1) : n \notin DOMAIN p.group
AddGroup(p, urls) ==
    LET n == FreeId(p)
    IN  [p EXCEPT !.group = [g \in DOMAIN @ \cup {n} |-> IF g = n THEN NewGroup(urls) ELSE @[g]]]

\* The groups that are queued, listed, or in the hands of a client (held) remain.
Sweep(p, held) ==
    [p EXCEPT !.group = Restrict(@, DOMAIN @ \cap (ToSet(p.queue) \cup ToSet(p.visitingList) \cup held))]

UrlsOf(p, g) == ToSet(p.group[g].urls)

\* The URLs of group g become f(u), the others stay as they are.
OnUrls(p, g, f(_)) == [u \in Url |-> IF u \in UrlsOf(p, g) THEN f(u) ELSE p.url[u]]

(* UrlGroup.setMalicious, with the algorithm of the report.  Only bulk tells *)
(* the URLs of a group apart, by their state changes; else a verdict        *)
(* reaches the URLs when the group is clean or has a single URL.            *)
SetMalicious(p, g, algorithm, malicious, blamed) ==
    LET guilty(u) == IF algorithm = "bulk" THEN u \in blamed ELSE malicious
        judged(u) == [p.url[u] EXCEPT !.malicious = IF guilty(u) THEN "yes" ELSE "no"]
        told == algorithm = "bulk" \/ ~malicious \/ Len(p.group[g].urls) = 1
    IN  [p EXCEPT !.group[g].malicious = malicious,
                  !.url = IF told THEN OnUrls(p, g, judged) ELSE @]

\* UrlGroup.setMajorErrorCode
SetMajorErrorCode(p, g, code) == [p EXCEPT !.group[g].error = code]

-----------------------------------------------------------------------------
(* UrlGroupsController.update, called by UrlGroup.setUrlGroupState *)

\* Mutant: the second half starts one URL too late.
HalvesGap(urls) ==
    LET b == Len(urls) \div 2
    IN  <<SubSeq(urls, 1, b), SubSeq(urls, b + 2, Len(urls))>>

\* The two halves of a group; the second is the longer one.
Halves(urls) ==
    LET b == Len(urls) \div 2
    IN  <<SubSeq(urls, 1, b), SubSeq(urls, b + 1, Len(urls))>>

\* Mutant: divide and conquer never divides.
SplitsNever(group) == FALSE

\* A group that divide and conquer takes apart.
Splits(group) == group.algorithm = "dac" /\ group.malicious /\ Len(group.urls) > 1

\* urlGroupQueue.push(new UrlGroup(urls, false))
Push(p, urls) == [AddGroup(p, urls) EXCEPT !.queue = Cons(FreeId(p), @)]

\* Two new groups; the second push leaves the second half in front.
PushHalves(p, g) == LET h == Halves(p.group[g].urls) IN Push(Push(p, h[1]), h[2])

PushHalvesIfSplit(p, g) == IF Splits(p.group[g]) THEN PushHalves(p, g) ELSE p

\* Mutant: a group is retried as often as it fails.
RetryGroupAlways(p, g) ==
    IF Splits(p.group[g]) THEN p
    ELSE [p EXCEPT !.group[g].retryCount = @ + 1, !.queue = Cons(g, @)]

\* Mutant: the test of errorCount is replaced by one of the queue.
RetryGroupForever(p, g) ==
    IF Splits(p.group[g]) \/ Contains(p.queue, g) THEN p
    ELSE [p EXCEPT !.queue = Cons(g, @)]

\* Mutant: a group that is split is also retried as a whole.
RetryGroupAfterSplit(p, g) ==
    IF p.group[g].errorCount > 1 THEN p
    ELSE [p EXCEPT !.group[g].retryCount = @ + 1, !.queue = Cons(g, @)]

(* The retry of a failed group.  networkReset is true from the start, so    *)
(* every error code is retried, once: errorCount counts this failure too.   *)
RetryGroup(p, g) ==
    IF Splits(p.group[g]) \/ p.group[g].errorCount > 1 THEN p
    ELSE [p EXCEPT !.group[g].retryCount = @ + 1, !.queue = Cons(g, @)]

\* setVisitStartTime of the URLs and setUrlGroupState(VISITING)
SetVisiting(p, g) ==
    LET visiting(u) == [p.url[u] EXCEPT !.state = "VISITING", !.started = TRUE]
    IN  [p EXCEPT !.group[g].state = "VISITING",
                  !.url = OnUrls(p, g, visiting),
                  !.visitingList = Append(@, g)]

\* Mutant: the group stays in the visiting list.
SetVisitedStillListed(p, g) ==
    LET visited(u) == [p.url[u] EXCEPT !.state = IF p.url[u].error = "OK" THEN "VISITED" ELSE "ERROR"]
    IN  PushHalvesIfSplit([p EXCEPT !.group[g].state = "VISITED", !.url = OnUrls(p, g, visited)], g)

(* setUrlGroupState(VISITED).  A URL with an error code, from this visit or *)
(* an earlier one, ends in ERROR.                                           *)
SetVisited(p, g) ==
    LET visited(u) == [p.url[u] EXCEPT !.state = IF p.url[u].error = "OK" THEN "VISITED" ELSE "ERROR"]
    IN  PushHalvesIfSplit([p EXCEPT !.group[g].state = "VISITED",
                                    !.url = OnUrls(p, g, visited),
                                    !.visitingList = RemoveFirst(@, g)], g)

(* The first URL of a group that Url.setUrlState cannot make VISITED: the   *)
(* time it takes to Stats is null when no start was reported for it.        *)
Startless(p, g) ==
    {i \in DOMAIN p.group[g].urls :
        LET x == p.url[p.group[g].urls[i]]
        IN  ~x.started /\ x.error = "OK" /\ x.state # "VISITED"}

(* What setUrlGroupState(VISITED) leaves when it ends there: the URLs after  *)
(* that one keep their state, and update is not called.                     *)
SetVisitedThrows(p, g) ==
    LET urls == p.group[g].urls
        n == CHOOSE i \in Startless(p, g) : \A j \in Startless(p, g) : i <= j
        visited(u) == IF u \in {urls[i] : i \in 1..n}
                      THEN [p.url[u] EXCEPT !.state = IF p.url[u].error = "OK" THEN "VISITED" ELSE "ERROR"]
                      ELSE p.url[u]
    IN  [p EXCEPT !.group[g].state = "VISITED", !.url = OnUrls(p, g, visited)]

\* errorCount is only compared with 1: what lies beyond 2 is 2.
ErrorBound == 2

\* setUrlGroupState(ERROR): every URL gets the group's code.
SetError(p, g) ==
    LET failed(u) == [p.url[u] EXCEPT !.state = "ERROR", !.error = p.group[g].error]
        q == [p EXCEPT !.group[g].state = "ERROR",
                       !.group[g].errorCount = IF @ < ErrorBound THEN @ + 1 ELSE @,
                       !.url = OnUrls(p, g, failed),
                       !.visitingList = RemoveFirst(@, g)]
    IN  RetryGroup(PushHalvesIfSplit(q, g), g)

-----------------------------------------------------------------------------
(* Client.disconnect, as far as the group goes: it is marked in error, the  *)
(* socket is closed, it is marked in error once more with its reason.       *)
Abandon(p, g) ==
    IF g = 0 THEN p
    ELSE LET first  == SetError(p, g)
             second == IF first.group[g].malicious THEN first
                       ELSE SetMalicious(first, g, "dac", FALSE, {})
         IN  SetError(SetMajorErrorCode(second, g, "LISTED"), g)

\* What a clean visit leads to.
AfterVisit == IF RevertAfterEachUrl THEN "DISCONNECTED" ELSE "WAITING"

-----------------------------------------------------------------------------
(* UrlsController *)

\* UrlsController.inUrlQueue
InUrlQueue(u) == \E v \in urlQueue : AddressOf[v] = AddressOf[u]

\* UrlsController.addUrlEvent and addUrl.
AddUrl(u) ==
    /\ u \notin offered
    /\ offered' = offered \cup {u}
    /\ IF InUrlQueue(u) THEN UNCHANGED <<accepted, urlQueue>>
       ELSE /\ accepted' = accepted \cup {u}
            /\ urlQueue' = urlQueue \cup {u}
    /\ UNCHANGED <<algorithmOf, pool, clientVars, monitor, unsplit>>

\* The sequences that n calls of takeUrl may return: highest priority first.
TakeUrls(n) ==
    {s \in [1..n -> urlQueue] :
        /\ IsInjective(s)
        /\ \A i \in 1..n : \A u \in urlQueue \ {s[j] : j \in 1..i} :
               PriorityOf[s[i]] >= PriorityOf[u]}

\* Mutant: the last URL taken is not added to the new group.
TakeUrlGroupOffByOne ==
    IF pool.queue # <<>>
    THEN {[group |-> Head(pool.queue), pool |-> [pool EXCEPT !.queue = Tail(@)], urls |-> urlQueue]}
    ELSE LET n == IF Cardinality(urlQueue) < GroupSize THEN Cardinality(urlQueue) ELSE GroupSize
         IN  {[group |-> FreeId(pool),
               pool  |-> AddGroup(pool, SubSeq(s, 1, n - 1)),
               urls  |-> urlQueue \ ToSet(s)] : s \in IF n = 0 THEN {} ELSE TakeUrls(n)}

(* UrlGroupsController.takeUrlGroup: the head of the queue of groups or,    *)
(* when that is empty, a new group of the best URLs; nothing when there is  *)
(* neither.                                                                 *)
TakeUrlGroup ==
    IF pool.queue # <<>>
    THEN {[group |-> Head(pool.queue), pool |-> [pool EXCEPT !.queue = Tail(@)], urls |-> urlQueue]}
    ELSE LET n == IF Cardinality(urlQueue) < GroupSize THEN Cardinality(urlQueue) ELSE GroupSize
         IN  {[group |-> FreeId(pool),
               pool  |-> AddGroup(pool, s),
               urls  |-> urlQueue \ ToSet(s)] : s \in IF n = 0 THEN {} ELSE TakeUrls(n)}

-----------------------------------------------------------------------------
\* Client.clientState is not DISCONNECTED.
Live(c) == cState[c] # "DISCONNECTED"

\* The groups in the hands of the clients other than c.
HeldByOthers(c) == {cGroup[d] : d \in Client \ {c}}

(* Client c is DISCONNECTED and leaves the objects as p: its threads end and *)
(* nothing reads its group and its StateChangeHandler again.                 *)
Lost(c, p) ==
    /\ pool' = Sweep(p, HeldByOthers(c))
    /\ cState' = [cState EXCEPT ![c] = "DISCONNECTED"]
    /\ cGroup' = [cGroup EXCEPT ![c] = 0]
    /\ cEvents' = [cEvents EXCEPT ![c] = NoEvents]
    /\ due' = [due EXCEPT ![c] = "none"]
    /\ listening' = listening \ {c}
    /\ parked' = parked \ {c}

-----------------------------------------------------------------------------
(* Client: the urlRetriever *)

\* ClientEventController.parseConnectEvent: a new Client object for connection c.
Connect(c) ==
    /\ cState[c] = "DISCONNECTED"
    /\ cState' = [cState EXCEPT ![c] = "WAITING"]
    /\ listening' = listening \cup {c}
    /\ UNCHANGED <<urlVars, pool, cGroup, cEvents, due, parked, monitor, unsplit>>

\* Client.run when takeUrlGroup returns null: the thread waits for a notification.
Park(c) ==
    /\ cState[c] = "WAITING"
    /\ c \notin parked
    /\ TakeUrlGroup = {}
    /\ parked' = parked \cup {c}
    /\ UNCHANGED <<urlVars, pool, cState, cGroup, cEvents, due, listening, monitor, unsplit>>

(* Client.run and setVisitingUrlGroup: the group is sent.  The remote        *)
(* Analyzer starts the visit with malicious = false.                         *)
Send(c) ==
    /\ cState[c] = "WAITING"
    /\ c \notin parked
    /\ \E t \in TakeUrlGroup :
          /\ pool' = t.pool
          /\ urlQueue' = t.urls
          /\ cGroup' = [cGroup EXCEPT ![c] = t.group]
    /\ cState' = [cState EXCEPT ![c] = "AWAITING_VISITING"]
    /\ cEvents' = [cEvents EXCEPT ![c].noticed = {}]
    /\ due' = [due EXCEPT ![c] = "start"]
    /\ UNCHANGED <<algorithmOf, offered, accepted, listening, parked, monitor, unsplit>>

(* The same when the socket fails: send disconnects the client, and         *)
(* setVisitingUrlGroup marks the group in error once more.                  *)
SendFails(c) ==
    /\ cState[c] = "WAITING"
    /\ c \notin parked
    /\ \E t \in TakeUrlGroup :
          /\ Lost(c, SetError(SetMajorErrorCode(Abandon(t.pool, t.group), t.group, "OTHER"), t.group))
          /\ urlQueue' = t.urls
    /\ UNCHANGED <<algorithmOf, offered, accepted, monitor, unsplit>>

-----------------------------------------------------------------------------
(* Client: what the remote client reports *)

\* The group is done with: visitingUrlGroup = null, then setClientState(s).
GroupDone(c, p, s) ==
    IF s = "DISCONNECTED" THEN Lost(c, p)
    ELSE /\ pool' = Sweep(p, HeldByOthers(c))
         /\ cState' = [cState EXCEPT ![c] = s]
         /\ cGroup' = [cGroup EXCEPT ![c] = 0]
         /\ due' = [due EXCEPT ![c] = "none"]
         /\ UNCHANGED <<cEvents, listening, parked>>

\* The algorithm in every report on the group in hand.  A group has the program of
\* its first URL, and the clients choose the plugin, and the algorithm, by the program.
ReportedAlgorithm(c) == algorithmOf[Head(pool.group[cGroup[c]].urls)]

\* Mutant: the type of the report is taken for its algorithm.
VisitStartByType(c) ==
    /\ due[c] = "start" /\ c \in listening
    /\ pool' = SetVisiting([pool EXCEPT !.group[cGroup[c]].algorithm = "start"], cGroup[c])
    /\ cState' = [cState EXCEPT ![c] = "VISITING"]
    /\ due' = [due EXCEPT ![c] = "end"]
    /\ UNCHANGED <<urlVars, cGroup, cEvents, listening, parked, monitor, unsplit>>

\* parseVisitEvent, "start".
VisitStart(c) ==
    /\ due[c] = "start" /\ c \in listening
    /\ LET g == cGroup[c]
       IN  pool' = SetVisiting([pool EXCEPT !.group[g].algorithm = ReportedAlgorithm(c)], g)
    /\ cState' = [cState EXCEPT ![c] = "VISITING"]
    /\ due' = [due EXCEPT ![c] = "end"]
    /\ UNCHANGED <<urlVars, cGroup, cEvents, listening, parked, monitor, unsplit>>

\* The URLs of the group in hand whose visit changes the state of the VM.
Guilty(c) == UrlsOf(pool, cGroup[c]) \cap Malicious

(* The remote Analyzer sets malicious and its event does not count: it is   *)
(* sent before "start", when parseEvent drops it, or the thread of the      *)
(* monitor sends it after the report that ends the visit.                   *)
EventMissed(c, u) ==
    /\ due[c] # "none"
    /\ u \in Guilty(c) \ cEvents[c].noticed
    /\ cEvents' = [cEvents EXCEPT ![c].noticed = @ \cup {u}]
    /\ UNCHANGED <<urlVars, pool, cState, cGroup, due, listening, parked, monitor, unsplit>>

(* parseEvent: a state change.  bulk keeps it for the StateChangeHandler;    *)
(* dac gives up the whole group at once; else the group is marked.          *)
SystemEvent(c, u) ==
    /\ cState[c] = "VISITING"
    /\ c \in listening
    /\ u \in Guilty(c) \ cEvents[c].noticed
    /\ LET g       == cGroup[c]
           alg     == pool.group[g].algorithm
           single  == Len(pool.group[g].urls) = 1
           noticed == [cEvents[c] EXCEPT !.noticed = @ \cup {u}]
       IN  \/ /\ alg = "bulk" /\ ~single
              /\ cEvents' = [cEvents EXCEPT ![c] = [noticed EXCEPT !.kept = @ \cup {u}]]
              /\ UNCHANGED <<pool, cState, cGroup, due, listening, parked>>
           \/ /\ alg = "dac" /\ ~single
              /\ GroupDone(c, SetVisited(SetMalicious(pool, g, "dac", TRUE, {}), g), "DISCONNECTED")
           \/ /\ alg = "seq" \/ single
              /\ pool' = SetMalicious(pool, g, alg, TRUE, UrlsOf(pool, g))
              /\ cEvents' = [cEvents EXCEPT ![c] = noticed]
              /\ UNCHANGED <<cState, cGroup, due, listening, parked>>
    /\ UNCHANGED <<urlVars, monitor, unsplit>>

\* "finish" copies the error codes that are not 0, "error" copies all of them.
CopyErrors(p, g, failed, kind) ==
    LET copied(u) == [p.url[u] EXCEPT !.error = IF u \in failed THEN "OTHER"
                                                ELSE IF kind = "error" THEN "OK" ELSE @]
    IN  [p EXCEPT !.url = OnUrls(p, g, copied)]

(* The URLs of the group in hand, if update would split the group by the    *)
(* algorithm of the report, but has none of the group itself: the start of  *)
(* the visit, which brings it, was lost.                                    *)
LeftWhole(c, bad) ==
    IF bad /\ pool.group[cGroup[c]].algorithm = "none" /\ ReportedAlgorithm(c) = "dac"
           /\ Len(pool.group[cGroup[c]].urls) > 1
    THEN UrlsOf(pool, cGroup[c]) ELSE {}

(* setUrlGroupState(VISITED) of the group in hand, which then is done with.  *)
(* When it throws, the receiver thread ends with an error code of the group, *)
(* and the client keeps its state and the group.                             *)
Visited(c, p, s) ==
    LET g == cGroup[c]
    IN  IF Startless(p, g) = {} THEN GroupDone(c, SetVisited(p, g), s)
        ELSE /\ pool' = SetMajorErrorCode(SetVisitedThrows(p, g), g, "OTHER")
             /\ listening' = listening \ {c}
             /\ due' = [due EXCEPT ![c] = "none"]
             /\ UNCHANGED <<cState, cGroup, cEvents, parked>>

(* parseVisitEvent, "finish", whether or not the start was reported.  The    *)
(* visit lasts long enough for every state change to show; the malicious     *)
(* attribute is what the Analyzer noticed.                                   *)
VisitFinish(c, failed) ==
    /\ due[c] = "end" /\ c \in listening
    /\ failed \subseteq UrlsOf(pool, cGroup[c])
    /\ cEvents[c].noticed = Guilty(c)
    /\ LET g   == cGroup[c]
           p   == CopyErrors(pool, g, failed, "finish")
           bad == p.group[g].malicious \/ cEvents[c].noticed # {}
       IN  /\ Visited(c, SetMalicious(p, g, ReportedAlgorithm(c), bad, cEvents[c].kept),
                      IF bad THEN "DISCONNECTED" ELSE AfterVisit)
           /\ unsplit' = unsplit \cup LeftWhole(c, bad)
    /\ UNCHANGED <<urlVars, monitor>>

(* parseVisitEvent, "error", likewise; retry is isErrorToRetry of its code.  *)
(* A code that is not retried is about single pages: the others were         *)
(* visited, and what they do has shown.                                      *)
VisitError(c, retry, failed) ==
    /\ due[c] = "end" /\ c \in listening
    /\ failed \subseteq UrlsOf(pool, cGroup[c])
    /\ retry \/ Guilty(c) \ failed \subseteq cEvents[c].noticed
    /\ LET g   == cGroup[c]
           bad == cEvents[c].noticed # {}
           p   == SetMalicious(CopyErrors(pool, g, failed, "error"), g, ReportedAlgorithm(c), bad,
                               cEvents[c].kept)
       IN  /\ IF retry
              THEN GroupDone(c, SetError(SetMajorErrorCode(p, g, "OTHER"), g), "DISCONNECTED")
              ELSE Visited(c, p, IF bad THEN "DISCONNECTED" ELSE AfterVisit)
           /\ unsplit' = unsplit \cup LeftWhole(c, bad)
    /\ UNCHANGED <<urlVars, monitor>>

-----------------------------------------------------------------------------
(* Client: the connection ends *)

(* ClientEventController.run ends on a read error or an exception.  The     *)
(* group gets an error code; the client keeps its state and its group.      *)
ReceiverEnds(c) ==
    /\ Live(c)
    /\ c \in listening
    /\ listening' = listening \ {c}
    /\ pool' = IF cGroup[c] = 0 THEN pool ELSE SetMajorErrorCode(pool, cGroup[c], "OTHER")
    /\ UNCHANGED <<urlVars, cState, cGroup, cEvents, due, parked, monitor, unsplit>>

(* parseReconnectEvent: the VM's client gets the new socket and a new       *)
(* receiver.  A start that was sent in between is lost; the visit goes on.   *)
Reconnect(c) ==
    /\ Live(c)
    /\ c \notin listening
    /\ listening' = listening \cup {c}
    /\ \/ UNCHANGED due
       \/ due[c] = "start" /\ due' = [due EXCEPT ![c] = "end"]
    /\ UNCHANGED <<urlVars, pool, cState, cGroup, cEvents, parked, monitor, unsplit>>

\* setClientState(DISCONNECTED) when a ping or another message cannot be sent.
Disconnect(c) ==
    /\ Live(c)
    /\ Lost(c, Abandon(pool, cGroup[c]))
    /\ UNCHANGED <<urlVars, monitor, unsplit>>

(* VirtualMachinesStateChecker: setError on the group of the VM's client,   *)
(* then setState(WAITING_TO_BE_REVERTED), which disconnects that client.    *)
Timeout(c) ==
    /\ Live(c)
    /\ Lost(c, IF cGroup[c] = 0 THEN pool
               ELSE Abandon(SetError(SetMajorErrorCode(pool, cGroup[c], "LISTED"), cGroup[c]), cGroup[c]))
    /\ UNCHANGED <<urlVars, monitor, unsplit>>

-----------------------------------------------------------------------------
(* UrlGroupsController.run, the QueueMonitor thread (option terminate): two  *)
(* looks, ten seconds apart, each of three reads without a lock; the first   *)
(* read that finds something starts it all over.  After six it exits.        *)
SecondLook == 4     \* reads made once visitingList has been read again
Exited == 7
Off == 8            \* no such thread: the option is not set

\* Mutant: the list of groups being visited is not read again.
NothingReadTwice ==
    /\ monitor = 0 => pool.visitingList = <<>>
    /\ monitor \in {1, 4} => pool.queue = <<>>
    /\ monitor \in {2, 5} => urlQueue = {}

NothingRead ==
    /\ monitor \in {0, 3} => pool.visitingList = <<>>
    /\ monitor \in {1, 4} => pool.queue = <<>>
    /\ monitor \in {2, 5} => urlQueue = {}

MonitorLook ==
    /\ monitor # Off
    /\ monitor' = IF NothingRead THEN monitor + 1 ELSE 0
    /\ UNCHANGED <<urlVars, pool, clientVars, unsplit>>

-----------------------------------------------------------------------------
Init ==
    /\ \E s \in Setups : algorithmOf = s.plugins /\ monitor = IF s.terminate THEN 0 ELSE Off
    /\ offered = {}
    /\ accepted = {}
    /\ urlQueue = {}
    /\ pool = [url |-> [u \in Url |-> [state |-> "NONE", malicious |-> "null", error |-> "OK",
                                     started |-> FALSE]],
               group |-> <<>>, queue |-> <<>>, visitingList |-> <<>>]
    /\ cState = [c \in Client |-> "DISCONNECTED"]
    /\ cGroup = [c \in Client |-> 0]
    /\ cEvents = [c \in Client |-> NoEvents]
    /\ due = [c \in Client |-> "none"]
    /\ listening = {}
    /\ parked = {}
    /\ unsplit = {}
    /\ missed = {}

\* The sets of URLs a report may mark as failed.
Failures == {failed \in SUBSET Url : Cardinality(failed) <= MaxFailed}

Step(c) ==
    \/ Connect(c) \/ Park(c) \/ Send(c) \/ SendFails(c)
    \/ VisitStart(c)
    \/ \E u \in Url : EventMissed(c, u) \/ SystemEvent(c, u)
    \/ \E failed \in Failures : VisitFinish(c, failed)
    \/ \E retry \in BOOLEAN, failed \in Failures : VisitError(c, retry, failed)
    \/ ReceiverEnds(c) \/ Reconnect(c) \/ Disconnect(c) \/ Timeout(c)

\* The URLs in a client's hands whose group is not in visitingList.
Unlisted ==
    UNION {UrlsOf(pool, cGroup[c]) : c \in {d \in Client : cGroup[d] \notin {0} \cup ToSet(pool.visitingList)}}

(* From the second read of visitingList on: the URLs that came in, that were *)
(* taken out of urlQueue, and that were in the hands of a client and not     *)
(* listed.                                                                   *)
Miss ==
    missed' = IF monitor' \notin SecondLook..Exited THEN {}
              ELSE missed \cup (accepted' \ accepted) \cup (urlQueue \ urlQueue') \cup Unlisted'

Next ==
    /\ monitor # Exited
    /\ \/ \E u \in Url : AddUrl(u)
       \/ \E c \in Client : Step(c)
       \/ MonitorLook
    /\ Miss
    /\ Len(pool'.queue) <= MaxQueue

Spec == Init /\ [][Next]_vars

(* Fairness, with the guards of the actions written out.  A client that is   *)
(* there again and again, with a group to be taken, is sent one some time; a *)
(* group in a client's hands ends, since vmStateTimeChange is not stamped    *)
(* during a visit and the operation time-out of the VM expires, as it does   *)
(* for a parked client.  Nothing says that a client connects.                *)
Running == monitor # Exited
MaySend(c) == Running /\ cState[c] = "WAITING" /\ c \notin parked /\ TakeUrlGroup # {}
MayExpire(c) == Running /\ Live(c) /\ (cGroup[c] # 0 \/ c \in parked)

Fairness ==
    \A c \in Client :
        /\ ([]<>MaySend(c)) => ([]<><<Send(c)>>_vars)
        /\ (<>[]MayExpire(c)) => ([]<><<Timeout(c)>>_vars)

FairSpec == Spec /\ Fairness

-----------------------------------------------------------------------------
(* Properties *)

\* The connected clients that have u in hand.
Holders(u) == {c \in Client : cGroup[c] # 0 /\ u \in UrlsOf(pool, cGroup[c])}

\* The positions of u in the queue of groups.
QueuedAt(u) == {i \in DOMAIN pool.queue : u \in UrlsOf(pool, pool.queue[i])}

Copies(u) == Cardinality(Holders(u)) + Cardinality(QueuedAt(u)) + (IF u \in urlQueue THEN 1 ELSE 0)

Settled(u) == u \in accepted /\ Copies(u) = 0

TypeOK ==
    /\ algorithmOf \in {s.plugins : s \in Setups}
    /\ accepted \subseteq offered /\ offered \subseteq Url /\ urlQueue \subseteq accepted
    /\ pool.url \in [Url -> [state : OutcomeState, malicious : {"null", "yes", "no"}, error : Code,
                         started : BOOLEAN]]
    /\ \A g \in DOMAIN pool.group :
          pool.group[g] \in [urls : Seq(Url), state : OutcomeState, errorCount : 0..ErrorBound, retryCount : Nat,
                             malicious : BOOLEAN, error : Code, algorithm : Algorithm \cup {"none"}]
    /\ ToSet(pool.queue) \cup ToSet(pool.visitingList) \subseteq DOMAIN pool.group
    /\ cState \in [Client -> {"WAITING", "AWAITING_VISITING", "VISITING", "DISCONNECTED"}]
    /\ cGroup \in [Client -> {0} \cup DOMAIN pool.group]
    /\ cEvents \in [Client -> [noticed : SUBSET Url, kept : SUBSET Url]]
    /\ due \in [Client -> {"none", "start", "end"}]
    /\ listening \cup parked \subseteq Client
    /\ monitor \in 0..Exited \cup {Off}
    /\ unsplit \subseteq accepted /\ missed \subseteq accepted

(* A URL is in one place: in the queue of URLs, in one queued group, or with *)
(* one connected client.  disconnect() marks a group in error twice, a       *)
(* failed send and a time-out three times, each time through the retry and   *)
(* split of UrlGroupsController.update: the group must be put back by the    *)
(* first one only, and a split must not leave the whole queued.  But a group *)
(* that is retried as malicious, since its report came without a start, is   *)
(* split by every mark once a start has brought its algorithm.               *)
NoDuplicateWork == \A u \in Url \ unsplit : Copies(u) <= 1

(* A URL that is nowhere any more has an outcome: no path through send,     *)
(* report, time-out, retry and split drops a URL that was never visited.    *)
SettledHasOutcome == \A u \in Url : Settled(u) => pool.url[u].state \in {"VISITED", "ERROR"}

\* u is in a group in hand that the report to come says was visited with this algorithm.
VisitedBy(algorithm, c, u) ==
    c \in Holders(u) /\ algorithmOf[Head(pool.group[cGroup[c]].urls)] = algorithm

(* u is in a bulk group whose client has noticed what it does, while the    *)
(* StateChangeHandler has not been told; or in a group of several URLs of a *)
(* plugin that neither splits the group nor tells its URLs apart; or in one *)
(* of several URLs to be split whose start was lost.                         *)
ChangeNotKept(u) == \E c \in Client :
    VisitedBy("bulk", c, u) /\ u \in cEvents[c].noticed \ cEvents[c].kept
AmongOthers(u) == \E c \in Client :
    /\ \/ VisitedBy("seq", c, u)
       \/ VisitedBy("dac", c, u) /\ pool.group[cGroup[c]].algorithm = "none"
    /\ Len(pool.group[cGroup[c]].urls) > 1

(* ReadMe-HPC.txt, 64: groups are split and revisited "until the responsible *)
(* url is identified".  A URL that ends VISITED carries the right verdict    *)
(* and keeps it, however its visits were grouped, split and interrupted.     *)
(* There are three exceptions.  In a bulk group a state change counts only   *)
(* if parseEvent has kept it, which it does neither before the start report  *)
(* nor for a group of one URL: the finish report then clears the verdict.    *)
(* The URLs of a malicious seq group are left with the verdict they had, if  *)
(* they had one from a visit that failed.  And so are those of a dac group   *)
(* that is not split for want of the report of its start.                    *)
Right(u) == pool.url[u].malicious = IF u \in Malicious THEN "yes" ELSE "no"
VerdictIsRight ==
    [][\A u \in Url : Settled(u)' /\ pool'.url[u].state = "VISITED" /\ ~Right(u)'
           => \/ ChangeNotKept(u)
              \/ AmongOthers(u)
              \/ Settled(u) /\ pool'.url[u] = pool.url[u]]_vars

(* A group is retried at most once, though errorCount is advanced several   *)
(* times by one failure.                                                    *)
RetriedOnce == \A g \in DOMAIN pool.group : pool.group[g].retryCount <= 1

(* What the controllers make of a URL in the end: it has an outcome, the    *)
(* outcome is right, and no group was retried more often than setError and  *)
(* UrlGroupsController.update mean it to be.                                *)
OutcomeIsRight == []SettledHasOutcome /\ []RetriedOnce /\ VerdictIsRight

(* visitingList, on which QueueMonitor relies, holds exactly the groups that *)
(* are being visited, each once.                                             *)
VisitingListExact ==
    /\ IsInjective(pool.visitingList)
    /\ ToSet(pool.visitingList) = {g \in DOMAIN pool.group : pool.group[g].state = "VISITING"}

(* Two clients never work on the same URL, but for one whose group could not *)
(* be split in time, and QueueMonitor's view of what they work on            *)
(* (visitingList) is neither late nor doubled.                               *)
WorkIsUnique == NoDuplicateWork /\ VisitingListExact

(* When QueueMonitor has ended the server, an unsettled URL was out of its  *)
(* sight after the last read of visitingList: it came in, was taken out of   *)
(* the queue of URLs, or was with a client that had not reported the start.  *)
(* Whatever else was queued, visited or between two queues is settled.       *)
ExitLosesOnlyMissed ==
    monitor = Exited => \A u \in accepted : Settled(u) \/ u \in missed

\* The ledger's view of the pool.
LedgerStatus(u) ==
    IF u \notin accepted THEN "absent"
    ELSE IF u \in unsplit THEN "disowned"
    ELSE IF Holders(u) # {} THEN "out"
    ELSE IF Copies(u) > 0 THEN "waiting" ELSE "settled"

LedgerHolder(u) == IF u \in unsplit \/ Holders(u) = {} THEN NoClient ELSE CHOOSE c \in Holders(u) : TRUE

Ledger == INSTANCE UrlLedger WITH status <- [u \in Url |-> LedgerStatus(u)],
                                  holder <- [u \in Url |-> LedgerHolder(u)]

(* The controllers keep the ledger's promise: every URL is with one client  *)
(* at a time, the URLs of a group come back or are settled together, and a  *)
(* settled URL never reappears.  A group that is not split for want of the  *)
(* report of its start is disowned.                                         *)
ImplementsLedger == Ledger!Spec

(* As long as some client is connected again and again, the accepted URLs   *)
(* are all settled in the end: splitting ends with single URLs, even of a   *)
(* group that is split more than once, and every group is retried once only. *)
EventuallySettled ==
    ([]<>(\E c \in Client : Live(c))) =>
        <>[](monitor = Exited \/ \A u \in accepted : Settled(u))

=============================================================================
