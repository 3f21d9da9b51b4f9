---------------------------- MODULE ClientThreads ----------------------------
(***************************************************************************)
(* The threads that meet in one Client object, from parseConnectEvent to    *)
(* its end: the receiver "EC" (ClientEventController.run), the retriever    *)
(* "UR" (Client.run), the pinger "PG" and the checker "CK" of the virtual   *)
(* machines.  UrlGroups makes one step of a handler; here every access to   *)
(* state that another thread can see is a step.                             *)
(*                                                                          *)
(* todo[t] is what is left of the calls thread t is in, an operation with   *)
(* an argument each; the operation at its head is what t does next, and a   *)
(* call puts the operations of the callee in front.  The monitors are those *)
(* of the VirtualMachine ("vm") and of the urlRetriever thread ("ur"); both *)
(* are re-entrant.                                                          *)
(***************************************************************************)
EXTENDS Naturals, Sequences, FiniteSets, SequencesExt

CONSTANTS
    Group,       \* the groups the retriever can take, all of one URL
    NoGroup,     \* null
    Timer,       \* the timers that run: a subset of {"PG", "CK"}
    WritesFail,  \* may a write to an open socket fail
    MaxExpiry    \* bound on the time-outs of the VM

ASSUME ClientThreadsAssumption ==
    /\ IsFiniteSet(Group) /\ NoGroup \notin Group
    /\ Timer \subseteq {"PG", "CK"}
    /\ WritesFail \in BOOLEAN
    /\ MaxExpiry \in Nat

VARIABLES
    todo,         \* the operations left to each thread
    local,        \* the local variables of each thread: group, errorCount, result
    thrown,       \* the threads in which an exception has cut a call short
    lock,         \* the monitors: owner and depth
    waiting,      \* is the retriever in urlRetriever.wait()
    clientState,  \* Client.clientState
    visiting,     \* Client.visitingUrlGroup
    socket,       \* "open", or "closed" by disconnect()
    vmState,      \* VirtualMachine.vmState
    attached,     \* is the client VirtualMachine.client
    pinged,       \* is the client one of the pinger's clients
    group,        \* the groups: state, errorCount, Observable.changed
    queue,        \* urlGroupQueue
    pushed,       \* the groups put back into the queue since they were made
    remote,       \* what the remote client knows of its visit
    expiries      \* time-outs so far

threadVars == <<todo, local, thrown, lock, waiting>>
clientVars == <<clientState, visiting, socket>>
vmVars     == <<vmState, attached, pinged>>
groupVars  == <<group, queue, pushed>>
envVars    == <<remote, expiries>>
vars == <<threadVars, clientVars, vmVars, groupVars, envVars>>

Thread == {"EC", "UR"} \cup Timer

\* The states the server sets; it sets neither UPDATING nor UPLOADING.
CLIENT_STATE == {"CONNECTING", "CONNECTED", "WAITING", "VISITING", "AWAITING_VISITING", "DISCONNECTED"}

-----------------------------------------------------------------------------
(* Calls *)

Do(op) == <<<<op, "()">>>>
Synchronized(l, body) == <<<<"lock", l>>>> \o body \o <<<<"unlock", l>>>>

\* Mutant: the retriever's monitor is taken first.
SetClientStateUrFirst(s) == Synchronized("ur", Synchronized("vm", <<<<"clientState", s>>>>))

\* Client.setClientState
SetClientState(s) == Synchronized("vm", <<<<"clientState", s>>>>)

\* VirtualMachine.setState
SetVmState(s) == Synchronized("vm", <<<<"vmState", s>>>>)

NotifyRetriever == Synchronized("ur", Do("notify"))

\* Mutant: the socket is left open.
DisconnectLeavesSocket == Do("detach") \o Do("ifGroup") \o Do("ifGroup") \o Do("ifConnected")

\* Client.disconnect
Disconnect == Do("detach") \o Do("ifGroup") \o Do("close") \o Do("ifGroup") \o Do("ifConnected")

\* UrlGroup.setUrlGroupState(ERROR) with UrlGroupsController.update.
MarkError == Do("readCount") \o Do("writeCount") \o Do("notifyObservers")

-----------------------------------------------------------------------------
(* Steps *)

At(t, op) ==
    /\ todo[t] # <<>>
    /\ Head(todo[t])[1] = op
    /\ ~(t = "UR" /\ waiting)

Arg(t) == Head(todo[t])[2]

\* The operation of t is done and leads to the operations ops.
Call(t, ops) == todo' = [todo EXCEPT ![t] = ops \o Tail(@)]
Done(t) == Call(t, <<>>)

Free == [owner |-> "none", depth |-> 0]

\* An exception: t leaves its monitors and its calls.
Throw(t) ==
    /\ todo' = [todo EXCEPT ![t] = <<>>]
    /\ lock' = [l \in DOMAIN lock |-> IF lock[l].owner = t THEN Free ELSE lock[l]]
    /\ thrown' = thrown \cup {t}

Acquire(t) ==
    /\ At(t, "lock")
    /\ lock[Arg(t)].owner \in {"none", t}
    /\ lock' = [lock EXCEPT ![Arg(t)] = [owner |-> t, depth |-> @.depth + 1]]
    /\ Done(t)
    /\ UNCHANGED <<local, thrown, waiting, clientVars, vmVars, groupVars, envVars>>

Release(t) ==
    /\ At(t, "unlock")
    /\ lock' = [lock EXCEPT ![Arg(t)] = [owner |-> IF @.depth = 1 THEN "none" ELSE t, depth |-> @.depth - 1]]
    /\ Done(t)
    /\ UNCHANGED <<local, thrown, waiting, clientVars, vmVars, groupVars, envVars>>

\* Mutant: the retriever is only notified of the end.
AssignClientStateQuiet(t) ==
    /\ At(t, "clientState")
    /\ clientState' = Arg(t)
    /\ Call(t, IF clientState = Arg(t) THEN <<>> ELSE
               (CASE Arg(t) = "WAITING"      -> SetVmState("RUNNING")
                  [] Arg(t) = "DISCONNECTED" -> Disconnect \o NotifyRetriever
                  [] Arg(t) = "CONNECTED"    -> Do("send")
                  [] OTHER                   -> <<>>) \o Do("update"))
    /\ UNCHANGED <<local, thrown, lock, waiting, visiting, socket, vmVars, groupVars, envVars>>

(* setClientState inside the monitor: nothing if the state is the same, else *)
(* the assignment, what the new state asks for, and the observer.            *)
AssignClientState(t) ==
    /\ At(t, "clientState")
    /\ clientState' = Arg(t)
    /\ Call(t, IF clientState = Arg(t) THEN <<>> ELSE
               (CASE Arg(t) = "WAITING"      -> SetVmState("RUNNING") \o NotifyRetriever
                  [] Arg(t) = "DISCONNECTED" -> Disconnect \o NotifyRetriever
                  [] Arg(t) = "CONNECTED"    -> Do("send")
                  [] OTHER                   -> <<>>) \o Do("update"))
    /\ UNCHANGED <<local, thrown, lock, waiting, visiting, socket, vmVars, groupVars, envVars>>

\* setState inside the monitor; a VM that is to be reverted disconnects its client.
AssignVmState(t) ==
    /\ At(t, "vmState")
    /\ vmState' = Arg(t)
    /\ Call(t, IF /\ vmState # Arg(t)
                  /\ Arg(t) = "WAITING_TO_BE_REVERTED"
                  /\ attached
                  /\ clientState # "DISCONNECTED"
               THEN SetClientState("DISCONNECTED") ELSE <<>>)
    /\ UNCHANGED <<local, thrown, lock, waiting, clientVars, attached, pinged, groupVars, envVars>>

\* ClientsPinger.update, by which the timer pings connected clients.
Update(t) ==
    /\ At(t, "update")
    /\ pinged' = CASE clientState = "CONNECTED"    -> TRUE
                   [] clientState = "DISCONNECTED" -> FALSE
                   [] OTHER                        -> pinged
    /\ Done(t)
    /\ UNCHANGED <<local, thrown, lock, waiting, clientVars, vmState, attached, groupVars, envVars>>

\* Mutant: the VM is marked as failed and not to be reverted.
DetachMarksError(t) ==
    /\ At(t, "detach")
    /\ attached' = FALSE
    /\ Call(t, SetVmState("ERROR"))
    /\ UNCHANGED <<local, thrown, lock, waiting, clientVars, vmState, pinged, groupVars, envVars>>

\* disconnect(): virtualMachine.setClient(null), and the VM is to be reverted.
Detach(t) ==
    /\ At(t, "detach")
    /\ attached' = FALSE
    /\ Call(t, IF vmState # "WAITING_TO_BE_REVERTED" THEN SetVmState("WAITING_TO_BE_REVERTED") ELSE <<>>)
    /\ UNCHANGED <<local, thrown, lock, waiting, clientVars, vmState, pinged, groupVars, envVars>>

\* disconnect(): if (visitingUrlGroup != null) ...
IfGroup(t) ==
    /\ At(t, "ifGroup")
    /\ Call(t, IF visiting # NoGroup THEN Do("useGroup") ELSE <<>>)
    /\ UNCHANGED <<local, thrown, lock, waiting, clientVars, vmVars, groupVars, envVars>>

\* ... visitingUrlGroup.setUrlGroupState(ERROR): the field is read again, and may be null.
UseGroup(t) ==
    /\ At(t, "useGroup")
    /\ IF visiting = NoGroup THEN Throw(t) /\ UNCHANGED local
       ELSE /\ local' = [local EXCEPT ![t].group = visiting]
            /\ Call(t, MarkError)
            /\ UNCHANGED <<thrown, lock>>
    /\ UNCHANGED <<waiting, clientVars, vmVars, groupVars, envVars>>

\* errorCount++ is a read ...
ReadCount(t) ==
    /\ At(t, "readCount")
    /\ group' = [group EXCEPT ![local[t].group].state = "ERROR"]
    /\ local' = [local EXCEPT ![t].count = group[local[t].group].errorCount]
    /\ Done(t)
    /\ UNCHANGED <<thrown, lock, waiting, clientVars, vmVars, queue, pushed, envVars>>

\* errorCount is only compared with 1: what lies beyond 2 is 2.
ErrorBound == 2

\* ... and a write; then setChanged().
WriteCount(t) ==
    /\ At(t, "writeCount")
    /\ group' = [group EXCEPT ![local[t].group].errorCount =
                                   IF local[t].count < ErrorBound THEN local[t].count + 1 ELSE ErrorBound,
                              ![local[t].group].changed = TRUE]
    /\ Done(t)
    /\ UNCHANGED <<local, thrown, lock, waiting, clientVars, vmVars, queue, pushed, envVars>>

\* notifyObservers(): clears the flag and calls update(), unless another thread has done so.
NotifyObservers(t) ==
    /\ At(t, "notifyObservers")
    /\ Call(t, IF group[local[t].group].changed THEN Do("retry") ELSE <<>>)
    /\ group' = [group EXCEPT ![local[t].group].changed = FALSE]
    /\ UNCHANGED <<local, thrown, lock, waiting, clientVars, vmVars, queue, pushed, envVars>>

\* UrlGroupsController.update of a failed group: pushed again unless it has failed before.
Retry(t) ==
    /\ At(t, "retry")
    /\ IF group[local[t].group].state = "ERROR" /\ group[local[t].group].errorCount <= 1
       THEN /\ queue' = Cons(local[t].group, queue)
            /\ pushed' = pushed \cup {local[t].group}
       ELSE UNCHANGED <<queue, pushed>>
    /\ Done(t)
    /\ UNCHANGED <<local, thrown, lock, waiting, clientVars, vmVars, group, envVars>>

Close(t) ==
    /\ At(t, "close")
    /\ socket' = "closed"
    /\ Done(t)
    /\ UNCHANGED <<local, thrown, lock, waiting, clientState, visiting, vmVars, groupVars, envVars>>

\* disconnect(): a state that has changed since is set once more.
IfConnected(t) ==
    /\ At(t, "ifConnected")
    /\ Call(t, IF clientState # "DISCONNECTED" THEN SetClientState("DISCONNECTED") ELSE <<>>)
    /\ UNCHANGED <<local, thrown, lock, waiting, clientVars, vmVars, groupVars, envVars>>

\* Client.send: nothing is written for a disconnected client ...
Send(t) ==
    /\ At(t, "send")
    /\ Call(t, IF clientState # "DISCONNECTED" THEN Do("write") ELSE <<>>)
    /\ local' = [local EXCEPT ![t].sent = FALSE]
    /\ UNCHANGED <<thrown, lock, waiting, clientVars, vmVars, groupVars, envVars>>

\* ... and the client is disconnected when the write fails.
Write(t) ==
    /\ At(t, "write")
    /\ \/ /\ socket = "open"
          /\ local' = [local EXCEPT ![t].sent = TRUE]
          /\ remote' = IF t = "UR" THEN "told" ELSE remote
          /\ Done(t)
       \/ /\ socket = "closed" \/ WritesFail
          /\ Call(t, SetClientState("DISCONNECTED"))
          /\ UNCHANGED <<local, remote>>
    /\ UNCHANGED <<thrown, lock, waiting, clientVars, vmVars, groupVars, expiries>>

\* urlRetriever.notifyAll()
Notify(t) ==
    /\ At(t, "notify")
    /\ waiting' = FALSE
    /\ todo' = [s \in Thread |-> IF s = t THEN Tail(todo[s])
                                ELSE IF s = "UR" /\ waiting THEN <<<<"lock", "ur">>>> \o Do("while") \o todo[s]
                                ELSE todo[s]]
    /\ UNCHANGED <<local, thrown, lock, clientVars, vmVars, groupVars, envVars>>

-----------------------------------------------------------------------------
(* Client.run *)

\* while (clientState != DISCONNECTED) { if (clientState == WAITING) ... ; wait(); }
While ==
    /\ At("UR", "while")
    /\ Call("UR", IF clientState # "DISCONNECTED" THEN Do("ifWaiting") \o Do("wait") ELSE <<>>)
    /\ UNCHANGED <<local, thrown, lock, waiting, clientVars, vmVars, groupVars, envVars>>

\* takeUrlGroup, and setVisitingUrlGroup if there is a group.
IfWaiting ==
    /\ At("UR", "ifWaiting")
    /\ IF clientState = "WAITING" /\ queue # <<>>
       THEN /\ local' = [local EXCEPT !["UR"].group = Head(queue)]
            /\ queue' = Tail(queue)
            /\ Call("UR", Do("setVisiting") \o Do("send") \o Do("sent"))
       ELSE Done("UR") /\ UNCHANGED <<local, queue>>
    /\ UNCHANGED <<thrown, lock, waiting, clientVars, vmVars, group, pushed, envVars>>

SetVisiting ==
    /\ At("UR", "setVisiting")
    /\ visiting' = local["UR"].group
    /\ Done("UR")
    /\ UNCHANGED <<local, thrown, lock, waiting, clientState, socket, vmVars, groupVars, envVars>>

\* Mutant: the "set function call" that the comment in setVisitingUrlGroup warns of.
SentBySetter ==
    /\ At("UR", "sent")
    /\ Call("UR", IF local["UR"].sent THEN SetClientState("AWAITING_VISITING") ELSE MarkError)
    /\ UNCHANGED <<local, thrown, lock, waiting, clientVars, vmVars, groupVars, envVars>>

\* Mutant: a group that could not be sent is not given up.
SentIgnoresFailure ==
    /\ At("UR", "sent")
    /\ clientState' = IF local["UR"].sent THEN "AWAITING_VISITING" ELSE clientState
    /\ Done("UR")
    /\ UNCHANGED <<local, thrown, lock, waiting, visiting, socket, vmVars, groupVars, envVars>>

(* The end of setVisitingUrlGroup: the state is stored without the VM's      *)
(* monitor, and visitingUrlGroup is read again, which the receiver may have   *)
(* set to null.                                                              *)
Sent ==
    /\ At("UR", "sent")
    /\ IF visiting = NoGroup THEN Throw("UR") /\ UNCHANGED clientState
       ELSE /\ clientState' = IF local["UR"].sent THEN "AWAITING_VISITING" ELSE clientState
            /\ Call("UR", IF local["UR"].sent THEN <<>> ELSE MarkError)
            /\ UNCHANGED <<thrown, lock>>
    /\ UNCHANGED <<local, waiting, visiting, socket, vmVars, groupVars, envVars>>

Wait ==
    /\ At("UR", "wait")
    /\ waiting' = TRUE
    /\ lock' = [lock EXCEPT !["ur"] = Free]
    /\ Done("UR")
    /\ UNCHANGED <<local, thrown, clientVars, vmVars, groupVars, envVars>>

-----------------------------------------------------------------------------
(* ClientEventController: what the remote client reports *)

(* t is in no call.  An exception is the end of a thread, except for the     *)
(* checker, which catches it and ends its round.                             *)
Idle(t) == todo[t] = <<>> /\ (t \in thrown => t = "CK")

\* parseVisitEvent, "start".
StartReport ==
    /\ Idle("EC")
    /\ socket = "open" /\ remote = "told"
    /\ remote' = "started"
    /\ todo' = [todo EXCEPT !["EC"] = Do("started") \o SetClientState("VISITING")]
    /\ UNCHANGED <<local, thrown, lock, waiting, clientVars, vmVars, groupVars, expiries>>

Started ==
    /\ At("EC", "started")
    /\ group' = [group EXCEPT ![visiting].state = "VISITING", ![visiting].changed = TRUE]
    /\ local' = [local EXCEPT !["EC"].group = visiting]
    /\ Call("EC", Do("notifyObservers"))
    /\ UNCHANGED <<thrown, lock, waiting, clientVars, vmVars, queue, pushed, envVars>>

\* parseVisitEvent, "finish": the VM is reverted or the client waits for more work.
FinishReport ==
    /\ Idle("EC")
    /\ socket = "open" /\ remote = "started"
    /\ remote' = "none"
    /\ \E s \in {"DISCONNECTED", "WAITING"} :
          todo' = [todo EXCEPT !["EC"] = Do("finished") \o Do("noGroup") \o SetClientState(s)]
    /\ UNCHANGED <<local, thrown, lock, waiting, clientVars, vmVars, groupVars, expiries>>

\* parseVisitEvent, "error": a failed group is given up, and the VM reverted.
ErrorReport ==
    /\ Idle("EC")
    /\ socket = "open" /\ remote = "started"
    /\ remote' = "none"
    /\ todo' = [todo EXCEPT !["EC"] = Do("useGroup") \o Do("noGroup") \o SetClientState("DISCONNECTED")]
    /\ UNCHANGED <<local, thrown, lock, waiting, clientVars, vmVars, groupVars, expiries>>

Finished ==
    /\ At("EC", "finished")
    /\ group' = [group EXCEPT ![visiting].state = "VISITED", ![visiting].changed = TRUE]
    /\ local' = [local EXCEPT !["EC"].group = visiting]
    /\ Call("EC", Do("notifyObservers"))
    /\ UNCHANGED <<thrown, lock, waiting, clientVars, vmVars, queue, pushed, envVars>>

NoMoreGroup ==
    /\ At("EC", "noGroup")
    /\ visiting' = NoGroup
    /\ Done("EC")
    /\ UNCHANGED <<local, thrown, lock, waiting, clientState, socket, vmVars, groupVars, envVars>>

-----------------------------------------------------------------------------
(* The timers *)

\* ClientsPinger.run
Ping ==
    /\ "PG" \in Timer
    /\ Idle("PG")
    /\ pinged
    /\ todo' = [todo EXCEPT !["PG"] = Do("send")]
    /\ UNCHANGED <<local, thrown, lock, waiting, clientVars, vmVars, groupVars, envVars>>

\* VirtualMachinesStateChecker.run: a time-out of a RUNNING VM, setError and setState.
Expire ==
    /\ "CK" \in Timer
    /\ Idle("CK")
    /\ vmState = "RUNNING"
    /\ expiries < MaxExpiry
    /\ expiries' = expiries + 1
    /\ todo' = [todo EXCEPT !["CK"] = Do("setError") \o SetVmState("WAITING_TO_BE_REVERTED")]
    /\ UNCHANGED <<local, thrown, lock, waiting, clientVars, vmVars, groupVars, remote>>

\* The group is read into a local variable before it is used.
SetError ==
    /\ "CK" \in Timer
    /\ At("CK", "setError")
    /\ IF attached /\ visiting # NoGroup
       THEN local' = [local EXCEPT !["CK"].group = visiting] /\ Call("CK", MarkError)
       ELSE Done("CK") /\ UNCHANGED local
    /\ UNCHANGED <<thrown, lock, waiting, clientVars, vmVars, groupVars, envVars>>

-----------------------------------------------------------------------------
\* parseConnectEvent has made the client and attached it to its VM.
Init ==
    /\ todo = [t \in Thread |->
                 CASE t = "EC" -> SetClientState("CONNECTED") \o SetClientState("WAITING")
                   [] t = "UR" -> Synchronized("ur", Do("while"))
                   [] OTHER    -> <<>>]
    /\ local = [t \in Thread |-> [group |-> NoGroup, count |-> 0, sent |-> FALSE]]
    /\ thrown = {}
    /\ lock = [l \in {"vm", "ur"} |-> Free]
    /\ waiting = FALSE
    /\ clientState = "CONNECTING"
    /\ visiting = NoGroup
    /\ socket = "open"
    /\ vmState = "RUNNING"
    /\ attached = TRUE
    /\ pinged = FALSE
    /\ group = [g \in Group |-> [state |-> "NONE", errorCount |-> 0, changed |-> FALSE]]
    /\ queue = SetToSeq(Group)
    /\ pushed = {}
    /\ remote = "none"
    /\ expiries = 0

\* One step of the calls thread t is in.
Step(t) ==
    \/ Acquire(t) \/ Release(t)
    \/ AssignClientState(t) \/ AssignVmState(t) \/ Update(t) \/ Detach(t) \/ Close(t) \/ IfConnected(t)
    \/ IfGroup(t) \/ UseGroup(t) \/ ReadCount(t) \/ WriteCount(t) \/ NotifyObservers(t) \/ Retry(t)
    \/ Send(t) \/ Write(t) \/ Notify(t)

Retriever == While \/ IfWaiting \/ SetVisiting \/ Sent \/ Wait
Receiver == Started \/ Finished \/ NoMoreGroup

Next ==
    \/ \E t \in Thread : Step(t)
    \/ Retriever \/ Receiver \/ SetError
    \/ StartReport \/ FinishReport \/ ErrorReport
    \/ Ping \/ Expire

Spec == Init /\ [][Next]_vars

\* Every thread that can go on does; nothing is assumed of reports, pings and time-outs.
FairSpec ==
    /\ Spec
    /\ \A t \in Thread : WF_vars(Step(t))
    /\ WF_vars(Retriever) /\ WF_vars(Receiver) /\ WF_vars(SetError)

-----------------------------------------------------------------------------
(* Properties *)

\* The operations by their names, with a monitor or a state as their argument.
Operation ==
    {"lock", "unlock", "clientState", "vmState", "detach", "close", "ifGroup", "useGroup", "ifConnected",
     "notify", "update", "readCount", "writeCount", "notifyObservers", "retry", "send", "write",
     "while", "ifWaiting", "setVisiting", "sent", "wait", "started", "finished", "noGroup", "setError"}
    \X ({"()", "vm", "ur", "RUNNING", "WAITING_TO_BE_REVERTED"} \cup CLIENT_STATE)

TypeOK ==
    /\ DOMAIN todo = Thread /\ \A t \in Thread : todo[t] \in Seq(Operation)
    /\ local \in [Thread -> [group : Group \cup {NoGroup}, count : 0..ErrorBound, sent : BOOLEAN]]
    /\ thrown \subseteq Thread
    /\ lock \in [{"vm", "ur"} -> [owner : Thread \cup {"none"}, depth : Nat]]
    /\ clientState \in CLIENT_STATE
    /\ visiting \in Group \cup {NoGroup}
    /\ socket \in {"open", "closed"}
    /\ vmState \in {"RUNNING", "WAITING_TO_BE_REVERTED"}
    /\ {waiting, attached, pinged} \subseteq BOOLEAN
    /\ group \in [Group -> [state : {"NONE", "VISITING", "VISITED", "ERROR"}, errorCount : 0..ErrorBound,
                            changed : BOOLEAN]]
    /\ queue \in Seq(Group) /\ pushed \subseteq Group
    /\ remote \in {"none", "told", "started"}
    /\ expiries \in 0..MaxExpiry

\* t asks for a monitor that u holds.
BlockedBy(t, u) ==
    /\ t # u
    /\ At(t, "lock")
    /\ lock[Arg(t)].owner = u

(* No two threads wait for each other's monitor.  setClientState takes the  *)
(* VM's monitor and then the retriever's; the retriever holds its own while *)
(* it takes and sends a group, and must not ask for the VM's.               *)
NoLockCycle == \A t, u \in Thread : ~(BlockedBy(t, u) /\ BlockedBy(u, t))

(* A write that fails while the retriever holds its own monitor makes it    *)
(* ask for the VM's in setClientState, and then it can wait for a thread    *)
(* that is about to notify it.  That is the only way for two threads to     *)
(* wait for each other: whatever the receiver, the pinger and the checker   *)
(* disconnect, none of them holds the retriever's monitor and asks for the  *)
(* VM's.                                                                    *)
OnlyRetriever ==
    \A t, u \in Thread : BlockedBy(t, u) /\ BlockedBy(u, t) =>
        \/ t = "UR" /\ Arg(t) = "vm" /\ Arg(u) = "ur"
        \/ u = "UR" /\ Arg(u) = "vm" /\ Arg(t) = "ur"

(* No lost wake-up: a client that becomes WAITING while there is work gets  *)
(* a group, whether its retriever is about to wait, waits or is awake; only *)
(* an exception in the retriever (Sent) leaves it without one.              *)
WaitingIsServed ==
    (clientState = "WAITING" /\ queue # <<>>) ~> (clientState # "WAITING" \/ queue = <<>> \/ "UR" \in thrown)

\* No thread is inside a call.
Quiet == \A t \in Thread : todo[t] = <<>> \/ (t = "UR" /\ waiting)

(* When nobody holds the VM's monitor, a DISCONNECTED client has been        *)
(* detached from its VM, which is to be reverted, and its socket is closed,  *)
(* however many threads disconnected it at once and whatever failed.  Only   *)
(* an exception in the middle of disconnect() leaves it                      *)
(* half done.                                                                *)
DisconnectedIsComplete ==
    clientState = "DISCONNECTED" /\ lock["vm"].owner = "none" /\ thrown = {}
    => ~attached /\ socket = "closed"

(* The group in the hands of a client whose socket is closed has been given *)
(* up: whichever thread closed the socket, and wherever the retriever was in *)
(* taking and sending the group, somebody has marked it in error.            *)
ClosedClientGaveUp ==
    Quiet /\ socket = "closed" /\ visiting # NoGroup /\ thrown = {}
    => group[visiting].errorCount > 0

(* Client.disconnect() is thorough whichever of the four threads runs it    *)
(* and however they interleave: VM, socket and group are all dealt with.    *)
DisconnectIsThorough == DisconnectedIsComplete /\ ClosedClientGaveUp

=============================================================================
