----------------------------- MODULE VmLifecycle -----------------------------
(***************************************************************************)
(* The life of the virtual machines of one virtual machine server:          *)
(* VirtualMachine.setState, the work queue and the worker thread of         *)
(* VBoxServer / VMwareServer, and the timer VirtualMachinesStateChecker.     *)
(*                                                                          *)
(* Threads.  The worker (VBoxServer.run) holds the monitor of a virtual     *)
(* machine from the moment it marks it REVERTING until its delay is over,   *)
(* and takes the work item off the queue only after it has left the         *)
(* monitor.  The checker reads the state without the monitor and then calls *)
(* setState, which needs it.  Client threads call setState from inside      *)
(* Client.setClientState, which holds the monitor for the whole call: here  *)
(* each such call is one step.                                              *)
(*                                                                          *)
(* Time.  A clock is a time stamp compared with a timeout: lastContact with *)
(* client_inactivity_timeout ("contact"), vmStateTimeChange with            *)
(* vm_stalled_during_operation_timeout ("operation") and with               *)
(* vm_stalled_after_revert_timeout ("revert").  expired[vm] holds the       *)
(* clocks that have run out; a new stamp takes them out.  The timeouts are  *)
(* independent of each other, so every order of them is covered.            *)
(***************************************************************************)
EXTENDS Naturals, Sequences, FiniteSets, SequencesExt

CONSTANTS
    VM,   \* the virtual machines of the server
    NoVM  \* no virtual machine

ASSUME NoVMAssumption == NoVM \notin VM

VARIABLES
    vmState,          \* VirtualMachine.vmState
    expired,          \* the clocks of each VM that have run out
    queuedWorkItems,  \* VBoxServer.queuedWorkItems, one "revert" item per entry
    worker,           \* the worker: where it is in run(), and the item's VM
    checker           \* the checker: the VM it has decided to revert, if any

vars == <<vmState, expired, queuedWorkItems, worker, checker>>

Clock == {"contact", "operation", "revert"}

\* SAVING and WAITING_TO_BE_SAVED are declared by the enum and never assigned.
VM_STATE == {"STOPPED", "WAITING_TO_BE_REVERTED", "REVERTING", "RUNNING", "ERROR"}

(* idle: no item peeked; peeked: item peeked, monitor not yet held;         *)
(* reverting: the revert command runs; delaying: the revert is over, the    *)
(* worker sleeps; released: monitor left, item still in the queue.          *)
WorkerPc == {"idle", "peeked", "reverting", "delaying", "released"}

\* looking: scanning the VMs; deciding: it will revert a VM; locking: inside setState.
CheckerPc == {"looking", "deciding", "locking"}

TypeOK ==
    /\ vmState \in [VM -> VM_STATE]
    /\ expired \in [VM -> SUBSET Clock]
    /\ queuedWorkItems \in Seq(VM)
    /\ worker \in [pc : WorkerPc, vm : VM \cup {NoVM}]
    /\ checker \in [pc : CheckerPc, vm : VM \cup {NoVM}]

-----------------------------------------------------------------------------
(* VirtualMachine.setState and the observers it calls *)

\* The monitor of vm is held by the worker; client calls hold it for one step only.
Locked(vm) == worker.pc \in {"reverting", "delaying"} /\ worker.vm = vm

\* vmStateTimeChange is stamped on every call, even one that changes nothing.
Stamp(e, vm) == [e EXCEPT ![vm] = @ \ {"operation", "revert"}]

\* setLastContact(now)
Contacted(e, vm) == [e EXCEPT ![vm] = @ \ {"contact"}]

\* Mutants of revertVirtualMachineStateAsync: no contains() test; the item goes in
\* front; a request is dropped when any item is queued.
RevertAlwaysQueued(vm) == queuedWorkItems' = Append(queuedWorkItems, vm)
RevertQueuedInFront(vm) ==
    queuedWorkItems' = IF Contains(queuedWorkItems, vm) THEN queuedWorkItems
                       ELSE Cons(vm, queuedWorkItems)

RevertOnlyWhenEmpty(vm) ==
    queuedWorkItems' = IF queuedWorkItems # <<>> THEN queuedWorkItems ELSE <<vm>>

\* VBoxServer.revertVirtualMachineStateAsync: an item equal to a queued one is dropped.
RevertVirtualMachineStateAsync(vm) ==
    queuedWorkItems' = IF Contains(queuedWorkItems, vm) THEN queuedWorkItems
                       ELSE Append(queuedWorkItems, vm)

(* The part of setState that runs under the monitor: nothing when the state *)
(* is the same, else the assignment and the server's update(), which queues *)
(* a revert when the new state asks for one.                                *)
EnterState(vm, new) ==
    /\ vmState' = [vmState EXCEPT ![vm] = new]
    /\ IF new = "WAITING_TO_BE_REVERTED" /\ vmState[vm] # new
       THEN RevertVirtualMachineStateAsync(vm)
       ELSE UNCHANGED queuedWorkItems

-----------------------------------------------------------------------------
(* The server and its clients *)

\* VBoxServer.addVirtualMachine, called when the configuration is read.
AddVirtualMachine(vm) ==
    /\ vmState[vm] = "STOPPED"
    /\ EnterState(vm, "WAITING_TO_BE_REVERTED")
    /\ expired' = Stamp(expired, vm)
    /\ UNCHANGED <<worker, checker>>

\* Client.setClientState(WAITING): the client of vm asks for work.
ClientWaiting(vm) ==
    /\ vmState[vm] # "STOPPED"
    /\ ~Locked(vm)
    /\ EnterState(vm, "RUNNING")
    /\ expired' = Stamp(expired, vm)
    /\ UNCHANGED <<worker, checker>>

\* Mutant: disconnect() does not wait for the monitor.
ClientDisconnectedUnlocked(vm) ==
    /\ vmState[vm] \notin {"STOPPED", "WAITING_TO_BE_REVERTED"}
    /\ EnterState(vm, "WAITING_TO_BE_REVERTED")
    /\ expired' = Stamp(expired, vm)
    /\ UNCHANGED <<worker, checker>>

\* Client.setClientState(DISCONNECTED) with the part of disconnect() about the VM.
ClientDisconnected(vm) ==
    /\ vmState[vm] \notin {"STOPPED", "WAITING_TO_BE_REVERTED"}
    /\ ~Locked(vm)
    /\ EnterState(vm, "WAITING_TO_BE_REVERTED")
    /\ expired' = Stamp(expired, vm)
    /\ UNCHANGED <<worker, checker>>

\* ClientEventController.run stamps lastContact for every line it receives.
ClientContact(vm) ==
    /\ vmState[vm] # "STOPPED"
    /\ expired' = Contacted(expired, vm)
    /\ UNCHANGED <<vmState, queuedWorkItems, worker, checker>>

\* Time passes: clock c of vm runs out.
Elapse(vm, c) ==
    /\ c \notin expired[vm]
    /\ expired' = [expired EXCEPT ![vm] = @ \cup {c}]
    /\ UNCHANGED <<vmState, queuedWorkItems, worker, checker>>

-----------------------------------------------------------------------------
(* VBoxServer.run *)

\* Mutant: the newest item is served first.
WorkerPeekLast ==
    /\ worker.pc = "idle"
    /\ queuedWorkItems # <<>>
    /\ worker' = [pc |-> "peeked", vm |-> Last(queuedWorkItems)]
    /\ UNCHANGED <<vmState, expired, queuedWorkItems, checker>>

\* queuedWorkItems.peek(): the item stays in the queue while it is processed.
WorkerPeek ==
    /\ worker.pc = "idle"
    /\ queuedWorkItems # <<>>
    /\ worker' = [pc |-> "peeked", vm |-> Head(queuedWorkItems)]
    /\ UNCHANGED <<vmState, expired, queuedWorkItems, checker>>

\* Enter the monitor and setState(REVERTING).
WorkerStart ==
    /\ worker.pc = "peeked"
    /\ EnterState(worker.vm, "REVERTING")
    /\ expired' = Stamp(expired, worker.vm)
    /\ worker' = [worker EXCEPT !.pc = "reverting"]
    /\ UNCHANGED checker

\* Mutant: the outcome is a value of the enum that no thread handles.
WorkerRevertedSaving ==
    /\ worker.pc = "reverting"
    /\ EnterState(worker.vm, "SAVING")
    /\ expired' = Stamp(expired, worker.vm)
    /\ worker' = [worker EXCEPT !.pc = "delaying"]
    /\ UNCHANGED checker

(* The revert command ended with code 0, or it failed or was interrupted    *)
(* after REVERT_TIMEOUT seconds.                                            *)
WorkerReverted ==
    /\ worker.pc = "reverting"
    /\ \/ /\ EnterState(worker.vm, "RUNNING")
          /\ expired' = Contacted(Stamp(expired, worker.vm), worker.vm)
       \/ /\ EnterState(worker.vm, "ERROR")
          /\ expired' = Stamp(expired, worker.vm)
    /\ worker' = [worker EXCEPT !.pc = "delaying"]
    /\ UNCHANGED checker

\* The delay is over and the worker leaves the monitor.
WorkerUnlock ==
    /\ worker.pc = "delaying"
    /\ worker' = [worker EXCEPT !.pc = "released"]
    /\ UNCHANGED <<vmState, expired, queuedWorkItems, checker>>

\* finally: queuedWorkItems.remove(item), outside the monitor.
WorkerRemove ==
    /\ worker.pc = "released"
    /\ queuedWorkItems' = RemoveFirst(queuedWorkItems, worker.vm)
    /\ worker' = [pc |-> "idle", vm |-> NoVM]
    /\ UNCHANGED <<vmState, expired, checker>>

Worker == WorkerPeek \/ WorkerStart \/ WorkerReverted \/ WorkerUnlock \/ WorkerRemove

-----------------------------------------------------------------------------
(* VirtualMachinesStateChecker.run *)

\* Mutants: VMs that are not RUNNING are not watched; RUNNING VMs are not watched.
FatalOnlyRunning(s) == IF s = "RUNNING" THEN {"contact", "operation"} ELSE {}
FatalNotRunning(s) == IF s = "RUNNING" THEN {} ELSE {"revert"}

\* The clocks that make the checker revert a VM in state s.
Fatal(s) == IF s = "RUNNING" THEN {"contact", "operation"} ELSE {"revert"}

(* Read vm's state and clocks without the monitor.  A REVERTING VM gets a   *)
(* fresh lastContact.  After a revert for inactivity the test of the        *)
(* operation clock is always false, setState having just stamped it.        *)
CheckerLook(vm) ==
    /\ checker.pc = "looking"
    /\ vmState[vm] # "STOPPED"
    /\ expired' = IF vmState[vm] = "REVERTING" THEN Contacted(expired, vm) ELSE expired
    /\ checker' = IF Fatal(vmState[vm]) \cap expired[vm] # {}
                  THEN [pc |-> "deciding", vm |-> vm]
                  ELSE checker
    /\ UNCHANGED <<vmState, queuedWorkItems, worker>>

\* setState(WAITING_TO_BE_REVERTED) stamps the time before it asks for the monitor.
CheckerStamp ==
    /\ checker.pc = "deciding"
    /\ expired' = Stamp(expired, checker.vm)
    /\ checker' = [checker EXCEPT !.pc = "locking"]
    /\ UNCHANGED <<vmState, queuedWorkItems, worker>>

\* Mutant: the state is set whether or not it is already that one.
CheckerRevertAgain ==
    /\ checker.pc = "locking"
    /\ ~Locked(checker.vm)
    /\ vmState' = [vmState EXCEPT ![checker.vm] = "WAITING_TO_BE_REVERTED"]
    /\ RevertVirtualMachineStateAsync(checker.vm)
    /\ checker' = [pc |-> "looking", vm |-> NoVM]
    /\ UNCHANGED <<expired, worker>>

\* Mutant: the VM is stopped and not sent to a revert.
CheckerRevertStops ==
    /\ checker.pc = "locking"
    /\ ~Locked(checker.vm)
    /\ EnterState(checker.vm, "STOPPED")
    /\ checker' = [pc |-> "looking", vm |-> NoVM]
    /\ UNCHANGED <<expired, worker>>

\* The rest of setState, once the monitor is free.
CheckerRevert ==
    /\ checker.pc = "locking"
    /\ ~Locked(checker.vm)
    /\ EnterState(checker.vm, "WAITING_TO_BE_REVERTED")
    /\ checker' = [pc |-> "looking", vm |-> NoVM]
    /\ UNCHANGED <<expired, worker>>

-----------------------------------------------------------------------------
Init ==
    /\ vmState = [vm \in VM |-> "STOPPED"]
    /\ expired = [vm \in VM |-> {}]
    /\ queuedWorkItems = <<>>
    /\ worker = [pc |-> "idle", vm |-> NoVM]
    /\ checker = [pc |-> "looking", vm |-> NoVM]

Next ==
    \/ \E vm \in VM : \/ AddVirtualMachine(vm)
                      \/ ClientWaiting(vm)
                      \/ ClientDisconnected(vm)
                      \/ ClientContact(vm)
                      \/ \E c \in Clock : Elapse(vm, c)
                      \/ CheckerLook(vm)
    \/ Worker
    \/ CheckerStamp
    \/ CheckerRevert

Spec == Init /\ [][Next]_vars

(* The worker thread and the timer run on; every clock runs out if nothing  *)
(* stamps it.  The checker comes back to every VM, since each scan walks    *)
(* the whole list, and it gets a monitor that is free again and again.      *)
Fairness ==
    /\ WF_vars(Worker)
    /\ WF_vars(CheckerStamp)
    /\ SF_vars(CheckerRevert)
    /\ \A vm \in VM : SF_vars(CheckerLook(vm))
    /\ \A vm \in VM : \A c \in Clock : WF_vars(Elapse(vm, c))

FairSpec == Spec /\ Fairness

-----------------------------------------------------------------------------
(* Properties *)

(* No VM has two work items: revertVirtualMachineStateAsync tests contains  *)
(* and adds without a lock on the queue, and is safe only because every     *)
(* caller holds the VM's monitor.  A second item would revert a VM that has *)
(* just been handed to a new client.                                        *)
OneItemPerVM == IsInjective(queuedWorkItems)

(* From peek() to remove() the worker's item is the head of the queue,      *)
(* although other threads add to the queue all the time: remove(item) takes *)
(* off the item that was processed and no other.                            *)
WorkerOwnsHead == worker.pc # "idle" => /\ queuedWorkItems # <<>>
                                        /\ worker.vm = Head(queuedWorkItems)

(* The work queue of VBoxServer is sound while clients, checker and worker   *)
(* share it without a lock of its own: no VM has two items, and the item in *)
(* work stays where remove() will find it.                                  *)
QueueIsSound == OneItemPerVM /\ WorkerOwnsHead

(* A revert is exclusive: a VM is REVERTING exactly while the worker runs   *)
(* its revert command, and until the worker leaves the monitor the VM keeps *)
(* the outcome.  No disconnecting client and no timeout can mark the VM in  *)
(* the middle of the revert of VBoxServer.run.                              *)
RevertIsExclusive ==
    /\ \A vm \in VM : vmState[vm] = "REVERTING" <=> (worker.pc = "reverting" /\ worker.vm = vm)
    /\ worker.pc = "delaying" => vmState[worker.vm] \in {"RUNNING", "ERROR"}

\* A VM that asks for a revert nobody will carry out.
Stranded(vm) == /\ vmState[vm] = "WAITING_TO_BE_REVERTED"
                /\ ~Contains(queuedWorkItems, vm)

(* A stranded VM is out of the checker's reach: setState returns at once    *)
(* for a VM that is already WAITING_TO_BE_REVERTED, so that its time-outs   *)
(* never queue it again.  Only a client that reaches WAITING frees it.      *)
StrandedUntilClient ==
    [][\A vm \in VM : Stranded(vm) => Stranded(vm)' \/ vmState'[vm] = "RUNNING"]_vars

(* A VM is stranded only by the worker taking its item away: every request  *)
(* leaves the VM with an item in the queue, and no other thread removes it. *)
StrandedByRemoveOnly ==
    [][\A vm \in VM : ~Stranded(vm) /\ Stranded(vm)' => worker.pc = "released" /\ worker.vm = vm]_vars

(* How a VM is stranded, and how it gets free: nobody but VBoxServer.run's  *)
(* late remove() leaves a VM that waits for a revert without an item, and   *)
(* nobody but a client that reaches WAITING takes it out of that state.     *)
HowStranded == StrandedByRemoveOnly /\ StrandedUntilClient

\* vm has an item whose revert has not been started.
Pending(vm) == /\ Contains(queuedWorkItems, vm)
               /\ ~(worker.vm = vm /\ worker.pc \in {"delaying", "released"})

(* Every VM with a pending item is reverted, whatever the clients of the    *)
(* other VMs do: the queue of VBoxServer is served in order.                *)
PendingIsReverted == \A vm \in VM : Pending(vm) ~> vmState[vm] = "REVERTING"

(* The checker's request for a revert was carried out, or it was dropped as  *)
(* a duplicate of the item that the worker was about to remove (HowStranded). *)
RevertedOrStranded(vm) == vmState[vm] = "REVERTING" \/ Stranded(vm)

(* A VM whose revert failed is reverted again: the checker asks for it after *)
(* vm_stalled_after_revert_timeout.  A client that comes up all the same,    *)
(* and reaches WAITING before that, takes the VM into use.                   *)
ErrorIsReverted ==
    \A vm \in VM : vmState[vm] = "ERROR" ~> (RevertedOrStranded(vm) \/ vmState[vm] = "RUNNING")

(* A RUNNING VM whose client is silent past client_inactivity_timeout is    *)
(* reverted unless the client is heard of again.                            *)
SilentIsReverted ==
    \A vm \in VM : (vmState[vm] = "RUNNING" /\ "contact" \in expired[vm])
                   ~> (RevertedOrStranded(vm) \/ "contact" \notin expired[vm])

(* VBoxServer and VirtualMachinesStateChecker between them let no VM rest in *)
(* trouble: a queued revert is carried out, a failed one is tried again, and *)
(* a VM whose client has fallen silent is reverted, the one way out of this  *)
(* being the late remove() that strands a VM.                                *)
TroubleIsReverted == PendingIsReverted /\ ErrorIsReverted /\ SilentIsReverted

=============================================================================
