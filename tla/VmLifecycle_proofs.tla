-------------------------- MODULE VmLifecycle_proofs --------------------------
(***************************************************************************)
(* Proofs about VmLifecycle, for any set of virtual machines.               *)
(***************************************************************************)
EXTENDS VmLifecycle, TLAPS

-----------------------------------------------------------------------------
(* The queue of work items *)

(* remove(item) of an item that is at the head leaves the tail: what        *)
(* VBoxServer.run takes off the queue is the item it peeked.                *)
LEMMA RemoveFirstHead ==
    ASSUME NEW S, NEW s \in Seq(S), s # <<>>
    PROVE  RemoveFirst(s, Head(s)) = Tail(s)
<1>1. Len(s) \in Nat /\ 1 \in 1..Len(s) /\ s[1] = Head(s)
  OBVIOUS
<1> DEFINE I == {i \in 1..Len(s) : s[i] = Head(s)}
<1>2. 1 \in I /\ \A i \in I : 1 <= i
  BY <1>1
<1>3. Min(I) = 1
  <2>1. \E x \in I : \A y \in I : x <= y
    BY <1>2
  <2>2. Min(I) \in I /\ \A y \in I : Min(I) <= y
    BY <2>1 DEF Min
  <2> QED BY <2>2, <1>2, <1>1
<1>4. SelectInSeq(s, LAMBDA v : v = Head(s)) = 1
  BY <1>2, <1>3 DEF SelectInSeq
<1>5. RemoveFirst(s, Head(s)) = RemoveAt(s, 1)
  BY <1>1, <1>4 DEF RemoveFirst
<1>6. RemoveAt(s, 1) = Tail(s)
  BY <1>1 DEF RemoveAt
<1> QED BY <1>5, <1>6

(* Adding an item that is not queued keeps the items distinct and the head  *)
(* in its place.                                                            *)
LEMMA AppendKeepsQueue ==
    ASSUME NEW S, NEW s \in Seq(S), NEW e \in S, IsInjective(s), ~Contains(s, e)
    PROVE  /\ Append(s, e) \in Seq(S)
           /\ IsInjective(Append(s, e))
           /\ s # <<>> => Append(s, e) # <<>> /\ Head(Append(s, e)) = Head(s)
           /\ \A x : Contains(Append(s, e), x) <=> (Contains(s, x) \/ x = e)
<1> DEFINE t == Append(s, e)
<1>1. /\ t \in Seq(S) /\ Len(s) \in Nat /\ Len(t) = Len(s) + 1
      /\ DOMAIN t = 1..(Len(s) + 1) /\ DOMAIN s = 1..Len(s)
      /\ \A i \in 1..Len(s) : t[i] = s[i]
      /\ t[Len(s) + 1] = e
  OBVIOUS
<1>2. IsInjective(t)
  <2> SUFFICES ASSUME NEW i \in 1..(Len(s) + 1), NEW j \in 1..(Len(s) + 1), t[i] = t[j]
               PROVE  i = j
    BY <1>1 DEF IsInjective
  <2>1. CASE i \in 1..Len(s) /\ j \in 1..Len(s)
    BY <2>1, <1>1 DEF IsInjective
  <2>2. CASE i = Len(s) + 1 /\ j \in 1..Len(s)
    BY <2>2, <1>1 DEF Contains
  <2>3. CASE i \in 1..Len(s) /\ j = Len(s) + 1
    BY <2>3, <1>1 DEF Contains
  <2> QED BY <2>1, <2>2, <2>3, <1>1
<1>3. s # <<>> => t # <<>> /\ Head(t) = Head(s)
  OBVIOUS
<1>4. ASSUME NEW x PROVE Contains(t, x) <=> (Contains(s, x) \/ x = e)
  <2>1. Contains(t, x) => (Contains(s, x) \/ x = e)
    BY <1>1 DEF Contains
  <2>2. Contains(s, x) => Contains(t, x)
    BY <1>1 DEF Contains
  <2>3. x = e => Contains(t, x)
    BY <1>1 DEF Contains
  <2> QED BY <2>1, <2>2, <2>3
<1> QED BY <1>1, <1>2, <1>3, <1>4

\* Taking off the head keeps the items distinct, and loses that item only.
LEMMA TailKeepsQueue ==
    ASSUME NEW S, NEW s \in Seq(S), s # <<>>, IsInjective(s)
    PROVE  /\ Tail(s) \in Seq(S)
           /\ IsInjective(Tail(s))
           /\ \A x : x # Head(s) /\ Contains(s, x) => Contains(Tail(s), x)
<1> DEFINE t == Tail(s)
<1>1. /\ t \in Seq(S) /\ Len(s) \in Nat \ {0} /\ Len(t) = Len(s) - 1
      /\ DOMAIN t = 1..(Len(s) - 1) /\ DOMAIN s = 1..Len(s)
      /\ \A i \in 1..(Len(s) - 1) : t[i] = s[i + 1]
      /\ s[1] = Head(s)
  OBVIOUS
<1>2. IsInjective(t)
  <2> SUFFICES ASSUME NEW i \in 1..(Len(s) - 1), NEW j \in 1..(Len(s) - 1), t[i] = t[j]
               PROVE  i = j
    BY <1>1 DEF IsInjective
  <2>1. i + 1 \in DOMAIN s /\ j + 1 \in DOMAIN s /\ s[i + 1] = s[j + 1]
    BY <1>1
  <2>2. i + 1 = j + 1
    BY <2>1 DEF IsInjective
  <2> QED BY <2>2
<1>3. ASSUME NEW x, x # Head(s), Contains(s, x) PROVE Contains(t, x)
  <2>1. PICK i \in 1..Len(s) : s[i] = x
    BY <1>3 DEF Contains
  <2>2. i # 1
    BY <2>1, <1>1, <1>3
  <2>3. i - 1 \in 1..Len(t) /\ t[i - 1] = x
    BY <2>1, <2>2, <1>1
  <2> QED BY <2>3 DEF Contains
<1> QED BY <1>1, <1>2, <1>3

-----------------------------------------------------------------------------
(* The invariant *)

\* A thread that is busy with a VM is busy with one of the server's.
BusyWithVM == /\ worker.pc # "idle" => worker.vm \in VM
              /\ checker.pc # "looking" => checker.vm \in VM

IInv == TypeOK /\ OneItemPerVM /\ WorkerOwnsHead /\ RevertIsExclusive /\ BusyWithVM

(* What setState does to the queue: it stays a queue of distinct VMs, keeps  *)
(* its head and its items, and gets the VM that newly asks for a revert.     *)
LEMMA EnterStateQueue ==
    ASSUME TypeOK, OneItemPerVM, NEW vm \in VM, NEW new \in VM_STATE, EnterState(vm, new)
    PROVE  /\ vmState' \in [VM -> VM_STATE]
           /\ queuedWorkItems' \in Seq(VM)
           /\ OneItemPerVM'
           /\ queuedWorkItems # <<>> => /\ queuedWorkItems' # <<>>
                                        /\ Head(queuedWorkItems') = Head(queuedWorkItems)
           /\ \A x : Contains(queuedWorkItems, x) => Contains(queuedWorkItems', x)
           /\ new = "WAITING_TO_BE_REVERTED" /\ vmState[vm] # new => Contains(queuedWorkItems', vm)
<1>1. vmState' \in [VM -> VM_STATE]
  BY DEF EnterState, TypeOK
<1>2. queuedWorkItems \in Seq(VM) /\ IsInjective(queuedWorkItems)
  BY DEF TypeOK, OneItemPerVM
<1>3. CASE queuedWorkItems' = queuedWorkItems /\ ~(new = "WAITING_TO_BE_REVERTED" /\ vmState[vm] # new)
  BY <1>1, <1>2, <1>3 DEF OneItemPerVM
<1>4. CASE queuedWorkItems' = queuedWorkItems /\ Contains(queuedWorkItems, vm)
  BY <1>1, <1>2, <1>4 DEF OneItemPerVM
<1>5. CASE queuedWorkItems' = Append(queuedWorkItems, vm) /\ ~Contains(queuedWorkItems, vm)
  <2>1. /\ queuedWorkItems' \in Seq(VM)
        /\ IsInjective(queuedWorkItems')
        /\ queuedWorkItems # <<>> => /\ queuedWorkItems' # <<>>
                                     /\ Head(queuedWorkItems') = Head(queuedWorkItems)
        /\ \A x : Contains(queuedWorkItems', x) <=> (Contains(queuedWorkItems, x) \/ x = vm)
    BY <1>2, <1>5, AppendKeepsQueue
  <2> QED BY <1>1, <2>1 DEF OneItemPerVM
<1> QED BY <1>3, <1>4, <1>5 DEF EnterState, RevertVirtualMachineStateAsync

\* The invariant holds before the configuration is read.
LEMMA InitIInv == Init => IInv
<1> SUFFICES ASSUME Init PROVE IInv
  OBVIOUS
<1>1. TypeOK
  BY DEF Init, TypeOK, VM_STATE, Clock, WorkerPc, CheckerPc
<1>2. OneItemPerVM /\ WorkerOwnsHead /\ RevertIsExclusive /\ BusyWithVM
  BY DEF Init, OneItemPerVM, IsInjective, WorkerOwnsHead, RevertIsExclusive, BusyWithVM
<1> QED BY <1>1, <1>2 DEF IInv

\* The clocks keep their type.
LEMMA ClocksTyped ==
    ASSUME TypeOK, NEW vm \in VM
    PROVE  /\ Stamp(expired, vm) \in [VM -> SUBSET Clock]
           /\ Contacted(expired, vm) \in [VM -> SUBSET Clock]
           /\ Contacted(Stamp(expired, vm), vm) \in [VM -> SUBSET Clock]
  BY DEF TypeOK, Stamp, Contacted

(* setState by a client or by the checker, on a VM whose monitor the worker *)
(* does not hold: the worker and its VM are not affected.                   *)
LEMMA OthersSetState ==
    ASSUME IInv, NEW vm \in VM, NEW new \in VM_STATE \ {"REVERTING"},
           EnterState(vm, new), ~Locked(vm), UNCHANGED worker
    PROVE  OneItemPerVM' /\ WorkerOwnsHead' /\ RevertIsExclusive'
<1> USE DEF IInv
<1>1. /\ OneItemPerVM'
      /\ queuedWorkItems # <<>> => /\ queuedWorkItems' # <<>>
                                   /\ Head(queuedWorkItems') = Head(queuedWorkItems)
  BY EnterStateQueue
<1>2. WorkerOwnsHead'
  BY <1>1 DEF WorkerOwnsHead
<1>3. /\ vmState \in [VM -> VM_STATE]
      /\ vmState' = [vmState EXCEPT ![vm] = new]
  BY DEF TypeOK, EnterState
<1>4. ASSUME NEW x \in VM
      PROVE  vmState'[x] = "REVERTING" <=> (worker'.pc = "reverting" /\ worker'.vm = x)
  <2>1. CASE x = vm
    BY <2>1, <1>3 DEF Locked
  <2>2. CASE x # vm
    BY <2>2, <1>3 DEF RevertIsExclusive
  <2> QED BY <2>1, <2>2
<1>5. worker'.pc = "delaying" => vmState'[worker'.vm] \in {"RUNNING", "ERROR"}
  BY <1>3 DEF Locked, RevertIsExclusive, BusyWithVM
<1> QED BY <1>1, <1>2, <1>4, <1>5 DEF RevertIsExclusive

\* No step of any thread breaks the invariant.
LEMMA NextIInv == IInv /\ [Next]_vars => IInv'
<1> SUFFICES ASSUME IInv, [Next]_vars PROVE IInv'
  OBVIOUS
<1> USE DEF IInv
<1> DEFINE States == {"STOPPED", "WAITING_TO_BE_REVERTED", "REVERTING", "RUNNING", "ERROR"}
<1>0. /\ vmState \in [VM -> VM_STATE]
      /\ expired \in [VM -> SUBSET Clock]
      /\ queuedWorkItems \in Seq(VM)
      /\ worker \in [pc : WorkerPc, vm : VM \cup {NoVM}]
      /\ checker \in [pc : CheckerPc, vm : VM \cup {NoVM}]
  BY DEF TypeOK
<1>1. ASSUME NEW vm \in VM, AddVirtualMachine(vm) PROVE IInv'
  <2>1. ~Locked(vm)
    BY <1>1 DEF AddVirtualMachine, Locked, RevertIsExclusive
  <2>2. OneItemPerVM' /\ WorkerOwnsHead' /\ RevertIsExclusive'
    BY <1>1, <2>1, OthersSetState DEF AddVirtualMachine, VM_STATE
  <2>3. TypeOK' /\ BusyWithVM'
    BY <1>0, <1>1, EnterStateQueue, ClocksTyped DEF AddVirtualMachine, VM_STATE, TypeOK, BusyWithVM
  <2> QED BY <2>2, <2>3
<1>2. ASSUME NEW vm \in VM, ClientWaiting(vm) PROVE IInv'
  <2>1. OneItemPerVM' /\ WorkerOwnsHead' /\ RevertIsExclusive'
    BY <1>2, OthersSetState DEF ClientWaiting, VM_STATE
  <2>2. TypeOK' /\ BusyWithVM'
    BY <1>0, <1>2, EnterStateQueue, ClocksTyped DEF ClientWaiting, VM_STATE, TypeOK, BusyWithVM
  <2> QED BY <2>1, <2>2
<1>3. ASSUME NEW vm \in VM, ClientDisconnected(vm) PROVE IInv'
  <2>1. OneItemPerVM' /\ WorkerOwnsHead' /\ RevertIsExclusive'
    BY <1>3, OthersSetState DEF ClientDisconnected, VM_STATE
  <2>2. TypeOK' /\ BusyWithVM'
    BY <1>0, <1>3, EnterStateQueue, ClocksTyped DEF ClientDisconnected, VM_STATE, TypeOK, BusyWithVM
  <2> QED BY <2>1, <2>2
<1>4. ASSUME NEW vm \in VM, ClientContact(vm) PROVE IInv'
  BY <1>0, <1>4, ClocksTyped
     DEF ClientContact, TypeOK, OneItemPerVM, WorkerOwnsHead, RevertIsExclusive, BusyWithVM
<1>5. ASSUME NEW vm \in VM, NEW c \in Clock, Elapse(vm, c) PROVE IInv'
  BY <1>0, <1>5
     DEF Elapse, TypeOK, OneItemPerVM, WorkerOwnsHead, RevertIsExclusive, BusyWithVM
<1>6. ASSUME NEW vm \in VM, CheckerLook(vm) PROVE IInv'
  <2>1. expired' \in [VM -> SUBSET Clock]
    BY <1>0, <1>6, ClocksTyped DEF CheckerLook
  <2>2. checker' \in [pc : CheckerPc, vm : VM \cup {NoVM}] /\ (checker'.pc # "looking" => checker'.vm \in VM)
    BY <1>0, <1>6 DEF CheckerLook, CheckerPc, BusyWithVM
  <2> QED BY <1>0, <1>6, <2>1, <2>2
          DEF CheckerLook, TypeOK, OneItemPerVM, WorkerOwnsHead, RevertIsExclusive, BusyWithVM
<1>7. CASE WorkerPeek
  <2>1. Head(queuedWorkItems) \in VM
    BY <1>0, <1>7 DEF WorkerPeek
  <2> QED BY <1>0, <1>7, <2>1
          DEF WorkerPeek, WorkerPc, TypeOK, OneItemPerVM, WorkerOwnsHead, RevertIsExclusive, BusyWithVM
<1>8. CASE WorkerStart
  <2>1. worker.vm \in VM /\ worker' = [worker EXCEPT !.pc = "reverting"] /\ checker' = checker
    BY <1>8 DEF WorkerStart, BusyWithVM
  <2>2. TypeOK' /\ OneItemPerVM' /\ WorkerOwnsHead' /\ BusyWithVM'
    BY <1>0, <1>8, <2>1, EnterStateQueue, ClocksTyped
       DEF WorkerStart, VM_STATE, WorkerPc, TypeOK, WorkerOwnsHead, BusyWithVM
  <2>3. RevertIsExclusive'
    BY <1>0, <1>8, <2>1 DEF WorkerStart, EnterState, RevertIsExclusive
  <2> QED BY <2>2, <2>3
<1>9. CASE WorkerReverted
  <2>1. worker.vm \in VM /\ worker' = [worker EXCEPT !.pc = "delaying"] /\ checker' = checker
    BY <1>9 DEF WorkerReverted, BusyWithVM
  <2>2. PICK new \in {"RUNNING", "ERROR"} : EnterState(worker.vm, new)
    BY <1>9 DEF WorkerReverted
  <2>3. expired' \in [VM -> SUBSET Clock]
    BY <1>9, <2>1, ClocksTyped DEF WorkerReverted
  <2>4. TypeOK' /\ OneItemPerVM' /\ WorkerOwnsHead' /\ BusyWithVM'
    BY <1>0, <1>9, <2>1, <2>2, <2>3, EnterStateQueue
       DEF WorkerReverted, VM_STATE, WorkerPc, TypeOK, WorkerOwnsHead, BusyWithVM
  <2>5. RevertIsExclusive'
    BY <1>0, <1>9, <2>1, <2>2 DEF WorkerReverted, EnterState, RevertIsExclusive
  <2> QED BY <2>4, <2>5
<1>10. CASE WorkerUnlock
  BY <1>0, <1>10
     DEF WorkerUnlock, WorkerPc, TypeOK, OneItemPerVM, WorkerOwnsHead, RevertIsExclusive, BusyWithVM
<1>11. CASE WorkerRemove
  <2>1. queuedWorkItems # <<>> /\ queuedWorkItems' = Tail(queuedWorkItems)
    BY <1>0, <1>11, RemoveFirstHead DEF WorkerRemove, WorkerOwnsHead
  <2>2. queuedWorkItems' \in Seq(VM) /\ OneItemPerVM'
    BY <1>0, <2>1, TailKeepsQueue DEF OneItemPerVM
  <2> QED BY <1>0, <1>11, <2>2
          DEF WorkerRemove, WorkerPc, TypeOK, WorkerOwnsHead, RevertIsExclusive, BusyWithVM
<1>12. CASE CheckerStamp
  <2>1. checker.vm \in VM
    BY <1>12 DEF CheckerStamp, BusyWithVM
  <2> QED BY <1>0, <1>12, <2>1, ClocksTyped
          DEF CheckerStamp, CheckerPc, TypeOK, OneItemPerVM, WorkerOwnsHead, RevertIsExclusive, BusyWithVM
<1>13. CASE CheckerRevert
  <2>1. checker.vm \in VM
    BY <1>13 DEF CheckerRevert, BusyWithVM
  <2>2. OneItemPerVM' /\ WorkerOwnsHead' /\ RevertIsExclusive'
    BY <1>13, <2>1, OthersSetState DEF CheckerRevert, VM_STATE
  <2>3. TypeOK' /\ BusyWithVM'
    BY <1>0, <1>13, <2>1, EnterStateQueue DEF CheckerRevert, CheckerPc, VM_STATE, TypeOK, BusyWithVM
  <2> QED BY <2>2, <2>3
<1>14. CASE UNCHANGED vars
  BY <1>14 DEF vars, TypeOK, OneItemPerVM, WorkerOwnsHead, RevertIsExclusive, BusyWithVM
<1> QED
  BY <1>1, <1>2, <1>3, <1>4, <1>5, <1>6, <1>7, <1>8, <1>9, <1>10, <1>11, <1>12, <1>13, <1>14
     DEF Next, Worker

(* The inductive invariant: what VBoxServer.run, the timer and the clients    *)
(* keep true together of the state, the queue and the worker.               *)
THEOREM Invariant == Spec => []IInv
  BY InitIInv, NextIInv, PTL DEF Spec

(* Type correctness: vmState never leaves the enum's values in use, the     *)
(* queue holds VMs of this server, and the two threads are where run() can  *)
(* be.                                                                      *)
THEOREM TypeCorrect == Spec => []TypeOK
  BY Invariant, PTL DEF IInv

(* No VM of any server ever has two work items in queuedWorkItems.          *)
THEOREM NoVMQueuedTwice == Spec => []OneItemPerVM
  BY Invariant, PTL DEF IInv

(* The item that VBoxServer.run processes stays at the head of the queue    *)
(* until it removes it.                                                     *)
THEOREM WorkerServesHead == Spec => []WorkerOwnsHead
  BY Invariant, PTL DEF IInv

(* The revert of a VM is exclusive, for any number of VMs and clients.      *)
THEOREM RevertsAreExclusive == Spec => []RevertIsExclusive
  BY Invariant, PTL DEF IInv

-----------------------------------------------------------------------------
(* The lost revert: how a VM is stranded, and what frees it *)

(* A step that changes the queue keeps every item, except that the worker's  *)
(* remove() takes off its own item.                                          *)
LEMMA ItemsStay ==
    ASSUME IInv, [Next]_vars, NEW x \in VM, Contains(queuedWorkItems, x)
    PROVE  Contains(queuedWorkItems', x) \/ (worker.pc = "released" /\ worker.vm = x)
<1> USE DEF IInv
<1>1. ASSUME NEW vm \in VM, NEW new \in VM_STATE, EnterState(vm, new)
      PROVE  Contains(queuedWorkItems', x)
  BY <1>1, EnterStateQueue
<1>2. CASE WorkerRemove
  <2>1. queuedWorkItems \in Seq(VM)
    BY DEF TypeOK
  <2>2. /\ queuedWorkItems # <<>> /\ worker.vm = Head(queuedWorkItems)
        /\ queuedWorkItems' = Tail(queuedWorkItems)
    BY <1>2, <2>1, RemoveFirstHead DEF WorkerRemove, WorkerOwnsHead
  <2>3. x # Head(queuedWorkItems) => Contains(queuedWorkItems', x)
    BY <2>1, <2>2, TailKeepsQueue DEF OneItemPerVM
  <2> QED BY <1>2, <2>2, <2>3 DEF WorkerRemove
<1>3. CASE UNCHANGED queuedWorkItems
  BY <1>3
<1>4. CASE \E vm \in VM : AddVirtualMachine(vm) \/ ClientWaiting(vm) \/ ClientDisconnected(vm)
  BY <1>4, <1>1 DEF AddVirtualMachine, ClientWaiting, ClientDisconnected, VM_STATE
<1>5. CASE WorkerStart \/ WorkerReverted
  BY <1>5, <1>1 DEF WorkerStart, WorkerReverted, VM_STATE, BusyWithVM
<1>6. CASE CheckerRevert
  BY <1>6, <1>1 DEF CheckerRevert, VM_STATE, BusyWithVM
<1>7. CASE \/ \E vm \in VM : \/ ClientContact(vm) \/ CheckerLook(vm)
                             \/ \E c \in Clock : Elapse(vm, c)
           \/ WorkerPeek \/ WorkerUnlock \/ CheckerStamp \/ UNCHANGED vars
  BY <1>7, <1>3 DEF ClientContact, CheckerLook, Elapse, WorkerPeek, WorkerUnlock, CheckerStamp, vars
<1> QED BY <1>2, <1>4, <1>5, <1>6, <1>7 DEF Next, Worker

(* A step that makes a VM WAITING_TO_BE_REVERTED leaves it with an item.     *)
LEMMA RequestIsQueued ==
    ASSUME IInv, [Next]_vars, NEW x \in VM,
           vmState[x] # "WAITING_TO_BE_REVERTED", vmState'[x] = "WAITING_TO_BE_REVERTED"
    PROVE  Contains(queuedWorkItems', x)
<1> USE DEF IInv
<1>1. ASSUME NEW vm \in VM, NEW new \in VM_STATE, EnterState(vm, new)
      PROVE  Contains(queuedWorkItems', x)
  <2>1. vm = x /\ new = "WAITING_TO_BE_REVERTED"
    BY <1>1 DEF EnterState, TypeOK
  <2> QED BY <1>1, <2>1, EnterStateQueue
<1>2. CASE UNCHANGED vmState
  BY <1>2
<1>3. CASE \E vm \in VM : AddVirtualMachine(vm) \/ ClientWaiting(vm) \/ ClientDisconnected(vm)
  BY <1>3, <1>1 DEF AddVirtualMachine, ClientWaiting, ClientDisconnected, VM_STATE
<1>4. CASE WorkerStart \/ WorkerReverted
  BY <1>4, <1>1 DEF WorkerStart, WorkerReverted, VM_STATE, BusyWithVM
<1>5. CASE CheckerRevert
  BY <1>5, <1>1 DEF CheckerRevert, VM_STATE, BusyWithVM
<1>6. CASE \/ \E vm \in VM : \/ ClientContact(vm) \/ CheckerLook(vm)
                             \/ \E c \in Clock : Elapse(vm, c)
           \/ WorkerPeek \/ WorkerUnlock \/ WorkerRemove \/ CheckerStamp \/ UNCHANGED vars
  BY <1>6, <1>2 DEF ClientContact, CheckerLook, Elapse, WorkerPeek, WorkerUnlock, WorkerRemove,
                    CheckerStamp, vars
<1> QED BY <1>3, <1>4, <1>5, <1>6 DEF Next, Worker

(* Every request for a revert is queued, and an item is lost only when the   *)
(* worker removes it: the window between leaving the monitor and             *)
(* queuedWorkItems.remove is the only way to strand a VM.                    *)
THEOREM StrandedOnlyByRemove == Spec => StrandedByRemoveOnly
<1>1. IInv /\ [Next]_vars =>
          [\A vm \in VM : ~Stranded(vm) /\ Stranded(vm)' => worker.pc = "released" /\ worker.vm = vm]_vars
  <2> SUFFICES ASSUME IInv, [Next]_vars, NEW vm \in VM, ~Stranded(vm), Stranded(vm)'
               PROVE  worker.pc = "released" /\ worker.vm = vm
    OBVIOUS
  <2>1. vmState'[vm] = "WAITING_TO_BE_REVERTED" /\ ~Contains(queuedWorkItems', vm)
    BY DEF Stranded
  <2>2. vmState[vm] = "WAITING_TO_BE_REVERTED"
    BY <2>1, RequestIsQueued
  <2>3. Contains(queuedWorkItems, vm)
    BY <2>2 DEF Stranded
  <2> QED BY <2>1, <2>3, ItemsStay
<1> QED BY <1>1, Invariant, PTL DEF Spec, StrandedByRemoveOnly

(* A stranded VM stays stranded until a client of it reaches WAITING: no     *)
(* step of the checker, whatever the time-outs, queues it again.             *)
THEOREM CheckerNeverFreesStranded == Spec => StrandedUntilClient
<1>1. IInv /\ [Next]_vars =>
          [\A vm \in VM : Stranded(vm) => Stranded(vm)' \/ vmState'[vm] = "RUNNING"]_vars
  <2> SUFFICES ASSUME IInv, [Next]_vars, NEW x \in VM, Stranded(x)
               PROVE  Stranded(x)' \/ vmState'[x] = "RUNNING"
    OBVIOUS
  <2> USE DEF IInv
  <2>1. /\ vmState \in [VM -> VM_STATE] /\ queuedWorkItems \in Seq(VM)
        /\ vmState[x] = "WAITING_TO_BE_REVERTED" /\ ~Contains(queuedWorkItems, x)
    BY DEF TypeOK, Stranded
  <2>2. worker.pc # "idle" => worker.vm # x
    BY <2>1 DEF WorkerOwnsHead, Contains
  <2>3. ASSUME NEW vm \in VM, NEW new \in VM_STATE, EnterState(vm, new),
               vm = x => new \in {"RUNNING", "WAITING_TO_BE_REVERTED"}
        PROVE  Stranded(x)' \/ vmState'[x] = "RUNNING"
    <3>1. CASE vm = x
      BY <2>1, <2>3, <3>1 DEF EnterState, Stranded
    <3>2. CASE vm # x
      <4>1. vmState'[x] = vmState[x]
        BY <2>1, <2>3, <3>2 DEF EnterState
      <4>2. CASE queuedWorkItems' = queuedWorkItems
        BY <2>1, <4>1, <4>2 DEF Stranded
      <4>3. CASE queuedWorkItems' = Append(queuedWorkItems, vm) /\ ~Contains(queuedWorkItems, vm)
        BY <2>1, <3>2, <4>1, <4>3, AppendKeepsQueue DEF Stranded, OneItemPerVM
      <4> QED BY <2>3, <4>2, <4>3 DEF EnterState, RevertVirtualMachineStateAsync
    <3> QED BY <3>1, <3>2
  <2>4. CASE \E vm \in VM : AddVirtualMachine(vm) \/ ClientWaiting(vm) \/ ClientDisconnected(vm)
    BY <2>4, <2>3 DEF AddVirtualMachine, ClientWaiting, ClientDisconnected, VM_STATE
  <2>5. CASE WorkerStart \/ WorkerReverted
    BY <2>5, <2>2, <2>3 DEF WorkerStart, WorkerReverted, VM_STATE, BusyWithVM
  <2>6. CASE CheckerRevert
    BY <2>6, <2>3 DEF CheckerRevert, VM_STATE, BusyWithVM
  <2>7. CASE WorkerRemove
    <3>1. queuedWorkItems # <<>> /\ queuedWorkItems' = Tail(queuedWorkItems)
      BY <2>1, <2>7, RemoveFirstHead DEF WorkerRemove, WorkerOwnsHead
    <3>2. \A i \in 1..Len(queuedWorkItems') : queuedWorkItems'[i] = queuedWorkItems[i + 1]
                                              /\ i + 1 \in 1..Len(queuedWorkItems)
      BY <2>1, <3>1
    <3>3. ~Contains(queuedWorkItems', x)
      BY <2>1, <3>2 DEF Contains
    <3> QED BY <2>1, <2>7, <3>3 DEF WorkerRemove, Stranded
  <2>8. CASE \/ \E vm \in VM : \/ ClientContact(vm) \/ CheckerLook(vm)
                               \/ \E c \in Clock : Elapse(vm, c)
             \/ WorkerPeek \/ WorkerUnlock \/ CheckerStamp \/ UNCHANGED vars
    BY <2>1, <2>8 DEF ClientContact, CheckerLook, Elapse, WorkerPeek, WorkerUnlock, CheckerStamp,
                      vars, Stranded
  <2> QED BY <2>4, <2>5, <2>6, <2>7, <2>8 DEF Next, Worker
<1> QED BY <1>1, Invariant, PTL DEF Spec, StrandedUntilClient

(* The work queue of VBoxServer is sound for any number of VMs: no VM has   *)
(* two items and the worker's item stays at the head.                       *)
THEOREM QueueSound == Spec => []QueueIsSound
  BY NoVMQueuedTwice, WorkerServesHead, PTL DEF QueueIsSound

(* How a VM is stranded and freed, for any number of VMs: only by the late  *)
(* remove() of VBoxServer.run, and only through a client.                   *)
THEOREM Stranding == Spec => HowStranded
  BY StrandedOnlyByRemove, CheckerNeverFreesStranded DEF HowStranded
=============================================================================
