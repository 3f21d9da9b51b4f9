# Capture-HPC NG: TLA+ models, TLC runs and proofs

Capture-HPC NG is a client honeypot. A Java server keeps a queue of URLs and a
set of virtual machines. A capture client in each virtual machine (C++ and three
kernel drivers) visits URLs with a browser and reports every state change that
its exclusion lists do not allow. A machine on which something changed is
reverted to a clean snapshot.

Paths: `S/` is `src/Server/src/main/java/pl/nask/hsn/capture/server/`, `C/` is
`src/Client/`.

## 1. Inventory

### Server

| Component | State | Operations | Threads |
|---|---|---|---|
| `VirtualMachine` | `vmState`, `lastContact`, `vmStateTimeChange`, `client` | `setState` (under its monitor; calls `Client.setClientState` and the server's `update`), `setLastContact` | called by all |
| `VBoxServer`, `VMwareServer` | `queuedWorkItems` | `revertVirtualMachineStateAsync`, `run` (peek, revert under the VM's monitor, delay, remove) | one worker for each server |
| `VirtualMachinesStateChecker` | none | `run`: compares the clocks of every VM with the time-outs, marks the group in error, asks for a revert | a timer |
| `UrlsController`, `Url` | priority queue of URLs; state, verdict and error code of each | `addUrlEvent`, `takeUrl`, `setUrlState` | event threads, retrievers |
| `UrlGroupsController`, `UrlGroup` | `urlGroupQueue`, `visitingList`; URLs, state, `errorCount`, `retryCount`, verdict of each group | `takeUrlGroup`, `update` (split, retry), `QueueMonitor` (exit when idle) | retrievers, receivers, timer |
| `Client` | `clientState`, `visitingUrlGroup`, socket, `StateChangeHandler` | `setClientState`, `disconnect`, `send`, `parseEvent`, `parseVisitEvent`, `run` | a retriever and a receiver for each client |
| `ClientEventController` | the element being parsed, file receivers | `parseConnectEvent`, `parseReconnectEvent`, `run` | the receiver |
| `ClientsPinger` | three sets of clients | `update`, `run` | a timer |
| `StateChangeHandler` | tree of processes with their state changes | `addStateChange`, `getStateChangesCSV` | the receiver |
| `ClientFileReceiver`, `Zippa` | file being received, the table of unfinished files of each connection | create, part, end; repair of a truncated file | the receiver, whoever disconnects |

### Capture client

| Component | State | Operations |
|---|---|---|
| `Visitor` | queue of visits, auto-reset event | `onServerEvent` queues, `run` visits and notifies |
| `Analyzer` | `malicious`, options | `start`/`stop` around a visit, forwards state changes, sends the reports |
| `Server`, `ServerReceive`, `EventController` | socket, `connected` | send, receive, reconnect, dispatch by element name |
| `FileUploader` | `fileAccepted`, event | request, wait 5 s, parts, finish |
| `RegistryMonitor`, `FileMonitor`, `ProcessMonitor` | a thread and a buffer each; the modified files of a visit | ask the driver for events, examine them, signal the ones no exclusion allows |
| `Monitor`, `Permission` | the exclusion lists, one for each monitor | load, add, clear (server and `Analyzer` threads), look up (monitor threads) |
| `ProcessManager` | map from process ids to paths, the process monitor it announces to | look up, insert, initialise; called by the threads of all monitors |
| registry driver | queue of events, time of the last request, timer | callback adds, request takes, timer empties when nobody asks |
| file driver | the same, and operations in flight, the directory for the copies of deleted files | callbacks before and after an operation, setup message, disconnect, unload |
| process driver | queue without a bound, one event object | callback adds and pulses the event, request takes one |
| plugins | browser processes | visit a group one by one (`seq`), at once (`dac`) or at once with process ids (`bulk`) |

### Interaction

A receiver thread calls into `Client`, which calls `UrlGroup` and, through
`Observable`, `UrlGroupsController`; `setClientState` takes the VM's monitor and
calls `VirtualMachine.setState`, which calls the virtual machine server, which
queues a revert. The worker, the checker, the pinger and the retrievers come
from the other side: `setState(WAITING_TO_BE_REVERTED)` disconnects the client,
`send` disconnects it when the socket fails, and `disconnect` gives up the group.

In the machine, a driver's callbacks run in whatever thread made the operation
and queue an event. The thread of the monitor takes a buffer of them, asks
`ProcessManager` for the path of the process, compares with the exclusion list,
and signals. The `Analyzer`, connected between the start and the end of a visit,
sends what it is told to the server. The receiver's thread changes the lists and
the options meanwhile, and the Visitor's collects the modified files, zips them
and uploads them.

### What is hard

Threads that meet in the same objects with and without a monitor; groups given
up several times by one failure; state changes that come before the start or
after the end of a visit; time-outs that race late answers; requests that are
dropped because an equal one is still in the queue. In the drivers: list calls
that are safe one by one and not together; a queue that outlives its reader; an
event that is pulsed and may be missed; ids and names that are used again.
`PROJECT.json` lists every
such place under `hazards` with the properties that watch it.

## 2. Modules

| Module | Models | Composes |
|---|---|---|
| `VmLifecycle` | `VirtualMachine`, `VBoxServer`, `VirtualMachinesStateChecker` | |
| `VmLifecycle_proofs` | theorems about it | `VmLifecycle` |
| `UrlLedger` | what the server promises about a URL (abstract) | |
| `UrlGroups` | `UrlsController`, `Url`, `UrlGroupsController`, `UrlGroup`, the handlers of `Client` and `ClientEventController` | implements `UrlLedger` |
| `UrlGroups_proofs` | theorems about it | `UrlGroups` |
| `ClientThreads` | the threads that meet in one `Client`: receiver, retriever, pinger, checker | |
| `ClientThreads_proofs` | theorems about it | `ClientThreads` |
| `WorkerPool` | `visitGroup` and the workers of the Internet Explorer plugins | |
| `CaptureVisit` | `Visitor`, `Analyzer`, the monitors' callbacks, `Server`, `ServerReceive`, and the server's `Client` at the other end of the connection | |
| `CaptureVisit_proofs` | theorems about it and about `WorkerPool` | `CaptureVisit`, `WorkerPool` |
| `EventStream` | what a monitor promises of its driver's events (abstract) | |
| `RegistryEvents` | `CaptureRegistryMonitor.c` and the thread of `RegistryMonitor` | implements `EventStream` |
| `RegistryEvents_proofs` | theorems about it | `RegistryEvents` |
| `Exclusions` | `Monitor`, `Permission`: the exclusion lists | |
| `FileEvents` | `CaptureFileMonitor.c`, the thread of `FileMonitor`, and the parts of `Analyzer` that set them up | `Exclusions`; implements `EventStream` |
| `FileEvents_proofs` | theorems about it | `FileEvents` |
| `ProcessEvents` | `CaptureProcessMonitor.c`, the thread of `ProcessMonitor`, `ProcessManager` | `Exclusions` |
| `ProcessEvents_proofs` | theorems about it | `ProcessEvents` |
| `FileTransfer` | `FileUploader`, `ClientFileReceiver`, the file elements of `ClientEventController`, the repair in `Client.disconnect` | |
| `FileTransfer_proofs` | theorems about it | `FileTransfer` |
| `MC*` | constants for TLC | |

**VmLifecycle.** The monitor of a VM is implied by the worker's place in
`run()` (`Locked`); calls of the client threads hold it for one step. The
worker's step from peek to remove is five actions, because each boundary is one
another thread can see. The checker has three: it reads, stamps, and acts once
the monitor is free. A clock is in `expired[vm]` when its time-out has passed;
time-outs are independent, so all settings of `config.xml` are covered.

**UrlGroups.** Groups are numbered objects; methods are functions from `pool`
to `pool`, a handler is their composition and one step. `EventMissed` is the
state change whose report the server does not use: `Analyzer` sets `malicious`
before it sends, and the server ignores what comes before the start report.
`Malicious` is the set of URLs that cause a state change when visited; a visit
that ends has lasted long enough for it. `algorithmOf` is the algorithm of the
plugin of each URL's program, chosen once from `Setups`, which also say whether
`terminate` is set; a group is visited by the plugin of the program of its first
URL.

`due[c]` is the report on client `c`'s group that comes next. A start report that
was under way when the connection broke is lost, so that after a `Reconnect` the
end of the visit may be reported first. `parseVisitEvent` has no test against
that, and neither have `VisitFinish` and `VisitError`. They then work on a group
without an algorithm, which `update` does not split; and if a URL of it has never
been started, setting it `VISITED` throws (`Startless`, `SetVisitedThrows`),
which ends the receiver and leaves client and group as they are. `QueueMonitor`
makes its six reads one by one; `monitor` counts those in a row that found
nothing, and any other thread may step in between. `unsplit` and `missed` are
history variables: the URLs of groups left whole for want of their start, and the
URLs that moved out of `QueueMonitor`'s sight since the last read of
`visitingList`.

**UrlLedger.** A URL is absent, waiting, out with one client, settled, or
disowned: nothing is promised of the URLs of a malicious group that was left
whole (`unsplit`). `UrlGroups` implements it under the mapping `LedgerStatus`, `LedgerHolder`.

**ClientThreads.** `UrlGroups` makes one step of a handler; this module makes
one of every access to state that another thread can see. `todo[t]` is a stack
of the operations left to thread `t`: a call puts the callee's operations in
front. The monitors of the VM and of the `urlRetriever` thread are re-entrant
and have an owner and a depth; `wait` and `notify` are those of Java. `Throw` is
the `NullPointerException` of a group another thread has just set to null; it
unwinds the thread and releases its monitors.

**WorkerPool.** The flag `worker_thread_busy`, the pointers and the two
auto-reset events that `visitGroup` shares with its workers, one access for
each step. An outcome of `visitUrl` is the major error code it leaves; the
events of the browser are a choice between them.

**CaptureVisit.** A capture client from its start in a clean machine to the next
revert, and the server as this client meets it. `visitor`, `receiver` and
`monitor[m]` say where the three kinds of threads are; a step ends where another
thread can see the state. `SendMessage` is the whole of `Server::sendMessage`
but its last line: `setConnected(false)` after a failed `send()` is `SendFailed`,
a step of its own, because the thread may be slow and close a newer connection.
What `visitGroup` leaves behind is a choice (`outcomes`): a code, or an exception
and then a code. `link` is the connection as the client's socket shows it; a
break loses what is on the way, by a close (`recv` returns 0) or a reset (`recv`
fails). `reconnecting`, `linked` and the two first messages are those of the
reconnection protocol. The server sends one document at a time; a time-out of
the server is covered by `Revert`, which is always possible and starts the
numbering of the visits again. `marked` and `during` are history variables.

**RegistryEvents.** Time is `silence`, the seconds since the last request, and
`due`, the seconds to the next call of the timer's routine. The routine and a
request are several steps, because the code tests the list in one call and takes
its head in another; a head that is not there is a null pointer in the routine
(`crashed`) and a caught exception in the request. A request that does not fit
its event puts it back. The client may end in order (`Stop`), which takes three
steps, or die. Paths are sequences of their parts, and the table of hives is that
of `initialiseObjectNameMap` with its order.

**Exclusions.** A list is the set of its permissions: neither their order nor a
repetition matters to `isEventAllowed`. A regular expression is the set of names
it matches. The attribute `excluded` of an exclusion the server sends may be
neither of the words the code knows; then the flag is whatever memory holds
(`Allow`).

**FileEvents.** `flying` is the operations between their two callbacks. The
setup message is three steps in the driver, because it frees the name of the
directory, allocates a new one and fills it, all without a lock; a callback may
look at it in between (`BackUp`). `thread` separates the monitor's look at
`monitorModifiedFiles` from its insertion into the set (`Modify`). The copy of a
deleted file goes to a path made of its drive, its folders and its name, and
fails without its directory. The queue of the driver is that of `RegistryEvents`
and a request one step here.

**ProcessEvents.** A process has an id, and an id may serve two processes one
after the other. A look at the map that misses may fail, or find the path of
the process that has the id *then*; in that case `getProcessPath` enters it and
calls `onProcessEvent`, which looks for the module of the parent, and so on.
`stack[t]` is this chain of calls of thread `t`. `clearing` says that a callback
of the driver is between `KeSetEvent` and `KeClearEvent`.

**FileTransfer.** An upload asks, waits for the answer or for its time-out, and
sends its parts. The table of the server has at most one unfinished file for
each name. A part is damaged when the parser gives its text in pieces. A file
that could not be created has no stream (`output` is `"none"`), and the first
part for it ends the receiver. The file on the server is named after the group
(`PathOf`); opening it empties what is in it (`Emptied`). `files` lists the
receivers in the order they were made, so that two of them may stand for one
file. A group comes back to a client only after a revert (`SendFile`).

## 3. Runs

| Run | Instance | Shows |
|---|---|---|
| `vm` | 2 VMs, fair | the queue is consistent (`QueueIsSound`), reverts are exclusive, a VM is stranded by the worker's late removal only and freed by a client only (`HowStranded`), a failed or silent VM is reverted unless it is stranded in that way or its client is heard of (`TroubleIsReverted`) |
| `groups` | 3 URLs, the first with priority and one of them malicious, groups of 3, 1 client, plugins of one algorithm or of several, no revert after a clean visit, 1 failure for each report, starts that get lost, fair | the outcome of a URL is right (`OutcomeIsRight`: it has one, the verdict is that of the visit but for three named exceptions, a failed group is retried once), the ledger is implemented, and every accepted URL is settled if some client is connected again and again |
| `groups_two_clients` | 2 URLs, 2 clients, starts that get lost, either groups that are split or `terminate` | no URL is worked on twice unless its group was left whole (`WorkIsUnique`), and what `QueueMonitor`'s exit can lose when its reads interleave with everything else (`ExitLosesOnlyMissed`) |
| `threads_all` | 1 client, 1 group, both timers, writes that fail | a disconnect is complete, and the group in hand is given up whoever closes the socket; the retriever, by a failed write of its own, is in every lock cycle (`OnlyRetriever`) |
| `threads_pair` | 1 client, 2 groups, no timers, writes that succeed, fair | no lock cycle as long as writes succeed (`NoLockCycle`), and no lost wake-up of the retriever |
| `pool` | 2 workers, groups of 1 to 3 URLs, fair | nothing is freed in use, each URL is visited once, the code of a group is sound (`GroupIsSound`); groups no larger than the pool end |
| `visit` | 2 monitors, 3 visits, the third without a plugin, 1 break of the network, fair | the queue of visits is never popped when empty nor used by two threads; a visit leaves nothing behind; a report is about the group in hand and a verdict covers its visit (`ReportsAreRight`); a group comes back |
| `registry` | time-out of 2 s, buffer of 2 units, 3 events, 2 starts of the client, fair | no event is lost while the client polls, whatever timer and client do (`PolledIsComplete`); hives are the most specific ones; the stream is implemented over restarts, and what a new client gets is recent; an event leaves the queue unless it is behind one larger than the buffer |
| `file` | 3 operations in flight side by side, 2 visits, 1 message of the server, buffer of 2 | the stream is implemented; at most one file of a visit shows up in the next; Capture's own files are silent unless an exclusion may disallow them; the driver leaves nothing in its queue, and of a deleted file its first copy |
| `process` | 4 processes, two of them with one id, 1 other monitor that asks twice, 1 message of the server | every creation and termination is examined once, in order; a report names a program that had the id; calls that nest end |
| `process_lag` (violation) | the same without the other monitor, fair | an event that stays in the driver's queue is not notified |
| `transfer` | 3 uploads, 2 of one name, 3 connections, 2 faults | a file the server has closed and not opened again since is one whole upload, but for the parts it refused; an upload the client calls sent is stored, but for those |

**Bounds.** Two VMs give a queue with an item behind the one being served and a
checker that waits for one monitor while the other VM needs it. Three URLs are
the least number whose group splits twice, once unevenly. `MaxFailed` bounds the
URLs one report marks as failed. `ErrorBound` caps `errorCount`, which the code
compares with 1 only. `MaxQueue` bounds the queue of groups: a group that was left
whole may be split several times over, and the queue of three URLs that are each
in one group never exceeds three groups. All addresses are different, so that the refusal of a
duplicate is not exercised. `ClientThreads` follows one client from `connect` to
the revert of its VM, with at most `MaxExpiry` time-outs; two groups let it wait,
work and wait again. Three URLs on two workers are the least with which a worker
is used twice while another is at work; `pool` runs group after group, so that
events left over from one would show in the next.
In `CaptureVisit` `MaxEvents` bounds the events the drivers record, `MaxBreaks`
the breaks of the network and `MaxWire` the messages in flight, at which `send()`
waits; two visits with a plugin let a late callback and a late report meet the
next visit, and the third is dropped by `Visitor::run`.
In `RegistryEvents` the time-out of 2 makes the timer's period 3, which keeps
the code's ratio of one and a half; `Cap` is beyond every comparison. A buffer of
two units holds two events without data or one with a unit of them, and a third
size of event never fits. In `FileEvents` three operations are a deletion, a new file of the same
name and its deletion, with the rest of the cases as alternatives of the three.
In `ProcessEvents` the reused id needs the browser to end; `Lasting` keeps the
terminations that add nothing out. In `FileTransfer` two faults are a damaged
part and a file that cannot be opened, or two of one kind.

**Deadlock** is checked except where the system may stop: `QueueMonitor` ends
the server (`groups_two_clients`); the one client of `threads_*` comes to its
end, and the lock cycle is a deadlock of the code; and the bounded operations,
starts, processes or uploads of `registry`, `file`, `process*` and `transfer` are
used up, or undefined behaviour has ended the machine (`crashed`).

**Fairness.** `VmLifecycle`: the worker is a thread that is always runnable
(weak); the timer returns to every VM and gets a monitor that is free again and
again (strong); time passes (weak). `UrlGroups`: among infinitely many occasions to send, one succeeds; the
operation time-out ends what a client holds, because `vmStateTimeChange` is not
stamped during a visit. No fairness is assumed of the reports themselves, nor of
the connections: a VM may be stranded (`HowStranded`) and a revert may fail for
good, so that `EventuallySettled` has the premise that some client is connected
again and again.
`ClientThreads`: a thread that can go on does; nothing is assumed of reports,
pings and time-outs. `WorkerPool`: threads run, and every wait in `visitUrl` and
`visitGroup` has a time-out; no further group need arrive.
`CaptureVisit`: receiver, monitors and the server's reader run (weak). The
Visitor has strong fairness, because its `send()` waits while other threads fill
the connection; the server reads all the time and pings only every 10 s. Nothing
is assumed of the network, the drivers, the pinger and the reverts.
`RegistryEvents`: the clock goes on, the timer's routine and the monitor's thread
run (weak); nobody has to start, stop or die. `ProcessEvents` (for `process_lag`):
a callback that has set the event clears it, and every thread that can go on does
(weak); no further process need be created, which is what the finding turns on.

## 4. Proofs

`VmLifecycle_proofs` proves, for every set of VMs, the invariants and the
action property of `vm`: `TypeCorrect`, `QueueSound`, `RevertsAreExclusive`,
`Stranding`. The only assumption is `NoVMAssumption`. The
inductive invariant `IInv` is the conjunction of `TypeOK`, `OneItemPerVM`,
`WorkerOwnsHead`, `RevertIsExclusive` and `BusyWithVM`: that the worker's item
is the head is needed to see that `remove` keeps the other items; that items are
distinct is needed to see that it removes every copy; `BusyWithVM` types the
threads' VMs. Lemmas about the queue (`RemoveFirstHead`, `AppendKeepsQueue`,
`TailKeepsQueue`, `EnterStateQueue`) carry the argument.

`ClientThreads_proofs` proves, for any finite set of groups, any timers and
number of time-outs, whether writes fail or not (`ClientThreadsAssumption`), the
invariants of `threads_all`: `TypeCorrect`, `Thorough` and
`CycleNeedsRetriever`. What is left to a thread is a word of operations of no bounded length,
so the invariant cannot list the places a thread may be in. It uses *stages*
instead: how often the thread holds each monitor at a place of the word, and
which operations are ahead. `Leads` says that a word leads from a stage to the
end, each operation from one stage to the next as `Link` allows: what must hold
around it (`Balanced`) and what may follow (`Ordered`). Calls only put operations
in front, so three lemmas (`EmptyWord`, `InFront`, `Popped`) and one for each
called method carry the stages through every action. The inductive invariant
`IInv` says that there are stages such that the words lead from them (`Reached`)
and the monitors agree with them (`Owned`); that whatever a disconnected client
is still owed, the detaching from its VM and the closing of its socket, is ahead
of some thread (`Complete`); and that the group of a closed client is in error
already, or some thread has still to look for it or to mark it, or the retriever
that sends it has still to fail (`GivenUp`). The last case is the race the proof
turns on: a disconnect that comes before `setVisitingUrlGroup` finds no group, and
it is the retriever's own write to the closed socket that gives the group up. It
needs `InHand` (each thread that marks has its group, the retriever's is the one
visited) and `Reported` (no report is on its way while a group is being taken). An
exception ends a thread (`Thrown`) and with it the promise: `Thorough` speaks of
runs in which none has been thrown, as `ClosedClientGaveUp` does, because the
thread that was to mark the group may be the one that died.
`CycleNeedsRetriever` says, for all timers and writes, who can be in a lock
cycle: always the retriever, which holds its own monitor and asks for the VM's
because its write has failed (`OnlyRetriever`). That there is none at all when
no timer disconnects and no write fails (`NoLockCycle`) is shown by `threads_pair`
only; section 5 has the cycle.

`CaptureVisit_proofs` proves, for all monitors, numbers of visits, plugins,
options and bounds (the five assumptions of the module), the type invariant and
the safety properties of `visit`: `TypeCorrect`, `QueueSafe`, `NothingBehind`,
`ReportsRight`. The inductive invariant `VisitInv` has four parts. `TypeInv`
adds to the types that an exception is never the last outcome. `LocalInv` is
about the client alone: the event agrees with the queue, the Analyzer listens in
the phases of a visit only. `ExchangeInv` is about client and server: there is
one visit between them at a time (`OneVisit`); a Client without a group has
nothing on the way (`NothingForIdle`), one with a group has only this group on
the way (`AllAboutHeld`); the last report of a visit is the last thing about it
(`FinalIsLast`, which needs that an exception's report is followed by another
and that the server gives the machine up on it); and "connect" is said once, to
a server without a Client (`ConnectsOnce`), so that a reconnection never makes
a second Client. `FreshInv` says that a visit still to begin has had no callback;
it needs `OneVisit`, since otherwise a callback of the present visit could be
taken for one of the next. The induction goes by threads: lemmas about a message
that is no report, a report, a loss and a new connection are shared by the
actions.

The second part of the same module proves, for every positive number of workers
and URLs (`WorkersAssumption`, `MaxUrlsAssumption`), the invariants of `pool`:
`PoolTypeCorrect` and `GroupSound`. The core is `Account`: URLs counted, the
event just taken, events set, data not taken and workers that have not signalled
add up to at most the URLs handed out. Events merge and are sometimes ignored, so
that this is an inequality; it is enough, because the loop ends only when the
first term alone reaches the number of URLs, which makes all others zero.
`BusyExact` (the flag tells who has a URL), `HandedOut` (every URL handed out is
visited or with one worker) and `CodeSoFar` (the code after a prefix of the URLs)
complete the induction. The same inequality is why the group may never end:
nothing keeps it tight. `PoolCodes` is what the first part needs of the second:
the code `visitGroup` leaves is one of those `CaptureVisit` chooses from.

`RegistryEvents_proofs` proves, for every time-out, size of the buffer, choice
of operations and number of sessions (the five assumptions of the module), the
types and all safety properties of `registry`: `TypeCorrect`, `ExaminedRight`
and `StreamRecent`, which contains the refinement of `EventStream`. An event is
in one of four places: examined, in the buffer, in the hand of a request, or
queued. The inductive invariant `IInv` says where. `Local` ties the places to
the step of the thread: the hand is full exactly while an event is copied, and
no time passes in the driver. `Order` says that the places hold the events in
their order, whatever the checker takes away; the refinement follows, since the
head of the buffer is later than all examined. `Complete` says that without a
gap the checker is idle (`Quiet`: the silence is at most the time-out, which is
less than its period), so that only the thread moves events, and each place goes
on where the one before ends (`Whole`). `Fresh` is about time: if something is
queued, the silence and the time until the checker is due add up to at most two
periods, or the checker is at work already; a new client that meets an old event
has therefore made its first request within that time. `Hives` is about data:
the table's longer entries come first (`Table`), so that the first match is the
most specific (`HiveOf`). Lemmas about `Tail`, `Append` and putting an event back
in front (`TailOrder`, `AppendOrder`, `FrontOrder`, `Ranges`) are shared by the
actions.

`FileTransfer_proofs` proves, for any uploads with any names and sizes and any
number of connections and faults (`TransferBounds`), the invariants of
`transfer`: `TypeCorrect`, `ClosedFiles`, `SentFiles`. A message has a mark, its
upload and its place in it, and so has what the client sends next. `Wire`, the
core of `IInv`, says that the marks of a connection follow each other without a
gap until the client is cut off: an upload ends, or its request has timed out,
before another begins. While the receiver runs and has something to expect
(`Live`), `Table` says what each unfinished file holds: that of the upload under
way what has arrived of it, every other nothing. This is why a request for a
name that is open already does no harm, and why the file found by its name is
the right one though the name may come again. `Closed` and `Ended` keep what a
closed file holds and where an upload the client calls sent has got to;
`Fresh` and `FreshTable` say that a file in use, and one the server's table knows,
has not been opened again: two uploads of one group are a revert apart, and the
revert takes the table away. An opening thus empties nothing but files that have
been given up or closed (`EmptiedFiles`), and what is emptied stays overwritten
(`OverwrittenStays`);
`Refused` puts a damaged part behind the present mark, so that it is not mistaken
for one to come.

`ProcessEvents_proofs` proves, for any processes, ids, devices, lists and
threads (`ProcessBounds`, `PidsInUse`, `Volumes`), the properties of `process`:
`TypeCorrect`, `EveryEvent`, `ReportedPath`, `NestedCalls`.
`GoodStack` is about the frames of one thread, given the processes there have
been and the ids in the map; both only grow, so that a stack stays good when
another thread moves. It says that a frame below the top is an announcement,
that its id is in the map, and that no two of them have one id; a call is made
for an id the map has not, so the nesting ends. `Paths` says whose path an entry
of the map is. `Events` is about the driver's events: `InOrder` numbers those
examined, in hand and queued; `Apart` says that no two of them in a row are
equal, which makes the comparison with `tempP` harmless; it holds because the
creations and terminations of an id take turns (`Unique`, `Settled`). `Freed`
says where the monitor's thread is when the manager's pointer is stale.

`FileEvents_proofs` proves, for any operations, volumes, exclusions and sizes of
the buffer (`FileBounds`), all properties of `file`: `TypeCorrect`, `LateFiles`,
`OwnFilesSilent`, `LeftBehind` and the refinement of `EventStream`
(`StreamOrder`). `Counted` bounds the events by the operations that have begun,
`Order` says that the examined events, the buffer and the queue hold them in
order, `Drained` that the driver is empty before it is gone. `Periods` counts the
clearings of the set of modified files: the monitor's thread can carry one file
over a clearing, since it looks again before the next. `Copies` relates copies,
deletions and directories; `Listed` traces whatever disallows something to the
exclusion it comes from. Capture's own files are silent only as
long as no exclusion of the list or of the server may disallow them: one that
disallows beats what the constructor adds, and an attribute `excluded` that is
none of the known words may do so.

`UrlGroups_proofs` proves, for any URLs, priorities, plugins, connections, size
of groups and bound on the queue (`UrlGroupsAssumption`), all safety properties
of `groups` and `groups_two_clients`: `TypeCorrect`, `WorkUnique`,
`OutcomeRight`, `ExitLoses` and the refinement of `UrlLedger` (`LedgerKept`). The
inductive invariant `IInv` has six parts, five of them stated for a set `X` of
URLs, which is `unsplit`. `Ordered` is about the pool: groups have no URL in
common but for those of `X`, a group is in at most one of the two lists, has no
algorithm or that of its first URL's plugin, is retried at most once, and is
malicious only with a reason; its URLs are all in `X` or none is, and in the
second case it is not one that would be split whichever report comes next
(`Calm`). `Hands` says that a group is queued or with one client, and listed as
visited from the report of its start on; `Places` that a URL taken in is queued,
in some group, or has an outcome; `Seen` that what an Analyzer noticed is about
the group its client holds; `Rest` types what is left, and says which reports may
be due (`Awaits`). `Watched` is for `QueueMonitor`: after each of its last reads
it names a place whose URLs have all been missed.

A failure marks one group in error up to four times, through `setError`, `update`
and `divideAndConquer`, so the handlers are compositions of methods. The relations
`Rated`, `Failed`, `Done` and `Halved` say what a composition comes to; each
implies `Ends`: the group is replaced at the front of the queue by groups that
hold its URLs, or by nothing. That a second mark does nothing more holds for a
group that is `Calm` and not in `X`. A group in `X` is split by every mark once a
start has brought its algorithm (`Strewn`), so that its URLs are in many groups;
what is kept of them is that they are somewhere. A report that leaves a group
whole is taken for two steps, the growth of `X` (`Widened`) and a change of the
pool. The lemma `Judging` says what the last report leaves as the verdict of a
URL; its excuses are those of `VerdictIsRight`. For the ledger the pool is
projected to the places of its URLs, and the relations become steps of
`UrlLedger`.

Every invariant and every safety property of the passing runs is a theorem but
for `NoLockCycle`, which is model-checked only: it depends on a run in which
writes succeed. Only model-checked is liveness, too (`TroubleIsReverted`, `EventuallySettled`,
`WaitingIsServed`, `SmallGroupEnds`, `VisitIsAnswered`, `QueuedLeaves`,
`QueuedIsNotified`), which is out of the prover's reach.

## 5. Where the code and what is said of it differ

`process_lag` is under `findings` in `PROJECT.json`: after a request that leaves
events in the queue, `CaptureProcessMonitor.c:474` notifies nobody.

The others are consequences of the models, and no run is spent on them.

- *A revert may be lost.* The worker leaves the VM's monitor before it removes
  the item it has processed (`S/VBoxServer.java:227`); a revert asked for in
  between is dropped, and the VM keeps `WAITING_TO_BE_REVERTED`, which the
  comment at `S/Client.java:32-34` says leads to a revert. `HowStranded` says
  exactly when.
- *A bulk group of one URL.* Its state changes are not kept
  (`S/Client.java:207`), so that the malicious URL is called benign;
  `ReadMe-HPC.txt:66` describes bulk as assigning state changes to URLs.
- *A lock cycle.* The retriever holds the monitor of `urlRetriever` and asks for
  the VM's when its write fails (`S/Client.java:128`), `setClientState` takes them
  the other way round (`S/Client.java:429`), though the comment at 426 speaks of a
  deadlock that is prevented. There is no other (`OnlyRetriever`).
- *A report without its start.* `parseVisitEvent` takes a finish or an error for a
  group whose start it has not seen, as after a start lost with its connection. On
  a first visit `Url.java:182` then takes the time from a null `visitStartTime`:
  the receiver ends in the middle of the handler, and the group stays in hand until
  the client is given up. An error that is retried leaves a malicious group of
  several URLs whole, because `UrlGroupsController.java:138` asks for an algorithm
  the group has not got (`S/UrlGroup.java:27`). It is retried as it is, still
  marked malicious; the start of the retry brings the algorithm, and from then on
  each error mark of one disconnect splits it again, so that its URLs are queued
  two or three times. `WorkIsUnique`, `ImplementsLedger` and `OutcomeIsRight` say
  what still holds of the URLs of such a group and of all others.
- *The exit of `QueueMonitor`.* It comes after three reads without a lock
  (`S/UrlGroupsController.java:36`). A start that is reported between the first of
  them and the exit loses a group that is being visited, and a URL accepted or
  taken meanwhile is lost as well (`ExitLosesOnlyMissed`), though the message there
  says that there are no more URLs in the queues.
- *Upload of a retried group.* A retried group of several URLs keeps its
  identifier, its hash code (`S/UrlGroup.java:61`, 254), though the comment at
  `S/UrlGroupsController.java:184` says that a new one is generated. The upload of
  its next visit opens the file of the one before and empties it
  (`S/ClientFileReceiver.java:30-39`); when the connection breaks then, the closed
  file is gone and an unfinished one in its place. `ClosedIsWhole` is about the
  files that were not opened again.
- *More URLs than workers.* Completions are counted by events that merge
  (`Application_InternetExplorer.cpp:167`), so a group may never end though
  lines 144 and 165 say that it waits for all.
- *networkReset* is true from the start (`S/UrlGroupsController.java:166`), so
  that a group is retried whatever its error, while line 176 names three codes.
- *Repair of a zip file.* `S/Client.java:187` repairs what is open, and line 167
  has said before that nothing is.
- *Collecting without a directory.* `SetupMonitor` sets `bCollectDeletedFiles`
  before the name of the directory is filled, and a second setup frees the name
  while the flag is set, though the comment at `CaptureFileMonitor.c:1503-1504`
  says that whoever collects has a directory; every setup message falls through
  to `STATUS_INVALID_PARAMETER` (1512-1514).
- *An uninitialised pointer.* A file to be deleted whose normalised name could
  not be had is handed on with a pointer nobody has set.
- *An oversize `SetValueKey`* is put back at every request and blocks the
  registry monitor (`QueuedLeaves`).
- *Full buffers.* The monitors wait less after a full buffer, and test for one
  with an equality that no sum of variable sizes need meet
  (`RegistryMonitor.cpp:334`, `FileMonitor.cpp:430` against the comments in
  `RegistryMonitor.h:113-114` and `FileMonitor.h:152`).
- *Reused ids.* `ProcessManager.cpp:48` enters what it has just read from the map,
  so that an id keeps the path of the first process that had it, although the
  comment before (45-48) says that the entry is deleted when the same id is created
  again. A failed look may also enter `UNKNOWN` over a path another thread has
  found. `PathOfHolder` allows both: it says that a path is that of some process
  that has had the id.
- *The process monitor's pointer* in the manager outlives the monitor (`Delete`).
- *The comparison with `tempP`* in the process monitor never finds a repetition
  (`EveryEventOnce`), and packets still queued are not freed when the driver is
  unloaded.
- *Opened files* count as modified, and a directory deleted before its event is
  examined counts as a file.
- *Volume names* are compared by prefix, and `HarddiskVolume1` is one of
  `HarddiskVolume10`. The model's volumes are no prefixes of each other.
- *Between visits* the directory `logs` does not exist, so that deletions are not
  backed up even when they are collected.
- *Retriever.* One whose own send fails is not woken by its own notification
  (`S/Client.java:519`); its thread does not end.
- *Two errors at once* raise `errorCount` twice (`S/UrlGroup.java:95`), and
  neither retries the group.
- *Late state changes.* What a monitor signals after `Analyzer::stop` goes to
  nobody, while `C/CaptureClient.cpp:369` says that anything malicious during the
  visitation period is passed back.
- *A file on a connection without a Client* ends the server's receiver with a
  `NullPointerException` (`S/ClientEventController.java:271`); the socket stays
  open and is not read any more.

## 6. Plan

1. Done: the modules of section 2, and the proofs of section 4.
2. `ServerReceive`'s framing, `ClientsPinger`'s sets, `StateChangeHandler`'s
   tree, the other plugins, the retrievers of two clients at the grain of
   `ClientThreads`, `Client` and `VirtualMachine` objects composed over a revert.

## 7. Not modelled

Logging, statistics, configuration and start-up, the preprocessor,
`halt_on_revert`, zip repair (its call is unreachable in a sequential
disconnect), mocks, the byte formats of XML and base64, the installation of the
drivers' services. What the plan lists under 2 is not modelled yet.

Assumptions of the modules, each also named where it is made: in `UrlGroups` the
`IOException` of `setSocket` is left out, and the plugin of a URL's program
(`Setups`) is the same on all clients and does not change. With a free choice at
every visit `NoDuplicateWork` would need a further exception: a group retried as
malicious by a plugin that does not divide, and started next by one that does,
would be split twice when it is given up. In `ClientThreads` the groups are finite in number. In
`WorkerPool` COM calls always return; in
`CaptureVisit` the framing of messages, the loading of plugins, the stand-alone
mode (`-r`) and the assertions of debug builds are left out; in the drivers'
modules pool allocations succeed; in `RegistryEvents` a driver routine ends before
the clock ticks; in `ProcessEvents` one callback at a time is between setting and
clearing the event, the second look for a parent hits if the first has, the path
the driver reports is ignored, as the client does, and the client's start is over;
the ids 0 and 4 are not given to processes that are created, for these are the
Idle process and System (`PidsInUse`), and a device's name is not a drive letter,
so that a path that was translated is not translated again (`Volumes`); in
`FileTransfer` the uploads all come from one machine, so that no other client
opens a group's file at the same time, and the handlers of `file-ok`, `file-error` and `file-reject`, which
the server never sends, are left out.
