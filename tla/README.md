# A TLA+ model of pcsc-lite

This directory models the PC/SC daemon `pcscd` and its client library: how
clients share a smart card reader and learn of changes, how the library of an
application talks to the daemon, how readers come and go on the USB bus, how the
daemon starts and ends, and the list all of them keep their data in.
TLC checks the models on small instances, TLAPS proves most of the safety
properties for all instances. `PROJECT.json` lists the runs, the source lines of every
definition, the hazards, the findings and the theorems.

## 1. The system

`pcscd` serves applications over local sockets. It starts one thread per
connected client (`ContextThread()` in `winscard_svc.c`), one event thread per
reader (`EHStatusHandlerThread()` in `eventhandler.c`) and one thread that watches
the USB bus (`hotplug_*.c`). An application links `winscard_clnt.c`, which turns
each call of the PC/SC API into a message and its answer.

| Component | State | Operations | Interacts with | What makes it correct |
|---|---|---|---|---|
| server PC/SC functions (`winscard.c`) | `READER_CONTEXT`: `contexts`, `readerState`, `cardProtocol`, `powerState`; `LockMutex` | `SCardConnect()`, `SCardReconnect()`, `SCardDisconnect()`, `SCardBeginTransaction()`, `SCardEndTransaction()`, `SCardTransmit()`, `SCardControl()`, `SCardGetAttrib()`, `SCardSetAttrib()` | called by server threads; calls `readerfactory.c`, the driver, `prothandler.c` | exclusive access, transactions, a connected card is powered and is the one the client thinks it is |
| sharing, handles and events (`readerfactory.c`) | `hLockId`, `LockCount`, `handlesList`, `dwEventStatus` | `RFLockSharing()`, `RFUnlockSharing()`, `RFUnlockAllSharing()`, `RFAddReaderHandle()`, `RFRemoveReaderHandle()`, `RFSetReaderEventState()` | called by the server threads under `LockMutex` and by the event thread without it | the lock has one owner that can release it, the count fits the owner, handles are unique |
| card event thread (`eventhandler.c`) | local `dwCurrentState` and `readerSharing` | poll, removal, insertion, auto power off | driver, `READER_CONTEXT`, list of waiting clients | cards are noticed, handles are told, unused cards are powered off and used ones are not |
| server threads and cleanup (`winscard_svc.c`) | `cardsList`, `hContext` per client | dispatch, `MSGAddHandle()`, `MSGRemoveHandle()`, `MSGRemoveContext()` | client over its socket; the functions above | a client uses its own handles only; nothing of a dead client stays |
| event notification (`eventhandler.c`, `winscard_svc.c`, `winscard_clnt.c`) | `ClientsWaitingForEvent`, the sockets | register, stop, signal, cancel | event threads, hotplug thread, server threads, clients | no event is lost, no message is taken for another, calls return |
| reader life cycle (`readerfactory.c`, `eventhandler.c`) | `sReadersContexts[]`, `reference`, `pFeeds` and `pMutex`, names, ports and slots | `RFAddReader()`, `RFRemoveReader()`, `_RefReader()`, `_UnrefReader()`, `EHSpawnEventHandler()`, `EHDestroyEventHandler()` | all of the above | a reader, its driver and its mutexes live as long as somebody uses them and no longer; threads end |
| USB hotplug (`hotplug_libudev.c`, `hotplug_libusb.c`) | `readerTracker` | add, remove, scan of the bus, roll call | udev or libusb, reader life cycle, signal thread | the readers of `pcscd` are the devices on the bus |
| protocol negotiation (`prothandler.c`, `atrhandler.c`) | none | `ATRDecodeAtr()`, `PHSetProtocol()` | called by connect and reconnect | the result is a protocol both sides know |
| client library (`winscard_clnt.c`) | contexts and channels of a process, `clientMutex`, one `mMutex` per context, `readerStates` | the API | server threads | no deadlock in the process, answers belong to their calls |
| messages (`winscard_msg.c`) | socket | send, receive, receive with time-out | both sides | bytes in order |
| daemon (`pcscdaemon.c`, `winscard_msg_srv.c`) | `MustExit`, `Init`, the signal pipe, the alarm for AutoExit, `contextsList`, the socket and pid files | start, main loop, `signal_thread()`, `CreateContextThread()`, exit | clients, the other processes that run `pcscd`, server threads, hotplug | one daemon at a time, clients find it, it ends when and only when it should |
| list library (`simclist.c`) | `list_t`: entries, sentinels, `mid`, spare entries, iteration | insert, delete, extract, search, iterate, clear | every list above | it is a sequence |
| not part of the logic | | configuration parsers, `auth.c`, `dyn_*.c`, `sys_unix.c`, logging, spy, `libfake.c`, `libredirect.c`, `testpcsc.c`, macOS hotplug | | |

**What is hard here.** The fields of `READER_CONTEXT` are `_Atomic` or guarded by
mutexes that are held for a few lines; `winscard.c` tests one, does something
slow (power up a card, negotiate) and relies on it afterwards. The event thread
clears the lock of a removed card without any of the mutexes the clients take.
A client may die between any two steps. And the notification of an event is
written into the socket in which an answer without a header may be on its way.
Drivers and their mutexes are shared by the readers that use them and counted by
hand, through every way in which adding a reader can fail. The daemon may be
killed and started again while the threads of an application are in the middle
of calls, and what it leaves in the file system is all the next one knows of it.
Section `hazards` of `PROJECT.json` lists these places, line by line.

## 2. The modules

| Module | Contents |
|---|---|
| `Winscard` | one reader: server PC/SC functions, sharing, handles, events, the event thread, the cleanup of clients |
| `WinscardProperties` | its type invariant and its properties |
| `MCWinscard` | the instance for TLC (symmetry of clients and of handles) |
| `WinscardProofs` | theorems about `Winscard`: its types and its handles |
| `SharingProofs` | theorems about `Winscard` that build on them: the count of connections, the owner of the lock, handles that outlive their client, nested transactions |
| `EventNotification` | `SCardGetStatusChange()`, `SCardCancel()`, `SCardListReaders()`, the server side of them and the list of waiting clients, with properties |
| `MCEventNotification` | the instance for TLC (what clients ask for) |
| `EventNotificationProofs` | theorems about `EventNotification` |
| `ClientLibrary` | the library in one application: its locks, lists and sockets, every other function of the API, and the daemon behind the sockets, which may die; with properties |
| `MCClientLibrary` | the instance for TLC (symmetry of threads, contexts, handles and addresses) |
| `ClientLibraryProofs` | theorems about `ClientLibrary` |
| `ReaderLifecycle` | the table of readers, the references to them, the drivers they share, their event threads |
| `Hotplug` | extends `ReaderLifecycle` with the bus, the two back ends and the threads that add and remove readers; properties of both |
| `MCHotplug` | the instance for TLC (drivers, symmetry of places) |
| `HotplugProofs` | theorems about `ReaderLifecycle` and `Hotplug`: the readers, and what they share |
| `DeviceProofs` | extends `HotplugProofs` with theorems about the tracker, the bus and the readers |
| `Daemon` | the `pcscd` processes, their files, their signals and their clients, with properties |
| `MCDaemon` | the instance for TLC (processes beside each other, or the clients of one) |
| `DaemonProofs` | theorems about `Daemon` |
| `SimcList` | `list_t` with its pointers, with properties |
| `ListSpec` | what a list promises: a sequence and an iteration over it |
| `SimcListProofs` | theorems about `SimcList`, among them that it implements `ListSpec` |

`Hotplug` is the composition of the bus, the hotplug threads, the readers and the
server threads. `Winscard` looks at one reader while it exists, and
`EventNotification` and `ClientLibrary` look at the two ends of a socket: what they
have in common is what `Winscard` calls a command and what `ClientLibrary` calls a
request.

### Winscard

*State.* The variables of the first group are the fields of `READER_CONTEXT` with
their names in the source. `icc`, `inserted` and `iccPowered` are the slot as the
driver sees it: which card is in it and whether it is powered. `pc[t]` and
`call[t]` are the step and the arguments and local variables of the server thread
of client `t`, `cardsList` and `hContext` its `SCONTEXT`, `connectMutex` the owner of
the `LockMutex` of `winscard.c`, `powerLock` that of `powerState_lock` while
`SCardConnect()` holds it across a power up. `evPc` and `dwCurrentState` belong
to the event thread. `shareMode`, `depth` and `cardOf` are history: what the
successful calls have promised to each handle. Nothing in the model reads them
except properties.

*Steps.* A function is cut at every point where another thread can change what
it has just tested; between two cuts it only uses what nobody else writes or
what a mutex protects. So `SCardConnect()` is `SCardConnect`, `ConnectUnlocked`,
`ConnectPresent`, `ConnectPower`, `ConnectPowered`, `ConnectProtocol`, `ConnectLock`,
`ConnectExclusive`, `ConnectLockSharing`, `ConnectAdd` and, in the server thread,
`MSGAddHandle`, with `ConnectUndo` and `ConnectUndone` for the error paths;
`RFUnlockSharing()` has its test and its update as two steps, since
`RFSetReaderEventState()` writes `LockCount` without the mutex. `SCardReconnect()`
asks whether the card is there in a step of its own (`ReconnectPresent`), and the
event thread powers a card it finds at its start, notes the power state and then
publishes the reader state in three (`EHStartPower`, `EHStartPowerState`,
`EHStartState`). Error returns that change nothing are not written: they are the
thread's next command. The bound `MaxLockCount` stops a `SCardBeginTransaction()`
that would get the lock, never one that is refused.
`Request(t)` is what a client may ask for, `Serve(t)` a step of its server thread,
`EventThread` a step of the event thread, and `User` inserts or removes a card.

*Data.* Handles, clients and cards are values without structure, a handle is drawn
from `Handles` minus those the code excludes; `SCARD_*` flags are a set of names; an
ATR is the set of protocols it offers and the default one. `PHSetProtocol` is what
the negotiation may end with, from what `IFDSetPTS()` may answer
(`IFDSetPTSResults`, the fault `"pts"`): T=1 is tried first, then the default
protocol, or an error. `Faults` says which calls of the driver or the allocator may
fail; `"swap"` lets a card be exchanged between two polls.

### EventNotification

*State.* `toClient[c]` is the socket from the server to client `c` as a sequence of
32-bit words, because that is where answers and notifications get mixed up: a
notification is two words, the answer with the number of readers one, an entry
of the reader states four (name; `eventCounter`, `readerState` and `readerSharing`;
length of the ATR; protocol). The client's steps take as many words as the
`MessageReceive()` they stand for, whatever they are. `waiting[c]` says how often
the client is in `ClientsWaitingForEvent`, `sending[c]` how far
`MSGSendReaderStates()` has come, `cancel[c]` what the thread that serves
`SCARD_CANCEL` is doing, `session[c]` whether the process behind the descriptor
lives. `known[c]` is the `dwCurrentState` the application passes on from the last
result.

*Steps.* Each answer the client reads, each command the server takes and each
write to a socket is one step. The words of one `MessageSend()` arrive together;
two threads that write to one socket are interleaved between their messages. An
entry of the reader states changes in one step and is signalled in a later one.

*Faults.* `MaxFaults` bounds the cancellations and deaths together; `MortalAt` names
the steps at which a client may die.

*Left out.* Protocol 4:5 and older, `RFWaitForReaderInit()`, `SCARD_STATE_IGNORE`,
the loss of the daemon, growth of the table of readers, and several contexts in
one client process (the last three are in `ClientLibrary`).

### ClientLibrary

*State.* `clientMutex`, `listLock` (`contextMapList_lock`), `readerStatesMutex` and
`mMutex[m]` name the thread that owns each mutex. `contextMapList` is the list of
`SCONTEXTMAP`s by address, `allocated` those that have not been freed, `hContext`
and `channelMapList` their fields. `requests[m]` and `replies[m]` are the two
directions of the socket of map `m`, as messages, and `session[m]` says whether the
daemon has closed it. `daemon` has the version of the daemon, the size of its table
of readers and the number of daemons started; `serverContext` and `serverHandles`
are what the server threads keep for each socket. `myContext` and `myHandles` are
what the application has been given.

*Steps.* A call finds its context (`Enter`, the lookups and seeks of the lists under
`clientMutex`), locks `mMutex`, sends its requests one by one and reads the answers,
tries `SCardBeginTransaction()` again on a sharing violation, and unlocks.
`SCardReleaseContext()` and `SCardCleanContext()` are in the steps in which they
take and give up the locks. A search that does not find the handle gives its locks
back (`SeekNotFound`); the application may keep using a handle it has disconnected.
The daemon answers (`Serve*`), ends the session of a client that names a handle it
does not know (`SessionEnds`), crashes and is started again with any version in
`Versions`. `sharing_shall_block` is the environment variable
`PCSCLITE_NO_BLOCKING`. A thread uses its own context, as the documentation of
`SCardEstablishContext()` asks, except with `SCardCancel()` and
`SCardIsValidContext()`; so two threads never wait for the `mMutex` of one context,
which an application that shares a context between threads would make them do.

*A history variable.* The table of readers grows whenever it likes, also between
the answer with its size and the answer with its entries. `raced` remembers that it
did; what the library then makes of the rest of the answer is not followed:
calls under way go on, new ones that talk to the daemon are not made.

*Left out.* The application's buffers, calls with wrong parameters, and
`SCardGetStatusChange()`, which is in `EventNotification`. The library would leave the
data in the socket if they were too long for the caller's buffer
(`winscard_clnt.c:2362-2368`, `2829-2834`), but the daemon knows the size of that buffer
and answers `SCARD_E_INSUFFICIENT_BUFFER` without data first (`winscard_svc.c:762-766`).

### ReaderLifecycle and Hotplug

*State.* `reader[i]` is entry `i` of `sReadersContexts[]`; `feeds` and `mutex` are its
pointers to the counters `pFeeds` and `pMutex`, which are modelled as heap objects
so that a counter that is freed too early, or never, shows. `evPc[i]` is the event
thread of the entry, `pc` and `job` the server and hotplug threads. The hotplug
module adds the bus (`plugged`, `address`), the `events` of libudev, the scan each
thread is doing and `readerTracker`, whose index gives the reader its port (it
starts at 1 in the model).

*Steps.* No mutex guards the table, the references or the counters, and the steps
are the points at which another thread can get in between. `RFAddReader()` looks for
an entry, a number and a parent (`add`) and fills the entry later (`fill`), loads
the driver, opens the channel and starts the thread, and does the same for every
further slot (`nextSlot`, `fillSlot`). `RFRemoveReader()` goes through the table,
waits for nobody before it gives up the reference of the table, and is cut where it
joins the event thread. A server thread finds a reader (`found`), counts itself
(`holding`), works without any lock, decrements the count and reads it again
(`reread`); whoever reads 0 runs `removeReader()`, in which the driver is given up
on the strength of `*pFeeds` (`close`) and the counters are decremented and freed in
a later step (`release`). When a driver cannot be loaded the counters of its reader
stay allocated, as in the code. The order to die is the value in `hLockId` as in the
code, and the event thread may overwrite it. A device the drivers refuse is tried
with the class driver. There are four kinds of drivers (thread safe or not, killable
or not, with one or more channels and slots), each of which may fail to load, to
open or to get a thread.

*A history variable.* No guard keeps the threads apart. `Colliding` lists the
states in which two of them are where a mutex should have kept one out (both
hotplug threads at work; a port given again while its last reader lingers; a reader
found whose last reference goes; two threads that both read 0; a driver given up
beside another, or while a reader is added), and `raced` remembers that there was
one. Most properties say what holds until then, section 5 what goes wrong afterwards.

*Left out.* The serial readers of `reader.conf`; the characters of the reader names
(a name is its device and its numbers).

### Daemon

*State.* `proc[d]` is a process: the step of its main thread and of `signal_thread()`,
the pipe between the signal handler and that thread, `MustExit`, `Init`, the
number of `lives` before a second signal kills, the alarm, `contextsList` and the pid it
has read. `socketFile` and `pidFile` are the process that made the file, or nobody;
a pid file may be empty. `recycled` has the pids the kernel has given to other
programs. `client` has each client's connection and what its server thread does on
the way out.

*Steps.* `main()` is cut between its calls: looking for the socket, reading the pid
(`ReadPid`), `kill(pid, 0)`, which any program with that pid answers and which
refuses for every errno but `ESRCH` (`CheckPid`), removing the two files
(`CleanSocket`, `CleanPid`), recording the pid, which may fail and is then only logged
(fault `"record"`), the socket, the hotplug thread, the loop. `CreateContextThread()`
puts a client into the list in one step and switches the alarm off in the next;
`MSGCleanupClient()` leaves the list in one and starts the alarm in the next.
`SVCServiceRunLoop()` tests `MustExit`, calls `select()` and, interrupted, pauses
and tests again, whether the signal thread has run or not. `at_exit()` removes the
socket, removes the pid file and ends, from either thread, and a process may be
killed at each step. The cleanup of the readers may wait for a driver that never
returns (fault `"driver"`). `pthread_join()` of a server thread that has detached
itself is taken to return.

*History variables.* `orderly`: no start has overlapped a start or an end, and every
pid has been recorded. `missed`: the main thread has called `select()` although it had
been told to end.

*Left out.* The pipe to the father process and the exit codes.

### SimcList and ListSpec

`SimcList` has the entries with their `next` and `prev` pointers at addresses, the
heap, the `mid` pointer and the spare entries; `list_findpos()` walks from the end,
the middle or the start that is nearest, as the code does. Functions are single
steps, since each list is used under a mutex. The data are compared by value: where
`pcscd` searches it has set a comparator or a seeker. `ListSpec` has a sequence and
an iteration. `ImplementsListSpec` instantiates it with the sequence found by
walking from the head sentinel and states that every step of the pointers is a step
of the sequence with the same result. `list_sort()`, `list_concat()`, the hashes and
the dumps, which nothing in `pcsc-lite` calls, are left out.

## 3. The runs

| Run | Instance | What it shows |
|---|---|---|
| `sharing` | two shared clients: connect, reconnect, transactions, disconnect, death; the card is removed once | `HandlesAreOwned`, `NoPhantomConnection`, `LockOwnerHasClient`, `OrphansAreRefused`: handles stay with their clients, `contexts` counts no connection that is gone, the lock has an owner that can release it, although the event thread clears it underneath, and a handle outlives its client in one way only |
| `sequential` | one client with two handles, exclusive connection and reconnection, three dispositions | `ExclusiveAccess`, `LockCountIsDepth`, `UsedCardStaysPowered`, `ConnectedCardIsPowered`: what holds when commands do not race |
| `faults` | one client, every command and mode, power off and ejection; failing driver, failing allocations, a full table of handles; a card that comes and goes | `TypeOK`, `NoOrphanHandle`, `NoPhantomConnection` on all error paths |
| `transactions` | two shared clients, nesting to depth three, the limit of handles of a client, fair | `LockCountIsDepth`, `CommandsAreAnswered`, `UnusedCardIsPoweredOff` |
| `notification` | a client waiting for a reader and for PnP events, two changes, a cancellation or a death and a successor on the same descriptor, fair | `TypeOK`, `QuietBetweenCalls`, `NoLostEvent`, `NoStaleWaiter`, `CallsReturn` |
| `client_library` | two threads, every function, failing allocations, a daemon that is restarted once with any of three versions | `StreamInSync` (each answer is read by its call), `ContextsAreDistinct`, `NoUseAfterFree` (no thread works on a freed context), `HandlesAgree` (the daemon knows the handles the library knows), `NobodyIsStuck` |
| `hotplug` | two places, two devices, both back ends, four kinds of drivers, one client, one rescan, up to the first collision of two threads | `NoUseAfterRemove`, `NothingFreedInUse`, `NothingLeftBehind`, `ChannelsAreDistinct`, `NoThreadWithoutReader`, `ReadersFollowDevices`, `ScanMatchesBus` |
| `daemon` | two processes at any time, stale, empty and recycled pids, failing start, kill; or one `pcscd` with AutoExit, three clients with room for two, a signal, drivers that block; fair | `OneDaemon`, `FilesLeadToDaemon` (in an orderly history one `pcscd` has the readers and the files lead to it), `IdleAlarm` (an idle `pcscd` has its exit alarm running), `InactiveDaemonQuits`, `ExitFollows` (it ends, unless it missed the signal or waits for a driver) |
| `simclist` | lists of up to four elements of two values, two spares, failing allocations | `list_repOk`, `NothingLost`, and the refinement `ImplementsListSpec` |
| `exclusive_race` | violation of `ExclusiveAccess` | a shared connection beside an exclusive one |
| `cancel_lost` | violation of `CancelEndsCall` | a cancellation taken for a part of the reader states |
| `removal_hangs` | violation of `RemovalEnds` | an order to die that is overwritten, and a hotplug thread that waits for ever |

**Bounds.** Two clients are enough for every race between commands, since a step
reads and writes the state of its own thread and of the reader only; the event
thread and the user are there in all runs. Two handles let a value be drawn again
after it was freed. One card, removed once, makes the event thread go through
removal and, starting from an empty slot, insertion. `MaxLockCount` of two or three
allows nesting in an exclusive connection and below. `maxReaderHandles` of one makes
the table full for the second client. In `EventNotification` clients have nothing in
common but the list, whose entries are independent: one client, two slots, and two
changes, so that a second change can hit the client at any point of its reaction to
the first. One cancellation or one death meets all of these points.

In `ClientLibrary` two threads with a context each are enough for every conflict
over a mutex, since a thread never holds more than the mutexes of the library and of
one context; the second thread is also the one that cancels and tests the context of
the first. A second address lets a context be freed and another one be made while a
third party looks for it. One restart happens between any two messages. In `Hotplug`
two devices share a driver and its counters, and four entries are more than
`INITIAL_MAX_READERS_CONTEXTS` (2 here), so that the table grows; the same place may
be used twice, for a device that returns with a new address. One client holds a
reference from before to after every step of a removal. `MaxCounters` is as many
counters as two readers of two slots can have. In `Daemon` the second process is the
one that finds the files of the first, at every step of its start and its end; of
three clients one is turned away while the others come and go. `Apart` of `MCDaemon`
keeps the two questions in separate parts of one state space: it cuts off states by
starting no second process beside clients of AutoExit and no client beside
processes, which are steps nothing has to take, so that the liveness properties are
not weakened by it. In `ClientLibrary` new calls end at the first growth of the
table under a reader; in `Hotplug` states after a collision are not explored
(`NotRaced`), since nothing is claimed of them. A list of four elements has
positions in all four ways of `list_findpos()`, for even and for odd lengths.

The passing runs are chosen so that the property in question is not already
refuted by one of the disagreements of section 5: this is why `sequential`
has one client, why `sharing` has shared connections only, and why clients of
`EventNotification` call `SCardListReaders()` first (`ListFirst`), leave the last slot
empty (`Plugged`) and do not die between `CMD_GET_READER_EVENTS` and its answer
(`MortalAt`). In `ClientLibrary`, `Hotplug` and `Daemon` no instance is chosen for
this purpose: the orders that break a property are in the runs, and the property
names them by a history variable (`raced`, `orderly`, `missed`).

**Deadlock** is checked in every run but three: some client can always send a command,
or some thread can move. In `hotplug` and `removal_hangs` the bus may stay quiet once
its bounds are used up, and in `daemon` all processes may have ended.

**Fairness.** `FairSpec` of `Winscard` is weak fairness of the event thread and of
every server thread: POSIX threads are scheduled, and the mutexes of the model are
held for finitely many steps of their owners. Clients and users need not do
anything. `FairSpec` of `EventNotification` adds the client's thread, which is
scheduled too, and so does the time-out: a client at `MessageReceiveTimeout()`
either gets a message or times out. `CommandsAreAnswered` assumes that requests
end and that the lock is free from some time on, since a thread that polls for
the lock waits for a client's good will. `LiveSpec` of `Hotplug` is weak fairness of
the hotplug threads, of the event threads and of server threads that hold a reference:
a command ends. `LiveSpec` of `Daemon` is weak fairness of the main thread, of
`signal_thread()`, of the exit of a process, of the thread that starts the alarm, and of
the alarm: the kernel delivers it. That the main thread wakes up in time, and that a
driver lets go of its event thread, is not assumed. Users, clients, kills and signals
are free.

## 4. The proofs

A theorem holds for any sets of clients, threads, handles, contexts, places and
processes and any limits; the only assumptions on the constants are those of the
modules (`ConstantsAssumption`, `ClientLibraryAssumption` and the like), which give
them their types, and the hypotheses named below. A hypothesis excludes a behaviour
for which section 5 shows the property to be false, except where said otherwise;
where only some orders of steps break a property, there is no hypothesis, and the
property speaks of the states before such an order has occurred.
Every inductive invariant was checked with TLC on the instances of the runs before
it was proved.

**`WinscardProofs`**, without a hypothesis:

* `HandleInvariance`: `Spec => []HandleInv`, the inductive invariant;
* `TypeCorrectness`: `Spec => []TypeOK`, with `LockCount >= -1`;
* `HandlesOwned`: `Spec => []HandlesAreOwned`.

`HandlesAreOwned` is not inductive: it does not say why the handle that
`RFAddReaderHandle()` adds is new, nor that a thread works on a handle of its own
client. `HandleInv` is the conjunction of `TypeOK`, `ThreadOK` (between
`RFCreateReaderHandle()` and `RFAddReaderHandle()` a thread owns `LockMutex` and
its handle is in no list; all other commands work on a handle of the own
client), `Ownership` (a handle a client has, or is about to get or give back, is
in `handlesList` and nobody else's) and `OneUnlocks` (one thread at a time is
between the test and the update of `RFUnlockSharing()`, which bounds `LockCount`
from below). One lemma per group of actions shows that it is preserved; `FrameStep`
deals once with the steps that change neither list.

**`SharingProofs`** adds to `HandleInv` what each property needs:

* `PhantomConnections`: `Spec => []NoPhantomConnection`, without a hypothesis.
  `CountInv` adds that the two sets are finite. A step of one thread changes
  each of them by at most that thread or its handle (`OneElement`, `UncountedStep`).
* `LockOwner`: `LockOwnerHasClient`, if no client asks for an exclusive connection
  (section 5, *A lock without an owner*); reconnecting exclusively is allowed.
  `LockInv` is stronger than the property: the owner is in the list of a client that
  is not past the unlocking in `SCardDisconnect()`.
* `OrphanHandles`: `Spec => OrphansAreRefused`, an action property, without a
  hypothesis: for any clients, modes and faults a handle stays in the list of the reader
  without a client only where `MSGRemoveContext()` ignores that `SCardDisconnect()` was
  refused (section 5, *Orphan handles*). `Leaves` says that `SCardConnect()` gives a
  handle back with `SCARD_LEAVE_CARD`, which no lock stops, and that a sharing violation
  is the only error of `SCardDisconnect()`.
* `NestedTransactions`: `LockCountIsDepth`, for any number of clients, if there are
  no exclusive connections, no client releases its context (*A dead client's count*,
  *Two connections, one lock count*, *Leaving exclusive mode*), the card is not
  removed and the driver does not fail to report it (`Peaceful`). The run
  `transactions` is such an instance. Removal, and an error after which an empty
  slot is taken for a removal, are excluded because the event thread then clears
  `hLockId` and `LockCount` in two steps without a mutex (*A negative count*).
  `DepthInv` has `LockInv`, the exact value of `contexts` (so that
  `RFUnlockSharing()` never takes the exclusive branch), that `LockCount` is one
  more than the depth while a thread is between test and update, and that a handle
  which does not hold the lock has nothing to give back, unless it is being
  disconnected.

**`ClientLibraryProofs`**, without a hypothesis; the daemon may crash and be
restarted any number of times, with any version, and allocations may fail:

* `ClientInvariance`: the inductive invariant, `[](raced \/ (Inv /\ Searched))`;
* `StreamsInSync` (`StreamInSync`, which names `raced` itself);
* `UseAfterFree` (`NoUseAfterFree`), `DistinctContexts` (`ContextsAreDistinct`),
  `HandlesInAgreement` (`HandlesAgree`) and `Deadlocks` (`NobodyIsStuck`), each
  until the table has grown under a client that was reading it (section 5, *A table
  that grows*): from then on answers are taken for others.

None of these can be proved alone. That an answer belongs to its call needs the
mutex of the context; that the mutex is the one of the context that was looked up
needs that contexts are distinct; and that a new context is distinct needs that the
answer with its value belongs to the call. `Inv` has them all: `Types`, `Mutexes` (who
holds which mutex at which step), `Working` (a thread that has found its context is
working on an allocated map of the list, or finds out), `Lists` and `HandlesOK`
(no value twice), `Fresh` (values the daemon may still give are new), `Agreement`
(handles on both sides, up to the request under way), `Wires` (what is in the two
directions of a socket, by the step of the thread that uses it) and `Tables` (sizes of
the table of readers); `Searched` says of a thread that searches the lists which maps it
has passed. `Deadlocks` follows since every thread that waits for a mutex
waits for one whose holder waits for a mutex of a later kind, or for the daemon.

**`HotplugProofs`**, without a hypothesis: the threads add, use and remove readers
in any order, and the theorems are about the states before two of them have got in
each other's way (`raced`):

* `HotplugInvariance`: the inductive invariant, `[](raced \/ Inv)`;
* `UseAfterRemove` (`NoUseAfterRemove`), `ThreadHasReader`
  (`NoThreadWithoutReader`), `FreedInUse` (`NothingFreedInUse`), `LeftBehind`
  (`NothingLeftBehind`) and `DistinctChannels` (`ChannelsAreDistinct`).

So the collisions listed in `Colliding` are the only ways in which these can fail: a
mutex that excluded those, and no more, would make the code correct in this respect.
The counts are what the theorems rest on, and `Inv` says what they count:
`reference` of an entry is one for the table, until the reader is removed, and one
for each command that uses it (`EntryOK`); a reader that is being closed has
reference 0 and one closer (`WorkOK`, `ClosersApart`); `pFeeds` and `pMutex` count
the readers that point to them, those included whose driver has been given up in
`close` and whose counters are still to be decremented in `release` (`Counted`,
`Counts`), and are exact unless a failure to load a driver has lost them (`Exact`).
`Calm` has the parts of `~Colliding`, by which each decrement can be matched with
its test. The number, the entry and the parent that `RFAddReader()` has found are
still free, or there, when it uses them (`SearchOK`); the `readerTracker` and the
job of the hotplug thread name different ports (`Ports`, `AddsPort`); the numbers of
readers of a driver differ (`Numbers`). That a free number and a free entry exist
when the code takes them is a pigeonhole argument over cardinalities.

**`DeviceProofs`**, in the same way, for any number of places, devices, readers, clients
and rescans:

* `DeviceInvariance`: the inductive invariant, `[](raced \/ DeviceInv)`;
* `ReadersFollow` (`ReadersFollowDevices`) and `ScanMatches` (`ScanMatchesBus`, an
  action property).

Both properties speak of moments at which nothing is under way, and say nothing of
the others. `DeviceInv` adds to `Inv` what is still to come at every moment. With
libudev, a device of the tracker that has gone is being removed or has its event
(`GoneIsTold`), a device that is there and was neither added nor refused has its
event (`NewIsTold`), and behind each event of a removal is one of the device that
has come back (`AddAfterRemove`): without the last, a device that was replaced while
it was being refused would be forgotten. With libusb an address names one device
among those of the bus, the scans and the tracker (`AddressesApart`), what a scan
has looked at is in the tracker (`ScanTracked`), and a scan removes nothing it has
found (`FoundIsKept`). Between the tracker and the table of readers, every reader
belongs to a device (`ReadersTracked`), every device has a reader, is refused or has
a thread at work on it (`TrackedHasReader`), and `PortOK` says how far that thread
has got: what it has swept, whether its port has a reader, whether it is in
`RFRemoveReader()` (`Sweeping`, `Dropping`) for the bus or on behalf of a failed
`RFAddReader()`. A removed reader nobody refers to is being closed
(`LastIsClosing`), so that none is left when all threads rest. The assumption
`"none" \notin Places` of `Hotplug` says that a sysname is not the value the model
has for a free index.

**`DaemonProofs`**, without a hypothesis:

* `BaseInvariance`: types, and that a context in the list of a process is that of a
  client it serves;
* `IdleAlarmRuns` (`IdleAlarm`), for any number of clients that are accepted, turned
  away and leave in any order. `Idle` adds to the property that the list is not
  empty while the alarm is being switched off;
* `StartInvariance`: the inductive invariant `StartInv` of the files;
* `FilesLead` (`FilesLeadToDaemon`) and `AloneOnReaders` (`OneDaemon`). Both say what
  holds in an orderly history (section 5, *A start beside a start*).

`FilesOK` says of an orderly history that at most one process is past the check and
that one which looks for another beside a serving `pcscd` has read the pid of that
one (`OnePast`, `Finds`), that the files of a process are there from the step that
makes them until it ends (`FilesThere`), and that no pid file is empty (`NoEmpty`).
So a process that has read a pid is refused, or the pid is one a dead process has
left, recycled or not.

**`EventNotificationProofs`**, under `Assumptions`: applications list the readers
before they wait (`ListFirst`), the last slot is never used (`Slots \notin Plugged`),
clients are not killed while they read the answer to `CMD_GET_READER_EVENTS`, and
deaths and cancellations do not meet (`Mortality`: no client dies, or there is one
fault). Each excludes one disagreement of section 5 (*The first call*, *A full
table*, *A lost descriptor*, *A reused descriptor*); the run `notification` is such an
instance. The numbers of clients, slots, changes and, if nobody dies, cancellations
are arbitrary.

* `EventInvariance`: the inductive invariant `IInv`;
* `EventTypes` (`TypeOK`), `Quietness` (`QuietBetweenCalls`) and `LostEvents`
  (`NoLostEvent`).

An invariant that lists the contents of the sockets would have to list every place
at which a notification can be inserted between the words of an answer. `IInv` has a
balance instead: the words in the socket, those of the answers still to be written
(`QueuedWords`, `EntryWords`) and two for each registration (on its way, in the
list, or taken by `SCARD_CANCEL`) are together what the client will read before its
call returns (`OpenOK`: `Owed(c) = Due(c)`, with at most one registration). It does
not matter for the balance which message comes first. What does matter is in
`WordsOK`: a size that is read is the size or the 0 of a notification, which
`maxContexts` then refuses, and the last word of what is due is one that the client
takes for `SCARD_S_SUCCESS` or `SCARD_E_CANCELLED`. `QueueOK` has the commands that
can be on their way at each step, `DeadOK` what the thread of a dead client still
finds, and `FreshOK` that a registered client has read what is, unless a signal is
still to come.

**`SimcListProofs`**, without a hypothesis, for any number of elements and of spare
entries and with allocations that fail:

* `ListInvariance`: the inductive invariant `Inv`;
* `RepresentationOK` (`list_repOk`) and `NoMemoryLost` (`NothingLost`);
* `ListIsASequence`: `Spec => ImplementsListSpec`, the refinement.

`list_repOk` is a statement about walks from the head and does not say which entries
they meet. `Inv` says that there is a sequence `es` of entries, from the head
sentinel to the tail sentinel, different from each other, along which `next` and
`prev` lead in both directions (`Chain`), and describes everything else by it: `mid`
is its middle (`MidOK`), the iteration is at one of its positions (`IterOK`), and
the allocated entries are those of `es` and the spare ones (`Memory`). What `Walk()`
and `ReleaseAll()` compute for every length is proved with the least length for
which it would be wrong (`Induction`), since the induction theorems of the library
cannot be used. Each function has a lemma that gives the `es` after it (`WithEntry`,
`WithoutEntries`), with the new `mid` on either side of the change; the data along
that `es` is the sequence `ListSpec` has after the same function, which is the step
of the refinement.

*Only model-checked:*

* all liveness properties (`UnusedCardIsPoweredOff`, `CommandsAreAnswered`,
  `CallsReturn`, `CancelEndsCall`, `RemovalEnds`, `InactiveDaemonQuits`,
  `ExitFollows`), which need fairness;
* in `Winscard` the power properties `UsedCardStaysPowered` and
  `ConnectedCardIsPowered`, and `ExclusiveAccess`, `NoOrphanHandle` and, with exclusive
  connections, `LockCountIsDepth` for one client, all of which section 5 refutes on all
  but narrow instances such as those of `sequential` and `faults`;
* in `EventNotification` `NoStaleWaiter`, for the same reason.

## 5. Where the code and its documentation disagree

Three disagreements are runs that end in a violation (`findings` of
`PROJECT.json`). TLC finds more. Those with a file name have a configuration beside
the runs (`tlc -config transaction_broken.cfg MCWinscard`); each of the others is
reproduced by giving the constants named here to the module and checking the property
named here.

In `Winscard` (unless said otherwise: shared connections, `LEAVE`, T=1, which is also
`DefaultProtocol`, no faults, a card from the start that is not removed):

* *An APDU in a transaction* (`transaction_broken.cfg`: `TransactionIsolation`).
  `SCardTransmit()` tests the lock and transmits later (`winscard.c:1521`); another
  client may begin its transaction in between, although `winscard_clnt.c:1140` says
  of transactions "make sure that another application will not change the current
  file".
* *A lock that cannot be ended* (`transaction_stuck.cfg`: `LockCanBeEnded`).
  `RFSetReaderEventState()` clears `hLockId` and then `LockCount` without `LockMutex`
  (`readerfactory.c:1341-1342`). A transaction begun between the two has the lock with
  count 0, and `RFUnlockSharing()` does not give it back (`readerfactory.c:1094`).
  `winscard_clnt.c:1234`: "Ends a previously begun transaction."
* *Another card.* A card is removed while `SCardConnect()` is about to add its handle
  (`winscard.c:489`); the handle is not told, and works with the next card, although
  `pcsclite.h.in:219` says "The smart card has been removed, so further communication
  is not possible." `MaxCards = 2`, `MaxRemovals = 1`: `RemovalIsReported`.
* *A lock without an owner.* When `RFAddReaderHandle()` fails for an exclusive
  connection (`winscard.c:493`) the lock stays with a handle nobody has. One client,
  `ConnectModes = {"EXCLUSIVE"}`, `Faults = {"memory"}`: `LockOwnerHasClient`.
* *A failed connection.* After the same failure, or at the limit of handles,
  `powerState` stays `IN_USE` and the card is not powered off. `FairSpec`,
  `Faults = {"memory"}`: `UnusedCardIsPoweredOff`.
* *A dead client's count.* `MSGRemoveContext()` "release[s] the lock" by setting
  `hLockId` to 0 and keeps `LockCount` (`winscard_svc.c:1025`). A client that begins
  a transaction before the handle is disconnected has a count that is too high,
  and its `SCardEndTransaction()` does not release the lock. Two clients, commands
  connect, begin, end, release context: `LockCountIsDepth`.
* *Orphan handles* (`orphan_handle.cfg`: `NoOrphanHandle`). The `SCardDisconnect()`
  in `MSGRemoveContext()` (`winscard_svc.c:1037`) fails with a sharing violation
  when another client has begun a transaction meanwhile, and the entry is deleted
  from `cardsList` all the same. `winscard_svc.c:981`: "Disconnect each of these
  just in case".
* *Two connections, one lock count.* Two clients, one of them exclusive, in the race
  of `exclusive_race`: `LockCountIsDepth`.
* *Leaving exclusive mode.* `SCardReconnect()` from exclusive to shared mode calls
  `RFUnlockSharing()` while `contexts` is still -1 (`winscard.c:783`), so the lock of
  the exclusive connection stays. One client, `ConnectModes = {"EXCLUSIVE"}`,
  `ReconnectModes = {"SHARED"}`: `LockCountIsDepth`.
* *A late grace period.* `SCardDisconnect()` finds `contexts` 0 and sets `powerState`
  to `GRACE_PERIOD` (`winscard.c:1016`), over the `IN_USE` of a client that is
  connecting; the event thread powers the used card off. Two clients, connect and
  disconnect: `UsedCardStaysPowered`.
* *A late insertion.* The event thread publishes the card before it sets
  `powerState` to `POWERED` (`eventhandler.c:400-401`), with the same effect. One
  client, `CardsAtStart = 0`: `UsedCardStaysPowered`.
* *A mute card.* When the power up in `SCardConnect()` fails, the old
  `SCARD_POWERED` flag decides (`winscard.c:338`). `Faults = {"power"}`,
  `Preferences = {{"RAW"}}`: `ConnectedCardIsPowered`.
* *A refused connection.* `powerState` is `IN_USE` before the protocol is
  negotiated (`winscard.c:347`); after `SCARD_E_PROTO_MISMATCH` the card is never
  powered off. `FairSpec`, `CardProtocols = {"T0", "T1"}`,
  `Preferences = {{"T0"}, {"T1"}}`: `UnusedCardIsPoweredOff`.
* *A card that is not there.* `SCardConnect()` writes `SCARD_PRESENT` after the event
  thread has recorded the removal (`winscard.c:324`), and nothing corrects it. One
  client, `MaxRemovals = 1`, `FairSpec`: that `readerState` eventually says `ABSENT`
  when the slot stays empty.
* *Waiting for oneself.* `SCardConnect()` polls for a lock held by another handle of
  its own client (`winscard.c:291`), in the thread that would have to receive
  `SCardEndTransaction()`. One client, two handles: that no thread waits for
  a lock of its own client.
* *A negative count.* `RFSetReaderEventState()` clears `LockCount` between the test
  and the decrement of `RFUnlockSharing()` (`readerfactory.c:1095`). One client,
  `MaxRemovals = 1`: `LockCount >= 0`.

In `EventNotification` (one client, two slots, a reader in the first, unless said
otherwise):

* *The first call.* `pcsclite_max_reader_context` is 0 in a new process. A
  notification that arrives before the answer with the size is read as a size of
  0, which is accepted (`winscard_clnt.c:3699-3711`), and the array of size 0 that
  is read next leaves the whole answer in the socket; `unregisterFromEvents()`
  says "The server side ensures, that no more messages will be sent to the
  client" (`winscard_clnt.c:3769-3772`). Later calls of the process are protected
  by the branch that "Should never happen" (`winscard_clnt.c:3708-3711`).
  `ListFirst = FALSE`, `MaxChanges = 1`: `QuietBetweenCalls`.
* *A full table.* When the notification hits the entries, the last two words of the
  last entry are read as the notification. They are the ATR length and the protocol;
  with a connected card in the last slot the protocol is taken for an error,
  the client sends its stop command, which is not answered any more, and waits.
  `Plugged = {1, 2}`, `MaxChanges = 4`: a deadlock.
* *A lost descriptor* (`stale_waiter.cfg`: `NoStaleWaiter`). `CMD_GET_READER_EVENTS`
  from a client that dies: the answer cannot be sent, and the thread ends at
  `winscard_svc.c:881-887` ("Clean up the dead client") without removing the client
  from the list, so that the next client on that descriptor gets its notification.
* *A reused descriptor.* `SCARD_CANCEL` uses the descriptor of the context it found
  after it has released `contextsList_lock` (`winscard_svc.c:680-697`); the client may
  have gone and a new one may have the descriptor. `MaxChanges = 0`,
  `MortalAt = {"wait"}`, `MaxFaults = 2`: `QuietBetweenCalls` and `NoStaleWaiter`.
* *A swallowed cancellation.* `getReaderEvents()` does not look at the `rv` of what
  it reads (`winscard_clnt.c:3654-3676`). `Requests <- ReaderAndPnP`,
  `MaxFaults = 1`, `FairSpec`: `CancelEndsCall`.

In `ClientLibrary`:

* *An unguarded list* (`handle_lists.cfg`: `ChannelListsAreGuarded`).
  `SCardGetContextAndChannelFromHandleTH()` searches the `channelMapList` of every
  context under `clientMutex` (`winscard_clnt.c:3612`), while a thread that connects
  changes the list of its own context under its `mMutex` only; `winscard_clnt.c:346`
  says of `clientMutex` "Ensure that some functions be accessed in thread-safe
  mode."
* *A table that shrinks* (`table_shrinks.cfg`: `TableNeverShrinks`). A daemon that
  has been restarted has a smaller table: the branch that "Should never happen"
  (`winscard_clnt.c:3708`) does.
* *A table that grows* (`table_grows.cfg`: `AllIsRead`). It may grow
  (`readerfactory.c:159`) between the answer with its size and the answer with its
  entries, and the client leaves the new entries in the socket, where the next call
  takes them for its answer.
* *Failed allocations.* When `SCardAddContext()` fails the socket stays open
  (`winscard_clnt.c:684`; with `MemoryFails = TRUE` all sockets can be lost this way).
  When `realloc()` of `readerStates` fails (`winscard_clnt.c:3702`) the array is gone
  and its size is kept; no property is stated about this.

In `Hotplug`:

* *A reader that is being found* (`reader_in_use.cfg`: `UsedReadersStay`).
  `_RefReader()` reads the count and increments it later
  (`readerfactory.c:103-106`); the last reference may go in between. `ChangeLog:475`
  records an earlier "problem when a reader is unplugged (and the reader is still in
  use)". A reader that is unplugged in the middle of a command also keeps its port,
  and the next one may get the same port and be found by it.
* *Two slots closed at once* (`slots_closed.cfg`: `DriversAreUnloaded`).
  `RFUnloadReader()` compares `*pFeeds` with 1 (`readerfactory.c:1041`, "Make sure
  no one else is using this library") and `removeReader()` decrements it later: two
  threads both see 2, and nobody unloads the driver.
* *An entry that is not empty* (`entry_reused.cfg`: `EntryIsEmpty`). `vHandle` is `NULL`
  (`readerfactory.c:1048`) long before `removeReader()` has done with the entry;
  `RFAddReader()` ("We must find an empty slot", line 281) fills it for a new reader,
  whose counters are then decremented.
* *Lost counters* (`load_leaks.cfg`: `CountersAreFreed`). When a driver cannot be
  loaded, `RFRemoveReader()` (`readerfactory.c:405`, "Exit gracefully") looks at
  entries with a `vHandle` only, and `pFeeds` and `pMutex` are never freed.
* *Two hotplug threads* (`scan_collides.cfg`: `ThreadsHaveReaders`). `SIGUSR1` makes
  the signal thread scan the bus beside the notify thread (`hotplug_libudev.c:800`),
  which may remove a reader the other one is still starting.

In `Daemon`:

* *A late alarm* (`auto_exit_busy.cfg`: `QuitsWhenInactive`). A client is put into
  the list before the alarm is switched off (`winscard_svc.c:249-274`), and the
  thread of the last client starts it after it has left the list
  (`winscard_svc.c:1198`): `pcscd` ends while it is used. `doc/pcscd.8.in:105-106`:
  "pcscd will quit after 60 seconds of inactivity".
* *A start beside a start* (`two_daemons.cfg`: `AnotherIsFound`). Looking for
  another `pcscd` (`pcscdaemon.c:468`) and creating the files are separate steps,
  and both serve. The same happens when a pid could not be recorded
  (`pcscdaemon.c:681-705`): the next `pcscd` does not find the first. Conversely a
  `pcscd` that is alone refuses to start when the pid in an old file belongs to
  another program by then (`pcscdaemon.c:485-493`).
* *A short pause* (`pause_too_short.cfg`: `PauseIsEnough`). The main thread tests
  `MustExit` before the signal thread has set it, although it has paused "so that
  the signal handler thread can do its job" (`pcscdaemon.c:154-156`), and waits for
  a client in `select()`, which has no time-out (`winscard_msg_srv.c:229`).

## 6. The plan

Done: the modules of section 2, the refinement of `ListSpec` and the theorems of
section 4. Left, in this order:

1. theorems: in `Winscard` the depth of the lock for one client with exclusive
   connections; in `Daemon` that a `pcscd` which misses no signal cannot sleep once it
   has been told to end;
2. `ReaderSharing`, the abstract specification of a reader: connect, disconnect,
   begin, end as single steps on a set of handles and a lock with a depth; `Winscard`
   on the instance of `transactions` as its refinement;
3. `AtrHandler` and `ProtHandler`: `ATRDecodeAtr()` and `PHSetProtocol()` as functions,
   compared with a definition taken from the layout of an ATR over all short byte
   strings of a small alphabet;
4. the serial readers of `reader.conf`, and `eventCounter` and `ReaderEvents` with
   their widths.

## 7. What is not modelled

The parsers of the configuration files, `auth.c`, the loader and system
wrappers, logging and error texts keep no state that another component reads, or
are called as plain functions. The macOS hotplug code has the role of
`hotplug_libudev.c` on another platform. The serial readers of `reader.conf`
(`RFStartSerialReaders()`, `RFReCheckReaderConf()`) are added and removed through the
functions of `ReaderLifecycle`. The ATR decoder is an algorithm on bytes; its result
is the set of protocols of a card in `Winscard`. The spy, `libfake.c`,
`libredirect.c` and the test programs forward or exercise the API. Of `simclist.c`
the functions nothing calls are left out. Drivers are outside the repository
and appear as what `ifdwrapper.c` may get back from them.
