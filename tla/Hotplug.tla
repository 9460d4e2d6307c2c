------------------------------ MODULE Hotplug ------------------------------
(***************************************************************************)
(* USB hotplug: hotplug_libudev.c and hotplug_libusb.c, of which a pcscd   *)
(* is built with one, on top of the readers of ReaderLifecycle.            *)
(*                                                                         *)
(* A place on the bus has a sysname; a device that is plugged in there     *)
(* gets a new address.  With libudev the notify thread handles the events  *)
(* of the kernel in their order, and SIGUSR1 makes the signal thread scan  *)
(* the bus too.  With libusb the notify thread scans the bus whenever it   *)
(* is woken up.  readerTracker remembers the readers that were added; its  *)
(* index gives the port of a reader.                                       *)
(***************************************************************************)
EXTENDS ReaderLifecycle, Sequences

CONSTANTS
  Places,          \* places on the bus a reader can be plugged in at
  Backends,        \* "libudev", "libusb"
  HasClassDriver,  \* the CCID class driver supports the readers as well
  MaxPlugs,        \* bound: devices plugged in during a behaviour
  MaxSignals       \* bound: SIGUSR1 sent to a pcscd that uses libudev

ASSUME HotplugAssumption ==
  /\ Hotplugs = {"notify", "signal"}
  /\ Libraries = {"driver", "class"}
  /\ Backends \subseteq {"libudev", "libusb"}
  /\ HasClassDriver \in BOOLEAN
  /\ "none" \notin Places
  /\ MaxPlugs \in Nat /\ MaxSignals \in Nat

VARIABLES
  backend,
  plugged,        \* address of the device at each place, 0 when there is none
  address,        \* last address given to a device
  events,         \* the events udev has for the notify thread
  readerTracker,  \* the devices that have been added, by index
  scan,           \* the scan of the bus each hotplug thread is doing
  refused,        \* devices the drivers did not want
  signals,        \* number of SIGUSR1 received
  raced           \* history: two threads have got in each other's way

hotplugVars == <<backend, plugged, address, events, readerTracker, scan,
                 refused, signals>>
vars == <<lifecycleVars, hotplugVars, raced>>

NoDevice == [place |-> "none", address |-> 0]

\* A scan: the devices that were found, and those not yet looked at.
NoScan == [active |-> FALSE, todo |-> {}, found |-> {}]

PCSCLITE_HP_BASE_PORT == 2097152   \* 0x200000

Port(index) == PCSCLITE_HP_BASE_PORT + index

Device(place) == [place |-> place, address |-> plugged[place]]

\* The two libraries tell devices apart by the sysname or by the address.
SameDevice(entry, d) ==
  IF backend = "libudev" THEN entry.place = d.place
                         ELSE entry.address = d.address

Indices == DOMAIN readerTracker

Tracked(d) == \E k \in Indices : SameDevice(readerTracker[k], d)

-----------------------------------------------------------------------------
\* HPAddDevice() and HPAddHotPluggable()

\* The first free entry; the array grows when it is full.
FreeIndex ==
  Min({Len(readerTracker) + 1} \cup
      {k \in Indices : readerTracker[k] = NoDevice})

\* The check for duplicated add, or that the reader is a new one.
NewDevice(d) == ~Tracked(d)

\* The device is added under the port of its index.
StartAdd(t, d) ==
  LET k == FreeIndex
  IN /\ readerTracker' =
          IF k \in Indices THEN [readerTracker EXCEPT ![k] = d]
                           ELSE readerTracker \o <<d, NoDevice>>
     /\ SetJob(t, [NoJob EXCEPT !.port = Port(k), !.library = "driver",
                                !.device = <<d.address>>])
     /\ Goto(t, "add")

\* Adds device d if it is there and a new one.
HPAddDevice(t, d) ==
  /\ \/ /\ d.address # 0
        /\ NewDevice(d)
        /\ StartAdd(t, d)
     \/ /\ d.address = 0 \/ ~NewDevice(d)
        /\ UNCHANGED <<readerTracker, pc, job>>
  /\ UNCHANGED <<tableVars, sharedVars, evPc, backend, plugged, address,
                 refused, signals>>

\* The entry a thread has just added a reader for.
IndexOf(t) == job[t].port - PCSCLITE_HP_BASE_PORT

Failed(t) == job[t].rv \notin {"SUCCESS", "UNKNOWN_READER"}

\* RFAddReader() has returned; the class driver may take a reader that the
\* specific one could not start.
TryClassDriver(t) ==
  /\ pc[t] = "added"
  /\ Failed(t) /\ HasClassDriver /\ job[t].library # "class"
  /\ SetJob(t, [job[t] EXCEPT !.library = "class", !.rv = "SUCCESS",
                              !.entry = 0])
  /\ Goto(t, "add")
  /\ UNCHANGED <<tableVars, sharedVars, evPc, hotplugVars>>

\* Mutant: with libudev, a device that could not be added stays in the table.
KeepEntry(t) == UNCHANGED readerTracker

\* libudev forgets a device that could not be added, libusb keeps it so that
\* it is not tried again at each scan.
AfterAdd(t) ==
  readerTracker' =
    IF backend = "libudev" /\ job[t].rv # "SUCCESS"
    THEN [readerTracker EXCEPT ![IndexOf(t)] = NoDevice] ELSE readerTracker

AddDone(t) ==
  /\ pc[t] = "added"
  /\ ~(Failed(t) /\ HasClassDriver /\ job[t].library # "class")
  /\ AfterAdd(t)
  /\ refused' = IF job[t].rv = "SUCCESS" THEN refused
                                         ELSE refused \cup {job[t].device[1]}
  /\ Goto(t, "idle")
  /\ SetJob(t, NoJob)
  /\ UNCHANGED <<tableVars, sharedVars, evPc, backend, plugged, address,
                 events, scan, signals>>

-----------------------------------------------------------------------------
\* HPRemoveDevice() and HPRemoveHotPluggable()

StartRemove(t, k) ==
  /\ SetJob(t, [NoJob EXCEPT !.port = Port(k)])
  /\ Goto(t, "sweep")

\* RFRemoveReader() has returned; HPCleanupHotPluggable().
RemoveDone(t) ==
  /\ pc[t] = "removed"
  /\ readerTracker' = [readerTracker EXCEPT ![IndexOf(t)] = NoDevice]
  /\ Goto(t, "idle")
  /\ SetJob(t, NoJob)
  /\ UNCHANGED <<tableVars, sharedVars, evPc, backend, plugged, address,
                 events, scan, refused, signals>>

-----------------------------------------------------------------------------
\* The threads.

\* Thread t is handling an event or scanning the bus.
Busy(t) == pc[t] # "idle" \/ scan[t] # NoScan

\* Nothing stops the signal thread from scanning while the notify thread
\* handles an event.
MayStart(t) == ~Busy(t)

\* HPEstablishUSBNotifications() of libudev receives an event.
ReceiveAdd(t) ==
  /\ t = "notify"
  /\ backend = "libudev"
  /\ MayStart(t)
  /\ events # <<>> /\ Head(events).action = "add"
  /\ events' = Tail(events)
  /\ HPAddDevice(t, Device(Head(events).place))
  /\ UNCHANGED scan

ReceiveRemove(t) ==
  LET gone == {k \in Indices :
                 readerTracker[k].place = Head(events).place}
  IN /\ t = "notify"
     /\ backend = "libudev"
     /\ MayStart(t)
     /\ events # <<>> /\ Head(events).action = "remove"
     /\ events' = Tail(events)
     /\ \/ gone # {} /\ StartRemove(t, Min(gone))
        \/ gone = {} /\ UNCHANGED <<pc, job>>
     /\ UNCHANGED <<tableVars, sharedVars, evPc, backend, plugged,
                    address, readerTracker, scan, refused, signals>>

\* HPScanUSB() and HPRescanUsbBus() start with a list of the devices.
ScanDevices(t) ==
  LET found == {Device(p) : p \in {q \in Places : plugged[q] # 0}}
  IN /\ MayStart(t)
     /\ scan' = [scan EXCEPT ![t] =
                   [active |-> TRUE, todo |-> found, found |-> found]]
     /\ UNCHANGED <<lifecycleVars, backend, plugged, address, events,
                    readerTracker, refused>>

\* HPReCheckSerialReaders() of libudev
HPReCheckSerialReaders(t) ==
  /\ t = "signal"
  /\ backend = "libudev"
  /\ signals < MaxSignals
  /\ signals' = signals + 1
  /\ ScanDevices(t)

\* HPEstablishUSBNotifications() of libusb: every now and then, and when the
\* signal thread wakes it up.
HPRescanUsbBus(t) ==
  /\ t = "notify"
  /\ backend = "libusb"
  /\ ScanDevices(t)
  /\ UNCHANGED signals

\* libudev looks at the place again, libusb has kept the device.
ScanNext(t) ==
  \E d \in scan[t].todo :
    /\ pc[t] = "idle"
    /\ scan' = [scan EXCEPT ![t].todo = @ \ {d}]
    /\ HPAddDevice(t, IF backend = "libudev" THEN Device(d.place) ELSE d)
    /\ UNCHANGED events

\* Mutant: the readers that are there are removed, the others kept.
PresentDevices(t) ==
  {k \in Indices : readerTracker[k] \in scan[t].found}

\* HPRescanUsbBus(): the readers that were not found in the list.
AbsentDevices(t) ==
  {k \in Indices : readerTracker[k] \notin scan[t].found \cup {NoDevice}}

ScanDone(t) ==
  LET absent == IF backend = "libusb" THEN AbsentDevices(t) ELSE {}
  IN /\ pc[t] = "idle"
     /\ scan[t].active
     /\ scan[t].todo = {}
     /\ \/ /\ absent # {}
           /\ StartRemove(t, Min(absent))
           /\ UNCHANGED scan
        \/ /\ absent = {}
           /\ scan' = [scan EXCEPT ![t] = NoScan]
           /\ UNCHANGED <<pc, job>>
     /\ UNCHANGED <<tableVars, sharedVars, evPc, backend, plugged,
                    address, events, readerTracker, refused, signals>>

\* The device of the reader thread t opens is there, or has gone.
DeviceIsThere(t) == \E p \in Places : <<plugged[p]>> = job[t].device

HotplugThread(t) ==
  \/ ReceiveAdd(t) \/ ReceiveRemove(t) \/ HPReCheckSerialReaders(t)
  \/ HPRescanUsbBus(t) \/ ScanNext(t)
  \/ ScanDone(t) \/ TryClassDriver(t) \/ AddDone(t) \/ RemoveDone(t)
  \/ /\ \/ AddReader(t) \/ FillEntry(t) \/ RFLoadReader(t)
        \/ StartReader(t, DeviceIsThere(t)) \/ AddSlot(t) \/ FillSlot(t)
        \/ SlotsDone(t) \/ SweepEntry(t) \/ SweepDone(t)
     /\ UNCHANGED hotplugVars

-----------------------------------------------------------------------------
\* The bus.

Tell(action, place) ==
  events' = IF backend = "libudev"
            THEN Append(events, [action |-> action, place |-> place])
            ELSE events

Plug(place) ==
  /\ plugged[place] = 0
  /\ address < MaxPlugs
  /\ address' = address + 1
  /\ plugged' = [plugged EXCEPT ![place] = address + 1]
  /\ Tell("add", place)
  /\ UNCHANGED <<lifecycleVars, backend, readerTracker, scan, refused, signals>>

Unplug(place) ==
  /\ plugged[place] # 0
  /\ plugged' = [plugged EXCEPT ![place] = 0]
  /\ Tell("remove", place)
  /\ UNCHANGED <<lifecycleVars, backend, address, readerTracker, scan,
                 refused, signals>>

-----------------------------------------------------------------------------
\* Two threads are where no mutex keeps one of them out:
\*   - both hotplug threads are at work;
\*   - a port is given to a device, or removed again, while a reader that has
\*     been removed from it is still being used;
\*   - a client has found a reader of which the last reference goes;
\*   - two threads have both left no reference to a reader;
\*   - a driver is given up while another is, or while a reader is added.
Colliding ==
  \/ \E t, u \in Hotplugs : t # u /\ Busy(t) /\ Busy(u)
  \/ \E t \in Hotplugs, i \in Used :
       /\ reader[i].port = job[t].port
       /\ \/ pc[t] = "add" /\ job[t].library = "driver"
          \/ pc[t] = "sweep" /\ i >= job[t].entry /\ reader[i].removed
  \/ \E c \in Clients : pc[c] = "found" /\ reader[job[c].entry].reference = 0
  \/ \E t, u \in Threads :
       /\ t # u /\ pc[t] = "reread" /\ pc[u] = "reread"
       /\ job[t].entry = job[u].entry /\ NoneLeft(job[t].entry)
  \/ \E t, u \in Threads :
       t # u /\ pc[t] = "release" /\ pc[u] \in {"release", "fill", "fillSlot"}

\* The same for an event that needs no work.
Received == events # <<>> /\ events' = Tail(events)

NoteRaces == raced' = (raced \/ Colliding' \/ (Received /\ Busy("signal")))

Init ==
  /\ LifecycleInit
  /\ backend \in Backends
  /\ plugged = [p \in Places |-> 0]
  /\ address = 0
  /\ events = <<>>
  /\ readerTracker = <<NoDevice, NoDevice>>
  /\ scan = [t \in Hotplugs |-> NoScan]
  /\ refused = {}
  /\ signals = 0
  /\ raced = FALSE

Next ==
  /\ \/ \E t \in Hotplugs : HotplugThread(t)
     \/ \E p \in Places : Plug(p) \/ Unplug(p)
     \/ /\ \/ \E c \in Clients : Client(c)
           \/ \E t \in Threads : RemoveReader(t)
           \/ \E i \in Entries : EventThread(i)
        /\ UNCHANGED hotplugVars
  /\ NoteRaces

Spec == Init /\ [][Next]_vars

\* Every thread goes on.
Fairness ==
  /\ \A t \in Hotplugs : WF_vars(HotplugThread(t) /\ NoteRaces)
  /\ \A c \in Clients : WF_vars(Client(c) /\ pc[c] # "idle"
                                /\ UNCHANGED hotplugVars /\ NoteRaces)
  /\ \A t \in Threads :
       WF_vars(RemoveReader(t) /\ UNCHANGED hotplugVars /\ NoteRaces)
  /\ \A i \in Entries :
       WF_vars(EventThread(i) /\ UNCHANGED hotplugVars /\ NoteRaces)

LiveSpec == Spec /\ Fairness

-----------------------------------------------------------------------------
\* Properties

\* The server threads that hold a reference to entry i.
Holders(i) ==
  {c \in Clients : pc[c] = "holding" /\ job[c].entry = i}

\* No command runs on an entry whose driver has been unloaded or that has been
\* given to another reader.
UsedReadersStay ==
  \A i \in Entries :
    Holders(i) # {} => /\ i \in Used
                       /\ reader[i].reference >= Cardinality(Holders(i))

\* A reader that is unplugged while clients use it stays until the last of them
\* has done, unless threads have got in each other's way.
NoUseAfterRemove == raced \/ UsedReadersStay

Users(i) == {k \in Used : reader[k].feeds = reader[i].feeds}
Sharers(i) == {k \in Used : reader[k].mutex = reader[i].mutex}

\* The clones and the slots of a reader can go in any order and by any thread:
\* the driver is loaded, and the mutex that serialises it allocated, for as
\* long as one of them is left.
NothingFreedInUse ==
  \/ raced
  \/ \A i \in Used :
       /\ loaded[reader[i].library] > 0
       /\ pFeeds[reader[i].feeds] >= Cardinality(Users(i))
       /\ pMutex[reader[i].mutex] >= Cardinality(Sharers(i))

\* Nobody uses, adds or removes a reader, and there is none.
NoReaders == Used = {} /\ \A t \in Threads : pc[t] = "idle"

\* RFUnloadReader() makes sure that no one else is using a library, so that
\* all are unloaded once the last reader has gone.
DriversAreUnloaded == NoReaders => \A l \in Libraries : loaded[l] = 0

\* The counters are freed when the last slot is closed.
CountersAreFreed ==
  NoReaders => \A o \in Objects : pFeeds[o] = 0 /\ pMutex[o] = 0

\* When the last reader has gone, whatever failed while it was being added,
\* its driver has been unloaded; and its counters have been freed, if RFAddReader()
\* can always load the driver.
NothingLeftBehind ==
  \/ raced
  \/ /\ DriversAreUnloaded
     /\ "load" \notin driver.fails => CountersAreFreed

\* RFAddReader() finds an empty entry to put the reader structure: nobody else
\* has it when the reader is put there.
EntryIsEmpty ==
  \A t \in Hotplugs : pc[t] \in {"fill", "fillSlot"} =>
    /\ ~reader[job[t].entry].vHandle
    /\ \A u \in Threads \ {t} :
         pc[u] \in {"fill", "fillSlot", "load", "open", "release"} =>
           job[u].entry # job[t].entry

\* The readers of a driver have different channels: the Lun, 0xDDDDCCCC, that
\* RFSetReaderName() and the loop over the slots give a reader names it alone.
ChannelsAreDistinct ==
  \/ raced
  \/ \A i, k \in Used :
       /\ i # k
       /\ reader[i].library = reader[k].library
       /\ reader[i].slot # -1
       => reader[i].slot # reader[k].slot

\* The event thread of a reader is stopped before the reader goes: none
\* watches an entry that is free or that belongs to another reader.
ThreadsHaveReaders ==
  \A i \in Entries : evPc[i] # "none" => i \in Used /\ reader[i].thread

\* So it is as long as no two threads have got in each other's way.
NoThreadWithoutReader == raced \/ ThreadsHaveReaders

\* Nobody is adding or removing readers, and no event is waiting.
Quiet ==
  /\ events = <<>>
  /\ \A t \in Hotplugs : pc[t] = "idle" /\ scan[t] = NoScan
  /\ \A c \in Clients : pc[c] = "idle"

\* However plugging, unplugging and the scans follow each other: once libudev
\* is quiet its table holds exactly the devices that are plugged in, except
\* those the drivers have refused, and each of them has its reader.
ReadersFollowDevices ==
  ~raced /\ Quiet /\ backend = "libudev" =>
    /\ \A p \in Places :
         \/ plugged[p] \in refused \cup {0}
         \/ Tracked(Device(p))
    /\ \A k \in Indices :
         readerTracker[k] # NoDevice =>
           /\ plugged[readerTracker[k].place] # 0
           /\ \E i \in Used : reader[i].port = Port(k)
    /\ \A i \in Used : \E k \in Indices :
         reader[i].port = Port(k) /\ readerTracker[k] # NoDevice

\* At the end of a scan libusb knows exactly the devices it found, however many
\* came, went or were refused since the last one, and has a reader for each of
\* them that a driver accepted.
ScanMatchesBus ==
  [][\A t \in Hotplugs :
       ~raced /\ backend = "libusb" /\ scan[t].active /\ ~scan'[t].active =>
         /\ scan[t].found = {readerTracker[k] : k \in Indices} \ {NoDevice}
         /\ \A k \in Indices :
              \/ readerTracker[k].address \in refused \cup {0}
              \/ \E i \in Used : reader[i].port = Port(k)]_vars

\* A thread that removes a reader ends doing so: the event thread it waits for
\* obeys the order to die.
RemovalEnds ==
  \A t \in Threads : pc[t] = "join" ~> pc[t] # "join"

=============================================================================
