---------------------------- MODULE DeviceProofs ----------------------------
(***************************************************************************)
(* Proofs that the readers follow the devices on the bus: readerTracker of *)
(* hotplug_libudev.c and hotplug_libusb.c, the events and the scans, and   *)
(* the readers that RFAddReader() and RFRemoveReader() make of them.       *)
(*                                                                         *)
(* The two properties speak of the moments at which nothing is under way.  *)
(* The invariant says what is still to come at all the other moments:      *)
(*   - with libudev, a device that differs from what the tracker has for   *)
(*     its place has an event that says so, and a device that has come     *)
(*     back has its second event behind the first (UdevOK);                *)
(*   - with libusb, an address names one device, and what a scan has       *)
(*     looked at is in the tracker (UsbOK);                                *)
(*   - a port has readers if and only if the tracker has a device for it,  *)
(*     but for the port a thread is working on, of which PortOK says how   *)
(*     far it has got;                                                     *)
(*   - a reader nobody refers to is being closed (LastIsClosing).          *)
(* It rests on the invariant of HotplugProofs, and like it holds as long   *)
(* as no two threads have got in each other's way.                         *)
(***************************************************************************)
EXTENDS HotplugProofs

USE DEF tableVars, sharedVars, lifecycleVars, hotplugVars

-----------------------------------------------------------------------------
\* The bus

\* The entries of the tracker that hold a device.
Present == {k \in Indices : readerTracker[k] # NoDevice}

\* Hotplug thread t is adding or removing the reader of index k.
Working(t, k) == pc[t] # "idle" /\ job[t].port = Port(k)

\* The reader of index k is being removed.
Removing(k) ==
  \E t \in Hotplugs : Working(t, k) /\ job[t].library = "none"

\* An event of this kind is waiting.
Pending(action, p) ==
  \E i \in 1..Len(events) : events[i].action = action /\ events[i].place = p

\* A thread works on a device of the tracker.
JobsTracked ==
  \A t \in Hotplugs : pc[t] # "idle" =>
    \E k \in Present :
      /\ job[t].port = Port(k)
      /\ job[t].library # "none" =>
           job[t].device = <<readerTracker[k].address>>

\* Devices have addresses, and a scan looks at what it has found.
AddressesOK ==
  /\ \A k \in Present : readerTracker[k].address # 0
  /\ \A t \in Hotplugs : /\ scan[t].todo \subseteq scan[t].found
                         /\ \A d \in scan[t].found : d.address # 0

\* The tracker has at most one device for a place.
PlacesApart ==
  \A k, m \in Present : readerTracker[k].place = readerTracker[m].place => k = m

\* A device that has come back has an event behind that of its removal.
AddAfterRemove ==
  \A i \in 1..Len(events) :
    events[i].action = "remove" /\ plugged[events[i].place] # 0 =>
      \E j \in 1..Len(events) : /\ i < j /\ events[j].action = "add"
                                /\ events[j].place = events[i].place

\* A device of the tracker is there, or is being removed or going to be.
GoneIsTold ==
  \A k \in Present :
    \/ Removing(k)
    \/ plugged[readerTracker[k].place] = readerTracker[k].address
    \/ Pending("remove", readerTracker[k].place)

\* A device that is there is in the tracker, or has been refused, or is going
\* to be added.
NewIsTold ==
  \A p \in Places :
    \/ plugged[p] \in refused \cup {0}
    \/ \E k \in Present : readerTracker[k].place = p /\ ~Removing(k)
    \/ Pending("add", p)

UdevOK ==
  backend = "libudev" => PlacesApart /\ AddAfterRemove /\ GoneIsTold /\ NewIsTold

\* The devices that are there, and those somebody knows of.
OnBus == {Device(p) : p \in {q \in Places : plugged[q] # 0}}

Scanned == UNION {scan[t].found : t \in Hotplugs}

Known == {readerTracker[k] : k \in Present} \cup Scanned \cup OnBus

\* An address is given once, and is the latest or an earlier one.
AddressesApart ==
  /\ \A d, e \in Known : d.address = e.address => d = e
  /\ \A d \in Known : d.address <= address

\* What a scan has looked at is in the tracker.
ScanTracked ==
  \A t \in Hotplugs : \A d \in scan[t].found :
    d \in scan[t].todo \/ \E k \in Present : readerTracker[k] = d

\* A scan removes no reader that it has found.
FoundIsKept ==
  \A t \in Hotplugs, k \in Present :
    Working(t, k) /\ job[t].library = "none" =>
      readerTracker[k] \notin scan[t].found

UsbOK ==
  backend = "libusb" => AddressesApart /\ ScanTracked /\ FoundIsKept

BusInv ==
  backend \in Backends /\ JobsTracked /\ AddressesOK /\ UdevOK /\ UsbOK

-----------------------------------------------------------------------------
\* The readers

\* Entry i has a reader that has not been removed.
Alive(i) == reader[i].vHandle /\ ~reader[i].removed

HasReader(port) == \E i \in Entries : Alive(i) /\ reader[i].port = port

\* A reader belongs to a device of the tracker.
ReadersTracked ==
  \A i \in Entries : Alive(i) => \E k \in Present : reader[i].port = Port(k)

\* A device of the tracker has a reader, unless a thread is working on it or
\* libusb remembers that it was refused.
TrackedHasReader ==
  \A k \in Present :
    \/ \E t \in Hotplugs : Working(t, k)
    \/ backend # "libudev" /\ readerTracker[k].address \in refused
    \/ HasReader(Port(k))

\* A reader without references is being closed.
LastIsClosing ==
  \A i \in Entries : reader[i].vHandle /\ reader[i].reference = 0 =>
    \E t \in Threads : Closing(t) /\ job[t].entry = i

\* Thread t is in RFRemoveReader(), and has given up a reader in it.
Dropping(t) == pc[t] \in {"reread", "stomp", "join", "close", "release"}

Sweeping(t) == pc[t] = "sweep" \/ Dropping(t)

\* How far thread t has got with its port.
PortOK(t) ==
  /\ Adding(t) => reader[job[t].first].port = job[t].port
  /\ pc[t] \in {"load", "open"} => reader[job[t].entry].port = job[t].port
  /\ pc[t] = "added" /\ job[t].rv = "SUCCESS" => HasReader(job[t].port)
  /\ \/ pc[t] \in {"add", "fill", "removed"}
     \/ pc[t] = "added" /\ job[t].rv # "SUCCESS"
     => ~HasReader(job[t].port)
  /\ Dropping(t) => ~Alive(job[t].entry)
  /\ Sweeping(t) =>
       \A i \in Entries : Alive(i) /\ i < job[t].entry =>
         reader[i].port # job[t].port
  /\ Sweeping(t) \/ pc[t] = "removed" =>
       (job[t].rv = "SUCCESS" <=> job[t].library = "none")
  /\ pc[t] = "removed" => job[t].rv = "SUCCESS"

ReadersInv ==
  /\ ReadersTracked /\ TrackedHasReader /\ LastIsClosing
  /\ \A t \in Hotplugs : PortOK(t)

\* The inductive invariant.
DeviceInv == Inv /\ BusInv /\ ReadersInv

-----------------------------------------------------------------------------
\* Lemmas about the tracker and the events

\* Ports and indices correspond.
LEMMA PortsDiffer ==
  ASSUME NEW k \in Nat, NEW m \in Nat
  PROVE  /\ Port(k) = Port(m) => k = m
         /\ Port(k) - PCSCLITE_HP_BASE_PORT = k
BY DEF Port, PCSCLITE_HP_BASE_PORT

\* What the tracker holds.
LEMMA PresentDevice ==
  ASSUME Inv
  PROVE  /\ Indices = 1 .. Len(readerTracker) /\ Len(readerTracker) \in Nat
         /\ Present \subseteq Nat /\ Present \subseteq Indices
         /\ \A k \in Present : readerTracker[k] \in FoundDevices
         /\ \A k \in Indices : k \in Present \/ readerTracker[k] = NoDevice
<1>1. readerTracker \in Seq(DeviceRecords)
  BY DEF Inv, HotplugTypes
<1>2. Indices = 1 .. Len(readerTracker) /\ Len(readerTracker) \in Nat
      /\ \A k \in Indices : readerTracker[k] \in DeviceRecords
  BY <1>1 DEF Indices
<1> QED BY <1>2 DEF Present, DeviceRecords

\* The other hotplug threads rest.
Alone(t) == \A u \in Hotplugs : u # t => pc[u] = "idle" /\ scan[u] = NoScan

\* So it is while one works.
LEMMA OthersRest ==
  ASSUME Inv, NEW t \in Hotplugs, Busy(t)
  PROVE  Alone(t)
BY DEF Inv, Calm, Apart, Busy, Alone

\* A thread that has started is alone.
LEMMA StartsAlone ==
  ASSUME Inv, Calm', ~(Received /\ Busy("signal")), NEW t \in Hotplugs,
         \/ ReceiveAdd(t) \/ ReceiveRemove(t)
         \/ HPReCheckSerialReaders(t) \/ HPRescanUsbBus(t)
  PROVE  Alone(t) /\ pc[t] = "idle" /\ scan[t] = NoScan
<1>0. pc[t] = "idle" /\ scan[t] = NoScan
  BY DEF ReceiveAdd, ReceiveRemove, HPReCheckSerialReaders, HPRescanUsbBus,
         ScanDevices, MayStart, Busy
<1>1. CASE ReceiveAdd(t) \/ ReceiveRemove(t)
  <2>1. Received /\ t = "notify"
    BY <1>1 DEF ReceiveAdd, ReceiveRemove, Received
  <2> QED BY <1>0, <2>1, HotplugAssumption DEF Busy, Alone
<1>2. CASE HPReCheckSerialReaders(t) \/ HPRescanUsbBus(t)
  <2>1. ScanDevices(t)
    BY <1>2 DEF HPReCheckSerialReaders, HPRescanUsbBus
  <2>2. PICK f : scan' = [scan EXCEPT ![t] = [active |-> TRUE, todo |-> f, found |-> f]]
    BY <2>1 DEF ScanDevices
  <2>3. scan \in [Hotplugs -> ScanRecords]
    BY DEF Inv, HotplugTypes
  <2>4. scan'[t].active /\ \A u \in Hotplugs : u # t => scan'[u] = scan[u]
    BY <2>2, <2>3
  <2>5. Busy(t)'
    BY <2>4 DEF Busy, NoScan
  <2>6. \A u \in Hotplugs : u # t => ~Busy(u)'
    BY <2>5 DEF Calm, Apart
  <2>7. pc' = pc
    BY <2>1 DEF ScanDevices
  <2> QED BY <1>0, <2>4, <2>6, <2>7 DEF Busy, Alone
<1> QED BY <1>1, <1>2

\* The events are about places.
LEMMA EventPlaces ==
  ASSUME Inv
  PROVE  Len(events) \in Nat /\ \A i \in 1..Len(events) : events[i].place \in Places
<1>1. events \in Seq(EventRecords)
  BY DEF Inv, HotplugTypes
<1>2. Len(events) \in Nat /\ \A i \in 1..Len(events) : events[i] \in EventRecords
  BY <1>1
<1> QED BY <1>2 DEF EventRecords

\* The notify thread takes the first event.
LEMMA TailEvents ==
  ASSUME Inv, events # <<>>, events' = Tail(events)
  PROVE  /\ Len(events) \in Nat /\ Len(events') = Len(events) - 1
         /\ Head(events) = events[1] /\ 1 \in 1..Len(events)
         /\ \A i \in 1..Len(events') : events'[i] = events[i + 1]
         /\ \A i \in 1..Len(events) : i = 1 \/ (i - 1 \in 1..Len(events') /\ events'[i - 1] = events[i])
         /\ Head(events) \in EventRecords
<1>1. events \in Seq(EventRecords)
  BY DEF Inv, HotplugTypes
<1>2. Len(events) \in Nat /\ Len(events') = Len(events) - 1
      /\ Head(events) = events[1]
      /\ \A i \in 1..Len(events') : events'[i] = events[i + 1]
      /\ Len(events) > 0
  BY <1>1
<1>3. Head(events) \in EventRecords
  BY <1>1
<1> HIDE DEF EventRecords
<1> QED BY <1>2, <1>3

\* An event is added behind the others.
LEMMA AppendEvents ==
  ASSUME Inv, NEW a, NEW p, Tell(a, p), backend = "libudev",
         a \in {"add", "remove"}, p \in Places
  PROVE  /\ Len(events) \in Nat /\ Len(events') = Len(events) + 1
         /\ \A i \in 1..Len(events) : events'[i] = events[i]
         /\ events'[Len(events) + 1].action = a
         /\ events'[Len(events) + 1].place = p
<1> DEFINE e == [action |-> a, place |-> p]
<1>1. events \in Seq(EventRecords)
  BY DEF Inv, HotplugTypes
<1>2. events' = Append(events, e) /\ e \in EventRecords
  BY DEF Tell, EventRecords
<1>3. e.action = a /\ e.place = p
  OBVIOUS
<1> HIDE DEF e
<1>4. Len(events) \in Nat /\ Len(events') = Len(events) + 1
      /\ (\A i \in 1..Len(events) : events'[i] = events[i])
      /\ events'[Len(events) + 1] = e
  BY <1>1, <1>2
<1> QED BY <1>3, <1>4

-----------------------------------------------------------------------------
\* The bus: steps that leave it alone

\* Thread t goes on with what it was doing.
SameWork(t) ==
  /\ pc'[t] = "idle" <=> pc[t] = "idle"
  /\ job'[t].port = job[t].port
  /\ job'[t].device = job[t].device
  /\ job'[t].library = "none" <=> job[t].library = "none"

\* Nothing changes for the bus when the hotplug threads go on with their work.
LEMMA WorkFrame ==
  ASSUME BusInv, UNCHANGED hotplugVars, \A t \in Hotplugs : SameWork(t)
  PROVE  BusInv' /\ Present' = Present
<1>1. Present' = Present /\ Known' = Known
  BY DEF Present, Indices, Known, Scanned, OnBus, Device
<1>2. \A t \in Hotplugs : \A k : Working(t, k)' <=> Working(t, k)
  BY DEF Working, SameWork
<1>3. \A k : Removing(k)' <=> Removing(k)
  BY <1>2 DEF Removing, SameWork
<1>4. \A a, p : Pending(a, p)' <=> Pending(a, p)
  BY DEF Pending
<1>5. JobsTracked'
  BY <1>1 DEF BusInv, JobsTracked, SameWork
<1>6. AddressesOK'
  BY <1>1 DEF BusInv, AddressesOK
<1>7. UdevOK'
  <2>1. PlacesApart' <=> PlacesApart
    BY <1>1 DEF PlacesApart
  <2>2. AddAfterRemove' <=> AddAfterRemove
    BY DEF AddAfterRemove
  <2>3. GoneIsTold' <=> GoneIsTold
    BY <1>1, <1>3, <1>4 DEF GoneIsTold
  <2>4. NewIsTold' <=> NewIsTold
    BY <1>1, <1>3, <1>4 DEF NewIsTold
  <2> QED BY <2>1, <2>2, <2>3, <2>4 DEF BusInv, UdevOK
<1>8. UsbOK'
  <2>1. AddressesApart' <=> AddressesApart
    BY <1>1 DEF AddressesApart
  <2>2. ScanTracked' <=> ScanTracked
    BY <1>1 DEF ScanTracked
  <2>3. FoundIsKept' <=> FoundIsKept
    BY <1>1, <1>2 DEF FoundIsKept, SameWork
  <2> QED BY <2>1, <2>2, <2>3 DEF BusInv, UsbOK
<1> QED BY <1>1, <1>5, <1>6, <1>7, <1>8 DEF BusInv

\* Nothing changes for libudev when a scan starts or ends.
LEMMA UdevFrame ==
  ASSUME UdevOK, UNCHANGED <<pc, job, backend, plugged, events, readerTracker, refused>>
  PROVE  UdevOK'
<1>1. Present' = Present
  BY DEF Present, Indices
<1>2. \A k : Removing(k)' <=> Removing(k)
  BY DEF Removing, Working
<1>3. \A a, p : Pending(a, p)' <=> Pending(a, p)
  BY DEF Pending
<1>4. PlacesApart' <=> PlacesApart
  BY <1>1 DEF PlacesApart
<1>5. AddAfterRemove' <=> AddAfterRemove
  BY DEF AddAfterRemove
<1>6. GoneIsTold' <=> GoneIsTold
  BY <1>1, <1>2, <1>3 DEF GoneIsTold
<1>7. NewIsTold' <=> NewIsTold
  BY <1>1, <1>2, <1>3 DEF NewIsTold
<1> QED BY <1>4, <1>5, <1>6, <1>7 DEF UdevOK

-----------------------------------------------------------------------------
\* The bus: devices come and go

\* Events that have been told stay.
LEMMA PendingGrows ==
  ASSUME Inv, NEW a \in {"add", "remove"}, NEW p \in Places, Tell(a, p),
         backend = "libudev"
  PROVE  /\ \A b, q : Pending(b, q) => Pending(b, q)'
         /\ Pending(a, p)'
<1>1. /\ Len(events) \in Nat /\ Len(events') = Len(events) + 1
      /\ \A i \in 1..Len(events) : events'[i] = events[i]
      /\ events'[Len(events) + 1].action = a
      /\ events'[Len(events) + 1].place = p
  BY AppendEvents
<1>2. \A i \in 1..Len(events) : i \in 1..Len(events')
  BY <1>1
<1>3. Len(events) + 1 \in 1..Len(events')
  BY <1>1
<1> QED BY <1>1, <1>2, <1>3 DEF Pending

\* A device is plugged in.
LEMMA PlugBus ==
  ASSUME Inv, BusInv, NEW p \in Places, Plug(p)
  PROVE  BusInv' /\ Present' = Present
<1>0. /\ plugged[p] = 0 /\ address' = address + 1 /\ Tell("add", p)
      /\ plugged' = [plugged EXCEPT ![p] = address + 1]
      /\ UNCHANGED <<pc, job, backend, readerTracker, scan, refused>>
      /\ plugged \in [Places -> Nat] /\ address \in Nat
  BY DEF Plug, Inv, HotplugTypes
<1>1. Present' = Present /\ Present \subseteq Nat
      /\ \A k \in Present : readerTracker[k] \in FoundDevices
  BY <1>0, PresentDevice DEF Present, Indices
<1>2. \A k : Removing(k)' <=> Removing(k)
  BY <1>0 DEF Removing, Working
<1>3. JobsTracked' /\ AddressesOK'
  BY <1>0, <1>1 DEF BusInv, JobsTracked, AddressesOK
<1>4. plugged'[p] = address + 1 /\ \A q \in Places : q # p => plugged'[q] = plugged[q]
  BY <1>0
<1>5. ASSUME backend = "libudev"
      PROVE  PlacesApart' /\ AddAfterRemove' /\ GoneIsTold' /\ NewIsTold'
  <2>0. PlacesApart /\ AddAfterRemove /\ GoneIsTold /\ NewIsTold
    BY <1>5 DEF BusInv, UdevOK
  <2>1. PlacesApart'
    BY <1>0, <1>1, <2>0 DEF PlacesApart
  <2>2. (\A b, q : Pending(b, q) => Pending(b, q)') /\ Pending("add", p)'
    BY <1>0, <1>5, PendingGrows
  <2>3. AddAfterRemove'
    <3>1. /\ Len(events) \in Nat /\ Len(events') = Len(events) + 1
          /\ \A i \in 1..Len(events) : events'[i] = events[i]
          /\ events'[Len(events) + 1].action = "add"
          /\ events'[Len(events) + 1].place = p
      BY <1>0, <1>5, AppendEvents
    <3>2. \A i \in 1..Len(events) : events[i].place \in Places
      BY EventPlaces
    <3> SUFFICES ASSUME NEW i \in 1..Len(events'), events'[i].action = "remove",
                        plugged'[events'[i].place] # 0
                 PROVE  \E j \in 1..Len(events') :
                          /\ i < j /\ events'[j].action = "add"
                          /\ events'[j].place = events'[i].place
      BY DEF AddAfterRemove
    <3>3. i \in 1..Len(events) /\ events'[i] = events[i] /\ i < Len(events')
      BY <3>1
    <3>4. CASE events[i].place = p
      BY <3>1, <3>3, <3>4
    <3>5. CASE events[i].place # p
      <4>1. plugged[events[i].place] # 0
        BY <1>4, <3>2, <3>3, <3>5
      <4>2. PICK j \in 1..Len(events) :
              /\ i < j /\ events[j].action = "add"
              /\ events[j].place = events[i].place
        BY <2>0, <3>3, <4>1 DEF AddAfterRemove
      <4> QED BY <3>1, <3>3, <4>2
    <3> QED BY <3>4, <3>5
  <2>4. GoneIsTold'
    <3> SUFFICES ASSUME NEW k \in Present
                 PROVE  \/ Removing(k)
                        \/ plugged'[readerTracker[k].place] = readerTracker[k].address
                        \/ Pending("remove", readerTracker[k].place)'
      BY <1>0, <1>1, <1>2 DEF GoneIsTold
    <3>1. readerTracker[k].place \in Places /\ readerTracker[k].address # 0
      BY <1>1 DEF FoundDevices, BusInv, AddressesOK
    <3> QED BY <1>0, <1>4, <2>0, <2>2, <3>1 DEF GoneIsTold
  <2>5. NewIsTold'
    BY <1>0, <1>1, <1>2, <1>4, <2>0, <2>2 DEF NewIsTold
  <2> QED BY <2>1, <2>3, <2>4, <2>5
<1>6. ASSUME backend = "libusb"
      PROVE  AddressesApart' /\ ScanTracked' /\ FoundIsKept'
  <2>0. AddressesApart /\ ScanTracked /\ FoundIsKept
    BY <1>6 DEF BusInv, UsbOK
  <2>1. ScanTracked' /\ FoundIsKept'
    BY <1>0, <1>1, <2>0 DEF ScanTracked, FoundIsKept, Working
  <2>2. Known' = Known \cup {[place |-> p, address |-> address + 1]}
    <3>1. OnBus' = OnBus \cup {[place |-> p, address |-> address + 1]}
      <4>1. Device(p)' = [place |-> p, address |-> address + 1]
            /\ \A q \in Places : q # p => Device(q)' = Device(q)
        BY <1>4 DEF Device
      <4>2. \A q \in Places : plugged'[q] # 0 <=> q = p \/ plugged[q] # 0
        BY <1>0, <1>4
      <4>3. OnBus' = {Device(q)' : q \in {q \in Places : plugged'[q] # 0}}
        BY DEF OnBus
      <4> QED BY <1>0, <4>1, <4>2, <4>3 DEF OnBus
    <3>2. Scanned' = Scanned
      BY <1>0 DEF Scanned
    <3> QED BY <1>0, <1>1, <3>1, <3>2 DEF Known
  <2>3. \A d \in Known : d.address \in Nat
    <3>1. Scanned \subseteq FoundDevices
      BY DEF Inv, HotplugTypes, ScanRecords, Scanned
    <3>2. \A q \in Places : Device(q) \in FoundDevices
      BY DeviceType DEF Inv
    <3>3. Known \subseteq FoundDevices
      BY <1>1, <3>1, <3>2 DEF Known, OnBus
    <3> QED BY <3>3 DEF FoundDevices
  <2>4. AddressesApart'
    <3> DEFINE new == [place |-> p, address |-> address + 1]
    <3>1. new.address = address + 1
      OBVIOUS
    <3> HIDE DEF new
    <3>2. \A d \in Known : d.address < new.address
      BY <1>0, <2>0, <2>3, <3>1 DEF AddressesApart
    <3>3. Known' = Known \cup {new}
      BY <2>2 DEF new
    <3>4. \A d, e \in Known' : d.address = e.address => d = e
      BY <1>0, <2>0, <2>3, <3>1, <3>2, <3>3 DEF AddressesApart
    <3>5. \A d \in Known' : d.address <= address'
      BY <1>0, <2>0, <2>3, <3>1, <3>2, <3>3 DEF AddressesApart
    <3> QED BY <3>4, <3>5 DEF AddressesApart
  <2> QED BY <2>1, <2>4
<1> QED BY <1>0, <1>1, <1>3, <1>5, <1>6 DEF BusInv, UdevOK, UsbOK

\* A device is unplugged.
LEMMA UnplugBus ==
  ASSUME Inv, BusInv, NEW p \in Places, Unplug(p)
  PROVE  BusInv' /\ Present' = Present
<1>0. /\ plugged[p] # 0 /\ Tell("remove", p)
      /\ plugged' = [plugged EXCEPT ![p] = 0]
      /\ UNCHANGED <<pc, job, backend, address, readerTracker, scan, refused>>
      /\ plugged \in [Places -> Nat]
  BY DEF Unplug, Inv, HotplugTypes
<1>1. Present' = Present /\ Present \subseteq Nat
      /\ \A k \in Present : readerTracker[k] \in FoundDevices
  BY <1>0, PresentDevice DEF Present, Indices
<1>2. \A k : Removing(k)' <=> Removing(k)
  BY <1>0 DEF Removing, Working
<1>3. JobsTracked' /\ AddressesOK'
  BY <1>0, <1>1 DEF BusInv, JobsTracked, AddressesOK
<1>4. plugged'[p] = 0 /\ \A q \in Places : q # p => plugged'[q] = plugged[q]
  BY <1>0
<1>5. ASSUME backend = "libudev"
      PROVE  PlacesApart' /\ AddAfterRemove' /\ GoneIsTold' /\ NewIsTold'
  <2>0. PlacesApart /\ AddAfterRemove /\ GoneIsTold /\ NewIsTold
    BY <1>5 DEF BusInv, UdevOK
  <2>1. PlacesApart'
    BY <1>0, <1>1, <2>0 DEF PlacesApart
  <2>2. (\A b, q : Pending(b, q) => Pending(b, q)') /\ Pending("remove", p)'
    BY <1>0, <1>5, PendingGrows
  <2>3. AddAfterRemove'
    <3>1. /\ Len(events) \in Nat /\ Len(events') = Len(events) + 1
          /\ \A i \in 1..Len(events) : events'[i] = events[i]
          /\ events'[Len(events) + 1].place = p
      BY <1>0, <1>5, AppendEvents
    <3>2. \A i \in 1..Len(events) : events[i].place \in Places
      BY EventPlaces
    <3> SUFFICES ASSUME NEW i \in 1..Len(events'), events'[i].action = "remove",
                        plugged'[events'[i].place] # 0
                 PROVE  \E j \in 1..Len(events') :
                          /\ i < j /\ events'[j].action = "add"
                          /\ events'[j].place = events'[i].place
      BY DEF AddAfterRemove
    <3>3. i # Len(events) + 1
      BY <1>4, <3>1
    <3>4. i \in 1..Len(events) /\ events'[i] = events[i]
      BY <3>1, <3>3
    <3>5. plugged[events[i].place] # 0
      BY <1>4, <3>2, <3>4
    <3>6. PICK j \in 1..Len(events) :
            /\ i < j /\ events[j].action = "add"
            /\ events[j].place = events[i].place
      BY <2>0, <3>4, <3>5 DEF AddAfterRemove
    <3> QED BY <3>1, <3>4, <3>6
  <2>4. GoneIsTold'
    <3> SUFFICES ASSUME NEW k \in Present
                 PROVE  \/ Removing(k)
                        \/ plugged'[readerTracker[k].place] = readerTracker[k].address
                        \/ Pending("remove", readerTracker[k].place)'
      BY <1>0, <1>1, <1>2 DEF GoneIsTold
    <3>1. readerTracker[k].place \in Places
      BY <1>1 DEF FoundDevices
    <3>2. CASE readerTracker[k].place = p
      BY <1>0, <2>2, <3>2
    <3>3. CASE readerTracker[k].place # p
      BY <1>0, <1>4, <2>0, <2>2, <3>1, <3>3 DEF GoneIsTold
    <3> QED BY <3>2, <3>3
  <2>5. NewIsTold'
    BY <1>0, <1>1, <1>2, <1>4, <2>0, <2>2 DEF NewIsTold
  <2> QED BY <2>1, <2>3, <2>4, <2>5
<1>6. ASSUME backend = "libusb"
      PROVE  AddressesApart' /\ ScanTracked' /\ FoundIsKept'
  <2>0. AddressesApart /\ ScanTracked /\ FoundIsKept
    BY <1>6 DEF BusInv, UsbOK
  <2>1. ScanTracked' /\ FoundIsKept'
    BY <1>0, <1>1, <2>0 DEF ScanTracked, FoundIsKept, Working
  <2>2. Known' \subseteq Known
    BY <1>0, <1>1, <1>4 DEF Known, Scanned, OnBus, Device
  <2>3. AddressesApart'
    BY <1>0, <2>0, <2>2 DEF AddressesApart
  <2> QED BY <2>1, <2>3
<1> QED BY <1>0, <1>1, <1>3, <1>5, <1>6 DEF BusInv, UdevOK, UsbOK

-----------------------------------------------------------------------------
\* The bus: devices are added to the tracker

\* Thread t starts to add device d, at the free index k.
AddsAt(t, d, k) ==
  /\ k \in Nat /\ k \notin Present /\ Present' = Present \cup {k}
  /\ readerTracker'[k] = d
  /\ \A m \in Present : readerTracker'[m] = readerTracker[m]
  /\ \A i \in Live : reader[i].port # Port(k)
  /\ pc'[t] = "add" /\ job'[t].port = Port(k) /\ job'[t].rv = "SUCCESS"
  /\ job'[t].library = "driver" /\ job'[t].device = <<d.address>>
  /\ \A u \in Threads : u # t => pc'[u] = pc[u] /\ job'[u] = job[u]

\* That is what StartAdd() does.
LEMMA StartAddIndex ==
  ASSUME Inv, Calm', NEW t \in Hotplugs, NEW d \in FoundDevices,
         d.address # 0, StartAdd(t, d), \A u \in Hotplugs : pc[u] = "idle",
         UNCHANGED <<reader, maxReaderContext>>
  PROVE  \E k : AddsAt(t, d, k)
<1> DEFINE k == FreeIndex
           j == [NoJob EXCEPT !.port = Port(k), !.library = "driver",
                              !.device = <<d.address>>]
<1>1. k \in 1 .. Len(readerTracker) + 1
  BY FreeIndexIsValid DEF Inv
<1>2. /\ Goto(t, "add") /\ SetJob(t, j)
      /\ readerTracker' =
           IF k \in Indices THEN [readerTracker EXCEPT ![k] = d]
                            ELSE readerTracker \o <<d, NoDevice>>
  BY DEF StartAdd
<1>3. /\ readerTracker \in Seq(DeviceRecords) /\ d \in DeviceRecords
      /\ NoDevice \in DeviceRecords
      /\ Len(readerTracker) \in Nat /\ Indices = 1 .. Len(readerTracker)
      /\ d # NoDevice
  BY DEF Inv, HotplugTypes, DeviceRecords, Indices, NoDevice
<1>4. k \in Indices => readerTracker[k] = NoDevice
  <2> DEFINE S == {Len(readerTracker) + 1} \cup
                    {m \in Indices : readerTracker[m] = NoDevice}
  <2>1. S \subseteq Nat /\ S # {}
    BY <1>3
  <2>2. k \in S
    <3>1. Min(S) \in S
      BY <2>1, MinNat
    <3> QED BY <3>1 DEF FreeIndex
  <2> QED BY <1>3, <2>2
<1> HIDE DEF k
<1>5. /\ pc'[t] = "add" /\ job'[t] = j
      /\ \A u \in Threads : u # t => pc'[u] = pc[u] /\ job'[u] = job[u]
  BY <1>2, ThreadFrame DEF Inv, Threads
<1>6. j.port = Port(k) /\ j.rv = "SUCCESS" /\ j.library = "driver"
      /\ j.device = <<d.address>>
  BY DEF NoJob
<1> HIDE DEF j
<1>7. /\ Present' = Present \cup {k} /\ readerTracker'[k] = d /\ k \notin Present
      /\ \A m \in Present : readerTracker'[m] = readerTracker[m]
  <2>1. CASE k \in Indices
    <3>1. /\ readerTracker' = [readerTracker EXCEPT ![k] = d]
          /\ DOMAIN readerTracker = Indices
      BY <1>2, <2>1 DEF Indices
    <3>2. /\ DOMAIN readerTracker' = Indices /\ readerTracker'[k] = d
          /\ \A m \in Indices : m # k => readerTracker'[m] = readerTracker[m]
      BY <2>1, <3>1
    <3>3. Indices' = Indices
      BY <3>2 DEF Indices
    <3> QED BY <1>3, <1>4, <2>1, <3>2, <3>3 DEF Present
  <2>2. CASE k \notin Indices
    <3>1. k = Len(readerTracker) + 1
      BY <1>1, <1>3, <2>2
    <3> DEFINE s == <<d, NoDevice>>
    <3>2. s \in Seq(DeviceRecords) /\ Len(s) = 2 /\ s[1] = d /\ s[2] = NoDevice
      BY <1>3
    <3>3. readerTracker' = readerTracker \o s
      BY <1>2, <2>2
    <3> HIDE DEF s, DeviceRecords
    <3>4. /\ Len(readerTracker') = Len(readerTracker) + 2
          /\ readerTracker' \in Seq(DeviceRecords)
          /\ \A m \in 1 .. Len(readerTracker) : readerTracker'[m] = readerTracker[m]
          /\ readerTracker'[Len(readerTracker) + 1] = s[1]
          /\ readerTracker'[Len(readerTracker) + 2] = s[2]
      <4> DEFINE n == Len(readerTracker)
      <4>1. /\ readerTracker \o s \in Seq(DeviceRecords)
            /\ Len(readerTracker \o s) = n + Len(s)
            /\ \A i \in 1 .. n + Len(s) : (readerTracker \o s)[i] =
                 IF i <= n THEN readerTracker[i] ELSE s[i - n]
        BY <1>3, <3>2, ConcatProperties
      <4>2. n + 1 \in 1 .. n + Len(s) /\ n + 2 \in 1 .. n + Len(s)
            /\ ~(n + 1 <= n) /\ ~(n + 2 <= n)
            /\ (n + 1) - n = 1 /\ (n + 2) - n = 2
            /\ \A m \in 1..n : m \in 1 .. n + Len(s) /\ m <= n
        BY <1>3, <3>2
      <4> HIDE DEF n
      <4>3. /\ (readerTracker \o s)[n + 1] = s[1] /\ (readerTracker \o s)[n + 2] = s[2]
            /\ \A m \in 1..n : (readerTracker \o s)[m] = readerTracker[m]
        BY <4>1, <4>2, Zenon
      <4> QED BY <3>2, <3>3, <4>1, <4>3 DEF n
    <3>5. Indices' = 1 .. Len(readerTracker) + 2
      BY <3>4 DEF Indices
    <3>6. Indices' = Indices \cup {k, k + 1}
      BY <1>3, <3>1, <3>5
    <3>7. readerTracker'[k] = d /\ readerTracker'[k + 1] = NoDevice
          /\ \A m \in Indices : readerTracker'[m] = readerTracker[m]
      BY <1>3, <3>1, <3>2, <3>4
    <3> QED BY <1>3, <2>2, <3>6, <3>7 DEF Present
  <2> QED BY <2>1, <2>2
<1>8. k \in Nat
  BY <1>1, <1>3
<1>9. \A i \in Live : reader[i].port # Port(k)
  <2>1. Live = Used /\ Used' = Used
    BY LiveIsUsed DEF Used
  <2>2. \A i \in Used : reader[i].port # job'[t].port
    BY <1>5, <1>6, <2>1 DEF Calm, PortsApart
  <2> QED BY <1>5, <1>6, <2>1, <2>2
<1> QED BY <1>1, <1>5, <1>6, <1>7, <1>8, <1>9 DEF AddsAt

\* The events that wait while the device at place p is looked at: that of its
\* arrival may have been taken.
EventsOK(p) ==
  /\ \A q \in Places : Pending("remove", q) => Pending("remove", q)'
  /\ \A q \in Places : q # p /\ Pending("add", q) => Pending("add", q)'
  /\ AddAfterRemove => AddAfterRemove'

\* The jobs are in order after a device has been added.
LEMMA AddJobs ==
  ASSUME Inv, BusInv, NEW t \in Hotplugs, NEW d, NEW k, AddsAt(t, d, k),
         d.address # 0, \A u \in Hotplugs : pc[u] = "idle"
  PROVE  /\ JobsTracked' /\ \A m \in Present' : readerTracker'[m].address # 0
         /\ \A m : ~Removing(m) /\ ~Removing(m)'
<1> USE DEF AddsAt
<1>1. \A u \in Hotplugs : u # t => pc'[u] = "idle"
  BY DEF Threads
<1>2. JobsTracked'
  BY <1>1 DEF JobsTracked
<1>3. \A m \in Present' : readerTracker'[m].address # 0
  BY DEF BusInv, AddressesOK
<1>4. \A m : ~Removing(m) /\ ~Removing(m)'
  BY <1>1 DEF Removing, Working
<1> QED BY <1>2, <1>3, <1>4

\* libudev looks at a place and adds the device that is there.
LEMMA UdevAdd ==
  ASSUME Inv, BusInv, Calm', NEW t \in Hotplugs, NEW p \in Places,
         HPAddDevice(t, Device(p)), backend = "libudev", EventsOK(p),
         \A u \in Hotplugs : pc[u] = "idle"
  PROVE  JobsTracked' /\ UdevOK' /\ \A k \in Present' : readerTracker'[k].address # 0
<1>0. /\ PlacesApart /\ AddAfterRemove /\ GoneIsTold /\ NewIsTold
      /\ UNCHANGED <<backend, plugged, refused>>
      /\ Present \subseteq Nat
      /\ \A k \in Present : readerTracker[k] \in FoundDevices
      /\ \A k \in Indices : k \in Present \/ readerTracker[k] = NoDevice
      /\ Present \subseteq Indices
  BY PresentDevice DEF BusInv, UdevOK, HPAddDevice
<1>1. Device(p).place = p /\ Device(p).address = plugged[p]
      /\ Device(p) \in FoundDevices
  BY DeviceType DEF Device, Inv
<1>2. Tracked(Device(p)) <=> \E k \in Present : readerTracker[k].place = p
  <2>1. "none" # p
    BY HotplugAssumption
  <2>2. Tracked(Device(p)) <=> \E k \in Indices : readerTracker[k].place = p
    BY <1>1 DEF Tracked, SameDevice
  <2>3. \A k \in Indices : readerTracker[k].place = p => k \in Present
    BY <1>0, <2>1 DEF NoDevice
  <2> QED BY <1>0, <2>2, <2>3
<1>3. CASE plugged[p] # 0 /\ ~Tracked(Device(p)) /\ StartAdd(t, Device(p))
  <2>1. PICK k : AddsAt(t, Device(p), k)
    BY <1>1, <1>3, StartAddIndex DEF HPAddDevice
  <2>2. /\ Present' = Present \cup {k} /\ k \notin Present
        /\ readerTracker'[k] = Device(p)
        /\ \A m \in Present : readerTracker'[m] = readerTracker[m]
    BY <2>1 DEF AddsAt
  <2>3. /\ JobsTracked' /\ \A m \in Present' : readerTracker'[m].address # 0
        /\ \A m : ~Removing(m) /\ ~Removing(m)'
    BY <1>1, <1>3, <2>1, AddJobs
  <2>4. PlacesApart'
    BY <1>0, <1>1, <1>2, <1>3, <2>2 DEF PlacesApart
  <2>5. GoneIsTold'
    <3> SUFFICES ASSUME NEW m \in Present'
                 PROVE  \/ plugged[readerTracker'[m].place] = readerTracker'[m].address
                        \/ Pending("remove", readerTracker[m].place)'
      BY <1>0 DEF GoneIsTold
    <3>1. CASE m = k
      BY <1>1, <2>2, <3>1
    <3>2. CASE m \in Present
      <4>1. readerTracker[m].place \in Places /\ readerTracker'[m] = readerTracker[m]
        BY <1>0, <2>2, <3>2 DEF FoundDevices
      <4> QED BY <1>0, <2>3, <3>2, <4>1 DEF GoneIsTold, EventsOK
    <3> QED BY <2>2, <3>1, <3>2
  <2>6. NewIsTold'
    <3> SUFFICES ASSUME NEW q \in Places
                 PROVE  \/ plugged[q] \in refused \cup {0}
                        \/ \E m \in Present' : readerTracker'[m].place = q
                        \/ Pending("add", q)'
      BY <1>0, <2>3 DEF NewIsTold
    <3>1. CASE q = p
      BY <1>1, <2>2, <3>1
    <3>2. CASE q # p
      BY <1>0, <2>2, <3>2 DEF NewIsTold, EventsOK
    <3> QED BY <3>1, <3>2
  <2> QED BY <1>0, <2>3, <2>4, <2>5, <2>6 DEF UdevOK, EventsOK
<1>4. CASE /\ plugged[p] = 0 \/ Tracked(Device(p))
           /\ UNCHANGED <<readerTracker, pc, job>>
  <2>1. Present' = Present
    BY <1>4 DEF Present, Indices
  <2>2. JobsTracked' /\ \A k \in Present' : readerTracker'[k].address # 0
    BY <1>4, <2>1 DEF BusInv, JobsTracked, AddressesOK
  <2>3. \A m : ~Removing(m) /\ ~Removing(m)'
    BY <1>4 DEF Removing, Working
  <2>4. PlacesApart'
    BY <1>0, <1>4, <2>1 DEF PlacesApart
  <2>5. GoneIsTold'
    <3> SUFFICES ASSUME NEW m \in Present
                 PROVE  \/ plugged[readerTracker[m].place] = readerTracker[m].address
                        \/ Pending("remove", readerTracker[m].place)'
      BY <1>0, <1>4, <2>1 DEF GoneIsTold
    <3>1. readerTracker[m].place \in Places
      BY <1>0 DEF FoundDevices
    <3> QED BY <1>0, <1>4, <2>3, <3>1 DEF GoneIsTold, EventsOK
  <2>6. NewIsTold'
    <3> SUFFICES ASSUME NEW q \in Places
                 PROVE  \/ plugged[q] \in refused \cup {0}
                        \/ \E m \in Present : readerTracker[m].place = q
                        \/ Pending("add", q)'
      BY <1>0, <1>4, <2>1, <2>3 DEF NewIsTold
    <3>1. CASE q = p
      BY <1>2, <1>4, <3>1
    <3>2. CASE q # p
      BY <1>0, <3>2 DEF NewIsTold, EventsOK
    <3> QED BY <3>1, <3>2
  <2> QED BY <1>0, <2>2, <2>4, <2>5, <2>6 DEF UdevOK, EventsOK
<1> QED BY <1>1, <1>3, <1>4 DEF HPAddDevice, NewDevice

\* A scan has looked at device d.
LEMMA ScanTodo ==
  ASSUME Inv, BusInv, NEW t \in Hotplugs, NEW d \in scan[t].todo,
         scan' = [scan EXCEPT ![t].todo = @ \ {d}]
  PROVE  /\ d \in FoundDevices /\ d.address # 0 /\ d \in scan[t].found
         /\ Busy(t) /\ \A u \in Hotplugs : scan'[u].found = scan[u].found
         /\ scan'[t].todo = scan[t].todo \ {d}
         /\ \A u \in Hotplugs : u # t => scan'[u] = scan[u]
         /\ \A u \in Hotplugs : scan'[u].todo \subseteq scan[u].todo
         /\ \A u \in Hotplugs : scan'[u].todo \subseteq scan'[u].found
         /\ \A u \in Hotplugs : \A e \in scan'[u].found : e.address # 0
<1>1. scan \in [Hotplugs -> ScanRecords]
  BY DEF Inv, HotplugTypes
<1>2. /\ \A u \in Hotplugs : /\ scan[u].todo \subseteq scan[u].found
                             /\ \A e \in scan[u].found : e.address # 0
                             /\ scan[u].found \subseteq FoundDevices
      /\ scan[t].todo # NoScan.todo
  BY <1>1 DEF BusInv, AddressesOK, ScanRecords, NoScan
<1>3. Busy(t)
  BY <1>2 DEF Busy
<1>4. /\ \A u \in Hotplugs : u # t => scan'[u] = scan[u]
      /\ scan'[t].found = scan[t].found /\ scan'[t].todo = scan[t].todo \ {d}
  BY <1>1 DEF ScanRecords
<1> QED BY <1>2, <1>3, <1>4

\* libusb looks at a device that a scan has found and adds it.
LEMMA UsbAdd ==
  ASSUME Inv, BusInv, Calm', NEW t \in Hotplugs, NEW d \in scan[t].todo,
         scan' = [scan EXCEPT ![t].todo = @ \ {d}],
         HPAddDevice(t, d), backend = "libusb", pc[t] = "idle"
  PROVE  JobsTracked' /\ UsbOK' /\ \A k \in Present' : readerTracker'[k].address # 0
<1>0. /\ d \in FoundDevices /\ d.address # 0 /\ d \in scan[t].found
      /\ Busy(t) /\ \A u \in Hotplugs : scan'[u].found = scan[u].found
      /\ scan'[t].todo = scan[t].todo \ {d}
      /\ \A u \in Hotplugs : u # t => scan'[u] = scan[u]
  BY ScanTodo
<1>1. \A u \in Hotplugs : pc[u] = "idle"
  BY <1>0, OthersRest DEF Alone
<1>2. /\ AddressesApart /\ ScanTracked
      /\ UNCHANGED <<backend, plugged, address>>
      /\ Present \subseteq Indices
      /\ \A k \in Indices : k \in Present \/ readerTracker[k] = NoDevice
  BY PresentDevice DEF BusInv, UsbOK, HPAddDevice
<1>3. Scanned' = Scanned /\ OnBus' = OnBus
  BY <1>0, <1>2 DEF Scanned, OnBus, Device
<1>4. d \in Known
  BY <1>0 DEF Known, Scanned
<1>5. Tracked(d) => \E k \in Present : readerTracker[k] = d
  <2> SUFFICES ASSUME NEW k \in Indices, readerTracker[k].address = d.address
               PROVE  k \in Present /\ readerTracker[k] = d
    BY DEF Tracked, SameDevice
  <2>1. k \in Present
    BY <1>0, <1>2 DEF NoDevice
  <2>2. readerTracker[k] \in Known
    BY <2>1 DEF Known
  <2> QED BY <1>2, <1>4, <2>1, <2>2 DEF AddressesApart
<1>6. CASE ~Tracked(d) /\ StartAdd(t, d)
  <2>1. PICK k : AddsAt(t, d, k)
    BY <1>0, <1>1, <1>6, StartAddIndex DEF HPAddDevice
  <2>2. /\ Present' = Present \cup {k} /\ k \notin Present
        /\ readerTracker'[k] = d
        /\ \A m \in Present : readerTracker'[m] = readerTracker[m]
    BY <2>1 DEF AddsAt
  <2>3. /\ JobsTracked' /\ \A m \in Present' : readerTracker'[m].address # 0
        /\ \A m : ~Removing(m) /\ ~Removing(m)'
    BY <1>0, <1>1, <2>1, AddJobs
  <2>4. Known' \subseteq Known
    BY <1>3, <1>4, <2>2 DEF Known
  <2>5. AddressesApart'
    BY <1>2, <2>4 DEF AddressesApart
  <2>6. ScanTracked'
    <3> SUFFICES ASSUME NEW u \in Hotplugs, NEW e \in scan[u].found,
                        e \notin scan'[u].todo
                 PROVE  \E m \in Present' : readerTracker'[m] = e
      BY <1>0 DEF ScanTracked
    <3>1. CASE e = d
      BY <2>2, <3>1
    <3>2. CASE e # d
      <4>1. e \notin scan[u].todo
        BY <1>0, <3>2
      <4> QED BY <1>2, <2>2, <4>1 DEF ScanTracked
    <3> QED BY <3>1, <3>2
  <2>7. FoundIsKept'
    BY <2>3 DEF FoundIsKept, Removing
  <2> QED BY <2>3, <2>5, <2>6, <2>7 DEF UsbOK
<1>7. CASE Tracked(d) /\ UNCHANGED <<readerTracker, pc, job>>
  <2>1. Present' = Present
    BY <1>7 DEF Present, Indices
  <2>2. JobsTracked' /\ \A k \in Present' : readerTracker'[k].address # 0
    BY <1>7, <2>1 DEF BusInv, JobsTracked, AddressesOK
  <2>3. AddressesApart'
    BY <1>2, <1>3, <1>7, <2>1 DEF AddressesApart, Known
  <2>4. ScanTracked'
    <3> SUFFICES ASSUME NEW u \in Hotplugs, NEW e \in scan[u].found,
                        e \notin scan'[u].todo
                 PROVE  \E m \in Present : readerTracker[m] = e
      BY <1>0, <1>7, <2>1 DEF ScanTracked
    <3>1. CASE e = d
      BY <1>5, <1>7, <3>1
    <3>2. CASE e # d
      <4>1. e \notin scan[u].todo
        BY <1>0, <3>2
      <4> QED BY <1>2, <4>1 DEF ScanTracked
    <3> QED BY <3>1, <3>2
  <2>5. FoundIsKept'
    BY <1>1, <1>7 DEF FoundIsKept, Working
  <2> QED BY <2>2, <2>3, <2>4, <2>5 DEF UsbOK
<1> QED BY <1>0, <1>6, <1>7 DEF HPAddDevice, NewDevice

\* udev tells that a device has been plugged in.
LEMMA ReceiveAddBus ==
  ASSUME Inv, BusInv, Calm', NEW t \in Hotplugs, ReceiveAdd(t), Alone(t)
  PROVE  BusInv'
<1> DEFINE p == Head(events).place
<1>1. /\ MayStart(t) /\ pc[t] = "idle" /\ events # <<>> /\ events' = Tail(events)
      /\ Head(events).action = "add" /\ backend = "libudev"
      /\ HPAddDevice(t, Device(p)) /\ UNCHANGED scan
  BY DEF ReceiveAdd, MayStart, Busy
<1>2. \A u \in Hotplugs : pc[u] = "idle"
  BY <1>1 DEF Alone
<1>3. /\ Len(events) \in Nat /\ Len(events') = Len(events) - 1
      /\ Head(events) = events[1] /\ 1 \in 1..Len(events)
      /\ \A i \in 1..Len(events') : events'[i] = events[i + 1]
      /\ \A i \in 1..Len(events) : i = 1 \/ (i - 1 \in 1..Len(events') /\ events'[i - 1] = events[i])
      /\ Head(events) \in EventRecords
  BY <1>1, TailEvents
<1>4. p \in Places
  BY <1>3 DEF EventRecords
<1>5. UNCHANGED <<plugged, backend>>
  BY <1>1 DEF HPAddDevice
<1>6. EventsOK(p)
  <2>1. \A q \in Places : Pending("remove", q) => Pending("remove", q)'
    BY <1>1, <1>3 DEF Pending
  <2>2. \A q \in Places : q # p /\ Pending("add", q) => Pending("add", q)'
    BY <1>1, <1>3 DEF Pending
  <2>3. AddAfterRemove => AddAfterRemove'
    <3> SUFFICES ASSUME AddAfterRemove, NEW i \in 1..Len(events'),
                        events'[i].action = "remove", plugged[events'[i].place] # 0
                 PROVE  \E j \in 1..Len(events') :
                          /\ i < j /\ events'[j].action = "add"
                          /\ events'[j].place = events'[i].place
      BY <1>5 DEF AddAfterRemove
    <3>1. i + 1 \in 1..Len(events) /\ events'[i] = events[i + 1]
      BY <1>3
    <3>2. PICK j \in 1..Len(events) :
            /\ i + 1 < j /\ events[j].action = "add"
            /\ events[j].place = events[i + 1].place
      BY <3>1 DEF AddAfterRemove
    <3>3. j - 1 \in 1..Len(events') /\ events'[j - 1] = events[j] /\ i < j - 1
      BY <1>3, <3>2
    <3> QED BY <3>1, <3>2, <3>3
  <2> QED BY <2>1, <2>2, <2>3 DEF EventsOK
<1> HIDE DEF p
<1>7. JobsTracked' /\ UdevOK' /\ \A k \in Present' : readerTracker'[k].address # 0
  BY <1>1, <1>2, <1>4, <1>6, UdevAdd
<1>8. AddressesOK' /\ UsbOK'
  BY <1>1, <1>5, <1>7 DEF BusInv, AddressesOK, UsbOK
<1> QED BY <1>5, <1>7, <1>8 DEF BusInv

\* A scan looks at the next device it has found.
LEMMA ScanNextBus ==
  ASSUME Inv, BusInv, Calm', NEW t \in Hotplugs, ScanNext(t)
  PROVE  BusInv'
<1>1. PICK d \in scan[t].todo :
        /\ pc[t] = "idle"
        /\ scan' = [scan EXCEPT ![t].todo = @ \ {d}]
        /\ HPAddDevice(t, IF backend = "libudev" THEN Device(d.place) ELSE d)
        /\ UNCHANGED events
  BY DEF ScanNext
<1>2. /\ d \in FoundDevices /\ d.address # 0 /\ d \in scan[t].found /\ Busy(t)
      /\ \A u \in Hotplugs : scan'[u].todo \subseteq scan'[u].found
      /\ \A u \in Hotplugs : \A e \in scan'[u].found : e.address # 0
  BY <1>1, ScanTodo
<1>3. \A u \in Hotplugs : pc[u] = "idle"
  BY <1>1, <1>2, OthersRest DEF Alone
<1>4. UNCHANGED <<plugged, backend>>
  BY <1>1 DEF HPAddDevice
<1>5. CASE backend = "libudev"
  <2>1. d.place \in Places /\ HPAddDevice(t, Device(d.place))
    BY <1>1, <1>2, <1>5 DEF FoundDevices
  <2>2. EventsOK(d.place)
    BY <1>1, <1>4 DEF EventsOK, Pending, AddAfterRemove
  <2>3. JobsTracked' /\ UdevOK' /\ \A k \in Present' : readerTracker'[k].address # 0
    BY <1>3, <1>5, <2>1, <2>2, UdevAdd
  <2> QED BY <1>2, <1>4, <1>5, <2>3 DEF BusInv, AddressesOK, UsbOK
<1>6. CASE backend # "libudev"
  <2>1. HPAddDevice(t, d)
    BY <1>1, <1>6
  <2>2. backend = "libusb" => JobsTracked' /\ UsbOK'
          /\ \A k \in Present' : readerTracker'[k].address # 0
    BY <1>1, <2>1, UsbAdd
  <2>3. backend = "libusb"
    BY <1>6, HotplugAssumption DEF BusInv
  <2> QED BY <1>2, <1>4, <1>6, <2>2, <2>3 DEF BusInv, AddressesOK, UdevOK
<1> QED BY <1>5, <1>6

-----------------------------------------------------------------------------
\* The bus: devices are removed from the tracker

\* Thread t starts to remove the reader of index k.
RemovesAt(t, k) ==
  /\ pc'[t] = "sweep" /\ job'[t].port = Port(k) /\ job'[t].entry = 0
  /\ job'[t].library = "none" /\ job'[t].rv = "SUCCESS"
  /\ \A u \in Threads : u # t => pc'[u] = pc[u] /\ job'[u] = job[u]

\* That is what StartRemove() does.
LEMMA StartRemoveIndex ==
  ASSUME Inv, NEW t \in Hotplugs, NEW k, StartRemove(t, k)
  PROVE  RemovesAt(t, k)
<1> DEFINE j == [NoJob EXCEPT !.port = Port(k)]
<1>1. /\ pc'[t] = "sweep" /\ job'[t] = j
      /\ \A u \in Threads : u # t => pc'[u] = pc[u] /\ job'[u] = job[u]
  BY ThreadFrame DEF StartRemove, Inv, Threads
<1>2. j.port = Port(k) /\ j.entry = 0 /\ j.library = "none" /\ j.rv = "SUCCESS"
  BY DEF NoJob
<1> QED BY <1>1, <1>2 DEF RemovesAt

\* The job of a thread that starts to remove a reader.
LEMMA RemoveJobs ==
  ASSUME Inv, NEW t \in Hotplugs, NEW k \in Present, RemovesAt(t, k),
         UNCHANGED readerTracker, \A u \in Hotplugs : pc[u] = "idle"
  PROVE  /\ JobsTracked' /\ Present' = Present
         /\ \A m : ~Removing(m)
         /\ \A m \in Present : Removing(m)' <=> m = k
<1>1. Present' = Present /\ Present \subseteq Nat
  BY PresentDevice DEF Present, Indices
<1>2. \A u \in Hotplugs : u # t => pc'[u] = "idle"
  BY DEF RemovesAt, Threads
<1>3. JobsTracked'
  BY <1>1, <1>2 DEF JobsTracked, RemovesAt
<1>4. \A m : ~Removing(m)
  BY DEF Removing, Working
<1>5. \A m \in Present : Port(m) = Port(k) => m = k
  BY <1>1, PortsDiffer
<1>6. \A m \in Present : Removing(m)' <=> m = k
  BY <1>2, <1>5 DEF Removing, Working, RemovesAt
<1> QED BY <1>1, <1>3, <1>4, <1>6

\* udev tells that a device has been unplugged.
LEMMA ReceiveRemoveBus ==
  ASSUME Inv, BusInv, NEW t \in Hotplugs, ReceiveRemove(t), Alone(t)
  PROVE  BusInv'
<1>p. PICK p : p = Head(events).place
  OBVIOUS
<1> DEFINE gone == {k \in Indices : readerTracker[k].place = p}
<1>0. /\ backend \in Backends /\ JobsTracked /\ AddressesOK /\ UdevOK /\ UsbOK
      /\ Present \subseteq Nat /\ Present \subseteq Indices
      /\ \A k \in Present : readerTracker[k] \in FoundDevices
      /\ \A k \in Indices : k \in Present \/ readerTracker[k] = NoDevice
  BY PresentDevice DEF BusInv
<1>1. /\ MayStart(t) /\ pc[t] = "idle" /\ events # <<>> /\ events' = Tail(events)
      /\ Head(events).action = "remove" /\ backend = "libudev"
      /\ \/ gone # {} /\ StartRemove(t, Min(gone))
         \/ gone = {} /\ UNCHANGED <<pc, job>>
      /\ UNCHANGED <<backend, plugged, address, readerTracker, scan, refused>>
  BY <1>p DEF ReceiveRemove, MayStart, Busy
<1>2. \A u \in Hotplugs : pc[u] = "idle"
  BY <1>1 DEF Alone
<1>3. /\ Len(events) \in Nat /\ Len(events') = Len(events) - 1
      /\ Head(events) = events[1] /\ 1 \in 1..Len(events)
      /\ \A i \in 1..Len(events') : events'[i] = events[i + 1]
      /\ \A i \in 1..Len(events) : i = 1 \/ (i - 1 \in 1..Len(events') /\ events'[i - 1] = events[i])
      /\ Head(events) \in EventRecords
  BY <1>1, TailEvents
<1>4. p \in Places /\ p # "none" /\ p = events[1].place
  BY <1>p, <1>3, HotplugAssumption DEF EventRecords
<1>5. gone \subseteq Present /\ \A k \in Present : readerTracker[k].place = p => k \in gone
  <2>1. NoDevice.place = "none"
    BY DEF NoDevice
  <2> QED BY <1>0, <1>4, <2>1
<1>6. PlacesApart /\ AddAfterRemove /\ GoneIsTold /\ NewIsTold
  BY <1>0, <1>1 DEF UdevOK
<1>7. /\ \A q : q # p /\ Pending("remove", q) => Pending("remove", q)'
      /\ \A q : Pending("add", q) => Pending("add", q)'
      /\ plugged[p] # 0 => Pending("add", p)'
  <2>1. \A q : q # p /\ Pending("remove", q) => Pending("remove", q)'
    BY <1>1, <1>3, <1>4 DEF Pending
  <2>2. \A q : Pending("add", q) => Pending("add", q)'
    BY <1>1, <1>3 DEF Pending
  <2>3. plugged[p] # 0 => Pending("add", p)
    BY <1>1, <1>3, <1>4, <1>6 DEF AddAfterRemove, Pending
  <2> QED BY <2>1, <2>2, <2>3
<1>8. AddAfterRemove'
  <2> SUFFICES ASSUME NEW i \in 1..Len(events'),
                      events'[i].action = "remove", plugged[events'[i].place] # 0
               PROVE  \E j \in 1..Len(events') :
                        /\ i < j /\ events'[j].action = "add"
                        /\ events'[j].place = events'[i].place
    BY <1>1 DEF AddAfterRemove
  <2>1. i + 1 \in 1..Len(events) /\ events'[i] = events[i + 1]
    BY <1>3
  <2>2. PICK j \in 1..Len(events) :
          /\ i + 1 < j /\ events[j].action = "add"
          /\ events[j].place = events[i + 1].place
    BY <1>6, <2>1 DEF AddAfterRemove
  <2>3. j - 1 \in 1..Len(events') /\ events'[j - 1] = events[j] /\ i < j - 1
    BY <1>3, <2>2
  <2> QED BY <2>1, <2>2, <2>3
<1> HIDE DEF gone
<1>9. /\ JobsTracked' /\ Present' = Present
      /\ \A m : ~Removing(m)
      /\ \A m \in Present : Removing(m)' => readerTracker[m].place = p
      /\ \A m \in Present : readerTracker[m].place = p => Removing(m)'
  <2>1. CASE gone # {} /\ StartRemove(t, Min(gone))
    <3>1. PICK k : k = Min(gone)
      OBVIOUS
    <3>2. k \in gone
      BY <1>0, <1>5, <2>1, <3>1, MinNat
    <3>3. k \in Present /\ readerTracker[k].place = p
      BY <1>5, <3>2 DEF gone
    <3>4. RemovesAt(t, k)
      BY <2>1, <3>1, StartRemoveIndex
    <3>5. /\ JobsTracked' /\ Present' = Present
          /\ \A m : ~Removing(m)
          /\ \A m \in Present : Removing(m)' <=> m = k
      BY <1>1, <1>2, <3>3, <3>4, RemoveJobs
    <3> QED BY <1>6, <3>3, <3>5 DEF PlacesApart
  <2>2. CASE gone = {} /\ UNCHANGED <<pc, job>>
    <3>1. Present' = Present
      BY <1>1 DEF Present, Indices
    <3> QED BY <1>0, <1>1, <1>2, <1>5, <2>2, <3>1
            DEF JobsTracked, Removing, Working
  <2> QED BY <1>1, <2>1, <2>2
<1>10. AddressesOK' /\ PlacesApart'
  BY <1>0, <1>1, <1>6, <1>9 DEF AddressesOK, PlacesApart
<1>11. GoneIsTold'
  <2> SUFFICES ASSUME NEW k \in Present
               PROVE  \/ Removing(k)'
                      \/ plugged[readerTracker[k].place] = readerTracker[k].address
                      \/ Pending("remove", readerTracker[k].place)'
    BY <1>1, <1>9 DEF GoneIsTold
  <2>1. CASE readerTracker[k].place = p
    BY <1>9, <2>1
  <2>2. CASE readerTracker[k].place # p
    BY <1>1, <1>6, <1>7, <1>9, <2>2 DEF GoneIsTold
  <2> QED BY <2>1, <2>2
<1>12. NewIsTold'
  <2> SUFFICES ASSUME NEW q \in Places
               PROVE  \/ plugged[q] \in refused \cup {0}
                      \/ \E k \in Present : readerTracker[k].place = q /\ ~Removing(k)'
                      \/ Pending("add", q)'
    BY <1>1, <1>9 DEF NewIsTold
  <2>1. CASE q = p
    BY <1>7, <2>1
  <2>2. CASE q # p
    BY <1>6, <1>7, <1>9, <2>2 DEF NewIsTold
  <2> QED BY <2>1, <2>2
<1> QED BY <1>0, <1>1, <1>8, <1>9, <1>10, <1>11, <1>12 DEF BusInv, UdevOK, UsbOK

\* A scan of the bus starts.
LEMMA ScanDevicesBus ==
  ASSUME Inv, BusInv, NEW t \in Hotplugs, ScanDevices(t), Alone(t)
  PROVE  BusInv'
<1> DEFINE s == [active |-> TRUE, todo |-> OnBus, found |-> OnBus]
<1>0. /\ backend \in Backends /\ JobsTracked /\ AddressesOK /\ UdevOK /\ UsbOK
      /\ plugged \in [Places -> Nat] /\ scan \in [Hotplugs -> ScanRecords]
  BY DEF BusInv, Inv, HotplugTypes
<1>1. /\ MayStart(t) /\ pc[t] = "idle" /\ scan' = [scan EXCEPT ![t] = s]
      /\ UNCHANGED <<pc, job, backend, plugged, address, events,
                     readerTracker, refused>>
  BY DEF ScanDevices, MayStart, Busy, OnBus
<1>2. \A u \in Hotplugs : pc[u] = "idle"
  BY <1>1 DEF Alone
<1>3. /\ scan'[t].todo = OnBus /\ scan'[t].found = OnBus
      /\ \A u \in Hotplugs : u # t => scan'[u] = scan[u]
  BY <1>0, <1>1
<1>4. Present' = Present
  BY <1>1 DEF Present, Indices
<1>5. JobsTracked'
  BY <1>0, <1>1, <1>4 DEF JobsTracked
<1>6. AddressesOK'
  <2>1. \A d \in OnBus : d.address # 0
    BY DEF OnBus, Device
  <2> QED BY <1>0, <1>1, <1>3, <1>4, <2>1 DEF AddressesOK
<1>7. UdevOK'
  BY <1>0, <1>1, UdevFrame
<1>8. ASSUME backend = "libusb"
      PROVE  AddressesApart' /\ ScanTracked' /\ FoundIsKept'
  <2>1. AddressesApart /\ ScanTracked
    BY <1>0, <1>8 DEF UsbOK
  <2>2. OnBus' = OnBus
    BY <1>1 DEF OnBus, Device
  <2>3. Scanned' \subseteq Scanned \cup OnBus
    <3> SUFFICES ASSUME NEW u \in Hotplugs, NEW d \in scan'[u].found
                 PROVE  d \in Scanned \cup OnBus
      BY DEF Scanned
    <3> QED BY <1>3 DEF Scanned
  <2>4. Known' \subseteq Known
    BY <1>1, <1>4, <2>2, <2>3 DEF Known
  <2>5. AddressesApart'
    BY <1>1, <2>1, <2>4 DEF AddressesApart
  <2>6. ScanTracked'
    BY <1>1, <1>3, <1>4, <2>1 DEF ScanTracked
  <2>7. FoundIsKept'
    BY <1>1, <1>2 DEF FoundIsKept, Working
  <2> QED BY <2>5, <2>6, <2>7
<1> QED BY <1>0, <1>1, <1>5, <1>6, <1>7, <1>8 DEF BusInv, UsbOK

\* A scan of the bus ends, or libusb removes a reader it has not found.
LEMMA ScanDoneBus ==
  ASSUME Inv, BusInv, NEW t \in Hotplugs, ScanDone(t)
  PROVE  BusInv'
<1> DEFINE absent == IF backend = "libusb" THEN AbsentDevices(t) ELSE {}
<1>0. /\ backend \in Backends /\ JobsTracked /\ AddressesOK /\ UdevOK /\ UsbOK
      /\ scan \in [Hotplugs -> ScanRecords]
      /\ Present \subseteq Nat
      /\ \A k \in Indices : k \in Present \/ readerTracker[k] = NoDevice
  BY PresentDevice DEF BusInv, Inv, HotplugTypes
<1>1. /\ pc[t] = "idle" /\ scan[t].active
      /\ \/ /\ absent # {}
            /\ StartRemove(t, Min(absent))
            /\ UNCHANGED scan
         \/ /\ absent = {}
            /\ scan' = [scan EXCEPT ![t] = NoScan]
            /\ UNCHANGED <<pc, job>>
      /\ UNCHANGED <<backend, plugged, address, events, readerTracker, refused>>
  BY DEF ScanDone
<1>2. Busy(t)
  BY <1>1 DEF Busy, NoScan
<1>3. \A u \in Hotplugs : pc[u] = "idle"
  BY <1>1, <1>2, OthersRest DEF Alone
<1>4. /\ absent \subseteq Present
      /\ \A k \in absent : backend = "libusb" /\ readerTracker[k] \notin scan[t].found
  BY <1>0 DEF AbsentDevices
<1> HIDE DEF absent
<1>5. CASE absent # {} /\ StartRemove(t, Min(absent)) /\ UNCHANGED scan
  <2>1. PICK k : k = Min(absent)
    OBVIOUS
  <2>2. k \in absent
    BY <1>0, <1>4, <1>5, <2>1, MinNat
  <2>3. k \in Present /\ backend = "libusb" /\ readerTracker[k] \notin scan[t].found
    BY <1>4, <2>2
  <2>4. RemovesAt(t, k)
    BY <1>5, <2>1, StartRemoveIndex
  <2>5. JobsTracked' /\ Present' = Present
        /\ \A m \in Present : Removing(m)' <=> m = k
    BY <1>1, <1>3, <2>3, <2>4, RemoveJobs
  <2>6. AddressesOK'
    BY <1>0, <1>1, <1>5, <2>5 DEF AddressesOK
  <2>7. OnBus' = OnBus /\ Scanned' = Scanned /\ Known' = Known
    BY <1>1, <1>5, <2>5 DEF OnBus, Device, Scanned, Known
  <2>8. AddressesApart' /\ ScanTracked'
    BY <1>0, <1>1, <1>5, <2>3, <2>5, <2>7 DEF UsbOK, AddressesApart, ScanTracked
  <2>9. FoundIsKept'
    <3> SUFFICES ASSUME NEW u \in Hotplugs, NEW m \in Present, Working(u, m)',
                        job'[u].library = "none"
                 PROVE  readerTracker[m] \notin scan[u].found
      BY <1>1, <1>5, <2>5 DEF FoundIsKept
    <3>1. u = t
      BY <1>3, <2>4 DEF Working, RemovesAt, Threads
    <3>2. m = k
      BY <2>5 DEF Removing
    <3> QED BY <2>3, <3>1, <3>2
  <2> QED BY <1>0, <1>1, <2>3, <2>5, <2>6, <2>8, <2>9 DEF BusInv, UdevOK, UsbOK
<1>6. CASE scan' = [scan EXCEPT ![t] = NoScan] /\ UNCHANGED <<pc, job>>
  <2>1. Present' = Present
    BY <1>1 DEF Present, Indices
  <2>2. /\ scan'[t].found = {} /\ scan'[t].todo = {}
        /\ \A u \in Hotplugs : u # t => scan'[u] = scan[u]
    BY <1>0, <1>6 DEF NoScan
  <2>3. JobsTracked' /\ AddressesOK'
    BY <1>0, <1>1, <1>6, <2>1, <2>2 DEF JobsTracked, AddressesOK
  <2>4. UdevOK'
    BY <1>0, <1>1, <1>6, UdevFrame
  <2>5. UsbOK'
    <3>1. OnBus' = OnBus /\ Scanned' \subseteq Scanned
      <4>1. OnBus' = OnBus
        BY <1>1 DEF OnBus, Device
      <4>2. \A u \in Hotplugs : scan'[u].found \subseteq scan[u].found
        BY <2>2
      <4> QED BY <4>1, <4>2 DEF Scanned
    <3>2. Known' \subseteq Known
      BY <1>1, <2>1, <3>1 DEF Known
    <3>3. AddressesApart => AddressesApart'
      BY <1>1, <3>2 DEF AddressesApart
    <3>4. ScanTracked => ScanTracked'
      BY <1>1, <2>1, <2>2 DEF ScanTracked
    <3>5. FoundIsKept'
      BY <1>3, <1>6 DEF FoundIsKept, Working
    <3> QED BY <1>0, <1>1, <3>3, <3>4, <3>5 DEF UsbOK
  <2> QED BY <1>0, <1>1, <2>3, <2>4, <2>5 DEF BusInv
<1> QED BY <1>1, <1>5, <1>6

\* The index of the device that thread t works on, and what happens when the
\* thread is done and the tracker may forget the device.
DoneAt(t, k) ==
  /\ k \in Present /\ k = IndexOf(t) /\ job[t].port = Port(k)
  /\ job[t].library # "none" => job[t].device = <<readerTracker[k].address>>
  /\ \A m \in Present : m # k => \A u \in Hotplugs : ~Working(u, m)
  /\ pc'[t] = "idle"
  /\ \A u \in Threads : u # t => pc'[u] = pc[u] /\ job'[u] = job[u]
  /\ \A u \in Hotplugs : pc'[u] = "idle"
  /\ \A u \in Hotplugs : u # t => pc[u] = "idle" /\ scan[u] = NoScan

\* There is such an index.
LEMMA DoneIndex ==
  ASSUME Inv, BusInv, NEW t \in Hotplugs, pc[t] # "idle",
         Goto(t, "idle"), SetJob(t, NoJob)
  PROVE  \E k : DoneAt(t, k)
<1>1. PICK k \in Present :
        /\ job[t].port = Port(k)
        /\ job[t].library # "none" => job[t].device = <<readerTracker[k].address>>
  BY DEF BusInv, JobsTracked
<1>2. Present \subseteq Nat
  BY PresentDevice
<1>3. k = IndexOf(t)
  BY <1>1, <1>2, PortsDiffer DEF IndexOf
<1>4. \A u \in Hotplugs : u # t => pc[u] = "idle" /\ scan[u] = NoScan
  BY OthersRest DEF Busy, Alone
<1>5. /\ pc'[t] = "idle"
      /\ \A u \in Threads : u # t => pc'[u] = pc[u] /\ job'[u] = job[u]
  BY ThreadFrame DEF Inv, Threads
<1>6. \A u \in Hotplugs : pc'[u] = "idle"
  BY <1>4, <1>5 DEF Threads
<1>7. \A m \in Present : m # k => \A u \in Hotplugs : ~Working(u, m)
  <2>1. \A m \in Present : Port(m) = Port(k) => m = k
    BY <1>2, PortsDiffer
  <2> QED BY <1>1, <1>4, <2>1 DEF Working
<1> QED BY <1>1, <1>3, <1>4, <1>5, <1>6, <1>7 DEF DoneAt

\* The tracker forgets the device at index k.
LEMMA ForgetIndex ==
  ASSUME Inv, NEW k \in Present,
         readerTracker' = [readerTracker EXCEPT ![k] = NoDevice]
  PROVE  /\ Present' = Present \ {k}
         /\ \A m \in Present : m # k => readerTracker'[m] = readerTracker[m]
<1>1. Present \subseteq Indices /\ DOMAIN readerTracker = Indices
  BY PresentDevice DEF Indices
<1>2. DOMAIN readerTracker' = Indices /\ readerTracker'[k] = NoDevice
      /\ \A m \in Indices : m # k => readerTracker'[m] = readerTracker[m]
  BY <1>1
<1>3. Indices' = Indices
  BY <1>2 DEF Indices
<1> QED BY <1>1, <1>2, <1>3 DEF Present

\* Nobody is at work once thread t is done.
LEMMA DoneJobs ==
  ASSUME NEW t \in Hotplugs, NEW k, DoneAt(t, k)
  PROVE  JobsTracked' /\ (\A m : ~Removing(m)') /\ FoundIsKept'
BY DEF DoneAt, JobsTracked, Removing, Working, FoundIsKept

\* RFRemoveReader() has returned and the device is forgotten.
LEMMA RemoveDoneBus ==
  ASSUME Inv, BusInv, NEW t \in Hotplugs, RemoveDone(t), job[t].library = "none"
  PROVE  BusInv'
<1>0. /\ backend \in Backends /\ AddressesOK /\ UdevOK /\ UsbOK
      /\ scan \in [Hotplugs -> ScanRecords]
  BY DEF BusInv, Inv, HotplugTypes
<1>1. /\ pc[t] = "removed" /\ Goto(t, "idle") /\ SetJob(t, NoJob)
      /\ readerTracker' = [readerTracker EXCEPT ![IndexOf(t)] = NoDevice]
      /\ UNCHANGED <<backend, plugged, address, events, scan, refused>>
  BY DEF RemoveDone
<1>2. PICK k : DoneAt(t, k)
  BY <1>1, DoneIndex
<1>3. /\ k \in Present /\ k = IndexOf(t) /\ job[t].port = Port(k)
      /\ \A m \in Present : m # k => ~Removing(m)
      /\ \A u \in Hotplugs : u # t => scan[u] = NoScan
  BY <1>2 DEF DoneAt, Removing
<1>4. /\ Present' = Present \ {k}
      /\ \A m \in Present : m # k => readerTracker'[m] = readerTracker[m]
  BY <1>1, <1>3, ForgetIndex
<1>5. JobsTracked' /\ (\A m : ~Removing(m)') /\ FoundIsKept'
  BY <1>2, DoneJobs
<1>6. AddressesOK'
  BY <1>0, <1>1, <1>4 DEF AddressesOK
<1>7. \A a, p : Pending(a, p)' <=> Pending(a, p)
  BY <1>1 DEF Pending
<1>8. Removing(k)
  BY <1>1, <1>3 DEF Removing, Working
<1>9. ASSUME backend = "libudev"
      PROVE  PlacesApart' /\ AddAfterRemove' /\ GoneIsTold' /\ NewIsTold'
  <2>0. PlacesApart /\ AddAfterRemove /\ GoneIsTold /\ NewIsTold
    BY <1>0, <1>9 DEF UdevOK
  <2>1. PlacesApart' /\ AddAfterRemove'
    BY <1>1, <1>4, <2>0 DEF PlacesApart, AddAfterRemove
  <2>2. GoneIsTold'
    <3> SUFFICES ASSUME NEW m \in Present, m # k
                 PROVE  \/ plugged[readerTracker[m].place] = readerTracker[m].address
                        \/ Pending("remove", readerTracker[m].place)
      BY <1>1, <1>4, <1>7 DEF GoneIsTold
    <3> QED BY <1>3, <2>0 DEF GoneIsTold
  <2>3. NewIsTold'
    <3> SUFFICES ASSUME NEW q \in Places
                 PROVE  \/ plugged[q] \in refused \cup {0}
                        \/ \E m \in Present \ {k} : readerTracker[m].place = q
                        \/ Pending("add", q)
      BY <1>1, <1>4, <1>5, <1>7 DEF NewIsTold
    <3> QED BY <1>8, <2>0 DEF NewIsTold
  <2> QED BY <2>1, <2>2, <2>3
<1>10. ASSUME backend = "libusb"
       PROVE  AddressesApart' /\ ScanTracked'
  <2>0. AddressesApart /\ ScanTracked /\ FoundIsKept
    BY <1>0, <1>10 DEF UsbOK
  <2>1. OnBus' = OnBus /\ Scanned' = Scanned
    BY <1>1 DEF OnBus, Device, Scanned
  <2>2. Known' \subseteq Known
    BY <1>4, <2>1 DEF Known
  <2>3. AddressesApart'
    BY <1>1, <2>0, <2>2 DEF AddressesApart
  <2>4. ScanTracked'
    <3> SUFFICES ASSUME NEW u \in Hotplugs, NEW d \in scan[u].found,
                        d \notin scan[u].todo
                 PROVE  \E m \in Present \ {k} : readerTracker[m] = d
      BY <1>1, <1>4 DEF ScanTracked
    <3>1. u = t
      BY <1>3 DEF NoScan
    <3>2. readerTracker[k] \notin scan[t].found
      BY <1>1, <1>3, <2>0 DEF FoundIsKept, Working
    <3> QED BY <2>0, <3>1, <3>2 DEF ScanTracked
  <2> QED BY <2>3, <2>4
<1> QED BY <1>0, <1>1, <1>5, <1>6, <1>9, <1>10 DEF BusInv, UdevOK, UsbOK

\* RFAddReader() has returned, and the device is kept or forgotten.
LEMMA AddDoneBus ==
  ASSUME Inv, BusInv, NEW t \in Hotplugs, AddDone(t)
  PROVE  BusInv'
<1>0. /\ backend \in Backends /\ AddressesOK /\ UdevOK /\ UsbOK
      /\ scan \in [Hotplugs -> ScanRecords]
      /\ Present \subseteq Nat /\ \A k \in Present : readerTracker[k] \in FoundDevices
  BY PresentDevice DEF BusInv, Inv, HotplugTypes
<1>1. /\ pc[t] = "added" /\ Goto(t, "idle") /\ SetJob(t, NoJob)
      /\ readerTracker' =
           IF backend = "libudev" /\ job[t].rv # "SUCCESS"
           THEN [readerTracker EXCEPT ![IndexOf(t)] = NoDevice] ELSE readerTracker
      /\ refused' = IF job[t].rv = "SUCCESS" THEN refused
                                             ELSE refused \cup {job[t].device[1]}
      /\ UNCHANGED <<backend, plugged, address, events, scan>>
  BY DEF AddDone, AfterAdd
<1>2. PICK k : DoneAt(t, k)
  BY <1>1, DoneIndex
<1>3. job[t].library # "none"
  BY <1>1, HotplugAssumption DEF Inv, WorkOK, Threads
<1>4. /\ k \in Present /\ k = IndexOf(t) /\ job[t].port = Port(k)
      /\ job[t].device = <<readerTracker[k].address>>
      /\ \A m : ~Removing(m) \/ m \notin Present
  <2>1. \A u \in Hotplugs : u # t => pc[u] = "idle"
    BY <1>2 DEF DoneAt
  <2>2. \A m : ~Removing(m)
    BY <1>3, <2>1 DEF Removing, Working
  <2> QED BY <1>2, <1>3, <2>2 DEF DoneAt
<1>5. JobsTracked' /\ (\A m : ~Removing(m)') /\ FoundIsKept'
  BY <1>2, DoneJobs
<1>6. \A a, p : Pending(a, p)' <=> Pending(a, p)
  BY <1>1 DEF Pending
<1>7. refused \subseteq refused' /\ AddAfterRemove' <=> AddAfterRemove
  BY <1>1 DEF AddAfterRemove
<1>8. CASE readerTracker' = readerTracker
  <2>1. Present' = Present
    BY <1>8 DEF Present, Indices
  <2>2. AddressesOK'
    BY <1>0, <1>1, <1>8, <2>1 DEF AddressesOK
  <2>3. UdevOK'
    <3>1. PlacesApart' <=> PlacesApart
      BY <1>8, <2>1 DEF PlacesApart
    <3>2. GoneIsTold => GoneIsTold'
      BY <1>1, <1>4, <1>6, <1>8, <2>1 DEF GoneIsTold
    <3>3. NewIsTold => NewIsTold'
      BY <1>1, <1>5, <1>6, <1>7, <1>8, <2>1 DEF NewIsTold
    <3> QED BY <1>0, <1>1, <1>7, <3>1, <3>2, <3>3 DEF UdevOK
  <2>4. UsbOK'
    <3>1. OnBus' = OnBus /\ Scanned' = Scanned
      BY <1>1 DEF OnBus, Device, Scanned
    <3>2. Known' = Known
      BY <1>8, <2>1, <3>1 DEF Known
    <3>3. AddressesApart' <=> AddressesApart
      BY <1>1, <3>2 DEF AddressesApart
    <3>4. ScanTracked' <=> ScanTracked
      BY <1>1, <1>8, <2>1 DEF ScanTracked
    <3> QED BY <1>0, <1>1, <1>5, <3>3, <3>4 DEF UsbOK
  <2> QED BY <1>0, <1>1, <1>5, <2>2, <2>3, <2>4 DEF BusInv
<1>9. CASE /\ backend = "libudev" /\ job[t].rv # "SUCCESS"
           /\ readerTracker' = [readerTracker EXCEPT ![k] = NoDevice]
  <2>1. /\ Present' = Present \ {k}
        /\ \A m \in Present : m # k => readerTracker'[m] = readerTracker[m]
    BY <1>4, <1>9, ForgetIndex
  <2>2. AddressesOK'
    BY <1>0, <1>1, <2>1 DEF AddressesOK
  <2>3. refused' = refused \cup {readerTracker[k].address}
    BY <1>1, <1>4, <1>9
  <2>4. PlacesApart /\ AddAfterRemove /\ GoneIsTold /\ NewIsTold
    BY <1>0, <1>9 DEF UdevOK
  <2>5. PlacesApart' /\ AddAfterRemove'
    BY <1>1, <2>1, <2>4 DEF PlacesApart, AddAfterRemove
  <2>6. GoneIsTold'
    <3> SUFFICES ASSUME NEW m \in Present, m # k
                 PROVE  \/ plugged[readerTracker[m].place] = readerTracker[m].address
                        \/ Pending("remove", readerTracker[m].place)
      BY <1>1, <1>6, <2>1 DEF GoneIsTold
    <3> QED BY <1>4, <2>4 DEF GoneIsTold
  <2>7. NewIsTold'
    <3> SUFFICES ASSUME NEW q \in Places
                 PROVE  \/ plugged[q] \in refused' \cup {0}
                        \/ \E m \in Present \ {k} : readerTracker[m].place = q
                        \/ Pending("add", q)
      BY <1>1, <1>5, <1>6, <2>1 DEF NewIsTold
    <3>1. CASE readerTracker[k].place = q
      <4>1. Pending("remove", q) /\ plugged[q] # 0 => Pending("add", q)
        BY <2>4 DEF Pending, AddAfterRemove
      <4>2. \/ plugged[q] = readerTracker[k].address
            \/ Pending("remove", q)
        BY <1>4, <2>4, <3>1 DEF GoneIsTold
      <4> QED BY <2>3, <4>1, <4>2
    <3>2. CASE readerTracker[k].place # q
      BY <1>7, <2>4, <3>2 DEF NewIsTold
    <3> QED BY <3>1, <3>2
  <2> QED BY <1>0, <1>1, <1>5, <1>9, <2>2, <2>5, <2>6, <2>7 DEF BusInv, UdevOK, UsbOK
<1> QED BY <1>1, <1>4, <1>8, <1>9

-----------------------------------------------------------------------------
\* The readers: frames

\* An idle thread has no port.
LEMMA IdlePort ==
  ASSUME NEW t, pc'[t] = "idle"
  PROVE  PortOK(t)'
BY DEF PortOK, Adding, Sweeping, Dropping

\* The reader of entry i stays, or thread t works on its port.
ReaderStays(t, i) ==
  \/ /\ Alive(i)' <=> Alive(i)
     /\ Alive(i) => reader'[i].port = reader[i].port
  \/ /\ Alive(i) => reader[i].port = job[t].port
     /\ Alive(i)' => reader'[i].port = job[t].port

\* A reader that has lost its last reference in a step of thread t is closed by
\* it, and the others by whom they were.
LastStays(t) ==
  /\ Closing(t) => \/ Closing(t)' /\ job'[t].entry = job[t].entry
                   \/ ~reader'[job[t].entry].vHandle
  /\ \A i \in Entries : reader'[i].vHandle /\ reader'[i].reference = 0 =>
       \/ reader[i].vHandle /\ reader[i].reference = 0
       \/ Closing(t)' /\ job'[t].entry = i

\* Readers without references go on being closed.
LEMMA LastFrame ==
  ASSUME LastIsClosing, NEW t \in Threads, LastStays(t),
         \A u \in Threads : u # t => pc'[u] = pc[u] /\ job'[u] = job[u]
  PROVE  LastIsClosing'
<1> SUFFICES ASSUME NEW i \in Entries, reader'[i].vHandle, reader'[i].reference = 0
             PROVE  \E u \in Threads : Closing(u)' /\ job'[u].entry = i
  BY DEF LastIsClosing
<1>1. CASE Closing(t)' /\ job'[t].entry = i
  BY <1>1
<1>2. CASE reader[i].vHandle /\ reader[i].reference = 0
  <2>1. PICK u \in Threads : Closing(u) /\ job[u].entry = i
    BY <1>2 DEF LastIsClosing
  <2>2. CASE u = t
    BY <2>1, <2>2 DEF LastStays
  <2>3. CASE u # t
    BY <2>1, <2>3 DEF Closing
  <2> QED BY <2>2, <2>3
<1> QED BY <1>1, <1>2 DEF LastStays

\* The readers that have not been removed stay, and so do the ports.
ReadersStay ==
  \A i \in Entries : /\ Alive(i)' <=> Alive(i)
                     /\ i \in Live => reader'[i].port = reader[i].port

\* A step of a server thread or of an event thread.
LEMMA ClientFrame ==
  ASSUME Inv, BusInv, ReadersInv, UNCHANGED hotplugVars,
         \A t \in Hotplugs : pc'[t] = pc[t] /\ job'[t] = job[t],
         ReadersStay, LastIsClosing'
  PROVE  BusInv' /\ ReadersInv'
<1>1. BusInv' /\ Present' = Present
  BY WorkFrame DEF SameWork
<1>a. \A i \in Entries : /\ Alive(i)' <=> Alive(i)
                         /\ Alive(i) => reader'[i].port = reader[i].port
  BY DEF ReadersStay, Alive, Live
<1>2. \A port : HasReader(port)' <=> HasReader(port)
  BY <1>a DEF HasReader
<1>3. ReadersTracked'
  BY <1>1, <1>a DEF ReadersInv, ReadersTracked
<1>4. TrackedHasReader'
  BY <1>1, <1>2 DEF ReadersInv, TrackedHasReader, Working
<1>5. ASSUME NEW t \in Hotplugs PROVE PortOK(t)'
  <2>0. PortOK(t) /\ WorkOK(t)
    BY DEF ReadersInv, Inv, Threads
  <2>1. /\ Adding(t)' <=> Adding(t)
        /\ Sweeping(t)' <=> Sweeping(t)
        /\ Dropping(t)' <=> Dropping(t)
    BY DEF Adding, Sweeping, Dropping
  <2>2. pc[t] \in {"load", "open"} =>
          reader'[job[t].entry].port = reader[job[t].entry].port
    <3>1. pc[t] \in {"load", "open"} => job[t].entry \in Live
      BY <2>0 DEF WorkOK, Live, Loading
    <3> QED BY <3>1 DEF ReadersStay, Live
  <2>3. Adding(t) => reader'[job[t].first].port = reader[job[t].first].port
    <3>1. Adding(t) => job[t].first \in Live
      BY <2>0 DEF WorkOK, Live, Loading
    <3> QED BY <3>1 DEF ReadersStay, Live
  <2>4. \A i \in Entries : Alive(i)' => Alive(i) /\ reader'[i].port = reader[i].port
    BY <1>a
  <2>5. Dropping(t) => job[t].entry \in Entries
    BY <2>0 DEF WorkOK, Dropping, Closing
  <2>6. Dropping(t) => ~Alive(job[t].entry)'
    BY <1>a, <2>0, <2>5 DEF PortOK
  <2> QED BY <1>2, <2>0, <2>1, <2>2, <2>3, <2>4, <2>6 DEF PortOK
<1> QED BY <1>1, <1>3, <1>4, <1>5 DEF ReadersInv

\* A step of a hotplug thread that is adding or removing a reader.
PortStep(t, step, j) ==
  /\ Goto(t, step) /\ SetJob(t, j)
  /\ pc[t] # "idle" /\ step # "idle"
  /\ j.port = job[t].port /\ j.device = job[t].device
  /\ j.library = "none" <=> job[t].library = "none"

\* The other threads stay as they are, and the work is the same.
LEMMA PortStepWork ==
  ASSUME Inv, NEW t \in Hotplugs, NEW step, NEW j, PortStep(t, step, j)
  PROVE  /\ pc'[t] = step /\ job'[t] = j
         /\ \A u \in Threads : u # t => pc'[u] = pc[u] /\ job'[u] = job[u]
         /\ \A u \in Hotplugs : u # t => pc'[u] = "idle"
         /\ \A u \in Hotplugs : SameWork(u)
<1>1. /\ pc'[t] = step /\ job'[t] = j
      /\ \A u \in Threads : u # t => pc'[u] = pc[u] /\ job'[u] = job[u]
  BY ThreadFrame DEF PortStep, Inv, Threads
<1>2. \A u \in Hotplugs : u # t => pc[u] = "idle"
  BY OthersRest DEF Busy, PortStep, Alone
<1>3. \A u \in Hotplugs : u \in Threads
  BY DEF Threads
<1>4. \A u \in Hotplugs : SameWork(u)
  BY <1>1, <1>3 DEF SameWork, PortStep
<1> QED BY <1>1, <1>2, <1>3, <1>4

\* The port of the thread apart, the readers are as before.
LEMMA PortFrame ==
  ASSUME Inv, BusInv, ReadersInv, NEW t \in Hotplugs, NEW step, NEW j,
         PortStep(t, step, j), UNCHANGED hotplugVars,
         \A i \in Entries : ReaderStays(t, i), LastStays(t), PortOK(t)'
  PROVE  BusInv' /\ ReadersInv'
<1>1. /\ pc'[t] = step /\ job'[t] = j
      /\ \A u \in Threads : u # t => pc'[u] = pc[u] /\ job'[u] = job[u]
      /\ \A u \in Hotplugs : u # t => pc'[u] = "idle"
      /\ \A u \in Hotplugs : SameWork(u)
  BY PortStepWork
<1>2. BusInv' /\ Present' = Present
  BY <1>1, WorkFrame
<1>3. \A k : Working(t, k)' <=> job[t].port = Port(k)
  BY <1>1 DEF Working, PortStep
<1>4. ReadersTracked'
  <2> SUFFICES ASSUME NEW i \in Entries, Alive(i)'
               PROVE  \E k \in Present : reader'[i].port = Port(k)
    BY <1>2 DEF ReadersTracked
  <2>1. CASE Alive(i) /\ reader'[i].port = reader[i].port
    BY <2>1 DEF ReadersInv, ReadersTracked
  <2>2. CASE reader'[i].port = job[t].port
    BY <2>2 DEF BusInv, JobsTracked, PortStep
  <2> QED BY <2>1, <2>2 DEF ReaderStays
<1>5. TrackedHasReader'
  <2> SUFFICES ASSUME NEW k \in Present
               PROVE  \/ \E u \in Hotplugs : Working(u, k)'
                      \/ backend # "libudev" /\ readerTracker[k].address \in refused
                      \/ HasReader(Port(k))'
    BY <1>2 DEF TrackedHasReader
  <2>1. CASE \E u \in Hotplugs : Working(u, k)
    BY <1>1, <2>1 DEF Working, SameWork
  <2>2. CASE HasReader(Port(k))
    <3>1. PICK i \in Entries : Alive(i) /\ reader[i].port = Port(k)
      BY <2>2 DEF HasReader
    <3>2. CASE Alive(i)' /\ reader'[i].port = reader[i].port
      BY <3>1, <3>2 DEF HasReader
    <3>3. CASE reader[i].port = job[t].port
      BY <1>3, <3>1, <3>3
    <3> QED BY <3>1, <3>2, <3>3 DEF ReaderStays
  <2> QED BY <2>1, <2>2 DEF ReadersInv, TrackedHasReader
<1>6. LastIsClosing'
  BY <1>1, LastFrame DEF ReadersInv, Threads
<1>7. \A u \in Hotplugs : PortOK(u)'
  BY <1>1, IdlePort
<1> QED BY <1>2, <1>4, <1>5, <1>6, <1>7 DEF ReadersInv

-----------------------------------------------------------------------------
\* The readers: server threads, event threads and the end of a reader

\* Nothing changes that the invariant says of entry i.
SameLife(i) ==
  /\ reader'[i].vHandle = reader[i].vHandle
  /\ reader'[i].removed = reader[i].removed
  /\ reader'[i].reference = reader[i].reference
  /\ reader'[i].port = reader[i].port

\* A step of a client that finds, takes or gives up a reader.
LEMMA ClientDevice ==
  ASSUME DeviceInv, NEW c \in Clients, NEW step, NEW j, Goto(c, step), SetJob(c, j),
         ~Closing(c), UNCHANGED hotplugVars, ReadersStay,
         \A i \in Entries : reader'[i].vHandle /\ reader'[i].reference = 0 =>
           \/ reader[i].vHandle /\ reader[i].reference = 0
           \/ step = "reread" /\ j.entry = i
  PROVE  BusInv' /\ ReadersInv'
<1>0. /\ Inv /\ BusInv /\ ReadersInv /\ LifecycleTypes /\ c \in Threads
      /\ c \notin Hotplugs /\ Hotplugs \subseteq Threads
  BY LifecycleAssumption DEF DeviceInv, Inv, Threads
<1>1. /\ pc'[c] = step /\ job'[c] = j
      /\ \A u \in Threads : u # c => pc'[u] = pc[u] /\ job'[u] = job[u]
  BY <1>0, ThreadFrame
<1>2. LastStays(c)
  BY <1>1 DEF LastStays, Closing
<1>3. LastIsClosing'
  BY <1>0, <1>1, <1>2, LastFrame DEF ReadersInv
<1> QED BY <1>0, <1>1, <1>3, ClientFrame

\* A command finds its reader.
LEMMA RFReaderInfoDevice ==
  ASSUME DeviceInv, NEW c \in Clients, NEW i \in Entries, RFReaderInfo(c, i),
         UNCHANGED hotplugVars
  PROVE  BusInv' /\ ReadersInv'
<1>1. /\ Goto(c, "found") /\ SetJob(c, [NoJob EXCEPT !.entry = i])
      /\ UNCHANGED reader /\ ~Closing(c)
  BY DEF RFReaderInfo, Closing
<1>2. ReadersStay
  BY <1>1 DEF ReadersStay, Alive
<1> QED BY <1>1, <1>2, ClientDevice

\* It counts among its users.
LEMMA ReaderIsHeldDevice ==
  ASSUME DeviceInv, NEW c \in Clients, ReaderIsHeld(c), UNCHANGED hotplugVars
  PROVE  BusInv' /\ ReadersInv'
<1>0. c \in Threads /\ WorkOK(c) /\ job \in [Threads -> JobRecords]
      /\ reader \in [Entries -> ReaderRecords]
  BY DEF DeviceInv, Inv, Threads, LifecycleTypes
<1>1. PICK i : i = job[c].entry
  OBVIOUS
<1>2. /\ pc[c] = "found" /\ reader' = [reader EXCEPT ![i].reference = @ + 1]
      /\ Goto(c, "holding") /\ SetJob(c, job[c]) /\ ~Closing(c) /\ i \in Entries
  BY <1>0, <1>1 DEF ReaderIsHeld, RefReader, SetJob, Closing, WorkOK
<1>3. reader[i].reference \in Nat
  BY <1>0, <1>2 DEF ReaderRecords
<1>4. /\ reader'[i].reference = reader[i].reference + 1
      /\ reader'[i].vHandle = reader[i].vHandle
      /\ reader'[i].removed = reader[i].removed
      /\ reader'[i].port = reader[i].port
      /\ \A k \in Entries : k # i => reader'[k] = reader[k]
  BY <1>0, <1>2 DEF ReaderRecords
<1>5. ReadersStay
  BY <1>4 DEF ReadersStay, Alive
<1>6. reader'[i].reference # 0
  BY <1>3, <1>4
<1> QED BY <1>2, <1>4, <1>5, <1>6, ClientDevice

\* What _UnrefReader() does to entry i.
LEMMA UnrefFields ==
  ASSUME Inv, NEW t \in Threads, NEW i \in Entries, reader[i].reference # 0,
         reader' = [reader EXCEPT ![i].reference = @ - 1,
                                  ![i].removed = @ \/ t \in Hotplugs]
  PROVE  /\ reader'[i].reference = reader[i].reference - 1
         /\ reader[i].reference \in Nat \ {0}
         /\ reader'[i].vHandle = reader[i].vHandle
         /\ reader'[i].port = reader[i].port
         /\ reader'[i].removed <=> reader[i].removed \/ t \in Hotplugs
         /\ \A k \in Entries : k # i => reader'[k] = reader[k]
<1>1. reader \in [Entries -> ReaderRecords]
  BY DEF Inv, LifecycleTypes
<1> QED BY <1>1 DEF ReaderRecords

\* A command ends.
LEMMA RFUnrefReaderDevice ==
  ASSUME DeviceInv, NEW c \in Clients, RFUnrefReader(c), UNCHANGED hotplugVars
  PROVE  BusInv' /\ ReadersInv'
<1>0. /\ Inv /\ LifecycleTypes /\ c \in Threads /\ WorkOK(c)
      /\ c \notin Hotplugs /\ job[c] \in JobRecords
  BY LifecycleAssumption DEF DeviceInv, Inv, Threads, LifecycleTypes
<1>1. PICK i : i = job[c].entry
  OBVIOUS
<1>2. pc[c] = "holding" /\ UnrefReader(c, i) /\ i \in Entries /\ ~Closing(c)
  BY <1>0, <1>1 DEF RFUnrefReader, WorkOK, Closing
<1>3. CASE reader[i].reference = 0
  <2>1. UNCHANGED reader /\ Goto(c, "idle") /\ SetJob(c, NoJob)
    BY <1>2, <1>3 DEF UnrefReader, AfterUnref
  <2>2. ReadersStay
    BY <2>1 DEF ReadersStay, Alive
  <2> QED BY <1>2, <2>1, <2>2, ClientDevice
<1>4. CASE reader[i].reference # 0
  <2>1. PICK j : j = [job[c] EXCEPT !.entry = i]
    OBVIOUS
  <2>2. /\ reader' = [reader EXCEPT ![i].reference = @ - 1,
                                    ![i].removed = @ \/ c \in Hotplugs]
        /\ Goto(c, "reread") /\ SetJob(c, j)
    BY <1>2, <1>4, <2>1 DEF UnrefReader
  <2>3. /\ reader'[i].vHandle = reader[i].vHandle
        /\ reader'[i].port = reader[i].port
        /\ reader'[i].removed <=> reader[i].removed \/ c \in Hotplugs
        /\ \A k \in Entries : k # i => reader'[k] = reader[k]
    BY <1>0, <1>2, <1>4, <2>2, UnrefFields
  <2>4. ReadersStay
    BY <1>0, <2>3 DEF ReadersStay, Alive
  <2>5. j.entry = i
    BY <1>0, <2>1 DEF JobRecords
  <2>6. \A k \in Entries : reader'[k].vHandle /\ reader'[k].reference = 0 =>
          \/ reader[k].vHandle /\ reader[k].reference = 0
          \/ j.entry = k
    BY <2>3, <2>5
  <2> QED BY <1>2, <2>2, <2>4, <2>6, ClientDevice
<1> QED BY <1>3, <1>4

\* The event thread of a reader.
LEMMA EventThreadDevice ==
  ASSUME DeviceInv, NEW i \in Entries, EventThread(i), UNCHANGED hotplugVars
  PROVE  BusInv' /\ ReadersInv'
<1>0. Inv /\ BusInv /\ ReadersInv /\ reader \in [Entries -> ReaderRecords]
  BY DEF DeviceInv, Inv, LifecycleTypes
<1>1. UNCHANGED <<pc, job>> /\ (UNCHANGED reader
                                  \/ reader' = [reader EXCEPT ![i].hLockId = "0"])
  BY DEF EventThread, EHCardRemoved, EHOrderSeen, EHCancelled
<1>2. ASSUME NEW k \in Entries PROVE SameLife(k)
  <2>1. CASE UNCHANGED reader
    BY <2>1 DEF SameLife
  <2>2. CASE reader' = [reader EXCEPT ![i].hLockId = "0"] /\ k = i
    BY <1>0, <2>2 DEF ReaderRecords, SameLife
  <2>3. CASE reader' = [reader EXCEPT ![i].hLockId = "0"] /\ k # i
    BY <1>0, <2>3 DEF SameLife
  <2> QED BY <1>1, <2>1, <2>2, <2>3
<1>3. ReadersStay
  BY <1>2 DEF ReadersStay, Alive, SameLife
<1>4. LastIsClosing'
  BY <1>0, <1>1, <1>2 DEF ReadersInv, LastIsClosing, Closing, SameLife
<1> QED BY <1>0, <1>1, <1>3, <1>4, ClientFrame

\* A thread that has given up a reader goes on, or has done with it.
LEMMA DropDevice ==
  ASSUME DeviceInv, NEW t \in Threads, Dropping(t), UNCHANGED hotplugVars,
         NEW i, i = job[t].entry, ReadersStay, LastStays(t),
         \/ /\ UNCHANGED job
            /\ \E step \in {"stomp", "join", "close", "release"} : Goto(t, step)
         \/ AfterUnref(t, i)
  PROVE  BusInv' /\ ReadersInv'
<1>0. /\ Inv /\ BusInv /\ ReadersInv /\ LifecycleTypes
      /\ Threads = Clients \cup Hotplugs /\ Clients \cap Hotplugs = {}
      /\ job[t] \in JobRecords /\ job \in [Threads -> JobRecords]
  BY LifecycleAssumption DEF DeviceInv, Inv, Threads, LifecycleTypes
<1>1. i \in Entries /\ i \in Nat
  <2>1. WorkOK(t)
    BY <1>0 DEF Inv
  <2>2. i \in Entries
    BY <2>1 DEF WorkOK, Dropping, Closing
  <2> QED BY <2>2, LifecycleAssumption DEF Entries
<1>2. \A k \in Entries : /\ Alive(k)' <=> Alive(k)
                         /\ Alive(k) => reader'[k].port = reader[k].port
  BY DEF ReadersStay, Alive, Live
<1>3. CASE t \in Clients
  <2>1. PICK step, j : Goto(t, step) /\ SetJob(t, j)
    <3>1. UNCHANGED job => SetJob(t, job[t])
      BY <1>0 DEF SetJob
    <3> QED BY <1>3, <3>1 DEF AfterUnref
  <2>2. \A u \in Threads : u # t => pc'[u] = pc[u] /\ job'[u] = job[u]
    BY <1>0, <2>1, ThreadFrame
  <2>3. LastIsClosing'
    BY <1>0, <2>2, LastFrame DEF ReadersInv
  <2> QED BY <1>0, <1>3, <2>2, <2>3, ClientFrame
<1>4. CASE t \in Hotplugs
  <2>1. \A k \in Entries : ReaderStays(t, k)
    BY <1>2 DEF ReaderStays
  <2>2. PortOK(t)
    BY <1>0, <1>4 DEF ReadersInv
  <2>3. ~Alive(i)
    BY <2>2 DEF PortOK
  <2>4. ASSUME UNCHANGED job, NEW step \in {"stomp", "join", "close", "release"},
               Goto(t, step)
        PROVE  BusInv' /\ ReadersInv'
    <3>1. SetJob(t, job[t])
      BY <1>0, <2>4 DEF SetJob
    <3>2. PortStep(t, step, job[t])
      BY <2>4, <3>1 DEF PortStep, Dropping
    <3>3. pc'[t] = step /\ job'[t] = job[t]
      BY <1>0, <1>4, <3>2, PortStepWork
    <3>4. PortOK(t)'
      <4>1. /\ ~Adding(t)' /\ pc'[t] \notin {"load", "open", "add", "fill", "added", "removed"}
            /\ Sweeping(t)
        BY <2>4, <3>3 DEF Adding, Sweeping
      <4>2. \A k \in Entries : Alive(k)' => Alive(k) /\ reader'[k].port = reader[k].port
        BY <1>2
      <4>3. ~Alive(i)'
        BY <1>1, <1>2, <2>3
      <4> QED BY <2>2, <3>3, <4>1, <4>2, <4>3 DEF PortOK
    <3> QED BY <1>0, <1>4, <2>1, <3>2, <3>4, PortFrame
  <2>5. CASE AfterUnref(t, i)
    <3>1. PICK j : j = [job[t] EXCEPT !.entry = i + 1]
      OBVIOUS
    <3>2. /\ j.port = job[t].port /\ j.device = job[t].device /\ j.entry = i + 1
          /\ j.library = job[t].library /\ j.rv = job[t].rv
      BY <1>0, <3>1 DEF JobRecords
    <3>3. SetJob(t, j) /\ Goto(t, "sweep")
      BY <1>0, <1>4, <2>5, <3>1 DEF AfterUnref
    <3>4. PortStep(t, "sweep", j)
      BY <3>2, <3>3 DEF PortStep, Dropping
    <3>5. pc'[t] = "sweep" /\ job'[t] = j
      BY <1>0, <1>4, <3>4, PortStepWork
    <3>6. PortOK(t)'
      <4>1. ~Adding(t)' /\ ~Dropping(t)' /\ Sweeping(t)
        BY <3>5 DEF Adding, Dropping, Sweeping
      <4>2. \A k \in Entries : Alive(k)' =>
              /\ Alive(k) /\ reader'[k].port = reader[k].port /\ k # i /\ k \in Nat
        BY <1>2, <2>3, LifecycleAssumption DEF Entries
      <4>3. \A k \in Entries : Alive(k)' /\ k < i + 1 => reader'[k].port # job[t].port
        BY <1>1, <2>2, <4>1, <4>2 DEF PortOK
      <4> QED BY <2>2, <3>2, <3>5, <4>1, <4>3 DEF PortOK
    <3> QED BY <1>0, <1>4, <2>1, <3>4, <3>6, PortFrame
  <2> QED BY <2>4, <2>5
<1> QED BY <1>0, <1>3, <1>4

\* The thread reads the reference again.
LEMMA LastReferenceDevice ==
  ASSUME DeviceInv, NEW t \in Threads, LastReference(t), UNCHANGED hotplugVars
  PROVE  BusInv' /\ ReadersInv'
<1>0. LifecycleTypes
  BY DEF DeviceInv, Inv
<1>1. PICK i : i = job[t].entry
  OBVIOUS
<1>2. /\ pc[t] = "reread" /\ Dropping(t) /\ UNCHANGED reader
      /\ \/ NoneLeft(i) /\ Goto(t, "stomp") /\ UNCHANGED job
         \/ ~NoneLeft(i) /\ AfterUnref(t, i)
  BY <1>1 DEF LastReference, Dropping
<1>3. ReadersStay
  BY <1>2 DEF ReadersStay, Alive
<1>4. LastStays(t)
  <2>1. CASE ~NoneLeft(i)
    BY <1>1, <1>2, <2>1 DEF LastStays, Closing, NoneLeft
  <2>2. CASE Goto(t, "stomp") /\ UNCHANGED job
    <3>1. pc'[t] = "stomp"
      BY <1>0, <2>2 DEF Goto, LifecycleTypes
    <3> QED BY <1>2, <2>2, <3>1 DEF LastStays, Closing
  <2> QED BY <1>2, <2>1, <2>2
<1> QED BY <1>1, <1>2, <1>3, <1>4, DropDevice

\* The event thread is told to die, and waited for.
LEMMA StopThreadDevice ==
  ASSUME DeviceInv, NEW t \in Threads, EHDestroyEventHandler(t) \/ Join(t),
         UNCHANGED hotplugVars
  PROVE  BusInv' /\ ReadersInv'
<1>0. /\ Inv /\ LifecycleTypes /\ reader \in [Entries -> ReaderRecords]
  BY DEF DeviceInv, Inv, LifecycleTypes
<1>1. PICK i : i = job[t].entry
  OBVIOUS
<1>2. PICK step \in {"join", "close"} : Goto(t, step)
  BY DEF EHDestroyEventHandler, Join
<1>3. /\ Closing(t) /\ Dropping(t) /\ UNCHANGED job
      /\ \/ UNCHANGED reader
         \/ reader' = [reader EXCEPT ![i].hLockId = "0xFFFF"]
         \/ reader' = [reader EXCEPT ![i].thread = FALSE]
  BY <1>1 DEF EHDestroyEventHandler, Join, Closing, Dropping
<1>4. i \in Entries
  BY <1>0, <1>1, <1>3, CloserEntry
<1>5. SameLife(i) /\ \A k \in Entries : k # i => SameLife(k)
  <2>1. \A k \in Entries : k # i => SameLife(k)
    BY <1>0, <1>3 DEF SameLife
  <2>2. SameLife(i)
    BY <1>0, <1>3, <1>4 DEF SameLife, ReaderRecords
  <2> QED BY <2>1, <2>2
<1>6. ReadersStay
  BY <1>5 DEF ReadersStay, Alive, SameLife
<1>7. LastStays(t)
  <2>1. Closing(t)'
    BY <1>0, <1>2 DEF Goto, LifecycleTypes, Closing
  <2> QED BY <1>3, <1>5, <2>1 DEF LastStays, SameLife
<1> QED BY <1>1, <1>2, <1>3, <1>6, <1>7, DropDevice

\* The driver is given up, and then the counters: the entry is free.
LEMMA FreeDevice ==
  ASSUME DeviceInv, NEW t \in Threads, RFUnInitializeReader(t) \/ ReleaseReader(t),
         UNCHANGED hotplugVars
  PROVE  BusInv' /\ ReadersInv'
<1>0. /\ Inv /\ LifecycleTypes /\ reader \in [Entries -> ReaderRecords] /\ Counts
      /\ Hotplugs \subseteq Threads
  BY DEF DeviceInv, Inv, LifecycleTypes, Threads
<1>1. PICK i : i = job[t].entry
  OBVIOUS
<1>2. pc[t] \in {"close", "release"} /\ Dropping(t)
  BY DEF RFUnInitializeReader, ReleaseReader, Dropping
<1>3. /\ i \in Entries /\ reader[i].reference = 0
      /\ pc[t] = "close" <=> reader[i].vHandle
      /\ \A u \in Threads \ {t} : pc[u] = "load" => job[u].entry # i
  BY <1>0, <1>1, <1>2, LastOfEntry
<1>4. ~Alive(i)
  <2>1. CASE pc[t] = "close"
    <3>1. Closing(t)
      BY <2>1 DEF Closing
    <3>2. Own(reader[i]) = 0
      BY <1>0, <1>1, <3>1, CloserEntry
    <3> QED BY <3>2 DEF Own, Alive
  <2>2. CASE pc[t] = "release"
    BY <1>3, <2>2 DEF Alive
  <2> QED BY <1>2, <2>1, <2>2
<1>5. /\ ~reader'[i].vHandle
      /\ \A k \in Entries : k # i => reader'[k] = reader[k]
      /\ pc[t] = "close" => reader'[i].port = reader[i].port
      /\ \/ Goto(t, "release") /\ UNCHANGED job
         \/ AfterUnref(t, i)
  <2>1. CASE RFUnInitializeReader(t)
    <3>1. pc[t] = "close" /\ i \in Counted
      BY <1>3, <2>1 DEF RFUnInitializeReader, Counted, Live
    <3>2. reader[i].feeds \in Objects /\ reader[i].mutex \in Objects
      BY <1>0, <3>1 DEF Counts
    <3>3. reader[i].feeds # NULL /\ reader[i].mutex # NULL
      BY <3>2, LifecycleAssumption DEF Objects, NULL
    <3>4. /\ reader' = [reader EXCEPT ![i].vHandle = FALSE]
          /\ Goto(t, "release") /\ UNCHANGED job
      BY <1>1, <2>1, <3>3 DEF RFUnInitializeReader
    <3> QED BY <1>0, <1>3, <3>4 DEF ReaderRecords
  <2>2. CASE ReleaseReader(t)
    <3>1. PICK q : q = [FreeEntry EXCEPT !.reference = reader[i].reference,
                                         !.feeds = Left(pFeeds', reader[i].feeds),
                                         !.mutex = Left(pMutex', reader[i].mutex)]
      OBVIOUS
    <3>2. /\ pc[t] = "release" /\ AfterUnref(t, i)
          /\ reader' = [reader EXCEPT ![i] = q]
      BY <1>1, <2>2, <3>1 DEF ReleaseReader
    <3>3. ~q.vHandle
      BY <3>1 DEF FreeEntry
    <3> QED BY <1>0, <1>3, <3>2, <3>3
  <2> QED BY <2>1, <2>2
<1>6. pc[t] = "release" => i \notin Live
  BY <1>0, <1>2, <1>3 DEF Live, Loading
<1>7. ReadersStay
  BY <1>2, <1>4, <1>5, <1>6 DEF ReadersStay, Alive
<1>8. LastStays(t)
  BY <1>1, <1>5 DEF LastStays
<1> QED BY <1>1, <1>2, <1>5, <1>7, <1>8, DropDevice

\* removeReader()
LEMMA RemoveReaderDevice ==
  ASSUME DeviceInv, NEW t \in Threads, RemoveReader(t), UNCHANGED hotplugVars
  PROVE  BusInv' /\ ReadersInv'
BY LastReferenceDevice, StopThreadDevice, FreeDevice DEF RemoveReader

-----------------------------------------------------------------------------
\* The readers: RFRemoveReader()

\* The table gives up its reference to the next reader of the port.
LEMMA SweepEntryDevice ==
  ASSUME DeviceInv, NEW t \in Hotplugs, SweepEntry(t),
         UNCHANGED hotplugVars
  PROVE  BusInv' /\ ReadersInv'
<1>0. /\ Inv /\ BusInv /\ ReadersInv /\ t \in Threads /\ t \notin Clients
      /\ job[t] \in JobRecords /\ PortOK(t)
  BY LifecycleAssumption DEF DeviceInv, Threads, Inv, LifecycleTypes, ReadersInv
<1>1. PICK i : i = Min(Remaining(t))
  OBVIOUS
<1>2. pc[t] = "sweep" /\ Remaining(t) # {} /\ UnrefReader(t, i)
  BY <1>1 DEF SweepEntry
<1>3. Remaining(t) \subseteq Nat
  BY LifecycleAssumption DEF Remaining, Entries
<1>4. i \in Remaining(t) /\ \A k \in Remaining(t) : i <= k
  BY <1>1, <1>2, <1>3, MinNat
<1>5. /\ i \in Entries /\ reader[i].vHandle /\ reader[i].port = job[t].port
      /\ i \in Nat /\ i >= job[t].entry /\ job[t].entry \in Nat
  BY <1>0, <1>3, <1>4 DEF Remaining, Matches, Used, JobRecords
<1>a. ~reader[i].removed
  <2>1. i \in Used
    BY <1>4 DEF Remaining, Matches
  <2> QED BY <1>0, <1>2, <1>5, <2>1 DEF Inv, Calm, PortsApart
<1>6. reader[i].reference # 0
  <2>1. EntryOK(i)
    BY <1>0, <1>5 DEF Inv
  <2>2. Cardinality(Holders(i)) \in Nat
    BY <2>1, FS_CardinalityType DEF EntryOK
  <2> QED BY <1>a, <1>5, <2>1, <2>2 DEF EntryOK, Own
<1>7. PICK j : j = [job[t] EXCEPT !.entry = i]
  OBVIOUS
<1>b. /\ reader' = [reader EXCEPT ![i].reference = @ - 1,
                                  ![i].removed = @ \/ t \in Hotplugs]
      /\ Goto(t, "reread") /\ SetJob(t, j)
  BY <1>0, <1>2, <1>6, <1>7 DEF UnrefReader
<1>8. /\ reader'[i].reference = reader[i].reference - 1
      /\ reader[i].reference \in Nat \ {0}
      /\ reader'[i].vHandle = reader[i].vHandle
      /\ reader'[i].port = reader[i].port
      /\ reader'[i].removed
      /\ \A k \in Entries : k # i => reader'[k] = reader[k]
  BY <1>0, <1>5, <1>6, <1>b, UnrefFields
<1>9. \A k \in Entries : ReaderStays(t, k)
  BY <1>5, <1>8 DEF ReaderStays, Alive
<1>10. \A k \in Entries : Alive(k)' /\ k <= i => reader'[k].port # job[t].port
  <2> SUFFICES ASSUME NEW k \in Entries, Alive(k)', k <= i, reader'[k].port = job[t].port
               PROVE  FALSE
    OBVIOUS
  <2>1. k # i /\ Alive(k) /\ reader[k].port = job[t].port /\ k \in Nat
    BY <1>8, LifecycleAssumption DEF Alive, Entries
  <2>2. k >= job[t].entry
    BY <1>0, <1>2, <1>5, <2>1 DEF PortOK, Sweeping
  <2>3. k \in Used
    BY <1>0, <2>1, UsedIsLive DEF Alive
  <2>4. k \in Remaining(t)
    BY <2>1, <2>2, <2>3 DEF Remaining, Matches
  <2> QED BY <1>4, <1>5, <2>1, <2>4
<1>11. /\ j.port = job[t].port /\ j.device = job[t].device /\ j.entry = i
       /\ j.library = job[t].library /\ j.rv = job[t].rv
  BY <1>0, <1>7 DEF JobRecords
<1>12. PortStep(t, "reread", j)
  BY <1>2, <1>b, <1>11 DEF PortStep
<1>13. pc'[t] = "reread" /\ job'[t] = j
  BY <1>0, <1>12, PortStepWork
<1>14. LastStays(t)
  BY <1>2, <1>8, <1>11, <1>13 DEF LastStays, Closing
<1>15. PortOK(t)'
  <2>1. ~Adding(t)' /\ Sweeping(t)
    BY <1>2, <1>13 DEF Adding, Sweeping
  <2>2. \A k \in Entries : Alive(k)' /\ k < i => reader'[k].port # job[t].port
    BY <1>5, <1>10, LifecycleAssumption DEF Entries
  <2>3. ~Alive(i)'
    BY <1>8 DEF Alive
  <2> QED BY <1>0, <1>11, <1>13, <2>1, <2>2, <2>3 DEF PortOK
<1> QED BY <1>0, <1>9, <1>12, <1>14, <1>15, PortFrame

\* The loop over the table has come to its end.
LEMMA SweepDoneDevice ==
  ASSUME DeviceInv, NEW t \in Hotplugs, SweepDone(t), UNCHANGED hotplugVars
  PROVE  BusInv' /\ ReadersInv'
<1>0. /\ Inv /\ BusInv /\ ReadersInv /\ LifecycleTypes /\ t \in Threads
      /\ job[t] \in JobRecords /\ PortOK(t)
  BY DEF DeviceInv, Threads, Inv, LifecycleTypes, ReadersInv
<1>1. /\ pc[t] = "sweep" /\ Remaining(t) = {} /\ UNCHANGED reader
      /\ UNCHANGED job
      /\ Goto(t, IF job[t].rv = "SUCCESS" THEN "removed" ELSE "added")
  BY DEF SweepDone, Swept
<1>2. PICK step : step = IF job[t].rv = "SUCCESS" THEN "removed" ELSE "added"
  OBVIOUS
<1>3. SetJob(t, job[t])
  BY <1>0, <1>1 DEF SetJob, LifecycleTypes
<1>4. PortStep(t, step, job[t])
  BY <1>1, <1>2, <1>3 DEF PortStep
<1>5. pc'[t] = step /\ job'[t] = job[t]
  BY <1>0, <1>4, PortStepWork
<1>6. ~HasReader(job[t].port)'
  <2> SUFFICES ASSUME NEW k \in Entries, Alive(k), reader[k].port = job[t].port
               PROVE  FALSE
    BY <1>1, <1>5 DEF HasReader, Alive
  <2>1. k >= job[t].entry
    <3>1. k \in Nat /\ job[t].entry \in Nat
      BY <1>0, LifecycleAssumption DEF Entries, JobRecords
    <3> QED BY <1>0, <1>1, <3>1 DEF PortOK, Sweeping
  <2>2. k \in Used
    BY <1>0, UsedIsLive DEF Alive
  <2> QED BY <1>1, <2>1, <2>2 DEF Remaining, Matches
<1>7. PortOK(t)'
  BY <1>0, <1>1, <1>2, <1>5, <1>6 DEF PortOK, Adding, Sweeping, Dropping
<1>8. \A k \in Entries : ReaderStays(t, k)
  BY <1>1 DEF ReaderStays, Alive
<1>9. LastStays(t)
  BY <1>1 DEF LastStays, Closing
<1> QED BY <1>0, <1>4, <1>7, <1>8, <1>9, PortFrame

-----------------------------------------------------------------------------
\* The readers: RFAddReader()

\* Thread t fills in the entry it has found.
LEMMA NewEntryDevice ==
  ASSUME DeviceInv, NEW t \in Hotplugs, pc[t] \in {"fill", "fillSlot"},
         UNCHANGED hotplugVars, NEW i, i = job[t].entry,
         NEW r, reader' = [reader EXCEPT ![i] = r], r.port = job[t].port,
         r.reference = 1, Goto(t, "load"), UNCHANGED job,
         \/ job[t].first = i
         \/ job[t].first \in Entries /\ reader[job[t].first].port = job[t].port
  PROVE  BusInv' /\ ReadersInv'
<1>0. /\ Inv /\ BusInv /\ ReadersInv /\ reader \in [Entries -> ReaderRecords]
      /\ job \in [Threads -> JobRecords]
  BY DEF DeviceInv, Inv, LifecycleTypes
<1>1. i \in Entries /\ ~reader[i].vHandle
  BY <1>0, FilledEntryIsFree
<1>2. reader'[i] = r /\ \A k \in Entries : k # i => reader'[k] = reader[k]
  BY <1>0, <1>1
<1>3. \A k \in Entries : ReaderStays(t, k)
  BY <1>1, <1>2 DEF ReaderStays, Alive
<1>4. LastStays(t)
  BY <1>2 DEF LastStays, Closing
<1>5. PortStep(t, "load", job[t])
  BY <1>0 DEF PortStep, SetJob
<1>6. pc'[t] = "load" /\ job'[t] = job[t]
  BY <1>0, <1>5, PortStepWork
<1>7. /\ reader'[job[t].entry].port = job[t].port
      /\ reader'[job[t].first].port = job[t].port
  BY <1>1, <1>2
<1>8. PortOK(t)'
  BY <1>6, <1>7 DEF PortOK, Adding, Sweeping, Dropping
<1> QED BY <1>0, <1>3, <1>4, <1>5, <1>8, PortFrame

\* Thread t goes on, and the readers stay as they are.
LEMMA SameReadersDevice ==
  ASSUME DeviceInv, NEW t \in Hotplugs, ~Closing(t), NEW step, NEW j,
         UNCHANGED hotplugVars, PortStep(t, step, j),
         \A k \in Entries : SameLife(k), PortOK(t)'
  PROVE  BusInv' /\ ReadersInv'
<1>0. Inv /\ BusInv /\ ReadersInv
  BY DEF DeviceInv
<1>1. \A k \in Entries : ReaderStays(t, k)
  BY DEF ReaderStays, Alive, SameLife
<1>2. LastStays(t)
  BY DEF LastStays, SameLife
<1> QED BY <1>0, <1>1, <1>2, PortFrame

\* RFAddReader() has found an entry and a number, or given up.
LEMMA AddReaderDevice ==
  ASSUME DeviceInv, NEW t \in Hotplugs, AddReader(t), UNCHANGED hotplugVars
  PROVE  BusInv' /\ ReadersInv'
<1>0. /\ Inv /\ PortOK(t) /\ job[t] \in JobRecords /\ pc[t] = "add"
      /\ UNCHANGED reader
  BY DEF DeviceInv, ReadersInv, Inv, LifecycleTypes, Threads, AddReader
<1>1. PICK step, j : /\ Goto(t, step) /\ SetJob(t, j)
                     /\ j.port = job[t].port /\ j.device = job[t].device
                     /\ j.library = job[t].library
                     /\ step = "fill" \/ (step = "added" /\ j.rv # "SUCCESS")
  <2>1. ASSUME NEW rv, rv # "SUCCESS", SetJob(t, [job[t] EXCEPT !.rv = rv]),
               Goto(t, "added")
        PROVE  \E step, j : /\ Goto(t, step) /\ SetJob(t, j)
                            /\ j.port = job[t].port /\ j.device = job[t].device
                            /\ j.library = job[t].library
                            /\ step = "fill" \/ (step = "added" /\ j.rv # "SUCCESS")
    <3>1. PICK j : j = [job[t] EXCEPT !.rv = rv]
      OBVIOUS
    <3>2. /\ j.port = job[t].port /\ j.device = job[t].device
          /\ j.library = job[t].library /\ j.rv = rv
      BY <1>0, <3>1 DEF JobRecords
    <3> QED BY <2>1, <3>1, <3>2
  <2>2. ASSUME NEW i, NEW n, NEW q, Goto(t, "fill"),
               SetJob(t, [job[t] EXCEPT !.entry = i, !.first = i, !.sub = 0,
                                        !.number = n, !.parent = q])
        PROVE  \E step, j : /\ Goto(t, step) /\ SetJob(t, j)
                            /\ j.port = job[t].port /\ j.device = job[t].device
                            /\ j.library = job[t].library
                            /\ step = "fill" \/ (step = "added" /\ j.rv # "SUCCESS")
    <3>1. PICK j : j = [job[t] EXCEPT !.entry = i, !.first = i, !.sub = 0,
                                      !.number = n, !.parent = q]
      OBVIOUS
    <3>2. /\ j.port = job[t].port /\ j.device = job[t].device
          /\ j.library = job[t].library
      BY <1>0, <3>1 DEF JobRecords
    <3> QED BY <2>2, <3>1, <3>2
  <2> DEFINE size == IF EmptyEntry = maxReaderContext
                     THEN maxReaderContext + INITIAL_MAX_READERS_CONTEXTS
                     ELSE maxReaderContext
             n == ReaderNumber(job[t].library, job[t].port, size)
             q == IF Clones(job[t].library, job[t].port) # {}
                  THEN Parent(job[t].library, job[t].port) ELSE NoParent
  <2>3. \/ SetJob(t, [job[t] EXCEPT !.rv = "DUPLICATE_READER"]) /\ Goto(t, "added")
        \/ SetJob(t, [job[t] EXCEPT !.rv = "NO_MEMORY"]) /\ Goto(t, "added")
        \/ /\ SetJob(t, [job[t] EXCEPT !.entry = EmptyEntry, !.first = EmptyEntry,
                                       !.sub = 0, !.number = n, !.parent = q])
           /\ Goto(t, "fill")
    BY DEF AddReader
  <2> HIDE DEF n, q
  <2> QED BY <2>1, <2>2, <2>3
<1>2. PortStep(t, step, j)
  BY <1>0, <1>1 DEF PortStep
<1>3. pc'[t] = step /\ job'[t] = j
  BY <1>0, <1>2, PortStepWork
<1>4. PortOK(t)'
  <2>1. PICK port : port = job[t].port
    OBVIOUS
  <2>2. ~HasReader(port)
    BY <1>0, <2>1 DEF PortOK
  <2>3. ~HasReader(port)'
    BY <1>0, <2>2 DEF HasReader, Alive
  <2>4. ~HasReader(job[t].port)'
    BY <1>1, <1>3, <2>1, <2>3
  <2> QED BY <1>1, <1>3, <2>4 DEF PortOK, Adding, Sweeping, Dropping
<1>5. (\A k \in Entries : SameLife(k)) /\ ~Closing(t)
  BY <1>0 DEF SameLife, Closing
<1> QED BY <1>2, <1>4, <1>5, SameReadersDevice

\* A new reader has its port and one reference.
LEMMA NewReaderPort ==
  ASSUME NEW j
  PROVE  NewReader(j).port = j.port /\ NewReader(j).reference = 1
BY DEF NewReader, FreeEntry

\* RFAddReader() fills in an entry.
LEMMA FillEntryDevice ==
  ASSUME DeviceInv, NEW t \in Hotplugs, FillEntry(t), UNCHANGED hotplugVars
  PROVE  BusInv' /\ ReadersInv'
<1>1. PICK i, r : i = job[t].entry /\ r = NewReader(job[t])
  OBVIOUS
<1>2. r.port = job[t].port /\ r.reference = 1
  BY <1>1, NewReaderPort
<1>3. /\ pc[t] = "fill" /\ reader' = [reader EXCEPT ![i] = r]
      /\ Goto(t, "load") /\ UNCHANGED job
  BY <1>1 DEF FillEntry
<1>4. job[t].first = i
  BY <1>1, <1>3 DEF DeviceInv, Inv, SearchOK
<1> QED BY <1>1, <1>2, <1>3, <1>4, NewEntryDevice

\* A thread gives up a reader that could not be started.
LEMMA GiveUpDevice ==
  ASSUME DeviceInv, NEW t \in Hotplugs, pc[t] \in {"load", "open"},
         NEW rv, rv # "SUCCESS", GiveUp(t, rv), UNCHANGED hotplugVars,
         \A k \in Entries : SameLife(k)
  PROVE  BusInv' /\ ReadersInv'
<1> DEFINE j == [job[t] EXCEPT !.rv = rv, !.entry = 0]
<1>0. /\ Inv /\ WorkOK(t) /\ job[t] \in JobRecords /\ job[t].library # "none"
  BY HotplugAssumption
     DEF DeviceInv, Inv, LifecycleTypes, Threads, WorkOK, Adding
<1>1. /\ j.port = job[t].port /\ j.device = job[t].device /\ j.entry = 0
      /\ j.library = job[t].library /\ j.rv = rv
  BY <1>0 DEF JobRecords
<1>2. Goto(t, "sweep") /\ SetJob(t, j)
  BY DEF GiveUp
<1> HIDE DEF j
<1>3. PortStep(t, "sweep", j)
  BY <1>1, <1>2 DEF PortStep
<1>4. pc'[t] = "sweep" /\ job'[t] = j
  BY <1>0, <1>3, PortStepWork
<1>5. PortOK(t)'
  <2>1. \A k \in Entries : ~(k < 0)
    BY LifecycleAssumption DEF Entries
  <2> QED BY <1>0, <1>1, <1>4, <2>1 DEF PortOK, Adding, Sweeping, Dropping
<1>6. ~Closing(t)
  BY DEF Closing
<1> QED BY <1>3, <1>5, <1>6, SameReadersDevice

\* RFLoadReader()
LEMMA RFLoadReaderDevice ==
  ASSUME DeviceInv, NEW t \in Hotplugs, RFLoadReader(t), UNCHANGED hotplugVars
  PROVE  BusInv' /\ ReadersInv'
<1>0. /\ Inv /\ BusInv /\ ReadersInv /\ WorkOK(t) /\ PortOK(t)
      /\ job[t] \in JobRecords /\ LifecycleTypes
      /\ reader \in [Entries -> ReaderRecords] /\ pc[t] = "load" /\ ~Closing(t)
  BY DEF DeviceInv, ReadersInv, Inv, LifecycleTypes, Threads, RFLoadReader, Closing
<1>1. PICK i : i = job[t].entry
  OBVIOUS
<1>2. i \in Entries /\ reader[i].port = job[t].port
      /\ reader[job[t].first].port = job[t].port /\ job[t].first \in Entries
      /\ (~reader[i].vHandle => reader[i].reference = 1)
  BY <1>0, <1>1 DEF WorkOK, PortOK, Adding
<1>3. CASE Goto(t, "open") /\ UNCHANGED job
           /\ \/ UNCHANGED reader
              \/ /\ ~reader[i].vHandle
                 /\ reader' = [reader EXCEPT ![i].vHandle = TRUE]
  <2>1. SetJob(t, job[t])
    BY <1>0, <1>3 DEF SetJob, LifecycleTypes
  <2>2. PortStep(t, "open", job[t])
    BY <1>0, <1>3, <2>1 DEF PortStep
  <2>3. pc'[t] = "open" /\ job'[t] = job[t]
    BY <1>0, <2>2, PortStepWork
  <2>4. /\ \A k \in Entries : reader'[k].port = reader[k].port
                                /\ reader'[k].reference = reader[k].reference
        /\ \A k \in Entries : k # i => reader'[k] = reader[k]
        /\ reader' = reader \/ reader[i].reference = 1
    <3>1. CASE UNCHANGED reader
      BY <3>1
    <3>2. CASE ~reader[i].vHandle /\ reader' = [reader EXCEPT ![i].vHandle = TRUE]
      <4>1. reader'[i].port = reader[i].port /\ reader'[i].reference = reader[i].reference
        BY <1>0, <1>2, <3>2 DEF ReaderRecords
      <4>2. \A k \in Entries : k # i => reader'[k] = reader[k]
        BY <1>0, <3>2
      <4> QED BY <1>2, <3>2, <4>1, <4>2
    <3> QED BY <1>3, <3>1, <3>2
  <2>5. \A k \in Entries : ReaderStays(t, k)
    BY <1>2, <2>4 DEF ReaderStays, Alive
  <2>6. LastStays(t)
    BY <1>0, <1>2, <2>4 DEF LastStays
  <2>7. PortOK(t)'
    BY <1>1, <1>2, <2>3, <2>4 DEF PortOK, Adding, Sweeping, Dropping
  <2> QED BY <1>0, <2>2, <2>5, <2>6, <2>7, PortFrame
<1>4. CASE GiveUp(t, "UNKNOWN_ERROR") /\ UNCHANGED reader
  <2>1. \A k \in Entries : SameLife(k)
    BY <1>4 DEF SameLife
  <2> QED BY <1>0, <1>4, <2>1, GiveUpDevice
<1> QED BY <1>1, <1>3, <1>4 DEF RFLoadReader

\* RFInitializeReader() and EHSpawnEventHandler()
LEMMA StartReaderDevice ==
  ASSUME DeviceInv, NEW t \in Hotplugs, StartReader(t, DeviceIsThere(t)),
         UNCHANGED hotplugVars
  PROVE  BusInv' /\ ReadersInv'
<1>0. /\ Inv /\ WorkOK(t) /\ PortOK(t) /\ LifecycleTypes
      /\ reader \in [Entries -> ReaderRecords] /\ pc[t] = "open" /\ ~Closing(t)
  BY DEF DeviceInv, ReadersInv, Inv, LifecycleTypes, Threads, StartReader, Closing
<1>1. PICK i : i = job[t].entry
  OBVIOUS
<1>2. i \in Entries /\ job[t].first \in Entries
      /\ reader[i].port = job[t].port /\ reader[job[t].first].port = job[t].port
  BY <1>0, <1>1 DEF WorkOK, PortOK, Adding
<1>3. CASE /\ reader' = [reader EXCEPT ![i].thread = TRUE]
           /\ Goto(t, "nextSlot") /\ UNCHANGED job
  <2>1. \A k \in Entries : SameLife(k)
    BY <1>0, <1>2, <1>3 DEF SameLife, ReaderRecords
  <2>2. SetJob(t, job[t])
    BY <1>0, <1>3 DEF SetJob, LifecycleTypes
  <2>3. PortStep(t, "nextSlot", job[t])
    BY <1>0, <1>3, <2>2 DEF PortStep
  <2>4. pc'[t] = "nextSlot" /\ job'[t] = job[t]
    BY <1>0, <2>3, PortStepWork
  <2>5. PortOK(t)'
    BY <1>2, <2>1, <2>4 DEF PortOK, Adding, Sweeping, Dropping, SameLife
  <2> QED BY <1>0, <2>1, <2>3, <2>5, SameReadersDevice
<1>4. CASE /\ reader' = [reader EXCEPT ![i].slot = -1]
           /\ \E rv \in {"INVALID_TARGET", "UNKNOWN_READER"} : GiveUp(t, rv)
  <2>1. \A k \in Entries : SameLife(k)
    BY <1>0, <1>2, <1>4 DEF SameLife, ReaderRecords
  <2> QED BY <1>0, <1>4, <2>1, GiveUpDevice
<1>5. CASE /\ UNCHANGED reader
           /\ \E rv \in {"UNKNOWN_ERROR", "NO_MEMORY"} : GiveUp(t, rv)
  <2>1. \A k \in Entries : SameLife(k)
    BY <1>5 DEF SameLife
  <2> QED BY <1>0, <1>5, <2>1, GiveUpDevice
<1> QED BY <1>1, <1>3, <1>4, <1>5 DEF StartReader

\* RFAddReader() has found an entry for a further slot.
LEMMA AddSlotDevice ==
  ASSUME DeviceInv, NEW t \in Hotplugs, AddSlot(t), UNCHANGED hotplugVars
  PROVE  BusInv' /\ ReadersInv'
<1>0. /\ Inv /\ WorkOK(t) /\ PortOK(t) /\ job[t] \in JobRecords
      /\ pc[t] = "nextSlot" /\ ~Closing(t) /\ UNCHANGED reader
  BY DEF DeviceInv, ReadersInv, Inv, LifecycleTypes, Threads, AddSlot, Closing
<1>1. PICK j : j = [job[t] EXCEPT !.entry = EmptyEntry, !.sub = @ + 1]
  OBVIOUS
<1>2. SetJob(t, j) /\ Goto(t, "fillSlot")
  BY <1>1 DEF AddSlot
<1>3. /\ j.port = job[t].port /\ j.device = job[t].device
      /\ j.library = job[t].library /\ j.first = job[t].first
  BY <1>0, <1>1 DEF JobRecords
<1>4. PortStep(t, "fillSlot", j)
  BY <1>0, <1>2, <1>3 DEF PortStep
<1>5. pc'[t] = "fillSlot" /\ job'[t] = j
  BY <1>0, <1>4, PortStepWork
<1>6. reader[job[t].first].port = job[t].port
  BY <1>0 DEF PortOK, Adding
<1>7. PortOK(t)'
  BY <1>0, <1>3, <1>5, <1>6 DEF PortOK, Adding, Sweeping, Dropping
<1>8. \A k \in Entries : SameLife(k)
  BY <1>0 DEF SameLife
<1> QED BY <1>0, <1>4, <1>7, <1>8, SameReadersDevice

\* RFAddReader() fills in an entry for a further slot.
LEMMA FillSlotDevice ==
  ASSUME DeviceInv, NEW t \in Hotplugs, FillSlot(t), UNCHANGED hotplugVars
  PROVE  BusInv' /\ ReadersInv'
<1>0. /\ WorkOK(t) /\ PortOK(t) /\ reader \in [Entries -> ReaderRecords]
      /\ pc[t] = "fillSlot" /\ Adding(t)
  BY DEF DeviceInv, ReadersInv, Inv, LifecycleTypes, Threads, FillSlot, Adding
<1>1. PICK f \in Entries : f = job[t].first /\ reader[f].port = job[t].port
  BY <1>0 DEF WorkOK, PortOK
<1>2. PICK q \in ReaderRecords : q = reader[f]
  BY <1>0
<1>3. PICK i, r : i = job[t].entry /\ r = NewSlot(f, job[t].sub)
  OBVIOUS
<1>4. r.port = q.port /\ r.reference = 1
  BY <1>2, <1>3 DEF NewSlot, ReaderRecords
<1>5. /\ reader' = [reader EXCEPT ![i] = r] /\ Goto(t, "load") /\ UNCHANGED job
  BY <1>1, <1>3 DEF FillSlot
<1> QED BY <1>0, <1>1, <1>2, <1>3, <1>4, <1>5, NewEntryDevice

\* RFAddReader() has made an entry of each slot.
LEMMA SlotsDoneDevice ==
  ASSUME DeviceInv, NEW t \in Hotplugs, SlotsDone(t), UNCHANGED hotplugVars
  PROVE  BusInv' /\ ReadersInv'
<1> DEFINE j == [job[t] EXCEPT !.rv = "SUCCESS"]
<1>0. /\ Inv /\ WorkOK(t) /\ PortOK(t) /\ job[t] \in JobRecords
      /\ pc[t] = "nextSlot" /\ ~Closing(t) /\ UNCHANGED reader
      /\ SetJob(t, j) /\ Goto(t, "added")
  BY DEF DeviceInv, ReadersInv, Inv, LifecycleTypes, Threads, SlotsDone, Closing
<1>1. /\ j.port = job[t].port /\ j.device = job[t].device
      /\ j.library = job[t].library /\ j.rv = "SUCCESS"
  BY <1>0 DEF JobRecords
<1> HIDE DEF j
<1>p. PICK port : port = job[t].port
  OBVIOUS
<1>2. PICK f \in Entries : /\ f = job[t].first /\ reader[f].port = port
                           /\ reader[f].vHandle /\ ~reader[f].removed
  BY <1>0, <1>p DEF WorkOK, PortOK, Adding
<1>3. PortStep(t, "added", j)
  BY <1>0, <1>1 DEF PortStep
<1>4. pc'[t] = "added" /\ job'[t] = j
  BY <1>0, <1>3, PortStepWork
<1>5. HasReader(port)'
  BY <1>0, <1>2 DEF HasReader, Alive
<1>6. HasReader(job[t].port)'
  BY <1>1, <1>p, <1>4, <1>5
<1>7. PortOK(t)'
  BY <1>1, <1>4, <1>6 DEF PortOK, Adding, Sweeping, Dropping
<1>8. \A k \in Entries : SameLife(k)
  BY <1>0 DEF SameLife
<1> QED BY <1>0, <1>3, <1>7, <1>8, SameReadersDevice

\* The class driver is tried.
LEMMA TryClassDriverDevice ==
  ASSUME DeviceInv, NEW t \in Hotplugs, TryClassDriver(t)
  PROVE  BusInv' /\ ReadersInv'
<1> DEFINE j == [job[t] EXCEPT !.library = "class", !.rv = "SUCCESS", !.entry = 0]
<1>0. /\ Inv /\ WorkOK(t) /\ PortOK(t) /\ job[t] \in JobRecords
      /\ pc[t] = "added" /\ ~Closing(t) /\ UNCHANGED reader
      /\ SetJob(t, j) /\ Goto(t, "add") /\ UNCHANGED hotplugVars
      /\ job[t].rv # "SUCCESS" /\ job[t].library # "none"
  BY HotplugAssumption
     DEF DeviceInv, ReadersInv, Inv, LifecycleTypes, Threads, TryClassDriver,
         Closing, Failed, WorkOK
<1>1. /\ j.port = job[t].port /\ j.device = job[t].device
      /\ j.library = "class" /\ j.rv = "SUCCESS"
  BY <1>0 DEF JobRecords
<1> HIDE DEF j
<1>2. PICK port : port = job[t].port
  OBVIOUS
<1>3. PortStep(t, "add", j)
  BY <1>0, <1>1 DEF PortStep
<1>4. pc'[t] = "add" /\ job'[t] = j
  BY <1>0, <1>3, PortStepWork
<1>5. ~HasReader(port)'
  <2>1. ~HasReader(port)
    BY <1>0, <1>2 DEF PortOK
  <2> QED BY <1>0, <2>1 DEF HasReader, Alive
<1>6. ~HasReader(job[t].port)'
  BY <1>1, <1>2, <1>4, <1>5
<1>7. PortOK(t)'
  BY <1>1, <1>4, <1>6 DEF PortOK, Adding, Sweeping, Dropping
<1>8. \A k \in Entries : SameLife(k)
  BY <1>0 DEF SameLife
<1> QED BY <1>0, <1>3, <1>7, <1>8, SameReadersDevice

-----------------------------------------------------------------------------
\* The readers: steps that leave the table alone

\* The readers are the same.
LEMMA SameTable ==
  ASSUME ReadersInv, UNCHANGED reader, NEW t \in Hotplugs, ~Closing(t),
         \A u \in Threads : u # t => pc'[u] = pc[u] /\ job'[u] = job[u]
  PROVE  /\ LastIsClosing'
         /\ \A i \in Entries : Alive(i)' <=> Alive(i)
         /\ \A port : HasReader(port)' <=> HasReader(port)
<1>1. LastStays(t)
  BY DEF LastStays
<1>2. t \in Threads
  BY DEF Threads
<1>3. LastIsClosing'
  BY <1>1, <1>2, LastFrame DEF ReadersInv
<1>4. \A i \in Entries : Alive(i)' <=> Alive(i)
  BY DEF Alive
<1>5. \A port : HasReader(port)' <=> HasReader(port)
  BY DEF HasReader, Alive
<1> QED BY <1>3, <1>4, <1>5

\* Nothing is started and nothing ends.
LEMMA RestFrame ==
  ASSUME ReadersInv,
         UNCHANGED <<reader, pc, job, backend, readerTracker, refused>>
  PROVE  ReadersInv'
<1>1. Present' = Present
  BY DEF Present, Indices
<1>2. \A i \in Entries : Alive(i)' <=> Alive(i)
  BY DEF Alive
<1>3. \A port : HasReader(port)' <=> HasReader(port)
  BY DEF HasReader, Alive
<1>4. ReadersTracked' /\ LastIsClosing'
  BY <1>1, <1>2 DEF ReadersInv, ReadersTracked, LastIsClosing, Closing
<1>5. TrackedHasReader'
  BY <1>1, <1>3 DEF ReadersInv, TrackedHasReader, Working
<1>6. \A t \in Hotplugs : PortOK(t)'
  BY <1>3 DEF ReadersInv, PortOK, Adding, Sweeping, Dropping, Alive
<1> QED BY <1>4, <1>5, <1>6 DEF ReadersInv

\* Thread t starts to add a reader: its port has none.
LEMMA AddsFrame ==
  ASSUME ReadersInv, NEW t \in Hotplugs, NEW d, NEW k, AddsAt(t, d, k),
         \A u \in Hotplugs : pc[u] = "idle", UNCHANGED <<reader, backend, refused>>
  PROVE  ReadersInv'
<1>0. /\ k \in Nat /\ k \notin Present /\ Present' = Present \cup {k}
      /\ \A m \in Present : readerTracker'[m] = readerTracker[m]
      /\ \A i \in Live : reader[i].port # Port(k)
      /\ pc'[t] = "add" /\ job'[t].port = Port(k) /\ job'[t].rv = "SUCCESS"
      /\ \A u \in Threads : u # t => pc'[u] = pc[u] /\ job'[u] = job[u]
      /\ \A u \in Hotplugs : u # t => pc'[u] = "idle"
  BY DEF AddsAt, Threads
<1>1. ~Closing(t)
  BY DEF Closing
<1>2. /\ LastIsClosing' /\ \A i \in Entries : Alive(i)' <=> Alive(i)
      /\ \A port : HasReader(port)' <=> HasReader(port)
  BY <1>0, <1>1, SameTable
<1>3. ReadersTracked'
  BY <1>0, <1>2 DEF ReadersInv, ReadersTracked
<1>4. TrackedHasReader'
  <2> SUFFICES ASSUME NEW m \in Present, m # k
               PROVE  \/ backend # "libudev" /\ readerTracker[m].address \in refused
                      \/ HasReader(Port(m))
    BY <1>0, <1>2 DEF TrackedHasReader, Working
  <2> QED BY DEF ReadersInv, TrackedHasReader, Working
<1>5. ~HasReader(Port(k))
  BY <1>0 DEF HasReader, Alive, Live
<1>6. PICK port : port = Port(k)
  OBVIOUS
<1>7. ~HasReader(port)' /\ job'[t].port = port
  BY <1>0, <1>2, <1>5, <1>6
<1>8. ~HasReader(job[t].port)'
  BY <1>7
<1>9. PortOK(t)'
  BY <1>0, <1>8 DEF PortOK, Adding, Sweeping, Dropping
<1>10. \A u \in Hotplugs : PortOK(u)'
  BY <1>0, <1>9, IdlePort
<1> QED BY <1>2, <1>3, <1>4, <1>10 DEF ReadersInv

\* Thread t starts to remove the readers of a port.
LEMMA RemovesFrame ==
  ASSUME ReadersInv, NEW t \in Hotplugs, NEW k, RemovesAt(t, k),
         \A u \in Hotplugs : pc[u] = "idle",
         UNCHANGED <<reader, backend, readerTracker, refused>>
  PROVE  ReadersInv'
<1>0. /\ pc'[t] = "sweep" /\ job'[t].entry = 0
      /\ job'[t].library = "none" /\ job'[t].rv = "SUCCESS"
      /\ \A u \in Threads : u # t => pc'[u] = pc[u] /\ job'[u] = job[u]
      /\ \A u \in Hotplugs : u # t => pc'[u] = "idle"
  BY DEF RemovesAt, Threads
<1>1. ~Closing(t) /\ Present' = Present
  BY DEF Closing, Present, Indices
<1>2. /\ LastIsClosing' /\ \A i \in Entries : Alive(i)' <=> Alive(i)
      /\ \A port : HasReader(port)' <=> HasReader(port)
  BY <1>0, <1>1, SameTable
<1>3. ReadersTracked'
  BY <1>1, <1>2 DEF ReadersInv, ReadersTracked
<1>4. TrackedHasReader'
  BY <1>1, <1>2 DEF ReadersInv, TrackedHasReader, Working
<1>5. \A i \in Entries : ~(i < 0)
  BY LifecycleAssumption DEF Entries
<1>6. PortOK(t)'
  BY <1>0, <1>5 DEF PortOK, Adding, Sweeping, Dropping
<1>7. \A u \in Hotplugs : PortOK(u)'
  BY <1>0, <1>6, IdlePort
<1> QED BY <1>2, <1>3, <1>4, <1>7 DEF ReadersInv

\* Thread t has done with its port: the tracker keeps the device and the port
\* has its reader or the device is refused, or both have gone.
LEMMA DoneFrame ==
  ASSUME Inv, ReadersInv, NEW t \in Hotplugs, NEW k, DoneAt(t, k), ~Closing(t),
         UNCHANGED <<reader, backend>>, refused \subseteq refused',
         \/ /\ readerTracker' = readerTracker
            /\ \/ HasReader(Port(k))
               \/ backend # "libudev" /\ readerTracker[k].address \in refused'
         \/ /\ readerTracker' = [readerTracker EXCEPT ![k] = NoDevice]
            /\ ~HasReader(Port(k))
  PROVE  ReadersInv'
<1>0. /\ k \in Present
      /\ \A m \in Present : m # k => \A u \in Hotplugs : ~Working(u, m)
      /\ \A u \in Threads : u # t => pc'[u] = pc[u] /\ job'[u] = job[u]
      /\ \A u \in Hotplugs : pc'[u] = "idle"
  BY DEF DoneAt
<1>1. /\ LastIsClosing' /\ \A i \in Entries : Alive(i)' <=> Alive(i)
      /\ \A port : HasReader(port)' <=> HasReader(port)
  BY <1>0, SameTable
<1>2. \A u \in Hotplugs : PortOK(u)'
  BY <1>0, IdlePort
<1>3. \A m \in Present : m # k =>
        \/ backend # "libudev" /\ readerTracker[m].address \in refused
        \/ HasReader(Port(m))
  BY <1>0 DEF ReadersInv, TrackedHasReader
<1>4. CASE /\ readerTracker' = readerTracker
           /\ \/ HasReader(Port(k))
              \/ backend # "libudev" /\ readerTracker[k].address \in refused'
  <2>1. Present' = Present
    BY <1>4 DEF Present, Indices
  <2>2. ReadersTracked'
    BY <1>1, <2>1 DEF ReadersInv, ReadersTracked
  <2>3. TrackedHasReader'
    BY <1>1, <1>3, <1>4, <2>1 DEF TrackedHasReader
  <2> QED BY <1>1, <1>2, <2>2, <2>3 DEF ReadersInv
<1>5. CASE /\ readerTracker' = [readerTracker EXCEPT ![k] = NoDevice]
           /\ ~HasReader(Port(k))
  <2>1. /\ Present' = Present \ {k}
        /\ \A m \in Present : m # k => readerTracker'[m] = readerTracker[m]
    BY <1>0, <1>5, ForgetIndex
  <2>2. ReadersTracked'
    BY <1>1, <1>5, <2>1 DEF ReadersInv, ReadersTracked, HasReader
  <2>3. TrackedHasReader'
    BY <1>1, <1>3, <2>1 DEF TrackedHasReader
  <2> QED BY <1>1, <1>2, <2>2, <2>3 DEF ReadersInv
<1> QED BY <1>4, <1>5

-----------------------------------------------------------------------------
\* The steps of the bus and of the tracker

\* HPAddDevice() and HPAddHotPluggable()
LEMMA HPAddDeviceReaders ==
  ASSUME Inv, ReadersInv, Calm', NEW t \in Hotplugs, NEW d \in FoundDevices,
         HPAddDevice(t, d), \A u \in Hotplugs : pc[u] = "idle"
  PROVE  ReadersInv'
<1>1. UNCHANGED <<reader, maxReaderContext, backend, refused>>
  BY DEF HPAddDevice
<1>2. CASE d.address # 0 /\ StartAdd(t, d)
  <2>1. PICK k : AddsAt(t, d, k)
    BY <1>1, <1>2, StartAddIndex
  <2> QED BY <1>1, <2>1, AddsFrame
<1>3. CASE UNCHANGED <<readerTracker, pc, job>>
  BY <1>1, <1>3, RestFrame
<1> QED BY <1>2, <1>3 DEF HPAddDevice

\* udev tells that a device has been plugged in.
LEMMA ReceiveAddDevice ==
  ASSUME DeviceInv, Calm', NEW t \in Hotplugs, ReceiveAdd(t), Alone(t)
  PROVE  BusInv' /\ ReadersInv'
<1>0. Inv /\ BusInv /\ ReadersInv /\ plugged \in [Places -> Nat]
  BY DEF DeviceInv, Inv, HotplugTypes
<1>1. PICK p : p = Head(events).place
  OBVIOUS
<1>2. MayStart(t) /\ pc[t] = "idle" /\ HPAddDevice(t, Device(p))
      /\ events # <<>> /\ events' = Tail(events)
  BY <1>1 DEF ReceiveAdd, MayStart, Busy
<1>3. \A u \in Hotplugs : pc[u] = "idle"
  BY <1>2 DEF Alone
<1>4. p \in Places
  BY <1>0, <1>1, <1>2, TailEvents DEF EventRecords
<1>5. PICK d \in FoundDevices : d = Device(p)
  BY <1>0, <1>4 DEF Device, FoundDevices
<1>6. ReadersInv'
  BY <1>0, <1>2, <1>3, <1>5, HPAddDeviceReaders
<1> QED BY <1>0, <1>6, ReceiveAddBus

\* A scan looks at the next device.
LEMMA ScanNextDevice ==
  ASSUME DeviceInv, Calm', NEW t \in Hotplugs, ScanNext(t)
  PROVE  BusInv' /\ ReadersInv'
<1>0. Inv /\ BusInv /\ ReadersInv /\ plugged \in [Places -> Nat]
  BY DEF DeviceInv, Inv, HotplugTypes
<1>1. PICK d \in scan[t].todo :
        /\ pc[t] = "idle"
        /\ scan' = [scan EXCEPT ![t].todo = @ \ {d}]
        /\ HPAddDevice(t, IF backend = "libudev" THEN Device(d.place) ELSE d)
  BY DEF ScanNext
<1>2. d \in FoundDevices /\ Busy(t)
  BY <1>0, <1>1, ScanTodo
<1>3. \A u \in Hotplugs : pc[u] = "idle"
  BY <1>0, <1>1, <1>2, OthersRest DEF Alone
<1>4. PICK e \in FoundDevices :
        e = IF backend = "libudev" THEN Device(d.place) ELSE d
  BY <1>0, <1>2 DEF Device, FoundDevices
<1>5. ReadersInv'
  BY <1>0, <1>1, <1>3, <1>4, HPAddDeviceReaders
<1> QED BY <1>0, <1>5, ScanNextBus

\* udev tells that a device has been unplugged.
LEMMA ReceiveRemoveDevice ==
  ASSUME DeviceInv, NEW t \in Hotplugs, ReceiveRemove(t), Alone(t)
  PROVE  BusInv' /\ ReadersInv'
<1>0. Inv /\ BusInv /\ ReadersInv
  BY DEF DeviceInv
<1>1. /\ MayStart(t) /\ pc[t] = "idle"
      /\ UNCHANGED <<reader, backend, readerTracker, refused>>
      /\ (\E k : StartRemove(t, k)) \/ UNCHANGED <<pc, job>>
  BY DEF ReceiveRemove, MayStart, Busy
<1>2. \A u \in Hotplugs : pc[u] = "idle"
  BY <1>1 DEF Alone
<1>3. CASE \E k : StartRemove(t, k)
  <2>1. PICK k : RemovesAt(t, k)
    BY <1>0, <1>3, StartRemoveIndex
  <2>2. ReadersInv'
    BY <1>0, <1>1, <1>2, <2>1, RemovesFrame
  <2> QED BY <1>0, <2>2, ReceiveRemoveBus
<1>4. CASE UNCHANGED <<pc, job>>
  BY <1>0, <1>1, <1>4, RestFrame, ReceiveRemoveBus
<1> QED BY <1>1, <1>3, <1>4

\* A scan starts.
LEMMA ScanDevicesDevice ==
  ASSUME DeviceInv, NEW t \in Hotplugs, ScanDevices(t), Alone(t)
  PROVE  BusInv' /\ ReadersInv'
<1>1. UNCHANGED <<reader, pc, job, backend, readerTracker, refused>>
  BY DEF ScanDevices
<1> QED BY <1>1, RestFrame, ScanDevicesBus DEF DeviceInv

\* A scan ends, or a reader it has not found is removed.
LEMMA ScanDoneDevice ==
  ASSUME DeviceInv, NEW t \in Hotplugs, ScanDone(t)
  PROVE  BusInv' /\ ReadersInv'
<1>0. Inv /\ BusInv /\ ReadersInv
  BY DEF DeviceInv
<1>1. /\ pc[t] = "idle" /\ scan[t].active
      /\ UNCHANGED <<reader, backend, readerTracker, refused>>
      /\ (\E k : StartRemove(t, k)) \/ UNCHANGED <<pc, job>>
  BY DEF ScanDone
<1>2. Busy(t)
  BY <1>1 DEF Busy, NoScan
<1>3. \A u \in Hotplugs : pc[u] = "idle"
  BY <1>0, <1>1, <1>2, OthersRest DEF Alone
<1>4. CASE \E k : StartRemove(t, k)
  <2>1. PICK k : RemovesAt(t, k)
    BY <1>0, <1>4, StartRemoveIndex
  <2>2. ReadersInv'
    BY <1>0, <1>1, <1>3, <2>1, RemovesFrame
  <2> QED BY <1>0, <2>2, ScanDoneBus
<1>5. CASE UNCHANGED <<pc, job>>
  BY <1>0, <1>1, <1>5, RestFrame, ScanDoneBus
<1> QED BY <1>1, <1>4, <1>5

\* RFAddReader() has returned.
LEMMA AddDoneDevice ==
  ASSUME DeviceInv, NEW t \in Hotplugs, AddDone(t)
  PROVE  BusInv' /\ ReadersInv'
<1>0. /\ Inv /\ BusInv /\ ReadersInv /\ PortOK(t)
      /\ pc[t] = "added" /\ job[t].library # "none"
  BY HotplugAssumption DEF DeviceInv, ReadersInv, AddDone, Inv, WorkOK, Threads
<1>1. /\ Goto(t, "idle") /\ SetJob(t, NoJob) /\ UNCHANGED <<reader, backend>>
      /\ readerTracker' =
           IF backend = "libudev" /\ job[t].rv # "SUCCESS"
           THEN [readerTracker EXCEPT ![IndexOf(t)] = NoDevice] ELSE readerTracker
      /\ refused' = IF job[t].rv = "SUCCESS" THEN refused
                                             ELSE refused \cup {job[t].device[1]}
  BY DEF AddDone, AfterAdd
<1>2. PICK k : DoneAt(t, k)
  BY <1>0, <1>1, DoneIndex
<1>3. /\ k = IndexOf(t) /\ job[t].port = Port(k)
      /\ job[t].device = <<readerTracker[k].address>>
  BY <1>0, <1>2 DEF DoneAt
<1>4. job[t].device[1] = readerTracker[k].address
  BY <1>3
<1>5. IF job[t].rv = "SUCCESS" THEN HasReader(Port(k)) ELSE ~HasReader(Port(k))
  BY <1>0, <1>3 DEF PortOK
<1>6. refused \subseteq refused' /\ ~Closing(t)
  BY <1>0, <1>1 DEF Closing
<1>7. \/ /\ readerTracker' = readerTracker
         /\ \/ HasReader(Port(k))
            \/ backend # "libudev" /\ readerTracker[k].address \in refused'
      \/ /\ readerTracker' = [readerTracker EXCEPT ![k] = NoDevice]
         /\ ~HasReader(Port(k))
  BY <1>1, <1>3, <1>4, <1>5
<1>8. ReadersInv'
  BY <1>0, <1>1, <1>2, <1>6, <1>7, DoneFrame
<1> QED BY <1>0, <1>8, AddDoneBus

\* RFRemoveReader() has returned.
LEMMA RemoveDoneDevice ==
  ASSUME DeviceInv, NEW t \in Hotplugs, RemoveDone(t)
  PROVE  BusInv' /\ ReadersInv'
<1>0. Inv /\ BusInv /\ ReadersInv /\ PortOK(t) /\ pc[t] = "removed"
  BY DEF DeviceInv, ReadersInv, RemoveDone
<1>1. /\ Goto(t, "idle") /\ SetJob(t, NoJob) /\ UNCHANGED <<reader, backend, refused>>
      /\ readerTracker' = [readerTracker EXCEPT ![IndexOf(t)] = NoDevice]
  BY DEF RemoveDone
<1>2. PICK k : DoneAt(t, k)
  BY <1>0, <1>1, DoneIndex
<1>3. k = IndexOf(t) /\ job[t].port = Port(k)
  BY <1>2 DEF DoneAt
<1>4. ~HasReader(Port(k)) /\ job[t].library = "none" /\ ~Closing(t)
  BY <1>0, <1>3 DEF PortOK, Closing
<1>5. ReadersInv'
  BY <1>0, <1>1, <1>2, <1>3, <1>4, DoneFrame
<1> QED BY <1>0, <1>4, <1>5, RemoveDoneBus

\* The bus changes.
LEMMA PlugDevice ==
  ASSUME DeviceInv, NEW p \in Places, Plug(p) \/ Unplug(p)
  PROVE  BusInv' /\ ReadersInv'
<1>0. Inv /\ BusInv /\ ReadersInv
  BY DEF DeviceInv
<1>1. UNCHANGED <<reader, pc, job, backend, readerTracker, refused>>
  BY DEF Plug, Unplug
<1> QED BY <1>0, <1>1, RestFrame, PlugBus, UnplugBus

-----------------------------------------------------------------------------
\* The invariant

\* The daemon starts without devices.
LEMMA InitDevice == Init => DeviceInv
<1> SUFFICES ASSUME Init PROVE DeviceInv
  OBVIOUS
<1>0. Inv
  BY InitInv
<1>1. /\ \A i \in Entries : ~reader[i].vHandle
      /\ \A t \in Threads : pc[t] = "idle"
      /\ \A t \in Hotplugs : pc[t] = "idle" /\ scan[t] = NoScan
      /\ \A p \in Places : plugged[p] = 0
      /\ events = <<>> /\ backend \in Backends
      /\ readerTracker = <<NoDevice, NoDevice>>
  BY DEF Init, LifecycleInit, FreeEntry, Threads
<1>2. Present = {}
  BY <1>1 DEF Present, Indices
<1>3. Len(events) = 0
  BY <1>1
<1>4. JobsTracked /\ AddressesOK
  BY <1>1, <1>2 DEF JobsTracked, AddressesOK, NoScan
<1>5. UdevOK
  BY <1>1, <1>2, <1>3 DEF UdevOK, PlacesApart, AddAfterRemove, GoneIsTold, NewIsTold
<1>6. Known = {}
  BY <1>1, <1>2 DEF Known, Scanned, OnBus, NoScan
<1>7. UsbOK
  BY <1>1, <1>2, <1>6 DEF UsbOK, AddressesApart, ScanTracked, FoundIsKept, NoScan
<1>8. ReadersTracked /\ TrackedHasReader /\ LastIsClosing
  BY <1>1, <1>2 DEF ReadersTracked, TrackedHasReader, LastIsClosing, Alive
<1>9. \A t \in Hotplugs : PortOK(t)
  BY <1>1 DEF PortOK, Adding, Sweeping, Dropping
<1> QED BY <1>0, <1>1, <1>4, <1>5, <1>7, <1>8, <1>9 DEF DeviceInv, BusInv, ReadersInv

\* Every step of a hotplug thread keeps it.
LEMMA HotplugThreadDevice ==
  ASSUME DeviceInv, Calm', ~(Received /\ Busy("signal")), NEW t \in Hotplugs,
         HotplugThread(t)
  PROVE  BusInv' /\ ReadersInv'
<1>0. \/ ReceiveAdd(t) \/ ReceiveRemove(t)
      \/ HPReCheckSerialReaders(t) \/ HPRescanUsbBus(t)
      => Alone(t)
  BY StartsAlone DEF DeviceInv
<1>1. CASE ReceiveAdd(t)
  BY <1>0, <1>1, ReceiveAddDevice
<1>2. CASE ReceiveRemove(t)
  BY <1>0, <1>2, ReceiveRemoveDevice
<1>3. CASE HPReCheckSerialReaders(t) \/ HPRescanUsbBus(t)
  <2>1. ScanDevices(t)
    BY <1>3 DEF HPReCheckSerialReaders, HPRescanUsbBus
  <2> QED BY <1>0, <1>3, <2>1, ScanDevicesDevice
<1>4. CASE ScanNext(t)
  BY <1>4, ScanNextDevice
<1>5. CASE ScanDone(t)
  BY <1>5, ScanDoneDevice
<1>6. CASE TryClassDriver(t)
  BY <1>6, TryClassDriverDevice
<1>7. CASE AddDone(t)
  BY <1>7, AddDoneDevice
<1>8. CASE RemoveDone(t)
  BY <1>8, RemoveDoneDevice
<1>9. CASE AddReader(t) /\ UNCHANGED hotplugVars
  BY <1>9, AddReaderDevice
<1>10. CASE RFLoadReader(t) /\ UNCHANGED hotplugVars
  BY <1>10, RFLoadReaderDevice
<1>11. CASE StartReader(t, DeviceIsThere(t)) /\ UNCHANGED hotplugVars
  BY <1>11, StartReaderDevice, Zenon
<1>12. CASE AddSlot(t) /\ UNCHANGED hotplugVars
  BY <1>12, AddSlotDevice
<1>13. CASE SlotsDone(t) /\ UNCHANGED hotplugVars
  BY <1>13, SlotsDoneDevice
<1>14. CASE SweepEntry(t) /\ UNCHANGED hotplugVars
  BY <1>14, SweepEntryDevice
<1>15. CASE SweepDone(t) /\ UNCHANGED hotplugVars
  BY <1>15, SweepDoneDevice
<1>16. CASE FillEntry(t) /\ UNCHANGED hotplugVars
  BY <1>16, FillEntryDevice
<1>17. CASE FillSlot(t) /\ UNCHANGED hotplugVars
  BY <1>17, FillSlotDevice
<1> QED
  BY <1>1, <1>2, <1>3, <1>4, <1>5, <1>6, <1>7, <1>8, <1>9, <1>10, <1>11,
     <1>12, <1>13, <1>14, <1>15, <1>16, <1>17, Zenon DEF HotplugThread

\* Every step keeps it, unless threads get in each other's way.
LEMMA NextDevice ==
  ASSUME DeviceInv, Calm', ~(Received /\ Busy("signal")), Next
  PROVE  DeviceInv'
<1>0. Inv /\ BusInv /\ ReadersInv /\ Inv'
  BY NextInv DEF DeviceInv
<1>1. CASE \E t \in Hotplugs : HotplugThread(t)
  BY <1>0, <1>1, HotplugThreadDevice DEF DeviceInv
<1>2. CASE \E p \in Places : Plug(p) \/ Unplug(p)
  BY <1>0, <1>2, PlugDevice DEF DeviceInv
<1>3. CASE (\E c \in Clients : Client(c)) /\ UNCHANGED hotplugVars
  <2>1. PICK c \in Clients : Client(c)
    BY <1>3
  <2>2. CASE RFUnrefReader(c)
    BY <1>0, <1>3, <2>2, RFUnrefReaderDevice DEF DeviceInv
  <2>3. CASE \E i \in Entries : RFReaderInfo(c, i)
    BY <1>0, <1>3, <2>3, RFReaderInfoDevice DEF DeviceInv
  <2>4. CASE ReaderIsHeld(c)
    BY <1>0, <1>3, <2>4, ReaderIsHeldDevice DEF DeviceInv
  <2> QED BY <2>1, <2>2, <2>3, <2>4 DEF Client
<1>4. CASE (\E t \in Threads : RemoveReader(t)) /\ UNCHANGED hotplugVars
  BY <1>0, <1>4, RemoveReaderDevice DEF DeviceInv
<1>5. CASE (\E i \in Entries : EventThread(i)) /\ UNCHANGED hotplugVars
  BY <1>0, <1>5, EventThreadDevice DEF DeviceInv
<1> QED BY <1>1, <1>2, <1>3, <1>4, <1>5, Zenon DEF Next

\* So does a step that changes nothing.
LEMMA SameDevices ==
  ASSUME DeviceInv, UNCHANGED vars
  PROVE  DeviceInv'
<1>0. Inv /\ BusInv /\ ReadersInv
  BY DEF DeviceInv
<1>1. HotplugTypes' /\ UNCHANGED <<lifecycleVars, readerTracker, scan>>
  BY <1>0 DEF vars, Inv, HotplugTypes
<1>2. Calm'
  BY <1>0 DEF vars, Inv, Calm, Apart, PortsApart, FoundStays, OneRereads,
              OneReleases, Used, Busy
<1>3. Inv'
  BY <1>0, <1>1, <1>2, BusFrame
<1>4. UNCHANGED <<reader, pc, job, backend, readerTracker, refused>>
      /\ UNCHANGED hotplugVars
  BY DEF vars
<1>5. \A t \in Hotplugs : SameWork(t)
  BY <1>4 DEF SameWork
<1> QED BY <1>0, <1>3, <1>4, <1>5, RestFrame, WorkFrame DEF DeviceInv

-----------------------------------------------------------------------------
\* The theorems

\* Until two threads have got in each other's way, every reachable state
\* satisfies the invariant: for any number of places, devices, readers and
\* clients, what the tracker of hotplug_libudev.c or hotplug_libusb.c and the bus
\* disagree about is in an event, in a scan or in the hands of a thread, and so
\* is what the tracker and the table of readers disagree about.
THEOREM DeviceInvariance == Spec => [](raced \/ DeviceInv)
<1>1. Init => raced \/ DeviceInv
  BY InitDevice
<1>2. ASSUME raced \/ DeviceInv, [Next]_vars PROVE raced' \/ DeviceInv'
  <2>1. CASE UNCHANGED vars
    <3>1. raced' = raced
      BY <2>1 DEF vars
    <3> QED BY <1>2, <2>1, <3>1, SameDevices
  <2>2. CASE Next
    <3> SUFFICES ASSUME ~raced' PROVE DeviceInv'
      OBVIOUS
    <3>1. raced' = (raced \/ Colliding' \/ (Received /\ Busy("signal")))
      BY <2>2, Zenon DEF Next, NoteRaces
    <3>2. ~raced /\ ~Colliding' /\ ~(Received /\ Busy("signal"))
      BY <3>1, Zenon
    <3>3. DeviceInv /\ Calm'
      BY <1>2, <3>2, NotColliding
    <3> QED BY <2>2, <3>2, <3>3, NextDevice
  <2> QED BY <1>2, <2>1, <2>2
<1> QED BY <1>1, <1>2, PTL DEF Spec

\* A device of the tracker that no thread works on has a reader, unless libusb
\* remembers that it was refused.
LEMMA RestingReader ==
  ASSUME DeviceInv, NEW k \in Present, \A t \in Hotplugs : pc[t] = "idle"
  PROVE  \/ backend # "libudev" /\ readerTracker[k].address \in refused
         \/ \E i \in Used : reader[i].port = Port(k)
<1>1. \A i \in Entries : reader[i].vHandle <=> i \in Used
  BY UsedIsLive DEF DeviceInv
<1>2. \/ backend # "libudev" /\ readerTracker[k].address \in refused
      \/ HasReader(Port(k))
  BY DEF DeviceInv, ReadersInv, TrackedHasReader, Working
<1> QED BY <1>1, <1>2 DEF HasReader, Alive

\* HPAddDevice() and HPRemoveDevice() lose nothing: however plugging, unplugging,
\* events and scans follow each other, once libudev is quiet its table has the
\* devices that are plugged in and were not refused, and RFAddReader() and
\* RFRemoveReader() have left a reader for each of them and no others, unless
\* threads have got in each other's way.
THEOREM ReadersFollow == Spec => []ReadersFollowDevices
<1>1. raced \/ DeviceInv => ReadersFollowDevices
  <2> SUFFICES ASSUME DeviceInv, Quiet, backend = "libudev"
               PROVE  /\ \A p \in Places : \/ plugged[p] \in refused \cup {0}
                                           \/ Tracked(Device(p))
                      /\ \A k \in Indices : readerTracker[k] # NoDevice =>
                           /\ plugged[readerTracker[k].place] # 0
                           /\ \E i \in Used : reader[i].port = Port(k)
                      /\ \A i \in Used : \E k \in Indices :
                           reader[i].port = Port(k) /\ readerTracker[k] # NoDevice
    BY DEF ReadersFollowDevices
  <2>0. /\ Inv /\ GoneIsTold /\ NewIsTold /\ AddressesOK
        /\ ReadersTracked /\ LastIsClosing
        /\ Present \subseteq Indices
    BY PresentDevice DEF DeviceInv, BusInv, UdevOK, ReadersInv
  <2>1. /\ \A t \in Hotplugs : pc[t] = "idle"
        /\ \A c \in Clients : pc[c] = "idle"
        /\ \A t \in Threads : pc[t] = "idle"
    BY DEF Quiet, Threads
  <2>2. \A a, p : ~Pending(a, p)
    <3>1. Len(events) = 0
      BY DEF Quiet
    <3> QED BY <3>1 DEF Pending
  <2>3. ASSUME NEW p \in Places, plugged[p] \notin refused \cup {0}
        PROVE  Tracked(Device(p))
    <3>1. PICK k \in Present : readerTracker[k].place = p
      BY <2>0, <2>2, <2>3 DEF NewIsTold
    <3>2. Device(p).place = p
      BY DEF Device
    <3> QED BY <2>0, <3>1, <3>2 DEF Tracked, SameDevice
  <2>4. ASSUME NEW k \in Indices, readerTracker[k] # NoDevice
        PROVE  /\ plugged[readerTracker[k].place] # 0
               /\ \E i \in Used : reader[i].port = Port(k)
    <3>1. k \in Present
      BY <2>4 DEF Present
    <3>2. ~Removing(k)
      BY <2>1 DEF Removing, Working
    <3>3. plugged[readerTracker[k].place] # 0
      BY <2>0, <2>2, <3>1, <3>2 DEF GoneIsTold, AddressesOK
    <3> QED BY <2>1, <3>1, <3>3, RestingReader
  <2>5. ASSUME NEW i \in Used
        PROVE  \E k \in Indices : reader[i].port = Port(k) /\ readerTracker[k] # NoDevice
    <3>1. i \in Entries /\ reader[i].vHandle
      BY DEF Used
    <3>2. ~reader[i].removed
      <4> SUFFICES ASSUME reader[i].removed PROVE FALSE
        OBVIOUS
      <4>1. Holders(i) = {}
        BY <2>1 DEF Holders
      <4>2. reader[i].reference = 0
        BY <2>0, <3>1, <4>1, FS_EmptySet DEF Inv, EntryOK, Own
      <4>3. PICK t \in Threads : Closing(t)
        BY <2>0, <3>1, <4>2 DEF LastIsClosing
      <4> QED BY <2>1, <4>3 DEF Closing
    <3>3. PICK k \in Present : reader[i].port = Port(k)
      BY <2>0, <3>1, <3>2 DEF ReadersTracked, Alive
    <3> QED BY <2>0, <3>3 DEF Present
  <2> QED BY <2>3, <2>4, <2>5
<1> QED BY <1>1, DeviceInvariance, PTL

\* Only ScanDone() ends a scan.
LEMMA ScanEnds ==
  ASSUME Inv, Next, NEW t \in Hotplugs, scan[t].active, ~scan'[t].active
  PROVE  ScanDone(t) /\ scan' # scan
<1>0. scan \in [Hotplugs -> ScanRecords]
  BY DEF Inv, HotplugTypes
<1>1. scan' # scan
  OBVIOUS
<1>2. PICK u \in Hotplugs : HotplugThread(u) /\ scan' # scan
  BY <1>1 DEF Next, Plug, Unplug
<1>3. CASE ScanDevices(u)
  <2>1. scan'[u].active /\ \A v \in Hotplugs : v # u => scan'[v] = scan[v]
    BY <1>0, <1>3 DEF ScanDevices
  <2> QED BY <2>1
<1>4. CASE ScanNext(u)
  <2>1. PICK d : scan' = [scan EXCEPT ![u].todo = @ \ {d}]
    BY <1>4 DEF ScanNext
  <2>2. scan'[u].active = scan[u].active
        /\ \A v \in Hotplugs : v # u => scan'[v] = scan[v]
    BY <1>0, <2>1 DEF ScanRecords
  <2> QED BY <2>2
<1>5. CASE ScanDone(u)
  <2>1. \A v \in Hotplugs : v # u => scan'[v] = scan[v]
    BY <1>0, <1>5 DEF ScanDone
  <2> QED BY <1>1, <1>5, <2>1
<1>6. ScanDevices(u) \/ ScanNext(u) \/ ScanDone(u)
  BY <1>2 DEF HotplugThread, ReceiveAdd, ReceiveRemove, HPReCheckSerialReaders,
              HPRescanUsbBus, TryClassDriver, AddDone, RemoveDone
<1> QED BY <1>3, <1>4, <1>5, <1>6

\* HPRescanUsbBus() leaves libusb with the devices it has found: however many
\* came, went or were refused, when a scan ends the table has each of them and
\* no others, and RFAddReader() has made a reader for those that were accepted,
\* unless threads have got in each other's way.
THEOREM ScanMatches == Spec => ScanMatchesBus
<1>1. ASSUME DeviceInv, Next, NEW t \in Hotplugs,
             backend = "libusb", scan[t].active, ~scan'[t].active
      PROVE  /\ scan[t].found = {readerTracker[k] : k \in Indices} \ {NoDevice}
             /\ \A k \in Indices :
                  \/ readerTracker[k].address \in refused \cup {0}
                  \/ \E i \in Used : reader[i].port = Port(k)
  <2>0. Inv /\ ScanTracked /\ Present \subseteq Indices
        /\ \A k \in Indices : k \in Present \/ readerTracker[k] = NoDevice
    BY <1>1, PresentDevice DEF DeviceInv, BusInv, UsbOK
  <2>1. ScanDone(t) /\ scan' # scan
    BY <1>1, <2>0, ScanEnds
  <2>2. pc[t] = "idle" /\ scan[t].todo = {} /\ AbsentDevices(t) = {}
    BY <1>1, <2>1 DEF ScanDone
  <2>3. scan[t].found = {readerTracker[k] : k \in Indices} \ {NoDevice}
    <3>1. ASSUME NEW d \in scan[t].found
          PROVE  d \in {readerTracker[k] : k \in Indices} \ {NoDevice}
      <4>1. PICK k \in Present : readerTracker[k] = d
        BY <2>0, <2>2 DEF ScanTracked
      <4> QED BY <2>0, <4>1 DEF Present
    <3>2. ASSUME NEW k \in Indices, readerTracker[k] # NoDevice
          PROVE  readerTracker[k] \in scan[t].found
      BY <2>2, <3>2 DEF AbsentDevices
    <3> QED BY <3>1, <3>2
  <2>4. \A u \in Hotplugs : pc[u] = "idle"
    <3>1. Busy(t)
      BY <1>1 DEF Busy, NoScan
    <3> QED BY <2>0, <2>2, <3>1, OthersRest DEF Alone
  <2>5. ASSUME NEW k \in Indices
        PROVE  \/ readerTracker[k].address \in refused \cup {0}
               \/ \E i \in Used : reader[i].port = Port(k)
    <3>1. CASE readerTracker[k] = NoDevice
      BY <3>1 DEF NoDevice
    <3>2. CASE k \in Present
      BY <1>1, <2>4, <3>2, RestingReader
    <3> QED BY <2>0, <3>1, <3>2
  <2> QED BY <2>3, <2>5
<1>2. (raced \/ DeviceInv) /\ [Next]_vars =>
        [\A t \in Hotplugs :
           ~raced /\ backend = "libusb" /\ scan[t].active /\ ~scan'[t].active =>
             /\ scan[t].found = {readerTracker[k] : k \in Indices} \ {NoDevice}
             /\ \A k \in Indices :
                  \/ readerTracker[k].address \in refused \cup {0}
                  \/ \E i \in Used : reader[i].port = Port(k)]_vars
  BY <1>1
<1> QED BY <1>2, DeviceInvariance, PTL DEF Spec, ScanMatchesBus
=============================================================================
