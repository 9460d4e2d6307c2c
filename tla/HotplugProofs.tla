--------------------------- MODULE HotplugProofs ---------------------------
(***************************************************************************)
(* Proofs about the readers of readerfactory.c and the threads that add,   *)
(* use and remove them, for any number of clients, places, readers, slots  *)
(* and library failures.  No mutex guards the table, and a behaviour in    *)
(* which two threads have got in each other's way (raced, see Colliding)   *)
(* may end in any state; the theorems are about the states before that.    *)
(*                                                                         *)
(* The inductive invariant Inv says, besides the types:                    *)
(*   - no two threads are where one of them should have been kept out      *)
(*     (Calm, the parts of ~Colliding);                                    *)
(*   - the reference count of a reader is one for the table, until it is   *)
(*     removed, and one for each command that uses it (EntryOK);           *)
(*   - a thread that closes a reader has taken its last reference and is   *)
(*     alone in doing so (WorkOK, ClosersApart);                           *)
(*   - pFeeds and pMutex count the readers that share them, those included *)
(*     whose driver has been given up and whose counters have not, and a   *)
(*     library is loaded once for each driver in use (Counts);             *)
(*   - the readers of a driver differ in their number or their slot, and   *)
(*     the Lun is made of both (Numbers);                                  *)
(*   - a port that is in use is that of an entry of readerTracker, and     *)
(*     RFSetReaderName() sees every other reader of the driver when it     *)
(*     looks for a number (Ports, AddsPort);                               *)
(*   - the entry, the number and the parent that RFAddReader() has found   *)
(*     are still free and there when it uses them (WorkOK, SearchOK).      *)
(* The search for a number rests on the pigeonhole principle (FreeElement):*)
(* there are fewer readers than numbers.                                   *)
(***************************************************************************)
EXTENDS Hotplug, FiniteSetTheorems, WellFoundedInduction, SequenceTheorems,
        TLAPS

USE DEF tableVars, sharedVars, lifecycleVars, hotplugVars

-----------------------------------------------------------------------------
\* Types

ClientSteps == {"idle", "found", "holding", "reread", "stomp", "join", "close",
                "release"}

HotplugSteps == {"idle", "add", "fill", "load", "open", "nextSlot", "fillSlot",
                 "added", "sweep", "removed", "reread", "stomp", "join", "close",
                 "release"}

ReaderRecords ==
  [vHandle : BOOLEAN, library : Libraries \cup {"none"}, number : Nat,
   sub : Nat, port : Nat, device : Seq(Nat), slot : Int,
   feeds : Objects \cup {NULL}, mutex : Objects \cup {NULL},
   reference : Nat, removed : BOOLEAN, thread : BOOLEAN,
   hLockId : {"0", "0xFFFF"}]

ReturnValues == {"SUCCESS", "DUPLICATE_READER", "NO_MEMORY", "UNKNOWN_ERROR",
                 "INVALID_TARGET", "UNKNOWN_READER"}

JobRecords ==
  [entry : Nat, port : Nat, device : Seq(Nat),
   library : Libraries \cup {"none"}, first : Nat, sub : Nat, number : Nat,
   parent : Int, rv : ReturnValues]

FoundDevices == [place : Places, address : Nat]

DeviceRecords == FoundDevices \cup {NoDevice}

ScanRecords ==
  [active : BOOLEAN, todo : SUBSET FoundDevices, found : SUBSET FoundDevices]

EventRecords == [action : {"add", "remove"}, place : Places]

LifecycleTypes ==
  /\ maxReaderContext \in Nat
  /\ reader \in [Entries -> ReaderRecords]
  /\ pFeeds \in [Objects -> Nat]
  /\ pMutex \in [Objects -> Nat]
  /\ loaded \in [Libraries -> Nat]
  /\ driver \in Drivers
  /\ evPc \in [Entries -> {"none", "running", "cancelled"}]
  /\ pc \in [Threads -> HotplugSteps \cup ClientSteps]
  /\ \A c \in Clients : pc[c] \in ClientSteps
  /\ \A t \in Hotplugs : pc[t] \in HotplugSteps
  /\ job \in [Threads -> JobRecords]

HotplugTypes ==
  /\ plugged \in [Places -> Nat]
  /\ address \in Nat
  /\ events \in Seq(EventRecords)
  /\ readerTracker \in Seq(DeviceRecords)
  /\ scan \in [Hotplugs -> ScanRecords]

-----------------------------------------------------------------------------
\* Who works on what

\* The threads have not got in each other's way: the parts of ~Colliding.
Apart == \A t, u \in Hotplugs : Busy(t) /\ Busy(u) => t = u

PortsApart ==
  \A t \in Hotplugs, i \in Used : reader[i].port = job[t].port =>
    /\ pc[t] = "add" => job[t].library # "driver"
    /\ pc[t] = "sweep" /\ i >= job[t].entry => ~reader[i].removed

FoundStays ==
  \A c \in Clients : pc[c] = "found" => reader[job[c].entry].reference # 0

OneRereads ==
  \A t, u \in Threads :
    /\ pc[t] = "reread" /\ pc[u] = "reread" /\ job[t].entry = job[u].entry
    /\ reader[job[t].entry].reference = 0
    => t = u

OneReleases ==
  \A t, u \in Threads :
    pc[t] = "release" /\ pc[u] \in {"release", "fill", "fillSlot"} => t = u

Calm == Apart /\ PortsApart /\ FoundStays /\ OneRereads /\ OneReleases

\* Thread t closes the reader of its entry, or is about to find out that it
\* has to.
Closing(t) ==
  \/ pc[t] \in {"stomp", "join", "close"}
  \/ pc[t] = "reread" /\ reader[job[t].entry].reference = 0

\* Hotplug thread t adds a reader.
Adding(t) == pc[t] \in {"load", "open", "nextSlot", "fillSlot"}

Loading(i) == \E t \in Hotplugs : pc[t] = "load" /\ job[t].entry = i

\* A thread has given up the driver of the reader and not yet its counters.
Leaving(i) == \E t \in Threads : pc[t] = "release" /\ job[t].entry = i

\* The reference the table holds until the reader is removed.
Own(r) == IF r.removed THEN 0 ELSE 1

\* The other references are those of the threads that run a command.
EntryOK(i) ==
  /\ IsFiniteSet(Holders(i))
  /\ Holders(i) # {} => reader[i].vHandle
  /\ reader[i].vHandle =>
       /\ i < maxReaderContext
       /\ reader[i].reference = Own(reader[i]) + Cardinality(Holders(i))
  /\ evPc[i] # "none" => reader[i].vHandle /\ reader[i].thread

\* A thread closes a reader that nobody refers to, and the reader a hotplug
\* thread adds is not removed before it has been added.
WorkOK(t) ==
  /\ pc[t] \in {"found", "holding", "reread", "release"} \/ Closing(t) =>
       job[t].entry \in Entries
  /\ pc[t] \in {"found", "reread"} => reader[job[t].entry].vHandle
  /\ pc[t] = "release" => LET r == reader[job[t].entry]
                          IN ~r.vHandle /\ r.reference = 0
  /\ Closing(t) => LET r == reader[job[t].entry]
                   IN /\ r.vHandle /\ r.reference = 0
                      /\ pc[t] = "close" => ~r.thread
  /\ pc[t] \in {"fill", "load", "open", "fillSlot"} =>
       /\ job[t].entry \in Entries
       /\ job[t].entry < maxReaderContext
  /\ pc[t] \in {"fill", "fillSlot"} => ~reader[job[t].entry].vHandle
  /\ pc[t] \in {"load", "open"} => ~reader[job[t].entry].removed
  /\ pc[t] = "load" /\ ~reader[job[t].entry].vHandle =>
       reader[job[t].entry].reference = 1
  /\ pc[t] = "open" => reader[job[t].entry].vHandle
  /\ Adding(t) =>
       /\ job[t].first \in Entries
       /\ ~reader[job[t].first].removed
       /\ \/ reader[job[t].first].vHandle
          \/ pc[t] = "load" /\ job[t].first = job[t].entry
  /\ pc[t] = "idle" => job[t].library = "none"
  /\ Adding(t) \/ pc[t] \in {"add", "fill"} => job[t].rv = "SUCCESS"
  /\ Adding(t) \/ pc[t] \in {"add", "fill", "added"} \/ job[t].rv # "SUCCESS" =>
       job[t].library \in Libraries

\* Each reader is closed by one thread.
ClosersApart ==
  \A t, u \in Threads :
    Closing(t) /\ Closing(u) /\ job[t].entry = job[u].entry => t = u

-----------------------------------------------------------------------------
\* What the readers share

\* The readers there are, and those that count among the readers of a driver.
Live == {i \in Entries : reader[i].vHandle \/ Loading(i)}
Counted == {i \in Entries : i \in Live \/ Leaving(i)}

Feeding(o) == {i \in Counted : reader[i].feeds = o}
Sharing(o) == {i \in Counted : reader[i].mutex = o}

\* The drivers a library has been loaded for.
LoadedFor(lib) ==
  {o \in Objects :
     \E i \in Entries : /\ reader[i].vHandle /\ reader[i].feeds = o
                        /\ reader[i].library = lib}

\* A counter is exact, or lost when a driver could not be loaded.
Exact(count, users) ==
  count = Cardinality(users) \/ ("load" \in driver.fails /\ users = {})

Counts ==
  /\ \A i \in Counted : /\ reader[i].feeds \in Objects
                        /\ reader[i].mutex \in Objects
                        /\ reader[i].library \in Libraries
  /\ \A o \in Objects : Exact(pFeeds[o], Feeding(o))
  /\ \A o \in Objects : Exact(pMutex[o], Sharing(o))
  /\ \A i, k \in Live : reader[i].feeds = reader[k].feeds =>
       reader[i].library = reader[k].library
  /\ \A i \in Live, k \in Counted : i # k /\ ~reader[i].vHandle =>
       /\ reader[i].feeds # reader[k].feeds
       /\ reader[i].mutex # reader[k].mutex
  /\ \A lib \in Libraries : loaded[lib] = Cardinality(LoadedFor(lib))

-----------------------------------------------------------------------------
\* Numbers and ports

\* Two readers of a driver have different numbers or are two of its slots.
Numbers ==
  /\ \A i \in Live : \/ reader[i].slot = -1
                     \/ reader[i].slot = reader[i].number * 65536 + reader[i].sub
  /\ \A i \in Live : reader[i].sub < 256
  /\ \A i, k \in Live :
       /\ i # k
       /\ reader[i].library = reader[k].library
       /\ reader[i].number = reader[k].number
       => reader[i].sub # reader[k].sub

\* The ports that are in use are those of the entries of readerTracker.
Ports ==
  /\ \A i \in Live : reader[i].port <= Port(Len(readerTracker))
  /\ \A t \in Hotplugs : job[t].library # "none" =>
       job[t].port <= Port(Len(readerTracker))

\* The reader that is being added is the only one of its library that has its
\* port, and its next slot has a new number.
AddsPort(t) ==
  /\ job[t].library # "none" =>
       \A i \in Live : reader[i].port = job[t].port =>
         \/ /\ reader[i].library = "driver"
            /\ pc[t] \in {"add", "fill"} => job[t].library = "class"
         \/ /\ reader[i].library = "class" /\ job[t].library = "class"
            /\ pc[t] \notin {"add", "fill"}
  /\ Adding(t) =>
       /\ reader[job[t].first].slot # -1
       /\ reader[job[t].first].sub = 0
       /\ job[t].sub < 255
       /\ \A i \in Live :
            /\ reader[i].library = reader[job[t].first].library
            /\ reader[i].number = reader[job[t].first].number
            => /\ reader[i].sub <= job[t].sub
               /\ pc[t] = "fillSlot" => reader[i].sub < job[t].sub

\* The number and the parent that have been found for a reader.
SearchOK(t) ==
  pc[t] = "fill" =>
    /\ job[t].first = job[t].entry /\ job[t].sub = 0
    /\ \A i \in Live : reader[i].library = job[t].library =>
         reader[i].number # job[t].number
    /\ job[t].parent # NoParent =>
         /\ job[t].parent \in Entries
         /\ reader[job[t].parent].vHandle
         /\ reader[job[t].parent].library = job[t].library

Inv ==
  /\ LifecycleTypes /\ HotplugTypes /\ Calm /\ ClosersApart
  /\ \A i \in Entries : EntryOK(i)
  /\ \A t \in Threads : WorkOK(t)
  /\ Counts /\ Numbers /\ Ports
  /\ \A t \in Hotplugs : AddsPort(t) /\ SearchOK(t)

-----------------------------------------------------------------------------
\* Lemmas about the operators

\* The least of some natural numbers is one of them.
LEMMA MinNat ==
  ASSUME NEW S, S \subseteq Nat, S # {}
  PROVE  Min(S) \in S /\ \A x \in S : Min(S) <= x
<1>1. \E x \in S : \A y \in S : ~(<<y, x>> \in OpToRel(<, Nat))
  BY NatLessThanWellFounded, WFMin
<1>2. ASSUME NEW x \in Nat, NEW y \in Nat, y < x
      PROVE  <<y, x>> \in OpToRel(<, Nat)
  BY <1>2 DEF OpToRel
<1>3. \E x \in S : \A y \in S : x <= y
  <2>1. PICK x \in S : \A y \in S : ~(<<y, x>> \in OpToRel(<, Nat))
    BY <1>1
  <2>2. \A y \in S : ~(y < x)
    BY <1>2, <2>1
  <2>3. \A y \in S : x <= y
    BY <2>2
  <2> QED BY <2>3
<1> QED BY <1>3 DEF Min

\* The last of some entries is one of them.
LEMMA MaxEntry ==
  ASSUME NEW S, S \subseteq Entries, S # {}
  PROVE  Max(S) \in S
<1> USE LifecycleAssumption DEF Entries
<1> DEFINE T == {x \in Nat : MaxReaders - x \in S}
<1>1. T # {}
  <2>1. PICK y \in S : TRUE
    OBVIOUS
  <2>2. MaxReaders - y \in T
    OBVIOUS
  <2> QED BY <2>2
<1>2. Min(T) \in T /\ \A x \in T : Min(T) <= x
  BY <1>1, MinNat
<1>3. \E x \in S : \A y \in S : x >= y
  <2>1. ASSUME NEW y \in S PROVE MaxReaders - Min(T) >= y
    <3>1. MaxReaders - y \in T
      OBVIOUS
    <3> QED BY <1>2, <3>1
  <2> QED BY <1>2, <2>1
<1> QED BY <1>3 DEF Max

\* Fewer readers than values leave a value unused.
LEMMA FreeElement ==
  ASSUME NEW N, IsFiniteSet(N), NEW T, IsFiniteSet(T),
         Cardinality(T) < Cardinality(N), NEW C, C \subseteq T, NEW f
  PROVE  \E x \in N : \A i \in C : f[i] # x
<1>1. SUFFICES ASSUME \A x \in N : \E i \in C : f[i] = x
               PROVE  FALSE
  OBVIOUS
<1> DEFINE g == [x \in N |-> CHOOSE i \in C : f[i] = x]
<1>2. \A x \in N : g[x] \in C /\ f[g[x]] = x
  BY <1>1
<1>3. g \in [N -> T]
  BY <1>2
<1> HIDE DEF g
<1>4. \E x, y \in N : x # y /\ g[x] = g[y]
  BY <1>3, FS_PigeonHole
<1> QED BY <1>2, <1>4

\* An assignment to one field keeps a reader well formed.
LEMMA ReaderType ==
  ASSUME NEW r \in ReaderRecords
  PROVE  /\ \A n \in Nat : [r EXCEPT !.reference = n] \in ReaderRecords
         /\ \A n \in Nat, b \in BOOLEAN :
              [r EXCEPT !.reference = n, !.removed = b] \in ReaderRecords
         /\ \A b \in BOOLEAN : [r EXCEPT !.vHandle = b] \in ReaderRecords
         /\ \A b \in BOOLEAN : [r EXCEPT !.thread = b] \in ReaderRecords
         /\ \A s \in Int : [r EXCEPT !.slot = s] \in ReaderRecords
         /\ \A h \in {"0", "0xFFFF"} : [r EXCEPT !.hLockId = h] \in ReaderRecords
BY DEF ReaderRecords

\* A free entry, and a thread that does nothing.
LEMMA FreeType ==
  /\ FreeEntry \in ReaderRecords
  /\ NoJob \in JobRecords
  /\ NoScan \in ScanRecords
<1>1. <<>> \in Seq(Nat)
  OBVIOUS
<1>2. FreeEntry \in ReaderRecords
  <2>1. NULL \in Objects \cup {NULL} /\ "none" \in Libraries \cup {"none"}
        /\ "0" \in {"0", "0xFFFF"}
    OBVIOUS
  <2> QED BY <1>1, <2>1 DEF FreeEntry, ReaderRecords
<1>3. NoJob \in JobRecords
  BY <1>1 DEF NoJob, JobRecords, ReturnValues, NoParent
<1>4. NoScan \in ScanRecords
  BY DEF NoScan, ScanRecords
<1> QED BY <1>2, <1>3, <1>4

\* An assignment to one local variable.
LEMMA JobType ==
  ASSUME NEW j \in JobRecords
  PROVE  /\ \A n \in Nat : [j EXCEPT !.entry = n] \in JobRecords
         /\ \A r \in ReturnValues : [j EXCEPT !.rv = r] \in JobRecords
         /\ \A r \in ReturnValues, n \in Nat :
              [j EXCEPT !.rv = r, !.entry = n] \in JobRecords
         /\ \A n, m, s, a \in Nat, q \in Int :
              [j EXCEPT !.entry = n, !.first = m, !.sub = s, !.number = a,
                        !.parent = q] \in JobRecords
         /\ \A n, s \in Nat : [j EXCEPT !.entry = n, !.sub = s] \in JobRecords
         /\ \A n \in Nat : [j EXCEPT !.port = n] \in JobRecords
         /\ \A n \in Nat, l \in Libraries, d \in Seq(Nat) :
              [j EXCEPT !.port = n, !.library = l, !.device = d] \in JobRecords
         /\ \A l \in Libraries, r \in ReturnValues, n \in Nat :
              [j EXCEPT !.library = l, !.rv = r, !.entry = n] \in JobRecords
BY DEF JobRecords

-----------------------------------------------------------------------------
\* Steps that leave parts of the state alone

\* The readers, their numbers and what they share stay the same.
SameReader(i) ==
  /\ reader'[i].vHandle = reader[i].vHandle
  /\ reader'[i].library = reader[i].library
  /\ reader'[i].feeds = reader[i].feeds
  /\ reader'[i].mutex = reader[i].mutex
  /\ reader'[i].number = reader[i].number
  /\ reader'[i].sub = reader[i].sub
  /\ reader'[i].slot = reader[i].slot
  /\ reader'[i].port = reader[i].port

\* The threads that load a driver or have given one up are the same.
SameLoading ==
  /\ \A t \in Hotplugs :
       /\ pc'[t] = "load" <=> pc[t] = "load"
       /\ pc[t] = "load" => job'[t].entry = job[t].entry
  /\ \A t \in Threads :
       /\ pc'[t] = "release" <=> pc[t] = "release"
       /\ pc[t] = "release" => job'[t].entry = job[t].entry

\* Nothing that is shared changes when no reader does.
LEMMA SharedFrame ==
  ASSUME \A i \in Entries : SameReader(i), SameLoading,
         UNCHANGED <<pFeeds, pMutex, loaded, driver>>
  PROVE  /\ Live' = Live /\ Counted' = Counted
         /\ Counts => Counts'
         /\ Numbers => Numbers'
<1>1. Live' = Live /\ Counted' = Counted
  <2>1. Live' = Live
    BY DEF Live, Loading, SameLoading, SameReader
  <2>2. \A i \in Entries : Leaving(i)' <=> Leaving(i)
    BY DEF Leaving, SameLoading
  <2> QED BY <2>1, <2>2 DEF Counted
<1>2. (\A i \in Live : i \in Entries) /\ \A i \in Counted : i \in Entries
  BY DEF Live, Counted
<1>3. \A o \in Objects : Feeding(o)' = Feeding(o) /\ Sharing(o)' = Sharing(o)
  BY <1>1, <1>2 DEF Feeding, Sharing, SameReader
<1>4. \A lib \in Libraries : LoadedFor(lib)' = LoadedFor(lib)
  BY DEF LoadedFor, SameReader
<1>5. Counts => Counts'
  BY <1>1, <1>2, <1>3, <1>4 DEF Counts, Exact, SameReader
<1>6. Numbers => Numbers'
  BY <1>1, <1>2 DEF Numbers, SameReader
<1> QED BY <1>1, <1>5, <1>6

\* A hotplug thread that neither adds nor closes a reader, before or after.
Elsewhere(t) ==
  pc[t] \in {"idle", "add", "added", "sweep", "removed", "nextSlot"}

\* A step of a hotplug thread that leaves the readers alone.
LEMMA TableFrame ==
  ASSUME Inv, NEW t \in Hotplugs,
         UNCHANGED <<tableVars, sharedVars, evPc>>,
         \A u \in Threads : u # t => pc'[u] = pc[u] /\ job'[u] = job[u],
         Elsewhere(t), Elsewhere(t)', pc'[t] # "nextSlot",
         pc'[t] = "idle" => job'[t].library = "none",
         pc'[t] = "add" => job'[t].rv = "SUCCESS",
         pc'[t] \in {"add", "added"} \/ job'[t].rv # "SUCCESS" =>
           job'[t].library \in Libraries
  PROVE  /\ \A i \in Entries : EntryOK(i)'
         /\ \A u \in Threads : WorkOK(u)'
         /\ ClosersApart' /\ Counts' /\ Numbers'
         /\ Live' = Live
         /\ \A u \in Hotplugs : SearchOK(u)'
<1> USE LifecycleAssumption DEF Threads
<1>1. \A i \in Entries : Holders(i)' = Holders(i)
  BY DEF Holders
<1>2. \A i \in Entries : EntryOK(i)'
  BY <1>1 DEF Inv, EntryOK
<1>3. ASSUME NEW u \in Threads PROVE WorkOK(u)'
  <2>1. WorkOK(u)
    BY DEF Inv
  <2>2. CASE u = t
    <3>1. ~Closing(t)' /\ ~Adding(t)'
          /\ pc'[t] \notin {"found", "holding", "reread", "release", "fill",
                            "load", "open", "fillSlot"}
      BY DEF Closing, Adding, Elsewhere
    <3> QED BY <2>2, <3>1 DEF WorkOK
  <2>3. CASE u # t
    <3>1. (Closing(u)' <=> Closing(u)) /\ (Adding(u)' <=> Adding(u))
      BY <2>3 DEF Closing, Adding
    <3> QED BY <2>1, <2>3, <3>1 DEF WorkOK
  <2> QED BY <2>2, <2>3
<1>4. ClosersApart'
  <2>1. ~Closing(t)' /\ \A u \in Threads : u # t => (Closing(u)' <=> Closing(u))
    BY DEF Closing, Elsewhere
  <2> QED BY <2>1 DEF Inv, ClosersApart
<1>5. SameLoading /\ \A i \in Entries : SameReader(i)
  BY DEF SameLoading, SameReader, Elsewhere
<1>6. Live' = Live /\ Counts' /\ Numbers'
  BY <1>5, SharedFrame DEF Inv
<1>7. \A u \in Hotplugs : SearchOK(u)'
  BY <1>6 DEF Inv, SearchOK, Elsewhere
<1> QED BY <1>2, <1>3, <1>4, <1>6, <1>7

\* A hotplug thread is the only one that works.
LEMMA BusyAlone ==
  ASSUME Inv, NEW t \in Hotplugs, Busy(t)
  PROVE  \A u \in Hotplugs : u # t => pc[u] = "idle"
BY DEF Inv, Calm, Apart, Busy

-----------------------------------------------------------------------------
\* Steps of the hotplug threads that leave the readers alone

\* Only thread t goes on.
LEMMA ThreadFrame ==
  ASSUME LifecycleTypes, NEW t \in Threads, NEW step, NEW j,
         Goto(t, step), SetJob(t, j)
  PROVE  /\ pc'[t] = step /\ job'[t] = j
         /\ \A u \in Threads : u # t => pc'[u] = pc[u] /\ job'[u] = job[u]
BY DEF LifecycleTypes, Goto, SetJob

\* What a thread that stays where it is does.
LEMMA ThreadStays ==
  ASSUME LifecycleTypes, NEW t \in Threads, UNCHANGED <<pc, job>>
  PROVE  Goto(t, pc[t]) /\ SetJob(t, job[t])
BY DEF LifecycleTypes, Goto, SetJob

\* A job for a port that has no reader of the library yet.
NewPort(step, j) ==
  j.library # "none" =>
    /\ j.port <= Port(Len(readerTracker))'
    /\ \A i \in Live : reader[i].port = j.port =>
         \/ /\ reader[i].library = "driver"
            /\ step = "add" => j.library = "class"
         \/ /\ reader[i].library = "class" /\ j.library = "class"
            /\ step # "add"

\* A hotplug thread that leaves the readers alone keeps the invariant, provided
\* that its job is in order.
LEMMA HotplugStep ==
  ASSUME Inv, Calm', NEW t \in Hotplugs, NEW step, NEW j \in JobRecords,
         UNCHANGED <<tableVars, sharedVars, evPc>>,
         Goto(t, step), SetJob(t, j),
         Elsewhere(t), step \in {"idle", "add", "added", "sweep", "removed"},
         \A u \in Hotplugs : u # t => scan'[u] = scan[u],
         HotplugTypes', Len(readerTracker) <= Len(readerTracker'),
         step = "idle" => j.library = "none",
         step = "add" => j.rv = "SUCCESS",
         step \in {"add", "added"} \/ j.rv # "SUCCESS" => j.library \in Libraries,
         NewPort(step, j)
  PROVE  Inv'
<1> USE DEF Threads
<1>0. LifecycleTypes /\ HotplugTypes
  BY DEF Inv
<1>1. /\ pc'[t] = step /\ job'[t] = j
      /\ \A u \in Threads : u # t => pc'[u] = pc[u] /\ job'[u] = job[u]
  BY <1>0, ThreadFrame
<1>2. LifecycleTypes'
  <2>1. step \in HotplugSteps
    BY DEF HotplugSteps
  <2>2. pc' \in [Threads -> HotplugSteps \cup ClientSteps]
    BY <1>0, <2>1 DEF LifecycleTypes, Goto
  <2>3. job' \in [Threads -> JobRecords]
    BY <1>0 DEF LifecycleTypes, SetJob
  <2>4. (\A c \in Clients : pc'[c] \in ClientSteps)
        /\ (\A u \in Hotplugs : pc'[u] \in HotplugSteps)
    BY <1>0, <1>1, <2>1, LifecycleAssumption DEF LifecycleTypes
  <2> QED BY <1>0, <2>2, <2>3, <2>4 DEF LifecycleTypes
<1>4. /\ \A i \in Entries : EntryOK(i)'
      /\ \A u \in Threads : WorkOK(u)'
      /\ ClosersApart' /\ Counts' /\ Numbers'
      /\ Live' = Live /\ \A u \in Hotplugs : SearchOK(u)'
  <2>1. Elsewhere(t)' /\ pc'[t] # "nextSlot"
    BY <1>1 DEF Elsewhere
  <2> QED BY <1>1, <2>1, TableFrame
<1>5. Port(Len(readerTracker)) <= Port(Len(readerTracker'))
      /\ Port(Len(readerTracker)) \in Nat /\ Port(Len(readerTracker')) \in Nat
  BY <1>0 DEF Port, PCSCLITE_HP_BASE_PORT, HotplugTypes
<1>6. Ports'
  <2>1. \A i \in Live : reader[i].port \in Nat
    BY <1>0 DEF LifecycleTypes, ReaderRecords, Live
  <2>2. \A u \in Hotplugs : job[u].port \in Nat
    BY <1>0 DEF LifecycleTypes, JobRecords
  <2>3. \A i \in Live : reader[i].port <= Port(Len(readerTracker'))
    BY <1>5, <2>1 DEF Inv, Ports
  <2>4. \A u \in Hotplugs : job'[u].library # "none" =>
          job'[u].port <= Port(Len(readerTracker'))
    BY <1>1, <1>5, <2>2 DEF Inv, Ports, NewPort
  <2> QED BY <1>4, <2>3, <2>4 DEF Ports
<1>7. ASSUME NEW u \in Hotplugs PROVE AddsPort(u)'
  <2>1. AddsPort(u)
    BY DEF Inv
  <2>2. CASE u = t
    BY <1>1, <1>4, <2>2 DEF AddsPort, NewPort, Adding
  <2>3. CASE u # t
    BY <1>1, <1>4, <2>1, <2>3 DEF AddsPort, Adding
  <2> QED BY <2>2, <2>3
<1> QED BY <1>2, <1>4, <1>6, <1>7 DEF Inv

\* What holds of the job of a thread that goes on with it.
LEMMA OldPort ==
  ASSUME Inv, NEW t \in Hotplugs, pc[t] # "fill", NEW step, step # "add",
         Len(readerTracker') = Len(readerTracker)
  PROVE  NewPort(step, job[t])
<1>1. AddsPort(t) /\ Ports
  BY DEF Inv
<1> QED BY <1>1 DEF AddsPort, NewPort, Ports, Port

\* A thread stays idle.
LEMMA IdleStep ==
  ASSUME Inv, Calm', NEW t \in Hotplugs, pc[t] = "idle",
         UNCHANGED <<tableVars, sharedVars, evPc, pc, job>>,
         \A u \in Hotplugs : u # t => scan'[u] = scan[u],
         HotplugTypes', UNCHANGED readerTracker
  PROVE  Inv'
<1>0. LifecycleTypes /\ WorkOK(t) /\ Len(readerTracker) \in Nat
  BY DEF Inv, Threads, HotplugTypes
<1>1. Goto(t, "idle") /\ SetJob(t, job[t]) /\ job[t] \in JobRecords
  BY <1>0, ThreadStays DEF Threads, LifecycleTypes
<1>2. /\ job[t].rv # "SUCCESS" => job[t].library \in Libraries
      /\ job[t].library = "none"
  BY <1>0 DEF WorkOK
<1>3. NewPort("idle", job[t])
  BY OldPort
<1>4. Elsewhere(t)
  BY DEF Elsewhere
<1> QED BY <1>0, <1>1, <1>2, <1>3, <1>4, HotplugStep

\* The loop over the slots ends.
LEMMA SlotsDoneStep ==
  ASSUME Inv, Calm', NEW t \in Hotplugs, SlotsDone(t), UNCHANGED hotplugVars
  PROVE  Inv'
<1> DEFINE j == [job[t] EXCEPT !.rv = "SUCCESS"]
<1>0. LifecycleTypes /\ HotplugTypes /\ WorkOK(t) /\ job[t] \in JobRecords
  BY DEF Inv, Threads, LifecycleTypes
<1>1. /\ pc[t] = "nextSlot" /\ Goto(t, "added") /\ SetJob(t, j)
      /\ UNCHANGED <<tableVars, sharedVars, evPc>>
  BY DEF SlotsDone
<1>2. j \in JobRecords /\ j.rv = "SUCCESS" /\ j.library = job[t].library
      /\ j.port = job[t].port
  <2>1. j \in JobRecords
    BY <1>0, JobType DEF ReturnValues
  <2> QED BY <1>0, <2>1 DEF JobRecords
<1> HIDE DEF j
<1>3. NewPort("added", j)
  BY <1>1, <1>2, OldPort DEF NewPort
<1>4. Elsewhere(t) /\ Busy(t) /\ j.library \in Libraries
  BY <1>0, <1>1, <1>2 DEF Elsewhere, Busy, WorkOK, Adding
<1>5. HotplugTypes' /\ Len(readerTracker) <= Len(readerTracker')
  BY <1>0 DEF HotplugTypes
<1>6. \A u \in Hotplugs : u # t => scan'[u] = scan[u]
  OBVIOUS
<1> QED BY <1>1, <1>2, <1>3, <1>4, <1>5, <1>6, HotplugStep

\* The loop over the table ends.
LEMMA SweepDoneStep ==
  ASSUME Inv, Calm', NEW t \in Hotplugs, SweepDone(t), UNCHANGED hotplugVars
  PROVE  Inv'
<1> DEFINE step == IF job[t].rv = "SUCCESS" THEN "removed" ELSE "added"
<1>0. LifecycleTypes /\ HotplugTypes /\ WorkOK(t) /\ job[t] \in JobRecords
  BY DEF Inv, Threads, LifecycleTypes
<1>1. /\ pc[t] = "sweep" /\ Goto(t, step) /\ SetJob(t, job[t])
      /\ UNCHANGED <<tableVars, sharedVars, evPc>>
  BY <1>0 DEF SweepDone, Swept, SetJob, LifecycleTypes
<1>2. step \in {"removed", "added"}
      /\ (step = "added" \/ job[t].rv # "SUCCESS" => job[t].library \in Libraries)
  BY <1>0 DEF WorkOK
<1> HIDE DEF step
<1>3. NewPort(step, job[t])
  BY <1>1, <1>2, OldPort
<1>4. Elsewhere(t) /\ Busy(t)
  BY <1>1 DEF Elsewhere, Busy
<1>5. HotplugTypes' /\ Len(readerTracker) <= Len(readerTracker')
  BY <1>0 DEF HotplugTypes
<1>6. \A u \in Hotplugs : u # t => scan'[u] = scan[u]
  OBVIOUS
<1> QED BY <1>0, <1>1, <1>2, <1>3, <1>4, <1>5, <1>6, HotplugStep

\* The class driver is tried.
LEMMA TryClassDriverStep ==
  ASSUME Inv, Calm', NEW t \in Hotplugs, TryClassDriver(t)
  PROVE  Inv'
<1> DEFINE j == [job[t] EXCEPT !.library = "class", !.rv = "SUCCESS",
                               !.entry = 0]
<1>0. LifecycleTypes /\ HotplugTypes /\ WorkOK(t) /\ job[t] \in JobRecords
      /\ AddsPort(t) /\ Ports
  BY DEF Inv, Threads, LifecycleTypes
<1>1. /\ pc[t] = "added" /\ Goto(t, "add") /\ SetJob(t, j)
      /\ job[t].library # "class"
      /\ UNCHANGED <<tableVars, sharedVars, evPc, hotplugVars>>
  BY DEF TryClassDriver
<1>2. j \in JobRecords /\ j.rv = "SUCCESS" /\ j.library = "class"
      /\ j.port = job[t].port
  <2>1. j \in JobRecords
    BY <1>0, JobType, HotplugAssumption DEF ReturnValues
  <2> QED BY <1>0, <2>1 DEF JobRecords
<1> HIDE DEF j
<1>3. job[t].library = "driver"
  BY <1>0, <1>1, HotplugAssumption DEF WorkOK
<1>4. NewPort("add", j)
  BY <1>0, <1>1, <1>2, <1>3 DEF NewPort, AddsPort, Ports, Port
<1>5. Elsewhere(t) /\ Busy(t) /\ j.library \in Libraries
  BY <1>1, <1>2, HotplugAssumption DEF Elsewhere, Busy
<1>6. HotplugTypes' /\ Len(readerTracker) <= Len(readerTracker')
  BY <1>0, <1>1 DEF HotplugTypes
<1>7. \A u \in Hotplugs : u # t => scan'[u] = scan[u]
  BY <1>1
<1> QED BY <1>1, <1>2, <1>4, <1>5, <1>6, <1>7, HotplugStep

\* Nobody loads a driver while the hotplug threads do nothing.
LEMMA LiveIsUsed ==
  ASSUME Inv, \A u \in Hotplugs : pc[u] = "idle"
  PROVE  Live = Used
<1>1. \A i \in Entries : reader[i].vHandle => i < maxReaderContext
  BY DEF Inv, EntryOK
<1>2. \A i \in Entries : ~Loading(i)
  BY DEF Loading
<1> QED BY <1>1, <1>2 DEF Live, Used

\* The index a device is added at.
LEMMA FreeIndexIsValid ==
  ASSUME HotplugTypes
  PROVE  FreeIndex \in 1 .. Len(readerTracker) + 1
<1> DEFINE S == {Len(readerTracker) + 1} \cup
                  {k \in Indices : readerTracker[k] = NoDevice}
<1>0. /\ Len(readerTracker) \in Nat /\ Indices = 1 .. Len(readerTracker)
  BY DEF HotplugTypes, Indices
<1>1. S \subseteq Nat /\ S # {}
  BY <1>0
<1>2. Min(S) \in S
  BY <1>1, MinNat
<1> QED BY <1>0, <1>2 DEF FreeIndex

\* The tracker keeps its form when an entry changes.
LEMMA TrackerType ==
  ASSUME readerTracker \in Seq(DeviceRecords), NEW d \in DeviceRecords, NEW k
  PROVE  /\ [readerTracker EXCEPT ![k] = d] \in Seq(DeviceRecords)
         /\ Len([readerTracker EXCEPT ![k] = d]) = Len(readerTracker)
         /\ readerTracker \o <<d, NoDevice>> \in Seq(DeviceRecords)
         /\ Len(readerTracker \o <<d, NoDevice>>) = Len(readerTracker) + 2
<1>1. NoDevice \in DeviceRecords
  BY DEF DeviceRecords
<1> HIDE DEF DeviceRecords
<1>2. <<d, NoDevice>> \in Seq(DeviceRecords) /\ Len(<<d, NoDevice>>) = 2
  BY <1>1
<1>3. /\ readerTracker \o <<d, NoDevice>> \in Seq(DeviceRecords)
      /\ Len(readerTracker \o <<d, NoDevice>>) = Len(readerTracker) + 2
  BY <1>2, ConcatProperties
<1>4. CASE k \in 1 .. Len(readerTracker)
  BY <1>3, <1>4, ExceptSeq
<1>5. CASE k \notin 1 .. Len(readerTracker)
  <2>1. [readerTracker EXCEPT ![k] = d] = readerTracker
    BY <1>5
  <2> QED BY <1>3, <2>1
<1> QED BY <1>3, <1>4, <1>5

\* A device is looked at, and added if it is a new one.
LEMMA AddDeviceStep ==
  ASSUME Inv, Calm', NEW t \in Hotplugs, pc[t] = "idle",
         NEW d \in FoundDevices, HPAddDevice(t, d),
         \A u \in Hotplugs : u # t => scan'[u] = scan[u],
         scan' \in [Hotplugs -> ScanRecords],
         events' \in Seq(EventRecords)
  PROVE  Inv'
<1>0. /\ LifecycleTypes /\ HotplugTypes
      /\ UNCHANGED <<tableVars, sharedVars, evPc, backend, plugged, address>>
  BY DEF Inv, HPAddDevice
<1>1. CASE UNCHANGED <<readerTracker, pc, job>>
  <2>1. HotplugTypes'
    BY <1>0, <1>1 DEF HotplugTypes
  <2>2. UNCHANGED <<tableVars, sharedVars, evPc, pc, job>> /\ UNCHANGED readerTracker
    BY <1>0, <1>1
  <2> QED BY <2>1, <2>2, IdleStep
<1>2. CASE StartAdd(t, d)
  <2> DEFINE k == FreeIndex
             j == [NoJob EXCEPT !.port = Port(k), !.library = "driver",
                                !.device = <<d.address>>]
  <2>2. k \in 1 .. Len(readerTracker) + 1
    BY <1>0, FreeIndexIsValid
  <2>3. /\ Goto(t, "add") /\ SetJob(t, j)
        /\ readerTracker' =
          IF k \in Indices THEN [readerTracker EXCEPT ![k] = d]
                           ELSE readerTracker \o <<d, NoDevice>>
    BY <1>2 DEF StartAdd
  <2>4. Len(readerTracker) \in Nat /\ Indices = 1 .. Len(readerTracker)
    BY <1>0 DEF HotplugTypes, Indices
  <2> HIDE DEF k
  <2>5. Port(k) \in Nat
    BY <2>2, <2>4 DEF Port, PCSCLITE_HP_BASE_PORT
  <2>6. j \in JobRecords /\ j.rv = "SUCCESS" /\ j.library = "driver"
        /\ j.port = Port(k)
    <3>1. <<d.address>> \in Seq(Nat)
      BY DEF FoundDevices
    <3>2. j \in JobRecords
      BY <2>5, <3>1, FreeType, JobType, HotplugAssumption
    <3> QED BY <3>2, FreeType DEF JobRecords, NoJob
  <2> HIDE DEF j
  <2>1. \A i \in Live : reader[i].port # Port(k)
    <3>1. pc'[t] = "add" /\ job'[t] = j
          /\ \A u \in Threads : u # t => pc'[u] = pc[u]
      BY <1>0, <2>3, ThreadFrame DEF Threads
    <3>2. \A u \in Hotplugs : u # t => pc[u] = "idle"
      BY <3>1 DEF Calm, Apart, Busy, Threads
    <3>3. Live = Used
      BY <3>2, LiveIsUsed
    <3>4. Used' = Used /\ reader' = reader
      BY <1>0 DEF Used
    <3> QED BY <2>6, <3>1, <3>3, <3>4 DEF Calm, PortsApart
  <2>7. /\ readerTracker' \in Seq(DeviceRecords)
        /\ k <= Len(readerTracker') /\ Len(readerTracker) <= Len(readerTracker')
        /\ Len(readerTracker') \in Nat
    <3>1. d \in DeviceRecords /\ readerTracker \in Seq(DeviceRecords)
      BY <1>0 DEF DeviceRecords, HotplugTypes
    <3>2. /\ [readerTracker EXCEPT ![k] = d] \in Seq(DeviceRecords)
          /\ Len([readerTracker EXCEPT ![k] = d]) = Len(readerTracker)
          /\ readerTracker \o <<d, NoDevice>> \in Seq(DeviceRecords)
          /\ Len(readerTracker \o <<d, NoDevice>>) = Len(readerTracker) + 2
      BY <3>1, TrackerType
    <3>3. CASE k \in Indices
      BY <2>3, <2>4, <3>2, <3>3
    <3>4. CASE k \notin Indices
      BY <2>2, <2>3, <2>4, <3>2, <3>4
    <3> QED BY <3>3, <3>4
  <2>8. HotplugTypes'
    BY <1>0, <2>7 DEF HotplugTypes
  <2>9. NewPort("add", j)
    <3>1. Port(k) <= Port(Len(readerTracker'))
      BY <2>2, <2>4, <2>7 DEF Port, PCSCLITE_HP_BASE_PORT
    <3> QED BY <2>1, <2>6, <3>1 DEF NewPort
  <2>10. Elsewhere(t) /\ "driver" \in Libraries
    BY HotplugAssumption DEF Elsewhere
  <2> QED BY <1>0, <2>3, <2>6, <2>7, <2>8, <2>9, <2>10, HotplugStep
<1> QED BY <1>1, <1>2 DEF HPAddDevice

\* A device found at a place.
LEMMA DeviceType ==
  ASSUME HotplugTypes, NEW p \in Places
  PROVE  Device(p) \in FoundDevices
BY DEF Device, FoundDevices, HotplugTypes

\* udev tells that a device has been plugged in.
LEMMA ReceiveAddStep ==
  ASSUME Inv, Calm', NEW t \in Hotplugs, ReceiveAdd(t)
  PROVE  Inv'
<1>0. HotplugTypes
  BY DEF Inv
<1>1. /\ MayStart(t) /\ pc[t] = "idle" /\ events # <<>> /\ events' = Tail(events)
      /\ HPAddDevice(t, Device(Head(events).place)) /\ UNCHANGED scan
  BY DEF ReceiveAdd, MayStart, Busy
<1>2. Head(events) \in EventRecords /\ Tail(events) \in Seq(EventRecords)
  BY <1>0, <1>1 DEF HotplugTypes
<1>3. Device(Head(events).place) \in FoundDevices
  BY <1>0, <1>2, DeviceType DEF EventRecords
<1>4. scan' \in [Hotplugs -> ScanRecords] /\ events' \in Seq(EventRecords)
      /\ \A u \in Hotplugs : u # t => scan'[u] = scan[u]
  BY <1>0, <1>1, <1>2 DEF HotplugTypes
<1> QED BY <1>1, <1>3, <1>4, AddDeviceStep

\* A scan looks at the next device it has found.
LEMMA ScanNextStep ==
  ASSUME Inv, Calm', NEW t \in Hotplugs, ScanNext(t)
  PROVE  Inv'
<1>0. HotplugTypes
  BY DEF Inv
<1>1. PICK d \in scan[t].todo :
        /\ pc[t] = "idle"
        /\ scan' = [scan EXCEPT ![t].todo = @ \ {d}]
        /\ HPAddDevice(t, IF backend = "libudev" THEN Device(d.place) ELSE d)
        /\ UNCHANGED events
  BY DEF ScanNext
<1> DEFINE e == IF backend = "libudev" THEN Device(d.place) ELSE d
<1>2. scan[t] \in ScanRecords /\ d \in FoundDevices /\ scan[t].todo # {}
  BY <1>0, <1>1 DEF HotplugTypes, ScanRecords
<1>3. e \in FoundDevices
  <2>1. Device(d.place) \in FoundDevices
    BY <1>0, <1>2, DeviceType DEF FoundDevices
  <2> QED BY <1>2, <2>1
<1>4. Busy(t)
  BY <1>2 DEF Busy, NoScan
<1>5. scan' \in [Hotplugs -> ScanRecords]
  <2>1. [scan[t] EXCEPT !.todo = @ \ {d}] \in ScanRecords
    BY <1>2 DEF ScanRecords
  <2>2. scan' = [scan EXCEPT ![t] = [scan[t] EXCEPT !.todo = @ \ {d}]]
    BY <1>1
  <2> QED BY <1>0, <2>1, <2>2 DEF HotplugTypes
<1>6. \A u \in Hotplugs : u # t => scan'[u] = scan[u]
  BY <1>0, <1>1 DEF HotplugTypes
<1>7. events' \in Seq(EventRecords)
  BY <1>0, <1>1 DEF HotplugTypes
<1>8. HPAddDevice(t, e) /\ pc[t] = "idle"
  BY <1>1
<1> HIDE DEF e
<1> QED BY <1>3, <1>4, <1>5, <1>6, <1>7, <1>8, AddDeviceStep

\* A thread starts to remove the reader of an index.
LEMMA RemoveStep ==
  ASSUME Inv, Calm', NEW t \in Hotplugs, pc[t] = "idle", NEW k \in Nat,
         StartRemove(t, k), UNCHANGED <<tableVars, sharedVars, evPc>>,
         UNCHANGED <<plugged, address, readerTracker, scan>>,
         events' \in Seq(EventRecords)
  PROVE  Inv'
<1> DEFINE j == [NoJob EXCEPT !.port = Port(k)]
<1>0. LifecycleTypes /\ HotplugTypes
  BY DEF Inv
<1>1. Goto(t, "sweep") /\ SetJob(t, j)
  BY DEF StartRemove
<1>2. j \in JobRecords /\ j.rv = "SUCCESS" /\ j.library = "none"
  <2>1. Port(k) \in Nat
    BY DEF Port, PCSCLITE_HP_BASE_PORT
  <2>2. j \in JobRecords
    BY <2>1, FreeType, JobType
  <2> QED BY <2>2, FreeType DEF JobRecords, NoJob
<1> HIDE DEF j
<1>3. NewPort("sweep", j)
  BY <1>2 DEF NewPort
<1>4. Elsewhere(t)
  BY DEF Elsewhere
<1>5. HotplugTypes' /\ Len(readerTracker) <= Len(readerTracker')
  BY <1>0 DEF HotplugTypes
<1>6. \A u \in Hotplugs : u # t => scan'[u] = scan[u]
  OBVIOUS
<1> QED BY <1>1, <1>2, <1>3, <1>4, <1>5, <1>6, HotplugStep

\* udev tells that a device has been unplugged.
LEMMA ReceiveRemoveStep ==
  ASSUME Inv, Calm', NEW t \in Hotplugs, ReceiveRemove(t)
  PROVE  Inv'
<1> DEFINE gone == {k \in Indices :
                      readerTracker[k].place = Head(events).place}
<1>0. HotplugTypes
  BY DEF Inv
<1>1. /\ MayStart(t) /\ pc[t] = "idle" /\ events # <<>> /\ events' = Tail(events)
      /\ \/ gone # {} /\ StartRemove(t, Min(gone))
         \/ gone = {} /\ UNCHANGED <<pc, job>>
      /\ UNCHANGED <<tableVars, sharedVars, evPc, backend, plugged,
                     address, readerTracker, scan, refused, signals>>
  BY DEF ReceiveRemove, MayStart, Busy
<1>2. events' \in Seq(EventRecords)
  BY <1>0, <1>1 DEF HotplugTypes
<1>3. gone \subseteq Nat
  BY <1>0 DEF HotplugTypes, Indices
<1> HIDE DEF gone
<1>4. CASE gone # {} /\ StartRemove(t, Min(gone))
  <2>1. Min(gone) \in Nat
    BY <1>3, <1>4, MinNat
  <2>2. UNCHANGED <<tableVars, sharedVars, evPc>>
        /\ UNCHANGED <<plugged, address, readerTracker, scan>>
    BY <1>1
  <2> QED BY <1>1, <1>2, <1>4, <2>1, <2>2, RemoveStep
<1>5. CASE gone = {} /\ UNCHANGED <<pc, job>>
  <2>1. HotplugTypes'
    BY <1>0, <1>1, <1>2 DEF HotplugTypes
  <2>2. UNCHANGED <<tableVars, sharedVars, evPc, pc, job>>
        /\ UNCHANGED readerTracker
        /\ \A u \in Hotplugs : u # t => scan'[u] = scan[u]
    BY <1>1, <1>5
  <2> QED BY <1>1, <2>1, <2>2, IdleStep
<1> QED BY <1>1, <1>4, <1>5

\* A scan of the bus starts.
LEMMA ScanDevicesStep ==
  ASSUME Inv, Calm', NEW t \in Hotplugs, ScanDevices(t)
  PROVE  Inv'
<1> DEFINE found == {Device(p) : p \in {q \in Places : plugged[q] # 0}}
           s == [active |-> TRUE, todo |-> found, found |-> found]
<1>0. HotplugTypes
  BY DEF Inv
<1>1. /\ MayStart(t) /\ pc[t] = "idle" /\ scan' = [scan EXCEPT ![t] = s]
      /\ UNCHANGED <<lifecycleVars, backend, plugged, address, events,
                     readerTracker, refused>>
  BY DEF ScanDevices, MayStart, Busy
<1>2. s \in ScanRecords
  <2>1. found \subseteq FoundDevices
    BY <1>0, DeviceType
  <2> HIDE DEF found
  <2> QED BY <2>1 DEF ScanRecords
<1> HIDE DEF s
<1>3. HotplugTypes' /\ \A u \in Hotplugs : u # t => scan'[u] = scan[u]
  BY <1>0, <1>1, <1>2 DEF HotplugTypes
<1>4. UNCHANGED <<tableVars, sharedVars, evPc, pc, job>> /\ UNCHANGED readerTracker
  BY <1>1
<1> QED BY <1>1, <1>3, <1>4, IdleStep

\* A scan of the bus ends, or libusb removes a reader it has not found.
LEMMA ScanDoneStep ==
  ASSUME Inv, Calm', NEW t \in Hotplugs, ScanDone(t)
  PROVE  Inv'
<1> DEFINE absent == IF backend = "libusb" THEN AbsentDevices(t) ELSE {}
<1>0. HotplugTypes
  BY DEF Inv
<1>1. /\ pc[t] = "idle" /\ scan[t].active
      /\ \/ /\ absent # {}
            /\ StartRemove(t, Min(absent))
            /\ UNCHANGED scan
         \/ /\ absent = {}
            /\ scan' = [scan EXCEPT ![t] = NoScan]
            /\ UNCHANGED <<pc, job>>
      /\ UNCHANGED <<tableVars, sharedVars, evPc, backend, plugged,
                     address, events, readerTracker, refused, signals>>
  BY DEF ScanDone
<1>2. Busy(t)
  BY <1>1 DEF Busy, NoScan
<1>3. absent \subseteq Nat
  BY <1>0 DEF HotplugTypes, Indices, AbsentDevices
<1>4. events' \in Seq(EventRecords)
  BY <1>0, <1>1 DEF HotplugTypes
<1> HIDE DEF absent
<1>5. CASE absent # {} /\ StartRemove(t, Min(absent)) /\ UNCHANGED scan
  <2>1. Min(absent) \in Nat
    BY <1>3, <1>5, MinNat
  <2>2. UNCHANGED <<tableVars, sharedVars, evPc>>
        /\ UNCHANGED <<plugged, address, readerTracker, scan>>
    BY <1>1, <1>5
  <2> QED BY <1>1, <1>4, <1>5, <2>1, <2>2, RemoveStep
<1>6. CASE scan' = [scan EXCEPT ![t] = NoScan] /\ UNCHANGED <<pc, job>>
  <2>1. HotplugTypes' /\ \A u \in Hotplugs : u # t => scan'[u] = scan[u]
    BY <1>0, <1>1, <1>6, FreeType DEF HotplugTypes
  <2>2. UNCHANGED <<tableVars, sharedVars, evPc, pc, job>>
        /\ UNCHANGED readerTracker
    BY <1>1, <1>6
  <2> QED BY <1>1, <1>2, <2>1, <2>2, IdleStep
<1> QED BY <1>1, <1>5, <1>6

\* A thread is done with a reader, and the tracker may forget it.
LEMMA DoneStep ==
  ASSUME Inv, Calm', NEW t \in Hotplugs, pc[t] \in {"added", "removed"}, NEW k,
         \/ readerTracker' = readerTracker
         \/ readerTracker' = [readerTracker EXCEPT ![k] = NoDevice],
         Goto(t, "idle"), SetJob(t, NoJob),
         UNCHANGED <<tableVars, sharedVars, evPc>>,
         UNCHANGED <<plugged, address, events, scan>>
  PROVE  Inv'
<1>0. HotplugTypes
  BY DEF Inv
<1>1. NoJob \in JobRecords /\ NoJob.rv = "SUCCESS" /\ NoJob.library = "none"
  BY FreeType DEF NoJob
<1>2. NewPort("idle", NoJob)
  BY <1>1 DEF NewPort
<1>3. Elsewhere(t) /\ Busy(t)
  BY DEF Elsewhere, Busy
<1>4. readerTracker' \in Seq(DeviceRecords)
      /\ Len(readerTracker) <= Len(readerTracker')
  <2>1. readerTracker \in Seq(DeviceRecords) /\ NoDevice \in DeviceRecords
    BY <1>0 DEF HotplugTypes, DeviceRecords
  <2>2. /\ [readerTracker EXCEPT ![k] = NoDevice] \in Seq(DeviceRecords)
        /\ Len([readerTracker EXCEPT ![k] = NoDevice]) = Len(readerTracker)
        /\ Len(readerTracker) \in Nat
    BY <2>1, TrackerType
  <2> QED BY <2>1, <2>2
<1>5. HotplugTypes'
  BY <1>0, <1>4 DEF HotplugTypes
<1>6. \A u \in Hotplugs : u # t => scan'[u] = scan[u]
  OBVIOUS
<1> QED BY <1>1, <1>2, <1>3, <1>4, <1>5, <1>6, HotplugStep

\* RFAddReader() has returned, and the device is kept or forgotten.
LEMMA AddDoneStep ==
  ASSUME Inv, Calm', NEW t \in Hotplugs, AddDone(t)
  PROVE  Inv'
<1>1. /\ pc[t] = "added" /\ Goto(t, "idle") /\ SetJob(t, NoJob)
      /\ UNCHANGED <<tableVars, sharedVars, evPc>>
      /\ UNCHANGED <<plugged, address, events, scan>>
      /\ \/ readerTracker' = readerTracker
         \/ readerTracker' = [readerTracker EXCEPT ![IndexOf(t)] = NoDevice]
  BY DEF AddDone, AfterAdd
<1> QED BY <1>1, DoneStep

\* RFRemoveReader() has returned and the device is forgotten.
LEMMA RemoveDoneStep ==
  ASSUME Inv, Calm', NEW t \in Hotplugs, RemoveDone(t)
  PROVE  Inv'
<1>1. /\ pc[t] = "removed" /\ Goto(t, "idle") /\ SetJob(t, NoJob)
      /\ UNCHANGED <<tableVars, sharedVars, evPc>>
      /\ UNCHANGED <<plugged, address, events, scan>>
      /\ readerTracker' = [readerTracker EXCEPT ![IndexOf(t)] = NoDevice]
  BY DEF RemoveDone
<1> QED BY <1>1, DoneStep

\* A step that leaves the readers and their threads alone.
LEMMA BusFrame ==
  ASSUME Inv, Calm', HotplugTypes', UNCHANGED <<lifecycleVars, readerTracker, scan>>
  PROVE  Inv'
<1>1. LifecycleTypes' /\ ClosersApart'
  BY DEF Inv, LifecycleTypes, ClosersApart, Closing
<1>2. Counts' /\ Numbers' /\ Live' = Live
  <2>1. SameLoading /\ \A i \in Entries : SameReader(i)
    BY DEF SameLoading, SameReader
  <2> QED BY <2>1, SharedFrame DEF Inv
<1>3. \A i \in Entries : EntryOK(i)'
  <2>1. \A i \in Entries : Holders(i)' = Holders(i)
    BY DEF Holders
  <2> QED BY <2>1 DEF Inv, EntryOK
<1>4. \A t \in Threads : WorkOK(t)'
  BY DEF Inv, WorkOK, Adding, Closing
<1>5. Ports' /\ \A t \in Hotplugs : AddsPort(t)' /\ SearchOK(t)'
  BY <1>2 DEF Inv, Ports, AddsPort, SearchOK, Adding, Port
<1> QED BY <1>1, <1>2, <1>3, <1>4, <1>5 DEF Inv

\* A device is plugged in or unplugged.
LEMMA BusStep ==
  ASSUME Inv, Calm', NEW p \in Places, Plug(p) \/ Unplug(p)
  PROVE  Inv'
<1>0. HotplugTypes
  BY DEF Inv
<1>1. UNCHANGED <<lifecycleVars, readerTracker, scan>>
  BY DEF Plug, Unplug
<1>2. plugged' \in [Places -> Nat] /\ address' \in Nat
  <2>0. plugged \in [Places -> Nat] /\ address \in Nat
    BY <1>0 DEF HotplugTypes
  <2>1. CASE Plug(p)
    <3>1. address' = address + 1 /\ plugged' = [plugged EXCEPT ![p] = address + 1]
      BY <2>1 DEF Plug
    <3> QED BY <2>0, <3>1
  <2>2. CASE Unplug(p)
    <3>1. address' = address /\ plugged' = [plugged EXCEPT ![p] = 0]
      BY <2>2 DEF Unplug
    <3> QED BY <2>0, <3>1
  <2> QED BY <2>1, <2>2
<1>3. events' \in Seq(EventRecords)
  <2>1. PICK a \in {"add", "remove"} : Tell(a, p)
    BY DEF Plug, Unplug
  <2> DEFINE e == [action |-> a, place |-> p]
  <2>2. e \in EventRecords
    BY DEF EventRecords
  <2>3. events' = events \/ events' = Append(events, e)
    BY <2>1 DEF Tell
  <2> HIDE DEF e
  <2> QED BY <1>0, <2>2, <2>3 DEF HotplugTypes
<1>4. HotplugTypes'
  BY <1>0, <1>1, <1>2, <1>3 DEF HotplugTypes
<1> QED BY <1>1, <1>4, BusFrame

-----------------------------------------------------------------------------
\* References

Closer == {"stomp", "join", "close"}

\* What thread t, which does not add a reader, may do to the references of
\* entry i, provided that the entry itself is left in order.
RefStep(t, i, r, step, j) ==
  /\ reader' = [reader EXCEPT ![i] = r] /\ SameReader(i)
  /\ UNCHANGED <<maxReaderContext, sharedVars, hotplugVars>>
  /\ evPc' \in [Entries -> {"none", "running", "cancelled"}]
  /\ Goto(t, step) /\ SetJob(t, j)
  /\ step \in {"idle", "found", "holding", "sweep", "reread"} \cup Closer
  /\ step \in {"found", "holding", "reread"} \cup Closer => j.entry = i
  /\ j.rv # "SUCCESS" => j.library \in Libraries
  /\ step = "idle" => j.library = "none"
  /\ t \in Clients => step # "sweep"
  /\ t \in Hotplugs =>
       /\ step \notin {"found", "holding"}
       /\ pc[t] \in {"sweep", "reread"} \cup Closer
       /\ j.port = job[t].port /\ j.library = job[t].library
  /\ t \in Hotplugs \/ r.removed = reader[i].removed
  /\ reader[i].vHandle /\ pc[t] # "release"
  /\ \A u \in Threads \ {t} : Closing(u) => job[u].entry # i
  /\ step \in Closer => /\ reader[i].reference = 0 /\ r.reference = 0
                        /\ step = "close" => ~r.thread
  /\ \A k \in Entries \ {i} : Holders(k)' = Holders(k) /\ evPc'[k] = evPc[k]

\* Such a step keeps the invariant.
LEMMA RefFrame ==
  ASSUME Inv, Calm', NEW t \in Threads, NEW i \in Entries, NEW r \in ReaderRecords,
         NEW step, NEW j \in JobRecords, RefStep(t, i, r, step, j), EntryOK(i)'
  PROVE  Inv'
<1> USE DEF Closer
<1>0. /\ LifecycleTypes /\ HotplugTypes
      /\ \A k \in Entries : k # i => reader'[k] = reader[k]
      /\ reader'[i] = r
  BY DEF Inv, RefStep, LifecycleTypes
<1>1. /\ pc'[t] = step /\ job'[t] = j
      /\ \A u \in Threads : u # t => pc'[u] = pc[u] /\ job'[u] = job[u]
  BY <1>0, ThreadFrame DEF RefStep
<1>2. Threads = Clients \cup Hotplugs /\ Clients \cap Hotplugs = {}
  BY LifecycleAssumption DEF Threads
<1>3. pc[t] \in {"idle", "found", "holding", "sweep", "reread"} \cup Closer
  BY <1>0, <1>2 DEF RefStep, LifecycleTypes, ClientSteps
<1>4. \A u \in Threads : u # t => ~(t \in Hotplugs /\ u \in Hotplugs /\ pc[u] # "idle")
  BY DEF RefStep, Inv, Calm, Apart, Busy
<1>5. LifecycleTypes'
  <2>1. step \in HotplugSteps \cup ClientSteps
    BY DEF RefStep, HotplugSteps, ClientSteps
  <2>2. pc' \in [Threads -> HotplugSteps \cup ClientSteps]
    BY <1>0, <2>1 DEF RefStep, LifecycleTypes, Goto
  <2>3. job' \in [Threads -> JobRecords]
    BY <1>0 DEF RefStep, LifecycleTypes, SetJob
  <2>4. (\A c \in Clients : pc'[c] \in ClientSteps)
        /\ (\A u \in Hotplugs : pc'[u] \in HotplugSteps)
    <3>1. t \in Clients => step \in ClientSteps
      BY DEF RefStep, ClientSteps
    <3>2. t \in Hotplugs => step \in HotplugSteps
      BY DEF RefStep, HotplugSteps
    <3> QED BY <1>0, <1>1, <1>2, <3>1, <3>2 DEF LifecycleTypes
  <2>5. reader' \in [Entries -> ReaderRecords]
    BY <1>0 DEF RefStep, LifecycleTypes
  <2> QED BY <1>0, <2>2, <2>3, <2>4, <2>5 DEF RefStep, LifecycleTypes
<1>6. HotplugTypes' /\ UNCHANGED <<readerTracker, scan>>
  BY <1>0 DEF RefStep, HotplugTypes
<1>8. Counts' /\ Numbers' /\ Live' = Live
      /\ \A k \in Entries : SameReader(k)
  <2>1. SameLoading
    <3>1. pc[t] \notin {"load", "release"} /\ step \notin {"load", "release"}
      BY <1>3 DEF RefStep
    <3> QED BY <1>1, <1>2, <3>1 DEF SameLoading
  <2>2. \A k \in Entries : SameReader(k)
    BY <1>0 DEF SameReader, RefStep
  <2>3. UNCHANGED <<pFeeds, pMutex, loaded, driver>>
    BY DEF RefStep
  <2> QED BY <2>1, <2>2, <2>3, SharedFrame DEF Inv
<1>9. ASSUME NEW k \in Entries PROVE EntryOK(k)'
  <2>1. CASE k # i
    <3>1. Holders(k)' = Holders(k) /\ evPc'[k] = evPc[k] /\ UNCHANGED maxReaderContext
      BY <2>1 DEF RefStep
    <3> QED BY <1>0, <2>1, <3>1 DEF Inv, EntryOK
  <2> QED BY <2>1
<1>10. ASSUME NEW u \in Threads PROVE WorkOK(u)'
  <2>1. CASE u = t
    <3>1. /\ ~Adding(t)'
          /\ pc'[t] \notin {"load", "open", "nextSlot", "add", "added", "fill",
                             "fillSlot", "release"}
      BY <1>1 DEF Adding, RefStep
    <3>2. Closing(t)' => /\ step \in {"reread"} \cup Closer /\ job'[t].entry = i
                         /\ reader'[i].reference = 0
      BY <1>0, <1>1 DEF Closing, RefStep
    <3>3. reader'[i].vHandle
      BY DEF RefStep, SameReader
    <3> QED BY <1>0, <1>1, <2>1, <3>1, <3>2, <3>3 DEF WorkOK, RefStep
  <2>2. CASE u # t
    <3>1. /\ WorkOK(u) /\ pc'[u] = pc[u] /\ job'[u] = job[u]
          /\ (Adding(u)' <=> Adding(u)) /\ UNCHANGED maxReaderContext
      BY <1>1, <2>2 DEF Inv, Adding, RefStep
    <3>2. \A k \in Entries : reader'[k].vHandle = reader[k].vHandle
      BY <1>8 DEF SameReader
    <3>3. pc[u] \in Closer => /\ Closing(u) /\ job[u].entry # i
                             /\ job[u].entry \in Entries
      BY <2>2, <3>1 DEF RefStep, WorkOK, Closing
    <3>4. pc[u] \in Closer => reader'[job[u].entry] = reader[job[u].entry]
      BY <1>0, <3>3
    <3>5. Adding(u) => \A k \in Entries : reader'[k].removed = reader[k].removed
      <4>1. ASSUME Adding(u) PROVE t \notin Hotplugs
        <5>1. u \in Hotplugs /\ pc[u] # "idle"
          BY <1>0, <1>2, <4>1 DEF LifecycleTypes, ClientSteps, Adding
        <5> QED BY <1>4, <2>2, <5>1
      <4> QED BY <1>0, <4>1 DEF RefStep
    <3>6. Adding(u) => job[u].first \in Entries
      BY <3>1 DEF WorkOK
    <3>7. pc[u] \in {"fill", "load", "open", "fillSlot", "found", "reread",
                     "holding", "release"} => job[u].entry \in Entries
      BY <3>1 DEF WorkOK
    <3>8. pc[u] = "release" \/ (pc[u] = "load" /\ ~reader[job[u].entry].vHandle) =>
            reader'[job[u].entry] = reader[job[u].entry]
      BY <1>0, <3>1, <3>7 DEF RefStep, WorkOK
    <3>9. pc[u] \in {"load", "open", "fillSlot"} => Adding(u)
      BY DEF Adding
    <3>10. Closing(u)' => /\ job[u].entry \in Entries /\ reader[job[u].entry].vHandle
                          /\ reader'[job[u].entry].reference = 0
      <4>1. CASE pc[u] \in Closer
        BY <3>1, <3>3, <3>4, <4>1 DEF WorkOK
      <4>2. CASE pc[u] = "reread"
        BY <3>1, <4>2 DEF WorkOK, Closing
      <4> QED BY <3>1, <4>1, <4>2 DEF Closing
    <3>11. Adding(u)' => LET q == job'[u].first IN
             /\ q \in Entries /\ ~reader'[q].removed
             /\ reader'[q].vHandle \/ (pc'[u] = "load" /\ q = job'[u].entry)
      BY <3>1, <3>2, <3>5, <3>6 DEF WorkOK
    <3>12. pc'[u] \in {"load", "open"} => ~reader'[job'[u].entry].removed
      BY <3>1, <3>5, <3>7, <3>9 DEF WorkOK
    <3>13. Closing(u)' => LET q == reader'[job'[u].entry]
                          IN /\ q.vHandle /\ q.reference = 0
                             /\ pc'[u] = "close" => ~q.thread
      BY <3>1, <3>2, <3>3, <3>4, <3>10 DEF WorkOK
    <3> QED BY <3>1, <3>2, <3>7, <3>8, <3>10, <3>11, <3>12, <3>13 DEF WorkOK
  <2> QED BY <2>1, <2>2
<1>11. ClosersApart'
  <2>1. ASSUME NEW u \in Threads, NEW v \in Threads, u # v,
               Closing(u)', Closing(v)', job'[u].entry = job'[v].entry, v # t
        PROVE  FALSE
    <3> DEFINE e == job[v].entry
    <3>1. pc'[v] = pc[v] /\ job'[v] = job[v] /\ e \in Entries /\ WorkOK(v)'
          /\ reader'[e].reference = 0
      BY <1>1, <1>10, <2>1 DEF WorkOK
    <3>2. CASE pc'[u] = "reread" /\ pc'[v] = "reread"
      BY <2>1, <3>1, <3>2 DEF Calm, OneRereads
    <3>3. CASE e # i
      <4>1. reader'[e] = reader[e] /\ Closing(v)
        BY <1>0, <2>1, <3>1, <3>3 DEF Closing
      <4>2. u # t
        BY <1>1, <2>1, <3>3 DEF RefStep, Closing
      <4>3. Closing(u) /\ job[u].entry = e
        BY <1>1, <2>1, <3>1, <4>1, <4>2 DEF Closing
      <4> QED BY <2>1, <4>1, <4>3 DEF Inv, ClosersApart
    <3>4. CASE e = i /\ ~(pc'[u] = "reread" /\ pc'[v] = "reread")
      <4>1. pc[v] \notin Closer
        BY <2>1, <3>4 DEF RefStep, Closing
      <4>2. pc[v] = "reread" /\ pc'[u] \in Closer
        BY <2>1, <3>1, <3>4, <4>1 DEF Closing
      <4>3. reader[i].reference # 0
        BY <2>1, <3>4, <4>2 DEF RefStep, Closing
      <4>4. u # t
        BY <1>1, <4>2, <4>3 DEF RefStep
      <4>5. Closing(u) /\ job[u].entry = i
        BY <1>1, <2>1, <3>1, <3>4, <4>2, <4>4 DEF Closing
      <4> QED BY <4>4, <4>5 DEF RefStep
    <3> QED BY <3>2, <3>3, <3>4
  <2>2. ASSUME NEW u \in Threads, NEW v \in Threads, u # v,
               Closing(u)', Closing(v)', job'[u].entry = job'[v].entry
        PROVE  FALSE
    <3>1. CASE v # t
      BY <2>1, <2>2, <3>1
    <3>2. CASE v = t
      <4>1. u # t /\ job'[v].entry = job'[u].entry
        BY <2>2, <3>2
      <4> QED BY <2>1, <2>2, <4>1
    <3> QED BY <3>1, <3>2
  <2> QED BY <2>2 DEF ClosersApart
<1>12. Ports'
  <2>1. \A u \in Hotplugs : job'[u].library = job[u].library /\ job'[u].port = job[u].port
    BY <1>1, <1>2 DEF RefStep
  <2>2. \A k \in Live : reader'[k].port = reader[k].port
    BY <1>8 DEF SameReader, Live
  <2> QED BY <1>6, <1>8, <2>1, <2>2 DEF Inv, Ports, Port
<1>13. ASSUME NEW u \in Hotplugs PROVE AddsPort(u)'
  <2>1. \A k \in Live : /\ reader'[k].port = reader[k].port
                        /\ reader'[k].library = reader[k].library
                        /\ reader'[k].number = reader[k].number
                        /\ reader'[k].sub = reader[k].sub
    BY <1>8 DEF SameReader, Live
  <2>2. AddsPort(u)
    BY DEF Inv
  <2>3. CASE u = t
    <3>1. ~Adding(t)' /\ job'[t].library = job[t].library /\ job'[t].port = job[t].port
          /\ pc'[t] \notin {"add", "fill"} /\ pc[t] \notin {"add", "fill"}
      BY <1>1, <1>3, <2>3 DEF Adding, RefStep
    <3> QED BY <1>8, <2>1, <2>2, <2>3, <3>1 DEF AddsPort
  <2>4. CASE u # t
    <3>1. pc'[u] = pc[u] /\ job'[u] = job[u] /\ (Adding(u)' <=> Adding(u))
      BY <1>1, <1>2, <2>4 DEF Adding
    <3>2. Adding(u) => /\ reader'[job[u].first].slot = reader[job[u].first].slot
                       /\ reader'[job[u].first].sub = reader[job[u].first].sub
                       /\ reader'[job[u].first].library = reader[job[u].first].library
                       /\ reader'[job[u].first].number = reader[job[u].first].number
      <4>1. Adding(u) => job[u].first \in Entries
        BY <1>2 DEF Inv, WorkOK
      <4> QED BY <1>8, <4>1 DEF SameReader
    <3> QED BY <1>8, <2>1, <2>2, <3>1, <3>2 DEF AddsPort
  <2> QED BY <2>3, <2>4
<1>14. ASSUME NEW u \in Hotplugs PROVE SearchOK(u)'
  <2>1. CASE u = t
    BY <1>1, <2>1 DEF SearchOK, RefStep
  <2>2. CASE u # t
    <3>1. SearchOK(u) /\ pc'[u] = pc[u] /\ job'[u] = job[u]
      BY <1>1, <1>2, <2>2 DEF Inv
    <3>2. \A k \in Entries : /\ reader'[k].vHandle = reader[k].vHandle
                             /\ reader'[k].library = reader[k].library
                             /\ reader'[k].number = reader[k].number
      BY <1>8 DEF SameReader
    <3>3. \A k \in Live : k \in Entries
      BY DEF Live
    <3> QED BY <1>8, <3>1, <3>2, <3>3 DEF SearchOK
  <2> QED BY <2>1, <2>2
<1> QED BY <1>5, <1>6, <1>8, <1>9, <1>10, <1>11, <1>12, <1>13, <1>14 DEF Inv

\* A thread closes no reader that is referred to.
LEMMA NobodyCloses ==
  ASSUME Inv, NEW i \in Entries, reader[i].reference # 0
  PROVE  \A u \in Threads : Closing(u) => job[u].entry # i
BY DEF Inv, WorkOK

\* A command finds its reader.
LEMMA RFReaderInfoStep ==
  ASSUME Inv, Calm', NEW c \in Clients, NEW i \in Entries, RFReaderInfo(c, i),
         UNCHANGED hotplugVars
  PROVE  Inv'
<1> DEFINE j == [NoJob EXCEPT !.entry = i]
<1>0. LifecycleTypes /\ EntryOK(i) /\ c \in Threads /\ c \notin Hotplugs
      /\ reader[i] \in ReaderRecords
  BY LifecycleAssumption DEF Inv, Threads, LifecycleTypes
<1>1. /\ pc[c] = "idle" /\ reader[i].vHandle
      /\ reader[i].reference # 0 /\ Goto(c, "found") /\ SetJob(c, j)
      /\ UNCHANGED <<maxReaderContext, reader, sharedVars, evPc>>
  BY DEF RFReaderInfo, Used
<1>2. j \in JobRecords /\ j.entry = i /\ j.rv = "SUCCESS"
  <2>1. i \in Nat
    BY LifecycleAssumption DEF Entries
  <2>2. j \in JobRecords
    BY <2>1, FreeType, JobType
  <2> QED BY <2>2, FreeType DEF JobRecords, NoJob
<1>3. SameReader(i) /\ reader' = [reader EXCEPT ![i] = reader[i]]
  BY <1>0, <1>1 DEF SameReader, LifecycleTypes
<1> HIDE DEF j
<1>4. /\ pc'[c] = "found" /\ job'[c] = j
      /\ \A u \in Threads : u # c => pc'[u] = pc[u] /\ job'[u] = job[u]
  BY <1>0, <1>1, ThreadFrame
<1>5. \A k \in Entries : Holders(k)' = Holders(k)
  BY <1>0, <1>1, <1>4 DEF Holders, Threads
<1>6. EntryOK(i)'
  BY <1>0, <1>1, <1>5 DEF EntryOK
<1>7. RefStep(c, i, reader[i], "found", j)
  BY <1>0, <1>1, <1>2, <1>3, <1>5, NobodyCloses
     DEF RefStep, Closer, LifecycleTypes
<1> QED BY <1>0, <1>2, <1>6, <1>7, RefFrame

\* The command counts its reference.
LEMMA ReaderIsHeldStep ==
  ASSUME Inv, Calm', NEW c \in Clients, ReaderIsHeld(c), UNCHANGED hotplugVars
  PROVE  Inv'
<1>a. pc[c] = "found" /\ c \in Threads
  BY DEF ReaderIsHeld, Threads
<1>b. PICK i \in Entries : i = job[c].entry
  BY <1>a DEF Inv, WorkOK
<1> DEFINE r == [reader[i] EXCEPT !.reference = @ + 1]
<1>0. LifecycleTypes /\ c \in Threads /\ c \notin Hotplugs
      /\ job[c] \in JobRecords
  BY LifecycleAssumption DEF Inv, Threads, LifecycleTypes
<1>1. /\ pc[c] = "found" /\ Goto(c, "holding") /\ SetJob(c, job[c])
      /\ reader' = [reader EXCEPT ![i] = r]
      /\ UNCHANGED <<maxReaderContext, sharedVars, evPc>>
  BY <1>0, <1>b DEF ReaderIsHeld, RefReader, SetJob, LifecycleTypes
<1>2. reader[i].vHandle /\ reader[i].reference # 0
  <2>1. WorkOK(c)
    BY <1>0 DEF Inv
  <2> QED BY <1>1, <1>b, <2>1 DEF WorkOK, Inv, Calm, FoundStays
<1>3. job[c].rv # "SUCCESS" => job[c].library \in Libraries
  BY <1>0 DEF Inv, WorkOK
<1>4. EntryOK(i) /\ reader[i] \in ReaderRecords /\ reader[i].reference \in Nat
  BY <1>0, <1>2 DEF Inv, LifecycleTypes, ReaderRecords
<1>5. r \in ReaderRecords /\ r.reference = reader[i].reference + 1
      /\ r.vHandle = reader[i].vHandle /\ r.removed = reader[i].removed
      /\ r.thread = reader[i].thread
  <2>1. r \in ReaderRecords
    <3>1. reader[i].reference + 1 \in Nat
      BY <1>4
    <3> QED BY <1>4, <3>1, ReaderType
  <2> QED BY <1>4, <2>1 DEF ReaderRecords
<1>6. SameReader(i)
  BY <1>0, <1>1, <1>2, <1>4 DEF SameReader, LifecycleTypes, ReaderRecords
<1> HIDE DEF r
<1>7. /\ pc'[c] = "holding" /\ job'[c] = job[c] /\ reader'[i] = r
      /\ \A u \in Threads : u # c => pc'[u] = pc[u] /\ job'[u] = job[u]
  BY <1>0, <1>1, <1>2, ThreadFrame DEF LifecycleTypes
<1>8. /\ Holders(i)' = Holders(i) \cup {c} /\ c \notin Holders(i)
      /\ \A k \in Entries \ {i} : Holders(k)' = Holders(k)
  BY <1>0, <1>1, <1>7, <1>b DEF Holders, Threads
<1>9. EntryOK(i)'
  <2>1. IsFiniteSet(Holders(i)') /\ Cardinality(Holders(i)') = Cardinality(Holders(i)) + 1
        /\ Cardinality(Holders(i)) \in Nat
    BY <1>4, <1>8, FS_AddElement, FS_CardinalityType DEF EntryOK
  <2>2. Own(r) = Own(reader[i]) /\ Own(r) \in Nat
    BY <1>5 DEF Own
  <2>3. reader[i].reference = Own(reader[i]) + Cardinality(Holders(i))
        /\ i < maxReaderContext
    BY <1>2, <1>4 DEF EntryOK
  <2>4. r.reference = Own(r) + Cardinality(Holders(i)')
    BY <1>5, <2>1, <2>2, <2>3
  <2>5. evPc[i] # "none" => r.thread
    BY <1>4, <1>5 DEF EntryOK
  <2>6. Holders(i)' # {} => reader'[i].vHandle
    BY <1>2, <1>5, <1>7
  <2>7. i < maxReaderContext' /\ reader'[i].reference = Own(reader'[i]) + Cardinality(Holders(i)')
    BY <1>1, <1>7, <2>3, <2>4
  <2>8. evPc'[i] # "none" => reader'[i].vHandle /\ reader'[i].thread
    BY <1>1, <1>2, <1>5, <1>7, <2>5
  <2> QED BY <2>1, <2>6, <2>7, <2>8 DEF EntryOK
<1>10. RefStep(c, i, r, "holding", job[c])
  BY <1>0, <1>1, <1>2, <1>3, <1>5, <1>6, <1>8, <1>b, NobodyCloses
     DEF RefStep, Closer, LifecycleTypes
<1> QED BY <1>0, <1>2, <1>5, <1>9, <1>10, RefFrame

\* _UnrefReader(): a thread gives up a reference.
LEMMA UnrefStep ==
  ASSUME Inv, Calm', NEW t \in Threads, NEW i \in Entries, UnrefReader(t, i),
         UNCHANGED <<maxReaderContext, sharedVars, evPc>>,
         UNCHANGED hotplugVars, reader[i].vHandle,
         t \in Clients => pc[t] = "holding" /\ job[t].entry = i,
         t \in Hotplugs => pc[t] = "sweep" /\ ~reader[i].removed
  PROVE  Inv'
<1> DEFINE r == [reader[i] EXCEPT !.reference = @ - 1,
                                  !.removed = @ \/ t \in Hotplugs]
<1>0. /\ LifecycleTypes /\ EntryOK(i) /\ WorkOK(t)
      /\ Threads = Clients \cup Hotplugs /\ Clients \cap Hotplugs = {}
      /\ reader[i] \in ReaderRecords /\ reader[i].reference \in Nat
      /\ i \in Nat /\ job[t] \in JobRecords
  <2>1. LifecycleTypes /\ EntryOK(i) /\ WorkOK(t)
    BY DEF Inv
  <2>2. reader[i] \in ReaderRecords /\ job[t] \in JobRecords
    BY <2>1 DEF LifecycleTypes
  <2>3. Threads = Clients \cup Hotplugs /\ Clients \cap Hotplugs = {} /\ i \in Nat
    BY LifecycleAssumption DEF Threads, Entries
  <2> QED BY <2>1, <2>2, <2>3 DEF ReaderRecords
<1>1. /\ reader[i].reference = Own(reader[i]) + Cardinality(Holders(i))
      /\ IsFiniteSet(Holders(i)) /\ Cardinality(Holders(i)) \in Nat
      /\ i < maxReaderContext
  BY <1>0, FS_CardinalityType DEF EntryOK
<1>2. t \in Clients => t \in Holders(i) /\ Cardinality(Holders(i)) >= 1
  <2>1. t \in Clients => t \in Holders(i)
    BY DEF Holders
  <2>2. Holders(i) # {} => Cardinality(Holders(i)) # 0
    BY <1>1, FS_EmptySet
  <2> QED BY <1>1, <2>1, <2>2
<1>3. reader[i].reference >= 1 /\ Own(reader[i]) \in Nat
  BY <1>0, <1>1, <1>2 DEF Own
<1>4. /\ reader' = [reader EXCEPT ![i] = r] /\ Goto(t, "reread")
      /\ SetJob(t, [job[t] EXCEPT !.entry = i])
  <2>1. /\ reader' = [reader EXCEPT ![i].reference = @ - 1,
                                    ![i].removed = @ \/ t \in Hotplugs]
        /\ Goto(t, "reread") /\ SetJob(t, [job[t] EXCEPT !.entry = i])
    BY <1>0, <1>3 DEF UnrefReader
  <2>2. [reader EXCEPT ![i].reference = @ - 1,
                       ![i].removed = @ \/ t \in Hotplugs]
          = [reader EXCEPT ![i] = r]
    BY <1>0 DEF LifecycleTypes, ReaderRecords
  <2> QED BY <2>1, <2>2
<1>5. r \in ReaderRecords /\ r.reference = reader[i].reference - 1
      /\ r.vHandle = reader[i].vHandle
      /\ r.removed = (reader[i].removed \/ t \in Hotplugs)
      /\ r.thread = reader[i].thread
  <2>1. reader[i].reference - 1 \in Nat
    BY <1>0, <1>3
  <2>2. reader[i].removed \in BOOLEAN
    BY <1>0 DEF ReaderRecords
  <2>3. (reader[i].removed \/ t \in Hotplugs) \in BOOLEAN
    OBVIOUS
  <2>4. r \in ReaderRecords
    BY <1>0, <2>1, <2>3, ReaderType
  <2> QED BY <1>0, <2>4 DEF ReaderRecords
<1>6. SameReader(i)
  BY <1>0, <1>4 DEF SameReader, LifecycleTypes, ReaderRecords
<1> HIDE DEF r
<1>7. reader'[i] = r
  BY <1>0, <1>4 DEF LifecycleTypes
<1>8. ASSUME NEW step, NEW j \in JobRecords, Goto(t, step), SetJob(t, j),
             step # "holding"
      PROVE  /\ \A k \in Entries \ {i} : Holders(k)' = Holders(k)
             /\ EntryOK(i)'
  <2>1. /\ pc'[t] = step /\ job'[t] = j
        /\ \A u \in Threads : u # t => pc'[u] = pc[u] /\ job'[u] = job[u]
    BY <1>0, <1>8, ThreadFrame
  <2>2. /\ Holders(i)' = Holders(i) \ {t}
        /\ \A k \in Entries \ {i} : Holders(k)' = Holders(k)
    BY <1>0, <1>8, <2>1 DEF Holders
  <2>6. evPc[i] # "none" => r.thread
    BY <1>0, <1>5 DEF EntryOK
  <2>3. CASE t \in Clients
    <3>1. IsFiniteSet(Holders(i)')
          /\ Cardinality(Holders(i)') = Cardinality(Holders(i)) - 1
      BY <1>1, <1>2, <2>2, <2>3, FS_RemoveElement
    <3>2. Own(r) = Own(reader[i])
      BY <1>0, <1>5, <2>3 DEF Own
    <3>3. r.reference = Own(r) + Cardinality(Holders(i)')
      BY <1>1, <1>2, <1>3, <1>5, <2>3, <3>1, <3>2
    <3>4. EntryOK(i)'
      BY <1>1, <1>5, <1>7, <2>6, <3>1, <3>3 DEF EntryOK
    <3> QED BY <2>2, <3>4
  <2>4. CASE t \in Hotplugs
    <3>1. Holders(i)' = Holders(i)
      BY <1>0, <2>2, <2>4 DEF Holders
    <3>2. Own(r) = 0 /\ Own(reader[i]) = 1
      BY <1>0, <1>5, <2>4 DEF Own
    <3>3. r.reference = Own(r) + Cardinality(Holders(i)')
      BY <1>1, <1>5, <3>1, <3>2
    <3>4. EntryOK(i)'
      BY <1>1, <1>5, <1>7, <2>6, <3>1, <3>3 DEF EntryOK
    <3> QED BY <2>2, <3>4
  <2> QED BY <1>0, <2>2, <2>3, <2>4
<1>9. \A u \in Threads \ {t} : Closing(u) => job[u].entry # i
  BY <1>3, NobodyCloses
<1>10. evPc' \in [Entries -> {"none", "running", "cancelled"}]
       /\ \A k \in Entries : evPc'[k] = evPc[k]
  BY <1>0 DEF LifecycleTypes
<1>11. t \in Hotplugs \/ r.removed = reader[i].removed
  BY <1>0, <1>5 DEF ReaderRecords
<1>12. PICK j : j = [job[t] EXCEPT !.entry = i]
  OBVIOUS
<1>13. j \in JobRecords
  BY <1>0, <1>12, JobType
<1>14. j.entry = i /\ j.rv = job[t].rv /\ j.library = job[t].library
      /\ j.port = job[t].port
  BY <1>0, <1>12 DEF JobRecords
<1>15. SetJob(t, j) /\ Goto(t, "reread")
  BY <1>4, <1>12
<1>16. j.rv # "SUCCESS" => j.library \in Libraries
  BY <1>0, <1>14 DEF WorkOK
<1>17. (\A k \in Entries \ {i} : Holders(k)' = Holders(k)) /\ EntryOK(i)'
  BY <1>8, <1>13, <1>15
<1>18. RefStep(t, i, r, "reread", j)
  BY <1>0, <1>4, <1>6, <1>9, <1>10, <1>11, <1>14, <1>15, <1>16, <1>17
     DEF RefStep, Closer
<1> QED BY <1>5, <1>13, <1>17, <1>18, RefFrame

\* A command ends.
LEMMA RFUnrefReaderStep ==
  ASSUME Inv, Calm', NEW c \in Clients, RFUnrefReader(c), UNCHANGED hotplugVars
  PROVE  Inv'
<1> DEFINE i == job[c].entry
<1>0. /\ c \in Threads /\ c \notin Hotplugs /\ WorkOK(c)
      /\ \A k \in Entries : EntryOK(k)
  BY LifecycleAssumption DEF Inv, Threads
<1>1. /\ pc[c] = "holding" /\ UnrefReader(c, i)
      /\ UNCHANGED <<maxReaderContext, sharedVars, evPc>>
  BY DEF RFUnrefReader
<1>2. i \in Entries /\ c \in Holders(i)
  BY <1>0, <1>1 DEF WorkOK, Holders
<1> HIDE DEF i
<1>3. reader[i].vHandle
  BY <1>0, <1>2 DEF EntryOK
<1> QED BY <1>0, <1>1, <1>2, <1>3, UnrefStep DEF i

\* RFRemoveReader() gives up the reference of the table.
LEMMA SweepEntryStep ==
  ASSUME Inv, Calm', NEW t \in Hotplugs, SweepEntry(t),
         UNCHANGED hotplugVars
  PROVE  Inv'
<1> DEFINE i == Min(Remaining(t))
<1>0. t \in Threads /\ t \notin Clients
  BY LifecycleAssumption DEF Threads
<1>1. /\ pc[t] = "sweep" /\ Remaining(t) # {}
      /\ UnrefReader(t, i)
      /\ UNCHANGED <<maxReaderContext, sharedVars, evPc>>
  BY DEF SweepEntry
<1>2. Remaining(t) \subseteq Nat
  BY LifecycleAssumption DEF Remaining, Entries
<1>3. i \in Remaining(t)
  BY <1>1, <1>2, MinNat
<1> HIDE DEF i
<1>4. i \in Entries /\ reader[i].vHandle /\ ~reader[i].removed
  <2>1. i \in Entries /\ i >= job[t].entry /\ i \in Used
        /\ reader[i].port = job[t].port
    BY <1>3 DEF Remaining, Matches
  <2> QED BY <1>1, <2>1 DEF Used, Inv, Calm, PortsApart
<1> QED BY <1>0, <1>1, <1>4, UnrefStep

-----------------------------------------------------------------------------
\* Event threads

\* The entry a thread closes.
LEMMA CloserEntry ==
  ASSUME Inv, NEW t \in Threads, Closing(t)
  PROVE  LET i == job[t].entry
         IN /\ i \in Entries /\ EntryOK(i) /\ reader[i] \in ReaderRecords
            /\ reader[i].vHandle /\ reader[i].reference = 0
            /\ i < maxReaderContext /\ Holders(i) = {}
            /\ Own(reader[i]) = 0
            /\ \A u \in Threads \ {t} : Closing(u) => job[u].entry # i
<1> DEFINE i == job[t].entry
<1>1. i \in Entries /\ reader[i].vHandle /\ reader[i].reference = 0
  BY DEF Inv, WorkOK
<1> HIDE DEF i
<1>2. EntryOK(i) /\ reader[i] \in ReaderRecords
  BY <1>1 DEF Inv, LifecycleTypes
<1>3. /\ i < maxReaderContext /\ IsFiniteSet(Holders(i))
      /\ 0 = Own(reader[i]) + Cardinality(Holders(i))
  BY <1>1, <1>2 DEF EntryOK
<1>4. Own(reader[i]) \in Nat /\ Cardinality(Holders(i)) \in Nat
  BY <1>3, FS_CardinalityType DEF Own
<1>5. Own(reader[i]) = 0 /\ Cardinality(Holders(i)) = 0
  BY <1>3, <1>4
<1>6. Holders(i) = {}
  BY <1>3, <1>5, FS_EmptySet
<1>7. \A u \in Threads \ {t} : Closing(u) => job[u].entry # i
  BY DEF Inv, ClosersApart, i
<1> QED BY <1>1, <1>2, <1>3, <1>5, <1>6, <1>7 DEF i

\* A thread that closes a reader goes on with its event thread.
LEMMA CloserFrame ==
  ASSUME Inv, Calm', NEW t \in Threads, Closing(t), NEW i,
         i = job[t].entry, NEW r \in ReaderRecords,
         NEW step \in {"stomp", "join", "close"},
         reader' = [reader EXCEPT ![i] = r],
         SameReader(i),
         r.reference = 0, r.removed = reader[i].removed,
         step = "close" => ~r.thread,
         Goto(t, step), UNCHANGED job,
         UNCHANGED <<maxReaderContext, sharedVars>>, UNCHANGED hotplugVars,
         evPc' \in [Entries -> {"none", "running", "cancelled"}],
         \A k \in Entries \ {i} : evPc'[k] = evPc[k],
         evPc'[i] # "none" => r.thread
  PROVE  Inv'
<1>0. /\ LifecycleTypes /\ WorkOK(t) /\ job[t] \in JobRecords
      /\ Threads = Clients \cup Hotplugs /\ Clients \cap Hotplugs = {}
  BY LifecycleAssumption DEF Inv, LifecycleTypes, Threads
<1>1. /\ i \in Entries /\ EntryOK(i)
      /\ reader[i].vHandle /\ i < maxReaderContext /\ Holders(i) = {}
      /\ Own(reader[i]) = 0 /\ reader[i].reference = 0
      /\ \A u \in Threads \ {t} : Closing(u) => job[u].entry # i
  BY CloserEntry
<1>2. SetJob(t, job[t])
  BY <1>0 DEF SetJob, LifecycleTypes
<1>3. /\ pc'[t] = step
      /\ \A u \in Threads : u # t => pc'[u] = pc[u]
  BY <1>0, <1>2, ThreadFrame
<1>4. \A k \in Entries : Holders(k)' = Holders(k)
  BY <1>0, <1>3 DEF Holders, Closing
<1>5. reader'[i] = r /\ r.vHandle = reader[i].vHandle
  BY <1>0, <1>1 DEF LifecycleTypes, SameReader
<1>6. EntryOK(i)'
  <2>1. Own(r) = 0
    BY <1>1 DEF Own
  <2>2. IsFiniteSet(Holders(i)') /\ Cardinality(Holders(i)') = 0
    BY <1>1, <1>4, FS_EmptySet
  <2>3. /\ reader'[i].vHandle /\ i < maxReaderContext'
        /\ reader'[i].reference = Own(reader'[i]) + Cardinality(Holders(i)')
        /\ evPc'[i] # "none" => reader'[i].thread
    <3>1. reader'[i].vHandle
      BY <1>1, <1>5
    <3>2. reader'[i].reference = Own(reader'[i]) + Cardinality(Holders(i)')
      BY <1>5, <2>1, <2>2
    <3>3. evPc'[i] # "none" => reader'[i].thread
      BY <1>5
    <3> QED BY <1>1, <3>1, <3>2, <3>3
  <2> QED BY <2>2, <2>3 DEF EntryOK
<1>7. job[t].rv # "SUCCESS" => job[t].library \in Libraries
  BY <1>0 DEF WorkOK
<1>8. RefStep(t, i, r, step, job[t])
  BY <1>0, <1>1, <1>2, <1>4, <1>7 DEF RefStep, Closer, Closing
<1> QED BY <1>0, <1>1, <1>6, <1>8, RefFrame

\* The reference is read again: the thread that has given up the last one
\* closes the reader.
LEMMA LastReferenceStep ==
  ASSUME Inv, Calm', NEW t \in Threads, LastReference(t), UNCHANGED hotplugVars
  PROVE  Inv'
<1>0. /\ pc[t] = "reread" /\ UNCHANGED <<tableVars, sharedVars, evPc>>
      /\ LifecycleTypes /\ WorkOK(t) /\ job[t] \in JobRecords
      /\ Threads = Clients \cup Hotplugs /\ Clients \cap Hotplugs = {}
  BY LifecycleAssumption DEF LastReference, Inv, LifecycleTypes, Threads
<1>1. PICK i \in Entries : i = job[t].entry
  BY <1>0 DEF WorkOK
<1>2. /\ reader[i].vHandle /\ EntryOK(i) /\ reader[i] \in ReaderRecords
      /\ reader' = [reader EXCEPT ![i] = reader[i]] /\ SameReader(i)
      /\ evPc' \in [Entries -> {"none", "running", "cancelled"}]
      /\ \A k \in Entries : evPc'[k] = evPc[k]
      /\ i \in Nat
  <2>1. reader[i].vHandle
    BY <1>0, <1>1 DEF WorkOK
  <2>2. i \in Nat
    BY LifecycleAssumption DEF Entries
  <2> QED BY <1>0, <2>1, <2>2 DEF Inv, LifecycleTypes, SameReader
<1>3. CASE NoneLeft(i) /\ Goto(t, "stomp") /\ UNCHANGED job
  <2>1. Closing(t) /\ reader[i].reference = 0
    BY <1>0, <1>1, <1>3 DEF Closing, NoneLeft
  <2>2. evPc'[i] # "none" => reader[i].thread
    BY <1>2 DEF EntryOK
  <2> QED BY <1>0, <1>1, <1>2, <1>3, <2>1, <2>2, CloserFrame
<1>4. CASE ~NoneLeft(i) /\ AfterUnref(t, i)
  <2>1. reader[i].reference # 0
    BY <1>4 DEF NoneLeft
  <2>2. PICK step \in {"idle", "sweep"}, j \in JobRecords :
          /\ Goto(t, step) /\ SetJob(t, j)
          /\ t \in Clients => step = "idle"
          /\ step = "idle" => t \in Clients /\ j = NoJob
          /\ t \in Hotplugs =>
               /\ j.rv = job[t].rv /\ j.library = job[t].library
               /\ j.port = job[t].port
    <3>1. CASE t \in Clients
      BY <1>0, <1>4, <3>1, FreeType DEF AfterUnref
    <3>2. CASE t \notin Clients
      <4>1. PICK j : j = [job[t] EXCEPT !.entry = i + 1]
        OBVIOUS
      <4>2. j \in JobRecords
        <5>1. i + 1 \in Nat
          BY <1>2
        <5> QED BY <1>0, <4>1, <5>1, JobType
      <4>3. j.rv = job[t].rv /\ j.library = job[t].library
            /\ j.port = job[t].port
        BY <1>0, <4>1 DEF JobRecords
      <4>4. Goto(t, "sweep") /\ SetJob(t, j)
        BY <1>1, <1>4, <3>2, <4>1 DEF AfterUnref
      <4> QED BY <3>2, <4>2, <4>3, <4>4
    <3> QED BY <3>1, <3>2
  <2>3. /\ pc'[t] = step /\ job'[t] = j
        /\ \A u \in Threads : u # t => pc'[u] = pc[u] /\ job'[u] = job[u]
    BY <1>0, <2>2, ThreadFrame
  <2>4. \A k \in Entries : Holders(k)' = Holders(k)
    BY <1>0, <2>3 DEF Holders
  <2>5. EntryOK(i)'
    BY <1>0, <1>2, <2>4 DEF EntryOK
  <2>6. /\ j.rv # "SUCCESS" => j.library \in Libraries
        /\ step = "idle" => j.library = "none"
    BY <1>0, <2>2 DEF WorkOK, NoJob
  <2>7. RefStep(t, i, reader[i], step, j)
    BY <1>0, <1>2, <2>1, <2>2, <2>4, <2>6, NobodyCloses DEF RefStep, Closer
  <2> QED BY <1>2, <2>2, <2>5, <2>7, RefFrame
<1> QED BY <1>0, <1>1, <1>3, <1>4 DEF LastReference

\* The event thread is told to die.
LEMMA EHDestroyEventHandlerStep ==
  ASSUME Inv, Calm', NEW t \in Threads, EHDestroyEventHandler(t),
         UNCHANGED hotplugVars
  PROVE  Inv'
<1> DEFINE i == job[t].entry
           r == [reader[i] EXCEPT !.hLockId = "0xFFFF"]
<1>0. /\ pc[t] = "stomp" /\ UNCHANGED <<maxReaderContext, sharedVars>>
      /\ UNCHANGED job /\ Closing(t) /\ LifecycleTypes
  BY DEF EHDestroyEventHandler, Closing, Inv
<1>1. /\ i \in Entries /\ EntryOK(i) /\ reader[i] \in ReaderRecords
      /\ reader[i].vHandle /\ reader[i].reference = 0
  BY <1>0, CloserEntry
<1>2. CASE /\ reader[i].thread
           /\ reader' = [reader EXCEPT ![i].hLockId = "0xFFFF"]
           /\ evPc' = IF driver.killable
                      THEN [evPc EXCEPT ![i] = "cancelled"] ELSE evPc
           /\ Goto(t, "join")
  <2>1. reader' = [reader EXCEPT ![i] = r]
    BY <1>2
  <2>2. r \in ReaderRecords
    BY <1>1, ReaderType
  <2>3. r.reference = 0 /\ r.removed = reader[i].removed /\ r.thread
    BY <1>1, <1>2, <2>2 DEF ReaderRecords
  <2>4. SameReader(i)
    BY <1>0, <1>1, <2>1 DEF SameReader, LifecycleTypes, ReaderRecords
  <2>5. /\ evPc' \in [Entries -> {"none", "running", "cancelled"}]
        /\ \A k \in Entries \ {i} : evPc'[k] = evPc[k]
    BY <1>0, <1>2 DEF LifecycleTypes
  <2>6. Goto(t, "join")
    BY <1>2
  <2> HIDE DEF r
  <2> QED BY <1>0, <2>1, <2>2, <2>3, <2>4, <2>5, <2>6, CloserFrame
<1>3. CASE ~reader[i].thread /\ Goto(t, "close") /\ UNCHANGED <<reader, evPc>>
  <2>1. reader' = [reader EXCEPT ![i] = reader[i]]
    BY <1>0, <1>3 DEF LifecycleTypes
  <2>2. SameReader(i)
    BY <1>3 DEF SameReader
  <2>3. /\ evPc' \in [Entries -> {"none", "running", "cancelled"}]
        /\ \A k \in Entries \ {i} : evPc'[k] = evPc[k]
        /\ evPc'[i] # "none" => reader[i].thread
    BY <1>0, <1>1, <1>3 DEF LifecycleTypes, EntryOK
  <2> QED BY <1>0, <1>1, <1>3, <2>1, <2>2, <2>3, CloserFrame
<1> QED BY <1>2, <1>3 DEF EHDestroyEventHandler

\* The event thread has ended.
LEMMA JoinStep ==
  ASSUME Inv, Calm', NEW t \in Threads, Join(t), UNCHANGED hotplugVars
  PROVE  Inv'
<1> DEFINE i == job[t].entry
           r == [reader[i] EXCEPT !.thread = FALSE]
<1>0. /\ pc[t] = "join" /\ UNCHANGED <<maxReaderContext, sharedVars>>
      /\ UNCHANGED job /\ UNCHANGED evPc /\ Closing(t) /\ LifecycleTypes
      /\ evPc[i] = "none" /\ Goto(t, "close")
      /\ reader' = [reader EXCEPT ![i].thread = FALSE]
  BY DEF Join, Joined, Closing, Inv
<1>1. /\ i \in Entries /\ reader[i] \in ReaderRecords
      /\ reader[i].vHandle /\ reader[i].reference = 0
  BY <1>0, CloserEntry
<1>2. reader' = [reader EXCEPT ![i] = r]
  BY <1>0
<1>3. r \in ReaderRecords
  BY <1>1, ReaderType
<1>4. r.reference = 0 /\ r.removed = reader[i].removed /\ ~r.thread
  BY <1>1, <1>3 DEF ReaderRecords
<1>5. SameReader(i)
  <2>1. reader'[i] = r
    BY <1>0, <1>1, <1>2 DEF LifecycleTypes
  <2>2. /\ r.vHandle = reader[i].vHandle /\ r.library = reader[i].library
        /\ r.feeds = reader[i].feeds /\ r.mutex = reader[i].mutex
        /\ r.number = reader[i].number /\ r.sub = reader[i].sub
        /\ r.slot = reader[i].slot /\ r.port = reader[i].port
    BY <1>1 DEF ReaderRecords
  <2> HIDE DEF r
  <2> QED BY <2>1, <2>2 DEF SameReader
<1>6. /\ evPc' \in [Entries -> {"none", "running", "cancelled"}]
      /\ \A k \in Entries \ {i} : evPc'[k] = evPc[k]
      /\ evPc'[i] = "none"
  BY <1>0 DEF LifecycleTypes
<1> HIDE DEF r
<1> QED BY <1>0, <1>2, <1>3, <1>4, <1>5, <1>6, CloserFrame

\* A round of an event thread, which changes at most hLockId.
LEMMA EventFrame ==
  ASSUME Inv, Calm', NEW i \in Entries, NEW r \in ReaderRecords,
         reader' = [reader EXCEPT ![i] = r], SameReader(i),
         r.reference = reader[i].reference, r.removed = reader[i].removed,
         r.thread = reader[i].thread,
         evPc[i] # "none",
         evPc' = [evPc EXCEPT ![i] = "none"] \/ UNCHANGED evPc,
         UNCHANGED <<maxReaderContext, sharedVars, pc, job>>,
         UNCHANGED hotplugVars
  PROVE  Inv'
<1>0. /\ LifecycleTypes /\ HotplugTypes
      /\ \A k \in Entries : k # i => reader'[k] = reader[k]
      /\ reader'[i] = r
  BY DEF Inv, LifecycleTypes
<1>1. LifecycleTypes' /\ HotplugTypes'
  BY <1>0 DEF LifecycleTypes, HotplugTypes
<1>3. Counts' /\ Numbers' /\ Live' = Live
      /\ \A k \in Entries : SameReader(k)
  <2>1. SameLoading
    BY DEF SameLoading
  <2>2. \A k \in Entries : SameReader(k)
    BY <1>0 DEF SameReader
  <2> QED BY <2>1, <2>2, SharedFrame DEF Inv
<1>4. \A k \in Entries : /\ reader'[k].reference = reader[k].reference
                         /\ reader'[k].removed = reader[k].removed
                         /\ reader'[k].thread = reader[k].thread
                         /\ reader'[k].vHandle = reader[k].vHandle
                         /\ Own(reader'[k]) = Own(reader[k])
  BY <1>0, <1>3 DEF SameReader, Own
<1>2. \A u \in Threads : Closing(u)' <=> Closing(u)
  <2>1. \A u \in Threads : pc[u] = "reread" => job[u].entry \in Entries
    BY DEF Inv, WorkOK
  <2> QED BY <1>4, <2>1 DEF Closing
<1>5. ASSUME NEW k \in Entries PROVE EntryOK(k)'
  <2>1. EntryOK(k) /\ Holders(k)' = Holders(k)
    BY DEF Inv, Holders
  <2>2. evPc'[k] # "none" => evPc[k] # "none"
    BY <1>0 DEF LifecycleTypes
  <2> QED BY <1>4, <2>1, <2>2 DEF EntryOK
<1>6. ASSUME NEW u \in Threads PROVE WorkOK(u)'
  <2>1. /\ WorkOK(u) /\ (Adding(u)' <=> Adding(u)) /\ (Closing(u)' <=> Closing(u))
    BY <1>2 DEF Inv, Adding
  <2>2. Closing(u) => job[u].entry \in Entries
    BY <2>1 DEF WorkOK
  <2>3. Adding(u) => job[u].first \in Entries
    BY <2>1 DEF WorkOK
  <2>4. pc[u] \in {"found", "holding", "reread", "release", "fill", "load", "open",
                   "fillSlot"} => job[u].entry \in Entries
    BY <2>1 DEF WorkOK
  <2> QED BY <1>4, <2>1, <2>2, <2>3, <2>4 DEF WorkOK
<1>7. Ports' /\ \A u \in Hotplugs : AddsPort(u)'
  <2>1. \A k \in Live : /\ reader'[k].port = reader[k].port
                        /\ reader'[k].library = reader[k].library
                        /\ reader'[k].number = reader[k].number
                        /\ reader'[k].sub = reader[k].sub
    BY <1>3 DEF SameReader, Live
  <2>2. Ports'
    BY <1>3, <2>1 DEF Inv, Ports, Port
  <2>3. ASSUME NEW u \in Hotplugs PROVE AddsPort(u)'
    <3>1. AddsPort(u) /\ (Adding(u)' <=> Adding(u))
      BY DEF Inv, Adding
    <3>2. Adding(u) => /\ reader'[job[u].first].slot = reader[job[u].first].slot
                       /\ reader'[job[u].first].sub = reader[job[u].first].sub
                       /\ reader'[job[u].first].library = reader[job[u].first].library
                       /\ reader'[job[u].first].number = reader[job[u].first].number
      <4>1. Adding(u) => job[u].first \in Entries
        BY DEF Inv, WorkOK, Threads
      <4> QED BY <1>3, <4>1 DEF SameReader
    <3> QED BY <1>3, <2>1, <3>1, <3>2 DEF AddsPort
  <2> QED BY <2>2, <2>3
<1>8. ASSUME NEW u \in Hotplugs PROVE SearchOK(u)'
  <2>1. SearchOK(u) /\ \A k \in Live : k \in Entries
    BY DEF Inv, Live
  <2> QED BY <1>3, <2>1 DEF SearchOK, SameReader
<1>9. ClosersApart'
  BY <1>2 DEF Inv, ClosersApart
<1> QED BY <1>1, <1>3, <1>5, <1>6, <1>7, <1>8, <1>9 DEF Inv

\* A round of the event thread, and its end.
LEMMA EventThreadStep ==
  ASSUME Inv, Calm', NEW i \in Entries, EventThread(i), UNCHANGED hotplugVars
  PROVE  Inv'
<1> DEFINE r == [reader[i] EXCEPT !.hLockId = "0"]
<1>0. LifecycleTypes /\ reader[i] \in ReaderRecords
  BY DEF Inv, LifecycleTypes
<1>1. CASE EHCancelled(i)
  <2>1. reader' = [reader EXCEPT ![i] = reader[i]] /\ SameReader(i)
    BY <1>0, <1>1 DEF EHCancelled, LifecycleTypes, SameReader
  <2>2. /\ evPc[i] # "none" /\ evPc' = [evPc EXCEPT ![i] = "none"]
        /\ UNCHANGED <<maxReaderContext, sharedVars, pc, job>>
    BY <1>1 DEF EHCancelled
  <2> QED BY <1>0, <2>1, <2>2, EventFrame
<1>2. CASE EHCardRemoved(i) \/ EHOrderSeen(i)
  <2>1. /\ evPc[i] # "none"
        /\ evPc' = [evPc EXCEPT ![i] = "none"] \/ UNCHANGED evPc
        /\ UNCHANGED <<maxReaderContext, sharedVars, pc, job>>
        /\ reader' = [reader EXCEPT ![i] = r]
    BY <1>2 DEF EHCardRemoved, EHOrderSeen
  <2>2. r \in ReaderRecords
    BY <1>0, ReaderType
  <2>3. r.reference = reader[i].reference /\ r.removed = reader[i].removed
        /\ r.thread = reader[i].thread
    BY <1>0, <2>2 DEF ReaderRecords
  <2>4. SameReader(i)
    BY <1>0, <2>1 DEF SameReader, LifecycleTypes, ReaderRecords
  <2> HIDE DEF r
  <2> QED BY <2>1, <2>2, <2>3, <2>4, EventFrame
<1> QED BY <1>1, <1>2 DEF EventThread

-----------------------------------------------------------------------------
\* What the readers share

\* A set with one more element.
LEMMA OneMore ==
  ASSUME NEW S, IsFiniteSet(S), NEW x, x \notin S, NEW T, T = S \cup {x}
  PROVE  Cardinality(T) = Cardinality(S) + 1
BY FS_AddElement

\* A set without one of its elements.
LEMMA OneLess ==
  ASSUME NEW S, IsFiniteSet(S), NEW x \in S, NEW T, T = S \ {x}
  PROVE  Cardinality(T) = Cardinality(S) - 1
BY FS_RemoveElement

\* The table is finite.
LEMMA LiveFinite ==
  /\ IsFiniteSet(Live) /\ IsFiniteSet(Counted)
  /\ \A o : IsFiniteSet(Feeding(o)) /\ IsFiniteSet(Sharing(o))
  /\ \A lib : IsFiniteSet(LoadedFor(lib))
<1>1. IsFiniteSet(Entries) /\ IsFiniteSet(Objects)
  BY FS_Interval, LifecycleAssumption DEF Entries, Objects
<1>2. IsFiniteSet(Live) /\ IsFiniteSet(Counted)
  BY <1>1, FS_Subset DEF Live, Counted
<1>3. ASSUME NEW o PROVE IsFiniteSet(Feeding(o)) /\ IsFiniteSet(Sharing(o))
  <2>1. Feeding(o) \subseteq Counted /\ Sharing(o) \subseteq Counted
    BY DEF Feeding, Sharing
  <2> QED BY <1>2, <2>1, FS_Subset
<1>4. ASSUME NEW lib PROVE IsFiniteSet(LoadedFor(lib))
  <2>1. LoadedFor(lib) \subseteq Objects
    BY DEF LoadedFor
  <2> QED BY <1>1, <2>1, FS_Subset
<1> QED BY <1>2, <1>3, <1>4

\* A counter somebody uses is exact, and so is one that is 0.
LEMMA CountIsExact ==
  ASSUME NEW count \in Nat, NEW users, IsFiniteSet(users), Exact(count, users),
         count = 0 \/ users # {}
  PROVE  count = Cardinality(users)
<1>1. users = {} => Cardinality(users) = 0
  BY FS_EmptySet
<1> QED BY <1>1 DEF Exact

\* Nothing changes when the same readers stay in use.
SameShare(i) ==
  /\ reader'[i].vHandle = reader[i].vHandle
  /\ reader'[i].library = reader[i].library
  /\ reader'[i].feeds = reader[i].feeds
  /\ reader'[i].mutex = reader[i].mutex

\* The counters are right if they and the readers in use stay the same.
LEMMA SharedSame ==
  ASSUME \A i \in Entries : SameShare(i), Live' = Live, Counted' = Counted,
         UNCHANGED <<pFeeds, pMutex, loaded, driver>>
  PROVE  Counts => Counts'
<1>2. (\A i \in Live : i \in Entries) /\ \A i \in Counted : i \in Entries
  BY DEF Live, Counted
<1>3. \A o \in Objects : Feeding(o)' = Feeding(o) /\ Sharing(o)' = Sharing(o)
  BY <1>2 DEF Feeding, Sharing, SameShare
<1>4. \A lib \in Libraries : LoadedFor(lib)' = LoadedFor(lib)
  BY DEF LoadedFor, SameShare
<1>5. Counts => Counts'
  BY <1>2, <1>3, <1>4 DEF Counts, Exact, SameShare
<1> QED BY <1>5

\* A reader joins those of its driver, or brings a driver of its own.
LEMMA CountsGrow ==
  ASSUME Counts, NEW i \in Entries \ Live, NEW r,
         pFeeds \in [Objects -> Nat], pMutex \in [Objects -> Nat],
         reader' = [reader EXCEPT ![i] = r], reader'[i] = r,
         \A k \in Entries : k # i => reader'[k] = reader[k],
         Live' = Live \cup {i}, Counted = Live, Counted' = Live',
         pFeeds' = [pFeeds EXCEPT ![r.feeds] = @ + 1],
         pMutex' = [pMutex EXCEPT ![r.mutex] = @ + 1],
         UNCHANGED <<loaded, driver>>,
         r.feeds \in Objects, r.mutex \in Objects, r.library \in Libraries,
         \A k \in Live : reader[k].vHandle,
         r.vHandle => \E k \in Live : /\ r.feeds = reader[k].feeds
                                      /\ r.library = reader[k].library,
         pFeeds[r.feeds] = 0 \/ Feeding(r.feeds) # {},
         pMutex[r.mutex] = 0 \/ Sharing(r.mutex) # {},
         ~r.vHandle => Feeding(r.feeds) = {} /\ Sharing(r.mutex) = {}
  PROVE  Counts'
<1>0. \A k \in Live : k \in Entries /\ k # i /\ reader'[k] = reader[k]
  BY DEF Live
<1>1. \A k \in Live' : /\ reader'[k].feeds \in Objects
                       /\ reader'[k].mutex \in Objects
                       /\ reader'[k].library \in Libraries
  BY <1>0 DEF Counts
<1>2. ASSUME NEW o \in Objects
      PROVE  Exact(pFeeds[o], Feeding(o))'
  <2>1. Exact(pFeeds[o], Feeding(o)) /\ IsFiniteSet(Feeding(o))
        /\ i \notin Feeding(o) /\ pFeeds[o] \in Nat
    BY LiveFinite DEF Counts, Feeding
  <2>2. CASE o = r.feeds
    <3>1. Feeding(o)' = Feeding(o) \cup {i}
      BY <1>0, <2>2 DEF Feeding
    <3>2. Cardinality(Feeding(o)') = Cardinality(Feeding(o)) + 1
      BY <2>1, <3>1, OneMore
    <3>3. pFeeds'[o] = pFeeds[o] + 1 /\ pFeeds[o] = Cardinality(Feeding(o))
      BY <2>1, <2>2, CountIsExact
    <3> QED BY <3>2, <3>3 DEF Exact
  <2>3. CASE o # r.feeds
    <3>1. Feeding(o)' = Feeding(o)
      BY <1>0, <2>3 DEF Feeding
    <3> QED BY <2>1, <2>3, <3>1 DEF Exact
  <2> QED BY <2>2, <2>3
<1>3. ASSUME NEW o \in Objects
      PROVE  Exact(pMutex[o], Sharing(o))'
  <2>1. Exact(pMutex[o], Sharing(o)) /\ IsFiniteSet(Sharing(o))
        /\ i \notin Sharing(o) /\ pMutex[o] \in Nat
    BY LiveFinite DEF Counts, Sharing
  <2>2. CASE o = r.mutex
    <3>1. Sharing(o)' = Sharing(o) \cup {i}
      BY <1>0, <2>2 DEF Sharing
    <3>2. Cardinality(Sharing(o)') = Cardinality(Sharing(o)) + 1
      BY <2>1, <3>1, OneMore
    <3>3. pMutex'[o] = pMutex[o] + 1 /\ pMutex[o] = Cardinality(Sharing(o))
      BY <2>1, <2>2, CountIsExact
    <3> QED BY <3>2, <3>3 DEF Exact
  <2>3. CASE o # r.mutex
    <3>1. Sharing(o)' = Sharing(o)
      BY <1>0, <2>3 DEF Sharing
    <3> QED BY <2>1, <2>3, <3>1 DEF Exact
  <2> QED BY <2>2, <2>3
<1>4. \A k \in Live : r.feeds = reader[k].feeds => r.library = reader[k].library
  <2>1. CASE r.vHandle
    BY <2>1 DEF Counts
  <2>2. CASE ~r.vHandle
    BY <2>2 DEF Feeding
  <2> QED BY <2>1, <2>2
<1>5. \A k, l \in Live' : reader'[k].feeds = reader'[l].feeds =>
        reader'[k].library = reader'[l].library
  BY <1>0, <1>4 DEF Counts
<1>6. ASSUME NEW k \in Live', NEW l \in Live', k # l, ~reader'[k].vHandle
      PROVE  /\ reader'[k].feeds # reader'[l].feeds
             /\ reader'[k].mutex # reader'[l].mutex
  <2>1. k = i /\ l \in Live
    BY <1>0, <1>6
  <2> QED BY <1>0, <1>6, <2>1 DEF Feeding, Sharing
<1>7. ASSUME NEW lib \in Libraries
      PROVE  loaded'[lib] = Cardinality(LoadedFor(lib)')
  <2>1. ASSUME NEW o \in Objects PROVE o \in LoadedFor(lib)' <=> o \in LoadedFor(lib)
    <3>1. ASSUME o \in LoadedFor(lib) PROVE o \in LoadedFor(lib)'
      <4>1. PICK k \in Entries : reader[k].vHandle /\ reader[k].feeds = o
                                 /\ reader[k].library = lib
        BY <3>1 DEF LoadedFor
      <4>2. k # i
        BY <4>1 DEF Live
      <4> QED BY <4>1, <4>2 DEF LoadedFor
    <3>2. ASSUME o \in LoadedFor(lib)' PROVE o \in LoadedFor(lib)
      <4>1. PICK k \in Entries : reader'[k].vHandle /\ reader'[k].feeds = o
                                 /\ reader'[k].library = lib
        BY <3>2 DEF LoadedFor
      <4>2. CASE k # i
        BY <4>1, <4>2 DEF LoadedFor
      <4>3. CASE k = i
        <5>1. PICK m \in Live : r.feeds = reader[m].feeds
                                /\ r.library = reader[m].library
          BY <4>1, <4>3
        <5> QED BY <1>0, <4>1, <4>3, <5>1 DEF LoadedFor
      <4> QED BY <4>2, <4>3
    <3> QED BY <3>1, <3>2
  <2>2. LoadedFor(lib)' = LoadedFor(lib)
    BY <2>1 DEF LoadedFor
  <2> QED BY <2>2 DEF Counts
<1> QED BY <1>1, <1>2, <1>3, <1>5, <1>6, <1>7 DEF Counts

\* The driver of a reader is loaded.
LEMMA CountsLoad ==
  ASSUME Counts, NEW i \in Live, ~reader[i].vHandle,
         loaded \in [Libraries -> Nat],
         reader'[i].vHandle, reader'[i].feeds = reader[i].feeds,
         reader'[i].mutex = reader[i].mutex,
         reader'[i].library = reader[i].library,
         \A k \in Entries : k # i => reader'[k] = reader[k],
         \A k \in Live : k # i => reader[k].vHandle,
         Live' = Live, Counted' = Counted, UNCHANGED <<pFeeds, pMutex, driver>>,
         loaded' = [loaded EXCEPT ![reader[i].library] = @ + 1]
  PROVE  Counts'
<1>0. /\ \A k \in Counted : /\ k \in Entries /\ reader'[k].feeds = reader[k].feeds
                            /\ reader'[k].mutex = reader[k].mutex
                            /\ reader'[k].library = reader[k].library
      /\ \A k \in Live : k \in Counted /\ reader'[k].vHandle
  BY DEF Live, Counted
<1>1. \A o \in Objects : Feeding(o)' = Feeding(o) /\ Sharing(o)' = Sharing(o)
  BY <1>0 DEF Feeding, Sharing
<1> DEFINE f == reader[i].feeds
<1>2. ASSUME NEW lib \in Libraries
      PROVE  loaded'[lib] = Cardinality(LoadedFor(lib)')
  <2>1. loaded[lib] = Cardinality(LoadedFor(lib)) /\ IsFiniteSet(LoadedFor(lib))
        /\ loaded[lib] \in Nat
    BY LiveFinite DEF Counts
  <2>2. f \in Objects /\ \A l \in Libraries : f \notin LoadedFor(l)
    <3>1. \A k \in Entries : reader[k].vHandle => k \in Counted /\ k # i
      BY DEF Live, Counted
    <3> QED BY <1>0, <3>1 DEF Counts, LoadedFor
  <2>3. CASE lib = reader[i].library
    <3>1. LoadedFor(lib)' = LoadedFor(lib) \cup {f}
      <4>1. ASSUME NEW o \in Objects
            PROVE  o \in LoadedFor(lib)' <=> o \in LoadedFor(lib) \/ o = f
        <5>1. o = f => o \in LoadedFor(lib)'
          BY <2>3, <1>0 DEF LoadedFor
        <5>2. o \in LoadedFor(lib) => o \in LoadedFor(lib)'
          BY DEF LoadedFor
        <5>3. o \in LoadedFor(lib)' => o \in LoadedFor(lib) \/ o = f
          BY <1>0 DEF LoadedFor
        <5> QED BY <5>1, <5>2, <5>3
      <4> QED BY <2>2, <4>1 DEF LoadedFor
    <3>2. Cardinality(LoadedFor(lib)') = Cardinality(LoadedFor(lib)) + 1
      BY <2>1, <2>2, <3>1, OneMore
    <3>3. loaded'[lib] = loaded[lib] + 1
      BY <2>3
    <3> QED BY <2>1, <3>2, <3>3
  <2>4. CASE lib # reader[i].library
    <3>1. LoadedFor(lib)' = LoadedFor(lib)
      BY <2>4 DEF LoadedFor
    <3> QED BY <2>1, <2>4, <3>1
  <2> QED BY <2>3, <2>4
<1>3. \A k, l \in Live' : reader'[k].feeds = reader'[l].feeds =>
        reader'[k].library = reader'[l].library
  BY <1>0 DEF Counts
<1>4. \A k \in Counted' : /\ reader'[k].feeds \in Objects
                          /\ reader'[k].mutex \in Objects
                          /\ reader'[k].library \in Libraries
  BY <1>0 DEF Counts
<1>5. \A o \in Objects : /\ Exact(pFeeds[o], Feeding(o))'
                         /\ Exact(pMutex[o], Sharing(o))'
  BY <1>1 DEF Counts, Exact
<1>6. \A k \in Live' : reader'[k].vHandle
  BY <1>0
<1> QED BY <1>2, <1>3, <1>4, <1>5, <1>6 DEF Counts

\* The driver of a reader could not be loaded: its counters are lost.
LEMMA CountsForget ==
  ASSUME Counts, NEW i \in Live, ~reader[i].vHandle, "load" \in driver.fails,
         UNCHANGED <<reader, loaded, pFeeds, pMutex, driver>>,
         Live' = Live \ {i}, Counted' = Counted \ {i}
  PROVE  Counts'
<1> DEFINE f == reader[i].feeds
           m == reader[i].mutex
<1>1. /\ f \in Objects /\ m \in Objects
      /\ \A k \in Counted \ {i} : reader[k].feeds # f /\ reader[k].mutex # m
  BY DEF Counts, Live, Counted
<1>2. ASSUME NEW o \in Objects PROVE Exact(pFeeds[o], Feeding(o))'
  <2>1. CASE o = f
    <3>1. Feeding(o)' = {}
      BY <1>1, <2>1 DEF Feeding
    <3> QED BY <3>1 DEF Exact
  <2>2. CASE o # f
    <3>1. Feeding(o)' = Feeding(o)
      BY <2>2 DEF Feeding
    <3> QED BY <2>2, <3>1 DEF Counts, Exact
  <2> QED BY <2>1, <2>2
<1>3. ASSUME NEW o \in Objects PROVE Exact(pMutex[o], Sharing(o))'
  <2>1. CASE o = m
    <3>1. Sharing(o)' = {}
      BY <1>1, <2>1 DEF Sharing
    <3> QED BY <3>1 DEF Exact
  <2>2. CASE o # m
    <3>1. Sharing(o)' = Sharing(o)
      BY <2>2 DEF Sharing
    <3> QED BY <2>2, <3>1 DEF Counts, Exact
  <2> QED BY <2>1, <2>2
<1>4. \A lib \in Libraries : LoadedFor(lib)' = LoadedFor(lib)
  BY DEF LoadedFor
<1> QED BY <1>2, <1>3, <1>4 DEF Counts

\* A reader gives up its driver, which the last one unloads, while no other
\* reader is between that and its counters.
LEMMA CountsClose ==
  ASSUME Counts, NEW i \in Live, reader[i].vHandle,
         pFeeds \in [Objects -> Nat], loaded \in [Libraries -> Nat],
         ~reader'[i].vHandle, reader'[i].feeds = reader[i].feeds,
         reader'[i].mutex = reader[i].mutex,
         reader'[i].library = reader[i].library,
         \A k \in Entries : k # i => reader'[k] = reader[k],
         Live' = Live \ {i}, Counted' = Counted,
         \A k \in Counted : k # i => k \in Live,
         UNCHANGED <<pFeeds, pMutex, driver>>,
         loaded' = IF pFeeds[reader[i].feeds] = 1
                   THEN [loaded EXCEPT ![reader[i].library] = @ - 1] ELSE loaded
  PROVE  Counts'
<1> DEFINE f == reader[i].feeds
           lb == reader[i].library
<1>0. /\ f \in Objects /\ lb \in Libraries /\ i \in Counted
      /\ \A k \in Live' : k \in Live /\ k \in Entries /\ k # i /\ reader'[k] = reader[k]
      /\ \A k \in Counted : /\ k \in Entries /\ reader'[k].feeds = reader[k].feeds
                            /\ reader'[k].mutex = reader[k].mutex
                            /\ reader'[k].library = reader[k].library
  BY DEF Counts, Live, Counted
<1>1. \A o \in Objects : Feeding(o)' = Feeding(o) /\ Sharing(o)' = Sharing(o)
  BY <1>0 DEF Feeding, Sharing
<1>4. pFeeds[f] = 1 <=> \A k \in Counted \ {i} : reader[k].feeds # f
  <2>0. pFeeds[f] = Cardinality(Feeding(f)) /\ IsFiniteSet(Feeding(f))
        /\ i \in Feeding(f)
    <3>1. i \in Feeding(f) /\ IsFiniteSet(Feeding(f)) /\ Exact(pFeeds[f], Feeding(f))
      BY <1>0, LiveFinite DEF Counts, Feeding
    <3> QED BY <1>0, <3>1, CountIsExact
  <2>1. ASSUME NEW k \in Counted \ {i}, reader[k].feeds = f PROVE pFeeds[f] # 1
    <3>1. k \in Feeding(f) \ {i}
      BY <2>1 DEF Feeding
    <3>2. IsFiniteSet(Feeding(f) \ {i})
          /\ Cardinality(Feeding(f) \ {i}) = Cardinality(Feeding(f)) - 1
      BY <2>0, FS_RemoveElement
    <3>3. Cardinality(Feeding(f) \ {i}) # 0
      BY <3>1, <3>2, FS_EmptySet
    <3> QED BY <2>0, <3>2, <3>3
  <2>2. ASSUME \A k \in Counted \ {i} : reader[k].feeds # f PROVE pFeeds[f] = 1
    <3>1. Feeding(f) = {i}
      BY <2>0, <2>2 DEF Feeding
    <3> QED BY <2>0, <3>1, FS_Singleton
  <2> QED BY <2>1, <2>2
<1>5. ASSUME NEW lib \in Libraries
      PROVE  loaded'[lib] = Cardinality(LoadedFor(lib)')
  <2>0. loaded[lib] = Cardinality(LoadedFor(lib)) /\ IsFiniteSet(LoadedFor(lib))
        /\ loaded[lib] \in Nat
    BY LiveFinite DEF Counts
  <2>1. CASE pFeeds[f] = 1 /\ lib = lb
    <3>1. \A k \in Entries : k # i /\ reader[k].vHandle => reader[k].feeds # f
      BY <1>4, <2>1 DEF Live, Counted
    <3>2. LoadedFor(lib)' = LoadedFor(lib) \ {f} /\ f \in LoadedFor(lib)
      <4>1. f \in LoadedFor(lib)
        BY <1>0, <2>1 DEF LoadedFor, Live
      <4>2. ASSUME NEW o \in Objects
            PROVE  o \in LoadedFor(lib)' <=> o \in LoadedFor(lib) /\ o # f
        <5>1. o \in LoadedFor(lib)' => o \in LoadedFor(lib) /\ o # f
          BY <3>1 DEF LoadedFor
        <5>2. o \in LoadedFor(lib) /\ o # f => o \in LoadedFor(lib)'
          BY DEF LoadedFor
        <5> QED BY <5>1, <5>2
      <4> QED BY <4>1, <4>2 DEF LoadedFor
    <3>3. Cardinality(LoadedFor(lib)') = Cardinality(LoadedFor(lib)) - 1
      BY <2>0, <3>2, OneLess
    <3>4. loaded'[lib] = loaded[lib] - 1
      BY <2>1
    <3> QED BY <2>0, <3>3, <3>4
  <2>2. CASE pFeeds[f] = 1 /\ lib # lb
    <3>1. LoadedFor(lib)' = LoadedFor(lib)
      BY <2>2 DEF LoadedFor
    <3> QED BY <2>0, <2>2, <3>1
  <2>3. CASE pFeeds[f] # 1
    <3>1. PICK k \in Counted \ {i} : reader[k].feeds = f
      BY <1>4, <2>3
    <3>2. reader[k].vHandle /\ reader[k].library = lb /\ k \in Entries
      BY <1>0, <3>1 DEF Counts
    <3>3. LoadedFor(lib)' = LoadedFor(lib)
      BY <3>1, <3>2 DEF LoadedFor
    <3> QED BY <2>0, <2>3, <3>3
  <2> QED BY <2>1, <2>2, <2>3
<1>6. \A k, l \in Live' : reader'[k].feeds = reader'[l].feeds =>
        reader'[k].library = reader'[l].library
  BY <1>0 DEF Counts
<1>7. \A k \in Live', l \in Counted' : k # l /\ ~reader'[k].vHandle =>
        /\ reader'[k].feeds # reader'[l].feeds
        /\ reader'[k].mutex # reader'[l].mutex
  BY <1>0 DEF Counts
<1>8. \A k \in Counted' : /\ reader'[k].feeds \in Objects
                          /\ reader'[k].mutex \in Objects
                          /\ reader'[k].library \in Libraries
  BY <1>0 DEF Counts
<1>9. \A o \in Objects : /\ Exact(pFeeds[o], Feeding(o))'
                         /\ Exact(pMutex[o], Sharing(o))'
  BY <1>1 DEF Counts, Exact
<1> QED BY <1>5, <1>6, <1>7, <1>8, <1>9 DEF Counts

\* A reader that has given up its driver leaves those that share its counters.
LEMMA CountsRelease ==
  ASSUME Counts, NEW i \in Counted, ~reader[i].vHandle, i \notin Live,
         pFeeds \in [Objects -> Nat], pMutex \in [Objects -> Nat],
         ~reader'[i].vHandle,
         \A k \in Entries : k # i => reader'[k] = reader[k],
         Live' = Live, Counted' = Counted \ {i},
         pFeeds' = [pFeeds EXCEPT ![reader[i].feeds] = @ - 1],
         pMutex' = [pMutex EXCEPT ![reader[i].mutex] = @ - 1],
         UNCHANGED <<loaded, driver>>
  PROVE  Counts'
<1> DEFINE f == reader[i].feeds
           m == reader[i].mutex
<1>0. /\ f \in Objects /\ m \in Objects
      /\ \A k \in Counted' : /\ k \in Counted /\ k \in Entries /\ k # i
                             /\ reader'[k] = reader[k]
      /\ \A k \in Live' : k \in Live /\ k \in Counted'
  BY DEF Counts, Live, Counted
<1>2. ASSUME NEW o \in Objects PROVE Exact(pFeeds[o], Feeding(o))'
  <2>0. Exact(pFeeds[o], Feeding(o)) /\ IsFiniteSet(Feeding(o)) /\ pFeeds[o] \in Nat
    BY LiveFinite DEF Counts
  <2>1. CASE o = f
    <3>1. Feeding(o)' = Feeding(o) \ {i} /\ i \in Feeding(o)
      BY <1>0, <2>1 DEF Feeding
    <3>2. pFeeds[o] = Cardinality(Feeding(o))
      BY <2>0, <3>1, CountIsExact
    <3>3. Cardinality(Feeding(o)') = Cardinality(Feeding(o)) - 1
      BY <2>0, <3>1, OneLess
    <3> QED BY <2>1, <3>2, <3>3 DEF Exact
  <2>2. CASE o # f
    <3>1. Feeding(o)' = Feeding(o)
      BY <1>0, <2>2 DEF Feeding
    <3> QED BY <2>0, <2>2, <3>1 DEF Exact
  <2> QED BY <2>1, <2>2
<1>3. ASSUME NEW o \in Objects PROVE Exact(pMutex[o], Sharing(o))'
  <2>0. Exact(pMutex[o], Sharing(o)) /\ IsFiniteSet(Sharing(o)) /\ pMutex[o] \in Nat
    BY LiveFinite DEF Counts
  <2>1. CASE o = m
    <3>1. Sharing(o)' = Sharing(o) \ {i} /\ i \in Sharing(o)
      BY <1>0, <2>1 DEF Sharing
    <3>2. pMutex[o] = Cardinality(Sharing(o))
      BY <2>0, <3>1, CountIsExact
    <3>3. Cardinality(Sharing(o)') = Cardinality(Sharing(o)) - 1
      BY <2>0, <3>1, OneLess
    <3> QED BY <2>1, <3>2, <3>3 DEF Exact
  <2>2. CASE o # m
    <3>1. Sharing(o)' = Sharing(o)
      BY <1>0, <2>2 DEF Sharing
    <3> QED BY <2>0, <2>2, <3>1 DEF Exact
  <2> QED BY <2>1, <2>2
<1>5. \A lib \in Libraries : LoadedFor(lib)' = LoadedFor(lib)
  BY DEF LoadedFor
<1>6. \A k, l \in Live' : reader'[k].feeds = reader'[l].feeds =>
        reader'[k].library = reader'[l].library
  BY <1>0 DEF Counts
<1>7. \A k \in Live', l \in Counted' : k # l /\ ~reader'[k].vHandle =>
        /\ reader'[k].feeds # reader'[l].feeds
        /\ reader'[k].mutex # reader'[l].mutex
  BY <1>0 DEF Counts
<1>8. \A k \in Counted' : /\ reader'[k].feeds \in Objects
                          /\ reader'[k].mutex \in Objects
                          /\ reader'[k].library \in Libraries
  BY <1>0 DEF Counts
<1> QED BY <1>2, <1>3, <1>5, <1>6, <1>7, <1>8 DEF Counts

-----------------------------------------------------------------------------
\* RFUnInitializeReader()

\* The fields of an entry that is given back.
LEMMA FreeFields ==
  /\ ~FreeEntry.vHandle /\ FreeEntry \in ReaderRecords
BY FreeType DEF FreeEntry

\* Nobody else has to do with the entry of a reader that is given up.
LEMMA LastOfEntry ==
  ASSUME Inv, NEW t \in Threads, pc[t] \in {"close", "release"},
         NEW i, i = job[t].entry
  PROVE  /\ i \in Entries /\ Holders(i) = {} /\ evPc[i] = "none"
         /\ reader[i].reference = 0
         /\ pc[t] = "close" <=> reader[i].vHandle
         /\ \A u \in Threads \ {t} :
              /\ pc[u] \in {"found", "reread", "release", "stomp", "join", "close",
                            "load", "open"} => job[u].entry # i
              /\ Adding(u) => job[u].first # i
<1>0. WorkOK(t) /\ i \in Entries
  BY DEF Inv, WorkOK, Closing
<1>1. EntryOK(i) /\ \A u \in Threads : WorkOK(u)
  BY <1>0 DEF Inv
<1>2. CASE pc[t] = "release"
  <2>1. ~reader[i].vHandle /\ reader[i].reference = 0
    BY <1>0, <1>2 DEF WorkOK
  <2>2. Holders(i) = {} /\ evPc[i] = "none"
    BY <1>1, <2>1 DEF EntryOK
  <2>3. ASSUME NEW u \in Threads \ {t}
        PROVE  /\ pc[u] \in {"found", "reread", "release", "stomp", "join", "close",
                             "load", "open"} => job[u].entry # i
               /\ Adding(u) => job[u].first # i
    <3>1. WorkOK(u)
      BY <1>1
    <3>2. pc[u] # "release"
      BY <1>2 DEF Inv, Calm, OneReleases
    <3>3. pc[u] \in {"stomp", "join", "close"} => Closing(u)
      BY DEF Closing
    <3>4. pc[u] \in {"found", "reread", "stomp", "join", "close", "load", "open"} =>
            job[u].entry # i
      BY <2>1, <3>1, <3>3 DEF WorkOK
    <3>5. Adding(u) => job[u].first # i
      BY <2>1, <3>1, <3>4 DEF WorkOK
    <3> QED BY <3>2, <3>4, <3>5
  <2> QED BY <1>0, <1>2, <2>1, <2>2, <2>3
<1>3. CASE pc[t] = "close"
  <2>1. Closing(t)
    BY <1>3 DEF Closing
  <2>2. /\ reader[i].vHandle /\ reader[i].reference = 0 /\ Holders(i) = {}
        /\ Own(reader[i]) = 0
        /\ \A u \in Threads \ {t} : Closing(u) => job[u].entry # i
    BY <2>1, CloserEntry
  <2>3. evPc[i] = "none"
    BY <1>0, <1>1, <1>3, <2>1 DEF EntryOK, WorkOK
  <2>4. reader[i].removed
    BY <2>2 DEF Own
  <2>5. ASSUME NEW u \in Threads \ {t}
        PROVE  /\ pc[u] \in {"found", "reread", "release", "stomp", "join", "close",
                             "load", "open"} => job[u].entry # i
               /\ Adding(u) => job[u].first # i
    <3>1. WorkOK(u)
      BY <1>1
    <3>2. pc[u] \in {"stomp", "join", "close"} => Closing(u)
      BY DEF Closing
    <3>3. pc[u] = "reread" /\ job[u].entry = i => Closing(u)
      BY <2>2 DEF Closing
    <3>4. pc[u] = "found" => u \in Clients
      BY DEF Inv, LifecycleTypes, HotplugSteps, Threads
    <3>5. pc[u] = "found" => job[u].entry # i
      BY <2>2, <3>4 DEF Inv, Calm, FoundStays
    <3>6. pc[u] \in {"release", "load", "open"} => job[u].entry # i
      BY <2>2, <2>4, <3>1 DEF WorkOK
    <3>7. Adding(u) => job[u].first # i
      BY <2>4, <3>1 DEF WorkOK
    <3> QED BY <2>2, <3>2, <3>3, <3>5, <3>6, <3>7
  <2> QED BY <1>0, <1>3, <2>2, <2>3, <2>5
<1> QED BY <1>2, <1>3

\* What the two steps in which a reader is given up have in common.
DropStep(t, i, q, step, j) ==
  /\ pc[t] \in {"close", "release"} /\ i = job[t].entry
  /\ reader' = [reader EXCEPT ![i] = q] /\ ~q.vHandle
  /\ Goto(t, step) /\ SetJob(t, j)
  /\ \/ pc[t] = "close" /\ step = "release" /\ j = job[t] /\ q.reference = 0
     \/ pc[t] = "release" /\ t \in Clients /\ step = "idle" /\ j = NoJob
     \/ /\ pc[t] = "release" /\ t \in Hotplugs /\ step = "sweep"
        /\ j.rv = job[t].rv /\ j.library = job[t].library
        /\ j.port = job[t].port
  /\ UNCHANGED <<maxReaderContext, driver, evPc>> /\ UNCHANGED hotplugVars

\* The readers that are left.
LEMMA DropLive ==
  ASSUME Inv, Calm', NEW t \in Threads, NEW i, NEW q \in ReaderRecords,
         NEW step, NEW j \in JobRecords, DropStep(t, i, q, step, j)
  PROVE  /\ reader'[i] = q /\ \A k \in Entries : k # i => reader'[k] = reader[k]
         /\ i \in Counted /\ (pc[t] = "close" <=> i \in Live)
         /\ Live' = Live \ {i}
         /\ Counted' = IF step = "release" THEN Counted ELSE Counted \ {i}
         /\ \A k \in Counted : k # i => k \in Live
         /\ \A u \in Threads \ {t} : pc[u] \notin {"fill", "fillSlot", "release"}
<1>0. /\ LifecycleTypes /\ Threads = Clients \cup Hotplugs
      /\ Clients \cap Hotplugs = {} /\ pc[t] \in {"close", "release"}
      /\ i = job[t].entry
  BY LifecycleAssumption DEF Inv, Threads, DropStep
<1>1. /\ i \in Entries /\ (pc[t] = "close" <=> reader[i].vHandle)
      /\ \A u \in Threads \ {t} : pc[u] \in {"release", "load"} => job[u].entry # i
  BY <1>0, LastOfEntry
<1>2. /\ pc'[t] = step /\ job'[t] = j
      /\ \A u \in Threads : u # t => pc'[u] = pc[u] /\ job'[u] = job[u]
  BY <1>0, ThreadFrame DEF DropStep
<1>3. reader'[i] = q /\ \A k \in Entries : k # i => reader'[k] = reader[k]
  BY <1>0, <1>1 DEF LifecycleTypes, DropStep
<1>4. \A u \in Threads \ {t} : pc[u] \notin {"fill", "fillSlot", "release"}
  <2>1. CASE pc[t] = "release"
    BY <2>1 DEF Inv, Calm, OneReleases
  <2>2. CASE pc'[t] = "release"
    BY <1>2, <2>2 DEF Calm, OneReleases
  <2> QED BY <1>2, <2>1, <2>2 DEF DropStep
<1>5. \A k \in Entries : ~Loading(i) /\ (Loading(k)' <=> Loading(k))
  <2>1. pc[t] # "load" /\ step # "load"
    BY DEF DropStep
  <2> QED BY <1>0, <1>1, <1>2, <2>1 DEF Loading
<1>6. \A k \in Entries : /\ Leaving(k) <=> pc[t] = "release" /\ k = i
                         /\ Leaving(k)' <=> step = "release" /\ k = i
  <2>1. step = "release" => j.entry = i
    BY <1>0 DEF DropStep
  <2> QED BY <1>0, <1>2, <1>4, <2>1 DEF Leaving
<1>7. (pc[t] = "close" <=> i \in Live) /\ Live' = Live \ {i}
  BY <1>1, <1>3, <1>5 DEF Live, DropStep
<1>8. i \in Counted /\ \A k \in Counted : k # i => k \in Live
  BY <1>0, <1>1, <1>6, <1>7 DEF Counted
<1>9. Counted' = IF step = "release" THEN Counted ELSE Counted \ {i}
  <2>1. \A k \in Entries : k # i => (k \in Counted' <=> k \in Counted)
    BY <1>6, <1>7 DEF Counted
  <2>2. i \in Counted' <=> step = "release"
    BY <1>1, <1>6, <1>7 DEF Counted
  <2> QED BY <1>8, <2>1, <2>2 DEF Counted
<1> QED BY <1>3, <1>4, <1>7, <1>8, <1>9

\* Such a step keeps the invariant, provided that the counters are right.
LEMMA DropFrame ==
  ASSUME Inv, Calm', NEW t \in Threads, NEW i, NEW q \in ReaderRecords,
         NEW step, NEW j \in JobRecords, DropStep(t, i, q, step, j), Counts',
         pFeeds' \in [Objects -> Nat], pMutex' \in [Objects -> Nat],
         loaded' \in [Libraries -> Nat]
  PROVE  Inv'
<1>0. /\ LifecycleTypes /\ HotplugTypes /\ WorkOK(t)
      /\ Threads = Clients \cup Hotplugs /\ Clients \cap Hotplugs = {}
      /\ job[t] \in JobRecords /\ i = job[t].entry
      /\ pc[t] \in {"close", "release"}
  BY LifecycleAssumption DEF Inv, LifecycleTypes, Threads, DropStep
<1>1. /\ reader'[i] = q /\ \A k \in Entries : k # i => reader'[k] = reader[k]
      /\ Live' = Live \ {i}
      /\ \A u \in Threads \ {t} : pc[u] \notin {"fill", "fillSlot", "release"}
  BY DropLive
<1>2. /\ i \in Entries /\ Holders(i) = {} /\ evPc[i] = "none"
      /\ \A u \in Threads \ {t} :
              /\ pc[u] \in {"found", "reread", "release", "stomp", "join", "close",
                            "load", "open"} => job[u].entry # i
              /\ Adding(u) => job[u].first # i
  BY <1>0, LastOfEntry
<1>3. /\ pc'[t] = step /\ job'[t] = j
      /\ \A u \in Threads : u # t => pc'[u] = pc[u] /\ job'[u] = job[u]
  BY <1>0, ThreadFrame DEF DropStep
<1>4. NoJob.rv = "SUCCESS" /\ NoJob.library = "none"
  BY DEF NoJob
<1>5. /\ step \in {"release", "idle", "sweep"}
      /\ step = "release" => j = job[t] /\ q.reference = 0
      /\ step = "idle" => t \in Clients /\ j = NoJob
      /\ t \in Clients => step # "sweep"
      /\ t \in Hotplugs => j.library = job[t].library /\ j.port = job[t].port
      /\ j = NoJob \/ (j.rv = job[t].rv /\ j.library = job[t].library)
  BY <1>0 DEF DropStep
<1>6. ~Closing(t)' /\ ~Adding(t)' /\ ~Adding(t)
      /\ pc'[t] \notin {"found", "holding", "reread", "fill", "load", "open",
                        "nextSlot", "fillSlot", "add", "added"}
  BY <1>0, <1>3, <1>5 DEF Closing, Adding
<1>7. \A u \in Threads : u # t => /\ Closing(u)' <=> Closing(u)
                                  /\ Adding(u)' <=> Adding(u)
  <2>1. \A u \in Threads : u # t /\ pc[u] = "reread" =>
          reader'[job[u].entry] = reader[job[u].entry]
    BY <1>1, <1>2 DEF Inv, WorkOK
  <2> QED BY <1>3, <2>1 DEF Closing, Adding
<1>13. LifecycleTypes'
  <2>1. step \in HotplugSteps \cup ClientSteps
        /\ (t \in Clients => step \in ClientSteps)
        /\ (t \in Hotplugs => step \in HotplugSteps)
    BY <1>0, <1>5 DEF HotplugSteps, ClientSteps
  <2>2. pc' \in [Threads -> HotplugSteps \cup ClientSteps]
    BY <1>0, <2>1 DEF LifecycleTypes, Goto, DropStep
  <2>3. job' \in [Threads -> JobRecords]
    BY <1>0 DEF LifecycleTypes, SetJob, DropStep
  <2>4. (\A c \in Clients : pc'[c] \in ClientSteps)
        /\ (\A u \in Hotplugs : pc'[u] \in HotplugSteps)
    BY <1>0, <1>3, <2>1 DEF LifecycleTypes
  <2>5. reader' \in [Entries -> ReaderRecords]
    BY <1>0 DEF LifecycleTypes, DropStep
  <2> QED BY <1>0, <2>2, <2>3, <2>4, <2>5 DEF LifecycleTypes, DropStep
<1>14. HotplugTypes' /\ UNCHANGED <<readerTracker, scan, maxReaderContext, evPc>>
  BY <1>0 DEF HotplugTypes, DropStep
<1>16. ASSUME NEW k \in Entries PROVE EntryOK(k)'
  <2>1. Holders(k)' = Holders(k)
    BY <1>0, <1>3, <1>6 DEF Holders
  <2>2. CASE k = i
    <3>1. ~reader'[i].vHandle
      BY <1>1 DEF DropStep
    <3> QED BY <1>2, <1>14, <2>1, <2>2, <3>1, FS_EmptySet DEF EntryOK
  <2>3. CASE k # i
    BY <1>1, <1>14, <2>1, <2>3 DEF Inv, EntryOK
  <2> QED BY <2>2, <2>3
<1>17. ASSUME NEW u \in Threads PROVE WorkOK(u)'
  <2>1. CASE u = t
    <3>1. j.rv # "SUCCESS" => j.library \in Libraries
      BY <1>0, <1>4, <1>5 DEF WorkOK
    <3>2. step = "idle" => j.library = "none"
      BY <1>4, <1>5
    <3>3. step = "release" => /\ j.entry = i /\ ~reader'[i].vHandle
                              /\ reader'[i].reference = 0
      BY <1>0, <1>1, <1>5 DEF DropStep
    <3> QED BY <1>2, <1>3, <1>6, <2>1, <3>1, <3>2, <3>3 DEF WorkOK
  <2>2. CASE u # t
    <3>1. /\ WorkOK(u) /\ pc'[u] = pc[u] /\ job'[u] = job[u]
          /\ (Adding(u)' <=> Adding(u)) /\ (Closing(u)' <=> Closing(u))
      BY <1>3, <1>7, <2>2 DEF Inv
    <3>2. pc[u] \in {"found", "reread", "stomp", "join", "close",
                     "load", "open"} => reader'[job[u].entry] = reader[job[u].entry]
      <4>1. pc[u] \in {"stomp", "join", "close"} => Closing(u)
        BY DEF Closing
      <4> QED BY <1>1, <1>2, <2>2, <3>1, <4>1 DEF WorkOK
    <3>3. Closing(u) => pc[u] \in {"reread", "stomp", "join", "close"}
      BY DEF Closing
    <3>4. Adding(u) => reader'[job[u].first] = reader[job[u].first]
      BY <1>1, <1>2, <2>2, <3>1 DEF WorkOK
    <3>5. pc[u] \notin {"fill", "fillSlot", "release"}
      BY <1>1, <2>2
    <3> QED BY <1>14, <3>1, <3>2, <3>3, <3>4, <3>5 DEF WorkOK
  <2> QED BY <2>1, <2>2
<1>18. ClosersApart'
  BY <1>3, <1>6, <1>7 DEF Inv, ClosersApart
<1>19. Numbers'
  <2>1. \A k \in Live' : k \in Live /\ reader'[k] = reader[k]
    BY <1>1 DEF Live
  <2>2. Numbers
    BY DEF Inv
  <2> QED BY <2>1, <2>2 DEF Numbers
<1>20. \A u \in Hotplugs : job'[u].library = job[u].library /\ job'[u].port = job[u].port
  BY <1>0, <1>3, <1>5
<1>21. Ports'
  <2>1. \A k \in Live' : k \in Live /\ reader'[k] = reader[k]
    BY <1>1 DEF Live
  <2> QED BY <1>14, <1>20, <2>1 DEF Inv, Ports, Port
<1>22. ASSUME NEW u \in Hotplugs PROVE AddsPort(u)'
  <2>1. AddsPort(u) /\ \A k \in Live' : k \in Live /\ reader'[k] = reader[k]
    BY <1>1 DEF Inv, Live
  <2>2. /\ pc'[u] \in {"add", "fill"} <=> pc[u] \in {"add", "fill"}
        /\ Adding(u) => pc'[u] = pc[u]
    BY <1>0, <1>3, <1>6
  <2>3. (Adding(u)' <=> Adding(u)) /\ (Adding(u) => job'[u] = job[u])
    BY <1>0, <1>3, <1>6, <1>7
  <2>4. Adding(u) => reader'[job[u].first] = reader[job[u].first]
    <3>1. Adding(u) => job[u].first \in Entries
      BY <1>0 DEF Inv, WorkOK
    <3> QED BY <1>0, <1>1, <1>2, <1>6, <3>1
  <2> QED BY <1>20, <2>1, <2>2, <2>3, <2>4 DEF AddsPort
<1>23. ASSUME NEW u \in Hotplugs PROVE SearchOK(u)'
  <2>1. pc'[u] # "fill"
    BY <1>0, <1>1, <1>3, <1>6
  <2> QED BY <2>1 DEF SearchOK
<1> QED BY <1>13, <1>14, <1>16, <1>17, <1>18, <1>19, <1>21, <1>22, <1>23 DEF Inv

\* A thread gives up the driver of the reader it closes.
LEMMA RFUnInitializeReaderStep ==
  ASSUME Inv, Calm', NEW t \in Threads, RFUnInitializeReader(t),
         UNCHANGED hotplugVars
  PROVE  Inv'
<1>0. /\ LifecycleTypes /\ Counts /\ job[t] \in JobRecords /\ pc[t] = "close"
  BY DEF Inv, LifecycleTypes, RFUnInitializeReader
<1>1. PICK i : i = job[t].entry
  OBVIOUS
<1>2. i \in Entries /\ reader[i].vHandle /\ reader[i].reference = 0
      /\ reader[i] \in ReaderRecords
  BY <1>0, <1>1, LastOfEntry DEF LifecycleTypes
<1>3. i \in Live /\ i \in Counted
  BY <1>2 DEF Live, Counted
<1>4. /\ reader[i].feeds \in Objects /\ reader[i].mutex \in Objects
      /\ reader[i].library \in Libraries
  BY <1>0, <1>3 DEF Counts
<1>5. reader[i].feeds # NULL /\ reader[i].mutex # NULL
  BY <1>4, LifecycleAssumption DEF Objects, NULL
<1>6. PICK q : q = [reader[i] EXCEPT !.vHandle = FALSE]
  OBVIOUS
<1>7. /\ loaded' = IF pFeeds[reader[i].feeds] = 1
                   THEN [loaded EXCEPT ![reader[i].library] = @ - 1] ELSE loaded
      /\ reader' = [reader EXCEPT ![i] = q]
      /\ Goto(t, "release") /\ UNCHANGED job
      /\ UNCHANGED <<maxReaderContext, pFeeds, pMutex, driver, evPc>>
  BY <1>1, <1>2, <1>5, <1>6 DEF RFUnInitializeReader, LastFeed
<1>8. /\ q \in ReaderRecords /\ ~q.vHandle /\ q.reference = 0
      /\ q.feeds = reader[i].feeds /\ q.mutex = reader[i].mutex
      /\ q.library = reader[i].library
  <2>1. q \in ReaderRecords
    BY <1>2, <1>6, ReaderType
  <2> QED BY <1>2, <1>6, <2>1 DEF ReaderRecords
<1>9. DropStep(t, i, q, "release", job[t])
  BY <1>0, <1>1, <1>7, <1>8 DEF DropStep, SetJob, LifecycleTypes
<1>10. /\ reader'[i] = q /\ \A k \in Entries : k # i => reader'[k] = reader[k]
       /\ Live' = Live \ {i} /\ Counted' = Counted
       /\ \A k \in Counted : k # i => k \in Live
  BY <1>0, <1>8, <1>9, DropLive
<1>11. /\ pFeeds \in [Objects -> Nat] /\ pMutex \in [Objects -> Nat]
       /\ loaded \in [Libraries -> Nat]
  BY <1>0 DEF LifecycleTypes
<1>12. Counts'
  BY <1>0, <1>2, <1>3, <1>7, <1>8, <1>10, <1>11, CountsClose
<1>13. loaded' \in [Libraries -> Nat]
  <2>1. loaded[reader[i].library] = Cardinality(LoadedFor(reader[i].library))
    BY <1>0, <1>4 DEF Counts
  <2>2. reader[i].feeds \in LoadedFor(reader[i].library)
    BY <1>2, <1>4 DEF LoadedFor
  <2>3. loaded[reader[i].library] # 0
    BY <2>1, <2>2, LiveFinite, FS_EmptySet
  <2>4. loaded[reader[i].library] - 1 \in Nat
    BY <1>4, <1>11, <2>3
  <2> QED BY <1>7, <1>11, <2>4
<1> QED BY <1>0, <1>7, <1>8, <1>9, <1>11, <1>12, <1>13, DropFrame

\* A thread gives back the counters and the entry.
LEMMA ReleaseReaderStep ==
  ASSUME Inv, Calm', NEW t \in Threads, ReleaseReader(t), UNCHANGED hotplugVars
  PROVE  Inv'
<1>0. /\ LifecycleTypes /\ Counts /\ job[t] \in JobRecords /\ pc[t] = "release"
      /\ Threads = Clients \cup Hotplugs /\ Clients \cap Hotplugs = {}
  BY LifecycleAssumption DEF Inv, LifecycleTypes, ReleaseReader, Threads
<1>1. PICK i : i = job[t].entry
  OBVIOUS
<1>2. i \in Entries /\ ~reader[i].vHandle /\ reader[i].reference = 0
      /\ reader[i] \in ReaderRecords /\ i \in Nat
  <2>1. i \in Entries /\ ~reader[i].vHandle /\ reader[i].reference = 0
    BY <1>0, <1>1, LastOfEntry
  <2> QED BY <1>0, <2>1, LifecycleAssumption DEF LifecycleTypes, Entries
<1>3. i \in Counted
  BY <1>0, <1>1, <1>2 DEF Counted, Leaving
<1>4. /\ reader[i].feeds \in Objects /\ reader[i].mutex \in Objects
      /\ reader[i].library \in Libraries
  BY <1>0, <1>3 DEF Counts
<1>5. PICK q : q = [FreeEntry EXCEPT !.reference = reader[i].reference,
                                     !.feeds = Left(pFeeds', reader[i].feeds),
                                     !.mutex = Left(pMutex', reader[i].mutex)]
  OBVIOUS
<1>6. /\ pMutex' = [pMutex EXCEPT ![reader[i].mutex] = @ - 1]
      /\ pFeeds' = [pFeeds EXCEPT ![reader[i].feeds] = @ - 1]
      /\ reader' = [reader EXCEPT ![i] = q]
      /\ AfterUnref(t, i)
      /\ UNCHANGED <<maxReaderContext, loaded, driver, evPc>>
  BY <1>1, <1>5 DEF ReleaseReader, ReleaseMutex
<1>7. q \in ReaderRecords /\ ~q.vHandle
  <2>1. /\ Left(pFeeds', reader[i].feeds) \in Objects \cup {NULL}
        /\ Left(pMutex', reader[i].mutex) \in Objects \cup {NULL}
    BY <1>4 DEF Left
  <2> QED BY <1>2, <1>5, <2>1, FreeFields DEF ReaderRecords
<1>8. PICK step, j : /\ Goto(t, step) /\ SetJob(t, j) /\ j \in JobRecords
                     /\ \/ t \in Clients /\ step = "idle" /\ j = NoJob
                        \/ /\ t \in Hotplugs /\ step = "sweep"
                           /\ j.rv = job[t].rv /\ j.library = job[t].library
                           /\ j.port = job[t].port
  <2>1. CASE t \in Clients
    BY <1>6, <2>1, FreeType DEF AfterUnref
  <2>2. CASE t \notin Clients
    <3>1. PICK j : j = [job[t] EXCEPT !.entry = i + 1]
      OBVIOUS
    <3>2. j \in JobRecords
      <4>1. i + 1 \in Nat
        BY <1>2
      <4> QED BY <1>0, <3>1, <4>1, JobType
    <3>3. j.rv = job[t].rv /\ j.library = job[t].library /\ j.port = job[t].port
      BY <1>0, <3>1 DEF JobRecords
    <3>4. Goto(t, "sweep") /\ SetJob(t, j)
      BY <1>6, <2>2, <3>1 DEF AfterUnref
    <3> QED BY <1>0, <2>2, <3>2, <3>3, <3>4
  <2> QED BY <2>1, <2>2
<1>9. DropStep(t, i, q, step, j)
  BY <1>0, <1>1, <1>6, <1>7, <1>8 DEF DropStep
<1>10. /\ reader'[i] = q /\ \A k \in Entries : k # i => reader'[k] = reader[k]
       /\ i \notin Live /\ Live' = Live \ {i} /\ Counted' = Counted \ {i}
  BY <1>0, <1>7, <1>8, <1>9, DropLive
<1>11. /\ pFeeds \in [Objects -> Nat] /\ pMutex \in [Objects -> Nat]
       /\ loaded \in [Libraries -> Nat]
  BY <1>0 DEF LifecycleTypes
<1>12. Counts'
  <2>1. Live' = Live
    BY <1>10
  <2> QED BY <1>0, <1>2, <1>3, <1>6, <1>7, <1>10, <1>11, <2>1, CountsRelease
<1>13. pFeeds' \in [Objects -> Nat] /\ pMutex' \in [Objects -> Nat]
  <2>1. /\ i \in Feeding(reader[i].feeds) /\ i \in Sharing(reader[i].mutex)
        /\ Exact(pFeeds[reader[i].feeds], Feeding(reader[i].feeds))
        /\ Exact(pMutex[reader[i].mutex], Sharing(reader[i].mutex))
    BY <1>0, <1>3, <1>4 DEF Feeding, Sharing, Counts
  <2>2. /\ pFeeds[reader[i].feeds] = Cardinality(Feeding(reader[i].feeds))
        /\ pMutex[reader[i].mutex] = Cardinality(Sharing(reader[i].mutex))
    BY <1>4, <1>11, <2>1, LiveFinite, CountIsExact
  <2>3. pFeeds[reader[i].feeds] # 0 /\ pMutex[reader[i].mutex] # 0
    BY <2>1, <2>2, LiveFinite, FS_EmptySet
  <2>4. pFeeds[reader[i].feeds] - 1 \in Nat /\ pMutex[reader[i].mutex] - 1 \in Nat
    BY <1>4, <1>11, <2>3
  <2> QED BY <1>6, <1>11, <2>4
<1> QED BY <1>6, <1>7, <1>8, <1>9, <1>11, <1>12, <1>13, DropFrame

-----------------------------------------------------------------------------
\* RFAddReader()

\* Nobody closes the reader of entry i.
NotClosed(i) ==
  \A u \in Threads : Closing(u) \/ pc[u] = "release" => job[u].entry # i

\* A hotplug thread that adds a reader changes entry i, which nobody closes;
\* what it says of the entry, of itself and of what is shared is left to show.
AddStep(t, i, r, step, j) ==
  /\ reader' = [reader EXCEPT ![i] = r]
  /\ maxReaderContext' \in Nat /\ maxReaderContext <= maxReaderContext'
  /\ UNCHANGED driver /\ UNCHANGED hotplugVars
  /\ evPc' \in [Entries -> {"none", "running", "cancelled"}]
  /\ \A k \in Entries \ {i} : evPc'[k] = evPc[k]
  /\ Goto(t, step) /\ SetJob(t, j)
  /\ pc[t] \in {"add", "fill", "load", "open", "nextSlot", "fillSlot"}
  /\ step \in {"fill", "load", "open", "nextSlot", "fillSlot", "sweep", "added"}
  /\ j.port = job[t].port /\ j.library = job[t].library
  /\ \/ r = reader[i]
     \/ /\ NotClosed(i)
        /\ reader[i].vHandle => r.vHandle /\ r.reference = reader[i].reference

\* The part of the invariant that is about the counters and the numbers.
SharedTypes ==
  /\ pFeeds \in [Objects -> Nat]
  /\ pMutex \in [Objects -> Nat]
  /\ loaded \in [Libraries -> Nat]

\* Such a step keeps the invariant.
LEMMA AddFrame ==
  ASSUME Inv, Calm', NEW t \in Hotplugs, NEW i \in Entries, NEW r \in ReaderRecords,
         NEW step, NEW j \in JobRecords, AddStep(t, i, r, step, j),
         EntryOK(i)', WorkOK(t)', AddsPort(t)', SearchOK(t)',
         SharedTypes', Counts', Numbers',
         \A k \in Live' : k # i => k \in Live,
         i \in Live' => \/ r.port = job[t].port
                        \/ \E k \in Live : r.port = reader[k].port
  PROVE  Inv'
<1>0. /\ LifecycleTypes /\ HotplugTypes
      /\ \A k \in Entries : k # i => reader'[k] = reader[k]
      /\ reader'[i] = r /\ t \in Threads /\ t \notin Clients
      /\ Threads = Clients \cup Hotplugs /\ Clients \cap Hotplugs = {}
  BY LifecycleAssumption DEF Inv, AddStep, LifecycleTypes, Threads
<1>1. /\ pc'[t] = step /\ job'[t] = j
      /\ \A u \in Threads : u # t => pc'[u] = pc[u] /\ job'[u] = job[u]
  BY <1>0, ThreadFrame DEF AddStep
<1>2. LifecycleTypes'
  <2>1. step \in HotplugSteps
    BY DEF AddStep, HotplugSteps
  <2>2. pc' \in [Threads -> HotplugSteps \cup ClientSteps]
    BY <1>0, <2>1 DEF AddStep, LifecycleTypes, Goto
  <2>3. job' \in [Threads -> JobRecords]
    BY <1>0 DEF AddStep, LifecycleTypes, SetJob
  <2>4. (\A c \in Clients : pc'[c] \in ClientSteps)
        /\ (\A u \in Hotplugs : pc'[u] \in HotplugSteps)
    BY <1>0, <1>1, <2>1 DEF LifecycleTypes
  <2>5. reader' \in [Entries -> ReaderRecords]
    BY <1>0 DEF AddStep, LifecycleTypes
  <2>6. /\ pFeeds' \in [Objects -> Nat] /\ pMutex' \in [Objects -> Nat]
        /\ loaded' \in [Libraries -> Nat]
    BY DEF SharedTypes
  <2>7. driver' \in Drivers /\ maxReaderContext' \in Nat
        /\ evPc' \in [Entries -> {"none", "running", "cancelled"}]
    BY <1>0 DEF LifecycleTypes, AddStep
  <2> QED BY <2>2, <2>3, <2>4, <2>5, <2>6, <2>7 DEF LifecycleTypes
<1>3. HotplugTypes' /\ UNCHANGED <<readerTracker, scan>>
  BY <1>0 DEF AddStep, HotplugTypes
<1>4. \A u \in Hotplugs : u # t => pc[u] = "idle"
  <2>1. Busy(t)
    BY DEF AddStep, Busy
  <2> QED BY <2>1, BusyAlone
<1>5. ASSUME NEW k \in Entries PROVE EntryOK(k)'
  <2>1. CASE k # i
    <3>1. evPc'[k] = evPc[k] /\ maxReaderContext <= maxReaderContext'
          /\ maxReaderContext \in Nat /\ maxReaderContext' \in Nat /\ k \in Nat
      BY <1>0, <2>1, LifecycleAssumption DEF AddStep, LifecycleTypes, Entries
    <3>2. Holders(k)' = Holders(k)
      BY <1>0, <1>1 DEF Holders
    <3>3. k < maxReaderContext => k < maxReaderContext'
      BY <3>1
    <3> QED BY <1>0, <2>1, <3>1, <3>2, <3>3 DEF Inv, EntryOK
  <2> QED BY <2>1
<1>6. ASSUME NEW u \in Threads, u # t
      PROVE  (Closing(u)' <=> Closing(u)) /\ WorkOK(u)'
  <2>1. WorkOK(u) /\ pc'[u] = pc[u] /\ job'[u] = job[u]
    BY <1>1, <1>6 DEF Inv
  <2>2. pc[u] \in ClientSteps \/ pc[u] = "idle"
    BY <1>0, <1>4, <1>6 DEF LifecycleTypes
  <2>3. /\ ~Adding(u)' /\ ~Adding(u)
        /\ pc[u] \notin {"fill", "load", "open", "fillSlot", "add", "added"}
    BY <2>1, <2>2 DEF ClientSteps, Adding
  <2>4. ASSUME Closing(u) \/ pc[u] = "release"
        PROVE  reader'[job[u].entry] = reader[job[u].entry]
    BY <1>0, <2>1, <2>4 DEF AddStep, WorkOK, NotClosed
  <2>5. ASSUME pc[u] \in {"found", "reread"}
        PROVE  /\ reader'[job[u].entry].vHandle
               /\ reader'[job[u].entry].reference = reader[job[u].entry].reference
    <3>1. job[u].entry \in Entries /\ reader[job[u].entry].vHandle
      BY <2>1, <2>5 DEF WorkOK
    <3> QED BY <1>0, <3>1 DEF AddStep
  <2>6. Closing(u)' <=> Closing(u)
    BY <2>1, <2>5 DEF Closing
  <2> QED BY <2>1, <2>3, <2>4, <2>5, <2>6 DEF WorkOK
<1>7. ClosersApart'
  <2>1. \A u \in Threads : u # t => (Closing(u)' <=> Closing(u))
    BY <1>6
  <2>2. ~Closing(t)'
    BY <1>1 DEF Closing, AddStep
  <2> QED BY <1>1, <2>1, <2>2 DEF Inv, ClosersApart
<1>8. \A u \in Hotplugs : u # t => job'[u].library = "none"
  BY <1>0, <1>1, <1>4 DEF Inv, WorkOK
<1>9. job[t].library \in Libraries /\ "none" \notin Libraries
  <2>1. pc[t] \in {"add", "fill"} \/ Adding(t)
    BY DEF AddStep, Adding
  <2> QED BY <1>0, <2>1, HotplugAssumption DEF Inv, WorkOK
<1>10. Ports'
  <2>1. job[t].port <= Port(Len(readerTracker))
    BY <1>9 DEF Inv, Ports
  <2>2. \A k \in Live : reader[k].port <= Port(Len(readerTracker))
    BY DEF Inv, Ports
  <2>3. \A k \in Live' : reader'[k].port <= Port(Len(readerTracker))
    <3> SUFFICES ASSUME NEW k \in Live'
                 PROVE  reader'[k].port <= Port(Len(readerTracker))
      OBVIOUS
    <3>1. k \in Entries
      BY DEF Live
    <3> QED BY <1>0, <2>1, <2>2, <3>1
  <2>4. \A u \in Hotplugs : job'[u].library # "none" =>
          job'[u].port <= Port(Len(readerTracker))
    BY <1>1, <1>8, <2>1 DEF AddStep
  <2> QED BY <1>3, <2>3, <2>4 DEF Ports, Port
<1>11. ASSUME NEW u \in Hotplugs PROVE AddsPort(u)' /\ SearchOK(u)'
  <2>1. CASE u # t
    <3>1. ~Adding(u)' /\ pc'[u] = "idle"
      BY <1>0, <1>1, <1>4, <2>1 DEF Adding
    <3> QED BY <1>8, <2>1, <3>1 DEF AddsPort, SearchOK
  <2> QED BY <2>1
<1>12. \A u \in Threads : WorkOK(u)'
  BY <1>6
<1> QED BY <1>2, <1>3, <1>5, <1>7, <1>10, <1>11, <1>12 DEF Inv

\* While a thread adds a reader no other loads a driver.
LEMMA LoadsAlone ==
  ASSUME Inv, NEW t \in Hotplugs, pc[t] # "idle", NEW step, NEW j,
         Goto(t, step), SetJob(t, j)
  PROVE  /\ \A k : Loading(k) <=> pc[t] = "load" /\ job[t].entry = k
         /\ \A k : Loading(k)' <=> step = "load" /\ j.entry = k
         /\ pc[t] # "release" /\ step # "release" =>
              \A k : Leaving(k)' <=> Leaving(k)
         /\ pc'[t] = step /\ job'[t] = j
         /\ \A c \in Clients : pc'[c] = pc[c] /\ job'[c] = job[c]
<1>1. t \in Threads /\ Hotplugs \subseteq Threads /\ LifecycleTypes
      /\ t \notin Clients /\ Clients \subseteq Threads
  BY LifecycleAssumption DEF Threads, Inv
<1>2. /\ pc'[t] = step /\ job'[t] = j
      /\ \A u \in Threads : u # t => pc'[u] = pc[u] /\ job'[u] = job[u]
  BY <1>1, ThreadFrame
<1>3. \A u \in Hotplugs : u # t => pc[u] = "idle"
  BY DEF Inv, Calm, Apart, Busy
<1>4. pc[t] # "release" /\ step # "release" => \A k : Leaving(k)' <=> Leaving(k)
  BY <1>1, <1>2 DEF Leaving
<1> QED BY <1>1, <1>2, <1>3, <1>4 DEF Loading

\* The entry a thread works on while it adds a reader.
LEMMA AddedEntry ==
  ASSUME Inv, NEW t \in Hotplugs, pc[t] \in {"load", "open"}
  PROVE  LET i == job[t].entry
         IN /\ i \in Entries /\ reader[i] \in ReaderRecords /\ EntryOK(i)
            /\ i < maxReaderContext /\ ~reader[i].removed
            /\ i \in Live
            /\ NotClosed(i)
<1> DEFINE i == job[t].entry
<1>1. /\ i \in Entries /\ i < maxReaderContext /\ ~reader[i].removed
      /\ pc[t] = "open" => reader[i].vHandle
      /\ ~reader[i].vHandle => reader[i].reference = 1
  BY DEF Inv, WorkOK, Threads
<1>2. i \in Live
  BY <1>1 DEF Live, Loading
<1> HIDE DEF i
<1>3. reader[i] \in ReaderRecords /\ EntryOK(i)
  BY <1>1 DEF Inv, LifecycleTypes
<1>4. reader[i].vHandle => reader[i].reference # 0
  <2>1. Cardinality(Holders(i)) \in Nat
    BY <1>3, FS_CardinalityType DEF EntryOK
  <2> QED BY <1>1, <1>3, <2>1 DEF EntryOK, Own
<1>5. NotClosed(i)
  BY <1>1, <1>4 DEF Inv, WorkOK, NotClosed
<1> QED BY <1>1, <1>2, <1>3, <1>5 DEF i

\* A reader that could not be started is removed.
LEMMA GiveUpJob ==
  ASSUME Inv, NEW t \in Hotplugs, pc[t] \in {"load", "open"},
         NEW rv \in ReturnValues, rv # "SUCCESS", GiveUp(t, rv)
  PROVE  \E j \in JobRecords :
           /\ Goto(t, "sweep") /\ SetJob(t, j) /\ j.rv = rv
           /\ j.port = job[t].port /\ j.library = job[t].library
           /\ j.library \in Libraries
<1> DEFINE j == [job[t] EXCEPT !.rv = rv, !.entry = 0]
<1>1. job[t] \in JobRecords /\ job[t].library \in Libraries
  BY DEF Inv, LifecycleTypes, Threads, WorkOK, Adding
<1>2. j \in JobRecords
  BY <1>1, JobType
<1>3. j.rv = rv /\ j.port = job[t].port /\ j.library = job[t].library
  BY <1>1 DEF JobRecords
<1>4. Goto(t, "sweep") /\ SetJob(t, j)
  BY DEF GiveUp
<1> HIDE DEF j
<1> QED BY <1>1, <1>2, <1>3, <1>4

\* What holds of a thread that gives up.
LEMMA GivenUp ==
  ASSUME Inv, NEW t \in Hotplugs, pc[t] \in {"load", "open"}, NEW j \in JobRecords,
         Goto(t, "sweep"), SetJob(t, j),
         j.port = job[t].port, j.library = job[t].library, j.library \in Libraries,
         \A k \in Live' : /\ k \in Live /\ reader'[k].port = reader[k].port
                          /\ reader'[k].library = reader[k].library
  PROVE  WorkOK(t)' /\ AddsPort(t)' /\ SearchOK(t)'
<1>1. pc'[t] = "sweep" /\ job'[t] = j
  BY LoadsAlone
<1>2. ~Closing(t)' /\ ~Adding(t)'
  BY <1>1 DEF Closing, Adding
<1>3. WorkOK(t)'
  BY <1>1, <1>2 DEF WorkOK
<1>4. AddsPort(t)
  BY DEF Inv
<1>5. AddsPort(t)'
  BY <1>1, <1>2, <1>4 DEF AddsPort
<1>6. SearchOK(t)'
  BY <1>1 DEF SearchOK
<1> QED BY <1>3, <1>5, <1>6

\* RFInitializeReader() and EHSpawnEventHandler()
LEMMA StartReaderStep ==
  ASSUME Inv, Calm', NEW t \in Hotplugs, NEW there, StartReader(t, there),
         UNCHANGED hotplugVars
  PROVE  Inv'
<1>0. /\ LifecycleTypes /\ HotplugTypes /\ WorkOK(t) /\ AddsPort(t) /\ Counts
      /\ Numbers /\ SharedTypes /\ t \in Threads /\ job[t] \in JobRecords
      /\ pc[t] = "open" /\ UNCHANGED <<maxReaderContext, sharedVars>>
  BY DEF Inv, Threads, LifecycleTypes, SharedTypes, StartReader
<1>1. PICK i \in Entries : i = job[t].entry
  BY <1>0, AddedEntry
<1>2. /\ reader[i] \in ReaderRecords /\ EntryOK(i)
      /\ i < maxReaderContext /\ ~reader[i].removed /\ i \in Live
      /\ NotClosed(i)
      /\ reader[i].vHandle
  BY <1>0, <1>1, AddedEntry DEF WorkOK
<1>3. \/ /\ reader' = [reader EXCEPT ![i].thread = TRUE]
         /\ evPc' = [evPc EXCEPT ![i] = "running"]
         /\ Goto(t, "nextSlot")
         /\ UNCHANGED job
      \/ /\ reader' = [reader EXCEPT ![i].slot = -1] \/ UNCHANGED reader
         /\ \E rv \in ReturnValues : rv # "SUCCESS" /\ GiveUp(t, rv)
         /\ UNCHANGED evPc
  BY <1>1 DEF StartReader, ReturnValues
<1>4. SharedTypes' /\ maxReaderContext' \in Nat /\ maxReaderContext <= maxReaderContext'
  BY <1>0 DEF SharedTypes, LifecycleTypes
<1>5. ASSUME NEW r \in ReaderRecords, reader' = [reader EXCEPT ![i] = r],
             r.vHandle = reader[i].vHandle, r.reference = reader[i].reference,
             r.removed = reader[i].removed, r.library = reader[i].library,
             r.feeds = reader[i].feeds, r.mutex = reader[i].mutex,
             r.port = reader[i].port,
             evPc'[i] # "none" => r.thread,
             NEW step, step \notin {"load", "release"}, NEW j, Goto(t, step), SetJob(t, j)
      PROVE  /\ reader'[i] = r /\ \A k \in Entries : k # i => reader'[k] = reader[k]
             /\ EntryOK(i)' /\ Live' = Live /\ Counts'
             /\ \A k \in Live' : /\ k \in Live /\ reader'[k].port = reader[k].port
                                 /\ reader'[k].library = reader[k].library
  <2>1. reader'[i] = r /\ \A k \in Entries : k # i => reader'[k] = reader[k]
    BY <1>0, <1>5 DEF LifecycleTypes
  <2>2. \A k \in Entries : ~Loading(k) /\ ~Loading(k)'
    BY <1>0, <1>5, LoadsAlone
  <2>3. \A k \in Entries : SameShare(k) /\ reader'[k].port = reader[k].port
    BY <1>5, <2>1 DEF SameShare
  <2>4. Live' = Live
    BY <2>2, <2>3 DEF Live, SameShare
  <2>5. Counts'
    <3>1. \A k \in Entries : Leaving(k)' <=> Leaving(k)
      BY <1>0, <1>5, LoadsAlone
    <3>2. Counted' = Counted
      BY <2>4, <3>1 DEF Counted
    <3> QED BY <1>0, <2>3, <2>4, <3>2, SharedSame
  <2>6. Holders(i)' = Holders(i)
    <3>1. \A c \in Clients : pc'[c] = pc[c] /\ job'[c] = job[c]
      BY <1>0, <1>5, LoadsAlone
    <3> QED BY <3>1 DEF Holders
  <2>7. EntryOK(i)'
    <3>1. Own(r) = Own(reader[i])
      BY <1>5 DEF Own
    <3>2. r.vHandle
      BY <1>2, <1>5
    <3>3. r.reference = Own(r) + Cardinality(Holders(i)')
      BY <1>2, <1>5, <2>6, <3>1 DEF EntryOK
    <3>4. IsFiniteSet(Holders(i)')
      BY <1>2, <2>6 DEF EntryOK
    <3> QED BY <1>0, <1>2, <1>5, <2>1, <3>2, <3>3, <3>4 DEF EntryOK
  <2>8. \A k \in Live' : /\ k \in Live /\ reader'[k].port = reader[k].port
                         /\ reader'[k].library = reader[k].library
    BY <2>3, <2>4 DEF SameShare, Live
  <2> QED BY <2>1, <2>4, <2>5, <2>7, <2>8
<1>6. CASE /\ reader' = [reader EXCEPT ![i].thread = TRUE]
           /\ evPc' = [evPc EXCEPT ![i] = "running"]
           /\ Goto(t, "nextSlot")
           /\ UNCHANGED job
  <2> DEFINE r == [reader[i] EXCEPT !.thread = TRUE]
  <2>1. reader' = [reader EXCEPT ![i] = r] /\ Goto(t, "nextSlot") /\ SetJob(t, job[t])
    BY <1>0, <1>6 DEF SetJob, LifecycleTypes
  <2>2. r \in ReaderRecords
    BY <1>2, ReaderType
  <2>3. /\ r.vHandle = reader[i].vHandle /\ r.reference = reader[i].reference
        /\ r.removed = reader[i].removed /\ r.library = reader[i].library
        /\ r.feeds = reader[i].feeds /\ r.mutex = reader[i].mutex
        /\ r.port = reader[i].port /\ r.number = reader[i].number
        /\ r.sub = reader[i].sub /\ r.slot = reader[i].slot
    BY <1>2 DEF ReaderRecords
  <2>4. r.thread
    BY <1>2 DEF ReaderRecords
  <2> HIDE DEF r
  <2>5. /\ reader'[i] = r /\ \A k \in Entries : k # i => reader'[k] = reader[k]
        /\ EntryOK(i)' /\ Live' = Live /\ Counts'
        /\ \A k \in Live' : /\ k \in Live /\ reader'[k].port = reader[k].port
                            /\ reader'[k].library = reader[k].library
    BY <1>5, <2>1, <2>2, <2>3, <2>4
  <2>6. \A k \in Entries : SameReader(k) /\ reader'[k].removed = reader[k].removed
    BY <2>3, <2>5 DEF SameReader
  <2>7. Numbers'
    <3>1. \A k \in Live : SameReader(k)
      BY <2>6 DEF Live
    <3> QED BY <1>0, <2>5, <3>1 DEF Numbers, SameReader
  <2>8. pc'[t] = "nextSlot" /\ job'[t] = job[t] /\ Adding(t)' /\ Adding(t)
        /\ ~Closing(t)' /\ SearchOK(t)'
    BY <1>0, <2>1, LoadsAlone DEF Adding, Closing, SearchOK
  <2>9. job[t].first \in Entries /\ SameReader(job[t].first)
        /\ reader'[job[t].first].removed = reader[job[t].first].removed
    BY <1>0, <2>6, <2>8 DEF WorkOK
  <2>10. WorkOK(t)'
    <3>1. reader[job[t].first].vHandle
      BY <1>0, <2>8 DEF WorkOK
    <3>2. reader'[job[t].first].vHandle
      BY <2>9, <3>1 DEF SameReader
    <3> QED BY <1>0, <2>8, <2>9, <3>2 DEF WorkOK
  <2>11. AddsPort(t)'
    <3>1. \A k \in Live : SameReader(k)
      BY <2>6 DEF Live
    <3> QED BY <1>0, <2>5, <2>8, <2>9, <3>1 DEF AddsPort, SameReader
  <2>12. AddStep(t, i, r, "nextSlot", job[t])
    BY <1>0, <1>2, <1>4, <1>6, <2>1, <2>3 DEF AddStep, LifecycleTypes
  <2> QED BY <1>0, <1>2, <1>4, <2>2, <2>3, <2>5, <2>7, <2>8, <2>10, <2>11, <2>12,
             AddFrame
<1>7. CASE /\ reader' = [reader EXCEPT ![i].slot = -1] \/ UNCHANGED reader
           /\ \E rv \in ReturnValues : rv # "SUCCESS" /\ GiveUp(t, rv)
           /\ UNCHANGED evPc
  <2>1. PICK rv \in ReturnValues : rv # "SUCCESS" /\ GiveUp(t, rv)
    BY <1>7
  <2>2. PICK j \in JobRecords :
           /\ Goto(t, "sweep") /\ SetJob(t, j) /\ j.rv = rv
           /\ j.port = job[t].port /\ j.library = job[t].library
           /\ j.library \in Libraries
    BY <1>0, <2>1, GiveUpJob
  <2>3. PICK r \in ReaderRecords :
          /\ reader' = [reader EXCEPT ![i] = r]
          /\ r.vHandle = reader[i].vHandle /\ r.reference = reader[i].reference
          /\ r.removed = reader[i].removed /\ r.library = reader[i].library
          /\ r.feeds = reader[i].feeds /\ r.mutex = reader[i].mutex
          /\ r.port = reader[i].port /\ r.number = reader[i].number
          /\ r.sub = reader[i].sub /\ r.thread = reader[i].thread
          /\ r.slot = -1 \/ r.slot = reader[i].slot
    <3>1. CASE UNCHANGED reader
      <4>1. reader' = [reader EXCEPT ![i] = reader[i]]
        BY <1>0, <3>1 DEF LifecycleTypes
      <4> QED BY <1>2, <4>1
    <3>2. CASE reader' = [reader EXCEPT ![i].slot = -1]
      <4> DEFINE r == [reader[i] EXCEPT !.slot = -1]
      <4>1. reader' = [reader EXCEPT ![i] = r]
        BY <3>2
      <4>2. r \in ReaderRecords
        <5>1. -1 \in Int
          OBVIOUS
        <5> QED BY <1>2, <5>1, ReaderType
      <4>3. /\ r.vHandle = reader[i].vHandle /\ r.reference = reader[i].reference
            /\ r.removed = reader[i].removed /\ r.library = reader[i].library
            /\ r.feeds = reader[i].feeds /\ r.mutex = reader[i].mutex
            /\ r.port = reader[i].port /\ r.number = reader[i].number
            /\ r.sub = reader[i].sub /\ r.thread = reader[i].thread
            /\ r.slot = -1
        BY <1>2 DEF ReaderRecords
      <4> HIDE DEF r
      <4> QED BY <4>1, <4>2, <4>3
    <3> QED BY <1>7, <3>1, <3>2
  <2>4. evPc'[i] # "none" => r.thread
    BY <1>2, <1>7, <2>3 DEF EntryOK
  <2>5. /\ reader'[i] = r /\ \A k \in Entries : k # i => reader'[k] = reader[k]
        /\ EntryOK(i)' /\ Live' = Live /\ Counts'
        /\ \A k \in Live' : /\ k \in Live /\ reader'[k].port = reader[k].port
                            /\ reader'[k].library = reader[k].library
    BY <1>5, <2>2, <2>3, <2>4
  <2>6. Numbers'
    <3>1. \A k \in Live : /\ reader'[k].number = reader[k].number
                          /\ reader'[k].sub = reader[k].sub
                          /\ reader'[k].library = reader[k].library
                          /\ reader'[k].slot = -1 \/ reader'[k].slot = reader[k].slot
      BY <2>3, <2>5 DEF Live
    <3> QED BY <1>0, <2>5, <3>1 DEF Numbers
  <2>7. WorkOK(t)' /\ AddsPort(t)' /\ SearchOK(t)'
    BY <1>0, <2>2, <2>5, GivenUp
  <2>8. AddStep(t, i, r, "sweep", j)
    BY <1>0, <1>2, <1>4, <1>7, <2>2, <2>3 DEF AddStep, LifecycleTypes
  <2> QED BY <1>2, <1>4, <2>3, <2>5, <2>6, <2>7, <2>8, AddFrame
<1> QED BY <1>3, <1>6, <1>7

\* RFLoadReader() and RFBindFunctions()
LEMMA RFLoadReaderStep ==
  ASSUME Inv, Calm', NEW t \in Hotplugs, RFLoadReader(t), UNCHANGED hotplugVars
  PROVE  Inv'
<1>0. /\ LifecycleTypes /\ HotplugTypes /\ WorkOK(t) /\ AddsPort(t) /\ Counts
      /\ Numbers /\ SharedTypes /\ t \in Threads /\ job[t] \in JobRecords
      /\ pc[t] = "load" /\ UNCHANGED <<maxReaderContext, driver, evPc>>
      /\ Adding(t) /\ UNCHANGED <<pFeeds, pMutex>>
  BY DEF Inv, Threads, LifecycleTypes, SharedTypes, RFLoadReader, Adding
<1>1. PICK i \in Entries : i = job[t].entry
  BY <1>0, AddedEntry
<1>2. /\ reader[i] \in ReaderRecords /\ EntryOK(i)
      /\ i < maxReaderContext /\ ~reader[i].removed /\ i \in Live
      /\ NotClosed(i)
      /\ job[t].rv = "SUCCESS"
  BY <1>0, <1>1, AddedEntry DEF WorkOK
<1>3. maxReaderContext' \in Nat /\ maxReaderContext <= maxReaderContext'
      /\ evPc' \in [Entries -> {"none", "running", "cancelled"}]
      /\ \A k \in Entries : evPc'[k] = evPc[k]
  BY <1>0 DEF LifecycleTypes
<1>4. \A k \in Live : k \in Entries /\ (k # i => reader[k].vHandle)
  <2>1. Goto(t, pc'[t]) /\ SetJob(t, job'[t])
    BY <1>0 DEF RFLoadReader, GiveUp, Goto, SetJob, LifecycleTypes
  <2>2. \A k : Loading(k) <=> job[t].entry = k
    BY <1>0, <2>1, LoadsAlone
  <2> QED BY <1>1, <2>2 DEF Live
<1>9. \A k \in Entries : Leaving(k)' <=> Leaving(k)
  <2>1. Goto(t, pc'[t]) /\ SetJob(t, job'[t]) /\ pc'[t] # "release"
    BY <1>0 DEF RFLoadReader, GiveUp, Goto, SetJob, LifecycleTypes
  <2> QED BY <1>0, <2>1, LoadsAlone
<1>5. job[t].first \in Entries /\ ~reader[job[t].first].removed
      /\ (reader[job[t].first].vHandle \/ job[t].first = i)
  BY <1>0, <1>1 DEF WorkOK
\* The driver is there already.
<1>6. CASE reader[i].vHandle /\ Goto(t, "open") /\ UNCHANGED <<reader, loaded, job>>
  <2>1. /\ reader' = [reader EXCEPT ![i] = reader[i]] /\ SetJob(t, job[t])
        /\ UNCHANGED <<pFeeds, pMutex, loaded>>
    BY <1>0, <1>2, <1>6 DEF SetJob, LifecycleTypes, RFLoadReader
  <2>2. /\ pc'[t] = "open" /\ job'[t] = job[t] /\ \A k : ~Loading(k)'
        /\ \A c \in Clients : pc'[c] = pc[c] /\ job'[c] = job[c]
    BY <1>0, <1>6, <2>1, LoadsAlone
  <2>3. Live' = Live
    <3>1. \A k \in Live : reader[k].vHandle
      BY <1>4, <1>6
    <3> QED BY <1>6, <2>2, <3>1 DEF Live
  <2>4. \A k \in Entries : SameReader(k) /\ SameShare(k)
    BY <1>6 DEF SameReader, SameShare
  <2>5. Counts'
    <3>1. Counted' = Counted
      BY <1>9, <2>3 DEF Counted
    <3> QED BY <1>0, <2>1, <2>3, <2>4, <3>1, SharedSame
  <2>6. Numbers'
    BY <1>0, <1>6, <2>3 DEF Numbers
  <2>7. EntryOK(i)'
    <3>1. Holders(i)' = Holders(i)
      BY <2>2 DEF Holders
    <3> QED BY <1>0, <1>2, <1>6, <3>1 DEF EntryOK
  <2>8. Adding(t)' /\ ~Closing(t)' /\ SearchOK(t)'
    BY <2>2 DEF Adding, Closing, SearchOK
  <2>9. WorkOK(t)'
    <3>1. reader[job[t].first].vHandle
      BY <1>5, <1>6
    <3> QED BY <1>0, <1>1, <1>2, <1>3, <1>5, <1>6, <2>2, <2>8, <3>1 DEF WorkOK
  <2>10. AddsPort(t)'
    BY <1>0, <1>6, <2>2, <2>3, <2>8 DEF AddsPort
  <2>11. SharedTypes'
    BY <1>0, <2>1 DEF SharedTypes
  <2>12. AddStep(t, i, reader[i], "open", job[t])
    BY <1>0, <1>2, <1>3, <1>6, <2>1 DEF AddStep
  <2> QED BY <1>0, <1>2, <2>3, <2>5, <2>6, <2>7, <2>8, <2>9, <2>10, <2>11, <2>12,
             AddFrame
\* The driver is loaded.
<1>7. CASE /\ ~reader[i].vHandle
           /\ reader' = [reader EXCEPT ![i].vHandle = TRUE]
           /\ loaded' = [loaded EXCEPT ![reader[i].library] = @ + 1]
           /\ Goto(t, "open")
           /\ UNCHANGED job
  <2> DEFINE r == [reader[i] EXCEPT !.vHandle = TRUE]
  <2>1. /\ reader' = [reader EXCEPT ![i] = r] /\ SetJob(t, job[t])
        /\ UNCHANGED <<pFeeds, pMutex>>
    BY <1>0, <1>2, <1>7 DEF SetJob, LifecycleTypes, RFLoadReader
  <2>2. r \in ReaderRecords
    BY <1>2, ReaderType
  <2>3. /\ r.reference = reader[i].reference
        /\ r.removed = reader[i].removed /\ r.library = reader[i].library
        /\ r.feeds = reader[i].feeds /\ r.mutex = reader[i].mutex
        /\ r.port = reader[i].port /\ r.number = reader[i].number
        /\ r.sub = reader[i].sub /\ r.slot = reader[i].slot
        /\ r.thread = reader[i].thread
    BY <1>2 DEF ReaderRecords
  <2>4. r.vHandle
    BY <1>2 DEF ReaderRecords
  <2> HIDE DEF r
  <2>5. reader'[i] = r /\ \A k \in Entries : k # i => reader'[k] = reader[k]
    BY <1>0, <2>1 DEF LifecycleTypes
  <2>6. /\ pc'[t] = "open" /\ job'[t] = job[t] /\ \A k : ~Loading(k)'
        /\ \A c \in Clients : pc'[c] = pc[c] /\ job'[c] = job[c]
    BY <1>0, <1>7, <2>1, LoadsAlone
  <2>7. Live' = Live
    <3>1. \A k \in Live : reader'[k].vHandle
      BY <1>4, <2>4, <2>5
    <3>2. \A k \in Entries : reader'[k].vHandle => k \in Live
      BY <1>2, <2>5 DEF Live
    <3> QED BY <1>4, <2>6, <3>1, <3>2 DEF Live
  <2>8. Counts'
    <3>1. loaded \in [Libraries -> Nat]
      BY <1>0 DEF LifecycleTypes
    <3>2. /\ reader'[i].vHandle /\ reader'[i].feeds = reader[i].feeds
          /\ reader'[i].mutex = reader[i].mutex
          /\ reader'[i].library = reader[i].library
      BY <2>3, <2>4, <2>5
    <3>3. \A k \in Live : k # i => reader[k].vHandle
      BY <1>4
    <3>4. Counted' = Counted
      BY <1>9, <2>7 DEF Counted
    <3> QED BY <1>0, <1>2, <1>7, <2>1, <2>5, <2>7, <3>1, <3>2, <3>3, <3>4,
               CountsLoad
  <2>9. \A k \in Live : /\ reader'[k].number = reader[k].number
                        /\ reader'[k].sub = reader[k].sub
                        /\ reader'[k].slot = reader[k].slot
                        /\ reader'[k].port = reader[k].port
                        /\ reader'[k].library = reader[k].library
    BY <1>4, <2>3, <2>5
  <2>10. Numbers'
    BY <1>0, <2>7, <2>9 DEF Numbers
  <2>11. EntryOK(i)'
    <3>1. Holders(i)' = Holders(i)
      BY <2>6 DEF Holders
    <3>2. Holders(i) = {} /\ evPc[i] = "none"
      BY <1>2, <1>7 DEF EntryOK
    <3>3. r.reference = 1 /\ Own(r) = 1
      BY <1>0, <1>1, <1>2, <1>7, <2>3 DEF WorkOK, Own
    <3>4. IsFiniteSet(Holders(i)') /\ Cardinality(Holders(i)') = 0
      BY <3>1, <3>2, FS_EmptySet
    <3>5. r.reference = Own(r) + Cardinality(Holders(i)')
      BY <3>3, <3>4
    <3> QED BY <1>0, <1>2, <2>4, <2>5, <3>2, <3>4, <3>5 DEF EntryOK
  <2>12. Adding(t)' /\ ~Closing(t)' /\ SearchOK(t)'
    BY <2>6 DEF Adding, Closing, SearchOK
  <2>13. WorkOK(t)'
    <3>1. reader'[job[t].first].vHandle
      <4>1. CASE job[t].first = i
        BY <2>4, <2>5, <4>1
      <4>2. CASE job[t].first # i
        BY <1>5, <2>5, <4>2
      <4> QED BY <4>1, <4>2
    <3>2. ~reader'[job[t].first].removed
      BY <1>5, <2>3, <2>5
    <3>3. ~reader'[i].removed /\ reader'[i].vHandle
      BY <1>2, <2>3, <2>4, <2>5
    <3> QED BY <1>0, <1>1, <1>2, <1>3, <1>5, <2>6, <2>12, <3>1, <3>2, <3>3
               DEF WorkOK
  <2>14. AddsPort(t)'
    <3>1. /\ reader'[job[t].first].slot = reader[job[t].first].slot
          /\ reader'[job[t].first].sub = reader[job[t].first].sub
          /\ reader'[job[t].first].library = reader[job[t].first].library
          /\ reader'[job[t].first].number = reader[job[t].first].number
      BY <1>5, <2>3, <2>5
    <3> QED BY <1>0, <2>6, <2>7, <2>9, <2>12, <3>1 DEF AddsPort
  <2>15. SharedTypes'
    <3>1. loaded \in [Libraries -> Nat] /\ reader[i].library \in Libraries
      BY <1>0, <1>2 DEF SharedTypes, Counts, Counted
    <3>2. loaded[reader[i].library] + 1 \in Nat
      BY <3>1
    <3>3. loaded' \in [Libraries -> Nat]
      BY <1>7, <3>1, <3>2
    <3> QED BY <1>0, <2>1, <3>3 DEF SharedTypes
  <2>16. AddStep(t, i, r, "open", job[t])
    BY <1>0, <1>2, <1>3, <1>7, <2>1 DEF AddStep
  <2> QED BY <1>0, <1>2, <2>2, <2>3, <2>7, <2>8, <2>10, <2>11, <2>12, <2>13,
             <2>14, <2>15, <2>16, AddFrame
\* The driver cannot be loaded.
<1>8. CASE /\ ~reader[i].vHandle /\ "load" \in driver.fails
           /\ GiveUp(t, "UNKNOWN_ERROR") /\ UNCHANGED <<reader, loaded>>
  <2>1. PICK j \in JobRecords :
           /\ Goto(t, "sweep") /\ SetJob(t, j) /\ j.rv = "UNKNOWN_ERROR"
           /\ j.port = job[t].port /\ j.library = job[t].library
           /\ j.library \in Libraries
    BY <1>0, <1>8, GiveUpJob DEF ReturnValues
  <2>2. /\ pc'[t] = "sweep" /\ job'[t] = j /\ \A k : ~Loading(k)'
        /\ \A c \in Clients : pc'[c] = pc[c] /\ job'[c] = job[c]
    BY <1>0, <2>1, LoadsAlone
  <2>4. Live' = Live \ {i} /\ i \notin Live'
    <3>1. \A k \in Entries : k \in Live' <=> reader[k].vHandle
      BY <1>8, <2>2 DEF Live
    <3>2. \A k \in Entries : k \in Live \ {i} <=> reader[k].vHandle
      BY <1>4, <1>8 DEF Live
    <3>3. \A k \in Live' : k \in Entries
      BY DEF Live
    <3> QED BY <1>4, <3>1, <3>2, <3>3
  <2>5. Counts'
    <3>1. ~Leaving(i)
      BY <1>2 DEF NotClosed, Leaving
    <3>2. Counted' = Counted \ {i}
      BY <1>9, <2>4, <3>1 DEF Counted
    <3> QED BY <1>0, <1>2, <1>8, <2>4, <3>2, CountsForget
  <2>6. Numbers'
    <3>1. \A k \in Live' : k \in Live
      BY <2>4
    <3> QED BY <1>0, <1>8, <3>1 DEF Numbers
  <2>7. EntryOK(i)'
    <3>1. Holders(i)' = Holders(i)
      BY <2>2 DEF Holders
    <3> QED BY <1>0, <1>2, <1>8, <3>1 DEF EntryOK
  <2>8. WorkOK(t)' /\ AddsPort(t)' /\ SearchOK(t)'
    BY <1>0, <1>8, <2>1, <2>4, GivenUp
  <2>9. SharedTypes'
    BY <1>0, <1>8 DEF SharedTypes
  <2>10. reader' = [reader EXCEPT ![i] = reader[i]]
    BY <1>0, <1>8 DEF LifecycleTypes
  <2>11. AddStep(t, i, reader[i], "sweep", j)
    BY <1>0, <1>2, <1>3, <1>8, <2>1, <2>10 DEF AddStep
  <2> QED BY <1>2, <2>4, <2>5, <2>6, <2>7, <2>8, <2>9, <2>11, AddFrame
<1> QED BY <1>1, <1>6, <1>7, <1>8 DEF RFLoadReader

\* The entry that is taken was free.
LEMMA EmptyEntryIsFree ==
  ASSUME Inv, NEW t \in Hotplugs, pc[t] \in {"add", "nextSlot"},
         NEW i \in Entries, i = EmptyEntry, RFReAllocateReaderSpace(i)
  PROVE  /\ ~reader[i].vHandle /\ i \notin Live
         /\ \A k \in Live : k \in Entries /\ reader[k].vHandle /\ k < maxReaderContext
         /\ i < maxReaderContext' /\ maxReaderContext' \in Nat
         /\ maxReaderContext <= maxReaderContext'
<1> DEFINE S == {maxReaderContext} \cup
                  {k \in Entries : k < maxReaderContext /\ ~reader[k].vHandle}
<1>0. maxReaderContext \in Nat /\ EntryOK(i) /\ \A k \in Entries : k \in Nat
  BY LifecycleAssumption DEF Inv, LifecycleTypes, Entries
<1>1. i \in S /\ i <= maxReaderContext
  <2>1. S \subseteq Nat /\ S # {} /\ maxReaderContext \in S
    BY <1>0
  <2>2. Min(S) \in S /\ \A x \in S : Min(S) <= x
    BY <2>1, MinNat
  <2> QED BY <2>1, <2>2 DEF EmptyEntry
<1>2. ~reader[i].vHandle
  <2>1. reader[i].vHandle => i < maxReaderContext
    BY <1>0 DEF EntryOK
  <2> QED BY <1>0, <1>1, <2>1
<1>3. \A k : ~Loading(k)
  <2>1. \A u \in Hotplugs : u # t => pc[u] = "idle"
    BY DEF Inv, Calm, Apart, Busy
  <2> QED BY <2>1 DEF Loading
<1>4. \A k \in Live : k \in Entries /\ reader[k].vHandle /\ k < maxReaderContext
  BY <1>3 DEF Live, Inv, EntryOK
<1>5. /\ i < maxReaderContext' /\ maxReaderContext' \in Nat
      /\ maxReaderContext <= maxReaderContext'
  BY <1>0, <1>1 DEF RFReAllocateReaderSpace, INITIAL_MAX_READERS_CONTEXTS
<1>6. i \notin Live
  BY <1>2, <1>4
<1> QED BY <1>2, <1>4, <1>5, <1>6

\* The entry that is filled in is still free, and nobody gives up a driver.
LEMMA FilledEntryIsFree ==
  ASSUME Inv, NEW t \in Hotplugs, pc[t] \in {"fill", "fillSlot"},
         NEW i, i = job[t].entry
  PROVE  /\ i \in Entries /\ ~reader[i].vHandle /\ i \notin Live
         /\ i < maxReaderContext
         /\ \A k \in Live : k \in Entries /\ reader[k].vHandle
         /\ Holders(i) = {} /\ evPc[i] = "none"
         /\ NotClosed(i) /\ Counted = Live /\ \A k : ~Leaving(k)
<1>1. i \in Entries /\ ~reader[i].vHandle /\ i < maxReaderContext
  BY DEF Inv, WorkOK, Threads
<1>2. EntryOK(i)
  BY <1>1 DEF Inv
<1>3. Holders(i) = {} /\ evPc[i] = "none"
  BY <1>1, <1>2 DEF EntryOK
<1>4. \A k : ~Loading(k)
  <2>1. \A u \in Hotplugs : u # t => pc[u] = "idle"
    BY DEF Inv, Calm, Apart, Busy
  <2> QED BY <2>1 DEF Loading
<1>5. i \notin Live /\ \A k \in Live : k \in Entries /\ reader[k].vHandle
  BY <1>1, <1>4 DEF Live
<1>6. \A u \in Threads : pc[u] # "release"
  BY DEF Inv, Calm, OneReleases, Threads
<1>7. \A k : ~Leaving(k)
  BY <1>6 DEF Leaving
<1>8. Counted = Live
  BY <1>7 DEF Counted, Live
<1>9. NotClosed(i)
  BY <1>1, <1>6 DEF Inv, WorkOK, NotClosed
<1> QED BY <1>1, <1>3, <1>5, <1>7, <1>8, <1>9

\* malloc() returns a pointer nobody uses.
LEMMA FreshIsFree ==
  ASSUME Counts, CountersLeft,
         pFeeds \in [Objects -> Nat], pMutex \in [Objects -> Nat]
  PROVE  /\ Fresh(pFeeds) \in Objects /\ pFeeds[Fresh(pFeeds)] = 0
         /\ Feeding(Fresh(pFeeds)) = {}
         /\ Fresh(pMutex) \in Objects /\ pMutex[Fresh(pMutex)] = 0
         /\ Sharing(Fresh(pMutex)) = {}
<1>0. Objects \subseteq Nat
  BY LifecycleAssumption DEF Objects
<1>1. Fresh(pFeeds) \in Objects /\ pFeeds[Fresh(pFeeds)] = 0
  <2> DEFINE S == {o \in Objects : pFeeds[o] = 0}
  <2>1. S # {} /\ S \subseteq Nat
    BY <1>0 DEF CountersLeft
  <2>2. Min(S) \in S
    BY <2>1, MinNat
  <2> QED BY <2>2 DEF Fresh
<1>2. Fresh(pMutex) \in Objects /\ pMutex[Fresh(pMutex)] = 0
  <2> DEFINE S == {o \in Objects : pMutex[o] = 0}
  <2>1. S # {} /\ S \subseteq Nat
    BY <1>0 DEF CountersLeft
  <2>2. Min(S) \in S
    BY <2>1, MinNat
  <2> QED BY <2>2 DEF Fresh
<1>3. ASSUME NEW o \in Objects, pFeeds[o] = 0 PROVE Feeding(o) = {}
  <2>1. Exact(0, Feeding(o)) /\ IsFiniteSet(Feeding(o))
    BY <1>3, LiveFinite DEF Counts
  <2> QED BY <2>1, FS_EmptySet DEF Exact
<1>4. ASSUME NEW o \in Objects, pMutex[o] = 0 PROVE Sharing(o) = {}
  <2>1. Exact(0, Sharing(o)) /\ IsFiniteSet(Sharing(o))
    BY <1>4, LiveFinite DEF Counts
  <2> QED BY <2>1, FS_EmptySet DEF Exact
<1> QED BY <1>1, <1>2, <1>3, <1>4

\* The readers that share the driver are those of the same library, and the
\* number is one none of them has.
LEMMA NumberIsFree ==
  ASSUME Inv, NEW t \in Hotplugs, pc[t] = "add",
         \A k \in Live : k \in Entries /\ reader[k].vHandle /\ k < maxReaderContext,
         NEW size \in Nat, maxReaderContext <= size
  PROVE  LET C == Clones(job[t].library, job[t].port)
             n == ReaderNumber(job[t].library, job[t].port, size)
         IN /\ C \subseteq Live /\ n \in Nat
            /\ \A k \in Live : reader[k].library = job[t].library =>
                 k \in C /\ reader[k].number # n
            /\ C # {} => Parent(job[t].library, job[t].port) \in C
            /\ \A k \in C : reader[k].library = job[t].library
<1> DEFINE C == Clones(job[t].library, job[t].port)
           n == ReaderNumber(job[t].library, job[t].port, size)
<1>0. AddsPort(t) /\ job[t].library \in Libraries /\ "none" \notin Libraries
  BY HotplugAssumption DEF Inv, WorkOK, Threads
<1>1. C \subseteq Live /\ \A k \in C : reader[k].library = job[t].library
  BY DEF Clones, Used, Live
<1>2. \A k \in Live : reader[k].library = job[t].library => k \in C
  <2>1. ASSUME NEW k \in Live, reader[k].library = job[t].library
        PROVE  reader[k].port # job[t].port
    BY <1>0, <2>1 DEF AddsPort
  <2> QED BY <2>1 DEF Clones, Used
<1>3. C # {} => Parent(job[t].library, job[t].port) \in C
  BY <1>1, MaxEntry DEF Parent
<1>4. n \in Nat /\ \A k \in C : reader[k].number # n
  <2>1. CASE C = {}
    BY <2>1 DEF ReaderNumber
  <2>2. CASE C # {}
    <3> DEFINE f == [k \in Entries |-> reader[k].number]
               S == 0 .. size \ {reader[k].number : k \in C}
    <3>1. C \subseteq 0 .. size - 1
      <4>1. maxReaderContext \in Nat /\ \A k \in Entries : k \in Nat
        BY LifecycleAssumption DEF Inv, LifecycleTypes, Entries
      <4> QED BY <1>1, <4>1
    <3>2. \A k \in C : f[k] = reader[k].number
      BY <1>1
    <3>3. n = Min(S)
      BY <2>2 DEF ReaderNumber
    <3> HIDE DEF f, C, n
    <3>4. \E x \in 0 .. size : \A k \in C : f[k] # x
      <4> DEFINE T == 0 .. size - 1
                 N == 0 .. size
      <4>1. IsFiniteSet(N) /\ Cardinality(N) = size + 1
        BY FS_Interval
      <4>2. IsFiniteSet(T) /\ Cardinality(T) = size
        BY FS_Interval
      <4>3. Cardinality(T) < Cardinality(N)
        BY <4>1, <4>2
      <4>4. C \subseteq T
        BY <3>1
      <4> HIDE DEF T, N
      <4>5. \E x \in N : \A k \in C : f[k] # x
        BY <4>1, <4>2, <4>3, <4>4, FreeElement
      <4> QED BY <4>5 DEF N
    <3>5. S # {} /\ S \subseteq Nat
      BY <3>2, <3>4
    <3>6. Min(S) \in S
      BY <3>5, MinNat
    <3>7. Min(S) \in Nat /\ \A k \in C : reader[k].number # Min(S)
      BY <3>5, <3>6
    <3> HIDE DEF S
    <3> QED BY <3>3, <3>7
  <2> QED BY <2>1, <2>2
<1> QED BY <1>1, <1>2, <1>3, <1>4

\* Reader r is put into entry i, which was free.
Grows(t, i, r) ==
  /\ i = job[t].entry
  /\ reader' = [reader EXCEPT ![i] = r]
  /\ CountFeeds(r) /\ CountMutex(r)
  /\ UNCHANGED <<maxReaderContext, loaded, driver, evPc, job>>
  /\ UNCHANGED hotplugVars
  /\ Goto(t, "load")

\* The new reader is one of those that count.
LEMMA LiveGrows ==
  ASSUME Inv, NEW t \in Hotplugs, pc[t] \in {"fill", "fillSlot"},
         NEW i \in Entries, NEW r, Grows(t, i, r)
  PROVE  /\ Live' = Live \cup {i} /\ Counted' = Live' /\ reader'[i] = r
         /\ \A k \in Entries : k # i => reader'[k] = reader[k]
         /\ pc'[t] = "load" /\ job'[t] = job[t] /\ SetJob(t, job[t])
         /\ \A c \in Clients : pc'[c] = pc[c] /\ job'[c] = job[c]
<1>1. reader'[i] = r /\ \A k \in Entries : k # i => reader'[k] = reader[k]
  BY DEF Inv, LifecycleTypes, Grows
<1>2. Goto(t, "load") /\ SetJob(t, job[t]) /\ job[t].entry = i
  BY DEF Inv, LifecycleTypes, SetJob, Grows
<1>3. /\ \A k : ~Loading(k) /\ (Loading(k)' <=> k = i)
      /\ \A k : Leaving(k)' <=> Leaving(k)
      /\ pc'[t] = "load" /\ job'[t] = job[t]
      /\ \A c \in Clients : pc'[c] = pc[c] /\ job'[c] = job[c]
  BY <1>2, LoadsAlone
<1>4. Live' = Live \cup {i}
  BY <1>1, <1>3 DEF Live
<1>5. \A k : ~Leaving(k)
  BY <1>2, FilledEntryIsFree
<1>6. Counted' = Live'
  BY <1>3, <1>5 DEF Counted, Live
<1> QED BY <1>1, <1>2, <1>3, <1>4, <1>6

\* It is a further reader of a driver, or brings its own.
Fits(r) ==
  /\ r.reference = 1 /\ ~r.removed
  /\ r.feeds \in Objects /\ r.mutex \in Objects /\ r.library \in Libraries
  /\ r.vHandle => \E k \in Live : /\ r.feeds = reader[k].feeds
                                  /\ r.library = reader[k].library
  /\ pFeeds[r.feeds] = 0 \/ Feeding(r.feeds) # {}
  /\ pMutex[r.mutex] = 0 \/ Sharing(r.mutex) # {}
  /\ ~r.vHandle => Feeding(r.feeds) = {} /\ Sharing(r.mutex) = {}

\* Its number, and the port it has.
Numbered(t, r) ==
  /\ r.slot = r.number * 65536 + r.sub /\ r.sub < 256
  /\ \A k \in Live : /\ reader[k].library = r.library
                      /\ reader[k].number = r.number
                      => reader[k].sub # r.sub
  /\ r.port = job[t].port \/ \E k \in Live : r.port = reader[k].port

\* A thread that fills in an entry this way keeps the invariant.
LEMMA GrowStep ==
  ASSUME Inv, Calm', NEW t \in Hotplugs, pc[t] \in {"fill", "fillSlot"},
         NEW i \in Entries, NEW r \in ReaderRecords,
         Grows(t, i, r), Fits(r), Numbered(t, r),
         job[t].first = i \/ (job[t].first \in Live /\ ~reader[job[t].first].removed),
         AddsPort(t)'
  PROVE  Inv'
<1>0. /\ Counts /\ Numbers /\ pFeeds \in [Objects -> Nat]
      /\ pMutex \in [Objects -> Nat] /\ loaded \in [Libraries -> Nat]
      /\ evPc \in [Entries -> {"none", "running", "cancelled"}]
      /\ WorkOK(t) /\ t \in Threads /\ maxReaderContext \in Nat
      /\ job[t] \in JobRecords
  BY DEF Inv, LifecycleTypes, Threads
<1>1. /\ ~reader[i].vHandle /\ i \notin Live
      /\ \A k \in Live : k \in Entries /\ reader[k].vHandle
      /\ Holders(i) = {} /\ evPc[i] = "none" /\ NotClosed(i) /\ Counted = Live
      /\ i < maxReaderContext' /\ maxReaderContext' \in Nat
      /\ maxReaderContext <= maxReaderContext'
  BY <1>0, FilledEntryIsFree DEF Grows
<1>2. /\ Live' = Live \cup {i} /\ Counted' = Live' /\ reader'[i] = r
      /\ \A k \in Entries : k # i => reader'[k] = reader[k]
      /\ pc'[t] = "load" /\ job'[t] = job[t] /\ SetJob(t, job[t])
      /\ \A c \in Clients : pc'[c] = pc[c] /\ job'[c] = job[c]
  BY LiveGrows
<1>3. \A k \in Live : k # i /\ reader'[k] = reader[k]
  BY <1>1, <1>2
<1>4. /\ pFeeds' = [pFeeds EXCEPT ![r.feeds] = @ + 1]
      /\ pMutex' = [pMutex EXCEPT ![r.mutex] = @ + 1]
  BY DEF Grows, CountFeeds, CountMutex
<1>5. SharedTypes'
  <2>1. pFeeds[r.feeds] + 1 \in Nat /\ pMutex[r.mutex] + 1 \in Nat
    BY <1>0 DEF Fits
  <2>2. pFeeds' \in [Objects -> Nat] /\ pMutex' \in [Objects -> Nat]
    BY <1>0, <1>4, <2>1
  <2> QED BY <1>0, <2>2 DEF SharedTypes, Grows
<1>6. Counts'
  <2>1. i \in Entries \ Live /\ \A k \in Live : reader[k].vHandle
    BY <1>1
  <2>2. UNCHANGED <<loaded, driver>> /\ reader' = [reader EXCEPT ![i] = r]
    BY DEF Grows
  <2> QED BY <1>0, <1>1, <1>2, <1>4, <2>1, <2>2, CountsGrow DEF Fits
<1>7. Numbers'
  <2>1. \A k \in Live : /\ \/ reader[k].slot = -1
                           \/ reader[k].slot = reader[k].number * 65536 + reader[k].sub
                        /\ reader[k].sub < 256
    BY <1>0 DEF Numbers
  <2>2. \A k \in Live' : \/ reader'[k].slot = -1
                         \/ reader'[k].slot = reader'[k].number * 65536 + reader'[k].sub
    BY <1>2, <1>3, <2>1 DEF Numbered
  <2>3. \A k \in Live' : reader'[k].sub < 256
    BY <1>2, <1>3, <2>1 DEF Numbered
  <2>4. ASSUME NEW k \in Live', NEW l \in Live', k # l,
               reader'[k].library = reader'[l].library,
               reader'[k].number = reader'[l].number
        PROVE  reader'[k].sub # reader'[l].sub
    <3>1. CASE k = i
      BY <1>2, <1>3, <2>4, <3>1 DEF Numbered
    <3>2. CASE l = i
      BY <1>2, <1>3, <2>4, <3>2 DEF Numbered
    <3>3. CASE k # i /\ l # i
      BY <1>0, <1>2, <1>3, <2>4, <3>3 DEF Numbers
    <3> QED BY <3>1, <3>2, <3>3
  <2> QED BY <2>2, <2>3, <2>4 DEF Numbers
<1>8. EntryOK(i)'
  <2>1. Holders(i)' = {}
    BY <1>1, <1>2 DEF Holders
  <2>2. IsFiniteSet(Holders(i)') /\ Cardinality(Holders(i)') = 0
    BY <2>1, FS_EmptySet
  <2>3. Own(r) = 1
    BY DEF Own, Fits
  <2>4. r.reference = Own(r) + Cardinality(Holders(i)')
    BY <2>2, <2>3 DEF Fits
  <2>5. evPc'[i] = "none"
    BY <1>1 DEF Grows
  <2> QED BY <1>1, <1>2, <2>1, <2>2, <2>4, <2>5 DEF EntryOK
<1>9. WorkOK(t)'
  <2>1. Adding(t)' /\ ~Closing(t)'
    BY <1>2 DEF Adding, Closing
  <2>2. job[t].library \in Libraries
    BY <1>0 DEF WorkOK, Adding
  <2>3. /\ job[t].first \in Entries /\ ~reader'[job[t].first].removed
        /\ reader'[job[t].first].vHandle \/ job[t].first = i
    <3>1. CASE job[t].first = i
      BY <1>2, <3>1 DEF Fits
    <3>2. CASE job[t].first # i
      <4>1. job[t].first \in Live /\ ~reader[job[t].first].removed
        BY <3>2
      <4> QED BY <1>1, <1>3, <4>1
    <3> QED BY <3>1, <3>2
  <2>4. job[t].entry = i /\ job[t].rv = "SUCCESS"
        /\ r.reference = 1 /\ ~r.removed
    BY <1>0 DEF Grows, Fits, WorkOK, Adding
  <2> QED BY <1>1, <1>2, <2>1, <2>2, <2>3, <2>4 DEF WorkOK
<1>10. AddStep(t, i, r, "load", job[t]) /\ SearchOK(t)'
  BY <1>0, <1>1, <1>2 DEF AddStep, Grows, SearchOK
<1>11. /\ \A k \in Live' : k # i => k \in Live
       /\ r.port = job[t].port \/ \E k \in Live : r.port = reader[k].port
  BY <1>2 DEF Numbered
<1> QED BY <1>0, <1>5, <1>6, <1>7, <1>8, <1>9, <1>10, <1>11, AddFrame

\* The entry RFAddReader() fills in.
NewEntry(library, number, port, device, slot, clone, feeds, mutex) ==
  [FreeEntry EXCEPT
     !.library = library, !.number = number, !.port = port, !.device = device,
     !.slot = slot, !.reference = 1, !.vHandle = clone, !.feeds = feeds,
     !.mutex = mutex]

\* What RFAddReader() writes to an entry has the types of its fields.
LEMMA NewType ==
  ASSUME NEW l \in Libraries \cup {"none"}, NEW n \in Nat,
         NEW p \in Nat, NEW d \in Seq(Nat), NEW s \in Int,
         NEW b \in BOOLEAN, NEW f \in Objects \cup {NULL},
         NEW m \in Objects \cup {NULL}
  PROVE  NewEntry(l, n, p, d, s, b, f, m) \in ReaderRecords
<1>1. FreeEntry \in ReaderRecords /\ 1 \in Nat
  BY FreeType
<1> QED BY <1>1 DEF ReaderRecords, NewEntry

\* The fields of a new reader.
LEMMA NewReaderFields ==
  ASSUME NEW j \in JobRecords, NEW clone \in BOOLEAN, clone <=> j.parent # NoParent,
         clone => reader[j.parent].vHandle
  PROVE  LET r == NewReader(j)
             parent == reader[j.parent]
         IN /\ r.library = j.library /\ r.number = j.number /\ r.port = j.port
            /\ r.slot = j.number * 65536 /\ r.reference = 1 /\ ~r.removed
            /\ (clone => r.vHandle) /\ (~clone => ~r.vHandle) /\ r.sub = 0
            /\ r.feeds = (IF clone THEN parent.feeds ELSE Fresh(pFeeds))
            /\ r.mutex = (IF clone /\ ~driver.threadSafe THEN parent.mutex
                                                         ELSE Fresh(pMutex))
            /\ r.feeds \in Objects /\ r.mutex \in Objects => r \in ReaderRecords
<1> DEFINE feeds == IF j.parent # NoParent THEN reader[j.parent].feeds
                                            ELSE Fresh(pFeeds)
           mutex == IF j.parent # NoParent /\ ~driver.threadSafe
                    THEN reader[j.parent].mutex ELSE Fresh(pMutex)
           slot == j.number * 65536
           handle == j.parent # NoParent /\ reader[j.parent].vHandle
           r == NewEntry(j.library, j.number, j.port, j.device, slot, handle, feeds, mutex)
<1>1. NewReader(j) = r
  BY DEF NewReader, NewEntry
<1>2. handle \in BOOLEAN /\ (clone => handle) /\ (~clone => ~handle)
  OBVIOUS
<1>3. /\ j.library \in Libraries \cup {"none"} /\ j.number \in Nat /\ j.port \in Nat
      /\ j.device \in Seq(Nat)
  BY DEF JobRecords
<1> HIDE DEF handle, feeds, mutex, slot
<1>4. /\ r.library = j.library /\ r.number = j.number /\ r.port = j.port
      /\ r.slot = slot /\ r.reference = 1 /\ ~r.removed
      /\ r.vHandle = handle
      /\ r.sub = 0 /\ r.feeds = feeds /\ r.mutex = mutex
  BY DEF FreeEntry, NewEntry
<1>5. ASSUME feeds \in Objects, mutex \in Objects
      PROVE  r \in ReaderRecords
  <2>1. slot \in Int
    BY <1>3 DEF slot
  <2>2. feeds \in Objects \cup {NULL} /\ mutex \in Objects \cup {NULL}
    BY <1>5
  <2> QED BY <1>2, <1>3, <2>1, <2>2, NewType, Zenon
<1> HIDE DEF r
<1> QED BY <1>1, <1>2, <1>4, <1>5 DEF feeds, mutex, slot

\* RFAddReader() refuses a reader that is there already.
LEMMA AddDuplicate ==
  ASSUME Inv, Calm', NEW t \in Hotplugs, pc[t] = "add",
         SetJob(t, [job[t] EXCEPT !.rv = "DUPLICATE_READER"]), Goto(t, "added"),
         UNCHANGED <<tableVars, sharedVars, evPc>>, UNCHANGED hotplugVars
  PROVE  Inv'
<1> DEFINE j == [job[t] EXCEPT !.rv = "DUPLICATE_READER"]
<1>0. /\ HotplugTypes /\ WorkOK(t) /\ job[t] \in JobRecords
      /\ Len(readerTracker) \in Nat
  BY DEF Inv, LifecycleTypes, HotplugTypes, Threads
<1>1. SetJob(t, j) /\ j \in JobRecords /\ j.library = job[t].library
      /\ j.port = job[t].port
  <2>1. j \in JobRecords
    BY <1>0, JobType DEF ReturnValues
  <2> QED BY <1>0, <2>1 DEF JobRecords
<1> HIDE DEF j
<1>2. NewPort("added", job[t])
  BY OldPort
<1>3. NewPort("added", j) /\ j.library \in Libraries
  BY <1>0, <1>1, <1>2 DEF NewPort, WorkOK
<1>4. Elsewhere(t) /\ Busy(t)
  BY DEF Elsewhere, Busy
<1>5. HotplugTypes' /\ Len(readerTracker) <= Len(readerTracker')
  BY <1>0 DEF HotplugTypes
<1>6. \A u \in Hotplugs : u # t => scan'[u] = scan[u]
  OBVIOUS
<1> QED BY <1>1, <1>3, <1>4, <1>5, <1>6, HotplugStep

\* RFAddReader() looks for an entry: only the table may have grown.
LEMMA TableGrows ==
  ASSUME Inv, Calm', NEW t \in Hotplugs, pc[t] \in {"add", "nextSlot"},
         NEW i \in Entries, i = EmptyEntry, RFReAllocateReaderSpace(i),
         NEW step \in {"added", "fill", "fillSlot"}, NEW j \in JobRecords,
         SetJob(t, j), Goto(t, step),
         j.port = job[t].port, j.library = job[t].library,
         UNCHANGED <<reader, sharedVars, evPc>>, UNCHANGED hotplugVars
  PROVE  /\ Live' = Live /\ pc'[t] = step /\ job'[t] = j
         /\ WorkOK(t)' /\ AddsPort(t)' /\ SearchOK(t)' => Inv'
<1>0. /\ LifecycleTypes /\ Counts /\ Numbers /\ reader[i] \in ReaderRecords
      /\ EntryOK(i)
  BY DEF Inv, LifecycleTypes
<1>1. /\ ~reader[i].vHandle /\ i \notin Live
      /\ maxReaderContext' \in Nat /\ maxReaderContext <= maxReaderContext'
  BY EmptyEntryIsFree
<1>2. /\ \A k : ~Loading(k) /\ ~Loading(k)'
      /\ \A k : Leaving(k)' <=> Leaving(k)
      /\ pc'[t] = step /\ job'[t] = j
      /\ \A c \in Clients : pc'[c] = pc[c] /\ job'[c] = job[c]
  BY LoadsAlone
<1>3. Live' = Live
  BY <1>2 DEF Live
<1>4. Counts'
  <2>1. \A k \in Entries : SameShare(k)
    BY DEF SameShare
  <2>2. Counted' = Counted
    BY <1>2, <1>3 DEF Counted
  <2> QED BY <1>0, <1>3, <2>1, <2>2, SharedSame
<1>5. Numbers'
  BY <1>0, <1>3 DEF Numbers
<1>6. SharedTypes'
  BY <1>0 DEF SharedTypes, LifecycleTypes
<1>7. EntryOK(i)'
  <2>1. Holders(i)' = {}
    BY <1>0, <1>1, <1>2 DEF Holders, EntryOK
  <2>2. IsFiniteSet(Holders(i)')
    BY <2>1, FS_EmptySet
  <2> QED BY <1>0, <1>1, <2>1, <2>2 DEF EntryOK
<1>8. AddStep(t, i, reader[i], step, j)
  <2>1. reader' = [reader EXCEPT ![i] = reader[i]]
    BY <1>0 DEF LifecycleTypes
  <2>2. evPc' \in [Entries -> {"none", "running", "cancelled"}]
    BY <1>0 DEF LifecycleTypes
  <2> QED BY <1>1, <2>1, <2>2 DEF AddStep
<1>9. (\A k \in Live' : k # i => k \in Live) /\ i \notin Live'
  BY <1>1, <1>3
<1>10. ASSUME WorkOK(t)', AddsPort(t)', SearchOK(t)' PROVE Inv'
  BY <1>0, <1>4, <1>5, <1>6, <1>7, <1>8, <1>9, <1>10, AddFrame
<1> QED BY <1>2, <1>3, <1>10

\* RFSetReaderName() has no number for the reader.
LEMMA AddWithoutNumber ==
  ASSUME Inv, Calm', NEW t \in Hotplugs, pc[t] = "add",
         NEW i \in Entries, i = EmptyEntry, RFReAllocateReaderSpace(i),
         SetJob(t, [job[t] EXCEPT !.rv = "NO_MEMORY"]), Goto(t, "added"),
         UNCHANGED <<reader, sharedVars, evPc>>, UNCHANGED hotplugVars
  PROVE  Inv'
<1> DEFINE j == [job[t] EXCEPT !.rv = "NO_MEMORY"]
<1>0. WorkOK(t) /\ job[t] \in JobRecords /\ AddsPort(t)
  BY DEF Inv, LifecycleTypes, Threads
<1>1. SetJob(t, j) /\ j \in JobRecords /\ j.library = job[t].library
      /\ j.port = job[t].port
  <2>1. j \in JobRecords
    BY <1>0, JobType DEF ReturnValues
  <2> QED BY <1>0, <2>1 DEF JobRecords
<1> HIDE DEF j
<1>2. /\ Live' = Live /\ pc'[t] = "added" /\ job'[t] = j
      /\ WorkOK(t)' /\ AddsPort(t)' /\ SearchOK(t)' => Inv'
  BY <1>1, TableGrows
<1>3. ~Adding(t)' /\ ~Closing(t)' /\ j.library \in Libraries
  BY <1>0, <1>1, <1>2 DEF Adding, Closing, WorkOK
<1>4. WorkOK(t)' /\ SearchOK(t)'
  BY <1>1, <1>2, <1>3 DEF WorkOK, SearchOK
<1>5. AddsPort(t)'
  BY <1>0, <1>1, <1>2, <1>3 DEF AddsPort
<1> QED BY <1>2, <1>4, <1>5

\* RFAddReader() has found an entry, a number and the reader to take the driver
\* from.
LEMMA AddFound ==
  ASSUME Inv, Calm', NEW t \in Hotplugs, pc[t] = "add",
         NEW i \in Entries, i = EmptyEntry, RFReAllocateReaderSpace(i),
         NEW size \in Nat, maxReaderContext <= size,
         NEW n, n = ReaderNumber(job[t].library, job[t].port, size),
         NEW q, q = IF Clones(job[t].library, job[t].port) # {}
                    THEN Parent(job[t].library, job[t].port) ELSE NoParent,
         SetJob(t, [job[t] EXCEPT !.entry = i, !.first = i, !.sub = 0,
                                  !.number = n, !.parent = q]),
         Goto(t, "fill"),
         UNCHANGED <<reader, sharedVars, evPc>>, UNCHANGED hotplugVars
  PROVE  Inv'
<1> DEFINE j == [job[t] EXCEPT !.entry = i, !.first = i, !.sub = 0,
                               !.number = n, !.parent = q]
<1>0. WorkOK(t) /\ job[t] \in JobRecords /\ AddsPort(t) /\ t \in Threads
  BY DEF Inv, LifecycleTypes, Threads
<1>1. /\ ~reader[i].vHandle /\ i < maxReaderContext'
      /\ \A k \in Live : k \in Entries /\ reader[k].vHandle /\ k < maxReaderContext
  BY EmptyEntryIsFree
<1>2. /\ n \in Nat
      /\ \A k \in Live : reader[k].library = job[t].library => reader[k].number # n
  BY <1>1, NumberIsFree
<1>3. q = NoParent \/ (q \in Live /\ reader[q].library = job[t].library)
  BY <1>1, NumberIsFree
<1>4. q = NoParent \/ (q \in Entries /\ reader[q].vHandle)
  BY <1>1, <1>3
<1>5. /\ SetJob(t, j) /\ j \in JobRecords /\ j.library = job[t].library
      /\ j.port = job[t].port /\ j.entry = i /\ j.first = i /\ j.sub = 0
      /\ j.number = n /\ j.parent = q /\ j.rv = job[t].rv
  <2>1. i \in Nat /\ 0 \in Nat /\ q \in Int
    BY <1>4, LifecycleAssumption DEF Entries, NoParent
  <2>2. j \in JobRecords
    BY <1>0, <1>2, <2>1, JobType
  <2> QED BY <1>0, <2>2 DEF JobRecords
<1> HIDE DEF j
<1>6. /\ Live' = Live /\ pc'[t] = "fill" /\ job'[t] = j
      /\ WorkOK(t)' /\ AddsPort(t)' /\ SearchOK(t)' => Inv'
  BY <1>5, TableGrows
<1>7. ~Adding(t)' /\ ~Closing(t)' /\ j.library \in Libraries /\ j.rv = "SUCCESS"
  BY <1>0, <1>5, <1>6 DEF Adding, Closing, WorkOK
<1>8. WorkOK(t)'
  BY <1>1, <1>5, <1>6, <1>7 DEF WorkOK
<1>9. SearchOK(t)'
  BY <1>2, <1>3, <1>4, <1>5, <1>6 DEF SearchOK
<1>10. AddsPort(t)'
  BY <1>0, <1>5, <1>6, <1>7 DEF AddsPort
<1> QED BY <1>6, <1>8, <1>9, <1>10

\* RFAddReader(), up to the search for a number.
LEMMA AddReaderStep ==
  ASSUME Inv, Calm', NEW t \in Hotplugs, AddReader(t), UNCHANGED hotplugVars
  PROVE  Inv'
<1> DEFINE size == IF EmptyEntry = maxReaderContext
                   THEN maxReaderContext + INITIAL_MAX_READERS_CONTEXTS
                   ELSE maxReaderContext
           n == ReaderNumber(job[t].library, job[t].port, size)
           q == IF Clones(job[t].library, job[t].port) # {}
                THEN Parent(job[t].library, job[t].port) ELSE NoParent
<1>1. pc[t] = "add" /\ UNCHANGED <<reader, sharedVars, evPc>>
  BY DEF AddReader
<1>2. size \in Nat /\ maxReaderContext <= size
  BY DEF Inv, LifecycleTypes, INITIAL_MAX_READERS_CONTEXTS
<1>3. CASE /\ SetJob(t, [job[t] EXCEPT !.rv = "DUPLICATE_READER"])
           /\ Goto(t, "added") /\ UNCHANGED maxReaderContext
  BY <1>1, <1>3, AddDuplicate
<1>4. CASE /\ EmptyEntry \in Entries /\ RFReAllocateReaderSpace(EmptyEntry)
           /\ SetJob(t, [job[t] EXCEPT !.rv = "NO_MEMORY"])
           /\ Goto(t, "added")
  BY <1>1, <1>4, AddWithoutNumber
<1>5. CASE /\ EmptyEntry \in Entries /\ RFReAllocateReaderSpace(EmptyEntry)
           /\ SetJob(t, [job[t] EXCEPT !.entry = EmptyEntry, !.first = EmptyEntry,
                                       !.sub = 0, !.number = n, !.parent = q])
           /\ Goto(t, "fill")
  <2>1. PICK i \in Entries : i = EmptyEntry
    BY <1>5
  <2>2. RFReAllocateReaderSpace(i) /\ Goto(t, "fill")
        /\ SetJob(t, [job[t] EXCEPT !.entry = i, !.first = i, !.sub = 0,
                                    !.number = n, !.parent = q])
    BY <1>5, <2>1
  <2> QED BY <1>1, <1>2, <2>1, <2>2, AddFound
<1> QED BY <1>3, <1>4, <1>5 DEF AddReader

\* RFAddReader() fills in an entry.
LEMMA FillEntryStep ==
  ASSUME Inv, Calm', NEW t \in Hotplugs, FillEntry(t), UNCHANGED hotplugVars
  PROVE  Inv'
<1>0. /\ WorkOK(t) /\ AddsPort(t) /\ SearchOK(t) /\ Counts /\ job[t] \in JobRecords
      /\ pc[t] = "fill" /\ job[t].library \in Libraries /\ t \in Threads
      /\ pFeeds \in [Objects -> Nat] /\ pMutex \in [Objects -> Nat]
      /\ "none" \notin Libraries /\ CountersLeft
  BY HotplugAssumption DEF Inv, LifecycleTypes, Threads, WorkOK, FillEntry
<1>1. PICK i \in Entries : i = job[t].entry
  BY <1>0, FilledEntryIsFree
<1>2. PICK n \in Nat, q \in Int, clone \in BOOLEAN :
        n = job[t].number /\ q = job[t].parent /\ (clone <=> q # NoParent)
  BY <1>0 DEF JobRecords
<1>3. /\ job[t].first = i /\ job[t].sub = 0
      /\ \A k \in Live : reader[k].library = job[t].library => reader[k].number # n
      /\ clone => q \in Entries /\ reader[q].vHandle /\ reader[q].library = job[t].library
  BY <1>0, <1>1, <1>2 DEF SearchOK
<1>4. clone => q \in Live /\ q \in Counted
  BY <1>3 DEF Live, Counted
<1>5. /\ i \notin Live /\ \A k \in Live : k \in Entries /\ reader[k].vHandle
      /\ Counted = Live
  BY <1>0, <1>1, FilledEntryIsFree
<1>6. /\ Fresh(pFeeds) \in Objects /\ pFeeds[Fresh(pFeeds)] = 0
      /\ Feeding(Fresh(pFeeds)) = {}
      /\ Fresh(pMutex) \in Objects /\ pMutex[Fresh(pMutex)] = 0
      /\ Sharing(Fresh(pMutex)) = {}
  BY <1>0, FreshIsFree
<1>7. PICK r : r = NewReader(job[t])
  OBVIOUS
<1>8. /\ r.library = job[t].library /\ r.number = n /\ r.port = job[t].port
      /\ r.slot = n * 65536 /\ r.reference = 1 /\ ~r.removed /\ r.sub = 0
      /\ (clone => r.vHandle) /\ (~clone => ~r.vHandle)
      /\ r.feeds = (IF clone THEN reader[q].feeds ELSE Fresh(pFeeds))
      /\ r.mutex = (IF clone /\ ~driver.threadSafe THEN reader[q].mutex
                                                   ELSE Fresh(pMutex))
      /\ r.feeds \in Objects /\ r.mutex \in Objects => r \in ReaderRecords
  BY <1>0, <1>2, <1>3, <1>7, NewReaderFields
<1>9. /\ r.feeds \in Objects /\ r.mutex \in Objects
      /\ pFeeds[r.feeds] = 0 \/ Feeding(r.feeds) # {}
      /\ pMutex[r.mutex] = 0 \/ Sharing(r.mutex) # {}
      /\ ~clone => Feeding(r.feeds) = {} /\ Sharing(r.mutex) = {}
  <2>1. CASE ~clone
    BY <1>6, <1>8, <2>1
  <2>2. CASE clone
    <3>1. reader[q].feeds \in Objects /\ reader[q].mutex \in Objects
      BY <1>0, <1>4, <2>2 DEF Counts
    <3>2. q \in Feeding(reader[q].feeds) /\ q \in Sharing(reader[q].mutex)
      BY <1>4, <2>2 DEF Feeding, Sharing
    <3>3. r.feeds = reader[q].feeds
          /\ r.mutex \in {reader[q].mutex, Fresh(pMutex)}
      BY <1>8, <2>2
    <3> QED BY <1>6, <2>2, <3>1, <3>2, <3>3
  <2> QED BY <2>1, <2>2
<1>10. Fits(r) /\ r \in ReaderRecords
  <2>1. CASE ~clone
    BY <1>0, <1>8, <1>9, <2>1 DEF Fits
  <2>2. CASE clone
    <3>1. r.vHandle /\ r.feeds = reader[q].feeds /\ r.library = reader[q].library
          /\ q \in Live
      BY <1>3, <1>4, <1>8, <2>2
    <3> QED BY <1>0, <1>8, <1>9, <3>1 DEF Fits
  <2> QED BY <2>1, <2>2
<1>11. Numbered(t, r)
  <2>1. r.slot = r.number * 65536 + r.sub /\ r.sub < 256
    BY <1>2, <1>8
  <2> QED BY <1>3, <1>8, <2>1 DEF Numbered
<1>12. Grows(t, i, r)
  BY <1>1, <1>7 DEF Grows, FillEntry
<1>13. AddsPort(t)'
  <2>1. /\ Live' = Live \cup {i} /\ reader'[i] = r
        /\ \A k \in Entries : k # i => reader'[k] = reader[k]
        /\ pc'[t] = "load" /\ job'[t] = job[t]
    BY <1>0, <1>12, LiveGrows
  <2>2. \A k \in Live : reader'[k] = reader[k]
    BY <1>5, <2>1
  <2>3. ASSUME NEW k \in Live', reader'[k].port = job[t].port
        PROVE  \/ reader'[k].library = "driver"
               \/ reader'[k].library = "class" /\ job[t].library = "class"
    <3>1. CASE k = i
      BY <1>0, <1>8, <2>1, <3>1, HotplugAssumption
    <3>2. CASE k \in Live
      BY <1>0, <2>2, <2>3, <3>2 DEF AddsPort
    <3> QED BY <2>1, <3>1, <3>2
  <2>4. r.slot # -1
    BY <1>2, <1>8
  <2>5. ASSUME NEW k \in Live', reader'[k].library = r.library,
               reader'[k].number = r.number
        PROVE  reader'[k].sub <= job[t].sub
    <3>1. CASE k = i
      BY <1>3, <1>8, <2>1, <3>1
    <3>2. CASE k \in Live
      BY <1>3, <1>8, <2>2, <2>5, <3>2
    <3> QED BY <2>1, <3>1, <3>2
  <2>6. job[t].sub < 255
    BY <1>3
  <2> QED BY <1>3, <1>8, <2>1, <2>3, <2>4, <2>5, <2>6 DEF AddsPort
<1> QED BY <1>0, <1>3, <1>10, <1>11, <1>12, <1>13, GrowStep

\* The entry RFAddReader() fills in for a further slot of reader q.
SlotEntry(q, sub, slot, mutex) ==
  [q EXCEPT !.sub = sub, !.slot = slot, !.reference = 1, !.removed = FALSE,
            !.thread = FALSE, !.hLockId = "0", !.mutex = mutex]

\* What is written for a further slot has the types of the fields.
LEMMA SlotType ==
  ASSUME NEW q \in ReaderRecords, q.vHandle, NEW s \in Nat, NEW x \in Int,
         NEW m \in Objects \cup {NULL}
  PROVE  /\ SlotEntry(q, s, x, m) \in ReaderRecords
         /\ SlotEntry(q, s, x, m).library = q.library
         /\ SlotEntry(q, s, x, m).number = q.number
         /\ SlotEntry(q, s, x, m).port = q.port
         /\ SlotEntry(q, s, x, m).feeds = q.feeds
         /\ SlotEntry(q, s, x, m).vHandle
         /\ SlotEntry(q, s, x, m).sub = s /\ SlotEntry(q, s, x, m).slot = x
         /\ SlotEntry(q, s, x, m).mutex = m
         /\ SlotEntry(q, s, x, m).reference = 1
         /\ ~SlotEntry(q, s, x, m).removed
<1>1. 1 \in Nat /\ FALSE \in BOOLEAN /\ "0" \in {"0", "0xFFFF"}
  OBVIOUS
<1>2. SlotEntry(q, s, x, m) \in ReaderRecords
  BY <1>1 DEF ReaderRecords, SlotEntry
<1> QED BY <1>2 DEF ReaderRecords, SlotEntry

\* RFAddReader() looks for an entry for a further slot.
LEMMA AddSlotStep ==
  ASSUME Inv, Calm', NEW t \in Hotplugs, AddSlot(t), UNCHANGED hotplugVars
  PROVE  Inv'
<1>0. /\ WorkOK(t) /\ AddsPort(t) /\ job[t] \in JobRecords /\ LifecycleTypes
      /\ driver \in Drivers /\ t \in Threads /\ Adding(t)
      /\ pc[t] = "nextSlot" /\ job[t].sub + 1 < driver.slots
      /\ UNCHANGED <<reader, sharedVars, evPc>>
  BY DEF Inv, LifecycleTypes, Threads, AddSlot, Adding
<1>1. PICK i \in Entries, s \in Nat :
        i = EmptyEntry /\ s = job[t].sub + 1 /\ RFReAllocateReaderSpace(i)
  BY <1>0 DEF AddSlot, JobRecords
<1>2. ~reader[i].vHandle /\ i < maxReaderContext'
      /\ \A k \in Live : k \in Entries
  BY <1>0, <1>1, EmptyEntryIsFree
<1>3. s < 255
  <2>1. driver.slots \in 0 .. 255
    BY <1>0, LifecycleAssumption
  <2> QED BY <1>0, <1>1, <2>1
<1>4. PICK j \in JobRecords :
        /\ SetJob(t, j) /\ j.entry = i /\ j.first = job[t].first /\ j.sub = s
        /\ j.rv = job[t].rv /\ j.library = job[t].library
        /\ j.port = job[t].port
  <2> DEFINE j == [job[t] EXCEPT !.entry = i, !.sub = s]
  <2>1. i \in Nat
    BY LifecycleAssumption DEF Entries
  <2>2. j \in JobRecords
    BY <1>0, <2>1, JobType
  <2>3. /\ j.entry = i /\ j.first = job[t].first /\ j.sub = s /\ j.rv = job[t].rv
        /\ j.library = job[t].library /\ j.port = job[t].port
    BY <1>0 DEF JobRecords
  <2>4. SetJob(t, j)
    BY <1>1 DEF AddSlot
  <2> HIDE DEF j
  <2> QED BY <2>2, <2>3, <2>4
<1>5. Goto(t, "fillSlot")
  BY DEF AddSlot
<1>6. /\ Live' = Live /\ pc'[t] = "fillSlot" /\ job'[t] = j
      /\ WorkOK(t)' /\ AddsPort(t)' /\ SearchOK(t)' => Inv'
  BY <1>0, <1>1, <1>4, <1>5, TableGrows
<1>7. Adding(t)' /\ ~Closing(t)' /\ SearchOK(t)'
  BY <1>6 DEF Adding, Closing, SearchOK
<1>8. WorkOK(t)'
  BY <1>0, <1>2, <1>4, <1>6, <1>7 DEF WorkOK
<1>9. AddsPort(t)'
  <2>1. PICK f \in Entries : f = job[t].first
    BY <1>0 DEF WorkOK
  <2>2. /\ reader[f].slot # -1 /\ reader[f].sub = 0
        /\ \A k \in Live : /\ reader[k].library = reader[f].library
                           /\ reader[k].number = reader[f].number
                           => reader[k].sub <= job[t].sub
    BY <1>0, <2>1 DEF AddsPort
  <2>3. ASSUME NEW k \in Live, reader[k].library = reader[f].library,
               reader[k].number = reader[f].number
        PROVE  reader[k].sub <= s /\ reader[k].sub < s
    <3>1. reader[k].sub \in Nat /\ job[t].sub \in Nat
      BY <1>0, <1>2 DEF LifecycleTypes, ReaderRecords, JobRecords
    <3>2. reader[k].sub <= job[t].sub
      BY <2>2, <2>3
    <3> QED BY <1>1, <3>1, <3>2
  <2> QED BY <1>0, <1>3, <1>4, <1>6, <2>1, <2>2, <2>3 DEF AddsPort
<1> QED BY <1>6, <1>7, <1>8, <1>9

\* RFAddReader() fills in an entry for a further slot.
LEMMA FillSlotStep ==
  ASSUME Inv, Calm', NEW t \in Hotplugs, FillSlot(t), UNCHANGED hotplugVars
  PROVE  Inv'
<1>0. /\ WorkOK(t) /\ AddsPort(t) /\ Counts /\ Numbers /\ job[t] \in JobRecords
      /\ pFeeds \in [Objects -> Nat] /\ pMutex \in [Objects -> Nat]
      /\ pc[t] = "fillSlot" /\ CountersLeft /\ t \in Threads /\ Adding(t)
  BY DEF Inv, LifecycleTypes, Threads, FillSlot, Adding
<1>1. PICK f \in Entries, i \in Entries, s \in Nat :
        f = job[t].first /\ i = job[t].entry /\ s = job[t].sub
  BY <1>0, FilledEntryIsFree DEF WorkOK, JobRecords
<1>2. /\ ~reader[f].removed /\ reader[f].vHandle /\ reader[f] \in ReaderRecords
      /\ f \in Live /\ f # i /\ i \notin Live /\ Counted = Live
      /\ \A k \in Live : k \in Entries
      /\ reader[f].slot # -1 /\ reader[f].sub = 0 /\ s < 255
      /\ \A k \in Live : /\ reader[k].library = reader[f].library
                         /\ reader[k].number = reader[f].number
                         => reader[k].sub < s
  <2>1. ~reader[f].removed /\ reader[f].vHandle /\ reader[f] \in ReaderRecords
    BY <1>0, <1>1 DEF WorkOK, Inv, LifecycleTypes
  <2>2. i \notin Live /\ Counted = Live /\ \A k \in Live : k \in Entries
    BY <1>0, <1>1, FilledEntryIsFree
  <2>3. f \in Live
    BY <2>1 DEF Live
  <2>4. /\ reader[f].slot # -1 /\ reader[f].sub = 0 /\ s < 255
        /\ \A k \in Live : /\ reader[k].library = reader[f].library
                           /\ reader[k].number = reader[f].number
                           => reader[k].sub < s
    BY <1>0, <1>1 DEF AddsPort
  <2> QED BY <2>1, <2>2, <2>3, <2>4
<1>3. /\ reader[f].feeds \in Objects /\ reader[f].mutex \in Objects
      /\ reader[f].library \in Libraries
      /\ f \in Feeding(reader[f].feeds) /\ f \in Sharing(reader[f].mutex)
  BY <1>0, <1>2 DEF Counts, Feeding, Sharing
<1>4. Fresh(pMutex) \in Objects /\ pMutex[Fresh(pMutex)] = 0
  BY <1>0, FreshIsFree
<1>5. PICK m \in Objects : m = IF driver.slotThreadSafe THEN Fresh(pMutex)
                                                      ELSE reader[f].mutex
  BY <1>3, <1>4
<1>6. PICK x \in Int : x = reader[f].slot + s /\ x = reader[f].number * 65536 + s
  <2>1. PICK n \in Nat, y \in Int : n = reader[f].number /\ y = reader[f].slot
    BY <1>2 DEF ReaderRecords
  <2>2. y = n * 65536 + 0
    BY <1>0, <1>2, <2>1 DEF Numbers
  <2>3. n \in Nat /\ s \in Nat
    BY <1>1, <2>1
  <2>4. y + s = n * 65536 + s /\ n * 65536 + s \in Int
    BY <2>2, <2>3
  <2>5. PICK x \in Int : x = y + s /\ x = n * 65536 + s
    BY <2>4
  <2> QED BY <2>1, <2>5
<1>7. PICK r \in ReaderRecords :
        /\ r = NewSlot(f, s)
        /\ r.library = reader[f].library /\ r.number = reader[f].number
        /\ r.port = reader[f].port /\ r.feeds = reader[f].feeds
        /\ r.vHandle /\ r.sub = s /\ r.slot = x /\ r.mutex = m
        /\ r.reference = 1 /\ ~r.removed
  <2> DEFINE r == SlotEntry(reader[f], s, x, m)
  <2>1. r = NewSlot(f, s)
    BY <1>5, <1>6 DEF SlotEntry, NewSlot
  <2>2. m \in Objects \cup {NULL} /\ x \in Int /\ s \in Nat
    BY <1>1, <1>5, <1>6
  <2>3. /\ r \in ReaderRecords
        /\ r.library = reader[f].library /\ r.number = reader[f].number
        /\ r.port = reader[f].port /\ r.feeds = reader[f].feeds
        /\ r.vHandle /\ r.sub = s /\ r.slot = x /\ r.mutex = m
        /\ r.reference = 1 /\ ~r.removed
    BY <1>2, <2>2, SlotType
  <2> HIDE DEF r
  <2> QED BY <1>2, <2>1, <2>3
<1>8. Grows(t, i, r)
  BY <1>1, <1>7 DEF FillSlot, Grows
<1>9. Fits(r)
  <2>1. pMutex[m] = 0 \/ Sharing(m) # {}
    BY <1>3, <1>4, <1>5
  <2> QED BY <1>2, <1>3, <1>7, <2>1 DEF Fits
<1>10. Numbered(t, r)
  <2>1. r.slot = r.number * 65536 + r.sub /\ r.sub < 256
    BY <1>2, <1>6, <1>7
  <2>2. ASSUME NEW k \in Live, reader[k].library = r.library,
               reader[k].number = r.number
        PROVE  reader[k].sub # r.sub
    <3>1. reader[k].sub < s
      BY <1>2, <1>7, <2>2
    <3>2. reader[k].sub \in Nat
      BY <1>2 DEF Inv, LifecycleTypes, ReaderRecords
    <3> QED BY <1>1, <1>7, <3>1, <3>2
  <2> QED BY <1>2, <1>7, <2>1, <2>2 DEF Numbered
<1>11. AddsPort(t)'
  <2>1. /\ Live' = Live \cup {i} /\ reader'[i] = r
        /\ \A k \in Entries : k # i => reader'[k] = reader[k]
        /\ pc'[t] = "load" /\ job'[t] = job[t]
    BY <1>0, <1>8, LiveGrows
  <2>2. (\A k \in Live : reader'[k] = reader[k]) /\ reader'[f] = reader[f]
    BY <1>2, <2>1
  <2>3. \A k \in Live : reader[k].port = job[t].port =>
          \/ reader[k].library = "driver"
          \/ reader[k].library = "class" /\ job[t].library = "class"
    <3>1. job[t].library # "none"
      BY <1>0, HotplugAssumption DEF WorkOK
    <3> QED BY <1>0, <3>1 DEF AddsPort
  <2>4. ASSUME NEW k \in Live', reader'[k].port = job[t].port
        PROVE  \/ reader'[k].library = "driver"
               \/ reader'[k].library = "class" /\ job[t].library = "class"
    <3>1. CASE k = i
      BY <1>2, <1>7, <2>1, <2>3, <2>4, <3>1
    <3>2. CASE k \in Live
      BY <2>2, <2>3, <2>4, <3>2
    <3> QED BY <2>1, <3>1, <3>2
  <2>5. ASSUME NEW k \in Live', reader'[k].library = reader[f].library,
               reader'[k].number = reader[f].number
        PROVE  reader'[k].sub <= s
    <3>1. CASE k = i
      BY <1>1, <1>7, <2>1, <3>1
    <3>2. CASE k \in Live
      <4>1. reader[k].sub < s
        BY <1>2, <2>2, <2>5, <3>2
      <4>2. reader[k].sub \in Nat
        BY <1>2, <3>2 DEF Inv, LifecycleTypes, ReaderRecords
      <4> QED BY <1>1, <2>2, <3>2, <4>1, <4>2
    <3> QED BY <2>1, <3>1, <3>2
  <2> QED BY <1>1, <1>2, <2>1, <2>2, <2>4, <2>5 DEF AddsPort
<1>12. job[t].first \in Live /\ ~reader[job[t].first].removed
  BY <1>1, <1>2
<1> QED BY <1>0, <1>8, <1>9, <1>10, <1>11, <1>12, GrowStep

-----------------------------------------------------------------------------
\* The invariant
\* The daemon starts with an empty table.
LEMMA InitInv == Init => Inv
<1> SUFFICES ASSUME Init PROVE Inv
  OBVIOUS
<1>0. /\ LifecycleInit /\ NoJob \in JobRecords /\ FreeEntry \in ReaderRecords
      /\ NoScan \in ScanRecords /\ Threads = Clients \cup Hotplugs
      /\ \A i \in Entries : reader[i] = FreeEntry /\ evPc[i] = "none"
      /\ \A t \in Threads : pc[t] = "idle" /\ job[t] = NoJob
      /\ \A t \in Hotplugs : t \in Threads /\ scan[t] = NoScan
      /\ \A c \in Clients : c \in Threads
  BY FreeType DEF Init, LifecycleInit, Threads
<1>1. LifecycleTypes
  <2>1. /\ maxReaderContext \in Nat /\ reader \in [Entries -> ReaderRecords]
        /\ pFeeds \in [Objects -> Nat] /\ pMutex \in [Objects -> Nat]
        /\ loaded \in [Libraries -> Nat] /\ driver \in Drivers
    BY <1>0 DEF LifecycleInit, INITIAL_MAX_READERS_CONTEXTS
  <2>2. /\ evPc \in [Entries -> {"none", "running", "cancelled"}]
        /\ pc \in [Threads -> HotplugSteps \cup ClientSteps]
        /\ job \in [Threads -> JobRecords]
    BY <1>0 DEF LifecycleInit, HotplugSteps
  <2>3. /\ \A c \in Clients : pc[c] \in ClientSteps
        /\ \A t \in Hotplugs : pc[t] \in HotplugSteps
    BY <1>0 DEF ClientSteps, HotplugSteps
  <2> QED BY <2>1, <2>2, <2>3 DEF LifecycleTypes
<1>2. HotplugTypes
  <2>1. NoDevice \in DeviceRecords
    BY DEF DeviceRecords
  <2>2. readerTracker \in Seq(DeviceRecords)
    BY <2>1 DEF Init
  <2>3. events \in Seq(EventRecords)
    BY DEF Init
  <2>4. plugged \in [Places -> Nat] /\ address \in Nat
        /\ scan \in [Hotplugs -> ScanRecords]
    BY <1>0 DEF Init
  <2> QED BY <2>2, <2>3, <2>4 DEF HotplugTypes
<1>3. Calm /\ ClosersApart
  <2>1. Used = {}
    BY <1>0 DEF Used, FreeEntry
  <2> QED BY <1>0, <2>1 DEF Calm, Apart, Busy, PortsApart, FoundStays, OneRereads,
                            OneReleases, ClosersApart, Closing
<1>4. \A i \in Entries : EntryOK(i)
  <2>1. \A i \in Entries : Holders(i) = {}
    BY <1>0 DEF Holders
  <2>2. \A i \in Entries : IsFiniteSet(Holders(i))
    BY <2>1, FS_EmptySet
  <2> QED BY <1>0, <2>1, <2>2 DEF EntryOK, FreeEntry
<1>5. \A t \in Threads : WorkOK(t)
  BY <1>0 DEF WorkOK, Closing, Adding, NoJob
<1>6. Live = {} /\ Counted = {}
  BY <1>0 DEF Live, Loading, FreeEntry, Counted, Leaving
<1>7. Counts
  <2>1. \A o \in Objects : Feeding(o) = {} /\ Sharing(o) = {}
    BY <1>6 DEF Feeding, Sharing
  <2>2. \A lib \in Libraries : LoadedFor(lib) = {}
    BY <1>0 DEF LoadedFor, FreeEntry
  <2>3. /\ \A o \in Objects : pFeeds[o] = 0 /\ pMutex[o] = 0
        /\ \A lib \in Libraries : loaded[lib] = 0
    BY <1>0 DEF LifecycleInit
  <2> QED BY <1>6, <2>1, <2>2, <2>3, FS_EmptySet DEF Counts, Exact
<1>8. Numbers /\ Ports
  BY <1>0, <1>6 DEF Numbers, Ports, NoJob
<1>9. \A t \in Hotplugs : AddsPort(t) /\ SearchOK(t)
  BY <1>0, <1>6 DEF AddsPort, SearchOK, Adding, NoJob
<1> QED BY <1>1, <1>2, <1>3, <1>4, <1>5, <1>7, <1>8, <1>9 DEF Inv

\* Every step of a hotplug thread keeps the invariant.
LEMMA HotplugThreadStep ==
  ASSUME Inv, Calm', NEW t \in Hotplugs, HotplugThread(t)
  PROVE  Inv'
<1>1. CASE ReceiveAdd(t)
  BY <1>1, ReceiveAddStep
<1>2. CASE ReceiveRemove(t)
  BY <1>2, ReceiveRemoveStep
<1>3. CASE HPReCheckSerialReaders(t) \/ HPRescanUsbBus(t)
  <2>1. ScanDevices(t)
    BY <1>3 DEF HPReCheckSerialReaders, HPRescanUsbBus
  <2> QED BY <2>1, ScanDevicesStep
<1>4. CASE ScanNext(t)
  BY <1>4, ScanNextStep
<1>5. CASE ScanDone(t)
  BY <1>5, ScanDoneStep
<1>6. CASE TryClassDriver(t)
  BY <1>6, TryClassDriverStep
<1>7. CASE AddDone(t)
  BY <1>7, AddDoneStep
<1>8. CASE RemoveDone(t)
  BY <1>8, RemoveDoneStep
<1>9. CASE AddReader(t) /\ UNCHANGED hotplugVars
  BY <1>9, AddReaderStep
<1>10. CASE RFLoadReader(t) /\ UNCHANGED hotplugVars
  BY <1>10, RFLoadReaderStep
<1>11. CASE StartReader(t, DeviceIsThere(t)) /\ UNCHANGED hotplugVars
  BY <1>11, StartReaderStep, Zenon
<1>12. CASE AddSlot(t) /\ UNCHANGED hotplugVars
  BY <1>12, AddSlotStep
<1>13. CASE SlotsDone(t) /\ UNCHANGED hotplugVars
  BY <1>13, SlotsDoneStep
<1>14. CASE SweepEntry(t) /\ UNCHANGED hotplugVars
  BY <1>14, SweepEntryStep
<1>15. CASE SweepDone(t) /\ UNCHANGED hotplugVars
  BY <1>15, SweepDoneStep
<1>16. CASE FillEntry(t) /\ UNCHANGED hotplugVars
  BY <1>16, FillEntryStep
<1>17. CASE FillSlot(t) /\ UNCHANGED hotplugVars
  BY <1>17, FillSlotStep
<1> QED
  BY <1>1, <1>2, <1>3, <1>4, <1>5, <1>6, <1>7, <1>8, <1>9, <1>10, <1>11,
     <1>12, <1>13, <1>14, <1>15, <1>16, <1>17, Zenon DEF HotplugThread

\* The parts of Colliding.
LEMMA NotColliding ==
  ASSUME ~Colliding'
  PROVE  Calm'
<1>1. Apart' /\ FoundStays'
  BY DEF Colliding, Apart, FoundStays
<1>2. PortsApart'
  BY DEF Colliding, PortsApart
<1>3. OneRereads' /\ OneReleases'
  BY DEF Colliding, OneRereads, OneReleases, NoneLeft
<1> QED BY <1>1, <1>2, <1>3 DEF Calm

\* Every step keeps the invariant, unless threads get in each other's way.
LEMMA NextInv ==
  ASSUME Inv, Calm', [Next]_vars
  PROVE  Inv'
<1>1. CASE \E t \in Hotplugs : HotplugThread(t)
  BY <1>1, HotplugThreadStep
<1>2. CASE \E p \in Places : Plug(p) \/ Unplug(p)
  BY <1>2, BusStep
<1>3. CASE (\E c \in Clients : Client(c)) /\ UNCHANGED hotplugVars
  <2>1. PICK c \in Clients : Client(c)
    BY <1>3
  <2>2. CASE RFUnrefReader(c)
    BY <1>3, <2>2, RFUnrefReaderStep
  <2>3. CASE \E i \in Entries : RFReaderInfo(c, i)
    BY <1>3, <2>3, RFReaderInfoStep
  <2>4. CASE ReaderIsHeld(c)
    BY <1>3, <2>4, ReaderIsHeldStep
  <2> QED BY <2>1, <2>2, <2>3, <2>4 DEF Client
<1>4. CASE (\E t \in Threads : RemoveReader(t)) /\ UNCHANGED hotplugVars
  <2>1. PICK t \in Threads : RemoveReader(t)
    BY <1>4
  <2>2. CASE EHDestroyEventHandler(t)
    BY <1>4, <2>2, EHDestroyEventHandlerStep
  <2>3. CASE Join(t)
    BY <1>4, <2>3, JoinStep
  <2>4. CASE RFUnInitializeReader(t)
    BY <1>4, <2>4, RFUnInitializeReaderStep
  <2>5. CASE ReleaseReader(t)
    BY <1>4, <2>5, ReleaseReaderStep
  <2>6. CASE LastReference(t)
    BY <1>4, <2>6, LastReferenceStep
  <2> QED BY <2>1, <2>2, <2>3, <2>4, <2>5, <2>6 DEF RemoveReader
<1>5. CASE (\E i \in Entries : EventThread(i)) /\ UNCHANGED hotplugVars
  BY <1>5, EventThreadStep
<1>6. CASE UNCHANGED vars
  <2>1. HotplugTypes' /\ UNCHANGED <<lifecycleVars, readerTracker, scan>>
    BY <1>6 DEF vars, Inv, HotplugTypes
  <2> QED BY <2>1, BusFrame
<1> QED BY <1>1, <1>2, <1>3, <1>4, <1>5, <1>6, Zenon DEF Next

-----------------------------------------------------------------------------
\* The theorems

\* Until two threads have got in each other's way, every reachable state
\* satisfies the invariant: reference counts are those of the threads that use
\* a reader, shared counters those of the readers that share them, and numbers
\* and ports are unique.
THEOREM HotplugInvariance == Spec => [](raced \/ Inv)
<1>1. Init => raced \/ Inv
  BY InitInv
<1>2. ASSUME raced \/ Inv, [Next]_vars PROVE raced' \/ Inv'
  <2>1. CASE UNCHANGED vars
    <3>1. CASE raced
      BY <2>1, <3>1 DEF vars
    <3>2. CASE Inv
      <4>1. HotplugTypes' /\ UNCHANGED <<lifecycleVars, readerTracker, scan>>
        BY <2>1, <3>2 DEF vars, Inv, HotplugTypes
      <4>2. Calm'
        BY <2>1, <3>2 DEF vars, Inv, Calm, Apart, PortsApart, FoundStays,
                          OneRereads, OneReleases, Used, Busy
      <4> QED BY <3>2, <4>1, <4>2, BusFrame
    <3> QED BY <1>2, <3>1, <3>2
  <2>2. CASE Next
    <3> SUFFICES ASSUME ~raced' PROVE Inv'
      OBVIOUS
    <3>1. raced' = (raced \/ Colliding' \/ (Received /\ Busy("signal")))
      BY <2>2, Zenon DEF Next, NoteRaces
    <3>2. ~raced /\ ~Colliding'
      BY <3>1, Zenon
    <3>3. Inv /\ Calm'
      BY <1>2, <3>2, NotColliding
    <3> QED BY <2>2, <3>3, NextInv
  <2> QED BY <1>2, <2>1, <2>2
<1> QED BY <1>1, <1>2, PTL DEF Spec

\* A reader in use is below the end of the table, and counts.
LEMMA UsedIsLive ==
  ASSUME Inv
  PROVE  /\ \A i \in Entries : reader[i].vHandle <=> i \in Used
         /\ Used \subseteq Live
BY DEF Inv, EntryOK, Used, Live

\* A larger finite set has at least as many elements.
LEMMA Fewer ==
  ASSUME NEW T, IsFiniteSet(T), NEW S, S \subseteq T
  PROVE  Cardinality(S) \in Nat /\ Cardinality(T) \in Nat
         /\ Cardinality(S) <= Cardinality(T)
         /\ (T # {} => Cardinality(T) > 0)
BY FS_Subset, FS_CardinalityType, FS_EmptySet

\* _UnrefReader() frees no reader that a command is using: for any number of
\* clients, readers and slots, an entry with a command stays in use and counts
\* each of its commands, whatever step of the others falls between the test, the
\* decrement and the second reading of the count, until two threads collide.
THEOREM UseAfterRemove == Spec => []NoUseAfterRemove
<1>1. raced \/ Inv => NoUseAfterRemove
  <2> SUFFICES ASSUME Inv, NEW i \in Entries, Holders(i) # {}
               PROVE  /\ i \in Used
                      /\ reader[i].reference >= Cardinality(Holders(i))
    BY DEF NoUseAfterRemove, UsedReadersStay
  <2>1. EntryOK(i) /\ i \in Used
    BY UsedIsLive DEF Inv, EntryOK
  <2>2. Cardinality(Holders(i)) \in Nat
    BY <2>1, FS_CardinalityType DEF EntryOK
  <2> QED BY <2>1, <2>2 DEF EntryOK, Own
<1> QED BY <1>1, HotplugInvariance, PTL

\* removeReader() joins the event thread before it gives the entry back: no
\* event thread runs for an entry that is free.
THEOREM ThreadHasReader == Spec => []NoThreadWithoutReader
<1>1. raced \/ Inv => NoThreadWithoutReader
  BY UsedIsLive DEF Inv, EntryOK, NoThreadWithoutReader, ThreadsHaveReaders
<1> QED BY <1>1, HotplugInvariance, PTL

\* RFUnloadReader() unloads no driver, and RFUnInitializeReader() frees no
\* counter and no mutex, that another clone or slot still uses.
THEOREM FreedInUse == Spec => []NothingFreedInUse
<1>1. raced \/ Inv => NothingFreedInUse
  <2> SUFFICES ASSUME Inv, NEW i \in Used
               PROVE  /\ loaded[reader[i].library] > 0
                      /\ pFeeds[reader[i].feeds] >= Cardinality(Users(i))
                      /\ pMutex[reader[i].mutex] >= Cardinality(Sharers(i))
    BY DEF NothingFreedInUse
  <2>1. /\ i \in Live /\ i \in Entries /\ reader[i].vHandle /\ Used \subseteq Live
        /\ reader[i].feeds \in Objects /\ reader[i].mutex \in Objects
        /\ reader[i].library \in Libraries /\ Counts
    BY UsedIsLive DEF Inv, Counts, Used, Counted
  <2>2. PICK f \in Objects, m \in Objects, lib \in Libraries :
          f = reader[i].feeds /\ m = reader[i].mutex /\ lib = reader[i].library
    BY <2>1
  <2>3. /\ IsFiniteSet(Feeding(f)) /\ IsFiniteSet(Sharing(m))
        /\ IsFiniteSet(LoadedFor(lib))
    BY LiveFinite
  <2>4. Cardinality(Users(i)) <= Cardinality(Feeding(f))
        /\ Cardinality(Users(i)) \in Nat /\ Cardinality(Feeding(f)) \in Nat
    <3>1. Users(i) \subseteq Feeding(f)
      BY <2>1, <2>2 DEF Users, Feeding, Counted, Live
    <3> QED BY <2>3, <3>1, Fewer
  <2>5. Cardinality(Sharers(i)) <= Cardinality(Sharing(m))
        /\ Cardinality(Sharers(i)) \in Nat /\ Cardinality(Sharing(m)) \in Nat
    <3>1. Sharers(i) \subseteq Sharing(m)
      BY <2>1, <2>2 DEF Sharers, Sharing, Counted, Live
    <3> QED BY <2>3, <3>1, Fewer
  <2>6. Cardinality(LoadedFor(lib)) > 0
    <3>1. f \in LoadedFor(lib)
      BY <2>1, <2>2 DEF LoadedFor
    <3> QED BY <2>3, <3>1, Fewer
  <2>7. /\ pFeeds[f] = Cardinality(Feeding(f)) /\ pMutex[m] = Cardinality(Sharing(m))
        /\ loaded[lib] = Cardinality(LoadedFor(lib))
    <3>1. i \in Feeding(f) /\ i \in Sharing(m)
      BY <2>1, <2>2 DEF Feeding, Sharing, Counted
    <3>2. Exact(pFeeds[f], Feeding(f)) /\ Exact(pMutex[m], Sharing(m))
          /\ loaded[lib] = Cardinality(LoadedFor(lib))
      BY <2>1 DEF Counts
    <3> QED BY <3>1, <3>2 DEF Exact
  <2> QED BY <2>2, <2>4, <2>5, <2>6, <2>7
<1> QED BY <1>1, HotplugInvariance, PTL

\* Whatever failed while readers were added, RFAddReader() and removeReader()
\* balance the loads of the drivers: with the last reader all are unloaded; and
\* its counters have been freed, unless RFAddReader() could not load a driver.
THEOREM LeftBehind == Spec => []NothingLeftBehind
<1>1. raced \/ Inv => NothingLeftBehind
  <2> SUFFICES ASSUME Inv, Used = {}, \A t \in Threads : pc[t] = "idle"
               PROVE  /\ \A l \in Libraries : loaded[l] = 0
                      /\ "load" \notin driver.fails =>
                           \A o \in Objects : pFeeds[o] = 0 /\ pMutex[o] = 0
    BY DEF NothingLeftBehind, DriversAreUnloaded, CountersAreFreed, NoReaders
  <2>1. Live = {} /\ Counted = {} /\ Counts
    <3>1. Live = {}
      BY LiveIsUsed DEF Threads
    <3>2. \A i : ~Leaving(i)
      BY DEF Leaving
    <3> QED BY <3>1, <3>2 DEF Inv, Counted
  <2>2. \A o \in Objects : Feeding(o) = {} /\ Sharing(o) = {}
    BY <2>1 DEF Feeding, Sharing
  <2>3. \A l \in Libraries : LoadedFor(l) = {}
    BY <2>1 DEF LoadedFor, Live
  <2> QED BY <2>1, <2>2, <2>3, FS_EmptySet DEF Counts, Exact
<1> QED BY <1>1, HotplugInvariance, PTL

\* The Lun RFSetReaderName() makes of the number of a reader and of its slot
\* names one reader of a driver, however many readers and slots there are.
THEOREM DistinctChannels == Spec => []ChannelsAreDistinct
<1>1. raced \/ Inv => ChannelsAreDistinct
  <2> SUFFICES ASSUME Inv, NEW i \in Used, NEW k \in Used, i # k,
                      reader[i].library = reader[k].library,
                      reader[i].slot # -1, reader[i].slot = reader[k].slot
               PROVE  FALSE
    BY DEF ChannelsAreDistinct
  <2>1. /\ i \in Live /\ k \in Live /\ Numbers
        /\ reader[i] \in ReaderRecords /\ reader[k] \in ReaderRecords
    BY UsedIsLive DEF Inv, LifecycleTypes, Used
  <2>2. reader[k].slot # -1
    OBVIOUS
  <2>3. \A j \in Live : /\ \/ reader[j].slot = -1
                           \/ reader[j].slot = reader[j].number * 65536 + reader[j].sub
                        /\ reader[j].sub < 256
    BY <2>1 DEF Numbers
  <2>4. PICK n \in Nat, s \in Nat : n = reader[i].number /\ s = reader[i].sub
    BY <2>1 DEF ReaderRecords
  <2>5. PICK l \in Nat, u \in Nat : l = reader[k].number /\ u = reader[k].sub
    BY <2>1 DEF ReaderRecords
  <2>6. PICK x \in Int : x = reader[i].slot
    BY <2>1 DEF ReaderRecords
  <2>7. x = n * 65536 + s /\ s < 256
    BY <2>1, <2>3, <2>4, <2>6
  <2>8. x = l * 65536 + u /\ u < 256
    BY <2>1, <2>2, <2>3, <2>5, <2>6
  <2>9. n \in Nat /\ l \in Nat /\ s \in Nat /\ u \in Nat /\ x \in Int
    BY <2>4, <2>5, <2>6
  <2>10. n = l /\ s = u
    BY <2>7, <2>8, <2>9
  <2>11. reader[i].number = reader[k].number /\ reader[i].sub = reader[k].sub
    BY <2>4, <2>5, <2>10
  <2> QED BY <2>1, <2>11 DEF Numbers
<1> QED BY <1>1, HotplugInvariance, PTL

=============================================================================
