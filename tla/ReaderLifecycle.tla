-------------------------- MODULE ReaderLifecycle --------------------------
(***************************************************************************)
(* The life of a reader in pcscd: readerfactory.c adds it to and removes   *)
(* it from the table sReadersContexts, loads its driver and shares the     *)
(* driver and its mutex with the other readers that use it, counts the     *)
(* threads that refer to it, and with eventhandler.c starts and stops the  *)
(* thread that watches its slot.                                           *)
(*                                                                         *)
(* The threads that add and remove readers are described in Hotplug; a     *)
(* server thread finds a reader by its name or by a handle, holds a        *)
(* reference while it runs a command, and removes the reader when it gives *)
(* up the last one.  The readers are all of the same model, so that their  *)
(* names differ by their numbers only.  What a command does to a reader is *)
(* described in Winscard; of hLockId only the order to die matters here.   *)
(*                                                                         *)
(* No mutex guards the table or the counters.  The steps are the points at *)
(* which another thread can get in between: a reader is found and its      *)
(* reference counted, the count is decremented and read again, the driver  *)
(* is given up and its counters are decremented, an entry and a parent are *)
(* looked for and used.                                                    *)
(***************************************************************************)
EXTENDS Integers, FiniteSets, FiniteSetsExt

CONSTANTS
  Clients,       \* server threads
  Hotplugs,      \* threads that add and remove readers
  Libraries,     \* the drivers
  MaxReaders,    \* bound: entries of the table
  MaxCounters,   \* bound: counters that are allocated, and not freed
  Drivers        \* capabilities a driver may have, and how it may fail

ASSUME LifecycleAssumption ==
  /\ Clients \cap Hotplugs = {}
  /\ MaxReaders \in Nat /\ MaxReaders >= 2
  /\ MaxCounters \in Nat
  /\ Drivers \subseteq [threadSafe : BOOLEAN, slotThreadSafe : BOOLEAN,
                         killable : BOOLEAN, channels : 0..255, slots : 0..255,
                         fails : SUBSET {"load", "open", "spawn"}]

INITIAL_MAX_READERS_CONTEXTS == 2

Threads == Clients \cup Hotplugs
Entries == 0 .. MaxReaders - 1

NULL == 0                   \* a pointer to nothing
Objects == 1 .. MaxCounters \* the integers malloc() returns for pFeeds, pMutex
NoParent == -1

VARIABLES
  maxReaderContext,  \* pcsclite_max_reader_context
  reader,            \* sReadersContexts
  pFeeds,            \* readers that use a driver, by pointer
  pMutex,            \* readers that use a mutex, by pointer
  loaded,            \* how often each library is loaded
  driver,            \* TAG_IFD_* capabilities of the drivers
  evPc,              \* the event thread of each entry
  pc, job            \* the threads and their local variables

tableVars  == <<maxReaderContext, reader>>
sharedVars == <<pFeeds, pMutex, loaded, driver>>
lifecycleVars == <<tableVars, sharedVars, evPc, pc, job>>

\* An entry nobody uses.  removed is history: the table has given up its own
\* reference.
FreeEntry ==
  [vHandle |-> FALSE, library |-> "none", number |-> 0, sub |-> 0,
   port |-> 0, device |-> <<>>, slot |-> 0, feeds |-> NULL, mutex |-> NULL,
   reference |-> 0, removed |-> FALSE, thread |-> FALSE, hLockId |-> "0"]

\* What a thread remembers: the entry and the reader it is working on.
NoJob == [entry |-> 0, port |-> 0, device |-> <<>>, library |-> "none",
          first |-> 0, sub |-> 0, number |-> 0, parent |-> NoParent,
          rv |-> "SUCCESS"]

Goto(t, step) == pc' = [pc EXCEPT ![t] = step]

SetJob(t, j) == job' = [job EXCEPT ![t] = j]

\* The entries that hold a reader.
Used == {i \in Entries : i < maxReaderContext /\ reader[i].vHandle}

-----------------------------------------------------------------------------
\* RFAddReader()

\* Same name, same port and same device.
Duplicate(port, device) ==
  \E i \in Used : reader[i].port = port /\ reader[i].device = device

\* The first entry without vHandle, behind the table when there is none.
EmptyEntry ==
  Min({maxReaderContext} \cup
      {i \in Entries : i < maxReaderContext /\ ~reader[i].vHandle})

\* RFReAllocateReaderSpace(): the table has room for entry i.
RFReAllocateReaderSpace(i) ==
  maxReaderContext' = IF i = maxReaderContext
                      THEN maxReaderContext + INITIAL_MAX_READERS_CONTEXTS
                      ELSE maxReaderContext

\* RFSetReaderName(): the readers of the same library that count.
Clones(library, port) ==
  {i \in Used : /\ reader[i].library = library
                /\ reader[i].port # port \/ driver.channels > 1}

Parent(library, port) == Max(Clones(library, port))

\* Mutant: the readers are counted.
CountClones(library, port, size) == Cardinality(Clones(library, port))

\* The first number that is free, taking the size of the table after it has
\* grown.
ReaderNumber(library, port, size) ==
  IF Clones(library, port) = {} THEN 0
  ELSE Min(0..size \ {reader[i].number : i \in Clones(library, port)})

\* A number the table and the driver have room for.
NumberIsValid(library, port, size) ==
  Clones(library, port) # {} =>
    /\ ReaderNumber(library, port, size) < size
    /\ ReaderNumber(library, port, size) < driver.channels

\* malloc() of a counter.
Fresh(counters) == Min({o \in Objects : counters[o] = 0})

CountersLeft ==
  /\ \E o \in Objects : pFeeds[o] = 0
  /\ \E o \in Objects : pMutex[o] = 0

\* The values an entry takes from the reader it is a clone of: the driver, and
\* its mutex unless the driver is thread safe.
NewReader(j) ==
  LET clone == j.parent # NoParent
      parent == reader[j.parent]
  IN [FreeEntry EXCEPT
        !.library = j.library, !.number = j.number, !.port = j.port,
        !.device = j.device, !.slot = j.number * 65536, !.reference = 1,
        !.vHandle = clone /\ parent.vHandle,
        !.feeds = IF clone THEN parent.feeds ELSE Fresh(pFeeds),
        !.mutex = IF clone /\ ~driver.threadSafe THEN parent.mutex
                                                 ELSE Fresh(pMutex)]

\* The new reader counts among those of its driver.
CountFeeds(r) == pFeeds' = [pFeeds EXCEPT ![r.feeds] = @ + 1]

CountMutex(r) == pMutex' = [pMutex EXCEPT ![r.mutex] = @ + 1]

\* The search for an entry and RFSetReaderName(), which leaves the entry as it
\* is when it has no number for the reader.
AddReader(t) ==
  LET j == job[t]
      i == EmptyEntry
      size == IF i = maxReaderContext
              THEN maxReaderContext + INITIAL_MAX_READERS_CONTEXTS
              ELSE maxReaderContext
      clone == Clones(j.library, j.port) # {}
  IN /\ pc[t] = "add"
     /\ \/ /\ Duplicate(j.port, j.device)
           /\ SetJob(t, [j EXCEPT !.rv = "DUPLICATE_READER"])
           /\ Goto(t, "added")
           /\ UNCHANGED maxReaderContext
        \/ /\ ~Duplicate(j.port, j.device)
           /\ i \in Entries
           /\ RFReAllocateReaderSpace(i)
           /\ \/ /\ ~NumberIsValid(j.library, j.port, size)
                 /\ SetJob(t, [j EXCEPT !.rv = "NO_MEMORY"])
                 /\ Goto(t, "added")
              \/ /\ NumberIsValid(j.library, j.port, size)
                 /\ SetJob(t, [j EXCEPT
                      !.entry = i, !.first = i, !.sub = 0,
                      !.number = ReaderNumber(j.library, j.port, size),
                      !.parent = IF clone THEN Parent(j.library, j.port)
                                          ELSE NoParent])
                 /\ Goto(t, "fill")
     /\ UNCHANGED <<reader, sharedVars, evPc>>

\* The rest, up to the call of RFInitializeReader(): an entry is not seen before
\* it has a vHandle, so that this is where all its fields are set.  A counter
\* that has been freed in between is fatal.
FillEntry(t) ==
  LET r == NewReader(job[t])
  IN /\ pc[t] = "fill"
     /\ CountersLeft
     /\ r.feeds # NULL /\ r.mutex # NULL
     /\ reader' = [reader EXCEPT ![job[t].entry] = r]
     /\ CountFeeds(r)
     /\ CountMutex(r)
     /\ Goto(t, "load")
     /\ UNCHANGED <<maxReaderContext, loaded, driver, evPc, job>>

\* The reader could not be started: RFRemoveReader() for its name and port.
GiveUp(t, rv) ==
  /\ SetJob(t, [job[t] EXCEPT !.rv = rv, !.entry = 0])
  /\ Goto(t, "sweep")

\* RFLoadReader() and RFBindFunctions().  When either fails the counters of
\* the entry are lost: RFRemoveReader() does not see it without vHandle, and
\* the next reader that gets it has new ones.
RFLoadReader(t) ==
  LET i == job[t].entry
  IN /\ pc[t] = "load"
     /\ \/ /\ reader[i].vHandle
           /\ Goto(t, "open")
           /\ UNCHANGED <<reader, loaded, job>>
        \/ /\ ~reader[i].vHandle
           /\ reader' = [reader EXCEPT ![i].vHandle = TRUE]
           /\ loaded' = [loaded EXCEPT ![reader[i].library] = @ + 1]
           /\ Goto(t, "open")
           /\ UNCHANGED job
        \/ /\ ~reader[i].vHandle
           /\ "load" \in driver.fails
           /\ GiveUp(t, "UNKNOWN_ERROR")
           /\ UNCHANGED <<reader, loaded>>
     /\ UNCHANGED <<maxReaderContext, pFeeds, pMutex, driver, evPc>>

\* RFInitializeReader() and EHSpawnEventHandler(): IFDOpenIFD() opens the
\* device, if it is there.
StartReader(t, there) ==
  LET i == job[t].entry
  IN /\ pc[t] = "open"
     /\ \/ /\ there
           /\ reader' = [reader EXCEPT ![i].thread = TRUE]
           /\ evPc' = [evPc EXCEPT ![i] = "running"]
           /\ Goto(t, "nextSlot")
           /\ UNCHANGED job
        \/ /\ "open" \in driver.fails \/ ~there
           /\ reader' = [reader EXCEPT ![i].slot = -1]
           /\ \E rv \in {"INVALID_TARGET", "UNKNOWN_READER"} : GiveUp(t, rv)
           /\ UNCHANGED evPc
        \/ /\ "spawn" \in driver.fails
           /\ \E rv \in {"UNKNOWN_ERROR", "NO_MEMORY"} : GiveUp(t, rv)
           /\ UNCHANGED <<reader, evPc>>
     /\ UNCHANGED <<maxReaderContext, sharedVars>>

\* A further slot of the reader takes all but its number from the first one.
NewSlot(first, sub) ==
  [reader[first] EXCEPT
     !.sub = sub, !.slot = reader[first].slot + sub, !.reference = 1,
     !.removed = FALSE, !.thread = FALSE, !.hLockId = "0",
     !.mutex = IF driver.slotThreadSafe THEN Fresh(pMutex)
                                        ELSE reader[first].mutex]

AddSlot(t) ==
  LET j == job[t]
      i == EmptyEntry
  IN /\ pc[t] = "nextSlot"
     /\ j.sub + 1 < driver.slots
     /\ i \in Entries
     /\ RFReAllocateReaderSpace(i)
     /\ SetJob(t, [j EXCEPT !.entry = i, !.sub = @ + 1])
     /\ Goto(t, "fillSlot")
     /\ UNCHANGED <<reader, sharedVars, evPc>>

FillSlot(t) ==
  LET r == NewSlot(job[t].first, job[t].sub)
  IN /\ pc[t] = "fillSlot"
     /\ CountersLeft
     /\ r.feeds # NULL /\ r.mutex # NULL
     /\ reader' = [reader EXCEPT ![job[t].entry] = r]
     /\ CountFeeds(r)
     /\ CountMutex(r)
     /\ Goto(t, "load")
     /\ UNCHANGED <<maxReaderContext, loaded, driver, evPc, job>>

SlotsDone(t) ==
  /\ pc[t] = "nextSlot"
  /\ job[t].sub + 1 >= driver.slots
  /\ SetJob(t, [job[t] EXCEPT !.rv = "SUCCESS"])
  /\ Goto(t, "added")
  /\ UNCHANGED <<tableVars, sharedVars, evPc>>

-----------------------------------------------------------------------------
\* RFRemoveReader() and removeReader()

\* The name without its numbers and the port.
Matches(i, port) == i \in Used /\ reader[i].port = port

\* The end of RFRemoveReader(), which RFAddReader() may have called.
Swept(t) == Goto(t, IF job[t].rv = "SUCCESS" THEN "removed" ELSE "added")

\* What a thread does after _UnrefReader(): the loop over the table goes on,
\* the command is over.
AfterUnref(t, i) ==
  IF t \in Clients THEN Goto(t, "idle") /\ SetJob(t, NoJob)
  ELSE Goto(t, "sweep") /\ SetJob(t, [job[t] EXCEPT !.entry = i + 1])

\* _UnrefReader() tests and decrements the count, and then reads it again.
UnrefReader(t, i) ==
  IF reader[i].reference = 0
  THEN UNCHANGED reader /\ AfterUnref(t, i)
  ELSE /\ reader' = [reader EXCEPT ![i].reference = @ - 1,
                                   ![i].removed = @ \/ t \in Hotplugs]
       /\ SetJob(t, [job[t] EXCEPT !.entry = i])
       /\ Goto(t, "reread")

\* Nobody refers to the reader of entry i.
NoneLeft(i) == reader[i].reference = 0

LastReference(t) ==
  LET i == job[t].entry
  IN /\ pc[t] = "reread"
     /\ \/ NoneLeft(i) /\ Goto(t, "stomp") /\ UNCHANGED job
        \/ ~NoneLeft(i) /\ AfterUnref(t, i)
     /\ UNCHANGED <<tableVars, sharedVars, evPc>>

\* The readers the loop over the table has still to remove.
Remaining(t) == {i \in Entries : i >= job[t].entry /\ Matches(i, job[t].port)}

SweepEntry(t) ==
  LET i == Min(Remaining(t))
  IN /\ pc[t] = "sweep"
     /\ Remaining(t) # {}
     /\ UnrefReader(t, i)
     /\ UNCHANGED <<maxReaderContext, sharedVars, evPc>>

SweepDone(t) ==
  /\ pc[t] = "sweep"
  /\ Remaining(t) = {}
  /\ Swept(t)
  /\ UNCHANGED <<tableVars, sharedVars, evPc, job>>

\* EHDestroyEventHandler(): tells the event thread to die, and cancels it when
\* the driver lets it be cancelled.
EHDestroyEventHandler(t) ==
  LET i == job[t].entry
  IN /\ pc[t] = "stomp"
     /\ \/ /\ reader[i].thread
           /\ reader' = [reader EXCEPT ![i].hLockId = "0xFFFF"]
           /\ evPc' = IF driver.killable
                      THEN [evPc EXCEPT ![i] = "cancelled"] ELSE evPc
           /\ Goto(t, "join")
        \/ /\ ~reader[i].thread
           /\ Goto(t, "close")
           /\ UNCHANGED <<reader, evPc>>
     /\ UNCHANGED <<maxReaderContext, sharedVars, job>>

\* Mutant: nobody waits for the event thread.
NoJoin(i) == TRUE

\* The event thread of the entry has ended.
Joined(i) == evPc[i] = "none"

\* pthread_join()
Join(t) ==
  LET i == job[t].entry
  IN /\ pc[t] = "join"
     /\ Joined(i)
     /\ reader' = [reader EXCEPT ![i].thread = FALSE]
     /\ Goto(t, "close")
     /\ UNCHANGED <<maxReaderContext, sharedVars, evPc, job>>

\* Mutant: the counter is expected to have been decremented already.
AfterDecrement(r) == pFeeds[r.feeds] = 0

\* RFUnloadReader(): no one else is using this library.
LastFeed(r) == pFeeds[r.feeds] = 1

\* RFUnInitializeReader() gives up the driver: the entry is free from here on.
\* Nothing happens to a reader whose counters have been freed already.
RFUnInitializeReader(t) ==
  LET i == job[t].entry
      r == reader[i]
  IN /\ pc[t] = "close"
     /\ IF r.feeds = NULL \/ r.mutex = NULL
        THEN AfterUnref(t, i) /\ UNCHANGED <<reader, loaded>>
        ELSE /\ loaded' = IF r.vHandle /\ LastFeed(r)
                          THEN [loaded EXCEPT ![r.library] = @ - 1] ELSE loaded
             /\ reader' = [reader EXCEPT ![i].vHandle = FALSE]
             /\ Goto(t, "release")
             /\ UNCHANGED job
     /\ UNCHANGED <<maxReaderContext, pFeeds, pMutex, driver, evPc>>

\* Mutant: the last of the readers that share a mutex leaves it behind, and
\* the others destroy it.
FirstFrees(o) == [pMutex EXCEPT ![o] = 0]

\* free() when the last slot is closed.
ReleaseMutex(o) == [pMutex EXCEPT ![o] = @ - 1]

\* The pointer to a counter that has been decremented, and freed at 0.
Left(counters, o) == IF counters[o] = 0 THEN NULL ELSE o

\* The rest of removeReader(): the entry keeps the pointers to the counters
\* others still need.  A pointer that has become NULL is fatal.
ReleaseReader(t) ==
  LET i == job[t].entry
      r == reader[i]
  IN /\ pc[t] = "release"
     /\ r.feeds # NULL /\ r.mutex # NULL
     /\ pMutex' = ReleaseMutex(r.mutex)
     /\ pFeeds' = [pFeeds EXCEPT ![r.feeds] = @ - 1]
     /\ reader' = [reader EXCEPT ![i] =
          [FreeEntry EXCEPT !.reference = r.reference,
                            !.feeds = Left(pFeeds', r.feeds),
                            !.mutex = Left(pMutex', r.mutex)]]
     /\ AfterUnref(t, i)
     /\ UNCHANGED <<maxReaderContext, loaded, driver, evPc>>

-----------------------------------------------------------------------------
\* The event thread of entry i.

\* A round in which the card is found to have gone: RFSetReaderEventState()
\* takes the lock away from its owner, whoever that is.
EHCardRemoved(i) ==
  /\ evPc[i] = "running"
  /\ reader' = [reader EXCEPT ![i].hLockId = "0"]
  /\ UNCHANGED <<maxReaderContext, sharedVars, evPc, pc, job>>

\* A round that ends with the order to die.  Other rounds change nothing here.
EHOrderSeen(i) ==
  /\ evPc[i] = "running"
  /\ reader[i].hLockId = "0xFFFF"
  /\ evPc' = [evPc EXCEPT ![i] = "none"]
  /\ reader' = [reader EXCEPT ![i].hLockId = "0"]
  /\ UNCHANGED <<maxReaderContext, sharedVars, pc, job>>

\* pthread_cancel() takes effect.
EHCancelled(i) ==
  /\ evPc[i] = "cancelled"
  /\ evPc' = [evPc EXCEPT ![i] = "none"]
  /\ UNCHANGED <<tableVars, sharedVars, pc, job>>

EventThread(i) == EHCardRemoved(i) \/ EHOrderSeen(i) \/ EHCancelled(i)

-----------------------------------------------------------------------------
\* A server thread.

\* Mutant: the reference is not counted.
ForgetReference(i) == UNCHANGED reader

\* The increment of _RefReader().
RefReader(i) == reader' = [reader EXCEPT ![i].reference = @ + 1]

\* RFReaderInfo() and RFReaderInfoById() find a reader with references.
RFReaderInfo(c, i) ==
  /\ pc[c] = "idle"
  /\ i \in Used
  /\ reader[i].reference # 0
  /\ SetJob(c, [NoJob EXCEPT !.entry = i])
  /\ Goto(c, "found")
  /\ UNCHANGED <<tableVars, sharedVars, evPc>>

\* ... and take one more.
ReaderIsHeld(c) ==
  /\ pc[c] = "found"
  /\ RefReader(job[c].entry)
  /\ Goto(c, "holding")
  /\ UNCHANGED <<maxReaderContext, sharedVars, evPc, job>>

\* The command ends with RFUnrefReader().
RFUnrefReader(c) ==
  /\ pc[c] = "holding"
  /\ UnrefReader(c, job[c].entry)
  /\ UNCHANGED <<maxReaderContext, sharedVars, evPc>>

Client(c) ==
  (\E i \in Entries : RFReaderInfo(c, i)) \/ ReaderIsHeld(c) \/ RFUnrefReader(c)

\* removeReader() by any thread that has given up the last reference.
RemoveReader(t) ==
  \/ LastReference(t) \/ EHDestroyEventHandler(t) \/ Join(t)
  \/ RFUnInitializeReader(t) \/ ReleaseReader(t)

-----------------------------------------------------------------------------
LifecycleInit ==
  /\ maxReaderContext = INITIAL_MAX_READERS_CONTEXTS
  /\ reader = [i \in Entries |-> FreeEntry]
  /\ pFeeds = [o \in Objects |-> 0]
  /\ pMutex = [o \in Objects |-> 0]
  /\ loaded = [l \in Libraries |-> 0]
  /\ driver \in Drivers
  /\ evPc = [i \in Entries |-> "none"]
  /\ pc = [t \in Threads |-> "idle"]
  /\ job = [t \in Threads |-> NoJob]

=============================================================================
