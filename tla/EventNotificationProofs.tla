----------------------- MODULE EventNotificationProofs -----------------------
(***************************************************************************)
(* Proofs about EventNotification: what is in a socket when client and     *)
(* server have crossed, who is in ClientsWaitingForEvent, and that no      *)
(* change is lost.                                                         *)
(*                                                                         *)
(* The core is a balance.  Replies have no header, so it does not matter   *)
(* for how much the client will read which message comes first: the words  *)
(* in the socket, those of the replies still to be written and the two     *)
(* words every registration leads to are together what the client has yet  *)
(* to read.                                                                *)
(***************************************************************************)
EXTENDS EventNotification, TLAPS, FiniteSetTheorems

USE DEF server, daemon, sockets, client

WAIT   == "WAIT_READER_STATE_CHANGE"
STOP   == "STOP_WAITING"
EVENTS == "GET_READER_EVENTS"
SIZE   == "GET_READERS_STATE_SIZE"
ARRAY  == "GET_READERS_STATE_ARRAY"

CommandNames == {WAIT, STOP, EVENTS, SIZE, ARRAY}

\* The queues of commands there are, by name: the provers reason about names.
qNone         == << >>
qStop         == <<STOP>>
qSize         == <<SIZE>>
qArray        == <<ARRAY>>
qEvents       == <<EVENTS>>
qStopSize     == <<STOP, SIZE>>
qWaitSize     == <<WAIT, SIZE>>
qEventsStop   == <<EVENTS, STOP>>
qSizeStop     == <<SIZE, STOP>>
qStopWaitSize == <<STOP, WAIT, SIZE>>

\* The commands a client may have on their way at each of its steps.
IdleQueues  == {qNone, qStop}
SizeQueues  == {qNone, qSize, qStopSize, qWaitSize,
                qStopWaitSize}
ArrayQueues == {qNone, qArray}
EventQueues == {qNone, qEvents}
StopQueues  == {qNone, qStop, qEventsStop}
EndQueues   == StopQueues \cup {qSizeStop}

Queues == SizeQueues \cup ArrayQueues \cup EventQueues \cup EndQueues

\* The words the answers to the commands of a queue have; a registration is
\* counted apart.
QueuedWords(q) ==
  IF q \in {qSize, qStopSize, qWaitSize, qStopWaitSize,
            qSizeStop} THEN 1
  ELSE IF q \in {qEvents, qEventsStop} THEN 2
  ELSE IF q = qArray THEN 4 * Slots ELSE 0

\* What is left of MSGSendReaderStates().
EntryWords(i) == IF i = 0 THEN 0 ELSE 4 * (Slots + 1 - i)

\* Registrations of client c: a command on its way, an entry of the list, or
\* a cancellation that has taken the entry.
Asked(q) == IF q \in {qWaitSize, qStopWaitSize} THEN 1 ELSE 0

Registrations(c) ==
  Asked(toServer[c]) + waiting[c] + (IF cancel[c] = "signal" THEN 1 ELSE 0)

\* The words client c has yet to get, and those it has yet to read.
Owed(c) ==
  Len(toClient[c]) + QueuedWords(toServer[c]) + EntryWords(sending[c])
    + 2 * Registrations(c)

DueFor(op, step) ==
  (IF op = "GET_STATUS_CHANGE" THEN 2 ELSE 0)
  + (IF step = "size" THEN 1 ELSE
     IF step = "array" THEN 4 * Slots ELSE
     IF step \in {"firstEvents", "events"} THEN 2 ELSE 0)

Due(c) == DueFor(call[c].op, pc[c])

QueueOK(c) ==
  LET q == toServer[c] IN
  /\ pc[c] = "idle" => q \in IdleQueues
  /\ pc[c] = "size" => q \in SizeQueues
  /\ pc[c] = "array" => q \in ArrayQueues
  /\ pc[c] \in {"firstEvents", "events", "wait"} => q \in EventQueues
  /\ pc[c] = "stop" => q \in StopQueues
  /\ pc[c] = "endStop" => q \in EndQueues

\* What the call of a client is at each step.
OpOK(c) ==
  /\ pc[c] = "idle" <=> call[c].op = "NONE"
  /\ call[c].op = "LIST_READERS" =>
       pc[c] \in {"size", "array"} /\ Registrations(c) = 0
  /\ call[c].op = "GET_STATUS_CHANGE" => toServer[c] # qStopSize
  /\ maxContexts[c] \in {0, Slots}
  /\ pc[c] = "array" \/ call[c].op = "GET_STATUS_CHANGE" =>
       maxContexts[c] = Slots

\* The words the client looks at: a size is the size, or the start of a
\* notification; and the last word of a reply in which a notification has got
\* is taken for its result.
WordsOK(c) ==
  /\ pc[c] = "size" /\ toClient[c] # << >> =>
       \/ toClient[c][1] = Slots /\ toServer[c] = qNone
       \/ toClient[c][1] = 0 /\ call[c].op = "GET_STATUS_CHANGE"
  /\ /\ pc[c] \in {"array", "firstEvents", "events", "wait", "stop"}
     /\ call[c].op = "GET_STATUS_CHANGE"
     /\ Len(toClient[c]) = Due(c)
     => toClient[c][Len(toClient[c])] \in {SCARD_S_SUCCESS, SCARD_E_CANCELLED}

OpenOK(c) ==
  /\ pc[c] # "dead" /\ QueueOK(c) /\ OpOK(c) /\ WordsOK(c)
  /\ Owed(c) = Due(c) /\ Registrations(c) <= 1

DeadOK(c) ==
  /\ pc[c] = "dead" /\ toServer[c] \in Queues /\ call[c] = NoCall
  /\ toClient[c] = << >> /\ cancel[c] = "idle"
  /\ Asked(toServer[c]) = 1 \/ toServer[c] \in {qEvents, qEventsStop}
       => waiting[c] = 0

ClosedOK(c) ==
  /\ pc[c] = "dead" /\ toClient[c] = << >> /\ cancel[c] = "idle" /\ sending[c] = 0
  /\ waiting[c] = 0 /\ call[c] = NoCall

ClientOK(c) ==
  /\ session[c] = "open" => OpenOK(c)
  /\ session[c] = "dead" => DeadOK(c)
  /\ session[c] = "closed" => ClosedOK(c)

\* Nobody has died while a cancellation is under way.
FaultsOK ==
  /\ MortalAt = {} => \A c \in Clients : session[c] = "open"
  /\ MaxFaults <= 1 =>
       /\ faults = 0 => \A c \in Clients : session[c] = "open" /\ cancel[c] = "idle"
       /\ \A c \in Clients : cancel[c] # "idle" =>
            \A d \in Clients : session[d] = "open"

ReadersOK ==
  /\ \A r \in 1 .. Slots : Len(readers[r]) = 4
  /\ readers[Slots] = NoReader

CallRecords ==
  [op : {"NONE", "LIST_READERS", "GET_STATUS_CHANGE"},
   want : SUBSET (PnP .. Slots), infinite : BOOLEAN, first : BOOLEAN,
   timedOut : BOOLEAN, rv : Nat,
   event : UNION {[S -> Nat] : S \in SUBSET (PnP .. Slots)}, count : Nat]

Types == TypeOK /\ call \in [Clients -> CallRecords] /\ ReadersOK

\* What a registered client has read is what is, or a signal is to come.
FreshOK(c) ==
  session[c] = "open" /\ waiting[c] = 1 /\ pending = 0 /\ hotplug # "signal" =>
    /\ pc[c] = "array" =>
         \A j \in 1 .. Len(toClient[c]) : toClient[c][j] = Current[j]
    /\ pc[c] \in {"firstEvents", "events", "wait"} => states[c] = Current

IInv == Types /\ FaultsOK /\ \A c \in Clients : ClientOK(c) /\ FreshOK(c)

-----------------------------------------------------------------------------
\* What the queues are made of.

\* The length and the commands of each queue.
LEMMA QueueParts ==
  /\ Len(qStop) = 1 /\ Len(qSize) = 1 /\ Len(qArray) = 1
  /\ Len(qEvents) = 1 /\ Len(qStopSize) = 2
  /\ Len(qWaitSize) = 2 /\ Len(qEventsStop) = 2
  /\ Len(qSizeStop) = 2 /\ Len(qStopWaitSize) = 3
  /\ Len(qNone) = 0
  /\ qStop[1] = STOP /\ qSize[1] = SIZE /\ qArray[1] = ARRAY
  /\ qEvents[1] = EVENTS /\ qStopSize[1] = STOP
  /\ qWaitSize[1] = WAIT /\ qEventsStop[1] = EVENTS
  /\ qSizeStop[1] = SIZE /\ qStopWaitSize[1] = STOP
BY DEF qNone, qStop, qSize, qArray, qEvents, qStopSize,
         qWaitSize, qEventsStop, qSizeStop, qStopWaitSize

\* The commands are different.
LEMMA Names ==
  /\ WAIT # STOP /\ WAIT # EVENTS /\ WAIT # SIZE /\ WAIT # ARRAY
  /\ STOP # EVENTS /\ STOP # SIZE /\ STOP # ARRAY
  /\ EVENTS # SIZE /\ EVENTS # ARRAY /\ SIZE # ARRAY
  BY DEF WAIT, STOP, EVENTS, SIZE, ARRAY

\* What is left of a queue when the thread has taken a command.
LEMMA QueueTails ==
  /\ Tail(qStop) = qNone /\ Tail(qSize) = qNone
  /\ Tail(qArray) = qNone /\ Tail(qEvents) = qNone
  /\ Tail(qStopSize) = qSize /\ Tail(qWaitSize) = qSize
  /\ Tail(qEventsStop) = qStop /\ Tail(qSizeStop) = qStop
  /\ Tail(qStopWaitSize) = qWaitSize
BY DEF qNone, qStop, qSize, qArray, qEvents, qStopSize,
         qWaitSize, qEventsStop, qSizeStop, qStopWaitSize

\* What a queue is when the client has sent one more command.
LEMMA QueueSends ==
  /\ qNone \o qStop = qStop /\ qNone \o qSize = qSize
  /\ qNone \o qArray = qArray /\ qNone \o qEvents = qEvents
  /\ qNone \o qWaitSize = qWaitSize
  /\ qStop \o qSize = qStopSize
  /\ qStop \o qWaitSize = qStopWaitSize
  /\ qEvents \o qStop = qEventsStop
  /\ qSize \o qStop = qSizeStop
<1>1. \A x : << >> \o <<x>> = <<x>>
  OBVIOUS
<1>2. ASSUME NEW S, NEW x \in S, NEW y \in S
      PROVE  << >> \o <<x, y>> = <<x, y>> /\ <<x>> \o <<y>> = <<x, y>>
  <2> DEFINE s == <<x, y>>
             t == <<x>> \o <<y>>
             u == << >> \o <<x, y>>
  <2>1. s \in Seq(S) /\ Len(s) = 2 /\ s[1] = x /\ s[2] = y
    OBVIOUS
  <2>2. t \in Seq(S) /\ Len(t) = 2 /\ t[1] = x /\ t[2] = y
    OBVIOUS
  <2>3. u \in Seq(S) /\ Len(u) = 2 /\ u[1] = x /\ u[2] = y
    OBVIOUS
  <2> HIDE DEF s, t, u
  <2>4. s = t /\ s = u
    BY <2>1, <2>2, <2>3
  <2> QED
    BY <2>4 DEF s, t, u
<1>3. ASSUME NEW S, NEW x \in S, NEW y \in S, NEW z \in S
      PROVE  <<x>> \o <<y, z>> = <<x, y, z>>
  <2> DEFINE s == <<x, y, z>>
             t == <<x>> \o <<y, z>>
  <2>1. s \in Seq(S) /\ Len(s) = 3 /\ s[1] = x /\ s[2] = y /\ s[3] = z
    OBVIOUS
  <2>2. t \in Seq(S) /\ Len(t) = 3 /\ t[1] = x /\ t[2] = y /\ t[3] = z
    OBVIOUS
  <2> HIDE DEF s, t
  <2>4. s = t
    BY <2>1, <2>2
  <2> QED
    BY <2>4 DEF s, t
<1>4. {STOP, SIZE, ARRAY, EVENTS, WAIT} \subseteq CommandNames
  BY DEF CommandNames
<1> HIDE DEF CommandNames
<1>5. \A x \in CommandNames : << >> \o <<x>> = <<x>>
  BY <1>1
<1>6. \A x, y \in CommandNames : << >> \o <<x, y>> = <<x, y>> /\ <<x>> \o <<y>> = <<x, y>>
  BY <1>2
<1>7. \A x, y, z \in CommandNames : <<x>> \o <<y, z>> = <<x, y, z>>
  BY <1>3
<1> QED
  BY <1>4, <1>5, <1>6, <1>7, Zenon
  DEF qNone, qStop, qSize, qArray, qEvents, qStopSize,
         qWaitSize, qEventsStop, qSizeStop, qStopWaitSize

\* Which queue has which command first.
LEMMA QueueHeads ==
  ASSUME NEW q \in Queues, q # qNone
  PROVE  /\ Head(q) = WAIT => q = qWaitSize
         /\ Head(q) = STOP => q \in {qStop, qStopSize, qStopWaitSize}
         /\ Head(q) = EVENTS => q \in {qEvents, qEventsStop}
         /\ Head(q) = SIZE => q \in {qSize, qSizeStop}
         /\ Head(q) = ARRAY => q = qArray
<1>1. Head(q) = q[1]
  BY DEF qNone, qStop, qSize, qArray, qEvents, qStopSize,
         qWaitSize, qEventsStop, qSizeStop, qStopWaitSize,
          Queues, SizeQueues, ArrayQueues, EventQueues, EndQueues, StopQueues
<1> QED
  BY <1>1, QueueParts, Names
     DEF Queues, SizeQueues, ArrayQueues, EventQueues, EndQueues, StopQueues

\* The queues are different.
LEMMA QueuesDiffer ==
  /\ qStop # qSize /\ qStop # qArray /\ qStop # qEvents
  /\ qSize # qArray /\ qSize # qEvents /\ qArray # qEvents
  /\ qStopSize # qWaitSize /\ qStopSize # qEventsStop
  /\ qStopSize # qSizeStop /\ qWaitSize # qEventsStop
  /\ qWaitSize # qSizeStop /\ qEventsStop # qSizeStop
  /\ \A q \in {qStop, qSize, qArray, qEvents} :
       /\ q # qNone /\ q # qStopWaitSize
       /\ q \notin {qStopSize, qWaitSize, qEventsStop,
                    qSizeStop}
  /\ \A q \in {qStopSize, qWaitSize, qEventsStop,
                qSizeStop} : q # qNone /\ q # qStopWaitSize
  /\ qStopWaitSize # qNone
<1>1. /\ qStop # qSize /\ qStop # qArray /\ qStop # qEvents
      /\ qSize # qArray /\ qSize # qEvents /\ qArray # qEvents
  BY QueueParts, Names
<1>2. /\ qStopSize # qWaitSize /\ qStopSize # qEventsStop
      /\ qStopSize # qSizeStop /\ qWaitSize # qEventsStop
      /\ qWaitSize # qSizeStop /\ qEventsStop # qSizeStop
  BY QueueParts, Names
<1>3. ASSUME NEW q \in {qStop, qSize, qArray, qEvents}
      PROVE  /\ q # qNone /\ q # qStopWaitSize /\ q # qStopSize
             /\ q # qWaitSize /\ q # qEventsStop /\ q # qSizeStop
  <2>1. Len(q) = 1
    BY QueueParts
  <2> QED
    BY <2>1, QueueParts
<1>4. ASSUME NEW q \in {qStopSize, qWaitSize, qEventsStop, qSizeStop}
      PROVE  q # qNone /\ q # qStopWaitSize
  <2>1. Len(q) = 2
    BY QueueParts
  <2>2. \A x : Len(x) = 2 => x # qNone /\ x # qStopWaitSize
    BY QueueParts
  <2> QED
    BY <2>1, <2>2
<1>5. qStopWaitSize # qNone
  BY QueueParts
<1> QED
  BY <1>1, <1>2, <1>3, <1>4, <1>5

\* How many words the answers to a queue have, and the registrations in it.
LEMMA QueueCounts ==
  /\ QueuedWords(qNone) = 0 /\ QueuedWords(qStop) = 0
  /\ QueuedWords(qSize) = 1 /\ QueuedWords(qStopSize) = 1
  /\ QueuedWords(qWaitSize) = 1 /\ QueuedWords(qStopWaitSize) = 1
  /\ QueuedWords(qSizeStop) = 1 /\ QueuedWords(qEvents) = 2
  /\ QueuedWords(qEventsStop) = 2 /\ QueuedWords(qArray) = 4 * Slots
  /\ Asked(qNone) = 0 /\ Asked(qStop) = 0 /\ Asked(qSize) = 0
  /\ Asked(qStopSize) = 0 /\ Asked(qWaitSize) = 1
  /\ Asked(qStopWaitSize) = 1 /\ Asked(qSizeStop) = 0
  /\ Asked(qEvents) = 0 /\ Asked(qEventsStop) = 0
  /\ Asked(qArray) = 0
<1>1. /\ QueuedWords(qNone) = 0 /\ QueuedWords(qStop) = 0
      /\ QueuedWords(qEvents) = 2 /\ QueuedWords(qEventsStop) = 2
      /\ QueuedWords(qArray) = 4 * Slots
  BY QueuesDiffer DEF QueuedWords
<1>2. /\ QueuedWords(qSize) = 1 /\ QueuedWords(qStopSize) = 1
      /\ QueuedWords(qWaitSize) = 1 /\ QueuedWords(qStopWaitSize) = 1
      /\ QueuedWords(qSizeStop) = 1
  BY QueuesDiffer DEF QueuedWords
<1>3. /\ Asked(qNone) = 0 /\ Asked(qStop) = 0 /\ Asked(qSize) = 0
      /\ Asked(qStopSize) = 0 /\ Asked(qSizeStop) = 0
      /\ Asked(qEvents) = 0 /\ Asked(qEventsStop) = 0
      /\ Asked(qArray) = 0
  BY QueuesDiffer DEF Asked
<1>4. Asked(qWaitSize) = 1 /\ Asked(qStopWaitSize) = 1
  BY DEF Asked
<1> QED
  BY <1>1, <1>2, <1>3, <1>4

\* The table has at least one slot; how many words of it are left.
LEMMA Sizes ==
  /\ Slots \in Nat /\ Slots > 0
  /\ EntryWords(0) = 0
  /\ \A i \in 1 .. Slots : EntryWords(i) = 4 * (Slots + 1 - i)
  /\ \A i \in 0 .. Slots : \E x \in Nat : EntryWords(i) = x
<1>1. /\ Slots \in Nat /\ Slots > 0
      /\ EntryWords(0) = 0
      /\ \A i \in 1 .. Slots : EntryWords(i) = 4 * (Slots + 1 - i)
  BY ConstantsAssumption DEF EntryWords
<1>2. ASSUME NEW i \in 0 .. Slots PROVE \E x \in Nat : EntryWords(i) = x
  <2>1. CASE i = 0
    BY <1>1, <2>1
  <2>2. CASE i # 0
    <3>1. 4 * (Slots + 1 - i) \in Nat /\ i \in 1 .. Slots
      BY <1>1, <2>2
    <3>2. EntryWords(i) = 4 * (Slots + 1 - i)
      BY <1>1, <3>1
    <3> QED
      BY <3>1, <3>2
  <2> QED
    BY <2>1, <2>2
<1> QED
  BY <1>1, <1>2

\* While the thread sends entries there are at least the words of one left.
LEMMA SendingWords ==
  ASSUME NEW i \in 0 .. Slots, NEW e \in Nat, EntryWords(i) = e
  PROVE  \/ i = 0 /\ e = 0
         \/ i \in 1 .. Slots /\ e = 4 * (Slots + 1 - i) /\ e >= 4
<1>1. CASE i = 0
  BY <1>1, Sizes
<1>2. CASE i # 0
  <2>1. i \in 1 .. Slots
    BY <1>2, Sizes
  <2>2. EntryWords(i) = 4 * (Slots + 1 - i)
    BY <2>1, Sizes
  <2> QED
    BY <2>1, <2>2, Sizes
<1> QED
  BY <1>1, <1>2

-----------------------------------------------------------------------------
\* The clients a step does not touch.

Same(d) ==
  /\ waiting'[d] = waiting[d] /\ session'[d] = session[d]
  /\ sending'[d] = sending[d] /\ cancel'[d] = cancel[d]
  /\ toServer'[d] = toServer[d] /\ toClient'[d] = toClient[d]
  /\ pc'[d] = pc[d] /\ call'[d] = call[d]
  /\ maxContexts'[d] = maxContexts[d] /\ states'[d] = states[d]

\* A client no variable of which changes.
LEMMA SameClientOK ==
  ASSUME NEW d, ClientOK(d), Same(d)
  PROVE  ClientOK(d)'
BY DEF Same, ClientOK, OpenOK, DeadOK, ClosedOK, QueueOK, OpOK, WordsOK,
       Owed, Due, Registrations

\* So is what it has read, unless a reader changes.
LEMMA SameFreshOK ==
  ASSUME NEW d, FreshOK(d), Same(d), readers' = readers,
         pending' = 0 /\ hotplug' # "signal" => pending = 0 /\ hotplug # "signal"
  PROVE  FreshOK(d)'
<1>1. Current' = Current
  BY DEF Current
<1> HIDE DEF Current
<1> QED
  BY <1>1 DEF Same, FreshOK

\* A step of one client or of its thread.
LEMMA LocalStep ==
  ASSUME IInv, NEW c \in Clients, UNCHANGED server,
         \A d \in Clients \ {c} : Same(d), Types', FaultsOK',
         ClientOK(c)', FreshOK(c)'
  PROVE  IInv'
<1>1. ASSUME NEW d \in Clients PROVE ClientOK(d)' /\ FreshOK(d)'
  <2>1. CASE d = c
    BY <2>1
  <2>2. CASE d # c
    <3>1. ClientOK(d) /\ FreshOK(d) /\ Same(d)
      BY <2>2 DEF IInv
    <3>2. readers' = readers /\ pending' = pending /\ hotplug' = hotplug
      OBVIOUS
    <3> QED
      BY <3>1, <3>2, SameClientOK, SameFreshOK
  <2> QED
    BY <2>1, <2>2
<1> QED
  BY <1>1 DEF IInv

\* Nobody dies, and nobody cancels.
LEMMA SameFaults ==
  ASSUME FaultsOK, UNCHANGED <<session, cancel, faults>>
  PROVE  FaultsOK'
BY DEF FaultsOK

\* A step of the client: the server does nothing.
LEMMA ClientStepLocal ==
  ASSUME IInv, NEW c \in Clients, UNCHANGED <<server, daemon>>,
         \A d \in Clients \ {c} : Same(d), Types',
         ClientOK(c)', FreshOK(c)'
  PROVE  IInv'
<1>1. FaultsOK'
  BY SameFaults DEF IInv
<1> QED
  BY <1>1, LocalStep

\* Only clients that are there take steps.
LEMMA AliveIsOpen ==
  ASSUME Types, NEW c \in Clients, ClientOK(c), pc[c] # "dead"
  PROVE  session[c] = "open" /\ OpenOK(c)
BY DEF ClientOK, DeadOK, ClosedOK, Types, TypeOK

\* What MessageReceive() leaves in the socket.
LEMMA Received ==
  ASSUME NEW w \in Seq(Nat), NEW n \in Nat, n <= Len(w)
  PROVE  /\ SubSeq(w, 1, n) \in Seq(Nat) /\ Len(SubSeq(w, 1, n)) = n
         /\ \A i \in 1 .. n : SubSeq(w, 1, n)[i] = w[i]
         /\ SubSeq(w, n + 1, Len(w)) \in Seq(Nat)
         /\ Len(SubSeq(w, n + 1, Len(w))) = Len(w) - n
         /\ \A i \in 1 .. Len(w) - n : SubSeq(w, n + 1, Len(w))[i] = w[n + i]
  OBVIOUS

\* The end of a round: the client waits, or asks to be unregistered.  All it
\* has yet to get is one message.
Leave(c, w, q, r, e, x) ==
  /\ w \in Seq(Nat) /\ q \in EventQueues /\ r \in {0, 1} /\ e \in Nat
  /\ x \in Nat
  /\ session'[c] = "open" /\ toClient'[c] = w
  /\ waiting'[c] \in Nat
  /\ r = waiting'[c] + (IF cancel'[c] = "signal" THEN 1 ELSE 0)
  /\ e = EntryWords(sending'[c])
  /\ QueuedWords(q) = x /\ Len(w) + x + e + 2 * r = 2
  /\ Len(w) = 2 => w[2] \in {SCARD_S_SUCCESS, SCARD_E_CANCELLED}
  /\ call'[c].op = "GET_STATUS_CHANGE" /\ maxContexts'[c] = Slots
  /\ \/ pc'[c] = "wait" /\ toServer'[c] = q
     \/ /\ pc'[c] \in {"stop", "endStop"}
        /\ toServer'[c] = IF q = qNone THEN qStop ELSE qEventsStop

\* The client goes on to wait, or asks to be taken off the list.
LEMMA Leaves ==
  ASSUME NEW c \in Clients, NEW w, NEW q, NEW r, NEW e, NEW x,
         Leave(c, w, q, r, e, x)
  PROVE  ClientOK(c)'
<1> USE DEF Leave
<1>1. q = qNone \/ q = qEvents
  BY DEF EventQueues
<1>2. QueuedWords(toServer'[c]) = x /\ Asked(toServer'[c]) = 0
  BY <1>1, QueueCounts
<1>4. Registrations(c)' = r
  BY <1>2 DEF Registrations
<1>3. Due(c)' = 2
  <2>1. /\ pc'[c] # "size" /\ pc'[c] # "array"
        /\ pc'[c] \notin {"firstEvents", "events"}
    OBVIOUS
  <2>2. Due(c)' = 2 + 0
    BY <2>1, Zenon DEF Due, DueFor
  <2> QED
    BY <2>2
<1>5. Owed(c)' = 2
  BY <1>2, <1>4 DEF Owed
<1>6. QueueOK(c)'
  BY <1>1 DEF QueueOK, StopQueues, EndQueues, EventQueues
<1>7. OpOK(c)'
  BY <1>1, <1>4, QueuesDiffer DEF OpOK
<1>8. WordsOK(c)'
  BY <1>3 DEF WordsOK
<1>9. session'[c] = "open" /\ pc'[c] # "dead" /\ r \in {0, 1}
  BY Zenon
<1> HIDE DEF Leave
<1> QED
  BY <1>9, <1>3, <1>4, <1>5, <1>6, <1>7, <1>8 DEF ClientOK, OpenOK

-----------------------------------------------------------------------------
\* The balance, in numbers.

\* How many words a client has yet to read at each step.
LEMMA DueWords ==
  /\ DueFor("NONE", "idle") = 0
  /\ DueFor("LIST_READERS", "size") = 1
  /\ DueFor("LIST_READERS", "array") = 4 * Slots
  /\ DueFor("GET_STATUS_CHANGE", "size") = 3
  /\ DueFor("GET_STATUS_CHANGE", "array") = 2 + 4 * Slots
  /\ \A p \in {"firstEvents", "events"} : DueFor("GET_STATUS_CHANGE", p) = 4
  /\ \A p \in {"wait", "stop", "endStop"} : DueFor("GET_STATUS_CHANGE", p) = 2
<1>1. 4 * Slots \in Nat
  BY Sizes
<1>2. /\ DueFor("NONE", "idle") = 0 + 0
      /\ DueFor("LIST_READERS", "size") = 0 + 1
      /\ DueFor("LIST_READERS", "array") = 0 + 4 * Slots
      /\ DueFor("GET_STATUS_CHANGE", "size") = 2 + 1
      /\ DueFor("GET_STATUS_CHANGE", "array") = 2 + 4 * Slots
      /\ \A p \in {"firstEvents", "events"} :
            DueFor("GET_STATUS_CHANGE", p) = 2 + 2
      /\ \A p \in {"wait", "stop", "endStop"} :
            DueFor("GET_STATUS_CHANGE", p) = 2 + 0
  BY DEF DueFor
<1> QED
  BY <1>1, <1>2

Signals(g) == IF g = "signal" THEN 1 ELSE 0

\* The commands on their way are one of the queues.
LEMMA OpenQueues ==
  ASSUME Types, NEW c \in Clients, OpenOK(c)
  PROVE  toServer[c] \in Queues
<1>1. pc[c] \in {"idle", "size", "array", "firstEvents", "events", "wait",
                "stop", "endStop"}
  BY DEF OpenOK, Types, TypeOK
<1> QED
  BY <1>1 DEF OpenOK, QueueOK, Queues, IdleQueues, SizeQueues, ArrayQueues,
     EventQueues, StopQueues, EndQueues

\* The words and registrations of a queue are numbers.
LEMMA QueueValues ==
  ASSUME NEW q \in Queues
  PROVE  /\ \E n \in Nat : QueuedWords(q) = n
         /\ \E a \in {0, 1} : Asked(q) = a
<1>1. q \in {qNone, qStop, qSize, qArray, qEvents, qStopSize, qWaitSize,
            qEventsStop, qSizeStop, qStopWaitSize}
  BY DEF Queues, SizeQueues, ArrayQueues, EventQueues, StopQueues, EndQueues
<1>2. 4 * Slots \in Nat /\ 0 \in Nat /\ 1 \in Nat /\ 2 \in Nat
  BY Sizes
<1> QED
  BY <1>1, <1>2, QueueCounts, Zenon

\* What there is to read, and why.
Account(c, l, n, a, e, g, v) ==
  /\ Len(toClient[c]) = l
  /\ QueuedWords(toServer[c]) = n
  /\ Asked(toServer[c]) = a
  /\ EntryWords(sending[c]) = e
  /\ Signals(cancel[c]) = g
  /\ waiting[c] = v
  /\ Registrations(c) = a + v + g
  /\ Due(c) = l + n + e + 2 * (a + v + g)
  /\ a + v + g <= 1

\* The balance of a client, with a name for each of its parts.
LEMMA Books ==
  ASSUME Types, NEW c \in Clients, OpenOK(c)
  PROVE  \E l \in Nat, n \in Nat, a \in {0, 1}, e \in Nat, g \in {0, 1},
            v \in {0, 1} : Account(c, l, n, a, e, g, v)
<1>1. PICK n \in Nat : QueuedWords(toServer[c]) = n
  BY OpenQueues, QueueValues
<1>2. PICK a \in {0, 1} : Asked(toServer[c]) = a
  BY OpenQueues, QueueValues
<1>3. PICK e \in Nat : EntryWords(sending[c]) = e
  <2>1. sending[c] \in 0 .. Slots
    BY DEF Types, TypeOK
  <2> QED
    BY <2>1, Sizes
<1>4. PICK g \in {0, 1} : Signals(cancel[c]) = g
  BY DEF Signals
<1>5. PICK v \in {0, 1} : waiting[c] = v
  BY DEF Types, TypeOK
<1>6. PICK l \in Nat : Len(toClient[c]) = l
  BY DEF Types, TypeOK
<1>7. Registrations(c) = a + v + g
  BY <1>2, <1>4, <1>5 DEF Registrations, Signals
<1>8. Owed(c) = l + n + e + 2 * (a + v + g)
  BY <1>1, <1>3, <1>6, <1>7 DEF Owed
<1>9. Account(c, l, n, a, e, g, v)
  BY <1>1, <1>2, <1>3, <1>4, <1>5, <1>6, <1>7, <1>8 DEF OpenOK, Account
<1> QED
  BY <1>9, Zenon

\* The other way round, after a step.
Balance(c, w, l, n, a, e, g, v, d) ==
  /\ l \in Nat /\ n \in Nat /\ a \in {0, 1} /\ e \in Nat /\ g \in {0, 1}
  /\ v \in {0, 1}
  /\ toClient'[c] = w /\ Len(w) = l
  /\ QueuedWords(toServer'[c]) = n
  /\ Asked(toServer'[c]) = a
  /\ EntryWords(sending'[c]) = e
  /\ Signals(cancel'[c]) = g
  /\ waiting'[c] = v
  /\ DueFor(call'[c].op, pc'[c]) = d
  /\ l + n + e + 2 * (a + v + g) = d
  /\ a + v + g <= 1

\* A client whose balance is right after a step is right.
LEMMA Balanced ==
  ASSUME NEW c \in Clients, NEW w, NEW l, NEW n, NEW a, NEW e, NEW g, NEW v,
         NEW d, Balance(c, w, l, n, a, e, g, v, d),
         session'[c] = "open", pc'[c] # "dead",
         QueueOK(c)', a + v + g = Registrations(c)' => OpOK(c)', WordsOK(c)'
  PROVE  ClientOK(c)'
<1> USE DEF Balance
<1>1. Registrations(c)' = a + v + g
  BY DEF Registrations, Signals
<1>2. Owed(c)' = l + n + e + 2 * (a + v + g)
  BY <1>1 DEF Owed
<1>3. Due(c)' = d
  BY DEF Due
<1>4. OpOK(c)'
  BY <1>1
<1> HIDE DEF Signals
<1> QED
  BY <1>1, <1>2, <1>3, <1>4 DEF ClientOK, OpenOK

-----------------------------------------------------------------------------
\* The records of a call.

Events == UNION {[S -> Nat] : S \in SUBSET (PnP .. Slots)}

\* The record of a client that is in no call.
LEMMA NoCallType == NoCall \in CallRecords /\ NoCall.op = "NONE"
<1>1. << >> \in [{} -> Nat]
  OBVIOUS
<1>2. << >> \in Events
  BY <1>1 DEF Events
<1>3. SCARD_S_SUCCESS \in Nat
  BY DEF SCARD_S_SUCCESS
<1> HIDE DEF Events
<1>4. CallRecords =
        [op : {"NONE", "LIST_READERS", "GET_STATUS_CHANGE"},
         want : SUBSET (PnP .. Slots), infinite : BOOLEAN, first : BOOLEAN,
         timedOut : BOOLEAN, rv : Nat, event : Events, count : Nat]
  BY DEF CallRecords, Events
<1> QED
  BY <1>2, <1>3, <1>4 DEF NoCall

\* The records SCardListReaders() and SCardGetStatusChange() start with.
LEMMA NewCallTypes ==
  /\ [NoCall EXCEPT !.op = "LIST_READERS"] \in CallRecords
  /\ [NoCall EXCEPT !.op = "LIST_READERS"].op = "LIST_READERS"
  /\ \A want \in SUBSET (PnP .. Slots), infinite \in BOOLEAN :
       LET k == [NoCall EXCEPT !.op = "GET_STATUS_CHANGE", !.want = want,
                               !.infinite = infinite]
       IN  k \in CallRecords /\ k.op = "GET_STATUS_CHANGE"
BY NoCallType DEF CallRecords

\* The assignments to the record of a call.
LEMMA CallTypes ==
  ASSUME NEW k \in CallRecords
  PROVE  /\ \A rv \in Nat : /\ [k EXCEPT !.rv = rv] \in CallRecords
                            /\ [k EXCEPT !.rv = rv].op = k.op
         /\ \A b \in BOOLEAN : /\ [k EXCEPT !.timedOut = b] \in CallRecords
                                /\ [k EXCEPT !.timedOut = b].op = k.op
         /\ \A n \in Nat : /\ [k EXCEPT !.count = n] \in CallRecords
                           /\ [k EXCEPT !.count = n].op = k.op
                           /\ [k EXCEPT !.first = FALSE, !.count = n] \in CallRecords
                           /\ [k EXCEPT !.first = FALSE, !.count = n].op = k.op
         /\ \A f \in Events : /\ [k EXCEPT !.event = f] \in CallRecords
                              /\ [k EXCEPT !.event = f].op = k.op
<1> HIDE DEF Events
<1>4. CallRecords =
        [op : {"NONE", "LIST_READERS", "GET_STATUS_CHANGE"},
         want : SUBSET (PnP .. Slots), infinite : BOOLEAN, first : BOOLEAN,
         timedOut : BOOLEAN, rv : Nat, event : Events, count : Nat]
  BY DEF CallRecords, Events
<1> QED
  BY <1>4

-----------------------------------------------------------------------------
\* A step of the client: what it leaves in its variables and its sockets.

Steps == {"idle", "size", "array", "firstEvents", "events", "wait", "stop",
          "endStop", "dead"}

Knowledge == [PnP .. Slots -> Nat]

Update(c, q, w, p, k, m, b, h) ==
  /\ toServer' = [toServer EXCEPT ![c] = q]
  /\ toClient' = [toClient EXCEPT ![c] = w]
  /\ pc' = [pc EXCEPT ![c] = p]
  /\ call' = [call EXCEPT ![c] = k]
  /\ maxContexts' = [maxContexts EXCEPT ![c] = m]
  /\ states' = [states EXCEPT ![c] = b]
  /\ known' = [known EXCEPT ![c] = h]
  /\ UNCHANGED <<server, daemon>>

\* The other clients and the types after a step of one client.
LEMMA Updated ==
  ASSUME Types, NEW c \in Clients, NEW q \in Seq(CommandNames),
         NEW w \in Seq(Nat), NEW p \in Steps, NEW k \in CallRecords,
         NEW m \in Nat, NEW b \in Seq(Nat), NEW h \in Knowledge,
         Update(c, q, w, p, k, m, b, h)
  PROVE  /\ Types' /\ \A d \in Clients \ {c} : Same(d)
         /\ toServer'[c] = q /\ toClient'[c] = w /\ pc'[c] = p
         /\ call'[c] = k /\ maxContexts'[c] = m /\ states'[c] = b
         /\ session'[c] = session[c] /\ waiting'[c] = waiting[c]
         /\ sending'[c] = sending[c] /\ cancel'[c] = cancel[c]
<1>1. TypeOK'
  BY DEF Knowledge, Types, TypeOK, Update, Steps, CommandNames, WAIT, STOP, EVENTS, SIZE,
         ARRAY
<1>2. (call \in [Clients -> CallRecords])'
  BY DEF Types, Update
<1>3. ReadersOK'
  BY DEF Types, Update, ReadersOK
<1>4. ASSUME NEW d \in Clients \ {c} PROVE Same(d)
  BY DEF Update, Same, Types, TypeOK
<1>5. /\ toServer'[c] = q /\ toClient'[c] = w /\ pc'[c] = p
      /\ call'[c] = k /\ maxContexts'[c] = m /\ states'[c] = b
      /\ session'[c] = session[c] /\ waiting'[c] = waiting[c]
      /\ sending'[c] = sending[c] /\ cancel'[c] = cancel[c]
  BY DEF Update, Types, TypeOK
<1> QED
  BY <1>1, <1>2, <1>3, <1>4, <1>5 DEF Types

\* What is left alone.
LEMMA Kept ==
  ASSUME Types, NEW c \in Clients
  PROVE  /\ toServer = [toServer EXCEPT ![c] = toServer[c]]
         /\ toClient = [toClient EXCEPT ![c] = toClient[c]]
         /\ call = [call EXCEPT ![c] = call[c]]
         /\ maxContexts = [maxContexts EXCEPT ![c] = maxContexts[c]]
         /\ states = [states EXCEPT ![c] = states[c]]
         /\ known = [known EXCEPT ![c] = known[c]]
         /\ toServer[c] \in Seq(CommandNames) /\ toClient[c] \in Seq(Nat)
         /\ call[c] \in CallRecords /\ maxContexts[c] \in Nat
         /\ states[c] \in Seq(Nat) /\ known[c] \in Knowledge
         /\ pc[c] \in Steps /\ session[c] \in {"open", "dead", "closed"}
         /\ waiting[c] \in 0 .. 1 /\ sending[c] \in 0 .. Slots
         /\ cancel[c] \in {"idle", "unregister", "signal"}
<1> USE DEF Types, TypeOK
<1>1. /\ toServer = [toServer EXCEPT ![c] = toServer[c]]
      /\ toClient = [toClient EXCEPT ![c] = toClient[c]]
      /\ call = [call EXCEPT ![c] = call[c]]
  OBVIOUS
<1>2. /\ maxContexts = [maxContexts EXCEPT ![c] = maxContexts[c]]
      /\ states = [states EXCEPT ![c] = states[c]]
      /\ known = [known EXCEPT ![c] = known[c]]
  OBVIOUS
<1>3. /\ toServer[c] \in Seq(CommandNames) /\ toClient[c] \in Seq(Nat)
      /\ maxContexts[c] \in Nat
      /\ states[c] \in Seq(Nat)
  BY DEF CommandNames, WAIT, STOP, EVENTS, SIZE, ARRAY
<1>4. known[c] \in Knowledge /\ call[c] \in CallRecords
  BY DEF Knowledge
<1>5. /\ pc[c] \in Steps /\ session[c] \in {"open", "dead", "closed"}
      /\ waiting[c] \in 0 .. 1 /\ sending[c] \in 0 .. Slots
      /\ cancel[c] \in {"idle", "unregister", "signal"}
  BY DEF Steps
<1> QED
  BY <1>1, <1>2, <1>3, <1>4, <1>5

\* The queues are sequences of commands.
LEMMA QueueTypes ==
  /\ Queues \subseteq Seq(CommandNames)
  /\ qNone \in Queues /\ qStop \in Queues /\ qSize \in Queues
  /\ qArray \in Queues /\ qEvents \in Queues /\ qStopSize \in Queues
  /\ qWaitSize \in Queues /\ qEventsStop \in Queues
  /\ qSizeStop \in Queues /\ qStopWaitSize \in Queues
<1>1. {STOP, SIZE, ARRAY, EVENTS, WAIT} \subseteq CommandNames
  BY DEF CommandNames
<1>2. {qNone, qStop, qSize, qArray, qEvents, qStopSize, qWaitSize,
       qEventsStop, qSizeStop, qStopWaitSize} \subseteq Seq(CommandNames)
  BY <1>1 DEF qNone, qStop, qSize, qArray, qEvents, qStopSize,
     qWaitSize, qEventsStop, qSizeStop, qStopWaitSize
<1>3. Queues = {qNone, qStop, qSize, qArray, qEvents, qStopSize, qWaitSize,
                qEventsStop, qSizeStop, qStopWaitSize}
  BY DEF Queues, SizeQueues, ArrayQueues, EventQueues, StopQueues, EndQueues
<1> QED
  BY <1>2, <1>3

\* The commands as the client sends them.
LEMMA SentCommands ==
  /\ <<"STOP_WAITING">> = qStop
  /\ <<"GET_READERS_STATE_SIZE">> = qSize
  /\ <<"GET_READERS_STATE_ARRAY">> = qArray
  /\ <<"GET_READER_EVENTS">> = qEvents
  /\ <<"WAIT_READER_STATE_CHANGE", "GET_READERS_STATE_SIZE">> = qWaitSize
BY DEF qStop, qSize, qArray, qEvents, qWaitSize, STOP, SIZE, ARRAY, EVENTS, WAIT

\* A socket that has no words is empty.
LEMMA EmptyWords ==
  ASSUME NEW w \in Seq(Nat)
  PROVE  /\ Len(w) \in Nat
         /\ Len(w) = 0 <=> w = << >>
  OBVIOUS

-----------------------------------------------------------------------------
\* The calls.

\* Between two calls there is nothing on its way.
LEMMA IdleIsQuiet ==
  ASSUME Types, NEW c \in Clients, OpenOK(c), pc[c] = "idle"
  PROVE  /\ toClient[c] = << >> /\ toServer[c] \in {qNone, qStop}
         /\ EntryWords(sending[c]) = 0 /\ sending[c] = 0
         /\ waiting[c] = 0 /\ Signals(cancel[c]) = 0
<1>1. call[c].op = "NONE"
  BY DEF OpenOK, OpOK
<1>2. Due(c) = 0
  BY <1>1, DueWords DEF Due
<1>3. PICK l \in Nat, n \in Nat, a \in {0, 1}, e \in Nat, g \in {0, 1},
           v \in {0, 1} : Account(c, l, n, a, e, g, v)
  BY Books
<1> USE <1>3 DEF Account
<1>4. l + n + e + 2 * (a + v + g) = 0
  BY <1>2
<1>5. l = 0 /\ e = 0 /\ v = 0 /\ g = 0
  BY <1>4
<1>6. toClient[c] = << >>
  BY <1>3, <1>5, Kept, EmptyWords
<1>7. sending[c] = 0
  BY <1>5, Kept, SendingWords
<1>8. toServer[c] \in {qNone, qStop}
  BY DEF OpenOK, QueueOK, IdleQueues
<1> QED
  BY <1>3, <1>5, <1>6, <1>7, <1>8

\* SCardListReaders() asks for the size of the table.
LEMMA ListReadersStep ==
  ASSUME IInv, NEW c \in Clients, SCardListReaders(c)
  PROVE  IInv'
<1> DEFINE q == toServer[c] \o qSize
           k == [NoCall EXCEPT !.op = "LIST_READERS"]
<1>1. Types /\ OpenOK(c) /\ session[c] = "open" /\ pc[c] = "idle"
  BY DEF IInv, ClientOK, SCardListReaders
<1>2. Update(c, q, toClient[c], "size", k, maxContexts[c], states[c], known[c])
  BY <1>1, Kept, SentCommands
     DEF SCardListReaders, Send, SetCall, Goto, Update
<1>3. /\ toClient[c] = << >> /\ toServer[c] \in {qNone, qStop}
      /\ EntryWords(sending[c]) = 0
      /\ waiting[c] = 0 /\ Signals(cancel[c]) = 0
  BY <1>1, IdleIsQuiet
<1>4. q \in {qSize, qStopSize}
  BY <1>3, QueueSends
<1>5. q \in Seq(CommandNames) /\ k \in CallRecords /\ k.op = "LIST_READERS"
  BY <1>4, QueueTypes, NewCallTypes
<1> HIDE DEF q, k
<1>6. /\ Types' /\ \A d \in Clients \ {c} : Same(d)
      /\ toServer'[c] = q /\ toClient'[c] = << >> /\ pc'[c] = "size"
      /\ call'[c] = k /\ maxContexts'[c] = maxContexts[c]
      /\ session'[c] = "open" /\ waiting'[c] = 0
      /\ sending'[c] = sending[c] /\ cancel'[c] = cancel[c]
  BY <1>1, <1>2, <1>3, <1>5, Kept, Updated DEF Steps
<1>7. QueueOK(c)'
  BY <1>4, <1>6 DEF QueueOK, SizeQueues
<1>8. WordsOK(c)'
  BY <1>6 DEF WordsOK
<1>9. Registrations(c)' = 0 => OpOK(c)'
  BY <1>1, <1>5, <1>6 DEF OpenOK, OpOK
<1>10. ClientOK(c)'
  <2>1. QueuedWords(q) = 1 /\ Asked(q) = 0
    BY <1>4, QueueCounts
  <2>2. DueFor("LIST_READERS", "size") = 1
    BY DueWords
  <2>3. Balance(c, << >>, 0, 1, 0, 0, 0, 0, 1)
    BY <1>3, <1>5, <1>6, <2>1, <2>2 DEF Balance
  <2> QED
    BY <1>6, <1>7, <1>8, <1>9, <2>3, Balanced
<1>11. FreshOK(c)'
  BY <1>6 DEF FreshOK
<1>12. UNCHANGED <<server, daemon>>
  BY <1>2 DEF Update
<1> QED
  BY <1>6, <1>10, <1>11, <1>12, ClientStepLocal

\* SCardGetStatusChange() registers and asks for the size of the table.
LEMMA GetStatusChangeStep ==
  ASSUME IInv, ListFirst, NEW c \in Clients, SCardGetStatusChange(c)
  PROVE  IInv'
<1>1. Types /\ OpenOK(c) /\ session[c] = "open" /\ pc[c] = "idle"
  BY DEF IInv, ClientOK, SCardGetStatusChange
<1>2. PICK want \in Requests, infinite \in BOOLEAN :
        SetCall(c, [NoCall EXCEPT !.op = "GET_STATUS_CHANGE", !.want = want,
                                  !.infinite = infinite])
  BY DEF SCardGetStatusChange
<1> DEFINE q == toServer[c] \o qWaitSize
           k == [NoCall EXCEPT !.op = "GET_STATUS_CHANGE", !.want = want,
                               !.infinite = infinite]
<1>3. Update(c, q, toClient[c], "size", k, maxContexts[c], states[c], known[c])
  BY <1>1, <1>2, Kept, SentCommands
     DEF SCardGetStatusChange, GetReaderStatesAndRegisterForEvents, Send,
         SetCall, Goto, Update
<1>4. /\ toClient[c] = << >> /\ toServer[c] \in {qNone, qStop}
      /\ EntryWords(sending[c]) = 0
      /\ waiting[c] = 0 /\ Signals(cancel[c]) = 0
  BY <1>1, IdleIsQuiet
<1>5. q \in {qWaitSize, qStopWaitSize}
  BY <1>4, QueueSends
<1>6. /\ q \in Seq(CommandNames) /\ k \in CallRecords
      /\ k.op = "GET_STATUS_CHANGE"
  BY <1>5, QueueTypes, NewCallTypes, ConstantsAssumption
<1> HIDE DEF q, k
<1>7. /\ Types' /\ \A d \in Clients \ {c} : Same(d)
      /\ toServer'[c] = q /\ toClient'[c] = << >> /\ pc'[c] = "size"
      /\ call'[c] = k /\ maxContexts'[c] = maxContexts[c]
      /\ session'[c] = "open" /\ waiting'[c] = 0
      /\ sending'[c] = sending[c] /\ cancel'[c] = cancel[c]
  BY <1>1, <1>3, <1>4, <1>6, Kept, Updated DEF Steps
<1>8. QueueOK(c)'
  BY <1>5, <1>7 DEF QueueOK, SizeQueues
<1>9. WordsOK(c)'
  BY <1>7 DEF WordsOK
<1>10. OpOK(c)'
  <2>1. maxContexts[c] = Slots
    BY <1>1 DEF SCardGetStatusChange, OpenOK, OpOK
  <2>2. q # qStopSize
    BY <1>5, QueuesDiffer
  <2> QED
    BY <1>6, <1>7, <2>1, <2>2 DEF OpOK
<1>11. ClientOK(c)'
  <2>1. QueuedWords(q) = 1 /\ Asked(q) = 1
    BY <1>5, QueueCounts
  <2>2. DueFor("GET_STATUS_CHANGE", "size") = 3
    BY DueWords
  <2>3. Balance(c, << >>, 0, 1, 1, 0, 0, 0, 3)
    BY <1>4, <1>6, <1>7, <2>1, <2>2 DEF Balance
  <2> QED
    BY <1>7, <1>8, <1>9, <1>10, <2>3, Balanced
<1>12. FreshOK(c)'
  BY <1>7 DEF FreshOK
<1>13. UNCHANGED <<server, daemon>>
  BY <1>3 DEF Update
<1> QED
  BY <1>7, <1>11, <1>12, <1>13, ClientStepLocal

\* Nothing is left to be done for a client that reads the number of entries,
\* and gets it.
LEMMA ReceiveSizeStep ==
  ASSUME IInv, NEW c \in Clients, ReceiveSize(c)
  PROVE  IInv'
<1>1. Types /\ OpenOK(c) /\ session[c] = "open" /\ pc[c] = "size"
  BY AliveIsOpen DEF IInv, ReceiveSize
<1>2. PICK l \in Nat, n \in Nat, a \in {0, 1}, e \in Nat, g \in {0, 1},
           v \in {0, 1} : Account(c, l, n, a, e, g, v)
  BY <1>1, Books
<1> DEFINE x == toClient[c]
           w == SubSeq(x, 2, Len(x))
           size == x[1]
           s == toServer[c]
<1>3. x \in Seq(Nat) /\ l >= 1
  BY <1>1, <1>2, Kept DEF ReceiveSize, MessageReceive, Available, Account
<1>4. First(c, 1)[1] = size /\ toClient' = [toClient EXCEPT ![c] = w]
  BY <1>1, <1>2, <1>3, Received
     DEF ReceiveSize, MessageReceive, First, Account
<1>5. w \in Seq(Nat) /\ Len(w) = l - 1 /\ size \in Nat
  <2>1. Len(x) = l
    BY <1>2 DEF Account
  <2> HIDE DEF x
  <2> QED
    BY <1>3, <2>1
<1>6. \/ call[c].op = "LIST_READERS" /\ l + n + e + 2 * (a + v + g) = 1
      \/ call[c].op = "GET_STATUS_CHANGE" /\ l + n + e + 2 * (a + v + g) = 3
  <2>1. call[c].op \in {"LIST_READERS", "GET_STATUS_CHANGE"}
    <3>1. call[c].op \in {"NONE", "LIST_READERS", "GET_STATUS_CHANGE"}
      BY <1>1, Kept DEF CallRecords
    <3> QED
      BY <1>1, <3>1 DEF OpenOK, OpOK
  <2> QED
    BY <1>1, <1>2, <2>1, DueWords DEF Account, Due
<1>7. s \in SizeQueues
  BY <1>1 DEF OpenOK, QueueOK
<1>8. \/ size = Slots /\ s = qNone
      \/ size = 0 /\ call[c].op = "GET_STATUS_CHANGE"
  <2>1. x # << >>
    BY <1>2, <1>3 DEF Account
  <2> QED
    BY <1>1, <2>1 DEF OpenOK, WordsOK
<1>9. sending[c] = 0 /\ e = 0
  BY <1>1, <1>2, <1>3, <1>6, Kept, SendingWords DEF Account
<1> HIDE DEF x, w, size, s
<1>10. CASE size >= maxContexts[c]
  <2>1. size = Slots /\ s = qNone
    BY <1>1, <1>8, <1>10, Sizes DEF OpenOK, OpOK
  <2>2. Update(c, qArray, w, "array", call[c], size, states[c], known[c])
    <3>1. /\ maxContexts' = [maxContexts EXCEPT ![c] = size]
          /\ toServer' = [toServer EXCEPT ![c] = s \o qArray]
          /\ pc' = [pc EXCEPT ![c] = "array"]
          /\ UNCHANGED <<call, known>> /\ UNCHANGED <<server, daemon, states>>
      BY <1>4, <1>10, SentCommands DEF ReceiveSize, Send, Goto, s
    <3> QED
      BY <1>1, <1>4, <2>1, <3>1, Kept, QueueSends DEF Update
  <2>3. /\ Types' /\ \A d \in Clients \ {c} : Same(d)
        /\ toServer'[c] = qArray /\ toClient'[c] = w /\ pc'[c] = "array"
        /\ call'[c] = call[c] /\ maxContexts'[c] = Slots
        /\ session'[c] = "open" /\ waiting'[c] = v
        /\ sending'[c] = sending[c] /\ cancel'[c] = cancel[c]
    <3>1. /\ qArray \in Seq(CommandNames) /\ "array" \in Steps
          /\ call[c] \in CallRecords /\ states[c] \in Seq(Nat)
          /\ known[c] \in Knowledge
      BY <1>1, Kept, QueueTypes DEF Steps
    <3>2. /\ Types' /\ \A d \in Clients \ {c} : Same(d)
          /\ toServer'[c] = qArray /\ toClient'[c] = w /\ pc'[c] = "array"
          /\ call'[c] = call[c] /\ maxContexts'[c] = size
          /\ session'[c] = session[c] /\ waiting'[c] = waiting[c]
          /\ sending'[c] = sending[c] /\ cancel'[c] = cancel[c]
      BY <1>1, <1>5, <2>2, <3>1, Updated
    <3> QED
      BY <1>1, <1>2, <2>1, <3>2 DEF Account
  <2>4. n = 0 /\ a = 0
    BY <1>2, <2>1, QueueCounts DEF Account, s
  <2>5. PICK d \in Nat : /\ DueFor(call[c].op, "array") = d
                        /\ d = l - 1 + 4 * Slots + 2 * (v + g)
    BY <1>6, <1>9, <2>4, DueWords, Sizes
  <2>6. QueueOK(c)'
    BY <2>3 DEF QueueOK, ArrayQueues
  <2>7. WordsOK(c)'
    <3>1. Len(w) # d
      BY <1>5, <2>5, Sizes
    <3> QED
      BY <2>3, <2>5, <3>1 DEF WordsOK, Due
  <2>8. v + g = Registrations(c)' => OpOK(c)'
    <3>1. call[c].op = "LIST_READERS" => v + g = 0
      BY <1>3, <1>6, <1>9, <2>4
    <3> QED
      BY <1>1, <2>3, <3>1, QueuesDiffer DEF OpenOK, OpOK
  <2>9. ClientOK(c)'
    <3>1. QueuedWords(qArray) = 4 * Slots /\ Asked(qArray) = 0
      BY QueueCounts
    <3>2. /\ l - 1 \in Nat /\ 4 * Slots \in Nat
          /\ l - 1 + 4 * Slots + 0 + 2 * (0 + v + g) = d
          /\ 0 + v + g <= 1 /\ 0 + v + g = v + g
      BY <1>2, <1>3, <2>4, <2>5, Sizes DEF Account
    <3>3. EntryWords(sending'[c]) = 0 /\ Signals(cancel'[c]) = g
      BY <1>2, <1>9, <2>3 DEF Account
    <3>4. Balance(c, w, l - 1, 4 * Slots, 0, 0, g, v, d)
      BY <1>5, <2>3, <2>5, <3>1, <3>2, <3>3 DEF Balance
    <3> QED
      BY <2>3, <2>6, <2>7, <2>8, <3>2, <3>4, Balanced
  <2>10. FreshOK(c)'
    <3>1. v = 1 => Len(w) = 0
      BY <1>3, <1>5, <1>6, <1>9, <2>4
    <3> QED
      BY <2>3, <3>1 DEF FreshOK
  <2>11. UNCHANGED <<server, daemon>>
    BY <2>2 DEF Update
  <2> QED
    BY <2>3, <2>9, <2>10, <2>11, ClientStepLocal
<1>11. CASE ~(size >= maxContexts[c])
  <2>1. /\ size = 0 /\ call[c].op = "GET_STATUS_CHANGE"
        /\ maxContexts[c] = Slots
    BY <1>1, <1>5, <1>8, <1>11, Sizes DEF OpenOK, OpOK
  <2>2. s = qNone \/ s = qSize
    <3>1. a = 0
      <4>1. CASE s = qWaitSize \/ s = qStopWaitSize
        <5>1. n = 1 /\ a = 1
          BY <1>2, <4>1, QueueCounts DEF Account, s
        <5>2. l >= 1 /\ l + n + e + 2 * (a + v + g) <= 3
          BY <1>3, <1>6
        <5> QED
          BY <5>1, <5>2
      <4>2. CASE ~(s = qWaitSize \/ s = qStopWaitSize)
        BY <1>2, <1>7, <4>2, QueueCounts DEF Account, s, SizeQueues
      <4> QED
        BY <4>1, <4>2
    <3>2. s # qWaitSize /\ s # qStopWaitSize
      BY <1>2, <3>1, QueueCounts DEF Account, s
    <3>3. s # qStopSize
      BY <1>1, <2>1 DEF OpenOK, OpOK, s
    <3> QED
      BY <1>7, <3>2, <3>3 DEF SizeQueues
  <2> DEFINE q == s \o qStop
             k == [call[c] EXCEPT !.rv = SCARD_E_UNSUPPORTED_FEATURE]
  <2>3. q \in {qStop, qSizeStop} /\ QueuedWords(q) = n /\ Asked(q) = a
    BY <1>2, <2>2, QueueSends, QueueCounts DEF Account, s
  <2>4. /\ q \in Seq(CommandNames) /\ k \in CallRecords
        /\ k.op = "GET_STATUS_CHANGE"
    <3>1. SCARD_E_UNSUPPORTED_FEATURE \in Nat
      BY DEF SCARD_E_UNSUPPORTED_FEATURE
    <3>2. q \in Seq(CommandNames)
      BY <2>3, QueueTypes
    <3>3. call[c] \in CallRecords /\ call[c].op = "GET_STATUS_CHANGE"
      BY <1>1, <2>1, Kept
    <3>4. \A r \in CallRecords, rv \in Nat :
            [r EXCEPT !.rv = rv] \in CallRecords /\ [r EXCEPT !.rv = rv].op = r.op
      BY CallTypes
    <3>5. k \in CallRecords /\ k.op = call[c].op
      BY <3>1, <3>3, <3>4, Zenon
    <3> QED
      BY <3>2, <3>3, <3>5
  <2>5. Update(c, q, w, "endStop", k, maxContexts[c], states[c], known[c])
    <3>1. /\ UNCHANGED maxContexts
          /\ toServer' = [toServer EXCEPT ![c] = q]
          /\ call' = [call EXCEPT ![c] = k]
          /\ pc' = [pc EXCEPT ![c] = "endStop"]
          /\ UNCHANGED known /\ UNCHANGED <<server, daemon, states>>
      BY <1>4, <1>11, <2>1, SentCommands
         DEF ReceiveSize, Finish, Send, SetCall, Goto, s
    <3> QED
      BY <1>1, <1>4, <3>1, Kept DEF Update
  <2> HIDE DEF q, k
  <2>6. /\ Types' /\ \A d \in Clients \ {c} : Same(d)
        /\ toServer'[c] = q /\ toClient'[c] = w /\ pc'[c] = "endStop"
        /\ call'[c] = k /\ maxContexts'[c] = Slots
        /\ session'[c] = "open" /\ waiting'[c] = v
        /\ sending'[c] = sending[c] /\ cancel'[c] = cancel[c]
    <3>1. /\ "endStop" \in Steps /\ maxContexts[c] \in Nat
          /\ states[c] \in Seq(Nat) /\ known[c] \in Knowledge
      BY <1>1, Kept DEF Steps
    <3>2. /\ Types' /\ \A d \in Clients \ {c} : Same(d)
          /\ toServer'[c] = q /\ toClient'[c] = w /\ pc'[c] = "endStop"
          /\ call'[c] = k /\ maxContexts'[c] = maxContexts[c]
          /\ session'[c] = session[c] /\ waiting'[c] = waiting[c]
          /\ sending'[c] = sending[c] /\ cancel'[c] = cancel[c]
      BY <1>1, <1>5, <2>4, <2>5, <3>1, Updated
    <3> QED
      BY <1>1, <1>2, <2>1, <3>2 DEF Account
  <2>7. QueueOK(c)'
    BY <2>3, <2>6 DEF QueueOK, EndQueues, StopQueues
  <2>8. WordsOK(c)'
    BY <2>6 DEF WordsOK
  <2>9. OpOK(c)'
    <3>1. q # qStopSize
      BY <2>3, QueuesDiffer
    <3> QED
      BY <2>4, <2>6, <3>1 DEF OpOK
  <2>10. ClientOK(c)'
    <3>1. /\ l - 1 \in Nat /\ l - 1 + n + 0 + 2 * (a + v + g) = 2
          /\ a + v + g <= 1
      BY <1>2, <1>3, <1>6, <1>9, <2>1 DEF Account
    <3>2. EntryWords(sending'[c]) = 0 /\ Signals(cancel'[c]) = g
      BY <1>2, <1>9, <2>6 DEF Account
    <3>3. DueFor(call'[c].op, pc'[c]) = 2
      BY <2>4, <2>6, DueWords
    <3>4. Balance(c, w, l - 1, n, a, 0, g, v, 2)
      BY <1>5, <2>3, <2>6, <3>1, <3>2, <3>3 DEF Balance
    <3> QED
      BY <2>6, <2>7, <2>8, <2>9, <3>4, Balanced
  <2>11. FreshOK(c)'
    BY <2>6 DEF FreshOK
  <2>12. UNCHANGED <<server, daemon>>
    BY <2>5 DEF Update
  <2> QED
    BY <2>6, <2>10, <2>11, <2>12, ClientStepLocal
<1> QED
  BY <1>10, <1>11, <1>5

-----------------------------------------------------------------------------
\* Calls that return.

Quiet(c) ==
  /\ toServer[c] \in {qNone, qStop} /\ EntryWords(sending[c]) = 0
  /\ waiting[c] = 0 /\ Signals(cancel[c]) = 0

Empty(w) == Len(w) = 0

\* A call returns when there is nothing left to read.
LEMMA Returns ==
  ASSUME IInv, NEW c \in Clients, NEW b \in Seq(Nat),
         NEW w \in Seq(Nat), Empty(w),
         NEW h \in Knowledge, OpenOK(c), session[c] = "open", Quiet(c),
         Update(c, toServer[c], w, "idle", NoCall, maxContexts[c], b, h)
  PROVE  IInv'
<1>1. /\ Types /\ toServer[c] \in Seq(CommandNames)
      /\ "idle" \in Steps /\ NoCall \in CallRecords /\ maxContexts[c] \in Nat
  BY Kept, NoCallType DEF IInv, Steps
<1>2. /\ Types' /\ \A d \in Clients \ {c} : Same(d)
      /\ toServer'[c] = toServer[c] /\ toClient'[c] = w /\ pc'[c] = "idle"
      /\ call'[c] = NoCall /\ maxContexts'[c] = maxContexts[c]
      /\ session'[c] = session[c] /\ waiting'[c] = waiting[c]
      /\ sending'[c] = sending[c] /\ cancel'[c] = cancel[c]
  BY <1>1, Updated
<1>3. QueuedWords(toServer'[c]) = 0 /\ Asked(toServer'[c]) = 0
  BY <1>2, QueueCounts DEF Quiet
<1>4. Balance(c, w, 0, 0, 0, 0, 0, 0, 0)
  BY <1>2, <1>3, NoCallType, DueWords DEF Balance, Quiet, Empty
<1>5. QueueOK(c)'
  BY <1>2 DEF QueueOK, IdleQueues, Quiet
<1>6. WordsOK(c)'
  BY <1>2 DEF WordsOK, Empty
<1>7. OpOK(c)'
  BY <1>2, NoCallType DEF OpOK, OpenOK
<1>8. ClientOK(c)'
  BY <1>2, <1>4, <1>5, <1>6, <1>7, Balanced
<1>9. FreshOK(c)'
  BY <1>2 DEF FreshOK
<1>10. UNCHANGED <<server, daemon>>
  BY DEF Update
<1> QED
  BY <1>2, <1>8, <1>9, <1>10, ClientStepLocal

\* The application gets values it can give back.
LEMMA ReturnedKnown ==
  ASSUME Types, NEW c \in Clients, NEW rv, Return(c, rv)
  PROVE  \E h \in Knowledge : known' = [known EXCEPT ![c] = h]
<1>1. known[c] \in Knowledge /\ call[c].event \in Events
  BY Kept DEF CallRecords, Events
<1> USE DEF Knowledge
<1>2. CASE rv = SCARD_S_SUCCESS /\ call[c].op = "GET_STATUS_CHANGE"
  <2> DEFINE h == [x \in DOMAIN known[c] |->
                     IF x \in DOMAIN call[c].event THEN call[c].event[x]
                                                   ELSE known[c][x]]
  <2>1. PICK S \in SUBSET (PnP .. Slots) : call[c].event \in [S -> Nat]
    BY <1>1 DEF Events
  <2>2. h \in Knowledge
    BY <1>1, <2>1
  <2>3. known' = [known EXCEPT ![c] = h]
    BY <1>2, Kept DEF Return, Types, TypeOK
  <2> QED
    BY <2>2, <2>3
<1>3. CASE ~(rv = SCARD_S_SUCCESS /\ call[c].op = "GET_STATUS_CHANGE")
  BY <1>1, <1>3, Kept DEF Return
<1> QED
  BY <1>2, <1>3

\* SCardListReaders() reads the entries and returns.
LEMMA ReceiveListStep ==
  ASSUME IInv, NEW c \in Clients, ReceiveList(c)
  PROVE  IInv'
<1>1. Types /\ OpenOK(c) /\ session[c] = "open" /\ pc[c] = "array"
  BY AliveIsOpen DEF IInv, ReceiveList
<1>2. PICK l \in Nat, n \in Nat, a \in {0, 1}, e \in Nat, g \in {0, 1},
           v \in {0, 1} : Account(c, l, n, a, e, g, v)
  BY <1>1, Books
<1>3. call[c].op = "LIST_READERS" /\ maxContexts[c] = Slots
  BY <1>1 DEF ReceiveList, OpenOK, OpOK
<1>4. l + n + e + 2 * (a + v + g) = 4 * Slots
  BY <1>1, <1>2, <1>3, DueWords DEF Account, Due
<1>5. l >= 4 * Slots
  BY <1>2, <1>3 DEF ReceiveList, MessageReceive, Available, Account,
     READER_STATE_WORDS
<1>6. l = 4 * Slots /\ n = 0 /\ e = 0 /\ v = 0 /\ g = 0
  BY <1>4, <1>5, Sizes
<1> DEFINE x == toClient[c]
           b == SubSeq(x, 1, 4 * Slots)
           w == SubSeq(x, 4 * Slots + 1, Len(x))
<1>7. x \in Seq(Nat) /\ Len(x) = 4 * Slots
  BY <1>1, <1>2, <1>6, Kept DEF Account
<1>8. b \in Seq(Nat) /\ w \in Seq(Nat) /\ Len(w) = 0
  BY <1>7, Sizes
<1>9. PICK h \in Knowledge : known' = [known EXCEPT ![c] = h]
  BY <1>1, ReturnedKnown DEF ReceiveList
<1>10. Update(c, toServer[c], w, "idle", NoCall, maxContexts[c], b, h)
  <2>1. /\ toClient' = [toClient EXCEPT ![c] = w]
        /\ states' = [states EXCEPT ![c] = b]
    BY <1>1, <1>3
       DEF ReceiveList, MessageReceive, READER_STATE_WORDS, First, Types, TypeOK
  <2> QED
    BY <1>1, <1>8, <1>9, <2>1, Kept
       DEF ReceiveList, Return, SetCall, Goto, Update
<1>11. toServer[c] \in {qNone, qStop}
  <2>1. toServer[c] \in {qNone, qArray}
    BY <1>1 DEF OpenOK, QueueOK, ArrayQueues
  <2>2. toServer[c] # qArray
    BY <1>2, <1>6, QueueCounts, Sizes DEF Account
  <2> QED
    BY <2>1, <2>2
<1> HIDE DEF x, b, w
<1> QED
  BY <1>1, <1>2, <1>6, <1>8, <1>10, <1>11, Returns DEF Account, Quiet, Empty

\* The last message of a call has come: nothing else will.
LEMMA LastMessage ==
  ASSUME Types, NEW c \in Clients, OpenOK(c), Available(c, 2),
         pc[c] \in {"wait", "stop", "endStop"}
  PROVE  /\ Len(toClient[c]) = 2 /\ toServer[c] \in {qNone, qStop}
         /\ pc[c] = "wait" => toServer[c] = qNone
         /\ sending[c] = 0 /\ EntryWords(sending[c]) = 0
         /\ waiting[c] = 0 /\ Signals(cancel[c]) = 0
         /\ call[c].op = "GET_STATUS_CHANGE" /\ maxContexts[c] = Slots
         /\ SubSeq(toClient[c], 2 + 1, Len(toClient[c])) \in Seq(Nat)
         /\ Len(SubSeq(toClient[c], 2 + 1, Len(toClient[c]))) = 0
         /\ First(c, 2)[2] = toClient[c][2]
<1>1. PICK l \in Nat, n \in Nat, a \in {0, 1}, e \in Nat, g \in {0, 1},
           v \in {0, 1} : Account(c, l, n, a, e, g, v)
  BY Books
<1>2. call[c].op = "GET_STATUS_CHANGE" /\ maxContexts[c] = Slots
  <2>1. call[c].op \in {"NONE", "LIST_READERS", "GET_STATUS_CHANGE"}
    BY Kept DEF CallRecords
  <2> QED
    BY <2>1 DEF OpenOK, OpOK
<1>3. l + n + e + 2 * (a + v + g) = 2
  BY <1>1, <1>2, DueWords DEF Account, Due
<1>4. l >= 2
  BY <1>1 DEF Available, Account
<1>5. l = 2 /\ n = 0 /\ e = 0 /\ v = 0 /\ g = 0
  BY <1>3, <1>4
<1>6. toClient[c] \in Seq(Nat) /\ Len(toClient[c]) = 2
  BY <1>1, <1>5, Kept DEF Account
<1>7. /\ SubSeq(toClient[c], 2 + 1, Len(toClient[c])) \in Seq(Nat)
      /\ Len(SubSeq(toClient[c], 2 + 1, Len(toClient[c]))) = 0
      /\ First(c, 2)[2] = toClient[c][2]
  BY <1>6 DEF First
<1>8. /\ toServer[c] \in {qNone, qStop, qEvents, qEventsStop, qSizeStop}
      /\ pc[c] = "wait" => toServer[c] \in {qNone, qEvents}
  BY DEF OpenOK, QueueOK, EventQueues, StopQueues, EndQueues
<1>9. toServer[c] \notin {qEvents, qEventsStop, qSizeStop}
  BY <1>1, <1>5, QueueCounts DEF Account
<1>10. sending[c] = 0
  BY <1>1, <1>5, Kept, SendingWords DEF Account
<1> QED
  BY <1>1, <1>2, <1>5, <1>6, <1>7, <1>8, <1>9, <1>10 DEF Account

\* unregisterFromEvents() at the end of SCardGetStatusChange().
LEMMA ReceiveEndStopStep ==
  ASSUME IInv, NEW c \in Clients, ReceiveEndStop(c)
  PROVE  IInv'
<1> DEFINE w == SubSeq(toClient[c], 2 + 1, Len(toClient[c]))
<1>1. /\ Types /\ OpenOK(c) /\ session[c] = "open" /\ pc[c] = "endStop"
      /\ Available(c, 2)
  BY AliveIsOpen DEF IInv, ReceiveEndStop, MessageReceive
<1>2. /\ toServer[c] \in {qNone, qStop} /\ EntryWords(sending[c]) = 0
      /\ waiting[c] = 0 /\ Signals(cancel[c]) = 0
      /\ w \in Seq(Nat) /\ Len(w) = 0
  BY <1>1, LastMessage
<1>3. PICK h \in Knowledge : known' = [known EXCEPT ![c] = h]
  BY <1>1, ReturnedKnown DEF ReceiveEndStop
<1>4. toClient' = [toClient EXCEPT ![c] = w]
  BY <1>1, Zenon DEF ReceiveEndStop, MessageReceive
<1> HIDE DEF w
<1>5. Update(c, toServer[c], w, "idle", NoCall, maxContexts[c], states[c], h)
  BY <1>1, <1>3, <1>4, Kept DEF ReceiveEndStop, Return, SetCall, Goto, Update
<1> QED
  BY <1>1, <1>2, <1>5, Kept, Returns DEF Quiet, Empty

-----------------------------------------------------------------------------
\* The messages a client waits for.

\* A message in the loop, or the one unregisterFromEvents() waits for.
LEMMA ContinueStep ==
  ASSUME IInv, NEW c \in Clients, pc[c] \in {"wait", "stop"},
         MessageReceive(c, 2), Continue(c, First(c, 2)[2]),
         UNCHANGED <<server, daemon, maxContexts, states>>
  PROVE  IInv'
<1> DEFINE w  == SubSeq(toClient[c], 2 + 1, Len(toClient[c]))
           rv == toClient[c][2]
           q  == toServer[c] \o qWaitSize
<1>1. /\ Types /\ OpenOK(c) /\ session[c] = "open" /\ Available(c, 2)
  BY AliveIsOpen DEF IInv, MessageReceive
<1>2. /\ Len(toClient[c]) = 2 /\ Quiet(c) /\ w \in Seq(Nat) /\ Empty(w)
      /\ call[c].op = "GET_STATUS_CHANGE" /\ maxContexts[c] = Slots
      /\ First(c, 2)[2] = rv
  BY <1>1, LastMessage DEF Quiet, Empty
<1>3. rv \in {SCARD_S_SUCCESS, SCARD_E_CANCELLED}
  <2>1. Due(c) = 2
    BY <1>2, DueWords DEF Due
  <2> QED
    BY <1>1, <1>2, <2>1 DEF OpenOK, WordsOK
<1>4. toClient' = [toClient EXCEPT ![c] = w]
  BY Zenon DEF MessageReceive
<1> HIDE DEF w, rv
<1>5. CASE rv = SCARD_S_SUCCESS
  <2>1. q \in {qWaitSize, qStopWaitSize}
    BY <1>2, QueueSends DEF Quiet
  <2>2. q \in Seq(CommandNames)
    BY <2>1, QueueTypes
  <2>3. Update(c, q, w, "size", call[c], maxContexts[c], states[c], known[c])
    BY <1>1, <1>2, <1>4, <1>5, Kept, SentCommands
       DEF Continue, GetReaderStatesAndRegisterForEvents, Send, Goto, Update
  <2> HIDE DEF q
  <2>4. /\ "size" \in Steps /\ call[c] \in CallRecords
        /\ maxContexts[c] \in Nat /\ states[c] \in Seq(Nat)
        /\ known[c] \in Knowledge
    BY <1>1, Kept DEF Steps
  <2>5. /\ Types' /\ \A d \in Clients \ {c} : Same(d)
        /\ toServer'[c] = q /\ toClient'[c] = w /\ pc'[c] = "size"
        /\ call'[c] = call[c] /\ maxContexts'[c] = maxContexts[c]
        /\ session'[c] = session[c] /\ waiting'[c] = waiting[c]
        /\ sending'[c] = sending[c] /\ cancel'[c] = cancel[c]
    BY <1>1, <1>2, <2>2, <2>3, <2>4, Updated
  <2>6. QueuedWords(q) = 1 /\ Asked(q) = 1
    BY <2>1, QueueCounts
  <2>7. DueFor("GET_STATUS_CHANGE", "size") = 3
    BY DueWords
  <2>8. Balance(c, w, 0, 1, 1, 0, 0, 0, 3)
    BY <1>2, <2>5, <2>6, <2>7 DEF Balance, Quiet, Empty
  <2>9. QueueOK(c)'
    BY <2>1, <2>5 DEF QueueOK, SizeQueues
  <2>10. WordsOK(c)'
    BY <1>2, <2>5 DEF WordsOK, Empty
  <2>11. OpOK(c)'
    <3>1. q # qStopSize
      BY <2>1, QueuesDiffer
    <3> QED
      BY <1>2, <2>5, <3>1 DEF OpOK
  <2>12. ClientOK(c)'
    BY <1>1, <2>5, <2>8, <2>9, <2>10, <2>11, Balanced
  <2>13. FreshOK(c)'
    BY <2>5 DEF FreshOK
  <2> QED
    BY <2>5, <2>12, <2>13, ClientStepLocal
<1>6. CASE rv = SCARD_E_CANCELLED
  <2>1. Return(c, rv) /\ UNCHANGED toServer
    BY <1>2, <1>6 DEF Continue, SCARD_S_SUCCESS, SCARD_E_CANCELLED
  <2>2. PICK h \in Knowledge : known' = [known EXCEPT ![c] = h]
    BY <1>1, <2>1, ReturnedKnown
  <2>3. Update(c, toServer[c], w, "idle", NoCall, maxContexts[c], states[c], h)
    BY <1>1, <1>4, <2>1, <2>2, Kept DEF Return, SetCall, Goto, Update
  <2> QED
    BY <1>1, <1>2, <2>3, Kept, Returns
<1> QED
  BY <1>3, <1>5, <1>6

\* Nothing has come in time.
LEMMA TimeoutStep ==
  ASSUME IInv, NEW c \in Clients, Timeout(c)
  PROVE  IInv'
<1>1. Types /\ OpenOK(c) /\ session[c] = "open" /\ pc[c] = "wait"
  BY AliveIsOpen DEF IInv, Timeout
<1>2. PICK l \in Nat, n \in Nat, a \in {0, 1}, e \in Nat, g \in {0, 1},
           v \in {0, 1} : Account(c, l, n, a, e, g, v)
  BY <1>1, Books
<1>3. call[c].op = "GET_STATUS_CHANGE" /\ maxContexts[c] = Slots
  <2>1. call[c].op \in {"NONE", "LIST_READERS", "GET_STATUS_CHANGE"}
    BY <1>1, Kept DEF CallRecords
  <2> QED
    BY <1>1, <2>1 DEF OpenOK, OpOK
<1>4. l + n + e + 2 * (a + v + g) = 2
  BY <1>1, <1>2, <1>3, DueWords DEF Account, Due
<1> DEFINE s == toServer[c]
           q == s \o qStop
           k == [call[c] EXCEPT !.timedOut = TRUE]
<1>5. s = qNone \/ s = qEvents
  BY <1>1 DEF OpenOK, QueueOK, EventQueues
<1>6. a = 0 /\ n \in {0, 2}
  BY <1>2, <1>5, QueueCounts DEF Account
<1>7. l < 2
  BY <1>2 DEF Timeout, Available, Account
<1>8. l = 0 /\ e = 0
  BY <1>1, <1>2, <1>4, <1>6, <1>7, Kept, SendingWords DEF Account
<1>9. q = IF s = qNone THEN qStop ELSE qEventsStop
  BY <1>5, QueueSends, QueuesDiffer
<1>10. toClient[c] = << >>
  BY <1>1, <1>2, <1>8, Kept, EmptyWords DEF Account
<1>11. Update(c, q, toClient[c], "stop", k, maxContexts[c], states[c], known[c])
  BY <1>1, <1>10, Kept, SentCommands
     DEF Timeout, Send, SetCall, Goto, Update
<1>12. /\ q \in Seq(CommandNames) /\ k \in CallRecords
       /\ k.op = "GET_STATUS_CHANGE" /\ "stop" \in Steps
       /\ toClient[c] \in Seq(Nat) /\ maxContexts[c] \in Nat
       /\ states[c] \in Seq(Nat) /\ known[c] \in Knowledge
  BY <1>1, <1>3, <1>9, Kept, CallTypes, QueueTypes DEF Steps
<1> HIDE DEF q, k
<1>13. /\ Types' /\ \A d \in Clients \ {c} : Same(d)
       /\ toServer'[c] = q /\ toClient'[c] = toClient[c] /\ pc'[c] = "stop"
       /\ call'[c] = k /\ maxContexts'[c] = maxContexts[c]
       /\ session'[c] = session[c] /\ waiting'[c] = waiting[c]
       /\ sending'[c] = sending[c] /\ cancel'[c] = cancel[c]
  BY <1>1, <1>11, <1>12, Updated
<1>14. Leave(c, toClient[c], s, v + g, e, n)
  <2>1. /\ v + g \in {0, 1} /\ waiting'[c] \in Nat
        /\ l + n + e + 2 * (v + g) = 2
    BY <1>2, <1>4, <1>6, <1>13 DEF Account
  <2>2. v + g = waiting'[c] + (IF cancel'[c] = "signal" THEN 1 ELSE 0)
    BY <1>2, <1>13 DEF Account, Signals
  <2> QED
    BY <1>1, <1>2, <1>3, <1>5, <1>8, <1>9, <1>12, <1>13, <2>1, <2>2
       DEF Leave, Account, EventQueues
<1>15. ClientOK(c)'
  BY <1>14, Leaves
<1>16. FreshOK(c)'
  BY <1>13 DEF FreshOK
<1>17. UNCHANGED <<server, daemon>>
  BY <1>11 DEF Update
<1> QED
  BY <1>13, <1>15, <1>16, <1>17, ClientStepLocal

-----------------------------------------------------------------------------
\* What the client computes from the entries.

\* The number of readers in the entries.
LEMMA ReaderCountType ==
  ASSUME NEW b \in Seq(Nat)
  PROVE  ReaderCount(b) \in Nat
<1> DEFINE m == Len(b) \div READER_STATE_WORDS
           S == {i \in 1 .. m : NameAt(b, i) # 0}
<1>1. 1 \in Int /\ m \in Int
  BY DEF READER_STATE_WORDS
<1> HIDE DEF m
<1>2. IsFiniteSet(1 .. m)
  BY <1>1, FS_Interval
<1>3. IsFiniteSet(S)
  BY <1>2, FS_Subset
<1>4. Cardinality(S) \in Nat
  BY <1>3, FS_CardinalityType
<1> QED
  BY <1>4 DEF ReaderCount, SlotsOf, m

\* The state of a reader in the entries.
LEMMA EventStateType ==
  ASSUME NEW b \in Seq(Nat), NEW r
  PROVE  EventState(b, r) \in Nat
<1>1. CASE Found(b, r)
  <2> DEFINE i == CHOOSE j \in SlotsOf(b) : NameAt(b, j) = Name(r)
  <2>1. i \in SlotsOf(b)
    BY <1>1 DEF Found
  <2> HIDE DEF i
  <2>2. i \in Nat /\ 1 <= i /\ i <= Len(b) \div 4
    BY <2>1 DEF SlotsOf, READER_STATE_WORDS
  <2>3. 4 * (i - 1) + 2 \in 1 .. Len(b)
    <3>1. PICK l \in Nat : l = Len(b)
      OBVIOUS
    <3>2. i <= l \div 4
      BY <2>2, <3>1
    <3>3. 4 * (l \div 4) <= l
      OBVIOUS
    <3> QED
      BY <2>2, <3>1, <3>2, <3>3
  <2>4. b[4 * (i - 1) + 2] \in Nat
    BY <2>3
  <2> QED
    BY <1>1, <2>4 DEF EventState, EventAt, READER_STATE_WORDS, i
<1>2. CASE ~Found(b, r)
  BY <1>2 DEF EventState, SCARD_STATE_UNKNOWN
<1> QED
  BY <1>1, <1>2

\* The states a call returns.
LEMMA NewEventType ==
  ASSUME NEW k \in CallRecords, NEW b \in Seq(Nat)
  PROVE  NewEvent(k, b) \in Events
<1>1. k.want \in SUBSET (PnP .. Slots) /\ k.event \in Events
  BY DEF CallRecords, Events
<1>2. PICK S \in SUBSET (PnP .. Slots) : k.event \in [S -> Nat]
  BY <1>1 DEF Events
<1>3. ASSUME NEW x \in k.want
      PROVE  (IF x = PnP THEN IF PnP \in DOMAIN k.event THEN k.event[PnP] ELSE 0
                         ELSE EventState(b, x)) \in Nat
  BY <1>2, EventStateType
<1>4. NewEvent(k, b) \in [k.want -> Nat]
  BY <1>3 DEF NewEvent
<1> QED
  BY <1>1, <1>4 DEF Events

\* A round that ends: the client waits or has finished.
Leaving(c, k) ==
  /\ call' = [call EXCEPT ![c] = k]
  /\ \/ pc' = [pc EXCEPT ![c] = "wait"] /\ UNCHANGED toServer
     \/ /\ pc' = [pc EXCEPT ![c] = "endStop"]
        /\ toServer' = [toServer EXCEPT ![c] = @ \o qStop]

\* The end of a round of the loop: return or wait.
LEMMA Decided ==
  ASSUME NEW c \in Clients, NEW k \in CallRecords, NEW b \in Seq(Nat),
         NEW break, Decide(c, k, b, break)
  PROVE  \E kk \in CallRecords : kk.op = k.op /\ Leaving(c, kk)
<1> DEFINE e  == NewEvent(k, b)
           k1 == [k EXCEPT !.event = e]
           k2 == [k1 EXCEPT !.rv = SCARD_S_SUCCESS]
<1>1. e \in Events
  BY NewEventType
<1> HIDE DEF e
<1>2. k1 \in CallRecords /\ k1.op = k.op
  BY <1>1, CallTypes
<1>3. SCARD_S_SUCCESS \in Nat
  BY DEF SCARD_S_SUCCESS
<1> HIDE DEF k1
<1>4. k2 \in CallRecords /\ k2.op = k.op
  BY <1>2, <1>3, CallTypes
<1> HIDE DEF k2
<1>5. CASE break \/ \E r \in k.want \ {PnP} : Changed(c, b, r)
  <2>1. Finish(c, k2)
    BY <1>5, Zenon DEF Decide, e, k1, k2
  <2>2. Leaving(c, k2)
    BY <2>1, SentCommands DEF Finish, Send, SetCall, Goto, Leaving
  <2> QED
    BY <1>4, <2>2
<1>6. CASE ~(break \/ \E r \in k.want \ {PnP} : Changed(c, b, r))
  <2>1. Goto(c, "wait") /\ SetCall(c, k1) /\ UNCHANGED toServer
    BY <1>6, Zenon DEF Decide, e, k1
  <2>2. Leaving(c, k1)
    BY <2>1 DEF SetCall, Goto, Leaving
  <2> QED
    BY <1>2, <2>2
<1> QED
  BY <1>5, <1>6

\* A reply of m words has been read, and b is now in readerStates.
Reply(c, m, b) ==
  /\ session[c] = "open" /\ OpenOK(c)
  /\ pc[c] \in {"array", "firstEvents", "events"}
  /\ call[c].op = "GET_STATUS_CHANGE" /\ m \in Nat /\ Due(c) = 2 + m
  /\ b \in Seq(Nat)
  /\ waiting[c] = 1 /\ pending = 0 /\ hotplug # "signal" => b = Current
  /\ MessageReceive(c, m)
  /\ states' = [states EXCEPT ![c] = b]
  /\ UNCHANGED <<server, daemon, maxContexts, known>>

\* What is left after the reply is at most one message.
LEMMA Replied ==
  ASSUME Types, NEW c \in Clients, NEW m, NEW b, Reply(c, m, b)
  PROVE  \E w \in Seq(Nat), n \in {0, 2}, r \in {0, 1} :
           /\ toClient' = [toClient EXCEPT ![c] = w]
           /\ QueuedWords(toServer[c]) = n
           /\ toServer[c] = qNone \/ toServer[c] = qEvents
           /\ pc[c] = "array" => toServer[c] = qNone
           /\ EntryWords(sending[c]) = 0
           /\ r = waiting[c] + Signals(cancel[c])
           /\ Len(w) + n + 2 * r = 2
           /\ Len(w) = 2 => w[2] \in {SCARD_S_SUCCESS, SCARD_E_CANCELLED}
           /\ maxContexts[c] = Slots
<1> DEFINE x == toClient[c]
           w == SubSeq(x, m + 1, Len(x))
<1>1. PICK l \in Nat, n \in Nat, a \in {0, 1}, e \in Nat, g \in {0, 1},
           v \in {0, 1} : Account(c, l, n, a, e, g, v)
  BY Books DEF Reply
<1>2. m \in Nat /\ l + n + e + 2 * (a + v + g) = 2 + m /\ Due(c) = 2 + m
  BY <1>1 DEF Account, Reply
<1>3. l >= m
  BY <1>1 DEF Reply, MessageReceive, Available, Account
<1>4. x \in Seq(Nat) /\ Len(x) = l
  BY <1>1, Kept DEF Account
<1>5. toClient' = [toClient EXCEPT ![c] = w]
  BY Zenon DEF Reply, MessageReceive
<1> HIDE DEF x
<1>6. /\ w \in Seq(Nat) /\ Len(w) = l - m
      /\ l - m = 2 => w[2] = x[l]
  <2>1. m <= Len(x)
    BY <1>2, <1>3, <1>4
  <2>2. /\ w \in Seq(Nat) /\ Len(w) = Len(x) - m
        /\ \A i \in 1 .. Len(x) - m : w[i] = x[m + i]
    BY <1>2, <1>4, <2>1, Received
  <2> HIDE DEF w
  <2>3. ASSUME l - m = 2 PROVE w[2] = x[l]
    <3>1. 2 \in 1 .. Len(x) - m /\ m + 2 = l
      BY <1>2, <1>4, <2>3
    <3>2. w[2] = x[m + 2]
      BY <2>2, <3>1
    <3> QED
      BY <3>1, <3>2
  <2>4. Len(w) = l - m
    BY <1>4, <2>2
  <2> QED
    BY <2>2, <2>3, <2>4
<1>7. /\ toServer[c] \in {qNone, qArray, qEvents}
      /\ pc[c] = "array" => toServer[c] \in {qNone, qArray}
  BY DEF Reply, OpenOK, QueueOK, ArrayQueues, EventQueues
<1>8. toServer[c] # qArray
  <2>1. toServer[c] = qArray => n = 4 * Slots
    BY <1>1, QueueCounts DEF Account
  <2> QED
    BY <1>2, <1>3, <2>1, Sizes
<1>9. a = 0 /\ n \in {0, 2}
  BY <1>1, <1>7, <1>8, QueueCounts DEF Account
<1>10. /\ toServer[c] = qNone \/ toServer[c] = qEvents
       /\ pc[c] = "array" => toServer[c] = qNone
  BY <1>7, <1>8, QueuesDiffer
<1>11. e = 0
  BY <1>1, <1>2, <1>3, Kept, SendingWords DEF Account
<1>12. /\ v + g \in {0, 1} /\ (l - m) + n + 2 * (v + g) = 2
  BY <1>1, <1>2, <1>3, <1>9, <1>11 DEF Account
<1>13. l - m = 2 => w[2] \in {SCARD_S_SUCCESS, SCARD_E_CANCELLED}
  <2>1. l - m = 2 => l = Due(c)
    BY <1>2
  <2>2. l = Due(c) => x[l] \in {SCARD_S_SUCCESS, SCARD_E_CANCELLED}
    BY <1>4 DEF Reply, OpenOK, WordsOK, x
  <2> QED
    BY <1>6, <2>1, <2>2
<1>14. maxContexts[c] = Slots
  BY DEF Reply, OpenOK, OpOK
<1> HIDE DEF w
<1> QED
  BY <1>1, <1>5, <1>6, <1>9, <1>10, <1>11, <1>12, <1>13, <1>14 DEF Account

\* A reply is read, and the client returns or waits.
LEMMA LeavingStep ==
  ASSUME IInv, NEW c \in Clients, NEW m, NEW b, Reply(c, m, b),
         NEW k \in CallRecords, k.op = "GET_STATUS_CHANGE", Leaving(c, k)
  PROVE  IInv'
<1>1. Types /\ session[c] = "open" /\ b \in Seq(Nat)
  BY DEF IInv, Reply
<1>2. PICK w \in Seq(Nat), n \in {0, 2}, r \in {0, 1} :
           /\ toClient' = [toClient EXCEPT ![c] = w]
           /\ QueuedWords(toServer[c]) = n
           /\ toServer[c] = qNone \/ toServer[c] = qEvents
           /\ pc[c] = "array" => toServer[c] = qNone
           /\ EntryWords(sending[c]) = 0
           /\ r = waiting[c] + Signals(cancel[c])
           /\ Len(w) + n + 2 * r = 2
           /\ Len(w) = 2 => w[2] \in {SCARD_S_SUCCESS, SCARD_E_CANCELLED}
           /\ maxContexts[c] = Slots
  BY <1>1, Replied
<1>3. ASSUME NEW p \in {"wait", "endStop"}, NEW q,
             q = IF p = "wait" THEN toServer[c] ELSE toServer[c] \o qStop,
             pc' = [pc EXCEPT ![c] = p],
             toServer' = [toServer EXCEPT ![c] = q]
      PROVE  IInv'
  <2>1. \/ p = "wait" /\ q = toServer[c]
        \/ p = "endStop" /\ q = IF toServer[c] = qNone THEN qStop ELSE qEventsStop
    BY <1>2, <1>3, QueueSends, QueuesDiffer
  <2>2. /\ q \in Seq(CommandNames) /\ p \in Steps /\ maxContexts[c] \in Nat
        /\ known[c] \in Knowledge
    BY <1>1, <2>1, Kept, QueueTypes DEF Steps
  <2>3. Update(c, q, w, p, k, maxContexts[c], b, known[c])
    BY <1>1, <1>2, <1>3, Kept DEF Reply, Leaving, Update
  <2>4. /\ Types' /\ \A d \in Clients \ {c} : Same(d)
        /\ toServer'[c] = q /\ toClient'[c] = w /\ pc'[c] = p
        /\ call'[c] = k /\ maxContexts'[c] = maxContexts[c] /\ states'[c] = b
        /\ session'[c] = session[c] /\ waiting'[c] = waiting[c]
        /\ sending'[c] = sending[c] /\ cancel'[c] = cancel[c]
    BY <1>1, <2>2, <2>3, Updated
  <2>5. Leave(c, w, toServer[c], r, 0, n)
    <3>1. waiting'[c] \in Nat /\ toServer[c] \in EventQueues
      <4>1. waiting[c] \in 0 .. 1
        BY <1>1, Kept
      <4>2. toServer[c] \in EventQueues
        BY <1>2 DEF EventQueues
      <4> QED
        BY <2>4, <4>1, <4>2
    <3>2. r = waiting'[c] + (IF cancel'[c] = "signal" THEN 1 ELSE 0)
      BY <1>2, <2>4 DEF Signals
    <3> QED
      BY <1>1, <1>2, <2>1, <2>4, <3>1, <3>2 DEF Leave
  <2>6. ClientOK(c)'
    BY <2>5, Leaves
  <2>7. UNCHANGED <<server, daemon>>
    BY <2>3 DEF Update
  <2>8. FreshOK(c)'
    <3>1. Current' = Current
      BY <2>7 DEF Current
    <3> HIDE DEF Current
    <3>2. pc'[c] # "array"
      BY <2>4
    <3>3. waiting[c] = 1 /\ pending = 0 /\ hotplug # "signal" => b = Current
      BY DEF Reply
    <3> QED
      BY <2>4, <2>7, <3>1, <3>2, <3>3 DEF FreshOK
  <2> QED
    BY <2>4, <2>6, <2>7, <2>8, ClientStepLocal
<1>4. CASE pc' = [pc EXCEPT ![c] = "wait"] /\ UNCHANGED toServer
  <2>1. toServer' = [toServer EXCEPT ![c] = toServer[c]]
    BY <1>1, <1>4, Kept
  <2> QED
    BY <1>3, <1>4, <2>1
<1>5. CASE /\ pc' = [pc EXCEPT ![c] = "endStop"]
           /\ toServer' = [toServer EXCEPT ![c] = @ \o qStop]
  BY <1>3, <1>5
<1> QED
  BY <1>4, <1>5 DEF Leaving

\* A reply is read, and the client asks for the reader events.
LEMMA AskEventsStep ==
  ASSUME IInv, NEW c \in Clients, NEW m, NEW b, Reply(c, m, b),
         NEW k \in CallRecords, k.op = "GET_STATUS_CHANGE", pc[c] = "array",
         NEW p \in {"firstEvents", "events"},
         call' = [call EXCEPT ![c] = k], pc' = [pc EXCEPT ![c] = p],
         toServer' = [toServer EXCEPT ![c] = @ \o qEvents]
  PROVE  IInv'
<1>1. Types /\ session[c] = "open" /\ b \in Seq(Nat)
  BY DEF IInv, Reply
<1>2. PICK w \in Seq(Nat), n \in {0, 2}, r \in {0, 1} :
           /\ toClient' = [toClient EXCEPT ![c] = w]
           /\ QueuedWords(toServer[c]) = n
           /\ toServer[c] = qNone \/ toServer[c] = qEvents
           /\ pc[c] = "array" => toServer[c] = qNone
           /\ EntryWords(sending[c]) = 0
           /\ r = waiting[c] + Signals(cancel[c])
           /\ Len(w) + n + 2 * r = 2
           /\ Len(w) = 2 => w[2] \in {SCARD_S_SUCCESS, SCARD_E_CANCELLED}
           /\ maxContexts[c] = Slots
  BY <1>1, Replied
<1>3. toServer' = [toServer EXCEPT ![c] = qEvents] /\ n = 0
  BY <1>2, QueueSends, QueueCounts
<1>4. Update(c, qEvents, w, p, k, maxContexts[c], b, known[c])
  BY <1>1, <1>2, <1>3, Kept DEF Reply, Update
<1>5. /\ qEvents \in Seq(CommandNames) /\ p \in Steps /\ maxContexts[c] \in Nat
      /\ known[c] \in Knowledge
  BY <1>1, Kept, QueueTypes DEF Steps
<1>6. /\ Types' /\ \A d \in Clients \ {c} : Same(d)
      /\ toServer'[c] = qEvents /\ toClient'[c] = w /\ pc'[c] = p
      /\ call'[c] = k /\ maxContexts'[c] = maxContexts[c] /\ states'[c] = b
      /\ session'[c] = session[c] /\ waiting'[c] = waiting[c]
      /\ sending'[c] = sending[c] /\ cancel'[c] = cancel[c]
  BY <1>1, <1>4, <1>5, Updated
<1>7. PICK l \in Nat, v \in {0, 1}, g \in {0, 1} :
        /\ Len(w) = l /\ waiting'[c] = v /\ Signals(cancel'[c]) = g
        /\ l + 2 + 0 + 2 * (0 + v + g) = 4 /\ 0 + v + g <= 1
  <2>1. PICK l \in Nat : Len(w) = l
    OBVIOUS
  <2>2. PICK v \in {0, 1} : waiting[c] = v
    BY <1>1, Kept
  <2>3. PICK g \in {0, 1} : Signals(cancel[c]) = g
    BY DEF Signals
  <2>4. l + 2 * r = 2 /\ r = v + g
    BY <1>2, <1>3, <2>1, <2>2, <2>3
  <2>5. l + 2 + 0 + 2 * (0 + v + g) = 4 /\ 0 + v + g <= 1
    BY <2>4
  <2> QED
    BY <1>6, <2>1, <2>2, <2>3, <2>5
<1>8. DueFor("GET_STATUS_CHANGE", p) = 4
  BY DueWords
<1>9. Balance(c, w, l, 2, 0, 0, g, v, 4)
  BY <1>2, <1>6, <1>7, <1>8, QueueCounts DEF Balance
<1>10. QueueOK(c)'
  BY <1>6 DEF QueueOK, EventQueues
<1>11. WordsOK(c)'
  <2>1. Len(w) # 4
    BY <1>7
  <2> QED
    BY <1>6, <1>8, <2>1 DEF WordsOK, Due
<1>12. OpOK(c)'
  BY <1>2, <1>6, QueuesDiffer DEF OpOK
<1>13. ClientOK(c)'
  <2>1. pc'[c] # "dead" /\ session'[c] = "open"
    BY <1>1, <1>6
  <2> QED
    BY <1>9, <1>10, <1>11, <1>12, <2>1, Balanced
<1>14. UNCHANGED <<server, daemon>>
  BY <1>4 DEF Update
<1>15. FreshOK(c)'
  <2>1. Current' = Current
    BY <1>14 DEF Current
  <2> HIDE DEF Current
  <2>2. pc'[c] # "array"
    BY <1>6
  <2>3. waiting[c] = 1 /\ pending = 0 /\ hotplug # "signal" => b = Current
    BY DEF Reply
  <2> QED
    BY <1>6, <1>14, <2>1, <2>2, <2>3 DEF FreshOK
<1> QED
  BY <1>6, <1>13, <1>14, <1>15, ClientStepLocal

\* The entries are read; if nothing has come between they are the current ones.
LEMMA ArrayReply ==
  ASSUME IInv, NEW c \in Clients, pc[c] = "array",
         call[c].op = "GET_STATUS_CHANGE",
         MessageReceive(c, READER_STATE_WORDS * maxContexts[c]),
         states' = [states EXCEPT
                      ![c] = First(c, READER_STATE_WORDS * maxContexts[c])],
         UNCHANGED <<server, daemon, maxContexts, known>>
  PROVE  LET m == READER_STATE_WORDS * maxContexts[c]
         IN  /\ Reply(c, m, First(c, m))
             /\ First(c, m) \in Seq(Nat)
<1> DEFINE x == toClient[c]
           m == READER_STATE_WORDS * maxContexts[c]
           b == First(c, m)
<1>1. Types /\ OpenOK(c) /\ session[c] = "open" /\ FreshOK(c)
  BY AliveIsOpen DEF IInv
<1>2. PICK l \in Nat, n \in Nat, a \in {0, 1}, e \in Nat, g \in {0, 1},
           v \in {0, 1} : Account(c, l, n, a, e, g, v)
  BY <1>1, Books
<1>3. m = 4 * Slots /\ m \in Nat
  BY <1>1, Sizes DEF OpenOK, OpOK, READER_STATE_WORDS
<1>4. Due(c) = 2 + m
  BY <1>3, DueWords DEF Due
<1>5. x \in Seq(Nat) /\ Len(x) = l /\ l >= m
  BY <1>1, <1>2, Kept DEF Account, MessageReceive, Available
<1>6. /\ b \in Seq(Nat) /\ Len(b) = m
      /\ \A i \in 1 .. m : b[i] = x[i]
  BY <1>3, <1>5, Received DEF First
<1>7. MessageReceive(c, m) /\ states' = [states EXCEPT ![c] = b]
  OBVIOUS
<1> HIDE DEF b, m, x
<1>8. ASSUME waiting[c] = 1, pending = 0, hotplug # "signal"
      PROVE  b = Current
  <2>1. l = m
    <3>1. l + n + e + 2 * (a + 1 + g) = 2 + m
      BY <1>2, <1>4, <1>8 DEF Account
    <3> QED
      BY <1>3, <1>5, <3>1
  <2>2. \A j \in 1 .. m : x[j] = Current[j]
    BY <1>1, <1>5, <1>8, <2>1 DEF FreshOK, x
  <2>3. \A j \in 1 .. m : b[j] = Current[j]
    BY <1>6, <2>2
  <2>4. Current = [j \in 1 .. m |-> Current[j]]
    BY <1>3 DEF Current, READER_STATE_WORDS
  <2> HIDE DEF Current
  <2>5. b = [j \in 1 .. m |-> b[j]]
    BY <1>3, <1>6
  <2> QED
    BY <2>3, <2>4, <2>5
<1>9. Reply(c, m, b)
  BY <1>1, <1>3, <1>4, <1>6, <1>7, <1>8 DEF Reply
<1> QED
  BY <1>6, <1>9 DEF b, m

\* The answer to GET_READER_EVENTS is a reply.
LEMMA EventsReply ==
  ASSUME IInv, NEW c \in Clients, pc[c] \in {"firstEvents", "events"},
         MessageReceive(c, 2),
         UNCHANGED <<server, daemon, maxContexts, states, known>>
  PROVE  /\ Reply(c, 2, states[c]) /\ states[c] \in Seq(Nat)
         /\ [PnPx \in {PnP} |-> First(c, 2)[1]] \in Events
<1>1. Types /\ OpenOK(c) /\ session[c] = "open" /\ FreshOK(c)
  BY AliveIsOpen DEF IInv
<1>2. call[c].op = "GET_STATUS_CHANGE"
  <2>1. call[c].op \in {"NONE", "LIST_READERS", "GET_STATUS_CHANGE"}
    BY <1>1, Kept DEF CallRecords
  <2> QED
    BY <1>1, <2>1 DEF OpenOK, OpOK
<1>3. Due(c) = 2 + 2
  BY <1>2, DueWords DEF Due
<1>4. states[c] \in Seq(Nat) /\ states' = [states EXCEPT ![c] = states[c]]
  BY <1>1, Kept
<1>5. waiting[c] = 1 /\ pending = 0 /\ hotplug # "signal" => states[c] = Current
  BY <1>1 DEF FreshOK
<1>6. Reply(c, 2, states[c])
  BY <1>1, <1>2, <1>3, <1>4, <1>5 DEF Reply
<1>7. First(c, 2)[1] \in Nat
  <2>1. toClient[c] \in Seq(Nat) /\ Len(toClient[c]) >= 2
    BY <1>1, Kept DEF MessageReceive, Available
  <2> QED
    BY <2>1 DEF First
<1>8. [PnPx \in {PnP} |-> First(c, 2)[1]] \in [{PnP} -> Nat]
  BY <1>7
<1>9. {PnP} \in SUBSET (PnP .. Slots)
  BY Sizes DEF PnP
<1> QED
  BY <1>4, <1>6, <1>8, <1>9 DEF Events

\* The entries are read for the first time.
LEMMA ReceiveStatesStep ==
  ASSUME IInv, NEW c \in Clients, ReceiveStates(c)
  PROVE  IInv'
<1> DEFINE m == READER_STATE_WORDS * maxContexts[c]
           b == First(c, m)
           n == ReaderCount(b)
           k == [call[c] EXCEPT !.first = FALSE, !.count = n]
<1>1. pc[c] = "array" /\ call[c].op = "GET_STATUS_CHANGE"
  BY DEF ReceiveStates
<1>2. Reply(c, m, b) /\ b \in Seq(Nat)
  BY <1>1, ArrayReply DEF ReceiveStates
<1>3. n \in Nat
  BY <1>2, ReaderCountType
<1>4. call[c] \in CallRecords
  BY Kept DEF IInv
<1> HIDE DEF n
<1>5. k \in CallRecords /\ k.op = "GET_STATUS_CHANGE"
  BY <1>1, <1>3, <1>4, CallTypes
<1>6. \/ Finish(c, [k EXCEPT !.rv = SCARD_E_UNKNOWN_READER])
      \/ /\ Send(c, <<"GET_READER_EVENTS">>)
         /\ SetCall(c, k)
         /\ Goto(c, "firstEvents")
      \/ Decide(c, k, b, FALSE)
  BY Zenon DEF ReceiveStates, n
<1> HIDE DEF m, b, k
<1>7. CASE Finish(c, [k EXCEPT !.rv = SCARD_E_UNKNOWN_READER])
  <2> DEFINE kk == [k EXCEPT !.rv = SCARD_E_UNKNOWN_READER]
  <2>1. SCARD_E_UNKNOWN_READER \in Nat
    BY DEF SCARD_E_UNKNOWN_READER
  <2>2. kk \in CallRecords /\ kk.op = "GET_STATUS_CHANGE"
    BY <1>5, <2>1, CallTypes
  <2> HIDE DEF kk
  <2>3. Leaving(c, kk)
    BY <1>7, SentCommands DEF Finish, Send, SetCall, Goto, Leaving, kk
  <2> QED
    BY <1>2, <2>2, <2>3, LeavingStep
<1>8. CASE /\ Send(c, <<"GET_READER_EVENTS">>)
           /\ SetCall(c, k)
           /\ Goto(c, "firstEvents")
  BY <1>1, <1>2, <1>5, <1>8, SentCommands, AskEventsStep
     DEF Send, SetCall, Goto
<1>9. CASE Decide(c, k, b, FALSE)
  BY <1>2, <1>5, <1>9, Decided, LeavingStep
<1> QED
  BY <1>6, <1>7, <1>8, <1>9

\* The entries are read again.
LEMMA ReceiveStatesAgainStep ==
  ASSUME IInv, NEW c \in Clients, ReceiveStatesAgain(c)
  PROVE  IInv'
<1> DEFINE m == READER_STATE_WORDS * maxContexts[c]
           b == First(c, m)
           n == ReaderCount(b)
           k == [call[c] EXCEPT !.count = n]
           kf == [k EXCEPT !.timedOut = FALSE]
<1>1. pc[c] = "array" /\ call[c].op = "GET_STATUS_CHANGE"
  BY DEF ReceiveStatesAgain
<1>2. Reply(c, m, b) /\ b \in Seq(Nat)
  BY <1>1, ArrayReply DEF ReceiveStatesAgain
<1>3. n \in Nat
  BY <1>2, ReaderCountType
<1>4. call[c] \in CallRecords
  BY Kept DEF IInv
<1> HIDE DEF n
<1>5. k \in CallRecords /\ k.op = "GET_STATUS_CHANGE"
  BY <1>1, <1>3, <1>4, CallTypes
<1>6. \/ Finish(c, [call[c] EXCEPT !.rv = SCARD_E_TIMEOUT])
      \/ /\ Send(c, <<"GET_READER_EVENTS">>)
         /\ SetCall(c, k)
         /\ Goto(c, "events")
      \/ Decide(c, kf, b, FALSE)
  BY Zenon DEF ReceiveStatesAgain, n
<1> HIDE DEF m, b, k
<1>7. CASE Finish(c, [call[c] EXCEPT !.rv = SCARD_E_TIMEOUT])
  <2> DEFINE kk == [call[c] EXCEPT !.rv = SCARD_E_TIMEOUT]
  <2>1. SCARD_E_TIMEOUT \in Nat
    BY DEF SCARD_E_TIMEOUT
  <2>2. kk \in CallRecords /\ kk.op = "GET_STATUS_CHANGE"
    BY <1>1, <1>4, <2>1, CallTypes
  <2> HIDE DEF kk
  <2>3. Leaving(c, kk)
    BY <1>7, SentCommands DEF Finish, Send, SetCall, Goto, Leaving, kk
  <2> QED
    BY <1>2, <2>2, <2>3, LeavingStep
<1>8. CASE /\ Send(c, <<"GET_READER_EVENTS">>)
           /\ SetCall(c, k)
           /\ Goto(c, "events")
  BY <1>1, <1>2, <1>5, <1>8, SentCommands, AskEventsStep
     DEF Send, SetCall, Goto
<1>9. CASE Decide(c, kf, b, FALSE)
  <2>1. kf \in CallRecords /\ kf.op = "GET_STATUS_CHANGE"
    BY <1>5, CallTypes
  <2> HIDE DEF kf
  <2> QED
    BY <1>2, <1>9, <2>1, Decided, LeavingStep
<1> QED
  BY <1>6, <1>7, <1>8, <1>9

\* getReaderEvents(), before the loop and in it.
LEMMA ReceiveEventsStep ==
  ASSUME IInv, NEW c \in Clients, ReceiveFirstEvents(c) \/ ReceiveEvents(c)
  PROVE  IInv'
<1> DEFINE f == [x \in {PnP} |-> First(c, 2)[1]]
           k == [call[c] EXCEPT !.event = f]
<1>1. /\ pc[c] \in {"firstEvents", "events"} /\ MessageReceive(c, 2)
      /\ UNCHANGED <<server, daemon, maxContexts, states, known>>
  BY DEF ReceiveFirstEvents, ReceiveEvents
<1>2. /\ Reply(c, 2, states[c]) /\ states[c] \in Seq(Nat)
      /\ f \in Events
  BY <1>1, EventsReply
<1>3. PICK break : Decide(c, k, states[c], break)
  BY Zenon DEF ReceiveFirstEvents, ReceiveEvents
<1>4. call[c] \in CallRecords /\ call[c].op = "GET_STATUS_CHANGE"
  BY <1>2, Kept DEF IInv, Reply
<1> HIDE DEF f
<1>5. k \in CallRecords /\ k.op = "GET_STATUS_CHANGE"
  BY <1>2, <1>4, CallTypes
<1> HIDE DEF k
<1> QED
  BY <1>2, <1>3, <1>5, Decided, LeavingStep

-----------------------------------------------------------------------------
\* A step of the server for one client.

Serve(c, q, w, v, t, i, g) ==
  /\ toServer' = [toServer EXCEPT ![c] = q]
  /\ toClient' = [toClient EXCEPT ![c] = w]
  /\ waiting' = [waiting EXCEPT ![c] = v]
  /\ session' = [session EXCEPT ![c] = t]
  /\ sending' = [sending EXCEPT ![c] = i]
  /\ cancel' = [cancel EXCEPT ![c] = g]
  /\ UNCHANGED <<server, client>>

Sessions == {"open", "dead", "closed"}
Cancels  == {"idle", "unregister", "signal"}

\* The other clients and the types after a step of the server for one.
LEMMA Served ==
  ASSUME Types, NEW c \in Clients, NEW q \in Seq(CommandNames),
         NEW w \in Seq(Nat), NEW v \in {0, 1}, NEW t \in Sessions,
         NEW i \in 0 .. Slots, NEW g \in Cancels,
         faults' \in 0 .. MaxFaults, Serve(c, q, w, v, t, i, g)
  PROVE  /\ Types' /\ \A d \in Clients \ {c} : Same(d)
         /\ toServer'[c] = q /\ toClient'[c] = w /\ pc'[c] = pc[c]
         /\ call'[c] = call[c] /\ maxContexts'[c] = maxContexts[c]
         /\ states'[c] = states[c]
         /\ session'[c] = t /\ waiting'[c] = v
         /\ sending'[c] = i /\ cancel'[c] = g
<1>1. TypeOK'
  BY DEF Types, TypeOK, Serve, CommandNames, WAIT, STOP, EVENTS, SIZE, ARRAY,
         Sessions, Cancels
<1>2. (call \in [Clients -> CallRecords])'
  BY DEF Types, Serve
<1>3. ReadersOK'
  BY DEF Types, Serve, ReadersOK
<1>4. ASSUME NEW d \in Clients \ {c} PROVE Same(d)
  BY DEF Serve, Same, Types, TypeOK
<1>5. /\ toServer'[c] = q /\ toClient'[c] = w /\ pc'[c] = pc[c]
      /\ call'[c] = call[c] /\ maxContexts'[c] = maxContexts[c]
      /\ states'[c] = states[c]
      /\ session'[c] = t /\ waiting'[c] = v
      /\ sending'[c] = i /\ cancel'[c] = g
  BY DEF Serve, Types, TypeOK
<1> QED
  BY <1>1, <1>2, <1>3, <1>4, <1>5 DEF Types

\* What such a step leaves alone.
LEMMA KeptByServer ==
  ASSUME Types, NEW c \in Clients
  PROVE  /\ waiting = [waiting EXCEPT ![c] = waiting[c]]
         /\ session = [session EXCEPT ![c] = session[c]]
         /\ sending = [sending EXCEPT ![c] = sending[c]]
         /\ cancel = [cancel EXCEPT ![c] = cancel[c]]
         /\ waiting[c] \in {0, 1} /\ session[c] \in Sessions
         /\ sending[c] \in 0 .. Slots /\ cancel[c] \in Cancels
         /\ faults \in 0 .. MaxFaults
<1> USE DEF Types, TypeOK
<1>1. /\ waiting = [waiting EXCEPT ![c] = waiting[c]]
      /\ session = [session EXCEPT ![c] = session[c]]
  OBVIOUS
<1>2. /\ sending = [sending EXCEPT ![c] = sending[c]]
      /\ cancel = [cancel EXCEPT ![c] = cancel[c]]
  OBVIOUS
<1>3. waiting[c] \in {0, 1} /\ sending[c] \in 0 .. Slots
  OBVIOUS
<1>4. session[c] \in Sessions /\ cancel[c] \in Cancels /\ faults \in 0 .. MaxFaults
  BY DEF Sessions, Cancels
<1> QED
  BY <1>1, <1>2, <1>3, <1>4

\* The thread of a client takes a command of one of the queues there are.
LEMMA CommandQueue ==
  ASSUME Types, NEW c \in Clients, ClientOK(c), session[c] # "closed"
  PROVE  /\ toServer[c] \in Queues
         /\ \/ session[c] = "open" /\ OpenOK(c)
            \/ session[c] = "dead" /\ DeadOK(c)
<1>1. \/ session[c] = "open" /\ OpenOK(c)
      \/ session[c] = "dead" /\ DeadOK(c)
  BY KeptByServer DEF ClientOK, Sessions
<1> QED
  BY <1>1, OpenQueues DEF DeadOK

\* A thread that ends.
LEMMA FaultsAfterExit ==
  ASSUME FaultsOK, NEW c \in Clients, session[c] = "dead",
         session' = [session EXCEPT ![c] = "closed"],
         UNCHANGED <<cancel, faults>>
  PROVE  FaultsOK'
<1>1. MortalAt # {}
  BY DEF FaultsOK
<1>2. MaxFaults <= 1 => faults # 0 /\ \A d \in Clients : cancel[d] = "idle"
  BY DEF FaultsOK
<1> QED
  BY <1>1, <1>2 DEF FaultsOK

\* The steps that close the session of a dead client.
LEMMA ExitStep ==
  ASSUME IInv, NEW c \in Clients, session[c] = "dead",
         NEW q \in Queues, sending[c] = 0,
         Serve(c, q, toClient[c], 0, "closed", sending[c], cancel[c]),
         UNCHANGED faults
  PROVE  IInv'
<1>1. /\ Types /\ DeadOK(c) /\ toClient[c] \in Seq(Nat)
      /\ q \in Seq(CommandNames) /\ sending[c] \in 0 .. Slots
      /\ cancel[c] \in Cancels /\ faults' \in 0 .. MaxFaults
      /\ 0 \in {0, 1} /\ "closed" \in Sessions
  BY Kept, KeptByServer, QueueTypes DEF IInv, ClientOK, Sessions
<1>2. /\ Types' /\ \A d \in Clients \ {c} : Same(d)
      /\ toServer'[c] = q /\ toClient'[c] = toClient[c] /\ pc'[c] = pc[c]
      /\ call'[c] = call[c]
      /\ session'[c] = "closed" /\ waiting'[c] = 0
      /\ sending'[c] = sending[c] /\ cancel'[c] = cancel[c]
  <2>1. PICK w \in Seq(Nat), v \in {0, 1}, t \in Sessions, i \in 0 .. Slots,
             g \in Cancels :
          /\ w = toClient[c] /\ v = 0 /\ t = "closed" /\ i = sending[c]
          /\ g = cancel[c]
    BY <1>1
  <2>2. Serve(c, q, w, v, t, i, g)
    BY <2>1
  <2> QED
    BY <1>1, <2>1, <2>2, Served
<1>3. ClientOK(c)'
  BY <1>1, <1>2 DEF ClientOK, ClosedOK, DeadOK
<1>4. FreshOK(c)'
  BY <1>2 DEF FreshOK
<1>5. FaultsOK'
  <2>1. session' = [session EXCEPT ![c] = "closed"] /\ UNCHANGED <<cancel, faults>>
    BY <1>1, KeptByServer DEF Serve
  <2> QED
    BY <2>1, FaultsAfterExit DEF IInv
<1>6. UNCHANGED server
  BY DEF Serve
<1> QED
  BY <1>2, <1>3, <1>4, <1>5, <1>6, LocalStep

\* A step for a client that has died, and whose thread goes on.
LEMMA DeadStep ==
  ASSUME IInv, NEW c \in Clients, session[c] = "dead",
         NEW q \in Queues, NEW v \in {0, 1}, NEW i \in 0 .. Slots,
         Serve(c, q, toClient[c], v, "dead", i, cancel[c]),
         UNCHANGED faults,
         Asked(q) = 1 \/ q \in {qEvents, qEventsStop} => v = 0
  PROVE  IInv'
<1>1. /\ Types /\ DeadOK(c) /\ toClient[c] \in Seq(Nat)
      /\ q \in Seq(CommandNames)
      /\ cancel[c] \in Cancels /\ faults' \in 0 .. MaxFaults
      /\ "dead" \in Sessions
  BY Kept, KeptByServer, QueueTypes DEF IInv, ClientOK, Sessions
<1>2. /\ Types' /\ \A d \in Clients \ {c} : Same(d)
      /\ toServer'[c] = q /\ toClient'[c] = toClient[c] /\ pc'[c] = pc[c]
      /\ call'[c] = call[c]
      /\ session'[c] = "dead" /\ waiting'[c] = v
      /\ cancel'[c] = cancel[c]
  BY <1>1, Served
<1>3. ClientOK(c)'
  BY <1>1, <1>2 DEF ClientOK, DeadOK
<1>4. FreshOK(c)'
  BY <1>2 DEF FreshOK
<1>5. FaultsOK'
  <2>1. UNCHANGED <<session, cancel, faults>>
    BY <1>1, KeptByServer DEF Serve
  <2> QED
    BY <2>1, SameFaults DEF IInv
<1>6. UNCHANGED server
  BY DEF Serve
<1> QED
  BY <1>2, <1>3, <1>4, <1>5, <1>6, LocalStep

\* A step for a client that is there: the balance after it, and what the
\* client finds.
Ledger(c, q, w, v, i, g, l, n, a, e, s) ==
  /\ q \in Queues /\ w \in Seq(Nat) /\ v \in {0, 1} /\ i \in 0 .. Slots
  /\ g \in Cancels /\ (cancel[c] = "idle" => g = "idle")
  /\ l \in Nat /\ n \in Nat /\ a \in {0, 1} /\ e \in Nat /\ s \in {0, 1}
  /\ Len(w) = l /\ QueuedWords(q) = n /\ Asked(q) = a /\ EntryWords(i) = e
  /\ Signals(g) = s
  /\ l + n + e + 2 * (a + v + s) = Due(c) /\ a + v + s <= 1
  /\ call[c].op = "LIST_READERS" => a + v + s = 0
  /\ call[c].op = "GET_STATUS_CHANGE" => q # qStopSize

QueueAt(p, q) ==
  /\ p = "idle" => q \in IdleQueues
  /\ p = "size" => q \in SizeQueues
  /\ p = "array" => q \in ArrayQueues
  /\ p \in {"firstEvents", "events", "wait"} => q \in EventQueues
  /\ p = "stop" => q \in StopQueues
  /\ p = "endStop" => q \in EndQueues

SizeAt(c, q, w) ==
  pc[c] = "size" /\ w # << >> =>
    \/ w[1] = Slots /\ q = qNone
    \/ w[1] = 0 /\ call[c].op = "GET_STATUS_CHANGE"

LastAt(c, w) ==
  (/\ pc[c] \in {"array", "firstEvents", "events", "wait", "stop"}
   /\ call[c].op = "GET_STATUS_CHANGE"
   /\ Len(w) = Due(c))
  => w[Len(w)] \in {SCARD_S_SUCCESS, SCARD_E_CANCELLED}

FreshAt(c, w, v) ==
  v = 1 /\ pending = 0 /\ hotplug # "signal" =>
    /\ pc[c] = "array" => \A j \in 1 .. Len(w) : w[j] = Current[j]
    /\ pc[c] \in {"firstEvents", "events", "wait"} => states[c] = Current

\* A client the books of which are right after a step for it is right.
LEMMA OpenStep ==
  ASSUME IInv, NEW c \in Clients, session[c] = "open",
         NEW q, NEW w, NEW v, NEW i, NEW g, NEW l, NEW n, NEW a, NEW e, NEW s,
         Serve(c, q, w, v, "open", i, g), UNCHANGED faults,
         Ledger(c, q, w, v, i, g, l, n, a, e, s), QueueAt(pc[c], q),
         SizeAt(c, q, w), LastAt(c, w), FreshAt(c, w, v)
  PROVE  IInv'
<1>1. /\ Types /\ OpenOK(c)
      /\ faults' \in 0 .. MaxFaults /\ "open" \in Sessions
  BY Kept, KeptByServer DEF IInv, ClientOK, Sessions
<1>2. /\ q \in Seq(CommandNames) /\ w \in Seq(Nat) /\ v \in {0, 1}
      /\ i \in 0 .. Slots /\ g \in Cancels
  BY QueueTypes DEF Ledger
<1>3. /\ Types' /\ \A x \in Clients \ {c} : Same(x)
      /\ toServer'[c] = q /\ toClient'[c] = w /\ pc'[c] = pc[c]
      /\ call'[c] = call[c] /\ maxContexts'[c] = maxContexts[c]
      /\ states'[c] = states[c]
      /\ session'[c] = "open" /\ waiting'[c] = v
      /\ sending'[c] = i /\ cancel'[c] = g
  BY <1>1, <1>2, Served
<1>4. Balance(c, w, l, n, a, e, s, v, Due(c))
  BY <1>3 DEF Balance, Ledger, Due
<1>5. a + v + s = Registrations(c)' => OpOK(c)'
  BY <1>1, <1>3 DEF OpenOK, OpOK, Ledger
<1>6. QueueOK(c)'
  BY <1>3 DEF QueueOK, QueueAt
<1>7. WordsOK(c)'
  <2>1. Due(c)' = Due(c)
    BY <1>3 DEF Due
  <2> QED
    BY <1>3, <2>1 DEF WordsOK, SizeAt, LastAt
<1>8. ClientOK(c)'
  BY <1>1, <1>3, <1>4, <1>5, <1>6, <1>7, Balanced DEF OpenOK
<1>9. FaultsOK'
  <2>1. /\ UNCHANGED <<session, faults>>
        /\ \A x \in Clients : cancel'[x] # "idle" => cancel[x] # "idle"
    <3>1. UNCHANGED session
      BY <1>1, KeptByServer DEF Serve
    <3>2. cancel[c] = "idle" => g = "idle"
      BY DEF Ledger
    <3> QED
      BY <1>1, <3>1, <3>2 DEF Serve, Types, TypeOK
  <2>2. FaultsOK
    BY DEF IInv
  <2> QED
    BY <2>1, <2>2 DEF FaultsOK
<1>10. UNCHANGED server
  BY DEF Serve
<1>11. FreshOK(c)'
  <2>1. Current' = Current
    BY <1>10 DEF Current
  <2> HIDE DEF Current
  <2> QED
    BY <1>3, <1>10, <2>1 DEF FreshOK, FreshAt
<1> QED
  BY <1>3, <1>8, <1>9, <1>10, <1>11, LocalStep

\* What the client would find now.
LEMMA OpenNow ==
  ASSUME NEW c \in Clients, OpenOK(c), FreshOK(c), session[c] = "open"
  PROVE  /\ QueueAt(pc[c], toServer[c]) /\ SizeAt(c, toServer[c], toClient[c])
         /\ LastAt(c, toClient[c]) /\ FreshAt(c, toClient[c], waiting[c])
<1>1. QueueAt(pc[c], toServer[c])
  BY DEF OpenOK, QueueOK, QueueAt
<1>2. SizeAt(c, toServer[c], toClient[c]) /\ LastAt(c, toClient[c])
  BY DEF OpenOK, WordsOK, SizeAt, LastAt
<1>3. FreshAt(c, toClient[c], waiting[c])
  BY DEF FreshOK, FreshAt
<1> QED
  BY <1>1, <1>2, <1>3

\* At which step of the client a queue can be met.
LEMMA QueueSteps ==
  ASSUME NEW p \in Steps \ {"dead"}, NEW q, QueueAt(p, q)
  PROVE  /\ q \in {qWaitSize, qStopWaitSize, qStopSize, qSize} => p = "size"
         /\ q = qArray => p = "array"
         /\ q = qStop => p \in {"idle", "stop", "endStop"}
         /\ q = qEvents => p \in {"firstEvents", "events", "wait"}
         /\ q = qEventsStop => p \in {"stop", "endStop"}
         /\ q = qSizeStop => p = "endStop"
BY QueuesDiffer DEF QueueAt, Steps, IdleQueues, SizeQueues, ArrayQueues,
   EventQueues, StopQueues, EndQueues

\* The call a step belongs to.
LEMMA OpOfStep ==
  ASSUME Types, NEW c \in Clients, OpenOK(c)
  PROVE  /\ pc[c] \in Steps \ {"dead"}
         /\ pc[c] # "idle" =>
              call[c].op \in {"LIST_READERS", "GET_STATUS_CHANGE"}
         /\ pc[c] \in {"firstEvents", "events", "wait", "stop", "endStop"} =>
              call[c].op = "GET_STATUS_CHANGE"
<1>1. call[c].op \in {"NONE", "LIST_READERS", "GET_STATUS_CHANGE"}
  BY Kept DEF CallRecords
<1>2. pc[c] \in Steps \ {"dead"}
  BY Kept DEF OpenOK
<1> QED
  BY <1>1, <1>2 DEF OpenOK, OpOK

\* EHRegisterClientForEvent(): the client was not in the list.
LEMMA WaitStep ==
  ASSUME IInv, NEW c \in Clients, WaitReaderStateChange(c)
  PROVE  IInv'
<1> DEFINE s == toServer[c]
<1>1. /\ Types /\ ClientOK(c) /\ FreshOK(c) /\ session[c] # "closed"
      /\ s # qNone /\ Head(s) = WAIT
  BY DEF IInv, WaitReaderStateChange, Command, qNone, WAIT
<1>2. /\ s \in Queues
      /\ \/ session[c] = "open" /\ OpenOK(c)
         \/ session[c] = "dead" /\ DeadOK(c)
  BY <1>1, CommandQueue
<1>3. s = qWaitSize /\ Tail(s) = qSize
  BY <1>1, <1>2, QueueHeads, QueueTails
<1>4. waiting[c] = 0
  <2>1. CASE session[c] = "dead" /\ DeadOK(c)
    BY <1>3, <2>1, QueueCounts DEF DeadOK
  <2>2. CASE session[c] = "open" /\ OpenOK(c)
    <3>1. PICK l \in Nat, n \in Nat, a \in {0, 1}, e \in Nat, g \in {0, 1},
               v \in {0, 1} : Account(c, l, n, a, e, g, v)
      BY <1>1, <2>2, Books
    <3>2. a = 1 /\ a + v + g <= 1
      BY <1>3, <3>1, QueueCounts DEF Account
    <3>3. v = 0
      BY <3>2
    <3> QED
      BY <3>1, <3>3 DEF Account
  <2> QED
    BY <1>2, <2>1, <2>2
<1>5. /\ Serve(c, qSize, toClient[c], 1, session[c], sending[c], cancel[c])
      /\ UNCHANGED faults
  <2>1. toServer' = [toServer EXCEPT ![c] = qSize]
    BY <1>1, <1>3 DEF WaitReaderStateChange, Command, Types, TypeOK
  <2>2. waiting' = [waiting EXCEPT ![c] = 1]
    BY <1>1, <1>4 DEF WaitReaderStateChange, Types, TypeOK
  <2> QED
    BY <1>1, <2>1, <2>2, Kept, KeptByServer DEF WaitReaderStateChange, Serve
<1>6. qSize \in Queues /\ QueuedWords(qSize) = 1 /\ Asked(qSize) = 0
  BY QueueTypes, QueueCounts
<1>7. CASE session[c] = "dead"
  <2>1. ~(Asked(qSize) = 1 \/ qSize \in {qEvents, qEventsStop})
    BY <1>6, QueuesDiffer
  <2>2. sending[c] \in 0 .. Slots /\ 1 \in {0, 1}
    BY <1>1, KeptByServer
  <2> QED
    BY <1>5, <1>6, <1>7, <2>1, <2>2, DeadStep
<1>8. CASE session[c] = "open" /\ OpenOK(c)
  <2>1. PICK l \in Nat, n \in Nat, a \in {0, 1}, e \in Nat, g \in {0, 1},
             v \in {0, 1} : Account(c, l, n, a, e, g, v)
    BY <1>1, <1>8, Books
  <2>2. a = 1 /\ n = 1 /\ v = 0 /\ g = 0
    BY <1>3, <1>4, <2>1, QueueCounts DEF Account
  <2>3. pc[c] = "size" /\ call[c].op = "GET_STATUS_CHANGE"
    <3>1. pc[c] = "size"
      BY <1>1, <1>3, <1>8, OpenNow, OpOfStep, QueueSteps
    <3>2. call[c].op # "LIST_READERS"
      BY <1>8, <2>1, <2>2 DEF OpenOK, OpOK, Account
    <3> QED
      BY <1>1, <1>8, <3>1, <3>2, OpOfStep
  <2>4. Ledger(c, qSize, toClient[c], 1, sending[c], cancel[c], l, 1, 0, e, 0)
    <3>1. l + 1 + e + 2 * (0 + 1 + 0) = Due(c)
      BY <2>1, <2>2 DEF Account
    <3>2. qSize # qStopSize
      BY QueuesDiffer
    <3> QED
      BY <1>1, <1>6, <2>1, <2>2, <2>3, <3>1, <3>2, Kept, KeptByServer
         DEF Ledger, Account
  <2>5. QueueAt(pc[c], qSize)
    BY <2>3 DEF QueueAt, SizeQueues
  <2>6. SizeAt(c, qSize, toClient[c])
    <3>1. SizeAt(c, s, toClient[c]) /\ s # qNone
      BY <1>1, <1>8, OpenNow
    <3> QED
      BY <3>1 DEF SizeAt
  <2>7. LastAt(c, toClient[c]) /\ FreshAt(c, toClient[c], 1)
    BY <2>3 DEF LastAt, FreshAt
  <2> QED
    BY <1>5, <1>8, <2>4, <2>5, <2>6, <2>7, OpenStep
<1> QED
  BY <1>2, <1>7, <1>8

\* Words that are written.
LEMMA Written ==
  ASSUME NEW w \in Seq(Nat), NEW x \in Nat, NEW y \in Nat
  PROVE  /\ w \o <<x>> \in Seq(Nat) /\ Len(w \o <<x>>) = Len(w) + 1
         /\ (w \o <<x>>)[1] = IF w = << >> THEN x ELSE w[1]
         /\ w \o <<x, y>> \in Seq(Nat) /\ Len(w \o <<x, y>>) = Len(w) + 2
         /\ (w \o <<x, y>>)[Len(w) + 2] = y
         /\ (w \o <<x, y>>)[1] = IF w = << >> THEN x ELSE w[1]
<1>1. /\ w \o <<x>> \in Seq(Nat) /\ Len(w \o <<x>>) = Len(w) + 1
      /\ w \o <<x, y>> \in Seq(Nat) /\ Len(w \o <<x, y>>) = Len(w) + 2
      /\ (w \o <<x, y>>)[Len(w) + 2] = y
  OBVIOUS
<1>2. CASE w = << >>
  BY <1>1, <1>2
<1>3. CASE w # << >>
  <2>1. Len(w) >= 1
    BY <1>3
  <2>2. (w \o <<x>>)[1] = w[1] /\ (w \o <<x, y>>)[1] = w[1]
    BY <2>1
  <2> QED
    BY <1>1, <1>3, <2>2
<1> QED
  BY <1>2, <1>3

\* Nobody is in the list twice.
LEMMA Unregistered ==
  ASSUME Types, NEW c \in Clients, EHUnregisterClientForEvent(c)
  PROVE  waiting' = [waiting EXCEPT ![c] = 0]
<1>1. (IF waiting[c] > 0 THEN waiting[c] - 1 ELSE 0) = 0
  BY KeptByServer
<1> QED
  BY <1>1, Zenon DEF EHUnregisterClientForEvent

\* CMD_STOP_WAITING_READER_STATE_CHANGE: answered, or crossed.
LEMMA StopStep ==
  ASSUME IInv, NEW c \in Clients, StopWaitingReaderStateChange(c)
  PROVE  IInv'
<1> DEFINE s == toServer[c]
           q == Tail(s)
<1>1. /\ Types /\ ClientOK(c) /\ FreshOK(c) /\ session[c] # "closed"
      /\ s # qNone /\ Head(s) = STOP /\ sending[c] = 0
  BY DEF IInv, StopWaitingReaderStateChange, Command, qNone, STOP
<1>2. /\ s \in Queues
      /\ \/ session[c] = "open" /\ OpenOK(c)
         \/ session[c] = "dead" /\ DeadOK(c)
  BY <1>1, CommandQueue
<1>3. \/ s = qStop /\ q = qNone
      \/ s = qStopSize /\ q = qSize
      \/ s = qStopWaitSize /\ q = qWaitSize
  BY <1>1, <1>2, QueueHeads, QueueTails
<1>4. q \in Queues /\ q \notin {qEvents, qEventsStop}
  BY <1>3, QueueTypes, QueuesDiffer
<1>5. QueuedWords(q) = QueuedWords(s) /\ Asked(q) = Asked(s)
  BY <1>3, QueueCounts
<1>6. toServer' = [toServer EXCEPT ![c] = q]
  BY DEF StopWaitingReaderStateChange, Command
<1>7. waiting' = [waiting EXCEPT ![c] = 0]
  BY <1>1, Unregistered DEF StopWaitingReaderStateChange
<1>8. waiting[c] \in {0, 1} /\ sending[c] \in 0 .. Slots /\ toClient[c] \in Seq(Nat)
  BY <1>1, Kept, KeptByServer
<1> HIDE DEF q
<1>9. CASE waiting[c] = 0
  <2>1. /\ Serve(c, q, toClient[c], 0, session[c], sending[c], cancel[c])
        /\ UNCHANGED faults
    BY <1>1, <1>6, <1>7, <1>9, Kept, KeptByServer
       DEF StopWaitingReaderStateChange, StopWaitingAnswered, Serve
  <2>2. CASE session[c] = "dead"
    BY <1>4, <1>8, <2>1, <2>2, DeadStep
  <2>3. CASE session[c] = "open" /\ OpenOK(c)
    <3>1. PICK l \in Nat, n \in Nat, a \in {0, 1}, e \in Nat, g \in {0, 1},
               v \in {0, 1} : Account(c, l, n, a, e, g, v)
      BY <1>1, <2>3, Books
    <3>2. Ledger(c, q, toClient[c], 0, sending[c], cancel[c], l, n, a, e, g)
      <4>1. v = 0 /\ l + n + e + 2 * (a + 0 + g) = Due(c)
        BY <1>9, <3>1 DEF Account
      <4>2. call[c].op = "LIST_READERS" => a + 0 + g = 0
        BY <2>3, <3>1, <4>1 DEF Account, OpenOK, OpOK
      <4>3. q # qStopSize
        BY <1>3, QueuesDiffer
      <4> QED
        BY <1>1, <1>4, <1>5, <3>1, <4>1, <4>2, <4>3, Kept, KeptByServer
           DEF Ledger, Account
    <3>3. /\ QueueAt(pc[c], s) /\ SizeAt(c, s, toClient[c])
          /\ LastAt(c, toClient[c])
      BY <1>1, <2>3, OpenNow
    <3>4. QueueAt(pc[c], q)
      BY <1>1, <1>3, <2>3, <3>3, OpOfStep, QueueSteps
         DEF QueueAt, IdleQueues, SizeQueues, StopQueues, EndQueues
    <3>5. SizeAt(c, q, toClient[c])
      BY <1>1, <3>3 DEF SizeAt
    <3>6. FreshAt(c, toClient[c], 0)
      BY DEF FreshAt
    <3> QED
      BY <2>1, <2>3, <3>2, <3>3, <3>4, <3>5, <3>6, OpenStep
  <2> QED
    BY <1>2, <2>2, <2>3
<1>10. CASE waiting[c] = 1
  <2>1. Answer(c, Notification(SCARD_S_SUCCESS))
    BY <1>10 DEF StopWaitingReaderStateChange, StopWaitingAnswered
  <2>2. CASE session[c] = "dead"
    <3>1. /\ Serve(c, q, toClient[c], 0, "closed", sending[c], cancel[c])
          /\ UNCHANGED faults
      BY <1>1, <1>6, <1>7, <2>1, <2>2, Kept, KeptByServer
         DEF StopWaitingReaderStateChange, Answer, Exit, Serve
    <3> QED
      BY <1>1, <1>4, <2>2, <3>1, ExitStep
  <2>3. CASE session[c] = "open" /\ OpenOK(c)
    <3> DEFINE w == toClient[c] \o <<0, 0>>
    <3>1. PICK l \in Nat, n \in Nat, a \in {0, 1}, e \in Nat, g \in {0, 1},
               v \in {0, 1} : Account(c, l, n, a, e, g, v)
      BY <1>1, <2>3, Books
    <3>2. v = 1 /\ a = 0 /\ g = 0
      BY <1>10, <3>1 DEF Account
    <3>3. /\ QueueAt(pc[c], s) /\ pc[c] \in Steps \ {"dead"}
      BY <1>1, <2>3, OpenNow, OpOfStep
    <3>4. call[c].op # "LIST_READERS"
      <4>1. Registrations(c) = 1
        BY <3>1, <3>2 DEF Account
      <4> QED
        BY <2>3, <4>1 DEF OpenOK, OpOK
    <3>5. s # qStopWaitSize
      BY <3>1, <3>2, QueueCounts DEF Account
    <3>6. s # qStopSize
      <4>1. ASSUME s = qStopSize PROVE FALSE
        <5>1. pc[c] = "size"
          BY <3>3, <4>1, QueueSteps
        <5>2. call[c].op = "GET_STATUS_CHANGE"
          BY <1>1, <2>3, <3>4, <5>1, OpOfStep
        <5> QED
          BY <2>3, <4>1, <5>2 DEF OpenOK, OpOK
      <4> QED
        BY <4>1
    <3>7. s = qStop /\ q = qNone
      BY <1>3, <3>5, <3>6
    <3>8. pc[c] \in {"stop", "endStop"}
      <4>1. pc[c] # "idle"
        BY <1>1, <1>10, <2>3, IdleIsQuiet
      <4> QED
        BY <3>3, <3>7, <4>1, QueueSteps
    <3>9. w \in Seq(Nat) /\ Len(w) = l + 2 /\ w[l + 2] = 0
      <4>1. Len(toClient[c]) = l
        BY <3>1 DEF Account
      <4> QED
        BY <1>8, <4>1, Written
    <3>10. /\ Serve(c, q, w, 0, "open", sending[c], cancel[c])
           /\ UNCHANGED faults
      <4>1. toClient' = [toClient EXCEPT ![c] = w] /\ UNCHANGED session
        BY <1>1, <2>1, <2>3
           DEF Answer, Write, Notification, SCARD_S_SUCCESS, Types, TypeOK
      <4> HIDE DEF w
      <4> QED
        BY <1>1, <1>6, <1>7, <2>3, <4>1, Kept, KeptByServer
           DEF StopWaitingReaderStateChange, Serve
    <3> HIDE DEF w
    <3>11. Ledger(c, q, w, 0, sending[c], cancel[c], l + 2, n, 0, e, 0)
      <4>1. (l + 2) + n + e + 2 * (0 + 0 + 0) = Due(c)
        BY <3>1, <3>2 DEF Account
      <4>2. q # qStopSize
        BY <3>7, QueuesDiffer
      <4> QED
        BY <1>1, <1>4, <1>5, <3>1, <3>2, <3>4, <3>9, <4>1, <4>2, Kept,
           KeptByServer
           DEF Ledger, Account
    <3>12. QueueAt(pc[c], q)
      BY <3>7, <3>8 DEF QueueAt, StopQueues, EndQueues
    <3>13. SizeAt(c, q, w) /\ FreshAt(c, w, 0)
      BY <3>8 DEF SizeAt, FreshAt
    <3>14. LastAt(c, w)
      BY <3>9 DEF LastAt, SCARD_S_SUCCESS
    <3> QED
      BY <2>3, <3>10, <3>11, <3>12, <3>13, <3>14, OpenStep
  <2> QED
    BY <1>2, <2>2, <2>3
<1> QED
  BY <1>8, <1>9, <1>10

\* CMD_GET_READER_EVENTS.
LEMMA EventsStep ==
  ASSUME IInv, NEW c \in Clients, GetReaderEvents(c)
  PROVE  IInv'
<1> DEFINE s == toServer[c]
           q == Tail(s)
           w == toClient[c] \o <<ReaderEvents, 0>>
<1>1. /\ Types /\ ClientOK(c) /\ FreshOK(c) /\ session[c] # "closed"
      /\ s # qNone /\ Head(s) = EVENTS /\ sending[c] = 0
  BY DEF IInv, GetReaderEvents, Command, qNone, EVENTS
<1>2. /\ s \in Queues
      /\ \/ session[c] = "open" /\ OpenOK(c)
         \/ session[c] = "dead" /\ DeadOK(c)
  BY <1>1, CommandQueue
<1>3. \/ s = qEvents /\ q = qNone
      \/ s = qEventsStop /\ q = qStop
  BY <1>1, <1>2, QueueHeads, QueueTails
<1>4. q \in Queues /\ q # qStopSize
  BY <1>3, QueueTypes, QueuesDiffer
<1>5. QueuedWords(q) = 0 /\ QueuedWords(s) = 2 /\ Asked(q) = 0 /\ Asked(s) = 0
  BY <1>3, QueueCounts
<1>6. toServer' = [toServer EXCEPT ![c] = q]
  BY DEF GetReaderEvents, Command
<1>7. toClient[c] \in Seq(Nat)
  BY <1>1, Kept
<1> HIDE DEF q
<1>8. CASE session[c] = "dead" /\ DeadOK(c)
  <2>1. waiting[c] = 0
    BY <1>3, <1>8 DEF DeadOK
  <2>2. /\ Serve(c, q, toClient[c], 0, "closed", sending[c], cancel[c])
        /\ UNCHANGED faults
    BY <1>1, <1>6, <1>8, <2>1, Kept, KeptByServer
       DEF GetReaderEvents, Answer, Exit, Serve
  <2> QED
    BY <1>1, <1>4, <1>8, <2>2, ExitStep
<1>9. CASE session[c] = "open" /\ OpenOK(c)
  <2>1. PICK l \in Nat, n \in Nat, a \in {0, 1}, e \in Nat, g \in {0, 1},
             v \in {0, 1} : Account(c, l, n, a, e, g, v)
    BY <1>1, <1>9, Books
  <2>2. n = 2 /\ a = 0
    BY <1>5, <2>1 DEF Account
  <2>3. QueueAt(pc[c], s) /\ FreshAt(c, toClient[c], waiting[c])
    BY <1>1, <1>9, OpenNow
  <2>4. pc[c] \in {"firstEvents", "events", "wait", "stop", "endStop"}
    BY <1>1, <1>3, <1>9, <2>3, OpOfStep, QueueSteps
  <2>5. call[c].op = "GET_STATUS_CHANGE"
    BY <1>1, <1>9, <2>4, OpOfStep
  <2>6. w \in Seq(Nat) /\ Len(w) = l + 2 /\ w[l + 2] = 0
    <3>1. Len(toClient[c]) = l /\ ReaderEvents \in Nat /\ 0 \in Nat
      BY <1>1, <2>1 DEF Account, Types, TypeOK
    <3>2. /\ w \in Seq(Nat) /\ Len(w) = Len(toClient[c]) + 2
          /\ w[Len(toClient[c]) + 2] = 0
      <4>1. \A t \in Seq(Nat), x \in Nat :
              /\ t \o <<x, 0>> \in Seq(Nat) /\ Len(t \o <<x, 0>>) = Len(t) + 2
              /\ (t \o <<x, 0>>)[Len(t) + 2] = 0
        BY Written
      <4> QED
        BY <1>7, <3>1, <4>1, Zenon
    <3> HIDE DEF w
    <3> QED
      BY <3>1, <3>2
  <2>7. /\ Serve(c, q, w, v, "open", sending[c], cancel[c])
        /\ UNCHANGED faults
    <3>1. toClient' = [toClient EXCEPT ![c] = w] /\ UNCHANGED session
      BY <1>1, <1>9
         DEF GetReaderEvents, Answer, Write, SCARD_S_SUCCESS, Types, TypeOK
    <3>2. waiting' = [waiting EXCEPT ![c] = v]
      BY <1>1, <2>1, KeptByServer DEF GetReaderEvents, Account
    <3> HIDE DEF w
    <3> QED
      BY <1>1, <1>6, <1>9, <3>1, <3>2, Kept, KeptByServer
         DEF GetReaderEvents, Serve
  <2> HIDE DEF w
  <2>8. Ledger(c, q, w, v, sending[c], cancel[c], l + 2, 0, 0, e, g)
    <3>1. (l + 2) + 0 + e + 2 * (0 + v + g) = Due(c) /\ 0 + v + g <= 1
      BY <2>1, <2>2 DEF Account
    <3> QED
      BY <1>1, <1>4, <1>5, <2>1, <2>5, <2>6, <3>1, Kept, KeptByServer
         DEF Ledger, Account
  <2>9. QueueAt(pc[c], q)
    <3>1. s = qEvents => pc[c] \in {"firstEvents", "events", "wait"}
      BY <1>1, <1>9, <2>3, OpOfStep, QueueSteps
    <3>2. s = qEventsStop => pc[c] \in {"stop", "endStop"}
      BY <1>1, <1>9, <2>3, OpOfStep, QueueSteps
    <3> QED
      BY <1>3, <3>1, <3>2 DEF QueueAt, StopQueues, EndQueues, EventQueues
  <2>10. SizeAt(c, q, w)
    BY <2>4 DEF SizeAt
  <2>11. FreshAt(c, w, v)
    <3>1. waiting[c] = v
      BY <2>1 DEF Account
    <3> QED
      BY <2>3, <2>4, <3>1 DEF FreshAt
  <2>12. LastAt(c, w)
    BY <2>6 DEF LastAt, SCARD_S_SUCCESS
  <2> QED
    BY <1>9, <2>7, <2>8, <2>9, <2>10, <2>11, <2>12, OpenStep
<1> QED
  BY <1>2, <1>8, <1>9

\* CMD_GET_READERS_STATE_SIZE.
LEMMA SizeStep ==
  ASSUME IInv, NEW c \in Clients, GetReadersStateSize(c)
  PROVE  IInv'
<1> DEFINE s == toServer[c]
           q == Tail(s)
           w == toClient[c] \o <<Slots>>
<1>1. /\ Types /\ ClientOK(c) /\ FreshOK(c) /\ session[c] # "closed"
      /\ s # qNone /\ Head(s) = SIZE /\ sending[c] = 0
  BY DEF IInv, GetReadersStateSize, Command, qNone, SIZE
<1>2. /\ s \in Queues
      /\ \/ session[c] = "open" /\ OpenOK(c)
         \/ session[c] = "dead" /\ DeadOK(c)
  BY <1>1, CommandQueue
<1>3. \/ s = qSize /\ q = qNone
      \/ s = qSizeStop /\ q = qStop
  BY <1>1, <1>2, QueueHeads, QueueTails
<1>4. q \in Queues /\ q # qStopSize /\ q \notin {qEvents, qEventsStop}
  BY <1>3, QueueTypes, QueuesDiffer
<1>5. QueuedWords(q) = 0 /\ QueuedWords(s) = 1 /\ Asked(q) = 0 /\ Asked(s) = 0
  BY <1>3, QueueCounts
<1>6. toServer' = [toServer EXCEPT ![c] = q]
  BY DEF GetReadersStateSize, Command
<1>7. toClient[c] \in Seq(Nat) /\ sending[c] \in 0 .. Slots /\ waiting[c] \in {0, 1}
  BY <1>1, Kept, KeptByServer
<1> HIDE DEF q
<1>8. CASE session[c] = "dead" /\ DeadOK(c)
  <2>1. /\ Serve(c, q, toClient[c], waiting[c], "dead", sending[c], cancel[c])
        /\ UNCHANGED faults
    BY <1>1, <1>6, <1>8, Kept, KeptByServer
       DEF GetReadersStateSize, Write, Serve
  <2> QED
    BY <1>4, <1>5, <1>7, <1>8, <2>1, DeadStep
<1>9. CASE session[c] = "open" /\ OpenOK(c)
  <2>1. PICK l \in Nat, n \in Nat, a \in {0, 1}, e \in Nat, g \in {0, 1},
             v \in {0, 1} : Account(c, l, n, a, e, g, v)
    BY <1>1, <1>9, Books
  <2>2. n = 1 /\ a = 0
    BY <1>5, <2>1 DEF Account
  <2>3. QueueAt(pc[c], s) /\ SizeAt(c, s, toClient[c])
    BY <1>1, <1>9, OpenNow
  <2>4. /\ s = qSize => pc[c] = "size"
        /\ s = qSizeStop => pc[c] = "endStop"
    BY <1>1, <1>9, <2>3, OpOfStep, QueueSteps
  <2>5. pc[c] = "size" \/ pc[c] = "endStop"
    BY <1>3, <2>4
  <2>6. /\ w \in Seq(Nat) /\ Len(w) = l + 1
        /\ w[1] = IF toClient[c] = << >> THEN Slots ELSE toClient[c][1]
    <3>1. Len(toClient[c]) = l /\ Slots \in Nat
      BY <2>1, Sizes DEF Account
    <3> QED
      BY <1>7, <3>1, Written
  <2>7. /\ Serve(c, q, w, v, "open", sending[c], cancel[c])
        /\ UNCHANGED faults
    <3>1. toClient' = [toClient EXCEPT ![c] = w]
      BY <1>1, <1>9 DEF GetReadersStateSize, Write, Types, TypeOK
    <3>2. waiting' = [waiting EXCEPT ![c] = v]
      BY <1>1, <2>1, KeptByServer DEF GetReadersStateSize, Account
    <3> HIDE DEF w
    <3> QED
      BY <1>1, <1>6, <1>9, <3>1, <3>2, Kept, KeptByServer
         DEF GetReadersStateSize, Serve
  <2> HIDE DEF w
  <2>8. Ledger(c, q, w, v, sending[c], cancel[c], l + 1, 0, 0, e, g)
    <3>1. (l + 1) + 0 + e + 2 * (0 + v + g) = Due(c) /\ 0 + v + g <= 1
      BY <2>1, <2>2 DEF Account
    <3>2. call[c].op = "LIST_READERS" => 0 + v + g = 0
      BY <1>9, <2>1, <2>2 DEF OpenOK, OpOK, Account
    <3> QED
      BY <1>1, <1>4, <1>5, <2>1, <2>6, <3>1, <3>2, Kept, KeptByServer
         DEF Ledger, Account
  <2>9. QueueAt(pc[c], q)
    BY <1>3, <2>4 DEF QueueAt, SizeQueues, StopQueues, EndQueues
  <2>10. SizeAt(c, q, w)
    <3>1. CASE pc[c] = "size"
      <4>1. s = qSize /\ q = qNone /\ s # qNone
        BY <1>1, <1>3, <2>4, <3>1
      <4> QED
        BY <2>3, <2>6, <3>1, <4>1 DEF SizeAt
    <3> QED
      BY <3>1 DEF SizeAt
  <2>11. FreshAt(c, w, v) /\ LastAt(c, w)
    BY <2>5 DEF FreshAt, LastAt
  <2> QED
    BY <1>9, <2>7, <2>8, <2>9, <2>10, <2>11, OpenStep
<1> QED
  BY <1>2, <1>8, <1>9

\* CMD_GET_READERS_STATE_ARRAY.
LEMMA ArrayStep ==
  ASSUME IInv, NEW c \in Clients, GetReadersStateArray(c)
  PROVE  IInv'
<1> DEFINE s == toServer[c]
<1>1. /\ Types /\ ClientOK(c) /\ FreshOK(c) /\ session[c] # "closed"
      /\ s # qNone /\ Head(s) = ARRAY /\ sending[c] = 0
  BY DEF IInv, GetReadersStateArray, Command, qNone, ARRAY
<1>2. /\ s \in Queues
      /\ \/ session[c] = "open" /\ OpenOK(c)
         \/ session[c] = "dead" /\ DeadOK(c)
  BY <1>1, CommandQueue
<1>3. s = qArray /\ Tail(s) = qNone
  BY <1>1, <1>2, QueueHeads, QueueTails
<1>4. /\ Serve(c, qNone, toClient[c], waiting[c], session[c], 1, cancel[c])
      /\ UNCHANGED faults
  <2>1. toServer' = [toServer EXCEPT ![c] = qNone]
    BY <1>1, <1>3 DEF GetReadersStateArray, Command, Types, TypeOK
  <2> QED
    BY <1>1, <2>1, Kept, KeptByServer DEF GetReadersStateArray, Serve
<1>5. /\ qNone \in Queues /\ QueuedWords(qNone) = 0 /\ Asked(qNone) = 0
      /\ QueuedWords(s) = 4 * Slots /\ Asked(s) = 0
      /\ qNone \notin {qEvents, qEventsStop} /\ qNone # qStopSize
  BY <1>3, QueueTypes, QueueCounts, QueuesDiffer
<1>6. waiting[c] \in {0, 1} /\ 1 \in 0 .. Slots /\ toClient[c] \in Seq(Nat)
  BY <1>1, Kept, KeptByServer, Sizes
<1>7. EntryWords(1) = 4 * Slots /\ 4 * Slots \in Nat /\ EntryWords(0) = 0
  BY <1>6, Sizes DEF EntryWords
<1>8. CASE session[c] = "dead"
  BY <1>4, <1>5, <1>6, <1>8, DeadStep
<1>9. CASE session[c] = "open" /\ OpenOK(c)
  <2>1. PICK l \in Nat, n \in Nat, a \in {0, 1}, e \in Nat, g \in {0, 1},
             v \in {0, 1} : Account(c, l, n, a, e, g, v)
    BY <1>1, <1>9, Books
  <2>2. n = 4 * Slots /\ a = 0 /\ e = 0
    BY <1>1, <1>5, <1>7, <2>1 DEF Account
  <2>3. /\ QueueAt(pc[c], s) /\ LastAt(c, toClient[c])
        /\ FreshAt(c, toClient[c], waiting[c])
    BY <1>1, <1>9, OpenNow
  <2>4. pc[c] = "array"
    BY <1>1, <1>3, <1>9, <2>3, OpOfStep, QueueSteps
  <2>5. Ledger(c, qNone, toClient[c], waiting[c], 1, cancel[c], l, 0, 0,
               4 * Slots, g)
    <3>1. /\ l + 0 + 4 * Slots + 2 * (0 + waiting[c] + g) = Due(c)
          /\ 0 + waiting[c] + g <= 1
      BY <1>7, <2>1, <2>2 DEF Account
    <3>2. call[c].op = "LIST_READERS" => 0 + waiting[c] + g = 0
      BY <1>9, <2>1, <2>2 DEF OpenOK, OpOK, Account
    <3> QED
      BY <1>1, <1>5, <1>6, <1>7, <2>1, <3>1, <3>2, Kept, KeptByServer
         DEF Ledger, Account
  <2>6. QueueAt(pc[c], qNone) /\ SizeAt(c, qNone, toClient[c])
    BY <2>4 DEF QueueAt, ArrayQueues, SizeAt
  <2> QED
    BY <1>4, <1>9, <2>3, <2>5, <2>6, OpenStep
<1> QED
  BY <1>2, <1>8, <1>9

\* The words of an entry, and where they get.
LEMMA EntrySent ==
  ASSUME Types, NEW i \in 1 .. Slots, NEW w \in Seq(Nat)
  PROVE  LET u == w \o readers[i] IN
         /\ u \in Seq(Nat) /\ Len(u) = Len(w) + 4
         /\ \A j \in 1 .. Len(w) : u[j] = w[j]
         /\ \A j \in 1 .. 4 : u[Len(w) + j] = readers[i][j]
         /\ i = Slots => u[Len(w) + 4] = 0
<1>1. readers[i] \in Seq(Nat) /\ Len(readers[i]) = 4
  BY DEF Types, TypeOK, ReadersOK
<1>2. i = Slots => readers[i][4] = 0
  BY DEF Types, ReadersOK, NoReader
<1>3. PICK r \in Seq(Nat) : r = readers[i]
  BY <1>1
<1>4. PICK l \in Nat : l = Len(w)
  OBVIOUS
<1>5. Len(r) = 4
  BY <1>1, <1>3
<1>6. w \o r \in Seq(Nat) /\ Len(w \o r) = l + 4
  <2>1. Len(w \o r) = Len(w) + Len(r)
    OBVIOUS
  <2> QED
    BY <1>4, <1>5, <2>1
<1>7. ASSUME NEW j \in 1 .. l PROVE (w \o r)[j] = w[j]
  BY <1>4, <1>5
<1>8. ASSUME NEW j \in 1 .. 4 PROVE (w \o r)[l + j] = r[j]
  <2>1. l + j \in 1 .. Len(w) + Len(r) /\ l + j > Len(w)
    BY <1>4, <1>5
  <2>2. (w \o r)[l + j] = r[(l + j) - Len(w)]
    BY <2>1
  <2>3. (l + j) - Len(w) = j
    BY <1>4
  <2> QED
    BY <2>2, <2>3
<1>9. i = Slots => (w \o r)[l + 4] = 0
  <2>1. 4 \in 1 .. 4
    OBVIOUS
  <2> QED
    BY <1>2, <1>3, <1>8, <2>1
<1> QED
  BY <1>3, <1>4, <1>6, <1>7, <1>8, <1>9, Zenon

\* The word at place 4 * (i - 1) + j of the reply is word j of entry i.
LEMMA CurrentWord ==
  ASSUME NEW i \in 1 .. Slots, NEW j \in 1 .. 4
  PROVE  Current[4 * (i - 1) + j] = readers[i][j]
<1> DEFINE x == 4 * (i - 1) + j
<1>1. i \in Nat /\ i >= 1 /\ i <= Slots /\ j \in {1, 2, 3, 4} /\ Slots \in Nat
  BY Sizes
<1>2. x \in 1 .. 4 * Slots
  BY <1>1
<1>3. (x - 1) \div 4 = i - 1 /\ (x - 1) % 4 = j - 1
  BY <1>1
<1>4. 1 + ((x - 1) \div 4) = i /\ 1 + ((x - 1) % 4) = j
  BY <1>1, <1>3
<1> HIDE DEF x
<1>5. Current[x] = readers[1 + ((x - 1) \div 4)][1 + ((x - 1) % 4)]
  BY <1>2 DEF Current, READER_STATE_WORDS
<1> QED
  BY <1>4, <1>5 DEF x

\* MSGSendReaderStates() sends an entry.
LEMMA SendStatesStep ==
  ASSUME IInv, NEW c \in Clients, MSGSendReaderStates(c)
  PROVE  IInv'
<1>0. PICK i \in 1 .. Slots : i = sending[c]
  BY KeptByServer, Sizes DEF IInv, MSGSendReaderStates
<1> DEFINE ii == IF i = Slots THEN 0 ELSE i + 1
           w == toClient[c] \o readers[i]
<1>1. /\ Types /\ ClientOK(c) /\ FreshOK(c)
      /\ i \in 1 .. Slots /\ sending[c] # 0 /\ ii \in 0 .. Slots
      /\ toClient[c] \in Seq(Nat) /\ toServer[c] \in Seq(CommandNames)
      /\ waiting[c] \in {0, 1}
  BY Kept, KeptByServer, Sizes DEF IInv, MSGSendReaderStates
<1>2. session[c] # "closed"
  BY <1>1 DEF ClientOK, ClosedOK
<1>3. /\ toServer[c] \in Queues
      /\ \/ session[c] = "open" /\ OpenOK(c)
         \/ session[c] = "dead" /\ DeadOK(c)
  BY <1>1, <1>2, CommandQueue
<1>4. sending' = [sending EXCEPT ![c] = ii]
  BY <1>0 DEF MSGSendReaderStates
<1> HIDE DEF ii
<1>5. CASE session[c] = "dead" /\ DeadOK(c)
  <2>1. /\ Serve(c, toServer[c], toClient[c], waiting[c], "dead", ii, cancel[c])
        /\ UNCHANGED faults
    BY <1>1, <1>4, <1>5, Kept, KeptByServer
       DEF MSGSendReaderStates, Write, Serve
  <2> QED
    BY <1>1, <1>3, <1>5, <2>1, DeadStep DEF DeadOK
<1>6. CASE session[c] = "open" /\ OpenOK(c)
  <2>1. PICK l \in Nat, n \in Nat, a \in {0, 1}, e \in Nat, g \in {0, 1},
             v \in {0, 1} : Account(c, l, n, a, e, g, v)
    BY <1>1, <1>6, Books
  <2>2. e = 4 * (Slots + 1 - i) /\ e >= 4
    <3>1. EntryWords(i) = e
      BY <1>0, <2>1 DEF Account
    <3>2. i \in 0 .. Slots /\ i # 0
      BY Sizes
    <3> QED
      BY <3>1, <3>2, SendingWords
  <2>3. EntryWords(ii) = e - 4 /\ e - 4 \in Nat
    <3>1. CASE i = Slots
      BY <1>1, <2>2, <3>1, Sizes DEF ii
    <3>2. CASE i # Slots
      <4>1. ii = i + 1 /\ ii \in 1 .. Slots
        BY <1>1, <3>2, Sizes DEF ii
      <4>2. EntryWords(ii) = 4 * (Slots + 1 - ii)
        BY <4>1, Sizes
      <4> QED
        BY <1>1, <2>2, <4>1, <4>2, Sizes
    <3> QED
      BY <3>1, <3>2
  <2>4. /\ w \in Seq(Nat) /\ Len(w) = l + 4
        /\ \A j \in 1 .. l : w[j] = toClient[c][j]
        /\ \A j \in 1 .. 4 : w[l + j] = readers[i][j]
        /\ i = Slots => w[l + 4] = 0
    <3>1. Len(toClient[c]) = l
      BY <2>1 DEF Account
    <3>2. \A y \in 1 .. Slots, x \in Seq(Nat) :
            /\ x \o readers[y] \in Seq(Nat)
            /\ Len(x \o readers[y]) = Len(x) + 4
            /\ \A j \in 1 .. Len(x) : (x \o readers[y])[j] = x[j]
            /\ \A j \in 1 .. 4 : (x \o readers[y])[Len(x) + j] = readers[y][j]
            /\ y = Slots => (x \o readers[y])[Len(x) + 4] = 0
      BY <1>1, EntrySent
    <3>3. /\ w \in Seq(Nat) /\ Len(w) = Len(toClient[c]) + 4
          /\ \A j \in 1 .. Len(toClient[c]) : w[j] = toClient[c][j]
          /\ \A j \in 1 .. 4 : w[Len(toClient[c]) + j] = readers[i][j]
          /\ i = Slots => w[Len(toClient[c]) + 4] = 0
      BY <1>1, <3>2, Zenon
    <3> HIDE DEF w
    <3> QED
      BY <3>1, <3>3
  <2>5. /\ Serve(c, toServer[c], w, v, "open", ii, cancel[c])
        /\ UNCHANGED faults
    <3>1. toClient' = [toClient EXCEPT ![c] = w]
      BY <1>0, <1>1, <1>6 DEF MSGSendReaderStates, Write, Types, TypeOK
    <3>2. waiting' = [waiting EXCEPT ![c] = v]
      BY <1>1, <2>1, KeptByServer DEF MSGSendReaderStates, Account
    <3> HIDE DEF w
    <3> QED
      BY <1>1, <1>4, <1>6, <3>1, <3>2, Kept, KeptByServer
         DEF MSGSendReaderStates, Serve
  <2> HIDE DEF w
  <2>6. Ledger(c, toServer[c], w, v, ii, cancel[c], l + 4, n, a, e - 4, g)
    <3>1. (l + 4) + n + (e - 4) + 2 * (a + v + g) = Due(c)
      BY <2>1, <2>2 DEF Account
    <3>2. /\ call[c].op = "LIST_READERS" => a + v + g = 0
          /\ call[c].op = "GET_STATUS_CHANGE" => toServer[c] # qStopSize
      BY <1>6, <2>1 DEF OpenOK, OpOK, Account
    <3> QED
      BY <1>1, <1>3, <2>1, <2>3, <2>4, <3>1, <3>2, KeptByServer
         DEF Ledger, Account
  <2>7. QueueAt(pc[c], toServer[c]) /\ FreshAt(c, toClient[c], waiting[c])
    BY <1>1, <1>6, OpenNow
  <2>8. l + n + e + 2 * (a + v + g) = Due(c)
    BY <2>1 DEF Account
  <2>9. SizeAt(c, toServer[c], w)
    <3>1. ASSUME pc[c] = "size" PROVE FALSE
      <4>1. call[c].op \in {"LIST_READERS", "GET_STATUS_CHANGE"}
        BY <1>1, <1>6, <3>1, OpOfStep
      <4>2. Due(c) = 1 \/ Due(c) = 3
        BY <3>1, <4>1, DueWords DEF Due
      <4> QED
        BY <2>2, <2>8, <4>2
    <3> QED
      BY <3>1 DEF SizeAt
  <2>10. LastAt(c, w)
    <3>1. ASSUME l + 4 = Due(c) PROVE i = Slots
      BY <1>1, <2>2, <2>8, <3>1, Sizes
    <3> QED
      BY <2>4, <3>1 DEF LastAt, SCARD_S_SUCCESS
  <2>11. FreshAt(c, w, v)
    <3>1. waiting[c] = v /\ Len(toClient[c]) = l
      BY <2>1 DEF Account
    <3>2. ASSUME v = 1, pending = 0, hotplug # "signal", pc[c] = "array",
                 NEW x \in 1 .. Len(w)
          PROVE  w[x] = Current[x]
      <4>1. call[c].op = "GET_STATUS_CHANGE"
        <5>1. Registrations(c) # 0
          BY <2>1, <3>2 DEF Account
        <5> QED
          BY <1>1, <1>6, <3>2, <5>1, OpOfStep DEF OpenOK, OpOK
      <4>2. Due(c) = 2 + 4 * Slots
        BY <3>2, <4>1, DueWords DEF Due
      <4>3. n = 0
        <5>1. toServer[c] \in {qNone, qArray}
          BY <2>7, <3>2 DEF QueueAt, ArrayQueues
        <5>2. n = 0 \/ n = 4 * Slots
          BY <2>1, <5>1, QueueCounts DEF Account
        <5> QED
          BY <2>2, <2>8, <3>2, <4>2, <5>2, Sizes
      <4>4. l = 4 * (i - 1)
        <5>1. a = 0 /\ g = 0
          BY <2>1, <3>2 DEF Account
        <5>2. l + n + e + 2 * (a + v + g) = 2 + 4 * Slots
          BY <2>8, <4>2
        <5>3. l + e = 4 * Slots
          BY <3>2, <4>3, <5>1, <5>2, Sizes
        <5>4. Slots \in Nat /\ e = 4 * (Slots + 1 - i)
          BY <2>2, Sizes
        <5> QED
          BY <5>3, <5>4
      <4>5. CASE x <= l
        <5>1. x \in 1 .. l
          BY <2>4, <3>2, <4>5
        <5> QED
          BY <2>4, <2>7, <3>1, <3>2, <5>1 DEF FreshAt
      <4>6. CASE x > l
        <5>1. PICK j \in 1 .. 4 : x = l + j
          <6>1. x - l \in 1 .. 4 /\ x = l + (x - l)
            BY <2>4, <3>2, <4>6
          <6> QED
            BY <6>1
        <5>2. w[x] = readers[i][j]
          BY <2>4, <5>1
        <5>3. Current[4 * (i - 1) + j] = readers[i][j]
          BY <1>1, CurrentWord
        <5> QED
          BY <4>4, <5>1, <5>2, <5>3
      <4> QED
        BY <2>4, <3>2, <4>5, <4>6
    <3> QED
      BY <2>7, <3>1, <3>2 DEF FreshAt
  <2> QED
    BY <1>6, <2>5, <2>6, <2>7, <2>9, <2>10, <2>11, OpenStep
<1> QED
  BY <1>3, <1>5, <1>6

\* The thread of a client that has died ends.
LEMMA ClientDiesStep ==
  ASSUME IInv, NEW c \in Clients, ClientDies(c)
  PROVE  IInv'
<1>1. Types /\ session[c] = "dead" /\ sending[c] = 0 /\ toServer[c] = qNone
  BY DEF IInv, ClientDies, qNone
<1>2. waiting' = [waiting EXCEPT ![c] = 0]
  BY <1>1, Unregistered DEF ClientDies, EHTryToUnregisterClientForEvent
<1>3. /\ Serve(c, toServer[c], toClient[c], 0, "closed", sending[c], cancel[c])
      /\ UNCHANGED faults
  BY <1>1, <1>2, Kept, KeptByServer DEF ClientDies, Exit, Serve
<1> QED
  BY <1>1, <1>3, QueueTypes, ExitStep

-----------------------------------------------------------------------------
\* SCardCancel() and the thread that serves it.

\* A notification that is appended to what a registered client has to read.
Notice(c, w, l, rv) ==
  /\ w = toClient[c] \o Notification(rv)
  /\ l \in Nat /\ Len(toClient[c]) = l /\ rv \in {0, 90}
  /\ call[c].op = "GET_STATUS_CHANGE"

\* It is read as a notification, or as what the client looks at last.
LEMMA Notified ==
  ASSUME Types, NEW c \in Clients, OpenOK(c), NEW w, NEW l, NEW rv,
         Notice(c, w, l, rv)
  PROVE  /\ w \in Seq(Nat) /\ Len(w) = l + 2
         /\ SizeAt(c, toServer[c], w) /\ LastAt(c, w)
<1> USE DEF Notice
<1>1. toClient[c] \in Seq(Nat) /\ 0 \in Nat /\ rv \in Nat
  BY Kept
<1>2. /\ w \in Seq(Nat) /\ Len(w) = l + 2 /\ w[l + 2] = rv
      /\ w[1] = IF toClient[c] = << >> THEN 0 ELSE toClient[c][1]
  BY <1>1, Written DEF Notification
<1>3. SizeAt(c, toServer[c], w)
  BY <1>2 DEF SizeAt, OpenOK, WordsOK
<1>4. LastAt(c, w)
  BY <1>2 DEF LastAt, SCARD_S_SUCCESS, SCARD_E_CANCELLED
<1> QED
  BY <1>2, <1>3, <1>4

\* Who is registered is in SCardGetStatusChange().
LEMMA RegisteredCall ==
  ASSUME Types, NEW c \in Clients, OpenOK(c),
         waiting[c] = 1 \/ cancel[c] = "signal"
  PROVE  call[c].op = "GET_STATUS_CHANGE"
<1>1. PICK l \in Nat, n \in Nat, a \in {0, 1}, e \in Nat, g \in {0, 1},
           v \in {0, 1} : Account(c, l, n, a, e, g, v)
  BY Books
<1>2. Registrations(c) # 0
  BY <1>1 DEF Account, Signals
<1>3. pc[c] # "idle"
  BY IdleIsQuiet DEF Signals
<1> QED
  BY <1>2, <1>3, OpOfStep DEF OpenOK, OpOK

\* Only a client that is there is cancelled.
LEMMA CancelIsOpen ==
  ASSUME Types, NEW c \in Clients, ClientOK(c), cancel[c] # "idle"
  PROVE  session[c] = "open" /\ OpenOK(c)
BY Kept DEF ClientOK, DeadOK, ClosedOK

\* MSGSignalClient() is called only for a client that was in the list.
LEMMA CancelUnregisterStep ==
  ASSUME IInv, NEW c \in Clients, CancelUnregister(c)
  PROVE  IInv'
<1>1. /\ Types /\ ClientOK(c) /\ FreshOK(c) /\ cancel[c] = "unregister"
      /\ toServer[c] \in Seq(CommandNames) /\ toClient[c] \in Seq(Nat)
  BY Kept DEF IInv, CancelUnregister
<1>2. session[c] = "open" /\ OpenOK(c)
  BY <1>1, CancelIsOpen
<1>3. PICK l \in Nat, n \in Nat, a \in {0, 1}, e \in Nat, g \in {0, 1},
           v \in {0, 1} : Account(c, l, n, a, e, g, v)
  BY <1>1, <1>2, Books
<1>4. g = 0 /\ waiting[c] = v
  BY <1>1, <1>3 DEF Account, Signals
<1>5. waiting' = [waiting EXCEPT ![c] = 0]
  BY <1>1, Unregistered DEF CancelUnregister
<1>6. PICK x \in {"signal", "idle"} : x = IF v = 1 THEN "signal" ELSE "idle"
  OBVIOUS
<1>7. cancel' = [cancel EXCEPT ![c] = x]
  <2>1. CancelSignals(c) <=> v = 1
    BY <1>4 DEF CancelSignals
  <2> QED
    BY <1>6, <2>1 DEF CancelUnregister
<1>8. /\ Serve(c, toServer[c], toClient[c], 0, "open", sending[c], x)
      /\ UNCHANGED faults
  BY <1>1, <1>2, <1>5, <1>7, Kept, KeptByServer DEF CancelUnregister, Serve
<1>9. Signals(x) = v
  BY <1>6 DEF Signals
<1>10. Ledger(c, toServer[c], toClient[c], 0, sending[c], x, l, n, a, e, v)
  <2>1. l + n + e + 2 * (a + 0 + v) = Due(c) /\ a + 0 + v <= 1
    BY <1>3, <1>4 DEF Account
  <2>2. /\ call[c].op = "LIST_READERS" => a + 0 + v = 0
        /\ call[c].op = "GET_STATUS_CHANGE" => toServer[c] # qStopSize
    BY <1>2, <1>3, <1>4 DEF OpenOK, OpOK, Account
  <2>3. x \in Cancels /\ toServer[c] \in Queues /\ sending[c] \in 0 .. Slots
    BY <1>1, <1>2, <1>6, OpenQueues, KeptByServer DEF Cancels
  <2> QED
    BY <1>1, <1>3, <1>9, <2>1, <2>2, <2>3 DEF Ledger, Account
<1>11. /\ QueueAt(pc[c], toServer[c]) /\ SizeAt(c, toServer[c], toClient[c])
       /\ LastAt(c, toClient[c])
  BY <1>1, <1>2, OpenNow
<1>12. FreshAt(c, toClient[c], 0)
  BY DEF FreshAt
<1> QED
  BY <1>2, <1>8, <1>10, <1>11, <1>12, OpenStep

\* SCARD_E_CANCELLED takes the place of the notification.
LEMMA CancelSignalStep ==
  ASSUME IInv, NEW c \in Clients, CancelSignal(c)
  PROVE  IInv'
<1>1. /\ Types /\ ClientOK(c) /\ FreshOK(c) /\ cancel[c] = "signal"
      /\ toServer[c] \in Seq(CommandNames) /\ toClient[c] \in Seq(Nat)
  BY Kept DEF IInv, CancelSignal
<1>2. session[c] = "open" /\ OpenOK(c)
  BY <1>1, CancelIsOpen
<1>3. PICK l \in Nat, n \in Nat, a \in {0, 1}, e \in Nat, g \in {0, 1},
           v \in {0, 1} : Account(c, l, n, a, e, g, v)
  BY <1>1, <1>2, Books
<1>4. g = 1 /\ waiting[c] = v /\ Len(toClient[c]) = l
  BY <1>1, <1>3 DEF Account, Signals
<1>5. v = 0 /\ a = 0
  BY <1>3, <1>4 DEF Account
<1>6. call[c].op = "GET_STATUS_CHANGE"
  BY <1>1, <1>2, RegisteredCall
<1>7. PICK w : w = toClient[c] \o Notification(SCARD_E_CANCELLED)
  OBVIOUS
<1>8. /\ w \in Seq(Nat) /\ Len(w) = l + 2
      /\ SizeAt(c, toServer[c], w) /\ LastAt(c, w)
  <2>1. Notice(c, w, l, SCARD_E_CANCELLED)
    BY <1>4, <1>6, <1>7 DEF Notice, SCARD_E_CANCELLED
  <2> QED
    BY <1>1, <1>2, <2>1, Notified
<1>9. /\ Serve(c, toServer[c], w, v, "open", sending[c], "idle")
      /\ UNCHANGED faults
  <2>1. toClient' = [toClient EXCEPT ![c] = w]
    BY <1>1, <1>2, <1>7 DEF CancelSignal, Write, Types, TypeOK
  <2>2. cancel' = [cancel EXCEPT ![c] = "idle"]
    BY DEF CancelSignal
  <2>3. waiting' = [waiting EXCEPT ![c] = v]
    BY <1>1, <1>4, KeptByServer DEF CancelSignal
  <2> QED
    BY <1>1, <1>2, <2>1, <2>2, <2>3, Kept, KeptByServer DEF CancelSignal, Serve
<1>10. Ledger(c, toServer[c], w, v, sending[c], "idle", l + 2, n, a, e, 0)
  <2>1. (l + 2) + n + e + 2 * (a + v + 0) = Due(c) /\ a + v + 0 <= 1
    BY <1>3, <1>4, <1>5 DEF Account
  <2>2. /\ call[c].op # "LIST_READERS"
        /\ call[c].op = "GET_STATUS_CHANGE" => toServer[c] # qStopSize
    BY <1>2, <1>6 DEF OpenOK, OpOK
  <2>3. /\ "idle" \in Cancels /\ toServer[c] \in Queues
        /\ sending[c] \in 0 .. Slots /\ Signals("idle") = 0
    BY <1>1, <1>2, OpenQueues, KeptByServer DEF Cancels, Signals
  <2>4. l + 2 \in Nat /\ 0 \in {0, 1}
    OBVIOUS
  <2> QED
    BY <1>3, <1>8, <2>1, <2>2, <2>3, <2>4 DEF Ledger, Account
<1>11. QueueAt(pc[c], toServer[c])
  BY <1>1, <1>2, OpenNow
<1>12. FreshAt(c, w, v)
  BY <1>5 DEF FreshAt
<1> QED
  BY <1>2, <1>8, <1>9, <1>10, <1>11, <1>12, OpenStep

\* SCardCancel() starts.
LEMMA SCardCancelStep ==
  ASSUME IInv, NEW c \in Clients, SCardCancel(c)
  PROVE  IInv'
<1>1. /\ Types /\ ClientOK(c) /\ FreshOK(c) /\ session[c] = "open"
      /\ OpenOK(c) /\ cancel[c] = "idle"
      /\ toServer[c] \in Seq(CommandNames) /\ toClient[c] \in Seq(Nat)
      /\ waiting[c] \in {0, 1} /\ sending[c] \in 0 .. Slots
      /\ "open" \in Sessions /\ "unregister" \in Cancels
  BY Kept, KeptByServer DEF IInv, SCardCancel, ClientOK, Sessions, Cancels
<1>2. faults' \in 0 .. MaxFaults /\ faults < MaxFaults /\ faults \in Nat
      /\ faults' = faults + 1
  BY <1>1, ConstantsAssumption DEF SCardCancel, Types, TypeOK
<1>3. Serve(c, toServer[c], toClient[c], waiting[c], "open", sending[c],
            "unregister")
  BY <1>1, Kept, KeptByServer DEF SCardCancel, Serve
<1>4. /\ Types' /\ \A d \in Clients \ {c} : Same(d)
      /\ toServer'[c] = toServer[c] /\ toClient'[c] = toClient[c]
      /\ pc'[c] = pc[c] /\ call'[c] = call[c]
      /\ maxContexts'[c] = maxContexts[c] /\ states'[c] = states[c]
      /\ session'[c] = "open" /\ waiting'[c] = waiting[c]
      /\ sending'[c] = sending[c] /\ cancel'[c] = "unregister"
  BY <1>1, <1>2, <1>3, Served
<1>5. ClientOK(c)'
  <2>1. Registrations(c)' = Registrations(c)
    BY <1>1, <1>4 DEF Registrations
  <2>2. Owed(c)' = Owed(c) /\ Due(c)' = Due(c)
    BY <1>4, <2>1 DEF Owed, Due
  <2> QED
    BY <1>1, <1>4, <2>1, <2>2 DEF ClientOK, OpenOK, QueueOK, OpOK, WordsOK
<1>6. UNCHANGED server
  BY DEF SCardCancel
<1>7. FreshOK(c)'
  <2>1. Current' = Current
    BY <1>6 DEF Current
  <2> HIDE DEF Current
  <2> QED
    BY <1>1, <1>4, <1>6, <2>1 DEF FreshOK
<1>8. FaultsOK'
  <2>1. session' = session
    BY DEF SCardCancel
  <2>2. MaxFaults <= 1 => faults = 0 /\ faults' # 0
    BY <1>2, ConstantsAssumption
  <2>3. FaultsOK
    BY DEF IInv
  <2> QED
    BY <2>1, <2>2, <2>3 DEF FaultsOK
<1> QED
  BY <1>4, <1>5, <1>6, <1>7, <1>8, LocalStep

-----------------------------------------------------------------------------
\* Clients that die and clients that come.

\* Where a client may be killed, and what else may go wrong: not while it
\* reads the answer to GET_READER_EVENTS, and not when another cancels.
Mortality ==
  /\ MortalAt \cap {"firstEvents", "events"} = {}
  /\ MortalAt = {} \/ MaxFaults <= 1

\* The only thing a thread still does for a client that has died is not undone
\* by a list the client is in.
LEMMA LeftByTheDead ==
  ASSUME Types, NEW c \in Clients, OpenOK(c), FreshOK(c), session[c] = "open",
         pc[c] \notin {"firstEvents", "events"},
         Asked(toServer[c]) = 1 \/ toServer[c] \in {qEvents, qEventsStop}
  PROVE  waiting[c] = 0
<1>1. PICK l \in Nat, n \in Nat, a \in {0, 1}, e \in Nat, g \in {0, 1},
           v \in {0, 1} : Account(c, l, n, a, e, g, v)
  BY Books
<1>2. CASE Asked(toServer[c]) = 1
  <2>1. a = 1 /\ a + v + g <= 1
    BY <1>1, <1>2 DEF Account
  <2>2. v = 0
    BY <2>1
  <2> QED
    BY <1>1, <2>2 DEF Account
<1>3. CASE toServer[c] \in {qEvents, qEventsStop}
  <2>1. QueueAt(pc[c], toServer[c]) /\ pc[c] \in Steps \ {"dead"}
    BY OpenNow, OpOfStep
  <2>2. pc[c] \in {"wait", "stop", "endStop"}
    BY <1>3, <2>1, QueueSteps
  <2>3. Due(c) = 2
    BY <2>2, DueWords, OpOfStep DEF Due
  <2>4. n = 2 /\ l + n + e + 2 * (a + v + g) = 2
    BY <1>1, <1>3, <2>3, QueueCounts DEF Account
  <2>5. v = 0
    BY <2>4
  <2> QED
    BY <1>1, <2>5 DEF Account
<1> QED
  BY <1>2, <1>3

\* A client is killed.
LEMMA DieStep ==
  ASSUME IInv, Mortality, NEW c \in Clients, Die(c)
  PROVE  IInv'
<1>1. /\ Types /\ FaultsOK /\ FreshOK(c) /\ session[c] = "open" /\ OpenOK(c)
      /\ pc[c] \in MortalAt /\ waiting[c] \in {0, 1}
  BY KeptByServer DEF IInv, Die, ClientOK
<1>2. MaxFaults <= 1 /\ pc[c] \notin {"firstEvents", "events"}
  BY <1>1 DEF Mortality
<1>3. /\ faults' \in 0 .. MaxFaults /\ faults = 0 /\ faults' = 1
  BY <1>1, <1>2, ConstantsAssumption DEF Die, Types, TypeOK
<1>4. \A d \in Clients : session[d] = "open" /\ cancel[d] = "idle"
  BY <1>1, <1>2, <1>3 DEF FaultsOK
<1>5. Types'
  <2>1. NoCall \in CallRecords
    BY NoCallType
  <2>2. << >> \in Seq(Nat)
    OBVIOUS
  <2>3. TypeOK'
    BY <1>1, <1>3, <2>2 DEF Die, Types, TypeOK
  <2>4. (call \in [Clients -> CallRecords])'
    BY <1>1, <2>1 DEF Die, Types
  <2>5. ReadersOK'
    BY <1>1 DEF Die, Types, ReadersOK
  <2> QED
    BY <2>3, <2>4, <2>5 DEF Types
<1>6. ASSUME NEW d \in Clients \ {c} PROVE Same(d)
  BY <1>1 DEF Die, Same, Types, TypeOK
<1>7. /\ session'[c] = "dead" /\ pc'[c] = "dead" /\ call'[c] = NoCall
      /\ toClient'[c] = << >> /\ cancel'[c] = "idle"
      /\ toServer'[c] = toServer[c] /\ waiting'[c] = waiting[c]
  BY <1>1, <1>4 DEF Die, Types, TypeOK
<1>8. ClientOK(c)'
  <2>1. toServer[c] \in Queues
    BY <1>1, OpenQueues
  <2>2. Asked(toServer[c]) = 1 \/ toServer[c] \in {qEvents, qEventsStop}
          => waiting[c] = 0
    BY <1>1, <1>2, LeftByTheDead
  <2> QED
    BY <1>7, <2>1, <2>2 DEF ClientOK, DeadOK
<1>9. FreshOK(c)'
  BY <1>7 DEF FreshOK
<1>10. FaultsOK'
  <2>1. MortalAt # {} /\ faults' # 0
    BY <1>1, <1>3
  <2>2. \A d \in Clients : cancel'[d] = "idle"
    BY <1>4 DEF Die
  <2> QED
    BY <2>1, <2>2 DEF FaultsOK
<1>11. UNCHANGED server
  BY DEF Die
<1> QED
  BY <1>5, <1>6, <1>8, <1>9, <1>10, <1>11, LocalStep

\* A new client gets the descriptor.
LEMMA CreateStep ==
  ASSUME IInv, NEW c \in Clients, CreateContextThread(c)
  PROVE  IInv'
<1>1. /\ Types /\ FaultsOK /\ session[c] = "closed" /\ ClosedOK(c)
  BY DEF IInv, CreateContextThread, ClientOK
<1>2. Types'
  <2>1. NoKnowledge \in [PnP .. Slots -> Nat]
    BY DEF NoKnowledge, SCARD_STATE_UNAWARE
  <2>2. TypeOK'
    BY <1>1, <2>1 DEF CreateContextThread, Types, TypeOK
  <2>3. (call \in [Clients -> CallRecords])'
    BY <1>1 DEF CreateContextThread, Types
  <2>4. ReadersOK'
    BY <1>1 DEF CreateContextThread, Types, ReadersOK
  <2> QED
    BY <2>2, <2>3, <2>4 DEF Types
<1>3. ASSUME NEW d \in Clients \ {c} PROVE Same(d)
  BY <1>1 DEF CreateContextThread, Same, Types, TypeOK
<1>4. /\ session'[c] = "open" /\ pc'[c] = "idle" /\ call'[c] = NoCall
      /\ toClient'[c] = << >> /\ cancel'[c] = "idle"
      /\ toServer'[c] = qNone /\ waiting'[c] = 0 /\ sending'[c] = 0
      /\ maxContexts'[c] = 0
  BY <1>1 DEF CreateContextThread, ClosedOK, Types, TypeOK, qNone
<1>5. /\ QueuedWords(qNone) = 0 /\ Asked(qNone) = 0 /\ EntryWords(0) = 0
      /\ Signals("idle") = 0 /\ NoCall.op = "NONE"
      /\ DueFor("NONE", "idle") = 0
  BY QueueCounts, Sizes, NoCallType, DueWords DEF Signals
<1>6. Balance(c, << >>, 0, 0, 0, 0, 0, 0, 0)
  BY <1>4, <1>5 DEF Balance
<1>7. QueueOK(c)' /\ WordsOK(c)' /\ OpOK(c)'
  <2>1. QueueOK(c)'
    BY <1>4 DEF QueueOK, IdleQueues
  <2>2. WordsOK(c)'
    BY <1>4 DEF WordsOK
  <2>3. OpOK(c)'
    BY <1>4, <1>5 DEF OpOK
  <2> QED
    BY <2>1, <2>2, <2>3
<1>8. ClientOK(c)'
  BY <1>4, <1>6, <1>7, Balanced
<1>9. FreshOK(c)'
  BY <1>4 DEF FreshOK
<1>10. FaultsOK'
  <2>1. /\ MortalAt # {}
        /\ MaxFaults <= 1 => faults # 0 /\ \A d \in Clients : cancel[d] = "idle"
    BY <1>1 DEF FaultsOK
  <2> QED
    BY <2>1 DEF FaultsOK, CreateContextThread
<1>11. UNCHANGED server
  BY DEF CreateContextThread
<1> QED
  BY <1>2, <1>3, <1>8, <1>9, <1>10, <1>11, LocalStep

-----------------------------------------------------------------------------
\* The threads of the readers.

\* A notification for every client of the list.
LEMMA SignalStep ==
  ASSUME IInv, EHSignalEventToClients, pending' \in Nat,
         hotplug' \in {"idle", "signal", "count"}
  PROVE  IInv'
<1>1. Types /\ FaultsOK
  BY DEF IInv
<1>2. UNCHANGED <<readers, ReaderEvents, changes, session, sending, cancel,
                  faults, toServer, pc, call, maxContexts, states, known>>
  BY DEF EHSignalEventToClients
<1>3. ASSUME NEW d \in Clients
      PROVE  /\ toClient'[d] \in Seq(Nat) /\ waiting'[d] = 0
             /\ ClientOK(d)' /\ FreshOK(d)'
  <2>1. /\ ClientOK(d) /\ toClient[d] \in Seq(Nat) /\ waiting[d] \in {0, 1}
        /\ session[d] \in Sessions
    BY <1>1, Kept, KeptByServer DEF IInv
  <2>2. waiting'[d] = 0
    BY DEF EHSignalEventToClients, ListCleared
  <2>3. FreshOK(d)'
    BY <2>2 DEF FreshOK
  <2>4. CASE session[d] # "open"
    <3>1. toClient'[d] = toClient[d]
      BY <2>4 DEF EHSignalEventToClients
    <3>2. ClientOK(d)'
      BY <1>2, <2>1, <2>2, <2>4, <3>1
         DEF ClientOK, DeadOK, ClosedOK, Sessions
    <3> QED
      BY <2>1, <2>2, <2>3, <3>1, <3>2
  <2>5. CASE session[d] = "open"
    <3>1. OpenOK(d) /\ toServer[d] \in Queues
      BY <1>1, <2>1, <2>5, OpenQueues DEF ClientOK
    <3>2. PICK l \in Nat, n \in Nat, a \in {0, 1}, e \in Nat, g \in {0, 1},
               v \in {0, 1} : Account(d, l, n, a, e, g, v)
      BY <1>1, <3>1, Books
    <3>3. PICK w : w = toClient'[d]
      OBVIOUS
    <3>4. w = toClient[d] \o Repeat(waiting[d], Notification(SCARD_S_SUCCESS))
      BY <2>5, <3>3 DEF EHSignalEventToClients
    <3>5. /\ w \in Seq(Nat) /\ Len(w) = l + 2 * v
          /\ SizeAt(d, toServer[d], w) /\ LastAt(d, w)
      <4>1. CASE waiting[d] = 0
        <5>1. w = toClient[d]
          BY <2>1, <3>4, <4>1 DEF Repeat
        <5>2. v = 0 /\ Len(toClient[d]) = l
          BY <3>2, <4>1 DEF Account
        <5>3. SizeAt(d, toServer[d], w) /\ LastAt(d, w)
          BY <3>1, <5>1 DEF OpenOK, WordsOK, SizeAt, LastAt
        <5> QED
          BY <2>1, <5>1, <5>2, <5>3
      <4>2. CASE waiting[d] = 1
        <5>1. w = toClient[d] \o Notification(SCARD_S_SUCCESS)
          BY <3>4, <4>2 DEF Repeat
        <5>2. v = 1 /\ Len(toClient[d]) = l
          BY <3>2, <4>2 DEF Account
        <5>3. call[d].op = "GET_STATUS_CHANGE" /\ SCARD_S_SUCCESS \in {0, 90}
          BY <1>1, <3>1, <4>2, RegisteredCall DEF SCARD_S_SUCCESS
        <5>4. /\ w \in Seq(Nat) /\ Len(w) = l + 2
              /\ SizeAt(d, toServer[d], w) /\ LastAt(d, w)
          <6>1. Notice(d, w, l, SCARD_S_SUCCESS)
            BY <5>1, <5>2, <5>3 DEF Notice
          <6> QED
            BY <1>1, <3>1, <6>1, Notified
        <5> QED
          BY <5>2, <5>4
      <4> QED
        BY <2>1, <4>1, <4>2
    <3>6. PICK m \in Nat : m = l + 2 * v
      OBVIOUS
    <3>7. Balance(d, w, m, n, a, e, g, 0, Due(d))
      <4>1. m + n + e + 2 * (a + 0 + g) = Due(d) /\ a + 0 + g <= 1
        BY <3>2, <3>6 DEF Account
      <4>2. /\ toServer'[d] = toServer[d] /\ sending'[d] = sending[d]
            /\ cancel'[d] = cancel[d] /\ call'[d] = call[d] /\ pc'[d] = pc[d]
        BY <1>2
      <4> QED
        BY <2>2, <3>2, <3>3, <3>5, <3>6, <4>1, <4>2 DEF Balance, Account, Due
    <3>8. QueueOK(d)' /\ pc'[d] # "dead"
      BY <1>2, <3>1 DEF QueueOK, OpenOK
    <3>9. a + 0 + g = Registrations(d)' => OpOK(d)'
      <4>1. Registrations(d) = 0 => a + 0 + g = 0
        <5>1. Registrations(d) = a + v + g
          BY <3>2 DEF Account
        <5>2. a + v + g = 0 => a + 0 + g = 0
          OBVIOUS
        <5> QED
          BY <5>1, <5>2
      <4> QED
        BY <1>2, <3>1, <4>1 DEF OpOK, OpenOK
    <3>10. WordsOK(d)'
      <4>1. Due(d)' = Due(d)
        BY <1>2 DEF Due
      <4> QED
        BY <1>2, <3>3, <3>5, <4>1 DEF WordsOK, SizeAt, LastAt
    <3>11. ClientOK(d)'
      BY <1>2, <2>5, <3>7, <3>8, <3>9, <3>10, Balanced
    <3> QED
      BY <2>2, <2>3, <3>3, <3>5, <3>11
  <2> QED
    BY <2>4, <2>5
<1>4. Types'
  <2>1. toClient' \in [Clients -> Seq(Nat)]
    <3>1. toClient' = [d \in Clients |-> toClient'[d]]
      BY DEF EHSignalEventToClients
    <3> QED
      BY <1>3, <3>1
  <2>2. waiting' \in [Clients -> 0 .. 1]
    BY DEF EHSignalEventToClients, ListCleared
  <2>3. TypeOK'
    BY <1>1, <1>2, <2>1, <2>2 DEF Types, TypeOK
  <2>4. (call \in [Clients -> CallRecords])' /\ ReadersOK'
    BY <1>1, <1>2 DEF Types, ReadersOK
  <2> QED
    BY <2>3, <2>4 DEF Types
<1>5. FaultsOK'
  BY <1>1, <1>2, SameFaults
<1> QED
  BY <1>3, <1>4, <1>5 DEF IInv

\* The event thread of a reader signals.
LEMMA EventThreadStep ==
  ASSUME IInv, EventThread
  PROVE  IInv'
<1>1. pending' \in Nat /\ hotplug' \in {"idle", "signal", "count"}
  BY DEF IInv, Types, TypeOK, EventThread
<1> QED
  BY <1>1, SignalStep DEF EventThread

\* removeReader() signals.
LEMMA SignalRemovalStep ==
  ASSUME IInv, SignalRemoval
  PROVE  IInv'
<1>1. pending' \in Nat /\ hotplug' \in {"idle", "signal", "count"}
  BY DEF IInv, Types, TypeOK, SignalRemoval
<1> QED
  BY <1>1, SignalStep DEF SignalRemoval

\* ReaderEvents is incremented.
LEMMA CountStep ==
  ASSUME IInv, CountReaderEvent
  PROVE  IInv'
<1>1. Types /\ FaultsOK /\ \A d \in Clients : ClientOK(d) /\ FreshOK(d)
  BY DEF IInv
<1>2. Types'
  <2>1. TypeOK'
    BY <1>1 DEF CountReaderEvent, Types, TypeOK
  <2>2. (call \in [Clients -> CallRecords])' /\ ReadersOK'
    BY <1>1 DEF CountReaderEvent, Types, ReadersOK
  <2> QED
    BY <2>1, <2>2 DEF Types
<1>3. \A d \in Clients : Same(d)
  BY DEF CountReaderEvent, Same
<1>4. /\ readers' = readers
      /\ pending' = 0 /\ hotplug' # "signal" => pending = 0 /\ hotplug # "signal"
  BY DEF CountReaderEvent
<1>5. FaultsOK'
  BY <1>1, SameFaults DEF CountReaderEvent
<1> QED
  BY <1>1, <1>2, <1>3, <1>4, <1>5, SameClientOK, SameFreshOK DEF IInv

\* A slot changes: its event will be signalled.
LEMMA SlotStep ==
  ASSUME IInv, NEW r \in 1 .. Slots, r # Slots, NEW x \in Seq(Nat), Len(x) = 4,
         readers' = [readers EXCEPT ![r] = x], Change,
         pending' \in Nat, hotplug' \in {"idle", "signal", "count"},
         pending' # 0 \/ hotplug' = "signal", UNCHANGED ReaderEvents
  PROVE  IInv'
<1>1. Types /\ FaultsOK /\ \A d \in Clients : ClientOK(d)
  BY DEF IInv
<1>2. UNCHANGED <<daemon, sockets, client>> /\ changes' \in Nat
  BY <1>1 DEF Change, Types, TypeOK
<1>3. Types'
  <2>1. TypeOK'
    BY <1>1, <1>2 DEF Types, TypeOK
  <2>2. (call \in [Clients -> CallRecords])'
    BY <1>1, <1>2 DEF Types
  <2>3. ReadersOK'
    <3>1. Slots \in 1 .. Slots
      BY Sizes
    <3> QED
      BY <1>1, <3>1 DEF Types, TypeOK, ReadersOK
  <2> QED
    BY <2>1, <2>2, <2>3 DEF Types
<1>4. \A d \in Clients : Same(d)
  BY <1>2 DEF Same
<1>5. \A d \in Clients : FreshOK(d)'
  BY DEF FreshOK
<1>6. FaultsOK'
  BY <1>1, <1>2, SameFaults
<1> QED
  BY <1>1, <1>3, <1>4, <1>5, <1>6, SameClientOK DEF IInv

\* The slots that have a reader are not the last one.
LEMMA ReaderWords ==
  ASSUME Types, NEW r \in 1 .. Slots
  PROVE  /\ readers[r] # NoReader => r # Slots
         /\ readers[r][2] + 1 \in Nat /\ readers[r][3] \in Nat
         /\ pending + 1 \in Nat \ {0}
         /\ \A e \in Nat, atr \in Nat, protocol \in Nat :
              /\ ReaderState(r, e, atr, protocol) \in Seq(Nat)
              /\ Len(ReaderState(r, e, atr, protocol)) = 4
         /\ NoReader \in Seq(Nat) /\ Len(NoReader) = 4
<1>1. readers[r] \in Seq(Nat) /\ Len(readers[r]) = 4 /\ pending \in Nat
  BY DEF Types, TypeOK, ReadersOK
<1>2. readers[r] # NoReader => r # Slots
  BY DEF Types, ReadersOK
<1>3. readers[r][2] \in Nat /\ readers[r][3] \in Nat
  BY <1>1
<1>4. readers[r][2] + 1 \in Nat /\ pending + 1 \in Nat \ {0}
  BY <1>1, <1>3
<1>5. Name(r) \in Nat /\ READER_NOT_INITIALIZED \in Nat
  BY DEF Name, READER_NOT_INITIALIZED
<1>6. ASSUME NEW e \in Nat, NEW atr \in Nat, NEW protocol \in Nat
      PROVE  /\ ReaderState(r, e, atr, protocol) \in Seq(Nat)
             /\ Len(ReaderState(r, e, atr, protocol)) = 4
  BY <1>5 DEF ReaderState
<1>7. NoReader \in Seq(Nat) /\ Len(NoReader) = 4
  BY <1>5 DEF NoReader
<1> QED
  BY <1>2, <1>3, <1>4, <1>6, <1>7

\* A card comes or goes.
LEMMA CardEventStep ==
  ASSUME IInv, NEW r \in 1 .. Slots, CardEvent(r)
  PROVE  IInv'
<1>1. Types /\ r # Slots /\ Change /\ UNCHANGED <<ReaderEvents, hotplug>>
  BY ReaderWords DEF IInv, CardEvent
<1>2. PICK atr \in Nat : atr = IF readers[r][3] = 0 THEN 3 ELSE 0
  OBVIOUS
<1>3. PICK x \in Seq(Nat) :
        Len(x) = 4 /\ x = ReaderState(r, readers[r][2] + 1, atr, 0)
  <2>1. PICK e \in Nat : e = readers[r][2] + 1
    BY <1>1, ReaderWords
  <2>2. /\ ReaderState(r, e, atr, 0) \in Seq(Nat)
        /\ Len(ReaderState(r, e, atr, 0)) = 4
    BY DEF ReaderState, Name
  <2> QED
    BY <2>1, <2>2
<1>4. readers' = [readers EXCEPT ![r] = x] /\ pending' = pending + 1
  BY <1>2, <1>3 DEF CardEvent
<1>5. pending' \in Nat \ {0} /\ hotplug' \in {"idle", "signal", "count"}
  BY <1>1, <1>4, ReaderWords DEF Types, TypeOK
<1> QED
  BY <1>1, <1>3, <1>4, <1>5, SlotStep

\* The first SCardConnect().
LEMMA CardConnectedStep ==
  ASSUME IInv, NEW r \in 1 .. Slots, CardConnected(r)
  PROVE  IInv'
<1>1. Types /\ r # Slots /\ Change /\ UNCHANGED <<ReaderEvents, hotplug>>
  BY ReaderWords DEF IInv, CardConnected
<1>2. PICK x \in Seq(Nat) :
        Len(x) = 4 /\ x = ReaderState(r, readers[r][2] + 1, readers[r][3], 2)
  <2>1. PICK e \in Nat, atr \in Nat :
          e = readers[r][2] + 1 /\ atr = readers[r][3]
    BY <1>1, ReaderWords
  <2>2. /\ ReaderState(r, e, atr, 2) \in Seq(Nat)
        /\ Len(ReaderState(r, e, atr, 2)) = 4
    BY DEF ReaderState, Name
  <2> QED
    BY <2>1, <2>2
<1>3. readers' = [readers EXCEPT ![r] = x] /\ pending' = pending + 1
  BY <1>2 DEF CardConnected
<1>4. pending' \in Nat \ {0} /\ hotplug' \in {"idle", "signal", "count"}
  BY <1>1, <1>3, ReaderWords DEF Types, TypeOK
<1> QED
  BY <1>1, <1>2, <1>3, <1>4, SlotStep

\* RFAddReader(): never in the last slot.
LEMMA ReaderAddedStep ==
  ASSUME IInv, Slots \notin Plugged, NEW r \in 1 .. Slots, ReaderAdded(r)
  PROVE  IInv'
<1>1. Types /\ r # Slots /\ Change /\ UNCHANGED ReaderEvents
  BY DEF IInv, ReaderAdded
<1>2. PICK x \in Seq(Nat) : Len(x) = 4 /\ x = ReaderState(r, 1, 0, 0)
  BY <1>1, ReaderWords
<1>3. readers' = [readers EXCEPT ![r] = x] /\ pending' = pending + 1
  BY <1>2 DEF ReaderAdded
<1>4. pending' \in Nat \ {0} /\ hotplug' \in {"idle", "signal", "count"}
  BY <1>1, <1>3, ReaderWords DEF ReaderAdded
<1> QED
  BY <1>1, <1>2, <1>3, <1>4, SlotStep

\* RFRemoveReader().
LEMMA ReaderRemovedStep ==
  ASSUME IInv, NEW r \in 1 .. Slots, ReaderRemoved(r)
  PROVE  IInv'
<1>1. Types /\ r # Slots /\ Change /\ UNCHANGED ReaderEvents
  BY ReaderWords DEF IInv, ReaderRemoved
<1>2. PICK x \in Seq(Nat) : Len(x) = 4 /\ x = NoReader
  BY <1>1, ReaderWords
<1>3. readers' = [readers EXCEPT ![r] = x] /\ hotplug' = "signal"
  BY <1>2 DEF ReaderRemoved
<1>4. pending' \in Nat
  BY <1>1 DEF Types, TypeOK, ReaderRemoved
<1> QED
  BY <1>1, <1>2, <1>3, <1>4, SlotStep

-----------------------------------------------------------------------------
\* The theorems.

\* The daemon starts with nothing on its way.
LEMMA InitIInv ==
  ASSUME Init, Slots \notin Plugged
  PROVE  IInv
<1>1. NoKnowledge \in [PnP .. Slots -> Nat] /\ NoCall \in CallRecords
  BY NoCallType DEF NoKnowledge, SCARD_STATE_UNAWARE
<1>2. ASSUME NEW r \in 1 .. Slots
      PROVE  /\ readers[r] \in Seq(Nat) /\ Len(readers[r]) = 4
             /\ r = Slots => readers[r] = NoReader
  <2>1. readers[r] = IF r \in Plugged THEN ReaderState(r, 1, 0, 0) ELSE NoReader
    BY DEF Init
  <2>2. Name(r) \in Nat /\ READER_NOT_INITIALIZED \in Nat
    BY DEF Name, READER_NOT_INITIALIZED
  <2>3. /\ ReaderState(r, 1, 0, 0) \in Seq(Nat) /\ NoReader \in Seq(Nat)
        /\ Len(ReaderState(r, 1, 0, 0)) = 4 /\ Len(NoReader) = 4
    BY <2>2 DEF ReaderState, NoReader
  <2> QED
    BY <2>1, <2>3
<1>3. readers \in [1 .. Slots -> Seq(Nat)]
  <2>1. readers = [r \in 1 .. Slots |-> readers[r]]
    BY DEF Init
  <2> QED
    BY <1>2, <2>1
<1>4. Types
  <2>1. TypeOK
    BY <1>1, <1>3, Sizes, ConstantsAssumption DEF Init, TypeOK
  <2>2. call \in [Clients -> CallRecords]
    BY <1>1 DEF Init
  <2>3. ReadersOK
    BY <1>2, Sizes DEF ReadersOK
  <2> QED
    BY <2>1, <2>2, <2>3 DEF Types
<1>5. FaultsOK
  BY DEF Init, FaultsOK
<1>6. ASSUME NEW c \in Clients PROVE ClientOK(c) /\ FreshOK(c)
  <2>1. /\ session[c] = "open" /\ pc[c] = "idle" /\ call[c] = NoCall
        /\ toClient[c] = << >> /\ cancel[c] = "idle"
        /\ toServer[c] = qNone /\ waiting[c] = 0 /\ sending[c] = 0
        /\ maxContexts[c] = 0
    BY DEF Init, qNone
  <2>2. /\ QueuedWords(qNone) = 0 /\ Asked(qNone) = 0 /\ EntryWords(0) = 0
        /\ NoCall.op = "NONE" /\ DueFor("NONE", "idle") = 0
    BY QueueCounts, Sizes, NoCallType, DueWords
  <2>3. Registrations(c) = 0
    BY <2>1, <2>2 DEF Registrations
  <2>4. Owed(c) = 0 /\ Due(c) = 0
    <3>1. Len(toClient[c]) = 0
      BY <2>1
    <3> QED
      BY <2>1, <2>2, <2>3, <3>1 DEF Owed, Due
  <2>5. QueueOK(c)
    BY <2>1 DEF QueueOK, IdleQueues
  <2>6. OpOK(c) /\ WordsOK(c)
    BY <2>1, <2>2 DEF OpOK, WordsOK
  <2>7. ClientOK(c)
    BY <2>1, <2>3, <2>4, <2>5, <2>6 DEF ClientOK, OpenOK
  <2> QED
    BY <2>1, <2>7 DEF FreshOK
<1> QED
  BY <1>4, <1>5, <1>6 DEF IInv

\* Nothing happens.
LEMMA StutterStep ==
  ASSUME IInv, UNCHANGED vars
  PROVE  IInv'
<1>1. Types /\ FaultsOK /\ \A d \in Clients : ClientOK(d) /\ FreshOK(d)
  BY DEF IInv
<1>2. Types'
  BY <1>1 DEF Types, TypeOK, ReadersOK, vars
<1>3. \A d \in Clients : Same(d)
  BY DEF Same, vars
<1>4. readers' = readers /\ pending' = pending /\ hotplug' = hotplug
  BY DEF vars
<1>5. FaultsOK'
  BY <1>1, SameFaults DEF vars
<1> QED
  BY <1>1, <1>2, <1>3, <1>4, <1>5, SameClientOK, SameFreshOK DEF IInv

\* What the theorems ask of the constants: applications list the readers
\* before they wait for them, the last entry of the table is never used, and
\* clients are killed where the reply they do not read is not taken by a list.
Assumptions == ListFirst /\ Slots \notin Plugged /\ Mortality

\* Every step keeps the invariant.
LEMMA NextIInv ==
  ASSUME IInv, Assumptions, [Next]_vars
  PROVE  IInv'
<1>1. ListFirst /\ Slots \notin Plugged /\ Mortality
  BY DEF Assumptions
<1>2. ASSUME NEW c \in Clients, ClientStep(c) PROVE IInv'
  <2>1. ASSUME ReceiveNotification(c) \/ ReceiveStop(c) PROVE IInv'
    <3>1. /\ pc[c] \in {"wait", "stop"}
          /\ MessageReceive(c, 2) /\ Continue(c, First(c, 2)[2])
          /\ UNCHANGED <<server, daemon, maxContexts, states>>
      BY <2>1 DEF ReceiveNotification, ReceiveStop
    <3> QED
      BY <3>1, ContinueStep
  <2> QED
    BY <1>2, <2>1, ReceiveSizeStep, ReceiveListStep, ReceiveStatesStep,
       ReceiveEventsStep, ReceiveStatesAgainStep, TimeoutStep,
       ReceiveEndStopStep DEF ClientStep
<1>3. ASSUME NEW c \in Clients, ContextThread(c) PROVE IInv'
  BY <1>3, WaitStep, StopStep, EventsStep, SizeStep, ArrayStep,
     SendStatesStep, ClientDiesStep DEF ContextThread
<1>4. ASSUME NEW c \in Clients, CancelThread(c) PROVE IInv'
  BY <1>4, CancelUnregisterStep, CancelSignalStep DEF CancelThread
<1>5. ASSUME HotplugThread PROVE IInv'
  BY <1>5, SignalRemovalStep, CountStep DEF HotplugThread
<1>6. ASSUME NEW r \in 1 .. Slots, \/ CardEvent(r) \/ CardConnected(r)
                                  \/ ReaderAdded(r) \/ ReaderRemoved(r)
      PROVE  IInv'
  BY <1>1, <1>6, CardEventStep, CardConnectedStep, ReaderAddedStep,
     ReaderRemovedStep
<1>7. ASSUME NEW c \in Clients,
             \/ SCardListReaders(c) \/ SCardGetStatusChange(c)
             \/ SCardCancel(c) \/ Die(c) \/ CreateContextThread(c)
      PROVE  IInv'
  BY <1>1, <1>7, ListReadersStep, GetStatusChangeStep, SCardCancelStep,
     DieStep, CreateStep
<1>8. ASSUME Environment PROVE IInv'
  BY <1>6, <1>7, <1>8 DEF Environment
<1>9. CASE Next
  BY <1>2, <1>3, <1>4, <1>5, <1>8, <1>9, EventThreadStep DEF Next
<1>10. CASE UNCHANGED vars
  BY <1>10, StutterStep
<1> QED
  BY <1>9, <1>10

\* The inductive invariant: at every step of its call a client has exactly as
\* many words on their way to it as it will read, a registration counting for
\* the one notification it is answered by; whatever notifications, time-outs,
\* cancellations and events of the readers cross each other.
THEOREM EventInvariance ==
  ASSUME Assumptions PROVE Spec => []IInv
<1>1. Init => IInv
  BY InitIInv DEF Assumptions
<1>2. IInv /\ [Next]_vars => IInv'
  BY NextIInv
<1> QED
  BY <1>1, <1>2, PTL DEF Spec

\* The types; in particular no client is ever twice in ClientsWaitingForEvent,
\* which EHRegisterClientForEvent() does not check.
THEOREM EventTypes ==
  ASSUME Assumptions PROVE Spec => []TypeOK
<1>1. IInv => TypeOK
  BY DEF IInv, Types
<1> QED
  BY <1>1, EventInvariance, PTL

\* When a call has returned, nothing is left in the socket and the client is
\* not in ClientsWaitingForEvent: what unregisterFromEvents() says of the
\* server is true.
THEOREM Quietness ==
  ASSUME Assumptions PROVE Spec => []QuietBetweenCalls
<1>1. ASSUME IInv PROVE QuietBetweenCalls
  <2>1. SUFFICES ASSUME NEW c \in Clients, session[c] = "open", pc[c] = "idle"
                 PROVE  /\ toClient[c] = << >>
                        /\ toServer[c] \in {<< >>, <<"STOP_WAITING">>}
                        /\ sending[c] = 0 /\ waiting[c] = 0
    BY DEF QuietBetweenCalls
  <2>2. Types /\ OpenOK(c)
    BY <1>1, <2>1 DEF IInv, ClientOK
  <2>3. /\ toClient[c] = << >> /\ toServer[c] \in {qNone, qStop}
        /\ sending[c] = 0 /\ waiting[c] = 0
    BY <2>1, <2>2, IdleIsQuiet
  <2>4. qNone = << >> /\ qStop = <<"STOP_WAITING">>
    BY SentCommands DEF qNone
  <2> QED
    BY <2>3, <2>4
<1> QED
  BY <1>1, EventInvariance, PTL

\* A client that sleeps in SCardGetStatusChange() with nothing on its way is
\* in ClientsWaitingForEvent, and has compared the READER_STATEs there are: no
\* event gets lost between reading them and waiting.
THEOREM LostEvents ==
  ASSUME Assumptions PROVE Spec => []NoLostEvent
<1>1. ASSUME IInv PROVE NoLostEvent
  <2>1. SUFFICES ASSUME NEW c \in Clients, session[c] = "open",
                        pc[c] = "wait", toClient[c] = << >>,
                        toServer[c] = << >>, pending = 0,
                        hotplug # "signal", cancel[c] # "signal"
                 PROVE  waiting[c] = 1 /\ states[c] = Current
    BY DEF NoLostEvent
  <2>2. Types /\ OpenOK(c) /\ FreshOK(c)
    BY <1>1, <2>1 DEF IInv, ClientOK
  <2>3. PICK l \in Nat, n \in Nat, a \in {0, 1}, e \in Nat, g \in {0, 1},
             v \in {0, 1} : Account(c, l, n, a, e, g, v)
    BY <2>2, Books
  <2>4. l = 0 /\ n = 0 /\ a = 0 /\ g = 0
    <3>1. toServer[c] = qNone
      BY <2>1 DEF qNone
    <3>2. Len(toClient[c]) = 0
      BY <2>1
    <3> QED
      BY <2>1, <2>3, <3>1, <3>2, QueueCounts DEF Account, Signals
  <2>5. Due(c) = 2
    BY <2>1, <2>2, DueWords, OpOfStep DEF Due
  <2>6. e = 0 \/ e >= 4
    BY <2>2, <2>3, Kept, SendingWords DEF Account
  <2>7. 0 + 0 + e + 2 * (0 + v + 0) = 2
    BY <2>3, <2>4, <2>5 DEF Account
  <2>8. v = 1
    BY <2>6, <2>7
  <2>9. waiting[c] = 1
    BY <2>3, <2>8 DEF Account
  <2> QED
    BY <2>1, <2>2, <2>9 DEF FreshOK
<1> QED
  BY <1>1, EventInvariance, PTL

=============================================================================
