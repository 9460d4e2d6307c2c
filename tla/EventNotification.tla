-------------------------- MODULE EventNotification --------------------------
(***************************************************************************)
(* How clients learn of changes: SCardGetStatusChange(), SCardCancel() and *)
(* SCardListReaders() of winscard_clnt.c, the commands they send to the    *)
(* ContextThread() of winscard_svc.c, and the list of waiting clients in   *)
(* eventhandler.c.                                                         *)
(*                                                                         *)
(* The two sides talk over one socket per client.  Replies have no header: *)
(* the client reads as many bytes as the reply it expects is long.  The    *)
(* notification that something has changed is written into the same socket *)
(* by another thread of the server, at any moment while the client is in   *)
(* ClientsWaitingForEvent.  So the socket is modelled as what it carries,  *)
(* a sequence of 32-bit words, and a message by its length in words and    *)
(* the values of the words that are looked at.                             *)
(*                                                                         *)
(* A client is a file descriptor of the server.  When the process behind   *)
(* it dies the descriptor is closed and may be given to a new client.      *)
(*                                                                         *)
(* Left out: clients of protocol 4:5 and older, RFWaitForReaderInit(),     *)
(* readers marked SCARD_STATE_IGNORE, and the loss of the daemon.          *)
(***************************************************************************)
EXTENDS Integers, Sequences, FiniteSets

CONSTANTS
  Clients,            \* file descriptors of the server
  Slots,              \* entries of sReadersContexts
  Requests,           \* sets of readers and PnP to ask for
  Plugged,            \* the slots readers are put in
  ListFirst,          \* clients call SCardListReaders() first
  MaxChanges,         \* bound: changes of a reader
  MortalAt,           \* where in its calls a client may be killed
  MaxFaults           \* bound: calls of SCardCancel() and clients that die

PnP == 0              \* the pseudo reader \\?PnP?\Notification

ASSUME ConstantsAssumption ==
  /\ Slots \in Nat \ {0}
  /\ Plugged \subseteq 1 .. Slots
  /\ Requests \subseteq SUBSET (PnP .. Slots)
  /\ ListFirst \in BOOLEAN
  /\ MaxChanges \in Nat
  /\ MaxFaults \in Nat

VARIABLES
  \* the server
  readers,            \* the READER_STATE of each slot, four words
  ReaderEvents,       \* readers that came or went
  pending,            \* changes the event threads have not yet signalled
  hotplug,            \* what the hotplug thread has left to do
  changes,            \* changes so far
  waiting,            \* how often ClientsWaitingForEvent has each client
  session,            \* "open", "dead" (the process is), "closed"
  sending,            \* the next slot ContextThread() sends, or 0
  cancel,             \* the ContextThread() that serves a SCARD_CANCEL
  faults,             \* calls of SCardCancel(), clients that have died
  \* the sockets
  toServer,           \* commands
  toClient,           \* words
  \* the client
  pc,                 \* next step
  call,               \* arguments and local variables of the call
  maxContexts,        \* pcsclite_max_reader_context of the client
  states,             \* readerStates
  known               \* dwCurrentState of the next call

server  == <<readers, ReaderEvents, pending, hotplug, changes>>
daemon  == <<waiting, session, sending, cancel, faults>>
sockets == <<toServer, toClient>>
client  == <<pc, call, maxContexts, states, known>>
vars    == <<server, daemon, sockets, client>>

-----------------------------------------------------------------------------
\* Words.  The values only have to be different from each other.

SCARD_S_SUCCESS    == 0
SCARD_E_CANCELLED  == 90
SCARD_E_TIMEOUT    == 91
SCARD_E_UNKNOWN_READER == 92
SCARD_E_UNSUPPORTED_FEATURE == 93

SCARD_STATE_UNAWARE == 0
SCARD_STATE_UNKNOWN == 80

READER_NOT_INITIALIZED == 34

\* The start of readerName; 0 is the empty name.
Name(r) == 100 + r

\* struct wait_reader_state_change: timeOut and rv.
Notification(rv) == <<0, rv>>

\* READER_STATE: readerName, then eventCounter with readerState and
\* readerSharing, cardAtrLength and cardProtocol.
READER_STATE_WORDS == 4

ReaderState(r, e, atr, protocol) == <<Name(r), e, atr, protocol>>

NoReader == <<0, 0, READER_NOT_INITIALIZED, 0>>

-----------------------------------------------------------------------------
\* The client: sending and receiving.

Send(c, cmds) == toServer' = [toServer EXCEPT ![c] = @ \o cmds]

Available(c, n) == Len(toClient[c]) >= n

First(c, n) == SubSeq(toClient[c], 1, n)

\* MessageReceive(): n words are taken from the socket, which holds them.
MessageReceive(c, n) ==
  /\ Available(c, n)
  /\ toClient' = [toClient EXCEPT ![c] = SubSeq(@, n + 1, Len(@))]

Goto(c, step) == pc' = [pc EXCEPT ![c] = step]

NoCall == [op |-> "NONE", want |-> {}, infinite |-> FALSE, first |-> TRUE,
           timedOut |-> FALSE, rv |-> SCARD_S_SUCCESS, event |-> << >>,
           count |-> 0]

SetCall(c, k) == call' = [call EXCEPT ![c] = k]

\* The application uses the dwEventState it gets as the next dwCurrentState.
Return(c, rv) ==
  /\ Goto(c, "idle")
  /\ SetCall(c, NoCall)
  /\ known' = IF rv = SCARD_S_SUCCESS /\ call[c].op = "GET_STATUS_CHANGE"
              THEN [known EXCEPT ![c] =
                     [x \in DOMAIN @ |-> IF x \in DOMAIN call[c].event
                                         THEN call[c].event[x] ELSE @[x]]]
              ELSE known

\* The label end of SCardGetStatusChange().
Finish(c, k) ==
  /\ Send(c, <<"STOP_WAITING">>)
  /\ SetCall(c, k)
  /\ Goto(c, "endStop")

\* getReaderStatesAndRegisterForEvents(), up to the first answer.
GetReaderStatesAndRegisterForEvents(c) ==
  /\ Send(c, <<"WAIT_READER_STATE_CHANGE", "GET_READERS_STATE_SIZE">>)
  /\ Goto(c, "size")

-----------------------------------------------------------------------------
\* What the client finds in readerStates.

NameAt(buf, r)  == buf[READER_STATE_WORDS * (r - 1) + 1]
EventAt(buf, r) == buf[READER_STATE_WORDS * (r - 1) + 2]

\* The slots of readerStates.
SlotsOf(buf) == 1 .. (Len(buf) \div READER_STATE_WORDS)

Found(buf, r) == \E i \in SlotsOf(buf) : NameAt(buf, i) = Name(r)

ReaderCount(buf) == Cardinality({i \in SlotsOf(buf) : NameAt(buf, i) # 0})

\* dwEventState of a reader.
EventState(buf, r) ==
  IF Found(buf, r)
  THEN EventAt(buf, CHOOSE i \in SlotsOf(buf) : NameAt(buf, i) = Name(r))
  ELSE SCARD_STATE_UNKNOWN

AllKnown(buf, want) == \A r \in want \ {PnP} : Found(buf, r)

\* SCARD_STATE_CHANGED of a reader: the reader is gone or has come back, its
\* state is another one, or the application wants to know.
Changed(c, buf, r) ==
  EventState(buf, r) # known[c][r] \/ known[c][r] = SCARD_STATE_UNAWARE

\* dwEventState of all readers asked for; that of PnP is set by
\* getReaderEvents().
NewEvent(k, buf) ==
  [x \in k.want |-> IF x = PnP
                    THEN IF PnP \in DOMAIN k.event THEN k.event[PnP] ELSE 0
                    ELSE EventState(buf, x)]

\* The end of a round of the loop: return, or wait for a message.
Decide(c, k, buf, break) ==
  LET kk == [k EXCEPT !.event = NewEvent(k, buf)] IN
  IF break \/ \E r \in k.want \ {PnP} : Changed(c, buf, r)
  THEN Finish(c, [kk EXCEPT !.rv = SCARD_S_SUCCESS])
  ELSE /\ Goto(c, "wait")
       /\ SetCall(c, kk)
       /\ UNCHANGED toServer

-----------------------------------------------------------------------------
\* SCardListReaders(), and SCardStatus(), which asks for the same.
SCardListReaders(c) ==
  /\ session[c] = "open"
  /\ pc[c] = "idle"
  /\ Send(c, <<"GET_READERS_STATE_SIZE">>)
  /\ SetCall(c, [NoCall EXCEPT !.op = "LIST_READERS"])
  /\ Goto(c, "size")
  /\ UNCHANGED <<server, daemon, toClient, maxContexts, states, known>>

SCardGetStatusChange(c) ==
  /\ session[c] = "open"
  /\ pc[c] = "idle"
  /\ ListFirst => maxContexts[c] # 0
  /\ GetReaderStatesAndRegisterForEvents(c)
  /\ \E want \in Requests, infinite \in BOOLEAN :
       SetCall(c, [NoCall EXCEPT !.op = "GET_STATUS_CHANGE", !.want = want,
                                 !.infinite = infinite])
  /\ UNCHANGED <<server, daemon, toClient, maxContexts, states, known>>

\* getReaderStates(): the number of entries is read; the buffer grows, and
\* never shrinks.
ReceiveSize(c) ==
  LET size == First(c, 1)[1] IN
  /\ pc[c] = "size"
  /\ MessageReceive(c, 1)
  /\ IF size >= maxContexts[c]
     THEN /\ maxContexts' = [maxContexts EXCEPT ![c] = size]
          /\ Send(c, <<"GET_READERS_STATE_ARRAY">>)
          /\ Goto(c, "array")
          /\ UNCHANGED <<call, known>>
     ELSE /\ IF call[c].op = "LIST_READERS"
             THEN Return(c, SCARD_E_UNSUPPORTED_FEATURE) /\ UNCHANGED toServer
             ELSE /\ Finish(c, [call[c] EXCEPT
                                  !.rv = SCARD_E_UNSUPPORTED_FEATURE])
                  /\ UNCHANGED known
          /\ UNCHANGED maxContexts
  /\ UNCHANGED <<server, daemon, states>>

\* The entries are read, and SCardListReaders() is done.
ReceiveList(c) ==
  /\ pc[c] = "array"
  /\ call[c].op = "LIST_READERS"
  /\ MessageReceive(c, READER_STATE_WORDS * maxContexts[c])
  /\ states' = [states EXCEPT
                  ![c] = First(c, READER_STATE_WORDS * maxContexts[c])]
  /\ Return(c, SCARD_S_SUCCESS)
  /\ UNCHANGED <<server, daemon, toServer, maxContexts>>

\* The entries are read for the first time in SCardGetStatusChange().
ReceiveStates(c) ==
  LET n   == READER_STATE_WORDS * maxContexts[c]
      buf == First(c, n)
      k   == [call[c] EXCEPT !.first = FALSE, !.count = ReaderCount(buf)]
  IN
  /\ pc[c] = "array"
  /\ call[c].op = "GET_STATUS_CHANGE" /\ call[c].first
  /\ MessageReceive(c, n)
  /\ states' = [states EXCEPT ![c] = buf]
  /\ IF ~AllKnown(buf, k.want)
     THEN Finish(c, [k EXCEPT !.rv = SCARD_E_UNKNOWN_READER])
     ELSE IF PnP \in k.want
     THEN /\ Send(c, <<"GET_READER_EVENTS">>)
          /\ SetCall(c, k)
          /\ Goto(c, "firstEvents")
     ELSE Decide(c, k, buf, FALSE)
  /\ UNCHANGED <<server, daemon, maxContexts, known>>

\* getReaderEvents() before the loop.  The rv of the answer is not looked at.
ReceiveFirstEvents(c) ==
  LET events == First(c, 2)[1]
      k      == [call[c] EXCEPT !.event = [x \in {PnP} |-> events]]
  IN
  /\ pc[c] = "firstEvents"
  /\ MessageReceive(c, 2)
  /\ Decide(c, k, states[c],
            known[c][PnP] # 0 /\ known[c][PnP] # events)
  /\ UNCHANGED <<server, daemon, maxContexts, states, known>>

\* What is left of dwTime.
\* Mutant: the time spent in waiting is not subtracted.
TimeLeftForever(c) == {TRUE}

TimeLeft(c) ==
  IF call[c].infinite THEN {TRUE}
  ELSE IF call[c].timedOut THEN {FALSE} ELSE BOOLEAN

\* The entries are read again after a notification or a time-out.  The time
\* that is left is checked before the entries are.
ReceiveStatesAgain(c) ==
  LET n   == READER_STATE_WORDS * maxContexts[c]
      buf == First(c, n)
      k   == [call[c] EXCEPT !.count = ReaderCount(buf)]
  IN
  /\ pc[c] = "array"
  /\ call[c].op = "GET_STATUS_CHANGE" /\ ~call[c].first
  /\ MessageReceive(c, n)
  /\ states' = [states EXCEPT ![c] = buf]
  /\ \E left \in TimeLeft(c) :
       IF ~left
       THEN Finish(c, [call[c] EXCEPT !.rv = SCARD_E_TIMEOUT])
       ELSE IF PnP \in k.want /\ k.count # call[c].count
       THEN /\ Send(c, <<"GET_READER_EVENTS">>)
            /\ SetCall(c, k)
            /\ Goto(c, "events")
       ELSE Decide(c, [k EXCEPT !.timedOut = FALSE], buf, FALSE)
  /\ UNCHANGED <<server, daemon, maxContexts, known>>

\* getReaderEvents() in the loop, when the number of readers has changed.
ReceiveEvents(c) ==
  LET k == [call[c] EXCEPT !.event = [x \in {PnP} |-> First(c, 2)[1]]] IN
  /\ pc[c] = "events"
  /\ MessageReceive(c, 2)
  /\ Decide(c, k, states[c], TRUE)
  /\ UNCHANGED <<server, daemon, maxContexts, states, known>>

\* Mutant: the states are read again, but the client does not register again.
ContinueUnregistered(c, rv) ==
  IF rv = SCARD_S_SUCCESS
  THEN /\ Send(c, <<"GET_READERS_STATE_SIZE">>)
       /\ Goto(c, "size")
       /\ UNCHANGED <<call, known>>
  ELSE IF rv = SCARD_E_CANCELLED
  THEN Return(c, rv) /\ UNCHANGED toServer
  ELSE Finish(c, [call[c] EXCEPT !.rv = rv]) /\ UNCHANGED known

\* After a message with result rv: go on, or leave the loop.  After
\* SCARD_E_CANCELLED the client is not in the list any more.
Continue(c, rv) ==
  IF rv = SCARD_S_SUCCESS
  THEN /\ GetReaderStatesAndRegisterForEvents(c)
       /\ UNCHANGED <<call, known>>
  ELSE IF rv = SCARD_E_CANCELLED
  THEN Return(c, rv) /\ UNCHANGED toServer
  ELSE Finish(c, [call[c] EXCEPT !.rv = rv]) /\ UNCHANGED known

\* MessageReceiveTimeout() gets a message.
ReceiveNotification(c) ==
  /\ pc[c] = "wait"
  /\ MessageReceive(c, 2)
  /\ Continue(c, First(c, 2)[2])
  /\ UNCHANGED <<server, daemon, maxContexts, states>>

\* No message in time; what has been read of one is lost.  An infinite wait
\* is one of 60 seconds, repeated.
Timeout(c) ==
  /\ pc[c] = "wait"
  /\ ~Available(c, 2)
  /\ toClient' = [toClient EXCEPT ![c] = << >>]
  /\ Send(c, <<"STOP_WAITING">>)
  /\ SetCall(c, [call[c] EXCEPT !.timedOut = TRUE])
  /\ Goto(c, "stop")
  /\ UNCHANGED <<server, daemon, maxContexts, states, known>>

\* unregisterFromEvents(): one message comes, the answer to STOP_WAITING or
\* the notification that has crossed it.
ReceiveStop(c) ==
  /\ pc[c] = "stop"
  /\ MessageReceive(c, 2)
  /\ Continue(c, First(c, 2)[2])
  /\ UNCHANGED <<server, daemon, maxContexts, states>>

\* unregisterFromEvents() at the end; its result is ignored.
ReceiveEndStop(c) ==
  /\ pc[c] = "endStop"
  /\ MessageReceive(c, 2)
  /\ Return(c, call[c].rv)
  /\ UNCHANGED <<server, daemon, toServer, maxContexts, states>>

-----------------------------------------------------------------------------
\* The server: words for a client that has died are lost.

Write(c, words) ==
  toClient' = [toClient EXCEPT
                 ![c] = IF session[c] = "open" THEN @ \o words ELSE @]

\* list_delete() removes one entry.
EHUnregisterClientForEvent(c) ==
  waiting' = [waiting EXCEPT ![c] = IF @ > 0 THEN @ - 1 ELSE 0]

\* ContextThread() takes the next command of its client.
Command(c, cmd) ==
  /\ session[c] # "closed"
  /\ sending[c] = 0
  /\ toServer[c] # << >>
  /\ Head(toServer[c]) = cmd
  /\ toServer' = [toServer EXCEPT ![c] = Tail(@)]

\* WRITE_BODY() to a client that has died ends the thread.
Exit(c) == session' = [session EXCEPT ![c] = "closed"]

Answer(c, words) ==
  IF session[c] = "open" THEN Write(c, words) /\ UNCHANGED session
                         ELSE Exit(c) /\ UNCHANGED toClient

WaitReaderStateChange(c) ==
  /\ Command(c, "WAIT_READER_STATE_CHANGE")
  /\ waiting' = [waiting EXCEPT ![c] = @ + 1]
  /\ UNCHANGED <<server, session, sending, cancel, faults, toClient, client>>

\* Mutant: a client that is not in the list any more gets an answer too.
StopWaitingAlways(c) == TRUE

\* The answer is sent only if the client is still in the list.
StopWaitingAnswered(c) == waiting[c] > 0

StopWaitingReaderStateChange(c) ==
  /\ Command(c, "STOP_WAITING")
  /\ EHUnregisterClientForEvent(c)
  /\ IF StopWaitingAnswered(c)
     THEN Answer(c, Notification(SCARD_S_SUCCESS))
     ELSE UNCHANGED <<toClient, session>>
  /\ UNCHANGED <<server, sending, cancel, faults, client>>

GetReaderEvents(c) ==
  /\ Command(c, "GET_READER_EVENTS")
  /\ Answer(c, <<ReaderEvents, SCARD_S_SUCCESS>>)
  /\ UNCHANGED <<server, waiting, sending, cancel, faults, client>>

\* The result of this MessageSend() is not looked at.
GetReadersStateSize(c) ==
  /\ Command(c, "GET_READERS_STATE_SIZE")
  /\ Write(c, <<Slots>>)
  /\ UNCHANGED <<server, daemon, client>>

GetReadersStateArray(c) ==
  /\ Command(c, "GET_READERS_STATE_ARRAY")
  /\ sending' = [sending EXCEPT ![c] = 1]
  /\ UNCHANGED <<server, waiting, session, cancel, faults, toClient, client>>

\* MSGSendReaderStates(): one MessageSend() per entry.
MSGSendReaderStates(c) ==
  /\ sending[c] # 0
  /\ Write(c, readers[sending[c]])
  /\ sending' = [sending EXCEPT ![c] = IF @ = Slots THEN 0 ELSE @ + 1]
  /\ UNCHANGED <<server, waiting, session, cancel, faults, toServer, client>>

\* MessageReceive() finds the socket closed.
\* Mutant: the client is not removed from the list.
ForgetNothing(c) == UNCHANGED waiting

EHTryToUnregisterClientForEvent(c) == EHUnregisterClientForEvent(c)

ClientDies(c) ==
  /\ session[c] = "dead"
  /\ sending[c] = 0
  /\ toServer[c] = << >>
  /\ EHTryToUnregisterClientForEvent(c)
  /\ Exit(c)
  /\ UNCHANGED <<server, sending, cancel, faults, sockets, client>>

-----------------------------------------------------------------------------
\* SCardCancel(), from another thread of the client, while the flag
\* cancellable is set; it has a connection of its own to the server.
SCardCancel(c) ==
  /\ session[c] = "open"
  /\ pc[c] = "wait"
  /\ cancel[c] = "idle"
  /\ faults < MaxFaults
  /\ faults' = faults + 1
  /\ cancel' = [cancel EXCEPT ![c] = "unregister"]
  /\ UNCHANGED <<server, waiting, session, sending, sockets, client>>

\* SCARD_CANCEL: only a client that is still waiting is signalled.
CancelSignals(c) == waiting[c] > 0

CancelUnregister(c) ==
  /\ cancel[c] = "unregister"
  /\ EHUnregisterClientForEvent(c)
  /\ cancel' = [cancel EXCEPT ![c] = IF CancelSignals(c) THEN "signal"
                                                         ELSE "idle"]
  /\ UNCHANGED <<server, session, sending, faults, sockets, client>>

CancelSignal(c) ==
  /\ cancel[c] = "signal"
  /\ Write(c, Notification(SCARD_E_CANCELLED))
  /\ cancel' = [cancel EXCEPT ![c] = "idle"]
  /\ UNCHANGED <<server, waiting, session, sending, faults, toServer, client>>

-----------------------------------------------------------------------------
\* The event thread of a reader changes its entry and then calls
\* EHSignalEventToClients(); so does the hotplug thread when a reader goes.

Change ==
  /\ changes < MaxChanges
  /\ changes' = changes + 1
  /\ UNCHANGED <<daemon, sockets, client>>

\* A card is inserted or removed.
CardEvent(r) ==
  /\ Change
  /\ readers[r] # NoReader
  /\ readers' = [readers EXCEPT ![r] =
                   ReaderState(r, readers[r][2] + 1,
                               IF readers[r][3] = 0 THEN 3 ELSE 0, 0)]
  /\ pending' = pending + 1
  /\ UNCHANGED <<ReaderEvents, hotplug>>

\* The first SCardConnect() to a card: cardProtocol and readerSharing change,
\* and the event thread finds that contexts is not what it was.
CardConnected(r) ==
  /\ Change
  /\ readers[r] # NoReader
  /\ readers[r][3] # 0
  /\ readers[r][4] = 0
  /\ readers' = [readers EXCEPT ![r] =
                   ReaderState(r, readers[r][2] + 1, readers[r][3], 2)]
  /\ pending' = pending + 1
  /\ UNCHANGED <<ReaderEvents, hotplug>>

\* RFAddReader(): the new event thread signals the reader, and ReaderEvents is
\* incremented, in any order.
ReaderAdded(r) ==
  /\ Change
  /\ hotplug = "idle"
  /\ r \in Plugged
  /\ readers[r] = NoReader
  /\ readers' = [readers EXCEPT ![r] = ReaderState(r, 1, 0, 0)]
  /\ pending' = pending + 1
  /\ hotplug' = "count"
  /\ UNCHANGED ReaderEvents

\* RFRemoveReader(): removeReader() clears the entry and signals it, then
\* ReaderEvents is incremented.
ReaderRemoved(r) ==
  /\ Change
  /\ hotplug = "idle"
  /\ readers[r] # NoReader
  /\ readers' = [readers EXCEPT ![r] = NoReader]
  /\ hotplug' = "signal"
  /\ UNCHANGED <<ReaderEvents, pending>>

CountReaderEvent ==
  /\ hotplug = "count"
  /\ ReaderEvents' = ReaderEvents + 1
  /\ hotplug' = "idle"
  /\ UNCHANGED <<readers, pending, changes, daemon, sockets, client>>

\* Every entry of the list gets a notification, and the list is cleared.
\* Mutant: the list is not.
ListKept == UNCHANGED waiting

ListCleared == waiting' = [c \in Clients |-> 0]

Repeat(n, s) == IF n = 0 THEN << >> ELSE IF n = 1 THEN s ELSE s \o s

EHSignalEventToClients ==
  /\ toClient' =
       [c \in Clients |->
          IF session[c] = "open"
          THEN toClient[c] \o Repeat(waiting[c], Notification(SCARD_S_SUCCESS))
          ELSE toClient[c]]
  /\ ListCleared
  /\ UNCHANGED <<readers, ReaderEvents, changes, session, sending, cancel,
                 faults, toServer, client>>

EventThread ==
  /\ pending > 0
  /\ pending' = pending - 1
  /\ EHSignalEventToClients
  /\ UNCHANGED hotplug

SignalRemoval ==
  /\ hotplug = "signal"
  /\ hotplug' = "count"
  /\ EHSignalEventToClients
  /\ UNCHANGED pending

HotplugThread == SignalRemoval \/ CountReaderEvent

-----------------------------------------------------------------------------
\* The process of a client is killed.
Die(c) ==
  /\ session[c] = "open"
  /\ pc[c] \in MortalAt
  /\ faults < MaxFaults
  /\ faults' = faults + 1
  /\ session' = [session EXCEPT ![c] = "dead"]
  /\ pc' = [pc EXCEPT ![c] = "dead"]
  /\ call' = [call EXCEPT ![c] = NoCall]
  /\ toClient' = [toClient EXCEPT ![c] = << >>]
  /\ UNCHANGED <<server, waiting, sending, cancel, toServer,
                 maxContexts, states, known>>

NoKnowledge == [x \in PnP .. Slots |-> SCARD_STATE_UNAWARE]

\* A new client connects and gets the descriptor that has been closed.
CreateContextThread(c) ==
  /\ session[c] = "closed"
  /\ session' = [session EXCEPT ![c] = "open"]
  /\ pc' = [pc EXCEPT ![c] = "idle"]
  /\ maxContexts' = [maxContexts EXCEPT ![c] = 0]
  /\ states' = [states EXCEPT ![c] = << >>]
  /\ known' = [known EXCEPT ![c] = NoKnowledge]
  /\ toServer' = [toServer EXCEPT ![c] = << >>]
  /\ UNCHANGED <<server, waiting, sending, cancel, faults, toClient, call>>

-----------------------------------------------------------------------------
Init ==
  /\ readers = [r \in 1 .. Slots |-> IF r \in Plugged
                                     THEN ReaderState(r, 1, 0, 0)
                                     ELSE NoReader]
  /\ ReaderEvents = 1
  /\ pending = 0
  /\ hotplug = "idle"
  /\ changes = 0
  /\ waiting = [c \in Clients |-> 0]
  /\ session = [c \in Clients |-> "open"]
  /\ sending = [c \in Clients |-> 0]
  /\ cancel = [c \in Clients |-> "idle"]
  /\ faults = 0
  /\ toServer = [c \in Clients |-> << >>]
  /\ toClient = [c \in Clients |-> << >>]
  /\ pc = [c \in Clients |-> "idle"]
  /\ call = [c \in Clients |-> NoCall]
  /\ maxContexts = [c \in Clients |-> 0]
  /\ states = [c \in Clients |-> << >>]
  /\ known = [c \in Clients |-> NoKnowledge]

ClientStep(c) ==
  \/ ReceiveSize(c)
  \/ ReceiveList(c)
  \/ ReceiveStates(c)
  \/ ReceiveFirstEvents(c)
  \/ ReceiveStatesAgain(c)
  \/ ReceiveEvents(c)
  \/ ReceiveNotification(c)
  \/ Timeout(c)
  \/ ReceiveStop(c)
  \/ ReceiveEndStop(c)

ContextThread(c) ==
  \/ WaitReaderStateChange(c)
  \/ StopWaitingReaderStateChange(c)
  \/ GetReaderEvents(c)
  \/ GetReadersStateSize(c)
  \/ GetReadersStateArray(c)
  \/ MSGSendReaderStates(c)
  \/ ClientDies(c)

CancelThread(c) == CancelUnregister(c) \/ CancelSignal(c)

Environment ==
  \/ \E r \in 1 .. Slots :
       CardEvent(r) \/ CardConnected(r) \/ ReaderAdded(r) \/ ReaderRemoved(r)
  \/ \E c \in Clients :
       \/ SCardListReaders(c)
       \/ SCardGetStatusChange(c)
       \/ SCardCancel(c)
       \/ Die(c)
       \/ CreateContextThread(c)

Next ==
  \/ \E c \in Clients : ClientStep(c) \/ ContextThread(c) \/ CancelThread(c)
  \/ EventThread
  \/ HotplugThread
  \/ Environment

Spec == Init /\ [][Next]_vars

\* The threads of the daemon and of the clients are scheduled, and time
\* passes while a client waits.
FairSpec ==
  /\ Spec
  /\ WF_vars(EventThread)
  /\ WF_vars(HotplugThread)
  /\ \A c \in Clients : /\ WF_vars(ClientStep(c))
                        /\ WF_vars(ContextThread(c))
                        /\ WF_vars(CancelThread(c))

-----------------------------------------------------------------------------
\* Properties

\* The type of the state; in particular EHRegisterClientForEvent() never
\* appends a client to the list that is in it already, so that an event sends
\* it one notification and one EHUnregisterClientForEvent() takes it off.
TypeOK ==
  /\ readers \in [1 .. Slots -> Seq(Nat)]
  /\ ReaderEvents \in Nat /\ pending \in Nat /\ changes \in Nat
  /\ hotplug \in {"idle", "signal", "count"}
  /\ faults \in 0 .. MaxFaults
  /\ waiting \in [Clients -> 0 .. 1]
  /\ session \in [Clients -> {"open", "dead", "closed"}]
  /\ sending \in [Clients -> 0 .. Slots]
  /\ cancel \in [Clients -> {"idle", "unregister", "signal"}]
  /\ toServer \in [Clients -> Seq({"WAIT_READER_STATE_CHANGE",
       "STOP_WAITING", "GET_READER_EVENTS", "GET_READERS_STATE_SIZE",
       "GET_READERS_STATE_ARRAY"})]
  /\ toClient \in [Clients -> Seq(Nat)]
  /\ pc \in [Clients -> {"idle", "size", "array", "firstEvents", "events",
                         "wait", "stop", "endStop", "dead"}]
  /\ maxContexts \in [Clients -> Nat]
  /\ states \in [Clients -> Seq(Nat)]
  /\ known \in [Clients -> [PnP .. Slots -> Nat]]

\* unregisterFromEvents(): "The server side ensures, that no more messages
\* will be sent to the client."  Between two calls nothing is left in the
\* socket, the client is not in the list, and no command that will be answered
\* is on its way, whatever notification, time-out and cancellation have
\* crossed: the next reply the client reads is the one to its next command.
QuietBetweenCalls ==
  \A c \in Clients :
    session[c] = "open" /\ pc[c] = "idle" =>
      /\ toClient[c] = << >>
      /\ toServer[c] \in {<< >>, <<"STOP_WAITING">>}
      /\ sending[c] = 0
      /\ waiting[c] = 0

\* The READER_STATEs as they are sent.
Current ==
  [i \in 1 .. READER_STATE_WORDS * Slots |->
     readers[1 + ((i - 1) \div READER_STATE_WORDS)]
            [1 + ((i - 1) % READER_STATE_WORDS)]]

\* No change is missed: a client that waits with nothing to read is in the
\* list, and what it has compared is what the readers are, as soon as all
\* changes have been signalled and no cancellation is under way.
NoLostEvent ==
  \A c \in Clients :
    (/\ session[c] = "open" /\ pc[c] = "wait"
     /\ toClient[c] = << >> /\ toServer[c] = << >>
     /\ pending = 0 /\ hotplug # "signal"
     /\ cancel[c] # "signal")
    => waiting[c] = 1 /\ states[c] = Current

\* ContextThread() "Clean[s] up the dead client": a descriptor is in the list
\* only while the client that has registered it is there, or its thread is
\* about to notice that it is not; a new client never inherits the entry.
NoStaleWaiter ==
  \A c \in Clients :
    waiting[c] > 0 => \/ session[c] = "dead"
                      \/ session[c] = "open" /\ pc[c] # "idle"

\* SCARD_E_TIMEOUT: "The user-specified timeout value has expired": a call
\* with a time-out returns.
CallsReturn ==
  \A c \in Clients :
    (pc[c] # "idle" /\ ~call[c].infinite) ~> (pc[c] \in {"idle", "dead"})

\* SCardCancel() "Cancels a specific blocking SCardGetStatusChange()": when
\* the server has taken a client off the list to cancel it, its call returns.
CancelEndsCall ==
  \A c \in Clients : (cancel[c] = "signal") ~> (pc[c] \in {"idle", "dead"})

=============================================================================
