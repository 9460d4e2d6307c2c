--------------------------- MODULE ClientLibrary ---------------------------
(***************************************************************************)
(* The client side of PC/SC, libpcsclite: winscard_clnt.c and the socket   *)
(* functions of winscard_msg.c, in one application with several threads.   *)
(*                                                                         *)
(* A thread finds the SCONTEXTMAP of a context or of a card handle under   *)
(* clientMutex, locks the mMutex of that context, exchanges messages with  *)
(* the daemon over the socket of the context and unlocks it.  Each thread  *)
(* uses a context of its own, as the documentation asks, except to cancel  *)
(* or to test the context of another thread.                               *)
(*                                                                         *)
(* pc[t] names the step thread t is about to do.  A function is cut into   *)
(* steps wherever another thread or the daemon may act.  Calls with wrong  *)
(* parameters return before they do anything and are not written out, and  *)
(* the buffers of the application are left out.  SCardGetStatusChange() is *)
(* in EventNotification.                                                   *)
(***************************************************************************)
EXTENDS Integers, Sequences, FiniteSets

CONSTANTS
  Threads,      \* threads of the application
  Contexts,     \* the values of hContext the daemon can draw
  Handles,      \* the values of hCard the daemons can draw
  Maps,         \* addresses of SCONTEXTMAP structures, each with its socket
  NoThread, NoContext, NoHandle, NULL,
  Functions,    \* the functions the application calls
  Versions,     \* protocol versions of the daemons that may be running
  MemoryFails,  \* malloc() may fail in the library
  MaxRestarts,  \* bound: daemons started after the first one
  FixedTable,   \* PCSCLITE_MAX_READERS_CONTEXTS, the table of an old daemon
  MaxTable,     \* bound: the size the table of a daemon grows to
  sharing_shall_block  \* FALSE when PCSCLITE_NO_BLOCKING is set

ContextFunctions == {"RELEASE", "CONNECT", "LIST_READERS", "LIST_GROUPS"}
HandleFunctions  == {"RECONNECT", "DISCONNECT", "BEGIN", "END", "STATUS",
                     "TRANSMIT", "CONTROL", "ATTRIB"}
AllFunctions     == {"ESTABLISH", "CANCEL", "IS_VALID"}
                      \cup ContextFunctions \cup HandleFunctions
AllVersions      == {"same", "older", "incompatible"}

ASSUME ClientLibraryAssumption ==
  /\ NoThread \notin Threads
  /\ NoContext \notin Contexts
  /\ NoHandle \notin Handles
  /\ NULL \notin Maps
  /\ Functions \subseteq AllFunctions
  /\ Versions \subseteq AllVersions /\ Versions # {}
  /\ MemoryFails \in BOOLEAN
  /\ MaxRestarts \in Nat
  /\ FixedTable \in Nat \ {0}
  /\ MaxTable \in Nat \ {0}
  /\ sharing_shall_block \in BOOLEAN

VARIABLES
  \* the library
  clientMutex,         \* owner of clientMutex
  listLock,            \* owner of contextMapList_lock
  readerStatesMutex,   \* owner of readerStatesMutex
  contextMapList,      \* the contexts of the application
  hContext,            \* of each SCONTEXTMAP
  mMutex,              \* owner of the mMutex of each SCONTEXTMAP
  channelMapList,      \* the handles of each SCONTEXTMAP
  allocated,           \* the SCONTEXTMAPs that exist
  protocolVersion,     \* Protocol_version, of the daemon last talked to
  maxReaderContext,    \* pcsclite_max_reader_context
  \* the sockets
  session,             \* "closed", "open", or "broken" by the daemon
  requests, replies,   \* messages on their way
  \* the threads of the application
  pc, call,
  myContext, myHandles,
  \* the daemon
  daemon,              \* version, size of its table, daemons started so far
  serverContext,       \* the hContext of each session
  serverHandles,       \* the cardsList of each session
  drawn,               \* handles drawn so far
  \* history
  raced                \* the table has grown while a client was reading it

locksVars  == <<clientMutex, listLock, readerStatesMutex, mMutex>>
mapVars    == <<contextMapList, hContext, channelMapList, allocated>>
clientVars == <<protocolVersion, maxReaderContext>>
wireVars   == <<session, requests, replies>>
appVars    == <<myContext, myHandles>>
serverVars == <<daemon, serverContext, serverHandles, drawn>>
vars == <<locksVars, mapVars, clientVars, wireVars, pc, call, appVars,
          serverVars, raced>>

-----------------------------------------------------------------------------
\* Control of a thread.

\* A call: its arguments, the SCONTEXTMAP it has found, the requests it has
\* yet to send, its place in contextMapList and the protocol version it
\* proposes.
Call(f, c, h) ==
  [f |-> f, hContext |-> c, hCard |-> h, map |-> NULL, todo |-> <<>>,
   index |-> 1, version |-> "same"]

NoCall == Call("NONE", NoContext, NoHandle)

Goto(t, step) == pc' = [pc EXCEPT ![t] = step]

SetCall(t, c) == call' = [call EXCEPT ![t] = c]

Return(t) == Goto(t, "idle") /\ SetCall(t, NoCall)

\* The call is over but for the mMutex of its context, or for the socket when
\* there is no context yet.
Finish(t) ==
  /\ Goto(t, IF call[t].f = "ESTABLISH" THEN "cleanup" ELSE "unlock")
  /\ UNCHANGED call

\* getReaderStates(): an old daemon has a table of fixed size.
GetReaderStates ==
  IF protocolVersion = "older" THEN <<"STATE">> ELSE <<"SIZE", "ARRAY">>

\* The requests of a call, in the order it sends them.
RequestsOf(f) ==
  CASE f = "LIST_READERS" -> GetReaderStates
    [] f = "STATUS"       -> Append(GetReaderStates, "STATUS")
    [] f = "LIST_GROUPS"  -> <<>>
    [] f = "ESTABLISH"    -> <<"VERSION", "ESTABLISH">>
    [] OTHER              -> <<f>>

\* The functions that use readerStates[].
UsesReaderStates(f) == f \in {"STATUS", "LIST_READERS"}

\* The functions that poll while another application holds the card.
Blocks(f) ==
  \/ f = "BEGIN"
  \/ sharing_shall_block /\ f \in {"RECONNECT", "STATUS", "TRANSMIT"}

\* The daemon sends a buffer after the answer.
HasData(cmd, rv) == cmd \in {"TRANSMIT", "CONTROL"} /\ rv = "SUCCESS"

-----------------------------------------------------------------------------
\* winscard_msg.c

\* A socket that neither side uses.
Unused(m) ==
  /\ session[m] = "closed"
  /\ m \notin allocated
  /\ serverContext[m] = NoContext

\* A new socket, connected to the daemon.
ClientSetupSession(m) ==
  /\ session' = [session EXCEPT ![m] = "open"]
  /\ requests' = [requests EXCEPT ![m] = <<>>]
  /\ replies' = [replies EXCEPT ![m] = <<>>]

ClientCloseSession(m) == session' = [session EXCEPT ![m] = "closed"]

\* The header and the body of a request; the data too when there are any.
MessageSendWithHeader(m, msg) ==
  requests' = [requests EXCEPT ![m] = Append(@, msg)]

\* Reads n entries of a message: what is left of a longer one stays.
MessageReceive(m, n) ==
  replies' =
    [replies EXCEPT ![m] =
       IF Head(@).n > n
       THEN <<[Head(@) EXCEPT !.n = @ - n, !.cmd = "REST", !.rv = "ERROR"]>>
              \o Tail(@)
       ELSE Tail(@)]

Answered(m) == replies[m] # <<>>

\* The daemon has closed the socket and everything it sent has been read.
PeerClosed(m) == session[m] = "broken" /\ replies[m] = <<>>

-----------------------------------------------------------------------------
\* Finding and locking a context.

SCardLockThread(t)   == clientMutex = NoThread /\ clientMutex' = t
SCardUnlockThread(t) == clientMutex' = NoThread

\* The application calls a function on a context: its own, or any of them to
\* cancel or to test it.
CallContext(t, f, c) ==
  /\ pc[t] = "idle"
  /\ f \in Functions
  /\ SetCall(t, Call(f, c, NoHandle))
  /\ Goto(t, "enter")
  /\ UNCHANGED <<locksVars, mapVars, clientVars, wireVars, appVars,
                 serverVars>>

\* The application calls a function on a handle it was given, which it may
\* have disconnected or lost with its context since.
CallHandle(t, f, h) ==
  /\ pc[t] = "idle"
  /\ f \in Functions
  /\ h \in myHandles[t]
  /\ SetCall(t, Call(f, NoContext, h))
  /\ Goto(t, "enter")
  /\ UNCHANGED <<locksVars, mapVars, clientVars, wireVars, appVars,
                 serverVars>>

Enter(t) ==
  /\ pc[t] = "enter"
  /\ SCardLockThread(t)
  /\ Goto(t, IF call[t].f \in HandleFunctions THEN "seekLock" ELSE "lookup")
  /\ UNCHANGED <<listLock, readerStatesMutex, mMutex, mapVars, clientVars,
                 wireVars, call, appVars, serverVars>>

\* list_seek() of contextMapList, under contextMapList_lock.
SCardGetContextTH(c) ==
  {m \in Maps : /\ \E i \in DOMAIN contextMapList : contextMapList[i] = m
                /\ hContext[m] = c}

\* SCardGetAndLockContext(), SCardGetContextValidity() and SCardCancel().
Lookup(t) ==
  /\ pc[t] = "lookup"
  /\ listLock = NoThread
  /\ LET found == SCardGetContextTH(call[t].hContext)
     IN \/ /\ found = {}
           /\ SCardUnlockThread(t)
           /\ Return(t)
        \/ \E m \in found :
             /\ SetCall(t, [call[t] EXCEPT !.map = m])
             /\ Goto(t, IF call[t].f \in ContextFunctions THEN "lock"
                                                          ELSE "peek")
             /\ UNCHANGED clientMutex
  /\ UNCHANGED <<listLock, readerStatesMutex, mMutex, mapVars, clientVars,
                 wireVars, appVars, serverVars>>

\* SCardCancel() reads cancellable; the rest of it is in EventNotification.
\* SCardIsValidContext() and SCardFreeMemory() only need the pointer.
Peek(t) ==
  /\ pc[t] = "peek"
  /\ SCardUnlockThread(t)
  /\ Return(t)
  /\ UNCHANGED <<listLock, readerStatesMutex, mMutex, mapVars, clientVars,
                 wireVars, appVars, serverVars>>

\* SCardGetContextAndChannelFromHandleTH() takes contextMapList_lock; it runs
\* under clientMutex at the start of a call, without it in SCardRemoveHandle().
SeekLock(t) ==
  /\ pc[t] \in {"seekLock", "removeHandle"}
  /\ listLock = NoThread
  /\ listLock' = t
  /\ SetCall(t, [call[t] EXCEPT !.index = 1])
  /\ Goto(t, IF pc[t] = "seekLock" THEN "seek" ELSE "removeSeek")
  /\ UNCHANGED <<clientMutex, readerStatesMutex, mMutex, mapVars, clientVars,
                 wireVars, appVars, serverVars>>

Seeking(t) == pc[t] \in {"seek", "removeSeek"}

\* The context whose channelMapList the loop is about to search.
SoughtMap(t) == contextMapList[call[t].index]

SeekNext(t) ==
  /\ Seeking(t)
  /\ call[t].index <= Len(contextMapList)
  /\ call[t].hCard \notin channelMapList[SoughtMap(t)]
  /\ SetCall(t, [call[t] EXCEPT !.index = @ + 1])
  /\ UNCHANGED <<locksVars, mapVars, clientVars, wireVars, pc, appVars,
                 serverVars>>

SeekFound(t) ==
  /\ Seeking(t)
  /\ call[t].index <= Len(contextMapList)
  /\ call[t].hCard \in channelMapList[SoughtMap(t)]
  /\ listLock' = NoThread
  /\ SetCall(t, [call[t] EXCEPT !.map = SoughtMap(t)])
  /\ Goto(t, IF pc[t] = "seek" THEN "lock" ELSE "deleteHandle")
  /\ UNCHANGED <<clientMutex, readerStatesMutex, mMutex, mapVars, clientVars,
                 wireVars, appVars, serverVars>>

\* The handle is in no list: SCARD_E_INVALID_HANDLE at the start of a call.
SeekNotFound(t) ==
  /\ Seeking(t)
  /\ call[t].index > Len(contextMapList)
  /\ listLock' = NoThread
  /\ IF pc[t] = "seek" THEN SCardUnlockThread(t) /\ Return(t)
                       ELSE UNCHANGED clientMutex /\ Finish(t)
  /\ UNCHANGED <<readerStatesMutex, mMutex, mapVars, clientVars, wireVars,
                 appVars, serverVars>>

\* The thread waits for mMutex while it holds clientMutex.
LockContext(t) ==
  /\ pc[t] = "lock"
  /\ mMutex[call[t].map] = NoThread
  /\ mMutex' = [mMutex EXCEPT ![call[t].map] = t]
  /\ SCardUnlockThread(t)
  /\ Goto(t, IF UsesReaderStates(call[t].f) THEN "states" ELSE "send")
  /\ SetCall(t, [call[t] EXCEPT !.todo = RequestsOf(call[t].f)])
  /\ UNCHANGED <<listLock, readerStatesMutex, mapVars, clientVars, wireVars,
                 appVars, serverVars>>

LockReaderStates(t) ==
  /\ pc[t] = "states"
  /\ readerStatesMutex = NoThread
  /\ readerStatesMutex' = t
  /\ Goto(t, "send")
  /\ UNCHANGED <<clientMutex, listLock, mMutex, mapVars, clientVars, wireVars,
                 call, appVars, serverVars>>

-----------------------------------------------------------------------------
\* Talking to the daemon.

\* What a request carries: the version proposed, a handle or a context.
Argument(t, cmd) ==
  CASE cmd = "VERSION" -> call[t].version
    [] cmd = "RELEASE" -> call[t].hContext
    [] OTHER           -> call[t].hCard

Request(t, cmd) == [cmd |-> cmd, arg |-> Argument(t, cmd)]

\* A table larger than that of an old daemon cannot be shrunk.
TableTooLarge(n) == maxReaderContext > n

Send(t) ==
  LET m == call[t].map
      cmd == Head(call[t].todo)
  IN /\ pc[t] = "send"
     /\ call[t].todo # <<>>
     /\ session[m] = "open"
     /\ cmd = "STATE" => ~TableTooLarge(FixedTable)
     /\ MessageSendWithHeader(m, Request(t, cmd))
     /\ maxReaderContext' = IF cmd = "STATE" THEN FixedTable ELSE maxReaderContext
     /\ Goto(t, "receive")
     /\ UNCHANGED <<locksVars, mapVars, protocolVersion, session, replies,
                    call, appVars, serverVars>>

\* Nothing to send, MessageSend() fails, or the table is too large.
SendNothing(t) ==
  /\ pc[t] = "send"
  /\ \/ call[t].todo = <<>>
     \/ session[call[t].map] = "broken"
     \/ /\ call[t].todo # <<>>
        /\ Head(call[t].todo) = "STATE"
        /\ TableTooLarge(FixedTable)
  /\ Finish(t)
  /\ UNCHANGED <<locksVars, mapVars, clientVars, wireVars, appVars,
                 serverVars>>

ReceiveFails(t) ==
  /\ pc[t] \in {"receive", "receiveData"}
  /\ PeerClosed(call[t].map)
  /\ Finish(t)
  /\ UNCHANGED <<locksVars, mapVars, clientVars, wireVars, appVars,
                 serverVars>>

\* The thread reads the answer to cmd.
FirstAnswer(t) == Head(replies[call[t].map])

Receives(t, cmd) ==
  LET m == call[t].map
  IN /\ pc[t] = "receive"
     /\ Head(call[t].todo) = cmd
     /\ Answered(m)
     /\ MessageReceive(m, IF cmd \in {"ARRAY", "STATE"}
                          THEN maxReaderContext ELSE 1)
     /\ UNCHANGED <<session, requests>>

\* The call goes on with its next request.
SendNext(t) ==
  /\ SetCall(t, [call[t] EXCEPT !.todo = Tail(@)])
  /\ Goto(t, "send")

\* CMD_VERSION: an older daemon refuses the version and is asked again with
\* its own.
ReceiveVersion(t) ==
  LET a == FirstAnswer(t) IN
    /\ Receives(t, "VERSION")
    /\ \/ /\ a.rv = "SUCCESS"
          /\ protocolVersion' = a.value
          /\ SendNext(t)
       \/ /\ a.rv = "STOPPED" /\ a.value = "older"
          /\ SetCall(t, [call[t] EXCEPT !.version = a.value])
          /\ Goto(t, "send")
          /\ UNCHANGED protocolVersion
       \/ /\ a.rv = "STOPPED" /\ a.value # "older"
          /\ Finish(t)
          /\ UNCHANGED protocolVersion
    /\ UNCHANGED <<locksVars, mapVars, maxReaderContext, appVars, serverVars>>

\* Mutant: a context that exists already is accepted.
AcceptAnyContext(c) == TRUE

\* The check that an hContext is not one the application has.
IsNewContext(c) == SCardGetContextTH(c) = {}

\* SCARD_ESTABLISH_CONTEXT: asks again when the value is in use.
ReceiveContext(t) ==
  LET a == FirstAnswer(t) IN
    /\ listLock = NoThread
    /\ Receives(t, "ESTABLISH")
    /\ \/ /\ a.rv = "SUCCESS" /\ ~IsNewContext(a.value)
          /\ Goto(t, "send")
          /\ UNCHANGED call
       \/ /\ a.rv = "SUCCESS" /\ IsNewContext(a.value)
          /\ Goto(t, "addContext")
          /\ SetCall(t, [call[t] EXCEPT !.hContext = a.value])
       \/ /\ a.rv # "SUCCESS"
          /\ Finish(t)
    /\ UNCHANGED <<locksVars, mapVars, clientVars, appVars, serverVars>>

\* CMD_GET_READERS_STATE_SIZE: readerStates[] grows, and never shrinks.
ReceiveSize(t) ==
  LET a == FirstAnswer(t) IN
    /\ Receives(t, "SIZE")
    /\ \/ /\ ~TableTooLarge(a.value)
          /\ maxReaderContext' = a.value
          /\ SendNext(t)
       \/ /\ TableTooLarge(a.value)
          /\ Finish(t)
          /\ UNCHANGED maxReaderContext
    /\ UNCHANGED <<locksVars, mapVars, protocolVersion, appVars, serverVars>>

\* The states of the readers; SCardStatus() may not find its reader there.
ReceiveStates(t) ==
  LET a == FirstAnswer(t) IN
    /\ \/ Receives(t, "ARRAY")
       \/ Receives(t, "STATE")
    /\ \/ call[t].f = "STATUS" /\ SendNext(t)
       \/ Finish(t)
    /\ UNCHANGED <<locksVars, mapVars, clientVars, appVars, serverVars>>

\* SCARD_CONNECT
ReceiveHandle(t) ==
  LET a == FirstAnswer(t) IN
    /\ Receives(t, "CONNECT")
    /\ \/ /\ a.rv = "SUCCESS"
          /\ SetCall(t, [call[t] EXCEPT !.hCard = a.value])
          /\ Goto(t, "addHandle")
       \/ /\ a.rv # "SUCCESS"
          /\ Finish(t)
    /\ UNCHANGED <<locksVars, mapVars, clientVars, appVars, serverVars>>

\* The other commands.
ReceiveResult(t) ==
  LET a == FirstAnswer(t) IN
  \E cmd \in {"RELEASE"} \cup HandleFunctions :
    /\ Receives(t, cmd)
    /\ \/ /\ HasData(cmd, a.rv)
          /\ Goto(t, "receiveData") /\ UNCHANGED call
       \/ /\ cmd = "DISCONNECT" /\ a.rv = "SUCCESS"
          /\ Goto(t, "removeHandle") /\ UNCHANGED call
       \/ /\ Blocks(cmd) /\ a.rv = "SHARING_VIOLATION"
          /\ Goto(t, "retry") /\ UNCHANGED call
       \/ /\ ~HasData(cmd, a.rv)
          /\ ~(cmd = "DISCONNECT" /\ a.rv = "SUCCESS")
          /\ ~(Blocks(cmd) /\ a.rv = "SHARING_VIOLATION")
          /\ Finish(t)
    /\ UNCHANGED <<locksVars, mapVars, clientVars, appVars, serverVars>>

ReceiveData(t) ==
  /\ pc[t] = "receiveData"
  /\ Answered(call[t].map)
  /\ MessageReceive(call[t].map, 1)
  /\ Finish(t)
  /\ UNCHANGED <<locksVars, mapVars, clientVars, session, requests, appVars,
                 serverVars>>

-----------------------------------------------------------------------------
\* Contexts and handles of the application.

\* Mutant: readerStatesMutex stays locked.
UnlockOneMutex(t) ==
  /\ mMutex' = [mMutex EXCEPT ![call[t].map] = NoThread]
  /\ UNCHANGED readerStatesMutex

\* The mutexes a call holds once its context is locked.
UnlockContext(t) ==
  /\ mMutex' = [mMutex EXCEPT ![call[t].map] = NoThread]
  /\ readerStatesMutex' = IF readerStatesMutex = t THEN NoThread
                                                   ELSE readerStatesMutex

\* SCARD_E_SHARING_VIOLATION: unlocks, sleeps and starts again.
Retry(t) ==
  /\ pc[t] = "retry"
  /\ UnlockContext(t)
  /\ SetCall(t, Call(call[t].f, NoContext, call[t].hCard))
  /\ Goto(t, "enter")
  /\ UNCHANGED <<clientMutex, listLock, mapVars, clientVars, wireVars,
                 appVars, serverVars>>

Unlock(t) ==
  /\ pc[t] = "unlock"
  /\ UnlockContext(t)
  /\ IF call[t].f = "RELEASE" THEN Goto(t, "removeContext") /\ UNCHANGED call
                              ELSE Return(t)
  /\ UNCHANGED <<clientMutex, listLock, mapVars, clientVars, wireVars,
                 appVars, serverVars>>

\* SCardEstablishContext(), under clientMutex until the context is there.
SCardEstablishContext(t) ==
  /\ pc[t] = "idle"
  /\ "ESTABLISH" \in Functions
  /\ myContext[t] = NoContext
  /\ daemon.running
  /\ SCardLockThread(t)
  /\ \E m \in Maps :
       /\ Unused(m)
       /\ ClientSetupSession(m)
       /\ SetCall(t, [Call("ESTABLISH", NoContext, NoHandle) EXCEPT
                        !.map = m, !.todo = RequestsOf("ESTABLISH")])
  /\ Goto(t, "send")
  /\ UNCHANGED <<listLock, readerStatesMutex, mMutex, mapVars, clientVars,
                 appVars, serverVars>>

EstablishCleanup(t) ==
  /\ pc[t] = "cleanup"
  /\ ClientCloseSession(call[t].map)
  /\ SCardUnlockThread(t)
  /\ Return(t)
  /\ UNCHANGED <<listLock, readerStatesMutex, mMutex, mapVars, clientVars,
                 requests, replies, appVars, serverVars>>

SCardAddContext(t) ==
  LET m == call[t].map
  IN /\ pc[t] = "addContext"
     /\ listLock = NoThread
     /\ allocated' = allocated \cup {m}
     /\ hContext' = [hContext EXCEPT ![m] = call[t].hContext]
     /\ channelMapList' = [channelMapList EXCEPT ![m] = {}]
     /\ contextMapList' = Append(contextMapList, m)
     /\ myContext' = [myContext EXCEPT ![t] = call[t].hContext]
     /\ SCardUnlockThread(t)
     /\ Return(t)
     /\ UNCHANGED <<listLock, readerStatesMutex, mMutex, clientVars,
                    wireVars, myHandles, serverVars>>

\* No memory for the context: the call fails and its socket stays open.
SCardAddContextFails(t) ==
  /\ MemoryFails
  /\ pc[t] = "addContext"
  /\ SCardUnlockThread(t)
  /\ Return(t)
  /\ UNCHANGED <<listLock, readerStatesMutex, mMutex, mapVars, clientVars,
                 wireVars, appVars, serverVars>>

SCardAddHandle(t) ==
  LET m == call[t].map
      h == call[t].hCard
  IN /\ pc[t] = "addHandle"
     /\ \/ /\ channelMapList' = [channelMapList EXCEPT ![m] = @ \cup {h}]
           /\ myHandles' = [myHandles EXCEPT ![t] = @ \cup {h}]
        \/ /\ MemoryFails
           /\ UNCHANGED <<channelMapList, myHandles>>
     /\ Finish(t)
     /\ UNCHANGED <<locksVars, contextMapList, hContext, allocated,
                    clientVars, wireVars, myContext, serverVars>>

\* Mutant: the handle stays in the list.
KeepHandle(m, h) == UNCHANGED channelMapList

DeleteHandle(m, h) ==
  channelMapList' = [channelMapList EXCEPT ![m] = @ \ {h}]

\* SCardRemoveHandle(), once it has found the context again.
SCardRemoveHandle(t) ==
  /\ pc[t] = "deleteHandle"
  /\ DeleteHandle(call[t].map, call[t].hCard)
  /\ Finish(t)
  /\ UNCHANGED <<locksVars, contextMapList, hContext, allocated, clientVars,
                 wireVars, appVars, serverVars>>

\* SCardRemoveContext() under clientMutex.
SCardRemoveContext(t) ==
  /\ pc[t] = "removeContext"
  /\ SCardLockThread(t)
  /\ Goto(t, "cleanSession")
  /\ UNCHANGED <<listLock, readerStatesMutex, mMutex, mapVars, clientVars,
                 wireVars, call, appVars, serverVars>>

\* SCardCleanContext(): the steps other threads may see.
CleanSession(t) ==
  /\ pc[t] = "cleanSession"
  /\ listLock = NoThread
  /\ hContext' = [hContext EXCEPT ![call[t].map] = NoContext]
  /\ ClientCloseSession(call[t].map)
  /\ Goto(t, "cleanChannels")
  /\ UNCHANGED <<locksVars, contextMapList, channelMapList, allocated,
                 clientVars, requests, replies, call, appVars, serverVars>>

CleanChannels(t) ==
  /\ pc[t] = "cleanChannels"
  /\ channelMapList' = [channelMapList EXCEPT ![call[t].map] = {}]
  /\ Goto(t, "cleanList")
  /\ UNCHANGED <<locksVars, contextMapList, hContext, allocated, clientVars,
                 wireVars, call, appVars, serverVars>>

\* Mutant: the context stays in the list.
KeepInList(m) == UNCHANGED contextMapList

\* list_delete(): the entry that is m, which is in the list, is taken out.
DeleteFromList(m) ==
  \E i \in DOMAIN contextMapList :
    /\ contextMapList[i] = m
    /\ contextMapList' = [j \in 1 .. Len(contextMapList) - 1 |->
                            contextMapList[IF j < i THEN j ELSE j + 1]]

CleanList(t) ==
  /\ pc[t] = "cleanList"
  /\ listLock = NoThread
  /\ DeleteFromList(call[t].map)
  /\ Goto(t, "freeContext")
  /\ UNCHANGED <<locksVars, hContext, channelMapList, allocated, clientVars,
                 wireVars, call, appVars, serverVars>>

FreeContext(t) ==
  /\ pc[t] = "freeContext"
  /\ allocated' = allocated \ {call[t].map}
  /\ myContext' = [myContext EXCEPT ![t] = NoContext]
  /\ SCardUnlockThread(t)
  /\ Return(t)
  /\ UNCHANGED <<listLock, readerStatesMutex, mMutex, contextMapList,
                 hContext, channelMapList, clientVars, wireVars, myHandles,
                 serverVars>>

-----------------------------------------------------------------------------
\* The functions of the API, which go through the steps above.  The ones on a
\* context are given the context of the thread.

SCardReleaseContext(t) ==
  myContext[t] # NoContext /\ CallContext(t, "RELEASE", myContext[t])

SCardConnect(t) ==
  myContext[t] # NoContext /\ CallContext(t, "CONNECT", myContext[t])

SCardListReaders(t) ==
  myContext[t] # NoContext /\ CallContext(t, "LIST_READERS", myContext[t])

SCardListReaderGroups(t) ==
  myContext[t] # NoContext /\ CallContext(t, "LIST_GROUPS", myContext[t])

SCardCancel(t) == \E c \in Contexts : CallContext(t, "CANCEL", c)

SCardIsValidContext(t) == \E c \in Contexts : CallContext(t, "IS_VALID", c)

SCardReconnect(t)        == \E h \in Handles : CallHandle(t, "RECONNECT", h)
SCardDisconnect(t)       == \E h \in Handles : CallHandle(t, "DISCONNECT", h)
SCardBeginTransaction(t) == \E h \in Handles : CallHandle(t, "BEGIN", h)
SCardEndTransaction(t)   == \E h \in Handles : CallHandle(t, "END", h)
SCardStatus(t)           == \E h \in Handles : CallHandle(t, "STATUS", h)
SCardTransmit(t)         == \E h \in Handles : CallHandle(t, "TRANSMIT", h)
SCardControl(t)          == \E h \in Handles : CallHandle(t, "CONTROL", h)
SCardGetSetAttrib(t)     == \E h \in Handles : CallHandle(t, "ATTRIB", h)

-----------------------------------------------------------------------------
\* The daemon, as ContextThread() in winscard_svc.c answers.

\* An answer; the table of readers has n entries, all others one.
Answer(cmd, rv, value, n) ==
  [cmd |-> cmd, rv |-> rv, value |-> value, n |-> n]

\* Mutant: the data follow whatever the result.
DataAlways(cmd, rv) ==
  IF cmd \in {"TRANSMIT", "CONTROL"} THEN <<Answer("DATA", rv, 0, 1)>>
                                     ELSE <<>>

\* The buffer the daemon sends after the answer.
DataOf(cmd, rv) ==
  IF HasData(cmd, rv) THEN <<Answer("DATA", rv, 0, 1)>> ELSE <<>>

Reply(m, msgs) ==
  /\ requests' = [requests EXCEPT ![m] = Tail(@)]
  /\ replies' = [replies EXCEPT ![m] = @ \o msgs]

\* The thread of session m reads one of the requests cmds.
FirstRequest(m) == Head(requests[m])

ServerReceives(m, cmds) ==
  /\ session[m] = "open"
  /\ requests[m] # <<>>
  /\ FirstRequest(m).cmd \in cmds

ServeVersion(m) ==
  LET q == FirstRequest(m) IN
    /\ ServerReceives(m, {"VERSION"})
    /\ Reply(m, <<Answer("VERSION",
                         IF q.arg = daemon.version THEN "SUCCESS"
                                                   ELSE "STOPPED",
                         daemon.version, 1)>>)
    /\ UNCHANGED <<session, serverVars>>

\* The value is random: it may be one that is in use.
ServeEstablish(m, c) ==
  /\ ServerReceives(m, {"ESTABLISH"})
  /\ serverContext' = [serverContext EXCEPT ![m] = c]
  /\ Reply(m, <<Answer("ESTABLISH", "SUCCESS", c, 1)>>)
  /\ UNCHANGED <<session, daemon, serverHandles, drawn>>

ServeTable(m) ==
  LET q == FirstRequest(m) IN
    /\ ServerReceives(m, {"SIZE", "ARRAY", "STATE"})
    /\ \/ /\ q.cmd = "SIZE"
          /\ Reply(m, <<Answer("SIZE", "SUCCESS", daemon.table, 1)>>)
       \/ /\ q.cmd = "ARRAY"
          /\ Reply(m, <<Answer("ARRAY", "SUCCESS", 0, daemon.table)>>)
       \/ /\ q.cmd = "STATE"
          /\ Reply(m, <<Answer("STATE", "SUCCESS", 0, FixedTable)>>)
    /\ UNCHANGED <<session, serverVars>>

ServeConnect(m) ==
  /\ ServerReceives(m, {"CONNECT"})
  /\ \/ \E h \in Handles \ drawn :
          /\ drawn' = drawn \cup {h}
          /\ serverHandles' = [serverHandles EXCEPT ![m] = @ \cup {h}]
          /\ Reply(m, <<Answer("CONNECT", "SUCCESS", h, 1)>>)
     \/ /\ Reply(m, <<Answer("CONNECT", "ERROR", NoHandle, 1)>>)
        /\ UNCHANGED <<drawn, serverHandles>>
  /\ UNCHANGED <<session, daemon, serverContext>>

ServeRelease(m) ==
  /\ ServerReceives(m, {"RELEASE"})
  /\ serverContext' = [serverContext EXCEPT ![m] = NoContext]
  /\ serverHandles' = [serverHandles EXCEPT ![m] = {}]
  /\ Reply(m, <<Answer("RELEASE", "SUCCESS", 0, 1)>>)
  /\ UNCHANGED <<session, daemon, drawn>>

\* The results a command on a handle may have.
ServerResults == {"SUCCESS", "SHARING_VIOLATION", "ERROR"}

HandleAnswered(m) ==
  LET q == FirstRequest(m) IN
  \E rv \in ServerResults :
    /\ serverHandles' =
         IF q.cmd = "DISCONNECT" /\ rv = "SUCCESS"
         THEN [serverHandles EXCEPT ![m] = @ \ {q.arg}] ELSE serverHandles
    /\ Reply(m, <<Answer(q.cmd, rv, 0, 1)>> \o DataOf(q.cmd, rv))
    /\ UNCHANGED <<session, serverContext>>

\* The thread of the session ends: MSGCleanupClient().
SessionEnds(m) ==
  /\ session' = [session EXCEPT ![m] = "broken"]
  /\ requests' = [requests EXCEPT ![m] = <<>>]
  /\ serverContext' = [serverContext EXCEPT ![m] = NoContext]
  /\ serverHandles' = [serverHandles EXCEPT ![m] = {}]
  /\ UNCHANGED replies

\* MSGCheckHandleAssociation(): a handle that is not one of the session ends
\* it.
ServeHandle(m) ==
  /\ ServerReceives(m, HandleFunctions)
  /\ IF FirstRequest(m).arg \in serverHandles[m] THEN HandleAnswered(m)
                                                 ELSE SessionEnds(m)
  /\ UNCHANGED <<daemon, drawn>>

\* The client has closed the socket: MSGCleanupClient().
ServerCleanup(m) ==
  /\ session[m] = "closed"
  /\ serverContext[m] # NoContext
  /\ serverContext' = [serverContext EXCEPT ![m] = NoContext]
  /\ serverHandles' = [serverHandles EXCEPT ![m] = {}]
  /\ UNCHANGED <<wireVars, daemon, drawn>>

\* A client has been told the size of the table and has yet to be sent it.
ReadsTable ==
  \E t \in Threads :
    /\ pc[t] \in {"send", "receive"}
    /\ call[t].todo # <<>>
    /\ \/ Head(call[t].todo) = "ARRAY"
       \/ Head(call[t].todo) = "SIZE" /\ Answered(call[t].map)

\* RFReAllocateReaderSpace()
TableGrows ==
  /\ daemon.running
  /\ daemon.table < MaxTable
  /\ daemon' = [daemon EXCEPT !.table = @ + 1]
  /\ UNCHANGED <<wireVars, serverContext, serverHandles, drawn>>

\* The daemon dies; what it has sent can still be read.
Crash ==
  /\ daemon.running
  /\ daemon.started <= MaxRestarts
  /\ daemon' = [daemon EXCEPT !.running = FALSE]
  /\ session' = [m \in Maps |-> IF session[m] = "open" THEN "broken"
                                                       ELSE session[m]]
  /\ requests' = [m \in Maps |-> <<>>]
  /\ serverContext' = [m \in Maps |-> NoContext]
  /\ serverHandles' = [m \in Maps |-> {}]
  /\ UNCHANGED <<replies, drawn>>

Restart ==
  /\ ~daemon.running
  /\ \E v \in Versions :
       daemon' = [running |-> TRUE, version |-> v, table |-> 1,
                  started |-> daemon.started + 1]
  /\ UNCHANGED <<wireVars, serverContext, serverHandles, drawn>>

Serve(m) ==
  \/ ServeVersion(m)
  \/ \E c \in Contexts : ServeEstablish(m, c)
  \/ ServeTable(m)
  \/ ServeConnect(m)
  \/ ServeRelease(m)
  \/ ServeHandle(m)
  \/ ServerCleanup(m)

-----------------------------------------------------------------------------
Init ==
  /\ clientMutex = NoThread
  /\ listLock = NoThread
  /\ readerStatesMutex = NoThread
  /\ contextMapList = <<>>
  /\ hContext = [m \in Maps |-> NoContext]
  /\ mMutex = [m \in Maps |-> NoThread]
  /\ channelMapList = [m \in Maps |-> {}]
  /\ allocated = {}
  /\ protocolVersion = "none"
  /\ maxReaderContext = 0
  /\ session = [m \in Maps |-> "closed"]
  /\ requests = [m \in Maps |-> <<>>]
  /\ replies = [m \in Maps |-> <<>>]
  /\ pc = [t \in Threads |-> "idle"]
  /\ call = [t \in Threads |-> NoCall]
  /\ myContext = [t \in Threads |-> NoContext]
  /\ myHandles = [t \in Threads |-> {}]
  /\ \E v \in Versions :
       daemon = [running |-> TRUE, version |-> v, table |-> 1, started |-> 1]
  /\ serverContext = [m \in Maps |-> NoContext]
  /\ serverHandles = [m \in Maps |-> {}]
  /\ drawn = {}
  /\ raced = FALSE

\* The application calls a function that talks to the daemon.
Calls(t) ==
  \/ SCardReleaseContext(t) \/ SCardConnect(t) \/ SCardListReaders(t)
  \/ SCardListReaderGroups(t)
  \/ SCardReconnect(t) \/ SCardDisconnect(t) \/ SCardBeginTransaction(t)
  \/ SCardEndTransaction(t) \/ SCardStatus(t) \/ SCardTransmit(t)
  \/ SCardControl(t) \/ SCardGetSetAttrib(t) \/ SCardEstablishContext(t)

\* The library goes on with the call.
Continue(t) ==
  \/ Enter(t) \/ Lookup(t) \/ Peek(t) \/ SeekLock(t) \/ SeekNext(t)
  \/ SeekFound(t) \/ SeekNotFound(t) \/ LockContext(t) \/ LockReaderStates(t)
  \/ Send(t) \/ SendNothing(t) \/ ReceiveFails(t) \/ ReceiveVersion(t)
  \/ ReceiveContext(t) \/ ReceiveSize(t) \/ ReceiveStates(t)
  \/ ReceiveHandle(t) \/ ReceiveResult(t) \/ ReceiveData(t) \/ Retry(t)
  \/ Unlock(t) \/ EstablishCleanup(t) \/ SCardAddContext(t)
  \/ SCardAddContextFails(t) \/ SCardAddHandle(t) \/ SCardRemoveHandle(t)
  \/ SCardRemoveContext(t) \/ CleanSession(t) \/ CleanChannels(t)
  \/ CleanList(t) \/ FreeContext(t)

\* What the application's side does not see directly.
Daemon ==
  /\ \/ \E m \in Maps : Serve(m)
     \/ TableGrows \/ Crash \/ Restart
  /\ UNCHANGED <<locksVars, mapVars, clientVars, pc, call, appVars>>

\* The history of ReadsTable.
NoteGrowth ==
  raced' = (raced \/ (daemon'.table > daemon.table /\ ReadsTable))

\* Bound: the calls under way end, but what the library would make of a
\* socket that is out of step is not followed further.
Next ==
  /\ \/ \E t \in Threads : ~raced /\ Calls(t)
     \/ \E t \in Threads : SCardCancel(t) \/ SCardIsValidContext(t)
     \/ \E t \in Threads : Continue(t)
     \/ Daemon
  /\ NoteGrowth

Spec == Init /\ [][Next]_vars

-----------------------------------------------------------------------------
\* Properties

\* Nothing is left on the socket of a context that no call uses.
SocketIsEmpty(m) ==
  session[m] # "closed" /\ mMutex[m] = NoThread
    => requests[m] = <<>> /\ replies[m] = <<>>

\* mMutex makes each exchange of messages atomic: whenever no call uses a
\* context, nothing is left on its socket that a later call would take for
\* its own answer, as long as the table of the daemon has not grown between
\* the two answers of a getReaderStates().
StreamInSync == raced \/ \A m \in allocated : SocketIsEmpty(m)

\* "Read a message from the server": the library reads the messages it is
\* sent to their end, whatever readers are plugged in meanwhile.
AllIsRead == \A m \in allocated : SocketIsEmpty(m)

\* "check we do not reuse an existing hContext": an hContext names one
\* context of the application, even when a restarted daemon draws a value
\* its predecessor had drawn.
ContextsAreDistinct ==
  \A i, j \in DOMAIN contextMapList :
    /\ i # j
    /\ hContext[contextMapList[i]] # NoContext
    => hContext[contextMapList[i]] # hContext[contextMapList[j]]

\* The SCONTEXTMAP the next step of thread t uses, if any.
Dereferences(t, m) ==
  \/ Seeking(t) /\ call[t].index <= Len(contextMapList) /\ m = SoughtMap(t)
  \/ /\ m = call[t].map
     /\ pc[t] \in {"peek", "lock", "receive", "receiveData", "retry",
                   "unlock", "addHandle", "deleteHandle", "cleanSession",
                   "cleanChannels", "cleanList"}
     /\ call[t].f # "ESTABLISH"

\* SCardReleaseContext() frees the SCONTEXTMAP under clientMutex: no other
\* thread, in particular one that cancels or tests the context or searches
\* the list for a handle, is still using it.
NoUseAfterFree ==
  \A t \in Threads, m \in Maps : Dereferences(t, m) => m \in allocated

\* The handles the library knows are handles the daemon knows, for every
\* context that is not being used and whose daemon is alive: no call of a
\* well-behaved application makes the daemon close its session.
HandlesAgree ==
  \A m \in allocated :
    session[m] = "open" /\ mMutex[m] = NoThread /\ hContext[m] # NoContext
      /\ serverContext[m] # NoContext
      => channelMapList[m] \subseteq serverHandles[m]

\* Thread t is about to read, or to change, the channelMapList of m.
ReadsChannels(t, m) ==
  Seeking(t) /\ call[t].index <= Len(contextMapList) /\ m = SoughtMap(t)

WritesChannels(t, m) ==
  pc[t] \in {"addHandle", "deleteHandle", "cleanChannels"} /\ m = call[t].map

\* "Ensure that some functions be accessed in thread-safe mode.  These
\* function's names finishes with 'TH'": no thread changes the list of handles
\* SCardGetContextAndChannelFromHandleTH() is reading.
ChannelListsAreGuarded ==
  \A m \in Maps, t, u \in Threads :
    t # u => ~(ReadsChannels(t, m) /\ WritesChannels(u, m))

\* "Should never happen": the table of the daemon is never smaller than the
\* table the library has read before.
TableNeverShrinks ==
  \A t \in Threads :
    pc[t] = "receive" /\ Answered(call[t].map)
      => LET a == Head(replies[call[t].map])
         IN a.cmd = "SIZE" => ~TableTooLarge(a.value)

\* The thread that holds the mutex thread t waits for, NoThread when t does not
\* wait for a mutex.
WaitsFor(t) ==
  CASE pc[t] \in {"enter", "removeContext"}       -> clientMutex
    [] pc[t] \in {"lookup", "seekLock", "removeHandle", "addContext",
                  "cleanSession", "cleanList"}    -> listLock
    [] pc[t] = "lock"                             -> mMutex[call[t].map]
    [] pc[t] = "states"                           -> readerStatesMutex
    [] OTHER                                      -> NoThread

\* Thread t goes on by itself, or the daemon has something to do for it.
Proceeds(t) ==
  /\ pc[t] # "idle"
  /\ WaitsFor(t) = NoThread
  /\ pc[t] \in {"receive", "receiveData"} =>
       \/ session[call[t].map] = "broken"
       \/ requests[call[t].map] # <<>>
       \/ replies[call[t].map] # <<>>

\* No call waits for ever for clientMutex, contextMapList_lock, an mMutex or
\* readerStatesMutex, nor for an answer that does not come: whoever waits
\* waits, directly or through one other thread, for a thread that proceeds.
NobodyIsStuck ==
  \A t \in Threads :
    \/ pc[t] = "idle"
    \/ Proceeds(t)
    \/ /\ WaitsFor(t) # NoThread
       /\ \/ Proceeds(WaitsFor(t))
          \/ /\ WaitsFor(WaitsFor(t)) # NoThread
             /\ Proceeds(WaitsFor(WaitsFor(t)))

=============================================================================
